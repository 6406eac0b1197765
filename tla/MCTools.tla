------------------------------ MODULE MCTools ------------------------------
(***************************************************************************)
(* What one worker does for one job, and that it ends: the upload of an    *)
(* output, by Lumiere or by pncurl alone, and the run of a tool.  Which of *)
(* the instances is chosen in the initial state.                           *)
(***************************************************************************)
EXTENDS Naturals

VARIABLES which, a, b, c, d, e, f, g, h, i, j, k

slots == <<a, b, c, d, e, f, g, h, i, j, k>>
toolsVars == <<which, slots>>

\* To Drive alone, in chunks and with a cancellation; to Drive and to a host
\* whose listing holds other transfers too, with the failures that its limits
\* are about, or with a cancellation.
MCRemotes == {"byse"}
UploadKinds == {"drive", "hosts", "cancelled"}
HostsOf(u) == IF u = "drive" THEN {} ELSE MCRemotes
ChunksOf(u) == IF u = "drive" THEN 3 ELSE 1
CancelsOf(u) == u # "hosts"
MishapsOf(u) == IF u = "cancelled" THEN 1 ELSE 2
Uploaded(u) == INSTANCE Lumiere WITH
  Remotes <- HostsOf(u), Strangers <- {"byse"}, Chunks <- ChunksOf(u), DriveRetryLimit <- 1,
  StatusErrorLimit <- 2, Deadline <- 3, StallLimit <- 1, Cancels <- CancelsOf(u),
  MaxFaults <- MishapsOf(u),
  cancelFile <- a, drive <- b, store <- c, remote <- d, served <- e, registered <- f,
  host <- g, events <- h, job <- i, record <- j, faults <- k

\* Every task of a tool, with reboots of a layer that works, a tool that cannot
\* be started and lines that are not text.
AllTasks == [kind : {"direct", "scrape", "encode", "join"}, intro : BOOLEAN]
Tool == INSTANCE ToolRun WITH
  Tasks <- AllTasks, MaxPieces <- 2, MaxMishaps <- 2, ToolFaults <- {"garbled", "spawn", "reboot"},
  task <- a, worker <- b, pass <- c, tool <- d, out <- e, ffmpeg <- f, left <- g, file <- h,
  pieces <- i, cancel <- j, mishaps <- k

\* pncurl's uploads: to all hosts at once, and to Drive alone in three runs, one
\* after the other, into folders that contain each other.
HostKinds == {"all hosts", "drive folders"}
PathsOf(u) == IF u = "all hosts" THEN {<<>>} ELSE {<<"a">>, <<"a", "b">>, <<"b", "a">>}
RunsOf(u) == IF u = "all hosts" THEN 1 ELSE 3
PiecesOf(u) == IF u = "all hosts" THEN 2 ELSE 1
Posted(u) == INSTANCE HostUploads WITH
  Paths <- PathsOf(u), Backups <- {u = "drive folders"}, Pieces <- PiecesOf(u),
  MaxRuns <- RunsOf(u), AtOnce <- 1, MaxUploadFaults <- 1, MaxStops <- 1,
  folders <- a, files <- b, cached <- c, run <- d, task <- e, inbox <- f, told <- g,
  stopped <- h, faults <- i

Sends(u) == which = u /\ UNCHANGED which
Runs == which = "tool" /\ UNCHANGED which

ToolsInit ==
  \/ \E u \in UploadKinds : which = u /\ Uploaded(u)!LumiereInit
  \/ \E u \in HostKinds : which = u /\ Posted(u)!UploadInit /\ j = "none" /\ k = "none"
  \/ which = "tool" /\ Tool!RunInit
ToolsNext ==
  \/ \E u \in UploadKinds : Sends(u) /\ Uploaded(u)!LumiereNext
  \/ \E u \in HostKinds : Sends(u) /\ Posted(u)!UploadNext /\ UNCHANGED <<j, k>>
  \/ Runs /\ Tool!RunNext
ToolsSpec == ToolsInit /\ [][ToolsNext]_toolsVars

\* The fairness of Lumiere and of ToolRun.
ToolsFairness ==
  /\ WF_toolsVars(\E u \in UploadKinds : Sends(u) /\ Uploaded(u)!DriveStep)
  /\ WF_toolsVars(\E u \in UploadKinds : Sends(u) /\ Uploaded(u)!JobStep)
  /\ \A r \in MCRemotes :
       WF_toolsVars(\E u \in UploadKinds \ {"drive"} : Sends(u) /\ Uploaded(u)!RemoteStep(r))
  /\ WF_toolsVars(Runs /\ Tool!WorkerStep)
  /\ WF_toolsVars(Runs /\ Tool!TimedOut)
  /\ WF_toolsVars(Runs /\ Tool!Pnmpeg)
  /\ WF_toolsVars(Runs /\ Tool!Ends)
  /\ WF_toolsVars(Runs /\ Tool!Stuck /\ Tool!Stalled)
  /\ WF_toolsVars(Runs /\ b = "panicked" /\ Tool!Reboot)

-----------------------------------------------------------------------------
\* An upload's links are real, no file is left in Drive that nobody knows of
\* (lumiere-broker/upload.rs, uploadworker.rs), and the files of one path are in
\* one folder (lib/http/curl/core.rs).
LinksAndFilesAgree ==
  /\ \A u \in UploadKinds :
       which = u => Uploaded(u)!LinksAreReal /\ Uploaded(u)!NothingForgottenOnDrive
  /\ \A u \in HostKinds :
       which = u => Posted(u)!LinksAreOfFiles /\ Posted(u)!FilesAreTogether

\* A worker that was given a job reports: no answer of Drive, no host that
\* stands still and no failure of a tool holds it for ever (uploadworker.rs,
\* util.rs run_tool).
AtWork ==
  \/ which \in UploadKinds /\ i.at # "ended"
  \/ which = "tool" /\ b \notin Tool!Reports
WorkersReport == AtWork ~> ~AtWork

\* A reboot leaves no encoder behind that competes with the next one
\* (util.rs:149-150, core.rs:1523).
OneEncoder == which = "tool" => Tool!OneEncoder
=============================================================================
