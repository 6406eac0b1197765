------------------------------ MODULE ToolRun ------------------------------
(***************************************************************************)
(* One job in the hands of a worker that runs a tool: pncurl for a direct  *)
(* link or for Google Drive, pnmpeg for an encode or a join.               *)
(*                                                                         *)
(* The worker (run_tool) reads the lines the tool prints: 0 is progress, 1 *)
(* done, 2 failed, 3 cancelled.  The first of the last three decides, and  *)
(* the tool is killed; a tool that ends without one is judged by its exit  *)
(* code.  pncurl polls the file CANCEL when a piece of the body arrives.   *)
(* pnmpeg runs ffmpeg, reads its error stream and polls CANCEL for every   *)
(* line of it.  The shrine may drop the worker, which kills the tool, but  *)
(* not the tool's own child; the job is then given to the next worker.     *)
(***************************************************************************)
EXTENDS Naturals, Sequences

CONSTANTS
  Tasks,          \* what may be asked for: [kind, intro]
  MaxPieces,      \* pieces of a body, or lines of ffmpeg, before the end
  MaxMishaps,     \* bound on reboots of a layer that works and on failed starts
  ToolFaults      \* of {"garbled", "spawn", "reboot"}: see Garbled, Unspawned and Reboot

VARIABLES
  task,     \* what the worker was asked for
  worker,   \* idle, reading, or how it ended
  pass,     \* an encode with an intro runs pnmpeg twice
  tool,     \* what the tool is at, or the code it exited with
  out,      \* lines the tool printed and the worker did not read
  ffmpeg,   \* the child of pnmpeg
  left,     \* encoders of dropped workers, by the file they write
  file,     \* 1 is the download or output_noconcat.mp4, 2 is output.mp4
  pieces,   \* how much of the body, or of ffmpeg's lines, has come
  cancel,   \* the job's directory holds CANCEL
  mishaps

runVars == <<task, worker, pass, tool, out, ffmpeg, left, file, pieces, cancel, mishaps>>

Reports == {"done", "failed", "cancelled"}
Curl == task.kind \in {"direct", "scrape"}
Passes == IF task.kind = "encode" /\ task.intro THEN 2 ELSE 1
Output == IF task.kind = "encode" THEN 2 ELSE 1
Written == IF task.kind = "encode" THEN pass ELSE 1

RunTypeOK ==
  /\ task \in Tasks
  /\ worker \in Reports \union {"idle", "reading", "panicked"}
  /\ pass \in 1..2 /\ pieces \in 0..MaxPieces /\ cancel \in BOOLEAN /\ mishaps \in 0..MaxMishaps
  /\ tool \in {"none", "starting", "confirming", "busy", "deaf", "exit0", "exit1"}
  /\ out \in Seq(0..3)
  /\ ffmpeg \in {"none", "running", "stuck", "ok", "bad"}
  /\ left \in [1..2 -> Nat]
  /\ file \in [1..2 -> {"none", "part", "whole", "mixed"}]

RunInit ==
  /\ task \in Tasks /\ worker = "idle" /\ pass = 1 /\ tool = "none" /\ out = <<>>
  /\ ffmpeg = "none" /\ left = [f \in 1..2 |-> 0] /\ file = [f \in 1..2 |-> "none"]
  /\ pieces = 0 /\ cancel = FALSE /\ mishaps = 0

-----------------------------------------------------------------------------
(* The worker. *)

Spawned(p) == worker' = "reading" /\ pass' = p /\ tool' = "starting" /\ out' = <<>> /\ pieces' = 0

\* CANCEL is looked for before each tool is started.
Begin(p) ==
  \/ cancel /\ worker' = "cancelled" /\ tool' = "none" /\ out' = <<>> /\ UNCHANGED <<pass, pieces>>
  \/ ~cancel /\ Spawned(p)

Start == worker = "idle" /\ Begin(1) /\ UNCHANGED <<task, ffmpeg, left, file, cancel, mishaps>>

Over(report) == worker' = report /\ tool' = "none" /\ out' = <<>> /\ UNCHANGED <<pass, pieces>>
Untouched == UNCHANGED <<file, left>>

\* An encode without an intro ends with a rename, which an encoder that was
\* left behind follows; the result of the rename is unwrapped.
Renamed ==
  IF file[1] = "none"
  THEN Over("panicked") /\ Untouched
  ELSE /\ Over("done")
       /\ file' = [f \in 1..2 |-> IF f = 1 THEN "none" ELSE file[1]]
       /\ left' = [f \in 1..2 |-> IF f = 1 THEN 0 ELSE left[1] + left[2]]

Succeeded ==
  \/ pass < Passes /\ Begin(2) /\ Untouched
  \/ pass = Passes /\ task.kind = "encode" /\ ~task.intro /\ Renamed
  \/ pass = Passes /\ ~(task.kind = "encode" /\ ~task.intro) /\ Over("done") /\ Untouched

Judged(code) ==
  \/ code = 1 /\ Succeeded
  \/ code = 2 /\ Over("failed") /\ Untouched
  \/ code = 3 /\ Over("cancelled") /\ Untouched

\* A line that decides, after which the tool is killed.
Decides ==
  /\ worker = "reading" /\ out # <<>> /\ Head(out) # 0
  /\ Judged(Head(out)) /\ UNCHANGED <<task, ffmpeg, cancel, mishaps>>

Progresses ==
  /\ worker = "reading" /\ out # <<>> /\ Head(out) = 0
  /\ out' = Tail(out)
  /\ UNCHANGED <<task, worker, pass, tool, ffmpeg, left, file, pieces, cancel, mishaps>>

\* No line decided: the exit code does.
Exited ==
  /\ worker = "reading" /\ out = <<>> /\ tool \in {"exit0", "exit1"}
  /\ Judged(IF tool = "exit0" THEN 1 ELSE 2)
  /\ UNCHANGED <<task, ffmpeg, cancel, mishaps>>

\* The death of a tool leaves its child running.
Orphaned ==
  left' = IF ffmpeg \in {"running", "stuck"} THEN [left EXCEPT ![Written] = @ + 1] ELSE left

\* The worker is dropped, and with it the tool.
Dropped(then) ==
  /\ worker' = then /\ tool' = "none" /\ out' = <<>> /\ Orphaned /\ ffmpeg' = "none"
  /\ pass' = 1 /\ pieces' = 0
  /\ UNCHANGED <<task, file, cancel>>

\* No frame for twenty minutes: the loop fails the job and reboots the layer.
\* That the tool is at work does not show until its first frame.
Stuck == ffmpeg = "stuck"
Stalled ==
  /\ ~Curl /\ worker = "reading" /\ tool \in {"starting", "busy", "deaf"}
  /\ Stuck \/ ("reboot" \in ToolFaults /\ mishaps < MaxMishaps)
  /\ mishaps' = IF Stuck THEN mishaps ELSE mishaps + 1
  /\ Dropped("failed")

\* The layer is rebooted for its silence or because it panicked: the loop
\* sends the job again.
Reboot ==
  /\ ~Curl
  /\ \/ worker = "panicked" /\ UNCHANGED mishaps
     \/ /\ worker = "reading" /\ "reboot" \in ToolFaults
        /\ mishaps < MaxMishaps /\ mishaps' = mishaps + 1
  /\ Dropped("idle")

Cancelling ==
  /\ worker \in {"idle", "reading"} /\ ~cancel /\ cancel' = TRUE
  /\ UNCHANGED <<task, worker, pass, tool, out, ffmpeg, left, file, pieces, mishaps>>

-----------------------------------------------------------------------------
(* pncurl. *)

Prints(lines, then) == out' = out \o lines /\ tool' = then
SameJob == UNCHANGED <<task, worker, pass, left, cancel, mishaps>>
MaybeProgress == \E lines \in {<<>>, <<0>>} : out' = out \o lines

\* A body begins; Drive may want a second request first.
Answered ==
  /\ Curl /\ tool \in {"starting", "confirming"}
  /\ \/ tool' = "busy" /\ file' = [file EXCEPT ![1] = "part"]
     \/ task.kind = "scrape" /\ tool = "starting" /\ tool' = "confirming" /\ UNCHANGED file
  /\ UNCHANGED <<out, ffmpeg, pieces>> /\ SameJob

\* A mutant: the scraper reports only that it ended.
CancelLinesEnded == IF task.kind = "scrape" THEN <<1>> ELSE <<3, 3>>
\* What a cancelled transfer prints.  The scraper reports the cancellation
\* and then, like a transfer that ended well, 1.
CancelLines == IF task.kind = "scrape" THEN <<3, 1>> ELSE <<3, 3>>

Piece ==
  /\ Curl /\ tool = "busy"
  /\ \/ cancel /\ Prints(CancelLines, "exit0") /\ UNCHANGED pieces
     \/ ~cancel /\ pieces < MaxPieces /\ pieces' = pieces + 1 /\ MaybeProgress /\ UNCHANGED tool
  /\ UNCHANGED <<ffmpeg, file>> /\ SameJob

BodyEnds ==
  /\ Curl /\ tool = "busy"
  /\ file' = [file EXCEPT ![1] = "whole"] /\ Prints(<<1>>, "exit0")
  /\ UNCHANGED <<ffmpeg, pieces>> /\ SameJob

\* A request that is refused or broken off, and a file that cannot be written.
FailCode == IF task.kind = "direct" THEN "exit1" ELSE "exit0"
Broken ==
  /\ Curl /\ tool \in {"starting", "confirming", "busy"}
  /\ Prints(<<2>>, FailCode) /\ UNCHANGED <<ffmpeg, file, pieces>> /\ SameJob

\* The time a request is given includes its body.
TimedOut == Broken

-----------------------------------------------------------------------------
(* pnmpeg and ffmpeg. *)

\* The inputs are probed, the intro is prepared, ffmpeg is started and
\* truncates its output.
Prepared ==
  /\ ~Curl /\ tool = "starting"
  /\ pass = 2 => file[1] # "none"
  /\ tool' = "busy" /\ ffmpeg' = "running"
  /\ file' = [file EXCEPT ![Written] = IF left[Written] > 0 THEN "mixed" ELSE "part"]
  /\ UNCHANGED <<out, pieces>> /\ SameJob

\* A preparation that fails, or panics, prints nothing.
Unprepared ==
  /\ ~Curl /\ tool = "starting" /\ tool' = "exit1"
  /\ UNCHANGED <<out, ffmpeg, file, pieces>> /\ SameJob

\* ffmpeg cannot be started, or its log cannot be opened: the task that was to
\* do it panics, and the main task ends as if all were well.
Unspawned ==
  /\ "spawn" \in ToolFaults /\ ~Curl /\ tool = "starting" /\ tool' = "exit0"
  /\ mishaps < MaxMishaps /\ mishaps' = mishaps + 1
  /\ UNCHANGED <<task, worker, pass, left, cancel, out, ffmpeg, file, pieces>>

\* A mutant: ffmpeg is left to itself.
KilledNever == UNCHANGED ffmpeg
Killed == ffmpeg' = "none"

\* A line of ffmpeg; ffmpeg is killed before the cancellation is reported.
Line ==
  /\ tool = "busy" /\ ffmpeg = "running"
  /\ \/ cancel /\ Killed /\ Prints(<<3>>, "exit0") /\ UNCHANGED pieces
     \/ /\ ~cancel /\ pieces < MaxPieces /\ pieces' = pieces + 1
        /\ MaybeProgress /\ UNCHANGED <<tool, ffmpeg>>
  /\ UNCHANGED file /\ SameJob

\* A line that is not UTF-8 ends the reading: from then on pnmpeg waits for
\* ffmpeg, which may block on the pipe that nobody empties.
Garbled ==
  /\ "garbled" \in ToolFaults /\ tool = "busy" /\ ffmpeg = "running" /\ tool' = "deaf"
  /\ UNCHANGED <<out, ffmpeg, file, pieces>> /\ SameJob
Filled ==
  /\ tool = "deaf" /\ ffmpeg = "running" /\ ffmpeg' = "stuck"
  /\ UNCHANGED <<tool, out, file, pieces>> /\ SameJob

Ends ==
  /\ ffmpeg = "running"
  /\ \/ ffmpeg' = "ok"
        /\ file' = [file EXCEPT ![Written] = IF @ = "mixed" THEN "mixed" ELSE "whole"]
     \/ ffmpeg' = "bad" /\ UNCHANGED file
  /\ UNCHANGED <<tool, out, pieces>> /\ SameJob

Reported ==
  /\ tool \in {"busy", "deaf"} /\ ffmpeg \in {"ok", "bad"}
  /\ Prints(IF ffmpeg = "ok" THEN <<1>> ELSE <<2>>, "exit0") /\ ffmpeg' = "none"
  /\ UNCHANGED <<file, pieces>> /\ SameJob

LeftEnds ==
  /\ \E f \in 1..2 : left[f] > 0 /\ left' = [left EXCEPT ![f] = @ - 1]
  /\ UNCHANGED <<task, worker, pass, tool, out, ffmpeg, file, pieces, cancel, mishaps>>

-----------------------------------------------------------------------------
WorkerStep == Start \/ Decides \/ Progresses \/ Exited
Network == Answered \/ Piece \/ BodyEnds \/ Broken
Pnmpeg == Prepared \/ Unprepared \/ Reported
RunNext ==
  \/ WorkerStep \/ Stalled \/ Reboot \/ Cancelling \/ Network \/ Pnmpeg
  \/ Unspawned \/ Line \/ Garbled \/ Filled \/ Ends \/ LeftEnds

RunSpec == RunInit /\ [][RunNext]_runVars

\* The worker and pnmpeg go on; a request has its time; ffmpeg ends, unless
\* it is blocked; a worker that cannot go on is rebooted.
RunFairness ==
  /\ WF_runVars(WorkerStep) /\ WF_runVars(TimedOut) /\ WF_runVars(Pnmpeg)
  /\ WF_runVars(Ends) /\ WF_runVars(Stuck /\ Stalled)
  /\ WF_runVars(worker = "panicked" /\ Reboot)
RunFairSpec == RunSpec /\ RunFairness

-----------------------------------------------------------------------------
\* A job is reported done with a file that is all of what was sent or encoded
\* (util.rs run_tool, the lines of pncurl and pnmpeg), never with a part of it.
\* Where ffmpeg could not be started there is no file at all: pnmpeg ends as after
\* a success, and its exit code is taken for one (util.rs:176).
DoneIsWhole ==
  worker = "done" => file[Output] = "whole" \/ (~Curl /\ mishaps > 0 /\ file[Output] = "none")

\* Once a worker has reported, nothing writes into the directory of the job,
\* which may then be removed (mpeg/core.rs kills ffmpeg before it reports).
QuietOnceReported ==
  worker \in Reports =>
    tool = "none" /\ ffmpeg = "none" /\ \A f \in 1..2 : left[f] = 0

\* A reboot leaves no encoder behind to compete for the machine
\* (util.rs:149-150, core.rs:1523).
OneEncoder == ffmpeg = "running" => \A f \in 1..2 : left[f] = 0

\* A worker that was given a job reports, whatever the network, the tools and
\* the reboots do (the time limit of a request, the exit code, the reboot).
TransferEnds == worker = "reading" ~> worker \in Reports
=============================================================================
