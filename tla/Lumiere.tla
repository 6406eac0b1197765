------------------------------- MODULE Lumiere -------------------------------
(***************************************************************************)
(* The upload of one finished output through Lumiere: a task for Drive,    *)
(* whose chunks this process sends, a task for each streaming host, which  *)
(* pulls the file from a capability URL of this process, and the job that  *)
(* waits for their events (uploadworker.rs, src/lumiere-broker, and the    *)
(* Worker in cloudflare/lumiere-broker).  A Smartcode upload then takes    *)
(* the place of the episode's former one (smartcode_drive.rs).             *)
(*                                                                         *)
(* A task moves between two awaits at a time.  Drive, the hosts and the    *)
(* broker's network belong to the environment; each of their failures and  *)
(* lost answers spends a fault.  One poll of a host is one unit of time.   *)
(***************************************************************************)
EXTENDS Naturals, Sequences, FiniteSets

CONSTANTS
  Remotes,           \* the streaming hosts of the release, of {"byse", "lulustream", "voe"}
  Strangers,         \* the hosts whose listings hold other transfers too
  Chunks,            \* the length of the file, in chunks
  DriveRetryLimit,   \* DRIVE_RETRY_LIMIT
  StatusErrorLimit,  \* REMOTE_STATUS_ERROR_LIMIT
  Deadline,          \* lumiere_transfer_ttl_secs, in polls
  StallLimit,        \* lumiere_remote_stall_secs, in polls; 0 turns it off
  Cancels,           \* whether the user may cancel
  MaxFaults          \* bound: failures of the environment, in all

VARIABLES
  cancelFile,  \* the job's CANCEL file
  drive,       \* the Drive task
  store,       \* what Drive holds: of this upload, and of the episode's last one
  remote,      \* the task of each streaming host
  served,      \* bytes_served of each capability, in chunks
  registered,  \* the hosts whose capability is in the registry
  host,        \* each host's own transfer
  events,      \* the job's channel
  job,         \* what the job knows: reported hosts, links, whether it stopped
  record,      \* the episode's Smartcode file: "none", "old", "new"
  faults

lumiereVars ==
  <<cancelFile, drive, store, remote, served, registered, host, events, job, record, faults>>
driveVars == <<drive, store>>
remoteVars == <<remote, served, registered, host>>
jobVars == <<job, record>>

Hosts == Remotes \union {"drive"}
Fault == faults < MaxFaults /\ faults' = faults + 1
NoFault == UNCHANGED faults
Tell(what, h) == events' = Append(events, [what |-> what, host |-> h])

-----------------------------------------------------------------------------
(***************************************************************************)
(* Drive                                                                   *)
(***************************************************************************)
DriveTo(at) == drive' = [drive EXCEPT !.at = at]
\* A mutant: the failure is reported and the file is left.
AbandonNothing(outcome) == drive' = [drive EXCEPT !.at = "reporting", !.outcome = outcome]
\* The upload ended badly after the session was granted: its file is deleted.
Abandon(outcome) == drive' = [drive EXCEPT !.at = "cleaning", !.outcome = outcome]

\* A retry, or the end of the retries.
Retry(next) ==
  IF drive.failures + 1 > DriveRetryLimit THEN Abandon("failed")
  ELSE drive' = [drive EXCEPT !.at = next, !.failures = @ + 1]

Hash ==
  /\ drive.at = "hashing"
  /\ IF cancelFile THEN drive' = [drive EXCEPT !.at = "reporting", !.outcome = "cancelled"]
     ELSE DriveTo("starting")
  /\ NoFault
  /\ UNCHANGED <<store, cancelFile, events>> /\ UNCHANGED remoteVars /\ UNCHANGED jobVars

\* The broker picks the first candidate it has a profile for and reserves a
\* file id.  Its answer may be a refusal, may be lost, or may not match.
StartSession ==
  /\ drive.at = "starting"
  /\ \/ /\ \E root \in {"smartcode", "other"} : drive' = [drive EXCEPT !.at = "sending", !.root = root]
        /\ NoFault
     \/ drive' = [drive EXCEPT !.at = "reporting", !.outcome = "failed"] /\ Fault
     \/ Abandon("failed") /\ Fault
  /\ UNCHANGED <<store, cancelFile, events>> /\ UNCHANGED remoteVars /\ UNCHANGED jobVars

\* What Drive holds after it took another chunk: the last one completes the
\* file, which a fault may have damaged on the way.
Stored(contents) ==
  [store EXCEPT !.received = @ + 1,
                !.new = IF store.received + 1 = Chunks THEN contents ELSE "none"]

SendChunk ==
  /\ drive.at = "sending" /\ drive.offset < Chunks
  /\ \/ cancelFile /\ Abandon("cancelled") /\ UNCHANGED store /\ NoFault
     \/ /\ ~cancelFile
        /\ \/ \* 308: the chunk was taken
              /\ store.received + 1 < Chunks
              /\ store' = Stored("none")
              /\ drive' = [drive EXCEPT !.offset = @ + 1, !.failures = 0]
              /\ NoFault
           \/ \* 200: the file is complete, its metadata in the answer
              /\ store.received + 1 = Chunks
              /\ \/ store' = Stored("whole") /\ DriveTo("verifying") /\ NoFault
                 \/ store' = Stored("damaged") /\ DriveTo("verifying") /\ Fault
                 \/ store' = Stored("whole") /\ Abandon("failed") /\ Fault
           \/ \* 308 that does not advance
              Retry("sending") /\ UNCHANGED store /\ Fault
           \/ \* 308 for every byte, and no file
              /\ store.received + 1 = Chunks
              /\ drive' = [drive EXCEPT !.offset = Chunks, !.failures = 0]
              /\ UNCHANGED store /\ Fault
           \/ \* 5xx or no answer, whether or not the chunk was taken
              Retry("asking") /\ store' \in {store, Stored("whole")} /\ Fault
           \/ Abandon("failed") /\ UNCHANGED store /\ Fault
  /\ UNCHANGED <<cancelFile, events>> /\ UNCHANGED remoteVars /\ UNCHANGED jobVars

\* The bytes were all acknowledged and no answer had the file's metadata.
RunOut ==
  /\ drive.at = "sending" /\ drive.offset >= Chunks
  /\ Abandon("failed") /\ NoFault
  /\ UNCHANGED <<store, cancelFile, events>> /\ UNCHANGED remoteVars /\ UNCHANGED jobVars

\* query_drive_offset: the session says what it has, or that the file is there.
AskOffset ==
  /\ drive.at = "asking"
  /\ \/ /\ drive' = IF store.new # "none" THEN [drive EXCEPT !.at = "verifying"]
                    ELSE [drive EXCEPT !.at = "sending", !.offset = store.received]
        /\ NoFault
     \/ Abandon("failed") /\ Fault
  /\ UNCHANGED <<store, cancelFile, events>> /\ UNCHANGED remoteVars /\ UNCHANGED jobVars

\* A mutant: what Drive stored is taken for what was sent.
VerifyNothing ==
  /\ drive.at = "verifying"
  /\ drive' = [drive EXCEPT !.at = "over"] /\ Tell("done", "drive")
  /\ NoFault
  /\ UNCHANGED <<store, cancelFile>> /\ UNCHANGED remoteVars /\ UNCHANGED jobVars

\* Checksum, size and id of the stored file against those of the source.
Verify ==
  /\ drive.at = "verifying"
  /\ IF store.new = "whole" THEN DriveTo("over") /\ Tell("done", "drive")
     ELSE Abandon("failed") /\ UNCHANGED events
  /\ NoFault
  /\ UNCHANGED <<store, cancelFile>> /\ UNCHANGED remoteVars /\ UNCHANGED jobVars

\* The deletion capability of the file; the session ends either way.
CleanUp ==
  /\ drive.at = "cleaning"
  /\ DriveTo("reporting")
  /\ \/ store' = [store EXCEPT !.new = "none"] /\ NoFault
     \/ store' = [store EXCEPT !.kept = @ \union {"new"}] /\ Fault
  /\ UNCHANGED <<cancelFile, events>> /\ UNCHANGED remoteVars /\ UNCHANGED jobVars

ReportDrive ==
  /\ drive.at = "reporting"
  /\ DriveTo("over") /\ Tell(drive.outcome, "drive") /\ NoFault
  /\ UNCHANGED <<store, cancelFile>> /\ UNCHANGED remoteVars /\ UNCHANGED jobVars

DriveStep == Hash \/ StartSession \/ SendChunk \/ RunOut \/ AskOffset \/ Verify \/ CleanUp \/ ReportDrive

-----------------------------------------------------------------------------
(***************************************************************************)
(* A streaming host's own transfer                                         *)
(***************************************************************************)
\* serve_transfer: a capability that is registered and has not expired.
Pull(h) ==
  /\ h \in registered
  /\ host[h].state \in {"queued", "uploading"}
  /\ host[h].pulled < Chunks
  /\ host' = [host EXCEPT ![h].state = "uploading", ![h].pulled = @ + 1]
  /\ served' = [served EXCEPT ![h] = IF @ < Chunks THEN @ + 1 ELSE @]
  /\ NoFault
  /\ UNCHANGED <<cancelFile, remote, registered, events>> /\ UNCHANGED driveVars /\ UNCHANGED jobVars

\* It processes the file, pulls it again from the start, or gives up.
HostMoves(h) ==
  /\ \/ /\ host[h].state = "uploading" /\ host[h].pulled = Chunks
        /\ host' = [host EXCEPT ![h].state = "playable"]
        /\ NoFault
     \/ host[h].state = "uploading" /\ host' = [host EXCEPT ![h].pulled = 0] /\ Fault
     \/ host[h].state \in {"queued", "uploading"} /\ host' = [host EXCEPT ![h].state = "failed"] /\ Fault
  /\ UNCHANGED <<cancelFile, remote, served, registered, events>> /\ UNCHANGED driveVars /\ UNCHANGED jobVars

\* The registry forgets a capability whose time is over.
Expire(h) ==
  /\ h \in registered
  /\ remote[h].polls + 1 >= Deadline
  /\ registered' = registered \ {h}
  /\ NoFault
  /\ UNCHANGED <<cancelFile, remote, served, host, events>> /\ UNCHANGED driveVars /\ UNCHANGED jobVars

-----------------------------------------------------------------------------
(***************************************************************************)
(* What the Worker answers about a transfer                                *)
(***************************************************************************)
\* A word that the Worker does not know reads as uploading.
Words(state) == IF state = "playable" THEN {"complete", "uploading"} ELSE {state}
Playable(h) == IF host[h].state = "playable" THEN "complete" ELSE "uploading"

\* A mutant: the Worker takes the first entry of Byse's queue.
ListedFirst(h) == Words(host[h].state) \union {"queued", "uploading", "complete", "failed"}

\* Its own entry in the listing, or file/info when there is none.  A listing
\* that holds other transfers is searched, but for LuluStream the first entry
\* stands in for one that is not found.
Listed(h) ==
  Words(host[h].state)
  \union {Playable(h)}
  \union IF h \in Strangers /\ h # "byse" THEN {"queued", "uploading", "complete", "failed"} ELSE {}

\* Once the file was served to its end, file/info decides.
RemoteStatus(h) ==
  {IF word \in {"queued", "uploading"} /\ served[h] >= Chunks THEN
     IF host[h].state = "playable" THEN "complete" ELSE word
   ELSE word : word \in Listed(h)}

-----------------------------------------------------------------------------
(***************************************************************************)
(* Streaming hosts                                                         *)
(***************************************************************************)
\* The task ends and its lease is dropped.
EndRemote(h, outcome) ==
  /\ remote' = [remote EXCEPT ![h].at = "over"]
  /\ registered' = registered \ {h}
  /\ Tell(outcome, h)

Register(h) ==
  /\ remote[h].at = "registering"
  /\ \/ cancelFile /\ EndRemote(h, "cancelled") /\ NoFault
     \/ ~cancelFile /\ EndRemote(h, "failed") /\ Fault
     \/ /\ ~cancelFile
        /\ registered' = registered \union {h}
        /\ remote' = [remote EXCEPT ![h].at = "starting"]
        /\ NoFault /\ UNCHANGED events
  /\ UNCHANGED <<cancelFile, served, host>> /\ UNCHANGED driveVars /\ UNCHANGED jobVars

\* A host may have taken the transfer although the answer never came.
StartRemote(h) ==
  /\ remote[h].at = "starting"
  /\ \/ /\ remote' = [remote EXCEPT ![h].at = "polling"]
        /\ host' = [host EXCEPT ![h].state = "queued"]
        /\ NoFault /\ UNCHANGED <<registered, events>>
     \/ EndRemote(h, "failed") /\ host' \in {host, [host EXCEPT ![h].state = "queued"]} /\ Fault
  /\ UNCHANGED <<cancelFile, served>> /\ UNCHANGED driveVars /\ UNCHANGED jobVars

\* A mutant: a host may take for ever.
LateNever(h) == FALSE
Late(h) == remote[h].polls >= Deadline

\* RemoteMovement: any change of state, of the bytes served or of the host's.
Movement(h, word) == <<word, served[h], host[h].pulled>>

Polled(h, changes) == [remote EXCEPT ![h] = [changes EXCEPT !.polls = IF @ < Deadline THEN @ + 1 ELSE @]]

PollAnswered(h, word) ==
  LET moved == Movement(h, word) # remote[h].mark
      still == IF moved THEN 0 ELSE remote[h].still + 1
  IN CASE word = "complete" -> EndRemote(h, "done")
       [] word = "failed" -> EndRemote(h, "failed")
       [] word \in {"queued", "uploading"} /\ StallLimit # 0 /\ still >= StallLimit -> EndRemote(h, "failed")
       [] OTHER -> /\ remote' = Polled(h, [remote[h] EXCEPT !.mark = Movement(h, word), !.errors = 0,
                                             !.still = IF StallLimit = 0 THEN 0 ELSE still])
                   /\ UNCHANGED <<registered, events>>

Poll(h) ==
  /\ remote[h].at = "polling"
  /\ \/ cancelFile /\ EndRemote(h, "cancelled") /\ NoFault
     \/ ~cancelFile /\ Late(h) /\ EndRemote(h, "failed") /\ NoFault
     \/ ~cancelFile /\ ~Late(h) /\ NoFault /\ \E word \in RemoteStatus(h) : PollAnswered(h, word)
     \/ /\ ~cancelFile /\ ~Late(h) /\ Fault
        /\ IF remote[h].errors + 1 >= StatusErrorLimit THEN EndRemote(h, "failed")
           ELSE /\ remote' = Polled(h, [remote[h] EXCEPT !.errors = @ + 1,
                                          !.still = IF StallLimit = 0 THEN 0 ELSE @ + 1])
                /\ UNCHANGED <<registered, events>>
  /\ UNCHANGED <<cancelFile, served, host>> /\ UNCHANGED driveVars /\ UNCHANGED jobVars

RemoteStep(h) == Register(h) \/ StartRemote(h) \/ Poll(h)

-----------------------------------------------------------------------------
(***************************************************************************)
(* The job                                                                 *)
(***************************************************************************)
Waiting == {h \in Hosts : job.links[h] = "waiting"}

\* The job stops at a cancelled host, and when every host has reported.
Hear ==
  /\ job.at = "waiting" /\ events # <<>>
  /\ LET e == Head(events)
         links == IF e.what \in {"done", "failed"} THEN [job.links EXCEPT ![e.host] = e.what]
                  ELSE job.links
     IN job' = [job EXCEPT !.links = links,
                           !.cancelled = e.what = "cancelled",
                           !.at = IF e.what = "cancelled" \/ \A h \in Hosts : links[h] # "waiting"
                                  THEN "stopping" ELSE "waiting"]
  /\ events' = Tail(events)
  /\ NoFault
  /\ UNCHANGED <<cancelFile, record>> /\ UNCHANGED driveVars /\ UNCHANGED remoteVars

\* The tasks that still run are aborted where they wait; leases go with them.
Stop ==
  /\ job.at = "stopping"
  /\ drive' = [drive EXCEPT !.at = IF @ = "over" THEN @ ELSE "aborted"]
  /\ remote' = [h \in Remotes |-> [remote[h] EXCEPT !.at = IF @ = "over" THEN @ ELSE "aborted"]]
  /\ registered' = {}
  /\ job' = [job EXCEPT
       !.at = IF ~(job.cancelled \/ cancelFile) /\ job.links["drive"] = "done" /\ drive.root = "smartcode"
              THEN "replacing" ELSE "ended",
       !.stage = IF job.cancelled \/ cancelFile THEN "Cancelled"
                 ELSE IF \E h \in Hosts : job.links[h] = "done" THEN "Uploaded" ELSE "Failed"]
  /\ NoFault
  /\ UNCHANGED <<cancelFile, store, served, host, events, record>>

\* replace_smartcode_upload: the former file is deleted, then the record is
\* written whether or not that succeeded.
DeletePrevious ==
  /\ job.at = "replacing"
  /\ \/ store' = [store EXCEPT !.old = FALSE] /\ NoFault
     \/ store' = [store EXCEPT !.kept = @ \union {"old"}] /\ Fault
  /\ job' = [job EXCEPT !.at = "recording"]
  /\ UNCHANGED <<cancelFile, drive, events, record>> /\ UNCHANGED remoteVars

WriteRecord ==
  /\ job.at = "recording"
  /\ record' = "new"
  /\ job' = [job EXCEPT !.at = "ended"]
  /\ NoFault
  /\ UNCHANGED <<cancelFile, events>> /\ UNCHANGED driveVars /\ UNCHANGED remoteVars

JobStep == Hear \/ Stop \/ DeletePrevious \/ WriteRecord

Cancel ==
  /\ Cancels /\ ~cancelFile /\ job.at = "waiting"
  /\ cancelFile' = TRUE
  /\ NoFault
  /\ UNCHANGED events /\ UNCHANGED driveVars /\ UNCHANGED remoteVars /\ UNCHANGED jobVars

-----------------------------------------------------------------------------
LumiereInit ==
  /\ cancelFile = FALSE
  /\ drive = [at |-> "hashing", offset |-> 0, failures |-> 0, root |-> "other", outcome |-> "none"]
  /\ record \in {"none", "old"}
  /\ store = [received |-> 0, new |-> "none", old |-> record = "old", kept |-> {}]
  /\ remote = [h \in Remotes |-> [at |-> "registering", polls |-> 0, still |-> 0, errors |-> 0,
                                  mark |-> <<"none", 0, 0>>]]
  /\ served = [h \in Remotes |-> 0]
  /\ registered = {}
  /\ host = [h \in Remotes |-> [state |-> "none", pulled |-> 0]]
  /\ events = <<>>
  /\ job = [at |-> "waiting", links |-> [h \in Hosts |-> "waiting"], cancelled |-> FALSE, stage |-> "none"]
  /\ faults = 0

LumiereNext ==
  \/ DriveStep \/ JobStep \/ Cancel
  \/ \E h \in Remotes : RemoteStep(h) \/ Pull(h) \/ HostMoves(h) \/ Expire(h)

LumiereSpec == LumiereInit /\ [][LumiereNext]_lumiereVars
\* The tasks and the job are run; a host may never do anything.
LumiereFairSpec ==
  /\ LumiereSpec
  /\ WF_lumiereVars(DriveStep)
  /\ WF_lumiereVars(JobStep)
  /\ \A h \in Remotes : WF_lumiereVars(RemoteStep(h))

-----------------------------------------------------------------------------
\* Every link of the job opens what was encoded: Drive's file is the source
\* byte for byte, and a streaming host can play it.
LinksAreReal ==
  \A h \in Hosts : job.links[h] = "done" =>
    IF h = "drive" THEN store.new = "whole" ELSE host[h].state = "playable"

\* When the job ended, a file in Drive is one that somebody knows: it is the
\* job's link, its deletion was refused (and logged), or the user cancelled and
\* the job ended before the Drive task had cleaned up.  A former Smartcode file
\* is in the episode's record or its deletion was refused.
NothingForgottenOnDrive ==
  job.at = "ended" =>
    /\ store.new # "none" =>
         job.links["drive"] = "done" \/ "new" \in store.kept \/ drive.at = "aborted" \/ job.cancelled
    /\ drive.at = "aborted" => cancelFile
    /\ store.old => record = "old" \/ "old" \in store.kept

\* An upload ends: no answer of Drive and no host that stands still holds it.
UploadEnds == <>(job.at = "ended")
=============================================================================
