-------------------------------- MODULE Intake --------------------------------
(***************************************************************************)
(* How a job comes to the main loop, and what the jobs table says of it    *)
(* meanwhile: the HTTP API (lib/http/api/core.rs), the commands of         *)
(* /encode (bin/pndc.rs), the channel they share and the loop's end of it  *)
(* (pnworker/core.rs).                                                     *)
(*                                                                         *)
(* The API writes the row, then sends; Discord only sends; the loop writes *)
(* the row of what it takes.  The loop and the API start side by side.     *)
(***************************************************************************)
EXTENDS Naturals, Sequences, FiniteSets

CONSTANTS
  Jobs,          \* job ids
  Asks,          \* what is asked: the handler it goes to, the type of the job, the probe it
                 \* is built from, its options, and whether the request decodes
  Room,          \* room in the channel (5)
  QueueLimit,    \* jobs at which the loop declines (5)
  EarlyCancels,  \* whether a job is cancelled before its submission is answered
  MaxIntakeFaults, MaxCancels, MaxStarts, MaxGitQueries

VARIABLES
  rows,      \* stage and archived of each job's row
  asked,     \* how far the submission of each job has come, and what it is
  cancels,   \* the cancellations that have read the row
  channel,   \* what was sent to the loop
  queue,     \* the jobs of the loop
  loop,      \* "starting", "running" or, after a panic, "dead"
  gitquery,  \* a git query that waits for the encodes
  met        \* faults, cancellations, starts and git queries so far

intakeVars == <<rows, asked, cancels, channel, queue, loop, gitquery, met>>

NoProbe == 0

IsEncode(t) == t \in {"Encode", "Pancode", "Keycode"}
Ended == {"done", "failed", "cancelled"}
NotAsked ==
  [at |-> "new", written |-> FALSE, noted |-> FALSE, type |-> "Encode", probe |-> NoProbe]
NoRow == [stage |-> "none", archived |-> FALSE]
Ongoing(j) == ~rows[j].archived /\ rows[j].stage \notin Ended \union {"none"}
Meets(what, most) == met[what] < most /\ met' = [met EXCEPT ![what] = @ + 1]
Fault == Meets("faults", MaxIntakeFaults)
At(j, at) == asked' = [asked EXCEPT ![j].at = at]
Row(j, stage) == [rows EXCEPT ![j].stage = stage]
Closed(j, stage) == [rows EXCEPT ![j] = [stage |-> stage, archived |-> TRUE]]

(***************************************************************************)
(* The handlers: what each of them refuses before it makes a job           *)
(***************************************************************************)
KeywordAlone(q) == q.keyword /\ ~q.keep
EncodeRefused(q)  == ~q.decodes \/ KeywordAlone(q)
BackupRefused(q)  == (q.keep /\ q.all) \/ KeywordAlone(q)
PancodeRefused(q) ==
  ~q.decodes \/ q.probe = NoProbe \/ rows[q.probe].archived
  \/ rows[q.probe].stage # "probed" \/ KeywordAlone(q)
GitcodeRefused(q) == ~q.decodes \/ KeywordAlone(q)
KeycodeRefused(q) == ~q.decodes
\* /encode pan does not look whether the probe is still there.
PanRefused(q) == q.probe = NoProbe \/ rows[q.probe] = NoRow
Refused(q) ==
  \/ q.to = "encode" /\ EncodeRefused(q)
  \/ q.to = "backup" /\ BackupRefused(q)
  \/ q.to = "pancode" /\ PancodeRefused(q)
  \/ q.to = "gitcode" /\ GitcodeRefused(q)
  \/ q.to = "keycode" /\ KeycodeRefused(q)
  \/ q.to = "pan" /\ PanRefused(q)
Written(to) == to \notin {"pan", "discord"}

Submit(j) ==
  /\ asked[j].at = "new"
  /\ \E q \in Asks :
       /\ q.probe # j
       /\ asked' = [asked EXCEPT ![j] =
            IF Refused(q) THEN [asked[j] EXCEPT !.at = "refused"]
            ELSE [at |-> IF Written(q.to) THEN "checked" ELSE "ready", written |-> Written(q.to),
                  noted |-> q.to = "pancode", type |-> q.type, probe |-> q.probe]]
  /\ UNCHANGED <<rows, cancels, channel, queue, loop, gitquery, met>>

\* submit_with_progress: the row, what the row says of a pancode, the channel
Insert(j) ==
  /\ asked[j].at = "checked"
  /\ \/ /\ rows' = [rows EXCEPT ![j] = [stage |-> "queued", archived |-> FALSE]]
        /\ At(j, IF asked[j].noted THEN "inserted" ELSE "ready")
        /\ UNCHANGED met
     \/ Fault /\ At(j, "refused") /\ UNCHANGED rows
  /\ UNCHANGED <<cancels, channel, queue, loop, gitquery>>
Note(j) ==
  /\ asked[j].at = "inserted"
  /\ \/ At(j, "ready") /\ UNCHANGED met
     \/ Fault /\ At(j, "refused")
  /\ UNCHANGED <<rows, cancels, channel, queue, loop, gitquery>>
Send(j) ==
  /\ asked[j].at = "ready"
  /\ \/ /\ loop # "dead" /\ Len(channel) < Room
        /\ channel' = Append(channel, [what |-> "job", job |-> j])
        /\ At(j, "answered") /\ UNCHANGED rows
     \/ /\ loop = "dead" /\ At(j, "refused") /\ UNCHANGED channel
        /\ rows' = IF asked[j].written THEN Closed(j, "failed") ELSE rows
  /\ UNCHANGED <<cancels, queue, loop, gitquery, met>>

\* cancel_job reads the row, then sends.
ReadCancel(j) ==
  /\ Ongoing(j) /\ cancels[j] = "none" /\ Meets("cancels", MaxCancels)
  /\ asked[j].at = "answered" \/ EarlyCancels
  /\ cancels' = [cancels EXCEPT ![j] = "read"]
  /\ UNCHANGED <<rows, asked, channel, queue, loop, gitquery>>
SendCancel(j) ==
  /\ cancels[j] = "read" /\ cancels' = [cancels EXCEPT ![j] = "sent"]
  /\ \/ /\ loop # "dead" /\ Len(channel) < Room
        /\ channel' = Append(channel, [what |-> "cancel", job |-> j])
     \/ loop = "dead" /\ UNCHANGED channel
  /\ UNCHANGED <<rows, asked, queue, loop, gitquery, met>>
\* gitsync, and /gitquery of Discord
AskGit(what) ==
  /\ loop # "dead" /\ Len(channel) < Room /\ Meets("gits", MaxGitQueries)
  /\ channel' = Append(channel, [what |-> what, job |-> 0])
  /\ UNCHANGED <<rows, asked, cancels, queue, loop, gitquery>>

(***************************************************************************)
(* The loop                                                                *)
(***************************************************************************)
\* insert_job: the row is as new, whatever it was.
UpsertIfNew(j) == IF rows[j] = NoRow THEN [rows EXCEPT ![j].stage = "queued"] ELSE rows
Upsert(j) == [rows EXCEPT ![j] = [stage |-> "queued", archived |-> FALSE]]
Takes(what) ==
  /\ loop = "running" /\ channel # <<>> /\ Head(channel).what = what /\ channel' = Tail(channel)

\* A job that is declined has the row it had.
MustDecline(j) ==
  \/ gitquery /\ IsEncode(asked[j].type)
  \/ Cardinality(queue) >= QueueLimit
  \/ asked[j].type = "Pancode" /\ asked[j].probe \notin queue
TakeJob ==
  /\ Takes("job")
  /\ LET j == Head(channel).job
     IN \/ MustDecline(j) /\ At(j, "declined") /\ UNCHANGED <<rows, queue, met>>
        \/ /\ ~MustDecline(j)
           /\ \/ At(j, "taken") /\ rows' = Upsert(j) /\ queue' = queue \union {j} /\ UNCHANGED met
              \/ Fault /\ At(j, "declined") /\ UNCHANGED <<rows, queue>>
              \/ Fault /\ At(j, "declined") /\ rows' = Closed(j, "failed") /\ UNCHANGED queue
  /\ UNCHANGED <<cancels, loop, gitquery>>
\* A job is cancelled at once, or by a marker that its worker finds.
TakeCancel ==
  /\ Takes("cancel")
  /\ LET j == Head(channel).job
     IN \/ /\ j \in queue /\ rows' = Closed(j, "cancelled") /\ queue' = queue \ {j}
        \/ UNCHANGED <<rows, queue>>
  /\ UNCHANGED <<asked, cancels, loop, gitquery, met>>
TakeGitQuery ==
  /\ Takes("gitquery")
  /\ gitquery' = (gitquery \/ \E j \in queue : IsEncode(asked[j].type))
  /\ UNCHANGED <<rows, asked, cancels, queue, loop, met>>
TakeGitSync ==
  /\ Takes("gitsync") /\ UNCHANGED <<rows, asked, cancels, queue, loop, gitquery, met>>
\* run_gitsync that does not end the process
RunGitQuery ==
  /\ loop = "running" /\ gitquery /\ \A j \in queue : ~IsEncode(asked[j].type)
  /\ gitquery' = FALSE
  /\ UNCHANGED <<rows, asked, cancels, channel, queue, loop, met>>

Progress(j) ==
  /\ loop = "running" /\ j \in queue
  /\ \/ /\ rows[j].stage = "queued" /\ UNCHANGED queue
        /\ rows' = Row(j, IF asked[j].type = "Probe" THEN "probed" ELSE "active")
     \/ queue' = queue \ {j} /\ \E stage \in Ended : rows' = Closed(j, stage)
  /\ UNCHANGED <<asked, cancels, channel, loop, gitquery, met>>

(***************************************************************************)
(* Starts                                                                  *)
(***************************************************************************)
\* fail_stale_active, before the loop takes anything
StaleFailed ==
  [j \in Jobs |-> IF Ongoing(j) THEN [rows[j] EXCEPT !.stage = "failed"] ELSE rows[j]]
StaleFailedIfActive ==
  [j \in Jobs |-> IF Ongoing(j) /\ rows[j].stage = "active"
                  THEN [rows[j] EXCEPT !.stage = "failed"] ELSE rows[j]]
FailStaleActive == StaleFailed
Start ==
  /\ loop = "starting" /\ loop' = "running" /\ rows' = FailStaleActive
  /\ UNCHANGED <<asked, cancels, channel, queue, gitquery, met>>
Panic ==
  /\ loop = "running" /\ Fault /\ loop' = "dead" /\ channel' = <<>> /\ queue' = {}
  /\ UNCHANGED <<rows, asked, cancels, gitquery>>
\* The process ends, by itself or for a git query, and is started again.
Restart ==
  /\ Meets("starts", MaxStarts)
  /\ channel' = <<>> /\ queue' = {} /\ loop' = "starting" /\ gitquery' = FALSE
  /\ asked' = [j \in Jobs |-> IF asked[j].at = "new" THEN NotAsked ELSE [NotAsked EXCEPT !.at = "gone"]]
  /\ cancels' = [j \in Jobs |-> "none"]
  /\ UNCHANGED rows

IntakeInit ==
  /\ rows = [j \in Jobs |-> NoRow]
  /\ asked = [j \in Jobs |-> NotAsked]
  /\ cancels = [j \in Jobs |-> "none"] /\ channel = <<>> /\ queue = {}
  /\ loop = "starting" /\ gitquery = FALSE
  /\ met = [faults |-> 0, cancels |-> 0, starts |-> 0, gits |-> 0]

IntakeNext ==
  \/ TakeJob \/ TakeCancel \/ TakeGitQuery \/ TakeGitSync \/ RunGitQuery
  \/ Start \/ Panic \/ Restart \/ AskGit("gitquery") \/ AskGit("gitsync")
  \/ \E j \in Jobs : Submit(j) \/ Insert(j) \/ Note(j) \/ Send(j) \/ ReadCancel(j)
                     \/ SendCancel(j) \/ Progress(j)
IntakeSpec == IntakeInit /\ [][IntakeNext]_intakeVars

-----------------------------------------------------------------------------
IntakeTypeOK ==
  /\ rows \in [Jobs -> [stage : {"none", "queued", "active", "probed"} \union Ended,
                        archived : BOOLEAN]]
  /\ \A j \in Jobs : asked[j].at \in {"new", "checked", "inserted", "ready", "answered", "taken",
                                      "declined", "refused", "gone"}
  /\ Len(channel) <= Room /\ queue \subseteq Jobs /\ Cardinality(queue) <= QueueLimit
  /\ loop \in {"starting", "running", "dead"} /\ gitquery \in BOOLEAN

\* Once the loop runs, no row is ongoing that a former process wrote.
FormerRowsEnded == loop = "running" => \A j \in Jobs : Ongoing(j) => asked[j].at # "gone"
\* A job of the loop has an ongoing row, also when it was sent before the loop
\* had closed the rows of the former process.
QueuedJobsAreListed == loop = "running" => \A j \in queue : Ongoing(j)
\* An accepted cancellation comes to the loop after the job it is for.
CancelsComeAfter ==
  \A n \in DOMAIN channel :
    channel[n].what = "cancel" =>
      /\ asked[channel[n].job].at \notin {"checked", "inserted", "ready"}
      /\ \A m \in DOMAIN channel : channel[m] = [what |-> "job", job |-> channel[n].job] => m < n
TableFollowsTheLoop == FormerRowsEnded /\ QueuedJobsAreListed /\ CancelsComeAfter

\* An ongoing row belongs to a job that somebody has.  It does not hold: a job
\* that is declined leaves the row that the API wrote.
OngoingJobsExist ==
  loop = "running" =>
    \A j \in Jobs : Ongoing(j) => j \in queue \/ asked[j].at \in {"inserted", "ready", "answered"}
=============================================================================
