------------------------------- MODULE PnQueue -------------------------------
(*****************************************************************************)
(* The queue of pn_worker and what its handlers share: the jobs, their rows  *)
(* in the database, the keywords promised to clients, and how a job that     *)
(* needs a download is routed (a cached input, another job's input, another  *)
(* job's download of the same torrent, or a download of its own).            *)
(*****************************************************************************)
EXTENDS PnLayers

CONSTANTS
  QueueLimit,     \* jobs that are not batch children, beyond which: declined
  MaxCancels,     \* bound: cancel requests in one behaviour
  MaxReboots,     \* bound: reboots of an encoder found silent or stalled
  GitQueries      \* bound: may a git query arrive?

ASSUME PnQueueAssumption ==
  {QueueLimit, MaxCancels, MaxReboots} \subseteq Nat /\ GitQueries \in BOOLEAN

VARIABLES
  pc,         \* where the loop is
  pass,       \* locals of the walk it is in
  queue,      \* ids of the jobs in the queue
  job,        \* their records
  db,         \* rows of the jobs table: stage and archived
  kept,       \* what each submission's keyword stands for
  seenEpoch,  \* encode_reboot_epoch
  sinceBatch, \* encodes_since_batch, up to the 2 the code compares with
  gitquery,   \* a git query is armed
  backlog,    \* submissions not yet received
  nextId,     \* next id to hand out
  cancels,    \* cancel requests received
  reboots     \* reboots counted against the bound

mainVars == <<pc, pass, queue, job, db, kept, seenEpoch, sinceBatch, gitquery,
              backlog, nextId, cancels, reboots>>
vars == <<mainVars, layerVars>>

Row == [stage: Stages, archived: BOOLEAN, known: BOOLEAN]
NoRow == [stage |-> "Queued", archived |-> FALSE, known |-> FALSE]
Keyword == {"none", "reserved", "ready", "failed"}

Pass == [todo: SUBSET Ids, dead: SUBSET Ids, uploads: SUBSET Ids,
         others: BOOLEAN, inFlight: BOOLEAN,
         source: SUBSET (InputKey \X Ids), parent: SUBSET (ForwardKey \X Ids)]
NoPass == [todo |-> {}, dead |-> {}, uploads |-> {},
           others |-> FALSE, inFlight |-> FALSE,
           source |-> {}, parent |-> {}]

Type(i)  == TypeOf(born[i])
Batch(i) == IsBatch(born[i])
Live     == {"queue", "admit", "message", "dup", "wait", "progress", "batch", "git"}

TypeOK ==
  /\ LayersTypeOK
  /\ pc \in Live \cup {"exited"}
  /\ pass \in Pass
  /\ queue \subseteq Ids
  /\ job \in [Ids -> Job]
  /\ db \in [Ids -> Row]
  /\ kept \in [Names -> Keyword]
  /\ seenEpoch \in Nat /\ sinceBatch \in 0..2 /\ gitquery \in BOOLEAN
  /\ backlog \subseteq Names /\ nextId \in 1..(MaxJobs + 1)
  /\ cancels \in Nat /\ reboots \in Nat

\* The loop before any of the given requests has come
InitWith(requests) ==
  /\ LayersInit
  /\ pc = "queue" /\ pass = NoPass
  /\ queue = {} /\ job = [i \in Ids |-> NewJob]
  /\ db = [i \in Ids |-> NoRow]
  /\ kept = [n \in Names |-> "none"]
  /\ seenEpoch = 0 /\ sinceBatch = 0 /\ gitquery = FALSE
  /\ backlog = requests /\ nextId = 1 /\ cancels = 0 /\ reboots = 0

Init == InitWith(Names)

-----------------------------------------------------------------------------
(* Parts of handlers *)

\* check_encode_reboot_epoch
Checked(jobs, e) ==
  IF e = seenEpoch THEN jobs
  ELSE [i \in Ids |-> IF i \in queue THEN ResetDispatch(born[i], jobs[i], e) ELSE jobs[i]]

ForwardedTo(S) == {c \in queue : job[c].fwd \in S}

\* sync_forwarded_jobs and sync_forwarded_state: only direct children follow
Synced(jobs, i, s, w) ==
  [c \in Ids |-> IF c \in ForwardedTo({i})
                 THEN [jobs[c] EXCEPT !.ready = s, !.worker = ForwardedWorker(w)]
                 ELSE jobs[c]]

\* update_stage for all of S, and archive_job for those of A; a row that was never
\* inserted is updated in vain
Rows(S, s, A) ==
  [i \in Ids |-> IF i \notin S \cup A \/ ~db[i].known THEN db[i]
                 ELSE [db[i] EXCEPT !.stage = IF i \in S THEN s ELSE @,
                                    !.archived = @ \/ i \in A]]

\* insert_job: the row says what the job says
Inserted(i, s) == [db EXCEPT ![i] = [stage |-> s, archived |-> FALSE, known |-> TRUE]]

\* the jobs of R leave the queue; their records are dropped
Without(jobs, R) == [i \in Ids |-> IF i \in R THEN NewJob ELSE jobs[i]]

\* Mutant: the keyword stays reserved.
FailKeepsNever(S) == kept
\* mark_output_failed for those of S that keep their output
FailKeeps(S) ==
  [n \in Names |-> IF \E i \in S : Keeps(born[i]) /\ born[i].name = n /\ kept[n] # "none"
                   THEN "failed" ELSE kept[n]]

\* Mutant: only uploads are counted.
BatchToldUploads(jobs, K, s) ==
  [p \in Ids |->
    LET n == Cardinality({c \in K : born[c].parent = p}) IN
    IF p \in queue /\ s = "Uploaded" THEN [jobs[p] EXCEPT !.finished = @ + n] ELSE jobs[p]]
\* update_batch_parent, once for each of the children K that ended
BatchTold(jobs, K, s) ==
  [p \in Ids |->
    LET n == Cardinality({c \in K : born[c].parent = p}) IN
    IF p \notin queue \/ n = 0 THEN jobs[p]
    ELSE [jobs[p] EXCEPT !.finished = IF s = "Uploaded" THEN @ + n ELSE @,
                         !.failed = IF s \in {"Failed", "Cancelled", "Declined"}
                                    THEN @ + n ELSE @]]

PoolSend(p, i) == pend' = [pend EXCEPT ![p] = Append(@, i)]

\* TypedShrine::send to the encoder: wait for room, or reboot a silent layer
\* first and put the message into the fresh inbox.
EncodeSend(i) ==
  \/ /\ Len(inbox) < InboxCap
     /\ inbox' = Append(inbox, i)
     /\ UNCHANGED <<cur, epoch, ret, reboots>>
  \/ /\ cur # 0 /\ reboots < MaxReboots
     /\ reboots' = reboots + 1
     /\ EncodeReboot(<<i>>)

\* Mutant: the epoch is the one of the last check, not of the send.
DispatchedAsOfCheck(j, e) == [j EXCEPT !.dispatched = TRUE, !.epoch = seenEpoch]
\* mark_encode_dispatched: the epoch is read after the send
Dispatched(j, e) == [j EXCEPT !.dispatched = TRUE, !.epoch = e]

-----------------------------------------------------------------------------
(* queue_download_job: cached input, another job's input, another job's     *)
(* download of the same torrent, or a download of its own                   *)

CacheHit(i) == disk.cache \cap InputKeys(i) # {}

\* queued_duplicate_source: any job with the same input, or what it waits for
Sharers(i) == {o \in queue \ {i} : /\ job[o].fwd = 0 /\ ~Batch(o)
                                   /\ InputKeys(o) \cap InputKeys(i) # {}}
DuplicateOf(i) ==
  LET o == First(Sharers(i)) IN
  IF Sharers(i) = {} THEN 0 ELSE IF job[o].dup # 0 THEN job[o].dup ELSE o

\* active_torrent_download_source
ActiveDownloads(i) ==
  {o \in queue \ {i} :
     /\ job[o].fwd = 0 /\ ~Batch(o)
     /\ \/ job[o].ready = "Downloading" /\ job[o].dup = 0
        \/ job[o].ready = "Queued" /\ job[o].worker = "dwl-pending" /\ o < i
     /\ SourceKeys(o) \cap SourceKeys(i) # {}}

\* Mutant: only the cache is asked.
RouteOfUnshared(i) ==
  IF ~Batch(i) /\ Type(i) # "BackupAll" /\ CacheHit(i) THEN "cache" ELSE "download"
RouteOf(i) ==
  CASE Batch(i) \/ Type(i) = "BackupAll" -> "download"
    [] OTHER -> IF CacheHit(i) THEN "cache"
                ELSE IF DuplicateOf(i) # 0 THEN "duplicate"
                ELSE IF ActiveDownloads(i) # {} THEN "active" ELSE "download"

\* The closing `if job.ready == Queued` also turns the wait for an active
\* download, which has just set Queued, into Downloading.
Routed(i, j) ==
  CASE RouteOf(i) = "cache"     -> [j EXCEPT !.ready = "Downloaded", !.worker = "dwl-cache"]
    [] RouteOf(i) = "duplicate" -> [j EXCEPT !.ready = "Downloading", !.worker = "dwl-cache",
                                             !.dup = DuplicateOf(i)]
    [] RouteOf(i) = "active"    -> [j EXCEPT !.ready = "Downloading", !.worker = "dwl-pending"]
    [] OTHER                    -> [j EXCEPT !.ready = "Downloading"]

\* Mutant: the job is marked downloaded and the copy forgotten.
RoutedDiskUntouched(i) == disk
RoutedDisk(i) ==
  IF RouteOf(i) = "cache" THEN [disk EXCEPT !.input = @ \cup {i}] ELSE disk

RouteSend(i) ==
  IF RouteOf(i) = "download" THEN PoolSend("Download", i) ELSE UNCHANGED pend
==============================================================================
