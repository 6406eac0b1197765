------------------------------ MODULE PnWorker -------------------------------
(*****************************************************************************)
(* pn_worker: the one task that owns the queue.  Each turn of its loop takes *)
(* at most one request from clients and one message from the worker layers,  *)
(* looks at its clocks, and then walks the queue four times.  This module    *)
(* composes the turn with the layers and states what the whole promises.     *)
(*****************************************************************************)
EXTENDS PnWalks

ProgressStep(i) ==
  \/ ProgressSkip(i) \/ KeycodeWait(i) \/ KeycodeFail(i) \/ KeycodeDispatch(i)
  \/ DispatchProbeLayer(i) \/ DispatchUpload(i) \/ FinishKeep(i)
  \/ EncodeForward(i) \/ EncodeWaitsForInput(i) \/ EncodeHeldBack(i) \/ EncodeDispatch(i)
  \/ DispatchKilled(i)

Submit(n) == Refuse(n) \/ DeclineSetup(n) \/ Prepare(n)

\* one turn of the loop, whatever it finds
LoopStep ==
  \/ Admit \/ NoRequest \/ Receive \/ NoMessage
  \/ \E i \in Ids : DupStep(i) \/ WaitStep(i) \/ ProgressStep(i)
  \/ DupEnd \/ WaitEnd \/ ProgressEnd \/ BatchParents \/ ArmedGitQuery

ClientStep ==
  \/ \E n \in Names : Submit(n)
  \/ \E i \in Ids : Cancel(i)
  \/ GitQuery

ClockStep ==
  \/ DrainReboot \/ ReceiveReboot \/ ExpireCache \/ ExpireKeep
  \/ \E i \in Ids : ProbeTimeout(i)
  \/ \E S \in SUBSET Ids : EncodeStall(S)

WorkerStep == WorkersNext /\ UNCHANGED mainVars

Next == LoopStep \/ ClientStep \/ ClockStep \/ WorkerStep

Spec == Init /\ [][Next]_vars

\* The loop is one task and every layer another; a clock that the loop reads
\* in every turn does reach its deadline.
Fairness ==
  /\ WF_vars(LoopStep)
  /\ \A p \in Pools : WF_vars(PoolNext(p) /\ UNCHANGED mainVars)
  /\ WF_vars(EncoderNext /\ UNCHANGED mainVars)
  /\ \A i \in Ids : SF_vars(ProbeTimeout(i)) /\ SF_vars(Abandoned(i) /\ EncodeStall({i}))

FairSpec == Spec /\ Fairness

-----------------------------------------------------------------------------
(* Safety: the queue and the layers                                         *)

Times(i, s) == Cardinality({k \in DOMAIN s : s[k] = i})
AtEncoder == {i \in Ids : cur = i \/ Times(i, inbox) > 0}
WithPool(p, i) == Times(i, pend[p]) + (IF run[p][i] = "idle" THEN 0 ELSE 1)

\* A job is with one worker at most, and once: no second download, upload or
\* encode ever runs in the work directory of the first.
OneWorkerPerJob ==
  \A i \in Ids :
    WithPool("Download", i) + WithPool("Upload", i) + WithPool("Probe", i)
      + Times(i, inbox) + (IF cur = i THEN 1 ELSE 0) <= 1

\* What the encoder holds or will read is in the queue, under lease, and no
\* other job's encode is its output: its directory is there to be encoded.
EncoderServesTheQueue ==
  \A i \in AtEncoder : /\ i \in queue /\ job[i].dispatched /\ job[i].fwd = 0
                       /\ job[i].ready \in {"Queued", "Downloaded", "Encoding"}

\* The same for uploads and for what runs on the probe layer.
TasksServeTheQueue ==
  \A p \in {"Upload", "Probe"}, i \in Ids : run[p][i] # "idle" => i \in queue

\* No worker, the encoder or a pool that prepares and sends, has work of a job
\* that left the queue: its directory is removed, and its answer would be taken
\* for the answer of nobody.
WorkersServeTheQueue == EncoderServesTheQueue /\ TasksServeTheQueue

\* A download that runs is a download somebody asked for.
DownloadsServeTheQueue ==
  \A i \in Ids : run["Download"][i] # "idle" => i \in queue

\* At most one child of all batches is with the encoder.
OneBatchChildAtEncoder == Cardinality({i \in AtEncoder : born[i].parent # 0}) <= 1

\* An encode that reads a file has it: nothing reaches the encoder before its
\* input is there.
EncoderHasInput ==
  \A i \in AtEncoder : Type(i) \in {"Encode", "Pancode"} => i \in disk.input

\* An encode that a reboot took from the encoder is about to be noticed: the
\* loop has not yet checked the epoch, and when it does the lease is too old.
LostEncodesAreResent ==
  \A i \in queue :
    /\ Type(i) \in EncodeTypes /\ job[i].dispatched /\ Abandoned(i)
    /\ job[i].ready = "Downloaded" \/ (Type(i) = "Keycode" /\ job[i].ready = "Queued")
    => seenEpoch < epoch /\ job[i].epoch < epoch

\* Jobs that wait for another's input
Waiting(i) == i \in queue /\ job[i].ready = "Downloading" /\ job[i].dup # 0

\* A follower follows a job of the queue that is nobody's follower.
FollowersHaveALeader ==
  \A c \in queue : job[c].fwd # 0 => job[c].fwd \in queue /\ job[job[c].fwd].fwd = 0

\* A leader does not wait for the input of one of its followers.
LeadersNeedNoFollower ==
  \A c \in queue : job[c].fwd \in queue => ~(Waiting(job[c].fwd) /\ job[job[c].fwd].dup = c)

\* Between two turns a follower shows its leader's stage, from the moment the
\* encoder has announced the leader.  (Before that a leader that gets its input
\* from the cache or from another job moves on without its followers.)
FollowersMirror ==
  pc = "queue" =>
    \A c \in queue : LET l == job[c].fwd IN
      l \in queue /\ job[l].ready \in {"Encoding", "Encoded", "Uploading"}
        => job[c].ready = job[l].ready

\* A follower, which no worker serves, has a leader and is brought along by it.
FollowersAreLed == FollowersHaveALeader /\ FollowersMirror

\* Between two turns the rows that are not archived are the queue's jobs.
OpenRowsAreQueued ==
  pc = "queue" => \A i \in Ids : db[i].known => (i \in queue <=> ~db[i].archived)

\* A keyword that is still promised has a job that will keep or break the promise.
PromisesHaveAJob ==
  pc = "queue" => \A n \in Names : kept[n] = "reserved" =>
                    \E i \in queue : Keeps(born[i]) /\ born[i].name = n

\* Between two turns a batch has counted the entries whose child has left, and those
\* its download did not deliver: exactly these as long as nobody was cancelled.  A
\* child that the loop drops on a cancel request leaves uncounted, so the count may
\* lag by one for each request, and by no more; it is never ahead.
BatchCount ==
  \A p \in queue :
    Batch(p) => LET left  == {f \in Entries(born[p]) : job[p].kid[f] \notin queue \cup {0}}
                    exact == Cardinality(left)
                               + (IF job[p].settled THEN Cardinality(Unspawned(born[p], job[p])) ELSE 0)
                    count == job[p].finished + job[p].failed IN
      count <= exact /\ exact <= count + cancels

\* A batch is closed as done only after the last of its children.
BatchOutlivesChildren ==
  [][\A p \in queue \ queue' :
       db'[p].stage = "Uploaded" /\ Batch(p) => \A c \in queue' : born'[c].parent # p]_vars

\* When nothing fails, a batch that is closed made a child of every entry: what
\* was downloaded was encoded and uploaded.
WholeBatchSucceeds ==
  [][Faults = {} /\ cancels = 0 =>
       \A p \in queue \ queue' : Batch(p) => Unspawned(born[p], job[p]) = {}]_vars

\* A job that waits for another's input waits for one that does not wait itself:
\* neither its own directory nor a circle of waiting jobs.
WaitersWaitForOwners == \A i \in queue : Waiting(i) => ~Waiting(job[i].dup)

\* The same input is not downloaded for two jobs of the queue at a time.
Downloading(i) == i \in queue /\ WithPool("Download", i) > 0
NoSecondDownload ==
  \A i, k \in Ids : i # k /\ Downloading(i) /\ Downloading(k) =>
    InputKeys(i) \cap InputKeys(k) = {}

\* Jobs of one source share its input: one of them fetches it, and what it
\* fetched is there when another of them is encoded.
InputIsShared == EncoderHasInput /\ NoSecondDownload

\* A row that was archived is never written again, whatever a layer reports late.
ClosedRowsStayClosed == [][\A i \in Ids : db[i].archived => db'[i] = db[i]]_vars

\* A git query that ends the process ends it after the last encode.
GitSyncAfterEncodes ==
  pc = "exited" => \A i \in Ids : db[i].known /\ ~db[i].archived => Type(i) \notin EncodeTypes

-----------------------------------------------------------------------------
(* Liveness                                                                 *)

EveryJobEnds == \A i \in Ids : i \in queue ~> i \notin queue
CancelledLeaves == \A i \in Ids : (i \in queue /\ i \in disk.marker) ~> i \notin queue
==============================================================================
