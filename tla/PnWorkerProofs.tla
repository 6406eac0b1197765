--------------------------- MODULE PnWorkerProofs ---------------------------
(***************************************************************************)
(* Type correctness of pn_worker for every population of requests, any     *)
(* number of jobs and any capacities.  TypeOK alone is not inductive: the  *)
(* keys of a job's input are keys only because its link is a link, so no   *)
(* id may be in the queue, or in a walk, before it was handed out.         *)
(* What the helpers return comes first: lemmas each stated once.           *)
(***************************************************************************)
EXTENDS PnWorker, FiniteSetTheorems, WellFoundedInduction, TLAPS

(* Ids, and the keys a job's link and directory give it *)

\* There are finitely many ids, and any set of them can be counted.
LEMMA CountIds == \A S \in SUBSET Ids : IsFiniteSet(S) /\ Cardinality(S) \in Nat
<1>1. IsFiniteSet(Ids)
  BY FS_Interval, PnJobsAssumption DEF Ids
<1> QED
  BY <1>1, FS_Subset, FS_CardinalityType

\* The first job of a set that has any is in it: the queue has an order.
LEMMA FirstIn == \A S \in SUBSET Ids : S # {} => First(S) \in S
<1> SUFFICES ASSUME NEW S \in SUBSET Ids, S # {} PROVE First(S) \in S
  OBVIOUS
<1>1. S \in SUBSET Nat
  BY PnJobsAssumption DEF Ids
<1>2. PICK i \in S : \A k \in S : ~ (<<k, i>> \in OpToRel(<, Nat))
  BY <1>1, WFMin, NatLessThanWellFounded, Zenon
<1>3. \A k \in S : ~ (k < i)
  BY <1>1, <1>2, Zenon DEF OpToRel
<1>4. \A k \in S : i <= k
  BY <1>1, <1>3
<1> QED
  BY <1>4 DEF First

\* What is asked for is a request, whoever was handed the id.
LEMMA BornOfRequest ==
  ASSUME NEW b \in Birth, b.name # 0
  PROVE  ReqOf(b) \in Request
<1>1. b.name \in 1..Len(Submissions)
  BY PnJobsAssumption DEF Birth
<1> QED
  BY <1>1, PnJobsAssumption DEF ReqOf

\* The keys a job is found under.
LEMMA KeysOfBirth ==
  ASSUME NEW b \in Birth, b.name # 0, NEW fetched
  PROVE  /\ InputKeysOf(b, fetched) \subseteq InputKey
         /\ ForwardKeysOf(b, fetched) \subseteq ForwardKey
<1> DEFINE r == ReqOf(b)
<1>1. r.link \in Links /\ r.look \in Looks
  BY BornOfRequest DEF Request
<1>2. b.idx \in Idx
  BY DEF Birth
<1>3. SourceKeysOf(b, fetched) \subseteq Links \cup Hashes
  BY <1>1, PnJobsAssumption DEF SourceKeysOf, OwnLink, HashKnown
<1> HIDE DEF r
<1>4. InputKeysOf(b, fetched) \subseteq InputKey
  BY <1>2, <1>3 DEF InputKeysOf, InputKey
<1>5. SourceKeysOf(b, fetched) \X {b.idx} \X {ReqOf(b).look} \subseteq ForwardKey
  BY <1>1, <1>2, <1>3 DEF ForwardKey, r
<1>6. ForwardKeysOf(b, fetched) \subseteq ForwardKey
  BY <1>5 DEF ForwardKeysOf
<1> QED
  BY <1>4, <1>6

\* Every job that was handed an id has typed keys.
LEMMA KeysOfKnown ==
  ASSUME LayersTypeOK, NEW i \in Known
  PROVE  InputKeys(i) \subseteq InputKey /\ ForwardKeys(i) \subseteq ForwardKey
<1>1. born[i] \in Birth /\ born[i].name # 0
  BY DEF LayersTypeOK, Known
<1> QED
  BY <1>1, KeysOfBirth DEF InputKeys, ForwardKeys

-----------------------------------------------------------------------------
(* Records of jobs *)

Jobs == [Ids -> Job]

\* A fresh record is a record.
LEMMA NewJobType == NewJob \in Job
  BY PnJobsAssumption DEF NewJob, Job, Stages, Workers, Ids0

\* Any field may be replaced by another value of its type.
LEMMA JobUpdates ==
  ASSUME NEW j \in Job
  PROVE  /\ \A s \in Stages : [j EXCEPT !.ready = s] \in Job
         /\ \A w \in Workers : [j EXCEPT !.worker = w] \in Job
         /\ \A o \in Ids0 : [j EXCEPT !.dup = o] \in Job
         /\ \A o \in Ids0 : [j EXCEPT !.fwd = o] \in Job
         /\ \A b \in BOOLEAN : [j EXCEPT !.dispatched = b] \in Job
         /\ \A e \in Nat : [j EXCEPT !.epoch = e] \in Job
         /\ \A f, o : o \in Ids0 => [j EXCEPT !.kid[f] = o] \in Job
         /\ \A n \in Nat : [j EXCEPT !.finished = n] \in Job
         /\ \A n \in Nat : [j EXCEPT !.failed = n] \in Job
         /\ \A b \in BOOLEAN : [j EXCEPT !.settled = b] \in Job
  BY DEF Job

\* What a job's fields may hold.
LEMMA JobReads ==
  ASSUME NEW j \in Job
  PROVE  /\ j.ready \in Stages /\ j.worker \in Workers /\ j.dup \in Ids0
         /\ j.finished \in Nat /\ j.failed \in Nat
  BY DEF Job

\* The label of a follower is one the code reads back, whatever its leader's is.
LEMMA ForwardedWorkerType == \A w : ForwardedWorker(w) \in Workers
  BY DEF ForwardedWorker, Workers

\* Checking the reboot epoch only takes leases back.
LEMMA CheckedType ==
  ASSUME NEW jobs \in Jobs, NEW e
  PROVE  Checked(jobs, e) \in Jobs
<1>1. \A i \in Ids : ResetDispatch(born[i], jobs[i], e) \in Job
  BY JobUpdates DEF ResetDispatch, Jobs
<1> QED
  BY <1>1 DEF Checked, Jobs

\* The lease of an encode that was sent, with the epoch it was sent in.
LEMMA DispatchedType ==
  ASSUME NEW j \in Job, NEW e \in Nat
  PROVE  Dispatched([j EXCEPT !.worker = "enc-main"], e) \in Job
<1>1. "enc-main" \in Workers
  BY DEF Workers
<1> QED
  BY <1>1 DEF Dispatched, Job

\* A job that leaves the queue leaves a fresh record behind.
LEMMA WithoutType ==
  ASSUME NEW jobs \in Jobs, NEW R
  PROVE  Without(jobs, R) \in Jobs
  BY NewJobType DEF Without, Jobs

\* The followers of a job take its stage.
LEMMA SyncedType ==
  ASSUME NEW jobs \in Jobs, NEW i, NEW s \in Stages, NEW w
  PROVE  Synced(jobs, i, s, w) \in Jobs
<1>1. \A j \in Job : [j EXCEPT !.ready = s, !.worker = ForwardedWorker(w)] \in Job
  BY ForwardedWorkerType DEF Job
<1> QED
  BY <1>1 DEF Synced, Jobs

\* A batch counts in natural numbers.
LEMMA BatchToldType ==
  ASSUME NEW jobs \in Jobs, NEW K \in SUBSET Ids, NEW s
  PROVE  BatchTold(jobs, K, s) \in Jobs
<1>1. ASSUME NEW p \in Ids
      PROVE  BatchTold(jobs, K, s)[p] \in Job
  <2> DEFINE n == Cardinality({c \in K : born[c].parent = p})
             up(m, l) == [jobs[p] EXCEPT !.finished = m, !.failed = l]
  <2>1. n \in Nat
    BY CountIds
  <2> HIDE DEF n
  <2>2. jobs[p] \in Job /\ jobs[p].finished + n \in Nat /\ jobs[p].failed + n \in Nat
    BY <2>1, JobReads DEF Jobs
  <2>3. \A m \in Nat, l \in Nat : up(m, l) \in Job
    BY <2>2 DEF Job
  <2>4. [jobs[p] EXCEPT !.finished = IF s = "Uploaded" THEN @ + n ELSE @,
                        !.failed = IF s \in {"Failed", "Cancelled", "Declined"}
                                   THEN @ + n ELSE @] \in Job
    BY <2>2, <2>3, JobReads
  <2> QED
    BY <2>2, <2>4 DEF BatchTold, n
<1> QED
  BY <1>1 DEF BatchTold, Jobs

-----------------------------------------------------------------------------
(* What is on disk, in the database and promised *)

\* Removing directories leaves a disk.
LEMMA CleanedType ==
  ASSUME NEW d \in Disk, NEW S
  PROVE  Cleaned(d, S) \in Disk
  BY DEF Cleaned, Disk

\* Caching an input adds the keys of the job that had it.
LEMMA CachedInputType ==
  ASSUME LayersTypeOK, NEW d \in Disk, NEW i \in Known
  PROVE  CachedInput(d, i) \in Disk
<1>1. InputKeys(i) \subseteq InputKey
  BY KeysOfKnown
<1>2. [d EXCEPT !.cache = @ \cup InputKeys(i)] \in Disk
  BY <1>1 DEF Disk
<1> QED
  BY <1>2 DEF CachedInput

\* Rows are written with stages.
LEMMA RowsType ==
  ASSUME db \in [Ids -> Row], NEW S, NEW s \in Stages, NEW A
  PROVE  Rows(S, s, A) \in [Ids -> Row]
  BY DEF Rows, Row

\* A new row holds a stage.
LEMMA InsertedType ==
  ASSUME db \in [Ids -> Row], NEW i, NEW s \in Stages
  PROVE  Inserted(i, s) \in [Ids -> Row]
  BY DEF Inserted, Row

\* A keyword whose output failed is still a keyword.
LEMMA FailKeepsType ==
  ASSUME kept \in [Names -> Keyword], NEW S
  PROVE  FailKeeps(S) \in [Names -> Keyword]
  BY DEF FailKeeps, Keyword

-----------------------------------------------------------------------------
(* The layers *)

\* What the layers report are messages.
LEMMA MessageTypes ==
  ASSUME NEW i \in Ids
  PROVE  /\ \A s \in Stages : StageMsg(i, s) \in Message
         /\ AssignMsg(i) \in Message
         /\ \A f \in Idx : FileDoneMsg(i, f) \in Message
         /\ \A o \in Ids0 : DuplicateMsg(i, o) \in Message
<1>1. \A k \in {"stage", "assign", "filedone", "duplicate"} : Note(i, k) \in Message
  BY PnJobsAssumption DEF Note, Message, Stages, Idx, Ids0
<1> QED
  BY <1>1 DEF StageMsg, AssignMsg, FileDoneMsg, DuplicateMsg, Message

\* A bounded channel stays a sequence of messages, sent or dropped.
LEMMA SentType ==
  ASSUME LayersTypeOK, NEW l \in Layers, NEW m \in Message
  PROVE  /\ Sent(l, m) \in [Layers -> Seq(Message)]
         /\ TrySent(l, m) \in [Layers -> Seq(Message)]
<1>1. Append(ret[l], m) \in Seq(Message)
  BY DEF LayersTypeOK
<1> QED
  BY <1>1 DEF LayersTypeOK, Sent, TrySent

\* A task moves between phases.
LEMMA TaskType ==
  ASSUME LayersTypeOK, NEW p \in Pools, NEW i \in Ids, NEW phase \in Phases, Task(p, i, phase)
  PROVE  run' \in [Pools -> [Ids -> Phases]]
  BY DEF LayersTypeOK, Task

\* A pool's deque is a sequence of ids.
LEMMA PoolSendType ==
  ASSUME LayersTypeOK, NEW p \in Pools, NEW i \in Ids, PoolSend(p, i)
  PROVE  pend' \in [Pools -> Seq(Ids)]
<1>1. Append(pend[p], i) \in Seq(Ids)
  BY DEF LayersTypeOK
<1> QED
  BY <1>1 DEF LayersTypeOK, PoolSend

\* A task that ends frees its slot and reports.
LEMMA PoolEndType ==
  ASSUME LayersTypeOK, NEW p \in Pools, NEW i \in Ids, NEW m \in Message, PoolEnd(p, i, m)
  PROVE  /\ run' \in [Pools -> [Ids -> Phases]]
         /\ ret' \in [Layers -> Seq(Message)]
         /\ delivered' \in [Ids -> SUBSET Files]
         /\ UNCHANGED <<born, pend, encVars>>
<1>1. run' \in [Pools -> [Ids -> Phases]]
  BY TaskType DEF PoolEnd, Phases
<1>2. ret' \in [Layers -> Seq(Message)]
  BY SentType DEF PoolEnd, Layers
<1>3. delivered' \in [Ids -> SUBSET Files]
  BY DEF PoolEnd, LayersTypeOK
<1> QED
  BY <1>1, <1>2, <1>3 DEF PoolEnd

\* A reboot leaves an encode layer with typed channels, whatever is sent next.
LEMMA EncodeRebootType ==
  ASSUME LayersTypeOK, NEW s \in Seq(Ids), EncodeReboot(s)
  PROVE  /\ inbox' \in Seq(Ids) /\ cur' \in Ids0 /\ epoch' \in Nat
         /\ ret' \in [Layers -> Seq(Message)]
<1>1. inbox' \in Seq(Ids) /\ cur' \in Ids0 /\ epoch' \in Nat
  BY PnJobsAssumption DEF LayersTypeOK, EncodeReboot, Ids0
<1>2. <<>> \in Seq(Message)
  OBVIOUS
<1>3. ret' \in [Layers -> Seq(Message)]
  BY <1>2 DEF LayersTypeOK, EncodeReboot
<1> QED
  BY <1>1, <1>3

\* A send to the encoder goes into its inbox, or into a fresh one.
LEMMA EncodeSendType ==
  ASSUME LayersTypeOK, reboots \in Nat, NEW i \in Ids, EncodeSend(i)
  PROVE  /\ inbox' \in Seq(Ids) /\ cur' \in Ids0 /\ epoch' \in Nat
         /\ ret' \in [Layers -> Seq(Message)] /\ reboots' \in Nat
<1>1. CASE UNCHANGED <<cur, epoch, ret, reboots>> /\ inbox' = Append(inbox, i)
  BY <1>1 DEF LayersTypeOK
<1>2. CASE reboots' = reboots + 1 /\ EncodeReboot(<<i>>)
  <2>1. <<i>> \in Seq(Ids)
    OBVIOUS
  <2>2. /\ inbox' \in Seq(Ids) /\ cur' \in Ids0 /\ epoch' \in Nat
        /\ ret' \in [Layers -> Seq(Message)]
    BY <1>2, <2>1, EncodeRebootType, Zenon
  <2>3. reboots' \in Nat
    BY <1>2
  <2> QED
    BY <2>2, <2>3
<1> QED
  BY <1>1, <1>2 DEF EncodeSend

-----------------------------------------------------------------------------
(* Type correctness *)

Typed ==
  /\ TypeOK
  /\ queue \subseteq Known
  /\ pass.todo \subseteq Known

-----------------------------------------------------------------------------
(* The layers by themselves *)

\* No step of a layer hands out an id, and each keeps the types of the layers.
LEMMA WorkersKeepTypes ==
  ASSUME LayersTypeOK, WorkersNext
  PROVE  LayersTypeOK' /\ born' = born
<1> USE DEF Layers, Pools
<1>1. ASSUME NEW p \in Pools, PoolStart(p)
      PROVE  LayersTypeOK' /\ born' = born
  <2> DEFINE i == Head(pend[p])
  <2>1. i \in Ids /\ Tail(pend[p]) \in Seq(Ids)
    BY <1>1 DEF PoolStart, LayersTypeOK
  <2>2. run' \in [Pools -> [Ids -> Phases]]
    BY <1>1, <2>1, TaskType DEF PoolStart, Phases
  <2>3. ret' \in [Layers -> Seq(Message)]
    BY <1>1, <2>1, MessageTypes, SentType DEF PoolStart
  <2>4. pend' \in [Pools -> Seq(Ids)]
    BY <1>1, <2>1 DEF PoolStart, LayersTypeOK
  <2> QED
    BY <1>1, <2>2, <2>3, <2>4 DEF PoolStart, LayersTypeOK, encVars
<1>2. ASSUME NEW p \in Pools, NEW i \in Ids, FetchTorrent(p, i)
      PROVE  LayersTypeOK' /\ born' = born
  <2>1. run' \in [Pools -> [Ids -> Phases]]
    BY <1>2, TaskType DEF FetchTorrent, Phases
  <2>2. disk' \in Disk
    BY <1>2 DEF FetchTorrent, LayersTypeOK, Disk
  <2> QED
    BY <1>2, <2>1, <2>2 DEF FetchTorrent, LayersTypeOK, encVars
<1>3. ASSUME NEW i \in Ids, LockTorrent(i)
      PROVE  LayersTypeOK' /\ born' = born
  <2>1. run' \in [Pools -> [Ids -> Phases]]
    BY <1>3, TaskType DEF LockTorrent, Phases
  <2> QED
    BY <1>3, <2>1 DEF LockTorrent, LayersTypeOK, encVars
\* A task that ends with any message leaves types as they are, and so does a
\* step that only adds to the disk.
<1>4. ASSUME NEW p \in Pools, NEW i \in Ids, NEW m \in Message, PoolEnd(p, i, m), disk' \in Disk
      PROVE  LayersTypeOK' /\ born' = born
  BY <1>4, PoolEndType DEF LayersTypeOK, encVars
<1>5. ASSUME NEW i \in Ids, TorrentLocked(i)
      PROVE  LayersTypeOK' /\ born' = born
  <2>1. PICK o \in LockHolders(i) : PoolEnd("Download", i, DuplicateMsg(i, o))
    BY <1>5 DEF TorrentLocked
  <2>2. DuplicateMsg(i, o) \in Message
    BY MessageTypes, PnJobsAssumption DEF LockHolders, Ids, Ids0
  <2>3. disk' \in Disk
    BY <1>5 DEF TorrentLocked, LayersTypeOK
  <2> QED
    BY <1>4, <2>1, <2>2, <2>3
<1>6. ASSUME NEW i \in Known, FileDone(i)
      PROVE  LayersTypeOK' /\ born' = born
  <2>1. PICK f \in Entries(born[i]) \ delivered[i] :
          /\ delivered' = [delivered EXCEPT ![i] = @ \cup {f}]
          /\ ret' = TrySent("Download", FileDoneMsg(i, f))
    BY <1>6 DEF FileDone
  <2>2. i \in Ids /\ f \in Files
    BY BornOfRequest DEF Known, LayersTypeOK, Entries, Request
  <2>3. ret' \in [Layers -> Seq(Message)]
    BY <2>1, <2>2, MessageTypes, SentType DEF Idx
  <2>4. delivered' \in [Ids -> SUBSET Files]
    BY <2>1, <2>2 DEF LayersTypeOK
  <2> QED
    BY <1>6, <2>3, <2>4 DEF FileDone, LayersTypeOK, encVars
<1>7. ASSUME NEW p \in Pools, NEW i \in Ids, PoolStep(p, i)
      PROVE  LayersTypeOK' /\ born' = born
  <2>1. \A s \in {"Downloaded", "Uploaded", "Probed", "Failed", "Cancelled"} :
          StageMsg(i, s) \in Message
    BY MessageTypes DEF Stages
  <2>2. disk \in Disk /\ [disk EXCEPT !.input = @ \cup {i}] \in Disk
    BY DEF LayersTypeOK, Disk
  <2>3. CASE Download(i)
    BY <1>4, <2>1, <2>2, <2>3 DEF Download
  <2>4. CASE PoolDone(p, i) /\ p # "Download"
    BY <1>4, <2>1, <2>2, <2>4 DEF PoolDone, ProbeResult
  <2>5. CASE PoolFailed(p, i) \/ PoolCancelled(p, i)
    BY <1>4, <2>1, <2>2, <2>5 DEF PoolFailed, PoolCancelled
  <2> QED
    BY <1>7, <2>3, <2>4, <2>5 DEF PoolStep, PoolDone
<1>8. ASSUME NEW i \in Ids, PreviewStart(i)
      PROVE  LayersTypeOK' /\ born' = born
  <2>1. run' \in [Pools -> [Ids -> Phases]]
    BY <1>8, TaskType DEF PreviewStart, Phases
  <2>2. ret' \in [Layers -> Seq(Message)]
    BY <1>8, MessageTypes, SentType DEF PreviewStart, Stages
  <2> QED
    BY <1>8, <2>1, <2>2 DEF PreviewStart, LayersTypeOK, encVars
<1>9. ASSUME EncodeTake
      PROVE  LayersTypeOK' /\ born' = born
  <2> DEFINE i == Head(inbox)
  <2>1. i \in Ids /\ Tail(inbox) \in Seq(Ids)
    BY <1>9 DEF EncodeTake, LayersTypeOK
  <2>2. StageMsg(i, "Cancelled") \in Message /\ StageMsg(i, "Encoding") \in Message
    BY <2>1, MessageTypes DEF Stages
  <2>3. ret' \in [Layers -> Seq(Message)]
    <3>1. \A m \in Message : Sent("Encode", m) \in [Layers -> Seq(Message)]
      BY SentType
    <3>2. ret' \in {Sent("Encode", StageMsg(i, "Cancelled")), Sent("Encode", StageMsg(i, "Encoding"))}
      BY <1>9 DEF EncodeTake
    <3> QED
      BY <2>2, <3>1, <3>2
  <2>4. cur' \in Ids0 /\ inbox' \in Seq(Ids)
    BY <1>9, <2>1, PnJobsAssumption DEF EncodeTake, Ids, Ids0
  <2> QED
    BY <1>9, <2>3, <2>4 DEF EncodeTake, LayersTypeOK, poolVars
<1>10. ASSUME NEW s \in {"Encoded", "Failed", "Cancelled"}, EncodeEnd(s)
       PROVE  LayersTypeOK' /\ born' = born
  <2>1. cur \in Ids
    BY <1>10, PnJobsAssumption DEF EncodeEnd, LayersTypeOK, Ids, Ids0
  <2>2. ret' \in [Layers -> Seq(Message)]
    BY <1>10, <2>1, MessageTypes, SentType DEF EncodeEnd, Stages
  <2>3. cur' \in Ids0
    BY <1>10, PnJobsAssumption DEF EncodeEnd, Ids0
  <2> QED
    BY <1>10, <2>2, <2>3 DEF EncodeEnd, LayersTypeOK, poolVars
<1> QED
  BY <1>1, <1>2, <1>3, <1>5, <1>6, <1>7, <1>8, <1>9, <1>10
     DEF WorkersNext, EncoderNext, PoolNext, DownloadStep, Known

-----------------------------------------------------------------------------
(* Parts of the loop's steps *)

\* Between walks there is nothing left to look at.
LEMMA NoPassType == NoPass \in Pass /\ NoPass.todo = {}
  BY DEF NoPass, Pass

\* The end of a turn leaves typed records, under the current epoch.
LEMMA BackToTopType ==
  ASSUME TypeOK, NEW jobs \in Jobs, BackToTop(jobs)
  PROVE  /\ pc' \in Live \cup {"exited"} /\ pass' \in Pass /\ pass'.todo = {}
         /\ job' \in [Ids -> Job] /\ seenEpoch' \in Nat
  BY NoPassType, CheckedType DEF BackToTop, TypeOK, LayersTypeOK, Jobs, Live

\* Typed, when the layers and what every id stands for stay as they are
LEMMA SameLayers ==
  ASSUME Typed, UNCHANGED layerVars
  PROVE  LayersTypeOK' /\ Known' = Known
  BY DEF Typed, TypeOK, LayersTypeOK, layerVars, Known

\* Typed, when what every id stands for and most of what the layers keep stay
LEMMA SameBirths ==
  ASSUME Typed, UNCHANGED born
  PROVE  Known' = Known
  BY DEF Known

-----------------------------------------------------------------------------
(* Requests *)

\* A request that is refused or declined leaves the queue as it was.
LEMMA RefuseTyped ==
  ASSUME Typed, NEW n \in Names, Refuse(n) \/ DeclineSetup(n)
  PROVE  Typed'
<1>1. BackToTop(job) /\ UNCHANGED layerVars
  BY DEF Refuse, DeclineSetup
<1>2. LayersTypeOK' /\ Known' = Known
  BY <1>1, SameLayers
<1>3. kept' \in [Names -> Keyword] /\ backlog' \subseteq Names
  BY DEF Refuse, DeclineSetup, Typed, TypeOK, Keyword
<1>4. job \in Jobs
  BY DEF Typed, TypeOK, Jobs
<1> QED
  BY <1>1, <1>2, <1>3, <1>4, BackToTopType DEF Typed, TypeOK, Refuse, DeclineSetup

\* Preparing a request hands out one id, which is from then on known.
LEMMA PrepareTyped ==
  ASSUME Typed, NEW n \in Names, Prepare(n)
  PROVE  Typed'
<1> USE DEF Prepare
<1>1. nextId \in Ids /\ nextId' \in 1..(MaxJobs + 1)
  BY PnJobsAssumption DEF Typed, TypeOK, Ids
<1>2. [name |-> n, parent |-> 0, idx |-> Submissions[n].idx] \in Birth /\ n # 0
  <2>1. Submissions[n] \in Request /\ n \in 1..Len(Submissions) /\ Len(Submissions) \in Nat
    BY PnJobsAssumption DEF Names
  <2>2. Submissions[n].idx \in Idx /\ n \in 0..Len(Submissions) /\ n # 0
    BY <2>1 DEF Request
  <2> QED
    BY <2>2, PnJobsAssumption DEF Birth, Ids0
<1>3. born' \in [Ids -> Birth]
  BY <1>2 DEF Typed, TypeOK, LayersTypeOK
<1>4. Known \cup {nextId} \subseteq Known'
  BY <1>1, <1>2 DEF Known, Typed, TypeOK, LayersTypeOK
<1>5. disk' \in Disk
  BY <1>1 DEF Typed, TypeOK, LayersTypeOK, Disk
<1>6. kept' \in [Names -> Keyword]
  BY DEF Typed, TypeOK, Keyword
<1>7. pass' \in Pass /\ pass'.todo = {nextId}
  BY <1>1, NoPassType DEF Pass
<1>8. LayersTypeOK'
  BY <1>3, <1>5 DEF Typed, TypeOK, LayersTypeOK, poolVars, encVars
<1> QED
  BY <1>1, <1>4, <1>6, <1>7, <1>8 DEF Typed, TypeOK, Live

\* A cancellation drops the job with its followers, or marks its directory.
LEMMA CancelTyped ==
  ASSUME Typed, NEW i \in Ids, Cancel(i)
  PROVE  Typed'
<1> DEFINE d == [disk EXCEPT !.marker = @ \cup {i} \cup {c \in queue : Batch(i) /\ born[c].parent = i}]
<1> DEFINE gone == {i} \cup ForwardedTo({i})
<1>1. i \in Known /\ gone \subseteq Ids
  BY DEF Cancel, Typed, TypeOK, ForwardedTo
<1>2. d \in Disk
  BY <1>1 DEF Typed, TypeOK, LayersTypeOK, Disk
<1>3. FinalizeCancelled(i, d) \/ (disk' = d /\ UNCHANGED <<queue, job, db, kept>>)
  BY DEF Cancel
<1>4. disk' \in Disk /\ queue' \subseteq queue /\ job' \in [Ids -> Job]
      /\ db' \in [Ids -> Row] /\ kept' \in [Names -> Keyword]
  <2>1. CASE FinalizeCancelled(i, d)
    <3>1. disk' \in Disk
      BY <1>1, <1>2, <2>1, CachedInputType, CleanedType DEF FinalizeCancelled, Typed, TypeOK
    <3>2. job' \in [Ids -> Job]
      BY <2>1, WithoutType DEF FinalizeCancelled, Typed, TypeOK, Jobs
    <3>3. db' \in [Ids -> Row]
      BY <2>1, RowsType DEF FinalizeCancelled, Typed, TypeOK, Stages
    <3>4. kept' \in [Names -> Keyword]
      BY <2>1, FailKeepsType DEF FinalizeCancelled, Typed, TypeOK
    <3> QED
      BY <2>1, <3>1, <3>2, <3>3, <3>4 DEF FinalizeCancelled
  <2>2. CASE disk' = d /\ UNCHANGED <<queue, job, db, kept>>
    BY <1>2, <2>2 DEF Typed, TypeOK
  <2> QED
    BY <1>3, <2>1, <2>2
<1>5. LayersTypeOK' /\ Known' = Known
  BY <1>4, SameBirths DEF Cancel, Typed, TypeOK, LayersTypeOK, poolVars, encVars
<1> QED
  BY <1>4, <1>5 DEF Cancel, Typed, TypeOK, Live

\* A follower takes a stage its leader has and a label that is read back.
LEMMA ForwardedType ==
  ASSUME TypeOK, NEW j \in Job, NEW p \in Ids
  PROVE  Forwarded(j, p) \in Job
<1>1. job[p].ready \in Stages /\ p \in Ids0 /\ 0 \in Ids0
  BY JobReads, PnJobsAssumption DEF TypeOK, Ids, Ids0
<1>2. ForwardedWorker(job[p].worker) \in Workers
  BY ForwardedWorkerType
<1> QED
  BY <1>1, <1>2 DEF Forwarded, Job

\* Whatever a job waits for is a job.
LEMMA DuplicateType ==
  ASSUME Typed, NEW i
  PROVE  DuplicateOf(i) \in Ids0
<1>1. Sharers(i) \in SUBSET Ids
  BY DEF Sharers, Typed, TypeOK
<1>2. Sharers(i) # {} => First(Sharers(i)) \in Ids
  BY <1>1, FirstIn
<1>3. \A o \in Ids : job[o].dup \in Ids0 /\ o \in Ids0
  BY JobReads, PnJobsAssumption DEF Typed, TypeOK, Ids, Ids0
<1> QED
  BY <1>2, <1>3, PnJobsAssumption DEF DuplicateOf, Ids0

\* Wherever a download is routed, the record and the disk stay typed.
LEMMA RoutedType ==
  ASSUME Typed, NEW i \in Ids, NEW j \in Job
  PROVE  /\ Routed(i, j) \in Job
         /\ RoutedDisk(i) \in Disk
         /\ RouteSend(i) => pend' \in [Pools -> Seq(Ids)]
<1>1. Routed(i, j) \in Job
  BY DuplicateType DEF Routed, Job, Stages, Workers
<1>2. RoutedDisk(i) \in Disk
  BY DEF RoutedDisk, Typed, TypeOK, LayersTypeOK, Disk
<1>3. RouteSend(i) => pend' \in [Pools -> Seq(Ids)]
  BY PoolSendType DEF RouteSend, Typed, TypeOK, LayersTypeOK, Pools
<1> QED
  BY <1>1, <1>2, <1>3

\* What is pushed is known, or it is declined.
LEMMA PushType ==
  ASSUME Typed, NEW i \in Known, NEW j \in Job, NEW e \in Nat, NEW d \in Disk,
         Push(i, j, e, d)
  PROVE  /\ queue' \subseteq queue \cup {i} /\ job' \in [Ids -> Job] /\ db' \in [Ids -> Row]
         /\ disk' \in Disk /\ pc' \in Live /\ pass' \in Pass /\ pass'.todo = {}
         /\ seenEpoch' \in Nat /\ kept' \in [Names -> Keyword]
<1>1. job \in Jobs /\ [job EXCEPT ![i] = j] \in Jobs /\ j.ready \in Stages
  BY JobReads DEF Typed, TypeOK, Jobs, Known
<1>2. /\ Inserted(i, j.ready) \in [Ids -> Row] /\ db \in [Ids -> Row]
      /\ FailKeeps({i}) \in [Names -> Keyword] /\ kept \in [Names -> Keyword]
  BY <1>1, InsertedType, FailKeepsType DEF Typed, TypeOK
<1>3. Cleaned(d, {i}) \in Disk /\ Checked(job, e) \in Jobs
  BY <1>1, CleanedType, CheckedType
<1> QED
  BY <1>1, <1>2, <1>3, NoPassType DEF Push, Typed, TypeOK, Jobs, Live

\* Every way a prepared job enters the queue, or does not, keeps the types.
LEMMA AdmitTyped ==
  ASSUME Typed, Admit
  PROVE  Typed'
<1>1. PICK i \in pass.todo :
        \/ (AdmitForwarded(i) \/ AdmitKilled(i)) /\ UNCHANGED kept
        \/ AdmitDownload(i) \/ AdmitProbe(i) \/ AdmitStudio(i) \/ AdmitKeycode(i)
  BY DEF Admit
<1>2. UNCHANGED <<born, sinceBatch, gitquery, backlog, nextId, cancels>>
  BY DEF Admit
<1>3. i \in Known /\ i \in Ids /\ Known' = Known
  BY <1>2, SameBirths DEF Typed, Known
<1>4. job \in Jobs /\ NewJob \in Job /\ disk \in Disk /\ epoch \in Nat
  BY NewJobType DEF Typed, TypeOK, LayersTypeOK, Jobs
\* It is enough that the step leaves the layers and what it writes typed.
<1>5. SUFFICES /\ LayersTypeOK'
               /\ queue' \subseteq queue \cup {i} /\ job' \in [Ids -> Job]
               /\ db' \in [Ids -> Row] /\ kept' \in [Names -> Keyword]
               /\ pc' \in Live /\ pass' \in Pass /\ pass'.todo = {}
               /\ seenEpoch' \in Nat /\ reboots' \in Nat
  BY <1>2, <1>3 DEF Typed, TypeOK
<1>6. CASE AdmitForwarded(i) /\ UNCHANGED kept
  <2> DEFINE j == Forwarded(NewJob, First(QueuedParents(i)))
  <2>1. j \in Job
    <3>1. QueuedParents(i) \in SUBSET Ids /\ QueuedParents(i) # {}
      BY <1>6 DEF AdmitForwarded, QueuedParents, Typed, TypeOK
    <3>2. First(QueuedParents(i)) \in Ids
      BY <3>1, FirstIn
    <3> QED
      BY <1>4, <3>2, ForwardedType DEF Typed
  <2> HIDE DEF j
  <2>2. BackToTop([job EXCEPT ![i] = j]) /\ (db' = Inserted(i, j.ready) \/ db' = db)
    BY <1>6 DEF AdmitForwarded, j
  <2>3. [job EXCEPT ![i] = j] \in Jobs /\ j.ready \in Stages
    BY <1>3, <1>4, <2>1, JobReads DEF Jobs
  <2>4. db' \in [Ids -> Row]
    BY <2>2, <2>3, InsertedType DEF Typed, TypeOK
  <2>5. /\ job' \in [Ids -> Job] /\ pc' \in Live /\ pass' \in Pass /\ pass'.todo = {}
        /\ seenEpoch' \in Nat
    BY <2>2, <2>3, BackToTopType DEF Typed, BackToTop, Live
  <2>6. LayersTypeOK'
    BY <1>2, <1>6 DEF AdmitForwarded, Typed, TypeOK, LayersTypeOK, poolVars, encVars
  <2> QED
    BY <1>6, <2>4, <2>5, <2>6 DEF AdmitForwarded, Typed, TypeOK
<1>7. CASE AdmitKilled(i) /\ UNCHANGED kept
  <2>1. db' \in [Ids -> Row]
    BY <1>7 DEF AdmitKilled, Typed, TypeOK, Row, Stages
  <2>2. disk' \in Disk
    BY <1>4, <1>7, CleanedType DEF AdmitKilled
  <2>3. /\ job' \in [Ids -> Job] /\ pc' \in Live /\ pass' \in Pass /\ pass'.todo = {}
        /\ seenEpoch' \in Nat
    BY <1>4, <1>7, BackToTopType DEF AdmitKilled, Typed, BackToTop, Live
  <2>4. LayersTypeOK'
    BY <1>2, <1>7, <2>2 DEF AdmitKilled, Typed, TypeOK, LayersTypeOK, poolVars, encVars
  <2> QED
    BY <1>7, <2>1, <2>3, <2>4 DEF AdmitKilled, Typed, TypeOK
<1>8. CASE AdmitDownload(i)
  <2> DEFINE j == Routed(i, [NewJob EXCEPT !.worker = "dwl-pending"])
  <2>1. j \in Job /\ RoutedDisk(i) \in Disk
    BY <1>3, <1>4, JobUpdates, RoutedType DEF Workers
  <2>2. pend' \in [Pools -> Seq(Ids)]
    BY <1>3, <1>4, <1>8, RoutedType DEF AdmitDownload
  <2>3. Push(i, j, epoch, RoutedDisk(i))
    BY <1>8 DEF AdmitDownload
  <2> HIDE DEF j
  <2>4. /\ queue' \subseteq queue \cup {i} /\ job' \in [Ids -> Job] /\ db' \in [Ids -> Row]
        /\ disk' \in Disk /\ pc' \in Live /\ pass' \in Pass /\ pass'.todo = {}
        /\ seenEpoch' \in Nat /\ kept' \in [Names -> Keyword]
    BY <1>3, <1>4, <2>1, <2>3, PushType
  <2>5. LayersTypeOK'
    BY <1>2, <1>8, <2>2, <2>4 DEF AdmitDownload, Typed, TypeOK, LayersTypeOK, encVars
  <2> QED
    BY <1>8, <2>4, <2>5 DEF AdmitDownload, Typed, TypeOK
<1>9. CASE AdmitProbe(i)
  <2> DEFINE j == [NewJob EXCEPT !.worker = "prw-pending",
                            !.ready = IF Type(i) = "Probe" THEN "Probing" ELSE "Encoding"]
  <2>1. j \in Job
    BY <1>4 DEF Job, Workers, Stages
  <2>2. pend' \in [Pools -> Seq(Ids)]
    BY <1>3, <1>9, PoolSendType DEF AdmitProbe, Typed, TypeOK, Pools
  <2>3. Push(i, j, epoch, disk)
    BY <1>9 DEF AdmitProbe
  <2> HIDE DEF j
  <2>4. /\ queue' \subseteq queue \cup {i} /\ job' \in [Ids -> Job] /\ db' \in [Ids -> Row]
        /\ disk' \in Disk /\ pc' \in Live /\ pass' \in Pass /\ pass'.todo = {}
        /\ seenEpoch' \in Nat /\ kept' \in [Names -> Keyword]
    BY <1>3, <1>4, <2>1, <2>3, PushType
  <2>5. LayersTypeOK'
    BY <1>2, <1>9, <2>2, <2>4 DEF AdmitProbe, Typed, TypeOK, LayersTypeOK, encVars
  <2> QED
    BY <1>9, <2>4, <2>5 DEF AdmitProbe, Typed, TypeOK
<1>10. CASE AdmitStudio(i)
  <2> DEFINE j == [NewJob EXCEPT !.worker = "enc-main", !.ready = "Encoding", !.dispatched = TRUE]
  <2>1. j \in Job
    BY <1>4 DEF Job, Workers, Stages
  <2>2. /\ inbox' \in Seq(Ids) /\ cur' \in Ids0 /\ epoch' \in Nat
        /\ ret' \in [Layers -> Seq(Message)] /\ reboots' \in Nat
    BY <1>3, <1>10, EncodeSendType DEF AdmitStudio, Typed, TypeOK
  <2>3. Push(i, j, epoch', disk)
    BY <1>10 DEF AdmitStudio
  <2> HIDE DEF j
  <2>4. /\ queue' \subseteq queue \cup {i} /\ job' \in [Ids -> Job] /\ db' \in [Ids -> Row]
        /\ disk' \in Disk /\ pc' \in Live /\ pass' \in Pass /\ pass'.todo = {}
        /\ seenEpoch' \in Nat /\ kept' \in [Names -> Keyword]
    BY <1>3, <1>4, <2>1, <2>2, <2>3, PushType
  <2>5. LayersTypeOK'
    BY <1>2, <1>10, <2>2, <2>4 DEF AdmitStudio, Typed, TypeOK, LayersTypeOK, poolVars
  <2> QED
    BY <2>2, <2>4, <2>5
<1>11. CASE AdmitKeycode(i)
  <2>1. [NewJob EXCEPT !.worker = "key-wait"] \in Job
    BY <1>4, JobUpdates DEF Workers
  <2>2. /\ queue' \subseteq queue \cup {i} /\ job' \in [Ids -> Job] /\ db' \in [Ids -> Row]
        /\ disk' \in Disk /\ pc' \in Live /\ pass' \in Pass /\ pass'.todo = {}
        /\ seenEpoch' \in Nat /\ kept' \in [Names -> Keyword]
    BY <1>3, <1>4, <1>11, <2>1, PushType DEF AdmitKeycode
  <2>3. LayersTypeOK'
    BY <1>2, <1>11, <2>2 DEF AdmitKeycode, Typed, TypeOK, LayersTypeOK, poolVars, encVars
  <2> QED
    BY <1>11, <2>2, <2>3 DEF AdmitKeycode, Typed, TypeOK
<1> QED
  BY <1>1, <1>6, <1>7, <1>8, <1>9, <1>10, <1>11

\* The process that exits for a git sync leaves an empty, typed queue.
LEMMA GitSyncTyped ==
  ASSUME Typed, GitSync
  PROVE  Typed'
<1> USE DEF GitSync
<1>1. job' \in [Ids -> Job] /\ disk' \in Disk
  BY WithoutType, CleanedType DEF Typed, TypeOK, LayersTypeOK, Jobs
<1>2. LayersTypeOK'
  <2>1. pend' \in [Pools -> Seq(Ids)] /\ inbox' \in Seq(Ids) /\ ret' \in [Layers -> Seq(Message)]
    <3>1. <<>> \in Seq(Ids) /\ <<>> \in Seq(Message)
      OBVIOUS
    <3> QED
      BY <3>1
  <2>2. run' \in [Pools -> [Ids -> Phases]] /\ delivered' \in [Ids -> SUBSET Files] /\ cur' \in Ids0
    BY PnJobsAssumption DEF Phases, Ids0
  <2> QED
    BY <1>1, <2>1, <2>2 DEF Typed, TypeOK, LayersTypeOK
<1> QED
  BY <1>1, <1>2, NoPassType, SameBirths DEF Typed, TypeOK

\* A git query is armed, kept or carried out.
LEMMA GitQueryTyped ==
  ASSUME Typed, GitQuery \/ ArmedGitQuery
  PROVE  Typed'
<1>1. CASE gitquery' = TRUE /\ pc' = "message" /\
           UNCHANGED <<pass, queue, job, db, kept, seenEpoch, sinceBatch, backlog, nextId,
                       cancels, reboots, layerVars>>
  BY <1>1, SameLayers DEF Typed, TypeOK, Live
<1>2. CASE BackToTop(job) /\
           UNCHANGED <<queue, db, kept, sinceBatch, gitquery, backlog, nextId, cancels,
                       reboots, layerVars>>
  <2>1. LayersTypeOK' /\ Known' = Known
    BY <1>2, SameLayers
  <2> QED
    BY <1>2, <2>1, BackToTopType DEF Typed, TypeOK, Jobs
<1> QED
  BY <1>1, <1>2, GitSyncTyped DEF GitQuery, ArmedGitQuery

\* A reboot while heartbeats are drained or messages received.
LEMMA RebootTyped ==
  ASSUME Typed, DrainReboot \/ ReceiveReboot
  PROVE  Typed'
<1>1. EncodeReboot(<<>>) /\ UNCHANGED <<born, disk, poolVars>> /\ reboots' = reboots + 1
  BY DEF DrainReboot, ReceiveReboot
<1>2. <<>> \in Seq(Ids)
  OBVIOUS
<1>3. /\ inbox' \in Seq(Ids) /\ cur' \in Ids0 /\ epoch' \in Nat
      /\ ret' \in [Layers -> Seq(Message)]
  BY <1>1, <1>2, EncodeRebootType, Zenon DEF Typed, TypeOK
<1>4. LayersTypeOK' /\ Known' = Known
  BY <1>1, <1>3, SameBirths DEF Typed, TypeOK, LayersTypeOK, poolVars
<1>5. job' \in [Ids -> Job] /\ seenEpoch' \in Nat
  <2>1. job \in Jobs /\ epoch + 1 \in Nat
    BY DEF Typed, TypeOK, LayersTypeOK, Jobs
  <2>2. Checked(job, epoch + 1) \in Jobs
    BY <2>1, CheckedType
  <2> QED
    BY <2>1, <2>2 DEF DrainReboot, ReceiveReboot, Typed, TypeOK, Jobs
<1> QED
  BY <1>1, <1>4, <1>5 DEF DrainReboot, ReceiveReboot, Typed, TypeOK

\* A key that leaves the input cache leaves a set of keys.
LEMMA ExpireCacheTyped ==
  ASSUME Typed, ExpireCache
  PROVE  Typed'
<1>1. disk' \in Disk
  BY DEF ExpireCache, Typed, TypeOK, LayersTypeOK, Disk
<1>2. LayersTypeOK' /\ Known' = Known
  BY <1>1, SameBirths DEF ExpireCache, Typed, TypeOK, LayersTypeOK, poolVars, encVars
<1> QED
  BY <1>2 DEF ExpireCache, Typed, TypeOK, mainVars

\* A keyword that is forgotten goes back to standing for nothing.
LEMMA ExpireKeepTyped ==
  ASSUME Typed, ExpireKeep
  PROVE  Typed'
<1>1. kept' \in [Names -> Keyword]
  BY DEF ExpireKeep, Typed, TypeOK, Keyword
<1> QED
  BY <1>1, SameLayers DEF ExpireKeep, Typed, TypeOK

\* An empty request channel moves the loop on.
LEMMA NoRequestTyped ==
  ASSUME Typed, NoRequest
  PROVE  Typed'
  BY SameLayers DEF NoRequest, Typed, TypeOK, Live

-----------------------------------------------------------------------------
(* Clocks and messages *)

\* An expired probe leaves the queue.
LEMMA ProbeTimeoutTyped ==
  ASSUME Typed, NEW i \in Ids, ProbeTimeout(i)
  PROVE  Typed'
<1> USE DEF ProbeTimeout
<1>1. job' \in [Ids -> Job] /\ disk' \in Disk /\ db' \in [Ids -> Row]
  BY WithoutType, CleanedType, RowsType DEF Typed, TypeOK, LayersTypeOK, Jobs, Stages
<1>2. LayersTypeOK' /\ Known' = Known
  BY <1>1, SameBirths DEF Typed, TypeOK, LayersTypeOK, poolVars, encVars
<1> QED
  BY <1>1, <1>2 DEF Typed, TypeOK

\* The stalled encodes leave with their followers, the rest is checked.
LEMMA EncodeStallTyped ==
  ASSUME Typed, NEW S \in SUBSET Ids, EncodeStall(S)
  PROVE  Typed'
<1> USE DEF EncodeStall
<1> DEFINE gone == S \cup ForwardedTo(S)
           told == BatchTold(job, S, "Failed")
<1>1. <<>> \in Seq(Ids)
  OBVIOUS
<1>2. /\ inbox' \in Seq(Ids) /\ cur' \in Ids0 /\ epoch' \in Nat
      /\ ret' \in [Layers -> Seq(Message)]
  BY <1>1, EncodeRebootType DEF Typed, TypeOK
<1>3. disk' \in Disk /\ db' \in [Ids -> Row] /\ kept' \in [Names -> Keyword]
  BY CleanedType, RowsType, FailKeepsType DEF Typed, TypeOK, LayersTypeOK, Stages
<1>4. job' \in [Ids -> Job] /\ seenEpoch' \in Nat
  <2>1. job \in Jobs /\ epoch + 1 \in Nat
    BY DEF Typed, TypeOK, LayersTypeOK, Jobs
  <2>2. told \in Jobs
    BY <2>1, BatchToldType
  <2>3. Checked(Without(told, gone), epoch + 1) \in Jobs
    BY <2>2, WithoutType, CheckedType
  <2> QED
    BY <2>1, <2>3 DEF Jobs
<1>5. LayersTypeOK' /\ Known' = Known
  BY <1>2, <1>3, SameBirths DEF Typed, TypeOK, LayersTypeOK, poolVars
<1>6. reboots' \in Nat
  BY DEF Typed, TypeOK
<1>7. queue' \subseteq queue /\ UNCHANGED <<pc, pass, sinceBatch, gitquery, backlog, nextId, cancels>>
  OBVIOUS
<1> HIDE DEF EncodeStall
<1> QED
  BY <1>3, <1>4, <1>5, <1>6, <1>7 DEF Typed, TypeOK

\* Taking a message off a return channel leaves a channel, and the message is one.
LEMMA ReceivedType ==
  ASSUME LayersTypeOK, NEW l \in Layers, ret[l] # <<>>
  PROVE  /\ Head(ret[l]) \in Message
         /\ Received(l) => ret' \in [Layers -> Seq(Message)]
<1>1. Head(ret[l]) \in Message /\ Tail(ret[l]) \in Seq(Message)
  BY DEF LayersTypeOK
<1> QED
  BY <1>1 DEF Received, LayersTypeOK

\* The first walk starts with jobs of the queue.
LEMMA StartDupType ==
  ASSUME NEW jobs, NEW Q \in SUBSET Ids, StartDup(jobs, Q)
  PROVE  pc' \in Live /\ pass' \in Pass /\ pass'.todo \subseteq Q
  BY NoPassType DEF StartDup, Pass, Live

\* A stage reaches the job, its followers, its batch, and the probe it left.
LEMMA HandleStageType ==
  ASSUME Typed, NEW m \in Message, HandleStage(m)
  PROVE  /\ queue' \subseteq queue /\ job' \in [Ids -> Job] /\ db' \in [Ids -> Row]
         /\ kept' \in [Names -> Keyword] /\ disk' \in Disk
         /\ pc' \in Live /\ pass' \in Pass /\ pass'.todo \subseteq queue'
<1> DEFINE i == m.id
           s == m.stage
           followers == ForwardedTo({i})
           ended == IF s \in Terminal THEN {i} \cup followers ELSE {}
           gone == ended \cup ProbeLeft(i, s)
           told == BatchTold([job EXCEPT ![i] = Staged(@, s)], {i}, s)
<1>1. i \in queue /\ i \in Known /\ i \in Ids /\ s \in Stages
  BY DEF HandleStage, Typed, Known, Message
<1>2. queue' = queue \ gone /\ queue' \in SUBSET Ids
  BY DEF HandleStage, Typed, TypeOK
<1>3. job' \in [Ids -> Job]
  <2>1. job \in Jobs /\ job[i] \in Job
    BY <1>1 DEF Typed, TypeOK, Jobs
  <2>2. Staged(job[i], s) \in Job
    BY <1>1, <2>1 DEF Staged, Job
  <2>3. [job EXCEPT ![i] = Staged(@, s)] \in Jobs
    BY <2>1, <2>2 DEF Jobs
  <2>4. told \in Jobs
    BY <1>1, <2>3, BatchToldType
  <2>5. Synced(told, i, s, job[i].worker) \in Jobs
    BY <1>1, <2>4, SyncedType
  <2>6. Without(Synced(told, i, s, job[i].worker), gone) \in Jobs
    BY <2>5, WithoutType
  <2> QED
    BY <2>6 DEF HandleStage, Jobs
<1>4. db' \in [Ids -> Row]
  BY <1>1, RowsType DEF HandleStage, Typed, TypeOK
<1>5. kept' \in [Names -> Keyword]
  BY FailKeepsType DEF HandleStage, Typed, TypeOK
<1>6. disk' \in Disk
  <2>1. disk \in Disk /\ CachedInput(disk, i) \in Disk
    BY <1>1, CachedInputType DEF Typed, TypeOK, LayersTypeOK
  <2>2. disk' = Cleaned(IF CachesAt(i, s) THEN CachedInput(disk, i) ELSE disk, gone)
    BY DEF HandleStage
  <2> QED
    BY <2>1, <2>2, CleanedType
<1>7. pc' \in Live /\ pass' \in Pass /\ pass'.todo \subseteq queue'
  <2>1. StartDup(job', queue')
    BY DEF HandleStage
  <2> QED
    BY <1>2, <2>1, NoPassType DEF StartDup, Pass, Live
<1> QED
  BY <1>2, <1>3, <1>4, <1>5, <1>6, <1>7

\* A finished file becomes a child with the next id, or a counted failure.
LEMMA HandleFileDoneType ==
  ASSUME Typed, NEW m \in Message, HandleFileDone(m)
  PROVE  /\ born' \in [Ids -> Birth] /\ Known \subseteq Known' /\ queue' \subseteq Known'
         /\ nextId' \in 1..(MaxJobs + 1) /\ disk' \in Disk
         /\ job' \in [Ids -> Job] /\ db' \in [Ids -> Row]
         /\ pc' \in Live /\ pass' \in Pass /\ pass'.todo = {} /\ seenEpoch' \in Nat
<1> DEFINE p == m.id
           f == m.file
           child == [job EXCEPT ![p].kid[f] = nextId,
                                ![nextId] = [NewJob EXCEPT !.ready = "Downloaded",
                                                           !.worker = "enc-pending"]]
<1>1. p \in Known /\ p \in Ids /\ f \in Idx /\ job \in Jobs
  BY DEF HandleFileDone, Typed, TypeOK, Known, Message, Jobs
<1> DEFINE j == job[p]
<1>2. \A jobs \in Jobs : BackToTop(jobs) =>
        /\ pc' \in Live /\ pass' \in Pass /\ pass'.todo = {}
        /\ job' \in [Ids -> Job] /\ seenEpoch' \in Nat
  BY BackToTopType DEF Typed, BackToTop, Live
<1>3. CASE BackToTop(job) /\ UNCHANGED <<queue, db, nextId, born, disk>>
  BY <1>1, <1>2, <1>3, SameBirths DEF Typed, TypeOK, LayersTypeOK
<1>4. CASE /\ nextId \in Ids
           /\ born' = [born EXCEPT ![nextId] = [name |-> born[p].name, parent |-> p, idx |-> f]]
           /\ disk' = [disk EXCEPT !.input = @ \cup {nextId}]
           /\ queue' = queue \cup {nextId}
           /\ BackToTop(child)
           /\ db' = Inserted(nextId, "Downloaded")
           /\ nextId' = nextId + 1
  <2>1. [name |-> born[p].name, parent |-> p, idx |-> f] \in Birth /\ born[p].name # 0
    BY <1>1, PnJobsAssumption DEF Typed, TypeOK, LayersTypeOK, Birth, Known, Ids, Ids0
  <2>2. born' \in [Ids -> Birth]
    BY <1>4, <2>1 DEF Typed, TypeOK, LayersTypeOK
  <2>3. Known \subseteq Known' /\ nextId \in Known'
    BY <1>4, <2>1 DEF Known, Typed, TypeOK, LayersTypeOK
  <2>4. child \in Jobs
    <3>1. nextId \in Ids0 /\ j \in Job
      BY <1>1, <1>4, PnJobsAssumption DEF Ids, Ids0, Jobs
    <3> HIDE DEF j
    <3>2. [j EXCEPT !.kid[f] = nextId] \in Job
      BY <3>1 DEF Job
    <3>3. [job EXCEPT ![p].kid[f] = nextId] \in Jobs
      BY <1>1, <3>2 DEF Jobs, j
    <3>4. [NewJob EXCEPT !.ready = "Downloaded", !.worker = "enc-pending"] \in Job
      BY NewJobType DEF Job, Stages, Workers
    <3> QED
      BY <1>4, <3>3, <3>4 DEF Jobs
  <2>5. disk' \in Disk
    BY <1>4 DEF Typed, TypeOK, LayersTypeOK, Disk
  <2>6. db' \in [Ids -> Row]
    BY <1>4, InsertedType DEF Typed, TypeOK, Stages
  <2>7. nextId' \in 1..(MaxJobs + 1)
    BY <1>4, PnJobsAssumption DEF Ids
  <2> HIDE DEF child
  <2> QED
    BY <1>2, <1>4, <2>2, <2>3, <2>4, <2>5, <2>6, <2>7 DEF Typed
<1>5. CASE BackToTop([job EXCEPT ![p].failed = @ + 1]) /\ UNCHANGED <<queue, db, nextId, born, disk>>
  <2>1. [j EXCEPT !.failed = @ + 1] \in Job
    <3>1. j \in Job
      BY <1>1 DEF Jobs
    <3> HIDE DEF j
    <3> QED
      BY <3>1 DEF Job
  <2>2. [job EXCEPT ![p].failed = @ + 1] \in Jobs
    BY <1>1, <2>1 DEF Jobs
  <2> QED
    BY <1>2, <1>5, <2>2, SameBirths DEF Typed, TypeOK, LayersTypeOK
<1> QED
  BY <1>3, <1>4, <1>5 DEF HandleFileDone

\* Whichever message comes first, handling it keeps the types.
LEMMA ReceiveTyped ==
  ASSUME Typed, Receive
  PROVE  Typed'
<1>1. PICK l \in Layers :
        /\ ret[l] # <<>> /\ Received(l)
        /\ LET m == Head(ret[l]) IN
             \/ HandleStale(m) \/ HandleAssign(l, m) \/ HandleFileDone(m)
             \/ HandleDuplicate(m) \/ HandleStage(m)
  BY DEF Receive
<1> DEFINE m == Head(ret[l])
<1>2. m \in Message /\ ret' \in [Layers -> Seq(Message)]
  BY <1>1, ReceivedType DEF Typed, TypeOK
<1>3. UNCHANGED <<sinceBatch, gitquery, backlog, cancels, reboots, poolVars, encVars>>
  BY DEF Receive
<1> HIDE DEF m
<1>4. job \in Jobs /\ m.id \in Ids /\ m.owner \in Ids0
  BY <1>2 DEF Typed, TypeOK, Jobs, Message
\* Only a new child is born, and only what is written may change its type.
<1>5. ASSUME born' \in [Ids -> Birth], Known \subseteq Known', disk' \in Disk
      PROVE  LayersTypeOK'
  BY <1>2, <1>3, <1>5 DEF Typed, TypeOK, LayersTypeOK, poolVars, encVars
<1>6. CASE HandleStale(m)
  <2>1. StartDup(job, queue) /\ UNCHANGED <<queue, job, db, kept, seenEpoch, nextId, born, disk>>
    BY <1>6 DEF HandleStale
  <2>2. pc' \in Live /\ pass' \in Pass /\ pass'.todo \subseteq queue
    BY <2>1, StartDupType DEF Typed, TypeOK
  <2>3. LayersTypeOK' /\ Known' = Known
    BY <1>5, <2>1, SameBirths DEF Typed, TypeOK, LayersTypeOK
  <2> QED
    BY <1>3, <2>1, <2>2, <2>3 DEF Typed, TypeOK
<1>7. CASE HandleAssign(l, m) \/ HandleDuplicate(m)
  <2>1. PICK jobs \in Jobs : BackToTop(jobs)
    <3>1. CASE HandleAssign(l, m)
      <4> DEFINE label(c) == IF c = m.id THEN [job[c] EXCEPT !.worker = SlotOf(l)]
                             ELSE IF c \in ForwardedTo({m.id})
                                  THEN [job[c] EXCEPT !.worker = ForwardedWorker(SlotOf(l))]
                                  ELSE job[c]
      <4>1. SlotOf(l) \in Workers
        BY DEF SlotOf, Workers
      <4>2. \A c \in Ids : label(c) \in Job
        BY <1>4, <4>1, JobUpdates, ForwardedWorkerType DEF Jobs
      <4>3. [c \in Ids |-> label(c)] \in Jobs
        BY <4>2 DEF Jobs
      <4> QED
        BY <3>1, <4>3 DEF HandleAssign
    <3>2. CASE HandleDuplicate(m)
      <4>1. [job[m.id] EXCEPT !.dup = m.owner] \in Job
        BY <1>4, JobUpdates DEF Jobs
      <4>2. [job EXCEPT ![m.id].dup = m.owner] \in Jobs
        BY <1>4, <4>1 DEF Jobs
      <4> QED
        BY <3>2, <4>2 DEF HandleDuplicate
    <3> QED
      BY <1>7, <3>1, <3>2
  <2>2. UNCHANGED <<queue, db, kept, nextId, born, disk>>
    BY <1>7 DEF HandleAssign, HandleDuplicate
  <2>3. LayersTypeOK' /\ Known' = Known
    BY <1>5, <2>2, SameBirths DEF Typed, TypeOK, LayersTypeOK
  <2> QED
    BY <1>3, <2>1, <2>2, <2>3, BackToTopType DEF Typed, TypeOK
<1>8. CASE HandleFileDone(m)
  <2>1. UNCHANGED kept
    BY <1>8 DEF HandleFileDone
  <2>2. LayersTypeOK'
    BY <1>2, <1>5, <1>8, HandleFileDoneType
  <2> QED
    BY <1>2, <1>3, <1>8, <2>1, <2>2, HandleFileDoneType DEF Typed, TypeOK, Known
<1>9. CASE HandleStage(m)
  <2>1. UNCHANGED <<seenEpoch, nextId, born>>
    BY <1>9 DEF HandleStage
  <2>2. Known' = Known
    BY <2>1, SameBirths
  <2>3. LayersTypeOK'
    BY <1>2, <1>5, <1>9, <2>1, <2>2, HandleStageType DEF Typed, TypeOK, LayersTypeOK
  <2> QED
    BY <1>2, <1>3, <1>9, <2>1, <2>2, <2>3, HandleStageType DEF Typed, TypeOK
<1> QED
  BY <1>1, <1>6, <1>7, <1>8, <1>9 DEF m

\* With nothing received the first walk starts.
LEMMA NoMessageTyped ==
  ASSUME Typed, NoMessage
  PROVE  Typed'
<1>1. StartDup(job, queue) /\ UNCHANGED layerVars
  BY DEF NoMessage
<1>2. pc' \in Live /\ pass' \in Pass /\ pass'.todo \subseteq queue
  BY <1>1, StartDupType DEF Typed, TypeOK
<1>3. LayersTypeOK' /\ Known' = Known
  BY <1>1, SameLayers
<1> QED
  BY <1>2, <1>3 DEF NoMessage, Typed, TypeOK

-----------------------------------------------------------------------------
(* Walks *)

\* A walk only shrinks, by one job a step.
LEMMA PastType ==
  ASSUME Typed, NEW i
  PROVE  /\ Past(i) \in Pass /\ Past(i).todo \subseteq Known
         /\ i \in Ids => [Past(i) EXCEPT !.dead = @ \cup {i}] \in Pass
         /\ [Past(i) EXCEPT !.dead = @ \cup {i}].todo \subseteq Known
  BY DEF Past, Pass, Typed, TypeOK

\* A job with nothing to do is passed over.
LEMMA SkipTyped ==
  ASSUME Typed, NEW i, Skip(i)
  PROVE  Typed'
<1>1. LayersTypeOK' /\ Known' = Known
  BY SameLayers DEF Skip
<1> QED
  BY <1>1, PastType DEF Skip, Typed, TypeOK

\* What a killed job leaves is typed.
LEMMA KilledType ==
  ASSUME Typed, NEW i \in Ids, Killed(i)
  PROVE  /\ db' \in [Ids -> Row] /\ disk' \in Disk
         /\ pass' \in Pass /\ pass'.todo \subseteq Known
  BY PastType, RowsType, CleanedType DEF Killed, Typed, TypeOK, LayersTypeOK, Stages

\* A waiting job gets its input, is queued again, or waits on.
LEMMA DupStepTyped ==
  ASSUME Typed, NEW i \in Ids, DupStep(i)
  PROVE  Typed'
<1> DEFINE j == job[i]
<1>1. j \in Job /\ job \in Jobs
  BY DEF Typed, TypeOK, Jobs
<1> HIDE DEF j
<1>2. /\ [j EXCEPT !.ready = "Downloaded", !.worker = "dwl-cache"] \in Job
      /\ Requeued(j) \in Job
      /\ [j EXCEPT !.ready = "Downloaded", !.dup = 0] \in Job
  <2>1. /\ "Downloaded" \in Stages /\ "Queued" \in Stages /\ 0 \in Ids0
        /\ "dwl-cache" \in Workers /\ "dwl-pending" \in Workers
    BY PnJobsAssumption DEF Stages, Workers, Ids0
  <2>2. [j EXCEPT !.ready = "Downloaded", !.worker = "dwl-cache"] \in Job
    BY <1>1, <2>1 DEF Job
  <2>3. Requeued(j) \in Job
    BY <1>1, <2>1 DEF Job, Requeued
  <2>4. [j EXCEPT !.ready = "Downloaded", !.dup = 0] \in Job
    BY <1>1, <2>1 DEF Job
  <2> QED
    BY <2>2, <2>3, <2>4
<1>3. [disk EXCEPT !.input = @ \cup {i}] \in Disk
  BY DEF Typed, TypeOK, LayersTypeOK, Disk
<1>4. /\ job' = job \/ \E k \in Job : job' = [job EXCEPT ![i] = k]
      /\ db' = db \/ \E s \in Stages : db' = Rows({i}, s, {})
      /\ disk' = disk \/ disk' = [disk EXCEPT !.input = @ \cup {i}]
  <2> DEFINE gets(k) == /\ job' = [job EXCEPT ![i] = k]
                        /\ db' = Rows({i}, "Downloaded", {})
                        /\ disk' = [disk EXCEPT !.input = @ \cup {i}]
  <2>1. CASE CacheHit(i)
    <3>1. gets([j EXCEPT !.ready = "Downloaded", !.worker = "dwl-cache"])
      BY <2>1 DEF DupStep, j
    <3> QED
      BY <1>2, <3>1 DEF Stages
  <2>2. CASE ~CacheHit(i) /\ Requeues(i)
    <3>1. job' = [job EXCEPT ![i] = Requeued(j)] /\ db' = Rows({i}, "Queued", {}) /\ disk' = disk
      BY <2>2 DEF DupStep, Requeues, j
    <3> QED
      BY <1>2, <3>1 DEF Stages
  <2>3. CASE /\ ~CacheHit(i) /\ ~Requeues(i)
             /\ ~OtherInput(i, j.dup) /\ SourceReady(j.dup)
    <3>1. gets([j EXCEPT !.ready = "Downloaded", !.dup = 0])
      BY <2>3 DEF DupStep, j
    <3> QED
      BY <1>2, <3>1 DEF Stages
  <2>4. CASE /\ ~CacheHit(i) /\ ~Requeues(i)
             /\ ~(~OtherInput(i, j.dup) /\ SourceReady(j.dup))
    BY <2>4 DEF DupStep, j
  <2> QED
    BY <2>1, <2>2, <2>3, <2>4
<1>5. job' \in [Ids -> Job] /\ db' \in [Ids -> Row] /\ disk' \in Disk
  <2>1. job' \in [Ids -> Job]
    BY <1>1, <1>4 DEF Jobs
  <2>2. db' \in [Ids -> Row]
    BY <1>4, RowsType DEF Typed, TypeOK
  <2>3. disk' \in Disk
    BY <1>3, <1>4 DEF Typed, TypeOK, LayersTypeOK
  <2> QED
    BY <2>1, <2>2, <2>3
<1>6. LayersTypeOK' /\ Known' = Known
  BY <1>5, SameBirths DEF DupStep, Typed, TypeOK, LayersTypeOK, poolVars, encVars
<1> QED
  BY <1>5, <1>6, PastType DEF DupStep, Typed, TypeOK

\* The second walk visits queued jobs.
LEMMA DupEndTyped ==
  ASSUME Typed, DupEnd
  PROVE  Typed'
<1>1. LayersTypeOK' /\ Known' = Known
  BY SameLayers DEF DupEnd
<1>2. pass' \in Pass /\ pass'.todo \subseteq queue
  BY NoPassType DEF DupEnd, Pass, Typed, TypeOK
<1> QED
  BY <1>1, <1>2 DEF DupEnd, Typed, TypeOK, Live

\* A job queued for download is routed, waits on, or is killed.
LEMMA WaitStepTyped ==
  ASSUME Typed, NEW i \in Ids, WaitStep(i)
  PROVE  Typed'
<1>1. UNCHANGED <<pc, queue, kept, seenEpoch, sinceBatch, gitquery, backlog, nextId,
                  cancels, reboots, born, run, delivered, encVars, ret>>
  BY DEF WaitStep
<1>2. /\ pass' \in Pass /\ pass'.todo \subseteq Known /\ job' \in [Ids -> Job]
      /\ db' \in [Ids -> Row] /\ disk' \in Disk /\ pend' \in [Pools -> Seq(Ids)]
  <2>1. CASE pass' = Past(i) /\ UNCHANGED <<job, db, disk, pend>>
    BY <2>1, PastType DEF Typed, TypeOK, LayersTypeOK
  <2>2. CASE /\ RouteSend(i)
             /\ job' = [job EXCEPT ![i] = Routed(i, @)]
             /\ disk' = RoutedDisk(i)
             /\ pass' = Past(i)
             /\ UNCHANGED db
    BY <2>2, PastType, RoutedType DEF Typed, TypeOK
  <2>3. CASE Killed(i) /\ UNCHANGED <<job, pend>>
    BY <2>3, KilledType DEF Typed, TypeOK, LayersTypeOK
  <2> QED
    BY <2>1, <2>2, <2>3 DEF WaitStep
<1>3. LayersTypeOK' /\ Known' = Known
  BY <1>1, <1>2, SameBirths DEF Typed, TypeOK, LayersTypeOK, encVars
<1> QED
  BY <1>1, <1>2, <1>3 DEF Typed, TypeOK

\* The claims a walk starts with are keys of jobs of the queue.
LEMMA WaitEndTyped ==
  ASSUME Typed, WaitEnd
  PROVE  Typed'
<1> DEFINE Q == queue \ pass.dead
           jobs == Checked(Without(job, pass.dead), epoch)
           sources == FirstClaims(KeyClaims(ActiveSources(Q, jobs)))
           parents == FirstClaims(OutputClaims(ActiveParents(Q, jobs)))
<1>1. LayersTypeOK /\ Q \subseteq Known /\ Q \subseteq Ids
  BY DEF Typed, TypeOK
<1>2. jobs \in Jobs
  BY WithoutType, CheckedType DEF Typed, TypeOK, Jobs
<1>3. sources \subseteq InputKey \X Ids
  BY <1>1, KeysOfKnown DEF FirstClaims, KeyClaims, ActiveSources
<1>4. parents \subseteq ForwardKey \X Ids
  BY <1>1, KeysOfKnown DEF FirstClaims, OutputClaims, ActiveParents
<1>5. OrdinaryWaiting(Q, jobs) \in BOOLEAN /\ ChildInFlight(Q, jobs) \in BOOLEAN
  BY DEF OrdinaryWaiting, ChildInFlight
<1> HIDE DEF sources, parents
<1>6. pass' = [NoPass EXCEPT !.todo = Q,
                 !.others = OrdinaryWaiting(Q, jobs), !.inFlight = ChildInFlight(Q, jobs),
                 !.source = sources, !.parent = parents]
  BY DEF WaitEnd, sources, parents
<1> HIDE DEF Q, jobs
<1>7. pass' \in Pass /\ pass'.todo = Q
  BY <1>1, <1>3, <1>4, <1>5, <1>6, NoPassType DEF Pass
<1>8. LayersTypeOK' /\ Known' = Known
  BY SameLayers DEF WaitEnd
<1> QED
  BY <1>1, <1>2, <1>7, <1>8 DEF WaitEnd, Typed, TypeOK, LayersTypeOK, Jobs, Live, Q, jobs

\* What a step of the progression walk must still show when it leaves Steady.
LEMMA SteadyTyped ==
  ASSUME Typed, UNCHANGED Steady, LayersTypeOK',
         pass' \in Pass, pass'.todo \subseteq Known, job' \in [Ids -> Job],
         db' \in [Ids -> Row], kept' \in [Names -> Keyword], sinceBatch' \in 0..2,
         reboots' \in Nat
  PROVE  Typed'
<1>1. Known' = Known
  BY SameBirths DEF Steady
<1> QED
  BY <1>1 DEF Steady, Typed, TypeOK

\* New records for one job
LEMMA OneJobType ==
  ASSUME Typed, NEW i \in Ids
  PROVE  /\ job[i] \in Job
         /\ \A k \in Job : [job EXCEPT ![i] = k] \in [Ids -> Job]
         /\ \A w \in Workers : [job EXCEPT ![i].worker = w] \in [Ids -> Job]
         /\ \A s \in Stages : [job EXCEPT ![i].ready = s] \in [Ids -> Job]
         /\ \A s \in Stages, w \in Workers :
              [job EXCEPT ![i].ready = s, ![i].worker = w] \in [Ids -> Job]
<1> DEFINE j == job[i]
<1>1. j \in Job /\ job \in Jobs
  BY DEF Typed, TypeOK, Jobs
<1> HIDE DEF j
<1>2. /\ \A w \in Workers : [j EXCEPT !.worker = w] \in Job
      /\ \A s \in Stages : [j EXCEPT !.ready = s] \in Job
  BY <1>1, JobUpdates
<1>3. \A s \in Stages, w \in Workers : [[j EXCEPT !.ready = s] EXCEPT !.worker = w] \in Job
  BY <1>2, JobUpdates
<1>4. \A k \in Job : [job EXCEPT ![i] = k] \in [Ids -> Job]
  BY <1>1 DEF Jobs
<1>5. \A w \in Workers : [job EXCEPT ![i].worker = w] = [job EXCEPT ![i] = [j EXCEPT !.worker = w]]
  BY DEF j
<1>6. \A s \in Stages : [job EXCEPT ![i].ready = s] = [job EXCEPT ![i] = [j EXCEPT !.ready = s]]
  BY DEF j
<1>7. \A s \in Stages, w \in Workers :
        [job EXCEPT ![i].ready = s, ![i].worker = w]
          = [job EXCEPT ![i] = [[j EXCEPT !.ready = s] EXCEPT !.worker = w]]
  BY <1>1 DEF Jobs, j
<1>8. \A w \in Workers : [job EXCEPT ![i].worker = w] \in [Ids -> Job]
  BY <1>2, <1>4, <1>5
<1>9. \A s \in Stages : [job EXCEPT ![i].ready = s] \in [Ids -> Job]
  BY <1>2, <1>4, <1>6
<1>10. \A s \in Stages, w \in Workers :
         [job EXCEPT ![i].ready = s, ![i].worker = w] \in [Ids -> Job]
  BY <1>3, <1>4, <1>7, ZenonT(30)
<1> QED
  BY <1>1, <1>4, <1>8, <1>9, <1>10 DEF j

\* A keycode waits, fails, or goes to the encoder.
LEMMA KeycodeTyped ==
  ASSUME Typed, NEW i \in Ids, KeycodeWait(i) \/ KeycodeFail(i) \/ KeycodeDispatch(i)
  PROVE  Typed'
<1>1. UNCHANGED Steady /\ UNCHANGED <<kept, sinceBatch>>
  BY DEF KeycodeWait, KeycodeFail, KeycodeDispatch
<1>2. CASE KeycodeWait(i)
  <2>1. job' \in [Ids -> Job]
    BY <1>2, OneJobType DEF KeycodeWait, Workers
  <2>2. LayersTypeOK'
    BY <1>1, <1>2 DEF KeycodeWait, Steady, Typed, TypeOK, LayersTypeOK, poolVars, encVars
  <2> QED
    BY <1>1, <1>2, <2>1, <2>2, PastType, SteadyTyped DEF KeycodeWait, Typed, TypeOK
<1>3. CASE KeycodeFail(i)
  <2>1. job' \in [Ids -> Job]
    <3>1. \/ job' = [job EXCEPT ![i].ready = "Failed", ![i].worker = "key-fail"]
          \/ job' = [job EXCEPT ![i].worker = "enc-main"]
      BY <1>3 DEF KeycodeFail
    <3>2. {"key-fail", "enc-main"} \subseteq Workers /\ "Failed" \in Stages
      BY DEF Workers, Stages
    <3>3. CASE job' = [job EXCEPT ![i].ready = "Failed", ![i].worker = "key-fail"]
      BY <3>2, <3>3, OneJobType
    <3>4. CASE job' = [job EXCEPT ![i].worker = "enc-main"]
      BY <3>2, <3>4, OneJobType
    <3> QED
      BY <3>1, <3>3, <3>4
  <2>2. Killed(i)
    BY <1>3 DEF KeycodeFail
  <2>3. LayersTypeOK'
    BY <1>1, <1>3, <2>2, KilledType
       DEF KeycodeFail, Steady, Typed, TypeOK, LayersTypeOK, poolVars, encVars
  <2> QED
    BY <1>1, <1>3, <2>1, <2>2, <2>3, KilledType, SteadyTyped DEF KeycodeFail, Typed, TypeOK
<1>4. CASE KeycodeDispatch(i)
  <2>1. /\ inbox' \in Seq(Ids) /\ cur' \in Ids0 /\ epoch' \in Nat
        /\ ret' \in [Layers -> Seq(Message)] /\ reboots' \in Nat
    BY <1>4, EncodeSendType DEF KeycodeDispatch, Typed, TypeOK
  <2>2. Dispatched([job[i] EXCEPT !.worker = "enc-main"], epoch') \in Job
    BY <2>1, OneJobType, DispatchedType
  <2>3. job' \in [Ids -> Job]
    BY <1>4, <2>2, OneJobType DEF KeycodeDispatch
  <2>4. LayersTypeOK'
    BY <1>1, <1>4, <2>1 DEF KeycodeDispatch, Steady, Typed, TypeOK, LayersTypeOK, poolVars
  <2> QED
    BY <1>1, <1>4, <2>1, <2>3, <2>4, PastType, SteadyTyped DEF KeycodeDispatch, Typed, TypeOK
<1> QED
  BY <1>2, <1>3, <1>4

\* A send to a pool keeps its deque, the record and the rows typed.
LEMMA PoolDispatchType ==
  ASSUME Typed, NEW i \in Ids, NEW p \in Pools, NEW s \in Stages, NEW w \in Workers,
         PoolDispatch(i, p, s, w)
  PROVE  /\ pend' \in [Pools -> Seq(Ids)] /\ job' \in [Ids -> Job] /\ db' \in [Ids -> Row]
  BY PoolSendType, OneJobType, RowsType DEF PoolDispatch, Typed, TypeOK

\* A downloaded or encoded job goes to the probe or the upload pool.
LEMMA PoolsTyped ==
  ASSUME Typed, NEW i \in Ids, DispatchProbeLayer(i) \/ DispatchUpload(i)
  PROVE  Typed'
<1>1. /\ UNCHANGED Steady
      /\ UNCHANGED <<kept, sinceBatch, reboots, run, delivered, encVars, ret>>
  BY DEF DispatchProbeLayer, DispatchUpload
<1>2. /\ pend' \in [Pools -> Seq(Ids)] /\ job' \in [Ids -> Job] /\ db' \in [Ids -> Row]
  <2>1. /\ "Probe" \in Pools /\ "Encoding" \in Stages /\ "prw-pending" \in Workers
        /\ "Upload" \in Pools /\ "Uploading" \in Stages /\ "upl-pending" \in Workers
    BY DEF Pools, Stages, Workers
  <2> QED
    BY <2>1, PoolDispatchType DEF DispatchProbeLayer, DispatchUpload
<1>3. disk' \in Disk
  <2>1. disk' = disk \/ disk' = [disk EXCEPT !.input = @ \ {i}]
    BY DEF DispatchProbeLayer, DispatchUpload
  <2> QED
    BY <2>1, ZenonT(30) DEF Typed, TypeOK, LayersTypeOK, Disk
<1>4. pass' \in Pass /\ pass'.todo \subseteq Known
  <2>1. Past(i) \in Pass /\ Past(i).todo \subseteq Known
    BY PastType
  <2>2. pass' = Past(i) \/ pass' = [Past(i) EXCEPT !.uploads = @ \cup {i}]
        \/ pass' = [Past(i) EXCEPT !.uploads = @]
    BY DEF DispatchProbeLayer, DispatchUpload
  <2> QED
    BY <2>1, <2>2 DEF Pass
<1>5. LayersTypeOK'
  BY <1>1, <1>2, <1>3 DEF Steady, Typed, TypeOK, LayersTypeOK, encVars
<1> QED
  BY <1>1, <1>2, <1>4, <1>5, SteadyTyped DEF Typed, TypeOK

\* A kept output is stored under its keyword, or the store fails.
LEMMA FinishKeepTyped ==
  ASSUME Typed, NEW i \in Ids, FinishKeep(i)
  PROVE  Typed'
<1>1. /\ UNCHANGED Steady /\ UNCHANGED <<sinceBatch, reboots, poolVars, encVars, ret>>
      /\ pass' = [Past(i) EXCEPT !.dead = @ \cup {i}]
  BY DEF FinishKeep
<1>2. CASE /\ kept' = [kept EXCEPT ![born[i].name] = "ready"]
           /\ job' = [job EXCEPT ![i].ready = "Uploaded", ![i].worker = "keep-done"]
           /\ db' = Rows({i}, "Uploaded", {i})
           /\ disk' = Cleaned(disk, {i})
  <2>1. kept' \in [Names -> Keyword]
    BY <1>2 DEF Typed, TypeOK, Keyword
  <2>2. job' \in [Ids -> Job] /\ db' \in [Ids -> Row] /\ disk' \in Disk
    BY <1>2, OneJobType, RowsType, CleanedType, ZenonT(30)
       DEF Typed, TypeOK, LayersTypeOK, Stages, Workers
  <2>3. LayersTypeOK'
    BY <1>1, <2>2 DEF Steady, Typed, TypeOK, LayersTypeOK, poolVars, encVars
  <2> QED
    BY <1>1, <2>1, <2>2, <2>3, PastType, SteadyTyped DEF Typed, TypeOK
<1>3. CASE /\ job' = [job EXCEPT ![i].ready = "Failed"]
           /\ db' = Rows({i}, "Failed", {})
           /\ UNCHANGED <<kept, disk>>
  <2>1. job' \in [Ids -> Job] /\ db' \in [Ids -> Row]
    BY <1>3, OneJobType, RowsType DEF Typed, TypeOK, Stages
  <2>2. LayersTypeOK'
    BY <1>1, <1>3 DEF Steady, Typed, TypeOK, LayersTypeOK, poolVars, encVars
  <2> QED
    BY <1>1, <1>3, <2>1, <2>2, PastType, SteadyTyped DEF Typed, TypeOK
<1> QED
  BY <1>2, <1>3 DEF FinishKeep

\* A claim names a job.
LEMMA TargetTypes ==
  ASSUME Typed, NEW i
  PROVE  ForwardTarget(i) \in Ids0 /\ SourceTarget(i) \in Ids0
<1>1. \A keys : /\ Claimants(pass.parent, keys) \in SUBSET Ids
                /\ Claimants(pass.source, keys) \in SUBSET Ids
  BY DEF Claimants, Typed, TypeOK, Pass
<1>2. \A S, T \in SUBSET Ids : Preferred(S, T) \in Ids0
  <2>1. \A S \in SUBSET Ids : S # {} => First(S) \in Ids
    BY FirstIn
  <2>2. Ids \subseteq Ids0 /\ 0 \in Ids0
    BY PnJobsAssumption DEF Ids, Ids0
  <2> QED
    BY <2>1, <2>2 DEF Preferred
<1> QED
  BY <1>1, <1>2 DEF ForwardTarget, SourceTarget

\* The encode branch: follow, wait, be held back, or be sent.
LEMMA EncodeBranchTyped ==
  ASSUME Typed, NEW i \in Ids,
         EncodeForward(i) \/ EncodeWaitsForInput(i) \/ EncodeDispatch(i)
  PROVE  Typed'
<1>1. UNCHANGED Steady /\ UNCHANGED <<kept, disk, poolVars>>
  BY DEF EncodeForward, EncodeWaitsForInput, EncodeDispatch
<1>2. CASE EncodeForward(i)
  <2> DEFINE t == ForwardTarget(i)
  <2>1. t \in Ids
    BY <1>2, TargetTypes, PnJobsAssumption DEF EncodeForward, Ids, Ids0
  <2>2. Forwarded(job[i], t) \in Job /\ job[t].ready \in Stages
    BY <2>1, ForwardedType, OneJobType, JobReads DEF Typed
  <2>3. job' \in [Ids -> Job] /\ db' \in [Ids -> Row]
    BY <1>2, <2>2, OneJobType, RowsType DEF EncodeForward, Typed, TypeOK
  <2>4. LayersTypeOK'
    BY <1>1, <1>2 DEF EncodeForward, Steady, Typed, TypeOK, LayersTypeOK, poolVars, encVars
  <2> QED
    BY <1>1, <1>2, <2>3, <2>4, PastType, SteadyTyped DEF EncodeForward, Typed, TypeOK
<1>3. CASE EncodeWaitsForInput(i)
  <2> DEFINE j == job[i]
             k == [j EXCEPT !.dup = SourceTarget(i), !.ready = "Downloading", !.worker = "dwl-cache"]
  <2>1. j \in Job /\ SourceTarget(i) \in Ids0 /\ "Downloading" \in Stages /\ "dwl-cache" \in Workers
    BY OneJobType, TargetTypes DEF Stages, Workers
  <2>2. job' = [job EXCEPT ![i] = k]
    BY <1>3, OneJobType DEF EncodeWaitsForInput, Typed, TypeOK
  <2> HIDE DEF j
  <2>3. k \in Job
    BY <2>1 DEF Job
  <2>4. job' \in [Ids -> Job] /\ db' \in [Ids -> Row]
    <3>1. job' \in [Ids -> Job]
      BY <2>2, <2>3, OneJobType
    <3>2. db' = Rows({i}, "Downloading", {}) /\ db \in [Ids -> Row]
      BY <1>3 DEF EncodeWaitsForInput, Typed, TypeOK
    <3> QED
      BY <2>1, <3>1, <3>2, RowsType
  <2>5. LayersTypeOK'
    BY <1>1, <1>3 DEF EncodeWaitsForInput, Steady, Typed, TypeOK, LayersTypeOK, poolVars, encVars
  <2> QED
    BY <1>1, <1>3, <2>4, <2>5, PastType, SteadyTyped DEF EncodeWaitsForInput, Typed, TypeOK
<1>4. CASE EncodeDispatch(i)
  <2>1. /\ inbox' \in Seq(Ids) /\ cur' \in Ids0 /\ epoch' \in Nat
        /\ ret' \in [Layers -> Seq(Message)] /\ reboots' \in Nat
    BY <1>4, EncodeSendType DEF EncodeDispatch, Typed, TypeOK
  <2>2. Dispatched([job[i] EXCEPT !.worker = "enc-main"], epoch') \in Job
    BY <2>1, OneJobType, DispatchedType
  <2>3. job' \in [Ids -> Job]
    BY <1>4, <2>2, OneJobType DEF EncodeDispatch
  <2>4. sinceBatch' \in 0..2
    BY <1>4 DEF EncodeDispatch, Typed, TypeOK
  <2>5. i \in Known
    BY <1>4 DEF EncodeDispatch, EncodeReady, Encodable, Progressing, At, Typed
  <2>6. /\ Claimed(pass.source, InputKeys(i), i) \subseteq InputKey \X Ids
        /\ Claimed(pass.parent, ForwardKeys(i), i) \subseteq ForwardKey \X Ids
    BY <2>5, KeysOfKnown DEF Claimed, Typed, TypeOK, Pass
  <2>7. pass' \in Pass /\ pass'.todo \subseteq Known
    <3>1. Past(i) \in Pass /\ Past(i).todo \subseteq Known
          /\ Past(i).source = pass.source /\ Past(i).parent = pass.parent
      BY PastType DEF Past, Typed, TypeOK, Pass
    <3>2. pass' = [Past(i) EXCEPT !.inFlight = @ \/ born[i].parent # 0,
                                  !.source = Claimed(@, InputKeys(i), i),
                                  !.parent = Claimed(@, ForwardKeys(i), i)]
      BY <1>4 DEF EncodeDispatch
    <3> QED
      BY <2>6, <3>1, <3>2 DEF Pass
  <2>8. LayersTypeOK'
    BY <1>1, <2>1 DEF Steady, Typed, TypeOK, LayersTypeOK, poolVars
  <2>9. db' \in [Ids -> Row] /\ kept' \in [Names -> Keyword]
    BY <1>1, <1>4 DEF EncodeDispatch, Typed, TypeOK
  <2> QED
    BY <1>1, <2>1, <2>3, <2>4, <2>7, <2>8, <2>9, SteadyTyped
<1> QED
  BY <1>2, <1>3, <1>4

\* A failed send kills the job.
LEMMA DispatchKilledTyped ==
  ASSUME Typed, NEW i \in Ids, DispatchKilled(i)
  PROVE  Typed'
<1>1. /\ UNCHANGED Steady
      /\ UNCHANGED <<job, kept, sinceBatch, reboots, poolVars, encVars, ret>>
      /\ Killed(i)
  BY DEF DispatchKilled
<1>2. LayersTypeOK'
  BY <1>1, KilledType DEF Steady, Typed, TypeOK, LayersTypeOK, poolVars, encVars
<1> QED
  BY <1>1, <1>2, KilledType, SteadyTyped DEF Typed, TypeOK

\* Every step of the progression walk keeps the types.
LEMMA ProgressTyped ==
  ASSUME Typed, NEW i \in Ids, ProgressStep(i)
  PROVE  Typed'
<1>1. CASE ProgressSkip(i) \/ EncodeHeldBack(i)
  BY <1>1, SkipTyped DEF ProgressSkip, EncodeHeldBack
<1> QED
  BY <1>1, KeycodeTyped, PoolsTyped, FinishKeepTyped, EncodeBranchTyped, DispatchKilledTyped
     DEF ProgressStep

\* The dead leave, and the followers of an upload are told.
LEMMA ProgressEndTyped ==
  ASSUME Typed, ProgressEnd
  PROVE  Typed'
<1> DEFINE followers == ForwardedTo(pass.uploads)
           synced == [c \in Ids |-> IF c \in followers
                                    THEN [job[c] EXCEPT !.ready = "Uploading", !.worker = "upl-forward"]
                                    ELSE job[c]]
<1>1. \A j \in Job : [j EXCEPT !.ready = "Uploading", !.worker = "upl-forward"] \in Job
  <2>1. "Uploading" \in Stages /\ "upl-forward" \in Workers
    BY DEF Stages, Workers
  <2> QED
    BY <2>1 DEF Job
<1>2. synced \in Jobs
  BY <1>1 DEF Typed, TypeOK, Jobs
<1>3. job' = Without(synced, pass.dead) /\ db' = Rows(followers, "Uploading", {})
  BY DEF ProgressEnd
<1> HIDE DEF synced, followers
<1>4. job' \in [Ids -> Job]
  BY <1>2, <1>3, WithoutType DEF Jobs
<1>5. db' \in [Ids -> Row]
  BY <1>3, RowsType DEF Typed, TypeOK, Stages
<1>6. LayersTypeOK' /\ Known' = Known
  BY SameLayers DEF ProgressEnd
<1> QED
  BY <1>4, <1>5, <1>6, NoPassType DEF ProgressEnd, Typed, TypeOK, Live

\* Settling and closing batches counts in natural numbers.
LEMMA BatchParentsTyped ==
  ASSUME Typed, BatchParents
  PROVE  Typed'
<1> DEFINE settled == [i \in Ids |->
             IF i \in queue /\ Batch(i) /\ job[i].ready = "Downloaded" /\ ~job[i].settled
             THEN Settle(born[i], job[i]) ELSE job[i]]
           done == {i \in queue : /\ Batch(i) /\ Complete(born[i], settled[i])
                                  /\ job[i].ready \in {"Downloaded", "Downloading"}}
<1>1. settled \in Jobs
  <2>1. ASSUME NEW i \in queue
        PROVE  Settle(born[i], job[i]) \in Job
    <3> DEFINE n == Cardinality(Unspawned(born[i], job[i]))
               j == job[i]
    <3>1. ReqOf(born[i]) \in Request /\ j \in Job
      BY <2>1, BornOfRequest DEF Typed, TypeOK, LayersTypeOK, Known
    <3>2. Unspawned(born[i], job[i]) \in SUBSET Files
      BY <3>1 DEF Unspawned, Entries, Request
    <3>3. n \in Nat
      BY <3>2, PnJobsAssumption, FS_Subset, FS_CardinalityType
    <3> HIDE DEF n
    <3>4. Settle(born[i], j) = [j EXCEPT !.settled = TRUE, !.failed = @ + n]
      BY DEF Settle, n
    <3> HIDE DEF j
    <3>5. [j EXCEPT !.settled = TRUE, !.failed = @ + n] \in Job
      <4>1. j.failed + n \in Nat /\ TRUE \in BOOLEAN
        BY <3>1, <3>3, JobReads
      <4>2. [j EXCEPT !.settled = TRUE] \in Job /\ [j EXCEPT !.settled = TRUE].failed = j.failed
        BY <3>1, <4>1 DEF Job
      <4>3. [[j EXCEPT !.settled = TRUE] EXCEPT !.failed = @ + n] \in Job
        BY <4>1, <4>2, JobUpdates
      <4> QED
        BY <4>3
    <3> QED
      BY <3>4, <3>5 DEF j
  <2> QED
    BY <2>1 DEF Typed, TypeOK, Jobs
<1>2. /\ queue' = queue \ done /\ db' = Rows(done, "Uploaded", done)
      /\ disk' = Cleaned(disk, done)
      /\ \/ pc' = "git" /\ job' = Without(settled, done) /\ UNCHANGED seenEpoch
         \/ pc' = "queue" /\ job' = Checked(Without(settled, done), epoch) /\ seenEpoch' = epoch
      /\ UNCHANGED <<pass, kept, sinceBatch, gitquery, backlog, nextId, cancels, reboots,
                      born, poolVars, encVars, ret>>
  BY DEF BatchParents
<1> HIDE DEF settled, done
<1>3. job' \in [Ids -> Job] /\ seenEpoch' \in Nat /\ pc' \in Live
  <2>1. Without(settled, done) \in Jobs
    BY <1>1, WithoutType
  <2>2. Checked(Without(settled, done), epoch) \in Jobs
    BY <2>1, CheckedType
  <2>3. seenEpoch \in Nat /\ epoch \in Nat
    BY DEF Typed, TypeOK, LayersTypeOK
  <2> QED
    BY <1>2, <2>1, <2>2, <2>3 DEF Jobs, Live
<1>4. db' \in [Ids -> Row] /\ disk' \in Disk
  BY <1>2, RowsType, CleanedType DEF Typed, TypeOK, LayersTypeOK, Stages
<1>5. LayersTypeOK' /\ Known' = Known
  BY <1>2, <1>4, SameBirths DEF Typed, TypeOK, LayersTypeOK, poolVars, encVars
<1> QED
  BY <1>2, <1>3, <1>4, <1>5 DEF Typed, TypeOK

-----------------------------------------------------------------------------
(* The whole *)

\* The worker starts with an empty queue and nothing known.
LEMMA InitTyped == Init => Typed
<1> SUFFICES ASSUME Init PROVE Typed
  OBVIOUS
<1> USE DEF Init, InitWith, LayersInit
<1>1. [i \in Ids |-> Unborn] \in [Ids -> Birth]
  BY PnJobsAssumption DEF Unborn, Birth, Ids0, Idx
<1>2. <<>> \in Seq(Ids) /\ <<>> \in Seq(Message)
  OBVIOUS
<1>3. LayersTypeOK
  <2>1. disk \in Disk
    BY DEF Disk
  <2>2. run \in [Pools -> [Ids -> Phases]] /\ delivered \in [Ids -> SUBSET Files]
    BY DEF Phases
  <2>3. /\ pend \in [Pools -> Seq(Ids)] /\ inbox \in Seq(Ids)
        /\ ret \in [Layers -> Seq(Message)]
    BY <1>2
  <2>4. cur \in Ids0 /\ epoch \in Nat
    BY PnJobsAssumption DEF Ids0
  <2> QED
    BY <1>1, <2>1, <2>2, <2>3, <2>4 DEF LayersTypeOK
<1>4. job \in [Ids -> Job] /\ db \in [Ids -> Row] /\ kept \in [Names -> Keyword]
  BY NewJobType DEF NoRow, Row, Stages, Keyword
<1>5. /\ pc \in Live \cup {"exited"} /\ pass \in Pass /\ pass.todo = {}
      /\ nextId \in 1..(MaxJobs + 1) /\ sinceBatch \in 0..2
  BY NoPassType, PnJobsAssumption DEF Live
<1>6. TypeOK
  BY <1>3, <1>4, <1>5 DEF TypeOK
<1> QED
  BY <1>5, <1>6 DEF Typed

\* The invariant is inductive: every step of the loop, of clients, of clocks and
\* of the layers keeps it.
LEMMA NextTyped == Typed /\ [Next]_vars => Typed'
<1> SUFFICES ASSUME Typed, [Next]_vars PROVE Typed'
  OBVIOUS
<1>1. CASE LoopStep
  BY <1>1, AdmitTyped, NoRequestTyped, ReceiveTyped, NoMessageTyped, DupStepTyped,
     WaitStepTyped, ProgressTyped, DupEndTyped, WaitEndTyped, ProgressEndTyped,
     BatchParentsTyped, GitQueryTyped DEF LoopStep
<1>2. CASE ClientStep
  BY <1>2, RefuseTyped, PrepareTyped, CancelTyped, GitQueryTyped DEF ClientStep, Submit
<1>3. CASE ClockStep
  BY <1>3, RebootTyped, ExpireCacheTyped, ExpireKeepTyped, ProbeTimeoutTyped, EncodeStallTyped DEF ClockStep
<1>4. CASE WorkerStep
  <2>1. LayersTypeOK' /\ born' = born /\ UNCHANGED mainVars
    BY <1>4, WorkersKeepTypes DEF WorkerStep, Typed, TypeOK
  <2> QED
    BY <2>1, SameBirths DEF mainVars, Typed, TypeOK
<1>5. CASE UNCHANGED vars
  <2>1. LayersTypeOK' /\ Known' = Known
    BY <1>5, SameLayers DEF vars
  <2> QED
    BY <1>5, <2>1 DEF vars, mainVars, Typed, TypeOK
<1> QED
  BY <1>1, <1>2, <1>3, <1>4, <1>5 DEF Next

\* Whatever clients ask for and however the layers interleave, no state of
\* pn_worker and of its layers leaves its type: the queue, the rows, the keywords
\* and the channels hold only what their readers expect.
THEOREM TypeCorrect == Spec => []TypeOK
<1>1. Typed => TypeOK
  BY DEF Typed
<1> QED
  BY <1>1, InitTyped, NextTyped, PTL DEF Spec

-----------------------------------------------------------------------------
(***************************************************************************)
(* A closed row is never written again.  What keeps it so: an archived job *)
(* has left the queue, or is among the dead of the walk that closed it;    *)
(* the dead are not visited again, follow nobody, and leave when the walk  *)
(* ends; and no id is handed out twice.                                    *)
(***************************************************************************)
\* An archived job is not in the queue, but for the rest of the walk it died in.
ClosedHaveLeft ==
  \A i \in Ids : db[i].archived => i < nextId /\ (i \in queue => i \in pass.dead)
\* The queue holds only ids that were handed out.
QueuedBefore == \A i \in queue : i < nextId
\* The job that is being admitted is in nobody's hands yet.
AdmittedIsNew ==
  pc = "admit" => \A i \in pass.todo : i < nextId /\ i \notin queue /\ ~db[i].archived
\* A walk visits jobs of the queue, and the dead no more.
WalkVisitsLiving ==
  pc \in {"dup", "wait", "progress"} => pass.todo \subseteq queue \ pass.dead
\* Nobody is dead outside of the two walks that close rows ...
DeadLeaveWithWalk == pc \notin {"wait", "progress"} => pass.dead = {}
\* ... and who dies in the progression walk is no follower.
DeadFollowNobody == pc = "progress" => \A i \in pass.dead : job[i].fwd = 0

RowsInv ==
  /\ ClosedHaveLeft /\ QueuedBefore /\ AdmittedIsNew
  /\ WalkVisitsLiving /\ DeadLeaveWithWalk /\ DeadFollowNobody

\* What one step may do to rows
ClosedKept == \A i \in Ids : db[i].archived => db'[i] = db[i]
Kept == RowsInv' /\ ClosedKept

-----------------------------------------------------------------------------
(* Writing rows *)

\* Rows writes the rows it is told to, and archives those of A.
LEMMA RowsWrite ==
  ASSUME Typed, NEW S, NEW s, NEW A, NEW i \in Ids
  PROVE  /\ i \notin S \cup A => Rows(S, s, A)[i] = db[i]
         /\ Rows(S, s, A)[i].archived => db[i].archived \/ i \in A
<1>1. db[i] \in Row
  BY DEF Typed, TypeOK
<1> QED
  BY <1>1 DEF Rows, Row

\* A row that is inserted is open, and the others stay.
LEMMA InsertedOpen ==
  ASSUME Typed, NEW k \in Ids, NEW s, NEW i \in Ids
  PROVE  /\ i # k => Inserted(k, s)[i] = db[i]
         /\ ~Inserted(k, s)[k].archived
  BY DEF Inserted, Typed, TypeOK

\* Rows of jobs of the queue that are not among the dead are open.
LEMMA LivingAreOpen ==
  ASSUME Typed, RowsInv, NEW S, S \subseteq queue \ pass.dead, NEW s, NEW A, A \subseteq S,
         db' = Rows(S, s, A)
  PROVE  /\ ClosedKept
         /\ \A i \in Ids : db'[i].archived => db[i].archived \/ i \in A
<1>1. \A i \in Ids : db[i].archived => i \notin S
  BY DEF RowsInv, ClosedHaveLeft
<1>2. \A i \in Ids : db[i].archived => i \notin S \cup A
  BY <1>1
<1> QED
  BY <1>2, RowsWrite DEF ClosedKept

\* Outside of the walks and of an admission, the invariant is about rows and queue.
LEMMA ElsewhereKept ==
  ASSUME pc' \notin {"admit", "dup", "wait", "progress"}, pass'.dead = {},
         ClosedHaveLeft', QueuedBefore'
  PROVE  RowsInv'
  BY DEF RowsInv, AdmittedIsNew, WalkVisitsLiving, DeadLeaveWithWalk, DeadFollowNobody

\* The first walk starts with jobs of the queue and nobody dead.
LEMMA StartDupKept ==
  ASSUME NEW jobs, NEW Q, StartDup(jobs, Q), Q = queue', ClosedHaveLeft', QueuedBefore'
  PROVE  RowsInv'
<1>1. pc' = "dup" /\ pass'.dead = {} /\ pass'.todo \subseteq Q
  BY DEF StartDup, NoPass
<1> QED
  BY <1>1 DEF RowsInv, AdmittedIsNew, WalkVisitsLiving, DeadLeaveWithWalk, DeadFollowNobody

\* Jobs that leave, with or without a row that is closed, leave closed rows alone.
LEMMA LeaveKept ==
  ASSUME Typed, RowsInv, pass.dead = {}, NEW gone, NEW S, NEW s, NEW A,
         queue' = queue \ gone, A \subseteq gone, A \subseteq S, S \subseteq queue,
         db' = Rows(S, s, A), nextId' = nextId
  PROVE  ClosedKept /\ ClosedHaveLeft' /\ QueuedBefore'
<1>1. /\ ClosedKept
      /\ \A i \in Ids : db'[i].archived => db[i].archived \/ i \in A
  BY LivingAreOpen
<1>2. \A i \in queue : i < nextId
  BY DEF RowsInv, QueuedBefore
<1>3. QueuedBefore'
  BY <1>2 DEF QueuedBefore
<1>4. ASSUME NEW i \in Ids, db'[i].archived PROVE i < nextId' /\ i \notin queue'
  BY <1>1, <1>2, <1>4 DEF RowsInv, ClosedHaveLeft
<1> QED
  BY <1>1, <1>3, <1>4 DEF ClosedHaveLeft

\* No row, no id and nobody new in the queue.
LEMMA QuietKept ==
  ASSUME RowsInv, pass.dead = {}, db' = db, nextId' = nextId, queue' \subseteq queue
  PROVE  ClosedKept /\ ClosedHaveLeft' /\ QueuedBefore'
  BY DEF RowsInv, ClosedHaveLeft, QueuedBefore, ClosedKept

-----------------------------------------------------------------------------
(* Requests *)

\* Nothing that the invariant speaks of changes.
LEMMA StillKept ==
  ASSUME RowsInv, UNCHANGED <<pc, pass, queue, job, db, nextId>>
  PROVE  Kept
  BY DEF Kept, RowsInv, ClosedKept, ClosedHaveLeft, QueuedBefore, AdmittedIsNew,
         WalkVisitsLiving, DeadLeaveWithWalk, DeadFollowNobody

\* Back at the top nobody is dead and nothing is visited.
LEMMA BackToTopKept ==
  ASSUME NEW jobs, BackToTop(jobs), ClosedHaveLeft', QueuedBefore'
  PROVE  RowsInv'
<1>1. pc' = "queue" /\ pass'.dead = {}
  BY DEF BackToTop, NoPass
<1> QED
  BY <1>1, ElsewhereKept

\* What is declined before its row exists touches no row.
LEMMA SubmitKept ==
  ASSUME Typed, RowsInv, NEW n \in Names, Submit(n)
  PROVE  Kept
<1>1. pc = "queue" /\ db' = db /\ queue' = queue
  BY DEF Submit, Refuse, DeclineSetup, Prepare
<1>2. pass.dead = {}
  BY <1>1 DEF RowsInv, DeadLeaveWithWalk
<1>3. CASE Refuse(n) \/ DeclineSetup(n)
  <2>1. BackToTop(job) /\ nextId' = nextId
    BY <1>3 DEF Refuse, DeclineSetup
  <2>2. ClosedKept /\ ClosedHaveLeft' /\ QueuedBefore'
    BY <1>1, <1>2, <2>1, QuietKept
  <2> QED
    BY <2>1, <2>2, BackToTopKept DEF Kept
<1>4. CASE Prepare(n)
  <2>1. /\ nextId \in Ids /\ nextId' = nextId + 1
        /\ pc' = "admit" /\ pass'.todo = {nextId} /\ pass'.dead = {}
    BY <1>4 DEF Prepare, NoPass
  <2>2. nextId \in Nat /\ \A i \in Ids : i \in Nat
    BY <2>1, PnJobsAssumption DEF Ids
  <2>3. ClosedHaveLeft'
    BY <1>1, <1>2, <2>1, <2>2 DEF RowsInv, ClosedHaveLeft
  <2>4. QueuedBefore'
    BY <1>1, <2>1, <2>2 DEF RowsInv, QueuedBefore, Typed, TypeOK
  <2>5. AdmittedIsNew'
    BY <1>1, <2>1, <2>2 DEF RowsInv, ClosedHaveLeft, QueuedBefore, AdmittedIsNew
  <2>6. WalkVisitsLiving' /\ DeadLeaveWithWalk' /\ DeadFollowNobody'
    BY <2>1 DEF WalkVisitsLiving, DeadLeaveWithWalk, DeadFollowNobody
  <2> QED
    BY <1>1, <2>3, <2>4, <2>5, <2>6 DEF Kept, RowsInv, ClosedKept
<1> QED
  BY <1>3, <1>4 DEF Submit

\* An id that is new takes a place in the queue, and a row of its own unless it is
\* refused.
LEMMA JoinKept ==
  ASSUME Typed, RowsInv, pass.dead = {}, NEW k \in Ids, NEW s, ~db[k].archived,
         queue' = queue \cup {k}, db' = Inserted(k, s) \/ db' = db,
         nextId' \in Nat, nextId <= nextId', k < nextId'
  PROVE  ClosedKept /\ ClosedHaveLeft' /\ QueuedBefore'
<1>1. nextId \in Nat /\ \A i \in Ids : i \in Nat
  BY PnJobsAssumption DEF Ids, Typed, TypeOK
<1>2. ClosedKept
  BY InsertedOpen DEF ClosedKept
<1>3. \A i \in Ids : db'[i].archived => db[i].archived /\ i # k
  BY InsertedOpen
<1>4. ClosedHaveLeft'
  BY <1>1, <1>3 DEF RowsInv, ClosedHaveLeft
<1>5. QueuedBefore'
  BY <1>1 DEF RowsInv, QueuedBefore, Typed, TypeOK
<1> QED
  BY <1>2, <1>4, <1>5

\* A request is admitted with a row of its own, or turned down with a closed one.
LEMMA AdmitKept ==
  ASSUME Typed, RowsInv, Admit
  PROVE  Kept
<1>1. PICK i \in pass.todo :
        \/ AdmitForwarded(i) \/ AdmitKilled(i) \/ AdmitDownload(i) \/ AdmitProbe(i)
        \/ AdmitStudio(i) \/ AdmitKeycode(i)
  BY DEF Admit
<1>2. pc = "admit" /\ nextId' = nextId
  BY DEF Admit
<1>3. pass.dead = {} /\ i < nextId /\ i \notin queue /\ ~db[i].archived
  BY <1>2 DEF RowsInv, DeadLeaveWithWalk, AdmittedIsNew
<1>4. i \in Ids /\ nextId \in Nat
  BY PnJobsAssumption DEF Typed, TypeOK, Pass
<1>5. ASSUME NEW j, NEW e, NEW d, Push(i, j, e, d)
      PROVE  Kept
  <2>1. CASE queue' = queue \cup {i} /\ db' = Inserted(i, j.ready) /\ pc' = "message" /\ pass' = NoPass
    <3>1. ClosedKept /\ ClosedHaveLeft' /\ QueuedBefore'
      BY <1>2, <1>3, <1>4, <2>1, JoinKept
    <3> QED
      BY <2>1, <3>1, ElsewhereKept DEF Kept, NoPass
  <2>2. CASE queue' = queue /\ db' = db /\ pc' = "queue" /\ pass' = NoPass
    <3>1. ClosedKept /\ ClosedHaveLeft' /\ QueuedBefore'
      BY <1>2, <1>3, <2>2, QuietKept
    <3> QED
      BY <2>2, <3>1, ElsewhereKept DEF Kept, NoPass
  <2> QED
    BY <1>5, <2>1, <2>2 DEF Push
<1>6. CASE AdmitForwarded(i)
  <2> DEFINE j == Forwarded(NewJob, First(QueuedParents(i)))
  <2>1. /\ BackToTop([job EXCEPT ![i] = j]) /\ queue' = queue \cup {i}
        /\ db' = Inserted(i, j.ready) \/ db' = db
    BY <1>6 DEF AdmitForwarded
  <2> HIDE DEF j
  <2>2. ClosedKept /\ ClosedHaveLeft' /\ QueuedBefore'
    BY <1>2, <1>3, <1>4, <2>1, JoinKept
  <2> QED
    BY <2>1, <2>2, BackToTopKept DEF Kept
<1>7. CASE AdmitKilled(i)
  <2>1. /\ BackToTop(job) /\ queue' = queue
        /\ \/ db' = db
           \/ db' = [db EXCEPT ![i] = [stage |-> "Failed", archived |-> TRUE, known |-> TRUE]]
    BY <1>7 DEF AdmitKilled
  <2>2. db \in [Ids -> Row]
    BY DEF Typed, TypeOK
  <2>3. \A k \in Ids : k # i => db'[k] = db[k]
    BY <2>1, <2>2
  <2>4. ClosedKept
    BY <1>3, <2>3 DEF ClosedKept
  <2>5. ClosedHaveLeft'
    BY <1>2, <1>3, <2>1, <2>3 DEF RowsInv, ClosedHaveLeft
  <2>6. QueuedBefore'
    BY <1>2, <2>1 DEF RowsInv, QueuedBefore
  <2> QED
    BY <2>1, <2>4, <2>5, <2>6, BackToTopKept DEF Kept
<1> QED
  BY <1>1, <1>5, <1>6, <1>7 DEF AdmitDownload, AdmitProbe, AdmitStudio, AdmitKeycode

\* A job that is cancelled at once leaves with its followers, rows closed.
LEMMA CancelKept ==
  ASSUME Typed, RowsInv, NEW i \in Ids, Cancel(i)
  PROVE  Kept
<1> DEFINE gone == {i} \cup ForwardedTo({i})
<1>1. pc = "queue" /\ pc' = "message" /\ pass' = pass /\ nextId' = nextId /\ i \in queue
  BY DEF Cancel
<1>2. pass.dead = {}
  BY <1>1 DEF RowsInv, DeadLeaveWithWalk
<1>3. gone \subseteq queue
  BY <1>1 DEF ForwardedTo
<1>4. \/ queue' = queue \ gone /\ db' = Rows(gone, "Cancelled", gone)
      \/ queue' = queue /\ db' = db
  BY DEF Cancel, FinalizeCancelled
<1> HIDE DEF gone
<1>5. ClosedKept /\ ClosedHaveLeft' /\ QueuedBefore'
  BY <1>1, <1>2, <1>3, <1>4, LeaveKept, QuietKept
<1> QED
  BY <1>1, <1>2, <1>5, ElsewhereKept DEF Kept

\* A git query that ends the process empties the queue and writes nothing.
LEMMA GitKept ==
  ASSUME Typed, RowsInv, GitQuery \/ ArmedGitQuery
  PROVE  Kept
<1>1. pc \in {"queue", "git"} /\ db' = db /\ nextId' = nextId /\ queue' \subseteq queue
  BY DEF GitQuery, ArmedGitQuery, GitSync
<1>2. pass.dead = {}
  BY <1>1 DEF RowsInv, DeadLeaveWithWalk
<1>3. ClosedKept /\ ClosedHaveLeft' /\ QueuedBefore'
  BY <1>1, <1>2, QuietKept
<1>4. pc' \in {"queue", "message", "exited"} /\ pass'.dead = {}
  BY <1>2 DEF GitQuery, ArmedGitQuery, GitSync, BackToTop, NoPass
<1> QED
  BY <1>3, <1>4, ElsewhereKept DEF Kept

-----------------------------------------------------------------------------
(* Clocks and messages *)

\* An expired probe leaves, and stalled encodes with their followers, rows closed.
LEMMA ClockKept ==
  ASSUME Typed, RowsInv, ClockStep
  PROVE  Kept
<1>1. CASE ReceiveReboot \/ ExpireCache \/ ExpireKeep
  BY <1>1, StillKept DEF ReceiveReboot, ExpireCache, ExpireKeep, mainVars
<1>2. CASE DrainReboot
  <2>1. UNCHANGED <<pc, pass, queue, db, nextId>> /\ pc = "queue"
    BY <1>2 DEF DrainReboot
  <2>2. pass.dead = {}
    BY <2>1 DEF RowsInv, DeadLeaveWithWalk
  <2> QED
    BY <2>1, <2>2, QuietKept, ElsewhereKept DEF Kept
<1>3. ASSUME NEW i \in Ids, ProbeTimeout(i) PROVE Kept
  <2>1. /\ pc = "message" /\ UNCHANGED <<pc, pass, nextId>> /\ i \in queue
        /\ queue' = queue \ {i} /\ db' = Rows({}, "Probed", {i})
    BY <1>3 DEF ProbeTimeout
  <2>2. pass.dead = {}
    BY <2>1 DEF RowsInv, DeadLeaveWithWalk
  <2>3. Rows({}, "Probed", {i}) = Rows({i}, db[i].stage, {i})
    BY <2>1 DEF Rows, Typed, TypeOK, Row
  <2>4. ClosedKept /\ ClosedHaveLeft' /\ QueuedBefore'
    BY <2>1, <2>2, <2>3, LeaveKept
  <2> QED
    BY <2>1, <2>2, <2>4, ElsewhereKept DEF Kept
<1>4. ASSUME NEW S \in SUBSET Ids, EncodeStall(S) PROVE Kept
  <2> DEFINE gone == S \cup ForwardedTo(S)
  <2>1. /\ pc = "message" /\ UNCHANGED <<pc, pass, nextId>>
        /\ queue' = queue \ gone /\ db' = Rows(gone, "Failed", gone)
    BY <1>4 DEF EncodeStall
  <2>2. pass.dead = {} /\ gone \subseteq queue
    BY <1>4, <2>1 DEF RowsInv, DeadLeaveWithWalk, EncodeStall, Stallable, ForwardedTo
  <2> HIDE DEF gone
  <2>3. ClosedKept /\ ClosedHaveLeft' /\ QueuedBefore'
    BY <2>1, <2>2, LeaveKept
  <2> QED
    BY <2>1, <2>2, <2>3, ElsewhereKept DEF Kept
<1> QED
  BY <1>1, <1>2, <1>3, <1>4 DEF ClockStep

\* Whatever a layer reports late, the rows that are written are those of jobs of
\* the queue; a report on a job that has left is dropped.
LEMMA MessageKept ==
  ASSUME Typed, RowsInv, Receive \/ NoMessage \/ NoRequest
  PROVE  Kept
<1>1. CASE NoMessage
  <2>1. /\ pc = "message" /\ queue' = queue /\ db' = db /\ nextId' = nextId
        /\ StartDup(job, queue)
    BY <1>1 DEF NoMessage
  <2>2. pass.dead = {}
    BY <2>1 DEF RowsInv, DeadLeaveWithWalk
  <2> QED
    BY <2>1, <2>2, QuietKept, StartDupKept DEF Kept
<1>2. CASE NoRequest
  <2>1. /\ pc = "queue" /\ pc' = "message" /\ UNCHANGED <<pass, queue, db, nextId>>
    BY <1>2 DEF NoRequest
  <2>2. pass.dead = {}
    BY <2>1 DEF RowsInv, DeadLeaveWithWalk
  <2> QED
    BY <2>1, <2>2, QuietKept, ElsewhereKept DEF Kept
<1>3. CASE Receive
  <2>1. PICK l \in Layers :
          /\ ret[l] # <<>>
          /\ LET m == Head(ret[l]) IN
               \/ HandleStale(m) \/ HandleAssign(l, m) \/ HandleFileDone(m)
               \/ HandleDuplicate(m) \/ HandleStage(m)
    BY <1>3 DEF Receive
  <2> DEFINE m == Head(ret[l])
  <2>2. pc = "message" /\ pass.dead = {}
    BY <1>3 DEF Receive, RowsInv, DeadLeaveWithWalk
  <2>3. CASE HandleStale(m)
    <3>1. queue' = queue /\ db' = db /\ nextId' = nextId /\ StartDup(job, queue)
      BY <2>3 DEF HandleStale
    <3> QED
      BY <2>2, <3>1, QuietKept, StartDupKept DEF Kept
  <2>4. CASE HandleAssign(l, m) \/ HandleDuplicate(m)
    <3>1. /\ queue' = queue /\ db' = db /\ nextId' = nextId
          /\ \E jobs : BackToTop(jobs)
      BY <2>4, Zenon DEF HandleAssign, HandleDuplicate
    <3>2. ClosedKept /\ ClosedHaveLeft' /\ QueuedBefore'
      BY <2>2, <3>1, QuietKept
    <3> QED
      BY <3>1, <3>2, BackToTopKept DEF Kept
  <2>5. CASE HandleFileDone(m)
    <3>1. \E jobs : BackToTop(jobs)
      BY <2>5, Zenon DEF HandleFileDone
    <3>2. \/ queue' = queue /\ db' = db /\ nextId' = nextId
          \/ /\ nextId \in Ids /\ nextId' = nextId + 1
             /\ queue' = queue \cup {nextId} /\ db' = Inserted(nextId, "Downloaded")
      BY <2>5 DEF HandleFileDone
    <3>3. CASE queue' = queue /\ db' = db /\ nextId' = nextId
      BY <2>2, <3>1, <3>3, QuietKept, BackToTopKept DEF Kept
    <3>4. CASE /\ nextId \in Ids /\ nextId' = nextId + 1
               /\ queue' = queue \cup {nextId} /\ db' = Inserted(nextId, "Downloaded")
      <4>1. nextId \in Nat /\ nextId <= nextId' /\ nextId < nextId' /\ nextId' \in Nat
        BY <3>4, PnJobsAssumption DEF Ids
      <4>2. ~db[nextId].archived
        BY <3>4, <4>1 DEF RowsInv, ClosedHaveLeft
      <4>3. ClosedKept /\ ClosedHaveLeft' /\ QueuedBefore'
        BY <2>2, <3>4, <4>1, <4>2, JoinKept
      <4> QED
        BY <3>1, <4>3, BackToTopKept DEF Kept
    <3> QED
      BY <3>2, <3>3, <3>4
  <2>6. CASE HandleStage(m)
    <3> DEFINE followers == ForwardedTo({m.id})
               ended == IF m.stage \in Terminal THEN {m.id} \cup followers ELSE {}
               probe == ProbeLeft(m.id, m.stage)
               gone == ended \cup probe
    <3>1. /\ m.id \in queue /\ queue' = queue \ gone /\ nextId' = nextId
          /\ db' = Rows({m.id} \cup followers, m.stage, gone)
          /\ StartDup(job', queue')
      BY <2>6 DEF HandleStage
    <3>2. followers \subseteq queue /\ probe \subseteq queue
      BY DEF ForwardedTo, ProbeLeft, ProbeOf
    <3> HIDE DEF m, followers, probe
    <3>3. ended \subseteq queue /\ gone \subseteq queue
      BY <3>1, <3>2
    <3> HIDE DEF gone
    <3>4. \A i \in queue : ~db[i].archived
      BY <2>2 DEF RowsInv, ClosedHaveLeft, Typed, TypeOK
    <3>5. \A i \in Ids : db'[i].archived => db[i].archived \/ i \in gone
      BY <3>1, RowsWrite
    <3>6. ClosedKept
      BY <3>1, <3>2, <3>3, <3>4, RowsWrite DEF ClosedKept
    <3>7. ClosedHaveLeft' /\ QueuedBefore'
      BY <2>2, <3>1, <3>3, <3>5 DEF RowsInv, ClosedHaveLeft, QueuedBefore
    <3> QED
      BY <3>1, <3>6, <3>7, StartDupKept DEF Kept
  <2> QED
    BY <2>1, <2>3, <2>4, <2>5, <2>6
<1> QED
  BY <1>1, <1>2, <1>3

-----------------------------------------------------------------------------
(* Walks *)

\* One job of a walk: its row may be written, and closed if it dies, provided
\* that it is no follower; the records of the dead stay as they are.
LEMMA VisitKept ==
  ASSUME Typed, RowsInv, pc \in {"dup", "wait", "progress"}, NEW i \in pass.todo,
         pc' = pc, queue' = queue, nextId' = nextId,
         pass'.todo = pass.todo \ {i}, pass'.dead \subseteq pass.dead \cup {i},
         pass.dead \subseteq pass'.dead, pc = "dup" => pass'.dead = {},
         \A k \in Ids \ {i} : db'[k] = db[k],
         db'[i].archived => db[i].archived \/ i \in pass'.dead,
         pc = "progress" => /\ \A k \in Ids \ {i} : job'[k] = job[k]
                            /\ i \in pass'.dead => job'[i].fwd = 0
  PROVE  Kept
<1>1. i \in queue /\ i \notin pass.dead /\ i \in Ids
  BY DEF RowsInv, WalkVisitsLiving, Typed, TypeOK
<1>2. ~db[i].archived
  BY <1>1 DEF RowsInv, ClosedHaveLeft
<1>3. ClosedKept
  BY <1>2 DEF ClosedKept
<1>4. ClosedHaveLeft'
  <2>1. ASSUME NEW k \in Ids, db'[k].archived
        PROVE  k < nextId' /\ (k \in queue' => k \in pass'.dead)
    <3>1. CASE k = i
      BY <1>1, <1>2, <2>1, <3>1 DEF RowsInv, QueuedBefore
    <3>2. CASE k # i
      BY <2>1, <3>2 DEF RowsInv, ClosedHaveLeft
    <3> QED
      BY <3>1, <3>2
  <2> QED
    BY <2>1 DEF ClosedHaveLeft
<1>5. QueuedBefore'
  BY DEF RowsInv, QueuedBefore
<1>6. AdmittedIsNew' /\ WalkVisitsLiving'
  BY DEF RowsInv, AdmittedIsNew, WalkVisitsLiving
<1>7. DeadLeaveWithWalk'
  BY DEF DeadLeaveWithWalk
<1>8. DeadFollowNobody'
  BY <1>1 DEF RowsInv, DeadFollowNobody, Typed, TypeOK, Pass
<1> QED
  BY <1>3, <1>4, <1>5, <1>6, <1>7, <1>8 DEF Kept, RowsInv

\* Stepping past a job, with or without closing its row.
LEMMA PastFields ==
  ASSUME Typed, NEW i
  PROVE  /\ Past(i).todo = pass.todo \ {i} /\ Past(i).dead = pass.dead
         /\ Past(i).uploads = pass.uploads
         /\ \A d : /\ [Past(i) EXCEPT !.dead = d].todo = pass.todo \ {i}
                   /\ [Past(i) EXCEPT !.dead = d].dead = d
         /\ \A u : /\ [Past(i) EXCEPT !.uploads = u].todo = pass.todo \ {i}
                   /\ [Past(i) EXCEPT !.uploads = u].dead = pass.dead
         /\ \A f, s, p : LET q == [Past(i) EXCEPT !.inFlight = f, !.source = s, !.parent = p] IN
                           q.todo = pass.todo \ {i} /\ q.dead = pass.dead
  BY DEF Past, Typed, TypeOK, Pass

\* A row written for one job is the only one written.
LEMMA OneRow ==
  ASSUME Typed, NEW i \in Ids, NEW s, NEW A, A \subseteq {i}, db' = Rows({i}, s, A)
  PROVE  /\ \A k \in Ids \ {i} : db'[k] = db[k]
         /\ db'[i].archived => db[i].archived \/ i \in A
  BY RowsWrite

\* Waiting for another's input and being queued again close no row; a failed
\* dispatch does, and the job is dead until the walk ends.
LEMMA WaitWalksKept ==
  ASSUME Typed, RowsInv, NEW i \in Ids, DupStep(i) \/ WaitStep(i)
  PROVE  Kept
<1>1. CASE DupStep(i)
  <2>1. /\ pc = "dup" /\ i \in pass.todo /\ pass' = Past(i)
        /\ UNCHANGED <<pc, queue, nextId>>
    BY <1>1 DEF DupStep, At
  <2>2. \/ db' = Rows({i}, "Downloaded", {}) \/ db' = Rows({i}, "Queued", {}) \/ db' = db
    BY <1>1 DEF DupStep
  <2>3. /\ \A k \in Ids \ {i} : db'[k] = db[k]
        /\ db'[i].archived => db[i].archived
    BY <2>2, OneRow
  <2>4. pass.dead = {}
    BY <2>1 DEF RowsInv, DeadLeaveWithWalk
  <2>5. pass'.todo = pass.todo \ {i} /\ pass'.dead = {}
    BY <2>1, <2>4, PastFields
  <2> QED
    BY <2>1, <2>3, <2>4, <2>5, VisitKept
<1>2. CASE WaitStep(i)
  <2>1. pc = "wait" /\ i \in pass.todo /\ UNCHANGED <<pc, queue, nextId>>
    BY <1>2 DEF WaitStep, At
  <2>2. \/ pass' = Past(i) /\ db' = db
        \/ Killed(i)
    BY <1>2 DEF WaitStep
  <2>3. CASE pass' = Past(i) /\ db' = db
    BY <2>1, <2>3, PastFields, VisitKept
  <2>4. CASE Killed(i)
    <3>1. pass'.todo = pass.todo \ {i} /\ pass'.dead = pass.dead \cup {i}
      BY <2>4, PastFields DEF Killed
    <3>2. \A k \in Ids \ {i} : db'[k] = db[k]
      BY <2>4, OneRow DEF Killed
    <3> QED
      BY <2>1, <3>1, <3>2, VisitKept
  <2> QED
    BY <2>2, <2>3, <2>4
<1> QED
  BY <1>1, <1>2

\* A step of the progression walk writes the record and the row of its job only,
\* and a job it closes the row of follows nobody.
LEMMA ProgressKept ==
  ASSUME Typed, RowsInv, NEW i \in Ids, ProgressStep(i)
  PROVE  Kept
<1>1. pc = "progress" /\ i \in pass.todo /\ UNCHANGED <<pc, queue, nextId>>
  BY DEF ProgressStep, ProgressSkip, Skip, KeycodeWait, KeycodeFail, KeycodeDispatch,
         DispatchProbeLayer, DispatchUpload, FinishKeep, EncodeForward, EncodeWaitsForInput,
         EncodeHeldBack, EncodeDispatch, DispatchKilled, EncodeReady, Encodable, Progressing,
         At, Steady
<1>2. job \in [Ids -> Job]
  BY DEF Typed, TypeOK
\* a visit that kills nobody
<1>3. ASSUME pass'.todo = pass.todo \ {i}, pass'.dead = pass.dead,
             \A k \in Ids \ {i} : job'[k] = job[k],
             db' = db \/ \E s : db' = Rows({i}, s, {})
      PROVE  Kept
  <2>1. /\ \A k \in Ids \ {i} : db'[k] = db[k]
        /\ db'[i].archived => db[i].archived
    BY <1>3, OneRow
  <2>2. i \notin pass'.dead
    BY <1>1, <1>3 DEF RowsInv, WalkVisitsLiving
  <2> QED
    BY <1>1, <1>3, <2>1, <2>2, VisitKept
\* a visit that kills
<1>4. ASSUME Progressing(i), pass'.todo = pass.todo \ {i}, pass'.dead = pass.dead \cup {i},
             \A k \in Ids \ {i} : job'[k] = job[k], job'[i].fwd = job[i].fwd,
             \E s, A : A \subseteq {i} /\ db' = Rows({i}, s, A)
      PROVE  Kept
  <2>1. \A k \in Ids \ {i} : db'[k] = db[k]
    BY <1>4, OneRow
  <2>2. job'[i].fwd = 0
    BY <1>4 DEF Progressing
  <2> QED
    BY <1>1, <1>4, <2>1, <2>2, VisitKept
<1>5. CASE ProgressSkip(i) \/ EncodeHeldBack(i)
  BY <1>3, <1>5, PastFields DEF ProgressSkip, EncodeHeldBack, Skip
<1>6. CASE KeycodeWait(i) \/ EncodeForward(i) \/ EncodeWaitsForInput(i)
  <2>1. pass' = Past(i) /\ (db' = db \/ \E s : db' = Rows({i}, s, {}))
    BY <1>6 DEF KeycodeWait, EncodeForward, EncodeWaitsForInput
  <2>2. \A k \in Ids \ {i} : job'[k] = job[k]
    BY <1>2, <1>6 DEF KeycodeWait, EncodeForward, EncodeWaitsForInput
  <2> QED
    BY <1>3, <2>1, <2>2, PastFields
<1>7. CASE KeycodeDispatch(i) \/ EncodeDispatch(i)
  <2>1. db' = db /\ \A k \in Ids \ {i} : job'[k] = job[k]
    BY <1>2, <1>7 DEF KeycodeDispatch, EncodeDispatch
  <2>2. pass'.todo = pass.todo \ {i} /\ pass'.dead = pass.dead
    <3>1. CASE KeycodeDispatch(i)
      BY <3>1, PastFields DEF KeycodeDispatch
    <3>2. CASE EncodeDispatch(i)
      <4>1. \E f, x, y : pass' = [Past(i) EXCEPT !.inFlight = f, !.source = x, !.parent = y]
        BY <3>2, Zenon DEF EncodeDispatch
      <4> QED
        BY <4>1, PastFields
    <3> QED
      BY <1>7, <3>1, <3>2
  <2> QED
    BY <1>3, <2>1, <2>2
<1>8. CASE DispatchProbeLayer(i) \/ DispatchUpload(i)
  <2>1. pass'.todo = pass.todo \ {i} /\ pass'.dead = pass.dead
    <3>1. pass' = Past(i) \/ \E u : pass' = [Past(i) EXCEPT !.uploads = u]
      BY <1>8, Zenon DEF DispatchProbeLayer, DispatchUpload
    <3>2. CASE pass' = Past(i)
      BY <3>2, PastFields
    <3>3. ASSUME NEW u, pass' = [Past(i) EXCEPT !.uploads = u]
          PROVE  pass'.todo = pass.todo \ {i} /\ pass'.dead = pass.dead
      <4>1. /\ [Past(i) EXCEPT !.uploads = u].todo = pass.todo \ {i}
            /\ [Past(i) EXCEPT !.uploads = u].dead = pass.dead
        BY PastFields, Zenon
      <4> QED
        BY <3>3, <4>1, Zenon
    <3> QED
      BY <3>1, <3>2, <3>3
  <2>2. \E s : db' = Rows({i}, s, {})
    BY <1>8 DEF DispatchProbeLayer, DispatchUpload, PoolDispatch
  <2>3. \A k \in Ids \ {i} : job'[k] = job[k]
    BY <1>2, <1>8 DEF DispatchProbeLayer, DispatchUpload, PoolDispatch
  <2> QED
    BY <1>3, <2>1, <2>2, <2>3
<1>9. CASE KeycodeFail(i) \/ DispatchKilled(i)
  <2>1. Progressing(i) /\ Killed(i)
    BY <1>9 DEF KeycodeFail, DispatchKilled
  <2>2. pass'.todo = pass.todo \ {i} /\ pass'.dead = pass.dead \cup {i}
    BY <2>1, PastFields DEF Killed
  <2>3. db' = Rows({i}, "Failed", {i})
    BY <2>1 DEF Killed
  <2>4. /\ \A k \in Ids \ {i} : job'[k] = job[k]
        /\ job'[i].fwd = job[i].fwd
    BY <1>2, <1>9 DEF KeycodeFail, DispatchKilled, Job
  <2> QED
    BY <1>4, <2>1, <2>2, <2>3, <2>4
<1>10. CASE FinishKeep(i)
  <2>1. Progressing(i) /\ pass'.todo = pass.todo \ {i} /\ pass'.dead = pass.dead \cup {i}
    BY <1>10, PastFields DEF FinishKeep
  <2>2. \E s, A : A \subseteq {i} /\ db' = Rows({i}, s, A)
    BY <1>10 DEF FinishKeep
  <2>3. /\ \A k \in Ids \ {i} : job'[k] = job[k]
        /\ job'[i].fwd = job[i].fwd
    BY <1>2, <1>10 DEF FinishKeep, Job
  <2> QED
    BY <1>4, <2>1, <2>2, <2>3
<1> QED
  BY <1>5, <1>6, <1>7, <1>8, <1>9, <1>10 DEF ProgressStep

\* Between two walks the dead of the last one leave, and the next starts with
\* jobs of the queue.
LEMMA WalkEndsKept ==
  ASSUME Typed, RowsInv, DupEnd \/ WaitEnd \/ ProgressEnd \/ BatchParents
  PROVE  Kept
<1>1. CASE DupEnd
  <2>1. /\ pc = "dup" /\ pc' = "wait" /\ UNCHANGED <<queue, db, nextId>>
        /\ pass'.todo \subseteq queue /\ pass'.dead = {}
    BY <1>1 DEF DupEnd, NoPass
  <2>2. pass.dead = {}
    BY <2>1 DEF RowsInv, DeadLeaveWithWalk
  <2>3. ClosedKept /\ ClosedHaveLeft' /\ QueuedBefore'
    BY <2>1, <2>2, QuietKept
  <2> QED
    BY <2>1, <2>3 DEF Kept, RowsInv, AdmittedIsNew, WalkVisitsLiving, DeadLeaveWithWalk,
                      DeadFollowNobody
<1>2. CASE WaitEnd
  <2>1. /\ pc' = "progress" /\ UNCHANGED <<db, nextId>> /\ queue' = queue \ pass.dead
        /\ pass'.todo = queue' /\ pass'.dead = {}
    BY <1>2 DEF WaitEnd, NoPass
  <2>2. ClosedKept /\ ClosedHaveLeft' /\ QueuedBefore'
    BY <2>1 DEF RowsInv, ClosedHaveLeft, QueuedBefore, ClosedKept
  <2> QED
    BY <2>1, <2>2 DEF Kept, RowsInv, AdmittedIsNew, WalkVisitsLiving, DeadLeaveWithWalk,
                      DeadFollowNobody
<1>3. CASE ProgressEnd
  <2> DEFINE followers == ForwardedTo(pass.uploads)
  <2>1. /\ pc = "progress" /\ pc' = "batch" /\ pass' = NoPass /\ nextId' = nextId
        /\ queue' = queue \ pass.dead /\ db' = Rows(followers, "Uploading", {})
    BY <1>3 DEF ProgressEnd
\* a follower is not among the dead: they follow nobody, and uploads are jobs
  <2>2. 0 \notin pass.uploads
    BY PnJobsAssumption DEF Typed, TypeOK, Pass, Ids
  <2>3. followers \subseteq queue \ pass.dead
    BY <2>1, <2>2 DEF ForwardedTo, RowsInv, DeadFollowNobody
  <2> HIDE DEF followers
  <2>4. /\ ClosedKept
        /\ \A i \in Ids : db'[i].archived => db[i].archived
    BY <2>1, <2>3, LivingAreOpen
  <2>5. ClosedHaveLeft' /\ QueuedBefore'
    BY <2>1, <2>4 DEF RowsInv, ClosedHaveLeft, QueuedBefore
  <2> QED
    BY <2>1, <2>4, <2>5, ElsewhereKept DEF Kept, NoPass
<1>4. CASE BatchParents
  <2> DEFINE settled == [i \in Ids |->
               IF i \in queue /\ Batch(i) /\ job[i].ready = "Downloaded" /\ ~job[i].settled
               THEN Settle(born[i], job[i]) ELSE job[i]]
             done == {i \in queue : /\ Batch(i) /\ Complete(born[i], settled[i])
                                    /\ job[i].ready \in {"Downloaded", "Downloading"}}
  <2>1. /\ pc = "batch" /\ pc' \in {"queue", "git"} /\ UNCHANGED <<pass, nextId>>
        /\ queue' = queue \ done /\ db' = Rows(done, "Uploaded", done)
    BY <1>4 DEF BatchParents
  <2>2. pass.dead = {} /\ done \subseteq queue
    BY <2>1 DEF RowsInv, DeadLeaveWithWalk
  <2> HIDE DEF done
  <2>3. ClosedKept /\ ClosedHaveLeft' /\ QueuedBefore'
    BY <2>1, <2>2, LeaveKept
  <2> QED
    BY <2>1, <2>2, <2>3, ElsewhereKept DEF Kept
<1> QED
  BY <1>1, <1>2, <1>3, <1>4

-----------------------------------------------------------------------------
(* The whole *)

\* No row exists yet.
LEMMA InitRows == Init => RowsInv
<1> SUFFICES ASSUME Init PROVE RowsInv
  OBVIOUS
<1> QED
  BY DEF Init, InitWith, NoRow, NoPass, RowsInv, ClosedHaveLeft, QueuedBefore, AdmittedIsNew,
         WalkVisitsLiving, DeadLeaveWithWalk, DeadFollowNobody

\* Every step keeps the invariant, and leaves closed rows alone.
LEMMA NextRows == Typed /\ RowsInv /\ [Next]_vars => Kept
<1> SUFFICES ASSUME Typed, RowsInv, [Next]_vars PROVE Kept
  OBVIOUS
<1>1. CASE LoopStep
  BY <1>1, AdmitKept, MessageKept, WaitWalksKept, ProgressKept, WalkEndsKept, GitKept
     DEF LoopStep
<1>2. CASE ClientStep
  BY <1>2, SubmitKept, CancelKept, GitKept DEF ClientStep
<1>3. CASE ClockStep
  BY <1>3, ClockKept
<1>4. CASE WorkerStep \/ UNCHANGED vars
  BY <1>4, StillKept DEF WorkerStep, mainVars, vars
<1> QED
  BY <1>1, <1>2, <1>3, <1>4 DEF Next

\* A row that was archived keeps what was archived: no report of a layer that
\* comes late, no walk that goes on, no step that fails halfway and no request
\* for an id writes to it again.
THEOREM ClosedRowsAreFinal == Spec => ClosedRowsStayClosed
<1>1. Typed /\ RowsInv /\ [Next]_vars =>
        [\A i \in Ids : db[i].archived => db'[i] = db[i]]_vars
  BY NextRows DEF Kept, ClosedKept
<1>2. Typed /\ RowsInv /\ [Next]_vars => RowsInv'
  BY NextRows DEF Kept
<1> QED
  BY <1>1, <1>2, InitRows, InitTyped, NextTyped, PTL DEF Spec, ClosedRowsStayClosed

\* An archived job is not in the queue between two turns: what ended for the
\* client ended for the loop.
THEOREM ClosedJobsHaveLeft ==
  Spec => [](pc = "queue" => \A i \in Ids : db[i].archived => i \notin queue)
<1>1. RowsInv => (pc = "queue" => \A i \in Ids : db[i].archived => i \notin queue)
  BY DEF RowsInv, ClosedHaveLeft, DeadLeaveWithWalk
<1>2. Typed /\ RowsInv /\ [Next]_vars => RowsInv'
  BY NextRows DEF Kept
<1> QED
  BY <1>1, <1>2, InitRows, InitTyped, NextTyped, PTL DEF Spec
-----------------------------------------------------------------------------
(* Open rows: whoever leaves the queue has a closed row, but for a kept      *)
(* output that could not be stored.                                          *)

\* A row that is open belongs to a job that is in the queue and will stay there.
OpenHaveStayed ==
  \A i \in Ids : db[i].known /\ ~db[i].archived => i \in queue /\ i \notin pass.dead

\* The same, until the process ends: then the rows left open are of no encode.
OpenInv == (pc # "exited" => OpenHaveStayed) /\ GitSyncAfterEncodes

\* Rows makes no row known, and leaves those of A closed that are.
LEMMA RowsOpen ==
  ASSUME Typed, NEW S, NEW s, NEW A, NEW i \in Ids
  PROVE  /\ Rows(S, s, A)[i].known = db[i].known
         /\ db[i].known /\ ~Rows(S, s, A)[i].archived => ~db[i].archived /\ i \notin A
<1>1. db[i] \in Row
  BY DEF Typed, TypeOK
<1> QED
  BY <1>1 DEF Rows, Row

\* Nobody leaves, or dies, but those whose rows are closed.
LEMMA LeaveClosed ==
  ASSUME Typed, OpenHaveStayed, NEW S, NEW s, NEW A, db' = Rows(S, s, A),
         \A i \in queue \ pass.dead : i \in A \/ (i \in queue' /\ i \notin pass'.dead)
  PROVE  OpenHaveStayed'
  BY RowsOpen DEF OpenHaveStayed

\* Nobody leaves, or dies, and no row is written.
LEMMA NobodyLeaves ==
  ASSUME OpenHaveStayed, db' = db,
         \A i \in queue \ pass.dead : i \in queue' /\ i \notin pass'.dead
  PROVE  OpenHaveStayed'
  BY DEF OpenHaveStayed

\* Who gets a row of its own joins the queue with it; who gets none may as well.
LEMMA JoinOpen ==
  ASSUME Typed, OpenHaveStayed, NEW k, NEW s, db' = Inserted(k, s) \/ db' = db,
         queue' = queue \cup {k}, pass'.dead = {}
  PROVE  OpenHaveStayed'
<1>1. \A i \in Ids : i # k => db'[i] = db[i]
  BY DEF Inserted, Typed, TypeOK
<1> QED
  BY <1>1 DEF OpenHaveStayed

\* Requests: what was turned down has no row, or a closed one.
LEMMA RequestOpen ==
  ASSUME Typed, RowsInv, OpenHaveStayed,
         Admit \/ NoRequest \/ (\E n \in Names : Submit(n)) \/ (\E i \in Ids : Cancel(i))
  PROVE  OpenHaveStayed'
<1>1. CASE (\E n \in Names : Submit(n)) \/ NoRequest
  <2>1. pc = "queue" /\ db' = db /\ queue' = queue
    BY <1>1 DEF Submit, Refuse, DeclineSetup, Prepare, NoRequest
  <2>2. pass'.dead = {}
    BY <1>1, <2>1 DEF Submit, Refuse, DeclineSetup, Prepare, NoRequest, BackToTop, NoPass,
                      RowsInv, DeadLeaveWithWalk
  <2> QED
    BY <2>1, <2>2, NobodyLeaves
<1>2. CASE Admit
  <2>1. PICK i \in pass.todo :
          \/ AdmitForwarded(i) \/ AdmitKilled(i) \/ AdmitDownload(i) \/ AdmitProbe(i)
          \/ AdmitStudio(i) \/ AdmitKeycode(i)
    BY <1>2 DEF Admit
  <2>2. ASSUME NEW j, NEW e, NEW d, Push(i, j, e, d)
        PROVE  OpenHaveStayed'
    <3>1. pass'.dead = {}
      BY <2>2 DEF Push, NoPass
    <3>2. \/ queue' = queue \cup {i} /\ db' = Inserted(i, j.ready)
          \/ queue' = queue /\ db' = db
      BY <2>2 DEF Push
    <3> QED
      BY <3>1, <3>2, JoinOpen, NobodyLeaves
  <2>3. CASE AdmitForwarded(i)
    <3>1. /\ \E jobs : BackToTop(jobs)
          /\ queue' = queue \cup {i} /\ \E s : db' = Inserted(i, s) \/ db' = db
      BY <2>3, Zenon DEF AdmitForwarded
    <3>2. pass'.dead = {}
      BY <3>1 DEF BackToTop, NoPass
    <3> QED
      BY <3>1, <3>2, JoinOpen
  <2>4. CASE AdmitKilled(i)
    <3>1. /\ pass'.dead = {} /\ queue' = queue
          /\ \/ db' = db
             \/ db' = [db EXCEPT ![i] = [stage |-> "Failed", archived |-> TRUE, known |-> TRUE]]
      BY <2>4 DEF AdmitKilled, BackToTop, NoPass
    <3>2. \A k \in Ids : db'[k] = db[k] \/ db'[k].archived
      BY <3>1 DEF Typed, TypeOK
    <3> QED
      BY <3>1, <3>2 DEF OpenHaveStayed
  <2> QED
    BY <2>1, <2>2, <2>3, <2>4 DEF AdmitDownload, AdmitProbe, AdmitStudio, AdmitKeycode
<1>3. ASSUME NEW i \in Ids, Cancel(i) PROVE OpenHaveStayed'
  <2> DEFINE gone == {i} \cup ForwardedTo({i})
  <2>1. /\ pass' = pass /\ pc = "queue"
        /\ \/ queue' = queue \ gone /\ db' = Rows(gone, "Cancelled", gone)
           \/ queue' = queue /\ db' = db
    BY <1>3 DEF Cancel, FinalizeCancelled
  <2> HIDE DEF gone
  <2>2. CASE queue' = queue \ gone /\ db' = Rows(gone, "Cancelled", gone)
    BY <2>1, <2>2, LeaveClosed
  <2>3. CASE queue' = queue /\ db' = db
    BY <2>1, <2>3, NobodyLeaves
  <2> QED
    BY <2>1, <2>2, <2>3
<1> QED
  BY <1>1, <1>2, <1>3

\* Clocks: an expired probe and a stalled encode leave with closed rows.
LEMMA ClockOpen ==
  ASSUME Typed, RowsInv, OpenHaveStayed, ClockStep
  PROVE  OpenHaveStayed'
<1>1. CASE ReceiveReboot \/ ExpireCache \/ ExpireKeep \/ DrainReboot
  <2>1. db' = db /\ queue' = queue /\ pass' = pass
    BY <1>1 DEF ReceiveReboot, ExpireCache, ExpireKeep, DrainReboot, mainVars
  <2> QED
    BY <2>1, NobodyLeaves
<1>2. ASSUME NEW i \in Ids, ProbeTimeout(i) PROVE OpenHaveStayed'
  <2>1. pass' = pass /\ queue' = queue \ {i} /\ db' = Rows({}, "Probed", {i})
    BY <1>2 DEF ProbeTimeout
  <2> QED
    BY <2>1, LeaveClosed
<1>3. ASSUME NEW S \in SUBSET Ids, EncodeStall(S) PROVE OpenHaveStayed'
  <2> DEFINE gone == S \cup ForwardedTo(S)
  <2>1. pass' = pass /\ queue' = queue \ gone /\ db' = Rows(gone, "Failed", gone)
    BY <1>3 DEF EncodeStall
  <2> HIDE DEF gone
  <2> QED
    BY <2>1, LeaveClosed
<1> QED
  BY <1>1, <1>2, <1>3 DEF ClockStep

\* Messages: a terminal stage closes the rows of the job, of its followers and
\* of the probe it came from, and these leave.
LEMMA MessageOpen ==
  ASSUME Typed, RowsInv, OpenHaveStayed, Receive \/ NoMessage
  PROVE  OpenHaveStayed'
<1>1. pass.dead = {}
  BY DEF Receive, NoMessage, RowsInv, DeadLeaveWithWalk
<1>2. CASE NoMessage
  <2>1. queue' = queue /\ db' = db /\ pass'.dead = {}
    BY <1>2 DEF NoMessage, StartDup, NoPass
  <2> QED
    BY <2>1, NobodyLeaves
<1>3. CASE Receive
  <2>1. PICK l \in Layers :
          LET m == Head(ret[l]) IN
            \/ HandleStale(m) \/ HandleAssign(l, m) \/ HandleFileDone(m)
            \/ HandleDuplicate(m) \/ HandleStage(m)
    BY <1>3 DEF Receive
  <2> DEFINE m == Head(ret[l])
  <2>2. CASE HandleStale(m) \/ HandleAssign(l, m) \/ HandleDuplicate(m)
    <3>1. queue' = queue /\ db' = db /\ pass'.dead = {}
      BY <2>2 DEF HandleStale, HandleAssign, HandleDuplicate, StartDup, BackToTop, NoPass
    <3> QED
      BY <3>1, NobodyLeaves
  <2>3. CASE HandleFileDone(m)
    <3>1. \E jobs : BackToTop(jobs)
      BY <2>3, Zenon DEF HandleFileDone
    <3>2. \/ queue' = queue /\ db' = db
          \/ queue' = queue \cup {nextId} /\ db' = Inserted(nextId, "Downloaded")
      BY <2>3 DEF HandleFileDone
    <3>3. pass'.dead = {}
      BY <3>1 DEF BackToTop, NoPass
    <3> QED
      BY <3>2, <3>3, JoinOpen, NobodyLeaves
  <2>4. CASE HandleStage(m)
    <3> DEFINE followers == ForwardedTo({m.id})
               ended == IF m.stage \in Terminal THEN {m.id} \cup followers ELSE {}
               gone == ended \cup ProbeLeft(m.id, m.stage)
    <3>1. /\ queue' = queue \ gone
          /\ db' = Rows({m.id} \cup followers, m.stage, gone)
          /\ pass'.dead = {}
      BY <2>4 DEF HandleStage, StartDup, NoPass
    <3> HIDE DEF m, followers, gone
    <3> QED
      BY <3>1, LeaveClosed
  <2> QED
    BY <2>1, <2>2, <2>3, <2>4
<1> QED
  BY <1>2, <1>3

\* Walks: who dies has a closed row, if kept outputs can be stored.
LEMMA WalkOpen ==
  ASSUME Typed, OpenHaveStayed, "store" \notin Faults, NEW i \in Ids,
         DupStep(i) \/ WaitStep(i) \/ ProgressStep(i)
  PROVE  OpenHaveStayed'
<1>1. queue' = queue
  BY DEF DupStep, WaitStep, ProgressStep, ProgressSkip, Skip, KeycodeWait, KeycodeFail,
         KeycodeDispatch, DispatchProbeLayer, DispatchUpload, FinishKeep, EncodeForward,
         EncodeWaitsForInput, EncodeHeldBack, EncodeDispatch, DispatchKilled, Steady
\* a visit that kills nobody
<1>2. ASSUME pass'.dead = pass.dead, db' = db \/ \E s : db' = Rows({i}, s, {})
      PROVE  OpenHaveStayed'
  BY <1>1, <1>2, LeaveClosed, NobodyLeaves
\* a visit that kills
<1>3. ASSUME pass'.dead = pass.dead \cup {i}, \E s : db' = Rows({i}, s, {i})
      PROVE  OpenHaveStayed'
  BY <1>1, <1>3, LeaveClosed
<1>4. CASE DupStep(i)
  <2>1. pass' = Past(i) /\ (db' = db \/ \E s : db' = Rows({i}, s, {}))
    BY <1>4 DEF DupStep
  <2> QED
    BY <1>2, <2>1, PastFields
<1>5. ASSUME Killed(i) PROVE OpenHaveStayed'
  BY <1>3, <1>5, PastFields DEF Killed
<1>6. CASE WaitStep(i)
  <2>1. (pass' = Past(i) /\ db' = db) \/ Killed(i)
    BY <1>6 DEF WaitStep
  <2> QED
    BY <1>2, <1>5, <2>1, PastFields
<1>7. CASE ProgressSkip(i) \/ EncodeHeldBack(i) \/ KeycodeWait(i) \/ EncodeForward(i)
           \/ EncodeWaitsForInput(i) \/ KeycodeDispatch(i)
  <2>1. pass' = Past(i) /\ (db' = db \/ \E s : db' = Rows({i}, s, {}))
    BY <1>7 DEF ProgressSkip, EncodeHeldBack, Skip, KeycodeWait, EncodeForward,
                EncodeWaitsForInput, KeycodeDispatch
  <2> QED
    BY <1>2, <2>1, PastFields
<1>8. CASE EncodeDispatch(i)
  <2>1. db' = db /\ \E f, x, y : pass' = [Past(i) EXCEPT !.inFlight = f, !.source = x, !.parent = y]
    BY <1>8, Zenon DEF EncodeDispatch
  <2> QED
    BY <1>2, <2>1, PastFields
<1>9. CASE DispatchProbeLayer(i) \/ DispatchUpload(i)
  <2>1. \E s : db' = Rows({i}, s, {})
    BY <1>9 DEF DispatchProbeLayer, DispatchUpload, PoolDispatch
  <2>2. pass' = Past(i) \/ \E u : pass' = [Past(i) EXCEPT !.uploads = u]
    BY <1>9, Zenon DEF DispatchProbeLayer, DispatchUpload
  <2>3. pass'.dead = pass.dead
    <3>1. CASE pass' = Past(i)
      BY <3>1, PastFields
    <3>2. ASSUME NEW u, pass' = [Past(i) EXCEPT !.uploads = u]
          PROVE  pass'.dead = pass.dead
      <4>1. [Past(i) EXCEPT !.uploads = u].dead = pass.dead
        BY PastFields, Zenon
      <4> QED
        BY <3>2, <4>1, Zenon
    <3> QED
      BY <2>2, <3>1, <3>2
  <2> QED
    BY <1>2, <2>1, <2>3
<1>10. CASE KeycodeFail(i) \/ DispatchKilled(i)
  BY <1>5, <1>10 DEF KeycodeFail, DispatchKilled
<1>11. CASE FinishKeep(i)
  <2>1. pass'.dead = pass.dead \cup {i} /\ db' = Rows({i}, "Uploaded", {i})
    BY <1>11, PastFields DEF FinishKeep
  <2> QED
    BY <1>3, <2>1
<1> QED
  BY <1>4, <1>6, <1>7, <1>8, <1>9, <1>10, <1>11 DEF ProgressStep

\* Between two walks the dead leave, and finished batches leave with closed rows.
LEMMA WalkEndsOpen ==
  ASSUME Typed, RowsInv, OpenHaveStayed, DupEnd \/ WaitEnd \/ ProgressEnd \/ BatchParents
  PROVE  OpenHaveStayed'
<1>1. CASE DupEnd \/ WaitEnd
  <2>1. db' = db /\ pass'.dead = {} /\ (queue' = queue \/ queue' = queue \ pass.dead)
    BY <1>1 DEF DupEnd, WaitEnd, NoPass
  <2> QED
    BY <2>1, NobodyLeaves
<1>2. CASE ProgressEnd
  <2>1. /\ pass'.dead = {} /\ queue' = queue \ pass.dead
        /\ \E S : db' = Rows(S, "Uploading", {})
    BY <1>2, Zenon DEF ProgressEnd, NoPass
  <2> QED
    BY <2>1, LeaveClosed
<1>3. CASE BatchParents
  <2>1. pass' = pass /\ \E done : queue' = queue \ done /\ db' = Rows(done, "Uploaded", done)
    BY <1>3, Zenon DEF BatchParents
  <2> QED
    BY <2>1, LeaveClosed
<1> QED
  BY <1>1, <1>2, <1>3

\* The process ends with no encode in the queue, and its rows stay as they are.
LEMMA GitOpen ==
  ASSUME Typed, RowsInv, OpenInv, GitQuery \/ ArmedGitQuery
  PROVE  OpenInv'
<1>1. pc \in {"queue", "git"} /\ OpenHaveStayed
  BY DEF GitQuery, ArmedGitQuery, OpenInv
<1>2. CASE ~EncodesActive
  <2>1. pc' = "exited" /\ db' = db /\ born' = born
    BY <1>2 DEF GitQuery, ArmedGitQuery, GitSync
  <2> QED
    BY <1>1, <1>2, <2>1 DEF OpenInv, OpenHaveStayed, GitSyncAfterEncodes, EncodesActive, Type
<1>3. CASE EncodesActive
  <2>1. db' = db /\ queue' = queue /\ pc' \in {"queue", "message"} /\ (pass' = pass \/ pass' = NoPass)
    BY <1>3 DEF GitQuery, ArmedGitQuery, BackToTop
  <2>2. pass'.dead \subseteq pass.dead
    BY <2>1 DEF NoPass
  <2>3. OpenHaveStayed'
    BY <1>1, <2>1, <2>2, NobodyLeaves
  <2> QED
    BY <2>1, <2>3 DEF OpenInv, GitSyncAfterEncodes
<1> QED
  BY <1>2, <1>3

\* Every step keeps it, if kept outputs can be stored.
LEMMA NextOpen ==
  ASSUME "store" \notin Faults
  PROVE  Typed /\ RowsInv /\ OpenInv /\ [Next]_vars => OpenInv'
<1> SUFFICES ASSUME Typed, RowsInv, OpenInv, [Next]_vars PROVE OpenInv'
  OBVIOUS
<1>1. CASE GitQuery \/ ArmedGitQuery
  BY <1>1, GitOpen
<1>2. CASE WorkerStep \/ UNCHANGED vars
  <2>1. UNCHANGED <<pc, db, queue, pass>>
    BY <1>2 DEF WorkerStep, mainVars, vars
  <2>2. born' = born
    BY <1>2, WorkersKeepTypes DEF WorkerStep, Typed, TypeOK, vars, layerVars
  <2> QED
    BY <2>1, <2>2 DEF OpenInv, OpenHaveStayed, GitSyncAfterEncodes, Type
<1>3. ASSUME pc # "exited", pc' # "exited", OpenHaveStayed => OpenHaveStayed'
      PROVE  OpenInv'
  <2>1. OpenHaveStayed
    BY <1>3 DEF OpenInv
  <2>2. OpenHaveStayed'
    BY ONLY <1>3, <2>1
  <2>3. GitSyncAfterEncodes'
    BY <1>3 DEF GitSyncAfterEncodes
  <2> QED
    BY ONLY <2>2, <2>3 DEF OpenInv
<1>4. CASE ClockStep
  <2>1. pc # "exited" /\ pc' # "exited"
    BY <1>4 DEF ClockStep, DrainReboot, ReceiveReboot, ExpireCache, ExpireKeep, ProbeTimeout,
                EncodeStall, mainVars
  <2> QED
    BY <1>3, <1>4, <2>1, ClockOpen
<1>5. CASE (\E n \in Names : Submit(n)) \/ (\E i \in Ids : Cancel(i)) \/ Admit \/ NoRequest
  <2>1. pc # "exited"
    BY <1>5 DEF Submit, Refuse, DeclineSetup, Prepare, Cancel, Admit, NoRequest
  <2>2. pc' # "exited"
    BY <1>5 DEF Submit, Refuse, DeclineSetup, Prepare, Cancel, Admit, NoRequest, BackToTop,
                AdmitForwarded, AdmitKilled, AdmitDownload, AdmitProbe, AdmitStudio,
                AdmitKeycode, Push
  <2> QED
    BY <1>3, <1>5, <2>1, <2>2, RequestOpen
<1>6. CASE Receive \/ NoMessage
  <2>1. pc # "exited" /\ pc' # "exited"
    BY <1>6 DEF Receive, NoMessage, StartDup, BackToTop, HandleStale, HandleAssign,
                HandleFileDone, HandleDuplicate, HandleStage
  <2> QED
    BY <1>3, <1>6, <2>1, MessageOpen
<1>7. ASSUME NEW i \in Ids, DupStep(i) \/ WaitStep(i) \/ ProgressStep(i) PROVE OpenInv'
  <2>1. pc' = pc /\ pc # "exited"
    BY <1>7 DEF DupStep, WaitStep, ProgressStep, ProgressSkip, Skip, KeycodeWait, KeycodeFail,
                KeycodeDispatch, DispatchProbeLayer, DispatchUpload, FinishKeep, EncodeForward,
                EncodeWaitsForInput, EncodeHeldBack, EncodeDispatch, EncodeReady, Encodable,
                DispatchKilled, Progressing, At, Steady
  <2> QED
    BY <1>3, <1>7, <2>1, WalkOpen
<1>8. CASE DupEnd \/ WaitEnd \/ ProgressEnd \/ BatchParents
  <2>1. pc # "exited" /\ pc' # "exited"
    BY <1>8 DEF DupEnd, WaitEnd, ProgressEnd, BatchParents
  <2> QED
    BY <1>3, <1>8, <2>1, WalkEndsOpen
<1> QED
  BY <1>1, <1>2, <1>4, <1>5, <1>6, <1>7, <1>8 DEF Next, LoopStep, ClientStep

\* No row is known yet.
LEMMA InitOpen == Init => OpenInv
  BY DEF Init, InitWith, NoRow, OpenInv, OpenHaveStayed, GitSyncAfterEncodes

\* Between two turns exactly the jobs of the queue have open rows, if what is
\* kept can be stored: no client waits for a job the loop has forgotten, and the
\* loop works on none the client takes for ended.
THEOREM OpenRows ==
  ASSUME "store" \notin Faults
  PROVE  Spec => []OpenRowsAreQueued
<1>1. RowsInv /\ OpenInv => OpenRowsAreQueued
  BY DEF RowsInv, ClosedHaveLeft, DeadLeaveWithWalk, OpenInv, OpenHaveStayed, OpenRowsAreQueued
<1>2. Typed /\ RowsInv /\ [Next]_vars => RowsInv'
  BY NextRows DEF Kept
<1>3. Typed /\ RowsInv /\ OpenInv /\ [Next]_vars => OpenInv'
  BY NextOpen
<1> QED
  BY <1>1, <1>2, <1>3, InitRows, InitOpen, InitTyped, NextTyped, PTL DEF Spec

\* When a git query ends the process, every encode has ended for its client, if
\* what is kept can be stored: the restart finds no row of one that still runs.
THEOREM GitSyncWaits ==
  ASSUME "store" \notin Faults
  PROVE  Spec => []GitSyncAfterEncodes
<1>1. OpenInv => GitSyncAfterEncodes
  BY DEF OpenInv
<1>2. Typed /\ RowsInv /\ [Next]_vars => RowsInv'
  BY NextRows DEF Kept
<1>3. Typed /\ RowsInv /\ OpenInv /\ [Next]_vars => OpenInv'
  BY NextOpen
<1> QED
  BY <1>1, <1>2, <1>3, InitRows, InitOpen, InitTyped, NextTyped, PTL DEF Spec
=============================================================================
