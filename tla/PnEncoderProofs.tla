--------------------------- MODULE PnEncoderProofs ---------------------------
(***************************************************************************)
(* What the loop lends to the encoder, and what a batch counts.            *)
(*                                                                         *)
(* A job is under lease while it was dispatched and the encoder has not    *)
(* announced it: then either it is with the encoder, or a reboot has lost  *)
(* it and the loop has not checked the reboot epoch since.  A child of a   *)
(* batch that is with the encoder is in the queue, and is the only one.    *)
(* What an encode reads was downloaded, and stays in the job's directory   *)
(* until the job leaves.  A keyword that is promised has a job in the      *)
(* queue that follows nobody.                                              *)
(***************************************************************************)
EXTENDS PnPlacesProofs

\* The encode branch is for the types that are not served by another layer.
Encodes(t) == t \notin {"Subs", "Preview", "Backup", "BackupAll", "Probe"}

\* A record that follows nobody, and whose next stage is no download or encode
Apart(j) == j.fwd = 0 /\ j.ready \notin {"Queued", "Downloading", "Downloaded"}

\* What the loop may hold to be true of a record: a job that is to be downloaded
\* waits for nobody's input, a probe is for its own layer, and only what is
\* encoded is dispatched.
Sane(k) ==
  /\ job[k].ready = "Queued" => job[k].dup = 0
  /\ Type(k) = "Probe" => Apart(job[k])
  /\ job[k].dispatched =>
       /\ job[k].fwd = 0 /\ Encodes(Type(k))
       /\ job[k].ready \in {"Downloaded", "Encoding"} \/ (Type(k) = "Keycode" /\ job[k].ready = "Queued")

\* Dispatched, and not announced
Leased(k) ==
  /\ job[k].dispatched
  /\ job[k].ready = "Downloaded" \/ (Type(k) = "Keycode" /\ job[k].ready = "Queued")

\* A lease of this epoch is with the encoder; an older one is still to be noticed.
Held(k) ==
  /\ job[k].epoch <= epoch
  /\ Leased(k) => IF job[k].epoch = epoch THEN With("Encode", k) ELSE seenEpoch < epoch

LeasesInv == seenEpoch <= epoch /\ \A k \in queue : Sane(k) /\ Held(k)

\* A request names no probe but a probe, and the row of a render can be written,
\* which is with the encoder before it is in the queue.
InOrder ==
  /\ \A n \in Names : Submissions[n].probe # 0 => Submissions[Submissions[n].probe].type = "Probe"
  /\ "insert" \in Faults => \A n \in Names : Submissions[n].type # "Studio"

\* Children of batches that are with the encoder, and what stays in the queue as
\* long as it is there: they in any case, and everything if all is in order
ChildAt(i) == With("Encode", i) /\ born[i].parent # 0
Stays(i)   == With("Encode", i) /\ (born[i].parent # 0 \/ InOrder)

\* There is but one child, and the walk that dispatches knows of it.
ChildInv ==
  /\ \A i \in Ids : Stays(i) => i \in queue /\ i \notin pass.dead
  /\ \A i, k \in Ids : ChildAt(i) /\ ChildAt(k) => i = k
  /\ pc = "progress" /\ ~pass.inFlight => \A i \in Ids : ~ChildAt(i)

-----------------------------------------------------------------------------
(* The record of one job *)

\* A record that is not lent to the encoder ...
Free(k, j) ==
  /\ ~j.dispatched /\ j.epoch <= epoch /\ (j.ready = "Queued" => j.dup = 0)
  /\ Type(k)' = "Probe" => Apart(j)
\* ... one whose encode was announced ...
Announced(k, j) ==
  /\ j.dispatched /\ j.fwd = 0 /\ Encodes(Type(k)')
  /\ j.ready = "Encoding" /\ j.epoch <= epoch
\* ... and one that is lent to it in this step.
Lent(k, j) ==
  /\ With("Encode", k)'
  /\ j.dispatched /\ j.fwd = 0 /\ Encodes(Type(k)') /\ j.epoch = epoch'
  /\ j.ready = "Downloaded" \/ (Type(k)' = "Keycode" /\ j.ready = "Queued" /\ j.dup = 0)

\* What a step may make of the record of job k, before the reboot epoch is checked.
Goes(k, j) ==
  \/ /\ k \in queue /\ born'[k] = born[k] /\ Lease(j) = Lease(job[k])
     /\ With("Encode", k) => With("Encode", k)' \/ epoch < epoch'
  \/ Free(k, j) \/ Announced(k, j) \/ Lent(k, j)

\* The encoder keeps the jobs it has while nothing changes there.
LEMMA EncoderStill ==
  ASSUME UNCHANGED <<inbox, cur>>, ret'["Encode"] = ret["Encode"]
  PROVE  \A k : With("Encode", k)' <=> With("Encode", k)
<1>1. "Encode" \in Layers /\ Still("Encode")
  BY DEF Layers, Pools, Still
<1> QED
  BY <1>1, StillThere

\* A job whose record goes so keeps its lease in order.
LEMMA LeaseKept ==
  ASSUME Typed, LeasesInv, NEW k \in Ids, NEW j \in Job, Goes(k, j),
         epoch' \in Nat, epoch <= epoch',
         \/ job'[k] = j /\ seenEpoch' = seenEpoch
         \/ /\ job'[k] = IF epoch' = seenEpoch \/ k \notin queue THEN j
                         ELSE ResetDispatch(born[k], j, epoch')
            /\ seenEpoch' = epoch'
  PROVE  Sane(k)' /\ Held(k)'
<1>1. /\ epoch \in Nat /\ seenEpoch \in Nat /\ seenEpoch <= epoch
      /\ j.epoch \in Nat /\ j.dispatched \in BOOLEAN
  BY DEF Typed, TypeOK, LayersTypeOK, LeasesInv, Job
<1>2. /\ job'[k].ready = j.ready /\ job'[k].fwd = j.fwd /\ job'[k].dup = j.dup
      /\ job'[k].epoch = j.epoch
      /\ job'[k].dispatched => j.dispatched
  BY DEF ResetDispatch, Job
<1>3. CASE Free(k, j)
  BY <1>1, <1>2, <1>3 DEF Free, Apart, Sane, Held, Leased
<1>4. CASE Announced(k, j)
  BY <1>1, <1>2, <1>4 DEF Announced, Encodes, Sane, Held, Leased
<1>5. CASE Lent(k, j)
  BY <1>1, <1>2, <1>5 DEF Lent, Encodes, Sane, Held, Leased
<1>6. ASSUME k \in queue, born'[k] = born[k], Lease(j) = Lease(job[k]),
             With("Encode", k) => With("Encode", k)' \/ epoch < epoch'
      PROVE  Sane(k)' /\ Held(k)'
  <2>1. /\ j.ready = job[k].ready /\ j.fwd = job[k].fwd /\ j.dup = job[k].dup
        /\ j.epoch = job[k].epoch /\ j.dispatched = job[k].dispatched
        /\ Sane(k) /\ Held(k) /\ Type(k)' = Type(k)
    BY <1>6 DEF Lease, LeasesInv, Type
  <2>2. Sane(k)'
    BY <1>2, <2>1 DEF Sane, Apart
  <2>3. job'[k].epoch <= epoch'
    BY <1>1, <1>2, <2>1 DEF Held
  <2>4. ASSUME Leased(k)'
        PROVE  IF job'[k].epoch = epoch' THEN With("Encode", k)' ELSE seenEpoch' < epoch'
    <3>1. Leased(k)
      BY <1>2, <2>1, <2>4 DEF Leased
    <3>2. j.epoch # epoch => seenEpoch < epoch
      BY <2>1, <3>1, Zenon DEF Held
    <3>3. j.epoch = epoch => With("Encode", k)
      BY <2>1, <3>1, Zenon DEF Held
    <3>4. ASSUME job'[k].epoch = epoch' PROVE With("Encode", k)'
      <4>1. j.epoch = epoch /\ ~(epoch < epoch')
        BY <1>1, <1>2, <2>1, <3>4 DEF Held
      <4> QED
        BY <1>6, <3>3, <4>1, Zenon
    <3>5. ASSUME job'[k].epoch # epoch' PROVE seenEpoch' < epoch'
      <4>1. j.epoch < epoch' /\ j.epoch <= epoch
        BY <1>1, <1>2, <2>1, <2>3, <3>5 DEF Held
      <4>2. CASE seenEpoch' = seenEpoch
        BY <1>1, <3>2, <4>1, <4>2
      <4>3. CASE epoch' = seenEpoch
        BY <1>1, <3>2, <4>1, <4>3
      <4>4. CASE job'[k] = ResetDispatch(born[k], j, epoch')
        <5>1. TypeOf(born[k]) = Type(k)
          BY DEF Type
        <5>2. job'[k] = [j EXCEPT !.dispatched = FALSE]
          BY <2>1, <3>1, <4>1, <4>4, <5>1 DEF ResetDispatch, Leased
        <5>3. ~job'[k].dispatched
          BY <5>2 DEF Job
        <5> QED
          BY <2>4, <5>3 DEF Leased
      <4> QED
        BY <1>6, <4>2, <4>3, <4>4
    <3> QED
      BY <3>4, <3>5
  <2> QED
    BY <2>2, <2>3, <2>4 DEF Held
<1> QED
  BY <1>3, <1>4, <1>5, <1>6 DEF Goes

\* The same for all jobs of the queue: the loop leaves the records as a step made
\* them, or checks the reboot epoch.
LEMMA LeasesKept ==
  ASSUME Typed, Typed', LeasesInv, NEW jobs \in Jobs, epoch <= epoch',
         \/ job' = jobs /\ seenEpoch' = seenEpoch
         \/ job' = Checked(jobs, epoch') /\ seenEpoch' = epoch',
         \A k \in queue' : Goes(k, jobs[k])
  PROVE  LeasesInv'
<1>1. epoch' \in Nat /\ epoch \in Nat /\ seenEpoch \in Nat /\ queue' \subseteq Ids
  BY DEF Typed, TypeOK, LayersTypeOK
<1>2. ASSUME NEW k \in queue' PROVE Sane(k)' /\ Held(k)'
  <2>1. k \in Ids /\ jobs[k] \in Job
    BY <1>1 DEF Jobs
  <2>2. \/ job'[k] = jobs[k] /\ seenEpoch' = seenEpoch
        \/ /\ job'[k] = IF epoch' = seenEpoch \/ k \notin queue THEN jobs[k]
                        ELSE ResetDispatch(born[k], jobs[k], epoch')
           /\ seenEpoch' = epoch'
    BY <2>1 DEF Checked
  <2> QED
    BY <1>1, <2>1, <2>2, LeaseKept
<1>3. seenEpoch' <= epoch'
  BY <1>1 DEF LeasesInv
<1> QED
  BY <1>2, <1>3 DEF LeasesInv

\* A step that leaves the encoder and its epoch alone.
LEMMA QuietLeases ==
  ASSUME Typed, Typed', LeasesInv, NEW jobs \in Jobs,
         UNCHANGED <<inbox, cur, epoch>>, ret'["Encode"] = ret["Encode"],
         \/ job' = jobs /\ seenEpoch' = seenEpoch
         \/ job' = Checked(jobs, epoch) /\ seenEpoch' = epoch,
         \A k \in queue' :
           \/ k \in queue /\ born'[k] = born[k] /\ Lease(jobs[k]) = Lease(job[k])
           \/ Free(k, jobs[k]) \/ Announced(k, jobs[k])
  PROVE  LeasesInv'
<1>1. epoch' = epoch /\ epoch <= epoch'
  BY DEF Typed, TypeOK, LayersTypeOK
<1>2. \A k \in queue' : Goes(k, jobs[k])
  BY EncoderStill DEF Goes
<1>3. \/ job' = jobs /\ seenEpoch' = seenEpoch
      \/ job' = Checked(jobs, epoch') /\ seenEpoch' = epoch'
  BY <1>1
<1> QED
  BY <1>1, <1>2, <1>3, LeasesKept

\* A send to the encoder leaves it what it has, or reboots it.
LEMMA SendKeeps ==
  ASSUME LayersTypeOK, NEW i \in Ids, EncodeSend(i)
  PROVE  /\ epoch <= epoch' /\ With("Encode", i)'
         /\ \A k : With("Encode", k) => With("Encode", k)' \/ epoch < epoch'
<1>1. CASE inbox' = Append(inbox, i) /\ UNCHANGED <<cur, epoch, ret>>
  <2>1. \A k : Inboxed(k)' <=> Inboxed(k) \/ k = i
    BY <1>1, Appended DEF Inboxed, LayersTypeOK
  <2>2. \A k : Told("Encode", k)' <=> Told("Encode", k)
    BY <1>1 DEF Told
  <2>3. \A k : With("Encode", k) => With("Encode", k)'
    BY <1>1, <2>1, <2>2, Zenon DEF With, Holds
  <2>4. With("Encode", i)'
    BY <2>1, Zenon DEF With, Holds
  <2> QED
    BY <1>1, <2>3, <2>4 DEF LayersTypeOK
<1>2. CASE EncodeReboot(<<i>>)
  <2>1. inbox' = <<i>> /\ epoch' = epoch + 1
    BY <1>2 DEF EncodeReboot
  <2>2. Inboxed(i)'
    BY <2>1 DEF Inboxed, InSeq
  <2>3. With("Encode", i)'
    BY <2>2, Zenon DEF With, Holds
  <2> QED
    BY <2>1, <2>3 DEF LayersTypeOK
<1> QED
  BY <1>1, <1>2 DEF EncodeSend

-----------------------------------------------------------------------------
(* The steps of the loop *)

\* A request that is received, refused or prepared lends nothing.
LEMMA SubmitLeases ==
  ASSUME Typed, Typed', RowsInv, LeasesInv, NEW n \in Names, Submit(n)
  PROVE  LeasesInv'
<1>1. job \in Jobs /\ queue' = queue
  BY DEF Typed, TypeOK, Jobs, Submit, Refuse, DeclineSetup, Prepare
<1>2. CASE Refuse(n) \/ DeclineSetup(n)
  <2>1. /\ job' = Checked(job, epoch) /\ seenEpoch' = epoch
        /\ UNCHANGED <<born, inbox, cur, epoch, ret>>
    BY <1>2 DEF Refuse, DeclineSetup, BackToTop, layerVars
  <2> QED
    BY <1>1, <2>1, QuietLeases
<1>3. CASE Prepare(n)
  <2>1. /\ UNCHANGED <<job, seenEpoch, inbox, cur, epoch, ret>>
        /\ \E b : born' = [born EXCEPT ![nextId] = b]
    BY <1>3, Zenon DEF Prepare, encVars
  <2>2. \A k \in queue : k # nextId /\ k \in Ids
    BY PnJobsAssumption DEF RowsInv, QueuedBefore, Typed, TypeOK, Ids
  <2>3. \A k \in queue : born'[k] = born[k]
    BY <2>1, <2>2 DEF Typed, TypeOK, LayersTypeOK
  <2> QED
    BY <1>1, <2>1, <2>3, QuietLeases
<1> QED
  BY <1>2, <1>3 DEF Submit

\* What is pushed joins the queue with the record it was pushed with.
LEMMA PushLeases ==
  ASSUME Typed, Typed', LeasesInv, NEW i \in Ids, i \notin queue, NEW j \in Job, NEW d,
         Push(i, j, epoch', d), born' = born, epoch <= epoch',
         \A k \in queue : With("Encode", k) => With("Encode", k)' \/ epoch < epoch',
         Goes(i, j)
  PROVE  LeasesInv'
<1> DEFINE jobs == IF queue' = queue \cup {i} THEN [job EXCEPT ![i] = j] ELSE job
<1>1. job \in Jobs /\ [job EXCEPT ![i] = j] \in Jobs /\ queue \subseteq Ids
  BY DEF Typed, TypeOK, Jobs
<1>2. \A k \in queue : [job EXCEPT ![i] = j][k] = job[k]
  BY <1>1 DEF Jobs
<1>3. [job EXCEPT ![i] = j][i] = j
  BY <1>1 DEF Jobs
<1>4. CASE queue' = queue \cup {i} /\ job' = [job EXCEPT ![i] = j] /\ seenEpoch' = seenEpoch
  <2>1. \A k \in queue' : Goes(k, [job EXCEPT ![i] = j][k])
    <3>1. \A k \in queue : Goes(k, [job EXCEPT ![i] = j][k])
      BY <1>2 DEF Goes
    <3> QED
      BY <1>3, <1>4, <3>1
  <2> QED
    BY <1>1, <1>4, <2>1, LeasesKept
<1>5. CASE queue' = queue /\ job' = Checked(job, epoch') /\ seenEpoch' = epoch'
  <2>1. \A k \in queue' : Goes(k, job[k])
    BY <1>5 DEF Goes
  <2> QED
    BY <1>1, <1>5, <2>1, LeasesKept
<1> QED
  BY <1>4, <1>5 DEF Push

\* A new job has nothing lent, except a render, which is announced as it is sent.
LEMMA AdmitLeases ==
  ASSUME Typed, Typed', RowsInv, LeasesInv, Admit
  PROVE  LeasesInv'
<1>1. PICK i \in pass.todo :
        \/ AdmitForwarded(i) \/ AdmitKilled(i) \/ AdmitDownload(i) \/ AdmitProbe(i)
        \/ AdmitStudio(i) \/ AdmitKeycode(i)
  BY DEF Admit
<1>2. pc = "admit" /\ UNCHANGED <<born, nextId>>
  BY DEF Admit
<1>3. /\ i \in Ids /\ i \notin queue /\ job \in Jobs /\ queue \subseteq Ids /\ epoch \in Nat
      /\ LayersTypeOK
  BY <1>2 DEF RowsInv, AdmittedIsNew, Typed, TypeOK, LayersTypeOK, Pass, Jobs
<1>4. /\ NewJob \in Job /\ NewJob.epoch = 0 /\ ~NewJob.dispatched /\ NewJob.dup = 0
      /\ NewJob.fwd = 0 /\ NewJob.ready = "Queued"
  BY NewJobType DEF NewJob
<1>5. CASE AdmitForwarded(i)
  <2> DEFINE j == Forwarded(NewJob, First(QueuedParents(i)))
             jobs == [job EXCEPT ![i] = j]
  <2>1. /\ job' = Checked(jobs, epoch) /\ seenEpoch' = epoch /\ queue' = queue \cup {i}
        /\ UNCHANGED <<inbox, cur, epoch, ret>>
    BY <1>5 DEF AdmitForwarded, BackToTop, encVars
  <2>2. First(QueuedParents(i)) \in Ids
    BY <1>3, <1>5, FirstIn DEF AdmitForwarded, QueuedParents
  <2>3. j \in Job
    BY <1>4, <2>2, ForwardedType DEF Typed
  <2>4. ~j.dispatched /\ j.epoch = 0 /\ j.dup = 0
    BY <1>4 DEF Forwarded, NewJob
  <2>5. Free(i, j)
    BY <1>2, <1>3, <1>5, <2>4 DEF Free, AdmitForwarded, IsForwardable, Type
  <2> HIDE DEF j
  <2>6. jobs \in Jobs /\ jobs[i] = j /\ \A k \in queue : jobs[k] = job[k]
    BY <1>3, <2>3 DEF Jobs
  <2> HIDE DEF jobs
  <2> QED
    BY <1>2, <2>1, <2>5, <2>6, QuietLeases
<1>6. CASE AdmitKilled(i)
  <2>1. /\ job' = Checked(job, epoch) /\ seenEpoch' = epoch /\ queue' = queue
        /\ UNCHANGED <<inbox, cur, epoch, ret>>
    BY <1>6 DEF AdmitKilled, BackToTop, encVars
  <2> QED
    BY <1>2, <1>3, <2>1, QuietLeases
<1>7. ASSUME NEW j \in Job, NEW d, Push(i, j, epoch, d), UNCHANGED <<inbox, cur, epoch, ret>>, Free(i, j)
      PROVE  LeasesInv'
  <2>1. Push(i, j, epoch', d) /\ epoch <= epoch'
    BY <1>3, <1>7
  <2>2. \A k \in queue : With("Encode", k) => With("Encode", k)'
    BY <1>7, EncoderStill
  <2>3. Goes(i, j)
    BY <1>7 DEF Goes
  <2> QED
    BY <1>2, <1>3, <2>1, <2>2, <2>3, PushLeases
<1>8. CASE AdmitDownload(i)
  <2> DEFINE j == Routed(i, [NewJob EXCEPT !.worker = "dwl-pending"])
  <2>1. [NewJob EXCEPT !.worker = "dwl-pending"] \in Job
    BY <1>4, JobUpdates DEF Workers
  <2>2. j \in Job
    BY <1>3, <2>1, RoutedType
  <2>3. ~j.dispatched /\ j.epoch = 0 /\ j.ready # "Queued"
    BY DEF Routed, NewJob
  <2>4. Free(i, j)
    BY <1>2, <1>3, <1>8, <2>3 DEF Free, AdmitDownload, DownloadTypes, Type
  <2>5. Push(i, j, epoch, RoutedDisk(i)) /\ UNCHANGED <<inbox, cur, epoch, ret>>
    BY <1>8 DEF AdmitDownload, encVars
  <2> HIDE DEF j
  <2> QED
    BY <1>7, <2>2, <2>4, <2>5
<1>9. CASE AdmitProbe(i)
  <2> DEFINE s == IF Type(i) = "Probe" THEN "Probing" ELSE "Encoding"
             j == [NewJob EXCEPT !.worker = "prw-pending", !.ready = s]
  <2>1. /\ s \in Stages /\ s \in {"Probing", "Encoding"} /\ "prw-pending" \in Workers
    BY DEF Stages, Workers
  <2> HIDE DEF s
  <2>2. j \in Job
    BY <1>4, <2>1 DEF Job
  <2>3. ~j.dispatched /\ j.epoch = 0 /\ j.fwd = 0 /\ j.ready \in {"Probing", "Encoding"}
    BY <2>1 DEF NewJob
  <2>4. Free(i, j)
    BY <1>3, <2>3 DEF Free, Apart
  <2>5. Push(i, j, epoch, disk) /\ UNCHANGED <<inbox, cur, epoch, ret>>
    BY <1>9 DEF AdmitProbe, encVars, s
  <2> HIDE DEF j
  <2> QED
    BY <1>7, <2>2, <2>4, <2>5
<1>10. CASE AdmitStudio(i)
  <2> DEFINE j == [NewJob EXCEPT !.worker = "enc-main", !.ready = "Encoding", !.dispatched = TRUE]
  <2>1. j \in Job
    BY <1>4 DEF Job, Stages, Workers
  <2>2. j.dispatched /\ j.epoch = 0 /\ j.ready = "Encoding" /\ j.fwd = 0
    BY DEF NewJob
  <2>3. Type(i)' = "Studio"
    BY <1>2, <1>10 DEF AdmitStudio, Type
  <2>5. Goes(i, j)
    BY <1>3, <2>2, <2>3 DEF Announced, Goes, Encodes
  <2>4. Push(i, j, epoch', disk) /\ EncodeSend(i)
    BY <1>10 DEF AdmitStudio
  <2> HIDE DEF j
  <2> QED
    BY <1>2, <1>3, <2>1, <2>4, <2>5, SendKeeps, PushLeases
<1>11. CASE AdmitKeycode(i)
  <2> DEFINE j == [NewJob EXCEPT !.worker = "key-wait"]
  <2>1. j \in Job
    BY <1>4, JobUpdates DEF Workers
  <2>2. ~j.dispatched /\ j.epoch = 0 /\ j.dup = 0
    BY DEF NewJob
  <2>3. Free(i, j)
    BY <1>2, <1>3, <1>11, <2>2 DEF Free, AdmitKeycode, Type
  <2>4. Push(i, j, epoch, disk) /\ UNCHANGED <<inbox, cur, epoch, ret>>
    BY <1>11 DEF AdmitKeycode, encVars
  <2> HIDE DEF j
  <2> QED
    BY <1>7, <2>1, <2>3, <2>4
<1> QED
  BY <1>1, <1>5, <1>6, <1>8, <1>9, <1>10, <1>11

\* A step that only makes jobs leave lends nothing.
LEMMA LeaveLeases ==
  ASSUME Typed, Typed', LeasesInv, UNCHANGED <<born, inbox, cur, epoch, seenEpoch>>,
         ret'["Encode"] = ret["Encode"],
         \A k \in queue' : k \in queue /\ Lease(job'[k]) = Lease(job[k])
  PROVE  LeasesInv'
<1>1. job' \in Jobs
  BY DEF Typed, TypeOK, Jobs
<1> QED
  BY <1>1, QuietLeases

\* Cancelling and turns without a request.
LEMMA CancelLeases ==
  ASSUME Typed, Typed', LeasesInv, NEW i \in Ids, Cancel(i) \/ NoRequest
  PROVE  LeasesInv'
<1>1. UNCHANGED <<born, inbox, cur, epoch, seenEpoch, ret>>
  BY DEF Cancel, NoRequest, layerVars, poolVars, encVars
<1>2. \/ UNCHANGED <<queue, job>>
      \/ \E R : queue' = queue \ R /\ job' = Without(job, R)
  BY DEF Cancel, FinalizeCancelled, NoRequest
<1>3. \A k \in queue' : k \in queue /\ job'[k] = job[k]
  BY <1>2, WithoutKeeps DEF Typed, TypeOK
<1> QED
  BY <1>1, <1>3, LeaveLeases

\* Nothing is left of the leases when the process ends.
LEMMA GitLeases ==
  ASSUME Typed, Typed', LeasesInv, GitQuery \/ ArmedGitQuery
  PROVE  LeasesInv'
<1>1. CASE GitSync
  BY <1>1 DEF GitSync, LeasesInv
<1>2. CASE UNCHANGED <<queue, job, layerVars, seenEpoch>>
  <2>1. UNCHANGED <<born, inbox, cur, epoch, seenEpoch, ret>>
    BY <1>2 DEF layerVars
  <2> QED
    BY <1>2, <2>1, LeaveLeases
<1>3. CASE UNCHANGED <<queue, layerVars>> /\ BackToTop(job)
  <2>1. /\ UNCHANGED <<born, inbox, cur, epoch, ret>> /\ job \in Jobs
        /\ job' = Checked(job, epoch) /\ seenEpoch' = epoch
    BY <1>3 DEF layerVars, BackToTop, Typed, TypeOK, Jobs
  <2> QED
    BY <1>3, <2>1, QuietLeases
<1> QED
  BY <1>1, <1>2, <1>3 DEF GitQuery, ArmedGitQuery

\* A reboot ends the epoch of every lease; what the loop does not check at once
\* it has still to check.
LEMMA ClockLeases ==
  ASSUME Typed, Typed', LeasesInv, ClockStep
  PROVE  LeasesInv'
<1>1. job \in Jobs /\ job' \in Jobs /\ queue \subseteq Ids /\ epoch \in Nat
  BY DEF Typed, TypeOK, LayersTypeOK, Jobs
<1>2. CASE ExpireCache \/ ExpireKeep
  <2>1. UNCHANGED <<queue, job, seenEpoch, born, inbox, cur, epoch, ret>>
    BY <1>2 DEF ExpireCache, ExpireKeep, mainVars, layerVars, encVars
  <2> QED
    BY <2>1, LeaveLeases
<1>3. ASSUME NEW i \in Ids, ProbeTimeout(i) PROVE LeasesInv'
  <2>1. /\ queue' = queue \ {i} /\ job' = Without(job, {i})
        /\ UNCHANGED <<seenEpoch, born, inbox, cur, epoch, ret>>
    BY <1>3 DEF ProbeTimeout, encVars
  <2>2. \A k \in queue' : k \in queue /\ job'[k] = job[k]
    BY <1>1, <2>1, WithoutKeeps
  <2> QED
    BY <2>1, <2>2, LeaveLeases
<1>4. ASSUME NEW jobs \in Jobs, epoch' = epoch + 1, born' = born,
             \A k \in queue' : k \in queue /\ Lease(jobs[k]) = Lease(job[k])
      PROVE  epoch < epoch' /\ epoch <= epoch' /\ \A k \in queue' : Goes(k, jobs[k])
  BY <1>1, <1>4 DEF Goes
<1>5. CASE DrainReboot
  <2>1. /\ epoch' = epoch + 1 /\ UNCHANGED <<queue, born>>
        /\ job' = Checked(job, epoch + 1) /\ seenEpoch' = epoch + 1
    BY <1>5 DEF DrainReboot, EncodeReboot
  <2> QED
    BY <1>1, <1>4, <2>1, LeasesKept
<1>6. CASE ReceiveReboot
  <2>1. epoch' = epoch + 1 /\ UNCHANGED <<queue, born, job, seenEpoch>>
    BY <1>6 DEF ReceiveReboot, EncodeReboot
  <2> QED
    BY <1>1, <1>4, <2>1, LeasesKept
<1>7. ASSUME NEW S \in SUBSET Ids, EncodeStall(S) PROVE LeasesInv'
  <2> DEFINE gone == S \cup ForwardedTo(S)
             told == BatchTold(job, S, "Failed")
             jobs == Without(told, gone)
  <2>1. /\ epoch' = epoch + 1 /\ born' = born /\ queue' = queue \ gone
        /\ job' = Checked(jobs, epoch + 1) /\ seenEpoch' = epoch + 1
    BY <1>7 DEF EncodeStall, EncodeReboot
  <2>2. jobs \in Jobs
    BY <1>1, BatchToldType, WithoutType
  <2>3. \A k \in Ids : Lease(told[k]) = Lease(job[k])
    BY <1>1, BatchToldLease
  <2> HIDE DEF gone, told
  <2>4. \A k \in queue' : k \in queue /\ Lease(jobs[k]) = Lease(job[k])
    BY <1>1, <2>1, <2>3, WithoutKeeps
  <2> HIDE DEF jobs
  <2> QED
    BY <1>4, <2>1, <2>2, <2>4, LeasesKept
<1> QED
  BY <1>2, <1>3, <1>5, <1>6, <1>7 DEF ClockStep

\* What is heard of one job leaves the encoder the others.
LEMMA HeardOfOne ==
  ASSUME LayersTypeOK, NEW l \in Layers, ret[l] # <<>>, Received(l), UNCHANGED <<inbox, cur>>
  PROVE  \A k : k # Head(ret[l]).id /\ With("Encode", k) => With("Encode", k)'
<1> DEFINE m == Head(ret[l])
<1>1. CASE l # "Encode"
  <2>1. ret'["Encode"] = ret["Encode"]
    BY <1>1 DEF Received, LayersTypeOK, Layers
  <2> QED
    BY <2>1, EncoderStill
<1>2. CASE l = "Encode"
  <2>1. ret'["Encode"] = Tail(ret["Encode"]) /\ ret["Encode"] \in Seq(Message) /\ ret["Encode"] # <<>>
    BY <1>2 DEF Received, LayersTypeOK
  <2>2. \A k : k # m.id /\ Told("Encode", k) => Told("Encode", k)'
    <3> SUFFICES ASSUME NEW k, k # m.id, Told("Encode", k) PROVE Told("Encode", k)'
      OBVIOUS
    <3>1. PICK a \in DOMAIN ret["Encode"] : ret["Encode"][a].id = k
      BY DEF Told, Said
    <3>2. a # 1
      BY <1>2, <2>1, <3>1
    <3>3. a - 1 \in DOMAIN Tail(ret["Encode"]) /\ Tail(ret["Encode"])[a - 1] = ret["Encode"][a]
      BY <2>1, <3>1, <3>2
    <3> QED
      BY <2>1, <3>1, <3>3 DEF Told, Said
  <2>3. \A k : Holds("Encode", k) => Holds("Encode", k)'
    BY DEF Holds, Inboxed
  <2> QED
    BY <2>2, <2>3 DEF With
<1> QED
  BY <1>1, <1>2

\* A stage ends the lease of the job it is about, or announces it; followers have
\* no lease.
LEMMA StageLeases ==
  ASSUME Typed, Typed', LeasesInv, NEW m \in Message, HandleStage(m),
         NEW l \in Layers, Says(l, m), Fits(l, m.id), epoch' = epoch,
         \A k : k # m.id /\ With("Encode", k) => With("Encode", k)'
  PROVE  LeasesInv'
<1> DEFINE i == m.id
           s == m.stage
           gone == (IF s \in Terminal THEN {i} \cup ForwardedTo({i}) ELSE {}) \cup ProbeLeft(i, s)
           staged == [job EXCEPT ![i] = Staged(@, s)]
           told == BatchTold(staged, {i}, s)
           synced == Synced(told, i, s, job[i].worker)
<1>1. /\ i \in queue /\ i \in Ids /\ m.kind = "stage" /\ s \in Stages
      /\ job \in Jobs /\ job' \in Jobs /\ queue \subseteq Ids /\ epoch \in Nat /\ 0 \notin Ids
  <2>1. i \in queue /\ m.kind = "stage"
    BY DEF HandleStage
  <2>2. i \in Ids /\ s \in Stages
    BY DEF Message
  <2>3. job \in Jobs /\ queue \subseteq Ids /\ epoch \in Nat
    BY DEF Typed, TypeOK, LayersTypeOK, Jobs
  <2>4. job' \in Jobs
    BY DEF Typed, TypeOK, Jobs
  <2>5. 0 \notin Ids
    BY PnJobsAssumption DEF Ids
  <2> QED
    BY <2>1, <2>2, <2>3, <2>4, <2>5
<1>2. /\ queue' = queue \ gone /\ job' = Without(synced, gone) /\ UNCHANGED <<seenEpoch, born>>
  BY DEF HandleStage
<1>3. s # "Queued"
  BY <1>1 DEF Says, StagesOf
<1>4. staged \in Jobs /\ staged[i] = Staged(job[i], s) /\ \A k \in Ids \ {i} : staged[k] = job[k]
  <2>1. job[i] \in Job
    BY <1>1 DEF Jobs
  <2>2. Staged(job[i], s) \in Job
    BY <1>1, <2>1 DEF Staged, Job
  <2> QED
    BY <1>1, <2>2 DEF Jobs
<1>5. told \in Jobs /\ \A k \in Ids : Lease(told[k]) = Lease(staged[k])
  <2>1. staged \in Jobs /\ {i} \in SUBSET Ids
    BY <1>1, <1>4
  <2> HIDE DEF staged, i, s
  <2> QED
    BY <2>1, BatchToldLease, BatchToldType
<1>6. \A k \in Ids :
        /\ k \notin ForwardedTo({i}) => synced[k] = told[k]
        /\ k \in ForwardedTo({i}) =>
             synced[k] = [told[k] EXCEPT !.ready = s, !.worker = ForwardedWorker(job[i].worker)]
  BY DEF Synced
<1> HIDE DEF gone, told, synced
<1>7. \A k \in queue' : k \in queue /\ k \in Ids /\ job'[k] = synced[k]
  BY <1>1, <1>2, WithoutKeeps
\* only a download is said to be downloaded, and a probe is none
<1>9. \A j : Type(i) = "Probe" /\ j.ready = s /\ j.fwd = job[i].fwd => Apart(j)
  <2>1. Sane(i)
    BY <1>1 DEF LeasesInv
  <2>2. l = "Download" => job[i].ready = "Downloading"
    BY DEF Fits
  <2>3. l # "Download" => s \notin {"Queued", "Downloading", "Downloaded"}
    BY <1>1 DEF Says, StagesOf
  <2> QED
    BY <2>1, <2>2, <2>3 DEF Sane, Apart
<1>8. ASSUME NEW k \in queue' PROVE Goes(k, job'[k])
  <2>1. k \in queue /\ k \in Ids /\ job'[k] = synced[k] /\ born'[k] = born[k] /\ Sane(k) /\ Held(k)
    BY <1>2, <1>7, <1>8 DEF LeasesInv
  <2>2. /\ job[k].epoch \in Nat /\ told[k] \in Job /\ job[k] \in Job
    BY <1>1, <1>5, <2>1 DEF Jobs, Job
  <2>3. CASE k \in ForwardedTo({i})
    <3>1. job[k].fwd # 0 /\ ~job[k].dispatched
      BY <1>1, <2>1, <2>3 DEF ForwardedTo, Sane
    <3>2. staged[k].dispatched = FALSE /\ staged[k].epoch = job[k].epoch
      <4>1. CASE k # i
        BY <1>4, <2>1, <2>2, <3>1, <4>1 DEF Job
      <4>2. CASE k = i
        BY <1>4, <2>2, <3>1, <4>2 DEF Staged, Job
      <4> QED
        BY <4>1, <4>2
    <3> HIDE DEF staged, i, s
    <3>3. told[k].dispatched = FALSE /\ told[k].epoch = job[k].epoch
      BY <1>5, <2>1, <3>2 DEF Lease
    <3>4. job'[k] = [told[k] EXCEPT !.ready = s, !.worker = ForwardedWorker(job[i].worker)]
      BY <1>6, <2>1, <2>3
    <3>5. job'[k].dispatched = FALSE /\ job'[k].epoch = job[k].epoch /\ job'[k].ready = s
      BY <2>2, <3>3, <3>4 DEF Job
    <3> QED
      BY <1>3, <2>1, <3>1, <3>5 DEF Goes, Free, Apart, Held, Sane, Type
  <2>4. CASE k \notin ForwardedTo({i}) /\ k # i
    <3>1. Lease(job'[k]) = Lease(job[k])
      BY <1>4, <1>5, <1>6, <2>1, <2>4
    <3> QED
      BY <2>1, <2>4, <3>1 DEF Goes
  <2>5. CASE k \notin ForwardedTo({i}) /\ k = i
    <3>1. Lease(job'[k]) = Lease(Staged(job[k], s))
      <4>1. staged[k] = Staged(job[k], s)
        BY <1>4, <2>5
      <4> HIDE DEF staged, i, s
      <4>2. synced[k] = told[k] /\ Lease(told[k]) = Lease(staged[k])
        BY <1>5, <1>6, <2>1, <2>5
      <4> QED
        BY <2>1, <4>1, <4>2
    <3>2. /\ job'[k].ready = s /\ job'[k].fwd = job[k].fwd /\ job'[k].epoch = job[k].epoch
          /\ job'[k].dispatched = (s = "Encoding" /\ job[k].dispatched)
      BY <2>2, <3>1 DEF Lease, Staged, Job
    <3> HIDE DEF staged, i, s
    <3>3. Type(k)' = Type(k)
      BY <2>1 DEF Type
    <3> QED
      BY <1>3, <1>9, <2>1, <2>5, <3>2, <3>3 DEF Goes, Free, Announced, Sane, Held
  <2> QED
    BY <2>3, <2>4, <2>5
<1> QED
  BY <1>1, <1>2, <1>8, LeasesKept

\* A new child has nothing lent.
LEMMA FileDoneLeases ==
  ASSUME Typed, Typed', RowsInv, LeasesInv, NEW m \in Message, HandleFileDone(m),
         UNCHANGED <<inbox, cur, epoch>>, ret'["Encode"] = ret["Encode"]
  PROVE  LeasesInv'
<1> DEFINE p == m.id
           f == m.file
           child == [NewJob EXCEPT !.ready = "Downloaded", !.worker = "enc-pending"]
<1>1. /\ p \in Ids /\ job \in Jobs /\ queue \subseteq Ids /\ epoch \in Nat
  BY DEF Typed, TypeOK, LayersTypeOK, Message, Jobs
<1>2. ASSUME NEW j \in Job, Lease(j) = Lease(job[p]), UNCHANGED <<queue, born>>,
             BackToTop([job EXCEPT ![p] = j])
      PROVE  LeasesInv'
  <2> DEFINE jobs == [job EXCEPT ![p] = j]
  <2>1. jobs \in Jobs /\ BackToTop(jobs) /\ \A k \in Ids : Lease(jobs[k]) = Lease(job[k])
    BY <1>1, <1>2 DEF Jobs
  <2> HIDE DEF jobs
  <2> QED
    BY <1>1, <1>2, <2>1, QuietLeases DEF BackToTop
<1>3. CASE BackToTop(job) /\ UNCHANGED <<queue, born>>
  BY <1>1, <1>3, QuietLeases DEF BackToTop
<1>4. CASE BackToTop([job EXCEPT ![p].failed = @ + 1]) /\ UNCHANGED <<queue, born>>
  <2> DEFINE j == [job[p] EXCEPT !.failed = @ + 1]
  <2>1. job[p] \in Job
    BY <1>1 DEF Jobs
  <2>2. j \in Job /\ Lease(j) = Lease(job[p])
    BY <2>1 DEF Job, Lease
  <2>3. BackToTop([job EXCEPT ![p] = j])
    BY <1>4
  <2> HIDE DEF j
  <2> QED
    BY <1>2, <1>4, <2>2, <2>3
<1>5. CASE /\ nextId \in Ids
           /\ born' = [born EXCEPT ![nextId] = [name |-> born[p].name, parent |-> p, idx |-> f]]
           /\ queue' = queue \cup {nextId}
           /\ BackToTop([job EXCEPT ![p].kid[f] = nextId, ![nextId] = child])
  <2> DEFINE jobs == [job EXCEPT ![p].kid[f] = nextId, ![nextId] = child]
             j == [job[p] EXCEPT !.kid[f] = nextId]
  <2>1. job[p] \in Job /\ nextId \in Ids0
    BY <1>1, <1>5, PnJobsAssumption DEF Jobs, Ids, Ids0
  <2>2. j \in Job /\ Lease(j) = Lease(job[p])
    BY <2>1 DEF Job, Lease
  <2>3. child \in Job /\ ~child.dispatched /\ child.epoch = 0 /\ child.ready = "Downloaded"
    BY NewJobType DEF Job, NewJob, Stages, Workers
  <2>11. PICK c \in Ids : c = nextId
    BY <1>5
  <2>10. Type(c)' = "Pancode"
    <3>1. born \in [Ids -> Birth]
      BY <1>1 DEF Typed, TypeOK, LayersTypeOK
    <3>2. born'[c] = [name |-> born[p].name, parent |-> p, idx |-> f]
      BY <1>5, <2>11, <3>1
    <3>3. born'[c].parent = p
      BY <3>2
    <3>4. p # 0
      BY <1>1, PnJobsAssumption DEF Ids
    <3> QED
      BY <3>3, <3>4 DEF Type, TypeOf
  <2>4. Free(c, child)
    BY <1>1, <2>3, <2>10 DEF Free
  <2>5. jobs = [job EXCEPT ![p] = j, ![c] = child]
    BY <2>11
  <2> HIDE DEF j, child
  <2>6. /\ jobs \in Jobs /\ jobs[c] = child
        /\ \A k \in Ids : k # c => Lease(jobs[k]) = Lease(job[k])
    BY <1>1, <1>5, <2>2, <2>3, <2>5, <2>11 DEF Jobs
  <2>7. job' = Checked(jobs, epoch) /\ seenEpoch' = epoch
    BY <1>5 DEF BackToTop
  <2>8. \A k \in Ids : k # c => born'[k] = born[k]
    BY <1>5, <2>11 DEF Typed, TypeOK, LayersTypeOK
  <2> HIDE DEF jobs
  <2>9. \A k \in queue' : \/ k \in queue /\ born'[k] = born[k] /\ Lease(jobs[k]) = Lease(job[k])
                          \/ Free(k, jobs[k])
    BY <1>1, <1>5, <2>4, <2>6, <2>8, <2>11
  <2> QED
    BY <2>6, <2>7, <2>9, QuietLeases
<1> QED
  BY <1>3, <1>4, <1>5 DEF HandleFileDone

\* Whatever the loop hears: the encoder says nothing but stages.
LEMMA MessageLeases ==
  ASSUME Typed, Typed', RowsInv, PlacesInv, Speaks, LeasesInv, Receive \/ NoMessage
  PROVE  LeasesInv'
<1>1. LayersTypeOK /\ job \in Jobs /\ queue \subseteq Ids /\ Places
  BY DEF Typed, TypeOK, Jobs, PlacesInv
<1>2. CASE NoMessage
  <2>1. UNCHANGED <<inbox, cur, ret, epoch, born, queue, job, seenEpoch>>
    BY <1>2 DEF NoMessage, layerVars
  <2> QED
    BY <2>1, LeaveLeases
<1>3. CASE Receive
  <2>1. PICK l \in Layers :
          /\ ret[l] # <<>> /\ Received(l)
          /\ LET m == Head(ret[l]) IN
               \/ HandleStale(m) \/ HandleAssign(l, m) \/ HandleFileDone(m)
               \/ HandleDuplicate(m) \/ HandleStage(m)
    BY <1>3 DEF Receive
  <2>2. PICK m : m = Head(ret[l])
    OBVIOUS
  <2>3. \/ HandleStale(m) \/ HandleAssign(l, m) \/ HandleFileDone(m)
        \/ HandleDuplicate(m) \/ HandleStage(m)
    BY <2>1, <2>2
  <2>4. UNCHANGED <<pend, run, inbox, cur, epoch>>
    BY <1>3 DEF Receive, poolVars, encVars
  <2>5. m \in Message /\ m.id \in Ids /\ Told(l, m.id)
    BY <1>1, <2>1, <2>2, <2>4, Heard
  <2>6. Says(l, m) /\ With(l, m.id)
    BY <1>1, <2>1, <2>2, <2>5, SaidFirst DEF With
  <2>7. \A k : k # m.id /\ With("Encode", k) => With("Encode", k)'
    BY <1>1, <2>1, <2>2, <2>4, HeardOfOne
  <2>8. l # "Encode" => ret'["Encode"] = ret["Encode"]
    BY <1>1, <2>1 DEF Received, LayersTypeOK, Layers
  <2>9. CASE HandleStale(m)
    <3>1. UNCHANGED <<born, queue, job, seenEpoch>> /\ m.id \notin queue
      BY <2>9 DEF HandleStale
    <3>2. \A k \in queue' : Goes(k, job[k])
      BY <2>7, <3>1 DEF Goes
    <3>3. epoch <= epoch'
      BY <1>1, <2>4 DEF LayersTypeOK
    <3> QED
      BY <1>1, <3>1, <3>2, <3>3, LeasesKept
  <2>10. CASE HandleAssign(l, m)
    <3> DEFINE label(c) == IF c = m.id THEN [job[c] EXCEPT !.worker = SlotOf(l)]
                           ELSE IF c \in ForwardedTo({m.id})
                                THEN [job[c] EXCEPT !.worker = ForwardedWorker(SlotOf(l))]
                                ELSE job[c]
               jobs == [c \in Ids |-> label(c)]
    <3>1. BackToTop(jobs) /\ UNCHANGED <<born, queue>> /\ l # "Encode"
      BY <2>6, <2>10 DEF HandleAssign, Says
    <3>2. SlotOf(l) \in Workers
      BY DEF SlotOf, Workers
    <3>3. ASSUME NEW c \in Ids PROVE label(c) \in Job /\ Lease(label(c)) = Lease(job[c])
      <4>1. job[c] \in Job
        BY <1>1 DEF Jobs
      <4>2. \A w \in Workers : /\ [job[c] EXCEPT !.worker = w] \in Job
                               /\ Lease([job[c] EXCEPT !.worker = w]) = Lease(job[c])
        BY <4>1 DEF Job, Lease
      <4> QED
        BY <3>2, <4>1, <4>2, ForwardedWorkerType
    <3> HIDE DEF label
    <3>4. jobs \in Jobs /\ \A k \in Ids : Lease(jobs[k]) = Lease(job[k])
      BY <3>3 DEF Jobs
    <3> HIDE DEF jobs
    <3> QED
      BY <1>1, <2>4, <2>8, <3>1, <3>4, QuietLeases DEF BackToTop
  <2>11. CASE HandleDuplicate(m)
    <3> DEFINE jobs == [job EXCEPT ![m.id].dup = m.owner]
    <3>1. /\ BackToTop(jobs) /\ UNCHANGED <<born, queue>>
          /\ m.kind = "duplicate" /\ m.id \in queue
      BY <2>11 DEF HandleDuplicate
    <3>2. l = "Download"
      BY <2>6, <3>1 DEF Says
    <3>3. job[m.id].ready = "Downloading"
      BY <2>6, <3>1, <3>2 DEF PlacesInv, Served, Fits
    <3>4. job[m.id] \in Job /\ m.owner \in Ids0
      BY <1>1, <2>5 DEF Jobs, Message
    <3> DEFINE j == [job[m.id] EXCEPT !.dup = m.owner]
    <3>5. j \in Job /\ j.ready = "Downloading" /\ j.dispatched = job[m.id].dispatched
          /\ j.epoch = job[m.id].epoch
      BY <3>3, <3>4 DEF Job
    <3>6. Free(m.id, j)
      BY <3>1, <3>3, <3>5 DEF Free, LeasesInv, Sane, Apart, Held, Type
    <3>7. jobs \in Jobs /\ jobs[m.id] = j /\ \A k \in Ids : k # m.id => jobs[k] = job[k]
      BY <1>1, <2>5, <3>5 DEF Jobs
    <3> HIDE DEF jobs, j
    <3>8. \A k \in queue' : \/ k \in queue /\ born'[k] = born[k] /\ Lease(jobs[k]) = Lease(job[k])
                            \/ Free(k, jobs[k])
      BY <1>1, <3>1, <3>6, <3>7
    <3> QED
      BY <2>4, <2>8, <3>1, <3>2, <3>7, <3>8, QuietLeases DEF BackToTop
  <2>12. CASE HandleFileDone(m)
    <3>1. l = "Download"
      BY <2>6, <2>12 DEF Says, HandleFileDone
    <3> QED
      BY <2>4, <2>5, <2>8, <2>12, <3>1, FileDoneLeases
  <2>13. CASE HandleStage(m)
    <3>1. Fits(l, m.id)
      BY <2>6, <2>13 DEF HandleStage, PlacesInv, Served
    <3> QED
      BY <2>4, <2>5, <2>6, <2>7, <2>13, <3>1, StageLeases
  <2> QED
    BY <2>3, <2>9, <2>10, <2>11, <2>12, <2>13
<1> QED
  BY <1>2, <1>3

-----------------------------------------------------------------------------
(* The walks *)

\* One job is visited; the others keep what they are lent.
LEMMA VisitLeases ==
  ASSUME Typed, Typed', LeasesInv, NEW i \in queue, UNCHANGED <<queue, born, seenEpoch>>,
         epoch <= epoch', \A k \in Ids \ {i} : job'[k] = job[k],
         \A k : With("Encode", k) => With("Encode", k)' \/ epoch < epoch',
         Goes(i, job'[i])
  PROVE  LeasesInv'
<1>1. queue' \subseteq Ids /\ job' \in Jobs
  BY DEF Typed, TypeOK, Jobs
<1>2. \A k \in queue' : Goes(k, job'[k])
  BY <1>1 DEF Goes
<1> QED
  BY <1>1, <1>2, LeasesKept

\* What waits for an input or a download is not lent.
LEMMA WaitWalkLeases ==
  ASSUME Typed, Typed', RowsInv, PlacesInv, LeasesInv, NEW i \in Ids, DupStep(i) \/ WaitStep(i)
  PROVE  LeasesInv'
<1>1. /\ i \in pass.todo /\ pc \in {"dup", "wait"} /\ UNCHANGED <<queue, born, seenEpoch>>
      /\ UNCHANGED <<inbox, cur, ret, epoch>>
  BY DEF DupStep, WaitStep, At, encVars
<1>2. i \in queue /\ job \in [Ids -> Job] /\ epoch \in Nat
  BY <1>1 DEF RowsInv, WalkVisitsLiving, Typed, TypeOK, LayersTypeOK
<1>3. epoch <= epoch' /\ \A k : With("Encode", k) => With("Encode", k)'
  BY <1>1, <1>2, EncoderStill
<1>4. job[i] \in Job /\ Sane(i) /\ Held(i)
  BY <1>2 DEF LeasesInv
<1>5. CASE DupStep(i)
  <2>1. job[i].ready = "Downloading" /\ ~job[i].dispatched
    <3>1. pc = "dup"
      BY <1>5 DEF DupStep, At
    <3> QED
      BY <1>1, <1>4, <3>1 DEF PlacesInv, WalksHold, Sane
  <2>2. \A k \in Ids \ {i} : job'[k] = job[k]
    BY <1>2, <1>5 DEF DupStep
  <2>3. \/ job'[i] = job[i]
        \/ job'[i] = [job[i] EXCEPT !.ready = "Downloaded", !.worker = "dwl-cache"]
        \/ job'[i] = Requeued(job[i])
        \/ job'[i] = [job[i] EXCEPT !.ready = "Downloaded", !.dup = 0]
    BY <1>2, <1>5 DEF DupStep
  <2>4. /\ job'[i].dispatched = job[i].dispatched /\ job'[i].epoch = job[i].epoch
        /\ job'[i].ready = "Queued" => job'[i].dup = 0
    BY <1>4, <2>1, <2>3 DEF Job, Requeued
  <2>5. Goes(i, job'[i])
    BY <1>1, <1>4, <2>1, <2>4 DEF Goes, Free, Apart, Held, Sane, Type
  <2> QED
    BY <1>1, <1>2, <1>3, <2>2, <2>5, VisitLeases
<1>6. CASE WaitStep(i)
  <2>1. job[i].ready = "Queued" /\ Type(i) \in RequeueTypes /\ ~job[i].dispatched /\ job[i].dup = 0
    <3>1. pc = "wait"
      BY <1>6 DEF WaitStep, At
    <3> QED
      BY <1>1, <1>4, <3>1 DEF PlacesInv, WalksHold, Sane, RequeueTypes
  <2>2. \A k \in Ids \ {i} : job'[k] = job[k]
    BY <1>2, <1>6 DEF WaitStep
  <2>3. job'[i] = job[i] \/ job'[i] = Routed(i, job[i])
    BY <1>2, <1>6 DEF WaitStep
  <2>4. /\ job'[i].dispatched = job[i].dispatched /\ job'[i].epoch = job[i].epoch
        /\ job'[i].ready = "Queued" => job'[i].dup = 0
    BY <1>4, <2>1, <2>3 DEF Job, Routed
  <2>5. Goes(i, job'[i])
    BY <1>1, <1>4, <2>1, <2>4 DEF Goes, Free, Held, RequeueTypes, Type
  <2> QED
    BY <1>1, <1>2, <1>3, <2>2, <2>5, VisitLeases
<1> QED
  BY <1>5, <1>6

\* Only what is not lent is handed on, and what is sent to the encoder is lent in
\* the epoch it was sent in.
LEMMA ProgressLeases ==
  ASSUME Typed, Typed', RowsInv, LeasesInv, NEW i \in Ids, ProgressStep(i)
  PROVE  LeasesInv'
<1>1. i \in pass.todo /\ pc = "progress" /\ UNCHANGED <<queue, born, seenEpoch>>
  BY DEF ProgressStep, ProgressSkip, Skip, KeycodeWait, KeycodeFail, KeycodeDispatch,
         DispatchProbeLayer, DispatchUpload, FinishKeep, EncodeForward, EncodeWaitsForInput,
         EncodeHeldBack, EncodeDispatch, DispatchKilled, EncodeReady, Encodable, Progressing,
         At, Steady, layerVars
<1>2. i \in queue /\ job \in [Ids -> Job] /\ epoch \in Nat /\ LayersTypeOK
  BY <1>1 DEF RowsInv, WalkVisitsLiving, Typed, TypeOK, LayersTypeOK
<1>3. job[i] \in Job /\ Sane(i) /\ Held(i) /\ Type(i)' = Type(i)
  BY <1>1, <1>2 DEF LeasesInv, Type
\* without the encoder
<1>4. ASSUME UNCHANGED <<inbox, cur, ret, epoch>>, \A k \in Ids \ {i} : job'[k] = job[k],
             Lease(job'[i]) = Lease(job[i]) \/ Free(i, job'[i])
      PROVE  LeasesInv'
  <2>1. epoch <= epoch' /\ \A k : With("Encode", k) => With("Encode", k)'
    BY <1>2, <1>4, EncoderStill
  <2>2. Goes(i, job'[i])
    BY <1>1, <1>2, <1>4, <2>1 DEF Goes
  <2> QED
    BY <1>1, <1>2, <1>4, <2>1, <2>2, VisitLeases
\* with it
<1>5. ASSUME EncodeSend(i), Progressing(i),
             job' = [job EXCEPT ![i] = Dispatched([@ EXCEPT !.worker = "enc-main"], epoch')],
             \/ job[i].ready = "Downloaded" /\ Encodes(Type(i))
             \/ job[i].ready = "Queued" /\ Type(i) = "Keycode"
      PROVE  LeasesInv'
  <2>1. /\ \A k \in Ids \ {i} : job'[k] = job[k]
        /\ job'[i] = Dispatched([job[i] EXCEPT !.worker = "enc-main"], epoch')
    BY <1>2, <1>5
  <2> DEFINE named == [job[i] EXCEPT !.worker = "enc-main"]
  <2>11. job[i].fwd = 0
    BY <1>5 DEF Progressing
  <2>12. /\ named.fwd = 0 /\ named.ready = job[i].ready /\ named.dup = job[i].dup
        /\ DOMAIN named = DOMAIN job[i]
    BY <1>3, <2>11 DEF Job
  <2>2. /\ job'[i].dispatched /\ job'[i].epoch = epoch' /\ job'[i].fwd = 0
        /\ job'[i].ready = job[i].ready /\ job'[i].dup = job[i].dup
    BY <1>3, <2>1, <2>12 DEF Dispatched, Job
  <2>3. /\ epoch <= epoch' /\ With("Encode", i)'
        /\ \A k : With("Encode", k) => With("Encode", k)' \/ epoch < epoch'
    BY <1>2, <1>5, SendKeeps
  <2>4. Goes(i, job'[i])
    BY <1>3, <1>5, <2>2, <2>3 DEF Goes, Lent, Sane, Encodes
  <2> QED
    BY <1>1, <1>2, <2>1, <2>3, <2>4, VisitLeases
<1>6. CASE ProgressSkip(i) \/ EncodeHeldBack(i) \/ DispatchKilled(i)
  <2>1. UNCHANGED <<inbox, cur, ret, epoch, job>>
    BY <1>6 DEF ProgressSkip, EncodeHeldBack, DispatchKilled, Skip, layerVars, encVars
  <2> QED
    BY <1>4, <2>1
<1>7. CASE KeycodeWait(i)
  <2>1. UNCHANGED <<inbox, cur, ret, epoch>> /\ job' = [job EXCEPT ![i].worker = "key-wait"]
    BY <1>7 DEF KeycodeWait, encVars
  <2>2. /\ \A k \in Ids \ {i} : job'[k] = job[k]
        /\ job'[i] = [job[i] EXCEPT !.worker = "key-wait"]
    BY <1>2, <2>1
  <2>3. Lease(job'[i]) = Lease(job[i])
    BY <1>3, <2>2 DEF Job, Lease
  <2> QED
    BY <1>4, <2>1, <2>2, <2>3
<1>8. CASE KeycodeFail(i)
  <2>1. UNCHANGED <<inbox, cur, ret, epoch>> /\ KeycodeWaits(i)
    BY <1>8 DEF KeycodeFail, encVars
  <2>2. /\ \A k \in Ids \ {i} : job'[k] = job[k]
        /\ \/ job'[i] = [job[i] EXCEPT !.ready = "Failed", !.worker = "key-fail"]
           \/ job'[i] = [job[i] EXCEPT !.worker = "enc-main"]
    BY <1>2, <1>8 DEF KeycodeFail
  <2>3. ~job'[i].dispatched /\ job'[i].epoch = job[i].epoch /\ job'[i].dup = job[i].dup
    BY <1>3, <2>1, <2>2 DEF Job, KeycodeWaits
  <2>4. Free(i, job'[i])
    BY <1>3, <2>1, <2>3 DEF Free, Held, Sane, KeycodeWaits
  <2> QED
    BY <1>4, <2>1, <2>2, <2>4
\* the stage changes, and nothing was lent
<1>9. ASSUME UNCHANGED <<inbox, cur, ret, epoch>>, \A k \in Ids \ {i} : job'[k] = job[k],
             ~job[i].dispatched, job'[i].dispatched = job[i].dispatched,
             job'[i].epoch = job[i].epoch, job'[i].ready # "Queued" \/ job'[i].dup = 0,
             \/ job[i].ready = "Downloaded"
             \/ job'[i].fwd = job[i].fwd /\ job'[i].ready \in {"Encoding", "Uploading", "Uploaded", "Failed"}
      PROVE  LeasesInv'
  <2>1. Free(i, job'[i])
    BY <1>3, <1>9 DEF Free, Apart, Sane, Held
  <2> QED
    BY <1>4, <1>9, <2>1
<1>10. CASE FinishKeep(i)
  <2>1. UNCHANGED <<inbox, cur, ret, epoch>> /\ KeepDone(i)
    BY <1>10 DEF FinishKeep, encVars
  <2>2. /\ \A k \in Ids \ {i} : job'[k] = job[k]
        /\ \/ job'[i] = [job[i] EXCEPT !.ready = "Uploaded", !.worker = "keep-done"]
           \/ job'[i] = [job[i] EXCEPT !.ready = "Failed"]
    BY <1>2, <1>10 DEF FinishKeep
  <2>3. /\ job'[i].dispatched = job[i].dispatched /\ job'[i].epoch = job[i].epoch
        /\ job'[i].ready # "Queued"
    BY <1>3, <2>2 DEF Job
  <2>4. ~job[i].dispatched
    BY <1>3, <2>1 DEF KeepDone, Sane, Encodes
  <2>5. job'[i].fwd = job[i].fwd /\ job'[i].ready \in {"Uploaded", "Failed"}
    BY <1>3, <2>2 DEF Job
  <2> QED
    BY <1>9, <2>1, <2>2, <2>3, <2>4, <2>5
<1>11. CASE EncodeForward(i)
  <2>1. UNCHANGED <<inbox, cur, ret, epoch>> /\ ~job[i].dispatched /\ job[i].ready = "Downloaded"
    BY <1>11 DEF EncodeForward, encVars, Encodable, InEncodeBranch
  <2>2. /\ \A k \in Ids \ {i} : job'[k] = job[k]
        /\ job'[i] = Forwarded(job[i], ForwardTarget(i))
    BY <1>2, <1>11 DEF EncodeForward
  <2>3. /\ job'[i].dispatched = job[i].dispatched /\ job'[i].epoch = job[i].epoch
        /\ job'[i].dup = 0
    BY <1>3, <2>2 DEF Job, Forwarded
  <2> QED
    BY <1>9, <2>1, <2>2, <2>3
<1>12. CASE EncodeWaitsForInput(i)
  <2>1. UNCHANGED <<inbox, cur, ret, epoch>> /\ ~job[i].dispatched /\ job[i].ready = "Downloaded"
    BY <1>12 DEF EncodeWaitsForInput, encVars, Encodable, InEncodeBranch
  <2>2. /\ \A k \in Ids \ {i} : job'[k] = job[k]
        /\ job'[i] = [job[i] EXCEPT !.dup = SourceTarget(i), !.ready = "Downloading",
                                    !.worker = "dwl-cache"]
    BY <1>2, <1>12 DEF EncodeWaitsForInput
  <2>3. /\ job'[i].dispatched = job[i].dispatched /\ job'[i].epoch = job[i].epoch
        /\ job'[i].ready # "Queued"
    BY <1>3, <2>2 DEF Job
  <2> QED
    BY <1>9, <2>1, <2>2, <2>3
<1>13. ASSUME NEW p, NEW s \in {"Encoding", "Uploading"}, NEW w, PoolDispatch(i, p, s, w),
              ToProbeLayer(i) \/ ToUpload(i), UNCHANGED <<inbox, cur, ret, epoch>>
       PROVE  LeasesInv'
  <2>1. /\ \A k \in Ids \ {i} : job'[k] = job[k]
        /\ job'[i] = [job[i] EXCEPT !.ready = s, !.worker = w]
    BY <1>2, <1>13 DEF PoolDispatch
  <2>2. /\ job'[i].dispatched = job[i].dispatched /\ job'[i].epoch = job[i].epoch
        /\ job'[i].fwd = job[i].fwd /\ job'[i].ready = s
    BY <1>3, <2>1 DEF Job
  <2>3. ~job[i].dispatched
    BY <1>3, <1>13 DEF ToProbeLayer, ToUpload, Sane, Encodes
  <2> QED
    BY <1>9, <1>13, <2>1, <2>2, <2>3
<1>14. CASE DispatchProbeLayer(i) \/ DispatchUpload(i)
  BY <1>13, <1>14 DEF DispatchProbeLayer, DispatchUpload, encVars
<1>15. CASE KeycodeDispatch(i)
  BY <1>5, <1>15 DEF KeycodeDispatch, KeycodeWaits
<1>16. CASE EncodeDispatch(i)
  BY <1>3, <1>5, <1>16 DEF EncodeDispatch, EncodeReady, Encodable, InEncodeBranch, Encodes, Sane, Apart
<1> QED
  BY <1>6, <1>7, <1>8, <1>10, <1>11, <1>12, <1>14, <1>15, <1>16 DEF ProgressStep

-----------------------------------------------------------------------------
(* The ends of the walks, the layers and the invariant *)

\* At the end of a walk nothing is lent: what leaves takes its record along, and a
\* follower that is brought along was never dispatched.
LEMMA WalkEndsLeases ==
  ASSUME Typed, Typed', LeasesInv, DupEnd \/ WaitEnd \/ ProgressEnd \/ BatchParents
  PROVE  LeasesInv'
<1>1. /\ job \in Jobs /\ job' \in Jobs /\ queue \subseteq Ids /\ epoch \in Nat
      /\ UNCHANGED <<born, inbox, cur, epoch, ret>>
  <2>1. job \in Jobs /\ job' \in Jobs /\ queue \subseteq Ids /\ epoch \in Nat
    BY DEF Typed, TypeOK, LayersTypeOK, Jobs
  <2>2. CASE DupEnd \/ WaitEnd \/ ProgressEnd
    <3>1. UNCHANGED layerVars
      BY <2>2 DEF DupEnd, WaitEnd, ProgressEnd
    <3> QED
      BY <2>1, <3>1 DEF layerVars
  <2>3. CASE BatchParents
    BY <2>1, <2>3 DEF BatchParents, encVars
  <2> QED
    BY <2>2, <2>3
<1>2. CASE DupEnd
  BY <1>1, <1>2, LeaveLeases DEF DupEnd
<1>3. CASE WaitEnd
  <2> DEFINE jobs == Without(job, pass.dead)
  <2>1. queue' = queue \ pass.dead /\ job' = Checked(jobs, epoch) /\ seenEpoch' = epoch
    BY <1>3 DEF WaitEnd
  <2>2. jobs \in Jobs /\ \A k \in queue' : k \in queue /\ jobs[k] = job[k]
    BY <1>1, <2>1, WithoutType, WithoutKeeps
  <2> HIDE DEF jobs
  <2> QED
    BY <1>1, <2>1, <2>2, QuietLeases DEF Lease
<1>4. CASE ProgressEnd
  <2> DEFINE followers == ForwardedTo(pass.uploads)
             synced == [c \in Ids |-> IF c \in followers
                                  THEN [job[c] EXCEPT !.ready = "Uploading", !.worker = "upl-forward"]
                                  ELSE job[c]]
  <2>1. queue' = queue \ pass.dead /\ job' = Without(synced, pass.dead) /\ seenEpoch' = seenEpoch
    BY <1>4 DEF ProgressEnd
  <2>2. pass.uploads \subseteq Ids /\ 0 \notin Ids
    BY PnJobsAssumption DEF Typed, TypeOK, Pass, Ids
  <2>3. ASSUME NEW k \in queue
        PROVE  synced[k] = job[k] \/ Free(k, synced[k])
    <3>1. k \in Ids /\ job[k] \in Job /\ Sane(k) /\ Held(k)
      BY <1>1 DEF LeasesInv, Jobs
    <3>2. CASE k \in followers
      <4>1. synced[k] = [job[k] EXCEPT !.ready = "Uploading", !.worker = "upl-forward"]
        BY <3>1, <3>2
      <4>2. ~job[k].dispatched /\ Type(k)' # "Probe"
        BY <1>1, <2>2, <3>1, <3>2 DEF ForwardedTo, Sane, Apart, Type
      <4>3. /\ synced[k].dispatched = job[k].dispatched /\ synced[k].epoch = job[k].epoch
            /\ synced[k].ready = "Uploading"
        BY <3>1, <4>1 DEF Job
      <4> HIDE DEF synced
      <4> QED
        BY <3>1, <4>2, <4>3 DEF Free, Held
    <3> QED
      BY <3>1, <3>2
  <2> HIDE DEF followers, synced
  <2>4. \A k \in queue' : k \in queue /\ job'[k] = synced[k]
    BY <1>1, <2>1, WithoutKeeps
  <2>5. \A k \in queue' :
          \/ k \in queue /\ born'[k] = born[k] /\ Lease(job'[k]) = Lease(job[k])
          \/ Free(k, job'[k])
    BY <1>1, <2>3, <2>4 DEF Lease
  <2> QED
    BY <1>1, <2>1, <2>5, QuietLeases
<1>5. CASE BatchParents
  <2> DEFINE settled == [i \in Ids |->
               IF i \in queue /\ Batch(i) /\ job[i].ready = "Downloaded" /\ ~job[i].settled
               THEN Settle(born[i], job[i]) ELSE job[i]]
             done == {i \in queue : /\ Batch(i) /\ Complete(born[i], settled[i])
                                    /\ job[i].ready \in {"Downloaded", "Downloading"}}
             jobs == Without(settled, done)
  <2>1. /\ queue' = queue \ done
        /\ \/ job' = jobs /\ seenEpoch' = seenEpoch
           \/ job' = Checked(jobs, epoch) /\ seenEpoch' = epoch
    BY <1>5 DEF BatchParents
  <2>2. \A k \in Ids : settled[k] \in Job /\ Lease(settled[k]) = Lease(job[k])
    BY SettledLease DEF SettledJob
  <2>3. settled \in Jobs
    BY <2>2 DEF Jobs
  <2> HIDE DEF settled, done
  <2>4. jobs \in Jobs /\ \A k \in queue' : k \in queue /\ Lease(jobs[k]) = Lease(job[k])
    BY <1>1, <2>1, <2>2, <2>3, WithoutType, WithoutKeeps
  <2> HIDE DEF jobs
  <2> QED
    BY <1>1, <2>1, <2>4, QuietLeases
<1> QED
  BY <1>2, <1>3, <1>4, <1>5

\* The encoder lets go of no job without a word, and the pools do not touch it.
LEMMA WorkersKeepEncodes ==
  ASSUME LayersTypeOK, WorkersNext
  PROVE  epoch' = epoch /\ \A k \in Ids : With("Encode", k) => With("Encode", k)'
<1>1. ASSUME UNCHANGED encVars, NEW p \in Pools,
             ret' = ret \/ \E m : ret' = Sent(p, m)
      PROVE  epoch' = epoch /\ \A k \in Ids : With("Encode", k) => With("Encode", k)'
  <2>1. ret'["Encode"] = ret["Encode"]
    BY <1>1 DEF Sent, LayersTypeOK, Layers, Pools
  <2>2. UNCHANGED <<inbox, cur, epoch>>
    BY <1>1 DEF encVars
  <2> QED
    BY <2>1, <2>2, EncoderStill
<1>2. ASSUME NEW p \in Pools, PoolNext(p)
      PROVE  UNCHANGED encVars /\ \E q \in Pools : ret' = ret \/ \E m : ret' = Sent(q, m)
  <2>1. ASSUME NEW q \in Pools, NEW i, NEW m, PoolEnd(q, i, m)
        PROVE  UNCHANGED encVars /\ \E l \in Pools : ret' = ret \/ \E n : ret' = Sent(l, n)
    BY <2>1 DEF PoolEnd
  <2>2. {"Download", "Upload", "Probe"} \subseteq Pools
    BY DEF Pools
  <2>3. CASE PoolStart(p)
    BY <2>3 DEF PoolStart, TrySent
  <2>4. ASSUME NEW i \in Known, PoolStep(p, i)
        PROVE  UNCHANGED encVars /\ \E l \in Pools : ret' = ret \/ \E n : ret' = Sent(l, n)
    BY <2>1, <2>2, <2>4 DEF PoolStep, PoolDone, Download, PoolFailed, PoolCancelled
  <2>5. ASSUME NEW i \in Known, FetchTorrent(p, i)
        PROVE  UNCHANGED encVars /\ \E l \in Pools : ret' = ret \/ \E n : ret' = Sent(l, n)
    BY <2>5 DEF FetchTorrent
  <2>6. ASSUME NEW i \in Known, DownloadStep(i)
        PROVE  UNCHANGED encVars /\ \E l \in Pools : ret' = ret \/ \E n : ret' = Sent(l, n)
    BY <2>1, <2>2, <2>6 DEF DownloadStep, LockTorrent, TorrentLocked, FileDone, TrySent
  <2>7. ASSUME NEW i \in Known, PreviewStart(i)
        PROVE  UNCHANGED encVars /\ \E l \in Pools : ret' = ret \/ \E n : ret' = Sent(l, n)
    BY <2>2, <2>7 DEF PreviewStart
  <2> QED
    BY <1>2, <2>3, <2>4, <2>5, <2>6, <2>7 DEF PoolNext
<1>3. ret["Encode"] \in Seq(Message) /\ inbox \in Seq(Ids) /\ "Encode" \in DOMAIN ret
  BY DEF LayersTypeOK, Layers
<1>4. CASE EncodeTake
  <2>1. inbox # <<>> /\ inbox' = Tail(inbox) /\ epoch' = epoch /\ cur = 0
    BY <1>4 DEF EncodeTake, encVars
  <2>2. PICK m \in Message : m.id = Head(inbox) /\ ret' = Sent("Encode", m)
    <3>1. Head(inbox) \in Ids
      BY <1>3, <2>1
    <3>2. \A s \in Stages : StageMsg(Head(inbox), s) \in Message /\ StageMsg(Head(inbox), s).id = Head(inbox)
      BY <3>1, MessageTypes DEF StageMsg, Note
    <3> QED
      BY <1>4, <3>2 DEF EncodeTake, Stages
  <2>3. \A k : Told("Encode", k)' <=> Told("Encode", k) \/ k = Head(inbox)
    BY <1>3, <2>2, SaidMore DEF Told, Sent
  <2>4. \A k : Inboxed(k) => Inboxed(k)' \/ k = Head(inbox)
    <3>1. /\ Head(inbox) = inbox[1]
          /\ \A n \in DOMAIN inbox : n # 1 => n - 1 \in DOMAIN Tail(inbox) /\ Tail(inbox)[n - 1] = inbox[n]
      BY <1>3, <2>1
    <3> QED
      BY <2>1, <3>1 DEF Inboxed, InSeq
  <2> QED
    BY <2>1, <2>3, <2>4, PnJobsAssumption DEF With, Holds, Ids
<1>5. ASSUME NEW s \in {"Encoded", "Failed", "Cancelled"}, EncodeEnd(s)
      PROVE  epoch' = epoch /\ \A k \in Ids : With("Encode", k) => With("Encode", k)'
  <2>1. inbox' = inbox /\ epoch' = epoch /\ cur \in Ids /\ ret' = Sent("Encode", StageMsg(cur, s))
    BY <1>5, PnJobsAssumption DEF EncodeEnd, LayersTypeOK, Ids, Ids0
  <2>2. StageMsg(cur, s) \in Message /\ StageMsg(cur, s).id = cur
    BY <2>1, MessageTypes DEF StageMsg, Note, Stages
  <2>3. \A k : Told("Encode", k)' <=> Told("Encode", k) \/ k = cur
    BY <1>3, <2>1, <2>2, SaidMore DEF Told, Sent
  <2> QED
    BY <2>1, <2>3 DEF With, Holds, Inboxed
<1> QED
  BY <1>1, <1>2, <1>4, <1>5 DEF WorkersNext, EncoderNext

\* What the layers do to the leases: nothing.
LEMMA WorkersLeases ==
  ASSUME Typed, Typed', LeasesInv, WorkerStep
  PROVE  LeasesInv'
<1>1. LayersTypeOK /\ WorkersNext /\ UNCHANGED mainVars
  BY DEF Typed, TypeOK, WorkerStep
<1>2. UNCHANGED <<queue, job, seenEpoch, born, epoch>> /\ job \in Jobs /\ queue \subseteq Ids
  BY <1>1, WorkersKeepTypes, WorkersKeepEncodes DEF mainVars, Typed, TypeOK, Jobs
<1>3. epoch <= epoch' /\ \A k \in queue' : Goes(k, job[k])
  BY <1>1, <1>2, WorkersKeepEncodes DEF Goes, Typed, TypeOK, LayersTypeOK
<1> QED
  BY <1>2, <1>3, LeasesKept

\* In the beginning nothing is lent.
LEMMA InitLeases == Init => LeasesInv
  BY DEF Init, InitWith, LayersInit, LeasesInv

\* Every step of the program keeps its leases in order.
LEMMA NextLeases ==
  ASSUME Typed, Typed', RowsInv, PlacesInv, Speaks, LeasesInv, [Next]_vars
  PROVE  LeasesInv'
<1>1. CASE LoopStep
  <2>1. 1 \in Ids
    BY PnJobsAssumption DEF Ids
  <2> QED
    BY <1>1, <2>1, AdmitLeases, CancelLeases, MessageLeases, WaitWalkLeases, ProgressLeases,
       WalkEndsLeases, GitLeases DEF LoopStep
<1>2. CASE ClientStep
  BY <1>2, SubmitLeases, CancelLeases, GitLeases DEF ClientStep
<1>3. CASE ClockStep
  BY <1>3, ClockLeases
<1>4. CASE WorkerStep
  BY <1>4, WorkersLeases
<1>5. CASE UNCHANGED vars
  <2>1. UNCHANGED <<queue, job, seenEpoch, born, inbox, cur, epoch, ret>>
    BY <1>5 DEF vars, mainVars, layerVars, encVars
  <2> QED
    BY <2>1, LeaveLeases
<1> QED
  BY <1>1, <1>2, <1>3, <1>4, <1>5 DEF Next

\* A job that is to be downloaded waits for nobody's input.
LEMMA LeasesOweNothing == LeasesInv => QueuedOweNothing
  BY DEF LeasesInv, Sane, QueuedOweNothing

-----------------------------------------------------------------------------
(* What every run of the program keeps *)

LentInv == Typed /\ RowsInv /\ PlacesInv /\ Speaks /\ LeasesInv

\* The places, the words and the leases hold one another up.
LEMMA AlwaysLent == Spec => []LentInv
<1>1. Init => LentInv
  BY InitTyped, InitRows, InitPlaces, InitLeases DEF LentInv
<1>2. LentInv /\ [Next]_vars => LentInv'
  <2> SUFFICES ASSUME LentInv, [Next]_vars PROVE LentInv'
    OBVIOUS
  <2>1. Typed' /\ RowsInv' /\ Speaks'
    BY NextTyped, NextRows, NextSpeaks DEF LentInv, Kept
  <2>2. PlacesInv'
    BY NextPlaces, LeasesOweNothing DEF LentInv
  <2>3. LeasesInv'
    BY <2>1, NextLeases DEF LentInv
  <2> QED
    BY <2>1, <2>2, <2>3 DEF LentInv
<1> QED
  BY <1>1, <1>2, PTL DEF Spec

\* A sequence without repetitions has each of its elements once.
LEMMA TimesOnce ==
  ASSUME NEW S, NEW s \in Seq(S), Once(s), NEW i
  PROVE  Times(i, s) = IF InSeq(i, s) THEN 1 ELSE 0
<1>1. CASE InSeq(i, s)
  <2>1. PICK k \in DOMAIN s : s[k] = i
    BY <1>1 DEF InSeq
  <2>2. {n \in DOMAIN s : s[n] = i} = {k}
    BY <2>1 DEF Once
  <2> QED
    BY <1>1, <2>2, FS_Singleton DEF Times
<1>2. CASE ~InSeq(i, s)
  <2>1. {n \in DOMAIN s : s[n] = i} = {}
    BY <1>2 DEF InSeq
  <2> QED
    BY <1>2, <2>1, FS_EmptySet DEF Times
<1> QED
  BY <1>1, <1>2

\* One place of a job excludes all others.
LEMMA PlacesAreOne == LayersTypeOK /\ Places => OneWorkerPerJob
<1> SUFFICES ASSUME LayersTypeOK, Places, NEW i \in Ids
             PROVE  WithPool("Download", i) + WithPool("Upload", i) + WithPool("Probe", i)
                      + Times(i, inbox) + (IF cur = i THEN 1 ELSE 0) <= 1
  BY DEF OneWorkerPerJob
<1>1. ASSUME NEW p \in Pools
      PROVE  WithPool(p, i) = IF With(p, i) /\ Holds(p, i) THEN 1 ELSE 0
  <2>1. p \in Layers /\ p # "Encode" /\ pend[p] \in Seq(Ids)
    BY DEF LayersTypeOK, Layers, Pools
  <2>2. Once(pend[p]) /\ (Pending(p, i) => ~Tasked(p, i))
    BY <2>1 DEF Places, Orderly, PendingOnce
  <2>3. Times(i, pend[p]) = IF Pending(p, i) THEN 1 ELSE 0
    BY <2>1, <2>2, TimesOnce DEF Pending
  <2> QED
    BY <2>1, <2>2, <2>3 DEF WithPool, With, Holds, Tasked
<1>2. /\ Times(i, inbox) \in Nat
      /\ Times(i, inbox) + (IF cur = i THEN 1 ELSE 0)
           = IF With("Encode", i) /\ Holds("Encode", i) THEN 1 ELSE 0
  <2>1. "Encode" \in Layers /\ inbox \in Seq(Ids)
    BY DEF LayersTypeOK, Layers
  <2>2. Once(inbox) /\ (Inboxed(i) => cur # i)
    BY <2>1 DEF Places, Orderly, InboxedOnce
  <2>3. Times(i, inbox) = IF Inboxed(i) THEN 1 ELSE 0
    BY <2>1, <2>2, TimesOnce DEF Inboxed
  <2> QED
    BY <2>2, <2>3 DEF With, Holds
<1>3. \A l, k \in Layers : With(l, i) /\ With(k, i) => l = k
  BY DEF Places, OneLayer
<1>4. {"Download", "Upload", "Probe"} \subseteq Pools /\ Pools \cup {"Encode"} \subseteq Layers
  BY DEF Layers, Pools
<1> QED
  BY <1>1, <1>2, <1>3, <1>4

\* No job is ever with two workers, or with one twice: whatever the clients send,
\* whenever a layer answers, hangs or is rebooted, no second download, upload or
\* encode runs in the directory of the first.
THEOREM OneWorker == Spec => []OneWorkerPerJob
<1>1. LentInv => OneWorkerPerJob
  BY PlacesAreOne DEF LentInv, Typed, TypeOK, PlacesInv
<1> QED
  BY <1>1, AlwaysLent, PTL

\* A reboot that takes an encode from the encoder is noticed: as long as the job
\* counts as dispatched, the loop has a newer epoch to find, and when it does it
\* will dispatch the job again.
THEOREM LostEncodesWillBeResent == Spec => []LostEncodesAreResent
<1>1. LentInv => LostEncodesAreResent
  <2> SUFFICES ASSUME LentInv, NEW i \in queue, job[i].dispatched, Abandoned(i),
                      job[i].ready = "Downloaded" \/ (Type(i) = "Keycode" /\ job[i].ready = "Queued")
               PROVE  seenEpoch < epoch /\ job[i].epoch < epoch
    BY DEF LostEncodesAreResent
  <2>1. i \in Ids /\ job[i].epoch \in Nat /\ epoch \in Nat
    BY DEF LentInv, Typed, TypeOK, LayersTypeOK, Job
  <2>2. ~With("Encode", i)
    BY DEF Abandoned, With, Holds, Inboxed, InSeq, Told, Said
  <2>3. Leased(i) /\ Held(i)
    BY DEF LentInv, LeasesInv, Leased
  <2>4. job[i].epoch # epoch /\ seenEpoch < epoch
    BY <2>2, <2>3, Zenon DEF Held
  <2> QED
    BY <2>1, <2>3, <2>4 DEF Held
<1> QED
  BY <1>1, AlwaysLent, PTL

-----------------------------------------------------------------------------
(* Who is at the encoder stays in the queue, children of batches and, if     *)
(* all is in order, everybody; only the walk that finds no child sends one   *)

\* What the loop knows of a job that stays.
LEMMA StayFits ==
  ASSUME PlacesInv, LeasesInv, ChildInv, NEW k \in Ids, Stays(k)
  PROVE  /\ k \in queue /\ k \notin pass.dead /\ Fits("Encode", k) /\ Encodes(Type(k)) /\ ~Batch(k)
         /\ job[k].fwd = 0 /\ job[k].dispatched
         /\ job[k].ready \in {"Downloaded", "Encoding"} \/ (Type(k) = "Keycode" /\ job[k].ready = "Queued")
<1>1. "Encode" \in Layers /\ With("Encode", k)
  BY DEF Layers, Stays
<1>2. k \in queue /\ k \notin pass.dead
  BY DEF ChildInv
<1>3. Fits("Encode", k)
  BY <1>1, <1>2 DEF PlacesInv, Served
<1>4. Sane(k)
  BY <1>2 DEF LeasesInv
<1> QED
  BY <1>2, <1>3, <1>4 DEF Fits, Sane

\* A child stays whatever the order, and is ready as one that is built.
LEMMA ChildFits ==
  ASSUME PlacesInv, LeasesInv, ChildInv, NEW k \in Ids, ChildAt(k)
  PROVE  /\ Stays(k) /\ Type(k) = "Pancode"
         /\ job[k].dispatched /\ job[k].ready \in {"Downloaded", "Encoding"}
<1>1. Stays(k) /\ Type(k) = "Pancode"
  BY DEF ChildAt, Stays, Type, TypeOf
<1> QED
  BY <1>1, StayFits

\* Nobody comes to the encoder in this step.
NoneComes ==
  \A k \in Ids : (ChildAt(k)' => ChildAt(k)) /\ (Stays(k)' => Stays(k))
\* Nobody who stays leaves.
NoneLeaves ==
  \A k \in Ids : Stays(k) /\ Stays(k)' => k \in queue' /\ k \notin pass'.dead

\* A step that sends no child keeps them in order if it drops none.
LEMMA ChildrenStay ==
  ASSUME ChildInv, NoneComes, NoneLeaves,
         pc' # "progress" \/ (pc = "progress" /\ pass'.inFlight = pass.inFlight)
  PROVE  ChildInv'
<1>1. \A i, k \in Ids : ChildAt(i)' /\ ChildAt(k)' => i = k
  BY Zenon DEF ChildInv, NoneComes
<1>2. pc' = "progress" /\ ~pass'.inFlight => \A i \in Ids : ~ChildAt(i)'
  BY DEF ChildInv, NoneComes
<1>3. \A i \in Ids : Stays(i)' => i \in queue' /\ i \notin pass'.dead
  BY Zenon DEF NoneComes, NoneLeaves
<1> QED
  BY <1>1, <1>2, <1>3 DEF ChildInv

\* No step but the loop's own sends leaves the encoder more than it had.
LEMMA ChildrenQuiet ==
  ASSUME UNCHANGED <<inbox, cur>>, ret'["Encode"] = ret["Encode"],
         \A k \in Ids : born'[k] = born[k] \/ ~With("Encode", k)
  PROVE  NoneComes
  BY EncoderStill DEF ChildAt, Stays, NoneComes

\* A reboot leaves it nothing but the job that found it silent.
LEMMA RebootEmpties ==
  ASSUME LayersTypeOK, cur' = 0, ret' = [ret EXCEPT !["Encode"] = <<>>]
  PROVE  /\ inbox' = <<>> => \A k \in Ids : ~With("Encode", k)'
         /\ \A i : inbox' = <<i>> => \A k \in Ids : With("Encode", k)' => k = i
<1>1. ret'["Encode"] = <<>>
  BY DEF LayersTypeOK, Layers
<1>2. \A k \in Ids : cur' # k /\ ~Told("Encode", k)'
  BY <1>1, PnJobsAssumption, NothingSaid DEF Told, Ids
<1>3. \A k, i : InSeq(k, <<i>>) => k = i
  BY DEF InSeq
<1> QED
  BY <1>2, <1>3, NothingSaid DEF With, Holds, Inboxed

\* After a send the encoder has what it had, and what it was sent.
LEMMA SendBrings ==
  ASSUME LayersTypeOK, NEW i \in Ids, EncodeSend(i), UNCHANGED born
  PROVE  \A k \in Ids : /\ ChildAt(k)' => k = i \/ ChildAt(k)
                        /\ Stays(k)' => k = i \/ Stays(k)
<1>1. CASE inbox' = Append(inbox, i) /\ UNCHANGED <<cur, ret>>
  <2>1. \A k : Inboxed(k)' <=> Inboxed(k) \/ k = i
    BY <1>1, Appended DEF Inboxed, LayersTypeOK
  <2> QED
    BY <1>1, <2>1 DEF ChildAt, Stays, With, Holds, Told
<1>2. CASE EncodeReboot(<<i>>)
  BY <1>2, RebootEmpties DEF EncodeReboot, ChildAt, Stays
<1> QED
  BY <1>1, <1>2 DEF EncodeSend

\* Where nothing is at the encoder all is in order.
LEMMA NoChildren ==
  ASSUME \A k \in Ids : ~With("Encode", k)'
  PROVE  ChildInv'
  BY DEF ChildInv, ChildAt, Stays

\* A new job is no child, and its id was never with the encoder; a render is sent
\* there and stays if its row is written.
LEMMA RequestChildren ==
  ASSUME Typed, PlacesInv, LeasesInv, ChildInv, \/ \E n \in Names : Submit(n)
                                     \/ Admit \/ NoRequest
                                     \/ \E i \in Ids : Cancel(i)
  PROVE  ChildInv'
<1>1. LayersTypeOK /\ queue \subseteq Ids /\ "Encode" \in Layers
  BY DEF Typed, TypeOK, Layers
<1>2. ASSUME NEW n \in Names, Submit(n) PROVE ChildInv'
  <2>1. UNCHANGED <<queue, inbox, cur, ret>> /\ pc' # "progress" /\ pass'.dead = {}
    BY <1>2 DEF Submit, Refuse, DeclineSetup, Prepare, BackToTop, NoPass, layerVars, encVars
  <2>2. \A k \in Ids : born'[k] = born[k] \/ ~With("Encode", k)
    <3>1. CASE Refuse(n) \/ DeclineSetup(n)
      BY <3>1 DEF Refuse, DeclineSetup, layerVars
    <3>2. CASE Prepare(n)
      <4>1. \A k \in Ids : k # nextId => born'[k] = born[k]
        BY <1>1, <3>2 DEF Prepare, LayersTypeOK
      <4>2. nextId \in Ids => ~With("Encode", nextId)
        BY <1>1, PnJobsAssumption DEF PlacesInv, Fresh, Ids
      <4> QED
        BY <4>1, <4>2
    <3> QED
      BY <1>2, <3>1, <3>2 DEF Submit
  <2>3. NoneComes
    BY <2>1, <2>2, ChildrenQuiet
  <2> QED
    BY <2>1, <2>3, StayFits, ChildrenStay DEF NoneLeaves
<1>3. CASE Admit
  <2>1. PICK i \in pass.todo :
          \/ AdmitForwarded(i) \/ AdmitKilled(i) \/ AdmitDownload(i) \/ AdmitProbe(i)
          \/ AdmitStudio(i) \/ AdmitKeycode(i)
    BY <1>3 DEF Admit
  <2>2. born' = born /\ i \in Ids
    BY <1>3 DEF Admit, Typed, TypeOK, Pass
  <2>3. /\ queue \subseteq queue' /\ pc' # "progress" /\ pass'.dead = {}
        /\ \/ UNCHANGED <<inbox, cur, ret>>
           \/ EncodeSend(i) /\ Type(i) = "Studio" /\ (i \in queue' \/ "insert" \in Faults)
    BY <2>1 DEF AdmitForwarded, AdmitKilled, AdmitDownload, AdmitProbe, AdmitStudio,
                AdmitKeycode, Push, BackToTop, NoPass, encVars
  <2>4. CASE UNCHANGED <<inbox, cur, ret>>
    <3>1. NoneComes
      BY <2>2, <2>4, ChildrenQuiet
    <3> QED
      BY <2>3, <3>1, StayFits, ChildrenStay DEF NoneLeaves
  <2>5. CASE EncodeSend(i) /\ Type(i) = "Studio" /\ (i \in queue' \/ "insert" \in Faults)
    <3>1. born[i].parent = 0 /\ Type(i) = ReqOf(born[i]).type
      BY <2>5 DEF Type, TypeOf
    <3>2. \A k \in Ids : (ChildAt(k)' => ChildAt(k)) /\ (Stays(k)' => k = i \/ Stays(k))
      BY <1>1, <2>2, <2>5, <3>1, SendBrings DEF ChildAt
    <3>3. Stays(i)' => i \in queue'
      <4>1. born[i].name \in Names
        BY <1>1, <1>3, PnJobsAssumption DEF Admit, Typed, TypeOK, LayersTypeOK, Known, Birth, Names
      <4> QED
        BY <2>2, <2>5, <3>1, <4>1 DEF Stays, InOrder, ReqOf
    <3>4. \A k \in Ids : Stays(k)' => k \in queue' /\ k \notin pass'.dead
      BY <2>3, <3>2, <3>3, StayFits
    <3> QED
      BY <2>3, <3>2, <3>4 DEF ChildInv
  <2> QED
    BY <2>3, <2>4, <2>5
<1>4. CASE NoRequest
  <2>1. UNCHANGED <<queue, inbox, cur, ret, born, pass>> /\ pc' # "progress"
    BY <1>4 DEF NoRequest, layerVars, encVars
  <2> QED
    BY <2>1, ChildrenQuiet, StayFits, ChildrenStay DEF NoneLeaves
\* what is with the encoder is dispatched, and not cancelled at once
<1>5. ASSUME NEW i \in Ids, Cancel(i) PROVE ChildInv'
  <2>1. UNCHANGED <<inbox, cur, ret, born, pass>> /\ pc' # "progress"
    BY <1>5 DEF Cancel, encVars
  <2>2. NoneComes
    BY <2>1, ChildrenQuiet
  <2>3. ASSUME NEW k \in Ids, Stays(k) PROVE k \in queue'
    <3>1. k \in queue /\ job[k].fwd = 0 /\ job[k].dispatched /\ i \in queue
      BY <1>5, <2>3, StayFits DEF Cancel
    <3>2. k = i => ~CancelledAtOnce(job[i])
      BY <3>1 DEF CancelledAtOnce
    <3>3. k \notin ForwardedTo({i})
      BY <3>1, PnJobsAssumption DEF ForwardedTo, Ids
    <3> QED
      BY <1>5, <3>1, <3>2, <3>3 DEF Cancel, FinalizeCancelled
  <2> QED
    BY <2>1, <2>2, <2>3, StayFits, ChildrenStay DEF NoneLeaves
<1> QED
  BY <1>2, <1>3, <1>4, <1>5

\* A clock takes from the queue what is not with the encoder, or empties the encoder.
LEMMA ClockChildren ==
  ASSUME Typed, PlacesInv, LeasesInv, ChildInv, ClockStep
  PROVE  ChildInv'
<1>1. LayersTypeOK
  BY DEF Typed, TypeOK
<1>2. CASE ExpireCache \/ ExpireKeep
  <2>1. UNCHANGED <<queue, inbox, cur, ret, born, pass, pc>>
    BY <1>2 DEF ExpireCache, ExpireKeep, mainVars, layerVars, encVars
  <2> QED
    BY <2>1, ChildrenQuiet, StayFits, ChildrenStay DEF NoneLeaves
<1>3. CASE DrainReboot \/ ReceiveReboot \/ \E S \in SUBSET Ids : EncodeStall(S)
  <2>1. EncodeReboot(<<>>)
    BY <1>3 DEF DrainReboot, ReceiveReboot, EncodeStall
  <2> QED
    BY <1>1, <2>1, RebootEmpties, NoChildren DEF EncodeReboot
<1>4. ASSUME NEW i \in Ids, ProbeTimeout(i) PROVE ChildInv'
  <2>1. /\ UNCHANGED <<inbox, cur, ret, born, pass, pc>> /\ pc = "message"
        /\ queue' = queue \ {i} /\ job[i].ready = "Probed"
    BY <1>4 DEF ProbeTimeout, encVars
  <2>2. NoneComes
    BY <2>1, ChildrenQuiet
  <2>3. NoneLeaves
    BY <2>1, StayFits DEF NoneLeaves
  <2> QED
    BY <2>1, <2>2, <2>3, ChildrenStay
<1> QED
  BY <1>2, <1>3, <1>4 DEF ClockStep

\* The end of the process leaves nothing with anybody.
LEMMA GitChildren ==
  ASSUME PlacesInv, LeasesInv, ChildInv, GitQuery \/ ArmedGitQuery
  PROVE  ChildInv'
<1>1. CASE GitSync
  <2>1. inbox' = <<>> /\ cur' = 0 /\ ret'["Encode"] = <<>>
    BY <1>1 DEF GitSync, Layers
  <2>2. \A k \in Ids : ~With("Encode", k)'
    BY <2>1, NothingSaid, PnJobsAssumption DEF With, Holds, Inboxed, Told, Ids
  <2> QED
    BY <2>2, NoChildren
<1>2. CASE UNCHANGED <<queue, layerVars>> /\ pc' # "progress" /\ (pass' = pass \/ pass'.dead = {})
  <2>1. UNCHANGED <<inbox, cur, ret, born>>
    BY <1>2 DEF layerVars, encVars
  <2> QED
    BY <1>2, <2>1, ChildrenQuiet, StayFits, ChildrenStay DEF NoneLeaves
<1> QED
  BY <1>1, <1>2 DEF GitQuery, ArmedGitQuery, BackToTop, NoPass

\* The layers send nobody to the encoder.
LEMMA WorkersChildren ==
  ASSUME Typed, PlacesInv, LeasesInv, ChildInv, WorkerStep
  PROVE  ChildInv'
<1>1. LayersTypeOK /\ Places /\ WorkersNext /\ UNCHANGED mainVars /\ "Encode" \in Layers
  BY DEF Typed, TypeOK, PlacesInv, WorkerStep, Layers
<1>2. UNCHANGED <<queue, pass, pc, born>> /\ \A k \in Ids : With("Encode", k)' => With("Encode", k)
  BY <1>1, WorkersKeepTypes, WorkersMove DEF mainVars
<1> QED
  BY <1>2, StayFits, ChildrenStay DEF NoneComes, NoneLeaves, ChildAt, Stays

\* Who leaves the queue with a message is the one whose last word it was, a probe, or
\* a follower; none of them is a child that is with the encoder.
LEMMA MessageChildren ==
  ASSUME Typed, PlacesInv, Speaks, LeasesInv, ChildInv, Receive \/ NoMessage
  PROVE  ChildInv'
<1>1. /\ LayersTypeOK /\ Places /\ queue \subseteq Ids /\ 0 \notin Ids /\ "Encode" \in Layers
  BY PnJobsAssumption DEF Typed, TypeOK, PlacesInv, Layers, Ids
<1>2. CASE NoMessage
  <2>1. UNCHANGED <<inbox, cur, ret, born, queue>> /\ pc' # "progress" /\ pass'.dead = {}
    BY <1>2 DEF NoMessage, StartDup, NoPass, layerVars, encVars
  <2> QED
    BY <2>1, ChildrenQuiet, StayFits, ChildrenStay DEF NoneLeaves
<1>3. CASE Receive
  <2>1. PICK l \in Layers :
          /\ ret[l] # <<>> /\ Received(l)
          /\ LET m == Head(ret[l]) IN
               \/ HandleStale(m) \/ HandleAssign(l, m) \/ HandleFileDone(m)
               \/ HandleDuplicate(m) \/ HandleStage(m)
    BY <1>3 DEF Receive
  <2>2. PICK m : m = Head(ret[l])
    OBVIOUS
  <2>3. \/ HandleStale(m) \/ HandleAssign(l, m) \/ HandleFileDone(m)
        \/ HandleDuplicate(m) \/ HandleStage(m)
    BY <2>1, <2>2
  <2>4. UNCHANGED <<pend, run, inbox, cur, epoch>>
    BY <1>3 DEF Receive, poolVars, encVars
  <2>5. /\ \A k \in Ids : With("Encode", k)' => With("Encode", k)
        /\ m.id \in Ids
        /\ Ends(m) => ~With("Encode", m.id)'
    BY <1>1, <2>1, <2>2, <2>4, Heard
  <2>6. pc' # "progress" /\ pass'.dead = {}
    BY <2>3 DEF HandleStale, HandleAssign, HandleFileDone, HandleDuplicate, HandleStage,
                BackToTop, StartDup, NoPass
  <2>7. NoneComes
    <3>1. CASE UNCHANGED born
      BY <2>5, <3>1 DEF ChildAt, Stays, NoneComes
    <3>2. CASE HandleFileDone(m)
      <4>1. \A k \in Ids : k # nextId => born'[k] = born[k]
        BY <1>1, <3>2 DEF HandleFileDone, LayersTypeOK
      <4>2. nextId \in Ids => ~With("Encode", nextId)
        BY <1>1 DEF PlacesInv, Fresh, Ids
      <4> QED
        BY <2>5, <4>1, <4>2 DEF ChildAt, Stays, NoneComes
    <3> QED
      BY <2>3, <3>1, <3>2 DEF HandleStale, HandleAssign, HandleDuplicate, HandleStage
  <2>8. ASSUME NEW k \in Ids, Stays(k), Stays(k)' PROVE k \in queue'
    <3>1. k \in queue /\ job[k].fwd = 0 /\ Type(k) # "Probe" /\ (born[k].parent # 0 \/ InOrder)
      BY <2>8, StayFits DEF Stays, Encodes
    <3>2. CASE HandleStage(m)
      <4> DEFINE gone == (IF m.stage \in Terminal THEN {m.id} \cup ForwardedTo({m.id}) ELSE {})
                           \cup ProbeLeft(m.id, m.stage)
      <4>1. queue' = queue \ gone /\ m.kind = "stage"
        BY <3>2 DEF HandleStage
      <4>2. k \notin ForwardedTo({m.id})
        BY <1>1, <2>5, <3>1 DEF ForwardedTo
      <4>3. k \notin ProbeLeft(m.id, m.stage)
        <5>1. CASE born[k].parent # 0
          BY <5>1 DEF ProbeLeft, ProbeOf
        <5>2. CASE InOrder
          <6>1. m.id \in queue /\ born[m.id].name \in Names
            BY <2>5, <3>2, PnJobsAssumption
            DEF HandleStage, Typed, TypeOK, LayersTypeOK, Known, Birth, Names
          <6>2. k \in ProbeLeft(m.id, m.stage) =>
                  /\ born[k].parent = 0 /\ Submissions[born[m.id].name].probe # 0
                  /\ born[k].name = Submissions[born[m.id].name].probe
            BY DEF ProbeLeft, ProbeOf, ReqOf
          <6> QED
            BY <3>1, <5>2, <6>1, <6>2 DEF InOrder, Type, TypeOf, ReqOf
        <5> QED
          BY <3>1, <5>1, <5>2
      <4>4. m.stage \in Terminal => k # m.id
        BY <2>5, <2>8, <4>1 DEF Ends, Terminal, Stays
      <4> QED
        BY <3>1, <4>1, <4>2, <4>3, <4>4
    <3> QED
      BY <2>3, <3>1, <3>2 DEF HandleStale, HandleAssign, HandleFileDone, HandleDuplicate
  <2> QED
    BY <2>6, <2>7, <2>8, ChildrenStay DEF NoneLeaves
<1> QED
  BY <1>2, <1>3

\* A walk drops what was never dispatched, or is past its encode; and the only walk
\* that sends a child has found none and finds no second.
LEMMA WalkChildren ==
  ASSUME Typed, RowsInv, PlacesInv, LeasesInv, ChildInv, NEW i \in Ids,
         DupStep(i) \/ WaitStep(i) \/ ProgressStep(i)
  PROVE  ChildInv'
<1>1. /\ LayersTypeOK /\ i \in queue /\ pass \in Pass /\ i \in pass.todo
      /\ UNCHANGED <<pc, queue, born>>
  <2>1. i \in pass.todo /\ pc \in {"dup", "wait", "progress"} /\ UNCHANGED <<pc, queue, born>>
    BY DEF DupStep, WaitStep, ProgressStep, ProgressSkip, Skip, KeycodeWait, KeycodeFail,
           KeycodeDispatch, DispatchProbeLayer, DispatchUpload, FinishKeep, EncodeForward,
           EncodeWaitsForInput, EncodeHeldBack, EncodeDispatch, DispatchKilled, EncodeReady,
           Encodable, Progressing, At, Steady, layerVars
  <2> QED
    BY <2>1 DEF RowsInv, WalkVisitsLiving, Typed, TypeOK
\* without the encoder, and with nobody dropped
<1>2. ASSUME UNCHANGED <<inbox, cur, ret>>, pass'.inFlight = pass.inFlight,
             pass'.dead = pass.dead \/ (pass'.dead = pass.dead \cup {i} /\ ~Stays(i))
      PROVE  ChildInv'
  <2>1. NoneComes
    BY <1>1, <1>2, ChildrenQuiet
  <2>2. NoneLeaves
    BY <1>1, <1>2, StayFits DEF NoneLeaves
  <2> QED
    BY <1>1, <1>2, <2>1, <2>2, ChildrenStay
<1>3. /\ Past(i).dead = pass.dead /\ Past(i).inFlight = pass.inFlight
      /\ Killed(i) => pass'.dead = pass.dead \cup {i} /\ pass'.inFlight = pass.inFlight
  BY <1>1 DEF Past, Killed, Pass
<1>4. Stays(i) => /\ job[i].dispatched /\ Encodes(Type(i))
                  /\ job[i].ready \in {"Downloaded", "Encoding"} \/ (Type(i) = "Keycode" /\ job[i].ready = "Queued")
  BY StayFits
<1>5. CASE DupStep(i)
  BY <1>2, <1>3, <1>5 DEF DupStep, encVars
<1>6. CASE WaitStep(i)
  <2>1. job[i].ready = "Queued" /\ Type(i) # "Keycode"
    <3>1. pc = "wait"
      BY <1>6 DEF WaitStep, At
    <3> QED
      BY <1>1, <3>1 DEF PlacesInv, WalksHold, RequeueTypes
  <2>2. UNCHANGED <<inbox, cur, ret>> /\ (pass' = Past(i) \/ Killed(i))
    BY <1>6 DEF WaitStep, encVars
  <2> QED
    BY <1>2, <1>3, <1>4, <2>1, <2>2
<1>7. CASE ProgressSkip(i) \/ EncodeHeldBack(i)
  <2>1. UNCHANGED layerVars /\ pass' = Past(i)
    BY <1>7 DEF ProgressSkip, EncodeHeldBack, Skip
  <2>2. UNCHANGED <<inbox, cur, ret>>
    BY <2>1 DEF layerVars, encVars
  <2> QED
    BY <1>2, <1>3, <2>1, <2>2
<1>8. CASE KeycodeWait(i) \/ DispatchProbeLayer(i) \/ EncodeForward(i) \/ EncodeWaitsForInput(i)
  <2>1. UNCHANGED <<inbox, cur, ret>> /\ pass' = Past(i)
    BY <1>8 DEF KeycodeWait, DispatchProbeLayer, EncodeForward, EncodeWaitsForInput, encVars
  <2> QED
    BY <1>2, <1>3, <2>1
<1>9. CASE DispatchUpload(i)
  <2>1. UNCHANGED <<inbox, cur, ret>>
        /\ pass'.dead = pass.dead /\ pass'.inFlight = pass.inFlight
    BY <1>1, <1>9 DEF DispatchUpload, encVars, Past, Pass
  <2> QED
    BY <1>2, <2>1
<1>10. CASE KeycodeFail(i)
  <2>1. UNCHANGED <<inbox, cur, ret>> /\ Killed(i) /\ ~job[i].dispatched
    BY <1>10 DEF KeycodeFail, KeycodeWaits, encVars
  <2> QED
    BY <1>2, <1>3, <1>4, <2>1
<1>11. CASE FinishKeep(i)
  <2>1. /\ UNCHANGED <<inbox, cur, ret>> /\ KeepDone(i)
        /\ pass'.dead = pass.dead \cup {i} /\ pass'.inFlight = pass.inFlight
    BY <1>1, <1>11 DEF FinishKeep, encVars, Past, Pass
  <2>2. ~Stays(i)
    BY <1>4, <2>1 DEF KeepDone, Encodes
  <2> QED
    BY <1>2, <2>1, <2>2
<1>12. CASE DispatchKilled(i)
  <2>1. /\ UNCHANGED <<inbox, cur, ret>> /\ Killed(i)
        /\ ToProbeLayer(i) \/ ToUpload(i) \/ ~job[i].dispatched
    BY <1>12 DEF DispatchKilled, encVars, EncodeReady, Encodable
  <2>2. ~Stays(i)
    BY <1>4, <2>1 DEF ToProbeLayer, ToUpload, Encodes
  <2> QED
    BY <1>2, <1>3, <2>1, <2>2
\* the sends
<1>13. ASSUME EncodeSend(i), pass'.dead = pass.dead, ~job[i].dispatched,
              \/ born[i].parent = 0 /\ pass'.inFlight = pass.inFlight
              \/ pc = "progress" /\ ~pass.inFlight /\ pass'.inFlight
       PROVE  ChildInv'
  <2>1. \A k \in Ids : /\ ChildAt(k)' => ChildAt(k) \/ (k = i /\ born[i].parent # 0)
                       /\ Stays(k)' => Stays(k) \/ k = i
    BY <1>1, <1>13, SendBrings DEF ChildAt
  <2>2. i \notin pass.dead
    <3>1. pc \in {"dup", "wait", "progress"}
      BY DEF DupStep, WaitStep, ProgressStep, ProgressSkip, KeycodeWait, KeycodeFail,
             KeycodeDispatch, DispatchProbeLayer, DispatchUpload, FinishKeep, EncodeForward,
             EncodeWaitsForInput, EncodeHeldBack, EncodeDispatch, DispatchKilled, EncodeReady,
             Encodable, Progressing, At
    <3> QED
      BY <1>1, <3>1 DEF RowsInv, WalkVisitsLiving
  <2>3. \A k \in Ids : Stays(k)' => k \in queue' /\ k \notin pass'.dead
    BY <1>1, <1>13, <2>1, <2>2, StayFits
  <2>4. CASE born[i].parent = 0 /\ pass'.inFlight = pass.inFlight
    BY <1>1, <2>1, <2>3, <2>4 DEF ChildInv
  <2>5. CASE pc = "progress" /\ ~pass.inFlight /\ pass'.inFlight
    <3>1. \A k \in Ids : ChildAt(k)' => k = i
      BY <2>1, <2>5 DEF ChildInv
    <3> QED
      BY <2>3, <2>5, <3>1 DEF ChildInv
  <2> QED
    BY <1>13, <2>4, <2>5
<1>14. CASE KeycodeDispatch(i)
  <2>1. /\ EncodeSend(i) /\ pass' = Past(i) /\ ~job[i].dispatched /\ born[i].parent = 0
    BY <1>14 DEF KeycodeDispatch, KeycodeWaits, Type, TypeOf
  <2> QED
    BY <1>3, <1>13, <2>1
<1>15. CASE EncodeDispatch(i)
  <2>1. /\ EncodeSend(i) /\ ~job[i].dispatched /\ ~HeldBack(i) /\ pc = "progress"
        /\ pass' = [Past(i) EXCEPT !.inFlight = @ \/ born[i].parent # 0,
                                   !.source = Claimed(@, InputKeys(i), i),
                                   !.parent = Claimed(@, ForwardKeys(i), i)]
    BY <1>15 DEF EncodeDispatch, EncodeReady, Encodable, Progressing, At
  <2>2. /\ pass'.dead = pass.dead
        /\ pass'.inFlight = (pass.inFlight \/ born[i].parent # 0)
    BY <1>1, <2>1 DEF Past, Pass
  <2>3. born[i].parent # 0 => ~pass.inFlight
    BY <2>1 DEF HeldBack, BatchChildMayDispatch
  <2>4. pass.inFlight \in BOOLEAN
    BY <1>1 DEF Pass
  <2> QED
    BY <1>13, <2>1, <2>2, <2>3, <2>4
<1> QED
  BY <1>5, <1>6, <1>7, <1>8, <1>9, <1>10, <1>11, <1>12, <1>14, <1>15 DEF ProgressStep

\* What leaves with the end of a walk was not with the encoder, and the walk that
\* sends children starts by looking for one.
LEMMA WalkEndsChildren ==
  ASSUME Typed, PlacesInv, PlacesInv', LeasesInv, ChildInv, DupEnd \/ WaitEnd \/ ProgressEnd \/ BatchParents
  PROVE  ChildInv'
<1>1. UNCHANGED <<inbox, cur, ret, born>> /\ pass \in Pass
  <2>1. CASE DupEnd \/ WaitEnd \/ ProgressEnd
    <3>1. UNCHANGED layerVars
      BY <2>1 DEF DupEnd, WaitEnd, ProgressEnd
    <3> QED
      BY <3>1 DEF layerVars, encVars, Typed, TypeOK
  <2>2. CASE BatchParents
    BY <2>2 DEF BatchParents, encVars, Typed, TypeOK
  <2> QED
    BY <2>1, <2>2
<1>2. NoneComes
  BY <1>1, ChildrenQuiet
<1>3. CASE DupEnd
  <2>1. queue' = queue /\ pc' # "progress" /\ pass'.dead = {}
    BY <1>3 DEF DupEnd, NoPass
  <2> QED
    BY <1>2, <2>1, StayFits, ChildrenStay DEF NoneLeaves
<1>4. CASE ProgressEnd
  <2>1. queue' = queue \ pass.dead /\ pc' # "progress" /\ pass'.dead = {}
    BY <1>4 DEF ProgressEnd, NoPass
  <2> QED
    BY <1>2, <2>1, StayFits, ChildrenStay DEF NoneLeaves
<1>5. CASE BatchParents
  <2>1. pass' = pass /\ pc' # "progress" /\ \A k \in queue : ~Batch(k) => k \in queue'
    BY <1>5 DEF BatchParents
  <2>2. NoneLeaves
    BY <2>1, StayFits DEF NoneLeaves
  <2> QED
    BY <1>2, <2>1, <2>2, ChildrenStay
<1>6. CASE WaitEnd
  <2> DEFINE Q == queue \ pass.dead
             jobs == Checked(Without(job, pass.dead), epoch)
  <2>1. queue' = Q /\ job' = jobs /\ pass'.dead = {} /\ pass'.inFlight = ChildInFlight(Q, jobs)
    BY <1>6 DEF WaitEnd, NoPass
  <2>2. \A k \in Ids : Stays(k)' => k \in queue' /\ k \notin pass'.dead
    BY <1>2, <2>1, StayFits DEF NoneComes
  <2>3. \A i, k \in Ids : ChildAt(i)' /\ ChildAt(k)' => i = k
    BY <1>2, Zenon DEF ChildInv, NoneComes
  <2>4. ASSUME NEW k \in Ids, ChildAt(k)' PROVE pass'.inFlight
    <3>1. "Encode" \in Layers /\ With("Encode", k)' /\ k \in queue' /\ born'[k].parent # 0
      BY <2>2, <2>4 DEF Layers, ChildAt, Stays
    <3>2. Fits("Encode", k)'
      BY <3>1 DEF PlacesInv, Served
    <3>3. Type(k)' = "Pancode"
      BY <3>1 DEF Type, TypeOf
    <3>4. job'[k].dispatched /\ job'[k].ready \in {"Downloaded", "Encoding"}
      BY <3>2, <3>3 DEF Fits
    <3> HIDE DEF Q, jobs
    <3>5. k \in Q /\ born[k].parent # 0 /\ jobs[k].dispatched /\ jobs[k].ready \in {"Downloaded", "Encoding"}
      BY <1>1, <2>1, <3>1, <3>4
    <3> QED
      BY <2>1, <3>5 DEF ChildInFlight
  <2> QED
    BY <2>2, <2>3, <2>4 DEF ChildInv
<1> QED
  BY <1>3, <1>4, <1>5, <1>6

\* Every step of the program keeps them so.
LEMMA NextChildren ==
  ASSUME LentInv, LentInv', ChildInv, [Next]_vars
  PROVE  ChildInv'
<1> USE DEF LentInv
<1>1. CASE LoopStep
  BY <1>1, RequestChildren, MessageChildren, WalkChildren, WalkEndsChildren, GitChildren DEF LoopStep
<1>2. CASE ClientStep
  BY <1>2, RequestChildren, GitChildren DEF ClientStep
<1>3. CASE ClockStep
  BY <1>3, ClockChildren
<1>4. CASE WorkerStep
  BY <1>4, WorkersChildren
<1>5. CASE UNCHANGED vars
  <2>1. UNCHANGED <<queue, inbox, cur, ret, born, pass, pc>>
    BY <1>5 DEF vars, mainVars, layerVars, encVars
  <2> QED
    BY <2>1, ChildrenQuiet, StayFits, ChildrenStay DEF NoneLeaves
<1> QED
  BY <1>1, <1>2, <1>3, <1>4, <1>5 DEF Next

\* So it is always.
LEMMA AlwaysChildren == Spec => []ChildInv
<1>1. Init => ChildInv
  <2> SUFFICES ASSUME Init PROVE \A k \in Ids : ~With("Encode", k)
    BY DEF ChildInv, ChildAt, Stays
  <2>1. inbox = <<>> /\ cur = 0 /\ ret["Encode"] = <<>>
    BY DEF Init, InitWith, LayersInit, Layers
  <2> QED
    BY <2>1, NothingSaid, PnJobsAssumption DEF With, Holds, Inboxed, Told, Ids
<1>2. LentInv /\ LentInv' /\ ChildInv /\ [Next]_vars => ChildInv'
  BY NextChildren
<1> QED
  BY <1>1, <1>2, AlwaysLent, PTL DEF Spec

\* Who is at the encoder is with it.
LEMMA AtEncoderIsWith ==
  ASSUME LentInv, NEW i \in AtEncoder
  PROVE  i \in Ids /\ With("Encode", i)
<1>1. inbox \in Seq(Ids) /\ Once(inbox) /\ "Encode" \in Layers
  BY DEF LentInv, Typed, TypeOK, LayersTypeOK, PlacesInv, Places, Orderly, InboxedOnce, Layers
<1>2. \A k \in Ids : Times(k, inbox) > 0 => Inboxed(k)
  BY <1>1, TimesOnce DEF Inboxed
<1> QED
  BY <1>2 DEF AtEncoder, With, Holds

\* However many batches there are and whoever else waits, is cancelled or is lost
\* with a reboot, the encoder holds at most one child of them all.
THEOREM OneChild == Spec => []OneBatchChildAtEncoder
<1>1. LentInv /\ ChildInv => OneBatchChildAtEncoder
  <2> SUFFICES ASSUME LentInv, ChildInv PROVE OneBatchChildAtEncoder
    OBVIOUS
  <2> DEFINE S == {i \in AtEncoder : born[i].parent # 0}
  <2>2. \A i \in S : i \in Ids /\ ChildAt(i)
    BY AtEncoderIsWith DEF ChildAt
  <2>3. \A i, k \in S : i = k
    BY <2>2 DEF ChildInv
  <2> HIDE DEF S
  <2>4. S = {} \/ \E i \in S : S = {i}
    BY <2>3
  <2>5. Cardinality(S) <= 1
    BY <2>4, FS_EmptySet, FS_Singleton
  <2> QED
    BY <2>5 DEF S, OneBatchChildAtEncoder
<1> QED
  BY <1>1, AlwaysLent, AlwaysChildren, PTL

\* What the encoder holds, or will read, is a job of the queue, under lease and
\* nobody's follower, so that its directory is there: no cancellation, no expired
\* probe, no batch that closes and no failed step takes a job from the queue while
\* its encode runs.  Two things must be in order: a request closes the job it names
\* as its probe, and a render is sent before its row is written.
THEOREM EncoderServes ==
  ASSUME \A n \in Names :
           Submissions[n].probe # 0 => Submissions[Submissions[n].probe].type = "Probe",
         "insert" \in Faults => \A n \in Names : Submissions[n].type # "Studio"
  PROVE  Spec => []EncoderServesTheQueue
<1>1. InOrder
  BY DEF InOrder
<1>2. LentInv /\ ChildInv => EncoderServesTheQueue
  <2> SUFFICES ASSUME LentInv, ChildInv, NEW i \in AtEncoder
               PROVE  /\ i \in queue /\ job[i].dispatched /\ job[i].fwd = 0
                      /\ job[i].ready \in {"Queued", "Downloaded", "Encoding"}
    BY DEF EncoderServesTheQueue
  <2>1. i \in Ids /\ Stays(i)
    BY <1>1, AtEncoderIsWith DEF Stays
  <2> QED
    BY <2>1, StayFits DEF LentInv
<1> QED
  BY <1>2, AlwaysLent, AlwaysChildren, PTL

-----------------------------------------------------------------------------
(* The input of an encode                                                    *)

\* The encodes of a downloaded file
Reads(k) == Type(k) \in {"Encode", "Pancode"}

\* In the queue, and not about to leave it
Alive(k) == k \in queue /\ k \notin pass.dead

\* The download of k is over: the loop knows of it, or has it to hear, or has sent
\* the job on to the encoder.
Brings(m, k)     == m.id = k /\ m.kind = "stage" /\ m.stage = "Downloaded"
BroughtIn(k, s)  == \E n \in DOMAIN s : Brings(s[n], k)
Brought(k)       == BroughtIn(k, ret["Download"])
Downloaded(k)    == job[k].ready = "Downloaded" /\ job[k].fwd = 0
Fetched(k)       == Downloaded(k) \/ Brought(k) \/ With("Encode", k)

\* What was downloaded is there as long as its job is.
InputInv == \A k \in Ids : Alive(k) /\ Reads(k) /\ Fetched(k) => k \in disk.input

\* One message more, and one less
LEMMA BroughtMore ==
  ASSUME NEW s \in Seq(Message), NEW m \in Message
  PROVE  \A k : BroughtIn(k, Append(s, m)) => BroughtIn(k, s) \/ Brings(m, k)
<1>1. /\ DOMAIN Append(s, m) = DOMAIN s \cup {Len(s) + 1}
      /\ \A n \in DOMAIN s : Append(s, m)[n] = s[n]
      /\ Append(s, m)[Len(s) + 1] = m
  OBVIOUS
<1> QED
  BY <1>1 DEF BroughtIn

LEMMA BroughtLess ==
  ASSUME NEW s \in Seq(Message), s # <<>>
  PROVE  \A k : /\ BroughtIn(k, Tail(s)) => BroughtIn(k, s)
                /\ Brings(Head(s), k) => BroughtIn(k, s)
<1>1. /\ 1 \in DOMAIN s /\ Head(s) = s[1]
      /\ \A n \in DOMAIN Tail(s) : n + 1 \in DOMAIN s /\ Tail(s)[n] = s[n + 1]
  OBVIOUS
<1> QED
  BY <1>1 DEF BroughtIn

\* What the download pool said of a job, it has to do with.
LEMMA BroughtIsWith == \A k : Brought(k) => With("Download", k)
  BY DEF Brought, BroughtIn, Brings, With, Told, Said

\* Nothing is brought, and nothing sent on.
NothingNew ==
  \A k \in Ids : (Brought(k)' => Brought(k)) /\ (With("Encode", k)' => With("Encode", k))
LEMMA LayersQuiet ==
  ASSUME UNCHANGED <<inbox, cur, ret>>
  PROVE  NothingNew
  BY EncoderStill DEF Brought, NothingNew

\* After a send the encoder has what it had, and what it was sent.
LEMMA SendReaches ==
  ASSUME LayersTypeOK, NEW i \in Ids, EncodeSend(i)
  PROVE  \A k \in Ids : With("Encode", k)' => With("Encode", k) \/ k = i
<1>1. CASE inbox' = Append(inbox, i) /\ UNCHANGED <<cur, ret>>
  <2>1. \A k : Inboxed(k)' <=> Inboxed(k) \/ k = i
    BY <1>1, Appended DEF Inboxed, LayersTypeOK
  <2> QED
    BY <1>1, <2>1 DEF With, Holds, Told
<1>2. CASE EncodeReboot(<<i>>)
  BY <1>2, RebootEmpties DEF EncodeReboot
<1> QED
  BY <1>1, <1>2 DEF EncodeSend

\* The check of the epoch changes no stage.
LEMMA CheckedStage ==
  ASSUME NEW jobs \in Jobs, NEW e, NEW k \in Ids
  PROVE  Checked(jobs, e)[k].ready = jobs[k].ready /\ Checked(jobs, e)[k].fwd = jobs[k].fwd
<1>1. jobs[k] \in Job
  BY DEF Jobs
<1>2. Checked(jobs, e)[k] \in {jobs[k], [jobs[k] EXCEPT !.dispatched = FALSE]}
  BY DEF Checked, ResetDispatch
<1> QED
  BY <1>1, <1>2 DEF Job

\* What a step may do to a job that stays: bring its input, or leave it what it had
\* and say nothing new.
Rests(k) ==
  /\ Alive(k) /\ born'[k] = born[k] /\ (k \in disk.input => k \in disk'.input)
  /\ Fetched(k)' => Fetched(k)
LEMMA InputKept ==
  ASSUME InputInv,
         \A k \in Ids : Alive(k)' =>
           k \in disk'.input \/ ~Reads(k)' \/ ~Fetched(k)' \/ Rests(k)
  PROVE  InputInv'
<1> SUFFICES ASSUME NEW k \in Ids, Alive(k)', Reads(k)', Fetched(k)' PROVE k \in disk'.input
  BY DEF InputInv
<1>1. Rests(k) => Reads(k)
  BY DEF Rests, Reads, Type
<1> QED
  BY <1>1 DEF Rests, InputInv

\* The same for a step after which there is nothing new, and with the records of the
\* jobs before the epoch is checked.
LEMMA InputQuiet ==
  ASSUME Typed, InputInv, NothingNew,
         NEW jobs \in Jobs, NEW e, job' = jobs \/ job' = Checked(jobs, e),
         \A k \in Ids : Alive(k)' =>
           \/ k \in disk'.input
           \/ /\ Alive(k) /\ born'[k] = born[k] /\ (k \in disk.input => k \in disk'.input)
              /\ jobs[k].ready = "Downloaded" /\ jobs[k].fwd = 0 => Fetched(k)
  PROVE  InputInv'
<1>1. \A k \in Ids : job'[k].ready = jobs[k].ready /\ job'[k].fwd = jobs[k].fwd
  BY CheckedStage
<1>2. \A k \in Ids : Alive(k)' => k \in disk'.input \/ Rests(k)
  BY <1>1 DEF NothingNew, Rests, Fetched, Downloaded
<1> QED
  BY <1>2, InputKept

\* ... where some jobs leave, and with them their directories
LEMMA InputLeaves ==
  ASSUME Typed, InputInv, NothingNew, born' = born,
         NEW jobs \in Jobs, NEW e, job' = jobs \/ job' = Checked(jobs, e),
         \A k \in Ids : Alive(k)' =>
           /\ Alive(k) /\ (k \in disk.input => k \in disk'.input)
           /\ jobs[k].ready = job[k].ready /\ jobs[k].fwd = job[k].fwd
  PROVE  InputInv'
<1>1. \A k \in Ids : Alive(k)' =>
        /\ Alive(k) /\ born'[k] = born[k] /\ (k \in disk.input => k \in disk'.input)
        /\ jobs[k].ready = "Downloaded" /\ jobs[k].fwd = 0 => Fetched(k)
  BY DEF Fetched, Downloaded
<1> QED
  BY <1>1, InputQuiet

-----------------------------------------------------------------------------
\* A new request has no input yet, and no input goes.
LEMMA SubmitInput ==
  ASSUME Typed, RowsInv, InputInv, NEW n \in Names, Submit(n)
  PROVE  InputInv'
<1>1. /\ pc = "queue" /\ pass.dead = {} /\ job \in Jobs /\ born \in [Ids -> Birth]
      /\ UNCHANGED <<queue, inbox, cur, ret>> /\ pass'.dead = {} /\ nextId \notin queue
      /\ job' = job \/ job' = Checked(job, epoch)
  <2>1. pc = "queue" /\ UNCHANGED queue /\ pass'.dead = {} /\ UNCHANGED <<inbox, cur, ret>>
        /\ (job' = job \/ job' = Checked(job, epoch))
    BY DEF Submit, Refuse, DeclineSetup, Prepare, BackToTop, NoPass, layerVars, encVars
  <2>2. pass.dead = {} /\ nextId \notin queue
    <3>1. nextId \in Nat /\ ~(nextId < nextId)
      BY DEF Typed, TypeOK
    <3> QED
      BY <2>1, <3>1 DEF RowsInv, DeadLeaveWithWalk, QueuedBefore
  <2> QED
    BY <2>1, <2>2 DEF Typed, TypeOK, LayersTypeOK, Jobs
<1>2. \A k \in Ids : k # nextId => born'[k] = born[k]
  BY <1>1 DEF Submit, Refuse, DeclineSetup, Prepare, layerVars
<1>3. disk'.input = disk.input
  <2>1. disk \in Disk
    BY DEF Typed, TypeOK, LayersTypeOK
  <2> QED
    BY <2>1 DEF Submit, Refuse, DeclineSetup, Prepare, layerVars, Disk
<1>4. \A k \in Ids : Alive(k)' =>
        /\ Alive(k) /\ born'[k] = born[k] /\ (k \in disk.input => k \in disk'.input)
        /\ job[k].ready = "Downloaded" /\ job[k].fwd = 0 => Fetched(k)
  BY <1>1, <1>2, <1>3 DEF Alive, Fetched, Downloaded
<1> QED
  BY <1>1, <1>4, LayersQuiet, InputQuiet

\* A cancelled job goes with its followers and with the directories of both.
LEMMA CancelInput ==
  ASSUME Typed, InputInv, NEW i \in Ids, Cancel(i) \/ NoRequest
  PROVE  InputInv'
<1>1. job \in Jobs /\ disk \in Disk
  BY DEF Typed, TypeOK, LayersTypeOK, Jobs
<1>2. CASE NoRequest
  <2>1. UNCHANGED <<pass, queue, job, born, disk, inbox, cur, ret>>
    BY <1>2 DEF NoRequest, layerVars, encVars
  <2> QED
    BY <1>1, <2>1, LayersQuiet, InputLeaves DEF Alive
<1>3. CASE Cancel(i)
  <2> DEFINE gone == {i} \cup ForwardedTo({i})
             d == [disk EXCEPT !.marker = @ \cup {i} \cup {c \in queue : Batch(i) /\ born[c].parent = i}]
  <2>1. UNCHANGED <<pass, born, inbox, cur, ret>>
    BY <1>3 DEF Cancel, encVars
  <2>2. CASE UNCHANGED <<queue, job>> /\ disk'.input = disk.input
    BY <1>1, <2>1, <2>2, LayersQuiet, InputLeaves DEF Alive
  <2>3. CASE \E e \in Disk : /\ e.input = disk.input /\ disk' = Cleaned(e, gone)
                             /\ queue' = queue \ gone /\ job' = Without(job, gone)
    <3> HIDE DEF gone
    <3>1. disk'.input = disk.input \ gone
      BY <2>3 DEF Cleaned, Disk
    <3>2. \A k \in Ids : Alive(k)' => Alive(k) /\ k \notin gone
      BY <2>1, <2>3 DEF Alive
    <3>3. job' \in Jobs
      BY <1>1, <2>3, WithoutType
    <3>4. \A k \in Ids : k \notin gone => job'[k] = job[k]
      BY <2>3, WithoutKeeps
    <3> QED
      BY <2>1, <3>1, <3>2, <3>3, <3>4, LayersQuiet, InputLeaves
  <2>4. d \in Disk /\ d.input = disk.input
    BY <1>1, <1>3 DEF Disk, Cancel, Typed, TypeOK
  <2>5. CachedInput(d, i) \in Disk /\ CachedInput(d, i).input = disk.input
    <3>1. LayersTypeOK /\ i \in Known
      BY <1>3 DEF Cancel, Typed, TypeOK
    <3> HIDE DEF d
    <3> QED
      BY <2>4, <3>1, CachedInputType DEF CachedInput, Disk
  <2>6. \/ UNCHANGED <<queue, job>> /\ disk' = d
        \/ \E e \in {d, CachedInput(d, i)} :
             disk' = Cleaned(e, gone) /\ queue' = queue \ gone /\ job' = Without(job, gone)
    <3>1. d = [disk EXCEPT !.marker = @ \cup ({i} \cup {c \in queue : Batch(i) /\ born[c].parent = i})]
      BY <1>1 DEF Disk
    <3> HIDE DEF d
    <3> QED
      BY <1>3, <3>1 DEF Cancel, FinalizeCancelled
  <2> HIDE DEF d, gone
  <2> QED
    BY <2>2, <2>3, <2>4, <2>5, <2>6
<1> QED
  BY <1>2, <1>3

\* At the end of the process there is no queue.
LEMMA GitInput ==
  ASSUME Typed, RowsInv, InputInv, GitQuery \/ ArmedGitQuery
  PROVE  InputInv'
<1>1. CASE GitSync
  BY <1>1 DEF GitSync, InputInv, Alive
<1>2. CASE /\ UNCHANGED <<queue, layerVars>> /\ (pass' = pass \/ pass' = NoPass) /\ pc \in {"queue", "git"}
           /\ job' = job \/ job' = Checked(job, epoch)
  <2>1. job \in Jobs /\ UNCHANGED <<born, disk, inbox, cur, ret>>
    BY <1>2 DEF Typed, TypeOK, Jobs, layerVars, encVars
  <2>2. pass.dead = {} /\ pass'.dead = {}
    BY <1>2 DEF RowsInv, DeadLeaveWithWalk, NoPass
  <2>3. \A k \in Ids : Alive(k)' => Alive(k)
    BY <1>2, <2>2 DEF Alive
  <2> QED
    BY <1>2, <2>1, <2>3, LayersQuiet, InputLeaves
<1> QED
  BY <1>1, <1>2 DEF GitQuery, ArmedGitQuery, BackToTop

\* A job is admitted with its input when its input is in the cache; no layer has
\* heard of it.
LEMMA AdmitInput ==
  ASSUME Typed, RowsInv, PlacesInv, InputInv, Admit
  PROVE  InputInv'
<1>1. PICK i \in pass.todo :
        \/ AdmitForwarded(i) \/ AdmitKilled(i) \/ AdmitDownload(i) \/ AdmitProbe(i)
        \/ AdmitStudio(i) \/ AdmitKeycode(i)
  BY DEF Admit
<1>2. pc = "admit" /\ UNCHANGED born /\ pass.dead = {}
  BY DEF Admit, RowsInv, DeadLeaveWithWalk
<1>3. i \in Ids /\ i \notin queue /\ \A l \in Layers : ~With(l, i)
  BY <1>2 DEF Typed, TypeOK, Pass, RowsInv, AdmittedIsNew, PlacesInv, Fresh
<1>4. /\ LayersTypeOK /\ Places /\ "Download" \in Layers /\ "Encode" \in Layers
      /\ job \in Jobs /\ disk \in Disk /\ 0 \notin Ids
  BY PnJobsAssumption DEF Typed, TypeOK, LayersTypeOK, PlacesInv, Layers, Pools, Jobs, Ids
<1>5. /\ \A k \in Ids : Brought(k)' => Brought(k)
      /\ \A k \in Ids : With("Encode", k)' => With("Encode", k) \/ k = i
      /\ ~AdmitStudio(i) => UNCHANGED <<inbox, cur, ret>>
  <2>1. ASSUME ~AdmitStudio(i) PROVE UNCHANGED <<inbox, cur, ret>>
    BY <1>1, <2>1 DEF AdmitForwarded, AdmitKilled, AdmitDownload, AdmitProbe, AdmitKeycode, encVars
  <2>2. CASE AdmitStudio(i)
    <3>1. EncodeSend(i) /\ UNCHANGED <<pend, run>>
      BY <2>2 DEF AdmitStudio, poolVars
    <3>2. ret'["Download"] = ret["Download"]
      BY <1>4, <3>1 DEF EncodeSend, EncodeReboot, LayersTypeOK
    <3> QED
      BY <1>3, <1>4, <2>1, <3>1, <3>2, SentToEncoder DEF Brought
  <2> QED
    BY <2>1, <2>2, LayersQuiet DEF NothingNew
<1>6. pass'.dead = {} /\ queue' \subseteq queue \cup {i}
  BY <1>1 DEF AdmitForwarded, AdmitKilled, AdmitDownload, AdmitProbe, AdmitStudio,
              AdmitKeycode, Push, BackToTop, NoPass
<1>7. \A k \in queue : k \in disk.input => k \in disk'.input
  <2>1. \A d \in Disk : disk.input \subseteq d.input => disk.input \ {i} \subseteq Cleaned(d, {i}).input
    BY DEF Cleaned, Disk
  <2>2. RoutedDisk(i) \in Disk /\ disk.input \subseteq RoutedDisk(i).input
    BY <1>3, <1>4 DEF RoutedDisk, Disk
  <2> QED
    BY <1>1, <1>3, <1>4, <2>1, <2>2
    DEF AdmitForwarded, AdmitKilled, AdmitDownload, AdmitProbe, AdmitStudio, AdmitKeycode, Push
<1>8. \A k \in queue : job'[k].ready = job[k].ready /\ job'[k].fwd = job[k].fwd
  <2>1. \/ \E j : job' = [job EXCEPT ![i] = j]
        \/ \E j, e : job' = Checked([job EXCEPT ![i] = j], e)
        \/ \E e : job' = Checked(job, e)
    BY <1>1 DEF AdmitForwarded, AdmitKilled, AdmitDownload, AdmitProbe, AdmitStudio,
                AdmitKeycode, Push, BackToTop
  <2>2. ASSUME NEW k \in queue, NEW jobs, NEW e, jobs[k] = job[k]
        PROVE  Checked(jobs, e)[k].ready = job[k].ready /\ Checked(jobs, e)[k].fwd = job[k].fwd
    <3>1. k \in Ids /\ job[k] \in Job
      BY <1>4, <2>2 DEF Typed, TypeOK, Jobs
    <3>2. Checked(jobs, e)[k] \in {job[k], [job[k] EXCEPT !.dispatched = FALSE]}
      BY <2>2, <3>1 DEF Checked, ResetDispatch
    <3> QED
      BY <3>1, <3>2 DEF Job
  <2>3. \A k \in queue : \A j : [job EXCEPT ![i] = j][k] = job[k]
    BY <1>3, <1>4 DEF Jobs, Typed, TypeOK
  <2>4. CASE \E j : job' = [job EXCEPT ![i] = j]
    BY <2>3, <2>4
  <2>5. CASE \E j, e : job' = Checked([job EXCEPT ![i] = j], e)
    <3>1. PICK j, e : job' = Checked([job EXCEPT ![i] = j], e)
      BY <2>5
    <3> DEFINE jobs == [job EXCEPT ![i] = j]
    <3>2. job' = Checked(jobs, e) /\ \A k \in queue : jobs[k] = job[k]
      BY <2>3, <3>1
    <3> HIDE DEF jobs
    <3> QED
      BY <2>2, <3>2
  <2>6. CASE \E e : job' = Checked(job, e)
    BY <2>2, <2>6
  <2> QED
    BY <2>1, <2>4, <2>5, <2>6
<1>9. i \in queue' => i \in disk'.input \/ ~Reads(i) \/ ~Fetched(i)'
  <2> SUFFICES ASSUME i \in queue', Reads(i) PROVE i \in disk'.input \/ ~Fetched(i)'
    OBVIOUS
  <2>1. ~AdmitStudio(i) /\ ~AdmitProbe(i) /\ ~AdmitKeycode(i)
    BY DEF Reads, AdmitStudio, AdmitProbe, AdmitKeycode
  <2>2. ~Brought(i)' /\ ~With("Encode", i)'
    BY <1>3, <1>4, <1>5, <2>1, LayersQuiet, BroughtIsWith DEF NothingNew
  <2>3. CASE AdmitKilled(i)
    BY <1>3, <2>3 DEF AdmitKilled
  <2>4. CASE AdmitForwarded(i)
    <3> DEFINE p == First(QueuedParents(i))
               j == Forwarded(NewJob, p)
    <3>1. QueuedParents(i) \in SUBSET Ids /\ QueuedParents(i) # {}
      BY <2>4 DEF AdmitForwarded, QueuedParents, Typed, TypeOK
    <3>2. p \in Ids
      BY <3>1, FirstIn
    <3>3. j \in Job /\ j.fwd = p
      BY <3>2, NewJobType, ForwardedType DEF Forwarded, NewJob, Typed
    <3>4. job' = Checked([job EXCEPT ![i] = j], epoch)
      BY <2>4 DEF AdmitForwarded, BackToTop
    <3> HIDE DEF p, j
    <3> DEFINE jobs == [job EXCEPT ![i] = j]
    <3>5. jobs \in Jobs /\ jobs[i] = j /\ job' = Checked(jobs, epoch)
      BY <1>3, <1>4, <3>3, <3>4 DEF Jobs
    <3> HIDE DEF jobs
    <3>6. job'[i].fwd = p
      BY <1>3, <3>3, <3>5, CheckedStage
    <3> QED
      BY <1>4, <2>2, <3>2, <3>6 DEF Fetched, Downloaded
  <2>5. CASE AdmitDownload(i)
    <3> DEFINE j == Routed(i, [NewJob EXCEPT !.worker = "dwl-pending"])
    <3>1. Push(i, j, epoch, RoutedDisk(i))
      BY <2>5 DEF AdmitDownload
    <3>2. job'[i] = j /\ disk' = RoutedDisk(i)
      BY <1>3, <1>4, <3>1 DEF Push, Jobs
    <3>3. RouteOf(i) # "cache" => j.ready # "Downloaded"
      BY DEF Routed, NewJob
    <3>4. RouteOf(i) = "cache" => i \in RoutedDisk(i).input
      BY <1>4 DEF RoutedDisk, Disk
    <3> HIDE DEF j
    <3> QED
      BY <2>2, <3>2, <3>3, <3>4 DEF Fetched, Downloaded
  <2> QED
    BY <1>1, <2>1, <2>3, <2>4, <2>5
<1>10. \A k \in Ids : Alive(k)' =>
         k \in disk'.input \/ ~Reads(k)' \/ ~Fetched(k)' \/ Rests(k)
  <2> SUFFICES ASSUME NEW k \in Ids, Alive(k)', Reads(k)', k \notin disk'.input,
                      Fetched(k)'
               PROVE  Rests(k)
    OBVIOUS
  <2>1. k \in queue' /\ Reads(k)
    BY <1>2 DEF Alive, Reads, Type
  <2>2. k # i
    BY <1>9, <2>1
  <2> QED
    BY <1>2, <1>5, <1>6, <1>7, <1>8, <2>1, <2>2 DEF Rests, Alive, Fetched, Downloaded
<1> QED
  BY <1>10, InputKept

\* A clock takes jobs from the queue, or empties the encoder.
LEMMA ClockInput ==
  ASSUME Typed, InputInv, ClockStep
  PROVE  InputInv'
<1>1. job \in Jobs /\ disk \in Disk /\ LayersTypeOK /\ "Download" \in Layers
  BY DEF Typed, TypeOK, LayersTypeOK, Jobs, Layers, Pools
<1>2. CASE ExpireCache \/ ExpireKeep
  <2>1. UNCHANGED <<pass, queue, job, born, inbox, cur, ret>> /\ disk'.input = disk.input
    BY <1>1, <1>2 DEF ExpireCache, ExpireKeep, mainVars, layerVars, encVars, Disk
  <2> QED
    BY <1>1, <2>1, LayersQuiet, InputLeaves DEF Alive
\* some leave, and with them their directories
<1>3. ASSUME NothingNew, UNCHANGED <<born, pass>>, NEW gone, NEW jobs \in Jobs, NEW e,
             job' = Without(jobs, gone) \/ job' = Checked(Without(jobs, gone), e),
             \A k \in Ids : Lease(jobs[k]) = Lease(job[k]),
             queue' = queue \ gone, disk' = Cleaned(disk, gone)
      PROVE  InputInv'
  <2>1. disk'.input = disk.input \ gone
    BY <1>1, <1>3 DEF Cleaned, Disk
  <2>2. Without(jobs, gone) \in Jobs /\ \A k \in Ids : k \notin gone => Without(jobs, gone)[k] = jobs[k]
    BY <1>3, WithoutType, WithoutKeeps
  <2> DEFINE left == Without(jobs, gone)
  <2>3. left \in Jobs /\ (job' = left \/ job' = Checked(left, e))
    BY <1>3, <2>2
  <2>4. \A k \in Ids : k \notin gone => left[k].ready = job[k].ready /\ left[k].fwd = job[k].fwd
    BY <1>3, <2>2 DEF Lease
  <2> HIDE DEF left
  <2>5. \A k \in Ids : Alive(k)' => k \notin gone /\ Alive(k)
    BY <1>3 DEF Alive
  <2> QED
    BY <1>3, <2>1, <2>3, <2>4, <2>5, InputLeaves
<1>4. ASSUME NEW i \in Ids, ProbeTimeout(i) PROVE InputInv'
  <2>1. /\ UNCHANGED <<inbox, cur, ret, born, pass>> /\ queue' = queue \ {i}
        /\ job' = Without(job, {i}) /\ disk' = Cleaned(disk, {i})
    BY <1>4 DEF ProbeTimeout, encVars
  <2> QED
    BY <1>1, <1>3, <2>1, LayersQuiet
<1>5. ASSUME EncodeReboot(<<>>) PROVE NothingNew
  <2>1. \A k \in Ids : ~With("Encode", k)'
    BY <1>1, <1>5, RebootEmpties DEF EncodeReboot
  <2>2. ret'["Download"] = ret["Download"]
    BY <1>1, <1>5 DEF EncodeReboot, LayersTypeOK
  <2> QED
    BY <2>1, <2>2 DEF NothingNew, Brought
<1>6. CASE DrainReboot \/ ReceiveReboot
  <2>1. /\ EncodeReboot(<<>>) /\ UNCHANGED <<pass, queue, born, disk>>
        /\ job' = job \/ job' = Checked(job, epoch + 1)
    BY <1>6 DEF DrainReboot, ReceiveReboot
  <2> QED
    BY <1>1, <1>5, <2>1, InputLeaves DEF Alive
<1>7. ASSUME NEW S \in SUBSET Ids, EncodeStall(S) PROVE InputInv'
  <2> DEFINE gone == S \cup ForwardedTo(S)
             told == BatchTold(job, S, "Failed")
  <2>1. /\ EncodeReboot(<<>>) /\ UNCHANGED <<born, pass>> /\ queue' = queue \ gone
        /\ job' = Checked(Without(told, gone), epoch + 1) /\ disk' = Cleaned(disk, gone)
    BY <1>7 DEF EncodeStall
  <2>2. told \in Jobs /\ \A k \in Ids : Lease(told[k]) = Lease(job[k])
    BY <1>1, BatchToldType, BatchToldLease
  <2> HIDE DEF gone, told
  <2> QED
    BY <1>3, <1>5, <2>1, <2>2
<1> QED
  BY <1>2, <1>4, <1>6, <1>7 DEF ClockStep

\* The download pool says that a file is there after it has put it there.
LEMMA WorkersInput ==
  ASSUME Typed, PlacesInv, InputInv, WorkerStep
  PROVE  InputInv'
<1>1. /\ LayersTypeOK /\ Places /\ WorkersNext /\ UNCHANGED mainVars /\ disk \in Disk
      /\ "Download" \in Layers /\ "Encode" \in Layers /\ ret["Download"] \in Seq(Message)
  BY DEF Typed, TypeOK, LayersTypeOK, PlacesInv, WorkerStep, Layers, Pools
<1>2. UNCHANGED <<queue, pass, job, born>> /\ \A k \in Ids : With("Encode", k)' => With("Encode", k)
  BY <1>1, WorkersKeepTypes, WorkersMove DEF mainVars
<1>3. ASSUME disk.input \subseteq disk'.input,
             \A k \in Ids : Brought(k)' => Brought(k) \/ ~Reads(k) \/ k \in disk'.input
      PROVE  InputInv'
  <2>1. \A k \in Ids : Alive(k)' => Alive(k) /\ (Reads(k)' <=> Reads(k))
    BY <1>2 DEF Alive, Reads, Type
  <2>2. \A k \in Ids : Alive(k)' =>
          k \in disk'.input \/ ~Reads(k)' \/ ~Fetched(k)' \/ Rests(k)
    BY <1>2, <1>3, <2>1 DEF Rests, Fetched, Downloaded
  <2> QED
    BY <2>2, InputKept
\* what the layers say but for that
<1>4. ASSUME ret' = ret \/ \E l \in Layers, m \in Message :
               /\ l = "Download" => ~(m.kind = "stage" /\ m.stage = "Downloaded")
               /\ ret' = Sent(l, m),
             disk.input \subseteq disk'.input
      PROVE  InputInv'
  <2>1. CASE ret' = ret
    BY <1>3, <1>4, <2>1 DEF Brought
  <2>2. ASSUME NEW l \in Layers, NEW m \in Message, ret' = Sent(l, m),
               l = "Download" => ~(m.kind = "stage" /\ m.stage = "Downloaded")
        PROVE  InputInv'
    <3>1. CASE l # "Download"
      <4>1. ret'["Download"] = ret["Download"]
        BY <1>1, <2>2, <3>1 DEF Sent, LayersTypeOK
      <4> QED
        BY <1>3, <1>4, <4>1 DEF Brought
    <3>2. CASE l = "Download"
      <4>1. ret'["Download"] = Append(ret["Download"], m)
        BY <1>1, <2>2, <3>2 DEF Sent, LayersTypeOK
      <4>2. \A k \in Ids : Brought(k)' => Brought(k)
        BY <1>1, <2>2, <3>2, <4>1, BroughtMore DEF Brought, Brings
      <4> QED
        BY <1>3, <1>4, <4>2
    <3> QED
      BY <3>1, <3>2
  <2> QED
    BY <1>4, <2>1, <2>2
<1>5. \A i \in Ids : \A s \in Stages :
        /\ StageMsg(i, s) \in Message /\ StageMsg(i, s).kind = "stage"
        /\ StageMsg(i, s).stage = s /\ StageMsg(i, s).id = i
  BY MessageTypes DEF StageMsg, Note
<1>6. \A i \in Ids : /\ AssignMsg(i) \in Message /\ AssignMsg(i).kind = "assign"
                     /\ \A o \in Ids0 : /\ DuplicateMsg(i, o) \in Message
                                        /\ DuplicateMsg(i, o).kind = "duplicate"
                     /\ \A f \in Idx : /\ FileDoneMsg(i, f) \in Message
                                       /\ FileDoneMsg(i, f).kind = "filedone"
  BY MessageTypes DEF AssignMsg, DuplicateMsg, FileDoneMsg, Note
<1>7. Pools \subseteq Layers /\ "Probe" \in Layers /\ Pools = {"Download", "Upload", "Probe"}
  BY DEF Layers, Pools
<1>8. CASE EncodeTake
  <2>1. Head(inbox) \in Ids /\ disk' = disk
    BY <1>8 DEF EncodeTake, Typed, TypeOK, LayersTypeOK
  <2>2. \E s \in {"Cancelled", "Encoding"} : ret' = Sent("Encode", StageMsg(Head(inbox), s))
    BY <1>8 DEF EncodeTake
  <2> QED
    BY <1>1, <1>4, <1>5, <2>1, <2>2 DEF Stages
<1>9. ASSUME NEW s \in {"Encoded", "Failed", "Cancelled"}, EncodeEnd(s) PROVE InputInv'
  <2>1. cur \in Ids /\ ret' = Sent("Encode", StageMsg(cur, s)) /\ s \in Stages /\ disk' = disk
    BY <1>9, PnJobsAssumption DEF EncodeEnd, Typed, TypeOK, LayersTypeOK, Ids, Ids0, Stages
  <2> QED
    BY <1>1, <1>4, <1>5, <2>1
<1>10. ASSUME NEW p \in Pools, PoolStart(p) PROVE InputInv'
  <2>1. PICK i \in Ids : i = Head(pend[p])
    BY <1>1, <1>10 DEF PoolStart, LayersTypeOK
  <2>2. disk' = disk /\ (ret' = ret \/ ret' = Sent(p, AssignMsg(i)))
    BY <1>10, <2>1 DEF PoolStart, TrySent
  <2> QED
    BY <1>4, <1>6, <1>7, <2>2
<1>11. ASSUME NEW i \in Ids, Download(i) PROVE InputInv'
  <2>1. ret' = Sent("Download", StageMsg(i, "Downloaded"))
    BY <1>11 DEF Download, PoolEnd
  <2>2. "Downloaded" \in Stages
    BY DEF Stages
  <2>3. ret'["Download"] = Append(ret["Download"], StageMsg(i, "Downloaded"))
    BY <1>1, <2>1 DEF Sent, LayersTypeOK
  <2>4. \A k \in Ids : Brought(k)' => Brought(k) \/ k = i
    BY <1>1, <1>5, <2>2, <2>3, BroughtMore DEF Brought, Brings
  <2>5. disk'.input = disk.input \cup {i} \/ (disk' = disk /\ ~Reads(i))
    BY <1>1, <1>11 DEF Download, PreservesAll, Reads, Type, Disk
  <2> QED
    BY <1>3, <2>4, <2>5
<1>12. ASSUME NEW p \in Pools, NEW i \in Ids, PoolStep(p, i) PROVE InputInv'
  <2>1. CASE Download(i)
    BY <1>11, <2>1
  <2>2. CASE /\ disk' = disk
             /\ \E s \in Stages : /\ p = "Download" => s # "Downloaded"
                                  /\ ret' = Sent(p, StageMsg(i, s))
    BY <1>4, <1>5, <1>7, <2>2
  <2>3. CASE p = "Upload" /\ PoolEnd(p, i, StageMsg(i, "Uploaded")) /\ UNCHANGED disk
    BY <2>2, <2>3 DEF PoolEnd, Stages
  <2>4. CASE p = "Probe" /\ PoolEnd(p, i, StageMsg(i, ProbeResult(i))) /\ UNCHANGED disk
    BY <2>2, <2>4 DEF PoolEnd, Stages, ProbeResult
  <2>5. CASE PoolFailed(p, i) \/ PoolCancelled(p, i)
    BY <2>2, <2>5 DEF PoolFailed, PoolCancelled, PoolEnd, Stages
  <2> QED
    BY <1>12, <2>1, <2>3, <2>4, <2>5 DEF PoolStep, PoolDone
<1>13. ASSUME NEW p \in Pools, NEW i \in Ids, FetchTorrent(p, i) PROVE InputInv'
  <2>1. ret' = ret /\ disk'.input = disk.input
    BY <1>1, <1>13 DEF FetchTorrent, Disk
  <2> QED
    BY <1>4, <2>1
<1>14. ASSUME NEW i \in Known, DownloadStep(i) PROVE InputInv'
  <2>1. i \in Ids
    BY DEF Known
  <2>2. CASE LockTorrent(i)
    BY <1>4, <2>2 DEF LockTorrent
  <2>3. CASE TorrentLocked(i)
    <3>1. disk' = disk /\ \E o \in Ids0 : ret' = Sent("Download", DuplicateMsg(i, o))
      BY <2>3, PnJobsAssumption DEF TorrentLocked, LockHolders, PoolEnd, Ids, Ids0
    <3> QED
      BY <1>1, <1>4, <1>6, <2>1, <3>1
  <2>4. CASE FileDone(i)
    <3>1. PICK f \in Entries(born[i]) : ret' = ret \/ ret' = Sent("Download", FileDoneMsg(i, f))
      BY <2>4 DEF FileDone, TrySent
    <3>2. f \in Idx /\ disk' = disk
      BY <1>1, <2>1, <2>4, BornOfRequest DEF FileDone, Known, LayersTypeOK, Entries, Request, Idx
    <3> QED
      BY <1>1, <1>4, <1>6, <2>1, <3>1, <3>2
  <2> QED
    BY <1>14, <2>2, <2>3, <2>4 DEF DownloadStep
<1>15. ASSUME NEW i \in Ids, PreviewStart(i) PROVE InputInv'
  BY <1>4, <1>5, <1>7, <1>15 DEF PreviewStart, Stages
<1> QED
  BY <1>1, <1>8, <1>9, <1>10, <1>12, <1>13, <1>14, <1>15 DEF WorkersNext, EncoderNext, PoolNext, Known

\* A stage brings the input of the job it is about, and nothing of its followers'.
LEMMA StageInput ==
  ASSUME Typed, RowsInv, InputInv, NEW m \in Message, HandleStage(m), pass.dead = {},
         NothingNew, m.stage = "Downloaded" => Brought(m.id)
  PROVE  InputInv'
<1> DEFINE i == m.id
           s == m.stage
           gone == (IF s \in Terminal THEN {i} \cup ForwardedTo({i}) ELSE {}) \cup ProbeLeft(i, s)
           staged == [job EXCEPT ![i] = Staged(@, s)]
           told == BatchTold(staged, {i}, s)
           synced == Synced(told, i, s, job[i].worker)
           cached == IF CachesAt(i, s) THEN CachedInput(disk, i) ELSE disk
<1>1. /\ i \in queue /\ i \in Ids /\ s \in Stages /\ job \in Jobs /\ queue \subseteq Ids
      /\ 0 \notin Ids /\ disk \in Disk /\ LayersTypeOK
  <2>1. i \in queue /\ i \in Ids /\ s \in Stages
    BY DEF HandleStage, Message
  <2>2. 0 \notin Ids
    BY PnJobsAssumption DEF Ids
  <2> QED
    BY <2>1, <2>2 DEF Typed, TypeOK, LayersTypeOK, Jobs
<1>2. /\ queue' = queue \ gone /\ job' = Without(synced, gone) /\ born' = born
      /\ disk' = Cleaned(cached, gone) /\ pass'.dead = {}
  BY DEF HandleStage, StartDup, NoPass
<1>3. disk'.input = disk.input \ gone
  <2>1. i \in Known
    BY <1>1 DEF Typed, TypeOK
  <2>2. cached \in Disk /\ cached.input = disk.input
    BY <1>1, <2>1, CachedInputType DEF CachedInput, Disk
  <2> HIDE DEF cached, gone
  <2> QED
    BY <1>2, <2>2 DEF Cleaned, Disk
<1>4. staged \in Jobs /\ staged[i] = Staged(job[i], s) /\ \A k \in Ids \ {i} : staged[k] = job[k]
  <2>1. job[i] \in Job
    BY <1>1 DEF Jobs
  <2>2. Staged(job[i], s) \in Job
    BY <1>1, <2>1 DEF Staged, Job
  <2> QED
    BY <1>1, <2>2 DEF Jobs
<1>5. told \in Jobs /\ \A k \in Ids : Lease(told[k]) = Lease(staged[k])
  <2>1. staged \in Jobs /\ {i} \in SUBSET Ids
    BY <1>1, <1>4
  <2> HIDE DEF staged, i, s
  <2> QED
    BY <2>1, BatchToldLease, BatchToldType
<1>6. \A k \in Ids :
        /\ k \notin ForwardedTo({i}) => synced[k] = told[k]
        /\ k \in ForwardedTo({i}) =>
             synced[k] = [told[k] EXCEPT !.ready = s, !.worker = ForwardedWorker(job[i].worker)]
  BY DEF Synced
<1> HIDE DEF gone, told, synced, cached
<1>7. \A k \in queue' : k \in queue /\ k \in Ids /\ k \notin gone /\ job'[k] = synced[k]
  BY <1>1, <1>2, WithoutKeeps
<1>8. ASSUME NEW k \in Ids, Alive(k)', Downloaded(k)' PROVE Fetched(k)
  <2>1. k \in queue /\ job'[k] = synced[k] /\ job[k] \in Job /\ told[k] \in Job
    BY <1>1, <1>5, <1>7, <1>8 DEF Alive, Jobs
  <2>2. CASE k \in ForwardedTo({i})
    <3>1. job[k].fwd # 0
      BY <1>1, <2>2 DEF ForwardedTo
    <3>2. staged[k].fwd = job[k].fwd
      BY <1>1, <1>4, <2>1 DEF Staged, Job
    <3> HIDE DEF staged, i, s
    <3>3. told[k].fwd = job[k].fwd
      BY <1>5, <3>2 DEF Lease
    <3>4. job'[k] = [told[k] EXCEPT !.ready = s, !.worker = ForwardedWorker(job[i].worker)]
      BY <1>6, <1>8, <2>1, <2>2
    <3>5. job'[k].fwd # 0
      BY <2>1, <3>1, <3>3, <3>4 DEF Job
    <3> QED
      BY <1>8, <3>5 DEF Downloaded
  <2>3. CASE k \notin ForwardedTo({i}) /\ k # i
    <3>1. Lease(job'[k]) = Lease(job[k])
      BY <1>4, <1>5, <1>6, <2>1, <2>3
    <3> QED
      BY <1>8, <3>1 DEF Lease, Downloaded, Fetched
  <2>4. CASE k \notin ForwardedTo({i}) /\ k = i
    <3>1. Lease(job'[k]) = Lease(Staged(job[k], s))
      <4>1. staged[k] = Staged(job[k], s)
        BY <1>4, <2>4
      <4> HIDE DEF staged, i, s
      <4> QED
        BY <1>5, <1>6, <2>1, <2>4, <4>1
    <3>2. job'[k].ready = s
      BY <2>1, <3>1 DEF Lease, Staged, Job
    <3> QED
      BY <1>8, <2>4, <3>2 DEF Downloaded, Fetched
  <2> QED
    BY <2>2, <2>3, <2>4
<1>9. \A k \in Ids : Alive(k)' => ~Fetched(k)' \/ Rests(k)
  BY <1>2, <1>3, <1>7, <1>8 DEF Alive, Fetched, Rests, NothingNew
<1> QED
  BY <1>9, InputKept

\* A child is made of a file that is there.
LEMMA FileDoneInput ==
  ASSUME Typed, RowsInv, InputInv, NEW m \in Message, HandleFileDone(m), pass.dead = {}, NothingNew
  PROVE  InputInv'
<1> DEFINE p == m.id
           f == m.file
           child == [NewJob EXCEPT !.ready = "Downloaded", !.worker = "enc-pending"]
<1>1. p \in Ids /\ job \in Jobs /\ disk \in Disk /\ LayersTypeOK
  BY DEF Typed, TypeOK, LayersTypeOK, Message, Jobs
<1>2. ASSUME NEW j \in Job, Lease(j) = Lease(job[p]), UNCHANGED <<queue, born, disk>>,
             BackToTop([job EXCEPT ![p] = j])
      PROVE  InputInv'
  <2> DEFINE jobs == [job EXCEPT ![p] = j]
  <2>1. jobs \in Jobs /\ BackToTop(jobs) /\ \A k \in Ids : Lease(jobs[k]) = Lease(job[k])
    BY <1>1, <1>2 DEF Jobs
  <2> HIDE DEF jobs
  <2> QED
    BY <1>1, <1>2, <2>1, InputLeaves DEF BackToTop, NoPass, Alive, Lease
<1>3. CASE BackToTop(job) /\ UNCHANGED <<queue, born, disk>>
  BY <1>1, <1>3, InputLeaves DEF BackToTop, NoPass, Alive
<1>4. CASE BackToTop([job EXCEPT ![p].failed = @ + 1]) /\ UNCHANGED <<queue, born, disk>>
  <2> DEFINE j == [job[p] EXCEPT !.failed = @ + 1]
  <2>1. job[p] \in Job
    BY <1>1 DEF Jobs
  <2>2. j \in Job /\ Lease(j) = Lease(job[p])
    BY <2>1 DEF Job, Lease
  <2>3. BackToTop([job EXCEPT ![p] = j])
    BY <1>4
  <2> HIDE DEF j
  <2> QED
    BY <1>2, <1>4, <2>2, <2>3
<1>5. CASE /\ nextId \in Ids
           /\ born' = [born EXCEPT ![nextId] = [name |-> born[p].name, parent |-> p, idx |-> f]]
           /\ disk' = [disk EXCEPT !.input = @ \cup {nextId}]
           /\ queue' = queue \cup {nextId}
           /\ BackToTop([job EXCEPT ![p].kid[f] = nextId, ![nextId] = child])
  <2> DEFINE j == [job[p] EXCEPT !.kid[f] = nextId]
  <2>1. job[p] \in Job /\ nextId \in Ids0
    BY <1>1, <1>5, PnJobsAssumption DEF Jobs, Ids, Ids0
  <2>2. j \in Job /\ Lease(j) = Lease(job[p])
    BY <2>1 DEF Job, Lease
  <2>3. child \in Job
    BY NewJobType DEF Job, NewJob, Stages, Workers
  <2>4. PICK c \in Ids : c = nextId
    BY <1>5
  <2> DEFINE jobs == [job EXCEPT ![p] = j, ![c] = child]
  <2>5. BackToTop(jobs)
    BY <1>5, <2>4
  <2> HIDE DEF j, child
  <2>6. jobs \in Jobs /\ \A k \in Ids : k # c => Lease(jobs[k]) = Lease(job[k])
    BY <1>1, <2>2, <2>3 DEF Jobs
  <2>7. /\ \A k \in Ids : k # c => born'[k] = born[k]
        /\ disk'.input = disk.input \cup {c} /\ queue' = queue \cup {c} /\ pass'.dead = {}
        /\ job' = Checked(jobs, epoch)
    BY <1>1, <1>5, <2>4, <2>5 DEF LayersTypeOK, Disk, BackToTop, NoPass
  <2> HIDE DEF jobs
  <2>8. \A k \in Ids : Alive(k)' =>
          \/ k \in disk'.input
          \/ /\ Alive(k) /\ born'[k] = born[k] /\ (k \in disk.input => k \in disk'.input)
             /\ jobs[k].ready = "Downloaded" /\ jobs[k].fwd = 0 => Fetched(k)
    BY <2>6, <2>7 DEF Alive, Fetched, Downloaded, Lease
  <2> QED
    BY <2>6, <2>7, <2>8, InputQuiet
<1> QED
  BY <1>3, <1>4, <1>5 DEF HandleFileDone

\* Whatever the loop hears.
LEMMA MessageInput ==
  ASSUME Typed, RowsInv, PlacesInv, Speaks, InputInv, Receive \/ NoMessage
  PROVE  InputInv'
<1>1. /\ LayersTypeOK /\ job \in Jobs /\ Places /\ pass.dead = {}
      /\ "Encode" \in Layers /\ "Download" \in Layers
  BY DEF Typed, TypeOK, Jobs, PlacesInv, Receive, NoMessage, RowsInv, DeadLeaveWithWalk,
         Layers, Pools
<1>2. CASE NoMessage
  <2>1. UNCHANGED <<inbox, cur, ret, born, queue, job, disk>> /\ pass'.dead = {}
    BY <1>2 DEF NoMessage, StartDup, NoPass, layerVars, encVars
  <2> QED
    BY <1>1, <2>1, LayersQuiet, InputLeaves DEF Alive
<1>3. CASE Receive
  <2>1. PICK l \in Layers :
          /\ ret[l] # <<>> /\ Received(l)
          /\ LET m == Head(ret[l]) IN
               \/ HandleStale(m) \/ HandleAssign(l, m) \/ HandleFileDone(m)
               \/ HandleDuplicate(m) \/ HandleStage(m)
    BY <1>3 DEF Receive
  <2>2. PICK m : m = Head(ret[l])
    OBVIOUS
  <2>3. \/ HandleStale(m) \/ HandleAssign(l, m) \/ HandleFileDone(m)
        \/ HandleDuplicate(m) \/ HandleStage(m)
    BY <2>1, <2>2
  <2>4. UNCHANGED <<pend, run, inbox, cur, epoch>>
    BY <1>3 DEF Receive, poolVars, encVars
  <2>5. m \in Message /\ m.id \in Ids /\ \A k \in Ids : With("Encode", k)' => With("Encode", k)
    BY <1>1, <2>1, <2>2, <2>4, Heard
  <2>6. Says(l, m)
    BY <1>1, <2>1, <2>2, SaidFirst
  <2>7. NothingNew
    <3>1. ret'["Download"] = ret["Download"]
          \/ (ret["Download"] # <<>> /\ ret'["Download"] = Tail(ret["Download"]))
      BY <1>1, <2>1 DEF Received, LayersTypeOK
    <3>2. ret["Download"] \in Seq(Message)
      BY <1>1 DEF LayersTypeOK
    <3> QED
      BY <2>5, <3>1, <3>2, BroughtLess DEF NothingNew, Brought
  <2>8. CASE HandleStale(m)
    <3>1. UNCHANGED <<born, queue, job, disk>> /\ pass'.dead = {}
      BY <2>8 DEF HandleStale, StartDup, NoPass
    <3> QED
      BY <1>1, <2>7, <3>1, InputLeaves DEF Alive
\* a new label, or somebody to wait for
  <2>9. ASSUME NEW jobs \in Jobs, BackToTop(jobs), UNCHANGED <<born, queue, disk>>,
               \A k \in Ids : jobs[k].ready = job[k].ready /\ jobs[k].fwd = job[k].fwd
        PROVE  InputInv'
    BY <1>1, <2>7, <2>9, InputLeaves DEF BackToTop, NoPass, Alive
  <2>10. CASE HandleAssign(l, m)
    <3> DEFINE label(c) == IF c = m.id THEN [job[c] EXCEPT !.worker = SlotOf(l)]
                           ELSE IF c \in ForwardedTo({m.id})
                                THEN [job[c] EXCEPT !.worker = ForwardedWorker(SlotOf(l))]
                                ELSE job[c]
               jobs == [c \in Ids |-> label(c)]
    <3>1. BackToTop(jobs) /\ UNCHANGED <<born, queue, disk>>
      BY <2>10 DEF HandleAssign
    <3>2. SlotOf(l) \in Workers
      BY DEF SlotOf, Workers
    <3>3. ASSUME NEW c \in Ids
          PROVE  label(c) \in Job /\ label(c).ready = job[c].ready /\ label(c).fwd = job[c].fwd
      <4>1. job[c] \in Job
        BY <1>1 DEF Jobs
      <4>2. \A w \in Workers : /\ [job[c] EXCEPT !.worker = w] \in Job
                               /\ [job[c] EXCEPT !.worker = w].ready = job[c].ready
                               /\ [job[c] EXCEPT !.worker = w].fwd = job[c].fwd
        BY <4>1 DEF Job
      <4> QED
        BY <3>2, <4>1, <4>2, ForwardedWorkerType
    <3> HIDE DEF label
    <3>4. /\ jobs \in Jobs
          /\ \A k \in Ids : jobs[k].ready = job[k].ready /\ jobs[k].fwd = job[k].fwd
      BY <3>3 DEF Jobs
    <3> HIDE DEF jobs
    <3> QED
      BY <2>9, <3>1, <3>4
  <2>11. CASE HandleDuplicate(m)
    <3> DEFINE jobs == [job EXCEPT ![m.id].dup = m.owner]
               j == [job[m.id] EXCEPT !.dup = m.owner]
    <3>1. BackToTop(jobs) /\ UNCHANGED <<born, queue, disk>>
      BY <2>11 DEF HandleDuplicate
    <3>2. job[m.id] \in Job /\ m.owner \in Ids0
      BY <1>1, <2>5 DEF Jobs, Message
    <3>3. j \in Job /\ j.ready = job[m.id].ready /\ j.fwd = job[m.id].fwd
      BY <3>2 DEF Job
    <3>4. jobs \in Jobs /\ jobs[m.id] = j /\ \A k \in Ids : k # m.id => jobs[k] = job[k]
      BY <1>1, <2>5, <3>3 DEF Jobs
    <3> HIDE DEF jobs, j
    <3>5. \A k \in Ids : jobs[k].ready = job[k].ready /\ jobs[k].fwd = job[k].fwd
      BY <3>3, <3>4
    <3> QED
      BY <2>9, <3>1, <3>4, <3>5
  <2>12. CASE HandleFileDone(m)
    BY <1>1, <2>5, <2>7, <2>12, FileDoneInput
  <2>13. CASE HandleStage(m)
    <3>1. m.stage = "Downloaded" => l = "Download"
      BY <2>6, <2>13 DEF HandleStage, Says, StagesOf
    <3>2. m.stage = "Downloaded" => Brought(m.id)
      BY <1>1, <2>1, <2>2, <2>13, <3>1, BroughtLess
      DEF HandleStage, Brought, Brings, LayersTypeOK
    <3> QED
      BY <1>1, <2>5, <2>7, <2>13, <3>2, StageInput
  <2> QED
    BY <2>3, <2>8, <2>10, <2>11, <2>12, <2>13
<1> QED
  BY <1>2, <1>3

-----------------------------------------------------------------------------
\* Who waited for an input gets it with the word that it is there.
LEMMA WaitWalkInput ==
  ASSUME Typed, RowsInv, InputInv, NEW i \in Ids, DupStep(i) \/ WaitStep(i)
  PROVE  InputInv'
<1>1. /\ i \in pass.todo /\ UNCHANGED <<queue, born, inbox, cur, ret>>
      /\ disk \in Disk /\ job \in Jobs /\ pass \in Pass
  BY DEF DupStep, WaitStep, At, encVars, Typed, TypeOK, LayersTypeOK, Jobs
<1>2. job[i] \in Job
  BY <1>1 DEF Jobs
<1>3. ASSUME \A k \in Ids \ {i} : job'[k] = job[k],
             \A k \in Ids \ {i} : k \in disk.input => k \in disk'.input,
             pass.dead \subseteq pass'.dead,
             i \in pass'.dead \/ i \in disk'.input
               \/ (disk'.input = disk.input /\ (job'[i] = job[i] \/ job'[i].ready # "Downloaded"))
      PROVE  InputInv'
  <2>1. \A k \in Ids : Alive(k)' =>
          k \in disk'.input \/ ~Reads(k)' \/ ~Fetched(k)' \/ Rests(k)
    BY <1>1, <1>3, LayersQuiet DEF Alive, NothingNew, Rests, Fetched, Downloaded
  <2> QED
    BY <2>1, InputKept
<1>4. CASE DupStep(i)
  <2>1. pass'.dead = pass.dead
    BY <1>1, <1>4 DEF DupStep, Past, Pass
  <2>2. \A k \in Ids \ {i} : job'[k] = job[k]
    BY <1>1, <1>4 DEF DupStep, Jobs
  <2>3. \/ disk' = [disk EXCEPT !.input = @ \cup {i}]
        \/ UNCHANGED disk /\ (job' = job \/ job' = [job EXCEPT ![i] = Requeued(@)])
    BY <1>4 DEF DupStep
  <2>4. Requeued(job[i]).ready # "Downloaded"
    BY <1>2 DEF Requeued, Job
  <2>5. i \in disk'.input \/ (disk' = disk /\ (job'[i] = job[i] \/ job'[i].ready # "Downloaded"))
    BY <1>1, <2>3, <2>4 DEF Disk, Jobs
  <2>6. disk.input \subseteq disk'.input
    BY <1>1, <2>3 DEF Disk
  <2> QED
    BY <1>3, <2>1, <2>2, <2>5, <2>6
<1>5. CASE WaitStep(i)
  <2>1. CASE pass' = Past(i) /\ UNCHANGED <<job, disk>>
    BY <1>1, <1>3, <2>1 DEF Past, Pass
  <2>2. CASE pass' = Past(i) /\ job' = [job EXCEPT ![i] = Routed(i, @)] /\ disk' = RoutedDisk(i)
    <3>1. pass'.dead = pass.dead /\ \A k \in Ids \ {i} : job'[k] = job[k]
      BY <1>1, <2>2 DEF Past, Pass, Jobs
    <3>2. /\ RouteOf(i) = "cache" => disk'.input = disk.input \cup {i}
          /\ RouteOf(i) # "cache" => disk' = disk
      BY <1>1, <2>2 DEF RoutedDisk, Disk
    <3>3. job'[i] = Routed(i, job[i])
      BY <1>1, <2>2 DEF Jobs
    <3>4. RouteOf(i) # "cache" => job'[i].ready # "Downloaded"
      BY <1>2, <3>3 DEF Routed, Job
    <3> QED
      BY <1>3, <3>1, <3>2, <3>4
  <2>3. CASE Killed(i) /\ UNCHANGED job
    <3>1. pass'.dead = pass.dead \cup {i} /\ disk'.input = disk.input \ {i}
      BY <1>1, <2>3 DEF Killed, Past, Pass, Cleaned, Disk
    <3> QED
      BY <1>3, <2>3, <3>1
  <2> QED
    BY <1>5, <2>1, <2>2, <2>3 DEF WaitStep
<1> QED
  BY <1>4, <1>5

\* What is sent to the encoder was downloaded, and nothing but a backup goes from
\* its directory while its job lives.
LEMMA ProgressInput ==
  ASSUME Typed, RowsInv, InputInv, NEW i \in Ids, ProgressStep(i)
  PROVE  InputInv'
<1>1. i \in pass.todo /\ pc = "progress" /\ UNCHANGED <<queue, born>>
  BY DEF ProgressStep, ProgressSkip, Skip, KeycodeWait, KeycodeFail, KeycodeDispatch,
         DispatchProbeLayer, DispatchUpload, FinishKeep, EncodeForward, EncodeWaitsForInput,
         EncodeHeldBack, EncodeDispatch, DispatchKilled, EncodeReady, Encodable, Progressing,
         At, Steady, layerVars
<1>2. /\ Alive(i) /\ LayersTypeOK /\ disk \in Disk /\ job \in Jobs /\ pass \in Pass
      /\ "Download" \in Layers
  BY <1>1 DEF RowsInv, WalkVisitsLiving, Alive, Typed, TypeOK, LayersTypeOK, Jobs, Layers, Pools
<1>3. job[i] \in Job
  BY <1>2 DEF Jobs
\* without the encoder
<1>4. ASSUME UNCHANGED <<inbox, cur, ret>>, \A k \in Ids \ {i} : job'[k] = job[k],
             \A k \in Ids \ {i} : k \in disk.input => k \in disk'.input,
             pass.dead \subseteq pass'.dead,
             \/ i \in pass'.dead
             \/ ~Reads(i) /\ job'[i].ready # "Downloaded"
             \/ disk' = disk /\ (Downloaded(i)' => Downloaded(i))
      PROVE  InputInv'
  <2>1. Reads(i)' <=> Reads(i)
    BY <1>1 DEF Reads, Type
  <2>2. \A k \in Ids : Alive(k)' =>
          k \in disk'.input \/ ~Reads(k)' \/ ~Fetched(k)' \/ Rests(k)
    BY <1>1, <1>4, <2>1, LayersQuiet DEF Alive, NothingNew, Rests, Fetched, Downloaded
  <2> QED
    BY <2>2, InputKept
\* with it
<1>5. ASSUME EncodeSend(i), UNCHANGED <<disk, poolVars>>, pass'.dead = pass.dead,
             \A k \in Ids \ {i} : job'[k] = job[k], ~Reads(i) \/ Downloaded(i)
      PROVE  InputInv'
  <2>1. ret'["Download"] = ret["Download"]
    BY <1>2, <1>5 DEF EncodeSend, EncodeReboot, LayersTypeOK
  <2>2. \A k \in Ids : With("Encode", k)' => With("Encode", k) \/ k = i
    BY <1>1, <1>2, <1>5, SendReaches
  <2>3. i \in disk'.input \/ ~Reads(i)'
    BY <1>1, <1>2, <1>5 DEF InputInv, Fetched, Reads, Type
  <2>4. \A k \in Ids : Alive(k)' =>
          k \in disk'.input \/ ~Reads(k)' \/ ~Fetched(k)' \/ Rests(k)
    BY <1>1, <1>5, <2>1, <2>2, <2>3 DEF Alive, Brought, Rests, Fetched, Downloaded
  <2> QED
    BY <2>4, InputKept
<1>6. /\ Past(i).dead = pass.dead
      /\ Killed(i) => /\ pass'.dead = pass.dead \cup {i}
                      /\ \A k \in Ids \ {i} : k \in disk.input => k \in disk'.input
  BY <1>2, ZenonT(30) DEF Past, Killed, Pass, Cleaned, Disk
<1>7. CASE ProgressSkip(i) \/ EncodeHeldBack(i)
  <2>1. UNCHANGED layerVars /\ pass' = Past(i) /\ job' = job
    BY <1>7 DEF ProgressSkip, EncodeHeldBack, Skip
  <2>2. UNCHANGED <<inbox, cur, ret, disk>>
    BY <2>1 DEF layerVars, encVars
  <2> QED
    BY <1>4, <1>6, <2>1, <2>2 DEF Downloaded
<1>8. CASE DispatchKilled(i) \/ KeycodeFail(i)
  <2>1. UNCHANGED <<inbox, cur, ret>> /\ Killed(i)
    BY <1>8 DEF DispatchKilled, KeycodeFail, encVars
  <2>2. \A k \in Ids \ {i} : job'[k] = job[k]
    BY <1>2, <1>8 DEF DispatchKilled, KeycodeFail, Jobs
  <2> QED
    BY <1>4, <1>6, <2>1, <2>2
<1>9. CASE KeycodeWait(i)
  <2>1. UNCHANGED <<inbox, cur, ret, disk>> /\ pass' = Past(i)
        /\ job' = [job EXCEPT ![i].worker = "key-wait"]
    BY <1>9 DEF KeycodeWait, encVars
  <2>2. /\ \A k \in Ids \ {i} : job'[k] = job[k]
        /\ job'[i] = [job[i] EXCEPT !.worker = "key-wait"]
    BY <1>2, <2>1 DEF Jobs
  <2>3. Downloaded(i)' => Downloaded(i)
    BY <1>3, <2>2 DEF Job, Downloaded
  <2> QED
    BY <1>4, <1>6, <2>1, <2>2, <2>3
<1>10. CASE FinishKeep(i)
  <2>1. UNCHANGED <<inbox, cur, ret>> /\ pass'.dead = pass.dead \cup {i}
    BY <1>2, <1>10 DEF FinishKeep, encVars, Past, Pass
  <2>2. /\ \A k \in Ids \ {i} : job'[k] = job[k]
        /\ \A k \in Ids \ {i} : k \in disk.input => k \in disk'.input
    BY <1>2, <1>10, ZenonT(30) DEF FinishKeep, Jobs, Cleaned, Disk
  <2> QED
    BY <1>4, <2>1, <2>2
<1>11. CASE EncodeForward(i)
  <2>1. UNCHANGED <<inbox, cur, ret, disk>> /\ pass' = Past(i) /\ ForwardTarget(i) # 0
    BY <1>11 DEF EncodeForward, encVars
  <2>2. /\ \A k \in Ids \ {i} : job'[k] = job[k]
        /\ job'[i] = Forwarded(job[i], ForwardTarget(i))
    BY <1>2, <1>11 DEF EncodeForward, Jobs
  <2>3. ~Downloaded(i)'
    BY <1>3, <2>1, <2>2 DEF Job, Forwarded, Downloaded
  <2> QED
    BY <1>4, <1>6, <2>1, <2>2, <2>3
<1>12. CASE EncodeWaitsForInput(i)
  <2>1. UNCHANGED <<inbox, cur, ret, disk>> /\ pass' = Past(i)
    BY <1>12 DEF EncodeWaitsForInput, encVars
  <2>2. /\ \A k \in Ids \ {i} : job'[k] = job[k]
        /\ job'[i] = [job[i] EXCEPT !.dup = SourceTarget(i), !.ready = "Downloading",
                                    !.worker = "dwl-cache"]
    BY <1>2, <1>12 DEF EncodeWaitsForInput, Jobs
  <2>3. ~Downloaded(i)'
    BY <1>3, <2>2 DEF Job, Downloaded
  <2> QED
    BY <1>4, <1>6, <2>1, <2>2, <2>3
<1>13. ASSUME NEW p, NEW s \in {"Encoding", "Uploading"}, NEW w, PoolDispatch(i, p, s, w)
       PROVE  (\A k \in Ids \ {i} : job'[k] = job[k]) /\ job'[i].ready # "Downloaded"
  <2>1. /\ \A k \in Ids \ {i} : job'[k] = job[k]
        /\ job'[i] = [job[i] EXCEPT !.ready = s, !.worker = w]
    BY <1>2, <1>13 DEF PoolDispatch, Jobs
  <2> QED
    BY <1>3, <2>1 DEF Job
<1>14. CASE DispatchProbeLayer(i)
  <2>1. UNCHANGED <<inbox, cur, ret, disk>> /\ pass' = Past(i)
    BY <1>14 DEF DispatchProbeLayer, encVars
  <2> QED
    BY <1>4, <1>6, <1>13, <1>14, <2>1 DEF DispatchProbeLayer, Downloaded
<1>15. CASE DispatchUpload(i)
  <2>1. UNCHANGED <<inbox, cur, ret>> /\ pass'.dead = pass.dead
    BY <1>2, <1>15 DEF DispatchUpload, encVars, Past, Pass
  <2>2. (\A k \in Ids \ {i} : job'[k] = job[k]) /\ job'[i].ready # "Downloaded"
    BY <1>13, <1>15 DEF DispatchUpload
  <2>3. disk' = disk \/ (disk'.input = disk.input \ {i} /\ ~Reads(i))
    BY <1>2, <1>15 DEF DispatchUpload, Disk, Reads
  <2> QED
    BY <1>4, <2>1, <2>2, <2>3 DEF Downloaded
<1>16. CASE KeycodeDispatch(i)
  BY <1>2, <1>5, <1>6, <1>16 DEF KeycodeDispatch, KeycodeWaits, Reads, Jobs
<1>17. CASE EncodeDispatch(i)
  <2>1. /\ EncodeSend(i) /\ UNCHANGED <<disk, poolVars>> /\ Downloaded(i)
    BY <1>17 DEF EncodeDispatch, EncodeReady, Encodable, InEncodeBranch, Progressing, Downloaded
  <2>2. pass'.dead = pass.dead /\ \A k \in Ids \ {i} : job'[k] = job[k]
    BY <1>2, <1>17 DEF EncodeDispatch, Past, Pass, Jobs
  <2> QED
    BY <1>5, <2>1, <2>2
<1> QED
  BY <1>7, <1>8, <1>9, <1>10, <1>11, <1>12, <1>14, <1>15, <1>16, <1>17 DEF ProgressStep

\* The ends of the walks: who is brought along is no follower of a download.
LEMMA WalkEndsInput ==
  ASSUME Typed, RowsInv, InputInv, DupEnd \/ WaitEnd \/ ProgressEnd \/ BatchParents
  PROVE  InputInv'
<1>1. /\ job \in Jobs /\ pass \in Pass /\ disk \in Disk /\ UNCHANGED born /\ NothingNew
  <2>1. job \in Jobs /\ pass \in Pass /\ disk \in Disk
    BY DEF Typed, TypeOK, LayersTypeOK, Jobs
  <2>2. CASE DupEnd \/ WaitEnd \/ ProgressEnd
    <3>1. UNCHANGED layerVars
      BY <2>2 DEF DupEnd, WaitEnd, ProgressEnd
    <3>2. UNCHANGED <<born, inbox, cur, ret>>
      BY <3>1 DEF layerVars, encVars
    <3> QED
      BY <2>1, <3>2, LayersQuiet
  <2>3. CASE BatchParents
    <3>1. UNCHANGED <<born, inbox, cur, ret>>
      BY <2>3 DEF BatchParents, encVars
    <3> QED
      BY <2>1, <3>1, LayersQuiet
  <2> QED
    BY <2>2, <2>3
<1>2. CASE DupEnd
  <2>1. UNCHANGED <<queue, job, disk>> /\ pass.dead = {}
    BY <1>2 DEF DupEnd, layerVars, RowsInv, DeadLeaveWithWalk
  <2> QED
    BY <1>1, <2>1, InputLeaves DEF Alive
<1>3. CASE WaitEnd
  <2> DEFINE jobs == Without(job, pass.dead)
  <2>1. /\ queue' = queue \ pass.dead /\ job' = Checked(jobs, epoch) /\ UNCHANGED disk
    BY <1>3 DEF WaitEnd, layerVars
  <2>2. jobs \in Jobs /\ \A k \in queue' : k \in queue /\ k \notin pass.dead /\ jobs[k] = job[k]
    BY <1>1, <2>1, WithoutType, WithoutKeeps DEF Typed, TypeOK
  <2> HIDE DEF jobs
  <2> QED
    BY <1>1, <2>1, <2>2, InputLeaves DEF Alive
<1>4. CASE ProgressEnd
  <2> DEFINE followers == ForwardedTo(pass.uploads)
             synced == [c \in Ids |-> IF c \in followers
                                  THEN [job[c] EXCEPT !.ready = "Uploading", !.worker = "upl-forward"]
                                  ELSE job[c]]
  <2>1. queue' = queue \ pass.dead /\ job' = Without(synced, pass.dead) /\ UNCHANGED disk
    BY <1>4 DEF ProgressEnd, layerVars
  <2>2. ASSUME NEW k \in Ids
        PROVE  synced[k] \in Job /\ (synced[k] = job[k] \/ synced[k].ready = "Uploading")
    <3>1. job[k] \in Job
      BY <1>1 DEF Jobs
    <3>2. LET j == [job[k] EXCEPT !.ready = "Uploading", !.worker = "upl-forward"] IN
          j \in Job /\ j.ready = "Uploading"
      BY <3>1 DEF Job, Stages, Workers
    <3> QED
      BY <3>1, <3>2
  <2>3. synced \in Jobs
    BY <2>2 DEF Jobs
  <2> HIDE DEF followers, synced
  <2>4. job' \in Jobs /\ \A k \in queue' : /\ k \in queue /\ k \notin pass.dead
                                           /\ job'[k] = synced[k]
    BY <1>1, <2>1, <2>3, WithoutType, WithoutKeeps DEF Typed, TypeOK
  <2>5. \A k \in Ids : Alive(k)' =>
          /\ Alive(k) /\ born'[k] = born[k] /\ (k \in disk.input => k \in disk'.input)
          /\ job'[k].ready = "Downloaded" /\ job'[k].fwd = 0 => Fetched(k)
    BY <1>1, <2>1, <2>2, <2>4 DEF Alive, Fetched, Downloaded
  <2> QED
    BY <1>1, <2>4, <2>5, InputQuiet
<1>5. CASE BatchParents
  <2> DEFINE settled == [i \in Ids |->
               IF i \in queue /\ Batch(i) /\ job[i].ready = "Downloaded" /\ ~job[i].settled
               THEN Settle(born[i], job[i]) ELSE job[i]]
             done == {i \in queue : /\ Batch(i) /\ Complete(born[i], settled[i])
                                    /\ job[i].ready \in {"Downloaded", "Downloading"}}
             jobs == Without(settled, done)
  <2>1. /\ queue' = queue \ done /\ pass' = pass /\ disk' = Cleaned(disk, done)
        /\ job' = jobs \/ job' = Checked(jobs, epoch)
    BY <1>5 DEF BatchParents
  <2>2. \A k \in Ids : settled[k] \in Job /\ Lease(settled[k]) = Lease(job[k])
    BY SettledLease DEF SettledJob
  <2>3. settled \in Jobs
    BY <2>2 DEF Jobs
  <2> HIDE DEF settled, done
  <2>4. jobs \in Jobs /\ \A k \in queue' : /\ k \in queue /\ k \notin done
                                           /\ Lease(jobs[k]) = Lease(job[k])
    BY <1>1, <2>1, <2>2, <2>3, WithoutType, WithoutKeeps DEF Typed, TypeOK
  <2>5. disk'.input = disk.input \ done
    BY <1>1, <2>1 DEF Cleaned, Disk
  <2> HIDE DEF jobs
  <2>6. \A k \in Ids : Alive(k)' =>
          /\ Alive(k) /\ (k \in disk.input => k \in disk'.input)
          /\ jobs[k].ready = job[k].ready /\ jobs[k].fwd = job[k].fwd
    BY <2>1, <2>4, <2>5 DEF Alive, Lease
  <2> QED
    BY <1>1, <2>1, <2>4, <2>6, InputLeaves
<1> QED
  BY <1>2, <1>3, <1>4, <1>5

\* Every step of the program keeps the inputs.
LEMMA NextInput ==
  ASSUME LentInv, InputInv, [Next]_vars
  PROVE  InputInv'
<1> USE DEF LentInv
<1>1. CASE LoopStep
  BY <1>1, AdmitInput, CancelInput, MessageInput, WaitWalkInput, ProgressInput, WalkEndsInput,
     GitInput, PnJobsAssumption DEF LoopStep, Ids
<1>2. CASE ClientStep
  BY <1>2, SubmitInput, CancelInput, GitInput DEF ClientStep
<1>3. CASE ClockStep
  BY <1>3, ClockInput
<1>4. CASE WorkerStep
  BY <1>4, WorkersInput
<1>5. CASE UNCHANGED vars
  <2>1. UNCHANGED <<queue, pass, job, born, disk, inbox, cur, ret>> /\ job \in Jobs
    BY <1>5 DEF vars, mainVars, layerVars, encVars, Typed, TypeOK, Jobs
  <2> QED
    BY <2>1, LayersQuiet, InputLeaves DEF Alive
<1> QED
  BY <1>1, <1>2, <1>3, <1>4, <1>5 DEF Next

LEMMA AlwaysInput == Spec => []InputInv
<1>1. Init => InputInv
  BY DEF Init, InitWith, InputInv, Alive
<1>2. LentInv /\ InputInv /\ [Next]_vars => InputInv'
  BY NextInput
<1> QED
  BY <1>1, <1>2, AlwaysLent, PTL DEF Spec

\* The file an encode reads is in its directory as long as the encode waits or runs:
\* brought by a download, by the cache or by another job before the loop hears of it,
\* and taken away by nothing that leaves the job in the queue.  The two things that
\* must be in order for the job to stay in the queue must be so here too.
THEOREM EncoderFindsInput ==
  ASSUME \A n \in Names :
           Submissions[n].probe # 0 => Submissions[Submissions[n].probe].type = "Probe",
         "insert" \in Faults => \A n \in Names : Submissions[n].type # "Studio"
  PROVE  Spec => []EncoderHasInput
<1>1. InOrder
  BY DEF InOrder
<1>2. LentInv /\ ChildInv /\ InputInv => EncoderHasInput
  <2> SUFFICES ASSUME LentInv, ChildInv, InputInv, NEW i \in AtEncoder, Reads(i)
               PROVE  i \in disk.input
    BY DEF EncoderHasInput, Reads
  <2>1. i \in Ids /\ With("Encode", i) /\ Stays(i)
    BY <1>1, AtEncoderIsWith DEF Stays
  <2> QED
    BY <2>1 DEF ChildInv, InputInv, Alive, Fetched
<1> QED
  BY <1>2, AlwaysLent, AlwaysChildren, AlwaysInput, PTL

-----------------------------------------------------------------------------
(***************************************************************************)
(* How a batch counts its children.  A batch of the queue waits for its    *)
(* download, made one child at most of every file that was announced, and  *)
(* has counted no child that is still in the queue: so a batch whose count *)
(* is full has no child left.  That is so as long as every child can be    *)
(* built: one that cannot is counted at once, and again with the files     *)
(* that never came when the download is over.                              *)
(*                                                                         *)
(* And it has counted all that left but those the loop itself dropped on a *)
(* cancel request, at most one for each request, if every send succeeds,   *)
(* and nobody else asks for the output of one of its files: a child that   *)
(* follows another's encode would leave with it, uncounted.                *)
(***************************************************************************)

\* What a request asks for: the sources it may be found under, and its files
Sources(n) == {Submissions[n].link} \cup ({HashOf[Submissions[n].link]} \ {NoHash})
FilesOf(n) == IF Submissions[n].type = "Batch" THEN Submissions[n].files ELSE {Submissions[n].idx}
SameOutput(n, k) ==
  /\ Submissions[n].look = Submissions[k].look
  /\ Sources(n) \cap Sources(k) # {} /\ FilesOf(n) \cap FilesOf(k) # {}
Alone ==
  \A n, k \in Names :
    n # k /\ Submissions[n].type = "Batch" /\ Encodes(Submissions[k].type) => ~SameOutput(n, k)
Undisturbed == {"send", "child"} \cap Faults = {} /\ Alone

\* The children of a batch that have left the queue
Left(p) == {c \in Ids : born[c].parent = p /\ c \notin queue}

\* What a batch is and has counted
Tally(j) == <<j.ready, j.fwd, j.settled, j.kid, j.finished, j.failed>>

\* A batch waits for its download and for nothing else; only when it is over are
\* the files counted that never came.
Waits(p) ==
  /\ job[p].fwd = 0 /\ job[p].ready \in {"Queued", "Downloading", "Downloaded"}
  /\ job[p].settled => job[p].ready = "Downloaded"
  /\ db[p].stage # "Uploaded"
\* It knows its children by their files.
Made(p) ==
  /\ \A c \in Ids : born[c].parent = p =>
       born[c].idx \in Entries(born[p]) /\ job[p].kid[born[c].idx] = c
  /\ \A f \in Entries(born[p]) : job[p].kid[f] # 0 =>
       job[p].kid[f] \in Ids /\ born[job[p].kid[f]].parent = p /\ born[job[p].kid[f]].idx = f
\* It has counted children that left and files that never came, and no others; if it
\* is undisturbed, all of them but one at most for each cancel request.
Missing(b, j) == IF j.settled THEN Cardinality(Unspawned(b, j)) ELSE 0
Tells(n, m) == n <= m /\ (Undisturbed => n = m)
Nearly(n, m, k) == n <= m /\ (Undisturbed => m <= n + k)
Counted(p) ==
  Nearly(job[p].finished + job[p].failed, Cardinality(Left(p)) + Missing(born[p], job[p]), cancels)

Open(p) == Waits(p) /\ Made(p) /\ Counted(p)
BatchesOpen == \A p \in queue : Batch(p) => Open(p)

\* Only a job of the queue has children, and what is admitted is no child.
Handed ==
  /\ \A c \in Ids :
       /\ c >= nextId => born[c].parent = 0
       /\ born[c].parent # 0 => /\ born[c].parent < nextId
                                /\ ~(pc = "admit" /\ born[c].parent \in pass.todo)
  /\ pc = "admit" => \A i \in pass.todo : born[i].parent = 0

\* A file that is announced was asked for, and so was a probe.
Apt(m) ==
  /\ m.kind = "filedone" => m.file \in Entries(born[m.id])
  /\ m.kind = "stage" /\ m.stage = "Probed" => Type(m.id) = "Probe"
Asked == \A l \in Layers : \A k \in DOMAIN ret[l] : Apt(ret[l][k])

BatchesInv == BatchesOpen /\ Handed /\ Asked

\* Each request came once at most, and a child is of a batch and of one of its files.
Root(c) == born[c].name # 0 /\ born[c].parent = 0
Named ==
  /\ \A c \in Ids : Root(c) =>
       born[c].name \notin backlog /\ born[c].idx = Submissions[born[c].name].idx
  /\ \A c, d \in Ids : Root(c) /\ Root(d) /\ born[c].name = born[d].name => c = d
  /\ \A c \in Ids : born[c].parent # 0 =>
       LET p == born[c].parent IN
       /\ p \in Ids /\ Root(p) /\ Batch(p)
       /\ born[c].name = born[p].name /\ born[c].idx \in Entries(born[c])
\* Who claims an output in the progression walk has asked for it.
Claimant(k, i) ==
  LET b == born[i] IN
  /\ i \in Known /\ Encodes(TypeOf(b)) /\ ~IsBatch(b)
  /\ k \in Sources(b.name) \X {b.idx} \X {ReqOf(b).look}
Claims == pc = "progress" => \A c \in pass.parent : Claimant(c[1], c[2])
\* A child of a batch of the queue follows nobody, is not taken for a probe, and does
\* not die in a walk.
LeadsOn == \A c \in queue : born[c].parent \in queue => job[c].fwd = 0 /\ job[c].ready # "Probed"
NoChildDies == \A c \in pass.dead : born[c].parent = 0
Leads == LeadsOn /\ NoChildDies
ApartInv == Undisturbed => Named /\ Claims /\ Leads

\* Who leaves in a step is no child of a batch of the queue.
Orphans == Undisturbed => \A c \in queue \ queue' : born[c].parent \notin queue

\* The cancel requests are never fewer.
Onwards == cancels \in Nat /\ cancels' \in Nat /\ cancels <= cancels'

\* What a step does to the rows of batches, and what it may not do to children
NoneDone == \A p \in queue : Batch(p) => db'[p].stage # "Uploaded"
Outlives ==
  \A p \in queue \ queue' :
    db'[p].stage = "Uploaded" /\ Batch(p) => \A c \in queue' : born'[c].parent # p

-----------------------------------------------------------------------------
(* Counting                                                                 *)

\* A job that checks the reboot epoch has counted what it had counted.
LEMMA CheckedTally ==
  ASSUME NEW jobs \in Jobs, NEW e, NEW k \in Ids
  PROVE  Tally(Checked(jobs, e)[k]) = Tally(jobs[k])
<1>1. jobs[k] \in Job
  BY DEF Jobs
<1>2. Tally([jobs[k] EXCEPT !.dispatched = FALSE]) = Tally(jobs[k])
  BY <1>1 DEF Job, Tally
<1> QED
  BY <1>2 DEF Checked, ResetDispatch

\* Two records with the same tally wait, know and count alike.
LEMMA SameTally ==
  ASSUME NEW j \in Job, NEW k \in Job, Tally(j) = Tally(k)
  PROVE  /\ j.ready = k.ready /\ j.fwd = k.fwd /\ j.settled = k.settled /\ j.kid = k.kid
         /\ j.finished = k.finished /\ j.failed = k.failed
         /\ \A b : Missing(b, j) = Missing(b, k)
  BY DEF Tally, Missing, Unspawned

\* What was asked for is finite, and so is what never came.
LEMMA FilesCount ==
  ASSUME Typed, NEW p \in queue, NEW j
  PROVE  /\ Entries(born[p]) \subseteq Files /\ IsFiniteSet(Entries(born[p]))
         /\ Cardinality(Entries(born[p])) \in Nat
         /\ Unspawned(born[p], j) \subseteq Entries(born[p])
         /\ IsFiniteSet(Unspawned(born[p], j))
         /\ Cardinality(Unspawned(born[p], j)) \in Nat
         /\ Missing(born[p], j) \in Nat
<1>1. Entries(born[p]) \subseteq Files
  BY BornOfRequest DEF Typed, TypeOK, LayersTypeOK, Known, Entries, Request
<1>2. Unspawned(born[p], j) \subseteq Entries(born[p])
  BY DEF Unspawned
<1>3. /\ IsFiniteSet(Entries(born[p])) /\ IsFiniteSet(Unspawned(born[p], j))
  BY <1>1, <1>2, PnJobsAssumption, FS_Subset
<1>4. Cardinality(Entries(born[p])) \in Nat /\ Cardinality(Unspawned(born[p], j)) \in Nat
  BY <1>3, FS_CardinalityType
<1> QED
  BY <1>1, <1>2, <1>3, <1>4 DEF Missing

\* No step but the one that makes a child changes who is the child of p.
SameChildren(p) ==
  /\ born'[p] = born[p]
  /\ \A c \in Ids : born[c].parent = p \/ born'[c].parent = p => born'[c] = born[c]
  /\ \A c \in queue' : born[c].parent = p => c \in queue

\* What is nearly counted stays so.
LEMMA StillNearly ==
  ASSUME NEW n \in Nat, NEW m \in Nat, NEW k \in Nat, NEW l \in Nat, k <= l, Nearly(n, m, k)
  PROVE  Nearly(n, m, l)
  BY DEF Nearly

\* A batch that is told of children that leave has counted no more than left, and
\* no fewer than before.
LEMMA OpenTold ==
  ASSUME Typed, Typed', Onwards, NEW p \in queue, Open(p), SameChildren(p),
         NEW K \in SUBSET queue, K \cap queue' = {}, NEW j \in Job,
         /\ j.fwd = 0 /\ j.ready \in {"Queued", "Downloading", "Downloaded"}
         /\ j.settled => j.ready = "Downloaded"
         /\ j.kid = job[p].kid,
         Tells(j.finished + j.failed + Missing(born[p], job[p]),
               job[p].finished + job[p].failed + Missing(born[p], j)
                 + Cardinality({c \in K : born[c].parent = p})),
         Undisturbed => \A c \in queue \ queue' : born[c].parent = p => c \in K,
         Tally(job'[p]) = Tally(j), db'[p].stage # "Uploaded"
  PROVE  Open(p)'
<1> DEFINE new == {c \in K : born[c].parent = p}
<1>1. p \in Ids /\ job[p] \in Job /\ job'[p] \in Job /\ queue \subseteq Ids
  BY DEF Typed, TypeOK
<1>2. /\ job'[p].ready = j.ready /\ job'[p].fwd = j.fwd /\ job'[p].settled = j.settled
      /\ job'[p].kid = job[p].kid
      /\ job'[p].finished = j.finished /\ job'[p].failed = j.failed
      /\ Missing(born'[p], job'[p]) = Missing(born[p], j)
  BY <1>1, SameTally DEF SameChildren
<1>3. Waits(p)'
  BY <1>2 DEF Waits
<1>4. Made(p)'
  BY <1>2 DEF Open, Made, SameChildren
<1>5. Tells(Cardinality(Left(p)) + Cardinality(new), Cardinality(Left(p)'))
  <2>1. /\ Left(p) \subseteq Ids /\ new \subseteq Ids /\ Left(p)' \subseteq Ids
        /\ Left(p) \cap new = {} /\ Left(p) \cup new \subseteq Left(p)'
        /\ Undisturbed => Left(p) \cup new = Left(p)'
    BY <1>1 DEF Left, SameChildren
  <2> HIDE DEF new
  <2>2. /\ IsFiniteSet(Left(p)) /\ IsFiniteSet(new) /\ IsFiniteSet(Left(p)')
        /\ Cardinality(Left(p)) \in Nat /\ Cardinality(new) \in Nat
        /\ Cardinality(Left(p)') \in Nat
    BY <2>1, CountIds
  <2>3. Cardinality(Left(p) \cup new) = Cardinality(Left(p)) + Cardinality(new)
    <3>1. Cardinality(Left(p) \cap new) = 0
      BY <2>1, FS_EmptySet
    <3>2. Cardinality(Left(p) \cup new)
            = Cardinality(Left(p)) + Cardinality(new) - Cardinality(Left(p) \cap new)
      BY <2>2, FS_Union
    <3> QED
      BY <2>2, <3>1, <3>2
  <2>4. Cardinality(Left(p) \cup new) <= Cardinality(Left(p)')
    BY <2>1, <2>2, FS_Subset
  <2> QED
    BY <2>1, <2>3, <2>4 DEF Tells
<1>6. Counted(p)'
  <2>1. /\ Cardinality(Left(p)) \in Nat /\ Cardinality(Left(p)') \in Nat /\ Cardinality(new) \in Nat
    <3>1. Left(p) \in SUBSET Ids /\ Left(p)' \in SUBSET Ids /\ new \in SUBSET Ids
      BY <1>1 DEF Left
    <3> HIDE DEF new
    <3> QED
      BY <3>1, CountIds
  <2>2. /\ job[p].finished \in Nat /\ job[p].failed \in Nat
        /\ j.finished \in Nat /\ j.failed \in Nat
    BY <1>1 DEF Job
  <2>3. Nearly(job[p].finished + job[p].failed, Cardinality(Left(p)) + Missing(born[p], job[p]),
               cancels)
    BY DEF Open, Counted
  <2>4. Missing(born[p], job[p]) \in Nat /\ Missing(born[p], j) \in Nat
    BY FilesCount
  <2>5. Nearly(j.finished + j.failed, Cardinality(Left(p)') + Missing(born[p], j), cancels')
    <3>1. /\ job[p].finished + job[p].failed \in Nat /\ j.finished + j.failed \in Nat
      BY <2>2
    <3> DEFINE l == Cardinality(Left(p))
               l1 == Cardinality(Left(p)')
               k == Cardinality(new)
               f == job[p].finished + job[p].failed
               g == j.finished + j.failed
               m == Missing(born[p], job[p])
               m1 == Missing(born[p], j)
               x == cancels
               x1 == cancels'
    <3>2. Nearly(f, l + m, x) /\ Tells(l + k, l1) /\ Tells(g + m, f + m1 + k)
      BY <1>5, <2>3
    <3>3. /\ l \in Nat /\ l1 \in Nat /\ k \in Nat /\ m \in Nat /\ m1 \in Nat /\ f \in Nat /\ g \in Nat
          /\ x \in Nat /\ x1 \in Nat /\ x <= x1
      BY <2>1, <2>4, <3>1 DEF Onwards
    <3> HIDE DEF l, l1, k, f, g, m, m1, x, x1
    <3>4. Nearly(g, l1 + m1, x1)
      BY <3>2, <3>3 DEF Tells, Nearly
    <3> QED
      BY <3>4 DEF l1, g, m1, x1
  <2> QED
    BY <1>2, <2>5 DEF Counted
<1> QED
  BY <1>3, <1>4, <1>6 DEF Open

\* A batch whose tally stays is as open as it was.
LEMMA OpenStays ==
  ASSUME Typed, Typed', Onwards, NEW p \in queue, Open(p), SameChildren(p),
         Tally(job'[p]) = Tally(job[p]), db'[p].stage # "Uploaded", Orphans
  PROVE  Open(p)'
<1>1. p \in Ids /\ job[p] \in Job /\ job'[p] \in Job
  BY DEF Typed, TypeOK
<1>2. {} \in SUBSET queue /\ {c \in {} : born[c].parent = p} = {} /\ {} \cap queue' = {}
  OBVIOUS
<1>3. job[p].finished \in Nat /\ job[p].failed \in Nat /\ Missing(born[p], job[p]) \in Nat
  BY <1>1, FilesCount DEF Job
<1>4. Tells(job[p].finished + job[p].failed + Missing(born[p], job[p]),
            job[p].finished + job[p].failed + Missing(born[p], job[p]) + Cardinality({}))
  BY <1>3, FS_EmptySet DEF Tells
<1>5. /\ job[p].fwd = 0 /\ job[p].ready \in {"Queued", "Downloading", "Downloaded"}
      /\ job[p].settled => job[p].ready = "Downloaded"
  BY DEF Open, Waits
<1>6. Undisturbed => \A c \in queue \ queue' : born[c].parent # p
  BY DEF Orphans
<1> QED
  BY <1>1, <1>2, <1>4, <1>5, <1>6, OpenTold

\* Where nobody new comes and no tally changes, the batches stay open.
LEMMA BatchesStay ==
  ASSUME Typed, Typed', Onwards, BatchesOpen, queue' \subseteq queue, born' = born, NEW jobs \in Jobs,
         job' = jobs \/ \E e : job' = Checked(jobs, e),
         \A p \in queue' : Batch(p) => Tally(jobs[p]) = Tally(job[p]),
         NoneDone, Orphans
  PROVE  BatchesOpen'
<1> SUFFICES ASSUME NEW p \in queue', Batch(p)' PROVE Open(p)'
  BY DEF BatchesOpen
<1>1. p \in queue /\ p \in Ids /\ Batch(p) /\ Open(p)
  BY DEF BatchesOpen, Batch, Typed, TypeOK
<1>2. Tally(job'[p]) = Tally(job[p])
  BY <1>1, CheckedTally
<1>3. SameChildren(p) /\ db'[p].stage # "Uploaded"
  BY <1>1 DEF NoneDone, SameChildren
<1> QED
  BY <1>1, <1>2, <1>3, OpenStays

\* Rows that are written with another stage than Uploaded, or are no batch's.
LEMMA NoneDoneByRows ==
  ASSUME Typed, BatchesOpen, NEW S, NEW s, NEW A, db' = Rows(S, s, A),
         s # "Uploaded" \/ \A p \in S : p \in queue => ~Batch(p)
  PROVE  NoneDone
<1> SUFFICES ASSUME NEW p \in queue, Batch(p) PROVE db'[p].stage # "Uploaded"
  BY DEF NoneDone
<1>1. p \in Ids /\ db[p] \in Row /\ db[p].stage # "Uploaded"
  BY DEF BatchesOpen, Open, Waits, Typed, TypeOK
<1>2. \/ db'[p] = db[p]
      \/ db'[p] = [db[p] EXCEPT !.stage = IF p \in S THEN s ELSE @,
                                !.archived = @ \/ p \in A]
  BY <1>1 DEF Rows
<1>3. db'[p].stage = db[p].stage \/ (p \in S /\ db'[p].stage = s)
  BY <1>1, <1>2 DEF Row
<1> QED
  BY <1>1, <1>3

\* Where nobody leaves, no child does.
LEMMA NoOrphans ==
  ASSUME queue \subseteq queue'
  PROVE  Orphans
<1>1. queue \ queue' = {}
  OBVIOUS
<1>2. ASSUME NEW c \in queue \ queue' PROVE born[c].parent \notin queue
  BY <1>1
<1> QED
  BY <1>2 DEF Orphans

\* Rows that stay
LEMMA NoneDoneStill == BatchesOpen /\ (\A p \in queue : db'[p] = db[p]) => NoneDone
  BY DEF BatchesOpen, Open, Waits, NoneDone

\* A job that leaves takes its record along, the batches that stay keep theirs.
LEMMA BatchesLeft ==
  ASSUME Typed, Typed', Onwards, BatchesOpen, NoneDone, Orphans, UNCHANGED born,
         UNCHANGED <<queue, job>> \/ \E R : queue' = queue \ R /\ job' = Without(job, R)
  PROVE  BatchesOpen'
<1>1. job' \in Jobs /\ queue \subseteq Ids
  BY DEF Typed, TypeOK, Jobs
<1>2. queue' \subseteq queue /\ \A p \in queue' : job'[p] = job[p]
  BY <1>1, WithoutKeeps
<1> QED
  BY <1>1, <1>2, BatchesStay

-----------------------------------------------------------------------------
(* The steps of the loop *)

\* What is received, refused or prepared is nobody's child.
LEMMA SubmitBatches ==
  ASSUME Typed, Typed', Onwards, RowsInv, BatchesOpen, Handed, NEW n \in Names, Submit(n)
  PROVE  BatchesOpen' /\ NoneDone /\ Handed'
<1>1. queue' = queue /\ db' = db
  BY DEF Submit, Refuse, DeclineSetup, Prepare
<1>2. NoneDone /\ Orphans
  BY <1>1, NoneDoneStill, NoOrphans
<1>3. CASE Refuse(n) \/ DeclineSetup(n)
  <2>1. /\ UNCHANGED <<born, nextId>> /\ pc' = "queue"
        /\ job' = Checked(job, epoch) /\ job \in Jobs
    BY <1>3 DEF Refuse, DeclineSetup, BackToTop, layerVars, Typed, TypeOK, Jobs
  <2>2. Handed'
    BY <2>1 DEF Handed
  <2> QED
    BY <1>1, <1>2, <2>1, <2>2, BatchesStay
<1>4. CASE Prepare(n)
  <2>1. /\ nextId \in Ids /\ nextId' = nextId + 1 /\ job' = job
        /\ pc' = "admit" /\ pass' = [NoPass EXCEPT !.todo = {nextId}]
        /\ born' = [born EXCEPT ![nextId] =
                      [name |-> n, parent |-> 0, idx |-> Submissions[n].idx]]
    BY <1>4 DEF Prepare
  <2>2. pass'.todo = {nextId}
    BY <2>1 DEF NoPass
  <2>3. /\ \A c \in Ids : c # nextId => born'[c] = born[c]
        /\ born'[nextId].parent = 0 /\ born[nextId].parent = 0
    BY <2>1 DEF Handed, Typed, TypeOK, LayersTypeOK, Ids
  <2>4. \A c \in Ids : born'[c].parent = born[c].parent
    BY <2>3
  <2>5. Handed'
    <3>1. \A c \in Ids : c >= nextId' => born'[c].parent = 0
      BY <2>1, <2>4, PnJobsAssumption DEF Handed, Ids
    <3>2. \A c \in Ids : born'[c].parent # 0 => /\ born'[c].parent < nextId'
                                                /\ born'[c].parent # nextId
      <4>1. \A c \in Ids : born[c].parent \in Nat /\ nextId \in Nat
        BY PnJobsAssumption DEF Typed, TypeOK, LayersTypeOK, Birth, Ids0
      <4> QED
        BY <2>1, <2>4, <4>1 DEF Handed
    <3> QED
      BY <2>2, <2>3, <3>1, <3>2 DEF Handed
  <2>6. \A p \in queue : p \in Ids /\ p # nextId
    BY PnJobsAssumption DEF RowsInv, QueuedBefore, Typed, TypeOK, Ids
  <2>7. ASSUME NEW p \in queue', Batch(p)' PROVE Open(p)'
    <3>1. p \in queue /\ born'[p] = born[p] /\ Batch(p)
      BY <1>1, <2>3, <2>6, <2>7 DEF Batch
    <3>2. Open(p) /\ job' = job /\ db'[p].stage # "Uploaded"
      BY <1>2, <2>1, <3>1 DEF BatchesOpen, NoneDone
    <3>3. SameChildren(p)
      BY <1>1, <2>3, <2>6, <3>1, PnJobsAssumption DEF SameChildren, Ids
    <3> QED
      BY <1>2, <3>1, <3>2, <3>3, OpenStays
  <2> QED
    BY <1>2, <2>5, <2>7 DEF BatchesOpen
<1> QED
  BY <1>3, <1>4 DEF Submit

\* What is admitted is nobody's child; a batch comes without children, and waits
\* for its download.
LEMMA AdmitBatches ==
  ASSUME Typed, Typed', Onwards, RowsInv, BatchesOpen, Handed, Admit
  PROVE  BatchesOpen' /\ NoneDone /\ Handed'
<1>1. PICK i \in pass.todo :
        \/ AdmitForwarded(i) \/ AdmitKilled(i) \/ AdmitDownload(i) \/ AdmitProbe(i)
        \/ AdmitStudio(i) \/ AdmitKeycode(i)
  BY DEF Admit
<1>2. pc = "admit" /\ UNCHANGED <<born, nextId>>
  BY DEF Admit
<1>3. /\ i \in Ids /\ i \notin queue /\ job \in Jobs /\ queue \subseteq Ids
      /\ born[i].parent = 0 /\ \A c \in Ids : born[c].parent # i
  <2>1. i \in Ids /\ i \notin queue
    BY <1>2 DEF RowsInv, AdmittedIsNew, Typed, TypeOK, Pass
  <2>2. born[i].parent = 0 /\ \A c \in Ids : born[c].parent # i
    BY <1>2, <2>1, PnJobsAssumption DEF Handed, Ids
  <2> QED
    BY <2>1, <2>2 DEF Typed, TypeOK, Jobs
<1>4. pc' # "admit"
  BY <1>1 DEF AdmitForwarded, AdmitKilled, AdmitDownload, AdmitProbe, AdmitStudio, AdmitKeycode,
              Push, BackToTop
<1>5. Handed'
  BY <1>2, <1>4 DEF Handed
\* i joins, or nobody does
<1>6. ASSUME NEW j \in Job,
             \/ job' = [job EXCEPT ![i] = j]
             \/ \E e : job' = Checked([job EXCEPT ![i] = j], e),
             \/ queue' = queue
             \/ /\ queue' = queue \cup {i}
                /\ Batch(i) => /\ db' = Inserted(i, j.ready)
                               /\ j.fwd = 0 /\ ~j.settled /\ j.finished = 0 /\ j.failed = 0
                               /\ j.ready = "Downloading" /\ j.kid = NewJob.kid,
             \A p \in queue : db'[p] = db[p]
      PROVE  BatchesOpen'
  <2>1. [job EXCEPT ![i] = j] \in Jobs
    BY <1>3, <1>6 DEF Jobs
  <2>2. /\ \A p \in queue : Tally(job'[p]) = Tally(job[p])
        /\ Tally(job'[i]) = Tally(j)
    <3>1. \A p \in queue : p \in Ids /\ p # i
      BY <1>3
    <3>2. /\ \A p \in queue : [job EXCEPT ![i] = j][p] = job[p]
          /\ [job EXCEPT ![i] = j][i] = j
      BY <1>3, <3>1 DEF Jobs
    <3> DEFINE jobs == [job EXCEPT ![i] = j]
    <3>3. jobs \in Jobs /\ (job' = jobs \/ \E e : job' = Checked(jobs, e))
      BY <1>6, <2>1
    <3>4. /\ \A p \in queue : jobs[p] = job[p]
          /\ jobs[i] = j
      BY <3>2
    <3> HIDE DEF jobs
    <3>5. \A k \in Ids : Tally(job'[k]) = Tally(jobs[k])
      BY <3>3, CheckedTally
    <3> QED
      BY <1>3, <3>1, <3>4, <3>5
  <2>3. ASSUME NEW p \in queue, Batch(p)' PROVE Open(p)'
    <3>1. Batch(p) /\ Open(p) /\ db'[p].stage # "Uploaded" /\ p \in Ids /\ p # 0
      BY <1>2, <1>3, <1>6, <2>3, PnJobsAssumption DEF BatchesOpen, Batch, Open, Waits, Ids
    <3>2. SameChildren(p)
      BY <1>2, <1>3, <1>6, <3>1 DEF SameChildren
    <3>3. Orphans
      BY <1>6, NoOrphans
    <3> QED
      BY <2>2, <3>1, <3>2, <3>3, OpenStays
  <2>4. ASSUME queue' = queue \cup {i}, Batch(i)' PROVE Open(i)'
    <3>1. /\ Batch(i) /\ job'[i] \in Job /\ j.fwd = 0 /\ ~j.settled /\ j.finished = 0
          /\ j.failed = 0 /\ j.ready = "Downloading" /\ j.kid = NewJob.kid
          /\ db' = Inserted(i, j.ready)
      BY <1>2, <1>3, <1>6, <2>4 DEF Batch, Typed, TypeOK
    <3>2. /\ job'[i].fwd = 0 /\ ~job'[i].settled /\ job'[i].finished = 0
          /\ job'[i].failed = 0 /\ job'[i].ready = "Downloading"
          /\ job'[i].kid = NewJob.kid
      BY <1>6, <2>2, <3>1, SameTally
    <3>3. db'[i].stage = "Downloading"
      BY <1>3, <3>1 DEF Inserted, Typed, TypeOK
    <3>4. Made(i)' /\ Waits(i)'
      <4>1. \A f \in Entries(born'[i]) : NewJob.kid[f] = 0
        <5>1. Entries(born'[i]) \subseteq Files
          BY <1>2, <2>4, BornOfRequest DEF Typed, TypeOK, LayersTypeOK, Known, Entries, Request
        <5> QED
          BY <5>1 DEF NewJob
      <4> QED
        BY <1>2, <1>3, <3>2, <3>3, <4>1 DEF Made, Waits
    <3>5. Left(i)' = {} /\ Cardinality(Left(i)') = 0
      BY <1>2, <1>3, FS_EmptySet DEF Left
    <3>6. Counted(i)'
      BY <3>2, <3>5 DEF Counted, Missing, Nearly, Onwards
    <3> QED
      BY <3>4, <3>6 DEF Open
  <2> QED
    BY <1>6, <2>3, <2>4 DEF BatchesOpen
<1>7. NewJob \in Job /\ NewJob.fwd = 0 /\ ~NewJob.settled /\ NewJob.finished = 0 /\ NewJob.failed = 0
  BY NewJobType DEF NewJob
<1>8. [job EXCEPT ![i] = job[i]] = job /\ job[i] \in Job
  BY <1>3 DEF Jobs
<1>9. \A s : \A p \in queue : Inserted(i, s)[p] = db[p]
  BY <1>3 DEF Inserted, Typed, TypeOK
<1>10. ASSUME NEW j \in Job, NEW e, NEW d, Push(i, j, e, d),
              Batch(i) => /\ j.fwd = 0 /\ ~j.settled /\ j.finished = 0 /\ j.failed = 0
                          /\ j.ready = "Downloading" /\ j.kid = NewJob.kid
       PROVE  BatchesOpen' /\ NoneDone
  <2>1. CASE /\ queue' = queue \cup {i} /\ job' = [job EXCEPT ![i] = j]
             /\ db' = Inserted(i, j.ready)
    <3>1. \A p \in queue : db'[p] = db[p]
      BY <1>9, <2>1
    <3> QED
      BY <1>6, <1>10, <2>1, <3>1, NoneDoneStill
  <2>2. CASE UNCHANGED <<queue, db>> /\ job' = Checked(job, e)
    BY <1>6, <1>8, <2>2, NoneDoneStill
  <2> QED
    BY <1>10, <2>1, <2>2 DEF Push
<1>11. CASE AdmitForwarded(i)
  <2> DEFINE j == Forwarded(NewJob, First(QueuedParents(i)))
  <2>1. /\ job' = Checked([job EXCEPT ![i] = j], epoch) /\ queue' = queue \cup {i}
        /\ db' = Inserted(i, j.ready) \/ db' = db
        /\ IsForwardable(born[i])
    BY <1>11 DEF AdmitForwarded, BackToTop
  <2>2. First(QueuedParents(i)) \in Ids
    BY <1>3, <1>11, FirstIn DEF AdmitForwarded, QueuedParents
  <2>3. j \in Job
    BY <1>7, <2>2, ForwardedType DEF Typed
  <2>4. ~Batch(i)
    BY <2>1 DEF IsForwardable, Batch, IsBatch, TypeOf
  <2>5. \A p \in queue : db'[p] = db[p]
    BY <1>9, <2>1
  <2> HIDE DEF j
  <2> QED
    BY <1>5, <1>6, <2>1, <2>3, <2>4, <2>5, NoneDoneStill
<1>12. CASE AdmitKilled(i)
  <2>1. queue' = queue /\ job' = Checked(job, epoch) /\ \A p \in queue : db'[p] = db[p]
    BY <1>3, <1>12 DEF AdmitKilled, BackToTop, Typed, TypeOK
  <2> QED
    BY <1>5, <1>6, <1>8, <2>1, NoneDoneStill
<1>13. CASE AdmitDownload(i)
  <2> DEFINE j == Routed(i, [NewJob EXCEPT !.worker = "dwl-pending"])
  <2>1. [NewJob EXCEPT !.worker = "dwl-pending"] \in Job
    BY <1>7, JobUpdates DEF Workers
  <2>2. j \in Job
    BY <1>3, <2>1, RoutedType
  <2>3. Batch(i) => /\ j.fwd = 0 /\ ~j.settled /\ j.finished = 0 /\ j.failed = 0
                    /\ j.ready = "Downloading" /\ j.kid = NewJob.kid
    BY DEF Routed, RouteOf, NewJob
  <2>4. Push(i, j, epoch, RoutedDisk(i))
    BY <1>13 DEF AdmitDownload
  <2> HIDE DEF j
  <2> QED
    BY <1>5, <1>10, <2>2, <2>3, <2>4
<1>14. ~(Type(i) \in DownloadTypes) => ~Batch(i)
  BY DEF Batch, IsBatch, Type, TypeOf, DownloadTypes
<1>15. CASE AdmitProbe(i)
  <2> DEFINE s == IF Type(i) = "Probe" THEN "Probing" ELSE "Encoding"
             j == [NewJob EXCEPT !.worker = "prw-pending", !.ready = s]
  <2>1. s \in Stages /\ "prw-pending" \in Workers
    BY DEF Stages, Workers
  <2> HIDE DEF s
  <2>2. j \in Job
    BY <1>7, <2>1 DEF Job
  <2>3. Push(i, j, epoch, disk) /\ ~Batch(i)
    BY <1>14, <1>15 DEF AdmitProbe, s, DownloadTypes
  <2> HIDE DEF j
  <2> QED
    BY <1>5, <1>10, <2>2, <2>3
<1>16. CASE AdmitStudio(i)
  <2> DEFINE j == [NewJob EXCEPT !.worker = "enc-main", !.ready = "Encoding", !.dispatched = TRUE]
  <2>1. j \in Job
    BY <1>7 DEF Job, Stages, Workers
  <2>2. Push(i, j, epoch', disk) /\ ~Batch(i)
    BY <1>14, <1>16 DEF AdmitStudio, DownloadTypes
  <2> HIDE DEF j
  <2> QED
    BY <1>5, <1>10, <2>1, <2>2
<1>17. CASE AdmitKeycode(i)
  <2> DEFINE j == [NewJob EXCEPT !.worker = "key-wait"]
  <2>1. j \in Job
    BY <1>7, JobUpdates DEF Workers
  <2>2. Push(i, j, epoch, disk) /\ ~Batch(i)
    BY <1>14, <1>17 DEF AdmitKeycode, DownloadTypes
  <2> HIDE DEF j
  <2> QED
    BY <1>5, <1>10, <2>1, <2>2
<1> QED
  BY <1>1, <1>11, <1>12, <1>13, <1>15, <1>16, <1>17

\* Who may have children stays as it is where no id is handed out.
LEMMA HandedStill ==
  ASSUME Handed, UNCHANGED <<born, nextId>>, pc' # "admit" \/ UNCHANGED <<pc, pass>>
  PROVE  Handed'
  BY DEF Handed

\* Who is cancelled is not done, and leaves with its followers: of a batch, one child
\* at most, uncounted.
LEMMA CancelBatches ==
  ASSUME Typed, Typed', Onwards, BatchesOpen, Handed, ApartInv, NEW i \in Ids,
         Cancel(i) \/ NoRequest
  PROVE  BatchesOpen' /\ NoneDone /\ Handed'
<1>1. UNCHANGED <<born, nextId>> /\ pc' # "admit"
  BY DEF Cancel, NoRequest, layerVars
<1>2. \/ UNCHANGED <<queue, job, db>>
      \/ /\ cancels' = cancels + 1
         /\ LET gone == {i} \cup ForwardedTo({i}) IN
            /\ queue' = queue \ gone /\ job' = Without(job, gone)
            /\ db' = Rows(gone, "Cancelled", gone)
  BY DEF Cancel, FinalizeCancelled, NoRequest
<1>3. NoneDone
  BY <1>2, NoneDoneStill, NoneDoneByRows
<1>4. CASE UNCHANGED <<queue, job, db>>
  BY <1>1, <1>3, <1>4, NoOrphans, BatchesLeft, HandedStill
<1>5. ASSUME cancels' = cancels + 1, NEW gone, gone = {i} \cup ForwardedTo({i}),
             queue' = queue \ gone, job' = Without(job, gone),
             NEW p \in queue', Batch(p)'
      PROVE  Open(p)'
  <2>1. /\ p \in queue /\ p \in Ids /\ queue \subseteq Ids /\ born' = born /\ Open(p)
        /\ job[p] \in Job /\ db'[p].stage # "Uploaded" /\ Batch(p)
    BY <1>1, <1>3, <1>5 DEF BatchesOpen, NoneDone, Batch, Typed, TypeOK
  <2>2. job'[p] = job[p]
    BY <1>5, <2>1, WithoutKeeps DEF Typed, TypeOK, Jobs
  <2>3. /\ Left(p) \in SUBSET Ids /\ Left(p)' \in SUBSET Ids /\ {i} \in SUBSET Ids
        /\ Left(p) \subseteq Left(p)'
    BY <1>5, <2>1 DEF Left
  <2>4. Undisturbed => Left(p)' \subseteq Left(p) \cup {i}
    <3>1. ASSUME Undisturbed, NEW c \in gone \cap queue, born[c].parent = p PROVE c = i
      <4>1. job[c].fwd = 0
        BY <2>1, <3>1 DEF ApartInv, Leads, LeadsOn
      <4>2. i # 0
        BY PnJobsAssumption DEF Ids
      <4> QED
        BY <1>5, <3>1, <4>1, <4>2 DEF ForwardedTo
    <3> QED
      BY <1>5, <2>1, <3>1 DEF Left
  <2>5. /\ Cardinality(Left(p)) \in Nat /\ Cardinality(Left(p)') \in Nat
        /\ Cardinality(Left(p)) <= Cardinality(Left(p)')
        /\ Undisturbed => Cardinality(Left(p)') <= Cardinality(Left(p)) + 1
    <3> DEFINE L == Left(p)
               L1 == Left(p)'
    <3>1. /\ L \in SUBSET Ids /\ L1 \in SUBSET Ids /\ L \subseteq L1
          /\ Undisturbed => L1 \subseteq L \cup {i}
      BY <2>3, <2>4
    <3> HIDE DEF L, L1
    <3>2. IsFiniteSet(L) /\ IsFiniteSet(L1) /\ Cardinality(L) \in Nat /\ Cardinality(L1) \in Nat
      BY <3>1, CountIds
    <3>3. Cardinality(L) <= Cardinality(L1)
      BY <3>1, <3>2, FS_Subset
    <3>4. IsFiniteSet(L \cup {i}) /\ Cardinality(L \cup {i}) <= Cardinality(L) + 1
      <4>1. /\ IsFiniteSet(L \cup {i})
            /\ Cardinality(L \cup {i}) = IF i \in L THEN Cardinality(L) ELSE Cardinality(L) + 1
        BY <3>2, FS_AddElement
      <4> QED
        BY <3>2, <4>1
    <3>5. Undisturbed => Cardinality(L1) <= Cardinality(L \cup {i})
      BY <3>1, <3>4, FS_Subset
    <3>6. Cardinality(L \cup {i}) \in Nat
      BY <3>4, FS_CardinalityType
    <3>7. Undisturbed => Cardinality(L1) <= Cardinality(L) + 1
      BY <3>2, <3>4, <3>5, <3>6
    <3> QED
      BY <3>2, <3>3, <3>7 DEF L, L1
  <2>6. Counted(p)'
    <3> DEFINE n == job[p].finished + job[p].failed
               m == Missing(born[p], job[p])
               l == Cardinality(Left(p))
               l1 == Cardinality(Left(p)')
               x == cancels
               x1 == cancels'
    <3>1. /\ n \in Nat /\ m \in Nat /\ l \in Nat /\ l1 \in Nat /\ x \in Nat /\ x1 = x + 1
          /\ l <= l1 /\ (Undisturbed => l1 <= l + 1) /\ Nearly(n, l + m, x)
      BY <1>5, <2>1, <2>5, FilesCount DEF Job, Onwards, Open, Counted
    <3> HIDE DEF n, m, l, l1, x, x1
    <3>2. Nearly(n, l1 + m, x1)
      BY <3>1 DEF Nearly
    <3> QED
      BY <2>1, <2>2, <3>2 DEF Counted, n, m, l1, x1
  <2>7. Waits(p)' /\ Made(p)'
    BY <2>1, <2>2 DEF Open, Waits, Made
  <2> QED
    BY <2>6, <2>7 DEF Open
<1> QED
  BY <1>1, <1>2, <1>3, <1>4, <1>5, HandedStill DEF BatchesOpen

\* A git query closes nothing.
LEMMA GitBatches ==
  ASSUME Typed, Typed', Onwards, BatchesOpen, Handed, GitQuery \/ ArmedGitQuery
  PROVE  BatchesOpen' /\ NoneDone /\ Handed'
<1>1. UNCHANGED <<born, nextId, db>> /\ pc' # "admit"
  BY DEF GitQuery, ArmedGitQuery, GitSync, BackToTop, layerVars
<1>2. NoneDone /\ Handed'
  BY <1>1, NoneDoneStill, HandedStill
<1>3. CASE GitSync
  BY <1>2, <1>3 DEF GitSync, BatchesOpen
<1>4. CASE UNCHANGED <<queue, job>>
  BY <1>1, <1>2, <1>4, BatchesLeft, NoOrphans
<1>5. CASE queue' = queue /\ job' = Checked(job, epoch)
  BY <1>1, <1>2, <1>5, BatchesStay, NoOrphans DEF Typed, TypeOK, Jobs
<1> QED
  BY <1>2, <1>3, <1>4, <1>5 DEF GitQuery, ArmedGitQuery, BackToTop

\* Those of K that are children of p
Of(K, p) == {c \in K : born[c].parent = p}

\* What a batch is told adds to its count what has ended, and changes nothing else.
LEMMA BatchToldCounts ==
  ASSUME NEW jobs \in Jobs, NEW K \in SUBSET Ids, NEW s, NEW p \in Ids,
         NEW b, b = BatchTold(jobs, K, s)[p]
  PROVE  /\ b.ready = jobs[p].ready /\ b.fwd = jobs[p].fwd
         /\ b.settled = jobs[p].settled /\ b.kid = jobs[p].kid
         /\ p \in queue /\ s \in Terminal =>
              b.finished + b.failed =
                jobs[p].finished + jobs[p].failed + Cardinality(Of(K, p))
         /\ s \notin Terminal \/ Of(K, p) = {} => b = jobs[p]
<1> DEFINE new == {c \in K : born[c].parent = p}
           n == Cardinality(new)
<1>1. jobs[p] \in Job /\ n \in Nat /\ (new = {} => n = 0)
  <2>1. new \in SUBSET Ids
    OBVIOUS
  <2> HIDE DEF new
  <2> QED
    BY <2>1, CountIds, FS_EmptySet DEF Jobs
<1>2. b = IF p \notin queue \/ n = 0 THEN jobs[p]
          ELSE [jobs[p] EXCEPT !.finished = IF s = "Uploaded" THEN @ + n ELSE @,
                               !.failed = IF s \in {"Failed", "Cancelled", "Declined"}
                                          THEN @ + n ELSE @]
  BY DEF BatchTold
<1> HIDE DEF new, n
<1>3. \/ b = jobs[p] /\ (p \in queue /\ s \in Terminal => n = 0)
      \/ s \in Terminal /\ n # 0 /\ b = [jobs[p] EXCEPT !.finished = @ + n]
      \/ s \in Terminal /\ n # 0 /\ b = [jobs[p] EXCEPT !.failed = @ + n]
  <2>1. CASE s = "Uploaded"
    BY <1>1, <1>2, <2>1 DEF Job, Terminal
  <2>2. CASE s \in {"Failed", "Cancelled", "Declined"}
    BY <1>1, <1>2, <2>2 DEF Job, Terminal
  <2>3. CASE s \notin Terminal
    BY <1>1, <1>2, <2>3 DEF Job, Terminal
  <2> QED
    BY <2>1, <2>2, <2>3 DEF Terminal
<1>4. /\ b.ready = jobs[p].ready /\ b.fwd = jobs[p].fwd
      /\ b.settled = jobs[p].settled /\ b.kid = jobs[p].kid
      /\ p \in queue /\ s \in Terminal =>
           b.finished + b.failed = jobs[p].finished + jobs[p].failed + n
  BY <1>1, <1>3 DEF Job
<1>5. s \notin Terminal \/ new = {} => b = jobs[p]
  BY <1>1, <1>3
<1> QED
  BY <1>4, <1>5 DEF n, new, Of

\* What it is told keeps a batch open when those it is told of leave.
LEMMA ToldStaysOpen ==
  ASSUME Typed, Typed', Onwards, NEW p \in queue, Open(p), SameChildren(p),
         db'[p].stage # "Uploaded",
         NEW jobs \in Jobs, Tally(jobs[p]) = Tally(job[p]),
         NEW K \in SUBSET queue, NEW s, s \in Terminal => K \cap queue' = {},
         Undisturbed => \A c \in queue \ queue' : born[c].parent \in queue =>
                          s \in Terminal /\ c \in K,
         Tally(job'[p]) = Tally(BatchTold(jobs, K, s)[p])
  PROVE  Open(p)'
<1> DEFINE b == BatchTold(jobs, K, s)[p]
<1>1. /\ p \in Ids /\ K \in SUBSET Ids /\ jobs \in Jobs
      /\ job[p] \in Job /\ job'[p] \in Job /\ jobs[p] \in Job
  BY DEF Typed, TypeOK, Jobs
<1>2. b \in Job
  BY <1>1, BatchToldType DEF Jobs
<1>3. /\ b.ready = jobs[p].ready /\ b.fwd = jobs[p].fwd
      /\ b.settled = jobs[p].settled /\ b.kid = jobs[p].kid
      /\ s \in Terminal =>
           b.finished + b.failed =
             jobs[p].finished + jobs[p].failed + Cardinality(Of(K, p))
      /\ s \notin Terminal => b = jobs[p]
  <2>1. b = BatchTold(jobs, K, s)[p]
    OBVIOUS
  <2> HIDE DEF b
  <2> QED
    BY <1>1, <2>1, BatchToldCounts
<1> HIDE DEF b
<1>4. /\ jobs[p].ready = job[p].ready /\ jobs[p].fwd = job[p].fwd
      /\ jobs[p].settled = job[p].settled /\ jobs[p].kid = job[p].kid
      /\ jobs[p].finished = job[p].finished /\ jobs[p].failed = job[p].failed
  BY <1>1, SameTally
<1>5. /\ b.fwd = 0 /\ b.ready \in {"Queued", "Downloading", "Downloaded"}
      /\ b.settled => b.ready = "Downloaded"
      /\ b.kid = job[p].kid
  BY <1>3, <1>4 DEF Open, Waits
<1>6. Missing(born[p], b) = Missing(born[p], job[p]) /\ Missing(born[p], b) \in Nat
  BY <1>3, <1>4, FilesCount DEF Missing, Unspawned
<1>7. CASE s \in Terminal
  <2>0. Of(K, p) = {c \in K : born[c].parent = p}
    BY DEF Of
  <2>1. Cardinality({c \in K : born[c].parent = p}) \in Nat
    BY <1>1, CountIds
  <2>2. b.finished \in Nat /\ b.failed \in Nat /\ job[p].finished \in Nat /\ job[p].failed \in Nat
    BY <1>1, <1>2 DEF Job
  <2>3. Tells(b.finished + b.failed + Missing(born[p], job[p]),
              job[p].finished + job[p].failed + Missing(born[p], b)
                + Cardinality({c \in K : born[c].parent = p}))
    BY <1>3, <1>4, <1>6, <1>7, <2>0, <2>1, <2>2 DEF Tells
  <2>4. Tally(job'[p]) = Tally(b)
    BY DEF b
  <2>5. Undisturbed => \A c \in queue \ queue' : born[c].parent = p => c \in K
    OBVIOUS
  <2> QED
    BY <1>2, <1>5, <1>7, <2>3, <2>4, <2>5, OpenTold
<1>8. CASE s \notin Terminal
  <2>1. Tally(job'[p]) = Tally(job[p])
    BY <1>3, <1>8 DEF b
  <2>2. Orphans
    BY <1>8 DEF Orphans
  <2> QED
    BY <2>1, <2>2, OpenStays
<1> QED
  BY <1>7, <1>8

\* A clock closes no batch as done; a child that stalled is counted as it leaves.
LEMMA ClockBatches ==
  ASSUME Typed, Typed', Onwards, BatchesOpen, Handed, ApartInv, ClockStep
  PROVE  BatchesOpen' /\ NoneDone /\ Handed'
<1>1. job \in Jobs /\ job' \in Jobs /\ queue \subseteq Ids
  BY DEF Typed, TypeOK, Jobs
<1>2. UNCHANGED <<born, nextId, pc, pass>>
  BY DEF ClockStep, DrainReboot, ReceiveReboot, ExpireCache, ExpireKeep, ProbeTimeout,
         EncodeStall, mainVars, layerVars
<1>3. Handed'
  BY <1>2, HandedStill
<1>4. CASE DrainReboot
  <2>1. UNCHANGED <<queue, db>> /\ job' = Checked(job, epoch + 1)
    BY <1>4 DEF DrainReboot
  <2> QED
    BY <1>1, <1>2, <1>3, <2>1, NoneDoneStill, NoOrphans, BatchesStay
<1>5. CASE ReceiveReboot \/ ExpireCache \/ ExpireKeep
  <2>1. UNCHANGED <<queue, db, job>>
    BY <1>5 DEF ReceiveReboot, ExpireCache, ExpireKeep, mainVars
  <2> QED
    BY <1>2, <1>3, <2>1, NoneDoneStill, NoOrphans, BatchesLeft
<1>6. ASSUME NEW i \in Ids, ProbeTimeout(i) PROVE BatchesOpen' /\ NoneDone
  <2>1. queue' = queue \ {i} /\ job' = Without(job, {i}) /\ db' = Rows({}, "Probed", {i})
    BY <1>6 DEF ProbeTimeout
  <2>2. NoneDone
    BY <2>1, NoneDoneByRows
  <2>3. Orphans
    BY <1>6, <2>1 DEF ProbeTimeout, Orphans, ApartInv, Leads, LeadsOn, NoChildDies
  <2> QED
    BY <1>2, <2>1, <2>2, <2>3, BatchesLeft
<1>7. ASSUME NEW S \in SUBSET Ids, EncodeStall(S) PROVE BatchesOpen' /\ NoneDone
  <2> DEFINE gone == S \cup ForwardedTo(S)
             told == BatchTold(job, S, "Failed")
             jobs == Without(told, gone)
  <2>1. /\ queue' = queue \ gone /\ S \subseteq queue
        /\ job' = Checked(jobs, epoch + 1) /\ db' = Rows(gone, "Failed", gone)
    BY <1>7 DEF EncodeStall, Stallable
  <2>2. NoneDone
    BY <2>1, NoneDoneByRows
  <2>3. jobs \in Jobs /\ S \cap queue' = {} /\ "Failed" \in Terminal
    BY <1>1, <2>1, BatchToldType, WithoutType DEF Terminal
  <2>4. Undisturbed => \A c \in queue \ queue' : born[c].parent \in queue =>
                        "Failed" \in Terminal /\ c \in S
    <3>1. 0 \notin S
      BY PnJobsAssumption DEF Ids
    <3> QED
      BY <2>1, <3>1 DEF ApartInv, Leads, LeadsOn, ForwardedTo, Terminal
  <2>5. ASSUME NEW p \in queue', Batch(p)' PROVE Open(p)'
    <3>1. p \in queue /\ p \in Ids /\ Open(p) /\ SameChildren(p) /\ p \notin gone /\ Batch(p)
      BY <1>1, <1>2, <2>1, <2>5 DEF BatchesOpen, Batch, SameChildren
    <3>2. Tally(job'[p]) = Tally(told[p])
      <4>1. jobs[p] = told[p]
        BY <3>1, WithoutKeeps
      <4> HIDE DEF jobs, told
      <4> QED
        BY <2>1, <2>3, <3>1, <4>1, CheckedTally
    <3> QED
      BY <1>1, <2>1, <2>2, <2>3, <2>4, <3>1, <3>2, ToldStaysOpen DEF NoneDone
  <2> QED
    BY <2>2, <2>5 DEF BatchesOpen
<1> QED
  BY <1>3, <1>4, <1>5, <1>6, <1>7 DEF ClockStep

-----------------------------------------------------------------------------
(* Messages                                                                 *)

\* The last word about a child is counted as the child leaves; a batch itself only
\* hears that its download is over.
LEMMA StageBatches ==
  ASSUME Typed, Typed', Onwards, PlacesInv, BatchesOpen, Handed, ApartInv, NEW m \in Message, HandleStage(m),
         NEW l \in Layers, Says(l, m), With(l, m.id)
  PROVE  BatchesOpen' /\ NoneDone
<1> DEFINE i == m.id
           s == m.stage
           followers == ForwardedTo({i})
           gone == (IF s \in Terminal THEN {i} \cup followers ELSE {}) \cup ProbeLeft(i, s)
           staged == [job EXCEPT ![i] = Staged(@, s)]
           told == BatchTold(staged, {i}, s)
           synced == Synced(told, i, s, job[i].worker)
<1>1. /\ i \in queue /\ i \in Ids /\ i # 0 /\ m.kind = "stage" /\ s \in Stages
      /\ job \in Jobs /\ queue \subseteq Ids
  <2>1. i \in queue /\ m.kind = "stage"
    BY DEF HandleStage
  <2>2. i \in Ids /\ s \in Stages
    BY DEF Message
  <2> QED
    BY <2>1, <2>2, PnJobsAssumption DEF Typed, TypeOK, Jobs, Ids
<1>2. /\ queue' = queue \ gone /\ job' = Without(synced, gone) /\ born' = born
      /\ db' = Rows({i} \cup followers, s, gone)
  BY DEF HandleStage
<1>3. Batch(i) => job[i].ready = "Downloading" /\ s \in {"Downloaded", "Failed", "Cancelled"}
  <2>1. Fits(l, i)
    BY <1>1 DEF PlacesInv, Served
  <2>2. Batch(i) => job[i].ready \in {"Queued", "Downloading", "Downloaded"}
    BY <1>1 DEF BatchesOpen, Open, Waits
  <2>3. Batch(i) => l = "Download"
    BY <2>1, <2>2 DEF Fits, Layers, Pools
  <2>4. l = "Download" => s \in {"Downloaded", "Failed", "Cancelled"}
    BY <1>1 DEF Says, StagesOf
  <2> QED
    BY <2>1, <2>3, <2>4 DEF Fits
<1>4. \A p \in queue : Batch(p) => p \notin followers
  BY <1>1 DEF BatchesOpen, Open, Waits, ForwardedTo
<1>5. NoneDone
  <2>1. s # "Uploaded" \/ \A p \in {i} \cup followers : p \in queue => ~Batch(p)
    BY <1>3, <1>4
  <2> HIDE DEF followers, gone
  <2> QED
    BY <1>2, <2>1, NoneDoneByRows
<1>6. staged \in Jobs /\ staged[i] = Staged(job[i], s) /\ \A k \in Ids \ {i} : staged[k] = job[k]
  <2>1. job[i] \in Job
    BY <1>1 DEF Jobs
  <2>2. Staged(job[i], s) \in Job
    BY <1>1, <2>1 DEF Staged, Job
  <2> QED
    BY <1>1, <2>2 DEF Jobs
<1>7. \A p \in queue' : Batch(p) => p \in queue /\ p \in Ids /\ job'[p] = told[p]
  <2>1. \A p \in queue' : p \in queue /\ p \in Ids /\ job'[p] = synced[p]
    <3> HIDE DEF gone, synced
    <3>1. \A p \in queue' : p \in queue /\ p \in Ids /\ p \notin gone
      BY <1>1, <1>2
    <3> QED
      BY <1>2, <3>1, WithoutKeeps
  <2>2. \A p \in Ids : p \notin ForwardedTo({i}) => synced[p] = told[p]
    BY DEF Synced
  <2> QED
    BY <1>4, <2>1, <2>2
<1> HIDE DEF synced, told
<1>8. s \in Terminal => {i} \cap queue' = {}
  BY <1>2
\* Of the children of a batch only i can be among those that leave.
<1>9. Undisturbed => \A c \in queue \ queue' : born[c].parent \in queue =>
                       s \in Terminal /\ c \in {i}
  <2>1. \A c \in ProbeLeft(i, s) : born[c].parent = 0
    BY DEF ProbeLeft, ProbeOf
  <2>2. 0 \notin queue
    BY <1>1, PnJobsAssumption DEF Ids
  <2> QED
    BY <1>1, <1>2, <2>1, <2>2 DEF ApartInv, Leads, LeadsOn, ForwardedTo
<1>10. ASSUME NEW p \in queue', Batch(p)' PROVE Open(p)'
  <2>1. p \in queue /\ p \in Ids /\ Batch(p) /\ Open(p) /\ SameChildren(p) /\ job'[p] = told[p]
    BY <1>1, <1>2, <1>7, <1>10 DEF BatchesOpen, Batch, SameChildren
  <2>2. db'[p].stage # "Uploaded"
    BY <1>5, <2>1 DEF NoneDone
  <2>3. CASE p # i
    <3>1. staged[p] = job[p]
      BY <1>6, <2>1, <2>3
    <3> HIDE DEF staged, i, s, gone, followers
    <3> QED
      BY <1>1, <1>6, <1>8, <1>9, <2>1, <2>2, <3>1, ToldStaysOpen DEF told
  <2>4. CASE p = i
    <3>1. s = "Downloaded" /\ job[i].ready = "Downloading" /\ ~job[i].settled
      BY <1>3, <1>8, <2>1, <2>4 DEF Terminal, Open, Waits
    <3>2. job[i] \in Job /\ job'[i] = Staged(job[i], s)
      <4>1. "Downloaded" \notin Terminal
        BY DEF Terminal
      <4>2. told[i] = staged[i]
        <5>1. {i} \in SUBSET Ids /\ i \in Ids /\ staged \in Jobs /\ s \notin Terminal
          BY <1>1, <1>6, <3>1, <4>1
        <5> HIDE DEF staged, i, s
        <5>2. BatchTold(staged, {i}, s)[i] = staged[i]
          BY <5>1, BatchToldCounts
        <5> QED
          BY <5>2 DEF told
      <4> QED
        BY <1>1, <1>6, <2>1, <2>4, <4>2 DEF Jobs
    <3> DEFINE j == Staged(job[i], s)
    <3>3. /\ j \in Job /\ j.ready = "Downloaded" /\ j.fwd = job[i].fwd /\ j.settled = job[i].settled
          /\ j.kid = job[i].kid /\ j.finished = job[i].finished /\ j.failed = job[i].failed
      BY <1>1, <3>1, <3>2 DEF Staged, Job
    <3>4. Missing(born[i], j) = Missing(born[i], job[i]) /\ Missing(born[i], j) \in Nat
      BY <1>1, <3>3, FilesCount DEF Missing, Unspawned
    <3>5. {} \in SUBSET queue /\ {c \in {} : born[c].parent = i} = {} /\ {} \cap queue' = {}
      OBVIOUS
    <3>6. Tells(j.finished + j.failed + Missing(born[i], job[i]),
                job[i].finished + job[i].failed + Missing(born[i], j) + Cardinality({}))
      <4>1. job[i].finished \in Nat /\ job[i].failed \in Nat
        BY <3>2 DEF Job
      <4> QED
        BY <3>3, <3>4, <4>1, FS_EmptySet DEF Tells
    <3>7. j.fwd = 0 /\ Tally(job'[i]) = Tally(j)
      BY <2>1, <2>4, <3>2, <3>3 DEF Open, Waits
    <3>8. Undisturbed => \A c \in queue \ queue' : born[c].parent = i => c \in {}
      BY <1>1, <1>9, <3>1 DEF Terminal
    <3> HIDE DEF j, i, s, staged
    <3> QED
      BY <1>1, <2>1, <2>2, <2>4, <3>3, <3>5, <3>6, <3>7, <3>8, OpenTold
  <2> QED
    BY <2>3, <2>4
<1> QED
  BY <1>5, <1>10 DEF BatchesOpen

\* A new child is known to its batch by the file it was made of.
LEMMA FileDoneBatches ==
  ASSUME "child" \notin Faults, Typed, Typed', Onwards, RowsInv, PlacesInv, BatchesOpen, Handed,
         NEW m \in Message, HandleFileDone(m), With("Download", m.id),
         m.file \in Entries(born[m.id])
  PROVE  BatchesOpen' /\ NoneDone /\ Handed'
<1> DEFINE p == m.id
           f == m.file
           child == [NewJob EXCEPT !.ready = "Downloaded", !.worker = "enc-pending"]
<1>1. p \in queue /\ p \in Ids /\ job \in Jobs /\ queue \subseteq Ids /\ nextId \in Nat
  BY PnJobsAssumption DEF HandleFileDone, Message, Typed, TypeOK, Jobs
<1>2. CASE BackToTop(job) /\ UNCHANGED <<queue, db, nextId, born>>
  <2>1. job' = Checked(job, epoch) /\ pc' # "admit"
    BY <1>2 DEF BackToTop
  <2> QED
    BY <1>1, <1>2, <2>1, NoneDoneStill, NoOrphans, BatchesStay, HandedStill
<1>3. CASE /\ Batch(p) /\ job[p].kid[f] = 0 /\ nextId \in Ids
           /\ born' = [born EXCEPT ![nextId] = [name |-> born[p].name, parent |-> p, idx |-> f]]
           /\ queue' = queue \cup {nextId}
           /\ BackToTop([job EXCEPT ![p].kid[f] = nextId, ![nextId] = child])
           /\ db' = Inserted(nextId, "Downloaded") /\ nextId' = nextId + 1
  <2> DEFINE j == [job[p] EXCEPT !.kid[f] = nextId]
             jobs == [job EXCEPT ![p] = j, ![nextId] = child]
  <2>1. /\ \A q \in queue : q \in Ids /\ q # nextId /\ q # 0 /\ q < nextId
        /\ born[nextId].parent = 0 /\ nextId # 0
    BY <1>1, <1>3, PnJobsAssumption DEF RowsInv, QueuedBefore, Handed, Ids
  <2>2. /\ \A c \in Ids : c # nextId => born'[c] = born[c]
        /\ born'[nextId].parent = p /\ born'[nextId].idx = f
    BY <1>3 DEF Typed, TypeOK, LayersTypeOK
  <2>3. \A q \in queue : db'[q] = db[q]
    BY <1>3, <2>1 DEF Inserted, Typed, TypeOK
  <2>4. NoneDone
    BY <2>3, NoneDoneStill
  <2>5. Handed'
    <3>1. pc' # "admit" /\ nextId' = nextId + 1
      BY <1>3 DEF BackToTop
    <3>2. \A c \in Ids : c \in Nat /\ born[c].parent \in Nat
      <4>1. born \in [Ids -> Birth]
        BY DEF Typed, TypeOK, LayersTypeOK
      <4> QED
        BY <4>1, PnJobsAssumption DEF Ids, Birth, Ids0
    <3>3. ASSUME NEW c \in Ids, c >= nextId' PROVE born'[c].parent = 0
      <4>1. c \in Nat /\ c >= nextId /\ c # nextId
        BY <1>1, <3>1, <3>2, <3>3
      <4>2. born[c].parent = 0
        BY <4>1 DEF Handed
      <4> QED
        BY <2>2, <4>1, <4>2
    <3>4. ASSUME NEW c \in Ids, born'[c].parent # 0 PROVE born'[c].parent < nextId'
      <4>1. p \in Nat /\ p < nextId
        BY <1>1, <2>1, PnJobsAssumption DEF Ids
      <4>2. c # nextId => born'[c].parent = born[c].parent /\ born[c].parent < nextId
        BY <2>2, <3>4 DEF Handed
      <4> QED
        BY <1>1, <2>2, <3>1, <3>2, <4>1, <4>2
    <3> QED
      BY <3>1, <3>3, <3>4 DEF Handed
  <2>6. job[p] \in Job /\ Open(p) /\ job[p].kid \in [Files -> Ids0] /\ f \in Files
    <3>1. job[p] \in Job /\ Open(p) /\ f \in Files
      BY <1>1, <1>3, FilesCount DEF Jobs, BatchesOpen
    <3> QED
      BY <3>1 DEF Job
  <2>7. job[p].ready = "Downloading" /\ ~job[p].settled
    BY <1>1, <2>6 DEF PlacesInv, Served, Fits, Layers, Pools, Open, Waits
  <2>8. /\ j \in Job /\ j.ready = job[p].ready /\ j.fwd = job[p].fwd /\ j.settled = job[p].settled
        /\ j.finished = job[p].finished /\ j.failed = job[p].failed
        /\ j.kid = [job[p].kid EXCEPT ![f] = nextId]
    <3>1. nextId \in Ids0
      BY <1>3, PnJobsAssumption DEF Ids, Ids0
    <3> QED
      BY <2>6, <3>1, JobUpdates, SMTT(30) DEF Job
  <2>9. child \in Job
    BY NewJobType DEF Job, Stages, Workers
  <2>10. job' = Checked(jobs, epoch)
    BY <1>3 DEF BackToTop
  <2> HIDE DEF j, child
  <2>11. /\ jobs \in Jobs /\ jobs[p] = j
         /\ \A q \in queue : q # p => jobs[q] = job[q]
    BY <1>1, <1>3, <2>1, <2>8, <2>9 DEF Jobs
  <2> HIDE DEF jobs
  <2>12. /\ Tally(job'[p]) = Tally(j)
         /\ \A q \in queue : q # p => Tally(job'[q]) = Tally(job[q])
    BY <1>1, <2>10, <2>11, CheckedTally
  <2>13. ASSUME NEW q \in queue', Batch(q)' PROVE Open(q)'
    <3>1. q \in queue /\ born'[q] = born[q] /\ Batch(q)
      <4>1. q # nextId
        BY <1>1, <2>1, <2>2, <2>13 DEF Batch, IsBatch
      <4> QED
        BY <1>3, <2>1, <2>2, <2>13, <4>1 DEF Batch
    <3>2. Open(q) /\ db'[q].stage # "Uploaded"
      BY <2>4, <3>1 DEF BatchesOpen, NoneDone
    <3>3. CASE q # p
      <4>1. SameChildren(q)
        BY <1>3, <2>1, <2>2, <3>1, <3>3 DEF SameChildren
      <4> QED
        BY <1>3, <2>12, <3>1, <3>2, <3>3, <4>1, NoOrphans, OpenStays
    <3>4. CASE q = p
      <4>1. /\ job'[p].ready = job[p].ready /\ job'[p].fwd = job[p].fwd /\ ~job'[p].settled
            /\ job'[p].finished = job[p].finished /\ job'[p].failed = job[p].failed
            /\ job'[p].kid = [job[p].kid EXCEPT ![f] = nextId]
        <5>1. job'[p] \in Job
          BY <1>1 DEF Typed, TypeOK
        <5> QED
          BY <2>7, <2>8, <2>12, <5>1, SameTally
      <4>2. Waits(p)'
        BY <3>2, <3>4, <4>1 DEF Open, Waits
      <4>3. ASSUME NEW c \in Ids, born'[c].parent = p
            PROVE  born'[c].idx \in Entries(born'[p]) /\ job'[p].kid[born'[c].idx] = c
        <5>1. CASE c = nextId
          BY <2>2, <2>6, <3>1, <3>4, <4>1, <5>1
        <5>2. CASE c # nextId
          <6>1. born[c].parent = p /\ born'[c] = born[c]
            BY <2>2, <4>3, <5>2
          <6>2. born[c].idx \in Entries(born[p]) /\ job[p].kid[born[c].idx] = c /\ c # 0
            BY <2>6, <6>1, PnJobsAssumption DEF Open, Made, Ids
          <6>3. born[c].idx \in Files
            BY <1>1, <6>2, FilesCount
          <6>4. born[c].idx # f
            BY <1>3, <6>2
          <6> QED
            BY <2>6, <3>1, <3>4, <4>1, <6>1, <6>2, <6>3, <6>4
        <5> QED
          BY <5>1, <5>2
      <4>6. ASSUME NEW g \in Entries(born'[p]), job'[p].kid[g] # 0
            PROVE  LET c == job'[p].kid[g] IN
                   c \in Ids /\ born'[c].parent = p /\ born'[c].idx = g
        <5>1. g \in Entries(born[p]) /\ g \in Files
          BY <1>1, <3>1, <3>4, <4>6, FilesCount
        <5>2. CASE g = f
          BY <1>3, <2>2, <2>6, <4>1, <5>2
        <5>3. CASE g # f
          <6>1. job'[p].kid[g] = job[p].kid[g]
            BY <2>6, <4>1, <5>1, <5>3
          <6>2. /\ job[p].kid[g] \in Ids /\ born[job[p].kid[g]].parent = p
                /\ born[job[p].kid[g]].idx = g
            BY <2>6, <4>6, <5>1, <6>1 DEF Open, Made
          <6>3. job[p].kid[g] # nextId
            BY <1>1, <2>1, <6>2
          <6> QED
            BY <2>2, <6>1, <6>2, <6>3
        <5> QED
          BY <5>2, <5>3
      <4>4. Left(p)' = Left(p)
        BY <1>1, <1>3, <2>1, <2>2 DEF Left
      <4>5. Counted(p)'
        <5>1. Left(p) \in SUBSET Ids /\ job[p] \in Job
          BY <1>1 DEF Left, Jobs
        <5>2. /\ Cardinality(Left(p)) + Missing(born[p], job[p]) \in Nat
              /\ job[p].finished + job[p].failed \in Nat
          BY <1>1, <5>1, CountIds, FilesCount DEF Job
        <5>3. Nearly(job[p].finished + job[p].failed,
                     Cardinality(Left(p)) + Missing(born[p], job[p]), cancels')
          BY <2>6, <5>2, StillNearly DEF Open, Counted, Onwards
        <5> QED
          BY <2>6, <2>7, <4>1, <4>4, <5>3 DEF Open, Counted, Missing
      <4> QED
        BY <3>4, <4>2, <4>3, <4>5, <4>6 DEF Open, Made
    <3> QED
      BY <3>3, <3>4
  <2> QED
    BY <2>4, <2>5, <2>13 DEF BatchesOpen
<1> QED
  BY <1>2, <1>3 DEF HandleFileDone

\* Whatever the loop hears.
LEMMA MessageBatches ==
  ASSUME "child" \notin Faults, Typed, Typed', Onwards, RowsInv, PlacesInv, Speaks, BatchesInv, ApartInv,
         Receive \/ NoMessage
  PROVE  BatchesOpen' /\ NoneDone /\ Handed'
<1>1. LayersTypeOK /\ job \in Jobs /\ queue \subseteq Ids /\ Places /\ BatchesOpen /\ Handed
  BY DEF Typed, TypeOK, Jobs, PlacesInv, BatchesInv
<1>2. ASSUME UNCHANGED <<queue, job, db, born, nextId>>, pc' # "admit"
      PROVE  BatchesOpen' /\ NoneDone /\ Handed'
  BY <1>1, <1>2, NoneDoneStill, NoOrphans, BatchesLeft, HandedStill
<1>3. ASSUME NEW jobs \in Jobs, BackToTop(jobs), UNCHANGED <<queue, db, born, nextId>>,
             \A k \in Ids : Tally(jobs[k]) = Tally(job[k])
      PROVE  BatchesOpen' /\ NoneDone /\ Handed'
  <2>1. job' = Checked(jobs, epoch) /\ pc' # "admit"
    BY <1>3 DEF BackToTop
  <2> QED
    BY <1>1, <1>3, <2>1, NoneDoneStill, NoOrphans, BatchesStay, HandedStill
<1>4. CASE NoMessage
  BY <1>2, <1>4 DEF NoMessage, StartDup, layerVars
<1>5. CASE Receive
  <2>1. PICK l \in Layers :
          /\ ret[l] # <<>> /\ Received(l)
          /\ LET m == Head(ret[l]) IN
               \/ HandleStale(m) \/ HandleAssign(l, m) \/ HandleFileDone(m)
               \/ HandleDuplicate(m) \/ HandleStage(m)
    BY <1>5 DEF Receive
  <2>2. PICK m : m = Head(ret[l])
    OBVIOUS
  <2>3. \/ HandleStale(m) \/ HandleAssign(l, m) \/ HandleFileDone(m)
        \/ HandleDuplicate(m) \/ HandleStage(m)
    BY <2>1, <2>2
  <2>4. UNCHANGED <<pend, run, inbox, cur>>
    BY <1>5 DEF Receive, poolVars, encVars
  <2>5. m \in Message /\ m.id \in Ids /\ Told(l, m.id)
    BY <1>1, <2>1, <2>2, <2>4, Heard
  <2>6. Says(l, m) /\ With(l, m.id)
    BY <1>1, <2>1, <2>2, <2>5, SaidFirst DEF With
  <2>7. CASE HandleStale(m)
    BY <1>2, <2>7 DEF HandleStale, StartDup
  <2>8. CASE HandleAssign(l, m)
    <3> DEFINE label(c) == IF c = m.id THEN [job[c] EXCEPT !.worker = SlotOf(l)]
                           ELSE IF c \in ForwardedTo({m.id})
                                THEN [job[c] EXCEPT !.worker = ForwardedWorker(SlotOf(l))]
                                ELSE job[c]
               jobs == [c \in Ids |-> label(c)]
    <3>1. BackToTop(jobs) /\ UNCHANGED <<queue, db, born, nextId>>
      BY <2>8 DEF HandleAssign
    <3>2. SlotOf(l) \in Workers
      BY DEF SlotOf, Workers
    <3>3. ASSUME NEW c \in Ids PROVE label(c) \in Job /\ Tally(label(c)) = Tally(job[c])
      <4>1. job[c] \in Job
        BY <1>1 DEF Jobs
      <4>2. \A w \in Workers : /\ [job[c] EXCEPT !.worker = w] \in Job
                               /\ Tally([job[c] EXCEPT !.worker = w]) = Tally(job[c])
        BY <4>1 DEF Job, Tally
      <4> QED
        BY <3>2, <4>1, <4>2, ForwardedWorkerType
    <3> HIDE DEF label
    <3>4. jobs \in Jobs /\ \A k \in Ids : Tally(jobs[k]) = Tally(job[k])
      BY <3>3 DEF Jobs
    <3> HIDE DEF jobs
    <3> QED
      BY <1>3, <3>1, <3>4
  <2>9. CASE HandleDuplicate(m)
    <3> DEFINE jobs == [job EXCEPT ![m.id].dup = m.owner]
               j == [job[m.id] EXCEPT !.dup = m.owner]
    <3>1. BackToTop(jobs) /\ UNCHANGED <<queue, db, born, nextId>>
      BY <2>9 DEF HandleDuplicate
    <3>2. job[m.id] \in Job /\ m.owner \in Ids0
      BY <1>1, <2>5 DEF Jobs, Message
    <3>3. j \in Job /\ Tally(j) = Tally(job[m.id])
      BY <3>2 DEF Job, Tally
    <3>4. jobs = [job EXCEPT ![m.id] = j]
      OBVIOUS
    <3> HIDE DEF j
    <3>5. jobs \in Jobs /\ \A k \in Ids : Tally(jobs[k]) = Tally(job[k])
      BY <1>1, <2>5, <3>3, <3>4 DEF Jobs
    <3> HIDE DEF jobs
    <3> QED
      BY <1>3, <3>1, <3>5
  <2>10. CASE HandleFileDone(m)
    <3>1. l = "Download"
      BY <2>6, <2>10 DEF Says, HandleFileDone
    <3>2. m.file \in Entries(born[m.id])
      <4>1. 1 \in DOMAIN ret["Download"] /\ Head(ret["Download"]) = ret["Download"][1]
        BY <1>1, <2>1, <3>1 DEF LayersTypeOK
      <4> QED
        BY <2>2, <2>10, <3>1, <4>1 DEF BatchesInv, Asked, Apt, HandleFileDone
    <3> QED
      BY <1>1, <2>5, <2>6, <2>10, <3>1, <3>2, FileDoneBatches
  <2>11. CASE HandleStage(m)
    <3>1. UNCHANGED <<born, nextId>> /\ pc' # "admit"
      BY <2>11 DEF HandleStage, StartDup
    <3> QED
      BY <1>1, <2>5, <2>6, <2>11, <3>1, StageBatches, HandedStill
  <2> QED
    BY <2>3, <2>7, <2>8, <2>9, <2>10, <2>11
<1> QED
  BY <1>4, <1>5

-----------------------------------------------------------------------------
(* The walks                                                                *)

\* One job is visited that is no batch.
LEMMA VisitBatches ==
  ASSUME Typed, Typed', Onwards, BatchesOpen, NEW i \in Ids, ~Batch(i), UNCHANGED <<queue, born>>,
         \A k \in Ids \ {i} : job'[k] = job[k] /\ db'[k] = db[k]
  PROVE  BatchesOpen' /\ NoneDone
<1>1. queue \subseteq Ids /\ job' \in Jobs
  BY DEF Typed, TypeOK, Jobs
<1>2. \A p \in queue : Batch(p) => p # i /\ job'[p] = job[p] /\ db'[p] = db[p]
  BY <1>1
<1>3. NoneDone
  BY <1>2 DEF BatchesOpen, Open, Waits, NoneDone
<1> QED
  BY <1>1, <1>2, <1>3, NoOrphans, BatchesStay

\* Rows of one job
LEMMA RowsOfOne ==
  ASSUME Typed, NEW i \in Ids, NEW s, NEW A \in SUBSET {i}, db' = Rows({i}, s, A)
  PROVE  \A k \in Ids \ {i} : db'[k] = db[k]
  BY DEF Rows

\* A batch that waits for another's input gets it, or is queued again.
LEMMA WaitWalkBatches ==
  ASSUME Typed, Typed', Onwards, RowsInv, PlacesInv, BatchesOpen, NEW i \in Ids, DupStep(i) \/ WaitStep(i)
  PROVE  BatchesOpen' /\ NoneDone
<1>1. i \in pass.todo /\ pc \in {"dup", "wait"} /\ UNCHANGED <<queue, born>>
  BY DEF DupStep, WaitStep, At
<1>2. i \in queue /\ queue \subseteq Ids /\ job \in [Ids -> Job] /\ job' \in Jobs /\ job[i] \in Job
  BY <1>1 DEF RowsInv, WalkVisitsLiving, Typed, TypeOK, Jobs
<1>3. CASE DupStep(i)
  <2>1. pc = "dup" /\ job[i].ready = "Downloading"
    <3>1. pc = "dup"
      BY <1>3 DEF DupStep, At
    <3> QED
      BY <1>1, <3>1 DEF PlacesInv, WalksHold
  <2>2. \A k \in Ids \ {i} : job'[k] = job[k]
    BY <1>2, <1>3 DEF DupStep
  <2>3. db' = db \/ \E s \in {"Downloaded", "Queued"} : db' = Rows({i}, s, {})
    BY <1>3 DEF DupStep
  <2>4. NoneDone
    BY <2>3, NoneDoneStill, NoneDoneByRows
  <2>5. \/ job'[i] = job[i]
        \/ job'[i] = [job[i] EXCEPT !.ready = "Downloaded", !.worker = "dwl-cache"]
        \/ job'[i] = Requeued(job[i])
        \/ job'[i] = [job[i] EXCEPT !.ready = "Downloaded", !.dup = 0]
    BY <1>2, <1>3 DEF DupStep
  <2>6. /\ job'[i].ready \in {"Queued", "Downloading", "Downloaded"} /\ job'[i].fwd = job[i].fwd
        /\ job'[i].settled = job[i].settled /\ job'[i].kid = job[i].kid
        /\ job'[i].finished = job[i].finished /\ job'[i].failed = job[i].failed
    BY <1>2, <2>1, <2>5 DEF Job, Requeued
  <2>7. ASSUME NEW p \in queue', Batch(p)' PROVE Open(p)'
    <3>1. p \in queue /\ Batch(p) /\ Open(p) /\ SameChildren(p) /\ db'[p].stage # "Uploaded"
      BY <1>1, <2>4, <2>7 DEF BatchesOpen, Batch, SameChildren, NoneDone
    <3>2. CASE p # i
      BY <1>1, <1>2, <2>2, <3>1, <3>2, NoOrphans, OpenStays
    <3>3. CASE p = i
      <4>1. ~job[i].settled /\ job[i].fwd = 0
        BY <2>1, <3>1, <3>3 DEF Open, Waits
      <4>2. Missing(born[i], job'[i]) = 0 /\ Missing(born[i], job[i]) = 0
        BY <2>6, <4>1 DEF Missing
      <4>3. job[i].finished \in Nat /\ job[i].failed \in Nat /\ job'[i] \in Job
        BY <1>2 DEF Job, Jobs
      <4>4. {} \in SUBSET queue /\ {c \in {} : born[c].parent = i} = {} /\ {} \cap queue' = {}
        OBVIOUS
      <4>5. Tells(job'[i].finished + job'[i].failed + Missing(born[i], job[i]),
                  job[i].finished + job[i].failed + Missing(born[i], job'[i]) + Cardinality({}))
        BY <2>6, <4>2, <4>3, FS_EmptySet DEF Tells
      <4>6. Undisturbed => \A c \in queue \ queue' : born[c].parent = i => c \in {}
        BY <1>1
      <4> QED
        BY <1>2, <2>6, <3>1, <3>3, <4>1, <4>3, <4>4, <4>5, <4>6, OpenTold
    <3> QED
      BY <3>2, <3>3
  <2> QED
    BY <2>4, <2>7 DEF BatchesOpen
<1>4. CASE WaitStep(i)
  <2>1. Type(i) \in RequeueTypes
    <3>1. pc = "wait"
      BY <1>4 DEF WaitStep, At
    <3> QED
      BY <1>1, <3>1 DEF PlacesInv, WalksHold
  <2>2. ~Batch(i)
    BY <2>1 DEF Batch, IsBatch, Type, TypeOf, RequeueTypes
  <2>3. \A k \in Ids \ {i} : job'[k] = job[k]
    BY <1>2, <1>4 DEF WaitStep
  <2>4. db' = db \/ db' = Rows({i}, "Failed", {i})
    BY <1>4 DEF WaitStep, Killed
  <2> QED
    BY <1>1, <2>2, <2>3, <2>4, RowsOfOne, VisitBatches
<1> QED
  BY <1>3, <1>4

\* The progression walk passes batches by.
LEMMA ProgressBatches ==
  ASSUME Typed, Typed', Onwards, BatchesOpen, NEW i \in Ids, ProgressStep(i)
  PROVE  BatchesOpen' /\ NoneDone
<1>1. UNCHANGED <<queue, born>> /\ job \in [Ids -> Job]
  BY DEF ProgressStep, ProgressSkip, Skip, KeycodeWait, KeycodeFail, KeycodeDispatch,
         DispatchProbeLayer, DispatchUpload, FinishKeep, EncodeForward, EncodeWaitsForInput,
         EncodeHeldBack, EncodeDispatch, DispatchKilled, Steady, layerVars, Typed, TypeOK
<1>2. CASE ProgressSkip(i) \/ EncodeHeldBack(i)
  <2>1. UNCHANGED <<job, db>>
    BY <1>2 DEF ProgressSkip, EncodeHeldBack, Skip
  <2> QED
    BY <1>1, <2>1, NoneDoneStill, NoOrphans, BatchesLeft
<1>3. ASSUME Progressing(i), \A k \in Ids \ {i} : job'[k] = job[k],
             db' = db \/ \E s : \E A \in SUBSET {i} : db' = Rows({i}, s, A)
      PROVE  BatchesOpen' /\ NoneDone
  BY <1>1, <1>3, RowsOfOne, VisitBatches DEF Progressing
<1>4. CASE KeycodeWait(i)
  BY <1>1, <1>3, <1>4 DEF KeycodeWait
<1>5. CASE KeycodeFail(i) \/ DispatchKilled(i)
  BY <1>1, <1>3, <1>5 DEF KeycodeFail, DispatchKilled, Killed
<1>6. CASE KeycodeDispatch(i)
  BY <1>1, <1>3, <1>6 DEF KeycodeDispatch
<1>7. CASE DispatchProbeLayer(i) \/ DispatchUpload(i)
  BY <1>1, <1>3, <1>7 DEF DispatchProbeLayer, DispatchUpload, PoolDispatch
<1>8. CASE FinishKeep(i)
  BY <1>1, <1>3, <1>8 DEF FinishKeep
<1>9. CASE EncodeForward(i)
  BY <1>1, <1>3, <1>9 DEF EncodeForward, Encodable
<1>10. CASE EncodeWaitsForInput(i)
  BY <1>1, <1>3, <1>10 DEF EncodeWaitsForInput, Encodable
<1>11. CASE EncodeDispatch(i)
  BY <1>1, <1>3, <1>11 DEF EncodeDispatch, EncodeReady, Encodable
<1> QED
  BY <1>2, <1>4, <1>5, <1>6, <1>7, <1>8, <1>9, <1>10, <1>11 DEF ProgressStep

\* The walks end without a batch: none is dead, and none follows an upload.
LEMMA WalkEndsBatches ==
  ASSUME Typed, Typed', Onwards, BatchesOpen, Handed, ApartInv, DupEnd \/ WaitEnd \/ ProgressEnd
  PROVE  BatchesOpen' /\ NoneDone /\ Handed'
<1>1. job \in Jobs /\ job' \in Jobs /\ queue \subseteq Ids
  BY DEF Typed, TypeOK, Jobs
<1>2. UNCHANGED <<born, nextId>> /\ pc' # "admit"
  BY DEF DupEnd, WaitEnd, ProgressEnd, layerVars
<1>3. Handed'
  BY <1>2, HandedStill
\* The dead are nobody's children.
<1>7. Orphans
  <2>1. queue \ queue' \subseteq pass.dead
    BY DEF DupEnd, WaitEnd, ProgressEnd
  <2>2. 0 \notin queue
    BY <1>1, PnJobsAssumption DEF Ids
  <2> QED
    BY <2>1, <2>2 DEF Orphans, ApartInv, Leads, LeadsOn, NoChildDies
<1>4. CASE DupEnd
  <2>1. UNCHANGED <<queue, job, db>>
    BY <1>4 DEF DupEnd
  <2> QED
    BY <1>2, <1>3, <2>1, NoneDoneStill, NoOrphans, BatchesLeft
<1>5. CASE WaitEnd
  <2> DEFINE jobs == Without(job, pass.dead)
  <2>1. queue' = queue \ pass.dead /\ job' = Checked(jobs, epoch) /\ db' = db
    BY <1>5 DEF WaitEnd
  <2>2. jobs \in Jobs /\ \A k \in queue' : k \in queue /\ jobs[k] = job[k]
    BY <1>1, <2>1, WithoutType, WithoutKeeps
  <2> HIDE DEF jobs
  <2> QED
    BY <1>1, <1>2, <1>3, <1>7, <2>1, <2>2, NoneDoneStill, BatchesStay
<1>6. CASE ProgressEnd
  <2> DEFINE followers == ForwardedTo(pass.uploads)
             synced == [c \in Ids |-> IF c \in followers
                                  THEN [job[c] EXCEPT !.ready = "Uploading", !.worker = "upl-forward"]
                                  ELSE job[c]]
  <2>1. /\ queue' = queue \ pass.dead /\ job' = Without(synced, pass.dead)
        /\ db' = Rows(followers, "Uploading", {})
    BY <1>6 DEF ProgressEnd
  <2>2. 0 \notin pass.uploads
    BY PnJobsAssumption DEF Typed, TypeOK, Pass, Ids
  <2>3. \A p \in queue : Batch(p) => p \notin followers /\ p \in Ids
    BY <1>1, <2>2 DEF BatchesOpen, Open, Waits, ForwardedTo
  <2>4. \A p \in queue : Batch(p) => synced[p] = job[p]
    BY <2>3
  <2> HIDE DEF followers, synced
  <2>5. \A p \in queue' : Batch(p) => job'[p] = job[p]
    BY <1>1, <2>1, <2>4, WithoutKeeps
  <2>6. NoneDone
    BY <2>1, NoneDoneByRows
  <2> QED
    BY <1>1, <1>2, <1>3, <1>7, <2>1, <2>5, <2>6, BatchesStay
<1> QED
  BY <1>4, <1>5, <1>6

\* A batch with a child in the queue lacks that child in its count: the children
\* that left and the files that never came are fewer than what was asked for.
LEMMA ChildIsLacking ==
  ASSUME Typed, NEW p \in queue, Made(p), NEW c \in queue, born[c].parent = p
  PROVE  Cardinality(Left(p)) + Cardinality(Unspawned(born[p], job[p]))
           < Cardinality(Entries(born[p]))
<1> DEFINE D == Left(p) \cup {c}
           E == Entries(born[p])
           U == Unspawned(born[p], job[p])
           g == [d \in D |-> born[d].idx]
<1>1. /\ p \in Ids /\ c \in Ids /\ 0 \notin Ids /\ Left(p) \in SUBSET Ids /\ c \notin Left(p)
      /\ \A d \in D : d \in Ids /\ born[d].parent = p
  <2>1. p \in Ids /\ c \in Ids /\ 0 \notin Ids
    <3>1. queue \subseteq Ids
      BY DEF Typed, TypeOK
    <3>2. 0 \notin Ids
      BY PnJobsAssumption DEF Ids
    <3> QED
      BY <3>1, <3>2
  <2>2. Left(p) \in SUBSET Ids /\ c \notin Left(p) /\ \A d \in Left(p) : born[d].parent = p
    BY DEF Left
  <2> QED
    BY <2>1, <2>2
<1>2. /\ IsFiniteSet(E) /\ Cardinality(E) \in Nat /\ IsFiniteSet(U) /\ Cardinality(U) \in Nat
      /\ U \subseteq E
  BY FilesCount
<1>3. g \in Injection(D, E \ U)
  <2>1. \A d \in D : born[d].idx \in E \ U /\ job[p].kid[born[d].idx] = d
    BY <1>1 DEF Made, Unspawned
  <2>2. g \in [D -> E \ U]
    BY <2>1
  <2>3. \A d, e \in D : g[d] = g[e] => d = e
    BY <2>1
  <2> HIDE DEF D, E, U, g
  <2> QED
    BY <2>2, <2>3 DEF Injection, IsInjective
<1>4. IsFiniteSet(E \ U) /\ Cardinality(E \ U) = Cardinality(E) - Cardinality(U)
  <2>1. E \cap U = U
    BY <1>2
  <2> HIDE DEF E, U
  <2> QED
    BY <1>2, <2>1, FS_Difference
<1>5. Cardinality(D) = Cardinality(Left(p)) + 1 /\ Cardinality(Left(p)) \in Nat
  BY <1>1, CountIds, FS_AddElement
<1>6. Cardinality(D) <= Cardinality(E \ U)
  <2> HIDE DEF D, E, U, g
  <2> QED
    BY <1>3, <1>4, FS_Injection
<1> HIDE DEF D
<1> QED
  BY <1>2, <1>4, <1>5, <1>6

\* What is settled counts the files that never came, and a batch whose count is full
\* has no child left.
LEMMA ParentsBatches ==
  ASSUME Typed, Typed', Onwards, BatchesOpen, Handed, BatchParents
  PROVE  BatchesOpen' /\ Outlives /\ Handed'
<1> DEFINE settled == [i \in Ids |->
             IF i \in queue /\ Batch(i) /\ job[i].ready = "Downloaded" /\ ~job[i].settled
             THEN Settle(born[i], job[i]) ELSE job[i]]
           done == {i \in queue : /\ Batch(i) /\ Complete(born[i], settled[i])
                                  /\ job[i].ready \in {"Downloaded", "Downloading"}}
           jobs == Without(settled, done)
<1>1. job \in Jobs /\ queue \subseteq Ids
  BY DEF Typed, TypeOK, Jobs
<1>2. /\ queue' = queue \ done /\ UNCHANGED <<born, nextId>> /\ pc' # "admit"
      /\ db' = Rows(done, "Uploaded", done)
      /\ job' = jobs \/ job' = Checked(jobs, epoch)
  BY DEF BatchParents
<1>3. Handed'
  BY <1>2, HandedStill
<1>4. \A k \in Ids : settled[k] = SettledJob(k) /\ settled[k] \in Job
  BY SettledLease DEF SettledJob
<1>5. done \subseteq queue /\ \A p \in done : Batch(p) /\ Complete(born[p], settled[p])
  OBVIOUS
<1>10. Orphans
  <2>1. 0 \notin queue
    BY <1>1, PnJobsAssumption DEF Ids
  <2>2. \A p \in queue \ queue' : born[p].parent = 0
    BY <1>2, <1>5 DEF Batch, IsBatch
  <2> QED
    BY <2>1, <2>2 DEF Orphans
<1>6. settled \in Jobs
  BY <1>4 DEF Jobs
<1> HIDE DEF settled, done
\* what settling does to one open batch
<1>7. ASSUME NEW p \in queue, Batch(p), Open(p)
      PROVE  LET s == settled[p] IN
             /\ s.fwd = 0 /\ s.ready = job[p].ready /\ s.kid = job[p].kid
             /\ s.settled => s.ready = "Downloaded"
             /\ s.finished + s.failed + Missing(born[p], job[p])
                  = job[p].finished + job[p].failed + Missing(born[p], s)
  <2>1. p \in Ids /\ job[p] \in Job /\ settled[p] = SettledJob(p)
    BY <1>1, <1>4 DEF Jobs
  <2>2. job[p].fwd = 0 /\ (job[p].settled => job[p].ready = "Downloaded")
    BY <1>7 DEF Open, Waits
  <2>3. job[p].finished \in Nat /\ job[p].failed \in Nat
    BY <2>1 DEF Job
  <2>4. CASE job[p].ready = "Downloaded" /\ ~job[p].settled
    <3> DEFINE n == Cardinality(Unspawned(born[p], job[p]))
    <3>1. n \in Nat
      BY FilesCount
    <3>2. settled[p] = [job[p] EXCEPT !.settled = TRUE, !.failed = @ + n]
      BY <1>7, <2>1, <2>4 DEF SettledJob, Settle
    <3> HIDE DEF n
    <3>3. /\ settled[p].fwd = job[p].fwd /\ settled[p].ready = job[p].ready
          /\ settled[p].kid = job[p].kid /\ settled[p].settled
          /\ settled[p].finished = job[p].finished /\ settled[p].failed = job[p].failed + n
      BY <2>1, <3>1, <3>2 DEF Job
    <3>4. Missing(born[p], job[p]) = 0 /\ Missing(born[p], settled[p]) = n
      BY <2>4, <3>3 DEF Missing, Unspawned, n
    <3> QED
      BY <2>2, <2>3, <2>4, <3>1, <3>3, <3>4
  <2>5. CASE ~(job[p].ready = "Downloaded" /\ ~job[p].settled)
    <3>1. settled[p] = job[p]
      BY <2>1, <2>5 DEF SettledJob
    <3> QED
      BY <2>2, <3>1
  <2> QED
    BY <2>4, <2>5
<1>8. ASSUME NEW p \in queue', Batch(p)' PROVE Open(p)'
  <2>1. p \in queue /\ p \in Ids /\ p \notin done /\ Batch(p) /\ Open(p) /\ SameChildren(p)
    BY <1>1, <1>2, <1>8 DEF BatchesOpen, Batch, SameChildren
  <2>2. db'[p].stage # "Uploaded"
    BY <1>2, <2>1 DEF Rows, Open, Waits
  <2>3. Tally(job'[p]) = Tally(settled[p])
    <3>1. jobs \in Jobs /\ jobs[p] = settled[p]
      BY <1>6, <2>1, WithoutType, WithoutKeeps
    <3> HIDE DEF jobs
    <3> QED
      BY <1>2, <2>1, <3>1, CheckedTally
  <2> DEFINE s == settled[p]
  <2>4. /\ s \in Job /\ s.fwd = 0 /\ s.ready \in {"Queued", "Downloading", "Downloaded"}
        /\ s.kid = job[p].kid /\ (s.settled => s.ready = "Downloaded")
        /\ s.finished + s.failed + Missing(born[p], job[p])
             = job[p].finished + job[p].failed + Missing(born[p], s)
    BY <1>4, <1>7, <2>1 DEF Open, Waits
  <2>5. {} \in SUBSET queue /\ {c \in {} : born[c].parent = p} = {} /\ {} \cap queue' = {}
    OBVIOUS
  <2>6. Tells(s.finished + s.failed + Missing(born[p], job[p]),
              job[p].finished + job[p].failed + Missing(born[p], s) + Cardinality({}))
    <3>1. job[p].finished \in Nat /\ job[p].failed \in Nat /\ Missing(born[p], s) \in Nat
      BY <1>1, <2>1, FilesCount DEF Jobs, Job
    <3> HIDE DEF s
    <3> QED
      BY <2>4, <3>1, FS_EmptySet DEF Tells
  <2>7. Tally(job'[p]) = Tally(s)
    BY <2>3
  <2>8. Undisturbed => \A c \in queue \ queue' : born[c].parent = p => c \in {}
    BY <1>10, <2>1 DEF Orphans
  <2> HIDE DEF s
  <2> QED
    BY <2>1, <2>2, <2>4, <2>5, <2>6, <2>7, <2>8, OpenTold
<1>9. ASSUME NEW p \in queue \ queue', Batch(p), NEW c \in queue', born'[c].parent = p
      PROVE  FALSE
  <2>1. /\ p \in done /\ p \in queue /\ p \in Ids /\ c \in queue /\ born[c].parent = p
        /\ Open(p) /\ Complete(born[p], settled[p])
    BY <1>1, <1>2, <1>5, <1>9 DEF BatchesOpen
  <2> DEFINE s == settled[p]
             U == Unspawned(born[p], job[p])
  <2>2. /\ s.kid = job[p].kid
        /\ s.finished + s.failed + Missing(born[p], job[p])
             = job[p].finished + job[p].failed + Missing(born[p], s)
    BY <1>7, <1>9, <2>1
  <2>3. Missing(born[p], s) <= Cardinality(U)
    BY <2>1, <2>2, FilesCount DEF Missing, Unspawned
  <2>4. job[p].finished + job[p].failed <= Cardinality(Left(p)) + Missing(born[p], job[p])
    BY <2>1 DEF Open, Counted, Nearly
  <2>5. Cardinality(Left(p)) + Cardinality(U) < Cardinality(Entries(born[p]))
    BY <2>1, ChildIsLacking DEF Open
  <2>6. s.finished + s.failed >= Cardinality(Entries(born[p]))
    BY <2>1 DEF Complete
  <2>7. /\ Cardinality(Left(p)) \in Nat /\ Cardinality(U) \in Nat
        /\ Cardinality(Entries(born[p])) \in Nat
        /\ Missing(born[p], s) \in Nat /\ Missing(born[p], job[p]) \in Nat
        /\ job[p].finished \in Nat /\ job[p].failed \in Nat
        /\ s.finished \in Nat /\ s.failed \in Nat
    <3>1. Left(p) \in SUBSET Ids
      BY DEF Left
    <3>2. job[p] \in Job /\ s \in Job
      BY <1>1, <1>4, <2>1 DEF Jobs
    <3>3. /\ job[p].finished \in Nat /\ job[p].failed \in Nat
          /\ s.finished \in Nat /\ s.failed \in Nat
      BY <3>2 DEF Job
    <3> QED
      BY <2>1, <3>1, <3>3, CountIds, FilesCount
  <2> HIDE DEF s, U
  <2> QED
    BY <2>2, <2>3, <2>4, <2>5, <2>6, <2>7
<1> QED
  BY <1>3, <1>8, <1>9 DEF BatchesOpen, Outlives

-----------------------------------------------------------------------------
(* What the layers announce, and the theorem                                *)

\* The loop hands out one id at a time, and changes no other.
LEMMA BornOnce ==
  ASSUME Typed, LoopStep \/ ClientStep \/ ClockStep
  PROVE  \A k \in Ids : k # nextId => born'[k] = born[k]
<1> DEFINE Goal == \A k \in Ids : k # nextId => born'[k] = born[k]
<1>1. born \in [Ids -> Birth]
  BY DEF Typed, TypeOK, LayersTypeOK
<1>2. ASSUME NEW n \in Names, Submit(n) PROVE Goal
  BY <1>1, <1>2 DEF Submit, Refuse, DeclineSetup, Prepare, layerVars
<1>3. ASSUME NEW m, HandleFileDone(m) PROVE Goal
  BY <1>1, <1>3 DEF HandleFileDone
<1>4. Receive => Goal
  BY <1>3 DEF Receive, HandleStale, HandleAssign, HandleDuplicate, HandleStage
<1>5. ASSUME NEW i \in Ids, ProgressStep(i) PROVE Goal
  BY <1>5 DEF ProgressStep, ProgressSkip, Skip, KeycodeWait, KeycodeFail, KeycodeDispatch,
         DispatchProbeLayer, DispatchUpload, FinishKeep, EncodeForward, EncodeWaitsForInput,
         EncodeHeldBack, EncodeDispatch, DispatchKilled, Steady, layerVars
<1>6. ASSUME NEW i \in Ids, DupStep(i) \/ WaitStep(i) PROVE Goal
  BY <1>6 DEF DupStep, WaitStep
<1>7. Admit \/ NoRequest \/ NoMessage \/ DupEnd \/ WaitEnd \/ ProgressEnd \/ BatchParents => Goal
  BY DEF Admit, NoRequest, NoMessage, DupEnd, WaitEnd, ProgressEnd, BatchParents, layerVars
<1>8. GitQuery \/ ArmedGitQuery => Goal
  BY DEF GitQuery, ArmedGitQuery, GitSync, layerVars
<1>9. ASSUME NEW i \in Ids, Cancel(i) \/ ProbeTimeout(i) PROVE Goal
  BY <1>9 DEF Cancel, ProbeTimeout
<1>10. ASSUME NEW S, EncodeStall(S) PROVE Goal
  BY <1>10 DEF EncodeStall
<1>11. DrainReboot \/ ReceiveReboot \/ ExpireCache \/ ExpireKeep => Goal
  BY DEF DrainReboot, ReceiveReboot, ExpireCache, ExpireKeep, layerVars
<1> QED
  BY <1>2, <1>4, <1>5, <1>6, <1>7, <1>8, <1>9, <1>10, <1>11 DEF LoopStep, ClientStep, ClockStep

\* The loop takes what was announced, and remembers what was asked for.
LEMMA LoopAsks ==
  ASSUME Typed, PlacesInv, Asked, LoopStep \/ ClientStep \/ ClockStep
  PROVE  Asked'
<1> SUFFICES ASSUME NEW l \in Layers PROVE (\A k \in DOMAIN ret[l] : Apt(ret[l][k]))'
  BY DEF Asked
<1>1. LayersTypeOK /\ ret[l] \in Seq(Message)
  BY DEF Typed, TypeOK, LayersTypeOK
<1>2. \A k \in DOMAIN ret[l] : Apt(ret[l][k]) /\ born'[ret[l][k].id] = born[ret[l][k].id]
  <2> SUFFICES ASSUME NEW k \in DOMAIN ret[l] PROVE born'[ret[l][k].id] = born[ret[l][k].id]
    BY DEF Asked
  <2>1. ret[l][k] \in Message
    BY <1>1
  <2>2. ret[l][k].id \in Ids
    BY <2>1 DEF Message
  <2>3. With(l, ret[l][k].id)
    BY DEF With, Told, Said
  <2>4. ret[l][k].id # nextId
    BY <1>1, <2>2, <2>3, PnJobsAssumption DEF PlacesInv, Fresh, Ids
  <2> QED
    BY <2>2, <2>4, BornOnce
<1>3. \A k \in DOMAIN ret[l] : LET m == ret[l][k] IN
        /\ m.kind = "filedone" => m.file \in Entries(born'[m.id])
        /\ m.kind = "stage" /\ m.stage = "Probed" => TypeOf(born'[m.id]) = "Probe"
  BY <1>2 DEF Apt, Type
<1>4. \/ ret'[l] = ret[l]
      \/ ret[l] # <<>> /\ ret'[l] = Tail(ret[l])
      \/ ret'[l] = <<>>
  BY <1>1, LoopSaysNothing DEF Received, LayersTypeOK
<1>5. CASE ret'[l] = ret[l]
  BY <1>3, <1>5 DEF Apt, Type
<1>6. CASE ret[l] # <<>> /\ ret'[l] = Tail(ret[l])
  <2>1. \A k \in DOMAIN ret'[l] : k + 1 \in DOMAIN ret[l] /\ ret'[l][k] = ret[l][k + 1]
    BY <1>1, <1>6
  <2> QED
    BY <1>3, <2>1 DEF Apt, Type
<1>7. CASE ret'[l] = <<>>
  BY <1>7
<1> QED
  BY <1>4, <1>5, <1>6, <1>7

\* A task announces only files it was asked for, and what is no probe is not probed.

LEMMA WorkersAsk ==
  ASSUME LayersTypeOK, Asked, WorkersNext
  PROVE  Asked'
<1>1. "Download" \in Layers /\ \A l \in Layers : ret[l] \in Seq(Message)
  BY DEF LayersTypeOK, Layers, Pools
<1>2. born' = born
  BY WorkersKeepTypes
<1>3. ASSUME ret' = ret \/ \E l \in Layers, m \in Message : Apt(m) /\ ret' = Sent(l, m)
      PROVE  Asked'
  <2>1. CASE ret' = ret
    BY <1>2, <2>1 DEF Asked, Apt, Type
  <2>2. ASSUME NEW l \in Layers, NEW m \in Message, Apt(m), ret' = Sent(l, m)
        PROVE  Asked'
    <3>1. ASSUME NEW k \in Layers, NEW n \in DOMAIN ret'[k] PROVE Apt(ret'[k][n])
      <4>1. ret[k] \in Seq(Message) /\ (ret'[k] = ret[k] \/ ret'[k] = Append(ret[k], m))
        BY <1>1, <2>2, <3>1 DEF Sent, LayersTypeOK
      <4>2. (n \in DOMAIN ret[k] /\ ret'[k][n] = ret[k][n]) \/ ret'[k][n] = m
        BY <3>1, <4>1, SMTT(30)
      <4> QED
        BY <2>2, <4>2 DEF Asked
    <3> QED
      BY <1>2, <3>1 DEF Asked, Apt, Type
  <2> QED
    BY <1>3, <2>1, <2>2
<1>4. \A i \in Ids : \A s \in Stages :
        /\ StageMsg(i, s) \in Message
        /\ (s = "Probed" => Type(i) = "Probe") => Apt(StageMsg(i, s))
  BY MessageTypes DEF StageMsg, Note, Apt
<1>5. \A i \in Ids : AssignMsg(i) \in Message /\ Apt(AssignMsg(i))
  BY MessageTypes DEF AssignMsg, Note, Apt
<1>6. \A i \in Ids, o \in Ids0 :
        DuplicateMsg(i, o) \in Message /\ Apt(DuplicateMsg(i, o))
  BY MessageTypes DEF DuplicateMsg, Note, Apt
<1>7. Pools \subseteq Layers /\ "Encode" \in Layers /\ "Probe" \in Layers
  BY DEF Layers, Pools
<1>8. CASE EncodeTake
  <2>1. Head(inbox) \in Ids
    BY <1>8 DEF EncodeTake, LayersTypeOK
  <2>2. \E s \in {"Cancelled", "Encoding"} : ret' = Sent("Encode", StageMsg(Head(inbox), s))
    BY <1>8 DEF EncodeTake
  <2> QED
    BY <1>3, <1>4, <1>7, <2>1, <2>2 DEF Stages
<1>9. ASSUME NEW s \in {"Encoded", "Failed", "Cancelled"}, EncodeEnd(s) PROVE Asked'
  <2>1. cur \in Ids /\ ret' = Sent("Encode", StageMsg(cur, s)) /\ s \in Stages
    BY <1>9, PnJobsAssumption DEF EncodeEnd, LayersTypeOK, Ids, Ids0, Stages
  <2> QED
    BY <1>3, <1>4, <1>7, <2>1
<1>10. ASSUME NEW p \in Pools, PoolStart(p) PROVE Asked'
  <2>1. PICK i \in Ids : i = Head(pend[p])
    BY <1>10 DEF PoolStart, LayersTypeOK
  <2>2. ret' = ret \/ ret' = Sent(p, AssignMsg(i))
    BY <1>10, <2>1 DEF PoolStart, TrySent
  <2> QED
    BY <1>3, <1>5, <1>7, <2>2
<1>11. ASSUME NEW p \in Pools, NEW i \in Ids, PoolStep(p, i) PROVE Asked'
  <2>1. PICK s \in Stages : (s = "Probed" => Type(i) = "Probe") /\ ret' = Sent(p, StageMsg(i, s))
    BY <1>11 DEF PoolStep, PoolDone, Download, PoolFailed, PoolCancelled, PoolEnd, ProbeResult,
                 Stages, Type
  <2> QED
    BY <1>3, <1>4, <1>7, <2>1
<1>12. ASSUME NEW p \in Pools, NEW i \in Ids, FetchTorrent(p, i) PROVE Asked'
  BY <1>3, <1>12 DEF FetchTorrent
<1>13. ASSUME NEW i \in Known, DownloadStep(i) PROVE Asked'
  <2>1. i \in Ids
    BY DEF Known
  <2>2. CASE LockTorrent(i)
    BY <1>3, <2>2 DEF LockTorrent
  <2>3. CASE TorrentLocked(i)
    <3>1. \E o \in Ids0 : ret' = Sent("Download", DuplicateMsg(i, o))
      BY <2>3, PnJobsAssumption DEF TorrentLocked, LockHolders, PoolEnd, Ids, Ids0
    <3> QED
      BY <1>1, <1>3, <1>6, <2>1, <3>1
  <2>4. CASE FileDone(i)
    <3>1. PICK f \in Entries(born[i]) : ret' = ret \/ ret' = Sent("Download", FileDoneMsg(i, f))
      BY <2>4 DEF FileDone, TrySent
    <3>2. f \in Idx
      BY <2>1, BornOfRequest DEF Known, LayersTypeOK, Entries, Request, Idx
    <3>3. FileDoneMsg(i, f) \in Message /\ Apt(FileDoneMsg(i, f))
      BY <2>1, <3>2, MessageTypes DEF FileDoneMsg, Note, Apt
    <3> QED
      BY <1>1, <1>3, <3>1, <3>3
  <2> QED
    BY <1>13, <2>2, <2>3, <2>4 DEF DownloadStep
<1>14. ASSUME NEW i \in Ids, PreviewStart(i) PROVE Asked'
  BY <1>3, <1>4, <1>7, <1>14 DEF PreviewStart, Stages
<1> QED
  BY <1>8, <1>9, <1>10, <1>11, <1>12, <1>13, <1>14 DEF WorkersNext, EncoderNext, PoolNext, Known

-----------------------------------------------------------------------------
(* Who may follow whom, where nobody is disturbed                           *)

\* The keys of an output name what was asked for.
LEMMA KeysNameRequest ==
  ASSUME NEW b, NEW fetched
  PROVE  ForwardKeysOf(b, fetched) \subseteq Sources(b.name) \X {b.idx} \X {ReqOf(b).look}
  BY DEF ForwardKeysOf, SourceKeysOf, OwnLink, HashKnown, ReqOf, Sources

\* Nothing is handed out but for a request, and to a batch for a file that came.
LEMMA BornStill ==
  ASSUME Typed, [Next]_vars
  PROVE  \/ /\ born' = born /\ backlog' \subseteq backlog /\ nextId' = nextId
            /\ pc' # "admit" \/ UNCHANGED <<pc, pass>>
         \/ \E n \in Names : Prepare(n)
         \/ /\ backlog' = backlog
            /\ \E l \in Layers : ret[l] # <<>> /\ HandleFileDone(Head(ret[l]))
<1> DEFINE Same == /\ born' = born /\ backlog' \subseteq backlog /\ nextId' = nextId
                   /\ pc' # "admit" \/ UNCHANGED <<pc, pass>>
<1>1. ASSUME NEW n \in Names, Submit(n) PROVE Same \/ Prepare(n)
  BY <1>1 DEF Submit, Refuse, DeclineSetup, BackToTop, layerVars
<1>2. CASE Receive
  <2>1. backlog' = backlog
    BY <1>2 DEF Receive
  <2>2. PICK l \in Layers :
          /\ ret[l] # <<>>
          /\ LET m == Head(ret[l]) IN
               \/ HandleStale(m) \/ HandleAssign(l, m) \/ HandleFileDone(m)
               \/ HandleDuplicate(m) \/ HandleStage(m)
    BY <1>2 DEF Receive
  <2>3. CASE HandleFileDone(Head(ret[l]))
    BY <2>1, <2>2, <2>3
  <2>4. CASE ~HandleFileDone(Head(ret[l]))
    <3>1. UNCHANGED <<born, nextId>> /\ pc' # "admit"
      BY <2>2, <2>4 DEF HandleStale, HandleAssign, HandleDuplicate, HandleStage, StartDup, BackToTop
    <3> QED
      BY <2>1, <3>1
  <2> QED
    BY <2>3, <2>4
<1>3. ASSUME NEW i \in Ids, ProgressStep(i) PROVE Same
  BY <1>3 DEF ProgressStep, ProgressSkip, Skip, KeycodeWait, KeycodeFail, KeycodeDispatch,
         DispatchProbeLayer, DispatchUpload, FinishKeep, EncodeForward, EncodeWaitsForInput,
         EncodeHeldBack, EncodeDispatch, DispatchKilled, EncodeReady, Encodable, Progressing, At,
         Steady, layerVars
<1>4. ASSUME NEW i \in Ids, DupStep(i) \/ WaitStep(i) PROVE Same
  BY <1>4 DEF DupStep, WaitStep, At
<1>5. Admit \/ NoRequest \/ NoMessage \/ DupEnd \/ WaitEnd \/ ProgressEnd \/ BatchParents => Same
  BY DEF Admit, AdmitForwarded, AdmitKilled, AdmitDownload, AdmitProbe, AdmitStudio, AdmitKeycode,
         Push, BackToTop, StartDup, NoRequest, NoMessage, DupEnd, WaitEnd, ProgressEnd, BatchParents,
         layerVars
<1>6. GitQuery \/ ArmedGitQuery => Same
  BY DEF GitQuery, ArmedGitQuery, GitSync, BackToTop, layerVars
<1>7. ASSUME NEW i \in Ids, Cancel(i) \/ ProbeTimeout(i) PROVE Same
  BY <1>7 DEF Cancel, ProbeTimeout
<1>8. ASSUME NEW S, EncodeStall(S) PROVE Same
  BY <1>8 DEF EncodeStall
<1>9. DrainReboot \/ ReceiveReboot \/ ExpireCache \/ ExpireKeep => Same
  BY DEF DrainReboot, ReceiveReboot, ExpireCache, ExpireKeep, mainVars, layerVars
<1>10. WorkerStep => Same
  <2>1. LayersTypeOK
    BY DEF Typed, TypeOK
  <2> QED
    BY <2>1, WorkersKeepTypes DEF WorkerStep, mainVars
<1>11. UNCHANGED vars => Same
  BY DEF vars, mainVars, layerVars
<1> QED
  BY <1>1, <1>2, <1>3, <1>4, <1>5, <1>6, <1>7, <1>8, <1>9, <1>10, <1>11
     DEF Next, LoopStep, ClientStep, ClockStep

\* A request is received once, and a child is made of a file its batch asked for.
LEMMA NextNamed ==
  ASSUME Typed, RowsInv, Handed, Asked, Named, [Next]_vars
  PROVE  Named'
<1>1. CASE born' = born /\ backlog' \subseteq backlog
  BY <1>1 DEF Named, Root, Batch
\* What is to show, of the births that will be
<1> DEFINE Rooted(b, c) == b[c].name # 0 /\ b[c].parent = 0
           Named1 == \A c \in Ids : Rooted(born', c) =>
             born'[c].name \notin backlog' /\ born'[c].idx = Submissions[born'[c].name].idx
           Named2 == \A c, d \in Ids :
             Rooted(born', c) /\ Rooted(born', d) /\ born'[c].name = born'[d].name => c = d
           Parent(c, p) == /\ p \in Ids /\ Rooted(born', p) /\ IsBatch(born'[p])
                           /\ born'[c].name = born'[p].name
                           /\ born'[c].idx \in Entries(born'[c])
           Named3 == \A c \in Ids : born'[c].parent # 0 => Parent(c, born'[c].parent)
<1>0. Named1 /\ Named2 /\ Named3 => Named'
  BY DEF Named, Root, Batch
<1>2. /\ born \in [Ids -> Birth] /\ 0 \notin Ids /\ nextId \in Nat /\ queue \subseteq Known
      /\ ret \in [Layers -> Seq(Message)]
  BY PnJobsAssumption DEF Typed, TypeOK, LayersTypeOK, Ids
\* b is what the next id stands for
<1>3. ASSUME nextId \in Ids, NEW b, born' = [born EXCEPT ![nextId] = b]
      PROVE  /\ \A c \in Ids : c # nextId => born'[c] = born[c]
             /\ born'[nextId] = b
             /\ \A c \in Ids : born[c].parent # nextId
  <2>1. \A c \in Ids : born[c].parent # nextId
    <3>1. \A c \in Ids : born[c].parent # 0 => born[c].parent < nextId
      BY DEF Handed
    <3> QED
      BY <1>2, <1>3, <3>1
  <2> QED
    BY <1>2, <1>3, <2>1
<1>4. CASE \E n \in Names : Prepare(n)
  <2>1. PICK n \in Names : Prepare(n)
    BY <1>4
  <2> DEFINE b == [name |-> n, parent |-> 0, idx |-> Submissions[n].idx]
  <2>2. /\ nextId \in Ids /\ n \in backlog /\ backlog' = backlog \ {n}
        /\ born' = [born EXCEPT ![nextId] = b]
    BY <2>1 DEF Prepare
  <2>3. b.name = n /\ b.parent = 0 /\ b.idx = Submissions[n].idx
    OBVIOUS
  <2> HIDE DEF b
  <2>4. /\ \A c \in Ids : c # nextId => born'[c] = born[c]
        /\ born'[nextId] = b
        /\ \A c \in Ids : born[c].parent # nextId
    BY <1>3, <2>2
  <2>5. Named1
    BY <2>2, <2>3, <2>4 DEF Named, Root
  <2>6. ASSUME NEW c \in Ids, NEW d \in Ids, Rooted(born', c), Rooted(born', d),
               born'[c].name = born'[d].name
        PROVE  c = d
    <3>1. \A k \in Ids : Root(k) => born[k].name # n
      BY <2>2 DEF Named
    <3>2. \A k \in {c, d} : k # nextId => Root(k) /\ born'[k] = born[k]
      BY <2>4, <2>6 DEF Root
    <3> QED
      BY <2>3, <2>4, <2>6, <3>1, <3>2 DEF Named
  <2>7. ASSUME NEW c \in Ids, born'[c].parent # 0
        PROVE  Parent(c, born'[c].parent)
    <3>1. c # nextId /\ born'[c] = born[c]
      BY <2>3, <2>4, <2>7
    <3>2. /\ born[c].parent \in Ids /\ Root(born[c].parent) /\ Batch(born[c].parent)
          /\ born[c].name = born[born[c].parent].name /\ born[c].idx \in Entries(born[c])
      BY <2>7, <3>1 DEF Named
    <3>3. born'[born[c].parent] = born[born[c].parent]
      BY <2>4, <3>2
    <3> QED
      BY <3>1, <3>2, <3>3 DEF Root, Batch
  <2>8. Named2 /\ Named3
    BY <2>6, <2>7
  <2> QED
    BY <1>0, <2>5, <2>8
<1>5. CASE /\ backlog' = backlog
           /\ \E l \in Layers : ret[l] # <<>> /\ HandleFileDone(Head(ret[l]))
  <2>1. PICK l \in Layers : ret[l] # <<>> /\ HandleFileDone(Head(ret[l]))
    BY <1>5
  <2> DEFINE m == Head(ret[l])
             q == m.id
             b == [name |-> born[q].name, parent |-> q, idx |-> m.file]
  <2>2. CASE born' = born
    BY <1>1, <1>5, <2>2
  <2>3. CASE born' # born
    <3>1. /\ q \in queue /\ Batch(q) /\ nextId \in Ids /\ m.kind = "filedone"
          /\ born' = [born EXCEPT ![nextId] = b]
      BY <2>1, <2>3 DEF HandleFileDone
    <3>2. m.file \in Entries(born[q])
      <4>1. 1 \in DOMAIN ret[l] /\ m = ret[l][1]
        BY <1>2, <2>1
      <4> QED
        BY <3>1, <4>1 DEF Asked, Apt
    <3>3. b.name = born[q].name /\ b.parent = q /\ b.idx = m.file
      OBVIOUS
    <3>4. q \in Ids /\ q # nextId /\ q # 0 /\ Root(q)
      <4>1. q \in Ids /\ born[q].name # 0 /\ born[q].parent = 0
        BY <1>2, <3>1 DEF Known, Batch, IsBatch
      <4>2. q # nextId
        BY <1>2, <3>1, <4>1 DEF RowsInv, QueuedBefore
      <4> QED
        BY <1>2, <4>1, <4>2 DEF Root
    <3> HIDE DEF b, q, m
    <3>5. /\ \A c \in Ids : c # nextId => born'[c] = born[c]
          /\ born'[nextId] = b
          /\ \A c \in Ids : born[c].parent # nextId
      BY <1>3, <3>1
    <3>6. \A c \in Ids : Rooted(born', c) => c # nextId /\ Root(c) /\ born'[c] = born[c]
      BY <3>3, <3>4, <3>5 DEF Root
    <3>7. ASSUME NEW c \in Ids, born'[c].parent # 0
          PROVE  Parent(c, born'[c].parent)
      <4>1. CASE c = nextId
        <5>1. Entries(b) = Entries(born[q])
          BY <3>3 DEF Entries, ReqOf
        <5> QED
          BY <3>1, <3>2, <3>3, <3>4, <3>5, <4>1, <5>1 DEF Root, Batch
      <4>2. CASE c # nextId
        <5>1. born'[c] = born[c]
          BY <3>5, <4>2
        <5>2. /\ born[c].parent \in Ids /\ Root(born[c].parent) /\ Batch(born[c].parent)
              /\ born[c].name = born[born[c].parent].name /\ born[c].idx \in Entries(born[c])
          BY <3>7, <5>1 DEF Named
        <5>3. born'[born[c].parent] = born[born[c].parent]
          BY <3>5, <5>2
        <5> QED
          BY <5>1, <5>2, <5>3 DEF Root, Batch
      <4> QED
        BY <4>1, <4>2
    <3>8. Named1 /\ Named2
      BY <1>5, <3>6 DEF Named
    <3>9. Named3
      BY <3>7
    <3> QED
      BY <1>0, <3>8, <3>9
  <2> QED
    BY <2>2, <2>3
<1> QED
  BY <1>1, <1>4, <1>5, BornStill

\* Who claims an output in the walk is an encode in the queue, or one that is sent.
LEMMA NextClaims ==
  ASSUME LentInv, Claims, [Next]_vars
  PROVE  Claims'
<1>1. /\ Typed /\ LayersTypeOK /\ pass \in Pass /\ queue \subseteq Known
      /\ pc = "progress" => pass.todo \subseteq queue
  BY DEF LentInv, Typed, TypeOK, RowsInv, WalkVisitsLiving
<1>2. CASE pc' # "progress"
  BY <1>2 DEF Claims
<1>3. ASSUME born' = born, \A c \in pass'.parent : Claimant(c[1], c[2])
      PROVE  Claims'
  <2>1. \A k, i : Claimant(k, i) =>
          LET b == born'[i] IN
          /\ i \in Known' /\ Encodes(TypeOf(b)) /\ ~IsBatch(b)
          /\ k \in Sources(b.name) \X {b.idx} \X {ReqOf(b).look}
    BY <1>3 DEF Claimant, Known
  <2> QED
    BY <1>3, <2>1 DEF Claims, Claimant
<1>13. CASE UNCHANGED <<pc, born>> /\ pass'.parent = pass.parent
  BY <1>2, <1>3, <1>13 DEF Claims
<1>4. ASSUME NEW i \in Known, Encodes(Type(i)), ~Batch(i), NEW k \in ForwardKeys(i)
      PROVE  Claimant(k, i)
  BY <1>4, KeysNameRequest DEF Claimant, ForwardKeys, Known, Type, Batch
<1>5. CASE WaitEnd
  <2> DEFINE Q == queue \ pass.dead
             jobs == Checked(Without(job, pass.dead), epoch)
             S == ActiveParents(Q, jobs)
  <2>1. born' = born /\ pass'.parent = FirstClaims(OutputClaims(S))
    BY <1>5 DEF WaitEnd, layerVars, NoPass
  <2>2. ASSUME NEW c \in pass'.parent PROVE Claimant(c[1], c[2])
    <3>1. c \in OutputClaims(S)
      BY <2>1, <2>2 DEF FirstClaims
    <3>2. PICK i \in S : c \in ForwardKeys(i) \X {i}
      BY <3>1 DEF OutputClaims
    <3>3. i \in queue /\ IsForwardable(born[i])
      BY <3>2 DEF ActiveParents
    <3>4. Encodes(Type(i)) /\ ~Batch(i)
      BY <3>3 DEF IsForwardable, Encodes, Type, Batch, IsBatch, TypeOf
    <3>5. c[1] \in ForwardKeys(i) /\ c[2] = i
      BY <3>2
    <3> QED
      BY <1>1, <1>4, <3>3, <3>4, <3>5
  <2> QED
    BY <1>3, <2>1, <2>2
<1>6. ASSUME NEW i \in Ids, EncodeDispatch(i) PROVE Claims'
  <2>1. /\ pc = "progress" /\ i \in pass.todo /\ ~Batch(i) /\ InEncodeBranch(i) /\ born' = born
    BY <1>6 DEF EncodeDispatch, EncodeReady, Encodable, Progressing, At, Steady
  <2>2. i \in queue /\ i \in Known
    BY <1>1, <2>1
  <2>3. Encodes(Type(i))
    BY <2>1, <2>2 DEF LentInv, LeasesInv, Sane, Apart, InEncodeBranch, Encodes
  <2>4. pass'.parent = Claimed(pass.parent, ForwardKeys(i), i)
    <3>1. \E f, s, k : /\ pass' = [Past(i) EXCEPT !.inFlight = f, !.source = s, !.parent = k]
                       /\ k = Claimed(Past(i).parent, ForwardKeys(i), i)
      BY <1>6, Zenon DEF EncodeDispatch
    <3>2. DOMAIN Past(i) = DOMAIN pass /\ Past(i).parent = pass.parent
      BY <1>1 DEF Past, Pass
    <3> QED
      BY <1>1, <3>1, <3>2 DEF Pass
  <2>5. ASSUME NEW c \in pass'.parent PROVE Claimant(c[1], c[2])
    <3>1. c \in pass.parent \/ (c[1] \in ForwardKeys(i) /\ c[2] = i)
      BY <2>4, <2>5 DEF Claimed
    <3> QED
      BY <1>4, <2>1, <2>2, <2>3, <3>1 DEF Claims
  <2> QED
    BY <1>3, <2>1, <2>5
<1>7. ASSUME NEW i \in Ids, ProgressStep(i), ~EncodeDispatch(i) PROVE Claims'
  <2>1. UNCHANGED <<pc, born>>
    BY <1>7 DEF ProgressStep, ProgressSkip, Skip, KeycodeWait, KeycodeFail, KeycodeDispatch,
         DispatchProbeLayer, DispatchUpload, FinishKeep, EncodeForward, EncodeWaitsForInput,
         EncodeHeldBack, DispatchKilled, Steady, layerVars
  <2>2. \/ pass' = Past(i)
        \/ \E d : pass' = [Past(i) EXCEPT !.dead = d]
        \/ \E u : pass' = [Past(i) EXCEPT !.uploads = u]
    BY <1>7, Zenon DEF ProgressStep, ProgressSkip, Skip, KeycodeWait, KeycodeFail, KeycodeDispatch,
         DispatchProbeLayer, DispatchUpload, FinishKeep, EncodeForward, EncodeWaitsForInput,
         EncodeHeldBack, DispatchKilled, Killed
  <2>3. pass'.parent = pass.parent
    <3>1. /\ Past(i).parent = pass.parent
          /\ \A d : [Past(i) EXCEPT !.dead = d].parent = pass.parent
          /\ \A u : [Past(i) EXCEPT !.uploads = u].parent = pass.parent
      BY <1>1 DEF Past, Pass
    <3> QED
      BY <2>2, <3>1, Zenon
  <2> QED
    BY <1>13, <2>1, <2>3
\* The other steps are not of this walk.
<1>8. ASSUME NEW i \in Ids, DupStep(i) \/ WaitStep(i) \/ Cancel(i) \/ ProbeTimeout(i)
      PROVE  pc' # "progress"
  BY <1>8 DEF DupStep, WaitStep, Cancel, ProbeTimeout, At
<1>9. ASSUME NEW n \in Names, Submit(n) PROVE pc' # "progress"
  BY <1>9 DEF Submit, Refuse, DeclineSetup, Prepare, BackToTop
<1>10. ASSUME NEW S, EncodeStall(S) PROVE pc' # "progress"
  BY <1>10 DEF EncodeStall
<1>11. \/ Admit \/ NoRequest \/ Receive \/ NoMessage \/ DupEnd \/ ProgressEnd \/ BatchParents
       \/ ArmedGitQuery \/ GitQuery \/ DrainReboot \/ ReceiveReboot \/ ExpireCache \/ ExpireKeep
       => pc' # "progress"
  BY DEF Admit, AdmitForwarded, AdmitKilled, AdmitDownload, AdmitProbe, AdmitStudio, AdmitKeycode,
         Push, BackToTop, NoRequest, Receive, HandleStale, HandleAssign, HandleFileDone,
         HandleDuplicate, HandleStage, StartDup, NoMessage, DupEnd, ProgressEnd, BatchParents,
         ArmedGitQuery, GitQuery, GitSync, DrainReboot, ReceiveReboot, ExpireCache, ExpireKeep,
         mainVars
<1>12. CASE WorkerStep \/ UNCHANGED vars
  <2>1. UNCHANGED <<pc, pass, born>>
    BY <1>1, <1>12, WorkersKeepTypes DEF WorkerStep, vars, mainVars, layerVars
  <2> QED
    BY <1>13, <2>1
<1> QED
  BY <1>2, <1>5, <1>6, <1>7, <1>8, <1>9, <1>10, <1>11, <1>12
     DEF Next, LoopStep, ClientStep, ClockStep

\* An encode that is made to follow another follows one of the same output.
LEMMA FollowedIsLike ==
  ASSUME Typed, Claims, pc = "progress", NEW i \in queue, ForwardTarget(i) \notin {0, i}
  PROVE  LET t == ForwardTarget(i)
             n == born[i].name
             k == born[t].name
         IN  /\ t \in Known /\ t \in Ids /\ Encodes(TypeOf(born[t])) /\ ~IsBatch(born[t])
             /\ Sources(n) \cap Sources(k) # {} /\ born[t].idx = born[i].idx
             /\ Submissions[n].look = Submissions[k].look
<1> DEFINE t == ForwardTarget(i)
           n == born[i].name
           k == born[t].name
<1>1. /\ i \in Ids /\ i \in Known /\ queue \subseteq Ids /\ born \in [Ids -> Birth]
      /\ pass.parent \subseteq ForwardKey \X Ids
  BY DEF Typed, TypeOK, LayersTypeOK, Pass
\* the claim that is followed
<1>2. PICK c \in pass.parent : c[1] \in ForwardKeys(i) /\ c[2] = t
  <2>1. \A keys : Claimants(pass.parent, keys) \in SUBSET Ids
    BY <1>1 DEF Claimants
  <2>2. ASSUME NEW keys, Claimants(pass.parent, keys) # {}
        PROVE  First(Claimants(pass.parent, keys)) \in Claimants(pass.parent, keys)
    BY <2>1, <2>2, FirstIn
  <2>3. \/ t \in Claimants(pass.parent, ByLink(i, ForwardKeys(i)))
        \/ t \in Claimants(pass.parent, ForwardKeys(i))
    BY <2>2 DEF ForwardTarget, Preferred
  <2>4. t \in Claimants(pass.parent, ForwardKeys(i))
    BY <2>3 DEF Claimants, ByLink
  <2> QED
    BY <2>4 DEF Claimants
<1> HIDE DEF t
<1>3. /\ t \in Known /\ t \in Ids /\ Encodes(TypeOf(born[t])) /\ ~IsBatch(born[t])
      /\ c[1] \in Sources(k) \X {born[t].idx} \X {ReqOf(born[t]).look}
  BY <1>2 DEF Claims, Claimant, Known
<1>4. c[1] \in Sources(n) \X {born[i].idx} \X {ReqOf(born[i]).look}
  BY <1>2, KeysNameRequest DEF ForwardKeys
<1>5. /\ Sources(n) \cap Sources(k) # {} /\ born[t].idx = born[i].idx
      /\ Submissions[n].look = Submissions[k].look
  BY <1>3, <1>4 DEF ReqOf
<1> QED
  BY <1>3, <1>5 DEF t

\* Nobody else's encode is the output of a child, nor is that of another child.
LEMMA ChildFollowsNobody ==
  ASSUME Typed, Undisturbed, BatchesOpen, Named, Claims, pc = "progress",
         NEW i \in queue, born[i].parent \in queue
  PROVE  ForwardTarget(i) \in {0, i}
<1> DEFINE t == ForwardTarget(i)
           p == born[i].parent
           n == born[i].name
           k == born[t].name
<1> SUFFICES ASSUME t \notin {0, i} PROVE FALSE
  OBVIOUS
<1>1. /\ i \in Ids /\ i \in Known /\ queue \subseteq Ids /\ born \in [Ids -> Birth]
  BY DEF Typed, TypeOK, LayersTypeOK
<1>2. /\ t \in Known /\ t \in Ids /\ Encodes(TypeOf(born[t])) /\ ~IsBatch(born[t])
      /\ Sources(n) \cap Sources(k) # {} /\ born[t].idx = born[i].idx
      /\ Submissions[n].look = Submissions[k].look
  BY FollowedIsLike
<1> HIDE DEF t
\* the batch, and what it was asked for
<1>6. /\ p \in Ids /\ p # 0 /\ Root(p) /\ Batch(p) /\ born[p].name = n
      /\ born[i].idx \in Entries(born[i]) /\ Made(p)
  <2>1. 0 \notin Ids
    BY PnJobsAssumption DEF Ids
  <2>2. p \in Ids /\ p # 0
    BY <1>1, <2>1
  <2> QED
    BY <1>1, <2>2 DEF Named, BatchesOpen, Open
<1>7. /\ n \in Names /\ Submissions[n].type = "Batch" /\ born[i].idx \in FilesOf(n)
  <2>1. n \in Names
    BY <1>1, <1>6 DEF Root, Birth, Names
  <2>2. Submissions[n].type = "Batch"
    BY <1>6 DEF Batch, IsBatch, ReqOf
  <2> QED
    BY <1>6, <2>1, <2>2 DEF FilesOf, Entries, ReqOf
<1>8. k \in Names
  BY <1>1, <1>2 DEF Known, Birth, Names
<1>9. CASE born[t].parent = 0
  <2>1. Root(t) /\ born[t].idx = Submissions[k].idx
    BY <1>2, <1>9 DEF Root, Known, Named
  <2>2. k # n
    BY <1>2, <1>6, <2>1 DEF Named, Batch
  <2>3. Encodes(Submissions[k].type) /\ born[t].idx \in FilesOf(k)
    BY <1>2, <1>9, <2>1 DEF TypeOf, IsBatch, ReqOf, FilesOf
  <2> QED
    BY <1>2, <1>7, <1>8, <2>2, <2>3 DEF Undisturbed, Alone, SameOutput
<1>10. CASE born[t].parent # 0
  <2> DEFINE q == born[t].parent
  <2>1. /\ q \in Ids /\ Root(q) /\ Batch(q) /\ born[q].name = k
        /\ born[t].idx \in Entries(born[t])
    BY <1>2, <1>10 DEF Named
  <2>2. CASE k = n
    <3>1. q = p
      BY <1>6, <2>1, <2>2 DEF Named
    <3>2. job[p].kid[born[t].idx] = t /\ job[p].kid[born[i].idx] = i
      BY <1>1, <1>2, <1>6, <3>1 DEF Made
    <3> QED
      BY <1>2, <3>2
  <2>3. CASE k # n
    <3>1. Submissions[k].type = "Batch"
      BY <2>1 DEF Batch, IsBatch, ReqOf
    <3>2. Encodes(Submissions[k].type) /\ born[t].idx \in FilesOf(k)
      BY <2>1, <3>1 DEF Encodes, FilesOf, Entries, ReqOf
    <3> QED
      BY <1>2, <1>7, <1>8, <2>3, <3>2 DEF Undisturbed, Alone, SameOutput
  <2> QED
    BY <2>2, <2>3
<1> QED
  BY <1>9, <1>10

\* What a record shows of a child that leads itself
Led(j, k) == j.fwd = k.fwd /\ (j.ready = k.ready \/ j.ready # "Probed")

\* Children that stay follow nobody still, if no record but a follower's is changed.
LEMMA LeadsStill ==
  ASSUME Typed, LeadsOn, queue' \subseteq queue, born' = born, NEW jobs \in Jobs,
         job' = jobs \/ \E e : job' = Checked(jobs, e),
         \A c \in queue' : born[c].parent \in queue /\ job[c].fwd = 0 /\ job[c].ready # "Probed"
                             => Led(jobs[c], job[c])
  PROVE  LeadsOn'
<1>1. queue \subseteq Ids
  BY DEF Typed, TypeOK
<1>2. \A c \in queue' : job'[c].fwd = jobs[c].fwd /\ job'[c].ready = jobs[c].ready
  <2>1. job' \in Jobs
    BY CheckedType
  <2>2. \A c \in queue' : Tally(job'[c]) = Tally(jobs[c])
    BY <1>1, CheckedTally
  <2> QED
    BY <1>1, <2>1, <2>2, SameTally DEF Jobs
<1> QED
  BY <1>1, <1>2 DEF LeadsOn, Led

LEMMA LedStays ==
  ASSUME Typed, Typed', LeadsOn, queue' \subseteq queue, UNCHANGED born,
         \A c \in queue' : Led(job'[c], job[c])
  PROVE  LeadsOn'
<1>1. job' \in Jobs
  BY DEF Typed, TypeOK, Jobs
<1> QED
  BY <1>1, LeadsStill

\* What is received is no child, and nothing else changes.
LEMMA SubmitLeads ==
  ASSUME Typed, RowsInv, LeadsOn, NEW n \in Names, Submit(n)
  PROVE  LeadsOn'
<1>1. job \in Jobs /\ queue \subseteq Ids
  BY DEF Typed, TypeOK, Jobs
<1>2. CASE Refuse(n) \/ DeclineSetup(n)
  <2>1. UNCHANGED <<queue, born>> /\ job' = Checked(job, epoch)
    BY <1>2 DEF Refuse, DeclineSetup, BackToTop, layerVars
  <2> QED
    BY <1>1, <2>1, LeadsStill DEF Led
<1>3. CASE Prepare(n)
  <2>1. /\ UNCHANGED <<queue, job>>
        /\ born' = [born EXCEPT ![nextId] =
                      [name |-> n, parent |-> 0, idx |-> Submissions[n].idx]]
    BY <1>3 DEF Prepare
  <2>2. \A c \in queue : c # nextId
    BY <1>1, PnJobsAssumption DEF RowsInv, QueuedBefore, Typed, TypeOK, Ids
  <2>3. \A c \in queue : born'[c] = born[c]
    BY <1>1, <2>1, <2>2 DEF Typed, TypeOK, LayersTypeOK
  <2> QED
    BY <2>1, <2>3 DEF LeadsOn
<1> QED
  BY <1>2, <1>3 DEF Submit

\* Who is admitted joins the queue or does not, and the others keep stage and leader.
LEMMA AdmitOthers ==
  ASSUME Typed, RowsInv, Admit
  PROVE  \E i \in pass.todo :
           /\ i \in Ids /\ i \notin queue /\ queue' \in {queue, queue \cup {i}}
           /\ pass' = NoPass
           /\ \A c \in queue : job'[c].fwd = job[c].fwd /\ job'[c].ready = job[c].ready
<1>1. PICK i \in pass.todo :
        \/ AdmitForwarded(i) \/ AdmitKilled(i) \/ AdmitDownload(i) \/ AdmitProbe(i)
        \/ AdmitStudio(i) \/ AdmitKeycode(i)
  BY DEF Admit
<1>2. i \in Ids /\ i \notin queue /\ job \in [Ids -> Job] /\ queue \subseteq Ids
  BY DEF Admit, RowsInv, AdmittedIsNew, Typed, TypeOK, Pass
<1>3. /\ queue' \in {queue, queue \cup {i}} /\ pass' = NoPass
      /\ \E j, e : job' \in {[job EXCEPT ![i] = j], Checked([job EXCEPT ![i] = j], e), Checked(job, e)}
  <2>1. ASSUME NEW j, NEW e, NEW d, Push(i, j, e, d)
        PROVE  /\ queue' \in {queue, queue \cup {i}} /\ pass' = NoPass
               /\ job' \in {[job EXCEPT ![i] = j], Checked(job, e)}
    BY <2>1 DEF Push
  <2>2. CASE AdmitForwarded(i) \/ AdmitKilled(i)
    BY <2>2 DEF AdmitForwarded, AdmitKilled, BackToTop
  <2>3. CASE AdmitDownload(i) \/ AdmitProbe(i) \/ AdmitStudio(i) \/ AdmitKeycode(i)
    <3>1. \E j, e, d : Push(i, j, e, d)
      BY <2>3 DEF AdmitDownload, AdmitProbe, AdmitStudio, AdmitKeycode
    <3> QED
      BY <2>1, <3>1
  <2> QED
    BY <1>1, <2>2, <2>3
<1>4. PICK j, e :
        job' \in {[job EXCEPT ![i] = j], Checked([job EXCEPT ![i] = j], e), Checked(job, e)}
  BY <1>3
<1>5. ASSUME NEW c \in queue PROVE job'[c].fwd = job[c].fwd /\ job'[c].ready = job[c].ready
  <2>1. c \in Ids /\ c # i /\ job[c] \in Job /\ [job EXCEPT ![i] = j][c] = job[c]
    BY <1>2
  <2>2. \A jobs : jobs[c] = job[c] =>
          Checked(jobs, e)[c].fwd = job[c].fwd /\ Checked(jobs, e)[c].ready = job[c].ready
    BY <2>1 DEF Checked, ResetDispatch, Job
  <2> QED
    BY <1>4, <2>1, <2>2
<1> QED
  BY <1>2, <1>3, <1>5

\* What is admitted is no child either, and has none yet.
LEMMA AdmitLeads ==
  ASSUME Typed, RowsInv, Handed, LeadsOn, Admit
  PROVE  LeadsOn'
<1>1. PICK i \in pass.todo :
        /\ i \in Ids /\ i \notin queue /\ queue' \in {queue, queue \cup {i}}
        /\ \A c \in queue : job'[c].fwd = job[c].fwd /\ job'[c].ready = job[c].ready
  BY AdmitOthers
<1>2. born[i].parent = 0 /\ (\A c \in Ids : born[c].parent # i) /\ UNCHANGED born
  BY <1>1, PnJobsAssumption DEF Admit, Handed, Ids
<1>3. 0 \notin queue' /\ queue \subseteq Ids
  BY <1>1, PnJobsAssumption DEF Ids, Typed, TypeOK
<1>4. ASSUME NEW c \in queue', born[c].parent \in queue' PROVE job'[c].fwd = 0 /\ job'[c].ready # "Probed"
  <2>1. c \in queue /\ born[c].parent \in queue
    BY <1>1, <1>2, <1>3, <1>4
  <2> QED
    BY <1>1, <2>1 DEF LeadsOn
<1> QED
  BY <1>2, <1>4 DEF LeadsOn

\* Nobody takes a stage or a leader from what a batch is told.
LEMMA ToldLeads ==
  ASSUME NEW jobs \in Jobs, NEW K \in SUBSET Ids, NEW s
  PROVE  \A c \in Ids : /\ BatchTold(jobs, K, s)[c].fwd = jobs[c].fwd
                        /\ BatchTold(jobs, K, s)[c].ready = jobs[c].ready
<1> SUFFICES ASSUME NEW c \in Ids
             PROVE  /\ BatchTold(jobs, K, s)[c].fwd = jobs[c].fwd
                    /\ BatchTold(jobs, K, s)[c].ready = jobs[c].ready
  OBVIOUS
<1>1. jobs[c] \in Job
  BY DEF Jobs
<1>2. \/ BatchTold(jobs, K, s)[c] = jobs[c]
      \/ \E x, y : BatchTold(jobs, K, s)[c] = [jobs[c] EXCEPT !.finished = x, !.failed = y]
  BY Zenon DEF BatchTold
<1>3. ASSUME NEW x, NEW y
      PROVE  /\ [jobs[c] EXCEPT !.finished = x, !.failed = y].fwd = jobs[c].fwd
             /\ [jobs[c] EXCEPT !.finished = x, !.failed = y].ready = jobs[c].ready
  BY <1>1 DEF Job
<1> DEFINE b == BatchTold(jobs, K, s)[c]
<1> HIDE DEF b
<1>4. ASSUME NEW x, NEW y, b = [jobs[c] EXCEPT !.finished = x, !.failed = y]
      PROVE  b.fwd = jobs[c].fwd /\ b.ready = jobs[c].ready
  BY <1>3, <1>4, Zenon
<1>5. b = jobs[c] \/ \E x, y : b = [jobs[c] EXCEPT !.finished = x, !.failed = y]
  BY <1>2, Zenon DEF b
<1>6. b.fwd = jobs[c].fwd /\ b.ready = jobs[c].ready
  BY <1>4, <1>5
<1> QED
  BY <1>6, Zenon DEF b

\* Clocks let jobs go, and the others keep their stage.
LEMMA ClockLed ==
  ASSUME Typed, ClockStep
  PROVE  queue' \subseteq queue /\ UNCHANGED born /\ \A c \in queue' : Led(job'[c], job[c])
<1>1. job \in Jobs /\ queue \subseteq Ids
  BY DEF Typed, TypeOK, Jobs
<1>2. UNCHANGED born
  BY DEF ClockStep, DrainReboot, ReceiveReboot, ExpireCache, ExpireKeep, ProbeTimeout,
         EncodeStall, mainVars, layerVars
<1>3. CASE DrainReboot \/ ReceiveReboot \/ ExpireCache \/ ExpireKeep
  <2>1. queue' = queue /\ (job' = job \/ job' = Checked(job, epoch + 1))
    BY <1>3 DEF DrainReboot, ReceiveReboot, ExpireCache, ExpireKeep, mainVars
  <2> QED
    BY <1>1, <1>2, <2>1, CheckedStage DEF Led
<1>4. ASSUME NEW i \in Ids, ProbeTimeout(i)
      PROVE  queue' \subseteq queue /\ \A c \in queue' : Led(job'[c], job[c])
  <2>1. queue' = queue \ {i} /\ job' = Without(job, {i})
    BY <1>4 DEF ProbeTimeout
  <2> QED
    BY <1>1, <2>1, WithoutKeeps DEF Led
<1>5. ASSUME NEW S \in SUBSET Ids, EncodeStall(S)
      PROVE  queue' \subseteq queue /\ \A c \in queue' : Led(job'[c], job[c])
  <2> DEFINE told == BatchTold(job, S, "Failed")
             gone == S \cup ForwardedTo(S)
             jobs == Without(told, gone)
  <2>1. queue' = queue \ gone /\ job' = Checked(jobs, epoch + 1)
    BY <1>5 DEF EncodeStall
  <2>2. told \in Jobs /\ \A c \in Ids : told[c].fwd = job[c].fwd /\ told[c].ready = job[c].ready
    BY <1>1, BatchToldType, ToldLeads
  <2>3. jobs \in Jobs /\ \A c \in queue' : jobs[c] = told[c]
    <3> HIDE DEF told, gone
    <3> QED
      BY <1>1, <2>1, <2>2, WithoutType, WithoutKeeps
  <2> HIDE DEF jobs, told, gone
  <2> QED
    BY <1>1, <2>1, <2>2, <2>3, CheckedStage DEF Led
<1> QED
  BY <1>2, <1>3, <1>4, <1>5 DEF ClockStep

\* What is said of a job is its stage and reaches its followers, nobody else.
LEMMA StageOthers ==
  ASSUME Typed, Typed', NEW m \in Message, HandleStage(m)
  PROVE  \A c \in queue' :
           /\ c \in queue
           /\ job[c].fwd = 0 => /\ job'[c].fwd = 0
                                /\ job'[c].ready = IF c = m.id THEN m.stage ELSE job[c].ready
<1> DEFINE i == m.id
           s == m.stage
           gone == (IF s \in Terminal THEN {i} \cup ForwardedTo({i}) ELSE {}) \cup ProbeLeft(i, s)
           staged == [job EXCEPT ![i] = Staged(@, s)]
           told == BatchTold(staged, {i}, s)
           synced == Synced(told, i, s, job[i].worker)
<1>1. /\ i \in Ids /\ i # 0 /\ s \in Stages /\ job \in Jobs /\ queue \subseteq Ids
  <2>1. m.id \in Ids /\ m.stage \in Stages /\ 0 \notin Ids
    BY PnJobsAssumption DEF Message, Ids
  <2> QED
    BY <2>1 DEF Typed, TypeOK, Jobs
<1>2. /\ queue' = queue \ gone /\ job' = Without(synced, gone)
  BY DEF HandleStage
<1>3. /\ staged \in Jobs /\ \A k \in Ids \ {i} : staged[k] = job[k]
      /\ staged[i].fwd = job[i].fwd /\ staged[i].ready = s
  <2>1. job[i] \in Job
    BY <1>1 DEF Jobs
  <2>2. Staged(job[i], s) \in Job /\ Staged(job[i], s).fwd = job[i].fwd /\ Staged(job[i], s).ready = s
    BY <1>1, <2>1 DEF Staged, Job
  <2> QED
    BY <1>1, <2>2 DEF Jobs
<1>4. \A c \in Ids : told[c].fwd = staged[c].fwd /\ told[c].ready = staged[c].ready
  <2>1. {i} \in SUBSET Ids
    BY <1>1
  <2> HIDE DEF staged, i, s
  <2> QED
    BY <1>3, <2>1, ToldLeads
<1> HIDE DEF told, staged
<1>5. \A c \in Ids : c \notin ForwardedTo({i}) => synced[c] = told[c]
  BY DEF Synced
<1> HIDE DEF synced, gone
<1> SUFFICES ASSUME NEW c \in queue'
             PROVE  /\ c \in queue
                    /\ job[c].fwd = 0 => /\ job'[c].fwd = 0
                                         /\ job'[c].ready = IF c = i THEN s ELSE job[c].ready
  OBVIOUS
<1>6. c \in queue /\ c \in Ids /\ c \notin gone
  BY <1>1, <1>2
<1>7. ASSUME job[c].fwd = 0 PROVE job'[c] = told[c]
  <2>1. c \notin ForwardedTo({i})
    BY <1>1, <1>7 DEF ForwardedTo
  <2> QED
    BY <1>2, <1>5, <1>6, <2>1, WithoutKeeps
<1> QED
  BY <1>3, <1>4, <1>6, <1>7

\* A child is never said to be probed.
LEMMA StageLeads ==
  ASSUME Typed, Typed', LeadsOn, NEW m \in Message, Apt(m), HandleStage(m)
  PROVE  LeadsOn'
<1>1. /\ queue' \subseteq queue /\ born' = born /\ m.kind = "stage" /\ m.id \in queue
      /\ job' \in Jobs /\ 0 \notin queue
  <2>1. born' = born /\ m.kind = "stage" /\ m.id \in queue
    BY DEF HandleStage
  <2>2. job' \in Jobs /\ 0 \notin queue
    BY PnJobsAssumption DEF Typed, TypeOK, Jobs, Ids
  <2> QED
    BY <2>1, <2>2, StageOthers
<1>2. m.stage = "Probed" => born[m.id].parent = 0
  BY <1>1 DEF Apt, Type, TypeOf
<1>3. ASSUME NEW c \in queue', born[c].parent \in queue, job[c].fwd = 0
      PROVE  Led(job'[c], job[c])
  BY <1>1, <1>2, <1>3, StageOthers DEF Led
<1> QED
  BY <1>1, <1>3, LeadsStill

\* What else is said changes neither stage nor leader.
LEMMA NoteLed ==
  ASSUME Typed, RowsInv, NEW l \in Layers, NEW m \in Message,
         HandleAssign(l, m) \/ HandleDuplicate(m) \/ HandleFileDone(m)
  PROVE  /\ queue \subseteq queue' /\ pass' = NoPass
         /\ \A c \in queue : job'[c].fwd = job[c].fwd /\ job'[c].ready = job[c].ready
<1>1. /\ job \in Jobs /\ queue \subseteq Ids /\ nextId \in Nat /\ m.id \in Ids
      /\ \A c \in queue : c # nextId
  BY PnJobsAssumption DEF Typed, TypeOK, Jobs, Message, RowsInv, QueuedBefore, Ids
\* a record before the check of the epoch
<1> DEFINE Changes(jobs, c) ==
             \/ jobs[c] = job[c]
             \/ \E w : jobs[c] = [job[c] EXCEPT !.worker = w]
             \/ \E o : jobs[c] = [job[c] EXCEPT !.dup = o]
             \/ \E k : jobs[c] = [job[c] EXCEPT !.kid = k]
             \/ \E n : jobs[c] = [job[c] EXCEPT !.failed = n]
<1>2. \E jobs : BackToTop(jobs) /\ \A c \in queue : Changes(jobs, c)
  <2>1. CASE HandleAssign(l, m)
    <3> DEFINE jobs == [c \in Ids |-> IF c = m.id THEN [job[c] EXCEPT !.worker = SlotOf(l)]
                                      ELSE IF c \in ForwardedTo({m.id})
                                           THEN [job[c] EXCEPT !.worker = ForwardedWorker(SlotOf(l))]
                                           ELSE job[c]]
    <3>1. BackToTop(jobs)
      BY <2>1 DEF HandleAssign
    <3>2. \A c \in queue : jobs[c] = job[c] \/ \E w : jobs[c] = [job[c] EXCEPT !.worker = w]
      BY <1>1
    <3> HIDE DEF jobs
    <3> QED
      BY <3>1, <3>2, ZenonT(30)
  <2>2. CASE HandleDuplicate(m)
    <3> DEFINE jobs == [job EXCEPT ![m.id].dup = m.owner]
    <3>1. BackToTop(jobs)
      BY <2>2 DEF HandleDuplicate
    <3>2. \A c \in queue : jobs[c] = job[c] \/ jobs[c] = [job[c] EXCEPT !.dup = m.owner]
      BY <1>1 DEF Jobs
    <3> HIDE DEF jobs
    <3> QED
      BY <3>1, <3>2
  <2>3. CASE HandleFileDone(m)
    <3> DEFINE child == [NewJob EXCEPT !.ready = "Downloaded", !.worker = "enc-pending"]
               made == [job EXCEPT ![m.id].kid[m.file] = nextId, ![nextId] = child]
               unmade == [job EXCEPT ![m.id].failed = @ + 1]
    <3>1. BackToTop(job) \/ BackToTop(made) \/ BackToTop(unmade)
      BY <2>3 DEF HandleFileDone
    <3>2. \A c \in queue : made[c] = job[c] \/ \E k : made[c] = [job[c] EXCEPT !.kid = k]
      BY <1>1 DEF Jobs
    <3>3. \A c \in queue : unmade[c] = job[c] \/ \E n : unmade[c] = [job[c] EXCEPT !.failed = n]
      BY <1>1 DEF Jobs
    <3>4. \A c \in queue : Changes(job, c) /\ Changes(made, c) /\ Changes(unmade, c)
      BY <3>2, <3>3
    <3> HIDE DEF made, unmade, Changes
    <3> QED
      BY <3>1, <3>4
  <2> QED
    BY <2>1, <2>2, <2>3
<1>3. PICK jobs : BackToTop(jobs) /\ \A c \in queue : Changes(jobs, c)
  BY <1>2
<1>4. ASSUME NEW c \in queue PROVE job'[c].fwd = job[c].fwd /\ job'[c].ready = job[c].ready
  <2>1. c \in Ids /\ job[c] \in Job
    BY <1>1 DEF Jobs
  <2>2. /\ jobs[c].fwd = job[c].fwd /\ jobs[c].ready = job[c].ready
        /\ [jobs[c] EXCEPT !.dispatched = FALSE].fwd = job[c].fwd
        /\ [jobs[c] EXCEPT !.dispatched = FALSE].ready = job[c].ready
    BY <1>3, <2>1 DEF Job
  <2>3. job'[c] = jobs[c] \/ job'[c] = [jobs[c] EXCEPT !.dispatched = FALSE]
    BY <1>3, <2>1 DEF BackToTop, Checked, ResetDispatch
  <2> QED
    BY <2>2, <2>3
<1>5. queue \subseteq queue'
  BY DEF HandleAssign, HandleDuplicate, HandleFileDone
<1> QED
  BY <1>3, <1>4, <1>5 DEF BackToTop

\* Whatever the loop hears.
LEMMA MessageLeads ==
  ASSUME Typed, Typed', RowsInv, Handed, Asked, LeadsOn, Receive \/ NoMessage
  PROVE  LeadsOn'
<1>1. /\ LayersTypeOK /\ job \in Jobs /\ job' \in Jobs /\ queue \subseteq Ids
      /\ born \in [Ids -> Birth] /\ nextId \in Nat
  BY DEF Typed, TypeOK, LayersTypeOK, Jobs
<1>2. ASSUME UNCHANGED <<queue, job, born>> PROVE LeadsOn'
  BY <1>2 DEF LeadsOn
<1>3. CASE NoMessage
  BY <1>2, <1>3 DEF NoMessage, layerVars
<1>4. CASE Receive
  <2>1. PICK l \in Layers :
          /\ ret[l] # <<>>
          /\ LET m == Head(ret[l]) IN
               \/ HandleStale(m) \/ HandleAssign(l, m) \/ HandleFileDone(m)
               \/ HandleDuplicate(m) \/ HandleStage(m)
    BY <1>4 DEF Receive
  <2>2. PICK m : m = Head(ret[l])
    OBVIOUS
  <2>3. m \in Message /\ Apt(m) /\ m.id \in Ids
    <3>1. ret[l] \in Seq(Message)
      BY <1>1 DEF LayersTypeOK
    <3>2. 1 \in DOMAIN ret[l] /\ m = ret[l][1] /\ m \in Message
      BY <2>1, <2>2, <3>1
    <3> QED
      BY <3>2 DEF Asked, Message
  <2>4. CASE HandleStale(m)
    BY <1>2, <2>4 DEF HandleStale
  <2>5. CASE HandleAssign(l, m) \/ HandleDuplicate(m)
    <3>1. \A c \in queue : job'[c].fwd = job[c].fwd /\ job'[c].ready = job[c].ready
      BY <1>1, <2>3, <2>5, NoteLed
    <3>2. UNCHANGED <<queue, born>>
      BY <2>5 DEF HandleAssign, HandleDuplicate
    <3> QED
      BY <3>1, <3>2 DEF LeadsOn
  <2>6. CASE HandleFileDone(m)
    <3> DEFINE p == m.id
               child == [NewJob EXCEPT !.ready = "Downloaded", !.worker = "enc-pending"]
               jobs == [job EXCEPT ![p].kid[m.file] = nextId, ![nextId] = child]
    <3>1. \A c \in queue : job'[c].fwd = job[c].fwd /\ job'[c].ready = job[c].ready
      BY <1>1, <2>3, <2>6, NoteLed
    <3>2. CASE UNCHANGED <<queue, born>>
      BY <3>1, <3>2 DEF LeadsOn
    <3>3. CASE /\ nextId \in Ids /\ queue' = queue \cup {nextId}
               /\ born' = [born EXCEPT ![nextId] =
                             [name |-> born[p].name, parent |-> p, idx |-> m.file]]
               /\ BackToTop(jobs) /\ p \in queue
      <4>1. \A c \in queue : c # nextId /\ c \in Ids /\ born'[c] = born[c]
        <5>1. \A c \in queue : c # nextId /\ c \in Ids
          BY <1>1, PnJobsAssumption DEF RowsInv, QueuedBefore, Ids
        <5> QED
          BY <1>1, <3>3, <5>1
      <4>2. jobs[nextId] = child
        BY <1>1, <2>3, <3>3, <4>1 DEF Jobs
      <4>3. child.fwd = 0 /\ child.ready = "Downloaded"
        BY DEF NewJob
      <4>4. \/ job'[nextId] = jobs[nextId]
            \/ job'[nextId] = [jobs[nextId] EXCEPT !.dispatched = FALSE]
        BY <3>3 DEF BackToTop, Checked, ResetDispatch
      <4> HIDE DEF jobs
      <4>5. job'[nextId].fwd = 0 /\ job'[nextId].ready = "Downloaded"
        <5>1. /\ [child EXCEPT !.dispatched = FALSE].fwd = 0
              /\ [child EXCEPT !.dispatched = FALSE].ready = "Downloaded"
          BY DEF NewJob
        <5> HIDE DEF child
        <5> QED
          BY <4>2, <4>3, <4>4, <5>1
      <4>6. ASSUME NEW c \in queue', born'[c].parent \in queue'
            PROVE  job'[c].fwd = 0 /\ job'[c].ready # "Probed"
        <5>1. CASE c = nextId
          BY <4>5, <5>1
        <5>2. CASE c # nextId
          <6>1. c \in queue /\ born[c].parent \in queue'
            BY <3>3, <4>1, <4>6, <5>2
          <6>2. born[c].parent # nextId
            BY <1>1, <3>3, <4>1, <6>1, PnJobsAssumption DEF Handed, Ids
          <6> QED
            BY <3>1, <3>3, <6>1, <6>2 DEF LeadsOn
        <5> QED
          BY <5>1, <5>2
      <4> QED
        BY <4>6 DEF LeadsOn
    <3> QED
      BY <2>6, <3>2, <3>3 DEF HandleFileDone
  <2>7. CASE HandleStage(m)
    BY <2>3, <2>7, StageLeads
  <2> QED
    BY <2>1, <2>2, <2>4, <2>5, <2>6, <2>7
<1> QED
  BY <1>3, <1>4

\* A visit changes the record of the one it visits, which is not said to be probed and
\* follows somebody only by a claim; and if sends succeed nobody dies of it but a
\* keycode whose words are lost, and a job whose output is kept.
LEMMA WalkVisit ==
  ASSUME Typed, RowsInv, "send" \notin Faults,
         NEW i \in Ids, DupStep(i) \/ WaitStep(i) \/ ProgressStep(i)
  PROVE  /\ i \in queue /\ UNCHANGED <<queue, born>>
         /\ \A k \in Ids \ {i} : job'[k] = job[k]
         /\ EncodeForward(i) \/ Led(job'[i], job[i])
         /\ \/ pass'.dead = pass.dead
            \/ pass'.dead = pass.dead \cup {i} /\ (KeycodeFail(i) \/ FinishKeep(i))
<1>1. i \in pass.todo /\ pc \in {"dup", "wait", "progress"} /\ UNCHANGED <<queue, born>>
  BY DEF DupStep, WaitStep, ProgressStep, ProgressSkip, Skip, KeycodeWait, KeycodeFail,
         KeycodeDispatch, DispatchProbeLayer, DispatchUpload, FinishKeep, EncodeForward,
         EncodeWaitsForInput, EncodeHeldBack, EncodeDispatch, DispatchKilled, EncodeReady,
         Encodable, Progressing, At, Steady, layerVars
<1>2. i \in queue /\ job \in [Ids -> Job] /\ job[i] \in Job
  BY <1>1 DEF RowsInv, WalkVisitsLiving, Typed, TypeOK
\* What is to show of the job that is visited
<1> DEFINE Others == \A k \in Ids \ {i} : job'[k] = job[k]
           Stays0 == pass'.dead = pass.dead
           Dies == pass'.dead = pass.dead \cup {i}
           Goal == /\ Others
                   /\ EncodeForward(i) \/ Led(job'[i], job[i])
                   /\ Stays0 \/ (Dies /\ (KeycodeFail(i) \/ FinishKeep(i)))
<1>0. SUFFICES Goal
  BY <1>1, <1>2
<1>3. Others /\ Led(job'[i], job[i]) /\ Stays0 => Goal
  OBVIOUS
<1>4. /\ \A s : /\ [job[i] EXCEPT !.ready = s].fwd = job[i].fwd
                /\ [job[i] EXCEPT !.ready = s].ready = s
      /\ \A w, s : /\ [job[i] EXCEPT !.ready = s, !.worker = w].fwd = job[i].fwd
                   /\ [job[i] EXCEPT !.ready = s, !.worker = w].ready = s
      /\ \A w : /\ [job[i] EXCEPT !.worker = w].fwd = job[i].fwd
                /\ [job[i] EXCEPT !.worker = w].ready = job[i].ready
  BY <1>2 DEF Job
\* Led(job'[i], job[i]), step by step
<1>5. /\ Past(i).dead = pass.dead
      /\ \A d : [Past(i) EXCEPT !.dead = d].dead = d
      /\ \A u : [Past(i) EXCEPT !.uploads = u].dead = pass.dead
      /\ \A f, s, k : [Past(i) EXCEPT !.inFlight = f, !.source = s, !.parent = k].dead = pass.dead
  BY PastFields
<1>6. CASE DupStep(i)
  <2>1. (\A k \in Ids \ {i} : job'[k] = job[k]) /\ pass'.dead = pass.dead
    BY <1>2, <1>5, <1>6 DEF DupStep
  <2>2. \/ job'[i] = job[i]
        \/ job'[i] = [job[i] EXCEPT !.ready = "Downloaded", !.worker = "dwl-cache"]
        \/ job'[i] = Requeued(job[i])
        \/ job'[i] = [job[i] EXCEPT !.ready = "Downloaded", !.dup = 0]
    BY <1>2, <1>6 DEF DupStep
  <2>3. Led(job'[i], job[i])
    BY <1>2, <2>2 DEF Led, Requeued, Job
  <2> QED
    BY <1>3, <2>1, <2>3
<1>7. CASE WaitStep(i)
  <2>1. /\ \A k \in Ids \ {i} : job'[k] = job[k]
        /\ pass' = Past(i)
        /\ job'[i] = job[i] \/ job'[i] = Routed(i, job[i])
    BY <1>2, <1>7 DEF WaitStep
  <2>2. Led(Routed(i, job[i]), job[i])
    BY <1>2 DEF Routed, Led, Job
  <2> QED
    BY <1>3, <1>5, <2>1, <2>2 DEF Led
<1>8. CASE ProgressSkip(i) \/ EncodeHeldBack(i)
  BY <1>3, <1>5, <1>8 DEF ProgressSkip, EncodeHeldBack, Skip, Led
<1>9. CASE KeycodeWait(i)
  <2>1. job' = [job EXCEPT ![i].worker = "key-wait"] /\ pass' = Past(i)
    BY <1>9 DEF KeycodeWait
  <2> QED
    BY <1>2, <1>3, <1>4, <1>5, <2>1 DEF Led
<1>10. CASE KeycodeFail(i)
  <2>1. Others /\ Dies
    BY <1>2, <1>5, <1>10 DEF KeycodeFail, Killed
  <2>2. \E r, w : job' = [job EXCEPT ![i].ready = r, ![i].worker = w] /\ r \in {"Failed", job[i].ready}
    BY <1>2, <1>10 DEF KeycodeFail
  <2>3. Led(job'[i], job[i])
    BY <1>2, <2>2 DEF Led, Job
  <2> QED
    BY <1>10, <2>1, <2>3
<1>11. CASE KeycodeDispatch(i) \/ EncodeDispatch(i)
  <2>1. job' = [job EXCEPT ![i] = Dispatched([@ EXCEPT !.worker = "enc-main"], epoch')]
    BY <1>11 DEF KeycodeDispatch, EncodeDispatch
  <2>2. Led(job'[i], job[i]) /\ \A k \in Ids \ {i} : job'[k] = job[k]
    BY <1>2, <2>1 DEF Dispatched, Led, Job
  <2>3. pass'.dead = pass.dead
    <3>1. CASE KeycodeDispatch(i)
      BY <1>5, <3>1 DEF KeycodeDispatch
    <3>2. CASE EncodeDispatch(i)
      <4>1. PICK f, s, k : pass' = [Past(i) EXCEPT !.inFlight = f, !.source = s, !.parent = k]
        BY <3>2, Zenon DEF EncodeDispatch
      <4>2. [Past(i) EXCEPT !.inFlight = f, !.source = s, !.parent = k].dead = pass.dead
        BY <1>5
      <4> QED
        BY <4>1, <4>2, Zenon
    <3> QED
      BY <1>11, <3>1, <3>2
  <2> QED
    BY <1>3, <2>2, <2>3
<1>12. CASE DispatchProbeLayer(i) \/ DispatchUpload(i)
  <2>1. \E s \in {"Encoding", "Uploading"} : \E w :
          job' = [job EXCEPT ![i].ready = s, ![i].worker = w]
    BY <1>12 DEF DispatchProbeLayer, DispatchUpload, PoolDispatch
  <2>2. Led(job'[i], job[i]) /\ \A k \in Ids \ {i} : job'[k] = job[k]
    BY <1>2, <2>1 DEF Led, Job
  <2>3. pass'.dead = pass.dead
    <3>1. pass' = Past(i) \/ \E u : pass' = [Past(i) EXCEPT !.uploads = u]
      BY <1>12, Zenon DEF DispatchProbeLayer, DispatchUpload
    <3> QED
      BY <1>5, <3>1, Zenon
  <2> QED
    BY <1>3, <2>2, <2>3
<1>13. CASE FinishKeep(i)
  <2>1. Others /\ Dies
    BY <1>2, <1>5, <1>13 DEF FinishKeep
  <2>2. Led(job'[i], job[i])
    BY <1>2, <1>13 DEF FinishKeep, Led, Job
  <2> QED
    BY <1>13, <2>1, <2>2
<1>14. CASE EncodeForward(i)
  <2>1. Others /\ pass' = Past(i)
    BY <1>2, <1>14 DEF EncodeForward
  <2> QED
    BY <1>5, <1>14, <2>1
<1>15. CASE EncodeWaitsForInput(i)
  <2>1. /\ job' = [job EXCEPT ![i].dup = SourceTarget(i), ![i].ready = "Downloading",
                              ![i].worker = "dwl-cache"]
        /\ pass' = Past(i)
    BY <1>15 DEF EncodeWaitsForInput
  <2>2. Led(job'[i], job[i]) /\ \A k \in Ids \ {i} : job'[k] = job[k]
    BY <1>2, <2>1 DEF Led, Job
  <2> QED
    BY <1>3, <1>5, <2>1, <2>2
<1> QED
  BY <1>6, <1>7, <1>8, <1>9, <1>10, <1>11, <1>12, <1>13, <1>14, <1>15
     DEF ProgressStep, DispatchKilled

\* A walk leads no child to another job and lets none die: what dies in a walk, a
\* keycode or a kept encode, is no child.
LEMMA WalkLeads ==
  ASSUME Typed, Typed', RowsInv, Undisturbed, BatchesOpen, Named, Claims, Leads,
         NEW i \in Ids, DupStep(i) \/ WaitStep(i) \/ ProgressStep(i)
  PROVE  Leads'
<1>1. /\ i \in queue /\ UNCHANGED <<queue, born>>
      /\ \A k \in Ids \ {i} : job'[k] = job[k]
      /\ EncodeForward(i) \/ Led(job'[i], job[i])
      /\ \/ pass'.dead = pass.dead
         \/ pass'.dead = pass.dead \cup {i} /\ (KeycodeFail(i) \/ FinishKeep(i))
  BY WalkVisit DEF Undisturbed
<1>2. 0 \notin queue /\ queue \subseteq Ids /\ job' \in Jobs /\ LeadsOn /\ NoChildDies
  BY PnJobsAssumption DEF Typed, TypeOK, Ids, Jobs, Leads
<1>3. EncodeForward(i) => born[i].parent \notin queue
  <2>1. EncodeForward(i) => ForwardTarget(i) \notin {0, i} /\ pc = "progress"
    BY DEF EncodeForward, Encodable, Progressing, At
  <2> QED
    BY <1>1, <2>1, ChildFollowsNobody
<1>4. KeycodeFail(i) \/ FinishKeep(i) => born[i].parent = 0
  BY DEF KeycodeFail, KeycodeWaits, Type, TypeOf, FinishKeep, KeepDone, Keeps
<1>5. \A c \in queue' : born[c].parent \in queue => Led(job'[c], job[c])
  BY <1>1, <1>2, <1>3 DEF Led
<1>6. LeadsOn'
  BY <1>1, <1>2, <1>5, LeadsStill
<1>7. NoChildDies'
  BY <1>1, <1>2, <1>4 DEF NoChildDies
<1> QED
  BY <1>6, <1>7 DEF Leads

\* Where a walk ends its followers take the stage of their leader; the dead leave, and
\* batches that are done.
LEMMA WalkEndsLed ==
  ASSUME Typed, DupEnd \/ WaitEnd \/ ProgressEnd \/ BatchParents
  PROVE  /\ queue' \subseteq queue /\ UNCHANGED born
         /\ \A k \in queue \ queue' : k \in pass.dead \/ Batch(k)
         /\ \A c \in queue' : Led(job'[c], job[c])
<1>1. job \in Jobs /\ queue \subseteq Ids /\ UNCHANGED born
  BY DEF Typed, TypeOK, Jobs, DupEnd, WaitEnd, ProgressEnd, BatchParents, layerVars
<1>2. CASE DupEnd
  BY <1>1, <1>2 DEF DupEnd, Led
<1>3. CASE WaitEnd
  <2> DEFINE jobs == Without(job, pass.dead)
  <2>1. queue' = queue \ pass.dead /\ job' = Checked(jobs, epoch)
    BY <1>3 DEF WaitEnd
  <2>2. jobs \in Jobs /\ \A c \in queue' : jobs[c] = job[c]
    BY <1>1, <2>1, WithoutType, WithoutKeeps
  <2> HIDE DEF jobs
  <2> QED
    BY <1>1, <2>1, <2>2, CheckedStage DEF Led
<1>4. CASE ProgressEnd
  <2> DEFINE followers == ForwardedTo(pass.uploads)
             synced == [c \in Ids |-> IF c \in followers
                                  THEN [job[c] EXCEPT !.ready = "Uploading", !.worker = "upl-forward"]
                                  ELSE job[c]]
  <2>1. queue' = queue \ pass.dead /\ job' = Without(synced, pass.dead)
    BY <1>4 DEF ProgressEnd
  <2>2. \A c \in Ids : Led(synced[c], job[c])
    BY <1>1 DEF Led, Jobs, Job
  <2> HIDE DEF synced
  <2> QED
    BY <1>1, <2>1, <2>2, WithoutKeeps
<1>5. CASE BatchParents
  <2> DEFINE settled == [k \in Ids |->
               IF k \in queue /\ Batch(k) /\ job[k].ready = "Downloaded" /\ ~job[k].settled
               THEN Settle(born[k], job[k]) ELSE job[k]]
             done == {k \in queue : /\ Batch(k) /\ Complete(born[k], settled[k])
                                    /\ job[k].ready \in {"Downloaded", "Downloading"}}
             jobs == Without(settled, done)
  <2>1. queue' = queue \ done /\ (job' = jobs \/ job' = Checked(jobs, epoch))
    BY <1>5 DEF BatchParents
  <2>2. settled \in Jobs
    <3>1. \A k \in Ids : settled[k] = SettledJob(k) /\ settled[k] \in Job
      BY SettledLease DEF SettledJob
    <3> QED
      BY <3>1 DEF Jobs
  <2>3. \A c \in Ids : Led(settled[c], job[c])
    <3>1. \A c \in Ids : Led(Settle(born[c], job[c]), job[c])
      BY <1>1 DEF Led, Settle, Jobs, Job
    <3> QED
      BY <3>1 DEF Led
  <2>4. \A k \in done : Batch(k)
    OBVIOUS
  <2> HIDE DEF settled, done
  <2>5. jobs \in Jobs /\ \A c \in queue' : jobs[c] = settled[c]
    BY <1>1, <2>1, <2>2, WithoutType, WithoutKeeps
  <2> HIDE DEF jobs
  <2>6. \A c \in queue' : Led(jobs[c], job[c])
    BY <1>1, <2>1, <2>3, <2>5
  <2> QED
    BY <1>1, <2>1, <2>4, <2>5, <2>6, CheckedStage DEF Led
<1> QED
  BY <1>1, <1>2, <1>3, <1>4, <1>5

\* Every step leaves the children that stay to lead themselves.
LEMMA NextLeads ==
  ASSUME LentInv, LentInv', BatchesInv, Undisturbed, Named, Claims, Leads, [Next]_vars
  PROVE  Leads'
<1>1. /\ Typed /\ Typed' /\ RowsInv /\ RowsInv' /\ BatchesOpen /\ Handed /\ Asked
      /\ LeadsOn /\ NoChildDies /\ queue \subseteq Ids /\ job \in Jobs /\ LayersTypeOK
  BY DEF LentInv, BatchesInv, Leads, Typed, TypeOK, Jobs
<1>2. pc' \notin {"wait", "progress"} => NoChildDies'
  BY <1>1 DEF RowsInv, DeadLeaveWithWalk, NoChildDies
<1>3. ASSUME UNCHANGED <<queue, born>>, job' = job \/ \E e : job' = Checked(job, e)
      PROVE  LeadsOn'
  BY <1>1, <1>3, LeadsStill DEF Led
<1>4. ASSUME NEW i \in Ids, DupStep(i) \/ WaitStep(i) \/ ProgressStep(i) PROVE Leads'
  BY <1>1, <1>4, WalkLeads
<1>5. CASE \E n \in Names : Submit(n)
  <2>1. LeadsOn'
    BY <1>1, <1>5, SubmitLeads
  <2>2. pc' \notin {"wait", "progress"}
    BY <1>5 DEF Submit, Refuse, DeclineSetup, Prepare, BackToTop
  <2> QED
    BY <1>2, <2>1, <2>2 DEF Leads
<1>6. CASE Admit
  <2>1. LeadsOn'
    BY <1>1, <1>6, AdmitLeads
  <2>2. pc' \notin {"wait", "progress"}
    BY <1>6 DEF Admit, AdmitForwarded, AdmitKilled, AdmitDownload, AdmitProbe, AdmitStudio,
                AdmitKeycode, Push, BackToTop
  <2> QED
    BY <1>2, <2>1, <2>2 DEF Leads
<1>7. CASE Receive \/ NoMessage
  <2>1. LeadsOn'
    BY <1>1, <1>7, MessageLeads
  <2>2. pc' \notin {"wait", "progress"}
    BY <1>7 DEF Receive, HandleStale, HandleAssign, HandleFileDone, HandleDuplicate, HandleStage,
                StartDup, BackToTop, NoMessage
  <2> QED
    BY <1>2, <2>1, <2>2 DEF Leads
<1>8. CASE DupEnd \/ WaitEnd \/ ProgressEnd \/ BatchParents
  <2>1. LeadsOn'
    BY <1>1, <1>8, WalkEndsLed, LedStays
  <2>2. pass'.dead = {} \/ pc' \notin {"wait", "progress"}
    BY <1>8 DEF DupEnd, WaitEnd, ProgressEnd, BatchParents, NoPass
  <2> QED
    BY <1>2, <2>1, <2>2 DEF Leads, NoChildDies
<1>9. CASE ClockStep
  <2>1. LeadsOn'
    BY <1>1, <1>9, ClockLed, LedStays
  <2>2. pc' \in {"queue", "message"}
    BY <1>9 DEF ClockStep, DrainReboot, ReceiveReboot, ExpireCache, ExpireKeep, ProbeTimeout,
                EncodeStall, mainVars
  <2> QED
    BY <1>2, <2>1, <2>2 DEF Leads
<1>10. CASE GitQuery \/ ArmedGitQuery
  <2>1. pc' \notin {"wait", "progress"}
    BY <1>10 DEF GitQuery, ArmedGitQuery, GitSync, BackToTop
  <2>2. CASE GitSync
    BY <1>2, <2>1, <2>2 DEF GitSync, Leads, LeadsOn
  <2>3. CASE ~GitSync
    <3>1. UNCHANGED <<queue, born>> /\ (job' = job \/ job' = Checked(job, epoch))
      BY <1>10, <2>3 DEF GitQuery, ArmedGitQuery, BackToTop, layerVars
    <3> QED
      BY <1>2, <1>3, <2>1, <3>1 DEF Leads
  <2> QED
    BY <2>2, <2>3
<1>11. ASSUME NEW i \in Ids, Cancel(i) PROVE Leads'
  <2>1. /\ queue' \subseteq queue /\ born' = born /\ pc' \notin {"wait", "progress"}
        /\ \A c \in queue' : job'[c] = job[c]
    <3>1. \/ UNCHANGED <<queue, job>>
          \/ \E R : queue' = queue \ R /\ job' = Without(job, R)
      BY <1>11 DEF Cancel, FinalizeCancelled
    <3> QED
      BY <1>1, <1>11, <3>1, WithoutKeeps DEF Cancel
  <2> QED
    BY <1>2, <2>1 DEF Leads, LeadsOn
<1>12. CASE NoRequest
  <2>1. UNCHANGED <<queue, born, job>> /\ pc' = "message"
    BY <1>12 DEF NoRequest, layerVars
  <2> QED
    BY <1>2, <1>3, <2>1 DEF Leads
<1>13. CASE WorkerStep \/ UNCHANGED vars
  <2>1. UNCHANGED <<queue, job, pass, born>>
    BY <1>1, <1>13, WorkersKeepTypes DEF WorkerStep, vars, mainVars, layerVars
  <2> QED
    BY <1>1, <1>3, <2>1 DEF Leads, NoChildDies
<1> QED
  BY <1>4, <1>5, <1>6, <1>7, <1>8, <1>9, <1>10, <1>11, <1>12, <1>13
     DEF Next, LoopStep, ClientStep

\* Who may follow whom stays as it is.
LEMMA NextApart ==
  ASSUME LentInv, LentInv', BatchesInv, ApartInv, [Next]_vars
  PROVE  ApartInv'
<1> SUFFICES ASSUME Undisturbed PROVE (Named /\ Claims /\ Leads)'
  <2>1. Undisturbed' <=> Undisturbed
    BY DEF Undisturbed, Alone, SameOutput
  <2> QED
    BY <2>1 DEF ApartInv
<1>1. /\ Named /\ Claims /\ Leads /\ Typed /\ RowsInv /\ Handed /\ Asked
  BY DEF ApartInv, LentInv, BatchesInv
<1> QED
  BY <1>1, NextNamed, NextClaims, NextLeads

\* A cancel request is counted, and none is forgotten.
LEMMA CancelsGrow ==
  ASSUME Typed, Typed', [Next]_vars
  PROVE  Onwards
<1>1. cancels \in Nat /\ cancels' \in Nat
  BY DEF Typed, TypeOK
<1>2. ASSUME NEW i \in Ids, Cancel(i) PROVE cancels' = cancels + 1
  BY <1>2 DEF Cancel
<1>3. ASSUME NEW n \in Names, Submit(n) PROVE UNCHANGED cancels
  BY <1>3 DEF Submit, Refuse, DeclineSetup, Prepare, layerVars
<1>4. ASSUME NEW i \in Ids, ProgressStep(i) PROVE UNCHANGED cancels
  BY <1>4 DEF ProgressStep, ProgressSkip, Skip, KeycodeWait, KeycodeFail, KeycodeDispatch,
         DispatchProbeLayer, DispatchUpload, FinishKeep, EncodeForward, EncodeWaitsForInput,
         EncodeHeldBack, EncodeDispatch, DispatchKilled, Steady, layerVars
<1>5. ASSUME NEW i \in Ids, DupStep(i) \/ WaitStep(i) PROVE UNCHANGED cancels
  BY <1>5 DEF DupStep, WaitStep
<1>6. Admit \/ Receive \/ NoRequest \/ NoMessage => UNCHANGED cancels
  BY DEF Admit, Receive, NoRequest, NoMessage
<1>7. DupEnd \/ WaitEnd \/ ProgressEnd \/ BatchParents => UNCHANGED cancels
  BY DEF DupEnd, WaitEnd, ProgressEnd, BatchParents
<1>8. GitQuery \/ ArmedGitQuery => UNCHANGED cancels
  BY DEF GitQuery, ArmedGitQuery, GitSync, BackToTop
<1>9. ClockStep => UNCHANGED cancels
  BY DEF ClockStep, DrainReboot, ReceiveReboot, ExpireCache, ExpireKeep, ProbeTimeout,
         EncodeStall, mainVars
<1>10. WorkerStep \/ UNCHANGED vars => UNCHANGED cancels
  BY DEF WorkerStep, vars, mainVars
<1>11. cancels' = cancels \/ cancels' = cancels + 1
  BY <1>2, <1>3, <1>4, <1>5, <1>6, <1>7, <1>8, <1>9, <1>10 DEF Next, LoopStep, ClientStep
<1> QED
  BY <1>1, <1>11 DEF Onwards

\* Every step keeps the batches open, and closes none as done before its children.
LEMMA NextBatches ==
  ASSUME "child" \notin Faults, LentInv, LentInv', BatchesInv, ApartInv, [Next]_vars
  PROVE  BatchesInv' /\ Outlives
<1>1. /\ Typed /\ Typed' /\ RowsInv /\ PlacesInv /\ Speaks /\ BatchesOpen /\ Handed /\ Asked
      /\ LayersTypeOK /\ Onwards
  BY CancelsGrow DEF LentInv, BatchesInv, Typed, TypeOK
<1>2. NoneDone => Outlives
  BY DEF NoneDone, Outlives
<1>3. CASE LoopStep
  <2>1. 1 \in Ids
    BY PnJobsAssumption DEF Ids
  <2>2. ASSUME NEW i \in Ids, DupStep(i) \/ WaitStep(i) \/ ProgressStep(i)
        PROVE  BatchesOpen' /\ Outlives /\ Handed'
    <3>1. UNCHANGED <<born, nextId, pc>> /\ pc # "admit"
      BY <2>2 DEF DupStep, WaitStep, ProgressStep, ProgressSkip, Skip, KeycodeWait, KeycodeFail,
         KeycodeDispatch, DispatchProbeLayer, DispatchUpload, FinishKeep, EncodeForward,
         EncodeWaitsForInput, EncodeHeldBack, EncodeDispatch, DispatchKilled, EncodeReady,
         Encodable, Progressing, At, Steady, layerVars
    <3> QED
      BY <1>1, <1>2, <2>2, <3>1, WaitWalkBatches, ProgressBatches, HandedStill
  <2>3. BatchesOpen' /\ Outlives /\ Handed'
    BY <1>1, <1>2, <1>3, <2>1, <2>2, AdmitBatches, CancelBatches, MessageBatches,
       WalkEndsBatches, ParentsBatches, GitBatches DEF LoopStep, BatchesInv
  <2> QED
    BY <1>1, <1>3, <2>3, LoopAsks DEF BatchesInv
<1>4. CASE ClientStep
  <2>1. BatchesOpen' /\ NoneDone /\ Handed'
    BY <1>1, <1>4, SubmitBatches, CancelBatches, GitBatches DEF ClientStep
  <2> QED
    BY <1>1, <1>2, <1>4, <2>1, LoopAsks DEF BatchesInv
<1>5. CASE ClockStep
  BY <1>1, <1>2, <1>5, ClockBatches, LoopAsks DEF BatchesInv
<1>6. ASSUME UNCHANGED <<queue, job, db, born, nextId, pc, pass>>
      PROVE  BatchesOpen' /\ Outlives /\ Handed'
  BY <1>1, <1>2, <1>6, NoneDoneStill, NoOrphans, BatchesLeft, HandedStill
<1>7. CASE WorkerStep
  <2>1. WorkersNext /\ UNCHANGED <<queue, job, db, nextId, pc, pass>>
    BY <1>7 DEF WorkerStep, mainVars
  <2> QED
    BY <1>1, <1>6, <2>1, WorkersKeepTypes, WorkersAsk DEF BatchesInv
<1>8. CASE UNCHANGED vars
  <2>1. UNCHANGED <<queue, job, db, born, nextId, pc, pass, ret>>
    BY <1>8 DEF vars, mainVars, layerVars
  <2> QED
    BY <1>1, <1>6, <2>1 DEF BatchesInv, Asked, Apt, Type
<1> QED
  BY <1>3, <1>4, <1>5, <1>7, <1>8 DEF Next

\* Batches are open from the start, and nobody follows anybody.
LEMMA AlwaysOpen ==
  ASSUME "child" \notin Faults
  PROVE  Spec => [](BatchesInv /\ ApartInv)
<1>1. Init => BatchesInv /\ ApartInv
  <2> SUFFICES ASSUME Init PROVE BatchesInv /\ ApartInv
    OBVIOUS
  <2>1. queue = {} /\ pc = "queue" /\ pass = NoPass /\ \A l \in Layers : ret[l] = <<>>
    BY DEF Init, InitWith, LayersInit
  <2>2. \A c \in Ids : born[c].parent = 0 /\ born[c].name = 0
    BY DEF Init, InitWith, LayersInit, Unborn
  <2>3. BatchesInv
    BY <2>1, <2>2 DEF BatchesInv, BatchesOpen, Handed, Asked
  <2>4. Named /\ Claims /\ Leads
    BY <2>1, <2>2 DEF Named, Root, Claims, Leads, LeadsOn, NoChildDies, NoPass
  <2> QED
    BY <2>3, <2>4 DEF ApartInv
<1>2. LentInv /\ LentInv' /\ BatchesInv /\ ApartInv /\ [Next]_vars => BatchesInv' /\ ApartInv'
  BY NextBatches, NextApart
<1> QED
  BY <1>1, <1>2, AlwaysLent, PTL DEF Spec

\* A batch is closed as done only after the last of its children has left, whatever
\* is cancelled, stalls, fails or is rebooted meanwhile, if every child of a file
\* that came can be built.
THEOREM BatchOutlives ==
  ASSUME "child" \notin Faults
  PROVE  Spec => BatchOutlivesChildren
<1>1. LentInv /\ LentInv' /\ BatchesInv /\ ApartInv /\ [Next]_vars => Outlives
  BY NextBatches
<1>2. Outlives => \A p \in queue \ queue' :
        db'[p].stage = "Uploaded" /\ Batch(p) => \A c \in queue' : born'[c].parent # p
  BY DEF Outlives
<1> QED
  BY <1>1, <1>2, AlwaysLent, AlwaysOpen, PTL DEF Spec, BatchOutlivesChildren

\* A batch that is open counts, undisturbed, the files whose child left and those
\* that never came, but one at most for each cancel request.
LEMMA OpenCounts ==
  ASSUME Typed, Undisturbed, NEW p \in queue, Open(p)
  PROVE  LET left == {f \in Entries(born[p]) : job[p].kid[f] \notin queue \cup {0}}
             exact == Cardinality(left) + Missing(born[p], job[p])
             count == job[p].finished + job[p].failed IN
         count <= exact /\ exact <= count + cancels
<1> DEFINE left == {f \in Entries(born[p]) : job[p].kid[f] \notin queue \cup {0}}
           g == [c \in Left(p) |-> born[c].idx]
           h == [f \in left |-> job[p].kid[f]]
<1>1. /\ p \in Ids /\ p # 0 /\ 0 \notin Ids /\ Left(p) \in SUBSET Ids /\ Made(p) /\ Counted(p)
  <2>1. 0 \notin Ids /\ queue \subseteq Ids
    BY PnJobsAssumption DEF Ids, Typed, TypeOK
  <2> QED
    BY <2>1 DEF Left, Open
<1>2. IsFiniteSet(Left(p)) /\ IsFiniteSet(left)
  <2>1. left \subseteq Entries(born[p])
    OBVIOUS
  <2> HIDE DEF left
  <2> QED
    BY <1>1, <2>1, CountIds, FilesCount, FS_Subset
<1>3. g \in Injection(Left(p), left)
  <2>1. \A c \in Left(p) : born[c].idx \in left /\ job[p].kid[born[c].idx] = c
    BY <1>1 DEF Left, Made
  <2>2. g \in [Left(p) -> left]
    BY <2>1
  <2>3. \A c, d \in Left(p) : g[c] = g[d] => c = d
    BY <2>1
  <2> HIDE DEF g, left
  <2> QED
    BY <2>2, <2>3 DEF Injection, IsInjective
<1>4. h \in Injection(left, Left(p))
  <2>1. \A f \in left : job[p].kid[f] \in Left(p) /\ born[job[p].kid[f]].idx = f
    BY <1>1 DEF Left, Made
  <2>2. h \in [left -> Left(p)]
    BY <2>1
  <2>3. \A f, k \in left : h[f] = h[k] => f = k
    BY <2>1
  <2> HIDE DEF h, left
  <2> QED
    BY <2>2, <2>3 DEF Injection, IsInjective
<1> HIDE DEF g, h, left
<1>5. Cardinality(Left(p)) = Cardinality(left)
  <2>1. Cardinality(Left(p)) <= Cardinality(left) /\ Cardinality(left) <= Cardinality(Left(p))
    BY <1>2, <1>3, <1>4, FS_Injection
  <2>2. Cardinality(Left(p)) \in Nat /\ Cardinality(left) \in Nat
    BY <1>2, FS_CardinalityType
  <2> QED
    BY <2>1, <2>2
<1>6. /\ job[p].finished + job[p].failed <= Cardinality(Left(p)) + Missing(born[p], job[p])
      /\ Cardinality(Left(p)) + Missing(born[p], job[p]) <= job[p].finished + job[p].failed + cancels
  BY <1>1 DEF Counted, Nearly
<1> QED
  BY <1>5, <1>6 DEF left

\* A batch has counted the files whose child has left the queue and, once its download
\* is over, those that never came, at any moment and whoever is cancelled: all of them
\* as long as nobody was, and else all but one at most for each cancel request; if
\* sends succeed and children can be built, and if no other request asks for the
\* output of one of the batch's files.
THEOREM BatchesCountExactly ==
  ASSUME {"send", "child"} \cap Faults = {}, Alone
  PROVE  Spec => []BatchCount
<1>1. Undisturbed /\ "child" \notin Faults
  BY DEF Undisturbed
<1>2. LentInv /\ BatchesInv => BatchCount
  <2> SUFFICES ASSUME LentInv, BatchesInv PROVE BatchCount
    OBVIOUS
  <2>1. Typed /\ BatchesOpen
    BY DEF LentInv, BatchesInv
  <2> QED
    BY <1>1, <2>1, OpenCounts DEF BatchCount, BatchesOpen, Missing
<1> QED
  BY <1>1, <1>2, AlwaysLent, AlwaysOpen, PTL

-----------------------------------------------------------------------------
(* Keywords that are still promised                                         *)
(*                                                                          *)
(* A promised keyword has a job that tends it: in the queue, not dying in   *)
(* the walk, and following nobody.  A kept encode that were made to follow  *)
(* a plain one of the same output would leave with it, and nobody would     *)
(* keep or break its promise.                                               *)

\* What is asked for with a keyword
Promising(b) == b.name # 0 /\ Keeps(b) /\ TypeOf(b) \in KeepTypes
\* The job that will keep or break the promise, and the one that will be that
Tender(i) ==
  i \in queue \ pass.dead /\ Promising(born[i]) /\ job[i].fwd = 0 /\ job[i].ready # "Probed"
Tends(i) == Tender(i) \/ (pc = "admit" /\ pass.todo = {i} /\ Promising(born[i]))
Tended ==
  \A n \in Names : kept[n] = "reserved" /\ pc # "exited" =>
    \E i \in Ids : Tends(i) /\ born[i].name = n
\* What is kept is not uploaded, and is no task of the probe layer.
KeptAway == \A p \in {"Upload", "Probe"}, i \in Ids : With(p, i) => ~Promising(born[i])
PromiseInv == Handed /\ Asked /\ Named /\ Claims /\ KeptAway /\ Tended

\* Nobody else asks for the output of an encode that is kept.
KeepersAlone ==
  \A n, k \in Names :
    /\ n # k /\ Submissions[n].keep /\ Submissions[n].type \in {"Encode", "Pancode"}
    /\ Encodes(Submissions[k].type)
    => ~SameOutput(n, k)
ProbesOnly ==
  \A n \in Names : Submissions[n].probe # 0 => Submissions[Submissions[n].probe].type = "Probe"
Unhindered == {"send", "store"} \cap Faults = {} /\ ProbesOnly /\ KeepersAlone

\* A promise is decided in this step, or its tender tends it still.
Minds(i) ==
  \/ kept'[born[i].name] # "reserved" \/ pc' = "exited"
  \/ i \in queue' /\ i \notin pass'.dead /\ Led(job'[i], job[i])

\* A promise names its request, and a job that fails breaks it.
LEMMA TenderFails ==
  ASSUME Typed, NEW i \in Ids, Promising(born[i]), NEW S, i \in S, kept' = FailKeeps(S)
  PROVE  kept'[born[i].name] # "reserved"
<1>1. born[i].name \in Names
  BY DEF Typed, TypeOK, LayersTypeOK, Birth, Promising, Names
<1> QED
  BY <1>1 DEF FailKeeps, Promising, Typed, TypeOK, Keyword

\* Only a request that is prepared makes a promise.
LEMMA NoNewPromise ==
  ASSUME Typed, [Next]_vars, NEW n \in Names, kept'[n] = "reserved", ~\E k \in Names : Prepare(k)
  PROVE  kept[n] = "reserved"
<1> DEFINE Same == kept' = kept \/ (\E S : kept' = FailKeeps(S))
                   \/ \E k, s : kept' = [kept EXCEPT ![k] = s] /\ s # "reserved"
<1>0. /\ kept' = kept => Same
      /\ \A S : kept' = FailKeeps(S) => Same
      /\ \A k, s : kept' = [kept EXCEPT ![k] = s] /\ s # "reserved" => Same
  OBVIOUS
<1>13. Same => kept[n] = "reserved"
  <2>1. kept \in [Names -> Keyword]
    BY DEF Typed, TypeOK
  <2>2. ASSUME NEW S, kept' = FailKeeps(S) PROVE kept[n] = "reserved"
    BY <2>2 DEF FailKeeps
  <2>3. ASSUME NEW k, NEW s, kept' = [kept EXCEPT ![k] = s], s # "reserved"
        PROVE  kept[n] = "reserved"
    BY <2>1, <2>3
  <2> SUFFICES ASSUME Same PROVE kept[n] = "reserved"
    OBVIOUS
  <2> QED
    BY <2>2, <2>3
<1> HIDE DEF Same
<1>1. ASSUME NEW k \in Names, Submit(k) PROVE Same
  BY <1>0, <1>1 DEF Submit, Refuse, DeclineSetup
<1>2. CASE Receive
  <2>1. PICK l, m : \/ HandleStale(m) \/ HandleAssign(l, m) \/ HandleFileDone(m)
                    \/ HandleDuplicate(m) \/ HandleStage(m)
    BY <1>2 DEF Receive
  <2>2. HandleStage(m) => kept' = kept \/ kept' = FailKeeps({m.id})
    BY DEF HandleStage
  <2> QED
    BY <1>0, <1>13, <2>1, <2>2 DEF HandleStale, HandleAssign, HandleFileDone, HandleDuplicate
<1>3. ASSUME NEW i \in Ids, FinishKeep(i) PROVE Same
  BY <1>0, <1>3 DEF FinishKeep
<1>4. ASSUME NEW i \in Ids, ProgressStep(i), ~FinishKeep(i) PROVE Same
  BY <1>0, <1>4 DEF ProgressStep, ProgressSkip, Skip, KeycodeWait, KeycodeFail, KeycodeDispatch,
         DispatchProbeLayer, DispatchUpload, EncodeForward, EncodeWaitsForInput,
         EncodeHeldBack, EncodeDispatch, DispatchKilled
<1>5. ASSUME NEW i \in Ids, DupStep(i) \/ WaitStep(i) PROVE Same
  BY <1>0, <1>5 DEF DupStep, WaitStep
<1>6. CASE Admit
  <2>1. kept' = kept \/ \E i, j, e, d : Push(i, j, e, d)
    BY <1>6 DEF Admit, AdmitDownload, AdmitProbe, AdmitStudio, AdmitKeycode
  <2>2. \A i, j, e, d : Push(i, j, e, d) => kept' = kept \/ kept' = FailKeeps({i})
    BY DEF Push
  <2> QED
    BY <1>0, <1>13, <2>1, <2>2
<1>7. NoRequest \/ NoMessage \/ DupEnd \/ WaitEnd \/ ProgressEnd \/ BatchParents => Same
  BY <1>0 DEF NoRequest, NoMessage, DupEnd, WaitEnd, ProgressEnd, BatchParents
<1>8. GitQuery \/ ArmedGitQuery => Same
  BY <1>0 DEF GitQuery, ArmedGitQuery, GitSync
<1>9. ASSUME NEW i \in Ids, Cancel(i) \/ ProbeTimeout(i) PROVE Same
  BY <1>0, <1>9 DEF Cancel, FinalizeCancelled, ProbeTimeout
<1>10. ASSUME NEW S, EncodeStall(S) PROVE Same
  BY <1>0, <1>10 DEF EncodeStall
<1>11. DrainReboot \/ ReceiveReboot \/ ExpireCache \/ ExpireKeep => Same
  BY <1>0 DEF DrainReboot, ReceiveReboot, ExpireCache, ExpireKeep, mainVars
<1>12. WorkerStep \/ UNCHANGED vars => Same
  BY <1>0 DEF WorkerStep, vars, mainVars
<1> QED
  BY <1>13, <1>1, <1>2, <1>3, <1>4, <1>5, <1>6, <1>7, <1>8, <1>9, <1>10, <1>11, <1>12
     DEF Next, LoopStep, ClientStep, ClockStep

\* What was prepared is admitted before anything else, and after a sync the loop
\* does nothing.
LEMMA AdmitsFirst ==
  ASSUME LoopStep \/ ClientStep \/ ClockStep
  PROVE  pc # "exited" /\ (pc = "admit" => Admit)
<1> DEFINE Elsewhere == pc \notin {"exited", "admit"}
<1>1. ASSUME NEW n \in Names, Submit(n) PROVE Elsewhere
  BY <1>1 DEF Submit, Refuse, DeclineSetup, Prepare
<1>2. ASSUME NEW i \in Ids, ProgressStep(i) PROVE Elsewhere
  BY <1>2 DEF ProgressStep, ProgressSkip, KeycodeWait, KeycodeFail, KeycodeDispatch,
         DispatchProbeLayer, DispatchUpload, FinishKeep, EncodeForward, EncodeWaitsForInput,
         EncodeHeldBack, EncodeDispatch, DispatchKilled, EncodeReady, Encodable, Progressing, At
<1>3. ASSUME NEW i \in Ids, DupStep(i) \/ WaitStep(i) \/ Cancel(i) \/ ProbeTimeout(i)
      PROVE  Elsewhere
  BY <1>3 DEF DupStep, WaitStep, At, Cancel, ProbeTimeout
<1>4. ASSUME NEW S, EncodeStall(S) PROVE Elsewhere
  BY <1>4 DEF EncodeStall
<1>5. \/ NoRequest \/ Receive \/ NoMessage \/ DupEnd \/ WaitEnd \/ ProgressEnd \/ BatchParents
      \/ ArmedGitQuery \/ GitQuery \/ DrainReboot \/ ReceiveReboot \/ ExpireCache \/ ExpireKeep
      => Elsewhere
  BY DEF NoRequest, Receive, NoMessage, DupEnd, WaitEnd, ProgressEnd, BatchParents, ArmedGitQuery,
         GitQuery, DrainReboot, ReceiveReboot, ExpireCache, ExpireKeep
<1>6. Admit => pc = "admit"
  BY DEF Admit
<1> QED
  BY <1>1, <1>2, <1>3, <1>4, <1>5, <1>6 DEF LoopStep, ClientStep, ClockStep

\* Ids are handed out in order, whoever asks.
LEMMA NextHanded ==
  ASSUME Typed, RowsInv, Handed, [Next]_vars
  PROVE  Handed'
<1>1. /\ born \in [Ids -> Birth] /\ nextId \in Nat /\ queue \subseteq Ids /\ 0 \notin Ids
      /\ \A c \in Ids : c \in Nat /\ born[c].parent \in Nat
      /\ \A c \in queue : c < nextId
  BY PnJobsAssumption DEF Typed, TypeOK, LayersTypeOK, Birth, Ids, Ids0, RowsInv, QueuedBefore
<1>2. CASE UNCHANGED <<born, nextId>> /\ (pc' # "admit" \/ UNCHANGED <<pc, pass>>)
  BY <1>2, HandedStill
\* who is born, and what is admitted next
<1>3. ASSUME nextId \in Ids, nextId' = nextId + 1, NEW b, born' = [born EXCEPT ![nextId] = b],
             b.parent = 0 \/ b.parent \in queue,
             \/ pc' # "admit"
             \/ b.parent = 0 /\ pass'.todo = {nextId}
      PROVE  Handed'
  <2>1. born'[nextId] = b /\ \A c \in Ids : c # nextId => born'[c] = born[c]
    BY <1>1, <1>3
  <2>2. ASSUME NEW c \in Ids, c >= nextId' PROVE born'[c].parent = 0
    BY <1>1, <1>3, <2>1, <2>2 DEF Handed
  <2>3. ASSUME NEW c \in Ids, born'[c].parent # 0
        PROVE  born'[c].parent < nextId' /\ born'[c].parent # nextId
    <3>1. born'[c].parent < nextId
      BY <1>1, <1>3, <2>1, <2>3 DEF Handed
    <3>2. born'[c].parent \in Nat
      <4>1. queue \cup {0} \subseteq Nat /\ b.parent \in queue \cup {0}
        BY <1>1, <1>3
      <4>2. CASE c = nextId
        <5>1. born'[c] = b
          BY <2>1, <4>2
        <5> QED
          BY <4>1, <5>1, Zenon
      <4>3. CASE c # nextId
        BY <1>1, <2>1, <4>3
      <4> QED
        BY <4>2, <4>3
    <3> QED
      BY <1>1, <1>3, <3>1, <3>2
  <2>4. pc' = "admit" => \A i \in pass'.todo : born'[i].parent = 0 /\ i = nextId
    BY <1>3, <2>1
  <2> QED
    BY <2>2, <2>3, <2>4 DEF Handed
<1>4. ASSUME NEW n \in Names, Prepare(n) PROVE Handed'
  <2> DEFINE b == [name |-> n, parent |-> 0, idx |-> Submissions[n].idx]
  <2>1. /\ nextId \in Ids /\ nextId' = nextId + 1 /\ pass'.todo = {nextId}
        /\ born' = [born EXCEPT ![nextId] = b] /\ b.parent = 0
    BY <1>4 DEF Prepare, NoPass
  <2> HIDE DEF b
  <2> QED
    BY <1>3, <2>1
<1>5. ASSUME NEW m, HandleFileDone(m) PROVE Handed'
  <2> DEFINE b == [name |-> born[m.id].name, parent |-> m.id, idx |-> m.file]
  <2>1. m.id \in queue /\ pc' # "admit" /\ b.parent = m.id
    BY <1>5 DEF HandleFileDone, BackToTop
  <2>2. \/ UNCHANGED <<born, nextId>>
        \/ nextId \in Ids /\ nextId' = nextId + 1 /\ born' = [born EXCEPT ![nextId] = b]
    BY <1>5 DEF HandleFileDone
  <2> HIDE DEF b
  <2> QED
    BY <1>2, <1>3, <2>1, <2>2
<1> QED
  BY <1>2, <1>4, <1>5, BornStill

\* Of the jobs that are not downloaded, the loop gives the pools none that is kept.
GivesPlain(p) ==
  /\ run'[p] = run[p] \/ \A k \in Ids : run'[p][k] = "idle"
  /\ \/ pend'[p] = pend[p] \/ pend'[p] = <<>>
     \/ /\ born' = born
        /\ \E i \in Ids : ~Promising(born[i]) /\ pend'[p] = Append(pend[p], i)
LEMMA PoolSends ==
  ASSUME Typed, RowsInv, LoopStep \/ ClientStep \/ ClockStep, NEW p \in {"Upload", "Probe"}
  PROVE  GivesPlain(p)
<1>1. /\ pend \in [Pools -> Seq(Ids)] /\ run \in [Pools -> [Ids -> Phases]] /\ p \in Pools
      /\ pass.todo \subseteq Ids
  BY DEF Typed, TypeOK, LayersTypeOK, Pass, Pools
<1>2. UNCHANGED <<pend, run>> => GivesPlain(p)
  BY DEF GivesPlain
<1>3. ASSUME NEW i \in Ids, UNCHANGED <<born, run>>,
             \E q \in Pools : PoolSend(q, i) /\ (q # "Download" => ~Promising(born[i]))
      PROVE  GivesPlain(p)
  BY <1>1, <1>3 DEF GivesPlain, PoolSend
<1>4. ASSUME NEW i \in Ids, UNCHANGED <<born, run>>, RouteSend(i)
      PROVE  GivesPlain(p)
  BY <1>2, <1>3, <1>4 DEF RouteSend, Pools
<1>5. ASSUME NEW n \in Names, Submit(n) PROVE GivesPlain(p)
  BY <1>2, <1>5 DEF Submit, Refuse, DeclineSetup, Prepare, layerVars, poolVars
<1>6. CASE Receive \/ NoRequest \/ NoMessage
  BY <1>2, <1>6 DEF Receive, NoRequest, NoMessage, layerVars, poolVars
<1>7. CASE Admit
  <2>1. PICK i \in pass.todo :
          \/ AdmitForwarded(i) \/ AdmitKilled(i) \/ AdmitDownload(i) \/ AdmitProbe(i)
          \/ AdmitStudio(i) \/ AdmitKeycode(i)
    BY <1>7 DEF Admit
  <2>2. i \in Ids /\ born' = born
    BY <1>1, <1>7, <2>1 DEF Admit
  <2>3. CASE AdmitForwarded(i) \/ AdmitKilled(i) \/ AdmitStudio(i) \/ AdmitKeycode(i)
    BY <1>2, <2>3 DEF AdmitForwarded, AdmitKilled, AdmitStudio, AdmitKeycode, poolVars
  <2>4. CASE AdmitDownload(i)
    BY <1>4, <2>2, <2>4 DEF AdmitDownload
  <2>5. CASE AdmitProbe(i)
    <3>1. ~Promising(born[i])
      BY <2>5 DEF AdmitProbe, Promising, Type, KeepTypes
    <3> QED
      BY <1>3, <2>2, <2>5, <3>1 DEF AdmitProbe, Pools
  <2> QED
    BY <2>1, <2>3, <2>4, <2>5
<1>8. ASSUME NEW i \in Ids, DispatchProbeLayer(i) PROVE GivesPlain(p)
  <2>1. ~Promising(born[i])
    BY <1>8 DEF DispatchProbeLayer, ToProbeLayer, Promising, Type, KeepTypes
  <2> QED
    BY <1>3, <1>8, <2>1 DEF DispatchProbeLayer, PoolDispatch, Steady, Pools
<1>9. ASSUME NEW i \in Ids, DispatchUpload(i) PROVE GivesPlain(p)
  <2>1. ~Promising(born[i])
    BY <1>9 DEF DispatchUpload, ToUpload, Promising, Type, KeepTypes
  <2> QED
    BY <1>3, <1>9, <2>1 DEF DispatchUpload, PoolDispatch, Steady, Pools
<1>10. ASSUME NEW i \in Ids, ProgressStep(i), ~DispatchProbeLayer(i), ~DispatchUpload(i)
       PROVE  GivesPlain(p)
  BY <1>2, <1>10 DEF ProgressStep, ProgressSkip, Skip, KeycodeWait, KeycodeFail, KeycodeDispatch,
         FinishKeep, EncodeForward, EncodeWaitsForInput, EncodeHeldBack, EncodeDispatch,
         DispatchKilled, layerVars, poolVars
<1>11. ASSUME NEW i \in Ids, DupStep(i) PROVE GivesPlain(p)
  BY <1>2, <1>11 DEF DupStep, poolVars
<1>12. ASSUME NEW i \in Ids, WaitStep(i) PROVE GivesPlain(p)
  <2>1. UNCHANGED <<born, run>> /\ (UNCHANGED pend \/ RouteSend(i))
    BY <1>12 DEF WaitStep
  <2> QED
    BY <1>2, <1>4, <2>1
<1>13. CASE DupEnd \/ WaitEnd \/ ProgressEnd \/ BatchParents
  BY <1>2, <1>13 DEF DupEnd, WaitEnd, ProgressEnd, BatchParents, layerVars, poolVars
<1>14. CASE GitQuery \/ ArmedGitQuery
  <2>1. GitSync => GivesPlain(p)
    BY <1>1 DEF GitSync, GivesPlain
  <2> QED
    BY <1>2, <1>14, <2>1 DEF GitQuery, ArmedGitQuery, layerVars, poolVars
<1>15. ASSUME NEW i \in Ids, Cancel(i) \/ ProbeTimeout(i) PROVE GivesPlain(p)
  BY <1>2, <1>15 DEF Cancel, ProbeTimeout, poolVars
<1>16. ASSUME NEW S, EncodeStall(S) PROVE GivesPlain(p)
  BY <1>2, <1>16 DEF EncodeStall, poolVars
<1>17. CASE DrainReboot \/ ReceiveReboot \/ ExpireCache \/ ExpireKeep
  BY <1>2, <1>17 DEF DrainReboot, ReceiveReboot, ExpireCache, ExpireKeep, layerVars, poolVars
<1> QED
  BY <1>5, <1>6, <1>7, <1>8, <1>9, <1>10, <1>11, <1>12, <1>13, <1>14, <1>15, <1>16, <1>17
     DEF LoopStep, ClientStep, ClockStep

\* So it stays: what is kept is not uploaded, and is no task of the probe layer.
LEMMA NextAway ==
  ASSUME LentInv, KeptAway, [Next]_vars
  PROVE  KeptAway'
<1>1. /\ Typed /\ RowsInv /\ LayersTypeOK /\ Places /\ Fresh /\ {"Upload", "Probe"} \subseteq Pools
      /\ Pools \subseteq Layers /\ "Encode" \notin Pools /\ nextId \in Nat
      /\ \A i \in Ids : i \in Nat
  BY PnJobsAssumption DEF LentInv, Typed, TypeOK, PlacesInv, Pools, Layers, Ids
<1> SUFFICES ASSUME NEW p \in {"Upload", "Probe"}, NEW i \in Ids, With(p, i)', Promising(born'[i])
             PROVE  FALSE
  BY DEF KeptAway
<1>2. ASSUME With(p, i), born'[i] = born[i] PROVE FALSE
  BY <1>2 DEF KeptAway
<1>3. CASE WorkerStep
  BY <1>1, <1>2, <1>3, WorkersMove, WorkersKeepTypes DEF WorkerStep
<1>4. CASE UNCHANGED vars
  <2>1. With(p, i) /\ born' = born
    BY <1>4 DEF vars, layerVars, With, Holds, Told, Pending, Tasked, Inboxed
  <2> QED
    BY <1>2, <2>1
<1>5. CASE LoopStep \/ ClientStep \/ ClockStep
  <2>1. GivesPlain(p)
    BY <1>1, <1>5, PoolSends
  <2>2. p \in Layers /\ p \in Pools /\ p # "Encode" /\ pend[p] \in Seq(Ids) /\ ret[p] \in Seq(Message)
    BY <1>1 DEF LayersTypeOK
  <2>3. With(p, i) => FALSE
    <3>1. With(p, i) => i # nextId
      BY <1>1, <2>2 DEF Fresh
    <3> QED
      BY <1>1, <1>2, <1>5, <3>1, BornOnce
  <2>4. Tasked(p, i)' => Tasked(p, i)
    BY <2>1 DEF GivesPlain, Tasked
  <2>5. Told(p, i)' => Told(p, i)
    <3>1. \/ ret'[p] = ret[p] \/ ret'[p] = <<>>
          \/ ret[p] # <<>> /\ ret'[p] = Tail(ret[p])
      BY <1>1, <1>5, <2>2, LoopSaysNothing DEF Received, LayersTypeOK
    <3>2. ret[p] # <<>> => (Said(i, Tail(ret[p])) => Said(i, ret[p]))
      BY <2>2, SaidLess
    <3>3. ~Said(i, <<>>)
      BY DEF Said
    <3>4. Told(p, i)' = Said(i, ret'[p])
      BY DEF Told, Said
    <3> QED
      BY <3>1, <3>2, <3>3, <3>4 DEF Told
  <2>6. Pending(p, i)' => Pending(p, i)
    <3>1. ASSUME NEW k \in Ids, born' = born, ~Promising(born[k]), pend'[p] = Append(pend[p], k)
          PROVE  Pending(p, i)' => Pending(p, i)
      BY <2>2, <3>1, Appended DEF Pending
    <3> QED
      BY <2>1, <3>1 DEF GivesPlain, Pending, InSeq
  <2> QED
    BY <2>2, <2>3, <2>4, <2>5, <2>6 DEF With, Holds
<1> QED
  BY <1>3, <1>4, <1>5 DEF Next

\* An encode that is kept is made nobody's follower.
LEMMA KeeperFollowsNobody ==
  ASSUME Typed, KeepersAlone, Named, Claims, NEW i \in queue, Promising(born[i])
  PROVE  ~EncodeForward(i)
<1> DEFINE t == ForwardTarget(i)
           n == born[i].name
           k == born[t].name
<1> SUFFICES ASSUME EncodeForward(i) PROVE FALSE
  OBVIOUS
<1>1. /\ pc = "progress" /\ t \notin {0, i} /\ Type(i) \notin {"Backup"}
      /\ i \in Ids /\ born \in [Ids -> Birth]
  BY DEF EncodeForward, Encodable, InEncodeBranch, Progressing, At, Typed, TypeOK, LayersTypeOK
<1>2. /\ t \in Known /\ t \in Ids /\ Encodes(TypeOf(born[t])) /\ ~IsBatch(born[t])
      /\ Sources(n) \cap Sources(k) # {} /\ born[t].idx = born[i].idx
      /\ Submissions[n].look = Submissions[k].look
  BY <1>1, FollowedIsLike
<1> HIDE DEF t
<1>3. /\ n \in Names /\ k \in Names /\ Root(i) /\ Submissions[n].keep
      /\ Submissions[n].type \in {"Encode", "Pancode"} /\ born[i].idx \in FilesOf(n)
  <2>1. n \in Names /\ k \in Names
    BY <1>1, <1>2 DEF Promising, Known, Birth, Names
  <2>2. Root(i) /\ Submissions[n].keep /\ Submissions[n].type \in {"Encode", "Pancode"}
    BY <1>1 DEF Promising, Keeps, Root, TypeOf, Type, ReqOf, KeepTypes
  <2> QED
    BY <1>1, <2>1, <2>2 DEF Named, FilesOf
<1>4. /\ n # k /\ Encodes(Submissions[k].type) /\ born[t].idx \in FilesOf(k)
  <2>1. CASE born[t].parent = 0
    <3>1. Root(t) /\ born[t].idx = Submissions[k].idx
      BY <1>2, <2>1 DEF Root, Known, Named
    <3>2. n # k
      BY <1>1, <1>2, <1>3, <3>1 DEF Named
    <3> QED
      BY <1>2, <2>1, <3>1, <3>2 DEF TypeOf, IsBatch, ReqOf, FilesOf
  <2>2. CASE born[t].parent # 0
    <3>1. Submissions[k].type = "Batch" /\ born[t].idx \in Submissions[k].files
      BY <1>2, <2>2 DEF Named, Batch, IsBatch, ReqOf, Entries
    <3> QED
      BY <1>3, <3>1 DEF Encodes, FilesOf
  <2> QED
    BY <2>1, <2>2
<1> QED
  BY <1>2, <1>3, <1>4 DEF KeepersAlone, SameOutput

\* What is received or admitted lets the others be.
LEMMA SubmitMinds ==
  ASSUME Typed, NEW n \in Names, Submit(n), NEW i \in Ids, Tender(i)
  PROVE  Minds(i)
<1>1. job \in Jobs
  BY DEF Typed, TypeOK, Jobs
<1>2. queue' = queue /\ pass'.dead = {} /\ (job' = job \/ job' = Checked(job, epoch))
  BY DEF Submit, Refuse, DeclineSetup, Prepare, BackToTop, NoPass
<1> QED
  BY <1>1, <1>2, CheckedStage DEF Minds, Tender, Led

LEMMA AdmitMinds ==
  ASSUME Typed, RowsInv, Admit, NEW i \in Ids, Tender(i)
  PROVE  Minds(i)
<1>1. queue \subseteq queue' /\ pass' = NoPass
      /\ \A c \in queue : job'[c].fwd = job[c].fwd /\ job'[c].ready = job[c].ready
  BY AdmitOthers
<1> QED
  BY <1>1 DEF Minds, Tender, Led, NoPass

\* Who cancels a job breaks its promise, and takes no other but its followers.
LEMMA CancelMinds ==
  ASSUME Typed, NEW k \in Ids, Cancel(k) \/ NoRequest, NEW i \in Ids, Tender(i),
         kept[born[i].name] = "reserved"
  PROVE  Minds(i)
<1>1. pass' = pass /\ 0 \notin Ids
  BY PnJobsAssumption DEF Cancel, NoRequest, Ids
<1>2. CASE UNCHANGED <<queue, job>>
  BY <1>1, <1>2 DEF Minds, Tender, Led
<1>3. ASSUME NEW d, FinalizeCancelled(k, d) PROVE Minds(i)
  <2> DEFINE gone == {k} \cup ForwardedTo({k})
  <2>1. queue' = queue \ gone /\ job' = Without(job, gone) /\ kept' = FailKeeps({k})
    BY <1>3 DEF FinalizeCancelled
  <2>2. CASE i = k
    <3>1. kept'[born[i].name] # "reserved"
      BY <2>1, <2>2, TenderFails DEF Tender
    <3> QED
      BY <3>1 DEF Minds
  <2>3. CASE i # k
    <3>1. i \notin gone
      BY <1>1, <2>3 DEF ForwardedTo, Tender
    <3> HIDE DEF gone
    <3> QED
      BY <1>1, <2>1, <3>1, WithoutKeeps DEF Minds, Tender, Led
  <2> QED
    BY <2>2, <2>3
<1> QED
  BY <1>2, <1>3 DEF Cancel, NoRequest

LEMMA GitMinds ==
  ASSUME Typed, GitQuery \/ ArmedGitQuery, NEW i \in Ids, Tender(i)
  PROVE  Minds(i)
<1>1. CASE GitSync
  BY <1>1 DEF GitSync, Minds
<1>2. CASE ~GitSync
  <2>1. queue' = queue /\ pass' \in {pass, NoPass} /\ (job' = job \/ job' = Checked(job, epoch))
    BY <1>2 DEF GitQuery, ArmedGitQuery, BackToTop
  <2>2. i \notin pass'.dead /\ job \in Jobs
    BY <2>1 DEF Tender, NoPass, Typed, TypeOK, Jobs
  <2> QED
    BY <2>1, <2>2, CheckedStage DEF Minds, Tender, Led
<1> QED
  BY <1>1, <1>2

\* An encode that is found stalled breaks its promise; an expired probe had made none.
LEMMA ClockMinds ==
  ASSUME Typed, ClockStep, NEW i \in Ids, Tender(i), kept[born[i].name] = "reserved"
  PROVE  Minds(i)
<1>1. /\ pass' = pass /\ \A c \in queue' : Led(job'[c], job[c])
  <2>1. pass' = pass
    BY DEF ClockStep, DrainReboot, ReceiveReboot, ExpireCache, ExpireKeep, ProbeTimeout,
           EncodeStall, mainVars
  <2> QED
    BY <2>1, ClockLed
<1>2. ASSUME i \in queue' PROVE Minds(i)
  BY <1>1, <1>2 DEF Minds, Tender
<1>3. CASE DrainReboot \/ ReceiveReboot \/ ExpireCache \/ ExpireKeep
  <2>1. queue' = queue
    BY <1>3 DEF DrainReboot, ReceiveReboot, ExpireCache, ExpireKeep, mainVars
  <2> QED
    BY <1>2, <2>1 DEF Tender
<1>4. ASSUME NEW k \in Ids, ProbeTimeout(k) PROVE Minds(i)
  BY <1>2, <1>4 DEF ProbeTimeout, Tender
<1>5. ASSUME NEW S \in SUBSET Ids, EncodeStall(S) PROVE Minds(i)
  <2>1. queue' = queue \ (S \cup ForwardedTo(S)) /\ kept' = FailKeeps(S)
    BY <1>5 DEF EncodeStall
  <2>2. CASE i \in S
    <3>1. kept'[born[i].name] # "reserved"
      BY <2>1, <2>2, TenderFails DEF Tender
    <3> QED
      BY <3>1 DEF Minds
  <2>3. CASE i \notin S
    <3>1. i \notin ForwardedTo(S)
      BY PnJobsAssumption DEF ForwardedTo, Tender, Ids
    <3> QED
      BY <1>2, <2>1, <2>3, <3>1 DEF Tender
  <2> QED
    BY <2>2, <2>3
<1> QED
  BY <1>3, <1>4, <1>5 DEF ClockStep

\* What is said of a tender ends it only if it fails, and then its promise is broken;
\* what is done for another takes no probe of its own but a probe.
LEMMA StageMinds ==
  ASSUME Typed, Typed', ProbesOnly, NEW l \in Layers, NEW m \in Message,
         With(l, m.id), Says(l, m), Apt(m), KeptAway, HandleStage(m),
         NEW i \in Ids, Tender(i), kept[born[i].name] = "reserved"
  PROVE  Minds(i)
<1> DEFINE s == m.stage
           gone == (IF s \in Terminal THEN {m.id} \cup ForwardedTo({m.id}) ELSE {})
                     \cup ProbeLeft(m.id, s)
<1>1. /\ m.id \in Ids /\ 0 \notin Ids /\ m.id \in queue /\ m.kind = "stage"
      /\ queue' = queue \ gone /\ pass'.dead = {} /\ i \in queue /\ Promising(born[i])
      /\ job[i].fwd = 0 /\ born[i].parent = 0 /\ Type(i) \in KeepTypes
  BY PnJobsAssumption DEF Message, Ids, HandleStage, StartDup, NoPass, Tender, Promising, Keeps, Type
<1>2. i \notin ForwardedTo({m.id})
  BY <1>1 DEF ForwardedTo
<1>3. i \notin ProbeLeft(m.id, s)
  <2> SUFFICES ASSUME i \in ProbeLeft(m.id, s) PROVE FALSE
    OBVIOUS
  <2>1. /\ ReqOf(born[m.id]).probe # 0
        /\ born[i].name = Submissions[born[m.id].name].probe
    BY DEF ProbeLeft, ProbeOf
  <2>2. born[m.id].name \in Names
    <3>1. m.id \in Known /\ born[m.id] \in Birth
      BY <1>1 DEF Typed, TypeOK, LayersTypeOK
    <3> QED
      BY <3>1 DEF Known, Birth, Names
  <2>3. Submissions[born[i].name].type = "Probe"
    BY <2>1, <2>2 DEF ProbesOnly, ReqOf
  <2> QED
    BY <1>1, <2>3 DEF Type, TypeOf, ReqOf, KeepTypes
<1>4. CASE m.id = i /\ s \in Terminal
  <2>1. s \in {"Failed", "Cancelled"}
    <3>1. s \in StagesOf(l) /\ l \notin {"Upload", "Probe"}
      BY <1>1, <1>4 DEF Says, KeptAway
    <3> QED
      BY <1>4, <3>1 DEF StagesOf, Terminal, Layers, Pools
  <2>2. kept' = FailKeeps({i})
    BY <1>4, <2>1 DEF HandleStage
  <2>3. kept'[born[i].name] # "reserved"
    BY <1>1, <2>2, TenderFails
  <2> QED
    BY <2>3 DEF Minds
<1>5. CASE ~(m.id = i /\ s \in Terminal)
  <2>1. i \in queue'
    BY <1>1, <1>2, <1>3, <1>5
  <2>2. job'[i].fwd = 0 /\ job'[i].ready = IF i = m.id THEN s ELSE job[i].ready
    BY <1>1, <2>1, StageOthers
  <2>3. i = m.id => s # "Probed"
    BY <1>1 DEF Apt, KeepTypes
  <2>4. Led(job'[i], job[i])
    BY <1>1, <2>2, <2>3 DEF Led
  <2> QED
    BY <1>1, <2>1, <2>4 DEF Minds
<1> QED
  BY <1>4, <1>5

\* Whatever the loop hears.
LEMMA MessageMinds ==
  ASSUME LentInv, Typed', ProbesOnly, Asked, KeptAway, Receive \/ NoMessage,
         NEW i \in Ids, Tender(i), kept[born[i].name] = "reserved"
  PROVE  Minds(i)
<1>1. Typed /\ RowsInv /\ Places /\ Speaks /\ LayersTypeOK
  BY DEF LentInv, PlacesInv, Typed, TypeOK
<1>2. ASSUME UNCHANGED <<queue, job>>, pass'.dead = {} PROVE Minds(i)
  BY <1>2 DEF Minds, Tender, Led
<1>3. CASE NoMessage
  BY <1>2, <1>3 DEF NoMessage, StartDup, NoPass
<1>4. CASE Receive
  <2>1. PICK l \in Layers :
          /\ ret[l] # <<>> /\ Received(l)
          /\ LET m == Head(ret[l]) IN
               \/ HandleStale(m) \/ HandleAssign(l, m) \/ HandleFileDone(m)
               \/ HandleDuplicate(m) \/ HandleStage(m)
    BY <1>4 DEF Receive
  <2>2. PICK m : m = Head(ret[l])
    OBVIOUS
  <2>3. UNCHANGED <<pend, run, inbox, cur>>
    BY <1>4 DEF Receive, poolVars, encVars
  <2>4. m \in Message /\ m.id \in Ids /\ Told(l, m.id)
    BY <1>1, <2>1, <2>2, <2>3, Heard
  <2>5. Says(l, m) /\ With(l, m.id)
    BY <1>1, <2>1, <2>2, <2>4, SaidFirst DEF With
  <2>6. Apt(m)
    <3>1. 1 \in DOMAIN ret[l] /\ m = ret[l][1]
      BY <1>1, <2>1, <2>2 DEF LayersTypeOK
    <3> QED
      BY <3>1 DEF Asked
  <2>7. CASE HandleStale(m)
    BY <1>2, <2>7 DEF HandleStale, StartDup, NoPass
  <2>8. CASE HandleAssign(l, m) \/ HandleDuplicate(m) \/ HandleFileDone(m)
    <3>1. queue \subseteq queue' /\ pass' = NoPass
          /\ \A c \in queue : job'[c].fwd = job[c].fwd /\ job'[c].ready = job[c].ready
      BY <1>1, <2>4, <2>8, NoteLed
    <3> QED
      BY <3>1 DEF Minds, Tender, Led, NoPass
  <2>9. CASE HandleStage(m)
    BY <1>1, <2>4, <2>5, <2>6, <2>9, StageMinds
  <2> QED
    BY <2>1, <2>2, <2>7, <2>8, <2>9
<1> QED
  BY <1>3, <1>4

\* A tender dies in a walk only when it has kept its promise, and follows nobody.
LEMMA WalkMinds ==
  ASSUME Typed, RowsInv, Unhindered, Named, Claims,
         NEW k \in Ids, DupStep(k) \/ WaitStep(k) \/ ProgressStep(k),
         NEW i \in Ids, Tender(i)
  PROVE  Minds(i)
<1>1. /\ k \in queue /\ UNCHANGED <<queue, born>>
      /\ \A c \in Ids \ {k} : job'[c] = job[c]
      /\ EncodeForward(k) \/ Led(job'[k], job[k])
      /\ \/ pass'.dead = pass.dead
         \/ pass'.dead = pass.dead \cup {k} /\ (KeycodeFail(k) \/ FinishKeep(k))
  BY WalkVisit DEF Unhindered
<1>2. i \in queue /\ i \notin pass.dead /\ Promising(born[i])
  BY DEF Tender
<1>3. Led(job'[i], job[i])
  <2>1. i = k => ~EncodeForward(k)
    BY <1>1, <1>2, KeeperFollowsNobody DEF Unhindered
  <2> QED
    BY <1>1, <2>1 DEF Led
<1>4. CASE i \notin pass'.dead
  BY <1>1, <1>2, <1>3, <1>4 DEF Minds
<1>5. CASE i \in pass'.dead
  <2>1. i = k /\ (KeycodeFail(i) \/ FinishKeep(i))
    BY <1>1, <1>2, <1>5
  <2>2. ~KeycodeFail(i)
    BY <1>2 DEF KeycodeFail, KeycodeWaits, Type, Promising, KeepTypes
  <2>3. kept' = [kept EXCEPT ![born[i].name] = "ready"]
    BY <2>1, <2>2 DEF FinishKeep, Unhindered
  <2>4. kept'[born[i].name] # "reserved"
    <3>1. born[i].name \in Names /\ kept \in [Names -> Keyword]
      BY <1>2 DEF Typed, TypeOK, LayersTypeOK, Birth, Promising, Names
    <3> QED
      BY <2>3, <3>1
  <2> QED
    BY <2>4 DEF Minds
<1> QED
  BY <1>4, <1>5

\* Where a walk ends only the dead leave, and batches that are done.
LEMMA WalkEndsMinds ==
  ASSUME Typed, DupEnd \/ WaitEnd \/ ProgressEnd \/ BatchParents, NEW i \in Ids, Tender(i)
  PROVE  Minds(i)
<1>1. /\ \A k \in queue \ queue' : k \in pass.dead \/ Batch(k)
      /\ \A c \in queue' : Led(job'[c], job[c])
  BY WalkEndsLed
<1>2. i \in queue /\ i \notin pass.dead /\ Promising(born[i])
  BY DEF Tender
<1>3. ~Batch(i)
  BY <1>2 DEF Batch, IsBatch, Promising, TypeOf, KeepTypes
<1>4. i \notin pass'.dead
  <2>1. DupEnd \/ WaitEnd \/ ProgressEnd => pass'.dead = {}
    <3>1. NoPass.dead = {} /\ "dead" \in DOMAIN NoPass
      BY DEF NoPass
    <3>2. ASSUME NEW S PROVE [NoPass EXCEPT !.todo = S].dead = {}
      BY <3>1
    <3>3. DupEnd => pass'.dead = {}
      BY <3>2 DEF DupEnd
    <3>4. ASSUME NEW a, NEW b, NEW c, NEW d, NEW e
          PROVE  [NoPass EXCEPT !.todo = a, !.others = b, !.inFlight = c,
                                !.source = d, !.parent = e].dead = {}
      BY <3>1
    <3>5. WaitEnd => pass'.dead = {}
      <4>1. ASSUME WaitEnd
            PROVE  \E a, b, c, d, e :
                     pass' = [NoPass EXCEPT !.todo = a, !.others = b, !.inFlight = c,
                                            !.source = d, !.parent = e]
        BY <4>1, Zenon DEF WaitEnd
      <4> QED
        BY <3>4, <4>1, ZenonT(30)
    <3>6. ProgressEnd => pass'.dead = {}
      BY <3>1 DEF ProgressEnd
    <3> QED
      BY <3>3, <3>5, <3>6
  <2>2. BatchParents => pass' = pass
    BY DEF BatchParents
  <2> QED
    BY <1>2, <2>1, <2>2
<1> QED
  BY <1>1, <1>2, <1>3, <1>4 DEF Minds

\* Who is admitted with a promise is put in the queue, or breaks it.
LEMMA AdmittedTends ==
  ASSUME Typed, Unhindered, NEW i \in Ids, pass.todo = {i}, Promising(born[i]), Admit,
         kept[born[i].name] = "reserved"
  PROVE  \/ kept'[born[i].name] # "reserved"
         \/ i \in queue' /\ i \notin pass'.dead /\ job'[i].fwd = 0 /\ job'[i].ready # "Probed"
<1>1. /\ Keeps(born[i]) /\ Type(i) \in KeepTypes /\ job \in [Ids -> Job]
  BY DEF Promising, Type, Typed, TypeOK
<1>2. AdmitDownload(i)
  <2>1. \/ AdmitForwarded(i) \/ AdmitKilled(i) \/ AdmitDownload(i) \/ AdmitProbe(i)
        \/ AdmitStudio(i) \/ AdmitKeycode(i)
    BY DEF Admit
  <2> QED
    BY <1>1, <2>1 DEF AdmitForwarded, IsForwardable, AdmitKilled, Unhindered, AdmitProbe,
       AdmitStudio, AdmitKeycode, KeepTypes
<1> DEFINE new == [NewJob EXCEPT !.worker = "dwl-pending"]
           j == Routed(i, new)
<1>3. Push(i, j, epoch, RoutedDisk(i))
  BY <1>2 DEF AdmitDownload
<1>4. j.fwd = 0 /\ j.ready # "Probed"
  <2>1. new \in Job /\ new.fwd = 0 /\ new.ready = "Queued"
    BY NewJobType DEF NewJob, Job, Workers
  <2> HIDE DEF new
  <2> QED
    BY <2>1 DEF Routed, Job
<1> HIDE DEF j
<1>5. CASE queue' = queue \cup {i} /\ job' = [job EXCEPT ![i] = j] /\ pass' = NoPass
  BY <1>1, <1>4, <1>5 DEF NoPass
<1>6. CASE kept' = FailKeeps({i})
  BY <1>6, TenderFails
<1> QED
  BY <1>3, <1>5, <1>6 DEF Push

\* Whoever tends a promise does so until it is kept, broken or forgotten.
LEMMA TenderStays ==
  ASSUME LentInv, Typed', Unhindered, PromiseInv, [Next]_vars,
         NEW i \in Ids, Tender(i), kept[born[i].name] = "reserved"
  PROVE  Minds(i)
<1>1. Typed /\ RowsInv /\ Named /\ Claims /\ Asked /\ KeptAway /\ ProbesOnly
  BY DEF LentInv, PromiseInv, Unhindered
<1>2. 1 \in Ids
  BY PnJobsAssumption DEF Ids
<1>3. CASE LoopStep
  BY <1>1, <1>2, <1>3, AdmitMinds, CancelMinds, MessageMinds, WalkMinds, WalkEndsMinds, GitMinds
     DEF LoopStep
<1>4. CASE ClientStep
  BY <1>1, <1>4, SubmitMinds, CancelMinds, GitMinds DEF ClientStep
<1>5. CASE ClockStep
  BY <1>1, <1>5, ClockMinds
<1>6. CASE WorkerStep \/ UNCHANGED vars
  <2>1. UNCHANGED <<queue, job, pass>>
    BY <1>6 DEF WorkerStep, vars, mainVars
  <2> QED
    BY <2>1 DEF Minds, Tender, Led
<1> QED
  BY <1>3, <1>4, <1>5, <1>6 DEF Next

\* A promise that stands after a step was made in it, or is tended as before it.
LEMMA NextTended ==
  ASSUME LentInv, LentInv', Unhindered, PromiseInv, [Next]_vars
  PROVE  Tended'
<1>1. /\ Typed /\ Typed' /\ RowsInv /\ Named /\ Tended /\ queue \subseteq Ids
      /\ born \in [Ids -> Birth] /\ pass.todo \subseteq Known
      /\ \A i \in queue : i # nextId
  BY PnJobsAssumption, SMTT(30) DEF LentInv, PromiseInv, Typed, TypeOK, LayersTypeOK, RowsInv, QueuedBefore, Ids
<1> SUFFICES ASSUME NEW n \in Names, kept'[n] = "reserved", pc' # "exited"
             PROVE  \E i \in Ids : Tends(i)' /\ born'[i].name = n
  BY DEF Tended
\* The tender of before tends still.
<1>2. ASSUME NEW i \in Ids, Tender(i), born[i].name = n, kept[n] = "reserved", born'[i] = born[i]
      PROVE  Tends(i)' /\ born'[i].name = n
  <2>1. Minds(i)
    BY <1>1, <1>2, TenderStays
  <2>2. i \in queue' /\ i \notin pass'.dead /\ Led(job'[i], job[i])
    BY <1>2, <2>1 DEF Minds
  <2> QED
    BY <1>2, <2>2 DEF Tends, Tender, Led
<1>3. ASSUME kept[n] = "reserved", pc \notin {"exited", "admit"},
             LoopStep \/ ClientStep \/ ClockStep
      PROVE  \E i \in Ids : Tends(i)' /\ born'[i].name = n
  <2>1. PICK i \in Ids : Tender(i) /\ born[i].name = n
    BY <1>1, <1>3 DEF Tended, Tends
  <2>2. born'[i] = born[i]
    BY <1>1, <1>3, <2>1, BornOnce DEF Tender
  <2> QED
    BY <1>2, <1>3, <2>1, <2>2
<1>4. ASSUME NEW k \in Names, Prepare(k)
      PROVE  \E i \in Ids : Tends(i)' /\ born'[i].name = n
  <2>1. CASE kept[n] = "reserved"
    <3>1. pc = "queue" /\ ClientStep
      BY <1>4 DEF Prepare, ClientStep, Submit
    <3> QED
      BY <1>3, <2>1, <3>1
  <2>2. CASE kept[n] # "reserved"
    <3>1. /\ nextId \in Ids /\ pc' = "admit" /\ pass'.todo = {nextId}
          /\ born'[nextId] = [name |-> k, parent |-> 0, idx |-> Submissions[k].idx]
      BY <1>1, <1>4 DEF Prepare, NoPass
    <3>2. k = n /\ Submissions[k].keep /\ Submissions[k].type \in KeepTypes
      <4>1. kept \in [Names -> Keyword]
        BY <1>1 DEF Typed, TypeOK
      <4>2. kept' = IF Submissions[k].keep /\ Submissions[k].type \in KeepTypes
                    THEN [kept EXCEPT ![k] = "reserved"] ELSE kept
        BY <1>4 DEF Prepare
      <4> QED
        BY <2>2, <4>1, <4>2
    <3>3. born'[nextId].name = n /\ Promising(born'[nextId])
      BY <3>1, <3>2, PnJobsAssumption DEF Promising, Keeps, TypeOf, ReqOf, Names
    <3> QED
      BY <3>1, <3>3 DEF Tends
  <2> QED
    BY <2>1, <2>2
<1>5. CASE ~\E k \in Names : Prepare(k)
  <2>1. kept[n] = "reserved"
    BY <1>1, <1>5, NoNewPromise
  <2>2. CASE WorkerStep \/ UNCHANGED vars
    <3>1. UNCHANGED <<pc, pass, queue, job, kept, born>>
      BY <1>1, <2>2, WorkersKeepTypes DEF WorkerStep, vars, mainVars, layerVars, Typed, TypeOK
    <3>2. PICK i \in Ids : Tends(i) /\ born[i].name = n
      BY <1>1, <2>1, <3>1 DEF Tended
    <3> QED
      BY <3>1, <3>2 DEF Tends, Tender
  <2>3. CASE LoopStep \/ ClientStep \/ ClockStep
    <3>1. pc # "exited" /\ (pc = "admit" => Admit)
      BY <2>3, AdmitsFirst
    <3>2. CASE pc # "admit"
      BY <1>3, <2>1, <2>3, <3>1, <3>2
    <3>3. CASE pc = "admit"
      <4>1. Admit /\ born' = born
        BY <3>1, <3>3 DEF Admit
      <4>2. PICK i \in Ids : Tends(i) /\ born[i].name = n
        BY <1>1, <2>1, <3>1 DEF Tended
      <4>3. CASE Tender(i)
        BY <1>2, <2>1, <4>1, <4>2, <4>3
      <4>4. CASE pass.todo = {i} /\ Promising(born[i])
        <5>1. i \in queue' /\ i \notin pass'.dead /\ job'[i].fwd = 0 /\ job'[i].ready # "Probed"
          BY <1>1, <2>1, <4>1, <4>2, <4>4, AdmittedTends
        <5> QED
          BY <4>1, <4>2, <4>4, <5>1 DEF Tends, Tender
      <4> QED
        BY <4>2, <4>3, <4>4 DEF Tends
    <3> QED
      BY <3>2, <3>3
  <2> QED
    BY <2>2, <2>3 DEF Next
<1> QED
  BY <1>4, <1>5

\* Every step leaves what the promises rest on.
LEMMA NextPromises ==
  ASSUME LentInv, LentInv', Unhindered, PromiseInv, [Next]_vars
  PROVE  PromiseInv'
<1>1. /\ Typed /\ RowsInv /\ PlacesInv /\ LayersTypeOK /\ Handed /\ Asked /\ Named /\ Claims
      /\ KeptAway
  BY DEF LentInv, PromiseInv, Typed, TypeOK
<1>2. Asked'
  <2>1. CASE LoopStep \/ ClientStep \/ ClockStep
    BY <1>1, <2>1, LoopAsks
  <2>2. CASE WorkerStep
    BY <1>1, <2>2, WorkersAsk DEF WorkerStep
  <2>3. CASE UNCHANGED vars
    BY <1>1, <2>3 DEF vars, layerVars, Asked, Apt, Type
  <2> QED
    BY <2>1, <2>2, <2>3 DEF Next
<1> QED
  BY <1>1, <1>2, NextHanded, NextNamed, NextClaims, NextAway, NextTended DEF PromiseInv

\* A keyword that is still promised has a job that will keep or break the promise,
\* whoever is cancelled and whatever fails, stalls or is rebooted: if sends succeed and
\* kept outputs can be stored, if requests name no probe but a probe, and if nobody
\* else asks for the output of an encode that is kept.
THEOREM PromisesAreKept ==
  ASSUME {"send", "store"} \cap Faults = {}, ProbesOnly, KeepersAlone
  PROVE  Spec => []PromisesHaveAJob
<1>1. Unhindered
  BY DEF Unhindered
<1>2. Init => PromiseInv
  <2> SUFFICES ASSUME Init PROVE PromiseInv
    OBVIOUS
  <2>1. /\ pc = "queue" /\ \A n \in Names : kept[n] = "none"
        /\ \A c \in Ids : born[c].parent = 0 /\ born[c].name = 0
    BY DEF Init, InitWith, LayersInit, Unborn
  <2>2. Asked
    BY DEF Init, InitWith, LayersInit, Asked
  <2> QED
    BY <2>1, <2>2 DEF PromiseInv, Handed, Named, Root, Claims, KeptAway, Promising, Tended
<1>3. LentInv /\ LentInv' /\ PromiseInv /\ [Next]_vars => PromiseInv'
  BY <1>1, NextPromises
<1>4. PromiseInv => PromisesHaveAJob
  <2> SUFFICES ASSUME PromiseInv, pc = "queue", NEW n \in Names, kept[n] = "reserved"
               PROVE  \E i \in queue : Keeps(born[i]) /\ born[i].name = n
    BY DEF PromisesHaveAJob
  <2> QED
    BY DEF PromiseInv, Tended, Tends, Tender, Promising
<1> QED
  BY <1>2, <1>3, <1>4, AlwaysLent, PTL DEF Spec
=============================================================================
