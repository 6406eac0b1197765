----------------------------- MODULE PnMessages ------------------------------
(*****************************************************************************)
(* The clocks the loop reads before it listens to the layers, and            *)
(* do_worker_message_things: at most one message a turn.  Clocks are         *)
(* abstract: a probe may expire, the encoder may be found silent and a       *)
(* dispatched encode may be found stalled whenever the loop looks.           *)
(*****************************************************************************)
EXTENDS PnRequests

-----------------------------------------------------------------------------
(* do_probe_timeout_things and do_encode_stall_things                       *)

\* Mutant: the row of an expired probe stays open.
ProbeTimeoutOpen(i) ==
  /\ pc = "message" /\ i \in queue /\ job[i].ready = "Probed"
  /\ queue' = queue \ {i} /\ job' = Without(job, {i})
  /\ disk' = Cleaned(disk, {i})
  /\ UNCHANGED <<pc, pass, db, kept, seenEpoch, sinceBatch, gitquery, backlog, nextId, cancels,
                 reboots, born, poolVars, encVars, ret>>
ProbeTimeout(i) ==
  /\ pc = "message" /\ i \in queue /\ job[i].ready = "Probed"
  /\ queue' = queue \ {i} /\ job' = Without(job, {i})
  /\ db' = Rows({}, "Probed", {i})
  /\ disk' = Cleaned(disk, {i})
  /\ UNCHANGED <<pc, pass, kept, seenEpoch, sinceBatch, gitquery, backlog, nextId, cancels,
                 reboots, born, poolVars, encVars, ret>>

\* encode_stalled, but for the clock
Stallable(i) ==
  /\ i \in queue
  /\ job[i].fwd = 0 /\ Type(i) \in EncodeTypes
  /\ job[i].dispatched /\ job[i].ready \in {"Downloaded", "Encoding"}

\* No message about i will come: a reboot has dropped it
Abandoned(i) ==
  /\ cur # i /\ \A k \in DOMAIN inbox : inbox[k] # i
  /\ \A k \in DOMAIN ret["Encode"] : ret["Encode"][k].id # i

\* The layer is rebooted first, then every stalled job fails with its followers
EncodeStall(S) ==
  LET gone == S \cup ForwardedTo(S)
      told == BatchTold(job, S, "Failed") IN
  /\ pc = "message" /\ S # {} /\ \A i \in S : Stallable(i)
  /\ IF \A i \in S : Abandoned(i) THEN UNCHANGED reboots
     ELSE reboots < MaxReboots /\ reboots' = reboots + 1
  /\ EncodeReboot(<<>>)
  /\ queue' = queue \ gone
  /\ job' = Checked(Without(told, gone), epoch + 1) /\ seenEpoch' = epoch + 1
  /\ db' = Rows(gone, "Failed", gone)
  /\ kept' = FailKeeps(S)
  /\ disk' = Cleaned(disk, gone)
  /\ UNCHANGED <<pc, pass, sinceBatch, gitquery, backlog, nextId, cancels, born, poolVars>>

-----------------------------------------------------------------------------
(* do_worker_message_things: at most one message a turn                     *)

Received(l) == ret' = [ret EXCEPT ![l] = Tail(@)]

\* The walks follow; the set of a walk is taken when it starts
StartDup(jobs, Q) ==
  /\ pc' = "dup"
  /\ pass' = [NoPass EXCEPT !.todo =
       {i \in Q : jobs[i].fwd = 0 /\ jobs[i].dup # 0 /\ jobs[i].ready = "Downloading"}]

NoMessage ==
  /\ pc = "message"
  /\ \A l \in Layers : ret[l] = <<>>
  /\ StartDup(job, queue)
  /\ UNCHANGED <<queue, job, db, kept, seenEpoch, sinceBatch, gitquery, backlog, nextId,
                 cancels, reboots, layerVars>>

\* receive() finds the encoder silent while it polls; checked after the walks
ReceiveReboot ==
  /\ pc = "message" /\ cur # 0 /\ reboots < MaxReboots
  /\ \A l \in Layers : ret[l] = <<>>
  /\ reboots' = reboots + 1
  /\ EncodeReboot(<<>>)
  /\ UNCHANGED <<pc, pass, queue, job, db, kept, seenEpoch, sinceBatch, gitquery, backlog,
                 nextId, cancels, born, disk, poolVars>>

\* A message about a job that has left the queue is dropped
HandleStale(m) ==
  /\ m.id \notin queue
  /\ StartDup(job, queue)
  /\ UNCHANGED <<queue, job, db, kept, seenEpoch, nextId, born, disk>>

\* WORKER_ASSIGN carries the slot's name; followers get the forwarded label
SlotOf(l) == CASE l = "Download" -> "dwl-slot" [] l = "Upload" -> "upl-slot"
               [] OTHER -> "prw-slot"
HandleAssign(l, m) ==
  /\ m.id \in queue /\ m.kind = "assign"
  /\ BackToTop([c \in Ids |-> IF c = m.id THEN [job[c] EXCEPT !.worker = SlotOf(l)]
                              ELSE IF c \in ForwardedTo({m.id})
                                   THEN [job[c] EXCEPT !.worker = ForwardedWorker(SlotOf(l))]
                                   ELSE job[c]])
  /\ UNCHANGED <<queue, db, kept, nextId, born, disk>>

\* spawn_batch_child.  Building the child or its row may fail, which counts
\* the entry as failed and leaves it without a job.
HandleFileDone(m) ==
  LET p == m.id
      f == m.file
      spawns == Batch(p) /\ job[p].kid[f] = 0 IN
  /\ p \in queue /\ m.kind = "filedone"
  /\ \/ /\ ~spawns
        /\ BackToTop(job)
        /\ UNCHANGED <<queue, db, nextId, born, disk>>
     \/ /\ spawns /\ nextId \in Ids
        /\ born' = [born EXCEPT ![nextId] = [name |-> born[p].name, parent |-> p, idx |-> f]]
        /\ disk' = [disk EXCEPT !.input = @ \cup {nextId}]
        /\ queue' = queue \cup {nextId}
        /\ BackToTop([job EXCEPT ![p].kid[f] = nextId,
                                 ![nextId] = [NewJob EXCEPT !.ready = "Downloaded",
                                                            !.worker = "enc-pending"]])
        /\ db' = Inserted(nextId, "Downloaded")
        /\ nextId' = nextId + 1
     \/ /\ spawns /\ "child" \in Faults
        /\ BackToTop([job EXCEPT ![p].failed = @ + 1])
        /\ UNCHANGED <<queue, db, nextId, born, disk>>
  /\ UNCHANGED kept

HandleDuplicate(m) ==
  /\ m.id \in queue /\ m.kind = "duplicate"
  /\ BackToTop([job EXCEPT ![m.id].dup = m.owner])
  /\ UNCHANGED <<queue, db, kept, nextId, born, disk>>

\* What a stage does to the job itself
Staged(j, s) ==
  IF s = "Encoding" THEN [j EXCEPT !.ready = s]
  ELSE [j EXCEPT !.ready = s, !.dispatched = FALSE]

CachesAt(i, s) ==
  \/ s = "Encoded"
  \/ s = "Downloaded" /\ Type(i) = "Preview"
  \/ s = "Cancelled" /\ job[i].ready \in PastDownloaded

\* probe_job_id: a finished job takes the probe it came from with it
ProbeLeft(i, s) ==
  IF s \in Finished /\ born[i].parent = 0 /\ ReqOf(born[i]).probe # 0
  THEN ProbeOf(born[i].name) ELSE {}

HandleStage(m) ==
  LET i == m.id
      s == m.stage
      followers == ForwardedTo({i})
      ended == IF s \in Terminal THEN {i} \cup followers ELSE {}
      gone == ended \cup ProbeLeft(i, s)
      told == BatchTold([job EXCEPT ![i] = Staged(@, s)], {i}, s) IN
  /\ i \in queue /\ m.kind = "stage"
  /\ queue' = queue \ gone
  /\ job' = Without(Synced(told, i, s, job[i].worker), gone)
  /\ db' = Rows({i} \cup followers, s, gone)
  /\ kept' = IF s \in {"Failed", "Cancelled"} THEN FailKeeps({i}) ELSE kept
  /\ disk' = Cleaned(IF CachesAt(i, s) THEN CachedInput(disk, i) ELSE disk, gone)
  /\ StartDup(job', queue')
  /\ UNCHANGED <<seenEpoch, nextId, born>>

Receive ==
  /\ pc = "message"
  /\ \E l \in Layers :
       /\ ret[l] # <<>>
       /\ Received(l)
       /\ LET m == Head(ret[l]) IN
            \/ HandleStale(m) \/ HandleAssign(l, m) \/ HandleFileDone(m)
            \/ HandleDuplicate(m) \/ HandleStage(m)
  /\ UNCHANGED <<sinceBatch, gitquery, backlog, cancels, reboots, poolVars, encVars>>
==============================================================================
