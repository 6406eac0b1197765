----------------------------- MODULE PnRequests ------------------------------
(*****************************************************************************)
(* do_queue_things: one request from a client, and what comes up at the top  *)
(* of a turn.  A new job is prepared in one step and routed and pushed in    *)
(* the next; the layers run in between.                                      *)
(*****************************************************************************)
EXTENDS PnQueue

Children == {i \in queue : born[i].parent # 0}
\* Mutant: only the encoder's own stage counts.
EncodesRunning == \E i \in queue : job[i].ready = "Encoding"
EncodesActive == \E i \in queue : Type(i) \in EncodeTypes

\* The end of a turn that goes back to the top of the loop at once
BackToTop(jobs) ==
  /\ pc' = "queue" /\ pass' = NoPass
  /\ job' = Checked(jobs, epoch) /\ seenEpoch' = epoch

\* Declined before anything is written
Refused(n) ==
  \/ gitquery /\ Submissions[n].type \in EncodeTypes
  \/ Cardinality(queue \ Children) > QueueLimit

Refuse(n) ==
  /\ pc = "queue" /\ n \in backlog
  /\ Refused(n)
  /\ backlog' = backlog \ {n}
  /\ BackToTop(job)
  /\ UNCHANGED <<queue, db, kept, sinceBatch, gitquery, nextId, cancels, reboots, layerVars>>

\* The probe whose fetch.torrent a job adopts
ProbeOf(n) == {p \in queue : born[p].parent = 0 /\ born[p].name = Submissions[n].probe}
Adoptable(n) == Submissions[n].probe # 0 /\ ProbeOf(n) \cap disk.fetch # {}

\* A backup built from a probe cannot fall back to the link
SetupMayFail(n) ==
  \/ "setup" \in Faults
  \/ Submissions[n].type = "Backup" /\ Submissions[n].probe # 0 /\ ~Adoptable(n)

\* prepare_keep_job cannot reserve the keyword, or decline_job_setup after it has
DeclineSetup(n) ==
  /\ pc = "queue" /\ n \in backlog
  /\ ~Refused(n) /\ SetupMayFail(n)
  /\ backlog' = backlog \ {n}
  /\ \/ UNCHANGED kept
     \/ /\ Submissions[n].keep /\ Submissions[n].type \in KeepTypes
        /\ kept' = [kept EXCEPT ![n] = "failed"]
  /\ BackToTop(job)
  /\ UNCHANGED <<queue, db, sinceBatch, gitquery, nextId, cancels, reboots, layerVars>>

\* queue_new_job up to the routing: keyword, work directory, adopted torrent
Prepare(n) ==
  /\ pc = "queue" /\ n \in backlog /\ nextId \in Ids
  /\ ~Refused(n)
  /\ Submissions[n].type = "Backup" /\ Submissions[n].probe # 0 => Adoptable(n)
  /\ backlog' = backlog \ {n}
  /\ born' = [born EXCEPT ![nextId] = [name |-> n, parent |-> 0, idx |-> Submissions[n].idx]]
  /\ kept' = IF Submissions[n].keep /\ Submissions[n].type \in KeepTypes
             THEN [kept EXCEPT ![n] = "reserved"] ELSE kept
  /\ disk' = IF Adoptable(n) THEN [disk EXCEPT !.fetch = @ \cup {nextId}] ELSE disk
  /\ nextId' = nextId + 1
  /\ pc' = "admit" /\ pass' = [NoPass EXCEPT !.todo = {nextId}]
  /\ UNCHANGED <<queue, job, db, seenEpoch, sinceBatch, gitquery, cancels, reboots,
                 poolVars, encVars, ret>>

\* queued_encode_parent
QueuedParents(i) ==
  {p \in queue : /\ job[p].fwd = 0 /\ IsForwardable(born[p])
                 /\ job[p].ready \notin Terminal
                 /\ ForwardKeys(p) \cap ForwardKeys(i) # {}}

\* mark_forwarded
Forwarded(j, p) ==
  [j EXCEPT !.fwd = p, !.dup = 0, !.ready = job[p].ready,
            !.worker = ForwardedWorker(job[p].worker)]

\* An encode like one in the queue follows it: pushed at once, back to the top, and
\* even when its row is refused
AdmitForwarded(i) ==
  /\ IsForwardable(born[i]) /\ QueuedParents(i) # {}
  /\ LET j == Forwarded(NewJob, First(QueuedParents(i))) IN
       /\ BackToTop([job EXCEPT ![i] = j])
       /\ db' = Inserted(i, j.ready) \/ ("insert" \in Faults /\ UNCHANGED db)
  /\ queue' = queue \cup {i}
  /\ UNCHANGED <<disk, poolVars, encVars, ret, reboots>>

\* insert_job and queue.push, or the decline of a job whose row was refused:
\* its directory goes, what was dispatched for it stays with the layer.
Push(i, j, newEpoch, d) ==
  \/ /\ queue' = queue \cup {i}
     /\ job' = [job EXCEPT ![i] = j]
     /\ db' = Inserted(i, j.ready)
     /\ disk' = d
     /\ pc' = "message" /\ pass' = NoPass
     /\ UNCHANGED <<seenEpoch, kept>>
  \/ /\ "insert" \in Faults
     /\ disk' = Cleaned(d, {i})
     /\ pc' = "queue" /\ pass' = NoPass
     /\ job' = Checked(job, newEpoch) /\ seenEpoch' = newEpoch
     /\ kept' = FailKeeps({i})
     /\ UNCHANGED <<queue, db>>

AdmitDownload(i) ==
  /\ Type(i) \in DownloadTypes
  /\ ~(IsForwardable(born[i]) /\ QueuedParents(i) # {})
  /\ RouteSend(i)
  /\ Push(i, Routed(i, [NewJob EXCEPT !.worker = "dwl-pending"]), epoch, RoutedDisk(i))
  /\ UNCHANGED <<run, delivered, encVars, ret, reboots>>

\* queue_probe_job, queue_studio_preview_job
AdmitProbe(i) ==
  /\ Type(i) \in {"Probe", "StudioPreview"}
  /\ PoolSend("Probe", i)
  /\ Push(i, [NewJob EXCEPT !.worker = "prw-pending",
                            !.ready = IF Type(i) = "Probe" THEN "Probing" ELSE "Encoding"],
          epoch, disk)
  /\ UNCHANGED <<run, delivered, encVars, ret, reboots>>

\* queue_studio_job: encode_dispatched without mark_encode_dispatched
AdmitStudio(i) ==
  /\ Type(i) = "Studio"
  /\ EncodeSend(i)
  /\ Push(i, [NewJob EXCEPT !.worker = "enc-main", !.ready = "Encoding", !.dispatched = TRUE],
          epoch', disk)
  /\ UNCHANGED poolVars

\* queue_keycode_job
AdmitKeycode(i) ==
  /\ Type(i) = "Keycode" /\ ReqOf(born[i]).needs # {}
  /\ Push(i, [NewJob EXCEPT !.worker = "key-wait"], epoch, disk)
  /\ UNCHANGED <<poolVars, encVars, ret, reboots>>

\* dispatch_or_kill fails: a Failed, archived row for a job never queued
AdmitKilled(i) ==
  /\ "send" \in Faults
  /\ Type(i) # "Keycode" /\ (Type(i) \in DownloadTypes => RouteOf(i) = "download")
  /\ ~(IsForwardable(born[i]) /\ QueuedParents(i) # {})
  /\ db' = IF Type(i) \in {"Studio", "StudioPreview"} THEN db
           ELSE [db EXCEPT ![i] = [stage |-> "Failed", archived |-> TRUE, known |-> TRUE]]
  /\ disk' = Cleaned(disk, {i})
  /\ BackToTop(job)
  /\ UNCHANGED <<queue, poolVars, encVars, ret, reboots>>

Admit ==
  /\ pc = "admit"
  /\ \E i \in pass.todo :
       \/ /\ AdmitForwarded(i) \/ AdmitKilled(i)
          /\ UNCHANGED kept
       \/ AdmitDownload(i) \/ AdmitProbe(i) \/ AdmitStudio(i) \/ AdmitKeycode(i)
  /\ UNCHANGED <<born, sinceBatch, gitquery, backlog, nextId, cancels>>

\* nothing in the channel
NoRequest ==
  /\ pc = "queue"
  /\ pc' = "message"
  /\ UNCHANGED <<pass, queue, job, db, kept, seenEpoch, sinceBatch, gitquery, backlog,
                 nextId, cancels, reboots, layerVars>>

\* Mutant: the followers of a cancelled job stay.
FinalizeCancelledAlone(i, d) ==
  /\ queue' = queue \ {i} /\ job' = Without(job, {i})
  /\ db' = Rows({i}, "Cancelled", {i}) /\ kept' = FailKeeps({i})
  /\ disk' = Cleaned(IF job[i].ready \in PastDownloaded THEN CachedInput(d, i) ELSE d, {i})

\* finalize_cancelled_job: the job and the jobs forwarded to it end together
FinalizeCancelled(i, d) ==
  LET gone == {i} \cup ForwardedTo({i}) IN
  /\ queue' = queue \ gone
  /\ job' = Without(job, gone)
  /\ db' = Rows(gone, "Cancelled", gone)
  /\ kept' = FailKeeps({i})
  /\ disk' = Cleaned(IF job[i].ready \in PastDownloaded THEN CachedInput(d, i) ELSE d, gone)

\* handle_half_job, Cancel: a batch marks the directories of its live children
Cancel(i) ==
  /\ pc = "queue" /\ i \in queue /\ cancels < MaxCancels
  /\ cancels' = cancels + 1
  /\ LET marked == {i} \cup {c \in queue : Batch(i) /\ born[c].parent = i}
         d == [disk EXCEPT !.marker = @ \cup marked] IN
       IF CancelledAtOnce(job[i]) THEN FinalizeCancelled(i, d)
       ELSE disk' = d /\ UNCHANGED <<queue, job, db, kept>>
  /\ pc' = "message"
  /\ UNCHANGED <<pass, seenEpoch, sinceBatch, gitquery, backlog, nextId, reboots,
                 born, poolVars, encVars, ret>>

\* run_gitsync: every layer is aborted, DB/work is removed, the process exits
GitSync ==
  /\ pc' = "exited" /\ pass' = NoPass
  /\ queue' = {} /\ job' = Without(job, queue)
  /\ disk' = Cleaned(disk, Ids)
  /\ pend' = [p \in Pools |-> <<>>]
  /\ run' = [p \in Pools |-> [i \in Ids |-> "idle"]]
  /\ delivered' = [i \in Ids |-> {}]
  /\ inbox' = <<>> /\ cur' = 0
  /\ ret' = [l \in Layers |-> <<>>]
  /\ UNCHANGED <<born, epoch, db, kept, seenEpoch, sinceBatch, gitquery, backlog,
                 nextId, cancels, reboots>>

\* GitQuery arms the query, or syncs at once; a second one changes nothing
GitQuery ==
  /\ pc = "queue" /\ GitQueries /\ ~gitquery
  /\ \/ /\ EncodesActive
        /\ gitquery' = TRUE /\ pc' = "message"
        /\ UNCHANGED <<pass, queue, job, db, kept, seenEpoch, sinceBatch, backlog, nextId,
                       cancels, reboots, layerVars>>
     \/ ~EncodesActive /\ GitSync

\* drain_heartbeats finds the encoder silent; the epoch is checked right after
DrainReboot ==
  /\ pc = "queue" /\ cur # 0 /\ reboots < MaxReboots
  /\ reboots' = reboots + 1
  /\ EncodeReboot(<<>>)
  /\ job' = Checked(job, epoch + 1) /\ seenEpoch' = epoch + 1
  /\ UNCHANGED <<pc, pass, queue, db, kept, sinceBatch, gitquery, backlog, nextId,
                 cancels, born, disk, poolVars>>

\* cleanup_expired_input_cache drops a key's directory after its time to live
ExpireCache ==
  /\ pc = "queue"
  /\ \E k \in disk.cache : disk' = [disk EXCEPT !.cache = @ \ {k}]
  /\ UNCHANGED <<mainVars, born, poolVars, encVars, ret>>

\* cleanup_expired_keeps: a keyword is forgotten after its time to live,
\* whether its output is there or not
ExpireKeep ==
  /\ pc = "queue"
  /\ \E n \in Names : kept[n] # "none" /\ kept' = [kept EXCEPT ![n] = "none"]
  /\ UNCHANGED <<pc, pass, queue, job, db, seenEpoch, sinceBatch, gitquery, backlog, nextId,
                 cancels, reboots, layerVars>>
==============================================================================
