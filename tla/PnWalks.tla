------------------------------- MODULE PnWalks -------------------------------
(*****************************************************************************)
(* The four walks over the queue that end a turn: jobs that wait for another *)
(* job's input, jobs queued for a download, jobs ready for their next stage, *)
(* and batch parents.  A walk is one step per job, as in the code, and the   *)
(* layers run between any two steps.                                         *)
(*****************************************************************************)
EXTENDS PnMessages

-----------------------------------------------------------------------------
(* Walks: one job of `todo` per step, in queue order                        *)

At(place, i) == pc = place /\ i \in pass.todo /\ \A k \in pass.todo : i <= k
Past(i) == [pass EXCEPT !.todo = @ \ {i}]
Skip(i) == /\ pass' = Past(i)
           /\ UNCHANGED <<pc, queue, job, db, kept, seenEpoch, sinceBatch, gitquery,
                          backlog, nextId, cancels, reboots, layerVars>>

-----------------------------------------------------------------------------
(* do_duplicate_waiting_things                                              *)

\* duplicate_source_ready: the file is there and its owner is done reading
SourceReady(o) ==
  /\ o \in disk.input
  /\ o \in queue => job[o].ready \in {"Encoded", "Uploading", "Uploaded", "Failed", "Cancelled"}
SourceOrphaned(o) == o \notin queue /\ o \notin disk.input

\* The owner turned out to read another file of the torrent
OtherInput(i, o) ==
  o \in queue /\ o # i /\ InputKeys(o) \cap InputKeys(i) = {}

Requeues(i) ==
  LET o == job[i].dup IN
  IF OtherInput(i, o) THEN job[o].ready # "Downloading"
  ELSE ~SourceReady(o) /\ SourceOrphaned(o)

\* requeue_duplicate_waiter
Requeued(j) == [j EXCEPT !.dup = 0, !.ready = "Queued", !.worker = "dwl-pending"]

DupStep(i) ==
  /\ At("dup", i)
  /\ LET o == job[i].dup
         gets(j) == /\ job' = [job EXCEPT ![i] = j]
                    /\ db' = Rows({i}, "Downloaded", {})
                    /\ disk' = [disk EXCEPT !.input = @ \cup {i}] IN
     CASE CacheHit(i) -> gets([job[i] EXCEPT !.ready = "Downloaded", !.worker = "dwl-cache"])
       [] ~CacheHit(i) /\ Requeues(i) ->
            /\ job' = [job EXCEPT ![i] = Requeued(@)]
            /\ db' = Rows({i}, "Queued", {})
            /\ UNCHANGED disk
       [] ~CacheHit(i) /\ ~OtherInput(i, o) /\ SourceReady(o) ->
            gets([job[i] EXCEPT !.ready = "Downloaded", !.dup = 0])
       [] OTHER -> UNCHANGED <<job, db, disk>>
  /\ pass' = Past(i)
  /\ UNCHANGED <<pc, queue, kept, seenEpoch, sinceBatch, gitquery, backlog, nextId,
                 cancels, reboots, born, poolVars, encVars, ret>>

DupEnd ==
  /\ pc = "dup" /\ pass.todo = {}
  /\ pc' = "wait"
  /\ pass' = [NoPass EXCEPT !.todo =
       {i \in queue : /\ job[i].fwd = 0 /\ job[i].ready = "Queued"
                      /\ job[i].worker = "dwl-pending" /\ Type(i) \in RequeueTypes}]
  /\ UNCHANGED <<queue, job, db, kept, seenEpoch, sinceBatch, gitquery, backlog, nextId,
                 cancels, reboots, layerVars>>

-----------------------------------------------------------------------------
(* do_queued_download_waiting_things                                        *)

\* Mutant: the job whose row was closed stays in the queue.
KilledStays(i) ==
  /\ db' = Rows({i}, "Failed", {i})
  /\ disk' = Cleaned(disk, {i})
  /\ pass' = Past(i)
\* dispatch_or_kill fails for a job of the queue: the row is closed and the
\* directory removed at once, the job leaves when the walk ends
Killed(i) ==
  /\ db' = Rows({i}, "Failed", {i})
  /\ disk' = Cleaned(disk, {i})
  /\ pass' = [Past(i) EXCEPT !.dead = @ \cup {i}]

WaitStep(i) ==
  /\ At("wait", i)
  /\ IF ActiveDownloads(i) # {}
     THEN pass' = Past(i) /\ UNCHANGED <<job, db, disk, pend>>
     ELSE \/ /\ RouteSend(i)
             /\ job' = [job EXCEPT ![i] = Routed(i, @)]
             /\ disk' = RoutedDisk(i)
             /\ pass' = Past(i)
             /\ UNCHANGED db
          \/ /\ "send" \in Faults /\ RouteOf(i) = "download"
             /\ Killed(i)
             /\ UNCHANGED <<job, pend>>
  /\ UNCHANGED <<pc, queue, kept, seenEpoch, sinceBatch, gitquery, backlog, nextId,
                 cancels, reboots, born, run, delivered, encVars, ret>>

\* Locals of do_job_progression_things, over the queue Q and records jobs
OrdinaryWaiting(Q, jobs) ==
  \E i \in Q : /\ born[i].parent = 0 /\ ~Batch(i) /\ jobs[i].fwd = 0
               /\ Type(i) \in EncodeTypes /\ ~jobs[i].dispatched
               /\ \/ jobs[i].ready = "Downloaded"
                  \/ Type(i) = "Keycode" /\ jobs[i].ready = "Queued"
ChildInFlight(Q, jobs) ==
  \E i \in Q : /\ born[i].parent # 0 /\ jobs[i].dispatched
               /\ jobs[i].ready \in {"Downloaded", "Encoding"}

\* active_encode_sources and active_encode_parents: the first job with a key
KeyClaims(S)    == UNION {InputKeys(i) \X {i} : i \in S}
OutputClaims(S) == UNION {ForwardKeys(i) \X {i} : i \in S}
FirstClaims(claims) == {c \in claims : \A d \in claims : d[1] = c[1] => c[2] <= d[2]}
ActiveSources(Q, jobs) ==
  {i \in Q : /\ jobs[i].fwd = 0 /\ Type(i) # "Preview"
             /\ \/ jobs[i].ready = "Encoding"
                \/ jobs[i].ready = "Downloaded" /\ jobs[i].dispatched}
ActiveParents(Q, jobs) ==
  {i \in Q : /\ jobs[i].fwd = 0 /\ IsForwardable(born[i])
             /\ \/ jobs[i].ready \in {"Queued", "Downloading", "Encoding", "Encoded", "Uploading"}
                \/ jobs[i].ready = "Downloaded" /\ jobs[i].dispatched}

WaitEnd ==
  /\ pc = "wait" /\ pass.todo = {}
  /\ queue' = queue \ pass.dead
  /\ job' = Checked(Without(job, pass.dead), epoch) /\ seenEpoch' = epoch
  /\ pc' = "progress"
  /\ LET Q == queue \ pass.dead
         jobs == Checked(Without(job, pass.dead), epoch) IN
     pass' = [NoPass EXCEPT !.todo = Q,
                !.others = OrdinaryWaiting(Q, jobs), !.inFlight = ChildInFlight(Q, jobs),
                !.source = FirstClaims(KeyClaims(ActiveSources(Q, jobs))),
                !.parent = FirstClaims(OutputClaims(ActiveParents(Q, jobs)))]
  /\ UNCHANGED <<db, kept, sinceBatch, gitquery, backlog, nextId, cancels, reboots, layerVars>>

-----------------------------------------------------------------------------
(* do_job_progression_things                                                *)

Steady == <<pc, queue, seenEpoch, gitquery, backlog, nextId, cancels, born>>

InEncodeBranch(i) ==
  job[i].ready = "Downloaded" /\ Type(i) \notin {"Subs", "Preview", "Backup", "BackupAll"}
ToProbeLayer(i) == job[i].ready = "Downloaded" /\ Type(i) \in {"Subs", "Preview"}
ToUpload(i) ==
  \/ job[i].ready = "Downloaded" /\ Type(i) = "BackupAll"
  \/ job[i].ready = "Downloaded" /\ Type(i) = "Backup" /\ ~Keeps(born[i])
  \/ job[i].ready = "Encoded" /\ ~Keeps(born[i])
KeepDone(i) ==
  Keeps(born[i]) /\ (job[i].ready = "Encoded" \/ (job[i].ready = "Downloaded" /\ Type(i) = "Backup"))
KeycodeWaits(i) == Type(i) = "Keycode" /\ job[i].ready = "Queued" /\ ~job[i].dispatched

Progressing(i) == At("progress", i) /\ job[i].fwd = 0 /\ ~Batch(i)

\* Nothing to do for this job in this turn
ProgressSkip(i) ==
  /\ At("progress", i)
  /\ \/ job[i].fwd # 0 \/ Batch(i)
     \/ ~(InEncodeBranch(i) \/ ToProbeLayer(i) \/ ToUpload(i) \/ KeepDone(i) \/ KeycodeWaits(i))
     \/ InEncodeBranch(i) /\ (job[i].dispatched \/ i \in disk.marker)
  /\ Skip(i)

\* Mutant: only unknown keywords are an error.
LostUnknown(i) == \E n \in ReqOf(born[i]).needs : kept[n] = "none"
\* resolve_keywords_for_keycode: any unknown or failed keyword is an error, and so are
\* keywords of encodes and of backups in one keycode
OfBackup(n) == Submissions[n].type = "Backup"
Lost(i) ==
  LET needs == ReqOf(born[i]).needs IN
  \/ \E n \in needs : kept[n] \in {"none", "failed"}
  \/ \E n, k \in needs : OfBackup(n) # OfBackup(k)
AllKept(i) == \A n \in ReqOf(born[i]).needs : kept[n] = "ready"

KeycodeWait(i) ==
  /\ Progressing(i) /\ KeycodeWaits(i) /\ ~Lost(i) /\ ~AllKept(i)
  /\ job' = [job EXCEPT ![i].worker = "key-wait"]
  /\ pass' = Past(i)
  /\ UNCHANGED <<Steady, db, kept, sinceBatch, reboots, disk, poolVars, encVars, ret>>

\* fail_keycode: also when what was kept are backups and the request brought no
\* subtitle, which the model leaves open; or the send failed, and the stage stays.
KeycodeFail(i) ==
  /\ Progressing(i) /\ KeycodeWaits(i)
  /\ Killed(i)
  /\ \/ /\ Lost(i) \/ (AllKept(i) /\ \E n \in ReqOf(born[i]).needs : OfBackup(n))
        /\ job' = [job EXCEPT ![i].ready = "Failed", ![i].worker = "key-fail"]
     \/ /\ ~Lost(i) /\ AllKept(i) /\ "send" \in Faults
        /\ job' = [job EXCEPT ![i].worker = "enc-main"]
  /\ UNCHANGED <<Steady, kept, sinceBatch, reboots, poolVars, encVars, ret>>

\* The stage stays Queued until the encoder announces Encoding
KeycodeDispatch(i) ==
  /\ Progressing(i) /\ KeycodeWaits(i) /\ ~Lost(i) /\ AllKept(i)
  /\ EncodeSend(i)
  /\ job' = [job EXCEPT ![i] = Dispatched([@ EXCEPT !.worker = "enc-main"], epoch')]
  /\ pass' = Past(i)
  /\ UNCHANGED <<Steady, db, kept, sinceBatch, disk, poolVars>>

PoolDispatch(i, p, stage, worker) ==
  /\ PoolSend(p, i)
  /\ job' = [job EXCEPT ![i].ready = stage, ![i].worker = worker]
  /\ db' = Rows({i}, stage, {})

DispatchProbeLayer(i) ==
  /\ Progressing(i) /\ ToProbeLayer(i)
  /\ PoolDispatch(i, "Probe", "Encoding", "prw-pending")
  /\ pass' = Past(i)
  /\ UNCHANGED <<Steady, kept, sinceBatch, reboots, disk, run, delivered, encVars, ret>>

\* A plain backup moves its input to work/ first
DispatchUpload(i) ==
  /\ Progressing(i) /\ ToUpload(i)
  /\ PoolDispatch(i, "Upload", "Uploading", "upl-pending")
  /\ disk' = IF Type(i) = "Backup" THEN [disk EXCEPT !.input = @ \ {i}] ELSE disk
  /\ pass' = [Past(i) EXCEPT !.uploads = IF job[i].ready = "Encoded" THEN @ \cup {i} ELSE @]
  /\ UNCHANGED <<Steady, kept, sinceBatch, reboots, run, delivered, encVars, ret>>

\* finish_keep_job; when the output cannot be stored the row stays open, the
\* directory stays, and the keyword stays reserved
FinishKeep(i) ==
  /\ Progressing(i) /\ KeepDone(i)
  /\ pass' = [Past(i) EXCEPT !.dead = @ \cup {i}]
  /\ \/ /\ kept' = [kept EXCEPT ![born[i].name] = "ready"]
        /\ job' = [job EXCEPT ![i].ready = "Uploaded", ![i].worker = "keep-done"]
        /\ db' = Rows({i}, "Uploaded", {i})
        /\ disk' = Cleaned(disk, {i})
     \/ /\ "store" \in Faults
        /\ job' = [job EXCEPT ![i].ready = "Failed"]
        /\ db' = Rows({i}, "Failed", {})
        /\ UNCHANGED <<kept, disk>>
  /\ UNCHANGED <<Steady, sinceBatch, reboots, poolVars, encVars, ret>>

-----------------------------------------------------------------------------
(* The encode branch: follow an active encode of the same output, wait for  *)
(* an active encode of the same input, hold a batch child back, or dispatch *)

Encodable(i) ==
  /\ Progressing(i) /\ InEncodeBranch(i)
  /\ ~job[i].dispatched /\ i \notin disk.marker

Claimants(claims, keys) == {c[2] : c \in {c \in claims : c[1] \in keys}}
ByLink(i, keys) == {k \in keys : k[1] = Link(i)}

\* encode_forward_keys lists the link before the hash, input_cache_keys after it
Preferred(first, second) ==
  IF first # {} THEN First(first) ELSE IF second # {} THEN First(second) ELSE 0
ForwardTarget(i) ==
  Preferred(Claimants(pass.parent, ByLink(i, ForwardKeys(i))),
            Claimants(pass.parent, ForwardKeys(i)))
SourceTarget(i) ==
  Preferred(Claimants(pass.source, InputKeys(i) \ ByLink(i, InputKeys(i))),
            Claimants(pass.source, InputKeys(i)))

\* Whether this job is forwardable itself is not asked again here.  The stage
\* is the parent's now; the code's snapshot is brought level by the sync that
\* ends the walk.
EncodeForward(i) ==
  /\ Encodable(i)
  /\ ForwardTarget(i) \notin {0, i}
  /\ job' = [job EXCEPT ![i] = Forwarded(@, ForwardTarget(i))]
  /\ db' = Rows({i}, job[ForwardTarget(i)].ready, {})
  /\ pass' = Past(i)
  /\ UNCHANGED <<Steady, kept, sinceBatch, reboots, disk, poolVars, encVars, ret>>

EncodeWaitsForInput(i) ==
  /\ Encodable(i)
  /\ ForwardTarget(i) \in {0, i} /\ SourceTarget(i) # 0
  /\ job' = [job EXCEPT ![i].dup = SourceTarget(i), ![i].ready = "Downloading",
                        ![i].worker = "dwl-cache"]
  /\ db' = Rows({i}, "Downloading", {})
  /\ pass' = Past(i)
  /\ UNCHANGED <<Steady, kept, sinceBatch, reboots, disk, poolVars, encVars, ret>>

HeldBack(i) ==
  /\ born[i].parent # 0
  /\ ~BatchChildMayDispatch(pass.inFlight, pass.others, sinceBatch)

EncodeHeldBack(i) ==
  /\ Encodable(i)
  /\ ForwardTarget(i) \in {0, i} /\ SourceTarget(i) = 0
  /\ HeldBack(i)
  /\ Skip(i)

EncodeReady(i) ==
  /\ Encodable(i)
  /\ ForwardTarget(i) \in {0, i} /\ SourceTarget(i) = 0
  /\ ~HeldBack(i)

\* or_insert: a key keeps the first job that claimed it
Claimed(claims, keys, i) ==
  claims \cup ({k \in keys : Claimants(claims, {k}) = {}} \X {i})

EncodeDispatch(i) ==
  /\ EncodeReady(i)
  /\ EncodeSend(i)
  /\ job' = [job EXCEPT ![i] = Dispatched([@ EXCEPT !.worker = "enc-main"], epoch')]
  /\ sinceBatch' = IF born[i].parent # 0 THEN 0 ELSE IF sinceBatch < 2 THEN sinceBatch + 1 ELSE 2
  /\ pass' = [Past(i) EXCEPT !.inFlight = @ \/ born[i].parent # 0,
                             !.source = Claimed(@, InputKeys(i), i),
                             !.parent = Claimed(@, ForwardKeys(i), i)]
  /\ UNCHANGED <<Steady, db, kept, disk, poolVars>>

\* A failed send to a pool or to the encoder
DispatchKilled(i) ==
  /\ Progressing(i) /\ "send" \in Faults
  /\ ToProbeLayer(i) \/ ToUpload(i) \/ EncodeReady(i)
  /\ Killed(i)
  /\ UNCHANGED <<Steady, job, kept, sinceBatch, reboots, poolVars, encVars, ret>>

\* Followers of the jobs that went to upload follow, then the dead leave
ProgressEnd ==
  /\ pc = "progress" /\ pass.todo = {}
  /\ LET followers == ForwardedTo(pass.uploads)
         synced == [c \in Ids |-> IF c \in followers
                                  THEN [job[c] EXCEPT !.ready = "Uploading", !.worker = "upl-forward"]
                                  ELSE job[c]] IN
     /\ job' = Without(synced, pass.dead)
     /\ db' = Rows(followers, "Uploading", {})
  /\ queue' = queue \ pass.dead
  /\ pass' = NoPass /\ pc' = "batch"
  /\ UNCHANGED <<kept, seenEpoch, sinceBatch, gitquery, backlog, nextId, cancels, reboots, layerVars>>

-----------------------------------------------------------------------------
(* do_batch_parent_things and the armed git query                           *)

\* A finished download is settled, then a batch whose count is full is closed
BatchParents ==
  /\ pc = "batch"
  /\ LET settled == [i \in Ids |->
           IF i \in queue /\ Batch(i) /\ job[i].ready = "Downloaded" /\ ~job[i].settled
           THEN Settle(born[i], job[i]) ELSE job[i]]
         done == {i \in queue : /\ Batch(i) /\ Complete(born[i], settled[i])
                                /\ job[i].ready \in {"Downloaded", "Downloading"}} IN
     /\ queue' = queue \ done
     /\ db' = Rows(done, "Uploaded", done)
     /\ disk' = Cleaned(disk, done)
     /\ IF gitquery
        THEN pc' = "git" /\ job' = Without(settled, done) /\ UNCHANGED seenEpoch
        ELSE pc' = "queue" /\ job' = Checked(Without(settled, done), epoch) /\ seenEpoch' = epoch
  /\ UNCHANGED <<pass, kept, sinceBatch, gitquery, backlog, nextId, cancels, reboots,
                 born, poolVars, encVars, ret>>

ArmedGitQuery ==
  /\ pc = "git"
  /\ \/ /\ EncodesActive
        /\ BackToTop(job)
        /\ UNCHANGED <<queue, db, kept, sinceBatch, gitquery, backlog, nextId, cancels,
                       reboots, layerVars>>
     \/ ~EncodesActive /\ GitSync
==============================================================================
