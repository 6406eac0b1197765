------------------------------ MODULE PnLayers ------------------------------
(***************************************************************************)
(* The four worker layers behind the shrine, as the main loop meets them:  *)
(* the download, upload and probe pools (a deque of pending jobs, one      *)
(* spawned task per slot) and the sequential encoder (a bounded inbox and  *)
(* the one job it works on), each with its bounded return channel.  What   *)
(* the tools leave on disk is here too, because both sides read it.        *)
(*                                                                         *)
(* The pools empty their own inbox every 200 ms whatever their tasks do,   *)
(* so the inbox and the deque behind it are one sequence.  Progress        *)
(* frames, which only feed the display and the stall clock, are left out.  *)
(***************************************************************************)
EXTENDS PnJobs

CONSTANTS
  InboxCap,       \* capacity of a layer's inbox (5)
  ReturnCap,      \* capacity of a layer's return channel (50)
  Slots,          \* [Pools -> Nat \ {0}], names a pool may hand out
  Faults          \* what may go wrong: layers whose tools fail, and steps of
                  \* the main loop ("setup", "insert", "send", "store", "child")

Pools  == {"Download", "Upload", "Probe"}
Layers == Pools \cup {"Encode"}
Phases == {"idle", "running", "fetched", "locked"}

ASSUME PnLayersAssumption ==
  /\ InboxCap \in Nat \ {0}
  /\ ReturnCap \in Nat \ {0}
  /\ Slots \in [Pools -> Nat \ {0}]

VARIABLES
  born,       \* what each id stands for
  disk,       \* files in work directories, and the input cache
  pend,       \* per pool: jobs waiting for a slot
  run,        \* per pool: what the task of each job is doing
  delivered,  \* files of a batch whose completion the tool has reported
  inbox,      \* the encode layer's inbox
  cur,        \* the job the encoder works on, 0 if none
  epoch,      \* reboots of the encode layer so far
  ret         \* per layer: messages not yet received by the main loop

layerVars == <<born, disk, pend, run, delivered, inbox, cur, epoch, ret>>
poolVars  == <<pend, run, delivered>>
encVars   == <<inbox, cur, epoch>>

Disk == [fetch: SUBSET Ids,      \* contents/fetch.torrent exists
         input: SUBSET Ids,      \* contents/torrent/input.mkv exists
         marker: SUBSET Ids,     \* the CANCEL file exists
         cache: SUBSET InputKey] \* DB/cache/inputs

Message == [id: Ids, kind: {"stage", "assign", "filedone", "duplicate"},
            stage: Stages, file: Idx, owner: Ids0]

Note(i, k) == [id |-> i, kind |-> k, stage |-> "Queued", file |-> 0, owner |-> 0]
StageMsg(i, s)     == [Note(i, "stage") EXCEPT !.stage = s]
AssignMsg(i)       == Note(i, "assign")
FileDoneMsg(i, f)  == [Note(i, "filedone") EXCEPT !.file = f]
DuplicateMsg(i, o) == [Note(i, "duplicate") EXCEPT !.owner = o]

LayersTypeOK ==
  /\ born \in [Ids -> Birth]
  /\ disk \in Disk
  /\ pend \in [Pools -> Seq(Ids)]
  /\ run \in [Pools -> [Ids -> Phases]]
  /\ delivered \in [Ids -> SUBSET Files]
  /\ inbox \in Seq(Ids)
  /\ cur \in Ids0
  /\ epoch \in Nat
  /\ ret \in [Layers -> Seq(Message)]

LayersInit ==
  /\ born = [i \in Ids |-> Unborn]
  /\ disk = [fetch |-> {}, input |-> {}, marker |-> {}, cache |-> {}]
  /\ pend = [p \in Pools |-> <<>>]
  /\ run = [p \in Pools |-> [i \in Ids |-> "idle"]]
  /\ delivered = [i \in Ids |-> {}]
  /\ inbox = <<>> /\ cur = 0 /\ epoch = 0
  /\ ret = [l \in Layers |-> <<>>]

-----------------------------------------------------------------------------
(* What a job's directory and link say about it *)

Link(i)  == ReqOf(born[i]).link
Torrent(i) == HashOf[Link(i)] # NoHash
SourceKeys(i)  == SourceKeysOf(born[i], i \in disk.fetch)
InputKeys(i)   == InputKeysOf(born[i], i \in disk.fetch)
ForwardKeys(i) == ForwardKeysOf(born[i], i \in disk.fetch)

\* lifecycle.rs cleanup_job and remove_dir_all of whole work directories
Cleaned(d, S) == [d EXCEPT !.fetch = @ \ S, !.input = @ \ S, !.marker = @ \ S]

\* cache.rs cache_encode_input: only what is there can be cached
CachedInput(d, i) ==
  IF i \in d.input THEN [d EXCEPT !.cache = @ \cup InputKeys(i)] ELSE d

-----------------------------------------------------------------------------
(* The return channel: Sender::send waits for room, try_send gives up *)

CanSend(l) == Len(ret[l]) < ReturnCap
Sent(l, m) == [ret EXCEPT ![l] = Append(@, m)]
TrySent(l, m) == IF CanSend(l) THEN Sent(l, m) ELSE ret

-----------------------------------------------------------------------------
(* The pools *)

Task(p, i, phase) == run' = [run EXCEPT ![p][i] = phase]
Busy(p) == {i \in Ids : run[p][i] # "idle"}

\* pending.pop_front() into a free name, and the task's first message, which
\* the probe tasks send and the others only try to send
PoolStart(p) ==
  /\ pend[p] # <<>>
  /\ Cardinality(Busy(p)) < Slots[p]
  /\ p = "Probe" => CanSend(p)
  /\ LET i == Head(pend[p]) IN
       /\ Task(p, i, "running")
       /\ ret' = TrySent(p, AssignMsg(i))
  /\ pend' = [pend EXCEPT ![p] = Tail(@)]
  /\ UNCHANGED <<born, disk, delivered, encVars>>

\* A task reports its last stage and returns
PoolEnd(p, i, m) ==
  /\ run[p][i] # "idle"
  /\ CanSend(p)
  /\ Task(p, i, "idle")
  /\ ret' = Sent(p, m)
  /\ delivered' = IF p = "Download" THEN [delivered EXCEPT ![i] = {}] ELSE delivered
  /\ UNCHANGED <<born, pend, encVars>>

\* pncurl brings the .torrent of a link, for a download and for a probe
FetchTorrent(p, i) ==
  /\ p = "Download" \/ (p = "Probe" /\ TypeOf(born[i]) = "Probe")
  /\ run[p][i] = "running"
  /\ Torrent(i) /\ Link(i) \notin Magnets
  /\ i \notin disk.marker
  /\ Task(p, i, "fetched")
  /\ disk' = [disk EXCEPT !.fetch = @ \cup {i}]
  /\ UNCHANGED <<born, pend, delivered, encVars, ret>>

\* pnp2p takes the info-hash lock, or names the holder's directory and ends
AtLock(i) ==
  /\ Torrent(i)
  /\ run["Download"][i] = IF Link(i) \in Magnets THEN "running" ELSE "fetched"

LockHolders(i) ==
  {k \in Ids : run["Download"][k] = "locked" /\ HashOf[Link(k)] = HashOf[Link(i)]}

LockTorrent(i) ==
  /\ AtLock(i)
  /\ LockHolders(i) = {}
  /\ Task("Download", i, "locked")
  /\ UNCHANGED <<born, disk, pend, delivered, encVars, ret>>

TorrentLocked(i) ==
  /\ AtLock(i)
  /\ \E o \in LockHolders(i) : PoolEnd("Download", i, DuplicateMsg(i, o))
  /\ UNCHANGED disk

Transferring(i) ==
  run["Download"][i] = IF Torrent(i) THEN "locked" ELSE "running"

\* Opcode 6 is read only when several files were asked for; try_send may drop it
Selects(i) == IsBatch(born[i]) /\ Torrent(i) /\ Cardinality(Entries(born[i])) > 1

FileDone(i) ==
  /\ Transferring(i) /\ Selects(i)
  /\ \E f \in Entries(born[i]) \ delivered[i] :
       /\ delivered' = [delivered EXCEPT ![i] = @ \cup {f}]
       /\ ret' = TrySent("Download", FileDoneMsg(i, f))
  /\ UNCHANGED <<born, disk, pend, run, encVars>>

\* preserve_all leaves the files where they are, else one becomes input.mkv
PreservesAll(i) == TypeOf(born[i]) \in {"Batch", "BackupAll"}

Download(i) ==
  /\ Transferring(i)
  /\ Selects(i) => delivered[i] = Entries(born[i])
  /\ PoolEnd("Download", i, StageMsg(i, "Downloaded"))
  /\ disk' = IF PreservesAll(i) THEN disk ELSE [disk EXCEPT !.input = @ \cup {i}]

\* What a task of the probe pool ends with when nothing goes wrong, and when
ProbeResult(i) == IF TypeOf(born[i]) = "Probe" THEN "Probed" ELSE "Uploaded"
ProbePhase(i) ==
  CASE TypeOf(born[i]) = "StudioPreview" -> "locked"
    [] TypeOf(born[i]) = "Probe" /\ Link(i) \notin Magnets -> "fetched"
    [] OTHER -> "running"

\* run_studio_preview_job announces Encoding first
PreviewStart(i) ==
  /\ run["Probe"][i] = "running"
  /\ TypeOf(born[i]) = "StudioPreview"
  /\ i \notin disk.marker
  /\ CanSend("Probe")
  /\ Task("Probe", i, "locked")
  /\ ret' = Sent("Probe", StageMsg(i, "Encoding"))
  /\ UNCHANGED <<born, disk, pend, delivered, encVars>>

PoolDone(p, i) ==
  \/ p = "Download" /\ Download(i)
  \/ p = "Upload" /\ PoolEnd(p, i, StageMsg(i, "Uploaded")) /\ UNCHANGED disk
  \/ /\ p = "Probe"
     /\ run[p][i] = ProbePhase(i)
     /\ PoolEnd(p, i, StageMsg(i, ProbeResult(i)))
     /\ UNCHANGED disk

PoolFailed(p, i) ==
  /\ \/ p \in Faults
     \/ TypeOf(born[i]) = "Probe" /\ ~Torrent(i)
  /\ PoolEnd(p, i, StageMsg(i, "Failed"))
  /\ UNCHANGED disk

\* job_cancelled between the steps of a task, and the tools that poll CANCEL
PoolCancelled(p, i) ==
  /\ i \in disk.marker
  /\ PoolEnd(p, i, StageMsg(i, "Cancelled"))
  /\ UNCHANGED disk

-----------------------------------------------------------------------------
(* The encoder *)

\* rx.recv(), then the cancel check that precedes ENCODE_START
EncodeTake ==
  /\ cur = 0 /\ inbox # <<>>
  /\ CanSend("Encode")
  /\ LET i == Head(inbox) IN
       IF i \in disk.marker
       THEN /\ ret' = Sent("Encode", StageMsg(i, "Cancelled"))
            /\ cur' = 0
       ELSE /\ ret' = Sent("Encode", StageMsg(i, "Encoding"))
            /\ cur' = i
  /\ inbox' = Tail(inbox)
  /\ UNCHANGED <<born, disk, poolVars, epoch>>

EncodeEnd(s) ==
  /\ cur # 0
  /\ CanSend("Encode")
  /\ s = "Cancelled" => cur \in disk.marker
  /\ s = "Failed" => "Encode" \in Faults
  /\ ret' = Sent("Encode", StageMsg(cur, s))
  /\ cur' = 0
  /\ UNCHANGED <<born, disk, poolVars, inbox, epoch>>

\* TypedLayer::reboot: a fresh inbox and return channel, nothing replayed.
\* Only a busy encoder can be silent for 160 s or have panicked.
EncodeReboot(newInbox) ==
  /\ inbox' = newInbox
  /\ cur' = 0
  /\ epoch' = epoch + 1
  /\ ret' = [ret EXCEPT !["Encode"] = <<>>]

-----------------------------------------------------------------------------
\* Only ids that were handed out can be with a layer
Known == {i \in Ids : born[i].name # 0}

PoolStep(p, i) == PoolDone(p, i) \/ PoolFailed(p, i) \/ PoolCancelled(p, i)
DownloadStep(i) == LockTorrent(i) \/ TorrentLocked(i) \/ FileDone(i)

PoolNext(p) ==
  \/ PoolStart(p)
  \/ \E i \in Known : \/ PoolStep(p, i) \/ FetchTorrent(p, i)
                      \/ p = "Download" /\ DownloadStep(i)
                      \/ p = "Probe" /\ PreviewStart(i)
EncoderNext ==
  \/ EncodeTake
  \/ \E s \in {"Encoded", "Failed", "Cancelled"} : EncodeEnd(s)

WorkersNext == EncoderNext \/ \E p \in Pools : PoolNext(p)
=============================================================================
