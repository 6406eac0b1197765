------------------------------- MODULE PnJobs -------------------------------
(***************************************************************************)
(* The vocabulary of pnworker: what a client may ask for, the fields of    *)
(* `Job` that steer the worker, and the pure tests the handlers make on    *)
(* them.  A torrent is a link; two links may carry the same info-hash.     *)
(* Paths are abstracted to the job whose work directory they lie in,       *)
(* keywords to the submission that reserved them, and everything an encode *)
(* looks like (preset, subtitle, watermark, server, folders) to one value. *)
(***************************************************************************)
EXTENDS Naturals, Sequences, FiniteSets

CONSTANTS
  Links,          \* torrent links and magnets, plain http and Drive links
  Hashes,         \* info-hashes
  NoHash,         \* what HashOf gives for a link that is not a torrent
  HashOf,         \* [Links -> Hashes \cup {NoHash}]
  Magnets,        \* the links whose info-hash can be read off the link
  Looks,          \* everything else encode_forward_key hashes
  Files,          \* positive file indices of a torrent; 0 is "no index"
  Submissions,    \* what clients ask for, each entry once, in any order
  MaxJobs         \* bound: ids handed out in one behaviour

Names == 1..Len(Submissions)
Ids   == 1..MaxJobs          \* in the order jobs enter the queue
Ids0  == 0..MaxJobs          \* 0 is Rust's None
Idx   == {0} \cup Files

JobTypes == {"Encode", "Pancode", "Backup", "BackupAll", "Keycode", "Batch",
             "Probe", "Subs", "Preview", "Studio", "StudioPreview"}

Stages == {"Queued", "Probing", "Probed", "Downloading", "Downloaded",
           "Encoding", "Encoded", "Uploading", "Uploaded", "Failed",
           "Declined", "Cancelled"}

\* Job.worker, as far as the code reads it back: pools put the name of the
\* slot behind "dwl-", "upl-" and "prw-".
Workers == {"que-main", "dwl-pending", "dwl-cache", "dwl-slot", "dwl-forward",
            "enc-main", "enc-pending", "enc-forward", "upl-pending", "upl-slot",
            "upl-forward", "prw-pending", "prw-slot", "key-wait", "key-fail",
            "keep-done"}

Request == [type: JobTypes, link: Links, idx: Idx, look: Looks, keep: BOOLEAN,
            files: SUBSET Files, needs: SUBSET Names, probe: 0..Len(Submissions)]

ASSUME PnJobsAssumption ==
  /\ MaxJobs \in Nat \ {0}
  /\ Files \subseteq Nat \ {0} /\ IsFiniteSet(Files)
  /\ Magnets \subseteq Links
  /\ HashOf \in [Links -> Hashes \cup {NoHash}]
  /\ NoHash \notin Hashes
  /\ Submissions \in Seq(Request)
  \* the bot and the API refuse an empty keyword list or selection
  /\ \A n \in Names : /\ Submissions[n].type = "Keycode" => Submissions[n].needs # {}
                      /\ Submissions[n].type = "Batch" => Submissions[n].files # {}
  \* keycodes and studio jobs carry a link of their own, which is no source
  /\ \A n, k \in Names :
       /\ Submissions[n].type \in {"Keycode", "Studio", "StudioPreview"}
       /\ Submissions[k].link = Submissions[n].link
       => /\ Submissions[k].type \in {"Keycode", "Studio", "StudioPreview"}
          /\ HashOf[Submissions[n].link] = NoHash

-----------------------------------------------------------------------------
(* Job types and stages *)

EncodeTypes   == {"Encode", "Pancode", "Keycode", "Studio", "Batch"}
DownloadTypes == {"Encode", "Pancode", "Backup", "BackupAll", "Batch", "Subs", "Preview"}
KeepTypes     == {"Encode", "Pancode", "Backup"}
\* the types a job requeued for download may have (do_queued_download_waiting_things)
RequeueTypes  == {"Encode", "Pancode", "Backup", "Preview"}

Terminal  == {"Uploaded", "Failed", "Declined", "Cancelled"}
Finished  == {"Uploaded", "Failed", "Cancelled"}
PastDownloaded == {"Downloaded", "Encoding", "Encoded", "Uploading", "Uploaded"}

-----------------------------------------------------------------------------
(* What an id stands for, fixed when it is handed out *)

Birth   == [name: 0..Len(Submissions), parent: Ids0, idx: Idx]
Unborn  == [name |-> 0, parent |-> 0, idx |-> 0]

ReqOf(b)  == Submissions[b.name]
TypeOf(b) == IF b.parent # 0 THEN "Pancode" ELSE ReqOf(b).type
IsBatch(b) == b.parent = 0 /\ ReqOf(b).type = "Batch"
Keeps(b)   == b.parent = 0 /\ ReqOf(b).keep
Entries(b) == ReqOf(b).files

\* is_forwardable_encode: no test of the frontend the job came from
IsForwardable(b) == TypeOf(b) = "Encode" /\ ~Keeps(b)

\* A batch passes every selected index, a single-file job its own (Download*)
Indices(b) == IF IsBatch(b) THEN Entries(b) ELSE {b.idx} \ {0}

HashKnown(b, fetched) ==
  HashOf[ReqOf(b).link] # NoHash /\ (ReqOf(b).link \in Magnets \/ fetched)

\* a backup built from a probe carries no link of its own
OwnLink(b) == IF ReqOf(b).type = "Backup" /\ ReqOf(b).probe # 0 THEN {} ELSE {ReqOf(b).link}

SourceKeysOf(b, fetched) ==
  OwnLink(b) \cup (IF HashKnown(b, fetched) THEN {HashOf[ReqOf(b).link]} ELSE {})
InputKeysOf(b, fetched) == SourceKeysOf(b, fetched) \X {b.idx}
ForwardKeysOf(b, fetched) == SourceKeysOf(b, fetched) \X {b.idx} \X {ReqOf(b).look}

InputKey   == (Links \cup Hashes) \X Idx
ForwardKey == (Links \cup Hashes) \X Idx \X Looks

-----------------------------------------------------------------------------
(* The mutable part of a job *)

Job == [ready: Stages, worker: Workers, dup: Ids0, fwd: Ids0,
        dispatched: BOOLEAN, epoch: Nat,
        kid: [Files -> Ids0], finished: Nat, failed: Nat, settled: BOOLEAN]

NewJob == [ready |-> "Queued", worker |-> "que-main", dup |-> 0, fwd |-> 0,
           dispatched |-> FALSE, epoch |-> 0,
           kid |-> [f \in Files |-> 0], finished |-> 0, failed |-> 0,
           settled |-> FALSE]

\* Mutant: the old label with a suffix, which nothing reads back.
ForwardedLabel(w) == w \o "-forward"

ForwardedWorker(w) ==
  CASE w \in {"dwl-pending", "dwl-cache", "dwl-slot", "dwl-forward"} -> "dwl-forward"
    [] w \in {"upl-pending", "upl-slot", "upl-forward"} -> "upl-forward"
    [] OTHER -> "enc-forward"

\* Mutant: the lease is not looked at, and encodes are as good as queued.
CancelledAtOnceUnleased(j) ==
  \/ j.fwd # 0 \/ j.dup # 0
  \/ j.ready \notin {"Probing", "Downloading", "Encoding", "Uploading"}

\* cancel_disposition: may the main loop drop the job itself, or must the
\* worker that holds it find the CANCEL marker?
CancelledAtOnce(j) ==
  \/ j.fwd # 0
  \/ /\ ~j.dispatched
     /\ \/ j.dup # 0
        \/ j.worker \in {"dwl-pending", "key-wait"}
        \/ j.ready \notin {"Probing", "Downloading", "Encoding", "Uploading"}

\* Mutant: only the rivals count.
BatchChildOvertakes(inFlight, othersWaiting, othersSinceBatch) ==
  ~othersWaiting \/ othersSinceBatch >= 2

BatchChildMayDispatch(inFlight, othersWaiting, othersSinceBatch) ==
  ~inFlight /\ (~othersWaiting \/ othersSinceBatch >= 2)

\* Mutant: a batch whose download is over is over.
CompleteWhenSettled(b, j) == j.settled

\* BatchRequest::settle_download and ::complete
Unspawned(b, j)   == {f \in Entries(b) : j.kid[f] = 0}
Settle(b, j)      == [j EXCEPT !.settled = TRUE,
                               !.failed = @ + Cardinality(Unspawned(b, j))]
Complete(b, j)    == j.finished + j.failed >= Cardinality(Entries(b))

\* Mutant: only downloaded jobs are handed to the new encoder.
ResetDownloaded(b, j, newEpoch) ==
  IF j.epoch < newEpoch /\ j.ready = "Downloaded" THEN [j EXCEPT !.dispatched = FALSE] ELSE j

\* reset_encode_dispatches_after_reboot, for one job
ResetDispatch(b, j, newEpoch) ==
  IF /\ j.epoch < newEpoch
     /\ j.ready = "Downloaded" \/ (TypeOf(b) = "Keycode" /\ j.ready = "Queued")
  THEN [j EXCEPT !.dispatched = FALSE]
  ELSE j

\* the queue is a Vec that is only pushed to and filtered: its first is its least
First(S) == CHOOSE i \in S : \A k \in S : i <= k
=============================================================================
