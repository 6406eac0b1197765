------------------------------ MODULE Torrent -------------------------------
(***************************************************************************)
(* A download of lib/torrent.  The loop of download_inner writes verified  *)
(* pieces and announces the files they finish; one task per peer claims    *)
(* pieces from the shared PieceScheduler, fetches, verifies and sends      *)
(* them.  A selection of empty files only returns before any of this.      *)
(***************************************************************************)
EXTENDS Integers, FiniteSets, Sequences

CONSTANTS
  NPieces,         \* pieces of the torrent, numbered from 0
  Files, Span,     \* the selected files, and the pieces each of them lies on
  Peers,           \* addresses that trackers or a magnet may name
  Offers,          \* what a peer may say that it has
  Reliable,        \* peers that have everything, do not choke and always answer
  MaxConnections, MaxCandidates, MemoryPieces, EndgamePieces, EndgameCopies,
  TrackerRounds,
  StorageFails     \* whether writing, flushing and finishing may fail

Pieces == 0 .. NPieces - 1
NoPiece == -1
\* The pieces some selected file lies on
Required == UNION {Span[f] : f \in Files}

ASSUME TorrentAssumption ==
  /\ NPieces \in Nat \ {0} /\ IsFiniteSet(Files) /\ Span \in [Files -> SUBSET Pieces]
  /\ Required # {}
  /\ IsFiniteSet(Peers) /\ Reliable \subseteq Peers /\ Offers \subseteq SUBSET Pieces
  /\ MaxConnections \in Nat \ {0} /\ MaxCandidates \in Nat
  /\ MemoryPieces \in Nat \ {0}
  /\ EndgamePieces \in Nat /\ EndgameCopies \in Nat /\ TrackerRounds \in Nat
  /\ StorageFails \in BOOLEAN

VARIABLES
  peer,                            \* the task of each peer
  inFlight, complete, scanStart,   \* the scheduler
  channel,                         \* verified pieces on their way to the loop
  written, remaining, done,        \* pieces on disk, pieces a file waits for, announced files
  main, round, tried,              \* the loop: its place, tracker rounds, peers ever spawned
  cancel                           \* the cancel file was seen

schedVars == <<inFlight, complete, scanStart>>
diskVars == <<written, remaining, done>>
loopVars == <<main, round, tried>>
vars == <<peer, schedVars, channel, diskVars, loopVars, cancel>>

Working == {"queued", "greet", "loop", "listen", "memory", "fetch", "send", "sent"}
Over == {"ok", "error", "cancelled"}
\* Where a task answers for a claim
Claiming == {"memory", "fetch", "send", "sent"}
Ended == {"done", "failed", "exhausted", "cancelled"}

\* The tasks of the JoinSet: spawned and not yet joined
Tasks == {p \in Peers : peer[p].stage \in Working \cup Over}
\* A connection permit is held from the start of a task to its end.
Connected == {p \in Peers : peer[p].stage \in Working \ {"queued"}}
\* A verified piece keeps its memory until it is written.
InMemory == Cardinality({p \in Peers : peer[p].stage \in {"fetch", "send"}}) + Len(channel)

Fresh == [stage |-> "new", piece |-> NoPiece, has |-> {}, choked |-> TRUE]
\* spawn_peer_tasks
Spawned(tasks, S) ==
  [p \in Peers |-> IF p \in S THEN [Fresh EXCEPT !.stage = "queued"] ELSE tasks[p]]

Init ==
  /\ \E S \in SUBSET Peers :
       /\ Cardinality(S) <= MaxCandidates
       /\ tried = S /\ peer = Spawned([p \in Peers |-> Fresh], S)
  /\ inFlight = [i \in Pieces |-> 0] /\ complete = {} /\ scanStart = 0
  /\ channel = <<>>
  /\ written = {} /\ remaining = [f \in Files |-> Cardinality(Span[f])]
  /\ done = {f \in Files : Span[f] = {}}
  /\ main = "top" /\ round = 0 /\ cancel = FALSE

-----------------------------------------------------------------------------
(* The scheduler *)

Least(S) == CHOOSE i \in S : \A j \in S : i <= j
AllComplete == complete = Required

\* Mutant: a scan skips what is in flight, as if it never came back.
ScanFromClaimed ==
  Least({i \in scanStart .. NPieces : i = NPieces \/ (i \in Required \ complete /\ inFlight[i] = 0)})
\* scan_from: every piece below is complete or was never wanted
ScanFrom ==
  Least({i \in scanStart .. NPieces : i = NPieces \/ i \in Required \ complete})

\* Pieces a scan for peer p looks at
Scanned(p) == {i \in ScanFrom .. NPieces - 1 : i \in Required \cap peer[p].has /\ i \notin complete}
Unclaimed(p) == {i \in Scanned(p) : inFlight[i] = 0}
\* Mutant: the last pieces are raced for although nothing was delivered.
EndgameAtOnce == Cardinality(Required) - Cardinality(complete) <= EndgamePieces
Endgame ==
  /\ complete # {}
  /\ Cardinality(Required) - Cardinality(complete) <= EndgamePieces
Claimable(p) ==
  IF Unclaimed(p) # {} THEN {Least(Unclaimed(p))}
  ELSE LET again == {i \in Scanned(p) : inFlight[i] < EndgameCopies} IN
       IF Endgame /\ again # {} THEN {Least(again)} ELSE {}

\* Mutants: the claim is forgotten, or given back even if others completed the piece.
ReleasedNever(i) == inFlight
ReleasedUnchecked(i) == [inFlight EXCEPT ![i] = @ - 1]
Released(i) == [inFlight EXCEPT ![i] = IF @ > 0 THEN @ - 1 ELSE 0]

-----------------------------------------------------------------------------
(* One task per peer: download_from_peer *)

Running == main \notin Ended
AtStage(p, s) == Running /\ peer[p].stage = s
Becomes(p, s) == peer' = [peer EXCEPT ![p].stage = s]
Elsewhere == UNCHANGED <<channel, diskVars, loopVars, cancel>>

\* A task ends, with its locals, and gives back the piece it answers for.
Leaves(p, how) ==
  /\ peer' = [peer EXCEPT ![p] = [Fresh EXCEPT !.stage = how]]
  /\ inFlight' = IF peer[p].stage \in Claiming THEN Released(peer[p].piece) ELSE inFlight
  /\ UNCHANGED <<complete, scanStart>> /\ Elsewhere

\* A permit of the connection semaphore; nothing to do when all is complete
Connect(p) ==
  /\ AtStage(p, "queued") /\ Cardinality(Connected) < MaxConnections
  /\ Becomes(p, IF AllComplete THEN "ok" ELSE "greet")
  /\ UNCHANGED schedVars /\ Elsewhere

\* The first wait is over when the peer said both what it has and that we may ask.
Greet(p) ==
  /\ AtStage(p, "greet")
  /\ \E has \in IF p \in Reliable THEN {Pieces} ELSE Offers :
       peer' = [peer EXCEPT ![p].stage = "loop", ![p].has = has, ![p].choked = FALSE]
  /\ UNCHANGED schedVars /\ Elsewhere

\* One control message: choke or unchoke, or what the peer has
Hear(p) ==
  /\ AtStage(p, "listen") /\ p \notin Reliable
  /\ \E heard \in {[peer[p] EXCEPT !.choked = c] : c \in BOOLEAN}
                  \cup {[peer[p] EXCEPT !.has = has] : has \in Offers} :
       peer' = [peer EXCEPT ![p] = [heard EXCEPT !.stage = "loop"]]
  /\ UNCHANGED schedVars /\ Elsewhere

\* While a piece is fetched only what the peer has may change.
Overhear(p) ==
  /\ AtStage(p, "fetch") /\ p \notin Reliable
  /\ \E has \in Offers : peer' = [peer EXCEPT ![p].has = has]
  /\ UNCHANGED schedVars /\ Elsewhere

Retire(p) == AtStage(p, "loop") /\ ~cancel /\ AllComplete /\ Leaves(p, "ok")

Claim(p) ==
  /\ AtStage(p, "loop") /\ ~cancel /\ ~AllComplete /\ ~peer[p].choked
  /\ \E i \in Claimable(p) :
       /\ peer' = [peer EXCEPT ![p].stage = "memory", ![p].piece = i]
       /\ inFlight' = [inFlight EXCEPT ![i] = @ + 1]
  /\ scanStart' = ScanFrom
  /\ UNCHANGED complete /\ Elsewhere

\* Nothing this peer has is wanted: read what else it says.
Listen(p) ==
  /\ AtStage(p, "loop") /\ ~cancel /\ ~AllComplete
  /\ \/ peer[p].choked /\ UNCHANGED scanStart
     \/ ~peer[p].choked /\ Scanned(p) = {} /\ scanStart' = ScanFrom
  /\ Becomes(p, "listen")
  /\ UNCHANGED <<inFlight, complete>> /\ Elsewhere

\* Others fetch all that this peer has: ask again when something changes.
Wait(p) ==
  /\ AtStage(p, "loop") /\ ~cancel /\ ~AllComplete /\ ~peer[p].choked
  /\ Claimable(p) = {} /\ Scanned(p) # {}
  /\ scanStart' = ScanFrom
  /\ UNCHANGED <<peer, inFlight, complete>> /\ Elsewhere

GetMemory(p) ==
  /\ AtStage(p, "memory") /\ InMemory < MemoryPieces
  /\ Becomes(p, "fetch")
  /\ UNCHANGED schedVars /\ Elsewhere

\* Mutant: a piece is complete when it is verified, before it is handed over.
ReceiveCompletes(p) ==
  /\ AtStage(p, "fetch") /\ Becomes(p, "send")
  /\ complete' = complete \cup {peer[p].piece}
  /\ UNCHANGED <<inFlight, scanStart>> /\ Elsewhere
\* download_piece, and the hash is right
Receive(p) ==
  /\ AtStage(p, "fetch") /\ Becomes(p, "send")
  /\ UNCHANGED schedVars /\ Elsewhere

\* A choke, a timeout, a closed connection or a corrupt piece
Lose(p) == AtStage(p, "fetch") /\ p \notin Reliable /\ Leaves(p, "error")

\* A failed connection, or a peer that said nothing for peer_timeout
Silence(p) ==
  /\ Running /\ peer[p].stage \in {"greet", "listen"} /\ p \notin Reliable
  /\ Leaves(p, "error")

Send(p) ==
  /\ AtStage(p, "send") /\ Len(channel) < MaxConnections
  /\ channel' = Append(channel, peer[p].piece)
  /\ Becomes(p, "sent")
  /\ UNCHANGED <<schedVars, diskVars, loopVars, cancel>>

Complete(p) ==
  /\ AtStage(p, "sent")
  /\ inFlight' = [inFlight EXCEPT ![peer[p].piece] = 0]
  /\ complete' = complete \cup {peer[p].piece}
  /\ peer' = [peer EXCEPT ![p].stage = "loop", ![p].piece = NoPiece]
  /\ UNCHANGED scanStart /\ Elsewhere

\* Every wait of a task but the one for its connection looks at the signal.
Cancelled(p) ==
  /\ Running /\ cancel
  /\ peer[p].stage \in {"greet", "loop", "listen", "memory", "fetch", "send"}
  /\ Leaves(p, "cancelled")

PeerStep(p) ==
  \/ Connect(p) \/ Retire(p) \/ Claim(p) \/ Listen(p) \/ GetMemory(p)
  \/ Receive(p) \/ Lose(p) \/ Send(p) \/ Complete(p) \/ Cancelled(p)
PeerTalk(p) == Greet(p) \/ Hear(p) \/ Overhear(p) \/ Wait(p)

-----------------------------------------------------------------------------
(* The loop of download_inner *)

Touched(i) == {f \in Files \ done : i \in Span[f]}
Finished(i) == {f \in Touched(i) : remaining[f] <= 1}
Charged(i) == [f \in Files |->
  IF f \in Touched(i) /\ remaining[f] > 0 THEN remaining[f] - 1 ELSE remaining[f]]
Stored(i, F) == written' = written \cup {i} /\ remaining' = Charged(i) /\ done' = done \cup F
\* Mutant: a piece that two peers delivered is charged twice.
WrittenAgain(i) == Stored(i, Finished(i))
\* write_completed_piece
Written(i) == IF i \in written THEN UNCHANGED diskVars ELSE Stored(i, Finished(i))
\* The write fails, or the flush of a file that it finished, when others may have been announced.
WriteFails(i) ==
  /\ StorageFails /\ i \notin written
  /\ UNCHANGED diskVars \/ \E F \in SUBSET Finished(i) : F # Finished(i) /\ Stored(i, F)

AllWritten == Cardinality(written) >= Cardinality(Required)
Goes(place) == main' = place /\ UNCHANGED <<round, tried>>
\* abort_all, and the loop returns
Stops(how) == Goes(how) /\ UNCHANGED <<peer, schedVars, channel, diskVars, cancel>>

Finish ==
  /\ main = "top" \/ (main = "drain" /\ channel = <<>>)
  /\ AllWritten
  /\ Stops("done") \/ (StorageFails /\ Stops("failed"))

StopCancelled == main \in {"top", "select"} /\ cancel /\ (main = "top" => ~AllWritten) /\ Stops("cancelled")

\* Mutant: the loop goes on waiting when no task is left.
TurnPast ==
  /\ main = "top" /\ ~AllWritten /\ ~cancel
  /\ Goes("select")
  /\ UNCHANGED <<peer, schedVars, channel, diskVars, cancel>>
Turn ==
  /\ main = "top" /\ ~AllWritten /\ ~cancel
  /\ Goes(IF Tasks = {} THEN "drain" ELSE "select")
  /\ UNCHANGED <<peer, schedVars, channel, diskVars, cancel>>

\* A piece is taken out of the channel, in the select or in the drain.
Write ==
  /\ main \in {"select", "drain"} /\ channel # <<>>
  /\ \/ Written(Head(channel)) /\ Goes(IF main = "select" THEN "top" ELSE "drain")
     \/ WriteFails(Head(channel)) /\ Goes("failed")
  /\ channel' = Tail(channel)
  /\ UNCHANGED <<peer, schedVars, cancel>>

\* join_next; only a cancelled task under the signal stops the loop
Join(p) ==
  /\ main = "select" /\ peer[p].stage \in Over
  /\ peer' = [peer EXCEPT ![p].stage = "joined"]
  /\ Goes(IF peer[p].stage = "cancelled" /\ cancel THEN "cancelled" ELSE "top")
  /\ UNCHANGED <<schedVars, channel, diskVars, cancel>>

\* Mutant: what the last tasks delivered is not taken out of the channel.
ExhaustedUndrained == main = "drain" /\ ~AllWritten
\* No task is left and pieces are missing: ask the trackers again.
Exhausted == main = "drain" /\ channel = <<>> /\ ~AllWritten
GiveUp == Exhausted /\ round >= TrackerRounds /\ Stops("exhausted")
Announce ==
  /\ Exhausted /\ round < TrackerRounds
  /\ round' = round + 1
  /\ \E S \in SUBSET (Peers \ tried) :
       /\ Cardinality(S) <= MaxCandidates - Cardinality(tried)
       /\ tried' = tried \cup S /\ peer' = Spawned(peer, S)
       /\ main' = IF S # {} THEN "select"
                  ELSE IF round' < TrackerRounds THEN "top" ELSE "exhausted"
  /\ UNCHANGED <<schedVars, channel, diskVars, cancel>>

MainStep ==
  Finish \/ StopCancelled \/ Turn \/ Write \/ (\E p \in Peers : Join(p)) \/ GiveUp \/ Announce

\* The cancel file appears, and the monitor sees it.
Cancel ==
  /\ Running /\ ~cancel /\ cancel' = TRUE
  /\ UNCHANGED <<peer, schedVars, channel, diskVars, loopVars>>

Next == MainStep \/ Cancel \/ \E p \in Peers : PeerStep(p) \/ PeerTalk(p) \/ Silence(p)
Spec == Init /\ [][Next]_vars
\* Tasks run; a peer does not talk for ever without sending anything of use.
FairSpec ==
  /\ Spec /\ WF_vars(MainStep)
  /\ \A p \in Peers : WF_vars(PeerStep(p)) /\ SF_vars(Silence(p))
  /\ \A p \in Reliable : WF_vars(Greet(p))

-----------------------------------------------------------------------------
(* Properties *)

Peer == [stage : {"new", "joined"} \cup Working \cup Over, piece : Pieces \cup {NoPiece},
         has : SUBSET Pieces, choked : BOOLEAN]

\* Types of the scheduler, the tasks and the loop (peer.rs, client.rs).
TypeOK ==
  /\ peer \in [Peers -> Peer]
  /\ inFlight \in [Pieces -> Nat] /\ complete \subseteq Required /\ scanStart \in 0 .. NPieces
  /\ channel \in Seq(Required)
  /\ written \subseteq Required /\ remaining \in [Files -> Nat] /\ done \subseteq Files
  /\ main \in {"top", "select", "drain"} \cup Ended
  /\ round \in 0 .. TrackerRounds /\ tried \subseteq Peers /\ cancel \in BOOLEAN

Holders(i) == {p \in Peers : peer[p].piece = i}

\* While a piece is not complete, the scheduler's count for it is exactly the number of tasks that
\* answer for it: a claim is given back on every way out of download_from_peer, and only once.
ClaimsAccounted ==
  \A i \in Required \ complete : inFlight[i] = Cardinality(Holders(i))

\* Two tasks fetch the same missing piece only near the end of a download that has delivered
\* something, and never more than ENDGAME_COPIES of them.
DuplicateOnlyAtEnd ==
  \A i \in Required \ complete : Cardinality(Holders(i)) > 1 =>
    /\ complete # {} /\ Cardinality(Required \ complete) <= EndgamePieces
    /\ Cardinality(Holders(i)) <= EndgameCopies

\* What the scheduler calls complete was handed over: it is on disk or in the channel, unless
\* the disk failed: no piece that nobody will claim again is still to come.
CompleteIsDelivered ==
  main # "failed" => complete \subseteq written \cup {channel[k] : k \in DOMAIN channel}

\* The part of the piece map a scan no longer looks at hides nothing that is still wanted.
ScanHidesNothing == \A i \in Required : i < scanStart => i \in complete

\* The loop gives up for want of peers only when pieces are missing that no task has delivered.
ExhaustedMeansMissing ==
  main = "exhausted" => channel = <<>> /\ Tasks = {} /\ complete = written /\ written # Required

\* The loop seen from outside: pieces arrive, files are announced when their last piece is on disk,
\* and the download ends as done exactly with all of them (write_completed_piece).
Delivery == INSTANCE TorrentDelivery WITH
  have <- written, announced <- done, outcome <- IF main \in Ended THEN main ELSE "busy"
Delivers == Delivery!Spec

\* A download ends: complete, failed, out of peers or cancelled.
DownloadEnds == <>(main \in Ended)

\* One reliable peer among the first is enough, whatever the others claim and then lose.
ReliablePeerSuffices ==
  (tried \cap Reliable # {} /\ [](~cancel /\ main # "failed")) => <>(main = "done")
=============================================================================
