--------------------------- MODULE TorrentProofs ---------------------------
(***************************************************************************)
(* Proofs about a download: its types, what a scan skips, the accounts of  *)
(* the files and that they implement TorrentDelivery, the accounts of the  *)
(* claims, and that no delivered piece is lost.                            *)
(***************************************************************************)
EXTENDS Torrent, FiniteSetTheorems, WellFoundedInduction, TLAPS

-----------------------------------------------------------------------------
(* The scheduler's scans *)

\* A set of natural numbers that is not empty has a least element.
LEMMA LeastIsLeast ==
  ASSUME NEW S, S \subseteq Nat, S # {}
  PROVE  Least(S) \in S /\ \A j \in S : Least(S) <= j
<1> DEFINE R == {ss \in Nat \X Nat : ss[1] < ss[2]}
<1>1. IsWellFoundedOn(R, Nat)
  BY NatLessThanWellFounded DEF OpToRel
<1>2. \A i, j \in Nat : <<j, i>> \in R <=> j < i
  OBVIOUS
<1> HIDE DEF R
<1>3. PICK i \in S : \A j \in S : <<j, i>> \notin R
  BY <1>1, WFMin
<1>4. ASSUME NEW j \in S PROVE i <= j
  <2>1. i \in Nat /\ j \in Nat /\ ~(j < i)
    BY <1>2, <1>3
  <2> QED
    BY <2>1
<1> QED
  BY <1>4, Zenon DEF Least

\* A scan starts at a piece that is wanted, or at the end, and skips none that is.
LEMMA ScanSkips ==
  ASSUME TorrentAssumption, scanStart \in 0 .. NPieces
  PROVE  /\ ScanFrom \in scanStart .. NPieces
         /\ \A i \in Required \ complete : i >= scanStart => i >= ScanFrom
<1> DEFINE S == {i \in scanStart .. NPieces : i = NPieces \/ i \in Required \ complete}
<1>1. S \subseteq Nat /\ NPieces \in S
  BY DEF TorrentAssumption
<1>2. ScanFrom \in S /\ \A j \in S : ScanFrom <= j
  BY <1>1, LeastIsLeast DEF ScanFrom
<1>3. Required \subseteq Pieces
  BY DEF Required, TorrentAssumption
<1> QED
  BY <1>1, <1>2, <1>3 DEF Pieces, TorrentAssumption

\* The lists of pieces are finite.
LEMMA FinitePieces ==
  ASSUME TorrentAssumption
  PROVE  /\ IsFiniteSet(Pieces) /\ Pieces \subseteq Nat
         /\ Required \subseteq Pieces /\ IsFiniteSet(Required) /\ NoPiece \notin Pieces
         /\ \A S : S \subseteq Pieces => IsFiniteSet(S) /\ Cardinality(S) \in Nat
<1>1. IsFiniteSet(Pieces) /\ Pieces \subseteq Nat
  BY FS_Interval DEF Pieces, TorrentAssumption
<1>2. Required \subseteq Pieces
  BY DEF Required, TorrentAssumption
<1>3. NoPiece \notin Pieces
  BY DEF NoPiece, Pieces
<1> QED
  BY <1>1, <1>2, <1>3, FS_Subset, FS_CardinalityType

\* What a peer may claim is wanted, not complete, and claimed by nobody or, near
\* the end, by fewer than may race for it.
LEMMA ClaimableWanted ==
  ASSUME TorrentAssumption, scanStart \in 0 .. NPieces, NEW p \in Peers, NEW i \in Claimable(p)
  PROVE  /\ i \in Required \ complete
         /\ inFlight[i] = 0 \/ (Endgame /\ inFlight[i] < EndgameCopies)
<1> DEFINE again == {j \in Scanned(p) : inFlight[j] < EndgameCopies}
<1>1. ScanFrom \in Nat /\ NPieces \in Nat
  BY ScanSkips DEF TorrentAssumption
<1>2. Scanned(p) \subseteq Nat /\ Scanned(p) \subseteq Required \ complete
  BY <1>1 DEF Scanned
<1>3. CASE Unclaimed(p) # {}
  <2>1. i = Least(Unclaimed(p)) /\ Unclaimed(p) \subseteq Nat
    BY <1>2, <1>3 DEF Claimable, Unclaimed
  <2>2. i \in Unclaimed(p)
    BY <1>3, <2>1, LeastIsLeast
  <2> QED
    BY <1>2, <2>2 DEF Unclaimed
<1>4. CASE Unclaimed(p) = {}
  <2>1. Endgame /\ again # {} /\ i = Least(again) /\ again \subseteq Nat
    BY <1>2, <1>4 DEF Claimable
  <2>2. i \in again
    BY <2>1, LeastIsLeast
  <2> QED
    BY <1>2, <2>1, <2>2
<1> QED
  BY <1>3, <1>4

-----------------------------------------------------------------------------
(* Types *)

\* A task answers for a wanted piece exactly at the stages named for that.
AnswersFor(t) ==
  IF t.stage \in Claiming THEN t.piece \in Required ELSE t.piece = NoPiece
Typed == TypeOK /\ \A p \in Peers : AnswersFor(peer[p])

\* A step of one task
LEMMA TaskTyped ==
  ASSUME Typed, NEW p \in Peers, NEW t \in Peer, AnswersFor(t),
         peer' = [peer EXCEPT ![p] = t]
  PROVE  peer' \in [Peers -> Peer] /\ \A q \in Peers : AnswersFor(peer'[q])
  BY DEF Typed, TypeOK

\* A task goes on without taking or giving back a claim.
LEMMA BecomesTyped ==
  ASSUME Typed, NEW p \in Peers, NEW s \in Working \cup Over \cup {"joined"}, Becomes(p, s),
         s \in Claiming <=> peer[p].stage \in Claiming
  PROVE  peer' \in [Peers -> Peer] /\ \A q \in Peers : AnswersFor(peer'[q])
<1> DEFINE t == [peer[p] EXCEPT !.stage = s]
<1>1. t \in Peer /\ AnswersFor(t)
  BY DEF Typed, TypeOK, Peer, AnswersFor
<1>2. peer' = [peer EXCEPT ![p] = t]
  BY DEF Becomes
<1> QED
  BY <1>1, <1>2, TaskTyped

\* A task ends and releases.
LEMMA LeavesTyped ==
  ASSUME TorrentAssumption, Typed, NEW p \in Peers, NEW how \in Over, Leaves(p, how)
  PROVE  Typed'
<1> DEFINE t == [Fresh EXCEPT !.stage = how]
<1>1. t \in Peer /\ AnswersFor(t)
  BY DEF Peer, AnswersFor, Fresh, Over, Working, Claiming, NoPiece
<1>2. peer' \in [Peers -> Peer] /\ \A q \in Peers : AnswersFor(peer'[q])
  BY <1>1, TaskTyped DEF Leaves
<1>3. inFlight' \in [Pieces -> Nat]
  <2>1. peer[p].stage \in Claiming => peer[p].piece \in Pieces
    BY FinitePieces DEF Typed, AnswersFor
  <2> QED
    BY <2>1 DEF Leaves, Released, Typed, TypeOK
<1> QED
  BY <1>2, <1>3 DEF Leaves, Elsewhere, diskVars, loopVars, Typed, TypeOK

\* A task that was just spawned, or is not yet
LEMMA FreshTyped ==
  /\ Fresh \in Peer /\ AnswersFor(Fresh)
  /\ [Fresh EXCEPT !.stage = "queued"] \in Peer /\ AnswersFor([Fresh EXCEPT !.stage = "queued"])
  BY DEF Fresh, Peer, AnswersFor, Working, Claiming
LEMMA SpawnedTyped ==
  ASSUME NEW tasks \in [Peers -> Peer], \A p \in Peers : AnswersFor(tasks[p]), NEW S
  PROVE  /\ Spawned(tasks, S) \in [Peers -> Peer]
         /\ \A p \in Peers : AnswersFor(Spawned(tasks, S)[p])
  BY FreshTyped DEF Spawned

LEMMA InitTyped ==
  ASSUME TorrentAssumption, Init
  PROVE  Typed
<1>1. peer \in [Peers -> Peer] /\ \A p \in Peers : AnswersFor(peer[p])
  <2>1. PICK S \in SUBSET Peers : peer = Spawned([p \in Peers |-> Fresh], S)
    BY DEF Init
  <2> QED
    BY <2>1, FreshTyped, SpawnedTyped
<1>2. remaining \in [Files -> Nat]
  BY FinitePieces DEF Init, TorrentAssumption
<1>3. inFlight \in [Pieces -> Nat] /\ scanStart \in 0 .. NPieces /\ round \in 0 .. TrackerRounds
  BY DEF Init, TorrentAssumption
<1>4. tried \subseteq Peers /\ channel \in Seq(Required)
  BY DEF Init
<1> QED
  BY <1>1, <1>2, <1>3, <1>4 DEF Init, Typed, TypeOK

\* The steps of a task keep the types.
LEMMA TaskStepTyped ==
  ASSUME TorrentAssumption, Typed, NEW p \in Peers,
         PeerStep(p) \/ PeerTalk(p) \/ Silence(p)
  PROVE  Typed'
<1> USE DEF AtStage, Elsewhere, schedVars, diskVars, loopVars
<1>0. Required \subseteq Pieces /\ ScanFrom \in 0 .. NPieces
  BY FinitePieces, ScanSkips DEF Typed, TypeOK, TorrentAssumption
<1>1. ASSUME Connect(p) \/ GetMemory(p) \/ Receive(p) PROVE Typed'
  BY <1>1, BecomesTyped DEF Connect, GetMemory, Receive, Typed, TypeOK, Working, Over, Claiming
<1>2. ASSUME Retire(p) \/ Lose(p) \/ Silence(p) \/ Cancelled(p) PROVE Typed'
  BY <1>2, LeavesTyped DEF Retire, Lose, Silence, Cancelled, Over
<1>3. ASSUME Greet(p) \/ Hear(p) \/ Overhear(p) PROVE Typed'
  <2>0. peer[p] \in Peer /\ AnswersFor(peer[p]) /\ Offers \subseteq SUBSET Pieces
    BY DEF Typed, TypeOK, TorrentAssumption
  <2>1. \E t \in Peer : peer' = [peer EXCEPT ![p] = t] /\ AnswersFor(t)
    <3>1. CASE Greet(p)
      <4>1. PICK has \in SUBSET Pieces :
              peer' = [peer EXCEPT ![p].stage = "loop", ![p].has = has, ![p].choked = FALSE]
        BY <2>0, <3>1 DEF Greet
      <4> DEFINE t == [peer[p] EXCEPT !.stage = "loop", !.has = has, !.choked = FALSE]
      <4>2. t \in Peer /\ AnswersFor(t)
        BY <2>0, <3>1 DEF Greet, Peer, AnswersFor, Claiming, Working
      <4> QED
        BY <4>1, <4>2
    <3>2. CASE Hear(p)
      <4>1. PICK heard \in {[peer[p] EXCEPT !.choked = c] : c \in BOOLEAN}
                            \cup {[peer[p] EXCEPT !.has = has] : has \in Offers} :
              peer' = [peer EXCEPT ![p] = [heard EXCEPT !.stage = "loop"]]
        BY <3>2 DEF Hear
      <4>2. heard \in Peer /\ heard.piece = NoPiece
        BY <2>0, <3>2 DEF Hear, Peer, AnswersFor, Claiming
      <4> DEFINE t == [heard EXCEPT !.stage = "loop"]
      <4>3. t \in Peer /\ AnswersFor(t)
        BY <4>2 DEF Peer, AnswersFor, Claiming, Working
      <4> QED
        BY <4>1, <4>3
    <3>3. CASE Overhear(p)
      <4>1. PICK has \in SUBSET Pieces : peer' = [peer EXCEPT ![p].has = has]
        BY <2>0, <3>3 DEF Overhear
      <4> DEFINE t == [peer[p] EXCEPT !.has = has]
      <4>2. t \in Peer /\ AnswersFor(t)
        BY <2>0, <3>3 DEF Overhear, Peer, AnswersFor, Claiming
      <4> QED
        BY <4>1, <4>2
    <3> QED
      BY <1>3, <3>1, <3>2, <3>3
  <2>2. peer' \in [Peers -> Peer] /\ \A q \in Peers : AnswersFor(peer'[q])
    BY <2>1, TaskTyped
  <2> QED
    BY <1>3, <2>2 DEF Greet, Hear, Overhear, Typed, TypeOK
<1>4. ASSUME Claim(p) PROVE Typed'
  <2>1. PICK i \in Claimable(p) :
          /\ peer' = [peer EXCEPT ![p].stage = "memory", ![p].piece = i]
          /\ inFlight' = [inFlight EXCEPT ![i] = @ + 1]
    BY <1>4 DEF Claim
  <2>2. i \in Required
    BY ClaimableWanted DEF Typed, TypeOK
  <2> DEFINE t == [peer[p] EXCEPT !.stage = "memory", !.piece = i]
  <2>3. t \in Peer /\ AnswersFor(t)
    <3>1. peer[p] \in Peer
      BY DEF Typed, TypeOK
    <3> QED
      BY <1>0, <2>2, <3>1 DEF Peer, AnswersFor, Claiming, Working
  <2>4. peer' \in [Peers -> Peer] /\ \A q \in Peers : AnswersFor(peer'[q])
    BY <2>1, <2>3, TaskTyped
  <2>5. inFlight' \in [Pieces -> Nat]
    BY <1>0, <2>1, <2>2 DEF Typed, TypeOK
  <2> QED
    BY <1>0, <1>4, <2>4, <2>5 DEF Claim, Typed, TypeOK
<1>5. ASSUME Listen(p) PROVE Typed'
  BY <1>0, <1>5, BecomesTyped DEF Listen, Typed, TypeOK, Working, Claiming
<1>6. ASSUME Wait(p) PROVE Typed'
  BY <1>0, <1>6 DEF Wait, Typed, TypeOK
<1>7. ASSUME Send(p) PROVE Typed'
  <2>1. peer[p].piece \in Required
    BY <1>7 DEF Send, Typed, AnswersFor, Claiming
  <2> QED
    BY <1>7, <2>1, BecomesTyped DEF Send, Typed, TypeOK, Working, Claiming
<1>8. ASSUME Complete(p) PROVE Typed'
  <2>1. peer[p].piece \in Required
    BY <1>8 DEF Complete, Typed, AnswersFor, Claiming
  <2> DEFINE t == [peer[p] EXCEPT !.stage = "loop", !.piece = NoPiece]
  <2>2. t \in Peer /\ AnswersFor(t)
    <3>1. peer[p] \in Peer
      BY DEF Typed, TypeOK
    <3> QED
      BY <3>1 DEF Peer, AnswersFor, Claiming, Working
  <2>3. peer' \in [Peers -> Peer] /\ \A q \in Peers : AnswersFor(peer'[q])
    BY <1>8, <2>2, TaskTyped DEF Complete
  <2> QED
    BY <1>0, <1>8, <2>1, <2>3 DEF Complete, Typed, TypeOK
<1> QED
  BY <1>1, <1>2, <1>3, <1>4, <1>5, <1>6, <1>7, <1>8 DEF PeerStep, PeerTalk

\* The steps of the loop keep the types.
LEMMA WriteTyped ==
  ASSUME TorrentAssumption, Typed, Write
  PROVE  Typed'
<1>1. channel \in Seq(Required) /\ channel # <<>>
  BY DEF Write, Typed, TypeOK
<1>2. Head(channel) \in Required /\ channel' \in Seq(Required)
  BY <1>1 DEF Write
<1>3. UNCHANGED diskVars \/ \E F \in SUBSET Finished(Head(channel)) : Stored(Head(channel), F)
  BY DEF Write, Written, WriteFails
<1>4. written' \subseteq Required /\ remaining' \in [Files -> Nat] /\ done' \subseteq Files
  <2>1. CASE UNCHANGED diskVars
    BY <2>1 DEF diskVars, Typed, TypeOK
  <2>2. CASE ~UNCHANGED diskVars
    <3>1. PICK F \in SUBSET Finished(Head(channel)) : Stored(Head(channel), F)
      BY <1>3, <2>2
    <3>2. remaining \in [Files -> Nat] /\ written \subseteq Required /\ done \subseteq Files
      BY DEF Typed, TypeOK
    <3>3. Charged(Head(channel)) \in [Files -> Nat]
      BY <3>2 DEF Charged
    <3>4. Finished(Head(channel)) \subseteq Files
      BY DEF Finished, Touched
    <3> QED
      BY <1>2, <3>1, <3>2, <3>3, <3>4 DEF Stored
  <2> QED
    BY <2>1, <2>2
<1>5. main' \in {"top", "drain", "failed"}
  BY DEF Write, Goes
<1> QED
  BY <1>2, <1>4, <1>5 DEF Write, Goes, schedVars, Ended, Typed, TypeOK

LEMMA AnnounceTyped ==
  ASSUME TorrentAssumption, Typed, Announce
  PROVE  Typed'
<1>1. PICK S \in SUBSET (Peers \ tried) : tried' = tried \cup S /\ peer' = Spawned(peer, S)
  BY DEF Announce
<1>3. peer' \in [Peers -> Peer] /\ \A p \in Peers : AnswersFor(peer'[p])
  BY <1>1, SpawnedTyped DEF Typed, TypeOK
<1>4. round' \in 0 .. TrackerRounds /\ main' \in {"top", "select", "exhausted"}
  BY DEF Announce, Typed, TypeOK, TorrentAssumption
<1> QED
  BY <1>1, <1>3, <1>4 DEF Announce, schedVars, diskVars, Ended, Typed, TypeOK

LEMMA NextTyped ==
  ASSUME TorrentAssumption, Typed, [Next]_vars
  PROVE  Typed'
<1> USE DEF Goes, Stops, schedVars, diskVars, loopVars
<1>1. ASSUME Finish \/ StopCancelled \/ Turn \/ GiveUp PROVE Typed'
  BY <1>1 DEF Finish, StopCancelled, Turn, GiveUp, Ended, Typed, TypeOK
<1>2. ASSUME NEW p \in Peers, Join(p) PROVE Typed'
  <2>1. peer' \in [Peers -> Peer] /\ \A q \in Peers : AnswersFor(peer'[q])
    BY <1>2, BecomesTyped DEF Join, Becomes, Over, Claiming
  <2> QED
    BY <1>2, <2>1 DEF Join, Ended, Typed, TypeOK
<1>3. ASSUME Cancel \/ UNCHANGED vars PROVE Typed'
  BY <1>3 DEF Cancel, vars, Typed, TypeOK, AnswersFor
<1> QED
  BY <1>1, <1>2, <1>3, WriteTyped, AnnounceTyped, TaskStepTyped DEF Next, MainStep

\* The scheduler, the tasks and the loop of a download keep their types (peer.rs, client.rs), for
\* any torrent, peers and limits.
THEOREM TorrentTypeCorrect == Spec => []TypeOK
<1>1. Init => Typed
  BY InitTyped, TorrentAssumption
<1>2. Typed /\ [Next]_vars => Typed'
  BY NextTyped, TorrentAssumption
<1>3. Typed => TypeOK
  BY DEF Typed
<1> QED
  BY <1>1, <1>2, <1>3, PTL DEF Spec

-----------------------------------------------------------------------------
(* The accounts *)

\* Types are kept, as a fact to be used with the other invariants.
LEMMA AlwaysTyped == Spec => []Typed
<1>1. Init => Typed
  BY InitTyped, TorrentAssumption
<1>2. Typed /\ [Next]_vars => Typed'
  BY NextTyped, TorrentAssumption
<1> QED
  BY <1>1, <1>2, PTL DEF Spec

-----------------------------------------------------------------------------
(* Scans *)

\* The part of the piece map that scan_from passed over (peer.rs) holds no piece that is still
\* wanted, whatever is claimed, given back, completed or raced for.
THEOREM ScansHideNothing == Spec => []ScanHidesNothing
<1>1. Init => ScanHidesNothing
  BY FinitePieces, TorrentAssumption DEF Init, ScanHidesNothing
<1>2. Typed /\ ScanHidesNothing /\ [Next]_vars => ScanHidesNothing'
  <2> SUFFICES ASSUME Typed, ScanHidesNothing, [Next]_vars PROVE ScanHidesNothing'
    OBVIOUS
  <2>1. \/ complete \subseteq complete' /\ scanStart' = scanStart
        \/ complete' = complete /\ scanStart' = ScanFrom
    <3> USE DEF Stops, Goes, Elsewhere, Leaves, schedVars
    <3>1. ASSUME MainStep \/ Cancel \/ UNCHANGED vars
          PROVE  complete' = complete /\ scanStart' = scanStart
      BY <3>1 DEF MainStep, Finish, StopCancelled, Turn, Write, Join, GiveUp, Announce, Cancel,
                  vars
    <3>2. ASSUME NEW p \in Peers, PeerStep(p) \/ PeerTalk(p) \/ Silence(p)
          PROVE  \/ complete \subseteq complete' /\ scanStart' = scanStart
                 \/ complete' = complete /\ scanStart' = ScanFrom
      BY <3>2 DEF PeerStep, PeerTalk, Connect, Retire, Claim, Listen, GetMemory, Receive, Lose,
                  Send, Complete, Cancelled, Greet, Hear, Overhear, Wait, Silence
    <3> QED
      BY <3>1, <3>2 DEF Next
  <2>2. scanStart \in 0 .. NPieces /\ Required \subseteq Nat
    BY FinitePieces, TorrentAssumption DEF Typed, TypeOK
  <2>3. CASE complete' = complete /\ scanStart' = ScanFrom
    <3> SUFFICES ASSUME NEW i \in Required, i < ScanFrom PROVE i \in complete
      BY <2>3 DEF ScanHidesNothing
    <3>1. ScanFrom \in Nat
      BY <2>2, ScanSkips, TorrentAssumption
    <3>2. CASE i < scanStart
      BY <3>2 DEF ScanHidesNothing
    <3>3. CASE i >= scanStart
      BY <2>2, <3>1, <3>3, ScanSkips, TorrentAssumption
    <3> QED
      BY <2>2, <3>2, <3>3
  <2> QED
    BY <2>1, <2>3 DEF ScanHidesNothing
<1> QED
  BY <1>1, <1>2, AlwaysTyped, PTL DEF Spec

-----------------------------------------------------------------------------
(* Files *)

\* A file waits for its pieces that are not on disk, and is announced when there is none,
\* until the disk fails.
FilesAccounted == main # "failed" =>
  /\ done = {f \in Files : Span[f] \subseteq written}
  /\ remaining = [f \in Files |-> Cardinality(Span[f] \ written)]

LEMMA InitFiles ==
  ASSUME TorrentAssumption, Init
  PROVE  FilesAccounted
<1>1. \A f \in Files : Span[f] \ written = Span[f]
  BY DEF Init
<1>2. done = {f \in Files : Span[f] \subseteq written}
  BY DEF Init
<1>3. remaining = [f \in Files |-> Cardinality(Span[f] \ written)]
  BY <1>1 DEF Init
<1> QED
  BY <1>2, <1>3 DEF FilesAccounted

\* One piece more on disk is one piece less to wait for, where it was waited for.
LEMMA OnePieceLess ==
  ASSUME NEW S, IsFiniteSet(S), NEW W, NEW i, i \notin W
  PROVE  /\ Cardinality(S \ W) \in Nat
         /\ i \in S => /\ Cardinality(S \ W) > 0
                       /\ Cardinality(S \ (W \cup {i})) = Cardinality(S \ W) - 1
                       /\ Cardinality(S \ W) <= 1 <=> S \subseteq W \cup {i}
         /\ i \notin S => S \ (W \cup {i}) = S \ W
<1>1. IsFiniteSet(S \ W) /\ Cardinality(S \ W) \in Nat
  BY FS_Difference, FS_CardinalityType
<1>2. ASSUME i \in S
      PROVE  /\ Cardinality(S \ W) > 0
             /\ Cardinality(S \ (W \cup {i})) = Cardinality(S \ W) - 1
             /\ Cardinality(S \ W) <= 1 <=> S \subseteq W \cup {i}
  <2>1. i \in S \ W /\ S \ (W \cup {i}) = (S \ W) \ {i}
    BY <1>2
  <2>2. IsFiniteSet((S \ W) \ {i}) /\ Cardinality((S \ W) \ {i}) = Cardinality(S \ W) - 1
    BY <1>1, <2>1, FS_RemoveElement
  <2>3. Cardinality((S \ W) \ {i}) \in Nat
    BY <2>2, FS_CardinalityType
  <2>4. Cardinality((S \ W) \ {i}) = 0 <=> (S \ W) \ {i} = {}
    BY <2>2, FS_EmptySet
  <2>5. (S \ W) \ {i} = {} <=> S \subseteq W \cup {i}
    BY <1>2
  <2> QED
    BY <1>1, <2>1, <2>2, <2>3, <2>4, <2>5
<1> QED
  BY <1>1, <1>2

\* write_completed_piece keeps the accounts: it charges each file of the piece once.
LEMMA WrittenFiles ==
  ASSUME TorrentAssumption, Typed, FilesAccounted, main # "failed",
         NEW i \in Required, i \notin written, Stored(i, Finished(i))
  PROVE  FilesAccounted'
<1>1. /\ written' = written \cup {i}
      /\ remaining' = [f \in Files |-> IF f \in Touched(i) /\ remaining[f] > 0
                                       THEN remaining[f] - 1 ELSE remaining[f]]
      /\ done' = done \cup {f \in Touched(i) : remaining[f] <= 1}
  BY DEF Stored, Charged, Finished
<1>2. \A f \in Files : IsFiniteSet(Span[f])
  BY FinitePieces DEF TorrentAssumption
<1>3. Touched(i) = {f \in Files : i \in Span[f]}
  BY DEF Touched, FilesAccounted
<1>4. ASSUME NEW f \in Files
      PROVE  /\ remaining'[f] = Cardinality(Span[f] \ written')
             /\ f \in done' <=> Span[f] \subseteq written'
  <2>1. remaining[f] = Cardinality(Span[f] \ written) /\ (f \in done <=> Span[f] \subseteq written)
    BY DEF FilesAccounted
  <2>2. CASE i \in Span[f]
    <3>1. f \in Touched(i)
      BY <1>3, <2>2
    <3>2. /\ Cardinality(Span[f] \ written) \in Nat /\ Cardinality(Span[f] \ written) > 0
          /\ Cardinality(Span[f] \ written') = Cardinality(Span[f] \ written) - 1
          /\ Cardinality(Span[f] \ written) <= 1 <=> Span[f] \subseteq written'
      <4> DEFINE S == Span[f]
      <4>1. IsFiniteSet(S) /\ i \in S
        BY <1>2, <2>2
      <4> HIDE DEF S
      <4>2. Cardinality(S \ written) \in Nat
        BY <4>1, OnePieceLess
      <4>3. Cardinality(S \ written) > 0
        BY <4>1, OnePieceLess
      <4>4. Cardinality(S \ (written \cup {i})) = Cardinality(S \ written) - 1
        BY <4>1, OnePieceLess
      <4>5. Cardinality(S \ written) <= 1 <=> S \subseteq written \cup {i}
        BY <4>1, OnePieceLess
      <4> QED
        BY <1>1, <4>2, <4>3, <4>4, <4>5 DEF S
    <3>3. remaining'[f] = remaining[f] - 1
      BY <1>1, <2>1, <3>1, <3>2
    <3>4. f \in done' <=> f \in done \/ remaining[f] <= 1
      BY <1>1, <3>1
    <3>5. f \in done => Span[f] \subseteq written'
      BY <1>1, <2>1
    <3> QED
      BY <2>1, <3>2, <3>3, <3>4, <3>5
  <2>3. CASE i \notin Span[f]
    <3>1. f \notin Touched(i) /\ Span[f] \ written' = Span[f] \ written
      BY <1>1, <1>3, <2>3
    <3>2. Span[f] \subseteq written' <=> Span[f] \subseteq written
      BY <1>1, <2>3
    <3> QED
      BY <1>1, <2>1, <3>1, <3>2
  <2> QED
    BY <2>2, <2>3
<1>5. done' = {f \in Files : Span[f] \subseteq written'}
  <2>1. done' \subseteq Files
    BY <1>1, <1>3 DEF Typed, TypeOK
  <2> QED
    BY <1>4, <2>1
<1>6. remaining' = [f \in Files |-> Cardinality(Span[f] \ written')]
  BY <1>1, <1>4
<1> QED
  BY <1>5, <1>6 DEF FilesAccounted

\* Only the loop touches the disk, and only by taking a piece out of the channel.
LEMMA OnlyWriteWrites ==
  ASSUME [Next]_vars, ~Write
  PROVE  UNCHANGED diskVars
<1> USE DEF Stops, Goes, Elsewhere, Leaves, diskVars
<1>1. ASSUME MainStep \/ Cancel \/ UNCHANGED vars PROVE UNCHANGED diskVars
  BY <1>1 DEF MainStep, Finish, StopCancelled, Turn, Join, GiveUp, Announce, Cancel, vars
<1>2. ASSUME NEW p \in Peers, PeerStep(p) \/ PeerTalk(p) \/ Silence(p) PROVE UNCHANGED diskVars
  BY <1>2 DEF PeerStep, PeerTalk, Connect, Retire, Claim, Listen, GetMemory, Receive, Lose,
              Send, Complete, Cancelled, Greet, Hear, Overhear, Wait, Silence
<1> QED
  BY <1>1, <1>2 DEF Next

\* A write puts a wanted piece on disk that was not, or leaves the disk alone.
LEMMA WriteWrites ==
  ASSUME Typed, Write, ~UNCHANGED diskVars
  PROVE  /\ main \notin Ended
         /\ \E i \in Required \ written :
              \/ main' \notin Ended /\ Stored(i, Finished(i))
              \/ main' = "failed" /\ \E F \in SUBSET Finished(i) : Stored(i, F)
<1>1. Head(channel) \in Required
  BY DEF Write, Typed, TypeOK
<1>2. main \notin Ended
  BY DEF Write, Ended
<1>3. CASE Written(Head(channel)) /\ main' \in {"top", "drain"}
  <2>1. Head(channel) \in Required \ written /\ Stored(Head(channel), Finished(Head(channel)))
    BY <1>1, <1>3 DEF Written
  <2>2. main' \notin Ended
    BY <1>3 DEF Ended
  <2> QED
    BY <1>2, <2>1, <2>2
<1>4. CASE WriteFails(Head(channel)) /\ main' = "failed"
  <2> DEFINE i == Head(channel)
  <2>1. i \in Required \ written
    BY <1>1, <1>4 DEF WriteFails
  <2>2. PICK F \in SUBSET Finished(i) : Stored(i, F)
    BY <1>4 DEF WriteFails
  <2> HIDE DEF i
  <2> QED
    BY <1>2, <1>4, <2>1, <2>2
<1> QED
  BY <1>2, <1>3, <1>4 DEF Write, Goes

\* How the loop of download_inner may end
LEMMA HowItEnds ==
  ASSUME [Next]_vars, main' # main, main \in Ended \/ main' \in Ended
  PROVE  /\ main \notin Ended /\ (main' # "failed" => UNCHANGED diskVars)
         /\ main' = "done" => AllWritten
         /\ main' = "exhausted" => ~AllWritten
<1> USE DEF Stops, Goes, Elsewhere, Leaves, diskVars, loopVars, Ended
<1>1. ASSUME MainStep
      PROVE  /\ main \notin Ended /\ (main' # "failed" => UNCHANGED diskVars)
             /\ (main' = "done" => AllWritten) /\ (main' = "exhausted" => ~AllWritten)
  BY <1>1 DEF MainStep, Finish, StopCancelled, Turn, Join, Write, GiveUp, Announce, Exhausted
<1>2. ASSUME Cancel \/ UNCHANGED vars PROVE FALSE
  BY <1>2 DEF Cancel, vars
<1>3. ASSUME NEW p \in Peers, PeerStep(p) \/ PeerTalk(p) \/ Silence(p) PROVE FALSE
  BY <1>3 DEF PeerStep, PeerTalk, Connect, Retire, Claim, Listen, GetMemory, Receive, Lose,
              Send, Complete, Cancelled, Greet, Hear, Overhear, Wait, Silence
<1> QED
  BY <1>1, <1>2, <1>3 DEF Next

\* Files that a piece finishes lie on no other piece that is missing.
LEMMA FinishedWhole ==
  ASSUME TorrentAssumption, Typed, FilesAccounted, main # "failed",
         NEW i \in Required, i \notin written
  PROVE  Finished(i) \subseteq {f \in Files : Span[f] \subseteq written \cup {i}}
<1> SUFFICES ASSUME NEW f \in Finished(i) PROVE f \in Files /\ Span[f] \subseteq written \cup {i}
  OBVIOUS
<1>1. f \in Files /\ i \in Span[f] /\ Cardinality(Span[f] \ written) <= 1
  BY DEF Finished, Touched, FilesAccounted
<1> DEFINE S == Span[f]
<1>2. IsFiniteSet(S) /\ i \in S
  BY <1>1, FinitePieces DEF TorrentAssumption
<1> HIDE DEF S
<1>3. Cardinality(S \ written) <= 1 <=> S \subseteq written \cup {i}
  BY <1>2, OnePieceLess
<1> QED
  BY <1>1, <1>3 DEF S

LEMMA NextFiles ==
  ASSUME TorrentAssumption, Typed, FilesAccounted, [Next]_vars
  PROVE  FilesAccounted'
<1> SUFFICES ASSUME main' # "failed" PROVE FilesAccounted'
  BY DEF FilesAccounted
<1>1. main # "failed"
  BY HowItEnds DEF Ended
<1>2. CASE UNCHANGED diskVars
  BY <1>1, <1>2 DEF diskVars, FilesAccounted
<1>3. CASE ~UNCHANGED diskVars
  <2>1. PICK i \in Required \ written : Stored(i, Finished(i))
    BY <1>3, OnlyWriteWrites, WriteWrites
  <2> QED
    BY <1>1, <2>1, WrittenFiles
<1> QED
  BY <1>2, <1>3

LEMMA AlwaysFiles == Spec => []FilesAccounted
<1>1. Init => FilesAccounted
  BY InitFiles, TorrentAssumption
<1>2. Typed /\ FilesAccounted /\ [Next]_vars => FilesAccounted'
  BY NextFiles, TorrentAssumption
<1> QED
  BY <1>1, <1>2, AlwaysTyped, PTL DEF Spec

\* The loop counts: as many pieces on disk as are wanted is all that are wanted.
LEMMA AllWrittenMeansAll ==
  ASSUME TorrentAssumption, Typed
  PROVE  AllWritten <=> written = Required
<1>1. IsFiniteSet(Required) /\ written \subseteq Required
  BY FinitePieces DEF Typed, TypeOK
<1>2. Cardinality(Required) \in Nat /\ Cardinality(written) \in Nat
  BY <1>1, FS_Subset, FS_CardinalityType
<1>3. Cardinality(written) <= Cardinality(Required)
      /\ (Cardinality(written) = Cardinality(Required) => written = Required)
  BY <1>1, FS_Subset
<1> QED
  BY <1>2, <1>3 DEF AllWritten

\* A download implements its promise: write_completed_piece and the event DownloadEvent::FileComplete
\* (client.rs) announce a file with its last piece, and a download that returns well has all.
THEOREM DownloadDelivers == Spec => Delivers
<1> USE DEF Delivery!Wanted, Delivery!Whole, Required
<1>1. Init => Delivery!Init
  BY DEF Init, Delivery!Init, Ended
<1>2. Typed /\ FilesAccounted /\ FilesAccounted' /\ [Next]_vars => [Delivery!Next]_(Delivery!vars)
  <2> SUFFICES ASSUME Typed, FilesAccounted, FilesAccounted', [Next]_vars
               PROVE  [Delivery!Next]_(Delivery!vars)
    OBVIOUS
  <2> USE DEF Delivery!Next, Delivery!vars
  <2>1. CASE UNCHANGED diskVars
    <3>1. CASE main' # main /\ (main \in Ended \/ main' \in Ended)
      <4>1. /\ main \notin Ended /\ (main' = "done" => written = Required)
            /\ main' = "exhausted" => written # Required
        BY <3>1, HowItEnds, AllWrittenMeansAll, TorrentAssumption
      <4> QED
        BY <2>1, <3>1, <4>1 DEF diskVars, Ended, Delivery!End, Delivery!Succeed,
           Delivery!Exhaust, Delivery!Break
    <3>2. CASE ~(main' # main /\ (main \in Ended \/ main' \in Ended))
      BY <2>1, <3>2 DEF diskVars
    <3> QED
      BY <3>1, <3>2
  <2>2. CASE ~UNCHANGED diskVars
    <3>1. PICK i \in Required \ written :
            \/ main' \notin Ended /\ Stored(i, Finished(i))
            \/ main' = "failed" /\ \E F \in SUBSET Finished(i) : Stored(i, F)
      BY <2>2, OnlyWriteWrites, WriteWrites
    <3>2. main \notin Ended
      BY <2>2, OnlyWriteWrites, WriteWrites
    <3>3. CASE main' \notin Ended /\ Stored(i, Finished(i))
      <4>1. Delivery!Arrive
        BY <3>2, <3>3 DEF FilesAccounted, Stored, Delivery!Arrive, Ended
      <4> QED
        BY <4>1
    <3>4. CASE main' = "failed" /\ \E F \in SUBSET Finished(i) : Stored(i, F)
      <4>1. PICK F \in SUBSET Finished(i) : Stored(i, F)
        BY <3>4
      <4>2. Stored(i, F) /\ F \subseteq {f \in Files : Span[f] \subseteq written \cup {i}}
        BY <3>2, <4>1, FinishedWhole, TorrentAssumption DEF Ended
      <4> QED
        BY <3>2, <3>4, <4>2 DEF Stored, Delivery!End, Delivery!BreakOnArrival, Ended
    <3> QED
      BY <3>1, <3>3, <3>4
  <2> QED
    BY <2>1, <2>2
<1> QED
  BY <1>1, <1>2, AlwaysTyped, AlwaysFiles, PTL DEF Spec, Delivers, Delivery!Spec

-----------------------------------------------------------------------------
(* Pieces on their way *)

\* What tasks have handed over and not yet called complete
Handed == {peer[p].piece : p \in {q \in Peers : peer[q].stage = "sent"}}
Queued == {channel[k] : k \in DOMAIN channel}

\* Unless the disk failed, what is complete or handed over is on disk or in the channel; and
\* nothing else is.  The loop drains only when no task is left.
PiecesAccounted ==
  /\ main # "failed" => complete \cup Handed \subseteq written \cup Queued
  /\ written \cup Queued \subseteq complete \cup Handed
  /\ main \in {"drain", "exhausted"} => Tasks = {}

LEMMA ChannelEnds ==
  ASSUME NEW S, channel \in Seq(S)
  PROVE  /\ channel # <<>> => Queued = {Head(channel)} \cup {Tail(channel)[k] : k \in DOMAIN Tail(channel)}
         /\ channel = <<>> => Queued = {}
         /\ \A i \in S : {Append(channel, i)[k] : k \in DOMAIN Append(channel, i)} = Queued \cup {i}
<1>1. ASSUME channel # <<>>
      PROVE  Queued = {Head(channel)} \cup {Tail(channel)[k] : k \in DOMAIN Tail(channel)}
  <2>1. /\ Len(channel) \in Nat \ {0} /\ DOMAIN channel = 1 .. Len(channel)
        /\ Head(channel) = channel[1]
        /\ DOMAIN Tail(channel) = 1 .. Len(channel) - 1
        /\ \A k \in 1 .. Len(channel) - 1 : Tail(channel)[k] = channel[k + 1]
    BY <1>1
  <2>2. \A k \in 1 .. Len(channel) : k = 1 \/ (k - 1 \in 1 .. Len(channel) - 1 /\ (k - 1) + 1 = k)
    BY <2>1
  <2>3. Queued \subseteq {Head(channel)} \cup {Tail(channel)[k] : k \in DOMAIN Tail(channel)}
    <3> SUFFICES ASSUME NEW k \in 1 .. Len(channel), k # 1
                 PROVE  channel[k] \in {Tail(channel)[j] : j \in DOMAIN Tail(channel)}
      BY <2>1 DEF Queued
    <3> DEFINE j == k - 1
    <3>1. j \in DOMAIN Tail(channel) /\ channel[k] = Tail(channel)[j]
      BY <2>1, <2>2
    <3> QED
      BY <3>1
  <2>4. {Head(channel)} \cup {Tail(channel)[k] : k \in DOMAIN Tail(channel)} \subseteq Queued
    BY <2>1 DEF Queued
  <2> QED
    BY <2>3, <2>4
<1>2. ASSUME NEW i \in S
      PROVE  {Append(channel, i)[k] : k \in DOMAIN Append(channel, i)} = Queued \cup {i}
  <2>1. /\ Len(channel) \in Nat /\ DOMAIN channel = 1 .. Len(channel)
        /\ DOMAIN Append(channel, i) = 1 .. Len(channel) + 1
        /\ \A k \in 1 .. Len(channel) : Append(channel, i)[k] = channel[k]
        /\ Append(channel, i)[Len(channel) + 1] = i
    OBVIOUS
  <2> QED
    BY <2>1 DEF Queued
<1>3. channel = <<>> => Queued = {}
  BY DEF Queued
<1> QED
  BY <1>1, <1>2, <1>3

\* A step in which no task hands a piece over or calls one complete
LEMMA QuietStep ==
  ASSUME \A q \in Peers : IF peer[q].stage = "sent" THEN peer'[q] = peer[q]
                                                   ELSE peer'[q].stage # "sent",
         UNCHANGED <<complete, channel, written>>, main' # "failed" => main # "failed",
         main' \in {"drain", "exhausted"} => Tasks' = {},
         PiecesAccounted
  PROVE  PiecesAccounted'
<1>1. Handed' = Handed
  BY DEF Handed
<1> QED
  BY <1>1 DEF PiecesAccounted, Queued

\* The steps of a task
LEMMA TaskStepPieces ==
  ASSUME TorrentAssumption, Typed, PiecesAccounted, NEW p \in Peers,
         PeerStep(p) \/ PeerTalk(p) \/ Silence(p)
  PROVE  PiecesAccounted'
<1> USE DEF AtStage, Elsewhere, schedVars, diskVars, loopVars
<1>0. /\ peer \in [Peers -> Peer] /\ channel \in Seq(Required) /\ AnswersFor(peer[p])
      /\ main \notin {"drain", "exhausted"}
  <2>1. peer[p].stage \in Working
    BY DEF PeerStep, PeerTalk, Connect, Retire, Claim, Listen, GetMemory, Receive, Lose,
           Send, Complete, Cancelled, Greet, Hear, Overhear, Wait, Silence, Working
  <2> QED
    BY <2>1 DEF PiecesAccounted, Tasks, Typed, TypeOK
<1>1. ASSUME \/ Connect(p) \/ Listen(p) \/ GetMemory(p) \/ Receive(p)
             \/ Retire(p) \/ Lose(p) \/ Cancelled(p) \/ Silence(p)
             \/ Claim(p) \/ Greet(p) \/ Overhear(p) \/ Wait(p)
      PROVE  PiecesAccounted'
  <2>1. /\ peer[p].stage # "sent" /\ peer'[p].stage # "sent"
        /\ \A q \in Peers \ {p} : peer'[q] = peer[q]
        /\ UNCHANGED <<complete, channel, written, main>>
    <3>1. CASE Connect(p) \/ Listen(p) \/ GetMemory(p) \/ Receive(p)
      BY <1>0, <3>1 DEF Connect, Listen, GetMemory, Receive, Becomes, Peer
    <3>2. CASE Retire(p) \/ Lose(p) \/ Cancelled(p) \/ Silence(p)
      BY <1>0, <3>2 DEF Retire, Lose, Cancelled, Silence, Leaves, Fresh
    <3>3. CASE Claim(p)
      <4>1. PICK i : peer' = [peer EXCEPT ![p].stage = "memory", ![p].piece = i]
        BY <3>3 DEF Claim
      <4> DEFINE t == [peer[p] EXCEPT !.stage = "memory", !.piece = i]
      <4>2. peer' = [peer EXCEPT ![p] = t] /\ t.stage = "memory"
        BY <1>0, <4>1 DEF Peer
      <4> QED
        BY <1>0, <3>3, <4>2 DEF Claim
    <3>4. CASE Greet(p)
      <4>1. PICK has : peer' = [peer EXCEPT ![p].stage = "loop", ![p].has = has, ![p].choked = FALSE]
        BY <3>4 DEF Greet
      <4> DEFINE t == [peer[p] EXCEPT !.stage = "loop", !.has = has, !.choked = FALSE]
      <4>2. peer' = [peer EXCEPT ![p] = t] /\ t.stage = "loop"
        BY <1>0, <4>1 DEF Peer
      <4> QED
        BY <1>0, <3>4, <4>2 DEF Greet
    <3>5. CASE Overhear(p) \/ Wait(p)
      BY <1>0, <3>5 DEF Overhear, Wait, Peer
    <3> QED
      BY <1>1, <3>1, <3>2, <3>3, <3>4, <3>5
  <2> QED
    BY <1>0, <2>1, QuietStep
<1>2. ASSUME Hear(p) PROVE PiecesAccounted'
  <2>1. PICK heard : peer' = [peer EXCEPT ![p] = [heard EXCEPT !.stage = "loop"]]
                     /\ heard \in {[peer[p] EXCEPT !.choked = c] : c \in BOOLEAN}
                                  \cup {[peer[p] EXCEPT !.has = has] : has \in Offers}
    BY <1>2 DEF Hear
  <2>2. peer'[p].stage = "loop"
    BY <1>0, <2>1 DEF Peer
  <2> QED
    BY <1>0, <1>2, <2>1, <2>2, QuietStep DEF Hear
<1>3. ASSUME Send(p) PROVE PiecesAccounted'
  <2>1. peer[p].piece \in Required /\ channel' = Append(channel, peer[p].piece)
    BY <1>0, <1>3 DEF Send, AnswersFor, Claiming
  <2>2. Queued' = Queued \cup {peer[p].piece}
    BY <1>0, <2>1, ChannelEnds, SMTT(30) DEF Queued
  <2>3. /\ peer[p].stage # "sent" /\ peer'[p].stage = "sent" /\ peer'[p].piece = peer[p].piece
        /\ \A q \in Peers \ {p} : peer'[q] = peer[q]
    BY <1>0, <1>3 DEF Send, Becomes, Peer
  <2>4. Handed' = Handed \cup {peer[p].piece}
    BY <2>3 DEF Handed
  <2> QED
    BY <1>0, <1>3, <2>2, <2>4 DEF Send, PiecesAccounted
<1>4. ASSUME Complete(p) PROVE PiecesAccounted'
  <2>1. /\ peer[p].stage = "sent" /\ peer'[p].stage = "loop"
        /\ \A q \in Peers \ {p} : peer'[q] = peer[q]
    BY <1>0, <1>4 DEF Complete, Peer
  <2>2. complete' = complete \cup {peer[p].piece}
    BY <1>4 DEF Complete
  <2>3. peer[p].piece \in Handed /\ Handed' \subseteq Handed /\ Handed \subseteq Handed' \cup {peer[p].piece}
    BY <2>1 DEF Handed
  <2> QED
    BY <1>0, <1>4, <2>2, <2>3 DEF Complete, PiecesAccounted, Queued
<1> QED
  BY <1>1, <1>2, <1>3, <1>4 DEF PeerStep, PeerTalk

\* The steps of the loop
LEMMA WritePieces ==
  ASSUME TorrentAssumption, Typed, PiecesAccounted, Write
  PROVE  PiecesAccounted'
<1>1. channel \in Seq(Required) /\ channel # <<>> /\ channel' = Tail(channel)
  BY DEF Write, Typed, TypeOK
<1>2. Queued = {Head(channel)} \cup Queued'
  <2>1. Queued' = {Tail(channel)[k] : k \in DOMAIN Tail(channel)}
    BY <1>1 DEF Queued
  <2>2. Queued = {Head(channel)} \cup {Tail(channel)[k] : k \in DOMAIN Tail(channel)}
    BY <1>1, ChannelEnds
  <2> QED
    BY <2>1, <2>2
<1>3. Handed' = Handed /\ Tasks' = Tasks /\ complete' = complete
  BY DEF Write, schedVars, Handed, Tasks
<1>4. main # "failed" /\ (main' \in {"drain", "exhausted"} => main = "drain")
  BY DEF Write, Goes
<1>5. \/ main' = "failed" /\ written' = written
      \/ written' = written \cup {Head(channel)}
  BY DEF Write, Written, WriteFails, Stored, Goes, diskVars
<1> QED
  BY <1>2, <1>3, <1>4, <1>5 DEF PiecesAccounted

LEMMA NextPieces ==
  ASSUME TorrentAssumption, Typed, PiecesAccounted, [Next]_vars
  PROVE  PiecesAccounted'
<1> USE DEF Goes, Stops, schedVars, diskVars, loopVars
<1>1. ASSUME Finish \/ StopCancelled \/ Turn \/ GiveUp PROVE PiecesAccounted'
  <2>1. Handed' = Handed /\ Tasks' = Tasks /\ Queued' = Queued
    BY <1>1 DEF Finish, StopCancelled, Turn, GiveUp, Handed, Tasks, Queued
  <2>2. main # "failed" /\ (main' \in {"drain", "exhausted"} => Tasks = {})
    BY <1>1 DEF Finish, StopCancelled, Turn, GiveUp, Exhausted, PiecesAccounted
  <2> QED
    BY <1>1, <2>1, <2>2 DEF Finish, StopCancelled, Turn, GiveUp, PiecesAccounted
<1>2. ASSUME NEW p \in Peers, Join(p) PROVE PiecesAccounted'
  <2>1. /\ peer[p].stage # "sent" /\ peer'[p].stage # "sent"
        /\ \A q \in Peers \ {p} : peer'[q] = peer[q]
    BY <1>2 DEF Join, Over, Typed, TypeOK, Peer
  <2> QED
    BY <1>2, <2>1, QuietStep DEF Join
<1>3. ASSUME Announce PROVE PiecesAccounted'
  <2>1. PICK S \in SUBSET (Peers \ tried) :
          peer' = Spawned(peer, S) /\ (main' = "exhausted" => S = {})
    BY <1>3 DEF Announce
  <2>2. \A q \in Peers : peer[q].stage # "sent"
    BY <1>3 DEF Announce, Exhausted, PiecesAccounted, Tasks, Working
  <2>3. \A q \in Peers : peer'[q].stage # "sent"
    BY <2>1, <2>2 DEF Spawned, Fresh
  <2>4. main' \in {"drain", "exhausted"} => Tasks' = {}
    <3>1. main' \in {"drain", "exhausted"} => S = {}
      BY <1>3, <2>1 DEF Announce
    <3>2. S = {} => \A q \in Peers : peer'[q] = peer[q]
      BY <2>1 DEF Spawned
    <3> QED
      BY <1>3, <3>1, <3>2 DEF Announce, Exhausted, PiecesAccounted, Tasks
  <2> QED
    BY <1>3, <2>2, <2>3, <2>4, QuietStep DEF Announce, Exhausted
<1>4. ASSUME Cancel \/ UNCHANGED vars PROVE PiecesAccounted'
  BY <1>4 DEF Cancel, vars, PiecesAccounted, Handed, Queued, Tasks
<1> QED
  BY <1>1, <1>2, <1>3, <1>4, WritePieces, TaskStepPieces DEF Next, MainStep

LEMMA AlwaysPieces == Spec => []PiecesAccounted
<1>1. Init => PiecesAccounted
  <2> SUFFICES ASSUME Init PROVE PiecesAccounted
    OBVIOUS
  <2>1. \A p \in Peers : peer[p].stage # "sent"
    BY DEF Init, Spawned, Fresh
  <2>2. Handed = {} /\ Queued = {}
    BY <2>1 DEF Init, Handed, Queued
  <2> QED
    BY <2>2 DEF Init, PiecesAccounted
<1>2. Typed /\ PiecesAccounted /\ [Next]_vars => PiecesAccounted'
  BY NextPieces, TorrentAssumption
<1> QED
  BY <1>1, <1>2, AlwaysTyped, PTL DEF Spec

\* The scheduler calls a piece complete only after the loop was handed it (peer.rs), so no piece
\* that nobody will claim again is still to come.
THEOREM NoPieceIsLost == Spec => []CompleteIsDelivered
<1>1. PiecesAccounted => CompleteIsDelivered
  BY DEF PiecesAccounted, CompleteIsDelivered, Queued
<1> QED
  BY <1>1, AlwaysPieces, PTL

\* The loop of download_inner (client.rs) gives up for want of peers only when no task is left, the
\* channel is empty and a piece is missing that no task completed.
THEOREM GivingUpIsJust == Spec => []ExhaustedMeansMissing
<1> DEFINE Drained == main = "exhausted" => channel = <<>> /\ written # Required
<1>1. Init => Drained
  BY DEF Init
<1>2. Typed /\ Drained /\ [Next]_vars => Drained'
  <2> SUFFICES ASSUME Typed, Drained, [Next]_vars, main' = "exhausted"
               PROVE  channel' = <<>> /\ written' # Required
    OBVIOUS
  <2>1. CASE main = "exhausted"
    <3>1. main' = main /\ ~Write
      BY <2>1, HowItEnds DEF Write, Ended
    <3>2. UNCHANGED channel /\ UNCHANGED written
      <4>1. ASSUME NEW p \in Peers, PeerStep(p) \/ PeerTalk(p) \/ Silence(p)
            PROVE  FALSE
        BY <2>1, <4>1 DEF PeerStep, PeerTalk, Connect, Retire, Claim, Listen, GetMemory, Receive,
           Lose, Send, Complete, Cancelled, Greet, Hear, Overhear, Wait, Silence, AtStage, Running,
           Ended
      <4>2. ASSUME MainStep PROVE FALSE
        BY <2>1, <4>2 DEF MainStep, Finish, StopCancelled, Turn, Write, Join, GiveUp, Announce,
           Exhausted
      <4>3. ASSUME Cancel \/ UNCHANGED vars PROVE UNCHANGED channel /\ UNCHANGED written
        BY <4>3 DEF Cancel, vars, diskVars
      <4> QED
        BY <4>1, <4>2, <4>3 DEF Next
    <3> QED
      BY <2>1, <3>2
  <2>2. CASE main # "exhausted"
    <3>1. ~AllWritten /\ UNCHANGED diskVars
      BY <2>2, HowItEnds DEF Ended
    <3>2. channel' = <<>>
      <4> USE DEF Stops, Goes, Elsewhere, Leaves, loopVars
      <4>1. ASSUME MainStep PROVE channel' = <<>>
        BY <2>2, <4>1 DEF MainStep, Finish, StopCancelled, Turn, Write, Join, GiveUp, Announce,
           Exhausted
      <4>2. ASSUME Cancel \/ UNCHANGED vars PROVE FALSE
        BY <2>2, <4>2 DEF Cancel, vars
      <4>3. ASSUME NEW p \in Peers, PeerStep(p) \/ PeerTalk(p) \/ Silence(p) PROVE FALSE
        BY <2>2, <4>3 DEF PeerStep, PeerTalk, Connect, Retire, Claim, Listen, GetMemory, Receive,
           Lose, Send, Complete, Cancelled, Greet, Hear, Overhear, Wait, Silence
      <4> QED
        BY <4>1, <4>2, <4>3 DEF Next
    <3> QED
      BY <3>1, <3>2, AllWrittenMeansAll, TorrentAssumption DEF diskVars
  <2> QED
    BY <2>1, <2>2
<1>3. PiecesAccounted /\ Drained => ExhaustedMeansMissing
  <2> SUFFICES ASSUME PiecesAccounted, Drained, main = "exhausted"
               PROVE  channel = <<>> /\ Tasks = {} /\ complete = written /\ written # Required
    BY DEF ExhaustedMeansMissing
  <2>1. Queued = {} /\ Tasks = {}
    BY DEF Queued, PiecesAccounted
  <2>2. Handed = {}
    BY <2>1 DEF Handed, Tasks, Working
  <2> QED
    BY <2>1, <2>2 DEF PiecesAccounted
<1> QED
  BY <1>1, <1>2, <1>3, AlwaysTyped, AlwaysPieces, PTL DEF Spec

-----------------------------------------------------------------------------
(* Claims *)

LEMMA FiniteHolders ==
  ASSUME TorrentAssumption, NEW i
  PROVE  IsFiniteSet(Holders(i)) /\ Cardinality(Holders(i)) \in Nat
  BY FS_Subset, FS_CardinalityType DEF Holders, TorrentAssumption

\* A task that takes, keeps or gives back a piece
LEMMA HoldersMove ==
  ASSUME Typed, NEW p \in Peers, NEW t, peer' = [peer EXCEPT ![p] = t]
  PROVE  \A i : Holders(i)' = IF t.piece = i THEN Holders(i) \cup {p} ELSE Holders(i) \ {p}
  BY DEF Holders, Typed, TypeOK

\* Steps that give no task a claim keep the rule about duplicates.
LEMMA FewerHolders ==
  ASSUME TorrentAssumption, Typed, Typed', DuplicateOnlyAtEnd, complete \subseteq complete',
         \A i \in Required \ complete' : Holders(i)' \subseteq Holders(i)
  PROVE  DuplicateOnlyAtEnd'
<1> SUFFICES ASSUME NEW i \in Required \ complete', Cardinality(Holders(i)') > 1
             PROVE  /\ complete' # {} /\ Cardinality(Required \ complete') <= EndgamePieces
                    /\ Cardinality(Holders(i)') <= EndgameCopies
  BY DEF DuplicateOnlyAtEnd
<1>1. Cardinality(Holders(i)') <= Cardinality(Holders(i)) /\ Cardinality(Holders(i)') \in Nat
      /\ Cardinality(Holders(i)) \in Nat
  BY FiniteHolders, FS_Subset, FS_CardinalityType
<1>2. i \in Required \ complete /\ Cardinality(Holders(i)) > 1
  BY <1>1
<1>3. /\ Cardinality(Required \ complete') <= Cardinality(Required \ complete)
      /\ Cardinality(Required \ complete') \in Nat /\ Cardinality(Required \ complete) \in Nat
  <2>1. IsFiniteSet(Required \ complete) /\ Required \ complete' \subseteq Required \ complete
    BY FinitePieces, FS_Subset
  <2> QED
    BY <2>1, FS_Subset, FS_CardinalityType
<1>4. /\ complete # {} /\ Cardinality(Required \ complete) <= EndgamePieces
      /\ Cardinality(Holders(i)) <= EndgameCopies
  BY <1>2 DEF DuplicateOnlyAtEnd
<1> QED
  BY <1>1, <1>3, <1>4 DEF TorrentAssumption

\* claim_for_peer_inner: one task more answers for the piece, alone unless the end is near.
LEMMA ClaimAccounts ==
  ASSUME TorrentAssumption, Typed, ClaimsAccounted, DuplicateOnlyAtEnd, NEW p \in Peers, Claim(p)
  PROVE  ClaimsAccounted' /\ DuplicateOnlyAtEnd'
<1>1. PICK j \in Claimable(p) :
        /\ peer' = [peer EXCEPT ![p].stage = "memory", ![p].piece = j]
        /\ inFlight' = [inFlight EXCEPT ![j] = @ + 1]
  BY DEF Claim
<1> DEFINE t == [peer[p] EXCEPT !.stage = "memory", !.piece = j]
<1>2. t.piece = j /\ peer' = [peer EXCEPT ![p] = t]
  <2>1. peer[p] \in Peer
    BY DEF Typed, TypeOK
  <2> QED
    BY <1>1, <2>1 DEF Typed, TypeOK, Peer
<1> HIDE DEF t
<1>3. peer[p].piece = NoPiece
  BY DEF Claim, AtStage, Typed, AnswersFor, Claiming
<1>4. /\ j \in Required \ complete /\ complete' = complete
      /\ inFlight[j] = 0 \/ (Endgame /\ inFlight[j] < EndgameCopies)
      /\ Required \subseteq Pieces /\ NoPiece \notin Pieces /\ inFlight \in [Pieces -> Nat]
  BY ClaimableWanted, FinitePieces DEF Claim, Typed, TypeOK
<1>5. \A i \in Required : i # j => Holders(i)' = Holders(i)
  BY <1>2, <1>3, <1>4, HoldersMove DEF Holders
<1>6. Cardinality(Holders(j)') = Cardinality(Holders(j)) + 1 /\ Cardinality(Holders(j)) \in Nat
  <2>1. Holders(j)' = Holders(j) \cup {p}
    BY <1>2, HoldersMove
  <2>2. p \notin Holders(j)
    BY <1>3, <1>4 DEF Holders
  <2>3. IsFiniteSet(Holders(j)) /\ Cardinality(Holders(j)) \in Nat
    BY FiniteHolders
  <2>4. Cardinality(Holders(j) \cup {p}) = Cardinality(Holders(j)) + 1
    BY <2>3, <2>2, FS_AddElement
  <2> QED
    BY <2>1, <2>3, <2>4
<1>7. ClaimsAccounted'
  BY <1>1, <1>4, <1>5, <1>6 DEF ClaimsAccounted
<1>8. Endgame => complete # {} /\ Cardinality(Required \ complete) <= EndgamePieces
  <2>1. IsFiniteSet(Required) /\ complete \subseteq Required
    BY FinitePieces DEF Typed, TypeOK
  <2>2. Cardinality(Required \ complete) = Cardinality(Required) - Cardinality(Required \cap complete)
    BY <2>1, FS_Difference, FS_Subset
  <2>3. Required \cap complete = complete
    BY <2>1
  <2> QED
    BY <2>2, <2>3 DEF Endgame
<1>9. DuplicateOnlyAtEnd'
  <2> SUFFICES ASSUME NEW i \in Required \ complete, Cardinality(Holders(i)') > 1
               PROVE  /\ complete # {} /\ Cardinality(Required \ complete) <= EndgamePieces
                      /\ Cardinality(Holders(i)') <= EndgameCopies
    BY <1>4 DEF DuplicateOnlyAtEnd
  <2>1. CASE i # j
    BY <1>5, <2>1 DEF DuplicateOnlyAtEnd
  <2>2. CASE i = j
    <3>1. inFlight[j] = Cardinality(Holders(j))
      BY <1>4 DEF ClaimsAccounted
    <3> QED
      BY <1>4, <1>6, <1>8, <2>2, <3>1 DEF TorrentAssumption
  <2> QED
    BY <2>1, <2>2
<1> QED
  BY <1>7, <1>9

\* Every way out of download_from_peer gives the claim back once.
LEMMA LeavesAccounts ==
  ASSUME TorrentAssumption, Typed, Typed', ClaimsAccounted, DuplicateOnlyAtEnd, NEW p \in Peers,
         NEW how \in Over, Leaves(p, how)
  PROVE  ClaimsAccounted' /\ DuplicateOnlyAtEnd'
<1> DEFINE t == [Fresh EXCEPT !.stage = how]
<1> DEFINE j == peer[p].piece
<1>1. t.piece = NoPiece /\ peer' = [peer EXCEPT ![p] = t] /\ complete' = complete
  BY DEF Leaves, Fresh
<1> HIDE DEF t
<1>2. Required \subseteq Pieces /\ NoPiece \notin Pieces /\ inFlight \in [Pieces -> Nat]
  <2>1. Required \subseteq Pieces /\ NoPiece \notin Pieces
    BY FinitePieces
  <2>2. inFlight \in [Pieces -> Nat]
    BY DEF Typed, TypeOK
  <2> QED
    BY ONLY <2>1, <2>2
<1>3. \A i \in Required : Holders(i)' = Holders(i) \ {p}
  BY <1>1, <1>2, HoldersMove, ZenonT(30)
<1>4. ClaimsAccounted'
  <2> SUFFICES ASSUME NEW i \in Required \ complete PROVE inFlight'[i] = Cardinality(Holders(i)')
    BY <1>1 DEF ClaimsAccounted
  <2>1. inFlight[i] = Cardinality(Holders(i)) /\ i \in Pieces
    BY <1>2 DEF ClaimsAccounted
  <2>2. CASE i = j
    <3>1. peer[p].stage \in Claiming /\ p \in Holders(i)
      BY <1>2, <2>2 DEF Typed, AnswersFor, Holders
    <3>2. IsFiniteSet(Holders(i)) /\ Cardinality(Holders(i)) \in Nat
      BY FiniteHolders
    <3>3. Cardinality(Holders(i) \ {p}) = Cardinality(Holders(i)) - 1
          /\ Cardinality(Holders(i) \ {p}) \in Nat
      BY <3>1, <3>2, FS_RemoveElement, FS_CardinalityType
    <3>4. inFlight'[i] = inFlight[i] - 1
      BY <1>2, <2>1, <2>2, <3>1, <3>2, <3>3 DEF Leaves, Released
    <3> QED
      BY <1>3, <2>1, <3>3, <3>4
  <2>3. CASE i # j
    <3>1. Holders(i) \ {p} = Holders(i)
      BY <2>3 DEF Holders
    <3>2. inFlight'[i] = inFlight[i]
      BY <1>2, <2>1, <2>3 DEF Leaves, Released
    <3> QED
      BY <1>3, <2>1, <3>1, <3>2
  <2> QED
    BY <2>2, <2>3
<1>5. DuplicateOnlyAtEnd'
  BY <1>1, <1>3, FewerHolders
<1> QED
  BY <1>4, <1>5

\* Steps in which no claim changes hands
LEMMA SameHolders ==
  ASSUME \A p \in Peers : peer'[p].piece = peer[p].piece, UNCHANGED <<inFlight, complete>>,
         ClaimsAccounted, DuplicateOnlyAtEnd
  PROVE  ClaimsAccounted' /\ DuplicateOnlyAtEnd'
<1>1. \A i : Holders(i)' = Holders(i)
  BY DEF Holders
<1> QED
  BY <1>1 DEF ClaimsAccounted, DuplicateOnlyAtEnd

\* PieceScheduler::complete
LEMMA CompleteAccounts ==
  ASSUME TorrentAssumption, Typed, Typed', ClaimsAccounted, DuplicateOnlyAtEnd, NEW p \in Peers,
         Complete(p)
  PROVE  ClaimsAccounted' /\ DuplicateOnlyAtEnd'
<1> DEFINE t == [peer[p] EXCEPT !.stage = "loop", !.piece = NoPiece]
<1>1. t.piece = NoPiece /\ peer' = [peer EXCEPT ![p] = t]
  <2>1. peer[p] \in Peer /\ peer \in [Peers -> Peer]
    BY DEF Typed, TypeOK
  <2>2. peer' = [peer EXCEPT ![p].stage = "loop", ![p].piece = NoPiece]
    BY DEF Complete
  <2> QED
    BY <2>1, <2>2 DEF Peer
<1> HIDE DEF t
<1>2. /\ Required \subseteq Pieces /\ NoPiece \notin Pieces /\ inFlight \in [Pieces -> Nat]
      /\ complete' = complete \cup {peer[p].piece} /\ inFlight' = [inFlight EXCEPT ![peer[p].piece] = 0]
  BY FinitePieces DEF Complete, Typed, TypeOK
<1>3. \A i \in Required : Holders(i)' = Holders(i) \ {p}
  BY <1>1, <1>2, HoldersMove, ZenonT(30)
<1>4. \A i \in Required \ complete' : Holders(i)' = Holders(i) /\ inFlight'[i] = inFlight[i]
  BY <1>2, <1>3 DEF Holders
<1>5. ClaimsAccounted'
  BY <1>2, <1>4 DEF ClaimsAccounted
<1>6. DuplicateOnlyAtEnd'
  BY <1>2, <1>4, FewerHolders
<1> QED
  BY <1>5, <1>6

LEMMA TaskStepAccounts ==
  ASSUME TorrentAssumption, Typed, Typed', ClaimsAccounted, DuplicateOnlyAtEnd, NEW p \in Peers,
         PeerStep(p) \/ PeerTalk(p) \/ Silence(p)
  PROVE  ClaimsAccounted' /\ DuplicateOnlyAtEnd'
<1> USE DEF AtStage, Elsewhere, schedVars
<1>0. peer \in [Peers -> Peer]
  BY DEF Typed, TypeOK
<1>1. CASE Connect(p) \/ Listen(p) \/ GetMemory(p) \/ Receive(p) \/ Send(p)
  <2>1. \A q \in Peers : peer'[q].piece = peer[q].piece
    BY <1>0, <1>1 DEF Connect, Listen, GetMemory, Receive, Send, Becomes, Peer
  <2> QED
    BY <1>1, <2>1, SameHolders DEF Connect, Listen, GetMemory, Receive, Send
<1>2. CASE Greet(p)
  <2>1. PICK has : peer' = [peer EXCEPT ![p].stage = "loop", ![p].has = has, ![p].choked = FALSE]
    BY <1>2 DEF Greet
  <2> DEFINE t == [peer[p] EXCEPT !.stage = "loop", !.has = has, !.choked = FALSE]
  <2>2. peer' = [peer EXCEPT ![p] = t] /\ t.piece = peer[p].piece
    BY <1>0, <2>1 DEF Peer
  <2>3. \A q \in Peers : peer'[q].piece = peer[q].piece
    BY <1>0, <2>2
  <2> QED
    BY <1>2, <2>3, SameHolders DEF Greet
<1>3. CASE Hear(p)
  <2>1. PICK heard \in {[peer[p] EXCEPT !.choked = c] : c \in BOOLEAN}
                       \cup {[peer[p] EXCEPT !.has = has] : has \in Offers} :
          peer' = [peer EXCEPT ![p] = [heard EXCEPT !.stage = "loop"]]
    BY <1>3 DEF Hear
  <2>2. heard.piece = peer[p].piece /\ [heard EXCEPT !.stage = "loop"].piece = heard.piece
    BY <1>0 DEF Peer
  <2>3. \A q \in Peers : peer'[q].piece = peer[q].piece
    BY <1>0, <2>1, <2>2
  <2> QED
    BY <1>3, <2>3, SameHolders DEF Hear
<1>4. CASE Overhear(p) \/ Wait(p)
  <2>1. \A q \in Peers : peer'[q].piece = peer[q].piece
    BY <1>0, <1>4 DEF Overhear, Wait, Peer
  <2> QED
    BY <1>4, <2>1, SameHolders DEF Overhear, Wait
<1>5. CASE Retire(p) \/ Lose(p) \/ Cancelled(p) \/ Silence(p)
  BY <1>5, LeavesAccounts DEF Retire, Lose, Cancelled, Silence, Over
<1> QED
  BY <1>1, <1>2, <1>3, <1>4, <1>5, ClaimAccounts, CompleteAccounts DEF PeerStep, PeerTalk

LEMMA NextAccounts ==
  ASSUME TorrentAssumption, Typed, Typed', PiecesAccounted, ClaimsAccounted, DuplicateOnlyAtEnd,
         [Next]_vars
  PROVE  ClaimsAccounted' /\ DuplicateOnlyAtEnd'
<1> USE DEF Goes, Stops, schedVars
<1>1. CASE Finish \/ StopCancelled \/ Turn \/ GiveUp \/ Write \/ Cancel \/ UNCHANGED vars
  BY <1>1, SameHolders DEF Finish, StopCancelled, Turn, GiveUp, Write, Cancel, vars
<1>2. ASSUME NEW p \in Peers, Join(p) PROVE ClaimsAccounted' /\ DuplicateOnlyAtEnd'
  <2>1. \A q \in Peers : peer'[q].piece = peer[q].piece
    BY <1>2 DEF Join, Typed, TypeOK, Peer
  <2> QED
    BY <1>2, <2>1, SameHolders DEF Join
<1>3. CASE Announce
  <2>1. PICK S : peer' = Spawned(peer, S)
    BY <1>3 DEF Announce
  <2>2. \A q \in Peers : peer[q].piece = NoPiece
    BY <1>3 DEF Announce, Exhausted, PiecesAccounted, Tasks, Typed, AnswersFor, Claiming, Working
  <2>3. \A q \in Peers : peer'[q].piece = NoPiece
    BY <2>1, <2>2 DEF Spawned, Fresh
  <2> QED
    BY <1>3, <2>2, <2>3, SameHolders DEF Announce
<1> QED
  BY <1>1, <1>2, <1>3, TaskStepAccounts DEF Next, MainStep

LEMMA AlwaysAccounts == Spec => [](ClaimsAccounted /\ DuplicateOnlyAtEnd)
<1>1. Init => ClaimsAccounted /\ DuplicateOnlyAtEnd
  <2> SUFFICES ASSUME Init PROVE ClaimsAccounted /\ DuplicateOnlyAtEnd
    OBVIOUS
  <2>1. \A i \in Pieces : Holders(i) = {}
    BY TorrentAssumption DEF Init, Holders, Spawned, Fresh, NoPiece, Pieces
  <2>2. Cardinality({}) = 0
    BY FS_EmptySet
  <2>3. \A i \in Required : inFlight[i] = 0 /\ Cardinality(Holders(i)) = 0
    BY <2>1, <2>2, FinitePieces, TorrentAssumption DEF Init
  <2> QED
    BY <2>3 DEF ClaimsAccounted, DuplicateOnlyAtEnd
<1>2. /\ Typed /\ Typed' /\ PiecesAccounted /\ ClaimsAccounted /\ DuplicateOnlyAtEnd /\ [Next]_vars
      => (ClaimsAccounted /\ DuplicateOnlyAtEnd)'
  BY NextAccounts, TorrentAssumption
<1> QED
  BY <1>1, <1>2, AlwaysTyped, AlwaysPieces, PTL DEF Spec

\* Every way out of download_from_peer (peer.rs) gives its claim back, and gives it back once, so
\* that a piece nobody fetches any more is fetched again.
THEOREM ClaimsAreGivenBack == Spec => []ClaimsAccounted
  BY AlwaysAccounts, PTL

\* claim_for_peer_inner (peer.rs) lets two tasks fetch one piece only at the end of a download
\* that has delivered something, and never more than ENDGAME_COPIES of them.
THEOREM DuplicatesAreFew == Spec => []DuplicateOnlyAtEnd
  BY AlwaysAccounts, PTL
=============================================================================
