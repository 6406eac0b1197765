-------------------------- MODULE TorrentDelivery --------------------------
(***************************************************************************)
(* What a download promises to its caller: every piece of the selection    *)
(* arrives at most once, a file is announced as soon as all of it is on    *)
(* disk and not before, and a download that is done has announced all.     *)
(***************************************************************************)
CONSTANTS Files, Span

VARIABLES
  have,        \* pieces on disk
  announced,   \* files the caller was told of
  outcome      \* "busy", or how the download ended

vars == <<have, announced, outcome>>
Wanted == UNION {Span[f] : f \in Files}
Whole(S) == {f \in Files : Span[f] \subseteq S}

Init == have = {} /\ announced = Whole({}) /\ outcome = "busy"

Arrive ==
  /\ outcome = "busy"
  /\ \E i \in Wanted \ have :
       have' = have \cup {i} /\ announced' = Whole(have \cup {i})
  /\ UNCHANGED outcome

Succeed == have = Wanted /\ outcome' = "done" /\ UNCHANGED <<have, announced>>
Exhaust == have # Wanted /\ outcome' = "exhausted" /\ UNCHANGED <<have, announced>>
Break == outcome' \in {"failed", "cancelled"} /\ UNCHANGED <<have, announced>>
\* The disk fails under a piece: of the files that it finished some were announced before.
BreakOnArrival ==
  /\ outcome' = "failed"
  /\ \E i \in Wanted \ have : \E F \in SUBSET Whole(have \cup {i}) :
       have' = have \cup {i} /\ announced' = announced \cup F
End == outcome = "busy" /\ (Succeed \/ Exhaust \/ Break \/ BreakOnArrival)

Next == Arrive \/ End
Spec == Init /\ [][Next]_vars
=============================================================================
