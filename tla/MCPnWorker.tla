----------------------------- MODULE MCPnWorker -----------------------------
(* Instances of PnWorker: a population of requests, and the slots of its pools. *)
EXTENDS PnWorker, MCPopulations

OneSlot  == [p \in Pools |-> 1]
TwoSlots == [p \in Pools |-> 2]

\* Requests of which only some come: a kept encode, its twin and the keycode
\* that needs it, a probe and a preview, or two encodes that share the encoder.
ApartInit == InitWith(1..3) \/ InitWith({4, 5}) \/ InitWith({2, 6})
ApartSpec == ApartInit /\ [][Next]_vars
=============================================================================
