----------------------------- MODULE MCTorrent -----------------------------
(* A download for TLC: four pieces, of which the first is not wanted. *)
EXTENDS Torrent

\* two episodes that share a piece, and an empty file
Episodes == [f \in Files |-> CASE f = "ep1" -> {1, 2} [] f = "ep2" -> {2, 3} [] OTHER -> {}]
\* nobody but a reliable peer has the shared piece
SomeOffers == {{1}, {0, 1, 3}}
=============================================================================
