----------------------------- MODULE PieceFiles -----------------------------
(***************************************************************************)
(* The files of a torrent and the pieces they are written from             *)
(* (torrent/metainfo.rs, torrent/storage.rs, torrent/client.rs).  The      *)
(* pieces cut the files laid end to end, so one piece holds the end of one *)
(* file and the beginning of the next, and a file that was not selected    *)
(* still lends bytes to the pieces of its neighbours.  At most MaxOpen     *)
(* files are open at once: the one that was used longest ago makes room.   *)
(*                                                                         *)
(* tokio answers a write before the bytes are in the file: a write is late *)
(* until it settles, the next operation on the file waits for it, and an   *)
(* error of a late write is reported by the next write or flush.           *)
(***************************************************************************)
EXTENDS Integers, Sequences, FiniteSets, SequencesExt

CONSTANTS
  Infos,         \* what metadata may say: readable, lengths, piece length, hashes
  Selections,       \* the selections that may be asked for: sets of file indices
  MaxOpen,       \* MAX_OPEN_FILES
  MaxWriteFaults \* bound: writes that fail

VARIABLES
  info,      \* the metadata of the torrent
  selected,  \* the selected files
  stage,     \* how far the download is
  disk,      \* disk[f]: the bytes of file f; 0 where none was written
  late,      \* late[f]: the write that has not settled, byte by position
  used,      \* used[f]: the clock of the last use, 0 when the file is not open
  written,   \* the pieces that were written, in order
  remaining, \* remaining[f]: the pieces that file f still waits for
  announced, \* the files announced as complete
  broken     \* the files with a late write that failed; faults are never repaired

fileVars == <<info, selected, stage, disk, late, used, written, remaining, announced, broken>>

Files == 1 .. Len(info.lengths)
NoBytes == <<>>

\* The offset of each file in the files laid end to end, and the length of all.
Offset == [f \in 1 .. Len(info.lengths) + 1 |->
             FoldLeft(+, 0, SubSeq(info.lengths, 1, f - 1))]
Length(f) == info.lengths[f]
Total == Offset[Len(info.lengths) + 1]

\* The metadata is refused when a value of it cannot be used, and unless it has
\* one hash for every piece.
WholePieces == Total \div info.piece
ExpectedPieces == (Total + info.piece - 1) \div info.piece
Accepted == info.readable /\ info.hashes = ExpectedPieces
Pieces == 0 .. info.hashes - 1

PieceStart(p) == p * info.piece
PieceSize(p) == IF Total - PieceStart(p) < info.piece THEN Total - PieceStart(p) ELSE info.piece
FirstPiece(f) == Offset[f] \div info.piece
LastPiece(f) == (Offset[f] + Length(f) - 1) \div info.piece
\* The pieces that hold a byte of the file.
PiecesOf(f) == IF Length(f) = 0 THEN {} ELSE FirstPiece(f) .. LastPiece(f)
Required == UNION {PiecesOf(f) : f \in selected}

\* The byte at an offset of the files laid end to end is named by the offset.
Own(f) == [n \in 1 .. Length(f) |-> Offset[f] + n]

-----------------------------------------------------------------------------
\* The files, as one value that a piece is written into.
Store == [disk |-> disk, late |-> late, used |-> used, failed |-> FALSE]
ClockOf(u) == CHOOSE n \in {u[f] : f \in DOMAIN u} \union {0} :
                \A f \in DOMAIN u : u[f] <= n
OpenIn(s) == {f \in DOMAIN s.used : s.used[f] > 0}

WithLate(bytes, write) ==
  [n \in DOMAIN bytes |-> IF n \in DOMAIN write THEN write[n] ELSE bytes[n]]

\* An operation on a file waits for its late write; an error is reported.
Flushed(s, f) ==
  [s EXCEPT !.disk[f] = WithLate(@, s.late[f]), !.late[f] = NoBytes,
            !.failed = @ \/ f \in broken]
Evicted(s, f) == [Flushed(s, f) EXCEPT !.used[f] = 0]
LeastUsed(s) == CHOOSE f \in OpenIn(s) : \A g \in OpenIn(s) : s.used[f] <= s.used[g]
WithRoom(s) == IF Cardinality(OpenIn(s)) >= MaxOpen THEN Evicted(s, LeastUsed(s)) ELSE s
Opened(s, f) ==
  LET clock == ClockOf(s.used) + 1
      roomy == IF f \in OpenIn(s) THEN s ELSE WithRoom(s)
  IN [roomy EXCEPT !.used[f] = clock]

\* The part of a piece that lies in the file, by position in the file.
Overlap(p, f) ==
  LET from == IF PieceStart(p) > Offset[f] THEN PieceStart(p) ELSE Offset[f]
      to   == IF PieceStart(p) + PieceSize(p) < Offset[f] + Length(f)
              THEN PieceStart(p) + PieceSize(p) ELSE Offset[f] + Length(f)
  IN [n \in from - Offset[f] + 1 .. to - Offset[f] |-> Offset[f] + n]

WriteInto(s, p, f) ==
  IF Overlap(p, f) = NoBytes \/ s.failed THEN s
  ELSE [Flushed(Opened(s, f), f) EXCEPT !.late[f] = Overlap(p, f)]
\* Every selected file that the piece touches, in the order of the torrent.
WritePiece(s, p) ==
  FoldLeft(LAMBDA t, f : WriteInto(t, p, f), s, SetToSortSeq(selected, <))

\* The accounting of a written piece: the files that have all their pieces are
\* flushed and announced.
Charged(p) ==
  [f \in selected |-> IF p \in PiecesOf(f) /\ remaining[f] > 0 THEN remaining[f] - 1
                      ELSE remaining[f]]
Completed(p) == {f \in selected \ announced : p \in PiecesOf(f) /\ Charged(p)[f] = 0}
KeptOpen(s, f) == s
FlushFile(s, f) == IF f \in OpenIn(s) THEN Flushed(s, f) ELSE s
FlushedAll(s, files) ==
  FoldLeft(LAMBDA t, f : FlushFile(t, f), s, SetToSortSeq(files, <))

Keep(s) == disk' = s.disk /\ late' = s.late /\ used' = s.used

-----------------------------------------------------------------------------
Blank == [f \in selected |-> [n \in 1 .. Length(f) |-> 0]]

FilesInit ==
  /\ info \in Infos
  /\ selected \in Selections
  /\ stage = "asked"
  /\ disk = NoBytes /\ late = NoBytes /\ used = NoBytes
  /\ written = <<>>
  /\ remaining = NoBytes
  /\ announced = {}
  /\ broken = {}

\* Metadata that does not add up, and a selection of a file that is not there.
Refuse ==
  /\ stage = "asked"
  /\ ~Accepted \/ ~(selected \subseteq Files)
  /\ stage' = "failed"
  /\ UNCHANGED <<info, selected, disk, late, used, written, remaining, announced, broken>>

\* The selected files get their length; an empty one is complete at once.
Create ==
  /\ stage = "asked"
  /\ Accepted
  /\ selected \subseteq Files
  /\ disk' = Blank
  /\ late' = [f \in selected |-> NoBytes]
  /\ used' = [f \in selected |-> 0]
  /\ remaining' = [f \in selected |-> Cardinality(PiecesOf(f))]
  /\ IF Required = {}
     THEN stage' = "done" /\ announced' = {}
     ELSE stage' = "downloading" /\ announced' = {f \in selected : Length(f) = 0}
  /\ UNCHANGED <<info, selected, written, broken>>

\* A piece arrives, in any order; one that was written is dropped.
Arrive(p) ==
  /\ stage = "downloading"
  /\ ~Contains(written, p)
  /\ LET s == WritePiece(Store, p)
         t == FlushedAll(s, Completed(p))
     IN /\ Keep(t)
        /\ stage' = IF t.failed THEN "failed" ELSE stage
        /\ written' = IF s.failed THEN written ELSE Append(written, p)
        /\ remaining' = IF s.failed THEN remaining ELSE Charged(p)
        /\ announced' = IF t.failed THEN announced ELSE announced \union Completed(p)
  /\ UNCHANGED <<info, selected, broken>>

\* A late write reaches the file, or fails.
Settle(f) ==
  /\ stage = "downloading"
  /\ late[f] # NoBytes
  /\ disk' = [disk EXCEPT ![f] = WithLate(@, late[f])]
  /\ late' = [late EXCEPT ![f] = NoBytes]
  /\ UNCHANGED <<info, selected, stage, used, written, remaining, announced, broken>>
WriteError(f) ==
  /\ stage = "downloading"
  /\ late[f] # NoBytes
  /\ Cardinality(broken) < MaxWriteFaults
  /\ late' = [late EXCEPT ![f] = NoBytes]
  /\ broken' = broken \union {f}
  /\ UNCHANGED <<info, selected, stage, disk, used, written, remaining, announced>>

\* Every required piece is written: the open files are flushed.
Finish ==
  /\ stage = "downloading"
  /\ Required \subseteq ToSet(written)
  /\ LET s == FlushedAll(Store, OpenIn(Store))
     IN Keep(s) /\ stage' = IF s.failed THEN "failed" ELSE "done"
  /\ UNCHANGED <<info, selected, written, remaining, announced, broken>>

FilesNext ==
  \/ Refuse \/ Create \/ Finish
  \/ stage = "downloading" /\ \E p \in Required : Arrive(p)
  \/ stage = "downloading" /\ \E f \in selected : Settle(f) \/ WriteError(f)

FilesSpec == FilesInit /\ [][FilesNext]_fileVars

-----------------------------------------------------------------------------
FilesTypeOK ==
  /\ info \in Infos /\ selected \in Selections
  /\ stage \in {"asked", "downloading", "done", "failed"}
  /\ stage \in {"downloading", "done"} =>
       /\ \A f \in selected : disk[f] \in [1 .. Length(f) -> 0 .. Total]
       /\ ToSet(written) \subseteq Pieces
       /\ Cardinality(OpenIn(Store)) <= MaxOpen
  /\ announced \subseteq selected /\ broken \subseteq selected

\* A file that is announced as complete holds its bytes and no others, and will
\* not be written again, though the file before and the file after it share
\* pieces with it and its handle may have been given up; a download that is done
\* has every selected file (storage.rs, client.rs write_completed_piece: the
\* encoder opens the file as soon as it is announced).
AnnouncedIsWhole ==
  \A f \in selected :
    f \in announced \/ stage = "done" => disk[f] = Own(f) /\ late[f] = NoBytes
=============================================================================
