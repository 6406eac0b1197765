----------------------------- MODULE ToolLines -----------------------------
(***************************************************************************)
(* The lines between a tool and its worker: a code and the fields of one   *)
(* payload, split by ':' and '/'.  A field may hold these characters; they *)
(* are replaced by tokens, and '?', which begins and ends a token, by a    *)
(* token of its own.  The replacement is computed with positions: the '?'  *)
(* are taken out first and put back, as tokens, where the rest has moved.  *)
(*                                                                         *)
(* A text is a sequence of pieces; the names inside the tokens are pieces  *)
(* of one position each.                                                   *)
(***************************************************************************)
EXTENDS Naturals, Sequences, FiniteSets, SequencesExt

CONSTANTS
  MaxText,      \* the longest field
  Alphabet      \* the pieces that a field is made of

Names == {"PNcolon", "PNslash", "PNpercent", "PNquestion"}
Delimiters == {":", "/", "%"}
NameOf == [c \in Delimiters |->
            CASE c = ":" -> "PNcolon" [] c = "/" -> "PNslash" [] c = "%" -> "PNpercent"]
Token(name) == <<"?", name, "?">>

VARIABLES code, first, second     \* a line: a code and two fields

lineVars == <<code, first, second>>

-----------------------------------------------------------------------------
(* escape *)

\* The members of a set of positions, from the first to the last.
InOrder(places, last) == SelectSeq([i \in 1..last |-> i], LAMBDA i : i \in places)

IsQuestion(c) == c = "?"
Without(text) == SelectSeq(text, LAMBDA c : ~IsQuestion(c))

\* Where each '?' of a text goes: the number of other pieces before it.
QuestionsAt(text) ==
  [q \in {i \in DOMAIN text : IsQuestion(text[i])} |->
     Cardinality({i \in 1..(q - 1) : ~IsQuestion(text[i])})]

\* How many positions the pieces before a position have gained.
Gained(rest, upto) == 2 * Cardinality({i \in 1..upto : rest[i] \in Delimiters})

Delimited(rest) ==
  FlattenSeq([i \in DOMAIN rest |->
                IF rest[i] \in Delimiters THEN Token(NameOf[rest[i]]) ELSE <<rest[i]>>])

\* A mutant: from the first to the last.
PutInForward(text, positions, piece) ==
  FoldLeft(LAMBDA t, p : SubSeq(t, 1, p) \o piece \o SubSeq(t, p + 1, Len(t)),
           text, SortSeq(positions, <))
\* Tokens are put in at positions of the text as it was, from the last to the
\* first, so that none moves another.
PutIn(text, positions, piece) ==
  FoldRight(LAMBDA p, t : SubSeq(t, 1, p) \o piece \o SubSeq(t, p + 1, Len(t)),
            SortSeq(positions, <), text)

Places(at, last, move(_)) ==
  LET questions == InOrder(DOMAIN at, last)
  IN  [k \in DOMAIN questions |-> move(at[questions[k]])]

Escape(text) ==
  LET rest == Without(text)
      Moved(p) == p + Gained(rest, p)
  IN  PutIn(Delimited(rest), Places(QuestionsAt(text), Len(text), Moved), Token("PNquestion"))

-----------------------------------------------------------------------------
(* unescape *)

\* One scan from the left: where the tokens of the given names begin.
TokenAt(text, i, names) ==
  /\ i + 2 <= Len(text)
  /\ text[i] = "?" /\ text[i + 2] = "?" /\ text[i + 1] \in names

\* The positions at which a left to right scan finds a token: one that
\* begins inside an earlier one does not count.
Scanned(text, names) ==
  LET Found[i \in 0..Len(text)] ==
        IF i = 0 THEN {}
        ELSE IF TokenAt(text, i, names) /\ {i - 1, i - 2} \intersect Found[i - 1] = {}
             THEN Found[i - 1] \union {i}
             ELSE Found[i - 1]
  IN  Found[Len(text)]
Covered(found) == UNION {{i, i + 1, i + 2} : i \in found}

\* The text without its question tokens, and where each of them stood.
Unquestioned(text) ==
  LET found == Scanned(text, {"PNquestion"})
      order == InOrder((1..Len(text)) \ Covered(found), Len(text))
  IN  [rest |-> [k \in DOMAIN order |-> text[order[k]]],
       at |-> [q \in found |-> Cardinality({i \in 1..(q - 1) : i \notin Covered(found)})]]

Restored(rest) ==
  LET found == Scanned(rest, {"PNcolon", "PNslash", "PNpercent"})
      Original(i) == CHOOSE c \in Delimiters : NameOf[c] = rest[i + 1]
  IN  FlattenSeq([i \in DOMAIN rest |->
        IF i \in found THEN <<Original(i)>>
        ELSE IF i \in Covered(found) THEN <<>> ELSE <<rest[i]>>])

\* A position inside a token has lost nothing: its entry of the table is 0.
Lost(rest, p) ==
  LET found == Scanned(rest, {"PNcolon", "PNslash", "PNpercent"})
  IN  IF p + 1 \in Covered(found) \ found THEN 0
      ELSE 2 * Cardinality({i \in found : i < p + 1})

Unescape(text) ==
  LET un == Unquestioned(text)
      Moved(p) == p - Lost(un.rest, p)
  IN  PutIn(Restored(un.rest), Places(un.at, Len(text), Moved), <<"?">>)

-----------------------------------------------------------------------------
(* serialize and parse *)

\* The parts of a text between the occurrences of a character.
Split(text, c) ==
  LET cuts == InOrder({i \in DOMAIN text : text[i] = c}, Len(text))
      From(k) == IF k = 1 THEN 1 ELSE cuts[k - 1] + 1
      To(k) == IF k = Len(cuts) + 1 THEN Len(text) ELSE cuts[k] - 1
  IN  [k \in 1..(Len(cuts) + 1) |-> SubSeq(text, From(k), To(k))]

Serialize(c, f, g) == <<c, ":">> \o Escape(f) \o <<"/">> \o Escape(g)
Parse(line) ==
  LET levels == Split(line, ":")
  IN  [k \in DOMAIN levels |->
         LET parts == Split(levels[k], "/") IN [j \in DOMAIN parts |-> Unescape(parts[j])]]

-----------------------------------------------------------------------------
LinesInit == code \in {"0", "4"} /\ first = <<>> /\ second = <<>>
LinesNext ==
  /\ UNCHANGED code
  /\ \E c \in Alphabet :
       \/ Len(first) < MaxText /\ first' = Append(first, c) /\ UNCHANGED second
       \/ Len(second) < 1 /\ second' = Append(second, c) /\ UNCHANGED first
LinesSpec == LinesInit /\ [][LinesNext]_lineVars

LinesTypeOK == code \in {"0", "4"} /\ first \in Seq(Alphabet) /\ second \in Seq(Alphabet)

\* The one text that the tokens garble: the name of the '?' token itself, between
\* two characters that are replaced by tokens.  The '?' that ends the first token
\* and the one that begins the second make a token with it, which is read first.
Legible(text) ==
  \A i \in 2..(Len(text) - 1) :
    ~(text[i] = "PNquestion" /\ text[i - 1] \in Delimiters /\ text[i + 1] \in Delimiters \union {"?"})

\* What a tool prints is what the worker reads, whatever else the fields hold, and
\* only then (protocol/core.rs; the names of files and the warnings of ffmpeg).
LinesAreReadBack ==
  Parse(Serialize(code, first, second)) = <<<<<<code>>>>, <<first, second>>>>
    <=> Legible(first) /\ Legible(second)
=============================================================================
