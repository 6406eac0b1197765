------------------------------ MODULE AssTags ------------------------------
(***************************************************************************)
(* A line of a subtitle is loaded (libkagami), which drops the override    *)
(* tags that seem to change nothing, and is written again.  The same line  *)
(* as a player shows it is the reference (Shown).                          *)
(*                                                                         *)
(* A line is a sequence of tags, texts and the ends of override blocks; an *)
(* adjacent pair of blocks is written "block".  The value of a tag is a    *)
(* number; a transform has the tags it animates.                           *)
(***************************************************************************)
EXTENDS Naturals, Sequences, FiniteSets, SequencesExt

CONSTANTS
  Items,      \* what lines are made of
  MaxLine,    \* the longest line
  Style       \* the values of the line's style

\* Tags with a value that lasts until the next one; the first of a placement
\* counts for the whole line; karaoke tags belong to the next text.
Lasting == {"bord", "xbord", "fs"}
Placing == {"an", "pos"}
Tag(kind, v) == [kind |-> kind, v |-> v, inner |-> {}]
Text == Tag("text", 0)
BlockEnd == Tag("block", 0)
Transform(tags) == [kind |-> "t", v |-> 0, inner |-> tags]

VARIABLE line

TagsInit == line = <<>>
TagsNext == Len(line) < MaxLine /\ \E item \in Items : line' = Append(line, item)
TagsSpec == TagsInit /\ [][TagsNext]_line
TagsTypeOK == line \in Seq(Items)

-----------------------------------------------------------------------------
(* Loading. *)

NoTags == [kind \in {} |-> 0]
With(current, kind, v) ==
  [k \in DOMAIN current \union {kind} |-> IF k = kind THEN v ELSE current[k]]
KindsOf(tags) == {tag.kind : tag \in tags}

\* An animated tag that is set again later in the same block is taken out of
\* the transform, and an empty transform out of the block.
SetLater(l, i, kind) ==
  \E j \in (i + 1)..Len(l) :
    /\ l[j].kind = kind
    /\ \A k \in (i + 1)..j : l[k].kind \notin {"text", "block"}
Stripped(l) ==
  SelectSeq(
    [i \in DOMAIN l |->
       [l[i] EXCEPT !.inner = {tag \in @ : ~SetLater(l, i, tag.kind)}]],
    LAMBDA item : ~(item.kind = "t" /\ item.inner = {}))

\* A mutant: what a transform does is forgotten.
ActiveStill(state, item) ==
  item.kind \in DOMAIN state.current /\ state.current[item.kind] = item.v
\* The tag says what holds already, and no transform has touched it since.
Active(state, item) ==
  /\ item.kind \in DOMAIN state.current /\ state.current[item.kind] = item.v
  /\ item.kind \notin state.transformed

\* A placement was given before, and not by the style.
AlreadyPlaced(state, item) ==
  /\ item.kind \in Placing \intersect DOMAIN state.current
  /\ ~(item.kind \in DOMAIN Style /\ Style[item.kind] = state.current[item.kind])

Kept(state, item) == [state EXCEPT !.data = Append(@, item)]
Reset(state, item) ==
  [Kept(state, item) EXCEPT !.current = IF item.v = 0 THEN Style ELSE NoTags, !.transformed = {}]
Animated(state, item) ==
  [Kept(state, item) EXCEPT !.transformed = @ \union KindsOf(item.inner)]
Set(state, item) ==
  IF Active(state, item) \/ AlreadyPlaced(state, item) THEN state
  ELSE [Kept(state, item) EXCEPT !.current = With(@, item.kind, item.v),
                                 !.transformed = @ \ {item.kind}]

Loaded(state, item) ==
  CASE item.kind = "block" -> state
    [] item.kind \in {"text", "k"} -> Kept(state, item)
    [] item.kind = "r" -> Reset(state, item)
    [] item.kind = "t" -> Animated(state, item)
    [] OTHER -> Set(state, item)

\* Tags after the last text are cut off.
Trimmed(data) ==
  LET texts == {i \in DOMAIN data : data[i].kind = "text"}
  IN  SubSeq(data, 1, IF texts = {} THEN 0 ELSE CHOOSE i \in texts : \A j \in texts : j <= i)

Load(l) ==
  Trimmed(FoldLeft(Loaded, [current |-> Style, transformed |-> {}, data |-> <<>>],
                   Stripped(l)).data)

-----------------------------------------------------------------------------
(* Showing: the renderer, libass. *)

\* How a text looks: the values of the tags that last, each with the values it
\* is animated towards, in order.  A border is the border in both directions.
Plain(v) == [kind \in Lasting |->
               CASE kind \in {"bord", "xbord"} -> <<v.bord>> [] kind = "fs" -> <<v.fs>>]
OtherStyle == [bord |-> 9, fs |-> 9]
Parts(kind) == IF kind = "bord" THEN {"bord", "xbord"} ELSE {kind}
Painted(look, kind, v) == [k \in Lasting |-> IF k \in Parts(kind) THEN <<v>> ELSE look[k]]
Moving(look, tags) ==
  [k \in Lasting |->
     look[k] \o SetToSeq({tag.v : tag \in {g \in tags : k \in Parts(g.kind)}})]

Show(view, item) ==
  CASE item.kind = "text" ->
         [view EXCEPT !.shown = Append(@, [look |-> view.look, karaoke |-> view.karaoke]),
                      !.karaoke = <<>>]
    [] item.kind = "block" -> view
    [] item.kind = "k" -> [view EXCEPT !.karaoke = Append(@, item.v)]
    [] item.kind = "r" -> [view EXCEPT !.look = Plain(IF item.v = 0 THEN Style ELSE OtherStyle)]
    [] item.kind = "t" -> [view EXCEPT !.look = Moving(@, item.inner)]
    [] item.kind \in Placing ->
         IF item.kind \in DOMAIN view.placed THEN view
         ELSE [view EXCEPT !.placed = With(@, item.kind, item.v)]
    [] OTHER -> [view EXCEPT !.look = Painted(@, item.kind, item.v)]

Shown(l) ==
  LET view == FoldLeft(Show, [look |-> Plain(Style), karaoke |-> <<>>, placed |-> NoTags,
                              shown |-> <<>>], l)
      Alignment == IF "an" \in DOMAIN view.placed THEN view.placed.an ELSE Style.an
  IN  [shown |-> view.shown, placed |-> With(view.placed, "an", Alignment)]

-----------------------------------------------------------------------------
EndsInText(l) == l # <<>> /\ Last(l).kind = "text"

\* A line that is loaded and written again looks as it did: only tags that
\* change nothing are dropped (libkagami/core.rs:224, tags/mod.rs).
LooksTheSame == EndsInText(line) => Shown(Load(line)) = Shown(line)
=============================================================================
