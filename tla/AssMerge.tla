------------------------------- MODULE AssMerge -------------------------------
(***************************************************************************)
(* What becomes of a subtitle on its way to the screen (bin/pnass.rs,      *)
(* libkagami/core.rs): the translation is standardised, its signs are put  *)
(* into a file of their own, it is merged with the typesetting, and the    *)
(* watermark of the server is injected.                                    *)
(*                                                                         *)
(* A style has one size, which is rounded whenever it is scaled and stands *)
(* for every such length; the lengths in a line's tags are scaled exactly, *)
(* and of them the line says for which resolution they are meant.          *)
(***************************************************************************)
EXTENDS Integers, Sequences, TLC

CONSTANTS
  Signs,         \* the style names that contain "sign"
  TLs, TSs, Watermarks,  \* files, or NoFile
  DefaultRes,    \* 1920 and 1080
  TextLayer,     \* 9
  U16Max,        \* 65535
  SameTick       \* whether the clock stands still between two new names

VARIABLES
  given,    \* the files as they were written
  tl, ts,   \* the translation and the typesetting as the folder has them
  out,      \* the release, and then what ffmpeg burns in
  step

mergeVars == <<given, tl, ts, out, step>>

\* A name as it was written, or as the n-th pass has changed it.
Own(name) == <<name, 0>>
NoFile == [res |-> <<0, 0>>, styles |-> <<>>, lines |-> <<>>, comments |-> <<>>, stamps |-> <<>>]
NamesIn(l) == {l.resets[n] : n \in DOMAIN l.resets}
Mapped(seq, F(_)) == [n \in DOMAIN seq |-> F(seq[n])]

(***************************************************************************)
(* Reading, standardising, and what text is                                *)
(***************************************************************************)
\* load: comments that are stamps join the stamps, the first at a time wins;
\* other comments are not written again.
Loaded(f) == [f EXCEPT !.stamps = f.stamps @@ f.comments, !.comments = <<>>]
\* fill_script_info_defaults
Filled(f) == [f EXCEPT !.res = [n \in 1..2 |-> IF @[n] = 0 THEN DefaultRes[n] ELSE @[n]]]
Opened(f) == Filled(Loaded(f))

IsSign(l) == l.style[1] \in Signs /\ l.style[2] = 0
\* A line with a star in a block is one raw text, whose tags are not seen.
IsRaw(l) == l.star
IsBasic(l) == ~IsSign(l) /\ (IsRaw(l) \/ (~l.tags /\ l.resets = <<>>))
\* set_basic_text_layers
Layered(f) ==
  [f EXCEPT !.lines = Mapped(@, LAMBDA l : IF IsBasic(l) THEN [l EXCEPT !.layer = TextLayer] ELSE l)]
\* apply_injection_timings
Timed(f) ==
  [f EXCEPT !.lines = Mapped(@, LAMBDA l : IF l.all THEN [l EXCEPT !.span = "video"] ELSE l)]

(***************************************************************************)
(* Styles                                                                  *)
(***************************************************************************)
\* used_style_names, prune_unused_styles
Used(lines) ==
  UNION {{lines[n].style} \union (IF IsRaw(lines[n]) THEN {} ELSE NamesIn(lines[n])) :
           n \in DOMAIN lines}
StylesUsed(f, lines) == SelectSeq(f.styles, LAMBDA s : s.name \in Used(lines))
Pruned(f) == [f EXCEPT !.styles = StylesUsed(f, f.lines)]
\* style_names
Defined(f) == {f.styles[n].name : n \in DOMAIN f.styles}
StyleNames(f) == Defined(f) \union {f.lines[n].style : n \in DOMAIN f.lines}

\* random_suffix, drawn from the clock
NewName(name, pass) == IF SameTick THEN <<"pn", pass>> ELSE <<name[1], pass>>
\* rename_overlapping_styles
NewOf(f, names, pass, name) ==
  IF name \in names \intersect Defined(f) THEN NewName(name, pass) ELSE name
RenamedNotTheResets(f, names, pass) ==
  [f EXCEPT !.styles = Mapped(@, LAMBDA s : [s EXCEPT !.name = NewOf(f, names, pass, @)]),
            !.lines = Mapped(@, LAMBDA l : [l EXCEPT !.style = NewOf(f, names, pass, @)])]
RenamedAll(f, names, pass) ==
  [RenamedNotTheResets(f, names, pass) EXCEPT
     !.lines = Mapped(@, LAMBDA l :
       IF IsRaw(l) THEN l
       ELSE [l EXCEPT !.resets = Mapped(@, LAMBDA r : NewOf(f, names, pass, r))])]
Renamed(f, names, pass) == RenamedAll(f, names, pass)

(***************************************************************************)
(* Resolutions                                                             *)
(***************************************************************************)
SameRatio(p, q) == p[1] * q[2] = p[2] * q[1]
Area(p) == p[1] * p[2]
\* scale_u16
Rescaled(v, new, old) ==
  LET r == (2 * v * new + old) \div (2 * old) IN IF r > U16Max THEN U16Max ELSE r
\* scale_line, of the tags, the drawings and the effect
LineScaled(l, res) == IF IsRaw(l) THEN l ELSE [l EXCEPT !.res = res]
\* SubstationAlpha::scale, of a file whose resolution is not 0
Scaled(f, res) ==
  [f EXCEPT !.res = res,
            !.styles = Mapped(@, LAMBDA s : [s EXCEPT !.size = Rescaled(@, res[2], f.res[2])]),
            !.lines = Mapped(@, LAMBDA l : LineScaled(l, res))]
\* normalize_merge_resolutions: the smaller of two files is scaled.
ScaledUp(f, other) == IF Area(f.res) < Area(other.res) THEN Scaled(f, other.res) ELSE f

\* prepare_merge_styles and append_sub; the stamps of the second are dropped.
Joined(f, g, pass) ==
  LET overlap == StyleNames(f) \intersect StyleNames(g)
      new     == IF overlap = {} THEN g ELSE Renamed(g, overlap, pass)
  IN [f EXCEPT !.styles = @ \o new.styles, !.lines = @ \o new.lines]
Merged(f, g, pass) == Joined(Pruned(ScaledUp(f, g)), Pruned(ScaledUp(g, f)), pass)

(***************************************************************************)
(* The passes                                                              *)
(***************************************************************************)
Goes(to) == step' = to /\ UNCHANGED given
\* /job: PNASS_JOB
Standardise ==
  /\ step = "written" /\ tl.lines # <<>> /\ Goes("standard")
  /\ tl' = Opened(tl) /\ UNCHANGED <<ts, out>>

\* smartcode: PNASS_SPLIT_SIGNS if there is no typesetting; the translation
\* stays as it is when it has no signs.
SignLines(f) == SelectSeq(f.lines, IsSign)
TextLines(f) == SelectSeq(f.lines, LAMBDA l : ~IsSign(l))
Split ==
  /\ step \in {"written", "standard"} /\ ts = NoFile
  /\ LET f     == Opened(tl)
         signs == SignLines(f)
         text  == TextLines(f)
     IN \/ /\ signs = <<>> /\ tl.lines # <<>> /\ Goes("split") /\ UNCHANGED <<tl, ts>>
        \/ /\ text = <<>> /\ step' = "failed" /\ UNCHANGED <<given, tl, ts>>
        \/ /\ signs # <<>> /\ text # <<>> /\ Goes("split")
           /\ tl' = [f EXCEPT !.lines = text, !.styles = StylesUsed(f, text)]
           /\ ts' = [f EXCEPT !.lines = signs, !.styles = StylesUsed(f, signs), !.stamps = <<>>]
  /\ UNCHANGED out
\* PNASS_MERGE, or PNASS_MERGE_TL_ONLY
Merge ==
  /\ \/ step \in {"written", "standard"} /\ ts # NoFile
     \/ step = "split"
  /\ LET f == Layered(Opened(tl))
         g == Opened(ts)
     IN \/ /\ ts = NoFile /\ Goes("release") /\ out' = Pruned(f)
        \/ /\ ts # NoFile /\ SameRatio(f.res, g.res) /\ Merged(f, g, 1).lines # <<>>
           /\ Goes("release") /\ out' = Merged(f, g, 1)
        \/ /\ ts # NoFile /\ (~SameRatio(f.res, g.res) \/ Merged(f, g, 1).lines = <<>>)
           /\ step' = "failed" /\ UNCHANGED <<given, out>>
  /\ UNCHANGED <<tl, ts>>
\* An encode of a subtitle that somebody attaches
Attach ==
  /\ step \in {"written", "standard"} /\ ts = NoFile /\ Goes("attached") /\ out' = tl
  /\ UNCHANGED <<tl, ts>>
\* server_effects: PNASS_INJECT
Inject ==
  /\ step \in {"release", "attached"} /\ given.wm # NoFile
  /\ LET f == Opened(out)
         g == Timed(Opened(given.wm))
     IN IF SameRatio(f.res, g.res) /\ Merged(f, g, 2).lines # <<>>
        THEN Goes("burned") /\ out' = Merged(f, g, 2)
        ELSE step' = "failed" /\ UNCHANGED <<given, out>>
  /\ UNCHANGED <<tl, ts>>

\* The lengths of a line are meant for its file's resolution.
Meant(f, from) ==
  [f EXCEPT !.lines = [n \in DOMAIN @ |-> [@[n] EXCEPT !.res = Filled(f).res, !.id = <<from, n>>]]]
MergeInit ==
  /\ \E f \in TLs, g \in TSs, w \in Watermarks :
       given = [tl |-> Meant(f, "tl"), ts |-> Meant(g, "ts"), wm |-> Meant(w, "wm")]
  /\ tl = given.tl /\ ts = given.ts /\ out = NoFile /\ step = "written"
MergeNext == Standardise \/ Split \/ Merge \/ Attach \/ Inject
MergeSpec == MergeInit /\ [][MergeNext]_mergeVars

-----------------------------------------------------------------------------
MergeTypeOK ==
  /\ step \in {"written", "standard", "split", "release", "attached", "burned", "failed"}
  /\ \A f \in {tl, ts, out} :
       /\ \A n \in DOMAIN f.styles : f.styles[n].size \in 0..U16Max
       /\ \A n \in DOMAIN f.lines : f.lines[n].id[1] \in {"tl", "ts", "wm"}

\* What a renderer finds under a name, whichever definition it takes.
Sizes(f, name) == LET is(s) == s.name = name IN Mapped(SelectSeq(f.styles, is), LAMBDA s : s.size)
\* Not off by a pixel of the file that it comes from.
SameSize(v, f, w, g) ==
  LET off == v * g.res[2] - w * f.res[2] IN off < f.res[2] /\ -off < f.res[2]
SameStyle(f, name, g, was) ==
  LET now == Sizes(f, name)
      own == Sizes(g, was)
  IN Len(now) = Len(own) /\ \A n \in DOMAIN now : SameSize(now[n], f, own[n], g)
\* A line has the styles that its own file gives it, its lengths have their
\* place, and text alone changes its layer.
AsWritten(f, l) ==
  LET g == Filled(given[l.id[1]])
      o == g.lines[l.id[2]]
  IN /\ SameStyle(f, l.style, g, o.style)
     /\ \A n \in DOMAIN o.resets : SameStyle(f, l.resets[n], g, o.resets[n])
     /\ l.res = f.res
     /\ l.layer # o.layer => IsBasic(o) /\ l.id[1] = "tl"
     /\ l.span # o.span => l.id[1] = "wm"
\* Every line is there once, and the translation's stamps are there.
Ids(f) == {f.lines[n].id : n \in DOMAIN f.lines}
AllThere(f, files) ==
  /\ Ids(f) = UNION {Ids(given[from]) : from \in files}
  /\ \A m, n \in DOMAIN f.lines : f.lines[m].id = f.lines[n].id => m = n
  /\ f.stamps = Loaded(given.tl).stamps
SubtitleAsWritten ==
  /\ step = "split" => \A n \in DOMAIN tl.lines : AsWritten(Filled(tl), tl.lines[n])
  /\ step = "split" => \A n \in DOMAIN ts.lines : AsWritten(ts, ts.lines[n])
  /\ step \in {"release", "burned"} =>
       /\ \A n \in DOMAIN out.lines : AsWritten(out, out.lines[n])
       /\ AllThere(out, {"tl", "ts"} \union (IF step = "burned" THEN {"wm"} ELSE {}))
=============================================================================
