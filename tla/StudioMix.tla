------------------------------ MODULE StudioMix ------------------------------
(***************************************************************************)
(* The timeline of one Pandora Studio: what the track edits do to it, where*)
(* a preview looks, and what is heard at a moment of a render (studio.rs,  *)
(* lib/mpeg/studio.rs).  Times are natural numbers; the code's are         *)
(* milliseconds in a u64 with saturating or checked sums, and these bounds *)
(* never reach its end.                                                    *)
(***************************************************************************)
EXTENDS Integers, Sequences, FiniteSets

CONSTANTS
  Preroll,        \* PREVIEW_TRACK_PREROLL_MS
  DefaultWindow,  \* PREVIEW_DEFAULT_DURATION_MS
  Totals,         \* the lengths of the videos that keywords can name
  AudioLength,    \* the length of an attached audio file
  Volumes, Fades, \* the duck volumes and fades that are asked for
  Amounts,        \* the amounts of a cut and of a move
  Windows,        \* the lengths asked of a preview, 0 for none
  MaxEdits        \* bound: edits in all

VARIABLES
  video,    \* total_duration_ms of the Studio
  sound,    \* its tracks
  edits     \* how many edits were made

mixVars == <<video, sound, edits>>

Least(a, b) == IF a <= b THEN a ELSE b
Most(a, b) == IF a >= b THEN a ELSE b
Less(a, b) == Most(a - b, 0)                     \* saturating_sub

(***************************************************************************)
(* Preview windows                                                         *)
(***************************************************************************)
Window(start, length) == [start |-> start, length |-> length]

CenteredAt(center, total, wanted) ==
  LET length == Least(wanted, total)
  IN Window(Least(Less(center, length \div 2), total - length), length)

StartingAt(at, total, wanted) ==
  LET start == Least(at, total) IN Window(start, Least(start + wanted, total) - start)

EndingAt(at, total, wanted) ==
  LET end == Least(at, total)
      start == Less(end, wanted)
  IN Window(start, end - start)

\* The window of a track begins a preroll before it.
AroundTrackStart(at, total, wanted) ==
  LET preroll == Least(Preroll, wanted)
      start == Least(Less(at, preroll), total)
      end == Least(at + (wanted - preroll), total)
  IN Window(start, Less(end, start))

\* A request names a track, a position or both; no duration means the default.
\* "track" is the track itself, which must be in the Studio, or NoTrack.
NoTrack == [id |-> 0]
PreviewOf(position, track, wanted, total) ==
  LET length == IF wanted # 0 THEN wanted ELSE DefaultWindow
  IN CASE track = NoTrack /\ position \in {"none", "start"} -> StartingAt(0, total, length)
       [] track = NoTrack /\ position = "middle" -> CenteredAt(total \div 2, total, length)
       [] track = NoTrack /\ position = "end" -> EndingAt(total, total, length)
       [] track # NoTrack /\ position \in {"none", "start"} ->
            AroundTrackStart(track.offset, total, IF wanted # 0 THEN wanted ELSE DefaultWindow + Preroll)
       [] track # NoTrack /\ position = "middle" ->
            CenteredAt(track.offset + track.length \div 2, total, length)
       [] track # NoTrack /\ position = "end" -> EndingAt(track.offset + track.length, total, length)

(***************************************************************************)
(* Track edits: the edited track, in a set that is empty for a refusal      *)
(***************************************************************************)
NewTrack(id, length, mode, duck, fade) ==
  [id |-> id, offset |-> 0, length |-> length, mode |-> mode, volume |-> 100,
   duck |-> IF mode = "duck" THEN duck ELSE 100, fade |-> IF mode = "duck" THEN fade ELSE 0,
   trimStart |-> 0, trimEnd |-> 0]

\* A cut takes an amount off one side or off both.
CutTrack(track, amount, sides) ==
  {[track EXCEPT !.trimStart = @ + IF "start" \in sides THEN amount ELSE 0,
                 !.trimEnd = @ + IF "end" \in sides THEN amount ELSE 0,
                 !.length = left] :
     left \in {track.length - amount * Cardinality(sides)} \ (-AudioLength..0)}

\* Keep leaves a setting.  Duck settings belong to a Duck track, and a track
\* that becomes one needs both.
Keep == -1
Or(setting, old) == IF setting = Keep THEN old ELSE setting
EditTrack(track, mode, duck, fade) ==
  LET refused == IF mode = "duck"
                 THEN track.mode # "duck" /\ (duck = Keep \/ fade = Keep)
                 ELSE duck # Keep \/ fade # Keep
  IN IF refused THEN {}
     ELSE {[track EXCEPT !.mode = mode, !.duck = Or(duck, @), !.fade = Or(fade, @)]}

\* Moves are absolute or relative; the track starts before the video ends.
MoveTrack(track, how, amount, total) ==
  LET offset == CASE how = "to" -> amount [] how = "later" -> track.offset + amount
                  [] how = "earlier" -> track.offset - amount
  IN {[track EXCEPT !.offset = o] : o \in {offset} \intersect 0..(total - 1)}

\* /studio keywords keeps the tracks that start inside the new timeline.
FittingTracks(tracks, total) == {t \in tracks : t.offset < total}

(***************************************************************************)
(* The mix: the filter graph of a render, heard at one moment.             *)
(* A manifest is its tracks and its window; a finished render's window is  *)
(* the whole video.                                                        *)
(***************************************************************************)
RenderStart(m) == m.window.start
RenderLength(m) == m.window.length
RenderEnd(m) == RenderStart(m) + RenderLength(m)

\* A mutant: the part of a preview begins where the track begins.
PartFromItsStart(m, track) ==
  LET start == Most(track.offset, RenderStart(m))
      stop == Least(track.offset + track.length, RenderEnd(m))
  IN [heard |-> stop > start, from |-> track.trimStart,
      delay |-> Less(start, RenderStart(m)), length |-> Less(stop, start)]

\* The part of a track that a render plays: from where in its audio, after
\* which delay, for how long.  A track outside the window has no part.
Part(m, track) ==
  LET start == Most(track.offset, RenderStart(m))
      stop == Least(track.offset + track.length, RenderEnd(m))
  IN [heard |-> stop > start, from |-> track.trimStart + Less(start, track.offset),
      delay |-> Less(start, RenderStart(m)), length |-> Less(stop, start)]

\* How far a Duck track lowers the others at time t of the render, in
\* hundredths of its fade (of 1 without a fade).
DuckLevel(m, track, t) ==
  LET begin == track.offset - RenderStart(m)
      end == begin + track.length
      fade == Least(track.fade, track.length \div 2)
      whole == IF fade = 0 THEN 1 ELSE fade
  IN IF t < begin \/ (fade # 0 /\ t >= end) \/ t > end THEN 100 * whole
     ELSE IF fade = 0 THEN track.duck
     ELSE IF t < begin + fade THEN 100 * fade + (track.duck - 100) * (t - begin)
     ELSE IF t < end - fade THEN track.duck * fade
     ELSE track.duck * fade + (100 - track.duck) * (t - (end - fade))

Ducks(m, other) == {d \in m.tracks : d.mode = "duck" /\ d.id # other /\ d.duck < 100}

\* The video's own sound is muted while an Override track plays.
BaseMuted(m, t) ==
  \E track \in m.tracks :
    /\ track.mode = "override"
    /\ Part(m, track).heard
    /\ t \in Part(m, track).delay..(Part(m, track).delay + Part(m, track).length)

\* What is heard at time t: each track that plays, at which place of its
\* audio and how loud, and the video's sound likewise.
Heard(m, t) ==
  [base |-> IF BaseMuted(m, t) THEN "muted"
            ELSE [at |-> RenderStart(m) + t,
                  ducks |-> {<<d.id, DuckLevel(m, d, t)>> : d \in Ducks(m, 0)}],
   tracks |-> {[id |-> track.id, at |-> Part(m, track).from + (t - Part(m, track).delay),
                volume |-> track.volume,
                ducks |-> {<<d.id, DuckLevel(m, d, t)>> : d \in Ducks(m, track.id)}] :
               track \in {x \in m.tracks :
                 /\ Part(m, x).heard
                 /\ Part(m, x).delay <= t
                 /\ t < Part(m, x).delay + Part(m, x).length}}]

(***************************************************************************)
(* The edits                                                               *)
(***************************************************************************)
Edits ==
  /\ edits < MaxEdits
  /\ edits' = edits + 1
EditOf(track, results) ==
  /\ \E edited \in results : sound' = (sound \ {track}) \union {edited}
  /\ UNCHANGED video

NextId == CHOOSE id \in 1..MaxEdits : \A track \in sound : track.id < id

MixInit == video \in Totals /\ sound = {} /\ edits = 0

Add ==
  /\ Edits
  /\ Cardinality(sound) < 2
  /\ \E mode \in {"override", "overlap", "duck"}, duck \in Volumes, fade \in Fades, at \in Amounts :
       LET track == NewTrack(NextId, AudioLength, mode, duck, fade)
       IN EditOf(track, MoveTrack(track, "to", at, video))
Move == Edits /\ \E track \in sound, how \in {"to", "later", "earlier"}, amount \in Amounts :
  EditOf(track, MoveTrack(track, how, amount, video))
Cut == Edits /\ \E track \in sound, amount \in Amounts \ {0}, sides \in (SUBSET {"start", "end"}) \ {{}} :
  EditOf(track, CutTrack(track, amount, sides))
Change == Edits /\ \E track \in sound, duck \in Volumes \union {Keep}, fade \in Fades \union {Keep} :
  \E mode \in {track.mode, "override", "duck"} : EditOf(track, EditTrack(track, mode, duck, fade))
Keywords ==
  /\ Edits
  /\ video' \in Totals
  /\ sound' = FittingTracks(sound, video')

MixNext == Add \/ Move \/ Cut \/ Change \/ Keywords
MixSpec == MixInit /\ [][MixNext]_mixVars

-----------------------------------------------------------------------------
MixTypeOK ==
  /\ video \in Totals
  /\ \A track \in sound :
       /\ track.offset \in 0..(video - 1)
       /\ track.trimStart + track.length + track.trimEnd = AudioLength /\ track.length >= 1

Positions == {"none", "start", "middle", "end"}
Previews ==
  {PreviewOf(position, track, wanted, video) :
     position \in Positions, track \in sound \union {NoTrack}, wanted \in Windows}

\* A preview shows what the finished render plays at that place of the video,
\* whatever was moved, cut or ducked before.  The instant at which an Override
\* ends, which the render still mutes, is left out.
PreviewIsTheMix ==
  LET full == [tracks |-> sound, window |-> Window(0, video)]
      Ends(t) == \E track \in sound : track.mode = "override" /\ track.offset + track.length = t
  IN \A w \in Previews : \A t \in 0..(w.length - 1) :
       Ends(w.start + t) \/ Heard([full EXCEPT !.window = w], t) = Heard(full, w.start + t)
=============================================================================
