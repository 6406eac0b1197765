---------------------------- MODULE PreviewShots ----------------------------
(***************************************************************************)
(* The frames that /smartcode preview shows of an episode: the stamps of   *)
(* its scripts, or else the heaviest clusters of the typesetting, some     *)
(* distance apart and not all of one scene (pnworker/preview.rs); and the  *)
(* job that takes them from the video and puts them under one another      *)
(* (workers/probeworker.rs).                                               *)
(*                                                                         *)
(* A line of the typesetting is a record of its span, of whether it uses a *)
(* font or a drawing, and of how many tags it has; a stamp is a span.      *)
(***************************************************************************)
EXTENDS Integers, Sequences, FiniteSets, FiniteSetsExt, SequencesExt

CONSTANTS
  Scripts,      \* the typesettings: sets of at most one set of lines
  Marks,        \* the stamps of all scripts: sets of spans
  JoinGap, MinGap, Cooldowns, MaxShots,
  MaxFrameFaults  \* bound: frames that cannot be taken, composed or merged

VARIABLES
  script,    \* the typesetting, the stamps and the cooldown that were given
  ranked,    \* the clusters in the order of rank, each with its shot
  outcome,   \* the verdict on each cluster, in the order of rank
  order,     \* the clusters and stamps that were accepted, in that order
  deferred,  \* the clusters put off, in the order of rank
  at,        \* how far the command or its job is
  shots,     \* the moments of the job that is sent
  frames,    \* the moments whose frame was written
  picture,   \* what the message shows in the end
  faults

shotVars == <<script, ranked, outcome, order, deferred, at, shots, frames, picture, faults>>

Distance(x, y) == IF x < y THEN y - x ELSE x - y
Mid(span) == IF span.to <= span.from THEN span.from ELSE span.from + (span.to - span.from) \div 2

-----------------------------------------------------------------------------
\* Lines that follow one another within the gap are one cluster; a line that
\* ends before it begins is in none.
Candidates(lines) == {l \in lines : l.to > l.from}
Ends(lines) == Max({l.to : l \in lines})
\* The lines that begin a cluster: all before them end too early.
Heads(lines) ==
  {l.from : l \in {x \in lines : \A y \in lines : y.from < x.from => y.to + JoinGap < x.from}}
HeadOf(lines, l) == Max({h \in Heads(lines) : h <= l.from})
ClustersOf(lines) ==
  {{l \in lines : HeadOf(lines, l) = h} : h \in Heads(lines)}

Count(members, Test(_)) == Cardinality({l \in members : Test(l)})
From(members) == Min({l.from : l \in members})
Center(members) == From(members) + (Ends(members) - From(members)) \div 2
Drawings(members) == Count(members, LAMBDA l : l.drawing)
Fonts(members) == Count(members, LAMBDA l : l.font)
MaxTags(members) == Max({l.tags : l \in members})

\* The member that is drawn, has most tags, is nearest to the middle, is first.
Heavier(l, m, center) ==
  \/ l.drawing /\ ~m.drawing
  \/ /\ l.drawing = m.drawing
     /\ \/ l.tags > m.tags
        \/ /\ l.tags = m.tags
           /\ <<Distance(Mid(l), center), Mid(l)>> # <<Distance(Mid(m), center), Mid(m)>>
           /\ \/ Distance(Mid(l), center) < Distance(Mid(m), center)
              \/ Distance(Mid(l), center) = Distance(Mid(m), center) /\ Mid(l) < Mid(m)
HeavyMid(members) ==
  Mid(CHOOSE l \in members : \A m \in members \ {l} : ~Heavier(m, l, Center(members)))
NearestMid(members) ==
  LET near == Min({Distance(Mid(l), Center(members)) : l \in members})
  IN Min({Mid(l) : l \in {m \in members : Distance(Mid(m), Center(members)) = near}})
ShotOf(members) ==
  IF Drawings(members) > 0 \/ MaxTags(members) > 0 THEN HeavyMid(members)
  ELSE IF \E l \in members : l.from < Center(members) /\ Center(members) < l.to
       THEN Center(members) ELSE NearestMid(members)

\* The order of rank: fonts, drawings, lines, tags, length, start.
Weight(members) ==
  <<IF Fonts(members) > 0 THEN 1 ELSE 0, Drawings(members), Cardinality(members),
    MaxTags(members), Ends(members) - From(members), 0 - From(members)>>
Greater(v, w) == \E n \in DOMAIN v : v[n] > w[n] /\ \A m \in 1 .. n - 1 : v[m] = w[m]
RanksBefore(c, d) == Greater(Weight(c), Weight(d))

-----------------------------------------------------------------------------
\* The stamps in the order of their starts, one for each moment, as many as fit.
StampsFirst(marks) ==
  LET Earlier(s, t) == s.from < t.from \/ (s.from = t.from /\ s.to < t.to)
      moments == [n \in 1 .. Cardinality(marks) |-> Mid(SetToSortSeq(marks, Earlier)[n])]
      fresh == {n \in DOMAIN moments : \A m \in 1 .. n - 1 : moments[m] # moments[n]}
      kept == SetToSortSeq(fresh, <)
  IN [n \in 1 .. Min({Len(kept), MaxShots}) |-> moments[kept[n]]]

Lines == UNION script.ts
RankedOf(clusters) ==
  LET sorted == SetToSortSeq(clusters, RanksBefore)
  IN [n \in DOMAIN sorted |->
        [lines |-> sorted[n], to |-> Ends(sorted[n]), shot |-> ShotOf(sorted[n])]]
Shot(n) == ranked[n].shot
Accepted == {order[n] : n \in DOMAIN order}
TooNear(n) == \E m \in Accepted : Distance(Shot(m), Shot(n)) < MinGap
\* The moment comes soon after an accepted cluster.
Cooling(n) ==
  \E m \in Accepted : /\ Shot(n) > ranked[m].to
                      /\ Shot(n) <= ranked[m].to + script.cooldown
Full == Len(order) >= MaxShots

ShotInit ==
  /\ \E ts \in Scripts, marks \in Marks, cooldown \in Cooldowns :
       script = [ts |-> ts, marks |-> marks, cooldown |-> cooldown]
  /\ ranked = <<>> /\ outcome = <<>> /\ order = <<>> /\ deferred = <<>>
  /\ at = "select" /\ shots = <<>> /\ frames = <<>> /\ picture = <<>>
  /\ faults = 0

\* Stamps are taken before any typesetting; without either there is no job.
Stamped ==
  /\ at = "select" /\ script.marks # {}
  /\ shots' = StampsFirst(script.marks)
  /\ at' = IF shots' = <<>> THEN "none" ELSE "job"
  /\ UNCHANGED <<script, ranked, outcome, order, deferred, frames, picture, faults>>
Unset ==
  /\ at = "select" /\ script.marks = {} /\ script.ts = {}
  /\ at' = "none"
  /\ UNCHANGED <<script, ranked, outcome, order, deferred, shots, frames, picture, faults>>
Rank ==
  /\ at = "select" /\ script.marks = {} /\ script.ts # {}
  /\ at' = "walk"
  /\ ranked' = RankedOf(ClustersOf(Candidates(Lines)))
  /\ UNCHANGED <<script, outcome, order, deferred, shots, frames, picture, faults>>

\* The clusters are walked in the order of rank.
Walk ==
  /\ at = "walk" /\ Len(outcome) < Len(ranked)
  /\ LET n == Len(outcome) + 1
         verdict == IF Full THEN "over" ELSE IF TooNear(n) THEN "gap"
                    ELSE IF Cooling(n) THEN "cooldown" ELSE "selected"
     IN /\ outcome' = Append(outcome, verdict)
        /\ order' = IF verdict = "selected" THEN Append(order, n) ELSE order
        /\ deferred' = IF verdict = "cooldown" THEN Append(deferred, n) ELSE deferred
  /\ UNCHANGED <<script, ranked, at, shots, frames, picture, faults>>

\* What was put off fills the places that are left.
Backfill ==
  /\ at = "walk" /\ Len(outcome) = Len(ranked)
  /\ deferred # <<>> /\ ~Full
  /\ LET n == Head(deferred)
         verdict == IF TooNear(n) THEN "gap" ELSE "backfilled"
     IN /\ outcome' = [outcome EXCEPT ![n] = verdict]
        /\ order' = IF verdict = "gap" THEN order ELSE Append(order, n)
        /\ deferred' = Tail(deferred)
  /\ UNCHANGED <<script, ranked, at, shots, frames, picture, faults>>

Chosen ==
  /\ at = "walk" /\ Len(outcome) = Len(ranked) /\ (deferred = <<>> \/ Full)
  /\ shots' = SetToSortSeq({Shot(n) : n \in Accepted}, <)
  /\ at' = IF order = <<>> THEN "none" ELSE "job"
  /\ UNCHANGED <<script, ranked, outcome, order, deferred, frames, picture, faults>>

-----------------------------------------------------------------------------
\* The job takes one frame after the other; one that ffmpeg cannot take or that
\* cannot be written is left out, one that cannot be labelled is shown bare.
Fault == faults < MaxFrameFaults /\ faults' = faults + 1
Frame(n, state) == [moment |-> shots[n], state |-> state]
Screenshot ==
  /\ at = "job" /\ Len(frames) < Len(shots)
  /\ LET n == Len(frames) + 1 IN
     \/ UNCHANGED faults /\ frames' = Append(frames, Frame(n, "labelled"))
     \/ Fault /\ \E state \in {"bare", "lost"} : frames' = Append(frames, Frame(n, state))
  /\ UNCHANGED <<script, ranked, outcome, order, deferred, at, shots, picture>>

Rendered == SelectSeq(frames, LAMBDA f : f.state # "lost")
\* One picture of all frames, or, when they cannot be merged, each by itself.
Merge ==
  /\ at = "job" /\ Len(frames) = Len(shots)
  /\ \/ Rendered = <<>> /\ at' = "failed" /\ UNCHANGED <<picture, faults>>
     \/ Rendered # <<>> /\ at' = "merged" /\ picture' = Rendered /\ UNCHANGED faults
     \/ Rendered # <<>> /\ at' = "single" /\ picture' = Rendered /\ Fault
  /\ UNCHANGED <<script, ranked, outcome, order, deferred, shots, frames>>

Cancel ==
  /\ at = "job" /\ Len(frames) < Len(shots)
  /\ at' = "cancelled"
  /\ UNCHANGED <<script, ranked, outcome, order, deferred, shots, frames, picture, faults>>

ShotNext ==
  Stamped \/ Unset \/ Rank \/ Walk \/ Backfill \/ Chosen \/ Screenshot \/ Merge \/ Cancel
ShotSpec == ShotInit /\ [][ShotNext]_shotVars

-----------------------------------------------------------------------------
\* Verdicts are those of the code, and no more shots are chosen than asked for.
ShotTypeOK ==
  /\ \A n \in DOMAIN outcome :
       outcome[n] \in {"over", "gap", "cooldown", "selected", "backfilled"}
  /\ Len(shots) <= MaxShots /\ Len(order) <= MaxShots
  /\ at \in {"select", "walk", "none", "job", "merged", "single", "failed", "cancelled"}

Ended == at \notin {"select", "walk"}
Automatic == Ended /\ script.marks = {} /\ script.ts # {}

\* The shots of the typesetting are apart, each shows a line of it, and what is
\* left out has a reason: a shot that is too near and ranks higher or was selected
\* at once, or that there are as many as fit.  A cluster of a scene just shown is
\* taken only when no other was left.
ShotsAreJustified ==
  Automatic =>
    /\ \A m, n \in Accepted : m # n => Distance(Shot(m), Shot(n)) >= MinGap
    /\ \A n \in Accepted : \E l \in ranked[n].lines : l.from <= Shot(n) /\ Shot(n) < l.to
    /\ \A n \in DOMAIN outcome \ Accepted :
         \/ Full
         \/ \E m \in Accepted : /\ Distance(Shot(m), Shot(n)) < MinGap
                                /\ m < n \/ outcome[m] = "selected"
    /\ \A n \in DOMAIN outcome : outcome[n] = "backfilled" =>
         /\ \E m \in Accepted : m < n /\ outcome[m] = "selected" /\ Shot(m) < Shot(n)
         /\ \A k \in DOMAIN outcome : outcome[k] # "over"
    /\ Accepted = {} => Candidates(Lines) = {} \/ MaxShots = 0

\* The frames of the picture are in the order of time, each of an accepted
\* cluster, whichever could not be taken.
PictureInOrder ==
  at \in {"merged", "single"} /\ Automatic =>
    /\ \A m, n \in DOMAIN picture : m < n => picture[m].moment < picture[n].moment
    /\ \A n \in DOMAIN picture :
         \E k \in Accepted : Shot(k) = picture[n].moment
=============================================================================
