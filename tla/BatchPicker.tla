----------------------------- MODULE BatchPicker -----------------------------
(***************************************************************************)
(* The /batch command and the buttons of its message                       *)
(* (helpers/handlers/batch.rs).  The command pairs the files of a probe    *)
(* with the subtitles of an archive, shows the pairing and leaves it on    *)
(* disk; a click reads it back, so it outlives a restart of the bot.       *)
(* A file is a record of its index in the torrent and of the episode its   *)
(* label names; an entry of the archive is a record of the number in its   *)
(* name and of what it is.                                                 *)
(***************************************************************************)
EXTENDS Integers, Sequences, FiniteSets, SequencesExt, Functions

CONSTANTS
  Probes,     \* the file lists of probes, in the order they are shown
  Archives,   \* the entries of archives, in the order they are packed
  Typed,      \* what the user may type as indexes: ranges, or nothing for all files
  Clickers,   \* the users who click
  MaxClicks, MaxRestarts, MaxStageFaults \* bounds

Author == "author"

VARIABLES
  probe,    \* the row of the probe job: its list of files
  at,       \* how far the command is
  shown,    \* the pairing of the message
  buttons,  \* whether the message has its buttons
  subs,     \* the staged subtitles that are there, by position
  manifest, \* the staged pairing, if there is one: a set of at most one
  clicks,   \* the clicks being handled
  told,     \* what the message says of the batch in the end
  sent,     \* the batches that were sent to the worker
  request,  \* the archive and the indexes that were taken: a set of at most one
  spent     \* the clicks, restarts and faults so far; and, history, whether a
            \* confirmation or a cancellation met another, or a restart cut one

pickVars ==
  <<probe, at, shown, buttons, subs, manifest, clicks, told, sent, request, spent>>

-----------------------------------------------------------------------------
\* Nothing can be selected with a range that ends before it begins, or that is
\* too long.
Range512 == 512
Malformed(ranges) ==
  \E n \in DOMAIN ranges :
    ranges[n].to < ranges[n].from \/ ranges[n].to - ranges[n].from > Range512
InRanges(x, ranges) == \E n \in DOMAIN ranges : x \in ranges[n].from .. ranges[n].to
FilesAsTyped(files, typed) ==
  IF typed = <<>> THEN files
  ELSE FlattenSeq([n \in DOMAIN typed |->
                    SelectSeq(files, LAMBDA f : InRanges(f.index, <<typed[n]>>))])
\* The selection keeps the order of the probe, not the order it was typed in.
SelectFiles(files, typed) ==
  IF typed = <<>> THEN files
  ELSE SelectSeq(files, LAMBDA f : InRanges(f.index, typed))

\* The subtitles of an archive by the numbers in their names; folders, hidden
\* files and files of another kind are passed over.
IsSubtitle(entry) == entry.kind \in {"subtitle", "broken"}
ReadArchive(archive) ==
  LET found == {n \in DOMAIN archive : IsSubtitle(archive[n])}
      Before(m, n) == \/ archive[m].number < archive[n].number
                      \/ archive[m].number = archive[n].number /\ m < n
  IN [n \in 1 .. Cardinality(found) |-> archive[SetToSortSeq(found, Before)[n]]]
Unreadable(archive) == \E n \in DOMAIN archive : archive[n].kind = "broken"

Shorter(s, t) == IF Len(s) < Len(t) THEN Len(s) ELSE Len(t)
Pairing(files, subtitles) ==
  [n \in 1 .. Shorter(files, subtitles) |->
     [index |-> files[n].index, episode |-> files[n].episode,
      subtitle |-> subtitles[n].number]]

-----------------------------------------------------------------------------
NoSpent == [clicks |-> 0, restarts |-> 0, faults |-> 0, met |-> FALSE]
Spend(what) == spent' = [spent EXCEPT ![what] = @ + 1]

PickInit ==
  /\ probe \in Probes
  /\ at = "idle"
  /\ shown = <<>> /\ buttons = FALSE
  /\ subs = <<>> /\ manifest = {}
  /\ clicks = {}
  /\ told = "nothing"
  /\ sent = <<>>
  /\ request = {}
  /\ spent = NoSpent

\* The command: the row of the probe, the selection and the archive are looked
\* at; the message is created before anything is staged.
Refused(archive, typed) ==
  \/ probe = <<>>
  \/ Malformed(typed)
  \/ SelectFiles(probe, typed) = <<>>
  \/ Unreadable(archive) \/ ReadArchive(archive) = <<>>
Batch(archive, typed) ==
  /\ at = "idle"
  /\ IF Refused(archive, typed)
     THEN at' = "refused" /\ UNCHANGED <<shown, request>>
     ELSE /\ at' = "staging"
          /\ shown' = Pairing(SelectFiles(probe, typed), ReadArchive(archive))
          /\ request' = {[archive |-> archive, typed |-> typed]}
  /\ UNCHANGED <<probe, buttons, subs, manifest, clicks, told, sent, spent>>

\* The subtitles are written one by one, and the manifest after them.
StageSubtitle ==
  /\ at = "staging"
  /\ Len(subs) < Len(shown)
  /\ subs' = Append(subs, shown[Len(subs) + 1].subtitle)
  /\ UNCHANGED <<probe, at, shown, buttons, manifest, clicks, told, sent, request, spent>>
StageManifest ==
  /\ at = "staging"
  /\ Len(subs) = Len(shown)
  /\ manifest' = {shown}
  /\ at' = "staged"
  /\ UNCHANGED <<probe, shown, buttons, subs, clicks, told, sent, request, spent>>
\* A write that fails: the message is deleted; what was staged stays.
StageFails ==
  /\ at = "staging"
  /\ spent.faults < MaxStageFaults
  /\ at' = "refused"
  /\ Spend("faults")
  /\ UNCHANGED <<probe, shown, buttons, subs, manifest, clicks, told, sent, request>>
Show ==
  /\ at = "staged"
  /\ at' = "shown"
  /\ buttons' = TRUE
  /\ UNCHANGED <<probe, shown, subs, manifest, clicks, told, sent, request, spent>>

-----------------------------------------------------------------------------
\* A click reads the manifest; without one, or for another user than the author,
\* it is answered and changes nothing.  Nothing keeps the buttons from being clicked
\* again before a click is answered.
Acting == {c \in clicks : c.kind # "page"}
Click(user, kind) ==
  /\ buttons
  /\ spent.clicks < MaxClicks
  /\ spent' = [spent EXCEPT !.clicks = @ + 1, !.met = @ \/ (kind # "page" /\ Acting # {})]
  /\ clicks' = IF manifest = {} \/ user # Author THEN clicks
               ELSE clicks \union {[id |-> spent.clicks, kind |-> kind, looked |-> 0,
                                    entries |-> <<>>, done |-> "read"]}
  /\ UNCHANGED <<probe, at, shown, buttons, subs, manifest, told, sent, request>>

Moves(c, d) == clicks' = (clicks \ {c}) \union {d}
Over(c) == clicks' = clicks \ {c}

\* Another page of the same listing, with the buttons again.
Page(c) ==
  /\ c.kind = "page"
  /\ Over(c)
  /\ buttons' = TRUE
  /\ UNCHANGED <<probe, at, shown, subs, manifest, told, sent, request, spent>>

\* What is staged is removed one file after another, in any order; a removal that
\* meets another may give up.
RemovePending(c) ==
  \/ /\ \/ \E n \in DOMAIN subs : subs' = Restrict(subs, DOMAIN subs \ {n}) /\ UNCHANGED manifest
        \/ manifest # {} /\ manifest' = {} /\ UNCHANGED subs
     /\ UNCHANGED clicks
  \/ /\ \/ manifest = {} /\ subs = <<>>
        \/ \E d \in clicks \ {c} : d.done = "removing"
     /\ Moves(c, [c EXCEPT !.done = "removed"]) /\ UNCHANGED <<manifest, subs>>

Cancel(c) ==
  /\ c.kind = "cancel"
  /\ \/ c.done = "read" /\ Moves(c, [c EXCEPT !.done = "removing"])
        /\ UNCHANGED <<buttons, told, manifest, subs>>
     \/ c.done = "removing" /\ RemovePending(c) /\ UNCHANGED <<buttons, told>>
     \/ c.done = "removed" /\ Over(c) /\ buttons' = FALSE /\ told' = "cancelled"
        /\ UNCHANGED <<manifest, subs>>
  /\ UNCHANGED <<probe, at, shown, sent, request, spent>>

\* A confirmation reads the subtitles one by one and leaves out those it cannot
\* read.
ReadSubtitle(c) ==
  /\ c.kind = "confirm" /\ c.done = "read"
  /\ c.looked < Len(shown)
  /\ LET n == c.looked + 1
         entry == [shown[n] EXCEPT !.subtitle = subs[n]]
     IN Moves(c, [c EXCEPT !.looked = n,
                           !.entries = IF n \in DOMAIN subs THEN Append(@, entry) ELSE @])
  /\ UNCHANGED <<probe, at, shown, buttons, subs, manifest, told, sent, request, spent>>
\* Without a subtitle the click is answered as expired; else the buttons go.
Confirm(c) ==
  /\ c.kind = "confirm" /\ c.done = "read"
  /\ c.looked = Len(shown)
  /\ IF c.entries = <<>> THEN Over(c) /\ UNCHANGED <<buttons, told>>
     ELSE Moves(c, [c EXCEPT !.done = "removing"]) /\ buttons' = FALSE /\ told' = "confirmed"
  /\ UNCHANGED <<probe, at, shown, subs, manifest, sent, request, spent>>
\* The pairing is removed before the batch is sent.
Send(c) ==
  /\ c.kind = "confirm"
  /\ \/ c.done = "removing" /\ RemovePending(c) /\ UNCHANGED sent
     \/ c.done = "removed" /\ Over(c) /\ sent' = Append(sent, c.entries)
        /\ UNCHANGED <<manifest, subs>>
  /\ UNCHANGED <<probe, at, shown, buttons, told, request, spent>>

\* The bot starts again: what is on disk and the message remain.
Restart ==
  /\ spent.restarts < MaxRestarts
  /\ at # "idle"
  /\ spent' = [spent EXCEPT !.restarts = @ + 1,
                            !.met = @ \/ \E c \in clicks : c.done = "removing"]
  /\ clicks' = {}
  /\ at' = IF at = "shown" THEN "shown" ELSE "refused"
  /\ UNCHANGED <<probe, shown, buttons, subs, manifest, told, sent, request>>

Clicked == \E c \in clicks : Page(c) \/ Cancel(c) \/ ReadSubtitle(c) \/ Confirm(c) \/ Send(c)
PickNext ==
  \/ \E archive \in Archives, typed \in Typed : Batch(archive, typed)
  \/ StageSubtitle \/ StageManifest \/ StageFails \/ Show
  \/ \E user \in Clickers, kind \in {"page", "cancel", "confirm"} : Click(user, kind)
  \/ Clicked
  \/ Restart

PickSpec == PickInit /\ [][PickNext]_pickVars

-----------------------------------------------------------------------------
PickTypeOK ==
  /\ probe \in Probes
  /\ at \in {"idle", "refused", "staging", "staged", "shown"}
  /\ buttons \in BOOLEAN
  /\ DOMAIN subs \subseteq DOMAIN shown
  /\ manifest \subseteq {shown}
  /\ \A c \in clicks : c.looked \in 0 .. Len(shown) /\ Len(c.entries) <= c.looked
  /\ told \in {"nothing", "cancelled", "confirmed"}

\* When the archive holds one subtitle for every selected episode, each episode
\* is sent with its own, whatever order the files were packed in, the indexes
\* were typed in and the names sort in as text (batch.rs: "the pairing shown is
\* the pairing that runs"; natural_key).
NumbersOf(archive) ==
  {archive[n].number : n \in {m \in DOMAIN archive : IsSubtitle(archive[m])}}
Fits(r) ==
  LET files == SelectFiles(probe, r.typed)
  IN /\ {files[n].episode : n \in DOMAIN files} = NumbersOf(r.archive)
     /\ Len(files) = Len(ReadArchive(r.archive))
EachHasItsOwn ==
  (\E r \in request : Fits(r)) =>
    \A n \in DOMAIN sent : \A m \in DOMAIN sent[n] : sent[n][m].episode = sent[n][m].subtitle

\* A message starts at most one batch, of exactly the pairing it showed, and none
\* after it said that the batch is cancelled, whatever pages are shown meanwhile and
\* whenever the bot starts again, as long as no confirmation or cancellation met
\* another or was cut off while it removed what was staged.  Even then a batch is the
\* pairing that was shown, in its order, with some of it left out at most: no episode
\* gets the subtitle of another (batch.rs: "the pairing shown is the pairing that
\* runs").
LeftOut(batch) ==
  \E kept \in SUBSET DOMAIN shown : batch = [n \in 1 .. Cardinality(kept) |->
                                           shown[SetToSortSeq(kept, <)[n]]]
RunsAsShown ==
  /\ \A n \in DOMAIN sent : LeftOut(sent[n])
  /\ spent.met
     \/ /\ Len(sent) <= 1 /\ \A n \in DOMAIN sent : sent[n] = shown
        /\ told = "cancelled" => sent = <<>> /\ \A c \in clicks : c.done # "removed"
=============================================================================
