-------------------------------- MODULE Studio --------------------------------
(***************************************************************************)
(* The Pandora Studios of one server, as studio.rs keeps them on disk:     *)
(* a directory with meta.json, its sources and its tracks, and a pointer   *)
(* file for each user.                                                     *)
(*                                                                         *)
(* One lock serialises the commands.  A command is a list of writes that   *)
(* begins when it has the lock; a write may fail, and the process may end  *)
(* between two of them.  Only a render looks at the Studio before it takes *)
(* the lock, to choose its preset.                                         *)
(***************************************************************************)
EXTENDS Naturals, Sequences, FiniteSets

CONSTANTS
  Users,          \* the users of the server (the HTTP API is one of them)
  Studios,        \* the ids that can be drawn, numbers
  Keeps,          \* the sources a command can name: kind and length
  TrackLength,    \* the length of an attachment
  ServerPreset,   \* the preset of the server's settings
  ActiveTtl, ExtendedTtl, DisownedTtl,
  Commands,       \* the commands that are given
  MaxGiven,       \* bound: commands in all
  MaxTime,        \* bound: the clock
  StoreFaults,    \* bound: writes that fail, or restarts, in all
  MaxTracks       \* STUDIO_MAX_TRACKS

VARIABLES
  meta,       \* meta.json of each Studio, or NoMeta
  pointers,   \* current, last and owned Studios of each user
  disk,       \* the media files: Studio, what it is, and which
  linked,     \* the files that share their contents with a render's snapshot
  spoiled,    \* whether a file that a snapshot shares was overwritten
  todo,       \* the writes that the command with the lock has left
  rendering,  \* the preset chosen by a render that has not the lock yet
  renders,    \* the renders queued: kind of the sources, preset
  now, used   \* the clock; commands given, generations drawn and faults met

studioVars == <<meta, pointers, disk, linked, spoiled, todo, rendering, renders, now, used>>

NoMeta == [kind |-> "none"]
NoStudio == 0
Live(s) == meta[s] # NoMeta
Ttl(m) == IF m.extended THEN ExtendedTtl ELSE ActiveTtl

\* The files that a meta.json names.
SourceFile(s, generation) == <<s, "sources", generation>>
TrackFile(s, id) == <<s, "track", id>>
FilesOf(s, m) == {SourceFile(s, m.sources)} \union {TrackFile(s, t.id) : t \in m.tracks}

(***************************************************************************)
(* Writes                                                                  *)
(***************************************************************************)
WriteMeta(s, m) == [write |-> "meta", studio |-> s, meta |-> m, files |-> {}, undo |-> {}]
\* What is removed when meta.json could not be written.
WriteMetaOr(s, m, undo) == [WriteMeta(s, m) EXCEPT !.undo = undo]
WritePointers(u, p) == [write |-> "pointers", user |-> u, pointers |-> p]
Copy(files) == [write |-> "copy", files |-> files]
Link(files) == [write |-> "link", files |-> files]
Remove(files) == [write |-> "remove", files |-> files]
RemoveStudio(s) == [write |-> "remove studio", studio |-> s]
Queue(m, preset) == [write |-> "queue", kind |-> m.kind, preset |-> preset]

Starts(writes) == todo = <<>> /\ todo' = writes
Given(what) ==
  /\ what \in Commands
  /\ used.commands < MaxGiven
  /\ used' = [used EXCEPT !.commands = @ + 1]
Reads == UNCHANGED <<meta, pointers, disk, linked, spoiled, renders, now>>

Perform ==
  /\ todo # <<>>
  /\ LET w == Head(todo)
     IN /\ meta' = CASE w.write = "meta" -> [meta EXCEPT ![w.studio] = w.meta]
                     [] w.write = "remove studio" -> [meta EXCEPT ![w.studio] = NoMeta]
                     [] OTHER -> meta
        /\ pointers' = IF w.write = "pointers" THEN [pointers EXCEPT ![w.user] = w.pointers] ELSE pointers
        /\ disk' = CASE w.write = "copy" -> disk \union w.files
                     [] w.write = "remove" -> disk \ w.files
                     [] w.write = "remove studio" -> {f \in disk : f[1] # w.studio}
                     [] OTHER -> disk
        /\ linked' = CASE w.write = "link" -> linked \union w.files
                       [] OTHER -> linked \intersect disk'
        /\ spoiled' = (spoiled \/ (w.write = "copy" /\ w.files \intersect linked # {}))
        /\ renders' = IF w.write = "queue"
                      THEN renders \union {[kind |-> w.kind, preset |-> w.preset]} ELSE renders
        /\ todo' = Tail(todo)
  /\ UNCHANGED <<rendering, now, used>>

\* A write that fails ends the command; removals are not looked at.
WriteFails ==
  /\ todo # <<>>
  /\ used.faults < StoreFaults
  /\ LET w == Head(todo)
     IN \/ w.write \in {"meta", "pointers", "copy"}
           /\ todo' = IF w.write = "meta" /\ w.undo # {} THEN <<Remove(w.undo)>> ELSE <<>>
        \/ w.write \in {"remove", "remove studio"} /\ todo' = Tail(todo)
  /\ used' = [used EXCEPT !.faults = @ + 1]
  /\ UNCHANGED <<meta, pointers, disk, linked, spoiled, rendering, renders, now>>

(***************************************************************************)
(* Commands                                                                *)
(***************************************************************************)
CurrentOf(u) == pointers[u].current

\* The Studio is there, has not expired, and the user works on it.
Authorized(u, s) ==
  /\ s # NoStudio
  /\ Live(s)
  /\ meta[s].expires > now
  /\ u \in meta[s].team

Refreshed(m) == [m EXCEPT !.expires = now + Ttl(m)]

Remembered(p, s) == [current |-> s, last |-> s, owned |-> p.owned \union {s}]

\* The media is copied to a staging directory and moved before meta.json is
\* written; a directory without meta.json is no Studio.
Create(u) ==
  /\ Given("create")
  /\ \E keep \in Keeps, s \in Studios :
       /\ ~Live(s) /\ \A f \in disk : f[1] # s
       /\ \A lower \in Studios : lower < s => Live(lower) \/ \E f \in disk : f[1] = lower
       /\ LET m == [kind |-> keep.kind, length |-> keep.length, sources |-> 0, team |-> {u},
                    tracks |-> {}, next |-> 1, expires |-> now + ActiveTtl, extended |-> FALSE]
          IN Starts(<<Copy({SourceFile(s, 0)}),
                      WriteMetaOr(s, m, {SourceFile(s, 0)}),
                      WritePointers(u, Remembered(pointers[u], s))>>)
  /\ Reads /\ UNCHANGED rendering

\* A mutant: the old sources go before meta.json names the new ones.
ReplacementOldFirst(s, m, replaced, gone) ==
  <<Copy({SourceFile(s, replaced.sources)}),
    Remove({SourceFile(s, m.sources)} \union {TrackFile(s, t.id) : t \in gone}),
    WriteMetaOr(s, Refreshed(replaced), {SourceFile(s, replaced.sources)})>>

\* New sources under a name of their own, meta.json, then the old ones go.
Replacement(s, m, replaced, gone) ==
  <<Copy({SourceFile(s, replaced.sources)}),
    WriteMetaOr(s, Refreshed(replaced), {SourceFile(s, replaced.sources)}),
    Remove({SourceFile(s, m.sources)} \union {TrackFile(s, t.id) : t \in gone})>>

OutOfRange(tracks, length) == {t \in tracks : t.offset >= length}

\* /studio keywords.  Tracks that start at or behind the new end go.
ReplaceKeywords(u) ==
  /\ Given("keywords")
  /\ Authorized(u, CurrentOf(u))
  /\ \E keep \in Keeps :
       LET s == CurrentOf(u)
           m == meta[s]
           gone == OutOfRange(m.tracks, keep.length)
           replaced == [m EXCEPT !.kind = keep.kind, !.length = keep.length,
                          !.sources = used.commands + 1, !.tracks = @ \ gone]
       IN Starts(Replacement(s, m, replaced, gone))
  /\ Reads /\ UNCHANGED rendering

Look(u) ==
  /\ Given("look")
  /\ \E s \in Studios : Authorized(u, s) /\ Starts(<<WriteMeta(s, Refreshed(meta[s]))>>)
  /\ Reads /\ UNCHANGED rendering

Extend(u) ==
  /\ Given("extend")
  /\ Authorized(u, CurrentOf(u))
  /\ Starts(<<WriteMeta(CurrentOf(u), Refreshed([meta[CurrentOf(u)] EXCEPT !.extended = TRUE]))>>)
  /\ Reads /\ UNCHANGED rendering

MoveTrack(u) ==
  /\ Given("move")
  /\ Authorized(u, CurrentOf(u))
  /\ LET s == CurrentOf(u)
     IN \E t \in meta[s].tracks, offset \in 0..(meta[s].length - 1) :
          Starts(<<WriteMeta(s, Refreshed([meta[s] EXCEPT
                     !.tracks = (@ \ {t}) \union {[t EXCEPT !.offset = offset]}]))>>)
  /\ Reads /\ UNCHANGED rendering

\* The list of a user's Studios forgets the ones that are not the user's now.
List(u) ==
  /\ Given("list")
  /\ LET p == pointers[u]
         owned == {s \in p.owned \union {p.current} : Authorized(u, s)}
     IN Starts(<<WritePointers(u, [p EXCEPT !.owned = owned,
                   !.current = IF @ \in owned THEN @ ELSE NoStudio])>>)
  /\ Reads /\ UNCHANGED rendering

Switch(u) ==
  /\ Given("switch")
  /\ \E s \in Studios :
       /\ Authorized(u, s)
       /\ Starts(<<WriteMeta(s, Refreshed(meta[s])),
                   WritePointers(u, Remembered(pointers[u], s))>>)
  /\ Reads /\ UNCHANGED rendering

\* /studio reown takes any Studio of the server; an expired one is removed.
Reown(u) ==
  /\ Given("reown")
  /\ \E s \in Studios :
       /\ Live(s)
       /\ IF meta[s].expires <= now
          THEN Starts(<<RemoveStudio(s),
                        WritePointers(u, [pointers[u] EXCEPT
                          !.current = IF @ = s THEN NoStudio ELSE @,
                          !.last = IF @ = s THEN NoStudio ELSE @])>>)
          ELSE Starts(<<WriteMeta(s, Refreshed([meta[s] EXCEPT !.team = @ \union {u}])),
                        WritePointers(u, Remembered(pointers[u], s))>>)
  /\ Reads /\ UNCHANGED rendering

\* The last who leaves puts the Studio on its short time.
Disown(u) ==
  /\ Given("disown")
  /\ Authorized(u, CurrentOf(u))
  /\ LET s == CurrentOf(u)
         team == meta[s].team \ {u}
     IN Starts(<<WriteMeta(s, [meta[s] EXCEPT
                   !.team = team,
                   !.expires = now + IF team = {} THEN DisownedTtl ELSE Ttl(meta[s])]),
                 WritePointers(u, [current |-> NoStudio, last |-> s,
                                   owned |-> pointers[u].owned \ {s}])>>)
  /\ Reads /\ UNCHANGED rendering

\* A mutant: the number of a track is its place in the list.
NextIdCounted(m) == Cardinality(m.tracks) + 1
NextId(m) == m.next

AddTrack(u) ==
  /\ Given("add")
  /\ Authorized(u, CurrentOf(u))
  /\ LET s == CurrentOf(u)
         m == meta[s]
         track == [id |-> NextId(m), offset |-> 0, length |-> TrackLength]
     IN /\ Cardinality(m.tracks) < MaxTracks
        /\ Starts(<<Copy({TrackFile(s, track.id)}),
                    WriteMeta(s, Refreshed([m EXCEPT !.tracks = @ \union {track}, !.next = @ + 1]))>>)
  /\ Reads /\ UNCHANGED rendering

RemoveTrack(u) ==
  /\ Given("remove")
  /\ Authorized(u, CurrentOf(u))
  /\ LET s == CurrentOf(u)
     IN \E t \in meta[s].tracks :
          Starts(<<WriteMeta(s, Refreshed([meta[s] EXCEPT !.tracks = @ \ {t}])),
                   Remove({TrackFile(s, t.id)})>>)
  /\ Reads /\ UNCHANGED rendering

\* Encode keeps are copied, Backup keeps are encoded with the server's preset.
Preset(kind, preview) ==
  CASE preview -> "dummy" [] ~preview /\ kind = "encode" -> "copy"
    [] ~preview /\ kind # "encode" -> ServerPreset

\* A render looks at the current Studio, chooses, and then asks for the lock.
BeginRender(u) ==
  /\ Given("render")
  /\ todo = <<>>
  /\ Authorized(u, CurrentOf(u))
  /\ rendering[u] = "none"
  /\ \E preview \in BOOLEAN :
       rendering' = [rendering EXCEPT ![u] = Preset(meta[CurrentOf(u)].kind, preview)]
  /\ Reads /\ UNCHANGED todo

\* The snapshot links the media of the Studio that is current by then.
Snapshot(u) ==
  /\ rendering[u] # "none"
  /\ LET s == CurrentOf(u)
     IN \/ ~Authorized(u, s) /\ todo = <<>> /\ UNCHANGED todo
        \/ /\ Authorized(u, s)
           /\ Starts(<<Link(FilesOf(s, meta[s])),
                       WriteMeta(s, Refreshed(meta[s])),
                       Queue(meta[s], rendering[u])>>)
  /\ rendering' = [rendering EXCEPT ![u] = "none"]
  /\ Reads /\ UNCHANGED used

(***************************************************************************)
(* Time, cleanup and restarts                                              *)
(***************************************************************************)
\* A mutant: a Studio nobody works on is expired at once.
ExpiredWithoutTeam(s) == meta[s].expires <= now \/ meta[s].team = {}
Expired(s) == meta[s].expires <= now

\* Every turn of the main loop: directories that are expired or without
\* meta.json go, then the pointers to them.
Cleanup ==
  /\ todo = <<>>
  /\ LET gone == {s \in Studios : Live(s) /\ Expired(s)}
         kept == {s \in Studios : Live(s)} \ gone
         valid(s) == IF s \in kept THEN s ELSE NoStudio
     IN /\ \/ gone # {} \/ \E f \in disk : f[1] \notin kept
           \/ \E u \in Users : pointers[u].current # valid(pointers[u].current)
        /\ meta' = [s \in Studios |-> IF s \in gone THEN NoMeta ELSE meta[s]]
        /\ disk' = {f \in disk : f[1] \in kept}
        /\ linked' = linked \intersect disk'
        /\ pointers' = [u \in Users |->
             [current |-> valid(pointers[u].current), last |-> valid(pointers[u].last),
              owned |-> pointers[u].owned \intersect kept]]
  /\ UNCHANGED <<spoiled, todo, rendering, renders, now, used>>

Restart ==
  /\ todo # <<>>
  /\ used.faults < StoreFaults
  /\ used' = [used EXCEPT !.faults = @ + 1]
  /\ todo' = <<>>
  /\ rendering' = [u \in Users |-> "none"]
  /\ UNCHANGED <<meta, pointers, disk, linked, spoiled, renders, now>>

Tick ==
  /\ now < MaxTime
  /\ now' = now + 1
  /\ UNCHANGED <<meta, pointers, disk, linked, spoiled, todo, rendering, renders, used>>

StudioInit ==
  /\ meta = [s \in Studios |-> NoMeta]
  /\ pointers = [u \in Users |-> [current |-> NoStudio, last |-> NoStudio, owned |-> {}]]
  /\ disk = {} /\ linked = {} /\ spoiled = FALSE
  /\ todo = <<>>
  /\ rendering = [u \in Users |-> "none"]
  /\ renders = {}
  /\ now = 0
  /\ used = [commands |-> 0, faults |-> 0]

StudioNext ==
  \/ \E u \in Users :
       \/ Create(u) \/ ReplaceKeywords(u) \/ Look(u) \/ Extend(u) \/ List(u) \/ Switch(u)
       \/ Reown(u) \/ Disown(u) \/ AddTrack(u) \/ MoveTrack(u) \/ RemoveTrack(u) \/ BeginRender(u) \/ Snapshot(u)
  \/ Perform \/ WriteFails \/ Cleanup \/ Restart \/ Tick

StudioSpec == StudioInit /\ [][StudioNext]_studioVars

-----------------------------------------------------------------------------
StudioTypeOK ==
  /\ \A s \in Studios : Live(s) =>
       /\ meta[s].team \subseteq Users /\ Cardinality(meta[s].tracks) <= MaxTracks
       /\ \A t \in meta[s].tracks : t.offset < meta[s].length
  /\ \A u \in Users : pointers[u].owned \subseteq Studios /\ pointers[u].current \in Studios \union {NoStudio}
  /\ \A f \in disk : f[1] \in Studios
  /\ spoiled \in BOOLEAN /\ now \in 0..MaxTime

\* meta.json never names media that is not there, whatever write fails and
\* wherever the process ends.
EditorFindsItsMedia == \A s \in Studios : Live(s) => FilesOf(s, meta[s]) \subseteq disk

\* What a render was given is not overwritten under it.
SnapshotsAreKept == ~spoiled

\* A Studio goes only after the time it was given by the last command that
\* succeeded on it.
LeavesInTime == \A s \in Studios : Live(s) /\ ~Live(s)' => meta[s].expires <= now
OnlyExpiredStudiosGo == [][LeavesInTime]_studioVars

\* A render of Backup keeps uses the server's preset.
BackupsUseTheServerPreset == \A r \in renders : r.kind = "backup" => r.preset \in {ServerPreset, "dummy"}
=============================================================================
