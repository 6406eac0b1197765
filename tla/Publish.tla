------------------------------- MODULE Publish -------------------------------
(***************************************************************************)
(* Publishing one uploaded job: /publish, which goes to AnimeciX, then     *)
(* OpenAnime, then Anizm, the commands for one site each, and the record   *)
(* of the two AnimeciX halves in the job's row (handlers/publish.rs,       *)
(* anizmconfirm.rs, openanimeconfirm.rs, akiraconfirm.rs, pnworker/acix.rs)*)
(*                                                                         *)
(* A command holds no lock: it works on the copy of the record it read and *)
(* writes that copy back whole.  A call of a site succeeds, is refused, or *)
(* does its work and loses the answer.                                     *)
(***************************************************************************)
EXTENDS Naturals

CONSTANTS
  Groups,       \* the fansubs a release can go out under
  ServerGroup,  \* the one /edit has selected for the server
  Links,        \* the uploaded links a site can play
  Kinds,        \* the commands that are given
  Namings,      \* the sets of sites a /publish names a group for
  Listed,       \* how many such episodes Anizm may have at first, of 0 and 1
  Duplicates,   \* the groups for which Anizm lists two relations already
  MaxCommands,  \* bound: commands given in all
  Together,     \* bound: commands at work at one time
  SiteFaults,   \* what may go wrong: "refused", "lost", "store", "restart"
  MaxSiteFaults \* bound: how often something goes wrong in all

VARIABLES
  record,     \* acix_pending of the row
  onAcix,     \* the label of each half AnimeciX received last, or none
  onOpen,     \* the sources OpenAnime has: link and group
  anizm,      \* Anizm: the episode, the relations of each group, the videos
  onAkira,    \* Akira: whether the episode is there, and its links
  cmd,        \* the commands at work, each with the copy it works on
  bounds,     \* the commands given and the faults met so far
  raced       \* history: the record got another label while a command had a copy of it

pubVars == <<record, onAcix, onOpen, anizm, onAkira, cmd, bounds, raced>>
sites == <<onAcix, onOpen, anizm, onAkira>>

Halves == {"multishare", "multiple"}
Sites == {"AnimeciX", "OpenAnime", "Anizm"}
NoRecord == [status |-> "none"]
Label == [group: Groups, extra: {"queued", "edited"}]

\* A fault, as long as the bound allows one.
Fault(what) ==
  /\ what \in SiteFaults
  /\ bounds.faults < MaxSiteFaults
  /\ bounds' = [bounds EXCEPT !.faults = @ + 1]

\* How a call of a site ends: it did its work or not, and the answer says so
\* or not.
Call(done, result) ==
  \/ done /\ result = "ok" /\ UNCHANGED bounds
  \/ ~done /\ result = "error" /\ Fault("refused")
  \/ done /\ result = "error" /\ Fault("lost")

(***************************************************************************)
(* The record                                                              *)
(***************************************************************************)
NewRecord(group, id) ==
  [label |-> [group |-> group, extra |-> "queued"], id |-> id,
   status |-> "pending", multishare |-> "pending", multiple |-> "pending"]

\* A record of before the two halves: "published" meant the multishare.
LegacyRecord ==
  [NewRecord(ServerGroup, FALSE) EXCEPT !.status = "published",
     !.multishare = "none", !.multiple = "none"]

\* The status of the record is a summary of its halves.
WithStatus(r) ==
  [r EXCEPT !.status =
     LET states == {r[h] : h \in Halves}
     IN CASE states = {"published"} -> "published"
          [] "published" \in states /\ states # {"published"} -> "partial"
          [] "published" \notin states /\ "failed" \in states -> "failed"
          [] OTHER -> "pending"]

\* What a legacy record says is kept: its multishare is not sent again.
Upgraded(r) ==
  WithStatus([r EXCEPT
    !.multishare = IF @ = "none" THEN IF r.status = "published" THEN "published" ELSE "pending" ELSE @,
    !.multiple = IF @ = "none" THEN "pending" ELSE @])

FullyPublished(r) == \A h \in Halves : r[h] = "published"
HalfPublished(r) == \E h \in Halves : r[h] = "published"

\* A failure before either half was tried.
SharedFailure(r) ==
  WithStatus([h \in DOMAIN r |->
    IF h \in Halves /\ r[h] # "published" THEN "failed" ELSE r[h]])

\* /acixunpublish: the halves of the scope are pending again, here only.
Reset(r, scope) ==
  WithStatus([h \in DOMAIN r |-> IF h \in Halves \intersect scope THEN "pending" ELSE r[h]])

(***************************************************************************)
(* Commands                                                                *)
(***************************************************************************)
Idle == [step |-> "done"]
At(c, step) == cmd[c].step = step
Becomes(c, command) == cmd' = [cmd EXCEPT ![c] = IF command.step = "done" THEN Idle ELSE command]
Goes(c, step) == Becomes(c, [cmd[c] EXCEPT !.step = step])
Takes(c, r, step) == Becomes(c, [cmd[c] EXCEPT !.step = step, !.mine = r])

\* The group a command publishes under on a site.  Naming the group of one
\* site excludes the sites that are not named.
GroupAt(c, site) ==
  IF site \in cmd[c].named THEN cmd[c].group
  ELSE IF cmd[c].named = {} THEN ServerGroup ELSE "excluded"

FirstStep(kind) ==
  CASE kind = "publish" -> "queue"
    [] kind = "acixconfirm" -> "confirm"
    [] kind = "acixunpublish" -> "reset"
    [] kind = "openanimeconfirm" -> "open"
    [] kind = "anizmconfirm" -> "episode"
    [] kind = "akiraconfirm" -> "akira"

\* A command of an uploaded job, whose options are well-formed.  "has" is
\* whether the row had a record when the command read it.
Given(kind, named, group, edit, scope, id) ==
  /\ bounds.commands < MaxCommands
  /\ bounds' = [bounds EXCEPT !.commands = @ + 1]
  /\ \E c \in DOMAIN cmd :
       /\ cmd[c] = Idle
       /\ \A d \in 1..(c - 1) : cmd[d] # Idle
       /\ cmd' = [cmd EXCEPT ![c] =
            [kind |-> kind, step |-> FirstStep(kind), named |-> named, group |-> group,
             edit |-> edit, scope |-> scope, id |-> id, has |-> record # NoRecord,
             mine |-> NoRecord, left |-> Links]]
  /\ UNCHANGED <<record, sites>>

Give ==
  \E kind \in Kinds :
    \/ /\ kind = "publish"
       /\ \E named \in Namings, group \in Groups, edit, id \in BOOLEAN :
            /\ named = {} => group = ServerGroup
            /\ Given(kind, named, group, edit, {}, id)
    \/ kind = "acixconfirm" /\ \E edit \in BOOLEAN : Given(kind, {}, ServerGroup, edit, {}, FALSE)
    \/ /\ kind = "acixunpublish"
       /\ \E scope \in SUBSET Halves \ {{}} : Given(kind, {}, ServerGroup, FALSE, scope, FALSE)
    \/ /\ kind \in {"openanimeconfirm", "anizmconfirm", "akiraconfirm"}
       /\ \E create \in BOOLEAN : Given(kind, {}, ServerGroup, create, {}, FALSE)

\* Where a command goes when its AnimeciX part is over.
AfterAcix(c) == IF cmd[c].kind = "publish" THEN "open" ELSE "done"

\* The record in the row is replaced by the command's copy, or the write fails.
Persist(c, r, next, otherwise) ==
  \/ record' = r /\ Takes(c, r, next) /\ UNCHANGED bounds
  \/ Fault("store") /\ Takes(c, r, otherwise) /\ UNCHANGED record

Moves(c, step) == Goes(c, step) /\ UNCHANGED <<record, bounds>>

(***************************************************************************)
(* AnimeciX                                                                *)
(***************************************************************************)
\* /publish queues a record for a job that had none.
Queue(c) ==
  /\ At(c, "queue")
  /\ LET group == GroupAt(c, "AnimeciX")
     IN \/ group = "excluded" /\ Moves(c, "open")
        \/ group # "excluded" /\ cmd[c].has /\ Moves(c, "confirm")
        \/ /\ group # "excluded" /\ ~cmd[c].has
           /\ Persist(c, NewRecord(group, cmd[c].id), "confirm", "open")
  /\ UNCHANGED sites

\* A mutant: an override is taken whatever has been published.
EditsRefusedNever(r, edits) == FALSE
EditsRefused(r, edits) == edits /\ HalfPublished(r)

\* The record is read; a title id is noted in it first, then the overrides,
\* which are refused once a half is published.
Confirm(c) ==
  /\ At(c, "confirm")
  /\ LET relabel == cmd[c].has /\ "AnimeciX" \in cmd[c].named
         read == Upgraded(record)
         noted == [read EXCEPT !.id = @ \/ cmd[c].id]
         edits == cmd[c].edit \/ relabel
         edited == [noted EXCEPT
           !.label.group = IF relabel THEN cmd[c].group ELSE @,
           !.label.extra = IF cmd[c].edit THEN "edited" ELSE @]
     IN \/ record = NoRecord /\ Moves(c, AfterAcix(c))
        \/ record # NoRecord /\ FullyPublished(read) /\ Moves(c, AfterAcix(c))
        \/ /\ record # NoRecord /\ ~FullyPublished(read)
           /\ EditsRefused(read, edits)
           /\ IF cmd[c].id THEN Persist(c, WithStatus(noted), AfterAcix(c), AfterAcix(c))
              ELSE Moves(c, AfterAcix(c))
        \/ /\ record # NoRecord /\ ~FullyPublished(read)
           /\ ~EditsRefused(read, edits)
           /\ \/ (cmd[c].id \/ edits) /\ Persist(c, WithStatus(edited), "resolve", AfterAcix(c))
              \/ /\ cmd[c].id /\ edits /\ Fault("store")
                 /\ record' = WithStatus(noted)
                 /\ Goes(c, AfterAcix(c))
              \/ ~cmd[c].id /\ ~edits /\ Takes(c, read, "resolve") /\ UNCHANGED <<record, bounds>>
  /\ UNCHANGED sites

\* The title id is the record's, or is searched for by the MyAnimeList id; a
\* client that cannot be made, or a search without a hit, fails both halves.
Resolve(c) ==
  /\ At(c, "resolve")
  /\ \/ Moves(c, "multishare")
     \/ /\ Fault("refused")
        /\ Takes(c, SharedFailure(cmd[c].mine), "write")
        /\ UNCHANGED record
  /\ UNCHANGED sites

\* The command's copy is written to the row, and that ends its AnimeciX part.
Write(c) ==
  /\ At(c, "write")
  /\ Persist(c, cmd[c].mine, AfterAcix(c), AfterAcix(c))
  /\ UNCHANGED sites

NextHalf(c, half) == IF half = "multishare" THEN "multiple" ELSE AfterAcix(c)
NoteOf(half) == IF half = "multishare" THEN "note multishare" ELSE "note multiple"

\* A mutant: a half is noted before it is sent, and not sent again.
SendNoted(c, half) ==
  /\ At(c, half)
  /\ Persist(c, WithStatus([cmd[c].mine EXCEPT ![half] = "published"]), NoteOf(half), AfterAcix(c))
  /\ UNCHANGED sites

\* A half that is not published in the command's copy is sent.
Send(c, half) ==
  /\ At(c, half)
  /\ \/ /\ cmd[c].mine[half] = "published"
        /\ Goes(c, NextHalf(c, half))
        /\ UNCHANGED <<onAcix, bounds>>
     \/ /\ cmd[c].mine[half] # "published"
        /\ \E done \in BOOLEAN, result \in {"ok", "error"} :
             /\ Call(done, result)
             /\ onAcix' = IF done THEN [onAcix EXCEPT ![half] = cmd[c].mine.label] ELSE onAcix
             /\ Takes(c, [cmd[c].mine EXCEPT ![half] = IF result = "ok" THEN "published" ELSE "failed"],
                      NoteOf(half))
  /\ UNCHANGED <<record, onOpen, anizm, onAkira>>

\* The result of a half is written to the row; without that the command ends.
Note(c, half) ==
  /\ At(c, NoteOf(half))
  /\ Persist(c, WithStatus(cmd[c].mine), NextHalf(c, half), AfterAcix(c))
  /\ UNCHANGED sites

\* /acixunpublish reads the record, and will write it back reset.
Unpublish(c) ==
  /\ At(c, "reset")
  /\ \/ record = NoRecord /\ Moves(c, "done")
     \/ /\ record # NoRecord
        /\ Takes(c, Reset(Upgraded(record), cmd[c].scope), "write")
        /\ UNCHANGED <<record, bounds>>
  /\ UNCHANGED sites

(***************************************************************************)
(* OpenAnime, Anizm and Akira                                              *)
(***************************************************************************)
AfterOpen(c) == IF cmd[c].kind = "publish" THEN "relations" ELSE "done"

\* The sources of one episode, one call for each link; a link that fails does
\* not keep the next one back.
OpenSource(c) ==
  /\ At(c, "open")
  /\ LET group == GroupAt(c, "OpenAnime")
     IN \/ /\ group = "excluded" \/ cmd[c].left = {}
           /\ Becomes(c, [cmd[c] EXCEPT !.step = AfterOpen(c), !.left = Links])
           /\ UNCHANGED <<onOpen, bounds>>
        \/ /\ group # "excluded"
           /\ \E link \in cmd[c].left, done \in BOOLEAN, result \in {"ok", "error"} :
                /\ Call(done, result)
                /\ onOpen' = IF done THEN onOpen \union {<<link, group>>} ELSE onOpen
                /\ Becomes(c, [cmd[c] EXCEPT !.left = @ \ {link}])
  /\ UNCHANGED <<record, onAcix, anizm, onAkira>>

\* /anizmconfirm takes the listed episode, or creates it when it was asked to
\* and none is listed; the list is read again after that.
Episode(c) ==
  /\ At(c, "episode")
  /\ \/ anizm.episodes = 1 /\ Moves(c, "relations") /\ UNCHANGED anizm
     \/ anizm.episodes = 0 /\ ~cmd[c].edit /\ Moves(c, "done") /\ UNCHANGED anizm
     \/ /\ anizm.episodes = 0 /\ cmd[c].edit
        /\ \E done \in BOOLEAN, result \in {"ok", "error"} :
             /\ Call(done, result)
             /\ anizm' = [anizm EXCEPT !.episodes = IF done THEN 1 ELSE @]
             /\ Goes(c, IF result = "ok" THEN "relations" ELSE "done")
        /\ UNCHANGED record
  /\ UNCHANGED <<onAcix, onOpen, onAkira>>

\* A mutant: the relation is created without a look.
RelationFoundNever(group) == FALSE
\* One relation carries the fansub's name; none or several is no answer.
RelationFound(group) == anizm.relations[group] = 1

\* The relation of the fansub is used, or one is created and the list is read
\* again.  /publish has looked for the episode before that.
Relations(c) ==
  /\ At(c, "relations")
  /\ LET group == GroupAt(c, "Anizm")
     IN \/ /\ group = "excluded" \/ anizm.episodes # 1
           /\ Moves(c, "done")
           /\ UNCHANGED anizm
        \/ /\ group # "excluded" /\ anizm.episodes = 1
           /\ RelationFound(group)
           /\ Moves(c, "videos")
           /\ UNCHANGED anizm
        \/ /\ group # "excluded" /\ anizm.episodes = 1
           /\ ~RelationFound(group)
           /\ \E done \in BOOLEAN, result \in {"ok", "error"} :
                /\ Call(done, result)
                /\ anizm' = [anizm EXCEPT !.relations[group] = IF done THEN @ + 1 ELSE @]
                /\ Goes(c, IF result = "ok" THEN "created" ELSE "done")
           /\ UNCHANGED record
  /\ UNCHANGED <<onAcix, onOpen, onAkira>>

Created(c) ==
  /\ At(c, "created")
  /\ Moves(c, IF RelationFound(GroupAt(c, "Anizm")) THEN "videos" ELSE "done")
  /\ UNCHANGED sites

\* The videos of the relation, one call for each link.
Video(c) ==
  /\ At(c, "videos")
  /\ \/ cmd[c].left = {} /\ Moves(c, "done") /\ UNCHANGED anizm
     \/ \E link \in cmd[c].left, done \in BOOLEAN, result \in {"ok", "error"} :
          /\ Call(done, result)
          /\ anizm' = [anizm EXCEPT !.videos =
               IF done THEN @ \union {<<link, GroupAt(c, "Anizm")>>} ELSE @]
          /\ Becomes(c, [cmd[c] EXCEPT !.left = @ \ {link}])
          /\ UNCHANGED record
  /\ UNCHANGED <<onAcix, onOpen, onAkira>>

\* /akiraconfirm looks for the episode, updates or creates it, and replaces its
\* links; a refusal ends it.
Akira(c) ==
  /\ \/ /\ At(c, "akira")
        /\ Moves(c, IF onAkira.episodes > 0 THEN "akira update" ELSE "akira create")
        /\ UNCHANGED onAkira
     \/ /\ At(c, "akira update")
        /\ \E done \in BOOLEAN, result \in {"ok", "error"} :
             Call(done, result) /\ Goes(c, IF result = "ok" THEN "links" ELSE "done")
        /\ UNCHANGED <<record, onAkira>>
     \/ /\ At(c, "akira create")
        /\ \E done \in BOOLEAN, result \in {"ok", "error"} :
             /\ Call(done, result)
             /\ onAkira' = IF done THEN [episodes |-> onAkira.episodes + 1, links |-> Links] ELSE onAkira
             /\ Goes(c, IF result = "ok" THEN "links" ELSE "done")
        /\ UNCHANGED record
     \/ /\ At(c, "links")
        /\ \E done \in BOOLEAN, result \in {"ok", "error"} :
             /\ Call(done, result)
             /\ onAkira' = IF done THEN [onAkira EXCEPT !.links = Links] ELSE onAkira
             /\ Goes(c, "done")
        /\ UNCHANGED record
  /\ UNCHANGED <<onAcix, onOpen, anizm>>

\* The process ends; commands are not resumed.
Stopped ==
  /\ Fault("restart")
  /\ \E c \in DOMAIN cmd : cmd[c] # Idle
  /\ cmd' = [c \in DOMAIN cmd |-> Idle]
  /\ UNCHANGED <<record, sites>>

PubInit ==
  /\ record \in {NoRecord, NewRecord(ServerGroup, FALSE), LegacyRecord}
  /\ onAcix = [half \in Halves |->
       IF record = LegacyRecord /\ half = "multishare" THEN record.label ELSE NoRecord]
  /\ onOpen = {}
  /\ anizm \in {[episodes |-> e, relations |-> [g \in Groups |-> IF g \in Duplicates THEN 2 ELSE 0],
                 videos |-> {}] : e \in Listed}
  /\ onAkira = [episodes |-> 0, links |-> {}]
  /\ cmd = [c \in 1..Together |-> Idle]
  /\ bounds = [commands |-> 0, faults |-> 0]
  /\ raced = FALSE

Step(c) ==
  \/ Queue(c) \/ Confirm(c) \/ Resolve(c) \/ Write(c) \/ Unpublish(c)
  \/ \E half \in Halves : Send(c, half) \/ Note(c, half)
  \/ OpenSource(c) \/ Episode(c) \/ Relations(c) \/ Created(c) \/ Video(c) \/ Akira(c)

\* The steps at which a command has a copy of the record, which it may write back.
AcixSteps == {"resolve", "write", "multishare", "note multishare", "multiple", "note multiple"}

\* A command writes a record of another fansub, or of other credits, while another
\* command has a copy.
LabelOf(r) == IF r = NoRecord THEN NoRecord ELSE r.label
Relabels(c) ==
  /\ LabelOf(record') # LabelOf(record)
  /\ \E d \in DOMAIN cmd \ {c} : cmd[d].step \in AcixSteps

PubNext ==
  \/ Give /\ UNCHANGED raced
  \/ Stopped /\ UNCHANGED raced
  \/ \E c \in DOMAIN cmd : cmd[c] # Idle /\ Step(c) /\ raced' = (raced \/ Relabels(c))

PubSpec == PubInit /\ [][PubNext]_pubVars

-----------------------------------------------------------------------------
PubTypeOK ==
  /\ record = NoRecord \/
       /\ record.label \in Label /\ record.id \in BOOLEAN
       /\ record.status \in {"pending", "partial", "failed", "published"}
       /\ \A half \in Halves : record[half] \in {"none", "pending", "failed", "published"}
  /\ \A half \in Halves : onAcix[half] \in Label \union {NoRecord}
  /\ anizm.relations \in [Groups -> Nat]
  /\ bounds.commands \in 0..MaxCommands /\ bounds.faults \in 0..MaxSiteFaults

\* A half that the row says is published has reached AnimeciX, whatever two
\* commands, a lost answer or a restart between a call and its note do.
RecordedIsOnSite ==
  record # NoRecord =>
    \A half \in Halves : Upgraded(record)[half] = "published" => onAcix[half] # NoRecord

\* When both halves are published, they went out under one fansub and one line
\* of credits, whatever was edited, failed or was reset between them, and whatever
\* other commands read, sent and wrote meanwhile, as long as none gave the record
\* another label while one had a copy of it: nothing keeps that one from publishing
\* under the label of before (anizmconfirm.rs, publish.rs).
HalvesAgree ==
  record # NoRecord /\ FullyPublished(record) /\ ~raced =>
    onAcix["multishare"] = onAcix["multiple"]

\* However often a publication is repeated after a lost answer, Anizm has one
\* relation for a fansub.
OneRelation == \A g \in Groups : anizm.relations[g] <= 1
=============================================================================
