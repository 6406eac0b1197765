------------------------------ MODULE Smartcode ------------------------------
(***************************************************************************)
(* The subtitles of one episode in the repository of its anime, and the    *)
(* commands that work on them: /job and !ts put a script there, /source    *)
(* sets the link, /smartcode (its preview and the HTTP API's too) merges   *)
(* translation and typesetting into the release and asks for the encode,   *)
(* /release reads the release, /attach brings a foreign file under the     *)
(* standard name (helpers/handlers and lib/git/core.rs).                   *)
(*                                                                         *)
(* A command talks to the forge one call at a time and commands do not     *)
(* exclude each other; a script above the size limit is kept as a zip      *)
(* beside, and instead of, the plain file.  A script is the set of its     *)
(* lines, and whether it is above the limit.  A blob's sha is its content. *)
(***************************************************************************)
EXTENDS Naturals, FiniteSets, FiniteSetsExt, TLC, Functions

CONSTANTS
  Kinds,        \* the commands that are given
  Foreign,      \* whether the folder begins with a file of a foreign name
  Sizes,        \* whether a script may be above the limit
  MaxCommands,  \* bound: commands given
  Together,     \* bound: commands at work at the same time
  Broken,       \* the calls that may fail
  MaxFaults     \* bound: calls that fail

VARIABLES
  repo,         \* the files of the episode's folder: path -> script
  cmd,          \* the commands at work: number -> their state
  given,        \* how many commands were given
  faults,       \* how many calls failed
  owed,         \* history: the lines whose upload was confirmed, less those replaced
  adrift        \* history: the signs of a split that ended between its two uploads

repoVars == <<repo, cmd, given, faults, owed, adrift>>

Docs == {"TL", "TS", "Release", "SOURCE", "foreign"}
Zip(d) == <<d, "zip">>
Plain(d) == <<d, "plain">>

\* Every line is of one upload; the typesetter's are signs.
Line == [of : 0 .. MaxCommands, sign : BOOLEAN]
Script == [lines : SUBSET Line, big : BOOLEAN]

Signs(s) == {l \in s.lines : l.sign}

----------------------------------------------------------------------------

\* Reading prefers the zip; a reader of the repository does the same.
Has(d) == Zip(d) \in DOMAIN repo \/ Plain(d) \in DOMAIN repo
Shown(d) == IF Zip(d) \in DOMAIN repo THEN repo[Zip(d)].lines
            ELSE IF Plain(d) \in DOMAIN repo THEN repo[Plain(d)].lines
            ELSE {}


UploadPath(d, s) == IF s.big THEN Zip(d) ELSE Plain(d)
AlternatePath(d, s) == IF s.big THEN Plain(d) ELSE Zip(d)

\* Replacing and removing name the blob they saw; creating needs an absent file.
At(p) == IF p \in DOMAIN repo THEN {repo[p]} ELSE {}
Accepted(p, seen) == At(p) = seen
With(p, s) == (p :> s) @@ repo
Without(p) == Restrict(repo, DOMAIN repo \ {p})

\* A command that puts nothing yet.
NewCommand(kind, link, s) ==
  [kind |-> kind, link |-> link, step |-> "", doc |-> "", script |-> s,
   seen |-> {}, tl |-> {}, ts |-> {}]

\* upsert_repo_ass of a document begins by asking for the blob at its path.
Upsert(k, d, s) == [k EXCEPT !.step = "sha", !.doc = d, !.script = s, !.seen = {}]

\* A split has uploaded the translation without its signs, or may have, and not
\* yet the typesetting that has them.
BetweenHalves(k) ==
  k.kind = "smartcode" /\ <<k.doc, k.step>> \in {<<"TL", "put">>, <<"TS", "sha">>, <<"TS", "put">>}

Go(c, k) == cmd' = (c :> k) @@ cmd /\ UNCHANGED adrift
End(c) ==
  /\ cmd' = Restrict(cmd, DOMAIN cmd \ {c})
  /\ adrift' = adrift \union IF BetweenHalves(cmd[c]) THEN UNION {s.lines : s \in cmd[c].ts} ELSE {}

\* The step of a command under this name, and whether the call fails.
Doing(c, step) == c \in DOMAIN cmd /\ cmd[c].step = step
Fault(c) == cmd[c].step \in Broken /\ faults < MaxFaults /\ faults' = faults + 1
Fine == UNCHANGED faults

\* What is owed after a document was written, or may have been, for its user.
Other(d) == IF d = "TL" THEN "TS" ELSE "TL"
IsUpload(k) == k.kind \in {"job", "ts"}
Replacing(k, new) == IF IsUpload(k) THEN owed' = new \cup (owed \cap Shown(Other(k.doc))) ELSE UNCHANGED owed

----------------------------------------------------------------------------

RepoInit ==
  /\ \E there \in Foreign :
       repo = IF there THEN Plain("foreign") :> [lines |-> {[of |-> 0, sign |-> FALSE]}, big |-> FALSE] ELSE <<>>
  /\ cmd = <<>> /\ given = 0 /\ faults = 0
  /\ owed = {}
  /\ adrift = {}

\* A command is given: an upload with its script, a merge with or without a link.
Give ==
  /\ given < MaxCommands /\ Cardinality(DOMAIN cmd) < Together
  /\ given' = given + 1
  /\ \E kind \in Kinds, big \in Sizes, sign \in BOOLEAN, link \in BOOLEAN :
       /\ sign => kind = "job"
       /\ link => kind = "smartcode"
       /\ big => kind \in {"job", "ts"}
       /\ LET n == given + 1
              own == {[of |-> n, sign |-> kind = "ts"]} \cup IF sign THEN {[of |-> n, sign |-> TRUE]} ELSE {}
              s == [lines |-> own, big |-> big]
              k == NewCommand(kind, link, s)
          IN Go(n, CASE kind = "job" -> Upsert(k, "TL", s)
                     [] kind = "ts" -> Upsert(k, "TS", s)
                     [] kind = "source" -> Upsert(k, "SOURCE", [s EXCEPT !.lines = {}])
                     [] kind = "smartcode" -> [k EXCEPT !.step = "zip", !.doc = "TL"]
                     [] kind = "release" -> [k EXCEPT !.step = "zip", !.doc = "Release"]
                     [] kind = "attach" -> [k EXCEPT !.step = "list"])
  /\ UNCHANGED <<repo, faults, owed>>

----------------------------------------------------------------------------
\* Writing a document.

\* The merge goes on from the last line of what was written.
AfterUpsert(k) ==
  CASE k.kind # "smartcode" -> [k EXCEPT !.step = "done"]
    [] k.doc = "TL" -> Upsert(k, "TS", CHOOSE s \in k.ts : TRUE)
    [] k.doc = "TS" -> [k EXCEPT !.step = "merge"]
    [] k.doc = "Release" -> IF k.link THEN Upsert(k, "SOURCE", [lines |-> {}, big |-> FALSE])
                            ELSE [k EXCEPT !.step = "done"]
    [] k.doc = "SOURCE" -> [k EXCEPT !.step = "done"]

Sha(c) ==
  /\ Doing(c, "sha")
  /\ LET k == cmd[c] IN
     \/ Fine /\ Go(c, [k EXCEPT !.step = "put", !.seen = At(UploadPath(k.doc, k.script))])
     \/ Fault(c) /\ End(c)
  /\ UNCHANGED <<repo, given, owed>>

\* A refused or failed write ends the command; a failed one may have been done.
PutFile(c) ==
  /\ Doing(c, "put")
  /\ LET k == cmd[c]
         p == UploadPath(k.doc, k.script)
     IN \/ /\ Accepted(p, k.seen) /\ Fine
           /\ repo' = With(p, k.script)
           /\ Replacing(k, k.script.lines)
           /\ Go(c, IF k.doc = "SOURCE" THEN AfterUpsert(k) ELSE [k EXCEPT !.step = "alternate"])
        \/ /\ ~Accepted(p, k.seen) /\ Fine
           /\ End(c) /\ UNCHANGED <<repo, owed>>
        \/ /\ Fault(c) /\ End(c)
           /\ \/ Accepted(p, k.seen) /\ repo' = With(p, k.script) /\ Replacing(k, {})
              \/ UNCHANGED <<repo, owed>>
  /\ UNCHANGED given

\* The other form of the document is looked for and removed, as far as that works.
Alternate(c) ==
  /\ Doing(c, "alternate")
  /\ LET k == cmd[c]
         there == At(AlternatePath(k.doc, k.script))
     IN \/ there # {} /\ Fine /\ Go(c, [k EXCEPT !.step = "drop", !.seen = there])
        \/ there = {} /\ Fine /\ Go(c, AfterUpsert(k))
        \/ Fault(c) /\ Go(c, AfterUpsert(k))
  /\ UNCHANGED <<repo, given, owed>>

Drop(c) ==
  /\ Doing(c, "drop")
  /\ LET k == cmd[c]
         p == AlternatePath(k.doc, k.script)
     IN /\ \/ Accepted(p, k.seen) /\ Fine /\ repo' = Without(p)
           \/ ~Accepted(p, k.seen) /\ Fine /\ UNCHANGED repo
           \/ Fault(c) /\ UNCHANGED repo
        /\ Go(c, AfterUpsert(k))
  /\ UNCHANGED <<given, owed>>

\* The reply; after a merge, the encode of its script is queued (PnRequests).
Done(c) ==
  /\ Doing(c, "done")
  /\ End(c)
  /\ UNCHANGED <<repo, given, faults, owed>>

----------------------------------------------------------------------------
\* Merging.

\* The two reads of a document; a merge needs the translation, not the typesetting.
Found(k, s) ==
  CASE k.doc = "TL" -> [k EXCEPT !.tl = {s}, !.step = "zip", !.doc = "TS"]
    [] k.doc = "TS" -> [k EXCEPT !.ts = {s}, !.step = "source"]
    [] k.doc = "Release" -> [k EXCEPT !.step = "done"]

ReadZip(c) ==
  /\ Doing(c, "zip")
  /\ LET k == cmd[c]
         there == At(Zip(k.doc))
     IN \/ there = {} /\ Fine /\ Go(c, [k EXCEPT !.step = "plain"])
        \/ \E s \in there : Fine /\ Go(c, Found(k, s))
        \/ Fault(c) /\ End(c)
  /\ UNCHANGED <<repo, given, owed>>

ReadPlain(c) ==
  /\ Doing(c, "plain")
  /\ LET k == cmd[c]
         there == At(Plain(k.doc))
     IN \/ there = {} /\ k.doc = "TS" /\ Fine /\ Go(c, [k EXCEPT !.step = "source"])
        \/ there = {} /\ k.doc # "TS" /\ Fine /\ End(c)
        \/ \E s \in there : Fine /\ Go(c, Found(k, s))
        \/ Fault(c) /\ End(c)
  /\ UNCHANGED <<repo, given, owed>>

\* Without a link in the command, SOURCE.md must have one.
ReadSource(c) ==
  /\ Doing(c, "source")
  /\ LET k == cmd[c]
         linked == k.link \/ At(Plain("SOURCE")) # {}
     IN \/ linked /\ Fine /\ Go(c, [k EXCEPT !.step = IF k.ts = {} THEN "split" ELSE "merge"])
        \/ ~linked /\ Fine /\ End(c)
        \/ Fault(c) /\ End(c)
  /\ UNCHANGED <<repo, given, owed>>

\* With no typesetting file the signs of the translation are moved into one.
Split(c) ==
  /\ Doing(c, "split")
  /\ \E tl \in cmd[c].tl :
       LET k == cmd[c]
           talk(big) == [lines |-> tl.lines \ Signs(tl), big |-> big]
           signs(big) == [lines |-> Signs(tl), big |-> big]
       IN \/ Signs(tl) = {} /\ Fine /\ Go(c, [k EXCEPT !.step = "merge"])
          \/ /\ Signs(tl) # {} /\ Fine
             /\ \E b1, b2 \in {FALSE, tl.big} :
                  Go(c, Upsert([k EXCEPT !.tl = {talk(b1)}, !.ts = {signs(b2)}], "TL", talk(b1)))
          \/ Fault(c) /\ End(c)
  /\ UNCHANGED <<repo, given, owed>>

\* A merge without a line of dialogue is not uploaded.
Merge(c) ==
  /\ Doing(c, "merge")
  /\ LET k == cmd[c]
         parts == k.tl \cup k.ts
         lines == UNION {s.lines : s \in parts}
         sure == \E s \in parts : s.big
     IN \/ /\ lines # {} /\ Fine
           /\ \E big \in {b \in Sizes : sure => b} : Go(c, Upsert(k, "Release", [lines |-> lines, big |-> big]))
        \/ lines = {} /\ Fine /\ End(c)
        \/ Fault(c) /\ End(c)
  /\ UNCHANGED <<repo, given, owed>>

----------------------------------------------------------------------------
\* Attaching: a folder with exactly one .ass file has it moved to the TL name.

AssFiles == {p \in DOMAIN repo : p[2] = "plain" /\ p[1] # "SOURCE"}

List(c) ==
  /\ Doing(c, "list")
  /\ LET k == cmd[c] IN
     \/ \E p \in AssFiles : /\ AssFiles = {p} /\ p[1] # "TL" /\ Fine
                            /\ Go(c, [k EXCEPT !.step = "copy", !.doc = p[1]])
     \/ ~(Cardinality(AssFiles) = 1 /\ Plain("TL") \notin AssFiles) /\ Fine /\ End(c)
     \/ Fault(c) /\ End(c)
  /\ UNCHANGED <<repo, given, owed>>

\* move_file reads the file, creates the new one, and then removes the old one.
Copy(c) ==
  /\ Doing(c, "copy")
  /\ LET k == cmd[c]
         there == At(Plain(k.doc))
     IN \/ there # {} /\ Fine /\ Go(c, [k EXCEPT !.step = "create", !.seen = there])
        \/ there = {} /\ Fine /\ End(c)
        \/ Fault(c) /\ End(c)
  /\ UNCHANGED <<repo, given, owed>>

Create(c) ==
  /\ Doing(c, "create")
  /\ \E s \in cmd[c].seen :
       \/ /\ Accepted(Plain("TL"), {}) /\ Fine
          /\ repo' = With(Plain("TL"), s)
          /\ Go(c, [cmd[c] EXCEPT !.step = "remove"])
       \/ ~Accepted(Plain("TL"), {}) /\ Fine /\ End(c) /\ UNCHANGED repo
       \/ Fault(c) /\ End(c) /\ repo' \in {repo, IF Accepted(Plain("TL"), {}) THEN With(Plain("TL"), s) ELSE repo}
  /\ UNCHANGED <<given, owed>>

Remove(c) ==
  /\ Doing(c, "remove")
  /\ LET p == Plain(cmd[c].doc) IN
     \/ Accepted(p, cmd[c].seen) /\ Fine /\ repo' = Without(p)
     \/ ~Accepted(p, cmd[c].seen) /\ Fine /\ UNCHANGED repo
     \/ Fault(c) /\ UNCHANGED repo
  /\ End(c)
  /\ UNCHANGED <<given, owed>>

----------------------------------------------------------------------------

RepoNext ==
  \/ Give
  \/ \E c \in DOMAIN cmd :
       \/ Sha(c) \/ PutFile(c) \/ Alternate(c) \/ Drop(c) \/ Done(c)
       \/ ReadZip(c) \/ ReadPlain(c) \/ ReadSource(c) \/ Split(c) \/ Merge(c)
       \/ List(c) \/ Copy(c) \/ Create(c) \/ Remove(c)

RepoSpec == RepoInit /\ [][RepoNext]_repoVars

----------------------------------------------------------------------------

\* The files are scripts under the paths the commands use.
RepoTypeOK ==
  /\ DOMAIN repo \subseteq Docs \X {"plain", "zip"}
  /\ \A p \in DOMAIN repo : repo[p] \in Script
  /\ DOMAIN cmd \subseteq 1 .. given
  /\ owed \subseteq Line
  /\ adrift \subseteq Line

\* Between commands no line is lost: each line whose upload was confirmed, and
\* that no later upload of the file it was in replaced, is in the translation or
\* in the typesetting, whatever was split, zipped, renamed or failed on the way.
\* The exception is a sign of a split whose command ended between its two uploads:
\* the translation has lost it and there is no typesetting (handlers/mod.rs uploads
\* the one and then the other).
LinesAreKept == cmd = <<>> => owed \subseteq Shown("TL") \cup Shown("TS") \cup adrift

\* A document of the episode never disappears, not even between two calls: the
\* new form is there before the old one goes (upsert_repo_ass), and attaching
\* again changes nothing (docs/DISCORD.md: "same MAL id is idempotent").
DocumentsStay == [][\A d \in {"TL", "TS", "Release"} : Has(d) => Has(d)']_repoVars
=============================================================================
