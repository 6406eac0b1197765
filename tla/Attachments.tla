----------------------------- MODULE Attachments -----------------------------
(***************************************************************************)
(* Which anime a channel works on, and in which repository of the forge:   *)
(* /init and /attach (run_attach_or_init, attach_or_init), /source,        *)
(* /detach, /destruct and their HTTP endpoints, and the deletion of a      *)
(* channel.  A command talks to the forge one call at a time; a call may   *)
(* fail, also after it was done; commands do not exclude each other.       *)
(*                                                                         *)
(* A repository is a function from its paths to blobs; a blob is the       *)
(* number of the command that wrote it, 0 when the content is fixed.  The  *)
(* file of a channel is empty while it is written, which reads like none.  *)
(***************************************************************************)
EXTENDS Naturals, FiniteSets, FiniteSetsExt, TLC, Functions

CONSTANTS
  Channels, Animes, Repos,
  EpisodesOf,   \* the number of episodes of each anime
  OwnRepo,      \* the repository that /init makes for an anime
  Begun,        \* the repositories there are in the beginning, with their files
  HasBase,      \* whether the server has a template for README.md
  Alone,        \* whether the commands of one channel wait for each other
  MaxGiven, Together, MaxForgeFaults  \* bounds

VARIABLES
  meta,     \* the attachment of each channel: a set of at most one
  repos,    \* the repositories: name -> files
  cmds,     \* the commands at work: number -> their state
  bounds,   \* the commands and faults so far
  switched  \* history: an attachment was replaced by one to another anime

attachVars == <<meta, repos, cmds, bounds, switched>>

-----------------------------------------------------------------------------
KeepFile(n) == <<n, "gitkeep">>
Source(n) == <<n, "SOURCE">>
Foreign(n) == <<n, "foreign">>
Standard(n) == <<n, "TL">>
Ignore == <<0, "gitignore">>
Readme == <<0, "README">>

There(r) == r \in DOMAIN repos
Folders(files) == {p[1] : p \in files} \ {0}
With(r, p, blob) == [repos EXCEPT ![r] = (p :> blob) @@ @]
Without(r, p) == [repos EXCEPT ![r] = Restrict(@, DOMAIN @ \ {p})]
BlobAt(r, p) == IF There(r) /\ p \in DOMAIN repos[r] THEN {repos[r][p]} ELSE {}

Attachment(anime, repo, lost) == [anime |-> anime, repo |-> repo, lost |-> lost]

\* The channels that the API lists: those whose file can be read.
Attachments == {c \in Channels : meta[c] # {}}

Go(c, k) == cmds' = (c :> k) @@ cmds
End(c) == cmds' = Restrict(cmds, DOMAIN cmds \ {c})
Doing(c, step) == c \in DOMAIN cmds /\ cmds[c].step = step
Fault == bounds.faults < MaxForgeFaults /\ bounds' = [bounds EXCEPT !.faults = @ + 1]
Fine == UNCHANGED bounds

-----------------------------------------------------------------------------
AttachInit ==
  /\ meta = [c \in Channels |-> {}]
  /\ repos = [r \in DOMAIN Begun |-> [p \in Begun[r] |-> 0]]
  /\ cmds = <<>>
  /\ bounds = [given |-> 0, faults |-> 0]
  /\ switched = FALSE

\* What a command reads of its channel before it calls anything, and what it
\* refuses at once: without an attachment there is no source, detach or destruct.
Command(kind, ch, anime, repo, n) ==
  [kind |-> kind, ch |-> ch, anime |-> anime, repo |-> repo, n |-> n, met |-> meta[ch],
   step |-> "", seen |-> {}, lost |-> FALSE]
Begin(k) ==
  /\ bounds.given < MaxGiven
  /\ Cardinality(DOMAIN cmds) < Together
  /\ Alone => \A c \in DOMAIN cmds : cmds[c].ch # k.ch
  /\ bounds' = [bounds EXCEPT !.given = @ + 1]
  /\ Go(bounds.given + 1, k)
  /\ UNCHANGED <<meta, repos, switched>>
AskInit == \E ch \in Channels, anime \in Animes :
  Begin([Command("init", ch, anime, OwnRepo[anime], 0) EXCEPT !.step = "mal"])
AskAttach == \E ch \in Channels, anime \in Animes, r \in Repos :
  Begin([Command("attach", ch, anime, r, 0) EXCEPT !.step = "mal"])
OfAttached(kind, step) == \E ch \in Attachments : \E a \in meta[ch] :
  \E n \in IF kind = "source" THEN 1 .. EpisodesOf[a.anime] ELSE {0} :
    Begin([Command(kind, ch, a.anime, a.repo, n) EXCEPT !.step = step])
AskSource == OfAttached("source", "sha")
AskDetach == OfAttached("detach", "unlink")
AskDestruct == OfAttached("destruct", "delete")

\* The anime is looked up; a channel of another anime is not attached to it.
OfAnother(k) == \E a \in k.met : a.anime # k.anime
FetchAnime(c) ==
  /\ Doing(c, "mal")
  /\ LET k == cmds[c]
         next == IF k.kind = "init" THEN "create" ELSE "root"
     IN \/ Fine /\ IF OfAnother(k) THEN End(c) ELSE Go(c, [k EXCEPT !.step = next])
        \/ Fault /\ End(c)
  /\ UNCHANGED <<meta, repos, switched>>

\* A repository that exists is taken as made; a new one has its own README.md.
CreateRepo(c) ==
  /\ Doing(c, "create")
  /\ LET k == cmds[c]
         made == IF There(k.repo) THEN repos ELSE (k.repo :> (Readme :> 0)) @@ repos
     IN \/ Fine /\ Go(c, [k EXCEPT !.step = "root"]) /\ repos' = made
        \/ Fault /\ End(c) /\ repos' \in {repos, made}
  /\ UNCHANGED <<meta, switched>>

ListRoot(c) ==
  /\ Doing(c, "root")
  /\ LET k == cmds[c] IN
     \/ /\ Fine
        /\ IF There(k.repo) THEN Go(c, [k EXCEPT !.step = "boot", !.seen = DOMAIN repos[k.repo]])
           ELSE End(c)
     \/ Fault /\ End(c)
  /\ UNCHANGED <<meta, repos, switched>>

\* What the listing lacks is made in this order: a folder per episode, the
\* ignore file, and README.md from the template, which replaces the one there is.
Lacking(k) == (1 .. EpisodesOf[k.anime]) \ Folders(k.seen)
NextFile(k) ==
  IF Lacking(k) # {} THEN KeepFile(Min(Lacking(k)))
  ELSE IF Ignore \notin k.seen THEN Ignore ELSE Readme
Complete(k) == Lacking(k) = {} /\ Ignore \in k.seen
AfterBoot(k) ==
  IF k.kind = "attach" THEN [k EXCEPT !.step = "rename", !.n = 1]
  ELSE [k EXCEPT !.step = "meta"]

CreateFile(c) ==
  /\ Doing(c, "boot")
  /\ ~Complete(cmds[c]) \/ (HasBase /\ Readme \notin cmds[c].seen)
  /\ LET k == cmds[c]
         p == NextFile(k)
         may == There(k.repo) /\ BlobAt(k.repo, p) = {}
         blob == IF p = Readme THEN c ELSE 0
     IN \/ /\ may /\ Fine
           /\ repos' = With(k.repo, p, blob)
           /\ Go(c, IF p = Readme THEN AfterBoot(k) ELSE [k EXCEPT !.seen = @ \union {p}])
        \/ ~may /\ Fine /\ End(c) /\ UNCHANGED repos
        \/ Fault /\ End(c) /\ repos' \in {repos, IF may THEN With(k.repo, p, blob) ELSE repos}
  /\ UNCHANGED <<meta, switched>>

NoReadme(c) ==
  /\ Doing(c, "boot") /\ Complete(cmds[c]) /\ ~HasBase
  /\ Go(c, AfterBoot(cmds[c]))
  /\ UNCHANGED <<meta, repos, bounds, switched>>

\* Replacing a file names the blob that was seen.
AskReadme(c) ==
  /\ Doing(c, "boot") /\ Complete(cmds[c]) /\ HasBase /\ Readme \in cmds[c].seen
  /\ LET k == cmds[c] IN
     \/ \E blob \in BlobAt(k.repo, Readme) :
          Fine /\ Go(c, [k EXCEPT !.step = "readme", !.seen = {blob}])
     \/ BlobAt(k.repo, Readme) = {} /\ Fine /\ End(c)
     \/ Fault /\ End(c)
  /\ UNCHANGED <<meta, repos, switched>>
PutReadme(c) ==
  /\ Doing(c, "readme")
  /\ LET k == cmds[c]
         may == k.seen = BlobAt(k.repo, Readme)
     IN \/ may /\ Fine /\ Go(c, AfterBoot(k)) /\ repos' = With(k.repo, Readme, c)
        \/ ~may /\ Fine /\ End(c) /\ UNCHANGED repos
        \/ Fault /\ End(c) /\ repos' \in {repos, IF may THEN With(k.repo, Readme, c) ELSE repos}
  /\ UNCHANGED <<meta, switched>>

\* The folders are gone through; a lone .ass file gets the standard name.  The
\* calls of one move are those of Smartcode.  A folder that cannot be listed is
\* passed over, a move that fails ends the command.
AssFiles(r, n) == IF There(r) THEN {Foreign(n), Standard(n)} \cap DOMAIN repos[r] ELSE {}
Rename(c) ==
  /\ Doing(c, "rename")
  /\ LET k == cmds[c]
         last == k.n >= EpisodesOf[k.anime]
         next == IF last THEN [k EXCEPT !.step = "meta"] ELSE [k EXCEPT !.n = @ + 1]
         moved == [repos EXCEPT ![k.repo] =
                     (Standard(k.n) :> 0) @@ Restrict(@, DOMAIN @ \ {Foreign(k.n)})]
     IN \/ AssFiles(k.repo, k.n) # {Foreign(k.n)} /\ Fine /\ Go(c, next) /\ UNCHANGED repos
        \/ AssFiles(k.repo, k.n) = {Foreign(k.n)} /\ Fine /\ Go(c, next) /\ repos' = moved
        \/ Fault /\ UNCHANGED repos /\ (Go(c, next) \/ End(c))
  /\ UNCHANGED <<meta, switched>>

\* The file of the channel is emptied and then written.
EmptyMeta(c) ==
  /\ Doing(c, "meta")
  /\ Fine
  /\ switched' = (switched \/ \E a \in meta[cmds[c].ch] : a.anime # cmds[c].anime)
  /\ meta' = [meta EXCEPT ![cmds[c].ch] = {}]
  /\ Go(c, [cmds[c] EXCEPT !.step = "write"])
  /\ UNCHANGED repos
WriteMeta(c) ==
  /\ Doing(c, "write")
  /\ LET k == cmds[c] IN
     /\ meta' = [meta EXCEPT ![k.ch] = {Attachment(k.anime, k.repo, k.lost)}]
     /\ End(c)
  /\ Fine
  /\ UNCHANGED <<repos, switched>>

-----------------------------------------------------------------------------
\* The link of an episode is put beside its scripts; the placeholder goes after it.
AskSha(c) ==
  /\ Doing(c, "sha")
  /\ LET k == cmds[c] IN
     \/ There(k.repo) /\ Fine
        /\ Go(c, [k EXCEPT !.step = "put", !.seen = BlobAt(k.repo, Source(k.n))])
     \/ ~There(k.repo) /\ Fine /\ Go(c, [k EXCEPT !.step = "put"])
     \/ Fault /\ End(c)
  /\ UNCHANGED <<meta, repos, switched>>
PutSource(c) ==
  /\ Doing(c, "put")
  /\ LET k == cmds[c]
         may == There(k.repo) /\ k.seen = BlobAt(k.repo, Source(k.n))
         put == IF may THEN With(k.repo, Source(k.n), c) ELSE repos
     IN \/ may /\ Fine /\ Go(c, [k EXCEPT !.step = "drop"]) /\ repos' = put
        \/ ~may /\ Fine /\ End(c) /\ UNCHANGED repos
        \/ Fault /\ End(c) /\ repos' \in {repos, put}
  /\ UNCHANGED <<meta, switched>>
DropKeep(c) ==
  /\ Doing(c, "drop")
  /\ LET k == cmds[c] IN
     \/ Fine /\ repos' = IF There(k.repo) THEN Without(k.repo, KeepFile(k.n)) ELSE repos
     \/ Fault /\ UNCHANGED repos
  /\ End(c)
  /\ UNCHANGED <<meta, switched>>

-----------------------------------------------------------------------------
\* The repository goes, with it what other channels are attached to and what
\* commands have already listed.
Gone(r) == Restrict(repos, DOMAIN repos \ {r})
Listed(k) == k.step \in {"boot", "readme", "rename", "meta", "write"}
LoseRepo(r, others) ==
  /\ repos' = Gone(r)
  /\ meta' = [ch \in Channels |->
                {IF a.repo = r THEN [a EXCEPT !.lost = TRUE] ELSE a : a \in meta[ch]}]
  /\ cmds' = [d \in DOMAIN others |->
                IF others[d].repo = r /\ Listed(others[d])
                THEN [others[d] EXCEPT !.lost = TRUE] ELSE others[d]]
Rest(c) == Restrict(cmds, DOMAIN cmds \ {c})
DeleteRepo(c) ==
  /\ Doing(c, "delete")
  /\ LET k == cmds[c]
         next == (c :> [k EXCEPT !.step = "unlink"]) @@ cmds
     IN \/ There(k.repo) /\ Fine /\ LoseRepo(k.repo, next)
        \/ ~There(k.repo) /\ Fine /\ cmds' = Rest(c) /\ UNCHANGED <<meta, repos>>
        \/ Fault /\ (LoseRepo(k.repo, Rest(c)) \/ (cmds' = Rest(c) /\ UNCHANGED <<meta, repos>>))
  /\ UNCHANGED switched

\* Whatever the file of the channel says by now, it is removed.
Unlink(c) ==
  /\ Doing(c, "unlink")
  /\ \/ Fine /\ meta' = [meta EXCEPT ![cmds[c].ch] = {}]
     \/ Fault /\ UNCHANGED meta
  /\ End(c)
  /\ UNCHANGED <<repos, switched>>

\* A channel is deleted in Discord.
AutoDetach ==
  /\ bounds.given < MaxGiven
  /\ bounds' = [bounds EXCEPT !.given = @ + 1]
  /\ \E ch \in Attachments : meta' = [meta EXCEPT ![ch] = {}]
  /\ UNCHANGED <<repos, cmds, switched>>

AttachNext ==
  \/ AskInit \/ AskAttach \/ AskSource \/ AskDetach \/ AskDestruct \/ AutoDetach
  \/ \E c \in DOMAIN cmds :
       \/ FetchAnime(c) \/ CreateRepo(c) \/ ListRoot(c) \/ CreateFile(c) \/ NoReadme(c)
       \/ AskReadme(c) \/ PutReadme(c) \/ Rename(c) \/ EmptyMeta(c) \/ WriteMeta(c)
       \/ AskSha(c) \/ PutSource(c) \/ DropKeep(c) \/ DeleteRepo(c) \/ Unlink(c)

AttachSpec == AttachInit /\ [][AttachNext]_attachVars

-----------------------------------------------------------------------------
\* Attachments are of known animes and repositories, and repositories have files.
AttachTypeOK ==
  /\ \A ch \in Channels : /\ Cardinality(meta[ch]) <= 1
                          /\ \A a \in meta[ch] : a.anime \in Animes /\ a.repo \in Repos
  /\ DOMAIN repos \subseteq Repos
  /\ \A r \in DOMAIN repos : \A p \in DOMAIN repos[r] : repos[r][p] \in 0 .. MaxGiven
  /\ DOMAIN cmds \subseteq 1 .. bounds.given
  /\ switched \in BOOLEAN

\* A channel that is attached finds in its repository a folder for each of its
\* episodes and the ignore file, however often attaching was tried and failed on
\* the way, as long as nobody destructs the repository: the file of the channel is
\* written last, and the placeholder of a folder goes when another file is there.
AttachedIsReady ==
  \A ch \in Attachments : \A a \in meta[ch] :
    ~a.lost =>
      /\ There(a.repo)
      /\ 1 .. EpisodesOf[a.anime] \subseteq Folders(DOMAIN repos[a.repo])
      /\ Ignore \in DOMAIN repos[a.repo]

\* A channel leaves its anime by being detached, never by being attached to
\* another ("Use a different channel to attach a new anime", lib/git/core.rs).
AnimeStays == ~switched
=============================================================================
