------------------------------- MODULE MCDesk -------------------------------
(***************************************************************************)
(* What comes to the queue and what its workers are given: the requests    *)
(* and the jobs table, the batches a user picks, the outputs kept under a  *)
(* keyword, the metadata of a magnet link and the files of a torrent, the  *)
(* tags of a subtitle, the subtitle of a release and the frames shown of   *)
(* an episode; and what is left for the operator: the logs of jobs, a git  *)
(* sync, the names of a pool's slots, and who may do what.  As in          *)
(* MCServices they share no state: one is chosen in the initial state, its *)
(* variables are the first of the thirteen, and the others keep the value  *)
(* None.                                                                   *)
(***************************************************************************)
EXTENDS Naturals, Sequences, FiniteSets

VARIABLES which, a, b, c, d, e, f, g, h, i, j, k, l, m

slots == <<a, b, c, d, e, f, g, h, i, j, k, l, m>>
deskVars == <<which, slots>>
None == "none"

\* Requests of every kind of job, two of them built from a probe, one refused.
Asked(to, type, probe, keep) ==
  [to |-> to, type |-> type, probe |-> probe, keep |-> keep, keyword |-> FALSE, all |-> keep,
   decodes |-> TRUE]
MCAsks ==
  {Asked("probe", "Probe", 0, FALSE), Asked("encode", "Encode", 0, FALSE),
   Asked("pancode", "Pancode", 1, FALSE), Asked("discord", "Encode", 0, FALSE),
   Asked("pan", "Pancode", 1, FALSE), Asked("backup", "Backup", 0, TRUE),
   Asked("keycode", "Keycode", 0, FALSE)}
Requests == INSTANCE Intake WITH
  Jobs <- {1, 2}, Asks <- MCAsks, Room <- 2, QueueLimit <- 2, EarlyCancels <- FALSE,
  MaxIntakeFaults <- 1, MaxCancels <- 1, MaxStarts <- 1, MaxGitQueries <- 1,
  rows <- a, asked <- b, cancels <- c, channel <- d, queue <- e, loop <- f, gitquery <- g,
  met <- h

\* Two jobs that keep their output under the two words there are, a keycode and
\* a command of a Studio.
Keywords == INSTANCE Keeps WITH
  Bases <- {1, 2}, Rounds <- 0, Kept <- {1, 2}, KindOf <- [n \in {1, 2} |-> "encode"],
  Keycodes <- {"key"}, Ttl <- 2, Outlive <- FALSE, OthersMeet <- FALSE, MaxPools <- 0,
  MaxKeepFaults <- 1, MaxRestarts <- 1,
  keeps <- a, pool <- b, jobs <- c, loop <- d, readers <- e, spent <- f

\* Three episodes in another order than their files have, with archives that
\* fit, do not fit, hold other files or cannot be read.
Episode(index, number) == [index |-> index, episode |-> number]
Entry(number, kind) == [number |-> number, kind |-> kind]
MCProbes == {<<>>, <<Episode(3, 1), Episode(1, 2), Episode(2, 10)>>}
MCArchives ==
  {<<Entry(10, "subtitle"), Entry(1, "subtitle"), Entry(2, "subtitle")>>,
   <<Entry(10, "subtitle"), Entry(2, "subtitle")>>,
   <<Entry(2, "subtitle"), Entry(1, "other"), Entry(1, "subtitle")>>,
   <<Entry(1, "other")>>, <<Entry(1, "subtitle"), Entry(2, "broken")>>}
From(x, y) == [from |-> x, to |-> y]
MCTyped ==
  {<<>>, <<From(2, 2), From(1, 1)>>, <<From(1, 1), From(3, 3)>>, <<From(2, 1)>>, <<From(7, 9)>>}
Picked == INSTANCE BatchPicker WITH
  Probes <- MCProbes, Archives <- MCArchives, Typed <- MCTyped,
  Clickers <- {"author", "other"},
  MaxClicks <- 2, MaxRestarts <- 1, MaxStageFaults <- 1,
  probe <- a, at <- b, shown <- c, buttons <- d, subs <- e, manifest <- f, clicks <- g, told <- h,
  sent <- i, request <- j, spent <- k

\* An honest peer, one that lies and one that is silent, behind a UDP and an
\* HTTP tracker: a tracker fails and there is one round, or a peer fails and
\* there are two.
MCTrackers == {"u", "w"}
MCPeers == {"h", "l", "s"}
MCNature == [p \in MCPeers |-> IF p = "h" THEN "honest" ELSE IF p = "l" THEN "liar" ELSE "silent"]
Magnet(n) == INSTANCE TorrentSource WITH
  Trackers <- MCTrackers, UsesUdp <- [t \in MCTrackers |-> t = "u"],
  Peers <- MCPeers, Nature <- MCNature,
  PeersOf <- [t \in MCTrackers |-> IF t = "u" THEN {"h", "l"} ELSE {"h", "s"}],
  Rounds <- n, Attempts <- 3, Connections <- 2, Blocks <- 2, Pipeline <- 2, Late <- FALSE,
  GreetsAgain <- FALSE, MaxLosses <- 2, MaxTrackerFaults <- 2 - n, MaxPeerFaults <- n - 1,
  round <- a, stage <- b, tracker <- c, asked <- d, inbox <- e, found <- f, grace <- g,
  peer <- h, cancel <- i, spent <- j
MagnetOf(n) == IF n = 1 THEN "magnet" ELSE "two rounds"

\* Files that end within a piece, within one piece together, with a piece, or
\* are empty; metadata with a hash too few.
Info(lengths, piece, hashes, readable) ==
  [lengths |-> lengths, piece |-> piece, hashes |-> hashes, readable |-> readable]
MCInfos ==
  {Info(<<3, 3>>, 4, 2, TRUE), Info(<<3, 3>>, 4, 1, TRUE), Info(<<1, 1, 2, 3>>, 3, 3, TRUE),
   Info(<<2, 0, 4>>, 2, 3, TRUE), Info(<<1, 1, 1>>, 4, 1, TRUE), Info(<<5, 3, 4>>, 4, 3, TRUE),
   Info(<<0, 0>>, 4, 0, TRUE), Info(<<7>>, 2, 4, TRUE), Info(<<3, 2>>, 2, 3, FALSE)}
Torrents == INSTANCE PieceFiles WITH
  Infos <- MCInfos, Selections <- SUBSET (1..4) \ {{}}, MaxOpen <- 1, MaxWriteFaults <- 1,
  info <- a, selected <- b, stage <- c, disk <- d, late <- e, used <- f, written <- g,
  remaining <- h, announced <- i, broken <- j

\* Tags that say what the style says, and tags that do not; resets to the style
\* and to another; transforms; two alignments that are not the style's.
MCStyle == [bord |-> 2, fs |-> 1, an |-> 8]
Of(kind, v) == [kind |-> kind, v |-> v, inner |-> {}]
Moves(tags) == [kind |-> "t", v |-> 0, inner |-> tags]
MCItems ==
  {Of("text", 0), Of("block", 0), Of("bord", 2), Of("bord", 3), Of("fs", 1), Of("an", 5),
   Of("an", 7), Of("r", 0), Of("r", 1), Of("k", 1),
   Moves({Of("bord", 3)}), Moves({Of("bord", 4), Of("fs", 1)})}
Tags == INSTANCE AssTags WITH Items <- MCItems, MaxLine <- 4, Style <- MCStyle, line <- a

\* A translation of one or two lines, with and without a typesetting and a
\* watermark, in resolutions that agree, are a multiple of each other, are not,
\* or are missing; each file has two definitions of one of its styles.
Named(n) == <<n, 0>>
Sized(n, size) == [name |-> Named(n), size |-> size]
Written(style, resets, tags, all) ==
  [style |-> Named(style), resets |-> resets, tags |-> tags, star |-> FALSE, all |-> all,
   layer |-> 0, span |-> "own", res |-> <<0, 0>>, id |-> <<"tl", 0>>]
MCLines ==
  {Written(s, r, FALSE, FALSE) :
     s \in {"Text", "Sign"}, r \in {<<>>, <<Named("Text")>>, <<Named("Sign")>>}}
  \union {Written("Text", <<>>, TRUE, FALSE), Written("Sign", <<>>, FALSE, TRUE)}
Subtitle(res, size, lines) ==
  [res |-> res, styles |-> <<Sized("Text", size), Sized("Sign", size + 1), Sized("Text", size + 2)>>,
   lines |-> lines, comments |-> [t \in {1, 2} |-> size], stamps |-> [t \in {2} |-> size + 1]]
NoSubtitle ==
  [res |-> <<0, 0>>, styles |-> <<>>, lines |-> <<>>, comments |-> <<>>, stamps |-> <<>>]
MCMarks == {Written("Text", <<Named("Sign")>>, FALSE, FALSE), Written("Sign", <<>>, FALSE, TRUE)}
MCPairs == {<<p>> : p \in MCLines} \union {<<p, q>> : p, q \in MCLines}
Releases == INSTANCE AssMerge WITH
  Signs <- {"Sign"},
  TLs <- {Subtitle(r, 5, ls) : r \in {<<4, 2>>, <<0, 0>>}, ls \in MCPairs},
  TSs <- {NoSubtitle} \union {Subtitle(r, 7, <<p>>) : r \in {<<6, 3>>, <<5, 5>>}, p \in MCLines},
  Watermarks <- {NoSubtitle} \union {Subtitle(<<10, 5>>, 9, <<p>>) : p \in MCMarks},
  DefaultRes <- <<8, 4>>, TextLayer <- 9, U16Max <- 65535, SameTick <- FALSE,
  given <- a, tl <- b, ts <- c, out <- d, step <- e

\* Up to four of ten lines: lines that meet, overlap, end where they begin, are
\* drawn, in a font of their own or full of tags; and stamps two of which are one
\* moment.
Line(from, to, font, drawing, tags) ==
  [from |-> from, to |-> to, font |-> font, drawing |-> drawing, tags |-> tags]
MCTypeset ==
  {Line(0, 2, FALSE, FALSE, 1), Line(1, 5, FALSE, FALSE, 0), Line(4, 5, FALSE, TRUE, 0),
   Line(7, 8, TRUE, FALSE, 0), Line(7, 9, FALSE, FALSE, 2), Line(10, 16, FALSE, FALSE, 0),
   Line(12, 13, FALSE, FALSE, 1), Line(14, 14, TRUE, TRUE, 3), Line(15, 17, FALSE, FALSE, 1),
   Line(19, 20, TRUE, FALSE, 1)}
Span(from, to) == [from |-> from, to |-> to]
Shown == INSTANCE PreviewShots WITH
  Scripts <- {{}} \union {{s} : s \in {t \in SUBSET MCTypeset : Cardinality(t) <= 4}},
  Marks <- {{}, {Span(0, 9), Span(2, 3), Span(4, 4), Span(5, 3), Span(3, 6)}},
  JoinGap <- 1, MinGap <- 3, Cooldowns <- {0, 5}, MaxShots <- 2, MaxFrameFaults <- 1,
  script <- a, ranked <- b, outcome <- c, order <- d, deferred <- e, at <- f, shots <- g,
  frames <- h, picture <- i, faults <- j

\* Two files that the tools of a job log into, a crash and a rename that fails.
Logs == INSTANCE JobLogs WITH
  Jobs <- {1}, Files <- {"x", "y"}, Readers <- {"r"}, MaxStarts <- 1, MaxLogFaults <- 1,
  work <- a, saved <- b, stage <- c, tasks <- d, proc <- e, todo <- f, lookups <- g, due <- h,
  spent <- i

\* A history with a branch that is merged and one that is not yet, of which a
\* reply shows two commits and a scan three; the calls to git may fail.
MCParents == <<{}, {1}, {2}, {1}, {3}, {4, 5}>>
Sync == INSTANCE GitPull WITH
  Commits <- 1..6, Parents <- MCParents, MaxListed <- 2, MaxScanned <- 3,
  SyncFaults <- {"fetch", "ref", "checkout", "request", "build"}, MaxPushes <- 1,
  MaxSyncs <- 3, MaxSyncFaults <- 1,
  remote <- a, branch <- b, tree <- c, image <- d, running <- e, stage <- f, previous <- g,
  fetched <- h, report <- i, said <- j, request <- k, watcher <- l, spent <- m

\* No file, and one that was written by hand; a name that is also a place.
Slots == INSTANCE WorkerSlots WITH
  Names <- {2, 7, 8}, Bad <- 0, Defaults <- <<7>>, Files <- {<<>>, <<7, 0, 2, 7>>}, MaxSlots <- 2,
  Admins <- {"admin", "other"}, Jobs <- {1, 2}, MaxCommands <- 2, MaxReboots <- 1,
  MaxSlotFaults <- 1,
  file <- a, command <- b, answered <- c, pool <- d, jobs <- e, orphans <- f, spent <- g

\* Two users whose levels differ, one of them the administrator of the Discord
\* server, and a file in which some ranks are missing; tokens of which two have the
\* same mask, and who presents them.
MCHolders == [level \in {"witch", "upper"} |-> IF level = "witch" THEN {"w"} ELSE {"o"}]
MCRanks ==
  [changerank |-> 4, gentoken |-> 3, rmtoken |-> 3, auth |-> 2, rm |-> 2, configure |-> 0]
RanksOf(commands) == [command \in commands |-> MCRanks[command]]
TokenFile ==
  <<[kind |-> "label", text |-> "l"], [kind |-> "token", text |-> "t1"],
    [kind |-> "blank", text |-> None], [kind |-> "token", text |-> "t2"]>>
MCMask == [token \in {"t1", "t2", "t3"} |-> IF token = "t3" THEN "m3" ELSE "m12"]
Ranks == INSTANCE Access WITH
  Users <- {"w", "o"}, Administrators <- {"o"},
  Default <- RanksOf({"changerank", "auth", "rm", "configure"}), ServerCommands <- {"configure"},
  Holders <- MCHolders, RankFiles <- {[changerank |-> 4, configure |-> 2]},
  TokenFiles <- {<<>>}, NewTokens <- <<>>, Labels <- {}, Mask <- <<>>, Clients <- {},
  AskedRanks <- {0, 2, 4}, MaxAsks <- 2, MaxTicks <- 1, MaxAccessFaults <- 1,
  disk <- a, answered <- b, unsure <- c, client <- d, cache <- e, time <- f, blurred <- g,
  set <- h, spent <- i
Bearers == INSTANCE Access WITH
  Users <- {"o"}, Administrators <- {}, Default <- RanksOf({"gentoken", "rmtoken"}),
  ServerCommands <- {}, Holders <- [level \in {"upper"} |-> {"o"}],
  RankFiles <- {RanksOf({"gentoken", "rmtoken"})}, TokenFiles <- {TokenFile},
  NewTokens <- <<"t3">>, Labels <- {"l"}, Mask <- MCMask, Clients <- {"p", "q"},
  AskedRanks <- {}, MaxAsks <- 3, MaxTicks <- 2, MaxAccessFaults <- 1,
  disk <- a, answered <- b, unsure <- c, client <- d, cache <- e, time <- f, blurred <- g,
  set <- h, spent <- i

-----------------------------------------------------------------------------
\* The variables that a component does not use.
After11 == l = None /\ m = None
After10 == k = None /\ After11
After9  == j = None /\ After10
After7  == h = None /\ i = None /\ After9
After8  == i = None /\ After9
After6  == g = None /\ After7
After5  == f = None /\ After6
After1  == b = None /\ c = None /\ d = None /\ e = None /\ After5

DeskInit ==
  \/ which = "requests" /\ Requests!IntakeInit /\ After8
  \/ which = "keywords" /\ Keywords!KeepsInit /\ After6
  \/ which = "picked" /\ Picked!PickInit /\ After11
  \/ \E n \in 1..2 : which = MagnetOf(n) /\ Magnet(n)!SourceInit /\ After10
  \/ which = "files" /\ Torrents!FilesInit /\ After10
  \/ which = "tags" /\ Tags!TagsInit /\ After1
  \/ which = "release" /\ Releases!MergeInit /\ After5
  \/ which = "frames" /\ Shown!ShotInit /\ After10
  \/ which = "logs" /\ Logs!LogsInit /\ After9
  \/ which = "sync" /\ Sync!PullInit
  \/ which = "slots" /\ Slots!SlotsInit /\ After7
  \/ which = "ranks" /\ Ranks!AccessInit /\ After9
  \/ which = "bearers" /\ Bearers!AccessInit /\ After9

DeskStep ==
  \/ which = "requests" /\ Requests!IntakeNext /\ UNCHANGED <<i, j, k, l, m>>
  \/ which = "keywords" /\ Keywords!KeepsNext /\ UNCHANGED <<g, h, i, j, k, l, m>>
  \/ which = "picked" /\ Picked!PickNext /\ UNCHANGED <<l, m>>
  \/ \E n \in 1..2 : which = MagnetOf(n) /\ Magnet(n)!SourceNext /\ UNCHANGED <<k, l, m>>
  \/ which = "files" /\ Torrents!FilesNext /\ UNCHANGED <<k, l, m>>
  \/ which = "tags" /\ Tags!TagsNext /\ UNCHANGED <<b, c, d, e, f, g, h, i, j, k, l, m>>
  \/ which = "release" /\ Releases!MergeNext /\ UNCHANGED <<f, g, h, i, j, k, l, m>>
  \/ which = "frames" /\ Shown!ShotNext /\ UNCHANGED <<k, l, m>>
  \/ which = "logs" /\ Logs!LogsNext /\ UNCHANGED <<j, k, l, m>>
  \/ which = "sync" /\ Sync!PullNext
  \/ which = "slots" /\ Slots!SlotsNext /\ UNCHANGED <<h, i, j, k, l, m>>
  \/ which = "ranks" /\ Ranks!AccessNext /\ UNCHANGED <<j, k, l, m>>
  \/ which = "bearers" /\ Bearers!AccessNext /\ UNCHANGED <<j, k, l, m>>
DeskNext == UNCHANGED which /\ DeskStep

\* The fairness of Keeps, of TorrentSource and of the turns and tasks of a pool.
DeskFairness ==
  /\ WF_deskVars(UNCHANGED which /\ which = "keywords" /\ Keywords!KeepsStep
                 /\ UNCHANGED <<g, h, i, j, k, l, m>>)
  /\ WF_deskVars(UNCHANGED which
                 /\ \E n \in 1..2 : which = MagnetOf(n) /\ Magnet(n)!SourceStep
                    /\ UNCHANGED <<k, l, m>>)
  /\ WF_deskVars(UNCHANGED which /\ which = "slots" /\ Slots!SlotsStep
                 /\ UNCHANGED <<h, i, j, k, l, m>>)
DeskSpec == DeskInit /\ [][DeskNext]_deskVars /\ DeskFairness

-----------------------------------------------------------------------------
\* The state of each component has the form its module gives it.
DeskTypeOK ==
  /\ which = "requests" => Requests!IntakeTypeOK
  /\ which = "keywords" => Keywords!KeepsTypeOK
  /\ which = "picked" => Picked!PickTypeOK
  /\ \A n \in 1..2 : which = MagnetOf(n) => Magnet(n)!SourceTypeOK
  /\ which = "files" => Torrents!FilesTypeOK
  /\ which = "tags" => Tags!TagsTypeOK
  /\ which = "release" => Releases!MergeTypeOK
  /\ which = "frames" => Shown!ShotTypeOK
  /\ which = "logs" => Logs!LogsTypeOK
  /\ which = "sync" => Sync!PullTypeOK
  /\ which = "slots" => Slots!SlotsTypeOK
  /\ which = "ranks" => Ranks!AccessTypeOK
  /\ which = "bearers" => Bearers!AccessTypeOK

\* An output that a keyword names is whole, is its own, and is what a keycode or
\* a Studio gets (keep.rs); the logs of a job outlive its directory, and who looks
\* for them finds them all (lifecycle.rs, joblog.rs).
KeptAsPromised ==
  /\ which = "keywords" => Keywords!KeptAsPromised
  /\ which = "logs" => Logs!LogsAreKept /\ Logs!LogsAreFound /\ Logs!AnswersAreWhole

\* The table lists the jobs that the loop has, and none of a former process
\* (http/api/core.rs, db/core.rs).
TableFollowsTheLoop == which = "requests" => Requests!TableFollowsTheLoop

\* What was answered is what happens: a batch is what its message showed, each
\* episode with its own subtitle (batch.rs); after a git sync the revision that its
\* reply names runs, and the reply accounts for every new commit (pull.rs); the
\* slots of a pool are those that the commands spoke of, each with one task
\* (worker_slots.rs); the files of levels, ranks and tokens say what the commands left
\* in them, no rank comes from nowhere, and a token that was revoked is refused
\* (changerank.rs, auth.rs, token.rs, http/api/core.rs).
DoneAsAnswered ==
  /\ which = "picked" => Picked!EachHasItsOwn /\ Picked!RunsAsShown
  /\ which = "sync" => Sync!NamesWhatRestarts /\ Sync!ListAddsUp /\ Sync!OnlyAdvances
  /\ which = "slots" => Slots!SlotsAsAnswered /\ Slots!OneTaskPerName
  /\ which = "ranks" => Ranks!AnswersHold /\ Ranks!RanksAreGiven
  /\ which = "bearers" => Bearers!AnswersHold /\ Bearers!RevokedIsRefused /\ Bearers!CacheIsFresh

\* A file that is announced is whole, whatever pieces it shares (storage.rs).
AnnouncedIsWhole == which = "files" => Torrents!AnnouncedIsWhole

\* A subtitle that is loaded and written again, scaled, split or merged with
\* others looks as it did (libkagami, pnass.rs), and the frames that show it are
\* chosen for a reason and shown in their order (preview.rs).
SubtitlesLookTheSame ==
  /\ which = "tags" => Tags!LooksTheSame
  /\ which = "release" => Releases!SubtitleAsWritten
  /\ which = "frames" => Shown!ShotsAreJustified /\ Shown!PictureInOrder

\* No keycode waits for ever, a magnet link that can be resolved is, and a pool
\* takes what it was sent.
Waiting ==
  \/ which = "keywords" /\ \E key \in {"key"} : e[key].st = "waiting"
  \/ which \in {MagnetOf(n) : n \in 1..2} /\ b \notin {"resolved", "cancelled"}
  \/ which = "slots" /\ d.pending # <<>>
WaitsEnd == Waiting ~> ~Waiting
=============================================================================
