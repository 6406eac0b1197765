----------------------------- MODULE MCServices -----------------------------
(***************************************************************************)
(* The services around the queue: the key vault, the publication of an     *)
(* episode, the Studios and their previews, the Smartcode repository and   *)
(* the channels attached to it, the watchdog, the lock of a torrent, the   *)
(* upload of an output, the run of a tool and the lines it prints.  None   *)
(* of them shares state with another, so one run checks each of them:      *)
(* which one is chosen in the initial state, and its variables are the     *)
(* first of the eleven of MCTools; the others keep the value None.         *)
(***************************************************************************)
EXTENDS MCTools

None == "none"

Keys == INSTANCE KeyVault WITH
  VaultFiles <- {"env", "drive"}, Deleted <- {"drive"}, MaxIds <- 2, MaxTouches <- 2,
  MaxVaultFaults <- 1, MaxCrashes <- 1,
  disk <- a, copies <- b, pending <- c, command <- d, staged <- e, purged <- f, touched <- g,
  late <- h, budget <- i

\* Commands on one half that overlap, and commands on all sites one at a time.
Halves == INSTANCE Publish WITH
  Groups <- {"ours", "theirs"}, ServerGroup <- "ours", Links <- {},
  Kinds <- {"publish", "acixconfirm", "acixunpublish"}, Namings <- {{}},
  Listed <- {0}, Duplicates <- {}, MaxCommands <- 2, Together <- 2,
  SiteFaults <- {"refused", "lost", "store", "restart"}, MaxSiteFaults <- 1,
  record <- a, onAcix <- b, onOpen <- c, anizm <- d, onAkira <- e, cmd <- f, bounds <- g,
  raced <- h
Sites == INSTANCE Publish WITH
  Groups <- {"ours", "theirs"}, ServerGroup <- "ours", Links <- {"l"},
  Kinds <- {"publish", "acixconfirm", "acixunpublish", "openanimeconfirm", "anizmconfirm",
            "akiraconfirm"},
  Namings <- {{"AnimeciX"}, {"Anizm", "OpenAnime"}},
  Listed <- {0, 1}, Duplicates <- {}, MaxCommands <- 3, Together <- 1,
  SiteFaults <- {"refused", "lost", "store", "restart"}, MaxSiteFaults <- 1,
  record <- a, onAcix <- b, onOpen <- c, anizm <- d, onAkira <- e, cmd <- f, bounds <- g,
  raced <- h

\* What an editor does to one Studio, and what keeps two Studios alive.
SourcesKept == {[kind |-> "encode", length |-> 1], [kind |-> "backup", length |-> 2]}
Editing == INSTANCE Studio WITH
  Users <- {"u1"}, Studios <- {1}, Keeps <- SourcesKept, TrackLength <- 1,
  ServerPreset <- "veryslow", ActiveTtl <- 2, ExtendedTtl <- 3, DisownedTtl <- 1,
  Commands <- {"create", "keywords", "move", "add", "remove", "render"},
  MaxGiven <- 6, MaxTime <- 0, StoreFaults <- 1, MaxTracks <- 2,
  meta <- a, pointers <- b, disk <- c, linked <- d, spoiled <- e, todo <- f, rendering <- g,
  renders <- h, now <- i, used <- j
Expiry == INSTANCE Studio WITH
  Users <- {"u1", "u2"}, Studios <- {1, 2}, Keeps <- {[kind |-> "backup", length |-> 2]}, TrackLength <- 1,
  ServerPreset <- "veryslow", ActiveTtl <- 2, ExtendedTtl <- 3, DisownedTtl <- 1,
  Commands <- {"create", "look", "extend", "list", "switch", "reown", "disown"},
  MaxGiven <- 4, MaxTime <- 3, StoreFaults <- 1, MaxTracks <- 2,
  meta <- a, pointers <- b, disk <- c, linked <- d, spoiled <- e, todo <- f, rendering <- g,
  renders <- h, now <- i, used <- j
Preview == INSTANCE StudioMix WITH
  Preroll <- 1, DefaultWindow <- 2, Totals <- {3, 5}, AudioLength <- 3, Volumes <- {20},
  Fades <- {0, 1}, Amounts <- {0, 1, 2}, Windows <- {0, 1, 3}, MaxEdits <- 4,
  video <- a, sound <- b, edits <- c

\* Every command, one after the other, in a folder with and without a file
\* that is not the project's; with /attach; and two commands that overlap.
AllFailures == {"sha", "put", "zip", "plain", "source", "split", "merge"}
Uploads == INSTANCE Smartcode WITH
  Kinds <- {"job", "ts", "smartcode", "source", "release"}, Foreign <- {TRUE, FALSE},
  Sizes <- {TRUE, FALSE}, MaxCommands <- 4, Together <- 1, Broken <- AllFailures, MaxFaults <- 1,
  repo <- a, cmd <- b, given <- c, faults <- d, owed <- e, adrift <- f
Attached == INSTANCE Smartcode WITH
  Kinds <- {"job", "ts", "smartcode", "attach"}, Foreign <- {TRUE}, Sizes <- {FALSE},
  MaxCommands <- 4, Together <- 1,
  Broken <- AllFailures \union {"list", "copy", "create", "remove"}, MaxFaults <- 1,
  repo <- a, cmd <- b, given <- c, faults <- d, owed <- e, adrift <- f
Overlapping == INSTANCE Smartcode WITH
  Kinds <- {"job", "ts", "source"}, Foreign <- {FALSE}, Sizes <- {FALSE}, MaxCommands <- 3,
  Together <- 2, Broken <- AllFailures, MaxFaults <- 1,
  repo <- a, cmd <- b, given <- c, faults <- d, owed <- e, adrift <- f

\* Two channels and two animes, one in a repository that somebody began by hand,
\* with and without a template for README.md.
MCAnimes == {"x", "y"}
OwnRepos == [n \in MCAnimes |-> IF n = "x" THEN "rx" ELSE "ry"]
BegunByHand == [r \in {"ry"} |-> {<<1, "foreign">>, <<0, "README">>}]
Attaching == INSTANCE Attachments WITH
  Channels <- {"c1", "c2"}, Animes <- MCAnimes, Repos <- {"rx", "ry"},
  EpisodesOf <- [n \in MCAnimes |-> 1], OwnRepo <- OwnRepos,
  Begun <- BegunByHand, HasBase <- TRUE, Alone <- TRUE, MaxGiven <- 3, Together <- 2,
  MaxForgeFaults <- 1,
  meta <- a, repos <- b, cmds <- c, bounds <- d, switched <- e
Unsigned == INSTANCE Attachments WITH
  Channels <- {"c1", "c2"}, Animes <- MCAnimes, Repos <- {"rx", "ry"},
  EpisodesOf <- [n \in MCAnimes |-> IF n = "x" THEN 2 ELSE 1], OwnRepo <- OwnRepos,
  Begun <- BegunByHand, HasBase <- FALSE, Alone <- TRUE, MaxGiven <- 2, Together <- 2,
  MaxForgeFaults <- 1,
  meta <- a, repos <- b, cmds <- c, bounds <- d, switched <- e

Watchdog == INSTANCE Heartbeat WITH
  Limit <- 6, BeatEvery <- 1, MaxTurn <- 3, ReturnCap <- 1, InboxCap <- 1,
  MaxSends <- 1, MaxFails <- 1,
  layer <- a, silence <- b, quiet <- c, turn <- d, at <- e, pulse <- f, returned <- g, inbox <- h,
  sends <- i, fails <- j, reboots <- k

\* Three processes, of which two may be killed, with a file that may get old.
Killed == INSTANCE TorrentLock WITH
  Processes <- {"p", "q", "r"}, MaxKills <- 2, MaxDays <- 1, MaxStarts <- 1,
  file <- a, at <- b, tries <- c, saw <- d, lost <- e, bounds <- f

\* Every task of a tool, with failures of the network, the server and ffmpeg and
\* starts of ffmpeg that fail; no layer is rebooted.
CalmTool == INSTANCE ToolRun WITH
  Tasks <- AllTasks, MaxPieces <- 2, MaxMishaps <- 2, ToolFaults <- {"spawn"},
  task <- a, worker <- b, pass <- c, tool <- d, out <- e, ffmpeg <- f, left <- g, file <- h,
  pieces <- i, cancel <- j, mishaps <- k

\* Texts with every delimiter and with names of tokens, also that of '?'.
Lines == INSTANCE ToolLines WITH
  MaxText <- 4, Alphabet <- {"PNcolon", "PNslash", "PNquestion", ":", "/", "%", "?", "x"},
  code <- a, first <- b, second <- c

-----------------------------------------------------------------------------
\* The variables that a component does not use.
After10 == k = None
After9  == j = None /\ After10
After8  == i = None /\ After9
After7  == h = None /\ After8
After6  == g = None /\ After7
After5  == f = None /\ After6
After3  == d = None /\ e = None /\ After5

ServicesInit ==
  \/ ToolsInit
  \/ which = "keys" /\ Keys!VaultInit /\ After9
  \/ which = "halves" /\ Halves!PubInit /\ After8
  \/ which = "sites" /\ Sites!PubInit /\ After8
  \/ which = "editing" /\ Editing!StudioInit /\ After10
  \/ which = "expiry" /\ Expiry!StudioInit /\ After10
  \/ which = "preview" /\ Preview!MixInit /\ After3
  \/ which = "uploads" /\ Uploads!RepoInit /\ After6
  \/ which = "attached" /\ Attached!RepoInit /\ After6
  \/ which = "overlapping" /\ Overlapping!RepoInit /\ After6
  \/ which = "attaching" /\ Attaching!AttachInit /\ After5
  \/ which = "unsigned" /\ Unsigned!AttachInit /\ After5
  \/ which = "watchdog" /\ Watchdog!BeatInit
  \/ which = "killed" /\ Killed!LockInit /\ After6
  \/ which = "calm" /\ CalmTool!RunInit
  \/ which = "lines" /\ Lines!LinesInit /\ After3

ServiceStep ==
  \/ which = "keys" /\ Keys!VaultNext /\ UNCHANGED <<j, k>>
  \/ which = "halves" /\ Halves!PubNext /\ UNCHANGED <<i, j, k>>
  \/ which = "sites" /\ Sites!PubNext /\ UNCHANGED <<i, j, k>>
  \/ which = "editing" /\ Editing!StudioNext /\ UNCHANGED k
  \/ which = "expiry" /\ Expiry!StudioNext /\ UNCHANGED k
  \/ which = "preview" /\ Preview!MixNext /\ UNCHANGED <<d, e, f, g, h, i, j, k>>
  \/ which = "uploads" /\ Uploads!RepoNext /\ UNCHANGED <<g, h, i, j, k>>
  \/ which = "attached" /\ Attached!RepoNext /\ UNCHANGED <<g, h, i, j, k>>
  \/ which = "overlapping" /\ Overlapping!RepoNext /\ UNCHANGED <<g, h, i, j, k>>
  \/ which = "attaching" /\ Attaching!AttachNext /\ UNCHANGED <<f, g, h, i, j, k>>
  \/ which = "unsigned" /\ Unsigned!AttachNext /\ UNCHANGED <<f, g, h, i, j, k>>
  \/ which = "watchdog" /\ Watchdog!BeatNext
  \/ which = "killed" /\ Killed!LockNext /\ UNCHANGED <<g, h, i, j, k>>
  \/ which = "calm" /\ CalmTool!RunNext
  \/ which = "lines" /\ Lines!LinesNext /\ UNCHANGED <<d, e, f, g, h, i, j, k>>

ServicesNext ==
  \/ ToolsNext
  \/ UNCHANGED which /\ ServiceStep

ServicesSpec == ServicesInit /\ [][ServicesNext]_toolsVars /\ ToolsFairness

-----------------------------------------------------------------------------
\* The state of each component has the form its module gives it.
ServicesTypeOK ==
  /\ which = "keys" => Keys!VaultTypeOK
  /\ which = "halves" => Halves!PubTypeOK
  /\ which = "sites" => Sites!PubTypeOK
  /\ which = "editing" => Editing!StudioTypeOK
  /\ which = "expiry" => Expiry!StudioTypeOK
  /\ which = "preview" => Preview!MixTypeOK
  /\ which = "uploads" => Uploads!RepoTypeOK
  /\ which = "attached" => Attached!RepoTypeOK
  /\ which = "overlapping" => Overlapping!RepoTypeOK
  /\ which = "attaching" => Attaching!AttachTypeOK
  /\ which = "unsigned" => Unsigned!AttachTypeOK
  /\ \A u \in HostKinds : which = u => Posted(u)!UploadTypeOK
  /\ which = "watchdog" => Watchdog!BeatTypeOK
  /\ which = "killed" => Killed!LockTypeOK
  /\ which = "calm" => CalmTool!RunTypeOK
  /\ which = "tool" => Tool!RunTypeOK
  /\ which = "lines" => Lines!LinesTypeOK

\* What /keyvault confirm has removed is in an encrypted copy, and what other
\* commands wrote outlives a purge.
PurgeLosesNothing == which = "keys" => Keys!PurgedIsBackedUp /\ Keys!PurgeKeepsTheRest

\* A half that the record calls published is on the site, the two halves of an
\* episode are published under one fansub, and Anizm has one relation of a fansub
\* and an episode.
PublishedAsRecorded ==
  /\ which = "halves" => Halves!RecordedIsOnSite /\ Halves!HalvesAgree
  /\ which = "sites" => Sites!RecordedIsOnSite /\ Sites!HalvesAgree /\ Sites!OneRelation

\* The media that meta.json names is there, the snapshot of a render is not
\* overwritten, and a preview sounds like the same stretch of the render.
StudioKeepsItsWork ==
  /\ which = "editing" => Editing!EditorFindsItsMedia /\ Editing!SnapshotsAreKept
  /\ which = "expiry" => Expiry!EditorFindsItsMedia
  /\ which = "preview" => Preview!PreviewIsTheMix

\* A Studio goes only when its time is over, and a layer that works is not
\* started again.
OnlyForCause ==
  [][/\ which = "expiry" => Expiry!LeavesInTime
     /\ which = "watchdog" => Watchdog!RestartedForCause]_toolsVars


\* A torrent has one downloader.
OneDownloader == which = "killed" => Killed!OneDownloader

\* The output of a tool is whole when it is reported done, nothing writes after a
\* report, and what a tool prints is what the worker reads.
ToolReportsTheEnd ==
  /\ which = "calm" => CalmTool!DoneIsWhole /\ CalmTool!QuietOnceReported
  /\ which = "lines" => Lines!LinesAreReadBack
=============================================================================
