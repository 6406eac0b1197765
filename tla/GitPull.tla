------------------------------- MODULE GitPull -------------------------------
(***************************************************************************)
(* A git sync (pull.rs, run_gitsync).  The shrine is killed, the branch is *)
(* fetched and moved if it only has to go forward, the new commits are     *)
(* listed, a rebuild is requested, the reply is sent and the process ends. *)
(* A script outside the container sees the request, stops the container,   *)
(* builds it from the files that are checked out and starts it again; one  *)
(* that ends by itself is started again as it was built.                   *)
(*                                                                         *)
(* Commits are numbered in the order of their times.                       *)
(***************************************************************************)
EXTENDS Naturals, FiniteSets, Sequences, SequencesExt

CONSTANTS
  Commits, Parents,       \* the commits anyone may push, the older parents of each
  MaxListed, MaxScanned,  \* MAX_LISTED_COMMITS, MAX_SCANNED_COMMITS
  SyncFaults,             \* what may fail: fetch, ref, checkout, request, build
  MaxPushes, MaxSyncs, MaxSyncFaults  \* bounds

VARIABLES
  remote,   \* the tip of the branch at origin
  branch,   \* the commit that HEAD's branch names here
  tree,     \* the commit whose files are checked out
  image,    \* the commit that the container is built from
  running,  \* the one the program that runs is built from, 0 when none runs
  stage,    \* what the program is doing
  previous, fetched,
  report,   \* what git_pull and head_commit found
  said,     \* the last reply, with what had moved until then
  request,  \* whether gitsync.request is there
  watcher,  \* what the script is doing
  spent     \* what was used up of the bounds; and, history, the steps of a sync that
            \* came to nothing and were not made good since: checkout, request, build

pullVars == <<remote, branch, tree, image, running, stage, previous, fetched, report, said,
              request, watcher, spent>>

\* A commit and all that it was made from.
Past[c \in Commits] == {c} \union UNION {Past[p] : p \in Parents[c]}

NoReport == [head |-> 0, listed |-> <<>>, rest |-> 0, more |-> FALSE, from |-> 0]
Spend(kind, most) == spent[kind] < most /\ spent' = [spent EXCEPT ![kind] = @ + 1]
Fault(what) == what \in SyncFaults /\ spent.faults < MaxSyncFaults
Fails(what) == Fault(what) /\ spent' = [spent EXCEPT !.faults = @ + 1]
Misses(what) == Fault(what) /\ spent' = [spent EXCEPT !.faults = @ + 1, !.undone = @ \union {what}]
Mends(what) == spent' = [spent EXCEPT !.undone = @ \ what]

PullInit ==
  /\ remote \in Commits /\ branch \in Commits /\ Past[branch] \subseteq Past[remote]
  /\ tree = branch /\ image = branch /\ running = branch
  /\ stage = "idle" /\ previous = branch /\ fetched = 0
  /\ report = NoReport /\ said = NoReport
  /\ request = FALSE /\ watcher = "idle"
  /\ spent = [pushes |-> 0, syncs |-> 0, faults |-> 0, undone |-> {}]

\* Someone pushes, also over what is there.
Push(c) ==
  /\ Spend("pushes", MaxPushes)
  /\ remote' = c
  /\ UNCHANGED <<branch, tree, image, running, stage, previous, fetched, report, said, request,
                 watcher>>

Begin ==
  /\ stage = "idle" /\ running # 0 /\ Spend("syncs", MaxSyncs)
  /\ stage' = "fetch" /\ previous' = branch /\ report' = NoReport /\ said' = NoReport
  /\ UNCHANGED <<remote, branch, tree, image, running, fetched, request, watcher>>

\* A pull that fails leaves the rest to head_commit.
Fetch ==
  /\ stage = "fetch"
  /\ \/ fetched' = remote /\ stage' = "move" /\ UNCHANGED spent
     \/ Fails("fetch") /\ stage' = "failed" /\ UNCHANGED fetched
  /\ UNCHANGED <<remote, branch, tree, image, running, previous, report, said, request, watcher>>

FastForward == branch \in Past[fetched] \ {fetched}
Move ==
  /\ stage = "move"
  /\ \/ ~FastForward /\ stage' = "list" /\ UNCHANGED <<branch, spent>>
     \/ FastForward /\ branch' = fetched /\ stage' = "checkout" /\ UNCHANGED spent
     \/ FastForward /\ Fails("ref") /\ stage' = "failed" /\ UNCHANGED branch
  /\ UNCHANGED <<remote, tree, image, running, previous, fetched, report, said, request, watcher>>

\* The files follow the branch.  Files of which a part did not are not told from those
\* of before.
Checkout ==
  /\ stage = "checkout"
  /\ \/ tree' = branch /\ stage' = "list" /\ Mends({"checkout"})
     \/ Misses("checkout") /\ stage' = "failed" /\ UNCHANGED tree
  /\ UNCHANGED <<remote, branch, image, running, previous, fetched, report, said, request, watcher>>

\* The commits since, newest first, as far as the scan goes and the reply holds.
Scan == SetToSortSeq(Past[branch] \ Past[previous], LAMBDA c, d : c > d)
Scanned == SubSeq(Scan, 1, IF Len(Scan) > MaxScanned THEN MaxScanned ELSE Len(Scan))
Shown == SubSeq(Scanned, 1, IF Len(Scanned) > MaxListed THEN MaxListed ELSE Len(Scanned))
List ==
  /\ stage = "list"
  /\ stage' = "request"
  /\ report' = [head |-> branch, listed |-> Shown, rest |-> Len(Scanned) - Len(Shown),
                more |-> Len(Scan) > MaxScanned, from |-> previous]
  /\ UNCHANGED <<remote, branch, tree, image, running, previous, fetched, said, request, watcher,
                 spent>>
AtHead ==
  /\ stage = "failed"
  /\ stage' = "reply" /\ report' = [NoReport EXCEPT !.head = branch, !.from = branch]
  /\ UNCHANGED <<remote, branch, tree, image, running, previous, fetched, said, request, watcher,
                 spent>>

\* A request that cannot be written is only forgotten; so is one that no path is
\* given for.
Request ==
  /\ stage = "request"
  /\ stage' = "reply"
  /\ \/ request' = TRUE /\ UNCHANGED spent
     \/ Misses("request") /\ UNCHANGED request
  /\ UNCHANGED <<remote, branch, tree, image, running, previous, fetched, report, said, watcher>>

Reply ==
  /\ stage = "reply"
  /\ stage' = "leave" /\ said' = report
  /\ UNCHANGED <<remote, branch, tree, image, running, previous, fetched, report, request, watcher,
                 spent>>

\* After a second, or an hour when a rebuild was requested.
Exit ==
  /\ stage = "leave"
  /\ stage' = "idle" /\ running' = 0
  /\ UNCHANGED <<remote, branch, tree, image, previous, fetched, report, said, request, watcher,
                 spent>>
Restart ==
  /\ running = 0 /\ watcher = "idle"
  /\ running' = image
  /\ UNCHANGED <<remote, branch, tree, image, stage, previous, fetched, report, said, request,
                 watcher, spent>>

\* The request is removed before it is met, and what it asked for is done as far
\* as it goes.  The program may have been started again by then, and may be stopped in
\* the middle of another sync.
See ==
  /\ watcher = "idle" /\ request
  /\ watcher' = "stop" /\ request' = FALSE
  /\ UNCHANGED <<remote, branch, tree, image, running, stage, previous, fetched, report, said, spent>>
Stop ==
  /\ watcher = "stop"
  /\ watcher' = "build" /\ running' = 0 /\ stage' = "idle"
  /\ spent' = [spent EXCEPT !.undone = @ \union IF stage = "checkout" THEN {"checkout"} ELSE {}]
  /\ UNCHANGED <<remote, branch, tree, image, previous, fetched, report, said, request>>
Build ==
  /\ watcher = "build"
  /\ watcher' = "up"
  /\ \/ image' = tree /\ Mends({"request", "build"})
     \/ Misses("build") /\ UNCHANGED image
  /\ UNCHANGED <<remote, branch, tree, running, stage, previous, fetched, report, said, request>>
StartAgain ==
  /\ watcher = "up"
  /\ watcher' = "idle" /\ running' = image
  /\ UNCHANGED <<remote, branch, tree, image, stage, previous, fetched, report, said, request, spent>>

PullNext ==
  \/ \E c \in Commits : Push(c)
  \/ Begin \/ Fetch \/ Move \/ Checkout \/ List \/ AtHead \/ Request \/ Reply \/ Exit \/ Restart
  \/ See \/ Stop \/ Build \/ StartAgain

-----------------------------------------------------------------------------
PullTypeOK ==
  /\ {remote, branch, tree, image, previous} \subseteq Commits
  /\ {running, fetched, report.head, said.head} \subseteq Commits \union {0}
  /\ stage \in {"idle", "fetch", "move", "checkout", "list", "failed", "request", "reply", "leave"}
  /\ watcher \in {"idle", "stop", "build", "up"} /\ request \in BOOLEAN

\* What runs after a sync is the revision that its reply named, whether the pull
\* succeeded or was given up at the fetch or the branch, and whatever became of the
\* syncs before it (run_gitsync, git_pull).  When the files, the request or the build did
\* not follow the branch, and no later sync made up for it, what runs is an older
\* revision of the same history, never one that the branch has left.
NamesWhatRestarts ==
  said # NoReport /\ running # 0 /\ stage = "idle" /\ watcher = "idle" /\ ~request
    => /\ running \in Past[said.head]
       /\ spent.undone = {} => said.head = running

\* The list and the count add up to the commits the sync moved over, the newest
\* first; the mark of an unfinished scan is there exactly when some are left out
\* (lines, commits_between).
ListAddsUp ==
  LET new == Past[said.head] \ Past[said.from] IN
  said # NoReport =>
    /\ \A n \in 1..Len(said.listed) :
         /\ said.listed[n] \in new
         /\ Cardinality({c \in new : c > said.listed[n]}) = n - 1
    /\ Len(said.listed) + said.rest <= Cardinality(new)
    /\ said.more <=> Len(said.listed) + said.rest < Cardinality(new)
    /\ new # {} => said.head \in ToSet(said.listed)

\* A sync never takes back a commit, whatever was pushed (git_pull).
OnlyAdvances == Past[previous] \subseteq Past[branch]
=============================================================================
