-------------------------------- MODULE Keeps --------------------------------
(***************************************************************************)
(* The outputs that jobs of one server keep under a keyword (keep.rs): a   *)
(* directory for each keyword, with meta.json and the output, from which a *)
(* keycode joins and a Studio copies.                                      *)
(*                                                                         *)
(* The main loop reserves, stores and marks, one job at a time.  A write   *)
(* truncates the file first.  A keycode's worker, the commands of the      *)
(* Studios and the clock do not wait for the loop.                         *)
(***************************************************************************)
EXTENDS Naturals, FiniteSets

CONSTANTS
  Bases,        \* the words that a pool can hold, numbers in their order
  Rounds,       \* bound: a word is tried bare, then with a number (999)
  Kept,         \* the jobs that keep their output
  KindOf,       \* [Kept -> {"encode", "backup"}]
  Keycodes,     \* the keycodes; beside them, one command of a Studio reads
  Ttl,          \* KEEP_TTL_SECS
  Outlive,      \* whether work may take longer than its keyword lasts
  OthersMeet,   \* whether another's cleanup may meet a file being written
  MaxPools,     \* bound: changes of the pool
  MaxKeepFaults, MaxRestarts

VARIABLES
  keeps,     \* meta.json and the output of each keyword
  pool,      \* keyword_pool.pandora
  jobs,      \* what has become of each job, and its output_keyword
  loop,      \* what the main loop is writing
  readers,   \* the keycodes and the Studio: words, and whose outputs were found and read
  spent      \* changes of the pool, faults and restarts so far

keepsVars == <<keeps, pool, jobs, loop, readers, spent>>

Words == (0..Rounds) \X Bases
Nobody == 0
NoMeta == [file |-> "none", job |-> Nobody, ready |-> FALSE, failed |-> FALSE, left |-> 0]
NoOutput == [job |-> Nobody, whole |-> FALSE]
NoKeep == [meta |-> NoMeta, out |-> NoOutput]
MetaOf(j, ready) ==
  [file |-> "whole", job |-> j, ready |-> ready, failed |-> FALSE, left |-> Ttl]
AtRest == [at |-> "idle", job |-> Nobody, meta |-> NoMeta]

KeepFault == spent.faults < MaxKeepFaults /\ spent' = [spent EXCEPT !.faults = @ + 1]
WordOf(j) == jobs[j].word
WithState(j, st) == [jobs EXCEPT ![j].st = st]
Writing(j, m) == loop' = [at |-> "writing", job |-> j, meta |-> m]

(***************************************************************************)
(* Cleaning up, and finding a word                                         *)
(***************************************************************************)
Unreadable(w) == keeps[w].meta.file # "whole"
ExpiredOnceReady(w) ==
  keeps[w].meta.file = "whole" /\ keeps[w].meta.left = 0 /\ keeps[w].meta.ready
Expired(w) == keeps[w].meta.file = "whole" /\ keeps[w].meta.left = 0
\* cleanup_expired_keeps: S are the words it looks at
Swept(S) == [w \in Words |-> IF w \in S /\ (Expired(w) \/ Unreadable(w)) THEN NoKeep ELSE keeps[w]]
\* A word that the loop is about to write is in nobody else's way.
Settled == IF OthersMeet THEN Words ELSE {w \in Words : loop.job = Nobody \/ w # WordOf(loop.job)}

Cleanup ==
  /\ keeps' = Swept(Settled) /\ UNCHANGED <<pool, jobs, loop, readers, spent>>

Known(K, w) == K[w].meta.file # "none"
\* allocate_keyword: the words of the pool in their order, then with a number
Before(v, w) == v[1] < w[1] \/ (v[1] = w[1] /\ v[2] < w[2])
FreeUnlessReady(K) == {w \in (0..Rounds) \X pool : ~K[w].meta.ready}
Free(K) == {w \in (0..Rounds) \X pool : ~Known(K, w)}
Allocated(K) == CHOOSE w \in Free(K) : \A v \in Free(K) \ {w} : Before(w, v)

\* handle_touchpool, handle_rmpool
ChangePool ==
  /\ spent.pools < MaxPools /\ spent' = [spent EXCEPT !.pools = @ + 1]
  /\ \E b \in Bases : pool' = IF b \in pool THEN pool \ {b} ELSE pool \union {b}
  /\ UNCHANGED <<keeps, jobs, loop, readers>>

(***************************************************************************)
(* A job that keeps its output                                             *)
(***************************************************************************)
\* prepare_keep's look at the keyword the user gave, the parent
ParentSuits(j, p) == Known(Swept(Words), p) /\ KindOf[keeps[p].meta.job] = KindOf[j]
\* prepare_keep_job: the job is refused, or its word is reserved
Decline(j) ==
  /\ loop = AtRest /\ jobs[j].st = "new"
  /\ Free(Swept(Words)) = {} \/ \E p \in Words : ~ParentSuits(j, p)
  /\ keeps' = Swept(Words) /\ jobs' = WithState(j, "refused")
  /\ UNCHANGED <<pool, loop, readers, spent>>
Reserve(j) ==
  /\ loop = AtRest /\ jobs[j].st = "new"
  /\ LET K == Swept(Words) IN
       /\ Free(K) # {}
       /\ keeps' = [K EXCEPT ![Allocated(K)].meta.file = "torn"]
       /\ jobs' = [jobs EXCEPT ![j] = [st |-> "open", word |-> Allocated(K)]]
  /\ Writing(j, MetaOf(j, FALSE))
  /\ UNCHANGED <<pool, readers, spent>>

\* The end of a write; the file may have been removed under it.
Written ==
  /\ loop.at = "writing"
  /\ LET w == WordOf(loop.job) IN
       keeps' = IF keeps[w].meta.file = "torn" THEN [keeps EXCEPT ![w].meta = loop.meta] ELSE keeps
  /\ jobs' = IF loop.meta.ready THEN WithState(loop.job, "stored") ELSE jobs
  /\ loop' = AtRest
  /\ UNCHANGED <<pool, readers, spent>>

Active(j) == jobs[j].st \in {"open", "done"}
Work(j) == /\ jobs[j].st = "open" /\ loop.job # j /\ jobs' = WithState(j, "done")
           /\ UNCHANGED <<keeps, pool, loop, readers, spent>>
\* dispatch_or_kill: nothing is marked
Lose(j) == /\ loop = AtRest /\ jobs[j].st = "open" /\ KeepFault /\ jobs' = WithState(j, "lost")
           /\ UNCHANGED <<keeps, pool, loop, readers>>
\* A job that is declined, fails or is cancelled: mark_output_failed marks
\* whatever has the word.
Marked(w) == [keeps[w].meta EXCEPT !.ready = FALSE, !.failed = TRUE]
Fail(j) ==
  /\ loop = AtRest /\ Active(j) /\ KeepFault /\ jobs' = WithState(j, "failed")
  /\ LET w == WordOf(j) IN
       IF Known(keeps, w)
       THEN keeps' = [keeps EXCEPT ![w].meta.file = "torn"] /\ Writing(j, Marked(w))
       ELSE UNCHANGED <<keeps, loop>>
  /\ UNCHANGED <<pool, readers>>

\* finish_keep_job and store_output: the output is copied, then meta.json is
\* written; after an error the job is removed and the rest stays as it is.
Store(j) ==
  /\ loop = AtRest /\ jobs[j].st = "done" /\ jobs' = WithState(j, "storing")
  /\ keeps' = [keeps EXCEPT ![WordOf(j)].out = [job |-> j, whole |-> FALSE]]
  /\ loop' = [AtRest EXCEPT !.at = "copying", !.job = j]
  /\ UNCHANGED <<pool, readers, spent>>
Unstored(j) == jobs' = WithState(j, "lost") /\ loop' = AtRest /\ UNCHANGED <<keeps, pool, readers>>
Copied ==
  /\ loop.at = "copying"
  /\ LET j == loop.job
         w == WordOf(j)
     IN \/ /\ keeps[w].out.job = j
           /\ keeps' = [keeps EXCEPT ![w] = [meta |-> [@.meta EXCEPT !.file = "torn"],
                                             out |-> [job |-> j, whole |-> TRUE]]]
           /\ Writing(j, MetaOf(j, TRUE))
           /\ UNCHANGED <<pool, jobs, readers, spent>>
        \/ keeps[w].out.job # j /\ Unstored(j) /\ UNCHANGED spent
        \/ KeepFault /\ Unstored(j)

(***************************************************************************)
(* Those who read                                                          *)
(***************************************************************************)
Readers == Keycodes \union {"studio"}
Reads(r, x) == readers' = [readers EXCEPT ![r] = x]
\* queue_keycode_job; a Studio's words are resolved at once
Ask(r, ws) ==
  /\ readers[r].st = "new" /\ (r = "studio" \/ loop = AtRest)
  /\ Reads(r, [readers[r] EXCEPT !.st = "waiting", !.words = ws])
  /\ UNCHANGED <<keeps, pool, jobs, loop, spent>>

Refusing(K, ws) ==
  \/ \E w \in ws : K[w].meta.file # "whole" \/ K[w].meta.failed
  \/ Cardinality({KindOf[K[w].meta.job] : w \in {v \in ws : K[v].meta.file = "whole"}}) > 1
Usable(K, w) == K[w].meta.ready /\ K[w].out # NoOutput
\* resolve_keywords_for_keycode, in try_dispatch_keycode
ResolveKeycode(c) ==
  /\ c \in Keycodes /\ readers[c].st = "waiting" /\ loop = AtRest
  /\ LET K  == Swept(Words)
         ws == readers[c].words
     IN /\ keeps' = K
        /\ \/ Refusing(K, ws) /\ Reads(c, [readers[c] EXCEPT !.st = "failed"]) /\ UNCHANGED spent
           \/ /\ ~Refusing(K, ws) /\ \A w \in ws : Usable(K, w)
              /\ \/ /\ Reads(c, [readers[c] EXCEPT !.st = "reading",
                                                   !.found = [w \in ws |-> K[w].meta.job]])
                    /\ UNCHANGED spent
                 \/ KeepFault /\ Reads(c, [readers[c] EXCEPT !.st = "failed"])
  /\ UNCHANGED <<pool, jobs, loop>>
\* resolve_studio_keywords, in a command of the Studios
ResolveStudio ==
  /\ readers["studio"].st = "waiting"
  /\ LET K  == Swept(Settled)
         ws == readers["studio"].words
     IN /\ keeps' = K
        /\ Reads("studio",
             IF ~Refusing(K, ws) /\ \A w \in ws : Usable(K, w)
             THEN [readers["studio"] EXCEPT !.st = "reading",
                                            !.found = [w \in ws |-> K[w].meta.job]]
             ELSE [readers["studio"] EXCEPT !.st = "failed"])
  /\ UNCHANGED <<pool, jobs, loop, spent>>

\* ffmpeg joins, or a Studio copies, one file after the other.
Unread(r) == IF readers[r].st = "reading" THEN readers[r].words \ DOMAIN readers[r].got ELSE {}
Read(r) ==
  \E w \in Unread(r) :
    /\ Reads(r, IF keeps[w].out = NoOutput
                THEN [readers[r] EXCEPT !.st = "failed"]
                ELSE [readers[r] EXCEPT !.got = [v \in DOMAIN @ \union {w} |->
                                                   IF v = w THEN keeps[w].out ELSE @[v]],
                                        !.st = IF Unread(r) = {w} THEN "read" ELSE @])
    /\ UNCHANGED <<keeps, pool, jobs, loop, spent>>

(***************************************************************************)
(* Time and restarts                                                       *)
(***************************************************************************)
Needed(w) ==
  \/ \E j \in Kept : (Active(j) \/ loop.job = j) /\ WordOf(j) = w
  \/ \E r \in Readers : w \in Unread(r)
Tick ==
  /\ \E w \in Words : keeps[w].meta.left > 0
  /\ \A w \in Words : keeps[w].meta.left = 1 /\ Needed(w) => Outlive
  /\ keeps' = [w \in Words |-> [keeps[w] EXCEPT !.meta.left = IF @ = 0 THEN 0 ELSE @ - 1]]
  /\ UNCHANGED <<pool, jobs, loop, readers, spent>>

\* cleanup_keep_startup; the jobs are gone
Restart ==
  /\ spent.restarts < MaxRestarts /\ spent' = [spent EXCEPT !.restarts = @ + 1]
  /\ keeps' = Swept(Words) /\ loop' = AtRest
  /\ jobs' = [j \in Kept |-> IF Active(j) \/ loop.job = j
                             THEN [jobs[j] EXCEPT !.st = "lost"] ELSE jobs[j]]
  /\ readers' = [r \in Readers |-> IF readers[r].st \in {"waiting", "reading"}
                                   THEN [readers[r] EXCEPT !.st = "lost"] ELSE readers[r]]
  /\ UNCHANGED pool

KeepsInit ==
  /\ keeps = [w \in Words |-> NoKeep] /\ pool = Bases
  /\ jobs = [j \in Kept |-> [st |-> "new", word |-> <<0, 0>>]] /\ loop = AtRest
  /\ readers = [r \in Readers |-> [st |-> "new", words |-> {}, found |-> <<>>, got |-> <<>>]]
  /\ spent = [pools |-> 0, faults |-> 0, restarts |-> 0]

\* What goes on by itself.
KeepsStep ==
  \/ Cleanup \/ Written \/ Copied \/ ResolveStudio \/ Tick
  \/ \E j \in Kept : Work(j) \/ Store(j)
  \/ \E r \in Readers : ResolveKeycode(r) \/ Read(r)
KeepsNext ==
  \/ KeepsStep \/ ChangePool \/ Restart
  \/ \E j \in Kept : Decline(j) \/ Reserve(j) \/ Lose(j) \/ Fail(j)
  \/ \E r \in Readers, v, w \in Words : Ask(r, {v, w})
KeepsSpec == KeepsInit /\ [][KeepsNext]_keepsVars /\ WF_keepsVars(KeepsStep)

-----------------------------------------------------------------------------
Outputs == [job : Kept \union {Nobody}, whole : BOOLEAN]
Metas == [file : {"none", "torn", "whole"}, job : Kept \union {Nobody}, ready : BOOLEAN,
          failed : BOOLEAN, left : 0..Ttl]
KeepsTypeOK ==
  /\ keeps \in [Words -> [meta : Metas, out : Outputs]]
  /\ pool \subseteq Bases
  /\ \A j \in Kept :
       /\ jobs[j].st \in {"new", "refused", "open", "done", "storing", "stored", "failed", "lost"}
       /\ jobs[j].st \in {"open", "done", "storing"} => jobs[j].word \in Words
  /\ loop \in [at : {"idle", "copying", "writing"}, job : Kept \union {Nobody}, meta : Metas]

\* A keyword that is called ready has the whole output of the job it names.
ReadyIsWhole ==
  \A w \in Words : keeps[w].meta.file = "whole" /\ keeps[w].meta.ready
                   => keeps[w].out = [job |-> keeps[w].meta.job, whole |-> TRUE]
\* A keyword is promised to one job (allocate_keyword, cleanup_expired_keeps).
WordsAreNotShared ==
  \A i, j \in Kept : Active(i) /\ Active(j) /\ i # j => WordOf(i) # WordOf(j)
\* What a keycode joins and a Studio copies is what its keywords named when
\* they were resolved (try_dispatch_keycode, create_from_keywords).
FoundIsRead ==
  \A r \in Readers : \A w \in DOMAIN readers[r].got :
    readers[r].got[w] = [job |-> readers[r].found[w], whole |-> TRUE]
KeptAsPromised == ReadyIsWhole /\ WordsAreNotShared /\ FoundIsRead

\* No keycode waits for ever (KEEP_TTL_SECS).
KeycodesEnd == \A c \in Keycodes : readers[c].st = "waiting" ~> readers[c].st # "waiting"
=============================================================================
