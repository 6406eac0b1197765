------------------------------- MODULE JobLogs -------------------------------
(***************************************************************************)
(* The logs of jobs.  The tools of a job write them into DB/work; when the *)
(* job leaves the queue they are moved to DB/saved_data and the rest of    *)
(* its directory is removed (cleanup_job), and before a git sync removes   *)
(* all of DB/work it moves what is still there (preserve_logs_from).       *)
(* /catlogs and the API look for them meanwhile, in both places, and then  *)
(* list them, read one or read them all (joblog.rs).                       *)
(*                                                                         *)
(* A log directory is the set of its files with the mark Dir, or empty     *)
(* when there is none.  The task of a pool may outlive its job, and the    *)
(* shrine: a tool it starts makes the directory again.                     *)
(***************************************************************************)
EXTENDS Naturals, FiniteSets

CONSTANTS
  Jobs, Files, Readers,
  MaxStarts, MaxLogFaults  \* bounds

VARIABLES
  work, saved,  \* the log directory of each job in DB/work, and in DB/saved_data
  stage,        \* how far each job is
  tasks,        \* the jobs whose tasks are at work
  proc,         \* the process: what the loop is doing
  todo,         \* the directories that a sync has still to look at
  lookups,      \* what each reader has found so far
  due,          \* history: what a job logged in its time, and no failed rename lost
  spent

logsVars == <<work, saved, stage, tasks, proc, todo, lookups, due, spent>>

Dir == "log"
LogsIn(d) == d \ {Dir}
There(d) == Dir \in d
NoLookup ==
  [st |-> "idle", job |-> 0, want |-> "list", had |-> {}, from |-> "work", left |-> {}, got |-> {},
   err |-> FALSE]
Fault(kind) == spent[kind] < (IF kind = "starts" THEN MaxStarts ELSE MaxLogFaults)
               /\ spent' = [spent EXCEPT ![kind] = @ + 1]
Up == proc # "down"
\* The loop does one thing at a time.
Free == proc = "loop" /\ \A i \in Jobs : stage[i] # "leaving"

LogsInit ==
  /\ work = [i \in Jobs |-> {}] /\ saved = [i \in Jobs |-> {}]
  /\ stage = [i \in Jobs |-> "new"] /\ tasks = {} /\ proc = "loop" /\ todo = {}
  /\ lookups = [r \in Readers |-> NoLookup]
  /\ due = [i \in Jobs |-> {}]
  /\ spent = [starts |-> 0, faults |-> 0]

\* A job gets its directories, and a task.
Setup(i) ==
  /\ Free /\ stage[i] = "new"
  /\ work' = [work EXCEPT ![i] = {Dir}]
  /\ stage' = [stage EXCEPT ![i] = "queued"]
  /\ tasks' = tasks \union {i}
  /\ UNCHANGED <<saved, proc, todo, lookups, due, spent>>

\* A tool opens its log, in a directory that it makes if it has to.
Log(i, f) ==
  /\ Up /\ i \in tasks /\ f \notin work[i] \union saved[i]
  /\ work' = [work EXCEPT ![i] = @ \union {Dir, f}]
  /\ due' = IF stage[i] = "queued" /\ proc = "loop"
            THEN [due EXCEPT ![i] = @ \union {f}] ELSE due
  /\ UNCHANGED <<saved, stage, tasks, proc, todo, lookups, spent>>

TaskEnds(i) ==
  /\ i \in tasks
  /\ tasks' = tasks \ {i}
  /\ UNCHANGED <<work, saved, stage, proc, todo, lookups, due, spent>>

\* A directory does not replace one that has files.
Moves(i) == There(work[i]) /\ LogsIn(saved[i]) = {}
Rename(i) ==
  \/ /\ saved' = IF Moves(i) THEN [saved EXCEPT ![i] = work[i]] ELSE saved
     /\ work' = IF Moves(i) THEN [work EXCEPT ![i] = {}] ELSE work
     /\ UNCHANGED <<due, spent>>
  \/ Fault("faults") /\ due' = [due EXCEPT ![i] = {}] /\ UNCHANGED <<work, saved>>

\* What a job that leaves has logged is moved, then its directory is removed.
Archive(i) ==
  /\ Free /\ stage[i] = "queued"
  /\ stage' = [stage EXCEPT ![i] = "leaving"]
  /\ Rename(i)
  /\ UNCHANGED <<tasks, proc, todo, lookups>>
Remove(i) ==
  /\ Up /\ stage[i] = "leaving"
  /\ stage' = [stage EXCEPT ![i] = "left"]
  /\ work' = [work EXCEPT ![i] = {}]
  /\ UNCHANGED <<saved, tasks, proc, todo, lookups, due, spent>>

\* A sync moves what is in DB/work, except over logs that are there already, and
\* removes DB/work.
SyncBegin ==
  /\ Free
  /\ proc' = "preserve" /\ todo' = {i \in Jobs : There(work[i])}
  /\ UNCHANGED <<work, saved, stage, tasks, lookups, due, spent>>
Preserve(i) ==
  /\ proc = "preserve" /\ i \in todo
  /\ todo' = todo \ {i}
  /\ IF There(work[i]) /\ ~There(saved[i])
     THEN Rename(i) ELSE UNCHANGED <<work, saved, due, spent>>
  /\ UNCHANGED <<stage, tasks, proc, lookups>>
Wipe ==
  /\ proc = "preserve" /\ todo = {}
  /\ proc' = "wiped" /\ work' = [i \in Jobs |-> {}]
  /\ UNCHANGED <<saved, stage, tasks, todo, lookups, due, spent>>

\* The process ends, after a sync or at any time, and starts again without its jobs.
Down ==
  /\ \/ proc = "wiped" /\ UNCHANGED spent
     \/ proc \in {"loop", "preserve"} /\ Fault("starts")
  /\ proc' = "down" /\ tasks' = {} /\ todo' = {}
  /\ stage' = [i \in Jobs |-> IF stage[i] = "new" THEN "new" ELSE "left"]
  /\ lookups' = [r \in Readers |-> NoLookup]
  /\ UNCHANGED <<work, saved, due>>
Start ==
  /\ proc = "down"
  /\ proc' = "loop"
  /\ UNCHANGED <<work, saved, stage, tasks, todo, lookups, due, spent>>

-----------------------------------------------------------------------------
\* The live directory is looked at first.
Places == <<"work", "saved">>
At(place, i) == IF place = "work" THEN work[i] ELSE saved[i]
Found(r, look) ==
  /\ lookups' = [lookups EXCEPT ![r] = look]
  /\ UNCHANGED <<work, saved, stage, tasks, proc, todo, due>>

Look(r, i, want) ==
  /\ Up /\ lookups[r].st = "idle" /\ stage[i] # "new"
  /\ Found(r, [NoLookup EXCEPT !.st = "first", !.job = i, !.want = want, !.had = due[i]])
  /\ UNCHANGED spent

\* The files that an answer takes: an archive all, a log one, a list only names.
Wanted(want, logs) ==
  IF want = "archive" THEN {logs} ELSE IF want = "file" THEN {{f} : f \in logs} ELSE {{}}

\* A directory without files is passed over; so is one that cannot be read, but
\* that is remembered.
List(r) ==
  /\ lookups[r].st \in {"first", "second"}
  /\ LET k == lookups[r]
         place == Places[IF k.st = "first" THEN 1 ELSE 2]
         logs == LogsIn(At(place, k.job))
         over(err) == IF k.st = "first" THEN [k EXCEPT !.st = "second", !.err = err]
                      ELSE [k EXCEPT !.st = IF err THEN "error" ELSE "none"]
     IN \/ logs = {} /\ Found(r, over(k.err)) /\ UNCHANGED spent
        \/ /\ logs # {} /\ UNCHANGED spent
           /\ \E left \in Wanted(k.want, logs) :
                Found(r, [k EXCEPT !.st = IF left = {} THEN "done" ELSE "read", !.from = place,
                                   !.left = left, !.got = IF left = {} THEN logs ELSE {}])
        \/ Fault("faults") /\ Found(r, over(TRUE))

\* The files are read by the path they had when they were listed.
Read(r, f) ==
  /\ lookups[r].st = "read" /\ f \in lookups[r].left
  /\ LET k == lookups[r] IN
     Found(r, IF f \in At(k.from, k.job)
              THEN [k EXCEPT !.left = @ \ {f}, !.got = @ \union {f},
                             !.st = IF k.left = {f} THEN "done" ELSE "read"]
              ELSE [k EXCEPT !.st = "error"])
  /\ UNCHANGED spent

LogsNext ==
  \/ \E i \in Jobs : Setup(i) \/ TaskEnds(i) \/ Archive(i) \/ Remove(i) \/ Preserve(i)
  \/ \E i \in Jobs, f \in Files : Log(i, f)
  \/ SyncBegin \/ Wipe \/ Down \/ Start
  \/ \E r \in Readers : List(r) \/ (\E f \in Files : Read(r, f))
  \/ \E r \in Readers, i \in Jobs, want \in {"archive", "file", "list"} : Look(r, i, want)

-----------------------------------------------------------------------------
Content == Files \union {Dir}
LogsTypeOK ==
  /\ work \in [Jobs -> SUBSET Content] /\ saved \in [Jobs -> SUBSET Content]
  /\ stage \in [Jobs -> {"new", "queued", "leaving", "left"}]
  /\ tasks \subseteq Jobs /\ todo \subseteq Jobs
  /\ proc \in {"loop", "preserve", "wiped", "down"}
  /\ due \in [Jobs -> SUBSET Files]

\* What a job logged in its time stays on disk, whatever syncs, crashes and tasks
\* that outlive it do, unless the rename itself failed (lifecycle.rs, core.rs).
LogsAreKept == \A i \in Jobs : due[i] \subseteq work[i] \union saved[i]

\* A lookup says that a job has no logs only if it had none, although the job may
\* leave between its two looks (joblog.rs).
LogsAreFound == \A r \in Readers :
  lookups[r].st = "none" => lookups[r].had \cap due[lookups[r].job] = {}

\* An archive or a list is all that was there, or holds what an outlived task wrote
\* (joblog.rs).
AnswersAreWhole == \A r \in Readers :
  LET k == lookups[r] IN
  k.st = "done" /\ k.want # "file" /\ k.got \subseteq due[k.job]
    => k.had \cap due[k.job] \subseteq k.got
=============================================================================
