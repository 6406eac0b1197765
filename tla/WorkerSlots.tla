----------------------------- MODULE WorkerSlots -----------------------------
(***************************************************************************)
(* The names under which a pool runs its tasks: the list in workers.toml   *)
(* (worker_slots.rs), the commands that show and change it, and a pool     *)
(* that reads it every second, gives a free name to each task and takes it *)
(* back when the task is done (WorkerNamePool, downloadworker.rs).  The    *)
(* three kinds of pools have a list each, and one file, of which this is   *)
(* one list.                                                               *)
(*                                                                         *)
(* A command reads the file, changes what it read and writes it again: the *)
(* file is cut first and filled then.  A file that is not there, is cut,   *)
(* or cannot be parsed stands for the defaults.                            *)
(***************************************************************************)
EXTENDS Naturals, Sequences, FiniteSets, SequencesExt, Functions, TLAPS

CONSTANTS
  Names,      \* the names that normalize_name takes, some of them digits only
  Bad,        \* one that it refuses
  Defaults,   \* the names of a file that says nothing, at least one
  Files,      \* what the file may hold at first
  MaxSlots,   \* MAX_WORKER_SLOTS
  Admins, Jobs,
  MaxCommands, MaxReboots, MaxSlotFaults  \* bounds

VARIABLES
  file,      \* the names in the file; empty when it says nothing
  command,   \* the command of each admin: [op, arg, at, read]
  answered,  \* history: the names there should be after all the answers given, and
             \* {} once a failed write, or two commands that overlapped, made that unknown
  pool,      \* the pool: [names, used, pending, running, done]
  jobs,      \* the jobs that were not sent yet
  orphans,   \* the tasks of pools that are gone
  spent

slotVars == <<file, command, answered, pool, jobs, orphans, spent>>

\* normalize_slots, and the defaults.
Normal(f) == FoldLeft(LAMBDA kept, n : IF n = Bad \/ n \in ToSet(kept) THEN kept ELSE Append(kept, n),
                      <<>>, f)
Slots(f) == IF Normal(f) = <<>> THEN Defaults ELSE Normal(f)

NoCommand == [op |-> "none", arg |-> Bad, at |-> "idle", read |-> <<>>]
NewPool(f) == [names |-> Slots(f), used |-> {}, pending |-> <<>>, running |-> {}, done |-> {}]
Spend(kind, most) == spent[kind] < most /\ spent' = [spent EXCEPT ![kind] = @ + 1]

SlotsInit ==
  /\ file \in Files /\ answered = ToSet(Slots(file))
  /\ command = [a \in Admins |-> NoCommand]
  /\ pool = NewPool(file) /\ jobs = Jobs /\ orphans = {}
  /\ spent = [commands |-> 0, reboots |-> 0, faults |-> 0]

-----------------------------------------------------------------------------
(***************************************************************************)
(* The commands                                                            *)
(***************************************************************************)
\* /touchworker with a name, /rmworker with a name or the place of one.
Ask(a, op, arg) ==
  /\ command[a].at = "idle" /\ Spend("commands", MaxCommands)
  /\ op = "touch" => arg \in Names
  /\ arg # Bad
  /\ command' = [command EXCEPT ![a] = [op |-> op, arg |-> arg, at |-> "load", read |-> <<>>]]
  /\ UNCHANGED <<file, answered, pool, jobs, orphans>>

Reply(a) == command' = [command EXCEPT ![a] = NoCommand]
Goes(a, at, list, name) ==
  command' = [command EXCEPT ![a] = [op |-> @.op, arg |-> name, at |-> at, read |-> list]]

\* Nothing keeps a command from reading the file while another is about to write it,
\* or has cut it: one of the two changes is lost, or the defaults come back.
Overlaps(a) == \E other \in Admins \ {a} : command[other].at \in {"save", "write"}

\* A name is looked for before the number of a place.
Position(list, arg) ==
  IF arg \in ToSet(list) THEN {n \in 1..Len(list) : list[n] = arg}
  ELSE {arg} \cap 1..Len(list)

Load(a) ==
  /\ command[a].at = "load"
  /\ LET list == Slots(file)
         arg == command[a].arg
     IN IF command[a].op = "touch"
        THEN IF arg \in ToSet(list) \/ Len(list) >= MaxSlots
             THEN Reply(a) ELSE Goes(a, "save", Append(list, arg), arg)
        ELSE \/ (Position(list, arg) = {} \/ Len(list) <= 1) /\ Reply(a)
             \/ /\ Len(list) > 1
                /\ \E n \in Position(list, arg) : Goes(a, "save", RemoveAt(list, n), list[n])
  /\ answered' = IF command'[a].at = "save" /\ Overlaps(a) THEN {} ELSE answered
  /\ UNCHANGED <<file, pool, jobs, orphans, spent>>

\* A write that fails leaves the file as it is, or cut.
Cut(a) ==
  /\ command[a].at = "save"
  /\ \/ file' = <<>> /\ command' = [command EXCEPT ![a].at = "write"] /\ UNCHANGED <<answered, spent>>
     \/ Spend("faults", MaxSlotFaults) /\ Reply(a) /\ UNCHANGED <<file, answered>>
  /\ UNCHANGED <<pool, jobs, orphans>>
Write(a) ==
  /\ command[a].at = "write"
  /\ \/ /\ file' = command[a].read
        /\ answered' = IF answered = {} THEN {}
                       ELSE IF command[a].op = "touch" THEN answered \union {command[a].arg}
                       ELSE answered \ {command[a].arg}
        /\ UNCHANGED spent
     \/ Spend("faults", MaxSlotFaults) /\ answered' = {} /\ UNCHANGED file
  /\ Reply(a)
  /\ UNCHANGED <<pool, jobs, orphans>>

-----------------------------------------------------------------------------
(***************************************************************************)
(* The pool                                                                *)
(***************************************************************************)
\* The pool receives a job.
Send(j) ==
  /\ j \in jobs
  /\ jobs' = jobs \ {j} /\ pool' = [pool EXCEPT !.pending = Append(@, j)]
  /\ UNCHANGED <<file, command, answered, orphans, spent>>

\* The names are read again, those that are done are free again, and each task
\* that waits gets one of those nobody uses, in the order they came.
Taken == pool.used \ pool.done
Turn ==
  /\ \E names \in {pool.names, Slots(file)} :
       LET free == ToSet(names) \ Taken
           count == IF Len(pool.pending) < Cardinality(free) THEN Len(pool.pending)
                    ELSE Cardinality(free)
       IN \E given \in Injection(1..count, free) :
            pool' = [names |-> names,
                     used |-> Taken \union Range(given),
                     pending |-> SubSeq(pool.pending, count + 1, Len(pool.pending)),
                     running |-> pool.running
                                 \union {[job |-> pool.pending[n], name |-> given[n]] : n \in 1..count},
                     done |-> {}]
  /\ UNCHANGED <<file, command, answered, jobs, orphans, spent>>

\* A task reports its name when it has ended; nobody listens to an orphan.
TaskEnds(t) ==
  /\ \/ /\ t \in pool.running
        /\ pool' = [pool EXCEPT !.running = @ \ {t}, !.done = @ \union {t.name}]
        /\ UNCHANGED orphans
     \/ t \in orphans /\ orphans' = orphans \ {t} /\ UNCHANGED pool
  /\ UNCHANGED <<file, command, answered, jobs, spent>>

\* The shrine starts the layer again: its tasks go on, what waited is gone, and
\* every name is free.
Reboot ==
  /\ Spend("reboots", MaxReboots)
  /\ pool' = NewPool(file) /\ orphans' = orphans \union pool.running
  /\ UNCHANGED <<file, command, answered, jobs>>

Tasks == [job : Jobs, name : Names]
SlotsNext ==
  \/ \E a \in Admins :
       \/ Load(a) \/ Cut(a) \/ Write(a)
       \/ \E op \in {"touch", "rm"}, arg \in Names \union 1..MaxSlots : Ask(a, op, arg)
  \/ \E j \in Jobs : Send(j)
  \/ Turn \/ Reboot
  \/ \E t \in Tasks : TaskEnds(t)
SlotsSpec == SlotsInit /\ [][SlotsNext]_slotVars

\* The turns of the pool, and the tasks, which end.
SlotsStep == (Turn /\ pool'.pending # pool.pending) \/ \E t \in Tasks : TaskEnds(t)

-----------------------------------------------------------------------------
SlotsTypeOK ==
  /\ file \in Seq(Names \union {Bad})
  /\ \A a \in Admins : command[a].at \in {"idle", "load", "save", "write"}
  /\ pool.names \in Seq(Names) /\ pool.running \subseteq Tasks /\ orphans \subseteq Tasks
  /\ jobs \subseteq Jobs

\* No two tasks of a pool have one name, also when the list changed while they
\* ran, and a name is taken exactly while its task runs or its end is on its way,
\* so that none is lost to the pool (util.rs).
OneTaskPerName ==
  /\ \A t, u \in pool.running : t.name = u.name => t = u
  /\ pool.used = {t.name : t \in pool.running} \union pool.done

\* The file says what the commands so far were answered, whoever gave them and
\* whatever the pool reads meanwhile, while no write is under way, none has failed and
\* no command read the file while another was about to write it; and the names a pool
\* goes by are never none and never twice the same, not even when it reads a file that
\* is cut (worker_slots.rs).
SlotsAsAnswered ==
  /\ pool.names # <<>> /\ IsInjective(pool.names)
  /\ answered # {} /\ (\A a \in Admins : command[a].at # "write")
       => ToSet(Slots(file)) = answered

-----------------------------------------------------------------------------
\* Why it is one: a name whose end is on its way is not that of a running task, so
\* that a turn, which gives back those, gives nobody a name that is still in use.
NamesInUse == {t.name : t \in pool.running}
EndsApart ==
  /\ OneTaskPerName /\ NamesInUse \cap pool.done = {}
  /\ \A t \in pool.running : t = [job |-> t.job, name |-> t.name]

LEMMA InitApart == SlotsInit => EndsApart
  BY DEF SlotsInit, NewPool, EndsApart, OneTaskPerName, NamesInUse

\* What a turn gives is free, and nothing twice.
LEMMA TurnApart == EndsApart /\ Turn => EndsApart'
  <1> SUFFICES ASSUME EndsApart, Turn PROVE EndsApart'
    OBVIOUS
  <1>1. PICK names \in {pool.names, Slots(file)} :
          LET free == ToSet(names) \ Taken
              count == IF Len(pool.pending) < Cardinality(free) THEN Len(pool.pending)
                       ELSE Cardinality(free)
          IN \E given \in Injection(1..count, free) :
               pool' = [names |-> names,
                        used |-> Taken \union Range(given),
                        pending |-> SubSeq(pool.pending, count + 1, Len(pool.pending)),
                        running |-> pool.running
                          \union {[job |-> pool.pending[n], name |-> given[n]] : n \in 1..count},
                        done |-> {}]
    BY DEF Turn
  <1> DEFINE free == ToSet(names) \ Taken
             count == IF Len(pool.pending) < Cardinality(free) THEN Len(pool.pending)
                      ELSE Cardinality(free)
             rest == SubSeq(pool.pending, count + 1, Len(pool.pending))
  <1>2. PICK given \in Injection(1..count, free) :
          pool' = [names |-> names, used |-> Taken \union Range(given), pending |-> rest,
                   running |-> pool.running
                     \union {[job |-> pool.pending[n], name |-> given[n]] : n \in 1..count},
                   done |-> {}]
    BY <1>1
  <1> HIDE DEF count, free, rest
  <1> DEFINE new == {[job |-> pool.pending[n], name |-> given[n]] : n \in 1..count}
  <1>3. pool'.running = pool.running \union new /\ pool'.done = {}
        /\ pool'.used = Taken \union Range(given)
    BY <1>2
  <1>4. given \in [1..count -> free] /\ \A m, n \in 1..count : given[m] = given[n] => m = n
    BY <1>2 DEF Injection, IsInjective
  <1>5. Taken = NamesInUse
    BY DEF Taken, NamesInUse, EndsApart, OneTaskPerName
  <1>6. \A n \in 1..count : given[n] \notin NamesInUse
    BY <1>4, <1>5 DEF free
  <1>7. \A t \in new : \E n \in 1..count : t = [job |-> pool.pending[n], name |-> given[n]]
    OBVIOUS
  <1>8. \A t \in new : t = [job |-> t.job, name |-> t.name] /\ t.name \notin NamesInUse
    BY <1>6, <1>7
  <1>9. ASSUME NEW t \in pool'.running, NEW u \in pool'.running, t.name = u.name PROVE t = u
    <2>1. CASE t \in pool.running /\ u \in pool.running
      BY <2>1, <1>9 DEF EndsApart, OneTaskPerName
    <2>2. CASE t \in new /\ u \in new
      BY <2>2, <1>4, <1>7, <1>9
    <2>3. CASE (t \in pool.running /\ u \in new) \/ (t \in new /\ u \in pool.running)
      BY <2>3, <1>8, <1>9 DEF NamesInUse
    <2> QED BY <1>3, <2>1, <2>2, <2>3
  <1>10. Range(given) = {t.name : t \in new}
    <2>1. Range(given) = {given[n] : n \in 1..count}
      BY <1>4 DEF Range
    <2>2. \A n \in 1..count : [job |-> pool.pending[n], name |-> given[n]].name = given[n]
      OBVIOUS
    <2>3. \A n \in 1..count : given[n] \in {t.name : t \in new}
      BY <2>2
    <2>4. \A t \in new : t.name \in Range(given)
      BY <1>7, <2>1, <2>2
    <2> HIDE DEF new
    <2> QED BY <2>1, <2>3, <2>4
  <1>11. NamesInUse' = NamesInUse \union {t.name : t \in new}
    BY <1>3 DEF NamesInUse
  <1>12. OneTaskPerName'
    BY <1>3, <1>5, <1>9, <1>10, <1>11 DEF OneTaskPerName, NamesInUse
  <1> QED BY <1>3, <1>8, <1>12 DEF EndsApart

\* A task that ends gives its name back, and no other has it.
LEMMA EndApart == EndsApart /\ (\E t \in Tasks : TaskEnds(t)) => EndsApart'
  <1> SUFFICES ASSUME EndsApart, NEW t \in Tasks, TaskEnds(t) PROVE EndsApart'
    OBVIOUS
  <1>1. CASE pool' = pool
    BY <1>1 DEF EndsApart, OneTaskPerName, NamesInUse
  <1>2. CASE t \in pool.running
             /\ pool' = [pool EXCEPT !.running = @ \ {t}, !.done = @ \union {t.name}]
    <2>1. pool'.running = pool.running \ {t} /\ pool'.done = pool.done \union {t.name}
          /\ pool'.used = pool.used
      BY <1>2
    <2>2. NamesInUse' = NamesInUse \ {t.name}
      BY <1>2, <2>1 DEF NamesInUse, EndsApart, OneTaskPerName
    <2> QED BY <1>2, <2>1, <2>2 DEF EndsApart, OneTaskPerName, NamesInUse
  <1> QED BY <1>1, <1>2 DEF TaskEnds

\* Whatever the commands did to the list, and however often the pool was started
\* again, no two tasks of a pool have one name, and a name is taken exactly while its
\* task runs or its end is on its way (downloadworker.rs, util.rs).
THEOREM OneNameEach == SlotsSpec => []OneTaskPerName
  <1>1. EndsApart /\ [SlotsNext]_slotVars => EndsApart'
    <2> SUFFICES ASSUME EndsApart, [SlotsNext]_slotVars PROVE EndsApart'
      OBVIOUS
    <2>1. CASE UNCHANGED pool
      BY <2>1 DEF EndsApart, OneTaskPerName, NamesInUse
    <2>2. ASSUME NEW j \in Jobs, Send(j) PROVE EndsApart'
      BY <2>2 DEF Send, EndsApart, OneTaskPerName, NamesInUse
    <2>3. CASE Turn
      BY <2>3, TurnApart
    <2>4. CASE Reboot
      BY <2>4 DEF Reboot, NewPool, EndsApart, OneTaskPerName, NamesInUse
    <2>5. CASE \E t \in Tasks : TaskEnds(t)
      BY <2>5, EndApart
    <2> QED BY <2>1, <2>2, <2>3, <2>4, <2>5
      DEF SlotsNext, slotVars, Ask, Load, Cut, Write
  <1>2. EndsApart => OneTaskPerName
    BY DEF EndsApart
  <1> QED BY InitApart, <1>1, <1>2, PTL DEF SlotsSpec
=============================================================================
