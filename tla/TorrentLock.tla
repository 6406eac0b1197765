----------------------------- MODULE TorrentLock -----------------------------
(***************************************************************************)
(* The lock file by which the pnp2p processes on one machine agree that a  *)
(* torrent has one downloader (lib/p2p/core.rs).  A process creates the    *)
(* file, writes its name into it, downloads, and removes the file if it    *)
(* still has its name; a process that finds the file decides whether its   *)
(* owner is gone, and then removes it and tries once more.                 *)
(*                                                                         *)
(* The parent kills a pnp2p as soon as it has read its last line           *)
(* (pnworker/util.rs), so a process may be gone with its file left behind  *)
(* at every step, and usually is at the last one.                          *)
(***************************************************************************)
EXTENDS Naturals, FiniteSets, FiniteSetTheorems, TLAPS

CONSTANTS
  Processes,    \* the pnp2p processes started for the torrent
  MaxKills,     \* bound: processes killed
  MaxDays,      \* bound: times the file gets older than a day
  MaxStarts     \* bound: starts of pndc, which clear the lock directory

VARIABLES
  file,         \* the lock file, if there is one: who made it, whether it has a name, its age
  at,           \* what each process does next
  tries,        \* how often it has tried to create the file
  saw,          \* whose file it has read, before it does something about it
  lost,         \* history: the processes whose file somebody took away unseen
  bounds        \* the kills, days and starts there have been

lockVars == <<file, at, tries, saw, lost, bounds>>

Steps == {"start", "open", "write", "judge", "remove", "refuse", "download", "drop", "unlink",
          "ended", "killed"}
LockFile == [by : Processes, named : BOOLEAN, old : BOOLEAN]

Gone(p) == at[p] \in {"ended", "killed"}
Go(p, step) == at' = [at EXCEPT ![p] = step]

\* Variant for the checks: a file without a name is taken to be abandoned.
StaleUnnamed(f) == f.old \/ ~f.named \/ Gone(f.by)

\* A file is stale after a day, or when it names a process that does not run.
\* A file without a name yet is nobody's, and not stale.
Stale(f) == f.old \/ (f.named /\ Gone(f.by))

----------------------------------------------------------------------------

LockInit ==
  /\ file = {}
  /\ at = [p \in Processes |-> "start"]
  /\ tries = [p \in Processes |-> 0]
  /\ saw = [p \in Processes |-> {}]
  /\ lost = {}
  /\ bounds = [kills |-> 0, days |-> 0, starts |-> 0]

Start(p) ==
  /\ at[p] = "start"
  /\ Go(p, "open")
  /\ UNCHANGED <<file, tries, saw, lost, bounds>>

\* create_new: the file is made, empty, if there is none; two rounds at most.
Open(p) ==
  /\ at[p] = "open"
  /\ IF tries[p] = 2 THEN Go(p, "ended") /\ UNCHANGED <<file, tries>>
     ELSE /\ tries' = [tries EXCEPT ![p] = @ + 1]
          /\ IF file = {} THEN file' = {[by |-> p, named |-> FALSE, old |-> FALSE]} /\ Go(p, "write")
             ELSE Go(p, "judge") /\ UNCHANGED file
  /\ UNCHANGED <<saw, lost, bounds>>

\* The name goes into the file this process made, which may be unlinked by now.
\* A write that fails ends the process and leaves the file without a name.
Write(p) ==
  /\ at[p] = "write"
  /\ \/ file' = {IF f.by = p THEN [f EXCEPT !.named = TRUE] ELSE f : f \in file} /\ Go(p, "download")
     \/ Go(p, "ended") /\ UNCHANGED file
  /\ UNCHANGED <<tries, saw, lost, bounds>>

\* The file is looked at, and only then removed or reported.
Judge(p) ==
  /\ at[p] = "judge"
  /\ Go(p, IF \E f \in file : Stale(f) THEN "remove" ELSE "refuse")
  /\ saw' = [saw EXCEPT ![p] = {f.by : f \in file}]
  /\ UNCHANGED <<file, tries, lost, bounds>>

\* The file is removed by its path, whichever file is there now.  An owner that
\* works loses its lock when the file was not the one that was read, or old.
RemoveFile(p) ==
  /\ file' = {}
  /\ lost' = lost \union {f.by : f \in {g \in file : g.old \/ g.by \notin saw[p]}}

Remove(p) ==
  /\ at[p] = "remove"
  /\ RemoveFile(p)
  /\ Go(p, "open")
  /\ UNCHANGED <<tries, saw, bounds>>

\* DUPLICATE_TORRENT with whatever directory the file now names.
Refuse(p) ==
  /\ at[p] = "refuse"
  /\ Go(p, "ended")
  /\ UNCHANGED <<file, tries, saw, lost, bounds>>

\* A download ends in success, cancellation or an error, or panics when it prints
\* to a pndc that is gone; the lock is then dropped.
Download(p) ==
  /\ at[p] = "download"
  /\ Go(p, "drop")
  /\ UNCHANGED <<file, tries, saw, lost, bounds>>

\* Dropping reads the name first and removes the file only if it is its own.
Drop(p) ==
  /\ at[p] = "drop"
  /\ IF \E f \in file : f.named /\ f.by = p
       THEN saw' = [saw EXCEPT ![p] = {p}] /\ Go(p, "unlink")
       ELSE Go(p, "ended") /\ UNCHANGED saw
  /\ UNCHANGED <<file, tries, lost, bounds>>

Unlink(p) ==
  /\ at[p] = "unlink"
  /\ RemoveFile(p)
  /\ Go(p, "ended")
  /\ UNCHANGED <<tries, saw, bounds>>

----------------------------------------------------------------------------

Kill(p) ==
  /\ ~Gone(p) /\ at[p] # "start" /\ bounds.kills < MaxKills
  /\ Go(p, "killed")
  /\ bounds' = [bounds EXCEPT !.kills = @ + 1]
  /\ UNCHANGED <<file, tries, saw, lost>>

\* The file's time is never refreshed, however long the download takes.
Day ==
  /\ file # {} /\ bounds.days < MaxDays
  /\ file' = {[f EXCEPT !.old = TRUE] : f \in file}
  /\ bounds' = [bounds EXCEPT !.days = @ + 1]
  /\ UNCHANGED <<at, tries, saw, lost>>

\* pndc starts and clears every lock.  The tools of the one before are not ended
\* by this: each goes on until it next prints.
Restart ==
  /\ bounds.starts < MaxStarts
  /\ file' = {}
  /\ lost' = lost \union {f.by : f \in file}
  /\ bounds' = [bounds EXCEPT !.starts = @ + 1]
  /\ UNCHANGED <<at, tries, saw>>

LockNext ==
  \/ \E p \in Processes :
       \/ Start(p) \/ Open(p) \/ Write(p) \/ Judge(p) \/ Remove(p)
       \/ Refuse(p) \/ Download(p) \/ Drop(p) \/ Unlink(p) \/ Kill(p)
  \/ Day
  \/ Restart

LockSpec == LockInit /\ [][LockNext]_lockVars

----------------------------------------------------------------------------

LockTypeOK ==
  /\ file \subseteq LockFile /\ Cardinality(file) <= 1
  /\ at \in [Processes -> Steps]
  /\ tries \in [Processes -> 0 .. 2]
  /\ saw \in [Processes -> SUBSET Processes]
  /\ lost \subseteq Processes

\* One process at a time downloads the torrent, of those that have kept the file
\* they made: whoever finds a file that is being made, or whose owner works, leaves
\* it.  A file is taken from an owner that works when it is a day old, when it was
\* made between another's look at an earlier one and the removal, and when pndc
\* starts.
OneDownloader == Cardinality({p \in Processes : at[p] = "download"} \ lost) <= 1
----------------------------------------------------------------------------
(***************************************************************************)
(* With any number of processes, kills, days and starts of pndc, the lock  *)
(* admits one downloader of those that have kept their file.               *)
(*                                                                         *)
(* A process between the creation of the file and its removal that has not *)
(* lost it owns the file there is, which has its name as soon as it may    *)
(* download.  Who is about to remove a file has read one whose owner is    *)
(* gone, or an old one; an owner makes one file only, so if that owner's   *)
(* is still there, it is the file that was read.                           *)
(***************************************************************************)
\* The process has come by the creation of a file.
Made(p) == at[p] \in {"write", "download", "drop", "unlink", "ended", "killed"}

LockKept ==
  /\ at \in [Processes -> Steps]
  /\ file \subseteq LockFile
  /\ \A f, g \in file : f = g
  /\ \A f \in file : Made(f.by)
  /\ saw \in [Processes -> SUBSET Processes]
  /\ \A p \in Processes \ lost :
       /\ at[p] = "write" => \E f \in file : f.by = p
       /\ at[p] \in {"download", "drop", "unlink"} => \E f \in file : f.by = p /\ f.named
  /\ \A p \in Processes :
       /\ at[p] = "unlink" => saw[p] = {p}
       /\ at[p] = "remove" =>
            \A q \in saw[p] : Made(q) /\ \A f \in file : f.by = q => f.old \/ Gone(q)

\* It holds while nobody has started.
LEMMA LockStarts ==
  ASSUME LockInit
  PROVE  LockKept
BY DEF LockInit, LockKept, Steps, LockFile

\* A name in a file, or a day more, changes nothing else of it.
LEMMA SameOwner ==
  ASSUME NEW f \in LockFile
  PROVE  /\ [f EXCEPT !.named = TRUE] \in LockFile
         /\ [f EXCEPT !.named = TRUE].by = f.by /\ [f EXCEPT !.named = TRUE].named
         /\ [f EXCEPT !.named = TRUE].old = f.old
         /\ [f EXCEPT !.old = TRUE] \in LockFile
         /\ [f EXCEPT !.old = TRUE].by = f.by /\ [f EXCEPT !.old = TRUE].named = f.named
         /\ [f EXCEPT !.old = TRUE].old
BY DEF LockFile

\* Removing the file takes a lock only from those that are then in "lost".
LEMMA RemovalKeeps ==
  ASSUME LockKept, NEW p \in Processes, at[p] \in {"remove", "unlink"}, RemoveFile(p),
         NEW q \in Processes, q \notin lost', q # p
  PROVE  at[q] \notin {"write", "download", "drop", "unlink"}
<1>1. q \notin lost
  BY DEF RemoveFile
<1>2. SUFFICES ASSUME NEW f \in file, f.by = q
               PROVE  Gone(q)
  BY <1>1 DEF LockKept, Gone
<1>3. ~f.old /\ f.by \in saw[p]
  BY <1>2 DEF RemoveFile
<1> QED
  BY <1>2, <1>3 DEF LockKept

\* Every step keeps it.
LEMMA LockSteps ==
  ASSUME LockKept, [LockNext]_lockVars
  PROVE  LockKept'
<1>1. CASE UNCHANGED lockVars
  BY <1>1 DEF lockVars, LockFile, LockKept, Made, Gone
<1>2. ASSUME NEW p \in Processes, Start(p)
      PROVE  LockKept'
  BY <1>2 DEF Start, Go, Steps, LockFile, LockKept, Made, Gone
<1>3. ASSUME NEW p \in Processes, Open(p)
      PROVE  LockKept'
  <2>1. CASE tries[p] = 2
    BY <1>3, <2>1 DEF Open, Go, Steps, LockFile, LockKept, Made, Gone
  <2>2. CASE tries[p] # 2 /\ file # {}
    BY <1>3, <2>2 DEF Open, Go, Steps, LockFile, LockKept, Made, Gone
  <2>3. CASE tries[p] # 2 /\ file = {}
    <3> DEFINE new == [by |-> p, named |-> FALSE, old |-> FALSE]
    <3>1. /\ file' = {new} /\ at' = [at EXCEPT ![p] = "write"] /\ UNCHANGED <<saw, lost>>
          /\ at[p] = "open"
      BY <1>3, <2>3 DEF Open, Go
    <3>2. new \in LockFile /\ new.by = p
      BY DEF LockFile
    <3> HIDE DEF new
    <3>3. \A q \in Processes : Made(q) => q # p
      BY <3>1 DEF Made
    <3> QED
      BY <2>3, <3>1, <3>2, <3>3 DEF Steps, LockKept, Made, Gone
  <2> QED
    BY <2>1, <2>2, <2>3
<1>4. ASSUME NEW p \in Processes, Write(p)
      PROVE  LockKept'
  <2>1. CASE at' = [at EXCEPT ![p] = "ended"] /\ UNCHANGED file
    BY <1>4, <2>1 DEF Write, Steps, LockFile, LockKept, Made, Gone
  <2>2. CASE /\ file' = {IF f.by = p THEN [f EXCEPT !.named = TRUE] ELSE f : f \in file}
             /\ at' = [at EXCEPT ![p] = "download"]
    <3> DEFINE signed(f) == IF f.by = p THEN [f EXCEPT !.named = TRUE] ELSE f
    <3>s. ASSUME NEW f \in file
          PROVE  /\ signed(f) \in LockFile /\ signed(f).by = f.by /\ signed(f).old = f.old
                 /\ f.named \/ f.by = p => signed(f).named
      BY SameOwner DEF LockKept
    <3>f. file' = {signed(f) : f \in file}
      BY <2>2
    <3> HIDE DEF signed
    <3>1. file' \subseteq LockFile /\ (\A f, g \in file' : f = g)
      BY <3>s, <3>f DEF LockKept
    <3>2. /\ \A f \in file' : \E g \in file : f.by = g.by /\ f.old = g.old
          /\ \A g \in file : \E f \in file' : f.by = g.by /\ (g.named \/ g.by = p => f.named)
      BY <3>s, <3>f
    <3>3. /\ at' \in [Processes -> Steps] /\ UNCHANGED <<saw, lost>>
          /\ at[p] = "write" /\ at'[p] = "download"
          /\ \A q \in Processes : q # p => at'[q] = at[q]
      BY <1>4, <2>2 DEF Write, Steps, LockKept
    <3>4. \A q \in Processes : (Made(q) => Made(q)') /\ (Gone(q) => Gone(q)')
      BY <3>3 DEF Made, Gone
    <3> QED
      BY <3>1, <3>2, <3>3, <3>4 DEF LockKept, LockFile
  <2> QED
    BY <1>4, <2>1, <2>2 DEF Write, Go
<1>5. ASSUME NEW p \in Processes, Judge(p)
      PROVE  LockKept'
  <2>1. /\ UNCHANGED <<file, lost>> /\ at[p] = "judge"
        /\ at' \in [Processes -> Steps] /\ at'[p] \in {"remove", "refuse"}
        /\ \A q \in Processes : q # p => at'[q] = at[q] /\ saw'[q] = saw[q]
        /\ saw' \in [Processes -> SUBSET Processes] /\ saw'[p] = {f.by : f \in file}
        /\ at'[p] = "remove" => \E f \in file : Stale(f)
    BY <1>5 DEF Judge, Go, Steps, LockFile, LockKept
  <2>2. \A q \in Processes : (Made(q) => Made(q)') /\ (Gone(q) <=> Gone(q)')
    BY <2>1 DEF Made, Gone
  <2>3. at'[p] = "remove" =>
          \A q \in saw'[p] : Made(q)' /\ \A f \in file' : f.by = q => f.old \/ Gone(q)'
    BY <2>1, <2>2 DEF LockKept, Stale, LockFile
  <2> QED
    BY <2>1, <2>2, <2>3 DEF LockKept, LockFile
<1>6. ASSUME NEW p \in Processes, Remove(p)
      PROVE  LockKept'
  <2>1. /\ file' = {} /\ UNCHANGED saw /\ at[p] = "remove" /\ RemoveFile(p)
        /\ at' \in [Processes -> Steps] /\ at'[p] = "open"
        /\ \A q \in Processes : q # p => at'[q] = at[q]
    BY <1>6 DEF Remove, RemoveFile, Go, Steps, LockKept
  <2>2. \A q \in Processes : Made(q) => Made(q)'
    BY <2>1 DEF Made
  <2> QED
    BY <2>1, <2>2, RemovalKeeps DEF LockKept
<1>7. ASSUME NEW p \in Processes, Refuse(p)
      PROVE  LockKept'
  BY <1>7 DEF Refuse, Go, Steps, LockFile, LockKept, Made, Gone
<1>8. ASSUME NEW p \in Processes, Download(p)
      PROVE  LockKept'
  BY <1>8 DEF Download, Go, Steps, LockFile, LockKept, Made, Gone
<1>9. ASSUME NEW p \in Processes, Drop(p)
      PROVE  LockKept'
  BY <1>9 DEF Drop, Go, Steps, LockFile, LockKept, Made, Gone
<1>10. ASSUME NEW p \in Processes, Unlink(p)
       PROVE  LockKept'
  <2>1. /\ file' = {} /\ UNCHANGED saw /\ at[p] = "unlink" /\ RemoveFile(p)
        /\ at' \in [Processes -> Steps] /\ at'[p] = "ended"
        /\ \A q \in Processes : q # p => at'[q] = at[q]
    BY <1>10 DEF Unlink, RemoveFile, Go, Steps, LockKept
  <2>2. \A q \in Processes : Made(q) => Made(q)'
    BY <2>1 DEF Made
  <2> QED
    BY <2>1, <2>2, RemovalKeeps DEF LockKept
<1>11. ASSUME NEW p \in Processes, Kill(p)
       PROVE  LockKept'
  BY <1>11 DEF Kill, Go, Steps, LockFile, LockKept, Made, Gone
<1>12. ASSUME Day
       PROVE  LockKept'
  <2> DEFINE aged(f) == [f EXCEPT !.old = TRUE]
  <2>a. ASSUME NEW f \in file
        PROVE  aged(f) \in LockFile /\ aged(f).by = f.by /\ aged(f).named = f.named /\ aged(f).old
    BY SameOwner DEF LockKept
  <2>f. file' = {aged(f) : f \in file}
    BY <1>12 DEF Day
  <2> HIDE DEF aged
  <2>1. file' \subseteq LockFile /\ (\A f, g \in file' : f = g) /\ (\A f \in file' : f.old)
    BY <2>a, <2>f DEF LockKept
  <2>2. /\ \A f \in file' : \E g \in file : f.by = g.by
        /\ \A g \in file : \E f \in file' : f.by = g.by /\ (g.named => f.named)
    BY <2>a, <2>f
  <2> QED
    BY <1>12, <2>1, <2>2 DEF Day, LockKept, LockFile, Made, Gone
<1>13. ASSUME Restart
       PROVE  LockKept'
  BY <1>13 DEF Restart, LockKept, Made, Gone
<1> QED
  BY <1>1, <1>2, <1>3, <1>4, <1>5, <1>6, <1>7, <1>8, <1>9, <1>10, <1>11, <1>12, <1>13 DEF LockNext

\* Of the processes that have kept the file they made, one at a time downloads the
\* torrent, however many are started for it and killed, however old a file gets
\* and however often pndc starts (DownloadLock in lib/p2p/core.rs).
THEOREM LockAdmitsOne == LockSpec => []OneDownloader
<1>1. LockInit => LockKept
  BY LockStarts
<1>2. LockKept /\ [LockNext]_lockVars => LockKept'
  BY LockSteps
<1>3. LockKept => OneDownloader
  <2> SUFFICES ASSUME LockKept
               PROVE  OneDownloader
    OBVIOUS
  <2> DEFINE downloaders == {p \in Processes : at[p] = "download"} \ lost
  <2>1. \A p, q \in downloaders : p = q
    BY DEF LockKept
  <2>2. CASE downloaders = {}
    BY <2>2, FS_EmptySet DEF OneDownloader
  <2>3. CASE downloaders # {}
    <3>1. PICK p \in downloaders : TRUE
      BY <2>3
    <3>2. downloaders = {p}
      BY <2>1, <3>1
    <3>3. Cardinality(downloaders) = 1
      BY <3>2, FS_Singleton
    <3> QED
      BY <3>3 DEF OneDownloader
  <2> QED
    BY <2>2, <2>3
<1> QED
  BY <1>1, <1>2, <1>3, PTL DEF LockSpec
=============================================================================
