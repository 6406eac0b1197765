------------------------------- MODULE MCEnds -------------------------------
(***************************************************************************)
(* Six populations that must end, in one run: which of them is served is   *)
(* chosen in the initial state.                                            *)
(***************************************************************************)
EXTENDS MCPopulations, Naturals

VARIABLES
  which,
  born, disk, pend, run, delivered, inbox, cur, epoch, ret,
  pc, pass, queue, job, db, kept, seenEpoch, sinceBatch, gitquery, backlog, nextId, cancels, reboots

mainVars == <<pc, pass, queue, job, db, kept, seenEpoch, sinceBatch, gitquery, backlog, nextId, cancels, reboots>>
endsVars == <<which, mainVars, born, disk, pend, run, delivered, inbox, cur, epoch, ret>>

\* A batch with a child that cannot be built and a return channel of one place;
\* an output that is kept and the keycode that needs it, with failing tools and
\* a silent encoder; a kept backup and its keycode, which may have brought no
\* subtitle; an output that may not be stored; two jobs that meet at the lock of a
\* torrent; a render, which is not sent again after a reboot, and a preview.
Populations == {
  [jobs |-> JustBatch, cap |-> 1, faults |-> {"child"}, reboots |-> 0],
  [jobs |-> KeepAndUse, cap |-> 50, faults |-> {"Download", "Encode"}, reboots |-> 1],
  [jobs |-> BackupAndUse, cap |-> 50, faults |-> {}, reboots |-> 0],
  [jobs |-> JustKept, cap |-> 50, faults |-> {"store"}, reboots |-> 0],
  [jobs |-> SameTorrent, cap |-> 50, faults |-> {}, reboots |-> 0],
  [jobs |-> Studios, cap |-> 50, faults |-> {}, reboots |-> 2]}

MaxJobs == 3
Ids == 1..MaxJobs
Served(w) ==
  INSTANCE PnWorker WITH
    Submissions <- w.jobs, ReturnCap <- w.cap, Faults <- w.faults, MaxReboots <- w.reboots,
    Links <- MCLinks, Hashes <- MCHashes, NoHash <- "none", HashOf <- MCHashOf, Magnets <- {"m"},
    Looks <- {"x", "y"}, Files <- {1, 2}, InboxCap <- 5,
    Slots <- [p \in {"Download", "Upload", "Probe"} |-> 2], QueueLimit <- 4, MaxCancels <- 0,
    GitQueries <- FALSE

Serves(w) == which = w /\ UNCHANGED which

EndsInit == \E w \in Populations : which = w /\ Served(w)!Init
EndsNext == \E w \in Populations : Serves(w) /\ Served(w)!Next

\* The fairness of PnWorker.
EndsFairness ==
  /\ WF_endsVars(\E w \in Populations : Serves(w) /\ Served(w)!LoopStep)
  /\ \A p \in {"Download", "Upload", "Probe"} :
       WF_endsVars(\E w \in Populations : Serves(w) /\ Served(w)!PoolNext(p) /\ UNCHANGED mainVars)
  /\ WF_endsVars(\E w \in Populations : Serves(w) /\ Served(w)!EncoderNext /\ UNCHANGED mainVars)
  /\ \A i \in Ids :
       /\ SF_endsVars(\E w \in Populations : Serves(w) /\ Served(w)!ProbeTimeout(i))
       /\ SF_endsVars(\E w \in Populations :
                        Serves(w) /\ Served(w)!Abandoned(i) /\ Served(w)!EncodeStall({i}))

EndsSpec == EndsInit /\ [][EndsNext]_endsVars /\ EndsFairness

-----------------------------------------------------------------------------
\* Whatever fails, is dropped or is rebooted, a job leaves the queue.
EveryJobEnds == \A i \in Ids : i \in queue ~> i \notin queue
=============================================================================
