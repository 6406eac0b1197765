------------------------------- MODULE MCQueue -------------------------------
(***************************************************************************)
(* The safety of the queue, in one run over two populations: which of      *)
(* them is served is chosen in the initial state.                          *)
(***************************************************************************)
EXTENDS MCPopulations, Naturals

VARIABLES
  which,
  born, disk, pend, run, delivered, inbox, cur, epoch, ret,
  pc, pass, queue, job, db, kept, seenEpoch, sinceBatch, gitquery, backlog, nextId, cancels, reboots

mainVars == <<pc, pass, queue, job, db, kept, seenEpoch, sinceBatch, gitquery, backlog, nextId, cancels, reboots>>
queueVars == <<which, mainVars, born, disk, pend, run, delivered, inbox, cur, epoch, ret>>

\* Two encodes share an encoder that may fall silent; one may be cancelled, and
\* a git query may come.
Encodes == [jobs |-> KeptAndPlain, cap |-> 50, slots |-> 2, faults |-> {},
            cancels |-> 1, reboots |-> 1, git |-> TRUE]
\* Three jobs of one torrent in pools of one slot, with a full return channel.
Pools == [jobs |-> Pooled, cap |-> 2, slots |-> 1, faults |-> {"Probe", "Upload"},
          cancels |-> 1, reboots |-> 0, git |-> FALSE]
Populations == {Encodes, Pools}

MaxJobs == 3
Ids == 1..MaxJobs
Served(w) ==
  INSTANCE PnWorker WITH
    Submissions <- w.jobs, ReturnCap <- w.cap, Faults <- w.faults, MaxReboots <- w.reboots,
    Links <- MCLinks, Hashes <- MCHashes, NoHash <- "none", HashOf <- MCHashOf, Magnets <- {"m"},
    Looks <- {"x", "y"}, Files <- {1, 2}, InboxCap <- 5,
    Slots <- [p \in {"Download", "Upload", "Probe"} |-> w.slots], QueueLimit <- 4,
    MaxCancels <- w.cancels, GitQueries <- w.git

QueueInit == \E w \in Populations : which = w /\ Served(w)!Init
QueueNext == UNCHANGED which /\ \E w \in Populations : which = w /\ Served(w)!Next
QueueSpec == QueueInit /\ [][QueueNext]_queueVars

-----------------------------------------------------------------------------
\* A job is with one worker at a time (core.rs 2376: the epoch of a lease), and
\* the encoder and the pools work for jobs that are in the queue.  A probe may
\* leave while its worker still fetches, so the second population is left out of
\* the latter.
WorkersServeTheQueue ==
  /\ \E w \in Populations : which = w /\ Served(w)!OneWorkerPerJob
  /\ which = Encodes => Served(Encodes)!WorkersServeTheQueue
=============================================================================
