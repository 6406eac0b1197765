------------------------------ MODULE KeyVault ------------------------------
(***************************************************************************)
(* The key vault: /keyvault prepare keeps an encrypted copy of every       *)
(* credential source, /keyvault confirm removes the legacy credentials     *)
(* from the files that still hold them (helpers/handlers/keyvault.rs).     *)
(*                                                                         *)
(* A file is a record: "legacy", the version of the values the purge       *)
(* removes, 0 when there are none; and "rest", the version of everything   *)
(* else in it.  A file of Deleted holds nothing but legacy values and is   *)
(* removed by the purge; the other files are rewritten, by a rename of a   *)
(* staged replacement.  A fingerprint is a hash, taken here to be the      *)
(* value it is the hash of.                                                *)
(***************************************************************************)
EXTENDS Naturals, FiniteSets

CONSTANTS
  VaultFiles,      \* the credential sources the collection finds
  Deleted,         \* those that the purge removes whole
  MaxIds,          \* bound: calls of prepare that get as far as a backup id
  MaxTouches,      \* bound: edits of a file by the other commands
  MaxVaultFaults,  \* bound: file system errors
  MaxCrashes       \* bound: ends of the process

VARIABLES
  disk,     \* the files
  copies,   \* the encrypted copies that are retained and intact, by backup id
  pending,  \* pending.json: at most one prepared purge
  command,  \* the vault command that holds keyvault_lock
  staged,   \* the temporary files beside the files they will replace
  purged,   \* history: the <<file, version>> pairs the purge has removed
  touched,  \* history: the last version of "rest" the other commands wrote
  late,     \* history: what they wrote when no comparison was to come any more
  budget    \* what is left of the bounds

vaultVars == <<disk, copies, pending, command, staged, purged, touched, late, budget>>

NoPurge == [id |-> 0]
NoCommand == [step |-> "none"]
Contents == [legacy: 0..MaxTouches + 1, rest: 0..MaxTouches + 1]

Spend(what) == budget[what] > 0 /\ budget' = [budget EXCEPT ![what] = @ - 1]
Holding(step) == command.step = step
Refused == command' = NoCommand /\ UNCHANGED <<disk, copies, pending, staged, purged, touched, late>>

(***************************************************************************)
(* Reading                                                                 *)
(***************************************************************************)
\* The copy of every source, with the bytes it has now.
Collected == disk

\* What the purge would touch: the files with a legacy value, as they are.
PurgePlan ==
  [f \in {g \in VaultFiles : disk[g].legacy > 0} |-> disk[f]]

\* A file without its legacy values.
Scrubbed(content) == [content EXCEPT !.legacy = 0]

\* The backup holds each target with exactly the bytes of the plan.
BackedUp(plan, sources) == \A f \in DOMAIN plan : sources[f] = plan[f]

(***************************************************************************)
(* /keyvault prepare                                                       *)
(***************************************************************************)
\* Under the lock, an id and the plan; a failed read ends the command.
PreparePlan ==
  /\ Holding("none")
  /\ Spend("ids")
  /\ command' = [step |-> "planned", id |-> MaxIds - budget.ids + 1, plan |-> PurgePlan]
  /\ UNCHANGED <<disk, copies, pending, staged, purged, touched, late>>

\* The sources are read, compared with the plan, packed, encrypted, and the
\* encrypted copy is written, or any of this fails.
PrepareBackup ==
  /\ Holding("planned")
  /\ \/ /\ BackedUp(command.plan, Collected)
        /\ copies' = [i \in DOMAIN copies \union {command.id} |->
                        IF i = command.id THEN Collected ELSE copies[i]]
        /\ command' = [step |-> "copied", id |-> command.id, plan |-> command.plan,
                       sources |-> Collected]
        /\ UNCHANGED <<disk, pending, staged, purged, touched, late, budget>>
     \/ ~BackedUp(command.plan, Collected) /\ Refused /\ UNCHANGED budget
     \/ Spend("faults") /\ Refused

PendingOf(id, plan, sources) ==
  [id |-> id, plan |-> plan, sources |-> sources, expired |-> FALSE]

\* pending.json is replaced; when that fails the copy stays and the earlier
\* pending purge too.
PreparePending ==
  /\ Holding("copied")
  /\ \/ /\ pending' = PendingOf(command.id, command.plan, command.sources)
        /\ UNCHANGED budget
     \/ Spend("faults") /\ UNCHANGED pending
  /\ command' = NoCommand
  /\ UNCHANGED <<disk, copies, staged, purged, touched, late>>

(***************************************************************************)
(* /keyvault confirm                                                       *)
(***************************************************************************)
\* The id and the proof are those of pending.json, the hour is not over, the
\* copy is there and intact, and no source has changed.
ConfirmSources ==
  /\ Holding("none")
  /\ pending # NoPurge
  /\ ~pending.expired
  /\ pending.id \in DOMAIN copies
  /\ Collected = pending.sources
  /\ command' = [step |-> "confirmed"]
  /\ UNCHANGED <<disk, copies, pending, staged, purged, touched, late, budget>>

\* A mutant: the comparison of the sources is thought to be enough.
PlanUnchangedAssumed == TRUE
PlanUnchanged == PurgePlan = pending.plan

\* The plan is made again and must be the one that was prepared.
ConfirmPlan ==
  /\ Holding("confirmed")
  /\ \/ /\ PlanUnchanged
        /\ command' = [step |-> "staging", plan |-> PurgePlan]
        /\ UNCHANGED <<disk, copies, pending, staged, purged, touched, late, budget>>
     \/ ~PlanUnchanged /\ Refused /\ UNCHANGED budget

Writes(plan) == DOMAIN plan \ Deleted
Deletes(plan) == DOMAIN plan \intersect Deleted

\* The purge reports errors: what is staged is removed, and pending.json is
\* about to be brought up to date for a retry.
Abandon ==
  /\ command' = [step |-> "failed"]
  /\ staged' = NoPurge

\* Every replacement is written beside its file.
Stage ==
  /\ Holding("staging")
  /\ \/ /\ staged' = [f \in Writes(command.plan) |-> Scrubbed(command.plan[f])]
        /\ command' = [command EXCEPT !.step = "comparing"]
        /\ UNCHANGED budget
     \/ Spend("faults") /\ Abandon
  /\ UNCHANGED <<disk, copies, pending, purged, touched, late>>

\* A mutant: the targets are not read again.
TargetsUnchangedAssumed == TRUE
TargetsUnchanged == \A f \in DOMAIN command.plan : disk[f] = command.plan[f]

\* Every target can be read and still has the bytes of the plan, or nothing is
\* replaced.
Compare ==
  /\ Holding("comparing")
  /\ \/ /\ TargetsUnchanged
        /\ command' = [step |-> "replacing", plan |-> command.plan,
                       left |-> DOMAIN command.plan, errors |-> FALSE]
        /\ UNCHANGED <<staged, budget>>
     \/ /\ ~TargetsUnchanged
        /\ Abandon
        /\ UNCHANGED budget
     \/ Spend("faults") /\ Abandon
  /\ UNCHANGED <<disk, copies, pending, purged, touched, late>>

Removed(f) == IF disk[f].legacy > 0 THEN {<<f, disk[f].legacy>>} ELSE {}

\* One replacement is renamed over its file; the first that fails ends the
\* renames, and nothing is deleted then.
Replace(f) ==
  /\ Holding("replacing")
  /\ f \in command.left \intersect Writes(command.plan)
  /\ \/ /\ disk' = [disk EXCEPT ![f] = staged[f]]
        /\ purged' = purged \union Removed(f)
        /\ command' = [command EXCEPT !.left = @ \ {f}]
        /\ UNCHANGED <<staged, budget>>
     \/ Spend("faults") /\ Abandon /\ UNCHANGED <<disk, purged>>
  /\ UNCHANGED <<copies, pending, touched, late>>

\* After the renames, one legacy file is deleted; an error is noted and the
\* next one is tried.
Delete(f) ==
  /\ Holding("replacing")
  /\ command.left \intersect Writes(command.plan) = {}
  /\ f \in command.left \intersect Deletes(command.plan)
  /\ \/ /\ disk' = [disk EXCEPT ![f].legacy = 0]
        /\ purged' = purged \union Removed(f)
        /\ command' = [command EXCEPT !.left = @ \ {f}]
        /\ UNCHANGED budget
     \/ /\ Spend("faults")
        /\ command' = [command EXCEPT !.left = @ \ {f}, !.errors = TRUE]
        /\ UNCHANGED <<disk, purged>>
  /\ UNCHANGED <<copies, pending, staged, touched, late>>

\* Without errors pending.json is removed, or that fails and is only noted.
Finish ==
  /\ Holding("replacing")
  /\ command.left = {}
  /\ staged' = NoPurge
  /\ IF command.errors
       THEN command' = [step |-> "failed"] /\ UNCHANGED <<pending, budget>>
       ELSE /\ command' = NoCommand
            /\ \/ pending' = NoPurge /\ UNCHANGED budget
               \/ Spend("faults") /\ UNCHANGED pending
  /\ UNCHANGED <<disk, copies, purged, touched, late>>

\* What pending.json becomes after a purge with errors: the plan and the
\* sources of this moment, and another hour.
Refreshed(plan, sources) == PendingOf(pending.id, plan, sources)

\* The plan is read again.
RefreshPlan ==
  /\ Holding("failed")
  /\ command' = [step |-> "refreshing", plan |-> PurgePlan]
  /\ UNCHANGED <<disk, copies, pending, staged, purged, touched, late, budget>>

\* The sources are read again and pending.json is written, which may fail.
Refresh ==
  /\ Holding("refreshing")
  /\ \/ pending' = Refreshed(command.plan, Collected) /\ UNCHANGED budget
     \/ Spend("faults") /\ UNCHANGED pending
  /\ command' = NoCommand
  /\ UNCHANGED <<disk, copies, staged, purged, touched, late>>

(***************************************************************************)
(* The environment                                                         *)
(***************************************************************************)
\* Nothing that confirm or its retry compares would show a legacy value that is
\* written now: a changed target ends the purge with an error, and the refresh
\* takes the change over.  Nor would anything show a change of a file between the
\* last reading and its rename.
LegacyUnseen == command.step \in {"staging", "comparing", "replacing", "failed"}
RestUnseen(f) == Holding("replacing") /\ f \in command.left

\* Another command of the process writes a credential: it takes no lock.
Touch(f) ==
  /\ Spend("touches")
  /\ LET version == MaxTouches - budget.touches + 2
         Note(unseen) == late' = IF unseen THEN late \union {<<f, version>>} ELSE late
     IN \/ /\ disk' = [disk EXCEPT ![f].legacy = version]
           /\ Note(LegacyUnseen)
           /\ UNCHANGED touched
        \/ /\ f \notin Deleted
           /\ disk' = [disk EXCEPT ![f].rest = version]
           /\ Note(RestUnseen(f))
           /\ touched' = [touched EXCEPT ![f] = version]
  /\ UNCHANGED <<copies, pending, command, staged, purged>>

\* The hour passes.
Expire ==
  /\ pending # NoPurge
  /\ ~pending.expired
  /\ Holding("none")
  /\ pending' = [pending EXCEPT !.expired = TRUE]
  /\ UNCHANGED <<disk, copies, command, staged, purged, touched, late, budget>>

\* The process ends in the middle of a command; its files stay.
Crash ==
  /\ ~Holding("none")
  /\ Spend("crashes")
  /\ command' = NoCommand
  /\ UNCHANGED <<disk, copies, pending, staged, purged, touched, late>>

VaultInit ==
  /\ disk = [f \in VaultFiles |-> [legacy |-> 1, rest |-> 1]]
  /\ copies = [i \in {} |-> disk]
  /\ pending = NoPurge
  /\ command = NoCommand
  /\ staged = NoPurge
  /\ purged = {}
  /\ touched = [f \in VaultFiles |-> 1]
  /\ late = {}
  /\ budget = [ids |-> MaxIds, touches |-> MaxTouches,
               faults |-> MaxVaultFaults, crashes |-> MaxCrashes]

VaultCommand ==
  \/ PreparePlan \/ PrepareBackup \/ PreparePending
  \/ ConfirmSources \/ ConfirmPlan \/ Stage \/ Compare
  \/ \E f \in VaultFiles : Replace(f) \/ Delete(f)
  \/ Finish \/ RefreshPlan \/ Refresh

VaultNext == VaultCommand \/ Expire \/ Crash \/ \E f \in VaultFiles : Touch(f)

VaultSpec == VaultInit /\ [][VaultNext]_vaultVars

-----------------------------------------------------------------------------
VaultTypeOK ==
  /\ disk \in [VaultFiles -> Contents]
  /\ \A i \in DOMAIN copies : copies[i] \in [VaultFiles -> Contents]
  /\ pending.id \in 0..MaxIds
  /\ purged \subseteq VaultFiles \X Nat
  /\ touched \in [VaultFiles -> 0..MaxTouches + 1]
  /\ late \subseteq VaultFiles \X Nat

\* A legacy value that the purge has removed is in an encrypted copy, also when
\* files were edited since prepare, a step failed, the process ended, or the
\* confirmation was repeated after an error; except for a value that was written
\* between the comparison with what was prepared and the refresh.
PurgedIsBackedUp ==
  \A gone \in purged :
    gone \in late \/ \E i \in DOMAIN copies : copies[i][gone[1]].legacy = gone[2]

\* What another command wrote beside the legacy values is still there when the
\* replacement, made before, has taken the file's place; except for what was
\* written after the file was read for the last time.
PurgeKeepsTheRest ==
  \A f \in VaultFiles \ Deleted : disk[f].rest = touched[f] \/ <<f, touched[f]>> \in late

\* A confirmation that goes on to the purge has its values in a copy: "Refusing to
\* purge unbacked data" (keyvault.rs:563).
PlanIsBackedUp ==
  Holding("staging") =>
    \A f \in DOMAIN command.plan :
      \E i \in DOMAIN copies : copies[i][f].legacy = command.plan[f].legacy
=============================================================================
