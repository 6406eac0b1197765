---------------------------- MODULE ServiceProofs ----------------------------
(***************************************************************************)
(* What the services promise, and why: the key vault loses nothing, a      *)
(* record says no more than the site has, and a keyword keeps what it was  *)
(* promised for.  The three share no state and no proof.                   *)
(***************************************************************************)
EXTENDS KeyVault, Publish, Keeps, Integers, FiniteSets, WellFoundedInduction, TLAPS

(***************************************************************************)
(* Why the key vault loses nothing.  A plan that is acted on was compared  *)
(* with a copy that is never overwritten, so every legacy value on the     *)
(* disk is in a copy from then on, until the files may be edited again;    *)
(* and what is staged is what the file holds, its legacy values left out.  *)
(***************************************************************************)
Plans == UNION {[files -> Contents] : files \in SUBSET VaultFiles}
Ids == 1..MaxIds

\* What each step of a command has in hand.
InHand ==
  /\ Holding("planned") => command \in [step: {"planned"}, id: Ids, plan: Plans]
  /\ Holding("copied") =>
       command \in [step: {"copied"}, id: Ids, plan: Plans, sources: [VaultFiles -> Contents]]
  /\ command.step \in {"staging", "comparing", "refreshing"} =>
       command \in [step: {"staging", "comparing", "refreshing"}, plan: Plans]
  /\ Holding("replacing") =>
       command \in [step: {"replacing"}, plan: Plans, left: SUBSET VaultFiles, errors: BOOLEAN]
  /\ command.step \in {"confirmed", "staging", "comparing", "replacing", "failed", "refreshing"} =>
       pending # NoPurge

VaultTyped ==
  /\ VaultTypeOK
  /\ InHand
  /\ DOMAIN copies \subseteq Ids
  /\ pending = NoPurge \/
       pending \in [id: Ids, plan: Plans, sources: [VaultFiles -> Contents], expired: BOOLEAN]
  /\ budget \in [{"ids", "touches", "faults", "crashes"} -> Nat]
  /\ budget.ids <= MaxIds /\ budget.touches <= MaxTouches

\* The value is in a copy, or came too late for one.
Held(f, version) ==
  <<f, version>> \in late \/ \E i \in DOMAIN copies : copies[i][f].legacy = version
Backed(plan) == \A f \in DOMAIN plan : Held(f, plan[f].legacy)

\* An id is given once.
IdsAreNew ==
  /\ \A i \in DOMAIN copies : i <= MaxIds - budget.ids
  /\ Holding("planned") => command.id = MaxIds - budget.ids /\ command.id \notin DOMAIN copies

\* A plan that will be, or may again be, acted on is backed; from the
\* confirmation to the refresh so is all there is.
PlansAreBacked ==
  /\ pending # NoPurge => Backed(pending.plan)
  /\ command.step \in {"copied", "refreshing"} => Backed(command.plan)
  /\ command.step \in {"staging", "comparing", "replacing", "failed"} =>
       \A f \in VaultFiles : disk[f].legacy > 0 => Held(f, disk[f].legacy)

\* What is staged is what was planned, and what is left to do is as planned.
StagedAsPlanned ==
  /\ command.step \in {"comparing", "replacing"} =>
       staged = [f \in Writes(command.plan) |-> Scrubbed(command.plan[f])]
  /\ Holding("replacing") =>
       \A f \in command.left :
         /\ f \in DOMAIN command.plan
         /\ f \notin Deleted => \/ command.plan[f].rest = touched[f]
                              \/ <<f, touched[f]>> \in late

VaultKept == VaultTyped /\ IdsAreNew /\ StagedAsPlanned /\ PurgeKeepsTheRest
VaultBacked == PlansAreBacked /\ PurgedIsBackedUp

BoundsAreNumbers ==
  MaxIds \in Nat /\ MaxTouches \in Nat /\ MaxVaultFaults \in Nat /\ MaxCrashes \in Nat

\* A plan has the legacy files as they are.
LEMMA PlansAreWhatIs ==
  ASSUME VaultTypeOK
  PROVE  /\ PurgePlan \in Plans
         /\ DOMAIN PurgePlan = {f \in VaultFiles : disk[f].legacy > 0}
         /\ \A f \in DOMAIN PurgePlan : PurgePlan[f] = disk[f]
<1>1. DOMAIN PurgePlan = {f \in VaultFiles : disk[f].legacy > 0} /\ DOMAIN PurgePlan \in SUBSET VaultFiles
  BY DEF PurgePlan
<1>2. PurgePlan \in [DOMAIN PurgePlan -> Contents]
  BY DEF PurgePlan, VaultTypeOK
<1> QED
  BY <1>1, <1>2 DEF PurgePlan, Plans

\* A plan is of some of the files.
LEMMA PlanOfFiles ==
  ASSUME NEW plan \in Plans
  PROVE  DOMAIN plan \subseteq VaultFiles /\ \A f \in DOMAIN plan : plan[f] \in Contents
BY DEF Plans

\* What is in a copy stays there.
LEMMA CopiesStay ==
  ASSUME DOMAIN copies \subseteq DOMAIN copies', \A i \in DOMAIN copies : copies'[i] = copies[i],
         late \subseteq late'
  PROVE  /\ \A f, version : Held(f, version) => Held(f, version)'
         /\ \A plan : Backed(plan) => Backed(plan)'
BY DEF Held, Backed

LEMMA VaultPreparePlan ==
  ASSUME BoundsAreNumbers, VaultKept, PreparePlan
  PROVE  VaultKept' /\ (VaultBacked => VaultBacked')
<1>0. VaultTyped /\ IdsAreNew /\ StagedAsPlanned /\ PurgeKeepsTheRest
  BY DEF VaultKept
<1>p. PurgePlan \in Plans /\ DOMAIN PurgePlan = {f \in VaultFiles : disk[f].legacy > 0}
      /\ \A f \in DOMAIN PurgePlan : PurgePlan[f] = disk[f]
  BY <1>0, PlansAreWhatIs DEF VaultTyped
<1>c. /\ DOMAIN copies \subseteq DOMAIN copies'
      /\ \A i \in DOMAIN copies : copies'[i] = copies[i]
      /\ late' = late
  BY <1>0 DEF PreparePlan, IdsAreNew, VaultTyped, VaultTypeOK, InHand, Holding, Spend
<1>h. /\ \A f, version : Held(f, version) => Held(f, version)'
      /\ \A plan : Backed(plan) => Backed(plan)'
  BY <1>c, CopiesStay
<1>1. VaultTyped'
  BY <1>0, <1>p DEF PreparePlan, BoundsAreNumbers, Ids, VaultTyped, VaultTypeOK, InHand, Holding,
     Spend
<1>2. IdsAreNew'
  <2>1. budget'.ids = budget.ids - 1 /\ budget.ids \in Nat /\ budget'.ids \in Nat
    BY <1>0 DEF PreparePlan, Spend, VaultTyped
  <2>2. command' = [step |-> "planned", id |-> MaxIds - budget.ids + 1, plan |-> PurgePlan]
    BY DEF PreparePlan
  <2>3. \A i \in DOMAIN copies : i \in Nat /\ i <= MaxIds - budget.ids
    BY <1>0 DEF IdsAreNew, VaultTyped, Ids
  <2>4. copies' = copies
    BY DEF PreparePlan
  <2> QED
    BY <2>1, <2>2, <2>3, <2>4 DEF IdsAreNew, Holding, BoundsAreNumbers
<1>3. PlansAreBacked => PlansAreBacked'
  BY <1>0, <1>p, <1>h DEF PreparePlan, PlansAreBacked, Backed, VaultTyped, VaultTypeOK, InHand,
     Holding, Spend
<1>4. StagedAsPlanned'
  BY <1>0, <1>p DEF PreparePlan, StagedAsPlanned, VaultTyped, VaultTypeOK, InHand, Holding, Spend
<1>5. VaultBacked => PurgedIsBackedUp'
  BY <1>0, <1>c DEF PreparePlan, VaultBacked, PurgedIsBackedUp, Spend
<1>6. PurgeKeepsTheRest'
  BY <1>0 DEF PreparePlan, PurgeKeepsTheRest, Spend
<1> QED
  BY <1>1, <1>2, <1>3, <1>4, <1>5, <1>6 DEF VaultKept, VaultBacked

LEMMA VaultPrepareBackup ==
  ASSUME BoundsAreNumbers, VaultKept, PrepareBackup
  PROVE  VaultKept' /\ (VaultBacked => VaultBacked')
<1>0. VaultTyped /\ IdsAreNew /\ StagedAsPlanned /\ PurgeKeepsTheRest
  BY DEF VaultKept
<1>p. PurgePlan \in Plans /\ DOMAIN PurgePlan = {f \in VaultFiles : disk[f].legacy > 0}
      /\ \A f \in DOMAIN PurgePlan : PurgePlan[f] = disk[f]
  BY <1>0, PlansAreWhatIs DEF VaultTyped
<1>c. /\ DOMAIN copies \subseteq DOMAIN copies'
      /\ \A i \in DOMAIN copies : copies'[i] = copies[i]
      /\ late' = late
  BY <1>0 DEF PrepareBackup, IdsAreNew, VaultTyped, VaultTypeOK, InHand, Holding, Spend, Refused,
     NoCommand, Collected, BackedUp
<1>h. /\ \A f, version : Held(f, version) => Held(f, version)'
      /\ \A plan : Backed(plan) => Backed(plan)'
  BY <1>c, CopiesStay
<1>1. VaultTyped'
  BY <1>0, <1>p DEF PrepareBackup, BoundsAreNumbers, Ids, VaultTyped, VaultTypeOK, InHand,
     Holding, Spend, Refused, NoCommand, Collected, BackedUp
<1>2. IdsAreNew'
  BY <1>0 DEF PrepareBackup, IdsAreNew, BoundsAreNumbers, VaultTyped, VaultTypeOK, InHand,
     Holding, Spend, Refused, NoCommand, Collected, BackedUp
<1>3. PlansAreBacked => PlansAreBacked'
  <2> SUFFICES ASSUME PlansAreBacked PROVE PlansAreBacked'
    OBVIOUS
  <2>1. CASE command' = NoCommand
    BY <1>0, <1>h, <2>1 DEF PrepareBackup, PlansAreBacked, NoCommand, Refused, Holding
  <2>2. CASE /\ BackedUp(command.plan, Collected) /\ command.id \in DOMAIN copies'
             /\ copies'[command.id] = Collected
             /\ command' = [step |-> "copied", id |-> command.id, plan |-> command.plan,
                            sources |-> Collected]
             /\ pending' = pending
    <3>1. \A f \in DOMAIN command.plan : copies'[command.id][f].legacy = command.plan[f].legacy
      BY <2>2 DEF BackedUp
    <3>2. Backed(command.plan)'
      BY <2>2, <3>1 DEF Backed, Held
    <3> QED
      BY <1>0, <1>h, <2>2, <3>2 DEF PlansAreBacked
  <2> QED
    BY <2>1, <2>2 DEF PrepareBackup, Refused
<1>4. StagedAsPlanned'
  BY <1>0, <1>p DEF PrepareBackup, StagedAsPlanned, VaultTyped, VaultTypeOK, InHand, Holding,
     Spend, Refused, NoCommand, Collected, BackedUp
<1>5. VaultBacked => PurgedIsBackedUp'
  BY <1>0, <1>c DEF PrepareBackup, VaultBacked, PurgedIsBackedUp, Spend, Refused, NoCommand,
     Collected, BackedUp
<1>6. PurgeKeepsTheRest'
  BY <1>0 DEF PrepareBackup, PurgeKeepsTheRest, Spend, Refused, NoCommand, Collected, BackedUp
<1> QED
  BY <1>1, <1>2, <1>3, <1>4, <1>5, <1>6 DEF VaultKept, VaultBacked

LEMMA VaultPreparePending ==
  ASSUME BoundsAreNumbers, VaultKept, PreparePending
  PROVE  VaultKept' /\ (VaultBacked => VaultBacked')
<1>0. VaultTyped /\ IdsAreNew /\ StagedAsPlanned /\ PurgeKeepsTheRest
  BY DEF VaultKept
<1>p. PurgePlan \in Plans /\ DOMAIN PurgePlan = {f \in VaultFiles : disk[f].legacy > 0}
      /\ \A f \in DOMAIN PurgePlan : PurgePlan[f] = disk[f]
  BY <1>0, PlansAreWhatIs DEF VaultTyped
<1>c. /\ DOMAIN copies \subseteq DOMAIN copies'
      /\ \A i \in DOMAIN copies : copies'[i] = copies[i]
      /\ late' = late
  BY <1>0 DEF PreparePending, IdsAreNew, VaultTyped, VaultTypeOK, InHand, Holding, Spend,
     NoCommand, PendingOf, NoPurge
<1>h. /\ \A f, version : Held(f, version) => Held(f, version)'
      /\ \A plan : Backed(plan) => Backed(plan)'
  BY <1>c, CopiesStay
<1>1. VaultTyped'
  <2>1. command.plan \in Plans /\ command.sources \in [VaultFiles -> Contents] /\ command.id \in Ids
    BY <1>0 DEF PreparePending, VaultTyped, VaultTypeOK, InHand, Holding
  <2>2. pending' = pending \/ pending' = PendingOf(command.id, command.plan, command.sources)
    BY DEF PreparePending, Collected, Refreshed
  <2>3. pending' = NoPurge \/
          pending' \in [id: Ids, plan: Plans, sources: [VaultFiles -> Contents], expired: BOOLEAN]
    <3>1. PendingOf(command.id, command.plan, command.sources)
            \in [id: Ids, plan: Plans, sources: [VaultFiles -> Contents], expired: BOOLEAN]
      BY <2>1 DEF PendingOf
    <3> QED
      BY <1>0, <2>2, <3>1 DEF VaultTyped
  <2>4. pending'.id \in 0..MaxIds
    BY <2>3 DEF NoPurge, Ids, BoundsAreNumbers
  <2> QED
    BY <1>0, <2>3, <2>4 DEF PreparePending, VaultTyped, VaultTypeOK, InHand, Holding, Spend,
       NoCommand
<1>2. IdsAreNew'
  BY <1>0 DEF PreparePending, IdsAreNew, BoundsAreNumbers, VaultTyped, VaultTypeOK, InHand,
     Holding, Spend, NoCommand, PendingOf, NoPurge
<1>3. PlansAreBacked => PlansAreBacked'
  BY <1>0, <1>p, <1>h DEF PreparePending, PlansAreBacked, Backed, VaultTyped, VaultTypeOK,
     InHand, Holding, Spend, NoCommand, PendingOf, NoPurge
<1>4. StagedAsPlanned'
  BY <1>0, <1>p DEF PreparePending, StagedAsPlanned, VaultTyped, VaultTypeOK, InHand, Holding,
     Spend, NoCommand, PendingOf, NoPurge
<1>5. VaultBacked => PurgedIsBackedUp'
  BY <1>0, <1>c DEF PreparePending, VaultBacked, PurgedIsBackedUp, Spend, NoCommand, PendingOf,
     NoPurge
<1>6. PurgeKeepsTheRest'
  BY <1>0 DEF PreparePending, PurgeKeepsTheRest, Spend, NoCommand, PendingOf, NoPurge
<1> QED
  BY <1>1, <1>2, <1>3, <1>4, <1>5, <1>6 DEF VaultKept, VaultBacked

LEMMA VaultConfirmSources ==
  ASSUME BoundsAreNumbers, VaultKept, ConfirmSources
  PROVE  VaultKept' /\ (VaultBacked => VaultBacked')
<1>0. VaultTyped /\ IdsAreNew /\ StagedAsPlanned /\ PurgeKeepsTheRest
  BY DEF VaultKept
<1>p. PurgePlan \in Plans /\ DOMAIN PurgePlan = {f \in VaultFiles : disk[f].legacy > 0}
      /\ \A f \in DOMAIN PurgePlan : PurgePlan[f] = disk[f]
  BY <1>0, PlansAreWhatIs DEF VaultTyped
<1>c. /\ DOMAIN copies \subseteq DOMAIN copies'
      /\ \A i \in DOMAIN copies : copies'[i] = copies[i]
      /\ late' = late
  BY <1>0 DEF ConfirmSources, IdsAreNew, VaultTyped, VaultTypeOK, InHand, Holding, NoPurge
<1>h. /\ \A f, version : Held(f, version) => Held(f, version)'
      /\ \A plan : Backed(plan) => Backed(plan)'
  BY <1>c, CopiesStay
<1>1. VaultTyped'
  BY <1>0, <1>p DEF ConfirmSources, BoundsAreNumbers, Ids, VaultTyped, VaultTypeOK, InHand,
     Holding, NoPurge
<1>2. IdsAreNew'
  BY <1>0 DEF ConfirmSources, IdsAreNew, BoundsAreNumbers, VaultTyped, VaultTypeOK, InHand,
     Holding, NoPurge
<1>3. PlansAreBacked => PlansAreBacked'
  BY <1>0, <1>p, <1>h DEF ConfirmSources, PlansAreBacked, Backed, VaultTyped, VaultTypeOK,
     InHand, Holding, NoPurge
<1>4. StagedAsPlanned'
  BY <1>0, <1>p DEF ConfirmSources, StagedAsPlanned, VaultTyped, VaultTypeOK, InHand, Holding,
     NoPurge
<1>5. VaultBacked => PurgedIsBackedUp'
  BY <1>0, <1>c DEF ConfirmSources, VaultBacked, PurgedIsBackedUp, NoPurge
<1>6. PurgeKeepsTheRest'
  BY <1>0 DEF ConfirmSources, PurgeKeepsTheRest, NoPurge
<1> QED
  BY <1>1, <1>2, <1>3, <1>4, <1>5, <1>6 DEF VaultKept, VaultBacked

LEMMA VaultConfirmPlan ==
  ASSUME BoundsAreNumbers, VaultKept, ConfirmPlan
  PROVE  VaultKept' /\ (VaultBacked => VaultBacked')
<1>0. VaultTyped /\ IdsAreNew /\ StagedAsPlanned /\ PurgeKeepsTheRest
  BY DEF VaultKept
<1>p. PurgePlan \in Plans /\ DOMAIN PurgePlan = {f \in VaultFiles : disk[f].legacy > 0}
      /\ \A f \in DOMAIN PurgePlan : PurgePlan[f] = disk[f]
  BY <1>0, PlansAreWhatIs DEF VaultTyped
<1>c. /\ DOMAIN copies \subseteq DOMAIN copies'
      /\ \A i \in DOMAIN copies : copies'[i] = copies[i]
      /\ late' = late
  BY <1>0 DEF ConfirmPlan, IdsAreNew, VaultTyped, VaultTypeOK, InHand, Holding, PlanUnchanged,
     Refused, NoCommand
<1>h. /\ \A f, version : Held(f, version) => Held(f, version)'
      /\ \A plan : Backed(plan) => Backed(plan)'
  BY <1>c, CopiesStay
<1>1. VaultTyped'
  BY <1>0, <1>p DEF ConfirmPlan, BoundsAreNumbers, Ids, VaultTyped, VaultTypeOK, InHand, Holding,
     PlanUnchanged, Refused, NoCommand
<1>2. IdsAreNew'
  BY <1>0 DEF ConfirmPlan, IdsAreNew, BoundsAreNumbers, VaultTyped, VaultTypeOK, InHand, Holding,
     PlanUnchanged, Refused, NoCommand
<1>3. PlansAreBacked => PlansAreBacked'
  BY <1>0, <1>p, <1>h DEF ConfirmPlan, PlansAreBacked, Backed, VaultTyped, VaultTypeOK, InHand,
     Holding, PlanUnchanged, Refused, NoCommand
<1>4. StagedAsPlanned'
  BY <1>0, <1>p DEF ConfirmPlan, StagedAsPlanned, VaultTyped, VaultTypeOK, InHand, Holding,
     PlanUnchanged, Refused, NoCommand
<1>5. VaultBacked => PurgedIsBackedUp'
  BY <1>0, <1>c DEF ConfirmPlan, VaultBacked, PurgedIsBackedUp, PlanUnchanged, Refused, NoCommand
<1>6. PurgeKeepsTheRest'
  BY <1>0 DEF ConfirmPlan, PurgeKeepsTheRest, PlanUnchanged, Refused, NoCommand
<1> QED
  BY <1>1, <1>2, <1>3, <1>4, <1>5, <1>6 DEF VaultKept, VaultBacked

LEMMA VaultStage ==
  ASSUME BoundsAreNumbers, VaultKept, Stage
  PROVE  VaultKept' /\ (VaultBacked => VaultBacked')
<1>0. VaultTyped /\ IdsAreNew /\ StagedAsPlanned /\ PurgeKeepsTheRest
  BY DEF VaultKept
<1>p. PurgePlan \in Plans /\ DOMAIN PurgePlan = {f \in VaultFiles : disk[f].legacy > 0}
      /\ \A f \in DOMAIN PurgePlan : PurgePlan[f] = disk[f]
  BY <1>0, PlansAreWhatIs DEF VaultTyped
<1>c. /\ DOMAIN copies \subseteq DOMAIN copies'
      /\ \A i \in DOMAIN copies : copies'[i] = copies[i]
      /\ late' = late
  BY <1>0 DEF Stage, IdsAreNew, VaultTyped, VaultTypeOK, InHand, Holding, Spend, Abandon, NoPurge
<1>h. /\ \A f, version : Held(f, version) => Held(f, version)'
      /\ \A plan : Backed(plan) => Backed(plan)'
  BY <1>c, CopiesStay
<1>1. VaultTyped'
  BY <1>0, <1>p DEF Stage, BoundsAreNumbers, Ids, VaultTyped, VaultTypeOK, InHand, Holding,
     Spend, Abandon, NoPurge
<1>2. IdsAreNew'
  BY <1>0 DEF Stage, IdsAreNew, BoundsAreNumbers, VaultTyped, VaultTypeOK, InHand, Holding,
     Spend, Abandon, NoPurge
<1>3. PlansAreBacked => PlansAreBacked'
  BY <1>0, <1>p, <1>h DEF Stage, PlansAreBacked, Backed, VaultTyped, VaultTypeOK, InHand,
     Holding, Spend, Abandon, NoPurge
<1>4. StagedAsPlanned'
  BY <1>0, <1>p DEF Stage, StagedAsPlanned, VaultTyped, VaultTypeOK, InHand, Holding, Spend,
     Abandon, NoPurge
<1>5. VaultBacked => PurgedIsBackedUp'
  BY <1>0, <1>c DEF Stage, VaultBacked, PurgedIsBackedUp, Spend, Abandon, NoPurge
<1>6. PurgeKeepsTheRest'
  BY <1>0 DEF Stage, PurgeKeepsTheRest, Spend, Abandon, NoPurge
<1> QED
  BY <1>1, <1>2, <1>3, <1>4, <1>5, <1>6 DEF VaultKept, VaultBacked

LEMMA VaultCompare ==
  ASSUME BoundsAreNumbers, VaultKept, Compare
  PROVE  VaultKept' /\ (VaultBacked => VaultBacked')
<1>0. VaultTyped /\ IdsAreNew /\ StagedAsPlanned /\ PurgeKeepsTheRest
  BY DEF VaultKept
<1>p. PurgePlan \in Plans /\ DOMAIN PurgePlan = {f \in VaultFiles : disk[f].legacy > 0}
      /\ \A f \in DOMAIN PurgePlan : PurgePlan[f] = disk[f]
  BY <1>0, PlansAreWhatIs DEF VaultTyped
<1>c. /\ DOMAIN copies \subseteq DOMAIN copies'
      /\ \A i \in DOMAIN copies : copies'[i] = copies[i]
      /\ late' = late
  BY <1>0 DEF Compare, IdsAreNew, VaultTyped, VaultTypeOK, InHand, Holding, Abandon,
     TargetsUnchanged
<1>h. /\ \A f, version : Held(f, version) => Held(f, version)'
      /\ \A plan : Backed(plan) => Backed(plan)'
  BY <1>c, CopiesStay
<1>b. /\ budget' \in [{"ids", "touches", "faults", "crashes"} -> Nat]
      /\ budget'.ids = budget.ids /\ budget'.touches = budget.touches
  BY <1>0 DEF Compare, Spend, VaultTyped
<1>n. ~Holding("planned")'
  BY DEF Compare, Abandon, Holding
<1>1. VaultTyped'
  <2>1. Holding("comparing") /\ command \in [step: {"staging", "comparing", "refreshing"}, plan: Plans]
    BY <1>0 DEF Compare, Holding, VaultTyped, InHand
  <2>2. command.plan \in Plans /\ DOMAIN command.plan \in SUBSET VaultFiles
    BY <2>1, PlanOfFiles
  <2>n. pending' # NoPurge
    BY <1>0, <2>1 DEF Compare, Holding, VaultTyped, InHand
  <2>3. InHand'
    <3>1. CASE command' = [step |-> "failed"]
      BY <2>n, <3>1 DEF InHand, Holding
    <3>2. CASE command' = [step |-> "replacing", plan |-> command.plan,
                           left |-> DOMAIN command.plan, errors |-> FALSE]
      BY <2>2, <2>n, <3>2 DEF InHand, Holding
    <3> QED
      BY <3>1, <3>2 DEF Compare, Abandon
  <2> QED
    BY <1>0, <1>b, <2>3 DEF Compare, VaultTyped, VaultTypeOK, Abandon
<1>2. IdsAreNew'
  BY <1>0, <1>b, <1>n DEF Compare, IdsAreNew, VaultTyped
<1>3. PlansAreBacked => PlansAreBacked'
  BY <1>0, <1>p, <1>h DEF Compare, PlansAreBacked, Backed, VaultTyped, VaultTypeOK, InHand,
     Holding, Abandon, TargetsUnchanged
<1>4. StagedAsPlanned'
  <2>1. CASE command' = [step |-> "failed"]
    BY <2>1 DEF StagedAsPlanned, Holding
  <2>2. CASE /\ TargetsUnchanged
             /\ command' = [step |-> "replacing", plan |-> command.plan,
                            left |-> DOMAIN command.plan, errors |-> FALSE]
             /\ staged' = staged
    <3>1. DOMAIN command.plan \subseteq VaultFiles /\ Holding("comparing")
      BY <1>0, PlanOfFiles DEF Compare, Holding, VaultTyped, InHand
    <3>2. \A f \in DOMAIN command.plan :
            f \notin Deleted => \/ command.plan[f].rest = touched[f]
                               \/ <<f, touched[f]>> \in late
      BY <1>0, <2>2, <3>1 DEF TargetsUnchanged, PurgeKeepsTheRest
    <3> QED
      BY <1>0, <2>2, <3>1, <3>2 DEF Compare, StagedAsPlanned, Holding
  <2> QED
    BY <2>1, <2>2 DEF Compare, Abandon
<1>5. VaultBacked => PurgedIsBackedUp'
  BY <1>0, <1>c DEF Compare, VaultBacked, PurgedIsBackedUp, Abandon, TargetsUnchanged
<1>6. PurgeKeepsTheRest'
  BY <1>0 DEF Compare, PurgeKeepsTheRest, Abandon, TargetsUnchanged
<1> QED
  BY <1>1, <1>2, <1>3, <1>4, <1>5, <1>6 DEF VaultKept, VaultBacked

LEMMA VaultFinish ==
  ASSUME BoundsAreNumbers, VaultKept, Finish
  PROVE  VaultKept' /\ (VaultBacked => VaultBacked')
<1>0. VaultTyped /\ IdsAreNew /\ StagedAsPlanned /\ PurgeKeepsTheRest
  BY DEF VaultKept
<1>p. PurgePlan \in Plans /\ DOMAIN PurgePlan = {f \in VaultFiles : disk[f].legacy > 0}
      /\ \A f \in DOMAIN PurgePlan : PurgePlan[f] = disk[f]
  BY <1>0, PlansAreWhatIs DEF VaultTyped
<1>c. /\ DOMAIN copies \subseteq DOMAIN copies'
      /\ \A i \in DOMAIN copies : copies'[i] = copies[i]
      /\ late' = late
  BY <1>0 DEF Finish, IdsAreNew, VaultTyped, VaultTypeOK, InHand, Holding, Spend, NoCommand, NoPurge
<1>h. /\ \A f, version : Held(f, version) => Held(f, version)'
      /\ \A plan : Backed(plan) => Backed(plan)'
  BY <1>c, CopiesStay
<1>1. VaultTyped'
  BY <1>0, <1>p DEF Finish, BoundsAreNumbers, Ids, VaultTyped, VaultTypeOK, InHand, Holding,
     Spend, NoCommand, NoPurge
<1>2. IdsAreNew'
  BY <1>0 DEF Finish, IdsAreNew, BoundsAreNumbers, VaultTyped, VaultTypeOK, InHand, Holding,
     Spend, NoCommand, NoPurge
<1>3. PlansAreBacked => PlansAreBacked'
  BY <1>0, <1>p, <1>h DEF Finish, PlansAreBacked, Backed, VaultTyped, VaultTypeOK, InHand,
     Holding, Spend, NoCommand, NoPurge
<1>4. StagedAsPlanned'
  BY <1>0, <1>p DEF Finish, StagedAsPlanned, VaultTyped, VaultTypeOK, InHand, Holding, Spend,
     NoCommand, NoPurge
<1>5. VaultBacked => PurgedIsBackedUp'
  BY <1>0, <1>c DEF Finish, VaultBacked, PurgedIsBackedUp, Spend, NoCommand, NoPurge
<1>6. PurgeKeepsTheRest'
  BY <1>0 DEF Finish, PurgeKeepsTheRest, Spend, NoCommand, NoPurge
<1> QED
  BY <1>1, <1>2, <1>3, <1>4, <1>5, <1>6 DEF VaultKept, VaultBacked

LEMMA VaultRefreshPlan ==
  ASSUME BoundsAreNumbers, VaultKept, RefreshPlan
  PROVE  VaultKept' /\ (VaultBacked => VaultBacked')
<1>0. VaultTyped /\ IdsAreNew /\ StagedAsPlanned /\ PurgeKeepsTheRest
  BY DEF VaultKept
<1>p. PurgePlan \in Plans /\ DOMAIN PurgePlan = {f \in VaultFiles : disk[f].legacy > 0}
      /\ \A f \in DOMAIN PurgePlan : PurgePlan[f] = disk[f]
  BY <1>0, PlansAreWhatIs DEF VaultTyped
<1>c. /\ DOMAIN copies \subseteq DOMAIN copies'
      /\ \A i \in DOMAIN copies : copies'[i] = copies[i]
      /\ late' = late
  BY <1>0 DEF RefreshPlan, IdsAreNew, VaultTyped, VaultTypeOK, InHand, Holding
<1>h. /\ \A f, version : Held(f, version) => Held(f, version)'
      /\ \A plan : Backed(plan) => Backed(plan)'
  BY <1>c, CopiesStay
<1>1. VaultTyped'
  BY <1>0, <1>p DEF RefreshPlan, BoundsAreNumbers, Ids, VaultTyped, VaultTypeOK, InHand, Holding
<1>2. IdsAreNew'
  BY <1>0 DEF RefreshPlan, IdsAreNew, BoundsAreNumbers, VaultTyped, VaultTypeOK, InHand, Holding
<1>3. PlansAreBacked => PlansAreBacked'
  BY <1>0, <1>p, <1>h DEF RefreshPlan, PlansAreBacked, Backed, VaultTyped, VaultTypeOK, InHand,
     Holding
<1>4. StagedAsPlanned'
  BY <1>0, <1>p DEF RefreshPlan, StagedAsPlanned, VaultTyped, VaultTypeOK, InHand, Holding
<1>5. VaultBacked => PurgedIsBackedUp'
  BY <1>0, <1>c DEF RefreshPlan, VaultBacked, PurgedIsBackedUp
<1>6. PurgeKeepsTheRest'
  BY <1>0 DEF RefreshPlan, PurgeKeepsTheRest
<1> QED
  BY <1>1, <1>2, <1>3, <1>4, <1>5, <1>6 DEF VaultKept, VaultBacked

LEMMA VaultRefresh ==
  ASSUME BoundsAreNumbers, VaultKept, Refresh
  PROVE  VaultKept' /\ (VaultBacked => VaultBacked')
<1>0. VaultTyped /\ IdsAreNew /\ StagedAsPlanned /\ PurgeKeepsTheRest
  BY DEF VaultKept
<1>p. PurgePlan \in Plans /\ DOMAIN PurgePlan = {f \in VaultFiles : disk[f].legacy > 0}
      /\ \A f \in DOMAIN PurgePlan : PurgePlan[f] = disk[f]
  BY <1>0, PlansAreWhatIs DEF VaultTyped
<1>c. /\ DOMAIN copies \subseteq DOMAIN copies'
      /\ \A i \in DOMAIN copies : copies'[i] = copies[i]
      /\ late' = late
  BY <1>0 DEF Refresh, IdsAreNew, VaultTyped, VaultTypeOK, InHand, Holding, Spend, Refreshed,
     PendingOf, NoCommand, Collected, NoPurge
<1>h. /\ \A f, version : Held(f, version) => Held(f, version)'
      /\ \A plan : Backed(plan) => Backed(plan)'
  BY <1>c, CopiesStay
<1>1. VaultTyped'
  <2>1. command.plan \in Plans /\ disk \in [VaultFiles -> Contents] /\ pending.id \in Ids
    BY <1>0 DEF Refresh, VaultTyped, VaultTypeOK, InHand, Holding, NoPurge
  <2>2. pending' = pending \/ pending' = PendingOf(pending.id, command.plan, disk)
    BY DEF Refresh, Collected, Refreshed
  <2>3. pending' = NoPurge \/
          pending' \in [id: Ids, plan: Plans, sources: [VaultFiles -> Contents], expired: BOOLEAN]
    <3>1. PendingOf(pending.id, command.plan, disk)
            \in [id: Ids, plan: Plans, sources: [VaultFiles -> Contents], expired: BOOLEAN]
      BY <2>1 DEF PendingOf
    <3> QED
      BY <1>0, <2>2, <3>1 DEF VaultTyped
  <2>4. pending'.id \in 0..MaxIds
    BY <2>3 DEF NoPurge, Ids, BoundsAreNumbers
  <2> QED
    BY <1>0, <2>3, <2>4 DEF Refresh, VaultTyped, VaultTypeOK, InHand, Holding, Spend, NoCommand
<1>2. IdsAreNew'
  BY <1>0 DEF Refresh, IdsAreNew, BoundsAreNumbers, VaultTyped, VaultTypeOK, InHand, Holding,
     Spend, Refreshed, PendingOf, NoCommand, Collected, NoPurge
<1>3. PlansAreBacked => PlansAreBacked'
  BY <1>0, <1>p, <1>h DEF Refresh, PlansAreBacked, Backed, VaultTyped, VaultTypeOK, InHand,
     Holding, Spend, Refreshed, PendingOf, NoCommand, Collected, NoPurge
<1>4. StagedAsPlanned'
  BY <1>0, <1>p DEF Refresh, StagedAsPlanned, VaultTyped, VaultTypeOK, InHand, Holding, Spend,
     Refreshed, PendingOf, NoCommand, Collected, NoPurge
<1>5. VaultBacked => PurgedIsBackedUp'
  BY <1>0, <1>c DEF Refresh, VaultBacked, PurgedIsBackedUp, Spend, Refreshed, PendingOf,
     NoCommand, Collected, NoPurge
<1>6. PurgeKeepsTheRest'
  BY <1>0 DEF Refresh, PurgeKeepsTheRest, Spend, Refreshed, PendingOf, NoCommand, Collected, NoPurge
<1> QED
  BY <1>1, <1>2, <1>3, <1>4, <1>5, <1>6 DEF VaultKept, VaultBacked

LEMMA VaultExpire ==
  ASSUME BoundsAreNumbers, VaultKept, Expire
  PROVE  VaultKept' /\ (VaultBacked => VaultBacked')
<1>0. VaultTyped /\ IdsAreNew /\ StagedAsPlanned /\ PurgeKeepsTheRest
  BY DEF VaultKept
<1>p. PurgePlan \in Plans /\ DOMAIN PurgePlan = {f \in VaultFiles : disk[f].legacy > 0}
      /\ \A f \in DOMAIN PurgePlan : PurgePlan[f] = disk[f]
  BY <1>0, PlansAreWhatIs DEF VaultTyped
<1>c. /\ DOMAIN copies \subseteq DOMAIN copies'
      /\ \A i \in DOMAIN copies : copies'[i] = copies[i]
      /\ late' = late
  BY <1>0 DEF Expire, IdsAreNew, VaultTyped, VaultTypeOK, InHand, Holding, NoPurge
<1>h. /\ \A f, version : Held(f, version) => Held(f, version)'
      /\ \A plan : Backed(plan) => Backed(plan)'
  BY <1>c, CopiesStay
<1>1. VaultTyped'
  BY <1>0, <1>p DEF Expire, BoundsAreNumbers, Ids, VaultTyped, VaultTypeOK, InHand, Holding, NoPurge
<1>2. IdsAreNew'
  BY <1>0 DEF Expire, IdsAreNew, BoundsAreNumbers, VaultTyped, VaultTypeOK, InHand, Holding, NoPurge
<1>3. PlansAreBacked => PlansAreBacked'
  BY <1>0, <1>p, <1>h DEF Expire, PlansAreBacked, Backed, VaultTyped, VaultTypeOK, InHand,
     Holding, NoPurge
<1>4. StagedAsPlanned'
  BY <1>0, <1>p DEF Expire, StagedAsPlanned, VaultTyped, VaultTypeOK, InHand, Holding, NoPurge
<1>5. VaultBacked => PurgedIsBackedUp'
  BY <1>0, <1>c DEF Expire, VaultBacked, PurgedIsBackedUp, NoPurge
<1>6. PurgeKeepsTheRest'
  BY <1>0 DEF Expire, PurgeKeepsTheRest, NoPurge
<1> QED
  BY <1>1, <1>2, <1>3, <1>4, <1>5, <1>6 DEF VaultKept, VaultBacked

LEMMA VaultCrash ==
  ASSUME BoundsAreNumbers, VaultKept, Crash
  PROVE  VaultKept' /\ (VaultBacked => VaultBacked')
<1>0. VaultTyped /\ IdsAreNew /\ StagedAsPlanned /\ PurgeKeepsTheRest
  BY DEF VaultKept
<1>p. PurgePlan \in Plans /\ DOMAIN PurgePlan = {f \in VaultFiles : disk[f].legacy > 0}
      /\ \A f \in DOMAIN PurgePlan : PurgePlan[f] = disk[f]
  BY <1>0, PlansAreWhatIs DEF VaultTyped
<1>c. /\ DOMAIN copies \subseteq DOMAIN copies'
      /\ \A i \in DOMAIN copies : copies'[i] = copies[i]
      /\ late' = late
  BY <1>0 DEF Crash, IdsAreNew, VaultTyped, VaultTypeOK, InHand, Holding, Spend, NoCommand
<1>h. /\ \A f, version : Held(f, version) => Held(f, version)'
      /\ \A plan : Backed(plan) => Backed(plan)'
  BY <1>c, CopiesStay
<1>1. VaultTyped'
  BY <1>0, <1>p DEF Crash, BoundsAreNumbers, Ids, VaultTyped, VaultTypeOK, InHand, Holding,
     Spend, NoCommand
<1>2. IdsAreNew'
  BY <1>0 DEF Crash, IdsAreNew, BoundsAreNumbers, VaultTyped, VaultTypeOK, InHand, Holding,
     Spend, NoCommand
<1>3. PlansAreBacked => PlansAreBacked'
  BY <1>0, <1>p, <1>h DEF Crash, PlansAreBacked, Backed, VaultTyped, VaultTypeOK, InHand,
     Holding, Spend, NoCommand
<1>4. StagedAsPlanned'
  BY <1>0, <1>p DEF Crash, StagedAsPlanned, VaultTyped, VaultTypeOK, InHand, Holding, Spend,
     NoCommand
<1>5. VaultBacked => PurgedIsBackedUp'
  BY <1>0, <1>c DEF Crash, VaultBacked, PurgedIsBackedUp, Spend, NoCommand
<1>6. PurgeKeepsTheRest'
  BY <1>0 DEF Crash, PurgeKeepsTheRest, Spend, NoCommand
<1> QED
  BY <1>1, <1>2, <1>3, <1>4, <1>5, <1>6 DEF VaultKept, VaultBacked

LEMMA VaultReplace ==
  ASSUME BoundsAreNumbers, VaultKept, NEW f \in VaultFiles, Replace(f)
  PROVE  VaultKept' /\ (VaultBacked => VaultBacked')
<1>0. VaultTyped /\ IdsAreNew /\ StagedAsPlanned /\ PurgeKeepsTheRest
  BY DEF VaultKept
<1>c. copies' = copies /\ late' = late /\ touched' = touched
  BY DEF Replace
<1>h. /\ \A g, version : Held(g, version) => Held(g, version)'
      /\ \A plan : Backed(plan) => Backed(plan)'
  BY <1>c, CopiesStay
<1>f. /\ Holding("replacing") /\ f \in command.left /\ f \in DOMAIN command.plan /\ f \notin Deleted
      /\ disk[f] \in Contents /\ staged[f] = Scrubbed(command.plan[f])
      /\ command.plan[f].rest = touched[f] \/ <<f, touched[f]>> \in late
  BY <1>0 DEF Replace, Writes, StagedAsPlanned, Holding, VaultTyped, VaultTypeOK
<1>p. command.plan[f] \in Contents
  BY <1>0, <1>f, PlanOfFiles DEF VaultTyped, InHand, Holding
<1>g. /\ staged[f] \in Contents /\ staged[f].legacy = 0
      /\ staged[f].rest = touched[f] \/ <<f, touched[f]>> \in late
  BY <1>f, <1>p DEF Scrubbed, Contents, BoundsAreNumbers
<1>r. Removed(f) \subseteq {<<f, disk[f].legacy>>} /\ (Removed(f) # {} => disk[f].legacy > 0)
  BY DEF Removed
<1>w. CASE disk' = [disk EXCEPT ![f] = staged[f]] /\ purged' = purged \union Removed(f)
           /\ command' = [command EXCEPT !.left = @ \ {f}] /\ staged' = staged /\ budget' = budget
  <2>1. command' \in [step: {"replacing"}, plan: Plans, left: SUBSET VaultFiles, errors: BOOLEAN]
        /\ command'.plan = command.plan /\ command'.left = command.left \ {f}
        /\ command'.step = "replacing"
    BY <1>0, <1>f, <1>w DEF VaultTyped, InHand, Holding
  <2>2. VaultTyped'
    <3>1. purged' \subseteq VaultFiles \X Nat
      BY <1>0, <1>f, <1>r, <1>w DEF VaultTyped, VaultTypeOK, Contents
    <3> QED
      BY <1>0, <1>c, <1>g, <1>w, <2>1, <3>1 DEF Replace, VaultTyped, VaultTypeOK, InHand, Holding
  <2>3. IdsAreNew'
    BY <1>0, <1>c, <1>w, <2>1 DEF IdsAreNew, Holding
  <2>4. PlansAreBacked => PlansAreBacked'
    BY <1>0, <1>f, <1>g, <1>h, <1>w, <2>1 DEF Replace, PlansAreBacked, Holding, VaultTyped,
       VaultTypeOK
  <2>5. StagedAsPlanned'
    BY <1>0, <1>c, <1>f, <1>w, <2>1 DEF StagedAsPlanned, Holding, VaultTyped, VaultTypeOK, Writes
  <2>6. VaultBacked => PurgedIsBackedUp'
    BY <1>0, <1>c, <1>f, <1>r, <1>w DEF VaultBacked, PurgedIsBackedUp, PlansAreBacked, Holding, Held
  <2>7. PurgeKeepsTheRest'
    BY <1>0, <1>c, <1>g, <1>w DEF PurgeKeepsTheRest, VaultTyped, VaultTypeOK
  <2> QED
    BY <2>2, <2>3, <2>4, <2>5, <2>6, <2>7 DEF VaultKept, VaultBacked
<1>e. CASE Spend("faults") /\ Abandon /\ disk' = disk /\ purged' = purged
  <2>1. VaultTyped' /\ IdsAreNew'
    BY <1>0, <1>c, <1>e DEF Replace, Abandon, Spend, VaultTyped, VaultTypeOK, InHand, IdsAreNew,
       Holding
  <2>2. PlansAreBacked => PlansAreBacked'
    BY <1>0, <1>f, <1>h, <1>e DEF Replace, Abandon, PlansAreBacked, Holding
  <2>3. StagedAsPlanned' /\ PurgeKeepsTheRest' /\ (PurgedIsBackedUp => PurgedIsBackedUp')
    BY <1>0, <1>c, <1>e DEF Replace, Abandon, StagedAsPlanned, PurgedIsBackedUp,
       PurgeKeepsTheRest, Holding
  <2> QED
    BY <2>1, <2>2, <2>3 DEF VaultKept, VaultBacked
<1> QED
  BY <1>w, <1>e DEF Replace

LEMMA VaultDelete ==
  ASSUME BoundsAreNumbers, VaultKept, NEW f \in VaultFiles, Delete(f)
  PROVE  VaultKept' /\ (VaultBacked => VaultBacked')
<1>0. VaultTyped /\ IdsAreNew /\ StagedAsPlanned /\ PurgeKeepsTheRest
  BY DEF VaultKept
<1>c. copies' = copies /\ late' = late /\ touched' = touched
  BY DEF Delete
<1>h. /\ \A g, version : Held(g, version) => Held(g, version)'
      /\ \A plan : Backed(plan) => Backed(plan)'
  BY <1>c, CopiesStay
<1>f. /\ Holding("replacing") /\ f \in command.left /\ f \in Deleted /\ disk[f] \in Contents
  BY <1>0 DEF Delete, Deletes, VaultTyped, VaultTypeOK
<1>r. Removed(f) \subseteq {<<f, disk[f].legacy>>} /\ (Removed(f) # {} => disk[f].legacy > 0)
  BY DEF Removed
<1>d. /\ disk' \in [VaultFiles -> Contents]
      /\ \A g \in VaultFiles : disk'[g].rest = disk[g].rest
      /\ \A g \in VaultFiles : g # f => disk'[g] = disk[g]
      /\ disk'[f].legacy > 0 => disk' = disk
  BY <1>0, <1>f DEF Delete, VaultTyped, VaultTypeOK, Contents, BoundsAreNumbers
<1>k. /\ command' \in [step: {"replacing"}, plan: Plans, left: SUBSET VaultFiles, errors: BOOLEAN]
      /\ command'.plan = command.plan /\ command'.left = command.left \ {f}
      /\ command'.step = "replacing"
  BY <1>0, <1>f, ZenonT(30) DEF Delete, VaultTyped, InHand, Holding
<1>1. VaultTyped'
  <2>1. purged' \subseteq VaultFiles \X Nat
    BY <1>0, <1>f, <1>r DEF Delete, VaultTyped, VaultTypeOK, Contents
  <2>2. budget' \in [{"ids", "touches", "faults", "crashes"} -> Nat]
        /\ budget'.ids = budget.ids /\ budget'.touches = budget.touches
    BY <1>0 DEF Delete, Spend, VaultTyped
  <2> QED
    BY <1>0, <1>c, <1>d, <1>k, <2>1, <2>2 DEF Delete, VaultTyped, VaultTypeOK, InHand, Holding
<1>2. IdsAreNew'
  BY <1>0, <1>c, <1>k DEF Delete, IdsAreNew, Holding, Spend, VaultTyped
<1>3. PlansAreBacked => PlansAreBacked'
  BY <1>0, <1>f, <1>d, <1>h, <1>k DEF Delete, PlansAreBacked, Holding
<1>4. StagedAsPlanned'
  BY <1>0, <1>f, <1>d, <1>k DEF Delete, StagedAsPlanned, Holding, VaultTyped, InHand
<1>5. VaultBacked => PurgedIsBackedUp'
  BY <1>0, <1>c, <1>f, <1>r DEF Delete, VaultBacked, PurgedIsBackedUp, PlansAreBacked, Holding, Held
<1>6. PurgeKeepsTheRest'
  BY <1>0, <1>d DEF Delete, PurgeKeepsTheRest
<1> QED
  BY <1>1, <1>2, <1>3, <1>4, <1>5, <1>6 DEF VaultKept, VaultBacked

LEMMA VaultTouch ==
  ASSUME BoundsAreNumbers, VaultKept, NEW f \in VaultFiles, Touch(f)
  PROVE  VaultKept' /\ (VaultBacked => VaultBacked')
<1>0. VaultTyped /\ IdsAreNew /\ StagedAsPlanned /\ PurgeKeepsTheRest
  BY DEF VaultKept
<1>e. /\ MaxTouches - budget.touches + 2 \in 0..MaxTouches + 1
      /\ MaxTouches - budget.touches + 2 \in Nat /\ disk[f] \in Contents
  BY <1>0 DEF Touch, Spend, VaultTyped, VaultTypeOK, BoundsAreNumbers
<1>v. PICK version \in Nat :
        version = MaxTouches - budget.touches + 2 /\ version \in 0..MaxTouches + 1
  BY <1>e
<1>l. late' = late \/ late' = late \union {<<f, version>>}
  BY <1>v DEF Touch
<1>u. UNCHANGED <<copies, pending, command, staged, purged>>
  BY DEF Touch
<1>h. /\ \A g, ver : Held(g, ver) => Held(g, ver)'
      /\ \A plan : Backed(plan) => Backed(plan)'
  BY <1>l, <1>u, CopiesStay
<1>b. /\ budget' \in [{"ids", "touches", "faults", "crashes"} -> Nat]
      /\ budget'.ids = budget.ids /\ budget'.touches <= MaxTouches
      /\ late' \subseteq VaultFiles \X Nat
  BY <1>0, <1>l DEF Touch, Spend, VaultTyped, VaultTypeOK, BoundsAreNumbers
<1>p. PurgedIsBackedUp => PurgedIsBackedUp'
  BY <1>l, <1>u DEF PurgedIsBackedUp
<1>1. CASE /\ disk' = [disk EXCEPT ![f].legacy = version]
           /\ late' = IF LegacyUnseen THEN late \union {<<f, version>>} ELSE late
           /\ touched' = touched
  <2>1. /\ disk' \in [VaultFiles -> Contents]
        /\ \A g \in VaultFiles : disk'[g].rest = disk[g].rest
        /\ \A g \in VaultFiles : g # f => disk'[g] = disk[g]
        /\ disk'[f].legacy = version
    BY <1>0, <1>e, <1>v, <1>1 DEF VaultTyped, VaultTypeOK, Contents
  <2>2. LegacyUnseen => Held(f, version)'
    BY <1>1 DEF Held
  <2>3. VaultTyped' /\ IdsAreNew'
    BY <1>0, <1>b, <1>u, <1>1, <2>1 DEF VaultTyped, VaultTypeOK, InHand, Holding, IdsAreNew
  <2>4. PlansAreBacked => PlansAreBacked'
    <3>1. ASSUME PlansAreBacked, LegacyUnseen, NEW g \in VaultFiles, NEW ver,
                 ver = disk'[g].legacy, ver > 0
          PROVE  Held(g, ver)'
      <4>1. CASE g = f
        BY <2>1, <2>2, <3>1, <4>1
      <4>2. CASE g # f
        BY <1>h, <2>1, <3>1, <4>2 DEF PlansAreBacked, LegacyUnseen
      <4> QED
        BY <4>1, <4>2
    <3>2. ASSUME PlansAreBacked, LegacyUnseen, NEW g \in VaultFiles, disk'[g].legacy > 0
          PROVE  (Held(g, disk[g].legacy))'
      BY <3>1, <3>2 DEF Held
    <3> QED
      BY <1>h, <1>u, <3>2 DEF PlansAreBacked, LegacyUnseen
  <2>5. StagedAsPlanned' /\ PurgeKeepsTheRest'
    BY <1>0, <1>l, <1>u, <1>1, <2>1 DEF StagedAsPlanned, PurgeKeepsTheRest, Holding
  <2> QED
    BY <1>p, <2>3, <2>4, <2>5 DEF VaultKept, VaultBacked
<1>2. CASE /\ f \notin Deleted
           /\ disk' = [disk EXCEPT ![f].rest = version]
           /\ late' = IF RestUnseen(f) THEN late \union {<<f, version>>} ELSE late
           /\ touched' = [touched EXCEPT ![f] = version]
  <2>1. /\ disk' \in [VaultFiles -> Contents] /\ touched' \in [VaultFiles -> 0..MaxTouches + 1]
        /\ \A g \in VaultFiles : disk'[g].legacy = disk[g].legacy
        /\ \A g \in VaultFiles : g # f => disk'[g] = disk[g] /\ touched'[g] = touched[g]
        /\ disk'[f].rest = touched'[f] /\ touched'[f] = version
    BY <1>0, <1>e, <1>v, <1>2 DEF VaultTyped, VaultTypeOK, Contents
  <2>2. VaultTyped' /\ IdsAreNew'
    BY <1>0, <1>b, <1>u, <2>1 DEF VaultTyped, VaultTypeOK, InHand, Holding, IdsAreNew
  <2>3. PlansAreBacked => PlansAreBacked'
    BY <1>h, <1>u, <2>1 DEF PlansAreBacked
  <2>4. StagedAsPlanned'
    <3>1. ASSUME Holding("replacing"), NEW g \in command.left, g \notin Deleted
          PROVE  command.plan[g].rest = touched'[g] \/ <<g, touched'[g]>> \in late'
      <4>1. command.left \subseteq VaultFiles
        BY <1>0, <3>1 DEF VaultTyped, InHand, Holding
      <4>2. CASE g = f
        BY <1>2, <2>1, <3>1, <4>2 DEF RestUnseen
      <4>3. CASE g # f
        BY <1>0, <1>l, <2>1, <3>1, <4>1, <4>3 DEF StagedAsPlanned
      <4> QED
        BY <4>2, <4>3
    <3> QED
      BY <1>0, <1>u, <3>1 DEF StagedAsPlanned, Holding
  <2>5. PurgeKeepsTheRest'
    BY <1>0, <1>l, <2>1 DEF PurgeKeepsTheRest
  <2> QED
    BY <1>p, <2>2, <2>3, <2>4, <2>5 DEF VaultKept, VaultBacked
<1> QED
  BY <1>1, <1>2, <1>v DEF Touch

\* Every step of the vault keeps both.
LEMMA VaultSteps ==
  ASSUME BoundsAreNumbers, VaultKept, [VaultNext]_vaultVars
  PROVE  VaultKept' /\ (VaultBacked => VaultBacked')
<1>1. CASE VaultCommand
  BY <1>1, VaultPreparePlan, VaultPrepareBackup, VaultPreparePending, VaultConfirmSources,
     VaultConfirmPlan, VaultStage, VaultCompare, VaultReplace, VaultDelete, VaultFinish,
     VaultRefreshPlan, VaultRefresh DEF VaultCommand
<1>2. CASE Expire \/ Crash \/ \E f \in VaultFiles : Touch(f)
  BY <1>2, VaultExpire, VaultCrash, VaultTouch
<1>3. CASE UNCHANGED vaultVars
  <2>1. VaultKept'
    BY <1>3 DEF vaultVars, VaultKept, VaultTyped, VaultTypeOK, InHand, IdsAreNew, StagedAsPlanned,
                PurgeKeepsTheRest, Holding
  <2>2. VaultBacked => VaultBacked'
    BY <1>3 DEF vaultVars, VaultBacked, PlansAreBacked, PurgedIsBackedUp, Held, Backed
  <2> QED
    BY <2>1, <2>2
<1> QED
  BY <1>1, <1>2, <1>3 DEF VaultNext

LEMMA VaultBegins ==
  ASSUME BoundsAreNumbers, VaultInit
  PROVE  VaultKept /\ VaultBacked
<1>1. command.step = "none" /\ DOMAIN copies = {} /\ purged = {} /\ pending = NoPurge
  BY DEF VaultInit, NoCommand
<1>2. VaultTyped
  BY <1>1 DEF VaultInit, VaultTyped, VaultTypeOK, InHand, Holding, NoPurge, Contents,
     BoundsAreNumbers
<1> QED
  BY <1>1, <1>2 DEF VaultInit, VaultKept, VaultBacked, IdsAreNew, PlansAreBacked, StagedAsPlanned,
                    PurgedIsBackedUp, PurgeKeepsTheRest, Holding

\* A purge writes nothing back that another command has changed since, unless it
\* was changed after its file was read for the last time: for any number of files,
\* calls, errors and ends.
THEOREM PurgeOverwritesNothing ==
  ASSUME BoundsAreNumbers
  PROVE  VaultSpec => []PurgeKeepsTheRest
<1>1. VaultInit => VaultKept
  BY VaultBegins
<1>2. VaultKept /\ [VaultNext]_vaultVars => VaultKept'
  BY VaultSteps
<1>3. VaultKept => PurgeKeepsTheRest
  BY DEF VaultKept
<1> QED
  BY <1>1, <1>2, <1>3, PTL DEF VaultSpec

\* What /keyvault confirm removes is in an encrypted copy, whatever was edited
\* since prepare, fails, ends or is retried, unless it was written between the
\* comparison with what was prepared and the refresh.
THEOREM PurgeIsBackedUp ==
  ASSUME BoundsAreNumbers
  PROVE  VaultSpec => []PurgedIsBackedUp
<1>1. VaultInit => VaultKept /\ VaultBacked
  BY VaultBegins
<1>2. VaultKept /\ VaultBacked /\ [VaultNext]_vaultVars => VaultKept' /\ VaultBacked'
  BY VaultSteps
<1>3. VaultBacked => PurgedIsBackedUp
  BY DEF VaultBacked
<1> QED
  BY <1>1, <1>2, <1>3, PTL DEF VaultSpec
-----------------------------------------------------------------------------
(***************************************************************************)
(* Why a record says no more than the site has.  A command works on a copy *)
(* of the record that may be old when it is written back; but a half that  *)
(* has reached the site stays there, so a copy that was right is right for *)
(* ever.  As long as nobody gives the record another label while a command *)
(* has a copy, the copies have the label of the record, and so has a half  *)
(* that is published, for then that label cannot be edited any more.       *)
(***************************************************************************)
HalfStates == {"none", "pending", "failed", "published"}
Records == [label: Label, id: BOOLEAN, status: {"pending", "partial", "failed", "published"},
            multishare: HalfStates, multiple: HalfStates]
Full == {r \in Records : r["multishare"] # "none" /\ r["multiple"] # "none"}

PubSteps == AcixSteps \union
  {"queue", "confirm", "reset", "open", "episode", "relations", "created", "videos",
   "akira", "akira update", "akira create", "links"}
Commands ==
  [kind: Kinds, step: PubSteps, named: Namings \union {{}}, group: Groups, edit: BOOLEAN,
   scope: SUBSET Halves, id: BOOLEAN, has: BOOLEAN, mine: Records \union {NoRecord},
   left: SUBSET Links]

PubTyped ==
  /\ record \in Records \union {NoRecord}
  /\ onAcix \in [Halves -> Label \union {NoRecord}]
  /\ cmd \in [1..Together -> Commands \union {Idle}]
  /\ \A c \in 1..Together : cmd[c].step \in AcixSteps => cmd[c].mine \in Full

\* What the record says is published is on the site.
Reached(r, on) == \A h \in Halves : r[h] = "published" => on[h] # NoRecord
Honest ==
  /\ record # NoRecord => Reached(Upgraded(record), onAcix)
  /\ \A c \in 1..Together : cmd[c].step \in AcixSteps => Reached(cmd[c].mine, onAcix)

\* It is there under the label of the record.
Labelled(r, on) == \A h \in Halves : r[h] = "published" => on[h] = r.label
Agreed ==
  /\ record # NoRecord => Labelled(Upgraded(record), onAcix)
  /\ \A c \in 1..Together : cmd[c].step \in AcixSteps =>
       record # NoRecord /\ Labelled(cmd[c].mine, onAcix) /\ cmd[c].mine.label = record.label

KindsAreKnown ==
  /\ Kinds \subseteq {"publish", "acixconfirm", "acixunpublish", "openanimeconfirm", "anizmconfirm",
                      "akiraconfirm"}
  /\ ServerGroup \in Groups

LEMMA RecordsDiffer ==
  /\ NoRecord \notin Records /\ NoRecord \notin Label
  /\ Idle \notin Commands /\ Idle.step = "done" /\ "done" \notin PubSteps
BY DEF NoRecord, Records, Label, Idle, Commands, PubSteps, AcixSteps

\* The status is a summary and changes nothing else.
LEMMA StatusOnly ==
  ASSUME NEW r \in Records
  PROVE  /\ WithStatus(r) \in Records
         /\ WithStatus(r).label = r.label /\ WithStatus(r).id = r.id
         /\ \A h \in Halves : WithStatus(r)[h] = r[h]
         /\ r \in Full => WithStatus(r) \in Full
<1> DEFINE states == {r[h] : h \in Halves}
           status == CASE states = {"published"} -> "published"
                       [] "published" \in states /\ states # {"published"} -> "partial"
                       [] "published" \notin states /\ "failed" \in states -> "failed"
                       [] OTHER -> "pending"
<1>1. status \in {"pending", "partial", "failed", "published"}
  OBVIOUS
<1>2. WithStatus(r) = [r EXCEPT !.status = status]
  BY DEF WithStatus
<1> HIDE DEF status
<1> QED
  BY <1>1, <1>2 DEF Records, Halves, Full

LEMMA NewIsPending ==
  ASSUME NEW group \in Groups, NEW id \in BOOLEAN
  PROVE  /\ NewRecord(group, id) \in Full
         /\ \A h \in Halves : NewRecord(group, id)[h] = "pending"
BY DEF NewRecord, Full, Records, Label, HalfStates, Halves

\* A record is read in today's form: both halves have a state.
LEMMA UpgradesAreFull ==
  ASSUME NEW r \in Records
  PROVE  /\ Upgraded(r) \in Full
         /\ Upgraded(r).label = r.label /\ Upgraded(r).id = r.id
         /\ r \in Full => \A h \in Halves : Upgraded(r)[h] = r[h]
<1> DEFINE u == [r EXCEPT
             !.multishare = IF @ = "none" THEN IF r.status = "published" THEN "published" ELSE "pending" ELSE @,
             !.multiple = IF @ = "none" THEN "pending" ELSE @]
<1>1. /\ u \in Records /\ u.label = r.label /\ u.id = r.id
      /\ u["multishare"] # "none" /\ u["multiple"] # "none"
  BY DEF Records, HalfStates
<1>2. r \in Full => u["multishare"] = r["multishare"] /\ u["multiple"] = r["multiple"]
  BY DEF Records, Full
<1>3. Upgraded(r) = WithStatus(u)
  BY DEF Upgraded
<1> HIDE DEF u
<1> QED
  BY <1>1, <1>2, <1>3, StatusOnly DEF Full, Halves

\* Halves that are not published fail; those of a scope are pending again.
LEMMA FailuresAndResets ==
  ASSUME NEW r \in Full, NEW scope
  PROVE  \A s \in {SharedFailure(r), Reset(r, scope)} :
           s \in Full /\ s.label = r.label /\ \A h \in Halves : s[h] = "published" => r[h] = "published"
<1> DEFINE f == [h \in DOMAIN r |-> IF h \in Halves /\ r[h] # "published" THEN "failed" ELSE r[h]]
           p == [h \in DOMAIN r |-> IF h \in Halves \intersect scope THEN "pending" ELSE r[h]]
<1>1. r \in Records /\ DOMAIN r = {"label", "id", "status", "multishare", "multiple"}
  BY DEF Full, Records
<1>2. /\ f \in Full /\ f.label = r.label
      /\ \A h \in Halves : f[h] = "published" => r[h] = "published"
  BY <1>1 DEF Full, Records, Halves, HalfStates
<1>3. /\ p \in Full /\ p.label = r.label
      /\ \A h \in Halves : p[h] = "published" => r[h] = "published"
  BY <1>1 DEF Full, Records, Halves, HalfStates
<1>4. SharedFailure(r) = WithStatus(f) /\ Reset(r, scope) = WithStatus(p)
  BY DEF SharedFailure, Reset
<1> HIDE DEF f, p
<1>5. f \in Records /\ p \in Records
  BY <1>2, <1>3 DEF Full
<1> QED
  BY <1>2, <1>3, <1>4, <1>5, StatusOnly

-----------------------------------------------------------------------------
\* One step of a command: what it has in hand after it is sound, the record it
\* may have written too, and nothing left the site.
LEMMA CommandMoves ==
  ASSUME PubTyped, Honest, NEW c \in 1..Together, cmd[c] # Idle,
         NEW k, Becomes(c, k), k.step = "done" \/ k \in Commands,
         k.step \in AcixSteps => k.mine \in Full /\ Reached(k.mine, onAcix'),
         record' = record \/ (record' \in Full /\ Reached(record', onAcix')),
         onAcix' \in [Halves -> Label \union {NoRecord}],
         \A h \in Halves : onAcix[h] # NoRecord => onAcix'[h] # NoRecord,
         Agreed => \A h \in Halves : onAcix'[h] = onAcix[h] \/ onAcix'[h] = record.label,
         Agreed =>
           /\ record' # NoRecord => Labelled(Upgraded(record'), onAcix')
           /\ k.step \in AcixSteps =>
                record' # NoRecord /\ Labelled(k.mine, onAcix') /\ k.mine.label = record'.label
  PROVE  PubTyped' /\ Honest' /\ (Agreed /\ ~Relabels(c) => Agreed')
<1>1. /\ cmd' \in [1..Together -> Commands \union {Idle}]
      /\ \A d \in 1..Together : d # c => cmd'[d] = cmd[d]
      /\ cmd'[c] = IF k.step = "done" THEN Idle ELSE k
  BY DEF Becomes, PubTyped
<1>2. \A r : Reached(r, onAcix) => Reached(r, onAcix')
  BY DEF Reached
<1>3. cmd'[c].step \in AcixSteps => k.step \in AcixSteps /\ cmd'[c] = k
  BY <1>1, RecordsDiffer DEF PubSteps
<1>4. \A d \in 1..Together : cmd'[d].step \in AcixSteps =>
        cmd'[d].mine \in Full /\ Reached(cmd'[d].mine, onAcix')
  BY <1>1, <1>2, <1>3 DEF PubTyped, Honest
<1>5. record' \in Records \union {NoRecord}
  BY DEF PubTyped, Full
<1>6. record' # NoRecord => Reached(Upgraded(record'), onAcix')
  <2>1. record' \in Full => (Reached(record', onAcix') => Reached(Upgraded(record'), onAcix'))
    BY UpgradesAreFull DEF Reached, Full
  <2>2. record # NoRecord => Reached(Upgraded(record), onAcix')
    BY <1>2 DEF Honest
  <2> QED
    BY <2>1, <2>2
<1>7. Agreed /\ ~Relabels(c) => Agreed'
  <2> SUFFICES ASSUME Agreed, ~Relabels(c) PROVE Agreed'
    OBVIOUS
  <2>1. ASSUME NEW d \in 1..Together, cmd'[d].step \in AcixSteps, d # c
        PROVE  /\ record' # NoRecord /\ Labelled(cmd'[d].mine, onAcix')
               /\ cmd'[d].mine.label = record'.label
    <3>1. PICK m : m = cmd[d].mine
      OBVIOUS
    <3>2. cmd'[d] = cmd[d] /\ cmd[d].step \in AcixSteps /\ DOMAIN cmd = 1..Together
      BY <1>1, <2>1 DEF PubTyped
    <3>3. record # NoRecord /\ Labelled(m, onAcix) /\ m.label = record.label
      BY <3>1, <3>2 DEF Agreed
    <3>4. record' # NoRecord /\ record'.label = record.label
      BY <2>1, <3>2, <3>3, RecordsDiffer DEF Relabels, LabelOf, Full
    <3>5. Labelled(m, onAcix')
      BY <3>3 DEF Labelled
    <3> QED
      BY <3>1, <3>2, <3>3, <3>4, <3>5
  <2> QED
    BY <1>3, <2>1 DEF Agreed
<1> QED
  BY <1>1, <1>4, <1>5, <1>6, <1>7 DEF PubTyped, Honest

\* A command goes on with the copy it has.
LEMMA CommandGoesOn ==
  ASSUME PubTyped, Honest, NEW c \in 1..Together, cmd[c] # Idle,
         NEW k, Becomes(c, k),
         \/ k.step = "done"
         \/ k \in Commands /\ k.mine = cmd[c].mine /\ (k.step \in AcixSteps => cmd[c].step \in AcixSteps),
         record' = record, onAcix' = onAcix
  PROVE  PubTyped' /\ Honest' /\ (Agreed /\ ~Relabels(c) => Agreed')
<1>1. k.step \in AcixSteps => k.mine = cmd[c].mine /\ cmd[c].step \in AcixSteps
  BY RecordsDiffer DEF PubSteps
<1>2. k.step \in AcixSteps => k.mine \in Full /\ Reached(k.mine, onAcix')
  BY <1>1 DEF PubTyped, Honest
<1>3. onAcix' \in [Halves -> Label \union {NoRecord}]
  BY DEF PubTyped
<1>4. Agreed =>
        /\ record' # NoRecord => Labelled(Upgraded(record'), onAcix')
        /\ k.step \in AcixSteps =>
             record' # NoRecord /\ Labelled(k.mine, onAcix') /\ k.mine.label = record'.label
  BY <1>1 DEF Agreed
<1>5. k.step = "done" \/ k \in Commands
  OBVIOUS
<1>6. \A h \in Halves : onAcix[h] # NoRecord => onAcix'[h] # NoRecord
  OBVIOUS
<1> QED
  BY <1>2, <1>3, <1>4, <1>5, <1>6, CommandMoves

LEMMA CommandGoes ==
  ASSUME PubTyped, Honest, NEW c \in 1..Together, cmd[c] # Idle,
         NEW step \in PubSteps \union {"done"}, Goes(c, step),
         step \in AcixSteps => cmd[c].step \in AcixSteps,
         record' = record, onAcix' = onAcix
  PROVE  PubTyped' /\ Honest' /\ (Agreed /\ ~Relabels(c) => Agreed')
<1>1. PICK k : k = [cmd[c] EXCEPT !.step = step]
  OBVIOUS
<1>2. cmd[c] \in Commands
  BY DEF PubTyped
<1>3. k.step = step /\ k.mine = cmd[c].mine /\ (step # "done" => k \in Commands)
  BY <1>1, <1>2 DEF Commands
<1>4. Becomes(c, k)
  BY <1>1 DEF Goes
<1> QED
  BY <1>3, <1>4, CommandGoesOn

\* A command takes a sound copy, with the label the record has.
LEMMA CommandTakes ==
  ASSUME PubTyped, Honest, NEW c \in 1..Together, cmd[c] # Idle,
         NEW r \in Full, NEW step \in PubSteps \union {"done"}, Takes(c, r, step),
         step \in AcixSteps => Reached(r, onAcix'),
         record' = record \/ (record' \in Full /\ Reached(record', onAcix')),
         onAcix' \in [Halves -> Label \union {NoRecord}],
         \A h \in Halves : onAcix[h] # NoRecord => onAcix'[h] # NoRecord,
         Agreed => \A h \in Halves : onAcix'[h] = onAcix[h] \/ onAcix'[h] = record.label,
         Agreed =>
           /\ record' # NoRecord => Labelled(Upgraded(record'), onAcix')
           /\ step \in AcixSteps =>
                record' # NoRecord /\ Labelled(r, onAcix') /\ r.label = record'.label
  PROVE  PubTyped' /\ Honest' /\ (Agreed /\ ~Relabels(c) => Agreed')
<1>1. PICK k : k = [cmd[c] EXCEPT !.step = step, !.mine = r]
  OBVIOUS
<1>2. cmd[c] \in Commands
  BY DEF PubTyped
<1>3. k.step = step /\ k.mine = r /\ (step # "done" => k \in Commands)
  BY <1>1, <1>2 DEF Commands, Full
<1>4. Becomes(c, k)
  BY <1>1 DEF Takes
<1> QED
  BY <1>3, <1>4, CommandMoves

\* A record is written, or not and then the command is done with AnimeciX.
LEMMA CommandPersists ==
  ASSUME PubTyped, Honest, NEW c \in 1..Together, cmd[c] # Idle,
         NEW r \in Full, NEW next \in PubSteps \union {"done"}, NEW otherwise \in {"open", "done"},
         Persist(c, r, next, otherwise), Reached(r, onAcix), onAcix' = onAcix,
         Agreed => Labelled(r, onAcix)
  PROVE  PubTyped' /\ Honest' /\ (Agreed /\ ~Relabels(c) => Agreed')
<1>1. onAcix' \in [Halves -> Label \union {NoRecord}] /\ r # NoRecord
  BY RecordsDiffer DEF PubTyped, Full
<1>2. otherwise \in PubSteps \union {"done"} /\ otherwise \notin AcixSteps
  BY DEF PubSteps, AcixSteps
<1>3. CASE record' = r /\ Takes(c, r, next)
  <2>1. Agreed => Labelled(Upgraded(record'), onAcix')
    BY <1>3, UpgradesAreFull DEF Labelled, Full
  <2> QED
    BY <1>1, <1>3, <2>1, CommandTakes
<1>4. CASE record' = record /\ Takes(c, r, otherwise)
  <2>1. Agreed => (record' # NoRecord => Labelled(Upgraded(record'), onAcix'))
    BY <1>4 DEF Agreed
  <2>2. Agreed =>
          /\ record' # NoRecord => Labelled(Upgraded(record'), onAcix')
          /\ otherwise \in AcixSteps =>
               record' # NoRecord /\ Labelled(r, onAcix') /\ r.label = record'.label
    BY <1>2, <2>1
  <2>3. \A h \in Halves : onAcix[h] # NoRecord => onAcix'[h] # NoRecord
    OBVIOUS
  <2> QED
    BY <1>1, <1>2, <1>4, <2>2, <2>3, CommandTakes
<1> QED
  BY <1>3, <1>4 DEF Persist

LEMMA GroupsAreKnown ==
  ASSUME KindsAreKnown, PubTyped, NEW c \in 1..Together, cmd[c] # Idle, NEW site,
         GroupAt(c, site) # "excluded"
  PROVE  GroupAt(c, site) \in Groups
<1>1. cmd[c].group \in Groups /\ ServerGroup \in Groups
  BY DEF PubTyped, Commands, KindsAreKnown
<1> QED
  BY <1>1 DEF GroupAt

LEMMA NextSteps ==
  ASSUME NEW c, NEW half \in Halves
  PROVE  /\ AfterAcix(c) \in {"open", "done"} /\ AfterAcix(c) \in PubSteps \union {"done"}
         /\ AfterAcix(c) \notin AcixSteps
         /\ NextHalf(c, half) \in PubSteps \union {"done"}
         /\ NoteOf(half) \in AcixSteps /\ NoteOf(half) \in PubSteps
BY DEF AfterAcix, NextHalf, NoteOf, PubSteps, AcixSteps

LEMMA QueueKeeps ==
  ASSUME KindsAreKnown, PubTyped, Honest, NEW c \in 1..Together, cmd[c] # Idle, Queue(c)
  PROVE  PubTyped' /\ Honest' /\ (Agreed /\ ~Relabels(c) => Agreed')
<1> DEFINE group == GroupAt(c, "AnimeciX")
<1>1. onAcix' = onAcix
  BY DEF Queue, sites
<1>2. CASE Moves(c, "open") \/ Moves(c, "confirm")
  <2>1. /\ "open" \in PubSteps \union {"done"} /\ "open" \notin AcixSteps
        /\ "confirm" \in PubSteps \union {"done"} /\ "confirm" \notin AcixSteps
    BY DEF PubSteps, AcixSteps
  <2> QED
    BY <1>1, <1>2, <2>1, CommandGoes DEF Moves
<1>3. CASE group # "excluded" /\ Persist(c, NewRecord(group, cmd[c].id), "confirm", "open")
  <2>1. group \in Groups
    BY <1>3, GroupsAreKnown
  <2>2. cmd[c].id \in BOOLEAN
    BY DEF PubTyped, Commands
  <2>3. PICK r : r = NewRecord(group, cmd[c].id)
    OBVIOUS
  <2>4. r \in Full /\ \A h \in Halves : r[h] = "pending"
    BY <2>1, <2>2, <2>3, NewIsPending
  <2>5. Reached(r, onAcix) /\ Labelled(r, onAcix)
    BY <2>4 DEF Reached, Labelled
  <2>6. "confirm" \in PubSteps \union {"done"} /\ "open" \in {"open", "done"}
    BY DEF PubSteps
  <2>7. Persist(c, r, "confirm", "open")
    BY <1>3, <2>3
  <2> QED
    BY <1>1, <2>4, <2>5, <2>6, <2>7, CommandPersists
<1> QED
  BY <1>2, <1>3 DEF Queue

LEMMA ConfirmKeeps ==
  ASSUME KindsAreKnown, PubTyped, Honest, NEW c \in 1..Together, cmd[c] # Idle, Confirm(c)
  PROVE  PubTyped' /\ Honest' /\ (Agreed /\ ~Relabels(c) => Agreed')
<1> DEFINE relabel == cmd[c].has /\ "AnimeciX" \in cmd[c].named
           read == Upgraded(record)
           noted == [read EXCEPT !.id = @ \/ cmd[c].id]
           edits == cmd[c].edit \/ relabel
           edited == [noted EXCEPT
             !.label.group = IF relabel THEN cmd[c].group ELSE @,
             !.label.extra = IF cmd[c].edit THEN "edited" ELSE @]
<1>1. onAcix' = onAcix
  BY DEF Confirm, sites
<1>2. /\ AfterAcix(c) \in PubSteps \union {"done"} /\ AfterAcix(c) \notin AcixSteps
      /\ AfterAcix(c) \in {"open", "done"} /\ "resolve" \in PubSteps \union {"done"}
  BY DEF AfterAcix, PubSteps, AcixSteps
<1>3. CASE Moves(c, AfterAcix(c))
  BY <1>1, <1>2, <1>3, CommandGoes DEF Moves
<1>4. ASSUME record # NoRecord
      PROVE  /\ read \in Full /\ read \in Records /\ read.label \in Label
             /\ Reached(read, onAcix) /\ (Agreed => Labelled(read, onAcix))
             /\ Agreed => read.label = record.label
  BY <1>4, UpgradesAreFull DEF PubTyped, Honest, Agreed, Full, Records
<1>5. ASSUME record # NoRecord
      PROVE  /\ WithStatus(noted) \in Full /\ WithStatus(noted).label = read.label
             /\ \A h \in Halves : WithStatus(noted)[h] = read[h]
  <2>1. PICK n : n = noted
    OBVIOUS
  <2>2. cmd[c].id \in BOOLEAN
    BY DEF PubTyped, Commands
  <2>3. n \in Full /\ n \in Records /\ n.label = read.label /\ \A h \in Halves : n[h] = read[h]
    <3> HIDE DEF read
    <3> QED
      BY <1>4, <1>5, <2>1, <2>2 DEF Full, Records, Halves
  <2> HIDE DEF noted, read
  <2> QED
    BY <2>1, <2>3, StatusOnly
<1>6. ASSUME record # NoRecord
      PROVE  /\ WithStatus(edited) \in Full
             /\ \A h \in Halves : WithStatus(edited)[h] = read[h]
             /\ ~edits => WithStatus(edited).label = read.label
  <2>1. PICK e : e = edited
    OBVIOUS
  <2>2. cmd[c].id \in BOOLEAN /\ cmd[c].group \in Groups /\ cmd[c].edit \in BOOLEAN
    BY DEF PubTyped, Commands
  <2>3. e \in Full /\ e \in Records /\ (~edits => e.label = read.label) /\ \A h \in Halves : e[h] = read[h]
    <3> HIDE DEF read
    <3> QED
      BY <1>4, <1>6, <2>1, <2>2 DEF Full, Records, Halves, Label
  <2> HIDE DEF edited, read
  <2> QED
    BY <2>1, <2>3, StatusOnly
<1> HIDE DEF noted, edited, read, edits
<1>7. CASE record # NoRecord /\ Persist(c, WithStatus(noted), AfterAcix(c), AfterAcix(c))
  <2>1. PICK r : r = WithStatus(noted)
    OBVIOUS
  <2>2. r \in Full /\ Reached(r, onAcix) /\ (Agreed => Labelled(r, onAcix))
    BY <1>4, <1>5, <1>7, <2>1 DEF Reached, Labelled
  <2>3. Persist(c, r, AfterAcix(c), AfterAcix(c))
    BY <1>7, <2>1
  <2> QED
    BY <1>1, <1>2, <2>2, <2>3, CommandPersists
<1>8. CASE record # NoRecord /\ ~EditsRefused(read, edits)
           /\ Persist(c, WithStatus(edited), "resolve", AfterAcix(c))
  <2>1. PICK r : r = WithStatus(edited)
    OBVIOUS
  <2>2. edits => \A h \in Halves : read[h] # "published"
    BY <1>8 DEF EditsRefused, HalfPublished
  <2>3. r \in Full /\ Reached(r, onAcix) /\ (Agreed => Labelled(r, onAcix))
    BY <1>4, <1>6, <1>8, <2>1, <2>2 DEF Reached, Labelled
  <2>4. Persist(c, r, "resolve", AfterAcix(c))
    BY <1>8, <2>1
  <2> QED
    BY <1>1, <1>2, <2>3, <2>4, CommandPersists
<1>9. CASE record # NoRecord /\ record' = WithStatus(noted) /\ Goes(c, AfterAcix(c))
  <2>1. PICK k : k = [cmd[c] EXCEPT !.step = AfterAcix(c)]
    OBVIOUS
  <2>2. Becomes(c, k) /\ k.step \notin AcixSteps /\ (k.step = "done" \/ k \in Commands)
    <3>1. cmd[c] \in Commands
      BY DEF PubTyped
    <3>2. k.step = AfterAcix(c) /\ (k.step # "done" => k \in Commands)
      BY <1>2, <2>1, <3>1 DEF Commands
    <3> QED
      BY <1>2, <1>9, <2>1, <3>2 DEF Goes
  <2>3. record' \in Full /\ Reached(record', onAcix')
        /\ (Agreed => Labelled(Upgraded(record'), onAcix'))
    <3>1. record' \in Full /\ Reached(record', onAcix) /\ (Agreed => Labelled(record', onAcix))
      BY <1>4, <1>5, <1>9 DEF Reached, Labelled
    <3> QED
      BY <1>1, <3>1, UpgradesAreFull DEF Labelled, Full
  <2>4. onAcix' \in [Halves -> Label \union {NoRecord}]
    BY <1>1 DEF PubTyped
  <2> QED
    BY <1>1, <2>2, <2>3, <2>4, CommandMoves
<1>10. CASE record # NoRecord /\ Takes(c, read, "resolve") /\ record' = record
  <2>1. PICK r : r = read
    OBVIOUS
  <2>2. r \in Full /\ Reached(r, onAcix')
    BY <1>1, <1>4, <1>10, <2>1
  <2>3. onAcix' \in [Halves -> Label \union {NoRecord}] /\ record' # NoRecord
    BY <1>1, <1>10 DEF PubTyped
  <2>4. Agreed =>
          Labelled(Upgraded(record'), onAcix') /\ Labelled(r, onAcix') /\ r.label = record'.label
    BY <1>1, <1>4, <1>10, <2>1 DEF Agreed
  <2>5. Takes(c, r, "resolve")
    BY <1>10, <2>1
  <2> QED
    BY <1>1, <1>2, <1>10, <2>2, <2>3, <2>4, <2>5, CommandTakes
<1> QED
  BY <1>3, <1>7, <1>8, <1>9, <1>10 DEF Confirm, noted, edited, read, edits

\* The copy of a command that is at AnimeciX is sound.
LEMMA CopiesAreSound ==
  ASSUME PubTyped, Honest, NEW c \in 1..Together, cmd[c].step \in AcixSteps
  PROVE  /\ cmd[c] # Idle /\ cmd[c].mine \in Full /\ cmd[c].mine \in Records
         /\ cmd[c].mine.label \in Label /\ Reached(cmd[c].mine, onAcix)
         /\ Agreed => record # NoRecord /\ Labelled(cmd[c].mine, onAcix)
                      /\ cmd[c].mine.label = record.label
<1>1. cmd[c] # Idle
  BY RecordsDiffer DEF PubSteps
<1> QED
  BY <1>1 DEF PubTyped, Honest, Agreed, Full, Records

LEMMA ResolveKeeps ==
  ASSUME PubTyped, Honest, NEW c \in 1..Together, cmd[c] # Idle, Resolve(c)
  PROVE  PubTyped' /\ Honest' /\ (Agreed /\ ~Relabels(c) => Agreed')
<1>1. onAcix' = onAcix /\ record' = record /\ cmd[c].step \in AcixSteps
  BY DEF Resolve, Moves, sites, At, AcixSteps
<1>2. "multishare" \in PubSteps \union {"done"} /\ "write" \in PubSteps \union {"done"}
  BY DEF PubSteps, AcixSteps
<1>3. CASE Goes(c, "multishare")
  BY <1>1, <1>2, <1>3, CommandGoes
<1>4. CASE Takes(c, SharedFailure(cmd[c].mine), "write")
  <2>1. PICK m : m = cmd[c].mine
    OBVIOUS
  <2>2. PICK r : r = SharedFailure(m)
    OBVIOUS
  <2>3. m \in Full /\ Reached(m, onAcix)
        /\ (Agreed => record # NoRecord /\ Labelled(m, onAcix) /\ m.label = record.label)
    BY <1>1, <2>1, CopiesAreSound
  <2>4. r \in Full /\ r.label = m.label /\ \A h \in Halves : r[h] = "published" => m[h] = "published"
    BY <2>2, <2>3, FailuresAndResets
  <2>5. Reached(r, onAcix')
    BY <1>1, <2>3, <2>4 DEF Reached
  <2>6. Agreed =>
          /\ record' # NoRecord => Labelled(Upgraded(record'), onAcix')
          /\ record' # NoRecord /\ Labelled(r, onAcix') /\ r.label = record'.label
    BY <1>1, <2>3, <2>4 DEF Agreed, Labelled
  <2>7. Takes(c, r, "write") /\ onAcix' \in [Halves -> Label \union {NoRecord}]
    BY <1>1, <1>4, <2>1, <2>2 DEF PubTyped
  <2> QED
    BY <1>1, <1>2, <2>4, <2>5, <2>6, <2>7, CommandTakes
<1> QED
  BY <1>3, <1>4 DEF Resolve, Moves

LEMMA WriteKeeps ==
  ASSUME PubTyped, Honest, NEW c \in 1..Together, cmd[c] # Idle, Write(c)
  PROVE  PubTyped' /\ Honest' /\ (Agreed /\ ~Relabels(c) => Agreed')
<1>1. onAcix' = onAcix /\ cmd[c].step \in AcixSteps
  BY DEF Write, sites, At, AcixSteps
<1>2. PICK r : r = cmd[c].mine
  OBVIOUS
<1>3. r \in Full /\ Reached(r, onAcix) /\ (Agreed => Labelled(r, onAcix))
  BY <1>1, <1>2, CopiesAreSound
<1>4. Persist(c, r, AfterAcix(c), AfterAcix(c))
  BY <1>2 DEF Write
<1>5. AfterAcix(c) \in {"open", "done"} /\ AfterAcix(c) \in PubSteps \union {"done"}
  BY DEF AfterAcix, PubSteps
<1> QED
  BY <1>1, <1>3, <1>4, <1>5, CommandPersists

LEMMA NoteKeeps ==
  ASSUME PubTyped, Honest, NEW c \in 1..Together, cmd[c] # Idle, NEW half \in Halves, Note(c, half)
  PROVE  PubTyped' /\ Honest' /\ (Agreed /\ ~Relabels(c) => Agreed')
<1>1. onAcix' = onAcix /\ cmd[c].step \in AcixSteps
  BY NextSteps DEF Note, sites, At
<1>2. PICK r : r = WithStatus(cmd[c].mine)
  OBVIOUS
<1>3. r \in Full /\ Reached(r, onAcix) /\ (Agreed => Labelled(r, onAcix))
  <2>1. PICK m : m = cmd[c].mine
    OBVIOUS
  <2>2. m \in Full /\ m \in Records /\ Reached(m, onAcix) /\ (Agreed => Labelled(m, onAcix))
    BY <1>1, <2>1, CopiesAreSound
  <2>3. r \in Full /\ r.label = m.label /\ \A h \in Halves : r[h] = m[h]
    BY <1>2, <2>1, <2>2, StatusOnly
  <2> QED
    BY <2>2, <2>3 DEF Reached, Labelled
<1>4. Persist(c, r, NextHalf(c, half), AfterAcix(c))
  BY <1>2 DEF Note
<1> QED
  BY <1>1, <1>3, <1>4, NextSteps, CommandPersists

LEMMA UnpublishKeeps ==
  ASSUME PubTyped, Honest, NEW c \in 1..Together, cmd[c] # Idle, Unpublish(c)
  PROVE  PubTyped' /\ Honest' /\ (Agreed /\ ~Relabels(c) => Agreed')
<1>1. onAcix' = onAcix /\ record' = record
  BY DEF Unpublish, Moves, sites
<1>2. "done" \notin AcixSteps /\ "write" \in PubSteps \union {"done"}
  BY DEF PubSteps, AcixSteps
<1>3. CASE Goes(c, "done")
  BY <1>1, <1>2, <1>3, CommandGoes
<1>4. CASE record # NoRecord /\ Takes(c, Reset(Upgraded(record), cmd[c].scope), "write")
  <2>1. PICK u : u = Upgraded(record)
    OBVIOUS
  <2>2. PICK r : r = Reset(u, cmd[c].scope)
    OBVIOUS
  <2>3. u \in Full /\ Reached(u, onAcix) /\ (Agreed => Labelled(u, onAcix) /\ u.label = record.label)
    BY <1>4, <2>1, UpgradesAreFull DEF PubTyped, Honest, Agreed
  <2>4. r \in Full /\ r.label = u.label /\ \A h \in Halves : r[h] = "published" => u[h] = "published"
    BY <2>2, <2>3, FailuresAndResets
  <2>5. Reached(r, onAcix')
    BY <1>1, <2>3, <2>4 DEF Reached
  <2>6. Agreed =>
          /\ record' # NoRecord => Labelled(Upgraded(record'), onAcix')
          /\ record' # NoRecord /\ Labelled(r, onAcix') /\ r.label = record'.label
    BY <1>1, <1>4, <2>3, <2>4 DEF Agreed, Labelled
  <2>7. Takes(c, r, "write") /\ onAcix' \in [Halves -> Label \union {NoRecord}]
    BY <1>1, <1>4, <2>1, <2>2 DEF PubTyped
  <2> QED
    BY <1>1, <1>2, <2>4, <2>5, <2>6, <2>7, CommandTakes
<1> QED
  BY <1>3, <1>4 DEF Unpublish, Moves

\* A half is on the site under the label of the copy when it is noted as such.
LEMMA SendKeeps ==
  ASSUME PubTyped, Honest, NEW c \in 1..Together, cmd[c] # Idle, NEW half \in Halves, Send(c, half)
  PROVE  PubTyped' /\ Honest' /\ (Agreed /\ ~Relabels(c) => Agreed')
<1>1. record' = record /\ cmd[c].step \in AcixSteps
  BY DEF Send, At, AcixSteps, Halves
<1>2. PICK m : m = cmd[c].mine
  OBVIOUS
<1>3. m \in Full /\ m \in Records /\ m.label \in Label /\ Reached(m, onAcix)
      /\ (Agreed => record # NoRecord /\ Labelled(m, onAcix) /\ m.label = record.label)
  BY <1>1, <1>2, CopiesAreSound
<1>4. CASE Goes(c, NextHalf(c, half)) /\ onAcix' = onAcix
  BY <1>1, <1>4, NextSteps, CommandGoes
<1>5. ASSUME NEW done \in BOOLEAN, NEW result \in {"ok", "error"}, result = "ok" => done,
             onAcix' = IF done THEN [onAcix EXCEPT ![half] = m.label] ELSE onAcix,
             Takes(c, [m EXCEPT ![half] = IF result = "ok" THEN "published" ELSE "failed"], NoteOf(half))
      PROVE  PubTyped' /\ Honest' /\ (Agreed /\ ~Relabels(c) => Agreed')
  <2>1. PICK r : r = [m EXCEPT ![half] = IF result = "ok" THEN "published" ELSE "failed"]
    OBVIOUS
  <2>2. /\ r \in Full /\ r.label = m.label
        /\ r[half] = "published" => done
        /\ \A h \in Halves : h # half => r[h] = m[h]
    BY <1>3, <1>5, <2>1 DEF Full, Records, Halves, HalfStates
  <2>3. /\ onAcix' \in [Halves -> Label \union {NoRecord}]
        /\ \A h \in Halves : h # half => onAcix'[h] = onAcix[h]
        /\ onAcix'[half] = IF done THEN m.label ELSE onAcix[half]
    BY <1>3, <1>5 DEF PubTyped
  <2>4. /\ Reached(r, onAcix')
        /\ \A h \in Halves : onAcix[h] # NoRecord => onAcix'[h] # NoRecord
    BY <1>3, <2>2, <2>3, RecordsDiffer DEF Reached
  <2>5. Agreed =>
          /\ record' # NoRecord => Labelled(Upgraded(record'), onAcix')
          /\ record' # NoRecord /\ Labelled(r, onAcix') /\ r.label = record'.label
    <3>1. SUFFICES ASSUME Agreed
                   PROVE  /\ record # NoRecord => Labelled(Upgraded(record), onAcix')
                          /\ record # NoRecord /\ Labelled(r, onAcix') /\ r.label = record.label
      BY <1>1
    <3>2. record # NoRecord /\ Labelled(m, onAcix) /\ m.label = record.label
      BY <1>3, <3>1
    <3>3. PICK u : u = Upgraded(record)
      OBVIOUS
    <3>4. u.label = record.label /\ Labelled(u, onAcix)
      BY <3>1, <3>2, <3>3, UpgradesAreFull DEF Agreed, PubTyped
    <3> QED
      BY <2>2, <2>3, <3>2, <3>3, <3>4 DEF Labelled
  <2>6. Takes(c, r, NoteOf(half)) /\ NoteOf(half) \in PubSteps \union {"done"}
    BY <1>5, <2>1, NextSteps
  <2>7. Agreed => \A h \in Halves : onAcix'[h] = onAcix[h] \/ onAcix'[h] = record.label
    BY <1>3, <2>3
  <2> QED
    BY <1>1, <2>2, <2>3, <2>4, <2>5, <2>6, <2>7, CommandTakes
<1> QED
  BY <1>2, <1>4, <1>5 DEF Send, Call

\* The other sites have no part in it.
LEMMA OtherSitesKeep ==
  ASSUME PubTyped, Honest, NEW c \in 1..Together, cmd[c] # Idle,
         OpenSource(c) \/ Episode(c) \/ Relations(c) \/ Created(c) \/ Video(c) \/ Akira(c)
  PROVE  PubTyped' /\ Honest' /\ (Agreed /\ ~Relabels(c) => Agreed')
<1> DEFINE Later == {"open", "relations", "created", "videos", "akira update", "akira create", "links"}
<1>1. record' = record /\ onAcix' = onAcix
  BY DEF OpenSource, Episode, Relations, Created, Video, Akira, Moves, sites
<1>2. \A step \in Later \union {"done"} : step \in PubSteps \union {"done"} /\ step \notin AcixSteps
  BY DEF PubSteps, AcixSteps
<1>3. CASE \E step \in Later \union {"done"} : Goes(c, step)
  BY <1>1, <1>2, <1>3, CommandGoes
<1>4. ASSUME NEW step \in {"done", "relations", cmd[c].step}, NEW left \in SUBSET Links,
             cmd[c].step \notin AcixSteps,
             Becomes(c, [cmd[c] EXCEPT !.step = step, !.left = left])
      PROVE  PubTyped' /\ Honest' /\ (Agreed /\ ~Relabels(c) => Agreed')
  <2>1. PICK k : k = [cmd[c] EXCEPT !.step = step, !.left = left]
    OBVIOUS
  <2>2. cmd[c] \in Commands
    BY DEF PubTyped
  <2>3. k.step = step /\ k.mine = cmd[c].mine /\ (step # "done" => k \in Commands)
    BY <1>2, <2>1, <2>2 DEF Commands
  <2>4. step \notin AcixSteps
    BY <1>2, <1>4
  <2>5. Becomes(c, k)
    BY <1>4, <2>1
  <2> QED
    BY <1>1, <2>3, <2>4, <2>5, CommandGoesOn
<1>5. ASSUME NEW link \in cmd[c].left, At(c, "open") \/ At(c, "videos"),
             Becomes(c, [cmd[c] EXCEPT !.left = @ \ {link}])
      PROVE  PubTyped' /\ Honest' /\ (Agreed /\ ~Relabels(c) => Agreed')
  <2>1. cmd[c] \in Commands /\ cmd[c].left \ {link} \in SUBSET Links /\ cmd[c].step \notin AcixSteps
    BY <1>5 DEF PubTyped, Commands, At, AcixSteps
  <2>2. [cmd[c] EXCEPT !.left = @ \ {link}]
          = [cmd[c] EXCEPT !.step = cmd[c].step, !.left = cmd[c].left \ {link}]
    BY <2>1 DEF Commands
  <2> QED
    BY <1>4, <1>5, <2>1, <2>2
<1>6. CASE OpenSource(c)
  <2>1. cmd[c].step \notin AcixSteps /\ AfterOpen(c) \in {"done", "relations"}
    BY <1>6 DEF OpenSource, At, AcixSteps, AfterOpen
  <2> QED
    BY <1>4, <1>5, <1>6, <2>1 DEF OpenSource
<1>7. CASE Episode(c)
  BY <1>3, <1>7 DEF Episode, Moves
<1>8. CASE Relations(c)
  BY <1>3, <1>8 DEF Relations, Moves
<1>9. CASE Created(c)
  BY <1>3, <1>9 DEF Created, Moves
<1>10. CASE Video(c)
  BY <1>3, <1>5, <1>10 DEF Video, Moves
<1>11. CASE Akira(c)
  BY <1>3, <1>11 DEF Akira, Moves
<1> QED
  BY <1>6, <1>7, <1>8, <1>9, <1>10, <1>11

LEMMA GiveKeeps ==
  ASSUME KindsAreKnown, PubTyped, Honest, Give
  PROVE  PubTyped' /\ Honest' /\ (Agreed => Agreed')
<1>1. PICK kind \in Kinds, named \in Namings \union {{}}, group \in Groups, edit \in BOOLEAN,
           scope \in SUBSET Halves, id \in BOOLEAN : Given(kind, named, group, edit, scope, id)
  BY DEF Give, KindsAreKnown
<1>2. PICK c \in 1..Together :
           cmd' = [cmd EXCEPT ![c] =
             [kind |-> kind, step |-> FirstStep(kind), named |-> named, group |-> group,
              edit |-> edit, scope |-> scope, id |-> id, has |-> record # NoRecord,
              mine |-> NoRecord, left |-> Links]]
  BY <1>1 DEF Given, PubTyped
<1>3. FirstStep(kind) \in PubSteps /\ FirstStep(kind) \notin AcixSteps
  BY DEF FirstStep, PubSteps, AcixSteps, KindsAreKnown
<1>4. record' = record /\ onAcix' = onAcix
  BY <1>1 DEF Given, sites
<1>5. /\ cmd'[c] \in Commands /\ cmd'[c].step = FirstStep(kind)
      /\ \A d \in 1..Together : d # c => cmd'[d] = cmd[d]
      /\ cmd' \in [1..Together -> Commands \union {Idle}]
  BY <1>2, <1>3 DEF PubTyped, Commands
<1>6. \A d \in 1..Together : cmd'[d].step \in AcixSteps => cmd'[d] = cmd[d]
  BY <1>3, <1>5
<1> QED
  BY <1>4, <1>5, <1>6 DEF PubTyped, Honest, Agreed

LEMMA StopKeeps ==
  ASSUME PubTyped, Honest, Stopped
  PROVE  PubTyped' /\ Honest' /\ (Agreed => Agreed')
<1>1. record' = record /\ onAcix' = onAcix /\ cmd' = [c \in 1..Together |-> Idle]
  BY DEF Stopped, sites, PubTyped
<1>2. \A c \in 1..Together : cmd'[c].step \notin AcixSteps
  BY <1>1, RecordsDiffer DEF PubSteps
<1> QED
  BY <1>1, <1>2 DEF PubTyped, Honest, Agreed

LEMMA PubStepsKeep ==
  ASSUME KindsAreKnown, PubTyped, Honest, [PubNext]_pubVars
  PROVE  PubTyped' /\ Honest' /\ ((~raced => Agreed) => (~raced' => Agreed'))
<1>1. CASE UNCHANGED pubVars
  BY <1>1 DEF pubVars, PubTyped, Honest, Agreed
<1>2. ASSUME NEW c \in 1..Together, cmd[c] # Idle, Step(c)
      PROVE  PubTyped' /\ Honest' /\ (Agreed /\ ~Relabels(c) => Agreed')
  BY <1>2, QueueKeeps, ConfirmKeeps, ResolveKeeps, WriteKeeps, UnpublishKeeps, SendKeeps, NoteKeeps,
     OtherSitesKeep DEF Step
<1>3. DOMAIN cmd = 1..Together
  BY DEF PubTyped
<1>4. CASE Give /\ raced' = raced
  BY <1>4, GiveKeeps
<1>5. CASE Stopped /\ raced' = raced
  BY <1>5, StopKeeps
<1>6. ASSUME NEW c \in 1..Together, cmd[c] # Idle, Step(c), raced' = (raced \/ Relabels(c))
      PROVE  PubTyped' /\ Honest' /\ ((~raced => Agreed) => (~raced' => Agreed'))
  <2>1. PubTyped' /\ Honest' /\ (Agreed /\ ~Relabels(c) => Agreed')
    BY <1>2, <1>6
  <2>2. ~raced' => ~raced /\ ~Relabels(c)
    BY <1>6
  <2> QED
    BY <2>1, <2>2
<1> QED
  BY <1>1, <1>3, <1>4, <1>5, <1>6 DEF PubNext

LEMMA PubBegins ==
  ASSUME KindsAreKnown, PubInit
  PROVE  PubTyped /\ Honest /\ Agreed
<1>1. cmd \in [1..Together -> Commands \union {Idle}] /\ \A c \in 1..Together : cmd[c].step \notin AcixSteps
  BY RecordsDiffer DEF PubInit, PubSteps
<1>2. NewRecord(ServerGroup, FALSE) \in Full /\ \A h \in Halves : NewRecord(ServerGroup, FALSE)[h] = "pending"
  BY NewIsPending DEF KindsAreKnown
<1>3. /\ LegacyRecord \in Records /\ LegacyRecord.label \in Label
      /\ Upgraded(LegacyRecord)["multiple"] = "pending"
  <2>1. PICK n : n = NewRecord(ServerGroup, FALSE)
    OBVIOUS
  <2>2. n \in Records /\ n.label \in Label
    BY <1>2, <2>1 DEF Full, Records
  <2>3. PICK l : l = LegacyRecord
    OBVIOUS
  <2>4. l \in Records /\ l.label = n.label /\ l.status = "published"
        /\ l["multishare"] = "none" /\ l["multiple"] = "none"
    BY <2>1, <2>2, <2>3 DEF LegacyRecord, Records, HalfStates
  <2>5. PICK u : u = [l EXCEPT
          !.multishare = IF @ = "none" THEN IF l.status = "published" THEN "published" ELSE "pending" ELSE @,
          !.multiple = IF @ = "none" THEN "pending" ELSE @]
    OBVIOUS
  <2>6. u \in Records /\ u["multiple"] = "pending"
    BY <2>4, <2>5 DEF Records, HalfStates
  <2> QED
    BY <2>2, <2>3, <2>4, <2>5, <2>6, StatusOnly DEF Upgraded, Halves
<1>4. PubTyped
  BY <1>1, <1>2, <1>3, RecordsDiffer DEF PubInit, PubTyped, Full
<1>5. record # NoRecord => Reached(Upgraded(record), onAcix) /\ Labelled(Upgraded(record), onAcix)
  <2>1. CASE record = NewRecord(ServerGroup, FALSE)
    BY <1>2, <2>1, UpgradesAreFull DEF Reached, Labelled, Full
  <2>2. CASE record = LegacyRecord
    BY <1>3, <2>2, UpgradesAreFull, RecordsDiffer DEF PubInit, Reached, Labelled, Halves
  <2> QED
    BY <2>1, <2>2 DEF PubInit
<1> QED
  BY <1>1, <1>4, <1>5 DEF Honest, Agreed

\* A half that the row says is published has reached AnimeciX, for any number of
\* commands at work at a time, whatever is refused, lost or stopped.
THEOREM RecordsAreHonest ==
  ASSUME KindsAreKnown
  PROVE  PubSpec => []RecordedIsOnSite
<1>1. PubInit => PubTyped /\ Honest
  BY PubBegins
<1>2. PubTyped /\ Honest /\ [PubNext]_pubVars => PubTyped' /\ Honest'
  BY PubStepsKeep
<1>3. Honest => RecordedIsOnSite
  BY DEF Honest, Reached, RecordedIsOnSite
<1> QED
  BY <1>1, <1>2, <1>3, PTL DEF PubSpec

\* The halves of an episode that is published went out under one fansub and one line
\* of credits, for any number of commands at work at a time, unless the record got
\* another label while a command had a copy of it.
THEOREM OneLabel ==
  ASSUME KindsAreKnown
  PROVE  PubSpec => []HalvesAgree
<1> DEFINE Inv == PubTyped /\ Honest /\ (~raced => Agreed)
<1>1. PubInit => Inv
  BY PubBegins
<1>2. Inv /\ [PubNext]_pubVars => Inv'
  BY PubStepsKeep
<1>3. Inv => HalvesAgree
  <2> SUFFICES ASSUME PubTyped, Agreed, record # NoRecord, FullyPublished(record)
               PROVE  onAcix["multishare"] = onAcix["multiple"]
    BY DEF HalvesAgree
  <2>1. record \in Full
    BY DEF PubTyped, FullyPublished, Full, Halves
  <2>2. \A h \in Halves : Upgraded(record)[h] = "published"
    BY <2>1, UpgradesAreFull DEF FullyPublished, Full
  <2> QED
    BY <2>2 DEF Agreed, Labelled, Halves
<1> QED
  BY <1>1, <1>2, <1>3, PTL DEF PubSpec

-----------------------------------------------------------------------------
(***************************************************************************)
(* Why a keyword keeps its promise.  A word has an owner, a job at work or *)
(* one the main loop writes for, from its reservation until its output is  *)
(* there; nobody else is given it, and what it calls ready is nobody's any *)
(* more and is not written again before it expires.  That is so as long as *)
(* work ends before its words expire, and no other cleanup meets a file    *)
(* while it is written.                                                    *)
(***************************************************************************)
Partial(T) == UNION {[S -> T] : S \in SUBSET Words}
JobStates == {"new", "refused", "open", "done", "storing", "stored", "failed", "lost"}
ReaderStates == {"new", "waiting", "reading", "read", "failed", "lost"}

Owns(j) == Active(j) \/ (loop.at # "idle" /\ loop.job = j)

KeepsTyped ==
  /\ KeepsTypeOK
  /\ jobs \in [Kept -> [st : JobStates, word : Words \union {<<0, 0>>}]]
  /\ \A j \in Kept : jobs[j].st \notin {"new", "refused"} => jobs[j].word \in Words
  /\ IF loop.at = "idle" THEN loop = AtRest ELSE loop.job \in Kept
  /\ readers \in [Readers -> [st : ReaderStates, words : SUBSET Words,
                              found : Partial(Kept \union {Nobody}), got : Partial(Outputs)]]
  /\ \A r \in Readers : readers[r].st \in {"new", "waiting"} => DOMAIN readers[r].got = {}

OwnersAreAlone == \A i, j \in Kept : Owns(i) /\ Owns(j) /\ i # j => WordOf(i) # WordOf(j)
\* The word of an owner names it, and lasts.
OwnersAreNamed ==
  \A j \in Kept : Owns(j) =>
    /\ Known(keeps, WordOf(j))
    /\ keeps[WordOf(j)].meta.file = "whole" =>
         /\ keeps[WordOf(j)].meta.job = j /\ ~keeps[WordOf(j)].meta.ready
         /\ keeps[WordOf(j)].meta.left > 0
\* A file is torn while the loop writes it; what it will be suits the job.
OnlyTheLoopTears ==
  /\ \A w \in Words : keeps[w].meta.file = "torn" => loop.at = "writing" /\ w = WordOf(loop.job)
  /\ loop.at = "copying" => jobs[loop.job].st = "storing"
  /\ loop.at = "writing" =>
       /\ keeps[WordOf(loop.job)].meta.file = "torn" /\ loop.meta.file = "whole"
       /\ jobs[loop.job].st \in {"open", "storing", "failed"}
       /\ jobs[loop.job].st = "failed" => ~loop.meta.ready
       /\ jobs[loop.job].st = "open" => loop.meta = MetaOf(loop.job, FALSE)
       /\ jobs[loop.job].st = "storing" =>
            /\ loop.meta = MetaOf(loop.job, TRUE)
            /\ keeps[WordOf(loop.job)].out = [job |-> loop.job, whole |-> TRUE]
\* What was found and is still to be read stays as it was found.
UnreadIsKept ==
  \A r \in Readers : \A w \in Unread(r) :
    /\ keeps[w].meta.file = "whole" /\ keeps[w].meta.ready /\ keeps[w].meta.left > 0
    /\ keeps[w].meta.job = readers[r].found[w]

KeepsInv ==
  /\ KeepsTyped /\ OwnersAreAlone /\ OwnersAreNamed /\ OnlyTheLoopTears /\ UnreadIsKept
  /\ ReadyIsWhole /\ FoundIsRead

KeepsAssumed ==
  /\ Bases \subseteq Nat /\ Rounds \in Nat /\ Ttl \in Nat \ {0}
  /\ Nobody \notin Kept
WorkEndsInTime == Outlive = FALSE
WritesAreAlone == OthersMeet = FALSE

\* A sweep takes what is unreadable or expired, and leaves the rest as it is.
LEMMA SweepTakes ==
  ASSUME KeepsAssumed, KeepsTyped, NEW S
  PROVE  /\ Swept(S) \in [Words -> [meta : Metas, out : Outputs]]
         /\ \A w \in Words :
              /\ Swept(S)[w] = keeps[w] \/ Swept(S)[w] = NoKeep
              /\ w \notin S => Swept(S)[w] = keeps[w]
              /\ keeps[w].meta.file = "whole" /\ keeps[w].meta.left > 0 => Swept(S)[w] = keeps[w]
              /\ w \in S /\ Swept(S)[w].meta.file = "whole" => Swept(S)[w].meta.left > 0
              /\ w \in S => Swept(S)[w].meta.file # "torn"
<1>1. NoKeep \in [meta : Metas, out : Outputs] /\ NoKeep.meta.file = "none"
  BY DEF NoKeep, NoMeta, NoOutput, Metas, Outputs, KeepsAssumed
<1>2. \A w \in Words : keeps[w] \in [meta : Metas, out : Outputs] /\ keeps[w].meta.left \in Nat
  BY DEF KeepsTyped, KeepsTypeOK, Metas
<1>3. \A w \in Words : Swept(S)[w] = IF w \in S /\ (Expired(w) \/ Unreadable(w)) THEN NoKeep ELSE keeps[w]
  BY DEF Swept
<1>4. Swept(S) \in [Words -> [meta : Metas, out : Outputs]]
  BY <1>1, <1>2 DEF Swept
<1>5. \A w \in Words : /\ Expired(w) => keeps[w].meta.left = 0
                       /\ keeps[w].meta.file = "whole" /\ ~Expired(w) => keeps[w].meta.left > 0
                       /\ Unreadable(w) <=> keeps[w].meta.file # "whole"
  BY <1>2 DEF Expired, Unreadable
<1> QED
  BY <1>1, <1>2, <1>3, <1>4, <1>5

\* A sweep that spares the word the loop writes.
LEMMA SweepSpares ==
  ASSUME KeepsAssumed, KeepsInv, NEW S, loop.at # "idle" => WordOf(loop.job) \notin S
  PROVE  /\ \A j \in Kept : Owns(j) => WordOf(j) \in Words /\ Swept(S)[WordOf(j)] = keeps[WordOf(j)]
         /\ \A r \in Readers : \A w \in Unread(r) : w \in Words /\ Swept(S)[w] = keeps[w]
         /\ \A w \in Words :
              /\ Swept(S)[w].meta.file = "torn" => keeps[w].meta.file = "torn"
              /\ Swept(S)[w].meta.file = "whole" /\ Swept(S)[w].meta.ready
                   => Swept(S)[w].out = [job |-> Swept(S)[w].meta.job, whole |-> TRUE]
<1>0. KeepsTyped /\ OwnersAreNamed /\ OnlyTheLoopTears /\ UnreadIsKept /\ ReadyIsWhole
  BY DEF KeepsInv
<1>1. \A w \in Words :
        /\ Swept(S)[w] = keeps[w] \/ Swept(S)[w] = NoKeep
        /\ w \notin S => Swept(S)[w] = keeps[w]
        /\ keeps[w].meta.file = "whole" /\ keeps[w].meta.left > 0 => Swept(S)[w] = keeps[w]
  BY <1>0, SweepTakes
<1>2. NoKeep.meta.file = "none"
  BY DEF NoKeep, NoMeta
<1>3. ASSUME NEW j \in Kept, Owns(j)
      PROVE  WordOf(j) \in Words /\ Swept(S)[WordOf(j)] = keeps[WordOf(j)]
  <2>1. WordOf(j) \in Words
    BY <1>0, <1>3 DEF KeepsTyped, KeepsTypeOK, Owns, Active, WordOf, OnlyTheLoopTears
  <2>2. keeps[WordOf(j)].meta.file \in {"none", "torn", "whole"}
    BY <1>0, <2>1 DEF KeepsTyped, KeepsTypeOK, Metas
  <2>3. CASE keeps[WordOf(j)].meta.file = "whole"
    BY <1>0, <1>1, <1>3, <2>1, <2>3 DEF OwnersAreNamed
  <2>4. CASE keeps[WordOf(j)].meta.file = "torn"
    BY <1>0, <1>1, <2>1, <2>4 DEF OnlyTheLoopTears
  <2> QED
    BY <1>0, <1>3, <2>1, <2>2, <2>3, <2>4 DEF OwnersAreNamed, Known
<1>4. ASSUME NEW r \in Readers, NEW w \in Unread(r)
      PROVE  w \in Words /\ Swept(S)[w] = keeps[w]
  <2>1. w \in Words
    BY <1>0, <1>4 DEF KeepsTyped, Unread
  <2> QED
    BY <1>0, <1>1, <1>4, <2>1 DEF UnreadIsKept
<1> QED
  BY <1>0, <1>1, <1>2, <1>3, <1>4 DEF ReadyIsWhole

\* A word whose owner is at work has nothing to be read.
LEMMA OwnedIsNotRead ==
  ASSUME KeepsInv, NEW j \in Kept, Owns(j), NEW r \in Readers
  PROVE  WordOf(j) \notin Unread(r)
BY DEF KeepsInv, OwnersAreNamed, UnreadIsKept

\* What is asked of a reader, with the keywords as they are in K.
ReaderRecords == [st : ReaderStates, words : SUBSET Words,
                  found : Partial(Kept \union {Nobody}), got : Partial(Outputs)]
ReaderSuits(K, x) ==
  /\ x.st \in {"new", "waiting"} => DOMAIN x.got = {}
  /\ \A w \in DOMAIN x.got : x.got[w] = [job |-> x.found[w], whole |-> TRUE]
  /\ x.st = "reading" => \A w \in x.words \ DOMAIN x.got :
       /\ K[w].meta.file = "whole" /\ K[w].meta.ready /\ K[w].meta.left > 0
       /\ K[w].meta.job = x.found[w]

\* The keywords are swept, readers go on, and a job may be refused.
LEMMA SweepKeeps ==
  ASSUME KeepsAssumed, KeepsInv, NEW S, loop.at # "idle" => WordOf(loop.job) \notin S,
         keeps' = Swept(S), UNCHANGED <<pool, loop>>,
         readers' \in [Readers -> ReaderRecords],
         \A r \in Readers : readers'[r] = readers[r] \/ ReaderSuits(keeps', readers'[r]),
         jobs' \in [Kept -> [st : JobStates, word : Words \union {<<0, 0>>}]],
         \A i \in Kept : \/ jobs'[i] = jobs[i]
                         \/ jobs[i].st = "new" /\ jobs'[i].st = "refused"
  PROVE  KeepsInv'
<1>0. KeepsTyped /\ OwnersAreAlone /\ OwnersAreNamed /\ OnlyTheLoopTears /\ UnreadIsKept /\ FoundIsRead
  BY DEF KeepsInv
<1>1. /\ \A j \in Kept : Owns(j) => WordOf(j) \in Words /\ keeps'[WordOf(j)] = keeps[WordOf(j)]
      /\ \A r \in Readers : \A w \in Unread(r) : w \in Words /\ keeps'[w] = keeps[w]
      /\ \A w \in Words :
           /\ keeps'[w].meta.file = "torn" => keeps[w].meta.file = "torn"
           /\ keeps'[w].meta.file = "whole" /\ keeps'[w].meta.ready
                => keeps'[w].out = [job |-> keeps'[w].meta.job, whole |-> TRUE]
  BY SweepSpares
<1>a. loop.at # "idle" => loop.job \in Kept /\ jobs[loop.job].st # "new"
  BY <1>0 DEF KeepsTyped, KeepsTypeOK, OnlyTheLoopTears
<1>b. \A i \in Kept : /\ Owns(i)' => Owns(i) /\ WordOf(i)' = WordOf(i)
                      /\ jobs[i].st # "new" => jobs'[i] = jobs[i]
  BY <1>a DEF Owns, Active, WordOf
<1>c. \A r \in Readers : ReaderSuits(keeps', readers'[r])
  <2> SUFFICES ASSUME NEW r \in Readers, readers'[r] = readers[r]
               PROVE  ReaderSuits(keeps', readers'[r])
    OBVIOUS
  <2>1. readers[r].st = "reading" => Unread(r) = readers[r].words \ DOMAIN readers[r].got
    BY DEF Unread
  <2>2. readers[r].st \in {"new", "waiting"} => DOMAIN readers[r].got = {}
    BY <1>0 DEF KeepsTyped
  <2>3. \A w \in DOMAIN readers[r].got :
          readers[r].got[w] = [job |-> readers[r].found[w], whole |-> TRUE]
    BY <1>0 DEF FoundIsRead
  <2> QED
    BY <1>0, <1>1, <2>1, <2>2, <2>3 DEF ReaderSuits, UnreadIsKept
<1>2. KeepsTyped'
  <2>1. keeps' \in [Words -> [meta : Metas, out : Outputs]]
    BY <1>0, SweepTakes
  <2>2. \A r \in Readers : readers'[r].st \in {"new", "waiting"} => DOMAIN readers'[r].got = {}
    BY <1>c DEF ReaderSuits
  <2>3. \A i \in Kept : jobs'[i].st \notin {"new", "refused"} => jobs'[i].word \in Words
    BY <1>0 DEF KeepsTyped
  <2>4. \A i \in Kept : jobs'[i].st \in JobStates
    OBVIOUS
  <2> QED
    BY <1>0, <2>1, <2>2, <2>3, <2>4 DEF KeepsTyped, KeepsTypeOK, JobStates, ReaderRecords
<1>3. OwnersAreAlone'
  BY <1>0, <1>b DEF OwnersAreAlone
<1>4. OwnersAreNamed'
  BY <1>0, <1>1, <1>b DEF OwnersAreNamed, Known
<1>5. OnlyTheLoopTears'
  <2>1. loop.at = "writing" => loop.job \in Kept /\ Owns(loop.job)
    BY <1>0 DEF KeepsTyped, Owns
  <2>2. loop.at # "idle" => jobs'[loop.job] = jobs[loop.job]
    BY <1>a, <1>b
  <2>3. loop.at \in {"idle", "copying", "writing"} /\ loop' = loop
    BY <1>0 DEF KeepsTyped, KeepsTypeOK
  <2>4. loop.at = "writing" =>
          WordOf(loop.job)' = WordOf(loop.job) /\ keeps'[WordOf(loop.job)] = keeps[WordOf(loop.job)]
    BY <1>1, <2>1, <2>2 DEF WordOf
  <2>5. \A w \in Words : keeps'[w].meta.file = "torn" => loop'.at = "writing" /\ w = WordOf(loop.job)'
    BY <1>0, <1>1, <2>3, <2>4 DEF OnlyTheLoopTears
  <2>6. loop'.at = "copying" => jobs'[loop'.job].st = "storing"
    BY <1>0, <2>2, <2>3 DEF OnlyTheLoopTears
  <2> QED
    BY <1>0, <2>2, <2>3, <2>4, <2>5, <2>6, ZenonT(30) DEF OnlyTheLoopTears
<1>6. UnreadIsKept' /\ FoundIsRead'
  BY <1>c DEF UnreadIsKept, FoundIsRead, Unread, ReaderSuits
<1>7. ReadyIsWhole'
  BY <1>1 DEF ReadyIsWhole
<1> QED
  BY <1>2, <1>3, <1>4, <1>5, <1>6, <1>7 DEF KeepsInv

LEMMA ReadersTyped ==
  ASSUME KeepsInv
  PROVE  /\ readers \in [Readers -> ReaderRecords]
         /\ jobs \in [Kept -> [st : JobStates, word : Words \union {<<0, 0>>}]]
         /\ keeps \in [Words -> [meta : Metas, out : Outputs]]
BY DEF KeepsInv, KeepsTyped, KeepsTypeOK, ReaderRecords

LEMMA CleanupKeeps ==
  ASSUME KeepsAssumed, WritesAreAlone, KeepsInv, Cleanup
  PROVE  KeepsInv'
<1>1. loop.at # "idle" => loop.job \in Kept /\ loop.job # Nobody
  BY DEF KeepsInv, KeepsTyped, KeepsAssumed
<1>2. loop.at # "idle" => WordOf(loop.job) \notin Settled
  BY <1>1 DEF Settled, WritesAreAlone
<1>3. /\ readers' \in [Readers -> ReaderRecords]
      /\ jobs' \in [Kept -> [st : JobStates, word : Words \union {<<0, 0>>}]]
  BY ReadersTyped DEF Cleanup
<1> QED
  BY <1>2, <1>3, SweepKeeps DEF Cleanup

LEMMA WrittenKeeps ==
  ASSUME KeepsAssumed, KeepsInv, Written
  PROVE  KeepsInv'
<1>0. /\ KeepsTyped /\ OwnersAreAlone /\ OwnersAreNamed /\ OnlyTheLoopTears /\ UnreadIsKept
      /\ ReadyIsWhole /\ FoundIsRead
  BY DEF KeepsInv
<1> DEFINE j == loop.job
           w == WordOf(j)
<1>1. /\ j \in Kept /\ Owns(j) /\ jobs[j].st \in {"open", "storing", "failed"} /\ w \in Words
      /\ keeps[w].meta.file = "torn" /\ loop.meta \in Metas /\ loop.meta.file = "whole"
  BY <1>0 DEF Written, OnlyTheLoopTears, KeepsTyped, KeepsTypeOK, Owns, WordOf
<1>2. /\ keeps' = [keeps EXCEPT ![w].meta = loop.meta] /\ loop' = AtRest
      /\ jobs' = IF loop.meta.ready THEN [jobs EXCEPT ![j].st = "stored"] ELSE jobs
      /\ readers' = readers /\ pool' = pool
  BY <1>1 DEF Written, WithState
<1>3. /\ keeps' \in [Words -> [meta : Metas, out : Outputs]]
      /\ keeps'[w].meta = loop.meta /\ keeps'[w].out = keeps[w].out
      /\ \A v \in Words : v # w => keeps'[v] = keeps[v]
  BY <1>0, <1>1, <1>2 DEF KeepsTyped, KeepsTypeOK
<1>4. /\ jobs' \in [Kept -> [st : JobStates, word : Words \union {<<0, 0>>}]]
      /\ \A i \in Kept : jobs'[i].word = jobs[i].word /\ (i # j => jobs'[i] = jobs[i])
      /\ jobs'[j].st = IF loop.meta.ready THEN "stored" ELSE jobs[j].st
  BY <1>0, <1>1, <1>2 DEF KeepsTyped, JobStates
<1>5. AtRest.at = "idle" /\ AtRest \in [at : {"idle", "copying", "writing"}, job : Kept \union {Nobody}, meta : Metas]
  BY DEF AtRest, NoMeta, Metas, KeepsAssumed
<1> HIDE DEF j, w
<1>6. KeepsTyped'
  <2>1. \A i \in Kept : jobs'[i].st \notin {"new", "refused"} => jobs'[i].word \in Words
    BY <1>0, <1>1, <1>4 DEF KeepsTyped
  <2>2. \A i \in Kept : jobs'[i].st \in JobStates
    BY <1>4
  <2> QED
    BY <1>0, <1>2, <1>3, <1>4, <1>5, <2>1, <2>2 DEF KeepsTyped, KeepsTypeOK, JobStates
<1>7. \A i \in Kept : Owns(i)' => Owns(i) /\ WordOf(i)' = WordOf(i)
  BY <1>1, <1>2, <1>4, <1>5 DEF Owns, Active, WordOf
<1>8. OwnersAreAlone'
  BY <1>0, <1>7 DEF OwnersAreAlone
<1>9. OwnersAreNamed'
  <2> SUFFICES ASSUME NEW i \in Kept, Owns(i)'
               PROVE  (/\ Known(keeps, WordOf(i))
                       /\ keeps[WordOf(i)].meta.file = "whole" =>
                            /\ keeps[WordOf(i)].meta.job = i /\ ~keeps[WordOf(i)].meta.ready
                            /\ keeps[WordOf(i)].meta.left > 0)'
    BY DEF OwnersAreNamed
  <2>1. CASE i = j
    <3>1. jobs[j].st = "open" /\ loop.meta = MetaOf(j, FALSE)
      <4>1. jobs'[j].st \in {"open", "done"}
        BY <1>2, <1>5, <2>1 DEF Owns, Active
      <4> QED
        BY <1>0, <1>1, <1>4, <4>1 DEF OnlyTheLoopTears, Written, j
    <3>2. WordOf(i)' = w
      BY <1>7, <2>1 DEF w
    <3> QED
      BY <1>3, <2>1, <3>1, <3>2 DEF Known, MetaOf, KeepsAssumed
  <2>2. CASE i # j
    <3>1. WordOf(i)' = WordOf(i) /\ WordOf(i) # w /\ WordOf(i) \in Words
      BY <1>0, <1>1, <1>7, <2>2 DEF OwnersAreAlone, KeepsTyped, KeepsTypeOK, Owns, Active,
         WordOf, w, j
    <3> QED
      BY <1>0, <1>3, <1>7, <3>1 DEF OwnersAreNamed, Known
  <2> QED
    BY <2>1, <2>2
<1>10. OnlyTheLoopTears'
  BY <1>0, <1>1, <1>2, <1>3, <1>5 DEF OnlyTheLoopTears, w, j
<1>11. UnreadIsKept'
  <2>1. \A r \in Readers : \A v \in Unread(r) : v \in Words /\ v # w
    BY <1>0, <1>1, OwnedIsNotRead DEF KeepsTyped, Unread, w
  <2> QED
    BY <1>0, <1>2, <1>3, <2>1 DEF UnreadIsKept, Unread
<1>12. ReadyIsWhole'
  <2>1. loop.meta.ready => keeps[w].out = [job |-> loop.meta.job, whole |-> TRUE]
    <3>1. jobs[j].st = "open" => loop.meta.ready = FALSE
      BY <1>0 DEF OnlyTheLoopTears, Written, MetaOf, j
    <3>2. jobs[j].st = "failed" => ~loop.meta.ready
      BY <1>0 DEF OnlyTheLoopTears, Written, j
    <3>3. jobs[j].st = "storing" =>
            loop.meta = MetaOf(j, TRUE) /\ keeps[w].out = [job |-> j, whole |-> TRUE]
      BY <1>0 DEF OnlyTheLoopTears, Written, w, j
    <3>4. MetaOf(j, TRUE).job = j
      BY DEF MetaOf
    <3>5. loop.meta.ready => jobs[j].st = "storing"
      BY <1>1, <3>1, <3>2
    <3> QED
      BY <3>3, <3>4, <3>5
  <2> QED
    BY <1>0, <1>3, <2>1 DEF ReadyIsWhole
<1>13. FoundIsRead'
  BY <1>0, <1>2 DEF FoundIsRead
<1> QED
  BY <1>6, <1>8, <1>9, <1>10, <1>11, <1>12, <1>13 DEF KeepsInv

\* Steps that leave the keywords, the loop and the readers alone, and give no
\* job a word.
LEMMA JobsMoveOn ==
  ASSUME KeepsInv, NEW j \in Kept, NEW st \in JobStates, jobs' = [jobs EXCEPT ![j].st = st],
         UNCHANGED <<keeps, loop, readers>>, pool' \subseteq Bases,
         jobs[j].st = "open", st \in {"done", "lost"}, loop.job # j
  PROVE  KeepsInv'
<1>0. /\ KeepsTyped /\ OwnersAreAlone /\ OwnersAreNamed /\ OnlyTheLoopTears /\ UnreadIsKept
      /\ ReadyIsWhole /\ FoundIsRead
  BY DEF KeepsInv
<1>1. /\ jobs' \in [Kept -> [st : JobStates, word : Words \union {<<0, 0>>}]]
      /\ \A i \in Kept : jobs'[i].word = jobs[i].word /\ (i # j => jobs'[i] = jobs[i])
      /\ jobs'[j].st = st
  BY <1>0 DEF KeepsTyped
<1>2. KeepsTyped'
  <2>1. \A i \in Kept : jobs'[i].st \notin {"new", "refused"} => jobs'[i].word \in Words
    BY <1>0, <1>1 DEF KeepsTyped
  <2>2. \A i \in Kept : jobs'[i].st \in JobStates
    BY <1>1
  <2> QED
    BY <1>0, <1>1, <2>1, <2>2 DEF KeepsTyped, KeepsTypeOK, JobStates
<1>3. \A i \in Kept : Owns(i)' => Owns(i) /\ WordOf(i)' = WordOf(i)
  BY <1>1 DEF Owns, Active, WordOf
<1>4. OwnersAreAlone' /\ OwnersAreNamed'
  BY <1>0, <1>3 DEF OwnersAreAlone, OwnersAreNamed, Known
<1>5. OnlyTheLoopTears'
  <2>1. loop.at # "idle" => jobs'[loop.job] = jobs[loop.job]
    BY <1>0, <1>1 DEF KeepsTyped
  <2>2. loop.at \in {"idle", "copying", "writing"}
    BY <1>0 DEF KeepsTyped, KeepsTypeOK
  <2> QED
    BY <1>0, <2>1, <2>2 DEF OnlyTheLoopTears, WordOf
<1>6. UnreadIsKept' /\ ReadyIsWhole' /\ FoundIsRead'
  BY <1>0 DEF UnreadIsKept, Unread, ReadyIsWhole, FoundIsRead
<1> QED
  BY <1>2, <1>4, <1>5, <1>6 DEF KeepsInv

LEMMA WorkKeeps ==
  ASSUME KeepsAssumed, KeepsInv, NEW j \in Kept, Work(j) \/ Lose(j)
  PROVE  KeepsInv'
<1>1. "done" \in JobStates /\ "lost" \in JobStates /\ pool \subseteq Bases
  BY DEF JobStates, KeepsInv, KeepsTyped, KeepsTypeOK
<1>2. loop = AtRest => loop.job # j
  BY DEF AtRest, KeepsAssumed
<1> QED
  BY <1>1, <1>2, JobsMoveOn DEF Work, Lose, WithState

LEMMA FailKeeps ==
  ASSUME KeepsAssumed, KeepsInv, NEW j \in Kept, Fail(j)
  PROVE  KeepsInv'
<1>0. /\ KeepsTyped /\ OwnersAreAlone /\ OwnersAreNamed /\ OnlyTheLoopTears /\ UnreadIsKept
      /\ ReadyIsWhole /\ FoundIsRead
  BY DEF KeepsInv
<1> DEFINE w == WordOf(j)
<1>1. loop.at = "idle" /\ Active(j) /\ Owns(j) /\ w \in Words
  BY <1>0 DEF Fail, AtRest, Owns, KeepsTyped, KeepsTypeOK, Active, WordOf
<1>2. keeps[w].meta.file = "whole" /\ keeps[w].meta \in Metas /\ Known(keeps, w)
  BY <1>0, <1>1 DEF OwnersAreNamed, Known, OnlyTheLoopTears, KeepsTyped, KeepsTypeOK, Metas
<1>3. /\ keeps' = [keeps EXCEPT ![w].meta.file = "torn"]
      /\ loop' = [at |-> "writing", job |-> j, meta |-> Marked(w)]
      /\ jobs' = [jobs EXCEPT ![j].st = "failed"] /\ readers' = readers /\ pool' = pool
  BY <1>2 DEF Fail, Writing, WithState
<1>4. Marked(w) \in Metas /\ Marked(w).file = "whole" /\ ~Marked(w).ready
  BY <1>2 DEF Marked, Metas
<1>5. /\ keeps' \in [Words -> [meta : Metas, out : Outputs]] /\ keeps'[w].meta.file = "torn"
      /\ \A v \in Words : v # w => keeps'[v] = keeps[v]
  <2>1. PICK m \in Metas : m = keeps[w].meta
    BY <1>2
  <2>2. [m EXCEPT !.file = "torn"] \in Metas /\ [m EXCEPT !.file = "torn"].file = "torn"
    BY DEF Metas
  <2>3. PICK n \in Metas : n = [m EXCEPT !.file = "torn"] /\ n.file = "torn"
    BY <2>2
  <2>4. keeps' = [keeps EXCEPT ![w].meta = n]
    BY <1>3, <2>1, <2>3
  <2>5. keeps \in [Words -> [meta : Metas, out : Outputs]]
    BY <1>0 DEF KeepsTyped, KeepsTypeOK
  <2> QED
    BY <1>1, <2>3, <2>4, <2>5
<1>6. /\ jobs' \in [Kept -> [st : JobStates, word : Words \union {<<0, 0>>}]]
      /\ \A i \in Kept : jobs'[i].word = jobs[i].word /\ (i # j => jobs'[i] = jobs[i])
      /\ jobs'[j].st = "failed"
  BY <1>0, <1>3 DEF KeepsTyped, JobStates
<1>7. loop'.at = "writing" /\ loop'.job = j /\ loop'.meta = Marked(w)
  BY <1>3
<1>8. KeepsTyped'
  <2>1. \A i \in Kept : jobs'[i].st \notin {"new", "refused"} => jobs'[i].word \in Words
    BY <1>0, <1>1, <1>6 DEF KeepsTyped, WordOf
  <2>2. \A i \in Kept : jobs'[i].st \in JobStates
    BY <1>6
  <2> QED
    BY <1>0, <1>3, <1>4, <1>5, <1>6, <1>7, <2>1, <2>2 DEF KeepsTyped, KeepsTypeOK, JobStates
<1>9. \A i \in Kept : Owns(i)' => Owns(i) /\ WordOf(i)' = WordOf(i)
  BY <1>1, <1>6, <1>7 DEF Owns, Active, WordOf
<1>10. OwnersAreAlone'
  BY <1>0, <1>9 DEF OwnersAreAlone
<1>11. OwnersAreNamed'
  <2>1. \A i \in Kept : Owns(i)' /\ i # j => WordOf(i) # w /\ WordOf(i) \in Words
    BY <1>0, <1>1, <1>9 DEF OwnersAreAlone, Owns, Active, KeepsTyped, KeepsTypeOK, WordOf
  <2>2. WordOf(j)' = w
    BY <1>6 DEF WordOf
  <2> QED
    BY <1>0, <1>5, <1>9, <2>1, <2>2 DEF OwnersAreNamed, Known
<1>12. OnlyTheLoopTears'
  <2>1. WordOf(loop.job)' = w
    BY <1>6, <1>7 DEF WordOf
  <2>2. \A v \in Words : keeps'[v].meta.file = "torn" => v = w
    BY <1>0, <1>1, <1>5 DEF OnlyTheLoopTears
  <2> QED
    BY <1>4, <1>5, <1>6, <1>7, <2>1, <2>2 DEF OnlyTheLoopTears
<1>13. UnreadIsKept'
  <2>1. \A r \in Readers : \A v \in Unread(r) : v \in Words /\ v # w
    BY <1>0, <1>1, OwnedIsNotRead DEF KeepsTyped, Unread
  <2> QED
    BY <1>0, <1>3, <1>5, <2>1 DEF UnreadIsKept, Unread
<1>14. ReadyIsWhole' /\ FoundIsRead'
  BY <1>0, <1>3, <1>5 DEF ReadyIsWhole, FoundIsRead
<1> QED
  BY <1>8, <1>10, <1>11, <1>12, <1>13, <1>14 DEF KeepsInv

LEMMA StoreKeeps ==
  ASSUME KeepsAssumed, KeepsInv, NEW j \in Kept, Store(j)
  PROVE  KeepsInv'
<1>0. /\ KeepsTyped /\ OwnersAreAlone /\ OwnersAreNamed /\ OnlyTheLoopTears /\ UnreadIsKept
      /\ ReadyIsWhole /\ FoundIsRead
  BY DEF KeepsInv
<1> DEFINE w == WordOf(j)
           out == [job |-> j, whole |-> FALSE]
<1>1. loop.at = "idle" /\ Active(j) /\ Owns(j) /\ w \in Words
  BY <1>0 DEF Store, AtRest, Owns, KeepsTyped, KeepsTypeOK, Active, WordOf
<1>2. keeps[w].meta.file = "whole" /\ ~keeps[w].meta.ready
  BY <1>0, <1>1 DEF OwnersAreNamed, Known, OnlyTheLoopTears, KeepsTyped, KeepsTypeOK, Metas
<1>3. /\ keeps' = [keeps EXCEPT ![w].out = out]
      /\ loop' = [AtRest EXCEPT !.at = "copying", !.job = j]
      /\ jobs' = [jobs EXCEPT ![j].st = "storing"] /\ readers' = readers /\ pool' = pool
  BY DEF Store, WithState
<1>4. out \in Outputs
  BY DEF Outputs
<1> HIDE DEF out
<1>5. /\ keeps' \in [Words -> [meta : Metas, out : Outputs]]
      /\ \A v \in Words : keeps'[v].meta = keeps[v].meta /\ (v # w => keeps'[v] = keeps[v])
  BY <1>0, <1>1, <1>3, <1>4 DEF KeepsTyped, KeepsTypeOK
<1>6. /\ jobs' \in [Kept -> [st : JobStates, word : Words \union {<<0, 0>>}]]
      /\ \A i \in Kept : jobs'[i].word = jobs[i].word /\ (i # j => jobs'[i] = jobs[i])
      /\ jobs'[j].st = "storing"
  BY <1>0, <1>3 DEF KeepsTyped, JobStates
<1>7. loop'.at = "copying" /\ loop'.job = j
      /\ loop' \in [at : {"idle", "copying", "writing"}, job : Kept \union {Nobody}, meta : Metas]
  <2>1. AtRest = loop
    BY DEF Store
  <2> QED
    BY <1>0, <1>3, <2>1 DEF KeepsTyped, KeepsTypeOK
<1>8. KeepsTyped'
  <2>1. \A i \in Kept : jobs'[i].st \notin {"new", "refused"} => jobs'[i].word \in Words
    BY <1>0, <1>1, <1>6 DEF KeepsTyped, WordOf
  <2>2. \A i \in Kept : jobs'[i].st \in JobStates
    BY <1>6
  <2> QED
    BY <1>0, <1>3, <1>5, <1>6, <1>7, <2>1, <2>2, ZenonT(30) DEF KeepsTyped, KeepsTypeOK, JobStates
<1>9. \A i \in Kept : Owns(i)' => Owns(i) /\ WordOf(i)' = WordOf(i) /\ WordOf(i) \in Words
  <2>1. \A i \in Kept : Owns(i)' => Owns(i) /\ WordOf(i)' = WordOf(i)
    BY <1>1, <1>6, <1>7 DEF Owns, Active, WordOf
  <2> QED
    BY <1>0, <1>1, <2>1 DEF Owns, Active, KeepsTyped, KeepsTypeOK, WordOf
<1>10. OwnersAreAlone' /\ OwnersAreNamed'
  BY <1>0, <1>5, <1>9 DEF OwnersAreAlone, OwnersAreNamed, Known
<1>11. OnlyTheLoopTears'
  BY <1>0, <1>1, <1>5, <1>6, <1>7 DEF OnlyTheLoopTears
<1>12. UnreadIsKept'
  <2>1. \A r \in Readers : \A v \in Unread(r) : v \in Words
    BY <1>0 DEF KeepsTyped, Unread
  <2> QED
    BY <1>0, <1>3, <1>5, <2>1 DEF UnreadIsKept, Unread
<1>13. ReadyIsWhole' /\ FoundIsRead'
  BY <1>0, <1>2, <1>3, <1>5 DEF ReadyIsWhole, FoundIsRead
<1> QED
  BY <1>8, <1>10, <1>11, <1>12, <1>13 DEF KeepsInv

\* A set of numbers has a least one.
LEMMA LeastNatural ==
  ASSUME NEW S, S \in SUBSET Nat, S # {}
  PROVE  \E m \in S : \A n \in S : m <= n
<1>1. PICK m \in S : \A n \in S : ~ (<<n, m>> \in OpToRel(<, Nat))
  BY WFMin, NatLessThanWellFounded, Zenon
<1>2. \A n \in S : ~(n < m)
  BY <1>1, Zenon DEF OpToRel
<1>3. \A n \in S : n \in Nat
  OBVIOUS
<1> QED
  BY <1>2, <1>3

\* The word that is allocated is free: there is a first one.
LEMMA AllocatedIsFree ==
  ASSUME KeepsAssumed, KeepsTyped, NEW K, Free(K) # {}
  PROVE  Allocated(K) \in Words /\ ~Known(K, Allocated(K))
<1>1. /\ Free(K) \subseteq Words
      /\ \A w \in Free(K) : w = <<w[1], w[2]>> /\ w[1] \in Nat /\ w[2] \in Nat
  <2>1. pool \subseteq Bases /\ pool \subseteq Nat /\ 0..Rounds \subseteq Nat
    BY DEF KeepsAssumed, KeepsTyped, KeepsTypeOK
  <2>2. Free(K) \subseteq (0..Rounds) \X pool
    BY DEF Free
  <2>3. (0..Rounds) \X pool \subseteq Words
    BY <2>1 DEF Words
  <2> QED
    BY <2>1, <2>2, <2>3
<1>2. PICK n \in {w[1] : w \in Free(K)} : \A m \in {w[1] : w \in Free(K)} : n <= m
  <2> DEFINE Numbers == {w[1] : w \in Free(K)}
  <2>1. Numbers \in SUBSET Nat /\ Numbers # {}
    BY <1>1
  <2> HIDE DEF Numbers
  <2>2. \E n \in Numbers : \A m \in Numbers : n <= m
    BY <2>1, LeastNatural
  <2> QED
    BY <2>2 DEF Numbers
<1> DEFINE Bare == {w[2] : w \in {v \in Free(K) : v[1] = n}}
<1>3. PICK b \in Bare : \A c \in Bare : b <= c
  <2>1. Bare \in SUBSET Nat /\ Bare # {}
    BY <1>1, <1>2
  <2> HIDE DEF Bare
  <2> QED
    BY <2>1, LeastNatural
<1>4. PICK w \in Free(K) : w[1] = n /\ w[2] = b
  BY <1>3
<1>5. \A v \in Free(K) \ {w} : Before(w, v)
  <2> SUFFICES ASSUME NEW v \in Free(K), v # w PROVE Before(w, v)
    OBVIOUS
  <2>1. v = <<v[1], v[2]>> /\ w = <<w[1], w[2]>>
        /\ v[1] \in Nat /\ v[2] \in Nat /\ n \in Nat /\ b \in Nat
    BY <1>1, <1>4
  <2>2. n <= v[1]
    BY <1>2
  <2>3. v[1] = n => b <= v[2]
    BY <1>3
  <2> QED
    BY <1>4, <2>1, <2>2, <2>3 DEF Before
<1>6. Allocated(K) \in Free(K)
  BY <1>4, <1>5 DEF Allocated
<1> QED
  BY <1>1, <1>6 DEF Free

LEMMA CopiedKeeps ==
  ASSUME KeepsAssumed, KeepsInv, Copied
  PROVE  KeepsInv'
<1>0. /\ KeepsTyped /\ OwnersAreAlone /\ OwnersAreNamed /\ OnlyTheLoopTears /\ UnreadIsKept
      /\ ReadyIsWhole /\ FoundIsRead
  BY DEF KeepsInv
<1> DEFINE j == loop.job
           w == WordOf(j)
<1>1. j \in Kept /\ Owns(j) /\ jobs[j].st = "storing" /\ w \in Words /\ loop.at = "copying"
  BY <1>0 DEF Copied, OnlyTheLoopTears, KeepsTyped, KeepsTypeOK, Owns, WordOf
<1>2. keeps[w].meta.file = "whole" /\ ~keeps[w].meta.ready
  BY <1>0, <1>1 DEF OwnersAreNamed, Known, OnlyTheLoopTears, KeepsTyped, KeepsTypeOK, Metas
<1> HIDE DEF j
<1>3. CASE /\ keeps[w].out.job = j
           /\ keeps' = [keeps EXCEPT ![w] = [meta |-> [keeps[w].meta EXCEPT !.file = "torn"],
                                             out |-> [job |-> j, whole |-> TRUE]]]
           /\ loop' = [at |-> "writing", job |-> j, meta |-> MetaOf(j, TRUE)]
           /\ UNCHANGED <<pool, jobs, readers>>
  <2>1. /\ keeps' \in [Words -> [meta : Metas, out : Outputs]] /\ keeps'[w].meta.file = "torn"
        /\ keeps'[w].out = [job |-> j, whole |-> TRUE]
        /\ \A v \in Words : v # w => keeps'[v] = keeps[v]
    <3>1. keeps \in [Words -> [meta : Metas, out : Outputs]]
      BY <1>0 DEF KeepsTyped, KeepsTypeOK
    <3>2. PICK m \in Metas : m = keeps[w].meta
      BY <1>1, <3>1
    <3>a. [m EXCEPT !.file = "torn"] \in Metas /\ [m EXCEPT !.file = "torn"].file = "torn"
      BY DEF Metas
    <3>3. PICK n \in Metas : n = [m EXCEPT !.file = "torn"] /\ n.file = "torn"
      BY <3>a
    <3>4. PICK o \in Outputs : o = [job |-> j, whole |-> TRUE]
      BY <1>1 DEF Outputs
    <3>5. keeps' = [keeps EXCEPT ![w] = [meta |-> n, out |-> o]]
      BY <1>3, <3>2, <3>3, <3>4
    <3> QED
      BY <1>1, <3>1, <3>3, <3>4, <3>5
  <2>2. loop'.at = "writing" /\ loop'.job = j /\ loop'.meta = MetaOf(j, TRUE) /\ jobs' = jobs
    BY <1>3
  <2>3. MetaOf(j, TRUE) \in Metas /\ MetaOf(j, TRUE).file = "whole"
    BY <1>1 DEF MetaOf, Metas, KeepsAssumed
  <2>4. KeepsTyped'
    BY <1>0, <1>1, <1>3, <2>1, <2>2, <2>3 DEF KeepsTyped, KeepsTypeOK
  <2>5. \A i \in Kept : Owns(i)' => Owns(i) /\ WordOf(i)' = WordOf(i)
    BY <1>1, <2>2 DEF Owns, Active, WordOf
  <2>6. OwnersAreAlone'
    BY <1>0, <2>5 DEF OwnersAreAlone
  <2>7. OwnersAreNamed'
    <3>1. \A i \in Kept : Owns(i)' /\ i # j => WordOf(i) # w /\ WordOf(i) \in Words
      BY <1>0, <1>1, <2>5 DEF OwnersAreAlone, Owns, Active, KeepsTyped, KeepsTypeOK, WordOf, j
    <3> QED
      BY <1>0, <2>1, <2>2, <2>5, <3>1 DEF OwnersAreNamed, Known, WordOf
  <2>8. OnlyTheLoopTears'
    <3>1. WordOf(loop.job)' = w
      BY <2>2 DEF WordOf
    <3>2. \A v \in Words : keeps'[v].meta.file = "torn" => v = w
      BY <1>0, <1>1, <2>1 DEF OnlyTheLoopTears
    <3> QED
      BY <1>1, <2>1, <2>2, <2>3, <3>1, <3>2 DEF OnlyTheLoopTears
  <2>9. UnreadIsKept'
    <3>1. \A r \in Readers : \A v \in Unread(r) : v \in Words /\ v # w
      BY <1>0, <1>1, OwnedIsNotRead DEF KeepsTyped, Unread
    <3> QED
      BY <1>0, <1>3, <2>1, <3>1 DEF UnreadIsKept, Unread
  <2>10. ReadyIsWhole' /\ FoundIsRead'
    BY <1>0, <1>3, <2>1 DEF ReadyIsWhole, FoundIsRead
  <2> QED
    BY <2>4, <2>6, <2>7, <2>8, <2>9, <2>10 DEF KeepsInv
<1>4. CASE Unstored(j)
  <2>1. /\ jobs' \in [Kept -> [st : JobStates, word : Words \union {<<0, 0>>}]]
        /\ \A i \in Kept : jobs'[i].word = jobs[i].word /\ (i # j => jobs'[i] = jobs[i])
        /\ jobs'[j].st = "lost" /\ loop' = AtRest /\ UNCHANGED <<keeps, pool, readers>>
    BY <1>0, <1>1, <1>4 DEF KeepsTyped, JobStates, Unstored, WithState
  <2>2. AtRest.at = "idle" /\ AtRest \in [at : {"idle", "copying", "writing"}, job : Kept \union {Nobody}, meta : Metas]
    BY DEF AtRest, NoMeta, Metas, KeepsAssumed
  <2>3. KeepsTyped'
    <3>1. \A i \in Kept : jobs'[i].st \notin {"new", "refused"} => jobs'[i].word \in Words
      BY <1>0, <1>1, <2>1 DEF KeepsTyped
    <3>2. \A i \in Kept : jobs'[i].st \in JobStates
      BY <2>1
    <3> QED
      BY <1>0, <2>1, <2>2, <3>1, <3>2 DEF KeepsTyped, KeepsTypeOK, JobStates
  <2>4. \A i \in Kept : Owns(i)' => Owns(i) /\ WordOf(i)' = WordOf(i)
    BY <2>1, <2>2 DEF Owns, Active, WordOf
  <2>5. OwnersAreAlone' /\ OwnersAreNamed'
    BY <1>0, <2>1, <2>4 DEF OwnersAreAlone, OwnersAreNamed, Known
  <2>6. OnlyTheLoopTears'
    BY <1>0, <1>1, <2>1, <2>2 DEF OnlyTheLoopTears
  <2>7. UnreadIsKept' /\ ReadyIsWhole' /\ FoundIsRead'
    BY <1>0, <2>1 DEF UnreadIsKept, Unread, ReadyIsWhole, FoundIsRead
  <2> QED
    BY <2>3, <2>5, <2>6, <2>7 DEF KeepsInv
<1> QED
  BY <1>3, <1>4 DEF Copied, Writing, j

\* One reader goes on.
LEMMA ReaderMoves ==
  ASSUME KeepsAssumed, KeepsInv, NEW S, loop.at # "idle" => WordOf(loop.job) \notin S,
         keeps' = Swept(S), UNCHANGED <<pool, jobs, loop>>,
         NEW r \in Readers, NEW x \in ReaderRecords,
         readers' = [readers EXCEPT ![r] = x], ReaderSuits(keeps', x)
  PROVE  KeepsInv'
<1>1. /\ readers \in [Readers -> ReaderRecords]
      /\ jobs' \in [Kept -> [st : JobStates, word : Words \union {<<0, 0>>}]]
  BY ReadersTyped
<1>2. /\ readers' \in [Readers -> ReaderRecords]
      /\ readers'[r] = x /\ \A s \in Readers : s # r => readers'[s] = readers[s]
  BY <1>1
<1>3. \A s \in Readers : readers'[s] = readers[s] \/ ReaderSuits(keeps', readers'[s])
  BY <1>2
<1> QED
  BY <1>1, <1>2, <1>3, SweepKeeps

LEMMA NothingSwept ==
  ASSUME KeepsInv
  PROVE  keeps = Swept({})
BY ReadersTyped DEF Swept

LEMMA AskKeeps ==
  ASSUME KeepsAssumed, KeepsInv, NEW r \in Readers, NEW ws \in SUBSET Words, Ask(r, ws)
  PROVE  KeepsInv'
<1> DEFINE x == [readers[r] EXCEPT !.st = "waiting", !.words = ws]
<1>1. PICK y \in ReaderRecords : y = readers[r]
  BY ReadersTyped
<1>2. DOMAIN y.got = {}
  BY <1>1 DEF Ask, KeepsInv, KeepsTyped
<1>3. x \in ReaderRecords /\ x.st = "waiting" /\ x.got = y.got
  BY <1>1 DEF ReaderRecords, ReaderStates
<1> HIDE DEF x
<1>4. ReaderSuits(keeps', x)
  BY <1>2, <1>3 DEF ReaderSuits
<1>5. readers' = [readers EXCEPT ![r] = x] /\ UNCHANGED <<keeps, pool, jobs, loop>>
  BY DEF Ask, Reads, x
<1>6. keeps' = Swept({})
  BY <1>5, NothingSwept
<1> QED
  BY <1>3, <1>4, <1>5, <1>6, ReaderMoves

\* What a reader finds among swept keywords that are usable.
LEMMA FoundIsFit ==
  ASSUME KeepsAssumed, KeepsInv, NEW S, NEW ws \in SUBSET S, S \subseteq Words,
         loop.at # "idle" => WordOf(loop.job) \notin S,
         ~Refusing(Swept(S), ws), \A w \in ws : Usable(Swept(S), w)
  PROVE  /\ \A w \in ws : /\ Swept(S)[w].meta.file = "whole" /\ Swept(S)[w].meta.ready
                          /\ Swept(S)[w].meta.left > 0
         /\ [w \in ws |-> Swept(S)[w].meta.job] \in Partial(Kept \union {Nobody})
<1>1. KeepsTyped
  BY DEF KeepsInv
<1>2. \A w \in ws : w \in Words /\ Swept(S)[w].meta.file = "whole" /\ Swept(S)[w].meta.ready
  BY DEF Refusing, Usable
<1>3. \A w \in ws : Swept(S)[w].meta.left > 0
  BY <1>1, <1>2, SweepTakes
<1>4. \A w \in ws : Swept(S)[w].meta.job \in Kept \union {Nobody}
  BY <1>1, <1>2, SweepTakes DEF Metas
<1>5. ws \in SUBSET Words
  OBVIOUS
<1>6. [w \in ws |-> Swept(S)[w].meta.job] \in [ws -> Kept \union {Nobody}]
  BY <1>4
<1>7. [w \in ws |-> Swept(S)[w].meta.job] \in Partial(Kept \union {Nobody})
  BY <1>5, <1>6, Zenon DEF Partial
<1> QED
  BY <1>2, <1>3, <1>7

\* The two resolutions: the reader fails, or has found what suits it.
LEMMA ResolvedKeeps ==
  ASSUME KeepsAssumed, KeepsInv, NEW S, loop.at # "idle" => WordOf(loop.job) \notin S,
         keeps' = Swept(S), UNCHANGED <<pool, jobs, loop>>,
         NEW r \in Readers, readers[r].st = "waiting",
         NEW f \in Partial(Kept \union {Nobody}),
         \A w \in readers[r].words : /\ keeps'[w].meta.file = "whole" /\ keeps'[w].meta.ready
                                     /\ keeps'[w].meta.left > 0 /\ keeps'[w].meta.job = f[w],
         readers' = [readers EXCEPT ![r] = [readers[r] EXCEPT !.st = "reading", !.found = f]]
  PROVE  KeepsInv'
<1> DEFINE x == [readers[r] EXCEPT !.st = "reading", !.found = f]
<1>1. PICK y \in ReaderRecords : y = readers[r]
  BY ReadersTyped
<1>2. DOMAIN y.got = {}
  BY <1>1 DEF KeepsInv, KeepsTyped
<1>3. x \in ReaderRecords /\ x.st = "reading" /\ x.got = y.got /\ x.found = f /\ x.words = y.words
  BY <1>1 DEF ReaderRecords, ReaderStates
<1>4. readers' = [readers EXCEPT ![r] = x]
  OBVIOUS
<1> HIDE DEF x
<1>5. ReaderSuits(keeps', x)
  BY <1>1, <1>2, <1>3 DEF ReaderSuits
<1> QED
  BY <1>3, <1>4, <1>5, ReaderMoves

LEMMA FailedKeeps ==
  ASSUME KeepsAssumed, KeepsInv, NEW S, loop.at # "idle" => WordOf(loop.job) \notin S,
         keeps' = Swept(S), UNCHANGED <<pool, jobs, loop>>,
         NEW r \in Readers, readers' = [readers EXCEPT ![r] = [readers[r] EXCEPT !.st = "failed"]]
  PROVE  KeepsInv'
<1> DEFINE x == [readers[r] EXCEPT !.st = "failed"]
<1>1. PICK y \in ReaderRecords : y = readers[r]
  BY ReadersTyped
<1>2. \A w \in DOMAIN y.got : y.got[w] = [job |-> y.found[w], whole |-> TRUE]
  BY <1>1 DEF KeepsInv, FoundIsRead
<1>3. x \in ReaderRecords /\ x.st = "failed" /\ x.got = y.got /\ x.found = y.found
  BY <1>1 DEF ReaderRecords, ReaderStates
<1>4. readers' = [readers EXCEPT ![r] = x]
  OBVIOUS
<1> HIDE DEF x
<1>5. ReaderSuits(keeps', x)
  BY <1>2, <1>3 DEF ReaderSuits
<1> QED
  BY <1>3, <1>4, <1>5, ReaderMoves

LEMMA ResolveKeycodeKeeps ==
  ASSUME KeepsAssumed, KeepsInv, NEW c \in Readers, ResolveKeycode(c)
  PROVE  KeepsInv'
<1> DEFINE K  == Swept(Words)
           ws == readers[c].words
           f  == [w \in ws |-> K[w].meta.job]
<1>1. /\ loop.at = "idle" /\ readers[c].st = "waiting" /\ ws \in SUBSET Words
      /\ keeps' = K /\ UNCHANGED <<pool, jobs, loop>>
  BY ReadersTyped DEF ResolveKeycode, AtRest, ReaderRecords
<1>2. \/ readers' = [readers EXCEPT ![c] = [readers[c] EXCEPT !.st = "failed"]]
      \/ /\ ~Refusing(K, ws) /\ \A w \in ws : Usable(K, w)
         /\ readers' = [readers EXCEPT ![c] = [readers[c] EXCEPT !.st = "reading", !.found = f]]
  BY DEF ResolveKeycode, Reads
<1> HIDE DEF K, f
<1>3. CASE readers' = [readers EXCEPT ![c] = [readers[c] EXCEPT !.st = "failed"]]
  BY <1>1, <1>3, FailedKeeps DEF K
<1>4. CASE /\ ~Refusing(K, ws) /\ \A w \in ws : Usable(K, w)
           /\ readers' = [readers EXCEPT ![c] = [readers[c] EXCEPT !.st = "reading", !.found = f]]
  <2>1. /\ \A w \in ws : K[w].meta.file = "whole" /\ K[w].meta.ready /\ K[w].meta.left > 0
        /\ f \in Partial(Kept \union {Nobody})
    BY <1>1, <1>4, FoundIsFit DEF K, f
  <2>2. \A w \in ws : f[w] = K[w].meta.job
    BY DEF f
  <2> QED
    BY <1>1, <1>4, <2>1, <2>2, ResolvedKeeps DEF K
<1> QED
  BY <1>2, <1>3, <1>4

LEMMA ResolveStudioKeeps ==
  ASSUME KeepsAssumed, WritesAreAlone, KeepsInv, ResolveStudio
  PROVE  KeepsInv'
<1> DEFINE K  == Swept(Settled)
           r  == "studio"
           ws == readers[r].words
           f  == [w \in ws |-> K[w].meta.job]
<1>1. r \in Readers
  BY DEF Readers
<1>2. /\ readers[r].st = "waiting" /\ ws \in SUBSET Words /\ keeps' = K /\ UNCHANGED <<pool, jobs, loop>>
  BY <1>1, ReadersTyped DEF ResolveStudio, ReaderRecords
<1>3. \/ readers' = [readers EXCEPT ![r] = [readers[r] EXCEPT !.st = "failed"]]
      \/ /\ ~Refusing(K, ws) /\ \A w \in ws : Usable(K, w)
         /\ readers' = [readers EXCEPT ![r] = [readers[r] EXCEPT !.st = "reading", !.found = f]]
  BY DEF ResolveStudio, Reads
<1>4. loop.at # "idle" => loop.job \in Kept /\ Owns(loop.job) /\ loop.job # Nobody
  BY DEF KeepsInv, KeepsTyped, KeepsAssumed, Owns
<1>5. /\ loop.at # "idle" => WordOf(loop.job) \notin Settled
      /\ Settled \subseteq Words
      /\ \A w \in Words : w \notin Settled => loop.at # "idle" /\ w = WordOf(loop.job)
  BY <1>4 DEF Settled, WritesAreAlone, KeepsInv, KeepsTyped, AtRest
<1> HIDE DEF K, f
<1>6. CASE readers' = [readers EXCEPT ![r] = [readers[r] EXCEPT !.st = "failed"]]
  BY <1>1, <1>2, <1>5, <1>6, FailedKeeps DEF K
<1>7. CASE /\ ~Refusing(K, ws) /\ \A w \in ws : Usable(K, w)
           /\ readers' = [readers EXCEPT ![r] = [readers[r] EXCEPT !.st = "reading", !.found = f]]
  <2>1. ws \in SUBSET Settled
    <3>1. \A w \in ws : K[w].meta.file = "whole" /\ K[w].meta.ready
      BY <1>7 DEF Refusing, Usable
    <3>2. \A w \in Words : w \notin Settled => K[w] = keeps[w]
      BY SweepTakes DEF K, KeepsInv
    <3>3. loop.at # "idle" =>
            ~(keeps[WordOf(loop.job)].meta.file = "whole" /\ keeps[WordOf(loop.job)].meta.ready)
      BY <1>4 DEF KeepsInv, OwnersAreNamed
    <3> QED
      BY <1>2, <1>5, <3>1, <3>2, <3>3
  <2>2. /\ \A w \in ws : K[w].meta.file = "whole" /\ K[w].meta.ready /\ K[w].meta.left > 0
        /\ f \in Partial(Kept \union {Nobody})
    BY <1>5, <1>7, <2>1, FoundIsFit DEF K, f
  <2>3. \A w \in ws : f[w] = K[w].meta.job
    BY DEF f
  <2> QED
    BY <1>1, <1>2, <1>5, <1>7, <2>2, <2>3, ResolvedKeeps DEF K
<1> QED
  BY <1>3, <1>6, <1>7

LEMMA ReadKeeps ==
  ASSUME KeepsAssumed, KeepsInv, NEW r \in Readers, Read(r)
  PROVE  KeepsInv'
<1>1. PICK y \in ReaderRecords : y = readers[r]
  BY ReadersTyped
<1>2. PICK w \in Unread(r) :
        /\ Reads(r, IF keeps[w].out = NoOutput
                    THEN [readers[r] EXCEPT !.st = "failed"]
                    ELSE [readers[r] EXCEPT !.got = [v \in DOMAIN @ \union {w} |->
                                                       IF v = w THEN keeps[w].out ELSE @[v]],
                                            !.st = IF Unread(r) = {w} THEN "read" ELSE @])
        /\ UNCHANGED <<keeps, pool, jobs, loop, spent>>
  BY DEF Read
<1>3. keeps' = Swept({})
  BY <1>2, NothingSwept
<1>4. /\ y.st = "reading" /\ w \in y.words /\ w \in Words /\ w \notin DOMAIN y.got
      /\ Unread(r) = y.words \ DOMAIN y.got
  BY <1>1, <1>2 DEF Unread, ReaderRecords
<1>5. /\ keeps[w].meta.file = "whole" /\ keeps[w].meta.ready /\ keeps[w].meta.job = y.found[w]
      /\ keeps[w].out = [job |-> y.found[w], whole |-> TRUE] /\ keeps[w].out \in Outputs
  BY <1>1, <1>2, <1>4, ReadersTyped DEF KeepsInv, UnreadIsKept, ReadyIsWhole
<1>6. CASE keeps[w].out = NoOutput
  <2>1. readers' = [readers EXCEPT ![r] = [readers[r] EXCEPT !.st = "failed"]]
    BY <1>2, <1>6 DEF Reads
  <2> QED
    BY <1>2, <1>3, <2>1, FailedKeeps
<1>7. CASE keeps[w].out # NoOutput
  <2> DEFINE D == DOMAIN y.got \union {w}
             g == [v \in D |-> IF v = w THEN keeps[w].out ELSE y.got[v]]
             s == IF Unread(r) = {w} THEN "read" ELSE y.st
             x == [y EXCEPT !.got = g, !.st = s]
  <2>1. readers' = [readers EXCEPT ![r] = x]
    BY <1>1, <1>2, <1>7 DEF Reads
  <2>2. y.got \in [DOMAIN y.got -> Outputs] /\ DOMAIN y.got \in SUBSET Words
    <3>1. PICK T \in SUBSET Words : y.got \in [T -> Outputs]
      BY DEF ReaderRecords, Partial
    <3> QED
      BY <3>1
  <2>3. D \in SUBSET Words /\ g \in [D -> Outputs]
    BY <1>4, <1>5, <2>2
  <2>4. g \in Partial(Outputs)
    BY <2>3, Zenon DEF Partial
  <2>5. s \in {"read", "reading"}
    BY <1>4
  <2>6. \A v \in DOMAIN g : g[v] = [job |-> y.found[v], whole |-> TRUE]
    <3>1. \A v \in DOMAIN y.got : y.got[v] = [job |-> y.found[v], whole |-> TRUE]
      BY <1>1 DEF KeepsInv, FoundIsRead
    <3> QED
      BY <1>5, <3>1
  <2>7. DOMAIN g = D
    OBVIOUS
  <2> HIDE DEF D, g, s
  <2>8. x \in ReaderRecords /\ x.st = s /\ x.got = g /\ x.found = y.found /\ x.words = y.words
    BY <2>4, <2>5 DEF ReaderRecords, ReaderStates
  <2>9. \A v \in x.words \ DOMAIN x.got :
          /\ keeps[v].meta.file = "whole" /\ keeps[v].meta.ready /\ keeps[v].meta.left > 0
          /\ keeps[v].meta.job = x.found[v]
    <3>1. \A v \in x.words \ DOMAIN x.got : v \in Unread(r)
      BY <1>4, <2>7, <2>8 DEF D
    <3> QED
      BY <1>1, <2>8, <3>1 DEF KeepsInv, UnreadIsKept
  <2> HIDE DEF x
  <2>10. ReaderSuits(keeps', x)
    BY <1>2, <2>5, <2>6, <2>8, <2>9 DEF ReaderSuits
  <2> QED
    BY <1>2, <1>3, <2>1, <2>8, <2>10, ReaderMoves
<1> QED
  BY <1>6, <1>7

LEMMA DeclineKeeps ==
  ASSUME KeepsAssumed, KeepsInv, NEW j \in Kept, Decline(j)
  PROVE  KeepsInv'
<1>1. /\ loop.at = "idle" /\ jobs[j].st = "new" /\ jobs' = [jobs EXCEPT ![j].st = "refused"]
      /\ keeps' = Swept(Words) /\ UNCHANGED <<pool, loop, readers>>
  BY DEF Decline, AtRest, WithState
<1>2. /\ readers' \in [Readers -> ReaderRecords]
      /\ jobs' \in [Kept -> [st : JobStates, word : Words \union {<<0, 0>>}]]
      /\ \A i \in Kept : \/ jobs'[i] = jobs[i]
                         \/ jobs[i].st = "new" /\ jobs'[i].st = "refused"
  BY <1>1, ReadersTyped DEF JobStates
<1> QED
  BY <1>1, <1>2, SweepKeeps

LEMMA ReserveKeeps ==
  ASSUME KeepsAssumed, KeepsInv, NEW j \in Kept, Reserve(j)
  PROVE  KeepsInv'
<1>0. /\ KeepsTyped /\ OwnersAreAlone /\ OwnersAreNamed /\ OnlyTheLoopTears /\ UnreadIsKept
      /\ ReadyIsWhole /\ FoundIsRead
  BY DEF KeepsInv
<1> DEFINE K == Swept(Words)
           w == Allocated(K)
           m == [K[w].meta EXCEPT !.file = "torn"]
<1>1. /\ loop.at = "idle" /\ jobs[j].st = "new" /\ Free(K) # {}
      /\ keeps' = [K EXCEPT ![w].meta.file = "torn"]
      /\ jobs' = [jobs EXCEPT ![j] = [st |-> "open", word |-> w]]
      /\ loop' = [at |-> "writing", job |-> j, meta |-> MetaOf(j, FALSE)]
      /\ pool' = pool /\ readers' = readers
  BY DEF Reserve, Writing, AtRest
<1>2. w \in Words /\ K[w].meta.file = "none"
  <2> HIDE DEF K
  <2> QED
    BY <1>0, <1>1, AllocatedIsFree DEF Known
<1>3. /\ K \in [Words -> [meta : Metas, out : Outputs]]
      /\ \A v \in Words : K[v].meta.file # "torn"
  BY <1>0, SweepTakes
<1>4. /\ \A i \in Kept : Owns(i) => WordOf(i) \in Words /\ K[WordOf(i)] = keeps[WordOf(i)]
      /\ \A r \in Readers : \A v \in Unread(r) : v \in Words /\ K[v] = keeps[v]
      /\ \A v \in Words : K[v].meta.file = "whole" /\ K[v].meta.ready
           => K[v].out = [job |-> K[v].meta.job, whole |-> TRUE]
  BY <1>1, SweepSpares
<1> HIDE DEF K, w
<1>5. /\ \A i \in Kept : Owns(i) => WordOf(i) # w
      /\ \A r \in Readers : \A v \in Unread(r) : v # w
  BY <1>0, <1>2, <1>4 DEF OwnersAreNamed, UnreadIsKept, Known
<1>6. /\ keeps' \in [Words -> [meta : Metas, out : Outputs]]
      /\ keeps'[w].meta.file = "torn" /\ \A v \in Words : v # w => keeps'[v] = K[v]
  <2>1. m \in Metas /\ m.file = "torn"
    BY <1>2, <1>3 DEF Metas
  <2>2. PICK n \in Metas : n = m /\ n.file = "torn"
    BY <2>1
  <2>3. keeps' = [K EXCEPT ![w].meta = n]
    BY <1>1, <2>2
  <2> QED
    BY <1>2, <1>3, <2>2, <2>3
<1> HIDE DEF m
<1>7. /\ jobs' \in [Kept -> [st : JobStates, word : Words \union {<<0, 0>>}]]
      /\ jobs'[j].st = "open" /\ jobs'[j].word = w /\ \A i \in Kept : i # j => jobs'[i] = jobs[i]
  BY <1>0, <1>1, <1>2 DEF KeepsTyped, JobStates
<1>8. /\ loop'.at = "writing" /\ loop'.job = j /\ loop'.meta = MetaOf(j, FALSE)
      /\ MetaOf(j, FALSE) \in Metas /\ MetaOf(j, FALSE).file = "whole"
  BY <1>1 DEF MetaOf, Metas, KeepsAssumed
<1>9. KeepsTyped'
  <2>1. \A i \in Kept : jobs'[i].st \notin {"new", "refused"} => jobs'[i].word \in Words
    BY <1>0, <1>2, <1>7 DEF KeepsTyped
  <2>2. \A i \in Kept : jobs'[i].st \in JobStates
    BY <1>7
  <2> QED
    BY <1>0, <1>1, <1>6, <1>7, <1>8, <2>1, <2>2 DEF KeepsTyped, KeepsTypeOK, JobStates
<1>10. /\ \A i \in Kept : Owns(i)' /\ i # j => Owns(i) /\ WordOf(i)' = WordOf(i)
       /\ WordOf(j)' = w
  BY <1>1, <1>7, <1>8 DEF Owns, Active, WordOf
<1>11. OwnersAreAlone'
  BY <1>0, <1>5, <1>10 DEF OwnersAreAlone
<1>12. OwnersAreNamed'
  BY <1>0, <1>4, <1>5, <1>6, <1>10 DEF OwnersAreNamed, Known
<1>13. OnlyTheLoopTears'
  <2>1. WordOf(loop.job)' = w
    BY <1>7, <1>8 DEF WordOf
  <2>2. \A v \in Words : keeps'[v].meta.file = "torn" => v = w
    BY <1>3, <1>6
  <2> QED
    BY <1>6, <1>7, <1>8, <2>1, <2>2 DEF OnlyTheLoopTears
<1>14. UnreadIsKept' /\ FoundIsRead'
  <2>1. \A r \in Readers : \A v \in Unread(r) : v \in Words /\ keeps'[v] = keeps[v]
    BY <1>4, <1>5, <1>6
  <2>2. UnreadIsKept'
    <3>1. readers' = readers /\ \A r \in Readers : Unread(r)' = Unread(r)
      BY <1>1 DEF Unread
    <3> SUFFICES ASSUME NEW r \in Readers, NEW v \in Unread(r)
                 PROVE  /\ keeps'[v].meta.file = "whole" /\ keeps'[v].meta.ready
                        /\ keeps'[v].meta.left > 0 /\ keeps'[v].meta.job = readers[r].found[v]
      BY <3>1 DEF UnreadIsKept
    <3>2. keeps'[v] = keeps[v]
      BY <2>1
    <3> QED
      BY <1>0, <3>2 DEF UnreadIsKept
  <2> QED
    BY <1>0, <1>1, <2>2 DEF FoundIsRead
<1>15. ReadyIsWhole'
  BY <1>4, <1>6 DEF ReadyIsWhole
<1> QED
  BY <1>9, <1>11, <1>12, <1>13, <1>14, <1>15 DEF KeepsInv

\* No keyword of an owner, and none that is still to be read, expires.
LEMMA TickKeeps ==
  ASSUME KeepsAssumed, WorkEndsInTime, KeepsInv, Tick
  PROVE  KeepsInv'
<1>0. /\ KeepsTyped /\ OwnersAreAlone /\ OwnersAreNamed /\ OnlyTheLoopTears /\ UnreadIsKept
      /\ ReadyIsWhole /\ FoundIsRead
  BY DEF KeepsInv
<1>1. UNCHANGED <<pool, jobs, loop, readers>> /\ \A w \in Words : Needed(w) => keeps[w].meta.left # 1
  BY DEF Tick, WorkEndsInTime
<1>2. ASSUME NEW w \in Words
      PROVE  /\ keeps'[w] \in [meta : Metas, out : Outputs] /\ keeps'[w].out = keeps[w].out
             /\ keeps'[w].meta.file = keeps[w].meta.file /\ keeps'[w].meta.job = keeps[w].meta.job
             /\ keeps'[w].meta.ready = keeps[w].meta.ready
             /\ keeps[w].meta.left > 1 => keeps'[w].meta.left > 0
             /\ keeps[w].meta.left \in Nat
  <2>1. PICK k \in [meta : Metas, out : Outputs] : k = keeps[w]
    BY <1>0 DEF KeepsTyped, KeepsTypeOK
  <2>2. PICK m \in Metas : m = k.meta
    OBVIOUS
  <2>3. PICK l \in 0..Ttl : l = (IF m.left = 0 THEN 0 ELSE m.left - 1) /\ (m.left > 1 => l > 0)
    BY DEF Metas, KeepsAssumed
  <2>4. keeps'[w] = [k EXCEPT !.meta.left = l]
    BY <2>1, <2>2, <2>3 DEF Tick
  <2>5. keeps'[w] = [meta |-> [m EXCEPT !.left = l], out |-> k.out]
    BY <2>2, <2>4
  <2>6. PICK n \in Metas : /\ n = [m EXCEPT !.left = l] /\ n.left = l /\ n.file = m.file
                           /\ n.job = m.job /\ n.ready = m.ready
    <3>1. [m EXCEPT !.left = l] \in Metas
      BY DEF Metas
    <3> QED
      BY <3>1 DEF Metas
  <2>7. m.left \in Nat
    BY DEF Metas, KeepsAssumed
  <2>8. keeps'[w].meta = n /\ keeps'[w].out = k.out /\ k.out \in Outputs
    BY <2>5, <2>6
  <2>9. keeps'[w] \in [meta : Metas, out : Outputs]
    BY <2>5, <2>6, <2>8
  <2> QED
    BY <2>1, <2>2, <2>3, <2>6, <2>7, <2>8, <2>9
<1>3. keeps' \in [Words -> [meta : Metas, out : Outputs]]
  <2>1. keeps' = [w \in Words |-> keeps'[w]]
    BY DEF Tick
  <2> QED
    BY <1>2, <2>1
<1>4. KeepsTyped'
  BY <1>0, <1>1, <1>3 DEF KeepsTyped, KeepsTypeOK
<1>5. \A j \in Kept : Owns(j) => WordOf(j) \in Words /\ Needed(WordOf(j))
  <2>1. \A j \in Kept : Owns(j) => WordOf(j) \in Words
    BY <1>0 DEF KeepsTyped, KeepsTypeOK, Owns, Active, WordOf, OnlyTheLoopTears
  <2> QED
    BY <2>1 DEF Owns, Needed
<1>6. OwnersAreAlone'
  BY <1>0, <1>1 DEF OwnersAreAlone, Owns, Active, WordOf
<1>7. OwnersAreNamed'
  <2> SUFFICES ASSUME NEW j \in Kept, Owns(j)
               PROVE  /\ keeps'[WordOf(j)].meta.file # "none"
                      /\ keeps'[WordOf(j)].meta.file = "whole" =>
                           /\ keeps'[WordOf(j)].meta.job = j /\ ~keeps'[WordOf(j)].meta.ready
                           /\ keeps'[WordOf(j)].meta.left > 0
    BY <1>1 DEF OwnersAreNamed, Owns, Active, WordOf, Known
  <2>1. PICK w \in Words : w = WordOf(j) /\ Needed(w)
    BY <1>5
  <2>2. /\ keeps[w].meta.file # "none"
        /\ keeps[w].meta.file = "whole" =>
             keeps[w].meta.job = j /\ ~keeps[w].meta.ready /\ keeps[w].meta.left > 0
    BY <1>0, <2>1 DEF OwnersAreNamed, Known
  <2>3. keeps[w].meta.left # 1
    BY <1>1, <2>1
  <2> QED
    BY <1>2, <2>1, <2>2, <2>3
<1>8. OnlyTheLoopTears'
  <2>1. loop.at = "writing" => WordOf(loop.job) \in Words
    BY <1>0, <1>5 DEF KeepsTyped, Owns
  <2>2. loop' = loop /\ WordOf(loop.job)' = WordOf(loop.job) /\ jobs' = jobs
    BY <1>1 DEF WordOf
  <2> QED
    BY <1>0, <1>2, <2>1, <2>2 DEF OnlyTheLoopTears
<1>9. UnreadIsKept'
  <2> SUFFICES ASSUME NEW r \in Readers, NEW w \in Unread(r)
               PROVE  /\ keeps'[w].meta.file = "whole" /\ keeps'[w].meta.ready
                      /\ keeps'[w].meta.left > 0 /\ keeps'[w].meta.job = readers[r].found[w]
    BY <1>1 DEF UnreadIsKept, Unread
  <2>1. w \in Words /\ Needed(w)
    BY <1>0 DEF Unread, KeepsTyped, Needed
  <2>2. keeps[w].meta.left > 0 /\ keeps[w].meta.left # 1
    BY <1>0, <1>1, <2>1 DEF UnreadIsKept
  <2> QED
    BY <1>0, <1>2, <2>1, <2>2 DEF UnreadIsKept
<1>10. ReadyIsWhole' /\ FoundIsRead'
  BY <1>0, <1>1, <1>2 DEF ReadyIsWhole, FoundIsRead
<1> QED
  BY <1>4, <1>6, <1>7, <1>8, <1>9, <1>10 DEF KeepsInv

\* After a restart nobody owns a word, and nobody reads.
LEMMA RestartKeeps ==
  ASSUME KeepsAssumed, KeepsInv, Restart
  PROVE  KeepsInv'
<1>0. KeepsTyped /\ ReadyIsWhole /\ FoundIsRead
  BY DEF KeepsInv
<1>1. /\ keeps' \in [Words -> [meta : Metas, out : Outputs]]
      /\ \A w \in Words : /\ keeps'[w] = keeps[w] \/ keeps'[w] = NoKeep
                          /\ keeps'[w].meta.file # "torn"
  BY <1>0, SweepTakes DEF Restart
<1>2. AtRest.at = "idle" /\ AtRest \in [at : {"idle", "copying", "writing"}, job : Kept \union {Nobody}, meta : Metas]
  BY DEF AtRest, NoMeta, Metas, KeepsAssumed
<1>3. ASSUME NEW j \in Kept
      PROVE  /\ jobs'[j] \in [st : JobStates, word : Words \union {<<0, 0>>}]
             /\ jobs'[j].st \notin {"open", "done"}
             /\ jobs'[j].st \notin {"new", "refused"} => jobs'[j].word \in Words
  <2>1. PICK i \in [st : JobStates, word : Words \union {<<0, 0>>}] : i = jobs[j]
    BY ReadersTyped
  <2>2. jobs'[j] = IF Active(j) \/ loop.job = j THEN [i EXCEPT !.st = "lost"] ELSE i
    BY <2>1 DEF Restart
  <2>3. Active(j) <=> i.st \in {"open", "done"}
    BY <2>1 DEF Active
  <2>4. i.st \notin {"new", "refused"} => i.word \in Words
    BY <1>0, <2>1 DEF KeepsTyped
  <2>5. loop.job = j => i.st \notin {"new", "refused"}
    <3>1. OnlyTheLoopTears /\ loop.at \in {"idle", "copying", "writing"}
      BY <1>0 DEF KeepsInv, KeepsTyped, KeepsTypeOK
    <3>2. loop.at = "idle" => loop.job # j
      BY <1>0 DEF KeepsTyped, AtRest, KeepsAssumed
    <3> QED
      BY <2>1, <3>1, <3>2 DEF OnlyTheLoopTears
  <2> QED
    BY <2>2, <2>3, <2>4, <2>5 DEF JobStates
<1>4. jobs' \in [Kept -> [st : JobStates, word : Words \union {<<0, 0>>}]]
  <2>1. jobs' = [j \in Kept |-> jobs'[j]]
    BY DEF Restart
  <2> QED
    BY <1>3, <2>1
<1>5. ASSUME NEW r \in Readers
      PROVE  /\ readers'[r] \in ReaderRecords /\ readers'[r].st \notin {"waiting", "reading"}
             /\ readers'[r].found = readers[r].found /\ readers'[r].got = readers[r].got
             /\ readers'[r].st = "new" => readers[r].st = "new"
  <2>1. PICK x \in ReaderRecords : x = readers[r]
    BY ReadersTyped
  <2>2. readers'[r] = IF x.st \in {"waiting", "reading"} THEN [x EXCEPT !.st = "lost"] ELSE x
    BY <2>1 DEF Restart
  <2> QED
    BY <2>1, <2>2 DEF ReaderRecords, ReaderStates
<1>6. readers' \in [Readers -> ReaderRecords]
  <2>1. readers' = [r \in Readers |-> readers'[r]]
    BY DEF Restart
  <2> QED
    BY <1>5, <2>1
<1>7. loop' = AtRest /\ pool' = pool
  BY DEF Restart
<1>8. KeepsTyped'
  <2>1. \A j \in Kept : jobs'[j].st \in JobStates
    BY <1>4
  <2>2. \A r \in Readers : readers'[r].st \in {"new", "waiting"} => DOMAIN readers'[r].got = {}
    BY <1>0, <1>5 DEF KeepsTyped
  <2> QED
    BY <1>0, <1>1, <1>2, <1>3, <1>4, <1>6, <1>7, <2>1, <2>2
    DEF KeepsTyped, KeepsTypeOK, JobStates, ReaderRecords
<1>9. OwnersAreAlone' /\ OwnersAreNamed' /\ OnlyTheLoopTears'
  <2>1. \A j \in Kept : ~Owns(j)'
    BY <1>2, <1>3, <1>7 DEF Owns, Active
  <2> QED
    BY <1>1, <1>2, <1>7, <2>1 DEF OwnersAreAlone, OwnersAreNamed, OnlyTheLoopTears
<1>10. UnreadIsKept' /\ FoundIsRead'
  BY <1>0, <1>5 DEF UnreadIsKept, Unread, FoundIsRead
<1>11. ReadyIsWhole'
  <2>1. NoKeep.meta.file = "none"
    BY DEF NoKeep, NoMeta
  <2> QED
    BY <1>0, <1>1, <2>1 DEF ReadyIsWhole
<1> QED
  BY <1>8, <1>9, <1>10, <1>11 DEF KeepsInv

LEMMA NothingMoves ==
  ASSUME KeepsInv, pool' \subseteq Bases, UNCHANGED <<keeps, jobs, loop, readers>>
  PROVE  KeepsInv'
<1>0. /\ KeepsTyped /\ OwnersAreAlone /\ OwnersAreNamed /\ OnlyTheLoopTears /\ UnreadIsKept
      /\ ReadyIsWhole /\ FoundIsRead
  BY DEF KeepsInv
<1>1. KeepsTyped'
  BY <1>0 DEF KeepsTyped, KeepsTypeOK
<1>2. OwnersAreAlone' /\ OwnersAreNamed'
  BY <1>0 DEF OwnersAreAlone, OwnersAreNamed, Owns, Active, WordOf, Known
<1>3. OnlyTheLoopTears'
  BY <1>0 DEF OnlyTheLoopTears, WordOf
<1>4. UnreadIsKept' /\ ReadyIsWhole' /\ FoundIsRead'
  BY <1>0 DEF UnreadIsKept, Unread, ReadyIsWhole, FoundIsRead
<1> QED
  BY <1>1, <1>2, <1>3, <1>4 DEF KeepsInv

LEMMA ChangePoolKeeps ==
  ASSUME KeepsInv, ChangePool
  PROVE  KeepsInv'
<1>1. pool' \subseteq Bases /\ UNCHANGED <<keeps, jobs, loop, readers>>
  BY DEF ChangePool, KeepsInv, KeepsTyped, KeepsTypeOK
<1> QED
  BY <1>1, NothingMoves

LEMMA KeepsStart ==
  ASSUME KeepsAssumed, KeepsInit
  PROVE  KeepsInv
<1>1. NoKeep \in [meta : Metas, out : Outputs] /\ NoKeep.meta.file = "none"
  BY DEF NoKeep, NoMeta, NoOutput, Metas, Outputs, KeepsAssumed
<1>2. AtRest.at = "idle" /\ AtRest \in [at : {"idle", "copying", "writing"}, job : Kept \union {Nobody}, meta : Metas]
  BY DEF AtRest, NoMeta, Metas, KeepsAssumed
<1>3. <<>> \in Partial(Kept \union {Nobody}) /\ <<>> \in Partial(Outputs) /\ DOMAIN <<>> = {}
  <2>1. DOMAIN <<>> = {} /\ \A T : <<>> \in [{} -> T]
    OBVIOUS
  <2> QED
    BY <2>1 DEF Partial
<1>4. readers \in [Readers -> ReaderRecords]
  BY <1>3 DEF KeepsInit, ReaderRecords, ReaderStates
<1>5. KeepsTyped
  BY <1>1, <1>2, <1>3, <1>4 DEF KeepsInit, KeepsTyped, KeepsTypeOK, JobStates, ReaderRecords
<1>6. \A j \in Kept : ~Owns(j)
  BY <1>2 DEF KeepsInit, Owns, Active
<1> QED
  BY <1>1, <1>2, <1>3, <1>5, <1>6
  DEF KeepsInit, KeepsInv, OwnersAreAlone, OwnersAreNamed, OnlyTheLoopTears, UnreadIsKept, Unread,
      ReadyIsWhole, FoundIsRead

LEMMA KeepsStepsKeep ==
  ASSUME KeepsAssumed, WorkEndsInTime, WritesAreAlone, KeepsInv, [KeepsNext]_keepsVars
  PROVE  KeepsInv'
<1>1. CASE KeepsStep
  <2>1. ASSUME NEW j \in Kept, Work(j) \/ Store(j) PROVE KeepsInv'
    BY <2>1, WorkKeeps, StoreKeeps
  <2>2. ASSUME NEW r \in Readers, ResolveKeycode(r) \/ Read(r) PROVE KeepsInv'
    BY <2>2, ResolveKeycodeKeeps, ReadKeeps
  <2> QED
    BY <1>1, <2>1, <2>2, CleanupKeeps, WrittenKeeps, CopiedKeeps, ResolveStudioKeeps, TickKeeps
    DEF KeepsStep
<1>2. ASSUME NEW j \in Kept, Decline(j) \/ Reserve(j) \/ Lose(j) \/ Fail(j) PROVE KeepsInv'
  BY <1>2, DeclineKeeps, ReserveKeeps, WorkKeeps, FailKeeps
<1>3. ASSUME NEW r \in Readers, NEW v \in Words, NEW w \in Words, Ask(r, {v, w}) PROVE KeepsInv'
  <2>1. {v, w} \in SUBSET Words
    OBVIOUS
  <2> QED
    BY <1>3, <2>1, AskKeeps
<1>4. CASE UNCHANGED keepsVars
  <2>1. pool' \subseteq Bases /\ UNCHANGED <<keeps, jobs, loop, readers>>
    BY <1>4 DEF keepsVars, KeepsInv, KeepsTyped, KeepsTypeOK
  <2> QED
    BY <2>1, NothingMoves
<1> QED
  BY <1>1, <1>2, <1>3, <1>4, ChangePoolKeeps, RestartKeeps DEF KeepsNext

\* For any words, jobs and keycodes, any time that keywords last, and any
\* number of faults, restarts and changes of the pool: a keyword that is
\* called ready has the whole output of the job it names, no two jobs at work
\* are promised one word, and what a keycode joins or a Studio copies is what
\* its keywords named when they were resolved (allocate_keyword,
\* cleanup_expired_keeps, store_output, try_dispatch_keycode) - where work
\* ends before its keyword expires, and no other's cleanup meets a file that is
\* being written.
THEOREM KeywordsKeepTheirPromise ==
  ASSUME KeepsAssumed, WorkEndsInTime, WritesAreAlone
  PROVE  KeepsSpec => []KeptAsPromised
<1>1. KeepsInv => KeptAsPromised
  BY DEF KeepsInv, KeptAsPromised, WordsAreNotShared, OwnersAreAlone, Owns
<1>2. KeepsInit => KeepsInv
  BY KeepsStart
<1>3. KeepsInv /\ [KeepsNext]_keepsVars => KeepsInv'
  BY KeepsStepsKeep
<1> QED
  BY <1>1, <1>2, <1>3, PTL DEF KeepsSpec
=============================================================================
