------------------------- MODULE OnePrimaryProofs -------------------------
(***************************************************************************)
(* How many servers are primary: no epoch ever has two of them, and a      *)
(* single switchover of a healthy cluster has one at most.  The control    *)
(* and the copies of the resource that these arguments rest on are in      *)
(* SwitchoverProofs.                                                       *)
(***************************************************************************)
EXTENDS SwitchoverProofs

(* The steps of a switchover that has marked the resource. *)
Switching == {"ShiftAway", "ReadOnly", "Promote", "ShiftTo", "Finish"}

(* The steps between the Status phase and the choice of the next epoch. *)
Observed == {"Service", "Replication", "Configure", "Switchover"}

(* Without patch faults no call to the API server fails. *)
LEMMA PatchesSucceed ==
  ASSUME TypeInv, MaxPatchFaults = 0
  PROVE  ~PatchMayFail
<1>1. used.patch \in Nat
  BY DEF TypeInv, TypeOK, Counters
<1> QED BY <1>1 DEF PatchMayFail

(***************************************************************************)
(* A step makes at most one server primary: the one that the status names, *)
(* at the recorded epoch, in reconcileReplication, or the one that the     *)
(* spec names, at the switchover's epoch, in configureNewPrimary.  It had  *)
(* a lower epoch before.  Every other primary was one, at the same epoch.  *)
(***************************************************************************)
StaysPrimary(p) == role[p] = "primary" /\ epoch'[p] = epoch[p]

Configured(p) ==
  /\ pc = "Configure" /\ pc' \in {"Configure", "Failed"} /\ UNCHANGED <<api, obj>>
  /\ p = obj.primary /\ epoch[p] < obj.epoch /\ epoch'[p] = obj.epoch

Promoted(p) ==
  /\ pc = "Promote" /\ pc' \in {"ShiftTo", "Failed"} /\ UNCHANGED <<api, obj, next>>
  /\ p = obj.podIndex /\ epoch[p] < next /\ epoch'[p] = next

(* A call of DOLT_ASSUME_CLUSTER_ROLE that is accepted, or has no effect. *)
LEMMA AssumeRoleEffect ==
  ASSUME TypeInv, NEW p \in Pods, NEW r \in Role, NEW e \in Nat, NEW ACTION onSuccess,
         AssumeRole(p, r, e, onSuccess)
  PROVE  /\ \A q \in Pods :
              /\ epoch'[q] >= epoch[q]
              /\ role'[q] = "primary" =>
                   \/ StaysPrimary(q)
                   \/ q = p /\ r = "primary" /\ epoch[q] < e /\ epoch'[q] = e
         /\ onSuccess \/ (pc' = "Failed" /\ UNCHANGED <<todo, from, next>>)
<1> USE DEF TypeInv
<1>0. role \in [Pods -> Role] /\ epoch \in [Pods -> Nat]
  BY DEF TypeOK
<1>1. \/ /\ AcceptsRole(role[p], epoch[p], r, e)
         /\ role' = [role EXCEPT ![p] = r] /\ epoch' = [epoch EXCEPT ![p] = e]
      \/ UNCHANGED <<role, epoch>>
  BY Zenon DEF AssumeRole, servers
<1>2. CASE UNCHANGED <<role, epoch>>
  BY <1>0, <1>2, AssumeRoleType DEF StaysPrimary
<1>3. CASE /\ AcceptsRole(role[p], epoch[p], r, e)
           /\ role' = [role EXCEPT ![p] = r] /\ epoch' = [epoch EXCEPT ![p] = e]
  <2>1. ASSUME NEW q \in Pods
        PROVE  /\ epoch'[q] >= epoch[q]
               /\ role'[q] = "primary" =>
                    \/ StaysPrimary(q)
                    \/ q = p /\ r = "primary" /\ epoch[q] < e /\ epoch'[q] = e
    BY <1>0, <1>3 DEF AcceptsRole, StaysPrimary
  <2> QED BY <2>1, AssumeRoleType
<1> QED BY <1>1, <1>2, <1>3

(* A transition to standby makes no server primary. *)
LEMMA TransitionEffect ==
  ASSUME TypeInv, NEW p \in Pods, NEW e \in Nat, NEW caughtUp, Transition(p, e, caughtUp)
  PROVE  \A q \in Pods :
           /\ epoch'[q] >= epoch[q]
           /\ role'[q] = "primary" => StaysPrimary(q)
<1>0. role \in [Pods -> Role] /\ epoch \in [Pods -> Nat]
  BY DEF TypeInv, TypeOK
<1>1. /\ role' = [role EXCEPT ![p] = "standby"] /\ epoch' = [epoch EXCEPT ![p] = e]
      /\ e > epoch[p]
  BY DEF Transition, AcceptsTransition
<1> QED BY <1>0, <1>1 DEF StaysPrimary

(* The claim above, for every step. *)
LEMMA WhoBecomesPrimary ==
  ASSUME TypeInv, [Next]_vars
  PROVE  \A q \in Pods :
           /\ epoch'[q] >= epoch[q]
           /\ role'[q] = "primary" => StaysPrimary(q) \/ Configured(q) \/ Promoted(q)
<1> DEFINE Goal == \A q \in Pods :
                     /\ epoch'[q] >= epoch[q]
                     /\ role'[q] = "primary" => StaysPrimary(q) \/ Configured(q) \/ Promoted(q)
<1>0. /\ role \in [Pods -> Role] /\ epoch \in [Pods -> Nat]
      /\ obj.podIndex \in Pods /\ obj.epoch \in Nat /\ next \in Nat
  BY DEF TypeInv, TypeOK, DoltDB
<1>1. CASE UNCHANGED <<role, epoch>>
  BY <1>0, <1>1 DEF StaysPrimary
<1>2. CASE ReconcileReplication /\ todo # {}
  <2> DEFINE p == Smallest(todo)
             r == IF p = obj.primary THEN "primary" ELSE "standby"
  <2>1. p \in Pods
    BY <1>2, SmallestPod DEF TypeInv, TypeOK
  <2>2. r \in Role
    BY DEF Role
  <2>3. /\ AssumeRole(p, r, obj.epoch,
                      pc' = pc /\ todo' = todo \ {p} /\ UNCHANGED <<from, next>>)
        /\ pc = "Configure" /\ UNCHANGED <<api, obj>>
    BY <1>2, Zenon DEF ReconcileReplication
  <2>4. r = "primary" => p = obj.primary
    OBVIOUS
  <2> HIDE DEF p, r
  <2>5. /\ \A q \in Pods :
             /\ epoch'[q] >= epoch[q]
             /\ role'[q] = "primary" =>
                  \/ StaysPrimary(q)
                  \/ q = p /\ r = "primary" /\ epoch[q] < obj.epoch /\ epoch'[q] = obj.epoch
        /\ \/ pc' = pc /\ todo' = todo \ {p} /\ UNCHANGED <<from, next>>
           \/ pc' = "Failed" /\ UNCHANGED <<todo, from, next>>
    BY <1>0, <2>1, <2>2, <2>3, AssumeRoleEffect
  <2>6. pc' \in {"Configure", "Failed"}
    BY <2>3, <2>5
  <2> QED BY <2>3, <2>4, <2>5, <2>6 DEF Configured
<1>3. CASE ConfigureNewPrimary
  <2>1. /\ AssumeRole(obj.podIndex, "primary", next, GoTo("ShiftTo"))
        /\ pc = "Promote" /\ UNCHANGED <<api, obj>>
    BY <1>3 DEF ConfigureNewPrimary
  <2>2. /\ \A q \in Pods :
             /\ epoch'[q] >= epoch[q]
             /\ role'[q] = "primary" =>
                  \/ StaysPrimary(q)
                  \/ q = obj.podIndex /\ epoch[q] < next /\ epoch'[q] = next
        /\ GoTo("ShiftTo") \/ (pc' = "Failed" /\ UNCHANGED <<todo, from, next>>)
    <3>1. "primary" \in Role
      BY DEF Role
    <3> QED BY <1>0, <2>1, <3>1, AssumeRoleEffect
  <2>3. pc' \in {"ShiftTo", "Failed"} /\ UNCHANGED next
    BY <2>2 DEF GoTo
  <2> QED BY <2>1, <2>2, <2>3 DEF Promoted
<1>4. CASE SetPrimaryReadOnly
  <2>1. obj.primary \in Pods
    BY <1>4 DEF SetPrimaryReadOnly, TypeInv, PrimaryKnown, TypeOK, DoltDB
  <2>2. \/ UNCHANGED servers
        \/ \E caughtUp \in SUBSET Pods : Transition(obj.primary, next, caughtUp)
    BY <1>4, Zenon DEF SetPrimaryReadOnly
  <2>3. CASE UNCHANGED servers
    BY <1>1, <2>3 DEF servers
  <2> QED BY <1>0, <2>1, <2>2, <2>3, TransitionEffect
<1>5. ASSUME NEW p \in Pods, PodDeleted(p) PROVE Goal
  <2>1. \/ UNCHANGED servers
        \/ \E caughtUp \in SUBSET Pods : Transition(p, epoch[p] + 1, caughtUp)
    BY <1>5 DEF PodDeleted
  <2>2. CASE UNCHANGED servers
    BY <1>1, <2>2 DEF servers
  <2>3. epoch[p] + 1 \in Nat
    BY <1>0
  <2> QED BY <2>1, <2>2, <2>3, TransitionEffect
<1>6. CASE \/ UNCHANGED vars \/ PodController
           \/ (Environment /\ ~\E p \in Pods : PodDeleted(p))
  <2>1. UNCHANGED <<role, epoch>>
    BY <1>6, Zenon
    DEF PodController, Environment, ReconcilePodIgnored, ReconcilePodNotReady, PatchPodIndex,
        PatchSwitching, EditPodIndex, CacheSync, OperatorRestart, PodFails, PodCreated,
        PodBecomesReady, ClientWrite, Replicate, servers, vars
  <2> QED BY <1>1, <2>1
<1>7. CASE \/ Reconcile \/ StatusPhase \/ ServicePhase \/ ReplicationPhase
           \/ (ReconcileReplication /\ todo = {}) \/ BeginSwitchover
           \/ ShiftTrafficAwayFromPrimary \/ ShiftTrafficToNewPrimary \/ FinishSwitchover
           \/ ReconcilePodLabels \/ PatchFailed
  <2>1. UNCHANGED <<role, epoch>>
    BY <1>7, Zenon
    DEF Reconcile, StatusPhase, ServicePhase, ReplicationPhase, ReconcileReplication,
        BeginSwitchover, ShiftTrafficAwayFromPrimary, ShiftTrafficToNewPrimary,
        FinishSwitchover, ReconcilePodLabels, PatchFailed, servers
  <2> QED BY <1>1, <2>1
<1> HIDE DEF Goal
<1> QED BY <1>2, <1>3, <1>4, <1>5, <1>6, <1>7, Zenon DEF Goal, Next, DoltDBController, Environment

-----------------------------------------------------------------------------
(* The mark of a switchover. *)

(***************************************************************************)
(* The condition PrimarySwitched=False that reconcileSwitchover sets stays *)
(* in the API server while its copy has it; the pods are configured only   *)
(* without it and the steps of the switchover run only with it.            *)
(***************************************************************************)
MarkKept ==
  /\ pc # "Idle" /\ IsSwitchingPrimary(obj) => IsSwitchingPrimary(api)
  /\ pc = "Configure" => ~IsSwitchingPrimary(obj)
  /\ pc \in Switching => IsSwitchingPrimary(obj)

(* The Pod controller and the environment never withdraw the mark. *)
LEMMA OthersKeepMark ==
  ASSUME TypeInv, PodController \/ Environment, IsSwitchingPrimary(api)
  PROVE  IsSwitchingPrimary(api')
<1> USE DEF TypeInv
<1>1. CASE PatchPodIndex
  <2> DEFINE new == [pobj EXCEPT !.podIndex = pto]
  <2>1. new.conds = pobj.conds
    BY DEF TypeOK, DoltDB
  <2>2. api' \in {api, MergePatch(api, pobj, new)}
    BY <1>1 DEF PatchPodIndex
  <2> HIDE DEF new
  <2> QED BY <2>1, <2>2 DEF MergePatch, IsSwitchingPrimary
<1>2. CASE PatchSwitching
  <2>1. SetPrimarySwitching(pobj).conds.switching \in Pods
    BY DEF SetPrimarySwitching, TypeOK, DoltDB
  <2>2. api' \in {api, MergePatch(api, pobj, SetPrimarySwitching(pobj))}
    BY <1>2 DEF PatchSwitching
  <2>3. api'.conds \in {api.conds, SetPrimarySwitching(pobj).conds}
    BY <2>2 DEF MergePatch
  <2> QED BY <2>1, <2>3, PodsFacts DEF IsSwitchingPrimary
<1>3. CASE EditPodIndex
  BY <1>3 DEF EditPodIndex, TypeOK, DoltDB, IsSwitchingPrimary
<1>4. CASE ~PatchPodIndex /\ ~PatchSwitching /\ ~EditPodIndex
  <2>1. UNCHANGED api
    BY <1>4, Zenon
    DEF PodController, Environment, ReconcilePodIgnored, ReconcilePodNotReady, CacheSync,
        OperatorRestart, PodFails, PodDeleted, PodCreated, PodBecomesReady, ClientWrite, Replicate
  <2> QED BY <2>1
<1> QED BY <1>1, <1>2, <1>3, <1>4

(* What the API server holds after a patch that succeeds. *)
LEMMA PatchAPIEffect ==
  ASSUME NEW new, PatchAPI(new)
  PROVE  /\ obj' = api'
         /\ api'.primary = IF new.primary # obj.primary THEN new.primary ELSE api.primary
         /\ api'.epoch = IF new.epoch # obj.epoch THEN new.epoch ELSE api.epoch
         /\ api'.podIndex = IF new.podIndex # obj.podIndex THEN new.podIndex ELSE api.podIndex
         /\ api'.conds = IF new.conds # obj.conds THEN new.conds ELSE api.conds
  BY DEF PatchAPI, MergePatch

(***************************************************************************)
(* How the DoltDB controller moves on when no patch fails, and what its    *)
(* steps do to the resource and to its copy of it.                         *)
(***************************************************************************)
Walks ==
  /\ UNCHANGED <<api, obj>>
  /\ \/ pc = "Service" /\ pc' = "Replication" /\ UNCHANGED next
     \/ pc = "Replication" /\ pc' = "Switchover" /\ UNCHANGED next
     \/ pc = "Replication" /\ pc' = "Configure" /\ ~IsSwitchingPrimary(obj) /\ UNCHANGED next
     \/ pc = "Configure" /\ pc' \in {"Configure", "Switchover", "Failed"} /\ UNCHANGED next
     \/ pc = "Switchover" /\ pc' = "Labels" /\ UNCHANGED next
     \/ pc = "ShiftAway" /\ pc' = "ReadOnly" /\ UNCHANGED next
     \/ pc = "ReadOnly" /\ pc' \in {"Promote", "Failed"} /\ UNCHANGED next
     \/ pc = "Promote" /\ pc' \in {"ShiftTo", "Failed"} /\ UNCHANGED next
     \/ pc = "ShiftTo" /\ pc' \in {"Finish", "Failed"} /\ UNCHANGED next

Ends == pc' = "Idle" /\ UNCHANGED api

Observes ==
  /\ pc = "Status" /\ pc' = "Service"
  /\ \E S \in SUBSET Pods : Reachable(S) /\ PatchAPI(StatusPatch(S))
  /\ UNCHANGED <<role, epoch>>

Begins ==
  /\ pc = "Switchover" /\ pc' = "ShiftAway" /\ ShouldReconcileSwitchover
  /\ PatchAPI(SetPrimarySwitching(obj))
  /\ \E S \in SUBSET Pods :
       Reachable(S) /\ next' = NextEpoch(CurrentPrimaryAndEpoch(GetDBStates(S)))
  /\ UNCHANGED <<role, epoch>>

Records ==
  /\ pc = "Finish" /\ pc' = "Labels"
  /\ PatchAPI(UpdateReplicationEpoch(
                [obj EXCEPT !.primary = obj.podIndex, !.conds.switching = NoPod], next))
  /\ UNCHANGED <<role, epoch>>

(* The claim above, for every step of the controller. *)
LEMMA ControllerSteps ==
  ASSUME TypeInv, ~PatchMayFail, DoltDBController
  PROVE  \/ Reconcile \/ Observes \/ Begins \/ Records \/ PatchFailed \/ Walks \/ Ends
<1>1. CASE StatusPhase
  BY <1>1, Zenon DEF StatusPhase, PatchFails, GoTo, Observes, servers
<1>2. CASE ServicePhase
  BY <1>2, Zenon DEF ServicePhase, GoTo, Walks
<1>3. CASE ReplicationPhase
  BY <1>3, Zenon DEF ReplicationPhase, GoTo, Return, Walks, Ends
<1>4. CASE ReconcileReplication
  <2>1. pc' \in {"Configure", "Switchover", "Failed"} /\ UNCHANGED next
    BY <1>4, Zenon DEF ReconcileReplication, AssumeRole, GoTo
  <2> QED BY <1>4, <2>1 DEF ReconcileReplication, Walks
<1>5. CASE BeginSwitchover
  BY <1>5, Zenon DEF BeginSwitchover, PatchFails, GoTo, Return, Begins, Walks, Ends, servers
<1>6. CASE ShiftTrafficAwayFromPrimary
  BY <1>6, Zenon DEF ShiftTrafficAwayFromPrimary, GoTo, Walks
<1>7. CASE SetPrimaryReadOnly
  <2>1. pc' \in {"Promote", "Failed"} /\ UNCHANGED next
    BY <1>7, Zenon DEF SetPrimaryReadOnly, GoTo
  <2> QED BY <1>7, <2>1 DEF SetPrimaryReadOnly, Walks
<1>8. CASE ConfigureNewPrimary
  <2>1. pc' \in {"ShiftTo", "Failed"} /\ UNCHANGED next
    BY <1>8, Zenon DEF ConfigureNewPrimary, AssumeRole, GoTo
  <2> QED BY <1>8, <2>1 DEF ConfigureNewPrimary, Walks
<1>9. CASE ShiftTrafficToNewPrimary
  BY <1>9 DEF ShiftTrafficToNewPrimary, GoTo, Walks
<1>10. CASE FinishSwitchover
  BY <1>10, Zenon DEF FinishSwitchover, PatchFails, GoTo, Records, servers
<1>11. CASE ReconcilePodLabels
  BY <1>11, Zenon DEF ReconcilePodLabels, Return, Ends
<1> QED BY <1>1, <1>2, <1>3, <1>4, <1>5, <1>6, <1>7, <1>8, <1>9, <1>10, <1>11
     DEF DoltDBController

(* A switchover that begins leaves the mark in the API server. *)
LEMMA BeginMarks ==
  ASSUME TypeInv, MarkKept, Begins
  PROVE  IsSwitchingPrimary(api') /\ obj' = api'
<1>1. SetPrimarySwitching(obj).conds.switching \in Pods
  BY DEF SetPrimarySwitching, TypeInv, TypeOK, DoltDB
<1>2. CASE SetPrimarySwitching(obj).conds # obj.conds
  <2>1. api'.conds = SetPrimarySwitching(obj).conds /\ obj' = api'
    BY <1>2, PatchAPIEffect DEF Begins
  <2> QED BY <1>1, <2>1, PodsFacts DEF IsSwitchingPrimary
<1>3. CASE SetPrimarySwitching(obj).conds = obj.conds
  <2>1. api'.conds = api.conds /\ obj' = api'
    BY <1>3, PatchAPIEffect DEF Begins
  <2>2. IsSwitchingPrimary(obj)
    BY <1>1, <1>3, PodsFacts DEF IsSwitchingPrimary
  <2> QED BY <2>1, <2>2 DEF Begins, MarkKept, IsSwitchingPrimary
<1> QED BY <1>2, <1>3

(* Every step preserves MarkKept. *)
LEMMA NextMarkKept ==
  ASSUME ~InformerLag, MaxPatchFaults = 0, TypeInv, MarkKept, [Next]_vars
  PROVE  MarkKept'
<1>1. CASE UNCHANGED vars
  BY <1>1 DEF vars, operator, MarkKept
<1>2. CASE PodController \/ Environment
  <2>1. UNCHANGED <<obj, pc>> \/ pc' = "Idle"
    BY <1>2, OthersKeepStatus
  <2>2. IsSwitchingPrimary(api) => IsSwitchingPrimary(api')
    BY <1>2, OthersKeepMark
  <2> QED BY <2>1, <2>2 DEF MarkKept, Switching
<1>3. CASE DoltDBController
  <2>1. CASE Reconcile
    BY <2>1 DEF Reconcile, Read, GoTo, MarkKept, Switching
  <2>2. CASE Observes \/ Records
    <3>1. obj' = api'
      BY <2>2 DEF Observes, Records, PatchAPI
    <3>2. pc' \in {"Service", "Labels"}
      BY <2>2 DEF Observes, Records
    <3> QED BY <3>1, <3>2 DEF MarkKept, Switching
  <2>3. CASE Begins
    <3>1. pc' = "ShiftAway"
      BY <2>3 DEF Begins
    <3> QED BY <2>3, <3>1, BeginMarks DEF MarkKept
  <2>4. CASE PatchFailed \/ Ends
    BY <2>4 DEF PatchFailed, Return, Ends, MarkKept, Switching
  <2>5. CASE Walks
    BY <2>5 DEF Walks, MarkKept, Switching
  <2> QED BY <1>3, <2>1, <2>2, <2>3, <2>4, <2>5, ControllerSteps, PatchesSucceed
<1> QED BY <1>1, <1>2, <1>3 DEF Next

-----------------------------------------------------------------------------
(* No epoch has two primaries. *)

(***************************************************************************)
(* What the controller has seen of the epochs while every primary can be   *)
(* asked: from the Status phase on no primary is ahead of the recorded     *)
(* epoch, and from the head of the switchover to the promotion every       *)
(* primary is behind the epoch that the switchover is about to use.        *)
(***************************************************************************)
EpochsSeen ==
  \A p \in Primaries :
    /\ pc \in Observed => epoch[p] <= obj.epoch
    /\ pc \in {"ShiftAway", "ReadOnly", "Promote"} => epoch[p] < next
    /\ pc \in {"ShiftTo", "Finish"} => epoch[p] <= next

(* The Status phase records the highest epoch of the servers it reaches. *)
LEMMA StatusSeesEpochs ==
  ASSUME ~InformerLag, PrimariesReachable, TypeInv, CopyIsCurrent, Observes
  PROVE  \A p \in Primaries : epoch[p] <= obj'.epoch
<1>1. PICK S \in SUBSET Pods : Reachable(S) /\ PatchAPI(StatusPatch(S))
  BY DEF Observes
<1>2. epoch \in [Pods -> Nat] /\ obj.epoch \in Nat
  BY DEF TypeInv, TypeOK, DoltDB
<1>3. \A p \in S : epoch[p] <= ObservedEpoch(S)
  BY <1>2, LargestOfPods DEF ObservedEpoch
<1>4. StatusPatch(S).epoch = ObservedEpoch(S)
  BY DEF StatusPatch, TypeInv, TypeOK, DoltDB
<1>5. api.epoch = obj.epoch
  BY DEF Observes, CopyIsCurrent
<1>6. obj'.epoch = ObservedEpoch(S)
  BY <1>1, <1>4, <1>5, PatchAPIEffect
<1>7. Primaries \subseteq S
  BY <1>1 DEF Reachable
<1> QED BY <1>3, <1>6, <1>7

(* The head of the switchover chooses an epoch that no primary has reached. *)
LEMMA NextEpochIsAhead ==
  ASSUME PrimariesReachable, TypeInv, EpochsSeen, Begins
  PROVE  \A p \in Primaries : epoch[p] < next'
<1> SUFFICES ASSUME NEW p \in Primaries PROVE epoch[p] < next'
  OBVIOUS
<1>1. PICK S \in SUBSET Pods :
        Reachable(S) /\ next' = NextEpoch(CurrentPrimaryAndEpoch(GetDBStates(S)))
  BY DEF Begins
<1> DEFINE seen == CurrentPrimaryAndEpoch(GetDBStates(S))
<1>2. p \in Pods /\ p \in S /\ epoch[p] \in Nat /\ obj.epoch \in Nat
  BY <1>1 DEF Reachable, Primaries, TypeInv, TypeOK, DoltDB
<1>3. GetDBStates(S) \in [Pods -> [role : {"", "primary", "standby"}, epoch : Nat]]
  BY DEF GetDBStates, TypeInv, TypeOK, Role
<1>4. seen.ok => seen.epoch \in Nat /\ GetDBStates(S)[p].epoch <= seen.epoch
  BY <1>2, <1>3, CurrentPrimaryAndEpochSound
<1>5. GetDBStates(S)[p].epoch = epoch[p]
  BY <1>2 DEF GetDBStates
<1>6. epoch[p] <= obj.epoch
  BY DEF EpochsSeen, Begins, Observed
<1>7. next' = (IF seen.ok THEN seen.epoch ELSE obj.epoch) + 1
  BY <1>1 DEF NextEpoch
<1> HIDE DEF seen
<1> QED BY <1>2, <1>4, <1>5, <1>6, <1>7

(* Every step preserves EpochsSeen. *)
LEMMA NextEpochsSeen ==
  ASSUME ~InformerLag, PrimariesReachable, MaxPatchFaults = 0,
         TypeInv, CopyIsCurrent, EpochsSeen, [Next]_vars
  PROVE  EpochsSeen'
<1>0. /\ \A q \in Pods : epoch[q] \in Nat /\ epoch'[q] \in Nat
      /\ obj.epoch \in Nat /\ next \in Nat
      /\ Primaries \subseteq Pods
      /\ Primaries' = {q \in Pods : role'[q] = "primary"}
  <2>1. TypeOK /\ TypeOK'
    BY NextTypeInv DEF TypeInv
  <2> QED BY <2>1 DEF TypeOK, DoltDB, Primaries
<1>1. \A q \in Primaries' :
        \/ q \in Primaries /\ epoch'[q] = epoch[q]
        \/ Configured(q) \/ Promoted(q)
  BY <1>0, WhoBecomesPrimary DEF StaysPrimary, Primaries
<1>2. CASE pc' \in {"Idle", "Status", "Labels", "Failed"}
  BY <1>2 DEF EpochsSeen, Observed
<1>3. CASE Walks \/ UNCHANGED <<obj, pc, next>>
  <2> SUFFICES ASSUME NEW q \in Primaries'
               PROVE  /\ pc' \in Observed => epoch'[q] <= obj'.epoch
                      /\ pc' \in {"ShiftAway", "ReadOnly", "Promote"} => epoch'[q] < next'
                      /\ pc' \in {"ShiftTo", "Finish"} => epoch'[q] <= next'
    BY DEF EpochsSeen
  <2>1. CASE q \in Primaries /\ epoch'[q] = epoch[q]
    <3>1. /\ pc \in Observed => epoch[q] <= obj.epoch
          /\ pc \in {"ShiftAway", "ReadOnly", "Promote"} => epoch[q] < next
          /\ pc \in {"ShiftTo", "Finish"} => epoch[q] <= next
      BY <2>1 DEF EpochsSeen
    <3>2. epoch[q] \in Nat /\ epoch'[q] = epoch[q]
      BY <1>0, <2>1
    <3> QED BY <1>0, <1>3, <3>1, <3>2 DEF Walks, Observed
  <2>2. CASE Configured(q)
    BY <1>0, <2>2 DEF Configured, Observed
  <2>3. CASE Promoted(q)
    BY <1>0, <2>3 DEF Promoted, Observed
  <2> QED BY <1>1, <2>1, <2>2, <2>3
<1>4. CASE UNCHANGED vars \/ PodController \/ Environment
  <2>1. UNCHANGED <<obj, pc, next>> \/ pc' = "Idle"
    BY <1>4, OthersKeepStatus DEF vars, operator
  <2> QED BY <1>3, <1>2, <2>1
<1>5. CASE DoltDBController
  <2>1. CASE Reconcile \/ Records \/ PatchFailed \/ Ends
    <3>1. pc' \in {"Idle", "Status", "Labels"}
      BY <2>1 DEF Reconcile, Records, PatchFailed, Ends, Return, GoTo
    <3> QED BY <1>2, <3>1
  <2>2. CASE Observes
    <3>1. Primaries' = Primaries /\ epoch' = epoch /\ pc' = "Service"
      BY <2>2 DEF Observes, Primaries
    <3> QED BY <2>2, <3>1, StatusSeesEpochs DEF EpochsSeen
  <2>3. CASE Begins
    <3>1. Primaries' = Primaries /\ epoch' = epoch /\ pc' = "ShiftAway"
      BY <2>3 DEF Begins, Primaries
    <3> QED BY <2>3, <3>1, NextEpochIsAhead DEF EpochsSeen, Observed
  <2>4. CASE Walks
    BY <1>3, <2>4
  <2> QED BY <1>5, <2>1, <2>2, <2>3, <2>4, ControllerSteps, PatchesSucceed
<1> QED BY <1>4, <1>5 DEF Next
(***************************************************************************)
(* No primary is ahead of the pod that the status names, unless a          *)
(* switchover has left its mark; before the status names one, no primary   *)
(* is ahead of any pod.  The mark that counts is the controller's copy or  *)
(* the one in the API server, because a patch from a copy that was read    *)
(* before the Pod controller set it withdraws it.                          *)
(***************************************************************************)
Unmarked ==
  \/ ~IsSwitchingPrimary(api)
  \/ pc # "Idle" /\ ~IsSwitchingPrimary(obj)

RecordedLeads ==
  \A p \in Primaries :
    /\ api.primary = NoPod => \A q \in Pods : epoch[p] <= epoch[q]
    /\ Unmarked /\ api.primary # NoPod => epoch[p] <= epoch[api.primary]

(* The primary that the Status phase leaves in the status. *)
LEMMA StatusKeepsPrimary ==
  ASSUME TypeInv, CopyIsCurrent, Observes
  PROVE  /\ api'.primary = DefaultPrimary(obj) /\ obj' = api'
         /\ IsSwitchingPrimary(obj) => api'.conds = api.conds
<1>1. PICK S \in SUBSET Pods : Reachable(S) /\ PatchAPI(StatusPatch(S))
  BY DEF Observes
<1>2. StatusPatch(S).primary = DefaultPrimary(obj)
  BY StatusPatchType DEF TypeInv
<1>3. api.primary = obj.primary
  BY DEF Observes, CopyIsCurrent
<1>4. api'.primary = DefaultPrimary(obj) /\ obj' = api'
  BY <1>1, <1>2, <1>3, PatchAPIEffect
<1>5. IsSwitchingPrimary(obj) => StatusPatch(S).conds = obj.conds
  BY DEF StatusPatch, TypeInv, TypeOK, DoltDB
<1> QED BY <1>1, <1>4, <1>5, PatchAPIEffect

(* The tail of the switchover records its target and withdraws the mark. *)
LEMMA RecordsTarget ==
  ASSUME TypeInv, CopyIsCurrent, MarkKept, Records
  PROVE  api'.primary = obj.podIndex /\ ~IsSwitchingPrimary(api') /\ obj' = api'
         /\ api'.podIndex = api.podIndex
<1> DEFINE fin == [obj EXCEPT !.primary = obj.podIndex, !.conds.switching = NoPod]
           done == UpdateReplicationEpoch(fin, next)
<1>1. /\ fin \in DoltDB /\ fin.primary = obj.podIndex /\ fin.conds.switching = NoPod
      /\ fin.podIndex = obj.podIndex
  BY DEF TypeInv, TypeOK, DoltDB, Conditions
<1>2. PatchAPI(done)
  BY DEF Records
<1> HIDE DEF fin
<1>3. /\ done.primary = obj.podIndex /\ done.conds.switching = NoPod
      /\ done.podIndex = obj.podIndex
  BY <1>1 DEF UpdateReplicationEpoch, DoltDB
<1> HIDE DEF done
<1>4. api.primary = obj.primary /\ IsSwitchingPrimary(obj)
  BY DEF Records, CopyIsCurrent, MarkKept, Switching
<1> QED BY <1>2, <1>3, <1>4, PatchAPIEffect DEF IsSwitchingPrimary

(* The end of a failed phase: the mark becomes what the copy says, or stays. *)
LEMMA FailureKeepsPrimary ==
  ASSUME TypeInv, PatchFailed
  PROVE  /\ api'.primary = api.primary /\ api'.podIndex = api.podIndex
         /\ api'.conds.switching \in {api.conds.switching, obj.conds.switching}
         /\ pc = "Failed" /\ pc' = "Idle" /\ UNCHANGED servers
<1> DEFINE new == [obj EXCEPT !.conds.ready = "Failed"]
<1>1. /\ new.primary = obj.primary /\ new.podIndex = obj.podIndex
      /\ new.conds.switching = obj.conds.switching
  BY DEF TypeInv, TypeOK, DoltDB, Conditions
<1>2. /\ api' \in {api, MergePatch(api, obj, new)}
      /\ pc = "Failed" /\ pc' = "Idle" /\ UNCHANGED servers
  BY DEF PatchFailed, Return
<1> HIDE DEF new
<1> QED BY <1>1, <1>2 DEF MergePatch

(***************************************************************************)
(* A step that records a primary is the Status phase of a new cluster or   *)
(* the tail of a switchover; no other step makes the mark matter less.     *)
(***************************************************************************)
LEMMA OtherStepsKeepRecord ==
  ASSUME ~InformerLag, MaxPatchFaults = 0, TypeInv, CopyIsCurrent, MarkKept,
         [Next]_vars, ~Observes, ~Records
  PROVE  api'.primary = api.primary /\ (Unmarked' => Unmarked)
<1>1. CASE UNCHANGED vars
  BY <1>1 DEF vars, operator, Unmarked
<1>2. CASE PodController \/ Environment
  <2>1. api'.primary = api.primary /\ (UNCHANGED <<obj, pc>> \/ pc' = "Idle")
    BY <1>2, OthersKeepStatus
  <2>2. IsSwitchingPrimary(api) => IsSwitchingPrimary(api')
    BY <1>2, OthersKeepMark
  <2> QED BY <2>1, <2>2 DEF Unmarked
<1>3. CASE DoltDBController
  <2>1. CASE Reconcile
    BY <2>1 DEF Reconcile, Read, Unmarked
  <2>2. CASE Begins
    <3>1. SetPrimarySwitching(obj).primary = obj.primary
      BY DEF SetPrimarySwitching, TypeInv, TypeOK, DoltDB
    <3>2. api'.primary = api.primary
      BY <2>2, <3>1, PatchAPIEffect DEF Begins
    <3> QED BY <2>2, <3>2, BeginMarks DEF Unmarked
  <2>3. CASE PatchFailed
    BY <2>3, FailureKeepsPrimary DEF Unmarked, IsSwitchingPrimary
  <2>4. CASE Walks
    BY <2>4 DEF Walks, Unmarked
  <2>5. CASE Ends
    BY <2>5 DEF Ends, Unmarked
  <2> QED BY <1>3, <2>1, <2>2, <2>3, <2>4, <2>5, ControllerSteps, PatchesSucceed
<1> QED BY <1>1, <1>2, <1>3 DEF Next

(* Every step preserves RecordedLeads. *)
LEMMA NextRecordedLeads ==
  ASSUME ~InformerLag, MaxPatchFaults = 0,
         TypeInv, CopyIsCurrent, MarkKept, TargetPromoted, EpochsSeen, RecordedLeads, [Next]_vars
  PROVE  RecordedLeads'
<1>0. /\ \A q \in Pods : epoch[q] \in Nat /\ epoch'[q] \in Nat
      /\ next \in Nat /\ obj.podIndex \in Pods /\ obj.primary \in Pods \cup {NoPod}
      /\ api.primary \in Pods \cup {NoPod}
      /\ Primaries' = {q \in Pods : role'[q] = "primary"}
  <2>1. TypeOK /\ TypeOK'
    BY NextTypeInv DEF TypeInv
  <2> QED BY <2>1 DEF TypeOK, DoltDB, Primaries
<1> SUFFICES ASSUME NEW p \in Primaries'
             PROVE  /\ api'.primary = NoPod => \A q \in Pods : epoch'[p] <= epoch'[q]
                    /\ Unmarked' /\ api'.primary # NoPod => epoch'[p] <= epoch'[api'.primary]
  BY DEF RecordedLeads
<1>1. /\ p \in Pods
      /\ \/ p \in Primaries /\ epoch'[p] = epoch[p]
         \/ Configured(p) \/ Promoted(p)
  BY <1>0, WhoBecomesPrimary DEF StaysPrimary, Primaries
<1>2. \A q \in Pods : epoch'[q] >= epoch[q]
  BY WhoBecomesPrimary
<1>3. CASE Observes
  <2>1. p \in Primaries /\ UNCHANGED epoch
    BY <1>0, <1>3 DEF Observes, Primaries
  <2>2. /\ api'.primary = DefaultPrimary(obj) /\ obj' = api'
        /\ IsSwitchingPrimary(obj) => api'.conds = api.conds
    BY <1>3, StatusKeepsPrimary
  <2>3. api'.primary # NoPod
    BY <1>0, <2>2, PodsFacts DEF DefaultPrimary
  <2>4. Unmarked' => Unmarked
    BY <1>3, <2>2 DEF Observes, MarkKept, Unmarked, IsSwitchingPrimary
  <2>5. api.primary = obj.primary
    BY <1>3 DEF Observes, CopyIsCurrent
  <2> QED BY <1>0, <2>1, <2>2, <2>3, <2>4, <2>5 DEF RecordedLeads, DefaultPrimary
<1>4. CASE Records
  <2>1. p \in Primaries /\ UNCHANGED epoch
    BY <1>0, <1>4 DEF Records, Primaries
  <2>2. api'.primary = obj.podIndex
    BY <1>4, RecordsTarget
  <2>3. epoch[p] <= next /\ next <= epoch[obj.podIndex]
    BY <1>0, <1>4, <2>1 DEF Records, EpochsSeen, TargetPromoted
  <2>4. epoch'[p] <= epoch'[obj.podIndex]
    BY <1>0, <1>1, <2>1, <2>3
  <2> QED BY <1>0, <2>2, <2>4, PodsFacts
<1>5. CASE ~Observes /\ ~Records
  <2>1. api'.primary = api.primary /\ (Unmarked' => Unmarked)
    BY <1>5, OtherStepsKeepRecord
  <2>2. CASE p \in Primaries /\ epoch'[p] = epoch[p]
    <3>1. /\ api.primary = NoPod => \A q \in Pods : epoch[p] <= epoch[q]
          /\ Unmarked /\ api.primary # NoPod => epoch[p] <= epoch[api.primary]
      BY <2>2 DEF RecordedLeads
    <3> QED BY <1>0, <1>1, <1>2, <2>1, <2>2, <3>1
  <2>3. CASE Configured(p)
    <3>1. p = api.primary /\ p # NoPod
      BY <1>1, <2>3, PodsFacts DEF Configured, CopyIsCurrent
    <3> QED BY <1>0, <1>1, <2>1, <3>1
  <2>4. CASE Promoted(p)
    <3>1. api.primary # NoPod /\ ~Unmarked
      BY <2>4 DEF Promoted, MarkKept, Switching, Unmarked, TypeInv, PrimaryKnown
    <3> QED BY <2>1, <3>1
  <2> QED BY <1>1, <2>2, <2>3, <2>4
<1> QED BY <1>3, <1>4, <1>5

(* Every step preserves OnePrimaryPerEpoch. *)
LEMMA NextOnePrimaryPerEpoch ==
  ASSUME TypeInv, CopyIsCurrent, MarkKept, EpochsSeen, RecordedLeads, OnePrimaryPerEpoch,
         [Next]_vars
  PROVE  OnePrimaryPerEpoch'
<1>0. \A q \in Pods : epoch[q] \in Nat
  BY DEF TypeInv, TypeOK
<1>1. \A q \in Primaries' :
        \/ q \in Primaries /\ epoch'[q] = epoch[q]
        \/ Configured(q) \/ Promoted(q)
  BY WhoBecomesPrimary DEF StaysPrimary, Primaries
<1>2. ASSUME NEW p \in Primaries', NEW q \in Primaries,
             Configured(p) \/ Promoted(p), epoch'[q] = epoch[q]
      PROVE  epoch'[p] # epoch'[q]
  <2>1. epoch[q] \in Nat /\ q \in Pods /\ p \in Pods /\ epoch[p] \in Nat
    BY <1>0 DEF Primaries
  <2>2. CASE Configured(p)
    <3>1. Unmarked /\ p = api.primary /\ p # NoPod
      BY <2>1, <2>2, PodsFacts DEF Configured, MarkKept, Unmarked, CopyIsCurrent
    <3>2. epoch[q] <= epoch[p] /\ epoch[p] < obj.epoch /\ epoch'[p] = obj.epoch
      BY <2>2, <3>1 DEF RecordedLeads, Configured
    <3>3. obj.epoch \in Nat
      BY DEF TypeInv, TypeOK, DoltDB
    <3> QED BY <1>2, <2>1, <3>2, <3>3
  <2>3. CASE Promoted(p)
    <3>1. epoch[q] < next /\ epoch'[p] = next /\ next \in Nat
      BY <2>3 DEF EpochsSeen, Promoted, TypeInv, TypeOK
    <3> QED BY <1>2, <2>1, <3>1
  <2> QED BY <1>2, <2>2, <2>3
<1>3. ASSUME NEW p \in Primaries', NEW q \in Primaries', epoch'[p] = epoch'[q] PROVE p = q
  <2>1. CASE p \in Primaries /\ epoch'[p] = epoch[p] /\ q \in Primaries /\ epoch'[q] = epoch[q]
    BY <1>3, <2>1 DEF OnePrimaryPerEpoch
  <2>2. CASE (Configured(p) \/ Promoted(p)) /\ (Configured(q) \/ Promoted(q))
    BY <2>2 DEF Configured, Promoted
  <2> QED BY <1>1, <1>2, <1>3, <2>1, <2>2
<1> QED BY <1>3 DEF OnePrimaryPerEpoch

(***************************************************************************)
(* No two servers are primary at the same epoch, for any number of pods,   *)
(* edits, failovers, lost pods, restarts of the operator and SQL faults,   *)
(* and although refused transitions are taken for success, as long as      *)
(* every primary can be asked, the controller reads its own writes and no  *)
(* patch fails.                                                            *)
(***************************************************************************)
THEOREM EpochsHaveOnePrimary ==
  ASSUME ~InformerLag, PrimariesReachable, MaxPatchFaults = 0
  PROVE  Spec => []OnePrimaryPerEpoch
<1> DEFINE Inv == /\ CopyIsCurrent /\ TargetPromoted /\ MarkKept
                  /\ EpochsSeen /\ RecordedLeads /\ OnePrimaryPerEpoch
<1>1. Init => Inv
  <2> SUFFICES ASSUME Init PROVE Inv
    OBVIOUS
  <2>1. pc = "Idle" /\ Primaries = {0} /\ \A p \in Pods : epoch[p] = 1
    BY PodsFacts DEF Init, Primaries
  <2>2. api.primary = NoPod
    BY DEF Init, NewDoltDB
  <2>3. CopyIsCurrent /\ TargetPromoted /\ MarkKept /\ EpochsSeen
    BY <2>1 DEF CopyIsCurrent, TargetPromoted, MarkKept, EpochsSeen, Observed, Switching
  <2>4. RecordedLeads /\ OnePrimaryPerEpoch
    BY <2>1, <2>2, PodsFacts DEF RecordedLeads, OnePrimaryPerEpoch
  <2> QED BY <2>3, <2>4
<1>2. TypeInv /\ Inv /\ [Next]_vars => Inv'
  BY NextCopyIsCurrent, NextTargetPromoted, NextMarkKept, NextEpochsSeen, NextRecordedLeads,
     NextOnePrimaryPerEpoch
<1>3. Inv => OnePrimaryPerEpoch
  OBVIOUS
<1> HIDE DEF Inv
<1> QED BY <1>1, <1>2, <1>3, Invariance, PTL DEF Spec

-----------------------------------------------------------------------------
(* Without a failover only the DoltDB controller sets conditions. *)

(* The loss of a pod is the only thing the Pod controller acts on. *)
AllReady == \A p \in Pods : Ready(p)

(* The Pod controller stays idle and users only edit podIndex. *)
LEMMA OthersWithoutFailover ==
  ASSUME ~AutomaticFailover \/ AllReady, TypeInv, ppc = "Idle", PodController \/ Environment
  PROVE  /\ ppc' = "Idle" /\ api'.conds = api.conds
         /\ UNCHANGED api \/ EditPodIndex
<1>1. ~PatchPodIndex /\ ~PatchSwitching /\ ~\E p \in Pods : ReconcilePodNotReady(p)
  BY DEF PatchPodIndex, PatchSwitching, ReconcilePodNotReady, LostPrimary, AllReady, Ready
<1>2. CASE EditPodIndex
  BY <1>2 DEF EditPodIndex, podController, TypeInv, TypeOK, DoltDB
<1>3. CASE ~EditPodIndex
  <2>1. UNCHANGED api /\ (ppc' = ppc \/ ppc' = "Idle")
    BY <1>1, <1>3, Zenon
    DEF PodController, Environment, ReconcilePodIgnored, CacheSync, OperatorRestart, PodFails,
        PodDeleted, PodCreated, PodBecomesReady, ClientWrite, Replicate, podController
  <2> QED BY <2>1
<1> QED BY <1>2, <1>3

(* No step of the DoltDB controller moves the Pod controller. *)
LEMMA ControllerKeepsOthers ==
  ASSUME DoltDBController
  PROVE  UNCHANGED <<pod, ppc>>
  BY Zenon
  DEF DoltDBController, Reconcile, StatusPhase, ServicePhase, ReplicationPhase,
      ReconcileReplication, BeginSwitchover, ShiftTrafficAwayFromPrimary, SetPrimaryReadOnly,
      ConfigureNewPrimary, ShiftTrafficToNewPrimary, FinishSwitchover, ReconcilePodLabels,
      PatchFailed, podController, kube

(* Without failover the controller's copy has the mark the API server has. *)
MarkExact ==
  /\ ppc = "Idle"
  /\ pc # "Idle" => (IsSwitchingPrimary(obj) <=> IsSwitchingPrimary(api))

(* Every step preserves MarkExact. *)
LEMMA NextMarkExact ==
  ASSUME ~InformerLag, ~AutomaticFailover \/ AllReady, MaxPatchFaults = 0,
         TypeInv, MarkExact, [Next]_vars
  PROVE  MarkExact'
<1>1. CASE UNCHANGED vars
  BY <1>1 DEF vars, operator, podController, MarkExact
<1>2. CASE PodController \/ Environment
  <2>1. ppc' = "Idle" /\ api'.conds = api.conds
    BY <1>2, OthersWithoutFailover DEF MarkExact
  <2>2. UNCHANGED <<obj, pc>> \/ pc' = "Idle"
    BY <1>2, OthersKeepStatus
  <2> QED BY <2>1, <2>2 DEF MarkExact, IsSwitchingPrimary
<1>3. CASE DoltDBController
  <2>1. ppc' = "Idle"
    BY <1>3, ControllerKeepsOthers DEF MarkExact
  <2>2. CASE Reconcile
    BY <2>1, <2>2 DEF Reconcile, Read, MarkExact
  <2>3. CASE Observes \/ Begins \/ Records
    <3>1. obj' = api'
      BY <2>3 DEF Observes, Begins, Records, PatchAPI
    <3> QED BY <2>1, <3>1 DEF MarkExact
  <2>4. CASE PatchFailed \/ Ends
    BY <2>1, <2>4 DEF PatchFailed, Return, Ends, MarkExact
  <2>5. CASE Walks
    BY <2>1, <2>5 DEF Walks, MarkExact
  <2> QED BY <1>3, <2>2, <2>3, <2>4, <2>5, ControllerSteps, PatchesSucceed
<1> QED BY <1>1, <1>2, <1>3 DEF Next

-----------------------------------------------------------------------------
(* One switchover of a healthy cluster. *)

(***************************************************************************)
(* A cluster created with pod 0 as its primary, whose podIndex is edited   *)
(* once at most, whose pods all stay ready, whose servers refuse with an   *)
(* error of their own, and whose controller reads its own writes and has   *)
(* no patch refused.  SQL calls may fail or lose their answer and the      *)
(* operator may restart, at any step and any number of times.              *)
(***************************************************************************)
OneManualSwitchover ==
  /\ ~InformerLag /\ ~GenericRefusal
  /\ BootIndices = {0}
  /\ MaxEdits <= 1 /\ MaxDowns = 0 /\ MaxPatchFaults = 0

(* Every step leaves the pods ready. *)
LEMMA NextAllReady ==
  ASSUME MaxDowns = 0, TypeInv, AllReady, [Next]_vars
  PROVE  AllReady' /\ ~\E p \in Pods : PodDeleted(p)
<1>1. used.downs \in Nat /\ \A p \in Pods : pod[p] = "Ready"
  BY DEF TypeInv, TypeOK, Counters, AllReady, Ready
<1>2. ASSUME NEW p \in Pods
      PROVE  ~PodFails(p) /\ ~PodDeleted(p) /\ ~PodCreated(p) /\ ~PodBecomesReady(p)
  BY <1>1 DEF PodFails, PodDeleted, PodCreated, PodBecomesReady
<1>3. CASE UNCHANGED vars \/ PodController \/ Environment
  <2>1. UNCHANGED pod
    BY <1>2, <1>3, Zenon
    DEF PodController, Environment, ReconcilePodIgnored, ReconcilePodNotReady, PatchPodIndex,
        PatchSwitching, EditPodIndex, CacheSync, OperatorRestart, ClientWrite, Replicate, vars,
        kube
  <2> QED BY <1>2, <2>1 DEF AllReady, Ready
<1>4. CASE DoltDBController
  BY <1>2, <1>4, ControllerKeepsOthers DEF AllReady, Ready
<1> QED BY <1>3, <1>4 DEF Next

(* Faults are charged to their own counters. *)
LEMMA ChargeKeepsEdits ==
  ASSUME TypeInv, NEW f, NEW g, Charge(f, g)
  PROVE  used'.edits = used.edits
<1> DEFINE sql == IF f THEN used.sql + 1 ELSE used.sql
           patch == IF g THEN used.patch + 1 ELSE used.patch
<1>1. used \in Counters
  BY DEF TypeInv, TypeOK
<1>2. used' = [used EXCEPT !.sql = sql, !.patch = patch]
  BY DEF Charge
<1> HIDE DEF sql, patch
<1> QED BY <1>1, <1>2 DEF Counters

(* Only a user's edit counts as one. *)
LEMMA EditsAreCounted ==
  ASSUME TypeInv, [Next]_vars, ~EditPodIndex
  PROVE  used'.edits = used.edits
<1>0. used \in Counters
  BY DEF TypeInv, TypeOK
<1>1. \/ UNCHANGED used
      \/ \E f, g : Charge(f, g)
      \/ used' = [used EXCEPT !.downs = @ + 1]
      \/ used' = [used EXCEPT !.restarts = @ + 1]
  <2>1. CASE UNCHANGED vars
    BY <2>1 DEF vars
  <2>2. CASE PodController
    BY <2>2, Zenon
    DEF PodController, ReconcilePodIgnored, ReconcilePodNotReady, PatchPodIndex, PatchSwitching,
        ChargeSql
  <2>3. CASE Environment
    BY <2>3, Zenon
    DEF Environment, CacheSync, OperatorRestart, PodFails, PodDeleted, PodCreated,
        PodBecomesReady, ClientWrite, Replicate
  <2>4. CASE ReconcileReplication
    BY <2>4, Zenon DEF ReconcileReplication, AssumeRole, ChargeSql
  <2>5. CASE ConfigureNewPrimary
    BY <2>5, Zenon DEF ConfigureNewPrimary, AssumeRole, ChargeSql
  <2>6. CASE SetPrimaryReadOnly
    BY <2>6, Zenon DEF SetPrimaryReadOnly, ChargeSql
  <2>7. CASE \/ Reconcile \/ StatusPhase \/ ServicePhase \/ ReplicationPhase \/ BeginSwitchover
             \/ ShiftTrafficAwayFromPrimary \/ ShiftTrafficToNewPrimary \/ FinishSwitchover
             \/ ReconcilePodLabels \/ PatchFailed
    BY <2>7, Zenon
    DEF Reconcile, StatusPhase, ServicePhase, ReplicationPhase, BeginSwitchover,
        ShiftTrafficAwayFromPrimary, ShiftTrafficToNewPrimary, FinishSwitchover,
        ReconcilePodLabels, PatchFailed
  <2> QED BY <2>1, <2>2, <2>3, <2>4, <2>5, <2>6, <2>7, Zenon DEF Next, DoltDBController
<1>2. CASE \E f, g : Charge(f, g)
  BY <1>2, ChargeKeepsEdits
<1> QED BY <1>0, <1>1, <1>2 DEF Counters

(***************************************************************************)
(* The status and the spec name pod 0 until the edit and, from the         *)
(* promotion on, its target; the controller's copy of podIndex may trail   *)
(* the edit, but never during the switchover.                              *)
(***************************************************************************)
OneTarget ==
  /\ api.primary \in {NoPod, 0, api.podIndex}
  /\ api.primary = NoPod \/ used.edits = 0 => api.podIndex = 0
  /\ pc # "Idle" => obj.podIndex \in {0, api.podIndex}
  /\ pc \notin {"Idle", "Failed"} /\ obj.primary \notin {NoPod, 0} => obj.podIndex = api.podIndex
  /\ pc \in Switching =>
       obj.primary = 0 /\ obj.podIndex = api.podIndex /\ api.podIndex # 0

(* Every step preserves OneTarget. *)
LEMMA NextOneTarget ==
  ASSUME OneManualSwitchover,
         TypeInv, CopyIsCurrent, MarkKept, MarkExact, AllReady, OneTarget, [Next]_vars
  PROVE  OneTarget'
<1> USE DEF OneManualSwitchover
<1>0. used.edits \in Nat /\ MaxEdits \in Nat
  BY ConstantsAssumption DEF TypeInv, TypeOK, Counters
<1>1. CASE EditPodIndex
  <2>1. used.edits = 0 /\ used'.edits = 1 /\ api.primary # NoPod
    BY <1>0, <1>1 DEF EditPodIndex, TypeInv, TypeOK, Counters
  <2>2. /\ api'.primary = api.primary
        /\ UNCHANGED <<obj, pc>>
    BY <1>1 DEF EditPodIndex, operator, TypeInv, TypeOK, DoltDB
  <2>3. api.podIndex = 0 /\ api.primary = 0 /\ pc \notin Switching
    BY <2>1 DEF OneTarget
  <2> QED BY <2>1, <2>2, <2>3 DEF OneTarget, CopyIsCurrent
<1>2. CASE ~EditPodIndex
  <2>0. used'.edits = used.edits
    BY <1>2, EditsAreCounted
  <2>1. CASE UNCHANGED vars
    BY <2>1 DEF vars, operator, OneTarget
  <2>2. CASE PodController \/ Environment
    <3>1. UNCHANGED api
      BY <1>2, <2>2, OthersWithoutFailover DEF MarkExact
    <3>2. UNCHANGED <<obj, pc>> \/ pc' = "Idle"
      BY <2>2, OthersKeepStatus
    <3> QED BY <2>0, <3>1, <3>2 DEF OneTarget, Switching
  <2>3. CASE Reconcile
    BY <2>0, <2>3 DEF Reconcile, Read, GoTo, OneTarget, Switching
  <2>4. CASE Observes
    <3>1. PICK S \in SUBSET Pods : PatchAPI(StatusPatch(S))
      BY <2>4 DEF Observes
    <3>2. StatusPatch(S).podIndex = obj.podIndex
      BY DEF StatusPatch, TypeInv, TypeOK, DoltDB
    <3>3. api'.podIndex = api.podIndex /\ obj' = api'
      BY <3>1, <3>2, PatchAPIEffect
    <3>4. api'.primary = DefaultPrimary(obj) /\ api.primary = obj.primary
      BY <2>4, StatusKeepsPrimary DEF Observes, CopyIsCurrent
    <3>5. api'.primary \in {0, api.podIndex}
      BY <2>4, <3>4 DEF DefaultPrimary, OneTarget, Observes
    <3>6. api'.primary # NoPod
      BY <3>5, PodsFacts DEF TypeInv, TypeOK, DoltDB
    <3>7. pc' = "Service"
      BY <2>4 DEF Observes
    <3> QED BY <2>0, <3>3, <3>5, <3>6, <3>7 DEF OneTarget, Switching
  <2>5. CASE Begins
    <3>1. /\ SetPrimarySwitching(obj).podIndex = obj.podIndex
          /\ SetPrimarySwitching(obj).primary = obj.primary
      BY DEF SetPrimarySwitching, TypeInv, TypeOK, DoltDB
    <3>2. api'.podIndex = api.podIndex /\ api'.primary = api.primary /\ obj' = api'
      BY <2>5, <3>1, PatchAPIEffect DEF Begins
    <3>3. obj.primary = api.primary /\ obj.primary # NoPod /\ obj.primary # obj.podIndex
      BY <2>5 DEF Begins, CopyIsCurrent, TypeInv, PrimaryKnown, ShouldReconcileSwitchover
    <3>4. obj.primary = 0
      BY <2>5, <3>3 DEF OneTarget, Begins
    <3>5. api.podIndex # 0
      BY <2>5, <3>3, <3>4 DEF OneTarget, Begins
    <3> QED BY <2>0, <3>2, <3>3, <3>4, <3>5 DEF OneTarget
  <2>6. CASE Records
    <3>1. /\ api'.primary = obj.podIndex /\ obj' = api' /\ api'.podIndex = api.podIndex
      BY <2>6, RecordsTarget
    <3>2. obj.podIndex = api.podIndex /\ pc' = "Labels"
      BY <2>6 DEF Records, OneTarget, Switching
    <3>3. obj.podIndex # NoPod
      BY PodsFacts DEF TypeInv, TypeOK, DoltDB
    <3> QED BY <2>0, <3>1, <3>2, <3>3 DEF OneTarget, Switching
  <2>7. CASE PatchFailed
    BY <2>0, <2>7, FailureKeepsPrimary DEF OneTarget, Switching
  <2>8. CASE Walks
    BY <2>0, <2>8 DEF Walks, OneTarget, Switching
  <2>9. CASE Ends
    BY <2>0, <2>9 DEF Ends, OneTarget, Switching
  <2> QED BY <2>1, <2>2, <2>3, <2>4, <2>5, <2>6, <2>7, <2>8, <2>9, ControllerSteps,
             PatchesSucceed DEF Next
<1> QED BY <1>1, <1>2

(***************************************************************************)
(* Pod 0 or the target is the only primary: which of the two is known from *)
(* the status while there is no mark, and during the switchover from how   *)
(* far it has come.                                                        *)
(***************************************************************************)
OnePrimary ==
  /\ Primaries \subseteq {0} \/ Primaries \subseteq {api.podIndex}
  /\ Unmarked => Primaries \subseteq {DefaultPrimary(api)}
  /\ pc = "Promote" => 0 \notin Primaries
  /\ pc \in {"ShiftTo", "Finish"} => Primaries \subseteq {obj.podIndex}

(* setPrimaryReadOnly goes on only when pod 0 is no longer primary. *)
LEMMA ReadOnlyDemotes ==
  ASSUME OneManualSwitchover, TypeInv, AllReady, OneTarget, SetPrimaryReadOnly, pc' = "Promote"
  PROVE  0 \notin Primaries'
<1>1. obj.primary = 0 /\ 0 \in Pods /\ role \in [Pods -> Role] /\ pod[0] = "Ready"
  BY PodsFacts
  DEF SetPrimaryReadOnly, OneTarget, Switching, TypeInv, TypeOK, AllReady, Ready
<1>2. \/ role[0] = "standby" /\ UNCHANGED servers
      \/ \E caughtUp \in SUBSET Pods : Transition(0, next, caughtUp)
  <2>1. "Promote" # "Failed" /\ "Ready" # "NotReady"
    OBVIOUS
  <2> QED BY <1>1, <2>1, Zenon DEF SetPrimaryReadOnly, GoTo, OneManualSwitchover
<1>3. role'[0] = "standby"
  BY <1>1, <1>2 DEF Transition, servers
<1> QED BY <1>3 DEF Primaries

(* No other step leads to the promotion. *)
LEMMA PromoteAfterReadOnly ==
  ASSUME TypeInv, ~PatchMayFail, [Next]_vars, pc' = "Promote"
  PROVE  pc = "Promote" \/ SetPrimaryReadOnly
<1>1. CASE UNCHANGED vars \/ PodController \/ Environment
  BY <1>1, OthersKeepStatus DEF vars, operator
<1>2. CASE DoltDBController
  <2>1. pc \in {"Promote", "ReadOnly"}
    <3>1. \/ Reconcile \/ Observes \/ Begins \/ Records \/ PatchFailed \/ Walks \/ Ends
      BY <1>2, ControllerSteps
    <3> QED BY <3>1 DEF Reconcile, GoTo, Observes, Begins, Records, PatchFailed, Return, Walks, Ends
  <2>2. pc = "ReadOnly" => SetPrimaryReadOnly
    BY <1>2, Zenon
    DEF DoltDBController, Reconcile, StatusPhase, ServicePhase, ReplicationPhase,
        ReconcileReplication, BeginSwitchover, ShiftTrafficAwayFromPrimary, ConfigureNewPrimary,
        ShiftTrafficToNewPrimary, FinishSwitchover, ReconcilePodLabels, PatchFailed
  <2> QED BY <2>1, <2>2
<1> QED BY <1>1, <1>2 DEF Next

(* podIndex is only ever changed by a user. *)
LEMMA PodIndexIsTheUsers ==
  ASSUME OneManualSwitchover, TypeInv, CopyIsCurrent, MarkKept, MarkExact, AllReady,
         [Next]_vars, ~EditPodIndex
  PROVE  api'.podIndex = api.podIndex
<1> USE DEF OneManualSwitchover
<1>1. CASE UNCHANGED vars
  BY <1>1 DEF vars
<1>2. CASE PodController \/ Environment
  BY <1>2, OthersWithoutFailover DEF MarkExact
<1>3. CASE Reconcile \/ Walks \/ Ends
  BY <1>3 DEF Reconcile, Walks, Ends
<1>4. CASE Observes
  <2>1. PICK S \in SUBSET Pods : PatchAPI(StatusPatch(S))
    BY <1>4 DEF Observes
  <2>2. StatusPatch(S).podIndex = obj.podIndex
    BY DEF StatusPatch, TypeInv, TypeOK, DoltDB
  <2> QED BY <2>1, <2>2, PatchAPIEffect
<1>5. CASE Begins
  <2>1. SetPrimarySwitching(obj).podIndex = obj.podIndex
    BY DEF SetPrimarySwitching, TypeInv, TypeOK, DoltDB
  <2> QED BY <1>5, <2>1, PatchAPIEffect DEF Begins
<1>6. CASE Records
  BY <1>6, RecordsTarget
<1>7. CASE PatchFailed
  BY <1>7, FailureKeepsPrimary
<1> QED BY <1>1, <1>2, <1>3, <1>4, <1>5, <1>6, <1>7, ControllerSteps, PatchesSucceed DEF Next

(* Every step preserves OnePrimary. *)
LEMMA NextOnePrimary ==
  ASSUME OneManualSwitchover, TypeInv, CopyIsCurrent, MarkKept, MarkExact, AllReady, OneTarget,
         OnePrimary, [Next]_vars
  PROVE  OnePrimary'
<1>0. /\ Primaries \subseteq Pods /\ 0 # NoPod
      /\ \A q \in Primaries' : q \in Primaries \/ Configured(q) \/ Promoted(q)
  BY PodsFacts, WhoBecomesPrimary DEF StaysPrimary, Primaries, NoPod
<1>1. CASE \E q \in Primaries' : Configured(q)
  <2>1. PICK q \in Primaries' : Configured(q)
    BY <1>1
  <2>2. /\ pc = "Configure" /\ pc' \in {"Configure", "Failed"} /\ UNCHANGED <<api, obj>>
        /\ obj.primary = api.primary /\ api.primary # NoPod /\ Unmarked
    BY <2>1 DEF Configured, CopyIsCurrent, TypeInv, PrimaryKnown, MarkKept, Unmarked
  <2>3. Primaries' \subseteq {api.primary}
    BY <1>0, <2>2 DEF OnePrimary, DefaultPrimary, Configured, Promoted
  <2>4. api.primary \in {0, api.podIndex}
    BY <2>2 DEF OneTarget
  <2> QED BY <2>2, <2>3, <2>4 DEF OnePrimary, DefaultPrimary
<1>2. CASE pc = "Promote" /\ pc' \in {"ShiftTo", "Failed"} /\ UNCHANGED <<api, obj>>
  <2>1. obj.podIndex = api.podIndex
    BY <1>2 DEF OneTarget, Switching
  <2>2. Primaries' \subseteq {api.podIndex}
    BY <1>0, <1>2, <2>1 DEF OnePrimary, Configured, Promoted
  <2>3. ~Unmarked'
    BY <1>2 DEF MarkKept, Switching, Unmarked
  <2> QED BY <1>2, <2>1, <2>2, <2>3 DEF OnePrimary
<1>3. CASE Primaries' \subseteq Primaries /\ ~(pc = "Promote" /\ pc' = "ShiftTo")
  <2>1. pc' = "Promote" => 0 \notin Primaries'
    <3>1. pc' = "Promote" => pc = "Promote" \/ SetPrimaryReadOnly
      BY PromoteAfterReadOnly, PatchesSucceed DEF OneManualSwitchover
    <3> QED BY <1>3, <3>1, ReadOnlyDemotes DEF OnePrimary
  <2>2. pc' \in {"ShiftTo", "Finish"} => pc \in {"ShiftTo", "Finish"} /\ UNCHANGED obj
    <3>1. CASE UNCHANGED vars \/ PodController \/ Environment
      BY <3>1, OthersKeepStatus DEF vars, operator
    <3>2. CASE DoltDBController
      <4>1. \/ Reconcile \/ Observes \/ Begins \/ Records \/ PatchFailed \/ Walks \/ Ends
        BY <3>2, ControllerSteps, PatchesSucceed DEF OneManualSwitchover
      <4> QED BY <1>3, <4>1
           DEF Reconcile, GoTo, Observes, Begins, Records, PatchFailed, Return, Walks, Ends
    <3> QED BY <3>1, <3>2 DEF Next
  <2>3. CASE EditPodIndex
    <3>1. used.edits = 0 /\ api.primary # NoPod
      <4>1. used.edits \in Nat /\ MaxEdits \in Nat
        BY ConstantsAssumption DEF TypeInv, TypeOK, Counters
      <4> QED BY <2>3, <4>1 DEF EditPodIndex, OneManualSwitchover
    <3>2. api'.primary = api.primary /\ api'.conds = api.conds /\ UNCHANGED <<obj, pc>>
      BY <2>3 DEF EditPodIndex, operator, TypeInv, TypeOK, DoltDB
    <3>3. Primaries' \subseteq {0}
      BY <1>3, <3>1 DEF OneTarget, OnePrimary
    <3>4. Unmarked' => Unmarked
      BY <3>2 DEF Unmarked, IsSwitchingPrimary
    <3>5. DefaultPrimary(api') = DefaultPrimary(api)
      BY <3>1, <3>2 DEF DefaultPrimary
    <3> QED BY <1>3, <2>1, <2>2, <3>3, <3>4, <3>5 DEF OnePrimary
  <2>4. CASE ~EditPodIndex
    <3>0. api'.podIndex = api.podIndex
      BY <2>4, PodIndexIsTheUsers
    <3>1. CASE Observes
      <4>1. /\ api'.primary = DefaultPrimary(obj) /\ obj' = api'
            /\ IsSwitchingPrimary(obj) => api'.conds = api.conds
        BY <3>1, StatusKeepsPrimary
      <4>2. Unmarked' => Unmarked
        BY <3>1, <4>1 DEF Observes, MarkKept, Unmarked, IsSwitchingPrimary
      <4>3. DefaultPrimary(obj) = DefaultPrimary(api)
        BY <3>1 DEF Observes, CopyIsCurrent, OneTarget, DefaultPrimary
      <4>4. DefaultPrimary(obj) # NoPod
        BY PodsFacts DEF DefaultPrimary, TypeInv, TypeOK, DoltDB
      <4>5. DefaultPrimary(api') = DefaultPrimary(api)
        BY <4>1, <4>3, <4>4 DEF DefaultPrimary
      <4> QED BY <1>3, <2>1, <2>2, <3>0, <4>2, <4>5 DEF OnePrimary
    <3>2. CASE Records
      <4>1. api'.primary = obj.podIndex /\ pc = "Finish"
        BY <3>2, RecordsTarget DEF Records
      <4>2. obj.podIndex # NoPod
        BY PodsFacts DEF TypeInv, TypeOK, DoltDB
      <4>3. Primaries' \subseteq {DefaultPrimary(api')}
        BY <1>3, <4>1, <4>2 DEF OnePrimary, DefaultPrimary
      <4> QED BY <1>3, <2>1, <2>2, <3>0, <4>3 DEF OnePrimary
    <3>3. CASE ~Observes /\ ~Records
      <4>1. api'.primary = api.primary /\ (Unmarked' => Unmarked)
        BY <3>3, OtherStepsKeepRecord DEF OneManualSwitchover
      <4>2. DefaultPrimary(api') = DefaultPrimary(api)
        BY <3>0, <4>1 DEF DefaultPrimary
      <4> QED BY <1>3, <2>1, <2>2, <3>0, <4>1, <4>2 DEF OnePrimary
    <3> QED BY <3>1, <3>2, <3>3
  <2> QED BY <2>3, <2>4
<1>4. pc = "Promote" /\ pc' = "ShiftTo" => UNCHANGED <<api, obj>>
  <2>1. CASE UNCHANGED vars \/ PodController \/ Environment
    BY <2>1, OthersKeepStatus DEF vars, operator
  <2>2. CASE DoltDBController
    <3>1. \/ Reconcile \/ Observes \/ Begins \/ Records \/ PatchFailed \/ Walks \/ Ends
      BY <2>2, ControllerSteps, PatchesSucceed DEF OneManualSwitchover
    <3> QED BY <3>1
         DEF Reconcile, GoTo, Observes, Begins, Records, PatchFailed, Return, Walks, Ends
  <2> QED BY <2>1, <2>2 DEF Next
<1>5. ASSUME NEW q \in Pods, Promoted(q)
      PROVE  pc = "Promote" /\ pc' \in {"ShiftTo", "Failed"} /\ UNCHANGED <<api, obj>>
  BY <1>5 DEF Promoted
<1>6. Primaries' \subseteq Pods
  BY DEF Primaries
<1> QED BY <1>0, <1>1, <1>2, <1>3, <1>4, <1>5, <1>6

(* What the proofs about one manual switchover carry along. *)
SwitchoverInv ==
  CopyIsCurrent /\ MarkKept /\ MarkExact /\ AllReady /\ OneTarget /\ OnePrimary

(* SwitchoverInv is an invariant. *)
LEMMA SwitchoverInvariance ==
  ASSUME OneManualSwitchover
  PROVE  Spec => []SwitchoverInv
<1>1. Init => SwitchoverInv
  <2> SUFFICES ASSUME Init PROVE SwitchoverInv
    OBVIOUS
  <2>1. /\ pc = "Idle" /\ Primaries = {0} /\ ppc = "Idle"
        /\ AllReady /\ used.edits = 0
    BY PodsFacts DEF Init, Primaries, AllReady, Ready
  <2>2. api.primary = NoPod /\ api.podIndex = 0
    BY DEF Init, NewDoltDB, OneManualSwitchover
  <2> QED BY <2>1, <2>2
       DEF SwitchoverInv, CopyIsCurrent, MarkKept, MarkExact, OneTarget, OnePrimary,
           DefaultPrimary, Switching
<1>2. TypeInv /\ SwitchoverInv /\ [Next]_vars => SwitchoverInv'
  BY NextCopyIsCurrent, NextMarkKept, NextMarkExact, NextAllReady, NextOneTarget, NextOnePrimary
  DEF SwitchoverInv, OneManualSwitchover
<1> QED BY <1>1, <1>2, Invariance, PTL DEF Spec

(* SwitchoverInv leaves room for one primary. *)
LEMMA OnePrimaryAtMost == OnePrimary => AtMostOnePrimary
  BY DEF OnePrimary, AtMostOnePrimary

(***************************************************************************)
(* A manual switchover of a healthy cluster never has two servers that     *)
(* accept writes, for any number of pods, wherever SQL calls fail or lose  *)
(* their answer and wherever the operator restarts.                        *)
(***************************************************************************)
THEOREM SwitchoverHasOnePrimary ==
  ASSUME OneManualSwitchover
  PROVE  Spec => []AtMostOnePrimary
<1>1. SwitchoverInv => AtMostOnePrimary
  BY OnePrimaryAtMost DEF SwitchoverInv
<1> QED BY <1>1, SwitchoverInvariance, PTL

=============================================================================
