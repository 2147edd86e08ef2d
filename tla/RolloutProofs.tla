--------------------------- MODULE RolloutProofs ---------------------------
(***************************************************************************)
(* Proofs about Rollout, for every number of pods, every set of edits and  *)
(* every bound on edits and faults.                                        *)
(***************************************************************************)
EXTENDS Rollout, PrimarySelectionProofs, FiniteSetTheorems

(* The steps that resize the storage, and those that update a pod. *)
ResizeSteps == {"ResizePVCs", "DeleteSts", "RecreateSts", "PatchWaiting"}
TakingSteps == {"CaughtUp", "Demote", "Promote", "DeletePod"}
UpdateSteps == TakingSteps \cup {"Poll"}
OtherSteps == {"Idle", "Storage", "WaitResize", "PreScaleDown", "StatefulSet",
               "Updates", "Replication", "Switchover", "Switch"}

(* A step that updates a pod has one. *)
LocalInv ==
  /\ pc \in UpdateSteps => victim \in Pods
  /\ pc = "Promote" => target \in Pods

TypeInv == TypeOK /\ LocalInv

(***************************************************************************)
(* A resize under way is recorded, no update starts during it, and it does *)
(* not start during an update.                                             *)
(***************************************************************************)
ResizeInv ==
  /\ pc \in ResizeSteps => IsResizingStorage
  /\ pc \in UpdateSteps => ~IsResizingStorage
  /\ IsResizingStorage => ~IsUpdating

(***************************************************************************)
(* What made reconcileUpdates start on a pod still holds when the pod is   *)
(* taken down: the other pods are up, and if it is the primary they have   *)
(* been updated.                                                           *)
(***************************************************************************)
UpdateInv ==
  /\ pc \in {"Updates"} \cup TakingSteps => sts.replicas = seen.replicas
  /\ pc \in TakingSteps =>
       /\ Surplus \/ \A q \in Desired(seen.replicas) : pod[q].state \in {"Ready", "Failed"}
       /\ victim = status.primary =>
            \A q \in Existing \ {victim} : pod[q].rev \in {rev, sts.template}

-----------------------------------------------------------------------------
(* Facts about pods and sets of pods. *)

(* Pod indices are naturals, 0 is one of them and NoPod is not. *)
LEMMA PodsFacts == Pods \subseteq Nat /\ 0 \in Pods /\ NoPod \notin Pods
  BY ReplicasAssumption DEF Pods, NoPod

(* Sets of pods are finite; there are n pods below n. *)
LEMMA PodSets ==
  /\ \A S \in SUBSET Pods : IsFiniteSet(S) /\ Cardinality(S) \in Nat
  /\ \A n \in 1 .. N : Cardinality(Desired(n)) = n
<1>1. IsFiniteSet(Pods)
  BY ReplicasAssumption, FS_Interval DEF Pods
<1>2. \A S \in SUBSET Pods : IsFiniteSet(S) /\ Cardinality(S) \in Nat
  BY <1>1, FS_Subset, FS_CardinalityType
<1>3. ASSUME NEW n \in 1 .. N PROVE Cardinality(Desired(n)) = n
  <2>1. Desired(n) = 0 .. n - 1 /\ n \in Nat /\ n >= 1
    BY ReplicasAssumption DEF Desired, Pods
  <2>2. Cardinality(0 .. n - 1) = n
    BY <2>1, FS_Interval
  <2> QED BY <2>1, <2>2
<1> QED BY <1>2, <1>3

(* The largest of some pods is one of them. *)
LEMMA LargestPod ==
  ASSUME NEW S \in SUBSET Pods, S # {}
  PROVE  Largest(S) \in S
<1>1. S \in SUBSET Nat /\ N \in Nat /\ \A p \in S : p <= N
  BY ReplicasAssumption DEF Pods
<1> QED BY <1>1, LargestOfBounded

(***************************************************************************)
(* The position of a pod among others is the index of some pod, so that    *)
(* gracefulPrimaryUpdate always connects to a pod, if not to the right one. *)
(***************************************************************************)
LEMMA PodOfHostType ==
  ASSUME NEW hosts \in SUBSET Pods, NEW c \in Pods
  PROVE  PodOfHost(hosts, c) \in Pods
<1>1. c \in Nat /\ c <= N - 1 /\ N \in Nat
  BY ReplicasAssumption DEF Pods
<1>2. {q \in hosts : q < c} \subseteq 0 .. c - 1
  <2>1. ASSUME NEW q \in hosts, q < c PROVE q \in 0 .. c - 1
    <3>1. q \in Nat
      BY PodsFacts
    <3> QED BY <1>1, <2>1, <3>1
  <2> QED BY <2>1
<1>3. IsFiniteSet(0 .. c - 1) /\ Cardinality(0 .. c - 1) = c
  BY <1>1, FS_Interval
<1>4. Cardinality({q \in hosts : q < c}) <= c
  BY <1>2, <1>3, FS_Subset
<1>5. Cardinality({q \in hosts : q < c}) \in Nat
  BY PodSets
<1> QED BY <1>1, <1>4, <1>5 DEF PodOfHost, Pods

-----------------------------------------------------------------------------
(* Type correctness. *)

(* The values the model starts from are well formed. *)
LEMMA ConstantTypes ==
  /\ NoSpec \in SpecType
  /\ NoPodHere \in PodType
  /\ \A s \in SpecType : Revision(s) \in Revisions /\ Revision(s) # NoRevision
  /\ MaxFaults \in Nat /\ MaxEdits \in Nat
  /\ \A r \in Revisions : r # NoRevision
<1>1. MaxTemplate \in Nat \ {0} /\ MaxSize \in Nat \ {0} /\ MaxFaults \in Nat /\ MaxEdits \in Nat
  BY RolloutAssumption
<1>2. NoSpec \in SpecType
  BY <1>1, ReplicasAssumption, PodsFacts DEF NoSpec, SpecType
<1>3. NoPodHere \in PodType
  BY DEF NoPodHere, PodType
<1>4. \A s \in SpecType : Revision(s) \in Revisions
  BY DEF SpecType, Revision, Revisions
<1>5. \A r \in Revisions : r # NoRevision
  BY <1>1, ReplicasAssumption DEF Revisions, NoRevision
<1> QED BY <1>1, <1>2, <1>3, <1>4, <1>5

(* The variables of a reconciliation are well formed. *)
LocalType ==
  /\ pc \in OtherSteps \cup ResizeSteps \cup UpdateSteps
  /\ seen \in SpecType
  /\ rev \in Revisions \cup {NoRevision}
  /\ {victim, target} \subseteq Pods \cup {NoPod}
  /\ faults \in 0 .. MaxFaults
  /\ LocalInv

(* And so is everything else. *)
WorldType ==
  /\ replication \in BOOLEAN /\ scope \subseteq Fields
  /\ spec \in SpecType /\ status \in StatusType
  /\ sts \in StatefulSet /\ pod \in [Pods -> PodType]
  /\ vol \in [size : [Pods -> 1 .. MaxSize], state : {"Settled", "Asked", "Resizing"}]
  /\ server \in [Pods -> [role : Role, epoch : Nat]]
  /\ edits \in 0 .. MaxEdits

(* These are the two parts of the type invariant. *)
LEMMA TypeParts ==
  /\ TypeInv <=> LocalType /\ WorldType
  /\ TypeInv' <=> LocalType' /\ WorldType'
<1>1. OtherSteps \cup ResizeSteps \cup UpdateSteps =
        {"Idle", "Storage", "ResizePVCs", "DeleteSts", "RecreateSts",
              "PatchWaiting", "WaitResize", "PreScaleDown", "StatefulSet", "Updates",
              "CaughtUp", "Demote", "Promote", "DeletePod", "Poll", "Replication",
              "Switchover", "Switch"}
  BY DEF OtherSteps, ResizeSteps, UpdateSteps, TakingSteps
<1>2. TypeInv <=> LocalType /\ WorldType
  BY <1>1 DEF TypeInv, TypeOK, LocalType, WorldType
<1>3. TypeInv' <=> LocalType' /\ WorldType'
  BY <1>1 DEF TypeInv, TypeOK, LocalType, WorldType
<1> QED BY <1>2, <1>3

(* A fault is counted within its bound. *)
LEMMA FaultType ==
  ASSUME faults \in 0 .. MaxFaults, Fault
  PROVE  faults' \in 0 .. MaxFaults
  BY ConstantTypes DEF Fault

(* The end of a reconciliation leaves its variables well formed, ... *)
LEMMA ReturnType ==
  ASSUME TypeInv, Return, faults' = faults \/ Fault
  PROVE  LocalType' /\ pc' = "Idle"
<1>1. faults' \in 0 .. MaxFaults
  BY FaultType DEF TypeInv, TypeOK
<1> QED
  BY <1>1, ConstantTypes
     DEF Return, LocalType, LocalInv, OtherSteps, UpdateSteps, TakingSteps

(* ... so does a step to another that is about no pod, ... *)
LEMMA GoToType ==
  ASSUME TypeInv, NEW s \in OtherSteps \cup ResizeSteps, GoTo(s), faults' = faults \/ Fault
  PROVE  LocalType' /\ pc' = s
<1>1. faults' \in 0 .. MaxFaults
  BY FaultType DEF TypeInv, TypeOK
<1>2. s \notin UpdateSteps
  BY DEF OtherSteps, ResizeSteps, UpdateSteps, TakingSteps
<1> QED
  BY <1>1, <1>2 DEF GoTo, local, LocalType, LocalInv, TypeInv, TypeOK, UpdateSteps, TakingSteps

(* ... or from one about a pod to another. *)
LEMMA GoToUpdateType ==
  ASSUME TypeInv, NEW s \in UpdateSteps \ {"Promote"}, pc \in UpdateSteps, GoTo(s),
         faults' = faults \/ Fault
  PROVE  LocalType' /\ pc' = s
<1>1. faults' \in 0 .. MaxFaults
  BY FaultType DEF TypeInv, TypeOK
<1> QED BY <1>1 DEF GoTo, local, LocalType, LocalInv, TypeInv, TypeOK

(* A patch of the status. *)
LEMMA PatchStatusType ==
  ASSUME TypeInv, NEW new \in StatusType, NEW s \in OtherSteps \cup ResizeSteps,
         PatchStatus(new, s)
  PROVE  /\ LocalType'
         /\ \/ pc' = s /\ status' = new /\ seen' = spec
            \/ pc' = "Idle" /\ status' \in {status, new} /\ seen' = NoSpec
         /\ status' \in StatusType
<1>1. status \in StatusType /\ spec \in SpecType
  BY DEF TypeInv, TypeOK
<1>2. CASE /\ status' = new /\ seen' = spec /\ pc' = s
           /\ UNCHANGED <<rev, victim, target, faults>>
  <2>1. s \notin UpdateSteps
    BY DEF OtherSteps, ResizeSteps, UpdateSteps, TakingSteps
  <2> QED BY <1>1, <1>2, <2>1 DEF LocalType, LocalInv, TypeInv, TypeOK, UpdateSteps, TakingSteps
<1>3. CASE Fault /\ status' \in {status, new} /\ Return
  BY <1>1, <1>3, ReturnType DEF Return
<1> QED BY <1>2, <1>3 DEF PatchStatus

(* What is applied to the StatefulSet is well formed. *)
LEMMA AppliedType ==
  ASSUME TypeInv
  PROVE  Applied \in StatefulSet /\ Applied.replicas = seen.replicas
<1>1. Revision(seen) \in Revisions /\ seen \in SpecType /\ sts \in StatefulSet
  BY ConstantTypes DEF TypeInv, TypeOK
<1> QED BY <1>1 DEF Applied, StatefulSet, SpecType

(* A server that is demoted stays well formed. *)
LEMMA DemoteServerType ==
  ASSUME TypeInv, NEW p \in Pods, DemoteServer(p)
  PROVE  server' \in [Pods -> [role : Role, epoch : Nat]]
  BY DEF DemoteServer, TypeInv, TypeOK, Role

(* So does one that is stopped. *)
LEMMA StopServerType ==
  ASSUME TypeInv, NEW p \in Pods, StopServer(p)
  PROVE  server' \in [Pods -> [role : Role, epoch : Nat]]
  BY DemoteServerType DEF StopServer, TypeInv, TypeOK

(* What the Status phase records is well formed. *)
LEMMA ObservedType ==
  ASSUME TypeInv
  PROVE  /\ \A p \in Pods : ObservedRole(p) \in {"absent", "primary", "standby"}
         /\ ObservedEpoch \in Nat
         /\ UpdatedCondition \in {"Updated", "Pending", "Updating"}
<1>1. /\ server \in [Pods -> [role : Role, epoch : Nat]]
      /\ status \in StatusType
  BY DEF TypeInv, TypeOK
<1>2. \A p \in Pods : ObservedRole(p) \in {"absent", "primary", "standby"}
  BY <1>1 DEF ObservedRole, Role
<1>3. ObservedEpoch \in Nat
  <2> DEFINE f == [p \in Pods |-> server[p].epoch]
             S == ReadyPods \cap Desired(spec.replicas)
  <2>1. f \in [Pods -> Nat] /\ S \in SUBSET Pods /\ status.epoch \in Nat
    BY <1>1 DEF StatusType, ReadyPods
  <2>2. {server[p].epoch : p \in S} = {f[p] : p \in S}
    BY <2>1
  <2>3. Largest({status.epoch} \cup {f[p] : p \in S}) \in Nat
    BY <2>1, LargestOfPods
  <2> QED BY <2>2, <2>3 DEF ObservedEpoch
<1>4. UpdatedCondition \in {"Updated", "Pending", "Updating"}
  BY <1>1 DEF UpdatedCondition, StatusType
<1> QED BY <1>2, <1>3, <1>4

(* Every change of the status that the controller makes is well formed. *)
LEMMA StatusTypes ==
  ASSUME TypeInv
  PROVE  /\ \A v \in {"Settled", "Resizing", "Waiting"} :
              [status EXCEPT !.storage = v] \in StatusType
         /\ \A v \in BOOLEAN : [status EXCEPT !.switching = v] \in StatusType
  BY DEF TypeInv, TypeOK, StatusType

(* The Status and Storage phases keep the types. *)
LEMMA StoragePhasesType ==
  ASSUME TypeInv,
         \/ StatusPhase \/ StoragePhase \/ ResizeInUsePVCs \/ DeleteStatefulSet
         \/ RecreateStatefulSet \/ PatchWaiting \/ WaitForStorageResize
  PROVE  TypeInv'
<1>a. WorldType /\ status \in StatusType /\ sts \in StatefulSet /\ seen \in SpecType
  BY TypeParts DEF LocalType, WorldType
<1>b. {"Storage", "PreScaleDown", "WaitResize", "ResizePVCs", "DeleteSts", "RecreateSts",
       "PatchWaiting"} \subseteq OtherSteps \cup ResizeSteps
  BY DEF OtherSteps, ResizeSteps
<1>c. \A s \in {"Storage", "PreScaleDown", "WaitResize", "ResizePVCs", "DeleteSts",
                "RecreateSts", "PatchWaiting"} : GoTo(s) /\ faults' = faults => LocalType'
  BY <1>b, GoToType
<1>1. ASSUME StatusPhase PROVE TypeInv'
  <2> DEFINE observed == IF replication
                    THEN [status EXCEPT !.repl  = [p \in Pods |-> ObservedRole(p)],
                                        !.epoch = ObservedEpoch]
                    ELSE status
             new == [observed EXCEPT !.updated = IF IsResizingStorage \/ status.switching
                                              THEN @ ELSE UpdatedCondition]
  <2>1. observed \in StatusType
    BY <1>a, ObservedType DEF StatusType
  <2>2. new \in StatusType
    BY <2>1, ObservedType DEF StatusType
  <2>3. PatchStatus(new, "Storage") /\ UNCHANGED <<spec, input, cluster>>
    BY <1>1 DEF StatusPhase
  <2>4. LocalType' /\ status' \in StatusType
    BY <1>b, <2>2, <2>3, PatchStatusType
  <2> QED BY <1>a, <2>3, <2>4, TypeParts DEF WorldType, input, cluster
<1>2. ASSUME StoragePhase PROVE TypeInv'
  <2>1. LocalType' /\ status' \in StatusType
    <3>1. ASSUME PatchStatus([status EXCEPT !.storage = "Resizing"], "ResizePVCs")
          PROVE  LocalType' /\ status' \in StatusType
      BY <1>b, <3>1, StatusTypes, PatchStatusType
    <3> QED BY <1>2, <1>a, <1>c, <3>1, ReturnType DEF StoragePhase
  <2> QED BY <1>2, <1>a, <2>1, TypeParts DEF WorldType, StoragePhase, input, cluster
<1>3. ASSUME ResizeInUsePVCs PROVE TypeInv'
  <2>1. LocalType'
    BY <1>3, <1>c, ReturnType DEF ResizeInUsePVCs
  <2>2. PICK S \in SUBSET Pods : Request(S)
    BY <1>3 DEF ResizeInUsePVCs
  <2>3. seen.size \in 1 .. MaxSize
    BY <1>a DEF SpecType
  <2>4. vol' \in [size : [Pods -> 1 .. MaxSize], state : {"Settled", "Asked", "Resizing"}]
    BY <1>a, <2>2, <2>3 DEF WorldType, Request
  <2> QED BY <1>3, <1>a, <2>1, <2>4, TypeParts DEF WorldType, ResizeInUsePVCs, input
<1>4. ASSUME DeleteStatefulSet PROVE TypeInv'
  <2>1. LocalType'
    BY <1>4, <1>c, ReturnType DEF DeleteStatefulSet
  <2>2. sts' \in StatefulSet
    BY <1>4, <1>a DEF DeleteStatefulSet, StatefulSet
  <2> QED BY <1>4, <1>a, <2>1, <2>2, TypeParts DEF WorldType, DeleteStatefulSet, input
<1>5. ASSUME RecreateStatefulSet PROVE TypeInv'
  <2>1. LocalType'
    BY <1>5, <1>c, ReturnType DEF RecreateStatefulSet
  <2>2. sts' \in StatefulSet
    BY <1>5, <1>a, AppliedType DEF RecreateStatefulSet
  <2> QED BY <1>5, <1>a, <2>1, <2>2, TypeParts DEF WorldType, RecreateStatefulSet, input
<1>6. ASSUME PatchWaiting PROVE TypeInv'
  <2>1. LocalType' /\ status' \in StatusType
    BY <1>6, <1>b, StatusTypes, PatchStatusType DEF PatchWaiting
  <2> QED BY <1>6, <1>a, <2>1, TypeParts DEF WorldType, PatchWaiting, input, cluster
<1>7. ASSUME WaitForStorageResize PROVE TypeInv'
  <2>1. LocalType' /\ status' \in StatusType
    <3>1. ASSUME PatchStatus([status EXCEPT !.storage = "Settled"], "PreScaleDown")
          PROVE  LocalType' /\ status' \in StatusType
      BY <1>b, <3>1, StatusTypes, PatchStatusType
    <3> QED BY <1>7, <1>a, <1>c, <3>1, ReturnType DEF WaitForStorageResize
  <2> QED BY <1>7, <1>a, <2>1, TypeParts DEF WorldType, WaitForStorageResize, input, cluster
<1> QED BY <1>1, <1>2, <1>3, <1>4, <1>5, <1>6, <1>7

(* The pod that is updated next is a pod. *)
LEMMA NextVictimType ==
  ASSUME TypeInv
  PROVE  NextVictim \in Pods
<1>1. status.primary \in Pods /\ Stale \ {status.primary} \in SUBSET Pods
  BY DEF TypeInv, TypeOK, StatusType, Stale, Existing
<1> QED BY <1>1, LargestPod DEF NextVictim

(* The phases from PreScaleDown to Updates keep the types. *)
LEMMA StatefulSetPhasesType ==
  ASSUME TypeInv, PreScaleDown \/ StatefulSetPhase \/ ReconcileUpdates
  PROVE  TypeInv'
<1>a. WorldType /\ spec \in SpecType
  BY TypeParts DEF WorldType
<1>b. \A s \in {"StatefulSet", "Updates", "Replication"} : GoTo(s) /\ faults' = faults => LocalType'
  BY GoToType DEF OtherSteps
<1>1. ASSUME PreScaleDown PROVE TypeInv'
  <2>1. LocalType'
    BY <1>1, <1>b, ReturnType DEF PreScaleDown
  <2>2. spec' \in SpecType
    BY <1>1, <1>a, PodsFacts DEF PreScaleDown, SpecType
  <2> QED BY <1>1, <1>a, <2>1, <2>2, TypeParts DEF WorldType, PreScaleDown, input, cluster
<1>2. ASSUME StatefulSetPhase PROVE TypeInv'
  <2>1. LocalType'
    BY <1>2, <1>b, ReturnType DEF StatefulSetPhase
  <2>2. sts' \in StatefulSet
    BY <1>2, <1>a, AppliedType DEF StatefulSetPhase, WorldType
  <2> QED BY <1>2, <1>a, <2>1, <2>2, TypeParts DEF WorldType, StatefulSetPhase, input
<1>3. ASSUME ReconcileUpdates PROVE TypeInv'
  <2>1. ASSUME rev' = sts.revision, victim' = NextVictim, faults' = faults,
               pc' \in {"CaughtUp", "DeletePod"}, UNCHANGED <<seen, target>>
        PROVE  LocalType'
    <3>1. sts.revision \in Revisions \cup {NoRevision}
      BY DEF TypeInv, TypeOK, StatefulSet
    <3> QED
      BY <2>1, <3>1, NextVictimType
         DEF LocalType, LocalInv, TypeInv, TypeOK, UpdateSteps, TakingSteps
  <2>2. LocalType'
    BY <1>3, <1>b, <2>1, ReturnType DEF ReconcileUpdates
  <2> QED BY <1>3, <1>a, <2>2, TypeParts DEF WorldType, ReconcileUpdates, input, cluster
<1> QED BY <1>1, <1>2, <1>3

(* So do the steps that update a pod. *)
LEMMA UpdateStepsType ==
  ASSUME TypeInv,
         \/ WaitForReplicationCaughtUp \/ DemotePrimary \/ PromoteTarget
         \/ DeletePod \/ PollUntilPodUpdated
  PROVE  TypeInv'
<1>a. WorldType /\ server \in [Pods -> [role : Role, epoch : Nat]]
      /\ (pc \in UpdateSteps => victim \in Pods) /\ (pc = "Promote" => target \in Pods)
  BY TypeParts DEF WorldType, TypeInv, LocalInv
<1>b. GoTo("Replication") /\ faults' = faults => LocalType'
  BY GoToType DEF OtherSteps
<1>c. ASSUME NEW s \in {"Demote", "DeletePod", "Poll"}, pc \in UpdateSteps, GoTo(s),
             faults' = faults \/ Fault
      PROVE  LocalType'
  BY <1>c, GoToUpdateType DEF UpdateSteps, TakingSteps
<1>1. ASSUME WaitForReplicationCaughtUp PROVE TypeInv'
  <2>1. pc \in UpdateSteps
    BY <1>1 DEF WaitForReplicationCaughtUp, UpdateSteps, TakingSteps
  <2>2. LocalType'
    BY <1>1, <1>b, <1>c, <2>1, ReturnType DEF WaitForReplicationCaughtUp
  <2> QED
    BY <1>1, <1>a, <2>2, TypeParts DEF WorldType, WaitForReplicationCaughtUp, input, cluster
<1>2. ASSUME DemotePrimary PROVE TypeInv'
  <2> DEFINE hosts == ReadyPods \ {victim}
             standbys == {q \in hosts : server[q].role = "standby"}
  <2>1. pc \in UpdateSteps /\ victim \in Pods
    BY <1>2, <1>a DEF DemotePrimary, UpdateSteps, TakingSteps
  <2>2. server' \in [Pods -> [role : Role, epoch : Nat]]
    BY <1>2, <1>a, <2>1, DemoteServerType DEF DemotePrimary
  <2>3. ASSUME NEW c \in standbys, target' = PodOfHost(hosts, c), pc' = "Promote",
               UNCHANGED <<seen, rev, victim, faults>>
        PROVE  LocalType'
    <3>1. hosts \in SUBSET Pods /\ c \in Pods
      BY DEF ReadyPods
    <3>2. target' \in Pods
      BY <2>3, <3>1, PodOfHostType
    <3> QED
      BY <2>1, <2>3, <3>2 DEF LocalType, LocalInv, TypeInv, TypeOK, UpdateSteps, TakingSteps
  <2>4. LocalType'
    BY <1>2, <1>c, <2>1, <2>3 DEF DemotePrimary
  <2> QED BY <1>2, <1>a, <2>2, <2>4, TypeParts DEF WorldType, DemotePrimary, input
<1>3. ASSUME PromoteTarget PROVE TypeInv'
  <2>1. pc \in UpdateSteps /\ victim \in Pods /\ target \in Pods
    BY <1>3, <1>a DEF PromoteTarget, UpdateSteps, TakingSteps
  <2>2. server' \in [Pods -> [role : Role, epoch : Nat]]
    BY <1>3, <1>a, <2>1 DEF PromoteTarget, Role
  <2>3. LocalType'
    BY <1>3, <1>c, <2>1, ReturnType DEF PromoteTarget
  <2> QED BY <1>3, <1>a, <2>2, <2>3, TypeParts DEF WorldType, PromoteTarget, input
<1>4. ASSUME DeletePod PROVE TypeInv'
  <2>1. pc \in UpdateSteps /\ victim \in Pods
    BY <1>4, <1>a DEF DeletePod, UpdateSteps, TakingSteps
  <2>2. server' \in [Pods -> [role : Role, epoch : Nat]]
    BY <1>4, <1>a, <2>1, StopServerType DEF DeletePod
  <2>3. pod' \in [Pods -> PodType]
    BY <1>4, <1>a, <2>1, ConstantTypes DEF DeletePod, WorldType
  <2>4. LocalType'
    BY <1>4, <1>c, <2>1, ReturnType DEF DeletePod
  <2> QED BY <1>4, <1>a, <2>2, <2>3, <2>4, TypeParts DEF WorldType, DeletePod, input
<1>5. ASSUME PollUntilPodUpdated PROVE TypeInv'
  <2>1. LocalType'
    BY <1>5, <1>b, ReturnType DEF PollUntilPodUpdated
  <2> QED BY <1>5, <1>a, <2>1, TypeParts DEF WorldType, PollUntilPodUpdated, input, cluster
<1> QED BY <1>1, <1>2, <1>3, <1>4, <1>5

(* So does the Replication phase with the switchover. *)
LEMMA ReplicationPhasesType ==
  ASSUME TypeInv, ReplicationPhase \/ BeginSwitchover \/ Switch
  PROVE  TypeInv'
<1>a. /\ WorldType /\ server \in [Pods -> [role : Role, epoch : Nat]]
      /\ status \in StatusType /\ seen \in SpecType
  BY TypeParts DEF WorldType, LocalType
<1>b. GoTo("Switchover") /\ faults' = faults => LocalType'
  BY GoToType DEF OtherSteps
<1>c. "Switch" \in OtherSteps
  BY DEF OtherSteps
<1>1. ASSUME ReplicationPhase PROVE TypeInv'
  <2>1. LocalType'
    BY <1>1, <1>b, ReturnType DEF ReplicationPhase
  <2>2. server' \in [Pods -> [role : Role, epoch : Nat]]
    BY <1>1, <1>a DEF ReplicationPhase, Role, StatusType
  <2> QED BY <1>1, <1>a, <2>1, <2>2, TypeParts DEF WorldType, ReplicationPhase, input
<1>2. ASSUME BeginSwitchover PROVE TypeInv'
  <2>1. ASSUME PatchStatus([status EXCEPT !.switching = TRUE], "Switch")
        PROVE  LocalType' /\ status' \in StatusType
    BY <1>c, <2>1, StatusTypes, PatchStatusType
  <2>2. LocalType' /\ status' \in StatusType
    BY <1>2, <1>a, <2>1, ReturnType DEF BeginSwitchover
  <2> QED BY <1>2, <1>a, <2>2, TypeParts DEF WorldType, BeginSwitchover, input, cluster
<1>3. ASSUME Switch PROVE TypeInv'
  <2> DEFINE states   == [p \in Pods |-> IF Ready(p) THEN server[p] ELSE [role |-> "", epoch |-> 0]]
             found    == CurrentPrimaryAndEpoch(states)
             e        == (IF found.ok THEN found.epoch ELSE status.epoch) + 1
             old      == status.primary
             demoted  == [server EXCEPT ![old] = [role |-> "standby", epoch |-> e]]
             Promoted(d) == [d EXCEPT ![seen.podIndex] = [role |-> "primary", epoch |-> e]]
  <2>1. e \in Nat
    <3>1. states \in [Pods -> [role : {"", "primary", "standby"}, epoch : Nat]]
      BY <1>a DEF Role
    <3>2. found.ok => found.epoch \in Nat
      BY <3>1, CurrentPrimaryAndEpochSound
    <3>3. status.epoch \in Nat
      BY <1>a DEF StatusType
    <3> HIDE DEF found
    <3>4. CASE found.ok
      BY <3>2, <3>4
    <3>5. CASE ~found.ok
      BY <3>3, <3>5
    <3> QED BY <3>4, <3>5
  <2>2. LocalType'
    BY <1>3, ReturnType DEF Switch
  <2>3. /\ server \in [Pods -> [role : Role, epoch : Nat]]
        /\ demoted \in [Pods -> [role : Role, epoch : Nat]]
        /\ Promoted(server) \in [Pods -> [role : Role, epoch : Nat]]
        /\ Promoted(demoted) \in [Pods -> [role : Role, epoch : Nat]]
    BY <1>a, <2>1 DEF Role
  <2>4. server' \in {server, demoted, Promoted(server), Promoted(demoted)}
    BY <1>3 DEF Switch
  <2>5. Largest({status.epoch, e}) \in Nat
    <3>1. ASSUME NEW x \in Nat, NEW y \in Nat PROVE Largest({x, y}) \in Nat
      <4>1. {x, y} \in SUBSET Nat /\ x + y \in Nat /\ \A z \in {x, y} : z <= x + y
        OBVIOUS
      <4> QED BY <4>1, LargestOfBounded
    <3> QED BY <1>a, <2>1, <3>1 DEF StatusType
  <2>6. status' \in {status, [status EXCEPT !.switching = FALSE],
                     [status EXCEPT !.primary = seen.podIndex, !.switching = FALSE,
                                    !.epoch = Largest({status.epoch, e})]}
    BY <1>3, <1>a DEF Switch
  <2>7. status' \in StatusType
    BY <1>a, <2>5, <2>6 DEF StatusType, SpecType
  <2> QED BY <1>3, <1>a, <2>2, <2>3, <2>4, <2>7, TypeParts DEF WorldType, Switch, input
<1> QED BY <1>1, <1>2, <1>3

(* The steps of Kubernetes, of users and of the process keep the types. *)
LEMMA EnvironmentType ==
  ASSUME TypeInv,
         Kubernetes \/ EditSpec \/ OperatorRestart \/ \E p \in Pods : PodFails(p)
  PROVE  TypeInv'
<1>a. LocalType /\ WorldType /\ sts \in StatefulSet /\ pod \in [Pods -> PodType]
  BY TypeParts DEF WorldType
<1>1. ASSUME ObserveTemplate \/ CollectStatefulSet PROVE TypeInv'
  <2>1. sts' \in StatefulSet
    BY <1>1, <1>a DEF ObserveTemplate, CollectStatefulSet, StatefulSet
  <2> QED
    BY <1>1, <1>a, <2>1, TypeParts
       DEF ObserveTemplate, CollectStatefulSet, input, local, LocalType, LocalInv, WorldType
<1>2. ASSUME ResizeVolumes PROVE TypeInv'
  <2>1. vol' \in [size : [Pods -> 1 .. MaxSize], state : {"Settled", "Asked", "Resizing"}]
    BY <1>2, <1>a DEF ResizeVolumes, WorldType
  <2> QED
    BY <1>2, <1>a, <2>1, TypeParts
       DEF ResizeVolumes, input, local, LocalType, LocalInv, WorldType
<1>3. ASSUME NEW p \in Pods, CreatePod(p) \/ PodBecomesReady(p) PROVE TypeInv'
  <2>1. sts.template \in Revisions
    BY <1>a DEF StatefulSet
  <2>2. pod' \in [Pods -> PodType]
    BY <1>3, <1>a, <2>1 DEF CreatePod, PodBecomesReady, PodType
  <2> QED
    BY <1>3, <1>a, <2>2, TypeParts
       DEF CreatePod, PodBecomesReady, input, local, LocalType, LocalInv, WorldType
<1>4. ASSUME NEW p \in Pods, RemovePod(p) PROVE TypeInv'
  <2>1. pod' \in [Pods -> PodType]
    BY <1>4, <1>a, ConstantTypes DEF RemovePod
  <2>2. server' \in [Pods -> [role : Role, epoch : Nat]]
    BY <1>4, StopServerType DEF RemovePod
  <2> QED
    BY <1>4, <1>a, <2>1, <2>2, TypeParts
       DEF RemovePod, input, local, LocalType, LocalInv, WorldType
<1>5. ASSUME NEW p \in Pods, PodFails(p) PROVE TypeInv'
  <2>1. pod' \in [Pods -> PodType]
    BY <1>5, <1>a DEF PodFails, PodType
  <2>2. faults' \in 0 .. MaxFaults
    BY <1>5, <1>a, FaultType DEF PodFails, LocalType
  <2> QED
    BY <1>5, <1>a, <2>1, <2>2, TypeParts
       DEF PodFails, input, local, LocalType, LocalInv, WorldType
<1>6. ASSUME EditSpec PROVE TypeInv'
  <2>1. edits' \in 0 .. MaxEdits /\ spec' \in SpecType
    BY <1>6, <1>a, ConstantTypes DEF EditSpec, WorldType
  <2> QED
    BY <1>6, <1>a, <2>1, TypeParts
       DEF EditSpec, local, cluster, LocalType, LocalInv, WorldType
<1>7. ASSUME OperatorRestart PROVE TypeInv'
  <2>1. LocalType'
    BY <1>7, ReturnType DEF OperatorRestart
  <2> QED BY <1>7, <1>a, <2>1, TypeParts DEF OperatorRestart, input, cluster, WorldType
<1> QED BY <1>1, <1>2, <1>3, <1>4, <1>5, <1>6, <1>7 DEF Kubernetes

(* Initially everything has its type. *)
LEMMA TypeInit == Init => TypeInv
<1> SUFFICES ASSUME Init PROVE TypeInv
  OBVIOUS
<1>1. PICK b \in BootIndices \cup {0} :
        /\ replication \in Modes
        /\ scope \in Scopes
        /\ spec = [NoSpec EXCEPT !.podIndex = b]
        /\ seen = NoSpec /\ pc = "Idle" /\ rev = NoRevision
        /\ victim = NoPod /\ target = NoPod
        /\ server = [p \in Pods |-> [role  |-> IF p = b THEN "primary" ELSE "standby",
                                     epoch |-> 1]]
        /\ status = [primary |-> b, epoch |-> 1,
                     repl |-> [p \in Pods |-> server[p].role],
                     updated |-> "Updated", storage |-> "Settled", switching |-> FALSE]
        /\ sts = [life |-> "live", template |-> Revision(spec), revision |-> Revision(spec),
                  size |-> 1, replicas |-> N]
        /\ pod = [p \in Pods |-> [state |-> "Ready", rev |-> Revision(spec)]]
        /\ vol = [size |-> [p \in Pods |-> 1], state |-> "Settled"]
        /\ edits = 0 /\ faults = 0
  BY DEF Init
<1>2. b \in Pods /\ 1 \in 1 .. MaxSize /\ N \in 1 .. N
  BY <1>1, RolloutAssumption, ReplicasAssumption, PodsFacts
<1>3. spec \in SpecType
  BY <1>1, <1>2, ConstantTypes DEF SpecType
<1>4. Revision(spec) \in Revisions
  BY <1>3, ConstantTypes
<1>5. LocalType
  BY <1>1, ConstantTypes DEF LocalType, LocalInv, OtherSteps, UpdateSteps, TakingSteps
<1>6. server \in [Pods -> [role : Role, epoch : Nat]]
  BY <1>1 DEF Role
<1>7. status \in StatusType
  BY <1>1, <1>2, <1>6 DEF StatusType, Role
<1>8. sts \in StatefulSet /\ pod \in [Pods -> PodType]
  BY <1>1, <1>2, <1>4 DEF StatefulSet, PodType
<1>9. /\ vol \in [size : [Pods -> 1 .. MaxSize], state : {"Settled", "Asked", "Resizing"}]
      /\ replication \in BOOLEAN /\ scope \subseteq Fields /\ edits \in 0 .. MaxEdits
  BY <1>1, <1>2, RolloutAssumption, ConstantTypes
<1> QED BY <1>3, <1>5, <1>6, <1>7, <1>8, <1>9, TypeParts DEF WorldType

(* Every step keeps the types. *)
LEMMA TypeStep == TypeInv /\ [Next]_vars => TypeInv'
<1>1. ASSUME TypeInv, UNCHANGED vars PROVE TypeInv'
  BY <1>1, TypeParts
     DEF vars, input, local, cluster, LocalType, LocalInv, WorldType
<1>2. ASSUME TypeInv, Controller PROVE TypeInv'
  BY <1>2, StoragePhasesType, StatefulSetPhasesType, UpdateStepsType, ReplicationPhasesType
     DEF Controller
<1> QED BY <1>1, <1>2, EnvironmentType DEF Next

(* So the types are an invariant. *)
LEMMA TypeInvariant == Spec => []TypeInv
  BY TypeInit, TypeStep, PTL DEF Spec

(***************************************************************************)
(* Every variable keeps its type, for any number of pods, edits and        *)
(* faults: reconcileUpdates only picks pods there can be, and the host     *)
(* that gracefulPrimaryUpdate computes from a position is always the index *)
(* of a pod.                                                               *)
(***************************************************************************)
THEOREM TypeCorrect == Spec => []TypeOK
<1>1. TypeInv => TypeOK
  BY DEF TypeInv
<1> QED BY <1>1, TypeInvariant, PTL

-----------------------------------------------------------------------------
(* Resizing and updating exclude each other. *)

(* Nothing is resized or updated at first. *)
LEMMA ResizeInit == Init => ResizeInv
  BY DEF Init, ResizeInv, ResizeSteps, UpdateSteps, TakingSteps, IsResizingStorage, IsUpdating

(* A step that leaves the status alone and stays within the resize, within *)
(* the update or outside both.                                             *)
LEMMA ResizeFrame ==
  ASSUME ResizeInv, status' = status,
         \/ pc' \in OtherSteps \cup {pc}
         \/ pc \in ResizeSteps /\ pc' \in ResizeSteps
         \/ pc \in UpdateSteps /\ pc' \in UpdateSteps
  PROVE  ResizeInv'
<1>1. \A s \in OtherSteps : s \notin ResizeSteps /\ s \notin UpdateSteps
  BY DEF OtherSteps, ResizeSteps, UpdateSteps, TakingSteps
<1>2. \A s \in ResizeSteps : s \notin UpdateSteps
  BY DEF ResizeSteps, UpdateSteps, TakingSteps
<1>3. (IsResizingStorage' <=> IsResizingStorage) /\ (IsUpdating' <=> IsUpdating)
  BY DEF IsResizingStorage, IsUpdating
<1> QED BY <1>1, <1>2, <1>3 DEF ResizeInv

(* The controller keeps them apart. *)
LEMMA ResizeController ==
  ASSUME TypeInv, ResizeInv, Controller
  PROVE  ResizeInv'
<1>a. status \in StatusType
  BY DEF TypeInv, TypeOK
<1>b. \A s \in OtherSteps : s \notin ResizeSteps /\ s \notin UpdateSteps
  BY DEF OtherSteps, ResizeSteps, UpdateSteps, TakingSteps
<1>c. "Idle" \in OtherSteps
  BY DEF OtherSteps
<1>1. ASSUME StatusPhase PROVE ResizeInv'
  <2> DEFINE observed == IF replication
                    THEN [status EXCEPT !.repl  = [p \in Pods |-> ObservedRole(p)],
                                        !.epoch = ObservedEpoch]
                    ELSE status
             new == [observed EXCEPT !.updated = IF IsResizingStorage \/ status.switching
                                              THEN @ ELSE UpdatedCondition]
  <2>1. pc' \in {"Storage", "Idle"} /\ status' \in {status, new}
    BY <1>1 DEF StatusPhase, PatchStatus, Return
  <2>2. observed.storage = status.storage /\ observed.updated = status.updated
        /\ new.storage = observed.storage
        /\ new.updated = IF IsResizingStorage \/ status.switching
                           THEN observed.updated ELSE UpdatedCondition
    BY <1>a DEF StatusType
  <2>3. /\ status'.storage = status.storage
        /\ IsResizingStorage => status'.updated = status.updated
    BY <2>1, <2>2
  <2>4. pc' \in OtherSteps
    BY <2>1 DEF OtherSteps
  <2> QED BY <1>b, <2>3, <2>4 DEF ResizeInv, IsResizingStorage, IsUpdating
<1>2. ASSUME StoragePhase PROVE ResizeInv'
  <2>1. ASSUME PatchStatus([status EXCEPT !.storage = "Resizing"], "ResizePVCs"), ~IsUpdating
        PROVE  ResizeInv'
    <3>1. /\ status'.updated = status.updated
          /\ \/ pc' = "ResizePVCs" /\ status'.storage = "Resizing"
             \/ pc' = "Idle"
      BY <1>a, <2>1 DEF PatchStatus, Return, StatusType
    <3> QED
      BY <1>b, <1>c, <2>1, <3>1
         DEF ResizeInv, IsResizingStorage, IsUpdating, ResizeSteps, UpdateSteps, TakingSteps
  <2>2. ASSUME status' = status, pc' \in {"PreScaleDown", "WaitResize", "Idle"} PROVE ResizeInv'
    BY <2>2, ResizeFrame DEF OtherSteps
  <2> QED BY <1>2, <2>1, <2>2 DEF StoragePhase, GoTo, Return, ShouldReconcileStorage
<1>3. ASSUME ResizeInUsePVCs \/ DeleteStatefulSet \/ RecreateStatefulSet PROVE ResizeInv'
  <2>1. status' = status /\ pc \in ResizeSteps /\ pc' \in ResizeSteps \cup {"Idle"}
    BY <1>3 DEF ResizeInUsePVCs, DeleteStatefulSet, RecreateStatefulSet, GoTo, Return,
                ResizeSteps
  <2> QED BY <1>c, <2>1, ResizeFrame
<1>4. ASSUME PatchWaiting PROVE ResizeInv'
  <2>1. /\ pc = "PatchWaiting" /\ pc' \in {"WaitResize", "Idle"}
        /\ status'.updated = status.updated
    BY <1>4, <1>a DEF PatchWaiting, PatchStatus, Return, StatusType
  <2>2. ~IsUpdating
    BY <2>1 DEF ResizeInv, ResizeSteps
  <2>3. pc' \in OtherSteps
    BY <2>1 DEF OtherSteps
  <2> QED BY <1>b, <2>1, <2>2, <2>3 DEF ResizeInv, IsUpdating
<1>5. ASSUME WaitForStorageResize PROVE ResizeInv'
  <2>1. ASSUME PatchStatus([status EXCEPT !.storage = "Settled"], "PreScaleDown")
        PROVE  ResizeInv'
    <3>1. /\ pc' \in {"PreScaleDown", "Idle"}
          /\ status'.updated = status.updated
          /\ status'.storage \in {status.storage, "Settled"}
      BY <1>a, <2>1 DEF PatchStatus, Return, StatusType
    <3>2. pc' \in OtherSteps
      BY <3>1 DEF OtherSteps
    <3> QED BY <1>b, <3>1, <3>2 DEF ResizeInv, IsUpdating, IsResizingStorage
  <2>2. ASSUME status' = status, pc' \in {"PreScaleDown", "Idle"} PROVE ResizeInv'
    BY <2>2, ResizeFrame DEF OtherSteps
  <2> QED BY <1>5, <2>1, <2>2 DEF WaitForStorageResize, GoTo, Return
<1>6. ASSUME PreScaleDown \/ StatefulSetPhase \/ ReplicationPhase PROVE ResizeInv'
  <2>1. status' = status /\ pc' \in OtherSteps
    BY <1>6 DEF PreScaleDown, StatefulSetPhase, ReplicationPhase, GoTo, Return, OtherSteps
  <2> QED BY <2>1, ResizeFrame
<1>7. ASSUME ReconcileUpdates PROVE ResizeInv'
  <2>1. status' = status
    BY <1>7 DEF ReconcileUpdates
  <2>2. CASE pc' \in OtherSteps
    BY <2>1, <2>2, ResizeFrame
  <2>3. CASE pc' \in {"CaughtUp", "DeletePod"} /\ ~IsResizingStorage
    BY <2>1, <2>3 DEF ResizeInv, IsResizingStorage, IsUpdating, ResizeSteps
  <2> QED
    BY <1>7, <2>2, <2>3
       DEF ReconcileUpdates, ShouldReconcileUpdates, GoTo, Return, OtherSteps
<1>8. ASSUME \/ WaitForReplicationCaughtUp \/ DemotePrimary \/ PromoteTarget
             \/ DeletePod \/ PollUntilPodUpdated
      PROVE  ResizeInv'
  <2>1. status' = status /\ pc \in UpdateSteps /\ pc' \in OtherSteps \cup UpdateSteps
    BY <1>8 DEF WaitForReplicationCaughtUp, DemotePrimary, PromoteTarget, DeletePod,
                PollUntilPodUpdated, GoTo, Return, OtherSteps, UpdateSteps, TakingSteps
  <2> QED BY <2>1, ResizeFrame
<1>9. ASSUME BeginSwitchover PROVE ResizeInv'
  <2>1. /\ pc' \in {"Switch", "Idle"} /\ status'.updated = status.updated
        /\ status'.storage = status.storage
    BY <1>9, <1>a DEF BeginSwitchover, PatchStatus, Return, StatusType
  <2>2. pc' \in OtherSteps
    BY <2>1 DEF OtherSteps
  <2> QED BY <1>b, <2>1, <2>2 DEF ResizeInv, IsUpdating, IsResizingStorage
<1>10. ASSUME Switch PROVE ResizeInv'
  <2>1. pc' = "Idle" /\ status'.updated = status.updated /\ status'.storage = status.storage
    BY <1>10, <1>a DEF Switch, Return, StatusType
  <2> QED BY <1>b, <1>c, <2>1 DEF ResizeInv, IsUpdating, IsResizingStorage
<1> QED
  BY <1>1, <1>2, <1>3, <1>4, <1>5, <1>6, <1>7, <1>8, <1>9, <1>10 DEF Controller

(* Every step keeps them apart. *)
LEMMA ResizeStep == TypeInv /\ ResizeInv /\ [Next]_vars => ResizeInv'
<1>1. ASSUME ResizeInv, UNCHANGED vars PROVE ResizeInv'
  BY <1>1, ResizeFrame DEF vars
<1>2. ASSUME ResizeInv,
             Kubernetes \/ EditSpec \/ OperatorRestart \/ \E p \in Pods : PodFails(p)
      PROVE  ResizeInv'
  <2>1. status' = status /\ pc' \in {pc, "Idle"}
    BY <1>2 DEF Kubernetes, ObserveTemplate, CollectStatefulSet, ResizeVolumes, CreatePod,
                RemovePod, PodBecomesReady, EditSpec, OperatorRestart, PodFails, Return
  <2> QED BY <1>2, <2>1, ResizeFrame DEF OtherSteps
<1> QED BY <1>1, <1>2, ResizeController DEF Next

(***************************************************************************)
(* A resize and a rolling update never overlap: while the status records a *)
(* resize, it records no update, and no pod is being taken down by the     *)
(* operator; wherever calls fail and the operator restarts.                *)
(***************************************************************************)
THEOREM ResizeExcludesUpdate == Spec => []UpdateExcludesResize
<1>1. ResizeInv => UpdateExcludesResize
  BY DEF ResizeInv, UpdateExcludesResize, UpdateSteps, TakingSteps
<1> QED BY <1>1, ResizeInit, ResizeStep, TypeInvariant, PTL DEF Spec

-----------------------------------------------------------------------------
(* Pods are taken down one at a time, the primary last. *)

(* No update is under way at first. *)
LEMMA UpdateInit == Init => UpdateInv
  BY DEF Init, UpdateInv, TakingSteps

(***************************************************************************)
(* When as many pods exist and are ready as are wanted, and none is        *)
(* surplus, they are the pods wanted.                                      *)
(***************************************************************************)
LEMMA CountedPods ==
  ASSUME TypeInv, sts.revision # NoRevision, AllReady,
         Cardinality(Existing) = seen.replicas, ~Surplus
  PROVE  \A q \in Desired(seen.replicas) : Ready(q)
<1>1. seen.replicas \in 1 .. N
  BY DEF TypeInv, TypeOK, SpecType
<1>2. Existing \subseteq Desired(seen.replicas) /\ Desired(seen.replicas) \in SUBSET Pods
  BY DEF Surplus, Desired
<1>3. IsFiniteSet(Desired(seen.replicas)) /\ Cardinality(Desired(seen.replicas)) = seen.replicas
  BY <1>1, <1>2, PodSets
<1>4. ReadyPods \subseteq Existing
  BY DEF ReadyPods, Existing, Ready, Exists
<1>5. Cardinality(ReadyPods) = seen.replicas
  BY DEF AllReady, ReadyReplicas
<1>6. ReadyPods = Desired(seen.replicas)
  BY <1>2, <1>3, <1>4, <1>5, FS_Subset
<1> QED BY <1>6 DEF ReadyPods

(* A step that leaves the StatefulSet's replicas, the primary and the pods *)
(* alone, and does not start on a pod.                                     *)
LEMMA UpdateFrame ==
  ASSUME UpdateInv, UNCHANGED <<seen, rev, victim, pod>>,
         sts'.replicas = sts.replicas, sts'.template = sts.template,
         status'.primary = status.primary,
         pc' = pc \/ (pc \in TakingSteps /\ pc' \in TakingSteps)
  PROVE  UpdateInv'
<1>1. (Surplus' <=> Surplus) /\ Existing' = Existing
  BY DEF Surplus, Existing, Exists, Desired
<1> QED BY <1>1 DEF UpdateInv, TakingSteps, Desired

(* A step to one that is not about an update. *)
LEMMA UpdateElsewhere ==
  ASSUME pc' \notin {"Updates"} \cup TakingSteps
  PROVE  UpdateInv'
  BY DEF UpdateInv

(* The controller starts on a pod only when the others are up, and then    *)
(* leaves them alone.                                                      *)
LEMMA UpdateController ==
  ASSUME TypeInv, UpdateInv, Controller
  PROVE  UpdateInv'
<1> DEFINE Elsewhere == {"Idle", "Storage", "ResizePVCs", "DeleteSts", "RecreateSts",
                         "PatchWaiting", "WaitResize", "PreScaleDown", "StatefulSet",
                         "Poll", "Replication", "Switchover", "Switch"}
<1>a. ASSUME pc' \in Elsewhere PROVE UpdateInv'
  BY <1>a, UpdateElsewhere DEF TakingSteps
<1>1. ASSUME \/ StatusPhase \/ StoragePhase \/ ResizeInUsePVCs \/ DeleteStatefulSet
             \/ RecreateStatefulSet \/ PatchWaiting \/ WaitForStorageResize
             \/ PreScaleDown \/ DeletePod \/ PollUntilPodUpdated
             \/ ReplicationPhase \/ BeginSwitchover \/ Switch
      PROVE  pc' \in Elsewhere
  BY <1>1 DEF StatusPhase, StoragePhase, ResizeInUsePVCs, DeleteStatefulSet,
              RecreateStatefulSet, PatchWaiting, WaitForStorageResize, PreScaleDown,
              DeletePod, PollUntilPodUpdated, ReplicationPhase, BeginSwitchover, Switch,
              PatchStatus, GoTo, Return
<1>2. ASSUME StatefulSetPhase PROVE UpdateInv'
  <2>1. CASE sts' = Applied /\ GoTo("Updates")
    BY <2>1, AppliedType DEF GoTo, local, UpdateInv, TakingSteps
  <2>2. CASE Return
    BY <1>a, <2>2 DEF Return
  <2> QED BY <1>2, <2>1, <2>2 DEF StatefulSetPhase
<1>3. ASSUME ReconcileUpdates PROVE UpdateInv'
  <2>1. CASE GoTo("Replication") \/ Return
    BY <1>a, <2>1 DEF GoTo, Return
  <2>2. CASE /\ Cardinality(Existing) = seen.replicas /\ AllReady
             /\ sts.revision # NoRevision
             /\ rev' = sts.revision /\ victim' = NextVictim
             /\ pc' \in {"CaughtUp", "DeletePod"}
             /\ UNCHANGED <<seen, target>>
    <3>1. pc = "Updates" /\ UNCHANGED <<sts, pod, status>>
      BY <1>3 DEF ReconcileUpdates, cluster
    <3>2. sts'.replicas = seen'.replicas
      BY <2>2, <3>1 DEF UpdateInv
    <3>3. Surplus' \/ \A q \in Desired(seen'.replicas) : pod'[q].state \in {"Ready", "Failed"}
      BY <2>2, <3>1, CountedPods DEF Surplus, Existing, Exists, Ready, Desired
    <3>4. ASSUME victim' = status'.primary, NEW q \in Existing' \ {victim'}
          PROVE  pod'[q].rev = rev'
      <4>1. q \in Existing \ {status.primary}
        BY <3>1, <3>4 DEF Existing, Exists
      <4>2. Stale \ {status.primary} = {}
        <5>1. SUFFICES ASSUME Stale \ {status.primary} # {} PROVE FALSE
          OBVIOUS
        <5>2. Largest(Stale \ {status.primary}) \in Stale \ {status.primary}
          BY <5>1, LargestPod DEF Stale, Existing
        <5> QED BY <2>2, <3>1, <3>4, <5>1, <5>2 DEF NextVictim
      <4> QED BY <2>2, <3>1, <4>1, <4>2 DEF Stale
    <3> QED BY <3>2, <3>3, <3>4 DEF UpdateInv
  <2> QED BY <1>3, <2>1, <2>2 DEF ReconcileUpdates
<1>4. ASSUME WaitForReplicationCaughtUp \/ DemotePrimary \/ PromoteTarget PROVE UpdateInv'
  <2>1. pc \in TakingSteps /\ UNCHANGED <<sts, pod, status>>
    BY <1>4 DEF WaitForReplicationCaughtUp, DemotePrimary, PromoteTarget, cluster, TakingSteps
  <2>2. CASE pc' \in Elsewhere
    BY <1>a, <2>2
  <2>3. CASE pc' \in TakingSteps /\ UNCHANGED <<seen, rev, victim>>
    BY <2>1, <2>3, UpdateFrame
  <2> QED
    BY <1>4, <2>2, <2>3
       DEF WaitForReplicationCaughtUp, DemotePrimary, PromoteTarget, GoTo, Return, local,
           TakingSteps
<1> QED BY <1>a, <1>1, <1>2, <1>3, <1>4 DEF Controller

(***************************************************************************)
(* Kubernetes removes a surplus pod only when all the others are ready,    *)
(* and creates pods from the template.                                     *)
(***************************************************************************)
LEMMA UpdateEnvironment ==
  ASSUME TypeInv, UpdateInv,
         Kubernetes \/ EditSpec \/ OperatorRestart \/ \E p \in Pods : PodFails(p)
  PROVE  UpdateInv'
<1>a. pod \in [Pods -> PodType] /\ sts \in StatefulSet
  BY DEF TypeInv, TypeOK
<1>1. ASSUME ObserveTemplate \/ CollectStatefulSet \/ ResizeVolumes \/ EditSpec
      PROVE  UpdateInv'
  <2>1. /\ UNCHANGED <<seen, rev, victim, pod, status, pc>>
        /\ sts'.replicas = sts.replicas /\ sts'.template = sts.template
    BY <1>1, <1>a DEF ObserveTemplate, CollectStatefulSet, ResizeVolumes, EditSpec,
                      local, cluster, StatefulSet
  <2> QED BY <2>1, UpdateFrame
<1>2. ASSUME OperatorRestart PROVE UpdateInv'
  BY <1>2, UpdateElsewhere DEF OperatorRestart, Return, TakingSteps
<1>3. ASSUME NEW p \in Pods, UNCHANGED <<seen, rev, victim, status, sts, pc>>,
             \/ CreatePod(p) \/ RemovePod(p) \/ PodBecomesReady(p) \/ PodFails(p)
      PROVE  UpdateInv'
  <2> SUFFICES ASSUME pc \in TakingSteps, sts.replicas = seen.replicas
               PROVE  /\ \/ Surplus'
                         \/ \A q \in Desired(seen.replicas) : pod'[q].state \in {"Ready", "Failed"}
                      /\ victim = status.primary =>
                           \A q \in Existing' \ {victim} : pod'[q].rev \in {rev, sts.template}
    BY <1>3 DEF UpdateInv, Desired, TakingSteps
  <2>1. \/ Surplus
        \/ \A q \in Desired(seen.replicas) : pod[q].state \in {"Ready", "Failed"}
    BY DEF UpdateInv
  <2>2. victim = status.primary => \A q \in Existing \ {victim} : pod[q].rev \in {rev, sts.template}
    BY DEF UpdateInv
  <2>3. CASE CreatePod(p)
    <3>1. pod[p].state = "Absent"
          /\ pod' = [pod EXCEPT ![p] = [state |-> "Starting", rev |-> sts.template]]
      BY <2>3 DEF CreatePod, Exists
    <3>2. pod'[p].state = "Starting" /\ pod'[p].rev = sts.template
          /\ \A q \in Pods : q # p => pod'[q] = pod[q]
      BY <1>a, <3>1
    <3>3. Surplus => Surplus'
      BY <1>3, <3>1, <3>2 DEF Surplus, Existing, Exists, Desired
    <3>4. ASSUME ~Surplus
          PROVE  \A q \in Desired(seen.replicas) : pod'[q].state \in {"Ready", "Failed"}
      BY <2>1, <3>1, <3>2, <3>4 DEF Desired
    <3> QED BY <2>2, <3>2, <3>3, <3>4 DEF Existing, Exists
  <2>4. CASE RemovePod(p)
    <3>1. /\ p \notin Desired(seen.replicas) /\ Desired(seen.replicas) \subseteq ReadyPods
          /\ pod' = [pod EXCEPT ![p] = NoPodHere]
      <4>1. p \in Nat /\ sts.replicas \in Nat /\ ~(p < sts.replicas)
        BY <1>a, <2>4, PodsFacts DEF RemovePod, StatefulSet
      <4> QED BY <2>4, <4>1 DEF RemovePod, Desired
    <3>2. \A q \in Pods : q # p => pod'[q] = pod[q]
      BY <1>a, <3>1
    <3>3. \A q \in Desired(seen.replicas) : pod'[q].state = "Ready"
      BY <3>1, <3>2 DEF ReadyPods, Ready, Desired
    <3>4. pod'[p].state = "Absent"
      BY <1>a, <3>1 DEF NoPodHere
    <3> QED BY <2>2, <3>2, <3>3, <3>4 DEF Existing, Exists
  <2>5. CASE PodBecomesReady(p) \/ PodFails(p)
    <3>1. \A q \in Pods : /\ pod'[q].rev = pod[q].rev
                          /\ pod'[q].state = pod[q].state
                             \/ (pod'[q].state \in {"Ready", "Failed"} /\ pod[q].state # "Absent")
      BY <1>a, <2>5 DEF PodBecomesReady, PodFails, Ready, PodType
    <3>2. Existing' = Existing
      BY <3>1 DEF Existing, Exists
    <3>3. Surplus' <=> Surplus
      BY <1>3, <3>2 DEF Surplus, Desired
    <3> QED BY <2>1, <2>2, <3>1, <3>2, <3>3 DEF Desired, Existing
  <2> QED BY <1>3, <2>3, <2>4, <2>5
<1>4. ASSUME NEW p \in Pods, CreatePod(p) \/ RemovePod(p) \/ PodBecomesReady(p) \/ PodFails(p)
      PROVE  UNCHANGED <<seen, rev, victim, status, sts, pc>>
  BY <1>4 DEF CreatePod, RemovePod, PodBecomesReady, PodFails, local
<1> QED BY <1>1, <1>2, <1>3, <1>4 DEF Kubernetes

(* Every step keeps what the update goes by. *)
LEMMA UpdateStep == TypeInv /\ UpdateInv /\ [Next]_vars => UpdateInv'
<1>1. ASSUME UpdateInv, UNCHANGED vars PROVE UpdateInv'
  BY <1>1, UpdateFrame DEF vars, local, cluster
<1> QED BY <1>1, UpdateController, UpdateEnvironment DEF Next

(* What goes down while the operator is about to take a pod down is that   *)
(* pod, or a surplus one.                                                  *)
LEMMA WhatGoesDown ==
  ASSUME TypeInv, UpdateInv, [Next]_vars, NEW p \in Pods, OperatorDeletes(p), ~Surplus
  PROVE  p = victim
<1>a. /\ pc = "DeletePod" /\ Exists(p) /\ pod'[p].state = "Absent" /\ pod'[p] # pod[p]
      /\ pod \in [Pods -> PodType] /\ sts.replicas = seen.replicas
      /\ p \in Nat /\ sts.replicas \in Nat
  BY PodsFacts DEF OperatorDeletes, Exists, UpdateInv, TakingSteps, TypeInv, TypeOK, StatefulSet
<1>1. CASE \E q \in Pods : RemovePod(q)
  <2>1. PICK q \in Pods : RemovePod(q)
    BY <1>1
  <2>2. q = p
    BY <1>a, <2>1 DEF RemovePod
  <2>3. p \in Existing \ Desired(seen.replicas)
    BY <1>a, <2>1, <2>2 DEF RemovePod, Existing, Desired
  <2> QED BY <2>3 DEF Surplus
<1>2. CASE \E q \in Pods : CreatePod(q) \/ PodBecomesReady(q) \/ PodFails(q)
  BY <1>a, <1>2 DEF CreatePod, PodBecomesReady, PodFails, Exists, PodType
<1>3. CASE DeletePod
  BY <1>a, <1>3 DEF DeletePod
<1>4. CASE pod' = pod
  BY <1>a, <1>4
<1>5. ASSUME Controller PROVE DeletePod
  BY <1>a, <1>5 DEF Controller, StatusPhase, StoragePhase, ResizeInUsePVCs, DeleteStatefulSet,
       RecreateStatefulSet, PatchWaiting, WaitForStorageResize, PreScaleDown,
       StatefulSetPhase, ReconcileUpdates, WaitForReplicationCaughtUp, DemotePrimary,
       PromoteTarget, PollUntilPodUpdated, ReplicationPhase, BeginSwitchover, Switch
<1>6. ASSUME \/ ObserveTemplate \/ CollectStatefulSet \/ ResizeVolumes \/ EditSpec
             \/ OperatorRestart \/ UNCHANGED vars
      PROVE  pod' = pod
  BY <1>6 DEF ObserveTemplate, CollectStatefulSet, ResizeVolumes, EditSpec,
              OperatorRestart, vars, cluster
<1> QED BY <1>1, <1>2, <1>3, <1>4, <1>5, <1>6 DEF Next, Kubernetes

(***************************************************************************)
(* The operator takes a pod down only while every other pod of the cluster *)
(* is ready or has failed by itself, unless a scale-down is under way: for *)
(* any number of pods, and whatever Kubernetes, users and faults do after  *)
(* it counted them.                                                        *)
(***************************************************************************)
THEOREM PodsGoDownOneAtATime == Spec => OneDownAtATime
<1>1. TypeInv /\ UpdateInv /\ [Next]_vars =>
        [\A p \in Pods : OperatorDeletes(p) /\ ~Surplus =>
           \A q \in Desired(seen.replicas) \ {p} : pod[q].state \in {"Ready", "Failed"}]_vars
  BY DEF OperatorDeletes, UpdateInv, TakingSteps
<1> QED BY <1>1, UpdateInit, UpdateStep, TypeInvariant, PTL DEF Spec, OneDownAtATime

(***************************************************************************)
(* The pod that the status names as the primary is taken down last: when   *)
(* the operator takes it down every other pod runs the revision rolled out *)
(* or a newer one, unless a scale-down is under way.                       *)
(***************************************************************************)
THEOREM PrimaryGoesDownLast == Spec => PrimaryLast
<1>1. TypeInv /\ UpdateInv /\ [Next]_vars =>
        [OperatorDeletes(status.primary) /\ ~Surplus =>
           \A q \in Desired(seen.replicas) \ {status.primary} :
             pod[q].rev \in {rev, sts.template}]_vars
  <2> SUFFICES ASSUME TypeInv, UpdateInv, [Next]_vars,
                      OperatorDeletes(status.primary), ~Surplus,
                      NEW q \in Desired(seen.replicas) \ {status.primary}
               PROVE  pod[q].rev \in {rev, sts.template}
    OBVIOUS
  <2>1. victim = status.primary
    <3>1. status.primary \in Pods
      BY DEF TypeInv, TypeOK, StatusType
    <3> QED BY <3>1, WhatGoesDown
  <2>2. pc \in TakingSteps
    BY DEF OperatorDeletes, TakingSteps
  <2>3. q \in Existing
    BY <2>2 DEF UpdateInv, Existing, Exists, Desired
  <2> QED BY <2>1, <2>2, <2>3 DEF UpdateInv
<1> QED BY <1>1, UpdateInit, UpdateStep, TypeInvariant, PTL DEF Spec, PrimaryLast

============================================================================
