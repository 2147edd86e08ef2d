------------------------------ MODULE Rollout ------------------------------
(***************************************************************************)
(* How a change of the DoltDB resource reaches its pods: the phases of the *)
(* DoltDB controller that resize the volumes, guard a scale-down, apply    *)
(* the StatefulSet and update the pods one by one, replicas first, and     *)
(* what they make of the primary.  The switchover itself is detailed in    *)
(* Switchover; here it is two steps, either of which may fail.  Only the   *)
(* operator writes the status, so there is one copy of it; users edit the  *)
(* spec at any time, so the controller works on a copy that its patches    *)
(* refresh.  The update strategy is ReplicasFirstPrimaryLast, the default; *)
(* automatic failover is off (by default it is on): Switchover has it.     *)
(***************************************************************************)
EXTENDS PrimarySelection, DoltServer

CONSTANTS
  Modes,        \* the values of spec.replication.enabled to look at
  BootIndices,  \* the pods that may be primary to begin with
  Scopes,       \* the sets of fields of the spec that users may edit
  MaxTemplate,  \* bound on the versions of the pod template
  MaxSize,      \* bound on the storage size
  MaxEdits,     \* bound on edits by users
  MaxFaults     \* bound on failed calls, restarts and pod failures

Fields == {"template", "size", "replicas", "podIndex"}

ASSUME RolloutAssumption ==
  /\ Modes \subseteq BOOLEAN
  /\ BootIndices \subseteq Pods
  /\ Scopes \subseteq SUBSET Fields
  /\ {MaxTemplate, MaxSize} \subseteq Nat \ {0}
  /\ {MaxEdits, MaxFaults} \subseteq Nat

VARIABLES
  replication,  \* spec.replication.enabled
  scope,        \* the fields that users edit
  spec,         \* the rest of the spec, in the API server
  seen,         \* the controller's copy of it
  status,       \* the status, in the API server and in the controller
  pc,           \* the next phase or step of the controller
  rev,          \* the revision that reconcileUpdates rolls out
  victim,       \* the pod it is about to update
  target,       \* the pod gracefulPrimaryUpdate promotes instead
  sts,          \* the StatefulSet
  pod,          \* the pods: state and revision
  vol,          \* their volume claims: requested size and progress
  server,       \* their Dolt servers: role and epoch
  edits,        \* edits so far
  faults        \* faults so far

input == <<replication, scope, edits>>
local == <<seen, rev, victim, target>>
cluster == <<sts, pod, vol, server>>
vars == <<spec, status, pc, faults, input, local, cluster>>

-----------------------------------------------------------------------------
(* The state of the cluster. *)

(* A revision of the pod template: the ConfigMap, whose hash it contains,  *)
(* lists the peers of each server, so that it changes with the replicas.   *)
Revision(s) == <<s.template, s.replicas>>
Revisions == (1 .. MaxTemplate) \X (1 .. N)
NoRevision == <<0, 0>>

SpecType ==
  [template : 1 .. MaxTemplate, size : 1 .. MaxSize, replicas : 1 .. N, podIndex : Pods]

StatusType ==
  [primary   : Pods,                                      \* currentPrimaryPodIndex
   epoch     : Nat,                                       \* replicationEpoch
   repl      : [Pods -> {"absent", "primary", "standby"}],
   updated   : {"Updated", "Pending", "Updating"},
   storage   : {"Settled", "Resizing", "Waiting"},        \* StorageResized
   switching : BOOLEAN]                                   \* PrimarySwitched False

(* `revision' is status.updateRevision, `template' the one of the spec. *)
StatefulSet ==
  [life     : {"live", "deleting", "gone"},
   template : Revisions,
   revision : Revisions \cup {NoRevision},
   size     : 1 .. MaxSize,
   replicas : 1 .. N]

PodType == [state : {"Absent", "Starting", "Ready", "Failed"},
            rev   : Revisions \cup {NoRevision}]

NoPodHere == [state |-> "Absent", rev |-> NoRevision]

Exists(p) == pod[p].state # "Absent"
Ready(p) == pod[p].state = "Ready"
Existing == {p \in Pods : Exists(p)}
ReadyPods == {p \in Pods : Ready(p)}
Desired(n) == {p \in Pods : p < n}

(* A StatefulSet whose controller has not looked at it reports no pods. *)
ReadyReplicas == IF sts.revision = NoRevision THEN 0 ELSE Cardinality(ReadyPods)

IsUpdating == status.updated = "Updating"
IsResizingStorage == status.storage \in {"Resizing", "Waiting"}

-----------------------------------------------------------------------------
(* Steps of the controller. *)

Fault == faults < MaxFaults /\ faults' = faults + 1

GoTo(step) == pc' = step /\ UNCHANGED local

NoSpec == [template |-> 1, size |-> 1, replicas |-> N, podIndex |-> 0]

(* The reconciliation ends; it is repeated upon the next event, after an   *)
(* interval or, after an error, with the back-off of the queue.            *)
Return ==
  /\ pc' = "Idle"
  /\ seen' = NoSpec /\ rev' = NoRevision /\ victim' = NoPod /\ target' = NoPod

(* A patch of the status, whose response refreshes the copy of the spec. *)
PatchStatus(new, step) ==
  \/ /\ status' = new
     /\ seen' = spec
     /\ pc' = step
     /\ UNCHANGED <<rev, victim, target, faults>>
  \/ /\ Fault
     /\ status' \in {status, new}
     /\ Return

(* A spec that enables replication for a single pod is refused. *)
InvalidSpec == replication /\ spec.replicas = 1

ObservedRole(p) ==
  IF ~Ready(p) \/ p \notin Desired(spec.replicas) THEN "absent"
  ELSE IF server[p].role = "primary" /\ status.primary # p THEN "absent"
  ELSE server[p].role

ObservedEpoch ==
  Largest({status.epoch} \cup {server[p].epoch : p \in ReadyPods \cap Desired(spec.replicas)})

(* Mutant: a StatefulSet that is not there leaves the condition Unknown. *)
UpdatedConditionUnknown ==
  IF sts.life = "gone" \/ sts.revision = NoRevision THEN "Unknown" ELSE status.updated

(* setUpdatedCondition *)
UpdatedCondition ==
  LET updated == Cardinality({p \in Existing : pod[p].rev = sts.revision}) IN
  IF sts.life = "gone" \/ sts.revision = NoRevision THEN status.updated
  ELSE IF updated >= spec.replicas THEN "Updated"
  ELSE IF updated > 0 THEN "Updating"
  ELSE "Pending"

(***************************************************************************)
(* The resource is read and, unless its spec is invalid, the Status phase  *)
(* patches it.  While the storage is resized or the primary switched, the  *)
(* condition Updated stays what it is.                                     *)
(***************************************************************************)
StatusPhase ==
  LET observed == IF replication
                    THEN [status EXCEPT !.repl  = [p \in Pods |-> ObservedRole(p)],
                                        !.epoch = ObservedEpoch]
                    ELSE status
  IN
  /\ pc = "Idle" /\ ~InvalidSpec
  /\ PatchStatus([observed EXCEPT !.updated = IF IsResizingStorage \/ status.switching
                                              THEN @ ELSE UpdatedCondition],
                 "Storage")
  /\ UNCHANGED <<spec, input, cluster>>

-----------------------------------------------------------------------------
(* The Storage phase. *)

(* Mutant: a resize may start in the middle of an update. *)
ShouldReconcileStorageWhenever == ~status.switching

ShouldReconcileStorage == ~IsUpdating /\ ~status.switching

(***************************************************************************)
(* A larger size starts a resize.  A smaller one is an error, which keeps  *)
(* the later phases from running.                                          *)
(***************************************************************************)
StoragePhase ==
  /\ pc = "Storage"
  /\ \/ /\ ~ShouldReconcileStorage
        /\ GoTo("PreScaleDown") /\ UNCHANGED <<status, faults>>
     \/ /\ ShouldReconcileStorage /\ status.storage = "Waiting"
        /\ GoTo("WaitResize") /\ UNCHANGED <<status, faults>>
     \/ /\ ShouldReconcileStorage /\ status.storage # "Waiting"
        /\ \/ /\ sts.life = "gone" \/ seen.size = sts.size
              /\ GoTo("PreScaleDown") /\ UNCHANGED <<status, faults>>
           \/ /\ sts.life # "gone" /\ seen.size < sts.size
              /\ Return /\ UNCHANGED <<status, faults>>
           \/ /\ sts.life # "gone" /\ seen.size > sts.size
              /\ PatchStatus([status EXCEPT !.storage = "Resizing"], "ResizePVCs")
  /\ UNCHANGED <<spec, input, cluster>>

(* The claims of the pods there have been; a request cannot be lowered. *)
Request(S) ==
  vol' = [size  |-> [p \in Pods |-> IF p \in S /\ vol.size[p] < seen.size
                                      THEN seen.size ELSE vol.size[p]],
          state |-> IF \E p \in S : vol.size[p] < seen.size THEN "Asked" ELSE vol.state]

ResizeInUsePVCs ==
  LET refused == \E p \in Pods : vol.size[p] > seen.size IN
  /\ pc = "ResizePVCs"
  /\ \/ ~refused /\ Request(Pods) /\ GoTo("DeleteSts") /\ UNCHANGED faults
     \/ (\E S \in SUBSET Pods : Request(S)) /\ Return
        /\ IF refused THEN UNCHANGED faults ELSE Fault
  /\ UNCHANGED <<spec, status, input, sts, pod, server>>

(* resizeStatefulSet, first half: the pods are left behind. *)
DeleteStatefulSet ==
  /\ pc = "DeleteSts"
  /\ \/ sts.life # "gone" /\ sts' = [sts EXCEPT !.life = "deleting"]
        /\ GoTo("RecreateSts") /\ UNCHANGED faults
     \/ sts.life = "gone" /\ Return /\ UNCHANGED <<sts, faults>>
     \/ Fault /\ Return /\ UNCHANGED sts
  /\ UNCHANGED <<spec, status, input, pod, vol, server>>

(* ReconcileWithUpdates: the volume claim templates are only set when the  *)
(* StatefulSet is created.                                                 *)
Applied ==
  IF sts.life = "gone"
    THEN [life |-> "live", template |-> Revision(seen), revision |-> NoRevision,
          size |-> seen.size, replicas |-> seen.replicas]
    ELSE [sts EXCEPT !.template = Revision(seen), !.replicas = seen.replicas]

(* resizeStatefulSet, second half.  The updates that reconcileStatefulSet  *)
(* goes on to are skipped while the storage is resized.                    *)
RecreateStatefulSet ==
  /\ pc = "RecreateSts"
  /\ \/ sts' = Applied /\ GoTo("PatchWaiting") /\ UNCHANGED faults
     \/ sts' \in {sts, Applied} /\ Return /\ Fault
  /\ UNCHANGED <<spec, status, input, pod, vol, server>>

PatchWaiting ==
  /\ pc = "PatchWaiting"
  /\ PatchStatus([status EXCEPT !.storage = "Waiting"], "WaitResize")
  /\ UNCHANGED <<spec, input, cluster>>

WaitForStorageResize ==
  LET resizing == vol.state = "Resizing" IN
  /\ pc = "WaitResize"
  /\ \/ /\ ~resizing /\ sts.life = "gone"
        /\ GoTo("PreScaleDown") /\ UNCHANGED <<status, faults>>
     \/ /\ resizing \/ (sts.life # "gone" /\ ReadyReplicas # seen.replicas)
        /\ Return /\ UNCHANGED <<status, faults>>
     \/ /\ ~resizing /\ sts.life # "gone" /\ ReadyReplicas = seen.replicas
        /\ PatchStatus([status EXCEPT !.storage = "Settled"], "PreScaleDown")
  /\ UNCHANGED <<spec, input, cluster>>

-----------------------------------------------------------------------------
(* The PreScaleDown and StatefulSet phases. *)

WouldDeletePrimary == status.primary >= seen.replicas

(* A scale-down that would delete the primary asks for a switchover first. *)
PreScaleDown ==
  LET blocked == /\ replication
                 /\ sts.life # "gone" /\ seen.replicas < sts.replicas
                 /\ WouldDeletePrimary
  IN
  /\ pc = "PreScaleDown"
  /\ \/ ~blocked /\ GoTo("StatefulSet") /\ UNCHANGED <<spec, faults>>
     \/ /\ blocked
        /\ spec' = IF seen.podIndex # 0 THEN [spec EXCEPT !.podIndex = 0] ELSE spec
        /\ Return /\ UNCHANGED faults
     \/ blocked /\ Fault /\ Return /\ UNCHANGED spec
  /\ UNCHANGED <<status, input, cluster>>

StatefulSetPhase ==
  /\ pc = "StatefulSet"
  /\ \/ sts' = Applied /\ GoTo("Updates") /\ UNCHANGED faults
     \/ sts' \in {sts, Applied} /\ Return /\ Fault
  /\ UNCHANGED <<spec, status, input, pod, vol, server>>

(* Mutant: only an update that the status shows under way is continued. *)
ShouldReconcileUpdatesMarked == IsUpdating /\ ~IsResizingStorage /\ ~status.switching

ShouldReconcileUpdates == ~IsResizingStorage /\ ~status.switching

Stale == {p \in Existing : pod[p].rev # sts.revision}

(* Mutant: the pods that are not ready are not waited for. *)
AllReadyUnchecked == TRUE

(* waitForReadyStatus *)
AllReady == ReadyReplicas = seen.replicas

(* Mutant: the pods are updated in the order of their names. *)
NextVictimAnyRole == Largest(Stale)

(* The stale replica that sorts last, or else the primary. *)
NextVictim ==
  IF Stale \ {status.primary} # {} THEN Largest(Stale \ {status.primary})
  ELSE status.primary

ReconcileUpdates ==
  LET counted == Cardinality(Existing) = seen.replicas /\ status.primary \in Existing
      rolling == ShouldReconcileUpdates /\ sts.life # "gone" /\ sts.revision # NoRevision
      go      == rolling /\ counted /\ Stale # {} /\ AllReady
  IN
  /\ pc = "Updates"
  /\ \/ /\ \/ ~ShouldReconcileUpdates \/ sts.life = "gone"
           \/ rolling /\ counted /\ Stale = {}
        /\ GoTo("Replication")
     \/ /\ ShouldReconcileUpdates /\ sts.life # "gone"
        /\ \/ sts.revision = NoRevision \/ ~counted
           \/ Stale # {} /\ ~AllReady
        /\ Return
     \/ /\ go
        /\ rev' = sts.revision
        /\ victim' = NextVictim
        /\ pc' = IF replication /\ victim' = status.primary THEN "CaughtUp" ELSE "DeletePod"
        /\ UNCHANGED <<seen, target>>
  /\ UNCHANGED <<spec, status, faults, input, cluster>>

-----------------------------------------------------------------------------
(* The update of one pod. *)

(***************************************************************************)
(* The pod that gracefulPrimaryUpdate connects to when TransitionToStandby *)
(* picked standby c: it takes the position of c among the healthy standbys *)
(* for the index of a pod.                                                 *)
(***************************************************************************)
PodOfHost(hosts, c) == Cardinality({q \in hosts : q < c})

(* waitForReplicationCaughtUp: a lag or an error is waited out. *)
WaitForReplicationCaughtUp ==
  /\ pc = "CaughtUp"
  /\ \/ /\ ~IsReplicationConfigured(status.repl)
        /\ GoTo("Replication") /\ UNCHANGED faults
     \/ /\ IsReplicationConfigured(status.repl)
        /\ IF ReadyPods \ {victim} = {} THEN Return ELSE GoTo("Demote")
        /\ UNCHANGED faults
     \/ Fault /\ Return
  /\ UNCHANGED <<spec, status, input, cluster>>

DemoteServer(p) ==
  server' = [server EXCEPT ![p] = [role |-> "standby", epoch |-> @.epoch + 1]]

(***************************************************************************)
(* gracefulPrimaryUpdate demotes the primary.  Any failure, be it a        *)
(* transition whose answer is lost, makes it delete the pod directly.      *)
(***************************************************************************)
DemotePrimary ==
  LET hosts    == ReadyPods \ {victim}
      standbys == {q \in hosts : server[q].role = "standby"}
      accepts  == /\ Ready(victim)
                  /\ AcceptsTransition(server[victim].role, server[victim].epoch,
                                       server[victim].epoch + 1, standbys)
  IN
  /\ pc = "Demote"
  /\ \/ /\ accepts /\ DemoteServer(victim)
        /\ \E c \in standbys : target' = PodOfHost(hosts, c)
        /\ pc' = "Promote"
        /\ UNCHANGED <<seen, rev, victim, faults>>
     \/ ~accepts /\ GoTo("DeletePod") /\ UNCHANGED <<server, faults>>
     \/ /\ accepts /\ Fault /\ GoTo("DeletePod")
        /\ DemoteServer(victim) \/ UNCHANGED server
  /\ UNCHANGED <<spec, status, input, sts, pod, vol>>

(* The promotion, at the epoch of the demotion, and the two role labels. *)
PromoteTarget ==
  LET e == server[victim].epoch
      promoted == [server EXCEPT ![target] = [role |-> "primary", epoch |-> e]]
      accepts  == /\ Exists(target)
                  /\ AcceptsRole(server[target].role, server[target].epoch, "primary", e)
  IN
  /\ pc = "Promote"
  /\ \/ accepts /\ server' = promoted /\ GoTo("DeletePod") /\ UNCHANGED faults
     \/ accepts /\ server' \in {server, promoted} /\ Fault /\ Return
     \/ ~accepts /\ UNCHANGED <<server, faults>> /\ Return
  /\ UNCHANGED <<spec, status, input, sts, pod, vol>>

(* The preStop hook of a pod that terminates: best effort. *)
StopServer(p) ==
  \/ UNCHANGED server
  \/ /\ replication /\ server[p].role = "primary"
     /\ \E q \in ReadyPods \ {p} : server[q].role = "standby"
     /\ DemoteServer(p)

(* updatePod: the pod is deleted, and waited for up to a minute. *)
DeletePod ==
  /\ pc = "DeletePod"
  /\ \/ /\ Exists(victim)
        /\ pod' = [pod EXCEPT ![victim] = NoPodHere]
        /\ StopServer(victim)
        /\ GoTo("Poll") /\ UNCHANGED faults
     \/ ~Exists(victim) /\ Return /\ UNCHANGED <<pod, server, faults>>
     \/ Exists(victim) /\ Fault /\ Return /\ UNCHANGED <<pod, server>>
  /\ UNCHANGED <<spec, status, input, sts, vol>>

PollUntilPodUpdated ==
  /\ pc = "Poll"
  /\ IF pod[victim].rev = rev /\ victim = status.primary
       THEN GoTo("Replication") ELSE Return
  /\ UNCHANGED <<spec, status, faults, input, cluster>>

-----------------------------------------------------------------------------
(* The Replication phase. *)

(***************************************************************************)
(* A healthy cluster has the pods missing from the status configured, in   *)
(* order, at the recorded epoch; the first refusal ends it.                *)
(***************************************************************************)
ReplicationPhase ==
  LET RoleOf(p) == IF p = status.primary THEN "primary" ELSE "standby"
      todo      == {p \in Desired(seen.replicas) : status.repl[p] = "absent"}
      refused   == {p \in todo : ~AcceptsRole(server[p].role, server[p].epoch,
                                              RoleOf(p), status.epoch)}
      done      == {p \in todo : \A q \in refused : p < q}
      healthy   == sts.life # "gone" /\ ReadyReplicas = seen.replicas
                   /\ Desired(seen.replicas) \subseteq ReadyPods
  IN
  /\ pc = "Replication"
  /\ \/ /\ ~replication \/ (~status.switching /\ ~healthy)
        /\ Return /\ UNCHANGED server
     \/ replication /\ status.switching /\ GoTo("Switchover") /\ UNCHANGED server
     \/ /\ replication /\ ~status.switching /\ healthy
        /\ server' = [p \in Pods |-> IF p \in done
                                       THEN [role |-> RoleOf(p), epoch |-> status.epoch]
                                       ELSE server[p]]
        /\ IF refused = {} THEN GoTo("Switchover") ELSE Return
  /\ UNCHANGED <<spec, status, faults, input, sts, pod, vol>>

ShouldReconcileSwitchover == ~IsResizingStorage /\ status.primary # seen.podIndex

BeginSwitchover ==
  /\ pc = "Switchover"
  /\ \/ ~ShouldReconcileSwitchover /\ Return /\ UNCHANGED <<status, faults>>
     \/ /\ ShouldReconcileSwitchover
        /\ PatchStatus([status EXCEPT !.switching = TRUE], "Switch")
  /\ UNCHANGED <<spec, input, cluster>>

(***************************************************************************)
(* The phases of the switchover: the primary that the status names is      *)
(* demoted, unless it cannot be reached or is standby already, and the     *)
(* requested one promoted at an epoch after those of the servers that      *)
(* answer; then traffic is shifted through the primary found at first, and *)
(* the new one is recorded.  A failure leaves what was done behind, with   *)
(* PrimarySwitched False; but when the last patch fails, the report of the *)
(* failure withdraws that too.                                             *)
(***************************************************************************)
Switch ==
  LET states   == [p \in Pods |-> IF Ready(p) THEN server[p] ELSE [role |-> "", epoch |-> 0]]
      found    == CurrentPrimaryAndEpoch(states)
      e        == (IF found.ok THEN found.epoch ELSE status.epoch) + 1
      from     == IF found.ok THEN found.primary ELSE status.primary
      old      == status.primary
      standbys == {q \in ReadyPods \ {old} : server[q].role = "standby"}
      demotes  == Ready(old) /\ AcceptsTransition(server[old].role, server[old].epoch, e, standbys)
      demoted  == IF demotes THEN [server EXCEPT ![old] = [role |-> "standby", epoch |-> e]]
                  ELSE server
      promotes == /\ demotes \/ (Exists(old) /\ states[old].role # "primary")
                  /\ Ready(seen.podIndex)
                  /\ AcceptsRole(demoted[seen.podIndex].role, demoted[seen.podIndex].epoch,
                                 "primary", e)
      promoted == IF promotes
                    THEN [demoted EXCEPT ![seen.podIndex] = [role |-> "primary", epoch |-> e]]
                    ELSE demoted
      done     == promotes /\ Ready(from)
  IN
  /\ pc = "Switch"
  /\ \/ /\ done
        /\ server' = promoted
        /\ status' = [status EXCEPT !.primary = seen.podIndex, !.switching = FALSE,
                                    !.epoch = Largest({@, e})]
        /\ UNCHANGED faults
     \/ ~done /\ server' = promoted /\ UNCHANGED <<status, faults>>
     \/ Fault /\ server' \in {server, demoted, promoted} /\ UNCHANGED status
     \/ done /\ Fault /\ server' = promoted /\ status' = [status EXCEPT !.switching = FALSE]
  /\ Return
  /\ UNCHANGED <<spec, input, sts, pod, vol>>

Controller ==
  \/ StatusPhase
  \/ StoragePhase \/ ResizeInUsePVCs \/ DeleteStatefulSet \/ RecreateStatefulSet
  \/ PatchWaiting \/ WaitForStorageResize
  \/ PreScaleDown \/ StatefulSetPhase \/ ReconcileUpdates
  \/ WaitForReplicationCaughtUp \/ DemotePrimary \/ PromoteTarget
  \/ DeletePod \/ PollUntilPodUpdated
  \/ ReplicationPhase \/ BeginSwitchover \/ Switch

-----------------------------------------------------------------------------
(* Kubernetes, users and the operator process. *)

(* The StatefulSet controller notices a new template. *)
ObserveTemplate ==
  /\ sts.life = "live" /\ sts.revision # sts.template
  /\ sts' = [sts EXCEPT !.revision = sts.template]
  /\ UNCHANGED <<spec, status, pc, faults, input, local, pod, vol, server>>

(* It creates pods in order, each once its predecessors are ready, ... *)
CreatePod(p) ==
  /\ sts.life = "live" /\ p < sts.replicas /\ ~Exists(p)
  /\ \A q \in Desired(p) : Ready(q)
  /\ pod' = [pod EXCEPT ![p] = [state |-> "Starting", rev |-> sts.template]]
  /\ UNCHANGED <<spec, status, pc, faults, input, local, sts, vol, server>>

(* ... and removes those that are too many in the opposite order. *)
RemovePod(p) ==
  /\ sts.life = "live" /\ p >= sts.replicas
  /\ Exists(p) /\ \A q \in Existing : q <= p
  /\ Desired(sts.replicas) \subseteq ReadyPods
  /\ pod' = [pod EXCEPT ![p] = NoPodHere]
  /\ StopServer(p)
  /\ UNCHANGED <<spec, status, pc, faults, input, local, sts, vol>>

PodBecomesReady(p) ==
  /\ pod[p].state \in {"Starting", "Failed"}
  /\ pod' = [pod EXCEPT ![p].state = "Ready"]
  /\ UNCHANGED <<spec, status, pc, faults, input, local, sts, vol, server>>

PodFails(p) ==
  /\ Ready(p) /\ Fault
  /\ pod' = [pod EXCEPT ![p].state = "Failed"]
  /\ UNCHANGED <<spec, status, pc, input, local, sts, vol, server>>

(* The volumes are resized some time after their claims ask for it. *)
ResizeVolumes ==
  /\ vol.state \in {"Asked", "Resizing"}
  /\ vol' = [vol EXCEPT !.state = IF @ = "Asked" THEN "Resizing" ELSE "Settled"]
  /\ UNCHANGED <<spec, status, pc, faults, input, local, sts, pod, server>>

(* The garbage collector ends the deletion of a StatefulSet. *)
CollectStatefulSet ==
  /\ sts.life = "deleting"
  /\ sts' = [sts EXCEPT !.life = "gone"]
  /\ UNCHANGED <<spec, status, pc, faults, input, local, pod, vol, server>>

Kubernetes ==
  \/ ObserveTemplate \/ CollectStatefulSet \/ ResizeVolumes
  \/ \E p \in Pods : CreatePod(p) \/ RemovePod(p) \/ PodBecomesReady(p)

EditSpec ==
  /\ edits < MaxEdits
  /\ \E new \in SpecType :
       /\ new # spec
       /\ \A f \in Fields : new[f] # spec[f] => f \in scope
       /\ new.podIndex # spec.podIndex => new.podIndex < new.replicas
       /\ spec' = new
  /\ edits' = edits + 1
  /\ UNCHANGED <<status, pc, faults, replication, scope, local, cluster>>

OperatorRestart ==
  /\ pc # "Idle" /\ Fault
  /\ Return
  /\ UNCHANGED <<spec, status, input, cluster>>

(* A cluster of N pods at rest; without replication its primary is pod 0. *)
Init ==
  \E b \in BootIndices \cup {0} :
    /\ replication \in Modes
    /\ IF replication THEN b \in BootIndices ELSE b = 0
    /\ scope \in Scopes
    /\ spec = [NoSpec EXCEPT !.podIndex = b]
    /\ seen = NoSpec /\ pc = "Idle" /\ rev = NoRevision
    /\ victim = NoPod /\ target = NoPod
    /\ server = [p \in Pods |-> [role  |-> IF p = b THEN "primary" ELSE "standby",
                                 epoch |-> 1]]
    /\ status = [primary |-> b, epoch |-> 1,
                 repl |-> [p \in Pods |-> server[p].role],
                 updated |-> "Updated", storage |-> "Settled", switching |-> FALSE]
    /\ sts = [life |-> "live", template |-> Revision(spec), revision |-> Revision(spec),
              size |-> 1, replicas |-> N]
    /\ pod = [p \in Pods |-> [state |-> "Ready", rev |-> Revision(spec)]]
    /\ vol = [size |-> [p \in Pods |-> 1], state |-> "Settled"]
    /\ edits = 0 /\ faults = 0

Next ==
  \/ Controller \/ Kubernetes \/ EditSpec \/ OperatorRestart
  \/ \E p \in Pods : PodFails(p)

Spec == Init /\ [][Next]_vars

(***************************************************************************)
(* The operator's queue and the controllers of Kubernetes keep working,    *)
(* and started or failed pods become ready.                                *)
(***************************************************************************)
FairSpec ==
  /\ Spec
  /\ WF_vars(Controller)
  /\ WF_vars(ObserveTemplate) /\ WF_vars(CollectStatefulSet) /\ WF_vars(ResizeVolumes)
  /\ \A p \in Pods : /\ WF_vars(CreatePod(p)) /\ WF_vars(RemovePod(p))
                     /\ WF_vars(PodBecomesReady(p))

-----------------------------------------------------------------------------
TypeOK ==
  /\ replication \in BOOLEAN
  /\ scope \subseteq Fields
  /\ spec \in SpecType /\ seen \in SpecType
  /\ status \in StatusType
  /\ pc \in {"Idle", "Storage", "ResizePVCs", "DeleteSts", "RecreateSts",
              "PatchWaiting", "WaitResize", "PreScaleDown", "StatefulSet", "Updates",
              "CaughtUp", "Demote", "Promote", "DeletePod", "Poll", "Replication",
              "Switchover", "Switch"}
  /\ rev \in Revisions \cup {NoRevision}
  /\ {victim, target} \subseteq Pods \cup {NoPod}
  /\ sts \in StatefulSet
  /\ pod \in [Pods -> PodType]
  /\ vol \in [size : [Pods -> 1 .. MaxSize], state : {"Settled", "Asked", "Resizing"}]
  /\ server \in [Pods -> [role : Role, epoch : Nat]]
  /\ edits \in 0 .. MaxEdits /\ faults \in 0 .. MaxFaults

OperatorDeletes(p) == pc = "DeletePod" /\ Exists(p) /\ pod'[p].state = "Absent"

(* A pod that a scale-down has still to remove.  reconcileUpdates and      *)
(* waitForReadyStatus count pods, so that it stands in for a missing one.  *)
Surplus == Existing \ Desired(seen.replicas) # {}

(***************************************************************************)
(* The operator takes a pod down only while no other pod of the cluster is *)
(* down by its doing: each is ready, or has failed by itself.  This leaves *)
(* out a scale-down that is still under way.                               *)
(***************************************************************************)
OneDownAtATime ==
  [][\A p \in Pods : OperatorDeletes(p) /\ ~Surplus =>
       \A q \in Desired(seen.replicas) \ {p} : pod[q].state \in {"Ready", "Failed"}]_vars

(***************************************************************************)
(* ReplicasFirstPrimaryLast: the pod that the status names as the primary  *)
(* is taken down only when every other pod runs the revision rolled out,   *)
(* or one that is newer.                                                   *)
(***************************************************************************)
PrimaryLast ==
  [][OperatorDeletes(status.primary) /\ ~Surplus =>
       \A q \in Desired(seen.replicas) \ {status.primary} :
         pod[q].rev \in {rev, sts.template}]_vars

(***************************************************************************)
(* Resizing storage and updating pods exclude each other, and no pod is    *)
(* taken down by the operator during a resize.                             *)
(***************************************************************************)
UpdateExcludesResize ==
  IsResizingStorage => ~IsUpdating /\ pc \notin {"DeletePod", "Poll"}

(***************************************************************************)
(* What the spec asks for is what runs: the pods, their revision, their    *)
(* volumes and, with replication, the primary; and the status says so.     *)
(***************************************************************************)
RolledOut ==
  /\ sts.life = "live" /\ sts.template = Revision(spec)
  /\ ReadyPods = Desired(spec.replicas) /\ Existing = ReadyPods
  /\ \A p \in ReadyPods : pod[p].rev = Revision(spec) /\ vol.size[p] >= spec.size
  /\ vol.state = "Settled"
  /\ status.updated = "Updated" /\ status.storage = "Settled"
  /\ replication => status.primary = spec.podIndex /\ ~status.switching

(* A spec that the controller refuses: replication for a single pod, or    *)
(* less storage than there is.                                             *)
Refused == InvalidSpec \/ spec.size < sts.size

(***************************************************************************)
(* Once edits and faults stop, whatever the spec asks for is rolled out,   *)
(* unless it is refused: a scale-down below the primary too, for which     *)
(* reconcilePreScaleDown says that it moves the primary first.             *)
(***************************************************************************)
EventuallyRolledOut == <>[](RolledOut \/ Refused)

(***************************************************************************)
(* The same where users edit only the template and the replicas, through   *)
(* any failure of reconcileUpdates: no pod is left missing or with an old  *)
(* revision.  No scale-down may reach the primary to begin with: where one *)
(* does (BootIndices), PreScaleDown holds it up for good.                  *)
(***************************************************************************)
UpdatesFinish ==
  scope \subseteq {"template", "replicas"} => EventuallyRolledOut

(***************************************************************************)
(* A rolling update leaves the cluster with a primary.                     *)
(***************************************************************************)
PrimaryAfterUpdate == []<>(\E p \in Pods : server[p].role = "primary")
=============================================================================
