---------------------------- MODULE Switchover ----------------------------
(***************************************************************************)
(* Who is the primary of one DoltDB cluster.  Three programs act on the    *)
(* same custom resource and on the same pods:                              *)
(*                                                                         *)
(*   - the DoltDB controller runs its phases in order; the ones that touch *)
(*     the primary are Status, Service, Replication (which contains the    *)
(*     switchover) and Labels.  Every step below is one call to the API    *)
(*     server or to a Dolt server, so that the others may run in between;  *)
(*   - the Pod controller reacts to readiness flips of a pod and turns the *)
(*     loss of the primary into a switchover request;                      *)
(*   - users edit spec.replication.primary.podIndex.                       *)
(*                                                                         *)
(* Kubernetes takes pods down and brings them back, SQL calls fail or lose *)
(* their answer, and the operator process restarts.                        *)
(***************************************************************************)
EXTENDS PrimarySelection, DoltServer

CONSTANTS
  BootIndices,        \* the podIndex a cluster may be created with
  AutomaticFailover,  \* spec.replication.primary.automaticFailover
  InformerLag,        \* reads go to a cache that may trail the API server
  PrimariesReachable, \* every round of GetDBStates reaches every server that
                      \* is in role primary
  GenericRefusal,     \* a refused transition carries MySQL error 1105
  MaxEdits,           \* bound on user edits of podIndex
  MaxDowns,           \* bound on pod failures
  MaxRestarts,        \* bound on restarts of the operator
  MaxSqlFaults,       \* bound on failed or unanswered SQL calls to ready pods
  MaxPatchFaults,     \* bound on refused or unanswered calls to the API server
  MaxData,            \* bound on the versions of the data; 1 = no client writes
  MaxEpoch            \* bound on the epochs a switchover may try

ASSUME ConstantsAssumption ==
  /\ BootIndices \subseteq Pods
  /\ {AutomaticFailover, InformerLag, PrimariesReachable,
      GenericRefusal} \subseteq BOOLEAN
  /\ {MaxEdits, MaxDowns, MaxRestarts, MaxSqlFaults, MaxPatchFaults,
      MaxEpoch} \subseteq Nat
  /\ MaxData \in Nat \ {0}

VARIABLES
  api,      \* the DoltDB resource in the API server
  cache,    \* the informer's copy of it (only moves when InformerLag)
  obj,      \* the DoltDB controller's local copy
  pc,       \* the next phase or step of the DoltDB controller
  todo,     \* the pods reconcileReplication has still to configure
  from,     \* doltClusterContext.currentPrimary
  next,     \* doltClusterContext.nextEpoch
  svc,      \* the pod named in the primary Service's selector
  pod,      \* Absent, NotReady or Ready, per pod
  label,    \* the role label, per pod
  role,     \* the Dolt cluster role, per pod (on its volume: survives restarts)
  epoch,    \* the Dolt configuration epoch, per pod
  data,     \* the version of the data, per pod
  queue,    \* the pods the Pod controller still has to look at
  ppc,      \* the next step of the Pod controller
  pobj,     \* the Pod controller's local copy of the resource
  ppod,     \* the pod whose event it handles
  pto,      \* the failover candidate it chose
  used      \* how much of each bound has been used up

operator == <<obj, pc, todo, from, next>>
podController == <<ppc, pobj, ppod, pto>>
servers  == <<role, epoch, data>>
kube     == <<pod, label>>
vars == <<api, cache, operator, svc, kube, servers, queue, podController, used>>

-----------------------------------------------------------------------------
(* The DoltDB resource, reduced to what decides who is primary. *)

(***************************************************************************)
(* The list of conditions.  PrimarySwitched is False exactly when          *)
(* `switching' names a pod: the one its message says the primary is being  *)
(* switched to.  `ready' is the reason of the Ready condition.             *)
(***************************************************************************)
Conditions ==
  [switching : Pods \cup {NoPod},
   ready     : {"Unset", "Running", "NotReady", "Switching", "Failed"}]

DoltDB ==
  [podIndex : Pods,                  \* spec.replication.primary.podIndex
   primary  : Pods \cup {NoPod},     \* status.currentPrimaryPodIndex
   epoch    : Nat,                   \* status.replicationEpoch, 0 when nil
   repl     : [Pods -> {"absent", "primary", "standby"}],
   conds    : Conditions]

NewDoltDB ==
  [podIndex |-> 0, primary |-> NoPod, epoch |-> 0,
   repl     |-> [p \in Pods |-> "absent"],
   conds    |-> [switching |-> NoPod, ready |-> "Unset"]]

IsSwitchingPrimary(o) == o.conds.switching # NoPod

SetPrimarySwitching(o) ==
  [o EXCEPT !.conds = [switching |-> o.podIndex, ready |-> "Switching"]]

(***************************************************************************)
(* UpdateReplicationEpoch: never lowers the value it sees.                 *)
(***************************************************************************)
UpdateReplicationEpoch(o, e) ==
  IF e < o.epoch THEN o ELSE [o EXCEPT !.epoch = e]

(***************************************************************************)
(* A JSON merge patch without a resource version (client.MergeFrom): only  *)
(* what differs from the local copy is sent.  Map entries are merged key   *)
(* by key; the list of conditions is replaced as a whole.                  *)
(***************************************************************************)
MergePatch(server, base, new) ==
  [podIndex |-> IF new.podIndex # base.podIndex THEN new.podIndex ELSE server.podIndex,
   primary  |-> IF new.primary # base.primary THEN new.primary ELSE server.primary,
   epoch    |-> IF new.epoch # base.epoch THEN new.epoch ELSE server.epoch,
   repl     |-> [p \in Pods |-> IF new.repl[p] # base.repl[p] THEN new.repl[p]
                                ELSE server.repl[p]],
   conds    |-> IF new.conds # base.conds THEN new.conds ELSE server.conds]

(* A patch by the DoltDB controller; the response refreshes its local copy. *)
PatchAPI(new) ==
  /\ api' = MergePatch(api, obj, new)
  /\ obj' = api'

PatchMayFail == used.patch < MaxPatchFaults

(***************************************************************************)
(* A patch that returns an error: it was refused, or it was applied and    *)
(* its answer lost.  The local copy keeps what it was about to write.      *)
(***************************************************************************)
PatchFails(new) ==
  /\ PatchMayFail
  /\ api' \in {api, MergePatch(api, obj, new)}
  /\ obj' = new

Read == IF InformerLag THEN cache ELSE api

-----------------------------------------------------------------------------
(* Pods and the reachability of their servers. *)

Ready(p) == pod[p] = "Ready"

ReadyPods == {p \in Pods : Ready(p)}

AllHealthy == ReadyPods = Pods               \* IsStatefulSetHealthy

Primaries == {p \in Pods : role[p] = "primary"}

(***************************************************************************)
(* The sets of pods one round of GetDBStates can reach.  A pod that is not *)
(* ready may or may not answer, a ready one fails to only by a SQL fault.  *)
(***************************************************************************)
Reachable(S) ==
  /\ S \subseteq {p \in Pods : pod[p] # "Absent"}
  /\ ReadyPods \subseteq S \/ used.sql < MaxSqlFaults
  /\ PrimariesReachable => Primaries \subseteq S

GetDBStates(S) ==
  [p \in Pods |-> IF p \in S THEN [role |-> role[p], epoch |-> epoch[p]]
                             ELSE [role |-> "", epoch |-> 0]]

Charge(sqlFault, patchFault) ==
  used' = [used EXCEPT !.sql   = IF sqlFault THEN @ + 1 ELSE @,
                       !.patch = IF patchFault THEN @ + 1 ELSE @]

ChargeSql(fault) == Charge(fault, FALSE)

(* A SQL call to p can fail without effect, or take effect and lose its answer. *)
CallMayFail(p) == ~Ready(p) \/ used.sql < MaxSqlFaults
AnswerMayBeLost == used.sql < MaxSqlFaults

-----------------------------------------------------------------------------
(* The phases of the DoltDB controller. *)

GoTo(step) == pc' = step /\ UNCHANGED <<todo, from, next>>

(* The end of a reconciliation: the local variables go out of scope. *)
Return ==
  /\ pc' = "Idle"
  /\ obj' = NewDoltDB
  /\ todo' = {}
  /\ from' = NoPod
  /\ next' = 0

(* Reconcile starts by reading the resource. *)
Reconcile ==
  /\ pc = "Idle"
  /\ obj' = Read
  /\ GoTo("Status")
  /\ UNCHANGED <<api, cache, svc, kube, servers, queue, podController, used>>

(* Mutants: the recorded epoch is not compared with; a second primary is    *)
(* reported as not configured.                                              *)
ObservedEpochOfServers(S) == Largest({0} \cup {epoch[p] : p \in S})

ObservedRoleNotConfigured(S, p) ==
  IF p \notin S \/ ~Ready(p) THEN "absent"
  ELSE IF role[p] = "primary" /\ obj.primary \notin {NoPod, p} THEN "not_configured"
  ELSE role[p]

(***************************************************************************)
(* getReplicationStatusAndEpoch: the highest epoch above the recorded one  *)
(* and the role of every pod that answers and is healthy.  A second        *)
(* primary is left out, so that the Replication phase configures it again. *)
(***************************************************************************)
ObservedEpoch(S) == Largest({obj.epoch} \cup {epoch[p] : p \in S})

ObservedRole(S, p) ==
  IF p \notin S \/ ~Ready(p) THEN "absent"
  ELSE IF role[p] = "primary" /\ obj.primary \notin {NoPod, p} THEN "absent"
  ELSE role[p]

ReadyCondition == IF AllHealthy THEN "Running" ELSE "NotReady"

DefaultPrimary(o) == IF o.primary = NoPod THEN o.podIndex ELSE o.primary

(* What the Status phase makes of the status when it reaches the pods in S. *)
StatusPatch(S) ==
  [obj EXCEPT !.primary = DefaultPrimary(obj),
              !.epoch   = ObservedEpoch(S),
              !.repl    = [p \in Pods |-> ObservedRole(S, p)],
              !.conds   = IF IsSwitchingPrimary(obj) THEN @
                          ELSE [@ EXCEPT !.ready = ReadyCondition]]

StatusPhase ==
  /\ pc = "Status"
  /\ \E S \in SUBSET Pods :
       /\ Reachable(S)
       /\ \/ /\ Charge(~(ReadyPods \subseteq S), FALSE)
             /\ PatchAPI(StatusPatch(S))
             /\ GoTo("Service")
          \/ /\ Charge(~(ReadyPods \subseteq S), TRUE)
             /\ PatchFails(StatusPatch(S))
             /\ GoTo("Failed")
  /\ UNCHANGED <<cache, svc, kube, servers, queue, podController>>

(* The primary Service selects the pod that the status names. *)
ServicePhase ==
  /\ pc = "Service"
  /\ \/ svc' = obj.primary /\ GoTo("Replication") /\ UNCHANGED used
     \/ /\ PatchMayFail /\ Charge(FALSE, TRUE)
        /\ svc' \in {svc, obj.primary}
        /\ GoTo("Failed")
  /\ UNCHANGED <<api, cache, obj, kube, servers, queue, podController>>

(* A switchover under way goes first; otherwise every pod must be healthy. *)
ReplicationPhase ==
  /\ pc = "Replication"
  /\ \/ /\ IsSwitchingPrimary(obj)
        /\ GoTo("Switchover")
        /\ UNCHANGED obj
     \/ /\ ~IsSwitchingPrimary(obj)
        /\ AllHealthy /\ obj.epoch # 0
        /\ pc' = "Configure"
        /\ todo' = {p \in Pods : obj.repl[p] = "absent"}
        /\ UNCHANGED <<obj, from, next>>
     \/ /\ ~IsSwitchingPrimary(obj)
        /\ ~AllHealthy \/ obj.epoch = 0
        /\ Return
  /\ UNCHANGED <<api, cache, svc, kube, servers, queue, podController, used>>

(***************************************************************************)
(* CALL DOLT_ASSUME_CLUSTER_ROLE(r, e) on pod p, with the step that        *)
(* follows when it succeeds.                                               *)
(***************************************************************************)
AssumeRole(p, r, e, onSuccess) ==
  \/ /\ pod[p] # "Absent"
     /\ AcceptsRole(role[p], epoch[p], r, e)
     /\ role' = [role EXCEPT ![p] = r]
     /\ epoch' = [epoch EXCEPT ![p] = e]
     /\ UNCHANGED data
     /\ \/ onSuccess /\ UNCHANGED used
        \/ AnswerMayBeLost /\ ChargeSql(TRUE) /\ GoTo("Failed")
  \/ /\ ~AcceptsRole(role[p], epoch[p], r, e) \/ CallMayFail(p)
     /\ ChargeSql(AcceptsRole(role[p], epoch[p], r, e) /\ Ready(p))
     /\ GoTo("Failed")
     /\ UNCHANGED servers

(***************************************************************************)
(* reconcileReplication walks the pods in order and configures the ones    *)
(* missing from status.replicationStatus at the recorded epoch.  (A nil    *)
(* map makes it configure each pod twice; the second call repeats the      *)
(* first and changes nothing.)                                             *)
(***************************************************************************)
ReconcileReplication ==
  /\ pc = "Configure"
  /\ \/ /\ todo = {}
        /\ GoTo("Switchover")
        /\ UNCHANGED <<servers, used>>
     \/ /\ todo # {}
        /\ LET p == Smallest(todo) IN
             AssumeRole(p, IF p = obj.primary THEN "primary" ELSE "standby", obj.epoch,
                        pc' = pc /\ todo' = todo \ {p} /\ UNCHANGED <<from, next>>)
  /\ UNCHANGED <<api, cache, obj, svc, kube, queue, podController>>

(* shouldReconcileSwitchover, storage being settled. *)
ShouldReconcileSwitchover == obj.primary # obj.podIndex

(* Mutant: the fallback on the status forgets to move to the next epoch. *)
NextEpochNotAdvanced(seen) == IF seen.ok THEN seen.epoch + 1 ELSE obj.epoch

NextEpoch(seen) == (IF seen.ok THEN seen.epoch ELSE obj.epoch) + 1

(***************************************************************************)
(* The head of reconcileSwitchover: find the primary and the highest epoch *)
(* among the servers that answer, or fall back on the status, then mark    *)
(* the resource as switching.  The response of that patch refreshes the    *)
(* local copy, podIndex included.                                          *)
(***************************************************************************)
BeginSwitchover ==
  /\ pc = "Switchover"
  /\ \/ /\ ~ShouldReconcileSwitchover
        /\ GoTo("Labels")
        /\ UNCHANGED <<api, obj, used>>
     \/ /\ ShouldReconcileSwitchover
        /\ \E S \in SUBSET Pods :
             LET seen == CurrentPrimaryAndEpoch(GetDBStates(S)) IN
               /\ Reachable(S)
               /\ \/ /\ Charge(~(ReadyPods \subseteq S), FALSE)
                     /\ PatchAPI(SetPrimarySwitching(obj))
                     /\ pc' = "ShiftAway"
                  \/ /\ Charge(~(ReadyPods \subseteq S), TRUE)
                     /\ PatchFails(SetPrimarySwitching(obj))
                     /\ pc' = "Failed"
               /\ from' = IF seen.ok THEN seen.primary ELSE obj.primary
               /\ next' = NextEpoch(seen)
               /\ next' <= MaxEpoch
        /\ UNCHANGED todo
     \/ /\ ShouldReconcileSwitchover
        /\ Largest({obj.epoch} \cup {epoch[p] : p \in Pods}) >= MaxEpoch
        /\ Return                            \* the bound, not the code
        /\ UNCHANGED <<api, used>>
  /\ UNCHANGED <<cache, svc, kube, servers, queue, podController>>

(* The first n pods, those of them that exist, are labelled standby. *)
MarkStandby(n) ==
  label' = [p \in Pods |-> IF pod[p] = "Absent" \/ p >= n THEN label[p] ELSE "standby"]

ShiftTrafficAwayFromPrimary ==
  /\ pc = "ShiftAway"
  /\ \/ MarkStandby(N) /\ GoTo("ReadOnly") /\ UNCHANGED used
     \/ /\ PatchMayFail /\ Charge(FALSE, TRUE)
        /\ \E n \in 0 .. N : MarkStandby(n)
        /\ GoTo("Failed")
  /\ UNCHANGED <<api, cache, obj, svc, pod, servers, queue, podController>>

(***************************************************************************)
(* DOLT_CLUSTER_TRANSITION_TO_STANDBY on primary p: the call drains        *)
(* replication to some of the standbys it reaches before it demotes p.     *)
(***************************************************************************)
StandbysOf(p) == {q \in Pods \ {p} : pod[q] # "Absent" /\ role[q] = "standby"}

Transition(p, e, caughtUp) ==
  /\ caughtUp \subseteq StandbysOf(p)
  /\ AcceptsTransition(role[p], epoch[p], e, caughtUp)
  /\ role' = [role EXCEPT ![p] = "standby"]
  /\ epoch' = [epoch EXCEPT ![p] = e]
  /\ data' = [q \in Pods |-> IF q \in caughtUp THEN data[p] ELSE data[q]]

TransitionRefused(p, e) ==
  \/ e <= epoch[p]
  \/ \A q \in StandbysOf(p) : data[q] # data[p] \/ ~Ready(q)

(* Mutant: a transition that fails does not stop the switchover. *)
SetPrimaryReadOnlyUnchecked ==
  /\ pc = "ReadOnly"
  /\ \/ \E caughtUp \in SUBSET Pods : Transition(obj.primary, next, caughtUp)
     \/ UNCHANGED servers
  /\ GoTo("Promote")
  /\ UNCHANGED <<api, cache, obj, svc, kube, queue, podController, used>>

(***************************************************************************)
(* setPrimaryReadOnly demotes the primary named by the status when its pod *)
(* is ready and its server is not a standby yet.  It needs another ready   *)
(* pod, and the client fails the call when the caught-up host it picks is  *)
(* not one of them, although the server has obeyed.  IsReadOnlyError takes *)
(* error 1105 for "already read-only" and lets the switchover go on.       *)
(***************************************************************************)
SetPrimaryReadOnly ==
  LET p      == obj.primary
      hosts  == ReadyPods \ {p}
      demote == Ready(p) /\ role[p] = "primary" /\ hosts # {}
  IN
  /\ pc = "ReadOnly"
  /\ \/ /\ pod[p] = "NotReady" \/ (Ready(p) /\ role[p] = "standby")
        /\ GoTo("Promote")
        /\ UNCHANGED <<servers, used>>
     \/ /\ demote
        /\ \E caughtUp \in SUBSET Pods :
             /\ Transition(p, next, caughtUp)
             /\ \/ caughtUp \cap hosts # {} /\ GoTo("Promote") /\ UNCHANGED used
                \/ caughtUp \ hosts # {} /\ GoTo("Failed") /\ UNCHANGED used
                \/ AnswerMayBeLost /\ ChargeSql(TRUE) /\ GoTo("Failed")
     \/ /\ demote /\ TransitionRefused(p, next)
        /\ IF GenericRefusal THEN GoTo("Promote") ELSE GoTo("Failed")
        /\ UNCHANGED <<servers, used>>
     \/ /\ \/ pod[p] = "Absent"
           \/ Ready(p) /\ role[p] = "primary" /\ hosts = {}
        /\ GoTo("Failed")
        /\ UNCHANGED <<servers, used>>
     \/ /\ Ready(p) /\ AnswerMayBeLost
        /\ ChargeSql(TRUE)
        /\ GoTo("Failed")
        /\ UNCHANGED servers
  /\ UNCHANGED <<api, cache, obj, svc, kube, queue, podController>>

(* Mutant: the error of AssumeRole is not looked at. *)
ConfigureNewPrimaryUnchecked ==
  /\ pc = "Promote"
  /\ \/ AssumeRole(obj.podIndex, "primary", next, GoTo("ShiftTo"))
     \/ CallMayFail(obj.podIndex) /\ GoTo("ShiftTo") /\ UNCHANGED <<servers, used>>
  /\ UNCHANGED <<api, cache, obj, svc, kube, queue, podController>>

(* configureNewPrimary promotes the pod that the spec names. *)
ConfigureNewPrimary ==
  /\ pc = "Promote"
  /\ AssumeRole(obj.podIndex, "primary", next, GoTo("ShiftTo"))
  /\ UNCHANGED <<api, cache, obj, svc, kube, queue, podController>>

(***************************************************************************)
(* shiftTrafficToNewPrimary labels doltCtx.currentPrimary, the primary     *)
(* that was found before the switchover began.                             *)
(***************************************************************************)
ShiftTrafficToNewPrimary ==
  /\ pc = "ShiftTo"
  /\ \/ /\ Ready(from)
        /\ label' = [label EXCEPT ![from] = "primary"]
        /\ GoTo("Finish")
        /\ UNCHANGED used
     \/ /\ ~Ready(from)
        /\ GoTo("Failed")
        /\ UNCHANGED <<label, used>>
     \/ /\ Ready(from) /\ PatchMayFail /\ Charge(FALSE, TRUE)
        /\ label' \in {label, [label EXCEPT ![from] = "primary"]}
        /\ GoTo("Failed")
  /\ UNCHANGED <<api, cache, obj, svc, pod, servers, queue, podController>>

(* Mutant: the new primary is not recorded. *)
FinishSwitchoverForgetful ==
  /\ pc = "Finish"
  /\ PatchAPI(UpdateReplicationEpoch([obj EXCEPT !.conds.switching = NoPod], next))
  /\ GoTo("Labels")
  /\ UNCHANGED <<cache, svc, kube, servers, queue, podController, used>>

(* The tail of reconcileSwitchover records the new primary and its epoch. *)
FinishSwitchover ==
  LET done == UpdateReplicationEpoch(
                [obj EXCEPT !.primary = obj.podIndex, !.conds.switching = NoPod], next)
  IN
  /\ pc = "Finish"
  /\ \/ PatchAPI(done) /\ GoTo("Labels") /\ UNCHANGED used
     \/ PatchFails(done) /\ Charge(FALSE, TRUE) /\ GoTo("Failed")
  /\ UNCHANGED <<cache, svc, kube, servers, queue, podController>>

(***************************************************************************)
(* reconcilePodLabels labels the ready pods after the status.  When a      *)
(* patch fails, a conflict or a pod that is gone only ends it early.       *)
(***************************************************************************)
LabelPods(S) ==
  label' = [p \in Pods |-> IF ~Ready(p) \/ p \notin S THEN label[p]
                           ELSE IF p = obj.primary THEN "primary" ELSE "standby"]

ReconcilePodLabels ==
  /\ pc = "Labels"
  /\ \/ LabelPods(Pods) /\ Return /\ UNCHANGED used
     \/ /\ PatchMayFail /\ Charge(FALSE, TRUE)
        /\ \E S \in SUBSET Pods : LabelPods(S)
        /\ Return \/ (GoTo("Failed") /\ UNCHANGED obj)
  /\ UNCHANGED <<api, cache, svc, pod, servers, queue, podController>>

(* A phase failed: the Ready condition says so and the reconciliation ends. *)
PatchFailed ==
  LET patched == MergePatch(api, obj, [obj EXCEPT !.conds.ready = "Failed"]) IN
  /\ pc = "Failed"
  /\ \/ api' = patched /\ UNCHANGED used
     \/ PatchMayFail /\ Charge(FALSE, TRUE) /\ api' \in {api, patched}
  /\ Return
  /\ UNCHANGED <<cache, svc, kube, servers, queue, podController>>

DoltDBController ==
  \/ Reconcile \/ StatusPhase \/ ServicePhase \/ ReplicationPhase
  \/ ReconcileReplication \/ BeginSwitchover
  \/ ShiftTrafficAwayFromPrimary \/ SetPrimaryReadOnly \/ ConfigureNewPrimary
  \/ ShiftTrafficToNewPrimary \/ FinishSwitchover
  \/ ReconcilePodLabels \/ PatchFailed

-----------------------------------------------------------------------------
(* The Pod controller. *)

(***************************************************************************)
(* Reconcile of a queued pod.  Only the loss of the pod that the status    *)
(* names as primary is acted on; every other event is dropped.  When no    *)
(* candidate exists the pod is queued again, which changes nothing.        *)
(***************************************************************************)
LostPrimary(o, p) ==
  /\ pod[p] = "NotReady"
  /\ AutomaticFailover
  /\ IsReplicationConfigured(o.repl)
  /\ p = o.primary

FailoverCandidate(answering, ready) ==
  LET best == SelectFailoverCandidate(answering, data)
  IN  IF best # NoPod THEN best ELSE HealthyDoltDBReplica(ready)

ReconcilePodIgnored(p) ==
  /\ ppc = "Idle" /\ p \in queue
  /\ ~LostPrimary(Read, p)
  /\ queue' = queue \ {p}
  /\ UNCHANGED <<api, cache, operator, svc, kube, servers, podController, used>>

ReconcilePodNotReady(p) ==
  /\ ppc = "Idle" /\ p \in queue
  /\ LostPrimary(Read, p)
  /\ LET ready == ReadyPods \ {Read.primary} IN
       \E answering \in SUBSET ready :
         /\ answering = ready \/ used.sql < MaxSqlFaults
         /\ ChargeSql(answering # ready)
         /\ pto' = FailoverCandidate(answering, ready)
         /\ pto' # NoPod
  /\ pobj' = Read
  /\ ppod' = p
  /\ ppc' = "PatchSpec"
  /\ queue' = queue \ {p}
  /\ UNCHANGED <<api, cache, operator, svc, kube, servers>>

(***************************************************************************)
(* The request: podIndex first, the PrimarySwitched condition in a second  *)
(* patch that is sent even if the first one failed.  After an error the    *)
(* pod is queued again.                                                    *)
(***************************************************************************)
PatchPodIndex ==
  LET new     == [pobj EXCEPT !.podIndex = pto]
      patched == MergePatch(api, pobj, new)
  IN
  /\ ppc = "PatchSpec"
  /\ \/ api' = patched /\ pobj' = patched /\ UNCHANGED <<queue, used>>
     \/ /\ PatchMayFail /\ Charge(FALSE, TRUE)
        /\ api' \in {api, patched}
        /\ pobj' = new
        /\ queue' = queue \cup {ppod}
  /\ ppc' = "PatchStatus"
  /\ UNCHANGED <<cache, operator, svc, kube, servers, ppod, pto>>

PatchSwitching ==
  LET patched == MergePatch(api, pobj, SetPrimarySwitching(pobj)) IN
  /\ ppc = "PatchStatus"
  /\ \/ api' = patched /\ UNCHANGED <<queue, used>>
     \/ /\ PatchMayFail /\ Charge(FALSE, TRUE)
        /\ api' \in {api, patched}
        /\ queue' = queue \cup {ppod}
  /\ ppc' = "Idle"
  /\ pobj' = NewDoltDB
  /\ ppod' = NoPod
  /\ pto' = NoPod
  /\ UNCHANGED <<cache, operator, svc, kube, servers>>

PodController ==
  \/ \E p \in Pods : ReconcilePodIgnored(p) \/ ReconcilePodNotReady(p)
  \/ PatchPodIndex \/ PatchSwitching

-----------------------------------------------------------------------------
(* Users, Kubernetes, clients of the database and the operator process. *)

(* A manual switchover of a cluster whose status names its primary. *)
EditPodIndex ==
  /\ used.edits < MaxEdits
  /\ api.primary # NoPod
  /\ \E p \in Pods \ {api.podIndex} : api' = [api EXCEPT !.podIndex = p]
  /\ used' = [used EXCEPT !.edits = @ + 1]
  /\ UNCHANGED <<cache, operator, svc, kube, servers, queue, podController>>

PodFails(p) ==
  /\ Ready(p)
  /\ used.downs < MaxDowns
  /\ pod' = [pod EXCEPT ![p] = "NotReady"]
  /\ queue' = queue \cup {p}
  /\ used' = [used EXCEPT !.downs = @ + 1]
  /\ UNCHANGED <<api, cache, operator, svc, label, servers, podController>>

(***************************************************************************)
(* A pod is deleted.  Its preStop hook tries to demote a primary to        *)
(* standby one epoch further; it is best effort.  The Pod controller       *)
(* filters delete events out.                                              *)
(***************************************************************************)
PodDeleted(p) ==
  /\ pod[p] # "Absent"
  /\ used.downs < MaxDowns
  /\ pod' = [pod EXCEPT ![p] = "Absent"]
  /\ label' = [label EXCEPT ![p] = "none"]
  /\ \/ \E caughtUp \in SUBSET Pods : Transition(p, epoch[p] + 1, caughtUp)
     \/ UNCHANGED servers
  /\ PrimariesReachable => role'[p] = "standby"
  /\ used' = [used EXCEPT !.downs = @ + 1]
  /\ UNCHANGED <<api, cache, operator, svc, queue, podController>>

PodCreated(p) ==
  /\ pod[p] = "Absent"
  /\ pod' = [pod EXCEPT ![p] = "NotReady"]
  /\ queue' = queue \cup {p}
  /\ UNCHANGED <<api, cache, operator, svc, label, servers, podController, used>>

PodBecomesReady(p) ==
  /\ pod[p] = "NotReady"
  /\ pod' = [pod EXCEPT ![p] = "Ready"]
  /\ queue' = queue \cup {p}
  /\ UNCHANGED <<api, cache, operator, svc, label, servers, podController, used>>

(* The pods that the primary Service sends clients to. *)
Routed == {p \in Pods : p = svc /\ label[p] = "primary" /\ Ready(p)}

ClientWrite(p) ==
  /\ p \in Routed
  /\ role[p] = "primary"
  /\ data[p] < MaxData
  /\ data' = [data EXCEPT ![p] = @ + 1]
  /\ UNCHANGED <<api, cache, operator, svc, kube, role, epoch, queue, podController, used>>

(* Dolt replicates from a primary to a standby, overwriting what it has. *)
Replicate(p, q) ==
  /\ Ready(p) /\ role[p] = "primary"
  /\ Ready(q) /\ role[q] = "standby"
  /\ data[p] # data[q]
  /\ data' = [data EXCEPT ![q] = data[p]]
  /\ UNCHANGED <<api, cache, operator, svc, kube, role, epoch, queue, podController, used>>

CacheSync ==
  /\ InformerLag
  /\ cache # api
  /\ cache' = api
  /\ UNCHANGED <<api, operator, svc, kube, servers, queue, podController, used>>

(* A restarted operator lists the resource and every pod afresh. *)
OperatorRestart ==
  /\ used.restarts < MaxRestarts
  /\ Return
  /\ ppc' = "Idle" /\ pobj' = NewDoltDB /\ ppod' = NoPod /\ pto' = NoPod
  /\ queue' = {p \in Pods : pod[p] # "Absent"}
  /\ cache' = IF InformerLag THEN api ELSE cache
  /\ used' = [used EXCEPT !.restarts = @ + 1]
  /\ UNCHANGED <<api, svc, kube, servers>>

Environment ==
  \/ EditPodIndex \/ CacheSync \/ OperatorRestart
  \/ \E p \in Pods : \/ PodFails(p) \/ PodDeleted(p) \/ PodCreated(p)
                      \/ PodBecomesReady(p) \/ ClientWrite(p)
                      \/ \E q \in Pods : Replicate(p, q)

-----------------------------------------------------------------------------
(* The cluster as its first start leaves it: pod 0 bootstraps as primary. *)
Init ==
  /\ \E p \in BootIndices : api = [NewDoltDB EXCEPT !.podIndex = p]
  /\ cache = api
  /\ obj = NewDoltDB /\ pc = "Idle" /\ todo = {} /\ from = NoPod /\ next = 0
  /\ svc = NoPod
  /\ pod = [p \in Pods |-> "Ready"]
  /\ label = [p \in Pods |-> "none"]
  /\ role = [p \in Pods |-> IF p = 0 THEN "primary" ELSE "standby"]
  /\ epoch = [p \in Pods |-> 1]
  /\ data = [p \in Pods |-> 1]
  /\ queue = {}
  /\ ppc = "Idle" /\ pobj = NewDoltDB /\ ppod = NoPod /\ pto = NoPod
  /\ used = [edits |-> 0, downs |-> 0, restarts |-> 0, sql |-> 0, patch |-> 0]

Next == DoltDBController \/ PodController \/ Environment

(***************************************************************************)
(* The operator's work queues keep serving: a reconciliation that can take *)
(* a step takes it, failed ones are retried and the informers deliver.     *)
(* The StatefulSet controller recreates pods and Dolt keeps replicating.   *)
(* Nothing is promised of users, faults or clients; whether a failed pod   *)
(* becomes ready again is left open.                                       *)
(***************************************************************************)
Fairness ==
  /\ WF_vars(DoltDBController)
  /\ WF_vars(PodController)
  /\ WF_vars(CacheSync)
  /\ WF_vars(\E p \in Pods : PodCreated(p))
  /\ WF_vars(\E p, q \in Pods : Replicate(p, q))

Spec == Init /\ [][Next]_vars

FairSpec == Spec /\ Fairness

-----------------------------------------------------------------------------
Counters == [edits : Nat, downs : Nat, restarts : Nat, sql : Nat, patch : Nat]

TypeOK ==
  /\ api \in DoltDB
  /\ cache \in DoltDB
  /\ obj \in DoltDB
  /\ pc \in {"Idle", "Status", "Service", "Replication", "Configure",
              "Switchover", "ShiftAway", "ReadOnly", "Promote", "ShiftTo",
              "Finish", "Labels", "Failed"}
  /\ todo \subseteq Pods
  /\ from \in Pods \cup {NoPod}
  /\ next \in Nat
  /\ svc \in Pods \cup {NoPod}
  /\ pod \in [Pods -> {"Absent", "NotReady", "Ready"}]
  /\ label \in [Pods -> {"none", "primary", "standby"}]
  /\ role \in [Pods -> Role]
  /\ epoch \in [Pods -> Nat]
  /\ data \in [Pods -> Nat]
  /\ queue \subseteq Pods
  /\ ppc \in {"Idle", "PatchSpec", "PatchStatus"}
  /\ pobj \in DoltDB
  /\ ppod \in Pods \cup {NoPod}
  /\ pto \in Pods \cup {NoPod}
  /\ used \in Counters

(***************************************************************************)
(* Two servers never hold the role of primary at the same epoch: Dolt      *)
(* orders primaries by epoch, so nothing could tell which of the two wins. *)
(* Every switchover picks its epoch from what GetDBStates could reach.     *)
(***************************************************************************)
OnePrimaryPerEpoch ==
  \A p, q \in Primaries : epoch[p] = epoch[q] => p = q

(***************************************************************************)
(* setPrimaryReadOnly demotes the old primary before configureNewPrimary   *)
(* promotes another: at no time do two servers accept writes.              *)
(***************************************************************************)
AtMostOnePrimary == \A p, q \in Primaries : p = q

(***************************************************************************)
(* status.replicationEpoch never decreases, whatever the Status phase and  *)
(* the switchover read and however their patches interleave.               *)
(***************************************************************************)
EpochNeverRegresses == [][api'.epoch >= api.epoch]_vars

(***************************************************************************)
(* The status names another primary only after that pod's server accepted  *)
(* the promotion at the switchover's epoch; if it is no longer primary by  *)
(* then, its own preStop hook has moved it on to a later epoch.            *)
(***************************************************************************)
PrimaryChangesHands ==
  [][LET p == api'.primary IN
     api.primary \notin {NoPod, p} =>
       /\ next # 0
       /\ epoch[p] >= next
       /\ epoch[p] = next => role[p] = "primary"]_vars

(***************************************************************************)
(* Once faults and edits stop, the cluster settles: the pod asked for is   *)
(* the one the status names, the only primary, and where clients are sent, *)
(* and the status records the epoch it is primary at.                      *)
(***************************************************************************)
Settled ==
  /\ api.primary = api.podIndex
  /\ Primaries = {api.primary}
  /\ Routed = {api.primary}
  /\ api.epoch = epoch[api.primary]

EventuallySettled == <>[]Settled
===========================================================================
