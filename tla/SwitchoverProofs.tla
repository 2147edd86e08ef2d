------------------------- MODULE SwitchoverProofs -------------------------
(***************************************************************************)
(* Proofs about Switchover, for every number of pods and every bound.      *)
(***************************************************************************)
EXTENDS Switchover, PrimarySelectionProofs

(* Pod indices are naturals, 0 is one of them and NoPod is not. *)
LEMMA PodsFacts == Pods \subseteq Nat /\ 0 \in Pods /\ NoPod \notin Pods
  BY ReplicasAssumption DEF Pods, NoPod

(* A merge patch of well-formed resources is a well-formed resource. *)
LEMMA MergePatchType ==
  ASSUME NEW server \in DoltDB, NEW base \in DoltDB, NEW new \in DoltDB
  PROVE  MergePatch(server, base, new) \in DoltDB
  BY DEF MergePatch, DoltDB

(* The empty resource is well formed. *)
LEMMA NewDoltDBType == NewDoltDB \in DoltDB
  BY PodsFacts DEF NewDoltDB, DoltDB, Conditions

(* The switching mark keeps the resource well formed. *)
LEMMA SetPrimarySwitchingType ==
  ASSUME NEW o \in DoltDB
  PROVE  SetPrimarySwitching(o) \in DoltDB
  BY DEF SetPrimarySwitching, DoltDB, Conditions

(* So does recording an epoch. *)
LEMMA UpdateReplicationEpochType ==
  ASSUME NEW o \in DoltDB, NEW e \in Nat
  PROVE  UpdateReplicationEpoch(o, e) \in DoltDB
  BY DEF UpdateReplicationEpoch, DoltDB

-----------------------------------------------------------------------------
(* Type correctness. *)

(* The end of a reconciliation leaves well-formed local variables. *)
LEMMA ReturnType ==
  ASSUME Return
  PROVE  /\ pc' = "Idle" /\ obj' \in DoltDB /\ todo' \subseteq Pods
         /\ from' \in Pods \cup {NoPod} /\ next' \in Nat
  BY NewDoltDBType DEF Return

(* A patch by the DoltDB controller, whether it fails or not, keeps both    *)
(* copies well formed; it changes the recorded primary and the recorded     *)
(* epoch only if the controller wants to.                                   *)
LEMMA PatchEffect ==
  ASSUME api \in DoltDB, obj \in DoltDB, NEW new \in DoltDB,
         PatchAPI(new) \/ PatchFails(new)
  PROVE  /\ api' \in DoltDB /\ obj' \in DoltDB /\ obj' \in {api', new}
         /\ api'.primary = api.primary \/ (api'.primary = new.primary /\ new.primary # obj.primary)
         /\ api'.epoch = api.epoch \/ (api'.epoch = new.epoch /\ new.epoch # obj.epoch)
<1>1. MergePatch(api, obj, new) \in DoltDB
  BY MergePatchType
<1>2. api' = api \/ api' = MergePatch(api, obj, new)
  BY DEF PatchAPI, PatchFails
<1>3. obj' \in {api', new}
  BY DEF PatchAPI, PatchFails
<1> QED BY <1>1, <1>2, <1>3 DEF MergePatch

(* Counting a fault keeps the counters naturals. *)
LEMMA ChargeType ==
  ASSUME TypeOK, NEW f, NEW g, Charge(f, g)
  PROVE  used' \in Counters
<1> DEFINE sql == IF f THEN used.sql + 1 ELSE used.sql
           patch == IF g THEN used.patch + 1 ELSE used.patch
<1>1. used \in Counters
  BY DEF TypeOK
<1>2. sql \in Nat /\ patch \in Nat
  BY <1>1 DEF Counters
<1>3. used' = [used EXCEPT !.sql = sql, !.patch = patch]
  BY DEF Charge
<1> HIDE DEF sql, patch
<1> QED BY <1>1, <1>2, <1>3 DEF Counters

(* The same for SQL faults alone. *)
LEMMA ChargeSqlType ==
  ASSUME TypeOK, NEW fault, ChargeSql(fault)
  PROVE  used' \in Counters
  BY ChargeType DEF ChargeSql

(* The initial states are well typed. *)
LEMMA InitTypeOK == Init => TypeOK
<1> SUFFICES ASSUME Init PROVE TypeOK
  OBVIOUS
<1>1. PICK b \in BootIndices : api = [NewDoltDB EXCEPT !.podIndex = b]
  BY DEF Init
<1>2. b \in Pods
  BY ConstantsAssumption
<1>3. api \in DoltDB
  BY <1>1, <1>2, NewDoltDBType DEF DoltDB
<1> QED BY <1>3, NewDoltDBType DEF Init, TypeOK, Role, Counters

(* What the DoltDB controller writes to the resource in the Status phase. *)
LEMMA StatusPatchType ==
  ASSUME TypeOK, NEW S \in SUBSET Pods
  PROVE  StatusPatch(S) \in DoltDB /\ StatusPatch(S).primary = DefaultPrimary(obj)
<1>1. DefaultPrimary(obj) \in Pods \cup {NoPod}
  BY DEF TypeOK, DoltDB, DefaultPrimary
<1>2. ObservedEpoch(S) \in Nat
  <2>1. epoch \in [Pods -> Nat] /\ obj.epoch \in Nat
    BY DEF TypeOK, DoltDB
  <2> QED BY <2>1, LargestOfPods DEF ObservedEpoch
<1>3. [p \in Pods |-> ObservedRole(S, p)] \in [Pods -> {"absent", "primary", "standby"}]
  BY DEF TypeOK, ObservedRole, Role
<1>4. (IF IsSwitchingPrimary(obj) THEN obj.conds
       ELSE [obj.conds EXCEPT !.ready = ReadyCondition]) \in Conditions
  BY DEF TypeOK, DoltDB, Conditions, ReadyCondition
<1>5. obj \in DoltDB
  BY DEF TypeOK
<1> QED BY <1>1, <1>2, <1>3, <1>4, <1>5 DEF StatusPatch, DoltDB

(* A call of DOLT_ASSUME_CLUSTER_ROLE keeps the servers well typed. *)
LEMMA AssumeRoleType ==
  ASSUME TypeOK, NEW p \in Pods, NEW r \in Role, NEW e \in Nat, NEW ACTION onSuccess,
         AssumeRole(p, r, e, onSuccess)
  PROVE  /\ role' \in [Pods -> Role] /\ epoch' \in [Pods -> Nat] /\ data' \in [Pods -> Nat]
         /\ used' \in Counters
         /\ onSuccess \/ (pc' = "Failed" /\ UNCHANGED <<todo, from, next>>)
<1> DEFINE Applied == /\ role' = [role EXCEPT ![p] = r]
                      /\ epoch' = [epoch EXCEPT ![p] = e]
                      /\ UNCHANGED data
           Ended == pc' = "Failed" /\ UNCHANGED <<todo, from, next>>
<1>1. \/ Applied /\ onSuccess /\ UNCHANGED used
      \/ Applied /\ ChargeSql(TRUE) /\ Ended
      \/ /\ UNCHANGED servers /\ Ended
         /\ ChargeSql(AcceptsRole(role[p], epoch[p], r, e) /\ Ready(p))
  BY Zenon DEF AssumeRole, GoTo
<1>2. used' \in Counters
  <2>1. used \in Counters
    BY DEF TypeOK
  <2>2. UNCHANGED used \/ \E f : ChargeSql(f)
    BY <1>1, Zenon
  <2> QED BY <2>1, <2>2, ChargeSqlType
<1>3. Applied \/ UNCHANGED servers
  BY <1>1, Zenon
<1>4. role' \in [Pods -> Role] /\ epoch' \in [Pods -> Nat] /\ data' \in [Pods -> Nat]
  BY <1>3 DEF TypeOK, servers
<1>5. onSuccess \/ Ended
  BY <1>1, Zenon
<1> QED BY <1>2, <1>4, <1>5

(* So does a transition to standby. *)
LEMMA TransitionType ==
  ASSUME TypeOK, NEW p \in Pods, NEW e \in Nat, NEW caughtUp, Transition(p, e, caughtUp)
  PROVE  role' \in [Pods -> Role] /\ epoch' \in [Pods -> Nat] /\ data' \in [Pods -> Nat]
  BY DEF TypeOK, Transition, Role

(***************************************************************************)
(* TypeOK alone is not inductive: setPrimaryReadOnly calls the server of   *)
(* the primary that its copy of the status names, so the status must name  *)
(* one by then.  It does from the Status phase on, and once the API server *)
(* has a primary it never loses it again.  (After a patch that failed the  *)
(* copy may be ahead of the API server.)  Likewise the Pod controller only *)
(* patches podIndex with a candidate it has found, for a pod it will queue *)
(* again if the patch fails.                                               *)
(***************************************************************************)
PrimaryKnown ==
  /\ cache.primary # NoPod => api.primary # NoPod
  /\ pc # "Failed" /\ obj.primary # NoPod => api.primary # NoPod
  /\ pc \notin {"Idle", "Status"} => obj.primary # NoPod
  /\ ppc = "PatchSpec" => pto # NoPod
  /\ ppc # "Idle" => ppod # NoPod

TypeInv == TypeOK /\ PrimaryKnown

(* TypeInv holds initially. *)
LEMMA InitTypeInv == Init => TypeInv
<1>1. Init => PrimaryKnown
  BY DEF Init, PrimaryKnown, NewDoltDB, NoPod
<1> QED BY <1>1, InitTypeOK DEF TypeInv

(* Every step preserves TypeInv: one case per action. *)
LEMMA NextTypeInv == TypeInv /\ [Next]_vars => TypeInv'
<1> SUFFICES ASSUME TypeInv, [Next]_vars PROVE TypeInv'
  OBVIOUS
<1> USE DEF TypeInv
<1>0. CASE UNCHANGED vars
  BY <1>0 DEF vars, operator, podController, servers, kube, TypeOK, PrimaryKnown
<1>1. CASE Reconcile
  <2>1. Read \in DoltDB /\ (Read.primary # NoPod => api.primary # NoPod)
    BY DEF Read, TypeOK, PrimaryKnown
  <2> QED BY <1>1, <2>1 DEF Reconcile, GoTo, podController, servers, kube, TypeOK, PrimaryKnown
<1>2. CASE StatusPhase
  <2>1. PICK S \in SUBSET Pods :
          \/ /\ Charge(~(ReadyPods \subseteq S), FALSE)
             /\ PatchAPI(StatusPatch(S)) /\ GoTo("Service")
          \/ /\ Charge(~(ReadyPods \subseteq S), TRUE)
             /\ PatchFails(StatusPatch(S)) /\ GoTo("Failed")
    BY <1>2 DEF StatusPhase
  <2>2. /\ StatusPatch(S) \in DoltDB /\ StatusPatch(S).primary = DefaultPrimary(obj)
        /\ obj.primary \in Pods \cup {NoPod} /\ obj.podIndex \in Pods
    BY StatusPatchType DEF TypeOK, DoltDB
  <2>3. /\ api' \in DoltDB /\ obj' \in DoltDB /\ obj' \in {api', StatusPatch(S)}
        /\ \/ api'.primary = api.primary
           \/ api'.primary = StatusPatch(S).primary /\ StatusPatch(S).primary # obj.primary
    BY <2>1, <2>2, PatchEffect DEF TypeOK
  <2>4. StatusPatch(S).primary # NoPod
    BY <2>2, PodsFacts DEF DefaultPrimary
  <2>5. obj.primary # NoPod => api.primary # NoPod
    BY <1>2 DEF StatusPhase, PrimaryKnown
  <2>6. api.primary # NoPod => api'.primary # NoPod
    BY <2>3, <2>4
  <2>7. used' \in Counters
    BY <2>1, ChargeType
  <2>8. CASE PatchAPI(StatusPatch(S)) /\ GoTo("Service")
    <3>1. obj' = api' /\ api'.primary # NoPod
      <4>1. api'.primary = IF StatusPatch(S).primary # obj.primary
                             THEN StatusPatch(S).primary ELSE api.primary
        BY <2>8 DEF PatchAPI, MergePatch
      <4> QED BY <2>4, <2>5, <2>8, <4>1 DEF PatchAPI
    <3> QED BY <1>2, <2>3, <2>7, <2>8, <3>1
         DEF StatusPhase, GoTo, podController, servers, kube, TypeOK, PrimaryKnown
  <2>9. CASE PatchFails(StatusPatch(S)) /\ GoTo("Failed")
    <3>1. obj' = StatusPatch(S)
      BY <2>9 DEF PatchFails
    <3> QED BY <1>2, <2>3, <2>4, <2>6, <2>7, <2>9, <3>1
         DEF StatusPhase, GoTo, podController, servers, kube, TypeOK, PrimaryKnown
  <2> QED BY <2>1, <2>8, <2>9
<1>3. CASE ServicePhase
  <2>1. obj.primary \in Pods \cup {NoPod}
    BY DEF TypeOK, DoltDB
  <2>2. used' \in Counters /\ svc' \in Pods \cup {NoPod} /\ pc' \in {"Replication", "Failed"}
    BY <1>3, <2>1, ChargeType DEF ServicePhase, GoTo, TypeOK
  <2> QED BY <1>3, <2>2 DEF ServicePhase, GoTo, podController, servers, kube, TypeOK, PrimaryKnown
<1>4. CASE ReplicationPhase
  <2>1. CASE Return
    BY <1>4, <2>1, ReturnType
    DEF ReplicationPhase, Return, podController, servers, kube, TypeOK, PrimaryKnown, NewDoltDB
  <2>2. CASE UNCHANGED obj /\ pc' \in {"Switchover", "Configure"} /\ todo' \subseteq Pods
             /\ UNCHANGED <<from, next>>
    BY <1>4, <2>2 DEF ReplicationPhase, podController, servers, kube, TypeOK, PrimaryKnown
  <2> QED BY <1>4, <2>1, <2>2 DEF ReplicationPhase, GoTo, TypeOK
<1>5. CASE ReconcileReplication
  <2>1. CASE todo = {}
    BY <1>5, <2>1 DEF ReconcileReplication, GoTo, podController, servers, kube, TypeOK, PrimaryKnown
  <2>2. CASE todo # {}
    <3> DEFINE p == Smallest(todo)
               r == IF p = obj.primary THEN "primary" ELSE "standby"
    <3>1. p \in Pods
      BY <2>2, SmallestPod DEF TypeOK
    <3>2. r \in Role /\ obj.epoch \in Nat
      BY DEF Role, TypeOK, DoltDB
    <3> HIDE DEF r, p
    <3>3. AssumeRole(p, r, obj.epoch,
                     pc' = pc /\ todo' = todo \ {p} /\ UNCHANGED <<from, next>>)
      BY <1>5, <2>2, Zenon DEF ReconcileReplication, p, r
    <3>4. /\ role' \in [Pods -> Role] /\ epoch' \in [Pods -> Nat] /\ data' \in [Pods -> Nat]
          /\ used' \in Counters
          /\ \/ pc' = pc /\ todo' = todo \ {p} /\ UNCHANGED <<from, next>>
             \/ pc' = "Failed" /\ UNCHANGED <<todo, from, next>>
      BY <3>1, <3>2, <3>3, AssumeRoleType
    <3> QED BY <1>5, <3>4
         DEF ReconcileReplication, podController, kube, TypeOK, PrimaryKnown
  <2> QED BY <2>1, <2>2
<1>6. CASE BeginSwitchover
  <2>1. CASE ~ShouldReconcileSwitchover /\ GoTo("Labels") /\ UNCHANGED <<api, obj, used>>
    BY <1>6, <2>1 DEF BeginSwitchover, GoTo, podController, servers, kube, TypeOK, PrimaryKnown
  <2>2. CASE Return /\ UNCHANGED <<api, used>>
    BY <1>6, <2>2, ReturnType
    DEF BeginSwitchover, Return, podController, servers, kube, TypeOK, PrimaryKnown, NewDoltDB
  <2>3. CASE \E S \in SUBSET Pods :
               LET seen == CurrentPrimaryAndEpoch(GetDBStates(S)) IN
                 /\ from' = IF seen.ok THEN seen.primary ELSE obj.primary
                 /\ next' = NextEpoch(seen)
                 /\ UNCHANGED todo
                 /\ \/ /\ PatchAPI(SetPrimarySwitching(obj))
                       /\ Charge(~(ReadyPods \subseteq S), FALSE)
                       /\ pc' = "ShiftAway"
                    \/ /\ PatchFails(SetPrimarySwitching(obj))
                       /\ Charge(~(ReadyPods \subseteq S), TRUE)
                       /\ pc' = "Failed"
    <3>1. PICK S \in SUBSET Pods :
             LET seen == CurrentPrimaryAndEpoch(GetDBStates(S)) IN
               /\ from' = IF seen.ok THEN seen.primary ELSE obj.primary
               /\ next' = NextEpoch(seen)
               /\ UNCHANGED todo
               /\ \/ /\ PatchAPI(SetPrimarySwitching(obj))
                     /\ Charge(~(ReadyPods \subseteq S), FALSE)
                     /\ pc' = "ShiftAway"
                  \/ /\ PatchFails(SetPrimarySwitching(obj))
                     /\ Charge(~(ReadyPods \subseteq S), TRUE)
                     /\ pc' = "Failed"
      BY <2>3
    <3> DEFINE seen == CurrentPrimaryAndEpoch(GetDBStates(S))
    <3>2. GetDBStates(S) \in [Pods -> [role : {"", "primary", "standby"}, epoch : Nat]]
      BY DEF GetDBStates, TypeOK, Role
    <3>3. seen.ok => seen.primary \in Pods /\ seen.epoch \in Nat
      BY <3>2, CurrentPrimaryAndEpochSound
    <3> HIDE DEF seen
    <3>4. from' \in Pods \cup {NoPod} /\ next' \in Nat
      BY <3>1, <3>3 DEF seen, NextEpoch, TypeOK, DoltDB
    <3>5. used' \in Counters
      BY <3>1, ChargeType
    <3>6. /\ SetPrimarySwitching(obj) \in DoltDB
          /\ SetPrimarySwitching(obj).primary = obj.primary
      BY SetPrimarySwitchingType DEF SetPrimarySwitching, TypeOK, DoltDB
    <3>7. /\ api' \in DoltDB /\ obj' \in DoltDB /\ obj' \in {api', SetPrimarySwitching(obj)}
          /\ api'.primary = api.primary
      BY <3>1, <3>6, PatchEffect DEF TypeOK
    <3>8. api.primary # NoPod /\ obj.primary # NoPod
      BY <1>6 DEF BeginSwitchover, PrimaryKnown
    <3>9. pc' \in {"ShiftAway", "Failed"} /\ UNCHANGED todo /\ obj'.primary # NoPod
      BY <3>1, <3>6, <3>7, <3>8
    <3> QED BY <1>6, <3>4, <3>5, <3>7, <3>8, <3>9
         DEF BeginSwitchover, podController, servers, kube, TypeOK, PrimaryKnown
  <2> QED BY <1>6, <2>1, <2>2, <2>3 DEF BeginSwitchover
<1>7. CASE ShiftTrafficAwayFromPrimary
  <2>1. used' \in Counters /\ pc' \in {"ReadOnly", "Failed"} /\ UNCHANGED <<todo, from, next>>
    BY <1>7, ChargeType DEF ShiftTrafficAwayFromPrimary, GoTo, TypeOK
  <2>2. \E n : MarkStandby(n)
    BY <1>7 DEF ShiftTrafficAwayFromPrimary
  <2>3. label' \in [Pods -> {"none", "primary", "standby"}]
    BY <2>2 DEF MarkStandby, TypeOK
  <2> QED BY <1>7, <2>1, <2>3
       DEF ShiftTrafficAwayFromPrimary, podController, servers, TypeOK, PrimaryKnown
<1>8. CASE SetPrimaryReadOnly
  <2>1. obj.primary \in Pods
    BY <1>8 DEF SetPrimaryReadOnly, PrimaryKnown, TypeOK, DoltDB
  <2>2. /\ pc' \in {"Promote", "Failed"} /\ UNCHANGED <<todo, from, next>>
        /\ UNCHANGED used \/ ChargeSql(TRUE)
        /\ \/ UNCHANGED servers
           \/ \E caughtUp \in SUBSET Pods : Transition(obj.primary, next, caughtUp)
    BY <1>8, Zenon DEF SetPrimaryReadOnly, GoTo
  <2>3. role' \in [Pods -> Role] /\ epoch' \in [Pods -> Nat] /\ data' \in [Pods -> Nat]
    <3>1. CASE UNCHANGED servers
      BY <3>1 DEF servers, TypeOK
    <3>2. CASE \E caughtUp \in SUBSET Pods : Transition(obj.primary, next, caughtUp)
      <4>1. next \in Nat
        BY DEF TypeOK
      <4> QED BY <2>1, <3>2, <4>1, TransitionType
    <3> QED BY <2>2, <3>1, <3>2
  <2>4. used' \in Counters
    <3>1. used \in Counters
      BY DEF TypeOK
    <3> QED BY <2>2, <3>1, ChargeSqlType
  <2> QED BY <1>8, <2>2, <2>3, <2>4
       DEF SetPrimaryReadOnly, podController, kube, TypeOK, PrimaryKnown
<1>9. CASE ConfigureNewPrimary
  <2>1. obj.podIndex \in Pods /\ next \in Nat /\ "primary" \in Role
    BY DEF TypeOK, DoltDB, Role
  <2>2. AssumeRole(obj.podIndex, "primary", next, GoTo("ShiftTo"))
    BY <1>9 DEF ConfigureNewPrimary
  <2>3. /\ role' \in [Pods -> Role] /\ epoch' \in [Pods -> Nat] /\ data' \in [Pods -> Nat]
        /\ used' \in Counters
        /\ GoTo("ShiftTo") \/ (pc' = "Failed" /\ UNCHANGED <<todo, from, next>>)
    BY <2>1, <2>2, AssumeRoleType
  <2> QED BY <1>9, <2>3 DEF ConfigureNewPrimary, GoTo, podController, kube, TypeOK, PrimaryKnown
<1>10. CASE ShiftTrafficToNewPrimary
  <2>1. used' \in Counters /\ pc' \in {"Finish", "Failed"} /\ UNCHANGED <<todo, from, next>>
    BY <1>10, ChargeType DEF ShiftTrafficToNewPrimary, GoTo, TypeOK
  <2>2. label' \in {label, [label EXCEPT ![from] = "primary"]}
    BY <1>10 DEF ShiftTrafficToNewPrimary
  <2>3. label' \in [Pods -> {"none", "primary", "standby"}]
    BY <2>2 DEF TypeOK
  <2> QED BY <1>10, <2>1, <2>3
       DEF ShiftTrafficToNewPrimary, podController, servers, TypeOK, PrimaryKnown
<1>11. CASE FinishSwitchover
  <2> DEFINE fin == [obj EXCEPT !.primary = obj.podIndex, !.conds.switching = NoPod]
             done == UpdateReplicationEpoch(fin, next)
  <2>1. fin \in DoltDB /\ fin.primary = obj.podIndex /\ obj.podIndex \in Pods
    BY DEF TypeOK, DoltDB, Conditions
  <2>2. \/ PatchAPI(done) /\ GoTo("Labels") /\ UNCHANGED used
        \/ PatchFails(done) /\ Charge(FALSE, TRUE) /\ GoTo("Failed")
    BY <1>11 DEF FinishSwitchover
  <2> HIDE DEF fin
  <2>3. done \in DoltDB /\ done.primary = obj.podIndex
    BY <2>1, UpdateReplicationEpochType DEF TypeOK, UpdateReplicationEpoch, DoltDB
  <2> HIDE DEF done
  <2>4. /\ api' \in DoltDB /\ obj' \in DoltDB /\ obj' \in {api', done}
        /\ api'.primary = api.primary \/ api'.primary = done.primary
    BY <2>2, <2>3, PatchEffect DEF TypeOK
  <2>5. api.primary # NoPod
    BY <1>11 DEF FinishSwitchover, PrimaryKnown
  <2>6. api'.primary # NoPod /\ obj'.primary # NoPod
    BY <2>1, <2>3, <2>4, <2>5, PodsFacts
  <2>7. used' \in Counters /\ pc' \in {"Labels", "Failed"} /\ UNCHANGED <<todo, from, next>>
    BY <2>2, ChargeType DEF GoTo, TypeOK
  <2> QED BY <1>11, <2>4, <2>6, <2>7
       DEF FinishSwitchover, podController, servers, kube, TypeOK, PrimaryKnown
<1>12. CASE ReconcilePodLabels
  <2>1. used' \in Counters
    BY <1>12, ChargeType DEF ReconcilePodLabels, TypeOK
  <2>2. \E S : LabelPods(S)
    BY <1>12 DEF ReconcilePodLabels
  <2>3. label' \in [Pods -> {"none", "primary", "standby"}]
    BY <2>2 DEF LabelPods, TypeOK
  <2>4. CASE Return
    BY <1>12, <2>1, <2>3, <2>4, ReturnType
    DEF ReconcilePodLabels, Return, podController, servers, TypeOK, PrimaryKnown, NewDoltDB
  <2>5. CASE GoTo("Failed") /\ UNCHANGED obj
    BY <1>12, <2>1, <2>3, <2>5
    DEF ReconcilePodLabels, GoTo, podController, servers, TypeOK, PrimaryKnown
  <2> QED BY <1>12, <2>4, <2>5 DEF ReconcilePodLabels
<1>13. CASE PatchFailed
  <2> DEFINE new == [obj EXCEPT !.conds.ready = "Failed"]
  <2>1. new \in DoltDB /\ new.primary = obj.primary
    BY DEF TypeOK, DoltDB, Conditions
  <2>2. api' \in {api, MergePatch(api, obj, new)}
    BY <1>13 DEF PatchFailed
  <2> HIDE DEF new
  <2>3. api' \in DoltDB /\ api'.primary = api.primary
    BY <2>1, <2>2, MergePatchType DEF MergePatch, TypeOK
  <2>4. used' \in Counters
    BY <1>13, ChargeType DEF PatchFailed, TypeOK
  <2> QED BY <1>13, <2>3, <2>4, ReturnType
       DEF PatchFailed, Return, podController, servers, kube, TypeOK, PrimaryKnown, NewDoltDB
<1>14. ASSUME NEW p \in Pods, ReconcilePodIgnored(p) PROVE TypeInv'
  BY <1>14 DEF ReconcilePodIgnored, operator, podController, servers, kube, TypeOK, PrimaryKnown
<1>15. ASSUME NEW p \in Pods, ReconcilePodNotReady(p) PROVE TypeInv'
  <2>1. PICK answering \in SUBSET (ReadyPods \ {Read.primary}) :
          /\ ChargeSql(answering # ReadyPods \ {Read.primary})
          /\ pto' = FailoverCandidate(answering, ReadyPods \ {Read.primary})
    BY <1>15 DEF ReconcilePodNotReady
  <2> DEFINE ready == ReadyPods \ {Read.primary}
  <2>2. ready \in SUBSET Pods /\ answering \in SUBSET Pods /\ data \in [Pods -> Nat]
    BY DEF ReadyPods, TypeOK
  <2>3. SelectFailoverCandidate(answering, data) \in Pods \cup {NoPod}
    BY <2>2, FailoverCandidateSound
  <2>4. HealthyDoltDBReplica(ready) \in Pods \cup {NoPod}
    <3> HIDE DEF ready
    <3> QED BY <2>2, SmallestPod DEF HealthyDoltDBReplica
  <2>5. pto' \in Pods \cup {NoPod}
    BY <2>1, <2>3, <2>4 DEF FailoverCandidate
  <2>6. used' \in Counters
    BY <2>1, ChargeSqlType
  <2>7. Read \in DoltDB
    BY DEF Read, TypeOK
  <2> QED BY <1>15, <2>5, <2>6, <2>7, PodsFacts
       DEF ReconcilePodNotReady, operator, servers, kube, TypeOK, PrimaryKnown
<1>16. CASE PatchPodIndex
  <2> DEFINE new == [pobj EXCEPT !.podIndex = pto]
  <2>1. new \in DoltDB /\ new.primary = pobj.primary
    BY <1>16 DEF PatchPodIndex, PrimaryKnown, TypeOK, DoltDB
  <2>2. /\ api' \in {api, MergePatch(api, pobj, new)}
        /\ pobj' \in {MergePatch(api, pobj, new), new}
        /\ queue' \in {queue, queue \cup {ppod}}
    BY <1>16 DEF PatchPodIndex
  <2> HIDE DEF new
  <2>3. api' \in DoltDB /\ pobj' \in DoltDB /\ api'.primary = api.primary
    BY <2>1, <2>2, MergePatchType DEF MergePatch, TypeOK
  <2>4. used' \in Counters
    BY <1>16, ChargeType DEF PatchPodIndex, TypeOK
  <2>5. queue' \subseteq Pods
    BY <1>16, <2>2 DEF PatchPodIndex, PrimaryKnown, TypeOK
  <2> QED BY <1>16, <2>3, <2>4, <2>5
       DEF PatchPodIndex, operator, servers, kube, TypeOK, PrimaryKnown
<1>17. CASE PatchSwitching
  <2>1. SetPrimarySwitching(pobj) \in DoltDB /\ SetPrimarySwitching(pobj).primary = pobj.primary
    BY SetPrimarySwitchingType DEF TypeOK, SetPrimarySwitching, DoltDB
  <2>2. /\ api' \in {api, MergePatch(api, pobj, SetPrimarySwitching(pobj))}
        /\ queue' \in {queue, queue \cup {ppod}}
    BY <1>17 DEF PatchSwitching
  <2>3. api' \in DoltDB /\ api'.primary = api.primary
    BY <2>1, <2>2, MergePatchType DEF MergePatch, TypeOK
  <2>4. used' \in Counters
    BY <1>17, ChargeType DEF PatchSwitching, TypeOK
  <2>5. queue' \subseteq Pods
    BY <1>17, <2>2 DEF PatchSwitching, PrimaryKnown, TypeOK
  <2> QED BY <1>17, <2>3, <2>4, <2>5, NewDoltDBType
       DEF PatchSwitching, operator, servers, kube, TypeOK, PrimaryKnown
<1>18. CASE EditPodIndex
  <2>1. api' \in DoltDB /\ api'.primary = api.primary
    BY <1>18 DEF EditPodIndex, TypeOK, DoltDB
  <2> QED BY <1>18, <2>1
       DEF EditPodIndex, operator, podController, servers, kube, TypeOK, Counters, PrimaryKnown
<1>19. ASSUME NEW p \in Pods, PodFails(p) PROVE TypeInv'
  BY <1>19 DEF PodFails, operator, podController, servers, TypeOK, Counters, PrimaryKnown
<1>20. ASSUME NEW p \in Pods, PodDeleted(p) PROVE TypeInv'
  <2>1. role' \in [Pods -> Role] /\ epoch' \in [Pods -> Nat] /\ data' \in [Pods -> Nat]
    <3>1. CASE UNCHANGED servers
      BY <3>1 DEF servers, TypeOK
    <3>2. CASE \E caughtUp \in SUBSET Pods : Transition(p, epoch[p] + 1, caughtUp)
      <4>1. epoch[p] + 1 \in Nat
        BY DEF TypeOK
      <4> QED BY <3>2, <4>1, TransitionType
    <3> QED BY <1>20, <3>1, <3>2 DEF PodDeleted
  <2>2. /\ pod' = [pod EXCEPT ![p] = "Absent"]
        /\ label' = [label EXCEPT ![p] = "none"]
        /\ used' = [used EXCEPT !.downs = @ + 1]
        /\ UNCHANGED <<api, cache, operator, svc, queue, podController>>
    BY <1>20 DEF PodDeleted
  <2> QED BY <2>1, <2>2 DEF operator, podController, TypeOK, Counters, PrimaryKnown
<1>21. ASSUME NEW p \in Pods, PodCreated(p) \/ PodBecomesReady(p) PROVE TypeInv'
  BY <1>21 DEF PodCreated, PodBecomesReady, operator, podController, servers, TypeOK, PrimaryKnown
<1>22. ASSUME NEW p \in Pods, ClientWrite(p) PROVE TypeInv'
  BY <1>22 DEF ClientWrite, operator, podController, kube, TypeOK, PrimaryKnown
<1>23. ASSUME NEW p \in Pods, NEW q \in Pods, Replicate(p, q) PROVE TypeInv'
  BY <1>23 DEF Replicate, operator, podController, kube, TypeOK, PrimaryKnown
<1>24. CASE CacheSync
  BY <1>24 DEF CacheSync, operator, podController, servers, kube, TypeOK, PrimaryKnown
<1>25. CASE OperatorRestart
  BY <1>25, ReturnType, NewDoltDBType
  DEF OperatorRestart, Return, servers, kube, TypeOK, Counters, PrimaryKnown, NewDoltDB
<1> QED
  BY <1>0, <1>1, <1>2, <1>3, <1>4, <1>5, <1>6, <1>7, <1>8, <1>9, <1>10, <1>11, <1>12, <1>13,
     <1>14, <1>15, <1>16, <1>17, <1>18, <1>19, <1>20, <1>21, <1>22, <1>23, <1>24, <1>25, Zenon
  DEF Next, DoltDBController, PodController, Environment

(* TypeInv is an invariant. *)
LEMMA Invariance == Spec => []TypeInv
  BY InitTypeInv, NextTypeInv, PTL DEF Spec

(***************************************************************************)
(* Type correctness of the operator, its servers and its environment.      *)
(***************************************************************************)
THEOREM TypeCorrect == Spec => []TypeOK
<1>1. TypeInv => TypeOK
  BY DEF TypeInv
<1> QED BY <1>1, Invariance, PTL

-----------------------------------------------------------------------------
(* The recorded epoch and the recorded primary. *)

(***************************************************************************)
(* The DoltDB controller is the only writer of status.replicationEpoch and *)
(* status.currentPrimaryPodIndex, so that without an informer that lags    *)
(* its copy of the two is exact while it runs, until a patch fails.        *)
(***************************************************************************)
CopyIsCurrent ==
  pc \notin {"Idle", "Failed"} => obj.epoch = api.epoch /\ obj.primary = api.primary

(* The Pod controller and the environment leave the two alone. *)
LEMMA OthersKeepStatus ==
  ASSUME TypeInv, PodController \/ Environment
  PROVE  /\ api'.epoch = api.epoch /\ api'.primary = api.primary
         /\ UNCHANGED <<obj, pc, next>> \/ pc' = "Idle"
<1> USE DEF TypeInv
<1>1. ASSUME NEW p \in Pods, ReconcilePodIgnored(p) \/ ReconcilePodNotReady(p)
      PROVE UNCHANGED <<api, obj, pc, next>>
  BY <1>1 DEF ReconcilePodIgnored, ReconcilePodNotReady, operator
<1>2. CASE PatchPodIndex
  <2> DEFINE new == [pobj EXCEPT !.podIndex = pto]
  <2>1. new.epoch = pobj.epoch /\ new.primary = pobj.primary
    BY DEF TypeOK, DoltDB
  <2>2. api' \in {api, MergePatch(api, pobj, new)} /\ UNCHANGED operator
    BY <1>2 DEF PatchPodIndex
  <2> HIDE DEF new
  <2> QED BY <2>1, <2>2 DEF MergePatch, operator
<1>3. CASE PatchSwitching
  <2>1. /\ SetPrimarySwitching(pobj).epoch = pobj.epoch
        /\ SetPrimarySwitching(pobj).primary = pobj.primary
    BY DEF SetPrimarySwitching, TypeOK, DoltDB
  <2>2. api' \in {api, MergePatch(api, pobj, SetPrimarySwitching(pobj))} /\ UNCHANGED operator
    BY <1>3 DEF PatchSwitching
  <2> QED BY <2>1, <2>2 DEF MergePatch, operator
<1>4. CASE EditPodIndex
  BY <1>4 DEF EditPodIndex, operator, TypeOK, DoltDB
<1>5. CASE CacheSync \/ OperatorRestart
  BY <1>5 DEF CacheSync, OperatorRestart, Return, operator
<1>6. ASSUME NEW p \in Pods,
             \/ PodFails(p) \/ PodDeleted(p) \/ PodCreated(p)
             \/ PodBecomesReady(p) \/ ClientWrite(p)
             \/ \E q \in Pods : Replicate(p, q)
      PROVE UNCHANGED <<api, obj, pc, next>>
  BY <1>6, Zenon DEF PodFails, PodDeleted, PodCreated, PodBecomesReady, ClientWrite, Replicate, operator
<1> QED BY <1>1, <1>2, <1>3, <1>4, <1>5, <1>6 DEF PodController, Environment

(* A step of the controller that is not the end of it leaves an exact copy. *)
LEMMA NextCopyIsCurrent ==
  ASSUME ~InformerLag, TypeInv, CopyIsCurrent, [Next]_vars
  PROVE  CopyIsCurrent'
<1>1. CASE UNCHANGED vars
  BY <1>1 DEF vars, operator, CopyIsCurrent
<1>2. CASE PodController \/ Environment
  BY <1>2, OthersKeepStatus DEF CopyIsCurrent
<1>3. CASE DoltDBController
  <2>1. CASE Reconcile
    BY <2>1 DEF Reconcile, Read, CopyIsCurrent
  <2>2. CASE StatusPhase \/ FinishSwitchover
    BY <2>2 DEF StatusPhase, FinishSwitchover, PatchAPI, GoTo, CopyIsCurrent
  <2>3. CASE BeginSwitchover
    BY <2>3 DEF BeginSwitchover, PatchAPI, Return, GoTo, CopyIsCurrent
  <2>4. CASE ReplicationPhase
    BY <2>4 DEF ReplicationPhase, Return, CopyIsCurrent
  <2>5. CASE ReconcilePodLabels \/ PatchFailed
    BY <2>5 DEF ReconcilePodLabels, PatchFailed, Return, GoTo, CopyIsCurrent
  <2>6. CASE \/ ServicePhase \/ ReconcileReplication \/ ShiftTrafficAwayFromPrimary
             \/ SetPrimaryReadOnly \/ ConfigureNewPrimary \/ ShiftTrafficToNewPrimary
    <3>1. pc \notin {"Idle", "Failed"} /\ UNCHANGED <<api, obj>>
      BY <2>6 DEF ServicePhase, ReconcileReplication, ShiftTrafficAwayFromPrimary,
                  SetPrimaryReadOnly, ConfigureNewPrimary, ShiftTrafficToNewPrimary
    <3> QED BY <3>1 DEF CopyIsCurrent
  <2> QED BY <1>3, <2>1, <2>2, <2>3, <2>4, <2>5, <2>6, Zenon DEF DoltDBController
<1> QED BY <1>1, <1>2, <1>3 DEF Next

(* No step records an epoch below the one that is recorded. *)
LEMMA StepKeepsEpoch ==
  ASSUME ~InformerLag, TypeInv, CopyIsCurrent, Next
  PROVE  api'.epoch >= api.epoch
<1> USE DEF TypeInv
<1>0. api.epoch \in Nat /\ obj.epoch \in Nat
  BY DEF TypeOK, DoltDB
<1>1. CASE PodController \/ Environment
  BY <1>0, <1>1, OthersKeepStatus
<1>2. CASE StatusPhase
  <2>1. PICK S \in SUBSET Pods : PatchAPI(StatusPatch(S)) \/ PatchFails(StatusPatch(S))
    BY <1>2 DEF StatusPhase
  <2>2. epoch \in [Pods -> Nat]
    BY DEF TypeOK
  <2>3. ObservedEpoch(S) \in Nat /\ obj.epoch <= ObservedEpoch(S)
    BY <1>0, <2>2, LargestOfPods DEF ObservedEpoch
  <2>4. StatusPatch(S) \in DoltDB /\ StatusPatch(S).epoch = ObservedEpoch(S)
    BY StatusPatchType DEF StatusPatch, TypeOK, DoltDB
  <2>5. obj.epoch = api.epoch
    BY <1>2 DEF StatusPhase, CopyIsCurrent
  <2>6. api'.epoch = api.epoch \/ api'.epoch = StatusPatch(S).epoch
    BY <2>1, <2>4, PatchEffect DEF TypeOK
  <2> QED BY <1>0, <2>3, <2>4, <2>5, <2>6
<1>3. CASE BeginSwitchover
  <2>1. SetPrimarySwitching(obj) \in DoltDB /\ SetPrimarySwitching(obj).epoch = obj.epoch
    BY SetPrimarySwitchingType DEF SetPrimarySwitching, TypeOK, DoltDB
  <2>2. \/ UNCHANGED api
        \/ PatchAPI(SetPrimarySwitching(obj)) \/ PatchFails(SetPrimarySwitching(obj))
    BY <1>3 DEF BeginSwitchover
  <2>3. api'.epoch = api.epoch
    BY <2>1, <2>2, PatchEffect DEF TypeOK
  <2> QED BY <1>0, <2>3
<1>4. CASE FinishSwitchover
  <2> DEFINE fin == [obj EXCEPT !.primary = obj.podIndex, !.conds.switching = NoPod]
             done == UpdateReplicationEpoch(fin, next)
  <2>1. fin \in DoltDB /\ fin.epoch = obj.epoch
    BY DEF TypeOK, DoltDB, Conditions
  <2>2. PatchAPI(done) \/ PatchFails(done)
    BY <1>4 DEF FinishSwitchover
  <2> HIDE DEF fin
  <2>3. done \in DoltDB /\ done.epoch \in Nat /\ done.epoch >= obj.epoch
    <3>1. next \in Nat
      BY DEF TypeOK
    <3>2. done \in DoltDB
      BY <2>1, <3>1, UpdateReplicationEpochType
    <3>3. done.epoch = IF next < obj.epoch THEN obj.epoch ELSE next
      BY <2>1 DEF UpdateReplicationEpoch, DoltDB
    <3> QED BY <1>0, <3>1, <3>2, <3>3
  <2> HIDE DEF done
  <2>4. obj.epoch = api.epoch
    BY <1>4 DEF FinishSwitchover, CopyIsCurrent
  <2>5. api'.epoch = api.epoch \/ api'.epoch = done.epoch
    BY <2>2, <2>3, PatchEffect DEF TypeOK
  <2> QED BY <1>0, <2>3, <2>4, <2>5
<1>5. CASE PatchFailed
  <2> DEFINE new == [obj EXCEPT !.conds.ready = "Failed"]
  <2>1. new.epoch = obj.epoch
    BY DEF TypeOK, DoltDB
  <2>2. api' \in {api, MergePatch(api, obj, new)}
    BY <1>5 DEF PatchFailed
  <2> HIDE DEF new
  <2>3. api'.epoch = api.epoch
    BY <2>1, <2>2 DEF MergePatch
  <2> QED BY <1>0, <2>3
<1>6. CASE \/ Reconcile \/ ServicePhase \/ ReplicationPhase \/ ReconcileReplication
           \/ ShiftTrafficAwayFromPrimary \/ SetPrimaryReadOnly \/ ConfigureNewPrimary
           \/ ShiftTrafficToNewPrimary \/ ReconcilePodLabels
  <2>1. UNCHANGED api
    BY <1>6 DEF Reconcile, ServicePhase, ReplicationPhase, ReconcileReplication,
                ShiftTrafficAwayFromPrimary, SetPrimaryReadOnly, ConfigureNewPrimary,
                ShiftTrafficToNewPrimary, ReconcilePodLabels
  <2> QED BY <1>0, <2>1
<1> QED BY <1>1, <1>2, <1>3, <1>4, <1>5, <1>6, Zenon DEF Next, DoltDBController

(***************************************************************************)
(* status.replicationEpoch never decreases, whatever SQL calls fail,       *)
(* whatever pods go away and wherever the operator restarts, as long as    *)
(* the controller reads its own writes.  (It may decrease when it does     *)
(* not: UpdateReplicationEpoch compares with the copy, not the server.)    *)
(***************************************************************************)
THEOREM EpochMonotone ==
  ASSUME ~InformerLag
  PROVE  Spec => EpochNeverRegresses
<1>1. Init => CopyIsCurrent
  BY DEF Init, CopyIsCurrent
<1>2. TypeInv /\ CopyIsCurrent /\ [Next]_vars => CopyIsCurrent'
  BY NextCopyIsCurrent
<1>3. TypeInv /\ CopyIsCurrent /\ [Next]_vars => [api'.epoch >= api.epoch]_vars
  BY StepKeepsEpoch
<1> QED BY <1>1, <1>2, <1>3, Invariance, PTL DEF Spec, EpochNeverRegresses

-----------------------------------------------------------------------------
(* Who the status names. *)

(***************************************************************************)
(* Once configureNewPrimary has succeeded, the server of the pod asked for *)
(* is primary at the switchover's epoch, unless its own preStop hook has   *)
(* moved it to a later one.  Nothing else touches it before the tail of    *)
(* the switchover records it.                                              *)
(***************************************************************************)
TargetPromoted ==
  LET p == obj.podIndex IN
  /\ pc \in {"ShiftAway", "ReadOnly", "Promote", "ShiftTo", "Finish"} => next # 0
  /\ pc \in {"ShiftTo", "Finish"} =>
       epoch[p] >= next /\ (epoch[p] = next => role[p] = "primary")

(* Every step preserves TargetPromoted. *)
LEMMA NextTargetPromoted ==
  ASSUME TypeInv, TargetPromoted, [Next]_vars
  PROVE  TargetPromoted'
<1> USE DEF TypeInv
<1>0. obj.podIndex \in Pods /\ next \in Nat /\ epoch \in [Pods -> Nat] /\ role \in [Pods -> Role]
  BY DEF TypeOK, DoltDB
<1>1. CASE UNCHANGED vars
  BY <1>1 DEF vars, operator, servers, TargetPromoted
<1>2. ASSUME NEW p \in Pods, PodDeleted(p) PROVE TargetPromoted'
  <2>1. UNCHANGED <<obj, pc, next>>
    BY <1>2 DEF PodDeleted, operator
  <2>2. CASE UNCHANGED servers
    BY <2>1, <2>2 DEF servers, TargetPromoted
  <2>3. CASE \E caughtUp \in SUBSET Pods : Transition(p, epoch[p] + 1, caughtUp)
    <3>1. epoch' = [epoch EXCEPT ![p] = epoch[p] + 1] /\ role' = [role EXCEPT ![p] = "standby"]
      BY <2>3 DEF Transition
    <3> QED BY <1>0, <2>1, <3>1 DEF TargetPromoted
  <2> QED BY <1>2, <2>2, <2>3 DEF PodDeleted
<1>3. CASE PodController \/ (Environment /\ ~\E p \in Pods : PodDeleted(p))
  <2>1. UNCHANGED <<obj, pc, next>> \/ pc' = "Idle"
    BY <1>3, OthersKeepStatus
  <2>2. UNCHANGED <<role, epoch>>
    BY <1>3, Zenon
    DEF PodController, Environment, ReconcilePodIgnored, ReconcilePodNotReady, PatchPodIndex,
        PatchSwitching, EditPodIndex, CacheSync, OperatorRestart, PodFails, PodCreated,
        PodBecomesReady, ClientWrite, Replicate, servers
  <2> QED BY <2>1, <2>2 DEF TargetPromoted
<1>4. CASE BeginSwitchover
  <2>1. CASE pc' = "ShiftAway"
    <3>1. PICK S \in SUBSET Pods : next' = NextEpoch(CurrentPrimaryAndEpoch(GetDBStates(S)))
      BY <1>4, <2>1 DEF BeginSwitchover, GoTo, Return
    <3> DEFINE seen == CurrentPrimaryAndEpoch(GetDBStates(S))
    <3>2. GetDBStates(S) \in [Pods -> [role : {"", "primary", "standby"}, epoch : Nat]]
      BY DEF GetDBStates, TypeOK, Role
    <3>3. seen.ok => seen.epoch \in Nat
      BY <3>2, CurrentPrimaryAndEpochSound
    <3>4. obj.epoch \in Nat
      BY DEF TypeOK, DoltDB
    <3> HIDE DEF seen
    <3>5. next' # 0
      BY <3>1, <3>3, <3>4 DEF seen, NextEpoch
    <3> QED BY <2>1, <3>5 DEF TargetPromoted
  <2>2. CASE pc' \in {"Labels", "Idle", "Failed"}
    BY <2>2 DEF TargetPromoted
  <2> QED BY <1>4, <2>1, <2>2 DEF BeginSwitchover, GoTo, Return
<1>5. CASE ShiftTrafficAwayFromPrimary \/ SetPrimaryReadOnly
  <2>1. pc' \in {"ReadOnly", "Promote", "Failed"} /\ next' = next /\ pc \in {"ShiftAway", "ReadOnly"}
    BY <1>5, Zenon DEF ShiftTrafficAwayFromPrimary, SetPrimaryReadOnly, GoTo
  <2> QED BY <2>1 DEF TargetPromoted
<1>6. CASE ConfigureNewPrimary
  <2> DEFINE p == obj.podIndex
  <2>1. AssumeRole(p, "primary", next, GoTo("ShiftTo")) /\ pc = "Promote" /\ UNCHANGED obj
    BY <1>6 DEF ConfigureNewPrimary
  <2>2. CASE pc' = "Failed"
    BY <2>2 DEF TargetPromoted
  <2>3. CASE /\ role' = [role EXCEPT ![p] = "primary"]
             /\ epoch' = [epoch EXCEPT ![p] = next]
             /\ GoTo("ShiftTo")
    BY <1>0, <2>1, <2>3 DEF GoTo, TargetPromoted
  <2> HIDE DEF p
  <2> QED BY <2>1, <2>2, <2>3, Zenon DEF AssumeRole, GoTo
<1>7. CASE ShiftTrafficToNewPrimary
  BY <1>7 DEF ShiftTrafficToNewPrimary, GoTo, servers, TargetPromoted
<1>8. CASE \/ Reconcile \/ StatusPhase \/ ServicePhase \/ ReplicationPhase
           \/ ReconcileReplication \/ FinishSwitchover \/ ReconcilePodLabels \/ PatchFailed
  <2>1. pc' \notin {"ShiftAway", "ReadOnly", "Promote", "ShiftTo", "Finish"}
    <3>1. CASE ReconcileReplication
      <4>1. pc' \in {"Configure", "Switchover", "Failed"}
        BY <3>1, Zenon DEF ReconcileReplication, AssumeRole, GoTo
      <4> QED BY <4>1
    <3>2. CASE ~ReconcileReplication
      BY <1>8, <3>2 DEF Reconcile, StatusPhase, ServicePhase, ReplicationPhase, FinishSwitchover,
                  ReconcilePodLabels, PatchFailed, GoTo, Return
    <3> QED BY <3>1, <3>2
  <2> QED BY <2>1 DEF TargetPromoted
<1> QED BY <1>1, <1>2, <1>3, <1>4, <1>5, <1>6, <1>7, <1>8, Zenon
     DEF Next, DoltDBController, Environment

(* No step names another primary before its server is promoted. *)
LEMMA StepChangesHands ==
  ASSUME ~InformerLag, TypeInv, CopyIsCurrent, TargetPromoted, Next,
         api.primary \notin {NoPod, api'.primary}
  PROVE  LET p == api'.primary
         IN  next # 0 /\ epoch[p] >= next /\ (epoch[p] = next => role[p] = "primary")
<1> USE DEF TypeInv
<1>1. CASE PodController \/ Environment
  BY <1>1, OthersKeepStatus
<1>2. CASE StatusPhase
  <2>1. PICK S \in SUBSET Pods : PatchAPI(StatusPatch(S)) \/ PatchFails(StatusPatch(S))
    BY <1>2 DEF StatusPhase
  <2>2. obj.primary = api.primary
    BY <1>2 DEF StatusPhase, CopyIsCurrent
  <2>3. StatusPatch(S) \in DoltDB /\ StatusPatch(S).primary = obj.primary
    BY <2>2, StatusPatchType DEF DefaultPrimary
  <2>4. api'.primary = api.primary
    BY <2>1, <2>3, PatchEffect DEF TypeOK
  <2> QED BY <2>4
<1>3. CASE BeginSwitchover
  <2>1. SetPrimarySwitching(obj) \in DoltDB /\ SetPrimarySwitching(obj).primary = obj.primary
    BY SetPrimarySwitchingType DEF SetPrimarySwitching, TypeOK, DoltDB
  <2>2. \/ UNCHANGED api
        \/ PatchAPI(SetPrimarySwitching(obj)) \/ PatchFails(SetPrimarySwitching(obj))
    BY <1>3 DEF BeginSwitchover
  <2>3. api'.primary = api.primary
    BY <2>1, <2>2, PatchEffect DEF TypeOK
  <2> QED BY <2>3
<1>4. CASE FinishSwitchover
  <2> DEFINE fin == [obj EXCEPT !.primary = obj.podIndex, !.conds.switching = NoPod]
             done == UpdateReplicationEpoch(fin, next)
  <2>1. fin \in DoltDB /\ fin.primary = obj.podIndex
    BY DEF TypeOK, DoltDB, Conditions
  <2>2. PatchAPI(done) \/ PatchFails(done)
    BY <1>4 DEF FinishSwitchover
  <2> HIDE DEF fin
  <2>3. done \in DoltDB /\ done.primary = obj.podIndex
    BY <2>1, UpdateReplicationEpochType DEF UpdateReplicationEpoch, TypeOK, DoltDB
  <2> HIDE DEF done
  <2>4. api'.primary = obj.podIndex
    BY <2>2, <2>3, PatchEffect DEF TypeOK
  <2> QED BY <1>4, <2>4 DEF FinishSwitchover, TargetPromoted
<1>5. CASE PatchFailed
  <2> DEFINE new == [obj EXCEPT !.conds.ready = "Failed"]
  <2>1. new.primary = obj.primary
    BY DEF TypeOK, DoltDB
  <2>2. api' \in {api, MergePatch(api, obj, new)}
    BY <1>5 DEF PatchFailed
  <2> HIDE DEF new
  <2> QED BY <2>1, <2>2 DEF MergePatch
<1>6. CASE \/ Reconcile \/ ServicePhase \/ ReplicationPhase \/ ReconcileReplication
           \/ ShiftTrafficAwayFromPrimary \/ SetPrimaryReadOnly \/ ConfigureNewPrimary
           \/ ShiftTrafficToNewPrimary \/ ReconcilePodLabels
  BY <1>6 DEF Reconcile, ServicePhase, ReplicationPhase, ReconcileReplication,
              ShiftTrafficAwayFromPrimary, SetPrimaryReadOnly, ConfigureNewPrimary,
              ShiftTrafficToNewPrimary, ReconcilePodLabels
<1> QED BY <1>1, <1>2, <1>3, <1>4, <1>5, <1>6, Zenon DEF Next, DoltDBController

(***************************************************************************)
(* The status names another primary only after the switchover has promoted *)
(* that pod's server, whatever else fails or changes in between.           *)
(***************************************************************************)
THEOREM PrimaryHandedOver ==
  ASSUME ~InformerLag
  PROVE  Spec => PrimaryChangesHands
<1>1. Init => CopyIsCurrent /\ TargetPromoted
  BY DEF Init, CopyIsCurrent, TargetPromoted
<1>2. TypeInv /\ CopyIsCurrent /\ TargetPromoted /\ [Next]_vars => (CopyIsCurrent /\ TargetPromoted)'
  BY NextCopyIsCurrent, NextTargetPromoted
<1>3. TypeInv /\ CopyIsCurrent /\ TargetPromoted /\ [Next]_vars =>
        [LET p == api'.primary IN
         api.primary \notin {NoPod, p} =>
           /\ next # 0
           /\ epoch[p] >= next
           /\ epoch[p] = next => role[p] = "primary"]_vars
  BY StepChangesHands
<1> QED BY <1>1, <1>2, <1>3, Invariance, PTL DEF Spec, PrimaryChangesHands
===========================================================================
