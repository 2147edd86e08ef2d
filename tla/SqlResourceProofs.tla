------------------------- MODULE SqlResourceProofs -------------------------
(***************************************************************************)
(* Databases, Users and Grants: the variables stay in their types, no      *)
(* finalizer is removed before its work is done, and no object of a live   *)
(* resource is dropped, for any choice of scopes and policies and any      *)
(* number of edits, password versions and faults.                          *)
(***************************************************************************)
EXTENDS SqlResource, TLAPS

(***************************************************************************)
(* The inductive invariants                                                *)
(***************************************************************************)

(* Steps of a finalization. *)
Finalizing == {"Cleanup", "RemoveFinalizer"}

(* The resource may be let go with its object in place. *)
MayStay(k) ==
  k \in SkipCleanup \/ doltdb = "gone" \/ (k = "grant" /\ userless)

(* When the finalizer is to be removed, the clean-up has been done. *)
CleanedUp ==
  \A k \in Kinds : pc[k] = "RemoveFinalizer" /\ Present(k) => MayStay(k)

(* A resource that is finalized stays in deletion until the finalizer goes. *)
FinalizedIsDeleting ==
  \A k \in Kinds : pc[k] \in Finalizing => cr[k].life = "deleting"

SqlInv ==
  /\ TypeOK
  /\ CleanedUp
  /\ FinalizedIsDeleting

-----------------------------------------------------------------------------
(***************************************************************************)
(* Types                                                                   *)
(***************************************************************************)

(* What a resource may be written as. *)
LEMMA ResourceTypes ==
  /\ Gone \in Resource
  /\ New \in Resource
  /\ \A r \in Resource :
       /\ [r EXCEPT !.finalizer = TRUE] \in Resource
       /\ [r EXCEPT !.life = "deleting"] \in Resource
       /\ \A c \in {"Unset", "False", "True"} : [r EXCEPT !.ready = c] \in Resource
BY DEF Gone, New, Resource

(* What a write to one resource makes of the resources. *)
LEMMA WriteTypes ==
  ASSUME NEW c \in [Kinds -> Resource], NEW k \in Kinds
  PROVE  /\ [c EXCEPT ![k].finalizer = TRUE] \in [Kinds -> Resource]
         /\ [c EXCEPT ![k].life = "deleting"] \in [Kinds -> Resource]
         /\ [c EXCEPT ![k].ready = "False"] \in [Kinds -> Resource]
         /\ [c EXCEPT ![k].ready = "True"] \in [Kinds -> Resource]
         /\ [c EXCEPT ![k] = Gone] \in [Kinds -> Resource]
         /\ [c EXCEPT ![k] = New] \in [Kinds -> Resource]
<1>1. c[k] \in Resource
  OBVIOUS
<1>2. /\ [c[k] EXCEPT !.finalizer = TRUE] \in Resource
      /\ [c[k] EXCEPT !.life = "deleting"] \in Resource
      /\ [c[k] EXCEPT !.ready = "False"] \in Resource
      /\ [c[k] EXCEPT !.ready = "True"] \in Resource
  BY <1>1, ResourceTypes
<1>3. \A r \in Resource : [c EXCEPT ![k] = r] \in [Kinds -> Resource]
  OBVIOUS
<1> QED BY <1>2, <1>3, ResourceTypes

(* What the statements make of the objects in the server. *)
LEMMA ObjectTypes ==
  ASSUME TypeOK
  PROVE  /\ CreateUser \in Objects /\ AlterUser \in Objects /\ UserApplied \in Objects
         /\ CreateDatabase \in Objects
         /\ \A i \in CreateDoltIgnore, b \in CreateBranches :
              DatabaseApplied(i, b) \in Objects
         /\ Grant \in Objects
         /\ \A k \in Kinds : Dropped(k) \in Objects
<1>1. sql \in Objects /\ found.password \in 0 .. MaxSecret
  BY SqlAssumption DEF TypeOK
<1>2. CreateUser \in Objects /\ AlterUser \in Objects
  BY <1>1 DEF CreateUser, AlterUser, Objects
<1>3. UserApplied \in Objects
  BY <1>2 DEF UserApplied
<1>4. CreateDatabase \in Objects
  BY <1>1 DEF CreateDatabase, Objects, Parts
<1>5. \A i \in CreateDoltIgnore, b \in CreateBranches : DatabaseApplied(i, b) \in Objects
  BY <1>4 DEF DatabaseApplied, CreateDoltIgnore, CreateBranches, Objects, Parts
<1>6. Grant \in Objects
  BY <1>1 DEF Grant, Objects
<1>7. DropDatabase \in Objects /\ DropUser \in Objects /\ Revoke \in Objects
  <2>1. 0 \in 0 .. MaxSecret
    BY SqlAssumption
  <2> QED BY <1>1, <2>1 DEF DropDatabase, DropUser, Revoke, Objects
<1>8. \A k \in Kinds : Dropped(k) \in Objects
  BY <1>7 DEF Dropped, Kinds
<1> QED BY <1>2, <1>3, <1>4, <1>5, <1>6, <1>8

(* The initial states are of their types. *)
LEMMA TypeInit == Init => TypeOK
<1> SUFFICES ASSUME Init PROVE TypeOK
  OBVIOUS
<1>1. cr \in [Kinds -> Resource]
  BY ResourceTypes DEF Init
<1>2. sql \in Objects
  BY SqlAssumption DEF Init, Objects
<1>3. obj \in [Kinds -> Resource]
  BY ResourceTypes DEF Init
<1>4. named \in BOOLEAN /\ userless \in BOOLEAN
  BY DEF Init
<1> QED BY <1>1, <1>2, <1>3, <1>4, SqlAssumption DEF Init, TypeOK

(* Every step of a controller keeps the types. *)
LEMMA TypeReconcile ==
  ASSUME TypeOK, NEW k \in Kinds, Reconcile(k)
  PROVE  TypeOK'
<1> USE SqlAssumption
<1>w. /\ [cr EXCEPT ![k].finalizer = TRUE] \in [Kinds -> Resource]
      /\ [cr EXCEPT ![k].ready = "False"] \in [Kinds -> Resource]
      /\ [cr EXCEPT ![k].ready = "True"] \in [Kinds -> Resource]
      /\ [cr EXCEPT ![k] = Gone] \in [Kinds -> Resource]
      /\ cr \in [Kinds -> Resource]
  BY WriteTypes DEF TypeOK
<1>0. /\ faults' \in 0 .. MaxFaults
      /\ cr[k] \in Resource /\ Gone \in Resource
  <2>1. UNCHANGED faults \/ Fault
    BY DEF Reconcile, Begin, Apply, ApplyFails, ReportFailure, AddFinalizer, Report,
           BeginFinalize, Cleanup, CleanupFails, RemoveFinalizer, Lookup
  <2> QED BY <2>1, ResourceTypes DEF Fault, FaultsLeft, TypeOK
<1>1. CASE Begin(k)
  BY <1>0, <1>1 DEF Begin, TypeOK, world
<1>2. CASE Apply(k)
  <2>1. sql' \in Objects
    BY <1>2, ObjectTypes DEF Apply
  <2> QED BY <1>0, <1>2, <2>1 DEF Apply, GoTo, TypeOK, world
<1>3. CASE ApplyFails(k)
  <2>1. sql' \in Objects
    BY <1>3, ObjectTypes DEF ApplyFails, TypeOK
  <2> QED BY <1>0, <1>3, <2>1 DEF ApplyFails, GoTo, TypeOK, world
<1>4. CASE ReportFailure(k)
  <2>1. cr' \in [Kinds -> Resource]
    BY <1>4, <1>w DEF ReportFailure
  <2> QED BY <1>0, <1>4, <2>1 DEF ReportFailure, Requeue, TypeOK, world
<1>5. CASE AddFinalizer(k)
  <2>1. cr' \in [Kinds -> Resource]
    BY <1>5, <1>w DEF AddFinalizer
  <2> QED BY <1>0, <1>5, <2>1 DEF AddFinalizer, GoTo, TypeOK, world
<1>6. CASE Report(k)
  <2>1. cr' \in [Kinds -> Resource]
    BY <1>6, <1>w DEF Report
  <2> QED BY <1>0, <1>6, <2>1 DEF Report, Requeue, TypeOK, world
<1>7. CASE BeginFinalize(k)
  BY <1>0, <1>7 DEF BeginFinalize, TypeOK, world
<1>8. CASE Cleanup(k)
  <2>1. sql' \in Objects
    BY <1>8, ObjectTypes DEF Cleanup, TypeOK
  <2> QED BY <1>0, <1>8, <2>1 DEF Cleanup, GoTo, TypeOK, world
<1>9. CASE CleanupFails(k)
  <2>1. sql' \in Objects
    BY <1>9, ObjectTypes DEF CleanupFails, TypeOK
  <2> QED BY <1>0, <1>9, <2>1 DEF CleanupFails, Requeue, TypeOK, world
<1>10. CASE RemoveFinalizer(k)
  <2>1. cr' \in [Kinds -> Resource]
    BY <1>10, <1>w DEF RemoveFinalizer
  <2>2. obj' \in [Kinds -> Resource] /\ queue' \subseteq Kinds
    BY <1>10, <1>0 DEF RemoveFinalizer, Requeue, Done, TypeOK
  <2>3. pc' = [pc EXCEPT ![k] = "Idle"]
    BY <1>10 DEF RemoveFinalizer, Requeue, Done
  <2> QED BY <1>0, <1>10, <2>1, <2>2, <2>3 DEF RemoveFinalizer, TypeOK, world
<1>11. CASE k = "user" /\ Lookup
  <2>1. found' \in [password : 1 .. MaxSecret, exists : BOOLEAN]
    <3>1. secret \in 1 .. MaxSecret /\ (sql.user # 0) \in BOOLEAN /\ FALSE \in BOOLEAN
      BY DEF TypeOK
    <3>2. \/ found' = [password |-> secret, exists |-> sql.user # 0]
          \/ found' = [password |-> secret, exists |-> FALSE]
      BY <1>11 DEF Lookup
    <3>3. \A e \in BOOLEAN : [password |-> secret, exists |-> e]
            \in [password : 1 .. MaxSecret, exists : BOOLEAN]
      BY <3>1
    <3> QED BY <3>1, <3>2, <3>3
  <2> QED BY <1>0, <1>11, <2>1 DEF Lookup, GoTo, TypeOK, world
<1> QED BY <1>1, <1>2, <1>3, <1>4, <1>5, <1>6, <1>7, <1>8, <1>9, <1>10, <1>11 DEF Reconcile

(* Users, outages and restarts. *)
Environment ==
  \/ \E k \in Kinds : Create(k) \/ Delete(k)
  \/ RotateSecret \/ Outage \/ Recover \/ DeleteDoltDB \/ OperatorRestart

(* Every step of users, the cluster and the process keeps the types. *)
LEMMA TypeEnvironment ==
  ASSUME TypeOK, Environment
  PROVE  TypeOK'
<1> USE SqlAssumption
<1>1. ASSUME NEW k \in Kinds, Create(k) PROVE TypeOK'
  <2>1. cr' \in [Kinds -> Resource]
    <3>1. [cr EXCEPT ![k] = New] \in [Kinds -> Resource]
      BY WriteTypes DEF TypeOK
    <3> QED BY <1>1, <3>1 DEF Create
  <2> QED BY <1>1, <2>1 DEF Create, TypeOK
<1>2. ASSUME NEW k \in Kinds, Delete(k) PROVE TypeOK'
  <2>1. cr' \in [Kinds -> Resource]
    <3>1. /\ [cr EXCEPT ![k].life = "deleting"] \in [Kinds -> Resource]
          /\ [cr EXCEPT ![k] = Gone] \in [Kinds -> Resource]
      BY WriteTypes DEF TypeOK
    <3> QED BY <1>2, <3>1 DEF Delete, TypeOK
  <2>2. edits' \in 0 .. MaxEdits
    <3>1. edits \in 0 .. MaxEdits /\ edits < MaxEdits /\ edits' = edits + 1
      BY <1>2 DEF Delete, TypeOK
    <3> QED BY <3>1
  <2>3. queue' \subseteq Kinds
    BY <1>2 DEF Delete, TypeOK
  <2> QED BY <1>2, <2>1, <2>2, <2>3 DEF Delete, TypeOK
<1>3. CASE RotateSecret
  BY <1>3 DEF RotateSecret, TypeOK, Kinds
<1>4. CASE Outage
  BY <1>4 DEF Outage, Fault, FaultsLeft, TypeOK
<1>5. CASE Recover
  BY <1>5 DEF Recover, TypeOK
<1>6. CASE DeleteDoltDB
  BY <1>6 DEF DeleteDoltDB, TypeOK
<1>7. CASE OperatorRestart
  BY <1>7, ResourceTypes DEF OperatorRestart, Fault, FaultsLeft, TypeOK, world
<1> QED BY <1>1, <1>2, <1>3, <1>4, <1>5, <1>6, <1>7 DEF Environment

(* A step is one of a controller or one of its environment. *)
LEMMA StepKinds == Next => Environment \/ \E k \in Kinds : Reconcile(k)
BY DEF Next, Environment

(* A step that changes nothing keeps the types. *)
LEMMA TypeStep == TypeOK /\ [Next]_vars => TypeOK'
<1> SUFFICES ASSUME TypeOK, [Next]_vars PROVE TypeOK'
  OBVIOUS
<1>1. CASE Next
  BY <1>1, StepKinds, TypeReconcile, TypeEnvironment
<1>2. CASE UNCHANGED vars
  BY <1>2 DEF vars, world, TypeOK
<1> QED BY <1>1, <1>2

(***************************************************************************)
(* The resources, the objects in the server and the controllers' variables *)
(* stay in their types, whatever is created, deleted, refused or           *)
(* interrupted.                                                            *)
(***************************************************************************)
THEOREM TypeCorrect == Spec => []TypeOK
BY TypeInit, TypeStep, PTL DEF Spec

-----------------------------------------------------------------------------
(***************************************************************************)
(* What is finalized has been dropped                                      *)
(***************************************************************************)

(* What each statement makes of the objects: it touches those of its own   *)
(* kind, and dropping an account takes the privileges with it.             *)
LEMMA StatementEffects ==
  ASSUME TypeOK
  PROVE  /\ \A s \in {CreateUser, AlterUser, UserApplied} :
              s.user # 0 /\ s.database = sql.database /\ s.grant = sql.grant
         /\ CreateDatabase.user = sql.user /\ CreateDatabase.grant = sql.grant
         /\ CreateDatabase.database # {}
         /\ \A i \in CreateDoltIgnore, b \in CreateBranches :
              LET s == DatabaseApplied(i, b) IN
              s.user = sql.user /\ s.grant = sql.grant /\ s.database # {}
         /\ Grant.user = sql.user /\ Grant.grant /\ Grant.database = sql.database
         /\ LET s == Dropped("database") IN
            s.database = {} /\ s.user = sql.user /\ s.grant = sql.grant
         /\ LET s == Dropped("user") IN
            s.user = 0 /\ s.grant = FALSE /\ s.database = sql.database
         /\ LET s == Dropped("grant") IN
            s.grant = FALSE /\ s.user = sql.user /\ s.database = sql.database
<1>1. sql \in Objects /\ found.password # 0
  BY SqlAssumption DEF TypeOK
<1>2. \A s \in {CreateUser, AlterUser} :
        s.user # 0 /\ s.database = sql.database /\ s.grant = sql.grant
  BY <1>1 DEF CreateUser, AlterUser, Objects
<1>3. /\ UserApplied.user # 0 /\ UserApplied.database = sql.database
      /\ UserApplied.grant = sql.grant
  BY <1>2 DEF UserApplied
<1>4. /\ CreateDatabase \in Objects
      /\ CreateDatabase.user = sql.user /\ CreateDatabase.grant = sql.grant
      /\ CreateDatabase.database # {}
  BY <1>1 DEF CreateDatabase, Objects, Parts
<1>5. \A i \in CreateDoltIgnore, b \in CreateBranches :
        LET s == DatabaseApplied(i, b) IN
        s.user = sql.user /\ s.grant = sql.grant /\ s.database # {}
  BY <1>4 DEF DatabaseApplied, Objects
<1>6. Grant.user = sql.user /\ Grant.grant /\ Grant.database = sql.database
  BY <1>1 DEF Grant, Objects
<1>7. LET s == Dropped("database") IN
      s.database = {} /\ s.user = sql.user /\ s.grant = sql.grant
  BY <1>1 DEF Dropped, DropDatabase, Objects
<1>8. LET s == Dropped("user") IN
      s.user = 0 /\ s.grant = FALSE /\ s.database = sql.database
  BY <1>1 DEF Dropped, DropUser, Objects
<1>9. LET s == Dropped("grant") IN
      s.grant = FALSE /\ s.user = sql.user /\ s.database = sql.database
  BY <1>1 DEF Dropped, Revoke, Objects
<1> QED BY <1>2, <1>3, <1>4, <1>5, <1>6, <1>7, <1>8, <1>9

(* Whether an object is there, kind by kind, now and after a step. *)
LEMMA PresentKinds ==
  /\ Present("database") <=> sql.database # {}
  /\ Present("user") <=> sql.user # 0
  /\ Present("grant") <=> sql.grant
  /\ Present("database")' <=> sql'.database # {}
  /\ Present("user")' <=> sql'.user # 0
  /\ Present("grant")' <=> sql'.grant
BY DEF Present

(* What a controller does to the objects. *)
LEMMA ObjectSteps ==
  ASSUME TypeOK, NEW k \in Kinds, Reconcile(k)
  PROVE  /\ \A j \in Kinds \ {k} : Present(j)' => Present(j)
         /\ Present(k)' => Present(k) \/ pc[k] = "Apply"
         /\ \A j \in Kinds : Present(j) /\ ~Present(j)' =>
              pc[k] = "Cleanup" /\ (j = k \/ (j = "grant" /\ k = "user"))
<1> USE StatementEffects, PresentKinds DEF Kinds
<1>1. CASE UNCHANGED sql
  BY <1>1 DEF Present
<1>2. CASE pc[k] = "Apply" /\ sql' # sql
  <2>1. \/ k = "database" /\ sql'.database # {} /\ sql'.user = sql.user /\ sql'.grant = sql.grant
        \/ k = "user" /\ sql'.user # 0 /\ sql'.database = sql.database /\ sql'.grant = sql.grant
        \/ /\ k = "grant" /\ sql'.grant /\ sql'.user = sql.user
           /\ sql'.database = sql.database /\ sql.user # 0
    BY <1>2 DEF Reconcile, Begin, Apply, ApplyFails, ReportFailure, AddFinalizer, Report,
                BeginFinalize, Cleanup, CleanupFails, RemoveFinalizer, Lookup, At
  <2> QED BY <2>1, <1>2
<1>3. CASE pc[k] # "Apply" /\ sql' # sql
  <2>1. pc[k] = "Cleanup" /\ sql' = Dropped(k)
    BY <1>3 DEF Reconcile, Begin, Apply, ApplyFails, ReportFailure, AddFinalizer, Report,
                BeginFinalize, Cleanup, CleanupFails, RemoveFinalizer, Lookup, At
  <2>2. CASE k = "database"
    BY <2>1, <2>2
  <2>3. CASE k = "user"
    BY <2>1, <2>3
  <2>4. CASE k = "grant"
    BY <2>1, <2>4
  <2> QED BY <2>2, <2>3, <2>4
<1> QED BY <1>1, <1>2, <1>3

(* A controller leaves the others' resources and their steps alone, and    *)
(* what may stay may stay until the Grant is looked at again.              *)
LEMMA OthersSteps ==
  ASSUME TypeOK, NEW k \in Kinds, Reconcile(k)
  PROVE  /\ \A j \in Kinds \ {k} : pc'[j] = pc[j] /\ cr'[j] = cr[j]
         /\ \A j \in Kinds \ {k} : MayStay(j)' = MayStay(j)
<1>1. doltdb' = doltdb /\ (k # "grant" => userless' = userless)
  BY DEF Reconcile, Begin, Apply, ApplyFails, ReportFailure, AddFinalizer, Report,
         BeginFinalize, Cleanup, CleanupFails, RemoveFinalizer, Lookup, world, TypeOK
<1>2. \A j \in Kinds \ {k} : pc'[j] = pc[j]
  BY DEF Reconcile, Begin, Apply, ApplyFails, ReportFailure, AddFinalizer, Report,
         BeginFinalize, Cleanup, CleanupFails, RemoveFinalizer, Lookup,
         GoTo, Requeue, Done, TypeOK
<1>3. \A j \in Kinds \ {k} : cr'[j] = cr[j]
  BY DEF Reconcile, Begin, Apply, ApplyFails, ReportFailure, AddFinalizer, Report,
         BeginFinalize, Cleanup, CleanupFails, RemoveFinalizer, Lookup, TypeOK
<1> QED BY <1>1, <1>2, <1>3 DEF MayStay

(* What a controller does to its own resource. *)
LEMMA OwnResource ==
  ASSUME TypeOK, NEW k \in Kinds, Reconcile(k)
  PROVE  /\ pc[k] # "RemoveFinalizer" => cr'[k].life = cr[k].life
         /\ pc'[k] \in Finalizing => cr'[k].life = cr[k].life /\
                                     (pc[k] \in Finalizing \/ cr[k].life = "deleting")
<1> USE DEF At, Finalizing, Exists
<1>1. CASE Begin(k)
  BY <1>1 DEF Begin, TypeOK
<1>2. CASE Apply(k)
  BY <1>2 DEF Apply, GoTo, TypeOK
<1>3. CASE ApplyFails(k)
  BY <1>3 DEF ApplyFails, GoTo, TypeOK
<1>4. CASE ReportFailure(k)
  BY <1>4 DEF ReportFailure, Requeue, TypeOK, Resource
<1>5. CASE AddFinalizer(k)
  BY <1>5 DEF AddFinalizer, GoTo, TypeOK, Resource
<1>6. CASE Report(k)
  BY <1>6 DEF Report, Requeue, TypeOK, Resource
<1>7. CASE BeginFinalize(k)
  BY <1>7 DEF BeginFinalize, TypeOK
<1>8. CASE Cleanup(k)
  BY <1>8 DEF Cleanup, GoTo, TypeOK
<1>9. CASE CleanupFails(k)
  BY <1>9 DEF CleanupFails, Requeue, TypeOK
<1>10. CASE RemoveFinalizer(k)
  BY <1>10 DEF RemoveFinalizer, Requeue, Done, TypeOK
<1>11. CASE k = "user" /\ Lookup
  BY <1>11 DEF Lookup, GoTo, TypeOK
<1> QED BY <1>1, <1>2, <1>3, <1>4, <1>5, <1>6, <1>7, <1>8, <1>9, <1>10, <1>11 DEF Reconcile

(* The finalizer is only on its way out with nothing left to clean up. *)
LEMMA CleanedUpStep ==
  ASSUME SqlInv, NEW k \in Kinds, Reconcile(k)
  PROVE  CleanedUp'
<1> SUFFICES ASSUME NEW j \in Kinds, pc'[j] = "RemoveFinalizer", Present(j)'
             PROVE  MayStay(j)'
  BY DEF CleanedUp
<1> USE DEF SqlInv
<1>1. CASE j # k
  BY <1>1, OthersSteps, ObjectSteps DEF CleanedUp
<1>2. CASE j = k
  <2>1. \/ BeginFinalize(k) /\ (doltdb = "gone" \/ k \in SkipCleanup)
        \/ Cleanup(k)
    <3>1. CASE BeginFinalize(k)
      BY <1>2, <3>1 DEF BeginFinalize, TypeOK
    <3>2. CASE Begin(k)
      BY <1>2, <3>2 DEF Begin, At, TypeOK
    <3> QED
      BY <1>2, <3>1, <3>2
      DEF Reconcile, Apply, ApplyFails, ReportFailure, AddFinalizer, Report,
          CleanupFails, RemoveFinalizer, Lookup, GoTo, Requeue, Done, TypeOK
  <2>2. CASE BeginFinalize(k) /\ (doltdb = "gone" \/ k \in SkipCleanup)
    BY <1>2, <2>2 DEF MayStay, BeginFinalize, world
  <2>3. CASE Cleanup(k) /\ sql' = Dropped(k)
    BY <1>2, <2>3, StatementEffects, PresentKinds DEF Kinds
  <2>4. CASE Cleanup(k) /\ sql' # Dropped(k)
    BY <1>2, <2>4 DEF Cleanup, MayStay
  <2> QED BY <2>1, <2>2, <2>3, <2>4
<1> QED BY <1>1, <1>2

(* Every step of a controller keeps the invariant. *)
LEMMA SqlReconcile ==
  ASSUME SqlInv, NEW k \in Kinds, Reconcile(k)
  PROVE  SqlInv'
<1> USE DEF SqlInv
<1>1. TypeOK'
  BY TypeReconcile
<1>4. CleanedUp'
  BY CleanedUpStep
<1>5. FinalizedIsDeleting'
  <2> SUFFICES ASSUME NEW j \in Kinds, pc'[j] \in Finalizing
               PROVE  cr'[j].life = "deleting"
    BY DEF FinalizedIsDeleting
  <2>1. CASE j # k
    BY <2>1, OthersSteps DEF FinalizedIsDeleting
  <2>2. CASE j = k
    BY <2>2, OwnResource DEF FinalizedIsDeleting
  <2> QED BY <2>1, <2>2
<1> QED BY <1>1, <1>4, <1>5

(* Only a finalizer ends a deletion. *)
LEMMA EnvironmentKeepsDeleting ==
  ASSUME TypeOK, Environment
  PROVE  \A j \in Kinds : cr[j].life = "deleting" => cr'[j].life = "deleting"
<1> DEFINE Kept == \A j \in Kinds : cr[j].life = "deleting" => cr'[j].life = "deleting"
<1>1. ASSUME NEW k \in Kinds, Create(k) PROVE Kept
  BY <1>1 DEF Create, Exists, New, Gone, TypeOK
<1>2. ASSUME NEW k \in Kinds, Delete(k) PROVE Kept
  BY <1>2 DEF Delete, Exists, TypeOK, Resource
<1>3. CASE UNCHANGED cr
  BY <1>3
<1> QED BY <1>1, <1>2, <1>3 DEF Environment, RotateSecret, Outage, Recover,
                                DeleteDoltDB, OperatorRestart

(* Every step of users, the cluster and the process keeps the invariant. *)
LEMMA SqlEnvironment ==
  ASSUME SqlInv, Environment
  PROVE  SqlInv'
<1> USE DEF SqlInv
<1>1. TypeOK'
  BY TypeEnvironment
<1>2. sql' = sql
  BY DEF Environment, Create, Delete, RotateSecret, Outage, Recover, DeleteDoltDB,
         OperatorRestart
<1>3. /\ \A j \in Kinds : pc'[j] = pc[j] \/ pc'[j] = "Idle"
      /\ userless' = userless
      /\ doltdb = "gone" => doltdb' = "gone"
  BY DEF Environment, Create, Delete, RotateSecret, Outage, Recover, DeleteDoltDB,
         OperatorRestart, world, TypeOK
<1>4. \A j \in Kinds : cr[j].life = "deleting" => cr'[j].life = "deleting"
  BY EnvironmentKeepsDeleting
<1>5. CleanedUp'
  BY <1>2, <1>3 DEF CleanedUp, MayStay, Present
<1>6. FinalizedIsDeleting'
  BY <1>3, <1>4 DEF FinalizedIsDeleting, Finalizing
<1> QED BY <1>1, <1>5, <1>6

(* The invariant holds at the start, when the server is empty. *)
LEMMA SqlInit == Init => SqlInv
<1> SUFFICES ASSUME Init PROVE SqlInv
  OBVIOUS
<1>1. \A k \in Kinds : ~Present(k)
  BY DEF Init, Present, Kinds
<1>2. \A k \in Kinds : pc[k] = "Idle"
  BY DEF Init
<1> QED BY <1>1, <1>2, TypeInit
        DEF SqlInv, CleanedUp, FinalizedIsDeleting, Finalizing, Init

(* The invariant is kept by every step. *)
LEMMA SqlStep == SqlInv /\ [Next]_vars => SqlInv'
<1> SUFFICES ASSUME SqlInv, [Next]_vars PROVE SqlInv'
  OBVIOUS
<1>1. CASE Next
  BY <1>1, StepKinds, SqlReconcile, SqlEnvironment
<1>2. CASE UNCHANGED vars
  BY <1>2 DEF vars, world, SqlInv, TypeOK, CleanedUp, FinalizedIsDeleting,
              MayStay, Exists, Present
<1> QED BY <1>1, <1>2

(* So it holds in every reachable state. *)
LEMMA SqlInvariant == Spec => []SqlInv
BY SqlInit, SqlStep, PTL DEF Spec

(* A step that lets a resource go removes its finalizer. *)
LEMMA FinalizedStep ==
  ASSUME SqlInv, [Next]_vars
  PROVE  \A k \in Kinds : cr[k].life = "deleting" /\ cr'[k].life = "absent" =>
           \/ ~Present(k)
           \/ k \in SkipCleanup \/ doltdb = "gone"
           \/ k = "grant" /\ userless
<1> SUFFICES ASSUME NEW k \in Kinds, cr[k].life = "deleting", cr'[k].life = "absent"
             PROVE  ~Present(k) \/ MayStay(k)
  BY DEF MayStay
<1> USE DEF SqlInv
<1>1. CASE UNCHANGED vars
  BY <1>1 DEF vars
<1>2. CASE Environment
  BY <1>2, EnvironmentKeepsDeleting
<1>3. ASSUME NEW j \in Kinds, Reconcile(j) PROVE ~Present(k) \/ MayStay(k)
  <2>1. j = k /\ pc[k] = "RemoveFinalizer"
    BY <1>3, OthersSteps, OwnResource
  <2> QED BY <2>1 DEF CleanedUp
<1> QED BY <1>1, <1>2, <1>3, StepKinds

(***************************************************************************)
(* A finalizer is removed only when the object is gone, the policy is      *)
(* Skip, the DoltDB is gone, or a Grant found no User: no failure, lost    *)
(* answer, restart or other controller in between makes it let a resource  *)
(* go with its work undone.                                                *)
(***************************************************************************)
THEOREM FinalizersDoTheirWork == Spec => FinalizedIsDropped
BY SqlInvariant, FinalizedStep, PTL DEF Spec, FinalizedIsDropped

(* A controller drops an object only in the clean-up of its own deletion. *)
LEMMA LiveObjectsStep ==
  ASSUME SqlInv, [Next]_vars
  PROVE  \A k \in Kinds : Present(k) /\ ~Present(k)' =>
           \/ cr[k].life = "deleting"
           \/ k = "grant" /\ cr["user"].life = "deleting"
<1>1. ASSUME NEW j \in Kinds, Reconcile(j)
      PROVE  \A k \in Kinds : Present(k) /\ ~Present(k)' =>
               \/ cr[k].life = "deleting"
               \/ k = "grant" /\ cr["user"].life = "deleting"
  <2>1. pc[j] = "Cleanup" => cr[j].life = "deleting"
    BY DEF SqlInv, FinalizedIsDeleting, Finalizing
  <2> QED BY <1>1, <2>1, ObjectSteps DEF SqlInv
<1>2. CASE UNCHANGED sql
  BY <1>2 DEF Present
<1>3. CASE Environment
  BY <1>2, <1>3 DEF Environment, Create, Delete, RotateSecret, Outage, Recover,
                    DeleteDoltDB, OperatorRestart
<1> QED BY <1>1, <1>2, <1>3, StepKinds DEF vars

(***************************************************************************)
(* An object is dropped only while its resource is being deleted, or for   *)
(* privileges their User: no failure, restart or new resource of the same  *)
(* name makes a finalizer drop what a live resource asks for.              *)
(***************************************************************************)
THEOREM ObjectsOfLiveResourcesStay == Spec => LiveObjectsStay
BY SqlInvariant, LiveObjectsStep, PTL DEF Spec, LiveObjectsStay

===========================================================================
