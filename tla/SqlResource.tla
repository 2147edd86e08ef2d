---------------------------- MODULE SqlResource ----------------------------
(***************************************************************************)
(* Databases, Users and Grants.  Each custom resource stands for an object *)
(* in the Dolt server, which its controller creates, keeps up to date and  *)
(* drops under a finalizer.  The three controllers share one reconciler    *)
(* and one finalizer (SqlReconciler, SqlFinalizer) and run concurrently;   *)
(* here there is one resource of each kind, and the Grant is to the User's *)
(* account.                                                                *)
(***************************************************************************)
EXTENDS Naturals

CONSTANTS
  Scopes,       \* the sets of kinds that users may work with
  SkipCleanup,  \* the kinds whose resource has cleanupPolicy Skip
  MaxSecret,    \* bound on the versions of the password Secret
  MaxEdits,     \* bound on resources created and deleted by users
  MaxFaults     \* bound on failed calls, restarts and outages

Kinds == {"database", "user", "grant"}

ASSUME SqlAssumption ==
  /\ Scopes \subseteq SUBSET Kinds
  /\ SkipCleanup \subseteq Kinds
  /\ MaxSecret \in Nat \ {0}
  /\ {MaxEdits, MaxFaults} \subseteq Nat

VARIABLES
  cr,       \* the resources in the API server
  scope,    \* the kinds of which users create resources
  doltdb,   \* the cluster they refer to: healthy, unhealthy or gone
  secret,   \* the version of the password in the Secret
  sql,      \* the objects in the Dolt server
  queue,    \* the resources waiting for a reconciliation
  pc,       \* the next step of each controller
  obj,      \* its local copy of the resource
  found,    \* what the User controller found out: the password, and whether
            \* the account exists
  named,    \* the User resource has the name of the account, spec.name
  userless, \* the clean-up of the Grant found no User, and revoked nothing
  edits,    \* edits so far
  faults    \* faults so far

world == <<scope, named, doltdb, secret, edits>>
vars == <<cr, sql, queue, pc, obj, found, userless, faults, world>>

-----------------------------------------------------------------------------
(* `ready' is the status of the condition Ready. *)
Resource ==
  [life      : {"absent", "live", "deleting"},
   finalizer : BOOLEAN,
   ready     : {"Unset", "False", "True"}]

Gone == [life |-> "absent", finalizer |-> FALSE, ready |-> "Unset"]

New == [Gone EXCEPT !.life = "live"]

Exists(k) == cr[k].life # "absent"

(* What makes up a Database in the server. *)
Parts == {"schema", "dolt_ignore", "branches"}

(* The account is its password's version, 0 when there is none. *)
Objects == [database : SUBSET Parts, user : 0 .. MaxSecret, grant : BOOLEAN]

Present(k) ==
  CASE k = "database" -> sql.database # {}
    [] k = "user"     -> sql.user # 0
    [] k = "grant"    -> sql.grant

FaultsLeft == faults < MaxFaults

Fault == FaultsLeft /\ faults' = faults + 1

At(k, step) == pc[k] = step

GoTo(k, step) == pc' = [pc EXCEPT ![k] = step] /\ UNCHANGED <<queue, obj>>

(* The reconciliation ends and is to be repeated: after an error with the  *)
(* queue's back-off, otherwise after an interval.                          *)
Requeue(k) ==
  /\ pc' = [pc EXCEPT ![k] = "Idle"]
  /\ obj' = [obj EXCEPT ![k] = Gone]
  /\ queue' = queue \cup {k}

Done(k) ==
  /\ pc' = [pc EXCEPT ![k] = "Idle"]
  /\ obj' = [obj EXCEPT ![k] = Gone]
  /\ UNCHANGED queue

(* The cluster is healthy, or there is none to wait for. *)
WaitForDoltDB == doltdb # "unhealthy"

-----------------------------------------------------------------------------
(* SqlReconciler.Reconcile *)

(***************************************************************************)
(* A resource that is gone needs nothing.  A missing DoltDB is an error    *)
(* that the status reports, an unhealthy one means another look later.     *)
(***************************************************************************)
Begin(k) ==
  /\ At(k, "Idle") /\ k \in queue /\ cr[k].life # "deleting"
  /\ \/ /\ ~Exists(k)
        /\ queue' = queue \ {k}
        /\ UNCHANGED <<pc, obj>>
     \/ /\ Exists(k) /\ WaitForDoltDB
        /\ queue' = queue \ {k}
        /\ obj' = [obj EXCEPT ![k] = cr[k]]
        /\ pc' = [pc EXCEPT ![k] = IF doltdb = "gone" THEN "ReportFailure"
                                   ELSE IF k = "user" THEN "Lookup" ELSE "Apply"]
  /\ UNCHANGED <<cr, sql, found, userless, faults, world>>

(***************************************************************************)
(* wrappedUserReconciler: the password is read, and the server asked for   *)
(* the account; an error of that is only logged, and taken for a no.       *)
(***************************************************************************)
Lookup ==
  /\ At("user", "Lookup")
  /\ \/ found' = [password |-> secret, exists |-> sql.user # 0] /\ UNCHANGED faults
     \/ found' = [password |-> secret, exists |-> FALSE] /\ Fault
  /\ GoTo("user", "Apply")
  /\ UNCHANGED <<cr, sql, userless, world>>

(* CREATE USER IF NOT EXISTS leaves an account and its password alone. *)
CreateUser == [sql EXCEPT !.user = IF @ = 0 THEN found.password ELSE @]

AlterUser == [sql EXCEPT !.user = found.password]

UserApplied == IF found.exists THEN AlterUser ELSE CreateUser

CreateDatabase == [sql EXCEPT !.database = @ \cup {"schema"}]

(* What CreateDoltIgnore and CreateBranches may leave out and yet succeed: *)
(* the first drops the error of its commit, the second every error.        *)
CreateDoltIgnore == {{"dolt_ignore"}, {}}
CreateBranches == {{"branches"}, {}}

(* wrappedDatabaseReconciler *)
DatabaseApplied(ignored, branches) ==
  [CreateDatabase EXCEPT !.database = @ \cup ignored \cup branches]

(* GRANT is refused for an account that does not exist. *)
Grant == [sql EXCEPT !.grant = TRUE]

(* The wrapped reconciler succeeds. *)
Apply(k) ==
  /\ At(k, "Apply")
  /\ \/ /\ k = "database"
        /\ \E i \in CreateDoltIgnore, b \in CreateBranches :
             /\ sql' = DatabaseApplied(i, b)
             /\ IF {} \in {i, b} THEN Fault ELSE UNCHANGED faults
     \/ k = "user" /\ sql' = UserApplied /\ UNCHANGED faults
     \/ k = "grant" /\ sql.user # 0 /\ sql' = Grant /\ UNCHANGED faults
  /\ GoTo(k, "AddFinalizer")
  /\ UNCHANGED <<cr, found, userless, world>>

(***************************************************************************)
(* The connection or a statement fails, perhaps after it took effect.      *)
(***************************************************************************)
ApplyFails(k) ==
  /\ At(k, "Apply")
  /\ \/ /\ Fault
        /\ \/ UNCHANGED sql
           \/ k = "database" /\ sql' = CreateDatabase
           \/ k = "user" /\ sql' = UserApplied
           \/ k = "grant" /\ sql.user # 0 /\ sql' = Grant
     \/ /\ k = "grant" /\ sql.user = 0
        /\ UNCHANGED <<sql, faults>>
  /\ GoTo(k, "ReportFailure")
  /\ UNCHANGED <<cr, found, userless, world>>

(* PatchStatus with a failure, and retryResult. *)
ReportFailure(k) ==
  /\ At(k, "ReportFailure")
  /\ \/ cr' = (IF Exists(k) THEN [cr EXCEPT ![k].ready = "False"] ELSE cr)
        /\ UNCHANGED faults
     \/ Fault /\ UNCHANGED cr
  /\ Requeue(k)
  /\ UNCHANGED <<sql, found, userless, world>>

(***************************************************************************)
(* The finalizer comes last.  A resource that was deleted meanwhile is     *)
(* gone, and its object stays.                                             *)
(***************************************************************************)
AddFinalizer(k) ==
  /\ At(k, "AddFinalizer")
  /\ \/ /\ obj[k].finalizer
        /\ GoTo(k, "Report") /\ UNCHANGED <<cr, faults>>
     \/ /\ ~obj[k].finalizer /\ Exists(k)
        /\ cr' = [cr EXCEPT ![k].finalizer = TRUE]
        /\ GoTo(k, "Report") /\ UNCHANGED faults
     \/ /\ ~obj[k].finalizer
        /\ IF Exists(k) THEN Fault ELSE UNCHANGED faults
        /\ GoTo(k, "ReportFailure") /\ UNCHANGED cr
  /\ UNCHANGED <<sql, found, userless, world>>

(* Mutant: the status is one the condition does not have. *)
ReportUnknown(k) ==
  /\ At(k, "Report")
  /\ cr' = (IF Exists(k) THEN [cr EXCEPT ![k].ready = "Unknown"] ELSE cr)
  /\ Requeue(k)
  /\ UNCHANGED <<sql, found, userless, faults, world>>

(* Mutant: a success is not looked at again. *)
ReportAndForget(k) ==
  /\ At(k, "Report")
  /\ cr' = (IF Exists(k) THEN [cr EXCEPT ![k].ready = "True"] ELSE cr)
  /\ Done(k)
  /\ UNCHANGED <<sql, found, userless, faults, world>>

(* PatchStatus, and requeueResult: the next look is in 30 s or at once. *)
Report(k) ==
  /\ At(k, "Report")
  /\ \/ cr' = (IF Exists(k) THEN [cr EXCEPT ![k].ready = "True"] ELSE cr)
        /\ UNCHANGED faults
     \/ Fault /\ UNCHANGED cr
  /\ Requeue(k)
  /\ UNCHANGED <<sql, found, userless, world>>

-----------------------------------------------------------------------------
(* SqlFinalizer.Finalize *)

(* Mutant: the finalizer, not the deletion, is what calls for a clean-up. *)
BeginFinalizeLive(k) ==
  /\ At(k, "Idle") /\ k \in queue /\ cr[k].finalizer
  /\ WaitForDoltDB
  /\ queue' = queue \ {k}
  /\ obj' = [obj EXCEPT ![k] = cr[k]]
  /\ pc' = [pc EXCEPT ![k] = IF doltdb = "gone" \/ k \in SkipCleanup
                             THEN "RemoveFinalizer" ELSE "Cleanup"]
  /\ UNCHANGED <<cr, sql, found, userless, faults, world>>

(* Mutant: a missing DoltDB is an error like any other. *)
BeginFinalizeWithDoltDB(k) ==
  /\ At(k, "Idle") /\ k \in queue /\ cr[k].life = "deleting"
  /\ doltdb = "healthy"
  /\ queue' = queue \ {k}
  /\ obj' = [obj EXCEPT ![k] = cr[k]]
  /\ pc' = [pc EXCEPT ![k] = IF k \in SkipCleanup THEN "RemoveFinalizer" ELSE "Cleanup"]
  /\ UNCHANGED <<cr, sql, found, userless, faults, world>>

(***************************************************************************)
(* Without its DoltDB a resource is let go at once; an unhealthy DoltDB is *)
(* waited for; cleanupPolicy Skip leaves the object where it is.           *)
(***************************************************************************)
BeginFinalize(k) ==
  /\ At(k, "Idle") /\ k \in queue /\ cr[k].life = "deleting"
  /\ WaitForDoltDB
  /\ queue' = queue \ {k}
  /\ obj' = [obj EXCEPT ![k] = cr[k]]
  /\ pc' = [pc EXCEPT ![k] = IF doltdb = "gone" \/ k \in SkipCleanup
                             THEN "RemoveFinalizer" ELSE "Cleanup"]
  /\ UNCHANGED <<cr, sql, found, userless, faults, world>>

DropDatabase == [sql EXCEPT !.database = {}]

(* Dropping an account drops its privileges. *)
DropUser == [sql EXCEPT !.user = 0, !.grant = FALSE]

Revoke == [sql EXCEPT !.grant = FALSE]

Dropped(k) ==
  CASE k = "database" -> DropDatabase
    [] k = "user"     -> DropUser
    [] k = "grant"    -> Revoke

(* The look-up of a User resource by the account's name, userKey. *)
UserFound == named /\ Exists("user")

(***************************************************************************)
(* DROP ... IF EXISTS; or for a Grant, ten seconds of looking for the end  *)
(* of the User, after which the privileges are revoked.  When no User has  *)
(* the account's name, the account is taken to be gone with them.          *)
(***************************************************************************)
Cleanup(k) ==
  /\ At(k, "Cleanup")
  /\ \/ k # "grant" /\ sql' = Dropped(k) /\ UNCHANGED userless
     \/ k = "grant" /\ UserFound /\ sql.user # 0 /\ sql' = Dropped(k) /\ userless' = FALSE
     \/ k = "grant" /\ ~UserFound /\ UNCHANGED sql /\ userless' = TRUE
  /\ GoTo(k, "RemoveFinalizer")
  /\ UNCHANGED <<cr, found, faults, world>>

(* Mutant: an error of the clean-up is only logged. *)
CleanupFailsUnnoticed(k) ==
  /\ At(k, "Cleanup")
  /\ Fault
  /\ GoTo(k, "RemoveFinalizer")
  /\ UNCHANGED <<cr, sql, found, userless, world>>

CleanupFails(k) ==
  /\ At(k, "Cleanup")
  /\ IF k = "grant" /\ UserFound /\ sql.user = 0
       THEN UNCHANGED <<sql, faults>>
       ELSE Fault /\ sql' \in {sql, Dropped(k)}
  /\ Requeue(k)
  /\ UNCHANGED <<cr, found, userless, world>>

(* Without its finalizer the resource is gone. *)
RemoveFinalizer(k) ==
  /\ At(k, "RemoveFinalizer")
  /\ \/ /\ cr' = [cr EXCEPT ![k] = Gone]
        /\ Done(k) /\ UNCHANGED faults
     \/ Fault /\ Requeue(k) /\ UNCHANGED cr
  /\ userless' = (userless /\ k # "grant")
  /\ UNCHANGED <<sql, found, world>>

-----------------------------------------------------------------------------
(* Users, Kubernetes and the operator process. *)

Create(k) ==
  /\ k \in scope /\ ~Exists(k) /\ edits < MaxEdits
  /\ edits' = edits + 1
  /\ cr' = [cr EXCEPT ![k] = New]
  /\ queue' = queue \cup {k}
  /\ UNCHANGED <<scope, named, doltdb, secret, sql, pc, obj, found, userless, faults>>

(* The API server keeps a deleted resource only while it has a finalizer. *)
Delete(k) ==
  /\ cr[k].life = "live" /\ edits < MaxEdits
  /\ edits' = edits + 1
  /\ IF cr[k].finalizer
       THEN cr' = [cr EXCEPT ![k].life = "deleting"]
       ELSE cr' = [cr EXCEPT ![k] = Gone]
  /\ queue' = queue \cup {k}
  /\ UNCHANGED <<scope, named, doltdb, secret, sql, pc, obj, found, userless, faults>>

(* A change of the Secret is an event of the User. *)
RotateSecret ==
  /\ "user" \in scope /\ secret < MaxSecret
  /\ secret' = secret + 1
  /\ queue' = queue \cup {"user"}
  /\ UNCHANGED <<scope, named, cr, doltdb, edits, sql, pc, obj, found, userless, faults>>

Outage ==
  /\ doltdb = "healthy" /\ Fault
  /\ doltdb' = "unhealthy"
  /\ UNCHANGED <<scope, named, cr, secret, edits, sql, queue, pc, obj, found, userless>>

Recover ==
  /\ doltdb = "unhealthy"
  /\ doltdb' = "healthy"
  /\ UNCHANGED <<scope, named, cr, secret, edits, sql, queue, pc, obj, found, userless, faults>>

DeleteDoltDB ==
  /\ doltdb # "gone" /\ edits < MaxEdits
  /\ edits' = edits + 1
  /\ doltdb' = "gone"
  /\ UNCHANGED <<scope, named, cr, secret, sql, queue, pc, obj, found, userless, faults>>

OperatorRestart ==
  /\ \E k \in Kinds : ~At(k, "Idle")
  /\ Fault
  /\ queue' = {k \in Kinds : Exists(k)}
  /\ pc' = [k \in Kinds |-> "Idle"]
  /\ obj' = [k \in Kinds |-> Gone]
  /\ UNCHANGED <<cr, sql, found, userless, world>>

-----------------------------------------------------------------------------
Init ==
  /\ scope \in Scopes
  /\ cr \in {c \in [Kinds -> {Gone, New}] : \A k \in Kinds \ scope : c[k] = Gone}
  /\ doltdb = "healthy"
  /\ secret = 1
  /\ sql = [database |-> {}, user |-> 0, grant |-> FALSE]
  /\ queue = {k \in Kinds : Exists(k)}
  /\ pc = [k \in Kinds |-> "Idle"]
  /\ obj = [k \in Kinds |-> Gone]
  /\ found = [password |-> 1, exists |-> FALSE]
  /\ named \in (IF "user" \in scope THEN BOOLEAN ELSE {TRUE})
  /\ userless = FALSE
  /\ edits = 0
  /\ faults = 0

Reconcile(k) ==
  \/ Begin(k) \/ Apply(k) \/ ApplyFails(k) \/ ReportFailure(k)
  \/ AddFinalizer(k) \/ Report(k)
  \/ BeginFinalize(k) \/ Cleanup(k) \/ CleanupFails(k) \/ RemoveFinalizer(k)
  \/ k = "user" /\ Lookup

Next ==
  \/ \E k \in Kinds : Reconcile(k) \/ Create(k) \/ Delete(k)
  \/ RotateSecret \/ Outage \/ Recover \/ DeleteDoltDB \/ OperatorRestart

Spec == Init /\ [][Next]_vars

(* Every controller keeps working, and an unhealthy cluster recovers. *)
FairSpec ==
  /\ Spec
  /\ \A k \in Kinds : WF_vars(Reconcile(k))
  /\ WF_vars(Recover)

-----------------------------------------------------------------------------
TypeOK ==
  /\ cr \in [Kinds -> Resource]
  /\ scope \in Scopes
  /\ doltdb \in {"healthy", "unhealthy", "gone"}
  /\ secret \in 1 .. MaxSecret
  /\ sql \in Objects
  /\ queue \subseteq Kinds
  /\ pc \in [Kinds -> {"Idle", "Lookup", "Apply", "ReportFailure", "AddFinalizer",
                       "Report", "Cleanup", "RemoveFinalizer"}]
  /\ obj \in [Kinds -> Resource]
  /\ found \in [password : 1 .. MaxSecret, exists : BOOLEAN]
  /\ named \in BOOLEAN
  /\ userless \in BOOLEAN
  /\ edits \in 0 .. MaxEdits
  /\ faults \in 0 .. MaxFaults

(***************************************************************************)
(* A finalizer is not removed before its work is done: a deleted resource  *)
(* is let go only when its object is no longer there, however often the    *)
(* clean-up failed or was interrupted, unless the policy is Skip, the      *)
(* DoltDB is gone, or it is a Grant that found no User to revoke it from.  *)
(* (A resource deleted before it had its finalizer is not held at all.)    *)
(***************************************************************************)
FinalizedIsDropped ==
  [][\A k \in Kinds : cr[k].life = "deleting" /\ cr'[k].life = "absent" =>
       \/ ~Present(k)
       \/ k \in SkipCleanup \/ doltdb = "gone"
       \/ k = "grant" /\ userless]_vars

(***************************************************************************)
(* An object is dropped only while its resource is being deleted;          *)
(* privileges also go with their account when the User is being deleted.   *)
(* So a reconciliation never loses the object of a live resource.          *)
(***************************************************************************)
LiveObjectsStay ==
  [][\A k \in Kinds : Present(k) /\ ~Present(k)' =>
       \/ cr[k].life = "deleting"
       \/ k = "grant" /\ cr["user"].life = "deleting"]_vars

(* The object is what its resource asks for. *)
InSync(k) ==
  CASE k = "database" -> sql.database = Parts
    [] k = "user"     -> sql.user = secret
    [] k = "grant"    -> sql.grant \/ sql.user = 0

(***************************************************************************)
(* Once edits and faults stop, the objects of all live resources are as    *)
(* asked for: databases complete, passwords the latest, privileges granted *)
(* (unless the account does not exist).                                    *)
(***************************************************************************)
Converges ==
  \A k \in Kinds :
    <>[](cr[k].life = "live" /\ doltdb = "healthy" => InSync(k))

(***************************************************************************)
(* Every deletion comes to an end, also when the cluster is unhealthy for  *)
(* a while or deleted with its resources.                                  *)
(***************************************************************************)
DeletionsEnd == \A k \in Kinds : cr[k].life = "deleting" ~> ~Exists(k)
===========================================================================
