------------------------------ MODULE Backup ------------------------------
(***************************************************************************)
(* Backups of one DoltDB cluster: the Backup controller takes a Backup     *)
(* through Pending and Running to Completed or Failed, copying every       *)
(* database of the cluster to the Backup's remote.  Every step below is    *)
(* one call to the API server or to a Dolt server, so that other workers,  *)
(* users and the cluster may act in between.                               *)
(***************************************************************************)
EXTENDS Naturals, FiniteSets

CONSTANTS
  Names,          \* the Backups of one DoltDB that may exist
  S3,             \* those whose storage is S3 with credentials from a Secret
  NumDatabases,   \* how many databases there are to copy
  Workers,        \* the goroutines of the Backup controller
  BackoffLimit,   \* spec.backoffLimit
  NoBackup,       \* no Backup
  Networks,       \* the kinds of network there may be to the API server:
                  \* "prompt" or "late" (see net)
  MaxTries,       \* bound on the attempts at one Backup
  MaxPatchFaults, \* bound on refused or unanswered calls to the API server
  MaxFaults,      \* bound on those, on restarts of the operator, on the times
                  \* the cluster is unhealthy and on Backups deleted, together
  MaxLateTries,   \* MaxTries and MaxFaults on a late network, whose
  MaxLateFaults   \* interleavings are many more

ASSUME BackupAssumption ==
  /\ S3 \subseteq Names
  /\ NoBackup \notin Names
  /\ Networks \subseteq {"prompt", "late"}
  /\ {NumDatabases, BackoffLimit, MaxTries, MaxPatchFaults,
      MaxFaults, MaxLateTries, MaxLateFaults} \subseteq Nat

VARIABLES
  bk,       \* the Backup resources in the API server
  cache,    \* the informer's copy of them (trails when net is late)
  queue,    \* the Backups waiting for a reconciliation
  pc,       \* the next step of each worker
  key,      \* the Backup each worker reconciles
  obj,      \* its local copy of it
  next,     \* the database it copies next
  env,      \* whether AWS credentials are in the DoltDB spec, in the pods
  healthy,  \* the StatefulSet of the cluster is healthy
  net,      \* the network: on a late one the informer's copy trails the API
            \* server, and a call may take effect without its answer arriving
  held,     \* the database whose copy each storage holds; 0: none yet
  due,      \* the databases no attempt has sent to the storage of a Backup
            \* since the Backup was created
  tries,    \* how often a Backup was attempted
  fresh,    \* the names that no Backup has had yet
  used      \* how much of each bound has been used up

resources == <<bk, cache, queue>>
controller == <<pc, key, obj, next>>
cluster == <<env, healthy, net>>
storage == <<held, due>>
history == <<storage, tries, fresh>>
vars == <<resources, controller, cluster, history, used>>

FaultsLeft ==
  used.patch + used.restarts + used.outages + used.deletes
    < IF net = "late" THEN MaxLateFaults ELSE MaxFaults

TriesLeft(b) == tries[b] < IF net = "late" THEN MaxLateTries ELSE MaxTries

(* Mutant: the loop runs one round too many. *)
DatabasesAndOneMore == 1 .. NumDatabases + 1

Databases == 1 .. NumDatabases

-----------------------------------------------------------------------------
Phases == {"", "Pending", "Running", "Completed", "Failed"}

(***************************************************************************)
(* A Backup: its phase (with which its conditions, startedAt, completedAt  *)
(* and error change) and its retryCount.                                   *)
(***************************************************************************)
BackupResource == [phase : Phases \cup {"Absent"}, retryCount : Nat]

Absent == [phase |-> "Absent", retryCount |-> 0]

NewBackup == [phase |-> "", retryCount |-> 0]

Exists(b) == bk[b].phase # "Absent"

IsTerminal(o) == o.phase \in {"Completed", "Failed"}

IsRunning(o) == o.phase = "Running"

Urls == {"s3", "local"}

(***************************************************************************)
(* The storage a Backup is copied to.  BuildBackupURL makes one URL of the *)
(* Backup's storage, and no database appears in it.                        *)
(***************************************************************************)
Url(b) == IF b \in S3 THEN "s3" ELSE "local"

-----------------------------------------------------------------------------
(* The API server, the informer and the work queue. *)

(***************************************************************************)
(* Every change of a Backup, of its status too, is an event that puts it   *)
(* in the work queue: the controller is set up without a predicate.  A     *)
(* patch that changes nothing is no event.                                 *)
(***************************************************************************)
Store(new, requeued) ==
  /\ bk' = new
  /\ IF net = "late"
       THEN cache' = cache /\ queue' = queue \cup requeued
       ELSE /\ cache' = new
            /\ queue' = queue \cup requeued
                          \cup {b \in Names : new[b] # bk[b]}

(* The informer catches up with one Backup and hands out its event. *)
CacheSync(b) ==
  /\ net = "late" /\ cache[b] # bk[b]
  /\ cache' = [cache EXCEPT ![b] = bk[b]]
  /\ queue' = queue \cup {b}
  /\ UNCHANGED <<bk, controller, cluster, history, used>>

(***************************************************************************)
(* PatchBackupStatus sends what differs between the local copy and `new'.  *)
(***************************************************************************)
MergePatch(server, base, new) ==
  [phase |-> IF new.phase # base.phase THEN new.phase ELSE server.phase,
   retryCount |-> IF new.retryCount # base.retryCount THEN new.retryCount
                  ELSE server.retryCount]

Merged(w, new) ==
  [bk EXCEPT ![key[w]] = MergePatch(@, obj[w], new)]

PatchApplied(w, new, requeued) ==
  /\ Exists(key[w])
  /\ Store(Merged(w, new), requeued)
  /\ UNCHANGED used

(***************************************************************************)
(* The patch returns an error: the Backup is gone, the call is refused, or *)
(* it is applied and its answer lost.                                      *)
(***************************************************************************)
PatchFails(w, new, requeued) ==
  IF Exists(key[w])
    THEN /\ used.patch < MaxPatchFaults /\ FaultsLeft
         /\ used' = [used EXCEPT !.patch = @ + 1]
         /\ \/ Store(bk, requeued)
            \/ net = "late" /\ Store(Merged(w, new), requeued)
    ELSE Store(bk, requeued) /\ UNCHANGED used

At(w, step) == pc[w] = step

GoTo(w, step) == pc' = [pc EXCEPT ![w] = step] /\ UNCHANGED <<key, next>>

(* The answer to a patch refreshes the local copy ... *)
Refreshed(w) == obj' = [obj EXCEPT ![w] = bk'[key[w]]]

(* ... which after an error keeps what it was about to write. *)
Kept(w, new) == obj' = [obj EXCEPT ![w] = new]

(* The reconciliation ends. *)
Return(w) ==
  /\ pc' = [pc EXCEPT ![w] = "Idle"]
  /\ key' = [key EXCEPT ![w] = NoBackup]
  /\ obj' = [obj EXCEPT ![w] = NewBackup]
  /\ next' = [next EXCEPT ![w] = 0]

-----------------------------------------------------------------------------
(* BackupReconciler.Reconcile *)

(***************************************************************************)
(* A worker takes a Backup from the queue that no other worker has, and    *)
(* reads it.  A Backup that is gone or has ended needs nothing.            *)
(***************************************************************************)
Begin(w, b) ==
  /\ At(w, "Idle")
  /\ b \in queue /\ \A v \in Workers : key[v] # b
  /\ queue' = queue \ {b}
  /\ IF cache[b].phase = "Absent" \/ IsTerminal(cache[b])
       THEN UNCHANGED controller
       ELSE /\ key' = [key EXCEPT ![w] = b]
            /\ obj' = [obj EXCEPT ![w] = cache[b]]
            /\ pc' = [pc EXCEPT ![w] = "EnsurePending"]
            /\ UNCHANGED next
  /\ UNCHANGED <<bk, cache, cluster, history, used>>

(* A new Backup is given the phase Pending; on an error it is requeued. *)
EnsurePending(w) ==
  /\ At(w, "EnsurePending")
  /\ LET new == [obj[w] EXCEPT !.phase = "Pending"] IN
       \/ /\ obj[w].phase # ""
          /\ GoTo(w, "EnsureReady")
          /\ UNCHANGED <<resources, obj, used>>
       \/ /\ obj[w].phase = ""
          /\ \/ PatchApplied(w, new, {}) /\ Refreshed(w) /\ GoTo(w, "EnsureReady")
             \/ PatchFails(w, new, {key[w]}) /\ Return(w)
  /\ UNCHANGED <<cluster, history>>

(***************************************************************************)
(* WaitForDoltDB: an unhealthy cluster means another look a second later.  *)
(***************************************************************************)
EnsureReady(w) ==
  /\ At(w, "EnsureReady")
  /\ \/ healthy /\ GoTo(w, "HasRunning") /\ UNCHANGED <<queue, obj>>
     \/ ~healthy /\ Return(w) /\ queue' = queue \cup {key[w]}
  /\ UNCHANGED <<bk, cache, cluster, history, used>>

(* Mutant: a Backup waiting for its next attempt does not count. *)
hasBackupInFirstAttempt(b) ==
  \E c \in Names \ {b} : IsRunning(cache[c]) /\ cache[c].retryCount = 0

(***************************************************************************)
(* The list comes from the informer's cache.                               *)
(***************************************************************************)
hasRunningBackup(b) == \E c \in Names \ {b} : IsRunning(cache[c])

(* Another running Backup of the same DoltDB means another look later. *)
CheckRunning(w) ==
  /\ At(w, "HasRunning")
  /\ \/ /\ ~hasRunningBackup(key[w])
        /\ GoTo(w, "SetRunning") /\ UNCHANGED <<queue, obj>>
     \/ /\ hasRunningBackup(key[w])
        /\ Return(w) /\ queue' = queue \cup {key[w]}
  /\ UNCHANGED <<bk, cache, cluster, history, used>>

-----------------------------------------------------------------------------
(* executeBackup *)

SetRunning(w) ==
  /\ At(w, "SetRunning") /\ TriesLeft(key[w])
  /\ LET b == key[w]
         new == [obj[w] EXCEPT !.phase = "Running"] IN
     /\ \/ PatchApplied(w, new, {}) /\ Refreshed(w)
           /\ GoTo(w, IF b \in S3 THEN "EnsureS3EnvVars" ELSE "Connect")
        \/ PatchFails(w, new, {}) /\ Kept(w, new) /\ GoTo(w, "HandleFailure")
     /\ tries' = [tries EXCEPT ![b] = @ + 1]
  /\ UNCHANGED <<cluster, storage, fresh>>

(* The spec of the DoltDB has the credentials among its environment. *)
HasEnvVars == env # "none"

(***************************************************************************)
(* EnsureS3EnvVars adds the credentials to the spec of the DoltDB unless   *)
(* they are there, after a look at the Secret.  The pods have them only    *)
(* when the cluster has been rolled out, which nothing here waits for.     *)
(***************************************************************************)
EnsureS3EnvVars(w) ==
  /\ At(w, "EnsureS3EnvVars")
  /\ \/ /\ env' = IF HasEnvVars THEN env ELSE "spec"
        /\ GoTo(w, "Connect")
     \/ /\ ~HasEnvVars /\ env' \in {"none", "spec"}
        /\ GoTo(w, "HandleFailure")
  /\ UNCHANGED <<resources, obj, healthy, net, history, used>>

(* NewClientWithDoltDB, and the list of databases Execute works through. *)
Connect(w) ==
  /\ At(w, "Connect")
  /\ \/ /\ pc' = [pc EXCEPT ![w] = "Sync"]
        /\ next' = [next EXCEPT ![w] = 1]
        /\ UNCHANGED key
     \/ GoTo(w, "HandleFailure")
  /\ UNCHANGED <<resources, obj, cluster, history, used>>

(***************************************************************************)
(* AddBackup and SyncBackup make the storage of Backup b a copy of         *)
(* database d, in place of what it held.  Other Backups may share it, and  *)
(* so may every other database of this one.                                *)
(***************************************************************************)
SyncBackup(b, d) ==
  /\ held' = [held EXCEPT ![Url(b)] = d]
  /\ due' = [c \in Names |-> IF Url(c) = Url(b) THEN due[c] \ {d} ELSE due[c]]

(* Mutant: the loop goes on after a failed copy. *)
BackupDatabaseOrGoOn(w) ==
  /\ At(w, "Sync") /\ next[w] \in Databases
  /\ SyncBackup(key[w], next[w]) \/ UNCHANGED storage
  /\ next' = [next EXCEPT ![w] = @ + 1]
  /\ UNCHANGED <<pc, key, resources, obj, cluster, tries, fresh, used>>

(***************************************************************************)
(* BackupDatabase: USE, dolt_backup('add'), dolt_backup('sync') for one    *)
(* database.  The first error ends the attempt, though the copy may have   *)
(* been made.  Without credentials in the pods S3 refuses the copy.        *)
(***************************************************************************)
BackupDatabase(w) ==
  /\ At(w, "Sync") /\ next[w] \in Databases
  /\ LET barred == key[w] \in S3 /\ env # "pods" IN
       \/ /\ ~barred /\ SyncBackup(key[w], next[w])
          /\ next' = [next EXCEPT ![w] = @ + 1]
          /\ UNCHANGED <<pc, key>>
       \/ /\ \/ ~barred /\ SyncBackup(key[w], next[w])
             \/ UNCHANGED storage
          /\ GoTo(w, "HandleFailure")
  /\ UNCHANGED <<resources, obj, cluster, tries, fresh, used>>

SetCompleted(w) ==
  /\ At(w, "Sync") /\ next[w] > NumDatabases
  /\ LET new == [obj[w] EXCEPT !.phase = "Completed"] IN
       \/ PatchApplied(w, new, {}) /\ Return(w)
       \/ PatchFails(w, new, {}) /\ Kept(w, new) /\ GoTo(w, "HandleFailure")
  /\ UNCHANGED <<cluster, history>>

-----------------------------------------------------------------------------
(* handleFailure *)

(* ShouldRetry: the second result, limitExceeded. *)
LimitExceeded(retryCount) == retryCount >= BackoffLimit

(* Mutant: the failed attempt is not counted. *)
HandleFailureUncounted(w) ==
  /\ At(w, "HandleFailure")
  /\ PatchApplied(w, obj[w], {key[w]}) \/ PatchFails(w, obj[w], {key[w]})
  /\ Return(w)
  /\ UNCHANGED <<cluster, history>>

(***************************************************************************)
(* The count is raised, an error of that is only logged, and the limit is  *)
(* compared with the local copy.  Below it the Backup is requeued.         *)
(***************************************************************************)
HandleFailure(w) ==
  /\ At(w, "HandleFailure")
  /\ LET new == [obj[w] EXCEPT !.retryCount = @ + 1] IN
       IF LimitExceeded(new.retryCount)
         THEN /\ \/ PatchApplied(w, new, {}) /\ Refreshed(w)
                 \/ PatchFails(w, new, {}) /\ Kept(w, new)
              /\ GoTo(w, "SetFailed")
         ELSE /\ \/ PatchApplied(w, new, {key[w]})
                 \/ PatchFails(w, new, {key[w]})
              /\ Return(w)
  /\ UNCHANGED <<cluster, history>>

(* An error of the last patch is ignored, and nothing is requeued. *)
SetFailed(w) ==
  /\ At(w, "SetFailed")
  /\ LET new == [obj[w] EXCEPT !.phase = "Failed"] IN
       PatchApplied(w, new, {}) \/ PatchFails(w, new, {})
  /\ Return(w)
  /\ UNCHANGED <<cluster, history>>

-----------------------------------------------------------------------------
(* Users, the cluster and the operator process. *)

(* A user, or the BackupSchedule controller, creates a Backup. *)
CreateBackup(b) ==
  /\ b \in fresh
  /\ fresh' = fresh \ {b}
  /\ Store([bk EXCEPT ![b] = NewBackup], {})
  /\ due' = [due EXCEPT ![b] = Databases]
  /\ UNCHANGED <<controller, cluster, held, tries, used>>

DeleteBackup(b) ==
  /\ Exists(b) /\ FaultsLeft
  /\ Store([bk EXCEPT ![b] = Absent], {})
  /\ used' = [used EXCEPT !.deletes = @ + 1]
  /\ UNCHANGED <<controller, cluster, history>>

Outage ==
  /\ healthy /\ FaultsLeft
  /\ healthy' = FALSE
  /\ used' = [used EXCEPT !.outages = @ + 1]
  /\ UNCHANGED <<resources, controller, env, net, history>>

Recover ==
  /\ ~healthy
  /\ healthy' = TRUE
  /\ UNCHANGED <<resources, controller, env, net, history, used>>

(* The DoltDB controller rolls the pods to the new environment. *)
RollOut ==
  /\ env = "spec"
  /\ env' = "pods"
  /\ UNCHANGED <<resources, controller, healthy, net, history, used>>

(* The new process lists every Backup before it starts its workers. *)
OperatorRestart ==
  /\ FaultsLeft
  /\ \E w \in Workers : ~At(w, "Idle")
  /\ used' = [used EXCEPT !.restarts = @ + 1]
  /\ cache' = bk
  /\ queue' = {b \in Names : Exists(b)}
  /\ pc' = [w \in Workers |-> "Idle"]
  /\ key' = [w \in Workers |-> NoBackup]
  /\ obj' = [w \in Workers |-> NewBackup]
  /\ next' = [w \in Workers |-> 0]
  /\ UNCHANGED <<bk, cluster, history>>

-----------------------------------------------------------------------------
Init ==
  /\ bk = [b \in Names |-> Absent]
  /\ cache = bk
  /\ queue = {}
  /\ pc = [w \in Workers |-> "Idle"]
  /\ key = [w \in Workers |-> NoBackup]
  /\ obj = [w \in Workers |-> NewBackup]
  /\ next = [w \in Workers |-> 0]
  /\ env = "none"
  /\ healthy = TRUE
  /\ net \in Networks
  /\ held = [u \in Urls |-> 0]
  /\ fresh = Names
  /\ due = [b \in Names |-> {}]
  /\ tries = [b \in Names |-> 0]
  /\ used = [patch |-> 0, restarts |-> 0, outages |-> 0, deletes |-> 0]

Reconcile(w) ==
  \/ \E b \in Names : Begin(w, b)
  \/ EnsurePending(w) \/ EnsureReady(w) \/ CheckRunning(w)
  \/ SetRunning(w) \/ EnsureS3EnvVars(w) \/ Connect(w)
  \/ BackupDatabase(w) \/ SetCompleted(w)
  \/ HandleFailure(w) \/ SetFailed(w)

Environment ==
  \/ \E b \in Names : CreateBackup(b) \/ DeleteBackup(b)
  \/ Outage \/ Recover \/ RollOut \/ OperatorRestart

Next ==
  \/ \E w \in Workers : Reconcile(w)
  \/ \E b \in Names : CacheSync(b)
  \/ Environment

Spec == Init /\ [][Next]_vars

(***************************************************************************)
(* Workers keep running, every Backup in the queue gets its turn (the work *)
(* queue is first come, first served), caches catch up, a cluster recovers *)
(* and is rolled out.  SQL may fail forever.                               *)
(***************************************************************************)
FairSpec ==
  /\ Spec
  /\ \A w \in Workers : WF_vars(Reconcile(w))
  /\ \A b \in Names :
       /\ SF_vars(\E w \in Workers : Begin(w, b))
       /\ WF_vars(CacheSync(b))
  /\ WF_vars(Recover)
  /\ WF_vars(RollOut)

-----------------------------------------------------------------------------
TypeOK ==
  /\ bk \in [Names -> BackupResource]
  /\ cache \in [Names -> BackupResource]
  /\ queue \subseteq Names
  /\ pc \in [Workers -> {"Idle", "EnsurePending", "EnsureReady", "HasRunning",
                         "SetRunning", "EnsureS3EnvVars", "Connect", "Sync",
                         "HandleFailure", "SetFailed"}]
  /\ key \in [Workers -> Names \cup {NoBackup}]
  /\ obj \in [Workers -> BackupResource]
  /\ next \in [Workers -> 0 .. NumDatabases + 1]
  /\ env \in {"none", "spec", "pods"}
  /\ healthy \in BOOLEAN
  /\ net \in Networks
  /\ held \in [Urls -> 0 .. NumDatabases]
  /\ fresh \subseteq Names
  /\ due \in [Names -> SUBSET Databases]
  /\ tries \in [Names -> Nat]
  /\ used \in [{"patch", "restarts", "outages", "deletes"} -> Nat]

(***************************************************************************)
(* A Backup is Completed only when every database was sent to its storage  *)
(* since it was created, whatever attempts failed half way, whoever else   *)
(* uses the storage, and however late the controller's reads and answers   *)
(* are.                                                                    *)
(***************************************************************************)
CompletedIsSynced ==
  \A b \in Names : bk[b].phase = "Completed" => due[b] = {}

(***************************************************************************)
(* "If empty, all databases are backed up" (api/v1alpha/backup_types.go):  *)
(* the storage of a Backup that has just Completed holds every database.   *)
(***************************************************************************)
AllDatabasesBackedUp ==
  [][\A b \in Names :
       bk[b].phase # "Completed" /\ bk'[b].phase = "Completed"
         => \A d \in Databases : held[Url(b)] = d]_vars

(***************************************************************************)
(* A Backup is never retried more often than backoffLimit says, but for    *)
(* the attempts a restart or a failed patch loses count of.  (The code     *)
(* stops one short of it: ShouldRetry compares the number of attempts.)    *)
(***************************************************************************)
RetriesBounded ==
  net = "prompt" =>
    \A b \in Names :
      tries[b] <= 1 + BackoffLimit + used.restarts + used.patch

(***************************************************************************)
(* On a prompt network the controller implements the life cycle of         *)
(* Backups: one running at a time, what ended stays ended, and every       *)
(* Backup ends.  On a late one it does not, and nothing is claimed.        *)
(***************************************************************************)
Lifecycle == INSTANCE BackupLifecycle
  WITH phase <- [b \in Names |-> IF net = "prompt" THEN bk[b].phase ELSE "Absent"]

ImplementsLifecycle == Lifecycle!Spec
===========================================================================
