--------------------------- MODULE BackupProofs ---------------------------
(***************************************************************************)
(* Proofs about Backup, for every set of Backups, number of databases,     *)
(* limit and bound on faults.                                              *)
(***************************************************************************)
EXTENDS Backup, TLAPS

-----------------------------------------------------------------------------
(* Type correctness. *)

(***************************************************************************)
(* A busy worker has a Backup, an idle one has none, and no two workers    *)
(* have the same.                                                          *)
(***************************************************************************)
KeyInv ==
  /\ \A w \in Workers : pc[w] # "Idle" <=> key[w] \in Names
  /\ \A v, w \in Workers : v # w /\ key[v] \in Names => key[v] # key[w]

TypeInv == TypeOK /\ KeyInv

(* The constants are numbers, and no Backup is called NoBackup. *)
LEMMA Constants ==
  /\ NumDatabases \in Nat /\ BackoffLimit \in Nat
  /\ NoBackup \notin Names
  BY BackupAssumption

(* The resources the model starts from are well formed. *)
LEMMA ResourceTypes == Absent \in BackupResource /\ NewBackup \in BackupResource
  BY DEF Absent, NewBackup, BackupResource, Phases

(* Every change of a Backup that the controller wants is well formed. *)
LEMMA UpdateTypes ==
  ASSUME NEW o \in BackupResource
  PROVE  /\ \A p \in Phases : [o EXCEPT !.phase = p] \in BackupResource
         /\ [o EXCEPT !.retryCount = @ + 1] \in BackupResource
  BY DEF BackupResource

(* Storing well-formed Backups keeps server, informer and queue so. *)
LEMMA StoreEffect ==
  ASSUME TypeOK, NEW new \in [Names -> BackupResource], NEW r \in SUBSET Names,
         Store(new, r)
  PROVE  /\ bk' = new
         /\ cache' \in {cache, new}
         /\ net = "prompt" => cache' = new
         /\ bk' \in [Names -> BackupResource]
         /\ cache' \in [Names -> BackupResource]
         /\ queue' \subseteq Names
  BY DEF Store, TypeOK

(***************************************************************************)
(* A patch, whether it succeeds, is refused or loses its answer, touches   *)
(* one Backup that exists, and of that only what the controller changed in *)
(* its copy.  Without success a Backup that exists costs a fault.          *)
(***************************************************************************)
LEMMA PatchEffect ==
  ASSUME TypeOK, NEW w \in Workers, key[w] \in Names,
         NEW new \in BackupResource,
         NEW r \in SUBSET Names,
         PatchApplied(w, new, r) \/ PatchFails(w, new, r)
  PROVE  /\ bk' \in [Names -> BackupResource]
         /\ cache' \in [Names -> BackupResource]
         /\ queue' \subseteq Names
         /\ used' \in [{"patch", "restarts", "outages", "deletes"} -> Nat]
         /\ cache' \in {cache, bk'}
         /\ net = "prompt" => cache' = bk'
         /\ bk' = bk \/ (Exists(key[w]) /\ bk' = Merged(w, new))
         /\ \A b \in Names : b # key[w] => bk'[b] = bk[b]
         /\ bk[key[w]].phase = "Absent" => bk'[key[w]] = bk[key[w]]
         /\ \/ bk'[key[w]].phase = bk[key[w]].phase
            \/ /\ bk'[key[w]].phase = new.phase
               /\ new.phase # obj[w].phase
               /\ bk[key[w]].phase # "Absent"
         /\ \/ bk'[key[w]].retryCount = bk[key[w]].retryCount
            \/ /\ bk'[key[w]].retryCount = new.retryCount
               /\ new.retryCount # obj[w].retryCount
         /\ \/ used' = used
            \/ used' = [used EXCEPT !.patch = @ + 1]
<1> DEFINE b == key[w]
<1>1. bk \in [Names -> BackupResource] /\ obj[w] \in BackupResource
  BY DEF TypeOK
<1>2. MergePatch(bk[b], obj[w], new) \in BackupResource
  BY <1>1 DEF MergePatch, BackupResource
<1>3. Merged(w, new) \in [Names -> BackupResource]
  BY <1>1, <1>2 DEF Merged
<1>4. \/ Store(bk, r)
      \/ Exists(b) /\ Store(Merged(w, new), r)
  BY DEF PatchApplied, PatchFails
<1>5. bk' = bk \/ (Exists(b) /\ bk' = Merged(w, new))
  BY <1>1, <1>3, <1>4, StoreEffect
<1>6. /\ bk' \in [Names -> BackupResource]
      /\ cache' \in [Names -> BackupResource]
      /\ queue' \subseteq Names
      /\ cache' \in {cache, bk'}
      /\ net = "prompt" => cache' = bk'
  BY <1>1, <1>3, <1>4, StoreEffect
<1>7. used' = used \/ used' = [used EXCEPT !.patch = @ + 1]
  BY DEF PatchApplied, PatchFails
<1>8. used' \in [{"patch", "restarts", "outages", "deletes"} -> Nat]
  BY <1>7 DEF TypeOK
<1>9. \A c \in Names : c # b => bk'[c] = bk[c]
  BY <1>1, <1>5 DEF Merged
<1>10. bk'[b] = bk[b] \/ (Exists(b) /\ bk'[b] = MergePatch(bk[b], obj[w], new))
  BY <1>1, <1>5 DEF Merged
<1> QED
  BY <1>1, <1>5, <1>6, <1>7, <1>8, <1>9, <1>10 DEF MergePatch, Exists, BackupResource

(* The end of a reconciliation keeps the controller's variables well       *)
(* formed; the worker is idle and has let go of its Backup.                *)
LEMMA ReturnEffect ==
  ASSUME TypeInv, NEW w \in Workers, Return(w)
  PROVE  /\ pc' = [pc EXCEPT ![w] = "Idle"]
         /\ key' = [key EXCEPT ![w] = NoBackup]
         /\ obj' \in [Workers -> BackupResource]
         /\ next' \in [Workers -> 0 .. NumDatabases + 1]
         /\ KeyInv'
  BY Constants, ResourceTypes DEF Return, TypeInv, TypeOK, KeyInv

(* So does going from one step to another. *)
LEMMA GoToEffect ==
  ASSUME TypeInv, NEW w \in Workers, pc[w] # "Idle",
         NEW s \in {"EnsurePending", "EnsureReady", "HasRunning", "SetRunning",
                    "EnsureS3EnvVars", "Connect", "Sync", "HandleFailure", "SetFailed"},
         GoTo(w, s)
  PROVE  /\ pc' = [pc EXCEPT ![w] = s]
         /\ key' = key /\ next' = next
         /\ KeyInv'
  BY DEF GoTo, TypeInv, TypeOK, KeyInv

(* Initially everything has its type. *)
LEMMA TypeInit == Init => TypeInv
  BY Constants, ResourceTypes DEF Init, TypeInv, TypeOK, KeyInv

(* Steps of a worker keep it. *)
LEMMA TypeReconcile ==
  ASSUME TypeInv, NEW w \in Workers, Reconcile(w)
  PROVE  TypeInv'
<1> USE DEF TypeInv
<1> DEFINE b == key[w]
           o == obj[w]
<1>a. o \in BackupResource
  BY DEF TypeOK
<1>b. ASSUME pc[w] # "Idle" PROVE b \in Names /\ {b} \in SUBSET Names
  BY <1>b DEF KeyInv
<1>c. /\ [o EXCEPT !.phase = "Pending"] \in BackupResource
      /\ [o EXCEPT !.phase = "Running"] \in BackupResource
      /\ [o EXCEPT !.phase = "Completed"] \in BackupResource
      /\ [o EXCEPT !.phase = "Failed"] \in BackupResource
      /\ [o EXCEPT !.retryCount = @ + 1] \in BackupResource
  BY <1>a, UpdateTypes DEF Phases
<1>d. /\ [o EXCEPT !.phase = "Pending"].phase = "Pending"
      /\ [o EXCEPT !.phase = "Running"].phase = "Running"
      /\ [o EXCEPT !.phase = "Completed"].phase = "Completed"
      /\ [o EXCEPT !.phase = "Failed"].phase = "Failed"
      /\ [o EXCEPT !.retryCount = @ + 1].phase = o.phase
  BY <1>a DEF BackupResource
<1>1. ASSUME NEW c \in Names, Begin(w, c) PROVE TypeInv'
  <2>1. KeyInv'
    BY <1>1, Constants DEF Begin, At, controller, TypeOK, KeyInv
  <2>2. TypeOK'
    BY <1>1 DEF Begin, At, controller, cluster, history, storage, TypeOK
  <2> QED BY <2>1, <2>2
<1>2. ASSUME EnsurePending(w) PROVE TypeInv'
  <2>1. pc[w] # "Idle" /\ b \in Names /\ {b} \in SUBSET Names /\ {} \in SUBSET Names
    BY <1>2, <1>b DEF EnsurePending, At
  <2>2. CASE o.phase # "" /\ GoTo(w, "EnsureReady") /\ UNCHANGED <<resources, obj, used>>
    BY <1>2, <2>1, <2>2, GoToEffect DEF EnsurePending, resources, cluster, history, storage, TypeOK
  <2>3. CASE PatchApplied(w, [o EXCEPT !.phase = "Pending"], {}) /\ Refreshed(w)
             /\ GoTo(w, "EnsureReady")
    <3>1. b \in Names /\ obj' = [obj EXCEPT ![w] = bk'[b]]
      BY <2>1, <2>3 DEF Refreshed
    <3>2. obj' \in [Workers -> BackupResource]
      BY <1>c, <1>d, <2>1, <2>3, <3>1, PatchEffect DEF TypeOK
    <3>3. /\ bk' \in [Names -> BackupResource]
          /\ cache' \in [Names -> BackupResource]
          /\ queue' \subseteq Names
          /\ used' \in [{"patch", "restarts", "outages", "deletes"} -> Nat]
      BY <1>c, <1>d, <2>1, <2>3, PatchEffect
    <3> QED
      BY <1>2, <2>1, <2>3, <3>2, <3>3, GoToEffect DEF EnsurePending, cluster, history, storage, TypeOK
  <2>4. CASE PatchFails(w, [o EXCEPT !.phase = "Pending"], {b}) /\ Return(w)
    BY <1>2, <1>c, <1>d, <2>1, <2>4, ReturnEffect, PatchEffect, Constants
       DEF EnsurePending, cluster, history, storage, TypeOK
  <2> QED BY <1>2, <2>2, <2>3, <2>4 DEF EnsurePending
<1>3. ASSUME EnsureReady(w) PROVE TypeInv'
  BY <1>3, <1>b, GoToEffect, ReturnEffect
     DEF EnsureReady, At, cluster, history, storage, TypeOK
<1>4. ASSUME CheckRunning(w) PROVE TypeInv'
  BY <1>4, <1>b, GoToEffect, ReturnEffect
     DEF CheckRunning, At, cluster, history, storage, TypeOK
<1>5. ASSUME SetRunning(w) PROVE TypeInv'
  <2>1. pc[w] # "Idle" /\ b \in Names /\ {} \in SUBSET Names
    BY <1>5, <1>b DEF SetRunning, At
  <2>2. tries' \in [Names -> Nat]
    BY <1>5, <2>1 DEF SetRunning, TypeOK
  <2>3. CASE PatchApplied(w, [o EXCEPT !.phase = "Running"], {}) /\ Refreshed(w)
             /\ GoTo(w, IF b \in S3 THEN "EnsureS3EnvVars" ELSE "Connect")
    BY <1>5, <1>c, <1>d, <2>1, <2>2, <2>3, GoToEffect, PatchEffect
       DEF SetRunning, Refreshed, cluster, storage, TypeOK
  <2>4. CASE PatchFails(w, [o EXCEPT !.phase = "Running"], {})
             /\ Kept(w, [o EXCEPT !.phase = "Running"]) /\ GoTo(w, "HandleFailure")
    BY <1>5, <1>c, <1>d, <2>1, <2>2, <2>4, GoToEffect, PatchEffect
       DEF SetRunning, Kept, cluster, storage, TypeOK
  <2> QED BY <1>5, <2>3, <2>4 DEF SetRunning
<1>6. ASSUME EnsureS3EnvVars(w) PROVE TypeInv'
  BY <1>6, GoToEffect DEF EnsureS3EnvVars, At, HasEnvVars, resources, history, storage, TypeOK
<1>7. ASSUME Connect(w) PROVE TypeInv'
  BY <1>7, GoToEffect, Constants
     DEF Connect, At, GoTo, resources, cluster, history, storage, TypeOK, KeyInv
<1>8. ASSUME BackupDatabase(w) PROVE TypeInv'
  <2>1. next[w] \in 0 .. NumDatabases
    BY <1>8, Constants DEF BackupDatabase, Databases
  <2>2. due' \in [Names -> SUBSET Databases] /\ held' \in [Urls -> 0 .. NumDatabases]
    BY <1>8, <2>1 DEF BackupDatabase, SyncBackup, storage, TypeOK
  <2>3. next' \in [Workers -> 0 .. NumDatabases + 1]
    BY <1>8, Constants DEF BackupDatabase, GoTo, Databases, TypeOK
  <2> QED
    BY <1>8, <2>2, <2>3 DEF BackupDatabase, At, GoTo, resources, cluster, TypeOK, KeyInv
<1>9. ASSUME SetCompleted(w) PROVE TypeInv'
  <2>1. pc[w] # "Idle" /\ b \in Names /\ {} \in SUBSET Names
    BY <1>9, <1>b DEF SetCompleted, At
  <2>2. CASE PatchApplied(w, [o EXCEPT !.phase = "Completed"], {}) /\ Return(w)
    BY <1>9, <1>c, <1>d, <2>1, <2>2, ReturnEffect, PatchEffect, Constants
       DEF SetCompleted, cluster, history, storage, TypeOK
  <2>3. CASE PatchFails(w, [o EXCEPT !.phase = "Completed"], {})
             /\ Kept(w, [o EXCEPT !.phase = "Completed"]) /\ GoTo(w, "HandleFailure")
    BY <1>9, <1>c, <1>d, <2>1, <2>3, GoToEffect, PatchEffect
       DEF SetCompleted, Kept, cluster, history, storage, TypeOK
  <2> QED BY <1>9, <2>2, <2>3 DEF SetCompleted
<1>10. ASSUME HandleFailure(w) PROVE TypeInv'
  <2> DEFINE new == [o EXCEPT !.retryCount = @ + 1]
  <2>1. pc[w] # "Idle" /\ b \in Names /\ {b} \in SUBSET Names /\ {} \in SUBSET Names
    BY <1>10, <1>b DEF HandleFailure, At
  <2>3. CASE PatchApplied(w, new, {}) /\ Refreshed(w) /\ GoTo(w, "SetFailed")
    BY <1>10, <1>c, <1>d, <2>1, <2>3, GoToEffect, PatchEffect
       DEF HandleFailure, Refreshed, cluster, history, storage, TypeOK
  <2>4. CASE PatchFails(w, new, {}) /\ Kept(w, new) /\ GoTo(w, "SetFailed")
    BY <1>10, <1>c, <1>d, <2>1, <2>4, GoToEffect, PatchEffect
       DEF HandleFailure, Kept, cluster, history, storage, TypeOK
  <2>5. CASE (PatchApplied(w, new, {b}) \/ PatchFails(w, new, {b})) /\ Return(w)
    BY <1>10, <1>c, <1>d, <2>1, <2>5, ReturnEffect, PatchEffect, Constants
       DEF HandleFailure, cluster, history, storage, TypeOK
  <2> QED BY <1>10, <2>3, <2>4, <2>5 DEF HandleFailure
<1>11. ASSUME SetFailed(w) PROVE TypeInv'
  <2>1. pc[w] # "Idle" /\ b \in Names /\ {} \in SUBSET Names
    BY <1>11, <1>b DEF SetFailed, At
  <2> QED
    BY <1>11, <1>c, <1>d, <2>1, ReturnEffect, PatchEffect, Constants
       DEF SetFailed, cluster, history, storage, TypeOK
<1> QED
  BY <1>1, <1>2, <1>3, <1>4, <1>5, <1>6, <1>7, <1>8, <1>9, <1>10, <1>11 DEF Reconcile

(* Steps of the informer, of users, of the cluster and of the process too. *)
LEMMA TypeEnvironment ==
  ASSUME TypeInv, Environment \/ \E b \in Names : CacheSync(b)
  PROVE  TypeInv'
<1> USE DEF TypeInv
<1>1. ASSUME NEW b \in Names, CacheSync(b) PROVE TypeInv'
  BY <1>1 DEF CacheSync, controller, cluster, history, storage, TypeOK, KeyInv
<1>2. ASSUME NEW b \in Names, CreateBackup(b) PROVE TypeInv'
  <2>1. [bk EXCEPT ![b] = NewBackup] \in [Names -> BackupResource] /\ {} \in SUBSET Names
    BY ResourceTypes DEF TypeOK
  <2>2. due' \in [Names -> SUBSET Databases]
    BY <1>2 DEF CreateBackup, TypeOK
  <2> QED
    BY <1>2, <2>1, <2>2, StoreEffect DEF CreateBackup, controller, cluster, storage, TypeOK, KeyInv
<1>3. ASSUME NEW b \in Names, DeleteBackup(b) PROVE TypeInv'
  <2>1. [bk EXCEPT ![b] = Absent] \in [Names -> BackupResource] /\ {} \in SUBSET Names
    BY ResourceTypes DEF TypeOK
  <2>2. used' \in [{"patch", "restarts", "outages", "deletes"} -> Nat]
    BY <1>3 DEF DeleteBackup, TypeOK
  <2>3. Store([bk EXCEPT ![b] = Absent], {})
    BY <1>3 DEF DeleteBackup
  <2> QED
    BY <1>3, <2>1, <2>2, <2>3, StoreEffect DEF DeleteBackup, controller, cluster, history, storage, TypeOK, KeyInv
<1>4. ASSUME Outage PROVE TypeInv'
  <2>1. used' \in [{"patch", "restarts", "outages", "deletes"} -> Nat]
    BY <1>4 DEF Outage, TypeOK
  <2>2. healthy' \in BOOLEAN
    BY <1>4 DEF Outage
  <2> QED BY <1>4, <2>1, <2>2 DEF Outage, resources, controller, history, storage, TypeOK, KeyInv
<1>5. ASSUME Recover PROVE TypeInv'
  BY <1>5 DEF Recover, resources, controller, history, storage, TypeOK, KeyInv
<1>6. ASSUME RollOut PROVE TypeInv'
  BY <1>6 DEF RollOut, resources, controller, history, storage, TypeOK, KeyInv
<1>7. ASSUME OperatorRestart PROVE TypeInv'
  BY <1>7, Constants, ResourceTypes DEF OperatorRestart, cluster, history, storage, TypeOK, KeyInv
<1> QED BY <1>1, <1>2, <1>3, <1>4, <1>5, <1>6, <1>7 DEF Environment

(* Every step keeps it. *)
LEMMA TypeStep == TypeInv /\ [Next]_vars => TypeInv'
<1>1. ASSUME TypeInv, UNCHANGED vars PROVE TypeInv'
  BY <1>1 DEF TypeInv, TypeOK, KeyInv, vars, resources, controller, cluster, history, storage
<1> QED BY <1>1, TypeReconcile, TypeEnvironment DEF Next

(* The types, with what the controllers' copies refer to, always hold. *)
LEMMA TypeInvariant == Spec => []TypeInv
  BY TypeInit, TypeStep, PTL DEF Spec

(***************************************************************************)
(* Every variable keeps its type, for any number of Backups, workers and   *)
(* faults: in particular the loop of Execute never runs past the last      *)
(* database, and what a Backup still lacks are databases there are.        *)
(***************************************************************************)
THEOREM TypeCorrect == Spec => []TypeOK
<1>1. TypeInv => TypeOK
  BY DEF TypeInv
<1> QED BY <1>1, TypeInvariant, PTL

-----------------------------------------------------------------------------
(* What a step of a worker may do to the Backups. *)

(* A patch that succeeds or not. *)
Patches(w, new) ==
  \E r \in SUBSET Names : PatchApplied(w, new, r) \/ PatchFails(w, new, r)

(* A worker leaves the others, and the names not yet used, alone. *)
LEMMA WorkerFrame ==
  ASSUME TypeInv, NEW w \in Workers, Reconcile(w)
  PROVE  /\ fresh' = fresh
         /\ \A v \in Workers : v # w =>
              pc'[v] = pc[v] /\ key'[v] = key[v] /\ next'[v] = next[v] /\ obj'[v] = obj[v]
<1>1. fresh' = fresh
  BY DEF Reconcile, Begin, EnsurePending, EnsureReady, CheckRunning, SetRunning,
         EnsureS3EnvVars, Connect, BackupDatabase, SetCompleted, HandleFailure,
         SetFailed, history, storage
<1>2. \A v \in Workers : v # w => pc'[v] = pc[v] /\ key'[v] = key[v] /\ next'[v] = next[v]
  BY DEF Reconcile, Begin, EnsurePending, EnsureReady, CheckRunning, SetRunning,
         EnsureS3EnvVars, Connect, BackupDatabase, SetCompleted, HandleFailure,
         SetFailed, controller, GoTo, Return, TypeInv, TypeOK
<1>3. \A v \in Workers : v # w => obj'[v] = obj[v]
  BY DEF Reconcile, Begin, EnsurePending, EnsureReady, CheckRunning, SetRunning,
         EnsureS3EnvVars, Connect, BackupDatabase, SetCompleted, HandleFailure,
         SetFailed, controller, Return, Refreshed, Kept, TypeInv, TypeOK
<1> QED BY <1>1, <1>2, <1>3

(***************************************************************************)
(* Five steps of a reconciliation patch the Backup: four of them write a   *)
(* phase, one the count of failed attempts.  The others leave it alone.    *)
(***************************************************************************)
LEMMA WorkerPatches ==
  ASSUME TypeInv, NEW w \in Workers, Reconcile(w)
  PROVE  \/ bk' = bk /\ cache' = cache
         \/ /\ pc[w] # "Idle" /\ key[w] \in Names
            /\ \/ /\ pc[w] = "EnsurePending" /\ obj[w].phase = ""
                  /\ Patches(w, [obj[w] EXCEPT !.phase = "Pending"])
               \/ pc[w] = "SetRunning" /\ Patches(w, [obj[w] EXCEPT !.phase = "Running"])
               \/ /\ pc[w] = "Sync" /\ next[w] > NumDatabases
                  /\ Patches(w, [obj[w] EXCEPT !.phase = "Completed"])
               \/ pc[w] = "HandleFailure" /\ Patches(w, [obj[w] EXCEPT !.retryCount = @ + 1])
               \/ pc[w] = "SetFailed" /\ Patches(w, [obj[w] EXCEPT !.phase = "Failed"])
<1>1. pc[w] # "Idle" => key[w] \in Names /\ {key[w]} \in SUBSET Names
  BY DEF TypeInv, KeyInv
<1>2. {} \in SUBSET Names
  OBVIOUS
<1>3. ASSUME \/ \E c \in Names : Begin(w, c)
             \/ EnsureReady(w) \/ CheckRunning(w) \/ EnsureS3EnvVars(w)
             \/ Connect(w) \/ BackupDatabase(w)
      PROVE  bk' = bk /\ cache' = cache
  BY <1>3 DEF Begin, EnsureReady, CheckRunning, EnsureS3EnvVars, Connect,
              BackupDatabase, resources
<1>4. ASSUME EnsurePending(w)
      PROVE  \/ bk' = bk /\ cache' = cache
             \/ /\ pc[w] = "EnsurePending" /\ obj[w].phase = ""
                /\ Patches(w, [obj[w] EXCEPT !.phase = "Pending"])
  BY <1>1, <1>2, <1>4 DEF EnsurePending, At, Patches, resources
<1>5. ASSUME SetRunning(w)
      PROVE  pc[w] = "SetRunning" /\ Patches(w, [obj[w] EXCEPT !.phase = "Running"])
  BY <1>2, <1>5 DEF SetRunning, At, Patches
<1>6. ASSUME SetCompleted(w)
      PROVE  /\ pc[w] = "Sync" /\ next[w] > NumDatabases
             /\ Patches(w, [obj[w] EXCEPT !.phase = "Completed"])
  BY <1>2, <1>6 DEF SetCompleted, At, Patches
<1>7. ASSUME HandleFailure(w)
      PROVE  pc[w] = "HandleFailure" /\ Patches(w, [obj[w] EXCEPT !.retryCount = @ + 1])
  BY <1>1, <1>2, <1>7 DEF HandleFailure, At, Patches
<1>8. ASSUME SetFailed(w)
      PROVE  pc[w] = "SetFailed" /\ Patches(w, [obj[w] EXCEPT !.phase = "Failed"])
  BY <1>2, <1>8 DEF SetFailed, At, Patches
<1> QED BY <1>1, <1>3, <1>4, <1>5, <1>6, <1>7, <1>8 DEF Reconcile

(***************************************************************************)
(* So a worker changes its own Backup alone, and only one that exists; its *)
(* phase changes at four steps, each to a phase of its own.                *)
(***************************************************************************)
LEMMA WorkerEffect ==
  ASSUME TypeInv, NEW w \in Workers, Reconcile(w)
  PROVE  /\ cache' \in {cache, bk'}
         /\ net = "prompt" /\ cache = bk => cache' = bk'
         /\ \A b \in Names : b # key[w] \/ bk[b].phase = "Absent" => bk'[b] = bk[b]
         /\ \A b \in Names : bk'[b].phase # bk[b].phase =>
              /\ bk'[b].phase # obj[w].phase
              /\ \/ pc[w] = "EnsurePending" /\ obj[w].phase = "" /\ bk'[b].phase = "Pending"
                 \/ pc[w] = "SetRunning" /\ bk'[b].phase = "Running"
                 \/ pc[w] = "Sync" /\ next[w] > NumDatabases /\ bk'[b].phase = "Completed"
                 \/ pc[w] = "SetFailed" /\ bk'[b].phase = "Failed"
<1> DEFINE o == obj[w]
<1>1. TypeOK /\ o \in BackupResource
  BY DEF TypeInv, TypeOK
<1>2. ASSUME NEW new \in BackupResource, key[w] \in Names, Patches(w, new)
      PROVE  /\ cache' \in {cache, bk'}
             /\ net = "prompt" /\ cache = bk => cache' = bk'
             /\ \A b \in Names : b # key[w] \/ bk[b].phase = "Absent" => bk'[b] = bk[b]
             /\ \A b \in Names : bk'[b].phase # bk[b].phase =>
                  bk'[b].phase = new.phase /\ new.phase # o.phase
  BY <1>1, <1>2, PatchEffect DEF Patches
<1>3. /\ [o EXCEPT !.phase = "Pending"] \in BackupResource
      /\ [o EXCEPT !.phase = "Running"] \in BackupResource
      /\ [o EXCEPT !.phase = "Completed"] \in BackupResource
      /\ [o EXCEPT !.phase = "Failed"] \in BackupResource
      /\ [o EXCEPT !.retryCount = @ + 1] \in BackupResource
  BY <1>1, UpdateTypes DEF Phases
<1>4. /\ [o EXCEPT !.phase = "Pending"].phase = "Pending"
      /\ [o EXCEPT !.phase = "Running"].phase = "Running"
      /\ [o EXCEPT !.phase = "Completed"].phase = "Completed"
      /\ [o EXCEPT !.phase = "Failed"].phase = "Failed"
      /\ [o EXCEPT !.retryCount = @ + 1].phase = o.phase
  BY <1>1 DEF BackupResource
<1>5. CASE bk' = bk /\ cache' = cache
  BY <1>5
<1>6. CASE pc[w] = "EnsurePending" /\ o.phase = "" /\ key[w] \in Names
           /\ Patches(w, [o EXCEPT !.phase = "Pending"])
  BY <1>2, <1>3, <1>4, <1>6
<1>7. CASE pc[w] = "SetRunning" /\ key[w] \in Names
           /\ Patches(w, [o EXCEPT !.phase = "Running"])
  BY <1>2, <1>3, <1>4, <1>7
<1>8. CASE pc[w] = "Sync" /\ next[w] > NumDatabases /\ key[w] \in Names
           /\ Patches(w, [o EXCEPT !.phase = "Completed"])
  BY <1>2, <1>3, <1>4, <1>8
<1>9. CASE pc[w] = "HandleFailure" /\ key[w] \in Names
           /\ Patches(w, [o EXCEPT !.retryCount = @ + 1])
  BY <1>2, <1>3, <1>4, <1>9
<1>10. CASE pc[w] = "SetFailed" /\ key[w] \in Names
            /\ Patches(w, [o EXCEPT !.phase = "Failed"])
  BY <1>2, <1>3, <1>4, <1>10
<1> QED BY <1>5, <1>6, <1>7, <1>8, <1>9, <1>10, WorkerPatches

-----------------------------------------------------------------------------
(* A completed Backup is synced. *)

(* A name not yet used stands for nothing, not even in a trailing cache or *)
(* in the hands of a worker: what is due of a Backup never grows again.    *)
FreshInv ==
  \A b \in fresh : /\ bk[b].phase = "Absent" /\ cache[b].phase = "Absent"
                   /\ \A w \in Workers : key[w] # b

(* A worker at a database has copied those before it. *)
CopyInv ==
  \A w \in Workers : pc[w] = "Sync" =>
    \A d \in Databases : d < next[w] => d \notin due[key[w]]

CopiedInv == FreshInv /\ CopyInv /\ CompletedIsSynced

(* At the start no Backup is complete. *)
LEMMA CopiedInit == Init => CopiedInv
<1> SUFFICES ASSUME Init PROVE CopiedInv
  OBVIOUS
<1>1. \A b \in Names : bk[b].phase = "Absent" /\ cache[b].phase = "Absent"
  BY DEF Init, Absent
<1> QED
  BY <1>1, Constants DEF Init, CopiedInv, FreshInv, CopyInv, CompletedIsSynced

(* Steps of a worker shrink what is due, and set Completed only when       *)
(* nothing is.                                                             *)
LEMMA CopiedReconcile ==
  ASSUME TypeInv, CopiedInv, NEW w \in Workers, Reconcile(w)
  PROVE  CopiedInv'
<1> USE DEF CopiedInv, TypeInv
<1>1. \A b \in Names : due'[b] \subseteq due[b]
  <2>1. due' = due \/ SyncBackup(key[w], next[w])
    BY DEF Reconcile, Begin, EnsurePending, EnsureReady, CheckRunning, SetRunning,
           EnsureS3EnvVars, Connect, BackupDatabase, SetCompleted, HandleFailure,
           SetFailed, history, storage
  <2> QED BY <2>1 DEF SyncBackup
<1>2. FreshInv'
  <2>1. \/ key' = [key EXCEPT ![w] = NoBackup]
        \/ key' = key
        \/ \E c \in Names : key' = [key EXCEPT ![w] = c] /\ cache[c].phase # "Absent"
    BY DEF Reconcile, Begin, EnsurePending, EnsureReady, CheckRunning, SetRunning,
           EnsureS3EnvVars, Connect, BackupDatabase, SetCompleted, HandleFailure,
           SetFailed, controller, GoTo, Return
  <2>2. \A b \in fresh : \A v \in Workers : key'[v] # b
    BY <2>1, Constants DEF FreshInv, TypeOK
  <2>3. \A b \in fresh : bk'[b].phase = "Absent" /\ cache'[b].phase = "Absent"
    <3>1. \A b \in fresh : b \in Names /\ bk'[b] = bk[b]
      BY WorkerEffect DEF FreshInv, TypeOK
    <3>2. cache' \in {cache, bk'}
      BY WorkerEffect
    <3> QED BY <3>1, <3>2 DEF FreshInv
  <2> QED BY <2>2, <2>3, WorkerFrame DEF FreshInv
<1>3. CopyInv'
  <2>1. ASSUME NEW v \in Workers, v # w, pc'[v] = "Sync"
        PROVE  \A d \in Databases : d < next'[v] => d \notin due'[key'[v]]
    BY <1>1, <2>1, WorkerFrame DEF CopyInv, KeyInv
  <2>2. ASSUME pc'[w] = "Sync"
        PROVE  \A d \in Databases : d < next'[w] => d \notin due'[key'[w]]
    <3>1. CASE Connect(w)
      <4>1. next'[w] = 1
        BY <2>2, <3>1 DEF Connect, At, GoTo, TypeOK
      <4> QED BY <4>1, Constants DEF Databases
    <3>2. CASE BackupDatabase(w)
      <4>1. /\ next[w] \in Databases /\ pc[w] = "Sync" /\ key' = key
            /\ next' = [next EXCEPT ![w] = @ + 1]
            /\ SyncBackup(key[w], next[w])
        BY <2>2, <3>2 DEF BackupDatabase, At, GoTo, TypeOK
      <4>2. key[w] \in Names
        BY <4>1 DEF KeyInv
      <4>3. due'[key[w]] = due[key[w]] \ {next[w]}
        BY <4>1, <4>2 DEF SyncBackup
      <4>4. next'[w] = next[w] + 1 /\ next[w] \in Nat
        BY <4>1, Constants DEF TypeOK, Databases
      <4>5. ASSUME NEW d \in Databases, d < next'[w] PROVE d = next[w] \/ d < next[w]
        BY <4>4, <4>5, Constants DEF Databases
      <4> QED BY <4>1, <4>3, <4>5 DEF CopyInv
    <3>3. CASE ~Connect(w) /\ ~BackupDatabase(w)
      BY <2>2, <3>3 DEF Reconcile, Begin, EnsurePending, EnsureReady, CheckRunning,
           SetRunning, EnsureS3EnvVars, SetCompleted, HandleFailure, SetFailed,
           At, controller, GoTo, Return, TypeOK
    <3> QED BY <3>1, <3>2, <3>3
  <2> QED BY <2>1, <2>2 DEF CopyInv
<1>4. CompletedIsSynced'
  <2> SUFFICES ASSUME NEW b \in Names, bk'[b].phase = "Completed" PROVE due'[b] = {}
    BY DEF CompletedIsSynced
  <2>1. CASE bk[b].phase = "Completed"
    BY <1>1, <2>1 DEF CompletedIsSynced
  <2>2. CASE bk[b].phase # "Completed"
    <3>1. pc[w] = "Sync" /\ next[w] > NumDatabases /\ b = key[w]
      BY <2>2, WorkerEffect
    <3>2. \A d \in Databases : d < next[w]
      BY <3>1, Constants DEF Databases, TypeOK
    <3>3. due[b] \subseteq Databases
      BY DEF TypeOK
    <3> QED BY <1>1, <3>1, <3>2, <3>3 DEF CopyInv
  <2> QED BY <2>1, <2>2
<1> QED BY <1>2, <1>3, <1>4

(* The other steps create, delete or reveal Backups; a Backup is given     *)
(* something to copy only when its name is used for the first time.        *)
LEMMA CopiedEnvironment ==
  ASSUME TypeInv, CopiedInv, Environment \/ \E b \in Names : CacheSync(b)
  PROVE  CopiedInv'
<1> USE DEF CopiedInv, TypeInv
<1>1. ASSUME NEW b \in Names, CacheSync(b) PROVE CopiedInv'
  BY <1>1 DEF CacheSync, controller, history, storage, TypeOK, FreshInv, CopyInv, CompletedIsSynced
<1>2. ASSUME NEW b \in Names, CreateBackup(b) PROVE CopiedInv'
  <2>1. [bk EXCEPT ![b] = NewBackup] \in [Names -> BackupResource] /\ {} \in SUBSET Names
    BY ResourceTypes DEF TypeOK
  <2>2. /\ b \in fresh /\ fresh' = fresh \ {b}
        /\ bk' = [bk EXCEPT ![b] = NewBackup] /\ cache' \in {cache, bk'}
        /\ due' = [due EXCEPT ![b] = Databases]
        /\ pc' = pc /\ key' = key /\ next' = next
    BY <1>2, <2>1, StoreEffect DEF CreateBackup, controller
  <2>3. NewBackup.phase = ""
    BY DEF NewBackup
  <2>4. FreshInv'
    BY <2>2 DEF FreshInv, TypeOK
  <2>5. CopyInv'
    BY <2>2 DEF FreshInv, CopyInv, TypeOK, KeyInv
  <2>6. CompletedIsSynced'
    BY <2>2, <2>3 DEF CompletedIsSynced, TypeOK
  <2> QED BY <2>4, <2>5, <2>6
<1>3. ASSUME NEW b \in Names, DeleteBackup(b) PROVE CopiedInv'
  <2>1. [bk EXCEPT ![b] = Absent] \in [Names -> BackupResource] /\ {} \in SUBSET Names
    BY ResourceTypes DEF TypeOK
  <2>2. /\ bk' = [bk EXCEPT ![b] = Absent] /\ cache' \in {cache, bk'}
        /\ fresh' = fresh /\ due' = due /\ pc' = pc /\ key' = key /\ next' = next
    BY <1>3, <2>1, StoreEffect DEF DeleteBackup, controller, history, storage
  <2>3. Absent.phase = "Absent"
    BY DEF Absent
  <2> QED BY <2>2, <2>3 DEF FreshInv, CopyInv, CompletedIsSynced, TypeOK
<1>4. ASSUME Outage \/ Recover \/ RollOut PROVE CopiedInv'
  BY <1>4 DEF Outage, Recover, RollOut, resources, controller, history, storage,
              FreshInv, CopyInv, CompletedIsSynced
<1>5. ASSUME OperatorRestart PROVE CopiedInv'
  BY <1>5, Constants DEF OperatorRestart, history, storage, TypeOK,
                         FreshInv, CopyInv, CompletedIsSynced
<1> QED BY <1>1, <1>2, <1>3, <1>4, <1>5 DEF Environment

(* No step makes a Backup complete that was not copied. *)
LEMMA CopiedStep == TypeInv /\ CopiedInv /\ [Next]_vars => CopiedInv'
<1>1. ASSUME CopiedInv, UNCHANGED vars PROVE CopiedInv'
  BY <1>1 DEF CopiedInv, FreshInv, CopyInv, CompletedIsSynced,
              vars, resources, controller, history, storage
<1> QED BY <1>1, CopiedReconcile, CopiedEnvironment DEF Next

(***************************************************************************)
(* A Backup is Completed only when each of its databases was sent to its   *)
(* storage since it was created: for any number of Backups that share      *)
(* storage, of databases and of workers, whatever attempts fail, patches   *)
(* are lost and caches trail, and wherever the operator restarts.  (That   *)
(* the storage still holds them all is another matter, and false.)         *)
(***************************************************************************)
THEOREM CompletedBackupsAreSynced == Spec => []CompletedIsSynced
<1>1. CopiedInv => CompletedIsSynced
  BY DEF CopiedInv
<1> QED BY <1>1, CopiedInit, CopiedStep, TypeInvariant, PTL DEF Spec

-----------------------------------------------------------------------------
(* One Backup at a time. *)

(***************************************************************************)
(* The cache is current, and no other Backup is Running when a worker is   *)
(* about to set its own Running: what it has read still holds.             *)
(***************************************************************************)
AloneInv ==
  /\ cache = bk
  /\ \A w \in Workers : pc[w] = "SetRunning" =>
       \A c \in Names : c # key[w] => bk[c].phase # "Running"

(* At most one Backup is Running, also while one waits for its next attempt. *)
OneRunningBackup ==
  \A b, c \in Names : IsRunning(bk[b]) /\ IsRunning(bk[c]) => b = c

ExclusionInv == AloneInv /\ OneRunningBackup

(* At the start no Backup runs. *)
LEMMA ExclusionInit == Init => ExclusionInv
<1> SUFFICES ASSUME Init PROVE ExclusionInv
  OBVIOUS
<1>1. \A b \in Names : bk[b].phase = "Absent"
  BY DEF Init, Absent
<1> QED
  BY <1>1 DEF Init, ExclusionInv, AloneInv, OneRunningBackup, IsRunning

(* A worker's step starts a Backup only when no other runs. *)
LEMMA ExclusionReconcile ==
  ASSUME net = "prompt", \A v, w \in Workers : v = w,
         TypeInv, ExclusionInv, NEW w \in Workers, Reconcile(w)
  PROVE  ExclusionInv'
<1> USE DEF ExclusionInv, TypeInv
<1>1. cache' = bk'
  BY WorkerEffect DEF AloneInv
<1>2. \A c \in Names : bk'[c].phase = "Running" =>
        bk[c].phase = "Running" \/ (pc[w] = "SetRunning" /\ c = key[w])
  BY WorkerEffect
<1>3. ASSUME pc'[w] = "SetRunning", NEW c \in Names, c # key'[w]
      PROVE  bk'[c].phase # "Running"
  <2>1. CheckRunning(w) /\ ~hasRunningBackup(key[w]) /\ key' = key /\ bk' = bk
    BY <1>3 DEF Reconcile, Begin, EnsurePending, EnsureReady, CheckRunning, SetRunning,
           EnsureS3EnvVars, Connect, BackupDatabase, SetCompleted, HandleFailure,
           SetFailed, At, controller, GoTo, Return, TypeOK
  <2> QED BY <1>3, <2>1 DEF hasRunningBackup, IsRunning, AloneInv
<1>4. AloneInv'
  BY <1>1, <1>3 DEF AloneInv
<1>5. OneRunningBackup'
  BY <1>2 DEF OneRunningBackup, AloneInv, IsRunning
<1> QED BY <1>4, <1>5

(* Users and restarts start none. *)
LEMMA ExclusionEnvironment ==
  ASSUME net = "prompt", TypeInv, ExclusionInv,
         Environment \/ \E b \in Names : CacheSync(b)
  PROVE  ExclusionInv'
<1> USE DEF ExclusionInv, TypeInv
<1>1. ASSUME NEW b \in Names, CacheSync(b) PROVE FALSE
  BY <1>1 DEF CacheSync
<1>2. ASSUME NEW b \in Names, NEW o \in {NewBackup, Absent},
             Store([bk EXCEPT ![b] = o], {}), pc' = pc, key' = key
      PROVE  ExclusionInv'
  <2>1. [bk EXCEPT ![b] = o] \in [Names -> BackupResource] /\ {} \in SUBSET Names
    BY ResourceTypes DEF TypeOK
  <2>2. bk' = [bk EXCEPT ![b] = o] /\ cache' = bk'
    BY <1>2, <2>1, StoreEffect
  <2>a. NewBackup.phase # "Running" /\ Absent.phase # "Running"
    BY DEF NewBackup, Absent
  <2>3. o.phase # "Running"
    BY <1>2, <2>a
  <2>4. \A c \in Names : bk'[c].phase = "Running" => bk[c].phase = "Running"
    BY <2>2, <2>3 DEF TypeOK
  <2> QED BY <1>2, <2>2, <2>4 DEF AloneInv, OneRunningBackup, IsRunning
<1>3. ASSUME NEW b \in Names, CreateBackup(b) \/ DeleteBackup(b) PROVE ExclusionInv'
  BY <1>2, <1>3 DEF CreateBackup, DeleteBackup, controller
<1>4. ASSUME Outage \/ Recover \/ RollOut PROVE ExclusionInv'
  BY <1>4 DEF Outage, Recover, RollOut, resources, controller,
              AloneInv, OneRunningBackup, IsRunning
<1>5. ASSUME OperatorRestart PROVE ExclusionInv'
  BY <1>5 DEF OperatorRestart, AloneInv, OneRunningBackup, IsRunning
<1> QED BY <1>1, <1>3, <1>4, <1>5 DEF Environment

(* So every step keeps running Backups apart. *)
LEMMA ExclusionStep ==
  ASSUME \A v, w \in Workers : v = w
  PROVE  net = "prompt" /\ TypeInv /\ ExclusionInv /\ [Next]_vars => ExclusionInv'
<1>1. ASSUME ExclusionInv, UNCHANGED vars PROVE ExclusionInv'
  BY <1>1 DEF ExclusionInv, AloneInv, OneRunningBackup, IsRunning,
              vars, resources, controller
<1> QED BY <1>1, ExclusionReconcile, ExclusionEnvironment DEF Next

(* The network stays as it is. *)
LEMMA NetworkStep == [Next]_vars => net' = net
  BY DEF Next, vars, Reconcile, Begin, EnsurePending, EnsureReady, CheckRunning,
         SetRunning, EnsureS3EnvVars, Connect, BackupDatabase, SetCompleted,
         HandleFailure, SetFailed, CacheSync, Environment, CreateBackup,
         DeleteBackup, Outage, Recover, RollOut, OperatorRestart, cluster

-----------------------------------------------------------------------------
(* The controller implements the life cycle. *)

(***************************************************************************)
(* What the server holds at each step of a reconciliation, unless the      *)
(* Backup was deleted: the phase the worker read until it sets Running,    *)
(* Running while it copies, and after a failure what the failed patch has  *)
(* left.                                                                   *)
(***************************************************************************)
Stage(w) ==
  \/ pc[w] = "Idle"
  \/ bk[key[w]].phase = "Absent"
  \/ /\ pc[w] = "EnsurePending"
     /\ bk[key[w]].phase = obj[w].phase
     /\ bk[key[w]].phase \in {"", "Pending", "Running"}
  \/ /\ pc[w] \in {"EnsureReady", "HasRunning", "SetRunning"}
     /\ bk[key[w]].phase = obj[w].phase
     /\ bk[key[w]].phase \in {"Pending", "Running"}
  \/ /\ pc[w] \in {"EnsureS3EnvVars", "Connect", "Sync"}
     /\ bk[key[w]].phase = "Running"
  \/ /\ pc[w] \in {"HandleFailure", "SetFailed"}
     /\ bk[key[w]].phase \in {"Pending", "Running"}

StageInv == \A w \in Workers : Stage(w)

(* Initially no worker has started. *)
LEMMA StageInit == Init => StageInv
  BY DEF Init, StageInv, Stage

(* On a prompt network a patch is applied or nothing happens. *)
LEMMA PatchOutcome ==
  ASSUME net = "prompt", TypeOK, NEW w \in Workers, key[w] \in Names,
         NEW new \in BackupResource, NEW r \in SUBSET Names
  PROVE  /\ PatchApplied(w, new, r) =>
              /\ bk'[key[w]] = MergePatch(bk[key[w]], obj[w], new)
              /\ bk'[key[w]] \in BackupResource
         /\ PatchFails(w, new, r) => bk' = bk
<1>1. bk \in [Names -> BackupResource] /\ obj[w] \in BackupResource
  BY DEF TypeOK
<1>2. MergePatch(bk[key[w]], obj[w], new) \in BackupResource
  BY <1>1 DEF MergePatch, BackupResource
<1>3. Merged(w, new) \in [Names -> BackupResource]
  BY <1>1, <1>2 DEF Merged
<1>4. ASSUME PatchApplied(w, new, r)
      PROVE  bk'[key[w]] = MergePatch(bk[key[w]], obj[w], new)
  BY <1>1, <1>3, <1>4, StoreEffect DEF PatchApplied, Merged
<1>5. PatchFails(w, new, r) => bk' = bk
  BY <1>1, StoreEffect DEF PatchFails
<1> QED BY <1>2, <1>4, <1>5

(* The steps of a worker take the Backup from stage to stage. *)
LEMMA StageReconcile ==
  ASSUME net = "prompt", TypeInv, cache = bk, StageInv,
         NEW w \in Workers, Reconcile(w)
  PROVE  StageInv'
<1> DEFINE b == key[w]
           o == obj[w]
<1> USE DEF TypeInv
<1>1. ASSUME NEW v \in Workers, v # w PROVE Stage(v)'
  <2>1. Stage(v) /\ pc'[v] = pc[v] /\ key'[v] = key[v] /\ obj'[v] = obj[v]
    BY <1>1, WorkerFrame DEF StageInv
  <2>2. pc[v] # "Idle" => bk'[key[v]] = bk[key[v]]
    BY <1>1, WorkerEffect DEF KeyInv
  <2> QED BY <2>1, <2>2 DEF Stage
<1>2. Stage(w)'
  <2> SUFFICES ASSUME pc'[w] # "Idle", bk'[key'[w]].phase # "Absent" PROVE Stage(w)'
    BY DEF Stage
  <2>a. o \in BackupResource /\ bk \in [Names -> BackupResource] /\ Stage(w)
        /\ pc \in [Workers -> {"Idle", "EnsurePending", "EnsureReady", "HasRunning",
                         "SetRunning", "EnsureS3EnvVars", "Connect", "Sync",
                         "HandleFailure", "SetFailed"}]
        /\ obj \in [Workers -> BackupResource]
    BY DEF TypeOK, StageInv
  <2>b. /\ [o EXCEPT !.phase = "Pending"] \in BackupResource
        /\ [o EXCEPT !.phase = "Running"] \in BackupResource
        /\ [o EXCEPT !.phase = "Completed"] \in BackupResource
        /\ [o EXCEPT !.phase = "Failed"] \in BackupResource
        /\ [o EXCEPT !.retryCount = @ + 1] \in BackupResource
    BY <2>a, UpdateTypes DEF Phases
  <2>c. /\ [o EXCEPT !.phase = "Pending"].phase = "Pending"
        /\ [o EXCEPT !.phase = "Running"].phase = "Running"
        /\ [o EXCEPT !.phase = "Completed"].phase = "Completed"
        /\ [o EXCEPT !.phase = "Failed"].phase = "Failed"
        /\ [o EXCEPT !.retryCount = @ + 1].phase = o.phase
    BY <2>a DEF BackupResource
  <2>d. pc[w] # "Idle" => b \in Names
    BY DEF KeyInv
  <2>e. key'[w] = b \/ \E c \in Names : Begin(w, c)
    BY DEF Reconcile, EnsurePending, EnsureReady, CheckRunning, SetRunning,
           EnsureS3EnvVars, Connect, BackupDatabase, SetCompleted, HandleFailure,
           SetFailed, GoTo, Return, TypeOK
  <2>f. pc[w] # "Idle" /\ bk[b].phase = "Absent" => bk'[b].phase = "Absent"
    BY <2>d, WorkerEffect
  <2>1. CASE \E c \in Names : Begin(w, c)
    <3>1. PICK c \in Names : Begin(w, c)
      BY <2>1
    <3>2. /\ pc'[w] = "EnsurePending" /\ key'[w] = c /\ obj'[w] = cache[c] /\ bk' = bk
          /\ cache[c].phase \notin {"Absent", "Completed", "Failed"}
      BY <3>1 DEF Begin, At, controller, TypeOK, IsTerminal
    <3> QED BY <2>a, <3>2 DEF Stage, BackupResource, Phases
  <2>2. CASE EnsurePending(w)
    <3>1. pc[w] = "EnsurePending" /\ bk[b].phase = o.phase
          /\ bk[b].phase \in {"", "Pending", "Running"} /\ b \in Names /\ key'[w] = b
      BY <2>2, <2>a, <2>d, <2>e, <2>f DEF EnsurePending, At, Stage, Begin
    <3>2. CASE o.phase # "" /\ GoTo(w, "EnsureReady") /\ UNCHANGED <<resources, obj, used>>
      BY <2>a, <3>1, <3>2 DEF GoTo, resources, Stage
    <3>3. CASE PatchApplied(w, [o EXCEPT !.phase = "Pending"], {}) /\ Refreshed(w)
               /\ GoTo(w, "EnsureReady") /\ o.phase = ""
      <4>1. bk'[b] = MergePatch(bk[b], o, [o EXCEPT !.phase = "Pending"])
        BY <2>b, <3>1, <3>3, PatchOutcome
      <4>2. bk'[b].phase = "Pending"
        <5>1. o.phase # "Pending"
          BY <3>3
        <5> QED BY <2>c, <4>1, <5>1 DEF MergePatch
      <4>3. pc'[w] = "EnsureReady" /\ obj'[w] = bk'[b]
        BY <2>a, <3>3 DEF GoTo, Refreshed
      <4> QED BY <3>1, <4>2, <4>3 DEF Stage
    <3>4. CASE Return(w)
      BY <2>a, <3>4 DEF Return
    <3> QED BY <2>2, <3>2, <3>3, <3>4 DEF EnsurePending
  <2>3. CASE EnsureReady(w) \/ CheckRunning(w)
    <3>1. pc[w] \in {"EnsureReady", "HasRunning"} /\ bk' = bk
      BY <2>3 DEF EnsureReady, CheckRunning, At
    <3>2. pc'[w] \in {"HasRunning", "SetRunning"} /\ key' = key /\ obj' = obj
      BY <2>3, <2>a DEF EnsureReady, CheckRunning, GoTo, Return
    <3> QED BY <2>a, <3>1, <3>2 DEF Stage
  <2>4. CASE SetRunning(w)
    <3>1. pc[w] = "SetRunning" /\ bk[b].phase = o.phase
          /\ bk[b].phase \in {"Pending", "Running"} /\ b \in Names /\ key'[w] = b
      BY <2>4, <2>a, <2>d, <2>e, <2>f DEF SetRunning, At, Stage, Begin
    <3>2. CASE PatchApplied(w, [o EXCEPT !.phase = "Running"], {})
               /\ GoTo(w, IF b \in S3 THEN "EnsureS3EnvVars" ELSE "Connect")
      <4>1. bk'[b] = MergePatch(bk[b], o, [o EXCEPT !.phase = "Running"])
        BY <2>b, <3>1, <3>2, PatchOutcome
      <4>2. bk'[b].phase = "Running"
        BY <2>c, <3>1, <4>1 DEF MergePatch
      <4>3. pc'[w] \in {"EnsureS3EnvVars", "Connect"}
        BY <2>a, <3>2 DEF GoTo
      <4> QED BY <3>1, <4>2, <4>3 DEF Stage
    <3>3. CASE PatchFails(w, [o EXCEPT !.phase = "Running"], {}) /\ GoTo(w, "HandleFailure")
      <4>1. bk' = bk /\ pc'[w] = "HandleFailure"
        BY <2>a, <2>b, <3>1, <3>3, PatchOutcome DEF GoTo
      <4> QED BY <3>1, <4>1 DEF Stage
    <3> QED BY <2>4, <3>2, <3>3 DEF SetRunning
  <2>5. CASE EnsureS3EnvVars(w) \/ Connect(w) \/ BackupDatabase(w)
    <3>1. pc[w] \in {"EnsureS3EnvVars", "Connect", "Sync"} /\ bk' = bk /\ key'[w] = b
      BY <2>5, <2>a, <2>e DEF EnsureS3EnvVars, Connect, BackupDatabase, At, resources, Begin
    <3>2. pc'[w] \in {"Connect", "Sync", "HandleFailure"}
      BY <2>5, <2>a DEF EnsureS3EnvVars, Connect, BackupDatabase, At, GoTo
    <3> QED BY <2>a, <3>1, <3>2 DEF Stage
  <2>6. CASE SetCompleted(w)
    <3>1. pc[w] = "Sync" /\ bk[b].phase = "Running" /\ b \in Names /\ key'[w] = b
      BY <2>6, <2>a, <2>d, <2>e, <2>f DEF SetCompleted, At, Stage, Begin
    <3>2. CASE Return(w)
      BY <2>a, <3>2 DEF Return
    <3>3. CASE PatchFails(w, [o EXCEPT !.phase = "Completed"], {}) /\ GoTo(w, "HandleFailure")
      <4>1. bk' = bk /\ pc'[w] = "HandleFailure"
        BY <2>a, <2>b, <3>1, <3>3, PatchOutcome DEF GoTo
      <4> QED BY <3>1, <4>1 DEF Stage
    <3> QED BY <2>6, <3>2, <3>3 DEF SetCompleted
  <2>7. CASE HandleFailure(w)
    <3>1. pc[w] = "HandleFailure" /\ bk[b].phase \in {"Pending", "Running"}
          /\ b \in Names /\ key'[w] = b
      BY <2>7, <2>a, <2>d, <2>e, <2>f DEF HandleFailure, At, Stage, Begin
    <3>2. pc'[w] = "SetFailed"
      BY <2>7, <2>a DEF HandleFailure, GoTo, Return
    <3>3. bk'[b].phase = bk[b].phase
      BY <3>1, WorkerEffect
    <3> QED BY <3>1, <3>2, <3>3 DEF Stage
  <2>8. CASE SetFailed(w)
    BY <2>8, <2>a DEF SetFailed, Return
  <2> QED BY <2>1, <2>2, <2>3, <2>4, <2>5, <2>6, <2>7, <2>8 DEF Reconcile
<1> QED BY <1>1, <1>2 DEF StageInv

(* Others take a Backup away from a worker only by deleting it. *)
LEMMA StageEnvironment ==
  ASSUME TypeInv, FreshInv, StageInv, Environment
  PROVE  StageInv'
<1> USE DEF TypeInv
<1>1. ASSUME NEW b \in Names, CreateBackup(b) PROVE StageInv'
  <2>1. [bk EXCEPT ![b] = NewBackup] \in [Names -> BackupResource] /\ {} \in SUBSET Names
    BY ResourceTypes DEF TypeOK
  <2>2. /\ b \in fresh /\ bk' = [bk EXCEPT ![b] = NewBackup]
        /\ pc' = pc /\ key' = key /\ obj' = obj
    BY <1>1, <2>1, StoreEffect DEF CreateBackup, controller
  <2>3. \A w \in Workers : pc[w] # "Idle" => bk'[key[w]] = bk[key[w]]
    BY <2>2 DEF FreshInv, KeyInv, TypeOK
  <2> QED BY <2>2, <2>3 DEF StageInv, Stage
<1>2. ASSUME NEW b \in Names, DeleteBackup(b) PROVE StageInv'
  <2>1. [bk EXCEPT ![b] = Absent] \in [Names -> BackupResource] /\ {} \in SUBSET Names
    BY ResourceTypes DEF TypeOK
  <2>2. bk' = [bk EXCEPT ![b] = Absent] /\ pc' = pc /\ key' = key /\ obj' = obj
    BY <1>2, <2>1, StoreEffect DEF DeleteBackup, controller
  <2>3. \A w \in Workers : pc[w] # "Idle" =>
          bk'[key[w]] = bk[key[w]] \/ bk'[key[w]].phase = "Absent"
    BY <2>2 DEF KeyInv, TypeOK, Absent
  <2> QED BY <2>2, <2>3 DEF StageInv, Stage
<1>3. ASSUME Outage \/ Recover \/ RollOut PROVE StageInv'
  BY <1>3 DEF Outage, Recover, RollOut, resources, controller, StageInv, Stage
<1>4. ASSUME OperatorRestart PROVE StageInv'
  BY <1>4 DEF OperatorRestart, StageInv, Stage
<1> QED BY <1>1, <1>2, <1>3, <1>4 DEF Environment

(* Every step keeps the stages. *)
LEMMA StageStep ==
  net = "prompt" /\ TypeInv /\ FreshInv /\ cache = bk /\ StageInv /\ [Next]_vars
    => StageInv'
<1>1. ASSUME StageInv, UNCHANGED vars PROVE StageInv'
  BY <1>1 DEF StageInv, Stage, vars, resources, controller
<1>2. net = "prompt" => \A b \in Names : ~CacheSync(b)
  BY DEF CacheSync
<1> QED BY <1>1, <1>2, StageReconcile, StageEnvironment DEF Next

-----------------------------------------------------------------------------
(* The phases of the Backups, which the life cycle is about. *)
PhaseOf == [b \in Names |-> IF net = "prompt" THEN bk[b].phase ELSE "Absent"]

(* A change of one Backup changes one phase. *)
LEMMA PhaseChange ==
  ASSUME net = "prompt", net' = net, TypeOK, bk' \in [Names -> BackupResource],
         NEW b \in Names,
         \A c \in Names : c # b => bk'[c].phase = bk[c].phase
  PROVE  PhaseOf' = [PhaseOf EXCEPT ![b] = bk'[b].phase]
  BY DEF PhaseOf

(* A step of a worker is a step of the life cycle, or none. *)
LEMMA ReconcileLifecycle ==
  ASSUME net = "prompt", net' = net, \A v, w \in Workers : v = w,
         TypeInv, TypeInv', AloneInv, StageInv,
         NEW w \in Workers, Reconcile(w)
  PROVE  PhaseOf' = PhaseOf \/ Lifecycle!Next
<1>1. CASE \A c \in Names : bk'[c].phase = bk[c].phase
  BY <1>1 DEF PhaseOf
<1>2. CASE \E c \in Names : bk'[c].phase # bk[c].phase
  <2>1. PICK b \in Names :
          /\ b = key[w] /\ bk[b].phase # "Absent"
          /\ \A c \in Names : c # b => bk'[c].phase = bk[c].phase
          /\ bk'[b].phase # bk[b].phase
    BY <1>2, WorkerEffect
  <2>2. PhaseOf' = [PhaseOf EXCEPT ![b] = bk'[b].phase]
    BY <2>1, PhaseChange DEF TypeInv, TypeOK
  <2>3. PhaseOf[b] = bk[b].phase
    BY <2>1 DEF PhaseOf
  <2>4. Stage(w) /\ bk'[b].phase # obj[w].phase
    BY <2>1, WorkerEffect DEF StageInv
  <2>5. CASE pc[w] = "EnsurePending" /\ obj[w].phase = "" /\ bk'[b].phase = "Pending"
    <3>1. bk[b].phase = ""
      BY <2>1, <2>4, <2>5 DEF Stage
    <3>2. Lifecycle!Accept(b)
      BY <2>2, <2>3, <2>5, <3>1 DEF Lifecycle!Accept, Lifecycle!Move, PhaseOf
    <3> QED BY <2>1, <3>2 DEF Lifecycle!Next
  <2>6. CASE pc[w] = "SetRunning" /\ bk'[b].phase = "Running"
    <3>1. bk[b].phase = "Pending"
      BY <2>1, <2>4, <2>6 DEF Stage
    <3>2. \A c \in Names : c # b => PhaseOf[c] # "Running"
      BY <2>1, <2>6 DEF AloneInv, PhaseOf
    <3>3. Lifecycle!Start(b)
      BY <2>2, <2>3, <2>6, <3>1, <3>2
         DEF Lifecycle!Start, Lifecycle!Alone, Lifecycle!Move, PhaseOf
    <3> QED BY <2>1, <3>3 DEF Lifecycle!Next
  <2>7. CASE pc[w] = "Sync" /\ bk'[b].phase = "Completed"
    <3>1. bk[b].phase = "Running"
      BY <2>1, <2>4, <2>7 DEF Stage
    <3>2. Lifecycle!Complete(b)
      BY <2>2, <2>3, <2>7, <3>1 DEF Lifecycle!Complete, Lifecycle!Move, PhaseOf
    <3> QED BY <2>1, <3>2 DEF Lifecycle!Next
  <2>8. CASE pc[w] = "SetFailed" /\ bk'[b].phase = "Failed"
    <3>1. bk[b].phase \in {"Pending", "Running"}
      BY <2>1, <2>4, <2>8 DEF Stage
    <3>2. Lifecycle!Fail(b)
      BY <2>2, <2>3, <2>8, <3>1 DEF Lifecycle!Fail, Lifecycle!Move, PhaseOf
    <3> QED BY <2>1, <3>2 DEF Lifecycle!Next
  <2> QED BY <2>1, <2>5, <2>6, <2>7, <2>8, WorkerEffect
<1> QED BY <1>1, <1>2

(* So is a step of anyone else. *)
LEMMA EnvironmentLifecycle ==
  ASSUME net = "prompt", net' = net, TypeInv, FreshInv, Environment
  PROVE  PhaseOf' = PhaseOf \/ Lifecycle!Next
<1> USE DEF TypeInv
<1>1. ASSUME NEW b \in Names, CreateBackup(b) PROVE Lifecycle!Next
  <2>1. [bk EXCEPT ![b] = NewBackup] \in [Names -> BackupResource] /\ {} \in SUBSET Names
    BY ResourceTypes DEF TypeOK
  <2>2. b \in fresh /\ bk' = [bk EXCEPT ![b] = NewBackup]
    BY <1>1, <2>1, StoreEffect DEF CreateBackup
  <2>3. PhaseOf' = [PhaseOf EXCEPT ![b] = bk'[b].phase] /\ bk'[b].phase = ""
    BY <2>1, <2>2, PhaseChange DEF TypeOK, NewBackup
  <2>4. PhaseOf[b] = "Absent"
    BY <2>2 DEF FreshInv, PhaseOf
  <2>5. Lifecycle!Create(b)
    BY <2>3, <2>4 DEF Lifecycle!Create, Lifecycle!Move, PhaseOf
  <2> QED BY <2>5 DEF Lifecycle!Next
<1>2. ASSUME NEW b \in Names, DeleteBackup(b) PROVE Lifecycle!Next
  <2>1. [bk EXCEPT ![b] = Absent] \in [Names -> BackupResource] /\ {} \in SUBSET Names
    BY ResourceTypes DEF TypeOK
  <2>2. bk[b].phase # "Absent" /\ bk' = [bk EXCEPT ![b] = Absent]
    BY <1>2, <2>1, StoreEffect DEF DeleteBackup, Exists
  <2>3. PhaseOf' = [PhaseOf EXCEPT ![b] = bk'[b].phase] /\ bk'[b].phase = "Absent"
    BY <2>1, <2>2, PhaseChange DEF TypeOK, Absent
  <2>4. PhaseOf[b] \in Phases
    BY <2>2 DEF PhaseOf, TypeOK, BackupResource
  <2>5. Lifecycle!Delete(b)
    BY <2>3, <2>4 DEF Lifecycle!Delete, Lifecycle!Move, Lifecycle!Phases, Phases, PhaseOf
  <2> QED BY <2>5 DEF Lifecycle!Next
<1>3. ASSUME Outage \/ Recover \/ RollOut \/ OperatorRestart PROVE PhaseOf' = PhaseOf
  BY <1>3 DEF Outage, Recover, RollOut, OperatorRestart, resources, PhaseOf
<1> QED BY <1>1, <1>2, <1>3 DEF Environment

(***************************************************************************)
(* With one worker and on a prompt network every step of the controller,   *)
(* of users and of faults is a step of the life cycle or leaves the phases *)
(* alone: a Backup runs alone, goes from Pending to Running to its end,    *)
(* and what ended stays ended.                                             *)
(***************************************************************************)
THEOREM ControllerImplementsLifecycle ==
  ASSUME \A v, w \in Workers : v = w
  PROVE  Spec => Lifecycle!Safety
<1> DEFINE PromptInv == net = "prompt" => ExclusionInv /\ StageInv
           Inv == TypeInv /\ CopiedInv /\ PromptInv
<1>1. Spec => []Inv
  <2>1. Init => Inv
    BY TypeInit, CopiedInit, ExclusionInit, StageInit
  <2>2. Inv /\ [Next]_vars => Inv'
    <3> SUFFICES ASSUME Inv, [Next]_vars PROVE TypeInv' /\ CopiedInv' /\ PromptInv'
      OBVIOUS
    <3>1. ASSUME net = "prompt" PROVE ExclusionInv' /\ StageInv'
      BY <3>1, ExclusionStep, StageStep DEF CopiedInv, ExclusionInv, AloneInv
    <3> QED BY <3>1, TypeStep, CopiedStep, NetworkStep
  <2> QED BY <2>1, <2>2, PTL DEF Spec
<1>2. Init => Lifecycle!Init
  BY DEF Init, Lifecycle!Init, Absent
<1>3. Inv /\ Inv' /\ [Next]_vars => [Lifecycle!Next]_PhaseOf
  <2> SUFFICES ASSUME Inv, Inv', [Next]_vars PROVE PhaseOf' = PhaseOf \/ Lifecycle!Next
    OBVIOUS
  <2>0. net' = net
    BY NetworkStep
  <2>1. CASE UNCHANGED vars \/ net # "prompt"
    BY <2>0, <2>1 DEF vars, resources, PhaseOf
  <2>2. CASE Next /\ net = "prompt"
    <3>1. \A b \in Names : ~CacheSync(b)
      BY <2>2 DEF CacheSync
    <3> QED
      BY <2>0, <2>2, <3>1, ReconcileLifecycle, EnvironmentLifecycle
         DEF Next, CopiedInv, ExclusionInv
  <2> QED BY <2>1, <2>2
<1>4. Inv /\ Inv' /\ [Next]_vars
        => [Lifecycle!Next]_[b \in Names |-> IF net = "prompt" THEN bk[b].phase ELSE "Absent"]
  BY <1>3 DEF PhaseOf
<1> QED BY <1>1, <1>2, <1>4, PTL DEF Spec, Lifecycle!Safety

-----------------------------------------------------------------------------
(* The limit bounds the attempts. *)

(* A Backup is attempted once even when the limit is zero. *)
Limit == IF BackoffLimit = 0 THEN 1 ELSE BackoffLimit

(* The events that lose count of an attempt. *)
Uncounted == used.restarts + used.patch

(* A Backup that may still be attempted. *)
Live(b) == bk[b].phase \notin {"Absent", "Completed", "Failed"}

Before == {"EnsurePending", "EnsureReady", "HasRunning", "SetRunning"}

During == {"EnsureS3EnvVars", "Connect", "Sync", "HandleFailure", "SetFailed"}

Attempting(b) == \E w \in Workers : key[w] = b /\ pc[w] \in During

(***************************************************************************)
(* retryCount counts the attempts that have failed, but for those whose    *)
(* count was lost; an attempt under way is one more, and a Backup that     *)
(* waits for its next one has one left.                                    *)
(***************************************************************************)
Count(b) ==
  /\ tries[b] <= Uncounted + Limit
  /\ b \in fresh => tries[b] = 0
  /\ Live(b) => tries[b] <= Uncounted + bk[b].retryCount + 1
  /\ Live(b) /\ ~Attempting(b) =>
       tries[b] <= Uncounted + bk[b].retryCount /\ tries[b] + 1 <= Uncounted + Limit

(* What a worker goes by is what the server holds. *)
View(w) ==
  /\ pc[w] \in Before => /\ tries[key[w]] + 1 <= Uncounted + Limit
                         /\ Live(key[w]) \/ bk[key[w]].phase = "Absent"
  /\ pc[w] # "Idle" /\ Live(key[w]) =>
       /\ obj[w].phase # "Failed"
       /\ pc[w] \notin {"HandleFailure", "SetFailed"} => obj[w].phase # "Completed"
       /\ pc[w] # "SetFailed" => obj[w].retryCount = bk[key[w]].retryCount

AttemptsInv ==
  /\ cache = bk
  /\ \A b \in Names : Count(b)
  /\ \A w \in Workers : View(w)

(* The counts are numbers. *)
LEMMA CountTypes ==
  ASSUME TypeOK
  PROVE  /\ Limit \in Nat \ {0}
         /\ Uncounted \in Nat
         /\ \A b \in Names : tries[b] \in Nat /\ bk[b].retryCount \in Nat
  BY Constants DEF TypeOK, BackupResource, Limit, Uncounted

(* A Backup nobody touches keeps its count when more is lost, ... *)
LEMMA CountFrame ==
  ASSUME TypeOK, TypeOK', NEW b \in Names, Count(b), Uncounted <= Uncounted',
         bk'[b] = bk[b], tries'[b] = tries[b], fresh' \subseteq fresh,
         Attempting(b) => Attempting(b)'
  PROVE  Count(b)'
<1>1. /\ Limit \in Nat /\ Uncounted \in Nat /\ Uncounted' \in Nat
      /\ tries[b] \in Nat /\ bk[b].retryCount \in Nat
  BY CountTypes DEF TypeOK, Uncounted
<1>2. Live(b)' <=> Live(b)
  BY DEF Live
<1> QED BY <1>1, <1>2 DEF Count, Limit

(* ... and a worker that does nothing its view. *)
LEMMA ViewFrame ==
  ASSUME TypeInv, TypeOK', NEW w \in Workers, View(w), Uncounted <= Uncounted',
         pc'[w] = pc[w], key'[w] = key[w], obj'[w] = obj[w],
         pc[w] # "Idle" => \/ bk'[key[w]] = bk[key[w]]
                           \/ bk'[key[w]].phase = "Absent",
         pc[w] # "Idle" => tries'[key[w]] = tries[key[w]]
  PROVE  View(w)'
<1>1. CASE pc[w] = "Idle"
  BY <1>1 DEF View, Before
<1>2. CASE pc[w] # "Idle"
  <2>1. key[w] \in Names
    BY <1>2 DEF TypeInv, KeyInv
  <2>2. /\ Limit \in Nat /\ Uncounted \in Nat /\ Uncounted' \in Nat
        /\ tries[key[w]] \in Nat
    BY <2>1, CountTypes DEF TypeInv, TypeOK, Uncounted
  <2>3. CASE bk'[key[w]] = bk[key[w]]
    BY <1>2, <2>1, <2>2, <2>3 DEF View, Live, Limit
  <2>4. CASE bk'[key[w]].phase = "Absent"
    BY <1>2, <2>1, <2>2, <2>4 DEF View, Live, Limit
  <2> QED BY <1>2, <2>3, <2>4
<1> QED BY <1>1, <1>2

(* Initially nothing has been attempted. *)
LEMMA AttemptsInit == Init => AttemptsInv
<1> SUFFICES ASSUME Init PROVE AttemptsInv
  OBVIOUS
<1>1. Limit \in Nat /\ Uncounted \in Nat /\ \A b \in Names : tries[b] = 0 /\ ~Live(b)
  BY Constants DEF Init, Limit, Uncounted, Live, Absent
<1>2. \A w \in Workers : pc[w] = "Idle"
  BY DEF Init
<1> QED BY <1>1, <1>2 DEF AttemptsInv, Count, View, Before, Init

(***************************************************************************)
(* A patch of an existing Backup is applied, or costs a fault; a lost      *)
(* answer does both.  One of a deleted Backup changes nothing.             *)
(***************************************************************************)
LEMMA PatchCost ==
  ASSUME TypeOK, NEW w \in Workers, key[w] \in Names,
         NEW new \in BackupResource, NEW r \in SUBSET Names
  PROVE  /\ PatchApplied(w, new, r) =>
              /\ bk[key[w]].phase # "Absent"
              /\ bk'[key[w]] = MergePatch(bk[key[w]], obj[w], new)
              /\ Uncounted' = Uncounted
         /\ PatchFails(w, new, r) =>
              /\ bk'[key[w]] \in {bk[key[w]], MergePatch(bk[key[w]], obj[w], new)}
              /\ bk[key[w]].phase # "Absent" => Uncounted' = Uncounted + 1
              /\ bk[key[w]].phase = "Absent" => bk' = bk /\ Uncounted' = Uncounted
<1>1. /\ bk \in [Names -> BackupResource] /\ obj[w] \in BackupResource
      /\ used.restarts \in Nat /\ used.patch \in Nat
      /\ used \in [{"patch", "restarts", "outages", "deletes"} -> Nat]
  BY DEF TypeOK
<1>2. MergePatch(bk[key[w]], obj[w], new) \in BackupResource
  BY <1>1 DEF MergePatch, BackupResource
<1>3. Merged(w, new) \in [Names -> BackupResource]
  BY <1>1, <1>2 DEF Merged
<1>4. ASSUME PatchApplied(w, new, r)
      PROVE  /\ bk[key[w]].phase # "Absent"
             /\ bk'[key[w]] = MergePatch(bk[key[w]], obj[w], new)
             /\ Uncounted' = Uncounted
  BY <1>1, <1>3, <1>4, StoreEffect DEF PatchApplied, Merged, Exists, Uncounted
<1>5. ASSUME PatchFails(w, new, r), bk[key[w]].phase = "Absent"
      PROVE  bk' = bk /\ Uncounted' = Uncounted
  BY <1>1, <1>5, StoreEffect DEF PatchFails, Exists, Uncounted
<1>6. ASSUME PatchFails(w, new, r), bk[key[w]].phase # "Absent"
      PROVE  /\ bk'[key[w]] \in {bk[key[w]], MergePatch(bk[key[w]], obj[w], new)}
             /\ Uncounted' = Uncounted + 1
  <2>1. /\ used' = [used EXCEPT !.patch = @ + 1]
        /\ Store(bk, r) \/ Store(Merged(w, new), r)
    BY <1>6 DEF PatchFails, Exists
  <2>2. Uncounted' = Uncounted + 1
    BY <1>1, <2>1 DEF Uncounted
  <2>3. bk' = bk \/ bk' = Merged(w, new)
    BY <1>1, <1>3, <2>1, StoreEffect
  <2> QED BY <1>1, <2>2, <2>3 DEF Merged
<1> QED BY <1>4, <1>5, <1>6

(* What a step of a worker leaves to the counts of others. *)
LEMMA WorkerCounts ==
  ASSUME TypeInv, NEW w \in Workers, Reconcile(w)
  PROVE  /\ Uncounted' \in {Uncounted, Uncounted + 1}
         /\ tries' = tries \/ (pc[w] = "SetRunning" /\ tries' = [tries EXCEPT ![key[w]] = @ + 1])
<1>1. tries' = tries \/ (pc[w] = "SetRunning" /\ tries' = [tries EXCEPT ![key[w]] = @ + 1])
  BY DEF Reconcile, Begin, EnsurePending, EnsureReady, CheckRunning, SetRunning,
         EnsureS3EnvVars, Connect, BackupDatabase, SetCompleted, HandleFailure,
         SetFailed, history, storage, At
<1>2. used' = used \/ used' = [used EXCEPT !.patch = @ + 1]
  BY DEF Reconcile, Begin, EnsurePending, EnsureReady, CheckRunning, SetRunning,
         EnsureS3EnvVars, Connect, BackupDatabase, SetCompleted, HandleFailure,
         SetFailed, PatchApplied, PatchFails
<1>3. Uncounted' \in {Uncounted, Uncounted + 1}
  BY <1>2 DEF Uncounted, TypeInv, TypeOK
<1> QED BY <1>1, <1>3

(* Steps of a worker keep the counts. *)
LEMMA AttemptsReconcile ==
  ASSUME net = "prompt", TypeInv, TypeInv', AttemptsInv, FreshInv,
         NEW w \in Workers, Reconcile(w)
  PROVE  AttemptsInv'
<1> USE DEF TypeInv
<1>0. PICK b : b = key[w]
  OBVIOUS
<1> DEFINE o == obj[w]
<1> USE <1>0
<1>a. /\ Limit \in Nat \ {0} /\ Uncounted \in Nat
      /\ \A c \in Names : tries[c] \in Nat /\ bk[c].retryCount \in Nat
  BY CountTypes
<1>b. Uncounted' \in {Uncounted, Uncounted + 1} /\ fresh' = fresh
  BY WorkerCounts, WorkerFrame
<1>1. cache' = bk'
  BY WorkerEffect DEF AttemptsInv
<1>2. ASSUME NEW c \in Names, c # b PROVE Count(c)'
  <2>1. Attempting(c) => Attempting(c)'
    BY <1>2, WorkerFrame DEF Attempting
  <2>2. bk'[c] = bk[c] /\ tries'[c] = tries[c]
    <3>1. bk'[c] = bk[c]
      BY <1>2, WorkerEffect
    <3>2. tries'[c] = tries[c]
      BY <1>2, WorkerCounts DEF TypeOK
    <3> QED BY <3>1, <3>2
  <2> QED BY <1>a, <1>b, <2>1, <2>2, CountFrame DEF AttemptsInv
<1>3. ASSUME NEW v \in Workers, v # w PROVE View(v)'
  <2>1. pc[v] # "Idle" => key[v] \in Names /\ key[v] # b
    BY <1>3 DEF KeyInv
  <2>2. pc[v] # "Idle" => bk'[key[v]] = bk[key[v]] /\ tries'[key[v]] = tries[key[v]]
    <3>1. pc[v] # "Idle" => bk'[key[v]] = bk[key[v]]
      BY <2>1, WorkerEffect
    <3>2. pc[v] # "Idle" => tries'[key[v]] = tries[key[v]]
      BY <2>1, WorkerCounts DEF TypeOK
    <3> QED BY <3>1, <3>2
  <2>3. pc'[v] = pc[v] /\ key'[v] = key[v] /\ obj'[v] = obj[v]
    BY <1>3, WorkerFrame
  <2>4. View(v) /\ Uncounted <= Uncounted'
    BY <1>a, <1>b DEF AttemptsInv
  <2> QED BY <2>2, <2>3, <2>4, ViewFrame
<1>4. CASE pc[w] = "Idle"
  <2>1. PICK c \in Names : Begin(w, c)
    BY <1>4 DEF Reconcile, EnsurePending, EnsureReady, CheckRunning, SetRunning,
           EnsureS3EnvVars, Connect, BackupDatabase, SetCompleted, HandleFailure,
           SetFailed, At
  <2>2. \A d \in Names : d # b
    BY <1>4 DEF KeyInv
  <2>3. ASSUME pc' = pc PROVE View(w)'
    BY <1>4, <2>3 DEF View, Before
  <2>4. ASSUME pc' # pc PROVE View(w)'
    <3>1. /\ pc'[w] = "EnsurePending" /\ key'[w] = c /\ obj'[w] = bk[c]
          /\ bk' = bk /\ tries' = tries /\ used' = used /\ Live(c) /\ \A v \in Workers : key[v] # c
      BY <2>1, <2>4 DEF Begin, controller, history, storage, IsTerminal, Live, AttemptsInv, TypeOK
    <3>2. ~Attempting(c) /\ Count(c)
      BY <3>1 DEF Attempting, AttemptsInv
    <3>3. Live(c)' /\ Uncounted' = Uncounted
      BY <3>1 DEF Live, Uncounted
    <3> QED BY <3>1, <3>2, <3>3 DEF View, Count, Live, Limit
  <2>5. View(w)'
    BY <2>3, <2>4
  <2> QED BY <1>1, <1>2, <1>3, <2>2, <2>5 DEF AttemptsInv
<1>5. CASE pc[w] # "Idle"
  <2>a. b \in Names /\ o \in BackupResource /\ b \notin fresh /\ {} \in SUBSET Names
        /\ {b} \in SUBSET Names
    BY <1>5 DEF KeyInv, FreshInv, TypeOK
  <2>b. Count(b) /\ View(w) /\ (Attempting(b) <=> pc[w] \in During)
    BY <1>5, <2>a DEF AttemptsInv, KeyInv, Attempting
  <2>c. Attempting(b)' <=> key'[w] = b /\ pc'[w] \in During
    <3>1. \A v \in Workers : v # w => key'[v] # b
      BY <2>a, WorkerFrame DEF KeyInv
    <3> QED BY <3>1 DEF Attempting
  <2>d. /\ [o EXCEPT !.phase = "Pending"] \in BackupResource
        /\ [o EXCEPT !.phase = "Running"] \in BackupResource
        /\ [o EXCEPT !.phase = "Completed"] \in BackupResource
        /\ [o EXCEPT !.phase = "Failed"] \in BackupResource
        /\ [o EXCEPT !.retryCount = @ + 1] \in BackupResource
    BY <2>a, UpdateTypes DEF Phases
  <2>e. /\ \A p \in Phases : /\ [o EXCEPT !.phase = p].phase = p
                             /\ [o EXCEPT !.phase = p].retryCount = o.retryCount
        /\ [o EXCEPT !.retryCount = @ + 1].phase = o.phase
        /\ [o EXCEPT !.retryCount = @ + 1].retryCount = o.retryCount + 1
        /\ o.retryCount \in Nat /\ o.retryCount + 1 # o.retryCount
    BY <2>a DEF BackupResource
  <2>f. tries[b] \in Nat /\ bk[b].retryCount \in Nat
    BY <1>a, <2>a
  <2>1. Count(b)' /\ View(w)'
    <3> USE DEF Count, View, Live, Before, During, Limit
    <3>1. CASE EnsurePending(w)
      <4>1. /\ pc[w] = "EnsurePending" /\ tries' = tries
            /\ Live(b) \/ bk[b].phase = "Absent"
        BY <2>b, <3>1 DEF EnsurePending, At, history, storage
      <4>2. CASE GoTo(w, "EnsureReady") /\ UNCHANGED <<resources, obj, used>>
        <5>1. /\ pc'[w] = "EnsureReady" /\ key'[w] = b /\ obj'[w] = o
              /\ bk' = bk /\ Uncounted' = Uncounted
          BY <4>2 DEF GoTo, resources, TypeOK, Uncounted
        <5> QED BY <1>a, <1>b, <2>a, <2>b, <2>c, <2>f, <4>1, <5>1
      <4>3. CASE /\ PatchApplied(w, [o EXCEPT !.phase = "Pending"], {})
                 /\ Refreshed(w) /\ GoTo(w, "EnsureReady")
        <5>1. /\ pc'[w] = "EnsureReady" /\ key'[w] = b /\ obj'[w] = bk'[b]
          BY <4>3, <2>a DEF GoTo, Refreshed, TypeOK
        <5>2. /\ bk[b].phase # "Absent" /\ Uncounted' = Uncounted
              /\ bk'[b] = MergePatch(bk[b], o, [o EXCEPT !.phase = "Pending"])
          BY <2>a, <2>d, <4>3, PatchCost
        <5>3. /\ bk'[b].phase \in {"Pending", bk[b].phase}
              /\ bk'[b].retryCount = bk[b].retryCount
          BY <2>e, <5>2 DEF MergePatch, Phases
        <5> QED BY <1>a, <1>b, <2>a, <2>b, <2>c, <2>f, <4>1, <5>1, <5>2, <5>3
      <4>4. CASE PatchFails(w, [o EXCEPT !.phase = "Pending"], {b}) /\ Return(w)
        <5>1. pc'[w] = "Idle"
          BY <4>4 DEF Return, TypeOK
        <5>2. /\ bk'[b] \in {bk[b], MergePatch(bk[b], o, [o EXCEPT !.phase = "Pending"])}
              /\ bk[b].phase = "Absent" => bk'[b] = bk[b]
          BY <2>a, <2>d, <4>4, PatchCost
        <5>3. bk'[b].retryCount = bk[b].retryCount
          BY <2>e, <5>2 DEF MergePatch, Phases
        <5> QED BY <1>a, <1>b, <2>a, <2>b, <2>c, <2>f, <4>1, <5>1, <5>2, <5>3
      <4> QED BY <3>1, <4>2, <4>3, <4>4 DEF EnsurePending
    <3>2. CASE EnsureReady(w) \/ CheckRunning(w)
      <4>1. /\ pc[w] \in {"EnsureReady", "HasRunning"}
            /\ tries' = tries /\ bk' = bk /\ Uncounted' = Uncounted
        BY <3>2 DEF EnsureReady, CheckRunning, At, history, storage, Uncounted
      <4>2. \/ pc'[w] \in {"HasRunning", "SetRunning"} /\ key'[w] = b /\ obj'[w] = o
            \/ pc'[w] = "Idle"
        BY <3>2 DEF EnsureReady, CheckRunning, GoTo, Return, TypeOK
      <4> QED BY <1>a, <1>b, <2>a, <2>b, <2>c, <2>f, <4>1, <4>2
    <3>3. CASE SetRunning(w)
      <4>1. /\ pc[w] = "SetRunning" /\ tries'[b] = tries[b] + 1
            /\ Live(b) \/ bk[b].phase = "Absent"
        BY <2>a, <2>b, <3>3 DEF SetRunning, At, TypeOK
      <4>2. CASE /\ PatchApplied(w, [o EXCEPT !.phase = "Running"], {}) /\ Refreshed(w)
                 /\ GoTo(w, IF b \in S3 THEN "EnsureS3EnvVars" ELSE "Connect")
        <5>1. /\ pc'[w] \in {"EnsureS3EnvVars", "Connect"}
              /\ key'[w] = b /\ obj'[w] = bk'[b]
          BY <4>2, <2>a DEF GoTo, Refreshed, TypeOK
        <5>2. /\ bk[b].phase # "Absent" /\ Uncounted' = Uncounted
              /\ bk'[b] = MergePatch(bk[b], o, [o EXCEPT !.phase = "Running"])
          BY <2>a, <2>d, <4>2, PatchCost
        <5>3. /\ bk'[b].phase \in {"Running", bk[b].phase}
              /\ bk'[b].retryCount = bk[b].retryCount
          BY <2>e, <5>2 DEF MergePatch, Phases
        <5> QED BY <1>a, <1>b, <2>a, <2>b, <2>c, <2>f, <4>1, <5>1, <5>2, <5>3
      <4>3. CASE /\ PatchFails(w, [o EXCEPT !.phase = "Running"], {})
                 /\ Kept(w, [o EXCEPT !.phase = "Running"]) /\ GoTo(w, "HandleFailure")
        <5>1. /\ pc'[w] = "HandleFailure" /\ key'[w] = b
              /\ obj'[w].phase = "Running" /\ obj'[w].retryCount = o.retryCount
          BY <4>3, <2>a, <2>e DEF GoTo, Kept, TypeOK, Phases
        <5>2. /\ bk'[b] \in {bk[b], MergePatch(bk[b], o, [o EXCEPT !.phase = "Running"])}
              /\ bk[b].phase = "Absent" => bk'[b] = bk[b]
          BY <2>a, <2>d, <4>3, PatchCost
        <5>3. bk'[b].retryCount = bk[b].retryCount
          BY <2>e, <5>2 DEF MergePatch, Phases
        <5> QED BY <1>a, <1>b, <2>a, <2>b, <2>c, <2>f, <4>1, <5>1, <5>2, <5>3
      <4> QED BY <3>3, <4>2, <4>3 DEF SetRunning
    <3>4. CASE EnsureS3EnvVars(w) \/ Connect(w) \/ BackupDatabase(w)
      <4>1. /\ pc[w] \in {"EnsureS3EnvVars", "Connect", "Sync"}
            /\ tries' = tries /\ bk' = bk /\ Uncounted' = Uncounted
            /\ key'[w] = b /\ obj'[w] = o
        BY <3>4 DEF EnsureS3EnvVars, Connect, BackupDatabase, At, GoTo, resources,
                    history, storage, Uncounted
      <4>2. pc'[w] \in {"Connect", "Sync", "HandleFailure"}
        BY <3>4 DEF EnsureS3EnvVars, Connect, BackupDatabase, At, GoTo, TypeOK
      <4> QED BY <1>a, <1>b, <2>a, <2>b, <2>c, <2>f, <4>1, <4>2
    <3>5. CASE SetCompleted(w)
      <4>1. pc[w] = "Sync" /\ tries' = tries
        BY <3>5 DEF SetCompleted, At, history, storage
      <4>2. CASE PatchApplied(w, [o EXCEPT !.phase = "Completed"], {}) /\ Return(w)
        <5>1. pc'[w] = "Idle"
          BY <4>2 DEF Return, TypeOK
        <5>2. bk'[b] = MergePatch(bk[b], o, [o EXCEPT !.phase = "Completed"])
          BY <2>a, <2>d, <4>2, PatchCost
        <5>3. bk'[b].phase = IF o.phase # "Completed" THEN "Completed" ELSE bk[b].phase
          BY <2>e, <5>2 DEF MergePatch, Phases
        <5> QED BY <1>a, <1>b, <2>a, <2>b, <2>c, <2>f, <4>1, <5>1, <5>3
      <4>3. CASE /\ PatchFails(w, [o EXCEPT !.phase = "Completed"], {})
                 /\ Kept(w, [o EXCEPT !.phase = "Completed"]) /\ GoTo(w, "HandleFailure")
        <5>1. /\ pc'[w] = "HandleFailure" /\ key'[w] = b
              /\ obj'[w].phase = "Completed" /\ obj'[w].retryCount = o.retryCount
          BY <4>3, <2>a, <2>e DEF GoTo, Kept, TypeOK, Phases
        <5>2. bk'[b] \in {bk[b], MergePatch(bk[b], o, [o EXCEPT !.phase = "Completed"])}
          BY <2>a, <2>d, <4>3, PatchCost
        <5>3. /\ bk'[b].retryCount = bk[b].retryCount
              /\ bk'[b].phase \in {"Completed", bk[b].phase}
          BY <2>e, <5>2 DEF MergePatch, Phases
        <5> QED BY <1>a, <1>b, <2>a, <2>b, <2>c, <2>f, <4>1, <5>1, <5>3
      <4> QED BY <3>5, <4>2, <4>3 DEF SetCompleted
    <3>6. CASE HandleFailure(w)
      <4> DEFINE new == [o EXCEPT !.retryCount = @ + 1]
      <4>1. pc[w] = "HandleFailure" /\ tries' = tries
        BY <3>6 DEF HandleFailure, At, history, storage
      <4>2. MergePatch(bk[b], o, new).phase = bk[b].phase
            /\ MergePatch(bk[b], o, new).retryCount = o.retryCount + 1
        BY <2>e DEF MergePatch
      <4>3. bk'[b].phase = bk[b].phase
        BY <2>a, <4>1, WorkerEffect
      <4>4. CASE /\ PatchApplied(w, new, {}) /\ Refreshed(w) /\ GoTo(w, "SetFailed")
        <5>1. pc'[w] = "SetFailed" /\ key'[w] = b /\ obj'[w] = bk'[b]
          BY <4>4, <2>a DEF GoTo, Refreshed, TypeOK
        <5>2. bk'[b] = MergePatch(bk[b], o, new)
          BY <2>a, <2>d, <4>4, PatchCost
        <5> QED BY <1>a, <1>b, <2>a, <2>b, <2>c, <2>f, <4>1, <4>2, <4>3, <5>1, <5>2
      <4>5. CASE /\ PatchFails(w, new, {}) /\ Kept(w, new) /\ GoTo(w, "SetFailed")
        <5>1. pc'[w] = "SetFailed" /\ key'[w] = b /\ obj'[w].phase = o.phase
          BY <4>5, <2>a, <2>e DEF GoTo, Kept, TypeOK
        <5>2. bk'[b] \in {bk[b], MergePatch(bk[b], o, new)}
          BY <2>a, <2>d, <4>5, PatchCost
        <5> QED BY <1>a, <1>b, <2>a, <2>b, <2>c, <2>f, <4>1, <4>2, <4>3, <5>1, <5>2
      <4>6. CASE PatchApplied(w, new, {b}) /\ Return(w) /\ ~LimitExceeded(new.retryCount)
        <5>1. pc'[w] = "Idle" /\ o.retryCount + 1 < BackoffLimit
          BY <4>6, <2>e, Constants DEF Return, TypeOK, LimitExceeded
        <5>2. bk'[b] = MergePatch(bk[b], o, new) /\ Uncounted' = Uncounted
          BY <2>a, <2>d, <4>6, PatchCost
        <5> QED
          BY <1>a, <1>b, <2>a, <2>b, <2>c, <2>f, <4>1, <4>2, <4>3, <5>1, <5>2, Constants
      <4>7. CASE PatchFails(w, new, {b}) /\ Return(w)
        <5>1. pc'[w] = "Idle"
          BY <4>7 DEF Return, TypeOK
        <5>2. /\ bk'[b] \in {bk[b], MergePatch(bk[b], o, new)}
              /\ bk[b].phase # "Absent" => Uncounted' = Uncounted + 1
          BY <2>a, <2>d, <4>7, PatchCost
        <5> QED BY <1>a, <1>b, <2>a, <2>b, <2>c, <2>f, <4>1, <4>2, <4>3, <5>1, <5>2
      <4> QED BY <3>6, <4>4, <4>5, <4>6, <4>7 DEF HandleFailure
    <3>7. CASE SetFailed(w)
      <4> DEFINE new == [o EXCEPT !.phase = "Failed"]
      <4>1. pc[w] = "SetFailed" /\ tries' = tries /\ pc'[w] = "Idle"
        BY <3>7 DEF SetFailed, At, history, storage, Return, TypeOK
      <4>2. /\ MergePatch(bk[b], o, new).retryCount = bk[b].retryCount
            /\ MergePatch(bk[b], o, new).phase = IF o.phase # "Failed" THEN "Failed"
                                                 ELSE bk[b].phase
        BY <2>e DEF MergePatch, Phases
      <4>3. \/ bk'[b] = MergePatch(bk[b], o, new)
            \/ bk'[b] = bk[b] /\ bk[b].phase = "Absent"
            \/ bk'[b] = bk[b] /\ Uncounted' = Uncounted + 1
        BY <2>a, <2>d, <3>7, PatchCost DEF SetFailed
      <4> QED BY <1>a, <1>b, <2>a, <2>b, <2>c, <2>f, <4>1, <4>2, <4>3
    <3> QED BY <1>5, <3>1, <3>2, <3>3, <3>4, <3>5, <3>6, <3>7 DEF Reconcile, Begin, At
  <2> QED BY <1>1, <1>2, <1>3, <2>1 DEF AttemptsInv
<1> QED BY <1>4, <1>5

(* A new Backup has not been attempted, a deleted one needs no attempt     *)
(* left, and a restart loses count of at most the attempt under way.       *)
LEMMA AttemptsEnvironment ==
  ASSUME net = "prompt", TypeInv, TypeInv', AttemptsInv, FreshInv, Environment
  PROVE  AttemptsInv'
<1> USE DEF TypeInv
<1>a. /\ Limit \in Nat \ {0} /\ Uncounted \in Nat
      /\ \A c \in Names : tries[c] \in Nat /\ bk[c].retryCount \in Nat
  BY CountTypes
<1>1. ASSUME NEW b \in Names, NEW o \in {NewBackup, Absent},
             Store([bk EXCEPT ![b] = o], {}), UNCHANGED controller, tries' = tries,
             Uncounted' = Uncounted, fresh' \subseteq fresh,
             o = NewBackup => tries[b] = 0 /\ \A w \in Workers : key[w] # b
      PROVE  AttemptsInv'
  <2>1. [bk EXCEPT ![b] = o] \in [Names -> BackupResource] /\ {} \in SUBSET Names
    BY ResourceTypes DEF TypeOK
  <2>2. bk' = [bk EXCEPT ![b] = o] /\ cache' = bk'
    BY <1>1, <2>1, StoreEffect
  <2>3. bk'[b] = o /\ \A c \in Names : c # b => bk'[c] = bk[c]
    BY <2>2 DEF TypeOK
  <2>4. /\ NewBackup.phase = "" /\ NewBackup.retryCount = 0 /\ Absent.phase = "Absent"
    BY DEF NewBackup, Absent
  <2>5. ASSUME NEW c \in Names, c # b PROVE Count(c)'
    BY <1>a, <1>1, <2>3, <2>5, CountFrame DEF AttemptsInv, Attempting, controller
  <2>6. Count(b)'
    <3>1. tries[b] <= Uncounted + Limit /\ (b \in fresh' => tries[b] = 0)
      BY <1>1 DEF AttemptsInv, Count
    <3>2. CASE o = Absent
      BY <1>1, <2>3, <2>4, <3>1, <3>2 DEF Count, Live, Limit
    <3>3. CASE o = NewBackup
      <4>1. tries'[b] = 0 /\ bk'[b].retryCount = 0
        BY <1>1, <2>3, <2>4, <3>3
      <4>2. ASSUME NEW u \in Nat, NEW l \in Nat \ {0}
            PROVE  0 <= u + l /\ 0 + 1 <= u + l /\ 0 <= u + 0 /\ 0 <= u + 0 + 1
        OBVIOUS
      <4>3. Uncounted' \in Nat /\ Limit' = Limit /\ Limit \in Nat \ {0}
        BY <1>a, <1>1 DEF Limit
      <4> QED BY <4>1, <4>2, <4>3 DEF Count
    <3> QED BY <1>1, <3>2, <3>3
  <2>7. ASSUME NEW w \in Workers PROVE View(w)'
    <3>1. pc[w] # "Idle" => \/ bk'[key[w]] = bk[key[w]]
                            \/ bk'[key[w]].phase = "Absent"
      BY <1>1, <2>3, <2>4 DEF KeyInv
    <3>2. /\ View(w) /\ Uncounted <= Uncounted' /\ pc'[w] = pc[w] /\ key'[w] = key[w]
          /\ obj'[w] = obj[w] /\ tries'[key[w]] = tries[key[w]]
      BY <1>a, <1>1 DEF AttemptsInv, controller
    <3> QED BY <3>1, <3>2, ViewFrame
  <2> QED BY <2>2, <2>5, <2>6, <2>7 DEF AttemptsInv
<1>2. ASSUME NEW b \in Names, CreateBackup(b) PROVE AttemptsInv'
  <2>1. tries[b] = 0 /\ \A w \in Workers : key[w] # b
    BY <1>2 DEF CreateBackup, AttemptsInv, Count, FreshInv
  <2> QED BY <1>1, <1>2, <2>1 DEF CreateBackup, Uncounted
<1>3. ASSUME NEW b \in Names, DeleteBackup(b) PROVE AttemptsInv'
  <2>1. Uncounted' = Uncounted
    BY <1>3 DEF DeleteBackup, Uncounted, TypeOK
  <2>2. Absent # NewBackup
    BY DEF Absent, NewBackup
  <2> QED BY <1>1, <1>3, <2>1, <2>2 DEF DeleteBackup, history, storage
<1>4. ASSUME Outage \/ Recover \/ RollOut PROVE AttemptsInv'
  <2>1. Uncounted' = Uncounted
    BY <1>4 DEF Outage, Recover, RollOut, Uncounted, TypeOK
  <2>2. UNCHANGED <<bk, cache, pc, key, obj, tries, fresh>>
    BY <1>4 DEF Outage, Recover, RollOut, resources, controller, history, storage
  <2> QED BY <2>1, <2>2 DEF AttemptsInv, Count, View, Live, Attempting, Limit
<1>5. ASSUME OperatorRestart PROVE AttemptsInv'
  <2>1. Uncounted' = Uncounted + 1
    BY <1>5 DEF OperatorRestart, Uncounted, TypeOK
  <2>2. UNCHANGED <<bk, tries, fresh>> /\ cache' = bk' /\ \A w \in Workers : pc'[w] = "Idle"
    BY <1>5 DEF OperatorRestart, history, storage
  <2> QED BY <1>a, <2>1, <2>2 DEF AttemptsInv, Count, View, Live, Before, Limit
<1> QED BY <1>2, <1>3, <1>4, <1>5 DEF Environment

(* Every step keeps the counts. *)
LEMMA AttemptsStep ==
  net = "prompt" /\ TypeInv /\ TypeInv' /\ FreshInv /\ AttemptsInv /\ [Next]_vars
    => AttemptsInv'
<1>1. ASSUME AttemptsInv, UNCHANGED vars PROVE AttemptsInv'
  BY <1>1 DEF AttemptsInv, Count, View, Live, Attempting, Limit, Uncounted,
              vars, resources, controller, history
<1>2. net = "prompt" => \A b \in Names : ~CacheSync(b)
  BY DEF CacheSync
<1> QED BY <1>1, <1>2, AttemptsReconcile, AttemptsEnvironment DEF Next

(***************************************************************************)
(* On a prompt network, with any number of workers, a Backup is retried no *)
(* more often than backoffLimit says, plus once for every restart and      *)
(* every failed patch: a failure is never retried for ever for want of     *)
(* counting it.  The invariant holds the sharper bound the code keeps,     *)
(* where backoffLimit (and at least one) attempts are made in all.         *)
(***************************************************************************)
THEOREM RetriesAreBounded == Spec => []RetriesBounded
<1> DEFINE PromptInv == net = "prompt" => AttemptsInv
           Inv == TypeInv /\ CopiedInv /\ PromptInv
<1>1. Init => Inv
  BY TypeInit, CopiedInit, AttemptsInit
<1>2. Inv /\ [Next]_vars => Inv'
  <2> SUFFICES ASSUME Inv, [Next]_vars PROVE TypeInv' /\ CopiedInv' /\ PromptInv'
    OBVIOUS
  <2>1. TypeInv' /\ CopiedInv' /\ net' = net
    BY TypeStep, CopiedStep, NetworkStep
  <2>2. ASSUME net = "prompt" PROVE AttemptsInv'
    BY <2>1, <2>2, AttemptsStep DEF CopiedInv
  <2> QED BY <2>1, <2>2
<1>3. Inv => RetriesBounded
  <2> SUFFICES ASSUME Inv, net = "prompt", NEW b \in Names
               PROVE  tries[b] <= 1 + BackoffLimit + used.restarts + used.patch
    BY DEF RetriesBounded
  <2>1. /\ Limit <= 1 + BackoffLimit /\ Limit \in Nat /\ BackoffLimit \in Nat
        /\ used.restarts \in Nat /\ used.patch \in Nat /\ tries[b] \in Nat
    BY CountTypes, Constants DEF Limit, TypeInv, TypeOK
  <2>2. tries[b] <= used.restarts + used.patch + Limit
    BY DEF AttemptsInv, Count, Uncounted
  <2> QED BY <2>1, <2>2
<1> QED BY <1>1, <1>2, <1>3, PTL DEF Spec

=============================================================================
