# doltdb-operator in TLA+

A verification project for the DoltDB operator: TLA+ modules of the control
logic that decides which pod of a DoltDB cluster is the primary, rolls changes
out to its pods, backs it up and keeps databases, users and grants in it; the TLC
runs that check them on small instances, and TLAPS proofs of what holds for
every cluster. Paths below are relative to the repository root.

## The system

| Component | State | Operations | Talks to |
|---|---|---|---|
| DoltDB controller (`internal/controller/doltdb_controller.go`) | a local copy of the resource, per reconciliation | ten phases in order: Status, ConfigMap, RBAC, Storage, PreScaleDown, StatefulSet, PodDisruptionBudget, Service, Replication, Labels; a failing phase patches Ready=False and ends the reconciliation | API server, SQL to every pod |
| Status phase (`pkg/controller/status`) | `status.*` | asks every pod for role and epoch; patches current primary, epoch, replication status, conditions | SQL, API server |
| Replication phase (`pkg/controller/replication/controller.go`, `config.go`) | none | configures the pods missing from the replication status; then the switchover | SQL |
| Switchover (`pkg/controller/replication/switchover.go`) | `doltClusterContext`: primary found, next epoch | mark as switching, labels off, demote, promote, label on, record | SQL, API server, pods |
| Pod controller (`internal/controller/pod_controller.go`, `pkg/controller/replication/pod_readiness.go`) | the event queue | turns the loss of the primary into `podIndex` + PrimarySwitched=False | SQL to standbys, API server |
| Dolt servers (external) | role, epoch, data, on the volume | DOLT_ASSUME_CLUSTER_ROLE, DOLT_CLUSTER_TRANSITION_TO_STANDBY, replication | each other |
| preStop hook and bootstrap (`pkg/builder/container_builder.go`, `pkg/dolt/generate.go`) | none | demote a deleted primary; pod 0 starts as primary at epoch 1 | own server |
| Primary Service and labels (`pkg/builder/service_builder.go`) | selector, role labels | route clients to pod = status primary and role = primary | clients |
| Rolling updates (`pkg/controller/statefulset`) | pod revisions, condition Updated | replicas first, primary last with its own demote and promote; one pod per reconciliation | SQL, pods |
| Scale down (`reconcilePreScaleDown`), PodDisruptionBudget | replicas, podIndex | podIndex to 0 before the StatefulSet is shrunk below the primary | API server |
| Storage resize (`pkg/controller/storage`) | claims, condition StorageResized | enlarge the claims, delete and re-create the StatefulSet, wait | API server |
| Backups (`internal/controller/backup_controller.go`, `pkg/controller/backup`) | phase, retryCount | one running Backup per cluster, every database in turn, retries with a limit | SQL, API server, the DoltDB's environment |
| Backup schedules (`pkg/controller/backupschedule`) | lastScheduleTime, nextScheduleTime | create a Backup per cron slot | API server |
| Databases, users, grants (`pkg/controller/database` and their controllers) | finalizer, Ready | create over SQL, then add the finalizer; clean up on deletion | SQL, API server |
| Snapshots, RBAC, ConfigMap, builders, manager | objects | idempotent creation | API server |

What is hard here. Nothing holds a lock: the DoltDB controller, the Pod
controller and users write the same resource with merge patches that carry no
resource version, so a patch replaces whatever changed since the copy was read
when it touches the same field, and the whole list of conditions whenever it
touches one of them. A switchover is four calls to different servers with no
record of how far it came; it can fail, lose an answer or be cut off by a
restart after each, and it is retried from what can be observed. Epochs order
primaries, and each new one is computed from the servers that happen to answer.
Resize, update and switchover exclude each other only by conditions that each of
them sets and must remember to clear. Backups exclude each other by a list that
is read before the phase is patched. The SQL controllers act on a server first and
note in the API server afterwards that they did.

What should hold: at most one primary; at most one primary per epoch; an
epoch that never goes back; a status that names a new primary only when it has
been promoted; no accepted write lost by a switchover; a failover request that
stays until it is carried out; and a cluster that settles on the pod asked for.
For changes of the spec: pods go down one at a time, the primary last and never
in a resize, a scale-down keeps the primary, and in the end what was asked for runs.
For Backups: one runs at a time, a completed one is complete, all of them end. For
schedules: one Backup per slot, and no slot forgotten. For SQL resources: the
server converges to the resources, nothing is left behind, deletions end. Not all of it
does: four runs show where it fails, and "What other constants show" lists the rest.
The hazards behind these are in `PROJECT.json`, each with its line.

## Modules

| Module | Models | Content |
|---|---|---|
| `DoltServer` | what `pkg/dolt/sql` expects of a Dolt server (external) | when the two stored procedures are accepted |
| `PrimarySelection` | `pkg/dolt/replication.go`, `selectFailoverCandidate`, `HealthyDoltDBReplica`, `IsReplicationConfigured` | the choices of a primary, as declarative definitions |
| `SelectionLoops` | the same functions as the loops they are | one step per pod and per database of a pod |
| `Switchover` | DoltDB controller, Pod controller, users, Kubernetes, servers | one action per call to the API server or to a server |
| `Rollout` | Storage, PreScaleDown and StatefulSet phases, `updater.go`; Status, Replication and switchover in outline | one action per call; EXTENDS `PrimarySelection` and `DoltServer` |
| `BackupLifecycle` | what the Backup controller promises | abstract specification of the phases: `Safety`, and `Spec` with its fairness |
| `Backup` | Backup controller and executor | one action per call; implements `BackupLifecycle` |
| `BackupSchedule` | BackupSchedule controller | composed with `BackupLifecycle` in place of the Backup controller |
| `SqlResource` | Database, User and Grant controllers | one action per call, three concurrent controllers |
| `PrimarySelectionProofs`, `SelectionLoopsProofs`, `SwitchoverProofs` and `OnePrimaryProofs`, `RolloutProofs`, `BackupProofs`, `BackupScheduleProofs`, `SqlResourceProofs` | | the theorems about the module of that name; those of `OnePrimaryProofs` are about `Switchover` too |

### How `Switchover` corresponds to the code

The resource is a record: `podIndex` (spec), `primary`, `epoch`, `repl` and
`conds` (status). There are four copies of it: `api` on the server, `cache` in
the informer (used only when `InformerLag`), `obj` in the DoltDB controller and
`pobj` in the Pod controller. `MergePatch(server, base, new)` is `client.MergeFrom`:
what differs between base and new is sent, conditions as a whole list.
After a patch the local copy is the server's answer. This is visible in
`reconcileSwitchover`: `toIndex` is a pointer into the resource that JSON decoding
refreshes in place, so that an edit of `podIndex` in the middle of a switchover
changes its target. `pc` is the step the controller is at; a reconciliation runs

    Idle -> Status -> Service -> Replication -> [Configure ->] Switchover
         -> ShiftAway -> ReadOnly -> Promote -> ShiftTo -> Finish -> Labels -> Idle

with `Failed` from any SQL, readiness or patch error (Ready=False is patched, then
Idle). `from` and `next` are the `doltClusterContext`. The Pod controller
(`ppc`) makes two patches, `PatchPodIndex` and `PatchSwitching`.

Several steps may look like one call in the code and are one action here:
labels of all pods in `ShiftTrafficAwayFromPrimary` and `ReconcilePodLabels`
(label patches of different pods do not interfere, and only the Service reads
them), and one round of `GetDBStates` together with the patch that follows it
(what the servers are when they are asked, with any subset reachable). The
client's role query and the transition in `setPrimaryReadOnly` are one action
too; nobody but the DoltDB controller and a pod's own preStop hook changes roles.

A pod is Ready, NotReady (it exists; its server may or may not answer) or
Absent. Roles, epochs and data live on the volume and survive. A SQL call to a
ready pod can fail without effect, or take effect and lose its answer, both
charged to `MaxSqlFaults`. A refused transition is an error; with
`GenericRefusal` it carries MySQL error 1105, which `IsReadOnlyError` takes for
"already standby". `PodDeleted` includes the best-effort preStop hook.

A patch to the API server can be refused, or be applied and lose its answer,
both charged to `MaxPatchFaults`. Either way the caller sees an error and its
local copy keeps what it was about to write (`PatchFails`): the Go code changes
the object before it sends it. The DoltDB controller then goes to `Failed`, whose
own patch starts from that copy and may fail too. A failed round of label
patches leaves some pods relabelled and others not. The Pod controller
sends its second patch even when the first one failed and queues the pod again.

Not represented: the requeue delays (any order of retries is allowed), events
and metrics, and what `Rollout` is for (the Updated and StorageResized conditions,
replicas = 1, changes of the replica count or the pod template), and pod names beyond index 9 (the code
orders pods by name, which is the order of indices only up to ten pods).
`MinCaughtUpStandbys` of the spec is never read by the switchover, which uses 1.

### How `Rollout` corresponds to the code

`spec` is what users edit (template, size, replicas, podIndex), `seen` the
controller's copy, refreshed by the answer of each patch; `status` has one copy
because only the operator writes it here. A revision is the template together
with the replicas: the ConfigMap lists the peers of every server and its hash is
in the template. `pc` is the step; a reconciliation runs

    Idle -> Storage [-> ResizePVCs -> DeleteSts -> RecreateSts -> PatchWaiting -> WaitResize]
         -> PreScaleDown -> StatefulSet -> Updates [-> CaughtUp -> Demote -> Promote]
         [-> DeletePod -> Poll] -> Replication -> Switchover [-> Switch] -> Idle

and any step that asks for a requeue or fails ends it. The graceful update of the
primary keeps its detail: `PodOfHost` is the position in the list of standby hosts that
`gracefulPrimaryUpdate` takes for the index of a pod, and every failure of the
demotion makes it delete the pod directly. The switchover, detailed in
`Switchover`, is two steps with the outcomes that matter here. `StatefulSet`
controller, garbage collector, volumes and kubelet are environment actions;
`ReadyReplicas` is 0 for a StatefulSet whose controller has not seen it. The
volumes of all pods are resized together. Automatic failover is off, so that only
the phases modelled here repair what they do. Label patches and the Ready condition
are left out.

### How `Backup` and `BackupSchedule` correspond to the code

A Backup is its phase and `retryCount`; conditions, times and messages change with the
phase. `bk` is the API server, `cache` the informer from which both the Backup
and the list of running ones are read, `queue` the work queue (every change
is an event, because the controller is set up without a predicate). A worker runs

    Idle -> EnsurePending -> EnsureReady -> HasRunning -> SetRunning
         [-> EnsureS3EnvVars] -> Connect -> Sync (once per database) -> Idle

with `HandleFailure` from any error of `executeBackup`, and `SetFailed` when the
limit is reached. `held` is the database that each storage holds: `Execute` syncs every
database of a Backup to the one URL of `BuildBackupURL`, each in place of what was
there. `due` is history: the databases that no attempt has sent to the storage of a
Backup since it was created. `tries` counts attempts and cuts off runs at
`MaxTries`, which is above what `RetriesBounded` allows in the run `backups`. SQL
may fail without bound. `net` is the network to the API server, fixed for a
behaviour: on a prompt one the cache is current and a failed patch had no effect, on a late one the
cache trails and a patch may take effect although it fails. A late network has bounds
of its own, because it multiplies the interleavings.

`BackupSchedule` has a discrete clock; a Backup is named after the second it is created
in, so `Names` are times. `wake` is when the controller is due; `prev` is what a
stale read would see; failed calls, stale reads and restarts are charged to
`MaxSlips`. `served` remembers creations. The Backups it creates move by
`Progress` and `Delete` of `BackupLifecycle`, which `Backup` is shown to implement.

### How `SqlResource` corresponds to the code

One resource of each kind; `sql` is what is in the server: the parts of the
database, the version of the password of the account, the privileges. Each
controller runs

    Idle -> [Lookup ->] Apply -> AddFinalizer -> Report -> Idle
    Idle -> [Cleanup ->] RemoveFinalizer -> Idle        (deletion)

with `ReportFailure` from errors. The errors the code swallows are kept:
the look-up of a user, the commit of `dolt_ignore` and every branch. A requeue
puts the resource back into `queue`, whatever the delay. A Grant names an account,
`User.spec.name`, while its finalizer looks for a User resource of that name:
`named` says whether the two are the same, and `userless` remembers a clean-up that
found no User and revoked nothing.

## Runs

The values of the constants are in the cfg files; every bound is a CONSTANT.

| Run | Checks | Shows |
|---|---|---|
| `switchover` | TypeOK, AtMostOnePrimary, EpochNeverRegresses, PrimaryChangesHands, EventuallySettled | a manual switchover survives one SQL fault and one restart at any point, with client writes going on, and settles on the pod asked for, its epoch recorded |
| `failover` | OnePrimaryPerEpoch, EpochNeverRegresses, PrimaryChangesHands | failover against manual switchover, with a pod lost, a SQL fault and refusals taken for success: no epoch has two primaries as long as every primary can be asked, the recorded epoch does not go back, and the status never names a pod that was not promoted |
| `stale_reads` | AtMostOnePrimary | with two pods whose servers answer, stale reads, a restart and a failed or unanswered patch a manual switchover has one primary |
| `selection` | TypeOK, ScanFindsPrimary, CandidateIsFreshest, PickIsFreshest | the loops compute the declarative definitions, over all answers of three pods with two databases, two epochs and two times |
| `backups` | TypeOK, CompletedIsSynced, RetriesBounded, ImplementsLifecycle | one worker (the default), an S3 and a local Backup, failing SQL, a failed patch, deletions, outages, restarts: a completed Backup has sent every database, on a late network too; on a prompt one retries are bounded and the phases follow `BackupLifecycle`, liveness included |
| `schedules` | ScheduleTypeOK, OneBackupPerSlot, SlotsAreServed | one Backup per slot plus at most one for each slip; every slot is served and its Backup ends |
| `sql_resources` | TypeOK, FinalizedIsDropped, LiveObjectsStay, Converges, DeletionsEnd | creation, deletion, a rotated Secret, an outage, the end of the DoltDB and one fault at any point |
| `rollout` | TypeOK, UpdateExcludesResize, OneDownAtATime, PrimaryLast, UpdatesFinish | two edits of the template and of one more field, with and without replication, one fault anywhere; changes of template and replicas are rolled out in the end |
| `retarget` (violation) | AtMostOnePrimary | an interrupted switchover with a new target leaves two primaries |
| `shared_storage` (violation) | AllDatabasesBackedUp | a Backup of two databases completes with one of them in its storage |
| `scale_down` (violation) | EventuallyRolledOut | a scale-down below the primary is never carried out |
| `primary_update` (violation) | PrimaryAfterUpdate | a rolling update without any fault leaves a cluster without primary |

Bounds. Three pods are the fewest with a primary, a target and a third pod that
can be drained or chosen instead; two are enough for stale reads. One edit is one
switchover; the second edit of `retarget` is the change of target. One SQL fault
and one restart fall at every step of it. Failed patches are kept out of
`switchover` and `failover`, some of whose claims they break (see below), and are in
`stale_reads`; `EpochMonotone` and `PrimaryHandedOver` cover them by proof.
`failover` has no restart, with which it passes as well but takes four minutes. `MaxData` versions let
a write be pending when the switchover begins. `MaxEpoch` is above what the
other bounds can drive a settling cluster to in `switchover`; in the others
it cuts off endless retries: a switchover that would pass it returns to Idle,
which adds behaviours that stop retrying and removes none that matter to the
invariants below the bound. Two Backups are the fewest that exclude each other,
two databases the fewest with a copy half done, a limit of two the lowest that
retries. Six seconds and a period of three are two slots, with a second on
either side of each. In `rollout` the primary is pod 0 or pod 1: what the spec then asks
for is refused or keeps the primary, and the pod that a scale-down cannot get rid of,
pod 2, is that of `scale_down`. Two edits let the second one arrive in the middle of the first,
and one fault falls at every step. `Scopes` keeps edits of unrelated fields apart.
In `sql_resources` the Database is apart from User and Grant, which depend on
each other; three edits are a creation, a deletion and the end of the DoltDB.

Fairness. `FairSpec` of `Switchover` assumes that each controller keeps taking
the steps it can (work queues retry failed items, informers resync), that caches
catch up, that the StatefulSet controller recreates pods and that Dolt keeps
replicating. `Backup` adds strong fairness for each Backup's turn: the work queue
is first in, first out, so that of two Backups that wait for one worker neither
is passed over for ever. Its clusters recover from an outage and are rolled
out in the end, but SQL need never work. `BackupSchedule` takes the fairness of the Backups from
`BackupLifecycle`; the clock may stop. `SqlResource` has weak fairness for each
controller and a cluster that recovers or is deleted. `Rollout` has weak
fairness for the controller, for each controller of Kubernetes, and for pods becoming
ready. Nothing is assumed of users, faults, restarts or clients.

Deadlock is not checked where the system may come to rest: the selection loops
end, Backups, schedules and SQL resources run out of work, and so does `rollout` when
its spec is invalid.

### What the violations say

- `retarget`: `switchover.go:168` demotes the pod the status names; a
  pod promoted by an attempt that did not reach its last patch is never demoted.
- `primary_update`: `updater.go:261` uses a position in the list of standby hosts
  as the index of a pod. With pod 0 as primary and the first standby caught
  up it promotes pod 0, which was just demoted at that epoch, and is refused. The
  retry deletes pod 0 without a promotion. No phase repairs it: the status lists all
  pods as standbys, and spec and status agree on the primary. Automatic failover, which
  is off in this run, would react to the deleted pod when the status still names it.
- `shared_storage`: `backup.go:53-62` builds one URL for a Backup and syncs every
  database to it. The API documentation says that all databases are backed up; the
  storage ends up with the last one.
- `scale_down`: `doltdb_controller.go:473` requeues after podIndex was set to 0, which
  ends the reconciliation before the Replication phase that would perform the
  switchover; every further one ends there too. The comment of the function and a
  test expect the primary to move and the scale-down to go on.

### What other constants show

Observations, reproduced with TLC and not kept as runs.

Primaries. `switchover.go:268` labels the primary found before the switchover, and
fails for ever when that pod is not ready; the Labels phase repairs the label. A
second failover can reuse an epoch when a primary cannot be asked, because
`switchover.go:66` does not look at `status.replicationEpoch` then. A Status patch
computed from an older copy (`status.go:61`) can wipe out a failover request. With
failover off the preStop hook of an evicted primary leaves a cluster without
primary. When the patch at `switchover.go:113` fails, the failure path
publishes PrimarySwitched=True from the copy in memory, and the next Replication
phase tries to make the promoted pod a standby and is refused each time. With stale
reads and a SQL fault the recorded epoch can go back, although the comment at
`condition_types.go:70` is about preventing this. `GenericRefusal` breaks
AtMostOnePrimary. A cluster created with `podIndex` 1 never settles, because pod 0
always bootstraps as primary. With three pods a switchover can lose accepted writes,
because one drained standby is enough and need not be the target. A user who takes an edit back
while the switching mark is set leaves the mark for good.

Rollouts. EventuallyRolledOut is false in two more ways. With
`Scopes = {{"size"}}` and no fault: when the deleted StatefulSet is slow to go it is
patched instead of re-created, the second resize fails because it has gone meanwhile, the
StatefulSet phase re-creates it, and since the sizes agree then nothing takes the mark
Resizing back, which shuts out updates and switchovers; the operator stopping
before PatchWaiting has the same effect. With `Scopes = {{"podIndex"}}` and two edits: a request
to switch that is taken back half-way leaves its mark. A spec that is
refused (`Refused`) includes a size that is lowered back to what it was while larger
claims exist. With `Scopes = {{"size", "replicas"}}` a scale-down deletes the primary: a
resize re-creates the StatefulSet with the new replicas before PreScaleDown looks.
A pod that a scale-down has yet to remove makes
the counts of `reconcileUpdates` come out right while another is missing (`Surplus`).
The graceful update changes roles but never `status.currentPrimaryPodIndex`. The
wait for a resize may end before the claims say that they are being resized.

Backups. With two workers or on a late network two Backups run at once and their copies
overlap, although the comment at `backup_controller.go:200` is about preventing this. With
two failed patches a Backup stays Running and keeps the others waiting. With
lost answers a Completed Backup may become Failed. A limit of N allows N attempts, which
the API documentation calls retries. Each status patch re-enqueues the
Backup, so that the back-off, linear in the code, is not observed. The first S3 Backup
races the rolling update that it causes itself. A slot whose Backup exists already
never records lastScheduleTime. `hasRunningBackup` compares the names of the DoltDB
references and not their namespaces.

SQL resources. The SQL object is created before the finalizer is added, and a deletion in
between leaves it behind for good; a Grant whose User resource has not the name of the account
is let go without REVOKE and the privileges stay (`userless`). `base_types.go:37` says
that the object is deleted after the resource.

## Proofs

`tlapm` checks the eight proof modules to the last leaf. Every inductive invariant
named below was first checked with TLC on the bounds of the run that goes with it.
The theorems hold for every value of the constants that satisfies the ASSUMEs of
the modules; hypotheses beyond those are named.

### Selection

`PrimarySelectionProofs`: `CurrentPrimaryAndEpochSound` (the only reported
primary, and an epoch no answer exceeds) and `FailoverCandidateSound` (the
candidate was asked, none is fresher, and one is found whenever a standby with data
answers). They rest on `LeastNatural` (least elements, from well-founded
induction on the naturals) and on bounded sets of epochs having a maximum.

`SelectionLoopsProofs`: the loops compute these definitions
(`ScanIsCurrentPrimaryAndEpoch`, `LoopSelectsFreshestCandidate`,
`LoopPicksFreshestStandby`), for any number of pods and databases. `LoopInv`
is the usual kind of loop invariant: `OldestInv` for the inner loop over the
databases, `ScanInv`, `BestInv` and `PickInv` for what each outer loop
knows of the pods it has passed. `FreshestStep` is the one argument behind both
selections: a later pod replaces the choice if it is strictly fresher, so
that ties go to the lower index. At the end `FreshestIs` identifies the choice
with the declarative one, because only one pod can be it.

### Switchover

`SwitchoverProofs`:

- `TypeCorrect`: `Spec => []TypeOK`. TypeOK alone is not inductive:
  `setPrimaryReadOnly` indexes the servers by `obj.primary`, which is NoPod in a
  fresh resource, and the Pod controller queues `ppod` again. `PrimaryKnown` adds
  that `obj.primary` is a pod from the Service phase on (the Status phase
  defaults it), that a primary known to a copy is known to the API server
  unless a patch has just failed, and that the Pod controller has a pod and a
  candidate while it patches; `TypeInv` is the conjunction. `PatchEffect`
  says what a patch, failed or not, does to both copies. The one
  step with arithmetic on sets, the highest epoch, rests on `LargestOfPods`.
- `EpochMonotone`: without stale reads, `Spec => EpochNeverRegresses`.
  The argument is `CopyIsCurrent`: `epoch` and `primary` of `obj` equal those of
  `api` whenever a reconciliation is under way and has not failed, since only the
  DoltDB controller writes these two fields and it ends after a failed patch. Then a merge patch of
  a larger value cannot overwrite a yet larger one. With stale reads the claim
  is false in general, and the assumption is where the proof breaks.
- `PrimaryHandedOver`: without stale reads, `Spec => PrimaryChangesHands`. The
  invariant is `TargetPromoted`: between promotion and the final patch the pod
  that `obj.podIndex` names is primary at `next`, or has moved on to a later
  epoch through its own preStop hook. It needs CopyIsCurrent, so that
  only the last patch of a switchover changes the primary in `api`.

`OnePrimaryProofs` is about how many servers are primary. Three lemmas carry it:
`WhoBecomesPrimary` (a step makes at most one server primary, the pod of the status in
`Configure` or the pod of the spec in `Promote`, and only from a lower epoch),
`ControllerSteps` (the control of the DoltDB controller when no patch fails) and
`NextMarkKept` (the mark of a switchover that has begun stays in the API server, the
pods are configured only without it).

- `EpochsHaveOnePrimary`: `Spec => []OnePrimaryPerEpoch` when every primary can be
  asked, the controller reads its own writes and no patch fails; for any number
  of edits, failovers, lost pods, restarts and SQL faults, and with refused transitions
  taken for success. `EpochsSeen` says that no primary is ahead of what the Status phase
  recorded, and that each is behind `next` until the promotion: this makes
  `configureNewPrimary` safe. `reconcileReplication` is safe by `RecordedLeads`: no primary
  is ahead of the pod that the status names, unless a switchover has left its mark
  in the API server or in the copy; so if that pod trails the recorded epoch, no
  other primary is at it. TLC finds a violation when any one of the three
  hypotheses is dropped. The failed patch is instructive: when the last patch of
  a switchover fails, the patch of the Ready condition withdraws the mark without
  naming the new primary, and the old one is configured at the same epoch.
- `SwitchoverHasOnePrimary`: `Spec => []AtMostOnePrimary` for `OneManualSwitchover`: one edit
  at most, pods that stay ready, pod 0 as first primary, no stale reads, no failed
  patches, and a refusal that is not taken for success; for any number of pods,
  restarts and SQL faults. The run `switchover` is an instance. `OneTarget` says
  that status and spec name only pod 0 and the target and that the copy is
  current during the switchover, `OnePrimary` which of the two may be primary at
  each step. The run `retarget` shows what a second edit does; TLC also finds two primaries
  when a pod is lost, a patch fails, reads are stale or refusals are taken
  for success.

### Rollout

`RolloutProofs`:

- `TypeCorrect`. `TypeInv` adds to TypeOK what the local variables of the update hold
  at each step (a pod to take down, the candidate for the promotion).
- `ResizeExcludesUpdate`: `Spec => []UpdateExcludesResize`. `ResizeInv` says that
  the steps of a resize run with its mark set and those of an update
  without, and that the two marks are never set together.
- `PodsGoDownOneAtATime` and `PrimaryGoesDownLast`: the code compares numbers of
  pods, not pods. `CountedPods` is the step from the one to the other: when
  no surplus pod exists and as many pods have a property as the cluster has
  pods, then all of them have it. `UpdateInv` carries what was counted
  in `Updates` to the step that deletes the pod, through the graceful update of
  the primary with its fallbacks.

### Backups

`BackupProofs`, for every number of Backups, databases and workers:

- `TypeCorrect`.
- `CompletedBackupsAreSynced`: `Spec => []CompletedIsSynced`, with stale caches and lost answers
  too. `CopyInv` relates a worker's place in the loop over the databases
  to what is still due; `FreshInv` says that a name that was never used is in no cache
  and no worker's hands, so that nothing becomes due behind a worker's back.
- `RetriesAreBounded`: `Spec => []RetriesBounded`, for any number of workers, on a prompt
  network. `AttemptsInv` balances attempts made against `retryCount`, the attempt under
  way and the slips, and bounds them by backoffLimit itself. On a late network with two
  workers TLC finds a violation.
- `ControllerImplementsLifecycle`: `Spec => Lifecycle!Safety`, with one worker, for the
  behaviours on a prompt network: each step of the controller is a step of
  `BackupLifecycle` or leaves the phases as they are. `ExclusionInv` is what
  `hasRunningBackup` saw, kept until the phase is patched; `StageInv` ties the phase
  in the API server to the worker's step. The life cycle's fairness is only
  model-checked (`ImplementsLifecycle` in the run `backups`).

`BackupScheduleProofs`:

- `ScheduleTypeCorrect`, with `BeganLater`: nothing is created at time 0, which is no slot.
- `SlotsGetOneBackup`: `ScheduleSpec => []OneBackupPerSlot` for every period. The bound
  itself is not inductive; `UnrecordedBound` (one less while the slot is neither recorded nor
  being recorded), `DueBound` (one less when another creation is due)
  and `InOrder` (the recorded time is not after the one about to be recorded) make it so. A
  fresh read of an unrecorded slot gives DueBound from UnrecordedBound, a
  stale one pays with a slip. `LaterSlot` is the arithmetic: when the next slot after
  lastScheduleTime has come, lastScheduleTime is before the present slot.
- `SchedulesKeepLifecycle`: `ScheduleSpec => Safety`: composed with a schedule, Backups still go
  through the life cycle that `Backup` implements.

### Databases, users and grants

`SqlResourceProofs`, on the invariant `SqlInv`:

- `TypeCorrect`.
- `FinalizersDoTheirWork`: `Spec => FinalizedIsDropped`. `CleanedUp` says that with the
  finalizer on its way out the object is gone, or one of the named exceptions holds; nothing
  creates it again before the resource is let go, because its own controller is the
  one that is finalizing it.
- `ObjectsOfLiveResourcesStay`: `Spec => LiveObjectsStay`, from `FinalizedIsDeleting`: a
  resource that is being finalized stays in deletion until its own controller lets it go.

### Only model-checked

Liveness with the fairness part of the refinement (EventuallySettled, UpdatesFinish,
SlotsAreServed, Converges, DeletionsEnd, ImplementsLifecycle), which the prover does
not handle. AtMostOnePrimary with stale reads (`stale_reads`): it holds on that
instance of two pods whose servers answer, not for all constants.

## Plan

The components that have a protocol of their own are modelled, and every safety
property the passing runs check is stated by a theorem, under the hypotheses named above. Left:
the stale reads of `stale_reads`, where a theorem would need a bound on how far
the cache may trail.

## Not modelled

- Snapshots: the controller creates a ConfigMap and a CronJob and patches them when they
  differ; the snapshot is taken by a script in that CronJob.
- RBAC, ConfigMap, Services other than the primary's, PodDisruptionBudget and the
  builders: idempotent creation of objects from the resource, with no protocol.
- Update strategies RollingUpdate, OnDelete and Never, which the operator leaves to
  Kubernetes or to users.
- The manager's wiring, watches, metrics and generated code.
