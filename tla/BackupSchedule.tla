--------------------------- MODULE BackupSchedule ---------------------------
(***************************************************************************)
(* A BackupSchedule and the Backups it creates.  The BackupSchedule        *)
(* controller compares the clock with the cron expression and creates      *)
(* Backups; what the Backup controller does with them at the same time is  *)
(* BackupLifecycle, which Backup.tla implements.  A Backup is named after  *)
(* the second it is created in.                                            *)
(***************************************************************************)
EXTENDS BackupLifecycle, Naturals, FiniteSets

CONSTANTS
  Period,      \* a slot of the cron expression every so many seconds
  MaxTime,     \* bound on the clock
  MaxEdits,    \* bound on user edits of spec.suspend and on outages
  MaxSlips     \* bound on failed calls, stale reads and restarts that hit the
               \* BackupSchedule controller

ASSUME ScheduleAssumption ==
  /\ Period \in Nat \ {0}
  /\ {MaxTime, MaxEdits, MaxSlips} \subseteq Nat
  /\ Names = 1 .. MaxTime

VARIABLES
  now,     \* the clock
  sched,   \* the BackupSchedule in the API server
  prev,    \* what it was before its last change: a stale read sees this
  wake,    \* when the controller is due to look at it again
  spc,     \* the next step of the controller
  sobj,    \* its local copy
  began,   \* the time it read when it began
  healthy, \* the StatefulSet of the cluster is healthy
  served,  \* the times at which a Backup was created
  edits,   \* edits and outages so far
  slips    \* slips so far

schedule == <<sched, prev>>
scheduler == <<wake, spc, sobj, began>>
world == <<now, healthy, edits>>
vars == <<phase, served, schedule, scheduler, world, slips>>

-----------------------------------------------------------------------------
Times == 0 .. MaxTime

Never == MaxTime + Period + 1

(* Status times are 0 for nil; the schedule was created at time 0. *)
ScheduleResource == [suspend : BOOLEAN, lastScheduleTime : Times,
                     nextScheduleTime : 0 .. MaxTime + Period]

(* Mutant: a slot is passed over. *)
SlotAfterNext(t) == ((t \div Period) + 2) * Period

(* cron.Schedule.Next: the first slot after t. *)
NextSlot(t) == ((t \div Period) + 1) * Period

(* The slot that a Backup created at time t serves. *)
SlotOf(t) == (t \div Period) * Period

(***************************************************************************)
(* ComputeRequeueAfter, as the time of the next look: the next slot, or    *)
(* shortly when that is past.                                              *)
(***************************************************************************)
ComputeRequeue(last, t) ==
  IF NextSlot(last) <= t THEN t ELSE NextSlot(last)

Earlier(s, t) == IF s <= t THEN s ELSE t

(* A patch of the status; a change is an event, so the controller looks    *)
(* again at once.                                                          *)
PatchSchedule(new, again) ==
  LET merged == [sched EXCEPT
        !.lastScheduleTime = IF new.lastScheduleTime # sobj.lastScheduleTime
                             THEN new.lastScheduleTime ELSE @,
        !.nextScheduleTime = IF new.nextScheduleTime # sobj.nextScheduleTime
                             THEN new.nextScheduleTime ELSE @] IN
  /\ sched' = merged
  /\ prev' = IF merged # sched THEN sched ELSE prev
  /\ wake' = IF merged # sched THEN now ELSE Earlier(wake, again)

MaySlip == slips < MaxSlips

Slip == MaySlip /\ slips' = slips + 1

(* A call fails: the reconciliation ends and is tried again. *)
GiveUp ==
  /\ spc' = "Idle"
  /\ wake' = now

-----------------------------------------------------------------------------
(* BackupScheduleReconciler.Reconcile and its schedule reconciler *)

(* Mutant: an unhealthy cluster ends the reconciliation for good. *)
ScheduleBeginOnce ==
  /\ spc = "Idle" /\ wake <= now
  /\ wake' = Never
  /\ IF sched.suspend \/ ~healthy
       THEN UNCHANGED <<spc, sobj, began>>
       ELSE spc' = "PatchNext" /\ sobj' = sched /\ began' = now
  /\ UNCHANGED <<phase, served, schedule, world, slips>>

(***************************************************************************)
(* A suspended schedule is left alone; an unhealthy cluster means another  *)
(* look later; the clock is read once.  After a stale read the event of    *)
(* the change it missed is still to come.                                  *)
(***************************************************************************)
ScheduleBegin ==
  /\ spc = "Idle" /\ wake <= now
  /\ \E read \in {sched, prev} :
       /\ IF read = sched THEN UNCHANGED slips ELSE Slip
       /\ wake' = IF read # sched \/ (~read.suspend /\ ~healthy) THEN now ELSE Never
       /\ IF read.suspend \/ ~healthy
            THEN UNCHANGED <<spc, sobj, began>>
            ELSE /\ spc' = "PatchNext"
                 /\ sobj' = read
                 /\ began' = now
  /\ UNCHANGED <<phase, served, schedule, world>>

(* The next slot is recorded, and it is not yet time, or it is. *)
PatchNextSchedule ==
  /\ spc = "PatchNext"
  /\ LET slot == NextSlot(sobj.lastScheduleTime)
         new == [sobj EXCEPT !.nextScheduleTime = slot] IN
     \/ /\ PatchSchedule(new, IF began < slot THEN slot ELSE Never)
        /\ spc' = IF began < slot THEN "Idle" ELSE "Create"
        /\ sobj' = sched'
        /\ UNCHANGED slips
     \/ GiveUp /\ Slip /\ UNCHANGED <<schedule, sobj>>
  /\ UNCHANGED <<phase, served, began, world>>

Created(b) ==
  /\ Create(b)
  /\ served' = served \cup {b}

(***************************************************************************)
(* BuildBackup names the Backup after the time read.  When there is such a *)
(* Backup already, lastScheduleTime is left as it is.                      *)
(***************************************************************************)
CreateScheduledBackup ==
  /\ spc = "Create"
  /\ \/ /\ Created(began)
        /\ spc' = "PatchLast"
        /\ UNCHANGED <<wake, slips>>
     \/ /\ phase[began] # "Absent"
        /\ spc' = "Idle"
        /\ wake' = Earlier(wake, ComputeRequeue(sobj.lastScheduleTime, began))
        /\ UNCHANGED <<phase, served, slips>>
     \/ /\ Created(began) \/ UNCHANGED <<phase, served>>
        /\ GiveUp /\ Slip
  /\ UNCHANGED <<schedule, sobj, began, world>>

(* Mutant: the time of the last slot is recorded, but of the one before. *)
PatchPreviousSchedule ==
  /\ spc = "PatchLast"
  /\ LET new == [sobj EXCEPT !.lastScheduleTime = SlotOf(began) - 1] IN
       PatchSchedule(new, ComputeRequeue(began, began))
  /\ spc' = "Idle"
  /\ UNCHANGED <<phase, served, sobj, began, world, slips>>

PatchLastSchedule ==
  /\ spc = "PatchLast"
  /\ LET new == [sobj EXCEPT !.lastScheduleTime = began] IN
     \/ /\ PatchSchedule(new, ComputeRequeue(began, began))
        /\ spc' = "Idle"
        /\ UNCHANGED slips
     \/ GiveUp /\ Slip /\ UNCHANGED schedule
  /\ UNCHANGED <<phase, served, sobj, began, world>>

-----------------------------------------------------------------------------
(* The clock, users and the operator process. *)

Tick ==
  /\ now < MaxTime
  /\ now' = now + 1
  /\ UNCHANGED <<phase, served, schedule, scheduler, healthy, edits, slips>>

ToggleSuspend ==
  /\ edits < MaxEdits
  /\ edits' = edits + 1
  /\ sched' = [sched EXCEPT !.suspend = ~@]
  /\ prev' = sched
  /\ wake' = now
  /\ UNCHANGED <<phase, served, now, healthy, spc, sobj, began, slips>>

Outage ==
  /\ healthy /\ edits < MaxEdits
  /\ edits' = edits + 1
  /\ healthy' = FALSE
  /\ UNCHANGED <<phase, served, schedule, scheduler, now, slips>>

Recover ==
  /\ ~healthy
  /\ healthy' = TRUE
  /\ UNCHANGED <<phase, served, schedule, scheduler, now, edits, slips>>

OperatorRestart ==
  /\ spc # "Idle" /\ Slip
  /\ spc' = "Idle"
  /\ wake' = now
  /\ prev' = sched
  /\ UNCHANGED <<phase, served, sched, sobj, began, world>>

(* The Backup controller and users who delete Backups. *)
BackupSteps ==
  /\ \E b \in Names : Progress(b) \/ Delete(b)
  /\ UNCHANGED <<served, schedule, scheduler, world, slips>>

-----------------------------------------------------------------------------
ScheduleInit ==
  /\ Init
  /\ now = 0
  /\ sched = [suspend |-> FALSE, lastScheduleTime |-> 0, nextScheduleTime |-> 0]
  /\ prev = sched
  /\ wake = 0
  /\ spc = "Idle"
  /\ sobj = sched
  /\ began = 0
  /\ healthy = TRUE
  /\ served = {}
  /\ edits = 0
  /\ slips = 0

ScheduleReconcile ==
  \/ ScheduleBegin \/ PatchNextSchedule
  \/ CreateScheduledBackup \/ PatchLastSchedule

ScheduleNext ==
  \/ ScheduleReconcile \/ BackupSteps
  \/ Tick \/ ToggleSuspend \/ Outage \/ Recover \/ OperatorRestart

ScheduleSpec == ScheduleInit /\ [][ScheduleNext]_vars

(***************************************************************************)
(* The controller is run when it is due, clusters recover, and the Backup  *)
(* controller keeps the fairness its life cycle promises.                  *)
(***************************************************************************)
FairScheduleSpec ==
  /\ ScheduleSpec
  /\ WF_vars(ScheduleReconcile)
  /\ WF_vars(Recover)
  /\ \A b \in Names : WF_vars(Progress(b) /\ BackupSteps)

-----------------------------------------------------------------------------
ScheduleTypeOK ==
  /\ phase \in [Names -> Phases \cup {"Absent"}]
  /\ served \subseteq Names
  /\ now \in Times
  /\ {sched, prev, sobj} \subseteq ScheduleResource
  /\ wake \in 0 .. Never
  /\ spc \in {"Idle", "PatchNext", "Create", "PatchLast"}
  /\ began \in Times
  /\ healthy \in BOOLEAN
  /\ edits \in 0 .. MaxEdits
  /\ slips \in 0 .. MaxSlips

(***************************************************************************)
(* A slot of the schedule gets one Backup: another is created only for     *)
(* each restart, failed call or stale read between the creation and the    *)
(* record of lastScheduleTime.                                             *)
(***************************************************************************)
OneBackupPerSlot ==
  \A s \in Times :
    Cardinality({t \in served : SlotOf(t) = s}) <= 1 + slips

(***************************************************************************)
(* A slot that has come is served, at its time or later by the Backup of a *)
(* later slot, and that Backup ends or is deleted, unless the schedule is  *)
(* suspended.                                                              *)
(***************************************************************************)
SlotsAreServed ==
  \A s \in Names : s % Period = 0 =>
    (now >= s ~> sched.suspend \/ \E t \in served :
                   t >= s /\ phase[t] \in {"Completed", "Failed", "Absent"})
===========================================================================
