----------------------- MODULE BackupScheduleProofs -----------------------
(***************************************************************************)
(* The BackupSchedule controller: its variables stay in their types, a     *)
(* slot gets one Backup and one more for each slip, and it treats Backups  *)
(* only as their life cycle allows, for every period and any number of     *)
(* edits and slips.                                                        *)
(***************************************************************************)
EXTENDS BackupSchedule, FiniteSetTheorems, TLAPS

(***************************************************************************)
(* The inductive invariants                                                *)
(***************************************************************************)

(* The Backups created for a slot. *)
CreatedFor(s) == {t \in served : SlotOf(t) = s}

(* The controller has decided that it is time to create a Backup. *)
Due == spc = "Create" \/ (spc = "PatchNext" /\ NextSlot(sobj.lastScheduleTime) <= began)

(* A Backup is named after a positive time: time 0 is no slot. *)
BeganLater == spc \in {"Create", "PatchLast"} => began \in Names

(***************************************************************************)
(* The clock does not go back, so what is about to be recorded is not      *)
(* before what has been; and from the patch of nextScheduleTime on the     *)
(* local copy has the lastScheduleTime of the API server.                  *)
(***************************************************************************)
InOrder ==
  /\ began <= now /\ sched.lastScheduleTime <= now
  /\ spc # "Idle" => sched.lastScheduleTime <= began
  /\ spc \in {"Create", "PatchLast"} =>
       sobj.lastScheduleTime = sched.lastScheduleTime

(* Every slot has one Backup more than there were slips at most ... *)
SlotBound == \A s \in Times : Cardinality(CreatedFor(s)) <= 1 + slips

(* ... none more while the slot is neither recorded nor being recorded ... *)
UnrecordedBound ==
  \A s \in Times :
    sched.lastScheduleTime < s /\ ~(spc = "PatchLast" /\ SlotOf(began) = s) =>
      Cardinality(CreatedFor(s)) <= slips

(* ... and none more when another is due. *)
DueBound == Due => Cardinality(CreatedFor(SlotOf(began))) <= slips

ScheduleInv ==
  /\ ScheduleTypeOK
  /\ BeganLater
  /\ InOrder
  /\ SlotBound
  /\ UnrecordedBound
  /\ DueBound

-----------------------------------------------------------------------------
(***************************************************************************)
(* The slots                                                               *)
(***************************************************************************)

(* Division with remainder by the period. *)
LEMMA Division ==
  ASSUME NEW t \in Nat
  PROVE  /\ t \div Period \in Nat
         /\ (t \div Period) * Period \in Nat
         /\ (t \div Period) * Period <= t
         /\ t < (t \div Period) * Period + Period
BY ScheduleAssumption

(* Multiples of the period are ordered like their factors. *)
LEMMA MultiplesInOrder ==
  ASSUME NEW x \in Nat, NEW y \in Nat, x * Period < y * Period + Period
  PROVE  x * Period <= y * Period
<1>1. Period \in Nat /\ Period > 0
  BY ScheduleAssumption
<1>2. CASE x <= y
  BY <1>1, <1>2
<1>3. CASE x >= y + 1
  <2>1. x * Period >= (y + 1) * Period
    BY <1>1, <1>3
  <2>2. (y + 1) * Period = y * Period + Period
    BY <1>1
  <2> QED BY <1>1, <2>1, <2>2
<1> QED BY <1>2, <1>3

(* The slot of a time, and the next one. *)
LEMMA Slots ==
  ASSUME NEW t \in Nat
  PROVE  /\ SlotOf(t) \in Nat /\ NextSlot(t) \in Nat
         /\ SlotOf(t) <= t /\ t < NextSlot(t)
         /\ NextSlot(t) = SlotOf(t) + Period
<1>1. Period \in Nat /\ Period > 0
  BY ScheduleAssumption
<1>2. ((t \div Period) + 1) * Period = (t \div Period) * Period + Period
  BY <1>1, Division
<1> QED BY <1>1, <1>2, Division DEF SlotOf, NextSlot

(* When the next slot after one time has come, that time is before the     *)
(* present slot.                                                           *)
LEMMA LaterSlot ==
  ASSUME NEW a \in Nat, NEW b \in Nat, NextSlot(a) <= b
  PROVE  a < SlotOf(b)
<1>1. Period \in Nat /\ Period > 0
  BY ScheduleAssumption
<1>2. /\ a \div Period \in Nat /\ b \div Period \in Nat
      /\ b < (b \div Period) * Period + Period
  BY Division
<1>3. ((a \div Period) + 1) * Period < (b \div Period) * Period + Period
  <2>1. ((a \div Period) + 1) * Period \in Nat /\ (b \div Period) * Period \in Nat
    BY <1>1, <1>2, Slots, Division DEF NextSlot
  <2> QED BY <1>1, <1>2, <2>1 DEF NextSlot
<1>4. NextSlot(a) <= SlotOf(b)
  BY <1>2, <1>3, MultiplesInOrder DEF NextSlot, SlotOf
<1> QED BY <1>4, Slots

(* The next look is within the range of times. *)
LEMMA Looks ==
  ASSUME NEW last \in Times, NEW t \in Times
  PROVE  /\ NextSlot(last) \in 0 .. MaxTime + Period
         /\ ComputeRequeue(last, t) \in 0 .. Never
         /\ Times \subseteq 0 .. Never /\ Never \in 0 .. Never
<1>1. Period \in Nat /\ MaxTime \in Nat /\ last \in Nat /\ t \in Nat
  BY ScheduleAssumption DEF Times
<1>2. NextSlot(last) \in Nat /\ NextSlot(last) <= last + Period
  BY <1>1, Slots
<1> QED BY <1>1, <1>2 DEF ComputeRequeue, Never, Times

-----------------------------------------------------------------------------
(***************************************************************************)
(* Types                                                                   *)
(***************************************************************************)

(* The conjuncts of the type invariant that the proofs take apart. *)
LEMMA TypeParts ==
  ASSUME ScheduleTypeOK
  PROVE  /\ sched \in ScheduleResource /\ prev \in ScheduleResource
         /\ sobj \in ScheduleResource
         /\ sched.lastScheduleTime \in Times /\ sobj.lastScheduleTime \in Times
         /\ now \in Times /\ began \in Times /\ wake \in 0 .. Never
         /\ now \in 0 .. Never /\ Never \in 0 .. Never
         /\ slips \in 0 .. MaxSlips /\ slips \in Nat
<1>1. now \in Times /\ Times \subseteq 0 .. Never /\ Never \in 0 .. Never
  BY Looks DEF ScheduleTypeOK
<1>2. slips \in 0 .. MaxSlips /\ slips \in Nat
  BY ScheduleAssumption DEF ScheduleTypeOK
<1>3. {sched, prev, sobj} \subseteq ScheduleResource
  BY DEF ScheduleTypeOK
<1>4. sched.lastScheduleTime \in Times /\ sobj.lastScheduleTime \in Times
  BY <1>3 DEF ScheduleResource
<1> QED BY <1>1, <1>2, <1>3, <1>4 DEF ScheduleTypeOK

(* A patch writes the fields that the controller changed. *)
LEMMA PatchFacts ==
  ASSUME ScheduleTypeOK, NEW new \in ScheduleResource, NEW again \in 0 .. Never,
         PatchSchedule(new, again)
  PROVE  /\ sched' \in ScheduleResource /\ prev' \in ScheduleResource
         /\ wake' \in 0 .. Never
         /\ sched'.lastScheduleTime =
              IF new.lastScheduleTime # sobj.lastScheduleTime
              THEN new.lastScheduleTime ELSE sched.lastScheduleTime
<1> DEFINE last == IF new.lastScheduleTime # sobj.lastScheduleTime
                   THEN new.lastScheduleTime ELSE sched.lastScheduleTime
           next == IF new.nextScheduleTime # sobj.nextScheduleTime
                   THEN new.nextScheduleTime ELSE sched.nextScheduleTime
           merged == [sched EXCEPT !.lastScheduleTime = last, !.nextScheduleTime = next]
<1>1. sched \in ScheduleResource /\ prev \in ScheduleResource
  BY TypeParts
<1>2. last \in Times /\ next \in 0 .. MaxTime + Period
  BY <1>1 DEF ScheduleResource
<1> HIDE DEF last, next
<1>3. merged \in ScheduleResource /\ merged.lastScheduleTime = last
  BY <1>1, <1>2 DEF ScheduleResource
<1>4. sched' = merged
  BY DEF PatchSchedule, last, next
<1>5. prev' \in {sched, prev}
  BY DEF PatchSchedule
<1>6. wake' \in {now, wake, again}
  BY DEF PatchSchedule, Earlier
<1> QED BY <1>1, <1>3, <1>4, <1>5, <1>6, TypeParts DEF last

(* A slip stays within its bound. *)
LEMMA SlipBound ==
  ASSUME ScheduleTypeOK, Slip \/ UNCHANGED slips
  PROVE  slips' \in 0 .. MaxSlips
BY ScheduleAssumption DEF Slip, MaySlip, ScheduleTypeOK

(* The steps of the life cycle keep the phases of Backups in their type. *)
LEMMA PhaseTypes ==
  ASSUME phase \in [Names -> Phases \cup {"Absent"}], NEW b \in Names
  PROVE  Create(b) \/ Progress(b) \/ Delete(b) =>
           phase' \in [Names -> Phases \cup {"Absent"}]
BY DEF Create, Progress, Accept, Start, Complete, Fail, Delete, Move, Phases

(* The types are kept; a Backup is only created at a time that names one. *)
ScheduleTypes == ScheduleTypeOK /\ BeganLater

(* The initial states are of their types. *)
LEMMA TypeInit == ScheduleInit => ScheduleTypes
<1> SUFFICES ASSUME ScheduleInit PROVE ScheduleTypes
  OBVIOUS
<1>1. 0 \in Times /\ 0 \in 0 .. MaxTime + Period /\ 0 \in 0 .. Never
      /\ 0 \in 0 .. MaxEdits /\ 0 \in 0 .. MaxSlips
  BY ScheduleAssumption DEF Times, Never
<1>2. sched \in ScheduleResource
  BY <1>1 DEF ScheduleInit, ScheduleResource
<1>3. phase \in [Names -> Phases \cup {"Absent"}]
  BY DEF ScheduleInit, Init
<1> QED BY <1>1, <1>2, <1>3 DEF ScheduleInit, ScheduleTypes, ScheduleTypeOK, BeganLater

(* Every step of the controller keeps the types. *)
LEMMA TypeReconcile ==
  ASSUME ScheduleTypes, ScheduleReconcile
  PROVE  ScheduleTypes'
<1> USE TypeParts DEF ScheduleTypes
<1>1. CASE ScheduleBegin
  <2>1. PICK read \in {sched, prev} :
          /\ IF read = sched THEN UNCHANGED slips ELSE Slip
          /\ wake' = IF read # sched \/ (~read.suspend /\ ~healthy) THEN now ELSE Never
          /\ IF read.suspend \/ ~healthy
               THEN UNCHANGED <<spc, sobj, began>>
               ELSE spc' = "PatchNext" /\ sobj' = read /\ began' = now
    BY <1>1 DEF ScheduleBegin
  <2>2. slips' \in 0 .. MaxSlips
    BY <2>1, SlipBound
  <2>3. wake' \in 0 .. Never
    BY <2>1
  <2>4. sobj' \in ScheduleResource /\ began' \in Times
    BY <2>1
  <2>5. spc' \in {"Idle", "PatchNext"} /\ UNCHANGED <<phase, served, schedule, world>>
    BY <1>1, <2>1 DEF ScheduleBegin
  <2> QED BY <2>2, <2>3, <2>4, <2>5 DEF ScheduleTypeOK, BeganLater, schedule, world
<1>2. CASE PatchNextSchedule
  <2> DEFINE slot == NextSlot(sobj.lastScheduleTime)
             new == [sobj EXCEPT !.nextScheduleTime = slot]
  <2>1. slot \in 0 .. MaxTime + Period /\ slot \in Nat /\ slot >= 1 /\ slot \in 0 .. Never
    <3>1. sobj.lastScheduleTime \in Nat /\ Period \in Nat /\ MaxTime \in Nat
      BY ScheduleAssumption DEF Times
    <3> QED BY <3>1, Looks, Slots DEF Never
  <2>2. new \in ScheduleResource
    BY <2>1 DEF ScheduleResource
  <2>3. CASE GiveUp /\ Slip /\ UNCHANGED <<schedule, sobj>>
    BY <1>2, <2>3, SlipBound
    DEF PatchNextSchedule, GiveUp, ScheduleTypeOK, BeganLater, schedule, world
  <2>4. CASE /\ PatchSchedule(new, IF began < slot THEN slot ELSE Never)
             /\ spc' = IF began < slot THEN "Idle" ELSE "Create"
             /\ sobj' = sched'
             /\ UNCHANGED slips
    <3>1. sched' \in ScheduleResource /\ prev' \in ScheduleResource /\ wake' \in 0 .. Never
      <4> HIDE DEF slot, new
      <4> QED BY <2>1, <2>2, <2>4, PatchFacts
    <3>2. UNCHANGED <<phase, served, began, world>>
      BY <1>2 DEF PatchNextSchedule
    <3>3. BeganLater'
      BY <2>1, <2>4, <3>2, ScheduleAssumption DEF BeganLater, Times
    <3> QED BY <2>4, <3>1, <3>2, <3>3 DEF ScheduleTypeOK, world
  <2> QED BY <1>2, <2>3, <2>4 DEF PatchNextSchedule
<1>3. CASE CreateScheduledBackup
  <2>1. began \in Names
    BY <1>3 DEF CreateScheduledBackup, BeganLater
  <2>2. /\ phase' \in [Names -> Phases \cup {"Absent"}]
        /\ served' \subseteq Names
    BY <1>3, <2>1, PhaseTypes DEF CreateScheduledBackup, Created, ScheduleTypeOK
  <2>3. wake' \in 0 .. Never
    BY <1>3, Looks DEF CreateScheduledBackup, GiveUp, Earlier
  <2>4. slips' \in 0 .. MaxSlips
    BY <1>3, SlipBound DEF CreateScheduledBackup
  <2>5. spc' \in {"Idle", "PatchLast"} /\ UNCHANGED <<schedule, sobj, began, world>>
    BY <1>3 DEF CreateScheduledBackup, GiveUp
  <2> QED BY <2>1, <2>2, <2>3, <2>4, <2>5 DEF ScheduleTypeOK, BeganLater, schedule, world
<1>4. CASE PatchLastSchedule
  <2> DEFINE new == [sobj EXCEPT !.lastScheduleTime = began]
  <2>1. new \in ScheduleResource
    BY DEF ScheduleResource
  <2>2. ComputeRequeue(began, began) \in 0 .. Never
    BY Looks
  <2>3. /\ sched' \in ScheduleResource /\ prev' \in ScheduleResource
        /\ wake' \in 0 .. Never
    <3>1. \/ PatchSchedule(new, ComputeRequeue(began, began))
          \/ GiveUp /\ UNCHANGED schedule
      BY <1>4 DEF PatchLastSchedule
    <3> HIDE DEF new
    <3>2. CASE PatchSchedule(new, ComputeRequeue(began, began))
      BY <2>1, <2>2, <3>2, PatchFacts
    <3>3. CASE GiveUp /\ UNCHANGED schedule
      BY <3>3 DEF GiveUp, schedule
    <3> QED BY <3>1, <3>2, <3>3
  <2>4. slips' \in 0 .. MaxSlips
    BY <1>4, SlipBound DEF PatchLastSchedule
  <2>5. spc' = "Idle" /\ UNCHANGED <<phase, served, sobj, began, world>>
    BY <1>4 DEF PatchLastSchedule, GiveUp
  <2> QED BY <2>3, <2>4, <2>5 DEF ScheduleTypeOK, BeganLater, world
<1> QED BY <1>1, <1>2, <1>3, <1>4 DEF ScheduleReconcile

(* The clock, users, outages, restarts and the Backup controller. *)
ScheduleEnvironment ==
  BackupSteps \/ Tick \/ ToggleSuspend \/ Outage \/ Recover \/ OperatorRestart

(* Every other step keeps the types. *)
LEMMA TypeEnvironment ==
  ASSUME ScheduleTypes, ScheduleEnvironment
  PROVE  ScheduleTypes'
<1> USE TypeParts DEF ScheduleTypes, schedule, scheduler, world
<1>1. CASE BackupSteps
  <2>1. phase' \in [Names -> Phases \cup {"Absent"}]
    BY <1>1, PhaseTypes DEF BackupSteps, ScheduleTypeOK
  <2> QED BY <1>1, <2>1 DEF BackupSteps, ScheduleTypeOK, BeganLater
<1>2. CASE Tick
  <2>1. now' \in Times
    BY <1>2, ScheduleAssumption DEF Tick, Times
  <2> QED BY <1>2, <2>1 DEF Tick, ScheduleTypeOK, BeganLater
<1>3. CASE ToggleSuspend
  <2>1. sched' \in ScheduleResource
    BY <1>3 DEF ToggleSuspend, ScheduleResource
  <2>2. edits' \in 0 .. MaxEdits
    BY <1>3, ScheduleAssumption DEF ToggleSuspend, ScheduleTypeOK
  <2> QED BY <1>3, <2>1, <2>2 DEF ToggleSuspend, ScheduleTypeOK, BeganLater
<1>4. CASE Outage
  <2>1. edits' \in 0 .. MaxEdits
    BY <1>4, ScheduleAssumption DEF Outage, ScheduleTypeOK
  <2> QED BY <1>4, <2>1 DEF Outage, ScheduleTypeOK, BeganLater
<1>5. CASE Recover
  BY <1>5 DEF Recover, ScheduleTypeOK, BeganLater
<1>6. CASE OperatorRestart
  BY <1>6, SlipBound DEF OperatorRestart, ScheduleTypeOK, BeganLater
<1> QED BY <1>1, <1>2, <1>3, <1>4, <1>5, <1>6 DEF ScheduleEnvironment

(* A step that changes nothing keeps them too. *)
LEMMA TypeStep == ScheduleTypes /\ [ScheduleNext]_vars => ScheduleTypes'
<1> SUFFICES ASSUME ScheduleTypes, [ScheduleNext]_vars PROVE ScheduleTypes'
  OBVIOUS
<1>1. CASE ScheduleNext
  BY <1>1, TypeReconcile, TypeEnvironment DEF ScheduleNext, ScheduleEnvironment
<1>2. CASE UNCHANGED vars
  BY <1>2 DEF vars, schedule, scheduler, world, ScheduleTypes, ScheduleTypeOK, BeganLater
<1> QED BY <1>1, <1>2

(***************************************************************************)
(* The schedule, the controller's copy and the clock stay in their types;  *)
(* every Backup that is created has one of the names, also when a call     *)
(* fails or the process is restarted half-way.                             *)
(***************************************************************************)
THEOREM ScheduleTypeCorrect == ScheduleSpec => []ScheduleTypeOK
<1>1. ScheduleTypes => ScheduleTypeOK
  BY DEF ScheduleTypes
<1> QED BY <1>1, TypeInit, TypeStep, PTL DEF ScheduleSpec

-----------------------------------------------------------------------------
(***************************************************************************)
(* One Backup for a slot                                                   *)
(***************************************************************************)

(* The Backups of a slot can be counted, and one more adds at most one. *)
LEMMA Counting ==
  ASSUME ScheduleTypeOK
  PROVE  /\ \A s \in Times : Cardinality(CreatedFor(s)) \in Nat
         /\ served' = served =>
              \A s : CreatedFor(s)' = CreatedFor(s)
         /\ served' = served \cup {began} =>
              \A s \in Times :
                /\ Cardinality(CreatedFor(s)') \in Nat
                /\ Cardinality(CreatedFor(s)') <= Cardinality(CreatedFor(s)) + 1
                /\ s # SlotOf(began) => CreatedFor(s)' = CreatedFor(s)
<1>1. IsFiniteSet(Names)
  <2>1. IsFiniteSet(1 .. MaxTime)
    BY FS_Interval, ScheduleAssumption
  <2> QED BY <2>1, ScheduleAssumption
<1>2. ASSUME NEW s \in Times
      PROVE  IsFiniteSet(CreatedFor(s)) /\ Cardinality(CreatedFor(s)) \in Nat
  <2>1. CreatedFor(s) \subseteq Names
    BY DEF CreatedFor, ScheduleTypeOK
  <2> QED BY <1>1, <2>1, FS_Subset, FS_CardinalityType
<1>3. ASSUME served' = served, NEW s
      PROVE  CreatedFor(s)' = CreatedFor(s)
  BY <1>3 DEF CreatedFor, SlotOf
<1>4. ASSUME served' = served \cup {began}, NEW s \in Times
      PROVE  /\ Cardinality(CreatedFor(s)') \in Nat
             /\ Cardinality(CreatedFor(s)') <= Cardinality(CreatedFor(s)) + 1
             /\ s # SlotOf(began) => CreatedFor(s)' = CreatedFor(s)
  <2>1. CreatedFor(s)' = IF SlotOf(began) = s THEN CreatedFor(s) \cup {began}
                         ELSE CreatedFor(s)
    BY <1>4 DEF CreatedFor, SlotOf
  <2>2. /\ Cardinality(CreatedFor(s) \cup {began}) \in Nat
        /\ Cardinality(CreatedFor(s) \cup {began}) <= Cardinality(CreatedFor(s)) + 1
    <3>1. IsFiniteSet(CreatedFor(s)) /\ Cardinality(CreatedFor(s)) \in Nat
      BY <1>2
    <3>2. Cardinality(CreatedFor(s) \cup {began}) =
            IF began \in CreatedFor(s) THEN Cardinality(CreatedFor(s))
            ELSE Cardinality(CreatedFor(s)) + 1
      BY <3>1, FS_AddElement
    <3> QED BY <3>1, <3>2
  <2>3. Cardinality(CreatedFor(s)) \in Nat
    BY <1>2
  <2> QED BY <2>1, <2>2, <2>3
<1> QED BY <1>2, <1>3, <1>4

(* The slot of a time is a time. *)
LEMMA SlotIsTime ==
  ASSUME NEW t \in Times
  PROVE  SlotOf(t) \in Times
<1>1. t \in Nat /\ MaxTime \in Nat
  BY ScheduleAssumption DEF Times
<1> QED BY <1>1, Slots DEF Times

(* The initial states: nothing was created. *)
LEMMA ScheduleInvInit == ScheduleInit => ScheduleInv
<1> SUFFICES ASSUME ScheduleInit PROVE ScheduleInv
  OBVIOUS
<1>1. \A s : CreatedFor(s) = {}
  BY DEF ScheduleInit, CreatedFor
<1>2. \A s : Cardinality(CreatedFor(s)) = 0
  BY <1>1, FS_EmptySet
<1>3. ~Due /\ slips = 0 /\ spc = "Idle"
  BY DEF Due, ScheduleInit
<1>4. SlotBound /\ UnrecordedBound /\ DueBound
  BY <1>2, <1>3 DEF SlotBound, UnrecordedBound, DueBound
<1>5. InOrder
  BY DEF ScheduleInit, InOrder
<1> QED BY <1>4, <1>5, TypeInit DEF ScheduleInv, ScheduleTypes

(* What the steps of the controller do to the counts' conditions. *)

(* Reading the schedule: a fresh copy shows whether the slot is recorded,  *)
(* a stale one costs a slip.                                               *)
LEMMA BeginKeeps ==
  ASSUME ScheduleInv, ScheduleBegin, ScheduleTypes'
  PROVE  ScheduleInv'
<1> USE TypeParts DEF ScheduleInv, ScheduleTypes
<1>1. PICK read \in {sched, prev} :
        /\ IF read = sched THEN UNCHANGED slips ELSE Slip
        /\ IF read.suspend \/ ~healthy
             THEN UNCHANGED <<spc, sobj, began>>
             ELSE spc' = "PatchNext" /\ sobj' = read /\ began' = now
  BY DEF ScheduleBegin
<1>2. spc = "Idle" /\ UNCHANGED <<served, sched, now>>
  BY DEF ScheduleBegin, schedule, world
<1>3. /\ slips' \in Nat /\ slips <= slips'
      /\ read # sched => slips' = slips + 1
  BY <1>1 DEF Slip
<1>4. \A s \in Times : /\ CreatedFor(s)' = CreatedFor(s)
                       /\ Cardinality(CreatedFor(s)) \in Nat
  BY <1>2, Counting
<1>5. InOrder'
  BY <1>1, <1>2 DEF InOrder
<1>6. SlotBound'
  BY <1>3, <1>4 DEF SlotBound
<1>7. UnrecordedBound'
  BY <1>1, <1>2, <1>3, <1>4 DEF UnrecordedBound
<1>8. DueBound'
  <2> SUFFICES ASSUME Due' PROVE Cardinality(CreatedFor(SlotOf(now))) <= slips'
    <3>1. Due' => began' = now
      BY <1>1, <1>2 DEF Due
    <3>2. SlotOf(now) \in Times
      BY SlotIsTime
    <3> QED BY <1>4, <3>1, <3>2 DEF DueBound, SlotOf
  <2>1. sobj' = read /\ NextSlot(read.lastScheduleTime) <= now
    BY <1>1, <1>2 DEF Due, NextSlot
  <2>2. SlotOf(now) \in Times
    BY SlotIsTime
  <2>3. CASE read # sched
    BY <1>3, <1>4, <2>2, <2>3 DEF SlotBound
  <2>4. CASE read = sched
    <3>1. sched.lastScheduleTime < SlotOf(now)
      <4>1. sched.lastScheduleTime \in Nat /\ now \in Nat
        BY DEF Times
      <4> QED BY <2>1, <2>4, <4>1, LaterSlot
    <3>2. Cardinality(CreatedFor(SlotOf(now))) <= slips
      BY <1>2, <2>2, <3>1 DEF UnrecordedBound
    <3> QED BY <1>3, <1>4, <2>2, <3>2
  <2> QED BY <2>3, <2>4
<1> QED BY <1>5, <1>6, <1>7, <1>8

(* Recording the next slot: lastScheduleTime stays, and the local copy     *)
(* becomes the one in the API server.                                      *)
LEMMA PatchNextKeeps ==
  ASSUME ScheduleInv, PatchNextSchedule, ScheduleTypes'
  PROVE  ScheduleInv'
<1> USE TypeParts DEF ScheduleInv, ScheduleTypes
<1> DEFINE slot == NextSlot(sobj.lastScheduleTime)
           new == [sobj EXCEPT !.nextScheduleTime = slot]
<1>1. spc = "PatchNext" /\ UNCHANGED <<served, began, now>>
  BY DEF PatchNextSchedule, world
<1>2. \A s \in Times : /\ CreatedFor(s)' = CreatedFor(s)
                       /\ Cardinality(CreatedFor(s)) \in Nat
  BY <1>1, Counting
<1>3. CASE GiveUp /\ Slip /\ UNCHANGED <<schedule, sobj>>
  <2>1. spc' = "Idle" /\ slips' = slips + 1 /\ UNCHANGED sched
    BY <1>3 DEF GiveUp, Slip, schedule
  <2>2. InOrder'
    BY <1>1, <2>1 DEF InOrder
  <2>3. SlotBound' /\ UnrecordedBound'
    BY <1>1, <1>2, <2>1 DEF SlotBound, UnrecordedBound
  <2>4. DueBound'
    BY <2>1 DEF DueBound, Due
  <2> QED BY <2>2, <2>3, <2>4
<1>4. CASE /\ PatchSchedule(new, IF began < slot THEN slot ELSE Never)
           /\ spc' = IF began < slot THEN "Idle" ELSE "Create"
           /\ sobj' = sched'
           /\ UNCHANGED slips
  <2>1. sobj.lastScheduleTime \in Nat /\ Period \in Nat /\ MaxTime \in Nat
        /\ slot \in 0 .. MaxTime + Period /\ slot \in 0 .. Never /\ slot \in Nat /\ began \in Nat
    <3>1. sobj.lastScheduleTime \in Nat /\ Period \in Nat /\ MaxTime \in Nat /\ began \in Nat
      BY ScheduleAssumption DEF Times
    <3> QED BY <3>1, Looks, Slots DEF Never
  <2>2. new \in ScheduleResource /\ new.lastScheduleTime = sobj.lastScheduleTime
    BY <2>1 DEF ScheduleResource
  <2>3. sched'.lastScheduleTime = sched.lastScheduleTime
    <3> HIDE DEF slot, new
    <3> QED BY <1>4, <2>1, <2>2, PatchFacts
  <2>4. InOrder'
    BY <1>1, <1>4, <2>3 DEF InOrder
  <2>5. SlotBound' /\ UnrecordedBound'
    BY <1>1, <1>2, <1>4, <2>3 DEF SlotBound, UnrecordedBound
  <2>6. DueBound'
    <3> SUFFICES ASSUME Due' PROVE Cardinality(CreatedFor(SlotOf(began))) <= slips
      <4>1. SlotOf(began) \in Times
        BY SlotIsTime
      <4> QED BY <1>1, <1>2, <1>4, <4>1 DEF DueBound, SlotOf
    <3>1. spc' = "Create"
      BY <1>4 DEF Due
    <3>2. slot <= began
      BY <1>4, <2>1, <3>1
    <3> QED BY <1>1, <3>2 DEF Due, DueBound
  <2> QED BY <2>4, <2>5, <2>6
<1> QED BY <1>3, <1>4 DEF PatchNextSchedule

(* Creating a Backup: it is counted, and about to be recorded or a slip. *)
LEMMA CreateKeeps ==
  ASSUME ScheduleInv, CreateScheduledBackup, ScheduleTypes'
  PROVE  ScheduleInv'
<1> USE TypeParts DEF ScheduleInv, ScheduleTypes
<1>1. /\ spc = "Create" /\ UNCHANGED <<sched, sobj, began, now>>
      /\ spc' \in {"Idle", "PatchLast"}
  BY DEF CreateScheduledBackup, schedule, world, GiveUp
<1>2. /\ served' = served \/ served' = served \cup {began}
      /\ served' = served \/ spc' = "PatchLast" \/ slips' = slips + 1
      /\ slips' \in Nat /\ slips <= slips'
  BY DEF CreateScheduledBackup, Created, GiveUp, Slip
<1>3. \A s \in Times :
        /\ Cardinality(CreatedFor(s)) \in Nat
        /\ Cardinality(CreatedFor(s)') \in Nat
        /\ Cardinality(CreatedFor(s)') <= Cardinality(CreatedFor(s)) + 1
        /\ s # SlotOf(began) => CreatedFor(s)' = CreatedFor(s)
        /\ served' = served => CreatedFor(s)' = CreatedFor(s)
  BY <1>2, Counting
<1>4. SlotOf(began) \in Times
  BY SlotIsTime
<1>5. Cardinality(CreatedFor(SlotOf(began))) <= slips
  BY <1>1 DEF DueBound, Due
<1>6. InOrder'
  BY <1>1 DEF InOrder
<1>7. SlotBound'
  <2> SUFFICES ASSUME NEW s \in Times PROVE Cardinality(CreatedFor(s)') <= 1 + slips'
    BY DEF SlotBound
  <2>1. CASE s = SlotOf(began)
    BY <1>2, <1>3, <1>5, <2>1
  <2>2. CASE s # SlotOf(began)
    BY <1>2, <1>3, <2>2 DEF SlotBound
  <2> QED BY <2>1, <2>2
<1>8. UnrecordedBound'
  <2> SUFFICES ASSUME NEW s \in Times, sched.lastScheduleTime < s,
                      ~(spc' = "PatchLast" /\ SlotOf(began) = s)
               PROVE  Cardinality(CreatedFor(s)') <= slips'
    BY <1>1 DEF UnrecordedBound, SlotOf
  <2>1. CASE s # SlotOf(began)
    BY <1>1, <1>2, <1>3, <2>1 DEF UnrecordedBound
  <2>2. CASE s = SlotOf(began)
    BY <1>2, <1>3, <1>5, <2>2
  <2> QED BY <2>1, <2>2
<1>9. DueBound'
  BY <1>1 DEF DueBound, Due
<1> QED BY <1>6, <1>7, <1>8, <1>9

(* Recording the slot: from now on a fresh read shows it. *)
LEMMA PatchLastKeeps ==
  ASSUME ScheduleInv, PatchLastSchedule, ScheduleTypes'
  PROVE  ScheduleInv'
<1> USE TypeParts DEF ScheduleInv, ScheduleTypes
<1> DEFINE new == [sobj EXCEPT !.lastScheduleTime = began]
<1>1. spc = "PatchLast" /\ spc' = "Idle" /\ UNCHANGED <<served, sobj, began, now>>
  BY DEF PatchLastSchedule, world, GiveUp
<1>2. \A s \in Times : /\ CreatedFor(s)' = CreatedFor(s)
                       /\ Cardinality(CreatedFor(s)) \in Nat
  BY <1>1, Counting
<1>3. DueBound'
  BY <1>1 DEF DueBound, Due
<1>4. CASE GiveUp /\ Slip /\ UNCHANGED schedule
  <2>1. slips' = slips + 1 /\ UNCHANGED sched
    BY <1>4 DEF Slip, schedule
  <2>2. InOrder'
    BY <1>1, <2>1 DEF InOrder
  <2>3. SlotBound' /\ UnrecordedBound'
    BY <1>2, <2>1 DEF SlotBound, UnrecordedBound
  <2> QED BY <1>3, <2>2, <2>3
<1>5. CASE PatchSchedule(new, ComputeRequeue(began, began)) /\ UNCHANGED slips
  <2>1. new \in ScheduleResource /\ new.lastScheduleTime = began
    BY DEF ScheduleResource
  <2>2. sched'.lastScheduleTime = began
    <3>1. ComputeRequeue(began, began) \in 0 .. Never
      BY Looks
    <3>2. sobj.lastScheduleTime = sched.lastScheduleTime
      BY <1>1 DEF InOrder
    <3> HIDE DEF new
    <3> QED BY <1>5, <2>1, <3>1, <3>2, PatchFacts
  <2>3. InOrder'
    BY <1>1, <2>2 DEF InOrder
  <2>4. SlotBound'
    BY <1>2, <1>5 DEF SlotBound
  <2>5. UnrecordedBound'
    <3> SUFFICES ASSUME NEW s \in Times, began < s
                 PROVE  Cardinality(CreatedFor(s)) <= slips
      BY <1>2, <1>5, <2>2 DEF UnrecordedBound
    <3>1. began \in Nat /\ s \in Nat /\ SlotOf(began) <= began /\ SlotOf(began) \in Nat
          /\ sched.lastScheduleTime \in Nat /\ sched.lastScheduleTime <= began
      BY <1>1, Slots DEF InOrder, Times
    <3>2. SlotOf(began) # s /\ sched.lastScheduleTime < s
      BY <3>1
    <3> QED BY <3>2 DEF UnrecordedBound
  <2> QED BY <1>3, <2>3, <2>4, <2>5
<1> QED BY <1>4, <1>5 DEF PatchLastSchedule

(* The other steps create no Backup and record nothing. *)
LEMMA EnvironmentKeeps ==
  ASSUME ScheduleInv, ScheduleEnvironment \/ UNCHANGED vars, ScheduleTypes'
  PROVE  ScheduleInv'
<1> USE TypeParts DEF ScheduleInv, ScheduleTypes
<1>1. /\ UNCHANGED <<served, sobj, began>>
      /\ sched'.lastScheduleTime = sched.lastScheduleTime
      /\ now' \in Nat /\ now <= now'
  <2>1. ToggleSuspend => sched'.lastScheduleTime = sched.lastScheduleTime
    BY DEF ToggleSuspend, ScheduleResource
  <2>2. now \in Nat
    BY DEF Times
  <2> QED BY <2>1, <2>2 DEF ScheduleEnvironment, BackupSteps, Tick, ToggleSuspend,
             Outage, Recover, OperatorRestart, vars, schedule, scheduler, world
<1>2. /\ slips' \in Nat
      /\ \/ spc' = spc /\ slips' = slips
         \/ spc' = "Idle" /\ slips' = slips + 1
  BY DEF ScheduleEnvironment, BackupSteps, Tick, ToggleSuspend, Outage, Recover,
         OperatorRestart, Slip, vars, scheduler
<1>3. \A s \in Times : /\ CreatedFor(s)' = CreatedFor(s)
                       /\ Cardinality(CreatedFor(s)) \in Nat
  BY <1>1, Counting
<1>4. InOrder'
  BY <1>1, <1>2 DEF InOrder, Times
<1>5. SlotBound'
  BY <1>2, <1>3 DEF SlotBound
<1>6. UnrecordedBound'
  BY <1>1, <1>2, <1>3 DEF SlotBound, UnrecordedBound, SlotOf
<1>7. DueBound'
  <2>1. SlotOf(began) \in Times
    BY SlotIsTime
  <2> QED BY <1>1, <1>2, <1>3, <2>1 DEF DueBound, Due, SlotOf, NextSlot
<1> QED BY <1>4, <1>5, <1>6, <1>7

(* The invariant is kept by every step. *)
LEMMA ScheduleInvStep == ScheduleInv /\ [ScheduleNext]_vars => ScheduleInv'
<1> SUFFICES ASSUME ScheduleInv, [ScheduleNext]_vars PROVE ScheduleInv'
  OBVIOUS
<1>1. ScheduleTypes'
  BY TypeStep DEF ScheduleInv, ScheduleTypes
<1> QED BY <1>1, BeginKeeps, PatchNextKeeps, CreateKeeps, PatchLastKeeps, EnvironmentKeeps
        DEF ScheduleNext, ScheduleReconcile, ScheduleEnvironment

(***************************************************************************)
(* A slot of the cron expression gets one Backup, and one more at most for *)
(* each restart, failed call or stale read, although the controller        *)
(* decides from a lastScheduleTime that is written only after the Backup   *)
(* was created.                                                            *)
(***************************************************************************)
THEOREM SlotsGetOneBackup == ScheduleSpec => []OneBackupPerSlot
<1>1. ScheduleInv => OneBackupPerSlot
  BY DEF ScheduleInv, SlotBound, OneBackupPerSlot, CreatedFor
<1> QED BY <1>1, ScheduleInvInit, ScheduleInvStep, PTL DEF ScheduleSpec

-----------------------------------------------------------------------------
(***************************************************************************)
(* The schedule and the life cycle of Backups                              *)
(***************************************************************************)

(* The controller's part in the life cycle is to create Backups. *)
LEMMA LifecycleStep ==
  ASSUME ScheduleTypes, [ScheduleNext]_vars
  PROVE  [Next]_phase
<1>1. CASE CreateScheduledBackup
  <2>1. began \in Names
    BY <1>1 DEF CreateScheduledBackup, ScheduleTypes, BeganLater
  <2> QED BY <1>1, <2>1 DEF CreateScheduledBackup, Created, Next
<1>2. CASE BackupSteps
  BY <1>2 DEF BackupSteps, Progress, Next
<1>3. CASE UNCHANGED phase
  BY <1>3
<1>4. CASE /\ ScheduleNext \/ UNCHANGED vars
           /\ ~CreateScheduledBackup /\ ~BackupSteps
  BY <1>3, <1>4 DEF ScheduleNext, ScheduleReconcile, ScheduleBegin, PatchNextSchedule,
     PatchLastSchedule, Tick, ToggleSuspend, Outage, Recover, OperatorRestart, vars
<1> QED BY <1>1, <1>2, <1>4

(***************************************************************************)
(* With a BackupSchedule that creates Backups while the Backup controller  *)
(* and users work on them, Backups still go through their life cycle:      *)
(* creating one never resets a Backup that exists under that name.         *)
(***************************************************************************)
THEOREM SchedulesKeepLifecycle == ScheduleSpec => Safety
<1>1. ScheduleInit => Init
  BY DEF ScheduleInit
<1> QED BY <1>1, TypeInit, TypeStep, LifecycleStep, PTL DEF ScheduleSpec, Safety

===========================================================================
