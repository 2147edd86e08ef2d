-------------------------- MODULE BackupLifecycle --------------------------
(***************************************************************************)
(* What the Backup controller promises about the phases of Backups: a      *)
(* DoltDB has at most one running Backup, a Backup that ended stays as it  *)
(* ended, and every Backup that is started ends.  How often an attempt     *)
(* fails, what is retried and what is copied is left to Backup.tla.        *)
(***************************************************************************)
CONSTANT Names    \* the Backups of one DoltDB that may exist

VARIABLE phase    \* the phase of each Backup; "Absent": there is no such one

Phases == {"", "Pending", "Running", "Completed", "Failed"}

Alone(b) == \A c \in Names \ {b} : phase[c] # "Running"

Move(b, from, to) ==
  /\ phase[b] \in from
  /\ phase' = [phase EXCEPT ![b] = to]

-----------------------------------------------------------------------------
Init == phase = [b \in Names |-> "Absent"]

Create(b)   == Move(b, {"Absent"}, "")
Accept(b)   == Move(b, {""}, "Pending")
Start(b)    == Alone(b) /\ Move(b, {"Pending"}, "Running")
Complete(b) == Move(b, {"Running"}, "Completed")
(* A Backup whose phase cannot even be set to Running also ends Failed. *)
Fail(b)     == Move(b, {"Pending", "Running"}, "Failed")
Delete(b)   == Move(b, Phases, "Absent")

Next ==
  \E b \in Names :
    \/ Create(b) \/ Accept(b) \/ Start(b)
    \/ Complete(b) \/ Fail(b) \/ Delete(b)

Progress(b) == Accept(b) \/ Start(b) \/ Complete(b) \/ Fail(b)

(* What a Backup may do ... *)
Safety == Init /\ [][Next]_phase

(* ... and that it ends. *)
Spec ==
  /\ Safety
  /\ \A b \in Names : WF_phase(Progress(b))
===========================================================================
