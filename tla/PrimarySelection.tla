------------------------- MODULE PrimarySelection -------------------------
(***************************************************************************)
(* The pure functions that decide which pod is, or becomes, the primary.   *)
(* `states' is what GetDBStates returns: one record per pod of the         *)
(* StatefulSet, with role "" when the pod could not be queried (the zero   *)
(* DBState of Go).                                                         *)
(***************************************************************************)
EXTENDS Integers, FiniteSets

CONSTANT N                                  \* spec.replicas

ASSUME ReplicasAssumption == N \in Nat /\ N >= 2

Pods  == 0 .. (N - 1)
NoPod == -1

Largest(S)  == CHOOSE m \in S : \A n \in S : n <= m
Smallest(S) == CHOOSE m \in S : \A n \in S : m <= n

(* The pods that answered with role primary. *)
ReportedPrimaries(states) == {p \in Pods : states[p].role = "primary"}

(***************************************************************************)
(* CurrentPrimaryAndEpoch fails when no pod or more than one answered as   *)
(* primary; otherwise it returns that pod and the highest epoch seen.      *)
(***************************************************************************)
PrimaryIsUnambiguous(states) ==
  \E p \in Pods : ReportedPrimaries(states) = {p}

HighestEpoch(states) == Largest({0} \cup {states[p].epoch : p \in Pods})

CurrentPrimaryAndEpoch(states) ==
  IF PrimaryIsUnambiguous(states)
    THEN [ok      |-> TRUE,
          primary |-> CHOOSE p \in Pods : ReportedPrimaries(states) = {p},
          epoch   |-> HighestEpoch(states)]
    ELSE [ok |-> FALSE, primary |-> NoPod, epoch |-> -1]

(***************************************************************************)
(* The freshest of a set of candidate pods: the latest of their last       *)
(* updates wins and the lowest index breaks ties, because the code walks   *)
(* the pods in name order and replaces its choice only by a strictly later *)
(* one.  A pod whose last update is 0 has never replicated anything and is *)
(* not eligible.                                                           *)
(***************************************************************************)
Freshest(candidates, lastUpdate) ==
  LET eligible == {p \in candidates : lastUpdate[p] > 0}
      newest   == {p \in eligible : \A q \in eligible :
                                      lastUpdate[q] <= lastUpdate[p]}
  IN  IF eligible = {} THEN NoPod ELSE Smallest(newest)

(* selectFailoverCandidate: the freshest of the healthy standbys that answer. *)
SelectFailoverCandidate(answering, lastUpdate) ==
  Freshest(answering, lastUpdate)

(* HealthyDoltDBReplica: the first ready pod other than the current primary. *)
HealthyDoltDBReplica(ready) ==
  IF ready = {} THEN NoPod ELSE Smallest(ready)

(* PickNextPrimary: the freshest standby, and failing that the first standby. *)
PickNextPrimary(states, lastUpdate) ==
  LET standbys == {p \in Pods : states[p].role = "standby"}
      freshest == Freshest(standbys, lastUpdate)
  IN  IF freshest # NoPod THEN freshest
      ELSE IF standbys = {} THEN NoPod ELSE Smallest(standbys)

(***************************************************************************)
(* IsReplicationConfigured over status.replicationStatus: some pod is a    *)
(* standby and none is not_configured.                                     *)
(***************************************************************************)
IsReplicationConfigured(repl) ==
  /\ \A p \in Pods : repl[p] # "not_configured"
  /\ \E p \in Pods : repl[p] = "standby"
===========================================================================
