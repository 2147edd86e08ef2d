-------------------------- MODULE SelectionLoops --------------------------
(***************************************************************************)
(* The three loops that walk the pods in order and choose a primary, one   *)
(* pass at a time: CurrentPrimaryAndEpoch, selectFailoverCandidate and     *)
(* PickNextPrimary.  Switchover uses the declarative versions of           *)
(* PrimarySelection; here the loops are shown to compute them.             *)
(*                                                                         *)
(* An answer gives the last update of each database of the pod; 0 is a     *)
(* NULL one, and also the zero time with which the loops begin.            *)
(***************************************************************************)
EXTENDS PrimarySelection

CONSTANTS
  D,               \* the databases of a pod
  StatusPrimary,   \* status.currentPrimaryPodIndex
  MaxEpochSeen,    \* bound on the epochs in the answers
  MaxTime          \* bound on the times of last updates

ASSUME LoopsAssumption ==
  /\ D \in Nat
  /\ StatusPrimary \in Pods
  /\ MaxEpochSeen \in Nat \ {0}
  /\ MaxTime \in Nat

VARIABLES
  answers,   \* what the pods answered: the input
  i,         \* the pod the loops are at
  j,         \* how many of its databases have been looked at
  oldest,    \* oldestUpdate, oldestDB
  scan,      \* CurrentPrimaryAndEpoch: currentPrimary, highestEpoch, error
  best,      \* selectFailoverCandidate: bestIndex, bestLastUpdate
  pick       \* PickNextPrimary: firstStandby, nextPrimary, updated

vars  == <<answers, i, j, oldest, scan, best, pick>>

Times == 0 .. MaxTime

(* A pod that did not answer is the zero DBState; one that did is at an epoch. *)
NoAnswer == [role |-> "", epoch |-> 0, updates |-> [d \in 1 .. D |-> 0]]

Answer ==
  [role : {"primary", "standby"}, epoch : 1 .. MaxEpochSeen, updates : [1 .. D -> Times]]
    \cup {NoAnswer}

Init ==
  /\ answers \in [Pods -> Answer]
  /\ i = 0 /\ j = 0 /\ oldest = 0
  /\ scan = [primary |-> NoPod, epoch |-> 0, failed |-> FALSE]
  /\ best = [pod |-> NoPod, update |-> 0]
  /\ pick = [first |-> NoPod, pod |-> NoPod, update |-> 0]

-----------------------------------------------------------------------------
(* Mutant: the last NULL or newest update wins. *)
OlderNewest(u, acc) == IF acc = 0 \/ u > acc THEN u ELSE acc

(* The inner loop of both selections skips NULLs and keeps the oldest update. *)
Older(u, acc) == IF u # 0 /\ (acc = 0 \/ u < acc) THEN u ELSE acc

NextDatabase ==
  /\ i < N /\ j < D
  /\ oldest' = Older(answers[i].updates[j + 1], oldest)
  /\ j' = j + 1
  /\ UNCHANGED <<answers, i, scan, best, pick>>

(* Mutant: the epoch is looked at on primaries only. *)
ScanPrimaries(s, p, a) ==
  IF s.failed \/ a.role # "primary" THEN s
  ELSE IF s.primary # NoPod THEN [s EXCEPT !.failed = TRUE]
  ELSE [s EXCEPT !.primary = p, !.epoch = Largest({@, a.epoch})]

(* Mutant: the pods are numbered from 1. *)
ScanFromOne(s, p, a) ==
  IF s.failed THEN s
  ELSE IF a.role = "primary" /\ s.primary # NoPod THEN [s EXCEPT !.failed = TRUE]
  ELSE [s EXCEPT !.primary = IF a.role = "primary" THEN p + 1 ELSE @,
                 !.epoch   = IF a.epoch > @ THEN a.epoch ELSE @]

(* One pass of CurrentPrimaryAndEpoch, which returns at a second primary. *)
Scan(s, p, a) ==
  IF s.failed THEN s
  ELSE IF a.role = "primary" /\ s.primary # NoPod THEN [s EXCEPT !.failed = TRUE]
  ELSE [s EXCEPT !.primary = IF a.role = "primary" THEN p ELSE @,
                 !.epoch   = IF a.epoch > @ THEN a.epoch ELSE @]

(* Mutant: the status primary is not left out and a tie replaces the choice. *)
ConsiderAll(b, p, a) ==
  IF a.role = "" \/ oldest = 0 THEN b
  ELSE IF b.pod = NoPod \/ oldest >= b.update THEN [pod |-> p, update |-> oldest]
  ELSE b

(***************************************************************************)
(* One pass of selectFailoverCandidate, whose list of healthy standbys     *)
(* leaves the status primary out.  A standby without a time of last update *)
(* is skipped, and only a strictly later one replaces the choice.          *)
(***************************************************************************)
Consider(b, p, a) ==
  IF p = StatusPrimary \/ a.role = "" \/ oldest = 0 THEN b
  ELSE IF b.pod = NoPod \/ oldest > b.update THEN [pod |-> p, update |-> oldest]
  ELSE b

(* Mutant: the first standby is replaced by the last one. *)
PickLastStandby(k, p, a) ==
  IF a.role # "standby" THEN k
  ELSE [first  |-> p,
        pod    |-> IF oldest # 0 /\ (k.update = 0 \/ k.update < oldest) THEN p ELSE k.pod,
        update |-> IF oldest # 0 /\ (k.update = 0 \/ k.update < oldest) THEN oldest ELSE k.update]

(* One pass of PickNextPrimary. *)
Pick(k, p, a) ==
  IF a.role # "standby" THEN k
  ELSE LET newer == oldest # 0 /\ (k.update = 0 \/ k.update < oldest)
       IN  [first  |-> IF k.first = NoPod THEN p ELSE k.first,
            pod    |-> IF newer THEN p ELSE k.pod,
            update |-> IF newer THEN oldest ELSE k.update]

NextPod ==
  /\ i < N /\ j = D
  /\ scan' = Scan(scan, i, answers[i])
  /\ best' = Consider(best, i, answers[i])
  /\ pick' = Pick(pick, i, answers[i])
  /\ i' = i + 1
  /\ j' = 0
  /\ oldest' = 0
  /\ UNCHANGED answers

Next == NextDatabase \/ NextPod

Spec == Init /\ [][Next]_vars

-----------------------------------------------------------------------------
TypeOK ==
  /\ answers \in [Pods -> Answer]
  /\ i \in 0 .. N /\ j \in 0 .. D /\ oldest \in Times
  /\ scan \in [primary : Pods \cup {NoPod}, epoch : Nat, failed : BOOLEAN]
  /\ best \in [pod : Pods \cup {NoPod}, update : Times]
  /\ pick \in [first : Pods \cup {NoPod}, pod : Pods \cup {NoPod}, update : Times]

(* The freshness of a pod: its oldest update that is not NULL, 0 when it has none. *)
Freshness(p) ==
  LET valid == {answers[p].updates[d] : d \in 1 .. D} \ {0}
  IN  IF valid = {} THEN 0 ELSE Smallest(valid)

(***************************************************************************)
(* CurrentPrimaryAndEpoch returns the one pod that answered as primary and *)
(* the highest epoch of any answer, and fails exactly when no pod or more  *)
(* than one answered as primary.                                           *)
(***************************************************************************)
ScanFindsPrimary ==
  i = N =>
    CurrentPrimaryAndEpoch(answers) =
      IF scan.failed \/ scan.primary = NoPod
        THEN [ok |-> FALSE, primary |-> NoPod, epoch |-> -1]
        ELSE [ok |-> TRUE, primary |-> scan.primary, epoch |-> scan.epoch]

(***************************************************************************)
(* selectFailoverCandidate returns the freshest of the healthy standbys    *)
(* that answer, the lowest of them when several are as fresh.              *)
(***************************************************************************)
CandidateIsFreshest ==
  i = N =>
    best.pod = SelectFailoverCandidate(
                 {p \in Pods \ {StatusPrimary} : answers[p].role # ""},
                 [p \in Pods |-> Freshness(p)])

(***************************************************************************)
(* PickNextPrimary returns the freshest standby, or the first standby when *)
(* none has a time of last update.                                         *)
(***************************************************************************)
PickIsFreshest ==
  i = N => PickNextPrimary(answers, [p \in Pods |-> Freshness(p)])
             = IF pick.pod # NoPod THEN pick.pod ELSE pick.first
===========================================================================
