----------------------- MODULE SelectionLoopsProofs -----------------------
(***************************************************************************)
(* The loops that choose a primary compute the selections that Switchover  *)
(* uses, for any number of pods and databases and any answers.             *)
(***************************************************************************)
EXTENDS SelectionLoops, PrimarySelectionProofs

(***************************************************************************)
(* The loop invariants                                                     *)
(***************************************************************************)

(* The pods that the loops have passed. *)
Passed == {p \in Pods : p < i}

(* The inner loop has the oldest update of the databases it looked at. *)
OldestInv ==
  i < N =>
    LET updates == answers[i].updates IN
    \/ oldest = 0 /\ \A d \in 1 .. j : updates[d] = 0
    \/ /\ \E d \in 1 .. j : updates[d] = oldest
       /\ oldest # 0
       /\ \A d \in 1 .. j : updates[d] = 0 \/ oldest <= updates[d]

(* CurrentPrimaryAndEpoch has found two primaries ... *)
TwoPrimaries ==
  \E p, q \in Passed : p # q /\ answers[p].role = "primary" /\ answers[q].role = "primary"

(* ... or one at most, and the highest epoch so far. *)
PrimarySoFar ==
  /\ scan.primary # NoPod =>
       scan.primary \in Passed /\ answers[scan.primary].role = "primary"
  /\ \A p \in Passed : answers[p].role = "primary" => p = scan.primary
  /\ \A p \in Passed : answers[p].epoch <= scan.epoch
  /\ scan.epoch = 0 \/ \E p \in Passed : answers[p].epoch = scan.epoch

ScanInv == IF scan.failed THEN TwoPrimaries ELSE PrimarySoFar

(* b is the freshest pod of C and w how fresh it is, as FailoverCandidateSound says. *)
FreshestOf(C, b, w) ==
  \/ /\ b = NoPod /\ w = 0
     /\ \A p \in C : Freshness(p) = 0
  \/ /\ b \in C /\ w = Freshness(b) /\ w > 0
     /\ \A p \in C : Freshness(p) < w \/ (Freshness(p) = w /\ b <= p)

(* The pods that each selection considers. *)
Answering == {p \in Passed \ {StatusPrimary} : answers[p].role # ""}
Standbys  == {p \in Passed : answers[p].role = "standby"}

BestInv == FreshestOf(Answering, best.pod, best.update)

PickInv ==
  /\ FreshestOf(Standbys, pick.pod, pick.update)
  /\ pick.first = NoPod => Standbys = {}
  /\ pick.first # NoPod => pick.first \in Standbys /\ \A p \in Standbys : pick.first <= p

LoopInv == TypeOK /\ OldestInv /\ ScanInv /\ BestInv /\ PickInv

-----------------------------------------------------------------------------
(***************************************************************************)
(* Types                                                                   *)
(***************************************************************************)

(* What an answer holds. *)
LEMMA AnswerTypes ==
  ASSUME NEW a \in Answer
  PROVE  /\ a.role \in {"", "primary", "standby"}
         /\ a.epoch \in Nat
         /\ a.updates \in [1 .. D -> Times]
<1>1. NoAnswer.role = "" /\ NoAnswer.epoch = 0 /\ NoAnswer.updates \in [1 .. D -> Times]
  BY LoopsAssumption DEF NoAnswer, Times
<1>2. CASE a = NoAnswer
  <2>1. a.role = "" /\ a.epoch = 0 /\ a.updates \in [1 .. D -> Times]
    BY <1>1, <1>2, Zenon
  <2>2. 0 \in Nat
    OBVIOUS
  <2> QED BY <2>1, <2>2, Zenon
<1>3. CASE a \in [role : {"primary", "standby"}, epoch : 1 .. MaxEpochSeen,
                  updates : [1 .. D -> Times]]
  <2>1. /\ a.role \in {"primary", "standby"}
        /\ a.epoch \in 1 .. MaxEpochSeen
        /\ a.updates \in [1 .. D -> Times]
    BY <1>3, Zenon
  <2>2. 1 .. MaxEpochSeen \subseteq Nat
    BY LoopsAssumption
  <2> QED BY <2>1, <2>2, Zenon
<1> QED BY <1>2, <1>3 DEF Answer

(* The pods, and that none of them is NoPod. *)
LEMMA PodFacts ==
  /\ N \in Nat /\ NoPod \notin Pods /\ NoPod = -1
  /\ \A p \in Pods : p \in Nat /\ p < N
  /\ \A p \in 0 .. N : p < N => p \in Pods
BY ReplicasAssumption DEF Pods, NoPod

(* The initial states are of their types. *)
LEMMA TypeInit == Init => TypeOK
<1> SUFFICES ASSUME Init PROVE TypeOK
  OBVIOUS
<1>1. 0 \in 0 .. N /\ 0 \in 0 .. D /\ 0 \in Times
  BY ReplicasAssumption, LoopsAssumption DEF Times
<1> QED BY <1>1 DEF Init, TypeOK

(* Every pass of the loops keeps the types. *)
LEMMA TypeStep == TypeOK /\ [Next]_vars => TypeOK'
<1> SUFFICES ASSUME TypeOK, [Next]_vars PROVE TypeOK'
  OBVIOUS
<1>0. N \in Nat /\ D \in Nat /\ 0 \in Times /\ 0 \in 0 .. D
  BY ReplicasAssumption, LoopsAssumption DEF Times
<1>1. CASE NextDatabase
  <2>1. i \in Pods /\ j + 1 \in 1 .. D
    BY <1>0, <1>1, PodFacts DEF NextDatabase, TypeOK
  <2>2. answers[i].updates[j + 1] \in Times
    <3>1. answers[i] \in Answer
      BY <2>1 DEF TypeOK
    <3> QED BY <2>1, <3>1, AnswerTypes
  <2>3. oldest' \in Times
    BY <1>1, <2>2 DEF NextDatabase, Older, TypeOK
  <2> QED BY <1>1, <2>1, <2>3, <1>0 DEF NextDatabase, TypeOK
<1>2. CASE NextPod
  <2>1. i \in Pods /\ i + 1 \in 0 .. N
    BY <1>0, <1>2, PodFacts DEF NextPod, TypeOK
  <2>2. answers[i] \in Answer /\ answers[i].epoch \in Nat
    <3>1. answers[i] \in Answer
      BY <2>1 DEF TypeOK
    <3> QED BY <3>1, AnswerTypes
  <2>3. scan' \in [primary : Pods \cup {NoPod}, epoch : Nat, failed : BOOLEAN]
    BY <1>2, <2>1, <2>2 DEF NextPod, Scan, TypeOK
  <2>4. best' \in [pod : Pods \cup {NoPod}, update : Times]
    BY <1>2, <2>1 DEF NextPod, Consider, TypeOK
  <2>5. pick' \in [first : Pods \cup {NoPod}, pod : Pods \cup {NoPod}, update : Times]
    BY <1>2, <2>1 DEF NextPod, Pick, TypeOK
  <2> QED BY <1>0, <1>2, <2>1, <2>3, <2>4, <2>5 DEF NextPod, TypeOK
<1>3. CASE UNCHANGED vars
  BY <1>3 DEF vars, TypeOK
<1> QED BY <1>1, <1>2, <1>3 DEF Next

(***************************************************************************)
(* The loops' variables stay in their types: indices are those of pods and *)
(* databases, and a choice is a pod or none.                               *)
(***************************************************************************)
THEOREM TypeCorrect == Spec => []TypeOK
BY TypeInit, TypeStep, PTL DEF Spec

-----------------------------------------------------------------------------
(***************************************************************************)
(* The freshness of a pod                                                  *)
(***************************************************************************)

(* The least element of a set of naturals is its Smallest. *)
LEMMA SmallestIs ==
  ASSUME NEW S \in SUBSET Nat, NEW m \in S, \A n \in S : m <= n
  PROVE  Smallest(S) = m
<1>1. Smallest(S) \in S /\ \A n \in S : Smallest(S) <= n
  BY DEF Smallest
<1>2. m \in Nat /\ Smallest(S) \in Nat /\ m <= Smallest(S) /\ Smallest(S) <= m
  BY <1>1
<1> QED BY <1>2

(* Freshness is a time. *)
LEMMA FreshnessType ==
  ASSUME TypeOK, NEW p \in Pods
  PROVE  Freshness(p) \in Times /\ Freshness(p) \in Nat
<1> DEFINE valid == {answers[p].updates[d] : d \in 1 .. D} \ {0}
<1>1. answers[p].updates \in [1 .. D -> Times]
  BY AnswerTypes DEF TypeOK
<1>2. valid \subseteq Times /\ Times \subseteq Nat /\ 0 \in Times
  BY <1>1, LoopsAssumption DEF Times
<1>3. CASE valid = {}
  BY <1>2, <1>3 DEF Freshness
<1>4. CASE valid # {}
  <2>1. Smallest(valid) \in valid
    <3> HIDE DEF valid
    <3>1. \E m \in valid : \A n \in valid : m <= n
      BY <1>2, <1>4, LeastNatural
    <3> QED BY <3>1 DEF Smallest
  <2>2. Freshness(p) = Smallest(valid)
    BY <1>4 DEF Freshness
  <2> QED BY <1>2, <2>1, <2>2
<1> QED BY <1>3, <1>4

(* When the inner loop is done with a pod it has the pod's freshness. *)
LEMMA OldestIsFreshness ==
  ASSUME TypeOK, OldestInv, i < N, j = D
  PROVE  oldest = Freshness(i)
<1> DEFINE updates == answers[i].updates
           valid == {updates[d] : d \in 1 .. D} \ {0}
<1>1. updates \in [1 .. D -> Times] /\ Times \subseteq Nat
  <2>1. answers[i] \in Answer
    BY PodFacts DEF TypeOK
  <2>2. Times \subseteq Nat
    BY LoopsAssumption DEF Times
  <2> QED BY <2>1, <2>2, AnswerTypes, Zenon
<1>2. CASE oldest = 0 /\ \A d \in 1 .. D : updates[d] = 0
  <2>1. valid = {}
    BY <1>2
  <2> QED BY <1>2, <2>1 DEF Freshness
<1>3. CASE /\ \E d \in 1 .. D : updates[d] = oldest
           /\ oldest # 0
           /\ \A d \in 1 .. D : updates[d] = 0 \/ oldest <= updates[d]
  <2>1. valid \in SUBSET Nat /\ oldest \in valid /\ \A n \in valid : oldest <= n
    BY <1>1, <1>3
  <2>2. Smallest(valid) = oldest
    <3> HIDE DEF valid
    <3> QED BY <2>1, SmallestIs
  <2>3. Freshness(i) = Smallest(valid)
    BY <2>1 DEF Freshness
  <2> QED BY <2>2, <2>3
<1> QED BY <1>2, <1>3 DEF OldestInv

(* The answers are the input: they, and so freshness, do not change. *)
LEMMA InputStays ==
  ASSUME [Next]_vars
  PROVE  /\ answers' = answers
         /\ \A p : Freshness(p)' = Freshness(p)
         /\ \A C, b, w : FreshestOf(C, b, w)' <=> FreshestOf(C, b, w)
<1>1. answers' = answers
  BY DEF Next, NextDatabase, NextPod, vars
<1>2. \A p : Freshness(p)' = Freshness(p)
  BY <1>1 DEF Freshness, Smallest
<1> QED BY <1>1, <1>2 DEF FreshestOf

-----------------------------------------------------------------------------
(***************************************************************************)
(* The passes                                                              *)
(***************************************************************************)

(* The inner loop keeps the oldest update. *)
LEMMA OldestStep ==
  ASSUME LoopInv, NextDatabase
  PROVE  OldestInv'
<1> USE DEF LoopInv
<1> DEFINE updates == answers[i].updates
           u == updates[j + 1]
<1>1. /\ i < N /\ j < D /\ j \in Nat /\ D \in Nat /\ i' = i /\ answers' = answers
      /\ oldest \in Nat /\ oldest' = Older(u, oldest) /\ j' = j + 1
  BY LoopsAssumption DEF NextDatabase, TypeOK, Times
<1>2. \A d \in 1 .. D : updates[d] \in Nat
  <2>1. answers[i] \in Answer
    BY <1>1, PodFacts DEF TypeOK
  <2>2. Times \subseteq Nat
    BY LoopsAssumption DEF Times
  <2> QED BY <2>1, <2>2, AnswerTypes, Zenon
<1>3. u \in Nat
  BY <1>1, <1>2
<1>4. \A d : d \in 1 .. j' <=> d \in 1 .. j \/ d = j + 1
  BY <1>1
<1>5. oldest' = IF u # 0 /\ (oldest = 0 \/ u < oldest) THEN u ELSE oldest
  BY <1>1 DEF Older
<1>6. \A d \in 1 .. j : updates[d] \in Nat
  BY <1>1, <1>2
<1>7. \/ oldest = 0 /\ \A d \in 1 .. j : updates[d] = 0
      \/ /\ \E d \in 1 .. j : updates[d] = oldest
         /\ oldest # 0
         /\ \A d \in 1 .. j : updates[d] = 0 \/ oldest <= updates[d]
  BY <1>1 DEF OldestInv
<1> SUFFICES \/ oldest' = 0 /\ \A d \in 1 .. j' : updates[d] = 0
             \/ /\ \E d \in 1 .. j' : updates[d] = oldest'
                /\ oldest' # 0
                /\ \A d \in 1 .. j' : updates[d] = 0 \/ oldest' <= updates[d]
  BY <1>1 DEF OldestInv
<1>8. CASE oldest' = u /\ u # 0 /\ (oldest = 0 \/ u < oldest)
  <2>1. \E d \in 1 .. j' : updates[d] = oldest'
    BY <1>4, <1>8
  <2>2. ASSUME NEW d \in 1 .. j' PROVE updates[d] = 0 \/ oldest' <= updates[d]
    <3>1. CASE d = j + 1
      BY <1>3, <1>8, <3>1
    <3>2. CASE d \in 1 .. j
      BY <1>1, <1>3, <1>6, <1>7, <1>8, <3>2
    <3> QED BY <1>4, <3>1, <3>2
  <2> QED BY <1>8, <2>1, <2>2
<1>9. CASE oldest' = oldest /\ ~(u # 0 /\ (oldest = 0 \/ u < oldest))
  <2>1. CASE oldest = 0 /\ \A d \in 1 .. j : updates[d] = 0
    BY <1>4, <1>9, <2>1
  <2>2. CASE /\ \E d \in 1 .. j : updates[d] = oldest
             /\ oldest # 0
             /\ \A d \in 1 .. j : updates[d] = 0 \/ oldest <= updates[d]
    <3>1. u = 0 \/ oldest <= u
      BY <1>1, <1>3, <1>9, <2>2
    <3> QED BY <1>4, <1>9, <2>2, <3>1
  <2> QED BY <1>7, <2>1, <2>2
<1> QED BY <1>5, <1>8, <1>9

(* The pass over a pod adds it to those passed. *)
LEMMA PassedStep ==
  ASSUME TypeOK, NextPod
  PROVE  /\ i \in Pods /\ i \in Nat
         /\ Passed' = Passed \cup {i}
         /\ \A p \in Passed : p \in Pods /\ p \in Nat /\ p < i
         /\ i \notin Passed
<1>1. i \in Pods /\ i \in Nat /\ i' = i + 1
  BY PodFacts DEF NextPod, TypeOK
<1>2. \A p \in Pods : p \in Nat
  BY PodFacts
<1>3. \A p \in Pods : p < i + 1 <=> p < i \/ p = i
  BY <1>1, <1>2
<1>4. Passed' = {p \in Pods : p < i + 1}
  BY <1>1 DEF Passed
<1>5. Passed' = Passed \cup {i}
  BY <1>1, <1>3, <1>4 DEF Passed
<1>6. \A p \in Passed : p \in Pods /\ p \in Nat /\ p < i
  BY <1>2 DEF Passed
<1>7. i \notin Passed
  BY <1>1, <1>6
<1> QED BY <1>1, <1>5, <1>6, <1>7

(* The pass of CurrentPrimaryAndEpoch. *)
LEMMA ScanStep ==
  ASSUME LoopInv, NextPod
  PROVE  ScanInv'
<1> USE DEF LoopInv
<1> DEFINE a == answers[i]
<1>1. scan' = Scan(scan, i, a) /\ answers' = answers
  BY DEF NextPod
<1>2. /\ i \in Pods /\ i # NoPod /\ Passed' = Passed \cup {i} /\ i \notin Passed
      /\ NoPod \notin Passed
  BY PassedStep, PodFacts DEF Passed
<1>3. scan \in [primary : Pods \cup {NoPod}, epoch : Nat, failed : BOOLEAN]
  BY DEF TypeOK
<1>4. CASE scan.failed
  <2>1. scan' = scan
    BY <1>1, <1>4 DEF Scan
  <2>2. TwoPrimaries'
    BY <1>1, <1>2, <1>4 DEF ScanInv, TwoPrimaries
  <2> QED BY <1>4, <2>1, <2>2 DEF ScanInv
<1>5. CASE ~scan.failed /\ a.role = "primary" /\ scan.primary # NoPod
  <2>1. scan'.failed
    BY <1>1, <1>3, <1>5 DEF Scan
  <2>2. scan.primary \in Passed /\ answers[scan.primary].role = "primary"
    BY <1>5 DEF ScanInv, PrimarySoFar
  <2>3. TwoPrimaries'
    BY <1>1, <1>2, <1>5, <2>2 DEF TwoPrimaries
  <2> QED BY <2>1, <2>3 DEF ScanInv
<1>6. CASE ~scan.failed /\ ~(a.role = "primary" /\ scan.primary # NoPod)
  <2>1. /\ ~scan'.failed
        /\ scan'.primary = IF a.role = "primary" THEN i ELSE scan.primary
        /\ scan'.epoch = IF a.epoch > scan.epoch THEN a.epoch ELSE scan.epoch
    BY <1>1, <1>3, <1>6 DEF Scan
  <2>2. PrimarySoFar
    BY <1>6 DEF ScanInv
  <2>3. /\ scan.epoch \in Nat /\ a.epoch \in Nat
        /\ \A p \in Passed : answers[p].epoch \in Nat
    <3>1. \A p \in Pods : answers[p] \in Answer
      BY DEF TypeOK
    <3> QED BY <1>2, <1>3, <3>1, AnswerTypes DEF Passed
  <2>4. /\ \A p \in Passed' : answers[p].epoch <= scan'.epoch
        /\ scan'.epoch = 0 \/ \E p \in Passed' : answers[p].epoch = scan'.epoch
    BY <1>2, <2>1, <2>2, <2>3 DEF PrimarySoFar
  <2>5. /\ scan'.primary # NoPod =>
             scan'.primary \in Passed' /\ answers[scan'.primary].role = "primary"
        /\ \A p \in Passed' : answers[p].role = "primary" => p = scan'.primary
    BY <1>2, <1>6, <2>1, <2>2 DEF PrimarySoFar
  <2>6. PrimarySoFar'
    BY <1>1, <2>4, <2>5 DEF PrimarySoFar
  <2> QED BY <2>1, <2>6 DEF ScanInv
<1> QED BY <1>4, <1>5, <1>6

(***************************************************************************)
(* A later pod replaces the freshest so far if it is strictly fresher.     *)
(***************************************************************************)
LEMMA FreshestStep ==
  ASSUME TypeOK, NEW C \in SUBSET Pods, NEW b, NEW w, FreshestOf(C, b, w),
         NEW q \in Pods, \A p \in C : p < q
  PROVE  LET D1 == C \cup {q}
             f  == Freshness(q)
         IN  /\ f # 0 /\ (b = NoPod \/ w < f) => FreshestOf(D1, q, f)
             /\ f = 0 \/ ~(b = NoPod \/ w < f) => FreshestOf(D1, b, w)
             /\ b = NoPod <=> w = 0
<1> DEFINE f == Freshness(q)
<1>1. /\ \A p \in Pods : p \in Nat /\ Freshness(p) \in Nat
      /\ f \in Nat /\ NoPod \notin Pods
  BY FreshnessType, PodFacts
<1>2. b = NoPod \/ b \in C
  BY DEF FreshestOf
<1>3. w \in Nat /\ (b = NoPod <=> w = 0)
  BY <1>1 DEF FreshestOf
<1>4. ASSUME f # 0, b = NoPod \/ w < f
      PROVE  FreshestOf(C \cup {q}, q, f)
  <2>1. \A p \in C : Freshness(p) < f
    BY <1>1, <1>3, <1>4 DEF FreshestOf
  <2> QED BY <1>1, <1>4, <2>1 DEF FreshestOf
<1>5. ASSUME f = 0 \/ ~(b = NoPod \/ w < f)
      PROVE  FreshestOf(C \cup {q}, b, w)
  <2>1. CASE b = NoPod
    BY <1>5, <2>1, <1>3, <1>1 DEF FreshestOf
  <2>2. CASE b \in C
    <3>1. w = Freshness(b) /\ w > 0 /\ b < q
      BY <1>1, <2>2 DEF FreshestOf
    <3>2. f < w \/ (f = w /\ b <= q)
      BY <1>1, <1>3, <1>5, <2>2, <3>1
    <3> QED BY <1>1, <2>2, <3>1, <3>2 DEF FreshestOf
  <2> QED BY <1>2, <2>1, <2>2
<1> QED BY <1>3, <1>4, <1>5

(* The pass of selectFailoverCandidate. *)
LEMMA BestStep ==
  ASSUME LoopInv, NextPod
  PROVE  BestInv'
<1> USE DEF LoopInv
<1>1. /\ answers' = answers /\ best' = Consider(best, i, answers[i]) /\ i < N /\ j = D
      /\ Next
  BY DEF NextPod, Next
<1>2. /\ i \in Pods /\ Passed' = Passed \cup {i} /\ Passed \subseteq Pods
      /\ \A p \in Passed : p < i
  BY PassedStep DEF Passed
<1>3. oldest = Freshness(i)
  BY <1>1, OldestIsFreshness
<1>4. best \in [pod : Pods \cup {NoPod}, update : Times]
  BY DEF TypeOK
<1>5. FreshestOf(Answering, best.pod, best.update)
  BY DEF BestInv
<1>6. Answering \in SUBSET Pods /\ \A p \in Answering : p < i
  BY <1>2 DEF Answering
<1>7. SUFFICES FreshestOf(Answering', best'.pod, best'.update)
  BY <1>1, InputStays DEF BestInv, FreshestOf
<1>8. CASE i = StatusPrimary \/ answers[i].role = ""
  <2>1. Answering' = Answering
    BY <1>1, <1>2, <1>8 DEF Answering
  <2>2. best' = best
    BY <1>1, <1>8 DEF Consider
  <2> QED BY <1>5, <2>1, <2>2
<1>9. CASE ~(i = StatusPrimary \/ answers[i].role = "")
  <2>1. Answering' = Answering \cup {i}
    BY <1>1, <1>2, <1>9 DEF Answering
  <2>2. CASE oldest # 0 /\ (best.pod = NoPod \/ best.update < oldest)
    <3>1. best'.pod = i /\ best'.update = oldest
      BY <1>1, <1>9, <2>2, <1>4, LoopsAssumption DEF Consider, Times, TypeOK
    <3>2. FreshestOf(Answering \cup {i}, i, Freshness(i))
      BY <1>2, <1>3, <1>5, <1>6, <2>2, FreshestStep
    <3> QED BY <1>3, <2>1, <3>1, <3>2
  <2>3. CASE ~(oldest # 0 /\ (best.pod = NoPod \/ best.update < oldest))
    <3>1. best' = best
      BY <1>1, <1>9, <2>3, <1>4, LoopsAssumption DEF Consider, Times, TypeOK
    <3> QED BY <1>2, <1>3, <1>5, <1>6, <2>1, <2>3, <3>1, FreshestStep
  <2> QED BY <2>2, <2>3
<1> QED BY <1>8, <1>9

(* The pass of PickNextPrimary. *)
LEMMA PickStep ==
  ASSUME LoopInv, NextPod
  PROVE  PickInv'
<1> USE DEF LoopInv
<1>1. /\ answers' = answers /\ pick' = Pick(pick, i, answers[i]) /\ i < N /\ j = D
      /\ Next
  BY DEF NextPod, Next
<1>2. /\ i \in Pods /\ i \in Nat /\ Passed' = Passed \cup {i} /\ Passed \subseteq Pods
      /\ \A p \in Passed : p < i /\ p \in Nat
      /\ NoPod \notin Pods
  BY PassedStep, PodFacts DEF Passed
<1>3. oldest = Freshness(i)
  BY <1>1, OldestIsFreshness
<1>4. pick \in [first : Pods \cup {NoPod}, pod : Pods \cup {NoPod}, update : Times]
  BY DEF TypeOK
<1>5. FreshestOf(Standbys, pick.pod, pick.update)
  BY DEF PickInv
<1>6. Standbys \in SUBSET Pods /\ \A p \in Standbys : p < i /\ p \in Nat
  BY <1>2 DEF Standbys
<1>7. SUFFICES /\ FreshestOf(Standbys', pick'.pod, pick'.update)
               /\ pick'.first = NoPod => Standbys' = {}
               /\ pick'.first # NoPod =>
                    pick'.first \in Standbys' /\ \A p \in Standbys' : pick'.first <= p
  BY <1>1, InputStays DEF PickInv, FreshestOf
<1>8. CASE answers[i].role # "standby"
  <2>1. Standbys' = Standbys
    BY <1>1, <1>2, <1>8 DEF Standbys
  <2>2. pick' = pick
    BY <1>1, <1>8 DEF Pick
  <2> QED BY <1>5, <2>1, <2>2 DEF PickInv
<1>9. CASE answers[i].role = "standby"
  <2> DEFINE newer == oldest # 0 /\ (pick.update = 0 \/ pick.update < oldest)
  <2>1. Standbys' = Standbys \cup {i}
    BY <1>1, <1>2, <1>9 DEF Standbys
  <2>2. /\ pick'.first = IF pick.first = NoPod THEN i ELSE pick.first
        /\ pick'.pod = IF newer THEN i ELSE pick.pod
        /\ pick'.update = IF newer THEN oldest ELSE pick.update
    BY <1>1, <1>9 DEF Pick
  <2>3. pick.pod = NoPod <=> pick.update = 0
    BY <1>2, <1>5, <1>6, FreshestStep
  <2>4. FreshestOf(Standbys', pick'.pod, pick'.update)
    <3>1. CASE newer
      BY <1>2, <1>3, <1>5, <1>6, <2>1, <2>2, <2>3, <3>1, FreshestStep
    <3>2. CASE ~newer
      BY <1>2, <1>3, <1>5, <1>6, <2>1, <2>2, <2>3, <3>2, FreshestStep
    <3> QED BY <3>1, <3>2
  <2>5. CASE pick.first = NoPod
    <3>1. Standbys = {}
      BY <2>5 DEF PickInv
    <3> QED BY <1>2, <2>1, <2>2, <2>4, <2>5, <3>1
  <2>6. CASE pick.first # NoPod
    <3>1. pick.first \in Standbys /\ \A p \in Standbys : pick.first <= p
      BY <2>6 DEF PickInv
    <3>2. pick.first <= i
      <4>1. pick.first \in Nat /\ pick.first < i /\ i \in Nat
        BY <1>2, <1>6, <3>1
      <4> QED BY <4>1
    <3> QED BY <2>1, <2>2, <2>4, <2>6, <3>1, <3>2
  <2> QED BY <2>5, <2>6
<1> QED BY <1>8, <1>9

(* The loops begin with nothing passed. *)
LEMMA LoopInit == Init => LoopInv
<1> SUFFICES ASSUME Init PROVE LoopInv
  OBVIOUS
<1>1. Passed = {} /\ Answering = {} /\ Standbys = {}
  <2>1. \A p \in Pods : ~(p < 0)
    BY PodFacts
  <2>2. i = 0
    BY DEF Init
  <2> QED BY <2>1, <2>2 DEF Passed, Answering, Standbys
<1>2. OldestInv
  BY DEF Init, OldestInv
<1>3. ScanInv
  BY <1>1 DEF Init, ScanInv, PrimarySoFar
<1>4. BestInv /\ PickInv
  BY <1>1 DEF Init, BestInv, PickInv, FreshestOf
<1> QED BY <1>2, <1>3, <1>4, TypeInit DEF LoopInv

(* A pass over a database leaves the outer loops alone. *)
LEMMA OuterLoopsStay ==
  ASSUME LoopInv, answers' = answers, UNCHANGED <<i, scan, best, pick>>, [Next]_vars
  PROVE  ScanInv' /\ BestInv' /\ PickInv'
<1>1. Passed' = Passed /\ Answering' = Answering /\ Standbys' = Standbys
  BY DEF Passed, Answering, Standbys
<1>2. ScanInv'
  BY <1>1 DEF LoopInv, ScanInv, TwoPrimaries, PrimarySoFar
<1>3. BestInv'
  BY <1>1, InputStays DEF LoopInv, BestInv, FreshestOf
<1>4. PickInv'
  BY <1>1, InputStays DEF LoopInv, PickInv, FreshestOf
<1> QED BY <1>2, <1>3, <1>4

(* The invariant is kept by every pass. *)
LEMMA LoopStep == LoopInv /\ [Next]_vars => LoopInv'
<1> SUFFICES ASSUME LoopInv, [Next]_vars PROVE LoopInv'
  OBVIOUS
<1>0. TypeOK'
  BY TypeStep DEF LoopInv
<1>1. CASE NextDatabase
  BY <1>0, <1>1, OldestStep, OuterLoopsStay DEF NextDatabase, LoopInv
<1>2. CASE NextPod
  <2>1. OldestInv'
    BY <1>2 DEF NextPod, OldestInv
  <2> QED BY <1>0, <1>2, <2>1, ScanStep, BestStep, PickStep DEF LoopInv
<1>3. CASE UNCHANGED vars
  <2>1. OldestInv'
    BY <1>3 DEF vars, OldestInv, LoopInv
  <2> QED BY <1>0, <1>3, <2>1, OuterLoopsStay DEF vars, LoopInv
<1> QED BY <1>1, <1>2, <1>3 DEF Next

(* So it holds after every pass. *)
LEMMA LoopInvariant == Spec => []LoopInv
BY LoopInit, LoopStep, PTL DEF Spec

-----------------------------------------------------------------------------
(***************************************************************************)
(* What the loops return                                                   *)
(***************************************************************************)

(* At the end all pods have been passed. *)
LEMMA AllPassed ==
  ASSUME i = N
  PROVE  /\ Passed = Pods
         /\ Answering = {p \in Pods \ {StatusPrimary} : answers[p].role # ""}
         /\ Standbys = {p \in Pods : answers[p].role = "standby"}
<1>1. Passed = Pods
  BY PodFacts DEF Passed
<1> QED BY <1>1 DEF Answering, Standbys

(* The largest of a set of naturals with a greatest element. *)
LEMMA LargestIs ==
  ASSUME NEW S \in SUBSET Nat, NEW m \in S, \A n \in S : n <= m
  PROVE  Largest(S) = m
<1>1. Largest(S) \in S /\ \A n \in S : n <= Largest(S)
  BY DEF Largest
<1>2. m \in Nat /\ Largest(S) \in Nat /\ m <= Largest(S) /\ Largest(S) <= m
  BY <1>1
<1> QED BY <1>2

(* The scan's result is the declarative one. *)
LEMMA ScanResult ==
  ASSUME LoopInv, i = N
  PROVE  CurrentPrimaryAndEpoch(answers) =
           IF scan.failed \/ scan.primary = NoPod
             THEN [ok |-> FALSE, primary |-> NoPod, epoch |-> -1]
             ELSE [ok |-> TRUE, primary |-> scan.primary, epoch |-> scan.epoch]
<1>0. Passed = Pods /\ NoPod \notin Pods
  BY AllPassed, PodFacts
<1>1. CASE scan.failed
  <2>1. ~PrimaryIsUnambiguous(answers)
    BY <1>0, <1>1 DEF LoopInv, ScanInv, TwoPrimaries, PrimaryIsUnambiguous, ReportedPrimaries
  <2> QED BY <1>1, <2>1 DEF CurrentPrimaryAndEpoch
<1>2. CASE ~scan.failed /\ scan.primary = NoPod
  <2>1. ReportedPrimaries(answers) = {}
    BY <1>0, <1>2 DEF LoopInv, ScanInv, PrimarySoFar, ReportedPrimaries
  <2>2. ~PrimaryIsUnambiguous(answers)
    BY <2>1 DEF PrimaryIsUnambiguous
  <2> QED BY <1>2, <2>2 DEF CurrentPrimaryAndEpoch
<1>3. CASE ~scan.failed /\ scan.primary # NoPod
  <2>1. PrimarySoFar
    BY <1>3 DEF LoopInv, ScanInv
  <2>2. scan.primary \in Pods /\ ReportedPrimaries(answers) = {scan.primary}
    BY <1>0, <1>3, <2>1 DEF PrimarySoFar, ReportedPrimaries
  <2>3. PrimaryIsUnambiguous(answers)
    BY <2>2 DEF PrimaryIsUnambiguous
  <2>4. (CHOOSE p \in Pods : ReportedPrimaries(answers) = {p}) = scan.primary
    BY <2>2
  <2>5. HighestEpoch(answers) = scan.epoch
    <3> DEFINE V == {0} \cup {answers[p].epoch : p \in Pods}
    <3>1. scan.epoch \in Nat /\ \A p \in Pods : answers[p].epoch \in Nat
      BY AnswerTypes DEF LoopInv, TypeOK
    <3>2. V \in SUBSET Nat /\ scan.epoch \in V /\ \A n \in V : n <= scan.epoch
      BY <1>0, <2>1, <3>1 DEF PrimarySoFar
    <3>3. Largest(V) = scan.epoch
      <4> HIDE DEF V
      <4> QED BY <3>2, LargestIs
    <3> QED BY <3>3 DEF HighestEpoch
  <2> QED BY <1>3, <2>3, <2>4, <2>5 DEF CurrentPrimaryAndEpoch
<1> QED BY <1>1, <1>2, <1>3

(***************************************************************************)
(* CurrentPrimaryAndEpoch: the pass over the pods, which stops at a second *)
(* primary, returns the one pod that answered as primary with the highest  *)
(* epoch of all answers, or fails exactly when there is no such pod.       *)
(***************************************************************************)
THEOREM ScanIsCurrentPrimaryAndEpoch == Spec => []ScanFindsPrimary
<1>1. LoopInv => ScanFindsPrimary
  BY ScanResult DEF ScanFindsPrimary
<1> QED BY <1>1, LoopInvariant, PTL

(* Only one pod can be the freshest of a set, and Freshest is that pod. *)
LEMMA FreshestIs ==
  ASSUME TypeOK, NEW C \in SUBSET Pods, NEW b, NEW w, FreshestOf(C, b, w)
  PROVE  Freshest(C, [p \in Pods |-> Freshness(p)]) = b
<1> DEFINE u == [p \in Pods |-> Freshness(p)]
           c == SelectFailoverCandidate(C, u)
<1>1. /\ u \in [Pods -> Nat]
      /\ \A p \in Pods : u[p] = Freshness(p) /\ u[p] \in Nat /\ p \in Nat
      /\ NoPod \notin Pods
  BY FreshnessType, PodFacts
<1>2. \/ /\ c = NoPod
         /\ \A p \in C : u[p] = 0
      \/ /\ c \in C /\ u[c] > 0
         /\ \A p \in C : u[p] < u[c] \/ (u[p] = u[c] /\ c <= p)
  <2> HIDE DEF u
  <2> QED BY <1>1, FailoverCandidateSound
<1>3. c = b
  <2> HIDE DEF u, c
  <2>1. \/ /\ b = NoPod
           /\ \A p \in C : u[p] = 0
        \/ /\ b \in C /\ u[b] > 0
           /\ \A p \in C : u[p] < u[b] \/ (u[p] = u[b] /\ b <= p)
    BY <1>1 DEF FreshestOf
  <2>2. CASE b \in C /\ c \in C
    <3>1. u[b] \in Nat /\ u[c] \in Nat /\ b \in Nat /\ c \in Nat
      BY <1>1, <2>2
    <3>2. u[c] < u[b] \/ (u[c] = u[b] /\ b <= c)
      BY <1>1, <2>1, <2>2
    <3>3. u[b] < u[c] \/ (u[b] = u[c] /\ c <= b)
      BY <1>1, <1>2, <2>2
    <3> QED BY <3>1, <3>2, <3>3
  <2>3. CASE b = NoPod /\ c = NoPod
    BY <2>3
  <2>4. CASE b = NoPod /\ c \in C
    BY <1>1, <1>2, <2>1, <2>4
  <2>5. CASE b \in C /\ c = NoPod
    BY <1>1, <1>2, <2>1, <2>5
  <2> QED BY <1>2, <2>1, <2>2, <2>3, <2>4, <2>5
<1> QED BY <1>3 DEF SelectFailoverCandidate

(***************************************************************************)
(* selectFailoverCandidate: the pass over the standbys that answer returns *)
(* the freshest of them, the first when several are as fresh; a pod's      *)
(* freshness is the oldest update of its databases, NULLs left out.        *)
(***************************************************************************)
THEOREM LoopSelectsFreshestCandidate == Spec => []CandidateIsFreshest
<1>1. LoopInv => CandidateIsFreshest
  <2> SUFFICES ASSUME LoopInv, i = N
               PROVE  best.pod = SelectFailoverCandidate(
                                   {p \in Pods \ {StatusPrimary} : answers[p].role # ""},
                                   [p \in Pods |-> Freshness(p)])
    BY DEF CandidateIsFreshest
  <2>1. Answering = {p \in Pods \ {StatusPrimary} : answers[p].role # ""}
    BY AllPassed
  <2>2. Answering \in SUBSET Pods
    BY DEF Answering, Passed
  <2>3. Freshest(Answering, [p \in Pods |-> Freshness(p)]) = best.pod
    BY <2>2, FreshestIs DEF LoopInv, BestInv
  <2> QED BY <2>1, <2>3 DEF SelectFailoverCandidate
<1> QED BY <1>1, LoopInvariant, PTL

(***************************************************************************)
(* PickNextPrimary: the pass over the pods returns the freshest standby,   *)
(* or the first standby when none has a time of last update.               *)
(***************************************************************************)
THEOREM LoopPicksFreshestStandby == Spec => []PickIsFreshest
<1>1. LoopInv => PickIsFreshest
  <2> SUFFICES ASSUME LoopInv, i = N
               PROVE  PickNextPrimary(answers, [p \in Pods |-> Freshness(p)])
                        = IF pick.pod # NoPod THEN pick.pod ELSE pick.first
    BY DEF PickIsFreshest
  <2> DEFINE u == [p \in Pods |-> Freshness(p)]
  <2>1. Standbys = {p \in Pods : answers[p].role = "standby"}
    BY AllPassed
  <2>2. Standbys \in SUBSET Nat /\ Standbys \in SUBSET Pods
    BY PodFacts DEF Standbys, Passed
  <2>3. Freshest(Standbys, u) = pick.pod
    BY <2>2, FreshestIs DEF LoopInv, PickInv
  <2>4. PickNextPrimary(answers, u) =
          IF pick.pod # NoPod THEN pick.pod
          ELSE IF Standbys = {} THEN NoPod ELSE Smallest(Standbys)
    <3> HIDE DEF u
    <3> QED BY <2>1, <2>3 DEF PickNextPrimary
  <2>5. pick.first = IF Standbys = {} THEN NoPod ELSE Smallest(Standbys)
    <3>1. CASE pick.first = NoPod
      BY <3>1 DEF LoopInv, PickInv
    <3>2. CASE pick.first # NoPod
      <4>1. pick.first \in Standbys /\ \A p \in Standbys : pick.first <= p
        BY <3>2 DEF LoopInv, PickInv
      <4> QED BY <2>2, <4>1, SmallestIs
    <3> QED BY <3>1, <3>2
  <2> QED BY <2>4, <2>5
<1> QED BY <1>1, LoopInvariant, PTL

===========================================================================
