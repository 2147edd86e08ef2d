---------------------- MODULE PrimarySelectionProofs ----------------------
(***************************************************************************)
(* What the selection functions return, for every number of pods.  The     *)
(* maxima and minima they take exist because the sets are finite; that is  *)
(* derived here from the fact that < is well founded on the naturals.      *)
(***************************************************************************)
EXTENDS PrimarySelection, WellFoundedInduction, TLAPS

(***************************************************************************)
(* Every non-empty set of naturals has a least element.                    *)
(***************************************************************************)
LEMMA LeastNatural ==
  ASSUME NEW T \in SUBSET Nat, T # {}
  PROVE  \E x \in T : \A y \in T : x <= y
<1> DEFINE R == {ss \in Nat \X Nat : ss[1] < ss[2]}
<1>1. IsWellFoundedOn(R, Nat)
  BY NatLessThanWellFounded, Zenon DEF OpToRel
<1>2. \E x \in T : \A y \in T : ~(<<y, x>> \in R)
  <2> HIDE DEF R
  <2> QED BY <1>1, WFMin, Zenon
<1>3. PICK x \in T : \A y \in T : ~(<<y, x>> \in R)
  BY <1>2
<1>4. \A y \in T : ~(y < x)
  <2> TAKE y \in T
  <2>1. y \in Nat /\ x \in Nat
    OBVIOUS
  <2>2. <<y, x>> \notin R
    BY <1>3
  <2> QED BY <2>1, <2>2
<1> QED BY <1>4

(***************************************************************************)
(* Smallest picks the least element of a non-empty set of pods: a choice   *)
(* of the code's loops is always one of the pods they walked.              *)
(***************************************************************************)
LEMMA SmallestPod ==
  ASSUME NEW S \in SUBSET Pods, S # {}
  PROVE  Smallest(S) \in S /\ \A q \in S : Smallest(S) <= q
<1>1. S \in SUBSET Nat
  BY ReplicasAssumption DEF Pods
<1>2. \E m \in S : \A n \in S : m <= n
  BY <1>1, LeastNatural
<1> QED BY <1>2 DEF Smallest

(***************************************************************************)
(* A non-empty set of naturals with an upper bound has a greatest element, *)
(* and Largest picks it.                                                   *)
(***************************************************************************)
LEMMA LargestOfBounded ==
  ASSUME NEW S \in SUBSET Nat, S # {}, NEW b \in Nat, \A x \in S : x <= b
  PROVE  Largest(S) \in S /\ \A x \in S : x <= Largest(S)
<1> DEFINE T == {u \in Nat : \A x \in S : x <= u}
<1>1. T \in SUBSET Nat /\ T # {}
  OBVIOUS
<1>2. PICK m \in T : \A u \in T : m <= u
  <2> HIDE DEF T
  <2> QED BY <1>1, LeastNatural
<1>3. m \in S
  <2> SUFFICES ASSUME m \notin S PROVE FALSE
    OBVIOUS
  <2>1. \A x \in S : x < m
    BY <1>2
  <2>2. PICK x \in S : TRUE
    OBVIOUS
  <2>3. m - 1 \in Nat
    BY <2>1, <2>2
  <2>4. m - 1 \in T
    BY <2>1, <2>3
  <2> QED BY <1>2, <2>4
<1>4. \E k \in S : \A x \in S : x <= k
  BY <1>2, <1>3
<1> QED BY <1>4 DEF Largest

(***************************************************************************)
(* A function from the pods to the naturals has an upper bound.            *)
(***************************************************************************)
LEMMA PodsBounded ==
  ASSUME NEW f \in [Pods -> Nat]
  PROVE  \E b \in Nat : \A p \in Pods : f[p] <= b
<1> DEFINE Bounded(n) == \E b \in Nat : \A p \in 0 .. (n - 1) : f[p] <= b
           Bad == {n \in 0 .. N : ~Bounded(n)}
<1>1. SUFFICES Bad = {}
  <2>1. N \in 0 .. N
    BY ReplicasAssumption
  <2> QED BY <1>1, <2>1 DEF Pods
<1>2. SUFFICES ASSUME Bad # {} PROVE FALSE
  OBVIOUS
<1>3. PICK n \in Bad : \A k \in Bad : n <= k
  <2>1. Bad \in SUBSET Nat
    BY ReplicasAssumption
  <2> HIDE DEF Bad
  <2> QED BY <1>2, <2>1, LeastNatural
<1>4. n # 0
  BY <1>3, ReplicasAssumption
<1>5. n - 1 \in 0 .. N /\ n - 1 \notin Bad
  <2>1. n \in 0 .. N
    BY <1>3
  <2>2. n - 1 \in 0 .. N /\ ~(n <= n - 1)
    BY <2>1, <1>4, ReplicasAssumption
  <2> HIDE DEF Bad
  <2> QED BY <2>2, <1>3
<1>6. PICK b \in Nat : \A p \in 0 .. (n - 2) : f[p] <= b
  BY <1>5
<1>7. n - 1 \in Pods /\ f[n - 1] \in Nat
  BY <1>3, <1>4, ReplicasAssumption DEF Pods
<1>8. PICK c \in Nat : b <= c /\ f[n - 1] <= c
  BY <1>6, <1>7
<1>9. \A p \in 0 .. (n - 1) : f[p] <= c
  <2> TAKE p \in 0 .. (n - 1)
  <2>1. CASE p = n - 1
    BY <1>8, <2>1
  <2>2. CASE p # n - 1
    <3>1. p \in 0 .. (n - 2)
      BY <2>2, <1>3, ReplicasAssumption
    <3>2. f[p] \in Nat
      BY <3>1, <1>3, ReplicasAssumption DEF Pods
    <3> QED BY <1>6, <1>8, <3>1, <3>2
  <2> QED BY <2>1, <2>2
<1> QED BY <1>3, <1>8, <1>9

(***************************************************************************)
(* The largest of a number and the values of some pods: what the Status    *)
(* phase and CurrentPrimaryAndEpoch compute.                               *)
(***************************************************************************)
LEMMA LargestOfPods ==
  ASSUME NEW f \in [Pods -> Nat], NEW e \in Nat, NEW S \in SUBSET Pods
  PROVE  LET L == Largest({e} \cup {f[p] : p \in S})
         IN  L \in Nat /\ e <= L /\ \A p \in S : f[p] <= L
<1> DEFINE V == {e} \cup {f[p] : p \in S}
<1>1. PICK b \in Nat : \A p \in Pods : f[p] <= b
  BY PodsBounded
<1>2. PICK c \in Nat : b <= c /\ e <= c
  OBVIOUS
<1>3. V \in SUBSET Nat /\ V # {}
  OBVIOUS
<1>4. \A x \in V : x <= c
  BY <1>1, <1>2
<1>5. Largest(V) \in V /\ \A x \in V : x <= Largest(V)
  <2> HIDE DEF V
  <2> QED BY <1>3, <1>4, LargestOfBounded
<1> QED BY <1>3, <1>5

-----------------------------------------------------------------------------
(***************************************************************************)
(* CurrentPrimaryAndEpoch: when it succeeds, the pod it returns is the     *)
(* only one that answered as primary, and no answer is at a later epoch.   *)
(* The epoch of a switchover, one more, is new to every pod that answered. *)
(***************************************************************************)
THEOREM CurrentPrimaryAndEpochSound ==
  ASSUME NEW states \in [Pods -> [role : {"", "primary", "standby"}, epoch : Nat]],
         CurrentPrimaryAndEpoch(states).ok
  PROVE  LET r == CurrentPrimaryAndEpoch(states)
         IN  /\ r.primary \in Pods
             /\ \A p \in Pods : states[p].role = "primary" <=> p = r.primary
             /\ r.epoch \in Nat
             /\ \A p \in Pods : states[p].epoch <= r.epoch
<1> DEFINE r == CurrentPrimaryAndEpoch(states)
           f == [p \in Pods |-> states[p].epoch]
           c == CHOOSE p \in Pods : ReportedPrimaries(states) = {p}
<1>1. PrimaryIsUnambiguous(states)
  BY DEF CurrentPrimaryAndEpoch
<1>2. r = [ok |-> TRUE, primary |-> c, epoch |-> HighestEpoch(states)]
  BY <1>1, Zenon DEF CurrentPrimaryAndEpoch
<1>3. r.primary = c /\ r.epoch = HighestEpoch(states)
  <2> HIDE DEF r, c
  <2> QED BY <1>2
<1>4. c \in Pods /\ ReportedPrimaries(states) = {c}
  BY <1>1, Zenon DEF PrimaryIsUnambiguous
<1>5. \A p \in Pods : states[p].role = "primary" <=> p = c
  BY <1>4 DEF ReportedPrimaries
<1>6. f \in [Pods -> Nat] /\ \A p \in Pods : f[p] = states[p].epoch
  OBVIOUS
<1>7. HighestEpoch(states) = Largest({0} \cup {f[p] : p \in Pods})
  <2>1. {f[p] : p \in Pods} = {states[p].epoch : p \in Pods}
    BY <1>6
  <2> QED BY <2>1 DEF HighestEpoch
<1>8. HighestEpoch(states) \in Nat /\ \A p \in Pods : states[p].epoch <= HighestEpoch(states)
  <2> HIDE DEF f
  <2>1. LET L == Largest({0} \cup {f[p] : p \in Pods})
        IN  L \in Nat /\ 0 <= L /\ \A p \in Pods : f[p] <= L
    BY <1>6, LargestOfPods
  <2> QED BY <1>6, <1>7, <2>1
<1> HIDE DEF r, c, f
<1> QED BY <1>3, <1>4, <1>5, <1>8 DEF r

(***************************************************************************)
(* Freshest, and with it selectFailoverCandidate: the pod returned is a    *)
(* candidate that has replicated something, no candidate is fresher, and   *)
(* no candidate as fresh has a lower index.  None is returned only when no *)
(* candidate has replicated anything: an empty pod is never promoted while *)
(* one with data answers.                                                  *)
(***************************************************************************)
THEOREM FailoverCandidateSound ==
  ASSUME NEW C \in SUBSET Pods, NEW u \in [Pods -> Nat]
  PROVE  LET b == SelectFailoverCandidate(C, u)
         IN  \/ /\ b = NoPod
                /\ \A p \in C : u[p] = 0
             \/ /\ b \in C /\ u[b] > 0
                /\ \A p \in C : u[p] < u[b] \/ (u[p] = u[b] /\ b <= p)
<1> DEFINE E == {p \in C : u[p] > 0}
           M == {p \in E : \A q \in E : u[q] <= u[p]}
<1>1. SelectFailoverCandidate(C, u) = IF E = {} THEN NoPod ELSE Smallest(M)
  BY DEF SelectFailoverCandidate, Freshest
<1>2. CASE E = {}
  <2>1. \A p \in C : u[p] = 0
    BY <1>2
  <2> QED BY <1>1, <1>2, <2>1
<1>3. CASE E # {}
  <2> DEFINE V == {u[p] : p \in E}
  <2>1. V \in SUBSET Nat /\ V # {}
    BY <1>3
  <2>2. PICK b \in Nat : \A p \in Pods : u[p] <= b
    BY PodsBounded
  <2>3. \A x \in V : x <= b
    BY <2>2
  <2>4. Largest(V) \in V /\ \A x \in V : x <= Largest(V)
    <3> HIDE DEF V
    <3> QED BY <2>1, <2>3, LargestOfBounded
  <2>5. PICK p \in E : u[p] = Largest(V)
    BY <2>4
  <2>6. M \in SUBSET Pods /\ M # {}
    BY <2>4, <2>5
  <2>7. Smallest(M) \in M /\ \A q \in M : Smallest(M) <= q
    <3> HIDE DEF M
    <3> QED BY <2>6, SmallestPod
  <2> DEFINE s == Smallest(M)
  <2>8. s \in C /\ u[s] > 0
    BY <2>7
  <2>9. ASSUME NEW q \in C PROVE u[q] < u[s] \/ (u[q] = u[s] /\ s <= q)
    <3> HIDE DEF s
    <3>1. CASE q \in M
      BY <3>1, <2>7 DEF s
    <3>2. CASE q \notin E
      BY <3>2, <2>8
    <3>3. CASE q \in E /\ q \notin M
      <4>1. PICK x \in E : ~(u[x] <= u[q])
        BY <3>3
      <4>2. u[x] <= u[s]
        BY <2>7 DEF s
      <4> QED BY <4>1, <4>2, <2>8
    <3> QED BY <3>1, <3>2, <3>3
  <2> HIDE DEF M, E
  <2> QED BY <1>1, <1>3, <2>8, <2>9
<1> QED BY <1>2, <1>3
===========================================================================
