--------------------------- MODULE ServiceProofs ----------------------------
(***************************************************************************)
(* Proofs about the execution algorithms, the operations layer, the paper  *)
(* account and the decision pipeline, for every set of parents, every      *)
(* volume profile, every limit of the monitor and of the breaker, every    *)
(* deposit, price and order size, and every set of instruments, store of   *)
(* forecasts, ensemble and exposure limit.                                 *)
(***************************************************************************)
EXTENDS AlgoExecution, Operations, PaperVenue, DecisionPipeline, SumLemmas, SequenceTheorems

-----------------------------------------------------------------------------
(***************************************************************************)
(* AlgoExecution.  Of a parent none of whose children was filled in parts, *)
(* at most one child rests: the last one sent, which its plan waits for    *)
(* unless it is closed and the cancel was refused, and no larger than what *)
(* is left of the parent.  Every algorithm sizes the next child within     *)
(* what is left, whatever the profile or the volume.                       *)
(***************************************************************************)

Plans == [algo: Algos, qty: Nat \ {0}, filled: Nat, sent: Nat, child: Nat,
          state: {"pending", "working"} \cup TerminalPlans]
ChildRecords == [qty: Nat, left: Nat, rests: BOOLEAN, parts: BOOLEAN, kept: BOOLEAN]

AlgoTypeOK ==
  /\ algoNow \in Nat
  /\ plans \in [DOMAIN plans -> Plans]
  /\ children \in [DOMAIN children -> ChildRecords]
  /\ \A c \in DOMAIN children :
       c = <<c[1], c[2]>> /\ c[1] \in DOMAIN plans /\ c[2] \in 1..plans[c[1]].sent

\* None of the parent's children was ever filled in parts.
Whole(p) == \A c \in DOMAIN children : c[1] = p => ~children[c].parts

\* What rests of a parent is its last child, within what is left, for which a plan
\* that is not closed waits.
ParentSound(p) ==
  /\ plans[p].filled <= plans[p].qty
  /\ \A c \in DOMAIN children : c[1] = p /\ children[c].rests =>
       /\ c[2] = plans[p].sent
       /\ IF plans[p].state \in TerminalPlans THEN children[c].kept ELSE c[2] = plans[p].child
       /\ children[c].left <= plans[p].qty - plans[p].filled

AlgoInv == AlgoTypeOK /\ \A p \in DOMAIN plans : Whole(p) => ParentSound(p)

-----------------------------------------------------------------------------
(***************************************************************************)
(* A profile with one positive weight has a positive total.                *)
(***************************************************************************)
LEMMA TotalIsPositive ==
  ASSUME NEW w, w \in Seq(Nat), \E i \in DOMAIN w : w[i] > 0
  PROVE  TotalWeight(w) \in Nat \ {0}
<1>1. PICK i \in DOMAIN w : w[i] > 0
  OBVIOUS
<1>2. IsFiniteSet(DOMAIN w) /\ \A k \in DOMAIN w : w[k] \in Nat
  <2>1. DOMAIN w = 1..Len(w) /\ Len(w) \in Int
    OBVIOUS
  <2>2. IsFiniteSet(DOMAIN w)
    BY <2>1, FS_Interval, 1 \in Int
  <2>3. \A k \in DOMAIN w : w[k] \in Nat
    OBVIOUS
  <2> QED
    BY <2>2, <2>3
<1>3. IsFiniteSet(DOMAIN w \ {i})
  BY <1>2, FS_Subset
<1>4. SumFunctionOnSet(w, DOMAIN w \ {i}) \in Nat
  BY <1>2, <1>3, SumNotNegative
<1>5. SumFunctionOnSet(w, DOMAIN w) = w[i] + SumFunctionOnSet(w, DOMAIN w \ {i})
  BY <1>2, SumTakingAny
<1> QED
  BY <1>1, <1>2, <1>4, <1>5 DEF TotalWeight, SumFunction

(***************************************************************************)
(* Every algorithm's schedule has slices, of which one weighs something.   *)
(***************************************************************************)
LEMMA WeightsArePositive ==
  ASSUME NEW algo
  PROVE  /\ Weights(algo) \in Seq(Nat)
         /\ Len(Weights(algo)) \in Nat \ {0}
         /\ \E i \in DOMAIN Weights(algo) : Weights(algo)[i] > 0
<1>1. CASE algo = "vwap"
  BY <1>1, AlgoBounds DEF Weights
<1>2. CASE algo \in {"twap", "adaptive"}
  <2> DEFINE w == [i \in 1..TwapSlices |-> 1]
  <2>1. w \in Seq(Nat) /\ Len(w) \in Nat \ {0} /\ 1 \in DOMAIN w /\ w[1] > 0
    BY AlgoBounds
  <2>2. Weights(algo) = w
    BY <1>2 DEF Weights
  <2> HIDE DEF w
  <2> QED
    BY <2>1, <2>2
<1>3. CASE algo \notin {"vwap", "twap", "adaptive"}
  <2>1. Weights(algo) = <<1>>
    BY <1>3 DEF Weights
  <2> QED
    BY <2>1
<1> QED
  BY <1>1, <1>2, <1>3

(* Every instant of the window is in a slice. *)
LEMMA SliceFound ==
  ASSUME NEW w, w \in Seq(Nat), Len(w) \in Nat \ {0}, NEW t \in Nat, t < WindowEnd
  PROVE  \E k \in DOMAIN w : SliceBegin(w, k) <= t /\ t < SliceEnd(w, k)
<1> DEFINE n == Len(w)
           d == WindowEnd \div Len(w)
<1>1. n \in Nat \ {0} /\ d \in Nat /\ DOMAIN w = 1..n /\ WindowEnd \in Nat
  <2>1. n \in Nat \ {0} /\ DOMAIN w = 1..n /\ WindowEnd \in Nat
    BY AlgoBounds
  <2> HIDE DEF n
  <2>2. WindowEnd \div n \in Nat
    BY <2>1, SMTT(20)
  <2> QED
    BY <2>1, <2>2 DEF n
<1>2. \A k \in 1..n : SliceBegin(w, k) = d * (k - 1)
  BY DEF SliceBegin
<1>3. \A k \in 1..n : SliceEnd(w, k) = IF k = n THEN WindowEnd ELSE d * k
  BY DEF SliceEnd
<1> HIDE DEF n, d
<1>4. CASE d * (n - 1) <= t
  <2>1. n \in 1..n /\ SliceBegin(w, n) <= t /\ t < SliceEnd(w, n)
    BY <1>1, <1>2, <1>3, <1>4
  <2> QED
    BY <1>1, <2>1
<1>5. CASE ~(d * (n - 1) <= t)
  <2> DEFINE k == t \div d
             c == d * k
  <2>1. d > 0
    BY <1>1, <1>5, SMTT(20)
  <2>2. t = c + (t % d) /\ t % d \in 0..(d - 1) /\ k \in Int
    <3>1. d \in Nat \ {0} /\ t \in Int
      BY <1>1, <2>1
    <3>2. t % d \in 0..(d - 1) /\ t = d * (t \div d) + (t % d)
      BY <3>1, Division
    <3>3. t \div d \in Int
      BY <3>1
    <3> QED
      BY <3>2, <3>3
  <2>3. d * (k + 1) = c + d /\ c \in Int
    BY <1>1, <2>2
  <2>4. k >= 0
    BY <1>1, <2>1, <2>2, SMTT(20)
  <2>5. k + 1 < n
    <3>1. CASE k + 1 >= n
      <4>1. k >= n - 1
        BY <1>1, <2>2, <3>1
      <4>2. d * k >= d * (n - 1)
        BY <1>1, <2>2, <4>1, SMTT(20)
      <4> QED
        BY <1>1, <1>5, <2>2, <2>3, <4>2
    <3> QED
      BY <1>1, <2>2, <3>1
  <2> HIDE DEF k
  <2>6. k + 1 \in 1..n /\ k + 1 # n /\ (k + 1) - 1 = k
    BY <1>1, <2>2, <2>4, <2>5
  <2>7. SliceBegin(w, k + 1) = d * k /\ SliceEnd(w, k + 1) = d * (k + 1)
    BY <1>2, <1>3, <2>6
  <2>8. SliceBegin(w, k + 1) <= t /\ t < SliceEnd(w, k + 1)
    <3> HIDE DEF c
    <3>1. SliceBegin(w, k + 1) = c /\ SliceEnd(w, k + 1) = c + d
      BY <2>3, <2>7 DEF c
    <3> QED
      BY <1>1, <2>2, <2>3, <3>1
  <2> QED
    BY <1>1, <2>6, <2>8
<1> QED
  BY <1>1, <1>4, <1>5

-----------------------------------------------------------------------------
(* The least element of a set that is built up one integer at a time. *)
LEMMA LeastOfOne == ASSUME NEW x \in Int PROVE \E l \in {x} : \A y \in {x} : l <= y
BY SMT

(***************************************************************************)
(* and so has a set with one number more.                                  *)
(***************************************************************************)
LEMMA LeastWithOneMore ==
  ASSUME NEW S, S \subseteq Int, NEW x \in Int, \E l \in S : \A y \in S : l <= y
  PROVE  \E l \in S \cup {x} : \A y \in S \cup {x} : l <= y
<1>1. PICK l \in S : \A y \in S : l <= y
  OBVIOUS
<1>2. CASE l <= x
  BY <1>1, <1>2
<1>3. CASE ~(l <= x)
  <2>1. l \in Int /\ x <= l
    BY <1>1, <1>3
  <2>2. \A y \in S : x <= y
    BY <1>1, <2>1
  <2> QED
    BY <2>2
<1> QED
  BY <1>2, <1>3

(***************************************************************************)
(* The minimum of a set with a least number is that number.                *)
(***************************************************************************)
LEMMA MinIsLeast ==
  ASSUME NEW S, \E l \in S : \A y \in S : l <= y
  PROVE  Min(S) \in S /\ \A y \in S : Min(S) <= y
BY DEF Min

(* A minimum over a set that holds left is an integer of at most left. *)
LEMMA MinAtMost ==
  ASSUME NEW a \in Int, NEW left \in Int, NEW b \in Int, NEW c \in Int,
         NEW B, B \in {{}, {b}}, NEW C, C \in {{}, {c}}
  PROVE  Min({a, left} \cup B \cup C) \in Int /\ Min({a, left} \cup B \cup C) <= left
<1> DEFINE S0 == {a, left}
           S1 == S0 \cup B
           S == S1 \cup C
<1>1. \E l \in S0 : \A y \in S0 : l <= y
  <2>1. {a} \cup {left} = S0
    OBVIOUS
  <2> QED
    BY <2>1, LeastOfOne, LeastWithOneMore
<1>2. \E l \in S1 : \A y \in S1 : l <= y
  <2>1. CASE B = {}
    BY <1>1, <2>1
  <2>2. CASE B = {b}
    <3>1. S0 \subseteq Int
      OBVIOUS
    <3> HIDE DEF S0
    <3> QED
      BY <1>1, <2>2, <3>1, LeastWithOneMore
  <2> QED
    BY <2>1, <2>2
<1>3. \E l \in S : \A y \in S : l <= y
  <2>1. CASE C = {}
    BY <1>2, <2>1
  <2>2. CASE C = {c}
    <3>1. S1 \subseteq Int
      OBVIOUS
    <3> HIDE DEF S1
    <3> QED
      BY <1>2, <2>2, <3>1, LeastWithOneMore
  <2> QED
    BY <2>1, <2>2
<1>4. S \subseteq Int /\ left \in S
  OBVIOUS
<1> HIDE DEF S
<1>5. Min(S) \in S /\ \A y \in S : Min(S) <= y
  BY <1>3, MinIsLeast
<1>6. Min(S) \in Int /\ Min(S) <= left
  BY <1>4, <1>5
<1> QED
  BY <1>6 DEF S

(* No algorithm releases more than what is left of its parent. *)
LEMMA MinOfTwo ==
  ASSUME NEW a \in Int, NEW left \in Int
  PROVE  Min({a, left}) \in Int /\ Min({a, left}) <= left
<1>1. {a, left} \cup {} \cup {} = {a, left}
  OBVIOUS
<1>2. {} \in {{}, {a}}
  OBVIOUS
<1> QED
  BY <1>1, <1>2, MinAtMost, Zenon

(***************************************************************************)
(* The floor of MinClip never lifts a child above what is left.            *)
(***************************************************************************)
LEMMA FlooredAtMost ==
  ASSUME NEW want \in Int, NEW left \in Nat, want <= left
  PROVE  Floored(want, left) \in Int /\ Floored(want, left) <= left
BY AlgoBounds DEF Floored

(***************************************************************************)
(* Nor do the caps of the policy.                                          *)
(***************************************************************************)
LEMMA CappedAtMost ==
  ASSUME NEW desired \in Int, NEW left \in Nat, NEW m, m.volume \in Nat
  PROVE  Capped(desired, left, m) \in Int /\ Capped(desired, left, m) <= left
<1> DEFINE b == m.volume \div RateDiv
           B == IF m.volume > 0 THEN {b} ELSE {}
           C == IF Display > 0 THEN {Display} ELSE {}
           want == Min({desired, left} \cup B \cup C)
<1>1. b \in Int /\ Display \in Int /\ left \in Int
  BY AlgoBounds
<1>2. B \in {{}, {b}} /\ C \in {{}, {Display}}
  OBVIOUS
<1>3. want \in Int /\ want <= left
  <2> HIDE DEF b, B, C
  <2> QED
    BY <1>1, <1>2, MinAtMost, Zenon
<1>4. Capped(desired, left, m) = Floored(want, left)
  BY DEF Capped
<1> HIDE DEF want
<1> QED
  BY <1>3, <1>4, FlooredAtMost

(***************************************************************************)
(* What the schedule says is due is a whole number.                        *)
(***************************************************************************)
LEMMA DueIsWhole ==
  ASSUME NEW parent, parent.qty \in Nat, parent.filled \in Nat,
         algoNow \in Nat, algoNow < WindowEnd
  PROVE  Behind(parent, algoNow).due \div Behind(parent, algoNow).unit \in Int
<1> DEFINE w == Weights(parent.algo)
           t == algoNow
           i == CHOOSE k \in DOMAIN w : SliceBegin(w, k) <= t /\ t < SliceEnd(w, k)
           begin == SliceBegin(w, i)
           len == SliceEnd(w, i) - SliceBegin(w, i)
           before == WeightBefore(w, i)
           total == TotalWeight(w)
<1>1. w \in Seq(Nat) /\ Len(w) \in Nat \ {0} /\ \E k \in DOMAIN w : w[k] > 0
  BY WeightsArePositive
<1>2. total \in Nat \ {0}
  <2> HIDE DEF w
  <2> QED
    BY <1>1, TotalIsPositive
<1>3. i \in 1..Len(w) /\ begin <= t /\ t < SliceEnd(w, i)
  <2> HIDE DEF w
  <2>1. \E k \in DOMAIN w : SliceBegin(w, k) <= t /\ t < SliceEnd(w, k)
    BY <1>1, SliceFound
  <2> QED
    BY <1>1, <2>1
<1>4. begin \in Int /\ SliceEnd(w, i) \in Int
  <2> HIDE DEF w, i
  <2>1. WindowEnd \div Len(w) \in Int /\ WindowEnd \in Int /\ i \in Int /\ Len(w) \in Int
    BY <1>1, <1>3, AlgoBounds
  <2> QED
    BY <2>1 DEF SliceBegin, SliceEnd
<1>5. w[i] \in Int
  <2> HIDE DEF w, i
  <2> QED
    BY <1>1, <1>3
<1>6. before \in Int
  <2> HIDE DEF w, i
  <2>1. IsFiniteSet(1..(i - 1)) /\ \A x \in 1..(i - 1) : w[x] \in Int
    <3>1. i \in Int /\ i - 1 \in Int /\ \A x \in 1..(i - 1) : x \in 1..Len(w)
      BY <1>1, <1>3
    <3>2. IsFiniteSet(1..(i - 1))
      BY <3>1, FS_Interval, 1 \in Int
    <3>3. \A x \in 1..(i - 1) : w[x] \in Int
      BY <1>1, <3>1
    <3> QED
      BY <3>2, <3>3
  <2> QED
    BY <2>1, SumType DEF WeightBefore
<1> DEFINE a == w[i]
           unit == total * len
           due == parent.qty * (before * len + a * (t - begin)) - parent.filled * unit
<1>7. Behind(parent, algoNow).due = due /\ Behind(parent, algoNow).unit = unit
  BY DEF Behind
<1>8. len \in Nat \ {0} /\ t - begin \in Int
  <2> HIDE DEF begin, i, w
  <2> QED
    BY <1>3, <1>4 DEF begin
<1> HIDE DEF w, i, begin, before, total, len, a
<1>9. unit \in Nat \ {0} /\ due \in Int
  BY <1>2, <1>5, <1>6, <1>8 DEF a
<1> HIDE DEF unit, due
<1> QED
  BY <1>7, <1>9

(***************************************************************************)
(* Whatever the algorithm, the child it releases is at most what is left   *)
(* of the parent.                                                          *)
(***************************************************************************)
LEMMA ClipWithinLeft ==
  ASSUME NEW parent \in Plans, NEW m, m.volume \in Nat, parent.filled < parent.qty,
         algoNow \in Nat, algoNow < WindowEnd, Clip(parent, m) > 0
  PROVE  Clip(parent, m) \in Nat /\ Clip(parent, m) <= parent.qty - parent.filled
<1> DEFINE left == parent.qty - parent.filled
<1>1. Left(parent) = left /\ left \in Nat
  BY DEF Left, Plans
<1> HIDE DEF left
<1>2. ChildDue(parent, m) \in Int /\ ChildDue(parent, m) <= left
  <2> DEFINE q == Behind(parent, algoNow).due \div Behind(parent, algoNow).unit
  <2>1. q \in Int
    BY DueIsWhole DEF Plans
  <2>2. ChildDue(parent, m) = IF Behind(parent, algoNow).due <= 0 THEN 0 ELSE Capped(q, left, m)
    BY <1>1 DEF ChildDue
  <2> HIDE DEF q
  <2>3. Capped(q, left, m) \in Int /\ Capped(q, left, m) <= left
    BY <1>1, <2>1, CappedAtMost
  <2> QED
    BY <1>1, <2>2, <2>3
<1>3. Capped(left, left, m) \in Int /\ Capped(left, left, m) <= left
  BY <1>1, CappedAtMost
<1>4. PovClip(parent, m) \in Int /\ PovClip(parent, m) <= left
  <2> DEFINE b == m.volume \div RateDiv
             want == Min({b, left})
  <2>1. b \in Int
    BY AlgoBounds
  <2> HIDE DEF b
  <2>2. want \in Int /\ want <= left
    <3>1. left \in Int
      BY <1>1
    <3> QED
      BY <2>1, <3>1, MinOfTwo
  <2> HIDE DEF want
  <2>3. Floored(want, left) \in Int /\ Floored(want, left) <= left
    BY <1>1, <2>2, FlooredAtMost
  <2>4. PovClip(parent, m) = IF m.volume = 0 THEN 0 ELSE Floored(want, left)
    BY <1>1 DEF PovClip, want, b
  <2> QED
    BY <1>1, <2>3, <2>4
<1>5. IcebergClip(parent) \in Int /\ IcebergClip(parent) <= left
  <2>1. left \in Int /\ Display \in Int
    BY <1>1, AlgoBounds
  <2>2. Min({Display, left}) \in Int /\ Min({Display, left}) <= left
    BY <2>1, MinOfTwo
  <2> QED
    BY <1>1, <2>2 DEF IcebergClip
<1>6. parent.algo \in {"immediate", "twap", "vwap", "pov", "iceberg", "adaptive"}
  BY AlgoBounds DEF Plans
<1>7. Clip(parent, m) \in {ChildDue(parent, m), Capped(left, left, m), PovClip(parent, m), IcebergClip(parent)}
  BY <1>1, <1>6 DEF Clip, ImmediateClip, TwapClip, VwapClip, AdaptiveClip
<1>8. Clip(parent, m) \in Int /\ Clip(parent, m) <= left
  BY <1>2, <1>3, <1>4, <1>5, <1>7
<1> QED
  BY <1>8 DEF left

-----------------------------------------------------------------------------
(***************************************************************************)
(* A new parent has no child yet.                                          *)
(***************************************************************************)
LEMMA StepSubmitParent ==
  ASSUME AlgoInv, NEW p, NEW a \in Algos, NEW q \in ParentQty, SubmitParent(p, a, q)
  PROVE  AlgoInv'
<1> DEFINE new == NewPlan(a, q)
<1>1. new \in Plans /\ new.filled <= new.qty
  BY AlgoBounds DEF Plans, NewPlan
<1>2. /\ p \notin DOMAIN plans /\ children' = children /\ algoNow' = algoNow
      /\ plans' = [k \in DOMAIN plans \cup {p} |-> IF k = p THEN new ELSE plans[k]]
  BY DEF SubmitParent
<1> HIDE DEF new
<1>3. /\ DOMAIN plans' = DOMAIN plans \cup {p}
      /\ \A k \in DOMAIN plans : plans'[k] = plans[k]
      /\ plans'[p] = new
      /\ plans' = [k \in DOMAIN plans' |-> plans'[k]]
  BY <1>2
<1>4. AlgoTypeOK'
  BY <1>1, <1>2, <1>3 DEF AlgoInv, AlgoTypeOK
<1>5. ASSUME NEW k \in DOMAIN plans, Whole(k)' PROVE ParentSound(k)'
  <2>1. Whole(k)
    BY <1>2, <1>5 DEF Whole
  <2> QED
    BY <1>2, <1>3, <2>1 DEF AlgoInv, ParentSound
<1>6. ParentSound(p)'
  BY <1>1, <1>2, <1>3 DEF AlgoInv, AlgoTypeOK, ParentSound
<1> QED
  BY <1>3, <1>4, <1>5, <1>6 DEF AlgoInv

(***************************************************************************)
(* Executor::on_market: a child is sent only for a plan that waits for     *)
(* none, and becomes the one it waits for.                                 *)
(***************************************************************************)
LEMMA StepOnMarket == ASSUME AlgoInv, OnMarket PROVE AlgoInv'
<1>1. PICK m \in [executable: BOOLEAN, volume: Volumes], approved \in SUBSET DOMAIN plans :
        LET releasing == {p \in approved : /\ Idle(plans[p]) /\ Releasable(m)
                                           /\ Clip(plans[p], m) > 0}
            next(p) == plans[p].sent + 1
        IN  /\ plans' = [p \in DOMAIN plans |->
                 IF p \in releasing
                 THEN [plans[p] EXCEPT !.state = "working", !.sent = next(p), !.child = next(p)]
                 ELSE plans[p]]
            /\ children' = [c \in DOMAIN children \cup {<<p, next(p)>> : p \in releasing} |->
                 IF c \in DOMAIN children THEN children[c] ELSE ChildOf(Clip(plans[c[1]], m))]
            /\ UNCHANGED algoNow
  BY DEF OnMarket
<1> DEFINE releasing == {p \in approved : /\ Idle(plans[p]) /\ Releasable(m)
                                          /\ Clip(plans[p], m) > 0}
           next(p) == plans[p].sent + 1
           new == {<<p, next(p)>> : p \in releasing}
<1>2. /\ releasing \subseteq DOMAIN plans /\ m.volume \in Nat
      /\ \A p \in releasing : /\ Idle(plans[p]) /\ algoNow < WindowEnd
                              /\ Clip(plans[p], m) > 0
  BY AlgoBounds DEF Releasable
<1>3. /\ plans' = [p \in DOMAIN plans |->
            IF p \in releasing
            THEN [plans[p] EXCEPT !.state = "working", !.sent = next(p), !.child = next(p)]
            ELSE plans[p]]
      /\ children' = [c \in DOMAIN children \cup new |->
           IF c \in DOMAIN children THEN children[c] ELSE ChildOf(Clip(plans[c[1]], m))]
      /\ algoNow' = algoNow
  BY <1>1
<1> HIDE DEF releasing
<1>4. \A p \in DOMAIN plans : plans[p] \in Plans
  BY DEF AlgoInv, AlgoTypeOK
<1>5. \A p \in releasing : /\ Clip(plans[p], m) \in Nat
                           /\ Clip(plans[p], m) <= plans[p].qty - plans[p].filled
                           /\ plans[p].filled < plans[p].qty /\ plans[p].child = 0
                           /\ plans[p].state \notin TerminalPlans
  BY <1>2, <1>4, ClipWithinLeft DEF AlgoInv, AlgoTypeOK, Idle
<1>6. \A c \in new : c \notin DOMAIN children
  BY <1>2, <1>4 DEF AlgoInv, AlgoTypeOK, Plans
<1>7. /\ DOMAIN children' = DOMAIN children \cup new
      /\ \A c \in DOMAIN children : children'[c] = children[c]
      /\ \A c \in new : children'[c] = ChildOf(Clip(plans[c[1]], m))
      /\ children' = [c \in DOMAIN children' |-> children'[c]]
  BY <1>3, <1>6
<1>8. /\ DOMAIN plans' = DOMAIN plans
      /\ plans' = [p \in DOMAIN plans' |-> plans'[p]]
      /\ \A p \in DOMAIN plans \ releasing : plans'[p] = plans[p]
      /\ \A p \in releasing :
           /\ plans'[p] \in Plans
           /\ plans'[p].qty = plans[p].qty /\ plans'[p].filled = plans[p].filled
           /\ plans'[p].sent = next(p) /\ plans'[p].child = next(p)
           /\ plans'[p].state = "working"
  <2>1. /\ DOMAIN plans' = DOMAIN plans
        /\ plans' = [p \in DOMAIN plans' |-> plans'[p]]
        /\ \A p \in DOMAIN plans \ releasing : plans'[p] = plans[p]
    BY <1>3
  <2>2. ASSUME NEW p \in releasing
        PROVE  /\ plans'[p] \in Plans
               /\ plans'[p].qty = plans[p].qty /\ plans'[p].filled = plans[p].filled
               /\ plans'[p].sent = next(p) /\ plans'[p].child = next(p)
               /\ plans'[p].state = "working"
    <3> DEFINE n == next(p)
    <3>1. plans[p] \in Plans /\ n \in Nat
      BY <1>2, <1>4 DEF Plans
    <3>2. plans'[p] = [plans[p] EXCEPT !.state = "working", !.sent = n, !.child = n]
      BY <1>2, <1>3
    <3> HIDE DEF n
    <3>3. plans'[p] \in Plans /\ plans'[p].sent = n /\ plans'[p].child = n
          /\ plans'[p].qty = plans[p].qty /\ plans'[p].filled = plans[p].filled
          /\ plans'[p].state = "working"
      BY <3>1, <3>2 DEF Plans
    <3> QED
      BY <3>3 DEF n
  <2> QED
    BY <2>1, <2>2
<1>9. \A c \in new : /\ c[1] \in releasing /\ c = <<c[1], next(c[1])>>
                     /\ children'[c] \in ChildRecords
                     /\ children'[c].left = Clip(plans[c[1]], m)
  <2> TAKE c \in new
  <2>1. PICK p \in releasing : c = <<p, next(p)>>
    OBVIOUS
  <2>2. c[1] = p
    BY <2>1
  <2> DEFINE clip == Clip(plans[p], m)
  <2>3. clip \in Nat /\ children'[c] = ChildOf(clip)
    BY <1>5, <1>7, <2>2
  <2> HIDE DEF clip
  <2>4. children'[c] \in ChildRecords /\ children'[c].left = clip
    BY <2>3 DEF ChildOf, ChildRecords
  <2> QED
    BY <2>1, <2>2, <2>4 DEF clip
<1>10. AlgoTypeOK'
  <2>1. \A c \in DOMAIN children' : children'[c] \in ChildRecords
    BY <1>7, <1>9 DEF AlgoInv, AlgoTypeOK
  <2>2. \A p \in DOMAIN plans' : plans'[p] \in Plans
    BY <1>4, <1>8
  <2>3. \A c \in DOMAIN children' :
          c = <<c[1], c[2]>> /\ c[1] \in DOMAIN plans' /\ c[2] \in 1..plans'[c[1]].sent
    <3> SUFFICES ASSUME NEW c \in DOMAIN children'
                 PROVE  c = <<c[1], c[2]>> /\ c[1] \in DOMAIN plans' /\ c[2] \in 1..plans'[c[1]].sent
      OBVIOUS
    <3>1. CASE c \in DOMAIN children
      <4>1. c = <<c[1], c[2]>> /\ c[1] \in DOMAIN plans /\ c[2] \in 1..plans[c[1]].sent
        BY <3>1 DEF AlgoInv, AlgoTypeOK
      <4>2. plans[c[1]].sent \in Nat
        BY <1>4, <4>1 DEF Plans
      <4>3. plans'[c[1]].sent \in {plans[c[1]].sent, plans[c[1]].sent + 1}
        BY <1>8, <4>1
      <4> QED
        BY <1>8, <4>1, <4>2, <4>3
    <3>2. CASE c \in new
      <4>1. c[1] \in releasing /\ c = <<c[1], next(c[1])>>
        BY <1>9, <3>2
      <4>2. plans[c[1]].sent \in Nat
        BY <1>2, <1>4, <4>1 DEF Plans
      <4>3. c[2] = next(c[1])
        BY <4>1
      <4> QED
        BY <1>2, <1>8, <4>1, <4>2, <4>3
    <3> QED
      BY <1>7, <3>1, <3>2
  <2> QED
    BY <1>3, <1>7, <1>8, <2>1, <2>2, <2>3 DEF AlgoInv, AlgoTypeOK
<1>11. ASSUME NEW p \in DOMAIN plans, Whole(p)' PROVE ParentSound(p)'
  <2>1. Whole(p)
    BY <1>7, <1>11 DEF Whole
  <2>2. ParentSound(p)
    BY <2>1 DEF AlgoInv
  <2>3. CASE p \notin releasing
    <3>1. \A c \in DOMAIN children' : c[1] = p => c \in DOMAIN children
      BY <1>7, <1>9, <2>3
    <3> QED
      BY <1>7, <1>8, <2>2, <2>3, <3>1 DEF ParentSound
  <2>4. CASE p \in releasing
    <3>1. \A c \in DOMAIN children : c[1] = p => ~children[c].rests
      <4> SUFFICES ASSUME NEW c \in DOMAIN children, c[1] = p, children[c].rests PROVE FALSE
        BY DEF AlgoInv, AlgoTypeOK, ChildRecords
      <4>1. c[2] = 0
        BY <1>5, <2>2, <2>4 DEF ParentSound
      <4> QED
        BY <1>4, <4>1 DEF AlgoInv, AlgoTypeOK, Plans
    <3>2. plans'[p].filled <= plans'[p].qty
      BY <1>8, <2>2, <2>4 DEF ParentSound
    <3>3. ASSUME NEW c \in DOMAIN children', c[1] = p, children'[c].rests
          PROVE  /\ c[2] = plans'[p].sent /\ c[2] = plans'[p].child
                 /\ plans'[p].state \notin TerminalPlans
                 /\ children'[c].left <= plans'[p].qty - plans'[p].filled
      <4>1. c \in new
        BY <1>7, <3>1, <3>3
      <4>2. c = <<p, next(p)>> /\ children'[c].left = Clip(plans[p], m)
        BY <1>9, <3>3, <4>1
      <4>3. c[2] = next(p)
        BY <4>2
      <4> QED
        BY <1>5, <1>8, <2>4, <4>2, <4>3 DEF TerminalPlans
    <3> QED
      BY <3>2, <3>3 DEF ParentSound
  <2> QED
    BY <2>3, <2>4
<1> QED
  BY <1>8, <1>10, <1>11 DEF AlgoInv

(***************************************************************************)
(* A fill of a child moves quantity from the child to the parent.          *)
(***************************************************************************)
LEMMA StepChildFilled ==
  ASSUME AlgoInv, NEW c \in DOMAIN children, children[c].rests,
         NEW q \in 1..children[c].left, ChildFilled(c, q)
  PROVE  AlgoInv'
<1> DEFINE p == c[1]
           more == children[c].left > q
           filled == plans[p].filled + q
<1>1. /\ children[c] \in ChildRecords /\ p \in DOMAIN plans /\ plans[p] \in Plans
      /\ q \in Nat \ {0} /\ q <= children[c].left /\ children[c].left \in Nat
      /\ more \in BOOLEAN /\ filled \in Nat
  BY DEF AlgoInv, AlgoTypeOK, ChildRecords, Plans
<1>2. /\ children' = [children EXCEPT ![c].left = @ - q, ![c].rests = more, ![c].parts = @ \/ more]
      /\ plans' = [plans EXCEPT ![p].filled = filled,
                                ![p].child = IF @ = c[2] THEN 0 ELSE @,
                                ![p].state = IF filled >= plans[p].qty THEN "completed" ELSE @]
      /\ algoNow' = algoNow
  BY DEF ChildFilled
<1> HIDE DEF p
<1>3. /\ DOMAIN children' = DOMAIN children
      /\ children' = [k \in DOMAIN children |-> children'[k]]
      /\ \A k \in DOMAIN children \ {c} : children'[k] = children[k]
      /\ children'[c] \in ChildRecords
      /\ children'[c].left = children[c].left - q
      /\ children'[c].rests = more /\ children'[c].parts = (children[c].parts \/ more)
  <2> DEFINE r == children[c]
             parted == r.parts \/ more
  <2>1. /\ DOMAIN children' = DOMAIN children
        /\ children' = [k \in DOMAIN children |-> children'[k]]
        /\ \A k \in DOMAIN children \ {c} : children'[k] = children[k]
    BY <1>2, <1>1 DEF AlgoInv, AlgoTypeOK
  <2>2. children'[c] = [r EXCEPT !.left = r.left - q, !.rests = more, !.parts = parted]
    BY <1>2
  <2>3. parted \in BOOLEAN /\ r \in ChildRecords /\ r.left - q \in Nat
    BY <1>1 DEF ChildRecords
  <2> HIDE DEF more, parted, r
  <2>4. children'[c] \in ChildRecords /\ children'[c].left = r.left - q
        /\ children'[c].rests = more /\ children'[c].parts = parted
    BY <2>2, <2>3, <1>1 DEF ChildRecords
  <2> QED
    BY <2>1, <2>4 DEF parted, r
<1>4. /\ DOMAIN plans' = DOMAIN plans
      /\ plans' = [k \in DOMAIN plans |-> plans'[k]]
      /\ \A k \in DOMAIN plans \ {p} : plans'[k] = plans[k]
      /\ plans'[p] \in Plans /\ plans'[p].filled = filled
      /\ plans'[p].qty = plans[p].qty /\ plans'[p].sent = plans[p].sent
  <2> HIDE DEF filled
  <2> QED
    BY <1>1, <1>2 DEF Plans, TerminalPlans
<1>5. AlgoTypeOK'
  <2> HIDE DEF more, filled
  <2>1. \A k \in DOMAIN plans : plans'[k].sent = plans[k].sent /\ plans'[k] \in Plans
    BY <1>4 DEF AlgoInv, AlgoTypeOK
  <2>2. \A k \in DOMAIN children : children'[k] \in ChildRecords
    BY <1>3 DEF AlgoInv, AlgoTypeOK
  <2>3. children' \in [DOMAIN children' -> ChildRecords] /\ plans' \in [DOMAIN plans' -> Plans]
    BY <1>3, <1>4, <2>1, <2>2
  <2>4. \A k \in DOMAIN children' :
          k = <<k[1], k[2]>> /\ k[1] \in DOMAIN plans' /\ k[2] \in 1..plans'[k[1]].sent
    BY <1>3, <1>4, <2>1 DEF AlgoInv, AlgoTypeOK
  <2> QED
    BY <1>2, <2>3, <2>4 DEF AlgoInv, AlgoTypeOK
<1>6. ASSUME NEW k \in DOMAIN plans, Whole(k)' PROVE ParentSound(k)'
  <2>1. Whole(k)
    BY <1>3, <1>6 DEF Whole
  <2>2. ParentSound(k)
    BY <2>1 DEF AlgoInv
  <2>3. CASE k # p
    BY <1>3, <1>4, <2>2, <2>3 DEF ParentSound, p
  <2>4. CASE k = p
    <3>1. ~more
      BY <1>3, <1>6, <2>4 DEF Whole, p
    <3>2. q = children[c].left
      BY <1>1, <3>1
    <3>3. children[c].left <= plans[p].qty - plans[p].filled /\ c[2] = plans[p].sent
      BY <2>2, <2>4 DEF ParentSound, p
    <3>4. plans'[p].filled <= plans'[p].qty
      BY <1>1, <1>4, <3>2, <3>3 DEF Plans
    <3>5. \A d \in DOMAIN children' : d[1] = p => ~children'[d].rests
      <4> SUFFICES ASSUME NEW d \in DOMAIN children', d[1] = p, children'[d].rests PROVE FALSE
        BY <1>5 DEF AlgoTypeOK, ChildRecords
      <4>1. d # c
        BY <1>3, <3>1
      <4>2. d[2] = plans[p].sent
        BY <1>3, <2>2, <2>4, <4>1 DEF ParentSound
      <4>3. d = <<d[1], d[2]>> /\ c = <<c[1], c[2]>>
        BY <1>3 DEF AlgoInv, AlgoTypeOK
      <4> QED
        BY <3>3, <4>1, <4>2, <4>3 DEF p
    <3> QED
      BY <2>4, <3>4, <3>5 DEF ParentSound
  <2> QED
    BY <2>3, <2>4
<1> QED
  BY <1>4, <1>5, <1>6 DEF AlgoInv

(***************************************************************************)
(* A child that is rejected, cancelled or expired rests no longer.         *)
(***************************************************************************)
LEMMA StepChildDropped ==
  ASSUME AlgoInv, NEW c \in DOMAIN children, ChildDropped(c) PROVE AlgoInv'
<1>1. /\ children' = [children EXCEPT ![c].rests = FALSE] /\ plans' = plans /\ algoNow' = algoNow
      /\ children[c] \in ChildRecords
  BY DEF ChildDropped, AlgoInv, AlgoTypeOK
<1>2. /\ DOMAIN children' = DOMAIN children
      /\ children' = [k \in DOMAIN children |-> children'[k]]
      /\ \A k \in DOMAIN children \ {c} : children'[k] = children[k]
      /\ children'[c] \in ChildRecords /\ ~children'[c].rests
      /\ children'[c].parts = children[c].parts
  BY <1>1 DEF ChildRecords
<1>3. AlgoTypeOK'
  BY <1>1, <1>2 DEF AlgoInv, AlgoTypeOK
<1>4. ASSUME NEW k \in DOMAIN plans, Whole(k)' PROVE ParentSound(k)'
  <2>1. Whole(k)
    BY <1>2, <1>4 DEF Whole
  <2> QED
    BY <1>1, <1>2, <2>1 DEF AlgoInv, ParentSound
<1> QED
  BY <1>1, <1>3, <1>4 DEF AlgoInv

(***************************************************************************)
(* A parent that is cancelled, expires or fails takes its child with it or *)
(* leaves the one whose cancel was denied.                                *)
(***************************************************************************)
LEMMA StepClosed ==
  ASSUME AlgoInv, NEW closed \in SUBSET DOMAIN plans, NEW s \in TerminalPlans, Closed(closed, s),
         algoNow' = algoNow
  PROVE  AlgoInv'
<1>1. PICK denied \in SUBSET closed :
        /\ children' = [c \in DOMAIN children |->
             IF c[1] \in closed /\ c[2] = plans[c[1]].child
             THEN [children[c] EXCEPT !.rests = @ /\ c[1] \in denied, !.kept = c[1] \in denied]
             ELSE children[c]]
        /\ plans' = [p \in DOMAIN plans |->
             IF p \in closed THEN [plans[p] EXCEPT !.state = s, !.child = 0] ELSE plans[p]]
  BY DEF Closed, Recalled
<1>2. /\ \A p \in DOMAIN plans : plans[p] \in Plans
      /\ \A c \in DOMAIN children : children[c] \in ChildRecords
  BY DEF AlgoInv, AlgoTypeOK
<1>3. /\ DOMAIN children' = DOMAIN children
      /\ children' = [c \in DOMAIN children |-> children'[c]]
      /\ \A c \in DOMAIN children :
           /\ children'[c] \in ChildRecords
           /\ children'[c].left = children[c].left /\ children'[c].parts = children[c].parts
           /\ IF c[1] \in closed /\ c[2] = plans[c[1]].child
              THEN (children'[c].rests => children[c].rests /\ children'[c].kept)
              ELSE children'[c] = children[c]
  <2>1. /\ DOMAIN children' = DOMAIN children
        /\ children' = [c \in DOMAIN children |-> children'[c]]
        /\ \A c \in DOMAIN children :
             ~(c[1] \in closed /\ c[2] = plans[c[1]].child) => children'[c] = children[c]
    BY <1>1
  <2>2. ASSUME NEW c \in DOMAIN children, c[1] \in closed, c[2] = plans[c[1]].child
        PROVE  /\ children'[c] \in ChildRecords
               /\ children'[c].left = children[c].left /\ children'[c].parts = children[c].parts
               /\ children'[c].rests => children[c].rests /\ children'[c].kept
    <3> DEFINE kept == c[1] \in denied
               rests == children[c].rests /\ kept
               old == children[c]
    <3>1. children'[c] = [old EXCEPT !.rests = rests, !.kept = kept]
      BY <1>1, <2>2
    <3>2. kept \in BOOLEAN /\ rests \in BOOLEAN /\ old \in ChildRecords
      BY <1>2
    <3>3. rests => children[c].rests /\ kept
      OBVIOUS
    <3> HIDE DEF kept, rests, old
    <3>4. /\ children'[c] \in ChildRecords /\ children'[c].left = old.left
          /\ children'[c].parts = old.parts /\ children'[c].rests = rests
          /\ children'[c].kept = kept
      BY <3>1, <3>2 DEF ChildRecords
    <3> QED
      BY <3>3, <3>4 DEF old
  <2> QED
    BY <1>2, <2>1, <2>2
<1>4. /\ DOMAIN plans' = DOMAIN plans
      /\ plans' = [p \in DOMAIN plans |-> plans'[p]]
      /\ \A p \in DOMAIN plans : /\ plans'[p] \in Plans /\ plans'[p].filled = plans[p].filled
                                 /\ plans'[p].qty = plans[p].qty /\ plans'[p].sent = plans[p].sent
                                 /\ p \in closed => plans'[p].state = s
                                 /\ p \notin closed => plans'[p] = plans[p]
  BY <1>1, <1>2 DEF Plans
<1>5. AlgoTypeOK'
  BY <1>3, <1>4 DEF AlgoInv, AlgoTypeOK
<1>6. ASSUME NEW p \in DOMAIN plans, Whole(p)' PROVE ParentSound(p)'
  <2>1. Whole(p)
    BY <1>3, <1>6 DEF Whole
  <2>2. ParentSound(p)
    BY <2>1 DEF AlgoInv
  <2>3. CASE p \in closed
    <3>1. ASSUME NEW c \in DOMAIN children', c[1] = p, children'[c].rests
          PROVE  /\ c[2] = plans'[p].sent /\ children'[c].kept
                 /\ children'[c].left <= plans'[p].qty - plans'[p].filled
      <4>1. c \in DOMAIN children /\ children[c].rests
        BY <1>3, <3>1
      <4>2. /\ c[2] = plans[p].sent /\ children[c].left <= plans[p].qty - plans[p].filled
            /\ children[c].kept \/ c[2] = plans[p].child
        BY <2>2, <3>1, <4>1 DEF ParentSound
      <4>3. children'[c].kept
        BY <1>3, <2>3, <3>1, <4>1, <4>2
      <4> QED
        BY <1>3, <1>4, <4>1, <4>2, <4>3
    <3>2. plans'[p].filled <= plans'[p].qty /\ plans'[p].state \in TerminalPlans
      BY <1>4, <2>2, <2>3 DEF ParentSound
    <3> QED
      BY <3>1, <3>2 DEF ParentSound
  <2>4. CASE p \notin closed
    <3>1. plans'[p] = plans[p]
      BY <1>4, <2>4
    <3>2. \A c \in DOMAIN children' : c[1] = p => c \in DOMAIN children /\ children'[c] = children[c]
      BY <1>3, <2>4
    <3> QED
      BY <2>2, <3>1, <3>2 DEF ParentSound
  <2> QED
    BY <2>3, <2>4
<1> QED
  BY <1>4, <1>5, <1>6 DEF AlgoInv

(***************************************************************************)
(* The invariant of the executor.                                          *)
(***************************************************************************)
LEMMA AlgoInvHolds == AlgoSpec => []AlgoInv
<1>1. AlgoInit => AlgoInv
  BY DEF AlgoInit, AlgoInv, AlgoTypeOK
<1>2. ASSUME AlgoInv, [AlgoNext]_algoVars PROVE AlgoInv'
  <2>1. CASE \E p \in Parents, a \in Algos, q \in ParentQty : SubmitParent(p, a, q)
    <3>1. PICK p \in Parents, a \in Algos, q \in ParentQty : SubmitParent(p, a, q)
      BY <2>1
    <3> QED
      BY <1>2, <3>1, StepSubmitParent
  <2>2. CASE OnMarket
    BY <1>2, <2>2, StepOnMarket
  <2>3. CASE \E c \in DOMAIN children :
               children[c].rests /\ (ChildDropped(c) \/ \E q \in 1..children[c].left : ChildFilled(c, q))
    <3>1. PICK c \in DOMAIN children :
            children[c].rests /\ (ChildDropped(c) \/ \E q \in 1..children[c].left : ChildFilled(c, q))
      BY <2>3
    <3>2. CASE ChildDropped(c)
      BY <1>2, <3>2, StepChildDropped
    <3>3. CASE \E q \in 1..children[c].left : ChildFilled(c, q)
      <4>1. PICK q \in 1..children[c].left : ChildFilled(c, q)
        BY <3>3
      <4> QED
        BY <1>2, <3>1, <4>1, StepChildFilled
    <3> QED
      BY <3>1, <3>2, <3>3
  <2>4. CASE \E p \in DOMAIN plans : CancelParent(p)
    <3>1. PICK p \in DOMAIN plans : Closed({p}, "cancelled") /\ algoNow' = algoNow
      BY <2>4 DEF CancelParent
    <3>2. {p} \in SUBSET DOMAIN plans /\ "cancelled" \in TerminalPlans
      BY DEF TerminalPlans
    <3> QED
      BY <1>2, <3>1, <3>2, StepClosed
  <2>5. CASE ExpireStale
    <3> DEFINE stale == {p \in DOMAIN plans : plans[p].state \notin TerminalPlans}
    <3>1. Closed(stale, "expired") /\ algoNow' = algoNow
      BY <2>5 DEF ExpireStale
    <3>2. stale \in SUBSET DOMAIN plans /\ "expired" \in TerminalPlans
      BY DEF TerminalPlans
    <3> HIDE DEF stale
    <3> QED
      BY <1>2, <3>1, <3>2, StepClosed
  <2>6. CASE AlgoTick \/ UNCHANGED algoVars
    <3>1. UNCHANGED <<plans, children>> /\ algoNow' \in {algoNow, algoNow + 1}
      BY <2>6 DEF AlgoTick, algoVars
    <3> QED
      BY <1>2, <3>1 DEF AlgoInv, AlgoTypeOK, Whole, ParentSound
  <2> QED
    BY <1>2, <2>1, <2>2, <2>3, <2>4, <2>5, <2>6 DEF AlgoNext
<1> QED
  BY <1>1, <1>2, PTL DEF AlgoSpec

(***************************************************************************)
(* Whatever the algorithm, its schedule and the market, a parent whose     *)
(* children fill whole never trades more than its quantity, nor has more   *)
(* than that out at the venue.                                             *)
(***************************************************************************)
THEOREM ParentsKeepTheirQuantity == AlgoSpec => []ParentNeverExceeded
<1>1. ASSUME AlgoInv PROVE ParentNeverExceeded
  <2> SUFFICES ASSUME NEW p \in DOMAIN plans, Whole(p)
               PROVE  /\ plans[p].filled
                           + SumFunctionOnSet([c \in DOMAIN children |-> children[c].left], Resting(p))
                           <= plans[p].qty
                      /\ Cardinality(Resting(p)) <= 1
                      /\ plans[p].state \in TerminalPlans => \A c \in Resting(p) : children[c].kept
    BY DEF ParentNeverExceeded, Whole
  <2> DEFINE left == [c \in DOMAIN children |-> children[c].left]
             sum == SumFunctionOnSet(left, Resting(p))
  <2>1. ParentSound(p) /\ plans[p] \in Plans
    BY <1>1 DEF AlgoInv, AlgoTypeOK
  <2>2. plans[p].state \in TerminalPlans => \A c \in Resting(p) : children[c].kept
    BY <2>1 DEF ParentSound, Resting
  <2>3. CASE Resting(p) = {}
    <3>1. sum = 0 /\ Cardinality(Resting(p)) = 0
      BY <2>3, SumEmpty, FS_EmptySet
    <3> QED
      BY <2>1, <2>2, <3>1 DEF ParentSound, Plans
  <2>4. CASE Resting(p) # {}
    <3>1. PICK c \in DOMAIN children : c[1] = p /\ children[c].rests
      BY <2>4 DEF Resting
    <3>2. \A d \in Resting(p) : d = c
      <4> TAKE d \in Resting(p)
      <4>1. d[1] = c[1] /\ d[2] = c[2]
        BY <2>1, <3>1 DEF ParentSound, Resting
      <4>2. d = <<d[1], d[2]>> /\ c = <<c[1], c[2]>>
        BY <1>1 DEF AlgoInv, AlgoTypeOK, Resting
      <4> QED
        BY <4>1, <4>2
    <3>3. Resting(p) = {c}
      BY <3>1, <3>2 DEF Resting
    <3>4. left[c] = children[c].left /\ left[c] \in Nat /\ children[c].left <= plans[p].qty - plans[p].filled
      BY <1>1, <2>1, <3>1 DEF ParentSound, AlgoInv, AlgoTypeOK, ChildRecords
    <3> HIDE DEF left
    <3>5. IsFiniteSet({c}) /\ Cardinality({c}) = 1 /\ {c} \ {c} = {}
      BY FS_Singleton
    <3>6. SumFunctionOnSet(left, {c}) = left[c] + SumFunctionOnSet(left, {c} \ {c})
      BY <3>4, <3>5, SumTakingAny
    <3>7. sum = left[c]
      BY <3>3, <3>4, <3>5, <3>6, SumEmpty
    <3> HIDE DEF sum
    <3>8. plans[p].filled + sum <= plans[p].qty
      BY <2>1, <3>4, <3>7 DEF Plans
    <3> QED
      BY <2>2, <3>3, <3>5, <3>8 DEF sum, left
  <2> QED
    BY <2>3, <2>4
<1> QED
  BY <1>1, AlgoInvHolds, PTL

-----------------------------------------------------------------------------
(***************************************************************************)
(* Operations.  The monitor's counter of failures is the length of the run *)
(* of bad reports at the end of the log, and its status is the last        *)
(* report, so that the gate on trading can be read off the reports; the    *)
(* breaker's state and timer decide what it lets through.                  *)
(***************************************************************************)

Logs == Seq([status: Reportable, at: Nat])

\* The reports at the end of a log, as many as there are, that were not healthy.
Streak(log, n) ==
  /\ n \in 0..Len(log)
  /\ \A i \in (Len(log) - n + 1)..Len(log) : log[i].status # "healthy"
  /\ n < Len(log) => log[Len(log) - n].status = "healthy"

\* The stored status follows the reports.
Follows(c) ==
  IF reports[c] = <<>> THEN health[c] = Unreported
  ELSE LET last == reports[c][Len(reports[c])]
           failing == FailingFor(reports[c])
       IN  /\ health[c].last = last.at /\ health[c].failures = failing
           /\ health[c].status =
                IF last.status = "degraded" /\ failing >= FailuresBeforeUnhealthy
                THEN "unhealthy" ELSE last.status
           /\ Streak(reports[c], failing)

MonitorInv ==
  /\ opsNow \in Nat
  /\ reports \in [Components -> Logs]
  /\ health \in [Components -> [status: Reportable \cup {"unknown"}, failures: Nat, last: Nat \cup {-1}]]
  /\ \A c \in Components : Follows(c)

(***************************************************************************)
(* A log ends in one run of bad reports, of one length.                    *)
(***************************************************************************)
LEMMA StreakIsUnique ==
  ASSUME NEW log \in Logs, NEW m, Streak(log, m), NEW n, Streak(log, n)
  PROVE  m = n
<1>1. Len(log) \in Nat
  BY DEF Logs
<1>2. ASSUME NEW a, NEW b, Streak(log, a), Streak(log, b), a < b PROVE FALSE
  <2>1. a \in Nat /\ b \in Nat /\ b <= Len(log)
    BY <1>1, <1>2 DEF Streak
  <2>2. Len(log) - a \in (Len(log) - b + 1)..Len(log)
    BY <1>1, <1>2, <2>1
  <2> QED
    BY <1>2, <2>1, <2>2, <1>1 DEF Streak
<1>3. m \in Int /\ n \in Int
  BY <1>1 DEF Streak
<1> QED
  BY <1>2, <1>3

(***************************************************************************)
(* The count over the log is the length of that run.                       *)
(***************************************************************************)
LEMMA FailingIsStreak ==
  ASSUME NEW log \in Logs, NEW n, Streak(log, n)
  PROVE  FailingFor(log) = n
<1>1. n \in 0..Len(log) /\ \E k \in 0..Len(log) : Streak(log, k)
  BY DEF Streak
<1>2. FailingFor(log) = CHOOSE k \in 0..Len(log) :
                          /\ \A i \in (Len(log) - k + 1)..Len(log) : log[i].status # "healthy"
                          /\ k < Len(log) => log[Len(log) - k].status = "healthy"
  BY DEF FailingFor
<1>3. Streak(log, FailingFor(log))
  BY <1>1, <1>2 DEF Streak
<1> QED
  BY <1>3, StreakIsUnique

(***************************************************************************)
(* A bad report makes the run longer by one; a healthy one ends it.        *)
(***************************************************************************)
LEMMA StreakGrows ==
  ASSUME NEW log \in Logs, NEW e \in [status: Reportable, at: Nat],
         log = <<>> \/ Streak(log, FailingFor(log))
  PROVE  LET longer == Append(log, e)
             n == IF e.status = "healthy" THEN 0
                  ELSE IF log = <<>> THEN 1 ELSE FailingFor(log) + 1
         IN  Streak(longer, n) /\ FailingFor(longer) = n
<1> DEFINE longer == Append(log, e)
           len == Len(log)
           old == IF log = <<>> THEN 0 ELSE FailingFor(log)
           n == IF e.status = "healthy" THEN 0 ELSE old + 1
<1>1. /\ longer \in Logs /\ Len(longer) = len + 1 /\ longer[len + 1] = e /\ len \in Nat
      /\ \A i \in 1..len : longer[i] = log[i]
  BY DEF Logs
<1>2. Streak(log, old)
  <2>1. CASE log = <<>>
    BY <2>1 DEF Streak
  <2> QED
    BY <2>1
<1>3. old \in 0..len
  BY <1>2 DEF Streak
<1> HIDE DEF longer, len, old
<1>4. n \in 0..(len + 1)
  BY <1>1, <1>3
<1>5. \A i \in (len + 1 - n + 1)..(len + 1) : longer[i].status # "healthy"
  <2> SUFFICES ASSUME NEW i \in (len + 1 - n + 1)..(len + 1), n # 0 PROVE longer[i].status # "healthy"
    BY <1>1
  <2>1. CASE i = len + 1
    BY <1>1, <2>1
  <2>2. CASE i # len + 1
    <3>1. n = old + 1 /\ i \in (len - old + 1)..len /\ i \in 1..len
      BY <1>1, <1>3, <2>2
    <3> QED
      BY <1>1, <1>2, <3>1 DEF Streak, len
  <2> QED
    BY <2>1, <2>2
<1>6. n < len + 1 => longer[len + 1 - n].status = "healthy"
  <2>1. CASE n = 0
    BY <1>1, <2>1, <1>3
  <2>2. CASE n # 0 /\ n < len + 1
    <3>1. n = old + 1 /\ old < len /\ len + 1 - n = len - old /\ len - old \in 1..len
      BY <1>1, <1>3, <2>2
    <3> QED
      BY <1>1, <1>2, <3>1 DEF Streak, len
  <2> QED
    BY <1>4, <2>1, <2>2
<1>7. Streak(longer, n)
  BY <1>1, <1>4, <1>5, <1>6 DEF Streak
<1>8. FailingFor(longer) = n
  BY <1>1, <1>7, FailingIsStreak
<1> QED
  BY <1>7, <1>8 DEF longer, old

-----------------------------------------------------------------------------
(***************************************************************************)
(* HealthMonitor::report: the counter the monitor keeps follows the log.   *)
(***************************************************************************)
LEMMA StepReport ==
  ASSUME MonitorInv, NEW c \in Components, NEW status \in Reportable, Report(c, status)
  PROVE  MonitorInv'
<1> DEFINE log == reports[c]
           e == [status |-> status, at |-> opsNow]
           failures == IF status = "healthy" THEN 0 ELSE health[c].failures + 1
           entry == StoredAfter(c, status)
<1>1. /\ opsNow \in Nat /\ log \in Logs /\ e \in [status: Reportable, at: Nat]
      /\ health[c].failures \in Nat
  BY DEF MonitorInv
<1>2. /\ health' = [health EXCEPT ![c] = entry]
      /\ reports' = [reports EXCEPT ![c] = Append(log, e)]
      /\ opsNow' = opsNow
  BY DEF Report
<1>3. /\ entry.failures = failures /\ entry.last = opsNow
      /\ entry.status = IF status = "degraded" /\ failures >= FailuresBeforeUnhealthy
                        THEN "unhealthy" ELSE status
      /\ entry \in [status: Reportable \cup {"unknown"}, failures: Nat, last: Nat \cup {-1}]
  <2> HIDE DEF log, e
  <2> QED
    BY <1>1 DEF StoredAfter, Reportable
<1> HIDE DEF entry, failures
<1>4. \A k \in Components \ {c} : Follows(k)'
  <2> TAKE k \in Components \ {c}
  <2>1. health'[k] = health[k] /\ reports'[k] = reports[k]
    BY <1>2 DEF MonitorInv
  <2>2. Follows(k)
    BY DEF MonitorInv
  <2> QED
    BY <2>1, <2>2 DEF Follows
<1>5. health'[c] = entry /\ reports'[c] = Append(log, e)
  BY <1>2 DEF MonitorInv
<1> DEFINE longer == Append(log, e)
<1>6. /\ longer \in Logs /\ longer # <<>> /\ longer[Len(longer)] = e
  <2> HIDE DEF log, e
  <2> QED
    BY <1>1 DEF Logs
<1>7. IF log = <<>> THEN health[c].failures = 0
      ELSE health[c].failures = FailingFor(log) /\ Streak(log, FailingFor(log))
  BY DEF MonitorInv, Follows, Unreported
<1>8. FailingFor(longer) = failures /\ Streak(longer, failures)
  <2> HIDE DEF log, e
  <2>1. LET n == IF e.status = "healthy" THEN 0
                 ELSE IF log = <<>> THEN 1 ELSE FailingFor(log) + 1
        IN  Streak(longer, n) /\ FailingFor(longer) = n
    BY <1>1, <1>7, StreakGrows
  <2>2. e.status = status
    BY DEF e
  <2>3. failures = IF e.status = "healthy" THEN 0
                   ELSE IF log = <<>> THEN 1 ELSE FailingFor(log) + 1
    BY <1>1, <1>7, <2>2 DEF failures
  <2> QED
    BY <2>1, <2>3
<1>9. Follows(c)'
  <2> HIDE DEF longer
  <2>1. longer[Len(longer)].status = status /\ longer[Len(longer)].at = opsNow
    BY <1>6
  <2>2. reports'[c] = longer
    BY <1>5 DEF longer
  <2> QED
    BY <1>3, <1>5, <1>6, <1>8, <2>1, <2>2 DEF Follows
<1>10. /\ reports' \in [Components -> Logs]
       /\ health' \in [Components -> [status: Reportable \cup {"unknown"}, failures: Nat, last: Nat \cup {-1}]]
  BY <1>2, <1>3, <1>6 DEF MonitorInv
<1> QED
  BY <1>1, <1>2, <1>4, <1>9, <1>10 DEF MonitorInv

(***************************************************************************)
(* The invariant of the monitor.                                           *)
(***************************************************************************)
LEMMA MonitorInvHolds == OperationsSpec => []MonitorInv
<1>1. OperationsInit => MonitorInv
  <2> SUFFICES ASSUME OperationsInit PROVE MonitorInv
    OBVIOUS
  <2>1. <<>> \in Logs
    BY DEF Logs
  <2>2. reports \in [Components -> Logs] /\ \A c \in Components : reports[c] = <<>>
    BY <2>1 DEF OperationsInit
  <2>3. /\ health \in [Components -> [status: Reportable \cup {"unknown"}, failures: Nat, last: Nat \cup {-1}]]
        /\ \A c \in Components : health[c] = Unreported
    BY DEF OperationsInit, Unreported
  <2> QED
    BY <2>2, <2>3 DEF OperationsInit, MonitorInv, Follows
<1>2. ASSUME MonitorInv, [OperationsNext]_operationsVars PROVE MonitorInv'
  <2>1. CASE MonitorNext
    <3>1. PICK c \in Components, status \in Reportable : Report(c, status)
      BY <2>1 DEF MonitorNext
    <3> QED
      BY <1>2, <3>1, StepReport
  <2>2. CASE UNCHANGED monitorVars /\ opsNow' \in {opsNow, opsNow + 1}
    <3>1. health' = health /\ reports' = reports /\ opsNow' \in Nat
      BY <1>2, <2>2 DEF monitorVars, MonitorInv
    <3> QED
      BY <1>2, <3>1 DEF MonitorInv, Follows
  <2>3. CASE Tick \/ BreakerNext \/ AlertNext \/ UNCHANGED operationsVars
    <3>1. UNCHANGED monitorVars /\ opsNow' \in {opsNow, opsNow + 1}
      BY <2>3 DEF Tick, BreakerNext, Allow, ResultArrives, ResetBreaker, AlertNext, Raise, Resolve,
                  operationsVars
    <3> QED
      BY <2>2, <3>1
  <2> QED
    BY <1>2, <2>1, <2>3 DEF OperationsNext
<1> QED
  BY <1>1, <1>2, PTL DEF OperationsSpec

(***************************************************************************)
(* A status that follows the log permits trading only while what it relies *)
(* on is alive.                                                            *)
(***************************************************************************)
LEMMA MonitorVouches == MonitorInv => TradingVouched
<1> SUFFICES ASSUME MonitorInv, TradingPermitted, NEW c \in Critical
             PROVE  /\ reports[c] # <<>>
                    /\ opsNow - Last(reports[c]).at <= StalenessTimeout
                    /\ Last(reports[c]).status # "unhealthy"
                    /\ FailingFor(reports[c]) < FailuresBeforeUnhealthy
  BY DEF TradingVouched, TradingPermitted
<1>1. c \in Components /\ FailuresBeforeUnhealthy \in Nat
  BY OperationsBounds
<1>2. Follows(c) /\ reports[c] \in Logs /\ opsNow \in Nat /\ StalenessTimeout \in Int
  BY <1>1, OperationsBounds DEF MonitorInv
<1>3. /\ EffectiveStatus(c) \in {"healthy", "degraded"}
      /\ EffectiveStatus(c) = health[c].status
      /\ health[c].last # -1 /\ opsNow - health[c].last <= StalenessTimeout
  <2>1. Severity[EffectiveStatus(c)] <= 1
    BY DEF TradingPermitted, Severity
  <2>2. EffectiveStatus(c) \in {"healthy", "degraded", "unknown", "unhealthy"}
    BY <1>1 DEF EffectiveStatus, MonitorInv, Reportable
  <2>3. EffectiveStatus(c) \in {"healthy", "degraded"}
    BY <2>1, <2>2 DEF Severity
  <2>4. health[c].last \in Int
    BY <1>1 DEF MonitorInv
  <2> QED
    BY <1>2, <2>3, <2>4 DEF EffectiveStatus
<1>4. reports[c] # <<>>
  BY <1>2, <1>3 DEF Follows, Unreported
<1> DEFINE log == reports[c]
           last == log[Len(log)]
           failing == FailingFor(log)
<1>5. Last(log) = last
  BY DEF Last
<1>6. /\ health[c].last = last.at /\ Streak(log, failing)
      /\ health[c].status = IF last.status = "degraded" /\ failing >= FailuresBeforeUnhealthy
                            THEN "unhealthy" ELSE last.status
  BY <1>2, <1>4 DEF Follows
<1>7. last.status # "unhealthy" /\ last.status \in {"healthy", "degraded"}
  BY <1>3, <1>6
<1>8. failing \in Nat /\ Len(log) \in Nat
  BY <1>2, <1>6 DEF Streak, Logs
<1>9. failing < FailuresBeforeUnhealthy
  <2>1. CASE last.status = "degraded"
    <3> HIDE DEF last, failing
    <3> QED
      BY <1>1, <1>3, <1>6, <1>8, <2>1
  <2>2. CASE last.status = "healthy"
    <3>1. failing = 0
      <4>1. CASE failing # 0
        <5>1. Len(log) \in (Len(log) - failing + 1)..Len(log)
          BY <1>8, <4>1
        <5> QED
          BY <1>6, <2>2, <5>1 DEF Streak
      <4> QED
        BY <4>1
    <3> QED
      BY <1>1, <3>1, OperationsBounds
  <2> QED
    BY <1>7, <2>1, <2>2
<1> QED
  BY <1>3, <1>4, <1>5, <1>6, <1>7, <1>9

(***************************************************************************)
(* Trading is permitted only while every component it relies on has        *)
(* reported, recently enough, and is not failing.                          *)
(***************************************************************************)
THEOREM TradingIsVouchedFor == OperationsSpec => []TradingVouched
BY MonitorInvHolds, MonitorVouches, PTL

-----------------------------------------------------------------------------
Breakers == [state: {"closed", "open", "halfOpen"}, window: Seq(BOOLEAN), failures: Nat,
             probes: Nat, openedAt: Nat \cup {-1}]

\* A breaker that is not open has never opened or has been open for its time;
\* one that probes has counted no more successes than there were.
BreakerInv ==
  /\ opsNow \in Nat
  /\ breaker \in Breakers /\ inFlight \in [old: Nat, new: Nat]
  /\ results \in [good: 0..ProbesToClose, late: {0, 1}]
  /\ breaker.openedAt = -1 \/ breaker.state = "open" \/ Elapsed
  /\ breaker.state = "halfOpen" =>
       breaker.probes < ProbesToClose /\ (results.late = 1 \/ results.good >= breaker.probes)
  /\ early = FALSE

(***************************************************************************)
(* The window of results stays a sequence of results.                      *)
(***************************************************************************)
LEMMA PushedIsWindow == ASSUME BreakerInv, NEW ok \in BOOLEAN PROVE Pushed(ok) \in Seq(BOOLEAN)
<1> DEFINE longer == Append(breaker.window, ok)
<1>1. longer \in Seq(BOOLEAN) /\ longer # <<>>
  BY DEF BreakerInv, Breakers
<1> HIDE DEF longer
<1>2. Tail(longer) \in Seq(BOOLEAN)
  BY <1>1
<1>3. Pushed(ok) = IF Len(longer) > BreakerWindow THEN Tail(longer) ELSE longer
  BY DEF Pushed, longer
<1> QED
  BY <1>1, <1>2, <1>3

\* What a result may make of the breaker.

(***************************************************************************)
(* The breaker a success leaves behind.                                    *)
(***************************************************************************)
LEMMA AfterSuccessFacts ==
  ASSUME BreakerInv
  PROVE  /\ AfterSuccess \in Breakers /\ AfterSuccess.openedAt = breaker.openedAt
         /\ breaker.state # "halfOpen" => AfterSuccess.state = breaker.state
         /\ breaker.state = "halfOpen" =>
              \/ AfterSuccess.state = "closed" /\ breaker.probes + 1 >= ProbesToClose
              \/ /\ AfterSuccess.state = "halfOpen" /\ AfterSuccess.probes = breaker.probes + 1
                 /\ breaker.probes + 1 < ProbesToClose
<1> DEFINE win == Pushed(TRUE)
           b == [breaker EXCEPT !.failures = 0, !.window = win]
<1>1. win \in Seq(BOOLEAN)
  BY PushedIsWindow
<1> HIDE DEF win
<1>2. /\ b \in Breakers /\ b.state = breaker.state /\ b.probes = breaker.probes
      /\ b.openedAt = breaker.openedAt
  BY <1>1 DEF BreakerInv, Breakers
<1>3. AfterSuccess = IF b.state # "halfOpen" THEN b
                     ELSE IF b.probes + 1 >= ProbesToClose
                          THEN [b EXCEPT !.state = "closed", !.window = <<>>, !.probes = 0]
                          ELSE [b EXCEPT !.probes = b.probes + 1]
  BY DEF AfterSuccess, win
<1> HIDE DEF b
<1>4. [b EXCEPT !.state = "closed", !.window = <<>>, !.probes = 0] \in Breakers
  <2> DEFINE none == <<>>
             c == [[b EXCEPT !.state = "closed"] EXCEPT !.probes = 0]
  <2>1. none \in Seq(BOOLEAN)
    OBVIOUS
  <2> HIDE DEF none
  <2>2. [b EXCEPT !.state = "closed", !.window = none, !.probes = 0] \in Breakers
    BY <1>2, <2>1 DEF Breakers
  <2> QED
    BY <2>2 DEF none
<1>5. /\ b.probes \in Nat /\ ProbesToClose \in Nat
      /\ [b EXCEPT !.probes = b.probes + 1] \in Breakers
      /\ [b EXCEPT !.probes = b.probes + 1].probes = b.probes + 1
      /\ [b EXCEPT !.probes = b.probes + 1].state = b.state
      /\ [b EXCEPT !.probes = b.probes + 1].openedAt = b.openedAt
  <2> DEFINE n == b.probes + 1
  <2>1. b.probes \in Nat /\ ProbesToClose \in Nat /\ n \in Nat
    BY <1>2, OperationsBounds DEF Breakers
  <2> HIDE DEF n
  <2>2. /\ [b EXCEPT !.probes = n] \in Breakers /\ [b EXCEPT !.probes = n].probes = n
        /\ [b EXCEPT !.probes = n].state = b.state
        /\ [b EXCEPT !.probes = n].openedAt = b.openedAt
    BY <1>2, <2>1 DEF Breakers
  <2> QED
    BY <2>1, <2>2 DEF n
<1>6. /\ [b EXCEPT !.state = "closed", !.window = <<>>, !.probes = 0].state = "closed"
      /\ [b EXCEPT !.state = "closed", !.window = <<>>, !.probes = 0].openedAt = b.openedAt
  BY <1>2 DEF Breakers
<1> QED
  BY <1>2, <1>3, <1>4, <1>5, <1>6

(***************************************************************************)
(* The breaker a failure leaves behind.                                    *)
(***************************************************************************)
LEMMA AfterFailureFacts ==
  ASSUME BreakerInv
  PROVE  /\ AfterFailure \in Breakers
         /\ \/ AfterFailure.state = "open" /\ AfterFailure.openedAt = opsNow /\ breaker.state # "open"
            \/ /\ AfterFailure.state = breaker.state /\ AfterFailure.openedAt = breaker.openedAt
               /\ breaker.state # "halfOpen"
<1> DEFINE win == Pushed(FALSE)
           more == breaker.failures + 1
           b == [breaker EXCEPT !.failures = more, !.window = win]
<1>1. win \in Seq(BOOLEAN) /\ more \in Nat
  <2>1. win \in Seq(BOOLEAN)
    BY PushedIsWindow
  <2>2. more \in Nat
    BY DEF BreakerInv, Breakers
  <2> QED
    BY <2>1, <2>2
<1> HIDE DEF win, more
<1>2. /\ b \in Breakers /\ b.state = breaker.state /\ b.openedAt = breaker.openedAt
  BY <1>1 DEF BreakerInv, Breakers
<1>3. PICK tooMany \in BOOLEAN :
        AfterFailure = IF b.state = "halfOpen" \/ (b.state = "closed" /\ tooMany)
                       THEN [b EXCEPT !.state = "open", !.openedAt = opsNow, !.probes = 0] ELSE b
  <2> DEFINE many == \/ b.failures >= FailureThreshold
                     \/ /\ Len(b.window) >= RateSamples
                        /\ 100 * FailedIn(b.window) >= RatePercent * Len(b.window)
  <2>1. many \in BOOLEAN
    OBVIOUS
  <2>2. AfterFailure = IF b.state = "halfOpen" \/ (b.state = "closed" /\ many)
                       THEN [b EXCEPT !.state = "open", !.openedAt = opsNow, !.probes = 0] ELSE b
    BY DEF AfterFailure, Tripped, win, more
  <2> HIDE DEF many
  <2> QED
    BY <2>1, <2>2
<1> HIDE DEF b
<1>4. LET tripped == [b EXCEPT !.state = "open", !.openedAt = opsNow, !.probes = 0]
      IN  tripped \in Breakers /\ tripped.state = "open" /\ tripped.openedAt = opsNow
  BY <1>2 DEF Breakers, BreakerInv
<1> QED
  BY <1>2, <1>3, <1>4 DEF Breakers

(***************************************************************************)
(* Asking the breaker moves it to half open at most, and only after its    *)
(* time.                                                                   *)
(***************************************************************************)
LEMMA StepAllow == ASSUME BreakerInv, Allow PROVE BreakerInv'
<1>1. CASE breaker.state = "open"
  <2>1. /\ Elapsed /\ breaker' = [breaker EXCEPT !.state = "halfOpen", !.probes = 0]
        /\ inFlight' = [inFlight EXCEPT !.new = inFlight.new + 1]
        /\ early' = (early \/ (breaker.openedAt # -1 /\ ~Elapsed))
        /\ opsNow' = opsNow /\ results' = results
    BY <1>1 DEF Allow
  <2>2. /\ breaker' \in Breakers /\ breaker'.state = "halfOpen" /\ breaker'.probes = 0
        /\ breaker'.openedAt = breaker.openedAt /\ inFlight' \in [old: Nat, new: Nat]
        /\ early' = FALSE
    <3>1. /\ breaker' \in Breakers /\ breaker'.state = "halfOpen" /\ breaker'.probes = 0
          /\ breaker'.openedAt = breaker.openedAt
      BY <2>1 DEF BreakerInv, Breakers
    <3> DEFINE n == inFlight.new + 1
    <3>2. n \in Nat
      BY DEF BreakerInv
    <3> HIDE DEF n
    <3>3. [inFlight EXCEPT !.new = n] \in [old: Nat, new: Nat]
      BY <3>2 DEF BreakerInv
    <3> QED
      BY <2>1, <3>1, <3>3 DEF BreakerInv, n
  <2>3. Elapsed'
    BY <2>1, <2>2 DEF Elapsed
  <2>4. results.good \in Nat /\ 0 < ProbesToClose
    BY OperationsBounds DEF BreakerInv
  <2> QED
    BY <2>1, <2>2, <2>3, <2>4 DEF BreakerInv
<1>2. CASE breaker.state # "open"
  <2>1. /\ breaker' = breaker
        /\ inFlight' = [inFlight EXCEPT !.new = inFlight.new + 1]
        /\ early' = (early \/ (breaker.openedAt # -1 /\ ~Elapsed))
        /\ opsNow' = opsNow /\ results' = results
    BY <1>2 DEF Allow
  <2>2. inFlight' \in [old: Nat, new: Nat] /\ early' = FALSE
    <3> DEFINE n == inFlight.new + 1
    <3>1. n \in Nat
      BY DEF BreakerInv
    <3> HIDE DEF n
    <3>2. [inFlight EXCEPT !.new = n] \in [old: Nat, new: Nat]
      BY <3>1 DEF BreakerInv
    <3>3. early' = FALSE
      BY <1>2, <2>1 DEF BreakerInv
    <3> QED
      BY <2>1, <3>2, <3>3 DEF n
  <2> QED
    BY <2>1, <2>2 DEF BreakerInv, Elapsed
<1> QED
  BY <1>1, <1>2

(***************************************************************************)
(* The result of a call that was let through.                              *)
(***************************************************************************)
LEMMA StepResultArrives ==
  ASSUME BreakerInv, ResultArrives
  PROVE  /\ BreakerInv'
         /\ breaker.state = "halfOpen" /\ breaker'.state = "closed"
              => results'.late = 1 \/ results'.good >= ProbesToClose
<1> DEFINE trips == breaker'.state = "open" /\ breaker.state # "open"
<1>1. PICK epoch \in {"old", "new"}, ok \in BOOLEAN :
        /\ inFlight[epoch] > 0
        /\ breaker' = IF ok THEN AfterSuccess ELSE AfterFailure
        /\ LET left == [inFlight EXCEPT ![epoch] = inFlight[epoch] - 1]
           IN  inFlight' = IF trips THEN [old |-> left.old + left.new, new |-> 0] ELSE left
        /\ results' = IF trips THEN NoResults
                      ELSE [good |-> IF ok /\ epoch = "new" /\ results.good < ProbesToClose
                                     THEN results.good + 1
                                     ELSE IF ok THEN results.good ELSE 0,
                            late |-> IF epoch = "old" /\ breaker.state = "halfOpen"
                                     THEN 1 ELSE results.late]
        /\ opsNow' = opsNow /\ early' = early
  BY DEF ResultArrives
<1>2. /\ breaker' \in Breakers /\ opsNow \in Nat
      /\ breaker.openedAt = -1 \/ breaker.state = "open" \/ Elapsed
  BY <1>1, AfterSuccessFacts, AfterFailureFacts DEF BreakerInv
<1>3. inFlight' \in [old: Nat, new: Nat]
  <2> DEFINE left == [inFlight EXCEPT ![epoch] = inFlight[epoch] - 1]
  <2>1. CASE epoch = "old"
    <3>1. left \in [old: Nat, new: Nat]
      BY <1>1, <2>1 DEF BreakerInv
    <3> HIDE DEF left
    <3> QED
      BY <1>1, <3>1 DEF left
  <2>2. CASE epoch = "new"
    <3>1. left \in [old: Nat, new: Nat]
      BY <1>1, <2>2 DEF BreakerInv
    <3> HIDE DEF left
    <3> QED
      BY <1>1, <3>1 DEF left
  <2> QED
    BY <2>1, <2>2
<1>4. results.good \in 0..ProbesToClose /\ results.late \in {0, 1} /\ ProbesToClose \in Nat \ {0}
  BY OperationsBounds DEF BreakerInv
<1>5. results' \in [good: 0..ProbesToClose, late: {0, 1}]
  BY <1>1, <1>4 DEF NoResults
<1>6. breaker'.openedAt = -1 \/ breaker'.state = "open" \/ Elapsed'
  <2>1. CASE ok
    BY <1>1, <1>2, <2>1, AfterSuccessFacts DEF Elapsed
  <2>2. CASE ~ok
    BY <1>1, <1>2, <2>2, AfterFailureFacts DEF Elapsed
  <2> QED
    BY <2>1, <2>2
<1>7. ASSUME breaker.state = "halfOpen", breaker'.state # "open"
      PROVE  /\ ok
             /\ results'.late = 1 \/ results'.good >= breaker.probes + 1
             /\ \/ breaker'.state = "closed" /\ breaker.probes + 1 >= ProbesToClose
                \/ /\ breaker'.state = "halfOpen" /\ breaker'.probes = breaker.probes + 1
                   /\ breaker.probes + 1 < ProbesToClose
  <2>1. ok
    BY <1>1, <1>7, AfterFailureFacts
  <2>2. \/ breaker'.state = "closed" /\ breaker.probes + 1 >= ProbesToClose
        \/ /\ breaker'.state = "halfOpen" /\ breaker'.probes = breaker.probes + 1
           /\ breaker.probes + 1 < ProbesToClose
    BY <1>1, <1>7, <2>1, AfterSuccessFacts
  <2>3. /\ breaker.probes \in Nat /\ breaker.probes < ProbesToClose
        /\ results.late = 1 \/ results.good >= breaker.probes
    BY <1>7 DEF BreakerInv, Breakers
  <2>4. /\ results'.good = IF epoch = "new" /\ results.good < ProbesToClose
                           THEN results.good + 1 ELSE results.good
        /\ results'.late = IF epoch = "old" THEN 1 ELSE results.late
    BY <1>1, <1>7, <2>1
  <2> QED
    BY <1>4, <2>1, <2>2, <2>3, <2>4
<1>8. breaker'.state = "halfOpen" => breaker.state = "halfOpen"
  BY <1>1, AfterSuccessFacts, AfterFailureFacts
<1>9. BreakerInv'
  BY <1>1, <1>2, <1>3, <1>5, <1>6, <1>7, <1>8 DEF BreakerInv
<1>10. breaker.state = "halfOpen" /\ breaker'.state = "closed"
         => results'.late = 1 \/ results'.good >= ProbesToClose
  <2> SUFFICES ASSUME breaker.state = "halfOpen", breaker'.state = "closed"
               PROVE  results'.late = 1 \/ results'.good >= ProbesToClose
    OBVIOUS
  <2>1. /\ results'.late = 1 \/ results'.good >= breaker.probes + 1
        /\ breaker.probes + 1 >= ProbesToClose
    BY <1>7
  <2>2. results'.good \in Int /\ breaker.probes \in Int
    BY <1>4, <1>5 DEF BreakerInv, Breakers
  <2> QED
    BY <1>4, <2>1, <2>2
<1> QED
  BY <1>9, <1>10

(***************************************************************************)
(* After a trip nothing is let through before the breaker has been open    *)
(* for its time, and it closes only after the probes it wants have         *)
(* succeeded, or after the result of a call from before the trip came in   *)
(* while it was probing.                                                   *)
(***************************************************************************)
THEOREM BreakerKeepsItsWord == OperationsSpec => BreakerShields
<1> DEFINE Shielded == /\ ~early'
                       /\ breaker.state = "halfOpen" /\ breaker'.state = "closed" /\ breaker' # ClosedBreaker
                            => results'.late = 1 \/ results'.good >= ProbesToClose
<1>1. OperationsInit => BreakerInv
  BY OperationsBounds DEF OperationsInit, BreakerInv, ClosedBreaker, NoResults, Breakers
<1>2. ASSUME BreakerInv, [OperationsNext]_operationsVars PROVE BreakerInv' /\ [Shielded]_operationsVars
  <2>1. CASE Allow
    <3>1. BreakerInv' /\ ~(breaker.state = "halfOpen" /\ breaker'.state = "closed")
      BY <1>2, <2>1, StepAllow DEF Allow
    <3> QED
      BY <3>1 DEF BreakerInv
  <2>2. CASE ResultArrives
    <3>1. BreakerInv' /\ (breaker.state = "halfOpen" /\ breaker'.state = "closed"
                            => results'.late = 1 \/ results'.good >= ProbesToClose)
      BY <1>2, <2>2, StepResultArrives
    <3> QED
      BY <3>1 DEF BreakerInv
  <2>3. CASE ResetBreaker
    <3>1. /\ breaker' = ClosedBreaker /\ results' = NoResults
          /\ UNCHANGED <<opsNow, inFlight, early>>
      BY <2>3 DEF ResetBreaker
    <3>2. breaker' \in Breakers /\ breaker'.openedAt = -1 /\ breaker'.state = "closed"
      BY <3>1 DEF ClosedBreaker, Breakers
    <3>3. results' \in [good: 0..ProbesToClose, late: {0, 1}]
      BY <3>1, OperationsBounds DEF NoResults
    <3>4. BreakerInv'
      BY <1>2, <3>1, <3>2, <3>3 DEF BreakerInv
    <3> QED
      BY <1>2, <3>1, <3>4 DEF BreakerInv
  <2>4. CASE Tick \/ MonitorNext \/ AlertNext \/ UNCHANGED operationsVars
    <3>1. UNCHANGED breakerVars /\ opsNow' \in {opsNow, opsNow + 1}
      BY <2>4 DEF Tick, MonitorNext, Report, AlertNext, Raise, Resolve, operationsVars
    <3>2. UNCHANGED <<breaker, inFlight, results, early>>
      BY <3>1 DEF breakerVars
    <3>3. Elapsed /\ breaker.openedAt # -1 => Elapsed'
      <4> HIDE DEF Shielded
      <4>1. opsNow \in Nat /\ breaker.openedAt \in Int /\ OpenDuration \in Nat
        BY <1>2, OperationsBounds DEF BreakerInv, Breakers
      <4>2. opsNow' >= opsNow /\ opsNow' \in Nat
        BY <3>1, <4>1
      <4> QED
        BY <3>2, <4>1, <4>2 DEF Elapsed
    <3>4. opsNow' \in Nat
      BY <1>2, <3>1 DEF BreakerInv
    <3>5. BreakerInv'
      <4> HIDE DEF Shielded
      <4>1. breaker.openedAt = -1 \/ breaker.state = "open" \/ Elapsed
        BY <1>2 DEF BreakerInv
      <4>2. breaker'.openedAt = -1 \/ breaker'.state = "open" \/ Elapsed'
        BY <3>2, <3>3, <4>1
      <4> QED
        BY <1>2, <3>2, <3>4, <4>2 DEF BreakerInv
    <3>6. ~early'
      BY <3>5 DEF BreakerInv
    <3> QED
      BY <3>2, <3>5, <3>6
  <2> QED
    BY <1>2, <2>1, <2>2, <2>3, <2>4 DEF OperationsNext, BreakerNext
<1> QED
  BY <1>1, <1>2, PTL DEF OperationsSpec, BreakerShields

(***************************************************************************)
(* Both promises of the operations layer together.                         *)
(***************************************************************************)
THEOREM OperationsAreShielded == OperationsSpec => OperationsShieldTrading
BY TradingIsVouchedFor, BreakerKeepsItsWord, PTL DEF OperationsShieldTrading

-----------------------------------------------------------------------------
(***************************************************************************)
(* PaperVenue.  What is on its way to the account counts against it as     *)
(* much as what it holds: an order sent while nothing is on its way takes  *)
(* no more than the buying power, and whatever becomes of it afterwards    *)
(* moves quantity from the order to a fill, and from there to the shares.  *)
(***************************************************************************)

(***************************************************************************)
(* A sum is no larger than the sum of the sizes: what the shares grow by   *)
(* when fills are booked is within what was on its way.                    *)
(***************************************************************************)
LEMMA SumOfSizes ==
  ASSUME NEW S, IsFiniteSet(S), NEW f, NEW sizes, \A x \in S : f[x] \in Int /\ sizes[x] = Abs(f[x])
  PROVE  /\ SumFunctionOnSet(f, S) \in Int /\ SumFunctionOnSet(sizes, S) \in Nat
         /\ Abs(SumFunctionOnSet(f, S)) <= SumFunctionOnSet(sizes, S)
<1> DEFINE F(s) == SumFunctionOnSet(f, s)
           G(s) == SumFunctionOnSet(sizes, s)
           P == {s \in SUBSET S : Abs(F(s)) <= G(s)}
<1>0. \A x \in S : f[x] \in Int /\ sizes[x] \in Nat
  BY DEF Abs
<1>1. \A s \in SUBSET S : F(s) \in Int /\ G(s) \in Nat
  BY <1>0, FS_Subset, SumType, SumNotNegative
<1>2. {} \in P
  BY SumEmpty DEF Abs
<1>3. ASSUME NEW s \in SUBSET S, NEW x \in S \ s, s \in P
      PROVE  s \cup {x} \in P
  <2>1. IsFiniteSet(s \cup {x}) /\ (s \cup {x}) \ {x} = s
    BY FS_Subset
  <2>2. F(s \cup {x}) = f[x] + F(s)
    BY <1>0, <2>1, SumTakingAny
  <2>3. G(s \cup {x}) = sizes[x] + G(s)
    BY <1>0, <2>1, SumTakingAny
  <2>4. F(s) \in Int /\ G(s) \in Nat /\ Abs(F(s)) <= G(s)
    BY <1>1, <1>3
  <2> HIDE DEF F, G
  <2>5. f[x] \in Int /\ sizes[x] = Abs(f[x])
    OBVIOUS
  <2>6. Abs(F(s \cup {x})) <= G(s \cup {x})
    BY <2>2, <2>3, <2>4, <2>5 DEF Abs
  <2> QED
    BY <2>6
<1>4. S \in P
  <2> HIDE DEF P
  <2> QED
    BY <1>2, <1>3, FiniteInduction
<1> QED
  BY <1>1, <1>4

Fills == [quantity: Int, price: Int]
OrderIds == 1..MaxVenueOrders

VenueTyped ==
  /\ cash \in Int /\ shares \in Int /\ markPrice \in Nat \ {0}
  /\ alive \in [OrderIds -> Int] /\ working \in SUBSET OrderIds /\ routed \in Seq(Fills)
  /\ asked \in 0..MaxVenueOrders /\ taken \in Int /\ refused \in Int

\* Each order asked for is answered once, and no number is used twice.
AnsweredOnce ==
  /\ asked = taken + refused
  /\ \A id \in OrderIds : id > asked => alive[id] = 0
  /\ \A id \in working : alive[id] # 0

OrderSizesOut == [id \in DOMAIN alive |-> Abs(alive[id])]
FillSizesOut == [i \in DOMAIN routed |-> Abs(routed[i].quantity)]
OnItsWay == SumFunction(OrderSizesOut) + SumFunction(FillSizesOut)

\* Until orders meet or the price moves.
Covered ==
  ~crowded => /\ Equity > 0
              /\ (Abs(shares) + OnItsWay) * markPrice <= 4 * Equity
              /\ \A i \in DOMAIN routed : routed[i].price = markPrice

VenueInv == VenueTyped /\ AnsweredOnce /\ Covered

(***************************************************************************)
(* The two totals are numbers, and nothing is on its way when nothing is   *)
(* in flight.                                                              *)
(***************************************************************************)
LEMMA WayFacts ==
  ASSUME VenueTyped
  PROVE  /\ IsFiniteSet(DOMAIN alive) /\ DOMAIN OrderSizesOut = DOMAIN alive
         /\ DOMAIN alive = OrderIds
         /\ \A id \in DOMAIN alive : OrderSizesOut[id] = Abs(alive[id]) /\ OrderSizesOut[id] \in Nat
         /\ IsFiniteSet(DOMAIN routed) /\ DOMAIN FillSizesOut = DOMAIN routed
         /\ DOMAIN routed = 1..Len(routed) /\ Len(routed) \in Nat
         /\ \A i \in DOMAIN routed : /\ routed[i].quantity \in Int /\ routed[i].price \in Int
                                     /\ FillSizesOut[i] = Abs(routed[i].quantity)
                                     /\ FillSizesOut[i] \in Nat
         /\ SumFunction(OrderSizesOut) \in Nat /\ SumFunction(FillSizesOut) \in Nat
         /\ OnItsWay \in Nat
<1>1. DOMAIN alive = OrderIds /\ \A id \in DOMAIN alive : alive[id] \in Int
  BY DEF VenueTyped
<1>2. IsFiniteSet(DOMAIN alive)
  BY <1>1, VenueTerms, FS_Interval DEF OrderIds
<1>3. DOMAIN OrderSizesOut = DOMAIN alive
      /\ \A id \in DOMAIN alive : OrderSizesOut[id] = Abs(alive[id]) /\ OrderSizesOut[id] \in Nat
  BY <1>1 DEF OrderSizesOut, Abs
<1>4. DOMAIN routed = 1..Len(routed) /\ Len(routed) \in Nat
      /\ \A i \in DOMAIN routed : routed[i] \in Fills
  BY DEF VenueTyped
<1>5. IsFiniteSet(DOMAIN routed)
  BY <1>4, FS_Interval
<1>6. \A i \in DOMAIN routed : routed[i].quantity \in Int /\ routed[i].price \in Int
  BY <1>4 DEF Fills
<1>7. DOMAIN FillSizesOut = DOMAIN routed
      /\ \A i \in DOMAIN routed : FillSizesOut[i] = Abs(routed[i].quantity) /\ FillSizesOut[i] \in Nat
  BY <1>6 DEF FillSizesOut, Abs
<1>8. SumFunction(OrderSizesOut) \in Nat /\ SumFunction(FillSizesOut) \in Nat
  BY <1>2, <1>3, <1>5, <1>7, SumNotNegative DEF SumFunction
<1>9. OnItsWay \in Nat
  BY <1>8 DEF OnItsWay
<1> QED
  BY <1>1, <1>2, <1>3, <1>4, <1>5, <1>6, <1>7, <1>8, <1>9

LEMMA NothingOnItsWay ==
  ASSUME VenueTyped, ~InFlight
  PROVE  OnItsWay = 0
<1>1. routed = <<>> /\ \A id \in DOMAIN alive : alive[id] = 0
  BY DEF InFlight
<1>2. SumFunction(FillSizesOut) = 0
  <2>1. DOMAIN FillSizesOut = {}
    BY <1>1 DEF FillSizesOut
  <2> QED
    BY <2>1, SumEmpty DEF SumFunction
<1>3. SumFunction(OrderSizesOut) = 0
  <2> DEFINE zeros == [id \in DOMAIN alive |-> 0]
  <2>1. OrderSizesOut = zeros
    BY <1>1 DEF OrderSizesOut, Abs
  <2>2. IsFiniteSet(DOMAIN alive)
    BY WayFacts
  <2>3. \A id \in DOMAIN alive : zeros[id] \in Int /\ zeros[id] = zeros[id] * 0
    OBVIOUS
  <2> HIDE DEF zeros
  <2>4. SumFunctionOnSet(zeros, DOMAIN alive) = SumFunctionOnSet(zeros, DOMAIN alive) * 0
    BY <2>2, <2>3, SumTimes
  <2>5. SumFunctionOnSet(zeros, DOMAIN alive) \in Int
    BY <2>2, <2>3, SumType
  <2>6. SumFunctionOnSet(zeros, DOMAIN alive) = 0
    BY <2>4, <2>5
  <2>7. DOMAIN zeros = DOMAIN alive
    BY DEF zeros
  <2> QED
    BY <2>1, <2>6, <2>7 DEF SumFunction
<1> QED
  BY <1>2, <1>3 DEF OnItsWay

(***************************************************************************)
(* One order that changes: the total follows it.                           *)
(***************************************************************************)
LEMMA OneOrderChanges ==
  ASSUME VenueTyped, NEW id \in OrderIds, NEW left \in Int, alive' = [alive EXCEPT ![id] = left]
  PROVE  /\ alive' \in [OrderIds -> Int] /\ alive'[id] = left
         /\ \A other \in OrderIds \ {id} : alive'[other] = alive[other]
         /\ SumFunction(OrderSizesOut)' = SumFunction(OrderSizesOut) - Abs(alive[id]) + Abs(left)
<1>1. alive \in [OrderIds -> Int]
  BY DEF VenueTyped
<1>2. /\ alive' \in [OrderIds -> Int] /\ alive'[id] = left
      /\ \A other \in OrderIds \ {id} : alive'[other] = alive[other]
  BY <1>1
<1>3. /\ DOMAIN OrderSizesOut' = OrderIds /\ OrderSizesOut'[id] = Abs(left)
      /\ \A other \in OrderIds \ {id} : OrderSizesOut'[other] = Abs(alive[other])
  BY <1>1, <1>2 DEF OrderSizesOut
<1>4. Abs(left) \in Int
  BY DEF Abs
<1>5. /\ IsFiniteSet(DOMAIN OrderSizesOut) /\ DOMAIN OrderSizesOut = OrderIds
      /\ \A x \in OrderIds : OrderSizesOut[x] = Abs(alive[x]) /\ OrderSizesOut[x] \in Int
  BY WayFacts
<1>6. SumFunction(OrderSizesOut') = SumFunction(OrderSizesOut) - OrderSizesOut[id] + OrderSizesOut'[id]
  BY <1>3, <1>4, <1>5, SumAfterChange
<1>7. SumFunction(OrderSizesOut)' = SumFunction(OrderSizesOut')
  BY DEF SumFunction
<1> QED
  BY <1>2, <1>3, <1>5, <1>6, <1>7

(***************************************************************************)
(* An order sent alone takes no more than the buying power.                *)
(***************************************************************************)
LEMMA SubmitKeeps ==
  ASSUME VenueInv, NEW size \in OrderSizes, NEW quantity \in {size, -size}, SubmitToVenue(quantity)
  PROVE  VenueInv'
<1> DEFINE id == asked + 1
           sent == Answer(quantity) = "none"
<1>0. VenueTyped /\ AnsweredOnce /\ Covered
  BY DEF VenueInv
<1>1. size \in Nat \ {0} /\ quantity \in Int /\ quantity # 0 /\ BuyingPower \in 0..4
      /\ MaxVenueOrders \in Nat
  BY VenueTerms
<1>2. /\ asked < MaxVenueOrders /\ asked' = id
      /\ taken' = taken + (IF sent THEN 1 ELSE 0)
      /\ refused' = refused + (IF sent THEN 0 ELSE 1)
      /\ alive' = [alive EXCEPT ![id] = IF sent THEN quantity ELSE 0]
      /\ working' = IF sent THEN working \cup {id} ELSE working
      /\ UNCHANGED <<linked, suspended, cash, shares, markPrice, routed>>
  BY DEF SubmitToVenue
<1>3. ~crowded' => ~crowded /\ ~(sent /\ InFlight)
  <2>1. crowded' = (crowded \/ (sent /\ InFlight))
    BY DEF SubmitToVenue
  <2> HIDE DEF sent
  <2> QED
    BY <2>1, Zenon
<1>4. id \in OrderIds /\ alive[id] = 0 /\ id \notin working
  BY <1>0, <1>1, <1>2 DEF VenueTyped, AnsweredOnce, OrderIds
<1> DEFINE left == IF sent THEN quantity ELSE 0
<1>5. left \in Int /\ alive' = [alive EXCEPT ![id] = left]
  BY <1>1, <1>2
<1>6. /\ alive' \in [OrderIds -> Int] /\ alive'[id] = left
      /\ \A other \in OrderIds \ {id} : alive'[other] = alive[other]
      /\ SumFunction(OrderSizesOut)' = SumFunction(OrderSizesOut) - Abs(alive[id]) + Abs(left)
  <2> HIDE DEF left, id
  <2> QED
    BY <1>0, <1>4, <1>5, OneOrderChanges
<1>7. VenueTyped'
  BY <1>0, <1>1, <1>2, <1>4, <1>6 DEF VenueTyped, OrderIds
<1>8. AnsweredOnce'
  <2>1. asked' = taken' + refused'
    BY <1>0, <1>2 DEF AnsweredOnce, VenueTyped
  <2>2. \A x \in OrderIds : x > asked' => alive'[x] = 0
    BY <1>0, <1>2, <1>6 DEF AnsweredOnce, VenueTyped, OrderIds
  <2>3. \A x \in working' : alive'[x] # 0
    <3>1. \A x \in working : x \in OrderIds \ {id} /\ alive[x] # 0
      BY <1>0, <1>4 DEF AnsweredOnce, VenueTyped
    <3>2. \A x \in working' : x \in working \/ (x = id /\ sent)
      BY <1>2
    <3> QED
      BY <1>1, <1>6, <3>1, <3>2
  <2> QED
    BY <2>1, <2>2, <2>3 DEF AnsweredOnce
<1>9. OnItsWay' = OnItsWay + Abs(left)
  <2>1. FillSizesOut' = FillSizesOut
    BY <1>2 DEF FillSizesOut
  <2>2. SumFunction(FillSizesOut)' = SumFunction(FillSizesOut)
    BY <2>1 DEF SumFunction
  <2>3. Abs(alive[id]) = 0 /\ Abs(left) \in Int
    BY <1>4, <1>5 DEF Abs
  <2>4. SumFunction(OrderSizesOut) \in Nat /\ SumFunction(FillSizesOut) \in Nat
    BY <1>0, WayFacts
  <2> HIDE DEF left, id
  <2> QED
    BY <1>6, <2>2, <2>3, <2>4 DEF OnItsWay
<1>10. Covered'
  <2> SUFFICES ASSUME ~crowded' PROVE Covered'
    BY DEF Covered
  <2>1. /\ Equity > 0 /\ (Abs(shares) + OnItsWay) * markPrice <= 4 * Equity
        /\ \A i \in DOMAIN routed : routed[i].price = markPrice
    BY <1>0, <1>3 DEF Covered
  <2>2. Equity' = Equity /\ shares' = shares /\ markPrice' = markPrice /\ routed' = routed
    BY <1>2 DEF Equity
  <2>3. /\ Equity \in Int /\ Abs(shares) \in Nat /\ markPrice \in Nat \ {0} /\ OnItsWay \in Nat
    BY <1>0, WayFacts DEF VenueTyped, Equity, Abs
  <2>4. (Abs(shares) + OnItsWay') * markPrice <= 4 * Equity
    <3>1. CASE ~sent
      <4>1. Abs(left) = 0
        BY <3>1 DEF Abs
      <4>2. OnItsWay' = OnItsWay
        BY <1>9, <2>3, <4>1
      <4> QED
        BY <2>1, <4>2
    <3>2. CASE sent
      <4>1. OnItsWay = 0
        BY <1>0, <1>3, <3>2, NothingOnItsWay
      <4>2. CanAccept(quantity, markPrice)
        BY <3>2 DEF Answer, Screen
      <4>3. Abs(quantity) * markPrice <= AvailableBuyingPower
        BY <4>2 DEF CanAccept
      <4>4. Abs(quantity) \in Nat \ {0} /\ Abs(quantity) * markPrice \in Nat \ {0}
        BY <1>1, <2>3, SMTT(20) DEF Abs
      <4>5. /\ AvailableBuyingPower = Equity * BuyingPower - Abs(shares) * markPrice
            /\ Equity * BuyingPower \in Int /\ Abs(shares) * markPrice \in Int
        BY <1>1, <2>1, <2>3, <4>3, <4>4 DEF AvailableBuyingPower, GrossExposure
      <4>6. Equity * BuyingPower <= 4 * Equity
        BY <1>1, <2>1, <2>3, SMTT(20)
      <4>7. OnItsWay' = Abs(quantity)
        BY <1>9, <3>2, <4>1, <4>4
      <4>8. (Abs(shares) + Abs(quantity)) * markPrice
              = Abs(shares) * markPrice + Abs(quantity) * markPrice
        BY <2>3, <4>4, SMTT(20)
      <4> QED
        BY <2>3, <4>3, <4>4, <4>5, <4>6, <4>7, <4>8
    <3> QED
      BY <3>1, <3>2
  <2> QED
    BY <2>1, <2>2, <2>4 DEF Covered
<1> QED
  BY <1>7, <1>8, <1>10 DEF VenueInv

(***************************************************************************)
(* With less on its way and nothing booked, the account stays covered.     *)
(***************************************************************************)
LEMMA LessOnItsWay ==
  ASSUME VenueTyped, Covered, OnItsWay' \in Int, OnItsWay' <= OnItsWay,
         UNCHANGED <<cash, shares, markPrice, routed, crowded>>
  PROVE  Covered'
<1> SUFFICES ASSUME ~crowded' PROVE Covered'
  BY DEF Covered
<1>1. /\ Equity > 0 /\ (Abs(shares) + OnItsWay) * markPrice <= 4 * Equity
      /\ \A i \in DOMAIN routed : routed[i].price = markPrice
  BY DEF Covered
<1>2. Equity' = Equity /\ shares' = shares /\ markPrice' = markPrice /\ routed' = routed
  BY DEF Equity
<1>3. /\ Equity \in Int /\ Abs(shares) \in Nat /\ markPrice \in Nat \ {0} /\ OnItsWay \in Nat
  BY WayFacts DEF VenueTyped, Equity, Abs
<1>4. \A a, b, c, p \in Int : p > 0 /\ c <= b => /\ (a + c) * p <= (a + b) * p
                                                 /\ (a + c) * p \in Int /\ (a + b) * p \in Int
  BY SMTT(20)
<1>5. /\ (Abs(shares) + OnItsWay') * markPrice <= (Abs(shares) + OnItsWay) * markPrice
      /\ (Abs(shares) + OnItsWay') * markPrice \in Int
      /\ (Abs(shares) + OnItsWay) * markPrice \in Int
  BY <1>3, <1>4
<1>6. (Abs(shares) + OnItsWay') * markPrice <= 4 * Equity
  BY <1>1, <1>3, <1>5
<1> QED
  BY <1>1, <1>2, <1>6 DEF Covered

(***************************************************************************)
(* A cancelled order takes its quantity off what is on its way.            *)
(***************************************************************************)
LEMMA CancelKeeps ==
  ASSUME VenueInv, NEW id \in OrderIds, Cancel(id)
  PROVE  VenueInv'
<1>0. VenueTyped /\ AnsweredOnce /\ Covered
  BY DEF VenueInv
<1>1. /\ alive[id] # 0 /\ alive' = [alive EXCEPT ![id] = 0] /\ working' = working \ {id}
      /\ UNCHANGED <<cash, shares, markPrice, routed, asked, taken, refused, crowded>>
  BY DEF Cancel
<1>2. /\ alive' \in [OrderIds -> Int] /\ alive'[id] = 0
      /\ \A other \in OrderIds \ {id} : alive'[other] = alive[other]
      /\ SumFunction(OrderSizesOut)' = SumFunction(OrderSizesOut) - Abs(alive[id]) + Abs(0)
  <2> DEFINE left == 0
  <2>1. left \in Int /\ alive' = [alive EXCEPT ![id] = left]
    BY <1>1
  <2> HIDE DEF left
  <2>2. /\ alive' \in [OrderIds -> Int] /\ alive'[id] = left
        /\ \A other \in OrderIds \ {id} : alive'[other] = alive[other]
        /\ SumFunction(OrderSizesOut)' = SumFunction(OrderSizesOut) - Abs(alive[id]) + Abs(left)
    BY <1>0, <2>1, OneOrderChanges
  <2> QED
    BY <2>2 DEF left
<1>3. VenueTyped'
  BY <1>0, <1>1, <1>2 DEF VenueTyped
<1>4. AnsweredOnce'
  BY <1>0, <1>1, <1>2 DEF AnsweredOnce, VenueTyped, OrderIds
<1>5. OnItsWay' <= OnItsWay /\ OnItsWay' \in Int /\ OnItsWay \in Nat
  <2>1. SumFunction(FillSizesOut)' = SumFunction(FillSizesOut)
    BY <1>1 DEF FillSizesOut, SumFunction
  <2>2. Abs(alive[id]) \in Nat /\ Abs(0) = 0
    BY <1>0, WayFacts DEF Abs
  <2>3. SumFunction(OrderSizesOut) \in Nat /\ SumFunction(FillSizesOut) \in Nat /\ OnItsWay \in Nat
    BY <1>0, WayFacts
  <2> QED
    BY <1>2, <2>1, <2>2, <2>3 DEF OnItsWay
<1>6. Covered'
  BY <1>0, <1>1, <1>3, <1>5, LessOnItsWay
<1> QED
  BY <1>3, <1>4, <1>6 DEF VenueInv

(***************************************************************************)
(* A fill moves its quantity from the order to the queue.                  *)
(***************************************************************************)
LEMMA FillKeeps ==
  ASSUME VenueInv, NEW id \in OrderIds,
         NEW part \in {alive[id], alive[id] - Sgn(alive[id])} \ {0}, FillAndRoute(id, part)
  PROVE  VenueInv'
<1> DEFINE left == alive[id] - part
           fill == [quantity |-> part, price |-> markPrice]
<1>0. VenueTyped /\ AnsweredOnce /\ Covered
  BY DEF VenueInv
<1>1. /\ alive[id] # 0 /\ alive' = [alive EXCEPT ![id] = left] /\ working' = working \ {id}
      /\ routed' = Append(routed, fill)
      /\ UNCHANGED <<cash, shares, markPrice, asked, taken, refused, crowded>>
  BY DEF FillAndRoute
<1>2. alive[id] \in Int /\ part \in Int /\ left \in Int /\ markPrice \in Int /\ part # 0
      /\ Abs(left) + Abs(part) = Abs(alive[id]) /\ Abs(part) \in Nat /\ Abs(left) \in Nat
  BY <1>0 DEF VenueTyped, Sgn, Abs
<1> HIDE DEF left
<1>3. /\ alive' \in [OrderIds -> Int] /\ alive'[id] = left
      /\ \A other \in OrderIds \ {id} : alive'[other] = alive[other]
      /\ SumFunction(OrderSizesOut)' = SumFunction(OrderSizesOut) - Abs(alive[id]) + Abs(left)
  BY <1>0, <1>1, <1>2, OneOrderChanges
<1>4. /\ routed' \in Seq(Fills) /\ DOMAIN routed' = DOMAIN routed \cup {Len(routed) + 1}
      /\ Len(routed) + 1 \notin DOMAIN routed
      /\ \A i \in DOMAIN routed : routed'[i] = routed[i]
      /\ routed'[Len(routed) + 1] = fill
  <2>1. routed \in Seq(Fills) /\ fill \in Fills
    BY <1>0, <1>2 DEF VenueTyped, Fills
  <2> HIDE DEF fill
  <2>2. Len(routed') = Len(routed) + 1 /\ Len(routed) \in Nat
    BY <1>1, <2>1
  <2>3. routed' \in Seq(Fills) /\ DOMAIN routed' = 1..(Len(routed) + 1) /\ DOMAIN routed = 1..Len(routed)
    BY <1>1, <2>1, <2>2
  <2> QED
    BY <1>1, <2>1, <2>2, <2>3
<1>5. VenueTyped'
  BY <1>0, <1>1, <1>3, <1>4 DEF VenueTyped
<1>6. AnsweredOnce'
  <2>1. id <= asked
    BY <1>0, <1>1 DEF AnsweredOnce, VenueTyped, OrderIds
  <2> QED
    BY <1>0, <1>1, <1>3, <2>1 DEF AnsweredOnce, VenueTyped, OrderIds
<1>7. SumFunction(FillSizesOut)' = SumFunction(FillSizesOut) + Abs(part)
  <2>1. /\ IsFiniteSet(DOMAIN FillSizesOut) /\ DOMAIN FillSizesOut = DOMAIN routed
        /\ \A i \in DOMAIN routed : FillSizesOut[i] = Abs(routed[i].quantity) /\ FillSizesOut[i] \in Int
    BY <1>0, WayFacts
  <2>2. /\ DOMAIN FillSizesOut' = DOMAIN routed \cup {Len(routed) + 1}
        /\ \A i \in DOMAIN routed : FillSizesOut'[i] = Abs(routed[i].quantity)
        /\ FillSizesOut'[Len(routed) + 1] = Abs(part)
    BY <1>4 DEF FillSizesOut
  <2> HIDE DEF fill
  <2>3. SumFunction(FillSizesOut') = SumFunction(FillSizesOut) + FillSizesOut'[Len(routed) + 1]
    BY <1>2, <1>4, <2>1, <2>2, SumAfterAdding
  <2> QED
    BY <2>2, <2>3 DEF SumFunction
<1>8. OnItsWay' = OnItsWay
  <2>1. SumFunction(OrderSizesOut) \in Nat /\ SumFunction(FillSizesOut) \in Nat
    BY <1>0, WayFacts
  <2> QED
    BY <1>2, <1>3, <1>7, <2>1 DEF OnItsWay
<1>9. Covered'
  <2> SUFFICES ASSUME ~crowded' PROVE Covered'
    BY DEF Covered
  <2>1. /\ Equity > 0 /\ (Abs(shares) + OnItsWay) * markPrice <= 4 * Equity
        /\ \A i \in DOMAIN routed : routed[i].price = markPrice
    BY <1>0, <1>1 DEF Covered
  <2>2. Equity' = Equity /\ shares' = shares /\ markPrice' = markPrice
    BY <1>1 DEF Equity
  <2>3. \A i \in DOMAIN routed' : routed'[i].price = markPrice'
    BY <1>4, <2>1, <2>2
  <2> QED
    BY <1>8, <2>1, <2>2, <2>3 DEF Covered
<1> QED
  BY <1>5, <1>6, <1>9 DEF VenueInv

(***************************************************************************)
(* The fills booked at the price of the market leave the equity as it was, *)
(* and the shares grow by no more than what was on its way.                *)
(***************************************************************************)
LEMMA PollKeeps ==
  ASSUME VenueInv, PollFills
  PROVE  VenueInv'
<1> DEFINE q == [i \in DOMAIN routed |-> routed[i].quantity]
           v == [i \in DOMAIN routed |-> routed[i].quantity * routed[i].price]
           bought == SumFunction(q)
           paid == SumFunction(v)
<1>0. VenueTyped /\ AnsweredOnce /\ Covered
  BY DEF VenueInv
<1>1. /\ cash' = cash - paid /\ shares' = shares + bought /\ routed' = <<>>
      /\ UNCHANGED <<markPrice, alive, working, asked, taken, refused, crowded>>
  BY DEF PollFills
<1>2. /\ IsFiniteSet(DOMAIN routed)
      /\ \A i \in DOMAIN routed : /\ routed[i].quantity \in Int /\ routed[i].price \in Int
                                  /\ FillSizesOut[i] = Abs(routed[i].quantity)
      /\ DOMAIN FillSizesOut = DOMAIN routed
      /\ SumFunction(OrderSizesOut) \in Nat /\ SumFunction(FillSizesOut) \in Nat
  BY <1>0, WayFacts
<1>3. /\ DOMAIN q = DOMAIN routed /\ DOMAIN v = DOMAIN routed
      /\ \A i \in DOMAIN routed : q[i] = routed[i].quantity /\ v[i] = routed[i].quantity * routed[i].price
  OBVIOUS
<1>4. \A a, b \in Int : a * b \in Int
  OBVIOUS
<1>5. \A i \in DOMAIN routed : q[i] \in Int /\ v[i] \in Int /\ FillSizesOut[i] = Abs(q[i])
  BY <1>2, <1>3, <1>4
<1> HIDE DEF q, v
<1>6. bought \in Int /\ paid \in Int
  BY <1>2, <1>3, <1>5, SumOfInts
<1>7. Abs(bought) <= SumFunction(FillSizesOut)
  BY <1>2, <1>3, <1>5, SumOfSizes DEF SumFunction
<1>8. VenueTyped'
  <2>1. routed' \in Seq(Fills)
    BY <1>1
  <2> HIDE DEF bought, paid
  <2> QED
    BY <1>0, <1>1, <1>6, <2>1 DEF VenueTyped
<1>9. AnsweredOnce'
  BY <1>0, <1>1 DEF AnsweredOnce
<1>10. OnItsWay' = SumFunction(OrderSizesOut)
  <2>1. SumFunction(OrderSizesOut)' = SumFunction(OrderSizesOut)
    BY <1>1 DEF OrderSizesOut, SumFunction
  <2>2. DOMAIN FillSizesOut' = {}
    BY <1>1 DEF FillSizesOut
  <2>3. SumFunction(FillSizesOut)' = 0
    BY <2>2, SumEmpty DEF SumFunction
  <2> QED
    BY <1>2, <2>1, <2>3 DEF OnItsWay
<1>11. Covered'
  <2> SUFFICES ASSUME ~crowded' PROVE Covered'
    BY DEF Covered
  <2>1. /\ Equity > 0 /\ (Abs(shares) + OnItsWay) * markPrice <= 4 * Equity
        /\ \A i \in DOMAIN routed : routed[i].price = markPrice
    BY <1>0, <1>1 DEF Covered
  <2>2. cash \in Int /\ shares \in Int /\ markPrice \in Nat \ {0}
    BY <1>0 DEF VenueTyped
  <2>3. paid = bought * markPrice
    <3>1. markPrice \in Int /\ \A i \in DOMAIN routed : q[i] \in Int /\ v[i] = q[i] * markPrice
      BY <1>3, <1>5, <2>1, <2>2
    <3> QED
      BY <1>2, <1>3, <3>1, SumTimes DEF SumFunction
  <2> HIDE DEF bought, paid
  <2>4. Equity' = Equity
    <3>1. Equity' = (cash - bought * markPrice) + (shares + bought) * markPrice
      BY <1>1, <2>3 DEF Equity
    <3>2. \A a, b, c, p \in Int : (a - b * p) + (c + b) * p = a + c * p
      BY SMTT(20)
    <3> QED
      BY <1>6, <2>2, <3>1, <3>2 DEF Equity
  <2>5. Abs(shares') + OnItsWay' <= Abs(shares) + OnItsWay
    <3>1. Abs(shares + bought) <= Abs(shares) + Abs(bought) /\ Abs(shares + bought) \in Nat
          /\ Abs(shares) \in Nat /\ Abs(bought) \in Nat
      BY <1>6, <2>2 DEF Abs
    <3>2. OnItsWay = SumFunction(OrderSizesOut) + SumFunction(FillSizesOut)
      BY DEF OnItsWay
    <3> QED
      BY <1>1, <1>2, <1>7, <1>10, <3>1, <3>2
  <2>6. /\ Abs(shares') + OnItsWay' \in Int /\ Abs(shares) + OnItsWay \in Int /\ Equity \in Int
    BY <1>1, <1>2, <1>6, <1>10, <2>2 DEF Abs, OnItsWay, Equity
  <2>7. \A a, b, p \in Int : p > 0 /\ a <= b => a * p <= b * p
    BY SMTT(20)
  <2>8. /\ (Abs(shares') + OnItsWay') * markPrice <= (Abs(shares) + OnItsWay) * markPrice
        /\ (Abs(shares') + OnItsWay') * markPrice \in Int
        /\ (Abs(shares) + OnItsWay) * markPrice \in Int
    BY <1>4, <2>2, <2>5, <2>6, <2>7
  <2>9. (Abs(shares') + OnItsWay') * markPrice <= 4 * Equity
    BY <2>1, <2>6, <2>8
  <2>10. \A i \in DOMAIN routed' : routed'[i].price = markPrice'
    BY <1>1
  <2> QED
    BY <1>1, <2>1, <2>4, <2>9, <2>10 DEF Covered
<1> QED
  BY <1>8, <1>9, <1>11 DEF VenueInv

(***************************************************************************)
(* The other steps: the connection, the suspension, and a price that moves *)
(* (the account answers for nothing from then on).                         *)
(***************************************************************************)
LEMMA RestKeeps ==
  ASSUME VenueInv,
         Connect \/ Disconnect \/ SuspendOrLift \/ UNCHANGED venueVars
           \/ \E price \in MarkPrices : MarkMoves(price)
  PROVE  VenueInv'
<1>0. VenueTyped /\ AnsweredOnce /\ Covered
  BY DEF VenueInv
<1>1. ASSUME NEW price \in MarkPrices, MarkMoves(price) PROVE VenueInv'
  <2>1. /\ markPrice' = price /\ crowded' = TRUE /\ price \in Nat \ {0}
        /\ UNCHANGED <<cash, shares, alive, working, routed, asked, taken, refused>>
    BY <1>1, VenueTerms DEF MarkMoves
  <2>2. VenueTyped' /\ AnsweredOnce'
    BY <1>0, <2>1 DEF VenueTyped, AnsweredOnce
  <2>3. Covered'
    BY <2>1, Zenon DEF Covered
  <2> QED
    BY <2>2, <2>3 DEF VenueInv
<1>2. ASSUME UNCHANGED <<cash, shares, markPrice, alive, working, routed, asked, taken, refused, crowded>>
      PROVE  VenueInv'
  <2>1. VenueTyped' /\ AnsweredOnce'
    BY <1>0, <1>2 DEF VenueTyped, AnsweredOnce
  <2>2. OnItsWay' = OnItsWay
    BY <1>2 DEF OnItsWay, OrderSizesOut, FillSizesOut, SumFunction
  <2>3. Covered'
    BY <1>0, <1>2, <2>2 DEF Covered, Equity
  <2> QED
    BY <2>1, <2>3 DEF VenueInv
<1>3. Connect \/ Disconnect \/ SuspendOrLift \/ UNCHANGED venueVars =>
        UNCHANGED <<cash, shares, markPrice, alive, working, routed, asked, taken, refused, crowded>>
  BY DEF Connect, Disconnect, SuspendOrLift, venueVars
<1> QED
  BY <1>1, <1>2, <1>3

(***************************************************************************)
(* What is on its way and what is held stay covered by the equity until    *)
(* orders meet or the price moves.                                         *)
(***************************************************************************)
LEMMA VenueInvHolds == VenueSpec => []VenueInv
<1>1. VenueInit => VenueInv
  <2> SUFFICES ASSUME VenueInit PROVE VenueInv
    OBVIOUS
  <2>1. VenueTyped
    BY VenueTerms DEF VenueInit, VenueTyped, OrderIds
  <2>2. AnsweredOnce
    BY VenueTerms DEF VenueInit, AnsweredOnce, OrderIds
  <2>3. ~InFlight
    BY DEF VenueInit, InFlight
  <2>4. OnItsWay = 0
    BY <2>1, <2>3, NothingOnItsWay
  <2>5. Covered
    BY <2>4, VenueTerms DEF VenueInit, Covered, Equity, Abs
  <2> QED
    BY <2>1, <2>2, <2>5 DEF VenueInv
<1>2. VenueInv /\ [VenueNext]_venueVars => VenueInv'
  <2> SUFFICES ASSUME VenueInv, [VenueNext]_venueVars PROVE VenueInv'
    OBVIOUS
  <2>1. CASE PollFills
    BY <2>1, PollKeeps
  <2>2. ASSUME NEW size \in OrderSizes, SubmitToVenue(size) \/ SubmitToVenue(-size) PROVE VenueInv'
    <3>1. CASE SubmitToVenue(size)
      BY <3>1, SubmitKeeps
    <3>2. CASE SubmitToVenue(-size)
      BY <3>2, SubmitKeeps
    <3> QED
      BY <2>2, <3>1, <3>2
  <2>3. ASSUME NEW id \in 1..MaxVenueOrders, Cancel(id) PROVE VenueInv'
    BY <2>3, CancelKeeps DEF OrderIds
  <2>4. ASSUME NEW id \in 1..MaxVenueOrders,
               NEW part \in {alive[id], alive[id] - Sgn(alive[id])} \ {0}, FillAndRoute(id, part)
        PROVE  VenueInv'
    BY <2>4, FillKeeps DEF OrderIds
  <2>5. CASE Connect \/ Disconnect \/ SuspendOrLift \/ UNCHANGED venueVars
               \/ \E price \in MarkPrices : MarkMoves(price)
    BY <2>5, RestKeeps
  <2> QED
    BY <2>1, <2>2, <2>3, <2>4, <2>5 DEF VenueNext
<1> QED
  BY <1>1, <1>2, PTL DEF VenueSpec

(***************************************************************************)
(* Orders sent one after the other never bring on a margin call, whatever  *)
(* the sizes and the deposit, while the multiplier stays within what the   *)
(* maintenance requirement carries; every order is answered once, and what *)
(* the broker calls working is at the simulator (PaperBroker::submit,      *)
(* cancel, route_fills and poll_fills over PaperAccount::can_accept).      *)
(***************************************************************************)
THEOREM AccountStaysCompliant == VenueSpec => []CompliantWhenOpened
<1>1. VenueInv => CompliantWhenOpened
  <2> SUFFICES ASSUME VenueInv PROVE CompliantWhenOpened
    OBVIOUS
  <2>0. VenueTyped /\ AnsweredOnce /\ Covered
    BY DEF VenueInv
  <2>1. asked = taken + refused /\ working \subseteq {id \in DOMAIN alive : alive[id] # 0}
    BY <2>0 DEF AnsweredOnce, VenueTyped
  <2>2. ASSUME ~crowded, ~suspended PROVE AccountStatus = "active"
    <3>1. Equity > 0 /\ (Abs(shares) + OnItsWay) * markPrice <= 4 * Equity
      BY <2>0, <2>2 DEF Covered
    <3>2. /\ Equity \in Int /\ Abs(shares) \in Nat /\ markPrice \in Nat \ {0} /\ OnItsWay \in Nat
      BY <2>0, WayFacts DEF VenueTyped, Equity, Abs
    <3>3. \A a, b, p \in Nat : a * p <= (a + b) * p /\ a * p \in Nat /\ (a + b) * p \in Nat
      BY SMTT(20)
    <3>4. /\ Abs(shares) * markPrice <= (Abs(shares) + OnItsWay) * markPrice
          /\ Abs(shares) * markPrice \in Nat /\ (Abs(shares) + OnItsWay) * markPrice \in Nat
      BY <3>2, <3>3
    <3>5. ~(Equity <= 0) /\ ~(MarginExcess < 0)
      BY <3>1, <3>2, <3>4 DEF MarginExcess, GrossExposure
    <3> QED
      BY <2>2, <3>5, Zenon DEF AccountStatus
  <2> QED
    BY <2>1, <2>2 DEF CompliantWhenOpened
<1>2. VenueSpec => []VenueInv
  BY VenueInvHolds
<1> QED
  BY <1>1, <1>2, PTL

-----------------------------------------------------------------------------
(***************************************************************************)
(* DecisionPipeline.  rebalance() walks the instruments in order and sizes *)
(* each within what the ones before it have left: what it has claimed so   *)
(* far is the sum of the targets so far, gross, net and by sector, and     *)
(* within every limit.  Targets and positions then meet, because fills     *)
(* only move quantity from the orders at the venue to the position.        *)
(***************************************************************************)
\* Within a limit in either direction.
WithinCap(x, limit) == x \in Int /\ Magnitude(x) <= limit

(***************************************************************************)
(* The smaller of two, as the code's std::min.                             *)
(***************************************************************************)
LEMMA MinOfPair ==
  ASSUME NEW a \in Int, NEW b \in Int
  PROVE  Min({a, b}) = IF a <= b THEN a ELSE b
<1> DEFINE m == IF a <= b THEN a ELSE b
<1>1. m \in {a, b} /\ \A y \in {a, b} : m <= y
  OBVIOUS
<1>2. \A x \in {a, b} : (\A y \in {a, b} : x <= y) => x = m
  OBVIOUS
<1> HIDE DEF m
<1>3. Min({a, b}) \in {a, b} /\ \A y \in {a, b} : Min({a, b}) <= y
  BY <1>1 DEF Min
<1>4. Min({a, b}) = m
  BY <1>2, <1>3
<1> QED
  BY <1>4 DEF m

(***************************************************************************)
(* The larger of two, as the code's std::max.                              *)
(***************************************************************************)
LEMMA MaxOfPair ==
  ASSUME NEW a \in Int, NEW b \in Int
  PROVE  Max({a, b}) = IF a >= b THEN a ELSE b
<1> DEFINE m == IF a >= b THEN a ELSE b
<1>1. m \in {a, b} /\ \A y \in {a, b} : m >= y
  OBVIOUS
<1>2. \A x \in {a, b} : (\A y \in {a, b} : x >= y) => x = m
  OBVIOUS
<1> HIDE DEF m
<1>3. Max({a, b}) \in {a, b} /\ \A y \in {a, b} : Max({a, b}) >= y
  BY <1>1 DEF Max
<1>4. Max({a, b}) = m
  BY <1>2, <1>3
<1> QED
  BY <1>4 DEF m

(***************************************************************************)
(* A cap leaves at most what is asked and at most what it allows; a cap    *)
(* that is already exceeded leaves nothing.                                *)
(***************************************************************************)
LEMMA LimitedWithin ==
  ASSUME NEW x \in Nat, NEW limit \in Int
  PROVE  Limited(x, limit) \in 0..x /\ (limit >= 0 => Limited(x, limit) <= limit)
<1>1. Max({0, limit}) = IF 0 >= limit THEN 0 ELSE limit
  BY MaxOfPair
<1> DEFINE room == Max({0, limit})
<1>2. room \in Nat /\ (limit >= 0 => room = limit)
  BY <1>1
<1> HIDE DEF room
<1>3. Min({x, room}) = IF x <= room THEN x ELSE room
  BY <1>2, MinOfPair
<1>4. Limited(x, limit) = Min({x, room})
  BY DEF Limited, room
<1> QED
  BY <1>2, <1>3, <1>4

(***************************************************************************)
(* Rounding to the lot goes toward zero, by less than a lot.               *)
(***************************************************************************)
LEMMA ToLotWithin ==
  ASSUME NEW x \in Int
  PROVE  /\ ToLot(x) \in Int
         /\ x >= 0 => ToLot(x) \in 0..x
         /\ x <= 0 => -ToLot(x) \in 0..(-x)
         /\ Magnitude(x - ToLot(x)) < Lot
<1> DEFINE size == Magnitude(x)
           k == size \div Lot
<1>1. Lot \in Nat \ {0} /\ size \in Nat
  BY PipelineIsNumeric DEF Magnitude
<1> HIDE DEF size
<1>2. size % Lot \in 0..(Lot - 1) /\ size = Lot * k + (size % Lot) /\ k \in Int
  <2>1. size \div Lot \in Int
    BY <1>1, SMTT(20)
  <2> QED
    BY <1>1, <2>1, Division
<1> DEFINE r == size % Lot
<1>3. k * Lot = size - r /\ r \in 0..(Lot - 1) /\ k * Lot \in Int
  <2>1. Lot * k = k * Lot /\ k * Lot \in Int
    BY <1>1, <1>2
  <2> QED
    BY <1>1, <1>2, <2>1
<1>4. k * Lot >= 0
  <2>1. SUFFICES ASSUME k < 0 PROVE FALSE
    BY <1>1, <1>2, SMTT(20)
  <2>2. \A a \in Int, b \in Nat \ {0} : a < 0 => a * b <= -b
    BY SMTT(20)
  <2>3. k * Lot <= -Lot
    BY <1>1, <1>2, <2>1, <2>2
  <2> HIDE DEF k, r
  <2> QED
    BY <1>1, <1>3, <2>3
<1>5. ToLot(x) = Side(x) * (k * Lot)
  BY DEF ToLot, size
<1> HIDE DEF k, r
<1>6. CASE x > 0
  <2>1. Side(x) = 1 /\ size = x
    BY <1>6 DEF Side, Magnitude, size
  <2>2. ToLot(x) = k * Lot
    BY <1>3, <1>5, <2>1
  <2> QED
    BY <1>1, <1>3, <1>4, <1>6, <2>1, <2>2 DEF Magnitude
<1>7. CASE x < 0
  <2>1. Side(x) = -1 /\ size = -x
    BY <1>7 DEF Side, Magnitude, size
  <2>2. ToLot(x) = -(k * Lot)
    BY <1>3, <1>5, <2>1
  <2> QED
    BY <1>1, <1>3, <1>4, <1>7, <2>1, <2>2 DEF Magnitude
<1>8. CASE x = 0
  <2>1. Side(x) = 0
    BY <1>8 DEF Side
  <2>2. ToLot(x) = 0
    BY <1>3, <1>5, <2>1
  <2> QED
    BY <1>1, <1>8, <2>2 DEF Magnitude
<1> QED
  BY <1>6, <1>7, <1>8

(***************************************************************************)
(* An instrument is sized within its own limit and within what the ones    *)
(* before it have left.                                                    *)
(***************************************************************************)
LEMMA SizedWithin ==
  ASSUME NEW name, NEW signal \in SignalRecords, NEW claimed,
         claimed.gross \in 0..GrossCap, WithinCap(claimed.net, NetCap),
         claimed.sector[SectorOf[name]] \in 0..SectorCap
  PROVE  LET t == SizedFrom(name, signal, claimed)
         IN  /\ WithinCap(t, PositionCap)
             /\ claimed.gross + Magnitude(t) <= GrossCap
             /\ WithinCap(claimed.net + t, NetCap)
             /\ claimed.sector[SectorOf[name]] + Magnitude(t) <= SectorCap
<1> DEFINE single == Limited(Asked(signal), PositionCap)
           sector == Limited(single, SectorCap - claimed.sector[SectorOf[name]])
           gross == Limited(sector, GrossCap - claimed.gross)
           net == IF Magnitude(claimed.net + signal.side * gross) > NetCap
                  THEN Limited(gross, NetCap - Magnitude(claimed.net)) ELSE gross
           t == SizedFrom(name, signal, claimed)
<1>0. /\ PositionCap \in Nat /\ SectorCap \in Nat /\ GrossCap \in Nat /\ NetCap \in Nat
      /\ KellyCap \in Int /\ FixedSize \in Nat
      /\ signal.edge \in Nat /\ signal.side \in {-1, 0, 1}
  BY PipelineIsNumeric DEF SignalRecords
<1> DEFINE inSector == claimed.sector[SectorOf[name]]
<1>10. /\ SectorCap - inSector \in Int /\ SectorCap - inSector >= 0
       /\ GrossCap - claimed.gross \in Int /\ GrossCap - claimed.gross >= 0
  BY <1>0
<1>1. Asked(signal) \in Nat
  <2> DEFINE edge == signal.edge
  <2>1. edge \in Nat
    BY <1>0
  <2> HIDE DEF edge
  <2>2. Limited(edge, KellyCap) \in 0..edge
    BY <1>0, <2>1, LimitedWithin
  <2>3. Limited(edge, KellyCap) \in Nat
    BY <2>1, <2>2
  <2> QED
    BY <1>0, <2>3 DEF Asked, edge
<1>2. single \in Nat /\ single <= PositionCap
  <2> DEFINE wish == Asked(signal)
  <2>1. wish \in Nat
    BY <1>1
  <2>2. PositionCap \in Int /\ PositionCap >= 0
    BY <1>0
  <2> HIDE DEF wish
  <2>3. Limited(wish, PositionCap) \in 0..wish /\ Limited(wish, PositionCap) <= PositionCap
    BY <2>1, <2>2, LimitedWithin
  <2> QED
    BY <2>1, <2>3 DEF wish
<1> HIDE DEF single
<1>3. sector \in Nat /\ sector <= single /\ sector <= SectorCap - claimed.sector[SectorOf[name]]
  <2> DEFINE room == SectorCap - inSector
  <2>1. room \in Int /\ room >= 0
    BY <1>10
  <2> HIDE DEF room
  <2>2. Limited(single, room) \in 0..single /\ Limited(single, room) <= room
    BY <1>2, <2>1, LimitedWithin
  <2> QED
    BY <1>2, <2>2 DEF room
<1> HIDE DEF sector
<1>4. gross \in Nat /\ gross <= sector /\ gross <= GrossCap - claimed.gross
  <2> DEFINE room == GrossCap - claimed.gross
  <2>1. room \in Int /\ room >= 0
    BY <1>10
  <2> HIDE DEF room
  <2>2. Limited(sector, room) \in 0..sector /\ Limited(sector, room) <= room
    BY <1>3, <2>1, LimitedWithin
  <2> QED
    BY <1>3, <2>2 DEF room
<1> HIDE DEF gross
<1>5. net \in Nat /\ net <= gross /\ Magnitude(claimed.net + signal.side * net) <= NetCap
  <2>1. claimed.net \in Int /\ Magnitude(claimed.net) <= NetCap
    BY DEF WithinCap
  <2>2. \A s \in {-1, 0, 1}, g \in Nat : s * g = IF s = 1 THEN g ELSE IF s = 0 THEN 0 ELSE -g
    BY SMTT(20)
  <2>3. CASE ~(Magnitude(claimed.net + signal.side * gross) > NetCap)
    <3>1. net = gross
      BY <2>3
    <3>2. Magnitude(claimed.net + signal.side * gross) \in Int
      BY <1>0, <1>4, <2>1, <2>2 DEF Magnitude
    <3> QED
      BY <1>0, <1>4, <2>3, <3>1, <3>2
  <2>4. CASE Magnitude(claimed.net + signal.side * gross) > NetCap
    <3>1. net = Limited(gross, NetCap - Magnitude(claimed.net))
      BY <2>4
    <3>2. NetCap - Magnitude(claimed.net) \in Nat
      BY <1>0, <2>1 DEF Magnitude
    <3>3. net \in Nat /\ net <= gross /\ net <= NetCap - Magnitude(claimed.net)
      BY <1>4, <3>1, <3>2, LimitedWithin
    <3> HIDE DEF net
    <3> QED
      BY <1>0, <2>1, <2>2, <3>3 DEF Magnitude
  <2> QED
    BY <2>3, <2>4
<1> HIDE DEF net
<1>6. t = IF ~Actionable(signal) THEN 0 ELSE ToLot(signal.side * net)
  BY DEF SizedFrom, single, sector, gross, net
<1>7. /\ signal.side = 1 => signal.side * net = net
      /\ signal.side = 0 => signal.side * net = 0
      /\ signal.side = -1 => signal.side * net = -net
  BY <1>5
<1>8. /\ t \in Int /\ Magnitude(t) <= net /\ Magnitude(t) \in Nat
      /\ Magnitude(claimed.net + t) <= NetCap /\ claimed.net + t \in Int
  <2>1. claimed.net \in Int /\ Magnitude(claimed.net) <= NetCap
    BY DEF WithinCap
  <2>2. CASE t = 0
    BY <1>0, <1>5, <2>1, <2>2 DEF Magnitude
  <2>3. CASE t = ToLot(signal.side * net) /\ signal.side = 1
    <3>1. t \in 0..net
      BY <1>5, <1>7, <2>3, ToLotWithin
    <3> QED
      BY <1>0, <1>5, <1>7, <2>1, <2>3, <3>1 DEF Magnitude
  <2>4. CASE t = ToLot(signal.side * net) /\ signal.side = -1
    <3>1. -t \in 0..net /\ t \in Int
      <4>1. -net \in Int /\ -net <= 0 /\ -(-net) = net
        BY <1>5
      <4>2. t = ToLot(-net)
        BY <1>7, <2>4
      <4> QED
        BY <4>1, <4>2, ToLotWithin
    <3> QED
      BY <1>0, <1>5, <1>7, <2>1, <2>4, <3>1 DEF Magnitude
  <2>5. CASE t = ToLot(signal.side * net) /\ signal.side = 0
    <3>1. t = ToLot(0)
      BY <1>7, <2>5
    <3>2. t = 0
      <4>1. ToLot(0) \in 0..0
        BY ToLotWithin
      <4> QED
        BY <3>1, <4>1
    <3> QED
      BY <2>2, <3>2
  <2> QED
    BY <1>0, <1>6, <2>2, <2>3, <2>4, <2>5
<1> HIDE DEF t
<1>9. /\ WithinCap(t, PositionCap) /\ claimed.gross + Magnitude(t) <= GrossCap
      /\ WithinCap(claimed.net + t, NetCap)
      /\ claimed.sector[SectorOf[name]] + Magnitude(t) <= SectorCap
  BY <1>0, <1>2, <1>3, <1>4, <1>5, <1>8 DEF WithinCap
<1> QED
  BY <1>9 DEF t

(***************************************************************************)
(* A finite set of integers has a greatest one.                            *)
(***************************************************************************)
LEMMA GreatestOf ==
  ASSUME NEW S, IsFiniteSet(S), S \subseteq Int, S # {}
  PROVE  Max(S) \in S /\ \A y \in S : Max(S) >= y
<1> DEFINE P == {s \in SUBSET S : s = {} \/ \E x \in s : \A y \in s : x >= y}
<1>1. {} \in P
  OBVIOUS
<1>2. ASSUME NEW s \in SUBSET S, NEW z \in S \ s, s \in P
      PROVE  s \cup {z} \in P
  <2>1. CASE s = {}
    <3>1. s \cup {z} = {z} /\ z >= z
      BY <2>1
    <3> QED
      BY <3>1
  <2>2. CASE s # {}
    <3>1. PICK x \in s : \A y \in s : x >= y
      BY <1>2, <2>2
    <3>2. x \in Int /\ z \in Int /\ \A y \in s : y \in Int
      OBVIOUS
    <3>3. CASE x >= z
      <4>1. \A y \in s \cup {z} : x >= y
        BY <3>1, <3>3
      <4> QED
        BY <4>1
    <3>4. CASE ~(x >= z)
      <4>1. \A y \in s \cup {z} : z >= y
        BY <3>1, <3>2, <3>4
      <4> QED
        BY <4>1
    <3> QED
      BY <3>3, <3>4
  <2> QED
    BY <2>1, <2>2
<1>3. S \in P
  <2> HIDE DEF P
  <2> QED
    BY <1>1, <1>2, FiniteInduction
<1>4. \E x \in S : \A y \in S : x >= y
  BY <1>3
<1> QED
  BY <1>4 DEF Max

Before(n) == {m \in Names : m < n}
Through(n) == Before(n) \cup {n}
Sectors == {SectorOf[n] : n \in Names}

(***************************************************************************)
(* The instruments before one are those up to the last of them: the order  *)
(* the loop of rebalance() walks latest_signals_ in.                       *)
(***************************************************************************)
LEMMA BeforeFacts ==
  ASSUME NEW n \in Names
  PROVE  /\ n \in Nat /\ n \notin Before(n) /\ IsFiniteSet(Before(n)) /\ IsFiniteSet(Through(n))
         /\ Through(n) \subseteq Names
         /\ Before(n) # {} => Max(Before(n)) \in Before(n) /\ Through(Max(Before(n))) = Before(n)
<1>1. Names \subseteq Nat /\ IsFiniteSet(Names)
  BY PipelineIsNumeric
<1>2. Before(n) \subseteq Names /\ Through(n) \subseteq Names
  BY DEF Before, Through
<1>3. IsFiniteSet(Before(n)) /\ IsFiniteSet(Through(n))
  BY <1>1, <1>2, FS_Subset
<1>4. ASSUME Before(n) # {}
      PROVE  Max(Before(n)) \in Before(n) /\ Through(Max(Before(n))) = Before(n)
  <2> DEFINE top == Max(Before(n))
  <2>0. Before(n) \subseteq Int
    <3>1. \A m \in Before(n) : m \in Int
      BY <1>1 DEF Before
    <3> QED
      BY <3>1
  <2>1. top \in Before(n) /\ \A y \in Before(n) : top >= y
    BY <2>0, <1>3, <1>4, GreatestOf
  <2> HIDE DEF top
  <2>2. top \in Names /\ top \in Int /\ n \in Int /\ top < n
    BY <1>1, <2>1 DEF Before
  <2>3. \A m \in Names : m < n => m < top \/ m = top
    BY <1>1, <2>1, <2>2 DEF Before
  <2>4. Through(top) = Before(n)
    <3>1. ASSUME NEW m \in Through(top) PROVE m \in Before(n)
      <4>1. m \in Names /\ (m < top \/ m = top)
        BY <2>2, <3>1 DEF Through, Before
      <4>2. m < n
        BY <1>1, <2>2, <4>1
      <4> QED
        BY <4>1, <4>2 DEF Before
    <3>2. ASSUME NEW m \in Before(n) PROVE m \in Through(top)
      BY <2>3, <3>2 DEF Through, Before
    <3> QED
      BY <3>1, <3>2
  <2> QED
    BY <2>1, <2>4 DEF top
<1> QED
  BY <1>1, <1>2, <1>3, <1>4 DEF Before

(***************************************************************************)
(* The loop of rebalance(), as the recursive function it is: a turn looks  *)
(* at the turns before it, so the function exists.                         *)
(***************************************************************************)
IsLoop(g, signals, flatten) == g = [n \in Names |-> TurnOf(g, n, signals, flatten)]

Loop(signals, flatten) == CHOOSE g : IsLoop(g, signals, flatten)

(***************************************************************************)
(* A turn of the loop depends on the turns before it and on nothing else.  *)
(***************************************************************************)
LEMMA SameTurn ==
  ASSUME NEW signals, NEW flatten, NEW g, NEW h, NEW n \in Names, \A m \in Before(n) : g[m] = h[m]
  PROVE  TurnOf(g, n, signals, flatten) = TurnOf(h, n, signals, flatten)
<1>1. Before(n) # {} => g[Max(Before(n))].claimed = h[Max(Before(n))].claimed
  BY BeforeFacts
<1>2. CASE Before(n) = {}
  BY <1>2 DEF TurnOf, Before
<1>3. CASE Before(n) # {}
  BY <1>1, <1>3 DEF TurnOf, Before
<1> QED
  BY <1>2, <1>3

LEMMA LoopExists == \A signals, flatten : \E g : IsLoop(g, signals, flatten)
<1> SUFFICES ASSUME NEW signals, NEW flatten PROVE \E g : IsLoop(g, signals, flatten)
  OBVIOUS
<1> DEFINE Turn(g, n) == TurnOf(g, n, signals, flatten)
           Reached == {k \in Nat : \E g : \A n \in Names : n < k => g[n] = Turn(g, n)}
<1>0. Names \subseteq Nat /\ IsFiniteSet(Names)
  BY PipelineIsNumeric
<1>1. \A g, h, n : n \in Names /\ (\A m \in Names : m < n => g[m] = h[m]) => Turn(g, n) = Turn(h, n)
  BY SameTurn DEF Before
<1> HIDE DEF Turn
<1>2. 0 \in Reached
  BY <1>0
<1>3. ASSUME NEW k \in Nat, k \in Reached PROVE k + 1 \in Reached
  <2>1. PICK g : \A n \in Names : n < k => g[n] = Turn(g, n)
    BY <1>3
  <2> DEFINE h == [n \in Names |-> IF n < k THEN g[n] ELSE Turn(g, n)]
  <2>2. \A n \in Names : n < k => h[n] = g[n]
    OBVIOUS
  <2>3. \A n \in Names : n >= k /\ n <= k => h[n] = Turn(g, n)
    BY <1>0
  <2> HIDE DEF h
  <2>4. ASSUME NEW n \in Names, n < k + 1 PROVE h[n] = Turn(h, n)
    <3>1. n \in Nat /\ \A m \in Names : m < n => m \in Nat /\ m < k
      BY <1>0, <2>4
    <3>2. \A m \in Names : m < n => g[m] = h[m]
      BY <2>2, <3>1
    <3>3. Turn(g, n) = Turn(h, n)
      BY <1>1, <3>2
    <3>4. CASE n < k
      BY <2>1, <2>2, <3>3, <3>4
    <3>5. CASE ~(n < k)
      BY <2>3, <2>4, <3>1, <3>3, <3>5
    <3> QED
      BY <3>4, <3>5
  <2> QED
    BY <2>4
<1>4. \A k \in Nat : k \in Reached
  <2> HIDE DEF Reached
  <2> QED
    BY <1>2, <1>3, NaturalInduction
<1>5. \E k \in Nat : \A n \in Names : n < k
  <2>1. CASE Names = {}
    BY <2>1
  <2>2. CASE Names # {}
    <3>1. Names \subseteq Int
      BY <1>0
    <3>2. Max(Names) \in Names /\ \A y \in Names : Max(Names) >= y
      BY <1>0, <2>2, <3>1, GreatestOf
    <3> DEFINE top == Max(Names)
    <3>3. top \in Nat /\ \A n \in Names : n \in Nat /\ top >= n
      BY <1>0, <3>2
    <3> HIDE DEF top
    <3>4. top + 1 \in Nat /\ \A n \in Names : n < top + 1
      BY <3>3
    <3> QED
      BY <3>4
  <2> QED
    BY <2>1, <2>2
<1>6. PICK k \in Nat : \A n \in Names : n < k
  BY <1>5
<1>7. PICK g : \A n \in Names : g[n] = Turn(g, n)
  BY <1>4, <1>6
<1> DEFINE h == [n \in Names |-> g[n]]
<1>8. \A n \in Names : h[n] = g[n]
  OBVIOUS
<1>9. h = [n \in Names |-> Turn(g, n)]
  BY <1>7
<1> HIDE DEF h
<1>10. \A n \in Names : Turn(g, n) = Turn(h, n)
  BY <1>1, <1>8
<1>11. h = [n \in Names |-> Turn(h, n)]
  BY <1>9, <1>10
<1> QED
  BY <1>11 DEF IsLoop, Turn

(***************************************************************************)
(* The loop's targets are its turns' targets, one after the other.         *)
(***************************************************************************)
LEMMA LoopEquation ==
  ASSUME NEW signals, NEW flatten
  PROVE  /\ \A n \in Names : Loop(signals, flatten)[n] = TurnOf(Loop(signals, flatten), n, signals, flatten)
         /\ TargetsOf(signals, flatten) = [n \in Names |-> Loop(signals, flatten)[n].target]
<1> DEFINE g == Loop(signals, flatten)
<1>1. IsLoop(g, signals, flatten)
  BY LoopExists DEF Loop
<1>2. TargetsOf(signals, flatten) = [n \in Names |-> g[n].target]
  BY DEF TargetsOf, Loop, IsLoop
<1> HIDE DEF g
<1>3. \A n \in Names : g[n] = TurnOf(g, n, signals, flatten)
  <2>1. g = [n \in Names |-> TurnOf(g, n, signals, flatten)]
    BY <1>1 DEF IsLoop
  <2> QED
    BY <2>1
<1> QED
  BY <1>2, <1>3 DEF g

(***************************************************************************)
(* When everything is to be closed, every target is zero.                  *)
(***************************************************************************)
LEMMA FlatTargets ==
  ASSUME NEW signals, NEW flatten
  PROVE  flatten => TargetsOf(signals, flatten) = [n \in Names |-> 0]
<1> DEFINE g == Loop(signals, flatten)
<1>1. /\ \A n \in Names : g[n] = TurnOf(g, n, signals, flatten)
      /\ TargetsOf(signals, flatten) = [n \in Names |-> g[n].target]
  BY LoopEquation
<1> HIDE DEF g
<1>2. flatten => \A n \in Names : TurnOf(g, n, signals, flatten).target = 0
  BY DEF TurnOf
<1>3. flatten => \A n \in Names : g[n].target = 0
  BY <1>1, <1>2
<1> QED
  BY <1>1, <1>3

(***************************************************************************)
(* What the loop has claimed so far are the totals of its targets, within  *)
(* every limit.                                                            *)
(***************************************************************************)
Sizes(t) == [n \in Names |-> Magnitude(t[n])]
InSectorOf(S, s) == {n \in S : SectorOf[n] = s}

Describes(claimed, t, S) ==
  /\ claimed.gross \in 0..GrossCap /\ claimed.gross = SumFunctionOnSet(Sizes(t), S)
  /\ WithinCap(claimed.net, NetCap) /\ claimed.net = SumFunctionOnSet(t, S)
  /\ claimed.sector \in [Sectors -> 0..SectorCap]
  /\ \A s \in Sectors : claimed.sector[s] = SumFunctionOnSet(Sizes(t), InSectorOf(S, s))

(***************************************************************************)
(* Before the first instrument nothing is claimed.                         *)
(***************************************************************************)
LEMMA NothingClaimed == \A t : Describes(Nowhere, t, {})
<1> SUFFICES ASSUME NEW t PROVE Describes(Nowhere, t, {})
  OBVIOUS
<1>1. {SectorCap, GrossCap, NetCap} \subseteq Nat
  BY PipelineIsNumeric
<1>2. /\ Nowhere.gross = 0 /\ Nowhere.net = 0
      /\ Nowhere.sector = [s \in Sectors |-> 0]
  BY DEF Nowhere, Sectors
<1>3. \A s \in Sectors : InSectorOf({}, s) = {}
  BY DEF InSectorOf
<1>4. SumFunctionOnSet(Sizes(t), {}) = 0 /\ SumFunctionOnSet(t, {}) = 0
  BY SumEmpty
<1>5. WithinCap(0, NetCap) /\ 0 \in 0..GrossCap /\ 0 \in 0..SectorCap
  BY <1>1 DEF WithinCap, Magnitude
<1>6. Nowhere.sector \in [Sectors -> 0..SectorCap]
  BY <1>2, <1>5
<1> QED
  BY <1>2, <1>3, <1>4, <1>5, <1>6 DEF Describes

(***************************************************************************)
(* Claiming a target that fits keeps what is claimed equal to the totals   *)
(* of the targets, within the limits.                                      *)
(***************************************************************************)
LEMMA ClaimGrows ==
  ASSUME NEW t, NEW S \in SUBSET Names, NEW n \in Names \ S, t[n] \in Int,
         \A m \in S : t[m] \in Int,
         NEW claimed, Describes(claimed, t, S),
         claimed.gross + Magnitude(t[n]) <= GrossCap,
         WithinCap(claimed.net + t[n], NetCap),
         claimed.sector[SectorOf[n]] + Magnitude(t[n]) <= SectorCap
  PROVE  Describes(Claim(claimed, n, t[n]), t, S \cup {n})
<1> DEFINE T == S \cup {n}
           sizes == Sizes(t)
           size == Magnitude(t[n])
           new == Claim(claimed, n, t[n])
<1>0. IsFiniteSet(Names) /\ GrossCap \in Nat /\ SectorCap \in Nat
  BY PipelineIsNumeric
<1>1. IsFiniteSet(T) /\ T \ {n} = S /\ IsFiniteSet(S)
  BY <1>0, FS_Subset
<1>2. size \in Nat /\ sizes[n] = size /\ \A m \in T : sizes[m] \in Int /\ t[m] \in Int
  BY DEF Magnitude, Sizes
<1>3. /\ claimed.gross \in 0..GrossCap /\ claimed.gross = SumFunctionOnSet(sizes, S)
      /\ claimed.net \in Int /\ claimed.net = SumFunctionOnSet(t, S)
      /\ claimed.sector \in [Sectors -> 0..SectorCap]
      /\ \A s \in Sectors : claimed.sector[s] = SumFunctionOnSet(sizes, InSectorOf(S, s))
  BY DEF Describes, WithinCap
<1>4. /\ new.gross = claimed.gross + size /\ new.net = claimed.net + t[n]
      /\ new.sector = [claimed.sector EXCEPT ![SectorOf[n]] = @ + size]
  BY DEF Claim
<1> HIDE DEF new, sizes, size
<1>5. n \in T /\ SumFunctionOnSet(sizes, T) = size + SumFunctionOnSet(sizes, S)
      /\ SumFunctionOnSet(t, T) = t[n] + SumFunctionOnSet(t, S)
  BY <1>1, <1>2, SumTakingAny
<1>6. SectorOf[n] \in Sectors
  BY DEF Sectors
<1>7. /\ new.sector \in [Sectors -> 0..SectorCap]
      /\ new.sector[SectorOf[n]] = claimed.sector[SectorOf[n]] + size
      /\ \A s \in Sectors \ {SectorOf[n]} : new.sector[s] = claimed.sector[s]
  <2>1. claimed.sector[SectorOf[n]] \in Nat
    BY <1>3, <1>6
  <2>2. claimed.sector[SectorOf[n]] + size \in 0..SectorCap
    BY <1>0, <1>2, <2>1 DEF size
  <2> QED
    BY <1>3, <1>4, <1>6, <2>2
<1>8. ASSUME NEW s \in Sectors
      PROVE  new.sector[s] = SumFunctionOnSet(sizes, InSectorOf(T, s))
  <2>1. CASE s = SectorOf[n]
    <3> DEFINE U == InSectorOf(T, s)
    <3>1. U \subseteq T /\ n \in U /\ U \ {n} = InSectorOf(S, s)
      BY <2>1 DEF InSectorOf
    <3> HIDE DEF U
    <3>2. IsFiniteSet(U) /\ \A m \in U : sizes[m] \in Int
      BY <1>1, <1>2, <3>1, FS_Subset
    <3>3. SumFunctionOnSet(sizes, U) = sizes[n] + SumFunctionOnSet(sizes, U \ {n})
      BY <3>1, <3>2, SumTakingAny
    <3>4. claimed.sector[s] \in Int /\ claimed.sector[s] = SumFunctionOnSet(sizes, U \ {n})
      <4>1. claimed.sector[s] \in 0..SectorCap
        BY <1>3
      <4>2. claimed.sector[s] = SumFunctionOnSet(sizes, InSectorOf(S, s))
        BY <1>3
      <4>3. claimed.sector[s] \in Int
        BY <1>0, <4>1
      <4>4. claimed.sector[s] = SumFunctionOnSet(sizes, U \ {n})
        BY <3>1, <4>2, Zenon
      <4> QED
        BY <4>3, <4>4
    <3>5. new.sector[s] = claimed.sector[s] + size
      BY <1>7, <2>1
    <3>6. new.sector[s] = SumFunctionOnSet(sizes, U)
      BY <1>2, <3>3, <3>4, <3>5
    <3> QED
      BY <3>6 DEF U
  <2>2. CASE s # SectorOf[n]
    <3>1. InSectorOf(T, s) = InSectorOf(S, s)
      BY <2>2 DEF InSectorOf
    <3> QED
      BY <1>3, <1>7, <2>2, <3>1
  <2> QED
    BY <2>1, <2>2
<1>9. new.gross \in 0..GrossCap /\ new.gross = SumFunctionOnSet(sizes, T)
  <2>1. claimed.gross + size <= GrossCap
    BY DEF size
  <2> QED
    BY <1>0, <1>2, <1>3, <1>4, <1>5, <2>1
<1>10. WithinCap(new.net, NetCap) /\ new.net = SumFunctionOnSet(t, T)
  BY <1>3, <1>4, <1>5
<1> QED
  BY <1>7, <1>8, <1>9, <1>10 DEF Describes, new, sizes

SignalsTyped(signals) == \A n \in Names : signals[n] \subseteq SignalRecords

(***************************************************************************)
(* Every turn of the loop keeps its target and all that is claimed so far  *)
(* within the limits.                                                      *)
(***************************************************************************)
LEMMA LoopWithin ==
  ASSUME NEW signals, NEW flatten, SignalsTyped(signals)
  PROVE  LET t == TargetsOf(signals, flatten)
         IN  \A n \in Names : /\ WithinCap(t[n], PositionCap)
                              /\ Describes(Loop(signals, flatten)[n].claimed, t, Through(n))
<1> DEFINE t == TargetsOf(signals, flatten)
           g == Loop(signals, flatten)
           Good(n) == WithinCap(t[n], PositionCap) /\ Describes(g[n].claimed, t, Through(n))
           P == {k \in Nat : \A n \in Names : n < k => Good(n)}
<1>0. Names \subseteq Nat
  BY PipelineIsNumeric
<1>1. \A n \in Names : t[n] = g[n].target /\ g[n] = TurnOf(g, n, signals, flatten)
  BY LoopEquation
<1> HIDE DEF t, g
<1>2. ASSUME NEW n \in Names, \A m \in Before(n) : Good(m) PROVE Good(n)
  <2> DEFINE claimed == IF Before(n) = {} THEN Nowhere ELSE g[Max(Before(n))].claimed
             signal == CHOOSE s \in signals[n] : TRUE
             target == IF flatten \/ n \notin Targeted(signals) THEN 0 ELSE SizedFrom(n, signal, claimed)
  <2>1. g[n] = [target |-> target, claimed |-> Claim(claimed, n, target)]
    BY <1>1 DEF TurnOf, Before
  <2>2. t[n] = target /\ g[n].claimed = Claim(claimed, n, target)
    BY <1>1, <2>1
  <2>3. Describes(claimed, t, Before(n))
    <3>1. CASE Before(n) = {}
      BY <3>1, NothingClaimed
    <3>2. CASE Before(n) # {}
      <4>1. Max(Before(n)) \in Before(n) /\ Through(Max(Before(n))) = Before(n)
        BY <3>2, BeforeFacts
      <4>2. Describes(g[Max(Before(n))].claimed, t, Through(Max(Before(n))))
        BY <1>2, <4>1
      <4> QED
        BY <3>2, <4>1, <4>2
    <3> QED
      BY <3>1, <3>2
  <2>4. /\ claimed.gross \in 0..GrossCap /\ WithinCap(claimed.net, NetCap)
        /\ claimed.sector[SectorOf[n]] \in 0..SectorCap
    BY <2>3 DEF Describes, Sectors
  <2>5. n \in Targeted(signals) => signal \in SignalRecords
    BY DEF Targeted, SignalsTyped
  <2> HIDE DEF claimed, signal
  <2>6. /\ WithinCap(target, PositionCap)
        /\ claimed.gross + Magnitude(target) <= GrossCap
        /\ WithinCap(claimed.net + target, NetCap)
        /\ claimed.sector[SectorOf[n]] + Magnitude(target) <= SectorCap
    <3>1. CASE flatten \/ n \notin Targeted(signals)
      <4>1. target = 0
        BY <3>1
      <4>2. {PositionCap, SectorCap, GrossCap, NetCap} \subseteq Nat
        BY PipelineIsNumeric
      <4>3. claimed.net \in Int /\ claimed.net + 0 = claimed.net /\ Magnitude(0) = 0
        BY <2>4 DEF WithinCap, Magnitude
      <4> HIDE DEF target
      <4> QED
        BY <2>4, <4>1, <4>2, <4>3 DEF WithinCap
    <3>2. CASE ~(flatten \/ n \notin Targeted(signals))
      <4>1. target = SizedFrom(n, signal, claimed) /\ signal \in SignalRecords
        BY <2>5, <3>2
      <4> HIDE DEF target
      <4> QED
        BY <2>4, <4>1, SizedWithin
    <3> QED
      BY <3>1, <3>2
  <2> HIDE DEF target
  <2>7. \A m \in Before(n) : t[m] \in Int
    BY <1>2 DEF WithinCap
  <2>8. t[n] \in Int
    BY <2>2, <2>6 DEF WithinCap
  <2>9. Before(n) \in SUBSET Names /\ n \in Names \ Before(n)
    BY <1>0 DEF Before
  <2>10. Describes(Claim(claimed, n, t[n]), t, Before(n) \cup {n})
    BY <2>2, <2>3, <2>6, <2>7, <2>8, <2>9, ClaimGrows
  <2> QED
    BY <2>2, <2>6, <2>10 DEF Through
<1> HIDE DEF Good
<1>3. 0 \in P
  BY <1>0
<1>4. ASSUME NEW k \in Nat, k \in P PROVE k + 1 \in P
  <2>1. ASSUME NEW n \in Names, n < k + 1 PROVE Good(n)
    <3>1. \A m \in Before(n) : m \in Names /\ m < k
      BY <1>0, <2>1 DEF Before
    <3> QED
      BY <1>2, <1>4, <3>1
  <2> QED
    BY <2>1
<1>5. \A k \in Nat : k \in P
  <2> HIDE DEF P
  <2> QED
    BY <1>3, <1>4, NaturalInduction
<1>6. ASSUME NEW n \in Names PROVE Good(n)
  <2>1. n + 1 \in Nat /\ n < n + 1
    BY <1>0
  <2>2. n + 1 \in P
    BY <1>5, <2>1
  <2> QED
    BY <2>1, <2>2
<1> QED
  BY <1>6 DEF Good, t, g

(***************************************************************************)
(* All limits at once, of a set of targets.                                *)
(***************************************************************************)
WithinLimits(t) ==
  /\ \A n \in Names : Sizes(t)[n] <= PositionCap
  /\ SumFunctionOnSet(Sizes(t), Names) <= GrossCap
  /\ Magnitude(SumFunctionOnSet(t, Names)) <= NetCap
  /\ \A s \in Sectors : SumFunctionOnSet(Sizes(t), InSectorOf(Names, s)) <= SectorCap

(***************************************************************************)
(* Whatever the signals, the targets of a rebalance keep all limits.       *)
(***************************************************************************)
LEMMA TargetsKeepLimits ==
  ASSUME NEW signals, NEW flatten, SignalsTyped(signals)
  PROVE  /\ TargetsOf(signals, flatten) \in [Names -> Int]
         /\ WithinLimits(TargetsOf(signals, flatten))
<1> DEFINE t == TargetsOf(signals, flatten)
<1>0. Names \subseteq Nat /\ IsFiniteSet(Names)
      /\ {PositionCap, SectorCap, GrossCap, NetCap} \subseteq Nat
  BY PipelineIsNumeric
<1>1. \A n \in Names : /\ WithinCap(t[n], PositionCap)
                       /\ Describes(Loop(signals, flatten)[n].claimed, t, Through(n))
  BY LoopWithin
<1>2. t = [n \in Names |-> Loop(signals, flatten)[n].target]
  BY LoopEquation
<1>3. t \in [Names -> Int] /\ \A n \in Names : Sizes(t)[n] <= PositionCap
  <2>1. \A n \in Names : t[n] \in Int /\ Magnitude(t[n]) <= PositionCap
    BY <1>1 DEF WithinCap
  <2>2. t = [n \in Names |-> t[n]]
    BY <1>2
  <2> HIDE DEF t
  <2> QED
    BY <2>1, <2>2 DEF Sizes
<1> HIDE DEF t
<1>4. \E c : Describes(c, t, Names)
  <2>1. CASE Names = {}
    BY <2>1, NothingClaimed
  <2>2. CASE Names # {}
    <3>1. Names \subseteq Int
      BY <1>0
    <3>2. Max(Names) \in Names /\ \A y \in Names : Max(Names) >= y
      BY <1>0, <2>2, <3>1, GreatestOf
    <3>3. Through(Max(Names)) = Names
      <4> DEFINE top == Max(Names)
      <4>1. top \in Names /\ \A y \in Names : top >= y
        BY <3>2
      <4> HIDE DEF top
      <4>2. \A y \in Names : y < top \/ y = top
        BY <3>1, <4>1
      <4>3. Through(top) = Names
        BY <4>1, <4>2 DEF Through, Before
      <4> QED
        BY <4>3 DEF top
    <3> QED
      BY <1>1, <3>2, <3>3
  <2> QED
    BY <2>1, <2>2
<1>5. PICK c : Describes(c, t, Names)
  BY <1>4
<1>6. /\ SumFunctionOnSet(Sizes(t), Names) <= GrossCap
      /\ Magnitude(SumFunctionOnSet(t, Names)) <= NetCap
  BY <1>0, <1>5 DEF Describes, WithinCap
<1>7. \A s \in Sectors : SumFunctionOnSet(Sizes(t), InSectorOf(Names, s)) <= SectorCap
  <2>1. \A s \in Sectors : c.sector[s] \in 0..SectorCap
    BY <1>5 DEF Describes
  <2>2. \A s \in Sectors : c.sector[s] = SumFunctionOnSet(Sizes(t), InSectorOf(Names, s))
    BY <1>5 DEF Describes
  <2> QED
    BY <1>0, <2>1, <2>2
<1>8. t \in [Names -> Int] /\ WithinLimits(t)
  BY <1>3, <1>6, <1>7 DEF WithinLimits
<1> QED
  BY <1>8 DEF t

-----------------------------------------------------------------------------
DecisionTyped ==
  /\ PipelineTypeOK
  /\ forecasts \in [Names -> SUBSET [at: Nat, value: Int]]
  /\ generator \in [members: Ensembles, method: EnsembleMethods, sizing: SizingMethods]
  /\ latest \in [Names -> SUBSET SignalRecords]
  /\ plan.targets \in [Names -> Int]
  /\ ~inSession => matched = {}

DecisionInv == DecisionTyped /\ NoHindsight /\ TargetsWithinLimits /\ SettledPlanReachesTarget

(***************************************************************************)
(* A cleared latest_signals_ holds no signal.                              *)
(***************************************************************************)
LEMMA NoSignals ==
  ASSUME NEW signals, signals = [n \in Names |-> {}]
  PROVE  /\ signals \in [Names -> SUBSET SignalRecords]
         /\ \A n \in Names : signals[n] \subseteq SignalRecords /\ Cardinality(signals[n]) <= 1
<1>1. \A n \in Names : signals[n] = {}
  OBVIOUS
<1>2. Cardinality({}) <= 1
  BY FS_EmptySet
<1>3. \A n \in Names : signals[n] \subseteq SignalRecords /\ Cardinality(signals[n]) <= 1
  BY <1>1, <1>2
<1>4. signals \in [Names -> SUBSET SignalRecords]
  BY <1>3
<1> QED
  BY <1>3, <1>4

(***************************************************************************)
(* The property, in the words of the lemmas.                               *)
(***************************************************************************)
LEMMA LimitsOfPlan == TargetsWithinLimits <=> WithinLimits(plan.targets)
BY DEF TargetsWithinLimits, WithinLimits, Sizes, Sectors, InSectorOf

(***************************************************************************)
(* A signal has the type the filters and the sizer expect, and remembers   *)
(* when it was decided and from which forecast.                            *)
(***************************************************************************)
LEMMA SignalIsTyped ==
  ASSUME generator \in [members: Ensembles, method: EnsembleMethods, sizing: SizingMethods],
         NEW forecast \in [at: Nat, value: Int], NEW now \in Nat
  PROVE  /\ SignalFrom(forecast, now) \in SignalRecords
         /\ SignalFrom(forecast, now).asOf = now /\ SignalFrom(forecast, now).seen = forecast.at
<1> DEFINE members == generator.members
           value == forecast.value
           weighted == [m \in members |-> m.weight * View(m, value)]
           weight == [m \in members |-> m.weight]
           said == Combined(value)
           left == Magnitude(said.weightedReturn) - Cost * SumFunction(weight)
           edge == IF said.side = 0 THEN 0 ELSE Max({0, left})
           expires == IF said.side = 0 THEN now + 1 ELSE now + SignalHorizon
<1>0. Cost \in Nat /\ SignalHorizon \in Nat /\ value \in Int /\ forecast.at \in Nat
  BY PipelineIsNumeric
<1>1. IsFiniteSet(members) /\ members \subseteq [weight: Nat, scale: Int, floor: Nat]
  BY ForecastsAreNumeric
<1>2. \A m \in members : m.weight \in Int /\ View(m, value) \in Int
  <2> SUFFICES ASSUME NEW m \in members PROVE m.weight \in Int /\ View(m, value) \in Int
    OBVIOUS
  <2>1. m.weight \in Int /\ m.scale \in Int
    BY <1>1
  <2>2. value * m.scale \in Int
    BY <1>0, <2>1
  <2> QED
    BY <2>1, <2>2 DEF View
<1>3. SumFunction(weighted) \in Int
  <2>1. DOMAIN weighted = members /\ \A m \in members : weighted[m] \in Int
    BY <1>2
  <2> HIDE DEF weighted
  <2> QED
    BY <1>1, <2>1, SumOfInts
<1>4. SumFunction(weight) \in Int
  <2>1. DOMAIN weight = members /\ \A m \in members : weight[m] \in Int
    BY <1>2
  <2> HIDE DEF weight
  <2> QED
    BY <1>1, <2>1, SumOfInts
<1>5. said.side \in {-1, 0, 1} /\ said.weightedReturn = SumFunction(weighted)
  BY DEF Combined, Side
<1>6. left \in Int
  <2>1. Cost * SumFunction(weight) \in Int
    BY <1>0, <1>4
  <2>2. Magnitude(said.weightedReturn) \in Int
    BY <1>3, <1>5 DEF Magnitude
  <2> QED
    BY <2>1, <2>2
<1>7. SignalFrom(forecast, now) =
        [side |-> said.side, edge |-> edge, asOf |-> now, expires |-> expires, seen |-> forecast.at]
  BY DEF SignalFrom
<1> HIDE DEF left, said
<1>8. edge \in Nat
  BY <1>6, MaxOfPair
<1>9. expires \in Nat
  BY <1>0
<1> HIDE DEF edge, expires
<1> QED
  BY <1>0, <1>5, <1>7, <1>8, <1>9 DEF SignalRecords

(***************************************************************************)
(* What a rebalance orders takes the position to its target, up to what is *)
(* too small to trade.                                                     *)
(***************************************************************************)
LEMMA TradedTowards ==
  ASSUME held \in [Names -> Int], NEW t \in [Names -> Int], NEW n \in Names
  PROVE  /\ Traded(n, t) \in Int
         /\ Magnitude(held[n] + Traded(n, t) - t[n]) < Max({DriftFloor, TradeFloor, Lot})
<1> DEFINE d == t[n] - held[n]
           S == {DriftFloor, TradeFloor, Lot}
           most == Max(S)
<1>0. DriftFloor \in Nat /\ TradeFloor \in Nat /\ Lot \in Nat \ {0} /\ d \in Int
  BY PipelineIsNumeric
<1>1. most \in Int /\ most >= DriftFloor /\ most >= TradeFloor /\ most >= Lot
  <2>1. IsFiniteSet(S) /\ S \subseteq Int /\ S # {}
    <3>1. S = (({} \cup {DriftFloor}) \cup {TradeFloor}) \cup {Lot}
      OBVIOUS
    <3>2. IsFiniteSet((({} \cup {DriftFloor}) \cup {TradeFloor}) \cup {Lot})
      BY FS_EmptySet, FS_AddElement
    <3> QED
      BY <1>0, <3>1, <3>2
  <2> HIDE DEF S
  <2>2. most \in S /\ \A y \in S : most >= y
    BY <2>1, GreatestOf
  <2> HIDE DEF most
  <2> QED
    BY <1>0, <2>1, <2>2 DEF S
<1> HIDE DEF most
<1>2. Traded(n, t) = IF d = 0 \/ Magnitude(d) < DriftFloor \/ Magnitude(d) < TradeFloor
                     THEN 0 ELSE ToLot(d)
  BY DEF Traded, Delta
<1>3. ToLot(d) \in Int /\ Magnitude(d - ToLot(d)) < Lot
  BY <1>0, ToLotWithin
<1>4. held[n] \in Int /\ t[n] \in Int
  OBVIOUS
<1>5. CASE d = 0 \/ Magnitude(d) < DriftFloor \/ Magnitude(d) < TradeFloor
  <2>1. Traded(n, t) = 0
    BY <1>2, <1>5
  <2>2. Magnitude(held[n] + 0 - t[n]) < most
    BY <1>0, <1>1, <1>4, <1>5 DEF Magnitude
  <2> QED
    BY <2>1, <2>2 DEF most
<1>6. CASE ~(d = 0 \/ Magnitude(d) < DriftFloor \/ Magnitude(d) < TradeFloor)
  <2>1. Traded(n, t) = ToLot(d)
    BY <1>2, <1>6
  <2>2. \A x \in Int : Magnitude(d - x) < Lot => Magnitude(held[n] + x - t[n]) < most
    BY <1>0, <1>1, <1>4 DEF Magnitude
  <2> QED
    BY <1>3, <2>1, <2>2 DEF most
<1> QED
  BY <1>5, <1>6

(***************************************************************************)
(* A rebalance leaves targets within the limits, and when nothing was in   *)
(* flight and every order was taken it leaves position and orders together *)
(* at the targets, up to what is too small to trade.                       *)
(***************************************************************************)
LEMMA RebalanceKeeps ==
  ASSUME DecisionTyped, NEW signals, NEW flatten, SignalsTyped(signals),
         Rebalance(signals, flatten), held' = held
  PROVE  /\ resting' \in [Names -> Int] /\ plan'.targets \in [Names -> Int]
         /\ TargetsWithinLimits' /\ SettledPlanReachesTarget'
<1> DEFINE t == TargetsOf(signals, flatten)
           wanted == {n \in Names : Traded(n, t) # 0}
<1>0. held \in [Names -> Int] /\ resting \in [Names -> Int]
  BY DEF DecisionTyped, PipelineTypeOK
<1>1. t \in [Names -> Int] /\ WithinLimits(t)
  BY TargetsKeepLimits
<1>2. PICK admitted \in SUBSET wanted :
        /\ resting' = [n \in Names |-> resting[n] + IF n \in admitted THEN Traded(n, t) ELSE 0]
        /\ plan' = [targets |-> t, settled |-> admitted = wanted /\ \A n \in Names : resting[n] = 0]
  BY DEF Rebalance
<1>3. plan'.targets = t /\ plan'.settled = (admitted = wanted /\ \A n \in Names : resting[n] = 0)
  <2> HIDE DEF t, wanted
  <2> QED
    BY <1>2, Zenon
<1> HIDE DEF t
<1>4. \A n \in Names : /\ Traded(n, t) \in Int
                       /\ Magnitude(held[n] + Traded(n, t) - t[n]) < Max({DriftFloor, TradeFloor, Lot})
  BY <1>0, <1>1, TradedTowards
<1>5. resting' \in [Names -> Int]
  BY <1>0, <1>2, <1>4
<1>6. TargetsWithinLimits'
  BY <1>1, <1>3 DEF TargetsWithinLimits, WithinLimits, Sizes, Sectors, InSectorOf
<1>7. SettledPlanReachesTarget'
  <2> SUFFICES ASSUME plan'.settled, NEW n \in Names
               PROVE  Magnitude(held'[n] + resting'[n] - plan'.targets[n])
                        < Max({DriftFloor, TradeFloor, Lot})
    BY Zenon DEF SettledPlanReachesTarget
  <2>1. admitted = wanted /\ resting[n] = 0
    BY <1>3, Zenon
  <2>2. resting'[n] = Traded(n, t)
    <3>1. resting'[n] = 0 + IF n \in admitted THEN Traded(n, t) ELSE 0
      BY <1>2, <2>1
    <3>2. n \notin admitted => Traded(n, t) = 0
      BY <2>1
    <3>3. Traded(n, t) \in Int
      BY <1>4
    <3> QED
      BY <3>1, <3>2, <3>3
  <2> QED
    BY <1>3, <1>4, <2>2
<1> QED
  BY <1>1, <1>3, <1>5, <1>6, <1>7

(***************************************************************************)
(* A fill moves quantity from the orders at the venue to the position.     *)
(***************************************************************************)
LEMMA MatchedKeeps ==
  ASSUME DecisionInv, NEW name \in Names, Matched(name)
  PROVE  DecisionInv'
<1>0. DecisionTyped /\ NoHindsight /\ TargetsWithinLimits /\ SettledPlanReachesTarget
  BY DEF DecisionInv
<1>1. held \in [Names -> Int] /\ resting \in [Names -> Int]
  BY <1>0 DEF DecisionTyped, PipelineTypeOK
<1>2. PICK filled \in {0, ToLot(Side(resting[name]) * (Magnitude(resting[name]) \div 2)), resting[name]} :
        /\ held' = [held EXCEPT ![name] = @ + filled]
        /\ resting' = [resting EXCEPT ![name] = @ - filled]
  BY DEF Matched
<1>3. /\ matched' = {name} /\ printed' = printed \cup {name} /\ inSession
      /\ UNCHANGED <<instant, inSession, forecasts, generator, latest, accepted, sinceRebalance, plan>>
  BY DEF Matched
<1>4. filled \in Int
  <2> DEFINE half == Magnitude(resting[name]) \div 2
  <2>1. half \in Int
    BY <1>1 DEF Magnitude
  <2> HIDE DEF half
  <2>2. Side(resting[name]) * half \in Int
    BY <2>1 DEF Side
  <2>3. ToLot(Side(resting[name]) * half) \in Int
    BY <2>2, ToLotWithin
  <2> QED
    BY <1>1, <1>2, <2>3 DEF half
<1>5. /\ held' \in [Names -> Int] /\ resting' \in [Names -> Int]
      /\ \A n \in Names : held'[n] + resting'[n] = held[n] + resting[n]
  BY <1>1, <1>2, <1>4
<1>6. DecisionTyped'
  BY <1>0, <1>3, <1>5 DEF DecisionTyped, PipelineTypeOK
<1>7. NoHindsight'
  BY <1>0, <1>3 DEF NoHindsight
<1>8. TargetsWithinLimits'
  BY <1>0, <1>3 DEF TargetsWithinLimits
<1>9. SettledPlanReachesTarget'
  <2> SUFFICES ASSUME plan'.settled, NEW n \in Names
               PROVE  Magnitude(held'[n] + resting'[n] - plan'.targets[n])
                        < Max({DriftFloor, TradeFloor, Lot})
    BY Zenon DEF SettledPlanReachesTarget
  <2>1. Magnitude(held[n] + resting[n] - plan.targets[n]) < Max({DriftFloor, TradeFloor, Lot})
    BY <1>0, <1>3, Zenon DEF SettledPlanReachesTarget
  <2> DEFINE before == held[n] + resting[n] - plan.targets[n]
             after == held'[n] + resting'[n] - plan'.targets[n]
  <2>2. before = after
    <3>1. held'[n] + resting'[n] = held[n] + resting[n]
      BY <1>5
    <3>2. plan' = plan
      BY <1>3
    <3>3. /\ held[n] \in Int /\ resting[n] \in Int /\ plan.targets[n] \in Int
          /\ held'[n] \in Int /\ resting'[n] \in Int
      BY <1>0, <1>1, <1>5 DEF DecisionTyped
    <3> QED
      BY <3>1, <3>2, <3>3
  <2>3. Magnitude(before) < Max({DriftFloor, TradeFloor, Lot})
    BY <2>1
  <2> HIDE DEF before, after
  <2>4. Magnitude(after) < Max({DriftFloor, TradeFloor, Lot})
    BY <2>2, <2>3
  <2> QED
    BY <2>4 DEF after
<1> QED
  BY <1>6, <1>7, <1>8, <1>9 DEF DecisionInv

(***************************************************************************)
(* A signal is decided from the newest forecast that is there, and its     *)
(* rebalance keeps the limits.                                             *)
(***************************************************************************)
LEMMA SignalTakenKeeps ==
  ASSUME DecisionInv, NEW name \in Names, SignalTaken(name)
  PROVE  DecisionInv'
<1>0. DecisionTyped /\ NoHindsight /\ TargetsWithinLimits /\ SettledPlanReachesTarget
  BY DEF DecisionInv
<1>1. PICK f \in Available(name, instant) :
        latest' = [latest EXCEPT ![name] = {SignalFrom(f, instant)}]
  BY DEF SignalTaken
<1>2. /\ matched = {name} /\ matched' = {} /\ accepted' = [accepted EXCEPT ![name] = instant]
      /\ UNCHANGED <<instant, printed, inSession, forecasts, generator, held>>
  BY DEF SignalTaken
<1>3. IF sinceRebalance + 1 >= RebalanceEvery
      THEN Rebalance(latest', FALSE) /\ sinceRebalance' = 0
      ELSE sinceRebalance' = sinceRebalance + 1 /\ UNCHANGED <<resting, plan>>
  BY DEF SignalTaken
<1> DEFINE signal == SignalFrom(f, instant)
<1>4. /\ instant \in Nat /\ f \in forecasts[name] /\ f \in [at: Nat, value: Int] /\ f.at <= instant
      /\ \A g \in forecasts[name] : g.at <= instant => g.at <= f.at
      /\ latest \in [Names -> SUBSET SignalRecords]
  BY <1>0 DEF Available, DecisionTyped, PipelineTypeOK
<1>5. signal \in SignalRecords /\ signal.asOf = instant /\ signal.seen = f.at
  BY <1>0, <1>4, SignalIsTyped DEF DecisionTyped
<1> HIDE DEF signal
<1>6. /\ latest' \in [Names -> SUBSET SignalRecords]
      /\ latest'[name] = {signal}
      /\ \A n \in Names \ {name} : latest'[n] = latest[n]
  BY <1>1, <1>4, <1>5 DEF signal
<1>7. NoHindsight'
  BY <1>0, <1>2, <1>4, <1>5, <1>6 DEF NoHindsight
<1>8. /\ resting' \in [Names -> Int] /\ plan'.targets \in [Names -> Int]
      /\ TargetsWithinLimits' /\ SettledPlanReachesTarget'
      /\ sinceRebalance' \in 0..(RebalanceEvery - 1)
  <2>0. RebalanceEvery \in Nat \ {0} /\ sinceRebalance \in 0..(RebalanceEvery - 1)
    BY <1>0, PipelineIsNumeric DEF DecisionTyped, PipelineTypeOK
  <2>1. CASE sinceRebalance + 1 >= RebalanceEvery
    <3>1. Rebalance(latest', FALSE) /\ sinceRebalance' = 0
      BY <1>3, <2>1
    <3>2. SignalsTyped(latest')
      BY <1>6 DEF SignalsTyped
    <3>3. held' = held
      BY <1>2
    <3>4. /\ resting' \in [Names -> Int] /\ plan'.targets \in [Names -> Int]
          /\ TargetsWithinLimits' /\ SettledPlanReachesTarget'
      BY <1>0, <3>1, <3>2, <3>3, RebalanceKeeps
    <3> QED
      BY <2>0, <3>1, <3>4
  <2>2. CASE ~(sinceRebalance + 1 >= RebalanceEvery)
    <3>1. sinceRebalance' = sinceRebalance + 1 /\ resting' = resting /\ plan' = plan /\ held' = held
      BY <1>2, <1>3, <2>2
    <3>2. TargetsWithinLimits'
      BY <1>0, <3>1 DEF TargetsWithinLimits
    <3>3. SettledPlanReachesTarget'
      BY <1>0, <3>1, Zenon DEF SettledPlanReachesTarget
    <3> QED
      BY <1>0, <2>0, <2>2, <3>1, <3>2, <3>3 DEF DecisionTyped, PipelineTypeOK
  <2> QED
    BY <2>1, <2>2
<1>9. DecisionTyped'
  <2>1. \A n \in Names : Cardinality(latest'[n]) <= 1
    <3>1. Cardinality(latest'[name]) <= 1
      <4>1. Cardinality({signal}) = 1
        BY FS_Singleton
      <4> QED
        BY <1>6, <4>1
    <3>2. \A n \in Names : Cardinality(latest[n]) <= 1
      BY <1>0 DEF DecisionTyped, PipelineTypeOK
    <3> QED
      BY <1>6, <3>1, <3>2
  <2>2. accepted' \in [Names -> Nat \cup {Never}]
    BY <1>0, <1>2, <1>4 DEF DecisionTyped, PipelineTypeOK
  <2> QED
    BY <1>0, <1>2, <1>6, <1>8, <2>1, <2>2 DEF DecisionTyped, PipelineTypeOK
<1> QED
  BY <1>7, <1>8, <1>9 DEF DecisionInv

(***************************************************************************)
(* At the close of a session every target is zero.                         *)
(***************************************************************************)
LEMMA SessionClosesKeeps ==
  ASSUME DecisionInv, SessionCloses
  PROVE  DecisionInv'
<1>0. DecisionTyped /\ NoHindsight /\ TargetsWithinLimits /\ SettledPlanReachesTarget
  BY DEF DecisionInv
<1>1. /\ matched = {} /\ inSession' = FALSE /\ Rebalance(latest, TRUE) /\ latest' = [n \in Names |-> {}]
      /\ UNCHANGED <<instant, printed, matched, forecasts, generator, held, accepted, sinceRebalance>>
  BY DEF SessionCloses
<1>2. SignalsTyped(latest)
  BY <1>0 DEF SignalsTyped, DecisionTyped
<1>3. /\ resting' \in [Names -> Int] /\ plan'.targets \in [Names -> Int]
      /\ TargetsWithinLimits' /\ SettledPlanReachesTarget'
  BY <1>0, <1>1, <1>2, RebalanceKeeps
<1>4. NoHindsight'
  BY <1>1 DEF NoHindsight
<1>5. DecisionTyped'
  <2>1. inSession' \in BOOLEAN
    BY <1>1
  <2>2. latest' \in [Names -> SUBSET SignalRecords]
        /\ \A n \in Names : latest'[n] \subseteq SignalRecords /\ Cardinality(latest'[n]) <= 1
    BY <1>1, NoSignals
  <2> QED
    BY <1>0, <1>1, <1>3, <2>1, <2>2 DEF DecisionTyped, PipelineTypeOK
<1> QED
  BY <1>3, <1>4, <1>5 DEF DecisionInv

(***************************************************************************)
(* The steps that decide nothing.                                          *)
(***************************************************************************)
LEMMA RestDecidesNothing ==
  ASSUME DecisionInv,
         \/ \E name \in Names : NothingToSay(name)
         \/ SessionOpens \/ NextInstant \/ UNCHANGED pipelineVars
  PROVE  DecisionInv'
<1>0. DecisionTyped /\ NoHindsight /\ TargetsWithinLimits /\ SettledPlanReachesTarget
  BY DEF DecisionInv
<1>1. /\ UNCHANGED <<forecasts, generator, held, resting, accepted, plan>>
      /\ latest' = latest \/ latest' = [n \in Names |-> {}]
  BY DEF NothingToSay, SessionOpens, NextInstant, pipelineVars
<1>2. /\ instant' \in 1..MaxInstant /\ matched' \subseteq printed' /\ printed' \subseteq Names
      /\ inSession' \in BOOLEAN /\ sinceRebalance' \in 0..(RebalanceEvery - 1)
      /\ ~inSession' => matched' = {}
  <2>1. /\ instant \in 1..MaxInstant /\ matched \subseteq printed /\ printed \subseteq Names
        /\ inSession \in BOOLEAN /\ sinceRebalance \in 0..(RebalanceEvery - 1)
        /\ ~inSession => matched = {}
        /\ MaxInstant \in Nat \ {0} /\ RebalanceEvery \in Nat \ {0}
    BY <1>0, PipelineIsNumeric DEF DecisionTyped, PipelineTypeOK
  <2>2. CASE \E name \in Names : NothingToSay(name)
    BY <2>1, <2>2 DEF NothingToSay
  <2>3. CASE SessionOpens
    <3>1. ~inSession /\ matched' = matched /\ printed' = {} /\ inSession' = TRUE
          /\ instant < MaxInstant /\ instant' = instant + 1 /\ sinceRebalance' = 0
      BY <2>3 DEF SessionOpens
    <3>2. matched = {}
      BY <1>0, <3>1 DEF DecisionTyped
    <3> QED
      BY <2>1, <3>1, <3>2
  <2>4. CASE NextInstant
    BY <2>1, <2>4 DEF NextInstant
  <2>5. CASE UNCHANGED pipelineVars
    BY <2>1, <2>5 DEF pipelineVars
  <2> QED
    BY <2>2, <2>3, <2>4, <2>5
<1>3. NoHindsight'
  BY <1>0, <1>1 DEF NoHindsight
<1>4. TargetsWithinLimits'
  BY <1>0, <1>1 DEF TargetsWithinLimits
<1>5. SettledPlanReachesTarget'
  BY <1>0, <1>1, Zenon DEF SettledPlanReachesTarget
<1>6. DecisionTyped'
  <2>1. latest' \in [Names -> SUBSET SignalRecords]
        /\ \A n \in Names : latest'[n] \subseteq SignalRecords /\ Cardinality(latest'[n]) <= 1
    <3>1. CASE latest' = latest
      BY <1>0, <3>1 DEF DecisionTyped, PipelineTypeOK
    <3>2. CASE latest' = [n \in Names |-> {}]
      BY <3>2, NoSignals
    <3> QED
      BY <1>1, <3>1, <3>2
  <2> QED
    BY <1>0, <1>1, <1>2, <2>1 DEF DecisionTyped, PipelineTypeOK
<1> QED
  BY <1>3, <1>4, <1>5, <1>6 DEF DecisionInv

(***************************************************************************)
(* Every step of the pipeline keeps the invariant.                         *)
(***************************************************************************)
LEMMA DecisionInvHolds == PipelineSpec => []DecisionInv
<1>1. PipelineInit => DecisionInv
  <2> SUFFICES ASSUME PipelineInit PROVE DecisionInv
    OBVIOUS
  <2> DEFINE none == [n \in Names |-> {}]
             zeros == [n \in Names |-> 0]
  <2>1. TargetsOf(none, TRUE) = zeros
    BY FlatTargets
  <2>2. WithinLimits(zeros)
    <3>1. SignalsTyped(none)
      BY DEF SignalsTyped
    <3> HIDE DEF none, zeros
    <3> QED
      BY <2>1, <3>1, TargetsKeepLimits
  <2>3. plan.targets = zeros /\ plan.settled = FALSE
    BY DEF PipelineInit
  <2>4. TargetsWithinLimits
    <3> HIDE DEF zeros
    <3> QED
      BY <2>2, <2>3, LimitsOfPlan
  <2>5. SettledPlanReachesTarget
    BY <2>3, Zenon DEF SettledPlanReachesTarget
  <2>6. latest = none /\ NoHindsight
    BY DEF PipelineInit, NoHindsight
  <2>7. DecisionTyped
    <3>1. PipelineTypeOK
      BY PipelineIsNumeric, FS_EmptySet DEF PipelineInit, PipelineTypeOK
    <3> QED
      BY <2>3, <2>6, <3>1, ForecastsAreNumeric DEF PipelineInit, DecisionTyped
  <2> QED
    BY <2>4, <2>5, <2>6, <2>7 DEF DecisionInv
<1>2. DecisionInv /\ [PipelineNext]_pipelineVars => DecisionInv'
  <2> SUFFICES ASSUME DecisionInv, [PipelineNext]_pipelineVars PROVE DecisionInv'
    OBVIOUS
  <2>1. ASSUME NEW name \in Names, Matched(name) PROVE DecisionInv'
    BY <2>1, MatchedKeeps
  <2>2. ASSUME NEW name \in Names, SignalTaken(name) PROVE DecisionInv'
    BY <2>2, SignalTakenKeeps
  <2>3. CASE SessionCloses
    BY <2>3, SessionClosesKeeps
  <2>4. CASE \/ \E name \in Names : NothingToSay(name)
             \/ SessionOpens \/ NextInstant \/ UNCHANGED pipelineVars
    BY <2>4, RestDecidesNothing
  <2> QED
    BY <2>1, <2>2, <2>3, <2>4 DEF PipelineNext
<1> QED
  BY <1>1, <1>2, PTL DEF PipelineSpec

(***************************************************************************)
(* For every set of instruments, every store of forecasts, every ensemble  *)
(* and every limit, the pipeline decides without hindsight, its targets    *)
(* keep all limits at once, and a settled plan is carried out.             *)
(***************************************************************************)
THEOREM DecisionsStaySound == PipelineSpec => []DecisionsAreSound
<1>1. DecisionInv => DecisionsAreSound
  BY DEF DecisionInv, DecisionsAreSound, DecisionTyped
<1>2. PipelineSpec => []DecisionInv
  BY DecisionInvHolds
<1> QED
  BY <1>1, <1>2, PTL
=============================================================================
