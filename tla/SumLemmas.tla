----------------------------- MODULE SumLemmas -----------------------------
(***************************************************************************)
(* Facts about sums over finite sets, for the proofs about totals that the *)
(* code accumulates in a loop over its records: the exposure of the live   *)
(* orders, filled quantity and notional, what a fill ledger has booked.    *)
(*                                                                         *)
(* The library's induction theorems take an operator as a parameter.  Here *)
(* induction is first-order: a set of counterexamples, were it not empty,  *)
(* would have a least member (WFMin, over the order on Nat).               *)
(***************************************************************************)
EXTENDS Integers, Functions, FiniteSets, FiniteSetTheorems, WellFoundedInduction, TLAPS

(***************************************************************************)
(* Induction over a finite set, with the predicate given as a set: what    *)
(* holds of the empty set and survives adding an element holds of every    *)
(* finite set.  A least counterexample would leave a smaller one when an   *)
(* element is taken out.                                                   *)
(***************************************************************************)
LEMMA FiniteInduction ==
  ASSUME NEW S, IsFiniteSet(S), NEW P,
         {} \in P,
         \A s \in SUBSET S : \A x \in S \ s : s \in P => s \cup {x} \in P
  PROVE  S \in P
<1> DEFINE Missed == {n \in Nat : \E s \in SUBSET S : Cardinality(s) = n /\ s \notin P}
           R == OpToRel(<, Nat)
<1>1. \A s \in SUBSET S : IsFiniteSet(s) /\ Cardinality(s) \in Nat
  BY FS_Subset, FS_CardinalityType
<1>2. ASSUME Missed # {} PROVE FALSE
  <2>1. IsWellFoundedOn(R, Nat)
    BY NatLessThanWellFounded
  <2>2. PICK n \in Missed : \A m \in Missed : ~(<<m, n>> \in R)
    <3>1. Missed \subseteq Nat
      OBVIOUS
    <3> HIDE DEF R, Missed
    <3> QED BY <1>2, <2>1, <3>1, WFMin
  <2>3. \A m \in Missed : ~(m < n)
    BY <2>2 DEF OpToRel
  <2>4. PICK s \in SUBSET S : Cardinality(s) = n /\ s \notin P
    OBVIOUS
  <2>5. PICK x \in s : TRUE
    BY <2>4
  <2>6. Cardinality(s \ {x}) = n - 1 /\ n - 1 \in Nat
    <3>1. IsFiniteSet(s) /\ IsFiniteSet(s \ {x}) /\ Cardinality(s \ {x}) \in Nat
      BY <1>1, <2>4
    <3>2. Cardinality(s \ {x}) = Cardinality(s) - 1
      BY <2>5, <3>1, FS_RemoveElement
    <3> QED
      BY <2>4, <3>1, <3>2
  <2>7. s \ {x} \in P
    <3>1. n - 1 < n
      BY <2>6
    <3>2. n - 1 \notin Missed
      <4> HIDE DEF Missed
      <4> QED BY <2>3, <3>1
    <3>3. s \ {x} \in SUBSET S
      OBVIOUS
    <3> DEFINE t == s \ {x}
    <3>4. Cardinality(t) = n - 1 /\ t \in SUBSET S /\ n - 1 \in Nat
      BY <2>6, <3>3
    <3> HIDE DEF t
    <3>5. t \in P
      BY <3>2, <3>4
    <3> QED BY <3>5 DEF t
  <2>8. (s \ {x}) \cup {x} = s
    BY <2>5
  <2>9. s \ {x} \in SUBSET S /\ x \in S \ (s \ {x})
    BY <2>4, <2>5
  <2>10. (s \ {x}) \cup {x} \in P
    <3> HIDE DEF Missed, R
    <3> QED BY <2>7, <2>9
  <2> QED
    BY <2>4, <2>8, <2>10
<1> QED
  BY <1>1, <1>2

\* The element the fold of the library takes first, and its equation.
Pick(s) == CHOOSE x \in s : TRUE

IsFold(f, S, g) ==
  g = [s \in SUBSET S |-> IF s = {} THEN 0 ELSE f[Pick(s)] + g[s \ {Pick(s)}]]

(***************************************************************************)
(* SumFunctionOnSet, spelled out down to the recursive function it         *)
(* chooses.                                                                *)
(***************************************************************************)
LEMMA SumIsFold ==
  ASSUME NEW f, NEW S
  PROVE  SumFunctionOnSet(f, S) = (CHOOSE g : IsFold(f, S, g))[S]
BY DEF SumFunctionOnSet, FoldFunctionOnSet, MapThenFoldSet, IsFold, Pick

(***************************************************************************)
(* The element a fold takes first is in the set it folds over.             *)
(***************************************************************************)
LEMMA PickIn == \A s : s # {} => Pick(s) \in s
BY DEF Pick

(***************************************************************************)
(* Induction over the naturals, with the predicate given as a set.         *)
(***************************************************************************)
LEMMA NaturalInduction ==
  ASSUME NEW P, 0 \in P, \A n \in Nat : n \in P => n + 1 \in P
  PROVE  \A n \in Nat : n \in P
<1> DEFINE Missed == Nat \ P
           R == OpToRel(<, Nat)
<1>1. ASSUME Missed # {} PROVE FALSE
  <2>1. IsWellFoundedOn(R, Nat) /\ Missed \subseteq Nat
    BY NatLessThanWellFounded
  <2>2. PICK n \in Missed : \A m \in Missed : ~(<<m, n>> \in R)
    <3> HIDE DEF R, Missed
    <3> QED BY <1>1, <2>1, WFMin
  <2>3. n # 0 /\ n - 1 \in Nat
    OBVIOUS
  <2>4. \A m \in Missed : ~(m < n)
    BY <2>2 DEF OpToRel
  <2>5. n - 1 \in P
    BY <2>3, <2>4
  <2> QED
    BY <2>3, <2>5
<1> QED
  BY <1>1

(***************************************************************************)
(* Over a finite set the recursive equation of the fold has a solution, so *)
(* that the CHOOSE in its definition denotes one.                          *)
(***************************************************************************)
LEMMA FoldExists ==
  ASSUME NEW f, NEW S, IsFiniteSet(S)
  PROVE  \E g : IsFold(f, S, g)
<1> DEFINE Step(g, s) == IF s = {} THEN 0 ELSE f[Pick(s)] + g[s \ {Pick(s)}]
           Upto(n) == {s \in SUBSET S : Cardinality(s) <= n}
           Reached == {n \in Nat : \E g : \A s \in Upto(n) : g[s] = Step(g, s)}
<1>1. \A s \in SUBSET S : IsFiniteSet(s) /\ Cardinality(s) \in Nat /\ Cardinality(s) <= Cardinality(S)
  BY FS_Subset, FS_CardinalityType
<1>2. \A s \in SUBSET S : s # {} => Pick(s) \in s /\ Cardinality(s \ {Pick(s)}) = Cardinality(s) - 1
  BY <1>1, PickIn, FS_RemoveElement
<1>3. 0 \in Reached
  <2> DEFINE g == [s \in SUBSET S |-> 0]
  <2>1. \A s \in Upto(0) : s = {}
    BY <1>1, FS_EmptySet
  <2>2. \A s \in Upto(0) : g[s] = Step(g, s)
    BY <2>1
  <2> QED BY <2>2
<1>4. ASSUME NEW n \in Nat, n \in Reached
      PROVE  n + 1 \in Reached
  <2>1. PICK g : \A s \in Upto(n) : g[s] = Step(g, s)
    BY <1>4
  <2> DEFINE h == [s \in SUBSET S |-> Step(g, s)]
  <2>2. ASSUME NEW s \in Upto(n + 1) PROVE h[s] = Step(h, s)
    <3>1. CASE s = {}
      BY <3>1
    <3>2. CASE s # {}
      <4>1. s \ {Pick(s)} \in Upto(n)
        BY <1>1, <1>2, <3>2
      <4>2. h[s \ {Pick(s)}] = g[s \ {Pick(s)}]
        BY <2>1, <4>1
      <4> QED BY <3>2, <4>2
    <3> QED BY <3>1, <3>2
  <2>3. \E k : \A s \in Upto(n + 1) : k[s] = Step(k, s)
    <3> HIDE DEF h, Upto, Step
    <3> QED BY <2>2
  <2> QED
    <3> HIDE DEF h, Upto, Step
    <3> QED BY <2>3
<1>5. Cardinality(S) \in Nat /\ Cardinality(S) \in Reached
  <2> HIDE DEF Reached
  <2> QED BY <1>1, <1>3, <1>4, NaturalInduction
<1>6. PICK g : \A s \in Upto(Cardinality(S)) : g[s] = Step(g, s)
  BY <1>5
<1>7. Upto(Cardinality(S)) = SUBSET S
  BY <1>1
<1> DEFINE fold == [s \in SUBSET S |-> g[s]]
<1>8. ASSUME NEW s \in SUBSET S PROVE fold[s] = Step(fold, s)
  BY <1>6, <1>7, <1>8
<1> QED
  BY <1>8 DEF IsFold

(***************************************************************************)
(* Two solutions of the fold's equation, on a set and on a subset of it,   *)
(* agree on the subset.                                                    *)
(***************************************************************************)
LEMMA FoldUnique ==
  ASSUME NEW f, NEW S, IsFiniteSet(S), NEW T \in SUBSET S,
         NEW g, IsFold(f, S, g), NEW h, IsFold(f, T, h)
  PROVE  g[T] = h[T]
<1> DEFINE Agree == {n \in Nat : \A s \in SUBSET T : Cardinality(s) = n => g[s] = h[s]}
<1>1. \A s \in SUBSET T : IsFiniteSet(s) /\ Cardinality(s) \in Nat
  BY FS_Subset, FS_CardinalityType
<1>2. \A s \in SUBSET T : s # {} => Pick(s) \in s /\ Cardinality(s \ {Pick(s)}) = Cardinality(s) - 1
  BY <1>1, PickIn, FS_RemoveElement
<1>3. \A s \in SUBSET T : /\ g[s] = IF s = {} THEN 0 ELSE f[Pick(s)] + g[s \ {Pick(s)}]
                          /\ h[s] = IF s = {} THEN 0 ELSE f[Pick(s)] + h[s \ {Pick(s)}]
  BY DEF IsFold
<1>4. 0 \in Agree
  BY <1>1, <1>3, FS_EmptySet
<1>5. ASSUME NEW n \in Nat, n \in Agree PROVE n + 1 \in Agree
  <2> SUFFICES ASSUME NEW s \in SUBSET T, Cardinality(s) = n + 1 PROVE g[s] = h[s]
    OBVIOUS
  <2>1. s # {} /\ Cardinality(s \ {Pick(s)}) = n
    BY <1>1, <1>2, FS_EmptySet
  <2>2. g[s \ {Pick(s)}] = h[s \ {Pick(s)}]
    BY <1>5, <2>1
  <2> QED BY <1>3, <2>1, <2>2
<1>6. Cardinality(T) \in Agree
  <2> HIDE DEF Agree
  <2> QED BY <1>1, <1>4, <1>5, NaturalInduction
<1> QED BY <1>6

(***************************************************************************)
(* The sum obeys its recursive equation: one element taken out, the rest   *)
(* summed. This is the loop of OrderManager::exposure_of, in the order     *)
(* CHOOSE gives it.                                                        *)
(***************************************************************************)
LEMMA SumEquation ==
  ASSUME NEW f, NEW S, IsFiniteSet(S)
  PROVE  SumFunctionOnSet(f, S) =
           IF S = {} THEN 0 ELSE f[Pick(S)] + SumFunctionOnSet(f, S \ {Pick(S)})
<1> DEFINE g == CHOOSE g : IsFold(f, S, g)
           T == S \ {Pick(S)}
           h == CHOOSE h : IsFold(f, T, h)
<1>1. IsFiniteSet(T)
  BY FS_Subset
<1>2. IsFold(f, S, g) /\ IsFold(f, T, h)
  BY <1>1, FoldExists
<1>3. g[T] = h[T]
  <2> HIDE DEF g, h
  <2> QED BY <1>2, FoldUnique
<1>4. g[S] = IF S = {} THEN 0 ELSE f[Pick(S)] + g[T]
  <2> HIDE DEF g
  <2> QED BY <1>2 DEF IsFold
<1>5. SumFunctionOnSet(f, S) = g[S] /\ SumFunctionOnSet(f, T) = h[T]
  BY SumIsFold
<1> QED
  BY <1>3, <1>4, <1>5

(***************************************************************************)
(* A sum over nothing is zero.                                             *)
(***************************************************************************)
LEMMA SumEmpty == \A f : SumFunctionOnSet(f, {}) = 0
BY SumEquation, FS_EmptySet

(***************************************************************************)
(* A sum of integers over a finite set is an integer.                      *)
(***************************************************************************)
LEMMA SumType ==
  ASSUME NEW f, NEW S, IsFiniteSet(S), \A x \in S : f[x] \in Int
  PROVE  SumFunctionOnSet(f, S) \in Int
<1> DEFINE Typed == {n \in Nat : \A s \in SUBSET S :
                                   Cardinality(s) = n => SumFunctionOnSet(f, s) \in Int}
<1>1. \A s \in SUBSET S : IsFiniteSet(s) /\ Cardinality(s) \in Nat
  BY FS_Subset, FS_CardinalityType
<1>2. \A s \in SUBSET S : s # {} => Pick(s) \in s /\ Cardinality(s \ {Pick(s)}) = Cardinality(s) - 1
  BY <1>1, PickIn, FS_RemoveElement
<1>4. 0 \in Typed
  BY <1>1, FS_EmptySet, SumEmpty
<1>5. ASSUME NEW n \in Nat, n \in Typed PROVE n + 1 \in Typed
  <2> SUFFICES ASSUME NEW s \in SUBSET S, Cardinality(s) = n + 1
               PROVE  SumFunctionOnSet(f, s) \in Int
    OBVIOUS
  <2>1. s # {} /\ Pick(s) \in s /\ Cardinality(s \ {Pick(s)}) = n
    BY <1>1, <1>2, FS_EmptySet
  <2>2. SumFunctionOnSet(f, s \ {Pick(s)}) \in Int
    BY <1>5, <2>1
  <2> QED BY <1>1, <2>1, <2>2, SumEquation
<1>6. Cardinality(S) \in Typed
  <2> HIDE DEF Typed
  <2> QED BY <1>1, <1>4, <1>5, NaturalInduction
<1> QED BY <1>6

(***************************************************************************)
(* The order of a sum does not matter: any element may be taken out first, *)
(* as the order in which records_ is walked does not matter to             *)
(* exposure_of.                                                            *)
(***************************************************************************)
LEMMA SumTakingAny ==
  ASSUME NEW f, NEW S, IsFiniteSet(S), \A x \in S : f[x] \in Int
  PROVE  \A x \in S : SumFunctionOnSet(f, S) = f[x] + SumFunctionOnSet(f, S \ {x})
<1> DEFINE Sum(s) == SumFunctionOnSet(f, s)
           Good == {n \in Nat : \A s \in SUBSET S : Cardinality(s) = n =>
                                  \A x \in s : Sum(s) = f[x] + Sum(s \ {x})}
<1>1. \A s \in SUBSET S : IsFiniteSet(s) /\ Cardinality(s) \in Nat /\ Sum(s) \in Int
  BY FS_Subset, FS_CardinalityType, SumType
<1>2. \A s \in SUBSET S : \A x \in s : Cardinality(s \ {x}) = Cardinality(s) - 1
  BY <1>1, FS_RemoveElement
<1>4. 0 \in Good
  BY <1>1, FS_EmptySet
<1>5. ASSUME NEW n \in Nat, n \in Good PROVE n + 1 \in Good
  <2> SUFFICES ASSUME NEW s \in SUBSET S, Cardinality(s) = n + 1, NEW x \in s
               PROVE  Sum(s) = f[x] + Sum(s \ {x})
    OBVIOUS
  <2> DEFINE p == Pick(s)
  <2>1. p \in s
    BY PickIn
  <2>2. Sum(s) = f[p] + Sum(s \ {p})
    BY <1>1, <2>1, SumEquation
  <2>3. CASE p = x
    BY <2>2, <2>3
  <2>4. CASE p # x
    <3> HIDE DEF Sum, p
    <3>1. Sum(s \ {p}) = f[x] + Sum((s \ {p}) \ {x})
      BY <1>2, <1>5, <2>1, <2>4
    <3>2. Sum(s \ {x}) = f[p] + Sum((s \ {x}) \ {p})
      BY <1>2, <1>5, <2>1, <2>4
    <3>3. (s \ {p}) \ {x} = (s \ {x}) \ {p}
      OBVIOUS
    <3>4. Sum((s \ {p}) \ {x}) \in Int /\ f[x] \in Int /\ f[p] \in Int
      BY <1>1, <2>1
    <3>5. Sum(s) = f[p] + (f[x] + Sum((s \ {p}) \ {x}))
      BY <2>2, <3>1
    <3>6. Sum(s \ {x}) = f[p] + Sum((s \ {p}) \ {x})
      BY <3>2, <3>3
    <3> HIDE DEF Good
    <3> QED BY <3>4, <3>5, <3>6
  <2> QED BY <2>3, <2>4
<1>6. Cardinality(S) \in Good
  <2> HIDE DEF Good
  <2> QED BY <1>1, <1>4, <1>5, NaturalInduction
<1> QED BY <1>6

(***************************************************************************)
(* Two functions that agree on a finite set have the same sum over it.     *)
(***************************************************************************)
LEMMA SumAgrees ==
  ASSUME NEW f, NEW h, NEW S, IsFiniteSet(S), \A x \in S : f[x] = h[x]
  PROVE  SumFunctionOnSet(f, S) = SumFunctionOnSet(h, S)
<1> DEFINE Agree == {n \in Nat : \A s \in SUBSET S : Cardinality(s) = n =>
                                   SumFunctionOnSet(f, s) = SumFunctionOnSet(h, s)}
<1>1. \A s \in SUBSET S : IsFiniteSet(s) /\ Cardinality(s) \in Nat
  BY FS_Subset, FS_CardinalityType
<1>2. \A s \in SUBSET S : s # {} => Pick(s) \in s /\ Cardinality(s \ {Pick(s)}) = Cardinality(s) - 1
  BY <1>1, PickIn, FS_RemoveElement
<1>3. 0 \in Agree
  BY <1>1, FS_EmptySet, SumEmpty
<1>4. ASSUME NEW n \in Nat, n \in Agree PROVE n + 1 \in Agree
  <2> SUFFICES ASSUME NEW s \in SUBSET S, Cardinality(s) = n + 1
               PROVE  SumFunctionOnSet(f, s) = SumFunctionOnSet(h, s)
    OBVIOUS
  <2>1. s # {} /\ Pick(s) \in s /\ Cardinality(s \ {Pick(s)}) = n
    BY <1>1, <1>2, FS_EmptySet
  <2>2. SumFunctionOnSet(f, s \ {Pick(s)}) = SumFunctionOnSet(h, s \ {Pick(s)})
    BY <1>4, <2>1
  <2> QED BY <1>1, <2>1, <2>2, SumEquation
<1>5. Cardinality(S) \in Agree
  <2> HIDE DEF Agree
  <2> QED BY <1>1, <1>3, <1>4, NaturalInduction
<1> QED BY <1>5

(***************************************************************************)
(* The sum of an integer-valued function on a finite domain is an integer. *)
(***************************************************************************)
LEMMA SumOfInts ==
  ASSUME NEW f, IsFiniteSet(DOMAIN f), \A x \in DOMAIN f : f[x] \in Int
  PROVE  SumFunction(f) \in Int
BY SumType DEF SumFunction

(***************************************************************************)
(* A change of one value moves the sum by the difference: what a fill or a *)
(* cancel, which touch one record, do to a total over all records.         *)
(***************************************************************************)
LEMMA SumAfterChange ==
  ASSUME NEW f, NEW g, IsFiniteSet(DOMAIN f), DOMAIN g = DOMAIN f,
         \A y \in DOMAIN f : f[y] \in Int,
         NEW x \in DOMAIN f, g[x] \in Int, \A y \in DOMAIN f \ {x} : g[y] = f[y]
  PROVE  SumFunction(g) = SumFunction(f) - f[x] + g[x]
<1> DEFINE rest == DOMAIN f \ {x}
<1>1. IsFiniteSet(rest)
  BY FS_Subset
<1>2. SumFunction(f) = f[x] + SumFunctionOnSet(f, rest)
  BY SumTakingAny DEF SumFunction
<1>3. \A y \in DOMAIN g : g[y] \in Int
  OBVIOUS
<1>4. SumFunction(g) = g[x] + SumFunctionOnSet(g, rest)
  BY <1>3, SumTakingAny DEF SumFunction
<1>5. SumFunctionOnSet(g, rest) = SumFunctionOnSet(f, rest)
  BY <1>1, SumAgrees
<1>6. SumFunctionOnSet(f, rest) \in Int
  BY <1>1, SumType
<1> QED
  BY <1>2, <1>4, <1>5, <1>6

(***************************************************************************)
(* A new element adds its value to the sum: what submit does to a total    *)
(* over all records.                                                       *)
(***************************************************************************)
LEMMA SumAfterAdding ==
  ASSUME NEW f, NEW g, IsFiniteSet(DOMAIN f),
         \A y \in DOMAIN f : f[y] \in Int,
         NEW x, x \notin DOMAIN f, DOMAIN g = DOMAIN f \cup {x},
         g[x] \in Int, \A y \in DOMAIN f : g[y] = f[y]
  PROVE  SumFunction(g) = SumFunction(f) + g[x]
<1>1. IsFiniteSet(DOMAIN g) /\ (DOMAIN g) \ {x} = DOMAIN f
  BY FS_AddElement
<1>2. \A y \in DOMAIN g : g[y] \in Int
  OBVIOUS
<1>3. SumFunction(g) = g[x] + SumFunctionOnSet(g, DOMAIN f)
  BY <1>1, <1>2, SumTakingAny DEF SumFunction
<1>4. SumFunctionOnSet(g, DOMAIN f) = SumFunction(f)
  BY SumAgrees DEF SumFunction
<1>5. SumFunction(f) \in Int
  BY SumOfInts
<1> QED
  BY <1>3, <1>4, <1>5

(***************************************************************************)
(* A sum of values that are not negative is not negative: the exposure of  *)
(* orders of one side has the sign of that side.                           *)
(***************************************************************************)
LEMMA SumNotNegative ==
  ASSUME NEW f, NEW S, IsFiniteSet(S), \A x \in S : f[x] \in Nat
  PROVE  SumFunctionOnSet(f, S) \in Nat
<1> DEFINE Good == {n \in Nat : \A s \in SUBSET S :
                                  Cardinality(s) = n => SumFunctionOnSet(f, s) \in Nat}
<1>1. \A s \in SUBSET S : IsFiniteSet(s) /\ Cardinality(s) \in Nat
  BY FS_Subset, FS_CardinalityType
<1>2. \A s \in SUBSET S : s # {} => Pick(s) \in s /\ Cardinality(s \ {Pick(s)}) = Cardinality(s) - 1
  BY <1>1, PickIn, FS_RemoveElement
<1>3. 0 \in Good
  BY <1>1, FS_EmptySet, SumEmpty
<1>4. ASSUME NEW n \in Nat, n \in Good PROVE n + 1 \in Good
  <2> SUFFICES ASSUME NEW s \in SUBSET S, Cardinality(s) = n + 1
               PROVE  SumFunctionOnSet(f, s) \in Nat
    OBVIOUS
  <2>1. s # {} /\ Pick(s) \in s /\ Cardinality(s \ {Pick(s)}) = n
    BY <1>1, <1>2, FS_EmptySet
  <2>2. SumFunctionOnSet(f, s \ {Pick(s)}) \in Nat
    BY <1>4, <2>1
  <2> QED BY <1>1, <2>1, <2>2, SumEquation
<1>5. Cardinality(S) \in Good
  <2> HIDE DEF Good
  <2> QED BY <1>1, <1>3, <1>4, NaturalInduction
<1> QED BY <1>5

(***************************************************************************)
(* The negative of a sum is the sum of the negatives.                      *)
(***************************************************************************)
LEMMA SumNegated ==
  ASSUME NEW f, NEW h, NEW S, IsFiniteSet(S),
         \A x \in S : f[x] \in Int /\ h[x] = -f[x]
  PROVE  SumFunctionOnSet(h, S) = -SumFunctionOnSet(f, S)
<1> DEFINE Good == {n \in Nat : \A s \in SUBSET S : Cardinality(s) = n =>
                                  SumFunctionOnSet(h, s) = -SumFunctionOnSet(f, s)}
<1>1. \A s \in SUBSET S : IsFiniteSet(s) /\ Cardinality(s) \in Nat /\ SumFunctionOnSet(f, s) \in Int
  BY FS_Subset, FS_CardinalityType, SumType
<1>2. \A s \in SUBSET S : s # {} => Pick(s) \in s /\ Cardinality(s \ {Pick(s)}) = Cardinality(s) - 1
  BY <1>1, PickIn, FS_RemoveElement
<1>3. 0 \in Good
  BY <1>1, FS_EmptySet, SumEmpty
<1>4. ASSUME NEW n \in Nat, n \in Good PROVE n + 1 \in Good
  <2> SUFFICES ASSUME NEW s \in SUBSET S, Cardinality(s) = n + 1
               PROVE  SumFunctionOnSet(h, s) = -SumFunctionOnSet(f, s)
    OBVIOUS
  <2>1. s # {} /\ Pick(s) \in s /\ Cardinality(s \ {Pick(s)}) = n
    BY <1>1, <1>2, FS_EmptySet
  <2>2. SumFunctionOnSet(h, s \ {Pick(s)}) = -SumFunctionOnSet(f, s \ {Pick(s)})
    BY <1>4, <2>1
  <2>3. /\ SumFunctionOnSet(f, s) = f[Pick(s)] + SumFunctionOnSet(f, s \ {Pick(s)})
        /\ SumFunctionOnSet(h, s) = h[Pick(s)] + SumFunctionOnSet(h, s \ {Pick(s)})
    BY <1>1, <2>1, SumEquation
  <2>4. SumFunctionOnSet(f, s \ {Pick(s)}) \in Int /\ f[Pick(s)] \in Int /\ h[Pick(s)] = -f[Pick(s)]
    BY <1>1, <2>1
  <2> HIDE DEF Good
  <2> QED BY <2>2, <2>3, <2>4
<1>5. Cardinality(S) \in Good
  <2> HIDE DEF Good
  <2> QED BY <1>1, <1>3, <1>4, NaturalInduction
<1> QED BY <1>5

(***************************************************************************)
(* A common factor can be taken out of a sum: fills at one price cost the  *)
(* shares they bring times that price.                                     *)
(***************************************************************************)
LEMMA SumTimes ==
  ASSUME NEW S, IsFiniteSet(S), NEW f, NEW g, NEW c \in Int,
         \A x \in S : f[x] \in Int /\ g[x] = f[x] * c
  PROVE  SumFunctionOnSet(g, S) = SumFunctionOnSet(f, S) * c
<1> DEFINE F(s) == SumFunctionOnSet(f, s)
           G(s) == SumFunctionOnSet(g, s)
           P == {s \in SUBSET S : G(s) = F(s) * c}
<1>0. \A x \in S : f[x] \in Int /\ g[x] \in Int
  OBVIOUS
<1>1. \A s \in SUBSET S : F(s) \in Int
  BY <1>0, FS_Subset, SumType
<1>2. {} \in P
  BY SumEmpty
<1>3. ASSUME NEW s \in SUBSET S, NEW x \in S \ s, s \in P
      PROVE  s \cup {x} \in P
  <2>1. IsFiniteSet(s \cup {x}) /\ (s \cup {x}) \ {x} = s
    BY FS_Subset
  <2>2. F(s \cup {x}) = f[x] + F(s)
    BY <1>0, <2>1, SumTakingAny
  <2>3. G(s \cup {x}) = g[x] + G(s)
    BY <1>0, <2>1, SumTakingAny
  <2>4. F(s) \in Int /\ G(s) = F(s) * c
    BY <1>1, <1>3
  <2> HIDE DEF F, G
  <2>5. \A a, b \in Int : (a + b) * c = a * c + b * c
    BY SMTT(20)
  <2>6. f[x] \in Int /\ g[x] = f[x] * c
    OBVIOUS
  <2>7. G(s \cup {x}) = F(s \cup {x}) * c
    BY <2>2, <2>3, <2>4, <2>5, <2>6
  <2> QED
    BY <2>7
<1>4. S \in P
  <2> HIDE DEF P
  <2> QED
    BY <1>2, <1>3, FiniteInduction
<1> QED
  BY <1>4

(***************************************************************************)
(* Dividing by a positive number, with the remainder.                      *)
(***************************************************************************)
LEMMA Division ==
  \A n \in Int, P \in Nat \ {0} : n % P \in 0..(P - 1) /\ n = P * (n \div P) + (n % P)
BY SMTT(20)

\* g folds F over the subsets of S from base on, in the order that C takes elements
\* out, and stays in A.
RecursiveOver(g, S, A, base, C, F) ==
  /\ DOMAIN g = SUBSET S /\ g = [s \in SUBSET S |-> g[s]]
  /\ \A s \in SUBSET S : g[s] \in A
  /\ \A s \in SUBSET S : g[s] = IF s = {} THEN base ELSE F[C[s]][g[s \ {C[s]}]]

(***************************************************************************)
(* Recursion over the subsets of a finite set, for any step that stays in  *)
(* A: the element that C takes out, then the rest.  It is what makes the   *)
(* library's folds denote something whatever they fold.                    *)
(***************************************************************************)
LEMMA RecursionOverSets ==
  ASSUME NEW S, IsFiniteSet(S), NEW A, NEW base \in A,
         NEW C, \A s \in SUBSET S : s # {} => C[s] \in s,
         NEW F, \A x \in S : \A a \in A : F[x][a] \in A
  PROVE  \E g : RecursiveOver(g, S, A, base, C, F)
<1> DEFINE Step(g, s) == IF s = {} THEN base ELSE F[C[s]][g[s \ {C[s]}]]
           Upto(n) == {s \in SUBSET S : Cardinality(s) <= n}
           Reached == {n \in Nat : \E g : \A s \in Upto(n) : g[s] = Step(g, s) /\ g[s] \in A}
<1>1. \A s \in SUBSET S : IsFiniteSet(s) /\ Cardinality(s) \in Nat /\ Cardinality(s) <= Cardinality(S)
  BY FS_Subset, FS_CardinalityType
<1>2. \A s \in SUBSET S : s # {} => C[s] \in s /\ Cardinality(s \ {C[s]}) = Cardinality(s) - 1
  BY <1>1, FS_RemoveElement
<1>3. 0 \in Reached
  <2> DEFINE g == [s \in SUBSET S |-> base]
  <2>1. \A s \in Upto(0) : s = {}
    BY <1>1, FS_EmptySet
  <2>2. \A s \in Upto(0) : g[s] = Step(g, s) /\ g[s] \in A
    BY <2>1
  <2> QED BY <2>2
<1>4. ASSUME NEW n \in Nat, n \in Reached
      PROVE  n + 1 \in Reached
  <2>1. PICK g : \A s \in Upto(n) : g[s] = Step(g, s) /\ g[s] \in A
    BY <1>4
  <2> DEFINE h == [s \in SUBSET S |-> Step(g, s)]
  <2>2. ASSUME NEW s \in Upto(n + 1) PROVE h[s] = Step(h, s) /\ h[s] \in A
    <3>1. CASE s = {}
      BY <3>1
    <3>2. CASE s # {}
      <4>1. s \ {C[s]} \in Upto(n)
        BY <1>1, <1>2, <3>2
      <4>2. h[s \ {C[s]}] = g[s \ {C[s]}] /\ g[s \ {C[s]}] \in A
        BY <2>1, <4>1
      <4>3. C[s] \in S
        BY <3>2
      <4> QED BY <3>2, <4>2, <4>3
    <3> QED BY <3>1, <3>2
  <2>3. \E k : \A s \in Upto(n + 1) : k[s] = Step(k, s) /\ k[s] \in A
    <3> HIDE DEF h, Upto, Step
    <3> QED BY <2>2
  <2> QED
    <3> HIDE DEF h, Upto, Step
    <3> QED BY <2>3
<1>5. Cardinality(S) \in Nat /\ Cardinality(S) \in Reached
  <2> HIDE DEF Reached
  <2> QED BY <1>1, <1>3, <1>4, NaturalInduction
<1>6. PICK g : \A s \in Upto(Cardinality(S)) : g[s] = Step(g, s) /\ g[s] \in A
  BY <1>5
<1>7. Upto(Cardinality(S)) = SUBSET S
  BY <1>1
<1> DEFINE fold == [s \in SUBSET S |-> g[s]]
<1>8. \A s \in SUBSET S : fold[s] = Step(fold, s) /\ fold[s] \in A
  BY <1>6, <1>7
<1>9. DOMAIN fold = SUBSET S /\ fold = [s \in SUBSET S |-> fold[s]]
  OBVIOUS
<1> QED
  <2> HIDE DEF fold
  <2>1. RecursiveOver(fold, S, A, base, C, F)
    BY <1>8, <1>9 DEF RecursiveOver
  <2> QED BY <2>1
=============================================================================
