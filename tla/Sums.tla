-------------------------------- MODULE Sums --------------------------------
(***************************************************************************)
(* Facts about SumFunctionOnSet, the sum of a function's values over a     *)
(* finite set.  The induction they need is by descent: a set of subsets    *)
(* none of which is a smallest one is empty.                               *)
(***************************************************************************)
EXTENDS FiniteSetsExt, FiniteSetTheorems, TLAPS

(* The element a fold takes first, and the equation it adds up by.         *)
Pick(s) == CHOOSE x \in s : TRUE
Rest(s) == s \ {Pick(s)}
Added(f, sum, s) == IF s = {} THEN 0 ELSE f[Pick(s)] + sum[Rest(s)]
AddsUp(f, S, sum) ==
    /\ SumFunctionOnSet(f, S) = sum[S]
    /\ \A s \in SUBSET S : sum[s] = Added(f, sum, s)

LEMMA RestIsSmaller ==
    ASSUME NEW S, IsFiniteSet(S), NEW s \in SUBSET S
    PROVE  /\ Cardinality(s) \in Nat
           /\ s # {} => /\ Pick(s) \in s /\ Rest(s) \in SUBSET S
                        /\ Cardinality(Rest(s)) \in Nat
                        /\ Cardinality(Rest(s)) = Cardinality(s) - 1
  <1>1. IsFiniteSet(s) /\ Cardinality(s) \in Nat
    BY FS_Subset, FS_CardinalityType
  <1>2. s # {} => Pick(s) \in s
    BY DEF Pick
  <1>3. s # {} => IsFiniteSet(Rest(s)) /\ Cardinality(Rest(s)) = Cardinality(s) - 1
    BY <1>1, <1>2, FS_RemoveElement DEF Rest
  <1>4. s # {} => Cardinality(Rest(s)) \in Nat
    BY <1>3, FS_CardinalityType
  <1> QED
    BY <1>1, <1>2, <1>3, <1>4 DEF Rest

(* Every non-empty set of natural numbers has a least element.             *)
LEMMA LeastNat ==
    ASSUME NEW T, T \subseteq Nat, T # {}
    PROVE  \E n \in T : \A m \in T : n <= m
  <1>1. PICK n \in T : \A m \in T : ~(<<m, n>> \in OpToRel(<, Nat))
    BY NatLessThanWellFounded, WFMin
  <1>2. \A m \in T : ~(m < n)
    BY <1>1 DEF OpToRel
  <1> QED
    BY <1>2

(* Taking elements away one by one, every set ends up empty.               *)
LEMMA Descent ==
    ASSUME NEW S, IsFiniteSet(S), NEW B \in SUBSET (SUBSET S),
           {} \notin B, \A s \in B : Rest(s) \in B
    PROVE  B = {}
  <1> SUFFICES ASSUME B # {} PROVE FALSE
    OBVIOUS
  <1> DEFINE T == {Cardinality(s) : s \in B}
  <1>1. T \subseteq Nat /\ T # {}
    BY RestIsSmaller
  <1>2. PICK n \in T : \A m \in T : n <= m
    <2> HIDE DEF T
    <2> QED BY <1>1, LeastNat
  <1>3. PICK s \in B : n = Cardinality(s)
    BY <1>2
  <1>4. Cardinality(Rest(s)) \in T
    BY <1>3
  <1>5. Cardinality(s) \in Nat /\ Cardinality(Rest(s)) = Cardinality(s) - 1
    BY <1>3, RestIsSmaller
  <1>6. Cardinality(s) <= Cardinality(Rest(s))
    BY <1>2, <1>3, <1>4
  <1> QED
    BY <1>5, <1>6

(* There is a function that adds up every subset of a finite set: one for  *)
(* the subsets of n + 1 elements comes from one for those of n.            *)
LEMMA SumExists ==
    ASSUME NEW f, NEW S, IsFiniteSet(S)
    PROVE  \E sum : sum = [s \in SUBSET S |-> Added(f, sum, s)]
  <1> DEFINE UpTo(sum, n) == \A s \in SUBSET S : Cardinality(s) <= n => sum[s] = Added(f, sum, s)
  <1> DEFINE Missing == {n \in Nat : ~ \E sum : UpTo(sum, n)}
  <1>1. ASSUME Missing # {} PROVE FALSE
    <2>1. PICK n \in Missing : \A m \in Missing : n <= m
      <3> HIDE DEF Missing
      <3>1. Missing \subseteq Nat
        BY DEF Missing
      <3> QED BY <1>1, <3>1, LeastNat
    <2>2. n \in Nat /\ ~ \E sum : UpTo(sum, n)
      OBVIOUS
    <2>3. CASE n = 0
      <3> DEFINE zero == [s \in SUBSET S |-> 0]
      <3>1. ASSUME NEW s \in SUBSET S, Cardinality(s) <= 0 PROVE zero[s] = Added(f, zero, s)
        <4>1. IsFiniteSet(s) /\ Cardinality(s) = 0
          BY <3>1, RestIsSmaller, FS_Subset
        <4>2. s = {}
          BY <4>1, FS_EmptySet
        <4> QED
          BY <4>2 DEF Added
      <3>2. UpTo(zero, 0)
        <4> HIDE DEF zero
        <4> QED BY <3>1
      <3> QED
        <4> HIDE DEF UpTo, zero
        <4> QED BY <2>2, <2>3, <3>2
    <2>4. CASE n # 0
      <3>1. n - 1 \in Nat /\ n - 1 \notin Missing
        BY <2>1, <2>2, <2>4
      <3>2. PICK sum : UpTo(sum, n - 1)
        BY <3>1
      <3> DEFINE next == [s \in SUBSET S |-> Added(f, sum, s)]
      <3>3. ASSUME NEW s \in SUBSET S, Cardinality(s) <= n PROVE next[s] = Added(f, next, s)
        <4>1. CASE s = {}
          BY <4>1 DEF Added
        <4>2. CASE s # {}
          <5>1. Rest(s) \in SUBSET S /\ Cardinality(Rest(s)) <= n - 1
            BY <2>2, <3>3, <4>2, RestIsSmaller
          <5>2. next[Rest(s)] = sum[Rest(s)]
            BY <3>2, <5>1
          <5> QED
            BY <4>2, <5>2 DEF Added
        <4> QED
          BY <4>1, <4>2
      <3>4. UpTo(next, n)
        <4> HIDE DEF next
        <4> QED BY <3>3
      <3> QED
        <4> HIDE DEF UpTo, next
        <4> QED BY <2>2, <3>4
    <2> QED
      BY <2>3, <2>4
  <1>2. Cardinality(S) \in Nat
    BY FS_CardinalityType
  <1>3. PICK sum : UpTo(sum, Cardinality(S))
    BY <1>1, <1>2
  <1>4. \A s \in SUBSET S : sum[s] = Added(f, sum, s)
    <2>1. \A s \in SUBSET S : Cardinality(s) <= Cardinality(S)
      BY FS_Subset
    <2> QED
      BY <1>3, <2>1
  <1> DEFINE total == [s \in SUBSET S |-> sum[s]]
  <1>5. ASSUME NEW s \in SUBSET S PROVE total[s] = Added(f, total, s)
    <2>1. total[s] = sum[s] /\ (s # {} => total[Rest(s)] = sum[Rest(s)])
      BY RestIsSmaller
    <2> QED
      BY <1>4, <2>1 DEF Added
  <1>6. total = [s \in SUBSET S |-> Added(f, total, s)]
    <2>1. total = [s \in SUBSET S |-> total[s]]
      OBVIOUS
    <2> HIDE DEF total
    <2> QED
      BY <1>5, <2>1
  <1> QED
    <2> HIDE DEF total
    <2> QED BY <1>6

(* SumFunctionOnSet is such a function's value on the whole set.           *)
LEMMA SumUnfolds ==
    ASSUME NEW f, NEW S, IsFiniteSet(S)
    PROVE  \E sum : AddsUp(f, S, sum)
  <1> DEFINE total == CHOOSE sum : sum = [s \in SUBSET S |-> Added(f, sum, s)]
  <1>1. SumFunctionOnSet(f, S) = total[S]
    BY DEF SumFunctionOnSet, FoldFunctionOnSet, MapThenFoldSet, Added, Pick, Rest
  <1>2. total = [s \in SUBSET S |-> Added(f, total, s)]
    BY SumExists
  <1>3. \A s \in SUBSET S : total[s] = Added(f, total, s)
    <2> HIDE DEF total
    <2> QED BY <1>2
  <1> QED
    <2> HIDE DEF total
    <2> QED BY <1>1, <1>3 DEF AddsUp

(* What adds up to an integer adds up to an integer, and nothing to zero.  *)
LEMMA SumOfNaturals ==
    ASSUME NEW S, IsFiniteSet(S), NEW f \in [S -> Nat]
    PROVE  /\ SumFunctionOnSet(f, S) \in Nat
           /\ (\A x \in S : f[x] = 0) => SumFunctionOnSet(f, S) = 0
  <1>1. PICK sum : AddsUp(f, S, sum)
    BY SumUnfolds
  <1> DEFINE B == {s \in SUBSET S : ~(sum[s] \in Nat /\ ((\A x \in S : f[x] = 0) => sum[s] = 0))}
  <1>2. {} \notin B
    <2>1. sum[{}] = Added(f, sum, {})
      BY <1>1 DEF AddsUp
    <2>2. sum[{}] = 0
      BY <2>1 DEF Added, AddsUp
    <2> QED
      BY <2>2
  <1>3. ASSUME NEW s \in B PROVE Rest(s) \in B
    <2>1. s \in SUBSET S /\ s # {}
      BY <1>2
    <2>2. Pick(s) \in S /\ Rest(s) \in SUBSET S
      BY <2>1, RestIsSmaller
    <2>3. sum[s] = f[Pick(s)] + sum[Rest(s)]
      BY <1>1, <2>1 DEF Added, AddsUp
    <2> QED
      BY <2>1, <2>2, <2>3
  <1>4. B = {}
    <2>1. B \in SUBSET (SUBSET S)
      OBVIOUS
    <2> HIDE DEF B
    <2> QED BY <1>2, <1>3, <2>1, Descent
  <1> QED
    BY <1>1, <1>4 DEF AddsUp

(* A sum changes by as much as one of its terms does.                      *)
LEMMA SumChanges ==
    ASSUME NEW S, IsFiniteSet(S), NEW f \in [S -> Nat], NEW g \in [S -> Nat],
           NEW a \in S, \A x \in S \ {a} : g[x] = f[x]
    PROVE  SumFunctionOnSet(g, S) = SumFunctionOnSet(f, S) - f[a] + g[a]
  <1>1. PICK fsum : AddsUp(f, S, fsum)
    BY SumUnfolds
  <1>2. PICK gsum : AddsUp(g, S, gsum)
    BY SumUnfolds
  <1> DEFINE Agree(s) ==
        /\ fsum[s] \in Int /\ gsum[s] \in Int
        /\ gsum[s] = fsum[s] + IF a \in s THEN g[a] - f[a] ELSE 0
  <1> DEFINE B == {s \in SUBSET S : ~Agree(s)}
  <1>3. {} \notin B
    BY <1>1, <1>2 DEF Added, AddsUp
  <1>4. ASSUME NEW s \in B PROVE Rest(s) \in B
    <2>1. s \in SUBSET S /\ s # {}
      BY <1>3
    <2>2. Pick(s) \in s /\ Rest(s) \in SUBSET S
      BY <2>1, RestIsSmaller
    <2>3. fsum[s] = f[Pick(s)] + fsum[Rest(s)] /\ gsum[s] = g[Pick(s)] + gsum[Rest(s)]
      BY <1>1, <1>2, <2>1 DEF Added, AddsUp
    <2>4. ASSUME Agree(Rest(s)) PROVE Agree(s)
      <3>1. f[Pick(s)] \in Nat /\ g[Pick(s)] \in Nat /\ f[a] \in Nat /\ g[a] \in Nat
        BY <2>1, <2>2
      <3>2. CASE Pick(s) = a
        BY <2>2, <2>3, <2>4, <3>1, <3>2 DEF Rest
      <3>3. CASE Pick(s) # a
        <4>1. g[Pick(s)] = f[Pick(s)]
          BY <2>1, <2>2, <3>3
        <4>2. a \in Rest(s) <=> a \in s
          BY <3>3 DEF Rest
        <4> QED
          BY <2>3, <2>4, <3>1, <4>1, <4>2
      <3> QED
        BY <3>2, <3>3
    <2> QED
      BY <2>2, <2>4
  <1>5. B = {}
    <2>1. B \in SUBSET (SUBSET S)
      OBVIOUS
    <2> HIDE DEF B
    <2> QED BY <1>3, <1>4, <2>1, Descent
  <1>6. Agree(S)
    BY <1>5
  <1> QED
    BY <1>1, <1>2, <1>6 DEF AddsUp

(* No term exceeds the sum.                                                *)
LEMMA SumAtLeast ==
    ASSUME NEW S, IsFiniteSet(S), NEW f \in [S -> Nat], NEW a \in S
    PROVE  f[a] <= SumFunctionOnSet(f, S)
  <1> DEFINE g == [f EXCEPT ![a] = 0]
  <1>1. g \in [S -> Nat] /\ g[a] = 0 /\ \A x \in S \ {a} : g[x] = f[x]
    OBVIOUS
  <1>2. SumFunctionOnSet(g, S) = SumFunctionOnSet(f, S) - f[a] + g[a]
    <2> HIDE DEF g
    <2> QED BY <1>1, SumChanges
  <1>3. SumFunctionOnSet(g, S) \in Nat /\ SumFunctionOnSet(f, S) \in Nat
    <2> HIDE DEF g
    <2> QED BY <1>1, SumOfNaturals
  <1> QED
    BY <1>1, <1>2, <1>3
=============================================================================
