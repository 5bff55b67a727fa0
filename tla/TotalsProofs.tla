---------------------------- MODULE TotalsProofs ----------------------------
(***************************************************************************)
(* What totals compute.  The total of a sequence is defined for every      *)
(* sequence of integers, moves by the difference when one element changes, *)
(* and by the element when one is appended; the sum over a finite set that *)
(* MapThenSumSet takes likewise.                                           *)
(***************************************************************************)
EXTENDS Totals, FiniteSetsExt, TLAPS, WellFoundedInduction, FiniteSetTheorems

(* Induction over the naturals, for a set instead of a predicate: to show    *)
(* P(n) for every n, take S = {n \in Nat : P(n)}.                           *)
LEMMA LessThanWellFounded == IsWellFoundedOn(OpToRel(<, Nat), Nat)
BY NatLessThanWellFounded

LEMMA SetInduction ==
  ASSUME NEW S, 0 \in S, \A n \in Nat : n \in S => n + 1 \in S
  PROVE  Nat \subseteq S
<1> DEFINE T == Nat \ S
<1> SUFFICES ASSUME T # {} PROVE FALSE
  OBVIOUS
<1>1. PICK m \in T : \A y \in T : ~(<<y, m>> \in OpToRel(<, Nat))
  BY LessThanWellFounded, WFMin, T \subseteq Nat
<1>2. m # 0 /\ m - 1 \in Nat
  OBVIOUS
<1>3. <<m - 1, m>> \in OpToRel(<, Nat)
  BY <1>2 DEF OpToRel
<1>4. m - 1 \in S
  BY <1>1, <1>2, <1>3
<1>5. (m - 1) + 1 = m
  BY <1>2
<1> QED
  BY <1>1, <1>2, <1>4, <1>5

(* The recursion that defines the partial totals has a solution.            *)
LEMMA PartialTotalsRecursion ==
  ASSUME NEW s, Len(s) \in Nat
  PROVE  PartialTotals(s) =
           [i \in 0..Len(s) |-> IF i = 0 THEN 0 ELSE PartialTotals(s)[i - 1] + s[i]]
<1> DEFINE IsSum(f, n) ==
             f = [i \in 0..n |-> IF i = 0 THEN 0 ELSE f[i - 1] + s[i]]
           Good == {n \in Nat : \E f : IsSum(f, n)}
<1>1. 0 \in Good
  <2>1. IsSum([i \in 0..0 |-> 0], 0)
    OBVIOUS
  <2> QED
    BY <2>1
<1>2. ASSUME NEW n \in Nat, n \in Good
      PROVE  n + 1 \in Good
  <2>1. PICK f : IsSum(f, n)
    BY <1>2
  <2> DEFINE g == [i \in 0..(n + 1) |-> IF i = n + 1 THEN f[n] + s[n + 1] ELSE f[i]]
  <2>2. \A i \in 0..(n + 1) : g[i] = IF i = 0 THEN 0 ELSE g[i - 1] + s[i]
    <3> TAKE i \in 0..(n + 1)
    <3>1. CASE i = n + 1
      BY <3>1
    <3>2. CASE i \in 0..n
      <4>1. f[i] = IF i = 0 THEN 0 ELSE f[i - 1] + s[i]
        BY <2>1, <3>2
      <4> QED
        BY <4>1, <3>2
    <3> QED
      BY <3>1, <3>2
  <2>3. g = [i \in 0..(n + 1) |-> g[i]]
    OBVIOUS
  <2>4. IsSum(g, n + 1)
    BY <2>2, <2>3
  <2>5. \E h : IsSum(h, n + 1)
    <3> HIDE DEF IsSum, g
    <3> QED
      BY <2>4
  <2> QED
    BY <2>5
<1>3. Len(s) \in Good
  <2> HIDE DEF Good
  <2> QED
    BY <1>1, <1>2, SetInduction
<1>4. \E f : IsSum(f, Len(s))
  BY <1>3
<1>5. IsSum(PartialTotals(s), Len(s))
  BY <1>4 DEF PartialTotals
<1> QED
  BY <1>5

LEMMA PartialTotalsSteps ==
  ASSUME NEW s, Len(s) \in Nat
  PROVE  /\ PartialTotals(s)[0] = 0
         /\ \A i \in 1..Len(s) : PartialTotals(s)[i] = PartialTotals(s)[i - 1] + s[i]
<1>1. PICK f : /\ f = PartialTotals(s)
               /\ f = [i \in 0..Len(s) |-> IF i = 0 THEN 0 ELSE f[i - 1] + s[i]]
  BY PartialTotalsRecursion
<1>2. f[0] = 0
  BY <1>1
<1>3. ASSUME NEW i \in 1..Len(s)
      PROVE  f[i] = f[i - 1] + s[i]
  <2>1. i \in 0..Len(s) /\ i # 0
    OBVIOUS
  <2> QED
    BY <1>1, <2>1
<1> QED
  BY <1>1, <1>2, <1>3

LEMMA PartialTotalsNat ==
  ASSUME NEW s \in Seq(Nat)
  PROVE  \A i \in 0..Len(s) : PartialTotals(s)[i] \in Nat
<1> DEFINE S == {n \in Nat : n <= Len(s) => PartialTotals(s)[n] \in Nat}
<1>1. 0 \in S
  BY PartialTotalsSteps
<1>2. ASSUME NEW n \in Nat, n \in S
      PROVE  n + 1 \in S
  <2> SUFFICES ASSUME n + 1 <= Len(s) PROVE PartialTotals(s)[n + 1] \in Nat
    OBVIOUS
  <2>1. PartialTotals(s)[n + 1] = PartialTotals(s)[n] + s[n + 1]
    <3>1. n + 1 \in 1..Len(s) /\ (n + 1) - 1 = n
      OBVIOUS
    <3> QED
      BY <3>1, PartialTotalsSteps
  <2>2. s[n + 1] \in Nat
    OBVIOUS
  <2> QED
    BY <1>2, <2>1, <2>2
<1>3. Nat \subseteq S
  <2> HIDE DEF S
  <2> QED
    BY <1>1, <1>2, SetInduction
<1> QED
  BY <1>3

(* A total of naturals is a natural.                                        *)
LEMMA TotalNat ==
  ASSUME NEW s \in Seq(Nat)
  PROVE  Total(s) \in Nat
BY PartialTotalsNat DEF Total

(* Two sequences that agree up to n have the same partial totals up to n.   *)
LEMMA PartialTotalsAgree ==
  ASSUME NEW s \in Seq(Nat), NEW t \in Seq(Nat), NEW m \in Nat,
         m <= Len(s), m <= Len(t),
         \A i \in 1..m : t[i] = s[i]
  PROVE  \A i \in 0..m : PartialTotals(t)[i] = PartialTotals(s)[i]
<1> DEFINE S == {n \in Nat : n <= m => PartialTotals(t)[n] = PartialTotals(s)[n]}
<1>1. 0 \in S
  BY PartialTotalsSteps
<1>2. ASSUME NEW n \in Nat, n \in S
      PROVE  n + 1 \in S
  <2> SUFFICES ASSUME n + 1 <= m
               PROVE  PartialTotals(t)[n + 1] = PartialTotals(s)[n + 1]
    OBVIOUS
  <2>1. n + 1 \in 1..Len(s) /\ n + 1 \in 1..Len(t) /\ (n + 1) - 1 = n
    <3>1. Len(s) \in Nat /\ Len(t) \in Nat
      OBVIOUS
    <3> DEFINE a == Len(s)
               c == Len(t)
    <3> HIDE DEF a, c
    <3>2. n + 1 \in 1..a /\ n + 1 \in 1..c
      BY <3>1 DEF a, c
    <3> QED
      BY <3>2 DEF a, c
  <2>2. /\ PartialTotals(s)[n + 1] = PartialTotals(s)[n] + s[n + 1]
        /\ PartialTotals(t)[n + 1] = PartialTotals(t)[n] + t[n + 1]
    <3>1. Len(s) \in Nat /\ Len(t) \in Nat
      OBVIOUS
    <3>2. /\ \A i \in 1..Len(s) : PartialTotals(s)[i] = PartialTotals(s)[i - 1] + s[i]
          /\ \A i \in 1..Len(t) : PartialTotals(t)[i] = PartialTotals(t)[i - 1] + t[i]
      BY <3>1, PartialTotalsSteps
    <3> QED
      BY <2>1, <3>2
  <2> QED
    BY <1>2, <2>2
<1>3. Nat \subseteq S
  <2> HIDE DEF S
  <2> QED
    BY <1>1, <1>2, SetInduction
<1> QED
  BY <1>3

(* Appending an element adds it.                                            *)
LEMMA TotalAppend ==
  ASSUME NEW s \in Seq(Nat), NEW t \in Seq(Nat),
         Len(t) = Len(s) + 1,
         \A i \in 1..Len(s) : t[i] = s[i]
  PROVE  Total(t) = Total(s) + t[Len(t)]
<1>1. Len(t) \in 1..Len(t) /\ Len(t) - 1 = Len(s)
  OBVIOUS
<1>2. PartialTotals(t)[Len(t)] = PartialTotals(t)[Len(s)] + t[Len(t)]
  BY <1>1, PartialTotalsSteps
<1>3. PartialTotals(t)[Len(s)] = PartialTotals(s)[Len(s)]
  <2>1. /\ Len(s) \in Nat
        /\ Len(s) <= Len(s)
        /\ Len(s) <= Len(t)
        /\ Len(s) \in 0..Len(s)
    OBVIOUS
  <2>2. \A i \in 0..Len(s) : PartialTotals(t)[i] = PartialTotals(s)[i]
    BY <2>1, PartialTotalsAgree
  <2> QED
    BY <2>1, <2>2
<1> QED
  BY <1>2, <1>3 DEF Total

(* Replacing one element moves the total by the difference.                 *)
LEMMA TotalUpdate ==
  ASSUME NEW s \in Seq(Nat), NEW t \in Seq(Nat), NEW k \in 1..Len(s),
         Len(t) = Len(s),
         \A i \in 1..Len(s) : i # k => t[i] = s[i]
  PROVE  Total(t) = Total(s) - s[k] + t[k]
<1> DEFINE S == {n \in Nat : n >= k /\ n <= Len(s) =>
                   PartialTotals(t)[n] = PartialTotals(s)[n] - s[k] + t[k]}
<1>1. 0 \in S
  OBVIOUS
<1>2. ASSUME NEW n \in Nat, n \in S
      PROVE  n + 1 \in S
  <2> SUFFICES ASSUME n + 1 >= k, n + 1 <= Len(s)
               PROVE  PartialTotals(t)[n + 1] =
                        PartialTotals(s)[n + 1] - s[k] + t[k]
    OBVIOUS
  <2>1. n + 1 \in 1..Len(s) /\ n + 1 \in 1..Len(t) /\ (n + 1) - 1 = n
    OBVIOUS
  <2>2. /\ PartialTotals(s)[n + 1] = PartialTotals(s)[n] + s[n + 1]
        /\ PartialTotals(t)[n + 1] = PartialTotals(t)[n] + t[n + 1]
    BY <2>1, PartialTotalsSteps
  <2>3. /\ s[n + 1] \in Nat /\ t[n + 1] \in Nat /\ s[k] \in Nat /\ t[k] \in Nat
        /\ PartialTotals(s)[n] \in Nat
    <3>1. s[n + 1] \in Nat /\ t[n + 1] \in Nat
      BY <2>1
    <3>2. s[k] \in Nat /\ t[k] \in Nat
      OBVIOUS
    <3>3. n \in 0..Len(s)
      OBVIOUS
    <3>4. PartialTotals(s)[n] \in Nat
      BY <3>3, PartialTotalsNat
    <3> QED
      BY <3>1, <3>2, <3>4
  <2>4. CASE n + 1 = k
    <3>1. PartialTotals(t)[n] = PartialTotals(s)[n]
      <4>1. \A i \in 1..n : t[i] = s[i]
        BY <2>4, <2>1
      <4>2. n <= Len(s) /\ n <= Len(t) /\ n \in 0..n
        BY <2>1
      <4>3. \A i \in 0..n : PartialTotals(t)[i] = PartialTotals(s)[i]
        BY <4>1, <4>2, PartialTotalsAgree
      <4> QED
        BY <4>2, <4>3
    <3>2. /\ PartialTotals(t)[n + 1] = PartialTotals(s)[n] + t[k]
          /\ PartialTotals(s)[n + 1] = PartialTotals(s)[n] + s[k]
      BY <2>2, <2>4, <3>1
    <3> DEFINE p == PartialTotals(s)[n]
    <3>3. p + t[k] = (p + s[k]) - s[k] + t[k]
      <4> HIDE DEF p
      <4> QED
        BY <2>3 DEF p
    <3> QED
      BY <3>2, <3>3
  <2>5. CASE n >= k
    <3>1. t[n + 1] = s[n + 1]
      BY <2>1, <2>5
    <3>2. PartialTotals(t)[n] = PartialTotals(s)[n] - s[k] + t[k]
      BY <1>2, <2>1, <2>5
    <3> DEFINE p == PartialTotals(s)[n]
               x == s[n + 1]
               old == s[k]
               new == t[k]
    <3>3. /\ p \in Nat /\ x \in Nat /\ old \in Nat /\ new \in Nat
          /\ PartialTotals(s)[n + 1] = p + x
          /\ PartialTotals(t)[n + 1] = (p - old + new) + x
      BY <2>2, <2>3, <3>1, <3>2
    <3> HIDE DEF p, x, old, new
    <3>4. (p - old + new) + x = (p + x) - old + new
      BY <3>3
    <3> QED
      BY <3>3, <3>4 DEF old, new
  <2> QED
    BY <2>4, <2>5
<1>3. Nat \subseteq S
  <2> HIDE DEF S
  <2> QED
    BY <1>1, <1>2, SetInduction
<1>4. Len(s) \in S
  BY <1>3
<1> QED
  BY <1>4 DEF Total

-----------------------------------------------------------------------------
(* Sums over a finite set: MapThenSumSet takes the elements one by one, in  *)
(* the order the choice gives, and every function has such a run.           *)
AnyOf(s) == CHOOSE x \in s : TRUE

SumRun(f, it, S) ==
  it = [s \in SUBSET S |-> IF s = {} THEN 0 ELSE f[AnyOf(s)] + it[s \ {AnyOf(s)}]]

LEMMA AnyOfIsIn == \A s : s # {} => AnyOf(s) \in s
BY DEF AnyOf

(* Subsets, from the empty one up.                                          *)
LEMMA SubsetSizes ==
  ASSUME NEW S, IsFiniteSet(S), NEW s \in SUBSET S
  PROVE  /\ Cardinality(s) \in Nat
         /\ Cardinality(s) = 0 <=> s = {}
         /\ s # {} => /\ AnyOf(s) \in s /\ s \ {AnyOf(s)} \in SUBSET S
                      /\ Cardinality(s \ {AnyOf(s)}) = Cardinality(s) - 1
<1>1. IsFiniteSet(s)
  BY FS_Subset
<1> QED
  BY <1>1, AnyOfIsIn, FS_CardinalityType, FS_EmptySet, FS_RemoveElement

(* The recursion that defines a sum has a solution, which is the sum.      *)
LEMMA SumExists ==
  ASSUME NEW S, IsFiniteSet(S), NEW f
  PROVE  \E it : SumRun(f, it, S)
<1> DEFINE Up(it, n) ==
             /\ it = [s \in SUBSET S |-> it[s]]
             /\ \A s \in SUBSET S : Cardinality(s) <= n =>
                  it[s] = IF s = {} THEN 0 ELSE f[AnyOf(s)] + it[s \ {AnyOf(s)}]
           Good == {n \in Nat : \E it : Up(it, n)}
<1>1. 0 \in Good
  <2> DEFINE zero == [s \in SUBSET S |-> 0]
  <2>1. zero = [s \in SUBSET S |-> zero[s]]
    OBVIOUS
  <2>2. ASSUME NEW s \in SUBSET S, Cardinality(s) <= 0
        PROVE  s = {} /\ zero[s] = 0
    <3>1. Cardinality(s) \in Nat
      BY SubsetSizes
    <3>2. Cardinality(s) = 0
      BY <2>2, <3>1
    <3> QED
      BY <3>2, SubsetSizes
  <2> HIDE DEF zero
  <2>3. Up(zero, 0)
    BY <2>1, <2>2
  <2>4. \E it : Up(it, 0)
    <3> HIDE DEF Up
    <3> QED
      BY <2>3
  <2> QED
    BY <2>4
<1>2. ASSUME NEW n \in Nat, n \in Good
      PROVE  n + 1 \in Good
  <2>1. PICK it : Up(it, n)
    BY <1>2
  <2> DEFINE jt == [s \in SUBSET S |->
                      IF Cardinality(s) = n + 1 THEN f[AnyOf(s)] + it[s \ {AnyOf(s)}] ELSE it[s]]
  <2>2. ASSUME NEW s \in SUBSET S, Cardinality(s) <= n + 1
        PROVE  jt[s] = IF s = {} THEN 0 ELSE f[AnyOf(s)] + jt[s \ {AnyOf(s)}]
    <3>1. Cardinality(s) \in Nat
      BY SubsetSizes
    <3>2. CASE Cardinality(s) = n + 1
      <4>1. s # {} /\ s \ {AnyOf(s)} \in SUBSET S /\ Cardinality(s \ {AnyOf(s)}) = n
        BY <3>2, SubsetSizes
      <4>2. jt[s] = f[AnyOf(s)] + it[s \ {AnyOf(s)}]
        BY <3>2
      <4>3. jt[s \ {AnyOf(s)}] = it[s \ {AnyOf(s)}]
        BY <4>1
      <4> QED
        BY <4>1, <4>2, <4>3
    <3>3. CASE Cardinality(s) # n + 1
      <4>1. Cardinality(s) <= n
        BY <2>2, <3>1, <3>3
      <4>2. jt[s] = it[s] /\ it[s] = IF s = {} THEN 0 ELSE f[AnyOf(s)] + it[s \ {AnyOf(s)}]
        BY <2>1, <3>3, <4>1
      <4>3. CASE s # {}
        <5>1. s \ {AnyOf(s)} \in SUBSET S /\ Cardinality(s \ {AnyOf(s)}) = Cardinality(s) - 1
          BY <4>3, SubsetSizes
        <5>2. Cardinality(s \ {AnyOf(s)}) # n + 1
          BY <3>1, <4>1, <5>1
        <5>3. jt[s \ {AnyOf(s)}] = it[s \ {AnyOf(s)}]
          BY <5>1, <5>2
        <5> QED
          BY <4>2, <5>3
      <4> QED
        BY <4>2, <4>3
    <3> QED
      BY <3>2, <3>3
  <2>3. jt = [s \in SUBSET S |-> jt[s]]
    OBVIOUS
  <2> HIDE DEF jt
  <2>4. Up(jt, n + 1)
    BY <2>2, <2>3
  <2> HIDE DEF Up
  <2>5. \E kt : Up(kt, n + 1)
    BY <2>4
  <2> QED
    BY <2>5
<1>3. Cardinality(S) \in Nat
  BY FS_CardinalityType
<1>4. PICK it : Up(it, Cardinality(S))
  <2> HIDE DEF Good
  <2>1. Cardinality(S) \in Good
    BY <1>1, <1>2, <1>3, SetInduction
  <2> QED
    BY <2>1 DEF Good
<1>5. \A s \in SUBSET S : Cardinality(s) <= Cardinality(S)
  BY FS_Subset
<1>6. SumRun(f, it, S)
  BY <1>4, <1>5 DEF SumRun
<1> QED
  BY <1>6

LEMMA SumIs ==
  ASSUME NEW S, IsFiniteSet(S), NEW f
  PROVE  \E it : SumRun(f, it, S) /\ SumOver(f, S) = it[S]
<1> DEFINE Is(it) == it = [s \in SUBSET S |->
             IF s = {} THEN 0 ELSE f[CHOOSE x \in s : TRUE] + it[s \ {CHOOSE x \in s : TRUE}]]
           run == CHOOSE it : Is(it)
<1>1. \A it : SumRun(f, it, S) <=> Is(it)
  BY DEF SumRun, AnyOf
<1>2. Is(run)
  <2> HIDE DEF Is
  <2> QED
    BY <1>1, SumExists
<1>3. SumOver(f, S) = run[S]
  BY DEF SumOver, MapThenSumSet, MapThenFoldSet
<1> HIDE DEF run, Is
<1> QED
  BY <1>1, <1>2, <1>3

(* What holds of all smaller subsets holds of all.                          *)
LEMMA SubsetInduction ==
  ASSUME NEW S, IsFiniteSet(S), NEW G,
         {} \in G,
         \A s \in SUBSET S : s # {} /\ s \ {AnyOf(s)} \in G => s \in G
  PROVE  SUBSET S \subseteq G
<1> DEFINE Good == {n \in Nat : \A s \in SUBSET S : Cardinality(s) = n => s \in G}
<1>1. 0 \in Good
  BY SubsetSizes
<1>2. ASSUME NEW n \in Nat, n \in Good
      PROVE  n + 1 \in Good
  <2> SUFFICES ASSUME NEW s \in SUBSET S, Cardinality(s) = n + 1 PROVE s \in G
    OBVIOUS
  <2>1. s # {} /\ s \ {AnyOf(s)} \in SUBSET S /\ Cardinality(s \ {AnyOf(s)}) = n
    BY SubsetSizes
  <2> QED
    BY <1>2, <2>1
<1>3. Nat \subseteq Good
  <2> HIDE DEF Good
  <2> QED
    BY <1>1, <1>2, SetInduction
<1> QED
  BY <1>3, SubsetSizes

(* A sum of naturals is a natural, and none of them is larger.             *)
LEMMA SumNat ==
  ASSUME NEW S, IsFiniteSet(S), NEW f, \A x \in S : f[x] \in Nat
  PROVE  SumOver(f, S) \in Nat /\ \A x \in S : f[x] <= SumOver(f, S)
<1>1. PICK it : SumRun(f, it, S) /\ SumOver(f, S) = it[S]
  BY SumIs
<1> DEFINE G == {s \in SUBSET S : it[s] \in Nat /\ \A x \in s : f[x] <= it[s]}
<1>2. {} \in G
  BY <1>1 DEF SumRun
<1>3. ASSUME NEW s \in SUBSET S, s # {}, s \ {AnyOf(s)} \in G
      PROVE  s \in G
  <2>1. it[s] = f[AnyOf(s)] + it[s \ {AnyOf(s)}] /\ AnyOf(s) \in S
    BY <1>1, <1>3, AnyOfIsIn DEF SumRun
  <2>2. /\ it[s \ {AnyOf(s)}] \in Nat /\ f[AnyOf(s)] \in Nat
        /\ \A x \in s \ {AnyOf(s)} : f[x] <= it[s \ {AnyOf(s)}]
    BY <1>3, <2>1
  <2>3. ASSUME NEW x \in s PROVE f[x] <= it[s]
    <3>1. f[x] \in Nat
      OBVIOUS
    <3>2. CASE x = AnyOf(s)
      BY <2>1, <2>2, <3>2
    <3>3. CASE x # AnyOf(s)
      <4>1. f[x] <= it[s \ {AnyOf(s)}]
        BY <2>2, <3>3
      <4> QED
        BY <2>1, <2>2, <3>1, <4>1
    <3> QED
      BY <3>2, <3>3
  <2>4. it[s] \in Nat
    BY <2>1, <2>2
  <2> QED
    BY <2>3, <2>4
<1>4. S \in G
  <2> HIDE DEF G
  <2> QED
    BY <1>2, <1>3, SubsetInduction
<1> QED
  BY <1>1, <1>4

(* Two functions that differ at one element have sums that differ by it.    *)
LEMMA SumChange ==
  ASSUME NEW S, IsFiniteSet(S), NEW f, NEW g, NEW a,
         \A x \in S : f[x] \in Int /\ g[x] \in Int,
         \A x \in S \ {a} : g[x] = f[x]
  PROVE  /\ SumOver(f, S) \in Int /\ SumOver(g, S) \in Int
         /\ SumOver(g, S) = IF a \in S THEN SumOver(f, S) + (g[a] - f[a]) ELSE SumOver(f, S)
<1>1. PICK it : SumRun(f, it, S) /\ SumOver(f, S) = it[S]
  BY SumIs
<1>2. PICK jt : SumRun(g, jt, S) /\ SumOver(g, S) = jt[S]
  BY SumIs
<1> DEFINE G == {s \in SUBSET S :
                   /\ it[s] \in Int /\ jt[s] \in Int
                   /\ jt[s] = IF a \in s THEN it[s] + (g[a] - f[a]) ELSE it[s]}
<1>3. {} \in G
  BY <1>1, <1>2 DEF SumRun
<1>4. ASSUME NEW s \in SUBSET S, s # {}, s \ {AnyOf(s)} \in G
      PROVE  s \in G
  <2> DEFINE x == AnyOf(s)
             r == s \ {x}
  <2>1. /\ it[s] = f[x] + it[r] /\ jt[s] = g[x] + jt[r] /\ x \in s
    BY <1>1, <1>2, <1>4, AnyOfIsIn DEF SumRun
  <2>2. /\ it[r] \in Int /\ jt[r] \in Int /\ f[x] \in Int /\ g[x] \in Int
        /\ jt[r] = IF a \in r THEN it[r] + (g[a] - f[a]) ELSE it[r]
    BY <1>4, <2>1
  <2> HIDE DEF x
  <2>3. CASE a = x
    <3>1. a \in s /\ a \notin r
      BY <2>1, <2>3
    <3>2. jt[s] = it[s] + (g[a] - f[a])
      BY <2>1, <2>2, <2>3, <3>1
    <3> QED
      BY <2>1, <2>2, <3>1, <3>2
  <2>4. CASE a # x
    <3>1. (a \in r <=> a \in s) /\ g[x] = f[x]
      BY <2>1, <2>4
    <3>2. CASE a \in s
      <4>1. g[a] \in Int /\ f[a] \in Int
        BY <3>2
      <4> QED
        BY <2>1, <2>2, <3>1, <3>2, <4>1
    <3>3. CASE a \notin s
      BY <2>1, <2>2, <3>1, <3>3
    <3> QED
      BY <3>2, <3>3
  <2> QED
    BY <2>3, <2>4
<1>5. S \in G
  <2> HIDE DEF G
  <2> QED
    BY <1>3, <1>4, SubsetInduction
<1> QED
  BY <1>1, <1>2, <1>5

(* Nothing adds up to nothing.                                              *)
LEMMA SumZero ==
  ASSUME NEW S, IsFiniteSet(S), NEW f, \A x \in S : f[x] = 0
  PROVE  SumOver(f, S) = 0
<1>1. PICK it : SumRun(f, it, S) /\ SumOver(f, S) = it[S]
  BY SumIs
<1> DEFINE G == {s \in SUBSET S : it[s] = 0}
<1>2. {} \in G
  BY <1>1 DEF SumRun
<1>3. ASSUME NEW s \in SUBSET S, s # {}, s \ {AnyOf(s)} \in G
      PROVE  s \in G
  <2>1. it[s] = f[AnyOf(s)] + it[s \ {AnyOf(s)}] /\ AnyOf(s) \in S
    BY <1>1, <1>3, AnyOfIsIn DEF SumRun
  <2> QED
    BY <1>3, <2>1
<1>4. S \in G
  <2> HIDE DEF G
  <2> QED
    BY <1>2, <1>3, SubsetInduction
<1> QED
  BY <1>1, <1>4

(* The recursion has one solution.                                          *)
LEMMA SameSum ==
  ASSUME NEW S, IsFiniteSet(S), NEW f, NEW it, NEW jt, SumRun(f, it, S), SumRun(f, jt, S)
  PROVE  it[S] = jt[S]
<1> DEFINE G == {s \in SUBSET S : it[s] = jt[s]}
<1>1. {} \in G
  BY DEF SumRun
<1>2. ASSUME NEW s \in SUBSET S, s # {}, s \ {AnyOf(s)} \in G
      PROVE  s \in G
  <2>1. /\ it[s] = f[AnyOf(s)] + it[s \ {AnyOf(s)}]
        /\ jt[s] = f[AnyOf(s)] + jt[s \ {AnyOf(s)}]
    BY <1>2 DEF SumRun
  <2> QED
    BY <1>2, <2>1
<1>3. S \in G
  <2> HIDE DEF G
  <2> QED
    BY <1>1, <1>2, SubsetInduction
<1> QED
  BY <1>3

(* A sum over a subset is the sum over the whole of what vanishes outside it. *)
LEMMA SumOfPart ==
  ASSUME NEW S, IsFiniteSet(S), NEW T \in SUBSET S, NEW f, \A x \in T : f[x] \in Int
  PROVE  SumOver(f, T) = SumOver([x \in S |-> IF x \in T THEN f[x] ELSE 0], S)
<1> DEFINE On(s) == [x \in S |-> IF x \in s THEN f[x] ELSE 0]
           G == {s \in SUBSET T : SumOver(On(s), T) = SumOver(On(s), S)}
<1>1. IsFiniteSet(T)
  BY FS_Subset
<1>2. \A s \in SUBSET T, x \in S : On(s)[x] \in Int
  OBVIOUS
<1>3. {} \in G
  <2>1. (\A x \in S : On({})[x] = 0) /\ (\A x \in T : On({})[x] = 0)
    OBVIOUS
  <2> HIDE DEF On
  <2>2. SumOver(On({}), S) = 0 /\ SumOver(On({}), T) = 0
    BY <2>1, <1>1, SumZero
  <2> QED
    BY <2>2
<1>4. ASSUME NEW s \in SUBSET T, s # {}, s \ {AnyOf(s)} \in G
      PROVE  s \in G
  <2> DEFINE a == AnyOf(s)
             r == s \ {a}
  <2>1. a \in T /\ a \in S /\ r \in SUBSET T
    BY <1>4, AnyOfIsIn
  <2>2. \A x \in S \ {a} : On(s)[x] = On(r)[x]
    OBVIOUS
  <2>6. PICK p, q : p = On(s) /\ q = On(r)
    OBVIOUS
  <2>7. /\ \A x \in S : p[x] \in Int /\ q[x] \in Int
        /\ \A x \in S \ {a} : p[x] = q[x]
    BY <2>1, <2>2, <2>6, <1>2
  <2> HIDE DEF On, a
  <2>3. SumOver(p, S) = SumOver(q, S) + (p[a] - q[a])
    BY <2>1, <2>7, SumChange
  <2>4. SumOver(p, T) = SumOver(q, T) + (p[a] - q[a])
    <3>1. /\ \A x \in T : q[x] \in Int /\ p[x] \in Int
          /\ \A x \in T \ {a} : p[x] = q[x]
      BY <2>7
    <3>2. SumOver(p, T) = IF a \in T THEN SumOver(q, T) + (p[a] - q[a]) ELSE SumOver(q, T)
      BY <3>1, <1>1, SumChange
    <3> QED
      BY <2>1, <3>2
  <2>5. SumOver(On(r), T) = SumOver(On(r), S)
    BY <1>4 DEF a
  <2> QED
    BY <2>3, <2>4, <2>5, <2>6
<1>5. T \in G
  <2> HIDE DEF G
  <2> QED
    BY <1>1, <1>3, <1>4, SubsetInduction
<1>6. SumOver(f, T) = SumOver(On(T), T)
  <2>1. \A x \in T : On(T)[x] = f[x]
    OBVIOUS
  <2>2. PICK a : a \notin T
    <3>1. {x \in T : x \notin x} \notin T
      OBVIOUS
    <3> QED
      BY <3>1
  <2> HIDE DEF On
  <2>3. /\ \A x \in T : f[x] \in Int /\ On(T)[x] \in Int
        /\ \A x \in T \ {a} : On(T)[x] = f[x]
    BY <2>1, <1>2
  <2> QED
    BY <2>2, <2>3, <1>1, SumChange
<1> QED
  BY <1>5, <1>6
=============================================================================
