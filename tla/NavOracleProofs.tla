-------------------------- MODULE NavOracleProofs --------------------------
(***************************************************************************)
(* For every basket, every answer of the sources and every parameter the   *)
(* owner may set: the price of a token is a natural number, the observers' *)
(* observations are in the order of their times, what consult answers is   *)
(* the average of the samples in its window, and no single source moves    *)
(* the price out of the divergence band of what the others say.            *)
(***************************************************************************)
EXTENDS NavOracle, TotalsProofs, FiniteSetTheorems

USE DEF oracleVars

Observation == [ts : Nat, cumulative : Nat]

-----------------------------------------------------------------------------
(* Numbers                                                                 *)

LEMMA DivNat ==
  ASSUME NEW a \in Nat, NEW c \in Nat \ {0}
  PROVE  a \div c \in Nat
OBVIOUS

LEMMA DivFloor ==
  ASSUME NEW a \in Nat, NEW c \in Nat \ {0}
  PROVE  a \div c \in Nat /\ (a \div c) * c <= a
OBVIOUS

LEMMA ElementNat ==
  ASSUME NEW w \in Seq(Nat), NEW i \in DOMAIN w
  PROVE  w[i] \in Nat
OBVIOUS

LEMMA FunctionSeq ==
  ASSUME NEW n \in Nat, NEW f \in [1..n -> Nat]
  PROVE  f \in Seq(Nat) /\ Len(f) = n /\ DOMAIN f = 1..n
OBVIOUS

LEMMA ProductNat ==
  ASSUME NEW a \in Nat, NEW b \in Nat
  PROVE  a * b \in Nat
OBVIOUS

(* A set of naturals that is not empty has a least element.                *)
LEMMA LeastOf ==
  ASSUME NEW S \in SUBSET Nat, S # {}
  PROVE  \E n \in S : \A m \in S : n <= m
<1>1. PICK n \in S : \A m \in S : ~(<<m, n>> \in OpToRel(<, Nat))
  BY LessThanWellFounded, WFMin
<1>2. ASSUME NEW m \in S PROVE n <= m
  <2>1. m \in Nat /\ n \in Nat
    OBVIOUS
  <2>2. ~(m < n)
    BY <1>1, <2>1 DEF OpToRel
  <2> QED
    BY <2>1, <2>2
<1> QED
  BY <1>2

(* A sequence of naturals that is not empty has a largest element.         *)
LEMMA LargestOf ==
  ASSUME NEW f, NEW n \in Nat, NEW S \in SUBSET (1..n), S # {}, \A i \in S : f[i] \in Nat
  PROVE  \E i \in S : \A j \in S : f[j] <= f[i]
<1> DEFINE Good == {m \in Nat : \A T \in SUBSET (S \cap (1..m)) :
                      T # {} => \E i \in T : \A j \in T : f[j] <= f[i]}
<1>1. 0 \in Good
  <2>1. 1..0 = {}
    OBVIOUS
  <2> QED
    BY <2>1
<1>2. ASSUME NEW m \in Nat, m \in Good
      PROVE  m + 1 \in Good
  <2> SUFFICES ASSUME NEW T \in SUBSET (S \cap (1..(m + 1))), T # {}
               PROVE  \E i \in T : \A j \in T : f[j] <= f[i]
    OBVIOUS
  <2> DEFINE U == T \ {m + 1}
  <2>1. U \in SUBSET (S \cap (1..m))
    OBVIOUS
  <2>2. CASE U = {}
    <3>1. T = {m + 1}
      BY <2>2
    <3>2. f[m + 1] \in Nat /\ f[m + 1] <= f[m + 1]
      BY <3>1
    <3> QED
      BY <3>1, <3>2
  <2>3. CASE U # {}
    <3>1. PICK i \in U : \A j \in U : f[j] <= f[i]
      BY <1>2, <2>1, <2>3
    <3>2. CASE m + 1 \in T /\ f[i] <= f[m + 1]
      <4>1. \A j \in T : f[j] \in Nat /\ f[j] <= f[m + 1]
        BY <3>1, <3>2
      <4> QED
        BY <3>2, <4>1
    <3>3. CASE m + 1 \notin T \/ ~(f[i] <= f[m + 1])
      <4>1. \A j \in T : f[j] <= f[i]
        BY <3>1, <3>3
      <4> QED
        BY <4>1
    <3> QED
      BY <3>2, <3>3
  <2> QED
    BY <2>2, <2>3
<1>3. n \in Good
  <2> HIDE DEF Good
  <2> QED
    BY <1>1, <1>2, SetInduction
<1>4. S \in SUBSET (S \cap (1..n))
  OBVIOUS
<1> QED
  BY <1>3, <1>4

-----------------------------------------------------------------------------
(* The weights                                                             *)

LEMMA CapIs ==
  ASSUME NEW ds \in Seq(Nat), setting \in Setting
  PROVE  /\ Cap(ds) \in Nat
         /\ Cap(ds) * BPS <= Total(ds) * setting.maxWeightBps
<1>1. Total(ds) \in Nat
  BY TotalNat
<1>2. Total(ds) * setting.maxWeightBps \in Nat
  BY <1>1, ProductNat DEF Setting
<1> DEFINE a == Total(ds) * setting.maxWeightBps
<1>3. Cap(ds) = a \div BPS
  BY DEF Cap
<1>4. a \in Nat /\ BPS \in Nat \ {0}
  BY <1>2, OracleAssumption
<1> HIDE DEF a
<1>5. a \div BPS \in Nat /\ (a \div BPS) * BPS <= a
  BY <1>4, DivFloor, Zenon
<1> QED
  BY <1>3, <1>5 DEF a

(* What one pass makes of each depth.                                      *)
LEMMA LoweredIs ==
  ASSUME NEW ds \in Seq(Nat), setting \in Setting
  PROVE  /\ Lowered(ds) \in Seq(Nat)
         /\ DOMAIN Lowered(ds) = DOMAIN ds
         /\ \A i \in DOMAIN ds : Lowered(ds)[i] = Smaller(ds[i], Cap(ds))
<1> DEFINE low == [i \in DOMAIN ds |-> Smaller(ds[i], Cap(ds))]
<1>1. Len(ds) \in Nat /\ DOMAIN ds = 1..Len(ds) /\ \A i \in DOMAIN ds : ds[i] \in Nat
  OBVIOUS
<1>2. \A i \in 1..Len(ds) : Smaller(ds[i], Cap(ds)) \in Nat
  BY <1>1, CapIs DEF Smaller
<1>3. low \in [1..Len(ds) -> Nat]
  BY <1>1, <1>2
<1>4. low \in Seq(Nat) /\ Len(low) = Len(ds)
  <2> HIDE DEF low
  <2> QED
    BY <1>1, <1>3, FunctionSeq
<1>5. Lowered(ds) = SubSeq(low, 1, Len(ds))
  BY DEF Lowered
<1>6. \A i \in DOMAIN ds : low[i] = Smaller(ds[i], Cap(ds))
  OBVIOUS
<1> HIDE DEF low
<1>7. SubSeq(low, 1, Len(low)) = low
  BY <1>4
<1>8. Lowered(ds) = low
  BY <1>4, <1>5, <1>7
<1>9. DOMAIN low = DOMAIN ds
  BY <1>1, <1>4
<1> QED
  BY <1>4, <1>6, <1>8, <1>9

LEMMA LoweredSound ==
  ASSUME NEW depths \in Seq(Nat), setting \in Setting
  PROVE  /\ Lowered(depths) \in Seq(Nat)
         /\ Len(Lowered(depths)) = Len(depths)
         /\ \A i \in 1..Len(depths) : Lowered(depths)[i] <= depths[i]
<1>1. /\ Lowered(depths) \in Seq(Nat) /\ DOMAIN Lowered(depths) = DOMAIN depths
      /\ \A i \in DOMAIN depths : Lowered(depths)[i] = Smaller(depths[i], Cap(depths))
  BY LoweredIs
<1>2. \A i \in 1..Len(depths) : i \in DOMAIN depths /\ depths[i] \in Nat
  OBVIOUS
<1>3. Cap(depths) \in Nat
  BY CapIs
<1>4. \A i \in 1..Len(depths) : Smaller(depths[i], Cap(depths)) <= depths[i]
  BY <1>2, <1>3 DEF Smaller
<1> QED
  BY <1>1, <1>2, <1>4

LEMMA PassesRecursion ==
  Passes = [k \in 0..MAX_PASSES |->
              IF k = 0 THEN [ds \in Seq(Nat) |-> ds]
              ELSE [ds \in Seq(Nat) |-> IF Balanced(ds) THEN ds ELSE Passes[k - 1][Lowered(ds)]]]
<1> DEFINE Step(f, k) == IF k = 0 THEN [ds \in Seq(Nat) |-> ds]
                         ELSE [ds \in Seq(Nat) |-> IF Balanced(ds) THEN ds ELSE f[k - 1][Lowered(ds)]]
           IsPasses(f, n) == f = [k \in 0..n |-> Step(f, k)]
           Good == {n \in Nat : \E f : IsPasses(f, n)}
<1>1. 0 \in Good
  <2> DEFINE g == [k \in 0..0 |-> [ds \in Seq(Nat) |-> ds]]
  <2>1. \A k \in 0..0 : g[k] = Step(g, k)
    OBVIOUS
  <2>2. g = [k \in 0..0 |-> g[k]]
    OBVIOUS
  <2>3. IsPasses(g, 0)
    <3> HIDE DEF g, Step
    <3> QED
      BY <2>1, <2>2
  <2>4. \E h : IsPasses(h, 0)
    <3> HIDE DEF IsPasses, g
    <3> QED
      BY <2>3
  <2> QED
    BY <2>4
<1>2. ASSUME NEW n \in Nat, n \in Good
      PROVE  n + 1 \in Good
  <2>1. PICK f : IsPasses(f, n)
    BY <1>2
  <2> DEFINE g == [k \in 0..(n + 1) |-> IF k = n + 1 THEN Step(f, n + 1) ELSE f[k]]
  <2>2. \A k \in 0..(n + 1) : g[k] = Step(g, k)
    <3> TAKE k \in 0..(n + 1)
    <3>1. CASE k = n + 1
      <4>1. g[k - 1] = f[n] /\ k # 0 /\ n + 1 # 0 /\ k - 1 = n /\ (n + 1) - 1 = n
        BY <3>1
      <4>2. g[k] = Step(f, n + 1)
        BY <3>1
      <4> HIDE DEF g
      <4> QED
        BY <4>1, <4>2
    <3>2. CASE k \in 0..n
      <4>1. f[k] = Step(f, k)
        <5> HIDE DEF Step
        <5> QED
          BY <2>1, <3>2
      <4>2. k # 0 => k - 1 \in 0..n
        BY <3>2
      <4>3. k # 0 => g[k - 1] = f[k - 1]
        BY <4>2
      <4>4. g[k] = f[k]
        BY <3>2
      <4> HIDE DEF g
      <4> QED
        BY <4>1, <4>3, <4>4
    <3> QED
      BY <3>1, <3>2
  <2>3. g = [k \in 0..(n + 1) |-> g[k]]
    OBVIOUS
  <2>4. IsPasses(g, n + 1)
    <3> HIDE DEF g, Step
    <3> QED
      BY <2>2, <2>3
  <2>5. \E h : IsPasses(h, n + 1)
    <3> HIDE DEF IsPasses, g
    <3> QED
      BY <2>4
  <2> QED
    BY <2>5
<1>3. MAX_PASSES \in Good
  <2> HIDE DEF Good
  <2> QED
    BY <1>1, <1>2, SetInduction, OracleAssumption
<1>4. \E f : IsPasses(f, MAX_PASSES)
  BY <1>3
<1>5. IsPasses(Passes, MAX_PASSES)
  BY <1>4 DEF Passes
<1> QED
  BY <1>5

(* What a number of passes makes of some depths.                           *)
Less(low, ds) ==
  /\ low \in Seq(Nat)
  /\ Len(low) = Len(ds)
  /\ \A i \in 1..Len(ds) : low[i] <= ds[i]

LEMMA LessReflexive == ASSUME NEW ds \in Seq(Nat) PROVE Less(ds, ds)
BY DEF Less

LEMMA LessTransitive ==
  ASSUME NEW a, NEW b, NEW c \in Seq(Nat), Less(a, b), Less(b, c)
  PROVE  Less(a, c)
<1>1. a \in Seq(Nat) /\ b \in Seq(Nat) /\ Len(a) = Len(b) /\ Len(b) = Len(c)
  BY DEF Less
<1>2. ASSUME NEW i \in 1..Len(c) PROVE a[i] <= c[i]
  <2>1. a[i] \in Nat /\ b[i] \in Nat /\ c[i] \in Nat
    BY <1>1
  <2>2. a[i] <= b[i] /\ b[i] <= c[i]
    BY <1>1 DEF Less
  <2> QED
    BY <2>1, <2>2
<1> QED
  BY <1>1, <1>2 DEF Less

LEMMA PassesStep ==
  ASSUME NEW k \in Nat, k + 1 <= MAX_PASSES, NEW ds \in Seq(Nat)
  PROVE  Passes[k + 1][ds] = IF Balanced(ds) THEN ds ELSE Passes[k][Lowered(ds)]
<1>1. k + 1 \in 0..MAX_PASSES /\ k + 1 # 0 /\ (k + 1) - 1 = k
  BY OracleAssumption
<1>2. Passes[k + 1] = [s \in Seq(Nat) |-> IF Balanced(s) THEN s ELSE Passes[k][Lowered(s)]]
  BY <1>1, PassesRecursion
<1> QED
  BY <1>2

LEMMA PassesLess ==
  ASSUME setting \in Setting
  PROVE  \A k \in 0..MAX_PASSES : \A ds \in Seq(Nat) : Less(Passes[k][ds], ds)
<1> DEFINE Good == {n \in Nat : n <= MAX_PASSES => \A ds \in Seq(Nat) : Less(Passes[n][ds], ds)}
<1>1. 0 \in Good
  <2>1. Passes[0] = [ds \in Seq(Nat) |-> ds]
    BY PassesRecursion, OracleAssumption
  <2> QED
    BY <2>1, LessReflexive
<1>2. ASSUME NEW n \in Nat, n \in Good
      PROVE  n + 1 \in Good
  <2> SUFFICES ASSUME n + 1 <= MAX_PASSES, NEW ds \in Seq(Nat)
               PROVE  Less(Passes[n + 1][ds], ds)
    OBVIOUS
  <2>1. n <= MAX_PASSES
    BY OracleAssumption
  <2>2. Passes[n + 1][ds] = IF Balanced(ds) THEN ds ELSE Passes[n][Lowered(ds)]
    BY PassesStep
  <2>3. Lowered(ds) \in Seq(Nat) /\ Less(Lowered(ds), ds)
    BY LoweredSound DEF Less
  <2>4. Less(Passes[n][Lowered(ds)], Lowered(ds))
    BY <1>2, <2>1, <2>3
  <2>5. Less(Passes[n][Lowered(ds)], ds)
    BY <2>3, <2>4, LessTransitive
  <2> QED
    BY <2>2, <2>5, LessReflexive
<1>3. Nat \subseteq Good
  <2> HIDE DEF Good
  <2> QED
    BY <1>1, <1>2, SetInduction
<1> QED
  BY <1>3, OracleAssumption

LEMMA CappedSound ==
  ASSUME NEW depths \in Seq(Nat), setting \in Setting
  PROVE  Less(Capped(depths), depths)
BY PassesLess, OracleAssumption DEF Capped

-----------------------------------------------------------------------------
(* The median and the price                                                *)

Priceable(qs, S) ==
  /\ qs \in Seq(Quote)
  /\ S \in SUBSET (DOMAIN qs)
  /\ S # {}

LEMMA QuoteFields ==
  ASSUME NEW qs \in Seq(Quote), NEW i \in DOMAIN qs
  PROVE  qs[i].price \in Nat /\ qs[i].depth \in Nat
<1>1. qs[i] \in Quote
  OBVIOUS
<1> QED
  BY <1>1 DEF Quote

LEMMA WeightsSound ==
  ASSUME NEW qs, NEW S, Priceable(qs, S), setting \in Setting
  PROVE  /\ Weights(qs, S) \in Seq(Nat)
         /\ Len(Weights(qs, S)) = Len(qs)
         /\ \A i \in DOMAIN qs \ S : Weights(qs, S)[i] = 0
<1> DEFINE depths == [i \in DOMAIN qs |-> IF i \in S THEN qs[i].depth ELSE 0]
<1>1. Len(qs) \in Nat /\ DOMAIN qs = 1..Len(qs)
  BY DEF Priceable
<1>2. /\ depths \in Seq(Nat)
      /\ Len(depths) = Len(qs)
      /\ \A i \in DOMAIN qs \ S : depths[i] = 0
  <2>1. depths \in [1..Len(qs) -> Nat]
    BY <1>1, QuoteFields DEF Priceable
  <2> QED
    BY <1>1, <2>1
<1>3. Weights(qs, S) = Capped(depths)
  BY DEF Weights
<1>4. Less(Capped(depths), depths)
  <2> HIDE DEF depths
  <2> QED
    BY <1>2, CappedSound
<1> HIDE DEF depths
<1>5. ASSUME NEW i \in DOMAIN qs \ S
      PROVE  Weights(qs, S)[i] = 0
  <2>1. Weights(qs, S)[i] <= 0 /\ Weights(qs, S)[i] \in Nat
    BY <1>1, <1>2, <1>3, <1>4 DEF Less
  <2> QED
    BY <2>1
<1> QED
  BY <1>2, <1>3, <1>4, <1>5 DEF Less

(* The median is the price of one of the sources weighed, at which half of *)
(* the weight is reached.                                                  *)
LEMMA MedianReached ==
  ASSUME NEW qs, NEW S, Priceable(qs, S), setting \in Setting
  PROVE  LET w == Weights(qs, S)
             Below(price) == Total([i \in DOMAIN qs |-> IF qs[i].price <= price THEN w[i] ELSE 0])
         IN  Median(qs, S, w) \in {p \in {qs[i].price : i \in S} : Below(p) * 2 >= Total(w)}
<1> DEFINE w == Weights(qs, S)
           Below(price) == Total([i \in DOMAIN qs |-> IF qs[i].price <= price THEN w[i] ELSE 0])
           reached == {p \in {qs[i].price : i \in S} : Below(p) * 2 >= Total(w)}
<1>1. /\ w \in Seq(Nat) /\ Len(w) = Len(qs)
      /\ \A i \in DOMAIN qs \ S : w[i] = 0
  BY WeightsSound
<1>2. /\ Len(qs) \in Nat /\ DOMAIN qs = 1..Len(qs) /\ S \subseteq DOMAIN qs
      /\ \A i \in DOMAIN qs : qs[i].price \in Nat
  BY QuoteFields DEF Priceable
<1>3. PICK top \in S : \A j \in S : qs[j].price <= qs[top].price
  <2> DEFINE f == [i \in DOMAIN qs |-> qs[i].price]
  <2>1. S \in SUBSET (1..Len(qs)) /\ S # {} /\ Len(qs) \in Nat
    BY <1>2 DEF Priceable
  <2>2. \A i \in S : f[i] = qs[i].price /\ f[i] \in Nat
    BY <1>2
  <2>3. \E i \in S : \A j \in S : f[j] <= f[i]
    <3> HIDE DEF f
    <3> QED
      BY <2>1, <2>2, LargestOf
  <2> QED
    BY <2>2, <2>3
<1>4. Below(qs[top].price) = Total(w)
  <2> DEFINE sum == [i \in DOMAIN qs |-> IF qs[i].price <= qs[top].price THEN w[i] ELSE 0]
  <2>1. \A i \in DOMAIN qs : sum[i] = w[i]
    <3> TAKE i \in DOMAIN qs
    <3>1. CASE i \in S
      BY <1>3, <3>1
    <3>2. CASE i \notin S
      BY <1>1, <3>2
    <3> QED
      BY <3>1, <3>2
  <2>2. DOMAIN w = DOMAIN qs /\ w = [i \in DOMAIN w |-> w[i]]
    BY <1>1, <1>2
  <2>3. sum = w
    BY <2>1, <2>2
  <2> QED
    BY <2>3
<1>5. Total(w) \in Nat
  <2> HIDE DEF w
  <2> QED
    BY <1>1, TotalNat
<1>6. reached # {}
  <2>1. qs[top].price \in {qs[i].price : i \in S}
    OBVIOUS
  <2>2. Below(qs[top].price) * 2 >= Total(w)
    BY <1>4, <1>5
  <2>3. \E p \in {qs[i].price : i \in S} : Below(p) * 2 >= Total(w)
    <3> HIDE DEF Below, w
    <3> QED
      BY <2>1, <2>2
  <2> QED
    BY <2>3
<1>7. reached \in SUBSET Nat
  BY <1>2
<1>8. PICK p \in reached : \A other \in reached : p <= other
  <2> HIDE DEF reached
  <2> QED
    BY <1>6, <1>7, LeastOf
<1>9. Median(qs, S, w) = CHOOSE q \in reached : \A other \in reached : q <= other
  BY DEF Median
<1>10. Median(qs, S, w) \in reached
  <2> HIDE DEF reached, w
  <2> QED
    BY <1>8, <1>9
<1> QED
  BY <1>10

LEMMA MedianIsOfASource ==
  ASSUME NEW qs, NEW S, Priceable(qs, S), setting \in Setting
  PROVE  \E i \in S : Median(qs, S, Weights(qs, S)) = qs[i].price
BY MedianReached

(* The provisional median agrees with itself: some source is always kept.  *)
LEMMA SomeSourceAgrees ==
  ASSUME NEW qs, NEW S, Priceable(qs, S), setting \in Setting
  PROVE  Priceable(qs, Agreeing(qs, S))
<1> DEFINE med == Median(qs, S, Weights(qs, S))
<1>1. PICK i \in S : med = qs[i].price
  BY MedianIsOfASource
<1>2. med \in Nat /\ i \in DOMAIN qs
  BY <1>1, QuoteFields DEF Priceable
<1>3. Apart(qs[i].price, med) * BPS <= setting.divergenceBps * med
  <2>1. Apart(qs[i].price, med) = 0
    BY <1>1, <1>2 DEF Apart
  <2>2. setting.divergenceBps \in Nat
    BY DEF Setting
  <2>3. setting.divergenceBps * med \in Nat
    BY <1>2, <2>2, ProductNat
  <2>4. 0 * BPS = 0
    BY OracleAssumption
  <2> QED
    BY <2>1, <2>3, <2>4
<1> HIDE DEF med
<1>4. i \in Agreeing(qs, S)
  BY <1>3 DEF Agreeing, med
<1>5. Agreeing(qs, S) \subseteq S
  BY DEF Agreeing
<1> QED
  BY <1>4, <1>5 DEF Priceable

(* Whatever the sources answer, the price is a natural number.             *)
LEMMA PriceNat ==
  ASSUME NEW qs \in Seq(Quote), setting \in Setting
  PROVE  PriceOf(qs).price \in Nat
<1> DEFINE found == Found(qs)
           kept == Agreeing(qs, found)
<1>1. CASE found = {}
  BY <1>1 DEF PriceOf
<1>2. CASE found # {}
  <2>1. Priceable(qs, found)
    BY <1>2 DEF Found, Priceable
  <2>2. Priceable(qs, kept)
    BY <2>1, SomeSourceAgrees
  <2>3. PICK i \in kept : Median(qs, kept, Weights(qs, kept)) = qs[i].price
    BY <2>2, MedianIsOfASource
  <2>4. qs[i].price \in Nat
    BY <2>2, QuoteFields DEF Priceable
  <2>5. PriceOf(qs).price = Median(qs, kept, Weights(qs, kept))
    BY <1>2 DEF PriceOf
  <2> QED
    BY <2>3, <2>4, <2>5
<1> QED
  BY <1>1, <1>2

LEMMA SampleNat ==
  ASSUME quotes \in [BasketTokens -> Seq(Quote)], setting \in Setting
  PROVE  \A tokens \in HeldLists : Sampled(tokens) \subseteq Nat
<1> TAKE tokens \in HeldLists
<1>1. Len(Basket) \in Nat /\ DOMAIN Basket = 1..Len(Basket) /\ 1 \in DOMAIN Basket
  <2>1. Basket \in Seq(BasketTokens) /\ Basket # <<>>
    BY OracleAssumption
  <2> QED
    BY <2>1
<1>2. /\ tokens \in Seq(BasketTokens) /\ Len(tokens) \in Nat /\ DOMAIN tokens = 1..Len(tokens)
      /\ \A i \in DOMAIN tokens : tokens[i] \in BasketTokens
  BY OracleAssumption
<1>3. ASSUME NEW t \in BasketTokens PROVE PriceOf(quotes[t]).price \in Nat
  <2>1. quotes[t] \in Seq(Quote)
    OBVIOUS
  <2> QED
    BY <2>1, PriceNat
<1>4. CASE watched = "asset"
  <2>1. Basket[1] \in BasketTokens
    BY <1>1 DEF BasketTokens
  <2> QED
    BY <1>3, <1>4, <2>1 DEF Sampled
<1>5. CASE watched # "asset"
  <2> DEFINE value == [i \in DOMAIN tokens |->
                         (Balance[tokens[i]] * PriceOf(quotes[tokens[i]]).price) \div UNIT]
  <2>1. \A i \in DOMAIN tokens : value[i] \in Nat
    <3> TAKE i \in DOMAIN tokens
    <3>1. Balance[tokens[i]] \in Nat
      BY <1>2, OracleAssumption
    <3>2. Balance[tokens[i]] * PriceOf(quotes[tokens[i]]).price \in Nat
      BY <1>2, <1>3, <3>1, ProductNat
    <3> QED
      BY <3>2, DivNat, OracleAssumption
  <2>2. value \in Seq(Nat)
    <3>1. value \in [1..Len(tokens) -> Nat]
      BY <1>2, <2>1
    <3> QED
      BY <1>2, <3>1
  <2>3. NavOfHoldings(tokens).nav = Total(value)
    BY DEF NavOfHoldings
  <2>4. NavOfHoldings(tokens).nav \in Nat
    <3> HIDE DEF value
    <3> QED
      BY <2>2, <2>3, TotalNat
  <2>5. (NavOfHoldings(tokens).nav * UNIT) \div Supply \in Nat
    <3>1. NavOfHoldings(tokens).nav * UNIT \in Nat
      BY <2>4, ProductNat, OracleAssumption
    <3> QED
      BY <3>1, DivNat, OracleAssumption
  <2> QED
    BY <1>5, <2>5 DEF Sampled
<1> QED
  BY <1>4, <1>5

-----------------------------------------------------------------------------
(* The observations                                                        *)

SourcesInv == quotes \in [BasketTokens -> Seq(Quote)] /\ setting \in Setting

(* The accumulator moves by the sample times what has passed, and time     *)
(* only moves forward.                                                     *)
ObservationsInv ==
  /\ blockTime \in Nat
  /\ obs \in Seq(Observation)
  /\ samples \in Seq(Nat)
  /\ Len(samples) = Len(obs)
  /\ \A i \in 1..Len(obs) : obs[i].ts <= blockTime
  /\ \A i, j \in 1..Len(obs) : i < j => obs[i].ts < obs[j].ts
  /\ \A i \in 2..Len(obs) :
       obs[i].cumulative = obs[i - 1].cumulative + samples[i] * (obs[i].ts - obs[i - 1].ts)

LEMMA ObservationFields ==
  ASSUME ObservationsInv, NEW i \in 1..Len(obs)
  PROVE  /\ obs[i] \in Observation
         /\ obs[i].ts \in Nat /\ obs[i].cumulative \in Nat /\ samples[i] \in Nat
         /\ obs[i].ts <= blockTime /\ blockTime \in Nat
<1>1. obs[i] \in Observation
  BY DEF ObservationsInv
<1>2. samples[i] \in Nat
  BY DEF ObservationsInv
<1> QED
  BY <1>1, <1>2 DEF ObservationsInv, Observation

LEMMA SourcesStay ==
  ASSUME SourcesInv, [OracleNext]_oracleVars
  PROVE  SourcesInv'
<1>1. ASSUME NEW t \in BasketTokens, AddSource(t) PROVE SourcesInv'
  <2>1. Unhealthy \in Quote
    BY DEF Unhealthy, Quote
  <2>2. Append(quotes[t], Unhealthy) \in Seq(Quote)
    BY <2>1 DEF SourcesInv
  <2> QED
    BY <1>1, <2>2 DEF SourcesInv, AddSource
<1>2. ASSUME NEW s \in Settings, SetParams(s) PROVE SourcesInv'
  BY <1>2, OracleAssumption DEF SourcesInv, SetParams
<1>3. ASSUME NEW t \in BasketTokens, NEW i \in DOMAIN quotes[t], NEW q \in Quotes[t],
             SourceAnswers(t, i, q)
      PROVE  SourcesInv'
  <2>1. q \in Quote
    BY OracleAssumption
  <2>2. quotes[t] \in Seq(Quote)
    BY DEF SourcesInv
  <2>3. [quotes[t] EXCEPT ![i] = q] \in Seq(Quote)
    BY <2>1, <2>2
  <2>4. quotes' = [quotes EXCEPT ![t] = [quotes[t] EXCEPT ![i] = q]]
    BY <1>3 DEF SourceAnswers
  <2> QED
    BY <1>3, <2>3, <2>4 DEF SourcesInv, SourceAnswers
<1>4. CASE TimePasses
  BY <1>4 DEF SourcesInv, TimePasses
<1>5. CASE Record
  BY <1>5 DEF SourcesInv, Record
<1>6. CASE UNCHANGED oracleVars
  BY <1>6 DEF SourcesInv
<1> QED
  BY <1>1, <1>2, <1>3, <1>4, <1>5, <1>6 DEF OracleNext

(* What one more observation makes of the list.                            *)
LEMMA ObserveSound ==
  ASSUME ObservationsInv, NEW sample \in Nat, Observe(sample), UNCHANGED blockTime
  PROVE  ObservationsInv'
<1>1. CASE obs = <<>>
  <2>1. /\ obs' = <<[ts |-> blockTime, cumulative |-> 0]>>
        /\ samples' = <<0>>
    BY <1>1 DEF Observe
  <2>2. [ts |-> blockTime, cumulative |-> 0] \in Observation
    BY DEF ObservationsInv, Observation
  <2>3. Len(obs') = 1 /\ Len(samples') = 1 /\ obs'[1].ts = blockTime
    BY <2>1
  <2> QED
    BY <2>1, <2>2, <2>3 DEF ObservationsInv
<1>2. CASE obs # <<>>
  <2> DEFINE n == Len(obs)
             last == obs[n]
             dt == blockTime - last.ts
             new == [ts |-> blockTime, cumulative |-> last.cumulative + sample * dt]
  <2>1. n \in Nat \ {0} /\ n \in 1..n
    BY <1>2 DEF ObservationsInv
  <2>2. last \in Observation /\ last.ts \in Nat /\ last.cumulative \in Nat /\ last.ts <= blockTime
    BY <2>1, ObservationFields
  <2>3. dt \in Nat \ {0} /\ obs' = Append(obs, new) /\ samples' = Append(samples, sample)
    <3>1. dt # 0 /\ obs' = Append(obs, new) /\ samples' = Append(samples, sample)
      BY <1>2 DEF Observe
    <3>2. blockTime \in Nat
      BY DEF ObservationsInv
    <3> HIDE DEF last, new
    <3> QED
      BY <2>2, <3>1, <3>2
  <2>4. sample * dt \in Nat
    BY <2>3, ProductNat
  <2>5. new \in Observation
    BY <2>2, <2>4 DEF Observation, ObservationsInv
  <2>6. /\ Len(obs') = n + 1 /\ Len(samples') = n + 1
        /\ obs'[n + 1] = new /\ samples'[n + 1] = sample
        /\ \A i \in 1..n : obs'[i] = obs[i] /\ samples'[i] = samples[i]
    BY <2>1, <2>3, <2>5 DEF ObservationsInv
  <2>7. obs' \in Seq(Observation) /\ samples' \in Seq(Nat)
    BY <2>3, <2>5 DEF ObservationsInv
  <2>8. ASSUME NEW i \in 1..(n + 1)
        PROVE  obs'[i].ts <= blockTime
    <3>1. CASE i = n + 1
      BY <2>6, <3>1 DEF ObservationsInv
    <3>2. CASE i \in 1..n
      BY <2>6, <3>2 DEF ObservationsInv
    <3> QED
      BY <3>1, <3>2
  <2>9. ASSUME NEW i \in 1..(n + 1), NEW j \in 1..(n + 1), i < j
        PROVE  obs'[i].ts < obs'[j].ts
    <3>1. i \in 1..n
      BY <2>1, <2>9
    <3>2. CASE j = n + 1
      <4>1. obs[i].ts \in Nat /\ blockTime \in Nat
        BY <3>1, ObservationFields
      <4>2. obs[i].ts <= last.ts
        <5>1. CASE i = n
          BY <2>2, <5>1
        <5>2. CASE i < n
          <6>1. obs[i].ts < obs[n].ts
            BY <2>1, <3>1, <5>2 DEF ObservationsInv
          <6> QED
            BY <2>2, <4>1, <6>1
        <5> QED
          BY <2>1, <3>1, <5>1, <5>2
      <4>3. obs'[j].ts = blockTime /\ obs'[i].ts = obs[i].ts
        BY <2>6, <3>1, <3>2
      <4>4. last.ts < blockTime
        BY <2>2, <2>3, <4>1
      <4> HIDE DEF last, new, dt
      <4> QED
        BY <2>2, <4>1, <4>2, <4>3, <4>4
    <3>3. CASE j \in 1..n
      BY <2>6, <2>9, <3>1, <3>3 DEF ObservationsInv
    <3> QED
      BY <3>2, <3>3
  <2>10. ASSUME NEW i \in 2..(n + 1)
         PROVE  obs'[i].cumulative =
                  obs'[i - 1].cumulative + samples'[i] * (obs'[i].ts - obs'[i - 1].ts)
    <3>1. CASE i = n + 1
      <4>1. i - 1 = n /\ obs'[i - 1] = last /\ obs'[i] = new /\ samples'[i] = sample
        BY <2>1, <2>6, <3>1
      <4>2. new.cumulative = last.cumulative + sample * (new.ts - last.ts)
        OBVIOUS
      <4> HIDE DEF new, last
      <4> QED
        BY <4>1, <4>2
    <3>2. CASE i \in 2..n
      <4>1. i - 1 \in 1..n /\ i \in 1..n
        BY <2>1, <3>2
      <4>2. obs[i].cumulative = obs[i - 1].cumulative + samples[i] * (obs[i].ts - obs[i - 1].ts)
        BY <3>2 DEF ObservationsInv
      <4> QED
        BY <2>6, <4>1, <4>2
    <3> QED
      BY <2>1, <3>1, <3>2
  <2>11. blockTime' \in Nat /\ blockTime' = blockTime
    BY DEF ObservationsInv
  <2> HIDE DEF n, new, last, dt
  <2> QED
    BY <2>6, <2>7, <2>8, <2>9, <2>10, <2>11 DEF ObservationsInv
<1> QED
  BY <1>1, <1>2

LEMMA ObservationsStay ==
  ASSUME SourcesInv, ObservationsInv, [OracleNext]_oracleVars
  PROVE  ObservationsInv'
<1>1. CASE Record
  <2>1. PICK tokens \in HeldLists : \E sample \in Sampled(tokens) : Observe(sample)
    BY <1>1 DEF Record
  <2>2. PICK sample \in Sampled(tokens) : Observe(sample)
    BY <2>1
  <2>3. sample \in Nat
    BY <2>2, SampleNat DEF SourcesInv
  <2>4. UNCHANGED blockTime
    BY <1>1 DEF Record
  <2> QED
    BY <2>2, <2>3, <2>4, ObserveSound
<1>2. CASE TimePasses
  <2>1. /\ blockTime' = blockTime + 1 /\ UNCHANGED <<obs, samples>>
    BY <1>2 DEF TimePasses
  <2>2. \A i \in 1..Len(obs) : obs[i].ts <= blockTime + 1
    <3> TAKE i \in 1..Len(obs)
    <3>1. obs[i].ts \in Nat /\ obs[i].ts <= blockTime /\ blockTime \in Nat
      BY ObservationFields
    <3> QED
      BY <3>1
  <2> QED
    BY <2>1, <2>2 DEF ObservationsInv
<1>3. CASE UNCHANGED <<obs, samples, blockTime>>
  BY <1>3 DEF ObservationsInv
<1>4. CASE ~Record /\ ~TimePasses
  <2>1. UNCHANGED <<obs, samples, blockTime>>
    BY <1>4 DEF OracleNext, AddSource, SetParams, SourceAnswers
  <2> QED
    BY <1>3, <2>1
<1> QED
  BY <1>1, <1>2, <1>4

-----------------------------------------------------------------------------
(* The average                                                             *)

(* The samples after the first observation, each with the time it stands   *)
(* for.                                                                    *)
Weighing(first) ==
  [k \in 1..(Len(obs) - first) |->
     samples[first + k] * (obs[first + k].ts - obs[first + k - 1].ts)]

(* What they add up to is what the accumulator has moved.                  *)
LEMMA AccumulatorIsTheTotal ==
  ASSUME ObservationsInv, NEW first \in 1..Len(obs)
  PROVE  Total(Weighing(first)) = obs[Len(obs)].cumulative - obs[first].cumulative
<1> DEFINE w == Weighing(first)
           m == Len(obs) - first
           Good == {n \in Nat : n <= m =>
                      PartialTotals(w)[n] = obs[first + n].cumulative - obs[first].cumulative}
<1>1. Len(obs) \in Nat /\ m \in Nat /\ first \in Nat
  BY DEF ObservationsInv
<1>2. Len(w) = m
  BY <1>1 DEF Weighing
<1>3. /\ PartialTotals(w)[0] = 0
      /\ \A i \in 1..m : PartialTotals(w)[i] = PartialTotals(w)[i - 1] + w[i]
  <2> HIDE DEF w, m
  <2> QED
    BY <1>1, <1>2, PartialTotalsSteps
<1>4. 0 \in Good
  <2>1. first + 0 = first /\ obs[first].cumulative \in Nat
    BY <1>1, ObservationFields
  <2> QED
    BY <1>3, <2>1
<1>5. ASSUME NEW n \in Nat, n \in Good
      PROVE  n + 1 \in Good
  <2> SUFFICES ASSUME n + 1 <= m
               PROVE  PartialTotals(w)[n + 1] = obs[first + (n + 1)].cumulative - obs[first].cumulative
    OBVIOUS
  <2>1. /\ n + 1 \in 1..m /\ (n + 1) - 1 = n /\ n <= m
        /\ first + n \in 1..Len(obs) /\ first + (n + 1) \in 2..Len(obs)
        /\ (first + (n + 1)) - 1 = first + n
    BY <1>1
  <2>2. PartialTotals(w)[n + 1] = PartialTotals(w)[n] + w[n + 1]
    BY <1>3, <2>1
  <2>3. PartialTotals(w)[n] = obs[first + n].cumulative - obs[first].cumulative
    BY <1>5, <2>1
  <2>4. w[n + 1] = samples[first + (n + 1)] * (obs[first + (n + 1)].ts - obs[first + n].ts)
    BY <2>1 DEF Weighing
  <2>5. obs[first + (n + 1)].cumulative = obs[first + n].cumulative + w[n + 1]
    BY <2>1, <2>4 DEF ObservationsInv
  <2>6. /\ obs[first + (n + 1)].cumulative \in Nat /\ obs[first + n].cumulative \in Nat
        /\ obs[first].cumulative \in Nat
        /\ samples[first + (n + 1)] \in Nat
        /\ obs[first + (n + 1)].ts \in Nat /\ obs[first + n].ts \in Nat
    BY <1>1, <2>1, ObservationFields
  <2>7. w[n + 1] \in Int
    BY <2>4, <2>6
  <2> HIDE DEF w, m, Good
  <2>8. PartialTotals(w)[n + 1] = (obs[first + n].cumulative - obs[first].cumulative) + w[n + 1]
    BY <2>2, <2>3
  <2>9. (obs[first + n].cumulative - obs[first].cumulative) + w[n + 1]
          = (obs[first + n].cumulative + w[n + 1]) - obs[first].cumulative
    BY <2>6, <2>7
  <2>10. PartialTotals(w)[n + 1] = (obs[first + n].cumulative + w[n + 1]) - obs[first].cumulative
    BY <2>8, <2>9, Zenon
  <2> QED
    BY <2>5, <2>10, Zenon
<1>6. m \in Good /\ first + m = Len(obs) /\ m <= m
  <2>1. Nat \subseteq Good
    <3> HIDE DEF Good
    <3> QED
      BY <1>4, <1>5, SetInduction
  <2> QED
    BY <1>1, <2>1
<1>7. Total(w) = PartialTotals(w)[m]
  BY <1>2 DEF Total
<1> HIDE DEF m, w
<1> QED
  BY <1>6, <1>7 DEF w

Inside(window) == {i \in DOMAIN obs : obs[i].ts >= blockTime - window}
First(window) == CHOOSE i \in Inside(window) : \A j \in Inside(window) : i <= j

(* What is in the window is the end of the list, and consult starts there. *)
LEMMA WindowIsASuffix ==
  ASSUME ObservationsInv, NEW window \in Nat, Inside(window) # {}
  PROVE  /\ First(window) \in 1..Len(obs)
         /\ StartOf(window) = First(window)
         /\ Cardinality(Inside(window)) = Len(obs) - First(window) + 1
<1> DEFINE inside == Inside(window)
           first == First(window)
           n == Len(obs)
<1>1. n \in Nat /\ DOMAIN obs = 1..n /\ inside \subseteq 1..n
  BY DEF ObservationsInv, Inside
<1>2. first \in inside /\ \A j \in inside : first <= j
  <2>1. inside \in SUBSET Nat
    BY <1>1
  <2>2. \E i \in inside : \A j \in inside : i <= j
    <3> HIDE DEF inside
    <3> QED
      BY <2>1, LeastOf DEF inside
  <2> QED
    BY <2>2 DEF First
<1>3. inside = first..n
  <2>1. ASSUME NEW j \in first..n
        PROVE  j \in inside
    <3>1. /\ first \in 1..n /\ j \in 1..n
          /\ obs[first].ts \in Nat /\ obs[j].ts \in Nat /\ blockTime \in Nat
      BY <1>1, <1>2, ObservationFields
    <3>2. obs[first].ts >= blockTime - window
      BY <1>2 DEF Inside
    <3>3. obs[first].ts <= obs[j].ts
      <4>1. CASE j = first
        BY <3>1, <4>1
      <4>2. CASE first < j
        <5>1. obs[first].ts < obs[j].ts
          BY <3>1, <4>2 DEF ObservationsInv
        <5> QED
          BY <3>1, <5>1
      <4> QED
        BY <3>1, <4>1, <4>2
    <3>4. obs[j].ts >= blockTime - window
      <4> HIDE DEF first
      <4> QED
        BY <3>1, <3>2, <3>3
    <3> QED
      BY <1>1, <3>1, <3>4 DEF Inside
  <2>2. ASSUME NEW j \in inside
        PROVE  j \in first..n
    <3>1. j \in 1..n /\ first \in 1..n /\ first <= j
      BY <1>1, <1>2
    <3> HIDE DEF first
    <3> QED
      BY <3>1
  <2> HIDE DEF inside, first
  <2> QED
    BY <2>1, <2>2
<1>4. Cardinality(inside) = n - first + 1
  <2>1. first \in 1..n
    BY <1>1, <1>2
  <2> HIDE DEF inside, first, n
  <2> QED
    BY <1>1, <1>3, <2>1, FS_Interval
<1>5. {i \in DOMAIN obs : obs[i].ts >= Cutoff(window)} = inside
  <2>1. ASSUME NEW i \in DOMAIN obs
        PROVE  obs[i].ts >= Cutoff(window) <=> obs[i].ts >= blockTime - window
    <3>1. obs[i].ts \in Nat /\ blockTime \in Nat
      BY <1>1, ObservationFields
    <3> QED
      BY <3>1 DEF Cutoff
  <2> QED
    BY <2>1 DEF Inside
<1>6. StartOf(window) = first
  <2> HIDE DEF inside
  <2>1. StartOf(window) = CHOOSE i \in inside : \A j \in inside : i <= j
    BY <1>5 DEF StartOf, inside
  <2> QED
    BY <2>1 DEF First, inside
<1> QED
  BY <1>1, <1>2, <1>4, <1>6

LEMMA AverageOfTheWindow ==
  ASSUME ObservationsInv
  PROVE  TwapIsOfItsWindow
<1> SUFFICES ASSUME NEW window \in Windows
             PROVE  /\ Consults(window) <=> Cardinality(Inside(window)) >= 2
                    /\ Consults(window) =>
                         Consult(window) =
                           [twap |-> Total(Weighing(First(window)))
                                       \div (obs[Len(obs)].ts - obs[First(window)].ts),
                            count |-> Cardinality(Inside(window))]
  BY DEF TwapIsOfItsWindow, Inside, First, Weighing
<1>1. window \in Nat /\ Len(obs) \in Nat
  BY OracleAssumption DEF ObservationsInv
<1>2. CASE Inside(window) = {}
  <2>1. Cardinality(Inside(window)) = 0
    BY <1>2, FS_EmptySet
  <2>2. \A i \in DOMAIN obs : ~(obs[i].ts >= Cutoff(window))
    <3> TAKE i \in DOMAIN obs
    <3>1. obs[i].ts \in Nat /\ blockTime \in Nat
      BY ObservationFields DEF ObservationsInv
    <3>2. ~(obs[i].ts >= blockTime - window)
      BY <1>2 DEF Inside
    <3> QED
      BY <1>1, <3>1, <3>2 DEF Cutoff
  <2>3. StartOf(window) = Len(obs)
    BY <2>2 DEF StartOf
  <2>4. ~Consults(window)
    <3> SUFFICES ASSUME Len(obs) >= 2
                 PROVE  ~(obs[Len(obs)].ts > obs[Len(obs)].ts)
      BY <2>3 DEF Consults
    <3>1. obs[Len(obs)].ts \in Nat
      BY <1>1, ObservationFields
    <3> QED
      BY <3>1
  <2> QED
    BY <2>1, <2>4
<1>3. CASE Inside(window) # {}
  <2> DEFINE first == First(window)
  <2>1. /\ first \in 1..Len(obs)
        /\ StartOf(window) = first
        /\ Cardinality(Inside(window)) = Len(obs) - first + 1
    BY <1>1, <1>3, WindowIsASuffix
  <2>2. Total(Weighing(first)) = obs[Len(obs)].cumulative - obs[first].cumulative
    BY <2>1, AccumulatorIsTheTotal
  <2>3. Consults(window) <=> first < Len(obs)
    <3>1. obs[first].ts \in Nat /\ obs[Len(obs)].ts \in Nat /\ Len(obs) \in 1..Len(obs)
      BY <1>1, <2>1, ObservationFields
    <3>2. first < Len(obs) => obs[first].ts < obs[Len(obs)].ts
      BY <2>1, <3>1 DEF ObservationsInv
    <3>3. Consults(window) <=> Len(obs) >= 2 /\ obs[Len(obs)].ts > obs[first].ts
      BY <2>1 DEF Consults
    <3> HIDE DEF first
    <3> QED
      BY <1>1, <2>1, <3>1, <3>2, <3>3
  <2>4. Consult(window) = [twap |-> (obs[Len(obs)].cumulative - obs[first].cumulative)
                                      \div (obs[Len(obs)].ts - obs[first].ts),
                           count |-> Len(obs) - first + 1]
    BY <2>1 DEF Consult
  <2> HIDE DEF first
  <2>5. Consults(window) <=> Cardinality(Inside(window)) >= 2
    BY <1>1, <2>1, <2>3
  <2> QED
    BY <2>1, <2>2, <2>4, <2>5 DEF first
<1> QED
  BY <1>2, <1>3

-----------------------------------------------------------------------------
(* What consult answers is the average of the samples taken in its window, *)
(* weighed with the time each stands for, and it answers exactly when the  *)
(* window holds two observations: for every basket, every parameter of the *)
(* aggregator, every answer of its sources and every window.               *)
THEOREM ConsultAverages == OracleSpec => []TwapIsOfItsWindow
<1>1. OracleInit => SourcesInv /\ ObservationsInv
  <2> SUFFICES ASSUME OracleInit PROVE SourcesInv /\ ObservationsInv
    OBVIOUS
  <2>1. <<>> \in Seq(Quote) /\ <<>> \in Seq(Observation) /\ <<>> \in Seq(Nat)
    OBVIOUS
  <2>2. SourcesInv
    BY <2>1, OracleAssumption DEF OracleInit, SourcesInv
  <2> QED
    BY <2>1, <2>2 DEF OracleInit, ObservationsInv
<1>2. SourcesInv /\ ObservationsInv /\ [OracleNext]_oracleVars => (SourcesInv /\ ObservationsInv)'
  BY SourcesStay, ObservationsStay
<1>3. SourcesInv /\ ObservationsInv => TwapIsOfItsWindow
  BY AverageOfTheWindow
<1> QED
  BY <1>1, <1>2, <1>3, PTL DEF OracleSpec
-----------------------------------------------------------------------------
(* One source among several.  First the weights: whichever source it is,   *)
(* the passes bring its weight below that of the others together.          *)

Without(ds, s) == [i \in DOMAIN ds |-> IF i = s THEN 0 ELSE ds[i]]
RestOf(ds, s) == Total(Without(ds, s))

LEMMA TotalWithout ==
  ASSUME NEW ds \in Seq(Nat), NEW s \in DOMAIN ds
  PROVE  /\ Without(ds, s) \in Seq(Nat)
         /\ DOMAIN Without(ds, s) = DOMAIN ds
         /\ Without(ds, s)[s] = 0
         /\ \A i \in DOMAIN ds : i # s => Without(ds, s)[i] = ds[i]
         /\ RestOf(ds, s) \in Nat
         /\ Total(ds) = ds[s] + RestOf(ds, s)
<1> DEFINE r == Without(ds, s)
<1>1. Len(ds) \in Nat /\ DOMAIN ds = 1..Len(ds) /\ \A i \in DOMAIN ds : ds[i] \in Nat
  OBVIOUS
<1>2. r \in [1..Len(ds) -> Nat]
  BY <1>1 DEF Without
<1>3. r \in Seq(Nat) /\ Len(r) = Len(ds) /\ DOMAIN r = DOMAIN ds
  <2> HIDE DEF r
  <2> QED
    BY <1>1, <1>2, FunctionSeq
<1>4. r[s] = 0 /\ \A i \in DOMAIN ds : i # s => r[i] = ds[i]
  BY DEF Without
<1> HIDE DEF r
<1>5. Total(r) = Total(ds) - ds[s] + r[s]
  <2>1. s \in 1..Len(ds) /\ \A i \in 1..Len(ds) : i # s => r[i] = ds[i]
    BY <1>1, <1>4
  <2>2. r \in Seq(Nat) /\ Len(r) = Len(ds)
    BY <1>3
  <2> QED
    BY <2>1, <2>2, TotalUpdate
<1>6. Total(r) \in Nat /\ Total(ds) \in Nat
  BY <1>3, TotalNat
<1> QED
  BY <1>1, <1>3, <1>4, <1>5, <1>6 DEF r, RestOf

(* A total is no less than three of its terms.                             *)
LEMMA ThreeTerms ==
  ASSUME NEW ds \in Seq(Nat), NEW a \in DOMAIN ds, NEW b \in DOMAIN ds, NEW c \in DOMAIN ds,
         a # b, a # c, b # c
  PROVE  Total(ds) >= ds[a] + ds[b] + ds[c]
<1> DEFINE r == Without(ds, a)
           q == Without(r, b)
<1>1. /\ r \in Seq(Nat) /\ DOMAIN r = DOMAIN ds /\ r[b] = ds[b] /\ r[c] = ds[c]
      /\ Total(ds) = ds[a] + Total(r)
  BY TotalWithout DEF RestOf
<1> HIDE DEF r
<1>2. /\ q \in Seq(Nat) /\ DOMAIN q = DOMAIN ds /\ q[c] = ds[c]
      /\ Total(r) = ds[b] + Total(q)
  BY <1>1, TotalWithout DEF RestOf
<1> HIDE DEF q
<1>3. RestOf(q, c) \in Nat /\ Total(q) = ds[c] + RestOf(q, c)
  BY <1>2, TotalWithout
<1>4. ds[a] \in Nat /\ ds[b] \in Nat /\ ds[c] \in Nat
  OBVIOUS
<1> QED
  BY <1>1, <1>2, <1>3, <1>4

LEMMA TotalZero ==
  ASSUME NEW ds \in Seq(Nat), \A i \in DOMAIN ds : ds[i] = 0
  PROVE  Total(ds) = 0
<1> DEFINE Good == {n \in Nat : n <= Len(ds) => PartialTotals(ds)[n] = 0}
<1>1. Len(ds) \in Nat /\ DOMAIN ds = 1..Len(ds)
  OBVIOUS
<1>2. 0 \in Good
  BY <1>1, PartialTotalsSteps
<1>3. ASSUME NEW n \in Nat, n \in Good PROVE n + 1 \in Good
  <2> SUFFICES ASSUME n + 1 <= Len(ds) PROVE PartialTotals(ds)[n + 1] = 0
    OBVIOUS
  <2>1. n + 1 \in 1..Len(ds) /\ (n + 1) - 1 = n /\ n <= Len(ds)
    BY <1>1
  <2>2. PartialTotals(ds)[n + 1] = PartialTotals(ds)[n] + ds[n + 1]
    BY <1>1, <2>1, PartialTotalsSteps
  <2> QED
    BY <1>1, <1>3, <2>1, <2>2
<1>4. Nat \subseteq Good
  <2> HIDE DEF Good
  <2> QED
    BY <1>2, <1>3, SetInduction
<1> QED
  BY <1>1, <1>4 DEF Total

(* How far so many passes reach.                                           *)
ReachIn(margin) ==
  CHOOSE f : f = [k \in 0..MAX_PASSES |-> IF k = 0 THEN 0 ELSE 2 * (f[k - 1] + margin)]

LEMMA ReachRecursion ==
  ASSUME NEW margin \in Nat
  PROVE  /\ Reach(margin) = ReachIn(margin)[MAX_PASSES]
         /\ ReachIn(margin)[0] = 0
         /\ \A k \in 1..MAX_PASSES : ReachIn(margin)[k] = 2 * (ReachIn(margin)[k - 1] + margin)
         /\ \A k \in 0..MAX_PASSES : ReachIn(margin)[k] \in Nat
<1> DEFINE Is(f, n) == f = [k \in 0..n |-> IF k = 0 THEN 0 ELSE 2 * (f[k - 1] + margin)]
           Good == {n \in Nat : \E f : Is(f, n)}
<1>1. 0 \in Good
  <2> DEFINE g == [k \in 0..0 |-> 0]
  <2>1. \A k \in 0..0 : g[k] = IF k = 0 THEN 0 ELSE 2 * (g[k - 1] + margin)
    OBVIOUS
  <2>2. Is(g, 0)
    BY <2>1
  <2> QED
    BY <2>2
<1>2. ASSUME NEW n \in Nat, n \in Good PROVE n + 1 \in Good
  <2>1. PICK f : Is(f, n)
    BY <1>2
  <2> DEFINE g == [k \in 0..(n + 1) |-> IF k = n + 1 THEN 2 * (f[n] + margin) ELSE f[k]]
  <2>2. \A k \in 0..(n + 1) : g[k] = IF k = 0 THEN 0 ELSE 2 * (g[k - 1] + margin)
    <3> TAKE k \in 0..(n + 1)
    <3>1. CASE k = n + 1
      BY <3>1
    <3>2. CASE k \in 0..n
      <4>1. f[k] = IF k = 0 THEN 0 ELSE 2 * (f[k - 1] + margin)
        BY <2>1, <3>2
      <4>2. g[k] = f[k] /\ (k # 0 => g[k - 1] = f[k - 1])
        BY <3>2
      <4> HIDE DEF g
      <4> QED
        BY <4>1, <4>2
    <3> QED
      BY <3>1, <3>2
  <2>3. g = [k \in 0..(n + 1) |-> g[k]]
    OBVIOUS
  <2>4. Is(g, n + 1)
    <3> HIDE DEF g
    <3> QED
      BY <2>2, <2>3
  <2>5. \E h : Is(h, n + 1)
    <3> HIDE DEF Is, g
    <3> QED
      BY <2>4
  <2> QED
    BY <2>5
<1>3. MAX_PASSES \in Good
  <2> HIDE DEF Good
  <2> QED
    BY <1>1, <1>2, SetInduction, OracleAssumption
<1> DEFINE r == ReachIn(margin)
<1>4. \E f : Is(f, MAX_PASSES)
  BY <1>3
<1>5. Is(r, MAX_PASSES)
  BY <1>4 DEF ReachIn
<1>6. Reach(margin) = r[MAX_PASSES]
  BY DEF Reach, ReachIn
<1> HIDE DEF r
<1>7. r[0] = 0 /\ \A k \in 1..MAX_PASSES : r[k] = 2 * (r[k - 1] + margin)
  <2>1. \A k \in 0..MAX_PASSES : r[k] = IF k = 0 THEN 0 ELSE 2 * (r[k - 1] + margin)
    BY <1>5
  <2> QED
    BY <2>1, OracleAssumption
<1> DEFINE Num == {k \in Nat : k <= MAX_PASSES => r[k] \in Nat}
<1>8. 0 \in Num
  BY <1>7
<1>9. ASSUME NEW k \in Nat, k \in Num PROVE k + 1 \in Num
  <2> SUFFICES ASSUME k + 1 <= MAX_PASSES PROVE r[k + 1] \in Nat
    OBVIOUS
  <2>1. k + 1 \in 1..MAX_PASSES /\ (k + 1) - 1 = k /\ k <= MAX_PASSES
    BY OracleAssumption
  <2>2. r[k + 1] = 2 * (r[k] + margin)
    BY <1>7, <2>1
  <2> QED
    BY <1>9, <2>1, <2>2
<1>10. Nat \subseteq Num
  <2> HIDE DEF Num
  <2> QED
    BY <1>8, <1>9, SetInduction
<1> QED
  BY <1>6, <1>7, <1>10 DEF r

(* A depth that stands alone above the cap comes down: what it was above   *)
(* the others is halved, and the margin goes with it.                      *)
LEMMA ComesDown ==
  ASSUME NEW s \in Nat, NEW rest \in Nat \ {0}, NEW margin \in Nat, NEW r \in Nat,
         NEW R \in Nat, NEW B \in Nat \ {0}, NEW cap \in Nat,
         2 * R < B,
         margin * B <= (B - 2 * R) * rest,
         s < rest + 2 * (r + margin),
         cap * B <= (s + rest) * R
  PROVE  cap < rest + r
<1> DEFINE x == s * R
           y == rest * R
           z == rest * B
           c == cap * B
           q == margin * B
<1>1. (s + rest) * R = x + y /\ (B - 2 * R) * rest = z - 2 * y
  OBVIOUS
<1>2. x \in Nat /\ y \in Nat /\ z \in Nat /\ c \in Nat /\ q \in Nat
  BY ProductNat
<1>3. c <= x + y /\ q <= z - 2 * y
  BY <1>1
<1>4. SUFFICES ASSUME cap >= rest + r PROVE FALSE
  OBVIOUS
<1>5. c >= z + r * B
  <2>1. cap * B >= (rest + r) * B
    BY <1>4
  <2>2. (rest + r) * B = z + r * B
    OBVIOUS
  <2> QED
    BY <2>1, <2>2
<1>6. CASE s <= rest
  <2>1. x <= y
    BY <1>6
  <2>2. 2 * y < z
    <3>1. 2 * y = rest * (2 * R)
      OBVIOUS
    <3>2. rest * (2 * R) < rest * B
      OBVIOUS
    <3> QED
      BY <3>1, <3>2
  <2>3. r * B \in Nat
    BY ProductNat
  <2> QED
    BY <1>2, <1>3, <1>5, <2>1, <2>2, <2>3
<1>7. CASE s > rest
  <2> DEFINE e == s - rest
             g == r * B
  <2>1. e \in Nat /\ e <= 2 * (r + margin) - 1
    BY <1>7
  <2>2. x = y + e * R
    OBVIOUS
  <2>3. 2 * (e * R) <= e * B
    <3>1. 2 * (e * R) = e * (2 * R)
      BY <2>1
    <3>2. e * (2 * R) <= e * B
      BY <2>1
    <3> QED
      BY <3>1, <3>2
  <2>4. e * B <= 2 * g + 2 * q - B
    <3>1. e * B <= (2 * (r + margin) - 1) * B
      BY <2>1
    <3>2. (2 * (r + margin) - 1) * B = 2 * g + 2 * q - B
      OBVIOUS
    <3> QED
      BY <3>1, <3>2
  <2>5. g \in Nat /\ e * B \in Nat /\ e * R \in Nat
    BY <2>1, ProductNat
  <2> HIDE DEF e, g
  <2>6. g = r * B
    BY DEF g
  <2> DEFINE u == e * R
             v == e * B
  <2>7. x = y + u /\ 2 * u <= v /\ v <= 2 * g + 2 * q - B /\ c >= z + g
        /\ u \in Nat /\ v \in Nat /\ g \in Nat
    BY <1>5, <2>2, <2>3, <2>4, <2>5, <2>6
  <2> HIDE DEF u, v, x, y, z, c, q
  <2> QED
    BY <1>2, <1>3, <2>7
<1> QED
  BY <1>6, <1>7

(* A source whose weight the passes left can bring below the others': one  *)
(* as deep stands beside it, or it is within reach.                        *)
CanFall(ds, s, k, margin) ==
  \/ \E z \in DOMAIN ds \ {s} : ds[z] >= ds[s]
  \/ /\ margin * BPS <= (BPS - 2 * setting.maxWeightBps) * RestOf(ds, s)
     /\ ds[s] < RestOf(ds, s) + ReachIn(margin)[k]

Outweighed(w, s) == 2 * w[s] < Total(w)

(* Three depths, the last two not nothing, and no pass to come.            *)
LEMMA FallenAtOnce ==
  ASSUME NEW ds \in Seq(Nat), NEW margin \in Nat,
         NEW s \in DOMAIN ds, NEW x \in DOMAIN ds, NEW y \in DOMAIN ds,
         s # x, s # y, x # y, ds[x] > 0, ds[y] > 0, CanFall(ds, s, 0, margin)
  PROVE  Outweighed(ds, s)
<1>1. \A i \in DOMAIN ds : ds[i] \in Nat
  OBVIOUS
<1>2. CASE \E z \in DOMAIN ds \ {s} : ds[z] >= ds[s]
  <2>1. PICK z \in DOMAIN ds \ {s} : ds[z] >= ds[s]
    BY <1>2
  <2>2. PICK v \in {x, y} : v # z
    OBVIOUS
  <2>3. v \in DOMAIN ds /\ v # s /\ ds[v] > 0
    BY <2>2
  <2>4. Total(ds) >= ds[s] + ds[z] + ds[v]
    BY <2>1, <2>2, <2>3, ThreeTerms
  <2>5. Total(ds) \in Nat
    BY TotalNat
  <2> QED
    BY <1>1, <2>1, <2>3, <2>4, <2>5 DEF Outweighed
<1>3. CASE ds[s] < RestOf(ds, s) + ReachIn(margin)[0]
  <2>1. ds[s] < RestOf(ds, s)
    <3>1. RestOf(ds, s) \in Nat
      BY TotalWithout
    <3>2. ReachIn(margin)[0] = 0
      BY ReachRecursion
    <3>3. RestOf(ds, s) + 0 = RestOf(ds, s)
      BY <3>1
    <3> QED
      BY <1>3, <3>2, <3>3
  <2> QED
    BY <1>1, <2>1, TotalWithout DEF Outweighed
<1> QED
  BY <1>2, <1>3 DEF CanFall

(* Balanced depths have nobody at a half.                                  *)
LEMMA HalfOfCap ==
  ASSUME NEW a \in Nat, NEW cap \in Nat, NEW T \in Nat \ {0}, NEW R \in Nat, NEW B \in Nat \ {0},
         a <= cap, cap * B <= T * R, 2 * R < B
  PROVE  2 * a < T
<1> SUFFICES ASSUME 2 * a >= T PROVE FALSE
  OBVIOUS
<1> DEFINE c == cap * B
           x == T * R
           y == T * B
<1>1. c \in Nat /\ x \in Nat /\ y \in Nat /\ c <= x
  BY ProductNat
<1>2. 2 * c >= y
  <2>1. 2 * cap >= T
    OBVIOUS
  <2>2. (2 * cap) * B >= T * B
    BY <2>1
  <2>3. (2 * cap) * B = 2 * c
    OBVIOUS
  <2> QED
    BY <2>2, <2>3
<1>3. 2 * x < y
  <2>1. 2 * x = T * (2 * R)
    OBVIOUS
  <2>2. T * (2 * R) < T * B
    OBVIOUS
  <2> QED
    BY <2>1, <2>2
<1> HIDE DEF c, x, y
<1> QED
  BY <1>1, <1>2, <1>3

LEMMA TotalPositive ==
  ASSUME NEW ds \in Seq(Nat), NEW x \in DOMAIN ds, ds[x] > 0
  PROVE  Total(ds) \in Nat \ {0}
<1>1. ds[x] \in Nat
  OBVIOUS
<1>2. Total(ds) = ds[x] + RestOf(ds, x) /\ RestOf(ds, x) \in Nat
  BY TotalWithout
<1> QED
  BY <1>1, <1>2

LEMMA FallenWhenBalanced ==
  ASSUME NEW ds \in Seq(Nat), setting \in Setting, 2 * setting.maxWeightBps < BPS,
         NEW s \in DOMAIN ds, NEW x \in DOMAIN ds, ds[x] > 0, Balanced(ds)
  PROVE  Outweighed(ds, s)
<1>1. ds[s] \in Nat /\ setting.maxWeightBps \in Nat /\ BPS \in Nat \ {0}
  <2>1. ds[s] \in Nat
    OBVIOUS
  <2>2. setting.maxWeightBps \in Nat
    BY DEF Setting
  <2> QED
    BY <2>1, <2>2, OracleAssumption
<1>2. /\ Cap(ds) \in Nat /\ Cap(ds) * BPS <= Total(ds) * setting.maxWeightBps
      /\ Total(ds) \in Nat \ {0}
  BY CapIs, TotalPositive
<1>3. ds[s] <= Cap(ds)
  BY DEF Balanced
<1>4. 2 * ds[s] < Total(ds)
  <2> DEFINE a == ds[s]
             T == Total(ds)
             cap == Cap(ds)
             R == setting.maxWeightBps
  <2>1. /\ a \in Nat /\ cap \in Nat /\ T \in Nat \ {0} /\ R \in Nat /\ BPS \in Nat \ {0}
        /\ a <= cap /\ cap * BPS <= T * R /\ 2 * R < BPS
    BY <1>1, <1>2, <1>3
  <2> HIDE DEF a, T, cap, R
  <2>2. 2 * a < T
    BY <2>1, HalfOfCap
  <2> QED
    BY <2>2 DEF a, T
<1> QED
  BY <1>4 DEF Outweighed

(* A pass leaves it able to fall in the passes that are left.              *)
LEMMA StillFalls ==
  ASSUME NEW ds \in Seq(Nat), NEW margin \in Nat, setting \in Setting,
         2 * setting.maxWeightBps < BPS,
         NEW s \in DOMAIN ds, NEW x \in DOMAIN ds, s # x, ds[x] > 0,
         NEW k \in Nat, k + 1 <= MAX_PASSES, ~Balanced(ds), CanFall(ds, s, k + 1, margin)
  PROVE  CanFall(Lowered(ds), s, k, margin)
<1> DEFINE low == Lowered(ds)
           cap == Cap(ds)
           R == setting.maxWeightBps
<1>1. /\ low \in Seq(Nat) /\ DOMAIN low = DOMAIN ds /\ cap \in Nat
      /\ \A i \in DOMAIN ds : ds[i] \in Nat /\ low[i] \in Nat /\ low[i] = Smaller(ds[i], cap)
  <2>1. \A i \in DOMAIN ds : ds[i] \in Nat
    OBVIOUS
  <2>2. low \in Seq(Nat) /\ DOMAIN low = DOMAIN ds
        /\ \A i \in DOMAIN ds : low[i] = Smaller(ds[i], cap)
    BY LoweredIs
  <2> HIDE DEF low, cap
  <2>3. \A i \in DOMAIN ds : low[i] \in Nat
    BY <2>2, ElementNat
  <2>4. cap \in Nat
    BY CapIs DEF cap
  <2> QED
    BY <2>1, <2>2, <2>3, <2>4
<1> HIDE DEF low
<1>2. ASSUME NEW z \in DOMAIN ds \ {s}, ds[z] >= ds[s] \/ ds[z] > cap
      PROVE  CanFall(low, s, k, margin)
  <2>1. /\ low[z] = Smaller(ds[z], cap) /\ low[s] = Smaller(ds[s], cap)
        /\ ds[z] \in Nat /\ ds[s] \in Nat /\ cap \in Nat
    BY <1>1
  <2> HIDE DEF cap
  <2>2. low[z] >= low[s]
    BY <1>2, <2>1 DEF Smaller, cap
  <2>3. z \in DOMAIN low \ {s} /\ low[z] >= low[s]
    BY <1>1, <2>2
  <2> QED
    BY <2>3 DEF CanFall
<1>3. CASE /\ margin * BPS <= (BPS - 2 * R) * RestOf(ds, s)
           /\ ds[s] < RestOf(ds, s) + ReachIn(margin)[k + 1]
           /\ \A z \in DOMAIN ds \ {s} : ds[z] <= cap
  <2>1. ds[s] > cap
    BY <1>1, <1>3 DEF Balanced
  <2>2. low[s] = cap /\ \A z \in DOMAIN ds \ {s} : low[z] = ds[z]
    BY <1>1, <1>3, <2>1 DEF Smaller
  <2>3. Without(low, s) = Without(ds, s)
    BY <1>1, <2>2 DEF Without
  <2>4. RestOf(low, s) = RestOf(ds, s)
    BY <2>3 DEF RestOf
  <2>5. RestOf(ds, s) \in Nat /\ Total(ds) = ds[s] + RestOf(ds, s)
    BY TotalWithout
  <2>6. RestOf(ds, s) # 0
    <3> DEFINE r == Without(ds, s)
    <3>1. r \in Seq(Nat) /\ DOMAIN r = DOMAIN ds /\ r[x] = ds[x]
      BY TotalWithout
    <3> HIDE DEF r
    <3>2. Total(r) = r[x] + RestOf(r, x) /\ RestOf(r, x) \in Nat
      BY <3>1, TotalWithout
    <3> QED
      BY <1>1, <3>1, <3>2 DEF r, RestOf
  <2>7. /\ ReachIn(margin)[k + 1] = 2 * (ReachIn(margin)[k] + margin)
        /\ ReachIn(margin)[k] \in Nat
    <3>1. k + 1 \in 1..MAX_PASSES /\ (k + 1) - 1 = k /\ k \in 0..MAX_PASSES
      BY OracleAssumption
    <3> QED
      BY <3>1, ReachRecursion
  <2>8. R \in Nat /\ BPS \in Nat \ {0}
    BY OracleAssumption DEF Setting
  <2>9. cap * BPS <= (ds[s] + RestOf(ds, s)) * R
    BY <2>5, CapIs
  <2> HIDE DEF cap, R
  <2>10. cap < RestOf(ds, s) + ReachIn(margin)[k]
    <3> DEFINE d == ds[s]
               rest == RestOf(ds, s)
               r == ReachIn(margin)[k]
    <3>1. d \in Nat /\ rest \in Nat \ {0} /\ r \in Nat /\ cap \in Nat
      BY <1>1, <2>5, <2>6, <2>7
    <3>2. 2 * R < BPS /\ margin * BPS <= (BPS - 2 * R) * rest /\ d < rest + 2 * (r + margin)
          /\ cap * BPS <= (d + rest) * R
      BY <1>3, <2>7, <2>9 DEF R
    <3> HIDE DEF d, rest, r
    <3>3. cap < rest + r
      BY <2>8, <3>1, <3>2, ComesDown
    <3> QED
      BY <3>3 DEF rest, r
  <2>11. low[s] < RestOf(low, s) + ReachIn(margin)[k]
    BY <2>2, <2>4, <2>10
  <2>12. margin * BPS <= (BPS - 2 * setting.maxWeightBps) * RestOf(low, s)
    BY <1>3, <2>4 DEF R
  <2>13. CanFall(low, s, k, margin)
    BY <2>11, <2>12 DEF CanFall
  <2> QED
    BY <2>13 DEF low
<1>4. CASE \E z \in DOMAIN ds \ {s} : ds[z] >= ds[s]
  BY <1>2, <1>4 DEF low
<1>5. CASE \E z \in DOMAIN ds \ {s} : ds[z] > cap
  BY <1>2, <1>5 DEF low
<1>6. (\A z \in DOMAIN ds \ {s} : ds[z] <= cap) \/ \E z \in DOMAIN ds \ {s} : ds[z] > cap
  BY <1>1
<1> QED
  BY <1>3, <1>4, <1>5, <1>6 DEF CanFall, low

(* Whatever can fall has fallen after the passes, if two others are left.  *)
LEMMA FallenAfter ==
  ASSUME NEW margin \in Nat, setting \in Setting, 2 * setting.maxWeightBps < BPS
  PROVE  \A k \in 0..MAX_PASSES : \A ds \in Seq(Nat) : \A s, x, y \in DOMAIN ds :
           /\ s # x /\ s # y /\ x # y
           /\ Passes[k][ds][x] > 0 /\ Passes[k][ds][y] > 0
           /\ CanFall(ds, s, k, margin)
           => Outweighed(Passes[k][ds], s)
<1> DEFINE Claim(k) == \A ds \in Seq(Nat) : \A s, x, y \in DOMAIN ds :
             /\ s # x /\ s # y /\ x # y
             /\ Passes[k][ds][x] > 0 /\ Passes[k][ds][y] > 0
             /\ CanFall(ds, s, k, margin)
             => Outweighed(Passes[k][ds], s)
           Good == {k \in Nat : k <= MAX_PASSES => Claim(k)}
<1>1. 0 \in Good
  <2> SUFFICES ASSUME NEW ds \in Seq(Nat), NEW s \in DOMAIN ds, NEW x \in DOMAIN ds,
                      NEW y \in DOMAIN ds, s # x, s # y, x # y,
                      Passes[0][ds][x] > 0, Passes[0][ds][y] > 0, CanFall(ds, s, 0, margin)
               PROVE  Outweighed(Passes[0][ds], s)
    OBVIOUS
  <2>1. Passes[0] = [d \in Seq(Nat) |-> d]
    BY PassesRecursion, OracleAssumption
  <2>2. Passes[0][ds] = ds
    BY <2>1
  <2> QED
    BY <2>2, FallenAtOnce
<1>2. ASSUME NEW k \in Nat, k \in Good PROVE k + 1 \in Good
  <2> SUFFICES ASSUME k + 1 <= MAX_PASSES,
                      NEW ds \in Seq(Nat), NEW s \in DOMAIN ds, NEW x \in DOMAIN ds,
                      NEW y \in DOMAIN ds, s # x, s # y, x # y,
                      Passes[k + 1][ds][x] > 0, Passes[k + 1][ds][y] > 0,
                      CanFall(ds, s, k + 1, margin)
               PROVE  Outweighed(Passes[k + 1][ds], s)
    OBVIOUS
  <2>1. k <= MAX_PASSES /\ k + 1 \in 0..MAX_PASSES
    BY OracleAssumption
  <2>2. Passes[k + 1][ds] = IF Balanced(ds) THEN ds ELSE Passes[k][Lowered(ds)]
    BY PassesStep
  <2>3. ds[x] > 0
    <3>1. Less(Passes[k + 1][ds], ds)
      BY <2>1, PassesLess
    <3>2. x \in 1..Len(ds) /\ ds[x] \in Nat /\ Len(ds) \in Nat
      OBVIOUS
    <3> DEFINE w == Passes[k + 1][ds]
    <3>3. w \in Seq(Nat) /\ Len(w) = Len(ds) /\ w[x] <= ds[x] /\ w[x] > 0
      BY <3>1, <3>2 DEF Less
    <3> HIDE DEF w
    <3>4. w[x] \in Nat
      <4>1. x \in DOMAIN w
        BY <3>2, <3>3
      <4> QED
        BY <3>3, <4>1, ElementNat
    <3> QED
      BY <3>2, <3>3, <3>4
  <2>4. CASE Balanced(ds)
    BY <2>2, <2>3, <2>4, FallenWhenBalanced
  <2>5. CASE ~Balanced(ds)
    <3>1. Lowered(ds) \in Seq(Nat) /\ DOMAIN Lowered(ds) = DOMAIN ds
      BY LoweredIs
    <3>2. CanFall(Lowered(ds), s, k, margin)
      BY <2>3, <2>5, StillFalls
    <3>3. Claim(k)
      BY <1>2, <2>1
    <3> HIDE DEF Claim
    <3>4. Passes[k + 1][ds] = Passes[k][Lowered(ds)]
      BY <2>2, <2>5
    <3>5. Outweighed(Passes[k][Lowered(ds)], s)
      BY <3>1, <3>2, <3>3, <3>4 DEF Claim
    <3> QED
      BY <3>4, <3>5
  <2> QED
    BY <2>4, <2>5
<1>3. Nat \subseteq Good
  <2> HIDE DEF Good
  <2> QED
    BY <1>1, <1>2, SetInduction
<1>4. ASSUME NEW k \in 0..MAX_PASSES
      PROVE  Claim(k)
  <2>1. k \in Nat /\ k <= MAX_PASSES
    BY OracleAssumption
  <2>2. k \in Good
    BY <1>3, <2>1
  <2> HIDE DEF Claim
  <2> QED
    BY <2>1, <2>2
<1> QED
  BY <1>4

-----------------------------------------------------------------------------
(* Then the median: with less than half of the weight, a source stands     *)
(* neither below all others nor above them.                                *)

BelowAt(qs, w, price) == Total([i \in DOMAIN qs |-> IF qs[i].price <= price THEN w[i] ELSE 0])

LEMMA MedianIsLeast ==
  ASSUME NEW qs, NEW S, Priceable(qs, S), setting \in Setting
  PROVE  LET w == Weights(qs, S)
             med == Median(qs, S, w)
         IN  /\ BelowAt(qs, w, med) * 2 >= Total(w)
             /\ \A i \in S : BelowAt(qs, w, qs[i].price) * 2 >= Total(w) => med <= qs[i].price
<1> DEFINE w == Weights(qs, S)
           med == Median(qs, S, w)
           reached == {p \in {qs[i].price : i \in S} : BelowAt(qs, w, p) * 2 >= Total(w)}
<1>1. med = CHOOSE p \in reached : \A other \in reached : p <= other
  BY DEF Median, BelowAt
<1>2. med \in reached
  BY MedianReached DEF BelowAt
<1>3. reached \in SUBSET Nat
  BY QuoteFields DEF Priceable
<1> HIDE DEF med
<1>4. \E p \in reached : \A other \in reached : p <= other
  <2> HIDE DEF reached
  <2> QED
    BY <1>2, <1>3, LeastOf
<1>5. \A other \in reached : med <= other
  <2> HIDE DEF reached
  <2> QED
    BY <1>1, <1>4
<1> QED
  BY <1>2, <1>5 DEF med

LEMMA SequenceOf ==
  ASSUME NEW qs \in Seq(Quote), NEW w \in Seq(Nat), Len(w) = Len(qs), NEW price
  PROVE  LET b == [i \in DOMAIN qs |-> IF qs[i].price <= price THEN w[i] ELSE 0]
         IN  b \in Seq(Nat) /\ DOMAIN b = DOMAIN qs /\ DOMAIN w = DOMAIN qs
<1> DEFINE b == [i \in DOMAIN qs |-> IF qs[i].price <= price THEN w[i] ELSE 0]
<1>1. DOMAIN qs = 1..Len(qs) /\ DOMAIN w = DOMAIN qs /\ Len(qs) \in Nat
      /\ \A i \in DOMAIN qs : w[i] \in Nat
  OBVIOUS
<1>2. b \in [1..Len(qs) -> Nat]
  BY <1>1
<1> QED
  BY <1>1, <1>2

LEMMA MedianBetween ==
  ASSUME NEW qs, NEW S, Priceable(qs, S), setting \in Setting,
         NEW s \in S, S \ {s} # {}, Outweighed(Weights(qs, S), s)
  PROVE  LET med == Median(qs, S, Weights(qs, S))
         IN  /\ \E i \in S \ {s} : qs[i].price <= med
             /\ \E i \in S \ {s} : qs[i].price >= med
<1> DEFINE w == Weights(qs, S)
           med == Median(qs, S, w)
           B(price) == [i \in DOMAIN qs |-> IF qs[i].price <= price THEN w[i] ELSE 0]
<1>1. /\ w \in Seq(Nat) /\ Len(w) = Len(qs) /\ DOMAIN w = DOMAIN qs
      /\ \A i \in DOMAIN qs \ S : w[i] = 0
      /\ qs \in Seq(Quote) /\ Len(qs) \in Nat /\ DOMAIN qs = 1..Len(qs)
      /\ S \subseteq DOMAIN qs /\ \A i \in DOMAIN qs : qs[i].price \in Nat
  <2>1. w \in Seq(Nat) /\ Len(w) = Len(qs) /\ \A i \in DOMAIN qs \ S : w[i] = 0
    BY WeightsSound
  <2>2. qs \in Seq(Quote) /\ Len(qs) \in Nat /\ DOMAIN qs = 1..Len(qs) /\ S \subseteq DOMAIN qs
    BY DEF Priceable
  <2>3. \A i \in DOMAIN qs : qs[i].price \in Nat
    BY <2>2, QuoteFields
  <2> HIDE DEF w
  <2> QED
    BY <2>1, <2>2, <2>3
<1>2. med \in Nat
  BY <1>1, MedianIsOfASource
<1>3. /\ BelowAt(qs, w, med) * 2 >= Total(w)
      /\ \A i \in S : BelowAt(qs, w, qs[i].price) * 2 >= Total(w) => med <= qs[i].price
  BY MedianIsLeast
<1>4. 2 * w[s] < Total(w) /\ Total(w) \in Nat /\ w[s] \in Nat /\ Total(w) = w[s] + RestOf(w, s)
  <2>1. 2 * w[s] < Total(w)
    BY DEF Outweighed
  <2> HIDE DEF w
  <2> QED
    BY <1>1, <2>1, TotalNat, TotalWithout
<1> HIDE DEF w, med
<1>5. ASSUME \A i \in S \ {s} : ~(qs[i].price <= med)
      PROVE  FALSE
  <2> DEFINE b == B(med)
  <2>1. b \in Seq(Nat) /\ DOMAIN b = DOMAIN qs
    BY <1>1, SequenceOf
  <2>2. \A i \in DOMAIN qs : i # s => b[i] = 0
    BY <1>1, <1>5
  <2>3. b[s] <= w[s] /\ b[s] \in Nat
    BY <1>1, <1>4
  <2>4. BelowAt(qs, w, med) = Total(b)
    BY DEF BelowAt
  <2> HIDE DEF b
  <2> DEFINE r == Without(b, s)
  <2>5. s \in DOMAIN b
    BY <1>1, <2>1
  <2>6. /\ r \in Seq(Nat) /\ DOMAIN r = DOMAIN b /\ r[s] = 0
        /\ \A i \in DOMAIN b : i # s => r[i] = b[i]
        /\ Total(b) = b[s] + Total(r)
    BY <2>1, <2>5, TotalWithout DEF RestOf
  <2> HIDE DEF r
  <2>7. \A i \in DOMAIN r : r[i] = 0
    BY <2>1, <2>2, <2>6
  <2>8. Total(r) = 0
    BY <2>6, <2>7, TotalZero
  <2> QED
    BY <1>3, <1>4, <2>3, <2>4, <2>6, <2>8
<1>6. ASSUME \A i \in S \ {s} : ~(qs[i].price >= med)
      PROVE  FALSE
  <2>1. PICK top \in S \ {s} : \A j \in S \ {s} : qs[j].price <= qs[top].price
    <3> DEFINE f == [i \in DOMAIN qs |-> qs[i].price]
    <3>1. S \ {s} \in SUBSET (1..Len(qs)) /\ S \ {s} # {}
      BY <1>1
    <3>2. \A i \in S \ {s} : f[i] = qs[i].price /\ f[i] \in Nat
      BY <1>1
    <3>3. \E i \in S \ {s} : \A j \in S \ {s} : f[j] <= f[i]
      <4> HIDE DEF f
      <4> QED
        BY <1>1, <3>1, <3>2, LargestOf
    <3> QED
      BY <3>2, <3>3
  <2> DEFINE b == B(qs[top].price)
  <2>2. b \in Seq(Nat) /\ DOMAIN b = DOMAIN qs
    BY <1>1, SequenceOf
  <2>3. \A i \in DOMAIN qs : i # s => b[i] = w[i]
    <3> TAKE i \in DOMAIN qs
    <3>1. CASE i \in S \ {s}
      BY <2>1, <3>1
    <3>2. CASE i \notin S
      BY <1>1, <3>2
    <3> QED
      BY <3>1, <3>2
  <2>4. BelowAt(qs, w, qs[top].price) = Total(b)
    BY DEF BelowAt
  <2> HIDE DEF b
  <2>5. Without(b, s) = Without(w, s)
    BY <1>1, <2>2, <2>3 DEF Without
  <2>6. Total(b) = b[s] + RestOf(w, s) /\ b[s] \in Nat /\ RestOf(w, s) \in Nat
    <3>1. s \in DOMAIN b /\ b[s] \in Nat
      BY <1>1, <2>2
    <3>2. Total(b) = b[s] + RestOf(b, s) /\ RestOf(b, s) \in Nat
      BY <2>2, <3>1, TotalWithout
    <3> QED
      BY <2>5, <3>1, <3>2 DEF RestOf
  <2>7. med <= qs[top].price
    BY <1>3, <1>4, <2>1, <2>4, <2>6
  <2> QED
    BY <1>1, <1>2, <1>6, <2>1, <2>7
<1> QED
  BY <1>5, <1>6 DEF w, med

(* What agrees with a median is within the band of what the median is      *)
(* between.                                                                *)
LEMMA WithinTheBand ==
  ASSUME NEW med \in Nat, NEW price \in Nat, NEW low \in Nat, NEW high \in Nat,
         low <= med, med <= high, NEW band \in Nat,
         Apart(price, med) * BPS <= band * med
  PROVE  /\ price * BPS >= low * (BPS - band)
         /\ price * BPS <= high * (BPS + band)
<1>1. BPS \in Nat \ {0}
  BY OracleAssumption
<1> DEFINE p == price * BPS
           m == med * BPS
           l == low * BPS
           h == high * BPS
           bm == band * med
           bl == band * low
           bh == band * high
<1>2. low * (BPS - band) = l - bl /\ high * (BPS + band) = h + bh
  BY <1>1
<1>3. /\ p \in Nat /\ m \in Nat /\ l \in Nat /\ h \in Nat /\ bm \in Nat /\ bl \in Nat /\ bh \in Nat
      /\ l <= m /\ m <= h /\ bl <= bm /\ bm <= bh
  BY <1>1, ProductNat
<1>4. p <= m + bm /\ (price >= med => p >= m) /\ (price < med => p >= m - bm)
  <2>1. CASE price >= med
    <3>1. Apart(price, med) = price - med
      BY <2>1 DEF Apart
    <3>2. (price - med) * BPS = p - m
      BY <1>1
    <3>3. p >= m
      BY <1>1, <2>1
    <3>4. p - m <= bm
      BY <3>1, <3>2
    <3> HIDE DEF p, m, bm
    <3> QED
      BY <1>3, <2>1, <3>3, <3>4
  <2>2. CASE price < med
    <3>1. Apart(price, med) = med - price
      BY <2>2 DEF Apart
    <3>2. (med - price) * BPS = m - p
      BY <1>1
    <3>3. p <= m
      BY <1>1, <2>2
    <3>4. m - p <= bm
      BY <3>1, <3>2
    <3> HIDE DEF p, m, bm
    <3> QED
      BY <1>3, <2>2, <3>3, <3>4
  <2> QED
    BY <2>1, <2>2
<1>5. p <= h + bh
  <2> HIDE DEF p, m, l, h, bm, bl, bh
  <2> QED
    BY <1>3, <1>4
<1>6. p >= l - bl
  <2>1. CASE price >= med
    <3> HIDE DEF p, m, l, h, bm, bl, bh
    <3> QED
      BY <1>3, <1>4, <2>1
  <2>2. CASE price < med
    <3>1. m - bm >= l - bl \/ l - bl <= 0
      <4>1. CASE BPS >= band
        <5>1. m - bm = med * (BPS - band) /\ l - bl = low * (BPS - band)
          BY <1>1
        <5>2. BPS - band \in Nat
          BY <1>1, <4>1
        <5>3. med * (BPS - band) >= low * (BPS - band)
          BY <5>2
        <5> QED
          BY <5>1, <5>3
      <4>2. CASE BPS < band
        <5>1. l <= bl
          BY <1>1, <4>2
        <5> QED
          BY <1>3, <5>1
      <4> QED
        BY <1>1, <4>1, <4>2
    <3> HIDE DEF p, m, l, h, bm, bl, bh
    <3> QED
      BY <1>3, <1>4, <2>2, <3>1
  <2> QED
    BY <2>1, <2>2
<1> QED
  BY <1>2, <1>5, <1>6

(* A source within reach has less than half of the weight of a token.      *)
LEMMA InReachIsOutweighed ==
  ASSUME NEW qs, NEW S, Priceable(qs, S), setting \in Setting, NEW s \in S,
         2 * setting.maxWeightBps < BPS,
         Cardinality({i \in S \ {s} : Weights(qs, S)[i] > 0}) >= 2,
         LET rest == Total([i \in DOMAIN qs |-> IF i \in S \ {s} THEN qs[i].depth ELSE 0])
             margin == ((BPS - 2 * setting.maxWeightBps) * rest) \div BPS
         IN  qs[s].depth < rest + Reach(margin)
  PROVE  Outweighed(Weights(qs, S), s)
<1> DEFINE ds == [i \in DOMAIN qs |-> IF i \in S THEN qs[i].depth ELSE 0]
           others == [i \in DOMAIN qs |-> IF i \in S \ {s} THEN qs[i].depth ELSE 0]
           rest == Total(others)
           R == setting.maxWeightBps
           margin == ((BPS - 2 * R) * rest) \div BPS
           heavy == {i \in S \ {s} : Weights(qs, S)[i] > 0}
<1>1. qs \in Seq(Quote) /\ DOMAIN qs = 1..Len(qs) /\ Len(qs) \in Nat /\ S \subseteq DOMAIN qs
  BY DEF Priceable
<1>2. ds \in Seq(Nat) /\ DOMAIN ds = DOMAIN qs /\ s \in DOMAIN ds /\ ds[s] = qs[s].depth
  <2>1. ds \in [1..Len(qs) -> Nat]
    BY <1>1, QuoteFields
  <2> QED
    BY <1>1, <2>1
<1>3. Weights(qs, S) = Passes[MAX_PASSES][ds]
  BY DEF Weights, Capped
<1>4. Without(ds, s) = others
  BY <1>1 DEF Without
<1>5. rest = RestOf(ds, s)
  BY <1>4 DEF RestOf
<1> HIDE DEF ds, others
<1>6. rest \in Nat
  BY <1>2, <1>5, TotalWithout
<1>7. margin \in Nat /\ margin * BPS <= (BPS - 2 * R) * rest
  <2>1. BPS \in Nat \ {0} /\ R \in Nat
    BY OracleAssumption DEF Setting
  <2>2. BPS - 2 * R \in Nat
    BY <2>1
  <2> DEFINE a == (BPS - 2 * R) * rest
  <2>3. a \in Nat
    BY <1>6, <2>2, ProductNat
  <2> HIDE DEF a
  <2>4. a \div BPS \in Nat /\ (a \div BPS) * BPS <= a
    BY <2>1, <2>3, DivFloor, Zenon
  <2> QED
    BY <2>4 DEF a
<1>8. qs[s].depth < rest + Reach(margin)
  BY DEF others
<1> HIDE DEF margin, rest
<1>9. CanFall(ds, s, MAX_PASSES, margin)
  BY <1>2, <1>5, <1>7, <1>8, ReachRecursion DEF CanFall
<1>10. PICK x \in heavy, y \in heavy : x # y
  <2>1. IsFiniteSet(heavy)
    <3>1. IsFiniteSet(1..Len(qs))
      BY <1>1, FS_Interval
    <3>2. heavy \subseteq 1..Len(qs)
      BY <1>1
    <3> QED
      BY <3>1, <3>2, FS_Subset
  <2>2. Cardinality(heavy) >= 2
    OBVIOUS
  <2> HIDE DEF heavy
  <2>3. heavy # {}
    BY <2>1, <2>2, FS_EmptySet
  <2>4. PICK x : x \in heavy
    BY <2>3
  <2>5. heavy # {x}
    <3>1. Cardinality({x}) = 1
      BY FS_Singleton
    <3>2. ~(1 >= 2)
      OBVIOUS
    <3> SUFFICES ASSUME heavy = {x} PROVE FALSE
      OBVIOUS
    <3>3. Cardinality(heavy) = 1
      BY <3>1
    <3> QED
      BY <2>2, <3>2, <3>3
  <2>6. PICK y \in heavy : y # x
    BY <2>4, <2>5
  <2> QED
    BY <2>4, <2>6
<1>11. /\ x \in DOMAIN ds /\ y \in DOMAIN ds /\ s # x /\ s # y
       /\ Passes[MAX_PASSES][ds][x] > 0 /\ Passes[MAX_PASSES][ds][y] > 0
  BY <1>1, <1>2, <1>3
<1>12. MAX_PASSES \in 0..MAX_PASSES
  BY OracleAssumption
<1>13. Outweighed(Passes[MAX_PASSES][ds], s)
  BY <1>2, <1>7, <1>9, <1>10, <1>11, <1>12, FallenAfter
<1> QED
  BY <1>3, <1>13

LEMMA SourceIsHeld ==
  ASSUME quotes \in [BasketTokens -> Seq(Quote)], setting \in Setting
  PROVE  OneSourceIsHeld
<1> SUFFICES ASSUME NEW t \in BasketTokens, NEW s \in Found(quotes[t]),
                    Cardinality({i \in Found(quotes[t]) \ {s} :
                                   Weights(quotes[t], Found(quotes[t]))[i] > 0}) >= 2,
                    2 * setting.maxWeightBps < BPS,
                    LET rest == Total([i \in DOMAIN quotes[t] |->
                                  IF i \in Found(quotes[t]) \ {s} THEN quotes[t][i].depth ELSE 0])
                        margin == ((BPS - 2 * setting.maxWeightBps) * rest) \div BPS
                    IN  quotes[t][s].depth < rest + Reach(margin)
             PROVE  LET price == PriceOf(quotes[t]).price
                        others == Found(quotes[t]) \ {s}
                    IN  /\ \E i \in others : price * BPS >=
                             quotes[t][i].price * (BPS - setting.divergenceBps)
                        /\ \E i \in others : price * BPS <=
                             quotes[t][i].price * (BPS + setting.divergenceBps)
  BY DEF OneSourceIsHeld
<1> DEFINE qs == quotes[t]
           found == Found(qs)
           others == found \ {s}
           kept == Agreeing(qs, found)
           prov == Median(qs, found, Weights(qs, found))
           price == PriceOf(qs).price
<1>1. Priceable(qs, found)
  BY DEF Found, Priceable
<1>2. Outweighed(Weights(qs, found), s)
  BY <1>1, InReachIsOutweighed
<1>3. others # {}
  <2> DEFINE heavy == {i \in others : Weights(qs, found)[i] > 0}
  <2>1. Cardinality(heavy) >= 2
    OBVIOUS
  <2>2. heavy # {}
    <3> HIDE DEF heavy
    <3> SUFFICES ASSUME heavy = {} PROVE FALSE
      OBVIOUS
    <3>1. Cardinality(heavy) = 0
      BY FS_EmptySet
    <3>2. ~(0 >= 2)
      OBVIOUS
    <3> QED
      BY <2>1, <3>1, <3>2
  <2> QED
    BY <2>2
<1>4. PICK low \in others, high \in others : qs[low].price <= prov /\ prov <= qs[high].price
  <2>1. (\E i \in others : qs[i].price <= prov) /\ \E i \in others : qs[i].price >= prov
    BY <1>1, <1>2, <1>3, MedianBetween
  <2>2. prov \in Nat /\ \A i \in others : qs[i].price \in Nat
    <3>1. \A i \in found : qs[i].price \in Nat
      BY <1>1, QuoteFields DEF Priceable
    <3>2. \E i \in found : prov = qs[i].price
      BY <1>1, MedianIsOfASource
    <3> HIDE DEF prov, found
    <3> QED
      BY <3>1, <3>2
  <2> HIDE DEF others, prov
  <2> QED
    BY <2>1, <2>2
<1>5. Priceable(qs, kept)
  BY <1>1, SomeSourceAgrees
<1>6. price = Median(qs, kept, Weights(qs, kept))
  BY DEF PriceOf
<1>7. PICK i \in kept : price = qs[i].price
  BY <1>5, <1>6, MedianIsOfASource
<1>8. Apart(price, prov) * BPS <= setting.divergenceBps * prov /\ kept \subseteq found
  BY <1>7 DEF Agreeing
<1>9. /\ prov \in Nat /\ price \in Nat /\ qs[low].price \in Nat /\ qs[high].price \in Nat
      /\ setting.divergenceBps \in Nat
  <2>1. qs \in Seq(Quote) /\ found \subseteq DOMAIN qs /\ kept \subseteq DOMAIN qs
    BY <1>1, <1>5 DEF Priceable
  <2>2. \A v \in DOMAIN qs : qs[v].price \in Nat
    BY <2>1, QuoteFields
  <2>3. prov \in Nat
    BY <1>1, <2>1, <2>2, MedianIsOfASource
  <2>4. setting.divergenceBps \in Nat
    BY DEF Setting
  <2> HIDE DEF price, prov, kept, found
  <2> QED
    BY <1>7, <2>1, <2>2, <2>3, <2>4
<1> HIDE DEF price, prov, kept, found
<1> DEFINE lowest == qs[low].price
           highest == qs[high].price
           band == setting.divergenceBps
<1>10. /\ prov \in Nat /\ price \in Nat /\ lowest \in Nat /\ highest \in Nat /\ band \in Nat
       /\ lowest <= prov /\ prov <= highest /\ Apart(price, prov) * BPS <= band * prov
  BY <1>4, <1>8, <1>9
<1> HIDE DEF lowest, highest, band
<1>11. price * BPS >= lowest * (BPS - band) /\ price * BPS <= highest * (BPS + band)
  BY <1>10, WithinTheBand
<1>12. /\ price * BPS >= qs[low].price * (BPS - setting.divergenceBps)
       /\ price * BPS <= qs[high].price * (BPS + setting.divergenceBps)
  BY <1>11 DEF lowest, highest, band
<1> QED
  BY <1>12 DEF price, found

(* No single source moves the price out of the divergence band of what the *)
(* others say: whatever it answers, for every basket, every aggregator     *)
(* parameter and every number of passes, as long as two of the others keep *)
(* some weight and it is not deeper than the passes reach                  *)
(* (PriceAggregator.sol 12-14, 202-244).                                   *)
THEOREM NoSourceDecides == OracleSpec => []OneSourceIsHeld
<1>1. OracleInit => SourcesInv
  <2>1. <<>> \in Seq(Quote)
    OBVIOUS
  <2> QED
    BY <2>1, OracleAssumption DEF OracleInit, SourcesInv
<1>2. SourcesInv /\ [OracleNext]_oracleVars => SourcesInv'
  BY SourcesStay
<1>3. SourcesInv => OneSourceIsHeld
  BY SourceIsHeld DEF SourcesInv
<1> QED
  BY <1>1, <1>2, <1>3, PTL DEF OracleSpec
=============================================================================
