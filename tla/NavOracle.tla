----------------------------- MODULE NavOracle -----------------------------
(***************************************************************************)
(* Pricing a vault's holdings on chain: the aggregator that makes one      *)
(* price of the sources registered for a token (L4 PriceAggregator), the   *)
(* value of the holdings at those prices (L4 FairValueNAV), and the        *)
(* observers whose time-weighted averages the settle gate and the          *)
(* rebalance guard consult (L5 BasketNavObserver, L3 RebalanceObserver).   *)
(*                                                                         *)
(* What a source answers is an input: it may be anything, at any time.     *)
(* The two observers differ in what they sample only, so a behaviour       *)
(* watches one of them.                                                    *)
(***************************************************************************)
EXTENDS Integers, Sequences, FiniteSets, Totals

CONSTANTS
  Basket,         \* the tokens the vault holds, in its order
  Balance,        \* [token -> what it holds of it]
  Supply,         \* the vault's shares
  Quotes,         \* [token -> what a source of it may answer]
  HeldLists,      \* the lists of held tokens a caller of record brings
  MaxSources,     \* [token -> how many sources it may get]
  Settings,       \* the parameters the owner may set
  Defaults,       \* those the constructor sets
  Windows,        \* the windows consulted
  MAX_PASSES,     \* how often the weights are capped: 20 in the code
  BPS, UNIT,      \* 10000 and 1e18 in the code
  MaxBlockTime    \* bound on the time

BasketTokens == {Basket[i] : i \in DOMAIN Basket}

(* An age is negative when the source's clock is ahead of the block's.     *)
Quote == [healthy : BOOLEAN, price : Nat, depth : Nat, age : Int, weekendAware : BOOLEAN]
Setting == [maxWeightBps : Nat, divergenceBps : Nat, staleHorizon : Nat, dMin : Nat,
            wDisp : Nat, wDepth : Nat, wStale : Nat, maxSafeBandBps : Nat, minSafeSources : Nat]

ASSUME OracleAssumption ==
  /\ Basket \in Seq(BasketTokens) /\ Basket # <<>>
  /\ \A i, j \in DOMAIN Basket : Basket[i] = Basket[j] => i = j
  /\ Balance \in [BasketTokens -> Nat] /\ Supply \in Nat \ {0}
  /\ HeldLists \subseteq Seq(BasketTokens)
  /\ Quotes \in [BasketTokens -> SUBSET Quote]
  /\ MaxSources \in [BasketTokens -> Nat]
  /\ Defaults \in Setting /\ Settings \subseteq Setting
  /\ Windows \subseteq Nat
  /\ MAX_PASSES \in Nat /\ BPS \in Nat \ {0} /\ UNIT \in Nat \ {0}
  /\ MaxBlockTime \in Nat

VARIABLES
  setting,     \* the aggregator's parameters
  quotes,      \* [token -> what each of its sources answers]
  watched,     \* the observer: "basket", or "asset" for the first token's
  obs,         \* its observations: [ts, cumulative]
  samples,     \* history: what each observation but the first sampled
  blockTime

oracleVars == <<setting, quotes, watched, obs, samples, blockTime>>

Unhealthy == [healthy |-> FALSE, price |-> 0, depth |-> 0, age |-> 0, weekendAware |-> FALSE]

OracleInit ==
  /\ setting = Defaults
  /\ quotes = [t \in BasketTokens |-> <<>>]
  /\ watched \in {"basket", "asset"}
  /\ obs = <<>> /\ samples = <<>>
  /\ blockTime = 0

-----------------------------------------------------------------------------
(* The aggregator: PriceAggregator.priceOf                                 *)

Smaller(a, b) == IF a <= b THEN a ELSE b
Apart(a, b) == IF a >= b THEN a - b ELSE b - a

Survives(q) == q.healthy /\ q.price # 0 /\ q.age <= setting.staleHorizon

Cap(depths) == (Total(depths) * setting.maxWeightBps) \div BPS

(* SubSeq takes all of it: TLC then computes the sequence once.            *)
Lowered(depths) ==
  LET cap == Cap(depths)
  IN  SubSeq([i \in DOMAIN depths |-> Smaller(depths[i], cap)], 1, Len(depths))

Balanced(depths) ==
  LET cap == Cap(depths)
  IN  \A i \in DOMAIN depths : depths[i] <= cap

(* What so many passes make of some depths; one that changes nothing is    *)
(* the last.                                                               *)
Passes ==
  LET after[k \in 0..MAX_PASSES] ==
        IF k = 0 THEN [ds \in Seq(Nat) |-> ds]
        ELSE [ds \in Seq(Nat) |-> IF Balanced(ds) THEN ds ELSE after[k - 1][Lowered(ds)]]
  IN  after

CappedOnce(depths) == Lowered(depths)

(* No source keeps more than its share of the total, once the passes have  *)
(* got there: a depth comes down by the share with each of them.           *)
Capped(depths) == Passes[MAX_PASSES][depths]

(* The capped depths of the sources in S, and nothing for the others.      *)
Weights(qs, S) == Capped([i \in DOMAIN qs |-> IF i \in S THEN qs[i].depth ELSE 0])

(* The least price of S at which half of the weight is reached: the sort   *)
(* and the running sum of the code find the same.                          *)
Median(qs, S, weights) ==
  LET Below(price) == Total([i \in DOMAIN qs |-> IF qs[i].price <= price THEN weights[i] ELSE 0])
      reached == {p \in {qs[i].price : i \in S} : Below(p) * 2 >= Total(weights)}
  IN  CHOOSE p \in reached : \A other \in reached : p <= other

(* _band: dispersion, missing depth and age, in basis points of the price. *)
(* The depths it reads are the capped ones _weightedMedian left behind.    *)
BandBps(qs, weights, med, oldest) ==
  LET total == Total(weights)
      away == Total([i \in DOMAIN qs |-> Apart(qs[i].price, med) * weights[i]])
      dispersion == IF total = 0 THEN 0 ELSE (away * BPS) \div (total * med)
      shallow == IF total >= setting.dMin THEN 0 ELSE ((setting.dMin - total) * BPS) \div setting.dMin
      stale == IF setting.staleHorizon = 0 \/ oldest <= 0 THEN 0
               ELSE Smaller((oldest * BPS) \div setting.staleHorizon, BPS)
  IN  (setting.wDisp * dispersion + setting.wDepth * shallow + setting.wStale * stale) \div BPS

Oldest(qs, S) == CHOOSE a \in {qs[i].age : i \in S} : \A i \in S : qs[i].age <= a

Found(qs) == {i \in DOMAIN qs : Survives(qs[i])}

(* The survivors within the divergence band of the provisional median.     *)
Agreeing(qs, S) ==
  LET med == Median(qs, S, Weights(qs, S))
  IN  {i \in S : Apart(qs[i].price, med) * BPS <= setting.divergenceBps * med}

PriceOf(qs) ==
  LET found == Found(qs)
      kept == Agreeing(qs, found)
      weights == Weights(qs, kept)
      med == Median(qs, kept, weights)
      band == (med * BandBps(qs, weights, med, Oldest(qs, found))) \div BPS
  IN  IF found = {}
        THEN [price |-> 0, status |-> "Unknown", safe |-> FALSE]
        ELSE [price |-> med,
              status |-> IF \E i \in found : ~qs[i].weekendAware THEN "Open" ELSE "Closed",
              safe |-> /\ Cardinality(kept) >= setting.minSafeSources
                       /\ (band * BPS) \div med <= setting.maxSafeBandBps]

-----------------------------------------------------------------------------
(* The value of the holdings: FairValueNAV.navOfHoldings                   *)

(* The tokens are the caller's: nothing compares them with the basket, and *)
(* of none of them the value is zero, open and safe.                       *)
NavOfHoldings(tokens) ==
  LET Leg(i) == PriceOf(quotes[tokens[i]])
  IN  [nav |-> Total([i \in DOMAIN tokens |-> (Balance[tokens[i]] * Leg(i).price) \div UNIT]),
       open |-> \A i \in DOMAIN tokens : Leg(i).status = "Open",
       safe |-> \A i \in DOMAIN tokens : Leg(i).safe]

-----------------------------------------------------------------------------
(* The aggregator's owner, the sources and the time                        *)

AddSource(t) ==
  /\ Len(quotes[t]) < MaxSources[t]
  /\ quotes' = [quotes EXCEPT ![t] = Append(@, Unhealthy)]
  /\ UNCHANGED <<setting, watched, obs, samples, blockTime>>

SetParams(s) ==
  /\ setting' = s
  /\ UNCHANGED <<quotes, watched, obs, samples, blockTime>>

SourceAnswers(t, i, q) ==
  /\ i \in DOMAIN quotes[t]
  /\ quotes' = [quotes EXCEPT ![t][i] = q]
  /\ UNCHANGED <<setting, watched, obs, samples, blockTime>>

TimePasses ==
  /\ blockTime < MaxBlockTime
  /\ blockTime' = blockTime + 1
  /\ UNCHANGED <<setting, quotes, watched, obs, samples>>

-----------------------------------------------------------------------------
(* The observers: record and consult                                       *)

(* The basket's observer takes no estimate; the asset's takes any price.   *)
Sampled(tokens) ==
  IF watched = "asset" THEN {PriceOf(quotes[Basket[1]]).price}
  ELSE LET r == NavOfHoldings(tokens)
       IN  IF r.open /\ r.safe THEN {(r.nav * UNIT) \div Supply} ELSE {}

Priced(tokens) ==
  \A t \in (IF watched = "asset" THEN {Basket[1]} ELSE {tokens[i] : i \in DOMAIN tokens}) :
    quotes[t] # <<>>

RecordTwiceInABlock(sample) ==
  LET last == obs[Len(obs)]
      dt == blockTime - last.ts
  IN  IF obs = <<>>
        THEN /\ obs' = <<[ts |-> blockTime, cumulative |-> 0]>>
             /\ samples' = <<0>>
        ELSE /\ obs' = Append(obs, [ts |-> blockTime, cumulative |-> last.cumulative + sample * dt])
             /\ samples' = Append(samples, sample)

(* The first observation only starts the clock; an interval is weighed     *)
(* with the sample at its end.                                             *)
Observe(sample) ==
  LET last == obs[Len(obs)]
      dt == blockTime - last.ts
  IN  IF obs = <<>>
        THEN /\ obs' = <<[ts |-> blockTime, cumulative |-> 0]>>
             /\ samples' = <<0>>
        ELSE /\ dt # 0
             /\ obs' = Append(obs, [ts |-> blockTime, cumulative |-> last.cumulative + sample * dt])
             /\ samples' = Append(samples, sample)

(* A poke: it reverts without sources, and does nothing without a sample   *)
(* or in the block of the last observation.                                *)
Record ==
  /\ \E tokens \in HeldLists :
       /\ Priced(tokens)
       /\ \E sample \in Sampled(tokens) : Observe(sample)
  /\ UNCHANGED <<setting, quotes, watched, blockTime>>

Cutoff(window) == IF blockTime > window THEN blockTime - window ELSE 0

(* The first observation in the window, or the last of all.                *)
StartOf(window) ==
  LET inside == {i \in DOMAIN obs : obs[i].ts >= Cutoff(window)}
  IN  IF inside = {} THEN Len(obs) ELSE CHOOSE i \in inside : \A j \in inside : i <= j

(* consult reverts when the window spans no time.                          *)
Consults(window) == Len(obs) >= 2 /\ obs[Len(obs)].ts > obs[StartOf(window)].ts

Consult(window) ==
  LET start == obs[StartOf(window)]
      last == obs[Len(obs)]
  IN  [twap |-> (last.cumulative - start.cumulative) \div (last.ts - start.ts),
       count |-> Len(obs) - StartOf(window) + 1]

OracleNext ==
  \/ \E t \in BasketTokens : AddSource(t)
  \/ \E s \in Settings : SetParams(s)
  \/ \E t \in BasketTokens : \E i \in DOMAIN quotes[t], q \in Quotes[t] : SourceAnswers(t, i, q)
  \/ TimePasses
  \/ Record

OracleSpec == OracleInit /\ [][OracleNext]_oracleVars

-----------------------------------------------------------------------------
(* Properties                                                              *)

(* How far above the other depths together the passes bring a depth below  *)
(* them from: each takes off half of what it is above, and the margin.     *)
Reach(margin) ==
  LET reach[k \in 0..MAX_PASSES] == IF k = 0 THEN 0 ELSE 2 * (reach[k - 1] + margin)
  IN  reach[MAX_PASSES]

(* Whatever one source answers, it moves the price no further than the     *)
(* divergence band from what the others say, as long as two of them keep   *)
(* some weight, no weight may reach a half, and it is not so deep that the *)
(* passes run out before its weight is down (PriceAggregator.sol 12-14, a  *)
(* fat or manipulated source cannot move the median; the default share of  *)
(* 40% and 20 passes do for a source 400000 times as deep as the others).  *)
OneSourceIsHeld ==
  \A t \in BasketTokens :
    LET qs == quotes[t]
        found == Found(qs)
        price == PriceOf(qs).price
    IN  \A s \in found :
          LET others == found \ {s}
              heavy == {i \in others : Weights(qs, found)[i] > 0}
              rest == Total([i \in DOMAIN qs |-> IF i \in others THEN qs[i].depth ELSE 0])
              margin == ((BPS - 2 * setting.maxWeightBps) * rest) \div BPS
          IN  /\ Cardinality(heavy) >= 2
              /\ 2 * setting.maxWeightBps < BPS
              /\ qs[s].depth < rest + Reach(margin)
              => /\ \E i \in others :
                      price * BPS >= qs[i].price * (BPS - setting.divergenceBps)
                 /\ \E i \in others :
                      price * BPS <= qs[i].price * (BPS + setting.divergenceBps)

(* What consult answers is the average of the samples in its window, each  *)
(* weighed with the time it stands for; it answers exactly when the window *)
(* has two observations; and the count is of those in the window           *)
(* (BasketNavObserver.sol 60-68).                                          *)
TwapIsOfItsWindow ==
  \A window \in Windows :
    LET inside == {i \in DOMAIN obs : obs[i].ts >= blockTime - window}
        first == CHOOSE i \in inside : \A j \in inside : i <= j
        weighed == [k \in 1..(Len(obs) - first) |->
                     samples[first + k] * (obs[first + k].ts - obs[first + k - 1].ts)]
    IN  /\ Consults(window) <=> Cardinality(inside) >= 2
        /\ Consults(window) =>
             Consult(window) = [twap |-> Total(weighed) \div (obs[Len(obs)].ts - obs[first].ts),
                                count |-> Cardinality(inside)]
=============================================================================
