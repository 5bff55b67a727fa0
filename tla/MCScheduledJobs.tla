-------------------------- MODULE MCScheduledJobs --------------------------
(***************************************************************************)
(* The jobs the backend runs for ever: the indexer and the keepers         *)
(* (ForwardSync), the price poll and the NAV (Valuation), and the pokes of *)
(* the on-chain observers (NavOracle).  The groups share nothing the       *)
(* models keep, so a behaviour moves one of them while the others stay at  *)
(* their first state: each is checked on its own.                          *)
(***************************************************************************)
EXTENDS ForwardSync, Valuation, NavOracle

CONSTANTS tA, tB, Jobs

VARIABLE job    \* the group that moves

vars == <<job, syncVars, valuationVars, oracleVars>>

Init ==
  /\ job \in Jobs
  /\ SyncInit /\ ValuationInit /\ OracleInit
  /\ job # "following" => ~live
  /\ job # "pricing" => market = "Regular"
  /\ job # "recording" => watched = "basket"

Following(A) == job = "following" /\ A /\ UNCHANGED <<job, valuationVars, oracleVars>>
Pricing(A) == job = "pricing" /\ A /\ UNCHANGED <<job, syncVars, oracleVars>>
Recording(A) == job = "recording" /\ A /\ UNCHANGED <<job, syncVars, valuationVars>>

Next == Following(SyncNext) \/ Pricing(ValuationNext) \/ Recording(OracleNext)

(* The fairness of ForwardSync; nothing is asked of the pricing or of the  *)
(* recording.                                                              *)
Fairness ==
  /\ WF_vars(Following(TickStep))
  /\ SF_vars(Following(ReadDueTickets(FALSE, Fee))) /\ SF_vars(Following(RecordPass(FALSE)))
  /\ WF_vars(Following(SettleReverts)) /\ SF_vars(Following(SubmitSettle("all")))

Spec == Init /\ [][Next]_vars /\ Fairness

(* A create of the fee and no more, one above it that buys no share, one   *)
(* that can be filled in part, and a redeem.                               *)
MCOrders == {[kind |-> "Create", amount |-> 1], [kind |-> "Create", amount |-> 2],
             [kind |-> "Create", amount |-> 6], [kind |-> "Redeem", amount |-> 1]}
MCHoldings == <<tA, tB>>

(* A shallow source; a deep one whose clock is ahead of the block's; a     *)
(* deep one that quotes through the weekend, far off.  The other token's   *)
(* only source may go stale.                                               *)
SourceAnswer(price, depth, age, weekendAware) ==
  [healthy |-> TRUE, price |-> price, depth |-> depth, age |-> age, weekendAware |-> weekendAware]
MCQuotes ==
  (tA :> {SourceAnswer(100, 10, 0, FALSE), SourceAnswer(101, 1000, -1, FALSE),
          SourceAnswer(150, 1000, 1, TRUE)})
  @@ (tB :> {SourceAnswer(100, 1000, 0, FALSE), SourceAnswer(100, 1000, 2, FALSE)})
MCMaxSources == tA :> 3 @@ tB :> 1
MCBalance == tA :> 1 @@ tB :> 1

(* The whole basket, a part of it and nothing.                             *)
MCHeldLists == {<<tA, tB>>, <<tA>>, <<>>}

(* The constructor's parameters, with the depths and ages scaled down, and *)
(* an aggregator that calls every price safe.                              *)
MCDefaults ==
  [maxWeightBps |-> 4000, divergenceBps |-> 200, staleHorizon |-> 1, dMin |-> 1000,
   wDisp |-> 10000, wDepth |-> 10000, wStale |-> 10000, maxSafeBandBps |-> 500,
   minSafeSources |-> 2]
MCSettings ==
  {[MCDefaults EXCEPT !.wDisp = 0, !.wDepth = 0, !.wStale = 0, !.maxSafeBandBps = 10000,
                      !.minSafeSources = 1]}
=============================================================================
