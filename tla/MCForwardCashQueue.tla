------------------------- MODULE MCForwardCashQueue -------------------------
(***************************************************************************)
(* Small instances of the cash queue.  One share is worth about one unit   *)
(* of stablecoin, WAD = 2 keeps the fixed-point division visible, BPS = 4  *)
(* makes the spread a quarter and a capacity step a quarter of the supply. *)
(***************************************************************************)
EXTENDS ForwardCashQueue, TLC

CONSTANTS alice, bob, queue, ap, treasury, keeperModule, keeperBot, market

MCUsers == {alice, bob}

MCInitCash == [a \in Accounts |-> CASE a \in Users -> 3 [] a = AP -> 4 [] OTHER -> 0]

MCInitShares ==
  [a \in Accounts |-> CASE a \in Users -> 3 [] a = KeeperModule -> 1 [] OTHER -> 0]

MCGate == [minNPrints |-> 2, twapBandBps |-> 2, pegBandBps |-> 1, pegMaxAge |-> 1]

MCGates == {MCGate}

(* Configured for a market with a spread, a capacity and a tip.              *)
MCConfigured == [cutoffDelay |-> 1, spreadBps |-> 1, maxCreateFlowBps |-> 2,
                 keeperTip |-> 1, gate |-> MCGate, g1Set |-> TRUE]

(* As the constructor leaves it, but for the capacity.                       *)
MCDeployed == [Constructed EXCEPT !.maxCreateFlowBps = 2, !.keeperTip = 1]

MCNotExecutor == [isExecutor |-> FALSE, maxRewardPerCall |-> 0]

MCExecutor == [isExecutor |-> TRUE, maxRewardPerCall |-> 0]

(* A reading that can pass the gate, at a basket value of nav.               *)
Fine(nav) == [held |-> TRUE, sources |-> TRUE, open |-> TRUE, safe |-> TRUE,
              nav |-> nav, twap |-> 2, count |-> 2, peg |-> 4, pegAge |-> 0]

MCReadings == {Fine(4), Fine(7)}

(* One reading per way the gate can refuse.                                  *)
MCRefused ==
  {[Fine(4) EXCEPT !.held = FALSE], [Fine(4) EXCEPT !.sources = FALSE],
   [Fine(4) EXCEPT !.open = FALSE], [Fine(4) EXCEPT !.safe = FALSE],
   [Fine(4) EXCEPT !.count = 1], [Fine(4) EXCEPT !.twap = 9],
   [Fine(4) EXCEPT !.peg = 2], [Fine(4) EXCEPT !.pegAge = -1],
   [Fine(4) EXCEPT !.pegAge = 2]}

MCNoAccruals == {NoAccrual}

MCAccruals == {NoAccrual, [keeper |-> 1, others |-> 0]}

MCUnderpay == {-1, 0}

MCOverpay == {-1, 0, 1}

MCAnyReading == {Fine(4)} \cup MCRefused

Symmetry == Permutations(MCUsers)
=============================================================================
