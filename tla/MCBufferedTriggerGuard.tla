----------------------- MODULE MCBufferedTriggerGuard -----------------------
(***************************************************************************)
(* The guard over the instance of MCRebalanceAuction.                      *)
(***************************************************************************)
EXTENDS BufferedTriggerGuard, MCRebalanceAuction

CONSTANTS kim

MCKeepers == {kim}

Read(nav, lower, upper, status, up, depth) ==
  [nav |-> nav, lower |-> lower, upper |-> upper, status |-> status, up |-> up,
   depth |-> [t \in MCTokens |-> depth]]
MCGood == Read(4, 2, 6, "Closed", 2, 1)
MCReadings == {MCGood, Read(0, 0, 0, "Closed", 2, 1), Read(4, 0, 8, "Closed", 2, 1),
               Read(4, 6, 2, "Closed", 2, 1), Read(4, 2, 6, "Open", 2, 1),
               Read(4, 2, 6, "Unknown", 2, 1), Read(4, 2, 6, "Closed", 1, 1),
               Read(4, 2, 6, "Closed", -1, 1), Read(4, 2, 6, "Closed", 2, 0)}
MCGoodReading == {MCGood}

MCWeekend == [enabled |-> TRUE, weekend247 |-> FALSE, eMaxBps |-> 2, minDepth |-> 1, grace |-> 1]
MCWeekdays == [MCWeekend EXCEPT !.weekend247 = TRUE]
MCConfigs == {MCWeekdays}

MCBands == [trigger |-> 2, reset |-> 1, cooldown |-> 1, minCardinality |-> 1]
MCPatient == [MCBands EXCEPT !.cooldown = 2]
MCBandSets == {MCPatient, [MCBands EXCEPT !.reset = 2]}
=============================================================================
