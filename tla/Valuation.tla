----------------------------- MODULE Valuation -----------------------------
(***************************************************************************)
(* Pricing a basket off chain: the router that takes the first source that *)
(* answers, the poll that stores what it answers as price snapshots, the   *)
(* last-close source that answers from those snapshots when nothing else   *)
(* does, and the NAV that is the sum of such readings.                     *)
(*                                                                         *)
(* A price is where it came from and when: a live price published then, or *)
(* a zero published then, or the catalog's baseline stored then, or        *)
(* nothing.  Other amounts, confidences and the drift of a closed market   *)
(* are left out.                                                           *)
(*                                                                         *)
(* As the router is wired, Chainlink answers nothing, its sequencer gate   *)
(* guards no source, and the readers of DexTwap and PerpMark are stubs.    *)
(***************************************************************************)
EXTENDS Integers, Sequences

CONSTANTS
  Holdings,       \* the tokens of the basket, in its order
  Catalog,        \* the tokens that have a baseline price
  Stubs,          \* which of DexTwap and PerpMark have a stub for a reader;
                  \* the others answer nothing
  StaleThreshold, \* MarketStatusService.staleThresholdSeconds
  NoPrice,
  MayBeZero,      \* bound: the tokens whose feed may publish a zero
  MaxClock        \* bound on the time

Tokens == {Holdings[i] : i \in DOMAIN Holdings}

ASSUME ValuationAssumption ==
  /\ Holdings \in Seq(Tokens) /\ Catalog \subseteq Tokens
  /\ Stubs \subseteq {"DexTwap", "PerpMark"}
  /\ MayBeZero \subseteq Tokens
  /\ StaleThreshold \in Nat /\ MaxClock \in Nat
  /\ NoPrice \notin [origin : {"live", "zero", "catalog"}, born : Nat]

VARIABLES
  clock,
  market,    \* marketStatusNow()
  pyth,      \* [token -> the price Hermes has for it]
  anchor,    \* [token -> its newest Regular snapshot]
  valuing    \* the NAV being computed: the readings taken so far

valuationVars == <<clock, market, pyth, anchor, valuing>>

Published(origin, born) == [origin |-> origin, born |-> born]
Worthless(price) == price # NoPrice => price.origin = "zero"
NoAnchor == [price |-> NoPrice, time |-> 0]

ValuationInit ==
  /\ clock = 1
  /\ market \in {"Regular", "Closed"}
  /\ pyth = [t \in Tokens |-> NoPrice]
  /\ anchor = [t \in Tokens |-> NoAnchor]
  /\ valuing = <<>>

-----------------------------------------------------------------------------
(* The sources, in SignalRouter's fallback order.  An answer of none means *)
(* the adapter returned undefined or threw.                                *)

Silent == {}
Answer(price, time, status) == {[price |-> price, time |-> time, status |-> status]}

(* A published zero is an answer like any other.                           *)
PythAnswer(t) ==
  IF pyth[t] = NoPrice THEN Silent ELSE Answer(pyth[t], pyth[t].born, market)

StubAnswer(source) ==
  IF source \in Stubs THEN Answer(NoPrice, clock, "Closed") ELSE Silent

LastCloseRestamped(t, reads) ==
  IF anchor[t] = NoAnchor \/ ~reads THEN Silent ELSE Answer(anchor[t].price, clock, market)

(* Open hours give the anchor with its own time, closed ones walk it.  The *)
(* read of the snapshots may throw, take too long or not be tried.         *)
LastCloseAnswer(t, reads) ==
  IF anchor[t] = NoAnchor \/ ~reads THEN Silent
  ELSE Answer(anchor[t].price, IF market = "Regular" THEN anchor[t].time ELSE clock, market)

FallbackOrder(t, reads) ==
  <<PythAnswer(t), StubAnswer("DexTwap"), StubAnswer("PerpMark"), LastCloseAnswer(t, reads)>>

(* MarketStatusService.resolve.                                            *)
Resolve(status, time) ==
  IF status = "Regular" /\ clock - time > StaleThreshold THEN "Unknown" ELSE status

(* SignalRouter.getReading.                                                *)
Reading(t, reads) ==
  LET order == FallbackOrder(t, reads)
      answering == {i \in DOMAIN order : order[i] # Silent}
      first == CHOOSE i \in answering : \A j \in answering : i <= j
      answer == CHOOSE a \in order[first] : TRUE
      status == Resolve(answer.status, answer.time)
  IN  IF answering = {}
        THEN [price |-> NoPrice, time |-> clock, status |-> "Unknown", readAt |-> clock]
        ELSE [price |-> answer.price, time |-> answer.time, status |-> status, readAt |-> clock]

Estimated(reading) == reading.status # "Regular"

-----------------------------------------------------------------------------
(* The market and the feeds                                                *)

ClockTicks ==
  /\ clock < MaxClock
  /\ clock' = clock + 1
  /\ UNCHANGED <<market, pyth, anchor, valuing>>

OpenOrClose ==
  /\ market' \in {"Regular", "Closed"} \ {market}
  /\ UNCHANGED <<clock, pyth, anchor, valuing>>

PythPublishes(t, origin) ==
  /\ origin = "zero" => t \in MayBeZero
  /\ pyth' = [pyth EXCEPT ![t] = Published(origin, clock)]
  /\ UNCHANGED <<clock, market, anchor, valuing>>

PythFails(t) ==
  /\ pyth' = [pyth EXCEPT ![t] = NoPrice]
  /\ UNCHANGED <<clock, market, anchor, valuing>>

-----------------------------------------------------------------------------
(* The poll: SignalPollHandler.run, a token at a time                      *)

(* Of the snapshots only the newest Regular one is ever read again.        *)
Stored(t, price, time) ==
  IF anchor[t] # NoAnchor /\ anchor[t].time > time THEN anchor
  ELSE [anchor EXCEPT ![t] = [price |-> price, time |-> time]]

(* A price is stored with its own time; without one, or for a zero, the    *)
(* catalog's baseline is stored as a Regular price of now.                 *)
StoreReading(t, reads) ==
  LET reading == Reading(t, reads) IN
    /\ ~Worthless(reading.price)
    /\ anchor' = IF Estimated(reading) THEN anchor
                 ELSE Stored(t, reading.price, reading.time)
    /\ UNCHANGED <<clock, market, pyth, valuing>>

SeedBaseline(t, reads) ==
  /\ Worthless(Reading(t, reads).price) /\ t \in Catalog
  /\ anchor' = Stored(t, Published("catalog", clock), clock)
  /\ UNCHANGED <<clock, market, pyth, valuing>>

-----------------------------------------------------------------------------
(* The NAV: NavEngineService.computeFromSignals                            *)

ReadHolding(reads) ==
  /\ Len(valuing) < Len(Holdings)
  /\ valuing' = Append(valuing, Reading(Holdings[Len(valuing) + 1], reads))
  /\ UNCHANGED <<clock, market, pyth, anchor>>

(* The NAV is an estimate when any of its readings is.                     *)
LastIsEstimate(readings) == Estimated(readings[Len(readings)])
NavEstimated(readings) == \E i \in DOMAIN readings : Estimated(readings[i])

(* The NAV is complete; its row is stored, and streamed.                   *)
StoreNav ==
  /\ Len(valuing) = Len(Holdings)
  /\ valuing' = <<>>
  /\ UNCHANGED <<clock, market, pyth, anchor>>

ValuationNext ==
  \/ ClockTicks \/ OpenOrClose
  \/ \E t \in Tokens : PythFails(t) \/ \E origin \in {"live", "zero"} : PythPublishes(t, origin)
  \/ \E t \in Tokens, reads \in BOOLEAN : StoreReading(t, reads) \/ SeedBaseline(t, reads)
  \/ \E reads \in BOOLEAN : ReadHolding(reads)
  \/ StoreNav

ValuationSpec == ValuationInit /\ [][ValuationNext]_valuationVars

-----------------------------------------------------------------------------
(* Properties                                                              *)

(* A NAV that is not marked as an estimate has no price older, counted     *)
(* from its publication and through every snapshot it went by, than the    *)
(* threshold was when it was read, and no holding without a price          *)
(* (nav-engine.service.ts 187, nav-compute.handler.ts 12-13).  A zero that *)
(* Pyth publishes is a price: nothing on the way refuses it.               *)
IronRule ==
  Len(valuing) = Len(Holdings) /\ ~NavEstimated(valuing) =>
    \A i \in DOMAIN valuing :
      /\ valuing[i].price # NoPrice
      /\ valuing[i].readAt - valuing[i].price.born <= StaleThreshold

(* The catalog's baseline is stored only while a token has no anchor at    *)
(* all: from then on the last-close source prices it                       *)
(* (signal-poll.handler.ts 43-44).  The stubs, which are asked before that *)
(* source, break this; so does, without them, a read of it that fails.     *)
SeedsOnlyWithoutAnchor ==
  [][\A t \in Tokens : anchor'[t] # anchor[t] /\ anchor'[t].price = Published("catalog", clock)
                          => anchor[t] = NoAnchor]_valuationVars
=============================================================================
