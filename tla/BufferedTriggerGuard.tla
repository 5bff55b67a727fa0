------------------------ MODULE BufferedTriggerGuard ------------------------
(***************************************************************************)
(* The guard that lets a keeper open a rebalance while markets are closed  *)
(* (L6 BufferedTriggerGuard), with the is-due predicate it asks (L3        *)
(* RebalanceModule).  It opens auctions of RebalanceAuction as one of the  *)
(* allowed openers, after a set of gates, and latches until a keeper shows *)
(* it a drift below the reset band.                                        *)
(*                                                                         *)
(* A reading stands for what the NAV, the aggregator and the sequencer     *)
(* feed answer in the transaction; drift and cardinality are what the      *)
(* keeper says they are, as in the code.                                   *)
(***************************************************************************)
EXTENDS RebalanceAuction

CONSTANTS
  Guard,             \* the guard, as an opener and a holder of shares
  Keepers,
  InitBands,         \* how the rebalance module is deployed
  Readings, Drifts, Cardinalities, Configs, BandSets   \* the inputs

Config == [enabled : BOOLEAN, weekend247 : BOOLEAN, eMaxBps : Nat,
           minDepth : Nat, grace : Nat]
Statuses == {"Open", "Degraded", "Halted", "Closed", "Unknown"}
(* up: the seconds since the sequencer restarted, -1 when it is down; without *)
(* a feed it counts as up for ever.                                         *)
Reading == [nav : Nat, lower : Nat, upper : Nat, status : Statuses,
            up : Nat \cup {-1}, depth : [Tokens -> Nat]]
BandSet == [trigger : Nat, reset : Nat, cooldown : Nat, minCardinality : Nat]

ASSUME GuardAssumption ==
  /\ Guard \in Accounts \ {KeeperEscrow}
  /\ Readings \subseteq Reading
  /\ Configs \subseteq Config
  /\ InitBands \in BandSet /\ InitBands.trigger > InitBands.reset
  /\ BandSets \subseteq BandSet
  /\ Drifts \subseteq Nat /\ Cardinalities \subseteq Nat

VARIABLES
  cfg, isKeeper, latched, lastAction,
  bands,         \* the parameters of the rebalance module
  episode        \* history: when the guard last opened, has it been calm since

guardState == <<cfg, isKeeper, latched, lastAction, bands, episode>>
guardVars == <<vars, auctionState, guardState>>

NoConfig == [enabled |-> FALSE, weekend247 |-> FALSE, eMaxBps |-> 0,
             minDepth |-> 0, grace |-> 0]

GuardTypeOK ==
  /\ AuctionTypeOK
  /\ cfg \in Config
  /\ isKeeper \subseteq Keepers
  /\ latched \in BOOLEAN
  /\ lastAction \in Nat
  /\ bands \in BandSet /\ bands.trigger > bands.reset
  /\ episode \in [opened : Nat, calm : BOOLEAN]

GuardInit ==
  /\ AuctionInit
  /\ cfg = NoConfig
  /\ isKeeper = {}
  /\ latched = FALSE /\ lastAction = 0
  /\ bands = InitBands
  /\ episode = [opened |-> 0, calm |-> TRUE]

-----------------------------------------------------------------------------
(* The gates.                                                               *)

EvaluateNoLatch(drift, cardinality, since) ==
  /\ cardinality >= bands.minCardinality
  /\ since >= bands.cooldown
  /\ drift > bands.trigger

(* RebalanceModule.evaluate.                                                *)
Evaluate(drift, cardinality, since) ==
  /\ cardinality >= bands.minCardinality
  /\ since >= bands.cooldown
  /\ ~latched
  /\ drift > bands.trigger

LatchCleared(drift) == drift < bands.reset

IsUp(r, grace) == r.up >= 0 /\ r.up > grace

CheckNavAndMarket(r) ==
  /\ r.nav # 0
  /\ r.upper >= r.lower
  /\ ((r.upper - r.lower) \div 2) * BPS <= cfg.eMaxBps * r.nav
  /\ r.status = "Closed" \/ (r.status = "Open" /\ cfg.weekend247)
  /\ IsUp(r, cfg.grace)

CheckListingGate(r, heldTokens) == \A t \in heldTokens : r.depth[t] >= cfg.minDepth

CheckTrigger(r, heldTokens, drift, cardinality) ==
  /\ cfg.enabled
  /\ CheckNavAndMarket(r)
  /\ CheckListingGate(r, heldTokens)
  /\ Evaluate(drift, cardinality, now - lastAction)

-----------------------------------------------------------------------------
(* The operations.  heldTokens is what the keeper lists, which nothing      *)
(* compares with the vault's custody set.                                   *)

OpenWeekendRebalance(k, p, r, heldTokens, drift, cardinality) ==
  /\ k \in isKeeper
  /\ CheckTrigger(r, heldTokens, drift, cardinality)
  /\ latched' = TRUE
  /\ lastAction' = now
  /\ Open(Guard, p)
  /\ episode' = [opened |-> now, calm |-> FALSE]
  /\ UNCHANGED <<cfg, isKeeper, bands>>

ClearLatch(k, drift) ==
  /\ k \in isKeeper
  /\ latched' = (latched /\ ~LatchCleared(drift))
  /\ episode' = [episode EXCEPT !.calm = @ \/ drift < bands.reset]
  /\ UNCHANGED <<vars, auctionState, cfg, isKeeper, lastAction, bands>>

(* A new configuration leaves the latch and the last action as they are.    *)
SetVaultCfg(c) ==
  /\ cfg' = [c EXCEPT !.enabled = TRUE]
  /\ UNCHANGED <<vars, auctionState, isKeeper, latched, lastAction, bands, episode>>

SetKeeper(k, allowed) ==
  /\ isKeeper' = IF allowed THEN isKeeper \cup {k} ELSE isKeeper \ {k}
  /\ UNCHANGED <<vars, auctionState, cfg, latched, lastAction, bands, episode>>

SetParamsUnchecked(b) ==
  /\ bands' = b
  /\ UNCHANGED <<vars, auctionState, cfg, isKeeper, latched, lastAction, episode>>

(* The rebalance module's owner.                                            *)
SetParams(b) ==
  /\ b.trigger > b.reset
  /\ bands' = b
  /\ UNCHANGED <<vars, auctionState, cfg, isKeeper, latched, lastAction, episode>>

GuardOperation ==
  \/ \E k \in Keepers :
       \/ \E p \in Plans, r \in Readings, heldTokens \in SUBSET Tokens \ {{}},
             d \in Drifts, n \in Cardinalities :
            OpenWeekendRebalance(k, p, r, heldTokens, d, n)
       \/ \E d \in Drifts : ClearLatch(k, d)
       \/ \E b \in Switches : SetKeeper(k, b)
  \/ \E c \in Configs : SetVaultCfg(c)
  \/ \E b \in BandSets : SetParams(b)

GuardNext ==
  /\ \/ (VaultOperation \/ AuctionOperation) /\ UNCHANGED guardState
     \/ GuardOperation
  /\ \A t \in Tokens : coins'[t] <= MaxCoins

GuardSpec == GuardInit /\ [][GuardNext]_guardVars

-----------------------------------------------------------------------------
(* Properties.                                                              *)

(* The guard opens once per episode of drift: between two auctions it opens *)
(* a keeper has reported a drift below the reset band of the time, and the  *)
(* cooldown of the second has passed, whatever was reconfigured, filled,    *)
(* expired or replaced by somebody else's auction in between.               *)
OncePerEpisode ==
  [][episode'.opened # episode.opened \/ (episode.calm /\ ~episode'.calm) =>
       /\ episode.calm
       /\ episode.opened # 0 => now - episode.opened >= bands.cooldown]_guardVars

(* The tip goes to the keeper ("pays the opener (keeper)", line 22 of the   *)
(* auction; "Keeper was paid a bounded tip from the fee escrow" in the test *)
(* of the guard over the auction): never to the guard, which has no         *)
(* function that moves shares.                                              *)
TipsReachKeepers == shares[Guard] = 0
=============================================================================
