-------------------------- MODULE ForwardCashQueue --------------------------
(***************************************************************************)
(* The forward-priced cash queue in front of a basket vault (L5).          *)
(*                                                                         *)
(* Holders escrow stablecoin (a create ticket) or vault shares (a redeem   *)
(* ticket).  A ticket can be cancelled until its cutoff; from the cutoff   *)
(* on, anybody may settle a batch of tickets against an authorized         *)
(* participant (AP) at one price, the NAV per share that passed the gate.  *)
(* With a capacity set, creates are filled pro rata and the rest of the    *)
(* ticket rolls over.                                                      *)
(*                                                                         *)
(* Every external call is one transaction, hence one action.  A            *)
(* transaction that reverts changes nothing and is not a step.  The vault, *)
(* the oracles and the AP appear as the queue sees them: the share ledger  *)
(* and the flat fees of the vault, the reading the gate gets, the payment  *)
(* the AP makes.  An AP without the constituents makes settle revert.      *)
(***************************************************************************)
EXTENDS Integers, Sequences, FiniteSetsExt, Totals

CONSTANTS
  Users,             \* holders that own tickets
  Queue,             \* the queue's own account
  AP,                \* the authorized participant
  Treasury,          \* receives the flat fees of a registry vault
  KeeperModule,      \* holds the shares keepers are paid from
  Keeper,            \* whoever calls settle
  Market,            \* every other holder of vault shares
  IsRegistry,        \* does the vault have a recipeRoot()?
  UnitSize,          \* a managed vault bootstraps in multiples of it
  BPS,               \* 10_000 in the code
  WAD,               \* 1e18 in the code
  ONE,               \* one unit of the peg feed, 10 ** decimals()
  MAX_SPREAD_BPS, MIN_CUTOFF_DELAY, MAX_CUTOFF_DELAY, FLAT_FEE_MAX,
  InitCash, InitShares, InitSupply,  \* balances at the start
  InitParams, InitKeeper             \* what the owners have set at the start

CONSTANTS            \* the inputs, and the bounds that keep them finite
  Amounts,           \* what a holder may put into a ticket
  Readings,          \* what the gate may be told
  Overpay,           \* how far an AP's payment may miss its obligation
  Accruals,          \* fee shares the vault may mint when settle enters it
  Delays, Executors, Spreads, Capacities, Tips, Gates, MaxRewards, FlatFees,
  MaxTickets, MaxBatch, MaxNow, MaxSupply

ASSUME ScaleAssumption ==
  /\ BPS \in Nat \ {0} /\ WAD \in Nat \ {0} /\ ONE \in Nat \ {0}
  /\ MAX_SPREAD_BPS \in 0..BPS
  /\ MIN_CUTOFF_DELAY \in Nat \ {0}
  /\ MAX_CUTOFF_DELAY \in Nat
  /\ MIN_CUTOFF_DELAY <= MAX_CUTOFF_DELAY
  /\ FLAT_FEE_MAX \in Nat
  /\ IsRegistry \in BOOLEAN /\ UnitSize \in Nat \ {0}

Services == {Queue, AP, Treasury, KeeperModule, Keeper, Market}
Accounts == Users \cup Services

(* No contract of the deployment owns a ticket, and all are different.      *)
ASSUME AccountAssumption ==
  /\ Users \cap Services = {}
  /\ Queue \notin {AP, Treasury, KeeperModule, Keeper, Market}
  /\ AP \notin {Treasury, KeeperModule, Keeper, Market}
  /\ Treasury \notin {KeeperModule, Keeper, Market}
  /\ KeeperModule \notin {Keeper, Market}
  /\ Keeper # Market
  /\ InitCash \in [Accounts -> Nat] /\ InitCash[Queue] = 0
  /\ InitShares \in [Accounts -> Nat] /\ InitShares[Queue] = 0
  /\ InitSupply \in Nat

Pending   == 0
Settled   == 1
Cancelled == 2

Ticket == [owner : Users, isCreate : BOOLEAN, amount : Nat, cutoff : Nat,
           status : {Pending, Settled, Cancelled}]

GateParams == [minNPrints : Nat, twapBandBps : Nat, pegBandBps : Nat,
               pegMaxAge : Nat]

(* What the oracles answer while the gate runs: does the caller's token     *)
(* list equal the vault's and has every token its feeds, the NAV reading,   *)
(* the observer's answer, and the peg feed with the age of its answer,      *)
(* negative when the feed's clock is ahead of the block's.                  *)
Reading == [held : BOOLEAN, sources : BOOLEAN, open : BOOLEAN, safe : BOOLEAN,
            nav : Nat, twap : Nat, count : Nat, peg : Nat, pegAge : Int]

Params == [cutoffDelay : MIN_CUTOFF_DELAY..MAX_CUTOFF_DELAY,
           spreadBps : 0..MAX_SPREAD_BPS, maxCreateFlowBps : 0..BPS,
           keeperTip : Nat, gate : GateParams, g1Set : BOOLEAN]

KeeperParams == [isExecutor : BOOLEAN, maxRewardPerCall : Nat]

(* What the constructor leaves: the shortest delay the code allows stands   *)
(* for its one hour, the gate parameters are zero, no capacity, no tip, and *)
(* the queue is not yet an executor of the keeper module.                   *)
Constructed ==
  [cutoffDelay |-> MIN_CUTOFF_DELAY, spreadBps |-> 0, maxCreateFlowBps |-> 0,
   keeperTip |-> 0,
   gate |-> [minNPrints |-> 0, twapBandBps |-> 0, pegBandBps |-> 0, pegMaxAge |-> 0],
   g1Set |-> FALSE]

ASSUME InputAssumption ==
  /\ InitParams \in Params /\ InitKeeper \in KeeperParams
  /\ Amounts \subseteq Nat
  /\ Readings \subseteq Reading
  /\ Overpay \subseteq Int
  /\ Accruals \subseteq [keeper : Nat, others : Nat]
  /\ Executors \subseteq BOOLEAN
  /\ Delays \subseteq Nat /\ Spreads \subseteq Nat /\ Capacities \subseteq Nat
  /\ Tips \subseteq Nat /\ Gates \subseteq GateParams
  /\ MaxRewards \subseteq Nat /\ FlatFees \subseteq Nat
  /\ MaxTickets \in Nat /\ MaxBatch \in Nat /\ MaxNow \in Nat /\ MaxSupply \in Nat

VARIABLES
  tickets,    \* sequence of tickets; an id is a position in it
  cash,       \* stablecoin balance of every account
  shares,     \* vault-share balance of every account
  supply,     \* totalSupply() of the vault
  fees,       \* the vault's flat create and redeem fees
  params,     \* what the queue's owner has set
  keeper,     \* what the keeper module's owner has set
  now,        \* block.timestamp
  deposits,   \* history: the amount each ticket was opened with
  surplus     \* history: stablecoin APs paid the queue beyond their obligation

ledger == <<cash, shares, supply>>
config == <<fees, params, keeper>>
history == <<deposits, surplus>>
vars == <<tickets, ledger, config, now, history>>

TypeOK ==
  /\ tickets \in Seq(Ticket)
  /\ cash \in [Accounts -> Nat]
  /\ shares \in [Accounts -> Nat]
  /\ supply \in Nat
  /\ fees \in [create : 0..FLAT_FEE_MAX, redeem : 0..FLAT_FEE_MAX]
  /\ params \in Params
  /\ keeper \in KeeperParams
  /\ now \in Nat
  /\ deposits \in Seq(Nat)
  /\ Len(deposits) = Len(tickets)
  /\ surplus \in Nat

(* An empty queue, as its constructor leaves it or as its owner has         *)
(* configured it before the first ticket.                                   *)
Init ==
  /\ tickets = << >>
  /\ cash = InitCash
  /\ shares = InitShares
  /\ supply = InitSupply
  /\ fees = [create |-> 0, redeem |-> 0]
  /\ params = InitParams
  /\ keeper = InitKeeper
  /\ now = 0
  /\ deposits = << >>
  /\ surplus = 0

-----------------------------------------------------------------------------
(* Tickets: request and cancel.                                             *)

Least(a, b) == IF a <= b THEN a ELSE b
Distance(a, b) == IF a >= b THEN a - b ELSE b - a

(* The balances after amt moves from one account to another.                *)
Transfer(bal, from, to, amt) ==
  [bal EXCEPT ![from] = @ - amt, ![to] = @ + amt]

OpenTicket(u, create, amt) ==
  /\ Len(tickets) < MaxTickets
  /\ tickets' = Append(tickets,
       [owner |-> u, isCreate |-> create, amount |-> amt,
        cutoff |-> now + params.cutoffDelay, status |-> Pending])
  /\ deposits' = Append(deposits, amt)
  /\ UNCHANGED <<supply, config, now, surplus>>

RequestCreate(u, amt) ==
  /\ amt > 0
  /\ supply > 0
  /\ cash[u] >= amt
  /\ cash' = Transfer(cash, u, Queue, amt)
  /\ OpenTicket(u, TRUE, amt)
  /\ UNCHANGED shares

RequestRedeem(u, amt) ==
  /\ amt > 0
  /\ shares[u] >= amt
  /\ shares' = Transfer(shares, u, Queue, amt)
  /\ OpenTicket(u, FALSE, amt)
  /\ UNCHANGED cash

CancellableAfterCutoff(t) == t.status = Pending

Cancellable(t) == t.status = Pending /\ now < t.cutoff

Cancel(u, id) ==
  LET t == tickets[id] IN
  /\ t.owner = u
  /\ Cancellable(t)
  /\ tickets' = [tickets EXCEPT ![id].status = Cancelled]
  /\ IF t.isCreate
       THEN /\ cash[Queue] >= t.amount
            /\ cash' = Transfer(cash, Queue, u, t.amount)
            /\ UNCHANGED shares
       ELSE /\ shares[Queue] >= t.amount
            /\ shares' = Transfer(shares, Queue, u, t.amount)
            /\ UNCHANGED cash
  /\ UNCHANGED <<supply, config, now, history>>

-----------------------------------------------------------------------------
(* The settle gate.                                                         *)

NavPerShare(r) == (r.nav * WAD) \div supply

PegHolds(r) ==
  /\ r.pegAge >= 0 /\ r.pegAge <= params.gate.pegMaxAge
  /\ Distance(r.peg, ONE) * BPS <= params.gate.pegBandBps * ONE

GatePasses(r) ==
  /\ r.held
  /\ params.g1Set /\ r.sources
  /\ r.open /\ r.safe
  /\ supply > 0
  /\ r.count >= params.gate.minNPrints
  /\ Distance(NavPerShare(r), r.twap) * BPS <= params.gate.twapBandBps * r.twap
  /\ PegHolds(r)

-----------------------------------------------------------------------------
(* Settling one ticket.  b is the state of the batch so far, x what holds   *)
(* for the whole batch: price, capacity, demand, the AP's deviation and the *)
(* fee shares the vault mints when the batch first enters it.               *)

DueBeforeCutoff(t) == t.status = Pending

Due(t) == t.status = Pending /\ now >= t.cutoff

NetOfSpread(amt) == (amt * (BPS - params.spreadBps)) \div BPS

CreateFee == IF IsRegistry THEN fees.create ELSE 0

SharesFor(amt, price) == (NetOfSpread(amt) * WAD) \div price

CashFor(amt, price) == NetOfSpread((amt * price) \div WAD)

FillCash(t, x) ==
  IF x.capShares >= x.demand \/ x.demand = 0
    THEN t.amount
    ELSE (t.amount * x.capShares) \div x.demand

RolledWithStaleCutoff(t, left) == [t EXCEPT !.amount = left]

(* The ticket after a slice too thin to fill, or after a partial fill.      *)
Rolled(t, left) == [t EXCEPT !.amount = left, !.cutoff = now + params.cutoffDelay]

AfterFillForgotten(t, fill) ==
  IF fill = t.amount THEN [t EXCEPT !.status = Settled]
                     ELSE Rolled(t, t.amount)

AfterFill(t, fill) ==
  IF fill = t.amount THEN [t EXCEPT !.status = Settled]
                     ELSE Rolled(t, t.amount - fill)

NoAccrual == [keeper |-> 0, others |-> 0]

(* The vault accrues its fees before it mints or burns; a second accrual in *)
(* the same block mints nothing.                                            *)
Accrued(b, x) ==
  IF b.worked THEN b
  ELSE [b EXCEPT !.shares[KeeperModule] = @ + x.accrual.keeper,
                 !.shares[Market] = @ + x.accrual.others,
                 !.supply = @ + x.accrual.keeper + x.accrual.others]

(* A managed vault pulls its flat create fee from the caller, the queue,     *)
(* which allows it nothing.  An earlier redeem of the batch may have emptied *)
(* the vault: a managed vault then bootstraps, a registry vault refuses.     *)
VaultMints(b, n) ==
  /\ ~IsRegistry => fees.create = 0
  /\ b.supply = 0 => ~IsRegistry /\ n % UnitSize = 0

DeferAsWork(b, id) ==
  [b EXCEPT !.tickets[id] = Rolled(@, @.amount), !.worked = TRUE]

Defer(b, id) == [b EXCEPT !.tickets[id] = Rolled(@, @.amount)]

FillCreate(b, id, x) ==
  LET t == b.tickets[id]
      fill == FillCash(t, x)
      toAP == fill - CreateFee
      n == SharesFor(toAP, x.price)
  IN [b EXCEPT
       !.ok = /\ IsRegistry => fill > CreateFee
              /\ x.price > 0
              /\ n > 0
              /\ VaultMints(b, n)
              /\ b.cash[Queue] >= fill,
       !.tickets[id] = AfterFill(t, fill),
       !.cash = Transfer(Transfer(@, Queue, AP, toAP), Queue, Treasury, CreateFee),
       !.shares[t.owner] = @ + n,
       !.supply = @ + n,
       !.worked = TRUE]

RedeemAllowedUnderpaid(b, t, owed, paid) ==
  /\ b.shares[Queue] >= t.amount /\ b.supply >= t.amount /\ b.cash[AP] >= paid

(* The AP must pay in full, out of what it has; the vault burns the shares  *)
(* in escrow, and totalSupply() bounds every balance.                       *)
RedeemAllowed(b, t, owed, paid) ==
  /\ b.shares[Queue] >= t.amount
  /\ b.supply >= t.amount
  /\ paid >= owed
  /\ b.cash[AP] >= paid

(* On a managed vault the AP pays the holder; on a registry vault it pays   *)
(* the queue, which passes on what was owed, less the flat fee.             *)
FillRedeem(b, id, x) ==
  LET t == b.tickets[id]
      owed == CashFor(t.amount, x.price)
      paid == owed + x.overpay
      fee == Least(fees.redeem, owed)
  IN [b EXCEPT
       !.ok = RedeemAllowed(b, t, owed, paid),
       !.tickets[id].status = Settled,
       !.shares[Queue] = @ - t.amount,
       !.supply = @ - t.amount,
       !.cash = IF IsRegistry
                  THEN Transfer(Transfer(Transfer(@, AP, Queue, paid),
                         Queue, Treasury, fee), Queue, t.owner, owed - fee)
                  ELSE Transfer(@, AP, t.owner, paid),
       !.surplus = IF IsRegistry THEN @ + x.overpay ELSE @,
       !.worked = TRUE]

SettleOneAtCurrentSupply(b, id, x) ==
  LET t == b.tickets[id]
      y == [x EXCEPT !.capShares = (b.supply * params.maxCreateFlowBps) \div BPS]
  IN IF ~b.ok \/ ~Due(t) THEN b
     ELSE IF ~t.isCreate THEN FillRedeem(Accrued(b, y), id, y)
     ELSE IF FillCash(t, y) = 0 THEN Defer(b, id)
     ELSE FillCreate(Accrued(b, y), id, y)

SettleOne(b, id, x) ==
  LET t == b.tickets[id] IN
  IF ~b.ok \/ ~Due(t) THEN b
  ELSE IF ~t.isCreate THEN FillRedeem(Accrued(b, x), id, x)
  ELSE IF FillCash(t, x) = 0 THEN Defer(b, id)
  ELSE FillCreate(Accrued(b, x), id, x)

Start == [ok |-> TRUE, worked |-> FALSE, tickets |-> tickets, cash |-> cash,
          shares |-> shares, supply |-> supply, surplus |-> surplus]

(* Batches(ids, x)[k] is the batch after its first k ids.                    *)
Batches(ids, x) ==
  LET b[k \in 0..Len(ids)] ==
        IF k = 0 THEN Start ELSE SettleOne(b[k - 1], ids[k], x)
  IN b

Run(ids, x) == Batches(ids, x)[Len(ids)]

FillableCreate(id) == Due(tickets[id]) /\ tickets[id].isCreate

(* Shares the due creates of a batch ask for, an id counted as often as it   *)
(* is listed.                                                                *)
Demand(ids, price) ==
  Total([k \in DOMAIN ids |->
           IF FillableCreate(ids[k]) THEN SharesFor(tickets[ids[k]].amount, price)
                                     ELSE 0])

Capacity == (supply * params.maxCreateFlowBps) \div BPS

Capped == params.maxCreateFlowBps > 0

TermsAtTwap(ids, r, extra, accrual) ==
  [price |-> r.twap, overpay |-> extra, accrual |-> accrual, capShares |-> Capacity,
   demand |-> IF Capped THEN Demand(ids, r.twap) ELSE 0]

Terms(ids, r, extra, accrual) ==
  [price |-> NavPerShare(r), overpay |-> extra, accrual |-> accrual,
   capShares |-> Capacity,
   demand |-> IF Capped THEN Demand(ids, NavPerShare(r)) ELSE 0]

TipUnclamped(escrow) == params.keeperTip

Tip(escrow) ==
  LET wanted == Least(params.keeperTip, escrow)
  IN IF keeper.maxRewardPerCall = 0
       THEN wanted ELSE Least(wanted, keeper.maxRewardPerCall)

Settle(ids, r, extra, accrual) ==
  LET x == Terms(ids, r, extra, accrual)
      b == Run(ids, x)
  IN /\ GatePasses(r)
     /\ Capped /\ (\E k \in DOMAIN ids : FillableCreate(ids[k])) => x.price > 0
     /\ b.ok
     /\ b.worked => keeper.isExecutor
     /\ tickets' = b.tickets
     /\ cash' = b.cash
     /\ supply' = b.supply
     /\ shares' = IF b.worked
                    THEN Transfer(b.shares, KeeperModule, Keeper,
                                  Tip(b.shares[KeeperModule]))
                    ELSE b.shares
     /\ surplus' = b.surplus
     /\ UNCHANGED <<config, now, deposits>>

-----------------------------------------------------------------------------
(* The owner's setters, the keeper module's owner, and the vault's manager. *)

SetParams(field, val) ==
  /\ params' = [params EXCEPT ![field] = val]
  /\ UNCHANGED <<tickets, ledger, fees, keeper, now, history>>

SetCutoffDelay(d) ==
  /\ d >= MIN_CUTOFF_DELAY /\ d <= MAX_CUTOFF_DELAY
  /\ SetParams("cutoffDelay", d)

SetSpreadBps(b) ==
  /\ b <= MAX_SPREAD_BPS
  /\ SetParams("spreadBps", b)

SetCapacity(b) ==
  /\ b <= BPS
  /\ SetParams("maxCreateFlowBps", b)

SetKeeperTip(t) == SetParams("keeperTip", t)

SetGateParams(g) == SetParams("gate", g)

SetG1Refs == SetParams("g1Set", TRUE)

SetExecutor(allowed) ==
  /\ keeper' = [keeper EXCEPT !.isExecutor = allowed]
  /\ UNCHANGED <<tickets, ledger, fees, params, now, history>>

SetMaxRewardPerCall(cap) ==
  /\ keeper' = [keeper EXCEPT !.maxRewardPerCall = cap]
  /\ UNCHANGED <<tickets, ledger, fees, params, now, history>>

SetFlatFees(create, redeem) ==
  /\ create <= FLAT_FEE_MAX /\ redeem <= FLAT_FEE_MAX
  /\ fees' = [create |-> create, redeem |-> redeem]
  /\ UNCHANGED <<tickets, ledger, params, keeper, now, history>>

-----------------------------------------------------------------------------
(* The vault's other traffic, as the queue sees it, and time.               *)

(* Shares minted outside the queue: an in-kind create by the market, or the  *)
(* fee slice an accrual mints to the keeper module.                          *)
MintOutside(to) ==
  /\ supply < MaxSupply
  /\ shares' = [shares EXCEPT ![to] = @ + 1]
  /\ supply' = supply + 1
  /\ UNCHANGED <<tickets, cash, config, now, history>>

RedeemInKind ==
  /\ shares[Market] > 0 /\ supply > 0
  /\ shares' = [shares EXCEPT ![Market] = @ - 1]
  /\ supply' = supply - 1
  /\ UNCHANGED <<tickets, cash, config, now, history>>

Tick ==
  /\ now < MaxNow
  /\ now' = now + 1
  /\ UNCHANGED <<tickets, ledger, config, history>>

Next ==
  \/ \E u \in Users, amt \in Amounts : RequestCreate(u, amt)
  \/ \E u \in Users, amt \in Amounts : RequestRedeem(u, amt)
  \/ \E u \in Users, id \in DOMAIN tickets : Cancel(u, id)
  \/ \E k \in 0..MaxBatch : \E ids \in [1..k -> DOMAIN tickets] :
       \E r \in Readings, extra \in Overpay, accrual \in Accruals :
         /\ \/ accrual = NoAccrual
            \/ supply + accrual.keeper + accrual.others <= MaxSupply
         /\ Settle(ids, r, extra, accrual)
  \/ \E d \in Delays : SetCutoffDelay(d)
  \/ \E b \in Spreads : SetSpreadBps(b)
  \/ \E b \in Capacities : SetCapacity(b)
  \/ \E t \in Tips : SetKeeperTip(t)
  \/ \E g \in Gates : SetGateParams(g)
  \/ SetG1Refs
  \/ \E allowed \in Executors : SetExecutor(allowed)
  \/ \E c \in MaxRewards : SetMaxRewardPerCall(c)
  \/ \E c, r \in FlatFees : SetFlatFees(c, r)
  \/ \E to \in {Market, KeeperModule} : MintOutside(to)
  \/ RedeemInKind
  \/ Tick

Spec == Init /\ [][Next]_vars

-----------------------------------------------------------------------------
(* Properties.                                                              *)

(* What a ticket still holds in escrow of an asset, and what all tickets do. *)
Asset(t) == IF t.isCreate THEN "cash" ELSE "shares"

Claim(t, asset) == IF t.status = Pending /\ Asset(t) = asset THEN t.amount ELSE 0

Owed(tks, asset) == Total([i \in DOMAIN tks |-> Claim(tks[i], asset)])

(* The queue holds, to the unit, what its pending tickets are owed: no      *)
(* sequence of partial fills, deferrals, cancels, flat fees and repeated    *)
(* ids leaves it short, or leaves anything of a closed ticket behind.       *)
EscrowExact ==
  /\ cash[Queue] = Owed(tickets, "cash") + surplus
  /\ shares[Queue] = Owed(tickets, "shares")

(* A ticket settle touches and leaves pending can be cancelled again, for   *)
(* at least the shortest cutoff delay ("red line #1" in the code).          *)
RolledIsCancelable ==
  \A i \in DOMAIN tickets :
    tickets'[i].status = Pending /\ tickets'[i] # tickets[i]
      => tickets'[i].cutoff >= now + MIN_CUTOFF_DELAY

RolloverCancelable == [][RolledIsCancelable]_vars

(* What a step took out of ticket i for the AP.                             *)
Taken(i) ==
  CASE tickets'[i].status = Cancelled -> 0
    [] tickets'[i].status = Settled /\ tickets[i].status = Pending -> tickets[i].amount
    [] tickets'[i].status = tickets[i].status -> tickets[i].amount - tickets'[i].amount

(* What a step's fills must come to at one price: an owner gets exactly the *)
(* shares its filled cash buys after fee and spread, and at least the cash  *)
(* its redeemed shares are worth; the treasury gets the flat fees, no more. *)
PaidAt(price) ==
  LET filled == {i \in DOMAIN tickets : Taken(i) > 0}
      creates == {i \in filled : tickets[i].isCreate}
      redeems == filled \ creates
      Of(u, ids) == {i \in ids : tickets[i].owner = u}
      bought == [i \in creates |-> SharesFor(Taken(i) - CreateFee, price)]
      flat == [i \in filled |->
                 IF tickets[i].isCreate THEN CreateFee
                 ELSE IF IsRegistry THEN Least(fees.redeem, CashFor(Taken(i), price)) ELSE 0]
      paid == [i \in redeems |-> CashFor(Taken(i), price) - flat[i]]
  IN /\ \A u \in Users :
          /\ shares'[u] - shares[u] = SumOver(bought, Of(u, creates))
          /\ cash'[u] - cash[u] >= SumOver(paid, Of(u, redeems))
     /\ cash'[Treasury] - cash[Treasury] = SumOver(flat, filled)

(* All fills of a batch are at one price, of one reading that passed the    *)
(* gate, whatever else the batch holds and however the AP pays.             *)
OneStrikePerBatch ==
  [][(\E i \in DOMAIN tickets : Taken(i) > 0) =>
       \E r \in Readings : GatePasses(r) /\ PaidAt(NavPerShare(r))]_vars

(* Two tickets settled together end the same in either order: capacity is   *)
(* shared pro rata and is not first come, first served.                     *)
BatchOrderIrrelevant ==
  \A r \in Readings, i, j \in DOMAIN tickets :
    GatePasses(r) /\ NavPerShare(r) > 0 =>
      LET ahead == Run(<<i, j>>, Terms(<<i, j>>, r, 0, NoAccrual))
          back  == Run(<<j, i>>, Terms(<<j, i>>, r, 0, NoAccrual))
      IN ahead.ok /\ back.ok => ahead = back

(* The keeper is paid only by a step that filled a ticket, at most the tip   *)
(* the owner set, and out of the keeper module alone: the two together lose  *)
(* nothing, though the same step may have minted to the one and burned       *)
(* escrowed shares of others.                                                *)
TipOnlyForWork ==
  [][shares'[Keeper] # shares[Keeper] =>
       /\ \E i \in DOMAIN tickets : Taken(i) > 0
       /\ shares'[Keeper] - shares[Keeper] \in 1..params.keeperTip
       /\ shares'[Keeper] + shares'[KeeperModule]
            >= shares[Keeper] + shares[KeeperModule]]_vars

(* What the C1 comment of settle promises: under a capacity, a batch of     *)
(* tickets that could each be filled alone does not revert because the cap  *)
(* cuts some slice too thin.                                                *)
CapNeverBricksBatch ==
  \A r \in Readings, i, j \in DOMAIN tickets :
    /\ GatePasses(r) /\ NavPerShare(r) > 0
    /\ i # j
    /\ \A k \in {i, j} :
         Run(<<k>>, [price |-> NavPerShare(r), overpay |-> 0,
                     accrual |-> NoAccrual, capShares |-> 0, demand |-> 0]).ok
    /\ \A k \in {i, j} : tickets[k].isCreate
    => Run(<<i, j>>, Terms(<<i, j>>, r, 0, NoAccrual)).ok

(* The queue keeps the promise of the abstract escrow.                      *)
Book == [i \in DOMAIN tickets |->
  LET t == tickets[i]
      left == IF t.status = Pending THEN t.amount ELSE 0
      back == IF t.status = Cancelled THEN t.amount ELSE 0
  IN [owner |-> t.owner, asset |-> Asset(t),
      put |-> deposits[i], left |-> left, back |-> back,
      spent |-> deposits[i] - left - back, deadline |-> t.cutoff]]

Escrow == INSTANCE ForwardEscrow WITH
  Owners <- Users,
  book <- Book,
  pool <- [cash |-> cash[Queue] - surplus, shares |-> shares[Queue]],
  wallet <- [u \in Users |-> [cash |-> cash[u], shares |-> shares[u]]]

(* Every behaviour of the queue is one of the abstract escrow: a deposit    *)
(* leaves it whole to its owner before the deadline, or to the AP after it, *)
(* and nothing is ever taken from a holder but a deposit it makes itself.   *)
RefinesEscrow == Escrow!Spec
=============================================================================
