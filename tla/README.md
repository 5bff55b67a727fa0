# Meridian baskets: TLA+ models, checks and proofs

Meridian issues index-fund-like baskets of tokens on an EVM chain. The value is
in a handful of Solidity contracts under `blockchain/contracts` (layers L1 to
L6), operated by a NestJS backend (`backend/src`) that indexes their events and
sends the keepers' transactions. This directory models the parts that move or
account for value, checks them with TLC on small instances, and proves the most
important facts for every instance with TLAPS.

Run, from this directory:

    tlc -workers 2 -config MCForwardCashQueueManaged.cfg MCForwardCashQueue
    tlapm ForwardCashQueueProofs.tla
    tlapm RebalanceVaultProofs.tla      (some three minutes)

## 1. The system

| component | state | operations | what makes it correct |
|---|---|---|---|
| L1 vault core, static and committed vaults (`L1/recipe`, `L1/core`) | shares, a recipe of token quantities per unit | create and redeem whole units, permits | a share is always backed by the same quantities |
| L1 fees (`L1/fee/FeeCore.sol`, keeper leg `L3/rebalance/RebalanceFeeCore.sol`) | rates, announced increases, carried fractions, last accrual, roles, flat fees | accrue, set and activate rates, handoffs, flat-fee setters | holders are diluted by exactly the rates in force, never by a rate set later; a rise is announced seven days before |
| L3 rebalanceable vaults (`ManagedRebalanceVault`, `RegistryRebalanceVault`) | the custody set and the balances behind it, target recipe or root, executors, settlers | create, bootstrap, settleCreate, redeem, executeRebalance, schedule and activate a target | shares stay backed by what is held, quotes equal what moves, no token that backs shares is missing from the custody set |
| L1 registry custody and root (`L1/recipe/RegistryCustody.sol`, `RootCommitment.sol`) | ERC-6909 claims on wrapped tokens, recipe root | wrap, unwrap, claim transfers, schedule and activate a root | every claim can be unwrapped |
| L3 auction, module, keeper module | one auction per vault, opener lists, keepers' share escrow | open, bid, pay | an auction gives away no more than it announced; keepers are paid from the escrow, at most the cap |
| L6 buffered trigger guard | per-vault latch, last action, configuration | checkTrigger, openWeekendRebalance, clearLatch | one auction per drift episode |
| L4 prices (`PriceAggregator`, `FairValueNAV`, adapters) | sources per asset | weighted median, NAV with confidence band | no single source moves the price past its cap |
| L5 observers | a list of cumulative observations | record, consult | the average lies between the samples of its window |
| L5 forward cash queue (`L5/ForwardCashQueue.sol`) | tickets, escrowed cash and shares, parameters | request, cancel, settle a batch, setters | escrow is exact, a batch has one price, nobody is locked in |
| backend: forward-enable job | a row per vault (Pending, Wiring, Live, Failed), on-chain wiring | request, job steps, retry | Live means wired; a retry finishes what is missing |
| backend: indexer and keeper services | tickets by event, checkpoint | tick, apply, settle pass | the table follows the chain across crashes and repeats |
| SDK, web app, registry tool, scripts | none that matters here | | |

Interaction: holders and APs call vaults and the queue directly. `settle` of the
queue calls the NAV, the observer, the peg feed, the AP's contract, then `create`
or `settleCreate` and `redeem` of the vault (which accrue fees and mint shares,
some of them to the keeper module), and last the keeper module's `pay`. The
guard opens an auction, a bidder's `bid` calls `executeRebalance` of the vault.
The indexer reads the queue's events and the settler picks past-cutoff tickets
from the table. Every transaction is atomic: what can interleave is whole
transactions, with time passing between them, plus callbacks inside one (the AP)
and the backend's own steps, which can crash between any two.

Where it is hard: a batch whose legs change the very supply its price and cap
were computed from; partial fills and rollovers with cutoffs; rounding in four
places on the way from cash to shares; fees that accrue inside other operations
and carry fractions; a custody set edited by several legs of one swap; schedules
withdrawn and announced again; balances of a vault that also holds others'
inventory. `PROJECT.json` lists each at its line under "hazards", with the
property that would catch it or the reason there is none yet.

## 2. Plan

1. `ForwardCashQueue` with the abstract `ForwardEscrow`, and its proofs, that of
   the refinement included. Done.
2. `StreamingFees`, `RebalanceVault` for both vault flavours. Done, every one of
   their properties proved.
3. `RebalanceAuction` with the keeper module, and `BufferedTriggerGuard` over it.
   Done, every one of their properties proved on top of those of the vault.
4. `ForwardEnable`: request, job, transactions, crash and retry. Done, with proofs.
5. `ForwardSync`: the indexer and the settle keepers against the queue's own
   ticket table. Done, with liveness checked and the safety properties proved.
6. `Valuation`: the off-chain sources, the poll and the NAV. Done, with proofs.
7. `NavOracle`: the aggregator, the value of the holdings and both observers.
   Done, with proofs.
8. `UnitVault`: the basket, committed and managed vaults, over the fees of 2. Done, proved.

## 3. The cash queue

`ForwardCashQueue.tla` has one action per external function of
`ForwardCashQueue.sol`: `RequestCreate`, `RequestRedeem`, `Cancel`, `Settle` and the
setters, with `SetExecutor` and `SetMaxRewardPerCall` of the keeper module,
`SetFlatFees` of the vault, and `MintOutside`, `RedeemInKind` and `Tick` for the
world around it. A reverted transaction is not a step.

`Settle` is the whole function. `Terms` fixes what is read once at its start (price
by `NavPerShare` after `GatePasses`, capacity and total demand, the accrual that the
vault performs when first entered); `Batches` folds `SettleOne` over the ids in
order, each leg `FillCreate`, `FillRedeem` or `Defer` updating tickets, cash, shares
and supply as the code does; any failing leg makes the whole batch fail; `Tip` pays
the keeper last. The oracles are an element of `Readings`, the AP's payment may
miss its obligation by `Overpay`, and the vault's accrual is an element of
`Accruals` bounded by what the instance allows.

`ForwardEscrow.tla` is what holders are promised, without prices or vaults: a deposit
can be taken back whole before its deadline; after it, parts may be spent and what
remains gets a new deadline; the pool is the sum of what is left. The queue maps
onto it by `Book`; `RefinesEscrow` is checked on small instances and proved for all.

| property | what it says | could fail by |
|---|---|---|
| `EscrowExact` | the queue's cash and shares are what pending tickets are owed, to the unit (plus an AP's overpayment, which stays) | a fill not subtracted, a repeated id, a flat fee paid from the wrong pocket |
| `RolloverCancelable` | what a batch leaves pending can be cancelled for at least the shortest delay | a cutoff not refreshed on one of two paths |
| `OneStrikePerBatch` | owners and treasury get exactly what one gated price gives for what was taken | re-reading the supply per leg, pricing at the TWAP, forwarding an underpayment |
| `BatchOrderIrrelevant` | two tickets settle the same in either order | first come, first served under the cap |
| `TipOnlyForWork` | tips only for a filled ticket, bounded, from the escrow | deferred legs counted as work |
| `RefinesEscrow` | the promise above | settling before the cutoff, cancelling after it |
| `CapNeverBricksBatch` | the comment at line 291 of the contract; refuted | see findings |

Runs: `queue_managed` (spread, capacity, tip, accrual inside settle, two holders and
two tickets, so that a batch can hold both kinds, repeats, rollovers and
deferrals), `queue_registry` (flat fees, every way the gate refuses, all setters,
AP paying too much or too little), `queue_cap_bricks` (the finding). Two tickets
are enough for repeats, order and pro-rata sharing, which are between two
tickets; two ticks are enough for a cutoff to pass and be renewed. Deadlock is
not checked: at the last tick with every ticket closed nothing is left to do.

## 4. The rebalanceable vaults

`StreamingFees.tla` holds the fee state and `_accrue`, the rates' life and the roles.
`RebalanceVault.tla` extends it with assets, in both flavours by `IsRegistry`: balances
`coins`, claims `claims`, the custody set as array and mapping. Operations that start
with `_accrue` compute on `SupplyNow` and `SharesNow`, the ledger it leaves.
`ExecuteRebalance` runs all acquire legs and then all release legs over a custody
record, in order, and is void if any leg is; `Wrap`, `Unwrap` and `Gift` are the traffic
of others in the same contract, `Stray` and `UnwrapToVault` the tokens somebody leaves on a registry
vault without a claim for them. `Create` and `Redeem` accrue as they mint or burn (`Reissue`);
`Bootstrap` only mints (`Issue`). Who may call what is not modelled beyond the
grants: every property holds against any caller the modifiers could admit. A
wallet outside the vault is taken as deep enough.

| property | what it says |
|---|---|
| `RemainingBacking` | no create or redeem lowers what backs the others' shares, beyond the fee falling due with it |
| `PreviewExact` | quotes equal what the next call moves, to the unit, for any time since the last accrual |
| `FeesCharged` | an accrual charges what the rates in force second by second come to, whoever poked or changed a rate between |
| `NoticeGiven` | a rise or a new recipe takes effect only if announced `TIMELOCK` before and not withdrawn |
| `CustodySet` | array and mapping agree, without repeats, and what is outside the set is only unsolicited gifts |
| `ClaimsBacked` | a registry vault has the tokens to unwrap every claim, all together |
| `FlatFeePayable` | no flat fee without a token to pay it in |

`bootstrap` of a registry vault (`RegistryRebalanceVault.sol:78-102`) changes the supply without
accruing. `lastAccrued` stays where the deployment, or whoever poked the empty vault last, left
it, and the first accrual after it charges the new shares for the seconds before there was
any. `FeesCharged` counts these seconds, as the code does: on a registry vault it says that no more is
charged than the rates come to since the last accrual, not since the shares exist. The comment on
the seam (`VaultCore.sol:70`) reads as if they were settled first; no run claims it of the code.

Runs: `vault_fees` (a managed vault with one token, since fees do not look at
assets; a year of two ticks, SCALE 2, so that halves are carried; three legs),
`vault_custody` (three tokens and two legs per side, so that a token can be
emptied twice in one swap and the pruned one be first, middle or last; roles and
flat fees; and the vaults of the next section), `vault_registry` (two APs, partial bootstraps, settler, executor, gifts, stray tokens).
MAX bounds cap shares, coins, legs and time; two ticks exceed the timelock of one.

History variables (`gifts`, `exposure`, `notice`) are written and never read by the
code's actions.

### Basket, committed and managed vaults

`UnitVault.tla` has the L1 vaults, on the state of `RebalanceVault`: a managed vault is what the
rebalanceable one inherits from, which overrides create and redeem; `held` stands for `_tokens`
and never changes. `CreateUnits` pulls whole units of the recipe, whatever the vault has per
share; `RedeemShares` pays pro rata of what it has. The variable `kind` is the implementation the
factory cloned: BASKET and COMMITTED have no fees, COMMITTED takes its recipe from the caller
(`Offered`, `CheckRecipe`), MANAGED has the fee operations of `FeeCore` without the keeper's.

| property | what it says | could fail by |
|---|---|---|
| `NeverUnderCollateralized` | a vault without fees has the recipe's quantities for every share (the invariant the repository fuzzes in `test/foundry/L1Conservation.t.sol`, there for basket vaults) | a recipe accepted that is not the committed one, a payout rounded up |
| `StayersKeepUnits` | whoever stays through a create or redeem keeps per share what he had after the fees due with it, or what the recipe says | paying a redeem at the supply before its accrual |

The second is weaker than `RemainingBacking`, and must be: a create here pulls the
recipe's quantities even when fees have diluted the shares below them, in which case those who
stay gain, or a donation has put them above, in which case the one who comes takes a part of it.
`docs/guides/L1-static-in-kind.md:208` gives a donation to the holders of the moment; they have it
only until somebody creates.

Both are checked in `vault_custody`, with units of two shares, so that a redeem can leave
part of a unit and round; two units and what fees add to their shares; two ticks at rates of two and one eighths
per tick, which mint whole shares to the fee recipients and carry halves; a gift of one; and for
the committed vault a smaller and a larger recipe, and none, besides its own. A
rebalanceable vault is checked there at one moment under one target (swaps and handoffs look at neither),
the others with their roles as they are.

## 5. The auction and its guard

`RebalanceAuction.tla` extends `RebalanceVault`, whose `Swap` is what `Bid` performs
through `executeRebalance`. `Open` stores terms, clock and the floor of each released
token (`Floor`); a live auction is replaced. `Asked` decays linearly with integer
division, `Pay` is the keeper module's. The vault's own operations, `VaultOperation`,
interleave with those of the auction; shares the escrow or an opener holds stay
put. `BufferedTriggerGuard.tla` extends it with the gates (`CheckTrigger` over any
element of `Readings`), the latch, the bands of the rebalance module and their
setters; its auctions go through the same `Open`, as one of the allowed openers.

| property | what it says |
|---|---|
| `FillableUntilTouched` | as long as the vault holds what it held at the opening, the stored floor makes no bid in time revert |
| `FillsAsAnnounced` | outside redemptions a managed vault loses tokens only in the one fill of a live auction, no more than released, and gets at least `endIn` |
| `EscrowPaysTips` | the escrow shrinks only in a fill, towards its opener, within tip, cap and escrow |
| `OncePerEpisode` | between two openings of the guard a drift below the reset band was reported and the cooldown passed |
| `TipsReachKeepers` | the comment of the auction and the guard's test; refuted, see findings |

`FillableUntilTouched` carries its conditions because without them the code breaks
it: a redemption after the opening takes the balance below the floor, and so does a
token released by two legs. On a registry vault the floor is read from a balance that
contains the APs' inventory, which the repository's own test
(`blockchain/test/L3/registry/RegistryAuctionDomain.test.ts`) gives as the reason not
to register the auction there; the instances are managed vaults.

Runs: `auction` (two openers, two plans of one and two ticks, so that one can be
filled half-way and one expire within two ticks, plans that `Open` must refuse, one
holder whose three shares make the escrow earn one per tick, caps below and above the
tip), `guard` (no fees; a reading for each way a gate refuses; two other sets of bands,
one that `setParams` must refuse), `guard_tip` (fees on, the finding). `Switches` is
`{TRUE}`: what is allowed is not refused again, which only disables steps.

History variables (`atOpen`, `episode`) are written and never read by the code's actions.

## 6. The backend and the prices

### Enabling a queue

`ForwardEnable.tla` has an action for every stretch of `ForwardEnableService` and
`ForwardEnableHandler` between two awaits after which something else may have
happened. The endpoint is `CheckRow`, `VerifySignature`, `StoreRequest` (the upsert), `SendJob`;
`LoseCall` is the process stopping between the last two. The handler copies the row
when it takes the job (`TakeJob`) and then goes through its steps by `run.pc`; what it
sends goes to `mempool`, which `Mine` executes in nonce order, so a check of the chain
(`EnsureSources`, `EnsureExecutor`) may be older than what was sent before it. Only the
deployment is waited for (`ReceiveReceipt`). `Throw` is any call of the try block failing,
`CrashWorker` the process stopping at any step, after which the job queue delivers
again while `RetryLimit` allows.

| property | what it says | could fail by |
|---|---|---|
| `LiveIsWired` | a Live row's queue has, once nothing runs and what was sent is mined, its six parameters, its rights and the sources of the tokens, except those a run stopped between their two sources, unless the stops used up a job's retries | resuming after the deployment without configuring |
| `OnlyTheStoredQueueIsWired` | no queue but the row's is ever configured or given rights; a deployment lost to a crash stays blank | storing the address after the first setter |
| `RequestsAreAnswered` | a sent request ends in Live or Failed, unless the retries ran out | a catch block that does not store the failure |

Run `enabling`: two requests with different parameters, so that one overwrites the row
the other's job has copied; a registry vault of one token (the tokens are worked one
after the other and only a stop between the two sources of one matters); one fault and
one crash, with one redelivery, so a crash never exhausts the retries.

### Following the queue

`ForwardSync.tla` is the indexer's tick, the registry of queues and the two scheduled
keepers over a queue seen from outside: `tickets` and the `log` of its events, a block
per event. A tick reads the head, refreshes the registry, fetches the events kind by
kind, applies them one at a time and moves the checkpoint; it may throw, or the process
stop, at each of these. `RecordPass` warms the observer, `ReadDueTickets` selects the
batch from the table and `SubmitSettle` sends it, by which time the table is old. A settle
lists its ids in an order of the caller's choice, and its events come in that order. What a
tick has fetched is a set (`todo`), of which it applies the first by kind and then by block.

| property | what it says |
|---|---|
| `CommitIsExact` | a tick that moves the checkpoint leaves every ticket whose events were all read exactly as the log says, whatever was replayed before |
| `ClosedUnlessReplaying` | a closed ticket is shown as open again only while a range is repeated |
| `CutoffNeverLate` | an open row never shows a later cutoff than the contract's |
| `NothingFillableIsLeftOut` | a ticket a settle could fill, and that the table shows as open, is in the keeper's batch, however old its row and whether or not the fee could be read |
| `DueTicketsSettle` | a due ticket the keeper sees and that could be filled is settled or gets a new cutoff, unless a create that starves its batch is due |

Fairness, all of it about jobs that cron schedules for ever: a tick goes on
(`WF(TickStep)`); a pass that reads due tickets, with its time-to-live passed and the flat fee
read, comes again (`SF(ReadDueTickets(FALSE, Fee))`: any one read of the fee may fail, and passes
without it may come between); a settle that was sent ends, if only by reverting
(`WF(SettleReverts)`); and strong fairness of `RecordPass(FALSE)` and `SubmitSettle("all")`:
the market is open and the capacity suffices again and again while the keeper tries,
which the code cannot make so but is built on. Nothing is asked of users, of time, of
other settlers or of failures. In `enabling` it is `WF(HandlerStep)` and `WF(Mine)`: the worker
keeps polling and what was broadcast is mined.

The keeper leaves out the creates no larger than the flat fee (`forward-settle.service.ts:60-71`),
with a fee of zero when the read of it fails (`FeeRead`), in which case it keeps every ticket and
a batch with such a create reverts. A create above the fee whose cash after the fee buys no whole share
is never left out: it mints nothing, reverts every batch it is in, and past its cutoff can
no longer be cancelled. While one is due (`Starves`) nothing is promised to the others, and
`DueTicketsSettle` says so. The instance has one of each: a fee of one, a share for two, creates of one,
two and six, and a redeem.

### Prices off the chain and on it

`Valuation.tla` keeps of a price where it came from and when. `Reading` is the router:
the first source that answers, then the market status; the poll stores what it gets
or the catalog's baseline; the last-close source answers from what was stored, unless
its read of the snapshots throws, takes too long or meets its open breaker (`reads`); Pyth may publish
a zero (`MayBeZero`), which nothing on the way refuses; `ReadHolding` and `StoreNav` are the NAV, a
reading at a time. `IronRule`: a NAV not marked as an estimate
has no missing price and none older, from publication through every snapshot, than
the threshold. It is checked with `Stubs = {}`, since behind the stub readers the last close, where an old price
could pass for a new one, is never asked; it is proved with any.
`SeedsOnlyWithoutAnchor`: the baseline is stored only for want of an anchor; refuted as the module
wires the router (findings).

`NavOracle.tla` is `PriceAggregator.priceOf` in full (filter, capped weights, weighted median,
divergence filter, band), `FairValueNAV.navOfHoldings` over it, and the observers' `record` and
`consult`. Sources answer anything at any time. `record` takes the list of held tokens from its caller and
nothing compares it with the basket: `HeldLists` has the whole basket, a part and the empty list.
Sets and minima stand for the sort and the running sum.

| property | what it says |
|---|---|
| `OneSourceIsHeld` | whatever one source answers, the price stays within the divergence band of what the others say, as long as two of them keep weight, no weight may reach a half and the passes suffice |
| `TwapIsOfItsWindow` | consult answers the time-weighted average of the samples in its window, and exactly when there are two |

The conditions of the first are those of the code. With one other source there is no
majority, and with a share of a half or more one source may be the majority. The passes
are at most 20, each lowering an outsized depth by the factor of the cap, so with the default
share of 40% a source about 3*10^7 times as deep as the others still outweighs them; `Reach`
claims the first 400,000 times, which has a form that can be proved for every share and
number of passes. And a share so small, or depths so few, that capping rounds every weight of
the others to zero leaves nothing to outvote a source with, and the least price wins.

`MCScheduledJobs` puts the three modules in one configuration. They share no state in
the models (the observers' warmth is an input of the settle gate in `ForwardSync`), so
their interleavings add nothing: a behaviour chooses in `job` which group moves, and each
is checked on its own. Bounds: two tickets and `MaxLoad` three among ticks of time, tickets and
stops, so that a replay, a rollover and a second ticket meet in pairs; `MaxRange` one, so a
tick covers at most two blocks and leaves a backlog; three ticks for prices with a threshold of one; up to three
sources of depths that differ by a hundredfold with a bad one among them, a second
token with one that may go stale, two ticks and windows of one and two, so that a window
can start at, between and before observations, and two settings of the aggregator. The run has
some 695,000 states and takes about four minutes.

## 7. What is proved

`ForwardCashQueueProofs.tla`, with `TotalsProofs.tla` for sums, proves every property of the queue
that its runs check, for every set of users, every amount, price, fee, scale and batch length:

- `TypeCorrect`: `Spec => []TypeOK`, in particular no balance goes negative;
- `EscrowIsExact`: `Spec => []EscrowExact`;
- `RolloversStayCancelable`: `Spec => RolloverCancelable`.

The inductive invariant is `Inv == TypeOK /\ EscrowExact`. Neither conjunct is
inductive alone: that the queue can pay a fill, so that its balance stays a
natural number, needs the exact escrow, and the exact escrow needs the types
of the tickets. For `Settle` the same is carried through the batch: `BatchSound`
shows by induction over the ids (a fold, `BatchesRecursion`) that each prefix of a
batch leaves typed tickets and exact escrow, one lemma per kind of leg
(`FillCreateSound`, `FillRedeemSound`, `DeferSound`). Assumptions are those stated in
the modules: positive scales, a spread at most 100 percent, delays in order, and
distinct service accounts that own no ticket.

The second half of the module proves `QueueImplementsEscrow` (`Spec => RefinesEscrow`), from the
same assumptions. `Inv` is not enough: that a step maps to a step of the escrow needs
`DepositsCover`, that what a ticket has left is part of what its owner put in, and that a
pending ticket has something left. `StepMapped` takes the steps one at a time: a request
is a `Deposit`, a cancel a `Return`, `Tick` is `Tick`, everything else but `Settle` a stutter.
A batch is a `Spend`: next to `Sound`, each prefix keeps `Promised`, that every ticket is
either as it was before the batch, or was due and is settled or has no more left than
before and a new cutoff (`Kept`),
and that no holder is poorer. Since what a batch leaves pending is not due again, an id
that is repeated changes nothing the second time (`DueIsUntouched`).

The third part proves `FillsAtOneStrike` (`Spec => OneStrikePerBatch`), `TipsAreEarned`
(`Spec => TipOnlyForWork`) and `BatchesIgnoreOrder` (`Spec => []BatchOrderIrrelevant`). They rest on one
lemma, `SettleOneEffect`: what settling a ticket moves - its remainder, the shares, the cash, the
supply, each account's part - is a function of that ticket and of the terms read when the
batch began, not of what the batch has moved so far. Since these movements add up,
two tickets commute (`PairsCommute`). Along a batch, `PaidSoFar` says that what every account has
got is the sum, over the tickets touched so far, of what the price gives for the part taken
out; a fill adds one term to one owner's sum (`SumOfPart`), a repeated or deferred id
none. The fees that accrue as settle enters the vault go to accounts that are nobody's
ticket, and that no work leaves nothing to tip is the same invariant with nothing taken.

`RebalanceVaultProofs.tla` proves every property of the vaults, both flavours, for any accounts,
tokens, recipes, rates, timelock and swaps, and for any scale. It assumes what
`RebalanceVault` does of its constants, among it that accounts are finitely many, so that
balances have a sum. `TotalsProofs.tla` has what is needed of sums over finite sets: that they
exist (`SumExists`), and how one changes with one of its terms (`SumChange`).

- `RisesAreAnnounced` (`NoticeGiven`), from `NoticeInv`: what is pending is what was announced,
  and falls due `TIMELOCK` after that; a rate set no higher withdraws it.
- `FlatFeesHaveAToken` (`FlatFeePayable`), inductive once typed.
- `CustodySetIsExact` (`CustodySet`), from `CustodyInv`: array and mapping list the same tokens,
  each once, and of a token outside them the vault has at most what was sent to it unasked.
  A swap edits both at every leg, and what it edits is a record (`Sane`) carried by induction
  through the legs acquired, then through those released; inside a leg a token has come in
  that is not listed yet (`SaneBut`), and one that has run out is swapped with the last of the array.
- `VaultTyped` and `EveryClaimIsBacked` (`TypeOK`, `ClaimsBacked`), from `VaultInv`: types, the time
  of the last accrual no later than now, balances that add up to the supply, `CustodyInv`, and
  `Solid`, that the tokens of a registry vault are at least the sum of everybody's claims. None stands
  alone: that a redeem leaves naturals needs that nobody has more than the supply, and
  that a swap's release does needs the claims it unwraps to be backed (`Firm`, along the legs).
- `RemainingHoldersKeepBacking` and `QuotesAreExact` (`RemainingBacking`, `PreviewExact`), from
  `VaultInv` and from what a step that accrues may be (`AccrualKinds`): an accrual alone, a
  mint, a redeem or a bootstrap. The first is then a matter of which way a division rounds, the
  second of `SupplyNow` being the supply and `PendingMintShares`.
- `FeesAreWhatTheRatesComeTo` (`Apart => (Spec => FeesCharged)`), from `VaultInv` and `ChargeInv`:
  what the rates have come to is the seconds since the last accrual times the rates in force,
  because whatever changes a rate accrues first. A bootstrap touches neither, which is why those
  seconds reach back behind it. `Apart` says that no user may come to be paid
  fees, by office, as a treasury or as the escrow. It is needed, and no defect: a user who
  is paid fees and redeems as many shares as the same call minted to him makes a step
  that the property cannot tell from an accrual. `MCRebalanceVaultFees.cfg` satisfies it.

`UnitVaultProofs.tla` proves `FreeVaultsAreCovered` (`UnitSpec => []NeverUnderCollateralized`),
`StayersKeepWhatTheyHad` (`UnitSpec => StayersKeepUnits`) and `UnitVaultTyped`, for every recipe, unit size,
rate and holder, assuming as `UnitVault` does that these vaults hold no claims. `UnitInv` is
`VaultInv` with the recipe's tokens in the list, and for a vault without fees the rates, the
carried fractions and the coverage itself: coverage is not inductive without them, since one
minted fee share would end it. Every step but a create is a step of the rebalanceable vault
(`Inherited`) and keeps `VaultInv` by the lemmas proved there. A create adds the recipe to what
the vault has per share; it lies between the two (`CoversMore`, `KeepsMore`), whichever was more.

`BufferedTriggerGuardProofs.tla` proves every property of the auction and of the guard over
it: `AuctionTyped`, `PlansStayFillable`, `FillsAreAnnounced`, `EscrowOnlyTips`, `GuardTyped` and
`GuardOpensOncePerEpisode`. Its invariant, `AuctionInv`, is the vault's own `VaultInv` and what a live
auction is (`AsOpened`): a plan that passed the checks, floors taken from the balances of the
time, an opener who is not the keepers' escrow. The vault's part is needed because a fill
swaps: that its releases leave naturals and an exact custody list is what was proved of a
swap there. That the floor cannot refuse a bid in time (`PlansStayFillable`) follows each leg
through the swap: tokens that are acquired are not released, so a released token has at
the end what it had less its leg. For `FillsAreAnnounced` the coins that move are summed over
the legs of each token. For `EscrowOnlyTips`, `KeeperEscrow \notin Users` is assumed: the keeper
module has no function but `pay` that moves shares. The guard adds to `AuctionInv` its own types
(`GuardInv`), and that the latch and `lastAction`, all the code keeps, are the history of the
episode (`LatchRemembers`); only openings and clearings change either (`QuietSteps`).

`ForwardEnableProofs.tla` proves `EnableTypeCorrect` and `OnlyTheStoredQueueHolds`, for any number of
requests, tokens, crashes and faults. The invariant, `EnableInv`, ties together the row, the
handler's copy and the mempool: from the write of the address on, the copy's queue is the
row's; a row that has a queue never gets another; and every transaction in the mempool
that names a queue names the row's.

`LiveRowsAreWired` (`EnableSpec => []LiveIsWired`) needs more, since `LiveIsWired` speaks of a row
when all is quiet, and what makes it true was sent long before. `WorkInv` counts what the
chain comes to once the mempool is mined (`Sent`, `Lands`): each step of a run that has passed
leaves its transaction done or coming, and a Live row's whole list is (`Done`) unless another
request or job is still to come (`More`) or has just started. A run whose copy of the parameters
is no longer the row's is not the last (`ParamsInv`). Here the retries matter: with more stops
than retries, the job of a request stored while an earlier run was going Live can be lost
before its first write, and the row then shows parameters nobody configured. The property
says so (`crashes <= RetryLimit`).

`ScheduledJobsProofs.tla` is about the jobs the backend runs for ever. Of `ForwardSync` it proves
`SyncTyped`, `KeeperIsNeverLate`, `ReopensOnlyReplaying` and `CommitsAreExact`, that is all the safety
properties the run checks, for any orders, fee, price, start block, range and number of stops, assuming
that `NoTicket` is no row. The argument is about one ticket: in the log its request is first
and what closes it last (`LogOrder`), and its cutoff only moves away (`BookInv`). A tick's kinds are
applied in an order that agrees with the log's for the events of one ticket but for partial
fills among themselves, which it takes block by block. So after any part of a range has been
applied the row is what the latest applied event makes of it (`DoneShown`), and what
earlier ranges made of it stands (`CoveredShown`) unless a torn range got further. That a
commit is exact even after one needs two facts about ranges: only a stopped tick leaves
rows past the checkpoint (`NothingTorn`), and a range that is repeated reaches as far as any
that was torn (`RangeInv`), since the checkpoint and `MaxRange` are the same and the head
only grows; so a replay that ends has applied everything the torn tick had.

Two more theorems of `ForwardSync` are the safety half of `DueTicketsSettle`.
`KeeperLeavesNothingOut` (`SyncSpec => []NothingFillableIsLeftOut`): a ticket a settle could fill, and the
database shows as open, is in the keeper's batch, whatever its row missed. The keeper reads rows that may be old, so
the invariant follows a ticket's amount and kind too: an amount only shrinks, an event leaves
at least what its ticket still has and only a create is filled in part (`LogAmounts`), so that an
open row leaves at least as much to fill as its ticket and is called a create only when
the ticket is one (`RowsCover`); the rule that drops creates up to the fee then drops none that
a settle would take. `SettleClearsItsBatch`: a settle that goes through leaves nothing of its batch
due; no run states it. What is left to the fairness, and to TLC, is that a settle does go through.

The second half of the module proves, of `Valuation`, `IronRuleHolds`, for any stubs. Its
invariant says that an anchor keeps the time its price was published or seeded, that what
Hermes gives is a price with a time, and that each reading taken for the NAV being computed was no
older than the threshold when it was read, or is an estimate. The iron rule is not inductive without the first: a snapshot
restamped when stored would launder an old price.

`NavOracleProofs.tla` proves `ConsultAverages` (`OracleSpec => []TwapIsOfItsWindow`). Its invariant,
`ObservationsInv`, says that times strictly increase up to the block's and that the accumulator
moves from one observation to the next by the sample times the time between; the difference
consult divides then telescopes into the sum of the window (`AccumulatorIsTheTotal`). That
the samples are numbers at all (`PriceNat`) needs a fact about the aggregator: the weighted
median is the price of a kept source, since capped weights never exceed the depths and
half of a total is always reached.

It also proves `NoSourceDecides` (`OracleSpec => []OneSourceIsHeld`), for any number of sources,
any parameters and any number of passes. The argument follows one source through
the passes. A pass that caps another source as well leaves both at the cap, and they stay
as heavy as each other; one that caps only this source halves at least what it is above the rest and
takes off the margin the cap leaves under a half (`CanFall`, `LoweredIs`); one that changes nothing
leaves every weight under the cap (`FallenWhenBalanced`). In each case it ends with at most half of the
weight (`FallenAfter`). A source that is outweighed can be neither below nor above all
the others and be the weighted median (`MedianBetween`), and the divergence filter keeps only
prices near that median, so the second median is too (`WithinTheBand`). The first attempt at
this proof refuted an earlier form of the property, which asked only that two others have
some depth: capping can round their weights to zero.

Only model-checked: `RequestsAreAnswered` and `DueTicketsSettle`, which are liveness under
fairness. ENABLED, liveness and induction over data are outside what the installed provers
do; where a proof goes by induction over a number (of passes, ids, sources), it takes the set
of numbers for which the claim holds, with `SetInduction` of `TotalsProofs.tla`, since the
library's induction theorems take an operator.

## 8. Findings

`queue_cap_bricks`: the comment at `ForwardCashQueue.sol:291` says a tight cap can no
longer make a batch revert, because a slice of 0 is skipped. A slice that is not 0
but at most the flat create fee, or worth no whole share, still reverts the whole
batch, although each of its tickets settles alone.

`guard_tip`: `RebalanceAuction.sol:22` pays "the opener (keeper)", and the guard's test
over a real auction concludes that the keeper was paid because the escrow shrank
(`BufferedTriggerE2E.test.ts:152`). When a keeper opens through the guard the opener is
the guard contract: `bid` pays the tip to it, and the guard has no function that moves
shares. The keeper gets nothing and the shares stay there.

`stubs_hide_last_close`: `signal-poll.handler.ts:43-44` seeds the catalog's price for want of a
live source and of a last close. The readers registered for DexTwap and PerpMark
(`signals.module.ts:117`) answer a price of zero before the last close is asked, and the
router takes the first answer: the last close is never reached, and a token with a real
anchor gets the catalog's price stored over it as a Regular one. Taking the stubs out would not
make the comment true: a last-close read that throws, times out or meets its open breaker
(`signal-router.ts:113-117`) leaves the router with nothing, and its price of zero is seeded over too.

Smaller things met while modelling, which no run is about: a create that buys no
share starves the batches of the keeper as described in 6; a registry vault's bootstrap does not
accrue, as described in 4; a job delivered again takes a Live row
back to Wiring, and the error text of a failed run is not cleared when a later one goes
Live; queue events in ranges the indexer passed before it knew the queue are never
fetched; `PriceAggregator` penalizes missing depth with the capped depths, which a comment
at line 201 says the caller discards; its comment that after 20 passes no source exceeds
the capped share (lines 199-201, 221-223) is not so when several sources are over it together:
two of depth 1000 beside one of depth 10 lose a fifth per pass at 40% and end above the cap,
and a share below one over the number of sources shrinks every depth at every pass;
`RebalanceObserver` records a price of zero when no
source survives; `ChainlinkFeedAdapter` is constructed but not among the sources `getReading`
asks (`signals.module.ts:200-202`).

## 9. Not modelled

The components marked not_modelled in `PROJECT.json`, with the reason there: the
clone factory, whose clones start as each vault's model does; permits, which move
allowances only; hashing, price decoding, transaction
assembly, user interface and scripts, which keep no state or only reformat it. Within the
modelled parts: reentrancy guards and ERC-20 tokens that charge fees on transfer
are assumed away, as the contracts' comments require; 256-bit overflow is not
modelled, Solidity 0.8 reverts on it; gas limits are not modelled; in the backend,
transactions that revert on chain after being sent, several worker processes, the
events of contracts other than the queue, the fusion of several off-chain sources and
the stream to browsers are left out. Of the NAV, `IronRule` covers `computeFromSignals` only: the
`DEMO_NAV` path, off by default, marks a NAV of catalog prices as no estimate, and the on-chain reader is
not modelled either.
