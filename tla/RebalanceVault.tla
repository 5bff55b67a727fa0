--------------------------- MODULE RebalanceVault ---------------------------
(***************************************************************************)
(* A rebalanceable basket vault, in both flavours of the code: the managed *)
(* vault (ManagedRebalanceVault), which holds ERC-20 tokens and stores its *)
(* target recipe, and the registry vault (RegistryRebalanceVault), which   *)
(* holds ERC-6909 claims on tokens wrapped into it and anchors its recipe  *)
(* in a root.                                                              *)
(*                                                                         *)
(* Shares are created and redeemed pro rata over the custody set `held`,   *)
(* whatever the recipe says; only the first mint uses the recipe.          *)
(* Executors swap tokens against the vault.  A holder's own ERC-20 wallet  *)
(* is unlimited and not modelled.                                          *)
(***************************************************************************)
EXTENDS StreamingFees, Sequences, FiniteSetsExt

CONSTANTS
  Users,             \* holders and APs
  Vault,             \* the vault as a holder of claims
  Tokens,
  IsRegistry,
  UnitSize,
  Recipes,           \* sequences of [token, qty]
  InitRate, InitRecipe, Officers,   \* how the factory initializes the vault
  Treasuries

CONSTANTS            \* the inputs, and the bounds that keep them finite
  Rates, FeeTokens, FlatFees, Grantees, Units, Quantities, Floors,
  MaxLegs, MaxShares, MaxCoins, MaxGifts, MaxNow

Custodians == Accounts \cup {Vault}
Leg == [token : Tokens, amount : Nat]
ReleaseLeg == [token : Tokens, amount : Nat, minOut : Nat]

ASSUME VaultAssumption ==
  /\ IsRegistry \in BOOLEAN /\ UnitSize \in Nat \ {0}
  /\ Users \subseteq Accounts /\ Vault \notin Accounts /\ IsFiniteSet(Accounts)
  /\ Officers \in [Offices \cup {"treasury"} -> Accounts]
  /\ Treasuries \subseteq Accounts
  /\ Recipes \subseteq Seq(Leg) /\ InitRecipe \in Recipes
  /\ InitRate \in [Legs -> Nat] /\ \A l \in Legs : InitRate[l] <= RateMax[l]
  /\ FeeTokens \subseteq BOOLEAN /\ Grantees \subseteq {"executor", "settler"}
  /\ Rates \subseteq Nat /\ FlatFees \subseteq Nat /\ Units \subseteq Nat
  /\ Quantities \subseteq Nat /\ Floors \subseteq Nat
  /\ {MaxLegs, MaxShares, MaxCoins, MaxGifts, MaxNow} \subseteq Nat

VARIABLES
  coins,         \* ERC-20 balances of the vault
  claims,        \* ERC-6909 balances, on a registry vault
  held,          \* the custody set, as the array _held
  isHeld,        \* and as the mapping _isHeld
  recipe,        \* the live target, or what the live root commits to
  nextRecipe,    \* the scheduled one, effectiveAt = 0 for none
  grants,        \* is the auction an executor, the queue a settler?
  gifts,         \* history: what was sent to the vault outside its operations
  exposure,      \* history: the rates in force since the last accrual, by second
  notice         \* history: the increase or recipe last announced, and when

assets == <<coins, claims, held, isHeld>>
target == <<recipe, nextRecipe>>
fees == <<ledger, feeState, roles>>
vars == <<fees, now, assets, target, grants, gifts, exposure, notice>>

NoRecipe == << >>
NoTarget == [recipe |-> NoRecipe, effectiveAt |-> 0]
NoRise == [value |-> 0, since |-> 0]

TypeOK ==
  /\ FeesTypeOK
  /\ coins \in [Tokens -> Nat]
  /\ claims \in [Custodians -> [Tokens -> Nat]]
  /\ held \in Seq(Tokens)
  /\ isHeld \subseteq Tokens
  /\ recipe \in Recipes
  /\ nextRecipe \in [recipe : Recipes \cup {NoRecipe}, effectiveAt : Nat]
  /\ grants \in [executor : BOOLEAN, settler : BOOLEAN]
  /\ gifts \in [Tokens -> Nat]
  /\ exposure \in Nat

(* initializeRebalance or initializeRegistry.                               *)
Init ==
  /\ shares = [a \in Accounts |-> 0] /\ supply = 0
  /\ rate = InitRate
  /\ pending = [l \in Legs |-> NoIncrease]
  /\ owed = [l \in Legs |-> 0]
  /\ lastAccrued = 0 /\ now = 0
  /\ office = [o \in Offices |-> [holder |-> Officers[o], nominee |-> NoOne]]
  /\ treasury = Officers["treasury"]
  /\ flat = [token |-> FALSE, create |-> 0, redeem |-> 0]
  /\ coins = [t \in Tokens |-> 0]
  /\ claims = [c \in Custodians |-> [t \in Tokens |-> 0]]
  /\ held = << >> /\ isHeld = {}
  /\ recipe = InitRecipe /\ nextRecipe = NoTarget
  /\ grants = [executor |-> FALSE, settler |-> FALSE]
  /\ gifts = [t \in Tokens |-> 0]
  /\ exposure = 0
  /\ notice = [manager |-> NoRise, platform |-> NoRise, keeper |-> NoRise,
               recipe |-> [value |-> NoRecipe, since |-> 0]]

-----------------------------------------------------------------------------
(* Custody: what backs the shares, and the set of tokens that do.  c is the *)
(* custody in the middle of an operation.                                   *)

Custody == [coins |-> coins, claims |-> claims, held |-> held, isHeld |-> isHeld,
            ok |-> TRUE]

CustodyIs(c) ==
  /\ c.ok
  /\ coins' = c.coins /\ claims' = c.claims /\ held' = c.held /\ isHeld' = c.isHeld

BackingIn(c, t) == IF IsRegistry THEN c.claims[Vault][t] ELSE c.coins[t]

Backing(t) == BackingIn(Custody, t)

AddHeld(c, t) ==
  IF t \in c.isHeld THEN c
  ELSE [c EXCEPT !.isHeld = @ \cup {t}, !.held = Append(@, t)]

PruneShift(c, t) ==
  IF BackingIn(c, t) # 0 \/ t \notin c.isHeld THEN c
  ELSE LET n == Len(c.held)
           i == CHOOSE k \in 1..n : c.held[k] = t
       IN [c EXCEPT !.isHeld = @ \ {t}, !.held = SubSeq([c.held EXCEPT ![n] = c.held[i]], 1, n - 1)]

(* The last entry takes the place of the pruned one.                        *)
PruneIfEmpty(c, t) ==
  IF BackingIn(c, t) # 0 \/ t \notin c.isHeld THEN c
  ELSE LET n == Len(c.held)
           i == CHOOSE k \in 1..n : c.held[k] = t
       IN [c EXCEPT !.isHeld = @ \ {t}, !.held = SubSeq([c.held EXCEPT ![i] = c.held[n]], 1, n - 1)]

(* The keeper boundary is real ERC-20 on both flavours: a registry vault    *)
(* wraps what comes in and unwraps what goes out.                           *)
AcquireIn(c, leg) ==
  AddHeld(IF IsRegistry
            THEN [c EXCEPT !.coins[leg.token] = @ + leg.amount,
                           !.claims[Vault][leg.token] = @ + leg.amount]
            ELSE [c EXCEPT !.coins[leg.token] = @ + leg.amount], leg.token)

ReleaseKeepsClaim(c, leg) ==
  LET t == leg.token
      d == [c EXCEPT !.coins[t] = @ - leg.amount]
  IN PruneIfEmpty([d EXCEPT !.ok = @ /\ BackingIn(c, t) >= leg.amount
                                   /\ BackingIn(d, t) >= leg.minOut], t)

ReleaseOut(c, leg) ==
  LET t == leg.token
      d == [c EXCEPT !.coins[t] = @ - leg.amount,
                     !.claims[Vault][t] = IF IsRegistry THEN @ - leg.amount ELSE @]
  IN PruneIfEmpty([d EXCEPT !.ok = /\ @
                                   /\ BackingIn(c, t) >= leg.amount
                                   /\ BackingIn(d, t) >= leg.minOut], t)

(* Apply a custody operation to the elements of a sequence, in order.        *)
InOrder(Op(_, _), legs, c) ==
  LET f[k \in 0..Len(legs)] == IF k = 0 THEN c ELSE Op(f[k - 1], legs[k])
  IN f[Len(legs)]

HeldSet == {held[i] : i \in DOMAIN held}

-----------------------------------------------------------------------------
(* Shares.                                                                  *)

NeededFloor(t, n) ==
  IF t \in HeldSet THEN (Backing(t) * n) \div SupplyNow ELSE 0

(* What n shares cost of a token, rounded up, and what they pay, rounded    *)
(* down: nothing of a token that is not held.                               *)
Needed(t, n) == IF t \in HeldSet THEN CeilDiv(Backing(t) * n, SupplyNow) ELSE 0
Paid(t, n) == IF t \in HeldSet THEN (Backing(t) * n) \div SupplyNow ELSE 0

(* What units of the given leaves of a recipe come to in a token.           *)
Bundle(legs, t, units) ==
  units * MapThenSumSet(LAMBDA i : legs[i].amount,
                        {i \in DOMAIN legs : legs[i].token = t})

(* The custody port: ERC-20 tokens on a managed vault, claims on a registry *)
(* vault, between the vault and somebody else.                              *)
Move(from, to, amount) ==
  IF IsRegistry
    THEN /\ \A t \in Tokens : claims[from][t] >= amount[t]
         /\ claims' = [claims EXCEPT ![from] = [t \in Tokens |-> @[t] - amount[t]],
                                     ![to] = [t \in Tokens |-> @[t] + amount[t]]]
         /\ UNCHANGED coins
    ELSE /\ coins' = [t \in Tokens |-> IF to = Vault THEN coins[t] + amount[t]
                                                     ELSE coins[t] - amount[t]]
         /\ UNCHANGED claims

(* Create and redeem accrue before they change the supply.                  *)
Reissue(a, delta) ==
  /\ Accrue
  /\ shares' = [SharesNow EXCEPT ![a] = @ + delta]
  /\ supply' = SupplyNow + delta
  /\ exposure' = 0
  /\ UNCHANGED <<rate, pending, roles, now, target, grants, gifts, notice>>

(* create on a bootstrapped vault; settleCreate, where the AP pays.         *)
MintAgainst(ap, to, n) ==
  /\ n > 0
  /\ supply > 0
  /\ Move(ap, Vault, [t \in Tokens |-> Needed(t, n)])
  /\ Reissue(to, n)
  /\ UNCHANGED <<held, isHeld>>

Create(u, n) == MintAgainst(u, u, n)

SettleCreate(ap, to, n) ==
  /\ IsRegistry /\ grants.settler
  /\ MintAgainst(ap, to, n)

(* The first mint pulls whole units of a recipe: all of it in create on a   *)
(* managed vault, the leaves the caller lists in bootstrap on a registry    *)
(* vault, where each must be in the root but none must be there.            *)
FirstMintUnlisted(u, n, legs) ==
  /\ n > 0 /\ n % UnitSize = 0
  /\ supply = 0
  /\ Move(u, Vault, [t \in Tokens |-> Bundle(legs, t, n \div UnitSize)])
  /\ UNCHANGED <<held, isHeld>>

FirstMint(u, n, legs) ==
  /\ n > 0 /\ n % UnitSize = 0
  /\ supply = 0
  /\ Move(u, Vault, [t \in Tokens |-> Bundle(legs, t, n \div UnitSize)])
  /\ LET Add(c, leg) == AddHeld(c, leg.token)
         c == InOrder(Add, legs, Custody)
     IN held' = c.held /\ isHeld' = c.isHeld

CreateFirst(u, n) ==
  /\ ~IsRegistry
  /\ FirstMint(u, n, recipe)
  /\ Reissue(u, n)

(* bootstrap does not accrue: lastAccrued, and the seconds counted since,   *)
(* stay what they were before there was a share.                            *)
Issue(a, n) ==
  /\ shares' = [shares EXCEPT ![a] = @ + n]
  /\ supply' = supply + n
  /\ UNCHANGED <<feeState, roles, now, target, grants, gifts, exposure, notice>>

Bootstrap(u, n, picks) ==
  /\ IsRegistry
  /\ FirstMint(u, n, [i \in DOMAIN picks |-> recipe[picks[i]]])
  /\ Issue(u, n)

Redeem(a, n) ==
  /\ n > 0
  /\ supply > 0
  /\ SharesNow[a] >= n
  /\ Move(Vault, a, [t \in Tokens |-> Paid(t, n)])
  /\ Reissue(a, -n)
  /\ UNCHANGED <<held, isHeld>>

(* The quotes, at the supply the accrual will leave.                        *)
PreviewCreate(t, n) ==
  CASE supply = 0 -> Bundle(recipe, t, n \div UnitSize)
    [] supply > 0 /\ t \in HeldSet -> CeilDiv(Backing(t) * n, supply + PendingMintShares)
    [] OTHER -> 0

PreviewRedeem(t, n) ==
  IF t \in HeldSet THEN (Backing(t) * n) \div (supply + PendingMintShares) ELSE 0

(* Shares move between holders, out of the keepers' escrow too.             *)
TransferShares(from, to, n) ==
  /\ from # to /\ n > 0 /\ shares[from] >= n
  /\ shares' = [shares EXCEPT ![from] = @ - n, ![to] = @ + n]
  /\ UNCHANGED <<supply, feeState, roles, now, assets, target, grants, gifts,
                 exposure, notice>>

-----------------------------------------------------------------------------
(* Rebalancing.                                                             *)

Others == <<fees, now, target, grants, exposure, notice>>

(* The executor swaps its tokens for the vault's.  Nothing accrues and no   *)
(* share moves.                                                             *)
Disjoint(acquire, release) ==
  \A i \in DOMAIN acquire, j \in DOMAIN release :
    acquire[i].token # release[j].token

Swapped(acquire, release) ==
  InOrder(ReleaseOut, release, InOrder(AcquireIn, acquire, Custody))

Swap(acquire, release) ==
  /\ grants.executor
  /\ Disjoint(acquire, release)
  /\ CustodyIs(Swapped(acquire, release))

ExecuteRebalance(acquire, release) ==
  /\ Swap(acquire, release)
  /\ UNCHANGED <<Others, gifts>>

(* ERC-20 tokens become claims on a registry vault and claims ERC-20 again.  *)
Wrap(u, t, q) ==
  /\ IsRegistry
  /\ coins' = [coins EXCEPT ![t] = @ + q]
  /\ claims' = [claims EXCEPT ![u][t] = @ + q]
  /\ UNCHANGED <<held, isHeld, Others, gifts>>

Unwrap(u, t, q) ==
  /\ IsRegistry
  /\ claims[u][t] >= q /\ coins[t] >= q
  /\ coins' = [coins EXCEPT ![t] = @ - q]
  /\ claims' = [claims EXCEPT ![u][t] = @ - q]
  /\ UNCHANGED <<held, isHeld, Others, gifts>>

(* Anybody may leave tokens on a registry vault that no claim stands for:    *)
(* by sending it ERC-20, or by unwrapping to the vault itself.              *)
Stray(t, q) ==
  /\ IsRegistry
  /\ coins' = [coins EXCEPT ![t] = @ + q]
  /\ UNCHANGED <<claims, held, isHeld, Others, gifts>>

UnwrapToVault(u, t, q) ==
  /\ IsRegistry
  /\ claims[u][t] >= q /\ coins[t] >= q
  /\ claims' = [claims EXCEPT ![u][t] = @ - q]
  /\ UNCHANGED <<coins, held, isHeld, Others, gifts>>

(* Anybody may send the vault what it counts as its own.                     *)
Gift(u, t, q) ==
  /\ Move(u, Vault, [x \in Tokens |-> IF x = t THEN q ELSE 0])
  /\ gifts' = [gifts EXCEPT ![t] = @ + q]
  /\ UNCHANGED <<held, isHeld, Others>>

-----------------------------------------------------------------------------
(* The curator's target, the platform's grants, and time.                   *)

(* scheduleTarget or scheduleRoot: a new schedule replaces the last one and *)
(* starts its notice again.                                                 *)
ScheduleRecipe(r) ==
  /\ r # NoRecipe
  /\ nextRecipe' = [recipe |-> r, effectiveAt |-> now + TIMELOCK]
  /\ notice' = [notice EXCEPT !["recipe"] = [value |-> r, since |-> now]]
  /\ UNCHANGED <<fees, now, assets, recipe, grants, gifts, exposure>>

ActivateRecipeEarly ==
  /\ nextRecipe.effectiveAt # 0
  /\ recipe' = nextRecipe.recipe
  /\ nextRecipe' = NoTarget
  /\ UNCHANGED <<fees, now, assets, grants, gifts, exposure, notice>>

ActivateRecipe ==
  /\ nextRecipe.effectiveAt # 0
  /\ now >= nextRecipe.effectiveAt
  /\ recipe' = nextRecipe.recipe
  /\ nextRecipe' = NoTarget
  /\ UNCHANGED <<fees, now, assets, grants, gifts, exposure, notice>>

Grant(who, allowed) ==
  /\ grants' = [grants EXCEPT ![who] = allowed]
  /\ UNCHANGED <<fees, now, assets, target, gifts, exposure, notice>>

Tick ==
  /\ now' = now + 1
  /\ exposure' = exposure + rate.manager + rate.platform
  /\ UNCHANGED <<fees, assets, target, grants, gifts, notice>>

Noticed(leg, bps) ==
  notice' = [notice EXCEPT ![leg] = IF bps <= rate[leg] THEN NoRise ELSE [value |-> bps, since |-> now]]

(* The fee operations of FeeCore, on a vault.                               *)
FeeOperation ==
  \/ /\ \/ AccrueFee /\ UNCHANGED notice
        \/ \E l \in Legs : \/ \E b \in Rates : SetRate(l, b) /\ Noticed(l, b)
                           \/ ActivateRate(l) /\ Noticed(l, 0)
     /\ exposure' = 0
  \/ /\ \/ \E a \in Treasuries : SetTreasury(a)
        \/ \E o \in Offices : Accept(o) \/ \E a \in Treasuries \cup {NoOne} : Nominate(o, a)
        \/ \E b \in FeeTokens : SetFeeToken(b)
        \/ \E side \in {"create", "redeem"}, f \in FlatFees : SetFlatFee(side, f)
     /\ UNCHANGED <<exposure, notice>>

ShareOperation ==
  \/ \E u \in Users, n \in Units : SupplyNow + n <= MaxShares /\ Create(u, n)
  \/ \E ap, to \in Users, n \in Units :
       ap # to /\ SupplyNow + n <= MaxShares /\ SettleCreate(ap, to, n)
  \/ \E u \in Users, n \in Units : CreateFirst(u, n)
  \/ \E u \in Users, n \in Units, k \in 0..MaxLegs :
       \E picks \in [1..k -> DOMAIN recipe] : Bootstrap(u, n, picks)
  \/ \E u \in Users, n \in 1..MaxShares : Redeem(u, n)

LegsUpTo(k, S) == UNION {[1..i -> S] : i \in 0..k}

AssetOperation ==
  \/ \E acquire \in LegsUpTo(MaxLegs, [token : Tokens, amount : Quantities]),
        release \in LegsUpTo(MaxLegs, [token : Tokens, amount : Quantities, minOut : Floors]) :
       ExecuteRebalance(acquire, release)
  \/ \E u \in Users, t \in Tokens, q \in Quantities :
       \/ Wrap(u, t, q)
       \/ Unwrap(u, t, q)
       \/ UnwrapToVault(u, t, q)
       \/ Stray(t, q)
       \/ gifts[t] + q <= MaxGifts /\ Gift(u, t, q)

Next ==
  /\ \/ FeeOperation /\ UNCHANGED <<assets, target, grants, gifts>>
     \/ ShareOperation
     \/ \E from \in Accounts, to \in Users : TransferShares(from, to, shares[from])
     \/ AssetOperation
     \/ \E r \in Recipes \cup {NoRecipe} : ScheduleRecipe(r)
     \/ ActivateRecipe
     \/ \E who \in Grantees, b \in BOOLEAN : Grant(who, b)
     \/ now < MaxNow /\ Tick
  /\ \A t \in Tokens : coins'[t] <= MaxCoins

Spec == Init /\ [][Next]_vars

-----------------------------------------------------------------------------
(* Properties.                                                              *)

(* The array and the mapping of the custody set agree and the array lists   *)
(* nothing twice, and a token outside the set, which no holder is paid, is  *)
(* in the vault only as far as it was sent there past every operation.      *)
CustodySet ==
  /\ HeldSet = isHeld
  /\ \A i, j \in DOMAIN held : held[i] = held[j] => i = j
  /\ \A t \in Tokens \ isHeld : Backing(t) <= gifts[t]

(* Does the step accrue?  A create or a redeem does, even in the second of  *)
(* the last accrual; a bootstrap does not, but has nothing to accrue on.     *)
Accrues == lastAccrued' # lastAccrued \/ supply' # supply

(* A create or redeem, whoever's, never lowers what backs a share of those  *)
(* who stay by more than the fee that falls due with it.                    *)
RemainingBacking ==
  [][Accrues /\ supply > 0 =>
       \A t \in HeldSet : Backing(t)' * SupplyNow >= Backing(t) * supply']_vars

(* On a registry vault all claims together can be unwrapped: the tokens are *)
(* there, whoever wrapped, created, redeemed, swapped or left some there.   *)
ClaimsBacked ==
  IsRegistry => \A t \in Tokens :
    MapThenSumSet(LAMBDA c : claims[c][t], Custodians) <= coins[t]

(* What a quote says of a create or redeem is what it moves, to the unit,   *)
(* however long the vault has not accrued (IMP-8 in the code).              *)
PreviewExact ==
  [][Accrues /\ (supply > 0 \/ ~IsRegistry) =>
     \A n \in 1..MaxShares : \A t \in Tokens :
       /\ supply' = SupplyNow + n => Backing(t)' - Backing(t) = PreviewCreate(t, n)
       /\ supply' = SupplyNow - n => Backing(t) - Backing(t)' = PreviewRedeem(t, n)]_vars

(* What an accrual charges, minted or carried, is what the rates in force   *)
(* at every second since the last one come to: never more, whoever split    *)
(* it, changed a rate or poked the vault meanwhile, and less only by the    *)
(* rounding of two legs.  On a registry vault those seconds include the     *)
(* ones before its bootstrap, which mints without accruing: the first       *)
(* accrual after it charges the new shares for them.                        *)
FeesCharged ==
  [][Accrues /\ (\A u \in Users : shares'[u] = shares[u]) =>
       LET year == BPS * YEAR
           charged == (supply' - supply) * SCALE
             + (owed'.manager + owed'.keeper + owed'.platform)
             - (owed.manager + owed.keeper + owed.platform)
       IN exposure < year =>
            /\ charged * (year - exposure) <= supply * SCALE * exposure
            /\ (charged + 2) * year >= supply * SCALE * exposure]_vars

(* A fee rises, and a recipe changes, only to what was announced TIMELOCK   *)
(* before and neither withdrawn nor replaced since.                         *)
NoticeGiven ==
  [][/\ \A l \in Legs : rate'[l] > rate[l] =>
          notice[l].value = rate'[l] /\ now >= notice[l].since + TIMELOCK
     /\ recipe' # recipe =>
          /\ notice["recipe"].value = recipe'
          /\ now >= notice["recipe"].since + TIMELOCK]_vars

(* A create never has a flat fee to pay and no token to pay it in.          *)
FlatFeePayable == flat.create > 0 \/ flat.redeem > 0 => flat.token
=============================================================================
