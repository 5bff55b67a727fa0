------------------------------ MODULE UnitVault ------------------------------
(***************************************************************************)
(* The L1 vaults, whose recipe never changes: shares are created against   *)
(* whole units of the recipe and redeemed pro rata of what the vault has.  *)
(*                                                                         *)
(* BASKET stores its recipe (BasketVault), COMMITTED keeps a commitment    *)
(* and takes the recipe with every call (CommittedVault), and MANAGED is   *)
(* BASKET with streaming fees (ManagedVault), of which the rebalanceable   *)
(* vault overrides create and redeem: hence the state of RebalanceVault,   *)
(* with `held` for _tokens.  A vault without fees is one whose rates are   *)
(* zero.  Permits move allowances only, and are left out with them.        *)
(***************************************************************************)
EXTENDS RebalanceVault

VARIABLE kind    \* the implementation the factory cloned

(* These vaults hold ERC-20 tokens, no claims.                              *)
ASSUME UnitAssumption == ~IsRegistry

UnitKinds == {"BASKET", "COMMITTED", "MANAGED"}
unitVars == <<vars, kind>>

NoRates == [manager |-> 0, platform |-> 0, keeper |-> 0]

UnitQty(t) == Bundle(recipe, t, 1)

(* initialize: no token twice, and of each some quantity.                   *)
ValidRecipe(r) ==
  /\ r # NoRecipe
  /\ \A i \in DOMAIN r : r[i].amount > 0
  /\ \A i, j \in DOMAIN r : r[i].token = r[j].token => i = j

UnitInit ==
  /\ kind \in UnitKinds
  /\ ValidRecipe(InitRecipe)
  /\ recipe = InitRecipe /\ nextRecipe = NoTarget
  /\ held = [i \in DOMAIN InitRecipe |-> InitRecipe[i].token] /\ isHeld = HeldSet
  /\ shares = [a \in Accounts |-> 0] /\ supply = 0
  /\ coins = [t \in Tokens |-> 0]
  /\ claims = [c \in Custodians |-> [t \in Tokens |-> 0]]
  /\ rate = IF kind = "MANAGED" THEN [InitRate EXCEPT !.keeper = 0] ELSE NoRates
  /\ pending = [l \in Legs |-> NoIncrease]
  /\ owed = [l \in Legs |-> 0]
  /\ lastAccrued = 0 /\ now = 0
  /\ office = [o \in Offices |-> [holder |-> Officers[o], nominee |-> NoOne]]
  /\ treasury = Officers["treasury"]
  /\ flat = [token |-> FALSE, create |-> 0, redeem |-> 0]
  /\ grants = [executor |-> FALSE, settler |-> FALSE]
  /\ gifts = [t \in Tokens |-> 0] /\ exposure = 0
  /\ notice = [manager |-> NoRise, platform |-> NoRise, keeper |-> NoRise,
               recipe |-> [value |-> NoRecipe, since |-> 0]]

-----------------------------------------------------------------------------
AnyRecipe(r) == TRUE

(* The recipe a call brings must be the one committed to.                   *)
CheckRecipe(r) == r = recipe

(* Units of r for their shares, whatever the vault has for those it issued. *)
CreateUnits(a, units, r) ==
  /\ units > 0
  /\ CheckRecipe(r)
  /\ Move(a, Vault, [t \in Tokens |-> Bundle(r, t, units)])
  /\ Reissue(a, units * UnitSize)
  /\ UNCHANGED <<held, isHeld, kind>>

RedeemBeforeAccrual(a, n, r) ==
  /\ CheckRecipe(r)
  /\ n > 0 /\ supply > 0 /\ SharesNow[a] >= n
  /\ Move(Vault, a, [t \in Tokens |-> IF t \in HeldSet THEN (coins[t] * n) \div supply ELSE 0])
  /\ Reissue(a, -n)
  /\ UNCHANGED <<held, isHeld, kind>>

(* Pro rata of what the vault has, at the supply the accrual has left.      *)
RedeemShares(a, n, r) ==
  /\ CheckRecipe(r)
  /\ Redeem(a, n)
  /\ UNCHANGED kind

(* The recipes a call may bring: a vault that stores its own takes none.    *)
Offered == IF kind = "COMMITTED" THEN Recipes \cup {NoRecipe} ELSE {recipe}

UnitOperation ==
  \E a \in Users, r \in Offered :
    \/ \E n \in Units : SupplyNow + n * UnitSize <= MaxShares /\ CreateUnits(a, n, r)
    \/ \E n \in 1..MaxShares : RedeemShares(a, n, r)

(* Of the fee operations, those of FeeCore: there is no keeper leg.         *)
ManagedOperation ==
  /\ kind = "MANAGED"
  /\ FeeOperation
  /\ pending'.keeper = pending.keeper
  /\ UNCHANGED <<assets, target, grants, gifts, kind>>

UnitNext ==
  /\ \/ UnitOperation
     \/ ManagedOperation
     \/ UNCHANGED kind /\ \E from \in Accounts, to \in Users : TransferShares(from, to, shares[from])
     \/ UNCHANGED kind /\ \E u \in Users, t \in Tokens, q \in Quantities :
          gifts[t] + q <= MaxGifts /\ Gift(u, t, q)
     \/ UNCHANGED kind /\ now < MaxNow /\ Tick
  /\ \A t \in Tokens : coins'[t] <= MaxCoins

UnitSpec == UnitInit /\ [][UnitNext]_unitVars

-----------------------------------------------------------------------------
(* A vault without fees always has the recipe's quantities for the shares   *)
(* it issued, partial redeems and donations included                        *)
(* (invariant_neverUnderCollateralized of the code's fuzz test, there for   *)
(* BasketVault only).                                                       *)
NeverUnderCollateralized ==
  kind \in {"BASKET", "COMMITTED"} =>
    \A t \in Tokens : coins[t] * UnitSize >= UnitQty(t) * supply

(* With fees and donations what backs a share moves away from the recipe,   *)
(* yet shares are created at the recipe: whoever stays through a create or  *)
(* redeem then has per share what he had after the fees due with it, or     *)
(* what the recipe says.                                                    *)
StayersKeepUnits ==
  [][supply' # supply /\ kind \in UnitKinds =>
       \A t \in HeldSet :
         \/ coins'[t] * SupplyNow >= coins[t] * supply'
         \/ coins'[t] * UnitSize >= UnitQty(t) * supply']_unitVars
=============================================================================
