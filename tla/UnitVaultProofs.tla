-------------------------- MODULE UnitVaultProofs --------------------------
(***************************************************************************)
(* The basket, committed and managed vaults, for every recipe, unit size,  *)
(* rate and holder.                                                        *)
(*                                                                         *)
(* UnitInv adds to the invariant of the rebalanceable vaults, with which   *)
(* they share ledger, fees and custody, that the list of tokens is the     *)
(* recipe's, and that a vault without fees neither mints nor carries any.  *)
(***************************************************************************)
EXTENDS UnitVault, RebalanceVaultProofs

Free == kind \in {"BASKET", "COMMITTED"}

UnitInv ==
  /\ VaultInv
  /\ \A i \in DOMAIN recipe : recipe[i].token \in isHeld
  /\ Free => rate = NoRates /\ owed = [l \in Legs |-> 0] /\ NeverUnderCollateralized

-----------------------------------------------------------------------------
(* The recipe a vault has is a sequence of legs.                            *)
LEMMA RecipeLegs ==
  ASSUME CustodyInv
  PROVE  /\ Len(recipe) \in Nat /\ DOMAIN recipe = 1..Len(recipe)
         /\ \A i \in DOMAIN recipe : recipe[i].token \in Tokens /\ recipe[i].amount \in Nat
<1>1. recipe \in Seq(Leg)
  BY VaultAssumption DEF CustodyInv
<1>2. \A i \in DOMAIN recipe : recipe[i] \in Leg
  BY <1>1
<1> QED
  BY <1>1, <1>2 DEF Leg

LEMMA UnitQtyNat ==
  ASSUME CustodyInv, NEW t \in Tokens
  PROVE  /\ UnitQty(t) \in Nat
         /\ \A u \in Nat : Bundle(recipe, t, u) \in Nat /\ Bundle(recipe, t, u) = u * UnitQty(t)
<1>1. ASSUME NEW u \in Nat
      PROVE  /\ Bundle(recipe, t, u) \in Nat /\ Bundle(recipe, t, 1) \in Nat
             /\ Bundle(recipe, t, u) = u * Bundle(recipe, t, 1)
  <2> DEFINE m == Len(recipe)
  <2>1. m \in Nat /\ DOMAIN recipe = 1..m /\ \A i \in 1..m : recipe[i].amount \in Nat
    BY RecipeLegs
  <2> HIDE DEF m
  <2> QED
    BY <2>1, BundleNat
<1>2. 0 \in Nat
  OBVIOUS
<1> QED
  BY <1>1, <1>2 DEF UnitQty

(* A rate of nothing comes to nothing.                                      *)
LEMMA FreeMintsNothing ==
  ASSUME FeesInv, rate = NoRates, owed = [l \in Legs |-> 0]
  PROVE  /\ SupplyNow = supply
         /\ \A l \in Legs : OwedNow[l] - MintNow[l] * SCALE = 0
<1>1. /\ supply \in Nat /\ now - lastAccrued \in Nat
      /\ SCALE \in Nat \ {0} /\ BPS \in Nat \ {0} /\ BPS * YEAR \in Nat \ {0}
  <2>1. BPS * YEAR \in Nat /\ BPS * YEAR # 0
    BY FeeAssumption
  <2> QED
    BY <2>1, FeeAssumption DEF FeesInv, FeesTypeOK
<1>2. FeeAddScaled(supply, now - lastAccrued, 0) = 0
  <2> DEFINE e == now - lastAccrued
             den == BPS * YEAR
  <2>1. e \in Nat /\ den \in Nat \ {0} /\ 0 * e = 0 /\ den - 0 = den
    BY <1>1
  <2>2. (supply * 0 * SCALE) \div den = 0
    <3>1. supply * 0 = 0 /\ 0 * SCALE = 0
      BY <1>1
    <3>2. 0 \div den = 0
      BY <2>1
    <3> QED
      BY <3>1, <3>2
  <2>3. FeeAddScaled(supply, e, 0) = IF 0 * e >= den THEN supply * SCALE
                                     ELSE (supply * (0 * e) * SCALE) \div (den - 0 * e)
    BY DEF FeeAddScaled
  <2> HIDE DEF e, den
  <2>4. ~(0 >= den)
    BY <2>1
  <2>5. FeeAddScaled(supply, e, 0) = 0
    BY <2>1, <2>2, <2>3, <2>4
  <2> QED
    BY <2>5 DEF e
<1>3. CeilDiv(0, BPS) = 0
  BY <1>1 DEF CeilDiv
<1>4. rate.manager = 0 /\ rate.keeper = 0 /\ rate.platform = 0
  BY DEF NoRates
<1>5. LegAdd = [manager |-> 0, keeper |-> 0, platform |-> 0]
  <2>1. 0 * 0 = 0 /\ 0 - 0 = 0
    OBVIOUS
  <2> QED
    BY <1>2, <1>3, <1>4, <2>1 DEF LegAdd
<1>6. \A l \in Legs : OwedNow[l] = 0
  BY <1>5 DEF OwedNow, Legs
<1>7. \A l \in Legs : MintNow[l] = 0
  <2>1. 0 \div SCALE = 0
    BY <1>1
  <2> QED
    BY <1>6, <2>1 DEF MintNow
<1>8. SupplyNow = supply
  <2>1. MintNow["manager"] = 0 /\ MintNow["keeper"] = 0 /\ MintNow["platform"] = 0
    BY <1>7 DEF Legs
  <2>2. SupplyNow = supply + MintNow["manager"] + MintNow["platform"] + MintNow["keeper"]
    BY DEF SupplyNow
  <2> QED
    BY <1>1, <2>1, <2>2
<1>9. \A l \in Legs : OwedNow[l] - MintNow[l] * SCALE = 0
  BY <1>1, <1>6, <1>7
<1> QED
  BY <1>8, <1>9

-----------------------------------------------------------------------------
(* A vault as the factory leaves it.                                        *)
LEMMA UnitRates ==
  ASSUME UnitInit
  PROVE  /\ DOMAIN rate = Legs
         /\ \A l \in Legs : rate[l] \in 0..RateMax[l]
<1>1. \A l \in Legs : InitRate[l] \in Nat /\ InitRate[l] <= RateMax[l] /\ RateMax[l] \in Nat
  BY VaultAssumption, FeeAssumption DEF RateMax, Legs
<1>2. DOMAIN InitRate = Legs
  BY VaultAssumption
<1>3. CASE rate = [InitRate EXCEPT !.keeper = 0]
  BY <1>1, <1>2, <1>3 DEF Legs
<1>4. CASE rate = NoRates
  BY <1>1, <1>4 DEF NoRates, Legs
<1> QED
  BY <1>3, <1>4 DEF UnitInit

LEMMA UnitFeesInit == UnitInit => FeesInv
<1> SUFFICES ASSUME UnitInit PROVE FeesInv
  OBVIOUS
<1>1. SumOver(shares, Accounts) = 0
  <2>1. \A a \in Accounts : shares[a] = 0
    BY DEF UnitInit
  <2> QED
    BY <2>1, SumZero, VaultAssumption
<1>2. /\ \A l \in Legs : /\ rate[l] \in 0..RateMax[l]
                         /\ pending[l] \in [bps : 0..RateMax[l], effectiveAt : Nat]
                         /\ owed[l] \in 0..(SCALE - 1)
      /\ DOMAIN rate = Legs /\ DOMAIN pending = Legs /\ DOMAIN owed = Legs
  <2>1. \A l \in Legs : RateMax[l] \in Nat
    BY FeeAssumption DEF RateMax, Legs
  <2>2. 0 \in 0..(SCALE - 1) /\ \A l \in Legs : 0 \in 0..RateMax[l]
    BY <2>1, FeeAssumption
  <2>3. pending = [l \in Legs |-> NoIncrease] /\ owed = [l \in Legs |-> 0]
    BY DEF UnitInit
  <2> QED
    BY <2>2, <2>3, UnitRates DEF NoIncrease
<1>3. /\ office \in [Offices -> [holder : Accounts, nominee : Accounts \cup {NoOne}]]
      /\ treasury \in Accounts
      /\ flat \in [token : BOOLEAN, create : 0..FLAT_FEE_MAX, redeem : 0..FLAT_FEE_MAX]
  <2>1. /\ office = [o \in Offices |-> [holder |-> Officers[o], nominee |-> NoOne]]
        /\ treasury = Officers["treasury"]
        /\ flat = [token |-> FALSE, create |-> 0, redeem |-> 0]
    BY DEF UnitInit
  <2>2. \A o \in Offices \cup {"treasury"} : Officers[o] \in Accounts
    BY VaultAssumption
  <2>3. 0 \in 0..FLAT_FEE_MAX
    BY FeeAssumption
  <2> QED
    BY <2>1, <2>2, <2>3
<1>4. /\ shares \in [Accounts -> Nat] /\ supply = 0 /\ lastAccrued = 0 /\ now = 0 /\ exposure = 0
  BY DEF UnitInit
<1> QED
  BY <1>1, <1>2, <1>3, <1>4 DEF FeesInv, FeesTypeOK

(* The tokens of a valid recipe are listed once each.                       *)
LEMMA UnitCustodyInit ==
  ASSUME UnitInit
  PROVE  CustodyInv /\ \A i \in DOMAIN recipe : recipe[i].token \in isHeld
<1>1. /\ gifts \in [Tokens -> Nat] /\ recipe \in Recipes /\ nextRecipe.effectiveAt = 0
  BY VaultAssumption DEF UnitInit, NoTarget
<1>2. /\ InitRecipe \in Seq(Leg) /\ recipe = InitRecipe
      /\ \A i \in DOMAIN InitRecipe : InitRecipe[i].token \in Tokens
  <2>1. InitRecipe \in Seq(Leg)
    BY VaultAssumption
  <2>2. \A i \in DOMAIN InitRecipe : InitRecipe[i] \in Leg
    BY <2>1
  <2> QED
    BY <2>1, <2>2 DEF Leg, UnitInit
<1>3. held = [i \in DOMAIN InitRecipe |-> InitRecipe[i].token] /\ isHeld = HeldSet
  BY DEF UnitInit
<1>4. held \in Seq(Tokens)
  <2>1. Len(InitRecipe) \in Nat /\ DOMAIN InitRecipe = 1..Len(InitRecipe)
    BY <1>2
  <2> QED
    BY <1>2, <1>3, <2>1
<1>5. \A i \in DOMAIN recipe : recipe[i].token \in isHeld
  BY <1>2, <1>3 DEF HeldSet
<1>6. Listed(held, isHeld)
  <2>1. \A i, j \in DOMAIN InitRecipe : InitRecipe[i].token = InitRecipe[j].token => i = j
    BY DEF UnitInit, ValidRecipe
  <2>2. isHeld \subseteq Tokens
    BY <1>2, <1>3 DEF HeldSet
  <2> QED
    BY <1>3, <1>4, <2>1, <2>2 DEF Listed, HeldSet
<1>7. /\ coins = [t \in Tokens |-> coins[t]]
      /\ claims = [a \in Custodians |-> [t \in Tokens |-> claims[a][t]]]
  BY DEF UnitInit
<1>8. ASSUME NEW t \in Tokens
      PROVE  Top(coins, claims, t) \in Int /\ Top(coins, claims, t) <= gifts[t]
  <2>1. coins[t] = 0 /\ claims[Vault][t] = 0 /\ gifts[t] = 0
    BY DEF UnitInit, Custodians
  <2> QED
    BY <2>1 DEF Top
<1>9. Secure(coins, claims, held, isHeld, gifts)
  BY <1>6, <1>7, <1>8 DEF Secure
<1> QED
  BY <1>1, <1>5, <1>9 DEF CustodyInv

LEMMA UnitInvInit == UnitInit => UnitInv
<1> SUFFICES ASSUME UnitInit PROVE UnitInv
  OBVIOUS
<1>1. Solid(coins, claims)
  <2>1. coins \in [Tokens -> Nat] /\ claims \in [Custodians -> [Tokens -> Nat]]
    BY DEF UnitInit
  <2> QED
    BY <2>1, UnitAssumption DEF Solid
<1>2. /\ nextRecipe \in [recipe : Recipes \cup {NoRecipe}, effectiveAt : Nat]
      /\ grants \in [executor : BOOLEAN, settler : BOOLEAN]
  BY DEF UnitInit, NoTarget
<1>3. VaultInv
  BY <1>1, <1>2, UnitFeesInit, UnitCustodyInit DEF VaultInv
<1>4. Free => rate = NoRates /\ owed = [l \in Legs |-> 0]
  BY DEF UnitInit, Free
<1>5. NeverUnderCollateralized
  <2> SUFFICES ASSUME NEW t \in Tokens PROVE coins[t] * UnitSize >= UnitQty(t) * supply
    BY DEF NeverUnderCollateralized
  <2>1. coins[t] = 0 /\ supply = 0 /\ UnitSize \in Nat /\ UnitQty(t) \in Nat
    BY VaultAssumption, UnitCustodyInit, UnitQtyNat DEF UnitInit
  <2> QED
    BY <2>1
<1> QED
  BY <1>3, <1>4, <1>5, UnitCustodyInit DEF UnitInv

-----------------------------------------------------------------------------
(* What a create moves: the recipe, whole units of it.                      *)
LEMMA CreateMoves ==
  ASSUME VaultInv, NEW a \in Users, NEW u \in Nat, NEW r, CreateUnits(a, u, r)
  PROVE  /\ supply' = SupplyNow + u * UnitSize
         /\ \A t \in Tokens : coins'[t] = coins[t] + u * UnitQty(t)
         /\ Move(a, Vault, [t \in Tokens |-> Bundle(recipe, t, u)])
         /\ Reissue(a, u * UnitSize)
<1>1. /\ Move(a, Vault, [t \in Tokens |-> Bundle(recipe, t, u)])
      /\ Reissue(a, u * UnitSize)
  BY DEF CreateUnits, CheckRecipe
<1>2. \A t \in Tokens : Bundle(recipe, t, u) = u * UnitQty(t)
  BY UnitQtyNat DEF VaultInv
<1>3. \A t \in Tokens : coins'[t] = coins[t] + u * UnitQty(t)
  BY <1>1, <1>2, UnitAssumption DEF Move
<1> QED
  BY <1>1, <1>3 DEF Reissue

(* A create keeps the ledger, the custody and its list.                     *)
LEMMA CreateVault ==
  ASSUME UnitInv, NEW a \in Users, NEW u \in Nat, NEW r, CreateUnits(a, u, r)
  PROVE  VaultInv' /\ recipe' = recipe /\ isHeld' = isHeld
<1> DEFINE amount == [t \in Tokens |-> Bundle(recipe, t, u)]
           delta == u * UnitSize
<1>1. Move(a, Vault, amount) /\ Reissue(a, delta) /\ held' = held /\ isHeld' = isHeld
  BY CreateMoves DEF CreateUnits, UnitInv
<1>2. /\ gifts' = gifts /\ recipe' = recipe /\ nextRecipe' = nextRecipe /\ grants' = grants
  BY <1>1 DEF Reissue, target
<1>3. amount \in [Tokens -> Nat]
  BY UnitQtyNat DEF UnitInv, VaultInv
<1>4. \A t \in Tokens \ isHeld : amount[t] = 0
  <2> SUFFICES ASSUME NEW t \in Tokens \ isHeld PROVE Bundle(recipe, t, u) = 0
    OBVIOUS
  <2>1. \A i \in DOMAIN recipe : recipe[i].token # t
    BY DEF UnitInv
  <2>2. u \in Int
    OBVIOUS
  <2> QED
    BY <2>1, <2>2, NothingOfOthers
<1>5. a \in Accounts /\ a \in Custodians /\ Vault \in Custodians /\ a # Vault
  BY ClaimsUsers DEF Custodians
<1>6. FeesInv'
  <2>1. SharesNow[a] + delta \in Nat /\ delta \in Int
    <3>1. SharesNow[a] \in Nat
      BY <1>5, LedgerNow DEF UnitInv, VaultInv, FeesInv
    <3>2. delta \in Nat
      BY VaultAssumption, TimesNat
    <3> HIDE DEF delta
    <3> QED
      BY <3>1, <3>2
  <2> HIDE DEF delta
  <2> QED
    BY <1>1, <1>5, <2>1, ReissueFees DEF UnitInv, VaultInv
<1> HIDE DEF amount, delta
<1>7. Solid(coins', claims')
  BY <1>1, <1>3, <1>5, MoveSolid DEF UnitInv, VaultInv
<1>8. /\ coins' = [t \in Tokens |-> coins'[t]]
      /\ claims' = [b \in Custodians |-> [t \in Tokens |-> claims'[b][t]]]
      /\ \A t \in Tokens : Top(coins', claims', t) = Top(coins, claims, t) + amount[t]
  BY <1>1, <1>5, MoveIn DEF UnitInv, VaultInv
<1>9. CustodyInv'
  <2>1. \A t \in Tokens \ isHeld : Top(coins', claims', t) = Top(coins, claims, t)
    BY <1>4, <1>8 DEF UnitInv, VaultInv, CustodyInv, Secure
  <2> QED
    BY <1>1, <1>2, <1>8, <2>1 DEF UnitInv, VaultInv, CustodyInv, Secure
<1>10. nextRecipe' = nextRecipe /\ grants' = grants
  BY <1>2
<1> QED
  BY <1>1, <1>2, <1>6, <1>7, <1>9, <1>10 DEF UnitInv, VaultInv, Solid

(* So does every other step: it is one of the rebalanceable vault's, which  *)
(* leaves recipe and list alone.                                            *)
Inherited ==
  \/ \E a \in Users, n \in Nat : Redeem(a, n)
  \/ kind = "MANAGED" /\ FeeOperation /\ UNCHANGED <<assets, target, grants, gifts>>
  \/ \E from \in Accounts, to \in Users : TransferShares(from, to, shares[from])
  \/ \E u \in Users, t \in Tokens, q \in Nat : Gift(u, t, q)
  \/ Tick
  \/ UNCHANGED vars

LEMMA InheritedVault ==
  ASSUME VaultInv, Inherited
  PROVE  VaultInv' /\ recipe' = recipe /\ isHeld' = isHeld
<1>1. FeesInv /\ CustodyInv /\ Solid(coins, claims)
  BY DEF VaultInv
<1>2. SUFFICES /\ FeesInv' /\ CustodyInv' /\ Solid(coins', claims')
               /\ recipe' = recipe /\ isHeld' = isHeld
               /\ nextRecipe' = nextRecipe /\ grants' = grants
  BY DEF VaultInv, Solid
<1>3. CASE \E a \in Users, n \in Nat : Redeem(a, n)
  <2>1. PICK a \in Users, n \in Nat : Redeem(a, n)
    BY <1>3
  <2>2. CustodyInv' /\ FeesInv' /\ Solid(coins', claims')
    BY <1>1, <2>1, RedeemCustody, RedeemSolid
  <2>3. /\ recipe' = recipe /\ isHeld' = isHeld /\ nextRecipe' = nextRecipe /\ grants' = grants
    BY <2>1 DEF Redeem, Reissue, target
  <2> QED
    BY <2>2, <2>3
<1>4. ASSUME UNCHANGED <<assets, target, grants, gifts>>
      PROVE  /\ CustodyInv' /\ Solid(coins', claims')
             /\ recipe' = recipe /\ isHeld' = isHeld
             /\ nextRecipe' = nextRecipe /\ grants' = grants
  BY <1>1, <1>4 DEF assets, target, CustodyInv
<1>5. CASE FeeOperation /\ UNCHANGED <<assets, target, grants, gifts>>
  BY <1>1, <1>4, <1>5, FeeOperationFees
<1>6. CASE \E from \in Accounts, to \in Users : TransferShares(from, to, shares[from])
  <2>1. PICK from \in Accounts, to \in Users : TransferShares(from, to, shares[from])
    BY <1>6
  <2>2. to \in Accounts /\ UNCHANGED <<assets, target, grants, gifts>>
    BY <2>1, ClaimsUsers DEF TransferShares
  <2> QED
    BY <1>1, <1>4, <2>1, <2>2, TransferFees
<1>7. CASE \E u \in Users, t \in Tokens, q \in Nat : Gift(u, t, q)
  <2>1. PICK u \in Users, t \in Tokens, q \in Nat : Gift(u, t, q)
    BY <1>7
  <2>2. CustodyInv' /\ Solid(coins', claims')
    BY <1>1, <2>1, HolderCustody, HolderSolid DEF HolderOperation
  <2>3. UNCHANGED <<fees, now, target, grants, exposure>> /\ isHeld' = isHeld
    BY <2>1 DEF Gift, Others
  <2> QED
    BY <1>1, <2>2, <2>3, FeesStay DEF target
<1>8. CASE Tick
  <2>1. UNCHANGED <<assets, target, grants, gifts>>
    BY <1>8 DEF Tick
  <2> QED
    BY <1>1, <1>4, <1>8, <2>1, TickFees
<1>9. CASE UNCHANGED vars
  <2>1. UNCHANGED <<assets, target, grants, gifts>> /\ UNCHANGED <<fees, now, exposure>>
    BY <1>9 DEF vars
  <2> QED
    BY <1>1, <1>4, <2>1, FeesStay
<1> QED
  BY <1>3, <1>5, <1>6, <1>7, <1>8, <1>9 DEF Inherited

(* The steps of these vaults.                                               *)
LEMMA UnitSteps ==
  ASSUME [UnitNext]_unitVars
  PROVE  /\ kind' = kind
         /\ \/ \E a \in Users, u \in Nat, r \in Offered : CreateUnits(a, u, r)
            \/ Inherited
<1>1. CASE UnitOperation
  <2>1. PICK a \in Users, r \in Offered :
          \/ \E n \in Units : CreateUnits(a, n, r)
          \/ \E n \in 1..MaxShares : RedeemShares(a, n, r)
    BY <1>1 DEF UnitOperation
  <2>2. Units \subseteq Nat /\ MaxShares \in Nat
    BY VaultAssumption
  <2>3. CASE \E n \in Units : CreateUnits(a, n, r)
    BY <2>2, <2>3 DEF CreateUnits
  <2>4. CASE \E n \in 1..MaxShares : RedeemShares(a, n, r)
    BY <2>2, <2>4 DEF RedeemShares, Inherited
  <2> QED
    BY <2>1, <2>3, <2>4
<1>2. CASE ManagedOperation
  BY <1>2 DEF ManagedOperation, Inherited, assets, target
<1>3. CASE UNCHANGED kind /\ \E from \in Accounts, to \in Users : TransferShares(from, to, shares[from])
  BY <1>3 DEF Inherited
<1>4. CASE UNCHANGED kind /\ \E u \in Users, t \in Tokens, q \in Quantities : Gift(u, t, q)
  BY <1>4, VaultAssumption DEF Inherited
<1>5. CASE UNCHANGED kind /\ Tick
  BY <1>5 DEF Inherited
<1>6. CASE UNCHANGED unitVars
  BY <1>6 DEF Inherited, unitVars
<1> QED
  BY <1>1, <1>2, <1>3, <1>4, <1>5, <1>6 DEF UnitNext

-----------------------------------------------------------------------------
(* Arithmetic.                                                              *)
LEMMA Cancel ==
  ASSUME NEW s \in Nat \ {0}, NEW a \in Nat, NEW b \in Nat, s * a >= s * b
  PROVE  a >= b
<1> SUFFICES ASSUME a + 1 <= b PROVE FALSE
  OBVIOUS
<1>1. s * (a + 1) <= s * b /\ s * (a + 1) = s * a + s
  BY TimesMonotone
<1>2. s * a \in Nat /\ s * b \in Nat
  BY TimesNat
<1> QED
  BY <1>1, <1>2

(* What covers s shares and pays n of them no more than their part covers   *)
(* the rest.                                                                *)
LEMMA CoversRest ==
  ASSUME NEW c \in Nat, NEW q \in Nat, NEW s \in Nat \ {0}, NEW n \in Nat,
         NEW unit \in Nat, NEW qty \in Nat,
         n <= s, q <= c, s * q <= c * n, c * unit >= qty * s
  PROVE  (c - q) * unit >= qty * (s - n)
<1> DEFINE d == c - q
           m == s - n
<1>1. d \in Nat /\ m \in Nat
  OBVIOUS
<1>2. d * s >= c * m
  BY LessBacking
<1> HIDE DEF d, m
<1>3. d * s \in Nat /\ c * m \in Nat /\ c * unit \in Nat /\ qty * s \in Nat
      /\ d * unit \in Nat /\ qty * m \in Nat
  BY <1>1, TimesNat
<1>4. unit * (c * m) <= unit * (d * s) /\ m * (qty * s) <= m * (c * unit)
  BY <1>1, <1>2, <1>3, TimesMonotone
<1>5. /\ unit * (d * s) = s * (d * unit) /\ m * (c * unit) = unit * (c * m)
      /\ m * (qty * s) = s * (qty * m)
  BY <1>1
<1>6. s * (d * unit) >= s * (qty * m)
  <2>1. /\ unit * (c * m) \in Nat /\ unit * (d * s) \in Nat
        /\ m * (qty * s) \in Nat /\ m * (c * unit) \in Nat
    BY <1>1, <1>3, TimesNat
  <2> QED
    BY <1>4, <1>5, <2>1
<1>7. d * unit >= qty * m
  BY <1>3, <1>6, Cancel
<1> QED
  BY <1>7 DEF d, m

(* Units added to what covers s shares.                                     *)
LEMMA CoversMore ==
  ASSUME NEW c \in Nat, NEW s \in Nat, NEW u \in Nat, NEW unit \in Nat, NEW qty \in Nat,
         c * unit >= qty * s
  PROVE  (c + u * qty) * unit >= qty * (s + u * unit)
<1>1. (c + u * qty) * unit = c * unit + u * qty * unit
  <2> DEFINE v == u * qty
  <2>1. v \in Nat
    BY TimesNat
  <2> HIDE DEF v
  <2>2. (c + v) * unit = c * unit + v * unit
    BY <2>1
  <2> QED
    BY <2>2 DEF v
<1>2. qty * (s + u * unit) = qty * s + u * qty * unit
  <2> DEFINE v == u * unit
  <2>1. v \in Nat /\ qty * v = u * qty * unit
    BY TimesNat
  <2> HIDE DEF v
  <2>2. qty * (s + v) = qty * s + qty * v
    BY <2>1
  <2> QED
    BY <2>1, <2>2 DEF v
<1>3. c * unit \in Nat /\ qty * s \in Nat /\ u * qty * unit \in Nat
  BY TimesNat
<1> QED
  BY <1>1, <1>2, <1>3

(* Units added to what covers more than the recipe leave what s shares had. *)
LEMMA KeepsMore ==
  ASSUME NEW c \in Nat, NEW s \in Nat, NEW u \in Nat, NEW unit \in Nat, NEW qty \in Nat,
         qty * s >= c * unit
  PROVE  (c + u * qty) * s >= c * (s + u * unit)
<1> DEFINE v == u * qty
           n == u * unit
<1>1. v \in Nat /\ n \in Nat /\ qty * s \in Nat /\ c * unit \in Nat
  BY TimesNat
<1>2. s * v >= c * n
  <2>1. s * v = u * (qty * s) /\ c * n = u * (c * unit)
    OBVIOUS
  <2>2. u * (c * unit) <= u * (qty * s)
    BY <1>1, TimesMonotone
  <2>3. u * (c * unit) \in Nat /\ u * (qty * s) \in Nat
    BY <1>1, TimesNat
  <2> QED
    BY <2>1, <2>2, <2>3
<1> HIDE DEF v, n
<1>3. (c + v) * s >= c * (s + n)
  BY <1>1, <1>2, MoreBacking
<1> QED
  BY <1>3 DEF v, n

-----------------------------------------------------------------------------
(* The recipe does not change, nor what a unit is.                          *)
LEMMA SameUnit == recipe' = recipe => \A t : UnitQty(t)' = UnitQty(t)
BY DEF UnitQty, Bundle, MapThenSumSet, MapThenFoldSet

(* What is had of a token after a redeem, and what was paid for it.         *)
LEMMA RedeemPays ==
  ASSUME VaultInv, VaultInv', NEW a \in Users, NEW n \in Nat, Redeem(a, n),
         NEW t \in Tokens
  PROVE  /\ SupplyNow \in Nat \ {0} /\ n <= SupplyNow /\ supply' = SupplyNow - n
         /\ coins[t] \in Nat /\ Paid(t, n) \in Nat /\ Paid(t, n) <= coins[t]
         /\ coins'[t] = coins[t] - Paid(t, n)
         /\ SupplyNow * Paid(t, n) <= coins[t] * n
<1>1. /\ supply > 0 /\ supply' = SupplyNow - n /\ Backing(t)' = Backing(t) - Paid(t, n)
  BY RedeemMoves
<1>2. /\ Backing(t) = coins[t] /\ Backing(t)' = coins'[t]
      /\ coins[t] \in Nat /\ coins'[t] \in Nat
  BY UnitAssumption DEF Backing, BackingIn, Custody, VaultInv, Solid
<1>3. SupplyNow \in Nat \ {0} /\ supply' \in Nat
  <2>1. SupplyNow \in Nat /\ SupplyNow >= supply /\ supply \in Nat
    BY SupplyNowIs DEF VaultInv
  <2>2. supply' \in Nat
    BY DEF VaultInv, FeesInv, FeesTypeOK
  <2> QED
    BY <1>1, <2>1, <2>2
<1>4. Paid(t, n) \in Nat /\ SupplyNow * Paid(t, n) <= coins[t] * n
  <2>1. coins[t] * n \in Nat
    BY <1>2, TimesNat
  <2>2. CASE t \in HeldSet
    <3>1. Paid(t, n) = (coins[t] * n) \div SupplyNow
      BY <1>2, <2>2 DEF Paid
    <3> QED
      BY <1>3, <2>1, <3>1, DivBounds
  <2>3. CASE t \notin HeldSet
    <3>1. Paid(t, n) = 0 /\ SupplyNow * 0 = 0
      BY <1>3, <2>3 DEF Paid
    <3> QED
      BY <2>1, <3>1
  <2> QED
    BY <2>2, <2>3
<1>5. n <= SupplyNow /\ Paid(t, n) <= coins[t]
  BY <1>1, <1>2, <1>3, <1>4
<1> QED
  BY <1>1, <1>2, <1>3, <1>4, <1>5

(* A step of a vault without fees charges none.                             *)
LEMMA StaysFree ==
  ASSUME VaultInv, Free, rate = NoRates, owed = [l \in Legs |-> 0],
         \/ \E a \in Users, u \in Nat, r \in Offered : CreateUnits(a, u, r)
         \/ Inherited
  PROVE  rate' = NoRates /\ owed' = [l \in Legs |-> 0]
<1>1. \A l \in Legs : OwedNow[l] - MintNow[l] * SCALE = 0
  BY FreeMintsNothing DEF VaultInv
<1>2. ASSUME NEW a, NEW d, Reissue(a, d)
      PROVE  rate' = NoRates /\ owed' = [l \in Legs |-> 0]
  <2>1. rate' = rate /\ owed' = [l \in Legs |-> OwedNow[l] - MintNow[l] * SCALE]
    BY <1>2 DEF Reissue, Accrue
  <2> QED
    BY <1>1, <2>1
<1>3. CASE \E a \in Users, u \in Nat, r \in Offered : CreateUnits(a, u, r)
  <2>1. PICK a \in Users, u \in Nat : Reissue(a, u * UnitSize)
    BY <1>3 DEF CreateUnits
  <2> QED
    BY <1>2, <2>1
<1>4. CASE \E a \in Users, n \in Nat : Redeem(a, n)
  <2>1. PICK a \in Users, n \in Nat : Reissue(a, -n)
    BY <1>4 DEF Redeem
  <2> QED
    BY <1>2, <2>1
<1>5. CASE UNCHANGED feeState
  BY <1>5 DEF feeState
<1> QED
  BY <1>3, <1>4, <1>5 DEF Inherited, Free, TransferShares, Gift, Others, Tick, vars, fees

(* A step of a vault without fees leaves every share covered.               *)
LEMMA StaysCovered ==
  ASSUME VaultInv, VaultInv', Free, rate = NoRates, owed = [l \in Legs |-> 0],
         NEW t \in Tokens, coins[t] * UnitSize >= UnitQty(t) * supply,
         \/ \E a \in Users, u \in Nat, r \in Offered : CreateUnits(a, u, r)
         \/ Inherited
  PROVE  coins'[t] * UnitSize >= UnitQty(t) * supply'
<1>1. SupplyNow = supply
  BY FreeMintsNothing DEF VaultInv
<1>2. /\ coins[t] \in Nat /\ coins'[t] \in Nat /\ supply \in Nat /\ UnitSize \in Nat
      /\ UnitQty(t) \in Nat
  BY VaultAssumption, UnitQtyNat DEF VaultInv, Solid, FeesInv, FeesTypeOK
<1>3. CASE \E a \in Users, u \in Nat, r \in Offered : CreateUnits(a, u, r)
  <2>1. PICK a \in Users, u \in Nat : \E r \in Offered : CreateUnits(a, u, r)
    BY <1>3
  <2>2. supply' = supply + u * UnitSize /\ coins'[t] = coins[t] + u * UnitQty(t)
    BY <1>1, <2>1, CreateMoves
  <2> QED
    BY <1>2, <2>2, CoversMore
<1>4. CASE \E a \in Users, n \in Nat : Redeem(a, n)
  <2>1. PICK a \in Users, n \in Nat : Redeem(a, n)
    BY <1>4
  <2> DEFINE q == Paid(t, n)
  <2>2. /\ supply \in Nat \ {0} /\ n <= supply /\ supply' = supply - n
        /\ q \in Nat /\ q <= coins[t] /\ coins'[t] = coins[t] - q
        /\ supply * q <= coins[t] * n
    BY <1>1, <2>1, RedeemPays
  <2> HIDE DEF q
  <2> QED
    BY <1>2, <2>2, CoversRest
<1>5. CASE \E u \in Users, x \in Tokens, q \in Nat : Gift(u, x, q)
  <2>1. PICK u \in Users, x \in Tokens, q \in Nat : Gift(u, x, q)
    BY <1>5
  <2>2. supply' = supply /\ coins'[t] = coins[t] + (IF t = x THEN q ELSE 0)
    BY <2>1, UnitAssumption DEF Gift, Move, Others, fees, ledger
  <2>3. coins[t] <= coins'[t]
    BY <1>2, <2>2
  <2>4. UnitSize * coins[t] <= UnitSize * coins'[t]
    BY <1>2, <2>3, TimesMonotone
  <2>5. /\ UnitSize * coins[t] = coins[t] * UnitSize /\ UnitSize * coins'[t] = coins'[t] * UnitSize
        /\ coins[t] * UnitSize \in Nat /\ coins'[t] * UnitSize \in Nat
        /\ UnitQty(t) * supply \in Nat
    BY <1>2, TimesNat
  <2> QED
    BY <2>2, <2>4, <2>5
<1>6. CASE UNCHANGED <<coins, supply>>
  BY <1>6
<1> QED
  BY <1>3, <1>4, <1>5, <1>6 DEF Inherited, Free, TransferShares, Tick, vars, fees, ledger, assets

LEMMA UnitStep == UnitInv /\ [UnitNext]_unitVars => UnitInv'
<1> SUFFICES ASSUME UnitInv, [UnitNext]_unitVars PROVE UnitInv'
  OBVIOUS
<1>1. /\ kind' = kind
      /\ \/ \E a \in Users, u \in Nat, r \in Offered : CreateUnits(a, u, r)
         \/ Inherited
  BY UnitSteps
<1>2. VaultInv' /\ recipe' = recipe /\ isHeld' = isHeld
  <2>1. CASE Inherited
    BY <2>1, InheritedVault DEF UnitInv
  <2>2. CASE \E a \in Users, u \in Nat, r \in Offered : CreateUnits(a, u, r)
    BY <2>2, CreateVault
  <2> QED
    BY <1>1, <2>1, <2>2
<1>3. (\A i \in DOMAIN recipe : recipe[i].token \in isHeld)'
  BY <1>2 DEF UnitInv
<1>4. ASSUME Free
      PROVE  (rate = NoRates /\ owed = [l \in Legs |-> 0] /\ NeverUnderCollateralized)'
  <2>1. VaultInv /\ rate = NoRates /\ owed = [l \in Legs |-> 0]
    BY <1>4 DEF UnitInv
  <2>2. \A t \in Tokens : coins[t] * UnitSize >= UnitQty(t) * supply
    BY <1>4 DEF UnitInv, Free, NeverUnderCollateralized
  <2>3. \A t \in Tokens : coins'[t] * UnitSize >= UnitQty(t) * supply'
    BY <1>1, <1>2, <1>4, <2>1, <2>2, StaysCovered
  <2>4. NeverUnderCollateralized'
    BY <1>2, <2>3, SameUnit DEF NeverUnderCollateralized
  <2> QED
    BY <1>1, <1>4, <2>1, <2>4, StaysFree
<1>5. Free' = Free
  BY <1>1 DEF Free
<1> QED
  BY <1>2, <1>3, <1>4, <1>5 DEF UnitInv

(* A vault without fees has for every share what the recipe says, whatever  *)
(* was created, redeemed in parts, or sent to it.                           *)
THEOREM FreeVaultsAreCovered == UnitSpec => []NeverUnderCollateralized
<1>1. UnitInv => NeverUnderCollateralized
  BY DEF UnitInv, Free, NeverUnderCollateralized
<1> QED
  BY <1>1, UnitInvInit, UnitStep, PTL DEF UnitSpec

(* Every variable keeps its type: no redeem, at whatever supply the accrual *)
(* leaves, pays more than the vault has.                                    *)
THEOREM UnitVaultTyped == UnitSpec => []TypeOK
<1>1. UnitInv => TypeOK
  BY VaultInvIsStrong DEF UnitInv
<1> QED
  BY <1>1, UnitInvInit, UnitStep, PTL DEF UnitSpec

-----------------------------------------------------------------------------
(* Who stays through a change of the supply.                                *)
LEMMA StayStep ==
  ASSUME UnitInv, [UnitNext]_unitVars, supply' # supply, NEW t \in HeldSet
  PROVE  \/ coins'[t] * SupplyNow >= coins[t] * supply'
         \/ coins'[t] * UnitSize >= UnitQty(t) * supply'
<1>1. /\ t \in Tokens /\ VaultInv /\ VaultInv'
  BY UnitStep DEF UnitInv, VaultInv, CustodyInv, Secure, Listed, HeldSet
<1>2. /\ coins[t] \in Nat /\ SupplyNow \in Nat /\ UnitSize \in Nat /\ UnitQty(t) \in Nat
  BY <1>1, VaultAssumption, UnitQtyNat, SupplyNowIs DEF VaultInv, Solid
<1>3. CASE \E a \in Users, u \in Nat, r \in Offered : CreateUnits(a, u, r)
  <2>1. PICK a \in Users, u \in Nat : \E r \in Offered : CreateUnits(a, u, r)
    BY <1>3
  <2>2. supply' = SupplyNow + u * UnitSize /\ coins'[t] = coins[t] + u * UnitQty(t)
    BY <1>1, <2>1, CreateMoves
  <2>3. coins[t] * UnitSize \in Nat /\ UnitQty(t) * SupplyNow \in Nat
    BY <1>2, TimesNat
  <2>4. CASE coins[t] * UnitSize >= UnitQty(t) * SupplyNow
    BY <1>2, <2>2, <2>4, CoversMore
  <2>5. CASE UnitQty(t) * SupplyNow >= coins[t] * UnitSize
    BY <1>2, <2>2, <2>5, KeepsMore
  <2> QED
    BY <2>3, <2>4, <2>5
<1>4. CASE \E a \in Users, n \in Nat : Redeem(a, n)
  <2>1. PICK a \in Users, n \in Nat : Redeem(a, n)
    BY <1>4
  <2> DEFINE q == Paid(t, n)
  <2>2. /\ supply' = SupplyNow - n /\ q \in Nat /\ coins'[t] = coins[t] - q
        /\ SupplyNow * q <= coins[t] * n
    BY <1>1, <2>1, RedeemPays
  <2> HIDE DEF q
  <2>3. (coins[t] - q) * SupplyNow >= coins[t] * (SupplyNow - n)
    BY <1>2, <2>2, LessBacking
  <2> QED
    BY <2>2, <2>3
<1>5. CASE FeeOperation /\ UNCHANGED assets
  <2>1. AccrueLedger
    BY <1>5 DEF FeeOperation, AccrueFee, SetRate, ActivateRate, SetTreasury, Accept, Nominate,
                SetFeeToken, SetFlatFee, ledger
  <2>2. coins'[t] = coins[t] /\ supply' = SupplyNow
    BY <1>5, <2>1 DEF AccrueLedger, assets
  <2>3. coins[t] * SupplyNow \in Nat
    BY <1>2, TimesNat
  <2> QED
    BY <2>2, <2>3
<1>6. CASE UNCHANGED supply
  BY <1>6
<1> QED
  BY <1>3, <1>4, <1>5, <1>6, UnitSteps DEF Inherited, TransferShares, Gift, Others, Tick, vars,
     fees, ledger, assets

(* Through a create or redeem those who stay keep per share what they had   *)
(* after the fees that fall due with it, or what the recipe says, in every  *)
(* kind of vault, for every recipe and every rate.                          *)
THEOREM StayersKeepWhatTheyHad == UnitSpec => StayersKeepUnits
<1>1. UnitInv /\ [UnitNext]_unitVars =>
        (supply' # supply /\ kind \in UnitKinds =>
           \A t \in HeldSet :
             \/ coins'[t] * SupplyNow >= coins[t] * supply'
             \/ coins'[t] * UnitSize >= UnitQty(t) * supply')
  BY StayStep
<1> QED
  BY <1>1, UnitInvInit, UnitStep, PTL DEF UnitSpec, StayersKeepUnits
=============================================================================
