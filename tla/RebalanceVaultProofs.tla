------------------------ MODULE RebalanceVaultProofs ------------------------
(***************************************************************************)
(* What the vaults promise whatever the recipes, the rates, the holders    *)
(* and the swaps: no fee rises and no recipe changes without its notice, a *)
(* flat fee always has a token to be paid in, the custody set lists what   *)
(* backs shares, every claim can be unwrapped, those who stay keep what    *)
(* backs their shares, a quote is what moves, and a fee is what the rates  *)
(* come to.                                                                *)
(*                                                                         *)
(* NoticeInv and CustodyInv stand on their own.  VaultInv adds the types,  *)
(* that balances add up to the supply, and that claims add up to tokens;   *)
(* ChargeInv adds whom fees are paid to and since when.                    *)
(***************************************************************************)
EXTENDS RebalanceVault, TotalsProofs

Announced == Legs \cup {"recipe"}

-----------------------------------------------------------------------------
(* The notice of fees and recipes.                                          *)

(* What is pending is what was announced, and falls due TIMELOCK after it.  *)
PendingIsAnnounced ==
  /\ \A l \in Legs : pending[l].effectiveAt # 0 =>
       /\ notice[l].value = pending[l].bps
       /\ pending[l].effectiveAt = notice[l].since + TIMELOCK
  /\ nextRecipe.effectiveAt # 0 =>
       /\ notice["recipe"].value = nextRecipe.recipe
       /\ nextRecipe.effectiveAt = notice["recipe"].since + TIMELOCK

NoticeInv ==
  /\ now \in Nat
  /\ rate \in [Legs -> Nat]
  /\ pending \in [Legs -> [bps : Nat, effectiveAt : Nat]]
  /\ notice = [x \in Announced |-> notice[x]]
  /\ PendingIsAnnounced

Risen ==
  /\ \A l \in Legs : rate'[l] > rate[l] =>
       notice[l].value = rate'[l] /\ now >= notice[l].since + TIMELOCK
  /\ recipe' # recipe =>
       /\ notice["recipe"].value = recipe'
       /\ now >= notice["recipe"].since + TIMELOCK

Kept == UNCHANGED <<rate, pending, notice, now, recipe, nextRecipe>>

(* A step that leaves rates, recipes and announcements alone.               *)
LEMMA KeptNotice == NoticeInv /\ Kept => NoticeInv' /\ Risen
<1> SUFFICES ASSUME NoticeInv, Kept
             PROVE  NoticeInv' /\ Risen
  OBVIOUS
<1>1. NoticeInv'
  BY DEF NoticeInv, Kept, PendingIsAnnounced
<1>2. Risen
  BY DEF NoticeInv, Kept, Risen
<1> QED
  BY <1>1, <1>2

(* What an operation on shares leaves alone; it accrues up to now, or, as a *)
(* bootstrap, not at all.                                                   *)
Reissued ==
  /\ UNCHANGED <<rate, pending, notice, now, recipe, nextRecipe, office, treasury, flat>>
  /\ (lastAccrued' = now /\ exposure' = 0) \/ UNCHANGED <<lastAccrued, exposure>>

LEMMA ShareOperationIs ==
  ASSUME ShareOperation
  PROVE  Reissued
<1>1. ASSUME NEW a, NEW d, Reissue(a, d) PROVE Reissued
  BY <1>1 DEF Reissue, Accrue, Reissued, roles, target
<1>2. ASSUME NEW u, NEW v, NEW n, MintAgainst(u, v, n) PROVE Reissued
  <2>1. Reissue(v, n)
    BY <1>2 DEF MintAgainst
  <2> QED
    BY <1>1, <2>1
<1>3. ASSUME NEW a, NEW d, Issue(a, d) PROVE Reissued
  BY <1>3 DEF Issue, Reissued, roles, target, feeState
<1>4. ASSUME NEW u, NEW n, Redeem(u, n) PROVE Reissued
  <2>1. Reissue(u, -n)
    BY <1>4 DEF Redeem
  <2> QED
    BY <1>1, <2>1
<1>5. CASE \E u \in Users, n \in Units : SupplyNow + n <= MaxShares /\ Create(u, n)
  BY <1>2, <1>5 DEF Create
<1>6. CASE \E ap, to \in Users, n \in Units :
             ap # to /\ SupplyNow + n <= MaxShares /\ SettleCreate(ap, to, n)
  BY <1>2, <1>6 DEF SettleCreate
<1>7. CASE \E u \in Users, n \in Units : CreateFirst(u, n)
  BY <1>1, <1>7 DEF CreateFirst
<1>8. CASE \E u \in Users, n \in Units, k \in 0..MaxLegs :
             \E picks \in [1..k -> DOMAIN recipe] : Bootstrap(u, n, picks)
  BY <1>3, <1>8 DEF Bootstrap
<1>9. CASE \E u \in Users, n \in 1..MaxShares : Redeem(u, n)
  BY <1>4, <1>9
<1> QED
  BY <1>5, <1>6, <1>7, <1>8, <1>9 DEF ShareOperation

(* What a holder can do to the tokens and claims of the vault.              *)
HolderOperation(u, t, q) ==
  Wrap(u, t, q) \/ Unwrap(u, t, q) \/ UnwrapToVault(u, t, q) \/ Stray(t, q) \/ Gift(u, t, q)

(* Rebalancing, wrapping and gifts move assets only.                        *)
LEMMA AssetOperationIs ==
  ASSUME AssetOperation
  PROVE  UNCHANGED Others
<1>1. ASSUME NEW acquire, NEW release, ExecuteRebalance(acquire, release)
      PROVE  UNCHANGED Others
  BY <1>1 DEF ExecuteRebalance
<1>2. ASSUME NEW u, NEW t, NEW q, HolderOperation(u, t, q)
      PROVE  UNCHANGED Others
  BY <1>2 DEF HolderOperation, Wrap, Unwrap, UnwrapToVault, Stray, Gift
<1> QED
  BY <1>1, <1>2 DEF AssetOperation, HolderOperation

(* Outside shares and fees nothing touches the supply, the fees or who is   *)
(* paid them, and only time touches what has come due.                      *)
LEMMA QuietFees ==
  ASSUME [Next]_vars, ~ShareOperation, ~FeeOperation
  PROVE  /\ UNCHANGED <<supply, rate, pending, owed, lastAccrued, office, treasury, flat>>
         /\ Tick \/ UNCHANGED <<now, exposure>>
<1> USE DEF fees, ledger, feeState, roles
<1>1. CASE \E from \in Accounts, to \in Users : TransferShares(from, to, shares[from])
  BY <1>1 DEF TransferShares
<1>2. CASE AssetOperation
  <2>1. UNCHANGED Others
    BY <1>2, AssetOperationIs
  <2> QED
    BY <2>1 DEF Others
<1>3. CASE \E r \in Recipes \cup {NoRecipe} : ScheduleRecipe(r)
  BY <1>3 DEF ScheduleRecipe
<1>4. CASE ActivateRecipe
  BY <1>4 DEF ActivateRecipe
<1>5. CASE \E who \in Grantees, b \in BOOLEAN : Grant(who, b)
  BY <1>5 DEF Grant
<1>6. CASE Tick
  BY <1>6 DEF Tick
<1>7. CASE UNCHANGED vars
  BY <1>7 DEF vars
<1> QED
  BY <1>1, <1>2, <1>3, <1>4, <1>5, <1>6, <1>7 DEF Next

(* Neither shares nor assets ever touch a rate or a recipe.                 *)
LEMMA QuietVault ==
  ASSUME \/ ShareOperation
         \/ AssetOperation
         \/ \E from \in Accounts, to \in Users : TransferShares(from, to, shares[from])
         \/ \E who \in Grantees, b \in BOOLEAN : Grant(who, b)
         \/ UNCHANGED vars
  PROVE  Kept
<1> USE DEF Kept, target, feeState, fees
<1>1. CASE ShareOperation
  BY <1>1, ShareOperationIs DEF Reissued
<1>2. CASE AssetOperation
  BY <1>2, AssetOperationIs DEF Others
<1>3. CASE \E from \in Accounts, to \in Users : TransferShares(from, to, shares[from])
  BY <1>3 DEF TransferShares
<1>4. CASE \E who \in Grantees, b \in BOOLEAN : Grant(who, b)
  BY <1>4 DEF Grant
<1>5. CASE UNCHANGED vars
  BY <1>5 DEF vars
<1> QED
  BY <1>1, <1>2, <1>3, <1>4, <1>5

(* A rate that is set applies when it is lower and is announced when        *)
(* higher.                                                                  *)
LEMMA SetRateNotice ==
  ASSUME NoticeInv, NEW l \in Legs, NEW b \in Rates, SetRate(l, b), Noticed(l, b),
         UNCHANGED target
  PROVE  NoticeInv' /\ Risen
<1>1. /\ now' = now /\ recipe' = recipe /\ nextRecipe' = nextRecipe /\ b \in Nat
      /\ ApplyOrSchedule(l, b)
  BY VaultAssumption DEF SetRate, target
<1>2. /\ rate[l] \in Nat /\ now \in Nat /\ TIMELOCK \in Nat /\ "recipe" \notin Legs
      /\ l \in Announced
  BY FeeAssumption DEF NoticeInv, Legs, Announced
<1>3. CASE b <= rate[l]
  <2>1. /\ rate' = [rate EXCEPT ![l] = b]
        /\ pending' = [pending EXCEPT ![l] = NoIncrease]
        /\ notice' = [notice EXCEPT ![l] = NoRise]
    BY <1>1, <1>3 DEF ApplyOrSchedule, Noticed
  <2>2. /\ \A m \in Legs : rate'[m] = IF m = l THEN b ELSE rate[m]
        /\ \A m \in Legs : pending'[m] = IF m = l THEN NoIncrease ELSE pending[m]
        /\ \A x \in Announced \ {l} : notice'[x] = notice[x]
    BY <2>1 DEF NoticeInv
  <2>3. PendingIsAnnounced'
    <3>1. \A m \in Legs : pending'[m].effectiveAt # 0 =>
            m # l /\ notice'[m] = notice[m] /\ pending'[m] = pending[m]
      BY <2>2 DEF NoIncrease, Announced
    <3>2. notice'["recipe"] = notice["recipe"]
      BY <1>2, <2>2 DEF Announced
    <3> QED
      BY <1>1, <3>1, <3>2 DEF NoticeInv, PendingIsAnnounced
  <2>4. NoticeInv'
    BY <1>1, <2>1, <2>3 DEF NoticeInv, NoIncrease
  <2>5. Risen
    BY <1>1, <1>2, <1>3, <2>2 DEF Risen, NoticeInv
  <2> QED
    BY <2>4, <2>5
<1>4. CASE ~(b <= rate[l])
  <2>1. /\ rate' = rate
        /\ pending' = [pending EXCEPT ![l] = [bps |-> b, effectiveAt |-> now + TIMELOCK]]
        /\ notice' = [notice EXCEPT ![l] = [value |-> b, since |-> now]]
    BY <1>1, <1>4 DEF ApplyOrSchedule, Noticed
  <2>2. /\ \A m \in Legs : pending'[m] = IF m = l THEN [bps |-> b, effectiveAt |-> now + TIMELOCK]
                                                  ELSE pending[m]
        /\ \A x \in Announced :
             notice'[x] = IF x = l THEN [value |-> b, since |-> now] ELSE notice[x]
    BY <2>1 DEF NoticeInv
  <2>3. PendingIsAnnounced'
    <3>1. \A m \in Legs \ {l} : notice'[m] = notice[m] /\ pending'[m] = pending[m]
      BY <2>2 DEF Announced
    <3>2. notice'["recipe"] = notice["recipe"]
      BY <1>2, <2>2 DEF Announced
    <3>3. /\ pending'[l].bps = b /\ pending'[l].effectiveAt = now + TIMELOCK
          /\ notice'[l].value = b /\ notice'[l].since = now
      BY <1>2, <2>2
    <3> QED
      BY <1>1, <3>1, <3>2, <3>3 DEF NoticeInv, PendingIsAnnounced
  <2>4. NoticeInv'
    <3>1. [bps |-> b, effectiveAt |-> now + TIMELOCK] \in [bps : Nat, effectiveAt : Nat]
      BY <1>1, <1>2
    <3>2. pending' \in [Legs -> [bps : Nat, effectiveAt : Nat]]
      BY <2>1, <3>1 DEF NoticeInv
    <3>3. notice' = [x \in Announced |-> notice'[x]]
      BY <2>1 DEF NoticeInv
    <3> QED
      BY <1>1, <2>1, <2>3, <3>2, <3>3 DEF NoticeInv
  <2>5. Risen
    BY <1>1, <2>1 DEF Risen, NoticeInv
  <2> QED
    BY <2>4, <2>5
<1> QED
  BY <1>3, <1>4

LEMMA ActivateRateNotice ==
  ASSUME NoticeInv, NEW l \in Legs, ActivateRate(l), Noticed(l, 0), UNCHANGED target
  PROVE  NoticeInv' /\ Risen
<1>1. /\ now' = now /\ recipe' = recipe /\ nextRecipe' = nextRecipe
      /\ pending[l].effectiveAt # 0 /\ now >= pending[l].effectiveAt
      /\ rate' = [rate EXCEPT ![l] = pending[l].bps]
      /\ pending' = [pending EXCEPT ![l] = NoIncrease]
  BY DEF ActivateRate, target
<1>2. /\ rate[l] \in Nat /\ pending[l].bps \in Nat /\ "recipe" \notin Legs /\ l \in Announced
  BY DEF NoticeInv, Legs, Announced
<1>3. notice' = [notice EXCEPT ![l] = NoRise]
  <2>1. 0 <= rate[l]
    BY <1>2
  <2> QED
    BY <2>1 DEF Noticed
<1>4. /\ \A m \in Legs : rate'[m] = IF m = l THEN pending[l].bps ELSE rate[m]
      /\ \A m \in Legs : pending'[m] = IF m = l THEN NoIncrease ELSE pending[m]
      /\ \A x \in Announced \ {l} : notice'[x] = notice[x]
  BY <1>1, <1>3 DEF NoticeInv
<1>5. PendingIsAnnounced'
  <2>1. \A m \in Legs : pending'[m].effectiveAt # 0 =>
          m # l /\ notice'[m] = notice[m] /\ pending'[m] = pending[m]
    BY <1>4 DEF NoIncrease, Announced
  <2>2. notice'["recipe"] = notice["recipe"]
    BY <1>2, <1>4 DEF Announced
  <2> QED
    BY <1>1, <2>1, <2>2 DEF NoticeInv, PendingIsAnnounced
<1>6. NoticeInv'
  BY <1>1, <1>2, <1>3, <1>5 DEF NoticeInv, NoIncrease
<1>7. Risen
  <2>1. notice[l].value = pending[l].bps /\ now >= notice[l].since + TIMELOCK
    BY <1>1 DEF NoticeInv, PendingIsAnnounced
  <2>2. \A m \in Legs : rate'[m] > rate[m] => m = l
    BY <1>4 DEF NoticeInv
  <2> QED
    BY <1>1, <1>4, <2>1, <2>2 DEF Risen
<1> QED
  BY <1>6, <1>7

LEMMA FeeNotice == NoticeInv /\ FeeOperation /\ UNCHANGED target => NoticeInv' /\ Risen
<1> SUFFICES ASSUME NoticeInv, FeeOperation, UNCHANGED target
             PROVE  NoticeInv' /\ Risen
  OBVIOUS
<1>1. CASE AccrueFee /\ UNCHANGED notice
  <2>1. Kept
    BY <1>1 DEF AccrueFee, Kept, target
  <2> QED
    BY <2>1, KeptNotice
<1>2. CASE \E l \in Legs : \E b \in Rates : SetRate(l, b) /\ Noticed(l, b)
  BY <1>2, SetRateNotice
<1>3. CASE \E l \in Legs : ActivateRate(l) /\ Noticed(l, 0)
  BY <1>3, ActivateRateNotice
<1>4. CASE /\ \/ \E a \in Treasuries : SetTreasury(a)
              \/ \E o \in Offices : Accept(o) \/ \E a \in Treasuries \cup {NoOne} : Nominate(o, a)
              \/ \E b \in FeeTokens : SetFeeToken(b)
              \/ \E side \in {"create", "redeem"}, f \in FlatFees : SetFlatFee(side, f)
           /\ UNCHANGED notice
  <2>1. Kept
    BY <1>4 DEF SetTreasury, Accept, Nominate, SetFeeToken, SetFlatFee, feeState, Kept, target
  <2> QED
    BY <2>1, KeptNotice
<1> QED
  BY <1>1, <1>2, <1>3, <1>4 DEF FeeOperation

LEMMA ScheduleNotice ==
  ASSUME NoticeInv, NEW r, ScheduleRecipe(r)
  PROVE  NoticeInv' /\ Risen
<1>1. /\ nextRecipe' = [recipe |-> r, effectiveAt |-> now + TIMELOCK]
      /\ notice' = [notice EXCEPT !["recipe"] = [value |-> r, since |-> now]]
      /\ now' = now /\ recipe' = recipe /\ rate' = rate /\ pending' = pending
  BY DEF ScheduleRecipe, fees, feeState
<1>2. now \in Nat /\ TIMELOCK \in Nat /\ "recipe" \notin Legs /\ "recipe" \in Announced
  BY FeeAssumption DEF NoticeInv, Legs, Announced
<1>3. /\ \A l \in Legs : notice'[l] = notice[l]
      /\ notice'["recipe"] = [value |-> r, since |-> now]
  BY <1>1, <1>2 DEF NoticeInv, Announced
<1>4. PendingIsAnnounced'
  BY <1>1, <1>2, <1>3 DEF NoticeInv, PendingIsAnnounced
<1>5. NoticeInv'
  BY <1>1, <1>4 DEF NoticeInv
<1>6. Risen
  BY <1>1 DEF Risen, NoticeInv
<1> QED
  BY <1>5, <1>6

LEMMA ActivateNotice == NoticeInv /\ ActivateRecipe => NoticeInv' /\ Risen
<1> SUFFICES ASSUME NoticeInv, ActivateRecipe
             PROVE  NoticeInv' /\ Risen
  OBVIOUS
<1>1. /\ nextRecipe.effectiveAt # 0 /\ now >= nextRecipe.effectiveAt
      /\ recipe' = nextRecipe.recipe /\ nextRecipe' = NoTarget
      /\ now' = now /\ notice' = notice /\ rate' = rate /\ pending' = pending
  BY DEF ActivateRecipe, fees, feeState
<1>2. NoticeInv'
  BY <1>1 DEF NoticeInv, PendingIsAnnounced, NoTarget
<1>3. Risen
  BY <1>1 DEF Risen, NoticeInv, PendingIsAnnounced
<1> QED
  BY <1>2, <1>3

(* Every step keeps the notice and raises only what was announced.          *)
LEMMA NoticeStep == NoticeInv /\ [Next]_vars => NoticeInv' /\ Risen
<1> SUFFICES ASSUME NoticeInv, [Next]_vars
             PROVE  NoticeInv' /\ Risen
  OBVIOUS
<1>1. CASE FeeOperation /\ UNCHANGED target
  BY <1>1, FeeNotice
<1>2. CASE \/ ShareOperation
           \/ AssetOperation
           \/ \E from \in Accounts, to \in Users : TransferShares(from, to, shares[from])
           \/ \E who \in Grantees, b \in BOOLEAN : Grant(who, b)
           \/ UNCHANGED vars
  BY <1>2, QuietVault, KeptNotice
<1>3. CASE \E r \in Recipes \cup {NoRecipe} : ScheduleRecipe(r)
  BY <1>3, ScheduleNotice
<1>4. CASE ActivateRecipe
  BY <1>4, ActivateNotice
<1>5. CASE Tick
  <2>1. /\ now' = now + 1 /\ rate' = rate /\ pending' = pending /\ notice' = notice
        /\ recipe' = recipe /\ nextRecipe' = nextRecipe
    BY <1>5 DEF Tick, fees, feeState, target
  <2>2. NoticeInv'
    BY <2>1 DEF NoticeInv, PendingIsAnnounced
  <2>3. Risen
    BY <2>1 DEF NoticeInv, Risen
  <2> QED
    BY <2>2, <2>3
<1> QED
  BY <1>1, <1>2, <1>3, <1>4, <1>5 DEF Next

LEMMA NoticeInit == Init => NoticeInv
<1> SUFFICES ASSUME Init PROVE NoticeInv
  OBVIOUS
<1>1. rate \in [Legs -> Nat] /\ now \in Nat
  BY VaultAssumption DEF Init
<1>2. pending \in [Legs -> [bps : Nat, effectiveAt : Nat]]
  BY DEF Init, NoIncrease
<1>3. notice = [x \in Announced |-> notice[x]]
  BY DEF Init, Announced, Legs
<1>4. PendingIsAnnounced
  BY DEF Init, PendingIsAnnounced, NoIncrease, NoTarget
<1> QED
  BY <1>1, <1>2, <1>3, <1>4 DEF NoticeInv

(* No fee of the fund rises and no recipe takes effect that was not         *)
(* announced TIMELOCK before and stood unchanged since.                     *)
THEOREM RisesAreAnnounced == Spec => NoticeGiven
<1>1. Risen => /\ \A l \in Legs : rate'[l] > rate[l] =>
                    notice[l].value = rate'[l] /\ now >= notice[l].since + TIMELOCK
               /\ recipe' # recipe =>
                    /\ notice["recipe"].value = recipe'
                    /\ now >= notice["recipe"].since + TIMELOCK
  BY DEF Risen
<1> QED
  BY <1>1, NoticeInit, NoticeStep, PTL DEF Spec, NoticeGiven

-----------------------------------------------------------------------------
(* Flat fees.                                                               *)

FlatInv ==
  /\ flat \in [token : BOOLEAN, create : Nat, redeem : Nat]
  /\ FlatFeePayable

(* A flat fee can always be paid: it is only set once there is a token, and *)
(* the token stays while a fee does.                                        *)
THEOREM FlatFeesHaveAToken == Spec => []FlatFeePayable
<1>1. Init => FlatInv
  BY DEF Init, FlatInv, FlatFeePayable
<1>2. FlatInv /\ [Next]_vars => FlatInv'
  <2> SUFFICES ASSUME FlatInv, [Next]_vars PROVE FlatInv'
    OBVIOUS
  <2>1. CASE flat' = flat
    BY <2>1 DEF FlatInv, FlatFeePayable
  <2>2. CASE \E b \in FeeTokens : SetFeeToken(b)
    <3>1. PICK b \in FeeTokens : SetFeeToken(b)
      BY <2>2
    <3>2. b \in BOOLEAN
      BY VaultAssumption
    <3> QED
      BY <3>1, <3>2 DEF SetFeeToken, FlatInv, FlatFeePayable
  <2>3. CASE \E side \in {"create", "redeem"}, f \in FlatFees : SetFlatFee(side, f)
    <3>1. PICK side \in {"create", "redeem"}, f \in FlatFees : SetFlatFee(side, f)
      BY <2>3
    <3>2. f \in Nat
      BY VaultAssumption
    <3>3. CASE side = "create"
      BY <3>1, <3>2, <3>3 DEF SetFlatFee, FlatInv, FlatFeePayable
    <3>4. CASE side = "redeem"
      BY <3>1, <3>2, <3>4 DEF SetFlatFee, FlatInv, FlatFeePayable
    <3> QED
      BY <3>3, <3>4
  <2>4. CASE FeeOperation
    BY <2>1, <2>2, <2>3, <2>4 DEF FeeOperation, AccrueFee, SetRate, ActivateRate,
                                  SetTreasury, Accept, Nominate, roles
  <2>5. CASE ~FeeOperation
    <3>1. CASE ShareOperation
      BY <2>1, <3>1, ShareOperationIs DEF Reissued
    <3>2. CASE ~ShareOperation
      BY <2>1, <2>5, <3>2, QuietFees
    <3> QED
      BY <3>1, <3>2
  <2> QED
    BY <2>4, <2>5
<1>3. FlatInv => FlatFeePayable
  BY DEF FlatInv
<1> QED
  BY <1>1, <1>2, <1>3, PTL DEF Spec
-----------------------------------------------------------------------------
(* The custody set.  A record as the operations of a swap pass it on is     *)
(* Sane when its list and its set agree and what is outside is a gift; Sane *)
(* but for x when a token x that is about to be listed may be anything.     *)

Listed(h, s) ==
  /\ h \in Seq(Tokens) /\ s \subseteq Tokens
  /\ {h[i] : i \in DOMAIN h} = s
  /\ \A i, j \in DOMAIN h : h[i] = h[j] => i = j

Record(x, y, h, s, ok) ==
  [coins |-> x, claims |-> y, held |-> h, isHeld |-> s, ok |-> ok]

IsRecord(c) ==
  /\ c = Record(c.coins, c.claims, c.held, c.isHeld, c.ok)
  /\ c.coins = [t \in Tokens |-> c.coins[t]]
  /\ c.claims = [a \in Custodians |-> [t \in Tokens |-> c.claims[a][t]]]

Given(c, t) == BackingIn(c, t) \in Int /\ BackingIn(c, t) <= gifts[t]

Sane(c) ==
  /\ IsRecord(c) /\ Listed(c.held, c.isHeld)
  /\ \A t \in Tokens \ c.isHeld : Given(c, t)

SaneBut(c, x) ==
  /\ IsRecord(c) /\ Listed(c.held, c.isHeld)
  /\ \A t \in Tokens \ (c.isHeld \cup {x}) : Given(c, t)

(* A token that was not listed, appended.                                   *)
LEMMA AppendListed ==
  ASSUME NEW h, NEW s, Listed(h, s), NEW t \in Tokens \ s
  PROVE  Listed(Append(h, t), s \cup {t})
<1> DEFINE g == Append(h, t)
           n == Len(h)
<1>1. /\ h \in Seq(Tokens) /\ n \in Nat /\ DOMAIN h = 1..n
      /\ g \in Seq(Tokens) /\ DOMAIN g = 1..(n + 1)
      /\ \A i \in 1..n : g[i] = h[i]
      /\ g[n + 1] = t
  BY DEF Listed
<1>2. \A i \in 1..n : h[i] \in s
  BY <1>1 DEF Listed
<1> HIDE DEF g, n
<1>3. {g[i] : i \in DOMAIN g} = s \cup {t}
  <2>1. \A i \in 1..(n + 1) : i \in 1..n \/ i = n + 1
    BY <1>1
  <2>2. \A i \in 1..(n + 1) : g[i] \in s \cup {t}
    BY <1>1, <1>2, <2>1
  <2>3. \A x \in s : \E i \in 1..n : x = h[i]
    BY <1>1 DEF Listed
  <2>4. \A x \in s : \E i \in 1..(n + 1) : x = g[i]
    BY <1>1, <2>3
  <2>5. n + 1 \in 1..(n + 1)
    BY <1>1
  <2> QED
    BY <1>1, <2>2, <2>4, <2>5
<1>4. \A i, j \in DOMAIN g : g[i] = g[j] => i = j
  <2> SUFFICES ASSUME NEW i \in 1..(n + 1), NEW j \in 1..(n + 1), g[i] = g[j]
               PROVE  i = j
    BY <1>1
  <2>1. CASE i \in 1..n /\ j \in 1..n
    BY <1>1, <2>1 DEF Listed
  <2>2. CASE i = n + 1 /\ j \in 1..n
    BY <1>1, <1>2, <2>2
  <2>3. CASE i \in 1..n /\ j = n + 1
    BY <1>1, <1>2, <2>3
  <2>4. CASE i = n + 1 /\ j = n + 1
    BY <2>4
  <2> QED
    BY <1>1, <2>1, <2>2, <2>3, <2>4
<1> QED
  BY <1>1, <1>3, <1>4 DEF Listed, g

(* Pruning puts the last entry in the place of the pruned one.              *)
LEMMA PruneListed ==
  ASSUME NEW h, NEW s, Listed(h, s), NEW i \in DOMAIN h
  PROVE  Listed(SubSeq([h EXCEPT ![i] = h[Len(h)]], 1, Len(h) - 1), s \ {h[i]})
<1> DEFINE n == Len(h)
           e == [h EXCEPT ![i] = h[n]]
           g == SubSeq(e, 1, n - 1)
<1>1. /\ h \in Seq(Tokens) /\ n \in Nat /\ DOMAIN h = 1..n /\ i \in 1..n
      /\ s \subseteq Tokens /\ \A k \in 1..n : h[k] \in s /\ h[k] \in Tokens
  BY DEF Listed
<1>2. \A j, k \in 1..n : h[j] = h[k] => j = k
  BY <1>1 DEF Listed
<1>3. e \in Seq(Tokens) /\ Len(e) = n /\ \A k \in 1..n : e[k] = IF k = i THEN h[n] ELSE h[k]
  BY <1>1
<1> HIDE DEF e, n
<1>4. /\ g \in Seq(Tokens) /\ DOMAIN g = 1..(n - 1)
      /\ \A k \in 1..(n - 1) : g[k] = IF k = i THEN h[n] ELSE h[k]
  BY <1>1, <1>3
<1> HIDE DEF g
<1>5. \A k \in 1..(n - 1) : g[k] \in s \ {h[i]}
  BY <1>1, <1>2, <1>4
<1>6. \A x \in s \ {h[i]} : \E k \in 1..(n - 1) : x = g[k]
  <2> SUFFICES ASSUME NEW x \in s \ {h[i]}
               PROVE  \E k \in 1..(n - 1) : x = g[k]
    OBVIOUS
  <2>1. PICK k \in 1..n : x = h[k]
    BY <1>1 DEF Listed
  <2>2. CASE k = n
    BY <1>1, <1>4, <2>1, <2>2
  <2>3. CASE k # n
    BY <1>1, <1>4, <2>1, <2>3
  <2> QED
    BY <2>2, <2>3
<1>7. {g[k] : k \in DOMAIN g} = s \ {h[i]}
  BY <1>4, <1>5, <1>6
<1>8. \A j, k \in DOMAIN g : g[j] = g[k] => j = k
  BY <1>1, <1>2, <1>4
<1>9. s \ {h[i]} \subseteq Tokens
  BY <1>1
<1> QED
  BY <1>4, <1>7, <1>8, <1>9 DEF Listed, g, e, n

(* The fields of a record that one assignment changes.                      *)
LEMMA RecordFields ==
  ASSUME NEW x, NEW y, NEW h, NEW s, NEW ok
  PROVE  /\ Record(x, y, h, s, ok).coins = x /\ Record(x, y, h, s, ok).claims = y
         /\ Record(x, y, h, s, ok).held = h /\ Record(x, y, h, s, ok).isHeld = s
         /\ Record(x, y, h, s, ok).ok = ok
BY DEF Record

(* Listing a token makes a record sane that was sane but for it.            *)
LEMMA AddSane ==
  ASSUME NEW c, NEW t \in Tokens, SaneBut(c, t)
  PROVE  Sane(AddHeld(c, t)) /\ AddHeld(c, t).isHeld = c.isHeld \cup {t}
<1>1. CASE t \in c.isHeld
  <2>1. AddHeld(c, t) = c
    BY <1>1 DEF AddHeld
  <2>2. c.isHeld \cup {t} = c.isHeld
    BY <1>1
  <2> QED
    BY <2>1, <2>2 DEF Sane, SaneBut
<1>2. CASE t \notin c.isHeld
  <2> DEFINE h == Append(c.held, t)
             s == c.isHeld \cup {t}
             d == Record(c.coins, c.claims, h, s, c.ok)
  <2>1. Listed(h, s)
    BY <1>2, AppendListed DEF SaneBut
  <2> HIDE DEF h, s
  <2>2. AddHeld(c, t) = d
    <3>1. AddHeld(c, t) = [c EXCEPT !.isHeld = s, !.held = h]
      BY <1>2 DEF AddHeld, h, s
    <3>2. [c EXCEPT !.isHeld = s, !.held = h] = [[c EXCEPT !.isHeld = s] EXCEPT !.held = h]
      OBVIOUS
    <3>3. c = Record(c.coins, c.claims, c.held, c.isHeld, c.ok)
      BY DEF SaneBut, IsRecord
    <3>4. [c EXCEPT !.isHeld = s] = Record(c.coins, c.claims, c.held, s, c.ok)
      BY <3>3 DEF Record
    <3>5. [Record(c.coins, c.claims, c.held, s, c.ok) EXCEPT !.held = h] = d
      BY DEF Record
    <3> QED
      BY <3>1, <3>2, <3>4, <3>5
  <2>3. /\ d.coins = c.coins /\ d.claims = c.claims /\ d.held = h /\ d.isHeld = s
        /\ d.ok = c.ok
    BY RecordFields
  <2>4. \A u : BackingIn(d, u) = BackingIn(c, u)
    BY <2>3 DEF BackingIn
  <2>5. IsRecord(d)
    BY <2>3 DEF SaneBut, IsRecord
  <2> HIDE DEF d
  <2>6. \A u \in Tokens \ d.isHeld : Given(d, u)
    BY <2>3, <2>4 DEF SaneBut, Given, s
  <2>7. Sane(d)
    BY <2>1, <2>3, <2>5, <2>6 DEF Sane
  <2> QED
    BY <2>2, <2>3, <2>7 DEF s
<1> QED
  BY <1>1, <1>2

(* Pruning an empty token keeps a record sane.                              *)
LEMMA PruneSane ==
  ASSUME gifts \in [Tokens -> Nat], NEW c, Sane(c), NEW t \in Tokens
  PROVE  Sane(PruneIfEmpty(c, t))
<1>1. CASE BackingIn(c, t) # 0 \/ t \notin c.isHeld
  BY <1>1 DEF PruneIfEmpty
<1>2. CASE BackingIn(c, t) = 0 /\ t \in c.isHeld
  <2> DEFINE i == CHOOSE k \in 1..Len(c.held) : c.held[k] = t
             h == SubSeq([c.held EXCEPT ![i] = c.held[Len(c.held)]], 1, Len(c.held) - 1)
             s == c.isHeld \ {t}
             d == Record(c.coins, c.claims, h, s, c.ok)
  <2>1. i \in DOMAIN c.held /\ c.held[i] = t
    <3>1. DOMAIN c.held = 1..Len(c.held)
      BY DEF Sane, Listed
    <3>2. \E k \in 1..Len(c.held) : c.held[k] = t
      BY <1>2, <3>1 DEF Sane, Listed
    <3> QED
      BY <3>1, <3>2
  <2> HIDE DEF i
  <2>2. Listed(h, s)
    BY <2>1, PruneListed DEF Sane
  <2>3. PruneIfEmpty(c, t) = [c EXCEPT !.isHeld = s, !.held = h]
    BY <1>2 DEF PruneIfEmpty, i
  <2> HIDE DEF h, s
  <2>4. PruneIfEmpty(c, t) = d
    <3>2. [c EXCEPT !.isHeld = s, !.held = h] = [[c EXCEPT !.isHeld = s] EXCEPT !.held = h]
      OBVIOUS
    <3>3. c = Record(c.coins, c.claims, c.held, c.isHeld, c.ok)
      BY DEF Sane, IsRecord
    <3>4. [c EXCEPT !.isHeld = s] = Record(c.coins, c.claims, c.held, s, c.ok)
      BY <3>3 DEF Record
    <3>5. [Record(c.coins, c.claims, c.held, s, c.ok) EXCEPT !.held = h] = d
      BY DEF Record
    <3> QED
      BY <2>3, <3>2, <3>4, <3>5
  <2>5. /\ d.coins = c.coins /\ d.claims = c.claims /\ d.held = h /\ d.isHeld = s
        /\ d.ok = c.ok
    BY RecordFields
  <2>6. \A u : BackingIn(d, u) = BackingIn(c, u)
    BY <2>5 DEF BackingIn
  <2>7. IsRecord(d)
    BY <2>5 DEF Sane, IsRecord
  <2> HIDE DEF d
  <2>8. \A u \in Tokens \ d.isHeld : Given(d, u)
    <3> SUFFICES ASSUME NEW u \in Tokens \ s PROVE Given(d, u)
      BY <2>5
    <3>1. CASE u = t
      BY <1>2, <2>6, <3>1 DEF Given
    <3>2. CASE u # t
      BY <2>6, <3>2 DEF Sane, Given, s
    <3> QED
      BY <3>1, <3>2
  <2> QED
    BY <2>2, <2>4, <2>5, <2>7, <2>8 DEF Sane
<1> QED
  BY <1>1, <1>2

(* What a leg of a swap changes before it lists or prunes its token.        *)
MoreIn(c, leg) ==
  LET t == leg.token
  IN Record([c.coins EXCEPT ![t] = c.coins[t] + leg.amount],
            IF IsRegistry
              THEN [c.claims EXCEPT ![Vault] = [c.claims[Vault] EXCEPT ![t] = c.claims[Vault][t] + leg.amount]]
              ELSE c.claims,
            c.held, c.isHeld, c.ok)

LessIn(c, leg) ==
  LET t == leg.token
      left == BackingIn(c, t) - leg.amount
  IN Record([c.coins EXCEPT ![t] = c.coins[t] - leg.amount],
            [c.claims EXCEPT ![Vault] = [c.claims[Vault] EXCEPT ![t] =
               IF IsRegistry THEN c.claims[Vault][t] - leg.amount ELSE c.claims[Vault][t]]],
            c.held, c.isHeld, c.ok /\ BackingIn(c, t) >= leg.amount /\ left >= leg.minOut)

(* The nested updates of a leg, one field at a time.                        *)
LEMMA AcquireIs ==
  ASSUME NEW c, IsRecord(c), NEW leg
  PROVE  AcquireIn(c, leg) = AddHeld(MoreIn(c, leg), leg.token)
<1> DEFINE t == leg.token
           x == [c.coins EXCEPT ![t] = c.coins[t] + leg.amount]
<1>1. c = Record(c.coins, c.claims, c.held, c.isHeld, c.ok)
  BY DEF IsRecord
<1>2. [c EXCEPT !.coins[t] = @ + leg.amount] = Record(x, c.claims, c.held, c.isHeld, c.ok)
  BY <1>1 DEF Record
<1>3. CASE ~IsRegistry
  BY <1>2, <1>3 DEF AcquireIn, MoreIn
<1>4. CASE IsRegistry
  <2> DEFINE y == [c.claims EXCEPT ![Vault] =
                     [c.claims[Vault] EXCEPT ![t] = c.claims[Vault][t] + leg.amount]]
  <2>1. [c EXCEPT !.coins[t] = @ + leg.amount, !.claims[Vault][t] = @ + leg.amount]
          = [[c EXCEPT !.coins[t] = @ + leg.amount] EXCEPT !.claims[Vault][t] = @ + leg.amount]
    OBVIOUS
  <2>2. MoreIn(c, leg) = Record(x, y, c.held, c.isHeld, c.ok)
    BY <1>4 DEF MoreIn
  <2> HIDE DEF x
  <2>3. [Record(x, c.claims, c.held, c.isHeld, c.ok) EXCEPT !.claims[Vault][t] = @ + leg.amount]
          = Record(x, y, c.held, c.isHeld, c.ok)
    BY DEF Record
  <2> QED
    BY <1>2, <1>4, <2>1, <2>2, <2>3 DEF AcquireIn
<1> QED
  BY <1>3, <1>4

LEMMA ReleaseIs ==
  ASSUME NEW c, IsRecord(c), Vault \in Custodians, NEW leg, leg.token \in Tokens
  PROVE  ReleaseOut(c, leg) = PruneIfEmpty(LessIn(c, leg), leg.token)
<1> DEFINE t == leg.token
           x == [c.coins EXCEPT ![t] = c.coins[t] - leg.amount]
           y == [c.claims EXCEPT ![Vault] = [c.claims[Vault] EXCEPT ![t] =
                   IF IsRegistry THEN c.claims[Vault][t] - leg.amount ELSE c.claims[Vault][t]]]
           d == [c EXCEPT !.coins[t] = @ - leg.amount,
                          !.claims[Vault][t] = IF IsRegistry THEN @ - leg.amount ELSE @]
           ok == /\ c.ok
                 /\ BackingIn(c, t) >= leg.amount
                 /\ BackingIn(d, t) >= leg.minOut
<1>1. c = Record(c.coins, c.claims, c.held, c.isHeld, c.ok)
  BY DEF IsRecord
<1>2. d = Record(x, y, c.held, c.isHeld, c.ok)
  <2>1. [c EXCEPT !.coins[t] = @ - leg.amount] = Record(x, c.claims, c.held, c.isHeld, c.ok)
    BY <1>1 DEF Record
  <2>2. d = [[c EXCEPT !.coins[t] = @ - leg.amount]
               EXCEPT !.claims[Vault][t] = IF IsRegistry THEN @ - leg.amount ELSE @]
    OBVIOUS
  <2> HIDE DEF x, d
  <2>3. [Record(x, c.claims, c.held, c.isHeld, c.ok)
           EXCEPT !.claims[Vault][t] = IF IsRegistry THEN @ - leg.amount ELSE @]
          = Record(x, y, c.held, c.isHeld, c.ok)
    BY DEF Record
  <2> QED
    BY <2>1, <2>2, <2>3
<1>3. d.ok = c.ok /\ d.coins = x /\ d.claims = y
  BY <1>2, RecordFields
<1>4. ReleaseOut(c, leg) = PruneIfEmpty([d EXCEPT !.ok = ok], t)
  BY <1>3 DEF ReleaseOut
<1>5. BackingIn(d, t) = BackingIn(c, t) - leg.amount
  <2>1. /\ x[t] = c.coins[t] - leg.amount
        /\ IsRegistry => y[Vault][t] = c.claims[Vault][t] - leg.amount
    BY DEF IsRecord
  <2> HIDE DEF d, x, y
  <2> QED
    BY <1>3, <2>1 DEF BackingIn
<1>6. ok = (c.ok /\ BackingIn(c, t) >= leg.amount /\ BackingIn(c, t) - leg.amount >= leg.minOut)
  BY <1>5
<1>7. LessIn(c, leg) = Record(x, y, c.held, c.isHeld, ok)
  BY <1>6 DEF LessIn
<1> HIDE DEF d, ok, x, y
<1>8. [d EXCEPT !.ok = ok] = Record(x, y, c.held, c.isHeld, ok)
  BY <1>2 DEF Record
<1> QED
  BY <1>4, <1>7, <1>8

(* One leg of a swap keeps the record sane.  A custody row is a function of *)
(* the tokens, and a leg changes it at one of them.                         *)
LEMMA AcquireSane ==
  ASSUME NEW c, Sane(c), NEW leg, leg.token \in Tokens
  PROVE  Sane(AcquireIn(c, leg))
<1> DEFINE t == leg.token
           x == [c.coins EXCEPT ![t] = c.coins[t] + leg.amount]
           y == IF IsRegistry
                  THEN [c.claims EXCEPT ![Vault] = [c.claims[Vault] EXCEPT ![t] = c.claims[Vault][t] + leg.amount]]
                  ELSE c.claims
           d == MoreIn(c, leg)
<1>1. AcquireIn(c, leg) = AddHeld(d, t)
  BY AcquireIs DEF Sane
<1>2. d = Record(x, y, c.held, c.isHeld, c.ok)
  BY DEF MoreIn
<1> HIDE DEF d
<1>3. /\ d.coins = x /\ d.claims = y /\ d.held = c.held /\ d.isHeld = c.isHeld /\ d.ok = c.ok
  BY <1>2, RecordFields
<1>4. x = [u \in Tokens |-> x[u]]
  BY DEF Sane, IsRecord
<1>5. y = [a \in Custodians |-> [u \in Tokens |-> y[a][u]]]
  BY DEF Sane, IsRecord
<1>6. \A u \in Tokens \ {t} : x[u] = c.coins[u] /\ y[Vault][u] = c.claims[Vault][u]
  BY DEF Sane, IsRecord, Custodians
<1> HIDE DEF x, y
<1>7. \A u \in Tokens \ {t} : BackingIn(d, u) = BackingIn(c, u)
  BY <1>3, <1>6 DEF BackingIn
<1>8. IsRecord(d)
  BY <1>2, <1>3, <1>4, <1>5 DEF IsRecord
<1>9. SaneBut(d, t)
  BY <1>3, <1>7, <1>8 DEF Sane, SaneBut, Given
<1> QED
  BY <1>1, <1>9, AddSane

LEMMA ReleaseSane ==
  ASSUME gifts \in [Tokens -> Nat], NEW c, Sane(c),
         NEW leg, leg.token \in Tokens, leg.amount \in Nat
  PROVE  Sane(ReleaseOut(c, leg))
<1> DEFINE t == leg.token
           x == [c.coins EXCEPT ![t] = c.coins[t] - leg.amount]
           y == [c.claims EXCEPT ![Vault] = [c.claims[Vault] EXCEPT ![t] =
                   IF IsRegistry THEN c.claims[Vault][t] - leg.amount ELSE c.claims[Vault][t]]]
           ok == /\ c.ok
                 /\ BackingIn(c, t) >= leg.amount
                 /\ BackingIn(c, t) - leg.amount >= leg.minOut
           e == LessIn(c, leg)
<1>1. ReleaseOut(c, leg) = PruneIfEmpty(e, t)
  BY ReleaseIs DEF Sane, Custodians
<1>2. e = Record(x, y, c.held, c.isHeld, ok)
  BY DEF LessIn
<1> HIDE DEF e, ok
<1>3. /\ e.coins = x /\ e.claims = y /\ e.held = c.held /\ e.isHeld = c.isHeld /\ e.ok = ok
  BY <1>2, RecordFields
<1>4. x = [u \in Tokens |-> x[u]]
  BY DEF Sane, IsRecord
<1>5. y = [a \in Custodians |-> [u \in Tokens |-> y[a][u]]]
  BY DEF Sane, IsRecord
<1>6. /\ \A u \in Tokens \ {t} : x[u] = c.coins[u] /\ y[Vault][u] = c.claims[Vault][u]
      /\ x[t] = c.coins[t] - leg.amount
      /\ IsRegistry => y[Vault][t] = c.claims[Vault][t] - leg.amount
  BY DEF Sane, IsRecord, Custodians
<1> HIDE DEF x, y
<1>7. /\ \A u \in Tokens \ {t} : BackingIn(e, u) = BackingIn(c, u)
      /\ BackingIn(e, t) = BackingIn(c, t) - leg.amount
  BY <1>3, <1>6 DEF BackingIn
<1>8. IsRecord(e)
  BY <1>2, <1>3, <1>4, <1>5 DEF IsRecord
<1>9. \A u \in Tokens \ e.isHeld : Given(e, u)
  <2> SUFFICES ASSUME NEW u \in Tokens \ c.isHeld PROVE Given(e, u)
    BY <1>3
  <2>1. Given(c, u) /\ gifts[u] \in Nat
    BY DEF Sane
  <2> QED
    BY <1>7, <2>1 DEF Given
<1>10. Sane(e)
  BY <1>3, <1>8, <1>9 DEF Sane
<1> QED
  BY <1>1, <1>10, PruneSane

(* The operations InOrder is used with, by name, so that what they have in   *)
(* common is shown once: the recursion along the legs has a solution.       *)
AddLeg(c, leg) == AddHeld(c, leg.token)

Apply(kind, c, leg) ==
  CASE kind = "acquire" -> AcquireIn(c, leg)
    [] kind = "release" -> ReleaseOut(c, leg)
    [] OTHER -> AddLeg(c, leg)

IsRun(kind, legs, c, f, n) ==
  f = [k \in 0..n |-> IF k = 0 THEN c ELSE Apply(kind, f[k - 1], legs[k])]

LEMMA RunExists ==
  ASSUME NEW kind, NEW legs, NEW c, NEW m \in Nat
  PROVE  \E f : IsRun(kind, legs, c, f, m)
<1> DEFINE Good == {n \in Nat : \E f : IsRun(kind, legs, c, f, n)}
<1>1. 0 \in Good
  <2>1. IsRun(kind, legs, c, [k \in 0..0 |-> c], 0)
    BY DEF IsRun
  <2> QED
    BY <2>1
<1>2. ASSUME NEW n \in Nat, n \in Good
      PROVE  n + 1 \in Good
  <2>1. PICK f : IsRun(kind, legs, c, f, n)
    BY <1>2
  <2> DEFINE g == [k \in 0..(n + 1) |->
                     IF k = n + 1 THEN Apply(kind, f[n], legs[n + 1]) ELSE f[k]]
  <2>2. \A k \in 0..(n + 1) : g[k] = IF k = 0 THEN c ELSE Apply(kind, g[k - 1], legs[k])
    <3> TAKE k \in 0..(n + 1)
    <3>1. CASE k = n + 1
      BY <3>1
    <3>2. CASE k \in 0..n
      <4>1. f[k] = IF k = 0 THEN c ELSE Apply(kind, f[k - 1], legs[k])
        BY <2>1, <3>2 DEF IsRun
      <4> QED
        BY <4>1, <3>2
    <3> QED
      BY <3>1, <3>2
  <2>3. g = [k \in 0..(n + 1) |-> g[k]]
    OBVIOUS
  <2> HIDE DEF g
  <2>4. IsRun(kind, legs, c, g, n + 1)
    BY <2>2, <2>3 DEF IsRun
  <2> QED
    BY <2>4
<1> HIDE DEF Good
<1>3. m \in Good
  BY <1>1, <1>2, SetInduction
<1> QED
  BY <1>3 DEF Good

LEMMA AcquireRuns ==
  ASSUME NEW legs, NEW c, Len(legs) \in Nat
  PROVE  \E f : /\ IsRun("acquire", legs, c, f, Len(legs))
               /\ InOrder(AcquireIn, legs, c) = f[Len(legs)]
<1> DEFINE Is(f) == f = [k \in 0..Len(legs) |-> IF k = 0 THEN c ELSE AcquireIn(f[k - 1], legs[k])]
           run == CHOOSE f : Is(f)
<1>1. \A f : IsRun("acquire", legs, c, f, Len(legs)) <=> Is(f)
  BY DEF IsRun, Apply
<1>2. Is(run)
  <2> HIDE DEF Is
  <2> QED
    BY <1>1, RunExists
<1>3. InOrder(AcquireIn, legs, c) = run[Len(legs)]
  BY DEF InOrder
<1> HIDE DEF run, Is
<1> QED
  BY <1>1, <1>2, <1>3

LEMMA ReleaseRuns ==
  ASSUME NEW legs, NEW c, Len(legs) \in Nat
  PROVE  \E f : /\ IsRun("release", legs, c, f, Len(legs))
               /\ InOrder(ReleaseOut, legs, c) = f[Len(legs)]
<1> DEFINE Is(f) == f = [k \in 0..Len(legs) |-> IF k = 0 THEN c ELSE ReleaseOut(f[k - 1], legs[k])]
           run == CHOOSE f : Is(f)
<1>1. \A f : IsRun("release", legs, c, f, Len(legs)) <=> Is(f)
  BY DEF IsRun, Apply
<1>2. Is(run)
  <2> HIDE DEF Is
  <2> QED
    BY <1>1, RunExists
<1>3. InOrder(ReleaseOut, legs, c) = run[Len(legs)]
  BY DEF InOrder
<1> HIDE DEF run, Is
<1> QED
  BY <1>1, <1>2, <1>3

LEMMA AddLegRuns ==
  ASSUME NEW legs, NEW c, Len(legs) \in Nat
  PROVE  \E f : /\ IsRun("add", legs, c, f, Len(legs))
               /\ InOrder(AddLeg, legs, c) = f[Len(legs)]
<1> DEFINE Is(f) == f = [k \in 0..Len(legs) |-> IF k = 0 THEN c ELSE AddLeg(f[k - 1], legs[k])]
           run == CHOOSE f : Is(f)
<1>1. \A f : IsRun("add", legs, c, f, Len(legs)) <=> Is(f)
  BY DEF IsRun, Apply
<1>2. Is(run)
  <2> HIDE DEF Is
  <2> QED
    BY <1>1, RunExists
<1>3. InOrder(AddLeg, legs, c) = run[Len(legs)]
  BY DEF InOrder
<1> HIDE DEF run, Is
<1> QED
  BY <1>1, <1>2, <1>3

LEMMA RunSane ==
  ASSUME gifts \in [Tokens -> Nat], NEW kind, NEW legs, NEW m \in Nat, NEW c, Sane(c),
         \A i \in 1..m : legs[i].token \in Tokens /\ legs[i].amount \in Nat,
         NEW f, IsRun(kind, legs, c, f, m)
  PROVE  Sane(f[m])
<1> DEFINE S == {n \in Nat : n <= m => Sane(f[n])}
<1>1. 0 \in S
  BY DEF IsRun
<1>2. ASSUME NEW n \in Nat, n \in S
      PROVE  n + 1 \in S
  <2> SUFFICES ASSUME n + 1 <= m PROVE Sane(f[n + 1])
    OBVIOUS
  <2>1. f[n + 1] = Apply(kind, f[n], legs[n + 1])
    <3>1. n + 1 \in 0..m /\ n + 1 # 0 /\ (n + 1) - 1 = n
      OBVIOUS
    <3> QED
      BY <3>1 DEF IsRun
  <2>2. Sane(f[n]) /\ n + 1 \in 1..m
    BY <1>2
  <2>3. SaneBut(f[n], legs[n + 1].token)
    BY <2>2 DEF Sane, SaneBut
  <2>4. /\ Sane(AcquireIn(f[n], legs[n + 1]))
        /\ Sane(ReleaseOut(f[n], legs[n + 1]))
        /\ Sane(AddLeg(f[n], legs[n + 1]))
    BY <2>2, <2>3, AcquireSane, ReleaseSane, AddSane DEF AddLeg
  <2> QED
    BY <2>1, <2>4 DEF Apply
<1> HIDE DEF S
<1>3. m \in S
  BY <1>1, <1>2, SetInduction
<1> QED
  BY <1>3 DEF S

(* Adding the legs of a bundle lists each of their tokens.                  *)
LEMMA RunLists ==
  ASSUME gifts \in [Tokens -> Nat], NEW legs, NEW m \in Nat, NEW c, Sane(c),
         \A i \in 1..m : legs[i].token \in Tokens,
         NEW f, IsRun("add", legs, c, f, m)
  PROVE  /\ Sane(f[m])
         /\ f[m].isHeld = c.isHeld \cup {legs[i].token : i \in 1..m}
<1> DEFINE Tops(n) == c.isHeld \cup {legs[i].token : i \in 1..n}
           S == {n \in Nat : n <= m => Sane(f[n]) /\ f[n].isHeld = Tops(n)}
<1>1. 0 \in S
  BY DEF IsRun
<1>2. ASSUME NEW n \in Nat, n \in S
      PROVE  n + 1 \in S
  <2> SUFFICES ASSUME n + 1 <= m PROVE Sane(f[n + 1]) /\ f[n + 1].isHeld = Tops(n + 1)
    OBVIOUS
  <2>1. f[n + 1] = AddHeld(f[n], legs[n + 1].token)
    <3>1. n + 1 \in 0..m /\ n + 1 # 0 /\ (n + 1) - 1 = n
      OBVIOUS
    <3> QED
      BY <3>1 DEF IsRun, Apply, AddLeg
  <2>2. Sane(f[n]) /\ f[n].isHeld = Tops(n) /\ legs[n + 1].token \in Tokens
    BY <1>2
  <2>3. SaneBut(f[n], legs[n + 1].token)
    BY <2>2 DEF Sane, SaneBut
  <2>4. Tops(n + 1) = Tops(n) \cup {legs[n + 1].token}
    <3>1. \A i : i \in 1..(n + 1) <=> i \in 1..n \/ i = n + 1
      OBVIOUS
    <3> QED
      BY <3>1
  <2> HIDE DEF Tops, S
  <2>5. /\ Sane(AddHeld(f[n], legs[n + 1].token))
        /\ AddHeld(f[n], legs[n + 1].token).isHeld = f[n].isHeld \cup {legs[n + 1].token}
    BY <2>2, <2>3, AddSane
  <2> QED
    BY <2>1, <2>2, <2>4, <2>5
<1> HIDE DEF S
<1>3. m \in S
  BY <1>1, <1>2, SetInduction
<1> QED
  BY <1>3 DEF S

-----------------------------------------------------------------------------
(* The invariant: the records above, for the variables themselves, and      *)
(* recipes that are recipes.                                                *)
Top(x, y, t) == IF IsRegistry THEN y[Vault][t] ELSE x[t]

Secure(x, y, h, s, g) ==
  /\ x = [t \in Tokens |-> x[t]]
  /\ y = [a \in Custodians |-> [t \in Tokens |-> y[a][t]]]
  /\ Listed(h, s)
  /\ \A t \in Tokens \ s : Top(x, y, t) \in Int /\ Top(x, y, t) <= g[t]

CustodyInv ==
  /\ gifts \in [Tokens -> Nat]
  /\ recipe \in Recipes
  /\ nextRecipe.effectiveAt # 0 => nextRecipe.recipe \in Recipes
  /\ Secure(coins, claims, held, isHeld, gifts)

(* The invariant is that the custody the variables make up is sane.         *)
LEMMA SaneIsSecure ==
  ASSUME NEW c
  PROVE  /\ Sane(c) => Secure(c.coins, c.claims, c.held, c.isHeld, gifts)
         /\ c = Record(c.coins, c.claims, c.held, c.isHeld, c.ok)
              /\ Secure(c.coins, c.claims, c.held, c.isHeld, gifts) => Sane(c)
BY DEF Sane, Secure, IsRecord, Given, BackingIn, Top

(* A step of a vault starts from sane custody.                              *)
LEMMA CustodySane == CustodyInv => Sane(Custody)
<1>1. /\ Custody.coins = coins /\ Custody.claims = claims /\ Custody.held = held
      /\ Custody.isHeld = isHeld
      /\ Custody = Record(coins, claims, held, isHeld, Custody.ok)
  BY DEF Custody, Record
<1> QED
  BY <1>1, SaneIsSecure DEF CustodyInv

LEMMA CustodyInvIsStrong == CustodyInv => CustodySet
<1> SUFFICES ASSUME CustodyInv PROVE CustodySet
  OBVIOUS
<1>1. \A t : Backing(t) = Top(coins, claims, t)
  BY DEF Backing, BackingIn, Custody, Top
<1> QED
  BY <1>1 DEF CustodyInv, Secure, Listed, CustodySet, HeldSet

(* What moves between the vault and a holder adds to, or takes from, what   *)
(* the vault has of each token.                                             *)
LEMMA MoveIn ==
  ASSUME CustodyInv, NEW a \in Accounts, NEW amount, Move(a, Vault, amount)
  PROVE  /\ coins' = [t \in Tokens |-> coins'[t]]
         /\ claims' = [b \in Custodians |-> [t \in Tokens |-> claims'[b][t]]]
         /\ \A t \in Tokens : Top(coins', claims', t) = Top(coins, claims, t) + amount[t]
<1>1. a # Vault /\ a \in Custodians /\ Vault \in Custodians
  BY VaultAssumption DEF Custodians
<1>2. CASE IsRegistry
  <2>1. /\ coins' = coins
        /\ claims' = [claims EXCEPT ![a] = [t \in Tokens |-> claims[a][t] - amount[t]],
                                    ![Vault] = [t \in Tokens |-> claims[Vault][t] + amount[t]]]
    BY <1>1, <1>2 DEF Move
  <2>2. DOMAIN claims = Custodians /\ \A b \in Custodians : claims[b] = [t \in Tokens |-> claims[b][t]]
    BY DEF CustodyInv, Secure
  <2>3. \A b \in Custodians :
          claims'[b] = CASE b = a -> [t \in Tokens |-> claims[a][t] - amount[t]]
                         [] b = Vault -> [t \in Tokens |-> claims[Vault][t] + amount[t]]
                         [] OTHER -> claims[b]
    BY <1>1, <2>1, <2>2
  <2>4. claims' = [b \in Custodians |-> claims'[b]]
    BY <2>1, <2>2
  <2>5. \A b \in Custodians : claims'[b] = [t \in Tokens |-> claims'[b][t]]
    BY <2>2, <2>3
  <2>6. \A t \in Tokens : claims'[Vault][t] = claims[Vault][t] + amount[t]
    BY <1>1, <2>3
  <2>7. coins' = [t \in Tokens |-> coins'[t]]
    BY <2>1 DEF CustodyInv, Secure
  <2> QED
    BY <1>2, <2>4, <2>5, <2>6, <2>7 DEF Top
<1>3. CASE ~IsRegistry
  <2>1. /\ coins' = [t \in Tokens |-> coins[t] + amount[t]]
        /\ claims' = claims
    BY <1>3 DEF Move
  <2> QED
    BY <1>3, <2>1 DEF CustodyInv, Secure, Top
<1> QED
  BY <1>2, <1>3

LEMMA MoveOut ==
  ASSUME CustodyInv, NEW a \in Accounts, NEW amount, Move(Vault, a, amount)
  PROVE  /\ coins' = [t \in Tokens |-> coins'[t]]
         /\ claims' = [b \in Custodians |-> [t \in Tokens |-> claims'[b][t]]]
         /\ \A t \in Tokens : Top(coins', claims', t) = Top(coins, claims, t) - amount[t]
<1>1. a # Vault /\ a \in Custodians /\ Vault \in Custodians
  BY VaultAssumption DEF Custodians
<1>2. CASE IsRegistry
  <2>1. /\ coins' = coins
        /\ claims' = [claims EXCEPT ![Vault] = [t \in Tokens |-> claims[Vault][t] - amount[t]],
                                    ![a] = [t \in Tokens |-> claims[a][t] + amount[t]]]
    BY <1>1, <1>2 DEF Move
  <2>2. DOMAIN claims = Custodians /\ \A b \in Custodians : claims[b] = [t \in Tokens |-> claims[b][t]]
    BY DEF CustodyInv, Secure
  <2>3. \A b \in Custodians :
          claims'[b] = CASE b = a -> [t \in Tokens |-> claims[a][t] + amount[t]]
                         [] b = Vault -> [t \in Tokens |-> claims[Vault][t] - amount[t]]
                         [] OTHER -> claims[b]
    BY <1>1, <2>1, <2>2
  <2>4. claims' = [b \in Custodians |-> claims'[b]]
    BY <2>1, <2>2
  <2>5. \A b \in Custodians : claims'[b] = [t \in Tokens |-> claims'[b][t]]
    BY <2>2, <2>3
  <2>6. \A t \in Tokens : claims'[Vault][t] = claims[Vault][t] - amount[t]
    BY <1>1, <2>3
  <2>7. coins' = [t \in Tokens |-> coins'[t]]
    BY <2>1 DEF CustodyInv, Secure
  <2> QED
    BY <1>2, <2>4, <2>5, <2>6, <2>7 DEF Top
<1>3. CASE ~IsRegistry
  <2>1. /\ coins' = [t \in Tokens |-> coins[t] - amount[t]]
        /\ claims' = claims
    BY <1>1, <1>3 DEF Move
  <2> QED
    BY <1>3, <2>1 DEF CustodyInv, Secure, Top
<1> QED
  BY <1>2, <1>3

(* A create or redeem of a fund moves only what the set lists.              *)
LEMMA MintCustody ==
  ASSUME CustodyInv, NEW ap \in Users, NEW to, NEW n, MintAgainst(ap, to, n)
  PROVE  CustodyInv'
<1> DEFINE amount == [t \in Tokens |-> Needed(t, n)]
<1>1. Move(ap, Vault, amount) /\ ap \in Accounts
  BY VaultAssumption DEF MintAgainst
<1>2. /\ held' = held /\ isHeld' = isHeld /\ gifts' = gifts
      /\ recipe' = recipe /\ nextRecipe' = nextRecipe
  BY DEF MintAgainst, Reissue, target
<1>3. \A t \in Tokens \ isHeld : amount[t] = 0
  BY DEF CustodyInv, Secure, Listed, HeldSet, Needed
<1> HIDE DEF amount
<1>4. /\ coins' = [t \in Tokens |-> coins'[t]]
      /\ claims' = [b \in Custodians |-> [t \in Tokens |-> claims'[b][t]]]
      /\ \A t \in Tokens : Top(coins', claims', t) = Top(coins, claims, t) + amount[t]
  BY <1>1, MoveIn
<1>5. \A t \in Tokens \ isHeld : Top(coins', claims', t) = Top(coins, claims, t)
  BY <1>3, <1>4 DEF CustodyInv, Secure
<1> QED
  BY <1>2, <1>4, <1>5 DEF CustodyInv, Secure

(* A redeem lowers what is held and leaves the rest.                        *)
LEMMA RedeemCustody ==
  ASSUME CustodyInv, NEW a \in Users, NEW n, Redeem(a, n)
  PROVE  CustodyInv'
<1> DEFINE amount == [t \in Tokens |-> Paid(t, n)]
<1>1. Move(Vault, a, amount) /\ a \in Accounts
  BY VaultAssumption DEF Redeem
<1>2. /\ held' = held /\ isHeld' = isHeld /\ gifts' = gifts
      /\ recipe' = recipe /\ nextRecipe' = nextRecipe
  BY DEF Redeem, Reissue, target
<1>3. \A t \in Tokens \ isHeld : amount[t] = 0
  BY DEF CustodyInv, Secure, Listed, HeldSet, Paid
<1> HIDE DEF amount
<1>4. /\ coins' = [t \in Tokens |-> coins'[t]]
      /\ claims' = [b \in Custodians |-> [t \in Tokens |-> claims'[b][t]]]
      /\ \A t \in Tokens : Top(coins', claims', t) = Top(coins, claims, t) - amount[t]
  BY <1>1, MoveOut
<1>5. \A t \in Tokens \ isHeld : Top(coins', claims', t) = Top(coins, claims, t)
  BY <1>3, <1>4 DEF CustodyInv, Secure
<1> QED
  BY <1>2, <1>4, <1>5 DEF CustodyInv, Secure

(* A bundle has nothing of a token none of its legs is in.                  *)
LEMMA NothingOfOthers ==
  ASSUME NEW legs, NEW t, NEW units \in Int, \A i \in DOMAIN legs : legs[i].token # t
  PROVE  Bundle(legs, t, units) = 0
<1>1. {i \in DOMAIN legs : legs[i].token = t} = {}
  OBVIOUS
<1>2. MapThenSumSet(LAMBDA i : legs[i].amount, {}) = 0
  <2> DEFINE zero == [s \in SUBSET {} |-> 0]
  <2>1. zero = [s \in SUBSET {} |->
                  IF s = {} THEN 0
                  ELSE legs[CHOOSE x \in s : TRUE].amount + zero[s \ {CHOOSE x \in s : TRUE}]]
    OBVIOUS
  <2>2. \E f : f = [s \in SUBSET {} |->
                      IF s = {} THEN 0
                      ELSE legs[CHOOSE x \in s : TRUE].amount + f[s \ {CHOOSE x \in s : TRUE}]]
    BY <2>1
  <2> QED
    BY <2>2 DEF MapThenSumSet, MapThenFoldSet
<1> QED
  BY <1>1, <1>2 DEF Bundle

(* The first mint lists each token it takes.                                *)
LEMMA FirstMintCustody ==
  ASSUME CustodyInv, NEW u \in Users, NEW n \in Nat, NEW legs, Len(legs) \in Nat,
         DOMAIN legs = 1..Len(legs), \A i \in DOMAIN legs : legs[i].token \in Tokens,
         FirstMint(u, n, legs), UNCHANGED <<gifts, recipe, nextRecipe>>
  PROVE  CustodyInv'
<1> DEFINE units == n \div UnitSize
           amount == [t \in Tokens |-> Bundle(legs, t, units)]
           c == InOrder(AddLeg, legs, Custody)
<1>1. Move(u, Vault, amount) /\ u \in Accounts
  BY VaultAssumption DEF FirstMint
<1>2. held' = c.held /\ isHeld' = c.isHeld
  BY DEF FirstMint, AddLeg, InOrder
<1>3. gifts' = gifts /\ recipe' = recipe /\ nextRecipe' = nextRecipe
  OBVIOUS
<1>4. PICK f : IsRun("add", legs, Custody, f, Len(legs)) /\ c = f[Len(legs)]
  BY AddLegRuns
<1> HIDE DEF c
<1>5. /\ Sane(c)
      /\ c.isHeld = Custody.isHeld \cup {legs[i].token : i \in 1..Len(legs)}
  <2>1. Sane(Custody)
    BY CustodySane DEF CustodyInv
  <2>2. gifts \in [Tokens -> Nat] /\ Len(legs) \in Nat /\ \A i \in 1..Len(legs) : legs[i].token \in Tokens
    BY DEF CustodyInv
  <2> DEFINE k == Len(legs)
             start == Custody
  <2> HIDE DEF k, start
  <2>3. /\ k \in Nat /\ \A i \in 1..k : legs[i].token \in Tokens
        /\ Sane(start) /\ IsRun("add", legs, start, f, k)
    BY <1>4, <2>1, <2>2 DEF k, start
  <2>4. Sane(f[k]) /\ f[k].isHeld = start.isHeld \cup {legs[i].token : i \in 1..k}
    BY <2>2, <2>3, RunLists
  <2> QED
    BY <1>4, <2>4 DEF k, start
<1>6. c.isHeld = isHeld \cup {legs[i].token : i \in DOMAIN legs}
  BY <1>5 DEF Custody
<1>7. units \in Int
  BY VaultAssumption
<1> HIDE DEF units
<1>8. \A t \in Tokens \ c.isHeld : amount[t] = 0
  BY <1>6, <1>7, NothingOfOthers
<1> HIDE DEF amount
<1>9. /\ coins' = [t \in Tokens |-> coins'[t]]
      /\ claims' = [b \in Custodians |-> [t \in Tokens |-> claims'[b][t]]]
      /\ \A t \in Tokens : Top(coins', claims', t) = Top(coins, claims, t) + amount[t]
  BY <1>1, MoveIn
<1>10. \A t \in Tokens \ c.isHeld : Top(coins', claims', t) = Top(coins, claims, t)
  <2> SUFFICES ASSUME NEW t \in Tokens \ c.isHeld
               PROVE  Top(coins', claims', t) = Top(coins, claims, t)
    OBVIOUS
  <2>1. t \notin isHeld
    BY <1>6
  <2>2. Top(coins, claims, t) \in Int
    BY <2>1 DEF CustodyInv, Secure
  <2>3. Top(coins', claims', t) = Top(coins, claims, t) + amount[t] /\ amount[t] = 0
    BY <1>8, <1>9
  <2> QED
    BY <2>2, <2>3
<1>11. Listed(held', isHeld')
  BY <1>2, <1>5 DEF Sane
<1> QED
  BY <1>2, <1>3, <1>6, <1>9, <1>10, <1>11 DEF CustodyInv, Secure

LEMMA ShareCustody == CustodyInv /\ ShareOperation => CustodyInv'
<1> SUFFICES ASSUME CustodyInv, ShareOperation PROVE CustodyInv'
  OBVIOUS
<1>1. /\ recipe \in Seq(Leg) /\ Units \subseteq Nat
      /\ \A i \in DOMAIN recipe : recipe[i].token \in Tokens
  <2>1. recipe \in Seq(Leg) /\ Units \subseteq Nat
    BY VaultAssumption DEF CustodyInv
  <2>2. \A i \in DOMAIN recipe : recipe[i] \in Leg
    BY <2>1
  <2> QED
    BY <2>1, <2>2 DEF Leg
<1>2. CASE \E u \in Users, n \in Units : Create(u, n)
  BY <1>2, MintCustody DEF Create
<1>3. CASE \E ap, to \in Users, n \in Units : SettleCreate(ap, to, n)
  BY <1>3, MintCustody DEF SettleCreate
<1>4. CASE \E u \in Users, n \in Units : CreateFirst(u, n)
  <2>1. PICK u \in Users, n \in Units :
          FirstMint(u, n, recipe) /\ UNCHANGED <<gifts, recipe, nextRecipe>>
    BY <1>4 DEF CreateFirst, Reissue, target
  <2>2. Len(recipe) \in Nat /\ DOMAIN recipe = 1..Len(recipe)
    BY <1>1
  <2> QED
    BY <1>1, <2>1, <2>2, FirstMintCustody
<1>5. CASE \E u \in Users, n \in Units, k \in 0..MaxLegs :
             \E picks \in [1..k -> DOMAIN recipe] : Bootstrap(u, n, picks)
  <2>1. PICK u \in Users, n \in Units, k \in 0..MaxLegs :
          \E picks \in [1..k -> DOMAIN recipe] : Bootstrap(u, n, picks)
    BY <1>5
  <2>2. PICK picks \in [1..k -> DOMAIN recipe] : Bootstrap(u, n, picks)
    BY <2>1
  <2> DEFINE legs == [i \in DOMAIN picks |-> recipe[picks[i]]]
  <2>3. FirstMint(u, n, legs) /\ UNCHANGED <<gifts, recipe, nextRecipe>>
    BY <2>2 DEF Bootstrap, Issue, target
  <2>4. k \in Nat
    OBVIOUS
  <2>5. /\ DOMAIN legs = 1..k /\ \A i \in DOMAIN legs : legs[i].token \in Tokens
        /\ legs \in Seq(Leg)
    <3>1. \A i \in 1..k : recipe[picks[i]] \in Leg
      BY <1>1
    <3> QED
      BY <2>4, <3>1 DEF Leg
  <2>6. Len(legs) = k
    BY <2>4, <2>5
  <2> HIDE DEF legs
  <2> QED
    BY <1>1, <2>3, <2>4, <2>5, <2>6, FirstMintCustody
<1>6. CASE \E u \in Users, n \in 1..MaxShares : Redeem(u, n)
  BY <1>6, RedeemCustody
<1> QED
  BY <1>2, <1>3, <1>4, <1>5, <1>6 DEF ShareOperation

(* A swap goes through sane custody from its first leg to its last.         *)
LEMMA SwapCustody ==
  ASSUME CustodyInv,
         NEW acquire, Len(acquire) \in Nat,
         \A i \in 1..Len(acquire) : acquire[i].token \in Tokens /\ acquire[i].amount \in Nat,
         NEW release, Len(release) \in Nat,
         \A i \in 1..Len(release) : release[i].token \in Tokens /\ release[i].amount \in Nat,
         Swap(acquire, release), UNCHANGED <<target, gifts>>
  PROVE  CustodyInv'
<1> DEFINE c == InOrder(AcquireIn, acquire, Custody)
           d == InOrder(ReleaseOut, release, c)
<1>1. CustodyIs(d)
  BY DEF Swap, Swapped
<1>2. gifts' = gifts /\ recipe' = recipe /\ nextRecipe' = nextRecipe
  BY DEF target
<1>3. Sane(c)
  <2>1. PICK f : IsRun("acquire", acquire, Custody, f, Len(acquire)) /\ c = f[Len(acquire)]
    BY AcquireRuns
  <2> QED
    BY <2>1, CustodySane, RunSane DEF CustodyInv
<1> HIDE DEF c
<1>4. Sane(d)
  <2>1. PICK f : IsRun("release", release, c, f, Len(release)) /\ d = f[Len(release)]
    BY ReleaseRuns
  <2> QED
    BY <1>3, <2>1, RunSane DEF CustodyInv
<1> HIDE DEF d
<1>5. Secure(d.coins, d.claims, d.held, d.isHeld, gifts)
  BY <1>4, SaneIsSecure
<1> QED
  BY <1>1, <1>2, <1>5 DEF CustodyInv, CustodyIs

(* Wraps and gifts leave what is outside the set to gifts.                  *)
LEMMA HolderCustody ==
  ASSUME CustodyInv, NEW u \in Users, NEW t \in Tokens, NEW q \in Nat,
         HolderOperation(u, t, q)
  PROVE  CustodyInv'
<1>1. u # Vault /\ u \in Accounts
  BY VaultAssumption
<1>2. CASE Wrap(u, t, q) \/ Unwrap(u, t, q) \/ UnwrapToVault(u, t, q) \/ Stray(t, q)
  <2>1. /\ IsRegistry /\ held' = held /\ isHeld' = isHeld /\ gifts' = gifts
        /\ recipe' = recipe /\ nextRecipe' = nextRecipe
    BY <1>2 DEF Wrap, Unwrap, UnwrapToVault, Stray, Others, target
  <2>2. \E p, v : coins' = [coins EXCEPT ![t] = p] /\ claims' = [claims EXCEPT ![u][t] = v]
    <3>1. CASE Wrap(u, t, q) \/ Unwrap(u, t, q)
      BY <3>1 DEF Wrap, Unwrap
    <3>2. CASE UnwrapToVault(u, t, q)
      <4>1. coins' = [coins EXCEPT ![t] = coins[t]]
        BY <3>2 DEF UnwrapToVault, CustodyInv, Secure
      <4> QED
        BY <3>2, <4>1 DEF UnwrapToVault
    <3>3. CASE Stray(t, q)
      <4>1. claims' = [claims EXCEPT ![u][t] = claims[u][t]]
        <5>1. DOMAIN claims = Custodians /\ u \in Custodians
              /\ claims[u] = [x \in Tokens |-> claims[u][x]]
          BY <1>1 DEF CustodyInv, Secure, Custodians
        <5>2. [claims[u] EXCEPT ![t] = claims[u][t]] = claims[u]
          BY <5>1
        <5> QED
          BY <3>3, <5>1, <5>2 DEF Stray, CustodyInv, Secure
      <4> QED
        BY <3>3, <4>1 DEF Stray
    <3> QED
      BY <1>2, <3>1, <3>2, <3>3
  <2>3. /\ coins' = [x \in Tokens |-> coins'[x]]
        /\ claims' = [a \in Custodians |-> [x \in Tokens |-> claims'[a][x]]]
    <3>1. PICK p, v : /\ coins' = [coins EXCEPT ![t] = p]
                      /\ claims' = [claims EXCEPT ![u] = [claims[u] EXCEPT ![t] = v]]
      BY <2>2
    <3>2. coins' = [x \in Tokens |-> coins'[x]]
      BY <3>1 DEF CustodyInv, Secure
    <3>3. /\ DOMAIN claims = Custodians
          /\ \A a \in Custodians : claims[a] = [x \in Tokens |-> claims[a][x]]
      BY DEF CustodyInv, Secure
    <3>4. claims' = [a \in Custodians |-> claims'[a]]
      BY <3>1, <3>3
    <3>5. \A a \in Custodians : claims'[a] = IF a = u THEN [claims[u] EXCEPT ![t] = v] ELSE claims[a]
      BY <3>1, <3>3
    <3>6. \A a \in Custodians : claims'[a] = [x \in Tokens |-> claims'[a][x]]
      BY <3>3, <3>5
    <3> QED
      BY <3>2, <3>4, <3>6
  <2>4. claims'[Vault] = claims[Vault]
    BY <1>1, <2>2 DEF CustodyInv, Secure, Custodians
  <2>5. \A x \in Tokens : Top(coins', claims', x) = Top(coins, claims, x)
    BY <2>1, <2>4 DEF Top
  <2> QED
    BY <2>1, <2>3, <2>5 DEF CustodyInv, Secure
<1>3. CASE Gift(u, t, q)
  <2> DEFINE amount == [x \in Tokens |-> IF x = t THEN q ELSE 0]
  <2>1. Move(u, Vault, amount) /\ gifts' = [gifts EXCEPT ![t] = gifts[t] + q]
    BY <1>3 DEF Gift
  <2>2. held' = held /\ isHeld' = isHeld /\ recipe' = recipe /\ nextRecipe' = nextRecipe
    BY <1>3 DEF Gift, Others, target
  <2>3. /\ gifts' \in [Tokens -> Nat]
        /\ \A x \in Tokens : gifts'[x] = gifts[x] + amount[x]
    BY <2>1 DEF CustodyInv
  <2>4. \A x \in Tokens : amount[x] \in Int
    OBVIOUS
  <2> HIDE DEF amount
  <2>5. /\ coins' = [x \in Tokens |-> coins'[x]]
        /\ claims' = [b \in Custodians |-> [x \in Tokens |-> claims'[b][x]]]
        /\ \A x \in Tokens : Top(coins', claims', x) = Top(coins, claims, x) + amount[x]
    BY <1>1, <2>1, MoveIn
  <2>6. ASSUME NEW x \in Tokens \ isHeld
        PROVE  Top(coins', claims', x) \in Int /\ Top(coins', claims', x) <= gifts'[x]
    <3>1. /\ Top(coins, claims, x) \in Int /\ Top(coins, claims, x) <= gifts[x]
          /\ gifts[x] \in Nat
      BY DEF CustodyInv, Secure
    <3>2. /\ Top(coins', claims', x) = Top(coins, claims, x) + amount[x]
          /\ gifts'[x] = gifts[x] + amount[x] /\ amount[x] \in Int
      BY <2>3, <2>4, <2>5
    <3> QED
      BY <3>1, <3>2
  <2> QED
    BY <2>2, <2>3, <2>5, <2>6 DEF CustodyInv, Secure
<1> QED
  BY <1>2, <1>3 DEF HolderOperation

LEMMA AssetCustody == CustodyInv /\ AssetOperation => CustodyInv'
<1> SUFFICES ASSUME CustodyInv, AssetOperation PROVE CustodyInv'
  OBVIOUS
<1> DEFINE In == [token : Tokens, amount : Quantities]
           Out == [token : Tokens, amount : Quantities, minOut : Floors]
<1>1. Quantities \subseteq Nat
  BY VaultAssumption
<1>2. CASE \E acquire \in LegsUpTo(MaxLegs, In), release \in LegsUpTo(MaxLegs, Out) :
             ExecuteRebalance(acquire, release)
  <2>1. PICK acquire \in LegsUpTo(MaxLegs, In), release \in LegsUpTo(MaxLegs, Out) :
          ExecuteRebalance(acquire, release)
    BY <1>2
  <2>2. PICK j \in 0..MaxLegs : acquire \in [1..j -> In]
    BY DEF LegsUpTo
  <2>3. PICK k \in 0..MaxLegs : release \in [1..k -> Out]
    BY DEF LegsUpTo
  <2>4. Len(acquire) = j /\ j \in Nat /\ \A i \in 1..j : acquire[i] \in In
    BY <2>2
  <2>5. Len(release) = k /\ k \in Nat /\ \A i \in 1..k : release[i] \in Out
    BY <2>3
  <2>6. /\ \A i \in 1..j : acquire[i].token \in Tokens /\ acquire[i].amount \in Nat
        /\ \A i \in 1..k : release[i].token \in Tokens /\ release[i].amount \in Nat
    BY <1>1, <2>4, <2>5
  <2>7. Swap(acquire, release) /\ UNCHANGED <<target, gifts>>
    BY <2>1 DEF ExecuteRebalance, Others
  <2> QED
    BY <2>4, <2>5, <2>6, <2>7, SwapCustody
<1>3. CASE \E u \in Users, t \in Tokens, q \in Quantities :
             HolderOperation(u, t, q)
  BY <1>1, <1>3, HolderCustody
<1> QED
  BY <1>2, <1>3 DEF AssetOperation, HolderOperation

(* Every step keeps the custody set exact.                                  *)
LEMMA CustodyStep == CustodyInv /\ [Next]_vars => CustodyInv'
<1> SUFFICES ASSUME CustodyInv, [Next]_vars PROVE CustodyInv'
  OBVIOUS
<1>1. CASE ShareOperation
  BY <1>1, ShareCustody
<1>2. CASE AssetOperation
  BY <1>2, AssetCustody
<1>3. CASE UNCHANGED <<assets, target, gifts>>
  BY <1>3 DEF CustodyInv, assets, target
<1>4. CASE \E r \in Recipes \cup {NoRecipe} : ScheduleRecipe(r)
  <2>1. PICK r \in Recipes : ScheduleRecipe(r)
    BY <1>4 DEF ScheduleRecipe
  <2> QED
    BY <2>1 DEF ScheduleRecipe, assets, CustodyInv
<1>5. CASE ActivateRecipe
  BY <1>5 DEF ActivateRecipe, assets, CustodyInv, NoTarget
<1>6. CASE \/ FeeOperation /\ UNCHANGED <<assets, target, grants, gifts>>
           \/ \E from \in Accounts, to \in Users : TransferShares(from, to, shares[from])
           \/ \E who \in Grantees, b \in BOOLEAN : Grant(who, b)
           \/ Tick
           \/ UNCHANGED vars
  BY <1>3, <1>6 DEF TransferShares, Grant, Tick, vars
<1> QED
  BY <1>1, <1>2, <1>4, <1>5, <1>6 DEF Next

LEMMA CustodyInit == Init => CustodyInv
<1> SUFFICES ASSUME Init PROVE CustodyInv
  OBVIOUS
<1>1. /\ gifts \in [Tokens -> Nat] /\ recipe \in Recipes /\ nextRecipe.effectiveAt = 0
  BY VaultAssumption DEF Init, NoTarget
<1>2. Listed(held, isHeld)
  BY DEF Init, Listed
<1>3. /\ coins = [t \in Tokens |-> coins[t]]
      /\ claims = [a \in Custodians |-> [t \in Tokens |-> claims[a][t]]]
  BY DEF Init
<1>4. ASSUME NEW t \in Tokens
      PROVE  Top(coins, claims, t) \in Int /\ Top(coins, claims, t) <= gifts[t]
  <2>1. coins[t] = 0 /\ claims[Vault][t] = 0 /\ gifts[t] = 0
    BY DEF Init, Custodians
  <2> QED
    BY <2>1 DEF Top
<1>5. Secure(coins, claims, held, isHeld, gifts)
  BY <1>2, <1>3, <1>4 DEF Secure
<1> QED
  BY <1>1, <1>5 DEF CustodyInv

(* The custody set lists once each token that backs shares, in the array    *)
(* and in the mapping: what the vault has of a token outside it was sent    *)
(* there past every operation.                                              *)
THEOREM CustodySetIsExact == Spec => []CustodySet
BY CustodyInit, CustodyStep, CustodyInvIsStrong, PTL DEF Spec

-----------------------------------------------------------------------------
(* Division.                                                                *)
LEMMA DivBounds ==
  ASSUME NEW a \in Nat, NEW d \in Nat \ {0}
  PROVE  a \div d \in Nat /\ d * (a \div d) <= a /\ a < d * (a \div d) + d
OBVIOUS

LEMMA TimesNat ==
  ASSUME NEW a \in Nat, NEW b \in Nat
  PROVE  a * b \in Nat
OBVIOUS

LEMMA TimesMonotone ==
  ASSUME NEW a \in Nat, NEW b \in Nat, NEW c \in Nat, b <= c
  PROVE  a * b <= a * c
OBVIOUS

(* A share of a per mille no larger than the whole is no larger than it.    *)
LEMMA CeilShare ==
  ASSUME NEW a \in Nat, NEW d \in Nat \ {0}, NEW k \in Nat, k <= d
  PROVE  CeilDiv(a * k, d) \in 0..a
<1> DEFINE q == CeilDiv(a * k, d)
<1>1. a * k \in Nat /\ a * k <= a * d /\ a * d \in Nat
  BY TimesNat, TimesMonotone
<1>2. q \in Nat /\ d * q <= a * k + d - 1
  <2>1. a * k + d - 1 \in Nat
    BY <1>1
  <2> QED
    BY <2>1, DivBounds DEF CeilDiv
<1> HIDE DEF q
<1>3. SUFFICES ASSUME q > a PROVE FALSE
  BY <1>2 DEF q
<1>4. d * (a + 1) <= d * q
  BY <1>2, <1>3, TimesMonotone
<1>5. d * (a + 1) = a * d + d
  OBVIOUS
<1>6. d * q \in Nat
  BY <1>2, TimesNat
<1> QED
  BY <1>1, <1>2, <1>4, <1>5, <1>6

(* A part of a, in n of s, rounded down, is at most a when n is at most s.   *)
LEMMA FloorShare ==
  ASSUME NEW a \in Nat, NEW s \in Nat \ {0}, NEW n \in Nat, n <= s
  PROVE  (a * n) \div s \in 0..a
<1> DEFINE q == (a * n) \div s
<1>1. a * n \in Nat /\ a * n <= a * s /\ a * s \in Nat
  BY TimesNat, TimesMonotone
<1>2. q \in Nat /\ s * q <= a * n
  BY <1>1, DivBounds
<1> HIDE DEF q
<1>3. SUFFICES ASSUME q > a PROVE FALSE
  BY <1>2 DEF q
<1>4. s * (a + 1) <= s * q
  BY <1>2, <1>3, TimesMonotone
<1>5. s * (a + 1) = a * s + s
  OBVIOUS
<1>6. s * q \in Nat
  BY <1>2, TimesNat
<1> QED
  BY <1>1, <1>2, <1>4, <1>5, <1>6

(* Rounded up, a quotient covers its dividend.                              *)
LEMMA CeilNat ==
  ASSUME NEW a \in Nat, NEW d \in Nat \ {0}
  PROVE  CeilDiv(a, d) \in Nat /\ d * CeilDiv(a, d) >= a
<1>1. a + d - 1 \in Nat
  OBVIOUS
<1>2. CeilDiv(a, d) \in Nat /\ a + d - 1 < d * CeilDiv(a, d) + d
  BY <1>1, DivBounds DEF CeilDiv
<1>3. d * CeilDiv(a, d) \in Nat
  BY <1>2, TimesNat
<1> QED
  BY <1>2, <1>3

(* The fees of a leg are a number, at any rate and after any time.          *)
LEMMA FeeAddNat ==
  ASSUME NEW sup \in Nat, NEW elapsed \in Nat, NEW bps \in Nat
  PROVE  FeeAddScaled(sup, elapsed, bps) \in Nat
<1> DEFINE num == bps * elapsed
           den == BPS * YEAR
<1>1. num \in Nat /\ den \in Nat /\ SCALE \in Nat
  BY FeeAssumption, TimesNat
<1>2. sup * SCALE \in Nat /\ (sup * num) * SCALE \in Nat
  BY <1>1, TimesNat
<1> HIDE DEF num, den
<1>3. CASE num >= den
  BY <1>2, <1>3 DEF FeeAddScaled, num, den
<1>4. CASE ~(num >= den)
  <2>1. den - num \in Nat \ {0}
    BY <1>1, <1>4
  <2>2. ((sup * num) * SCALE) \div (den - num) \in Nat
    BY <1>2, <2>1, DivBounds
  <2> QED
    BY <1>4, <2>2 DEF FeeAddScaled, num, den
<1> QED
  BY <1>3, <1>4

(* The keeper leg is never more than the manager leg it is carved out of.   *)
LEMMA LegAddNat ==
  ASSUME FeesTypeOK, lastAccrued <= now
  PROVE  LegAdd.manager \in Nat /\ LegAdd.keeper \in Nat /\ LegAdd.platform \in Nat
<1>1. /\ supply \in Nat /\ now - lastAccrued \in Nat
      /\ rate.manager \in Nat /\ rate.platform \in Nat
      /\ rate.keeper \in Nat /\ rate.keeper <= BPS
  <2>1. /\ rate["manager"] \in 0..RateMax["manager"]
        /\ rate["platform"] \in 0..RateMax["platform"]
        /\ rate["keeper"] \in 0..RateMax["keeper"]
    BY DEF FeesTypeOK, Legs
  <2> QED
    BY <2>1, FeeAssumption DEF FeesTypeOK, RateMax
<1> DEFINE m == FeeAddScaled(supply, now - lastAccrued, rate.manager)
           k == CeilDiv(m * rate.keeper, BPS)
           p == FeeAddScaled(supply, now - lastAccrued, rate.platform)
<1>2. m \in Nat /\ p \in Nat
  BY <1>1, FeeAddNat
<1>3. LegAdd = [manager |-> m - k, keeper |-> k, platform |-> p]
  BY DEF LegAdd
<1> HIDE DEF m, p
<1>4. k \in 0..m
  BY <1>1, <1>2, CeilShare, FeeAssumption
<1> HIDE DEF k
<1> QED
  BY <1>2, <1>3, <1>4

(* What an accrual mints and carries of a leg.                              *)
LEMMA MintNat ==
  ASSUME FeesTypeOK, lastAccrued <= now, NEW l \in Legs
  PROVE  /\ OwedNow[l] \in Nat /\ MintNow[l] \in Nat
         /\ OwedNow[l] - MintNow[l] * SCALE \in 0..(SCALE - 1)
         /\ supply = 0 => MintNow[l] = 0
<1>1. owed[l] \in Nat /\ owed[l] < SCALE /\ SCALE \in Nat \ {0}
  BY FeeAssumption DEF FeesTypeOK
<1>2. LegAdd[l] \in Nat
  BY LegAddNat DEF Legs
<1>3. OwedNow[l] = IF Idle THEN owed[l] ELSE owed[l] + LegAdd[l]
  BY DEF OwedNow
<1>4. OwedNow[l] \in Nat
  BY <1>1, <1>2, <1>3
<1>5. MintNow[l] = IF Idle THEN 0 ELSE OwedNow[l] \div SCALE
  BY DEF MintNow
<1>6. CASE Idle
  BY <1>1, <1>3, <1>4, <1>5, <1>6
<1>7. CASE ~Idle
  <2> DEFINE o == OwedNow[l]
  <2>1. /\ o \div SCALE \in Nat /\ SCALE * (o \div SCALE) <= o
        /\ o < SCALE * (o \div SCALE) + SCALE
    BY <1>1, <1>4, DivBounds
  <2>2. (o \div SCALE) * SCALE = SCALE * (o \div SCALE)
    BY <1>1, <2>1
  <2>3. supply # 0
    BY <1>7 DEF Idle
  <2>4. SCALE * (o \div SCALE) \in Nat
    BY <1>1, <2>1, TimesNat
  <2>5. o - SCALE * (o \div SCALE) \in 0..(SCALE - 1)
    BY <1>1, <1>4, <2>1, <2>4
  <2> QED
    BY <1>4, <1>5, <1>7, <2>1, <2>2, <2>3, <2>5
<1> QED
  BY <1>6, <1>7

(* The ledger after an accrual: what is minted is in the supply and in the   *)
(* balances, once each.                                                     *)
LEMMA LedgerNow ==
  ASSUME FeesTypeOK, lastAccrued <= now, SumOver(shares, Accounts) = supply
  PROVE  /\ SharesNow \in [Accounts -> Nat]
         /\ SupplyNow \in Nat /\ SupplyNow >= supply
         /\ supply = 0 => SupplyNow = 0
         /\ SumOver(SharesNow, Accounts) = SupplyNow
<1> DEFINE m == MintNow["manager"]
           k == MintNow["keeper"]
           p == MintNow["platform"]
           boss == office["manager"].holder
<1>1. m \in Nat /\ k \in Nat /\ p \in Nat /\ supply \in Nat
  BY MintNat DEF Legs, FeesTypeOK
<1>2. supply = 0 => m = 0 /\ k = 0 /\ p = 0
  BY MintNat DEF Legs
<1>3. /\ SupplyNow = supply + m + p + k
      /\ SharesNow = [a \in Accounts |-> shares[a] + ((IF a = treasury THEN p ELSE 0)
                        + (IF a = KeeperEscrow THEN k ELSE 0) + (IF a = boss THEN m ELSE 0))]
  BY DEF SupplyNow, SharesNow, MintedTo
<1>4. treasury \in Accounts /\ KeeperEscrow \in Accounts /\ boss \in Accounts
      /\ IsFiniteSet(Accounts)
  BY FeeAssumption, VaultAssumption DEF FeesTypeOK, Offices
<1>5. shares \in [Accounts -> Nat]
  BY DEF FeesTypeOK
<1> HIDE DEF m, k, p, boss
<1> DEFINE one == [a \in Accounts |-> shares[a] + (IF a = treasury THEN p ELSE 0)]
           two == [a \in Accounts |-> one[a] + (IF a = KeeperEscrow THEN k ELSE 0)]
           three == [a \in Accounts |-> two[a] + (IF a = boss THEN m ELSE 0)]
<1>6. one \in [Accounts -> Nat] /\ two \in [Accounts -> Nat] /\ three \in [Accounts -> Nat]
  BY <1>1, <1>5
<1>7. SharesNow = three
  <2>1. \A a \in Accounts :
          shares[a] + ((IF a = treasury THEN p ELSE 0) + (IF a = KeeperEscrow THEN k ELSE 0)
                       + (IF a = boss THEN m ELSE 0)) = three[a]
    BY <1>1, <1>5
  <2> QED
    BY <1>3, <2>1
<1>8. SumOver(one, Accounts) = SumOver(shares, Accounts) + p
  <2>1. \A a \in Accounts : one[a] = shares[a] + (IF a = treasury THEN p ELSE 0)
    OBVIOUS
  <2> HIDE DEF one
  <2>2. SumOver(one, Accounts) = SumOver(shares, Accounts) + (one[treasury] - shares[treasury])
        /\ SumOver(shares, Accounts) \in Int
    BY <1>1, <1>4, <1>5, <1>6, <2>1, SumChange
  <2> QED
    BY <1>1, <1>4, <1>5, <2>1, <2>2
<1>9. SumOver(two, Accounts) = SumOver(one, Accounts) + k
  <2>1. \A a \in Accounts : two[a] = one[a] + (IF a = KeeperEscrow THEN k ELSE 0)
    OBVIOUS
  <2> HIDE DEF one, two
  <2>2. SumOver(two, Accounts) = SumOver(one, Accounts) + (two[KeeperEscrow] - one[KeeperEscrow])
        /\ SumOver(one, Accounts) \in Int
    BY <1>1, <1>4, <1>6, <2>1, SumChange
  <2> QED
    BY <1>1, <1>4, <1>6, <2>1, <2>2
<1>10. SumOver(three, Accounts) = SumOver(two, Accounts) + m
  <2>1. \A a \in Accounts : three[a] = two[a] + (IF a = boss THEN m ELSE 0)
    OBVIOUS
  <2> HIDE DEF two, three
  <2>2. SumOver(three, Accounts) = SumOver(two, Accounts) + (three[boss] - two[boss])
        /\ SumOver(two, Accounts) \in Int
    BY <1>1, <1>4, <1>6, <2>1, SumChange
  <2> QED
    BY <1>1, <1>4, <1>6, <2>1, <2>2
<1> HIDE DEF one, two, three
<1> QED
  BY <1>1, <1>2, <1>3, <1>6, <1>7, <1>8, <1>9, <1>10

-----------------------------------------------------------------------------
(* Types, the ledger and the claims together.  A redeem cannot take more    *)
(* than there is because nobody holds more than the supply, and a registry  *)
(* vault can unwrap what it swaps out because all claims are backed.        *)
FeesInv ==
  /\ FeesTypeOK /\ lastAccrued <= now /\ exposure \in Nat
  /\ SumOver(shares, Accounts) = supply

(* A sum in the next state is the sum of the next balances.                 *)
LEMMA SumOfShares == SumOver(shares, Accounts)' = SumOver(shares', Accounts)
BY DEF SumOver, MapThenSumSet, MapThenFoldSet

(* A mint or redeem moves the supply by what it moves a balance.            *)
LEMMA ReissueFees ==
  ASSUME FeesInv, NEW a \in Accounts, NEW delta \in Int, SharesNow[a] + delta \in Nat,
         Reissue(a, delta)
  PROVE  FeesInv'
<1>1. /\ SharesNow \in [Accounts -> Nat] /\ SupplyNow \in Nat
      /\ SumOver(SharesNow, Accounts) = SupplyNow
  BY LedgerNow DEF FeesInv
<1>2. IsFiniteSet(Accounts)
  BY VaultAssumption
<1> DEFINE f == SharesNow
           g == [f EXCEPT ![a] = f[a] + delta]
<1>3. shares' = g /\ supply' = SupplyNow + delta
  BY DEF Reissue
<1>4. /\ lastAccrued' = now /\ now' = now /\ exposure' = 0
      /\ owed' = [l \in Legs |-> OwedNow[l] - MintNow[l] * SCALE]
      /\ rate' = rate /\ pending' = pending
      /\ office' = office /\ treasury' = treasury /\ flat' = flat
  BY DEF Reissue, Accrue, roles
<1>5. \A l \in Legs : owed'[l] \in 0..(SCALE - 1)
  BY <1>4, MintNat DEF FeesInv
<1> HIDE DEF f
<1>6. /\ f \in [Accounts -> Nat] /\ f[a] + delta \in Nat
      /\ SumOver(f, Accounts) = SupplyNow
  BY <1>1 DEF f
<1>7. g \in [Accounts -> Nat] /\ g[a] = f[a] + delta
      /\ \A b \in Accounts \ {a} : g[b] = f[b]
  BY <1>6
<1> HIDE DEF g
<1>8. SumOver(g, Accounts) = SumOver(f, Accounts) + (g[a] - f[a])
  BY <1>2, <1>6, <1>7, SumChange
<1>9. SumOver(g, Accounts) = SupplyNow + delta
  BY <1>1, <1>6, <1>7, <1>8
<1>10. SumOver(g, Accounts) \in Nat
  BY <1>2, <1>7, SumNat
<1>11. SumOver(shares', Accounts) = supply' /\ supply' \in Nat /\ shares' \in [Accounts -> Nat]
  BY <1>3, <1>7, <1>9, <1>10
<1>12. SumOver(shares, Accounts)' = SumOver(shares', Accounts)
  BY SumOfShares
<1>13. FeesTypeOK'
  BY <1>4, <1>5, <1>11 DEF FeesInv, FeesTypeOK
<1>14. lastAccrued' <= now'
  BY <1>4 DEF FeesInv, FeesTypeOK
<1> QED
  BY <1>4, <1>11, <1>12, <1>13, <1>14 DEF FeesInv

(* A bootstrap adds to the supply what it adds to a balance.                *)
LEMMA IssueFees ==
  ASSUME FeesInv, NEW a \in Accounts, NEW n \in Nat, Issue(a, n)
  PROVE  FeesInv'
<1> DEFINE g == [shares EXCEPT ![a] = shares[a] + n]
<1>1. /\ IsFiniteSet(Accounts) /\ shares \in [Accounts -> Nat]
      /\ supply \in Nat /\ SumOver(shares, Accounts) = supply
  BY VaultAssumption DEF FeesInv, FeesTypeOK
<1>2. shares' = g /\ supply' = supply + n /\ UNCHANGED <<feeState, roles, now, exposure>>
  BY DEF Issue
<1>3. g \in [Accounts -> Nat] /\ g[a] = shares[a] + n
      /\ \A b \in Accounts \ {a} : g[b] = shares[b]
  BY <1>1
<1> HIDE DEF g
<1>4. SumOver(g, Accounts) = SumOver(shares, Accounts) + (g[a] - shares[a])
  BY <1>1, <1>3, SumChange
<1>5. SumOver(g, Accounts) = supply + n
  BY <1>1, <1>3, <1>4
<1>6. SumOver(shares, Accounts)' = supply' /\ supply' \in Nat /\ shares' \in [Accounts -> Nat]
  BY <1>1, <1>2, <1>3, <1>5, SumOfShares
<1> QED
  BY <1>2, <1>6 DEF FeesInv, FeesTypeOK, feeState, roles

(* An accrual leaves balances that add up to the supply.                    *)
LEMMA AccrueFees ==
  ASSUME FeesInv, AccrueLedger, now' = now, exposure' \in Nat,
         UNCHANGED roles,
         \A l \in Legs : /\ rate'[l] \in 0..RateMax[l]
                         /\ pending'[l] \in [bps : 0..RateMax[l], effectiveAt : Nat],
         DOMAIN rate' = Legs, DOMAIN pending' = Legs
  PROVE  FeesInv'
<1>1. /\ SharesNow \in [Accounts -> Nat] /\ SupplyNow \in Nat
      /\ SumOver(SharesNow, Accounts) = SupplyNow
  BY LedgerNow DEF FeesInv
<1>2. /\ lastAccrued' = now
      /\ owed' = [l \in Legs |-> OwedNow[l] - MintNow[l] * SCALE]
      /\ shares' = SharesNow /\ supply' = SupplyNow
      /\ office' = office /\ treasury' = treasury /\ flat' = flat
  BY DEF AccrueLedger, Accrue, roles
<1>3. \A l \in Legs : owed'[l] \in 0..(SCALE - 1)
  BY <1>2, MintNat DEF FeesInv
<1>4. SumOver(shares, Accounts)' = SumOver(shares', Accounts)
  BY SumOfShares
<1>5. SumOver(shares', Accounts) = supply'
  BY <1>1, <1>2
<1>6. DOMAIN owed' = Legs
  BY <1>2
<1>7. FeesTypeOK'
  BY <1>1, <1>2, <1>3, <1>6 DEF FeesInv, FeesTypeOK
<1>8. lastAccrued' <= now'
  BY <1>2 DEF FeesInv, FeesTypeOK
<1> QED
  BY <1>4, <1>5, <1>7, <1>8 DEF FeesInv

LEMMA SetRateFees ==
  ASSUME FeesInv, NEW l \in Legs, NEW b \in Rates, SetRate(l, b), exposure' \in Nat
  PROVE  FeesInv'
<1>1. /\ b \in 0..RateMax[l] /\ AccrueLedger /\ ApplyOrSchedule(l, b)
      /\ UNCHANGED roles /\ now' = now
  <2>1. b \in Nat
    BY VaultAssumption
  <2>2. RateMax[l] \in Nat
    BY FeeAssumption DEF RateMax, Legs
  <2> QED
    BY <2>1, <2>2 DEF SetRate
<1>2. now \in Nat /\ TIMELOCK \in Nat /\ now + TIMELOCK \in Nat
  BY FeeAssumption DEF FeesInv, FeesTypeOK
<1>3. /\ DOMAIN rate = Legs /\ DOMAIN pending = Legs
      /\ \A m \in Legs : /\ rate[m] \in 0..RateMax[m]
                         /\ pending[m] \in [bps : 0..RateMax[m], effectiveAt : Nat]
  BY DEF FeesInv, FeesTypeOK
<1>4. 0 \in 0..RateMax[l]
  <2>1. RateMax[l] \in Nat
    BY FeeAssumption DEF RateMax, Legs
  <2> QED
    BY <2>1
<1>5. /\ DOMAIN rate' = Legs /\ DOMAIN pending' = Legs
      /\ \A m \in Legs : /\ rate'[m] \in 0..RateMax[m]
                         /\ pending'[m] \in [bps : 0..RateMax[m], effectiveAt : Nat]
  <2>1. CASE b <= rate[l]
    <3>1. rate' = [rate EXCEPT ![l] = b] /\ pending' = [pending EXCEPT ![l] = NoIncrease]
      BY <1>1, <2>1 DEF ApplyOrSchedule
    <3>2. NoIncrease \in [bps : 0..RateMax[l], effectiveAt : Nat]
      BY <1>4 DEF NoIncrease
    <3> QED
      BY <1>1, <1>3, <3>1, <3>2
  <2>2. CASE ~(b <= rate[l])
    <3> DEFINE rise == [bps |-> b, effectiveAt |-> now + TIMELOCK]
    <3>1. rate' = rate /\ pending' = [pending EXCEPT ![l] = rise]
      BY <1>1, <2>2 DEF ApplyOrSchedule
    <3>2. rise \in [bps : 0..RateMax[l], effectiveAt : Nat]
      BY <1>1, <1>2
    <3> HIDE DEF rise
    <3> QED
      BY <1>3, <3>1, <3>2
  <2> QED
    BY <2>1, <2>2
<1> QED
  BY <1>1, <1>5, AccrueFees

LEMMA ActivateRateFees ==
  ASSUME FeesInv, NEW l \in Legs, ActivateRate(l), exposure' \in Nat
  PROVE  FeesInv'
<1>1. /\ AccrueLedger /\ UNCHANGED roles /\ now' = now
      /\ rate' = [rate EXCEPT ![l] = pending[l].bps]
      /\ pending' = [pending EXCEPT ![l] = NoIncrease]
  BY DEF ActivateRate
<1>2. /\ DOMAIN rate = Legs /\ DOMAIN pending = Legs
      /\ \A m \in Legs : /\ rate[m] \in 0..RateMax[m]
                         /\ pending[m] \in [bps : 0..RateMax[m], effectiveAt : Nat]
  BY DEF FeesInv, FeesTypeOK
<1>3. pending[l].bps \in 0..RateMax[l] /\ 0 \in 0..RateMax[l]
  <2>1. pending[l].bps \in 0..RateMax[l]
    BY <1>2
  <2>2. RateMax[l] \in Nat
    BY FeeAssumption DEF RateMax, Legs
  <2> QED
    BY <2>1, <2>2
<1>4. NoIncrease \in [bps : 0..RateMax[l], effectiveAt : Nat]
  BY <1>3 DEF NoIncrease
<1>5. /\ DOMAIN rate' = Legs /\ DOMAIN pending' = Legs
      /\ \A m \in Legs : /\ rate'[m] \in 0..RateMax[m]
                         /\ pending'[m] \in [bps : 0..RateMax[m], effectiveAt : Nat]
  BY <1>1, <1>2, <1>3, <1>4
<1> QED
  BY <1>1, <1>5, AccrueFees

LEMMA RoleFees ==
  ASSUME FeesInv, exposure' = exposure,
         \/ \E a \in Treasuries : SetTreasury(a)
         \/ \E o \in Offices : Accept(o) \/ \E a \in Treasuries \cup {NoOne} : Nominate(o, a)
         \/ \E b \in FeeTokens : SetFeeToken(b)
         \/ \E side \in {"create", "redeem"}, f \in FlatFees : SetFlatFee(side, f)
  PROVE  FeesInv'
<1>1. /\ UNCHANGED <<ledger, feeState, now>>
  BY DEF SetTreasury, Accept, Nominate, SetFeeToken, SetFlatFee
<1>2. /\ office' \in [Offices -> [holder : Accounts, nominee : Accounts \cup {NoOne}]]
      /\ treasury' \in Accounts
      /\ flat' \in [token : BOOLEAN, create : 0..FLAT_FEE_MAX, redeem : 0..FLAT_FEE_MAX]
  <2>1. /\ office \in [Offices -> [holder : Accounts, nominee : Accounts \cup {NoOne}]]
        /\ treasury \in Accounts
        /\ flat \in [token : BOOLEAN, create : 0..FLAT_FEE_MAX, redeem : 0..FLAT_FEE_MAX]
    BY DEF FeesInv, FeesTypeOK
  <2>2. Treasuries \subseteq Accounts /\ FeeTokens \subseteq BOOLEAN /\ FlatFees \subseteq Nat
    BY VaultAssumption
  <2>3. CASE \E a \in Treasuries : SetTreasury(a)
    BY <2>1, <2>2, <2>3 DEF SetTreasury
  <2>4. CASE \E o \in Offices : Accept(o)
    <3>1. PICK o \in Offices : Accept(o)
      BY <2>4
    <3>2. office[o].nominee \in Accounts
      BY <2>1, <3>1 DEF Accept
    <3>3. [holder |-> office[o].nominee, nominee |-> NoOne]
            \in [holder : Accounts, nominee : Accounts \cup {NoOne}]
      BY <3>2
    <3> QED
      BY <2>1, <3>1, <3>3 DEF Accept
  <2>5. CASE \E o \in Offices : \E a \in Treasuries \cup {NoOne} : Nominate(o, a)
    <3>1. PICK o \in Offices, a \in Treasuries \cup {NoOne} : Nominate(o, a)
      BY <2>5
    <3>2. a \in Accounts \cup {NoOne} /\ office[o] \in [holder : Accounts, nominee : Accounts \cup {NoOne}]
      BY <2>1, <2>2
    <3>3. [office[o] EXCEPT !.nominee = a] \in [holder : Accounts, nominee : Accounts \cup {NoOne}]
      BY <3>2
    <3>4. office' = [office EXCEPT ![o] = [office[o] EXCEPT !.nominee = a]]
      BY <3>1 DEF Nominate
    <3> QED
      BY <2>1, <3>1, <3>3, <3>4 DEF Nominate
  <2>6. CASE \E b \in FeeTokens : SetFeeToken(b)
    BY <2>1, <2>2, <2>6 DEF SetFeeToken
  <2>7. CASE \E side \in {"create", "redeem"}, f \in FlatFees : SetFlatFee(side, f)
    <3>1. PICK side \in {"create", "redeem"}, f \in FlatFees : SetFlatFee(side, f)
      BY <2>7
    <3>2. f \in 0..FLAT_FEE_MAX
      BY <2>2, <3>1, FeeAssumption DEF SetFlatFee
    <3>3. CASE side = "create"
      BY <2>1, <3>1, <3>2, <3>3 DEF SetFlatFee
    <3>4. CASE side = "redeem"
      BY <2>1, <3>1, <3>2, <3>4 DEF SetFlatFee
    <3> QED
      BY <3>3, <3>4
  <2> QED
    BY <2>3, <2>4, <2>5, <2>6, <2>7
<1>3. FeesTypeOK'
  BY <1>1, <1>2 DEF FeesInv, FeesTypeOK, ledger, feeState
<1>4. SumOver(shares, Accounts)' = SumOver(shares, Accounts)
  BY <1>1, SumOfShares DEF ledger
<1> QED
  BY <1>1, <1>3, <1>4 DEF FeesInv, ledger, feeState

LEMMA FeeOperationFees == FeesInv /\ FeeOperation => FeesInv'
<1> SUFFICES ASSUME FeesInv, FeeOperation PROVE FeesInv'
  OBVIOUS
<1>1. CASE AccrueFee /\ exposure' = 0
  <2>1. AccrueLedger /\ UNCHANGED roles /\ now' = now /\ rate' = rate /\ pending' = pending
    BY <1>1 DEF AccrueFee
  <2>2. /\ DOMAIN rate = Legs /\ DOMAIN pending = Legs
        /\ \A m \in Legs : /\ rate[m] \in 0..RateMax[m]
                           /\ pending[m] \in [bps : 0..RateMax[m], effectiveAt : Nat]
    BY DEF FeesInv, FeesTypeOK
  <2>3. exposure' \in Nat
    BY <1>1
  <2> QED
    BY <2>1, <2>2, <2>3, AccrueFees
<1>2. CASE \E l \in Legs : \E b \in Rates : SetRate(l, b) /\ exposure' = 0
  BY <1>2, SetRateFees
<1>3. CASE \E l \in Legs : ActivateRate(l) /\ exposure' = 0
  BY <1>3, ActivateRateFees
<1>4. CASE /\ \/ \E a \in Treasuries : SetTreasury(a)
              \/ \E o \in Offices : Accept(o) \/ \E a \in Treasuries \cup {NoOne} : Nominate(o, a)
              \/ \E b \in FeeTokens : SetFeeToken(b)
              \/ \E side \in {"create", "redeem"}, f \in FlatFees : SetFlatFee(side, f)
           /\ exposure' = exposure
  BY <1>4, RoleFees
<1> QED
  BY <1>1, <1>2, <1>3, <1>4 DEF FeeOperation

(* Shares that change hands leave the total.                                *)
ChangeHands(from, to, n) ==
  /\ from # to /\ n \in 0..shares[from]
  /\ shares' = [shares EXCEPT ![from] = @ - n, ![to] = @ + n]
  /\ UNCHANGED <<supply, feeState, roles, now, exposure>>

LEMMA PaidFees ==
  ASSUME FeesInv, NEW from \in Accounts, NEW to \in Accounts, NEW n, ChangeHands(from, to, n)
  PROVE  FeesInv'
<1>1. /\ shares \in [Accounts -> Nat] /\ IsFiniteSet(Accounts) /\ from # to
      /\ SumOver(shares, Accounts) = supply /\ supply \in Nat
  BY VaultAssumption DEF FeesInv, FeesTypeOK, ChangeHands
<1> DEFINE f == [a \in Accounts |-> IF a = from THEN shares[a] - n ELSE shares[a]]
<1>2. n \in Nat /\ f \in [Accounts -> Nat]
  BY <1>1 DEF ChangeHands
<1>3. \A a \in Accounts : shares'[a] = IF a = to THEN f[a] + n ELSE f[a]
  BY <1>1 DEF ChangeHands
<1>4. shares' \in [Accounts -> Nat]
  <2>1. shares' = [a \in Accounts |-> shares'[a]]
    BY <1>1 DEF ChangeHands
  <2>2. \A a \in Accounts : shares'[a] \in Nat
    <3>1. \A a \in Accounts : f[a] \in Nat
      BY <1>2
    <3> HIDE DEF f
    <3> QED
      BY <1>2, <1>3, <3>1
  <2> QED
    BY <2>1, <2>2
<1>5. f[from] = shares[from] - n /\ \A a \in Accounts \ {from} : f[a] = shares[a]
  OBVIOUS
<1>6. \A a \in Accounts : shares[a] \in Nat /\ f[a] \in Nat /\ shares'[a] \in Nat
  BY <1>1, <1>2, <1>4
<1> HIDE DEF f
<1>7. SumOver(f, Accounts) = SumOver(shares, Accounts) + (0 - n)
  <2>1. \A a \in Accounts : shares[a] \in Int /\ f[a] \in Int
    BY <1>6
  <2>2. SumOver(f, Accounts) = SumOver(shares, Accounts) + (f[from] - shares[from])
    BY <1>1, <1>5, <2>1, SumChange
  <2> QED
    BY <1>1, <1>2, <1>5, <2>1, <2>2
<1>8. SumOver(shares', Accounts) = SumOver(f, Accounts) + ((f[to] + n) - f[to])
  <2>1. \A a \in Accounts \ {to} : shares'[a] = f[a]
    BY <1>3
  <2>2. \A a \in Accounts : f[a] \in Int /\ shares'[a] \in Int
    BY <1>6
  <2>3. IsFiniteSet(Accounts)
    BY <1>1
  <2>4. SumOver(shares', Accounts) = SumOver(f, Accounts) + (shares'[to] - f[to])
    BY <2>1, <2>2, <2>3, SumChange
  <2> QED
    BY <1>3, <2>4
<1>9. f[to] \in Nat
  BY <1>6
<1>10. SumOver(shares', Accounts) = supply
  BY <1>1, <1>2, <1>7, <1>8, <1>9
<1>11. SumOver(shares, Accounts)' = SumOver(shares', Accounts)
  BY SumOfShares
<1>12. /\ supply' = supply /\ UNCHANGED <<feeState, roles, now>> /\ exposure' = exposure
  BY DEF ChangeHands
<1>13. FeesTypeOK'
  BY <1>4, <1>12 DEF FeesInv, FeesTypeOK, feeState, roles
<1> QED
  BY <1>10, <1>11, <1>12, <1>13 DEF FeesInv, feeState

LEMMA TransferFees ==
  ASSUME FeesInv, NEW from \in Accounts, NEW to \in Accounts,
         TransferShares(from, to, shares[from])
  PROVE  FeesInv'
<1>1. shares[from] \in 0..shares[from]
  BY DEF FeesInv, FeesTypeOK
<1> QED
  BY <1>1, PaidFees DEF TransferShares, ChangeHands

-----------------------------------------------------------------------------
(* The vault's tokens and everybody's claims on them.                       *)
Column(y, t) == [c \in Custodians |-> y[c][t]]

Solid(x, y) ==
  /\ x \in [Tokens -> Nat]
  /\ y \in [Custodians -> [Tokens -> Nat]]
  /\ IsRegistry => \A t \in Tokens : SumOver(Column(y, t), Custodians) <= x[t]

(* Accounts are finite, and so are those who hold claims.                   *)
LEMMA CustodiansFinite == IsFiniteSet(Custodians)
BY VaultAssumption, FS_AddElement DEF Custodians

LEMMA CustodianChange ==
  ASSUME NEW f, NEW g, NEW a \in Custodians,
         \A c \in Custodians : f[c] \in Int /\ g[c] \in Int,
         \A c \in Custodians \ {a} : g[c] = f[c]
  PROVE  SumOver(f, Custodians) \in Int /\ SumOver(g, Custodians) = SumOver(f, Custodians) + (g[a] - f[a])
BY CustodiansFinite, SumChange

(* Somebody's claim moves by d, of one token, with the tokens behind it.    *)
LEMMA SolidShift ==
  ASSUME NEW x, NEW y, Solid(x, y), NEW t \in Tokens, NEW a \in Custodians,
         NEW d \in Int, NEW e \in Int, e <= d, x[t] + d \in Nat, y[a][t] + e \in Nat
  PROVE  Solid([x EXCEPT ![t] = x[t] + d],
               [y EXCEPT ![a] = [y[a] EXCEPT ![t] = y[a][t] + e]])
<1> DEFINE v == [x EXCEPT ![t] = x[t] + d]
           row == [y[a] EXCEPT ![t] = y[a][t] + e]
           w == [y EXCEPT ![a] = row]
<1>1. x \in [Tokens -> Nat] /\ y \in [Custodians -> [Tokens -> Nat]]
  BY DEF Solid
<1>2. row \in [Tokens -> Nat] /\ row[t] = y[a][t] + e
      /\ \A u \in Tokens \ {t} : row[u] = y[a][u]
  BY <1>1
<1> HIDE DEF row
<1>3. v \in [Tokens -> Nat] /\ v[t] = x[t] + d /\ \A u \in Tokens \ {t} : v[u] = x[u]
  BY <1>1
<1>4. w \in [Custodians -> [Tokens -> Nat]] /\ w[a] = row
      /\ \A c \in Custodians \ {a} : w[c] = y[c]
  BY <1>1, <1>2
<1> HIDE DEF v, w
<1>5. ASSUME IsRegistry, NEW u \in Tokens
      PROVE  SumOver(Column(w, u), Custodians) <= v[u]
  <2> DEFINE f == Column(y, u)
             g == Column(w, u)
  <2>1. SumOver(f, Custodians) <= x[u] /\ x[u] \in Nat
    BY <1>1, <1>5 DEF Solid
  <2>2. \A c \in Custodians : f[c] \in Int /\ g[c] \in Int
    <3> TAKE c \in Custodians
    <3>1. f[c] = y[c][u] /\ g[c] = w[c][u]
      BY DEF Column
    <3> QED
      BY <1>1, <1>4, <3>1
  <2>3. \A c \in Custodians \ {a} : g[c] = f[c]
    BY <1>4 DEF Column
  <2>4. g[a] = row[u] /\ f[a] = y[a][u]
    BY <1>4 DEF Column
  <2> HIDE DEF f, g
  <2>5. SumOver(f, Custodians) \in Int /\ SumOver(g, Custodians) = SumOver(f, Custodians) + (g[a] - f[a])
    BY <2>2, <2>3, CustodianChange
  <2>6. CASE u = t
    <3>1. g[a] = f[a] + e /\ f[a] \in Int
      BY <1>2, <2>2, <2>4, <2>6
    <3>2. SumOver(g, Custodians) <= x[t] + d
      BY <2>1, <2>5, <2>6, <3>1
    <3> QED
      BY <1>3, <2>6, <3>2 DEF g
  <2>7. CASE u # t
    <3>1. g[a] = f[a] /\ f[a] \in Int
      BY <1>2, <2>2, <2>4, <2>7
    <3>2. SumOver(g, Custodians) <= x[u]
      BY <2>1, <2>5, <3>1
    <3> QED
      BY <1>3, <2>7, <3>2 DEF g
  <2> QED
    BY <2>6, <2>7
<1>6. Solid(v, w)
  BY <1>3, <1>4, <1>5 DEF Solid
<1> QED
  BY <1>6 DEF v, w, row

LEMMA SolidChange ==
  ASSUME NEW x, NEW y, Solid(x, y), NEW t \in Tokens, NEW a \in Custodians,
         NEW d \in Int, x[t] + d \in Nat, y[a][t] + d \in Nat
  PROVE  Solid([x EXCEPT ![t] = x[t] + d],
               [y EXCEPT ![a] = [y[a] EXCEPT ![t] = y[a][t] + d]])
<1>1. d <= d
  OBVIOUS
<1> QED
  BY <1>1, SolidShift

(* No claim is larger than what backs all of them.                          *)
LEMMA ClaimBacked ==
  ASSUME NEW x, NEW y, Solid(x, y), IsRegistry, NEW t \in Tokens, NEW a \in Custodians
  PROVE  y[a][t] <= x[t]
<1> DEFINE f == Column(y, t)
<1>1. \A c \in Custodians : f[c] \in Nat
  BY DEF Column, Solid
<1>2. f[a] = y[a][t] /\ SumOver(f, Custodians) <= x[t] /\ x[t] \in Nat
  BY DEF Column, Solid
<1> HIDE DEF f
<1>3. SumOver(f, Custodians) \in Nat /\ f[a] <= SumOver(f, Custodians) /\ f[a] \in Nat
  BY <1>1, CustodiansFinite, SumNat
<1> QED
  BY <1>2, <1>3

(* Claims that move from one to another leave their total.                  *)
Moved(y, z, from, to, amount) ==
  z = [y EXCEPT ![from] = [t \in Tokens |-> y[from][t] - amount[t]],
                ![to] = [t \in Tokens |-> y[to][t] + amount[t]]]

LEMMA SolidMove ==
  ASSUME NEW y \in [Custodians -> [Tokens -> Nat]],
         NEW from \in Custodians, NEW to \in Custodians, from # to,
         NEW amount \in [Tokens -> Nat], \A t \in Tokens : y[from][t] >= amount[t],
         NEW z, Moved(y, z, from, to, amount)
  PROVE  /\ z \in [Custodians -> [Tokens -> Nat]]
         /\ \A t \in Tokens : SumOver(Column(z, t), Custodians) = SumOver(Column(y, t), Custodians)
<1> DEFINE less == [t \in Tokens |-> y[from][t] - amount[t]]
           more == [t \in Tokens |-> y[to][t] + amount[t]]
<1>1. less \in [Tokens -> Nat] /\ more \in [Tokens -> Nat]
  <2>1. \A t \in Tokens : y[from][t] \in Nat /\ y[to][t] \in Nat /\ amount[t] \in Nat
    OBVIOUS
  <2>2. \A t \in Tokens : y[from][t] - amount[t] \in Nat /\ y[to][t] + amount[t] \in Nat
    BY <2>1
  <2> QED
    BY <2>2
<1>2. \A t \in Tokens : less[t] = y[from][t] - amount[t] /\ more[t] = y[to][t] + amount[t]
  OBVIOUS
<1>3. z = [y EXCEPT ![from] = less, ![to] = more]
  BY DEF Moved
<1> HIDE DEF less, more
<1>4. /\ z \in [Custodians -> [Tokens -> Nat]]
      /\ z[from] = less /\ z[to] = more
      /\ \A c \in Custodians \ {from, to} : z[c] = y[c]
  BY <1>1, <1>3
<1>5. ASSUME NEW t \in Tokens
      PROVE  SumOver(Column(z, t), Custodians) = SumOver(Column(y, t), Custodians)
  <2> DEFINE f == Column(y, t)
             g == [c \in Custodians |-> IF c = from THEN less[t] ELSE y[c][t]]
             h == Column(z, t)
  <2>1. \A c \in Custodians : f[c] \in Int /\ g[c] \in Int /\ h[c] \in Int
    <3> TAKE c \in Custodians
    <3>1. y[c][t] \in Nat /\ z[c][t] \in Nat /\ less[t] \in Nat
      BY <1>1, <1>4
    <3>2. f[c] = y[c][t] /\ h[c] = z[c][t] /\ g[c] = IF c = from THEN less[t] ELSE y[c][t]
      BY DEF Column
    <3> QED
      BY <3>1, <3>2
  <2>2. \A c \in Custodians \ {from} : g[c] = f[c]
    BY DEF Column
  <2>3. \A c \in Custodians \ {to} : h[c] = g[c]
    BY <1>4 DEF Column
  <2>4. /\ f[from] = y[from][t] /\ g[from] = less[t]
        /\ g[to] = y[to][t] /\ h[to] = more[t]
    BY <1>4 DEF Column
  <2> HIDE DEF f, g, h
  <2>5. /\ SumOver(f, Custodians) \in Int
        /\ SumOver(g, Custodians) = SumOver(f, Custodians) + (g[from] - f[from])
    BY <2>1, <2>2, CustodiansFinite, SumChange
  <2>6. SumOver(h, Custodians) = SumOver(g, Custodians) + (h[to] - g[to])
    BY <2>1, <2>3, CustodiansFinite, SumChange
  <2>7. /\ g[from] - f[from] = 0 - amount[t]
        /\ h[to] - g[to] = amount[t] /\ amount[t] \in Int
    <3>1. y[from][t] \in Nat /\ y[to][t] \in Nat /\ amount[t] \in Nat
      OBVIOUS
    <3> QED
      BY <1>2, <2>4, <3>1
  <2>8. SumOver(h, Custodians) = SumOver(f, Custodians)
    BY <2>5, <2>6, <2>7
  <2> QED
    BY <2>8 DEF f, h
<1> QED
  BY <1>4, <1>5

LEMMA MoveSolid ==
  ASSUME Solid(coins, claims), NEW from \in Custodians, NEW to \in Custodians, from # to,
         NEW amount \in [Tokens -> Nat], Move(from, to, amount),
         \A t \in Tokens : ~IsRegistry /\ to # Vault => amount[t] <= coins[t]
  PROVE  Solid(coins', claims')
<1>1. CASE IsRegistry
  <2>1. /\ coins' = coins /\ \A t \in Tokens : claims[from][t] >= amount[t]
        /\ claims' = [claims EXCEPT ![from] = [t \in Tokens |-> claims[from][t] - amount[t]],
                                    ![to] = [t \in Tokens |-> claims[to][t] + amount[t]]]
    BY <1>1 DEF Move
  <2>2. /\ claims' \in [Custodians -> [Tokens -> Nat]]
        /\ \A t \in Tokens : SumOver(Column(claims', t), Custodians) = SumOver(Column(claims, t), Custodians)
    <3>1. claims \in [Custodians -> [Tokens -> Nat]]
      BY DEF Solid
    <3>2. \A t \in Tokens : claims[from][t] >= amount[t]
      BY <2>1
    <3> DEFINE z == claims'
    <3>3. Moved(claims, z, from, to, amount)
      BY <2>1 DEF Moved
    <3> HIDE DEF z
    <3>4. /\ z \in [Custodians -> [Tokens -> Nat]]
          /\ \A t \in Tokens : SumOver(Column(z, t), Custodians) = SumOver(Column(claims, t), Custodians)
      BY <3>1, <3>2, <3>3, SolidMove
    <3> QED
      BY <3>4 DEF z
  <2> QED
    BY <2>1, <2>2 DEF Solid
<1>2. CASE ~IsRegistry
  <2>1. /\ claims' = claims
        /\ coins' = [t \in Tokens |-> IF to = Vault THEN coins[t] + amount[t]
                                                    ELSE coins[t] - amount[t]]
    BY <1>2 DEF Move
  <2>2. coins' \in [Tokens -> Nat]
    <3>1. \A t \in Tokens : coins[t] \in Nat /\ amount[t] \in Nat
      BY DEF Solid
    <3>2. \A t \in Tokens : coins'[t] \in Nat
      BY <1>2, <2>1, <3>1
    <3> QED
      BY <2>1, <3>2
  <2> QED
    BY <1>2, <2>1, <2>2 DEF Solid
<1> QED
  BY <1>1, <1>2

(* A bundle is a number, whatever leaves are in it, and goes by the unit.   *)
LEMMA BundleNat ==
  ASSUME NEW legs, NEW m \in Nat, DOMAIN legs = 1..m,
         \A i \in 1..m : legs[i].amount \in Nat, NEW t, NEW units \in Nat
  PROVE  /\ Bundle(legs, t, units) \in Nat
         /\ Bundle(legs, t, 1) \in Nat
         /\ Bundle(legs, t, units) = units * Bundle(legs, t, 1)
<1> DEFINE S == {i \in DOMAIN legs : legs[i].token = t}
           f == [i \in S |-> legs[i].amount]
           Is(it) == it = [s \in SUBSET S |->
             IF s = {} THEN 0
             ELSE legs[CHOOSE x \in s : TRUE].amount + it[s \ {CHOOSE x \in s : TRUE}]]
           run == CHOOSE it : Is(it)
           total == MapThenSumSet(LAMBDA i : legs[i].amount, S)
<1>1. IsFiniteSet(S)
  <2>1. IsFiniteSet(1..m) /\ S \in SUBSET (1..m)
    BY FS_Interval
  <2> QED
    BY <2>1, FS_Subset
<1>2. \A s \in SUBSET S : s # {} => f[AnyOf(s)] = legs[AnyOf(s)].amount
  BY AnyOfIsIn
<1> HIDE DEF S, f
<1>3. \A it : SumRun(f, it, S) <=> Is(it)
  BY <1>2 DEF SumRun, AnyOf
<1>4. total = run[S]
  BY DEF MapThenSumSet, MapThenFoldSet
<1>5. SumRun(f, run, S)
  <2>1. \E it : Is(it)
    <3> HIDE DEF Is
    <3> QED
      BY <1>1, <1>3, SumExists
  <2>2. Is(run)
    <3> HIDE DEF Is
    <3> QED
      BY <2>1
  <2> QED
    BY <1>3, <2>2
<1>6. \A x \in S : f[x] \in Nat
  BY DEF S, f
<1> HIDE DEF run, Is
<1> DEFINE G == {s \in SUBSET S : run[s] \in Nat}
<1>7. {} \in G
  BY <1>5 DEF SumRun
<1>8. ASSUME NEW s \in SUBSET S, s # {}, s \ {AnyOf(s)} \in G
      PROVE  s \in G
  <2>1. run[s] = f[AnyOf(s)] + run[s \ {AnyOf(s)}] /\ AnyOf(s) \in S
    BY <1>5, <1>8, AnyOfIsIn DEF SumRun
  <2>2. run[s \ {AnyOf(s)}] \in Nat /\ f[AnyOf(s)] \in Nat
    BY <1>6, <1>8, <2>1
  <2> QED
    BY <2>1, <2>2
<1>9. S \in G
  <2> HIDE DEF G
  <2> QED
    BY <1>1, <1>7, <1>8, SubsetInduction
<1>10. total \in Nat
  BY <1>4, <1>9
<1> HIDE DEF total
<1>11. Bundle(legs, t, units) = units * total /\ Bundle(legs, t, 1) = 1 * total
  BY DEF Bundle, total, S
<1> QED
  BY <1>10, <1>11

(* Listing and pruning touch neither coins nor claims.                      *)
LEMMA AddKeeps ==
  ASSUME NEW c, IsRecord(c), NEW t
  PROVE  LET d == AddHeld(c, t)
         IN d.coins = c.coins /\ d.claims = c.claims /\ d.ok = c.ok
<1>1. c = Record(c.coins, c.claims, c.held, c.isHeld, c.ok)
  BY DEF IsRecord
<1>2. CASE t \in c.isHeld
  BY <1>2 DEF AddHeld
<1>3. CASE t \notin c.isHeld
  <2>1. AddHeld(c, t) = Record(c.coins, c.claims, Append(c.held, t), c.isHeld \cup {t}, c.ok)
    BY <1>1, <1>3 DEF AddHeld, Record
  <2> QED
    BY <2>1, RecordFields
<1> QED
  BY <1>2, <1>3

LEMMA PruneKeeps ==
  ASSUME NEW c, IsRecord(c), NEW t
  PROVE  LET d == PruneIfEmpty(c, t)
         IN d.coins = c.coins /\ d.claims = c.claims /\ d.ok = c.ok
<1>1. c = Record(c.coins, c.claims, c.held, c.isHeld, c.ok)
  BY DEF IsRecord
<1>2. CASE BackingIn(c, t) # 0 \/ t \notin c.isHeld
  BY <1>2 DEF PruneIfEmpty
<1>3. CASE ~(BackingIn(c, t) # 0 \/ t \notin c.isHeld)
  <2> DEFINE i == CHOOSE k \in 1..Len(c.held) : c.held[k] = t
             g == SubSeq([c.held EXCEPT ![i] = c.held[Len(c.held)]], 1, Len(c.held) - 1)
             s == c.isHeld \ {t}
  <2>1. PruneIfEmpty(c, t) = [c EXCEPT !.isHeld = s, !.held = g]
    BY <1>3 DEF PruneIfEmpty
  <2> HIDE DEF g, s
  <2>2. [c EXCEPT !.isHeld = s, !.held = g] = Record(c.coins, c.claims, g, s, c.ok)
    <3>1. [c EXCEPT !.isHeld = s, !.held = g] = [[c EXCEPT !.isHeld = s] EXCEPT !.held = g]
      OBVIOUS
    <3>2. [c EXCEPT !.isHeld = s] = Record(c.coins, c.claims, c.held, s, c.ok)
      BY <1>1 DEF Record
    <3>3. [Record(c.coins, c.claims, c.held, s, c.ok) EXCEPT !.held = g]
            = Record(c.coins, c.claims, g, s, c.ok)
      BY DEF Record
    <3> QED
      BY <3>1, <3>2, <3>3
  <2> QED
    BY <2>1, <2>2, RecordFields
<1> QED
  BY <1>2, <1>3

(* A leg of a swap keeps tokens and claims together: what comes in is        *)
(* wrapped for the vault, and what goes out the vault had.                  *)
Firm(c) == Sane(c) /\ (c.ok => Solid(c.coins, c.claims))

LEMMA AcquireFirm ==
  ASSUME NEW c, Firm(c), NEW leg, leg.token \in Tokens, leg.amount \in Nat
  PROVE  Firm(AcquireIn(c, leg))
<1> DEFINE t == leg.token
           m == leg.amount
           d == MoreIn(c, leg)
           x == [c.coins EXCEPT ![t] = c.coins[t] + m]
           w == [c.claims EXCEPT ![Vault] = [c.claims[Vault] EXCEPT ![t] = c.claims[Vault][t] + m]]
<1>1. Sane(AcquireIn(c, leg)) /\ AcquireIn(c, leg) = AddHeld(d, t) /\ IsRecord(c)
  BY AcquireSane, AcquireIs DEF Firm, Sane
<1>2. d = Record(x, IF IsRegistry THEN w ELSE c.claims, c.held, c.isHeld, c.ok)
  BY DEF MoreIn
<1> HIDE DEF d
<1>3. d.coins = x /\ d.claims = (IF IsRegistry THEN w ELSE c.claims) /\ d.ok = c.ok
  BY <1>2, RecordFields
<1>4. IsRecord(d)
  <2>1. x = [u \in Tokens |-> x[u]]
    BY <1>1 DEF IsRecord
  <2>2. c.claims = [a \in Custodians |-> [u \in Tokens |-> c.claims[a][u]]]
    BY <1>1 DEF IsRecord
  <2>3. w = [a \in Custodians |-> [u \in Tokens |-> w[a][u]]]
    <3> DEFINE y == c.claims
               row == [y[Vault] EXCEPT ![t] = y[Vault][t] + m]
    <3>1. row = [u \in Tokens |-> row[u]]
      <4>1. y[Vault] = [u \in Tokens |-> y[Vault][u]]
        BY <2>2 DEF Custodians
      <4> HIDE DEF y
      <4> QED
        BY <4>1
    <3> HIDE DEF y, row
    <3>2. [y EXCEPT ![Vault] = row] = [a \in Custodians |-> [u \in Tokens |-> [y EXCEPT ![Vault] = row][a][u]]]
      BY <2>2, <3>1 DEF y
    <3> QED
      BY <3>2 DEF row, y
  <2> HIDE DEF x, w
  <2>4. d = Record(d.coins, d.claims, d.held, d.isHeld, d.ok)
    BY <1>2, RecordFields
  <2> QED
    BY <1>3, <2>1, <2>2, <2>3, <2>4 DEF IsRecord
<1>5. ASSUME Solid(c.coins, c.claims)
      PROVE  Solid(x, IF IsRegistry THEN w ELSE c.claims)
  <2>1. /\ c.coins \in [Tokens -> Nat] /\ c.claims \in [Custodians -> [Tokens -> Nat]]
        /\ Vault \in Custodians
    BY <1>5 DEF Solid, Custodians
  <2>2. c.coins[t] + m \in Nat /\ c.claims[Vault][t] + m \in Nat /\ m \in Int
    BY <2>1
  <2>3. CASE IsRegistry
    BY <1>5, <2>1, <2>2, <2>3, SolidChange
  <2>4. CASE ~IsRegistry
    BY <1>5, <2>1, <2>2, <2>4 DEF Solid
  <2> QED
    BY <2>3, <2>4
<1> HIDE DEF x, w
<1>6. AddHeld(d, t).coins = d.coins /\ AddHeld(d, t).claims = d.claims /\ AddHeld(d, t).ok = d.ok
  BY <1>4, AddKeeps
<1> QED
  BY <1>1, <1>3, <1>5, <1>6 DEF Firm

LEMMA ReleaseFirm ==
  ASSUME gifts \in [Tokens -> Nat], NEW c, Firm(c),
         NEW leg, leg.token \in Tokens, leg.amount \in Nat
  PROVE  Firm(ReleaseOut(c, leg))
<1> DEFINE t == leg.token
           m == leg.amount
           d == LessIn(c, leg)
           x == [c.coins EXCEPT ![t] = c.coins[t] - m]
           w == [c.claims EXCEPT ![Vault] = [c.claims[Vault] EXCEPT ![t] =
                   IF IsRegistry THEN c.claims[Vault][t] - m ELSE c.claims[Vault][t]]]
           ok == /\ c.ok
                 /\ BackingIn(c, t) >= m
                 /\ BackingIn(c, t) - m >= leg.minOut
<1>1. /\ Sane(ReleaseOut(c, leg)) /\ ReleaseOut(c, leg) = PruneIfEmpty(d, t)
      /\ IsRecord(c) /\ Vault \in Custodians
  BY ReleaseSane, ReleaseIs DEF Firm, Sane, Custodians
<1>2. d = Record(x, w, c.held, c.isHeld, ok)
  BY DEF LessIn
<1>3. ok => c.ok /\ BackingIn(c, t) >= m
  OBVIOUS
<1> HIDE DEF d, ok
<1>4. IsRecord(d)
  <2>1. x = [u \in Tokens |-> x[u]]
    BY <1>1 DEF IsRecord
  <2>2. w = [a \in Custodians |-> [u \in Tokens |-> w[a][u]]]
    BY <1>1 DEF IsRecord
  <2> HIDE DEF x, w
  <2>3. /\ d = Record(d.coins, d.claims, d.held, d.isHeld, d.ok)
        /\ d.coins = x /\ d.claims = w
    BY <1>2, RecordFields
  <2> QED
    BY <2>1, <2>2, <2>3 DEF IsRecord
<1>5. ASSUME Solid(c.coins, c.claims), BackingIn(c, t) >= m
      PROVE  Solid(x, w)
  <2>1. /\ c.coins \in [Tokens -> Nat] /\ c.claims \in [Custodians -> [Tokens -> Nat]]
    BY <1>5 DEF Solid
  <2>2. c.coins[t] \in Nat /\ c.claims[Vault][t] \in Nat
    BY <1>1, <2>1
  <2>3. CASE IsRegistry
    <3>1. c.claims[Vault][t] >= m /\ c.claims[Vault][t] <= c.coins[t]
      BY <1>1, <1>5, <2>3, ClaimBacked DEF BackingIn
    <3> DEFINE n == 0 - m
    <3>2. /\ n \in Int /\ c.coins[t] + n \in Nat /\ c.claims[Vault][t] + n \in Nat
          /\ c.coins[t] + n = c.coins[t] - m
          /\ c.claims[Vault][t] + n = c.claims[Vault][t] - m
      BY <2>2, <3>1
    <3> HIDE DEF n
    <3>3. Solid([c.coins EXCEPT ![t] = c.coins[t] + n],
                [c.claims EXCEPT ![Vault] = [c.claims[Vault] EXCEPT ![t] = c.claims[Vault][t] + n]])
      BY <1>1, <1>5, <3>2, SolidChange
    <3> QED
      BY <2>3, <3>2, <3>3
  <2>4. CASE ~IsRegistry
    <3>1. c.coins[t] - m \in Nat
      BY <1>5, <2>2, <2>4 DEF BackingIn
    <3>2. w = c.claims
      BY <2>1, <2>4
    <3>3. x \in [Tokens -> Nat]
      BY <2>1, <3>1
    <3> HIDE DEF x, w
    <3> QED
      BY <2>1, <2>4, <3>2, <3>3 DEF Solid
  <2> QED
    BY <2>3, <2>4
<1> HIDE DEF x, w
<1>6. d.coins = x /\ d.claims = w /\ d.ok = ok
  BY <1>2, RecordFields
<1>7. /\ PruneIfEmpty(d, t).coins = d.coins /\ PruneIfEmpty(d, t).claims = d.claims
      /\ PruneIfEmpty(d, t).ok = d.ok
  BY <1>4, PruneKeeps
<1> QED
  BY <1>1, <1>3, <1>5, <1>6, <1>7 DEF Firm

LEMMA RunFirm ==
  ASSUME gifts \in [Tokens -> Nat], NEW kind \in {"acquire", "release"},
         NEW legs, NEW m \in Nat, NEW c, Firm(c),
         \A i \in 1..m : legs[i].token \in Tokens /\ legs[i].amount \in Nat,
         NEW f, IsRun(kind, legs, c, f, m)
  PROVE  Firm(f[m])
<1> DEFINE S == {n \in Nat : n <= m => Firm(f[n])}
<1>1. 0 \in S
  BY DEF IsRun
<1>2. ASSUME NEW n \in Nat, n \in S
      PROVE  n + 1 \in S
  <2> SUFFICES ASSUME n + 1 <= m PROVE Firm(f[n + 1])
    OBVIOUS
  <2>1. f[n + 1] = Apply(kind, f[n], legs[n + 1])
    <3>1. n + 1 \in 0..m /\ n + 1 # 0 /\ (n + 1) - 1 = n
      OBVIOUS
    <3> QED
      BY <3>1 DEF IsRun
  <2>2. Firm(f[n]) /\ n + 1 \in 1..m
    BY <1>2
  <2>3. /\ Firm(AcquireIn(f[n], legs[n + 1]))
        /\ Firm(ReleaseOut(f[n], legs[n + 1]))
    BY <2>2, AcquireFirm, ReleaseFirm
  <2> QED
    BY <2>1, <2>3 DEF Apply
<1> HIDE DEF S
<1>3. m \in S
  BY <1>1, <1>2, SetInduction
<1> QED
  BY <1>3 DEF S

-----------------------------------------------------------------------------
(* The invariant of the vault.                                              *)
VaultInv ==
  /\ FeesInv /\ CustodyInv /\ Solid(coins, claims)
  /\ nextRecipe \in [recipe : Recipes \cup {NoRecipe}, effectiveAt : Nat]
  /\ grants \in [executor : BOOLEAN, settler : BOOLEAN]

(* What the parts of a step leave alone.                                    *)
Settled ==
  /\ nextRecipe' \in [recipe : Recipes \cup {NoRecipe}, effectiveAt : Nat]
  /\ grants' \in [executor : BOOLEAN, settler : BOOLEAN]

(* What the vault has of a token is a number.                               *)
LEMMA BackingNat ==
  ASSUME Solid(coins, claims), NEW t \in Tokens
  PROVE  Backing(t) \in Nat /\ (~IsRegistry => Backing(t) = coins[t])
BY DEF Solid, Backing, BackingIn, Custody, Custodians

LEMMA ClaimsUsers == \A u \in Users : u \in Accounts /\ u \in Custodians /\ u # Vault
BY VaultAssumption DEF Custodians

(* What a create costs is wrapped up with it.                               *)
LEMMA MintSolid ==
  ASSUME FeesInv, Solid(coins, claims), NEW ap \in Users, NEW to \in Users, NEW n \in Nat,
         MintAgainst(ap, to, n)
  PROVE  FeesInv' /\ Solid(coins', claims')
<1>1. /\ SharesNow \in [Accounts -> Nat] /\ SupplyNow \in Nat \ {0}
  <2>1. /\ SharesNow \in [Accounts -> Nat] /\ SupplyNow \in Nat /\ SupplyNow >= supply
    BY LedgerNow DEF FeesInv
  <2>2. supply \in Nat /\ supply > 0
    BY DEF FeesInv, FeesTypeOK, MintAgainst
  <2> QED
    BY <2>1, <2>2
<1>2. FeesInv'
  <2>1. SharesNow[to] + n \in Nat /\ n \in Int /\ to \in Accounts
    BY <1>1, ClaimsUsers
  <2> QED
    BY <2>1, ReissueFees DEF MintAgainst
<1> DEFINE amount == [t \in Tokens |-> Needed(t, n)]
<1>3. amount \in [Tokens -> Nat]
  <2> SUFFICES ASSUME NEW t \in Tokens PROVE Needed(t, n) \in Nat
    OBVIOUS
  <2>1. Backing(t) * n \in Nat
    BY BackingNat, TimesNat
  <2> QED
    BY <1>1, <2>1, CeilNat DEF Needed
<1>4. Move(ap, Vault, amount)
  BY DEF MintAgainst
<1> HIDE DEF amount
<1>5. Solid(coins', claims')
  <2>1. ap \in Custodians /\ Vault \in Custodians /\ ap # Vault
    BY ClaimsUsers DEF Custodians
  <2> QED
    BY <1>3, <1>4, <2>1, MoveSolid
<1> QED
  BY <1>2, <1>5

(* Nobody holds more than the supply, so what a redeem pays is there.       *)
LEMMA RedeemSolid ==
  ASSUME FeesInv, Solid(coins, claims), NEW a \in Users, NEW n \in Nat, Redeem(a, n)
  PROVE  FeesInv' /\ Solid(coins', claims')
<1>1. /\ SharesNow \in [Accounts -> Nat] /\ SupplyNow \in Nat \ {0}
      /\ SumOver(SharesNow, Accounts) = SupplyNow
  <2>1. /\ SharesNow \in [Accounts -> Nat] /\ SupplyNow \in Nat /\ SupplyNow >= supply
        /\ SumOver(SharesNow, Accounts) = SupplyNow
    BY LedgerNow DEF FeesInv
  <2>2. supply \in Nat /\ supply > 0
    BY DEF FeesInv, FeesTypeOK, Redeem
  <2> QED
    BY <2>1, <2>2
<1>2. SharesNow[a] \in Nat /\ n <= SharesNow[a] /\ a \in Accounts
  BY <1>1, ClaimsUsers DEF Redeem
<1>3. FeesInv'
  <2>1. SharesNow[a] + (-n) \in Nat /\ -n \in Int
    BY <1>2
  <2>2. Reissue(a, -n)
    BY DEF Redeem
  <2> DEFINE d == -n
  <2>3. SharesNow[a] + d \in Nat /\ d \in Int /\ Reissue(a, d)
    BY <2>1, <2>2
  <2> HIDE DEF d
  <2> QED
    BY <1>2, <2>3, ReissueFees
<1>4. n <= SupplyNow
  <2> DEFINE f == SharesNow
  <2>1. IsFiniteSet(Accounts) /\ \A b \in Accounts : f[b] \in Nat
    BY <1>1, VaultAssumption
  <2> HIDE DEF f
  <2>2. f[a] <= SumOver(f, Accounts)
    BY <1>2, <2>1, SumNat
  <2> QED
    BY <1>1, <1>2, <2>2 DEF f
<1> DEFINE amount == [t \in Tokens |-> Paid(t, n)]
<1>5. \A t \in Tokens : amount[t] \in 0..Backing(t)
  <2> SUFFICES ASSUME NEW t \in Tokens PROVE Paid(t, n) \in 0..Backing(t)
    OBVIOUS
  <2>1. Backing(t) \in Nat
    BY BackingNat
  <2>2. (Backing(t) * n) \div SupplyNow \in 0..Backing(t)
    BY <1>1, <1>4, <2>1, FloorShare
  <2> QED
    BY <2>1, <2>2 DEF Paid
<1>6. amount \in [Tokens -> Nat]
  <2>1. \A t \in Tokens : amount[t] \in Nat
    BY <1>5, BackingNat
  <2> QED
    BY <2>1
<1>7. Move(Vault, a, amount)
  BY DEF Redeem
<1> HIDE DEF amount
<1>8. \A t \in Tokens : ~IsRegistry => amount[t] <= coins[t]
  BY <1>5, BackingNat
<1>9. Solid(coins', claims')
  <2>1. a \in Custodians /\ Vault \in Custodians /\ a # Vault
    BY ClaimsUsers DEF Custodians
  <2> QED
    BY <1>6, <1>7, <1>8, <2>1, MoveSolid
<1> QED
  BY <1>3, <1>9

(* The first shares, as a managed and as a registry vault mint them.        *)
LEMMA FirstMintFees ==
  ASSUME FeesInv, NEW u \in Users, NEW n \in Nat, Reissue(u, n) \/ Issue(u, n)
  PROVE  FeesInv'
<1>1. SharesNow \in [Accounts -> Nat]
  BY LedgerNow DEF FeesInv
<1>2. SharesNow[u] + n \in Nat /\ n \in Int /\ u \in Accounts
  BY <1>1, ClaimsUsers
<1> QED
  BY <1>2, ReissueFees, IssueFees

LEMMA FirstMintSolid ==
  ASSUME Solid(coins, claims), NEW u \in Users, NEW n \in Nat,
         NEW legs, NEW m \in Nat, DOMAIN legs = 1..m, \A i \in 1..m : legs[i].amount \in Nat,
         FirstMint(u, n, legs)
  PROVE  Solid(coins', claims')
<1> DEFINE amount == [t \in Tokens |-> Bundle(legs, t, n \div UnitSize)]
<1>3. amount \in [Tokens -> Nat]
  <2>1. n \div UnitSize \in Nat
    BY VaultAssumption, DivBounds
  <2> SUFFICES ASSUME NEW t \in Tokens PROVE Bundle(legs, t, n \div UnitSize) \in Nat
    OBVIOUS
  <2> DEFINE units == n \div UnitSize
  <2>2. units \in Nat
    BY <2>1
  <2> HIDE DEF units
  <2>3. Bundle(legs, t, units) \in Nat
    BY <2>2, BundleNat
  <2> QED
    BY <2>3 DEF units
<1>4. Move(u, Vault, amount)
  BY DEF FirstMint
<1> HIDE DEF amount
<1>5. Solid(coins', claims')
  <2>1. u \in Custodians /\ Vault \in Custodians /\ u # Vault
    BY ClaimsUsers DEF Custodians
  <2> QED
    BY <1>3, <1>4, <2>1, MoveSolid
<1> QED
  BY <1>5

(* A swap that goes through leaves claims that are backed.                  *)
LEMMA SwapSolid ==
  ASSUME CustodyInv, Solid(coins, claims),
         NEW acquire, Len(acquire) \in Nat,
         \A i \in 1..Len(acquire) : acquire[i].token \in Tokens /\ acquire[i].amount \in Nat,
         NEW release, Len(release) \in Nat,
         \A i \in 1..Len(release) : release[i].token \in Tokens /\ release[i].amount \in Nat,
         Swap(acquire, release)
  PROVE  Solid(coins', claims')
<1> DEFINE c == InOrder(AcquireIn, acquire, Custody)
           d == InOrder(ReleaseOut, release, c)
<1>1. CustodyIs(d)
  BY DEF Swap, Swapped
<1>2. Firm(Custody) /\ gifts \in [Tokens -> Nat]
  BY CustodySane DEF Firm, Custody, CustodyInv
<1>3. Firm(c)
  <2>1. PICK f : IsRun("acquire", acquire, Custody, f, Len(acquire)) /\ c = f[Len(acquire)]
    BY AcquireRuns
  <2> QED
    BY <1>2, <2>1, RunFirm
<1> HIDE DEF c
<1>4. Firm(d)
  <2>1. PICK f : IsRun("release", release, c, f, Len(release)) /\ d = f[Len(release)]
    BY ReleaseRuns
  <2> QED
    BY <1>2, <1>3, <2>1, RunFirm
<1> HIDE DEF d
<1> QED
  BY <1>1, <1>4 DEF Firm, CustodyIs

(* Wraps, unwraps and gifts.                                                *)
LEMMA HolderSolid ==
  ASSUME Solid(coins, claims), NEW u \in Users, NEW t \in Tokens, NEW q \in Nat,
         HolderOperation(u, t, q)
  PROVE  Solid(coins', claims')
<1>1. u \in Custodians /\ u # Vault /\ Vault \in Custodians
  BY ClaimsUsers DEF Custodians
<1>2. coins[t] \in Nat /\ claims[u][t] \in Nat
  BY <1>1 DEF Solid
<1>3. CASE Wrap(u, t, q)
  <2>1. /\ coins' = [coins EXCEPT ![t] = coins[t] + q]
        /\ claims' = [claims EXCEPT ![u] = [claims[u] EXCEPT ![t] = claims[u][t] + q]]
    BY <1>3 DEF Wrap
  <2>2. coins[t] + q \in Nat /\ claims[u][t] + q \in Nat /\ q \in Int
    BY <1>2
  <2>3. Solid([coins EXCEPT ![t] = coins[t] + q],
              [claims EXCEPT ![u] = [claims[u] EXCEPT ![t] = claims[u][t] + q]])
    BY <1>1, <2>2, SolidChange
  <2> QED
    BY <2>1, <2>3
<1>4. CASE Unwrap(u, t, q)
  <2> DEFINE d == 0 - q
  <2>1. /\ coins' = [coins EXCEPT ![t] = coins[t] - q]
        /\ claims' = [claims EXCEPT ![u] = [claims[u] EXCEPT ![t] = claims[u][t] - q]]
        /\ claims[u][t] >= q /\ coins[t] >= q
    BY <1>4 DEF Unwrap
  <2>2. /\ coins[t] + d \in Nat /\ claims[u][t] + d \in Nat /\ d \in Int
        /\ coins[t] + d = coins[t] - q /\ claims[u][t] + d = claims[u][t] - q
    BY <1>2, <2>1
  <2> HIDE DEF d
  <2>3. Solid([coins EXCEPT ![t] = coins[t] + d],
              [claims EXCEPT ![u] = [claims[u] EXCEPT ![t] = claims[u][t] + d]])
    BY <1>1, <2>2, SolidChange
  <2> QED
    BY <2>1, <2>2, <2>3
<1>5. CASE Gift(u, t, q)
  <2> DEFINE amount == [x \in Tokens |-> IF x = t THEN q ELSE 0]
  <2>1. amount \in [Tokens -> Nat] /\ Move(u, Vault, amount)
    BY <1>5 DEF Gift
  <2> HIDE DEF amount
  <2> QED
    BY <1>1, <2>1, MoveSolid
<1>6. CASE UnwrapToVault(u, t, q)
  <2> DEFINE e == 0 - q
  <2>1. /\ coins' = coins
        /\ claims' = [claims EXCEPT ![u] = [claims[u] EXCEPT ![t] = claims[u][t] - q]]
        /\ claims[u][t] >= q
    BY <1>6 DEF UnwrapToVault
  <2>2. /\ claims[u][t] + e \in Nat /\ e \in Int /\ e <= 0 /\ claims[u][t] + e = claims[u][t] - q
        /\ coins[t] + 0 \in Nat /\ coins[t] + 0 = coins[t]
    BY <1>2, <2>1
  <2> HIDE DEF e
  <2>3. Solid([coins EXCEPT ![t] = coins[t] + 0],
              [claims EXCEPT ![u] = [claims[u] EXCEPT ![t] = claims[u][t] + e]])
    BY <1>1, <2>2, SolidShift
  <2>4. [coins EXCEPT ![t] = coins[t] + 0] = coins
    BY <2>2 DEF Solid
  <2> QED
    BY <2>1, <2>2, <2>3, <2>4
<1>7. CASE Stray(t, q)
  <2>1. coins' = [coins EXCEPT ![t] = coins[t] + q] /\ claims' = claims
    BY <1>7 DEF Stray
  <2>2. \A x \in Tokens : coins'[x] \in Nat /\ coins[x] <= coins'[x] /\ coins[x] \in Nat
    BY <2>1 DEF Solid
  <2>3. coins' \in [Tokens -> Nat] /\ claims' \in [Custodians -> [Tokens -> Nat]]
    BY <2>1, <2>2 DEF Solid
  <2>4. ASSUME IsRegistry, NEW x \in Tokens
        PROVE  SumOver(Column(claims', x), Custodians) <= coins'[x]
    <3> DEFINE f == Column(claims, x)
    <3>1. \A c \in Custodians : f[c] \in Nat
      BY DEF Column, Solid
    <3>2. SumOver(f, Custodians) <= coins[x]
      BY <2>4 DEF Solid
    <3> HIDE DEF f
    <3>3. SumOver(f, Custodians) \in Nat
      BY <3>1, CustodiansFinite, SumNat
    <3>4. SumOver(f, Custodians) <= coins'[x]
      BY <2>2, <3>2, <3>3
    <3> QED
      BY <2>1, <3>4 DEF f
  <2> QED
    BY <2>3, <2>4 DEF Solid
<1> QED
  BY <1>3, <1>4, <1>5, <1>6, <1>7 DEF HolderOperation

LEMMA ShareVault ==
  ASSUME VaultInv, ShareOperation
  PROVE  FeesInv' /\ Solid(coins', claims')
<1>1. /\ recipe \in Seq(Leg) /\ Units \subseteq Nat
      /\ Len(recipe) \in Nat /\ DOMAIN recipe = 1..Len(recipe)
      /\ \A i \in DOMAIN recipe : recipe[i].amount \in Nat
  <2>1. recipe \in Seq(Leg) /\ Units \subseteq Nat
    BY VaultAssumption DEF VaultInv, CustodyInv
  <2>2. \A i \in DOMAIN recipe : recipe[i] \in Leg
    BY <2>1
  <2> QED
    BY <2>1, <2>2 DEF Leg
<1>2. CASE \E ap, to \in Users, n \in Units : MintAgainst(ap, to, n)
  BY <1>1, <1>2, MintSolid DEF VaultInv
<1>3. CASE \E u \in Users, n \in Units : CreateFirst(u, n)
  <2>1. PICK u \in Users, n \in Units : FirstMint(u, n, recipe) /\ Reissue(u, n)
    BY <1>3 DEF CreateFirst
  <2> QED
    BY <1>1, <2>1, FirstMintFees, FirstMintSolid DEF VaultInv
<1>4. CASE \E u \in Users, n \in Units, k \in 0..MaxLegs :
             \E picks \in [1..k -> DOMAIN recipe] : Bootstrap(u, n, picks)
  <2>1. PICK u \in Users, n \in Units, k \in 0..MaxLegs :
          \E picks \in [1..k -> DOMAIN recipe] : Bootstrap(u, n, picks)
    BY <1>4
  <2>2. PICK picks \in [1..k -> DOMAIN recipe] : Bootstrap(u, n, picks)
    BY <2>1
  <2> DEFINE legs == [i \in DOMAIN picks |-> recipe[picks[i]]]
  <2>3. FirstMint(u, n, legs) /\ Issue(u, n)
    BY <2>2 DEF Bootstrap
  <2>4. k \in Nat /\ DOMAIN legs = 1..k /\ \A i \in 1..k : legs[i].amount \in Nat
    BY <1>1
  <2> HIDE DEF legs
  <2> QED
    BY <1>1, <2>3, <2>4, FirstMintFees, FirstMintSolid DEF VaultInv
<1>5. CASE \E u \in Users, n \in 1..MaxShares : Redeem(u, n)
  BY <1>5, RedeemSolid DEF VaultInv
<1> QED
  BY <1>2, <1>3, <1>4, <1>5 DEF ShareOperation, Create, SettleCreate

LEMMA AssetVault == CustodyInv /\ Solid(coins, claims) /\ AssetOperation => Solid(coins', claims')
<1> SUFFICES ASSUME CustodyInv, Solid(coins, claims), AssetOperation
             PROVE  Solid(coins', claims')
  OBVIOUS
<1> DEFINE In == [token : Tokens, amount : Quantities]
           Out == [token : Tokens, amount : Quantities, minOut : Floors]
<1>1. Quantities \subseteq Nat
  BY VaultAssumption
<1>2. CASE \E acquire \in LegsUpTo(MaxLegs, In), release \in LegsUpTo(MaxLegs, Out) :
             ExecuteRebalance(acquire, release)
  <2>1. PICK acquire \in LegsUpTo(MaxLegs, In), release \in LegsUpTo(MaxLegs, Out) :
          ExecuteRebalance(acquire, release)
    BY <1>2
  <2>2. PICK j \in 0..MaxLegs : acquire \in [1..j -> In]
    BY DEF LegsUpTo
  <2>3. PICK k \in 0..MaxLegs : release \in [1..k -> Out]
    BY DEF LegsUpTo
  <2>4. Len(acquire) = j /\ j \in Nat /\ \A i \in 1..j : acquire[i] \in In
    BY <2>2
  <2>5. Len(release) = k /\ k \in Nat /\ \A i \in 1..k : release[i] \in Out
    BY <2>3
  <2>6. /\ \A i \in 1..j : acquire[i].token \in Tokens /\ acquire[i].amount \in Nat
        /\ \A i \in 1..k : release[i].token \in Tokens /\ release[i].amount \in Nat
    BY <1>1, <2>4, <2>5
  <2>7. Swap(acquire, release)
    BY <2>1 DEF ExecuteRebalance
  <2> QED
    BY <2>4, <2>5, <2>6, <2>7, SwapSolid
<1>3. CASE \E u \in Users, t \in Tokens, q \in Quantities :
             HolderOperation(u, t, q)
  BY <1>1, <1>3, HolderSolid
<1> QED
  BY <1>2, <1>3 DEF AssetOperation, HolderOperation

LEMMA FeesStay == FeesInv /\ UNCHANGED <<fees, now, exposure>> => FeesInv'
<1> SUFFICES ASSUME FeesInv, UNCHANGED <<fees, now, exposure>> PROVE FeesInv'
  OBVIOUS
<1>1. SumOver(shares, Accounts)' = SumOver(shares, Accounts)
  BY SumOfShares DEF fees, ledger
<1> QED
  BY <1>1 DEF FeesInv, FeesTypeOK, fees, ledger, feeState, roles

LEMMA TickFees == FeesInv /\ Tick => FeesInv'
<1> SUFFICES ASSUME FeesInv, Tick PROVE FeesInv'
  OBVIOUS
<1>1. UNCHANGED fees /\ now' = now + 1 /\ exposure' = exposure + rate.manager + rate.platform
  BY DEF Tick
<1>2. SumOver(shares, Accounts)' = SumOver(shares, Accounts)
  BY <1>1, SumOfShares DEF fees, ledger
<1>3. now \in Nat /\ lastAccrued \in Nat /\ exposure \in Nat
      /\ rate.manager \in Nat /\ rate.platform \in Nat
  <2>1. rate["manager"] \in 0..RateMax["manager"] /\ rate["platform"] \in 0..RateMax["platform"]
    BY DEF FeesInv, FeesTypeOK, Legs
  <2> QED
    BY <2>1 DEF FeesInv, FeesTypeOK
<1>4. now' \in Nat /\ lastAccrued' <= now' /\ exposure' \in Nat
  BY <1>1, <1>3 DEF FeesInv, fees, feeState
<1> QED
  BY <1>1, <1>2, <1>4 DEF FeesInv, FeesTypeOK, fees, ledger, feeState, roles

(* Every step keeps the types, the ledger and the claims.                   *)
LEMMA VaultStep == VaultInv /\ [Next]_vars => VaultInv'
<1> SUFFICES ASSUME VaultInv, [Next]_vars PROVE VaultInv'
  OBVIOUS
<1> DEFINE Plans == [recipe : Recipes \cup {NoRecipe}, effectiveAt : Nat]
           Rights == [executor : BOOLEAN, settler : BOOLEAN]
<1>1. CustodyInv'
  BY CustodyStep DEF VaultInv
<1>2. FeesInv /\ Solid(coins, claims) /\ nextRecipe \in Plans /\ grants \in Rights
  BY DEF VaultInv
<1>3. SUFFICES FeesInv' /\ Solid(coins', claims') /\ nextRecipe' \in Plans /\ grants' \in Rights
  BY <1>1 DEF VaultInv, Solid
<1>4. CASE FeeOperation /\ UNCHANGED <<assets, target, grants, gifts>>
  BY <1>2, <1>4, FeeOperationFees DEF assets, target
<1>5. CASE ShareOperation
  <2>1. UNCHANGED <<target, grants>>
    BY <1>5 DEF ShareOperation, Create, SettleCreate, CreateFirst, Bootstrap, MintAgainst,
                Redeem, Reissue, Issue
  <2> QED
    BY <1>2, <1>5, <2>1, ShareVault DEF target
<1>6. CASE \E from \in Accounts, to \in Users : TransferShares(from, to, shares[from])
  <2>1. PICK from \in Accounts, to \in Users : TransferShares(from, to, shares[from])
    BY <1>6
  <2>2. FeesInv'
    BY <1>2, <2>1, ClaimsUsers, TransferFees
  <2> QED
    BY <1>2, <2>1, <2>2 DEF TransferShares, assets, target
<1>7. CASE AssetOperation
  <2>1. UNCHANGED <<fees, now, target, grants, exposure>>
    BY <1>7, AssetOperationIs DEF Others
  <2> QED
    BY <1>2, <1>7, <2>1, AssetVault, FeesStay DEF target, VaultInv
<1>8. CASE \E r \in Recipes \cup {NoRecipe} : ScheduleRecipe(r)
  <2>1. PICK r \in Recipes \cup {NoRecipe} : ScheduleRecipe(r)
    BY <1>8
  <2>2. now + TIMELOCK \in Nat
    BY <1>2, FeeAssumption DEF FeesInv, FeesTypeOK
  <2>3. /\ nextRecipe' = [recipe |-> r, effectiveAt |-> now + TIMELOCK]
        /\ UNCHANGED <<fees, now, assets, grants, exposure>>
    BY <2>1 DEF ScheduleRecipe
  <2> QED
    BY <1>2, <2>2, <2>3, FeesStay DEF assets
<1>9. CASE ActivateRecipe
  <2>1. nextRecipe' = NoTarget /\ UNCHANGED <<fees, now, assets, grants, exposure>>
    BY <1>9 DEF ActivateRecipe
  <2>2. NoTarget \in Plans
    BY DEF NoTarget
  <2> QED
    BY <1>2, <2>1, <2>2, FeesStay DEF assets
<1>10. CASE \E who \in Grantees, b \in BOOLEAN : Grant(who, b)
  <2>1. PICK who \in Grantees, b \in BOOLEAN : Grant(who, b)
    BY <1>10
  <2>2. who = "executor" \/ who = "settler"
    BY VaultAssumption
  <2>3. grants' = [grants EXCEPT ![who] = b] /\ UNCHANGED <<fees, now, assets, target, exposure>>
    BY <2>1 DEF Grant
  <2>4. grants' \in Rights
    BY <1>2, <2>2, <2>3
  <2> QED
    BY <1>2, <2>3, <2>4, FeesStay DEF assets, target
<1>11. CASE Tick
  BY <1>2, <1>11, TickFees DEF Tick, assets, target
<1>12. CASE UNCHANGED vars
  BY <1>2, <1>12, FeesStay DEF vars, assets, target
<1> QED
  BY <1>4, <1>5, <1>6, <1>7, <1>8, <1>9, <1>10, <1>11, <1>12 DEF Next

(* The sum the property takes is the sum of the column.                     *)
LEMMA ColumnSum ==
  ASSUME NEW t
  PROVE  MapThenSumSet(LAMBDA c : claims[c][t], Custodians) = SumOver(Column(claims, t), Custodians)
<1> DEFINE S == Custodians
           f == Column(claims, t)
           Is(it) == it = [s \in SUBSET S |->
             IF s = {} THEN 0
             ELSE claims[CHOOSE x \in s : TRUE][t] + it[s \ {CHOOSE x \in s : TRUE}]]
           run == CHOOSE it : Is(it)
           total == MapThenSumSet(LAMBDA c : claims[c][t], S)
<1>1. IsFiniteSet(S)
  BY CustodiansFinite
<1>2. \A s \in SUBSET S : s # {} => f[AnyOf(s)] = claims[AnyOf(s)][t]
  BY AnyOfIsIn DEF Column
<1> HIDE DEF S, f
<1>3. \A it : SumRun(f, it, S) <=> Is(it)
  BY <1>2 DEF SumRun, AnyOf
<1>4. total = run[S]
  BY DEF MapThenSumSet, MapThenFoldSet
<1>5. SumRun(f, run, S)
  <2>1. \E it : Is(it)
    <3> HIDE DEF Is
    <3> QED
      BY <1>1, <1>3, SumExists
  <2>2. Is(run)
    <3> HIDE DEF Is
    <3> QED
      BY <2>1
  <2> QED
    BY <1>3, <2>2
<1> HIDE DEF run, Is, total
<1>6. PICK it : SumRun(f, it, S) /\ SumOver(f, S) = it[S]
  BY <1>1, SumIs
<1>7. run[S] = it[S]
  BY <1>1, <1>5, <1>6, SameSum
<1>8. total = SumOver(f, S)
  BY <1>4, <1>6, <1>7
<1> QED
  BY <1>8 DEF total, f, S

LEMMA VaultInit == Init => VaultInv
<1> SUFFICES ASSUME Init PROVE VaultInv
  OBVIOUS
<1>1. SumOver(shares, Accounts) = 0
  <2>1. \A a \in Accounts : shares[a] = 0
    BY DEF Init
  <2> QED
    BY <2>1, SumZero, VaultAssumption
<1>2. /\ \A l \in Legs : /\ rate[l] \in 0..RateMax[l]
                         /\ pending[l] \in [bps : 0..RateMax[l], effectiveAt : Nat]
                         /\ owed[l] \in 0..(SCALE - 1)
      /\ DOMAIN rate = Legs /\ DOMAIN pending = Legs /\ DOMAIN owed = Legs
  <2>1. \A l \in Legs : InitRate[l] \in Nat /\ InitRate[l] <= RateMax[l] /\ RateMax[l] \in Nat
    BY VaultAssumption, FeeAssumption DEF RateMax, Legs
  <2>2. 0 \in 0..(SCALE - 1)
    BY FeeAssumption
  <2>3. rate = InitRate /\ DOMAIN InitRate = Legs
    BY VaultAssumption DEF Init
  <2>4. pending = [l \in Legs |-> NoIncrease] /\ owed = [l \in Legs |-> 0]
    BY DEF Init
  <2>5. \A l \in Legs : 0 \in 0..RateMax[l] /\ InitRate[l] \in 0..RateMax[l]
    BY <2>1
  <2> QED
    BY <2>2, <2>3, <2>4, <2>5 DEF NoIncrease
<1>3. /\ office \in [Offices -> [holder : Accounts, nominee : Accounts \cup {NoOne}]]
      /\ treasury \in Accounts
      /\ flat \in [token : BOOLEAN, create : 0..FLAT_FEE_MAX, redeem : 0..FLAT_FEE_MAX]
  <2>1. /\ office = [o \in Offices |-> [holder |-> Officers[o], nominee |-> NoOne]]
        /\ treasury = Officers["treasury"]
        /\ flat = [token |-> FALSE, create |-> 0, redeem |-> 0]
    BY DEF Init
  <2>2. \A o \in Offices \cup {"treasury"} : Officers[o] \in Accounts
    BY VaultAssumption
  <2>3. 0 \in 0..FLAT_FEE_MAX
    BY FeeAssumption
  <2> QED
    BY <2>1, <2>2, <2>3
<1>4. /\ shares \in [Accounts -> Nat] /\ supply = 0 /\ lastAccrued = 0 /\ now = 0 /\ exposure = 0
  BY DEF Init
<1>5. FeesInv
  BY <1>1, <1>2, <1>3, <1>4 DEF FeesInv, FeesTypeOK
<1>6. Solid(coins, claims)
  <2>1. coins \in [Tokens -> Nat] /\ claims \in [Custodians -> [Tokens -> Nat]]
        /\ \A t \in Tokens : coins[t] = 0 /\ \A c \in Custodians : claims[c][t] = 0
    BY DEF Init
  <2>2. ASSUME NEW t \in Tokens PROVE SumOver(Column(claims, t), Custodians) = 0
    <3>1. \A c \in Custodians : Column(claims, t)[c] = 0
      BY <2>1 DEF Column
    <3> QED
      BY <3>1, CustodiansFinite, SumZero
  <2> QED
    BY <2>1, <2>2 DEF Solid
<1>7. /\ nextRecipe \in [recipe : Recipes \cup {NoRecipe}, effectiveAt : Nat]
      /\ grants \in [executor : BOOLEAN, settler : BOOLEAN]
  BY DEF Init, NoTarget
<1> QED
  BY <1>5, <1>6, <1>7, CustodyInit DEF VaultInv

LEMMA VaultInvIsStrong == VaultInv => TypeOK /\ ClaimsBacked
<1> SUFFICES ASSUME VaultInv PROVE TypeOK /\ ClaimsBacked
  OBVIOUS
<1>1. TypeOK
  BY DEF VaultInv, FeesInv, CustodyInv, Secure, Listed, Solid, TypeOK
<1>2. ASSUME IsRegistry, NEW t \in Tokens
      PROVE  MapThenSumSet(LAMBDA c : claims[c][t], Custodians) <= coins[t]
  <2> DEFINE total == MapThenSumSet(LAMBDA c : claims[c][t], Custodians)
  <2>1. total = SumOver(Column(claims, t), Custodians)
    BY ColumnSum
  <2>2. SumOver(Column(claims, t), Custodians) <= coins[t]
    BY <1>2 DEF VaultInv, Solid
  <2> HIDE DEF total
  <2>3. total <= coins[t]
    BY <2>1, <2>2
  <2> QED
    BY <2>3 DEF total
<1>3. ClaimsBacked
  BY <1>2 DEF ClaimsBacked
<1> QED
  BY <1>1, <1>3

(* Every variable keeps its type: no balance, claim or backing ever goes    *)
(* below zero, in a redeem, an unwrap or the last leg of a swap.            *)
THEOREM VaultTyped == Spec => []TypeOK
BY VaultInit, VaultStep, VaultInvIsStrong, PTL DEF Spec

(* On a registry vault the tokens cover what everybody's claims add up to,  *)
(* so that every claim can be unwrapped.                                    *)
THEOREM EveryClaimIsBacked == Spec => []ClaimsBacked
BY VaultInit, VaultStep, VaultInvIsStrong, PTL DEF Spec

-----------------------------------------------------------------------------
(* What a step that accrues may be.                                         *)
LEMMA AccrualKinds ==
  ASSUME VaultInv, [Next]_vars, Accrues
  PROVE  \/ /\ AccrueLedger /\ UNCHANGED assets
         \/ \E ap, to \in Users, n \in Nat : MintAgainst(ap, to, n)
         \/ \E u \in Users, n \in Nat : Redeem(u, n)
         \/ /\ supply = 0
            /\ \E u \in Users, n \in Nat :
                 /\ n > 0 /\ (Reissue(u, n) \/ Issue(u, n))
                 /\ ~IsRegistry => FirstMint(u, n, recipe) /\ Reissue(u, n)
<1>1. CASE FeeOperation /\ UNCHANGED <<assets, target, grants, gifts>>
  BY <1>1 DEF FeeOperation, AccrueFee, SetRate, ActivateRate, SetTreasury, Accept, Nominate,
              SetFeeToken, SetFlatFee, Accrues, ledger, feeState
<1>2. CASE ShareOperation
  <2>1. Units \subseteq Nat
    BY VaultAssumption
  <2>2. CASE \E ap, to \in Users, n \in Units : MintAgainst(ap, to, n)
    BY <2>1, <2>2
  <2>3. CASE \E u \in Users, n \in Units : CreateFirst(u, n)
    <3>1. PICK u \in Users, n \in Units : FirstMint(u, n, recipe) /\ Reissue(u, n)
      BY <2>3 DEF CreateFirst
    <3>2. supply = 0 /\ n > 0
      BY <3>1 DEF FirstMint
    <3> QED
      BY <2>1, <3>1, <3>2
  <2>4. CASE \E u \in Users, n \in Units, k \in 0..MaxLegs :
               \E picks \in [1..k -> DOMAIN recipe] : Bootstrap(u, n, picks)
    <3>1. PICK u \in Users, n \in Units, k \in 0..MaxLegs :
            \E picks \in [1..k -> DOMAIN recipe] : Bootstrap(u, n, picks)
      BY <2>4
    <3>2. PICK picks \in [1..k -> DOMAIN recipe] : Bootstrap(u, n, picks)
      BY <3>1
    <3> DEFINE legs == [i \in DOMAIN picks |-> recipe[picks[i]]]
    <3>3. IsRegistry /\ FirstMint(u, n, legs) /\ Issue(u, n)
      BY <3>2 DEF Bootstrap
    <3> HIDE DEF legs
    <3>4. supply = 0 /\ n > 0
      BY <3>3 DEF FirstMint
    <3> QED
      BY <2>1, <3>3, <3>4
  <2>5. CASE \E u \in Users, n \in 1..MaxShares : Redeem(u, n)
    BY <2>5
  <2> QED
    BY <1>2, <2>2, <2>3, <2>4, <2>5 DEF ShareOperation, Create, SettleCreate
<1>3. CASE ~ShareOperation /\ ~FeeOperation
  BY <1>3, QuietFees DEF Accrues
<1>4. CASE FeeOperation /\ ~ShareOperation
  <2> SUFFICES ASSUME ~UNCHANGED <<supply, lastAccrued>>
               PROVE  FeeOperation /\ UNCHANGED <<assets, target, grants, gifts>>
    BY <1>1 DEF Accrues
  <2> USE DEF fees, ledger, feeState
  <2>1. CASE \E from \in Accounts, to \in Users : TransferShares(from, to, shares[from])
    BY <2>1 DEF TransferShares
  <2>2. CASE AssetOperation
    BY <2>2, AssetOperationIs DEF Others
  <2>3. CASE \E r \in Recipes \cup {NoRecipe} : ScheduleRecipe(r)
    BY <2>3 DEF ScheduleRecipe
  <2>4. CASE ActivateRecipe
    BY <2>4 DEF ActivateRecipe
  <2>5. CASE \E who \in Grantees, b \in BOOLEAN : Grant(who, b)
    BY <2>5 DEF Grant
  <2>6. CASE Tick
    BY <2>6 DEF Tick
  <2>7. CASE UNCHANGED vars
    BY <2>7 DEF vars
  <2> QED
    BY <1>4, <2>1, <2>2, <2>3, <2>4, <2>5, <2>6, <2>7 DEF Next
<1> QED
  BY <1>2, <1>3, <1>4

-----------------------------------------------------------------------------
(* The view behind the quotes says what the accrual will mint.              *)
LEMMA SupplyNowIs ==
  ASSUME FeesInv
  PROVE  /\ SupplyNow \in Nat /\ SupplyNow >= supply /\ supply \in Nat
         /\ supply = 0 => SupplyNow = 0
         /\ SupplyNow = supply + PendingMintShares
<1>1. /\ SupplyNow \in Nat /\ SupplyNow >= supply /\ supply \in Nat
      /\ supply = 0 => SupplyNow = 0
  BY LedgerNow DEF FeesInv, FeesTypeOK
<1>2. SupplyNow = supply + PendingMintShares
  <2> DEFINE m == MintNow["manager"]
             k == MintNow["keeper"]
             p == MintNow["platform"]
  <2>1. m \in Nat /\ k \in Nat /\ p \in Nat
    BY MintNat DEF Legs, FeesInv
  <2>2. SupplyNow = supply + m + p + k
    BY DEF SupplyNow
  <2>3. PendingMintShares = m + k + p
    BY DEF PendingMintShares, MintNow, OwedNow, Legs
  <2> HIDE DEF m, k, p
  <2> QED
    BY <1>1, <2>1, <2>2, <2>3
<1> QED
  BY <1>1, <1>2

(* What a mint against an AP and a redeem move, of each token.              *)
LEMMA MintMoves ==
  ASSUME VaultInv, NEW ap \in Users, NEW to, NEW n \in Nat, MintAgainst(ap, to, n)
  PROVE  /\ n > 0 /\ supply > 0 /\ supply' = SupplyNow + n
         /\ \A t \in Tokens : Backing(t)' = Backing(t) + Needed(t, n)
<1> DEFINE amount == [t \in Tokens |-> Needed(t, n)]
<1>1. Move(ap, Vault, amount) /\ ap \in Accounts
  BY ClaimsUsers DEF MintAgainst
<1>2. n > 0 /\ supply > 0 /\ supply' = SupplyNow + n
  BY DEF MintAgainst, Reissue
<1>3. \A t \in Tokens : amount[t] = Needed(t, n)
  OBVIOUS
<1> HIDE DEF amount
<1>4. \A t \in Tokens : Top(coins', claims', t) = Top(coins, claims, t) + amount[t]
  BY <1>1, MoveIn DEF VaultInv
<1>5. \A t \in Tokens : Backing(t) = Top(coins, claims, t) /\ Backing(t)' = Top(coins', claims', t)
  BY DEF Backing, BackingIn, Custody, Top
<1> QED
  BY <1>2, <1>3, <1>4, <1>5

LEMMA RedeemMoves ==
  ASSUME VaultInv, NEW a \in Users, NEW n \in Nat, Redeem(a, n)
  PROVE  /\ n > 0 /\ supply > 0 /\ supply' = SupplyNow - n
         /\ \A t \in Tokens : Backing(t)' = Backing(t) - Paid(t, n)
<1> DEFINE amount == [t \in Tokens |-> Paid(t, n)]
<1>1. Move(Vault, a, amount) /\ a \in Accounts
  BY ClaimsUsers DEF Redeem
<1>2. n > 0 /\ supply > 0 /\ supply' = SupplyNow - n
  <2>1. n > 0 /\ supply > 0 /\ supply' = SupplyNow + (-n)
    BY DEF Redeem, Reissue
  <2>2. SupplyNow \in Nat
    BY SupplyNowIs DEF VaultInv
  <2> QED
    BY <2>1, <2>2
<1>3. \A t \in Tokens : amount[t] = Paid(t, n)
  OBVIOUS
<1> HIDE DEF amount
<1>4. \A t \in Tokens : Top(coins', claims', t) = Top(coins, claims, t) - amount[t]
  BY <1>1, MoveOut DEF VaultInv
<1>5. \A t \in Tokens : Backing(t) = Top(coins, claims, t) /\ Backing(t)' = Top(coins', claims', t)
  BY DEF Backing, BackingIn, Custody, Top
<1> QED
  BY <1>2, <1>3, <1>4, <1>5

LEMMA FirstMintMoves ==
  ASSUME VaultInv, NEW u \in Users, NEW n \in Nat, FirstMint(u, n, recipe), Reissue(u, n)
  PROVE  /\ n > 0 /\ supply' = SupplyNow + n
         /\ \A t \in Tokens : Backing(t)' = Backing(t) + Bundle(recipe, t, n \div UnitSize)
<1> DEFINE amount == [t \in Tokens |-> Bundle(recipe, t, n \div UnitSize)]
<1>1. Move(u, Vault, amount) /\ u \in Accounts
  BY ClaimsUsers DEF FirstMint
<1>2. n > 0 /\ supply' = SupplyNow + n
  BY DEF FirstMint, Reissue
<1>3. \A t \in Tokens : amount[t] = Bundle(recipe, t, n \div UnitSize)
  OBVIOUS
<1> HIDE DEF amount
<1>4. \A t \in Tokens : Top(coins', claims', t) = Top(coins, claims, t) + amount[t]
  BY <1>1, MoveIn DEF VaultInv
<1>5. \A t \in Tokens : Backing(t) = Top(coins, claims, t) /\ Backing(t)' = Top(coins', claims', t)
  BY DEF Backing, BackingIn, Custody, Top
<1> QED
  BY <1>2, <1>3, <1>4, <1>5

(* Products of sums, for the comparison of backing per share.               *)
LEMMA MoreBacking ==
  ASSUME NEW b \in Nat, NEW s \in Nat, NEW n \in Nat, NEW q \in Nat, s * q >= b * n
  PROVE  (b + q) * s >= b * (s + n)
<1>1. (b + q) * s = b * s + s * q /\ b * (s + n) = b * s + b * n
  OBVIOUS
<1>2. b * s \in Nat /\ s * q \in Nat /\ b * n \in Nat
  BY TimesNat
<1> QED
  BY <1>1, <1>2

LEMMA LessBacking ==
  ASSUME NEW b \in Nat, NEW s \in Nat, NEW n \in Nat, NEW q \in Nat, s * q <= b * n
  PROVE  (b - q) * s >= b * (s - n)
<1>1. (b - q) * s = b * s - s * q /\ b * (s - n) = b * s - b * n
  OBVIOUS
<1>2. b * s \in Nat /\ s * q \in Nat /\ b * n \in Nat
  BY TimesNat
<1> QED
  BY <1>1, <1>2

(* Backing per share, over one step that accrues.                           *)
LEMMA BackingStep ==
  ASSUME VaultInv, [Next]_vars, Accrues, supply > 0, NEW t \in HeldSet
  PROVE  Backing(t)' * SupplyNow >= Backing(t) * supply'
<1>1. /\ t \in Tokens /\ Backing(t) \in Nat /\ SupplyNow \in Nat \ {0}
  <2>1. t \in Tokens
    BY DEF VaultInv, CustodyInv, Secure, Listed, HeldSet
  <2>2. SupplyNow \in Nat /\ SupplyNow >= supply /\ supply \in Nat
    BY SupplyNowIs DEF VaultInv
  <2>3. Backing(t) \in Nat
    BY <2>1, BackingNat DEF VaultInv
  <2> QED
    BY <2>1, <2>2, <2>3
<1>2. CASE AccrueLedger /\ UNCHANGED assets
  <2>1. Backing(t)' = Backing(t) /\ supply' = SupplyNow
    BY <1>2 DEF AccrueLedger, assets, Backing, BackingIn, Custody
  <2>2. Backing(t) * SupplyNow \in Nat
    BY <1>1, TimesNat
  <2> QED
    BY <2>1, <2>2
<1>3. CASE \E ap, to \in Users, n \in Nat : MintAgainst(ap, to, n)
  <2>1. PICK ap \in Users, to \in Users, n \in Nat : MintAgainst(ap, to, n)
    BY <1>3
  <2> DEFINE q == CeilDiv(Backing(t) * n, SupplyNow)
  <2>2. supply' = SupplyNow + n /\ Backing(t)' = Backing(t) + q
    BY <1>1, <2>1, MintMoves DEF Needed
  <2>3. q \in Nat /\ SupplyNow * q >= Backing(t) * n
    <3>1. Backing(t) * n \in Nat
      BY <1>1, TimesNat
    <3> QED
      BY <1>1, <3>1, CeilNat
  <2> HIDE DEF q
  <2>4. (Backing(t) + q) * SupplyNow >= Backing(t) * (SupplyNow + n)
    BY <1>1, <2>3, MoreBacking
  <2> QED
    BY <2>2, <2>4
<1>4. CASE \E u \in Users, n \in Nat : Redeem(u, n)
  <2>1. PICK u \in Users, n \in Nat : Redeem(u, n)
    BY <1>4
  <2> DEFINE q == (Backing(t) * n) \div SupplyNow
  <2>2. supply' = SupplyNow - n /\ Backing(t)' = Backing(t) - q
    BY <1>1, <2>1, RedeemMoves DEF Paid
  <2>3. q \in Nat /\ SupplyNow * q <= Backing(t) * n
    <3>1. Backing(t) * n \in Nat
      BY <1>1, TimesNat
    <3> QED
      BY <1>1, <3>1, DivBounds
  <2> HIDE DEF q
  <2>4. (Backing(t) - q) * SupplyNow >= Backing(t) * (SupplyNow - n)
    BY <1>1, <2>3, LessBacking
  <2> QED
    BY <2>2, <2>4
<1>5. supply # 0
  BY SupplyNowIs DEF VaultInv
<1> QED
  BY <1>2, <1>3, <1>4, <1>5, AccrualKinds

(* No create, redeem or accrual lowers what backs a share of those who      *)
(* stay by more than the fee that falls due with it.                        *)
THEOREM RemainingHoldersKeepBacking == Spec => RemainingBacking
<1>1. VaultInv /\ [Next]_vars =>
        (Accrues /\ supply > 0 => \A t \in HeldSet : Backing(t)' * SupplyNow >= Backing(t) * supply')
  BY BackingStep
<1> QED
  BY <1>1, VaultInit, VaultStep, PTL DEF Spec, RemainingBacking

(* The quotes.                                                              *)
LEMMA QuoteStep ==
  ASSUME VaultInv, [Next]_vars, Accrues, supply > 0 \/ ~IsRegistry,
         NEW n \in 1..MaxShares, NEW t \in Tokens
  PROVE  /\ supply' = SupplyNow + n => Backing(t)' - Backing(t) = PreviewCreate(t, n)
         /\ supply' = SupplyNow - n => Backing(t) - Backing(t)' = PreviewRedeem(t, n)
<1>1. /\ SupplyNow \in Nat /\ supply \in Nat /\ SupplyNow = supply + PendingMintShares
      /\ SupplyNow >= supply
  BY SupplyNowIs DEF VaultInv
<1>2. n \in Nat /\ n > 0 /\ Backing(t) \in Nat
  BY BackingNat, VaultAssumption DEF VaultInv
<1>3. CASE AccrueLedger /\ UNCHANGED assets
  <2>1. supply' = SupplyNow
    BY <1>3 DEF AccrueLedger
  <2> QED
    BY <1>1, <1>2, <2>1
<1>4. CASE \E ap, to \in Users, k \in Nat : MintAgainst(ap, to, k)
  <2>1. PICK ap \in Users, to \in Users, k \in Nat : MintAgainst(ap, to, k)
    BY <1>4
  <2>2. k > 0 /\ supply > 0 /\ supply' = SupplyNow + k /\ Backing(t)' = Backing(t) + Needed(t, k)
    BY <2>1, MintMoves
  <2>3. Needed(t, k) \in Nat
    <3>1. Backing(t) * k \in Nat /\ SupplyNow \in Nat \ {0}
      BY <1>1, <1>2, <2>2, TimesNat
    <3> QED
      BY <3>1, CeilNat DEF Needed
  <2>4. supply' # SupplyNow - n
    BY <1>1, <1>2, <2>2
  <2>5. ASSUME supply' = SupplyNow + n
        PROVE  Backing(t)' - Backing(t) = PreviewCreate(t, n)
    <3>1. k = n
      BY <1>1, <1>2, <2>2, <2>5
    <3>2. PreviewCreate(t, n) = Needed(t, n)
      BY <1>1, <2>2 DEF PreviewCreate, Needed
    <3> QED
      BY <1>2, <2>2, <2>3, <3>1, <3>2
  <2> QED
    BY <2>4, <2>5
<1>5. CASE \E u \in Users, k \in Nat : Redeem(u, k)
  <2>1. PICK u \in Users, k \in Nat : Redeem(u, k)
    BY <1>5
  <2>2. k > 0 /\ supply > 0 /\ supply' = SupplyNow - k /\ Backing(t)' = Backing(t) - Paid(t, k)
    BY <2>1, RedeemMoves
  <2>3. Paid(t, k) \in Nat
    <3>1. Backing(t) * k \in Nat /\ SupplyNow \in Nat \ {0}
      BY <1>1, <1>2, <2>2, TimesNat
    <3> QED
      BY <3>1, DivBounds DEF Paid
  <2>4. supply' # SupplyNow + n
    BY <1>1, <1>2, <2>2
  <2>5. ASSUME supply' = SupplyNow - n
        PROVE  Backing(t) - Backing(t)' = PreviewRedeem(t, n)
    <3>1. k = n
      BY <1>1, <1>2, <2>2, <2>5
    <3>2. PreviewRedeem(t, n) = Paid(t, n)
      BY <1>1 DEF PreviewRedeem, Paid
    <3> QED
      BY <1>2, <2>2, <2>3, <3>1, <3>2
  <2> QED
    BY <2>4, <2>5
<1>6. CASE supply = 0 /\ \E u \in Users, k \in Nat :
                              ~IsRegistry => FirstMint(u, k, recipe) /\ Reissue(u, k)
  <2>1. PICK u \in Users, k \in Nat : FirstMint(u, k, recipe) /\ Reissue(u, k)
    <3>1. ~IsRegistry
      BY <1>1, <1>6
    <3> QED
      BY <1>6, <3>1
  <2> DEFINE paid == Bundle(recipe, t, k \div UnitSize)
  <2>2. k > 0 /\ supply' = SupplyNow + k /\ Backing(t)' = Backing(t) + paid
    BY <2>1, FirstMintMoves
  <2>3. paid \in Nat
    <3>1. recipe \in Seq(Leg) /\ Len(recipe) \in Nat /\ DOMAIN recipe = 1..Len(recipe)
      BY VaultAssumption DEF VaultInv, CustodyInv
    <3>2. \A i \in 1..Len(recipe) : recipe[i].amount \in Nat
      <4>1. \A i \in 1..Len(recipe) : recipe[i] \in Leg
        BY <3>1
      <4> QED
        BY <4>1 DEF Leg
    <3> DEFINE units == k \div UnitSize
    <3>3. units \in Nat
      BY VaultAssumption, DivBounds
    <3> HIDE DEF units
    <3>4. Bundle(recipe, t, units) \in Nat
      BY <3>1, <3>2, <3>3, BundleNat
    <3> QED
      BY <3>4 DEF units
  <2>4. supply' # SupplyNow - n
    BY <1>1, <1>2, <2>2
  <2>5. ASSUME supply' = SupplyNow + n
        PROVE  Backing(t)' - Backing(t) = PreviewCreate(t, n)
    <3>1. k = n
      BY <1>1, <1>2, <2>2, <2>5
    <3>2. PreviewCreate(t, n) = paid
      BY <1>6, <3>1 DEF PreviewCreate
    <3> HIDE DEF paid
    <3> QED
      BY <1>2, <2>2, <2>3, <3>2
  <2> QED
    BY <2>4, <2>5
<1> QED
  BY <1>1, <1>3, <1>4, <1>5, <1>6, AccrualKinds

(* What previewCreate and previewRedeem say is what the operation moves.    *)
THEOREM QuotesAreExact == Spec => PreviewExact
<1>1. VaultInv /\ [Next]_vars =>
        (Accrues /\ (supply > 0 \/ ~IsRegistry) =>
           \A n \in 1..MaxShares : \A t \in Tokens :
             /\ supply' = SupplyNow + n => Backing(t)' - Backing(t) = PreviewCreate(t, n)
             /\ supply' = SupplyNow - n => Backing(t) - Backing(t)' = PreviewRedeem(t, n))
  BY QuoteStep
<1> QED
  BY <1>1, VaultInit, VaultStep, PTL DEF Spec, PreviewExact

-----------------------------------------------------------------------------
(* Who may come to be paid fees, and that they are not among the users.     *)
Takers == Treasuries \cup {Officers["manager"], Officers["meridian"], Officers["treasury"]}

Apart == Users \cap (Takers \cup {KeeperEscrow}) = {}

(* Who is paid fees, and what the seconds since the last accrual come to.   *)
ChargeInv ==
  /\ treasury \in Takers
  /\ \A o \in Offices : office[o].holder \in Takers /\ office[o].nominee \in Takers \cup {NoOne}
  /\ exposure = (now - lastAccrued) * (rate.manager + rate.platform)

(* At the start no second has passed.                                       *)
LEMMA ChargeInit == Init => ChargeInv
<1> SUFFICES ASSUME Init PROVE ChargeInv
  OBVIOUS
<1>1. /\ treasury = Officers["treasury"]
      /\ office = [o \in Offices |-> [holder |-> Officers[o], nominee |-> NoOne]]
      /\ exposure = 0 /\ now = 0 /\ lastAccrued = 0
  BY DEF Init
<1>2. rate.manager \in Nat /\ rate.platform \in Nat
  BY VaultInit DEF VaultInv, FeesInv, FeesTypeOK, Legs, RateMax, Init
<1> QED
  BY <1>1, <1>2 DEF ChargeInv, Takers, Offices

(* Every accrual starts the seconds again, before a rate changes.           *)
LEMMA ChargeStep == VaultInv /\ ChargeInv /\ [Next]_vars => ChargeInv'
<1> SUFFICES ASSUME VaultInv, ChargeInv, [Next]_vars PROVE ChargeInv'
  OBVIOUS
<1>1. /\ now \in Nat /\ lastAccrued \in Nat /\ lastAccrued <= now
      /\ rate.manager \in Nat /\ rate.platform \in Nat
  <2>1. rate["manager"] \in 0..RateMax["manager"] /\ rate["platform"] \in 0..RateMax["platform"]
    BY DEF VaultInv, FeesInv, FeesTypeOK, Legs
  <2> QED
    BY <2>1 DEF VaultInv, FeesInv, FeesTypeOK
<1>2. /\ rate'.manager \in Nat /\ rate'.platform \in Nat
  <2>1. VaultInv'
    BY VaultStep
  <2>2. rate'["manager"] \in 0..RateMax["manager"] /\ rate'["platform"] \in 0..RateMax["platform"]
    BY <2>1 DEF VaultInv, FeesInv, FeesTypeOK, Legs
  <2> QED
    BY <2>2
<1>3. ASSUME lastAccrued' = now, now' = now, exposure' = 0, UNCHANGED roles
      PROVE  ChargeInv'
  <2>1. (now' - lastAccrued') * (rate'.manager + rate'.platform) = 0
    BY <1>1, <1>2, <1>3
  <2> QED
    BY <1>3, <2>1 DEF ChargeInv, roles
<1>4. ASSUME UNCHANGED <<lastAccrued, now, exposure, rate, roles>>
      PROVE  ChargeInv'
  BY <1>4 DEF ChargeInv, roles
<1>5. CASE ShareOperation
  <2>1. Reissued
    BY <1>5, ShareOperationIs
  <2>2. UNCHANGED <<now, rate, roles>>
    BY <2>1 DEF Reissued, roles
  <2>3. CASE lastAccrued' = now /\ exposure' = 0
    BY <1>3, <2>2, <2>3
  <2>4. CASE UNCHANGED <<lastAccrued, exposure>>
    BY <1>4, <2>2, <2>4
  <2> QED
    BY <2>1, <2>3, <2>4 DEF Reissued
<1>6. CASE Tick
  <2>1. /\ now' = now + 1 /\ exposure' = exposure + rate.manager + rate.platform
        /\ UNCHANGED <<rate, lastAccrued, roles>>
    BY <1>6 DEF Tick, fees, feeState
  <2> DEFINE r == rate.manager + rate.platform
             d == now - lastAccrued
  <2>2. r \in Nat /\ d \in Nat
    BY <1>1
  <2>3. exposure = d * r /\ exposure' = d * r + r /\ now' - lastAccrued' = d + 1
    <3>1. exposure = d * r
      BY DEF ChargeInv
    <3>2. d * r \in Nat
      BY <2>2, TimesNat
    <3>3. exposure' = d * r + r
      BY <1>1, <2>1, <3>1, <3>2
    <3> QED
      BY <1>1, <2>1, <3>1, <3>3
  <2>4. rate'.manager + rate'.platform = r
    BY <2>1
  <2> HIDE DEF r, d
  <2>5. (d + 1) * r = d * r + r
    BY <2>2
  <2> QED
    BY <2>1, <2>3, <2>4, <2>5 DEF ChargeInv, roles
<1>7. CASE FeeOperation
  <2>1. CASE exposure' = 0 /\ (AccrueFee \/ \E l \in Legs : (\E b \in Rates : SetRate(l, b))
                                                           \/ ActivateRate(l))
    BY <1>3, <2>1 DEF AccrueFee, SetRate, ActivateRate, AccrueLedger, Accrue
  <2>2. CASE exposure' = exposure /\ \E a \in Treasuries : SetTreasury(a)
    BY <2>2 DEF SetTreasury, ChargeInv, Takers, feeState
  <2>3. CASE exposure' = exposure /\ \E o \in Offices : Accept(o)
    <3>1. PICK o \in Offices : Accept(o)
      BY <2>3
    <3>2. /\ office' = [office EXCEPT ![o] = [holder |-> office[o].nominee, nominee |-> NoOne]]
          /\ office[o].nominee # NoOne /\ UNCHANGED <<feeState, treasury, now>>
      BY <3>1 DEF Accept
    <3>3. DOMAIN office = Offices
      BY DEF VaultInv, FeesInv, FeesTypeOK
    <3>4. \A x \in Offices : office'[x].holder \in Takers /\ office'[x].nominee \in Takers \cup {NoOne}
      BY <3>2, <3>3 DEF ChargeInv
    <3> QED
      BY <2>3, <3>2, <3>4 DEF ChargeInv, feeState
  <2>4. CASE exposure' = exposure /\ \E o \in Offices, a \in Treasuries \cup {NoOne} : Nominate(o, a)
    <3>1. PICK o \in Offices, a \in Treasuries \cup {NoOne} : Nominate(o, a)
      BY <2>4
    <3>2. /\ office' = [office EXCEPT ![o] = [office[o] EXCEPT !.nominee = a]]
          /\ UNCHANGED <<feeState, treasury, now>>
      BY <3>1 DEF Nominate
    <3>3. /\ DOMAIN office = Offices
          /\ office[o] \in [holder : Accounts, nominee : Accounts \cup {NoOne}]
      BY DEF VaultInv, FeesInv, FeesTypeOK
    <3>4. [office[o] EXCEPT !.nominee = a].holder = office[o].holder
          /\ [office[o] EXCEPT !.nominee = a].nominee = a
      BY <3>3
    <3>5. \A x \in Offices : office'[x].holder \in Takers /\ office'[x].nominee \in Takers \cup {NoOne}
      <4>1. office'[o] = [office[o] EXCEPT !.nominee = a] /\ \A x \in Offices \ {o} : office'[x] = office[x]
        BY <3>2, <3>3
      <4> QED
        BY <3>4, <4>1 DEF ChargeInv, Takers
    <3> QED
      BY <2>4, <3>2, <3>5 DEF ChargeInv, feeState
  <2>5. CASE /\ exposure' = exposure
             /\ \/ \E b \in FeeTokens : SetFeeToken(b)
                \/ \E side \in {"create", "redeem"}, f \in FlatFees : SetFlatFee(side, f)
    BY <2>5 DEF SetFeeToken, SetFlatFee, ChargeInv, feeState
  <2> QED
    BY <1>7, <2>1, <2>2, <2>3, <2>4, <2>5 DEF FeeOperation
<1>8. CASE ~ShareOperation /\ ~Tick /\ ~FeeOperation
  BY <1>4, <1>8, QuietFees DEF roles
<1> QED
  BY <1>5, <1>6, <1>7, <1>8

(* A leg of the fee, against the seconds at its rate.                       *)
LEMMA LegBounds ==
  ASSUME NEW s \in Nat, NEW e \in Nat, NEW bps \in Nat, bps * e < BPS * YEAR
  PROVE  LET a == FeeAddScaled(s, e, bps)
         IN /\ a \in Nat
            /\ a * (BPS * YEAR - bps * e) <= s * SCALE * (bps * e)
            /\ (a + 1) * (BPS * YEAR) >= s * SCALE * (bps * e)
<1> DEFINE num == bps * e
           den == BPS * YEAR
           w == den - num
           x == (s * num) * SCALE
           a == x \div w
<1>1. num \in Nat /\ den \in Nat /\ SCALE \in Nat
  BY FeeAssumption, TimesNat
<1>2. s * num \in Nat
  BY <1>1, TimesNat
<1>3. x \in Nat
  BY <1>1, <1>2, TimesNat
<1>4. FeeAddScaled(s, e, bps) = a
  BY <1>1 DEF FeeAddScaled
<1>5. w \in Nat \ {0} /\ den >= w
  <2>1. num < den
    OBVIOUS
  <2> HIDE DEF num, den
  <2> QED
    BY <1>1, <2>1
<1>6. x = s * SCALE * num
  <2> HIDE DEF num
  <2> QED
    BY <1>1
<1> HIDE DEF num, den, w, x
<1>7. a \in Nat /\ w * a <= x /\ x < w * a + w
  BY <1>3, <1>5, DivBounds
<1> HIDE DEF a
<1>8. a * w = w * a /\ (a + 1) * w = w * a + w
  BY <1>5, <1>7
<1>9. (a + 1) * w <= (a + 1) * den
  <2>1. a + 1 \in Nat
    BY <1>7
  <2> QED
    BY <1>1, <1>5, <2>1, TimesMonotone
<1>10. w * a \in Nat /\ (a + 1) * den \in Nat
  BY <1>1, <1>5, <1>7, TimesNat
<1>11. a * w <= x /\ (a + 1) * den >= x
  BY <1>3, <1>5, <1>7, <1>8, <1>9, <1>10
<1> QED
  BY <1>4, <1>6, <1>7, <1>11 DEF num, den, w

-----------------------------------------------------------------------------
(* Two legs together, against the seconds at both rates.                    *)
LEMMA TwoLegs ==
  ASSUME NEW a \in Nat, NEW b \in Nat, NEW p \in Nat, NEW q \in Nat, NEW y \in Nat, NEW z \in Nat,
         p + q < y,
         a * (y - p) <= z * p, b * (y - q) <= z * q,
         (a + 1) * y >= z * p, (b + 1) * y >= z * q
  PROVE  /\ (a + b) * (y - (p + q)) <= z * (p + q)
         /\ (a + b + 2) * y >= z * (p + q)
<1> DEFINE w == y - (p + q)
<1>1. w \in Nat /\ w <= y - p /\ w <= y - q /\ y - p \in Nat /\ y - q \in Nat
  OBVIOUS
<1> HIDE DEF w
<1>2. a * w <= a * (y - p) /\ b * w <= b * (y - q)
  BY <1>1, TimesMonotone
<1>3. a * w \in Nat /\ b * w \in Nat /\ z * p \in Nat /\ z * q \in Nat
      /\ a * (y - p) \in Nat /\ b * (y - q) \in Nat
  BY <1>1, TimesNat
<1>4. (a + b) * w = a * w + b * w /\ z * (p + q) = z * p + z * q
  BY <1>1
<1>5. (a + b) * w <= z * (p + q)
  BY <1>2, <1>3, <1>4
<1>6. (a + b + 2) * y = (a + 1) * y + (b + 1) * y
  OBVIOUS
<1>7. (a + 1) * y \in Nat /\ (b + 1) * y \in Nat
  <2>1. a + 1 \in Nat /\ b + 1 \in Nat
    OBVIOUS
  <2> QED
    BY <2>1, TimesNat
<1>8. (a + b + 2) * y >= z * (p + q)
  BY <1>3, <1>4, <1>6, <1>7
<1> QED
  BY <1>5, <1>8 DEF w

(* What an accrual charges is what its legs come to: what it mints and what *)
(* it carries, less what was carried before.                                *)
LEMMA ChargedIs ==
  ASSUME VaultInv, AccrueLedger
  PROVE  LET charged == (supply' - supply) * SCALE
               + (owed'.manager + owed'.keeper + owed'.platform)
               - (owed.manager + owed.keeper + owed.platform)
         IN charged = IF Idle THEN 0
                      ELSE FeeAddScaled(supply, now - lastAccrued, rate.manager)
                           + FeeAddScaled(supply, now - lastAccrued, rate.platform)
<1> DEFINE m == MintNow["manager"]
           k == MintNow["keeper"]
           p == MintNow["platform"]
<1>1. m \in Nat /\ k \in Nat /\ p \in Nat /\ SCALE \in Nat /\ supply \in Nat
  BY MintNat, FeeAssumption DEF Legs, VaultInv, FeesInv, FeesTypeOK
<1>2. supply' - supply = m + p + k
  <2>1. supply' = supply + m + p + k
    BY DEF AccrueLedger, SupplyNow
  <2> HIDE DEF m, k, p
  <2> QED
    BY <1>1, <2>1
<1>3. /\ owed'["manager"] = OwedNow["manager"] - m * SCALE
      /\ owed'["keeper"] = OwedNow["keeper"] - k * SCALE
      /\ owed'["platform"] = OwedNow["platform"] - p * SCALE
  BY DEF AccrueLedger, Accrue, Legs
<1>4. \A l \in Legs : owed[l] \in Nat /\ OwedNow[l] \in Nat
  <2>1. \A l \in Legs : owed[l] \in Nat
    BY FeeAssumption DEF VaultInv, FeesInv, FeesTypeOK
  <2> QED
    BY <2>1, MintNat DEF VaultInv, FeesInv
<1> HIDE DEF m, k, p
<1>5. m * SCALE \in Nat /\ k * SCALE \in Nat /\ p * SCALE \in Nat
      /\ (m + p + k) * SCALE = m * SCALE + p * SCALE + k * SCALE
  BY <1>1, TimesNat
<1> DEFINE om == owed["manager"]
           ok == owed["keeper"]
           op == owed["platform"]
           nm == OwedNow["manager"]
           nk == OwedNow["keeper"]
           np == OwedNow["platform"]
           charged == (supply' - supply) * SCALE
               + (owed'.manager + owed'.keeper + owed'.platform)
               - (owed.manager + owed.keeper + owed.platform)
<1>6. om \in Nat /\ ok \in Nat /\ op \in Nat /\ nm \in Nat /\ nk \in Nat /\ np \in Nat
  BY <1>4 DEF Legs
<1>7. charged = (m + p + k) * SCALE + ((nm - m * SCALE) + (nk - k * SCALE) + (np - p * SCALE))
                - (om + ok + op)
  BY <1>2, <1>3
<1>8. /\ nm = IF Idle THEN om ELSE om + LegAdd["manager"]
      /\ nk = IF Idle THEN ok ELSE ok + LegAdd["keeper"]
      /\ np = IF Idle THEN op ELSE op + LegAdd["platform"]
  BY DEF OwedNow, Legs
<1> HIDE DEF om, ok, op, nm, nk, np, charged
<1>9. charged = (nm + nk + np) - (om + ok + op)
  <2> DEFINE ms == m * SCALE
             ks == k * SCALE
             ps == p * SCALE
  <2>1. /\ ms \in Nat /\ ks \in Nat /\ ps \in Nat
        /\ charged = (ms + ps + ks) + ((nm - ms) + (nk - ks) + (np - ps)) - (om + ok + op)
    BY <1>5, <1>7
  <2> HIDE DEF ms, ks, ps
  <2> QED
    BY <1>6, <2>1
<1>10. CASE Idle
  BY <1>6, <1>8, <1>9, <1>10 DEF charged
<1>11. CASE ~Idle
  <2> DEFINE a == FeeAddScaled(supply, now - lastAccrued, rate.manager)
             b == FeeAddScaled(supply, now - lastAccrued, rate.platform)
             c == CeilDiv(a * rate.keeper, BPS)
  <2>1. LegAdd["manager"] = a - c /\ LegAdd["keeper"] = c /\ LegAdd["platform"] = b
    BY DEF LegAdd
  <2>2. a - c \in Nat /\ c \in Nat /\ b \in Nat
    BY <2>1, LegAddNat DEF VaultInv, FeesInv
  <2>3. a \in Int
    <3>1. rate["manager"] \in 0..RateMax["manager"] /\ now - lastAccrued \in Nat
      BY DEF VaultInv, FeesInv, FeesTypeOK, Legs
    <3>2. rate.manager \in Nat
      BY <3>1
    <3> HIDE DEF a
    <3>3. FeeAddScaled(supply, now - lastAccrued, rate.manager) \in Nat
      BY <1>1, <3>1, <3>2, FeeAddNat
    <3> QED
      BY <3>3 DEF a
  <2> HIDE DEF a, b, c
  <2>4. charged = a + b
    BY <1>6, <1>8, <1>9, <1>11, <2>1, <2>2, <2>3
  <2> QED
    BY <1>11, <2>4 DEF charged, a, b
<1> QED
  BY <1>10, <1>11

(* A create or redeem changes the shares of a user, whom no fee is paid to. *)
LEMMA OnlyAccrues ==
  ASSUME VaultInv, ChargeInv, Apart, [Next]_vars, Accrues,
         \A u \in Users : shares'[u] = shares[u]
  PROVE  AccrueLedger
<1>1. \A u \in Users : u \in Accounts /\ shares[u] \in Nat /\ SharesNow[u] = shares[u]
  <2> TAKE u \in Users
  <2>1. u \in Accounts /\ shares[u] \in Nat
    BY ClaimsUsers DEF VaultInv, FeesInv, FeesTypeOK
  <2>2. u # treasury /\ u # KeeperEscrow /\ u # office["manager"].holder
    BY DEF Apart, ChargeInv, Offices
  <2>3. MintedTo(u) = 0
    BY <2>2 DEF MintedTo
  <2> QED
    BY <2>1, <2>3 DEF SharesNow
<1>2. DOMAIN SharesNow = Accounts
  BY DEF SharesNow
<1>3. ASSUME NEW u \in Users, NEW d \in Int, d # 0, Reissue(u, d) PROVE FALSE
  <2>1. shares' = [SharesNow EXCEPT ![u] = SharesNow[u] + d]
    BY <1>3 DEF Reissue
  <2> DEFINE f == SharesNow
  <2>2. shares'[u] = f[u] + d /\ f[u] = shares[u] /\ shares[u] \in Nat
    BY <1>1, <1>2, <2>1
  <2> QED
    BY <1>3, <2>2
<1>4. ASSUME NEW ap \in Users, NEW to \in Users, NEW n \in Nat, MintAgainst(ap, to, n) PROVE FALSE
  <2>1. n # 0 /\ Reissue(to, n)
    BY <1>4 DEF MintAgainst
  <2> QED
    BY <1>3, <2>1
<1>5. ASSUME NEW u \in Users, NEW n \in Nat, Redeem(u, n) PROVE FALSE
  <2> DEFINE d == -n
  <2>1. d # 0 /\ d \in Int /\ Reissue(u, d)
    BY <1>5 DEF Redeem
  <2> HIDE DEF d
  <2> QED
    BY <1>3, <2>1
<1>6. ASSUME NEW u \in Users, NEW n \in Nat, n > 0, Reissue(u, n) \/ Issue(u, n) PROVE FALSE
  <2>1. n # 0 /\ n \in Int
    BY <1>6
  <2>2. CASE Issue(u, n)
    <3>1. shares' = [shares EXCEPT ![u] = shares[u] + n] /\ shares \in [Accounts -> Nat]
      BY <2>2 DEF Issue, VaultInv, FeesInv, FeesTypeOK
    <3>2. shares'[u] = shares[u] + n
      BY <1>1, <3>1
    <3> QED
      BY <1>1, <1>6, <3>2
  <2> QED
    BY <1>3, <1>6, <2>1, <2>2
<1> QED
  BY <1>4, <1>5, <1>6, AccrualKinds

(* What one accrual charges.                                                *)
LEMMA FeeStep ==
  ASSUME VaultInv, ChargeInv, Apart, [Next]_vars, Accrues,
         \A u \in Users : shares'[u] = shares[u]
  PROVE  LET year == BPS * YEAR
             charged == (supply' - supply) * SCALE
               + (owed'.manager + owed'.keeper + owed'.platform)
               - (owed.manager + owed.keeper + owed.platform)
         IN exposure < year =>
              /\ charged * (year - exposure) <= supply * SCALE * exposure
              /\ (charged + 2) * year >= supply * SCALE * exposure
<1> DEFINE year == BPS * YEAR
           charged == (supply' - supply) * SCALE
               + (owed'.manager + owed'.keeper + owed'.platform)
               - (owed.manager + owed.keeper + owed.platform)
           e == now - lastAccrued
           a == FeeAddScaled(supply, e, rate.manager)
           b == FeeAddScaled(supply, e, rate.platform)
<1>1. charged = IF Idle THEN 0 ELSE a + b
  BY OnlyAccrues, ChargedIs
<1>2. /\ e \in Nat /\ supply \in Nat /\ SCALE \in Nat /\ year \in Nat
      /\ rate.manager \in Nat /\ rate.platform \in Nat
  <2>1. rate["manager"] \in 0..RateMax["manager"] /\ rate["platform"] \in 0..RateMax["platform"]
    BY DEF VaultInv, FeesInv, FeesTypeOK, Legs
  <2>2. year \in Nat
    BY FeeAssumption, TimesNat
  <2> HIDE DEF year
  <2> QED
    BY <2>1, <2>2, FeeAssumption DEF VaultInv, FeesInv, FeesTypeOK
<1> DEFINE p == rate.manager * e
           q == rate.platform * e
           z == supply * SCALE
<1>3. exposure = e * (rate.manager + rate.platform)
  BY DEF ChargeInv
<1>4. p \in Nat /\ q \in Nat /\ z \in Nat
  BY <1>2, TimesNat
<1>5. exposure = p + q
  <2> DEFINE r == rate.manager
             s == rate.platform
  <2>1. r \in Nat /\ s \in Nat
    BY <1>2
  <2> HIDE DEF r, s, e
  <2>2. e * (r + s) = r * e + s * e
    BY <1>2, <2>1
  <2> QED
    BY <1>3, <2>2 DEF r, s
<1>6. supply * SCALE * exposure = z * exposure
  OBVIOUS
<1>7. Idle => supply = 0 \/ e = 0
  BY <1>2 DEF Idle, VaultInv, FeesInv, FeesTypeOK
<1>8. SUFFICES ASSUME exposure < year
               PROVE  charged * (year - exposure) <= z * exposure /\ (charged + 2) * year >= z * exposure
  OBVIOUS
<1> HIDE DEF charged
<1>9. CASE Idle
  <2>1. z * exposure = 0
    <3>1. supply = 0 => z = 0
      BY <1>2
    <3>2. e = 0 => p = 0 /\ q = 0
      BY <1>2
    <3> HIDE DEF z, p, q, e
    <3> QED
      BY <1>4, <1>5, <1>7, <1>9, <3>1, <3>2
  <2>2. charged = 0
    BY <1>1, <1>9
  <2> HIDE DEF z, p, q, e, year
  <2>3. charged * (year - exposure) = 0 /\ (charged + 2) * year \in Nat
    BY <1>2, <1>4, <1>5, <2>2
  <2> QED
    BY <2>1, <2>3
<1>10. CASE ~Idle
  <2>1. p + q < year
    BY <1>5, <1>8
  <2>2. p < year /\ q < year
    <3> HIDE DEF p, q, year
    <3> QED
      BY <1>2, <1>4, <2>1
  <2>3. a \in Nat /\ a * (year - p) <= z * p /\ (a + 1) * year >= z * p
    BY <1>2, <2>2, LegBounds
  <2>4. b \in Nat /\ b * (year - q) <= z * q /\ (b + 1) * year >= z * q
    BY <1>2, <2>2, LegBounds
  <2>5. charged = a + b
    BY <1>1, <1>10
  <2> HIDE DEF a, b, p, q, z, e, year
  <2>6. /\ (a + b) * (year - (p + q)) <= z * (p + q)
        /\ (a + b + 2) * year >= z * (p + q)
    BY <1>2, <1>4, <2>1, <2>3, <2>4, TwoLegs
  <2> QED
    BY <1>5, <2>5, <2>6
<1> QED
  BY <1>9, <1>10

(* An accrual charges what the rates in force at every second since the     *)
(* last one come to, rounded down twice, when no user is paid fees: a user  *)
(* who were could redeem what the same call minted to him, and a step would *)
(* look like an accrual that is none.  Of a registry vault it says no more  *)
(* than that: the seconds since the last accrual reach back behind a        *)
(* bootstrap, which does not accrue.                                        *)
THEOREM FeesAreWhatTheRatesComeTo == Apart => (Spec => FeesCharged)
<1> SUFFICES ASSUME Apart PROVE Spec => FeesCharged
  OBVIOUS
<1>1. VaultInv /\ ChargeInv /\ [Next]_vars =>
        (Accrues /\ (\A u \in Users : shares'[u] = shares[u]) =>
           LET year == BPS * YEAR
               charged == (supply' - supply) * SCALE
                 + (owed'.manager + owed'.keeper + owed'.platform)
                 - (owed.manager + owed.keeper + owed.platform)
           IN exposure < year =>
                /\ charged * (year - exposure) <= supply * SCALE * exposure
                /\ (charged + 2) * year >= supply * SCALE * exposure)
  BY FeeStep
<1> QED
  BY <1>1, VaultInit, VaultStep, ChargeInit, ChargeStep, PTL DEF Spec, FeesCharged
=============================================================================
