--------------------------- MODULE StreamingFees ---------------------------
(***************************************************************************)
(* The streaming fee of a managed vault (L1 FeeCore with the keeper leg of *)
(* L3): a manager fee, of which a part goes to the keepers' escrow, and an *)
(* independent platform fee, all charged by minting shares.                *)
(*                                                                         *)
(* _accrue runs at the start of every operation that changes the supply or *)
(* a rate.  Fees are kept in shares times SCALE: whole shares are minted,  *)
(* the rest is carried.  A lower rate applies at once, a higher one after  *)
(* TIMELOCK.  The module holds the state and the operations on it;         *)
(* RebalanceVault adds the assets and the specification.                   *)
(***************************************************************************)
EXTENDS Integers

CONSTANTS
  Accounts,          \* who may hold shares
  KeeperEscrow,      \* the keeper module, which gets the keeper leg
  BPS,               \* 10_000 in the code
  YEAR,              \* 365 days
  SCALE,             \* 1e18
  TIMELOCK,          \* 7 days
  MANAGER_MAX, PLATFORM_FEE_MAX, KEEPER_MAX, FLAT_FEE_MAX

Legs == {"manager", "platform", "keeper"}

RateMax == [manager |-> MANAGER_MAX, platform |-> PLATFORM_FEE_MAX,
            keeper |-> KEEPER_MAX]

ASSUME FeeAssumption ==
  /\ BPS \in Nat \ {0} /\ YEAR \in Nat \ {0} /\ SCALE \in Nat \ {0}
  /\ TIMELOCK \in Nat \ {0}
  /\ MANAGER_MAX \in 0..BPS /\ PLATFORM_FEE_MAX \in 0..BPS /\ KEEPER_MAX \in 0..BPS
  /\ FLAT_FEE_MAX \in Nat
  /\ KeeperEscrow \in Accounts

VARIABLES
  shares,        \* balanceOf
  supply,        \* totalSupply()
  rate,          \* the rates in force, in bps: the keeper's of the manager fee
  pending,       \* the increases announced, effectiveAt = 0 for none
  owed,          \* fees not yet minted, in shares times SCALE
  lastAccrued,
  office,        \* manager and meridian: who holds the role, who is nominated
  treasury,
  flat,          \* the flat fees, and is a feeToken set?
  now            \* block.timestamp

ledger == <<shares, supply>>
feeState == <<rate, pending, owed, lastAccrued>>
roles == <<office, treasury, flat>>

Offices == {"manager", "meridian"}
NoOne == "no one"
NoIncrease == [bps |-> 0, effectiveAt |-> 0]

FeesTypeOK ==
  /\ shares \in [Accounts -> Nat]
  /\ supply \in Nat
  /\ \A l \in Legs : /\ rate[l] \in 0..RateMax[l]
                     /\ pending[l] \in [bps : 0..RateMax[l], effectiveAt : Nat]
                     /\ owed[l] \in 0..(SCALE - 1)
  /\ DOMAIN rate = Legs /\ DOMAIN pending = Legs /\ DOMAIN owed = Legs
  /\ lastAccrued \in Nat
  /\ office \in [Offices -> [holder : Accounts, nominee : Accounts \cup {NoOne}]]
  /\ treasury \in Accounts
  /\ flat \in [token : BOOLEAN, create : 0..FLAT_FEE_MAX, redeem : 0..FLAT_FEE_MAX]
  /\ now \in Nat

-----------------------------------------------------------------------------
(* Accrual.                                                                 *)

CeilDiv(a, b) == (a + b - 1) \div b

(* The shares, times SCALE, that dilute sup by bps a year for elapsed.      *)
FeeAddScaled(sup, elapsed, bps) ==
  LET num == bps * elapsed
      den == BPS * YEAR
  IN IF num >= den THEN sup * SCALE ELSE (sup * num * SCALE) \div (den - num)

LegsOnTop ==
  LET elapsed == now - lastAccrued
      managerLeg == FeeAddScaled(supply, elapsed, rate.manager)
  IN [manager  |-> managerLeg,
      keeper   |-> CeilDiv(managerLeg * rate.keeper, BPS),
      platform |-> FeeAddScaled(supply, elapsed, rate.platform)]

(* What each leg has earned since the last accrual: the keeper's is carved  *)
(* out of the manager's, rounded up.                                        *)
LegAdd ==
  LET elapsed == now - lastAccrued
      managerLeg == FeeAddScaled(supply, elapsed, rate.manager)
      keeperLeg == CeilDiv(managerLeg * rate.keeper, BPS)
  IN [manager  |-> managerLeg - keeperLeg,
      keeper   |-> keeperLeg,
      platform |-> FeeAddScaled(supply, elapsed, rate.platform)]

Idle == supply = 0 \/ now = lastAccrued

OwedNow == [l \in Legs |-> IF Idle THEN owed[l] ELSE owed[l] + LegAdd[l]]

MintNow == [l \in Legs |-> IF Idle THEN 0 ELSE OwedNow[l] \div SCALE]

MintedTo(a) ==
  (IF a = treasury THEN MintNow.platform ELSE 0)
  + (IF a = KeeperEscrow THEN MintNow.keeper ELSE 0)
  + (IF a = office["manager"].holder THEN MintNow.manager ELSE 0)

AccrueWithoutReset ==
  /\ lastAccrued' = now
  /\ owed' = OwedNow

(* The ledger as _accrue leaves it; what follows it in an operation starts  *)
(* from here.                                                               *)
SharesNow == [a \in Accounts |-> shares[a] + MintedTo(a)]
SupplyNow == supply + MintNow.manager + MintNow.platform + MintNow.keeper

Accrue ==
  /\ lastAccrued' = now
  /\ owed' = [l \in Legs |-> OwedNow[l] - MintNow[l] * SCALE]

PendingMintSharesNoCarry ==
  IF Idle THEN 0
  ELSE LegAdd.manager \div SCALE + LegAdd.keeper \div SCALE
       + LegAdd.platform \div SCALE

(* The view quotes use, for what _accrue would mint.                        *)
PendingMintShares ==
  IF Idle THEN 0
  ELSE (owed.manager + LegAdd.manager) \div SCALE
       + (owed.keeper + LegAdd.keeper) \div SCALE
       + (owed.platform + LegAdd.platform) \div SCALE

-----------------------------------------------------------------------------
(* The operations on fees and roles.                                        *)

AccrueLedger ==
  /\ Accrue
  /\ shares' = SharesNow
  /\ supply' = SupplyNow

AccrueFee ==
  /\ AccrueLedger
  /\ UNCHANGED <<rate, pending, roles, now>>

ApplyKeepsPending(leg, bps) ==
  IF bps <= rate[leg]
    THEN rate' = [rate EXCEPT ![leg] = bps] /\ UNCHANGED pending
    ELSE /\ pending' = [pending EXCEPT ![leg] =
                         [bps |-> bps, effectiveAt |-> now + TIMELOCK]]
         /\ UNCHANGED rate

(* A lower rate applies and drops a pending increase, a higher one waits.    *)
ApplyOrSchedule(leg, bps) ==
  IF bps <= rate[leg]
    THEN /\ rate' = [rate EXCEPT ![leg] = bps]
         /\ pending' = [pending EXCEPT ![leg] = NoIncrease]
    ELSE /\ pending' = [pending EXCEPT ![leg] =
                         [bps |-> bps, effectiveAt |-> now + TIMELOCK]]
         /\ UNCHANGED rate

SetRateUnsettled(leg, bps) ==
  /\ bps <= RateMax[leg]
  /\ ApplyOrSchedule(leg, bps)
  /\ UNCHANGED <<ledger, owed, lastAccrued, roles, now>>

(* setManagerFeeBps, setPlatformFeeBps, and setKeeperBps where the escrow is *)
(* set, as the factory leaves it.                                           *)
SetRate(leg, bps) ==
  /\ bps <= RateMax[leg]
  /\ AccrueLedger
  /\ ApplyOrSchedule(leg, bps)
  /\ UNCHANGED <<roles, now>>

(* activateManagerFee, activatePlatformFee, activateKeeperBps.               *)
ActivateRate(leg) ==
  /\ pending[leg].effectiveAt # 0
  /\ now >= pending[leg].effectiveAt
  /\ AccrueLedger
  /\ rate' = [rate EXCEPT ![leg] = pending[leg].bps]
  /\ pending' = [pending EXCEPT ![leg] = NoIncrease]
  /\ UNCHANGED <<roles, now>>

SetTreasury(a) ==
  /\ treasury' = a
  /\ UNCHANGED <<ledger, feeState, office, flat, now>>

(* setPendingManager, setPendingMeridian.                                    *)
Nominate(o, a) ==
  /\ office' = [office EXCEPT ![o].nominee = a]
  /\ UNCHANGED <<ledger, feeState, treasury, flat, now>>

(* acceptManager, acceptMeridian.                                            *)
Accept(o) ==
  /\ office[o].nominee # NoOne
  /\ office' = [office EXCEPT ![o] = [holder |-> @.nominee, nominee |-> NoOne]]
  /\ UNCHANGED <<ledger, feeState, treasury, flat, now>>

SetFeeTokenFreely(set) ==
  /\ flat' = [flat EXCEPT !.token = set]
  /\ UNCHANGED <<ledger, feeState, office, treasury, now>>

SetFeeToken(set) ==
  /\ flat.create > 0 \/ flat.redeem > 0 => set
  /\ flat' = [flat EXCEPT !.token = set]
  /\ UNCHANGED <<ledger, feeState, office, treasury, now>>

(* setFlatCreateFee, setFlatRedeemFee.                                       *)
SetFlatFee(side, fee) ==
  /\ fee <= FLAT_FEE_MAX
  /\ fee > 0 => flat.token
  /\ flat' = [flat EXCEPT ![side] = fee]
  /\ UNCHANGED <<ledger, feeState, office, treasury, now>>
=============================================================================
