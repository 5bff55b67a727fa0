--------------------- MODULE BufferedTriggerGuardProofs ---------------------
(***************************************************************************)
(* The auction and the guard over it, for all values of the constants: any *)
(* vault, any plans, any keepers, any bands.                                *)
(*                                                                         *)
(* A live auction is as it was opened (AsOpened), and the vault under it is *)
(* as it is without one (VaultInv): from the two follow the types, that a   *)
(* plan stays fillable, that a fill is at the announced terms and that the  *)
(* keepers' escrow pays tips and nothing else.  The guard opens at most one *)
(* auction per episode of drift.                                            *)
(***************************************************************************)
EXTENDS BufferedTriggerGuard, RebalanceVaultProofs

-----------------------------------------------------------------------------
(* The auction.  A live one is as it was opened: a plan that passed the     *)
(* checks, floors taken from the balances of the time, and an opener who is *)
(* not the keepers' escrow.                                                 *)
FloorAt(x, leg) ==
  IF x[leg.token] > leg.amount THEN x[leg.token] - leg.amount ELSE 0

AsOpened ==
  LET p == auction.plan
  IN /\ p \in Plans /\ p.duration # 0
     /\ \A i \in DOMAIN p.acquire : p.acquire[i].startIn >= p.acquire[i].endIn
     /\ Disjoint(p.acquire, p.release)
     /\ auction.opener \in Accounts \ {KeeperEscrow}
     /\ auction.start <= now
     /\ auction.minOut = [i \in DOMAIN p.release |-> FloorAt(atOpen, p.release[i])]

Auctions == [opener : Accounts \cup {NoOne}, start : Nat, active : BOOLEAN,
             plan : Plans \cup {NoPlan}, minOut : Seq(Nat)]

AuctionShape ==
  /\ auction \in Auctions
  /\ DOMAIN auction.minOut = DOMAIN auction.plan.release
  /\ execMode \in ExecModes
  /\ openAllow \subseteq Accounts
  /\ keeper \in KeeperState
  /\ atOpen \in [Tokens -> Nat]
  /\ auction.active => AsOpened

AuctionInv == VaultInv /\ AuctionShape

LEMMA AuctionInvIsStrong == AuctionInv => AuctionTypeOK
BY VaultInvIsStrong DEF AuctionInv, AuctionShape, AuctionTypeOK, Auctions

LEMMA AuctionStart == AuctionInit => AuctionInv
<1> SUFFICES ASSUME AuctionInit PROVE AuctionInv
  OBVIOUS
<1>1. VaultInv
  BY VaultInit DEF AuctionInit
<1>2. auction = [opener |-> NoOne, start |-> 0, active |-> FALSE,
                 plan |-> NoPlan, minOut |-> << >>]
  BY DEF AuctionInit
<1>3. auction \in Auctions
  BY <1>2 DEF Auctions
<1>4. DOMAIN auction.minOut = DOMAIN auction.plan.release /\ ~auction.active
  BY <1>2 DEF NoPlan
<1>5. atOpen \in [Tokens -> Nat]
  BY <1>1 DEF AuctionInit, VaultInv, Solid
<1> QED
  BY <1>1, <1>3, <1>4, <1>5, AuctionAssumption DEF AuctionInit, AuctionInv, AuctionShape, ExecModes

(* The legs of a plan are as many as its length says.                       *)
LEMMA PlanLegs ==
  ASSUME NEW p \in Plans
  PROVE  /\ p.duration \in Nat
         /\ Len(p.acquire) \in Nat /\ DOMAIN p.acquire = 1..Len(p.acquire)
         /\ Len(p.release) \in Nat /\ DOMAIN p.release = 1..Len(p.release)
         /\ \A i \in DOMAIN p.acquire : /\ p.acquire[i].token \in Tokens
                                        /\ p.acquire[i].startIn \in Nat
                                        /\ p.acquire[i].endIn \in Nat
         /\ \A i \in DOMAIN p.release : /\ p.release[i].token \in Tokens
                                        /\ p.release[i].amount \in Nat
<1>1. p \in Plan
  BY AuctionAssumption
<1>2. p.duration \in Nat /\ p.acquire \in Seq(PlanLeg) /\ p.release \in Seq(Leg)
  BY <1>1 DEF Plan
<1>3. /\ \A i \in DOMAIN p.acquire : p.acquire[i] \in PlanLeg
      /\ \A i \in DOMAIN p.release : p.release[i] \in Leg
  BY <1>2
<1> QED
  BY <1>2, <1>3 DEF PlanLeg, Leg

(* What is asked never leaves the range the leg announces.                  *)
LEMMA AskedBounds ==
  ASSUME AuctionInv, auction.active, InTime, NEW i \in DOMAIN auction.plan.acquire
  PROVE  LET leg == auction.plan.acquire[i]
         IN Asked(leg) \in Nat /\ leg.endIn <= Asked(leg) /\ Asked(leg) <= leg.startIn
<1> DEFINE leg == auction.plan.acquire[i]
           d == auction.plan.duration
           e == Elapsed
           gap == leg.startIn - leg.endIn
<1>1. /\ leg.startIn \in Nat /\ leg.endIn \in Nat /\ leg.startIn >= leg.endIn
      /\ d \in Nat \ {0}
  BY PlanLegs DEF AuctionInv, AuctionShape, AsOpened
<1>2. e \in Nat /\ e <= d
  <2>1. now \in Nat /\ auction.start \in Nat /\ auction.start <= now
    BY DEF AuctionInv, AuctionShape, AsOpened, VaultInv, FeesInv, FeesTypeOK, Auctions
  <2>2. e = now - auction.start /\ now <= auction.start + d
    BY DEF Elapsed, InTime
  <2> QED
    BY <1>1, <2>1, <2>2
<1>3. Asked(leg) = leg.startIn - (gap * e) \div d
  BY DEF Asked
<1>4. gap \in Nat
  BY <1>1
<1> HIDE DEF d, e
<1>5. (gap * e) \div d \in 0..gap
  <2> HIDE DEF gap
  <2> QED
    BY <1>1, <1>2, <1>4, FloorShare
<1> QED
  BY <1>1, <1>3, <1>5

(* The legs of a bid in time are legs.                                      *)
LEMMA BidLegs ==
  ASSUME AuctionInv, auction.active, InTime
  PROVE  /\ Len(CurrentAcquireIn) = Len(auction.plan.acquire)
         /\ \A i \in 1..Len(auction.plan.acquire) :
              /\ CurrentAcquireIn[i].token = auction.plan.acquire[i].token
              /\ CurrentAcquireIn[i].amount = Asked(auction.plan.acquire[i])
              /\ CurrentAcquireIn[i].token \in Tokens
              /\ CurrentAcquireIn[i].amount \in Nat
         /\ Len(CurrentRelease) = Len(auction.plan.release)
         /\ \A i \in 1..Len(auction.plan.release) :
              /\ CurrentRelease[i].token = auction.plan.release[i].token
              /\ CurrentRelease[i].amount = auction.plan.release[i].amount
              /\ CurrentRelease[i].minOut = auction.minOut[i]
              /\ CurrentRelease[i].token \in Tokens
              /\ CurrentRelease[i].amount \in Nat
<1> DEFINE p == auction.plan
<1>1. /\ Len(p.acquire) \in Nat /\ DOMAIN p.acquire = 1..Len(p.acquire)
      /\ Len(p.release) \in Nat /\ DOMAIN p.release = 1..Len(p.release)
      /\ \A i \in DOMAIN p.acquire : p.acquire[i].token \in Tokens
      /\ \A i \in DOMAIN p.release : p.release[i].token \in Tokens /\ p.release[i].amount \in Nat
  BY PlanLegs DEF AuctionInv, AuctionShape, AsOpened
<1>2. \A i \in DOMAIN p.acquire : Asked(p.acquire[i]) \in Nat
  BY AskedBounds
<1>3. Len(CurrentAcquireIn) = Len(p.acquire)
  BY <1>1 DEF CurrentAcquireIn
<1>4. Len(CurrentRelease) = Len(p.release)
  BY <1>1 DEF CurrentRelease
<1> QED
  BY <1>1, <1>2, <1>3, <1>4 DEF CurrentAcquireIn, CurrentRelease

(* The reward is clamped.                                                   *)
LEMMA RewardBounds ==
  ASSUME AuctionInv, NEW n \in Nat
  PROVE  /\ Reward(n) \in 0..shares[KeeperEscrow] /\ Reward(n) <= n
         /\ keeper.maxRewardPerCall # 0 => Reward(n) <= keeper.maxRewardPerCall
<1>1. shares[KeeperEscrow] \in Nat /\ keeper.maxRewardPerCall \in Nat
  BY FeeAssumption DEF AuctionInv, AuctionShape, VaultInv, FeesInv, FeesTypeOK, KeeperState
<1> QED
  BY <1>1 DEF Reward

-----------------------------------------------------------------------------
(* Steps of the auction.                                                    *)

(* The vault goes on as it does without an auction.                         *)
LEMMA VaultGoesOn ==
  ASSUME VaultInv, VaultOperation, \A t \in Tokens : coins'[t] <= MaxCoins
  PROVE  VaultInv'
<1>1. CASE \E b \in Switches : Grant("executor", b)
  <2>1. PICK b \in Switches : Grant("executor", b)
    BY <1>1
  <2>2. b \in BOOLEAN
    BY AuctionAssumption
  <2>3. grants' = [grants EXCEPT !["executor"] = b]
        /\ UNCHANGED <<fees, now, assets, target, gifts, exposure>>
    BY <2>1 DEF Grant
  <2>4. FeesInv'
    BY <2>3, FeesStay DEF VaultInv
  <2>5. grants' \in [executor : BOOLEAN, settler : BOOLEAN]
    BY <2>2, <2>3 DEF VaultInv
  <2>6. CustodyInv' /\ Solid(coins, claims)' /\ nextRecipe' = nextRecipe
    BY <2>3 DEF VaultInv, CustodyInv, Solid, assets, target
  <2> QED
    BY <2>4, <2>5, <2>6 DEF VaultInv
<1>2. CASE ~ \E b \in Switches : Grant("executor", b)
  <2> SUFFICES Next
    BY VaultStep
  <2>1. CASE FeeOperation /\ UNCHANGED <<assets, target, grants, gifts>>
    BY <2>1 DEF Next
  <2>2. CASE ShareOperation
    BY <2>2 DEF Next
  <2>3. CASE \E from, to \in Users : TransferShares(from, to, shares[from])
    BY <2>3, VaultAssumption DEF Next
  <2>4. CASE \E u \in Users, t \in Tokens, q \in Quantities :
               gifts[t] + q <= MaxGifts /\ Gift(u, t, q)
    BY <2>4 DEF Next, AssetOperation
  <2>5. CASE now < MaxNow /\ Tick
    BY <2>5 DEF Next
  <2> QED
    BY <1>2, <2>1, <2>2, <2>3, <2>4, <2>5 DEF VaultOperation
<1> QED
  BY <1>1, <1>2

LEMMA BidVault ==
  ASSUME AuctionInv, Bid
  PROVE  VaultInv'
<1>1. auction.active /\ InTime /\ Swap(CurrentAcquireIn, CurrentRelease)
  BY DEF Bid
<1>2. UNCHANGED <<supply, feeState, roles, now, target, grants, gifts, exposure>>
  BY DEF Bid
<1>3. CustodyInv' /\ Solid(coins', claims')
  <2>1. Len(auction.plan.acquire) \in Nat /\ Len(auction.plan.release) \in Nat
    BY <1>1, PlanLegs DEF AuctionInv, AuctionShape, AsOpened
  <2>2. /\ Len(CurrentAcquireIn) \in Nat /\ Len(CurrentRelease) \in Nat
        /\ \A i \in 1..Len(CurrentAcquireIn) :
             CurrentAcquireIn[i].token \in Tokens /\ CurrentAcquireIn[i].amount \in Nat
        /\ \A i \in 1..Len(CurrentRelease) :
             CurrentRelease[i].token \in Tokens /\ CurrentRelease[i].amount \in Nat
    BY <1>1, <2>1, BidLegs
  <2>3. CustodyInv /\ Solid(coins, claims) /\ UNCHANGED <<target, gifts>>
    BY <1>2 DEF AuctionInv, VaultInv
  <2> QED
    BY <1>1, <2>2, <2>3, SwapCustody, SwapSolid
<1>4. FeesInv'
  <2> DEFINE n == Reward(MaxTip)
  <2>1. n \in 0..shares[KeeperEscrow]
    BY RewardBounds, AuctionAssumption
  <2>2. /\ auction.opener \in Accounts /\ KeeperEscrow \in Accounts
        /\ auction.opener # KeeperEscrow
    BY <1>1, FeeAssumption DEF AuctionInv, AuctionShape, AsOpened
  <2>3. shares' = [shares EXCEPT ![KeeperEscrow] = @ - n, ![auction.opener] = @ + n]
    BY DEF Bid, Pay
  <2> HIDE DEF n
  <2>4. ChangeHands(KeeperEscrow, auction.opener, n)
    BY <1>2, <2>1, <2>2, <2>3 DEF ChangeHands
  <2> QED
    BY <2>2, <2>4, PaidFees DEF AuctionInv, VaultInv
<1>5. Solid(coins, claims)'
  BY <1>3 DEF Solid
<1> QED
  BY <1>2, <1>3, <1>4, <1>5 DEF AuctionInv, VaultInv, target

(* Whoever opens, the auction is as it was opened.                          *)
LEMMA OpenShape ==
  ASSUME AuctionInv, NEW who \in Accounts \ {KeeperEscrow}, NEW p \in Plans, Open(who, p)
  PROVE  AuctionInv'
<1>1. /\ auction' = [opener |-> who, start |-> now, active |-> TRUE, plan |-> p,
                     minOut |-> [i \in DOMAIN p.release |-> Floor(p.release[i])]]
      /\ atOpen' = coins /\ UNCHANGED <<vars, execMode, openAllow, keeper>>
  BY DEF Open
<1>2. /\ p.duration # 0 /\ Disjoint(p.acquire, p.release)
      /\ \A i \in DOMAIN p.acquire : p.acquire[i].startIn >= p.acquire[i].endIn
  BY DEF Open
<1>3. coins \in [Tokens -> Nat] /\ now \in Nat
  BY DEF AuctionInv, VaultInv, Solid, FeesInv, FeesTypeOK
<1>4. /\ Len(p.release) \in Nat /\ DOMAIN p.release = 1..Len(p.release)
      /\ \A i \in DOMAIN p.release : p.release[i].token \in Tokens /\ p.release[i].amount \in Nat
  BY PlanLegs
<1> DEFINE floors == [i \in DOMAIN p.release |-> Floor(p.release[i])]
<1>5. \A i \in DOMAIN p.release : Floor(p.release[i]) \in Nat
  BY <1>3, <1>4 DEF Floor
<1>6. floors \in Seq(Nat)
  BY <1>4, <1>5
<1>7. floors = [i \in DOMAIN p.release |-> FloorAt(coins, p.release[i])]
  BY DEF Floor, FloorAt
<1>8. VaultInv'
  <2>1. UNCHANGED vars
    BY <1>1
  <2> QED
    BY <2>1, VaultStep DEF AuctionInv
<1>9. now' = now
  BY <1>1 DEF vars
<1> HIDE DEF floors
<1>10. auction' = [opener |-> who, start |-> now, active |-> TRUE, plan |-> p, minOut |-> floors]
  BY <1>1 DEF floors
<1>11. AsOpened'
  BY <1>1, <1>2, <1>3, <1>7, <1>9, <1>10 DEF AsOpened, Disjoint, FloorAt
<1>12. auction' \in Auctions
  BY <1>3, <1>6, <1>10 DEF Auctions
<1>13. DOMAIN auction'.minOut = DOMAIN auction'.plan.release
  BY <1>7, <1>10
<1> QED
  BY <1>1, <1>3, <1>8, <1>11, <1>12, <1>13 DEF AuctionInv, AuctionShape

(* A step that leaves the auction alone leaves it as it was opened.         *)
LEMMA ShapeStays ==
  ASSUME AuctionShape, UNCHANGED <<auction, atOpen>>, now \in Nat, now' \in Nat, now <= now',
         execMode' \in ExecModes, openAllow' \subseteq Accounts, keeper' \in KeeperState
  PROVE  AuctionShape'
<1>1. auction.active => AsOpened'
  <2> SUFFICES ASSUME auction.active PROVE AsOpened'
    OBVIOUS
  <2>1. auction.start \in Nat /\ auction.start <= now /\ AsOpened
    BY DEF AuctionShape, AsOpened, Auctions
  <2>2. auction.start <= now'
    BY <2>1
  <2> QED
    BY <2>1, <2>2 DEF AsOpened, Disjoint, FloorAt
<1> QED
  BY <1>1 DEF AuctionShape

(* Time only goes forward.                                                  *)
LEMMA NowGrows ==
  ASSUME VaultInv, VaultOperation
  PROVE  now \in Nat /\ now' \in Nat /\ now <= now'
<1>1. now \in Nat
  BY DEF VaultInv, FeesInv, FeesTypeOK
<1>2. now' = now \/ now' = now + 1
  BY DEF VaultOperation, FeeOperation, AccrueFee, SetRate, ActivateRate, SetTreasury, Accept,
         Nominate, SetFeeToken, SetFlatFee, ShareOperation, Create, SettleCreate, CreateFirst,
         Bootstrap, MintAgainst, Redeem, Reissue, Issue, TransferShares, Gift, Others,
         Grant, Tick
<1> QED
  BY <1>1, <1>2

LEMMA AuctionIdle == AuctionInv /\ UNCHANGED <<vars, auctionState>> => AuctionInv'
<1> SUFFICES ASSUME AuctionInv, UNCHANGED <<vars, auctionState>> PROVE AuctionInv'
  OBVIOUS
<1>1. VaultInv'
  BY VaultStep DEF AuctionInv
<1>2. now' = now /\ now \in Nat
  BY DEF vars, AuctionInv, VaultInv, FeesInv, FeesTypeOK
<1>3. AuctionShape'
  BY <1>2, ShapeStays DEF AuctionInv, auctionState, AuctionShape
<1> QED
  BY <1>1, <1>3 DEF AuctionInv

LEMMA AuctionStep ==
  ASSUME AuctionInv, VaultOperation \/ AuctionOperation,
         \A t \in Tokens : coins'[t] <= MaxCoins
  PROVE  AuctionInv'
<1>1. CASE VaultOperation
  <2>1. VaultInv'
    BY <1>1, VaultGoesOn DEF AuctionInv
  <2>2. now \in Nat /\ now' \in Nat /\ now <= now'
    BY <1>1, NowGrows DEF AuctionInv
  <2>3. UNCHANGED auctionState
    BY <1>1 DEF VaultOperation
  <2>4. AuctionShape'
    BY <2>2, <2>3, ShapeStays DEF auctionState, AuctionInv, AuctionShape
  <2> QED
    BY <2>1, <2>4 DEF AuctionInv
<1>2. ASSUME UNCHANGED <<vars, auction, atOpen>>, execMode' \in ExecModes,
             openAllow' \subseteq Accounts, keeper' \in KeeperState
      PROVE  AuctionInv'
  <2>1. VaultInv'
    BY <1>2, VaultStep DEF AuctionInv
  <2>2. now' = now /\ now \in Nat
    BY <1>2 DEF vars, AuctionInv, VaultInv, FeesInv, FeesTypeOK
  <2>3. AuctionShape'
    BY <1>2, <2>2, ShapeStays DEF AuctionInv
  <2> QED
    BY <2>1, <2>3 DEF AuctionInv
<1>3. /\ execMode \in ExecModes /\ openAllow \subseteq Accounts /\ keeper \in KeeperState
      /\ Switches \subseteq BOOLEAN /\ Caps \subseteq Nat
      /\ Openers \subseteq Accounts \ {KeeperEscrow}
  BY AuctionAssumption DEF AuctionInv, AuctionShape
<1>4. CASE \E who \in Openers, m \in ExecModes : SetExecMode(who, m)
  BY <1>2, <1>3, <1>4 DEF SetExecMode
<1>5. CASE \E who, opener \in Openers, b \in Switches : SetOpenAllow(who, opener, b)
  BY <1>2, <1>3, <1>5 DEF SetOpenAllow
<1>6. CASE \E who \in Openers, p \in Plans : Open(who, p)
  BY <1>3, <1>6, OpenShape
<1>7. CASE Bid
  <2>1. VaultInv'
    BY <1>7, BidVault
  <2>2. auction' = [auction EXCEPT !.active = FALSE] /\ UNCHANGED <<execMode, openAllow, keeper, atOpen>>
    BY <1>7 DEF Bid
  <2>3. /\ auction' \in Auctions /\ ~auction'.active
        /\ DOMAIN auction'.minOut = DOMAIN auction'.plan.release
    BY <2>2 DEF AuctionInv, AuctionShape, Auctions
  <2>4. AuctionShape'
    BY <2>2, <2>3 DEF AuctionInv, AuctionShape
  <2> QED
    BY <2>1, <2>4 DEF AuctionInv
<1>8. CASE \E b \in Switches : SetExecutor(b)
  <2>1. PICK b \in Switches : SetExecutor(b)
    BY <1>8
  <2>2. keeper' \in KeeperState
    BY <1>3, <2>1 DEF SetExecutor, KeeperState
  <2> QED
    BY <1>2, <1>3, <2>1, <2>2 DEF SetExecutor
<1>9. CASE \E c \in Caps : SetMaxRewardPerCall(c)
  <2>1. PICK c \in Caps : SetMaxRewardPerCall(c)
    BY <1>9
  <2>2. keeper' \in KeeperState
    BY <1>3, <2>1 DEF SetMaxRewardPerCall, KeeperState
  <2> QED
    BY <1>2, <1>3, <2>1, <2>2 DEF SetMaxRewardPerCall
<1> QED
  BY <1>1, <1>4, <1>5, <1>6, <1>7, <1>8, <1>9 DEF AuctionOperation

LEMMA AuctionKept == AuctionInv /\ [AuctionNext]_<<vars, auctionState>> => AuctionInv'
BY AuctionStep, AuctionIdle DEF AuctionNext

(* Types hold through openings, fills and what the vault does meanwhile.    *)
THEOREM AuctionTyped == AuctionSpec => []AuctionTypeOK
BY AuctionStart, AuctionKept, AuctionInvIsStrong, PTL DEF AuctionSpec

-----------------------------------------------------------------------------
(* What a leg does to the coins and to the verdict.                         *)
LEMMA AcquireMoves ==
  ASSUME NEW c, Sane(c), NEW leg, leg.token \in Tokens
  PROVE  LET d == AcquireIn(c, leg)
         IN /\ Sane(d) /\ d.ok = c.ok
            /\ \A t \in Tokens :
                 d.coins[t] = IF t = leg.token THEN c.coins[t] + leg.amount ELSE c.coins[t]
<1> DEFINE m == MoreIn(c, leg)
<1>1. AcquireIn(c, leg) = AddHeld(m, leg.token) /\ Sane(AcquireIn(c, leg))
  BY AcquireIs, AcquireSane DEF Sane
<1>2. /\ m.coins = [c.coins EXCEPT ![leg.token] = c.coins[leg.token] + leg.amount]
      /\ m.ok = c.ok
  BY RecordFields DEF MoreIn
<1>3. DOMAIN c.coins = Tokens
  BY DEF Sane, IsRecord
<1>4. AddHeld(m, leg.token).coins = m.coins /\ AddHeld(m, leg.token).ok = m.ok
  <2> HIDE DEF m
  <2> QED
    BY DEF AddHeld
<1> HIDE DEF m
<1> QED
  BY <1>1, <1>2, <1>3, <1>4

LEMMA ReleaseMoves ==
  ASSUME gifts \in [Tokens -> Nat], NEW c, Sane(c), NEW leg, leg.token \in Tokens, leg.amount \in Nat
  PROVE  LET d == ReleaseOut(c, leg)
         IN /\ Sane(d)
            /\ d.ok <=> /\ c.ok /\ BackingIn(c, leg.token) >= leg.amount
                        /\ BackingIn(c, leg.token) - leg.amount >= leg.minOut
            /\ \A t \in Tokens :
                 d.coins[t] = IF t = leg.token THEN c.coins[t] - leg.amount ELSE c.coins[t]
<1> DEFINE m == LessIn(c, leg)
           x == [c.coins EXCEPT ![leg.token] = c.coins[leg.token] - leg.amount]
           y == [c.claims EXCEPT ![Vault] = [c.claims[Vault] EXCEPT ![leg.token] =
                   IF IsRegistry THEN c.claims[Vault][leg.token] - leg.amount
                                 ELSE c.claims[Vault][leg.token]]]
           ok == /\ c.ok /\ BackingIn(c, leg.token) >= leg.amount
                 /\ BackingIn(c, leg.token) - leg.amount >= leg.minOut
<1>1. ReleaseOut(c, leg) = PruneIfEmpty(m, leg.token) /\ Sane(ReleaseOut(c, leg))
  BY ReleaseIs, ReleaseSane DEF Sane, Custodians
<1>2. m.coins = x /\ m.ok = ok
  <2>1. m = Record(x, y, c.held, c.isHeld, ok)
    BY DEF LessIn
  <2> HIDE DEF m, x, y, ok
  <2> QED
    BY <2>1, RecordFields
<1>3. \A t \in Tokens : x[t] = IF t = leg.token THEN c.coins[t] - leg.amount ELSE c.coins[t]
  BY DEF Sane, IsRecord
<1>4. PruneIfEmpty(m, leg.token).coins = m.coins /\ PruneIfEmpty(m, leg.token).ok = m.ok
  <2> HIDE DEF m
  <2> QED
    BY DEF PruneIfEmpty
<1> HIDE DEF m, x, y
<1> QED
  BY <1>1, <1>2, <1>3, <1>4

(* Along the legs of a run, one at a time.                                  *)
LEMMA RunSteps ==
  ASSUME gifts \in [Tokens -> Nat], NEW kind \in {"acquire", "release"},
         NEW legs, NEW m \in Nat, NEW c, Sane(c),
         \A i \in 1..m : legs[i].token \in Tokens /\ legs[i].amount \in Nat,
         NEW f, IsRun(kind, legs, c, f, m)
  PROVE  /\ f[0] = c
         /\ \A n \in 0..m : Sane(f[n])
         /\ \A n \in 0..(m - 1) : f[n + 1] = Apply(kind, f[n], legs[n + 1])
<1>1. f[0] = c
  BY DEF IsRun
<1>2. ASSUME NEW n \in 0..(m - 1) PROVE f[n + 1] = Apply(kind, f[n], legs[n + 1])
  <2>1. n + 1 \in 0..m /\ n + 1 # 0 /\ (n + 1) - 1 = n
    OBVIOUS
  <2> QED
    BY <2>1 DEF IsRun
<1> DEFINE S == {n \in Nat : n <= m => Sane(f[n])}
<1>3. 0 \in S
  BY <1>1
<1>4. ASSUME NEW n \in Nat, n \in S PROVE n + 1 \in S
  <2> SUFFICES ASSUME n + 1 <= m PROVE Sane(f[n + 1])
    OBVIOUS
  <2>1. Sane(f[n]) /\ n + 1 \in 1..m /\ n \in 0..(m - 1)
    BY <1>4
  <2>2. f[n + 1] = Apply(kind, f[n], legs[n + 1])
    BY <1>2, <2>1
  <2>3. /\ Sane(AcquireIn(f[n], legs[n + 1]))
        /\ Sane(ReleaseOut(f[n], legs[n + 1]))
    BY <2>1, AcquireSane, ReleaseSane
  <2> QED
    BY <2>2, <2>3 DEF Apply
<1> HIDE DEF S
<1>5. \A n \in Nat : n \in S
  BY <1>3, <1>4, SetInduction
<1> QED
  BY <1>1, <1>2, <1>5 DEF S

-----------------------------------------------------------------------------
(* A plan whose released tokens are still there goes through: what comes in *)
(* is of other tokens, and each release finds its own balance untouched.    *)
AreLegs(legs, m) == \A i \in 1..m : legs[i].token \in Tokens /\ legs[i].amount \in Nat

Untouched(legs, m, t) == \A i \in 1..m : legs[i].token # t

Brought(c, d, legs, m) ==
  /\ Sane(d) /\ (c.ok => d.ok)
  /\ \A t \in Tokens : Untouched(legs, m, t) => d.coins[t] = c.coins[t]

LEMMA AcquiresPass ==
  ASSUME gifts \in [Tokens -> Nat], NEW legs, NEW m \in Nat, NEW c, Sane(c), AreLegs(legs, m),
         NEW f, IsRun("acquire", legs, c, f, m)
  PROVE  Brought(c, f[m], legs, m)
<1>1. /\ f[0] = c
      /\ \A n \in 0..m : Sane(f[n])
      /\ \A n \in 0..(m - 1) : f[n + 1] = AcquireIn(f[n], legs[n + 1])
  BY RunSteps DEF Apply, AreLegs
<1> DEFINE S == {n \in Nat : n <= m =>
                   /\ c.ok => f[n].ok
                   /\ \A t \in Tokens : Untouched(legs, m, t) => f[n].coins[t] = c.coins[t]}
<1>2. 0 \in S
  BY <1>1
<1>3. ASSUME NEW n \in Nat, n \in S PROVE n + 1 \in S
  <2> SUFFICES ASSUME n + 1 <= m
               PROVE  /\ c.ok => f[n + 1].ok
                      /\ \A t \in Tokens : Untouched(legs, m, t) => f[n + 1].coins[t] = c.coins[t]
    OBVIOUS
  <2>1. n \in 0..(m - 1) /\ n \in 0..m /\ n + 1 \in 1..m
    OBVIOUS
  <2>2. /\ f[n + 1].ok = f[n].ok
        /\ \A t \in Tokens : t # legs[n + 1].token => f[n + 1].coins[t] = f[n].coins[t]
    BY <1>1, <2>1, AcquireMoves DEF AreLegs
  <2> QED
    BY <1>3, <2>1, <2>2 DEF Untouched
<1> HIDE DEF S
<1>4. m \in S
  BY <1>2, <1>3, SetInduction
<1>5. m \in 0..m
  OBVIOUS
<1> QED
  BY <1>1, <1>4, <1>5 DEF S, Brought

(* What comes into the vault leaves alone the tokens no leg brings.         *)
LEMMA CustodyAcquires ==
  ASSUME AuctionInv, NEW legs, NEW m \in Nat,
         AreLegs(legs, m),
         NEW f, IsRun("acquire", legs, Custody, f, m)
  PROVE  Brought(Custody, f[m], legs, m) /\ Firm(f[m])
<1>1. gifts \in [Tokens -> Nat] /\ Solid(coins, claims)
  BY DEF AuctionInv, VaultInv, CustodyInv
<1>2. Sane(Custody) /\ Custody.ok /\ Custody.coins = coins /\ Custody.claims = claims
  BY CustodySane DEF AuctionInv, VaultInv, Custody
<1>3. Firm(Custody)
  BY <1>1, <1>2 DEF Firm
<1>4. PICK c : c = Custody
  OBVIOUS
<1>5. /\ Sane(c) /\ c.ok /\ c.coins = coins
      /\ Firm(c) /\ IsRun("acquire", legs, c, f, m)
  BY <1>2, <1>3, <1>4
<1>6. Brought(c, f[m], legs, m)
  BY <1>1, <1>5, AcquiresPass
<1>7. Firm(f[m])
  BY <1>1, <1>5, RunFirm DEF AreLegs
<1> QED
  BY <1>4, <1>6, <1>7

LEMMA ReleasesPass ==
  ASSUME gifts \in [Tokens -> Nat], ~IsRegistry,
         NEW legs, NEW m \in Nat, NEW c, Sane(c), c.ok,
         \A t \in Tokens : c.coins[t] \in Int,
         \A i \in 1..m : /\ legs[i].token \in Tokens /\ legs[i].amount \in Nat
                         /\ c.coins[legs[i].token] >= legs[i].amount
                         /\ c.coins[legs[i].token] - legs[i].amount >= legs[i].minOut,
         \A i, j \in 1..m : legs[i].token = legs[j].token => i = j,
         NEW f, IsRun("release", legs, c, f, m)
  PROVE  f[m].ok
<1>1. /\ f[0] = c
      /\ \A n \in 0..m : Sane(f[n])
      /\ \A n \in 0..(m - 1) : f[n + 1] = ReleaseOut(f[n], legs[n + 1])
  BY RunSteps DEF Apply
<1> DEFINE S == {n \in Nat : n <= m =>
                   /\ f[n].ok
                   /\ \A i \in 1..m : i > n => f[n].coins[legs[i].token] = c.coins[legs[i].token]}
<1>2. 0 \in S
  BY <1>1
<1>3. ASSUME NEW n \in Nat, n \in S PROVE n + 1 \in S
  <2> SUFFICES ASSUME n + 1 <= m
               PROVE  /\ f[n + 1].ok
                      /\ \A i \in 1..m : i > n + 1 =>
                           f[n + 1].coins[legs[i].token] = c.coins[legs[i].token]
    OBVIOUS
  <2> DEFINE leg == legs[n + 1]
  <2>1. n \in 0..(m - 1) /\ n \in 0..m /\ n + 1 \in 1..m /\ n + 1 > n
    OBVIOUS
  <2>2. /\ f[n].ok /\ f[n].coins[leg.token] = c.coins[leg.token]
        /\ \A i \in 1..m : i > n => f[n].coins[legs[i].token] = c.coins[legs[i].token]
    BY <1>3, <2>1
  <2>3. /\ leg.token \in Tokens /\ leg.amount \in Nat
        /\ c.coins[leg.token] >= leg.amount /\ c.coins[leg.token] - leg.amount >= leg.minOut
    BY <2>1
  <2>4. BackingIn(f[n], leg.token) = c.coins[leg.token]
    BY <2>2 DEF BackingIn
  <2>5. \A i \in 1..m : i > n + 1 => legs[i].token \in Tokens /\ legs[i].token # leg.token
    BY <2>1
  <2> HIDE DEF leg
  <2>6. f[n + 1] = ReleaseOut(f[n], leg) /\ Sane(f[n])
    BY <1>1, <2>1 DEF leg
  <2>7. /\ f[n + 1].ok <=> /\ f[n].ok /\ BackingIn(f[n], leg.token) >= leg.amount
                           /\ BackingIn(f[n], leg.token) - leg.amount >= leg.minOut
        /\ \A t \in Tokens : t # leg.token => f[n + 1].coins[t] = f[n].coins[t]
    BY <2>3, <2>6, ReleaseMoves
  <2>8. f[n + 1].ok
    BY <2>2, <2>3, <2>4, <2>7
  <2>9. ASSUME NEW i \in 1..m, i > n + 1
        PROVE  f[n + 1].coins[legs[i].token] = c.coins[legs[i].token]
    <3>1. i > n
      BY <2>9
    <3>2. f[n + 1].coins[legs[i].token] = f[n].coins[legs[i].token]
      BY <2>5, <2>7, <2>9
    <3> QED
      BY <2>2, <3>1, <3>2
  <2> QED
    BY <2>8, <2>9
<1> HIDE DEF S
<1>4. m \in S
  BY <1>2, <1>3, SetInduction
<1> QED
  BY <1>4 DEF S

LEMMA PlanPasses == AuctionInv => FillableUntilTouched
<1> DEFINE p == auction.plan
           m == Len(p.acquire)
           n == Len(p.release)
           c == InOrder(AcquireIn, CurrentAcquireIn, Custody)
           d == InOrder(ReleaseOut, CurrentRelease, c)
<1> SUFFICES ASSUME AuctionInv, ~IsRegistry, auction.active, InTime,
                    \A i, j \in DOMAIN p.release :
                      p.release[i].token = p.release[j].token => i = j,
                    \A i \in DOMAIN p.release :
                      /\ p.release[i].amount <= atOpen[p.release[i].token]
                      /\ coins[p.release[i].token] >= atOpen[p.release[i].token]
             PROVE  Disjoint(CurrentAcquireIn, CurrentRelease) /\ d.ok
  BY DEF FillableUntilTouched, Swapped
<1>1. AsOpened /\ gifts \in [Tokens -> Nat] /\ coins \in [Tokens -> Nat] /\ atOpen \in [Tokens -> Nat]
  BY DEF AuctionInv, AuctionShape, VaultInv, CustodyInv, Solid
<1>2. /\ m \in Nat /\ DOMAIN p.acquire = 1..m /\ n \in Nat /\ DOMAIN p.release = 1..n
      /\ \A i \in 1..n : p.release[i].token \in Tokens /\ p.release[i].amount \in Nat
  BY <1>1, PlanLegs DEF AsOpened
<1>3. /\ Len(CurrentAcquireIn) = m /\ Len(CurrentRelease) = n
      /\ \A i \in 1..m : /\ CurrentAcquireIn[i].token = p.acquire[i].token
                         /\ CurrentAcquireIn[i].token \in Tokens /\ CurrentAcquireIn[i].amount \in Nat
      /\ \A i \in 1..n : /\ CurrentRelease[i].token = p.release[i].token
                         /\ CurrentRelease[i].amount = p.release[i].amount
                         /\ CurrentRelease[i].minOut = auction.minOut[i]
  BY BidLegs
<1>4. \A i \in 1..m, j \in 1..n : CurrentAcquireIn[i].token # CurrentRelease[j].token
  <2>1. \A i \in 1..m, j \in 1..n : p.acquire[i].token # p.release[j].token
    BY <1>1, <1>2 DEF AsOpened, Disjoint
  <2> HIDE DEF p
  <2> QED
    BY <1>3, <2>1
<1>5. Disjoint(CurrentAcquireIn, CurrentRelease)
  <2>1. DOMAIN CurrentAcquireIn = 1..m /\ DOMAIN CurrentRelease = 1..n
    BY <1>2 DEF CurrentAcquireIn, CurrentRelease
  <2> QED
    BY <1>4, <2>1 DEF Disjoint
<1>6. ASSUME NEW i \in 1..n
      PROVE  LET t == p.release[i].token
             IN /\ coins[t] >= p.release[i].amount
                /\ coins[t] - p.release[i].amount >= auction.minOut[i]
  <2> DEFINE leg == p.release[i]
  <2>1. /\ auction.minOut[i] = FloorAt(atOpen, leg)
        /\ leg.token \in Tokens /\ leg.amount \in Nat
        /\ leg.amount <= atOpen[leg.token] /\ coins[leg.token] >= atOpen[leg.token]
    BY <1>1, <1>2 DEF AsOpened
  <2>2. atOpen[leg.token] \in Nat /\ coins[leg.token] \in Nat
    BY <1>1, <2>1
  <2> HIDE DEF leg
  <2>3. coins[leg.token] >= leg.amount /\ coins[leg.token] - leg.amount >= auction.minOut[i]
    BY <2>1, <2>2 DEF FloorAt
  <2> QED
    BY <2>3 DEF leg
<1> HIDE DEF m, n, d
<1>7. /\ Sane(c) /\ c.ok
      /\ \A i \in 1..n : c.coins[p.release[i].token] = coins[p.release[i].token]
      /\ \A t \in Tokens : c.coins[t] \in Int
  <2>1. PICK f : IsRun("acquire", CurrentAcquireIn, Custody, f, m) /\ c = f[m]
    BY <1>2, <1>3, AcquireRuns
  <2>2. AreLegs(CurrentAcquireIn, m)
    BY <1>3 DEF AreLegs
  <2> HIDE DEF c, p
  <2>3. Brought(Custody, c, CurrentAcquireIn, m) /\ Firm(c)
    BY <1>2, <2>1, <2>2, CustodyAcquires
  <2>4. Custody.ok /\ Custody.coins = coins
    BY DEF Custody
  <2>5. /\ Sane(c) /\ c.ok /\ c.coins \in [Tokens -> Nat]
        /\ \A t \in Tokens : Untouched(CurrentAcquireIn, m, t) => c.coins[t] = coins[t]
    BY <2>3, <2>4 DEF Brought, Firm, Solid
  <2>6. \A i \in 1..n : /\ p.release[i].token \in Tokens
                        /\ Untouched(CurrentAcquireIn, m, p.release[i].token)
    BY <1>2, <1>3, <1>4 DEF Untouched
  <2> QED
    BY <2>5, <2>6
<1> HIDE DEF c
<1>8. PICK f : IsRun("release", CurrentRelease, c, f, n) /\ d = f[n]
  BY <1>2, <1>3, ReleaseRuns DEF d
<1>9. \A i \in 1..n : /\ CurrentRelease[i].token \in Tokens /\ CurrentRelease[i].amount \in Nat
                      /\ c.coins[CurrentRelease[i].token] >= CurrentRelease[i].amount
                      /\ c.coins[CurrentRelease[i].token] - CurrentRelease[i].amount
                           >= CurrentRelease[i].minOut
  <2> TAKE i \in 1..n
  <2> DEFINE leg == p.release[i]
  <2>1. /\ CurrentRelease[i].token = leg.token /\ CurrentRelease[i].amount = leg.amount
        /\ CurrentRelease[i].minOut = auction.minOut[i]
    BY <1>3
  <2>2. leg.token \in Tokens /\ leg.amount \in Nat
    BY <1>2
  <2>3. coins[leg.token] >= leg.amount /\ coins[leg.token] - leg.amount >= auction.minOut[i]
    BY <1>6
  <2>4. c.coins[leg.token] = coins[leg.token]
    BY <1>7
  <2> HIDE DEF leg
  <2> QED
    BY <2>1, <2>2, <2>3, <2>4
<1>10. \A i, j \in 1..n : CurrentRelease[i].token = CurrentRelease[j].token => i = j
  <2>1. \A i, j \in 1..n : p.release[i].token = p.release[j].token => i = j
    BY <1>2
  <2>2. \A i \in 1..n : CurrentRelease[i].token = p.release[i].token
    BY <1>3
  <2> HIDE DEF p, n
  <2> QED
    BY <2>1, <2>2
<1>11. d.ok
  BY <1>1, <1>2, <1>7, <1>8, <1>9, <1>10, ReleasesPass
<1> QED
  BY <1>5, <1>11

(* The floor never stands in the way of a bid on a managed vault that still *)
(* has what it had, whoever created into it and whatever fees accrued.      *)
THEOREM PlansStayFillable == AuctionSpec => []FillableUntilTouched
BY AuctionStart, AuctionKept, PlanPasses, PTL DEF AuctionSpec

-----------------------------------------------------------------------------
(* What a fill moves of a token is what its legs come to.                   *)
Along(h, m, S, f) ==
  /\ \A k \in 0..m : h[k] \in Int
  /\ h[0] = 0 /\ h[m] = SumOver(f, S)
  /\ \A k \in 1..m : h[k] = h[k - 1] + (IF k \in S THEN f[k] ELSE 0)

LEMMA SumAlong ==
  ASSUME NEW m \in Nat, NEW S \in SUBSET (1..m), NEW f, \A i \in S : f[i] \in Int
  PROVE  \E h : Along(h, m, S, f)
<1> DEFINE upto(k) == [i \in S |-> IF i <= k THEN f[i] ELSE 0]
           h == [k \in 0..m |-> SumOver(upto(k), S)]
<1>1. IsFiniteSet(S)
  <2>1. IsFiniteSet(1..m)
    BY FS_Interval
  <2> QED
    BY <2>1, FS_Subset
<1>2. \A k \in 0..m : \A i \in S : upto(k)[i] \in Int
  OBVIOUS
<1>3. \A k \in 0..m : h[k] = SumOver(upto(k), S)
  OBVIOUS
<1>4. h[0] = 0
  <2>1. \A i \in S : upto(0)[i] = 0
    OBVIOUS
  <2> HIDE DEF upto
  <2>2. SumOver(upto(0), S) = 0
    BY <1>1, <2>1, SumZero
  <2> QED
    BY <1>3, <2>2
<1>5. ASSUME NEW k \in 1..m
      PROVE  h[k] \in Int /\ h[k - 1] \in Int /\ h[k] = h[k - 1] + (IF k \in S THEN f[k] ELSE 0)
  <2>1. k - 1 \in 0..m /\ k \in 0..m
    OBVIOUS
  <2>2. /\ \A i \in S : upto(k - 1)[i] \in Int /\ upto(k)[i] \in Int
        /\ \A i \in S \ {k} : upto(k)[i] = upto(k - 1)[i]
        /\ k \in S => upto(k)[k] = f[k] /\ upto(k - 1)[k] = 0
    OBVIOUS
  <2>3. k \in S => f[k] \in Int
    OBVIOUS
  <2> DEFINE a == upto(k - 1)
             b == upto(k)
  <2>4. h[k] = SumOver(b, S) /\ h[k - 1] = SumOver(a, S)
    BY <1>3, <2>1
  <2>5. /\ \A i \in S : a[i] \in Int /\ b[i] \in Int
        /\ \A i \in S \ {k} : b[i] = a[i]
        /\ k \in S => b[k] = f[k] /\ a[k] = 0
    BY <2>2
  <2> HIDE DEF upto, h, a, b
  <2>6. /\ SumOver(a, S) \in Int /\ SumOver(b, S) \in Int
        /\ SumOver(b, S) = IF k \in S THEN SumOver(a, S) + (b[k] - a[k]) ELSE SumOver(a, S)
    BY <1>1, <2>5, SumChange
  <2> QED
    BY <2>3, <2>4, <2>5, <2>6
<1>6. h[m] = SumOver(f, S)
  <2> DEFINE b == upto(m)
  <2>1. /\ \A i \in S : b[i] \in Int /\ f[i] \in Int
        /\ \A i \in S \ {0} : b[i] = f[i]
        /\ 0 \notin S
    OBVIOUS
  <2>2. h[m] = SumOver(b, S)
    BY <1>3
  <2> HIDE DEF upto, h, b
  <2>3. SumOver(b, S) = IF 0 \in S THEN SumOver(f, S) + (b[0] - f[0]) ELSE SumOver(f, S)
    BY <1>1, <2>1, SumChange
  <2> QED
    BY <2>1, <2>2, <2>3
<1>7. \A k \in 0..m : h[k] \in Int
  <2> TAKE k \in 0..m
  <2>1. CASE k = 0
    BY <1>4, <2>1
  <2>2. CASE k # 0
    <3>1. k \in 1..m
      BY <2>2
    <3> HIDE DEF h
    <3> QED
      BY <1>5, <3>1
  <2> QED
    BY <2>1, <2>2
<1> HIDE DEF h
<1> QED
  BY <1>4, <1>5, <1>6, <1>7 DEF Along

(* What climbs faster at every step climbs further.                         *)
LEMMA Climbs ==
  ASSUME NEW m \in Nat, NEW h, NEW u, NEW w, \A k \in 0..m : h[k] \in Int, u[0] \in Int,
         \A k \in 1..m : /\ w[k] \in Int /\ w[k] >= h[k] - h[k - 1]
                         /\ u[k - 1] \in Int => u[k] = u[k - 1] + w[k]
  PROVE  u[m] \in Int /\ u[m] - u[0] >= h[m] - h[0]
<1> DEFINE S == {n \in Nat : n <= m => u[n] \in Int /\ u[n] - u[0] >= h[n] - h[0]}
<1>1. 0 \in S
  OBVIOUS
<1>2. ASSUME NEW n \in Nat, n \in S PROVE n + 1 \in S
  <2> SUFFICES ASSUME n + 1 <= m PROVE u[n + 1] \in Int /\ u[n + 1] - u[0] >= h[n + 1] - h[0]
    OBVIOUS
  <2>1. n + 1 \in 1..m /\ (n + 1) - 1 = n
    OBVIOUS
  <2>2. u[n] \in Int /\ u[n] - u[0] >= h[n] - h[0]
    BY <1>2
  <2>3. w[n + 1] \in Int /\ u[n + 1] = u[n] + w[n + 1] /\ w[n + 1] >= h[n + 1] - h[n]
    BY <2>1, <2>2
  <2>4. h[n] \in Int /\ h[n + 1] \in Int /\ h[0] \in Int
    BY <2>1
  <2> QED
    BY <2>2, <2>3, <2>4
<1> HIDE DEF S
<1>3. m \in S
  BY <1>1, <1>2, SetInduction
<1> QED
  BY <1>3 DEF S

(* A sum is what any of its runs ends with.                                  *)
LEMMA RunGives ==
  ASSUME NEW S, IsFiniteSet(S), NEW f, NEW it, SumRun(f, it, S)
  PROVE  it[S] = SumOver(f, S)
<1>1. PICK jt : SumRun(f, jt, S) /\ SumOver(f, S) = jt[S]
  BY SumIs
<1> QED
  BY <1>1, SameSum

LEMMA LegsFinite ==
  ASSUME NEW legs, NEW m \in Nat, DOMAIN legs = 1..m, NEW t
  PROVE  IsFiniteSet({i \in DOMAIN legs : legs[i].token = t})
<1>1. IsFiniteSet(1..m)
  BY FS_Interval
<1>2. {i \in DOMAIN legs : legs[i].token = t} \subseteq 1..m
  OBVIOUS
<1> QED
  BY <1>1, <1>2, FS_Subset

(* What a plan releases of a token and asks for it, as sums over its legs.  *)
LEMMA ReleasedIs ==
  ASSUME NEW p \in Plans, NEW t
  PROVE  LET S == {i \in DOMAIN p.release : p.release[i].token = t}
         IN Released(p, t) = SumOver([i \in S |-> p.release[i].amount], S)
<1> DEFINE legs == p.release
           S == {i \in DOMAIN legs : legs[i].token = t}
           f == [i \in S |-> legs[i].amount]
           Is(it) == it = [s \in SUBSET S |->
             IF s = {} THEN 0
             ELSE legs[CHOOSE x \in s : TRUE].amount + it[s \ {CHOOSE x \in s : TRUE}]]
           run == CHOOSE it : Is(it)
<1>1. IsFiniteSet(S)
  BY PlanLegs, LegsFinite
<1>2. \A s \in SUBSET S : s # {} => f[AnyOf(s)] = legs[AnyOf(s)].amount
  BY AnyOfIsIn
<1>3. Released(p, t) = run[S]
  BY DEF Released, MapThenSumSet, MapThenFoldSet
<1> HIDE DEF S, f, legs
<1>4. \A it : SumRun(f, it, S) <=> Is(it)
  BY <1>2 DEF SumRun, AnyOf
<1>5. SumRun(f, run, S)
  <2>1. \E it : Is(it)
    <3> HIDE DEF Is
    <3> QED
      BY <1>1, <1>4, SumExists
  <2>2. Is(run)
    <3> HIDE DEF Is
    <3> QED
      BY <2>1
  <2> QED
    BY <1>4, <2>2
<1> HIDE DEF run, Is
<1>6. Released(p, t) = SumOver(f, S)
  BY <1>1, <1>3, <1>5, RunGives
<1> QED
  BY <1>6 DEF f, S, legs

LEMMA AtLeastIs ==
  ASSUME NEW p \in Plans, NEW t
  PROVE  LET S == {i \in DOMAIN p.acquire : p.acquire[i].token = t}
         IN AtLeast(p, t) = SumOver([i \in S |-> p.acquire[i].endIn], S)
<1> DEFINE legs == p.acquire
           S == {i \in DOMAIN legs : legs[i].token = t}
           f == [i \in S |-> legs[i].endIn]
           Is(it) == it = [s \in SUBSET S |->
             IF s = {} THEN 0
             ELSE legs[CHOOSE x \in s : TRUE].endIn + it[s \ {CHOOSE x \in s : TRUE}]]
           run == CHOOSE it : Is(it)
<1>1. IsFiniteSet(S)
  BY PlanLegs, LegsFinite
<1>2. \A s \in SUBSET S : s # {} => f[AnyOf(s)] = legs[AnyOf(s)].endIn
  BY AnyOfIsIn
<1>3. AtLeast(p, t) = run[S]
  BY DEF AtLeast, MapThenSumSet, MapThenFoldSet
<1> HIDE DEF S, f, legs
<1>4. \A it : SumRun(f, it, S) <=> Is(it)
  BY <1>2 DEF SumRun, AnyOf
<1>5. SumRun(f, run, S)
  <2>1. \E it : Is(it)
    <3> HIDE DEF Is
    <3> QED
      BY <1>1, <1>4, SumExists
  <2>2. Is(run)
    <3> HIDE DEF Is
    <3> QED
      BY <2>1
  <2> QED
    BY <1>4, <2>2
<1> HIDE DEF run, Is
<1>6. AtLeast(p, t) = SumOver(f, S)
  BY <1>1, <1>3, <1>5, RunGives
<1> QED
  BY <1>6 DEF f, S, legs

(* The legs of a token.                                                     *)
On(legs, m, t) == {i \in 1..m : legs[i].token = t}

NoMore(S, least, legs) == \A i \in S : least[i] \in Int /\ least[i] <= legs[i].amount

(* What a run of acquiring legs brings of a token, if each brings so much.  *)
LEMMA RunBrings ==
  ASSUME gifts \in [Tokens -> Nat], NEW legs, NEW m \in Nat, NEW c, Sane(c), AreLegs(legs, m),
         NEW f, IsRun("acquire", legs, c, f, m), NEW t \in Tokens, c.coins[t] \in Int,
         NEW S, S = On(legs, m, t), NEW least, NoMore(S, least, legs)
  PROVE  f[m].coins[t] \in Int /\ f[m].coins[t] - c.coins[t] >= SumOver(least, S)
<1>1. /\ f[0] = c
      /\ \A n \in 0..m : Sane(f[n])
      /\ \A n \in 0..(m - 1) : f[n + 1] = AcquireIn(f[n], legs[n + 1])
  BY RunSteps DEF Apply, AreLegs
<1>2. S \in SUBSET (1..m)
  BY DEF On
<1>3. PICK h : Along(h, m, S, least)
  BY <1>2, SumAlong DEF NoMore
<1> DEFINE u == [k \in 0..m |-> f[k].coins[t]]
           w == [k \in 1..m |-> IF k \in S THEN legs[k].amount ELSE 0]
<1>4. ASSUME NEW k \in 1..m
      PROVE  /\ w[k] \in Int /\ w[k] >= h[k] - h[k - 1]
             /\ u[k - 1] \in Int => u[k] = u[k - 1] + w[k]
  <2>1. k - 1 \in 0..(m - 1) /\ k - 1 \in 0..m /\ k \in 0..m /\ (k - 1) + 1 = k
    OBVIOUS
  <2>2. f[k] = AcquireIn(f[k - 1], legs[k]) /\ Sane(f[k - 1])
    BY <1>1, <2>1
  <2>3. legs[k].token \in Tokens /\ legs[k].amount \in Nat
    BY DEF AreLegs
  <2>4. f[k].coins[t] = IF t = legs[k].token THEN f[k - 1].coins[t] + legs[k].amount
                                             ELSE f[k - 1].coins[t]
    BY <2>2, <2>3, AcquireMoves
  <2>5. k \in S <=> t = legs[k].token
    BY DEF On
  <2>6. h[k] \in Int /\ h[k - 1] \in Int /\ h[k] = h[k - 1] + (IF k \in S THEN least[k] ELSE 0)
    BY <1>3, <2>1 DEF Along
  <2>7. k \in S => least[k] \in Int /\ least[k] <= legs[k].amount
    BY DEF NoMore
  <2>8. w[k] = (IF k \in S THEN legs[k].amount ELSE 0) /\ w[k] \in Int
    BY <2>3
  <2>9. w[k] >= h[k] - h[k - 1]
    <3> HIDE DEF w
    <3> QED
      BY <2>3, <2>6, <2>7, <2>8
  <2>10. u[k] = f[k].coins[t] /\ u[k - 1] = f[k - 1].coins[t]
    BY <2>1
  <2>11. CASE t = legs[k].token
    <3> HIDE DEF u, w
    <3> QED
      BY <2>4, <2>5, <2>8, <2>9, <2>10, <2>11
  <2>12. CASE t # legs[k].token
    <3>1. w[k] = 0 /\ f[k].coins[t] = f[k - 1].coins[t]
      BY <2>4, <2>5, <2>8, <2>12
    <3> QED
      BY <2>8, <2>9, <2>10, <3>1
  <2> QED
    BY <2>11, <2>12
<1>5. u[0] = c.coins[t] /\ u[m] = f[m].coins[t] /\ u[0] \in Int
  BY <1>1
<1> HIDE DEF u, w
<1>6. u[m] \in Int /\ u[m] - u[0] >= h[m] - h[0]
  BY <1>3, <1>4, <1>5, Climbs DEF Along
<1> QED
  BY <1>3, <1>5, <1>6 DEF Along

Exactly(S, taken, legs) == \A i \in S : taken[i] = legs[i].amount

(* What a run of releasing legs takes of a token.                           *)
LEMMA RunTakes ==
  ASSUME gifts \in [Tokens -> Nat], NEW legs, NEW m \in Nat, NEW c, Sane(c), AreLegs(legs, m),
         NEW f, IsRun("release", legs, c, f, m), NEW t \in Tokens, c.coins[t] \in Int,
         NEW S, S = On(legs, m, t), NEW taken, Exactly(S, taken, legs)
  PROVE  f[m].coins[t] \in Int /\ f[m].coins[t] - c.coins[t] >= -SumOver(taken, S)
<1>1. /\ f[0] = c
      /\ \A n \in 0..m : Sane(f[n])
      /\ \A n \in 0..(m - 1) : f[n + 1] = ReleaseOut(f[n], legs[n + 1])
  BY RunSteps DEF Apply, AreLegs
<1>2. S \in SUBSET (1..m)
  BY DEF On
<1>3. PICK h : Along(h, m, S, taken)
  <2>1. \A i \in S : taken[i] \in Int
    BY <1>2 DEF AreLegs, Exactly
  <2> QED
    BY <1>2, <2>1, SumAlong
<1> DEFINE g == [k \in 0..m |-> -h[k]]
           u == [k \in 0..m |-> f[k].coins[t]]
           w == [k \in 1..m |-> IF k \in S THEN -legs[k].amount ELSE 0]
<1>4. ASSUME NEW k \in 1..m
      PROVE  /\ w[k] \in Int /\ w[k] >= g[k] - g[k - 1]
             /\ u[k - 1] \in Int => u[k] = u[k - 1] + w[k]
  <2>1. k - 1 \in 0..(m - 1) /\ k - 1 \in 0..m /\ k \in 0..m /\ (k - 1) + 1 = k
    OBVIOUS
  <2>2. f[k] = ReleaseOut(f[k - 1], legs[k]) /\ Sane(f[k - 1])
    BY <1>1, <2>1
  <2>3. legs[k].token \in Tokens /\ legs[k].amount \in Nat
    BY DEF AreLegs
  <2>4. f[k].coins[t] = IF t = legs[k].token THEN f[k - 1].coins[t] - legs[k].amount
                                             ELSE f[k - 1].coins[t]
    BY <2>2, <2>3, ReleaseMoves
  <2>5. k \in S <=> t = legs[k].token
    BY DEF On
  <2>6. h[k] \in Int /\ h[k - 1] \in Int /\ h[k] = h[k - 1] + (IF k \in S THEN taken[k] ELSE 0)
    BY <1>3, <2>1 DEF Along
  <2>7. /\ k \in S => taken[k] = legs[k].amount
        /\ g[k] = -h[k] /\ g[k - 1] = -h[k - 1]
    BY <2>1 DEF Exactly
  <2>8. w[k] = (IF k \in S THEN -legs[k].amount ELSE 0) /\ w[k] \in Int
    BY <2>3
  <2>9. w[k] >= g[k] - g[k - 1]
    <3> HIDE DEF w, g
    <3> QED
      BY <2>3, <2>6, <2>7, <2>8
  <2>10. u[k] = f[k].coins[t] /\ u[k - 1] = f[k - 1].coins[t]
    BY <2>1
  <2>11. CASE t = legs[k].token
    <3> HIDE DEF u, w
    <3> QED
      BY <2>4, <2>5, <2>8, <2>9, <2>10, <2>11
  <2>12. CASE t # legs[k].token
    <3>1. w[k] = 0 /\ f[k].coins[t] = f[k - 1].coins[t]
      BY <2>4, <2>5, <2>8, <2>12
    <3> QED
      BY <2>8, <2>9, <2>10, <3>1
  <2> QED
    BY <2>11, <2>12
<1>5. u[0] = c.coins[t] /\ u[m] = f[m].coins[t] /\ u[0] \in Int
  BY <1>1
<1>6. /\ \A k \in 0..m : g[k] \in Int
      /\ g[0] = 0 /\ g[m] = -h[m] /\ h[m] \in Int
  BY <1>3 DEF Along
<1> HIDE DEF u, w, g
<1>7. u[m] \in Int /\ u[m] - u[0] >= g[m] - g[0]
  BY <1>4, <1>5, <1>6, Climbs
<1> QED
  BY <1>3, <1>5, <1>6, <1>7 DEF Along

(* A bid brings at least what the plan asks for at its end, and takes no    *)
(* more than the plan releases.                                             *)
LEMMA BidMoves ==
  ASSUME AuctionInv, Bid, NEW t \in Tokens
  PROVE  coins'[t] - coins[t] >= AtLeast(auction.plan, t) - Released(auction.plan, t)
<1> DEFINE p == auction.plan
           m == Len(p.acquire)
           n == Len(p.release)
           c == InOrder(AcquireIn, CurrentAcquireIn, Custody)
           d == InOrder(ReleaseOut, CurrentRelease, c)
           A == {i \in DOMAIN p.acquire : p.acquire[i].token = t}
           R == {i \in DOMAIN p.release : p.release[i].token = t}
           least == [i \in A |-> p.acquire[i].endIn]
           taken == [i \in R |-> p.release[i].amount]
<1>1. auction.active /\ InTime /\ Swap(CurrentAcquireIn, CurrentRelease)
  BY DEF Bid
<1>2. gifts \in [Tokens -> Nat] /\ coins \in [Tokens -> Nat] /\ p \in Plans
  BY <1>1 DEF AuctionInv, AuctionShape, AsOpened, VaultInv, CustodyInv, Solid
<1>3. /\ m \in Nat /\ DOMAIN p.acquire = 1..m /\ n \in Nat /\ DOMAIN p.release = 1..n
      /\ \A i \in 1..m : p.acquire[i].endIn \in Nat
  BY <1>2, PlanLegs
<1>4. /\ Len(CurrentAcquireIn) = m /\ Len(CurrentRelease) = n
      /\ \A i \in 1..m : /\ CurrentAcquireIn[i].token = p.acquire[i].token
                         /\ CurrentAcquireIn[i].amount = Asked(p.acquire[i])
      /\ \A i \in 1..n : /\ CurrentRelease[i].token = p.release[i].token
                         /\ CurrentRelease[i].amount = p.release[i].amount
      /\ AreLegs(CurrentAcquireIn, m) /\ AreLegs(CurrentRelease, n)
  BY <1>1, BidLegs DEF AreLegs
<1>5. \A i \in 1..m : p.acquire[i].endIn <= Asked(p.acquire[i])
  BY <1>1, <1>3, AskedBounds
<1>6. A = On(CurrentAcquireIn, m, t) /\ R = On(CurrentRelease, n, t)
  <2> HIDE DEF m, n
  <2> QED
    BY <1>3, <1>4 DEF On
<1>7. NoMore(A, least, CurrentAcquireIn)
  BY <1>3, <1>4, <1>5 DEF NoMore
<1>8. Exactly(R, taken, CurrentRelease)
  BY <1>3, <1>4 DEF Exactly
<1>9. AtLeast(p, t) = SumOver(least, A) /\ Released(p, t) = SumOver(taken, R)
  BY <1>2, AtLeastIs, ReleasedIs
<1>10. /\ Sane(Custody) /\ Custody.coins = coins
       /\ Firm(Custody)
  BY CustodySane DEF AuctionInv, VaultInv, Custody, Firm
<1>11. coins' = d.coins
  BY <1>1 DEF Swap, Swapped, CustodyIs
<1>12. PICK f : IsRun("acquire", CurrentAcquireIn, Custody, f, m) /\ c = f[m]
  BY <1>3, <1>4, AcquireRuns
<1>13. PICK g : IsRun("release", CurrentRelease, c, g, n) /\ d = g[n]
  BY <1>3, <1>4, ReleaseRuns
<1> HIDE DEF A, R, least, taken, c, d, m, n, p
<1>14. c.coins[t] \in Int /\ c.coins[t] - coins[t] >= SumOver(least, A)
  <2>1. Custody.coins[t] \in Int
    BY <1>2, <1>10
  <2>2. f[m].coins[t] \in Int /\ f[m].coins[t] - Custody.coins[t] >= SumOver(least, A)
    BY <1>2, <1>3, <1>4, <1>6, <1>7, <1>10, <1>12, <2>1, RunBrings
  <2> QED
    BY <1>10, <1>12, <2>2
<1>15. Sane(c)
  BY <1>2, <1>3, <1>4, <1>10, <1>12, CustodyAcquires DEF Brought
<1>16. d.coins[t] \in Int /\ d.coins[t] - c.coins[t] >= -SumOver(taken, R)
  <2>1. g[n].coins[t] \in Int /\ g[n].coins[t] - c.coins[t] >= -SumOver(taken, R)
    BY <1>2, <1>3, <1>4, <1>6, <1>8, <1>13, <1>14, <1>15, RunTakes
  <2> QED
    BY <1>13, <2>1
<1>17. SumOver(least, A) \in Int /\ SumOver(taken, R) \in Int
  <2>1. IsFiniteSet(A) /\ IsFiniteSet(R)
    BY <1>3, LegsFinite DEF A, R
  <2>2. \A i \in R : taken[i] \in Int
    BY <1>4, <1>6, <1>8 DEF AreLegs, On, Exactly
  <2> QED
    BY <1>7, <2>1, <2>2, SumChange DEF NoMore
<1>18. coins[t] \in Int
  BY <1>2
<1>19. coins'[t] - coins[t] >= AtLeast(p, t) - Released(p, t)
  <2> DEFINE x == SumOver(least, A)
             y == SumOver(taken, R)
             a == c.coins[t]
             b == d.coins[t]
             e == coins[t]
  <2>1. /\ x \in Int /\ y \in Int /\ a \in Int /\ b \in Int /\ e \in Int
        /\ a - e >= x /\ b - a >= -y
    BY <1>14, <1>16, <1>17, <1>18
  <2>2. coins'[t] = b /\ AtLeast(p, t) = x /\ Released(p, t) = y
    BY <1>9, <1>11
  <2> HIDE DEF x, y, a, b, e
  <2>3. b - e >= x - y
    BY <2>1
  <2> QED
    BY <2>2, <2>3 DEF e
<1> QED
  BY <1>19 DEF p

(* A change of the supply by shares shows, in the supply or in the time of  *)
(* the last accrual.                                                        *)
LEMMA ReissueShows ==
  ASSUME VaultInv, NEW a, NEW delta \in Int \ {0}, Reissue(a, delta) \/ Issue(a, delta)
  PROVE  Accrues
<1> SUFFICES ASSUME lastAccrued' = lastAccrued PROVE supply' # supply
  BY DEF Accrues
<1>1. supply \in Nat
  BY DEF VaultInv, FeesInv, FeesTypeOK
<1>2. CASE Reissue(a, delta)
  <2>1. lastAccrued' = now /\ supply' = SupplyNow + delta
    BY <1>2 DEF Reissue, Accrue
  <2>2. Idle
    BY <2>1 DEF Idle
  <2>3. MintNow.manager = 0 /\ MintNow.platform = 0 /\ MintNow.keeper = 0
    BY <2>2 DEF MintNow, Legs
  <2>4. SupplyNow = supply
    BY <1>1, <2>3 DEF SupplyNow
  <2> QED
    BY <1>1, <2>1, <2>4
<1>3. CASE Issue(a, delta)
  BY <1>1, <1>3 DEF Issue
<1> QED
  BY <1>2, <1>3

(* Who is paid in a share operation is a user, and the shares change.       *)
LEMMA ShareReissues ==
  ASSUME ShareOperation
  PROVE  \E u \in Users, delta \in Int \ {0} : Reissue(u, delta) \/ Issue(u, delta)
<1>1. Units \subseteq Nat /\ MaxShares \in Nat
  BY VaultAssumption
<1>2. CASE \E ap, to \in Users, n \in Units : MintAgainst(ap, to, n)
  <2>1. PICK ap \in Users, to \in Users, n \in Units : MintAgainst(ap, to, n)
    BY <1>2
  <2>2. n \in Int \ {0} /\ Reissue(to, n)
    BY <1>1, <2>1 DEF MintAgainst
  <2> QED
    BY <2>2
<1>3. CASE \E u \in Users, n \in Units : n > 0 /\ (Reissue(u, n) \/ Issue(u, n))
  <2>1. PICK u \in Users, n \in Units : n > 0 /\ (Reissue(u, n) \/ Issue(u, n))
    BY <1>3
  <2>2. n > 0 /\ (Reissue(u, n) \/ Issue(u, n))
    BY <2>1
  <2>3. n \in Int \ {0}
    BY <1>1, <2>2
  <2> QED
    BY <2>2, <2>3
<1>4. CASE \E u \in Users, n \in 1..MaxShares : Redeem(u, n)
  <2>1. PICK u \in Users, n \in 1..MaxShares : Redeem(u, n)
    BY <1>4
  <2>2. -n \in Int \ {0} /\ Reissue(u, -n)
    BY <1>1, <2>1 DEF Redeem
  <2> QED
    BY <2>2
<1>5. CASE \E u \in Users, n \in Units : CreateFirst(u, n)
  BY <1>3, <1>5 DEF CreateFirst, FirstMint
<1>6. CASE \E u \in Users, n \in Units, k \in 0..MaxLegs :
             \E picks \in [1..k -> DOMAIN recipe] : Bootstrap(u, n, picks)
  BY <1>3, <1>6 DEF Bootstrap, FirstMint
<1> QED
  BY <1>2, <1>4, <1>5, <1>6 DEF ShareOperation, Create, SettleCreate

(* Without an accrual or a gift the vault's own operations move no token.   *)
LEMMA QuietCoins ==
  ASSUME VaultInv, VaultOperation, ~Accrues, gifts' = gifts
  PROVE  coins' = coins
<1>1. coins \in [Tokens -> Nat] /\ gifts \in [Tokens -> Nat] /\ Quantities \subseteq Nat
  BY VaultAssumption DEF VaultInv, Solid, CustodyInv
<1>2. ~ShareOperation
  BY ShareReissues, ReissueShows
<1>3. CASE \E u \in Users, t \in Tokens, q \in Quantities : Gift(u, t, q)
  <2>1. PICK u \in Users, t \in Tokens, q \in Quantities : Gift(u, t, q)
    BY <1>3
  <2> DEFINE amount == [x \in Tokens |-> IF x = t THEN q ELSE 0]
  <2>2. Move(u, Vault, amount) /\ gifts' = [gifts EXCEPT ![t] = @ + q]
    BY <2>1 DEF Gift
  <2>3. q = 0
    BY <1>1, <2>2
  <2>4. coins' = coins \/ coins' = [x \in Tokens |-> coins[x] + amount[x]]
    <3> HIDE DEF amount
    <3> QED
      BY <2>2 DEF Move
  <2>5. \A x \in Tokens : coins[x] + amount[x] = coins[x]
    BY <1>1, <2>3
  <2> QED
    BY <1>1, <2>4, <2>5
<1>4. CASE FeeOperation /\ UNCHANGED <<assets, target, grants, gifts>>
  BY <1>4 DEF assets
<1>5. CASE \E from, to \in Users : TransferShares(from, to, shares[from])
  BY <1>5 DEF TransferShares, assets
<1>6. CASE (\E b \in Switches : Grant("executor", b)) \/ Tick
  BY <1>6 DEF Grant, Tick, assets
<1> QED
  BY <1>2, <1>3, <1>4, <1>5, <1>6 DEF VaultOperation

(* The auction's own operations leave the vault alone, but for the bid.     *)
LEMMA OnlyBids ==
  ASSUME AuctionOperation, ~Bid
  PROVE  UNCHANGED vars
BY DEF AuctionOperation, SetExecMode, SetOpenAllow, Open, SetExecutor, SetMaxRewardPerCall

(* A managed or registry vault parts with tokens outside a redemption only  *)
(* in the fill of a live auction, at the terms that were announced.         *)
THEOREM FillsAreAnnounced == AuctionSpec => FillsAsAnnounced
<1> DEFINE Moves == ~Accrues /\ coins' # coins /\ gifts' = gifts
           Fills == LET p == auction.plan
                    IN /\ auction.active /\ ~auction'.active
                       /\ now <= auction.start + p.duration
                       /\ \A t \in Tokens : coins'[t] - coins[t] >= AtLeast(p, t) - Released(p, t)
<1>1. ASSUME AuctionInv, [AuctionNext]_<<vars, auctionState>>
      PROVE  [Moves => Fills]_<<vars, auctionState>>
  <2> SUFFICES ASSUME AuctionNext, Moves PROVE Fills
    BY <1>1
  <2>1. CASE VaultOperation
    BY <1>1, <2>1, QuietCoins DEF AuctionInv
  <2>2. CASE AuctionOperation /\ ~Bid
    BY <2>2, OnlyBids DEF vars, assets
  <2>3. CASE Bid
    <3>1. auction.active /\ InTime /\ auction' = [auction EXCEPT !.active = FALSE]
      BY <2>3 DEF Bid
    <3>2. ~auction'.active
      BY <1>1, <3>1 DEF AuctionInv, AuctionShape, Auctions
    <3>3. \A t \in Tokens : coins'[t] - coins[t] >= AtLeast(auction.plan, t) - Released(auction.plan, t)
      BY <1>1, <2>3, BidMoves
    <3> QED
      BY <3>1, <3>2, <3>3 DEF InTime
  <2> QED
    BY <2>1, <2>2, <2>3 DEF AuctionNext
<1> QED
  BY AuctionStart, AuctionKept, <1>1, PTL DEF AuctionSpec, FillsAsAnnounced

(* Accruals mint to the keepers' escrow and nobody's operation on the vault *)
(* takes from it.                                                           *)
LEMMA EscrowGrows ==
  ASSUME VaultInv, VaultOperation
  PROVE  shares'[KeeperEscrow] >= shares[KeeperEscrow]
<1>1. /\ KeeperEscrow \in Accounts /\ KeeperEscrow \notin Users /\ Users \subseteq Accounts
      /\ shares \in [Accounts -> Nat]
  BY FeeAssumption, AuctionAssumption, VaultAssumption DEF VaultInv, FeesInv, FeesTypeOK
<1>2. SharesNow[KeeperEscrow] >= shares[KeeperEscrow] /\ SharesNow \in [Accounts -> Nat]
  <2>1. MintNow.platform \in Nat /\ MintNow.keeper \in Nat /\ MintNow.manager \in Nat
    BY MintNat DEF Legs, VaultInv, FeesInv
  <2>2. MintedTo(KeeperEscrow) \in Nat
    BY <2>1 DEF MintedTo
  <2>3. SharesNow[KeeperEscrow] = shares[KeeperEscrow] + MintedTo(KeeperEscrow)
    BY <1>1 DEF SharesNow
  <2>4. SharesNow \in [Accounts -> Nat]
    BY LedgerNow DEF VaultInv, FeesInv
  <2> QED
    BY <1>1, <2>2, <2>3, <2>4
<1>3. CASE UNCHANGED shares
  BY <1>1, <1>3
<1>4. CASE ShareOperation
  <2>1. PICK u \in Users, delta \in Int \ {0} : Reissue(u, delta) \/ Issue(u, delta)
    BY <1>4, ShareReissues
  <2>2. \/ shares' = [SharesNow EXCEPT ![u] = @ + delta]
        \/ shares' = [shares EXCEPT ![u] = @ + delta]
    BY <2>1 DEF Reissue, Issue
  <2>3. shares'[KeeperEscrow] = SharesNow[KeeperEscrow] \/ shares'[KeeperEscrow] = shares[KeeperEscrow]
    BY <1>1, <1>2, <2>2
  <2> QED
    BY <1>1, <1>2, <2>3
<1>5. CASE FeeOperation
  <2>1. CASE AccrueLedger
    BY <1>2, <2>1 DEF AccrueLedger
  <2>2. CASE ~AccrueLedger
    BY <1>3, <1>5, <2>2 DEF FeeOperation, AccrueFee, SetRate, ActivateRate, SetTreasury, Accept,
                            Nominate, SetFeeToken, SetFlatFee, ledger
  <2> QED
    BY <2>1, <2>2
<1>6. CASE \E from, to \in Users : TransferShares(from, to, shares[from])
  <2>1. PICK from \in Users, to \in Users : TransferShares(from, to, shares[from])
    BY <1>6
  <2>2. shares'[KeeperEscrow] = shares[KeeperEscrow]
    BY <1>1, <2>1 DEF TransferShares
  <2> QED
    BY <1>1, <2>2
<1>7. CASE \/ \E u \in Users, t \in Tokens, q \in Quantities : Gift(u, t, q)
           \/ \E b \in Switches : Grant("executor", b)
           \/ Tick
  BY <1>3, <1>7 DEF Gift, Grant, Tick, Others, fees, ledger
<1> QED
  BY <1>4, <1>5, <1>6, <1>7 DEF VaultOperation

(* Keepers' shares leave the escrow only as the tip of the bid that fills   *)
(* an auction, within both caps, to whoever opened it.                      *)
THEOREM EscrowOnlyTips == AuctionSpec => EscrowPaysTips
<1> DEFINE Falls == shares'[KeeperEscrow] < shares[KeeperEscrow]
           Tips == LET paid == shares[KeeperEscrow] - shares'[KeeperEscrow]
                   IN /\ auction.active /\ ~auction'.active
                      /\ shares'[auction.opener] = shares[auction.opener] + paid
                      /\ paid <= MaxTip
                      /\ keeper.maxRewardPerCall # 0 => paid <= keeper.maxRewardPerCall
<1>1. ASSUME AuctionInv, [AuctionNext]_<<vars, auctionState>>
      PROVE  [Falls => Tips]_<<vars, auctionState>>
  <2> SUFFICES ASSUME AuctionNext, Falls PROVE Tips
    BY <1>1
  <2>1. shares \in [Accounts -> Nat] /\ KeeperEscrow \in Accounts
    BY <1>1, FeeAssumption DEF AuctionInv, VaultInv, FeesInv, FeesTypeOK
  <2>2. CASE VaultOperation
    <3>1. shares'[KeeperEscrow] >= shares[KeeperEscrow]
      BY <1>1, <2>2, EscrowGrows DEF AuctionInv
    <3>2. VaultInv'
      BY <1>1, AuctionKept DEF AuctionInv
    <3>3. shares'[KeeperEscrow] \in Nat
      BY <2>1, <3>2 DEF VaultInv, FeesInv, FeesTypeOK
    <3> QED
      BY <2>1, <3>1, <3>3
  <2>3. CASE AuctionOperation /\ ~Bid
    BY <2>1, <2>3, OnlyBids DEF vars, fees, ledger
  <2>4. CASE Bid
    <3> DEFINE n == Reward(MaxTip)
    <3>1. /\ auction.active /\ auction' = [auction EXCEPT !.active = FALSE]
          /\ shares' = [shares EXCEPT ![KeeperEscrow] = @ - n, ![auction.opener] = @ + n]
      BY <2>4 DEF Bid, Pay
    <3>2. ~auction'.active /\ auction.opener \in Accounts \ {KeeperEscrow}
      BY <1>1, <3>1 DEF AuctionInv, AuctionShape, Auctions, AsOpened
    <3>3. /\ n \in Nat /\ n <= MaxTip
          /\ keeper.maxRewardPerCall # 0 => n <= keeper.maxRewardPerCall
      BY <1>1, RewardBounds, AuctionAssumption, <2>1
    <3> HIDE DEF n
    <3>4. /\ shares'[KeeperEscrow] = shares[KeeperEscrow] - n
          /\ shares'[auction.opener] = shares[auction.opener] + n
      BY <2>1, <3>1, <3>2
    <3>5. shares[KeeperEscrow] - shares'[KeeperEscrow] = n
      BY <2>1, <3>3, <3>4
    <3> QED
      BY <3>1, <3>2, <3>3, <3>4, <3>5
  <2> QED
    BY <2>2, <2>3, <2>4 DEF AuctionNext
<1> QED
  BY AuctionStart, AuctionKept, <1>1, PTL DEF AuctionSpec, EscrowPaysTips

-----------------------------------------------------------------------------
(* The guard over the auction.                                              *)
GuardShape ==
  /\ cfg \in Config
  /\ isKeeper \subseteq Keepers
  /\ latched \in BOOLEAN
  /\ lastAction \in Nat
  /\ bands \in BandSet /\ bands.trigger > bands.reset
  /\ episode \in [opened : Nat, calm : BOOLEAN]

GuardInv == AuctionInv /\ GuardShape

LEMMA GuardStart == GuardInit => GuardInv
<1> SUFFICES ASSUME GuardInit PROVE GuardInv
  OBVIOUS
<1>1. AuctionInv
  BY AuctionStart DEF GuardInit
<1>2. GuardShape
  BY GuardAssumption DEF GuardInit, GuardShape, NoConfig, Config
<1> QED
  BY <1>1, <1>2 DEF GuardInv

LEMMA GuardStep ==
  ASSUME GuardInv, GuardNext
  PROVE  GuardInv'
<1>1. CASE (VaultOperation \/ AuctionOperation) /\ UNCHANGED guardState
  <2>1. AuctionInv'
    BY <1>1, AuctionStep DEF GuardInv, GuardNext
  <2>2. GuardShape'
    BY <1>1 DEF GuardInv, GuardShape, guardState
  <2> QED
    BY <2>1, <2>2 DEF GuardInv
<1>2. ASSUME UNCHANGED <<vars, auctionState>>, GuardShape' PROVE GuardInv'
  BY <1>2, AuctionIdle DEF GuardInv
<1>3. ASSUME NEW k \in Keepers, NEW p \in Plans, NEW r, NEW h, NEW d, NEW n,
             OpenWeekendRebalance(k, p, r, h, d, n)
      PROVE  GuardInv'
  <2>1. AuctionInv'
    BY <1>3, OpenShape, GuardAssumption DEF OpenWeekendRebalance, GuardInv
  <2>2. now \in Nat
    BY DEF GuardInv, AuctionInv, VaultInv, FeesInv, FeesTypeOK
  <2>3. GuardShape'
    BY <1>3, <2>2 DEF OpenWeekendRebalance, GuardInv, GuardShape
  <2> QED
    BY <2>1, <2>3 DEF GuardInv
<1>4. ASSUME NEW k \in Keepers, NEW d \in Drifts, ClearLatch(k, d)
      PROVE  GuardInv'
  <2>1. /\ latched' = (latched /\ ~LatchCleared(d))
        /\ episode' = [episode EXCEPT !.calm = @ \/ d < bands.reset]
        /\ UNCHANGED <<vars, auctionState, cfg, isKeeper, lastAction, bands>>
    BY <1>4 DEF ClearLatch
  <2>2. episode \in [opened : Nat, calm : BOOLEAN] /\ latched \in BOOLEAN
    BY DEF GuardInv, GuardShape
  <2> DEFINE calm == episode.calm \/ d < bands.reset
             still == latched /\ ~LatchCleared(d)
  <2>3. calm \in BOOLEAN /\ still \in BOOLEAN
    OBVIOUS
  <2>4. episode' = [episode EXCEPT !.calm = calm] /\ latched' = still
    BY <2>1
  <2> HIDE DEF calm, still
  <2>5. episode' \in [opened : Nat, calm : BOOLEAN] /\ latched' \in BOOLEAN
    BY <2>2, <2>3, <2>4
  <2>6. GuardShape'
    BY <2>1, <2>5 DEF GuardInv, GuardShape
  <2> QED
    BY <1>2, <2>1, <2>6
<1>5. ASSUME NEW k \in Keepers, NEW b \in Switches, SetKeeper(k, b)
      PROVE  GuardInv'
  <2>1. GuardShape'
    BY <1>5 DEF SetKeeper, GuardInv, GuardShape
  <2> QED
    BY <1>2, <1>5, <2>1 DEF SetKeeper
<1>6. ASSUME NEW c \in Configs, SetVaultCfg(c)
      PROVE  GuardInv'
  <2>1. c \in Config /\ cfg' = [c EXCEPT !.enabled = TRUE]
    BY <1>6, GuardAssumption DEF SetVaultCfg
  <2>2. cfg' \in Config
    BY <2>1 DEF Config
  <2>3. GuardShape'
    BY <1>6, <2>2 DEF SetVaultCfg, GuardInv, GuardShape
  <2> QED
    BY <1>2, <1>6, <2>3 DEF SetVaultCfg
<1>7. ASSUME NEW b \in BandSets, SetParams(b)
      PROVE  GuardInv'
  <2>1. GuardShape'
    BY <1>7, GuardAssumption DEF SetParams, GuardInv, GuardShape
  <2> QED
    BY <1>2, <1>7, <2>1 DEF SetParams
<1> QED
  BY <1>1, <1>3, <1>4, <1>5, <1>6, <1>7 DEF GuardNext, GuardOperation

LEMMA GuardKept == GuardInv /\ [GuardNext]_guardVars => GuardInv'
<1> SUFFICES ASSUME GuardInv, UNCHANGED guardVars PROVE GuardInv'
  BY GuardStep
<1>1. UNCHANGED <<vars, auctionState>> /\ UNCHANGED guardState
  BY DEF guardVars
<1>2. GuardShape'
  BY <1>1 DEF GuardInv, GuardShape, guardState
<1> QED
  BY <1>1, <1>2, AuctionIdle DEF GuardInv

(* Types hold under the guard too, which opens auctions of its own, and the *)
(* trigger stays above the reset band whatever the owner sets.              *)
THEOREM GuardTyped == GuardSpec => []GuardTypeOK
<1>1. GuardInv => GuardTypeOK
  BY AuctionInvIsStrong DEF GuardInv, GuardShape, GuardTypeOK
<1> QED
  BY GuardStart, GuardKept, <1>1, PTL DEF GuardSpec

-----------------------------------------------------------------------------
(* The latch remembers exactly that no drift below the reset band has been  *)
(* reported since the last auction of the guard, and lastAction when that   *)
(* was: what the code keeps suffices to tell one episode from the next.     *)
LatchRemembers ==
  /\ latched <=> ~episode.calm
  /\ episode.opened # 0 => lastAction = episode.opened

(* The history has the shape its operations give it.                        *)
EpisodeShape ==
  /\ episode.calm \in BOOLEAN /\ latched \in BOOLEAN
  /\ episode = [opened |-> episode.opened, calm |-> episode.calm]

EpisodeInv == LatchRemembers /\ EpisodeShape

LEMMA EpisodeInit == GuardInit => EpisodeInv
<1> SUFFICES ASSUME GuardInit PROVE EpisodeInv
  OBVIOUS
<1>1. latched = FALSE /\ episode = [opened |-> 0, calm |-> TRUE]
  BY DEF GuardInit
<1>2. episode.opened = 0 /\ episode.calm
  BY <1>1
<1>3. EpisodeShape
  BY <1>1 DEF EpisodeShape
<1> QED BY <1>1, <1>2, <1>3 DEF EpisodeInv, LatchRemembers

(* What is neither an opening nor a clearing leaves the three alone.        *)
LEMMA QuietSteps ==
  ASSUME GuardNext,
         ~ \E k \in Keepers, p \in Plans, r \in Readings,
              heldTokens \in SUBSET Tokens \ {{}}, d \in Drifts, n \in Cardinalities :
              OpenWeekendRebalance(k, p, r, heldTokens, d, n),
         ~ \E k \in Keepers, d \in Drifts : ClearLatch(k, d)
  PROVE  UNCHANGED <<latched, lastAction, episode>>
<1>1. CASE UNCHANGED guardState
  BY <1>1 DEF guardState
<1>2. CASE GuardOperation
  BY <1>2 DEF GuardOperation, SetKeeper, SetVaultCfg, SetParams
<1> QED BY <1>1, <1>2 DEF GuardNext

(* An opening of the guard finds the latch clear and the cooldown passed.   *)
LEMMA OpeningStep ==
  ASSUME EpisodeInv,
         NEW k, NEW p, NEW r, NEW heldTokens, NEW d, NEW n,
         OpenWeekendRebalance(k, p, r, heldTokens, d, n)
  PROVE  /\ EpisodeInv'
         /\ episode.calm
         /\ episode.opened # 0 => now - episode.opened >= bands.cooldown
<1>1. ~latched /\ now - lastAction >= bands.cooldown
  BY DEF OpenWeekendRebalance, CheckTrigger, Evaluate
<1>2. /\ latched' = TRUE /\ lastAction' = now
      /\ episode' = [opened |-> now, calm |-> FALSE]
  BY DEF OpenWeekendRebalance
<1>3. EpisodeInv'
  BY <1>2 DEF EpisodeInv, LatchRemembers, EpisodeShape
<1> QED BY <1>1, <1>3 DEF EpisodeInv, LatchRemembers, EpisodeShape

(* Clearing the latch and calming the episode take the same drift.          *)
LEMMA ClearingStep ==
  ASSUME EpisodeInv, NEW k, NEW d, ClearLatch(k, d)
  PROVE  /\ EpisodeInv'
         /\ episode'.opened = episode.opened
         /\ episode.calm => episode'.calm
<1> DEFINE calm == episode.calm \/ d < bands.reset
<1>1. /\ latched' = (latched /\ ~ (d < bands.reset))
      /\ episode' = [episode EXCEPT !.calm = calm]
      /\ lastAction' = lastAction
  BY DEF ClearLatch, LatchCleared
<1>2. episode' = [opened |-> episode.opened, calm |-> calm]
  BY <1>1 DEF EpisodeInv, EpisodeShape
<1>3. (latched <=> ~episode.calm) /\ episode.calm \in BOOLEAN
  BY DEF EpisodeInv, LatchRemembers, EpisodeShape
<1>4. latched' \in BOOLEAN /\ (latched' <=> ~calm)
  BY <1>1, <1>3
<1>5. EpisodeInv'
  BY <1>1, <1>2, <1>4 DEF EpisodeInv, LatchRemembers, EpisodeShape
<1> QED BY <1>2, <1>5

LEMMA EpisodeStep == EpisodeInv /\ [GuardNext]_guardVars => EpisodeInv'
<1> SUFFICES ASSUME EpisodeInv, [GuardNext]_guardVars PROVE EpisodeInv'
  OBVIOUS
<1>1. CASE UNCHANGED <<latched, lastAction, episode>>
  BY <1>1 DEF EpisodeInv, LatchRemembers, EpisodeShape
<1>2. CASE UNCHANGED guardVars
  BY <1>1, <1>2 DEF guardVars, guardState
<1>3. CASE GuardNext
  BY <1>1, <1>3, QuietSteps, OpeningStep, ClearingStep
<1> QED BY <1>2, <1>3

(* The latch is the guard's memory of the episode, whatever else happens.   *)
THEOREM LatchIsMemory == GuardSpec => []LatchRemembers
<1>1. EpisodeInv => LatchRemembers
  BY DEF EpisodeInv
<1> QED BY EpisodeInit, EpisodeStep, <1>1, PTL DEF GuardSpec

(* Between two auctions the guard opens a drift below the reset band was    *)
(* reported and the cooldown has passed.                                    *)
THEOREM GuardOpensOncePerEpisode == GuardSpec => OncePerEpisode
<1> DEFINE Opened == \/ episode'.opened # episode.opened
                     \/ episode.calm /\ ~episode'.calm
           Due == /\ episode.calm
                  /\ episode.opened # 0 => now - episode.opened >= bands.cooldown
<1>1. ASSUME EpisodeInv, [GuardNext]_guardVars
      PROVE  [Opened => Due]_guardVars
  <2> SUFFICES ASSUME GuardNext, Opened PROVE Due
    BY <1>1
  <2>1. ~ UNCHANGED <<latched, lastAction, episode>>
    OBVIOUS
  <2>2. ASSUME NEW k \in Keepers, NEW d \in Drifts, ClearLatch(k, d) PROVE FALSE
    BY <1>1, <2>2, ClearingStep
  <2>3. PICK k \in Keepers, p \in Plans, r \in Readings,
             heldTokens \in SUBSET Tokens \ {{}}, d \in Drifts, n \in Cardinalities :
               OpenWeekendRebalance(k, p, r, heldTokens, d, n)
    BY <2>1, <2>2, QuietSteps
  <2> QED BY <1>1, <2>3, OpeningStep
<1> QED BY EpisodeInit, EpisodeStep, <1>1, PTL DEF GuardSpec, OncePerEpisode
=============================================================================
