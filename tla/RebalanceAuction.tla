-------------------------- MODULE RebalanceAuction --------------------------
(***************************************************************************)
(* The Dutch auction that rebalances a vault (L3 RebalanceAuction), with   *)
(* the keeper module that pays its opener.  An auction releases some of    *)
(* the vault's tokens against others, of which it asks less as time goes   *)
(* by; the first bid fills all of it, through the vault's executeRebalance.*)
(* Between open and bid the vault's holders go on creating and redeeming.  *)
(*                                                                         *)
(* One vault, whose keepers' escrow is the keeper module's balance of its  *)
(* shares.  A bidder's wallet is deep enough, as other wallets are.        *)
(***************************************************************************)
EXTENDS RebalanceVault

CONSTANTS
  MaxTip,            \* maxTip, in shares
  InitKeeper,        \* what the keeper module's owner has set
  Plans, Openers, Caps, Switches   \* the inputs: what is allowed, and refused again

PlanLeg == [token : Tokens, startIn : Nat, endIn : Nat]
Plan == [release : Seq(Leg), acquire : Seq(PlanLeg), duration : Nat]
KeeperState == [isExecutor : BOOLEAN, maxRewardPerCall : Nat]

ASSUME AuctionAssumption ==
  /\ MaxTip \in Nat
  /\ InitKeeper \in KeeperState
  /\ Plans \subseteq Plan
  /\ Openers \subseteq Accounts \ {KeeperEscrow}
  /\ KeeperEscrow \notin Users    \* it has no function but pay that moves shares
  /\ Caps \subseteq Nat /\ Switches \subseteq BOOLEAN

VARIABLES
  auction,       \* the vault's current auction
  execMode, openAllow,
  keeper,        \* the keeper module: is the auction an executor, the cap
  atOpen         \* history: the vault's balances when it opened

auctionState == <<auction, execMode, openAllow, keeper, atOpen>>

ExecModes == {"MANAGER_ONLY", "ALLOWLIST"}
NoPlan == [release |-> << >>, acquire |-> << >>, duration |-> 0]

AuctionTypeOK ==
  /\ TypeOK
  /\ auction \in [opener : Accounts \cup {NoOne}, start : Nat, active : BOOLEAN,
                  plan : Plans \cup {NoPlan}, minOut : Seq(Nat)]
  /\ DOMAIN auction.minOut = DOMAIN auction.plan.release
  /\ execMode \in ExecModes
  /\ openAllow \subseteq Accounts
  /\ keeper \in KeeperState
  /\ atOpen \in [Tokens -> Nat]

AuctionInit ==
  /\ Init
  /\ auction = [opener |-> NoOne, start |-> 0, active |-> FALSE,
                plan |-> NoPlan, minOut |-> << >>]
  /\ execMode = "MANAGER_ONLY" /\ openAllow = {}
  /\ keeper = InitKeeper
  /\ atOpen = coins

-----------------------------------------------------------------------------
(* Who may open, set by the vault's manager; PERMISSIONLESS cannot be set.  *)

MayOpen(who) ==
  IF execMode = "MANAGER_ONLY" THEN who = office["manager"].holder
                               ELSE who \in openAllow

SetExecMode(who, m) ==
  /\ who = office["manager"].holder
  /\ execMode' = m
  /\ UNCHANGED <<vars, auction, openAllow, keeper, atOpen>>

SetOpenAllow(who, opener, ok) ==
  /\ who = office["manager"].holder
  /\ openAllow' = IF ok THEN openAllow \cup {opener} ELSE openAllow \ {opener}
  /\ UNCHANGED <<vars, auction, execMode, keeper, atOpen>>

-----------------------------------------------------------------------------
(* Opening.                                                                 *)

FloorKeepsAll(leg) == coins[leg.token]

(* What must be left of a token after its release: its ERC-20 balance now   *)
(* less what is released, on either flavour of vault.                       *)
Floor(leg) ==
  IF coins[leg.token] > leg.amount THEN coins[leg.token] - leg.amount ELSE 0

(* A live auction is replaced.                                              *)
Open(who, p) ==
  /\ MayOpen(who)
  /\ p.acquire # << >>
  /\ p.duration # 0
  /\ \A i \in DOMAIN p.acquire : p.acquire[i].startIn >= p.acquire[i].endIn
  /\ Disjoint(p.acquire, p.release)
  /\ auction' = [opener |-> who, start |-> now, active |-> TRUE, plan |-> p,
                 minOut |-> [i \in DOMAIN p.release |-> Floor(p.release[i])]]
  /\ atOpen' = coins
  /\ UNCHANGED <<vars, execMode, openAllow, keeper>>

-----------------------------------------------------------------------------
(* Bidding.                                                                 *)

InTime == now <= auction.start + auction.plan.duration

Elapsed ==
  IF InTime THEN now - auction.start ELSE auction.plan.duration

AskedToNothing(leg) ==
  leg.startIn - (leg.startIn * Elapsed) \div auction.plan.duration

(* What is asked of a leg: from startIn down to endIn, linearly.            *)
Asked(leg) ==
  leg.startIn - ((leg.startIn - leg.endIn) * Elapsed) \div auction.plan.duration

CurrentAcquireIn ==
  [i \in DOMAIN auction.plan.acquire |->
     LET leg == auction.plan.acquire[i]
     IN [token |-> leg.token, amount |-> Asked(leg)]]

CurrentRelease ==
  [i \in DOMAIN auction.plan.release |->
     LET leg == auction.plan.release[i]
     IN [token |-> leg.token, amount |-> leg.amount, minOut |-> auction.minOut[i]]]

RewardUncapped(amount) ==
  IF amount > shares[KeeperEscrow] THEN shares[KeeperEscrow] ELSE amount

RewardUnescrowed(amount) ==
  IF keeper.maxRewardPerCall # 0 /\ amount > keeper.maxRewardPerCall
    THEN keeper.maxRewardPerCall ELSE amount

(* What the keeper module pays of an amount: at most its escrow and cap.    *)
Reward(amount) ==
  LET paid == IF amount > shares[KeeperEscrow] THEN shares[KeeperEscrow] ELSE amount
  IN IF keeper.maxRewardPerCall # 0 /\ paid > keeper.maxRewardPerCall
       THEN keeper.maxRewardPerCall ELSE paid

Pay(to, amount) ==
  /\ keeper.isExecutor
  /\ shares' = [shares EXCEPT ![KeeperEscrow] = @ - Reward(amount),
                              ![to] = @ + Reward(amount)]

(* Anybody may bid.                                                         *)
Bid ==
  /\ auction.active
  /\ InTime
  /\ Swap(CurrentAcquireIn, CurrentRelease)
  /\ auction' = [auction EXCEPT !.active = FALSE]
  /\ Pay(auction.opener, MaxTip)
  /\ UNCHANGED <<supply, feeState, roles, now, target, grants, gifts, exposure,
                 notice, execMode, openAllow, keeper, atOpen>>

-----------------------------------------------------------------------------
(* The keeper module's owner.                                               *)

SetExecutor(allowed) ==
  /\ keeper' = [keeper EXCEPT !.isExecutor = allowed]
  /\ UNCHANGED <<vars, auction, execMode, openAllow, atOpen>>

SetMaxRewardPerCall(cap) ==
  /\ keeper' = [keeper EXCEPT !.maxRewardPerCall = cap]
  /\ UNCHANGED <<vars, auction, execMode, openAllow, atOpen>>

-----------------------------------------------------------------------------

(* The vault meanwhile.  The auction is its only executor, and the keeper   *)
(* module and whoever opened keep the shares they hold.                     *)
VaultOperation ==
  /\ \/ FeeOperation /\ UNCHANGED <<assets, target, grants, gifts>>
     \/ ShareOperation
     \/ \E from, to \in Users : TransferShares(from, to, shares[from])
     \/ \E u \in Users, t \in Tokens, q \in Quantities :
          gifts[t] + q <= MaxGifts /\ Gift(u, t, q)
     \/ \E b \in Switches : Grant("executor", b)
     \/ now < MaxNow /\ Tick
  /\ UNCHANGED auctionState

AuctionOperation ==
  \/ \E who \in Openers :
       \/ \E m \in ExecModes : SetExecMode(who, m)
       \/ \E opener \in Openers, b \in Switches : SetOpenAllow(who, opener, b)
       \/ \E p \in Plans : Open(who, p)
  \/ Bid
  \/ \E b \in Switches : SetExecutor(b)
  \/ \E c \in Caps : SetMaxRewardPerCall(c)

AuctionNext ==
  /\ VaultOperation \/ AuctionOperation
  /\ \A t \in Tokens : coins'[t] <= MaxCoins

AuctionSpec == AuctionInit /\ [][AuctionNext]_<<vars, auctionState>>

-----------------------------------------------------------------------------
(* Properties.                                                              *)

Released(p, t) ==
  MapThenSumSet(LAMBDA i : p.release[i].amount,
                {i \in DOMAIN p.release : p.release[i].token = t})

AtLeast(p, t) ==
  MapThenSumSet(LAMBDA i : p.acquire[i].endIn,
                {i \in DOMAIN p.acquire : p.acquire[i].token = t})

(* Whatever happens between open and bid, a managed vault parts with tokens *)
(* outside a redemption only in the one fill of a live auction, with no     *)
(* more than it releases, and gets at least what it asks for at the end.    *)
FillsAsAnnounced ==
  [][~Accrues /\ coins' # coins /\ gifts' = gifts =>
       LET p == auction.plan
       IN /\ auction.active /\ ~auction'.active
          /\ now <= auction.start + p.duration
          /\ \A t \in Tokens : coins'[t] - coins[t] >= AtLeast(p, t) - Released(p, t)]_
     <<vars, auctionState>>

(* The floor stored at the opening never stands in the way of a bid in time *)
(* as long as the vault holds what it held then, however often it is        *)
(* created into and fees accrue.  Only redemptions spoil an auction, and a   *)
(* token released by two legs.  A registry vault is left out: its floor is  *)
(* taken from a balance that includes the APs' claims.                      *)
FillableUntilTouched ==
  LET p == auction.plan
  IN /\ ~IsRegistry
     /\ auction.active /\ InTime
     /\ \A i, j \in DOMAIN p.release : p.release[i].token = p.release[j].token => i = j
     /\ \A i \in DOMAIN p.release :
          /\ p.release[i].amount <= atOpen[p.release[i].token]
          /\ coins[p.release[i].token] >= atOpen[p.release[i].token]
     => Disjoint(CurrentAcquireIn, CurrentRelease) /\ Swapped(CurrentAcquireIn, CurrentRelease).ok

(* The keepers' shares leave the escrow only for the opener of an auction   *)
(* that fills in the same step, at most the tip and the cap of each.        *)
EscrowPaysTips ==
  [][shares'[KeeperEscrow] < shares[KeeperEscrow] =>
       LET paid == shares[KeeperEscrow] - shares'[KeeperEscrow]
       IN /\ auction.active /\ ~auction'.active
          /\ shares'[auction.opener] = shares[auction.opener] + paid
          /\ paid <= MaxTip
          /\ keeper.maxRewardPerCall # 0 => paid <= keeper.maxRewardPerCall]_
     <<vars, auctionState>>
=============================================================================
