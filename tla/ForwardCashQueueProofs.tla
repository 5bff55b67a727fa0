----------------------- MODULE ForwardCashQueueProofs -----------------------
(***************************************************************************)
(* Theorems of the cash queue, for every number of holders and tickets,    *)
(* every scale and every input.                                            *)
(*                                                                         *)
(* The only long step is Settle.  Its batch is a fold over the listed ids, *)
(* so everything about it is shown for one id and carried along the batch: *)
(*   - Sound: the types, the escrow to the unit, and rollovers cancelable; *)
(*   - Promised: only deposits past their deadline are spent, and their    *)
(*     owners are left no poorer, which is what ForwardEscrow asks;        *)
(*   - PaidSoFar: what was taken out of every ticket so far, and that it   *)
(*     was paid for at the price of the batch.                             *)
(* The last rests on SettleOneEffect, which gives what settling a ticket   *)
(* moves as a function of the ticket and the terms alone.  Because these   *)
(* movements add up in any order, so do two tickets of a batch.            *)
(***************************************************************************)
EXTENDS ForwardCashQueue, TotalsProofs

-----------------------------------------------------------------------------
(* Arithmetic.                                                              *)

LEMMA QuotientNat ==
  ASSUME NEW a \in Nat, NEW d \in Nat \ {0}
  PROVE  a \div d \in Nat
OBVIOUS

LEMMA ProductNat ==
  ASSUME NEW a \in Nat, NEW b \in Nat
  PROVE  a * b \in Nat
OBVIOUS

(* A share c/d of a, with c at most d, is at most a.                        *)
LEMMA ShareBounded ==
  ASSUME NEW a \in Nat, NEW c \in Nat, NEW d \in Nat \ {0}, c <= d
  PROVE  (a * c) \div d \in 0..a
<1>1. a * c <= a * d
  OBVIOUS
<1>2. (a * c) \div d \in Nat
  BY ProductNat, QuotientNat
<1>3. d * ((a * c) \div d) <= a * c
  BY ProductNat
<1>4. SUFFICES ASSUME (a * c) \div d > a PROVE FALSE
  BY <1>2
<1>5. d * ((a * c) \div d) >= d * (a + 1)
  BY <1>2, <1>4
<1> QED
  BY <1>1, <1>3, <1>5

-----------------------------------------------------------------------------
(* The escrow total.                                                        *)

LEMMA ClaimNat ==
  ASSUME NEW t \in Ticket, NEW asset
  PROVE  Claim(t, asset) \in Nat
BY DEF Claim, Ticket

LEMMA ClaimsSeq ==
  ASSUME NEW tks \in Seq(Ticket), NEW asset
  PROVE  /\ [i \in DOMAIN tks |-> Claim(tks[i], asset)] \in Seq(Nat)
         /\ Len([i \in DOMAIN tks |-> Claim(tks[i], asset)]) = Len(tks)
<1>1. \A i \in 1..Len(tks) : Claim(tks[i], asset) \in Nat
  BY ClaimNat
<1> QED
  BY <1>1

LEMMA OwedNat ==
  ASSUME NEW tks \in Seq(Ticket), NEW asset
  PROVE  Owed(tks, asset) \in Nat
BY ClaimsSeq, TotalNat DEF Owed

LEMMA OwedUpdate ==
  ASSUME NEW tks \in Seq(Ticket), NEW id \in DOMAIN tks, NEW t \in Ticket,
         NEW asset
  PROVE  Owed([tks EXCEPT ![id] = t], asset) =
           Owed(tks, asset) - Claim(tks[id], asset) + Claim(t, asset)
<1> DEFINE new == [tks EXCEPT ![id] = t]
           before == [i \in DOMAIN tks |-> Claim(tks[i], asset)]
           after == [i \in DOMAIN new |-> Claim(new[i], asset)]
<1>1. new \in Seq(Ticket) /\ Len(new) = Len(tks) /\ DOMAIN new = DOMAIN tks
  OBVIOUS
<1>2. /\ before \in Seq(Nat) /\ after \in Seq(Nat)
      /\ Len(before) = Len(tks) /\ Len(after) = Len(tks)
  BY <1>1, ClaimsSeq
<1>3. id \in 1..Len(before)
  BY <1>2
<1>4. \A i \in 1..Len(before) : i # id => after[i] = before[i]
  BY <1>1, <1>2
<1>5. before[id] = Claim(tks[id], asset) /\ after[id] = Claim(t, asset)
  BY <1>1
<1>6. Total(after) = Total(before) - before[id] + after[id]
  <2> HIDE DEF before, after
  <2> QED
    BY <1>2, <1>3, <1>4, TotalUpdate
<1> QED
  BY <1>5, <1>6 DEF Owed

LEMMA OwedAppend ==
  ASSUME NEW tks \in Seq(Ticket), NEW t \in Ticket, NEW asset
  PROVE  Owed(Append(tks, t), asset) = Owed(tks, asset) + Claim(t, asset)
<1> DEFINE new == Append(tks, t)
           before == [i \in DOMAIN tks |-> Claim(tks[i], asset)]
           after == [i \in DOMAIN new |-> Claim(new[i], asset)]
<1>1. /\ new \in Seq(Ticket) /\ Len(new) = Len(tks) + 1
      /\ new[Len(tks) + 1] = t
      /\ \A i \in 1..Len(tks) : new[i] = tks[i]
  OBVIOUS
<1>2. /\ before \in Seq(Nat) /\ after \in Seq(Nat)
      /\ Len(before) = Len(tks) /\ Len(after) = Len(tks) + 1
  BY <1>1, ClaimsSeq
<1>3. \A i \in 1..Len(before) : after[i] = before[i]
  BY <1>1, <1>2
<1>4. after[Len(after)] = Claim(t, asset)
  BY <1>1, <1>2
<1>5. Total(after) = Total(before) + after[Len(after)]
  <2> HIDE DEF before, after
  <2> QED
    BY <1>2, <1>3, TotalAppend
<1> QED
  BY <1>4, <1>5 DEF Owed

LEMMA OwedEmpty ==
  ASSUME NEW asset
  PROVE  Owed(<< >>, asset) = 0
<1> DEFINE none == [i \in DOMAIN << >> |-> Claim(<< >>[i], asset)]
<1>1. Len(none) = 0
  OBVIOUS
<1>2. PartialTotals(none)[0] = 0
  <2> HIDE DEF none
  <2> QED
    BY <1>1, PartialTotalsSteps
<1> QED
  BY <1>1, <1>2 DEF Owed, Total

-----------------------------------------------------------------------------
(* Moving balances.                                                         *)

LEMMA TransferKeeps ==
  ASSUME NEW bal \in [Accounts -> Nat], NEW from \in Accounts, NEW to \in Accounts,
         NEW amt \in Nat, bal[from] >= amt
  PROVE  Transfer(bal, from, to, amt) \in [Accounts -> Nat]
BY DEF Transfer

LEMMA TransferMoves ==
  ASSUME NEW bal \in [Accounts -> Nat], NEW from \in Accounts, NEW to \in Accounts,
         NEW amt \in Nat, from # to
  PROVE  /\ Transfer(bal, from, to, amt)[from] = bal[from] - amt
         /\ Transfer(bal, from, to, amt)[to] = bal[to] + amt
         /\ \A a \in Accounts \ {from, to} : Transfer(bal, from, to, amt)[a] = bal[a]
BY DEF Transfer

LEMMA Parties ==
  /\ {Queue, AP, Treasury, KeeperModule, Keeper, Market} \subseteq Accounts
  /\ Users \subseteq Accounts
  /\ Queue \notin Users /\ AP \notin Users /\ Treasury \notin Users
  /\ KeeperModule \notin Users /\ Keeper \notin Users
  /\ Queue \notin {AP, Treasury, KeeperModule, Keeper, Market}
  /\ AP # Treasury /\ KeeperModule # Keeper
BY AccountAssumption DEF Accounts, Services

-----------------------------------------------------------------------------
(* The amounts a fill is made of.                                           *)

LEMMA Prices ==
  ASSUME TypeOK, NEW amt \in Nat, NEW price \in Nat
  PROVE  /\ NetOfSpread(amt) \in Nat
         /\ price > 0 => SharesFor(amt, price) \in Nat
         /\ CashFor(amt, price) \in Nat
         /\ CreateFee \in Nat
<1>1. BPS - params.spreadBps \in Nat
  BY ScaleAssumption DEF TypeOK, Params
<1>2. \A a \in Nat : NetOfSpread(a) \in Nat
  BY <1>1, ScaleAssumption, ProductNat, QuotientNat DEF NetOfSpread
<1>3. price > 0 => SharesFor(amt, price) \in Nat
  BY <1>2, ScaleAssumption, ProductNat, QuotientNat DEF SharesFor
<1>4. (amt * price) \div WAD \in Nat
  BY ScaleAssumption, ProductNat, QuotientNat
<1>5. CreateFee \in Nat
  BY ScaleAssumption DEF TypeOK, CreateFee
<1> QED
  BY <1>2, <1>3, <1>4, <1>5 DEF CashFor

TermsType == [price : Nat, overpay : Int, accrual : [keeper : Nat, others : Nat],
              capShares : Nat, demand : Nat]

LEMMA FillBounded ==
  ASSUME NEW t \in Ticket, NEW x \in TermsType
  PROVE  FillCash(t, x) \in 0..t.amount
<1> t.amount \in Nat /\ x.capShares \in Nat /\ x.demand \in Nat
  BY DEF Ticket, TermsType
<1>1. CASE x.capShares >= x.demand \/ x.demand = 0
  BY <1>1 DEF FillCash
<1>2. CASE ~(x.capShares >= x.demand \/ x.demand = 0)
  BY <1>2, ShareBounded DEF FillCash
<1> QED
  BY <1>1, <1>2

LEMMA RolledTicket ==
  ASSUME TypeOK, NEW t \in Ticket, NEW left \in Nat
  PROVE  /\ Rolled(t, left) \in Ticket
         /\ Rolled(t, left).owner = t.owner
         /\ Rolled(t, left).isCreate = t.isCreate
         /\ Rolled(t, left).status = t.status
         /\ Rolled(t, left).amount = left
         /\ Rolled(t, left).cutoff >= now + MIN_CUTOFF_DELAY
<1>1. /\ now \in Nat /\ params.cutoffDelay \in Nat
      /\ params.cutoffDelay >= MIN_CUTOFF_DELAY
  BY ScaleAssumption DEF TypeOK, Params
<1>2. now + params.cutoffDelay \in Nat
  BY <1>1
<1>3. now + params.cutoffDelay >= now + MIN_CUTOFF_DELAY
  BY <1>1, ScaleAssumption
<1> QED
  BY <1>2, <1>3 DEF Rolled, Ticket

(* A filled ticket keeps what the fill left of it, with a fresh cutoff if    *)
(* that is anything.                                                        *)
LEMMA FilledTicket ==
  ASSUME TypeOK, NEW t \in Ticket, NEW fill \in 0..t.amount, t.status = Pending
  PROVE  LET u == AfterFill(t, fill) IN
         /\ u \in Ticket
         /\ u.owner = t.owner /\ u.isCreate = t.isCreate
         /\ u.status = Pending => u.cutoff >= now + MIN_CUTOFF_DELAY
         /\ Claim(u, Asset(t)) = t.amount - fill
         /\ \A asset : asset # Asset(t) => Claim(u, asset) = 0
<1> t.amount \in Nat /\ fill \in Nat /\ t.amount - fill \in Nat
  BY DEF Ticket
<1>1. CASE fill = t.amount
  BY <1>1 DEF AfterFill, Claim, Asset, Ticket, Pending, Settled
<1>2. CASE fill # t.amount
  <2>1. AfterFill(t, fill) = Rolled(t, t.amount - fill)
    BY <1>2 DEF AfterFill
  <2> DEFINE u == Rolled(t, t.amount - fill)
  <2>2. /\ u \in Ticket
        /\ u.owner = t.owner /\ u.isCreate = t.isCreate
        /\ u.status = Pending /\ u.amount = t.amount - fill
        /\ u.cutoff >= now + MIN_CUTOFF_DELAY
    BY RolledTicket
  <2>3. /\ Claim(u, Asset(t)) = t.amount - fill
        /\ \A asset : asset # Asset(t) => Claim(u, asset) = 0
    BY <2>2 DEF Claim, Asset
  <2> QED
    BY <2>1, <2>2, <2>3
<1> QED
  BY <1>1, <1>2

-----------------------------------------------------------------------------
(* One ticket of a batch.                                                   *)

BatchType == [ok : {TRUE}, worked : BOOLEAN, tickets : Seq(Ticket),
              cash : [Accounts -> Nat], shares : [Accounts -> Nat],
              supply : Nat, surplus : Nat]

(* What holds of a batch that has not reverted, whatever it has settled.    *)
Backed(b) ==
  /\ b.cash[Queue] = Owed(b.tickets, "cash") + b.surplus
  /\ b.shares[Queue] = Owed(b.tickets, "shares")

Renewed(b) ==
  /\ DOMAIN b.tickets = DOMAIN tickets
  /\ \A i \in DOMAIN tickets :
       /\ b.tickets[i].owner = tickets[i].owner
       /\ b.tickets[i].isCreate = tickets[i].isCreate
       /\ b.tickets[i] # tickets[i] /\ b.tickets[i].status = Pending
            => b.tickets[i].cutoff >= now + MIN_CUTOFF_DELAY

Sound(b) == b \in BatchType /\ Backed(b) /\ Renewed(b)

(* Replacing one ticket by another of the same owner and kind.              *)
LEMMA RenewOne ==
  ASSUME TypeOK, NEW b, b \in BatchType, Renewed(b),
         NEW id \in DOMAIN b.tickets, NEW u \in Ticket,
         u.owner = b.tickets[id].owner, u.isCreate = b.tickets[id].isCreate,
         u.status = Pending => u.cutoff >= now + MIN_CUTOFF_DELAY,
         NEW c, c.tickets = [b.tickets EXCEPT ![id] = u]
  PROVE  Renewed(c) /\ c.tickets \in Seq(Ticket)
<1>1. b.tickets \in Seq(Ticket)
  BY DEF BatchType
<1> QED
  BY <1>1 DEF Renewed

LEMMA AccruedSound ==
  ASSUME TypeOK, NEW x \in TermsType, NEW b, Sound(b)
  PROVE  Sound(Accrued(b, x)) /\ Accrued(b, x).tickets = b.tickets
<1>1. CASE b.worked
  BY <1>1 DEF Accrued
<1>2. CASE ~b.worked
  <2> DEFINE c == Accrued(b, x)
  <2>1. b \in BatchType
    BY DEF Sound
  <2>2. x.accrual.keeper \in Nat /\ x.accrual.others \in Nat
    BY DEF TermsType
  <2>3. /\ KeeperModule \in Accounts /\ Market \in Accounts /\ Queue \in Accounts
        /\ Queue # KeeperModule /\ Queue # Market
    BY Parties
  <2>4. c = [b EXCEPT !.shares[KeeperModule] = @ + x.accrual.keeper,
                      !.shares[Market] = @ + x.accrual.others,
                      !.supply = @ + x.accrual.keeper + x.accrual.others]
    BY <1>2 DEF Accrued
  <2> DEFINE sh == [b.shares EXCEPT ![KeeperModule] = @ + x.accrual.keeper,
                                    ![Market] = @ + x.accrual.others]
             sup == b.supply + x.accrual.keeper + x.accrual.others
  <2>5. /\ b.shares \in [Accounts -> Nat] /\ b.supply \in Nat
        /\ b = [ok |-> b.ok, worked |-> b.worked, tickets |-> b.tickets,
                cash |-> b.cash, shares |-> b.shares, supply |-> b.supply,
                surplus |-> b.surplus]
    BY <2>1 DEF BatchType
  <2>6. sh \in [Accounts -> Nat] /\ sh[Queue] = b.shares[Queue] /\ sup \in Nat
    BY <2>2, <2>3, <2>5
  <2>7. c = [b EXCEPT !.shares = sh, !.supply = sup]
    BY <2>4, <2>5
  <2>8. /\ c \in BatchType
        /\ c.tickets = b.tickets /\ c.cash = b.cash /\ c.surplus = b.surplus
        /\ c.shares[Queue] = b.shares[Queue]
    <3> HIDE DEF c, sh, sup
    <3> QED
      BY <2>1, <2>6, <2>7 DEF BatchType
  <2> QED
    BY <2>8 DEF Sound, Backed, Renewed
<1> QED
  BY <1>1, <1>2

(* What a step of the batch owes Sound when it replaces ticket id by u.      *)
LEMMA ReplaceSound ==
  ASSUME TypeOK, NEW b, Sound(b), NEW id \in DOMAIN b.tickets, NEW u \in Ticket,
         u.owner = b.tickets[id].owner, u.isCreate = b.tickets[id].isCreate,
         u.status = Pending => u.cutoff >= now + MIN_CUTOFF_DELAY,
         NEW c \in BatchType, c.tickets = [b.tickets EXCEPT ![id] = u],
         c.cash[Queue] - c.surplus =
           b.cash[Queue] - b.surplus - Claim(b.tickets[id], "cash") + Claim(u, "cash"),
         c.shares[Queue] =
           b.shares[Queue] - Claim(b.tickets[id], "shares") + Claim(u, "shares")
  PROVE  Sound(c)
<1>1. b \in BatchType /\ Backed(b) /\ Renewed(b)
  BY DEF Sound
<1>2. b.tickets \in Seq(Ticket)
  BY <1>1 DEF BatchType
<1>3. Renewed(c)
  BY <1>1, RenewOne
<1>4. ASSUME NEW k
      PROVE  /\ Owed(c.tickets, k) =
                  Owed(b.tickets, k) - Claim(b.tickets[id], k) + Claim(u, k)
             /\ Owed(b.tickets, k) \in Nat
             /\ Claim(b.tickets[id], k) \in Nat /\ Claim(u, k) \in Nat
  <2>1. b.tickets[id] \in Ticket
    BY <1>2
  <2>2. Owed([b.tickets EXCEPT ![id] = u], k) =
          Owed(b.tickets, k) - Claim(b.tickets[id], k) + Claim(u, k)
    BY <1>2, OwedUpdate
  <2>3. Owed(b.tickets, k) \in Nat
    BY <1>2, OwedNat
  <2>4. Claim(b.tickets[id], k) \in Nat /\ Claim(u, k) \in Nat
    BY <2>1, ClaimNat
  <2> QED
    BY <2>2, <2>3, <2>4
<1>5. /\ b.cash[Queue] \in Nat /\ c.cash[Queue] \in Nat
      /\ b.surplus \in Nat /\ c.surplus \in Nat
      /\ b.shares[Queue] \in Nat /\ c.shares[Queue] \in Nat
  <2>1. Queue \in Accounts
    BY Parties
  <2> QED
    BY <1>1, <2>1 DEF BatchType
<1>6. c.cash[Queue] = Owed(c.tickets, "cash") + c.surplus
  <2>1. b.cash[Queue] = Owed(b.tickets, "cash") + b.surplus
    BY <1>1 DEF Backed
  <2>2. /\ Owed(c.tickets, "cash") =
             Owed(b.tickets, "cash") - Claim(b.tickets[id], "cash") + Claim(u, "cash")
        /\ Owed(b.tickets, "cash") \in Nat
        /\ Claim(b.tickets[id], "cash") \in Nat /\ Claim(u, "cash") \in Nat
    BY <1>4
  <2> QED
    BY <2>1, <2>2, <1>5
<1>7. c.shares[Queue] = Owed(c.tickets, "shares")
  <2>1. b.shares[Queue] = Owed(b.tickets, "shares")
    BY <1>1 DEF Backed
  <2>2. Owed(c.tickets, "shares") =
          Owed(b.tickets, "shares") - Claim(b.tickets[id], "shares") + Claim(u, "shares")
    BY <1>4
  <2> QED
    BY <2>1, <2>2
<1> QED
  BY <1>3, <1>6, <1>7 DEF Sound, Backed

LEMMA SoundTypes ==
  ASSUME NEW b, Sound(b), NEW id \in DOMAIN b.tickets
  PROVE  /\ b \in BatchType
         /\ b.tickets \in Seq(Ticket)
         /\ b.tickets[id] \in Ticket
         /\ b.tickets[id].amount \in Nat
         /\ b.tickets[id].owner \in Users
         /\ b.tickets[id].isCreate \in BOOLEAN
<1>1. b \in BatchType
  BY DEF Sound
<1>2. b.tickets \in Seq(Ticket)
  BY <1>1 DEF BatchType
<1>3. b.tickets[id] \in Ticket
  BY <1>2
<1> QED
  BY <1>1, <1>2, <1>3 DEF Ticket

LEMMA DeferSound ==
  ASSUME TypeOK, NEW b, Sound(b), NEW id \in DOMAIN b.tickets,
         b.tickets[id].status = Pending
  PROVE  Sound(Defer(b, id))
<1> DEFINE t == b.tickets[id]
           u == Rolled(t, t.amount)
           c == Defer(b, id)
<1>1. b \in BatchType /\ b.tickets \in Seq(Ticket) /\ t \in Ticket /\ t.amount \in Nat
  BY SoundTypes
<1>2. /\ u \in Ticket /\ u.owner = t.owner /\ u.isCreate = t.isCreate
      /\ u.status = t.status /\ u.amount = t.amount
      /\ u.cutoff >= now + MIN_CUTOFF_DELAY
  BY <1>1, RolledTicket
<1>3. c = [b EXCEPT !.tickets = [b.tickets EXCEPT ![id] = u]]
  BY <1>1 DEF Defer, BatchType
<1>4. /\ c \in BatchType
      /\ c.tickets = [b.tickets EXCEPT ![id] = u]
      /\ c.cash = b.cash /\ c.shares = b.shares /\ c.surplus = b.surplus
  <2> HIDE DEF c, u
  <2>1. [b.tickets EXCEPT ![id] = u] \in Seq(Ticket)
    BY <1>1, <1>2
  <2> QED
    BY <1>1, <1>3, <2>1 DEF BatchType
<1>5. Claim(u, "cash") = Claim(t, "cash") /\ Claim(u, "shares") = Claim(t, "shares")
  BY <1>2 DEF Claim, Asset
<1>6. /\ b.cash[Queue] \in Nat /\ b.surplus \in Nat /\ b.shares[Queue] \in Nat
      /\ Claim(t, "cash") \in Nat /\ Claim(t, "shares") \in Nat
  <2>1. Queue \in Accounts
    BY Parties
  <2> QED
    BY <1>1, <2>1, ClaimNat DEF BatchType
<1> HIDE DEF t, u, c
<1>7. c.cash[Queue] - c.surplus =
        b.cash[Queue] - b.surplus - Claim(t, "cash") + Claim(u, "cash")
  BY <1>4, <1>5, <1>6
<1>8. c.shares[Queue] = b.shares[Queue] - Claim(t, "shares") + Claim(u, "shares")
  BY <1>4, <1>5, <1>6
<1> QED
  BY <1>2, <1>4, <1>7, <1>8, ReplaceSound DEF t, c

LEMMA FillCreateSound ==
  ASSUME TypeOK, NEW x \in TermsType, NEW b, Sound(b), NEW id \in DOMAIN b.tickets,
         b.tickets[id].status = Pending, b.tickets[id].isCreate,
         FillCreate(b, id, x).ok
  PROVE  Sound(FillCreate(b, id, x))
<1> DEFINE t == b.tickets[id]
           fill == FillCash(t, x)
           fee == CreateFee
           toAP == fill - fee
           n == SharesFor(toAP, x.price)
           u == AfterFill(t, fill)
           paid == Transfer(Transfer(b.cash, Queue, AP, toAP), Queue, Treasury, fee)
           minted == [b.shares EXCEPT ![t.owner] = @ + n]
           tks == [b.tickets EXCEPT ![id] = u]
           ok == /\ IsRegistry => fill > CreateFee
                 /\ x.price > 0
                 /\ n > 0
                 /\ VaultMints(b, n)
                 /\ b.cash[Queue] >= fill
           c == FillCreate(b, id, x)
<1>1. /\ b \in BatchType /\ b.tickets \in Seq(Ticket)
      /\ t \in Ticket /\ t.amount \in Nat /\ t.owner \in Users
  BY SoundTypes
<1>2. c = [b EXCEPT !.ok = ok, !.tickets = tks, !.cash = paid, !.shares = minted,
                    !.supply = b.supply + n, !.worked = TRUE]
  BY <1>1 DEF FillCreate, BatchType
<1>3. ok
  <2> HIDE DEF ok, tks, paid, minted, n, c
  <2>1. c.ok = ok
    BY <1>1, <1>2 DEF BatchType
  <2> QED
    BY <2>1 DEF c
<1>4. fill \in 0..t.amount
  BY <1>1, FillBounded
<1>5. fee \in Nat /\ x.price \in Nat
  BY Prices DEF TermsType
<1>6. toAP \in Nat
  BY <1>3, <1>4, <1>5, <1>1 DEF CreateFee
<1>7. n \in Nat
  BY <1>3, <1>5, <1>6, Prices
<1>8. /\ u \in Ticket
      /\ u.owner = t.owner /\ u.isCreate = t.isCreate
      /\ u.status = Pending => u.cutoff >= now + MIN_CUTOFF_DELAY
      /\ Claim(u, "cash") = t.amount - fill
      /\ Claim(u, "shares") = 0
  <2>1. Asset(t) = "cash" /\ "shares" # "cash"
    BY DEF Asset
  <2> QED
    BY <2>1, <1>1, <1>4, FilledTicket
<1>9. /\ paid \in [Accounts -> Nat]
      /\ paid[Queue] = b.cash[Queue] - fill
  <2> DEFINE first == Transfer(b.cash, Queue, AP, toAP)
  <2>1. /\ Queue \in Accounts /\ AP \in Accounts /\ Treasury \in Accounts
        /\ Queue # AP /\ Queue # Treasury
        /\ b.cash \in [Accounts -> Nat]
    BY <1>1, Parties DEF BatchType
  <2>2. b.cash[Queue] >= toAP /\ b.cash[Queue] \in Nat /\ b.cash[Queue] >= fill
        /\ fill \in Nat
    BY <2>1, <1>3, <1>4, <1>5, <1>1
  <2> HIDE DEF fill, fee, ok, n, toAP
  <2>3. /\ first \in [Accounts -> Nat]
        /\ first[Queue] = b.cash[Queue] - toAP
    <3>1. first \in [Accounts -> Nat]
      BY <2>1, <2>2, <1>6, TransferKeeps
    <3>2. first[Queue] = b.cash[Queue] - toAP
      BY <2>1, <2>2, <1>6, TransferMoves
    <3> QED
      BY <3>1, <3>2
  <2>4. first[Queue] >= fee
    <3> HIDE DEF first
    <3> QED
      BY <2>2, <2>3, <1>5 DEF toAP
  <2> HIDE DEF first
  <2>5. /\ Transfer(first, Queue, Treasury, fee) \in [Accounts -> Nat]
        /\ Transfer(first, Queue, Treasury, fee)[Queue] = first[Queue] - fee
    <3>1. fee \in Nat
      BY <1>5
    <3>2. Transfer(first, Queue, Treasury, fee) \in [Accounts -> Nat]
      BY <2>1, <2>3, <2>4, <3>1, TransferKeeps
    <3>3. Transfer(first, Queue, Treasury, fee)[Queue] = first[Queue] - fee
      BY <2>1, <2>3, <3>1, TransferMoves
    <3> QED
      BY <3>2, <3>3
  <2> QED
    BY <2>2, <2>3, <2>5, <1>5 DEF first, toAP
<1>10. minted \in [Accounts -> Nat] /\ minted[Queue] = b.shares[Queue]
  <2>1. t.owner \in Accounts /\ Queue # t.owner /\ b.shares \in [Accounts -> Nat]
    BY <1>1, Parties DEF BatchType
  <2> HIDE DEF n, t
  <2> QED
    BY <2>1, <1>7, Parties
<1>11. tks \in Seq(Ticket)
  BY <1>1, <1>8
<1> HIDE DEF fill, fee, n, u, paid, minted, ok, tks, c
<1>12. /\ c \in BatchType /\ c.tickets = tks /\ c.cash = paid /\ c.shares = minted
       /\ c.surplus = b.surplus
  <2>1. ok = TRUE
    BY <1>3 DEF ok
  <2>2. b.supply + n \in Nat
    BY <1>1, <1>7 DEF BatchType
  <2>3. c = [b EXCEPT !.ok = TRUE, !.tickets = tks, !.cash = paid, !.shares = minted,
                      !.supply = b.supply + n, !.worked = TRUE]
    BY <1>2, <2>1
  <2> QED
    BY <1>1, <2>2, <2>3, <1>9, <1>10, <1>11 DEF BatchType
<1>13. Claim(t, "cash") = t.amount /\ Claim(t, "shares") = 0
  BY DEF Claim, Asset
<1>14. /\ b.cash[Queue] \in Nat /\ b.surplus \in Nat /\ b.shares[Queue] \in Nat
       /\ fill \in Nat
  BY <1>1, <1>4, Parties DEF BatchType
<1>15. c.cash[Queue] - c.surplus =
         b.cash[Queue] - b.surplus - Claim(t, "cash") + Claim(u, "cash")
  <2>1. c.cash[Queue] = b.cash[Queue] - fill /\ c.surplus = b.surplus
    BY <1>9, <1>12
  <2>2. Claim(u, "cash") = t.amount - fill /\ Claim(t, "cash") = t.amount /\ t.amount \in Nat
    BY <1>1, <1>8, <1>13
  <2> HIDE DEF t
  <2> QED
    BY <2>1, <2>2, <1>14
<1>16. c.shares[Queue] = b.shares[Queue] - Claim(t, "shares") + Claim(u, "shares")
  BY <1>8, <1>10, <1>12, <1>13, <1>14
<1>17. c.tickets = [b.tickets EXCEPT ![id] = u]
  BY <1>12 DEF tks
<1> QED
  BY <1>8, <1>12, <1>15, <1>16, <1>17, ReplaceSound DEF c

(* The three payments of a registry redeem: the AP's to the queue, the flat *)
(* fee to the treasury, the rest to the owner.                              *)
Payments(bal, owner, pay, fee, rest) ==
  Transfer(Transfer(Transfer(bal, AP, Queue, pay), Queue, Treasury, fee),
           Queue, owner, rest)

(* A registry redeem leaves the queue with what the AP paid beyond its      *)
(* obligation, and nothing else.                                            *)
LEMMA RegistryPayment ==
  ASSUME NEW bal \in [Accounts -> Nat], NEW owner \in Users,
         NEW pay \in Nat, NEW fee \in Nat, NEW rest \in Nat,
         bal[AP] >= pay, fee + rest <= pay
  PROVE  /\ Payments(bal, owner, pay, fee, rest) \in [Accounts -> Nat]
         /\ Payments(bal, owner, pay, fee, rest)[Queue] = bal[Queue] + (pay - fee - rest)
<1> DEFINE first == Transfer(bal, AP, Queue, pay)
           second == Transfer(first, Queue, Treasury, fee)
           third == Transfer(second, Queue, owner, rest)
<1>1. /\ Queue \in Accounts /\ AP \in Accounts /\ Treasury \in Accounts
      /\ owner \in Accounts
      /\ Queue # AP /\ Queue # Treasury /\ Queue # owner
  BY Parties
<1>2. bal[Queue] \in Nat /\ bal[AP] \in Nat
  BY <1>1
<1>3. first \in [Accounts -> Nat]
  BY <1>1, <1>2, TransferKeeps
<1>4. first[Queue] = bal[Queue] + pay
  BY <1>1, <1>2, TransferMoves
<1> HIDE DEF first
<1>5. first[Queue] >= fee
  BY <1>2, <1>4
<1>6. second \in [Accounts -> Nat]
  BY <1>1, <1>2, <1>3, <1>5, TransferKeeps
<1>7. second[Queue] = first[Queue] - fee
  BY <1>1, <1>2, <1>3 DEF Transfer
<1> HIDE DEF second
<1>8. second[Queue] >= rest
  BY <1>2, <1>4, <1>7
<1>9. third \in [Accounts -> Nat]
  BY <1>1, <1>2, <1>6, <1>8, TransferKeeps
<1>10. third[Queue] = second[Queue] - rest
  BY <1>1, <1>2, <1>6, TransferMoves
<1> HIDE DEF third
<1>11. third[Queue] = bal[Queue] + (pay - fee - rest)
  BY <1>2, <1>4, <1>7, <1>10
<1>12. Payments(bal, owner, pay, fee, rest) = third
  BY DEF Payments, first, second, third
<1> QED
  BY <1>9, <1>11, <1>12

LEMMA FillRedeemSound ==
  ASSUME TypeOK, NEW x \in TermsType, NEW b, Sound(b), NEW id \in DOMAIN b.tickets,
         b.tickets[id].status = Pending, ~b.tickets[id].isCreate,
         FillRedeem(b, id, x).ok
  PROVE  Sound(FillRedeem(b, id, x))
<1> DEFINE t == b.tickets[id]
           owed == CashFor(t.amount, x.price)
           pay == owed + x.overpay
           fee == Least(fees.redeem, owed)
           u == [t EXCEPT !.status = Settled]
           tks == [b.tickets EXCEPT ![id] = u]
           burned == [b.shares EXCEPT ![Queue] = @ - t.amount]
           paid == IF IsRegistry
                     THEN Transfer(Transfer(Transfer(b.cash, AP, Queue, pay),
                            Queue, Treasury, fee), Queue, t.owner, owed - fee)
                     ELSE Transfer(b.cash, AP, t.owner, pay)
           sur == IF IsRegistry THEN b.surplus + x.overpay ELSE b.surplus
           ok == RedeemAllowed(b, t, owed, pay)
           c == FillRedeem(b, id, x)
<1>1. /\ b \in BatchType /\ b.tickets \in Seq(Ticket)
      /\ t \in Ticket /\ t.amount \in Nat /\ t.owner \in Users
  BY SoundTypes
<1>2. c = [b EXCEPT !.ok = ok, !.tickets = tks, !.cash = paid, !.shares = burned,
                    !.supply = b.supply - t.amount, !.surplus = sur, !.worked = TRUE]
  BY <1>1, ZenonT(40) DEF FillRedeem, BatchType
<1>3. ok
  <2> HIDE DEF ok, tks, paid, burned, sur, c
  <2>1. c.ok = ok
    BY <1>1, <1>2 DEF BatchType
  <2> QED
    BY <2>1 DEF c
<1>4. /\ b.shares[Queue] >= t.amount /\ b.supply >= t.amount
      /\ pay >= owed /\ b.cash[AP] >= pay
  BY <1>3 DEF RedeemAllowed
<1>5. owed \in Nat
  <2>1. x.price \in Nat
    BY DEF TermsType
  <2> QED
    BY <1>1, <2>1, Prices
<1>6. x.overpay \in Nat
  <2>1. x.overpay \in Int
    BY DEF TermsType
  <2> HIDE DEF owed
  <2> QED
    BY <2>1, <1>4, <1>5
<1>7. fee \in 0..owed
  <2>1. fees.redeem \in Nat
    BY ScaleAssumption DEF TypeOK
  <2> HIDE DEF owed
  <2> QED
    BY <2>1, <1>5 DEF Least
<1>8. /\ u \in Ticket
      /\ u.owner = t.owner /\ u.isCreate = t.isCreate
      /\ u.status # Pending
      /\ Claim(u, "cash") = 0 /\ Claim(u, "shares") = 0
  <2> HIDE DEF t
  <2> QED
    BY <1>1 DEF Ticket, Claim, Pending, Settled
<1>9. Claim(t, "cash") = 0 /\ Claim(t, "shares") = t.amount
  BY DEF Claim, Asset
<1>10. /\ b.cash \in [Accounts -> Nat] /\ b.shares \in [Accounts -> Nat]
       /\ b.supply \in Nat /\ b.surplus \in Nat
       /\ Queue \in Accounts /\ AP \in Accounts
       /\ t.owner \in Accounts /\ t.owner # Queue /\ AP # Queue
  BY <1>1, Parties DEF BatchType
<1> HIDE DEF t, owed, fee, u, c, ok
<1>11. /\ paid \in [Accounts -> Nat] /\ sur \in Nat
       /\ paid[Queue] - sur = b.cash[Queue] - b.surplus
  <2>1. b.cash[Queue] \in Nat
    BY <1>10
  <2>2. CASE IsRegistry
    <3>1. paid \in [Accounts -> Nat] /\ paid[Queue] = b.cash[Queue] + x.overpay
      <4> DEFINE rest == owed - fee
      <4>1. paid = Payments(b.cash, t.owner, pay, fee, rest)
        BY <2>2 DEF Payments
      <4>2. /\ pay = owed + x.overpay /\ pay \in Nat
            /\ fee \in Nat /\ rest \in Nat /\ fee + rest = owed
        BY <1>5, <1>6, <1>7
      <4>3. t.owner \in Users /\ b.cash[AP] >= pay
        BY <1>1, <1>4
      <4> HIDE DEF pay, rest, paid
      <4>4. fee + rest <= pay
        BY <4>2, <1>6
      <4>5. /\ Payments(b.cash, t.owner, pay, fee, rest) \in [Accounts -> Nat]
            /\ Payments(b.cash, t.owner, pay, fee, rest)[Queue]
                 = b.cash[Queue] + (pay - fee - rest)
        <5>1. /\ b.cash \in [Accounts -> Nat] /\ t.owner \in Users
              /\ pay \in Nat /\ fee \in Nat /\ rest \in Nat
              /\ b.cash[AP] >= pay /\ fee + rest <= pay
          BY <4>2, <4>3, <4>4, <1>10
        <5> DEFINE bal == b.cash
                   owner == t.owner
        <5> HIDE DEF bal, owner
        <5>2. /\ Payments(bal, owner, pay, fee, rest) \in [Accounts -> Nat]
              /\ Payments(bal, owner, pay, fee, rest)[Queue] = bal[Queue] + (pay - fee - rest)
          BY <5>1, RegistryPayment DEF bal, owner
        <5> QED
          BY <5>2 DEF bal, owner
      <4>6. pay - fee - rest = x.overpay
        BY <4>2, <1>5, <1>6
      <4> QED
        BY <4>1, <4>5, <4>6
    <3>2. sur = b.surplus + x.overpay
      BY <2>2
    <3> HIDE DEF paid, sur
    <3> QED
      BY <3>1, <3>2, <2>1, <1>6, <1>10
  <2>3. CASE ~IsRegistry
    <3>1. pay \in Nat
      BY <1>5, <1>6
    <3> HIDE DEF pay
    <3>2. Transfer(b.cash, AP, t.owner, pay) \in [Accounts -> Nat]
      BY <3>1, <1>4, <1>10, TransferKeeps
    <3>3. Transfer(b.cash, AP, t.owner, pay)[Queue] = b.cash[Queue]
      BY <1>10 DEF Transfer
    <3> QED
      BY <2>1, <2>3, <3>2, <3>3, <1>10
  <2> QED
    BY <2>2, <2>3
<1>12. /\ burned \in [Accounts -> Nat]
       /\ burned[Queue] = b.shares[Queue] - t.amount
       /\ b.supply - t.amount \in Nat
  <2> DEFINE bal == b.shares
             m == t.amount
  <2>1. /\ bal \in [Accounts -> Nat] /\ Queue \in Accounts /\ m \in Nat
        /\ bal[Queue] >= m
    BY <1>1, <1>4, <1>10
  <2>2. b.supply - t.amount \in Nat
    BY <1>1, <1>4, <1>10
  <2> HIDE DEF bal, m
  <2>3. /\ [bal EXCEPT ![Queue] = @ - m] \in [Accounts -> Nat]
        /\ [bal EXCEPT ![Queue] = @ - m][Queue] = bal[Queue] - m
    BY <2>1
  <2> QED
    BY <2>2, <2>3 DEF bal, m
<1>13. tks \in Seq(Ticket)
  BY <1>1, <1>8
<1> HIDE DEF paid, burned, sur, tks, pay
<1>14. /\ c \in BatchType /\ c.tickets = tks /\ c.cash = paid /\ c.shares = burned
       /\ c.surplus = sur
  <2>1. ok = TRUE
    BY <1>3 DEF ok, RedeemAllowed
  <2>2. c = [b EXCEPT !.ok = TRUE, !.tickets = tks, !.cash = paid, !.shares = burned,
                      !.supply = b.supply - t.amount, !.surplus = sur, !.worked = TRUE]
    BY <1>2, <2>1
  <2> QED
    BY <1>1, <2>2, <1>11, <1>12, <1>13 DEF BatchType
<1>15. c.cash[Queue] - c.surplus =
         b.cash[Queue] - b.surplus - Claim(t, "cash") + Claim(u, "cash")
  BY <1>8, <1>9, <1>10, <1>11, <1>14
<1>16. c.shares[Queue] = b.shares[Queue] - Claim(t, "shares") + Claim(u, "shares")
  BY <1>1, <1>8, <1>9, <1>10, <1>12, <1>14
<1>17. c.tickets = [b.tickets EXCEPT ![id] = u]
  BY <1>14 DEF tks
<1> QED
  BY <1>8, <1>14, <1>15, <1>16, <1>17, ReplaceSound DEF c, t

LEMMA SettleOneSound ==
  ASSUME TypeOK, NEW x \in TermsType, NEW b, Sound(b), NEW id \in DOMAIN tickets,
         SettleOne(b, id, x).ok
  PROVE  Sound(SettleOne(b, id, x))
<1> DEFINE t == b.tickets[id]
           a == Accrued(b, x)
<1>1. id \in DOMAIN b.tickets /\ b.ok
  <2>1. b \in BatchType /\ Renewed(b)
    BY DEF Sound
  <2> QED
    BY <2>1 DEF Renewed, BatchType
<1>2. Sound(a) /\ a.tickets = b.tickets
  BY AccruedSound
<1>3. CASE ~Due(t)
  BY <1>3 DEF SettleOne
<1>4. CASE Due(t) /\ ~t.isCreate
  <2>1. SettleOne(b, id, x) = FillRedeem(a, id, x)
    BY <1>1, <1>4 DEF SettleOne
  <2>2. id \in DOMAIN a.tickets /\ a.tickets[id].status = Pending /\ ~a.tickets[id].isCreate
    BY <1>1, <1>2, <1>4 DEF Due
  <2> HIDE DEF a
  <2> QED
    BY <1>2, <2>1, <2>2, FillRedeemSound
<1>5. CASE Due(t) /\ t.isCreate /\ FillCash(t, x) = 0
  <2>1. SettleOne(b, id, x) = Defer(b, id)
    BY <1>1, <1>5 DEF SettleOne
  <2> QED
    BY <1>1, <1>5, <2>1, DeferSound DEF Due
<1>6. CASE Due(t) /\ t.isCreate /\ FillCash(t, x) # 0
  <2>1. SettleOne(b, id, x) = FillCreate(a, id, x)
    BY <1>1, <1>6 DEF SettleOne
  <2>2. id \in DOMAIN a.tickets /\ a.tickets[id].status = Pending /\ a.tickets[id].isCreate
    BY <1>1, <1>2, <1>6 DEF Due
  <2> HIDE DEF a
  <2> QED
    BY <1>2, <2>1, <2>2, FillCreateSound
<1> QED
  BY <1>3, <1>4, <1>5, <1>6

-----------------------------------------------------------------------------
(* The whole batch.                                                         *)

LEMMA BatchesRecursion ==
  ASSUME NEW ids, Len(ids) \in Nat, NEW x
  PROVE  Batches(ids, x) =
           [k \in 0..Len(ids) |->
              IF k = 0 THEN Start ELSE SettleOne(Batches(ids, x)[k - 1], ids[k], x)]
<1> DEFINE IsRun(f, n) ==
             f = [k \in 0..n |-> IF k = 0 THEN Start ELSE SettleOne(f[k - 1], ids[k], x)]
           Good == {n \in Nat : \E f : IsRun(f, n)}
<1>1. 0 \in Good
  <2>1. IsRun([k \in 0..0 |-> Start], 0)
    OBVIOUS
  <2> QED
    BY <2>1
<1>2. ASSUME NEW n \in Nat, n \in Good
      PROVE  n + 1 \in Good
  <2>1. PICK f : IsRun(f, n)
    BY <1>2
  <2> DEFINE g == [k \in 0..(n + 1) |->
                     IF k = n + 1 THEN SettleOne(f[n], ids[n + 1], x) ELSE f[k]]
  <2>2. \A k \in 0..(n + 1) : g[k] = IF k = 0 THEN Start ELSE SettleOne(g[k - 1], ids[k], x)
    <3> TAKE k \in 0..(n + 1)
    <3>1. CASE k = n + 1
      BY <3>1
    <3>2. CASE k \in 0..n
      <4>1. f[k] = IF k = 0 THEN Start ELSE SettleOne(f[k - 1], ids[k], x)
        BY <2>1, <3>2
      <4> QED
        BY <4>1, <3>2
    <3> QED
      BY <3>1, <3>2
  <2>3. g = [k \in 0..(n + 1) |-> g[k]]
    OBVIOUS
  <2>4. IsRun(g, n + 1)
    BY <2>2, <2>3
  <2>5. \E h : IsRun(h, n + 1)
    <3> HIDE DEF IsRun, g
    <3> QED
      BY <2>4
  <2> QED
    BY <2>5
<1>3. Len(ids) \in Good
  <2> HIDE DEF Good
  <2> QED
    BY <1>1, <1>2, SetInduction
<1>4. \E f : IsRun(f, Len(ids))
  BY <1>3
<1>5. IsRun(Batches(ids, x), Len(ids))
  BY <1>4 DEF Batches
<1> QED
  BY <1>5

LEMMA BatchesSteps ==
  ASSUME NEW ids, Len(ids) \in Nat, NEW x
  PROVE  /\ Batches(ids, x)[0] = Start
         /\ \A k \in 1..Len(ids) :
              Batches(ids, x)[k] = SettleOne(Batches(ids, x)[k - 1], ids[k], x)
<1>1. PICK f : /\ f = Batches(ids, x)
               /\ f = [k \in 0..Len(ids) |->
                         IF k = 0 THEN Start ELSE SettleOne(f[k - 1], ids[k], x)]
  BY BatchesRecursion
<1>2. f[0] = Start
  BY <1>1
<1>3. ASSUME NEW k \in 1..Len(ids)
      PROVE  f[k] = SettleOne(f[k - 1], ids[k], x)
  <2>1. k \in 0..Len(ids) /\ k # 0
    OBVIOUS
  <2> QED
    BY <1>1, <2>1
<1> QED
  BY <1>1, <1>2, <1>3

LEMMA StartSound ==
  ASSUME TypeOK, EscrowExact
  PROVE  Sound(Start)
<1>1. Start \in BatchType
  BY DEF TypeOK, Start, BatchType
<1>2. Backed(Start) /\ Renewed(Start)
  BY DEF EscrowExact, Start, Backed, Renewed
<1> QED
  BY <1>1, <1>2 DEF Sound

LEMMA BatchSound ==
  ASSUME TypeOK, EscrowExact, NEW x \in TermsType,
         NEW ids \in Seq(DOMAIN tickets), Run(ids, x).ok
  PROVE  Sound(Run(ids, x))
<1> DEFINE b == Batches(ids, x)
           S == {k \in Nat : k <= Len(ids) /\ b[k].ok => Sound(b[k])}
<1>1. Len(ids) \in Nat
  OBVIOUS
<1>2. 0 \in S
  BY <1>1, BatchesSteps, StartSound
<1>3. ASSUME NEW k \in Nat, k \in S
      PROVE  k + 1 \in S
  <2> SUFFICES ASSUME k + 1 <= Len(ids), b[k + 1].ok
               PROVE  Sound(b[k + 1])
    OBVIOUS
  <2>1. k + 1 \in 1..Len(ids) /\ (k + 1) - 1 = k /\ k <= Len(ids)
    BY <1>1
  <2>2. b[k + 1] = SettleOne(b[k], ids[k + 1], x)
    BY <1>1, <2>1, BatchesSteps
  <2>3. ids[k + 1] \in DOMAIN tickets
    BY <2>1
  <2> HIDE DEF b
  <2>4. b[k].ok
    BY <2>2 DEF SettleOne
  <2>5. Sound(b[k])
    BY <1>3, <2>1, <2>4
  <2> QED
    BY <2>2, <2>3, <2>5, SettleOneSound
<1>4. Nat \subseteq S
  <2> HIDE DEF S
  <2> QED
    BY <1>2, <1>3, SetInduction
<1>5. Len(ids) \in S
  BY <1>1, <1>4
<1> QED
  BY <1>5 DEF Run

LEMMA TermsTyped ==
  ASSUME TypeOK, NEW r \in Readings, NEW extra \in Int,
         NEW accrual \in [keeper : Nat, others : Nat],
         NEW ids \in Seq(DOMAIN tickets),
         GatePasses(r),
         Capped /\ (\E k \in DOMAIN ids : FillableCreate(ids[k])) => NavPerShare(r) > 0
  PROVE  Terms(ids, r, extra, accrual) \in TermsType
<1>1. NavPerShare(r) \in Nat
  <2>1. r.nav \in Nat /\ supply \in Nat \ {0}
    BY InputAssumption DEF TypeOK, GatePasses, Reading
  <2> QED
    BY <2>1, ScaleAssumption, ProductNat, QuotientNat DEF NavPerShare
<1>2. Capacity \in Nat
  <2>1. supply \in Nat /\ params.maxCreateFlowBps \in Nat
    BY ScaleAssumption DEF TypeOK, Params
  <2> QED
    BY <2>1, ScaleAssumption, ProductNat, QuotientNat DEF Capacity
<1>3. Capped => Demand(ids, NavPerShare(r)) \in Nat
  <2> SUFFICES ASSUME Capped PROVE Demand(ids, NavPerShare(r)) \in Nat
    OBVIOUS
  <2> DEFINE asked == [k \in DOMAIN ids |->
               IF FillableCreate(ids[k])
                 THEN SharesFor(tickets[ids[k]].amount, NavPerShare(r)) ELSE 0]
  <2>1. ASSUME NEW k \in 1..Len(ids)
        PROVE  asked[k] \in Nat
    <3>1. tickets \in Seq(Ticket) /\ ids[k] \in DOMAIN tickets
      BY DEF TypeOK
    <3>2. tickets[ids[k]] \in Ticket
      BY <3>1
    <3>3. tickets[ids[k]].amount \in Nat
      BY <3>2 DEF Ticket
    <3>4. FillableCreate(ids[k]) =>
            SharesFor(tickets[ids[k]].amount, NavPerShare(r)) \in Nat
      <4> SUFFICES ASSUME FillableCreate(ids[k])
                   PROVE  SharesFor(tickets[ids[k]].amount, NavPerShare(r)) \in Nat
        OBVIOUS
      <4>1. k \in DOMAIN ids
        OBVIOUS
      <4>2. NavPerShare(r) > 0
        BY <4>1
      <4> QED
        BY <1>1, <3>3, <4>2, Prices
    <3> QED
      BY <3>4
  <2>2. asked \in Seq(Nat)
    <3>1. DOMAIN asked = 1..Len(ids) /\ Len(ids) \in Nat
      OBVIOUS
    <3> QED
      BY <2>1, <3>1
  <2> QED
    BY <2>2, TotalNat DEF Demand
<1> QED
  BY <1>1, <1>2, <1>3 DEF Terms, TermsType

-----------------------------------------------------------------------------
(* The steps of the queue.                                                  *)

LEMMA TipBounded ==
  ASSUME TypeOK, NEW escrow \in Nat
  PROVE  Tip(escrow) \in 0..escrow
<1>1. params.keeperTip \in Nat /\ keeper.maxRewardPerCall \in Nat
  BY DEF TypeOK, Params, KeeperParams
<1> QED
  BY <1>1 DEF Tip, Least

LEMMA SettleStep ==
  ASSUME TypeOK, EscrowExact,
         NEW r \in Readings, NEW extra \in Overpay, NEW accrual \in Accruals,
         NEW ids \in Seq(DOMAIN tickets),
         Settle(ids, r, extra, accrual)
  PROVE  TypeOK' /\ EscrowExact' /\ RolledIsCancelable
<1> DEFINE x == Terms(ids, r, extra, accrual)
           b == Run(ids, x)
           tip == Tip(b.shares[KeeperModule])
           tipped == Transfer(b.shares, KeeperModule, Keeper, tip)
<1>1. x \in TermsType
  <2>1. /\ GatePasses(r)
        /\ Capped /\ (\E k \in DOMAIN ids : FillableCreate(ids[k])) => NavPerShare(r) > 0
    BY DEF Settle, Terms
  <2>2. extra \in Int /\ accrual \in [keeper : Nat, others : Nat]
    BY InputAssumption
  <2> QED
    BY <2>1, <2>2, TermsTyped
<1>2. Sound(b)
  <2>1. Run(ids, x).ok
    BY DEF Settle
  <2> HIDE DEF x
  <2> QED
    BY <1>1, <2>1, BatchSound
<1>3. /\ tickets' = b.tickets /\ cash' = b.cash /\ supply' = b.supply
      /\ surplus' = b.surplus
      /\ shares' = IF b.worked THEN tipped ELSE b.shares
      /\ fees' = fees /\ params' = params /\ keeper' = keeper /\ now' = now
      /\ deposits' = deposits
  BY DEF Settle, config
<1> HIDE DEF b, x
<1>4. b \in BatchType /\ Backed(b) /\ Renewed(b)
  BY <1>2 DEF Sound
<1>5. tipped \in [Accounts -> Nat] /\ tipped[Queue] = b.shares[Queue]
  <2>1. /\ b.shares \in [Accounts -> Nat]
        /\ KeeperModule \in Accounts /\ Keeper \in Accounts /\ Queue \in Accounts
        /\ Queue # KeeperModule /\ Queue # Keeper
    BY <1>4, Parties DEF BatchType
  <2>2. b.shares[KeeperModule] \in Nat
    BY <2>1
  <2>3. tip \in 0..b.shares[KeeperModule]
    BY <2>2, TipBounded
  <2> HIDE DEF tip
  <2>4. tipped \in [Accounts -> Nat]
    <3>1. tip \in Nat /\ b.shares[KeeperModule] >= tip
      BY <2>2, <2>3
    <3> QED
      BY <2>1, <3>1, TransferKeeps
  <2>5. tipped[Queue] = b.shares[Queue]
    BY <2>1 DEF Transfer
  <2> QED
    BY <2>4, <2>5
<1> HIDE DEF tip, tipped
<1>6. /\ tickets' \in Seq(Ticket) /\ cash' \in [Accounts -> Nat]
      /\ shares' \in [Accounts -> Nat] /\ supply' \in Nat /\ surplus' \in Nat
      /\ shares'[Queue] = b.shares[Queue]
  BY <1>3, <1>4, <1>5 DEF BatchType
<1>7. Len(tickets') = Len(tickets)
  <2>1. tickets \in Seq(Ticket) /\ b.tickets \in Seq(Ticket)
    BY <1>4 DEF TypeOK, BatchType
  <2>2. DOMAIN b.tickets = DOMAIN tickets
    BY <1>4 DEF Renewed
  <2> QED
    BY <1>3, <2>1, <2>2
<1>8. TypeOK'
  BY <1>3, <1>6, <1>7 DEF TypeOK
<1>9. EscrowExact'
  BY <1>3, <1>4, <1>6 DEF EscrowExact, Backed
<1>10. RolledIsCancelable
  BY <1>3, <1>4 DEF RolledIsCancelable, Renewed
<1> QED
  BY <1>8, <1>9, <1>10

(* A ticket opened with amt claims amt of its asset, and nothing else.      *)
LEMMA OpenTicketStep ==
  ASSUME TypeOK, NEW u \in Users, NEW create \in BOOLEAN, NEW amt \in Nat,
         OpenTicket(u, create, amt)
  PROVE  /\ tickets' \in Seq(Ticket)
         /\ deposits' \in Seq(Nat)
         /\ Len(deposits') = Len(tickets')
         /\ create => /\ Owed(tickets', "cash") = Owed(tickets, "cash") + amt
                      /\ Owed(tickets', "shares") = Owed(tickets, "shares")
         /\ ~create => /\ Owed(tickets', "cash") = Owed(tickets, "cash")
                       /\ Owed(tickets', "shares") = Owed(tickets, "shares") + amt
         /\ RolledIsCancelable
<1> DEFINE t == [owner |-> u, isCreate |-> create, amount |-> amt,
                 cutoff |-> now + params.cutoffDelay, status |-> Pending]
<1>1. tickets' = Append(tickets, t) /\ deposits' = Append(deposits, amt)
  BY DEF OpenTicket
<1>2. t \in Ticket
  <2>1. now \in Nat /\ params.cutoffDelay \in Nat
    BY ScaleAssumption DEF TypeOK, Params
  <2>2. now + params.cutoffDelay \in Nat
    BY <2>1
  <2> QED
    BY <2>2 DEF Ticket, Pending
<1>3. /\ create => Claim(t, "cash") = amt /\ Claim(t, "shares") = 0
      /\ ~create => Claim(t, "cash") = 0 /\ Claim(t, "shares") = amt
  BY DEF Claim, Asset
<1> HIDE DEF t
<1>4. tickets \in Seq(Ticket) /\ deposits \in Seq(Nat) /\ Len(deposits) = Len(tickets)
  BY DEF TypeOK
<1>5. /\ tickets' \in Seq(Ticket) /\ deposits' \in Seq(Nat)
      /\ Len(deposits') = Len(tickets')
      /\ \A i \in DOMAIN tickets : tickets'[i] = tickets[i]
  BY <1>1, <1>2, <1>4
<1>6. /\ Owed(tickets', "cash") = Owed(tickets, "cash") + Claim(t, "cash")
      /\ Owed(tickets', "shares") = Owed(tickets, "shares") + Claim(t, "shares")
  BY <1>1, <1>2, <1>4, OwedAppend
<1>7. Owed(tickets, "cash") \in Nat /\ Owed(tickets, "shares") \in Nat
  BY <1>4, OwedNat
<1>8. RolledIsCancelable
  BY <1>5 DEF RolledIsCancelable
<1> QED
  BY <1>3, <1>5, <1>6, <1>7, <1>8

LEMMA RequestCreateStep ==
  ASSUME TypeOK, EscrowExact, NEW u \in Users, NEW amt \in Amounts,
         RequestCreate(u, amt)
  PROVE  TypeOK' /\ EscrowExact' /\ RolledIsCancelable
<1>1. amt \in Nat
  BY InputAssumption
<1>2. /\ cash[u] >= amt /\ cash' = Transfer(cash, u, Queue, amt)
      /\ OpenTicket(u, TRUE, amt)
      /\ shares' = shares /\ supply' = supply /\ fees' = fees /\ params' = params
      /\ keeper' = keeper /\ now' = now /\ surplus' = surplus
  BY DEF RequestCreate, OpenTicket, config
<1>3. /\ tickets' \in Seq(Ticket) /\ deposits' \in Seq(Nat)
      /\ Len(deposits') = Len(tickets')
      /\ Owed(tickets', "cash") = Owed(tickets, "cash") + amt
      /\ Owed(tickets', "shares") = Owed(tickets, "shares")
      /\ RolledIsCancelable
  <2>1. \A create \in BOOLEAN : create = TRUE /\ OpenTicket(u, create, amt) =>
          /\ tickets' \in Seq(Ticket) /\ deposits' \in Seq(Nat)
          /\ Len(deposits') = Len(tickets')
          /\ Owed(tickets', "cash") = Owed(tickets, "cash") + amt
          /\ Owed(tickets', "shares") = Owed(tickets, "shares")
          /\ RolledIsCancelable
    BY <1>1, OpenTicketStep
  <2> QED
    BY <1>2, <2>1, Zenon
<1>4. cash \in [Accounts -> Nat] /\ u \in Accounts /\ Queue \in Accounts /\ u # Queue
  BY Parties DEF TypeOK
<1>5. cash' \in [Accounts -> Nat] /\ cash'[Queue] = cash[Queue] + amt
  <2>1. cash' \in [Accounts -> Nat]
    BY <1>1, <1>2, <1>4, TransferKeeps
  <2>2. cash'[Queue] = cash[Queue] + amt
    BY <1>1, <1>2, <1>4, TransferMoves
  <2> QED
    BY <2>1, <2>2
<1>6. TypeOK'
  BY <1>2, <1>3, <1>5 DEF TypeOK
<1>7. EscrowExact'
  <2>1. /\ cash[Queue] = Owed(tickets, "cash") + surplus
        /\ shares[Queue] = Owed(tickets, "shares")
    BY DEF EscrowExact
  <2>2. Owed(tickets, "cash") \in Nat /\ surplus \in Nat
    BY OwedNat DEF TypeOK
  <2>3. cash'[Queue] = Owed(tickets', "cash") + surplus
    BY <1>1, <1>3, <1>5, <2>1, <2>2
  <2> QED
    BY <1>2, <1>3, <2>1, <2>3 DEF EscrowExact
<1> QED
  BY <1>3, <1>6, <1>7

LEMMA RequestRedeemStep ==
  ASSUME TypeOK, EscrowExact, NEW u \in Users, NEW amt \in Amounts,
         RequestRedeem(u, amt)
  PROVE  TypeOK' /\ EscrowExact' /\ RolledIsCancelable
<1>1. amt \in Nat
  BY InputAssumption
<1>2. /\ shares[u] >= amt /\ shares' = Transfer(shares, u, Queue, amt)
      /\ OpenTicket(u, FALSE, amt)
      /\ cash' = cash /\ supply' = supply /\ fees' = fees /\ params' = params
      /\ keeper' = keeper /\ now' = now /\ surplus' = surplus
  BY DEF RequestRedeem, OpenTicket, config
<1>3. /\ tickets' \in Seq(Ticket) /\ deposits' \in Seq(Nat)
      /\ Len(deposits') = Len(tickets')
      /\ Owed(tickets', "cash") = Owed(tickets, "cash")
      /\ Owed(tickets', "shares") = Owed(tickets, "shares") + amt
      /\ RolledIsCancelable
  <2>1. \A create \in BOOLEAN : create = FALSE /\ OpenTicket(u, create, amt) =>
          /\ tickets' \in Seq(Ticket) /\ deposits' \in Seq(Nat)
          /\ Len(deposits') = Len(tickets')
          /\ Owed(tickets', "cash") = Owed(tickets, "cash")
          /\ Owed(tickets', "shares") = Owed(tickets, "shares") + amt
          /\ RolledIsCancelable
    BY <1>1, OpenTicketStep
  <2> QED
    BY <1>2, <2>1, Zenon
<1>4. shares \in [Accounts -> Nat] /\ u \in Accounts /\ Queue \in Accounts /\ u # Queue
  BY Parties DEF TypeOK
<1>5. shares' \in [Accounts -> Nat] /\ shares'[Queue] = shares[Queue] + amt
  <2>1. shares' \in [Accounts -> Nat]
    BY <1>1, <1>2, <1>4, TransferKeeps
  <2>2. shares'[Queue] = shares[Queue] + amt
    BY <1>1, <1>2, <1>4, TransferMoves
  <2> QED
    BY <2>1, <2>2
<1>6. TypeOK'
  BY <1>2, <1>3, <1>5 DEF TypeOK
<1>7. EscrowExact'
  BY <1>2, <1>3, <1>5 DEF EscrowExact
<1> QED
  BY <1>3, <1>6, <1>7

LEMMA CancelStep ==
  ASSUME TypeOK, EscrowExact, NEW u \in Users, NEW id \in DOMAIN tickets,
         Cancel(u, id)
  PROVE  TypeOK' /\ EscrowExact' /\ RolledIsCancelable
<1> DEFINE t == tickets[id]
           v == [t EXCEPT !.status = Cancelled]
<1>1. tickets \in Seq(Ticket) /\ deposits \in Seq(Nat) /\ Len(deposits) = Len(tickets)
  BY DEF TypeOK
<1>2. t \in Ticket /\ t.amount \in Nat
  <2>1. t \in Ticket
    BY <1>1
  <2> QED
    BY <2>1 DEF Ticket
<1>3. /\ t.status = Pending
      /\ tickets' = [tickets EXCEPT ![id].status = Cancelled]
      /\ supply' = supply /\ fees' = fees /\ params' = params /\ keeper' = keeper
      /\ now' = now /\ deposits' = deposits /\ surplus' = surplus
  BY DEF Cancel, Cancellable, config, history
<1>4. tickets' = [tickets EXCEPT ![id] = v]
  BY <1>1, <1>3
<1>5. /\ v \in Ticket /\ v.status = Cancelled
      /\ \A asset : Claim(v, asset) = 0
  BY <1>2 DEF Ticket, Claim, Cancelled, Pending
<1> HIDE DEF v
<1>6. /\ tickets' \in Seq(Ticket) /\ Len(tickets') = Len(tickets)
      /\ \A i \in DOMAIN tickets : tickets'[i] # tickets[i] => tickets'[i] = v
  BY <1>1, <1>4, <1>5
<1>7. RolledIsCancelable
  BY <1>5, <1>6 DEF RolledIsCancelable, Cancelled, Pending
<1>8. \A asset : /\ Owed(tickets', asset) = Owed(tickets, asset) - Claim(t, asset)
                 /\ Owed(tickets, asset) \in Nat /\ Claim(t, asset) \in Nat
  <2> TAKE asset
  <2>1. Owed(tickets', asset) = Owed(tickets, asset) - Claim(t, asset) + Claim(v, asset)
    BY <1>1, <1>4, <1>5, OwedUpdate
  <2>2. Owed(tickets, asset) \in Nat /\ Claim(t, asset) \in Nat
    BY <1>1, <1>2, OwedNat, ClaimNat
  <2> QED
    BY <1>5, <2>1, <2>2
<1>9. /\ cash \in [Accounts -> Nat] /\ shares \in [Accounts -> Nat] /\ surplus \in Nat
      /\ u \in Accounts /\ Queue \in Accounts /\ u # Queue
  BY Parties DEF TypeOK
<1>10. /\ cash[Queue] = Owed(tickets, "cash") + surplus
       /\ shares[Queue] = Owed(tickets, "shares")
  BY DEF EscrowExact
<1>11. CASE t.isCreate
  <2>1. /\ cash[Queue] >= t.amount /\ cash' = Transfer(cash, Queue, u, t.amount)
        /\ shares' = shares
    BY <1>11 DEF Cancel
  <2>2. Claim(t, "cash") = t.amount /\ Claim(t, "shares") = 0
    BY <1>3, <1>11 DEF Claim, Asset
  <2> HIDE DEF t
  <2>3. cash' \in [Accounts -> Nat]
    BY <1>2, <1>9, <2>1, TransferKeeps
  <2>4. cash'[Queue] = cash[Queue] - t.amount
    BY <1>2, <1>9, <2>1, TransferMoves
  <2>5. TypeOK'
    BY <1>1, <1>3, <1>6, <2>1, <2>3 DEF TypeOK
  <2>6. cash'[Queue] = Owed(tickets', "cash") + surplus
    BY <1>2, <1>8, <1>9, <1>10, <2>2, <2>4
  <2>7. shares'[Queue] = Owed(tickets', "shares")
    BY <1>8, <1>10, <2>1, <2>2
  <2>8. EscrowExact'
    BY <1>3, <2>6, <2>7 DEF EscrowExact
  <2> QED
    BY <1>7, <2>5, <2>8
<1>12. CASE ~t.isCreate
  <2>1. /\ shares[Queue] >= t.amount /\ shares' = Transfer(shares, Queue, u, t.amount)
        /\ cash' = cash
    BY <1>12 DEF Cancel
  <2>2. Claim(t, "cash") = 0 /\ Claim(t, "shares") = t.amount
    BY <1>3, <1>12 DEF Claim, Asset
  <2> HIDE DEF t
  <2>3. shares' \in [Accounts -> Nat]
    BY <1>2, <1>9, <2>1, TransferKeeps
  <2>4. shares'[Queue] = shares[Queue] - t.amount
    BY <1>2, <1>9, <2>1, TransferMoves
  <2>5. TypeOK'
    BY <1>1, <1>3, <1>6, <2>1, <2>3 DEF TypeOK
  <2>6. cash'[Queue] = Owed(tickets', "cash") + surplus
    BY <1>8, <1>9, <1>10, <2>1, <2>2
  <2>7. shares'[Queue] = Owed(tickets', "shares")
    BY <1>8, <1>10, <2>2, <2>4
  <2>8. EscrowExact'
    BY <1>3, <2>6, <2>7 DEF EscrowExact
  <2> QED
    BY <1>7, <2>5, <2>8
<1> QED
  BY <1>11, <1>12

(* No ticket and neither escrow changes when an owner sets something.       *)
LEMMA SetterStep ==
  ASSUME TypeOK, EscrowExact,
         \/ \E d \in Delays : SetCutoffDelay(d)
         \/ \E b \in Spreads : SetSpreadBps(b)
         \/ \E b \in Capacities : SetCapacity(b)
         \/ \E t \in Tips : SetKeeperTip(t)
         \/ \E g \in Gates : SetGateParams(g)
         \/ SetG1Refs
         \/ \E allowed \in Executors : SetExecutor(allowed)
         \/ \E c \in MaxRewards : SetMaxRewardPerCall(c)
         \/ \E c, r \in FlatFees : SetFlatFees(c, r)
  PROVE  TypeOK' /\ EscrowExact' /\ RolledIsCancelable
<1>1. /\ tickets' = tickets /\ cash' = cash /\ shares' = shares /\ supply' = supply
      /\ now' = now /\ deposits' = deposits /\ surplus' = surplus
  BY DEF SetCutoffDelay, SetSpreadBps, SetCapacity, SetKeeperTip, SetGateParams,
         SetG1Refs, SetExecutor, SetMaxRewardPerCall, SetFlatFees, SetParams,
         ledger, history
<1>2. params' \in Params
  <2>1. params \in Params
    BY DEF TypeOK
  <2>2. CASE \E d \in Delays : SetCutoffDelay(d)
    BY <2>1, <2>2, InputAssumption, ScaleAssumption DEF SetCutoffDelay, SetParams, Params
  <2>3. CASE \E b \in Spreads : SetSpreadBps(b)
    BY <2>1, <2>3, InputAssumption, ScaleAssumption DEF SetSpreadBps, SetParams, Params
  <2>4. CASE \E b \in Capacities : SetCapacity(b)
    BY <2>1, <2>4, InputAssumption, ScaleAssumption DEF SetCapacity, SetParams, Params
  <2>5. CASE \E t \in Tips : SetKeeperTip(t)
    BY <2>1, <2>5, InputAssumption DEF SetKeeperTip, SetParams, Params
  <2>6. CASE \E g \in Gates : SetGateParams(g)
    BY <2>1, <2>6, InputAssumption DEF SetGateParams, SetParams, Params
  <2>7. CASE SetG1Refs
    BY <2>1, <2>7 DEF SetG1Refs, SetParams, Params
  <2>8. CASE \/ \E allowed \in Executors : SetExecutor(allowed)
             \/ \E c \in MaxRewards : SetMaxRewardPerCall(c)
             \/ \E c, r \in FlatFees : SetFlatFees(c, r)
    BY <2>1, <2>8 DEF SetExecutor, SetMaxRewardPerCall, SetFlatFees
  <2> QED
    BY <2>2, <2>3, <2>4, <2>5, <2>6, <2>7, <2>8
<1>3. keeper' \in KeeperParams
  <2>1. keeper \in KeeperParams
    BY DEF TypeOK
  <2>2. CASE \E allowed \in Executors : SetExecutor(allowed)
    BY <2>1, <2>2, InputAssumption DEF SetExecutor, KeeperParams
  <2>3. CASE \E c \in MaxRewards : SetMaxRewardPerCall(c)
    BY <2>1, <2>3, InputAssumption DEF SetMaxRewardPerCall, KeeperParams
  <2> QED
    BY <2>1, <2>2, <2>3
       DEF SetCutoffDelay, SetSpreadBps, SetCapacity, SetKeeperTip, SetGateParams,
           SetG1Refs, SetFlatFees, SetParams
<1>4. fees' \in [create : 0..FLAT_FEE_MAX, redeem : 0..FLAT_FEE_MAX]
  <2>1. fees \in [create : 0..FLAT_FEE_MAX, redeem : 0..FLAT_FEE_MAX]
    BY DEF TypeOK
  <2>2. CASE \E c, r \in FlatFees : SetFlatFees(c, r)
    BY <2>2, InputAssumption, ScaleAssumption DEF SetFlatFees
  <2> QED
    BY <2>1, <2>2
       DEF SetCutoffDelay, SetSpreadBps, SetCapacity, SetKeeperTip, SetGateParams,
           SetG1Refs, SetExecutor, SetMaxRewardPerCall, SetParams
<1>5. TypeOK'
  BY <1>1, <1>2, <1>3, <1>4 DEF TypeOK
<1>6. EscrowExact'
  BY <1>1 DEF EscrowExact
<1>7. RolledIsCancelable
  BY <1>1 DEF RolledIsCancelable
<1> QED
  BY <1>5, <1>6, <1>7

LEMMA MarketStep ==
  ASSUME TypeOK, EscrowExact,
         (\E to \in {Market, KeeperModule} : MintOutside(to)) \/ RedeemInKind
  PROVE  TypeOK' /\ EscrowExact' /\ RolledIsCancelable
<1>1. /\ tickets' = tickets /\ cash' = cash /\ fees' = fees /\ params' = params
      /\ keeper' = keeper /\ now' = now /\ deposits' = deposits /\ surplus' = surplus
  BY DEF MintOutside, RedeemInKind, config, history
<1>2. /\ shares \in [Accounts -> Nat] /\ supply \in Nat
      /\ Market \in Accounts /\ KeeperModule \in Accounts /\ Queue \in Accounts
      /\ Queue # Market /\ Queue # KeeperModule
  BY Parties DEF TypeOK
<1>3. /\ shares' \in [Accounts -> Nat] /\ supply' \in Nat
      /\ shares'[Queue] = shares[Queue]
  <2>1. CASE \E to \in {Market, KeeperModule} : MintOutside(to)
    BY <1>2, <2>1 DEF MintOutside
  <2>2. CASE RedeemInKind
    BY <1>2, <2>2 DEF RedeemInKind
  <2> QED
    BY <2>1, <2>2
<1>4. TypeOK'
  BY <1>1, <1>3 DEF TypeOK
<1>5. EscrowExact'
  BY <1>1, <1>3 DEF EscrowExact
<1>6. RolledIsCancelable
  BY <1>1 DEF RolledIsCancelable
<1> QED
  BY <1>4, <1>5, <1>6

LEMMA TickStep ==
  ASSUME TypeOK, EscrowExact, Tick
  PROVE  TypeOK' /\ EscrowExact' /\ RolledIsCancelable
BY DEF Tick, TypeOK, EscrowExact, RolledIsCancelable, ledger, config, history

-----------------------------------------------------------------------------
(* TypeOK and EscrowExact are inductive together: the types of the balances  *)
(* need no more than the guards, and the escrow needs the types.            *)

Inv == TypeOK /\ EscrowExact

LEMMA InitInv == Init => Inv
<1> SUFFICES ASSUME Init PROVE Inv
  OBVIOUS
<1>1. tickets = << >> /\ deposits = << >> /\ surplus = 0 /\ now = 0
  BY DEF Init
<1>2. TypeOK
  BY AccountAssumption, InputAssumption, ScaleAssumption DEF Init, TypeOK
<1>3. cash[Queue] = 0 /\ shares[Queue] = 0
  BY AccountAssumption DEF Init
<1>4. Owed(tickets, "cash") = 0 /\ Owed(tickets, "shares") = 0
  BY <1>1, OwedEmpty
<1> QED
  BY <1>1, <1>2, <1>3, <1>4 DEF Inv, EscrowExact

LEMMA StepInv == Inv /\ [Next]_vars => Inv' /\ (UNCHANGED vars \/ RolledIsCancelable)
<1> SUFFICES ASSUME TypeOK, EscrowExact, [Next]_vars
             PROVE  TypeOK' /\ EscrowExact' /\ (UNCHANGED vars \/ RolledIsCancelable)
  BY DEF Inv
<1>1. CASE \E u \in Users, amt \in Amounts : RequestCreate(u, amt)
  BY <1>1, RequestCreateStep
<1>2. CASE \E u \in Users, amt \in Amounts : RequestRedeem(u, amt)
  BY <1>2, RequestRedeemStep
<1>3. CASE \E u \in Users, id \in DOMAIN tickets : Cancel(u, id)
  BY <1>3, CancelStep
<1>4. CASE \E k \in 0..MaxBatch : \E ids \in [1..k -> DOMAIN tickets] :
             \E r \in Readings, extra \in Overpay, accrual \in Accruals :
               /\ \/ accrual = NoAccrual
                  \/ supply + accrual.keeper + accrual.others <= MaxSupply
               /\ Settle(ids, r, extra, accrual)
  <2>1. PICK k \in 0..MaxBatch : \E ids \in [1..k -> DOMAIN tickets] :
          \E r \in Readings, extra \in Overpay, accrual \in Accruals :
            Settle(ids, r, extra, accrual)
    BY <1>4
  <2>2. PICK ids \in [1..k -> DOMAIN tickets] :
          \E r \in Readings, extra \in Overpay, accrual \in Accruals :
            Settle(ids, r, extra, accrual)
    BY <2>1
  <2>3. ids \in Seq(DOMAIN tickets)
    BY InputAssumption
  <2> QED
    BY <2>2, <2>3, SettleStep
<1>5. CASE \/ \E d \in Delays : SetCutoffDelay(d)
           \/ \E b \in Spreads : SetSpreadBps(b)
           \/ \E b \in Capacities : SetCapacity(b)
           \/ \E t \in Tips : SetKeeperTip(t)
           \/ \E g \in Gates : SetGateParams(g)
           \/ SetG1Refs
           \/ \E allowed \in Executors : SetExecutor(allowed)
           \/ \E c \in MaxRewards : SetMaxRewardPerCall(c)
           \/ \E c, r \in FlatFees : SetFlatFees(c, r)
  BY <1>5, SetterStep
<1>6. CASE (\E to \in {Market, KeeperModule} : MintOutside(to)) \/ RedeemInKind
  BY <1>6, MarketStep
<1>7. CASE Tick
  BY <1>7, TickStep
<1>8. CASE UNCHANGED vars
  BY <1>8 DEF vars, ledger, config, history, TypeOK, EscrowExact
<1> QED
  BY <1>1, <1>2, <1>3, <1>4, <1>5, <1>6, <1>7, <1>8 DEF Next

(* The variables keep their types; in particular no balance, fee or price   *)
(* computation of any batch goes below zero.                                *)
THEOREM TypeCorrect == Spec => []TypeOK
<1>1. Spec => []Inv
  BY InitInv, StepInv, PTL DEF Spec
<1>2. Inv => TypeOK
  BY DEF Inv
<1> QED
  BY <1>1, <1>2, PTL

(* Whatever requests, cancels and batches come in whatever order, with      *)
(* whatever prices, caps, fees and AP payments, the queue's two balances    *)
(* are exactly what its pending tickets are owed (and what APs overpaid).   *)
THEOREM EscrowIsExact == Spec => []EscrowExact
<1>1. Spec => []Inv
  BY InitInv, StepInv, PTL DEF Spec
<1>2. Inv => EscrowExact
  BY DEF Inv
<1> QED
  BY <1>1, <1>2, PTL

(* Red line #1: whatever a batch leaves pending of a ticket can be cancelled *)
(* for at least MIN_CUTOFF_DELAY from then on, whatever the owner has set.   *)
THEOREM RolloversStayCancelable == Spec => RolloverCancelable
<1>1. Spec => []Inv
  BY InitInv, StepInv, PTL DEF Spec
<1>2. Inv /\ [Next]_vars => [RolledIsCancelable]_vars
  BY StepInv
<1> QED
  BY <1>1, <1>2, PTL DEF Spec, RolloverCancelable

-----------------------------------------------------------------------------
(* The invariant: what a ticket has left is part of what was deposited, and *)
(* a pending ticket has something left.                                     *)
Covered(t, put) == t.amount <= put /\ (t.status = Pending => t.amount > 0)

DepositsCover == \A i \in DOMAIN tickets : Covered(tickets[i], deposits[i])

-----------------------------------------------------------------------------
(* What a batch may make of a ticket: nothing, or, if it was due, one that  *)
(* is settled or has less left and a cutoff in the future.                  *)
Kept(t, e) ==
  \/ e = t
  \/ /\ t.status = Pending /\ now >= t.cutoff
     /\ e.owner = t.owner /\ e.isCreate = t.isCreate
     /\ e.amount \in 1..t.amount
     /\ e.status \in {Pending, Settled}
     /\ e.status = Pending => e.cutoff > now

NoPoorer(b) == \A u \in Users : b.cash[u] >= cash[u] /\ b.shares[u] >= shares[u]

Promised(b) ==
  /\ \A i \in DOMAIN tickets : Kept(tickets[i], b.tickets[i])
  /\ NoPoorer(b)

LEMMA TicketTyped ==
  ASSUME TypeOK, NEW id \in DOMAIN tickets
  PROVE  /\ tickets[id] \in Ticket
         /\ tickets[id].amount \in Nat /\ tickets[id].cutoff \in Nat
         /\ tickets[id].owner \in Users /\ tickets[id].isCreate \in BOOLEAN
<1>1. tickets[id] \in Ticket
  BY DEF TypeOK
<1> QED
  BY <1>1 DEF Ticket

LEMMA UsersApart ==
  /\ Users \subseteq Accounts
  /\ \A u \in Users : u \notin {Queue, AP, Treasury, KeeperModule, Keeper, Market}
BY AccountAssumption DEF Accounts, Services

(* A ticket that is due in the batch is one the batch has not touched.      *)
LEMMA DueIsUntouched ==
  ASSUME TypeOK, NEW b, Sound(b), Promised(b), NEW id \in DOMAIN tickets,
         Due(b.tickets[id])
  PROVE  b.tickets[id] = tickets[id]
<1>1. Kept(tickets[id], b.tickets[id])
  BY DEF Promised
<1>2. id \in DOMAIN b.tickets
  BY DEF Sound, Renewed
<1>3. b.tickets[id].cutoff \in Nat /\ now \in Nat
  BY <1>2, SoundTypes DEF Ticket, TypeOK
<1> QED
  BY <1>1, <1>3 DEF Kept, Due

(* A batch that replaces one untouched due ticket by what it may become     *)
(* keeps the tickets' part of the promise.                                  *)
LEMMA ReplaceKeeps ==
  ASSUME NEW b, Sound(b), Promised(b), NEW id \in DOMAIN tickets,
         NEW e, Kept(tickets[id], e),
         NEW tks, tks = [b.tickets EXCEPT ![id] = e]
  PROVE  \A i \in DOMAIN tickets : Kept(tickets[i], tks[i])
<1>1. DOMAIN b.tickets = DOMAIN tickets
  BY DEF Sound, Renewed
<1>2. \A i \in DOMAIN tickets : Kept(tickets[i], b.tickets[i])
  BY DEF Promised
<1>3. \A i \in DOMAIN tickets : tks[i] = IF i = id THEN e ELSE b.tickets[i]
  <2>1. b.tickets \in Seq(Ticket)
    BY DEF Sound, BatchType
  <2> QED
    BY <1>1, <2>1
<1> QED
  BY <1>2, <1>3

LEMMA AccruedPromised ==
  ASSUME TypeOK, NEW x \in TermsType, NEW b, Sound(b), Promised(b)
  PROVE  Promised(Accrued(b, x))
<1>1. CASE b.worked
  BY <1>1 DEF Accrued
<1>2. CASE ~b.worked
  <2> DEFINE sh == [b.shares EXCEPT ![KeeperModule] = @ + x.accrual.keeper,
                                    ![Market] = @ + x.accrual.others]
             sup == b.supply + x.accrual.keeper + x.accrual.others
             c == Accrued(b, x)
  <2>1. /\ b.shares \in [Accounts -> Nat]
        /\ b = [ok |-> b.ok, worked |-> b.worked, tickets |-> b.tickets,
                cash |-> b.cash, shares |-> b.shares, supply |-> b.supply,
                surplus |-> b.surplus]
    BY DEF Sound, BatchType
  <2>2. c = [b EXCEPT !.shares = sh, !.supply = sup]
    BY <1>2, <2>1 DEF Accrued
  <2>3. \A u \in Users : sh[u] = b.shares[u]
    BY <2>1, UsersApart
  <2>4. c.tickets = b.tickets /\ c.cash = b.cash /\ c.shares = sh
    <3> HIDE DEF c, sh, sup
    <3> QED
      BY <2>1, <2>2
  <2> QED
    BY <2>3, <2>4 DEF Promised, NoPoorer
<1> QED
  BY <1>1, <1>2

LEMMA DeferPromised ==
  ASSUME TypeOK, DepositsCover, NEW b, Sound(b), Promised(b), NEW id \in DOMAIN tickets,
         Due(b.tickets[id])
  PROVE  Promised(Defer(b, id))
<1> DEFINE t == tickets[id]
           e == Rolled(t, t.amount)
           tks == [b.tickets EXCEPT ![id] = e]
           c == Defer(b, id)
<1>1. b.tickets[id] = t
  BY DueIsUntouched
<1>2. t \in Ticket /\ t.amount \in Nat
  BY TicketTyped
<1>3. Kept(t, e)
  <2>1. /\ e.owner = t.owner /\ e.isCreate = t.isCreate /\ e.status = t.status
        /\ e.amount = t.amount /\ e.cutoff >= now + MIN_CUTOFF_DELAY /\ e \in Ticket
    BY <1>2, RolledTicket
  <2>2. e.cutoff > now
    <3>1. e.cutoff \in Nat
      BY <2>1 DEF Ticket
    <3>2. now \in Nat
      BY DEF TypeOK
    <3> HIDE DEF e
    <3> QED
      BY <2>1, <3>1, <3>2, ScaleAssumption
  <2>3. t.status = Pending /\ now >= t.cutoff /\ t.amount > 0
    BY <1>1 DEF Due, DepositsCover, Covered
  <2> HIDE DEF e, t
  <2> QED
    BY <1>2, <2>1, <2>2, <2>3 DEF Kept
<1>4. /\ b.tickets \in Seq(Ticket) /\ id \in DOMAIN b.tickets
      /\ c = [b EXCEPT !.tickets = tks]
  <2>1. b \in BatchType /\ b.tickets \in Seq(Ticket) /\ DOMAIN b.tickets = DOMAIN tickets
    BY DEF Sound, Renewed, BatchType
  <2> QED
    BY <1>1, <2>1 DEF Defer, BatchType
<1>5. c.tickets = tks /\ c.cash = b.cash /\ c.shares = b.shares
  <2>1. b \in BatchType
    BY DEF Sound
  <2> HIDE DEF c, tks
  <2> QED
    BY <1>4, <2>1 DEF BatchType
<1> HIDE DEF e, c
<1>6. \A i \in DOMAIN tickets : Kept(tickets[i], tks[i])
  BY <1>3, ReplaceKeeps
<1> QED
  BY <1>5, <1>6 DEF Promised, NoPoorer, c

LEMMA FillCreatePromised ==
  ASSUME TypeOK, NEW x \in TermsType, NEW b, Sound(b), Promised(b), NEW id \in DOMAIN tickets,
         Due(b.tickets[id]), b.tickets[id].isCreate, FillCash(b.tickets[id], x) # 0,
         FillCreate(b, id, x).ok
  PROVE  Promised(FillCreate(b, id, x))
<1> DEFINE t == tickets[id]
           fill == FillCash(t, x)
           toAP == fill - CreateFee
           n == SharesFor(toAP, x.price)
           e == AfterFill(t, fill)
           tks == [b.tickets EXCEPT ![id] = e]
           paid == Transfer(Transfer(b.cash, Queue, AP, toAP), Queue, Treasury, CreateFee)
           minted == [b.shares EXCEPT ![t.owner] = @ + n]
           ok == /\ IsRegistry => fill > CreateFee
                 /\ x.price > 0
                 /\ n > 0
                 /\ VaultMints(b, n)
                 /\ b.cash[Queue] >= fill
           c == FillCreate(b, id, x)
<1>1. b.tickets[id] = t
  BY DueIsUntouched
<1>2. t \in Ticket /\ t.amount \in Nat /\ t.owner \in Users
  BY TicketTyped
<1>3. b \in BatchType /\ b.tickets \in Seq(Ticket) /\ id \in DOMAIN b.tickets
  BY DEF Sound, Renewed, BatchType
<1>4. c = [b EXCEPT !.ok = ok, !.tickets = tks, !.cash = paid, !.shares = minted,
                    !.supply = b.supply + n, !.worked = TRUE]
  BY <1>1, <1>3 DEF FillCreate, BatchType
<1>5. /\ c.ok = ok /\ c.tickets = tks /\ c.cash = paid /\ c.shares = minted
  <2> HIDE DEF ok, tks, paid, minted, n, c
  <2> QED
    BY <1>3, <1>4 DEF BatchType
<1>6. n > 0 /\ x.price > 0 /\ (IsRegistry => fill > CreateFee)
  BY <1>5
<1>7. fill \in 1..t.amount
  <2>1. fill \in 0..t.amount /\ fill # 0
    BY <1>1, <1>2, FillBounded
  <2> HIDE DEF fill, t
  <2> QED
    BY <1>2, <2>1
<1>8. n \in Nat
  <2>1. CreateFee \in Nat /\ x.price \in Nat
    BY Prices DEF TermsType
  <2>2. toAP \in Nat
    <3> HIDE DEF fill, t
    <3> QED
      BY <1>2, <1>6, <1>7, <2>1 DEF CreateFee
  <2> QED
    BY <1>6, <2>1, <2>2, Prices
<1>9. Kept(t, e)
  <2>1. t.status = Pending /\ now >= t.cutoff
    BY <1>1 DEF Due
  <2>2. CASE fill = t.amount
    <3>1. e = [t EXCEPT !.status = Settled]
      BY <2>2 DEF AfterFill
    <3> HIDE DEF e, t, fill
    <3> QED
      BY <1>2, <1>7, <2>1, <2>2, <3>1 DEF Kept, Ticket, Pending, Settled
  <2>3. CASE fill # t.amount
    <3>1. e = Rolled(t, t.amount - fill)
      BY <2>3 DEF AfterFill
    <3>2. t.amount - fill \in 1..t.amount /\ t.amount - fill \in Nat
      <4> HIDE DEF fill, t
      <4> QED
        BY <1>2, <1>7, <2>3
    <3>3. /\ e.owner = t.owner /\ e.isCreate = t.isCreate /\ e.status = t.status
          /\ e.amount = t.amount - fill /\ e.cutoff >= now + MIN_CUTOFF_DELAY
          /\ e \in Ticket
      <4> HIDE DEF fill, t, e
      <4> QED
        BY <1>2, <3>1, <3>2, RolledTicket
    <3>4. e.cutoff > now
      <4>1. e.cutoff \in Nat
        BY <3>3 DEF Ticket
      <4>2. now \in Nat
        BY DEF TypeOK
      <4> HIDE DEF e
      <4> QED
        BY <3>3, <4>1, <4>2, ScaleAssumption
    <3> HIDE DEF e, t, fill
    <3> QED
      BY <2>1, <3>2, <3>3, <3>4 DEF Kept
  <2> QED
    BY <2>2, <2>3
<1>10. \A u \in Users : paid[u] = b.cash[u]
  <2>1. b.cash \in [Accounts -> Nat]
    BY <1>3 DEF BatchType
  <2> HIDE DEF toAP
  <2> QED
    BY <2>1, UsersApart DEF Transfer
<1>11. \A u \in Users : minted[u] >= b.shares[u]
  <2>1. b.shares \in [Accounts -> Nat] /\ Users \subseteq Accounts
    BY <1>3, UsersApart DEF BatchType
  <2> HIDE DEF n, t
  <2> QED
    BY <2>1, <1>8
<1> HIDE DEF e, c, paid, minted, n, fill
<1>12. \A i \in DOMAIN tickets : Kept(tickets[i], tks[i])
  BY <1>9, ReplaceKeeps
<1>13. NoPoorer(c)
  <2> SUFFICES ASSUME NEW u \in Users
               PROVE  c.cash[u] >= cash[u] /\ c.shares[u] >= shares[u]
    BY DEF NoPoorer
  <2>1. b.cash[u] >= cash[u] /\ b.shares[u] >= shares[u]
    BY DEF Promised, NoPoorer
  <2>2. u \in Accounts /\ shares[u] \in Nat /\ b.shares[u] \in Nat
    BY <1>3, UsersApart DEF TypeOK, BatchType
  <2>3. minted[u] \in Int
    BY <1>8, <1>3, <2>2 DEF minted, BatchType
  <2> QED
    BY <1>5, <1>10, <1>11, <2>1, <2>2, <2>3
<1> QED
  BY <1>5, <1>12, <1>13 DEF Promised, c

(* The three payments of a registry redeem take nothing from a holder.      *)
LEMMA PaymentsNoPoorer ==
  ASSUME NEW bal \in [Accounts -> Nat], NEW owner \in Users,
         NEW pay \in Nat, NEW fee \in Nat, NEW rest \in Nat, NEW u \in Users
  PROVE  Payments(bal, owner, pay, fee, rest)[u] >= bal[u]
<1> DEFINE first == Transfer(bal, AP, Queue, pay)
           second == Transfer(first, Queue, Treasury, fee)
           third == Transfer(second, Queue, owner, rest)
<1>1. u \in Accounts /\ owner \in Accounts /\ u \notin {Queue, AP, Treasury} /\ bal[u] \in Nat
  BY UsersApart
<1>2. first[u] = bal[u] /\ DOMAIN first = Accounts
  BY <1>1 DEF Transfer
<1>3. second[u] = first[u] /\ DOMAIN second = Accounts
  <2> HIDE DEF first
  <2> QED
    BY <1>1, <1>2 DEF Transfer
<1>4. third[u] = IF u = owner THEN second[u] + rest ELSE second[u]
  <2> HIDE DEF second
  <2>1. owner # Queue
    BY UsersApart
  <2> QED
    BY <1>1, <1>3, <2>1 DEF Transfer
<1>5. Payments(bal, owner, pay, fee, rest) = third
  BY DEF Payments
<1> HIDE DEF first, second, third
<1> QED
  BY <1>1, <1>2, <1>3, <1>4, <1>5

(* What settling a redeem makes of a batch, field by field.                 *)
Closed(tks, id, t) == [tks EXCEPT ![id] = [t EXCEPT !.status = Settled]]
Burned(bal, n) == [bal EXCEPT ![Queue] = @ - n]
PaidOut(bal, owner, owed, pay) ==
  IF IsRegistry
    THEN Payments(bal, owner, pay, Least(fees.redeem, owed), owed - Least(fees.redeem, owed))
    ELSE Transfer(bal, AP, owner, pay)

LEMMA FillRedeemIs ==
  ASSUME NEW x, NEW b \in BatchType, NEW id \in DOMAIN b.tickets
  PROVE  LET t == b.tickets[id]
             owed == CashFor(t.amount, x.price)
             pay == owed + x.overpay
             c == FillRedeem(b, id, x)
         IN  /\ c.ok = RedeemAllowed(b, t, owed, pay)
             /\ c.tickets = Closed(b.tickets, id, t)
             /\ c.cash = PaidOut(b.cash, t.owner, owed, pay)
             /\ c.shares = Burned(b.shares, t.amount)
             /\ c.supply = b.supply - t.amount
             /\ c.surplus = IF IsRegistry THEN b.surplus + x.overpay ELSE b.surplus
             /\ c.worked = TRUE
<1> DEFINE t == b.tickets[id]
           owed == CashFor(t.amount, x.price)
           pay == owed + x.overpay
           fee == Least(fees.redeem, owed)
           three == Transfer(Transfer(Transfer(b.cash, AP, Queue, pay), Queue, Treasury, fee),
                             Queue, t.owner, owed - fee)
           paid == IF IsRegistry THEN three ELSE Transfer(b.cash, AP, t.owner, pay)
           c == FillRedeem(b, id, x)
<1>1. c.ok = RedeemAllowed(b, t, owed, pay) /\ c.worked = TRUE
  BY DEF FillRedeem, BatchType
<1>2. c.tickets = Closed(b.tickets, id, t)
  BY DEF FillRedeem, BatchType, Closed
<1>3. c.shares = Burned(b.shares, t.amount) /\ c.supply = b.supply - t.amount
  BY DEF FillRedeem, BatchType, Burned
<1>4. c.surplus = IF IsRegistry THEN b.surplus + x.overpay ELSE b.surplus
  BY DEF FillRedeem, BatchType
<1>5. c.cash = paid
  BY DEF FillRedeem, BatchType
<1>6. three = Payments(b.cash, t.owner, pay, fee, owed - fee)
  BY DEF Payments
<1> HIDE DEF c, three
<1>7. c.cash = PaidOut(b.cash, t.owner, owed, pay)
  BY <1>5, <1>6 DEF PaidOut
<1> QED
  BY <1>1, <1>2, <1>3, <1>4, <1>7 DEF c

LEMMA FillRedeemPromised ==
  ASSUME TypeOK, DepositsCover, NEW x \in TermsType, NEW b, Sound(b), Promised(b),
         NEW id \in DOMAIN tickets,
         Due(b.tickets[id]), ~b.tickets[id].isCreate, FillRedeem(b, id, x).ok
  PROVE  Promised(FillRedeem(b, id, x))
<1> DEFINE t == tickets[id]
           owed == CashFor(t.amount, x.price)
           pay == owed + x.overpay
           fee == Least(fees.redeem, owed)
           rest == owed - fee
           e == [t EXCEPT !.status = Settled]
           tks == [b.tickets EXCEPT ![id] = e]
           burned == [b.shares EXCEPT ![Queue] = @ - t.amount]
           paid == IF IsRegistry
                     THEN Payments(b.cash, t.owner, pay, fee, rest)
                     ELSE Transfer(b.cash, AP, t.owner, pay)
           sur == IF IsRegistry THEN b.surplus + x.overpay ELSE b.surplus
           ok == RedeemAllowed(b, t, owed, pay)
           c == FillRedeem(b, id, x)
<1>1. b.tickets[id] = t
  BY DueIsUntouched
<1>2. t \in Ticket /\ t.amount \in Nat /\ t.owner \in Users
  BY TicketTyped
<1>3. b \in BatchType /\ b.tickets \in Seq(Ticket) /\ id \in DOMAIN b.tickets
  BY DEF Sound, Renewed, BatchType
<1>5. /\ c.ok = ok /\ c.tickets = tks /\ c.cash = paid /\ c.shares = burned
  <2> DEFINE r == b.tickets[id]
             worth == CashFor(r.amount, x.price)
  <2>1. /\ c.ok = RedeemAllowed(b, r, worth, worth + x.overpay)
        /\ c.tickets = Closed(b.tickets, id, r)
        /\ c.cash = PaidOut(b.cash, r.owner, worth, worth + x.overpay)
        /\ c.shares = Burned(b.shares, r.amount)
    BY <1>3, FillRedeemIs
  <2>2. r = t
    BY <1>1
  <2> HIDE DEF r, c, t
  <2> QED
    BY <2>1, <2>2 DEF Closed, PaidOut, Burned
<1>6. pay >= owed
  BY <1>5 DEF RedeemAllowed
<1>7. owed \in Nat /\ pay \in Nat /\ fee \in Nat /\ rest \in Nat
  <2>1. owed \in Nat
    BY <1>2, Prices DEF TermsType
  <2>2. x.overpay \in Int /\ fees.redeem \in Nat
    BY ScaleAssumption DEF TermsType, TypeOK
  <2> HIDE DEF owed
  <2> QED
    BY <1>6, <2>1, <2>2 DEF Least
<1>8. Kept(t, e)
  <2>1. t.status = Pending /\ now >= t.cutoff /\ t.amount > 0
    BY <1>1 DEF Due, DepositsCover, Covered
  <2> HIDE DEF t
  <2> QED
    BY <1>2, <2>1 DEF Kept, Ticket, Pending, Settled
<1> HIDE DEF owed, fee, rest, pay, t, c, e
<1>9. \A u \in Users : paid[u] >= b.cash[u]
  <2> TAKE u \in Users
  <2>1. b.cash \in [Accounts -> Nat] /\ u \in Accounts /\ u # AP /\ u # Queue
    BY <1>3, UsersApart DEF BatchType
  <2>2. CASE IsRegistry
    BY <1>2, <1>7, <2>1, <2>2, PaymentsNoPoorer
  <2>3. CASE ~IsRegistry
    <3>1. t.owner # AP /\ t.owner \in Accounts
      BY <1>2, UsersApart
    <3> QED
      BY <1>7, <2>1, <2>3, <3>1 DEF Transfer
  <2> QED
    BY <2>2, <2>3
<1>10. \A u \in Users : burned[u] = b.shares[u]
  <2>1. b.shares \in [Accounts -> Nat]
    BY <1>3 DEF BatchType
  <2> QED
    BY <2>1, UsersApart
<1>11. \A i \in DOMAIN tickets : Kept(tickets[i], tks[i])
  <2>1. Kept(tickets[id], e)
    BY <1>8 DEF t
  <2> QED
    BY <2>1, ReplaceKeeps
<1>12. \A u \in Users : paid[u] \in Int
  <2>1. Sound(c)
    <3>1. /\ id \in DOMAIN b.tickets /\ b.tickets[id].status = Pending
      BY <1>3 DEF Due
    <3> QED
      BY <3>1, FillRedeemSound DEF c
  <2>2. c.cash \in [Accounts -> Nat]
    BY <2>1 DEF Sound, BatchType
  <2> HIDE DEF paid
  <2> QED
    BY <1>5, <2>2, UsersApart
<1> HIDE DEF paid, burned, tks
<1>13. NoPoorer(c)
  <2> SUFFICES ASSUME NEW u \in Users
               PROVE  c.cash[u] >= cash[u] /\ c.shares[u] >= shares[u]
    BY DEF NoPoorer
  <2>1. b.cash[u] >= cash[u] /\ b.shares[u] >= shares[u]
    BY DEF Promised, NoPoorer
  <2>2. u \in Accounts /\ cash[u] \in Nat /\ b.cash[u] \in Nat
    BY <1>3, UsersApart DEF TypeOK, BatchType
  <2> QED
    BY <1>5, <1>9, <1>10, <1>12, <2>1, <2>2
<1> QED
  BY <1>5, <1>11, <1>13 DEF Promised, c

LEMMA SettleOnePromised ==
  ASSUME TypeOK, DepositsCover, NEW x \in TermsType, NEW b, Sound(b), Promised(b),
         NEW id \in DOMAIN tickets, SettleOne(b, id, x).ok
  PROVE  Promised(SettleOne(b, id, x))
<1> DEFINE t == b.tickets[id]
           a == Accrued(b, x)
<1>1. Sound(a) /\ a.tickets = b.tickets /\ Promised(a)
  BY AccruedSound, AccruedPromised
<1>2. b.ok
  BY DEF Sound, BatchType
<1>3. CASE ~Due(t)
  BY <1>3 DEF SettleOne
<1>4. CASE Due(t) /\ ~t.isCreate
  <2>1. SettleOne(b, id, x) = FillRedeem(a, id, x)
    BY <1>2, <1>4 DEF SettleOne
  <2>2. Due(a.tickets[id]) /\ ~a.tickets[id].isCreate
    BY <1>1, <1>4
  <2> HIDE DEF a
  <2> QED
    BY <1>1, <2>1, <2>2, FillRedeemPromised
<1>5. CASE Due(t) /\ t.isCreate /\ FillCash(t, x) = 0
  <2>1. SettleOne(b, id, x) = Defer(b, id)
    BY <1>2, <1>5 DEF SettleOne
  <2> QED
    BY <1>5, <2>1, DeferPromised
<1>6. CASE Due(t) /\ t.isCreate /\ FillCash(t, x) # 0
  <2>1. SettleOne(b, id, x) = FillCreate(a, id, x)
    BY <1>2, <1>6 DEF SettleOne
  <2>2. /\ Due(a.tickets[id]) /\ a.tickets[id].isCreate
        /\ FillCash(a.tickets[id], x) # 0
    BY <1>1, <1>6
  <2> HIDE DEF a
  <2> QED
    BY <1>1, <2>1, <2>2, FillCreatePromised
<1> QED
  BY <1>3, <1>4, <1>5, <1>6

LEMMA BatchPromised ==
  ASSUME TypeOK, EscrowExact, DepositsCover, NEW x \in TermsType,
         NEW ids \in Seq(DOMAIN tickets), Run(ids, x).ok
  PROVE  Sound(Run(ids, x)) /\ Promised(Run(ids, x))
<1> DEFINE b == Batches(ids, x)
           S == {k \in Nat : k <= Len(ids) /\ b[k].ok => Sound(b[k]) /\ Promised(b[k])}
<1>1. Len(ids) \in Nat
  OBVIOUS
<1>2. 0 \in S
  <2>1. b[0] = Start
    BY <1>1, BatchesSteps
  <2>2. Promised(Start)
    <3>1. \A u \in Users : cash[u] \in Nat /\ shares[u] \in Nat
      BY UsersApart DEF TypeOK
    <3> QED
      BY <3>1 DEF Promised, NoPoorer, Kept, Start
  <2> QED
    BY <2>1, <2>2, StartSound
<1>3. ASSUME NEW k \in Nat, k \in S
      PROVE  k + 1 \in S
  <2> SUFFICES ASSUME k + 1 <= Len(ids), b[k + 1].ok
               PROVE  Sound(b[k + 1]) /\ Promised(b[k + 1])
    OBVIOUS
  <2>1. k + 1 \in 1..Len(ids) /\ (k + 1) - 1 = k /\ k <= Len(ids)
    BY <1>1
  <2>2. b[k + 1] = SettleOne(b[k], ids[k + 1], x)
    BY <1>1, <2>1, BatchesSteps
  <2>3. ids[k + 1] \in DOMAIN tickets
    BY <2>1
  <2> HIDE DEF b
  <2>4. b[k].ok
    BY <2>2 DEF SettleOne
  <2>5. Sound(b[k]) /\ Promised(b[k])
    BY <1>3, <2>1, <2>4
  <2> QED
    BY <2>2, <2>3, <2>5, SettleOneSound, SettleOnePromised
<1>4. Nat \subseteq S
  <2> HIDE DEF S
  <2> QED
    BY <1>2, <1>3, SetInduction
<1>5. Len(ids) \in S
  BY <1>1, <1>4
<1> QED
  BY <1>5 DEF Run

-----------------------------------------------------------------------------
(* The book and the wallets the queue is mapped to.                         *)

LeftOf(t) == IF t.status = Pending THEN t.amount ELSE 0
BackOf(t) == IF t.status = Cancelled THEN t.amount ELSE 0

Entry(t, put) ==
  [owner |-> t.owner, asset |-> Asset(t), put |-> put, left |-> LeftOf(t), back |-> BackOf(t),
   spent |-> put - LeftOf(t) - BackOf(t), deadline |-> t.cutoff]

Wallet == [u \in Users |-> [cash |-> cash[u], shares |-> shares[u]]]
Pool == [cash |-> cash[Queue] - surplus, shares |-> shares[Queue]]

(* Changing one asset of one owner.                                         *)
LEMMA WalletUpdate ==
  ASSUME NEW u \in Users, NEW k \in {"cash", "shares"}, NEW val
  PROVE  /\ Wallet[u][k] = IF k = "cash" THEN cash[u] ELSE shares[u]
         /\ [Wallet EXCEPT ![u][k] = val] =
              [w \in Users |->
                [cash |-> IF w = u /\ k = "cash" THEN val ELSE cash[w],
                 shares |-> IF w = u /\ k = "shares" THEN val ELSE shares[w]]]
<1> DEFINE held == [cash |-> cash[u], shares |-> shares[u]]
           New(w) == [cash |-> IF w = u /\ k = "cash" THEN val ELSE cash[w],
                      shares |-> IF w = u /\ k = "shares" THEN val ELSE shares[w]]
<1>1. Wallet[u] = held
  BY DEF Wallet
<1>2. [held EXCEPT ![k] = val] = New(u) /\ held[k] = IF k = "cash" THEN cash[u] ELSE shares[u]
  OBVIOUS
<1>3. [Wallet EXCEPT ![u][k] = val] = [Wallet EXCEPT ![u] = New(u)]
  <2> HIDE DEF held, New
  <2> QED
    BY <1>1, <1>2
<1>4. \A w \in Users : [Wallet EXCEPT ![u] = New(u)][w] = New(w)
  <2> TAKE w \in Users
  <2>1. CASE w = u
    <3> HIDE DEF New
    <3> QED
      BY <2>1 DEF Wallet
  <2>2. CASE w # u
    BY <2>2 DEF Wallet
  <2> QED
    BY <2>1, <2>2
<1>5. [Wallet EXCEPT ![u] = New(u)] = [w \in Users |-> New(w)]
  <2>1. DOMAIN [Wallet EXCEPT ![u] = New(u)] = Users
    BY DEF Wallet
  <2> HIDE DEF New
  <2> QED
    BY <1>4, <2>1 DEF Wallet
<1> QED
  BY <1>1, <1>2, <1>3, <1>5

LEMMA CashUpdate ==
  ASSUME NEW u \in Users, NEW val
  PROVE  /\ Wallet[u]["cash"] = cash[u]
         /\ [Wallet EXCEPT ![u]["cash"] = val] =
              [w \in Users |-> [cash |-> IF w = u THEN val ELSE cash[w], shares |-> shares[w]]]
BY WalletUpdate, "cash" \in {"cash", "shares"}

LEMMA SharesUpdate ==
  ASSUME NEW u \in Users, NEW val
  PROVE  /\ Wallet[u]["shares"] = shares[u]
         /\ [Wallet EXCEPT ![u]["shares"] = val] =
              [w \in Users |-> [cash |-> cash[w], shares |-> IF w = u THEN val ELSE shares[w]]]
BY WalletUpdate, "shares" \in {"cash", "shares"}

LEMMA BookIs ==
  /\ Book = [i \in DOMAIN tickets |-> Entry(tickets[i], deposits[i])]
  /\ Book' = [i \in DOMAIN tickets' |-> Entry(tickets'[i], deposits'[i])]
BY DEF Book, Entry, LeftOf, BackOf

LEMMA TotalIsTotal == \A s : Escrow!Total(s) = Total(s)
BY DEF Escrow!Total, Escrow!PartialTotals, Total, PartialTotals

LEMMA LeftIsOwed ==
  ASSUME NEW asset
  PROVE  Escrow!Left(Book, asset) = Owed(tickets, asset)
<1> DEFINE before == [i \in DOMAIN Book |-> IF Book[i].asset = asset THEN Book[i].left ELSE 0]
           after == [i \in DOMAIN tickets |-> Claim(tickets[i], asset)]
<1>1. DOMAIN Book = DOMAIN tickets
  BY BookIs
<1>2. ASSUME NEW i \in DOMAIN tickets
      PROVE  (IF Book[i].asset = asset THEN Book[i].left ELSE 0) = Claim(tickets[i], asset)
  <2>1. Book[i] = Entry(tickets[i], deposits[i])
    BY BookIs
  <2> QED
    BY <2>1 DEF Entry, LeftOf, Claim
<1>3. before = after
  BY <1>1, <1>2
<1> QED
  BY <1>3, TotalIsTotal DEF Escrow!Left, Owed

LEMMA BookBacked == Inv /\ DepositsCover => Escrow!Backed
<1> SUFFICES ASSUME TypeOK, EscrowExact, DepositsCover PROVE Escrow!Backed
  BY DEF Inv
<1>1. DOMAIN Book = DOMAIN tickets
  BY BookIs
<1>2. cash[Queue] - surplus = Owed(tickets, "cash") /\ shares[Queue] = Owed(tickets, "shares")
  <2>1. Owed(tickets, "cash") \in Nat /\ surplus \in Nat
    BY OwedNat DEF TypeOK
  <2> QED
    BY <2>1 DEF EscrowExact
<1>3. ASSUME NEW i \in DOMAIN Book
      PROVE  /\ Book[i].put = Book[i].spent + Book[i].back + Book[i].left
             /\ Book[i].spent >= 0 /\ Book[i].back >= 0 /\ Book[i].left >= 0
  <2> DEFINE t == tickets[i]
             put == deposits[i]
  <2>1. Book[i] = Entry(t, put) /\ i \in DOMAIN tickets
    BY <1>1, BookIs
  <2>2. t.amount \in Nat /\ put \in Nat /\ t.amount <= put
    <3>1. t.amount \in Nat
      BY <2>1, TicketTyped
    <3>2. put \in Nat
      BY <2>1 DEF TypeOK
    <3> QED
      BY <2>1, <3>1, <3>2 DEF DepositsCover, Covered
  <2> HIDE DEF t, put
  <2> QED
    BY <2>1, <2>2 DEF Entry, LeftOf, BackOf, Pending, Cancelled
<1> QED
  BY <1>2, <1>3, LeftIsOwed DEF Escrow!Backed

LEMMA BookStutters ==
  ASSUME tickets' = tickets, deposits' = deposits, surplus' = surplus,
         cash' = cash, shares'[Queue] = shares[Queue],
         \A u \in Users : shares'[u] = shares[u]
  PROVE  Book' = Book /\ Pool' = Pool /\ Wallet' = Wallet
<1>1. Book' = Book
  BY BookIs
<1> QED
  BY <1>1 DEF Pool, Wallet

-----------------------------------------------------------------------------
(* The steps.  The escrow's step relation without Backed', which holds of   *)
(* every state of the invariant.                                            *)

Mapped ==
  \/ Escrow!Deposit
  \/ \E i \in DOMAIN Book : Escrow!Return(i)
  \/ Escrow!Spend
  \/ Escrow!Tick
  \/ UNCHANGED Escrow!vars

LEMMA Unmoved ==
  ASSUME Book' = Book, Pool' = Pool, Wallet' = Wallet, now' = now
  PROVE  Mapped
BY DEF Mapped, Escrow!vars, Pool, Wallet

(* A request is a deposit of its amount.                                    *)
LEMMA RequestMapped ==
  ASSUME TypeOK, DepositsCover, NEW u \in Users, NEW create \in BOOLEAN,
         NEW amt \in Nat \ {0}, OpenTicket(u, create, amt),
         create => cash' = Transfer(cash, u, Queue, amt) /\ shares' = shares,
         ~create => shares' = Transfer(shares, u, Queue, amt) /\ cash' = cash
  PROVE  Mapped /\ DepositsCover'
<1> DEFINE t == [owner |-> u, isCreate |-> create, amount |-> amt,
                 cutoff |-> now + params.cutoffDelay, status |-> Pending]
           n == Len(tickets) + 1
           d == Entry(t, amt)
<1>1. /\ tickets' = Append(tickets, t) /\ deposits' = Append(deposits, amt)
      /\ now' = now
  BY DEF OpenTicket
<1>2. /\ tickets \in Seq(Ticket) /\ deposits \in Seq(Nat) /\ Len(deposits) = Len(tickets)
      /\ now \in Nat /\ params.cutoffDelay \in Nat
      /\ params.cutoffDelay >= MIN_CUTOFF_DELAY
  BY ScaleAssumption DEF TypeOK, Params
<1>3. /\ t.owner = u /\ t.isCreate = create /\ t.amount = amt /\ t.status = Pending
      /\ t.cutoff > now
  BY <1>2, ScaleAssumption
<1> HIDE DEF t
<1>4. /\ n \in Nat /\ Len(tickets') = n /\ DOMAIN tickets' = 1..n
      /\ tickets'[n] = t /\ deposits'[n] = amt
      /\ DOMAIN tickets = 1..Len(tickets)
      /\ \A i \in DOMAIN tickets : /\ i \in DOMAIN tickets'
                                  /\ tickets'[i] = tickets[i] /\ deposits'[i] = deposits[i]
  BY <1>1, <1>2
<1>5. DepositsCover'
  <2> SUFFICES ASSUME NEW i \in DOMAIN tickets'
               PROVE  Covered(tickets'[i], deposits'[i])
    BY DEF DepositsCover, Covered
  <2>1. CASE i \in DOMAIN tickets
    BY <1>4, <2>1 DEF DepositsCover
  <2>2. CASE i = n
    BY <1>3, <1>4, <2>2 DEF Covered
  <2> QED
    BY <1>2, <1>4, <2>1, <2>2
<1>6. /\ DOMAIN Book' = 1..n /\ Len(Book') = n /\ DOMAIN Book = 1..Len(tickets)
      /\ Len(Book) = Len(tickets)
  BY <1>2, <1>4, BookIs
<1>7. \A i \in DOMAIN Book : Book'[i] = Book[i]
  BY <1>4, BookIs
<1>8. Book'[n] = d
  BY <1>4, BookIs
<1>9. /\ d.left = amt /\ d.put = amt /\ d.deadline > now /\ d.owner = u
      /\ d.asset = IF create THEN "cash" ELSE "shares"
  BY <1>3 DEF Entry, LeftOf, Asset
<1> HIDE DEF d
<1>10. Wallet' = [Wallet EXCEPT ![d.owner][d.asset] = @ - d.put]
  <2>1. /\ cash \in [Accounts -> Nat] /\ shares \in [Accounts -> Nat]
        /\ Users \subseteq Accounts /\ Queue \notin Users
    BY UsersApart DEF TypeOK
  <2>2. CASE create
    <3>1. d.asset = "cash"
      BY <1>9, <2>2
    <3>2. \A v \in Users : cash'[v] = IF v = u THEN cash[u] - amt ELSE cash[v]
      BY <2>1, <2>2 DEF Transfer
    <3>3. shares' = shares
      BY <2>2
    <3>4. Wallet' = [w \in Users |-> [cash |-> IF w = u THEN cash[u] - amt ELSE cash[w],
                                      shares |-> shares[w]]]
      BY <3>2, <3>3 DEF Wallet
    <3>5. Wallet[u]["cash"] - amt = cash[u] - amt
      BY CashUpdate
    <3>6. Wallet' = [Wallet EXCEPT ![u]["cash"] = cash[u] - amt]
      BY <3>4, CashUpdate
    <3> QED
      BY <1>9, <3>1, <3>5, <3>6
  <2>3. CASE ~create
    <3>1. d.asset = "shares"
      BY <1>9, <2>3
    <3>2. \A v \in Users : shares'[v] = IF v = u THEN shares[u] - amt ELSE shares[v]
      BY <2>1, <2>3 DEF Transfer
    <3>3. cash' = cash
      BY <2>3
    <3>4. Wallet' = [w \in Users |-> [cash |-> cash[w],
                                      shares |-> IF w = u THEN shares[u] - amt ELSE shares[w]]]
      BY <3>2, <3>3 DEF Wallet
    <3>5. Wallet[u]["shares"] - amt = shares[u] - amt
      BY SharesUpdate
    <3>6. Wallet' = [Wallet EXCEPT ![u]["shares"] = shares[u] - amt]
      BY <3>4, SharesUpdate
    <3> QED
      BY <1>9, <3>1, <3>5, <3>6
  <2> QED
    BY <2>2, <2>3
<1>11. Escrow!Deposit
  <2>1. Len(Book') = Len(Book) + 1 /\ Book'[Len(Book')] = d
    BY <1>6, <1>8
  <2>2. d.left = d.put /\ d.left > 0
    BY <1>9
  <2> QED
    BY <1>1, <1>7, <1>9, <1>10, <2>1, <2>2 DEF Escrow!Deposit, Wallet
<1> QED
  BY <1>5, <1>11 DEF Mapped

(* A cancel returns all that is left.                                       *)
LEMMA CancelMapped ==
  ASSUME TypeOK, DepositsCover, NEW u \in Users, NEW id \in DOMAIN tickets, Cancel(u, id)
  PROVE  Mapped /\ DepositsCover'
<1> DEFINE t == tickets[id]
           put == deposits[id]
           v == [t EXCEPT !.status = Cancelled]
           d == Entry(t, put)
           returned == [d EXCEPT !.back = d.back + d.left, !.left = 0]
<1>1. /\ tickets \in Seq(Ticket) /\ deposits \in Seq(Nat) /\ Len(deposits) = Len(tickets)
      /\ now \in Nat
  BY DEF TypeOK
<1>2. /\ t \in Ticket /\ t.amount \in Nat /\ t.amount > 0 /\ t.amount <= put /\ put \in Nat
      /\ t.status = Pending /\ t.owner = u /\ now < t.cutoff
  <2>1. t.status = Pending /\ t.owner = u /\ now < t.cutoff
    BY DEF Cancel, Cancellable
  <2>2. t \in Ticket /\ t.amount \in Nat
    BY TicketTyped
  <2>3. put \in Nat
    BY <1>1
  <2>4. t.amount > 0 /\ t.amount <= put
    BY <2>1 DEF DepositsCover, Covered
  <2> QED
    BY <2>1, <2>2, <2>3, <2>4
<1>3. tickets' = [tickets EXCEPT ![id] = v] /\ deposits' = deposits /\ now' = now
  BY <1>1 DEF Cancel, history
<1>4. /\ DOMAIN tickets' = DOMAIN tickets
      /\ \A i \in DOMAIN tickets : tickets'[i] = IF i = id THEN v ELSE tickets[i]
  BY <1>1, <1>3
<1>5. /\ v.status = Cancelled /\ v.amount = t.amount /\ v.owner = t.owner
      /\ v.isCreate = t.isCreate /\ v.cutoff = t.cutoff
  BY <1>2 DEF Ticket
<1> HIDE DEF v, t, put
<1>6. DepositsCover'
  <2> SUFFICES ASSUME NEW i \in DOMAIN tickets'
               PROVE  Covered(tickets'[i], deposits'[i])
    BY DEF DepositsCover, Covered
  <2>1. CASE i = id
    BY <1>2, <1>3, <1>4, <1>5, <2>1 DEF Covered, Cancelled, Pending, put
  <2>2. CASE i # id
    BY <1>3, <1>4, <2>2 DEF DepositsCover
  <2> QED
    BY <2>1, <2>2
<1>7. /\ d.left = t.amount /\ d.back = 0 /\ d.owner = u /\ d.deadline = t.cutoff
      /\ d.asset = IF t.isCreate THEN "cash" ELSE "shares"
  BY <1>2 DEF Entry, LeftOf, BackOf, Asset, Pending, Cancelled
<1>8. Entry(v, put) = returned
  <2>1. put - 0 - t.amount = put - t.amount - 0 /\ 0 + t.amount = t.amount
    BY <1>2
  <2>2. /\ LeftOf(v) = 0 /\ BackOf(v) = t.amount /\ LeftOf(t) = t.amount /\ BackOf(t) = 0
        /\ Asset(v) = Asset(t)
    BY <1>2, <1>5 DEF LeftOf, BackOf, Asset, Pending, Cancelled
  <2> DEFINE whole == [owner |-> t.owner, asset |-> Asset(t), put |-> put, left |-> t.amount,
                       back |-> 0, spent |-> put - t.amount - 0, deadline |-> t.cutoff]
  <2>3. d = whole
    BY <2>2 DEF Entry
  <2>4. Entry(v, put) = [owner |-> t.owner, asset |-> Asset(t), put |-> put, left |-> 0,
                         back |-> t.amount, spent |-> put - t.amount - 0, deadline |-> t.cutoff]
    BY <1>5, <2>1, <2>2 DEF Entry
  <2> DEFINE half == [owner |-> t.owner, asset |-> Asset(t), put |-> put, left |-> t.amount,
                      back |-> t.amount, spent |-> put - t.amount - 0, deadline |-> t.cutoff]
  <2>5. [whole EXCEPT !.back = t.amount, !.left = 0] = Entry(v, put)
    <3>1. [whole EXCEPT !.back = t.amount] = half
      OBVIOUS
    <3>2. [half EXCEPT !.left = 0] = Entry(v, put)
      <4> HIDE DEF Entry
      <4> QED
        BY <2>4
    <3>3. [whole EXCEPT !.back = t.amount, !.left = 0]
            = [[whole EXCEPT !.back = t.amount] EXCEPT !.left = 0]
      OBVIOUS
    <3> HIDE DEF whole, half, Entry
    <3> QED
      BY <3>1, <3>2, <3>3
  <2>6. returned = [d EXCEPT !.back = t.amount, !.left = 0]
    <3>1. d.back + d.left = t.amount
      BY <1>2, <1>7
    <3> HIDE DEF d
    <3> QED
      BY <3>1
  <2> HIDE DEF whole, d, Entry
  <2> QED
    BY <2>3, <2>5, <2>6
<1>9. DOMAIN Book = DOMAIN tickets /\ Book[id] = d
  BY BookIs DEF t, put
<1> HIDE DEF d
<1>10. Book' = [Book EXCEPT ![id] = returned]
  <2>1. DOMAIN Book' = DOMAIN tickets
    BY <1>4, BookIs
  <2>2. \A i \in DOMAIN tickets : Book'[i] = IF i = id THEN returned ELSE Book[i]
    <3> TAKE i \in DOMAIN tickets
    <3>1. Book'[i] = Entry(tickets'[i], deposits'[i]) /\ Book[i] = Entry(tickets[i], deposits[i])
      BY <1>4, BookIs
    <3> QED
      BY <1>3, <1>4, <1>8, <3>1 DEF put
  <2>3. Book' = [i \in DOMAIN tickets |-> IF i = id THEN returned ELSE Book[i]]
    <3>1. Book' = [i \in DOMAIN Book' |-> Book'[i]]
      BY BookIs
    <3> HIDE DEF returned
    <3> QED
      BY <2>1, <2>2, <3>1
  <2> HIDE DEF returned
  <2> QED
    BY <1>9, <2>3
<1>11. Book' = [Book EXCEPT ![id].back = @ + Book[id].left, ![id].left = 0]
  BY <1>9, <1>10
<1>12. Wallet' = [Wallet EXCEPT ![Book[id].owner][Book[id].asset] = @ + Book[id].left]
  <2>1. /\ cash \in [Accounts -> Nat] /\ shares \in [Accounts -> Nat]
        /\ Users \subseteq Accounts /\ Queue \notin Users
    BY UsersApart DEF TypeOK
  <2>2. CASE t.isCreate
    <3>1. cash' = Transfer(cash, Queue, u, t.amount) /\ shares' = shares
      BY <2>2 DEF Cancel, t
    <3>2. \A w \in Users : cash'[w] = IF w = u THEN cash[u] + t.amount ELSE cash[w]
      BY <1>2, <2>1, <3>1 DEF Transfer
    <3>3. Wallet' = [w \in Users |-> [cash |-> IF w = u THEN cash[u] + t.amount ELSE cash[w],
                                      shares |-> shares[w]]]
      BY <3>1, <3>2 DEF Wallet
    <3>4. Wallet[u]["cash"] + t.amount = cash[u] + t.amount
      BY CashUpdate
    <3>5. Wallet' = [Wallet EXCEPT ![u]["cash"] = cash[u] + t.amount]
      BY <3>3, CashUpdate
    <3>6. Book[id].owner = u /\ Book[id].asset = "cash" /\ Book[id].left = t.amount
      BY <1>7, <1>9, <2>2
    <3> QED
      BY <3>4, <3>5, <3>6
  <2>3. CASE ~t.isCreate
    <3>1. shares' = Transfer(shares, Queue, u, t.amount) /\ cash' = cash
      BY <2>3 DEF Cancel, t
    <3>2. \A w \in Users : shares'[w] = IF w = u THEN shares[u] + t.amount ELSE shares[w]
      BY <1>2, <2>1, <3>1 DEF Transfer
    <3>3. Wallet' = [w \in Users |-> [cash |-> cash[w],
                       shares |-> IF w = u THEN shares[u] + t.amount ELSE shares[w]]]
      BY <3>1, <3>2 DEF Wallet
    <3>4. Wallet[u]["shares"] + t.amount = shares[u] + t.amount
      BY SharesUpdate
    <3>5. Wallet' = [Wallet EXCEPT ![u]["shares"] = shares[u] + t.amount]
      BY <3>3, SharesUpdate
    <3>6. Book[id].owner = u /\ Book[id].asset = "shares" /\ Book[id].left = t.amount
      BY <1>7, <1>9, <2>3
    <3> QED
      BY <3>4, <3>5, <3>6
  <2> QED
    BY <2>2, <2>3
<1>13. Escrow!Return(id)
  <2>1. Book[id].left > 0 /\ now < Book[id].deadline
    BY <1>2, <1>7, <1>9
  <2> QED
    BY <1>3, <1>11, <1>12, <2>1 DEF Escrow!Return, Wallet
<1> QED
  BY <1>6, <1>9, <1>13 DEF Mapped

(* What a batch may make of a ticket is a spending of its deposit.          *)
LEMMA KeptIsSpent ==
  ASSUME TypeOK, DepositsCover, NEW i \in DOMAIN tickets, NEW e, Kept(tickets[i], e)
  PROVE  LET d == Entry(tickets[i], deposits[i])
             f == Entry(e, deposits[i])
         IN  /\ Covered(e, deposits[i])
             /\ \/ f = d
                \/ /\ d.left > 0
                   /\ now >= d.deadline
                   /\ f.left <= d.left
                   /\ f.left > 0 => f.deadline > now
                   /\ f = [d EXCEPT !.left = f.left, !.deadline = f.deadline,
                                    !.spent = d.spent + (d.left - f.left)]
<1> DEFINE t == tickets[i]
           put == deposits[i]
           d == Entry(t, put)
           f == Entry(e, put)
<1>1. CASE e = t
  BY <1>1 DEF DepositsCover
<1>2. CASE e # t
  <2>1. /\ t.status = Pending /\ now >= t.cutoff
        /\ e.owner = t.owner /\ e.isCreate = t.isCreate
        /\ e.amount \in 1..t.amount
        /\ e.status \in {Pending, Settled}
        /\ e.status = Pending => e.cutoff > now
    BY <1>2 DEF Kept
  <2>2. t.amount \in Nat /\ put \in Nat /\ t.amount <= put /\ t.amount > 0
    <3>1. put \in Nat
      BY DEF TypeOK
    <3>2. t.amount <= put /\ t.amount > 0
      BY <2>1 DEF DepositsCover, Covered
    <3> QED
      BY <3>1, <3>2, TicketTyped
  <2> HIDE DEF t, put
  <2>3. Covered(e, put)
    BY <2>1, <2>2 DEF Covered
  <2>4. /\ LeftOf(t) = t.amount /\ BackOf(t) = 0 /\ BackOf(e) = 0 /\ Asset(e) = Asset(t)
        /\ LeftOf(e) \in 0..t.amount
        /\ LeftOf(e) > 0 => e.cutoff > now
    BY <2>1, <2>2 DEF LeftOf, BackOf, Asset, Pending, Settled, Cancelled
  <2>5. /\ d.left = t.amount /\ d.deadline = t.cutoff /\ d.spent = put - t.amount - 0
        /\ f.left = LeftOf(e) /\ f.deadline = e.cutoff
    BY <2>4 DEF Entry
  <2>6. put - LeftOf(e) - 0 = (put - t.amount - 0) + (t.amount - LeftOf(e))
    BY <2>2, <2>4
  <2>7. f = [owner |-> t.owner, asset |-> Asset(t), put |-> put, left |-> LeftOf(e),
             back |-> BackOf(t), spent |-> put - LeftOf(e) - 0, deadline |-> e.cutoff]
    BY <2>1, <2>4 DEF Entry
  <2> DEFINE spent == d.spent + (d.left - f.left)
  <2>8. spent = put - LeftOf(e) - 0
    BY <2>5, <2>6
  <2>9. [d EXCEPT !.left = f.left, !.deadline = f.deadline, !.spent = spent]
          = [owner |-> t.owner, asset |-> Asset(t), put |-> put, left |-> f.left,
             back |-> BackOf(t), spent |-> spent, deadline |-> f.deadline]
    <3>1. d = [owner |-> t.owner, asset |-> Asset(t), put |-> put, left |-> LeftOf(t),
               back |-> BackOf(t), spent |-> put - LeftOf(t) - BackOf(t),
               deadline |-> t.cutoff]
      BY DEF Entry
    <3> DEFINE Is(l, s, m) == [owner |-> t.owner, asset |-> Asset(t), put |-> put,
                               left |-> l, back |-> BackOf(t), spent |-> s,
                               deadline |-> m]
               s0 == put - LeftOf(t) - BackOf(t)
               left == f.left
               deadline == f.deadline
               one == Is(left, s0, t.cutoff)
               two == Is(left, s0, deadline)
    <3> HIDE DEF f, spent, d, left, deadline, s0
    <3>2. [d EXCEPT !.left = left] = one
      BY <3>1 DEF s0
    <3>3. [one EXCEPT !.deadline = deadline] = two
      OBVIOUS
    <3>4. [two EXCEPT !.spent = spent] = Is(left, spent, deadline)
      OBVIOUS
    <3>5. [d EXCEPT !.left = left, !.deadline = deadline, !.spent = spent]
            = [[[d EXCEPT !.left = left] EXCEPT !.deadline = deadline] EXCEPT !.spent = spent]
      OBVIOUS
    <3> HIDE DEF one, two
    <3>6. [d EXCEPT !.left = left, !.deadline = deadline, !.spent = spent]
            = Is(left, spent, deadline)
      BY <3>2, <3>3, <3>4, <3>5
    <3> QED
      BY <3>6 DEF left, deadline
  <2> HIDE DEF spent, f, d
  <2>10. f = [d EXCEPT !.left = f.left, !.deadline = f.deadline, !.spent = spent]
    BY <2>5, <2>7, <2>8, <2>9
  <2>11. d.left > 0 /\ now >= d.deadline /\ f.left <= d.left /\ (f.left > 0 => f.deadline > now)
    BY <2>1, <2>2, <2>4, <2>5
  <2> QED
    BY <2>3, <2>10, <2>11 DEF spent, f, d, t, put
<1> QED
  BY <1>1, <1>2

(* A batch spends.                                                          *)
LEMMA SettleMapped ==
  ASSUME TypeOK, EscrowExact, DepositsCover,
         NEW r \in Readings, NEW extra \in Overpay, NEW accrual \in Accruals,
         NEW ids \in Seq(DOMAIN tickets),
         Settle(ids, r, extra, accrual)
  PROVE  Mapped /\ DepositsCover'
<1> DEFINE x == Terms(ids, r, extra, accrual)
           b == Run(ids, x)
           tip == Tip(b.shares[KeeperModule])
<1>1. x \in TermsType
  <2>1. /\ GatePasses(r)
        /\ Capped /\ (\E k \in DOMAIN ids : FillableCreate(ids[k])) => NavPerShare(r) > 0
    BY DEF Settle, Terms
  <2>2. extra \in Int /\ accrual \in [keeper : Nat, others : Nat]
    BY InputAssumption
  <2> QED
    BY <2>1, <2>2, TermsTyped
<1>2. Sound(b) /\ Promised(b)
  <2>1. Run(ids, x).ok
    BY DEF Settle
  <2> HIDE DEF x
  <2> QED
    BY <1>1, <2>1, BatchPromised
<1>3. /\ tickets' = b.tickets /\ cash' = b.cash /\ deposits' = deposits /\ now' = now
      /\ shares' = IF b.worked THEN Transfer(b.shares, KeeperModule, Keeper, tip) ELSE b.shares
  BY DEF Settle, config
<1> HIDE DEF b, x, tip
<1>4. DOMAIN tickets' = DOMAIN tickets /\ b.shares \in [Accounts -> Nat]
  BY <1>2, <1>3 DEF Sound, Renewed, BatchType
<1>5. \A u \in Users : shares'[u] = b.shares[u]
  BY <1>3, <1>4, UsersApart DEF Transfer
<1>6. \A u \in Users : cash'[u] >= cash[u] /\ shares'[u] >= shares[u]
  BY <1>2, <1>3, <1>5 DEF Promised, NoPoorer
<1>7. \A i \in DOMAIN tickets : Kept(tickets[i], tickets'[i])
  BY <1>2, <1>3 DEF Promised
<1>8. DepositsCover'
  <2> SUFFICES ASSUME NEW i \in DOMAIN tickets'
               PROVE  Covered(tickets'[i], deposits'[i])
    BY DEF DepositsCover, Covered
  <2> QED
    BY <1>3, <1>4, <1>7, KeptIsSpent
<1>9. DOMAIN Book' = DOMAIN Book /\ DOMAIN Book = DOMAIN tickets
  BY <1>4, BookIs
<1>10. ASSUME NEW i \in DOMAIN Book
       PROVE  LET d == Book[i]
                  e == Book'[i]
              IN \/ e = d
                 \/ /\ d.left > 0
                    /\ now >= d.deadline
                    /\ e.left <= d.left
                    /\ e.left > 0 => e.deadline > now
                    /\ e = [d EXCEPT !.left = e.left, !.deadline = e.deadline,
                                     !.spent = d.spent + (d.left - e.left)]
  <2>1. /\ i \in DOMAIN tickets
        /\ Book[i] = Entry(tickets[i], deposits[i])
        /\ Book'[i] = Entry(tickets'[i], deposits[i])
    BY <1>3, <1>4, <1>9, BookIs
  <2>2. Kept(tickets[i], tickets'[i])
    BY <1>7, <2>1
  <2>3. LET d == Entry(tickets[i], deposits[i])
            e == Entry(tickets'[i], deposits[i])
        IN \/ e = d
           \/ /\ d.left > 0
              /\ now >= d.deadline
              /\ e.left <= d.left
              /\ e.left > 0 => e.deadline > now
              /\ e = [d EXCEPT !.left = e.left, !.deadline = e.deadline,
                               !.spent = d.spent + (d.left - e.left)]
    BY <2>1, <2>2, KeptIsSpent
  <2> QED
    BY <2>1, <2>3
<1>11. \A u \in Users : Wallet'[u].cash >= Wallet[u].cash /\ Wallet'[u].shares >= Wallet[u].shares
  BY <1>6 DEF Wallet
<1>12. Escrow!Spend
  BY <1>3, <1>9, <1>10, <1>11 DEF Escrow!Spend, Wallet
<1> QED
  BY <1>8, <1>12 DEF Mapped

LEMMA QuietMapped ==
  ASSUME TypeOK, DepositsCover,
         \/ \E d \in Delays : SetCutoffDelay(d)
         \/ \E b \in Spreads : SetSpreadBps(b)
         \/ \E b \in Capacities : SetCapacity(b)
         \/ \E t \in Tips : SetKeeperTip(t)
         \/ \E g \in Gates : SetGateParams(g)
         \/ SetG1Refs
         \/ \E allowed \in Executors : SetExecutor(allowed)
         \/ \E c \in MaxRewards : SetMaxRewardPerCall(c)
         \/ \E c, r \in FlatFees : SetFlatFees(c, r)
         \/ \E to \in {Market, KeeperModule} : MintOutside(to)
         \/ RedeemInKind
         \/ UNCHANGED vars
  PROVE  Mapped /\ DepositsCover'
<1>1. /\ tickets' = tickets /\ deposits' = deposits /\ surplus' = surplus
      /\ cash' = cash /\ now' = now
  BY DEF SetCutoffDelay, SetSpreadBps, SetCapacity, SetKeeperTip, SetGateParams,
         SetG1Refs, SetExecutor, SetMaxRewardPerCall, SetFlatFees, SetParams,
         MintOutside, RedeemInKind, vars, config, ledger, history
<1>2. shares'[Queue] = shares[Queue] /\ \A u \in Users : shares'[u] = shares[u]
  <2>1. /\ shares \in [Accounts -> Nat] /\ Queue \notin {Market, KeeperModule}
        /\ Queue \in Accounts /\ Users \subseteq Accounts
        /\ Market \notin Users /\ KeeperModule \notin Users
    BY UsersApart, Parties DEF TypeOK
  <2>2. CASE \E to \in {Market, KeeperModule} : MintOutside(to)
    BY <2>1, <2>2 DEF MintOutside
  <2>3. CASE RedeemInKind
    BY <2>1, <2>3 DEF RedeemInKind
  <2>4. CASE shares' = shares
    BY <2>4
  <2> QED
    BY <2>2, <2>3, <2>4
       DEF SetCutoffDelay, SetSpreadBps, SetCapacity, SetKeeperTip, SetGateParams,
           SetG1Refs, SetExecutor, SetMaxRewardPerCall, SetFlatFees, SetParams,
           vars, config, ledger, history
<1>3. DepositsCover'
  BY <1>1 DEF DepositsCover, Covered
<1> QED
  BY <1>1, <1>2, <1>3, BookStutters, Unmoved

LEMMA TickMapped ==
  ASSUME TypeOK, DepositsCover, Tick
  PROVE  Mapped /\ DepositsCover'
<1>1. /\ tickets' = tickets /\ deposits' = deposits /\ surplus' = surplus
      /\ cash' = cash /\ shares' = shares /\ now' = now + 1 /\ now \in Nat
  BY DEF Tick, TypeOK, ledger, config, history
<1>2. Book' = Book /\ Wallet' = Wallet
  BY <1>1, BookStutters
<1>3. Escrow!Tick
  BY <1>1, <1>2 DEF Escrow!Tick, Wallet
<1>4. DepositsCover'
  BY <1>1 DEF DepositsCover, Covered
<1> QED
  BY <1>3, <1>4 DEF Mapped

LEMMA StepMapped == Inv /\ DepositsCover /\ [Next]_vars => Mapped /\ DepositsCover'
<1> SUFFICES ASSUME TypeOK, EscrowExact, DepositsCover, [Next]_vars
             PROVE  Mapped /\ DepositsCover'
  BY DEF Inv
<1>1. ASSUME NEW u \in Users, NEW amt \in Amounts, RequestCreate(u, amt)
      PROVE  Mapped /\ DepositsCover'
  <2>1. amt \in Nat
    BY InputAssumption
  <2>2. /\ amt > 0 /\ OpenTicket(u, TRUE, amt)
        /\ cash' = Transfer(cash, u, Queue, amt) /\ shares' = shares
    BY <1>1 DEF RequestCreate
  <2>3. amt \in Nat \ {0}
    BY <2>1, <2>2
  <2> QED
    BY <2>2, <2>3, RequestMapped
<1>2. ASSUME NEW u \in Users, NEW amt \in Amounts, RequestRedeem(u, amt)
      PROVE  Mapped /\ DepositsCover'
  <2>1. amt \in Nat
    BY InputAssumption
  <2>2. /\ amt > 0 /\ OpenTicket(u, FALSE, amt)
        /\ shares' = Transfer(shares, u, Queue, amt) /\ cash' = cash
    BY <1>2 DEF RequestRedeem
  <2>3. amt \in Nat \ {0}
    BY <2>1, <2>2
  <2> QED
    BY <2>2, <2>3, RequestMapped
<1>3. CASE \E u \in Users, id \in DOMAIN tickets : Cancel(u, id)
  BY <1>3, CancelMapped
<1>4. CASE \E k \in 0..MaxBatch : \E ids \in [1..k -> DOMAIN tickets] :
             \E r \in Readings, extra \in Overpay, accrual \in Accruals :
               /\ \/ accrual = NoAccrual
                  \/ supply + accrual.keeper + accrual.others <= MaxSupply
               /\ Settle(ids, r, extra, accrual)
  <2>1. PICK k \in 0..MaxBatch : \E ids \in [1..k -> DOMAIN tickets] :
          \E r \in Readings, extra \in Overpay, accrual \in Accruals :
            Settle(ids, r, extra, accrual)
    BY <1>4
  <2>2. PICK ids \in [1..k -> DOMAIN tickets] :
          \E r \in Readings, extra \in Overpay, accrual \in Accruals :
            Settle(ids, r, extra, accrual)
    BY <2>1
  <2>3. ids \in Seq(DOMAIN tickets)
    BY InputAssumption
  <2> QED
    BY <2>2, <2>3, SettleMapped
<1>5. CASE Tick
  BY <1>5, TickMapped
<1> QED
  BY <1>1, <1>2, <1>3, <1>4, <1>5, QuietMapped DEF Next

(* The queue keeps the promise: whatever the prices, caps, fees, batches    *)
(* and owners do, every behaviour of it is one of the abstract escrow.      *)
THEOREM QueueImplementsEscrow == Spec => RefinesEscrow
<1>1. Init => Inv /\ DepositsCover /\ Book = << >>
  <2> SUFFICES ASSUME Init PROVE Inv /\ DepositsCover /\ Book = << >>
    OBVIOUS
  <2>1. tickets = << >>
    BY DEF Init
  <2> QED
    BY <2>1, InitInv, BookIs DEF DepositsCover
<1>2. Init => Escrow!Init
  BY <1>1, BookBacked DEF Escrow!Init
<1>3. Inv /\ DepositsCover /\ [Next]_vars => Inv' /\ DepositsCover' /\ Mapped
  BY StepInv, StepMapped
<1>4. Mapped /\ Escrow!Backed' => [Escrow!Next]_(Escrow!vars)
  BY DEF Mapped, Escrow!Next
<1> QED
  BY <1>1, <1>2, <1>3, <1>4, BookBacked, PTL DEF Spec, RefinesEscrow, Escrow!Spec

-----------------------------------------------------------------------------
(* What settling a ticket comes to, as movements that do not depend on what *)
(* the batch did before it.                                                 *)
Fills(t, x) == Due(t) /\ (t.isCreate => FillCash(t, x) # 0)

Outcome(t, x) ==
  IF ~Due(t) THEN t
  ELSE IF ~t.isCreate THEN [t EXCEPT !.status = Settled]
  ELSE IF FillCash(t, x) = 0 THEN Rolled(t, t.amount)
  ELSE AfterFill(t, FillCash(t, x))

FlatRedeemFee(worth) == IF IsRegistry THEN Least(fees.redeem, worth) ELSE 0

Owing(t, x) == CashFor(t.amount, x.price)

Minted(t, x) == SharesFor(FillCash(t, x) - CreateFee, x.price)

CreateCash(t, x) ==
  [a \in Accounts |-> IF a = Queue THEN 0 - FillCash(t, x)
                      ELSE IF a = AP THEN FillCash(t, x) - CreateFee
                      ELSE IF a = Treasury THEN CreateFee ELSE 0]

RedeemCash(t, x) ==
  [a \in Accounts |->
     IF a = AP THEN 0 - (Owing(t, x) + x.overpay)
     ELSE IF a = Treasury THEN FlatRedeemFee(Owing(t, x))
     ELSE IF a = t.owner
       THEN (IF IsRegistry THEN Owing(t, x) - FlatRedeemFee(Owing(t, x))
                           ELSE Owing(t, x) + x.overpay)
     ELSE IF a = Queue THEN (IF IsRegistry THEN x.overpay ELSE 0)
     ELSE 0]

CashMoves(t, x) == IF t.isCreate THEN CreateCash(t, x) ELSE RedeemCash(t, x)

ShareMoves(t, x) ==
  [a \in Accounts |->
     IF t.isCreate THEN (IF a = t.owner THEN Minted(t, x) ELSE 0)
                   ELSE (IF a = Queue THEN 0 - t.amount ELSE 0)]

SupplyMove(t, x) == IF t.isCreate THEN Minted(t, x) ELSE 0 - t.amount

SurplusMove(t, x) == IF ~t.isCreate /\ IsRegistry THEN x.overpay ELSE 0

Moved(bal, moves) == [a \in Accounts |-> bal[a] + moves[a]]

(* What a fill needs of the terms.                                          *)
Sizes(t, x) ==
  IF t.isCreate
    THEN /\ FillCash(t, x) \in 1..t.amount
         /\ CreateFee \in Nat /\ FillCash(t, x) - CreateFee \in Nat
         /\ IsRegistry => FillCash(t, x) > CreateFee
         /\ x.price > 0
         /\ Minted(t, x) \in Nat
    ELSE /\ Owing(t, x) \in Nat /\ x.overpay \in Nat
         /\ FlatRedeemFee(Owing(t, x)) \in 0..Owing(t, x)

(* c is b after ticket id was settled, if the vault had accrued to a.       *)
SettledOne(b, a, id, x, c) ==
  /\ c \in BatchType
  /\ c.tickets = [b.tickets EXCEPT ![id] = Outcome(b.tickets[id], x)]
  /\ Fills(b.tickets[id], x) =>
       /\ Sizes(b.tickets[id], x)
       /\ c.worked = TRUE
       /\ c.cash = Moved(b.cash, CashMoves(b.tickets[id], x))
       /\ c.shares = Moved(a.shares, ShareMoves(b.tickets[id], x))
       /\ c.supply = a.supply + SupplyMove(b.tickets[id], x)
       /\ c.surplus = b.surplus + SurplusMove(b.tickets[id], x)
  /\ ~Fills(b.tickets[id], x) =>
       /\ c.worked = b.worked /\ c.cash = b.cash /\ c.shares = b.shares
       /\ c.supply = b.supply /\ c.surplus = b.surplus

LEMMA CreateEffect ==
  ASSUME TypeOK, NEW x \in TermsType, NEW b, Sound(b), NEW id \in DOMAIN b.tickets,
         Due(b.tickets[id]), b.tickets[id].isCreate, FillCash(b.tickets[id], x) # 0,
         FillCreate(b, id, x).ok
  PROVE  SettledOne(b, b, id, x, FillCreate(b, id, x))
<1> DEFINE t == b.tickets[id]
           fill == FillCash(t, x)
           toAP == fill - CreateFee
           n == SharesFor(toAP, x.price)
           e == AfterFill(t, fill)
           tks == [b.tickets EXCEPT ![id] = e]
           paid == Transfer(Transfer(b.cash, Queue, AP, toAP), Queue, Treasury, CreateFee)
           minted == [b.shares EXCEPT ![t.owner] = @ + n]
           ok == /\ IsRegistry => fill > CreateFee
                 /\ x.price > 0
                 /\ n > 0
                 /\ VaultMints(b, n)
                 /\ b.cash[Queue] >= fill
           c == FillCreate(b, id, x)
<1>1. /\ b \in BatchType /\ b.tickets \in Seq(Ticket)
      /\ t \in Ticket /\ t.amount \in Nat /\ t.owner \in Users
  BY SoundTypes
<1>2. c = [b EXCEPT !.ok = ok, !.tickets = tks, !.cash = paid, !.shares = minted,
                    !.supply = b.supply + n, !.worked = TRUE]
  BY <1>1 DEF FillCreate, BatchType
<1>3. /\ c.ok = ok /\ c.tickets = tks /\ c.cash = paid /\ c.shares = minted
      /\ c.supply = b.supply + n /\ c.surplus = b.surplus /\ c.worked = TRUE
  <2> HIDE DEF ok, tks, paid, minted, n, c
  <2> QED
    BY <1>1, <1>2 DEF BatchType
<1>4. Sound(c)
  BY FillCreateSound DEF Due
<1>5. c \in BatchType
  BY <1>4 DEF Sound
<1>6. x.price > 0 /\ (IsRegistry => fill > CreateFee)
  BY <1>3
<1>7. fill \in 1..t.amount
  <2>1. fill \in 0..t.amount /\ fill # 0
    BY <1>1, FillBounded
  <2> HIDE DEF fill, t
  <2> QED
    BY <1>1, <2>1
<1>8. CreateFee \in Nat /\ x.price \in Nat
  BY Prices DEF TermsType
<1>9. toAP \in Nat
  <2> HIDE DEF fill, t
  <2> QED
    BY <1>1, <1>6, <1>7, <1>8 DEF CreateFee
<1>10. n \in Nat
  BY <1>6, <1>8, <1>9, Prices
<1>11. Sizes(t, x)
  <2> HIDE DEF fill
  <2> QED
    BY <1>6, <1>7, <1>8, <1>9, <1>10 DEF Sizes, Minted, fill
<1>12. Fills(t, x) /\ e = Outcome(t, x)
  BY DEF Fills, Outcome
<1>13. paid = Moved(b.cash, CashMoves(t, x))
  <2>1. /\ Queue \in Accounts /\ AP \in Accounts /\ Treasury \in Accounts
        /\ Queue # AP /\ Queue # Treasury /\ AP # Treasury
        /\ b.cash \in [Accounts -> Nat]
    BY <1>1, Parties DEF BatchType
  <2>2. CashMoves(t, x) =
          [a \in Accounts |-> IF a = Queue THEN 0 - fill
                              ELSE IF a = AP THEN toAP
                              ELSE IF a = Treasury THEN CreateFee ELSE 0]
    BY DEF CashMoves, CreateCash
  <2>3. fill \in Nat /\ toAP = fill - CreateFee
    <3> HIDE DEF fill, t
    <3> QED
      BY <1>1, <1>7
  <2>4. PICK f, k, p : f = fill /\ k = CreateFee /\ p = toAP
    OBVIOUS
  <2>5. f \in Nat /\ k \in Nat /\ p \in Nat /\ p = f - k
    BY <1>8, <1>9, <2>3, <2>4
  <2>6. Transfer(Transfer(b.cash, Queue, AP, p), Queue, Treasury, k)
          = [a \in Accounts |-> b.cash[a] + (IF a = Queue THEN 0 - f
                              ELSE IF a = AP THEN p
                              ELSE IF a = Treasury THEN k ELSE 0)]
    BY <2>1, <2>5 DEF Transfer
  <2> HIDE DEF fill, toAP
  <2> QED
    BY <2>2, <2>4, <2>6 DEF Moved
<1>14. minted = Moved(b.shares, ShareMoves(t, x))
  <2>1. /\ b.shares \in [Accounts -> Nat] /\ t.owner \in Accounts
    BY <1>1, Parties DEF BatchType
  <2>2. ShareMoves(t, x) = [a \in Accounts |-> IF a = t.owner THEN n ELSE 0]
    BY DEF ShareMoves, Minted
  <2> HIDE DEF n, t
  <2> QED
    BY <1>10, <2>1, <2>2 DEF Moved
<1>15. SupplyMove(t, x) = n /\ b.supply \in Nat /\ b.surplus \in Nat /\ SurplusMove(t, x) = 0
  BY <1>1 DEF SupplyMove, SurplusMove, Minted, BatchType
<1> HIDE DEF e, paid, minted, n, fill, c
<1>16. c.tickets = [b.tickets EXCEPT ![id] = Outcome(t, x)]
  BY <1>3, <1>12
<1>17. b.surplus = b.surplus + SurplusMove(t, x)
  BY <1>15
<1> QED
  BY <1>3, <1>5, <1>11, <1>12, <1>13, <1>14, <1>15, <1>16, <1>17 DEF SettledOne, c

LEMMA RedeemEffect ==
  ASSUME TypeOK, NEW x \in TermsType, NEW b, Sound(b), NEW id \in DOMAIN b.tickets,
         Due(b.tickets[id]), ~b.tickets[id].isCreate,
         FillRedeem(b, id, x).ok
  PROVE  SettledOne(b, b, id, x, FillRedeem(b, id, x))
<1> DEFINE t == b.tickets[id]
           owed == CashFor(t.amount, x.price)
           pay == owed + x.overpay
           fee == Least(fees.redeem, owed)
           e == [t EXCEPT !.status = Settled]
           tks == [b.tickets EXCEPT ![id] = e]
           burned == [b.shares EXCEPT ![Queue] = @ - t.amount]
           paid == IF IsRegistry
                     THEN Payments(b.cash, t.owner, pay, fee, owed - fee)
                     ELSE Transfer(b.cash, AP, t.owner, pay)
           sur == IF IsRegistry THEN b.surplus + x.overpay ELSE b.surplus
           ok == RedeemAllowed(b, t, owed, pay)
           c == FillRedeem(b, id, x)
<1>1. /\ b \in BatchType /\ b.tickets \in Seq(Ticket)
      /\ t \in Ticket /\ t.amount \in Nat /\ t.owner \in Users
  BY SoundTypes
<1>3. /\ c.ok = ok /\ c.tickets = tks /\ c.cash = paid /\ c.shares = burned
      /\ c.supply = b.supply - t.amount /\ c.surplus = sur /\ c.worked = TRUE
  <2>1. /\ c.ok = ok
        /\ c.tickets = Closed(b.tickets, id, t)
        /\ c.cash = PaidOut(b.cash, t.owner, owed, pay)
        /\ c.shares = Burned(b.shares, t.amount)
        /\ c.supply = b.supply - t.amount /\ c.surplus = sur /\ c.worked = TRUE
    BY <1>1, FillRedeemIs
  <2> HIDE DEF c, t, owed, pay
  <2> QED
    BY <2>1 DEF Closed, PaidOut, Burned, fee
<1>4. c \in BatchType
  <2>1. Sound(c)
    BY FillRedeemSound DEF Due
  <2> QED
    BY <2>1 DEF Sound
<1>5. pay >= owed
  BY <1>3 DEF RedeemAllowed
<1>6. owed \in Nat /\ x.overpay \in Nat /\ fee \in 0..owed
  <2>1. owed \in Nat
    BY <1>1, Prices DEF TermsType
  <2>2. x.overpay \in Int /\ fees.redeem \in Nat
    BY ScaleAssumption DEF TermsType, TypeOK
  <2> HIDE DEF owed
  <2> QED
    BY <1>5, <2>1, <2>2 DEF Least
<1>7. FlatRedeemFee(owed) = (IF IsRegistry THEN fee ELSE 0) /\ Owing(t, x) = owed
  BY DEF FlatRedeemFee, Owing
<1>8. Sizes(t, x)
  <2> HIDE DEF owed, fee
  <2> QED
    BY <1>6, <1>7 DEF Sizes
<1>9. Fills(t, x) /\ e = Outcome(t, x)
  BY DEF Fills, Outcome
<1>10. paid = Moved(b.cash, CashMoves(t, x))
  <2>1. /\ Queue \in Accounts /\ AP \in Accounts /\ Treasury \in Accounts
        /\ Queue # AP /\ Queue # Treasury /\ AP # Treasury
        /\ b.cash \in [Accounts -> Nat]
    BY <1>1, Parties DEF BatchType
  <2>2. PICK o, w, f, v : o = t.owner /\ w = owed /\ f = fee /\ v = x.overpay
    OBVIOUS
  <2>3. w \in Nat /\ v \in Nat /\ f \in Nat /\ f <= w
    BY <1>6, <2>2
  <2>4. o \in Accounts /\ o # Queue /\ o # AP /\ o # Treasury
    BY <1>1, <2>2, UsersApart
  <2> HIDE DEF owed, fee
  <2>5. CASE IsRegistry
    <3>1. CashMoves(t, x) =
            [a \in Accounts |-> IF a = AP THEN 0 - (w + v)
                                ELSE IF a = Treasury THEN f
                                ELSE IF a = o THEN w - f
                                ELSE IF a = Queue THEN v ELSE 0]
      BY <1>7, <2>2, <2>5 DEF CashMoves, RedeemCash
    <3>2. Transfer(b.cash, AP, Queue, w + v)
            = [a \in Accounts |-> IF a = AP THEN b.cash[a] - (w + v)
                                  ELSE IF a = Queue THEN b.cash[a] + (w + v) ELSE b.cash[a]]
      BY <2>1 DEF Transfer
    <3>3. Transfer(Transfer(b.cash, AP, Queue, w + v), Queue, Treasury, f)
            = [a \in Accounts |-> IF a = AP THEN b.cash[a] - (w + v)
                                  ELSE IF a = Queue THEN b.cash[a] + (w + v) - f
                                  ELSE IF a = Treasury THEN b.cash[a] + f ELSE b.cash[a]]
      BY <2>1, <2>3, <3>2 DEF Transfer
    <3>4. Payments(b.cash, o, w + v, f, w - f)
            = [a \in Accounts |-> IF a = AP THEN b.cash[a] - (w + v)
                                  ELSE IF a = Queue THEN b.cash[a] + (w + v) - f - (w - f)
                                  ELSE IF a = Treasury THEN b.cash[a] + f
                                  ELSE IF a = o THEN b.cash[a] + (w - f) ELSE b.cash[a]]
      BY <2>1, <2>3, <2>4, <3>3 DEF Transfer, Payments
    <3>5. paid = Payments(b.cash, o, w + v, f, w - f)
      BY <2>2, <2>5
    <3>6. \A a \in Accounts : b.cash[a] \in Nat
      BY <2>1
    <3> HIDE DEF paid
    <3> QED
      BY <3>1, <3>4, <3>5, <3>6, <2>1, <2>3, <2>4 DEF Moved
  <2>6. CASE ~IsRegistry
    <3>1. CashMoves(t, x) =
            [a \in Accounts |-> IF a = AP THEN 0 - (w + v)
                                ELSE IF a = Treasury THEN 0
                                ELSE IF a = o THEN w + v
                                ELSE IF a = Queue THEN 0 ELSE 0]
      BY <1>7, <2>2, <2>6 DEF CashMoves, RedeemCash
    <3>2. paid = Transfer(b.cash, AP, o, w + v)
      BY <2>2, <2>6
    <3> HIDE DEF paid
    <3> QED
      BY <3>1, <3>2, <2>1, <2>3, <2>4 DEF Moved, Transfer
  <2> QED
    BY <2>5, <2>6
<1>11. burned = Moved(b.shares, ShareMoves(t, x))
  <2>1. b.shares \in [Accounts -> Nat] /\ Queue \in Accounts
    BY <1>1, Parties DEF BatchType
  <2>2. ShareMoves(t, x) = [a \in Accounts |-> IF a = Queue THEN 0 - t.amount ELSE 0]
    BY DEF ShareMoves
  <2> HIDE DEF t
  <2> QED
    BY <1>1, <2>1, <2>2 DEF Moved
<1>12. b.supply - t.amount = b.supply + SupplyMove(t, x)
  <2>1. SupplyMove(t, x) = 0 - t.amount /\ b.supply \in Nat
    BY <1>1 DEF SupplyMove, BatchType
  <2> HIDE DEF t
  <2> QED
    BY <1>1, <2>1
<1>13. sur = b.surplus + SurplusMove(t, x)
  <2>1. SurplusMove(t, x) = (IF IsRegistry THEN x.overpay ELSE 0) /\ b.surplus \in Nat
    BY <1>1 DEF SurplusMove, BatchType
  <2> QED
    BY <1>6, <2>1
<1> HIDE DEF e, paid, burned, sur, c, owed, pay, fee
<1>14. c.tickets = [b.tickets EXCEPT ![id] = Outcome(t, x)]
  BY <1>3, <1>9
<1> QED
  BY <1>3, <1>4, <1>8, <1>9, <1>10, <1>11, <1>12, <1>13, <1>14 DEF SettledOne, c

LEMMA SettleOneEffect ==
  ASSUME TypeOK, NEW x \in TermsType, NEW b, Sound(b), NEW id \in DOMAIN tickets,
         SettleOne(b, id, x).ok
  PROVE  SettledOne(b, Accrued(b, x), id, x, SettleOne(b, id, x))
<1> DEFINE t == b.tickets[id]
           a == Accrued(b, x)
           c == SettleOne(b, id, x)
<1>1. id \in DOMAIN b.tickets /\ b.ok /\ b \in BatchType /\ b.tickets \in Seq(Ticket)
  <2>1. b \in BatchType /\ Renewed(b)
    BY DEF Sound
  <2> QED
    BY <2>1 DEF Renewed, BatchType
<1>2. Sound(a) /\ a.tickets = b.tickets /\ a.cash = b.cash /\ a.surplus = b.surplus
  <2>1. Sound(a) /\ a.tickets = b.tickets
    BY AccruedSound
  <2>2. a.cash = b.cash /\ a.surplus = b.surplus
    BY <1>1 DEF Accrued, BatchType
  <2> QED
    BY <2>1, <2>2
<1>3. CASE ~Due(t)
  <2>1. c = b
    BY <1>3 DEF SettleOne
  <2>2. ~Fills(t, x) /\ Outcome(t, x) = t
    BY <1>3 DEF Fills, Outcome
  <2>3. b.tickets = [b.tickets EXCEPT ![id] = t]
    BY <1>1
  <2> HIDE DEF c
  <2> QED
    BY <1>1, <2>1, <2>2, <2>3 DEF SettledOne, c
<1>4. CASE Due(t) /\ ~t.isCreate
  <2>1. c = FillRedeem(a, id, x)
    BY <1>1, <1>4 DEF SettleOne
  <2>2. id \in DOMAIN a.tickets /\ Due(a.tickets[id]) /\ ~a.tickets[id].isCreate
    BY <1>1, <1>2, <1>4
  <2>3. Fills(t, x)
    BY <1>4 DEF Fills
  <2> HIDE DEF a, c
  <2>4. SettledOne(a, a, id, x, c)
    <3>1. FillRedeem(a, id, x).ok
      BY <2>1 DEF c
    <3> QED
      BY <1>2, <2>1, <2>2, <3>1, RedeemEffect
  <2> QED
    BY <1>2, <2>3, <2>4 DEF SettledOne, a, c
<1>5. CASE Due(t) /\ t.isCreate /\ FillCash(t, x) = 0
  <2>1. c = Defer(b, id)
    BY <1>1, <1>5 DEF SettleOne
  <2>2. ~Fills(t, x) /\ Outcome(t, x) = Rolled(t, t.amount)
    BY <1>5 DEF Fills, Outcome
  <2>3. c = [b EXCEPT !.tickets = [b.tickets EXCEPT ![id] = Rolled(t, t.amount)]]
    BY <1>1, <2>1 DEF Defer, BatchType
  <2>4. c \in BatchType
    <3>1. Sound(c)
      BY <1>1, <1>5, <2>1, DeferSound DEF Due
    <3> QED
      BY <3>1 DEF Sound
  <2> HIDE DEF c
  <2>5. /\ c.tickets = [b.tickets EXCEPT ![id] = Rolled(t, t.amount)]
        /\ c.worked = b.worked /\ c.cash = b.cash /\ c.shares = b.shares
        /\ c.supply = b.supply /\ c.surplus = b.surplus
    BY <1>1, <2>3 DEF BatchType
  <2> QED
    BY <2>2, <2>4, <2>5 DEF SettledOne, c
<1>6. CASE Due(t) /\ t.isCreate /\ FillCash(t, x) # 0
  <2>1. c = FillCreate(a, id, x)
    BY <1>1, <1>6 DEF SettleOne
  <2>2. /\ id \in DOMAIN a.tickets /\ Due(a.tickets[id]) /\ a.tickets[id].isCreate
        /\ FillCash(a.tickets[id], x) # 0
    BY <1>1, <1>2, <1>6
  <2>3. Fills(t, x)
    BY <1>6 DEF Fills
  <2> HIDE DEF a, c
  <2>4. SettledOne(a, a, id, x, c)
    <3>1. FillCreate(a, id, x).ok
      BY <2>1 DEF c
    <3> QED
      BY <1>2, <2>1, <2>2, <3>1, CreateEffect
  <2> QED
    BY <1>2, <2>3, <2>4 DEF SettledOne, a, c
<1> QED
  BY <1>3, <1>4, <1>5, <1>6

-----------------------------------------------------------------------------
(* Two tickets of a batch: what each comes to does not depend on the other. *)
LEMMA NothingAccrues ==
  ASSUME TypeOK, NEW x \in TermsType, x.accrual = NoAccrual, NEW b, Sound(b)
  PROVE  Accrued(b, x) = b
<1>1. CASE b.worked
  BY <1>1 DEF Accrued
<1>2. CASE ~b.worked
  <2>1. b \in BatchType
    BY DEF Sound
  <2>2. /\ b.shares \in [Accounts -> Nat] /\ b.supply \in Nat
        /\ KeeperModule \in Accounts /\ Market \in Accounts
    BY <2>1, Parties DEF BatchType
  <2>3. x.accrual.keeper = 0 /\ x.accrual.others = 0
    BY DEF NoAccrual
  <2>4. /\ [b.shares EXCEPT ![KeeperModule] = @ + 0, ![Market] = @ + 0] = b.shares
        /\ b.supply + 0 + 0 = b.supply
    BY <2>2
  <2>5. Accrued(b, x) = [b EXCEPT !.shares = [b.shares EXCEPT ![KeeperModule] = @ + 0,
                                                              ![Market] = @ + 0],
                                  !.supply = b.supply + 0 + 0]
    BY <1>2, <2>1, <2>3 DEF Accrued, BatchType
  <2>6. Accrued(b, x) = [b EXCEPT !.shares = b.shares, !.supply = b.supply]
    BY <2>4, <2>5
  <2> QED
    BY <2>1, <2>6 DEF BatchType
<1> QED
  BY <1>1, <1>2

CashAfter(bal, t, x) == IF Fills(t, x) THEN Moved(bal, CashMoves(t, x)) ELSE bal
SharesAfter(bal, t, x) == IF Fills(t, x) THEN Moved(bal, ShareMoves(t, x)) ELSE bal
SupplyAfter(n, t, x) == IF Fills(t, x) THEN n + SupplyMove(t, x) ELSE n
SurplusAfter(n, t, x) == IF Fills(t, x) THEN n + SurplusMove(t, x) ELSE n

(* c is b with ticket id made the outcome of t.                             *)
Advanced(b, id, t, x, c) ==
  /\ c.worked = (b.worked \/ Fills(t, x))
  /\ c.tickets = [b.tickets EXCEPT ![id] = Outcome(t, x)]
  /\ c.cash = CashAfter(b.cash, t, x)
  /\ c.shares = SharesAfter(b.shares, t, x)
  /\ c.supply = SupplyAfter(b.supply, t, x)
  /\ c.surplus = SurplusAfter(b.surplus, t, x)

LEMMA StepAdvances ==
  ASSUME TypeOK, NEW x \in TermsType, x.accrual = NoAccrual, NEW b, Sound(b),
         NEW id \in DOMAIN tickets, SettleOne(b, id, x).ok
  PROVE  /\ Sound(SettleOne(b, id, x))
         /\ Advanced(b, id, b.tickets[id], x, SettleOne(b, id, x))
         /\ Fills(b.tickets[id], x) => Sizes(b.tickets[id], x)
<1> DEFINE c == SettleOne(b, id, x)
           t == b.tickets[id]
<1>1. SettledOne(b, b, id, x, c)
  BY NothingAccrues, SettleOneEffect
<1>2. Sound(c) /\ b \in BatchType
  BY SettleOneSound DEF Sound
<1>3. b.worked \in BOOLEAN
  BY <1>2 DEF BatchType
<1> HIDE DEF c, t
<1>4. CASE Fills(t, x)
  <2>1. /\ Sizes(t, x) /\ c.worked = TRUE
        /\ c.tickets = [b.tickets EXCEPT ![id] = Outcome(t, x)]
        /\ c.cash = Moved(b.cash, CashMoves(t, x))
        /\ c.shares = Moved(b.shares, ShareMoves(t, x))
        /\ c.supply = b.supply + SupplyMove(t, x)
        /\ c.surplus = b.surplus + SurplusMove(t, x)
    BY <1>1, <1>4 DEF SettledOne, t
  <2>2. Advanced(b, id, t, x, c)
    BY <1>4, <2>1 DEF Advanced, CashAfter, SharesAfter, SupplyAfter, SurplusAfter
  <2> QED
    BY <1>2, <2>1, <2>2 DEF c, t
<1>5. CASE ~Fills(t, x)
  <2>1. /\ c.tickets = [b.tickets EXCEPT ![id] = Outcome(t, x)]
        /\ c.worked = b.worked /\ c.cash = b.cash /\ c.shares = b.shares
        /\ c.supply = b.supply /\ c.surplus = b.surplus
    BY <1>1, <1>5 DEF SettledOne, t
  <2>2. c.worked = (b.worked \/ Fills(t, x))
    BY <1>3, <1>5, <2>1
  <2>3. Advanced(b, id, t, x, c)
    BY <1>5, <2>1, <2>2 DEF Advanced, CashAfter, SharesAfter, SupplyAfter, SurplusAfter
  <2> QED
    BY <1>2, <1>5, <2>3 DEF c, t
<1> QED
  BY <1>4, <1>5

LEMMA MovesAreIntegers ==
  ASSUME TypeOK, NEW x \in TermsType, NEW t \in Ticket, Sizes(t, x)
  PROVE  /\ \A a \in Accounts : CashMoves(t, x)[a] \in Int /\ ShareMoves(t, x)[a] \in Int
         /\ SupplyMove(t, x) \in Int /\ SurplusMove(t, x) \in Int
<1>1. t.amount \in Nat /\ t.isCreate \in BOOLEAN
  BY DEF Ticket
<1>2. CASE t.isCreate
  <2>1. /\ FillCash(t, x) \in 1..t.amount /\ CreateFee \in Nat
        /\ Minted(t, x) \in Nat
    BY <1>2 DEF Sizes
  <2>2. \A a \in Accounts : CashMoves(t, x)[a] \in Int
    BY <1>1, <1>2, <2>1 DEF CashMoves, CreateCash
  <2>3. \A a \in Accounts : ShareMoves(t, x)[a] \in Int
    BY <1>2, <2>1 DEF ShareMoves
  <2> QED
    BY <1>2, <2>1, <2>2, <2>3 DEF SupplyMove, SurplusMove
<1>3. CASE ~t.isCreate
  <2>1. /\ Owing(t, x) \in Nat /\ x.overpay \in Nat
        /\ FlatRedeemFee(Owing(t, x)) \in 0..Owing(t, x)
    BY <1>3 DEF Sizes
  <2>2. \A a \in Accounts : CashMoves(t, x)[a] \in Int
    BY <1>3, <2>1 DEF CashMoves, RedeemCash
  <2>3. \A a \in Accounts : ShareMoves(t, x)[a] \in Int
    BY <1>1, <1>3 DEF ShareMoves
  <2> QED
    BY <1>1, <1>3, <2>1, <2>2, <2>3 DEF SupplyMove, SurplusMove
<1> QED
  BY <1>2, <1>3

LEMMA MovedCommutes ==
  ASSUME NEW bal \in [Accounts -> Int], NEW m, NEW n,
         \A a \in Accounts : m[a] \in Int, \A a \in Accounts : n[a] \in Int
  PROVE  Moved(Moved(bal, m), n) = Moved(Moved(bal, n), m)
<1>1. \A a \in Accounts : Moved(bal, m)[a] = bal[a] + m[a] /\ Moved(bal, n)[a] = bal[a] + n[a]
  BY DEF Moved
<1>2. ASSUME NEW a \in Accounts
      PROVE  (bal[a] + m[a]) + n[a] = (bal[a] + n[a]) + m[a]
  OBVIOUS
<1>3. /\ Moved(Moved(bal, m), n) = [a \in Accounts |-> (bal[a] + m[a]) + n[a]]
      /\ Moved(Moved(bal, n), m) = [a \in Accounts |-> (bal[a] + n[a]) + m[a]]
  BY <1>1 DEF Moved
<1> QED
  BY <1>2, <1>3

(* What a movement needs to be added in any order.                          *)
Measured(t, x) ==
  Fills(t, x) =>
    /\ \A a \in Accounts : CashMoves(t, x)[a] \in Int /\ ShareMoves(t, x)[a] \in Int
    /\ SupplyMove(t, x) \in Int /\ SurplusMove(t, x) \in Int

LEMMA AfterCommutes ==
  ASSUME NEW x, NEW t, NEW e, Measured(t, x), Measured(e, x),
         NEW bal \in [Accounts -> Int], NEW n \in Int
  PROVE  /\ CashAfter(CashAfter(bal, t, x), e, x) = CashAfter(CashAfter(bal, e, x), t, x)
         /\ SharesAfter(SharesAfter(bal, t, x), e, x) = SharesAfter(SharesAfter(bal, e, x), t, x)
         /\ SupplyAfter(SupplyAfter(n, t, x), e, x) = SupplyAfter(SupplyAfter(n, e, x), t, x)
         /\ SurplusAfter(SurplusAfter(n, t, x), e, x) = SurplusAfter(SurplusAfter(n, e, x), t, x)
<1>1. CASE Fills(t, x) /\ Fills(e, x)
  <2>1. /\ \A a \in Accounts : CashMoves(t, x)[a] \in Int
        /\ \A a \in Accounts : ShareMoves(t, x)[a] \in Int
        /\ \A a \in Accounts : CashMoves(e, x)[a] \in Int
        /\ \A a \in Accounts : ShareMoves(e, x)[a] \in Int
        /\ SupplyMove(t, x) \in Int /\ SurplusMove(t, x) \in Int
        /\ SupplyMove(e, x) \in Int /\ SurplusMove(e, x) \in Int
    BY <1>1 DEF Measured
  <2>2. CashAfter(CashAfter(bal, t, x), e, x) = CashAfter(CashAfter(bal, e, x), t, x)
    BY <1>1, <2>1, MovedCommutes DEF CashAfter
  <2>3. SharesAfter(SharesAfter(bal, t, x), e, x) = SharesAfter(SharesAfter(bal, e, x), t, x)
    BY <1>1, <2>1, MovedCommutes DEF SharesAfter
  <2>4. /\ SupplyAfter(SupplyAfter(n, t, x), e, x) = SupplyAfter(SupplyAfter(n, e, x), t, x)
        /\ SurplusAfter(SurplusAfter(n, t, x), e, x) = SurplusAfter(SurplusAfter(n, e, x), t, x)
    BY <1>1, <2>1 DEF SupplyAfter, SurplusAfter
  <2> QED
    BY <2>2, <2>3, <2>4
<1>2. CASE ~(Fills(t, x) /\ Fills(e, x))
  BY <1>2 DEF CashAfter, SharesAfter, SupplyAfter, SurplusAfter
<1> QED
  BY <1>1, <1>2

(* Two different tickets, one after the other, from the start of a batch.   *)
PairSettled(i, j, x, c) ==
  /\ c \in BatchType
  /\ Measured(tickets[i], x) /\ Measured(tickets[j], x)
  /\ c.worked = (Fills(tickets[i], x) \/ Fills(tickets[j], x))
  /\ c.tickets = [[tickets EXCEPT ![i] = Outcome(tickets[i], x)]
                           EXCEPT ![j] = Outcome(tickets[j], x)]
  /\ c.cash = CashAfter(CashAfter(cash, tickets[i], x), tickets[j], x)
  /\ c.shares = SharesAfter(SharesAfter(shares, tickets[i], x), tickets[j], x)
  /\ c.supply = SupplyAfter(SupplyAfter(supply, tickets[i], x), tickets[j], x)
  /\ c.surplus = SurplusAfter(SurplusAfter(surplus, tickets[i], x), tickets[j], x)

LEMMA SettlePair ==
  ASSUME TypeOK, EscrowExact, NEW x \in TermsType, x.accrual = NoAccrual,
         NEW i \in DOMAIN tickets, NEW j \in DOMAIN tickets, i # j,
         SettleOne(SettleOne(Start, i, x), j, x).ok
  PROVE  PairSettled(i, j, x, SettleOne(SettleOne(Start, i, x), j, x))
<1> DEFINE b == SettleOne(Start, i, x)
           c == SettleOne(b, j, x)
<1>1. Sound(Start)
  BY StartSound
<1>2. b.ok
  <2>1. SettleOne(b, j, x).ok
    OBVIOUS
  <2> HIDE DEF b
  <2> QED
    BY <2>1 DEF SettleOne
<1>3. /\ Sound(b) /\ Advanced(Start, i, tickets[i], x, b)
      /\ Fills(tickets[i], x) => Sizes(tickets[i], x)
  BY <1>1, <1>2, StepAdvances DEF Start
<1>0. SettleOne(b, j, x).ok
  OBVIOUS
<1> HIDE DEF b
<1>4. b.tickets[j] = tickets[j]
  <2>1. b.tickets = [tickets EXCEPT ![i] = Outcome(tickets[i], x)]
    BY <1>3 DEF Advanced, Start
  <2> QED
    BY <2>1
<1>5. /\ Sound(c) /\ Advanced(b, j, tickets[j], x, c)
      /\ Fills(tickets[j], x) => Sizes(tickets[j], x)
  BY <1>0, <1>3, <1>4, StepAdvances
<1> HIDE DEF c
<1>6. Measured(tickets[i], x) /\ Measured(tickets[j], x)
  BY <1>3, <1>5, TicketTyped, MovesAreIntegers DEF Measured
<1>7. c \in BatchType
  BY <1>5 DEF Sound
<1>8. /\ b.tickets = [tickets EXCEPT ![i] = Outcome(tickets[i], x)]
      /\ b.cash = CashAfter(cash, tickets[i], x)
      /\ b.shares = SharesAfter(shares, tickets[i], x)
      /\ b.supply = SupplyAfter(supply, tickets[i], x)
      /\ b.surplus = SurplusAfter(surplus, tickets[i], x)
  BY <1>3 DEF Advanced, Start
<1>9. b.worked = (FALSE \/ Fills(tickets[i], x))
  BY <1>3 DEF Advanced, Start
<1>10. c.worked = (b.worked \/ Fills(tickets[j], x))
  BY <1>5 DEF Advanced
<1>11. c.worked = (Fills(tickets[i], x) \/ Fills(tickets[j], x))
  BY <1>9, <1>10
<1>12. /\ c.tickets = [b.tickets EXCEPT ![j] = Outcome(tickets[j], x)]
       /\ c.cash = CashAfter(b.cash, tickets[j], x)
       /\ c.shares = SharesAfter(b.shares, tickets[j], x)
       /\ c.supply = SupplyAfter(b.supply, tickets[j], x)
       /\ c.surplus = SurplusAfter(b.surplus, tickets[j], x)
  BY <1>5 DEF Advanced
<1> QED
  BY <1>6, <1>7, <1>8, <1>11, <1>12 DEF PairSettled, c, b

LEMMA PairsCommute ==
  ASSUME TypeOK, NEW x, NEW i \in DOMAIN tickets, NEW j \in DOMAIN tickets, i # j,
         NEW c, PairSettled(i, j, x, c), NEW d, PairSettled(j, i, x, d)
  PROVE  c = d
<1>1. /\ Measured(tickets[i], x) /\ Measured(tickets[j], x)
      /\ cash \in [Accounts -> Int] /\ shares \in [Accounts -> Int]
      /\ supply \in Int /\ surplus \in Int
  BY DEF PairSettled, TypeOK
<1>2. c.cash = d.cash
  BY <1>1, AfterCommutes DEF PairSettled
<1>3. c.shares = d.shares
  BY <1>1, AfterCommutes DEF PairSettled
<1>4. c.supply = d.supply /\ c.surplus = d.surplus
  BY <1>1, AfterCommutes DEF PairSettled
<1>5. c.tickets = d.tickets
  <2>1. /\ c.tickets = [[tickets EXCEPT ![i] = Outcome(tickets[i], x)]
                                 EXCEPT ![j] = Outcome(tickets[j], x)]
        /\ d.tickets = [[tickets EXCEPT ![j] = Outcome(tickets[j], x)]
                                 EXCEPT ![i] = Outcome(tickets[i], x)]
    BY DEF PairSettled
  <2> QED
    BY <2>1
<1>6. c.worked = d.worked
  BY DEF PairSettled
<1>7. c \in BatchType /\ d \in BatchType
  BY DEF PairSettled
<1>8. /\ c = [ok |-> TRUE, worked |-> c.worked, tickets |-> c.tickets, cash |-> c.cash,
               shares |-> c.shares, supply |-> c.supply, surplus |-> c.surplus]
      /\ d = [ok |-> TRUE, worked |-> d.worked, tickets |-> d.tickets, cash |-> d.cash,
               shares |-> d.shares, supply |-> d.supply, surplus |-> d.surplus]
  BY <1>7 DEF BatchType
<1> QED
  BY <1>2, <1>3, <1>4, <1>5, <1>6, <1>8, Zenon

LEMMA RunOfPair ==
  ASSUME NEW i \in DOMAIN tickets, NEW j \in DOMAIN tickets, NEW x
  PROVE  Run(<<i, j>>, x) = SettleOne(SettleOne(Start, i, x), j, x)
<1> DEFINE ids == <<i, j>>
<1>1. Len(ids) = 2 /\ ids[1] = i /\ ids[2] = j
  OBVIOUS
<1> HIDE DEF ids
<1>2. /\ Batches(ids, x)[0] = Start
      /\ \A k \in 1..Len(ids) :
           Batches(ids, x)[k] = SettleOne(Batches(ids, x)[k - 1], ids[k], x)
  BY <1>1, BatchesSteps
<1>3. 1 \in 1..Len(ids) /\ 2 \in 1..Len(ids) /\ 1 - 1 = 0 /\ 2 - 1 = 1
  BY <1>1
<1>4. Batches(ids, x)[1] = SettleOne(Start, i, x)
  BY <1>1, <1>2, <1>3
<1>5. Batches(ids, x)[2] = SettleOne(Batches(ids, x)[1], j, x)
  BY <1>1, <1>2, <1>3
<1>6. Run(ids, x) = SettleOne(SettleOne(Start, i, x), j, x)
  BY <1>1, <1>4, <1>5 DEF Run
<1> QED
  BY <1>6 DEF ids

LEMMA DemandOfPair ==
  ASSUME TypeOK, NEW i \in DOMAIN tickets, NEW j \in DOMAIN tickets,
         NEW price \in Nat, price > 0
  PROVE  Demand(<<i, j>>, price) = Demand(<<j, i>>, price)
<1> DEFINE Asked(id) == IF FillableCreate(id) THEN SharesFor(tickets[id].amount, price) ELSE 0
<1>1. Asked(i) \in Nat /\ Asked(j) \in Nat
  <2>1. tickets[i].amount \in Nat /\ tickets[j].amount \in Nat
    BY TicketTyped
  <2> QED
    BY <2>1, Prices
<1>2. ASSUME NEW k \in DOMAIN tickets, NEW l \in DOMAIN tickets,
             Asked(k) \in Nat, Asked(l) \in Nat
      PROVE  Demand(<<k, l>>, price) = Asked(k) + Asked(l)
  <2> DEFINE ids == <<k, l>>
             s == [n \in DOMAIN ids |->
                     IF FillableCreate(ids[n]) THEN SharesFor(tickets[ids[n]].amount, price)
                                               ELSE 0]
  <2>1. Demand(ids, price) = Total(s)
    BY DEF Demand
  <2>2. Len(s) = 2 /\ s[1] = Asked(k) /\ s[2] = Asked(l)
    <3>1. DOMAIN ids = 1..2 /\ ids[1] = k /\ ids[2] = l
      OBVIOUS
    <3> HIDE DEF ids
    <3> QED
      BY <3>1
  <2> HIDE DEF s, ids, Asked
  <2>3. /\ PartialTotals(s)[0] = 0
        /\ \A n \in 1..Len(s) : PartialTotals(s)[n] = PartialTotals(s)[n - 1] + s[n]
    BY <2>2, PartialTotalsSteps
  <2>4. 1 \in 1..Len(s) /\ 2 \in 1..Len(s) /\ 1 - 1 = 0 /\ 2 - 1 = 1
    BY <2>2
  <2>5. PartialTotals(s)[1] = 0 + Asked(k)
    BY <2>2, <2>3, <2>4
  <2>6. PartialTotals(s)[2] = PartialTotals(s)[1] + Asked(l)
    BY <2>2, <2>3, <2>4
  <2>7. Total(s) = Asked(k) + Asked(l)
    BY <1>2, <2>2, <2>5, <2>6 DEF Total
  <2> QED
    BY <2>1, <2>7 DEF ids
<1> HIDE DEF Asked
<1>3. Demand(<<i, j>>, price) = Asked(i) + Asked(j)
  BY <1>1, <1>2
<1>4. Demand(<<j, i>>, price) = Asked(j) + Asked(i)
  BY <1>1, <1>2
<1> QED
  BY <1>1, <1>3, <1>4

LEMMA OrderDoesNotMatter ==
  ASSUME TypeOK, EscrowExact
  PROVE  BatchOrderIrrelevant
<1> SUFFICES ASSUME NEW r \in Readings, NEW i \in DOMAIN tickets, NEW j \in DOMAIN tickets,
                    GatePasses(r), NavPerShare(r) > 0,
                    Run(<<i, j>>, Terms(<<i, j>>, r, 0, NoAccrual)).ok,
                    Run(<<j, i>>, Terms(<<j, i>>, r, 0, NoAccrual)).ok
             PROVE  Run(<<i, j>>, Terms(<<i, j>>, r, 0, NoAccrual))
                      = Run(<<j, i>>, Terms(<<j, i>>, r, 0, NoAccrual))
  BY DEF BatchOrderIrrelevant
<1> DEFINE x == Terms(<<i, j>>, r, 0, NoAccrual)
<1>1. x \in TermsType /\ x.accrual = NoAccrual
  <2>1. <<i, j>> \in Seq(DOMAIN tickets)
    OBVIOUS
  <2>2. NoAccrual \in [keeper : Nat, others : Nat] /\ 0 \in Int
    BY DEF NoAccrual
  <2>3. x \in TermsType
    BY <2>1, <2>2, TermsTyped
  <2>4. x.accrual = NoAccrual
    BY DEF Terms
  <2> QED
    BY <2>3, <2>4
<1>2. Terms(<<j, i>>, r, 0, NoAccrual) = x
  <2>1. NavPerShare(r) \in Nat
    BY <1>1 DEF Terms, TermsType
  <2>2. Demand(<<i, j>>, NavPerShare(r)) = Demand(<<j, i>>, NavPerShare(r))
    BY <2>1, DemandOfPair
  <2> QED
    BY <2>2 DEF Terms
<1>3. /\ Run(<<i, j>>, x) = SettleOne(SettleOne(Start, i, x), j, x)
      /\ Run(<<j, i>>, x) = SettleOne(SettleOne(Start, j, x), i, x)
  BY RunOfPair
<1>4. CASE i = j
  BY <1>2, <1>4
<1>5. CASE i # j
  <2>1. /\ SettleOne(SettleOne(Start, i, x), j, x).ok
        /\ SettleOne(SettleOne(Start, j, x), i, x).ok
    BY <1>2, <1>3
  <2> HIDE DEF x
  <2>2. PairSettled(i, j, x, SettleOne(SettleOne(Start, i, x), j, x))
    BY <1>1, <1>5, <2>1, SettlePair
  <2>3. PairSettled(j, i, x, SettleOne(SettleOne(Start, j, x), i, x))
    BY <1>1, <1>5, <2>1, SettlePair
  <2>4. SettleOne(SettleOne(Start, i, x), j, x) = SettleOne(SettleOne(Start, j, x), i, x)
    BY <1>5, <2>2, <2>3, PairsCommute
  <2> QED
    BY <1>2, <1>3, <2>4 DEF x
<1> QED
  BY <1>4, <1>5

(* In every reachable state, two tickets settled together end the same in    *)
(* either order: what each comes to depends on its own record, the price and *)
(* the batch's demand, and the demand of a pair has no order.                *)
THEOREM BatchesIgnoreOrder == Spec => []BatchOrderIrrelevant
<1>1. Init => Inv
  BY InitInv
<1>2. Inv /\ [Next]_vars => Inv'
  BY StepInv
<1>3. Inv => BatchOrderIrrelevant
  BY OrderDoesNotMatter DEF Inv
<1> QED
  BY <1>1, <1>2, <1>3, PTL DEF Spec

-----------------------------------------------------------------------------
(* What a batch has paid so far: for every ticket, what was taken out of it *)
(* and what that came to at the price of the batch.                         *)
TakenOf(t, e) ==
  IF e = t THEN 0 ELSE IF e.status = Settled THEN t.amount ELSE t.amount - e.amount

BoughtOf(t, e, price, u) ==
  IF TakenOf(t, e) > 0 /\ t.isCreate /\ t.owner = u
    THEN SharesFor(TakenOf(t, e) - CreateFee, price) ELSE 0

PaidOf(t, e, price, u) ==
  IF TakenOf(t, e) > 0 /\ ~t.isCreate /\ t.owner = u
    THEN CashFor(TakenOf(t, e), price) - FlatRedeemFee(CashFor(TakenOf(t, e), price)) ELSE 0

FlatOf(t, e, price) ==
  IF TakenOf(t, e) > 0
    THEN (IF t.isCreate THEN CreateFee ELSE FlatRedeemFee(CashFor(TakenOf(t, e), price)))
    ELSE 0

BoughtBy(tks, price, u) == [i \in DOMAIN tickets |-> BoughtOf(tickets[i], tks[i], price, u)]
PaidTo(tks, price, u) == [i \in DOMAIN tickets |-> PaidOf(tickets[i], tks[i], price, u)]
FlatOn(tks, price) == [i \in DOMAIN tickets |-> FlatOf(tickets[i], tks[i], price)]

(* What was taken is an amount, and a price was there to take it at.        *)
PricedOne(t, e, price) ==
  /\ TakenOf(t, e) \in Nat
  /\ TakenOf(t, e) > 0 /\ t.isCreate => SharesFor(TakenOf(t, e) - CreateFee, price) \in Nat

Priced(tks, price) == \A i \in DOMAIN tickets : PricedOne(tickets[i], tks[i], price)

HoldersPaid(b, price) ==
  \A u \in Users :
    /\ b.shares[u] = shares[u] + SumOver(BoughtBy(b.tickets, price, u), DOMAIN tickets)
    /\ b.cash[u] >= cash[u] + SumOver(PaidTo(b.tickets, price, u), DOMAIN tickets)

TreasuryPaid(b, price) ==
  b.cash[Treasury] = cash[Treasury] + SumOver(FlatOn(b.tickets, price), DOMAIN tickets)

(* The keeper waits for its tip, and the module it comes from only grows.   *)
KeeperWaits(b) ==
  /\ b.shares[Keeper] = shares[Keeper]
  /\ b.shares[KeeperModule] >= shares[KeeperModule]

WorkShows(b) ==
  b.worked => \E i \in DOMAIN tickets : TakenOf(tickets[i], b.tickets[i]) > 0

PaidSoFar(b, price) ==
  /\ Priced(b.tickets, price)
  /\ HoldersPaid(b, price)
  /\ TreasuryPaid(b, price)
  /\ KeeperWaits(b)
  /\ WorkShows(b)

LEMMA TicketsFinite ==
  ASSUME TypeOK
  PROVE  IsFiniteSet(DOMAIN tickets)
<1>1. DOMAIN tickets = 1..Len(tickets) /\ Len(tickets) \in Nat
  BY DEF TypeOK
<1> QED
  BY <1>1, FS_Interval

LEMMA ValuesNat ==
  ASSUME TypeOK, NEW t, NEW e, NEW price \in Nat, PricedOne(t, e, price), NEW u
  PROVE  /\ BoughtOf(t, e, price, u) \in Nat
         /\ PaidOf(t, e, price, u) \in Nat
         /\ FlatOf(t, e, price) \in Nat
<1>1. TakenOf(t, e) \in Nat
  BY DEF PricedOne
<1>2. CashFor(TakenOf(t, e), price) \in Nat /\ CreateFee \in Nat
  BY <1>1, Prices
<1>3. fees.redeem \in Nat
  BY ScaleAssumption DEF TypeOK
<1>4. \A w \in Nat : FlatRedeemFee(w) \in 0..w
  BY <1>3 DEF FlatRedeemFee, Least
<1>5. FlatRedeemFee(CashFor(TakenOf(t, e), price)) \in 0..CashFor(TakenOf(t, e), price)
  BY <1>2, <1>4
<1>6. BoughtOf(t, e, price, u) \in Nat
  BY DEF BoughtOf, PricedOne
<1>7. PaidOf(t, e, price, u) \in Nat
  BY <1>2, <1>5 DEF PaidOf
<1> QED
  BY <1>2, <1>5, <1>6, <1>7 DEF FlatOf

(* A column that gains an entry where it had none.                          *)
Gains(f, g, S, a) ==
  /\ \A i \in S : f[i] \in Nat
  /\ \A i \in S : g[i] \in Nat
  /\ f[a] = 0
  /\ \A i \in S \ {a} : g[i] = f[i]

LEMMA ColumnGains ==
  ASSUME NEW S, IsFiniteSet(S), NEW f, NEW g, NEW a \in S, Gains(f, g, S, a)
  PROVE  /\ SumOver(f, S) \in Nat
         /\ SumOver(g, S) = SumOver(f, S) + g[a]
<1>1. /\ SumOver(f, S) \in Int
      /\ SumOver(g, S) = IF a \in S THEN SumOver(f, S) + (g[a] - f[a]) ELSE SumOver(f, S)
  <2>1. \A i \in S : f[i] \in Int /\ g[i] \in Int
    BY DEF Gains
  <2>2. \A i \in S \ {a} : g[i] = f[i]
    BY DEF Gains
  <2> QED
    BY <2>1, <2>2, SumChange
<1>2. SumOver(f, S) \in Nat
  BY SumNat DEF Gains
<1> QED
  BY <1>1, <1>2 DEF Gains

(* The columns of a batch that changed one untouched ticket.                *)
LEMMA ColumnsGain ==
  ASSUME TypeOK, NEW price \in Nat, NEW tks, Priced(tks, price),
         DOMAIN tks = DOMAIN tickets, NEW id \in DOMAIN tickets, tks[id] = tickets[id],
         NEW e, PricedOne(tickets[id], e, price), NEW u,
         NEW new, new = [tks EXCEPT ![id] = e]
  PROVE  /\ Priced(new, price)
         /\ SumOver(BoughtBy(tks, price, u), DOMAIN tickets) \in Nat
         /\ SumOver(PaidTo(tks, price, u), DOMAIN tickets) \in Nat
         /\ SumOver(FlatOn(tks, price), DOMAIN tickets) \in Nat
         /\ SumOver(BoughtBy(new, price, u), DOMAIN tickets)
              = SumOver(BoughtBy(tks, price, u), DOMAIN tickets)
                  + BoughtOf(tickets[id], e, price, u)
         /\ SumOver(PaidTo(new, price, u), DOMAIN tickets)
              = SumOver(PaidTo(tks, price, u), DOMAIN tickets)
                  + PaidOf(tickets[id], e, price, u)
         /\ SumOver(FlatOn(new, price), DOMAIN tickets)
              = SumOver(FlatOn(tks, price), DOMAIN tickets) + FlatOf(tickets[id], e, price)
<1>1. \A i \in DOMAIN tickets : new[i] = IF i = id THEN e ELSE tks[i]
  OBVIOUS
<1>2. Priced(new, price)
  BY <1>1 DEF Priced
<1>3. TakenOf(tickets[id], tks[id]) = 0
  BY DEF TakenOf
<1>4. /\ BoughtOf(tickets[id], tks[id], price, u) = 0
      /\ PaidOf(tickets[id], tks[id], price, u) = 0
      /\ FlatOf(tickets[id], tks[id], price) = 0
  BY <1>3 DEF BoughtOf, PaidOf, FlatOf
<1>5. ASSUME NEW i \in DOMAIN tickets
      PROVE  /\ BoughtOf(tickets[i], tks[i], price, u) \in Nat
             /\ BoughtOf(tickets[i], new[i], price, u) \in Nat
             /\ PaidOf(tickets[i], tks[i], price, u) \in Nat
             /\ PaidOf(tickets[i], new[i], price, u) \in Nat
             /\ FlatOf(tickets[i], tks[i], price) \in Nat
             /\ FlatOf(tickets[i], new[i], price) \in Nat
  <2>1. PricedOne(tickets[i], tks[i], price) /\ PricedOne(tickets[i], new[i], price)
    BY <1>2 DEF Priced
  <2> QED
    BY <2>1, ValuesNat
<1>6. IsFiniteSet(DOMAIN tickets)
  BY TicketsFinite
<1>7. /\ SumOver(BoughtBy(tks, price, u), DOMAIN tickets) \in Nat
      /\ SumOver(BoughtBy(new, price, u), DOMAIN tickets)
           = SumOver(BoughtBy(tks, price, u), DOMAIN tickets)
               + BoughtBy(new, price, u)[id]
  <2>1. Gains(BoughtBy(tks, price, u), BoughtBy(new, price, u), DOMAIN tickets, id)
    BY <1>1, <1>4, <1>5 DEF Gains, BoughtBy
  <2> QED
    BY <1>6, <2>1, ColumnGains
<1>8. /\ SumOver(PaidTo(tks, price, u), DOMAIN tickets) \in Nat
      /\ SumOver(PaidTo(new, price, u), DOMAIN tickets)
           = SumOver(PaidTo(tks, price, u), DOMAIN tickets)
               + PaidTo(new, price, u)[id]
  <2>1. Gains(PaidTo(tks, price, u), PaidTo(new, price, u), DOMAIN tickets, id)
    BY <1>1, <1>4, <1>5 DEF Gains, PaidTo
  <2> QED
    BY <1>6, <2>1, ColumnGains
<1>9. /\ SumOver(FlatOn(tks, price), DOMAIN tickets) \in Nat
      /\ SumOver(FlatOn(new, price), DOMAIN tickets)
           = SumOver(FlatOn(tks, price), DOMAIN tickets) + FlatOn(new, price)[id]
  <2>1. Gains(FlatOn(tks, price), FlatOn(new, price), DOMAIN tickets, id)
    BY <1>1, <1>4, <1>5 DEF Gains, FlatOn
  <2> QED
    BY <1>6, <2>1, ColumnGains
<1>10. /\ BoughtBy(new, price, u)[id] = BoughtOf(tickets[id], e, price, u)
       /\ PaidTo(new, price, u)[id] = PaidOf(tickets[id], e, price, u)
       /\ FlatOn(new, price)[id] = FlatOf(tickets[id], e, price)
  BY <1>1 DEF BoughtBy, PaidTo, FlatOn
<1> QED
  BY <1>2, <1>7, <1>8, <1>9, <1>10

(* What accruing may move: shares of accounts that are no holder's.         *)
LEMMA AccruedPays ==
  ASSUME TypeOK, NEW x \in TermsType, NEW b, Sound(b)
  PROVE  LET a == Accrued(b, x) IN
         /\ a.shares \in [Accounts -> Nat]
         /\ \A u \in Users : a.shares[u] = b.shares[u]
         /\ a.shares[Keeper] = b.shares[Keeper]
         /\ a.shares[KeeperModule] >= b.shares[KeeperModule]
<1>1. b \in BatchType
  BY DEF Sound
<1>2. b.shares \in [Accounts -> Nat] /\ b.shares[KeeperModule] \in Nat
  BY <1>1, Parties DEF BatchType
<1>3. CASE b.worked
  BY <1>2, <1>3 DEF Accrued
<1>4. CASE ~b.worked
  <2> DEFINE sh == [b.shares EXCEPT ![KeeperModule] = @ + x.accrual.keeper,
                                    ![Market] = @ + x.accrual.others]
             a == Accrued(b, x)
  <2>1. a = [b EXCEPT !.shares = sh, !.supply = b.supply + x.accrual.keeper + x.accrual.others]
    BY <1>1, <1>4 DEF Accrued, BatchType
  <2>2. a.shares = sh
    <3> HIDE DEF a, sh
    <3> QED
      BY <1>1, <2>1 DEF BatchType
  <2>3. /\ x.accrual.keeper \in Nat /\ x.accrual.others \in Nat
        /\ KeeperModule \in Accounts /\ Market \in Accounts /\ Keeper \in Accounts
        /\ KeeperModule # Market /\ Keeper # Market /\ Keeper # KeeperModule
        /\ Users \subseteq Accounts /\ KeeperModule \notin Users /\ Market \notin Users
    BY AccountAssumption, UsersApart DEF TermsType, Accounts, Services
  <2>4. sh \in [Accounts -> Nat]
    BY <1>2, <2>3
  <2>5. /\ \A u \in Users : sh[u] = b.shares[u]
        /\ sh[Keeper] = b.shares[Keeper]
        /\ sh[KeeperModule] = b.shares[KeeperModule] + x.accrual.keeper
    BY <1>2, <2>3
  <2> HIDE DEF sh, a
  <2> QED
    BY <1>2, <2>2, <2>3, <2>4, <2>5 DEF a
<1> QED
  BY <1>3, <1>4

(* A rollover that fills nothing takes nothing.                             *)
LEMMA DeferredPaid ==
  ASSUME TypeOK, NEW price \in Nat, NEW b, Sound(b), PaidSoFar(b, price),
         NEW id \in DOMAIN tickets, b.tickets[id] = tickets[id],
         NEW c \in BatchType,
         tickets[id].status = Pending,
         c.tickets = [b.tickets EXCEPT ![id] = Rolled(tickets[id], tickets[id].amount)],
         c.worked = b.worked, c.cash = b.cash, c.shares = b.shares
  PROVE  PaidSoFar(c, price)
<1> DEFINE t == tickets[id]
           e == Rolled(t, t.amount)
<1>1. b \in BatchType /\ DOMAIN b.tickets = DOMAIN tickets
  BY DEF Sound, Renewed
<1>2. TakenOf(t, e) = 0
  <2>1. t \in Ticket /\ t.amount \in Nat
    BY TicketTyped
  <2>2. e.status = t.status /\ e.amount = t.amount
    BY <2>1, RolledTicket
  <2> HIDE DEF e, t
  <2>3. t.status # Settled
    BY DEF Pending, Settled, t
  <2> QED
    BY <2>1, <2>2, <2>3 DEF TakenOf
<1>3. PricedOne(t, e, price)
  BY <1>2 DEF PricedOne
<1>4. \A u : BoughtOf(t, e, price, u) = 0 /\ PaidOf(t, e, price, u) = 0
  BY <1>2 DEF BoughtOf, PaidOf
<1>5. FlatOf(t, e, price) = 0
  BY <1>2 DEF FlatOf
<1> HIDE DEF e
<1>6. Priced(b.tickets, price)
  BY DEF PaidSoFar
<1>7. ASSUME NEW u
      PROVE  /\ Priced(c.tickets, price)
             /\ SumOver(BoughtBy(c.tickets, price, u), DOMAIN tickets)
                  = SumOver(BoughtBy(b.tickets, price, u), DOMAIN tickets)
             /\ SumOver(PaidTo(c.tickets, price, u), DOMAIN tickets)
                  = SumOver(PaidTo(b.tickets, price, u), DOMAIN tickets)
             /\ SumOver(FlatOn(c.tickets, price), DOMAIN tickets)
                  = SumOver(FlatOn(b.tickets, price), DOMAIN tickets)
  <2>1. /\ Priced(c.tickets, price)
        /\ SumOver(BoughtBy(b.tickets, price, u), DOMAIN tickets) \in Nat
        /\ SumOver(PaidTo(b.tickets, price, u), DOMAIN tickets) \in Nat
        /\ SumOver(FlatOn(b.tickets, price), DOMAIN tickets) \in Nat
        /\ SumOver(BoughtBy(c.tickets, price, u), DOMAIN tickets)
             = SumOver(BoughtBy(b.tickets, price, u), DOMAIN tickets) + BoughtOf(t, e, price, u)
        /\ SumOver(PaidTo(c.tickets, price, u), DOMAIN tickets)
             = SumOver(PaidTo(b.tickets, price, u), DOMAIN tickets) + PaidOf(t, e, price, u)
        /\ SumOver(FlatOn(c.tickets, price), DOMAIN tickets)
             = SumOver(FlatOn(b.tickets, price), DOMAIN tickets) + FlatOf(t, e, price)
    <3>1. c.tickets = [b.tickets EXCEPT ![id] = e]
      BY DEF e
    <3> QED
      BY <1>1, <1>3, <1>6, <3>1, ColumnsGain
  <2> QED
    BY <1>4, <1>5, <2>1
<1>8. HoldersPaid(c, price)
  BY <1>7 DEF PaidSoFar, HoldersPaid
<1>9. TreasuryPaid(c, price)
  BY <1>7 DEF PaidSoFar, TreasuryPaid
<1>10. KeeperWaits(c)
  BY DEF PaidSoFar, KeeperWaits
<1>11. WorkShows(c)
  <2> SUFFICES ASSUME b.worked
               PROVE  \E i \in DOMAIN tickets : TakenOf(tickets[i], c.tickets[i]) > 0
    BY DEF WorkShows
  <2>1. PICK i \in DOMAIN tickets : TakenOf(tickets[i], b.tickets[i]) > 0
    BY DEF PaidSoFar, WorkShows
  <2>2. i # id
    BY <2>1 DEF TakenOf
  <2>3. c.tickets[i] = b.tickets[i]
    BY <1>1, <2>2
  <2> QED
    BY <2>1, <2>3
<1> QED
  BY <1>7, <1>8, <1>9, <1>10, <1>11 DEF PaidSoFar

(* What a fill takes, and what it pays for it.                              *)
LEMMA FillIsWorth ==
  ASSUME TypeOK, DepositsCover, NEW x \in TermsType, NEW id \in DOMAIN tickets,
         Fills(tickets[id], x), Sizes(tickets[id], x),
         NEW e, e = Outcome(tickets[id], x)
  PROVE  LET t == tickets[id] IN
         /\ TakenOf(t, e) \in Nat /\ TakenOf(t, e) > 0
         /\ PricedOne(t, e, x.price)
         /\ \A u \in Users :
              /\ ShareMoves(t, x)[u] = BoughtOf(t, e, x.price, u)
              /\ CashMoves(t, x)[u] >= PaidOf(t, e, x.price, u)
         /\ CashMoves(t, x)[Treasury] = FlatOf(t, e, x.price)
         /\ ShareMoves(t, x)[Keeper] = 0 /\ ShareMoves(t, x)[KeeperModule] = 0
<1> DEFINE t == tickets[id]
<1>1. t \in Ticket /\ t.amount \in Nat /\ t.owner \in Users
  BY TicketTyped
<1>2. Due(t) /\ t.status = Pending /\ t.amount > 0
  BY DEF Fills, Due, DepositsCover, Covered
<1>3. /\ {Queue, AP, Treasury, KeeperModule, Keeper} \subseteq Accounts
      /\ Users \subseteq Accounts
      /\ \A u \in Users : u \notin {Queue, AP, Treasury, KeeperModule, Keeper}
      /\ Queue \notin {AP, Treasury, KeeperModule, Keeper} /\ AP # Treasury
  BY Parties, UsersApart
<1>4. CASE t.isCreate
  <2>1. /\ FillCash(t, x) \in 1..t.amount
        /\ CreateFee \in Nat
        /\ Minted(t, x) \in Nat
    BY <1>4 DEF Sizes
  <2>2. PICK f : f = FillCash(t, x)
    OBVIOUS
  <2>3. f \in 1..t.amount /\ f # 0
    BY <1>1, <2>1, <2>2
  <2>4. e = AfterFill(t, f)
    BY <1>2, <1>4, <2>2, <2>3 DEF Outcome
  <2>5. TakenOf(t, e) = f
    <3>1. CASE f = t.amount
      <4>1. e = [t EXCEPT !.status = Settled]
        BY <2>4, <3>1 DEF AfterFill
      <4>2. e.status = Settled
        BY <1>1, <4>1 DEF Ticket
      <4>3. e # t
        BY <1>2, <4>2 DEF Pending, Settled
      <4> QED
        BY <3>1, <4>2, <4>3 DEF TakenOf
    <3>2. CASE f # t.amount
      <4>1. e = Rolled(t, t.amount - f)
        BY <2>4, <3>2 DEF AfterFill
      <4>2. t.amount - f \in Nat
        BY <1>1, <2>3
      <4>3. e.status = t.status /\ e.amount = t.amount - f
        BY <1>1, <4>1, <4>2, RolledTicket
      <4> HIDE DEF t
      <4>4. e # t /\ e.status # Settled
        BY <1>1, <1>2, <2>3, <4>3 DEF Pending, Settled
      <4>5. TakenOf(t, e) = t.amount - (t.amount - f)
        BY <4>3, <4>4 DEF TakenOf
      <4> QED
        BY <1>1, <2>3, <4>5
    <3> QED
      BY <3>1, <3>2
  <2>6. Minted(t, x) = SharesFor(f - CreateFee, x.price)
    BY <2>2 DEF Minted
  <2> HIDE DEF t
  <2>7. f \in Nat /\ f > 0
    BY <1>1, <2>3
  <2>8. PricedOne(t, e, x.price)
    BY <2>1, <2>5, <2>6, <2>7 DEF PricedOne
  <2>9. ASSUME NEW u \in Users
        PROVE  /\ ShareMoves(t, x)[u] = BoughtOf(t, e, x.price, u)
               /\ CashMoves(t, x)[u] >= PaidOf(t, e, x.price, u)
    <3>1. u \in Accounts /\ u \notin {Queue, AP, Treasury}
      BY <1>3
    <3>2. ShareMoves(t, x)[u] = IF u = t.owner THEN Minted(t, x) ELSE 0
      BY <1>4, <3>1 DEF ShareMoves
    <3>3. BoughtOf(t, e, x.price, u) = IF t.owner = u THEN Minted(t, x) ELSE 0
      BY <1>4, <2>5, <2>6, <2>7 DEF BoughtOf
    <3>4. CashMoves(t, x)[u] = 0 /\ PaidOf(t, e, x.price, u) = 0
      BY <1>4, <3>1 DEF CashMoves, CreateCash, PaidOf
    <3> QED
      BY <3>2, <3>3, <3>4
  <2>10. CashMoves(t, x)[Treasury] = CreateFee
    BY <1>3, <1>4 DEF CashMoves, CreateCash
  <2>11. FlatOf(t, e, x.price) = CreateFee
    BY <1>4, <2>5, <2>7 DEF FlatOf
  <2>12. ShareMoves(t, x)[Keeper] = 0 /\ ShareMoves(t, x)[KeeperModule] = 0
    BY <1>1, <1>3, <1>4 DEF ShareMoves
  <2> QED
    BY <2>5, <2>7, <2>8, <2>9, <2>10, <2>11, <2>12 DEF t
<1>5. CASE ~t.isCreate
  <2>1. /\ Owing(t, x) \in Nat /\ x.overpay \in Nat
        /\ FlatRedeemFee(Owing(t, x)) \in 0..Owing(t, x)
    BY <1>5 DEF Sizes
  <2>2. e = [t EXCEPT !.status = Settled]
    BY <1>2, <1>5 DEF Outcome
  <2>3. e.status = Settled /\ e # t
    BY <1>1, <1>2, <2>2 DEF Ticket, Pending, Settled
  <2>4. TakenOf(t, e) = t.amount
    BY <2>3 DEF TakenOf
  <2>5. CashFor(TakenOf(t, e), x.price) = Owing(t, x)
    BY <2>4 DEF Owing
  <2> HIDE DEF t
  <2>6. PricedOne(t, e, x.price)
    BY <1>1, <1>5, <2>4 DEF PricedOne
  <2>7. PICK w, v, f : w = Owing(t, x) /\ v = x.overpay /\ f = FlatRedeemFee(w)
    OBVIOUS
  <2>8. w \in Nat /\ v \in Nat /\ f \in Nat /\ f <= w /\ (~IsRegistry => f = 0)
    BY <2>1, <2>7 DEF FlatRedeemFee
  <2>9. ASSUME NEW u \in Users
        PROVE  /\ ShareMoves(t, x)[u] = BoughtOf(t, e, x.price, u)
               /\ CashMoves(t, x)[u] >= PaidOf(t, e, x.price, u)
    <3>1. u \in Accounts /\ u \notin {Queue, AP, Treasury}
      BY <1>3
    <3>2. ShareMoves(t, x)[u] = 0 /\ BoughtOf(t, e, x.price, u) = 0
      BY <1>5, <3>1 DEF ShareMoves, BoughtOf
    <3>3. PaidOf(t, e, x.price, u) = IF t.owner = u THEN w - f ELSE 0
      BY <1>2, <1>5, <2>4, <2>5, <2>7 DEF PaidOf
    <3>4. CashMoves(t, x)[u] = IF u = t.owner THEN (IF IsRegistry THEN w - f ELSE w + v) ELSE 0
      BY <1>5, <2>7, <3>1 DEF CashMoves, RedeemCash
    <3> QED
      BY <2>8, <3>2, <3>3, <3>4
  <2>10. CashMoves(t, x)[Treasury] = f
    BY <1>3, <1>5, <2>7 DEF CashMoves, RedeemCash
  <2>11. FlatOf(t, e, x.price) = f
    BY <1>2, <1>5, <2>4, <2>5, <2>7 DEF FlatOf
  <2>12. ShareMoves(t, x)[Keeper] = 0 /\ ShareMoves(t, x)[KeeperModule] = 0
    BY <1>3, <1>5 DEF ShareMoves
  <2> QED
    BY <1>1, <1>2, <2>4, <2>6, <2>9, <2>10, <2>11, <2>12 DEF t
<1> QED
  BY <1>4, <1>5

LEMMA FilledPaid ==
  ASSUME TypeOK, DepositsCover, NEW x \in TermsType, NEW b, Sound(b), PaidSoFar(b, x.price),
         NEW id \in DOMAIN tickets, b.tickets[id] = tickets[id],
         Fills(tickets[id], x), NEW c, SettledOne(b, Accrued(b, x), id, x, c)
  PROVE  PaidSoFar(c, x.price)
<1> DEFINE t == tickets[id]
           a == Accrued(b, x)
           p == x.price
           D == DOMAIN tickets
<1>1. /\ b \in BatchType /\ DOMAIN b.tickets = DOMAIN tickets
  BY DEF Sound, Renewed
<1>2. PICK e : e = Outcome(t, x)
  OBVIOUS
<1>3. /\ c \in BatchType
      /\ c.tickets = [b.tickets EXCEPT ![id] = e]
      /\ Sizes(t, x)
      /\ c.worked = TRUE
      /\ c.cash = Moved(b.cash, CashMoves(t, x))
      /\ c.shares = Moved(a.shares, ShareMoves(t, x))
  BY <1>2 DEF SettledOne
<1>4. /\ TakenOf(t, e) > 0
      /\ PricedOne(t, e, p)
      /\ \A u \in Users : /\ ShareMoves(t, x)[u] = BoughtOf(t, e, p, u)
                          /\ CashMoves(t, x)[u] >= PaidOf(t, e, p, u)
      /\ CashMoves(t, x)[Treasury] = FlatOf(t, e, p)
      /\ ShareMoves(t, x)[Keeper] = 0 /\ ShareMoves(t, x)[KeeperModule] = 0
  BY <1>2, <1>3, FillIsWorth
<1>5. /\ a.shares \in [Accounts -> Nat]
      /\ \A u \in Users : a.shares[u] = b.shares[u]
      /\ a.shares[Keeper] = b.shares[Keeper]
      /\ a.shares[KeeperModule] >= b.shares[KeeperModule]
  BY AccruedPays
<1>6. p \in Nat
  BY DEF TermsType
<1>7. /\ Priced(b.tickets, p) /\ HoldersPaid(b, p) /\ TreasuryPaid(b, p) /\ KeeperWaits(b)
  BY DEF PaidSoFar
<1> HIDE DEF a, t, p
<1>8. ASSUME NEW u
      PROVE  /\ Priced(c.tickets, p)
             /\ SumOver(BoughtBy(b.tickets, p, u), D) \in Nat
             /\ SumOver(PaidTo(b.tickets, p, u), D) \in Nat
             /\ SumOver(FlatOn(b.tickets, p), D) \in Nat
             /\ SumOver(BoughtBy(c.tickets, p, u), D)
                  = SumOver(BoughtBy(b.tickets, p, u), D) + BoughtOf(t, e, p, u)
             /\ SumOver(PaidTo(c.tickets, p, u), D)
                  = SumOver(PaidTo(b.tickets, p, u), D) + PaidOf(t, e, p, u)
             /\ SumOver(FlatOn(c.tickets, p), D)
                  = SumOver(FlatOn(b.tickets, p), D) + FlatOf(t, e, p)
  <2>1. b.tickets[id] = tickets[id] /\ PricedOne(tickets[id], e, p)
    BY <1>4 DEF t
  <2> QED
    BY <1>1, <1>3, <1>6, <1>7, <2>1, ColumnsGain DEF t
<1>9. ASSUME NEW u
      PROVE  /\ BoughtOf(t, e, p, u) \in Nat /\ PaidOf(t, e, p, u) \in Nat
             /\ FlatOf(t, e, p) \in Nat
  BY <1>4, <1>6, ValuesNat
<1>10. Sizes(t, x) /\ t \in Ticket
  BY <1>3, TicketTyped DEF t
<1>11. \A q \in Accounts : CashMoves(t, x)[q] \in Int /\ ShareMoves(t, x)[q] \in Int
  BY <1>10, MovesAreIntegers
<1>12. HoldersPaid(c, p)
  <2> SUFFICES ASSUME NEW u \in Users
               PROVE  /\ c.shares[u] = shares[u] + SumOver(BoughtBy(c.tickets, p, u), D)
                      /\ c.cash[u] >= cash[u] + SumOver(PaidTo(c.tickets, p, u), D)
    BY DEF HoldersPaid
  <2>1. u \in Accounts
    BY UsersApart
  <2>2. /\ c.shares[u] = a.shares[u] + ShareMoves(t, x)[u]
        /\ c.cash[u] = b.cash[u] + CashMoves(t, x)[u]
    BY <1>3, <2>1 DEF Moved
  <2>3. /\ b.shares[u] = shares[u] + SumOver(BoughtBy(b.tickets, p, u), D)
        /\ b.cash[u] >= cash[u] + SumOver(PaidTo(b.tickets, p, u), D)
    BY <1>7 DEF HoldersPaid
  <2>4. shares[u] \in Nat /\ cash[u] \in Nat /\ b.cash[u] \in Nat
    BY <1>1, <2>1 DEF TypeOK, BatchType
  <2>5. /\ SumOver(BoughtBy(b.tickets, p, u), D) \in Nat
        /\ SumOver(PaidTo(b.tickets, p, u), D) \in Nat
        /\ SumOver(BoughtBy(c.tickets, p, u), D)
             = SumOver(BoughtBy(b.tickets, p, u), D) + BoughtOf(t, e, p, u)
        /\ SumOver(PaidTo(c.tickets, p, u), D)
             = SumOver(PaidTo(b.tickets, p, u), D) + PaidOf(t, e, p, u)
    BY <1>8
  <2>6. a.shares[u] = b.shares[u] /\ ShareMoves(t, x)[u] = BoughtOf(t, e, p, u)
        /\ CashMoves(t, x)[u] >= PaidOf(t, e, p, u)
    BY <1>4, <1>5
  <2>7. BoughtOf(t, e, p, u) \in Nat /\ PaidOf(t, e, p, u) \in Nat
        /\ CashMoves(t, x)[u] \in Int
    BY <1>9, <1>11, <2>1
  <2> HIDE DEF D
  <2> QED
    BY <2>2, <2>3, <2>4, <2>5, <2>6, <2>7
<1>13. TreasuryPaid(c, p)
  <2>1. Treasury \in Accounts
    BY Parties
  <2>2. c.cash[Treasury] = b.cash[Treasury] + FlatOf(t, e, p)
    BY <1>3, <1>4, <2>1 DEF Moved
  <2>3. b.cash[Treasury] = cash[Treasury] + SumOver(FlatOn(b.tickets, p), D)
    BY <1>7 DEF TreasuryPaid
  <2>4. cash[Treasury] \in Nat
    BY <2>1 DEF TypeOK
  <2>5. /\ SumOver(FlatOn(b.tickets, p), D) \in Nat
        /\ SumOver(FlatOn(c.tickets, p), D) = SumOver(FlatOn(b.tickets, p), D) + FlatOf(t, e, p)
    BY <1>8
  <2>6. FlatOf(t, e, p) \in Nat
    BY <1>9
  <2>7. c.cash[Treasury] = cash[Treasury] + SumOver(FlatOn(c.tickets, p), D)
    <3> HIDE DEF D
    <3> QED
      BY <2>2, <2>3, <2>4, <2>5, <2>6
  <2> QED
    BY <2>7 DEF TreasuryPaid
<1>14. KeeperWaits(c)
  <2>1. Keeper \in Accounts /\ KeeperModule \in Accounts
    BY Parties
  <2>2. /\ c.shares[Keeper] = a.shares[Keeper] + 0
        /\ c.shares[KeeperModule] = a.shares[KeeperModule] + 0
    BY <1>3, <1>4, <2>1 DEF Moved
  <2>3. a.shares[Keeper] \in Nat /\ a.shares[KeeperModule] \in Nat
    BY <1>5, <2>1
  <2>4. b.shares[KeeperModule] \in Nat /\ shares[KeeperModule] \in Nat
    BY <1>1, <2>1 DEF BatchType, TypeOK
  <2> QED
    BY <1>5, <1>7, <2>2, <2>3, <2>4 DEF KeeperWaits
<1>15. WorkShows(c)
  <2>1. c.tickets[id] = e
    BY <1>1, <1>3
  <2> QED
    BY <1>4, <2>1 DEF WorkShows, t
<1>16. Priced(c.tickets, p)
  BY <1>8
<1> QED
  BY <1>12, <1>13, <1>14, <1>15, <1>16 DEF PaidSoFar, p

LEMMA SettleOnePaid ==
  ASSUME TypeOK, DepositsCover, NEW x \in TermsType, NEW b, Sound(b), Promised(b),
         PaidSoFar(b, x.price), NEW id \in DOMAIN tickets, SettleOne(b, id, x).ok
  PROVE  PaidSoFar(SettleOne(b, id, x), x.price)
<1> DEFINE c == SettleOne(b, id, x)
           t == b.tickets[id]
<1>1. SettledOne(b, Accrued(b, x), id, x, c)
  BY SettleOneEffect
<1>2. b \in BatchType /\ b.tickets \in Seq(Ticket) /\ id \in DOMAIN b.tickets /\ b.ok
  BY DEF Sound, Renewed, BatchType
<1>3. CASE ~Due(t)
  BY <1>3 DEF SettleOne
<1>4. CASE Due(t) /\ ~Fills(t, x)
  <2>1. t = tickets[id]
    BY <1>4, DueIsUntouched
  <2>2. /\ c \in BatchType
        /\ c.tickets = [b.tickets EXCEPT ![id] = Outcome(t, x)]
        /\ c.worked = b.worked /\ c.cash = b.cash /\ c.shares = b.shares
    BY <1>1, <1>4 DEF SettledOne
  <2>3. t.status = Pending /\ Outcome(t, x) = Rolled(t, t.amount)
    BY <1>4 DEF Due, Fills, Outcome
  <2>4. x.price \in Nat
    BY DEF TermsType
  <2> HIDE DEF c, t
  <2>5. /\ tickets[id].status = Pending
        /\ c.tickets = [b.tickets EXCEPT ![id] = Rolled(tickets[id], tickets[id].amount)]
        /\ b.tickets[id] = tickets[id]
    BY <2>1, <2>2, <2>3 DEF t
  <2>6. PaidSoFar(c, x.price)
    BY <2>2, <2>4, <2>5, DeferredPaid
  <2> QED
    BY <2>6 DEF c
<1>5. CASE Fills(t, x)
  <2>1. t = tickets[id]
    BY <1>5, DueIsUntouched DEF Fills
  <2> HIDE DEF c
  <2>2. PaidSoFar(c, x.price)
    BY <1>1, <1>5, <2>1, FilledPaid
  <2> QED
    BY <2>2 DEF c
<1> QED
  BY <1>3, <1>4, <1>5

LEMMA StartPaid ==
  ASSUME TypeOK, NEW price \in Nat
  PROVE  PaidSoFar(Start, price)
<1>1. \A i \in DOMAIN tickets : TakenOf(tickets[i], tickets[i]) = 0
  BY DEF TakenOf
<1>2. Priced(tickets, price)
  BY <1>1 DEF Priced, PricedOne
<1>3. IsFiniteSet(DOMAIN tickets)
  BY TicketsFinite
<1>4. ASSUME NEW u
      PROVE  /\ SumOver(BoughtBy(tickets, price, u), DOMAIN tickets) = 0
             /\ SumOver(PaidTo(tickets, price, u), DOMAIN tickets) = 0
  <2>1. /\ \A i \in DOMAIN tickets : BoughtBy(tickets, price, u)[i] = 0
        /\ \A i \in DOMAIN tickets : PaidTo(tickets, price, u)[i] = 0
    BY <1>1 DEF BoughtBy, PaidTo, BoughtOf, PaidOf
  <2> QED
    BY <1>3, <2>1, SumZero
<1>5. SumOver(FlatOn(tickets, price), DOMAIN tickets) = 0
  <2>1. \A i \in DOMAIN tickets : FlatOn(tickets, price)[i] = 0
    BY <1>1 DEF FlatOn, FlatOf
  <2> QED
    BY <1>3, <2>1, SumZero
<1>6. \A q \in Accounts : cash[q] \in Nat /\ shares[q] \in Nat
  BY DEF TypeOK
<1>7. Start.tickets = tickets /\ Start.cash = cash /\ Start.shares = shares /\ Start.worked = FALSE
  BY DEF Start
<1>8. HoldersPaid(Start, price)
  <2> SUFFICES ASSUME NEW u \in Users
               PROVE  /\ shares[u] = shares[u] + SumOver(BoughtBy(tickets, price, u), DOMAIN tickets)
                      /\ cash[u] >= cash[u] + SumOver(PaidTo(tickets, price, u), DOMAIN tickets)
    BY <1>7 DEF HoldersPaid
  <2>1. u \in Accounts
    BY UsersApart
  <2> QED
    BY <1>4, <1>6, <2>1
<1>9. TreasuryPaid(Start, price)
  <2>1. cash[Treasury] \in Nat
    BY <1>6, Parties
  <2> QED
    BY <1>5, <1>7, <2>1 DEF TreasuryPaid
<1>10. KeeperWaits(Start)
  BY <1>6, <1>7, Parties DEF KeeperWaits
<1>11. WorkShows(Start)
  BY <1>7 DEF WorkShows
<1> QED
  BY <1>2, <1>7, <1>8, <1>9, <1>10, <1>11 DEF PaidSoFar

LEMMA BatchPaid ==
  ASSUME TypeOK, EscrowExact, DepositsCover, NEW x \in TermsType,
         NEW ids \in Seq(DOMAIN tickets), Run(ids, x).ok
  PROVE  /\ Sound(Run(ids, x)) /\ Promised(Run(ids, x))
         /\ PaidSoFar(Run(ids, x), x.price)
<1> DEFINE b == Batches(ids, x)
           Good(c) == Sound(c) /\ Promised(c) /\ PaidSoFar(c, x.price)
           S == {k \in Nat : k <= Len(ids) /\ b[k].ok => Good(b[k])}
<1>1. Len(ids) \in Nat
  OBVIOUS
<1>2. 0 \in S
  <2>1. b[0] = Start
    BY <1>1, BatchesSteps
  <2>2. Promised(Start)
    <3>1. \A u \in Users : cash[u] \in Nat /\ shares[u] \in Nat
      BY UsersApart DEF TypeOK
    <3> QED
      BY <3>1 DEF Promised, NoPoorer, Kept, Start
  <2>3. PaidSoFar(Start, x.price)
    BY StartPaid DEF TermsType
  <2> QED
    BY <2>1, <2>2, <2>3, StartSound
<1>3. ASSUME NEW k \in Nat, k \in S
      PROVE  k + 1 \in S
  <2> SUFFICES ASSUME k + 1 <= Len(ids), b[k + 1].ok
               PROVE  Good(b[k + 1])
    OBVIOUS
  <2>1. k + 1 \in 1..Len(ids) /\ (k + 1) - 1 = k /\ k <= Len(ids)
    BY <1>1
  <2>2. b[k + 1] = SettleOne(b[k], ids[k + 1], x)
    BY <1>1, <2>1, BatchesSteps
  <2>3. ids[k + 1] \in DOMAIN tickets
    BY <2>1
  <2> HIDE DEF b
  <2>4. b[k].ok
    BY <2>2 DEF SettleOne
  <2>5. Sound(b[k]) /\ Promised(b[k]) /\ PaidSoFar(b[k], x.price)
    BY <1>3, <2>1, <2>4
  <2>6. SettleOne(b[k], ids[k + 1], x).ok
    BY <2>2
  <2> QED
    BY <2>2, <2>3, <2>5, <2>6, SettleOneSound, SettleOnePromised, SettleOnePaid
<1>4. Nat \subseteq S
  <2> HIDE DEF S
  <2> QED
    BY <1>2, <1>3, SetInduction
<1>5. Len(ids) \in S
  BY <1>1, <1>4
<1> QED
  BY <1>5 DEF Run

-----------------------------------------------------------------------------
(* From the batch to the step.                                              *)
LEMMA TakenIs ==
  ASSUME TypeOK, NEW i \in DOMAIN tickets, Kept(tickets[i], tickets'[i])
  PROVE  Taken(i) = TakenOf(tickets[i], tickets'[i])
<1> DEFINE t == tickets[i]
           e == tickets'[i]
<1>1. t.amount \in Nat
  BY TicketTyped
<1>2. CASE e = t
  <2>1. t.amount - t.amount = 0
    BY <1>1
  <2> HIDE DEF t, e
  <2>2. (CASE e.status = Cancelled -> 0
           [] e.status = Settled /\ t.status = Pending -> t.amount
           [] e.status = t.status -> t.amount - e.amount) = 0
    BY <1>2, <2>1 DEF Pending, Settled, Cancelled
  <2> QED
    BY <1>2, <2>2 DEF Taken, TakenOf, t, e
<1>3. CASE e # t
  <2>1. /\ t.status = Pending
        /\ e.status \in {Pending, Settled}
    BY <1>3 DEF Kept
  <2> HIDE DEF t, e
  <2>2. (CASE e.status = Cancelled -> 0
           [] e.status = Settled /\ t.status = Pending -> t.amount
           [] e.status = t.status -> t.amount - e.amount)
          = IF e.status = Settled THEN t.amount ELSE t.amount - e.amount
    BY <2>1 DEF Pending, Settled, Cancelled
  <2> QED
    BY <1>3, <2>2 DEF Taken, TakenOf, t, e
<1> QED
  BY <1>2, <1>3

LEMMA TipWanted ==
  ASSUME TypeOK, NEW escrow \in Nat
  PROVE  Tip(escrow) \in 0..escrow /\ Tip(escrow) <= params.keeperTip
<1>1. params.keeperTip \in Nat /\ keeper.maxRewardPerCall \in Nat
  BY DEF TypeOK, Params, KeeperParams
<1> QED
  BY <1>1 DEF Tip, Least

(* What the two properties say of one step.                                 *)
TipIsEarned ==
  shares'[Keeper] # shares[Keeper] =>
    /\ \E i \in DOMAIN tickets : Taken(i) > 0
    /\ shares'[Keeper] - shares[Keeper] \in 1..params.keeperTip
    /\ shares'[Keeper] + shares'[KeeperModule] >= shares[Keeper] + shares[KeeperModule]

StruckOnce ==
  (\E i \in DOMAIN tickets : Taken(i) > 0) =>
    \E r \in Readings : GatePasses(r) /\ PaidAt(NavPerShare(r))

(* The columns the batch kept are the sums the property takes.              *)
LEMMA ColumnsArePaid ==
  ASSUME TypeOK, NEW price \in Nat, Priced(tickets', price),
         \A i \in DOMAIN tickets : Taken(i) = TakenOf(tickets[i], tickets'[i]),
         \A u \in Users :
           /\ shares'[u] = shares[u] + SumOver(BoughtBy(tickets', price, u), DOMAIN tickets)
           /\ cash'[u] >= cash[u] + SumOver(PaidTo(tickets', price, u), DOMAIN tickets),
         cash'[Treasury] = cash[Treasury] + SumOver(FlatOn(tickets', price), DOMAIN tickets),
         \A u \in Users : cash'[u] \in Nat
  PROVE  PaidAt(price)
<1> DEFINE D == DOMAIN tickets
           filled == {i \in D : Taken(i) > 0}
           creates == {i \in filled : tickets[i].isCreate}
           redeems == filled \ creates
           Of(u, ids) == {i \in ids : tickets[i].owner = u}
           bought == [i \in creates |-> SharesFor(Taken(i) - CreateFee, price)]
           flat == [i \in filled |->
                      IF tickets[i].isCreate THEN CreateFee
                      ELSE IF IsRegistry THEN Least(fees.redeem, CashFor(Taken(i), price)) ELSE 0]
           paid == [i \in redeems |-> CashFor(Taken(i), price) - flat[i]]
<1>1. IsFiniteSet(D)
  BY TicketsFinite
<1>2. \A i \in D : PricedOne(tickets[i], tickets'[i], price)
  BY DEF Priced
<1>3. \A i \in D : Taken(i) = TakenOf(tickets[i], tickets'[i]) /\ tickets[i].isCreate \in BOOLEAN
  BY TicketTyped
<1>4. ASSUME NEW i \in D, NEW u
      PROVE  /\ BoughtOf(tickets[i], tickets'[i], price, u) \in Nat
             /\ PaidOf(tickets[i], tickets'[i], price, u) \in Nat
             /\ FlatOf(tickets[i], tickets'[i], price) \in Nat
  BY <1>2, ValuesNat
<1>5. ASSUME NEW i \in filled
      PROVE  flat[i] = FlatOf(tickets[i], tickets'[i], price)
  BY <1>3 DEF FlatOf, FlatRedeemFee
<1>6. ASSUME NEW i \in creates, NEW u, tickets[i].owner = u
      PROVE  bought[i] = BoughtOf(tickets[i], tickets'[i], price, u)
  BY <1>3, <1>6 DEF BoughtOf
<1>7. ASSUME NEW i \in redeems, NEW u, tickets[i].owner = u
      PROVE  paid[i] = PaidOf(tickets[i], tickets'[i], price, u)
  <2>1. paid[i] = CashFor(Taken(i), price) - flat[i] /\ ~tickets[i].isCreate /\ i \in filled
    OBVIOUS
  <2>2. flat[i] = FlatRedeemFee(CashFor(Taken(i), price))
    BY <2>1 DEF FlatRedeemFee
  <2> HIDE DEF paid, flat
  <2> QED
    BY <1>3, <1>7, <2>1, <2>2 DEF PaidOf
<1> HIDE DEF bought, paid, flat
<1>8. ASSUME NEW u \in Users
      PROVE  /\ SumOver(bought, Of(u, creates)) = SumOver(BoughtBy(tickets', price, u), D)
             /\ SumOver(BoughtBy(tickets', price, u), D) \in Nat
  <2> DEFINE T == Of(u, creates)
  <2>1. T \in SUBSET D
    OBVIOUS
  <2>2. \A i \in T : bought[i] = BoughtOf(tickets[i], tickets'[i], price, u)
    BY <1>6
  <2>3. \A i \in D \ T : BoughtOf(tickets[i], tickets'[i], price, u) = 0
    BY <1>3 DEF BoughtOf
  <2>4. \A i \in T : bought[i] \in Int
    BY <1>4, <2>1, <2>2
  <2> HIDE DEF T
  <2>5. [i \in D |-> IF i \in T THEN bought[i] ELSE 0] = BoughtBy(tickets', price, u)
    BY <2>1, <2>2, <2>3 DEF BoughtBy
  <2>6. SumOver(bought, T) = SumOver(BoughtBy(tickets', price, u), D)
    <3>1. SumOver(bought, T) = SumOver([i \in D |-> IF i \in T THEN bought[i] ELSE 0], D)
      <4> HIDE DEF D
      <4> QED
        BY <1>1, <2>1, <2>4, SumOfPart
    <3> QED
      BY <2>5, <3>1
  <2>7. \A i \in D : BoughtBy(tickets', price, u)[i] \in Nat
    BY <1>4 DEF BoughtBy
  <2>8. SumOver(BoughtBy(tickets', price, u), D) \in Nat
    BY <1>1, <2>7, SumNat
  <2> QED
    BY <2>6, <2>8 DEF T
<1>9. ASSUME NEW u \in Users
      PROVE  /\ SumOver(paid, Of(u, redeems)) = SumOver(PaidTo(tickets', price, u), D)
             /\ SumOver(PaidTo(tickets', price, u), D) \in Nat
  <2> DEFINE T == Of(u, redeems)
  <2>1. T \in SUBSET D
    OBVIOUS
  <2>2. \A i \in T : paid[i] = PaidOf(tickets[i], tickets'[i], price, u)
    BY <1>7
  <2>3. \A i \in D \ T : PaidOf(tickets[i], tickets'[i], price, u) = 0
    BY <1>3 DEF PaidOf
  <2>4. \A i \in T : paid[i] \in Int
    BY <1>4, <2>1, <2>2
  <2> HIDE DEF T
  <2>5. [i \in D |-> IF i \in T THEN paid[i] ELSE 0] = PaidTo(tickets', price, u)
    BY <2>1, <2>2, <2>3 DEF PaidTo
  <2>6. SumOver(paid, T) = SumOver(PaidTo(tickets', price, u), D)
    <3>1. SumOver(paid, T) = SumOver([i \in D |-> IF i \in T THEN paid[i] ELSE 0], D)
      <4> HIDE DEF D
      <4> QED
        BY <1>1, <2>1, <2>4, SumOfPart
    <3> QED
      BY <2>5, <3>1
  <2>7. \A i \in D : PaidTo(tickets', price, u)[i] \in Nat
    BY <1>4 DEF PaidTo
  <2>8. SumOver(PaidTo(tickets', price, u), D) \in Nat
    BY <1>1, <2>7, SumNat
  <2> QED
    BY <2>6, <2>8 DEF T
<1>10. /\ SumOver(flat, filled) = SumOver(FlatOn(tickets', price), D)
       /\ SumOver(FlatOn(tickets', price), D) \in Nat
  <2>1. filled \in SUBSET D
    OBVIOUS
  <2>2. \A i \in filled : flat[i] = FlatOf(tickets[i], tickets'[i], price)
    BY <1>5
  <2>3. \A i \in D \ filled : FlatOf(tickets[i], tickets'[i], price) = 0
    BY <1>3 DEF FlatOf
  <2>4. \A i \in filled : flat[i] \in Int
    BY <1>4, <2>1, <2>2
  <2> HIDE DEF filled
  <2>5. [i \in D |-> IF i \in filled THEN flat[i] ELSE 0] = FlatOn(tickets', price)
    BY <2>1, <2>2, <2>3 DEF FlatOn
  <2>6. SumOver(flat, filled) = SumOver(FlatOn(tickets', price), D)
    <3>1. SumOver(flat, filled) = SumOver([i \in D |-> IF i \in filled THEN flat[i] ELSE 0], D)
      <4> HIDE DEF D
      <4> QED
        BY <1>1, <2>1, <2>4, SumOfPart
    <3> QED
      BY <2>5, <3>1
  <2>7. \A i \in D : FlatOn(tickets', price)[i] \in Nat
    BY <1>4 DEF FlatOn
  <2>8. SumOver(FlatOn(tickets', price), D) \in Nat
    BY <1>1, <2>7, SumNat
  <2> QED
    BY <2>6, <2>8
<1>11. ASSUME NEW u \in Users
       PROVE  /\ shares'[u] - shares[u] = SumOver(bought, Of(u, creates))
              /\ cash'[u] - cash[u] >= SumOver(paid, Of(u, redeems))
  <2>1. shares[u] \in Nat /\ cash[u] \in Nat /\ cash'[u] \in Nat
    BY UsersApart DEF TypeOK
  <2>2. /\ shares'[u] = shares[u] + SumOver(BoughtBy(tickets', price, u), D)
        /\ cash'[u] >= cash[u] + SumOver(PaidTo(tickets', price, u), D)
    OBVIOUS
  <2>3. /\ SumOver(bought, Of(u, creates)) = SumOver(BoughtBy(tickets', price, u), D)
        /\ SumOver(BoughtBy(tickets', price, u), D) \in Nat
        /\ SumOver(paid, Of(u, redeems)) = SumOver(PaidTo(tickets', price, u), D)
        /\ SumOver(PaidTo(tickets', price, u), D) \in Nat
    BY <1>8, <1>9
  <2> HIDE DEF D, creates, redeems
  <2> QED
    BY <2>1, <2>2, <2>3
<1>12. cash'[Treasury] - cash[Treasury] = SumOver(flat, filled)
  <2>1. cash[Treasury] \in Nat
    BY Parties DEF TypeOK
  <2> QED
    BY <1>10, <2>1
<1> QED
  BY <1>11, <1>12 DEF PaidAt, bought, flat, paid

LEMMA SettlePays ==
  ASSUME TypeOK, EscrowExact, DepositsCover,
         NEW r \in Readings, NEW extra \in Overpay, NEW accrual \in Accruals,
         NEW ids \in Seq(DOMAIN tickets),
         Settle(ids, r, extra, accrual)
  PROVE  TipIsEarned /\ StruckOnce
<1> DEFINE x == Terms(ids, r, extra, accrual)
           price == NavPerShare(r)
<1>1. GatePasses(r) /\ x \in TermsType /\ x.price = price
  <2>1. /\ GatePasses(r)
        /\ Capped /\ (\E k \in DOMAIN ids : FillableCreate(ids[k])) => NavPerShare(r) > 0
        /\ x.price = price
    BY DEF Settle, Terms
  <2>2. extra \in Int /\ accrual \in [keeper : Nat, others : Nat]
    BY InputAssumption
  <2> QED
    BY <2>1, <2>2, TermsTyped
<1>2. PICK b : b = Run(ids, x)
  OBVIOUS
<1>3. Sound(b) /\ Promised(b) /\ PaidSoFar(b, price)
  <2>1. Run(ids, x).ok
    BY DEF Settle
  <2> HIDE DEF x, price
  <2> QED
    BY <1>1, <1>2, <2>1, BatchPaid
<1> DEFINE tip == Tip(b.shares[KeeperModule])
<1>4. /\ tickets' = b.tickets /\ cash' = b.cash
      /\ shares' = IF b.worked THEN Transfer(b.shares, KeeperModule, Keeper, tip) ELSE b.shares
  BY <1>2 DEF Settle
<1> HIDE DEF x
<1>5. /\ b \in BatchType /\ b.shares \in [Accounts -> Nat]
      /\ Keeper \in Accounts /\ KeeperModule \in Accounts /\ Keeper # KeeperModule
      /\ b.shares[Keeper] \in Nat /\ b.shares[KeeperModule] \in Nat
      /\ shares[Keeper] \in Nat /\ shares[KeeperModule] \in Nat
  BY <1>3, Parties DEF Sound, BatchType, TypeOK
<1>6. \A i \in DOMAIN tickets : Taken(i) = TakenOf(tickets[i], tickets'[i])
  BY <1>3, <1>4, TakenIs DEF Promised
<1>7. tip \in 0..b.shares[KeeperModule] /\ tip <= params.keeperTip /\ params.keeperTip \in Nat
  BY <1>5, TipWanted DEF TypeOK, Params
<1>8. KeeperWaits(b) /\ WorkShows(b) /\ Priced(b.tickets, price)
      /\ HoldersPaid(b, price) /\ TreasuryPaid(b, price)
  BY <1>3 DEF PaidSoFar
<1> HIDE DEF tip, price
<1>9. TipIsEarned
  <2> SUFFICES ASSUME shares'[Keeper] # shares[Keeper]
               PROVE  /\ \E i \in DOMAIN tickets : Taken(i) > 0
                      /\ shares'[Keeper] - shares[Keeper] \in 1..params.keeperTip
                      /\ shares'[Keeper] + shares'[KeeperModule]
                           >= shares[Keeper] + shares[KeeperModule]
    BY DEF TipIsEarned
  <2>1. b.worked
    BY <1>4, <1>8 DEF KeeperWaits
  <2>2. \E i \in DOMAIN tickets : Taken(i) > 0
    BY <1>4, <1>6, <1>8, <2>1 DEF WorkShows
  <2>3. /\ shares'[Keeper] = b.shares[Keeper] + tip
        /\ shares'[KeeperModule] = b.shares[KeeperModule] - tip
    BY <1>4, <1>5, <1>7, <2>1 DEF Transfer
  <2>4. b.shares[Keeper] = shares[Keeper] /\ b.shares[KeeperModule] >= shares[KeeperModule]
    BY <1>8 DEF KeeperWaits
  <2> QED
    BY <1>5, <1>7, <2>2, <2>3, <2>4
<1>10. PaidAt(price)
  <2>1. price \in Nat
    BY <1>1 DEF TermsType
  <2>2. \A u \in Users : shares'[u] = b.shares[u]
    BY <1>4, <1>5, UsersApart DEF Transfer
  <2>3. \A u \in Users : cash'[u] \in Nat
    BY <1>4, <1>5, UsersApart DEF BatchType
  <2>4. \A u \in Users :
           /\ shares'[u] = shares[u] + SumOver(BoughtBy(tickets', price, u), DOMAIN tickets)
           /\ cash'[u] >= cash[u] + SumOver(PaidTo(tickets', price, u), DOMAIN tickets)
    BY <1>4, <1>8, <2>2 DEF HoldersPaid
  <2>5. cash'[Treasury] = cash[Treasury] + SumOver(FlatOn(tickets', price), DOMAIN tickets)
    BY <1>4, <1>8 DEF TreasuryPaid
  <2>6. Priced(tickets', price)
    BY <1>4, <1>8
  <2> QED
    BY <1>6, <2>1, <2>3, <2>4, <2>5, <2>6, ColumnsArePaid
<1>11. StruckOnce
  BY <1>1, <1>10 DEF StruckOnce, price
<1> QED
  BY <1>9, <1>11

(* Every other step takes nothing out of a ticket for the AP, and pays no   *)
(* keeper.                                                                  *)
NothingTaken ==
  /\ \A i \in DOMAIN tickets : ~(Taken(i) > 0)
  /\ shares'[Keeper] = shares[Keeper]

LEMMA SameTicketTakesNothing ==
  ASSUME TypeOK, NEW i \in DOMAIN tickets, tickets'[i] = tickets[i]
  PROVE  ~(Taken(i) > 0)
<1>1. Kept(tickets[i], tickets'[i])
  BY DEF Kept
<1>2. Taken(i) = 0
  BY <1>1, TakenIs DEF TakenOf
<1> QED
  BY <1>2

LEMMA OpenTakesNothing ==
  ASSUME TypeOK, NEW u, NEW create, NEW amt, OpenTicket(u, create, amt)
  PROVE  \A i \in DOMAIN tickets : ~(Taken(i) > 0)
<1> SUFFICES ASSUME NEW i \in DOMAIN tickets PROVE ~(Taken(i) > 0)
  OBVIOUS
<1>1. tickets'[i] = tickets[i]
  BY DEF OpenTicket, TypeOK
<1> QED
  BY <1>1, SameTicketTakesNothing

LEMMA RequestTakesNothing ==
  ASSUME TypeOK, NEW u \in Users, NEW amt \in Amounts,
         RequestCreate(u, amt) \/ RequestRedeem(u, amt)
  PROVE  NothingTaken
<1>1. CASE RequestCreate(u, amt)
  BY <1>1, OpenTakesNothing DEF RequestCreate, NothingTaken
<1>2. CASE RequestRedeem(u, amt)
  <2>1. shares' = Transfer(shares, u, Queue, amt) /\ OpenTicket(u, FALSE, amt)
    BY <1>2 DEF RequestRedeem
  <2>2. /\ shares \in [Accounts -> Nat] /\ Keeper \in Accounts
        /\ Keeper # u /\ Keeper # Queue
    BY Parties, UsersApart DEF TypeOK
  <2>3. shares'[Keeper] = shares[Keeper]
    BY <2>1, <2>2 DEF Transfer
  <2> QED
    BY <2>1, <2>3, OpenTakesNothing DEF NothingTaken
<1> QED
  BY <1>1, <1>2

LEMMA CancelTakesNothing ==
  ASSUME TypeOK, NEW u \in Users, NEW id \in DOMAIN tickets, Cancel(u, id)
  PROVE  NothingTaken
<1>1. /\ tickets' = [tickets EXCEPT ![id].status = Cancelled]
      /\ tickets[id].status = Pending
      /\ shares' = Transfer(shares, Queue, u, tickets[id].amount) \/ shares' = shares
  BY DEF Cancel, Cancellable
<1>2. /\ shares \in [Accounts -> Nat] /\ Keeper \in Accounts
      /\ Keeper # u /\ Keeper # Queue
  BY Parties, UsersApart DEF TypeOK
<1>3. shares'[Keeper] = shares[Keeper]
  BY <1>1, <1>2 DEF Transfer
<1>4. ASSUME NEW i \in DOMAIN tickets
      PROVE  ~(Taken(i) > 0)
  <2>1. tickets \in Seq(Ticket)
    BY DEF TypeOK
  <2>2. CASE i = id
    <3>1. tickets[id] \in Ticket
      BY TicketTyped
    <3>2. tickets'[id] = [tickets[id] EXCEPT !.status = Cancelled]
      BY <1>1, <2>1
    <3>3. tickets'[id].status = Cancelled
      BY <3>1, <3>2 DEF Ticket
    <3>4. Taken(id) = 0
      BY <1>1, <3>3 DEF Taken, Pending, Settled, Cancelled
    <3> QED
      BY <2>2, <3>4
  <2>3. CASE i # id
    <3>1. tickets'[i] = tickets[i]
      BY <1>1, <2>1, <2>3
    <3> QED
      BY <3>1, SameTicketTakesNothing
  <2> QED
    BY <2>2, <2>3
<1> QED
  BY <1>3, <1>4 DEF NothingTaken

LEMMA QuietTakesNothing ==
  ASSUME TypeOK,
         \/ \E d \in Delays : SetCutoffDelay(d)
         \/ \E b \in Spreads : SetSpreadBps(b)
         \/ \E b \in Capacities : SetCapacity(b)
         \/ \E t \in Tips : SetKeeperTip(t)
         \/ \E g \in Gates : SetGateParams(g)
         \/ SetG1Refs
         \/ \E allowed \in Executors : SetExecutor(allowed)
         \/ \E c \in MaxRewards : SetMaxRewardPerCall(c)
         \/ \E c, r \in FlatFees : SetFlatFees(c, r)
         \/ \E to \in {Market, KeeperModule} : MintOutside(to)
         \/ RedeemInKind
         \/ Tick
  PROVE  NothingTaken
<1>1. tickets' = tickets
  BY DEF SetCutoffDelay, SetSpreadBps, SetCapacity, SetKeeperTip, SetGateParams,
         SetG1Refs, SetExecutor, SetMaxRewardPerCall, SetFlatFees, SetParams,
         MintOutside, RedeemInKind, Tick
<1>2. shares'[Keeper] = shares[Keeper]
  <2>1. /\ shares \in [Accounts -> Nat] /\ Keeper \in Accounts
        /\ Keeper \notin {Market, KeeperModule}
    BY AccountAssumption DEF TypeOK, Accounts, Services
  <2>2. CASE \E to \in {Market, KeeperModule} : MintOutside(to)
    BY <2>1, <2>2 DEF MintOutside
  <2>3. CASE RedeemInKind
    BY <2>1, <2>3 DEF RedeemInKind
  <2>4. CASE shares' = shares
    BY <2>4
  <2> QED
    BY <2>2, <2>3, <2>4
       DEF SetCutoffDelay, SetSpreadBps, SetCapacity, SetKeeperTip, SetGateParams,
           SetG1Refs, SetExecutor, SetMaxRewardPerCall, SetFlatFees, SetParams,
           Tick, ledger
<1>3. \A i \in DOMAIN tickets : ~(Taken(i) > 0)
  BY <1>1, SameTicketTakesNothing
<1> QED
  BY <1>2, <1>3 DEF NothingTaken

LEMMA StepPays ==
  ASSUME Inv, DepositsCover, Next
  PROVE  TipIsEarned /\ StruckOnce
<1>1. TypeOK /\ EscrowExact
  BY DEF Inv
<1>2. ASSUME NothingTaken
      PROVE  TipIsEarned /\ StruckOnce
  BY <1>2 DEF NothingTaken, TipIsEarned, StruckOnce
<1>3. CASE \E k \in 0..MaxBatch : \E ids \in [1..k -> DOMAIN tickets] :
             \E r \in Readings, extra \in Overpay, accrual \in Accruals :
               /\ \/ accrual = NoAccrual
                  \/ supply + accrual.keeper + accrual.others <= MaxSupply
               /\ Settle(ids, r, extra, accrual)
  <2>1. PICK k \in 0..MaxBatch : \E ids \in [1..k -> DOMAIN tickets] :
          \E r \in Readings, extra \in Overpay, accrual \in Accruals :
            Settle(ids, r, extra, accrual)
    BY <1>3
  <2>2. PICK ids \in [1..k -> DOMAIN tickets] :
          \E r \in Readings, extra \in Overpay, accrual \in Accruals :
            Settle(ids, r, extra, accrual)
    BY <2>1
  <2>3. ids \in Seq(DOMAIN tickets)
    BY InputAssumption
  <2> QED
    BY <1>1, <2>2, <2>3, SettlePays
<1>4. CASE \E u \in Users, amt \in Amounts : RequestCreate(u, amt) \/ RequestRedeem(u, amt)
  BY <1>1, <1>2, <1>4, RequestTakesNothing
<1>5. CASE \E u \in Users, id \in DOMAIN tickets : Cancel(u, id)
  BY <1>1, <1>2, <1>5, CancelTakesNothing
<1>6. CASE \/ \E d \in Delays : SetCutoffDelay(d)
           \/ \E b \in Spreads : SetSpreadBps(b)
           \/ \E b \in Capacities : SetCapacity(b)
           \/ \E t \in Tips : SetKeeperTip(t)
           \/ \E g \in Gates : SetGateParams(g)
           \/ SetG1Refs
           \/ \E allowed \in Executors : SetExecutor(allowed)
           \/ \E c \in MaxRewards : SetMaxRewardPerCall(c)
           \/ \E c, r \in FlatFees : SetFlatFees(c, r)
           \/ \E to \in {Market, KeeperModule} : MintOutside(to)
           \/ RedeemInKind
           \/ Tick
  BY <1>1, <1>2, <1>6, QuietTakesNothing
<1> QED
  BY <1>3, <1>4, <1>5, <1>6 DEF Next

LEMMA CoverInit == Init => DepositsCover
BY DEF Init, DepositsCover

(* All fills of a batch are at one price, that of one reading that passed    *)
(* the gate: whatever else the batch holds, however often it lists an id and *)
(* however the AP pays, every holder gets the shares its filled cash buys    *)
(* and the treasury the flat fees, to the unit.                              *)
THEOREM FillsAtOneStrike == Spec => OneStrikePerBatch
<1>1. Init => Inv /\ DepositsCover
  BY InitInv, CoverInit
<1>2. Inv /\ DepositsCover /\ [Next]_vars => Inv' /\ DepositsCover'
  BY StepInv, StepMapped
<1>3. Inv /\ DepositsCover /\ [Next]_vars =>
        [(\E i \in DOMAIN tickets : Taken(i) > 0) =>
           \E r \in Readings : GatePasses(r) /\ PaidAt(NavPerShare(r))]_vars
  BY StepPays DEF StruckOnce
<1> QED
  BY <1>1, <1>2, <1>3, PTL DEF Spec, OneStrikePerBatch

(* A keeper is paid by a step that filled a ticket or not at all, never more *)
(* than the tip the owner set, and out of the keeper module alone.          *)
THEOREM TipsAreEarned == Spec => TipOnlyForWork
<1>1. Init => Inv /\ DepositsCover
  BY InitInv, CoverInit
<1>2. Inv /\ DepositsCover /\ [Next]_vars => Inv' /\ DepositsCover'
  BY StepInv, StepMapped
<1>3. Inv /\ DepositsCover /\ [Next]_vars =>
        [shares'[Keeper] # shares[Keeper] =>
           /\ \E i \in DOMAIN tickets : Taken(i) > 0
           /\ shares'[Keeper] - shares[Keeper] \in 1..params.keeperTip
           /\ shares'[Keeper] + shares'[KeeperModule]
                >= shares[Keeper] + shares[KeeperModule]]_vars
  BY StepPays DEF TipIsEarned
<1> QED
  BY <1>1, <1>2, <1>3, PTL DEF Spec, TipOnlyForWork
=============================================================================
