--------------------------- MODULE ForwardEscrow ---------------------------
(***************************************************************************)
(* What the cash queue promises the holders who put something in escrow,   *)
(* with no word of prices, vaults, capacity or keepers.                    *)
(*                                                                         *)
(* A deposit has a deadline.  Before it, the owner may take the whole of   *)
(* it back; from it on, parts of it may be spent, and a deposit of which   *)
(* something is left gets a new deadline in the future.  The pool holds    *)
(* what is left of the deposits.                                           *)
(***************************************************************************)
EXTENDS Integers, Sequences, Totals

CONSTANT Owners

VARIABLES
  book,      \* the deposits, in the order they were made
  pool,      \* what the escrow holds, by asset
  wallet,    \* what each owner holds, by asset
  now

vars == <<book, pool, wallet, now>>

(* What is left of the deposits of one asset.                               *)
Left(deposits, asset) ==
  Total([i \in DOMAIN deposits |->
           IF deposits[i].asset = asset THEN deposits[i].left ELSE 0])

(* The pool is the deposits, and a deposit is what was spent of it, what    *)
(* went back and what is left.                                              *)
Backed ==
  /\ pool.cash = Left(book, "cash")
  /\ pool.shares = Left(book, "shares")
  /\ \A i \in DOMAIN book :
       LET d == book[i] IN
         /\ d.put = d.spent + d.back + d.left
         /\ d.spent >= 0 /\ d.back >= 0 /\ d.left >= 0

Init ==
  /\ book = << >>
  /\ Backed

Deposit ==
  /\ Len(book') = Len(book) + 1
  /\ \A i \in DOMAIN book : book'[i] = book[i]
  /\ LET d == book'[Len(book')] IN
       /\ d.left = d.put /\ d.left > 0
       /\ d.deadline > now
       /\ wallet' = [wallet EXCEPT ![d.owner][d.asset] = @ - d.put]
  /\ UNCHANGED now

(* The owner takes back all that is left of deposit i.                      *)
Return(i) ==
  /\ book[i].left > 0
  /\ now < book[i].deadline
  /\ book' = [book EXCEPT ![i].back = @ + book[i].left, ![i].left = 0]
  /\ wallet' = [wallet EXCEPT ![book[i].owner][book[i].asset] = @ + book[i].left]
  /\ UNCHANGED now

(* Deposits past their deadline are spent, in whole or in part.             *)
Spend ==
  /\ DOMAIN book' = DOMAIN book
  /\ \A i \in DOMAIN book :
       LET d == book[i]
           e == book'[i]
       IN \/ e = d
          \/ /\ d.left > 0
             /\ now >= d.deadline
             /\ e.left <= d.left
             /\ e.left > 0 => e.deadline > now
             /\ e = [d EXCEPT !.left = e.left, !.deadline = e.deadline,
                              !.spent = d.spent + (d.left - e.left)]
  /\ \A u \in Owners : /\ wallet'[u].cash >= wallet[u].cash
                        /\ wallet'[u].shares >= wallet[u].shares
  /\ UNCHANGED now

Tick ==
  /\ now' > now
  /\ UNCHANGED <<book, wallet>>

Next ==
  /\ \/ Deposit
     \/ \E i \in DOMAIN book : Return(i)
     \/ Spend
     \/ Tick
  /\ Backed'

Spec == Init /\ [][Next]_vars
=============================================================================
