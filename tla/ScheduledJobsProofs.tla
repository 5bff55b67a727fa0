------------------------ MODULE ScheduledJobsProofs ------------------------
(***************************************************************************)
(* The jobs the backend runs for ever.                                     *)
(*                                                                         *)
(* Following a queue, for every number of tickets, orders, range and start *)
(* block: whatever is torn and replayed, the database's rows never show a  *)
(* cutoff later than the contract's, show a closed ticket as open only in  *)
(* a replay, and are exactly the log's at every commit that was read.  The *)
(* argument is about one ticket at a time: its events have an order in the *)
(* log that the order of the kinds respects.  And the keeper that reads    *)
(* those rows, however old they are, leaves out nothing a settle could     *)
(* fill; what it settles is not due again at once.                         *)
(*                                                                         *)
(* Valuing a basket, for every basket, catalog, threshold and set of stubs:*)
(* a NAV that is no estimate has only prices that are young enough.  And,  *)
(* without the stubs, that a token's anchor is never displaced by the      *)
(* catalog's baseline.                                                     *)
(***************************************************************************)
EXTENDS ForwardSync, Valuation, FiniteSetTheorems, WellFoundedInduction, TLAPS

-----------------------------------------------------------------------------
(* The inductive invariant of the following                                *)

(* The ticket each event is of, and what it does to it.                    *)
IsRequest(b) == log[b].kind \in Requests
IsClosing(b) == log[b].kind \in {"Settled", "Cancelled"}
SameTicket(b, c) == log[b].id = log[c].id

BookTyped ==
  /\ now \in Nat /\ now <= MaxNow
  /\ tickets \in Seq(Ticket) /\ Len(tickets) <= MaxTickets
  /\ log \in Seq(Event)
  /\ batch \subseteq Ids

(* A ticket's first event is its request, its last the one that closes it. *)
OfTickets == \A b \in DOMAIN log : log[b].id \in DOMAIN tickets
Requested == \A id \in DOMAIN tickets : \E b \in DOMAIN log : log[b].id = id /\ IsRequest(b)
LogOrder ==
  \A b, c \in DOMAIN log : SameTicket(b, c) /\ b < c => ~IsClosing(b) /\ ~IsRequest(c)
PendingIsOpen ==
  \A b \in DOMAIN log : IsClosing(b) => log[b].amount = 0 /\ tickets[log[b].id].status # "Pending"

(* A ticket's cutoff only ever moves away.                                 *)
LogCutoffs == \A b \in DOMAIN log : log[b].cutoff <= tickets[log[b].id].cutoff

(* Its amount only ever shrinks, its kind stays, and only a create is      *)
(* filled in part.                                                         *)
RowKind(kind) == IF kind = "RedeemRequested" THEN "Redeem" ELSE "Create"
Fits(e, t) ==
  /\ e.kind \notin {"Settled", "Cancelled"} => t.amount <= e.amount
  /\ e.kind \in Requests => t.kind = RowKind(e.kind)
  /\ e.kind = "PartialFill" => t.kind = "Create"
LogAmounts == \A b \in DOMAIN log : Fits(log[b], tickets[log[b].id])

BookInv ==
  /\ BookTyped /\ OfTickets /\ Requested /\ LogOrder /\ PendingIsOpen /\ LogCutoffs
  /\ LogAmounts

(* The blocks of the tick's range that are in the database again.          *)
InTodo == {e.block : e \in tick.todo}
Done == IF tick.pc = "apply" /\ tick.known THEN Blocks \ InTodo ELSE {}

OfLog(e) ==
  /\ e.block \in Blocks
  /\ e.kind = log[e.block].kind /\ e.id = log[e.block].id /\ e.amount = log[e.block].amount
  /\ e.cutoff \in Nat /\ e.cutoff <= tickets[e.id].cutoff
TodoRecord == [block : Nat, kind : Range(EventKinds), id : Ids, amount : Nat, cutoff : Nat]

TickTyped ==
  /\ tick \in [pc : {"idle", "refresh", "install", "apply"}, from : Nat, to : Nat,
               known : BOOLEAN, todo : SUBSET TodoRecord]
  /\ tick.to <= Len(log)
  /\ {live, cached, warm, replaying} \subseteq BOOLEAN
  /\ stops \in 0..MaxStops
RowsTyped ==
  /\ db \in [Ids -> TicketRow \cup {NoTicket}]
  /\ eventRows \subseteq DOMAIN log /\ activity \subseteq DOMAIN log /\ covered \subseteq DOMAIN log
  /\ checkpoint \in {NoCheckpoint} \cup 0..Len(log)

(* What is left of a range is what was fetched of it, and of each ticket   *)
(* the blocks that are applied come first.                                 *)
TodoIsOfLog ==
  /\ \A e \in tick.todo : OfLog(e)
  /\ \A e, f \in tick.todo : e.block = f.block => e = f
  /\ tick.todo # {} => tick.pc = "apply" /\ tick.known
InBlockOrder == \A b \in Done, e \in tick.todo : log[b].id = e.id => b < e.block

(* A range starts after the checkpoint and reaches as far as any range     *)
(* that was left half applied.                                             *)
Known == checkpoint # NoCheckpoint \/ StartBlock > 0
RangeInv ==
  /\ tick.pc # "idle" /\ Known =>
       tick.from = LastIndexed + 1 /\ tick.to <= LastIndexed + 1 + MaxRange
  /\ tick.pc # "idle" => \A b \in eventRows : b <= tick.to
  /\ Known => \A b \in eventRows : b <= LastIndexed + 1 + MaxRange
  /\ \A b \in covered : checkpoint # NoCheckpoint /\ b <= checkpoint

(* Only a stopped tick leaves rows past the checkpoint.                    *)
NothingTorn ==
  ~replaying => \A b \in eventRows : (checkpoint # NoCheckpoint /\ b <= checkpoint) \/ b \in Done

Closed(id) == db[id] # NoTicket /\ db[id].status \in {"Settled", "Cancelled"}
RowsHaveEvents ==
  /\ \A id \in Ids : db[id] # NoTicket =>
       id \in DOMAIN tickets /\ db[id].cutoff <= tickets[id].cutoff
  /\ \A id \in Ids : Closed(id) => \E b \in eventRows : log[b].id = id /\ IsClosing(b)

(* What the request of a ticket wrote stays.                               *)
Holds(id, b) ==
  /\ db[id] # NoTicket /\ db[id].owned
  /\ db[id].kind = RowKind(log[b].kind) /\ db[id].amount = log[b].amount
RequestsStay == \A b \in eventRows : IsRequest(b) => Holds(log[b].id, b)

(* An open row leaves at least as much to fill as its ticket does, and is   *)
(* called a create only when the ticket is one.                            *)
Covers(row, t) == t.amount <= row.remaining /\ (row.kind = "Create" => t.kind = "Create")
RowsCover == \A id \in Ids : Open(id) => Covers(db[id], tickets[id])

Read == covered \cup Done
ReadIsStored ==
  /\ Read \subseteq eventRows
  /\ \A b, r \in Read : SameTicket(b, r) /\ r <= b /\ IsRequest(r) => b \in activity

(* A row shows the last event of its ticket: of the range being applied    *)
(* when it has one, and otherwise of what was covered, unless a stopped    *)
(* tick got further.                                                       *)
Shows(id, m) ==
  db[id] # NoTicket /\ db[id].status = RowStatus(log[m].kind) /\ db[id].remaining = log[m].amount
LastOf(id, m, S) == m \in S /\ log[m].id = id /\ \A b \in S : log[b].id = id => b <= m
NoneOf(id, S) == \A b \in S : log[b].id # id
DoneShown == \A id \in Ids, m \in Done : LastOf(id, m, Done) => Shows(id, m)
CoveredShown ==
  \A id \in Ids, m \in covered :
    LastOf(id, m, covered) /\ NoneOf(id, Done) /\ NoneOf(id, eventRows \ covered) => Shows(id, m)

FollowInv ==
  /\ TickTyped /\ RowsTyped /\ TodoIsOfLog /\ InBlockOrder /\ RangeInv /\ NothingTorn
  /\ RowsHaveEvents /\ RequestsStay /\ ReadIsStored /\ DoneShown /\ CoveredShown
  /\ RowsCover
SyncInv == BookInv /\ FollowInv

-----------------------------------------------------------------------------
(* The kinds of event, and the order they are applied in.                  *)

LEMMA KindsAre ==
  /\ Range(EventKinds) = {"CreateRequested", "RedeemRequested", "PartialFill", "Settled", "Cancelled"}
  /\ DOMAIN EventKinds = 1..5
<1>1. DOMAIN EventKinds = 1..5
  BY DEF EventKinds
<1>2. Range(EventKinds) = {EventKinds[k] : k \in 1..5}
  BY <1>1 DEF Range
<1>3. \A k \in 1..5 : EventKinds[k] \in
        {"CreateRequested", "RedeemRequested", "PartialFill", "Settled", "Cancelled"}
  BY DEF EventKinds
<1>4. EventKinds[1] = "CreateRequested" /\ EventKinds[2] = "RedeemRequested"
        /\ EventKinds[3] = "PartialFill" /\ EventKinds[4] = "Settled" /\ EventKinds[5] = "Cancelled"
  BY DEF EventKinds
<1>5. 1 \in 1..5 /\ 2 \in 1..5 /\ 3 \in 1..5 /\ 4 \in 1..5 /\ 5 \in 1..5
  OBVIOUS
<1> QED
  BY <1>1, <1>2, <1>3, <1>4, <1>5

LEMMA Ranks ==
  /\ Rank("CreateRequested") = 1 /\ Rank("RedeemRequested") = 2 /\ Rank("PartialFill") = 3
  /\ Rank("Settled") = 4 /\ Rank("Cancelled") = 5
<1>1. EventKinds[1] = "CreateRequested" /\ EventKinds[2] = "RedeemRequested"
        /\ EventKinds[3] = "PartialFill" /\ EventKinds[4] = "Settled" /\ EventKinds[5] = "Cancelled"
  BY DEF EventKinds
<1>2. ASSUME NEW n \in 1..5 PROVE Rank(EventKinds[n]) = n
  <2>1. \A k \in 1..5 : EventKinds[k] = EventKinds[n] => k = n
    BY <1>1
  <2>2. Rank(EventKinds[n]) = CHOOSE k \in 1..5 : EventKinds[k] = EventKinds[n]
    BY KindsAre DEF Rank
  <2> QED
    BY <2>1, <2>2
<1> QED
  BY <1>1, <1>2

-----------------------------------------------------------------------------
(* The queue and its log                                                   *)

(* Tickets and events are only added; of a ticket the kind stays, the      *)
(* cutoff only moves away and the amount only shrinks.                     *)
Shrinks(t, u) == u.kind = t.kind /\ u.amount <= t.amount
Grows ==
  /\ DOMAIN log \subseteq DOMAIN log' /\ Len(log) <= Len(log')
  /\ \A b \in DOMAIN log : log'[b] = log[b]
  /\ DOMAIN tickets \subseteq DOMAIN tickets'
  /\ \A id \in DOMAIN tickets : tickets[id].cutoff <= tickets'[id].cutoff
  /\ \A id \in DOMAIN tickets : Shrinks(tickets[id], tickets'[id])

LEMMA Appended ==
  ASSUME log \in Seq(Event), NEW new \in Seq(Event), log' = log \o new
  PROVE  /\ log' \in Seq(Event)
         /\ DOMAIN log \subseteq DOMAIN log' /\ Len(log) <= Len(log')
         /\ \A b \in DOMAIN log : log'[b] = log[b]
         /\ \A b \in DOMAIN log' \ DOMAIN log : \E i \in DOMAIN new :
              b = Len(log) + i /\ log'[b] = new[i]
         /\ \A i \in DOMAIN new : Len(log) + i \in DOMAIN log' /\ log'[Len(log) + i] = new[i]
<1>1. log' \in Seq(Event) /\ Len(log') = Len(log) + Len(new)
  OBVIOUS
<1>2. DOMAIN log = 1..Len(log) /\ DOMAIN new = 1..Len(new) /\ DOMAIN log' = 1..Len(log')
  BY <1>1
<1>3. \A b \in DOMAIN log' : log'[b] = IF b <= Len(log) THEN log[b] ELSE new[b - Len(log)]
  BY <1>1, <1>2
<1>4. ASSUME NEW b \in DOMAIN log' \ DOMAIN log
      PROVE  \E i \in DOMAIN new : b = Len(log) + i /\ log'[b] = new[i]
  <2>1. b - Len(log) \in DOMAIN new /\ b = Len(log) + (b - Len(log)) /\ log'[b] = new[b - Len(log)]
    BY <1>1, <1>2, <1>3
  <2> QED
    BY <2>1
<1>5. ASSUME NEW i \in DOMAIN new
      PROVE  Len(log) + i \in DOMAIN log' /\ log'[Len(log) + i] = new[i]
  <2>1. Len(log) + i \in DOMAIN log' /\ Len(log) + i > Len(log) /\ (Len(log) + i) - Len(log) = i
    BY <1>1, <1>2
  <2> QED
    BY <2>1, <1>3
<1> QED
  BY <1>1, <1>2, <1>3, <1>4, <1>5

LEMMA OneEvent ==
  ASSUME log \in Seq(Event), NEW e \in Event, log' = Append(log, e)
  PROVE  /\ log' \in Seq(Event)
         /\ DOMAIN log' = DOMAIN log \cup {Len(log) + 1} /\ Len(log') = Len(log) + 1
         /\ \A b \in DOMAIN log : log'[b] = log[b] /\ b < Len(log) + 1
         /\ log'[Len(log) + 1] = e
<1>1. log' \in Seq(Event) /\ Len(log') = Len(log) + 1
  OBVIOUS
<1>2. DOMAIN log = 1..Len(log) /\ DOMAIN log' = 1..Len(log')
  BY <1>1
<1> QED
  BY <1>1, <1>2

LEMMA SequenceOf ==
  ASSUME NEW S, NEW n \in Nat, NEW f, f = [i \in 1..n |-> f[i]], \A i \in 1..n : f[i] \in S
  PROVE  f \in Seq(S) /\ Len(f) = n
OBVIOUS

LEMMA Facts ==
  ASSUME BookTyped
  PROVE  /\ DOMAIN tickets = 1..Len(tickets) /\ DOMAIN log = 1..Len(log)
         /\ Len(tickets) \in Nat /\ Len(log) \in Nat /\ DOMAIN tickets \subseteq Ids
         /\ CutoffDelay \in Nat \ {0} /\ MaxTickets \in Nat
         /\ \A id \in DOMAIN tickets : tickets[id] \in Ticket
         /\ \A b \in DOMAIN log : log[b] \in Event
<1>1. MaxTickets \in Nat /\ CutoffDelay \in Nat \ {0}
  BY SyncAssumption
<1>2. tickets \in Seq(Ticket) /\ log \in Seq(Event) /\ Len(tickets) <= MaxTickets
  BY DEF BookTyped
<1> QED
  BY <1>1, <1>2 DEF Ids

LEMMA ShrunkStillFits ==
  ASSUME NEW e \in Event, NEW t \in Ticket, NEW u \in Ticket, Fits(e, t), Shrinks(t, u)
  PROVE  Fits(e, u)
<1>1. e.amount \in Nat /\ t.amount \in Nat /\ u.amount \in Nat
  BY DEF Event, Ticket
<1> QED
  BY <1>1 DEF Fits, Shrinks

(* The events there were still fit their tickets.                          *)
LEMMA OldEventsFit ==
  ASSUME BookTyped, BookTyped', OfTickets, LogAmounts, Grows, NEW b \in DOMAIN log
  PROVE  Fits(log'[b], tickets'[log'[b].id])
<1> DEFINE id == log[b].id
<1>1. log'[b] = log[b] /\ log[b] \in Event /\ id \in DOMAIN tickets
  BY Facts DEF Grows, OfTickets
<1>2. tickets[id] \in Ticket /\ tickets'[id] \in Ticket
  <2>1. id \in DOMAIN tickets'
    BY <1>1 DEF Grows
  <2>2. \A i \in DOMAIN tickets' : tickets'[i] \in Ticket
    BY DEF BookTyped
  <2> QED
    BY <1>1, <2>1, <2>2, Facts
<1>3. Fits(log[b], tickets[id])
  BY DEF LogAmounts
<1>4. Shrinks(tickets[id], tickets'[id])
  BY <1>1 DEF Grows
<1> QED
  BY <1>1, <1>2, <1>3, <1>4, ShrunkStillFits

LEMMA RequestKeepsBook ==
  ASSUME BookInv, NEW order \in Orders, Request(order)
  PROVE  BookInv' /\ Grows
<1> USE DEF BookInv
<1> DEFINE id == Len(tickets) + 1
           t == [kind |-> order.kind, amount |-> order.amount, cutoff |-> now + CutoffDelay, status |-> "Pending"]
           kind == IF order.kind = "Create" THEN "CreateRequested" ELSE "RedeemRequested"
           e == Emit(kind, id, order.amount, now + CutoffDelay)
<1>1. order.kind \in Kinds /\ order.amount \in Nat
  BY SyncAssumption
<1>2. now \in Nat /\ now + CutoffDelay \in Nat
  BY Facts DEF BookTyped
<1>3. t \in Ticket
  BY <1>1, <1>2 DEF Ticket
<1>4. id \in Ids /\ id \in Nat
  BY Facts DEF Request, Ids
<1>5. e \in Event /\ e.id = id /\ e.kind = kind /\ kind \in Requests /\ e.amount = order.amount
        /\ e.cutoff = now + CutoffDelay
  BY <1>1, <1>2, <1>4, KindsAre DEF Emit, Event, Requests
<1>6. tickets' = Append(tickets, t) /\ log' = Append(log, e) /\ now' = now /\ batch' = batch
  BY DEF Request, keeperVars
<1> HIDE DEF t, kind, e
<1>7. /\ tickets' \in Seq(Ticket) /\ DOMAIN tickets' = DOMAIN tickets \cup {id} /\ Len(tickets') = id
      /\ \A i \in DOMAIN tickets : tickets'[i] = tickets[i] /\ i < id
      /\ tickets'[id] = t
  BY <1>3, <1>6, Facts DEF BookTyped
<1>8. t.cutoff = now + CutoffDelay /\ t.status = "Pending" /\ t.amount = order.amount
        /\ t.kind = RowKind(e.kind)
  BY <1>1 DEF t, e, kind, Emit, RowKind, Kinds
<1> DEFINE L == Len(log) + 1
<1>9. /\ log' \in Seq(Event) /\ DOMAIN log' = DOMAIN log \cup {L} /\ Len(log') = L
      /\ \A b \in DOMAIN log : log'[b] = log[b] /\ b < L
      /\ log'[L] = e
  BY <1>5, <1>6, OneEvent DEF BookTyped
<1>10. L \in Nat /\ L \notin DOMAIN log
  BY Facts
<1> HIDE DEF L, id
<1>11. \A b \in DOMAIN log : log[b].id \in DOMAIN tickets /\ log[b].id # id
  BY <1>7, Facts DEF OfTickets
<1>12. Grows
  <2>1. \A i \in DOMAIN tickets : tickets[i].cutoff <= tickets'[i].cutoff
    BY <1>7, Facts DEF Ticket
  <2>2. \A i \in DOMAIN tickets : Shrinks(tickets[i], tickets'[i])
    BY <1>7, Facts DEF Ticket, Shrinks
  <2> QED
    BY <1>7, <1>9, <2>1, <2>2, Facts DEF Grows, L
<1>13. BookTyped'
  BY <1>6, <1>7, <1>9, <1>4 DEF BookTyped, id, Ids
<1>14. OfTickets'
  BY <1>7, <1>9, <1>5, <1>11 DEF OfTickets
<1>15. Requested'
  BY <1>7, <1>9, <1>5 DEF Requested, IsRequest
<1>16. LogOrder'
  BY <1>9, <1>5, <1>10, <1>11, Facts DEF LogOrder, IsRequest, IsClosing, SameTicket, Requests
<1>17. PendingIsOpen'
  BY <1>7, <1>9, <1>5, <1>11 DEF PendingIsOpen, IsClosing, Requests
<1>18. LogCutoffs'
  BY <1>7, <1>9, <1>5, <1>8, <1>11, <1>2 DEF LogCutoffs
<1>19. LogAmounts'
  <2>1. Fits(e, t)
    BY <1>1, <1>5, <1>8 DEF Fits, Requests
  <2>2. \A b \in DOMAIN log : Fits(log'[b], tickets'[log'[b].id])
    BY <1>12, <1>13, OldEventsFit
  <2> QED
    BY <1>5, <1>7, <1>9, <2>1, <2>2 DEF LogAmounts
<1> QED
  BY <1>12, <1>13, <1>14, <1>15, <1>16, <1>17, <1>18, <1>19

LEMMA CancelKeepsBook ==
  ASSUME BookInv, NEW id \in Ids, Cancel(id)
  PROVE  BookInv' /\ Grows
<1> USE DEF BookInv
<1> DEFINE e == Emit("Cancelled", id, 0, 0) L == Len(log) + 1
<1>1. e \in Event /\ e.id = id /\ e.kind = "Cancelled" /\ e.amount = 0 /\ e.cutoff = 0
  BY KindsAre DEF Emit, Event
<1>2. /\ id \in DOMAIN tickets /\ tickets[id].status = "Pending"
      /\ tickets' = [tickets EXCEPT ![id].status = "Cancelled"]
      /\ log' = Append(log, e) /\ now' = now /\ batch' = batch
  BY DEF Cancel, keeperVars
<1> HIDE DEF e
<1>3. /\ tickets' \in Seq(Ticket) /\ DOMAIN tickets' = DOMAIN tickets /\ Len(tickets') = Len(tickets)
      /\ \A i \in DOMAIN tickets : i # id => tickets'[i] = tickets[i]
      /\ tickets'[id] = [tickets[id] EXCEPT !.status = "Cancelled"]
  <2>1. [tickets[id] EXCEPT !.status = "Cancelled"] \in Ticket
    BY <1>2, Facts DEF Ticket
  <2>2. /\ DOMAIN tickets' = DOMAIN tickets /\ tickets'[id] = [tickets[id] EXCEPT !.status = "Cancelled"]
        /\ \A i \in DOMAIN tickets : i # id => tickets'[i] = tickets[i]
        /\ tickets' = [i \in 1..Len(tickets) |-> tickets'[i]]
    BY <1>2, Facts DEF BookTyped
  <2>3. \A i \in 1..Len(tickets) : tickets'[i] \in Ticket
    BY <2>1, <2>2, Facts
  <2> QED
    BY <2>2, <2>3, SequenceOf
<1>4. \A i \in DOMAIN tickets :
        /\ tickets'[i].cutoff = tickets[i].cutoff /\ tickets[i].cutoff \in Nat
        /\ tickets'[i].amount = tickets[i].amount /\ tickets[i].amount \in Nat
        /\ tickets'[i].kind = tickets[i].kind
  BY <1>2, <1>3, Facts DEF Ticket
<1>5. tickets'[id].status = "Cancelled"
  BY <1>2, <1>3, Facts DEF Ticket
<1>6. /\ log' \in Seq(Event) /\ DOMAIN log' = DOMAIN log \cup {L} /\ Len(log') = L
      /\ \A b \in DOMAIN log : log'[b] = log[b] /\ b < L
      /\ log'[L] = e
  BY <1>1, <1>2, OneEvent DEF BookTyped
<1>7. L \in Nat /\ L \notin DOMAIN log
  BY Facts
<1> HIDE DEF L
<1>8. Grows
  BY <1>3, <1>4, <1>6, Facts DEF Grows, Shrinks, L
<1>9. BookTyped'
  BY <1>2, <1>3, <1>6 DEF BookTyped
<1>10. OfTickets'
  BY <1>1, <1>2, <1>3, <1>6 DEF OfTickets
<1>11. Requested'
  BY <1>3, <1>6 DEF Requested, IsRequest
<1>12. LogOrder'
  BY <1>1, <1>2, <1>6, <1>7, Facts DEF LogOrder, PendingIsOpen, IsRequest, IsClosing, SameTicket, Requests
<1>13. PendingIsOpen'
  BY <1>1, <1>2, <1>3, <1>5, <1>6 DEF PendingIsOpen, OfTickets, IsClosing
<1>14. LogCutoffs'
  BY <1>1, <1>2, <1>3, <1>4, <1>6 DEF LogCutoffs, OfTickets
<1>15. LogAmounts'
  <2>1. \A b \in DOMAIN log : Fits(log'[b], tickets'[log'[b].id])
    BY <1>8, <1>9, OldEventsFit
  <2>2. \A u : Fits(e, u)
    BY <1>1 DEF Fits, Requests
  <2> QED
    BY <1>6, <2>1, <2>2 DEF LogAmounts
<1> QED
  BY <1>8, <1>9, <1>10, <1>11, <1>12, <1>13, <1>14, <1>15

(* What a settle makes of one ticket.                                      *)
LEMMA SettledTicket ==
  ASSUME BookTyped, NEW id \in DOMAIN tickets, NEW share \in Shares
  PROVE  /\ Settled(id, share) \in Ticket
         /\ tickets[id].cutoff <= Settled(id, share).cutoff
         /\ Shrinks(tickets[id], Settled(id, share))
         /\ Due(id) /\ Settled(id, share).status # "Settled" => tickets[id].kind = "Create"
         /\ ~Due(id) => Settled(id, share) = tickets[id]
         /\ tickets[id].status # "Pending" => Settled(id, share) = tickets[id]
<1> DEFINE t == tickets[id] left == t.amount - Slice(id, share)
<1>1. t \in Ticket /\ t.amount \in Nat /\ t.cutoff \in Nat /\ now \in Nat /\ CutoffDelay \in Nat
  BY Facts DEF Ticket, BookTyped
<1>2. left \in Nat
  BY <1>1 DEF Slice
<1>3. CASE ~Due(id)
  BY <1>1, <1>3 DEF Settled, Shrinks
<1>4. CASE Due(id)
  <2>1. t.status = "Pending" /\ t.cutoff <= now
    BY <1>1, <1>4 DEF Due
  <2>2. CASE left = 0
    <3>1. Settled(id, share) = [t EXCEPT !.status = "Settled"]
      BY <1>4, <2>2 DEF Settled
    <3> QED
      BY <1>1, <1>4, <2>1, <3>1 DEF Ticket, Shrinks
  <2>3. CASE left # 0
    <3>1. Settled(id, share) = [t EXCEPT !.amount = left, !.cutoff = now + CutoffDelay]
      BY <1>4, <2>3 DEF Settled
    <3>4. t.kind = "Create" /\ left <= t.amount
      BY <1>1, <2>3 DEF Slice, Ticket, Kinds
    <3> HIDE DEF left
    <3>2. now + CutoffDelay \in Nat /\ t.cutoff <= now + CutoffDelay
      BY <1>1, <2>1
    <3>3. /\ Settled(id, share) \in Ticket /\ Settled(id, share).cutoff = now + CutoffDelay
          /\ Settled(id, share).amount = left /\ Settled(id, share).kind = t.kind
      BY <1>1, <1>2, <3>1, <3>2 DEF Ticket
    <3> QED
      BY <1>4, <2>1, <3>2, <3>3, <3>4 DEF Shrinks
  <2> QED
    BY <2>2, <2>3
<1> QED
  BY <1>3, <1>4

(* The events of a settle: one of each ticket it filled.                   *)
EventOf(e, id, share) ==
  /\ e.id = id /\ e.kind \in {"PartialFill", "Settled"} /\ e.cutoff = 0
  /\ e.kind = "Settled" => e.amount = 0 /\ Settled(id, share).status = "Settled"
  /\ Fits(e, Settled(id, share))
AreEventsOf(new, order, share) ==
  /\ DOMAIN new = DOMAIN order
  /\ \A i \in DOMAIN order : order[i] \in DOMAIN tickets /\ Due(order[i]) /\ EventOf(new[i], order[i], share)
  /\ \A i, j \in DOMAIN order : i # j => order[i] # order[j]

LEMMA EventsOfSettle ==
  ASSUME BookTyped, NEW ids \in SUBSET Ids, NEW share \in Shares,
         NEW order \in SetToSeqs(Worked(ids, share))
  PROVE  SettleEvents(order, share) \in Seq(Event) /\ AreEventsOf(SettleEvents(order, share), order, share)
<1> DEFINE W == Worked(ids, share) n == Cardinality(W)
           one(id) == LET t == Settled(id, share)
                      IN  IF t.status = "Settled" THEN Emit("Settled", id, 0, 0)
                          ELSE Emit("PartialFill", id, t.amount, 0)
           new == SettleEvents(order, share)
<1>1. \A id \in W : id \in DOMAIN tickets /\ Due(id)
  BY DEF Worked, Due
<1>2. n \in Nat
  <2>1. IsFiniteSet(Ids)
    BY FS_Interval, SyncAssumption DEF Ids
  <2>2. W \in SUBSET Ids
    BY DEF Worked
  <2> QED
    BY <2>1, <2>2, FS_Subset, FS_CardinalityType
<1>3. order \in [1..n -> W] /\ \A i, j \in 1..n : i # j => order[i] # order[j]
  BY DEF SetToSeqs
<1> HIDE DEF W, n
<1>4. ASSUME NEW id \in W PROVE one(id) \in Event /\ EventOf(one(id), id, share)
  <2>1. /\ Settled(id, share) \in Ticket /\ id \in Ids
        /\ Settled(id, share).status # "Settled" => Settled(id, share).kind = "Create"
    BY <1>1, SettledTicket, Facts DEF Shrinks
  <2>2. Settled(id, share).amount \in Nat
    BY <2>1 DEF Ticket
  <2>3. CASE Settled(id, share).status = "Settled"
    <3>1. one(id) = Emit("Settled", id, 0, 0)
      BY <2>3
    <3>2. one(id) \in Event /\ one(id).kind = "Settled" /\ one(id).id = id /\ one(id).amount = 0
            /\ one(id).cutoff = 0
      BY <2>1, <3>1, KindsAre DEF Emit, Event
    <3> HIDE DEF one
    <3> QED
      BY <2>3, <3>2 DEF EventOf, Fits, Requests
  <2>4. CASE Settled(id, share).status # "Settled"
    <3>1. one(id) = Emit("PartialFill", id, Settled(id, share).amount, 0)
      BY <2>4
    <3>2. one(id) \in Event /\ one(id).kind = "PartialFill" /\ one(id).id = id
            /\ one(id).amount = Settled(id, share).amount /\ one(id).cutoff = 0
      BY <2>1, <2>2, <3>1, KindsAre DEF Emit, Event
    <3> HIDE DEF one
    <3> QED
      BY <2>1, <2>2, <2>4, <3>2 DEF EventOf, Fits, Requests
  <2> QED
    BY <2>3, <2>4
<1>5. DOMAIN order = 1..n /\ \A i \in 1..n : order[i] \in W
  BY <1>3
<1>6. new = [i \in 1..n |-> one(order[i])]
  BY <1>5 DEF SettleEvents
<1> HIDE DEF new, one
<1>7. DOMAIN new = 1..n /\ \A i \in 1..n : new[i] = one(order[i])
  BY <1>6
<1>8. new \in Seq(Event)
  BY <1>2, <1>4, <1>5, <1>6
<1>9. AreEventsOf(new, order, share)
  BY <1>1, <1>3, <1>4, <1>5, <1>7 DEF AreEventsOf
<1> QED
  BY <1>8, <1>9 DEF new

LEMMA SettleKeepsBook ==
  ASSUME BookInv, NEW ids \in SUBSET Ids, NEW share \in Shares, SettleOnChain(ids, share),
         now' = now, batch' \subseteq Ids
  PROVE  BookInv' /\ Grows
<1> USE DEF BookInv
<1>1. PICK order \in SetToSeqs(Worked(ids, share)) : log' = log \o SettleEvents(order, share)
  BY DEF SettleOnChain
<1> DEFINE new == SettleEvents(order, share)
<1>2. new \in Seq(Event) /\ AreEventsOf(new, order, share) /\ log' = log \o new
  BY <1>1, EventsOfSettle
<1> HIDE DEF new
<1>3. tickets' = [id \in DOMAIN tickets |-> IF id \in ids THEN Settled(id, share) ELSE tickets[id]]
  BY DEF SettleOnChain
<1>4. \A id \in DOMAIN tickets :
        /\ tickets[id] \in Ticket /\ Settled(id, share) \in Ticket
        /\ tickets[id].cutoff <= Settled(id, share).cutoff
        /\ Shrinks(tickets[id], Settled(id, share)) /\ Shrinks(tickets[id], tickets[id])
        /\ tickets[id].status # "Pending" => Settled(id, share) = tickets[id]
  <2>1. \A id \in DOMAIN tickets : tickets[id].amount \in Nat
    BY Facts DEF Ticket
  <2> QED
    BY <2>1, SettledTicket, Facts DEF Shrinks
<1>5. /\ DOMAIN tickets' = DOMAIN tickets
      /\ \A id \in DOMAIN tickets :
           /\ tickets'[id] \in Ticket /\ tickets[id].cutoff <= tickets'[id].cutoff
           /\ Shrinks(tickets[id], tickets'[id])
           /\ tickets[id].status # "Pending" => tickets'[id] = tickets[id]
  BY <1>3, <1>4, Facts DEF Ticket
<1>6. ASSUME NEW i \in DOMAIN new
      PROVE  /\ order[i] \in DOMAIN tickets /\ tickets[order[i]].status = "Pending"
             /\ EventOf(new[i], order[i], share)
             /\ tickets'[order[i]] = Settled(order[i], share)
  <2>1. i \in DOMAIN order /\ order[i] \in DOMAIN tickets /\ Due(order[i]) /\ EventOf(new[i], order[i], share)
    BY <1>2 DEF AreEventsOf
  <2>2. order[i] \in ids
    <3>1. order \in [1..Cardinality(Worked(ids, share)) -> Worked(ids, share)]
      BY DEF SetToSeqs
    <3>2. order[i] \in Worked(ids, share)
      BY <2>1, <3>1
    <3> QED
      BY <3>2 DEF Worked
  <2> QED
    BY <1>3, <2>1, <2>2 DEF Due
<1>7. \A i, j \in DOMAIN new : i # j => order[i] # order[j]
  BY <1>2 DEF AreEventsOf
<1>8. /\ log' \in Seq(Event)
      /\ DOMAIN log \subseteq DOMAIN log' /\ Len(log) <= Len(log')
      /\ \A b \in DOMAIN log : log'[b] = log[b]
      /\ \A b \in DOMAIN log' \ DOMAIN log : \E i \in DOMAIN new :
           b = Len(log) + i /\ log'[b] = new[i]
  <2>1. log \in Seq(Event)
    BY DEF BookTyped
  <2> QED
    BY <1>2, <2>1, Appended
<1>9. Grows
  BY <1>5, <1>8 DEF Grows
<1>10. BookTyped'
  <2>1. tickets' = [id \in 1..Len(tickets) |-> tickets'[id]]
    BY <1>3, Facts
  <2>2. tickets' \in Seq(Ticket) /\ Len(tickets') = Len(tickets)
    BY <1>5, <2>1, SequenceOf, Facts
  <2> QED
    BY <1>8, <2>2 DEF BookTyped
(* A new event is of a ticket that was pending, hence open so far.         *)
<1>11. ASSUME NEW b \in DOMAIN log' \ DOMAIN log
       PROVE  /\ log'[b].id \in DOMAIN tickets /\ tickets[log'[b].id].status = "Pending"
              /\ EventOf(log'[b], log'[b].id, share)
              /\ tickets'[log'[b].id] = Settled(log'[b].id, share)
              /\ \A c \in DOMAIN log' \ DOMAIN log : c # b => log'[c].id # log'[b].id
  <2>1. PICK i \in DOMAIN new : b = Len(log) + i /\ log'[b] = new[i]
    BY <1>8
  <2>2. log'[b].id = order[i]
    BY <1>6, <2>1 DEF EventOf
  <2>3. ASSUME NEW c \in DOMAIN log' \ DOMAIN log, c # b PROVE log'[c].id # log'[b].id
    <3>1. PICK j \in DOMAIN new : c = Len(log) + j /\ log'[c] = new[j]
      BY <1>8
    <3>2. i # j /\ log'[c].id = order[j]
      BY <1>6, <2>1, <2>3, <3>1 DEF EventOf
    <3> QED
      BY <1>7, <2>2, <3>2
  <2> QED
    BY <1>6, <2>1, <2>2, <2>3
<1>12. OfTickets'
  BY <1>5, <1>8, <1>11 DEF OfTickets
<1>13. Requested'
  BY <1>5, <1>8 DEF Requested, IsRequest
<1>14. LogOrder'
  <2> SUFFICES ASSUME NEW b \in DOMAIN log', NEW c \in DOMAIN log', log'[b].id = log'[c].id, b < c
               PROVE  log'[b].kind \notin {"Settled", "Cancelled"} /\ log'[c].kind \notin Requests
    BY DEF LogOrder, SameTicket, IsClosing, IsRequest
  <2>1. CASE c \in DOMAIN log
    <3>1. b \in DOMAIN log
      BY <1>8, <2>1, <1>10, Facts DEF BookTyped
    <3> QED
      BY <1>8, <2>1, <3>1 DEF LogOrder, SameTicket, IsClosing, IsRequest
  <2>2. CASE c \notin DOMAIN log
    <3>1. log'[c].kind \in {"PartialFill", "Settled"} /\ tickets[log'[c].id].status = "Pending"
      BY <1>11, <2>2 DEF EventOf
    <3>2. b \in DOMAIN log
      <4>1. b # c
        BY <1>8, <1>10 DEF BookTyped
      <4> QED
        BY <1>11, <2>2, <4>1
    <3> QED
      BY <1>8, <3>1, <3>2 DEF PendingIsOpen, IsClosing, Requests
  <2> QED
    BY <2>1, <2>2
<1>15. PendingIsOpen'
  <2> SUFFICES ASSUME NEW b \in DOMAIN log', log'[b].kind \in {"Settled", "Cancelled"}
               PROVE  log'[b].amount = 0 /\ tickets'[log'[b].id].status # "Pending"
    BY DEF PendingIsOpen, IsClosing
  <2>1. CASE b \in DOMAIN log
    <3>1. log[b].amount = 0 /\ tickets[log[b].id].status # "Pending" /\ log[b].id \in DOMAIN tickets
      BY <1>8, <2>1 DEF PendingIsOpen, IsClosing, OfTickets
    <3> QED
      BY <1>5, <1>8, <2>1, <3>1
  <2>2. CASE b \notin DOMAIN log
    BY <1>11, <2>2 DEF EventOf
  <2> QED
    BY <2>1, <2>2
<1>16. LogCutoffs'
  <2> SUFFICES ASSUME NEW b \in DOMAIN log' PROVE log'[b].cutoff <= tickets'[log'[b].id].cutoff
    BY DEF LogCutoffs
  <2>1. CASE b \in DOMAIN log
    <3>1. log[b].cutoff <= tickets[log[b].id].cutoff /\ log[b].id \in DOMAIN tickets
            /\ log[b].cutoff \in Nat
      BY <2>1, Facts DEF LogCutoffs, OfTickets, Event
    <3>2. tickets[log[b].id].cutoff \in Nat /\ tickets'[log[b].id].cutoff \in Nat
      BY <1>4, <1>5, <3>1 DEF Ticket
    <3> QED
      BY <1>5, <1>8, <2>1, <3>1, <3>2
  <2>2. CASE b \notin DOMAIN log
    BY <1>5, <1>11, <2>2 DEF EventOf, Ticket
  <2> QED
    BY <2>1, <2>2
<1>17. LogAmounts'
  <2>1. \A b \in DOMAIN log : Fits(log'[b], tickets'[log'[b].id])
    BY <1>9, <1>10, OldEventsFit
  <2>2. \A b \in DOMAIN log' \ DOMAIN log : Fits(log'[b], tickets'[log'[b].id])
    BY <1>11 DEF EventOf
  <2> QED
    BY <2>1, <2>2 DEF LogAmounts
<1> QED
  BY <1>9, <1>10, <1>12, <1>13, <1>14, <1>15, <1>16, <1>17

LEMMA SameBook ==
  ASSUME BookInv, tickets' = tickets, log' = log, now' \in Nat, now' <= MaxNow, batch' \subseteq Ids
  PROVE  BookInv' /\ Grows
<1>1. BookTyped' /\ OfTickets' /\ Requested'
  BY DEF BookInv, BookTyped, OfTickets, Requested, IsRequest
<1>2. LogOrder' /\ PendingIsOpen' /\ LogCutoffs'
  BY DEF BookInv, LogOrder, PendingIsOpen, LogCutoffs, IsRequest, IsClosing, SameTicket
<1>3. Grows
  <2>1. BookTyped
    BY DEF BookInv
  <2> QED
    BY <2>1, Facts DEF Grows, Shrinks, Ticket
<1>4. LogAmounts'
  BY DEF BookInv, LogAmounts
<1> QED
  BY <1>1, <1>2, <1>3, <1>4 DEF BookInv

(* Whatever a step does, the log stays in order and only grows.            *)
LEMMA BookStep ==
  ASSUME BookInv, [SyncNext]_syncVars
  PROVE  BookInv' /\ Grows
<1>1. now \in Nat /\ now <= MaxNow /\ batch \subseteq Ids
  BY DEF BookInv, BookTyped
<1>2. ASSUME NEW order \in Orders, Request(order) PROVE BookInv' /\ Grows
  BY <1>2, RequestKeepsBook
<1>3. ASSUME NEW id \in Ids, Cancel(id) PROVE BookInv' /\ Grows
  BY <1>3, CancelKeepsBook
<1>4. ASSUME NEW id \in Ids, NEW share \in Shares, SettleByOther(id, share) PROVE BookInv' /\ Grows
  <2>1. SettleOnChain({id}, share) /\ now' = now /\ batch' = batch /\ {id} \in SUBSET Ids
    BY <1>4 DEF SettleByOther, keeperVars
  <2> QED
    BY <1>1, <2>1, SettleKeepsBook
<1>5. ASSUME NEW share \in Shares, SubmitSettle(share) PROVE BookInv' /\ Grows
  <2>1. SettleOnChain(batch, share) /\ now' = now /\ batch' = {} /\ batch \in SUBSET Ids
    BY <1>1, <1>5 DEF SubmitSettle
  <2> QED
    BY <2>1, SettleKeepsBook
<1>6. CASE Advance
  <2>1. tickets' = tickets /\ log' = log /\ now' = now + 1 /\ now < MaxNow /\ batch' = batch
    BY <1>6 DEF Advance
  <2>2. now' \in Nat /\ now' <= MaxNow
    BY <1>1, <2>1, SyncAssumption
  <2> QED
    BY <1>1, <2>1, <2>2, SameBook
<1>7. CASE UNCHANGED bookVars /\ (batch' \in {batch, {}} \/ \E fee \in FeeRead : batch' = LiveTickets(fee))
  <2>1. batch' \subseteq Ids
    BY <1>1, <1>7 DEF LiveTickets
  <2> QED
    BY <1>1, <1>7, <2>1, SameBook DEF bookVars
<1>8. RowGoesLive \/ ForceRefresh \/ TickStep \/ TickThrows \/ Crash \/ SettleReverts
        \/ (\E fresh \in BOOLEAN : RecordPass(fresh) \/ \E fee \in FeeRead : ReadDueTickets(fresh, fee))
        \/ UNCHANGED syncVars
      => UNCHANGED bookVars /\ (batch' \in {batch, {}} \/ \E fee \in FeeRead : batch' = LiveTickets(fee))
  BY DEF RowGoesLive, ForceRefresh, TickStep, TickHead, TickRefresh, TickFetch, TickApply, TickCommit,
         TickThrows, Crash, SettleReverts, RecordPass, ReadDueTickets, syncVars, keeperVars, bookVars
<1> QED
  BY <1>2, <1>3, <1>4, <1>5, <1>6, <1>7, <1>8 DEF SyncNext

-----------------------------------------------------------------------------
(* The indexer, while others act                                           *)

LEMMA DoneIsOfLog ==
  ASSUME TickTyped, BookTyped
  PROVE  /\ Blocks \subseteq DOMAIN log /\ Done \subseteq Blocks
         /\ \A b \in Blocks : b \in Nat /\ tick.from <= b /\ b <= tick.to
         /\ tick.from \in Nat /\ tick.to \in Nat /\ tick.todo \subseteq TodoRecord
<1>1. tick.from \in Nat /\ tick.to \in Nat /\ tick.todo \subseteq TodoRecord
  BY DEF TickTyped
<1> QED
  BY <1>1, Facts DEF Blocks, Done

LEMMA SameRange ==
  ASSUME TickTyped, BookTyped, BookTyped', Grows, tick' = tick
  PROVE  Blocks' = Blocks /\ InTodo' = InTodo /\ Done' = Done
<1>1. tick.from \in Nat /\ tick.to \in Nat /\ tick.to <= Len(log)
  BY DEF TickTyped
<1>2. DOMAIN log = 1..Len(log) /\ DOMAIN log' = 1..Len(log') /\ Len(log) \in Nat /\ Len(log') \in Nat
        /\ Len(log) <= Len(log')
  BY DEF BookTyped, Grows
<1>3. Blocks' = Blocks
  BY <1>1, <1>2 DEF Blocks
<1> QED
  BY <1>3 DEF InTodo, Done

LEMMA LastIndexedIs ==
  ASSUME Known, checkpoint' = checkpoint
  PROVE  LastIndexed' = LastIndexed
BY SyncAssumption DEF Known, LastIndexed

(* A step of a holder, of a keeper or of the registry.                     *)
LEMMA OutsideKeepsFollow ==
  ASSUME BookInv, FollowInv, BookInv', Grows, UNCHANGED <<dbVars, tick, historyVars, stops>>,
         {live', cached', warm'} \subseteq BOOLEAN
  PROVE  FollowInv'
<1> USE DEF BookInv, FollowInv
<1>1. /\ db' = db /\ eventRows' = eventRows /\ activity' = activity /\ checkpoint' = checkpoint
      /\ tick' = tick /\ covered' = covered /\ replaying' = replaying /\ stops' = stops
  BY DEF dbVars, historyVars
<1>2. Blocks' = Blocks /\ InTodo' = InTodo /\ Done' = Done
  BY <1>1, SameRange
<1>3. Done \subseteq DOMAIN log /\ eventRows \subseteq DOMAIN log /\ covered \subseteq DOMAIN log
        /\ activity \subseteq DOMAIN log /\ Blocks \subseteq DOMAIN log
  BY DoneIsOfLog DEF RowsTyped
<1>4. \A b \in DOMAIN log : log'[b] = log[b]
  BY DEF Grows
<1>5. /\ DOMAIN log \subseteq DOMAIN log' /\ DOMAIN tickets \subseteq DOMAIN tickets'
      /\ Len(log) <= Len(log') /\ Len(log) \in Nat /\ Len(log') \in Nat
  BY DEF Grows, BookTyped
<1>6. \A id \in DOMAIN tickets : tickets[id].cutoff <= tickets'[id].cutoff
        /\ tickets[id].cutoff \in Nat /\ tickets'[id].cutoff \in Nat
  <2>1. \A id \in DOMAIN tickets' : tickets'[id] \in Ticket
    BY DEF BookTyped
  <2>2. \A id \in DOMAIN tickets : tickets[id] \in Ticket
    BY DEF BookTyped
  <2> QED
    BY <1>5, <2>1, <2>2 DEF Grows, Ticket
<1>7. TickTyped'
  <2>1. tick.to \in Nat /\ tick.to <= Len(log)
    BY DEF TickTyped
  <2>2. tick'.to <= Len(log')
    BY <1>1, <1>5, <2>1
  <2>3. {live', cached', warm', replaying'} \subseteq BOOLEAN
    BY <1>1 DEF TickTyped
  <2> QED
    BY <1>1, <2>2, <2>3 DEF TickTyped
<1>8. RowsTyped'
  BY <1>1, <1>3, <1>5 DEF RowsTyped
<1>9. TodoIsOfLog'
  <2>1. ASSUME NEW e \in tick.todo PROVE OfLog(e)'
    <3>1. OfLog(e)
      BY <2>1 DEF TodoIsOfLog
    <3>2. e.block \in DOMAIN log /\ e.id \in DOMAIN tickets
      BY <1>3, <3>1 DEF OfLog, OfTickets
    <3> QED
      BY <1>2, <1>4, <1>6, <3>1, <3>2 DEF OfLog
  <2> QED
    BY <1>1, <2>1 DEF TodoIsOfLog
<1>10. InBlockOrder'
  BY <1>1, <1>2, <1>3, <1>4 DEF InBlockOrder
<1>11. RangeInv'
  <2>1. Known' <=> Known
    BY <1>1 DEF Known
  <2>2. Known => LastIndexed' = LastIndexed
    BY <1>1, LastIndexedIs
  <2> QED
    BY <1>1, <2>1, <2>2 DEF RangeInv
<1>12. NothingTorn'
  BY <1>1, <1>2 DEF NothingTorn
<1>13. RowsHaveEvents'
  <2>1. ASSUME NEW id \in Ids, db[id] # NoTicket
        PROVE  id \in DOMAIN tickets' /\ db[id].cutoff <= tickets'[id].cutoff
    <3>1. id \in DOMAIN tickets /\ db[id].cutoff <= tickets[id].cutoff
      BY <2>1 DEF RowsHaveEvents
    <3>2. db[id].cutoff \in Nat
      BY <2>1 DEF RowsTyped, TicketRow
    <3> QED
      BY <1>5, <1>6, <3>1, <3>2
  <2>2. ASSUME NEW id \in Ids, Closed(id)
        PROVE  \E b \in eventRows : log'[b].id = id /\ log'[b].kind \in {"Settled", "Cancelled"}
    <3>1. \E b \in eventRows : log[b].id = id /\ IsClosing(b)
      BY <2>2 DEF RowsHaveEvents
    <3> QED
      BY <1>3, <1>4, <3>1 DEF IsClosing
  <2> QED
    BY <1>1, <2>1, <2>2 DEF RowsHaveEvents, Closed, IsClosing
<1>14. RequestsStay'
  BY <1>1, <1>3, <1>4 DEF RequestsStay, Holds, IsRequest
<1>15. ReadIsStored'
  BY <1>1, <1>2, <1>3, <1>4 DEF ReadIsStored, Read, SameTicket, IsRequest
<1>16. DoneShown'
  <2>1. \A id \in Ids, m \in Done : LastOf(id, m, Done)' => LastOf(id, m, Done)
    BY <1>2, <1>3, <1>4 DEF LastOf
  <2> QED
    BY <1>1, <1>2, <1>3, <1>4, <2>1 DEF DoneShown, Shows
<1>17. CoveredShown'
  <2>1. ASSUME NEW id \in Ids, NEW m \in covered,
               LastOf(id, m, covered)' /\ NoneOf(id, Done)' /\ NoneOf(id, eventRows \ covered)'
        PROVE  Shows(id, m)'
    <3>1. LastOf(id, m, covered)
      BY <1>1, <1>3, <1>4, <2>1 DEF LastOf
    <3>2. NoneOf(id, Done)
      BY <1>2, <1>3, <1>4, <2>1 DEF NoneOf
    <3>3. NoneOf(id, eventRows \ covered)
      BY <1>1, <1>3, <1>4, <2>1 DEF NoneOf
    <3>4. Shows(id, m)
      BY <3>1, <3>2, <3>3 DEF CoveredShown
    <3> QED
      BY <1>1, <1>3, <1>4, <3>4 DEF Shows
  <2> QED
    BY <1>1, <2>1 DEF CoveredShown
<1>18. RowsCover'
  <2> SUFFICES ASSUME NEW id \in Ids, Open(id) PROVE Covers(db[id], tickets'[id])
    BY <1>1 DEF RowsCover, Open
  <2>1. id \in DOMAIN tickets /\ db[id] # NoTicket
    BY DEF Open, RowsHaveEvents
  <2>2. Covers(db[id], tickets[id]) /\ Shrinks(tickets[id], tickets'[id])
    BY <2>1 DEF RowsCover, Grows
  <2>3. db[id].remaining \in Nat
    BY <2>1 DEF RowsTyped, TicketRow
  <2>4. tickets[id].amount \in Nat /\ tickets'[id].amount \in Nat
    <3>1. \A i \in DOMAIN tickets' : tickets'[i] \in Ticket
      BY DEF BookTyped
    <3> QED
      BY <1>5, <2>1, <3>1, Facts DEF Ticket
  <2> QED
    BY <2>2, <2>3, <2>4 DEF Covers, Shrinks
<1> QED
  BY <1>7, <1>8, <1>9, <1>10, <1>11, <1>12, <1>13, <1>14, <1>15, <1>16, <1>17, <1>18

-----------------------------------------------------------------------------
(* The indexer's steps                                                     *)

(* A range starts past what was covered.                                   *)
LEMMA RangeIsNew ==
  ASSUME BookInv, FollowInv, tick.pc # "idle"
  PROVE  \A c \in covered, b \in Blocks : c < b
<1> SUFFICES ASSUME NEW c \in covered, NEW b \in Blocks PROVE c < b
  OBVIOUS
<1>1. checkpoint # NoCheckpoint /\ c <= checkpoint
  BY DEF FollowInv, RangeInv
<1>2. tick.from = checkpoint + 1
  BY <1>1 DEF FollowInv, RangeInv, Known, LastIndexed
<1>3. b \in Nat /\ tick.from <= b /\ checkpoint \in Nat /\ c \in Nat
  BY <1>1, DoneIsOfLog, Facts DEF FollowInv, BookInv, RowsTyped
<1> QED
  BY <1>1, <1>2, <1>3

LEMMA DoneIsNew ==
  ASSUME BookInv, FollowInv
  PROVE  \A c \in covered, b \in Done : c < b
<1>1. Done # {} => tick.pc # "idle" /\ Done \subseteq Blocks
  BY DEF Done
<1> QED
  BY <1>1, RangeIsNew

(* What a step that only forgets, or starts, a range leaves of the rest.   *)
LEMMA NothingDone ==
  ASSUME BookInv, FollowInv, UNCHANGED <<bookVars, dbVars, covered>>, Done' = {},
         replaying' = FALSE => replaying = FALSE /\ Done = {}, replaying' \in BOOLEAN
  PROVE  /\ RowsTyped' /\ NothingTorn' /\ RowsHaveEvents' /\ RequestsStay' /\ ReadIsStored'
         /\ DoneShown' /\ CoveredShown' /\ InBlockOrder' /\ RowsCover'
<1> USE DEF FollowInv
<1>1. /\ db' = db /\ eventRows' = eventRows /\ activity' = activity /\ checkpoint' = checkpoint
      /\ covered' = covered /\ log' = log /\ tickets' = tickets
  BY DEF dbVars, bookVars
<1>2. RowsTyped'
  BY <1>1 DEF RowsTyped
<1>3. NothingTorn'
  BY <1>1 DEF NothingTorn, TickTyped
<1>4. RowsHaveEvents'
  BY <1>1 DEF RowsHaveEvents, Closed, IsClosing
<1>5. RequestsStay'
  BY <1>1 DEF RequestsStay, Holds, IsRequest
<1>6. ReadIsStored'
  BY <1>1 DEF ReadIsStored, Read, SameTicket, IsRequest
<1>7. DoneShown' /\ InBlockOrder'
  BY <1>1 DEF DoneShown, InBlockOrder
<1>8. CoveredShown'
  <2>1. ASSUME NEW id \in Ids, NEW m \in covered, LastOf(id, m, covered), NoneOf(id, eventRows \ covered)
        PROVE  Shows(id, m)
    <3>1. Done \subseteq eventRows \ covered
      <4>1. Done \subseteq eventRows
        BY DEF ReadIsStored, Read
      <4>2. ASSUME NEW c \in covered, c \in Done PROVE FALSE
        <5>1. c < c /\ c \in Nat
          BY <4>2, DoneIsNew, DoneIsOfLog, Facts DEF BookInv, RowsTyped
        <5> QED
          BY <5>1
      <4> QED
        BY <4>1, <4>2
    <3>2. NoneOf(id, Done)
      BY <2>1, <3>1 DEF NoneOf
    <3> QED
      BY <2>1, <3>2 DEF CoveredShown
  <2>2. \A id \in Ids, m \in covered :
          /\ LastOf(id, m, covered)' <=> LastOf(id, m, covered)
          /\ NoneOf(id, eventRows \ covered)' <=> NoneOf(id, eventRows \ covered)
          /\ Shows(id, m)' <=> Shows(id, m)
    BY <1>1 DEF LastOf, NoneOf, Shows
  <2> QED
    BY <1>1, <2>1, <2>2 DEF CoveredShown
<1>9. RowsCover'
  BY <1>1 DEF RowsCover, Open
<1> QED
  BY <1>2, <1>3, <1>4, <1>5, <1>6, <1>7, <1>8, <1>9

LEMMA HeadKeepsFollow ==
  ASSUME BookInv, FollowInv, TickHead
  PROVE  FollowInv'
<1> USE DEF BookInv
<1>1. /\ tick.pc = "idle" /\ Len(log) > LastIndexed
      /\ tick' = [NoTick EXCEPT !.pc = "refresh", !.from = LastIndexed + 1, !.to = RangeEnd(Len(log))]
      /\ UNCHANGED <<bookVars, live, cached, dbVars, warm, historyVars, stops>>
  BY DEF TickHead, keeperVars
<1>2. /\ tick'.pc = "refresh" /\ tick'.from = LastIndexed + 1 /\ tick'.to = RangeEnd(Len(log))
      /\ tick'.todo = {} /\ tick'.known = FALSE
      /\ DOMAIN tick' = {"pc", "from", "to", "known", "todo"}
  BY <1>1 DEF NoTick
<1>3. LastIndexed \in Int /\ LastIndexed >= -1 /\ Len(log) \in Nat /\ MaxRange \in Nat
        /\ LastIndexed <= Len(log) - 1
  <2>1. checkpoint # NoCheckpoint => checkpoint \in Nat
    BY Facts DEF FollowInv, RowsTyped
  <2>2. LastIndexed \in Int /\ LastIndexed >= -1 /\ Len(log) \in Nat /\ MaxRange \in Nat
    BY <2>1, SyncAssumption, Facts DEF LastIndexed
  <2> QED
    BY <1>1, <2>2
<1>4. /\ RangeEnd(Len(log)) \in Nat /\ RangeEnd(Len(log)) <= Len(log)
      /\ RangeEnd(Len(log)) <= LastIndexed + 1 + MaxRange
      /\ RangeEnd(Len(log)) \in {Len(log), LastIndexed + 1 + MaxRange}
  BY <1>3 DEF RangeEnd
<1>5. Done' = {}
  BY <1>2 DEF Done
<1>6. Done = {} /\ tick.todo = {}
  BY <1>1 DEF Done, FollowInv, TodoIsOfLog
<1>7. RowsTyped' /\ NothingTorn' /\ RowsHaveEvents' /\ RequestsStay' /\ ReadIsStored'
        /\ DoneShown' /\ CoveredShown' /\ InBlockOrder' /\ RowsCover'
  <2>1. replaying' = replaying /\ replaying \in BOOLEAN
    BY <1>1 DEF historyVars, FollowInv, TickTyped
  <2> QED
    BY <1>1, <1>5, <1>6, <2>1, NothingDone DEF historyVars
<1>8. TickTyped'
  <2>1. tick' \in [pc : {"idle", "refresh", "install", "apply"}, from : Nat, to : Nat,
                   known : BOOLEAN, todo : SUBSET TodoRecord]
    <3>1. tick' = [pc |-> "refresh", from |-> LastIndexed + 1, to |-> RangeEnd(Len(log)),
                   known |-> FALSE, todo |-> {}]
      BY <1>1 DEF NoTick
    <3>2. LastIndexed + 1 \in Nat
      BY <1>3
    <3> QED
      BY <1>4, <3>1, <3>2
  <2> QED
    BY <1>1, <1>2, <1>4, <2>1 DEF FollowInv, TickTyped, bookVars, historyVars
<1>9. TodoIsOfLog'
  BY <1>2 DEF TodoIsOfLog
<1>10. RangeInv'
  <2>1. checkpoint' = checkpoint /\ eventRows' = eventRows /\ covered' = covered /\ log' = log
    BY <1>1 DEF dbVars, historyVars, bookVars
  <2>2. LastIndexed' = LastIndexed /\ (Known' <=> Known)
    BY <2>1 DEF LastIndexed, Known
  <2>3. ASSUME NEW b \in eventRows PROVE b <= RangeEnd(Len(log))
    <3>1. b \in Nat /\ b <= Len(log)
      BY Facts DEF FollowInv, RowsTyped
    <3>2. CASE Known
      <4>1. b <= LastIndexed + 1 + MaxRange
        BY <3>2 DEF FollowInv, RangeInv
      <4> QED
        BY <1>4, <3>1, <4>1
    <3>3. CASE ~Known
      <4>1. LastIndexed = Len(log) - 1
        BY <3>3, SyncAssumption DEF Known, LastIndexed
      <4>2. RangeEnd(Len(log)) = Len(log)
        BY <1>3, <4>1 DEF RangeEnd
      <4> QED
        BY <3>1, <4>2
    <3> QED
      BY <3>2, <3>3
  <2>4. Known => \A b \in eventRows : b <= LastIndexed + 1 + MaxRange
    BY DEF FollowInv, RangeInv
  <2>5. \A b \in covered : checkpoint # NoCheckpoint /\ b <= checkpoint
    BY DEF FollowInv, RangeInv
  <2> QED
    BY <1>2, <1>4, <2>1, <2>2, <2>3, <2>4, <2>5 DEF RangeInv
<1> QED
  BY <1>7, <1>8, <1>9, <1>10 DEF FollowInv

LEMMA RefreshKeepsFollow ==
  ASSUME BookInv, FollowInv, TickRefresh
  PROVE  FollowInv'
<1> USE DEF BookInv
<1>1. /\ tick.pc = "refresh" /\ tick' = [tick EXCEPT !.pc = "install", !.known = live]
      /\ UNCHANGED <<bookVars, live, cached, dbVars, warm, historyVars, stops>>
  BY DEF TickRefresh, keeperVars
<1>2. /\ tick' \in [pc : {"idle", "refresh", "install", "apply"}, from : Nat, to : Nat,
                    known : BOOLEAN, todo : SUBSET TodoRecord]
      /\ tick'.pc = "install" /\ tick'.from = tick.from /\ tick'.to = tick.to /\ tick'.todo = tick.todo
  BY <1>1 DEF FollowInv, TickTyped
<1>3. Done' = {} /\ Done = {} /\ tick.todo = {}
  BY <1>1, <1>2 DEF Done, FollowInv, TodoIsOfLog
<1>4. RowsTyped' /\ NothingTorn' /\ RowsHaveEvents' /\ RequestsStay' /\ ReadIsStored'
        /\ DoneShown' /\ CoveredShown' /\ InBlockOrder' /\ RowsCover'
  <2>1. replaying' = replaying /\ replaying \in BOOLEAN
    BY <1>1 DEF historyVars, FollowInv, TickTyped
  <2> QED
    BY <1>1, <1>3, <2>1, NothingDone DEF historyVars
<1>5. TickTyped'
  BY <1>1, <1>2 DEF FollowInv, TickTyped, bookVars, historyVars
<1>6. TodoIsOfLog'
  BY <1>2, <1>3 DEF TodoIsOfLog
<1>7. RangeInv'
  <2>1. checkpoint' = checkpoint /\ eventRows' = eventRows /\ covered' = covered /\ log' = log
    BY <1>1 DEF dbVars, historyVars, bookVars
  <2> QED
    BY <1>1, <1>2, <2>1 DEF FollowInv, RangeInv, LastIndexed, Known
<1> QED
  BY <1>4, <1>5, <1>6, <1>7 DEF FollowInv

LEMMA StopKeepsFollow ==
  ASSUME BookInv, FollowInv, TickThrows \/ Crash
  PROVE  FollowInv'
<1> USE DEF BookInv
<1>1. /\ tick' = NoTick /\ stops' = stops + 1 /\ stops < MaxStops
      /\ replaying' = (replaying \/ tick.pc = "apply")
      /\ cached' \in {cached, FALSE}
      /\ UNCHANGED <<bookVars, live, dbVars, warm, covered>>
  BY DEF TickThrows, Crash, keeperVars
<1>2. tick'.pc = "idle" /\ tick'.todo = {} /\ tick'.to = 0
  BY <1>1 DEF NoTick
<1>3. Done' = {}
  BY <1>2 DEF Done
<1>4. replaying' \in BOOLEAN /\ (replaying' = FALSE => replaying = FALSE /\ tick.pc # "apply")
  BY <1>1 DEF FollowInv, TickTyped
<1>5. tick.pc # "apply" => Done = {}
  BY DEF Done
<1>6. RowsTyped' /\ NothingTorn' /\ RowsHaveEvents' /\ RequestsStay' /\ ReadIsStored'
        /\ DoneShown' /\ CoveredShown' /\ InBlockOrder' /\ RowsCover'
  BY <1>1, <1>3, <1>4, <1>5, NothingDone
<1>7. TickTyped'
  <2>1. stops' \in 0..MaxStops
    BY <1>1, SyncAssumption DEF FollowInv, TickTyped
  <2>2. tick' \in [pc : {"idle", "refresh", "install", "apply"}, from : Nat, to : Nat,
                   known : BOOLEAN, todo : SUBSET TodoRecord]
    BY <1>1 DEF NoTick
  <2>3. tick'.to <= Len(log')
    BY <1>1, <1>2, Facts DEF bookVars
  <2>4. {live', cached', warm', replaying'} \subseteq BOOLEAN
    BY <1>1, <1>4 DEF FollowInv, TickTyped
  <2> QED
    BY <2>1, <2>2, <2>3, <2>4 DEF TickTyped
<1>8. TodoIsOfLog'
  BY <1>2 DEF TodoIsOfLog
<1>9. RangeInv'
  <2>1. checkpoint' = checkpoint /\ eventRows' = eventRows /\ covered' = covered /\ log' = log
    BY <1>1 DEF dbVars, bookVars
  <2> QED
    BY <1>1, <1>2, <2>1 DEF FollowInv, RangeInv, LastIndexed, Known
<1> QED
  BY <1>6, <1>7, <1>8, <1>9 DEF FollowInv

(* What is fetched is what the log has, and no later cutoff than now's.    *)
LEMMA FetchedOfLog ==
  ASSUME BookInv, FollowInv, NEW read \in BOOLEAN
  PROVE  /\ Fetched(Blocks, read) \subseteq TodoRecord
         /\ \A e \in Fetched(Blocks, read) : OfLog(e)
         /\ \A e, f \in Fetched(Blocks, read) : e.block = f.block => e = f
         /\ {e.block : e \in Fetched(Blocks, read)} = Blocks
<1> USE DEF BookInv, FollowInv
<1> DEFINE cut(b) == IF log[b].kind = "PartialFill" THEN CutoffNow(log[b].id, read) ELSE log[b].cutoff
           rec(b) == [block |-> b, kind |-> log[b].kind, id |-> log[b].id, amount |-> log[b].amount,
                      cutoff |-> cut(b)]
<1>1. Fetched(Blocks, read) = {rec(b) : b \in Blocks}
  BY DEF Fetched
<1>2. \A b \in Blocks : b \in DOMAIN log /\ b \in Nat /\ log[b] \in Event /\ log[b].id \in DOMAIN tickets
  BY DoneIsOfLog, Facts DEF OfTickets
<1>3. ASSUME NEW b \in Blocks
      PROVE  cut(b) \in Nat /\ cut(b) <= tickets[log[b].id].cutoff
  <2>1. tickets[log[b].id].cutoff \in Nat /\ log[b].cutoff \in Nat
          /\ log[b].cutoff <= tickets[log[b].id].cutoff
    BY <1>2, Facts DEF Ticket, Event, LogCutoffs
  <2>2. CutoffNow(log[b].id, read) \in Nat /\ CutoffNow(log[b].id, read) <= tickets[log[b].id].cutoff
    BY <2>1 DEF CutoffNow
  <2> QED
    BY <2>1, <2>2
<1> HIDE DEF cut
<1>4. ASSUME NEW b \in Blocks
      PROVE  rec(b) \in TodoRecord /\ OfLog(rec(b)) /\ rec(b).block = b
  <2>1. log[b].kind \in Range(EventKinds) /\ log[b].id \in Ids /\ log[b].amount \in Nat
    BY <1>2 DEF Event
  <2>2. rec(b) \in TodoRecord
    BY <1>2, <1>3, <2>1 DEF TodoRecord
  <2>3. OfLog(rec(b))
    BY <1>3 DEF OfLog
  <2> QED
    BY <2>2, <2>3
<1> HIDE DEF rec
<1> QED
  BY <1>1, <1>4

LEMMA FetchKeepsFollow ==
  ASSUME BookInv, FollowInv, NEW read \in BOOLEAN, TickFetch(read)
  PROVE  FollowInv'
<1> USE DEF BookInv
<1> DEFINE todo == IF cached' THEN Fetched(Blocks, read) ELSE {}
<1>1. /\ tick.pc \in {"refresh", "install"}
      /\ cached' = IF tick.pc = "install" THEN tick.known ELSE cached
      /\ tick' = [tick EXCEPT !.pc = "apply", !.known = cached', !.todo = todo]
      /\ UNCHANGED <<bookVars, live, dbVars, warm, historyVars, stops>>
  BY DEF TickFetch, keeperVars
<1>2. cached' \in BOOLEAN
  BY <1>1 DEF FollowInv, TickTyped
<1>3. todo \subseteq TodoRecord
  BY FetchedOfLog
<1>4. (cached' => todo = Fetched(Blocks, read)) /\ (~cached' => todo = {})
  OBVIOUS
<1> HIDE DEF todo
<1>5. /\ tick' \in [pc : {"idle", "refresh", "install", "apply"}, from : Nat, to : Nat,
                    known : BOOLEAN, todo : SUBSET TodoRecord]
      /\ tick'.pc = "apply" /\ tick'.from = tick.from /\ tick'.to = tick.to
      /\ tick'.todo = todo /\ tick'.known = cached'
  BY <1>1, <1>2, <1>3 DEF FollowInv, TickTyped
<1>6. Blocks' = Blocks
  BY <1>1, <1>5 DEF Blocks, bookVars
<1>7. Done' = {}
  <2>1. CASE cached'
    <3>1. InTodo' = Blocks
      BY <1>4, <1>5, <2>1, FetchedOfLog DEF InTodo
    <3> QED
      BY <1>6, <3>1 DEF Done
  <2>2. CASE ~cached'
    BY <1>5, <2>2 DEF Done
  <2> QED
    BY <2>1, <2>2
<1>8. Done = {}
  BY <1>1 DEF Done
<1>9. RowsTyped' /\ NothingTorn' /\ RowsHaveEvents' /\ RequestsStay' /\ ReadIsStored'
        /\ DoneShown' /\ CoveredShown' /\ InBlockOrder' /\ RowsCover'
  <2>1. replaying' = replaying /\ replaying \in BOOLEAN
    BY <1>1 DEF historyVars, FollowInv, TickTyped
  <2> QED
    BY <1>1, <1>7, <1>8, <2>1, NothingDone DEF historyVars
<1>10. TickTyped'
  BY <1>1, <1>2, <1>5 DEF FollowInv, TickTyped, bookVars, historyVars
<1>11. TodoIsOfLog'
  <2>1. \A e \in todo : OfLog(e)
    BY <1>4, FetchedOfLog
  <2>2. \A e \in todo : OfLog(e)'
    BY <1>1, <1>6, <2>1 DEF OfLog, bookVars
  <2>3. \A e, f \in todo : e.block = f.block => e = f
    BY <1>4, FetchedOfLog
  <2> QED
    BY <1>4, <1>5, <2>2, <2>3 DEF TodoIsOfLog
<1>12. RangeInv'
  <2>1. checkpoint' = checkpoint /\ eventRows' = eventRows /\ covered' = covered /\ log' = log
    BY <1>1 DEF dbVars, historyVars, bookVars
  <2> QED
    BY <1>1, <1>5, <2>1 DEF FollowInv, RangeInv, LastIndexed, Known
<1> QED
  BY <1>9, <1>10, <1>11, <1>12 DEF FollowInv

(* Of one ticket, the event applied next is the first of those left: its   *)
(* request ranks below a fill, and a fill below what closes it.            *)
LEMMA NextIsFirst ==
  ASSUME BookInv, FollowInv, NEW e \in tick.todo, \A f \in tick.todo \ {e} : ByKind(e, f),
         NEW f \in tick.todo, f # e, f.id = e.id
  PROVE  e.block < f.block
<1> USE DEF BookInv
<1>1. OfLog(e) /\ OfLog(f) /\ e.block # f.block
  BY DEF FollowInv, TodoIsOfLog
<1>2. e.block \in DOMAIN log /\ f.block \in DOMAIN log /\ e.block \in Nat /\ f.block \in Nat
  BY <1>1, DoneIsOfLog DEF OfLog, FollowInv
<1>3. e.kind = log[e.block].kind /\ f.kind = log[f.block].kind /\ log[e.block].id = log[f.block].id
  BY <1>1 DEF OfLog
<1>4. ByKind(e, f)
  OBVIOUS
<1>5. SUFFICES ASSUME f.block < e.block PROVE FALSE
  BY <1>1, <1>2
<1>6. ~IsClosing(f.block) /\ ~IsRequest(e.block)
  BY <1>2, <1>3, <1>5 DEF LogOrder, SameTicket
<1>7. log[e.block] \in Event /\ log[f.block] \in Event
  BY <1>2, Facts
<1>8. e.kind \in {"PartialFill", "Settled", "Cancelled"}
        /\ f.kind \in {"CreateRequested", "RedeemRequested", "PartialFill"}
  BY <1>3, <1>6, <1>7, KindsAre DEF Event, IsClosing, IsRequest, Requests
<1>9. Rank(e.kind) \in 3..5 /\ Rank(f.kind) \in 1..3
  BY <1>8, Ranks
<1>10. Rank(e.kind) >= Rank(f.kind)
  BY <1>9
<1> QED
  BY <1>2, <1>4, <1>5, <1>9, <1>10 DEF ByKind

(* What a row becomes.                                                     *)
LEMMA RowAfterIs ==
  ASSUME NEW row \in TicketRow \cup {NoTicket}, NEW e \in TodoRecord
  PROVE  LET next == RowAfter(row, e) IN
         /\ next \in TicketRow /\ next # NoTicket
         /\ next.status = RowStatus(e.kind) /\ next.cutoff = e.cutoff
         /\ next.remaining = IF e.kind \in {"Settled", "Cancelled"} THEN 0 ELSE e.amount
         /\ e.kind \in Requests =>
              next.owned /\ next.kind = RowKind(e.kind) /\ next.amount = e.amount
         /\ e.kind \notin Requests /\ row # NoTicket =>
              next.owned = row.owned /\ next.kind = row.kind /\ next.amount = row.amount
<1> DEFINE next == RowAfter(row, e)
           left == IF e.kind \in {"Settled", "Cancelled"} THEN 0 ELSE e.amount
<1>1. e.kind \in {"CreateRequested", "RedeemRequested", "PartialFill", "Settled", "Cancelled"}
        /\ e.amount \in Nat /\ e.cutoff \in Nat
  BY KindsAre DEF TodoRecord
<1>2. RowStatus(e.kind) \in {"Pending", "Partial", "Settled", "Cancelled"} /\ left \in Nat
  BY <1>1 DEF RowStatus, Requests
<1>3. NoTicket \notin TicketRow
  BY SyncAssumption
<1>4. CASE e.kind \in Requests \/ row = NoTicket
  <2> DEFINE new == [status |-> RowStatus(e.kind), owned |-> e.kind \in Requests, remaining |-> left,
                     cutoff |-> e.cutoff, kind |-> RowKind(e.kind),
                     amount |-> IF e.kind \in Requests THEN e.amount ELSE 0]
  <2>1. next = new
    BY <1>4 DEF RowAfter, RowKind
  <2>2. (e.kind \in Requests) \in BOOLEAN /\ RowKind(e.kind) \in Kinds
          /\ (IF e.kind \in Requests THEN e.amount ELSE 0) \in Nat
    BY <1>1 DEF RowKind, Kinds
  <2> HIDE DEF left
  <2>3. new \in TicketRow
    BY <1>1, <1>2, <2>2 DEF TicketRow
  <2>4. new.status = RowStatus(e.kind) /\ new.cutoff = e.cutoff /\ new.remaining = left
          /\ new.kind = RowKind(e.kind) /\ (new.owned <=> e.kind \in Requests)
          /\ (e.kind \in Requests => new.amount = e.amount)
    OBVIOUS
  <2> HIDE DEF new, next
  <2>5. new # NoTicket
    BY <1>3, <2>3
  <2> QED
    BY <1>4, <2>1, <2>3, <2>4, <2>5 DEF left, next
<1>5. CASE ~(e.kind \in Requests \/ row = NoTicket)
  <2> DEFINE new == [row EXCEPT !.status = RowStatus(e.kind), !.remaining = left, !.cutoff = e.cutoff]
  <2>1. next = new
    BY <1>5 DEF RowAfter
  <2>2. row \in TicketRow
    BY <1>5
  <2> HIDE DEF left
  <2>3. new \in TicketRow /\ new.status = RowStatus(e.kind) /\ new.remaining = left
          /\ new.cutoff = e.cutoff
    BY <1>1, <1>2, <2>2 DEF TicketRow
  <2>4. new.owned = row.owned /\ new.kind = row.kind /\ new.amount = row.amount
    BY <2>2 DEF TicketRow
  <2> HIDE DEF new, next
  <2>5. new # NoTicket
    BY <1>3, <2>3
  <2> QED
    BY <1>5, <2>1, <2>3, <2>4, <2>5 DEF left, next
<1> QED
  BY <1>4, <1>5

LEMMA ApplyKeepsFollow ==
  ASSUME BookInv, FollowInv, TickApply
  PROVE  FollowInv'
<1> USE DEF BookInv
<1>1. PICK e \in tick.todo :
        /\ \A f \in tick.todo \ {e} : ByKind(e, f)
        /\ db' = [db EXCEPT ![e.id] = RowAfter(db[e.id], e)]
        /\ eventRows' = eventRows \cup {e.block}
        /\ activity' = IF RowAfter(db[e.id], e).owned THEN activity \cup {e.block} ELSE activity
        /\ tick' = [tick EXCEPT !.todo = @ \ {e}]
  BY DEF TickApply
<1> DEFINE n == e.block id == e.id row == RowAfter(db[e.id], e)
<1>2. /\ UNCHANGED <<bookVars, live, cached, checkpoint, warm, historyVars, stops>>
      /\ tick.pc = "apply" /\ tick.known
  BY DEF TickApply, keeperVars, FollowInv, TodoIsOfLog
<1>3. /\ log' = log /\ tickets' = tickets /\ checkpoint' = checkpoint /\ covered' = covered
      /\ replaying' = replaying
  BY <1>2 DEF bookVars, historyVars
<1>4. OfLog(e) /\ e \in TodoRecord /\ id \in Ids
  BY DoneIsOfLog DEF FollowInv, TodoIsOfLog, TodoRecord
<1>5. /\ n \in Blocks /\ n \in DOMAIN log /\ n \in Nat /\ n <= tick.to /\ id \in DOMAIN tickets
      /\ log[n].id = id /\ log[n].kind = e.kind /\ log[n].amount = e.amount
      /\ e.cutoff <= tickets[id].cutoff
  BY <1>4, DoneIsOfLog DEF OfLog, FollowInv, OfTickets
<1>6. db \in [Ids -> TicketRow \cup {NoTicket}] /\ db[id] \in TicketRow \cup {NoTicket}
  BY <1>4 DEF FollowInv, RowsTyped
<1>7. /\ db' \in [Ids -> TicketRow \cup {NoTicket}] /\ db'[id] = row /\ row \in TicketRow
      /\ \A i \in Ids : i # id => db'[i] = db[i]
      /\ row # NoTicket
  BY <1>1, <1>4, <1>6, RowAfterIs
<1>8. /\ row.status = RowStatus(e.kind) /\ row.cutoff = e.cutoff
      /\ row.remaining = IF e.kind \in {"Settled", "Cancelled"} THEN 0 ELSE e.amount
      /\ e.kind \in Requests => row.owned /\ row.kind = RowKind(e.kind) /\ row.amount = e.amount
      /\ e.kind \notin Requests /\ db[id] # NoTicket =>
           row.owned = db[id].owned /\ row.kind = db[id].kind /\ row.amount = db[id].amount
  <2> DEFINE old == db[e.id]
  <2>1. old \in TicketRow \cup {NoTicket} /\ e \in TodoRecord
    BY <1>4, <1>6
  <2> HIDE DEF old
  <2>2. /\ RowAfter(old, e).status = RowStatus(e.kind) /\ RowAfter(old, e).cutoff = e.cutoff
        /\ RowAfter(old, e).remaining = IF e.kind \in {"Settled", "Cancelled"} THEN 0 ELSE e.amount
        /\ e.kind \in Requests =>
             /\ RowAfter(old, e).owned /\ RowAfter(old, e).kind = RowKind(e.kind)
             /\ RowAfter(old, e).amount = e.amount
        /\ e.kind \notin Requests /\ old # NoTicket =>
             /\ RowAfter(old, e).owned = old.owned /\ RowAfter(old, e).kind = old.kind
             /\ RowAfter(old, e).amount = old.amount
    BY <2>1, RowAfterIs
  <2> QED
    BY <2>2, Zenon DEF old
<1>9. eventRows' = eventRows \cup {n} /\ activity' = IF row.owned THEN activity \cup {n} ELSE activity
  BY <1>1
<1>10. /\ tick' \in [pc : {"idle", "refresh", "install", "apply"}, from : Nat, to : Nat,
                     known : BOOLEAN, todo : SUBSET TodoRecord]
       /\ tick'.pc = "apply" /\ tick'.known = tick.known
       /\ tick'.from = tick.from /\ tick'.to = tick.to /\ tick'.todo = tick.todo \ {e}
  <2>1. tick.todo \ {e} \in SUBSET TodoRecord
    BY DEF FollowInv, TickTyped
  <2>2. /\ tick'.pc = tick.pc /\ tick'.known = tick.known /\ tick'.from = tick.from /\ tick'.to = tick.to
        /\ tick'.todo = tick.todo \ {e}
    BY <1>1 DEF FollowInv, TickTyped
  <2>3. tick' \in [pc : {"idle", "refresh", "install", "apply"}, from : Nat, to : Nat,
                   known : BOOLEAN, todo : SUBSET TodoRecord]
    BY <1>1, <2>1 DEF FollowInv, TickTyped
  <2> QED
    BY <1>2, <2>2, <2>3
<1>11. InTodo' = InTodo \ {n} /\ n \in InTodo
  <2>1. \A f \in tick.todo : f.block = n => f = e
    BY DEF FollowInv, TodoIsOfLog
  <2> QED
    BY <1>10, <2>1 DEF InTodo
<1>12. Blocks' = Blocks
  BY <1>3, <1>10 DEF Blocks
<1>13. Done' = Done \cup {n} /\ n \notin Done /\ Done \subseteq DOMAIN log
  <2>1. Done = Blocks \ InTodo /\ Done' = Blocks \ (InTodo \ {n})
    BY <1>2, <1>10, <1>11, <1>12 DEF Done
  <2> QED
    BY <1>5, <1>11, <2>1, DoneIsOfLog DEF FollowInv
<1>14. \A b \in Done : b \in Nat /\ (log[b].id = id => b < n)
  BY <1>13, Facts DEF FollowInv, InBlockOrder
<1>15. \A c \in covered : c \in Nat /\ c < n
  BY <1>2, <1>5, RangeIsNew, Facts DEF FollowInv, RowsTyped
<1>16. \A f \in tick.todo : f # e /\ f.id = id => n < f.block
  BY <1>1, NextIsFirst
<1> HIDE DEF n, id, row
<1>17. TickTyped'
  BY <1>2, <1>3, <1>10 DEF FollowInv, TickTyped
<1>18. RowsTyped'
  BY <1>3, <1>5, <1>7, <1>9 DEF FollowInv, RowsTyped
<1>19. TodoIsOfLog'
  <2>1. \A f \in tick'.todo : f \in tick.todo /\ OfLog(f)
    BY <1>10 DEF FollowInv, TodoIsOfLog
  <2>2. \A f \in tick'.todo : OfLog(f)'
    BY <1>3, <1>12, <2>1 DEF OfLog
  <2> QED
    BY <1>2, <1>10, <2>1, <2>2 DEF FollowInv, TodoIsOfLog
<1>20. InBlockOrder'
  <2> SUFFICES ASSUME NEW b \in Done', NEW f \in tick'.todo, log[b].id = f.id PROVE b < f.block
    BY <1>3 DEF InBlockOrder
  <2>1. f \in tick.todo /\ f # e
    BY <1>10
  <2>2. CASE b = n
    BY <1>5, <1>16, <2>1, <2>2
  <2>3. CASE b # n
    BY <1>13, <2>1, <2>3 DEF FollowInv, InBlockOrder
  <2> QED
    BY <2>2, <2>3
<1>21. RangeInv'
  <2>1. Known /\ tick.pc # "idle" => n <= LastIndexed + 1 + MaxRange
    <3>1. SUFFICES ASSUME Known PROVE n <= LastIndexed + 1 + MaxRange
      OBVIOUS
    <3>2. tick.to <= LastIndexed + 1 + MaxRange /\ tick.to \in Nat
      BY <1>2, <3>1, DoneIsOfLog DEF FollowInv, RangeInv
    <3>3. LastIndexed + 1 + MaxRange \in Int
      <4>1. LastIndexed \in Int
        BY <3>1, SyncAssumption, Facts DEF FollowInv, RowsTyped, LastIndexed
      <4> QED
        BY <4>1, SyncAssumption
    <3> QED
      BY <1>5, <3>2, <3>3
  <2>2. LastIndexed' = LastIndexed /\ (Known' <=> Known)
    BY <1>3 DEF LastIndexed, Known
  <2>3. tick.pc # "idle"
    BY <1>2
  <2>4. \A b \in eventRows' : b <= tick.to
    BY <1>5, <1>9, <2>3 DEF FollowInv, RangeInv
  <2>5. Known => \A b \in eventRows' : b <= LastIndexed + 1 + MaxRange
    BY <1>9, <2>1, <2>3 DEF FollowInv, RangeInv
  <2>6. Known => tick.from = LastIndexed + 1 /\ tick.to <= LastIndexed + 1 + MaxRange
    BY <2>3 DEF FollowInv, RangeInv
  <2>7. \A b \in covered : checkpoint # NoCheckpoint /\ b <= checkpoint
    BY DEF FollowInv, RangeInv
  <2> QED
    BY <1>3, <1>10, <2>2, <2>4, <2>5, <2>6, <2>7 DEF RangeInv
<1>22. NothingTorn'
  BY <1>3, <1>9, <1>13 DEF FollowInv, NothingTorn
<1>23. RowsHaveEvents'
  <2>1. ASSUME NEW i \in Ids, db'[i] # NoTicket
        PROVE  i \in DOMAIN tickets /\ db'[i].cutoff <= tickets[i].cutoff
    <3>1. CASE i = id
      BY <1>5, <1>7, <1>8, <3>1
    <3>2. CASE i # id
      BY <1>7, <2>1, <3>2 DEF FollowInv, RowsHaveEvents
    <3> QED
      BY <3>1, <3>2
  <2>2. ASSUME NEW i \in Ids, db'[i] # NoTicket, db'[i].status \in {"Settled", "Cancelled"}
        PROVE  \E b \in eventRows' : log[b].id = i /\ log[b].kind \in {"Settled", "Cancelled"}
    <3>1. CASE i = id
      <4>1. RowStatus(e.kind) \in {"Settled", "Cancelled"}
        BY <1>7, <1>8, <2>2, <3>1
      <4>2. e.kind \in {"Settled", "Cancelled"}
        BY <4>1, <1>4, KindsAre DEF RowStatus, TodoRecord, Requests
      <4> QED
        BY <1>5, <1>9, <3>1, <4>2
    <3>2. CASE i # id
      <4>1. Closed(i)
        BY <1>7, <2>2, <3>2 DEF Closed
      <4>2. \E b \in eventRows : log[b].id = i /\ IsClosing(b)
        BY <4>1 DEF FollowInv, RowsHaveEvents
      <4> QED
        BY <1>9, <4>2 DEF IsClosing
    <3> QED
      BY <3>1, <3>2
  <2> QED
    BY <1>3, <2>1, <2>2 DEF RowsHaveEvents, Closed, IsClosing
<1>24. RequestsStay'
  <2> SUFFICES ASSUME NEW b \in eventRows', log[b].kind \in Requests
               PROVE  LET r == db'[log[b].id] IN
                      r # NoTicket /\ r.owned /\ r.kind = RowKind(log[b].kind) /\ r.amount = log[b].amount
    BY <1>3 DEF RequestsStay, Holds, IsRequest
  <2>0. b \in DOMAIN log /\ log[b].id \in Ids
    BY <1>5, <1>9, Facts DEF FollowInv, RowsTyped, OfTickets
  <2>1. CASE b = n
    BY <1>5, <1>7, <1>8, <2>1
  <2>2. CASE b # n /\ log[b].id = id
    <3>1. Holds(id, b)
      BY <1>9, <2>2 DEF FollowInv, RequestsStay, IsRequest
    <3>2. ~IsRequest(n)
      <4>1. b < n \/ n < b
        BY <1>5, <2>0, <2>2, Facts
      <4> QED
        BY <1>5, <2>0, <2>2, <4>1 DEF LogOrder, IsRequest, SameTicket
    <3>3. e.kind \notin Requests
      BY <1>5, <3>2 DEF IsRequest
    <3> QED
      BY <1>7, <1>8, <2>2, <3>1, <3>3 DEF Holds
  <2>3. CASE b # n /\ log[b].id # id
    <3>1. Holds(log[b].id, b)
      BY <1>9, <2>3 DEF FollowInv, RequestsStay, IsRequest
    <3> QED
      BY <1>7, <2>0, <2>3, <3>1 DEF Holds
  <2> QED
    BY <2>1, <2>2, <2>3
<1>25. ReadIsStored'
  <2>1. Read' = Read \cup {n}
    BY <1>3, <1>13 DEF Read
  <2>2. Read' \subseteq eventRows'
    BY <1>9, <2>1 DEF FollowInv, ReadIsStored
  <2>3. ASSUME NEW b \in Read', NEW r \in Read', log[b].id = log[r].id, r <= b, log[r].kind \in Requests
        PROVE  b \in activity'
    <3>1. CASE b # n
      <4>1. b \in Read
        BY <2>1, <3>1
      <4>2. r # n
        <5>1. SUFFICES ASSUME r = n PROVE FALSE
          OBVIOUS
        <5>2. b < n /\ b \in Nat
          BY <1>5, <1>14, <1>15, <2>3, <4>1, <5>1 DEF Read
        <5> QED
          BY <1>5, <2>3, <5>1, <5>2
      <4>3. b \in activity
        BY <2>1, <2>3, <4>1, <4>2 DEF FollowInv, ReadIsStored, SameTicket, IsRequest
      <4> QED
        BY <1>9, <4>3
    <3>2. CASE b = n /\ r = n
      <4>1. row.owned
        BY <1>5, <1>8, <2>3, <3>2
      <4> QED
        BY <1>9, <3>2, <4>1
    <3>3. CASE b = n /\ r # n
      <4>1. r \in eventRows /\ r \in DOMAIN log /\ r \in Nat
        BY <2>1, <3>3, Facts DEF FollowInv, ReadIsStored, RowsTyped
      <4>2. Holds(id, r)
        BY <1>5, <2>3, <3>3, <4>1 DEF FollowInv, RequestsStay, IsRequest
      <4>3. r < n
        BY <1>5, <2>3, <3>3, <4>1
      <4>4. e.kind \notin Requests
        BY <1>5, <2>3, <3>3, <4>1, <4>3 DEF LogOrder, IsRequest, SameTicket
      <4>5. row.owned
        BY <1>8, <4>2, <4>4 DEF Holds
      <4> QED
        BY <1>9, <3>3, <4>5
    <3> QED
      BY <3>1, <3>2, <3>3
  <2> QED
    BY <1>3, <2>2, <2>3 DEF ReadIsStored, SameTicket, IsRequest
<1>26. db'[id] # NoTicket /\ db'[id].status = RowStatus(log[n].kind) /\ db'[id].remaining = log[n].amount
  <2>1. e.kind \in {"Settled", "Cancelled"} => e.amount = 0
    BY <1>5 DEF PendingIsOpen, IsClosing
  <2> QED
    BY <1>5, <1>7, <1>8, <2>1
<1>27. DoneShown'
  <2> SUFFICES ASSUME NEW i \in Ids, NEW m \in Done', LastOf(i, m, Done)'
               PROVE  Shows(i, m)'
    BY DEF DoneShown
  <2>1. log[m].id = i /\ \A b \in Done' : log[b].id = i => b <= m
    BY <1>3 DEF LastOf
  <2>2. CASE i = id
    <3>1. n <= m
      BY <1>5, <1>13, <2>1, <2>2
    <3>2. m = n
      BY <1>5, <1>13, <1>14, <2>1, <2>2, <3>1
    <3> QED
      BY <1>3, <1>26, <2>2, <3>2 DEF Shows
  <2>3. CASE i # id
    <3>1. m \in Done /\ LastOf(i, m, Done)
      BY <1>5, <1>13, <2>1, <2>3 DEF LastOf
    <3>2. Shows(i, m)
      BY <3>1 DEF FollowInv, DoneShown
    <3> QED
      BY <1>3, <1>7, <2>3, <3>2 DEF Shows
  <2> QED
    BY <2>2, <2>3
<1>28. CoveredShown'
  <2> SUFFICES ASSUME NEW i \in Ids, NEW m \in covered, LastOf(i, m, covered)', NoneOf(i, Done)',
                      NoneOf(i, eventRows \ covered)'
               PROVE  Shows(i, m)'
    BY <1>3 DEF CoveredShown
  <2>1. i # id
    BY <1>3, <1>5, <1>13 DEF NoneOf
  <2>2. LastOf(i, m, covered) /\ NoneOf(i, Done) /\ NoneOf(i, eventRows \ covered)
    BY <1>3, <1>9, <1>13 DEF LastOf, NoneOf
  <2>3. Shows(i, m)
    BY <2>2 DEF FollowInv, CoveredShown
  <2> QED
    BY <1>3, <1>7, <2>1, <2>3 DEF Shows
<1>29. RowsCover'
  <2> SUFFICES ASSUME NEW i \in Ids, db'[i] # NoTicket, db'[i].status \in {"Pending", "Partial"}
               PROVE  Covers(db'[i], tickets[i])
    BY <1>3 DEF RowsCover, Open
  <2>1. CASE i # id
    BY <1>7, <2>1 DEF FollowInv, RowsCover, Open
  <2>2. CASE i = id
    <3>1. e.kind \in Requests \cup {"PartialFill"}
      <4>1. RowStatus(e.kind) \in {"Pending", "Partial"}
        BY <1>7, <1>8, <2>2
      <4> QED
        BY <1>4, <4>1, KindsAre DEF RowStatus, TodoRecord, Requests
    <3>2. Fits(log[n], tickets[id])
      BY <1>5 DEF LogAmounts
    <3>3. row.remaining = e.amount /\ tickets[id].amount <= e.amount
      BY <1>5, <1>8, <3>1, <3>2 DEF Fits, Requests
    <3>4. row.kind = "Create" => tickets[id].kind = "Create"
      BY <1>5, <1>8, <3>1, <3>2 DEF Fits
    <3> QED
      BY <1>7, <2>2, <3>3, <3>4 DEF Covers
  <2> QED
    BY <2>1, <2>2
<1> QED
  BY <1>17, <1>18, <1>19, <1>20, <1>21, <1>22, <1>23, <1>24, <1>25, <1>27, <1>28, <1>29 DEF FollowInv

(* When the checkpoint moves, all of a range that was read is done.        *)
LEMMA CommitIs ==
  ASSUME BookInv, FollowInv, TickCommit
  PROVE  /\ tick.pc = "apply" /\ InTodo = {} /\ Done = IF tick.known THEN Blocks ELSE {}
         /\ checkpoint' = tick.to /\ covered' = covered \cup Done /\ replaying' = FALSE
         /\ tick' = NoTick /\ Done' = {}
         /\ log' = log /\ tickets' = tickets /\ db' = db /\ eventRows' = eventRows
         /\ activity' = activity /\ live' = live /\ cached' = cached /\ warm' = warm /\ stops' = stops
<1>1. /\ tick.pc = "apply" /\ tick.todo = {} /\ checkpoint' = tick.to /\ tick' = NoTick
      /\ covered' = IF tick.known THEN covered \cup Blocks ELSE covered
      /\ replaying' = FALSE
      /\ UNCHANGED <<bookVars, live, cached, db, eventRows, activity, keeperVars, stops>>
  BY DEF TickCommit
<1>2. InTodo = {}
  BY <1>1 DEF InTodo
<1>3. Done = IF tick.known THEN Blocks ELSE {}
  BY <1>1, <1>2 DEF Done
<1>4. covered' = covered \cup Done
  BY <1>1, <1>3
<1>5. Done' = {}
  BY <1>1 DEF Done, NoTick
<1> QED
  BY <1>1, <1>2, <1>3, <1>4, <1>5 DEF bookVars, keeperVars

LEMMA CommitKeepsFollow ==
  ASSUME BookInv, FollowInv, TickCommit
  PROVE  FollowInv'
<1> USE DEF BookInv
<1>1. /\ tick.pc = "apply" /\ InTodo = {}
      /\ checkpoint' = tick.to /\ covered' = covered \cup Done /\ replaying' = FALSE
      /\ tick' = NoTick /\ Done' = {}
      /\ log' = log /\ tickets' = tickets /\ db' = db /\ eventRows' = eventRows
      /\ activity' = activity /\ live' = live /\ cached' = cached /\ warm' = warm /\ stops' = stops
  BY CommitIs
<1>2. tick'.pc = "idle" /\ tick'.todo = {} /\ tick'.to = 0
  BY <1>1 DEF NoTick
<1>3. tick.to \in Nat /\ tick.to <= Len(log) /\ Len(log) \in Nat /\ MaxRange \in Nat
  BY SyncAssumption, Facts DEF FollowInv, TickTyped
<1>4. /\ Done \subseteq DOMAIN log /\ \A b \in Done : b \in Nat /\ tick.from <= b /\ b <= tick.to
      /\ \A b \in covered : b \in Nat
  BY DoneIsOfLog, Facts DEF FollowInv, RowsTyped
<1>5. \A c \in covered, b \in Done : c < b
  BY DoneIsNew
<1>6. \A b \in eventRows : b <= tick.to /\ b \in Nat
  BY <1>1, Facts DEF FollowInv, RangeInv, RowsTyped
<1>7. checkpoint' # NoCheckpoint
  BY <1>1, <1>3, SyncAssumption
<1>8. \A c \in covered : c <= tick.to
  BY <1>6 DEF FollowInv, ReadIsStored, Read
<1>9. TickTyped'
  <2>1. tick' \in [pc : {"idle", "refresh", "install", "apply"}, from : Nat, to : Nat,
                   known : BOOLEAN, todo : SUBSET TodoRecord]
    BY <1>1 DEF NoTick
  <2>2. {live', cached', warm', replaying'} \subseteq BOOLEAN /\ stops' \in 0..MaxStops
    BY <1>1 DEF FollowInv, TickTyped
  <2>3. tick'.to <= Len(log')
    BY <1>1, <1>2, <1>3
  <2> QED
    BY <2>1, <2>2, <2>3 DEF TickTyped
<1>10. RowsTyped'
  BY <1>1, <1>3, <1>4 DEF FollowInv, RowsTyped
<1>11. TodoIsOfLog' /\ InBlockOrder' /\ DoneShown'
  BY <1>1, <1>2 DEF TodoIsOfLog, InBlockOrder, DoneShown
<1>12. RangeInv'
  <2>1. LastIndexed' = tick.to
    BY <1>1, <1>7 DEF LastIndexed
  <2>2. \A b \in eventRows : b <= tick.to + 1 + MaxRange
    BY <1>3, <1>6
  <2> QED
    BY <1>1, <1>2, <1>4, <1>7, <1>8, <2>1, <2>2 DEF RangeInv
<1>13. NothingTorn'
  BY <1>1, <1>6, <1>7 DEF NothingTorn
<1>14. RowsHaveEvents' /\ RequestsStay'
  BY <1>1 DEF FollowInv, RowsHaveEvents, RequestsStay, Closed, IsClosing, Holds, IsRequest
<1>15. ReadIsStored'
  <2>1. Read' = Read
    BY <1>1 DEF Read
  <2> QED
    BY <1>1, <2>1 DEF FollowInv, ReadIsStored, SameTicket, IsRequest
<1>16. CoveredShown'
  <2> SUFFICES ASSUME NEW i \in Ids, NEW m \in covered', LastOf(i, m, covered)',
                      NoneOf(i, eventRows \ covered)'
               PROVE  Shows(i, m)'
    BY DEF CoveredShown
  <2>1. log[m].id = i /\ \A b \in covered \cup Done : log[b].id = i => b <= m
    BY <1>1 DEF LastOf
  <2>2. \A b \in eventRows : log[b].id = i => b \in covered \cup Done
    BY <1>1 DEF NoneOf
  <2>3. CASE m \in Done
    <3>1. LastOf(i, m, Done)
      BY <2>1, <2>3 DEF LastOf
    <3>2. Shows(i, m)
      BY <2>3, <3>1 DEF FollowInv, DoneShown
    <3> QED
      BY <1>1, <3>2 DEF Shows
  <2>4. CASE m \notin Done
    <3>1. m \in covered
      BY <1>1, <2>4
    <3>2. \A b \in Done : log[b].id # i
      BY <1>4, <1>5, <2>1, <3>1
    <3>3. LastOf(i, m, covered) /\ NoneOf(i, Done) /\ NoneOf(i, eventRows \ covered)
      BY <2>1, <2>2, <3>1, <3>2 DEF LastOf, NoneOf
    <3>4. Shows(i, m)
      BY <3>1, <3>3 DEF FollowInv, CoveredShown
    <3> QED
      BY <1>1, <3>4 DEF Shows
  <2> QED
    BY <2>3, <2>4
<1>17. RowsCover'
  BY <1>1 DEF FollowInv, RowsCover, Open
<1> QED
  BY <1>9, <1>10, <1>11, <1>12, <1>13, <1>14, <1>15, <1>16, <1>17 DEF FollowInv

(* The largest of a bounded set of numbers.                                *)
LEMMA LargestOf ==
  ASSUME NEW S, S # {}, NEW n \in Nat, \A b \in S : b \in Nat /\ b <= n
  PROVE  \E m \in S : \A c \in S : c <= m
<1> DEFINE Bounds == {k \in Nat : \A c \in S : c <= k}
<1>1. n \in Bounds /\ Bounds \subseteq Nat
  OBVIOUS
<1>2. PICK m \in Bounds : \A k \in Bounds : ~(<<k, m>> \in OpToRel(<, Nat))
  BY <1>1, NatLessThanWellFounded, WFMin
<1>3. \A k \in Bounds : m <= k
  <2> SUFFICES ASSUME NEW k \in Bounds, k < m PROVE FALSE
    BY <1>1
  <2>1. <<k, m>> \in OpToRel(<, Nat)
    BY <1>1 DEF OpToRel
  <2> QED
    BY <1>2, <2>1
<1>4. m \in S
  <2>1. SUFFICES ASSUME m \notin S PROVE FALSE
    OBVIOUS
  <2>2. \A c \in S : c \in Nat /\ c < m
    BY <2>1
  <2>3. m - 1 \in Bounds
    BY <2>2
  <2> QED
    BY <1>3, <2>3
<1> QED
  BY <1>4

LEMMA FollowStep ==
  ASSUME BookInv, FollowInv, [SyncNext]_syncVars
  PROVE  FollowInv'
<1>1. BookInv' /\ Grows
  BY BookStep
<1>2. {live, cached, warm} \subseteq BOOLEAN
  BY DEF FollowInv, TickTyped
<1>3. CASE UNCHANGED <<dbVars, tick, historyVars, stops>> /\ {live', cached', warm'} \subseteq BOOLEAN
  BY <1>1, <1>3, OutsideKeepsFollow
<1>4. ASSUME NEW order \in Orders, Request(order) PROVE FollowInv'
  <2>1. UNCHANGED <<dbVars, tick, historyVars, stops>> /\ live' = live /\ cached' = cached /\ warm' = warm
    BY <1>4 DEF Request, backendVars, keeperVars
  <2> QED
    BY <1>2, <1>3, <2>1
<1>5. ASSUME NEW id \in Ids, Cancel(id) PROVE FollowInv'
  <2>1. UNCHANGED <<dbVars, tick, historyVars, stops>> /\ live' = live /\ cached' = cached /\ warm' = warm
    BY <1>5 DEF Cancel, backendVars, keeperVars
  <2> QED
    BY <1>2, <1>3, <2>1
<1>6. ASSUME NEW id \in Ids, NEW share \in Shares, SettleByOther(id, share) PROVE FollowInv'
  <2>1. UNCHANGED <<dbVars, tick, historyVars, stops>> /\ live' = live /\ cached' = cached /\ warm' = warm
    BY <1>6 DEF SettleByOther, backendVars, keeperVars
  <2> QED
    BY <1>2, <1>3, <2>1
<1>7. ASSUME NEW share \in Shares, SubmitSettle(share) PROVE FollowInv'
  <2>1. UNCHANGED <<dbVars, tick, historyVars, stops>> /\ live' = live /\ cached' = cached /\ warm' = warm
    BY <1>7 DEF SubmitSettle, backendVars
  <2> QED
    BY <1>2, <1>3, <2>1
<1>8. CASE Advance \/ RowGoesLive \/ ForceRefresh \/ SettleReverts \/ UNCHANGED syncVars
  <2>1. UNCHANGED <<dbVars, tick, historyVars, stops>>
    BY <1>8 DEF Advance, RowGoesLive, ForceRefresh, SettleReverts, syncVars, backendVars
  <2>2. live' \in {live, TRUE} /\ cached' \in {cached, TRUE} /\ warm' \in {warm, FALSE}
    BY <1>8 DEF Advance, RowGoesLive, ForceRefresh, SettleReverts, syncVars, backendVars, keeperVars
  <2> QED
    BY <1>2, <1>3, <2>1, <2>2
<1>9. ASSUME NEW fresh \in BOOLEAN, RecordPass(fresh) \/ \E fee \in FeeRead : ReadDueTickets(fresh, fee)
      PROVE  FollowInv'
  <2>1. UNCHANGED <<dbVars, tick, historyVars, stops>> /\ live' = live
    BY <1>9 DEF RecordPass, ReadDueTickets
  <2>2. cached' \in {cached, live}
    BY <1>9 DEF RecordPass, ReadDueTickets, Refresh
  <2>3. warm' \in BOOLEAN
    BY <1>2, <1>9 DEF RecordPass, ReadDueTickets
  <2> QED
    BY <1>2, <1>3, <2>1, <2>2, <2>3
<1>10. CASE TickStep
  BY <1>10, HeadKeepsFollow, RefreshKeepsFollow, FetchKeepsFollow, ApplyKeepsFollow, CommitKeepsFollow
     DEF TickStep
<1>11. CASE TickThrows \/ Crash
  BY <1>11, StopKeepsFollow
<1> QED
  BY <1>4, <1>5, <1>6, <1>7, <1>8, <1>9, <1>10, <1>11 DEF SyncNext

LEMMA SyncInitInv == SyncInit => SyncInv
<1> SUFFICES ASSUME SyncInit PROVE SyncInv
  OBVIOUS
<1>1. /\ now = 0 /\ tickets = <<>> /\ log = <<>> /\ live \in BOOLEAN /\ cached = FALSE
      /\ db = [i \in Ids |-> NoTicket] /\ eventRows = {} /\ activity = {}
      /\ checkpoint = NoCheckpoint /\ tick = NoTick /\ batch = {} /\ warm = FALSE
      /\ covered = {} /\ replaying = FALSE /\ stops = 0
  BY DEF SyncInit
<1>2. DOMAIN log = {} /\ DOMAIN tickets = {} /\ Len(log) = 0 /\ Len(tickets) = 0
  BY <1>1
<1>3. BookTyped
  BY <1>1, <1>2, SyncAssumption DEF BookTyped
<1>4. OfTickets /\ Requested /\ LogOrder /\ PendingIsOpen /\ LogCutoffs /\ LogAmounts
  BY <1>2 DEF OfTickets, Requested, LogOrder, PendingIsOpen, LogCutoffs, LogAmounts
<1>5. tick.pc = "idle" /\ tick.todo = {} /\ tick.to = 0
  BY <1>1 DEF NoTick
<1>6. Done = {}
  BY <1>5 DEF Done
<1>7. TickTyped
  <2>1. tick \in [pc : {"idle", "refresh", "install", "apply"}, from : Nat, to : Nat,
                  known : BOOLEAN, todo : SUBSET TodoRecord]
    BY <1>1 DEF NoTick
  <2>2. MaxStops \in Nat
    BY SyncAssumption
  <2>4. live \in BOOLEAN /\ cached \in BOOLEAN /\ warm \in BOOLEAN /\ replaying \in BOOLEAN
    BY <1>1
  <2>5. stops \in 0..MaxStops
    BY <1>1, <2>2
  <2>3. tick.to <= Len(log)
    BY <1>2, <1>5
  <2> QED
    BY <2>1, <2>3, <2>4, <2>5 DEF TickTyped
<1>8. RowsTyped
  BY <1>1 DEF RowsTyped
<1>9. TodoIsOfLog /\ InBlockOrder /\ RangeInv /\ NothingTorn
  BY <1>1, <1>5, <1>6 DEF TodoIsOfLog, InBlockOrder, RangeInv, NothingTorn
<1>10. RowsHaveEvents
  BY <1>1 DEF RowsHaveEvents, Closed
<1>11. RequestsStay /\ ReadIsStored /\ DoneShown /\ CoveredShown /\ RowsCover
  BY <1>1, <1>6 DEF RequestsStay, ReadIsStored, Read, DoneShown, CoveredShown, RowsCover, Open
<1> QED
  BY <1>3, <1>4, <1>7, <1>8, <1>9, <1>10, <1>11 DEF SyncInv, BookInv, FollowInv

LEMMA SyncInvHolds == SyncSpec => []SyncInv
<1>1. SyncInv /\ [SyncNext]_syncVars => SyncInv'
  BY BookStep, FollowStep DEF SyncInv
<1> QED
  BY <1>1, SyncInitInv, PTL DEF SyncSpec

(* The contract's and the database's tickets keep their shape, and the     *)
(* indexer claims, reads and stores only blocks there are.                 *)
THEOREM SyncTyped == SyncSpec => []SyncTypeOK
<1>1. SyncInv => SyncTypeOK
  BY SyncAssumption DEF SyncInv, BookInv, BookTyped, FollowInv, TickTyped, RowsTyped, SyncTypeOK
<1> QED
  BY <1>1, SyncInvHolds, PTL

(* The keeper never waits longer than the contract: an open row of a       *)
(* pending ticket shows no later cutoff than the ticket has, since what    *)
(* the indexer stores was a cutoff of the ticket once, or zero.            *)
THEOREM KeeperIsNeverLate == SyncSpec => []CutoffNeverLate
<1>1. SyncInv => CutoffNeverLate
  BY DEF SyncInv, FollowInv, RowsHaveEvents, CutoffNeverLate, Open
<1> QED
  BY <1>1, SyncInvHolds, PTL

(* What the keeper leaves out of a batch could not have been filled:       *)
(* whenever a settle could fill a ticket that the database shows as open,  *)
(* however old its row is and whether or not the fee could be read, the    *)
(* ticket is in the batch.  A row is never later than its ticket, never    *)
(* leaves less to fill, and is called a create only when it is one, so     *)
(* that the rule that drops the creates no larger than the fee drops none  *)
(* that a settle would take (forward-settle.service.ts 57-69).             *)
THEOREM KeeperLeavesNothingOut == SyncSpec => []NothingFillableIsLeftOut
<1>1. ASSUME SyncInv, NEW id \in Ids, NEW fee \in FeeRead, Fillable(id), Open(id)
      PROVE  id \in LiveTickets(fee)
  <2> USE DEF SyncInv, BookInv
  <2>1. /\ id \in DOMAIN tickets /\ tickets[id].cutoff <= now /\ tickets[id] \in Ticket
        /\ now \in Nat
    BY <1>1, Facts DEF Fillable, Due, BookTyped, Ticket
  <2>2. db[id] # NoTicket /\ db[id].cutoff \in Nat /\ db[id].remaining \in Nat
    BY <1>1 DEF Open, FollowInv, RowsTyped, TicketRow
  <2>3. db[id].cutoff <= now
    <3>1. db[id].cutoff <= tickets[id].cutoff /\ tickets[id].cutoff \in Nat
      BY <1>1, <2>1, <2>2 DEF FollowInv, RowsHaveEvents, Ticket
    <3> QED
      BY <2>1, <2>2, <3>1
  <2>4. ~Unsettleable(id, fee)
    <3>1. SUFFICES ASSUME db[id].kind = "Create", db[id].remaining <= fee PROVE FALSE
      BY DEF Unsettleable
    <3>2. tickets[id].kind = "Create" /\ tickets[id].amount <= db[id].remaining
      BY <1>1, <3>1 DEF FollowInv, RowsCover, Covers
    <3>3. tickets[id].amount > Fee
      BY <1>1, <3>2 DEF Fillable, Fills
    <3>4. fee \in Nat /\ fee <= Fee /\ Fee \in Nat
      BY SyncAssumption DEF FeeRead
    <3> QED
      BY <2>1, <2>2, <3>1, <3>2, <3>3, <3>4 DEF Ticket
  <2> QED
    BY <1>1, <2>3, <2>4 DEF LiveTickets
<1>2. SyncInv => NothingFillableIsLeftOut
  BY <1>1 DEF NothingFillableIsLeftOut
<1> QED
  BY <1>2, SyncInvHolds, PTL

(* A settle that goes through leaves nothing of its batch due: each ticket *)
(* of it is closed or was given a cutoff that is still to come, so that    *)
(* the next batch has other tickets.                                       *)
THEOREM SettleClearsItsBatch ==
  SyncSpec => [][\A share \in Shares : SubmitSettle(share) => \A id \in batch : ~Due(id)']_syncVars
<1>1. ASSUME SyncInv, NEW share \in Shares, SubmitSettle(share), NEW id \in batch PROVE ~Due(id)'
  <2> USE DEF SyncInv, BookInv
  <2>1. /\ now' = now /\ DOMAIN tickets' = DOMAIN tickets
        /\ id \in DOMAIN tickets => tickets'[id] = Settled(id, share)
    BY <1>1 DEF SubmitSettle, SettleOnChain, backendVars
  <2>2. SUFFICES ASSUME id \in DOMAIN tickets,
                        Settled(id, share).status = "Pending", now >= Settled(id, share).cutoff
                 PROVE  FALSE
    BY <2>1 DEF Due
  <2>3. tickets[id] \in Ticket /\ now \in Nat /\ CutoffDelay \in Nat \ {0}
    BY <1>1, <2>2, Facts DEF BookTyped
  <2>4. CASE ~Due(id)
    <3>1. Settled(id, share) = tickets[id]
      BY <2>4 DEF Settled
    <3> QED
      BY <2>2, <2>4, <3>1 DEF Due
  <2>5. CASE Due(id)
    <3>1. CASE tickets[id].amount - Slice(id, share) = 0
      <4>1. Settled(id, share).status = "Settled"
        BY <2>3, <2>5, <3>1 DEF Settled, Ticket
      <4> QED
        BY <2>2, <4>1
    <3>2. CASE tickets[id].amount - Slice(id, share) # 0
      <4>1. Settled(id, share).cutoff = now + CutoffDelay
        BY <2>3, <2>5, <3>2 DEF Settled, Ticket
      <4> QED
        BY <2>2, <2>3, <4>1
    <3> QED
      BY <3>1, <3>2
  <2> QED
    BY <2>4, <2>5
<1>2. SyncInv /\ [SyncNext]_syncVars =>
        [\A share \in Shares : SubmitSettle(share) => \A id \in batch : ~Due(id)']_syncVars
  BY <1>1
<1> QED
  BY <1>2, SyncInvHolds, PTL DEF SyncSpec

(* A ticket shown as settled or cancelled is shown as open again only      *)
(* while a range is repeated that an earlier tick left half applied: else  *)
(* what closed it is in the database from a block before every event that  *)
(* is still to be applied, and nothing of a ticket comes after its close.  *)
THEOREM ReopensOnlyReplaying == SyncSpec => ClosedUnlessReplaying
<1>1. ASSUME SyncInv, [SyncNext]_syncVars, NEW id \in Ids, Closed(id), db'[id].status # db[id].status
      PROVE  replaying
  <2> USE DEF SyncInv, BookInv
  <2>0. replaying \in BOOLEAN
    BY <1>1 DEF FollowInv, TickTyped
  <2>1. SUFFICES ASSUME replaying = FALSE PROVE FALSE
    BY <2>0
  <2>2. TickApply
    <3>1. TickApply \/ UNCHANGED db
      BY <1>1 DEF SyncNext, Request, Cancel, SettleByOther, Advance, RowGoesLive, ForceRefresh,
           SettleReverts, SubmitSettle, RecordPass, ReadDueTickets, TickStep, TickHead, TickRefresh,
           TickFetch, TickCommit, TickThrows, Crash, backendVars, dbVars, syncVars
    <3> QED
      BY <1>1, <3>1
  <2>3. PICK e \in tick.todo : db' = [db EXCEPT ![e.id] = RowAfter(db[e.id], e)]
    BY <2>2 DEF TickApply
  <2>4. OfLog(e) /\ e \in TodoRecord
    BY <1>1, DoneIsOfLog DEF FollowInv, TodoIsOfLog
  <2>5. e.id = id /\ db'[id] = RowAfter(db[id], e)
    BY <1>1, <2>3, <2>4 DEF FollowInv, RowsTyped, TodoRecord
  <2>6. PICK c \in eventRows : log[c].id = id /\ IsClosing(c)
    BY <1>1 DEF FollowInv, RowsHaveEvents
  <2>7. e.block \in Blocks /\ e.block \in DOMAIN log /\ e.block \in Nat /\ tick.from <= e.block
          /\ log[e.block].id = id /\ tick.pc = "apply"
    BY <1>1, <2>2, <2>4, <2>5, DoneIsOfLog DEF OfLog, FollowInv, TickApply
  <2>8. c \in DOMAIN log /\ c \in Nat
    BY <1>1, Facts DEF FollowInv, RowsTyped
  <2>9. c < e.block
    <3>1. CASE c \in Done
      BY <1>1, <2>5, <2>6, <3>1 DEF FollowInv, InBlockOrder
    <3>2. CASE c \notin Done
      <4>1. checkpoint # NoCheckpoint /\ c <= checkpoint
        BY <1>1, <2>1, <3>2 DEF FollowInv, NothingTorn
      <4>2. tick.from = checkpoint + 1
        BY <1>1, <2>7, <4>1 DEF FollowInv, RangeInv, Known, LastIndexed
      <4>3. checkpoint \in Nat
        BY <1>1, <4>1, Facts DEF FollowInv, RowsTyped
      <4> QED
        BY <2>7, <2>8, <4>1, <4>2, <4>3
    <3> QED
      BY <3>1, <3>2
  <2> QED
    BY <1>1, <2>6, <2>7, <2>8, <2>9 DEF LogOrder, SameTicket
<1>2. SyncInv /\ [SyncNext]_syncVars =>
        [\A id \in Ids : db[id] # NoTicket /\ db[id].status \in {"Settled", "Cancelled"}
                           /\ db'[id].status # db[id].status => replaying]_syncVars
  BY <1>1 DEF Closed
<1> QED
  BY <1>2, SyncInvHolds, PTL DEF SyncSpec, ClosedUnlessReplaying

(* When a tick moves the checkpoint, every ticket all of whose events fell *)
(* in ranges that were read is what the log says: its first event wrote    *)
(* the row, and of each range the events of a ticket are applied in the    *)
(* order of their blocks, though the range is applied kind by kind.        *)
THEOREM CommitsAreExact == SyncSpec => CommitIsExact
<1>1. ASSUME SyncInv, [SyncNext]_syncVars, checkpoint' # checkpoint, NEW id \in Ids,
             Covered(id, checkpoint)'
      PROVE  Exact(id, checkpoint)'
  <2> USE DEF SyncInv, BookInv
  <2>1. TickCommit
    <3>1. TickCommit \/ UNCHANGED checkpoint
      BY <1>1 DEF SyncNext, Request, Cancel, SettleByOther, Advance, RowGoesLive, ForceRefresh,
           SettleReverts, SubmitSettle, RecordPass, ReadDueTickets, TickStep, TickHead, TickRefresh,
           TickFetch, TickApply, TickThrows, Crash, backendVars, dbVars, syncVars
    <3> QED
      BY <1>1, <3>1
  <2>2. /\ tick.pc = "apply" /\ checkpoint' = tick.to /\ covered' = covered \cup Done
        /\ log' = log /\ db' = db /\ eventRows' = eventRows /\ activity' = activity
    BY <1>1, <2>1, CommitIs
  <2> DEFINE E == EventsOf(id, tick.to)
  <2>3. E # {} /\ E \subseteq covered \cup Done
    BY <1>1, <2>2 DEF Covered, EventsOf
  <2>4. \A b : b \in E <=> b \in 1..tick.to /\ log[b].id = id
    BY DEF EventsOf
  <2> HIDE DEF E
  <2>5. /\ tick.to \in Nat /\ tick.to <= Len(log) /\ Len(log) \in Nat /\ DOMAIN log = 1..Len(log)
        /\ \A b \in Done : b \in DOMAIN log /\ b <= tick.to
    BY <1>1, DoneIsOfLog, Facts DEF FollowInv, TickTyped
  <2>6. \A b \in eventRows : b \in DOMAIN log /\ b <= tick.to
    BY <1>1, <2>2 DEF FollowInv, RangeInv, RowsTyped
  <2>7. covered \cup Done \subseteq eventRows
    BY <1>1 DEF FollowInv, ReadIsStored, Read
  <2>8. \A b \in covered \cup Done : log[b].id = id => b \in E
    BY <2>4, <2>5, <2>6, <2>7
  (* The request of the ticket, and its last event.                        *)
  <2>9. PICK q \in E : IsRequest(q)
    <3>1. PICK b \in E : TRUE
      BY <2>3
    <3>2. b \in DOMAIN log /\ log[b].id = id /\ b <= tick.to /\ b \in Nat
      BY <2>4, <2>5
    <3>3. PICK r \in DOMAIN log : log[r].id = id /\ IsRequest(r)
      BY <1>1, <3>2 DEF OfTickets, Requested
    <3>4. r <= b
      <4>1. SUFFICES ASSUME b < r PROVE FALSE
        BY <2>5, <3>2, <3>3
      <4> QED
        BY <1>1, <3>2, <3>3, <4>1 DEF LogOrder, SameTicket
    <3>5. r \in E
      BY <2>4, <2>5, <3>2, <3>3, <3>4
    <3> QED
      BY <3>3, <3>5
  <2> DEFINE r == CHOOSE b \in E : log[b].kind \in Requests
  <2>10. r \in E /\ IsRequest(r)
    BY <2>9 DEF IsRequest
  <2> HIDE DEF r
  <2>11. \E m \in E : \A c \in E : c <= m
    <3>1. \A b \in E : b \in Nat /\ b <= tick.to
      BY <2>4, <2>5
    <3> QED
      BY <2>3, <2>5, <3>1, LargestOf
  <2> DEFINE m == CHOOSE b \in E : \A c \in E : c <= b
  <2>12. m \in E /\ \A c \in E : c <= m
    BY <2>11
  <2> HIDE DEF m
  <2>13. Holds(id, r)
    BY <1>1, <2>3, <2>4, <2>7, <2>10 DEF FollowInv, RequestsStay
  <2>14. E \subseteq eventRows \cap activity
    <3> SUFFICES ASSUME NEW b \in E PROVE b \in activity
      BY <2>3, <2>7
    <3>1. b \in DOMAIN log /\ r \in DOMAIN log /\ b \in Nat /\ r \in Nat /\ SameTicket(b, r)
      BY <2>4, <2>5, <2>10 DEF SameTicket
    <3>2. r <= b
      <4>1. SUFFICES ASSUME b < r PROVE FALSE
        BY <3>1
      <4> QED
        BY <1>1, <2>10, <3>1, <4>1 DEF LogOrder, SameTicket
    <3> QED
      BY <1>1, <2>3, <2>10, <3>1, <3>2 DEF FollowInv, ReadIsStored, Read
  <2>15. Shows(id, m)
    <3>1. CASE m \in Done
      <4>1. LastOf(id, m, Done)
        BY <2>4, <2>8, <2>12, <3>1 DEF LastOf
      <4> QED
        BY <1>1, <3>1, <4>1 DEF FollowInv, DoneShown
    <3>2. CASE m \notin Done
      <4>1. m \in covered
        BY <2>3, <2>12, <3>2
      <4>2. LastOf(id, m, covered)
        BY <2>4, <2>8, <2>12, <4>1 DEF LastOf
      <4>3. NoneOf(id, Done)
        <5> SUFFICES ASSUME NEW b \in Done, log[b].id = id PROVE FALSE
          BY DEF NoneOf
        <5>1. m < b /\ b <= m
          BY <1>1, <2>8, <2>12, <4>1, DoneIsNew
        <5>2. m \in Nat /\ b \in Nat
          BY <2>4, <2>5, <2>12
        <5> QED
          BY <5>1, <5>2
      <4>4. NoneOf(id, eventRows \ covered)
        <5> SUFFICES ASSUME NEW b \in eventRows \ covered, log[b].id = id PROVE FALSE
          BY DEF NoneOf
        <5>1. b \in E
          BY <2>4, <2>5, <2>6
        <5>2. b \in Done
          BY <2>3, <5>1
        <5> QED
          BY <4>3, <5>2 DEF NoneOf
      <4> QED
        BY <1>1, <4>1, <4>2, <4>3, <4>4 DEF FollowInv, CoveredShown
    <3> QED
      BY <3>1, <3>2
  <2>16. Exact(id, tick.to)
    BY <2>13, <2>14, <2>15 DEF Exact, LatestOf, Shows, Holds, RowKind, E, r, m
  <2> QED
    BY <2>2, <2>16 DEF Exact, LatestOf, EventsOf
<1>2. SyncInv /\ [SyncNext]_syncVars =>
        [checkpoint' # checkpoint =>
           \A id \in Ids : Covered(id, checkpoint)' => Exact(id, checkpoint)']_syncVars
  BY <1>1
<1> QED
  BY <1>2, SyncInvHolds, PTL DEF SyncSpec, CommitIsExact

-----------------------------------------------------------------------------
(* The valuation                                                           *)

USE DEF valuationVars

Prices == [origin : {"live", "zero", "catalog"}, born : Nat]
Statuses == {"Regular", "Closed", "Unknown"}
Readings == [price : Prices \cup {NoPrice}, time : Nat, status : Statuses, readAt : Nat]

(* What a reading that is no estimate is: a price, young enough.           *)
Sound(reading) ==
  ~Estimated(reading) =>
    /\ reading.price \in Prices
    /\ reading.readAt - reading.price.born <= StaleThreshold

(* An anchor keeps the time of its price, however often it was stored.     *)
Dated(a) == a # NoAnchor => a.price \in Prices /\ a.time = a.price.born

ClockInv == clock \in Nat /\ market \in {"Regular", "Closed"}
PythInv == pyth \in [Tokens -> Prices \cup {NoPrice}]
AnchorInv ==
  /\ anchor \in [Tokens -> [price : Prices \cup {NoPrice}, time : Nat]]
  /\ \A t \in Tokens : Dated(anchor[t])
ValuingInv ==
  /\ valuing \in Seq(Readings)
  /\ \A i \in DOMAIN valuing : Sound(valuing[i])
ValuationInv == ClockInv /\ PythInv /\ AnchorInv /\ ValuingInv

-----------------------------------------------------------------------------
(* What a source may answer.                                               *)
Answers == [price : Prices \cup {NoPrice}, time : Nat, status : {"Regular", "Closed"}]
Honest(a) == a.status = "Regular" => a.price \in Prices /\ a.time = a.price.born

LEMMA NoPriceIsNoPrice == NoPrice \notin Prices
BY ValuationAssumption DEF Prices

(* Every answer of every source is honest.                                 *)
LEMMA AnswersHonest ==
  ASSUME ClockInv, PythInv, AnchorInv, NEW t \in Tokens, NEW reads \in BOOLEAN,
         NEW i \in 1..4, NEW a \in FallbackOrder(t, reads)[i]
  PROVE  a \in Answers /\ Honest(a)
<1>1. FallbackOrder(t, reads)[1] = PythAnswer(t) /\ FallbackOrder(t, reads)[2] = StubAnswer("DexTwap")
        /\ FallbackOrder(t, reads)[3] = StubAnswer("PerpMark") /\ FallbackOrder(t, reads)[4] = LastCloseAnswer(t, reads)
  BY DEF FallbackOrder
<1>2. CASE i = 1
  <2>1. pyth[t] \in Prices /\ a = [price |-> pyth[t], time |-> pyth[t].born, status |-> market]
    BY <1>1, <1>2 DEF PythAnswer, Silent, Answer, PythInv
  <2> QED
    BY <2>1 DEF Answers, Honest, ClockInv, Prices
<1>3. CASE i \in {2, 3}
  <2>1. a = [price |-> NoPrice, time |-> clock, status |-> "Closed"]
    BY <1>1, <1>3 DEF StubAnswer, Silent, Answer
  <2> QED
    BY <2>1 DEF Answers, Honest, ClockInv
<1>4. CASE i = 4
  <2>1. /\ anchor[t] # NoAnchor
        /\ a = [price |-> anchor[t].price,
                time |-> IF market = "Regular" THEN anchor[t].time ELSE clock,
                status |-> market]
    BY <1>1, <1>4 DEF LastCloseAnswer, Silent, Answer
  <2>2. anchor[t].price \in Prices /\ anchor[t].time = anchor[t].price.born
    BY <2>1 DEF AnchorInv, Dated
  <2>3. anchor[t].time \in Nat
    BY DEF AnchorInv
  <2> QED
    BY <2>1, <2>2, <2>3 DEF Answers, Honest, ClockInv
<1> QED
  BY <1>2, <1>3, <1>4

(* A reading is what the first source that answers says, or nothing.       *)
ReadingOf(a) == [price |-> a.price, time |-> a.time,
                 status |-> Resolve(a.status, a.time), readAt |-> clock]
NoReading == [price |-> NoPrice, time |-> clock, status |-> "Unknown", readAt |-> clock]

LEMMA ReadingSource ==
  ASSUME NEW t \in Tokens, NEW reads \in BOOLEAN
  PROVE  \/ /\ Reading(t, reads) = NoReading
            /\ \A i \in 1..4 : FallbackOrder(t, reads)[i] = Silent
         \/ \E i \in 1..4 : \E a \in FallbackOrder(t, reads)[i] :
              /\ Reading(t, reads) = ReadingOf(a)
              /\ \A j \in 1..4 : j < i => FallbackOrder(t, reads)[j] = Silent
<1> DEFINE order == FallbackOrder(t, reads)
           answering == {i \in DOMAIN order : order[i] # Silent}
           first == CHOOSE i \in answering : \A j \in answering : i <= j
           answer == CHOOSE a \in order[first] : TRUE
<1>1. DOMAIN order = 1..4
  BY DEF FallbackOrder
<1>2. CASE answering = {}
  <2>1. Reading(t, reads) = NoReading
    BY <1>2 DEF Reading, NoReading
  <2> QED
    BY <2>1, <1>1, <1>2
<1>3. CASE answering # {}
  <2>1. \E i \in answering : \A j \in answering : i <= j
    <3> HIDE DEF order
    <3>1. answering \subseteq 1..4
      BY <1>1
    <3>2. CASE 1 \in answering
      BY <3>1, <3>2
    <3>3. CASE 1 \notin answering /\ 2 \in answering
      BY <3>1, <3>3
    <3>4. CASE 1 \notin answering /\ 2 \notin answering /\ 3 \in answering
      BY <3>1, <3>4
    <3>5. CASE answering = {4}
      BY <3>5
    <3> QED
      BY <1>3, <3>1, <3>2, <3>3, <3>4, <3>5
  <2>2. first \in answering /\ \A j \in answering : first <= j
    <3> HIDE DEF answering
    <3> QED
      BY <2>1
  <2>3. first \in 1..4 /\ order[first] # Silent
    <3> HIDE DEF first
    <3> QED
      BY <1>1, <2>2
  <2>4. answer \in order[first]
    <3> HIDE DEF first, order
    <3> QED
      BY <2>3 DEF Silent
  <2>5. \A j \in 1..4 : j < first => order[j] = Silent
    <3> HIDE DEF first, order
    <3> QED
      BY <1>1, <2>2, <2>3
  <2>6. Reading(t, reads) = ReadingOf(answer)
    BY <1>3 DEF Reading, ReadingOf
  <2> HIDE DEF first, answer
  <2> QED
    BY <2>3, <2>4, <2>5, <2>6
<1> QED
  BY <1>2, <1>3

-----------------------------------------------------------------------------
(* A reading has its shape, and a reading that is no estimate is sound and *)
(* carries the time of its price.                                          *)
LEMMA ReadingSound ==
  ASSUME ClockInv, PythInv, AnchorInv, NEW t \in Tokens, NEW reads \in BOOLEAN
  PROVE  /\ Reading(t, reads) \in Readings
         /\ Sound(Reading(t, reads))
         /\ ~Estimated(Reading(t, reads)) => Reading(t, reads).time = Reading(t, reads).price.born
<1>1. CASE Reading(t, reads) = NoReading
  BY <1>1 DEF NoReading, Readings, Statuses, Sound, Estimated, ClockInv
<1>2. ASSUME NEW i \in 1..4, NEW a \in FallbackOrder(t, reads)[i], Reading(t, reads) = ReadingOf(a)
      PROVE  /\ Reading(t, reads) \in Readings
             /\ Sound(Reading(t, reads))
             /\ ~Estimated(Reading(t, reads)) => Reading(t, reads).time = Reading(t, reads).price.born
  <2>1. a \in Answers /\ Honest(a)
    BY AnswersHonest
  <2>2. /\ Reading(t, reads).price = a.price /\ Reading(t, reads).time = a.time
        /\ Reading(t, reads).readAt = clock /\ Reading(t, reads).status = Resolve(a.status, a.time)
    BY <1>2 DEF ReadingOf
  <2>3. Resolve(a.status, a.time) \in Statuses
    BY <2>1 DEF Resolve, Answers, Statuses
  <2>4. Reading(t, reads) \in Readings
    BY <1>2, <2>1, <2>3 DEF ReadingOf, Readings, Answers, ClockInv
  <2>5. ASSUME ~Estimated(Reading(t, reads))
        PROVE  a.status = "Regular" /\ clock - a.time <= StaleThreshold
    <3>1. Resolve(a.status, a.time) = "Regular"
      BY <2>2, <2>5 DEF Estimated
    <3>2. clock \in Nat /\ a.time \in Nat /\ StaleThreshold \in Nat
      BY <2>1, ValuationAssumption DEF ClockInv, Answers
    <3> QED
      BY <3>1, <3>2 DEF Resolve
  <2> QED
    BY <2>1, <2>2, <2>4, <2>5 DEF Honest, Sound
<1> QED
  BY <1>1, <1>2, ReadingSource

LEMMA ValuationInitInv == ValuationInit => ValuationInv
<1> SUFFICES ASSUME ValuationInit PROVE ValuationInv
  OBVIOUS
<1>1. ClockInv /\ PythInv
  BY DEF ValuationInit, ClockInv, PythInv
<1>2. AnchorInv
  BY DEF ValuationInit, AnchorInv, NoAnchor, Dated
<1>3. ValuingInv
  BY DEF ValuationInit, ValuingInv
<1> QED
  BY <1>1, <1>2, <1>3 DEF ValuationInv

(* An anchor stored with the time of its price leaves the anchors dated.   *)
LEMMA StoredDated ==
  ASSUME AnchorInv, NEW t \in Tokens, NEW p \in Prices,
         anchor' = Stored(t, p, p.born)
  PROVE  AnchorInv'
<1>1. CASE anchor' = anchor
  BY <1>1 DEF AnchorInv, Dated
<1>2. CASE anchor' = [anchor EXCEPT ![t] = [price |-> p, time |-> p.born]]
  <2>1. p.born \in Nat
    BY DEF Prices
  <2>2. [price |-> p, time |-> p.born] \in [price : Prices \cup {NoPrice}, time : Nat]
    BY <2>1
  <2>3. \A u \in Tokens : anchor'[u] = IF u = t THEN [price |-> p, time |-> p.born] ELSE anchor[u]
    BY <1>2 DEF AnchorInv
  <2>4. anchor' \in [Tokens -> [price : Prices \cup {NoPrice}, time : Nat]]
    BY <1>2, <2>2 DEF AnchorInv
  <2>5. \A u \in Tokens : Dated(anchor[u])
    BY DEF AnchorInv
  <2>6. \A u \in Tokens : Dated(anchor'[u])
    BY <2>3, <2>5 DEF Dated
  <2> QED
    BY <2>4, <2>6 DEF AnchorInv, Dated
<1> QED
  BY <1>1, <1>2 DEF Stored

LEMMA ValuationStepInv == ValuationInv /\ [ValuationNext]_valuationVars => ValuationInv'
<1> SUFFICES ASSUME ValuationInv, [ValuationNext]_valuationVars
             PROVE  ValuationInv'
  OBVIOUS
<1> USE DEF ValuationInv
<1>1. CASE ClockTicks \/ OpenOrClose
  BY <1>1 DEF ClockTicks, OpenOrClose, ClockInv, PythInv, AnchorInv, ValuingInv, Dated, Sound, Estimated
<1>2. ASSUME NEW t \in Tokens, PythFails(t) \/ \E origin \in {"live", "zero"} : PythPublishes(t, origin)
      PROVE  ValuationInv'
  <2>1. \A origin \in {"live", "zero"} : Published(origin, clock) \in Prices
    BY DEF Published, Prices, ClockInv
  <2>2. PythInv'
    BY <1>2, <2>1 DEF PythPublishes, PythFails, PythInv
  <2> QED
    BY <1>2, <2>2 DEF PythPublishes, PythFails, ClockInv, AnchorInv, ValuingInv, Dated, Sound, Estimated
<1>3. ASSUME NEW t \in Tokens, NEW reads \in BOOLEAN, StoreReading(t, reads)
      PROVE  ValuationInv'
  <2>1. AnchorInv'
    <3>1. CASE Estimated(Reading(t, reads))
      BY <1>3, <3>1 DEF StoreReading, AnchorInv, Dated
    <3>2. CASE ~Estimated(Reading(t, reads))
      <4>1. Reading(t, reads).price \in Prices /\ Reading(t, reads).time = Reading(t, reads).price.born
        BY <3>2, ReadingSound DEF Sound
      <4> QED
        BY <1>3, <3>2, <4>1, StoredDated DEF StoreReading
    <3> QED
      BY <3>1, <3>2
  <2> QED
    BY <1>3, <2>1 DEF StoreReading, ClockInv, PythInv, ValuingInv, Sound, Estimated
<1>4. ASSUME NEW t \in Tokens, NEW reads \in BOOLEAN, SeedBaseline(t, reads)
      PROVE  ValuationInv'
  <2>1. Published("catalog", clock) \in Prices /\ Published("catalog", clock).born = clock
    BY DEF Published, Prices, ClockInv
  <2>2. AnchorInv'
    BY <1>4, <2>1, StoredDated DEF SeedBaseline
  <2> QED
    BY <1>4, <2>2 DEF SeedBaseline, ClockInv, PythInv, ValuingInv, Sound, Estimated
<1>5. ASSUME NEW reads \in BOOLEAN, ReadHolding(reads) PROVE ValuationInv'
  <2> DEFINE t == Holdings[Len(valuing) + 1]
             n == Len(valuing)
  <2>1. n + 1 \in DOMAIN Holdings /\ n \in Nat
    BY <1>5, ValuationAssumption DEF ReadHolding, ValuingInv
  <2>2. t \in Tokens
    BY <2>1 DEF Tokens
  <2>3. Reading(t, reads) \in Readings /\ Sound(Reading(t, reads))
    BY <2>2, ReadingSound
  <2>4. valuing' = Append(valuing, Reading(t, reads))
    BY <1>5 DEF ReadHolding
  <2> HIDE DEF t
  <2>5. valuing' \in Seq(Readings)
    BY <2>3, <2>4 DEF ValuingInv
  <2>6. ASSUME NEW i \in DOMAIN valuing' PROVE Sound(valuing'[i])
    <3>1. CASE i \in DOMAIN valuing
      BY <2>4, <3>1 DEF ValuingInv
    <3>2. CASE i = n + 1
      BY <2>3, <2>4, <3>2 DEF ValuingInv
    <3> QED
      BY <2>3, <2>4, <3>1, <3>2 DEF ValuingInv
  <2>7. ValuingInv'
    BY <2>5, <2>6 DEF ValuingInv, Sound, Estimated
  <2> QED
    BY <1>5, <2>7 DEF ReadHolding, ClockInv, PythInv, AnchorInv, Dated
<1>6. CASE StoreNav
  BY <1>6 DEF StoreNav, ClockInv, PythInv, AnchorInv, Dated, ValuingInv
<1>7. CASE UNCHANGED valuationVars
  BY <1>7 DEF ClockInv, PythInv, AnchorInv, Dated, ValuingInv, Sound, Estimated
<1> QED
  BY <1>1, <1>2, <1>3, <1>4, <1>5, <1>6, <1>7 DEF ValuationNext

LEMMA ValuationInvHolds == ValuationSpec => []ValuationInv
BY ValuationInitInv, ValuationStepInv, PTL DEF ValuationSpec

LEMMA InvIronRule == ValuationInv => IronRule
<1> SUFFICES ASSUME ValuationInv, ~NavEstimated(valuing), NEW i \in DOMAIN valuing
             PROVE  /\ valuing[i].price # NoPrice
                    /\ valuing[i].readAt - valuing[i].price.born <= StaleThreshold
  BY DEF IronRule
<1>1. ~Estimated(valuing[i])
  BY DEF NavEstimated
<1>2. Sound(valuing[i])
  BY DEF ValuationInv, ValuingInv
<1> QED
  BY <1>1, <1>2, NoPriceIsNoPrice DEF Sound

(* Whatever the sources answer, and through however many snapshots a price *)
(* went, a NAV that is not marked as an estimate has no price older than   *)
(* the threshold was when it was read (nav-engine.service.ts 187).         *)
THEOREM IronRuleHolds == ValuationSpec => []IronRule
BY ValuationInvHolds, InvIronRule, PTL

=============================================================================
