---------------------------- MODULE ForwardSync ----------------------------
(***************************************************************************)
(* Following one ForwardCashQueue from outside: the indexer that copies    *)
(* its events into the database behind a checkpoint, the registry of live  *)
(* queues both it and the keepers ask, and the keepers that keep the NAV   *)
(* prints warm and settle what the database shows as due.                  *)
(*                                                                         *)
(* Of the queue's contract only what the backend sees is here: its tickets *)
(* and, block by block, the events it emits.  A block holds one event.     *)
(* Any holder, and any other keeper, may act on it at any time.            *)
(*                                                                         *)
(* The process may stop between two steps, and then forgets the registry;  *)
(* a tick may throw.  The row that makes the queue live stays live.        *)
(***************************************************************************)
EXTENDS Integers, Sequences, SequencesExt

CONSTANTS
  Orders,         \* what holders ask for: [kind, amount]
  Fee,            \* the vault's flat create fee
  Price,          \* the NAV per share
  CutoffDelay,
  StartBlock,     \* INDEXER_START_BLOCK, 0 when it is not set
  MaxRange,       \* IndexerService.MAX_RANGE
  NoCheckpoint, NoTicket,
  MaxTickets, MaxNow, MaxStops,   \* bounds
  MaxLoad         \* bound on the requests, the stops and the time together

Kinds == {"Create", "Redeem"}
TicketRow == [status : {"Pending", "Partial", "Settled", "Cancelled"}, kind : Kinds,
              owned : BOOLEAN, amount : Nat, remaining : Nat, cutoff : Nat]

ASSUME SyncAssumption ==
  /\ Orders \subseteq [kind : Kinds, amount : Nat \ {0}]
  /\ Fee \in Nat /\ Price \in Nat \ {0} /\ CutoffDelay \in Nat \ {0}
  /\ StartBlock \in Nat /\ MaxRange \in Nat
  /\ NoCheckpoint \notin Int /\ NoTicket \notin TicketRow
  /\ {MaxTickets, MaxNow, MaxStops, MaxLoad} \subseteq Nat

VARIABLES
  now,
  tickets,     \* the queue's tickets
  log,         \* the blocks: the event of each
  live,        \* the vault's row is Live: getLiveForwardQueues returns it
  cached,      \* the registry's pairs() has it
  db,          \* [ticket -> its ForwardTicket row]
  eventRows,   \* the blocks that have a ForwardEvent row
  activity,    \* the blocks that have an ActivityEvent row
  checkpoint,
  tick,        \* the indexer's tick
  batch,       \* what the settle keeper read and has not submitted yet
  warm,        \* the observer has the prints the gate asks for
  covered,     \* history: the blocks claimed by ticks that read this queue
  replaying,   \* history: a tick over the next range stopped before its end
  stops

bookVars == <<now, tickets, log>>
dbVars == <<db, eventRows, activity, checkpoint>>
keeperVars == <<batch, warm>>
historyVars == <<covered, replaying>>
syncVars == <<bookVars, live, cached, dbVars, tick, keeperVars, historyVars, stops>>

Ids == 1..MaxTickets
EventKinds == <<"CreateRequested", "RedeemRequested", "PartialFill", "Settled", "Cancelled">>
Requests == {"CreateRequested", "RedeemRequested"}
Ticket == [kind : Kinds, amount : Nat, cutoff : Nat, status : {"Pending", "Settled", "Cancelled"}]
Event == [kind : Range(EventKinds), id : Ids, amount : Nat, cutoff : Nat]
NoTick == [pc |-> "idle", from |-> 0, to |-> 0, known |-> FALSE, todo |-> {}]

SyncInit ==
  /\ now = 0 /\ tickets = <<>> /\ log = <<>>
  /\ live \in BOOLEAN
  /\ cached = FALSE
  /\ db = [i \in Ids |-> NoTicket]
  /\ eventRows = {} /\ activity = {} /\ checkpoint = NoCheckpoint
  /\ tick = NoTick
  /\ batch = {} /\ warm = FALSE
  /\ covered = {} /\ replaying = FALSE
  /\ stops = 0

backendVars == <<live, cached, dbVars, tick, historyVars, stops>>

-----------------------------------------------------------------------------
(* The queue, as the backend sees it                                       *)

Load == now + Len(tickets) + stops

Emit(kind, id, amount, cutoff) ==
  [kind |-> kind, id |-> id, amount |-> amount, cutoff |-> cutoff]

Request(order) ==
  /\ Len(tickets) < MaxTickets /\ Load < MaxLoad
  /\ tickets' = Append(tickets, [kind |-> order.kind, amount |-> order.amount,
                                 cutoff |-> now + CutoffDelay, status |-> "Pending"])
  /\ log' = Append(log, Emit(IF order.kind = "Create" THEN "CreateRequested" ELSE "RedeemRequested",
                             Len(tickets) + 1, order.amount, now + CutoffDelay))
  /\ UNCHANGED <<now, keeperVars, backendVars>>

Cancel(id) ==
  /\ id \in DOMAIN tickets
  /\ tickets[id].status = "Pending" /\ now < tickets[id].cutoff
  /\ tickets' = [tickets EXCEPT ![id].status = "Cancelled"]
  /\ log' = Append(log, Emit("Cancelled", id, 0, 0))
  /\ UNCHANGED <<now, keeperVars, backendVars>>

Due(id) == id \in DOMAIN tickets /\ tickets[id].status = "Pending" /\ now >= tickets[id].cutoff

(* The capacity left either covers the creates of a batch or half of each. *)
Shares == {"all", "half"}
Slice(id, share) ==
  IF tickets[id].kind = "Redeem" \/ share = "all" THEN tickets[id].amount
  ELSE tickets[id].amount \div 2

(* A slice of nothing is deferred; one that buys no share after the fee    *)
(* reverts the batch.                                                      *)
Fills(id, cash) ==
  tickets[id].kind = "Redeem" \/ (cash > Fee /\ (cash - Fee) \div Price > 0)
Mintable(ids, share) ==
  \A id \in ids : Due(id) => Slice(id, share) = 0 \/ Fills(id, Slice(id, share))

Settled(id, share) ==
  LET t == tickets[id] left == t.amount - Slice(id, share) IN
    IF ~Due(id) THEN t
    ELSE IF left = 0 THEN [t EXCEPT !.status = "Settled"]
    ELSE [t EXCEPT !.amount = left, !.cutoff = now + CutoffDelay]

Worked(ids, share) == {id \in ids : Due(id) /\ Slice(id, share) > 0}

SettleEvents(order, share) ==
  [i \in DOMAIN order |->
    LET t == Settled(order[i], share)
    IN  IF t.status = "Settled" THEN Emit("Settled", order[i], 0, 0)
        ELSE Emit("PartialFill", order[i], t.amount, 0)]

(* settle: tickets that are not pending or not due are skipped; the caller *)
(* lists them in any order.                                                *)
SettleOnChain(ids, share) ==
  /\ Mintable(ids, share)
  /\ tickets' = [id \in DOMAIN tickets |->
                  IF id \in ids THEN Settled(id, share) ELSE tickets[id]]
  /\ \E order \in SetToSeqs(Worked(ids, share)) : log' = log \o SettleEvents(order, share)

SettleByOther(id, share) ==
  /\ Due(id)
  /\ SettleOnChain({id}, share)
  /\ UNCHANGED <<now, keeperVars, backendVars>>

(* Time passes, and the prints grow old with it.                           *)
Advance ==
  /\ now < MaxNow /\ Load < MaxLoad
  /\ now' = now + 1
  /\ warm' = FALSE
  /\ UNCHANGED <<tickets, log, batch, backendVars>>

-----------------------------------------------------------------------------
(* The registry of queues: ForwardQueueRegistry                            *)

(* The enabling makes the row Live, and later refreshes by force.          *)
RowGoesLive ==
  /\ ~live
  /\ live' = TRUE
  /\ UNCHANGED <<bookVars, cached, dbVars, tick, keeperVars, historyVars, stops>>

ForceRefresh ==
  /\ live
  /\ cached' = TRUE
  /\ UNCHANGED <<bookVars, live, dbVars, tick, keeperVars, historyVars, stops>>

(* refresh(): nothing while the last one is younger than the ttl, which is *)
(* a choice here, or the pairs are read again.                             *)
Refresh(fresh) == cached' = IF fresh THEN cached ELSE live

-----------------------------------------------------------------------------
(* The indexer: IndexerService.tick                                        *)

LastIndexed == IF checkpoint # NoCheckpoint THEN checkpoint
        ELSE IF StartBlock > 0 THEN StartBlock - 1 ELSE Len(log) - 1

RangeEndUnclamped(head) == LastIndexed + 1 + MaxRange
RangeEnd(head) ==
  LET from == LastIndexed + 1 IN IF head - from > MaxRange THEN from + MaxRange ELSE head

TickHead ==
  /\ tick.pc = "idle"
  /\ Len(log) > LastIndexed
  /\ tick' = [NoTick EXCEPT !.pc = "refresh", !.from = LastIndexed + 1, !.to = RangeEnd(Len(log))]
  /\ UNCHANGED <<bookVars, live, cached, dbVars, keeperVars, historyVars, stops>>

(* The refresh reads the database, and installs what it read later.        *)
TickRefresh ==
  /\ tick.pc = "refresh"
  /\ tick' = [tick EXCEPT !.pc = "install", !.known = live]
  /\ UNCHANGED <<bookVars, live, cached, dbVars, keeperVars, historyVars, stops>>

(* The events of a range, which are applied kind by kind; those of a       *)
(* partial fill are given the cutoff the ticket has by now, or zero when   *)
(* that read fails.                                                        *)
Rank(kind) == CHOOSE k \in DOMAIN EventKinds : EventKinds[k] = kind
ByLastKind(e, f) ==
  Rank(e.kind) > Rank(f.kind) \/ (Rank(e.kind) = Rank(f.kind) /\ e.block < f.block)
ByKind(e, f) ==
  Rank(e.kind) < Rank(f.kind) \/ (Rank(e.kind) = Rank(f.kind) /\ e.block < f.block)

CutoffFromNow(id, read) == now + CutoffDelay
CutoffNow(id, read) == IF read THEN tickets[id].cutoff ELSE 0

Fetched(blocks, read) ==
  {[block |-> b, kind |-> log[b].kind, id |-> log[b].id, amount |-> log[b].amount,
    cutoff |-> IF log[b].kind = "PartialFill" THEN CutoffNow(log[b].id, read) ELSE log[b].cutoff]
   : b \in blocks}

(* The blocks of the tick's range: the head may still be the empty genesis. *)
Blocks == (tick.from..tick.to) \cap DOMAIN log

(* The pairs are those just installed, or those of a fresh registry.       *)
TickFetch(read) ==
  /\ tick.pc \in {"refresh", "install"}
  /\ cached' = IF tick.pc = "install" THEN tick.known ELSE cached
  /\ tick' = [tick EXCEPT !.pc = "apply", !.known = cached',
                          !.todo = IF cached' THEN Fetched(Blocks, read) ELSE {}]
  /\ UNCHANGED <<bookVars, live, dbVars, keeperVars, historyVars, stops>>

(* applyForwardEvent: a request writes the whole row, another event only   *)
(* its status, its remainder and its cutoff, or a row without owner when   *)
(* the request was never seen.                                             *)
RowStatus(kind) == CASE kind \in Requests -> "Pending"
                     [] kind = "PartialFill" -> "Partial"
                     [] OTHER -> kind
RowAfter(row, e) ==
  LET status == RowStatus(e.kind)
      isRequest == e.kind \in Requests
      left == IF e.kind \in {"Settled", "Cancelled"} THEN 0 ELSE e.amount
  IN  IF isRequest \/ row = NoTicket
        THEN [status |-> status, owned |-> isRequest, remaining |-> left, cutoff |-> e.cutoff,
              kind |-> IF e.kind = "RedeemRequested" THEN "Redeem" ELSE "Create",
              amount |-> IF isRequest THEN e.amount ELSE 0]
        ELSE [row EXCEPT !.status = status, !.remaining = left, !.cutoff = e.cutoff]

TickApply ==
  /\ tick.pc = "apply"
  /\ \E e \in tick.todo :
       /\ \A f \in tick.todo \ {e} : ByKind(e, f)
       /\ LET row == RowAfter(db[e.id], e) IN
            /\ db' = [db EXCEPT ![e.id] = row]
            /\ eventRows' = eventRows \cup {e.block}
            /\ activity' = IF row.owned THEN activity \cup {e.block} ELSE activity
       /\ tick' = [tick EXCEPT !.todo = @ \ {e}]
  /\ UNCHANGED <<bookVars, live, cached, checkpoint, keeperVars, historyVars, stops>>

CommitHead ==
  /\ tick.pc = "apply" /\ tick.todo = {}
  /\ checkpoint' = Len(log)
  /\ covered' = IF tick.known THEN covered \cup ((tick.from..Len(log)) \cap DOMAIN log) ELSE covered
  /\ replaying' = FALSE
  /\ tick' = NoTick
  /\ UNCHANGED <<bookVars, live, cached, db, eventRows, activity, keeperVars, stops>>

TickCommit ==
  /\ tick.pc = "apply" /\ tick.todo = {}
  /\ checkpoint' = tick.to
  /\ covered' = IF tick.known THEN covered \cup Blocks ELSE covered
  /\ replaying' = FALSE
  /\ tick' = NoTick
  /\ UNCHANGED <<bookVars, live, cached, db, eventRows, activity, keeperVars, stops>>

(* A call of the tick throws; the next tick starts over from the checkpoint.*)
TickThrows ==
  /\ tick.pc # "idle" /\ stops < MaxStops /\ Load < MaxLoad
  /\ tick' = NoTick
  /\ replaying' = (replaying \/ tick.pc = "apply")
  /\ stops' = stops + 1
  /\ UNCHANGED <<bookVars, live, cached, dbVars, keeperVars, covered>>

Crash ==
  /\ stops < MaxStops /\ Load < MaxLoad
  /\ tick' = NoTick
  /\ replaying' = (replaying \/ tick.pc = "apply")
  /\ cached' = FALSE
  /\ batch' = {}
  /\ stops' = stops + 1
  /\ UNCHANGED <<bookVars, live, dbVars, warm, covered>>

-----------------------------------------------------------------------------
(* The keepers: ForwardRecordService and ForwardSettleService              *)

Open(id) == db[id] # NoTicket /\ db[id].status \in {"Pending", "Partial"}

(* Only a vault with open tickets is poked.                                *)
RecordPass(fresh) ==
  /\ Refresh(fresh)
  /\ warm' = (warm \/ (cached' /\ \E id \in Ids : Open(id)))
  /\ UNCHANGED <<bookVars, live, dbVars, tick, batch, historyVars, stops>>

(* What can never settle is left out: a create no larger than the flat fee *)
(* as it was read, which is zero when that read fails.                     *)
KeepEveryTicket(id, fee) == FALSE
DropAnySmallTicket(id, fee) == db[id].remaining <= fee
Unsettleable(id, fee) == db[id].kind = "Create" /\ db[id].remaining <= fee
LiveTickets(fee) == {id \in Ids : Open(id) /\ db[id].cutoff <= now /\ ~Unsettleable(id, fee)}

FeeRead == {0, Fee}

ReadDueTickets(fresh, fee) ==
  /\ batch = {}
  /\ Refresh(fresh)
  /\ batch' = IF cached' THEN LiveTickets(fee) ELSE {}
  /\ UNCHANGED <<bookVars, live, dbVars, tick, warm, historyVars, stops>>

(* The settle goes out for the whole batch; the keeper does not wait.      *)
SubmitSettle(share) ==
  /\ batch # {} /\ warm
  /\ SettleOnChain(batch, share)
  /\ batch' = {}
  /\ UNCHANGED <<now, warm, backendVars>>

(* It reverts: the gate is closed, or some ticket of it mints nothing.     *)
SettleReverts ==
  /\ batch # {}
  /\ batch' = {}
  /\ UNCHANGED <<bookVars, warm, backendVars>>

TickStep == TickHead \/ TickRefresh \/ (\E read \in BOOLEAN : TickFetch(read))
              \/ TickApply \/ TickCommit

SyncNext ==
  \/ \E order \in Orders : Request(order)
  \/ \E id \in Ids : Cancel(id)
  \/ \E id \in Ids, share \in Shares : SettleByOther(id, share)
  \/ Advance
  \/ RowGoesLive \/ ForceRefresh
  \/ TickStep \/ TickThrows \/ Crash
  \/ \E fresh \in BOOLEAN : RecordPass(fresh) \/ \E fee \in FeeRead : ReadDueTickets(fresh, fee)
  \/ \E share \in Shares : SubmitSettle(share)
  \/ SettleReverts

(* The jobs are scheduled for ever: a tick goes on, a pass of each keeper  *)
(* follows another, the ttl passes between them, and the fee is read again *)
(* and again.  The market opens and the capacity suffices again and again, *)
(* and a settle goes through then when it can.                             *)
SyncFairness ==
  /\ WF_syncVars(TickStep)
  /\ SF_syncVars(ReadDueTickets(FALSE, Fee)) /\ SF_syncVars(RecordPass(FALSE))
  /\ WF_syncVars(SettleReverts) /\ SF_syncVars(SubmitSettle("all"))
SyncSpec == SyncInit /\ [][SyncNext]_syncVars /\ SyncFairness

-----------------------------------------------------------------------------
(* Properties                                                              *)

(* The contract's and the database's tickets keep their shape, and the     *)
(* indexer never claims, reads or stores a block there is not.             *)
SyncTypeOK ==
  /\ now \in 0..MaxNow
  /\ tickets \in Seq(Ticket) /\ Len(tickets) <= MaxTickets
  /\ log \in Seq(Event)
  /\ {live, cached, warm, replaying} \subseteq BOOLEAN
  /\ db \in [Ids -> TicketRow \cup {NoTicket}]
  /\ eventRows \cup activity \cup covered \subseteq DOMAIN log
  /\ checkpoint \in {NoCheckpoint} \cup 0..Len(log)
  /\ tick.pc \in {"idle", "refresh", "install", "apply"}
  /\ tick.to <= Len(log)
  /\ batch \subseteq Ids
  /\ stops \in 0..MaxStops

(* What the events of a ticket up to block `upto` make of it.              *)
EventsOf(id, upto) == {b \in 1..upto : log[b].id = id}
LatestOf(id, upto) == CHOOSE b \in EventsOf(id, upto) : \A c \in EventsOf(id, upto) : c <= b
Covered(id, upto) ==
  EventsOf(id, upto) # {} /\ EventsOf(id, upto) \subseteq covered

(* What a holder sees of a ticket: cutoffs apart, the row, the events and  *)
(* the feed are those of the log.                                          *)
Exact(id, upto) ==
  LET request == log[CHOOSE b \in EventsOf(id, upto) : log[b].kind \in Requests]
      latest == log[LatestOf(id, upto)]
  IN  /\ db[id] # NoTicket
      /\ db[id].owned
      /\ db[id].kind = IF request.kind = "RedeemRequested" THEN "Redeem" ELSE "Create"
      /\ db[id].amount = request.amount
      /\ db[id].status = RowStatus(latest.kind)
      /\ db[id].remaining = latest.amount
      /\ EventsOf(id, upto) \subseteq eventRows \cap activity

(* When a tick moves the checkpoint, every ticket all of whose events fell *)
(* in ranges that were read is exactly what the log says up to there,      *)
(* whatever was replayed, and although the events of a range are applied   *)
(* kind by kind (indexer.service.ts 562-566, indexer.repository.ts 319-323).*)
CommitIsExact ==
  [][checkpoint' # checkpoint =>
       \A id \in Ids : Covered(id, checkpoint)' => Exact(id, checkpoint)']_syncVars

(* A ticket shown as settled or cancelled is shown as open again only      *)
(* while a tick repeats a range an earlier one left half applied           *)
(* (indexer.repository.ts 319-320 calls a re-index a no-op).               *)
ClosedUnlessReplaying ==
  [][\A id \in Ids : db[id] # NoTicket /\ db[id].status \in {"Settled", "Cancelled"}
                       /\ db'[id].status # db[id].status => replaying]_syncVars

(* The keeper never waits longer than the contract: a row that is open     *)
(* while its ticket is shows no later cutoff than the ticket's.            *)
CutoffNeverLate ==
  \A id \in Ids : Open(id) /\ tickets[id].status = "Pending" =>
    db[id].cutoff <= tickets[id].cutoff

(* What the keeper leaves out of a batch could not have been filled: each  *)
(* ticket that a settle could fill and the database shows as open, however *)
(* old its row is, is in the batch, whether or not the fee could be read   *)
(* (forward-settle.service.ts 57-69).                                      *)
Fillable(id) == Due(id) /\ Fills(id, tickets[id].amount)
NothingFillableIsLeftOut ==
  \A id \in Ids, fee \in FeeRead : Fillable(id) /\ Open(id) => id \in LiveTickets(fee)

(* A due ticket the keeper can see, and a settle could fill, is settled or *)
(* gets a new cutoff, unless there is a due create above the fee that buys *)
(* no share after it: that one passes the filter for tickets that can      *)
(* never settle (forward-settle.service.ts 57-69), reverts every batch it  *)
(* is in, and can no longer be cancelled.                                  *)
Starves(id) ==
  /\ Open(id) /\ Due(id)
  /\ tickets[id].kind = "Create" /\ tickets[id].amount > Fee
  /\ (tickets[id].amount - Fee) \div Price = 0
DueTicketsSettle ==
  \A id \in Ids :
    (Fillable(id) /\ Open(id)) ~> (~Fillable(id) \/ \E other \in Ids : Starves(other))
=============================================================================
