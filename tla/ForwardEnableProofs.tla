------------------------ MODULE ForwardEnableProofs ------------------------
(***************************************************************************)
(* Only the queue the row names is ever configured or given rights, for    *)
(* any number of requests, of redeliveries, of stops and of throws.  The   *)
(* argument: between the delivery of a job and the receipt of its          *)
(* deployment the row names no queue, or the one the run works on, and     *)
(* from the write of the address on both name the same; so what is sent    *)
(* for a queue is always sent for the row's, and the row's never changes   *)
(* once it is there.                                                       *)
(*                                                                         *)
(* And a row that says Live says so of a queue that is wired, or will be   *)
(* once what was sent is mined.  The argument counts what the chain comes  *)
(* to with everything in the mempool mined, which no later transaction of  *)
(* the same run takes back: the handler has sent all it should have when   *)
(* it writes Live, and if a request changed the row meanwhile another job  *)
(* is waiting, or its call still stands before the send.                   *)
(***************************************************************************)
EXTENDS ForwardEnable, TLAPS

PCs == Working \cup {"idle", "failed"}
RunType == [pc : PCs, queue : Deployed \cup {NoQueue},
            params : Params \cup {NoParams}, at : Nat, tries : 0..RetryLimit]
QueueType == [SetterNames -> Params \cup {NoParams}]
WiredType == [sources : [HeldTokens -> Seq(SourceKinds)], executors : SUBSET Deployed,
              settlers : SUBSET Deployed, capped : BOOLEAN, keeper : Params \cup {NoParams}]

Early == {"start", "sources", "weekend", "deploy", "deploying"}
Late == {"config", "executor", "reward", "settler", "keeperBps", "live"}

(* The row and the requests.                                               *)
RowInv ==
  /\ row \in Row
  /\ call \in [Calls -> Stages]
  /\ (jobs # <<>> \/ ~At("idle") \/ \E c \in Calls : call[c] = "stored") => row.params \in Params
JobsInv == jobs \in Seq(0..RetryLimit)

(* The handler's copy, and how it relates to the row.                      *)
RunInv ==
  /\ run \in RunType
  /\ ~At("idle") => run.params \in Params
  /\ At("config") => run.at \in 1..Len(Setters)
  /\ run.pc \in {"start", "sources"} => run.at >= 1
  /\ At("weekend") => run.at \in 1..Len(Held)
QueueInv ==
  /\ run.pc \in Early => run.queue = row.queue
  /\ At("deploying") => run.queue = NoQueue
  /\ At("persist") => row.queue = NoQueue /\ run.queue \in Deployed
  /\ run.pc \in Late => run.queue = row.queue /\ run.queue \in Deployed

(* A deployment that is waited for is on its way, or mined.                *)
Coming == queues # <<>> \/ \E i \in DOMAIN mempool : mempool[i] = DeployTx
ComingInv == At("deploying") => Coming

ChainInv ==
  /\ queues \in Seq(QueueType)
  /\ wired \in WiredType
  /\ mempool \in Seq(Tx)
StopsInv == torn \subseteq HeldTokens /\ crashes \in 0..MaxCrashes /\ faults \in 0..MaxFaults

(* What is or will be done to a queue is done to the row's.                *)
ForQueue == {"set", "setExecutor", "setSettler"}
TouchedInv ==
  /\ \A q \in Deployed : queues[q] # Blank => row.queue = q
  /\ \A q \in wired.executors \cup wired.settlers : row.queue = q
  /\ \A i \in DOMAIN mempool : mempool[i].op \in ForQueue => mempool[i].queue = row.queue

EnableInv ==
  /\ RowInv /\ JobsInv /\ RunInv /\ QueueInv /\ ComingInv
  /\ ChainInv /\ StopsInv /\ TouchedInv

-----------------------------------------------------------------------------
LEMMA SettersLength ==
  /\ Len(Setters) = 6
  /\ \A i \in 1..Len(Setters) : Setters[i] \in SetterNames
<1>1. Len(Setters) = 6 /\ DOMAIN Setters = 1..6
  BY DEF Setters
<1> QED
  BY <1>1 DEF SetterNames, Range

LEMMA HeldInTokens == \A i \in 1..Len(Held) : Held[i] \in HeldTokens
<1>1. DOMAIN Held = 1..Len(Held)
  BY EnableAssumption
<1> QED
  BY <1>1 DEF HeldTokens, Range

LEMMA DeployedType ==
  ASSUME ChainInv
  PROVE  Deployed \subseteq Nat \ {0} /\ NoQueue \notin Deployed /\ Len(queues) \in Nat
         /\ (queues # <<>> => Len(queues) \in Deployed)
BY EnableAssumption DEF ChainInv, Deployed

LEMMA InitEnableInv == EnableInit => EnableInv
<1> SUFFICES ASSUME EnableInit PROVE EnableInv
  OBVIOUS
<1> USE DEF EnableInit
<1>1. queues = <<>> /\ Deployed = {} /\ mempool = <<>> /\ run = Idle /\ row = NoRow
  BY DEF Deployed
<1>2. RowInv /\ JobsInv
  BY <1>1 DEF RowInv, JobsInv, Row, NoRow, Statuses, Stages, Idle, At
<1>3. RunInv
  BY <1>1, EnableAssumption DEF RunInv, RunType, PCs, Working, Idle, At
<1>4. QueueInv /\ ComingInv
  BY <1>1 DEF QueueInv, ComingInv, Early, Late, Idle, At
<1>5. wired \in WiredType
  <2>1. [t \in HeldTokens |-> <<>>] \in [HeldTokens -> Seq(SourceKinds)]
    OBVIOUS
  <2> QED
    BY <2>1 DEF WiredType
<1>6. ChainInv
  BY <1>1, <1>5 DEF ChainInv
<1>7. StopsInv
  BY EnableAssumption DEF StopsInv
<1>8. TouchedInv
  BY <1>1 DEF TouchedInv
<1> QED
  BY <1>2, <1>3, <1>4, <1>6, <1>7, <1>8 DEF EnableInv

-----------------------------------------------------------------------------
(* What is sent for the row's queue keeps the chain's part.                *)
LEMMA SendKeeps ==
  ASSUME ChainInv, TouchedInv, NEW txs \in Seq(Tx),
         mempool' = mempool \o txs, queues' = queues, wired' = wired,
         row'.queue = row.queue,
         \A i \in DOMAIN txs : txs[i].op \in ForQueue => txs[i].queue = row.queue
  PROVE  ChainInv' /\ TouchedInv' /\ (Coming => Coming') /\ Deployed' = Deployed
<1>1. Deployed' = Deployed /\ Tx' = Tx
  BY DEF Deployed, Tx
<1>2. mempool' \in Seq(Tx)
  BY DEF ChainInv
<1>3. ChainInv'
  BY <1>1, <1>2 DEF ChainInv, QueueType, WiredType
<1>4. \A i \in DOMAIN mempool' :
        \/ i \in DOMAIN mempool /\ mempool'[i] = mempool[i]
        \/ \E j \in DOMAIN txs : mempool'[i] = txs[j]
  <2> SUFFICES ASSUME NEW i \in DOMAIN mempool', i \notin DOMAIN mempool
               PROVE  \E j \in DOMAIN txs : mempool'[i] = txs[j]
    BY DEF ChainInv
  <2>1. i \in Len(mempool) + 1 .. Len(mempool) + Len(txs)
    BY DEF ChainInv
  <2>2. i - Len(mempool) \in DOMAIN txs /\ mempool'[i] = txs[i - Len(mempool)]
    BY <2>1 DEF ChainInv
  <2> QED
    BY <2>2
<1>5. \A i \in DOMAIN mempool : i \in DOMAIN mempool' /\ mempool'[i] = mempool[i]
  BY DEF ChainInv
<1>6. TouchedInv'
  BY <1>1, <1>4 DEF TouchedInv
<1> QED
  BY <1>1, <1>3, <1>5, <1>6 DEF Coming

LEMMA ChainStays ==
  ASSUME ChainInv, TouchedInv, UNCHANGED chainVars, row'.queue = row.queue
  PROVE  ChainInv' /\ TouchedInv' /\ (Coming => Coming') /\ Deployed' = Deployed
BY DEF chainVars, ChainInv, TouchedInv, Coming, Deployed, Tx, QueueType, WiredType

(* The handler's transactions are transactions.                            *)
LEMMA TxMember ==
  /\ DeployTx \in Tx /\ RewardTx \in Tx
  /\ \A t \in HeldTokens, s \in SourceKinds : SourceTx(t, s) \in Tx
  /\ \A q \in Deployed : ExecutorTx(q) \in Tx /\ SettlerTx(q) \in Tx
  /\ \A q \in Deployed, s \in SetterNames, p \in Params : SetterTx(q, s, p) \in Tx
  /\ \A p \in Params : KeeperTx(p) \in Tx
BY DEF Tx

-----------------------------------------------------------------------------
(* The endpoint's steps.                                                   *)
LEMMA CallKeepsInv ==
  ASSUME EnableInv, NEW c \in Calls,
         CheckRow(c) \/ VerifySignature(c) \/ StoreRequest(c) \/ SendJob(c) \/ LoseCall(c)
  PROVE  EnableInv'
<1> USE DEF EnableInv
<1>0. /\ UNCHANGED <<run, chainVars, torn, crashes>>
      /\ row'.queue = row.queue
  BY DEF CheckRow, VerifySignature, StoreRequest, SendJob, LoseCall, workVars, stopVars, RowInv, Row
<1>1. ChainInv' /\ TouchedInv' /\ (Coming => Coming') /\ Deployed' = Deployed
  BY <1>0, ChainStays
<1>2. RunInv' /\ QueueInv' /\ ComingInv'
  BY <1>0, <1>1 DEF RunInv, QueueInv, ComingInv, RunType, At
<1>3. faults' \in 0..MaxFaults
  BY EnableAssumption
     DEF CheckRow, VerifySignature, StoreRequest, SendJob, LoseCall, stopVars, StopsInv
<1>4. StopsInv'
  BY <1>0, <1>3 DEF StopsInv
<1>5. JobsInv'
  BY EnableAssumption
     DEF JobsInv, CheckRow, VerifySignature, StoreRequest, SendJob, LoseCall, workVars
<1>6. call' \in [Calls -> Stages]
  BY DEF CheckRow, VerifySignature, StoreRequest, SendJob, LoseCall, Moves, RowInv, Stages
<1>7. RowInv'
  <2>1. CASE StoreRequest(c)
    <3>1. row' = [row EXCEPT !.status = "Pending", !.params = Asked[c]] /\ Asked[c] \in Params
      BY <2>1, EnableAssumption DEF StoreRequest
    <3>2. row' \in Row /\ row'.params \in Params
      BY <3>1 DEF RowInv, Row, Statuses
    <3>3. row' \in Row'
      BY <3>2, <1>1 DEF Row
    <3> QED
      BY <3>2, <3>3, <1>6 DEF RowInv
  <2>2. CASE SendJob(c)
    <3>1. call[c] = "stored" /\ row' = row
      BY <2>2 DEF SendJob, Moves
    <3>2. row.params \in Params
      BY <3>1 DEF RowInv
    <3>3. row' \in Row'
      BY <3>1, <1>1 DEF RowInv, Row
    <3> QED
      BY <3>1, <3>2, <3>3, <1>6 DEF RowInv
  <2>3. CASE CheckRow(c) \/ VerifySignature(c) \/ LoseCall(c)
    <3>1. row' = row /\ jobs' = jobs /\ run' = run
      BY <2>3 DEF CheckRow, VerifySignature, LoseCall, workVars
    <3>2. \A d \in Calls : call'[d] = "stored" => call[d] = "stored"
      BY <2>3 DEF CheckRow, VerifySignature, LoseCall, Moves, RowInv
    <3>3. row' \in Row'
      BY <3>1, <1>1 DEF RowInv, Row
    <3> QED
      BY <3>1, <3>2, <3>3, <1>6 DEF RowInv, At
  <2> QED
    BY <2>1, <2>2, <2>3
<1> QED
  BY <1>1, <1>2, <1>4, <1>5, <1>7

-----------------------------------------------------------------------------
(* The handler's steps.  A step that leaves the row's queue and parameters *)
(* and sends for the row's queue keeps all but the handler's own part.     *)
LEMMA HandlerFrame ==
  ASSUME EnableInv, ~At("idle"), UNCHANGED <<call, jobs, queues, wired, stopVars>>,
         NEW txs \in Seq(Tx), mempool' = mempool \o txs,
         \A i \in DOMAIN txs : txs[i].op \in ForQueue => txs[i].queue = row.queue,
         row' \in Row, row'.queue = row.queue, row'.params = row.params,
         RunInv', QueueInv', At("deploying")' => Coming \/ \E i \in DOMAIN txs : txs[i] = DeployTx
  PROVE  EnableInv'
<1> USE DEF EnableInv
<1>1. ChainInv' /\ TouchedInv' /\ (Coming => Coming') /\ Deployed' = Deployed
  BY SendKeeps
<1>2. RowInv'
  <2>1. row' \in Row'
    BY <1>1 DEF Row
  <2>2. row.params \in Params
    BY DEF RowInv
  <2> QED
    BY <2>1, <2>2 DEF RowInv
<1>3. JobsInv' /\ StopsInv'
  BY DEF JobsInv, StopsInv, stopVars
<1>4. ComingInv'
  <2>1. ASSUME NEW i \in DOMAIN txs, txs[i] = DeployTx PROVE Coming'
    <3>1. Len(mempool) + i \in DOMAIN mempool' /\ mempool'[Len(mempool) + i] = DeployTx
      BY <2>1 DEF ChainInv
    <3> QED
      BY <3>1 DEF Coming
  <2> QED
    BY <1>1, <2>1 DEF ComingInv
<1> QED
  BY <1>1, <1>2, <1>3, <1>4

(* The status alone of the row changes when the queue given is its own.    *)
LEMMA WiringKeepsRow ==
  ASSUME RowInv, SetWiring \/ SetWiringAt(row.queue)
  PROVE  row' \in Row /\ row'.queue = row.queue /\ row'.params = row.params
BY DEF RowInv, Row, Statuses, SetWiring, SetWiringAt

(* What a handler at work knows of its own copy.                           *)
LEMMA RunFields ==
  ASSUME RunInv
  PROVE  /\ run.pc \in PCs /\ run.queue \in Deployed \cup {NoQueue}
         /\ run.params \in Params \cup {NoParams} /\ run.at \in Nat
         /\ run.tries \in 0..RetryLimit
         /\ run = [pc |-> run.pc, queue |-> run.queue, params |-> run.params,
                   at |-> run.at, tries |-> run.tries]
BY DEF RunInv, RunType

(* Where a handler at work may go, and with which copy.                    *)
MayBe(pc, q, at) ==
  /\ pc \in PCs /\ q \in Deployed \cup {NoQueue} /\ at \in Nat
  /\ pc = "config" => at \in 1..Len(Setters)
  /\ pc \in {"start", "sources"} => at >= 1
  /\ pc = "weekend" => at \in 1..Len(Held)
Linked(pc, q, stored) ==
  /\ pc \in Early => q = stored
  /\ pc = "deploying" => q = NoQueue
  /\ pc = "persist" => stored = NoQueue /\ q \in Deployed
  /\ pc \in Late => q = stored /\ q \in Deployed

LEMMA RunGoes ==
  ASSUME RunInv, ~At("idle"), Deployed' = Deployed, run' \in RunType,
         run'.params = run.params, MayBe(run'.pc, run'.queue, run'.at),
         Linked(run'.pc, run'.queue, row'.queue)
  PROVE  RunInv' /\ QueueInv'
<1>1. run.params \in Params
  BY DEF RunInv
<1>2. RunInv'
  BY <1>1 DEF RunInv, RunType, MayBe, At
<1>3. QueueInv'
  BY DEF QueueInv, Linked, At
<1> QED
  BY <1>2, <1>3

(* A handler's step of its own, the row's queue staying, is such a step    *)
(* when the place it goes to takes its copy.                               *)
LEMMA HandlerStepKeepsInv ==
  ASSUME EnableInv, ~At("idle"), UNCHANGED <<call, jobs, queues, wired, stopVars>>,
         NEW txs \in Seq(Tx), mempool' = mempool \o txs,
         \A i \in DOMAIN txs : txs[i].op \in ForQueue => txs[i].queue = row.queue,
         row' \in Row, row'.queue = row.queue, row'.params = row.params,
         run' \in RunType, run'.params = run.params,
         MayBe(run'.pc, run'.queue, run'.at), Linked(run'.pc, run'.queue, row.queue),
         run'.pc = "deploying" => \E i \in DOMAIN txs : txs[i] = DeployTx
  PROVE  EnableInv'
<1>1. Deployed' = Deployed
  BY DEF Deployed
<1>2. RunInv' /\ QueueInv'
  BY <1>1, RunGoes DEF EnableInv
<1>3. At("deploying")' => run'.pc = "deploying"
  BY DEF At
<1> QED
  BY <1>2, <1>3, HandlerFrame

(* ... when it sends nothing,                                              *)
LEMMA LocalStepKeepsInv ==
  ASSUME EnableInv, ~At("idle"), UNCHANGED <<call, jobs, chainVars, stopVars>>,
         row' \in Row, row'.queue = row.queue, row'.params = row.params,
         run' \in RunType, run'.params = run.params,
         MayBe(run'.pc, run'.queue, run'.at), Linked(run'.pc, run'.queue, row.queue),
         run'.pc # "deploying"
  PROVE  EnableInv'
<1> DEFINE txs == <<>>
<1>1. txs \in Seq(Tx) /\ DOMAIN txs = {}
  OBVIOUS
<1>2. mempool' = mempool \o txs
  BY DEF EnableInv, ChainInv, chainVars
<1> HIDE DEF txs
<1> QED
  BY <1>1, <1>2, HandlerStepKeepsInv DEF chainVars

(* ... and when it sends one transaction.                                  *)
LEMMA SendStepKeepsInv ==
  ASSUME EnableInv, ~At("idle"), UNCHANGED <<call, jobs, queues, wired, stopVars>>,
         NEW tx \in Tx, mempool' = mempool \o <<tx>>,
         tx.op \in ForQueue => tx.queue = row.queue,
         row' \in Row, row'.queue = row.queue, row'.params = row.params,
         run' \in RunType, run'.params = run.params,
         MayBe(run'.pc, run'.queue, run'.at), Linked(run'.pc, run'.queue, row.queue),
         run'.pc = "deploying" => tx = DeployTx
  PROVE  EnableInv'
<1> DEFINE txs == <<tx>>
<1>1. txs \in Seq(Tx) /\ DOMAIN txs = {1} /\ txs[1] = tx
  OBVIOUS
<1> HIDE DEF txs
<1> QED
  BY <1>1, HandlerStepKeepsInv DEF txs

LEMMA StartKeepsInv == EnableInv /\ Start => EnableInv'
<1> SUFFICES ASSUME EnableInv, Start PROVE EnableInv'
  OBVIOUS
<1> USE DEF EnableInv
<1>1. /\ run.pc = "start" /\ run' = [run EXCEPT !.pc = "sources"]
      /\ UNCHANGED <<call, jobs, chainVars, stopVars>>
  BY DEF Start, Goto, At
<1>2. /\ run'.pc = "sources" /\ run'.queue = run.queue /\ run'.at = run.at
      /\ run'.params = run.params /\ run' \in RunType
  BY <1>1 DEF RunInv, RunType, PCs, Working
<1>3. row' \in Row /\ row'.queue = row.queue /\ row'.params = row.params
  BY WiringKeepsRow DEF Start
<1>4. MayBe(run'.pc, run'.queue, run'.at)
  BY <1>1, <1>2, RunFields DEF MayBe, PCs, Working, RunInv
<1>5. Linked(run'.pc, run'.queue, row.queue)
  BY <1>1, <1>2 DEF Linked, QueueInv, Early, Late
<1>6. ~At("idle") /\ run'.pc # "deploying"
  BY <1>1, <1>2 DEF At
<1> QED
  BY <1>1, <1>2, <1>3, <1>4, <1>5, <1>6, LocalStepKeepsInv

LEMMA EnsureSourcesKeepsInv == EnableInv /\ EnsureSources => EnableInv'
<1> SUFFICES ASSUME EnableInv, EnsureSources PROVE EnableInv'
  OBVIOUS
<1> USE DEF EnableInv
<1>1. CASE wired.sources[Held[run.at]] # <<>>
  <2>1. /\ run.pc = "sources" /\ run' = [run EXCEPT !.at = @ + 1]
        /\ UNCHANGED <<call, jobs, chainVars, stopVars>>
    BY <1>1 DEF EnsureSources, Goto, At, Send, chainVars
  <2>2. run.at \in Nat
    BY RunFields
  <2>3. /\ run'.pc = "sources" /\ run'.queue = run.queue /\ run'.at = run.at + 1
        /\ run'.params = run.params /\ run' \in RunType
    BY <2>1, <2>2 DEF RunInv, RunType, PCs, Working
  <2>4. row' \in Row /\ row'.queue = row.queue /\ row'.params = row.params
    BY <1>1 DEF EnsureSources, RowInv
  <2>5. MayBe(run'.pc, run'.queue, run'.at)
    BY <1>1, <2>1, <2>2, <2>3, RunFields DEF MayBe, PCs, Working, RunInv, Setters
  <2>6. Linked(run'.pc, run'.queue, row.queue)
    BY <1>1, <2>1, <2>3 DEF Linked, QueueInv, Early, Late
  <2>7. ~At("idle") /\ run'.pc # "deploying"
    BY <2>1, <2>3 DEF At
  <2> QED
    BY <2>1, <2>3, <2>4, <2>5, <2>6, <2>7, LocalStepKeepsInv
<1>2. CASE ~(wired.sources[Held[run.at]] # <<>>)
  <2>0. run.at \in 1..Len(Held) /\ Held[run.at] \in HeldTokens /\ "weekday" \in SourceKinds
    BY HeldInTokens, RunFields, EnableAssumption DEF EnsureSources, RunInv, At, SourceKinds
  <2>1. /\ run.pc = "sources" /\ run' = [run EXCEPT !.pc = "weekend"]
        /\ UNCHANGED <<call, jobs, queues, wired, stopVars>>
    BY <1>2 DEF EnsureSources, Goto, At, Send, chainVars
  <2>2. run.at \in Nat
    BY RunFields
  <2>3. /\ run'.pc = "weekend" /\ run'.queue = run.queue /\ run'.at = run.at
        /\ run'.params = run.params /\ run' \in RunType
    BY <2>1, <2>2 DEF RunInv, RunType, PCs, Working
  <2>4. row' \in Row /\ row'.queue = row.queue /\ row'.params = row.params
    BY <1>2 DEF EnsureSources, RowInv
  <2>5. MayBe(run'.pc, run'.queue, run'.at)
    BY <1>2, <2>1, <2>2, <2>3, RunFields, <2>0 DEF MayBe, PCs, Working, RunInv, Setters
  <2>6. Linked(run'.pc, run'.queue, row.queue)
    BY <1>2, <2>1, <2>3 DEF Linked, QueueInv, Early, Late
  <2>7. ~At("idle") /\ mempool' = mempool \o <<SourceTx(Held[run.at], "weekday")>>
    BY <1>2, <2>1 DEF EnsureSources, Goto, At, Send
  <2>8. SourceTx(Held[run.at], "weekday") \in Tx
    BY <1>2, <2>1, TxMember, <2>0 DEF RunInv, QueueInv, Late, At
  <2>9. /\ SourceTx(Held[run.at], "weekday").op \in ForQueue => SourceTx(Held[run.at], "weekday").queue = row.queue
        /\ run'.pc = "deploying" => SourceTx(Held[run.at], "weekday") = DeployTx
    BY <2>1, <2>3 DEF ForQueue, QueueInv, Late, SourceTx, DeployTx, SetterTx, ExecutorTx, RewardTx, SettlerTx, KeeperTx
  <2> QED
    BY <2>1, <2>3, <2>4, <2>5, <2>6, <2>7, <2>8, <2>9, SendStepKeepsInv
<1> QED
  BY <1>1, <1>2 DEF EnsureSources

LEMMA AddWeekendSourceKeepsInv == EnableInv /\ AddWeekendSource => EnableInv'
<1> SUFFICES ASSUME EnableInv, AddWeekendSource PROVE EnableInv'
  OBVIOUS
<1> USE DEF EnableInv
<1>0. Held[run.at] \in HeldTokens /\ "weekend" \in SourceKinds
  BY HeldInTokens DEF AddWeekendSource, RunInv, At, SourceKinds
<1>1. /\ run.pc = "weekend" /\ run' = [run EXCEPT !.pc = "sources", !.at = run.at + 1]
      /\ UNCHANGED <<call, jobs, queues, wired, stopVars>>
  BY DEF AddWeekendSource, Goto, At, Send, chainVars
<1>2. run.at \in Nat
  BY RunFields
<1>3. /\ run'.pc = "sources" /\ run'.queue = run.queue /\ run'.at = run.at + 1
      /\ run'.params = run.params /\ run' \in RunType
  <2>1. PICK next \in Nat : next = run.at + 1
    BY <1>2
  <2>2. run' = [run EXCEPT !.pc = "sources", !.at = next]
    BY <1>1, <2>1, Zenon
  <2>3. /\ run'.pc = "sources" /\ run'.queue = run.queue /\ run'.at = next
        /\ run'.params = run.params /\ run' \in RunType
    BY <2>2 DEF RunInv, RunType, PCs, Working
  <2> QED
    BY <2>1, <2>3
<1>4. row' \in Row /\ row'.queue = row.queue /\ row'.params = row.params
  BY DEF AddWeekendSource, RowInv
<1>5. MayBe(run'.pc, run'.queue, run'.at)
  BY <1>1, <1>2, <1>3, RunFields, <1>0 DEF MayBe, PCs, Working, RunInv, Setters
<1>6. Linked(run'.pc, run'.queue, row.queue)
  BY <1>1, <1>3 DEF Linked, QueueInv, Early, Late
<1>7. ~At("idle") /\ mempool' = mempool \o <<SourceTx(Held[run.at], "weekend")>>
  BY <1>1 DEF AddWeekendSource, Goto, At, Send
<1>8. SourceTx(Held[run.at], "weekend") \in Tx
  BY <1>1, TxMember, <1>0 DEF RunInv, QueueInv, Late, At
<1>9. /\ SourceTx(Held[run.at], "weekend").op \in ForQueue => SourceTx(Held[run.at], "weekend").queue = row.queue
      /\ run'.pc = "deploying" => SourceTx(Held[run.at], "weekend") = DeployTx
  BY <1>1, <1>3 DEF ForQueue, QueueInv, Late, SourceTx, DeployTx, SetterTx, ExecutorTx, RewardTx, SettlerTx, KeeperTx
<1> QED
  BY <1>1, <1>3, <1>4, <1>5, <1>6, <1>7, <1>8, <1>9, SendStepKeepsInv

LEMMA SourcesDoneKeepsInv == EnableInv /\ SourcesDone => EnableInv'
<1> SUFFICES ASSUME EnableInv, SourcesDone PROVE EnableInv'
  OBVIOUS
<1> USE DEF EnableInv
<1>1. /\ run.pc = "sources" /\ run' = [run EXCEPT !.pc = "deploy"]
      /\ UNCHANGED <<call, jobs, chainVars, stopVars>>
  BY DEF SourcesDone, Goto, At, Send, chainVars
<1>2. run.at \in Nat
  BY RunFields
<1>3. /\ run'.pc = "deploy" /\ run'.queue = run.queue /\ run'.at = run.at
      /\ run'.params = run.params /\ run' \in RunType
  BY <1>1, <1>2 DEF RunInv, RunType, PCs, Working
<1>4. row' \in Row /\ row'.queue = row.queue /\ row'.params = row.params
  BY DEF SourcesDone, RowInv
<1>5. MayBe(run'.pc, run'.queue, run'.at)
  BY <1>1, <1>2, <1>3, RunFields DEF MayBe, PCs, Working, RunInv, Setters
<1>6. Linked(run'.pc, run'.queue, row.queue)
  BY <1>1, <1>3 DEF Linked, QueueInv, Early, Late
<1>7. ~At("idle") /\ run'.pc # "deploying"
  BY <1>1, <1>3 DEF At
<1> QED
  BY <1>1, <1>3, <1>4, <1>5, <1>6, <1>7, LocalStepKeepsInv

LEMMA DeployQueueKeepsInv == EnableInv /\ DeployQueue => EnableInv'
<1> SUFFICES ASSUME EnableInv, DeployQueue PROVE EnableInv'
  OBVIOUS
<1> USE DEF EnableInv
<1>1. CASE run.queue = NoQueue
  <2>1. /\ run.pc = "deploy" /\ run' = [run EXCEPT !.pc = "deploying"]
        /\ UNCHANGED <<call, jobs, queues, wired, stopVars>>
    BY <1>1 DEF DeployQueue, Goto, At, Send, chainVars
  <2>2. run.at \in Nat
    BY RunFields
  <2>3. /\ run'.pc = "deploying" /\ run'.queue = run.queue /\ run'.at = run.at
        /\ run'.params = run.params /\ run' \in RunType
    BY <2>1, <2>2 DEF RunInv, RunType, PCs, Working
  <2>4. row' \in Row /\ row'.queue = row.queue /\ row'.params = row.params
    BY <1>1, <2>1, WiringKeepsRow DEF DeployQueue, QueueInv, Late
  <2>5. MayBe(run'.pc, run'.queue, run'.at)
    BY <1>1, <2>1, <2>2, <2>3, RunFields DEF MayBe, PCs, Working, RunInv, Setters
  <2>6. Linked(run'.pc, run'.queue, row.queue)
    BY <1>1, <2>1, <2>3, <1>1 DEF Linked, QueueInv, Early, Late
  <2>7. ~At("idle") /\ mempool' = mempool \o <<DeployTx>>
    BY <1>1, <2>1 DEF DeployQueue, Goto, At, Send
  <2>8. DeployTx \in Tx
    BY <1>1, <2>1, TxMember DEF RunInv, QueueInv, Late, At
  <2>9. /\ DeployTx.op \in ForQueue => DeployTx.queue = row.queue
        /\ run'.pc = "deploying" => DeployTx = DeployTx
    BY <2>1, <2>3 DEF ForQueue, QueueInv, Late, SourceTx, DeployTx, SetterTx, ExecutorTx, RewardTx, SettlerTx, KeeperTx
  <2> QED
    BY <2>1, <2>3, <2>4, <2>5, <2>6, <2>7, <2>8, <2>9, SendStepKeepsInv
<1>2. CASE run.queue # NoQueue
  <2>1. /\ run.pc = "deploy" /\ run' = [run EXCEPT !.pc = "config", !.at = 1]
        /\ UNCHANGED <<call, jobs, chainVars, stopVars>>
    BY <1>2 DEF DeployQueue, Goto, At, Send, chainVars
  <2>2. run.at \in Nat
    BY RunFields
  <2>3. /\ run'.pc = "config" /\ run'.queue = run.queue /\ run'.at = 1
        /\ run'.params = run.params /\ run' \in RunType
    BY <2>1, <2>2 DEF RunInv, RunType, PCs, Working
  <2>4. row' \in Row /\ row'.queue = row.queue /\ row'.params = row.params
    BY <1>2, <2>1, WiringKeepsRow DEF DeployQueue, QueueInv, Late
  <2>5. MayBe(run'.pc, run'.queue, run'.at)
    BY <1>2, <2>1, <2>2, <2>3, RunFields DEF MayBe, PCs, Working, RunInv, Setters
  <2>6. Linked(run'.pc, run'.queue, row.queue)
    BY <1>2, <2>1, <2>3, <1>2, RunFields DEF Linked, QueueInv, Early, Late
  <2>7. ~At("idle") /\ run'.pc # "deploying"
    BY <2>1, <2>3 DEF At
  <2> QED
    BY <2>1, <2>3, <2>4, <2>5, <2>6, <2>7, LocalStepKeepsInv
<1> QED
  BY <1>1, <1>2 DEF DeployQueue

LEMMA ConfigureQueueKeepsInv == EnableInv /\ ConfigureQueue => EnableInv'
<1> SUFFICES ASSUME EnableInv, ConfigureQueue PROVE EnableInv'
  OBVIOUS
<1> USE DEF EnableInv
<1>1. CASE run.at < Len(Setters)
  <2>1. /\ run.pc = "config" /\ run' = [run EXCEPT !.at = @ + 1]
        /\ UNCHANGED <<call, jobs, queues, wired, stopVars>>
    BY <1>1 DEF ConfigureQueue, Goto, At, Send, chainVars
  <2>2. run.at \in Nat
    BY RunFields
  <2>3. /\ run'.pc = "config" /\ run'.queue = run.queue /\ run'.at = run.at + 1
        /\ run'.params = run.params /\ run' \in RunType
    BY <2>1, <2>2 DEF RunInv, RunType, PCs, Working
  <2>4. row' \in Row /\ row'.queue = row.queue /\ row'.params = row.params
    BY <1>1 DEF ConfigureQueue, RowInv
  <2>5. MayBe(run'.pc, run'.queue, run'.at)
    BY <1>1, <2>1, <2>2, <2>3, RunFields, SettersLength DEF MayBe, PCs, Working, RunInv, Setters
  <2>6. Linked(run'.pc, run'.queue, row.queue)
    BY <1>1, <2>1, <2>3 DEF Linked, QueueInv, Early, Late
  <2>7. ~At("idle") /\ mempool' = mempool \o <<SetterTx(run.queue, Setters[run.at], run.params)>>
    BY <1>1, <2>1 DEF ConfigureQueue, Goto, At, Send
  <2>8. SetterTx(run.queue, Setters[run.at], run.params) \in Tx
    BY <1>1, <2>1, TxMember, SettersLength DEF RunInv, QueueInv, Late, At
  <2>9. /\ SetterTx(run.queue, Setters[run.at], run.params).op \in ForQueue => SetterTx(run.queue, Setters[run.at], run.params).queue = row.queue
        /\ run'.pc = "deploying" => SetterTx(run.queue, Setters[run.at], run.params) = DeployTx
    BY <2>1, <2>3 DEF ForQueue, QueueInv, Late, SourceTx, DeployTx, SetterTx, ExecutorTx, RewardTx, SettlerTx, KeeperTx
  <2> QED
    BY <2>1, <2>3, <2>4, <2>5, <2>6, <2>7, <2>8, <2>9, SendStepKeepsInv
<1>2. CASE ~(run.at < Len(Setters))
  <2>1. /\ run.pc = "config" /\ run' = [run EXCEPT !.pc = "executor"]
        /\ UNCHANGED <<call, jobs, queues, wired, stopVars>>
    BY <1>2 DEF ConfigureQueue, Goto, At, Send, chainVars
  <2>2. run.at \in Nat
    BY RunFields
  <2>3. /\ run'.pc = "executor" /\ run'.queue = run.queue /\ run'.at = run.at
        /\ run'.params = run.params /\ run' \in RunType
    BY <2>1, <2>2 DEF RunInv, RunType, PCs, Working
  <2>4. row' \in Row /\ row'.queue = row.queue /\ row'.params = row.params
    BY <1>2 DEF ConfigureQueue, RowInv
  <2>5. MayBe(run'.pc, run'.queue, run'.at)
    BY <1>2, <2>1, <2>2, <2>3, RunFields, SettersLength DEF MayBe, PCs, Working, RunInv, Setters
  <2>6. Linked(run'.pc, run'.queue, row.queue)
    BY <1>2, <2>1, <2>3 DEF Linked, QueueInv, Early, Late
  <2>7. ~At("idle") /\ mempool' = mempool \o <<SetterTx(run.queue, Setters[run.at], run.params)>>
    BY <1>2, <2>1 DEF ConfigureQueue, Goto, At, Send
  <2>8. SetterTx(run.queue, Setters[run.at], run.params) \in Tx
    BY <1>2, <2>1, TxMember, SettersLength DEF RunInv, QueueInv, Late, At
  <2>9. /\ SetterTx(run.queue, Setters[run.at], run.params).op \in ForQueue => SetterTx(run.queue, Setters[run.at], run.params).queue = row.queue
        /\ run'.pc = "deploying" => SetterTx(run.queue, Setters[run.at], run.params) = DeployTx
    BY <2>1, <2>3 DEF ForQueue, QueueInv, Late, SourceTx, DeployTx, SetterTx, ExecutorTx, RewardTx, SettlerTx, KeeperTx
  <2> QED
    BY <2>1, <2>3, <2>4, <2>5, <2>6, <2>7, <2>8, <2>9, SendStepKeepsInv
<1> QED
  BY <1>1, <1>2 DEF ConfigureQueue

LEMMA EnsureExecutorKeepsInv == EnableInv /\ EnsureExecutor => EnableInv'
<1> SUFFICES ASSUME EnableInv, EnsureExecutor PROVE EnableInv'
  OBVIOUS
<1> USE DEF EnableInv
<1>1. CASE run.queue \in wired.executors
  <2>1. /\ run.pc = "executor" /\ run' = [run EXCEPT !.pc = "reward"]
        /\ UNCHANGED <<call, jobs, chainVars, stopVars>>
    BY <1>1 DEF EnsureExecutor, Goto, At, Send, ChainInv, chainVars
  <2>2. run.at \in Nat
    BY RunFields
  <2>3. /\ run'.pc = "reward" /\ run'.queue = run.queue /\ run'.at = run.at
        /\ run'.params = run.params /\ run' \in RunType
    BY <2>1, <2>2 DEF RunInv, RunType, PCs, Working
  <2>4. row' \in Row /\ row'.queue = row.queue /\ row'.params = row.params
    BY <1>1, <2>1, WiringKeepsRow DEF EnsureExecutor, QueueInv, Late
  <2>5. MayBe(run'.pc, run'.queue, run'.at)
    BY <1>1, <2>1, <2>2, <2>3, RunFields DEF MayBe, PCs, Working, RunInv, Setters
  <2>6. Linked(run'.pc, run'.queue, row.queue)
    BY <1>1, <2>1, <2>3 DEF Linked, QueueInv, Early, Late
  <2>7. ~At("idle") /\ run'.pc # "deploying"
    BY <2>1, <2>3 DEF At
  <2> QED
    BY <2>1, <2>3, <2>4, <2>5, <2>6, <2>7, LocalStepKeepsInv
<1>2. CASE run.queue \notin wired.executors
  <2>1. /\ run.pc = "executor" /\ run' = [run EXCEPT !.pc = "reward"]
        /\ UNCHANGED <<call, jobs, queues, wired, stopVars>>
    BY <1>2 DEF EnsureExecutor, Goto, At, Send, chainVars
  <2>2. run.at \in Nat
    BY RunFields
  <2>3. /\ run'.pc = "reward" /\ run'.queue = run.queue /\ run'.at = run.at
        /\ run'.params = run.params /\ run' \in RunType
    BY <2>1, <2>2 DEF RunInv, RunType, PCs, Working
  <2>4. row' \in Row /\ row'.queue = row.queue /\ row'.params = row.params
    BY <1>2, <2>1, WiringKeepsRow DEF EnsureExecutor, QueueInv, Late
  <2>5. MayBe(run'.pc, run'.queue, run'.at)
    BY <1>2, <2>1, <2>2, <2>3, RunFields DEF MayBe, PCs, Working, RunInv, Setters
  <2>6. Linked(run'.pc, run'.queue, row.queue)
    BY <1>2, <2>1, <2>3 DEF Linked, QueueInv, Early, Late
  <2>7. ~At("idle") /\ mempool' = mempool \o <<ExecutorTx(run.queue)>>
    BY <1>2, <2>1 DEF EnsureExecutor, Goto, At, Send
  <2>8. ExecutorTx(run.queue) \in Tx
    BY <1>2, <2>1, TxMember DEF RunInv, QueueInv, Late, At
  <2>9. /\ ExecutorTx(run.queue).op \in ForQueue => ExecutorTx(run.queue).queue = row.queue
        /\ run'.pc = "deploying" => ExecutorTx(run.queue) = DeployTx
    BY <2>1, <2>3 DEF ForQueue, QueueInv, Late, SourceTx, DeployTx, SetterTx, ExecutorTx, RewardTx, SettlerTx, KeeperTx
  <2> QED
    BY <2>1, <2>3, <2>4, <2>5, <2>6, <2>7, <2>8, <2>9, SendStepKeepsInv
<1> QED
  BY <1>1, <1>2 DEF EnsureExecutor

LEMMA EnsureRewardCapKeepsInv == EnableInv /\ EnsureRewardCap => EnableInv'
<1> SUFFICES ASSUME EnableInv, EnsureRewardCap PROVE EnableInv'
  OBVIOUS
<1> USE DEF EnableInv
<1>1. CASE wired.capped /\ IsRegistry
  <2>1. /\ run.pc = "reward" /\ run' = [run EXCEPT !.pc = "settler"]
        /\ UNCHANGED <<call, jobs, chainVars, stopVars>>
    BY <1>1 DEF EnsureRewardCap, Goto, At, Send, ChainInv, chainVars
  <2>2. run.at \in Nat
    BY RunFields
  <2>3. /\ run'.pc = "settler" /\ run'.queue = run.queue /\ run'.at = run.at
        /\ run'.params = run.params /\ run' \in RunType
    BY <2>1, <2>2 DEF RunInv, RunType, PCs, Working
  <2>4. row' \in Row /\ row'.queue = row.queue /\ row'.params = row.params
    BY <1>1 DEF EnsureRewardCap, RowInv
  <2>5. MayBe(run'.pc, run'.queue, run'.at)
    BY <1>1, <2>1, <2>2, <2>3, RunFields DEF MayBe, PCs, Working, RunInv, Setters
  <2>6. Linked(run'.pc, run'.queue, row.queue)
    BY <1>1, <2>1, <2>3 DEF Linked, QueueInv, Early, Late
  <2>7. ~At("idle") /\ run'.pc # "deploying"
    BY <2>1, <2>3 DEF At
  <2> QED
    BY <2>1, <2>3, <2>4, <2>5, <2>6, <2>7, LocalStepKeepsInv
<1>2. CASE wired.capped /\ ~IsRegistry
  <2>1. /\ run.pc = "reward" /\ run' = [run EXCEPT !.pc = "keeperBps"]
        /\ UNCHANGED <<call, jobs, chainVars, stopVars>>
    BY <1>2 DEF EnsureRewardCap, Goto, At, Send, ChainInv, chainVars
  <2>2. run.at \in Nat
    BY RunFields
  <2>3. /\ run'.pc = "keeperBps" /\ run'.queue = run.queue /\ run'.at = run.at
        /\ run'.params = run.params /\ run' \in RunType
    BY <2>1, <2>2 DEF RunInv, RunType, PCs, Working
  <2>4. row' \in Row /\ row'.queue = row.queue /\ row'.params = row.params
    BY <1>2 DEF EnsureRewardCap, RowInv
  <2>5. MayBe(run'.pc, run'.queue, run'.at)
    BY <1>2, <2>1, <2>2, <2>3, RunFields DEF MayBe, PCs, Working, RunInv, Setters
  <2>6. Linked(run'.pc, run'.queue, row.queue)
    BY <1>2, <2>1, <2>3 DEF Linked, QueueInv, Early, Late
  <2>7. ~At("idle") /\ run'.pc # "deploying"
    BY <2>1, <2>3 DEF At
  <2> QED
    BY <2>1, <2>3, <2>4, <2>5, <2>6, <2>7, LocalStepKeepsInv
<1>3. CASE ~wired.capped /\ IsRegistry
  <2>1. /\ run.pc = "reward" /\ run' = [run EXCEPT !.pc = "settler"]
        /\ UNCHANGED <<call, jobs, queues, wired, stopVars>>
    BY <1>3 DEF EnsureRewardCap, Goto, At, Send, chainVars
  <2>2. run.at \in Nat
    BY RunFields
  <2>3. /\ run'.pc = "settler" /\ run'.queue = run.queue /\ run'.at = run.at
        /\ run'.params = run.params /\ run' \in RunType
    BY <2>1, <2>2 DEF RunInv, RunType, PCs, Working
  <2>4. row' \in Row /\ row'.queue = row.queue /\ row'.params = row.params
    BY <1>3 DEF EnsureRewardCap, RowInv
  <2>5. MayBe(run'.pc, run'.queue, run'.at)
    BY <1>3, <2>1, <2>2, <2>3, RunFields DEF MayBe, PCs, Working, RunInv, Setters
  <2>6. Linked(run'.pc, run'.queue, row.queue)
    BY <1>3, <2>1, <2>3 DEF Linked, QueueInv, Early, Late
  <2>7. ~At("idle") /\ mempool' = mempool \o <<RewardTx>>
    BY <1>3, <2>1 DEF EnsureRewardCap, Goto, At, Send
  <2>8. RewardTx \in Tx
    BY <1>3, <2>1, TxMember DEF RunInv, QueueInv, Late, At
  <2>9. /\ RewardTx.op \in ForQueue => RewardTx.queue = row.queue
        /\ run'.pc = "deploying" => RewardTx = DeployTx
    BY <2>1, <2>3 DEF ForQueue, QueueInv, Late, SourceTx, DeployTx, SetterTx, ExecutorTx, RewardTx, SettlerTx, KeeperTx
  <2> QED
    BY <2>1, <2>3, <2>4, <2>5, <2>6, <2>7, <2>8, <2>9, SendStepKeepsInv
<1>4. CASE ~wired.capped /\ ~IsRegistry
  <2>1. /\ run.pc = "reward" /\ run' = [run EXCEPT !.pc = "keeperBps"]
        /\ UNCHANGED <<call, jobs, queues, wired, stopVars>>
    BY <1>4 DEF EnsureRewardCap, Goto, At, Send, chainVars
  <2>2. run.at \in Nat
    BY RunFields
  <2>3. /\ run'.pc = "keeperBps" /\ run'.queue = run.queue /\ run'.at = run.at
        /\ run'.params = run.params /\ run' \in RunType
    BY <2>1, <2>2 DEF RunInv, RunType, PCs, Working
  <2>4. row' \in Row /\ row'.queue = row.queue /\ row'.params = row.params
    BY <1>4 DEF EnsureRewardCap, RowInv
  <2>5. MayBe(run'.pc, run'.queue, run'.at)
    BY <1>4, <2>1, <2>2, <2>3, RunFields DEF MayBe, PCs, Working, RunInv, Setters
  <2>6. Linked(run'.pc, run'.queue, row.queue)
    BY <1>4, <2>1, <2>3 DEF Linked, QueueInv, Early, Late
  <2>7. ~At("idle") /\ mempool' = mempool \o <<RewardTx>>
    BY <1>4, <2>1 DEF EnsureRewardCap, Goto, At, Send
  <2>8. RewardTx \in Tx
    BY <1>4, <2>1, TxMember DEF RunInv, QueueInv, Late, At
  <2>9. /\ RewardTx.op \in ForQueue => RewardTx.queue = row.queue
        /\ run'.pc = "deploying" => RewardTx = DeployTx
    BY <2>1, <2>3 DEF ForQueue, QueueInv, Late, SourceTx, DeployTx, SetterTx, ExecutorTx, RewardTx, SettlerTx, KeeperTx
  <2> QED
    BY <2>1, <2>3, <2>4, <2>5, <2>6, <2>7, <2>8, <2>9, SendStepKeepsInv
<1> QED
  BY <1>1, <1>2, <1>3, <1>4 DEF EnsureRewardCap

LEMMA EnsureSettlerKeepsInv == EnableInv /\ EnsureSettler => EnableInv'
<1> SUFFICES ASSUME EnableInv, EnsureSettler PROVE EnableInv'
  OBVIOUS
<1> USE DEF EnableInv
<1>1. CASE run.queue \in wired.settlers
  <2>1. /\ run.pc = "settler" /\ run' = [run EXCEPT !.pc = "keeperBps"]
        /\ UNCHANGED <<call, jobs, chainVars, stopVars>>
    BY <1>1 DEF EnsureSettler, Goto, At, Send, ChainInv, chainVars
  <2>2. run.at \in Nat
    BY RunFields
  <2>3. /\ run'.pc = "keeperBps" /\ run'.queue = run.queue /\ run'.at = run.at
        /\ run'.params = run.params /\ run' \in RunType
    BY <2>1, <2>2 DEF RunInv, RunType, PCs, Working
  <2>4. row' \in Row /\ row'.queue = row.queue /\ row'.params = row.params
    BY <1>1, <2>1, WiringKeepsRow DEF EnsureSettler, QueueInv, Late
  <2>5. MayBe(run'.pc, run'.queue, run'.at)
    BY <1>1, <2>1, <2>2, <2>3, RunFields DEF MayBe, PCs, Working, RunInv, Setters
  <2>6. Linked(run'.pc, run'.queue, row.queue)
    BY <1>1, <2>1, <2>3 DEF Linked, QueueInv, Early, Late
  <2>7. ~At("idle") /\ run'.pc # "deploying"
    BY <2>1, <2>3 DEF At
  <2> QED
    BY <2>1, <2>3, <2>4, <2>5, <2>6, <2>7, LocalStepKeepsInv
<1>2. CASE run.queue \notin wired.settlers
  <2>1. /\ run.pc = "settler" /\ run' = [run EXCEPT !.pc = "keeperBps"]
        /\ UNCHANGED <<call, jobs, queues, wired, stopVars>>
    BY <1>2 DEF EnsureSettler, Goto, At, Send, chainVars
  <2>2. run.at \in Nat
    BY RunFields
  <2>3. /\ run'.pc = "keeperBps" /\ run'.queue = run.queue /\ run'.at = run.at
        /\ run'.params = run.params /\ run' \in RunType
    BY <2>1, <2>2 DEF RunInv, RunType, PCs, Working
  <2>4. row' \in Row /\ row'.queue = row.queue /\ row'.params = row.params
    BY <1>2, <2>1, WiringKeepsRow DEF EnsureSettler, QueueInv, Late
  <2>5. MayBe(run'.pc, run'.queue, run'.at)
    BY <1>2, <2>1, <2>2, <2>3, RunFields DEF MayBe, PCs, Working, RunInv, Setters
  <2>6. Linked(run'.pc, run'.queue, row.queue)
    BY <1>2, <2>1, <2>3 DEF Linked, QueueInv, Early, Late
  <2>7. ~At("idle") /\ mempool' = mempool \o <<SettlerTx(run.queue)>>
    BY <1>2, <2>1 DEF EnsureSettler, Goto, At, Send
  <2>8. SettlerTx(run.queue) \in Tx
    BY <1>2, <2>1, TxMember DEF RunInv, QueueInv, Late, At
  <2>9. /\ SettlerTx(run.queue).op \in ForQueue => SettlerTx(run.queue).queue = row.queue
        /\ run'.pc = "deploying" => SettlerTx(run.queue) = DeployTx
    BY <2>1, <2>3 DEF ForQueue, QueueInv, Late, SourceTx, DeployTx, SetterTx, ExecutorTx, RewardTx, SettlerTx, KeeperTx
  <2> QED
    BY <2>1, <2>3, <2>4, <2>5, <2>6, <2>7, <2>8, <2>9, SendStepKeepsInv
<1> QED
  BY <1>1, <1>2 DEF EnsureSettler

LEMMA SetKeeperBpsKeepsInv == EnableInv /\ SetKeeperBps => EnableInv'
<1> SUFFICES ASSUME EnableInv, SetKeeperBps PROVE EnableInv'
  OBVIOUS
<1> USE DEF EnableInv
<1>1. CASE run.params \in PaysKeeper
  <2>1. /\ run.pc = "keeperBps" /\ run' = [run EXCEPT !.pc = "live"]
        /\ UNCHANGED <<call, jobs, queues, wired, stopVars>>
    BY <1>1 DEF SetKeeperBps, Goto, At, Send, chainVars
  <2>2. run.at \in Nat
    BY RunFields
  <2>3. /\ run'.pc = "live" /\ run'.queue = run.queue /\ run'.at = run.at
        /\ run'.params = run.params /\ run' \in RunType
    BY <2>1, <2>2 DEF RunInv, RunType, PCs, Working
  <2>4. row' \in Row /\ row'.queue = row.queue /\ row'.params = row.params
    BY <1>1, <2>1, WiringKeepsRow DEF SetKeeperBps, QueueInv, Late
  <2>5. MayBe(run'.pc, run'.queue, run'.at)
    BY <1>1, <2>1, <2>2, <2>3, RunFields DEF MayBe, PCs, Working, RunInv, Setters
  <2>6. Linked(run'.pc, run'.queue, row.queue)
    BY <1>1, <2>1, <2>3 DEF Linked, QueueInv, Early, Late
  <2>7. ~At("idle") /\ mempool' = mempool \o <<KeeperTx(run.params)>>
    BY <1>1, <2>1 DEF SetKeeperBps, Goto, At, Send
  <2>8. KeeperTx(run.params) \in Tx
    BY <1>1, <2>1, TxMember DEF RunInv, QueueInv, Late, At
  <2>9. /\ KeeperTx(run.params).op \in ForQueue => KeeperTx(run.params).queue = row.queue
        /\ run'.pc = "deploying" => KeeperTx(run.params) = DeployTx
    BY <2>1, <2>3 DEF ForQueue, QueueInv, Late, SourceTx, DeployTx, SetterTx, ExecutorTx, RewardTx, SettlerTx, KeeperTx
  <2> QED
    BY <2>1, <2>3, <2>4, <2>5, <2>6, <2>7, <2>8, <2>9, SendStepKeepsInv
<1>2. CASE run.params \notin PaysKeeper
  <2>1. /\ run.pc = "keeperBps" /\ run' = [run EXCEPT !.pc = "live"]
        /\ UNCHANGED <<call, jobs, chainVars, stopVars>>
    BY <1>2 DEF SetKeeperBps, Goto, At, Send, chainVars
  <2>2. run.at \in Nat
    BY RunFields
  <2>3. /\ run'.pc = "live" /\ run'.queue = run.queue /\ run'.at = run.at
        /\ run'.params = run.params /\ run' \in RunType
    BY <2>1, <2>2 DEF RunInv, RunType, PCs, Working
  <2>4. row' \in Row /\ row'.queue = row.queue /\ row'.params = row.params
    BY <1>2 DEF SetKeeperBps, RowInv
  <2>5. MayBe(run'.pc, run'.queue, run'.at)
    BY <1>2, <2>1, <2>2, <2>3, RunFields DEF MayBe, PCs, Working, RunInv, Setters
  <2>6. Linked(run'.pc, run'.queue, row.queue)
    BY <1>2, <2>1, <2>3 DEF Linked, QueueInv, Early, Late
  <2>7. ~At("idle") /\ run'.pc # "deploying"
    BY <2>1, <2>3 DEF At
  <2> QED
    BY <2>1, <2>3, <2>4, <2>5, <2>6, <2>7, LocalStepKeepsInv
<1> QED
  BY <1>1, <1>2 DEF SetKeeperBps

LEMMA ReceiveReceiptKeepsInv == EnableInv /\ ReceiveReceipt => EnableInv'
<1> SUFFICES ASSUME EnableInv, ReceiveReceipt PROVE EnableInv'
  OBVIOUS
<1> USE DEF EnableInv
<1>0. Len(queues) \in Deployed /\ run.queue = NoQueue
  <2>1. Coming /\ mempool = <<>> /\ run.queue = NoQueue
    BY DEF ReceiveReceipt, ComingInv, QueueInv
  <2>2. queues # <<>>
    BY <2>1 DEF Coming
  <2> QED
    BY <2>1, <2>2, DeployedType
<1>1. /\ run.pc = "deploying" /\ run' = [run EXCEPT !.pc = "persist", !.queue = Len(queues)]
      /\ UNCHANGED <<call, jobs, chainVars, stopVars>>
  BY DEF ReceiveReceipt, Goto, At, Send, chainVars
<1>2. run.at \in Nat
  BY RunFields
<1>3. /\ run'.pc = "persist" /\ run'.queue = Len(queues) /\ run'.at = run.at
      /\ run'.params = run.params /\ run' \in RunType
  BY <1>0, <1>1, <1>2 DEF RunInv, RunType, PCs, Working
<1>4. row' \in Row /\ row'.queue = row.queue /\ row'.params = row.params
  BY DEF ReceiveReceipt, RowInv
<1>5. MayBe(run'.pc, run'.queue, run'.at)
  BY <1>1, <1>2, <1>3, RunFields, <1>0 DEF MayBe, PCs, Working, RunInv, Setters
<1>6. Linked(run'.pc, run'.queue, row.queue)
  BY <1>1, <1>3, <1>0 DEF Linked, QueueInv, Early, Late
<1>7. ~At("idle") /\ run'.pc # "deploying"
  BY <1>1, <1>3 DEF At
<1> QED
  BY <1>1, <1>3, <1>4, <1>5, <1>6, <1>7, LocalStepKeepsInv

LEMMA GoLiveKeepsInv == EnableInv /\ GoLive => EnableInv'
<1> SUFFICES ASSUME EnableInv, GoLive PROVE EnableInv'
  OBVIOUS
<1> USE DEF EnableInv
<1>1. /\ run.pc = "live" /\ run' = [run EXCEPT !.pc = "refresh"]
      /\ UNCHANGED <<call, jobs, chainVars, stopVars>>
  BY DEF GoLive, Goto, At, Send, chainVars
<1>2. run.at \in Nat
  BY RunFields
<1>3. /\ run'.pc = "refresh" /\ run'.queue = run.queue /\ run'.at = run.at
      /\ run'.params = run.params /\ run' \in RunType
  BY <1>1, <1>2 DEF RunInv, RunType, PCs, Working
<1>4. row' \in Row /\ row'.queue = row.queue /\ row'.params = row.params
  BY <1>1 DEF GoLive, RowInv, Row, Statuses, QueueInv, Late
<1>5. MayBe(run'.pc, run'.queue, run'.at)
  BY <1>1, <1>2, <1>3, RunFields DEF MayBe, PCs, Working, RunInv, Setters
<1>6. Linked(run'.pc, run'.queue, row.queue)
  BY <1>1, <1>3 DEF Linked, QueueInv, Early, Late
<1>7. ~At("idle") /\ run'.pc # "deploying"
  BY <1>1, <1>3 DEF At
<1> QED
  BY <1>1, <1>3, <1>4, <1>5, <1>6, <1>7, LocalStepKeepsInv

-----------------------------------------------------------------------------
(* The write of the queue's address: nothing was touched before.           *)
LEMMA TxForQueue ==
  ASSUME NEW tx \in Tx, tx.op \in ForQueue
  PROVE  tx.queue \in Deployed
BY DEF Tx, ForQueue, SourceTx, SetterTx, ExecutorTx, SettlerTx, KeeperTx, DeployTx, RewardTx

LEMMA NothingTouched ==
  ASSUME ChainInv, TouchedInv, row.queue = NoQueue
  PROVE  /\ \A q \in Deployed : queues[q] = Blank
         /\ wired.executors \cup wired.settlers = {}
         /\ \A i \in DOMAIN mempool : mempool[i].op \notin ForQueue
<1>1. NoQueue \notin Deployed
  BY DeployedType
<1>2. wired.executors \subseteq Deployed /\ wired.settlers \subseteq Deployed
  BY DEF ChainInv, WiredType
<1>3. \A i \in DOMAIN mempool : mempool[i] \in Tx
  BY DEF ChainInv
<1> QED
  BY <1>1, <1>2, <1>3, TxForQueue DEF TouchedInv

LEMMA PersistQueueKeepsInv == EnableInv /\ PersistQueue => EnableInv'
<1> SUFFICES ASSUME EnableInv, PersistQueue PROVE EnableInv'
  OBVIOUS
<1> USE DEF EnableInv
<1>1. /\ run.pc = "persist" /\ run' = [run EXCEPT !.pc = "config", !.at = 1]
      /\ UNCHANGED <<call, jobs, chainVars, stopVars>>
      /\ row' = [row EXCEPT !.status = "Wiring", !.queue = run.queue]
  BY DEF PersistQueue, At, SetWiringAt
<1>2. row.queue = NoQueue /\ run.queue \in Deployed
  BY <1>1 DEF QueueInv, At
<1>3. /\ run'.pc = "config" /\ run'.queue = run.queue /\ run'.at = 1
      /\ run'.params = run.params /\ run' \in RunType
  BY <1>1 DEF RunInv, RunType, PCs, Working
<1>4. row' \in Row /\ row'.queue = run.queue /\ row'.params = row.params
  BY <1>1, <1>2 DEF RowInv, Row, Statuses
<1>5. Deployed' = Deployed /\ Tx' = Tx
  BY <1>1 DEF chainVars, Deployed, Tx
<1>6. RunInv' /\ QueueInv'
  <2>1. MayBe(run'.pc, run'.queue, run'.at)
    BY <1>2, <1>3, SettersLength DEF MayBe, PCs, Working
  <2>2. Linked(run'.pc, run'.queue, row'.queue)
    BY <1>2, <1>3, <1>4 DEF Linked, Early, Late
  <2> QED
    BY <1>1, <1>3, <1>5, <2>1, <2>2, RunGoes DEF At
<1>7. RowInv'
  <2>1. row' \in Row'
    BY <1>4, <1>5 DEF Row
  <2>2. row.params \in Params
    BY <1>1 DEF RowInv, At
  <2> QED
    BY <1>1, <1>4, <2>1, <2>2 DEF RowInv
<1>8. JobsInv' /\ StopsInv' /\ ComingInv'
  BY <1>1, <1>3 DEF JobsInv, StopsInv, stopVars, ComingInv, At
<1>9. ChainInv'
  BY <1>1, <1>5 DEF ChainInv, chainVars, QueueType, WiredType
<1>10. TouchedInv'
  BY <1>1, <1>2, <1>5, NothingTouched DEF TouchedInv, chainVars
<1> QED
  BY <1>6, <1>7, <1>8, <1>9, <1>10

-----------------------------------------------------------------------------
(* A run that ends, or throws.                                             *)
LEMMA RunStops ==
  ASSUME EnableInv, ~At("idle"), UNCHANGED <<call, chainVars>>, JobsInv', StopsInv',
         row' \in Row, row'.queue = row.queue, row'.params = row.params,
         run' = Idle \/ run' = [run EXCEPT !.pc = "failed"]
  PROVE  EnableInv'
<1> USE DEF EnableInv
<1>1. ChainInv' /\ TouchedInv' /\ (Coming => Coming') /\ Deployed' = Deployed
  BY ChainStays
<1>2. RowInv'
  <2>1. row' \in Row'
    BY <1>1 DEF Row
  <2>2. row.params \in Params
    BY DEF RowInv
  <2> QED
    BY <2>1, <2>2 DEF RowInv
<1>3. /\ run' \in RunType /\ run'.pc \in {"idle", "failed"}
      /\ run'.pc = "failed" => run'.params = run.params
  BY EnableAssumption DEF RunInv, RunType, Idle, PCs, Working
<1>4. RunInv'
  BY <1>1, <1>3 DEF RunInv, RunType, At
<1>5. QueueInv' /\ ComingInv'
  BY <1>3 DEF QueueInv, ComingInv, Early, Late, At
<1> QED
  BY <1>1, <1>2, <1>4, <1>5

LEMMA EndsKeepInv ==
  EnableInv /\ (RefreshRegistry \/ RecordFailure) => EnableInv'
<1> SUFFICES ASSUME EnableInv, RefreshRegistry \/ RecordFailure PROVE EnableInv'
  OBVIOUS
<1> USE DEF EnableInv
<1>1. /\ ~At("idle") /\ UNCHANGED <<call, jobs, chainVars, stopVars>> /\ run' = Idle
      /\ row' = row \/ row' = [row EXCEPT !.status = "Failed"]
  BY DEF RefreshRegistry, RecordFailure, At
<1>2. row' \in Row /\ row'.queue = row.queue /\ row'.params = row.params
  BY <1>1 DEF RowInv, Row, Statuses
<1>3. JobsInv' /\ StopsInv'
  BY <1>1 DEF JobsInv, StopsInv, stopVars
<1> QED
  BY <1>1, <1>2, <1>3, RunStops

LEMMA StopsKeepInv ==
  EnableInv /\ (Throw \/ CrashWorker) => EnableInv'
<1> SUFFICES ASSUME EnableInv, Throw \/ CrashWorker PROVE EnableInv'
  OBVIOUS
<1> USE DEF EnableInv
<1>1. /\ ~At("idle") /\ UNCHANGED <<row, call, chainVars>>
      /\ run' = Idle \/ run' = [run EXCEPT !.pc = "failed"]
      /\ TornIf(At("weekend"))
  BY DEF Throw, CrashWorker, At, Goto, Working
<1>2. row' \in Row /\ row'.queue = row.queue /\ row'.params = row.params
  BY <1>1 DEF RowInv
<1>3. JobsInv'
  <2>1. run.tries \in 0..RetryLimit
    BY RunFields
  <2>2. CASE Throw
    BY <2>2 DEF Throw, JobsInv
  <2>3. CASE CrashWorker /\ run.tries < RetryLimit
    <3>1. run.tries + 1 \in 0..RetryLimit
      BY <2>1, <2>3, EnableAssumption
    <3>2. jobs' = <<run.tries + 1>> \o jobs
      BY <2>3 DEF CrashWorker
    <3> QED
      BY <3>1, <3>2 DEF JobsInv
  <2>4. CASE CrashWorker /\ ~(run.tries < RetryLimit)
    BY <2>4 DEF CrashWorker, JobsInv
  <2> QED
    BY <2>2, <2>3, <2>4
<1>4. StopsInv'
  <2>1. torn' \subseteq HeldTokens
    BY <1>1, HeldInTokens DEF TornIf, RunInv, StopsInv
  <2>2. crashes' \in 0..MaxCrashes /\ faults' \in 0..MaxFaults
    BY EnableAssumption DEF Throw, CrashWorker, StopsInv
  <2> QED
    BY <2>1, <2>2 DEF StopsInv
<1> QED
  BY <1>1, <1>2, <1>3, <1>4, RunStops

LEMMA HeadTail ==
  ASSUME NEW S, NEW s \in Seq(S), s # <<>>
  PROVE  /\ Head(s) \in S /\ Head(s) = s[1] /\ 1 \in DOMAIN s
         /\ Tail(s) \in Seq(S)
         /\ \A i \in DOMAIN Tail(s) : i + 1 \in DOMAIN s /\ Tail(s)[i] = s[i + 1]
         /\ \A i \in DOMAIN s : i # 1 => i - 1 \in DOMAIN Tail(s) /\ Tail(s)[i - 1] = s[i]
OBVIOUS

LEMMA TakeJobKeepsInv == EnableInv /\ TakeJob => EnableInv'
<1> SUFFICES ASSUME EnableInv, TakeJob PROVE EnableInv'
  OBVIOUS
<1> USE DEF EnableInv
<1>1. /\ jobs # <<>> /\ jobs' = Tail(jobs) /\ UNCHANGED <<row, call, chainVars, stopVars>>
      /\ run' = [pc |-> "start", queue |-> row.queue, params |-> row.params,
                 at |-> 1, tries |-> Head(jobs)]
  BY DEF TakeJob
<1>2. Head(jobs) \in 0..RetryLimit /\ JobsInv'
  BY <1>1, HeadTail DEF JobsInv
<1>3. row.params \in Params /\ row.queue \in Deployed \cup {NoQueue}
  BY <1>1 DEF RowInv, Row
<1>4. ChainInv' /\ TouchedInv' /\ (Coming => Coming') /\ Deployed' = Deployed
  BY <1>1, ChainStays
<1>5. /\ run' \in RunType /\ run'.pc = "start" /\ run'.queue = row.queue
      /\ run'.params = row.params /\ run'.at = 1
  BY <1>1, <1>2, <1>3 DEF RunType, PCs, Working
<1>6. RunInv'
  BY <1>3, <1>4, <1>5 DEF RunInv, RunType, At
<1>7. QueueInv' /\ ComingInv'
  BY <1>1, <1>5 DEF QueueInv, ComingInv, Early, Late, At
<1>8. RowInv' /\ StopsInv'
  BY <1>1, <1>3, <1>4 DEF RowInv, Row, StopsInv, stopVars
<1> QED
  BY <1>2, <1>4, <1>6, <1>7, <1>8

-----------------------------------------------------------------------------
(* The chain's step: the effect of one transaction.                        *)
LEMMA TxShapes ==
  ASSUME NEW tx \in Tx
  PROVE  \/ tx.op = "addSource" /\ tx.token \in HeldTokens /\ tx.source \in SourceKinds
         \/ tx.op = "set" /\ tx.queue \in Deployed /\ tx.setter \in SetterNames /\ tx.params \in Params
         \/ tx.op = "setExecutor" /\ tx.queue \in Deployed
         \/ tx.op = "setSettler" /\ tx.queue \in Deployed
         \/ tx.op = "setKeeperBps" /\ tx.params \in Params
         \/ tx = DeployTx /\ tx.op = "deploy"
         \/ tx.op = "setMaxRewardPerCall"
BY DEF Tx, SourceTx, SetterTx, ExecutorTx, SettlerTx, KeeperTx, DeployTx, RewardTx

(* The queues after a transaction.                                         *)
LEMMA MineQueues ==
  ASSUME EnableInv, Mine
  PROVE  /\ queues' \in Seq(QueueType)
         /\ Deployed \subseteq Deployed'
         /\ \A q \in Deployed' : queues'[q] # Blank => row.queue = q
         /\ Head(mempool) = DeployTx => queues' # <<>>
         /\ queues # <<>> => queues' # <<>>
<1> USE DEF EnableInv
<1> DEFINE tx == Head(mempool)
<1>1. mempool # <<>> /\ mempool \in Seq(Tx) /\ queues \in Seq(QueueType)
  BY DEF Mine, ChainInv
<1>2. tx \in Tx /\ (tx.op \in ForQueue => tx.queue = row.queue)
  BY <1>1, HeadTail DEF TouchedInv
<1>3. queues' = CASE tx.op = "deploy" -> Append(queues, Blank)
                  [] tx.op = "set" -> [queues EXCEPT ![tx.queue][tx.setter] = tx.params]
                  [] OTHER -> queues
  BY DEF Mine
<1>4. \A q \in Deployed : queues[q] # Blank => row.queue = q
  BY DEF TouchedInv
<1>5. Blank \in QueueType
  BY DEF Blank, QueueType
<1>6. tx = DeployTx => tx.op = "deploy"
  BY DEF DeployTx
<1> HIDE DEF tx
<1>7. CASE tx.op = "deploy"
  <2>1. queues' = Append(queues, Blank)
    BY <1>3, <1>7
  <2>2. queues' \in Seq(QueueType) /\ queues' # <<>>
    BY <1>1, <1>5, <2>1
  <2>3. \A q \in Deployed' : (q \in Deployed /\ queues'[q] = queues[q]) \/ queues'[q] = Blank
    BY <1>1, <2>1 DEF Deployed
  <2>4. Deployed \subseteq Deployed'
    BY <1>1, <2>1 DEF Deployed
  <2> QED
    BY <1>4, <2>2, <2>3, <2>4
<1>8. CASE tx.op = "set"
  <2>1. tx.queue \in Deployed /\ tx.setter \in SetterNames /\ tx.params \in Params
    BY <1>2, <1>8, TxShapes DEF DeployTx
  <2>2. queues' = [queues EXCEPT ![tx.queue] = [queues[tx.queue] EXCEPT ![tx.setter] = tx.params]]
    BY <1>3, <1>8
  <2>3. queues[tx.queue] \in QueueType
    BY <1>1, <2>1 DEF Deployed
  <2> DEFINE new == [queues[tx.queue] EXCEPT ![tx.setter] = tx.params]
  <2>4. new \in QueueType
    BY <2>1, <2>3 DEF QueueType
  <2> HIDE DEF new
  <2>5. queues' = [queues EXCEPT ![tx.queue] = new]
    BY <2>2 DEF new
  <2>6. queues' \in Seq(QueueType) /\ Len(queues') = Len(queues)
    BY <1>1, <2>1, <2>4, <2>5 DEF Deployed
  <2>7. \A q \in Deployed : q # tx.queue => queues'[q] = queues[q]
    BY <1>1, <2>5 DEF Deployed
  <2>8. row.queue = tx.queue
    BY <1>2, <1>8 DEF ForQueue
  <2>9. Deployed' = Deployed
    BY <2>6 DEF Deployed
  <2>10. queues' # <<>> /\ tx # DeployTx
    BY <1>8, <2>1, <2>6 DEF Deployed, DeployTx
  <2> QED
    BY <1>4, <2>6, <2>7, <2>8, <2>9, <2>10 DEF tx
<1>9. CASE tx.op # "deploy" /\ tx.op # "set"
  <2>1. queues' = queues
    BY <1>3, <1>9
  <2> QED
    BY <1>1, <1>4, <1>6, <1>9, <2>1 DEF tx, Deployed
<1> QED
  BY <1>7, <1>8, <1>9

(* The other contracts after a transaction.                                *)
LEMMA MineWired ==
  ASSUME EnableInv, Mine
  PROVE  /\ wired' \in WiredType
         /\ \A q \in wired'.executors \cup wired'.settlers : row.queue = q
<1> USE DEF EnableInv
<1> DEFINE tx == Head(mempool)
<1>1. mempool # <<>> /\ mempool \in Seq(Tx) /\ wired \in WiredType
  BY DEF Mine, ChainInv
<1>2. tx \in Tx /\ (tx.op \in ForQueue => tx.queue = row.queue)
  BY <1>1, HeadTail DEF TouchedInv
<1>3. wired' = Wire(wired, tx)
  BY DEF Mine
<1>4. \A q \in wired.executors \cup wired.settlers : row.queue = q
  BY DEF TouchedInv
<1> HIDE DEF tx
<1>5. CASE tx.op = "addSource"
  <2>1. tx.token \in HeldTokens /\ tx.source \in SourceKinds
    BY <1>2, <1>5, TxShapes DEF DeployTx
  <2> DEFINE more == Append(wired.sources[tx.token], tx.source)
             sources == [wired.sources EXCEPT ![tx.token] = more]
  <2>2. more \in Seq(SourceKinds)
    BY <1>1, <2>1 DEF WiredType
  <2>3. wired' = [wired EXCEPT !.sources = sources]
    BY <1>3, <1>5 DEF Wire
  <2> HIDE DEF more
  <2>4. sources \in [HeldTokens -> Seq(SourceKinds)]
    BY <1>1, <2>2 DEF WiredType
  <2> HIDE DEF sources
  <2> QED
    BY <1>1, <1>4, <2>3, <2>4 DEF WiredType
<1>6. CASE tx.op = "setExecutor"
  <2>1. tx.queue \in Deployed /\ tx.queue = row.queue
    BY <1>2, <1>6, TxShapes DEF DeployTx, ForQueue
  <2>2. wired' = [wired EXCEPT !.executors = wired.executors \cup {tx.queue}]
    BY <1>3, <1>6 DEF Wire
  <2> QED
    BY <1>1, <1>4, <2>1, <2>2 DEF WiredType
<1>7. CASE tx.op = "setSettler"
  <2>1. tx.queue \in Deployed /\ tx.queue = row.queue
    BY <1>2, <1>7, TxShapes DEF DeployTx, ForQueue
  <2>2. wired' = [wired EXCEPT !.settlers = wired.settlers \cup {tx.queue}]
    BY <1>3, <1>7 DEF Wire
  <2> QED
    BY <1>1, <1>4, <2>1, <2>2 DEF WiredType
<1>8. CASE tx.op = "setMaxRewardPerCall"
  <2>1. wired' = [wired EXCEPT !.capped = TRUE]
    BY <1>3, <1>8 DEF Wire
  <2>2. /\ wired' \in WiredType
        /\ wired'.executors = wired.executors /\ wired'.settlers = wired.settlers
    BY <1>1, <2>1 DEF WiredType
  <2> QED
    BY <1>4, <2>2
<1>9. CASE tx.op = "setKeeperBps"
  <2>1. tx.params \in Params
    BY <1>2, <1>9, TxShapes DEF DeployTx
  <2>2. wired' = [wired EXCEPT !.keeper = tx.params]
    BY <1>3, <1>9 DEF Wire
  <2>3. /\ wired' \in WiredType
        /\ wired'.executors = wired.executors /\ wired'.settlers = wired.settlers
    BY <1>1, <2>1, <2>2 DEF WiredType
  <2> QED
    BY <1>4, <2>3
<1>10. CASE tx.op \in {"set", "deploy"}
  BY <1>1, <1>3, <1>4, <1>10 DEF Wire
<1> QED
  BY <1>2, <1>5, <1>6, <1>7, <1>8, <1>9, <1>10, TxShapes

LEMMA MineKeepsInv == EnableInv /\ Mine => EnableInv'
<1> SUFFICES ASSUME EnableInv, Mine PROVE EnableInv'
  OBVIOUS
<1> USE DEF EnableInv
<1>1. /\ mempool # <<>> /\ mempool' = Tail(mempool)
      /\ UNCHANGED <<row, call, jobs, run, stopVars>>
  BY DEF Mine, workVars
<1>2. /\ queues' \in Seq(QueueType) /\ Deployed \subseteq Deployed'
      /\ \A q \in Deployed' : queues'[q] # Blank => row.queue = q
      /\ (Head(mempool) = DeployTx \/ queues # <<>>) => queues' # <<>>
  BY MineQueues
<1>3. /\ wired' \in WiredType
      /\ \A q \in wired'.executors \cup wired'.settlers : row.queue = q
  BY MineWired
<1>4. wired' \in WiredType'
  BY <1>2, <1>3 DEF WiredType
<1>5. Tx \subseteq Tx'
  BY <1>2 DEF Tx
<1>6. mempool \in Seq(Tx)
  BY DEF ChainInv
<1>7. /\ mempool' \in Seq(Tx')
      /\ \A i \in DOMAIN mempool' : i + 1 \in DOMAIN mempool /\ mempool'[i] = mempool[i + 1]
      /\ \A i \in DOMAIN mempool : i # 1 => i - 1 \in DOMAIN mempool' /\ mempool'[i - 1] = mempool[i]
      /\ Head(mempool) = mempool[1]
  <2>1. Tail(mempool) \in Seq(Tx)
    BY <1>1, <1>6, HeadTail
  <2>2. Tail(mempool) \in Seq(Tx')
    BY <1>5, <2>1
  <2> QED
    BY <1>1, <1>6, <2>2, HeadTail
<1>8. ChainInv'
  BY <1>2, <1>4, <1>7 DEF ChainInv, QueueType
<1>9. TouchedInv'
  BY <1>1, <1>2, <1>3, <1>7 DEF TouchedInv
<1>10. ComingInv'
  <2>1. Coming => Coming'
    BY <1>2, <1>7 DEF Coming
  <2> QED
    BY <1>1, <2>1 DEF ComingInv, At
<1>11. RowInv' /\ JobsInv' /\ StopsInv'
  BY <1>1, <1>2 DEF RowInv, Row, JobsInv, StopsInv, stopVars, At
<1>12. RunInv' /\ QueueInv'
  BY <1>1, <1>2 DEF RunInv, RunType, QueueInv, At
<1> QED
  BY <1>8, <1>9, <1>10, <1>11, <1>12

-----------------------------------------------------------------------------
LEMMA StepEnableInv == EnableInv /\ [EnableNext]_enableVars => EnableInv'
<1> SUFFICES ASSUME EnableInv, [EnableNext]_enableVars PROVE EnableInv'
  OBVIOUS
<1>1. CASE UNCHANGED enableVars
  <2>1. /\ UNCHANGED <<row, call, jobs, run, chainVars, torn, crashes, faults>>
        /\ row'.queue = row.queue
    BY <1>1 DEF enableVars, workVars, stopVars
  <2>2. ChainInv' /\ TouchedInv' /\ (Coming => Coming') /\ Deployed' = Deployed
    BY <2>1, ChainStays DEF EnableInv
  <2>3. RowInv' /\ JobsInv' /\ StopsInv' /\ RunInv' /\ QueueInv' /\ ComingInv'
    BY <2>1, <2>2 DEF EnableInv, RowInv, Row, JobsInv, StopsInv, RunInv, RunType, QueueInv,
                      ComingInv, At
  <2> QED
    BY <2>2, <2>3 DEF EnableInv
<1>2. CASE HandlerStep
  BY <1>2, TakeJobKeepsInv, StartKeepsInv, EnsureSourcesKeepsInv, AddWeekendSourceKeepsInv,
     SourcesDoneKeepsInv, DeployQueueKeepsInv, ReceiveReceiptKeepsInv, PersistQueueKeepsInv,
     ConfigureQueueKeepsInv, EnsureExecutorKeepsInv, EnsureRewardCapKeepsInv,
     EnsureSettlerKeepsInv, SetKeeperBpsKeepsInv, GoLiveKeepsInv, EndsKeepInv
     DEF HandlerStep
<1> QED
  BY <1>1, <1>2, CallKeepsInv, StopsKeepInv, MineKeepsInv DEF EnableNext

LEMMA EnableInvHolds == EnableSpec => []EnableInv
BY InitEnableInv, StepEnableInv, PTL DEF EnableSpec

LEMMA InvTypeOK == EnableInv => EnableTypeOK
<1> SUFFICES ASSUME EnableInv PROVE EnableTypeOK
  OBVIOUS
<1> USE DEF EnableInv
<1>1. run.pc \in {"persist", "config", "executor", "reward", "settler", "keeperBps", "live"}
        => run.queue \in Deployed
  BY DEF QueueInv, Late, At
<1> QED
  BY <1>1 DEF EnableTypeOK, RowInv, JobsInv, RunInv, RunType, PCs, ChainInv, StopsInv,
              QueueType, WiredType

(* The handler never works on without its parameters nor, from the         *)
(* configuration on, without a queue, and never sends for a queue that is  *)
(* not deployed, whatever was sent and not awaited, redelivered or stopped *)
(* (forward-enable.handler.ts 42-164).                                     *)
THEOREM EnableTypeCorrect == EnableSpec => []EnableTypeOK
BY EnableInvHolds, InvTypeOK, PTL

LEMMA InvOnlyStored == EnableInv => OnlyTheStoredQueueIsWired
<1> SUFFICES ASSUME EnableInv, NEW q \in Deployed, Touched(q) PROVE row.queue = q
  BY DEF OnlyTheStoredQueueIsWired
<1> QED
  BY DEF EnableInv, TouchedInv, Touched, ForQueue

(* A queue the row does not name is never configured and never given a     *)
(* right, for any number of requests, redeliveries, stops and throws: a    *)
(* deployment whose address was lost stays blank                           *)
(* (forward-enable.handler.ts 107-124).                                    *)
THEOREM OnlyTheStoredQueueHolds == EnableSpec => []OnlyTheStoredQueueIsWired
BY EnableInvHolds, InvOnlyStored, PTL

-----------------------------------------------------------------------------
(* What the queues and the other contracts come to once everything sent is *)
(* mined: of the writes of one place the last counts, and a right or a     *)
(* source once given stays.                                                *)
Sent(tx) == \E i \in DOMAIN mempool : mempool[i] = tx
Clear(rivals) == \A i \in DOMAIN mempool : mempool[i] \notin rivals
Lands(tx, rivals) ==
  \E i \in DOMAIN mempool :
    mempool[i] = tx /\ \A j \in DOMAIN mempool : j > i => mempool[j] \notin rivals

Setting(q, s) == {SetterTx(q, s, p) : p \in Params}
Paying == {KeeperTx(p) : p \in Params}

WillSet(q, s, p) ==
  Lands(SetterTx(q, s, p), Setting(q, s)) \/ (Clear(Setting(q, s)) /\ queues[q][s] = p)
WillPay(p) == Lands(KeeperTx(p), Paying) \/ (Clear(Paying) /\ wired.keeper = p)
WillExecute(q) == q \in wired.executors \/ Sent(ExecutorTx(q))
WillSettle(q) == q \in wired.settlers \/ Sent(SettlerTx(q))
WillCap == wired.capped \/ Sent(RewardTx)
WillSource(t, s) == s \in Range(wired.sources[t]) \/ Sent(SourceTx(t, s))
WillHave(t) == \A s \in SourceKinds : WillSource(t, s)
Begun(t) == wired.sources[t] # <<>> \/ \E s \in SourceKinds : Sent(SourceTx(t, s))

Configured(q, p) == \A s \in SetterNames : WillSet(q, s, p)
AllHave == \A t \in HeldTokens \ torn : WillHave(t)

(* How far the handler has come.                                           *)
Sourced == {"deploy", "deploying", "persist"} \cup Late
SourcesInv ==
  /\ At("start") => run.at = 1
  /\ At("sources") => run.at <= Len(Held) + 1
  /\ run.pc \in {"sources", "weekend"} =>
       \A i \in 1..(run.at - 1) : Held[i] \in torn \/ WillHave(Held[i])
  /\ At("weekend") => WillSource(Held[run.at], "weekday")
  /\ run.pc \in Sourced => AllHave
ConfigInv ==
  /\ At("config") => \A i \in 1..(run.at - 1) : WillSet(run.queue, Setters[i], run.params)
  /\ run.pc \in Late \ {"config"} => Configured(run.queue, run.params)
RightsInv ==
  /\ run.pc \in {"reward", "settler", "keeperBps", "live"} => WillExecute(run.queue)
  /\ run.pc \in {"settler", "keeperBps", "live"} => WillCap
  /\ run.pc \in {"keeperBps", "live"} /\ IsRegistry => WillSettle(run.queue)
  /\ At("live") /\ run.params \in PaysKeeper => WillPay(run.params)

(* A token that one source was sent for has both coming, unless a run      *)
(* stopped between the two or this one stands there.                       *)
InHand == IF At("weekend") THEN {Held[run.at]} ELSE {}
BegunInv == \A t \in HeldTokens : Begun(t) => t \in torn \cup InHand \/ WillHave(t)

(* A run that works with other parameters than the row's is not the last.  *)
More == jobs # <<>> \/ \E c \in Calls : call[c] \in {"stored", "unsent"}
ParamsInv == ~At("idle") => run.params = row.params \/ More

(* A job was redelivered for stops only.                                   *)
TriesInv == run.tries <= crashes /\ \A i \in DOMAIN jobs : jobs[i] <= crashes

(* What a Live row says is done or coming, unless another run is.          *)
Done(q, p) ==
  /\ q \in Deployed
  /\ Configured(q, p) /\ WillExecute(q) /\ WillCap
  /\ IsRegistry => WillSettle(q)
  /\ p \in PaysKeeper => WillPay(p)
  /\ AllHave
LiveInv ==
  /\ row.status = "Live" =>
       row.params \in Params /\ run.pc \in {"idle", "start", "refresh", "failed"}
  /\ row.status = "Live" /\ crashes <= RetryLimit =>
       More \/ run.pc \in {"start", "failed"} \/ Done(row.queue, row.params)

WorkInv ==
  SourcesInv /\ ConfigInv /\ RightsInv /\ BegunInv /\ ParamsInv /\ TriesInv /\ LiveInv

-----------------------------------------------------------------------------
(* One more transaction is sent.                                           *)
LEMMA SentAfter ==
  ASSUME mempool \in Seq(Tx), NEW tx \in Tx, mempool' = mempool \o <<tx>>
  PROVE  /\ Sent(tx)'
         /\ \A x : Sent(x) => Sent(x)'
         /\ \A x : Sent(x)' => Sent(x) \/ x = tx
         /\ \A rivals : Lands(tx, rivals)'
         /\ \A x, rivals : tx \notin rivals /\ Lands(x, rivals) => Lands(x, rivals)'
         /\ \A rivals : tx \notin rivals /\ Clear(rivals) => Clear(rivals)'
<1> DEFINE n == Len(mempool) + 1
<1>1. n \in Nat /\ DOMAIN mempool = 1..(n - 1) /\ DOMAIN mempool' = 1..n
  OBVIOUS
<1>2. mempool'[n] = tx /\ \A i \in 1..(n - 1) : mempool'[i] = mempool[i]
  OBVIOUS
<1> HIDE DEF n
<1>3. /\ n \in DOMAIN mempool' /\ DOMAIN mempool \subseteq DOMAIN mempool'
      /\ \A i \in DOMAIN mempool' : i # n => i \in DOMAIN mempool
      /\ \A i \in DOMAIN mempool' : ~(i > n)
      /\ \A i \in DOMAIN mempool : mempool'[i] = mempool[i]
  BY <1>1, <1>2
<1>4. Sent(tx)' /\ \A x : Sent(x) => Sent(x)'
  BY <1>2, <1>3 DEF Sent
<1>5. \A x : Sent(x)' => Sent(x) \/ x = tx
  BY <1>2, <1>3 DEF Sent
<1>6. \A rivals : Lands(tx, rivals)'
  BY <1>2, <1>3 DEF Lands
<1>7. ASSUME NEW x, NEW rivals, tx \notin rivals, Lands(x, rivals) PROVE Lands(x, rivals)'
  <2>1. PICK i \in DOMAIN mempool :
          mempool[i] = x /\ \A j \in DOMAIN mempool : j > i => mempool[j] \notin rivals
    BY <1>7 DEF Lands
  <2>2. i \in DOMAIN mempool' /\ mempool'[i] = x
    BY <1>3, <2>1
  <2>3. ASSUME NEW j \in DOMAIN mempool', j > i PROVE mempool'[j] \notin rivals
    BY <1>2, <1>3, <1>7, <2>1, <2>3
  <2> QED
    BY <2>2, <2>3 DEF Lands
<1>8. \A rivals : tx \notin rivals /\ Clear(rivals) => Clear(rivals)'
  BY <1>2, <1>3 DEF Clear
<1> QED
  BY <1>4, <1>5, <1>6, <1>7, <1>8

(* The oldest transaction is mined.                                        *)
LEMMA MinedAfter ==
  ASSUME mempool \in Seq(Tx), mempool # <<>>, mempool' = Tail(mempool)
  PROVE  /\ \A x : Sent(x)' => Sent(x)
         /\ \A x : Sent(x) => Sent(x)' \/ x = Head(mempool)
         /\ \A x, rivals : Lands(x, rivals) =>
              Lands(x, rivals)' \/ (x = Head(mempool) /\ Clear(rivals)')
         /\ \A rivals : Clear(rivals) => Clear(rivals)' /\ Head(mempool) \notin rivals
<1>1. /\ Head(mempool) = mempool[1] /\ 1 \in DOMAIN mempool
      /\ DOMAIN mempool \subseteq Nat /\ DOMAIN mempool' \subseteq Nat
      /\ \A i \in DOMAIN mempool' : i + 1 \in DOMAIN mempool /\ mempool'[i] = mempool[i + 1]
      /\ \A i \in DOMAIN mempool :
           i # 1 => i - 1 \in DOMAIN mempool' /\ mempool'[i - 1] = mempool[i]
  BY HeadTail
<1>2. \A x : Sent(x)' => Sent(x)
  BY <1>1 DEF Sent
<1>3. \A x : Sent(x) => Sent(x)' \/ x = Head(mempool)
  BY <1>1 DEF Sent
<1>4. ASSUME NEW x, NEW rivals, Lands(x, rivals)
      PROVE  Lands(x, rivals)' \/ (x = Head(mempool) /\ Clear(rivals)')
  <2>1. PICK i \in DOMAIN mempool :
          mempool[i] = x /\ \A j \in DOMAIN mempool : j > i => mempool[j] \notin rivals
    BY <1>4 DEF Lands
  <2>2. \A j \in DOMAIN mempool' : j + 1 > i => mempool'[j] \notin rivals
    BY <1>1, <2>1
  <2>3. CASE i = 1
    <3>1. \A j \in DOMAIN mempool' : j + 1 > i
      <4> SUFFICES ASSUME NEW j \in DOMAIN mempool' PROVE j + 1 > 1
        BY <2>3
      <4>1. mempool' \in Seq(Tx) /\ j >= 1 /\ j \in Nat
        BY <1>1, HeadTail
      <4> QED
        BY <4>1
    <3> QED
      BY <1>1, <2>1, <2>2, <2>3, <3>1 DEF Clear
  <2>4. CASE i # 1
    <3>1. i - 1 \in DOMAIN mempool' /\ mempool'[i - 1] = x
      BY <1>1, <2>1, <2>4
    <3>2. \A j \in DOMAIN mempool' : j > i - 1 => j + 1 > i
      BY <1>1
    <3> QED
      BY <2>2, <3>1, <3>2 DEF Lands
  <2> QED
    BY <2>3, <2>4
<1>5. \A rivals : Clear(rivals) => Clear(rivals)' /\ Head(mempool) \notin rivals
  BY <1>1 DEF Clear
<1> QED
  BY <1>2, <1>3, <1>4, <1>5

-----------------------------------------------------------------------------
(* What is promised stays promised.                                        *)
SetsKept ==
  \A q \in Deployed, s \in SetterNames, p \in Params : WillSet(q, s, p) => WillSet(q, s, p)'
PayKept == \A p \in Params : WillPay(p) => WillPay(p)'
RightsKept ==
  /\ \A q \in Deployed : WillExecute(q) => WillExecute(q)'
  /\ \A q \in Deployed : WillSettle(q) => WillSettle(q)'
  /\ WillCap => WillCap'
SourcesKept ==
  \A t \in HeldTokens, s \in SourceKinds : WillSource(t, s) => WillSource(t, s)'

LEMMA SendKeepsRights ==
  ASSUME mempool \in Seq(Tx), NEW tx \in Tx, mempool' = mempool \o <<tx>>, UNCHANGED wired
  PROVE  RightsKept /\ SourcesKept
BY SentAfter DEF RightsKept, SourcesKept, WillExecute, WillSettle, WillCap, WillSource,
                 ExecutorTx, SettlerTx, RewardTx, SourceTx

LEMMA SendKeepsSets ==
  ASSUME mempool \in Seq(Tx), NEW tx \in Tx, mempool' = mempool \o <<tx>>, UNCHANGED queues
  PROVE  \A q \in Deployed, s \in SetterNames, p \in Params :
           tx \notin Setting(q, s) /\ WillSet(q, s, p) => WillSet(q, s, p)'
<1> SUFFICES ASSUME NEW q \in Deployed, NEW s \in SetterNames, NEW p \in Params,
                    tx \notin Setting(q, s), WillSet(q, s, p)
             PROVE  WillSet(q, s, p)'
  OBVIOUS
<1>1. Setting(q, s)' = Setting(q, s) /\ SetterTx(q, s, p)' = SetterTx(q, s, p)
  BY DEF Setting, SetterTx
<1>2. Clear(Setting(q, s)) => Clear(Setting(q, s))'
  BY <1>1, SentAfter
<1>3. Lands(SetterTx(q, s, p), Setting(q, s)) => Lands(SetterTx(q, s, p), Setting(q, s))'
  BY <1>1, SentAfter
<1> QED
  BY <1>2, <1>3 DEF WillSet

LEMMA SendKeepsPay ==
  ASSUME mempool \in Seq(Tx), NEW tx \in Tx, mempool' = mempool \o <<tx>>, UNCHANGED wired,
         tx \notin Paying
  PROVE  PayKept
<1> SUFFICES ASSUME NEW p \in Params, WillPay(p) PROVE WillPay(p)'
  BY DEF PayKept
<1>1. Clear(Paying) => Clear(Paying)'
  BY SentAfter
<1>2. Lands(KeeperTx(p), Paying) => Lands(KeeperTx(p), Paying)'
  BY SentAfter
<1> QED
  BY <1>1, <1>2 DEF WillPay

-----------------------------------------------------------------------------
(* The effect of the transaction that is mined on what is written.         *)
LEMMA TxEqual ==
  ASSUME NEW tx \in Tx
  PROVE  \/ tx.op = "addSource" /\ \E t \in HeldTokens, s \in SourceKinds : tx = SourceTx(t, s)
         \/ tx.op = "set"
              /\ \E q \in Deployed, s \in SetterNames, p \in Params : tx = SetterTx(q, s, p)
         \/ tx.op = "setExecutor" /\ \E q \in Deployed : tx = ExecutorTx(q)
         \/ tx.op = "setSettler" /\ \E q \in Deployed : tx = SettlerTx(q)
         \/ tx.op = "setKeeperBps" /\ \E p \in Params : tx = KeeperTx(p)
         \/ tx.op = "deploy" /\ tx = DeployTx
         \/ tx.op = "setMaxRewardPerCall" /\ tx = RewardTx
BY DEF Tx, SourceTx, SetterTx, ExecutorTx, SettlerTx, KeeperTx, DeployTx, RewardTx

LEMMA MineWrites ==
  ASSUME EnableInv, Mine, NEW q \in Deployed, NEW s \in SetterNames
  PROVE  queues'[q][s] = IF Head(mempool) \in Setting(q, s) THEN Head(mempool).params
                                                            ELSE queues[q][s]
<1> USE DEF EnableInv
<1> DEFINE tx == Head(mempool)
<1>1. mempool # <<>> /\ mempool \in Seq(Tx) /\ queues \in Seq(QueueType)
  BY DEF Mine, ChainInv
<1>2. tx \in Tx
  BY <1>1, HeadTail
<1>3. queues' = CASE tx.op = "deploy" -> Append(queues, Blank)
                  [] tx.op = "set" -> [queues EXCEPT ![tx.queue][tx.setter] = tx.params]
                  [] OTHER -> queues
  BY DEF Mine
<1>4. q \in 1..Len(queues) /\ queues[q] \in QueueType
  BY <1>1 DEF Deployed
<1> HIDE DEF tx
<1>5. tx.op # "set" => tx \notin Setting(q, s)
  BY DEF Setting, SetterTx
<1>6. CASE tx.op = "deploy"
  BY <1>1, <1>3, <1>4, <1>5, <1>6 DEF tx
<1>7. CASE tx.op = "set"
  <2>1. PICK q1 \in Deployed, s1 \in SetterNames, p1 \in Params : tx = SetterTx(q1, s1, p1)
    BY <1>2, <1>7, TxEqual
  <2>2. tx.queue = q1 /\ tx.setter = s1 /\ tx.params = p1
    BY <2>1 DEF SetterTx
  <2>3. queues' = [queues EXCEPT ![q1] = [queues[q1] EXCEPT ![s1] = p1]]
    BY <1>3, <1>7, <2>2
  <2>4. tx \in Setting(q, s) <=> q1 = q /\ s1 = s
    BY <2>1 DEF Setting, SetterTx
  <2>5. q1 \in DOMAIN queues /\ q \in DOMAIN queues
    BY <1>1 DEF Deployed
  <2>6. CASE q1 = q
    <3>1. queues'[q] = [queues[q] EXCEPT ![s1] = p1]
      BY <2>3, <2>5, <2>6
    <3>2. s \in DOMAIN queues[q]
      BY <1>4 DEF QueueType
    <3> QED
      BY <2>2, <2>4, <2>6, <3>1, <3>2 DEF tx
  <2>7. CASE q1 # q
    BY <2>3, <2>4, <2>5, <2>7 DEF tx
  <2> QED
    BY <2>6, <2>7
<1>8. CASE tx.op # "deploy" /\ tx.op # "set"
  BY <1>3, <1>5, <1>8 DEF tx
<1> QED
  BY <1>6, <1>7, <1>8

LEMMA MineKeepsSets == EnableInv /\ Mine => SetsKept
<1> SUFFICES ASSUME EnableInv, Mine, NEW q \in Deployed, NEW s \in SetterNames, NEW p \in Params,
                    WillSet(q, s, p)
             PROVE  WillSet(q, s, p)'
  BY DEF SetsKept
<1>1. Setting(q, s)' = Setting(q, s) /\ SetterTx(q, s, p)' = SetterTx(q, s, p)
      /\ SetterTx(q, s, p) \in Setting(q, s) /\ SetterTx(q, s, p).params = p
  BY DEF Setting, SetterTx
<1>2. mempool \in Seq(Tx) /\ mempool # <<>> /\ mempool' = Tail(mempool)
  BY DEF EnableInv, ChainInv, Mine
<1>3. queues'[q][s] = IF Head(mempool) \in Setting(q, s) THEN Head(mempool).params
                                                         ELSE queues[q][s]
  BY MineWrites
<1>4. CASE Lands(SetterTx(q, s, p), Setting(q, s))
  <2>1. \/ Lands(SetterTx(q, s, p), Setting(q, s))'
        \/ SetterTx(q, s, p) = Head(mempool) /\ Clear(Setting(q, s))'
    BY <1>1, <1>2, <1>4, MinedAfter
  <2> QED
    BY <1>1, <1>3, <2>1 DEF WillSet
<1>5. CASE Clear(Setting(q, s)) /\ queues[q][s] = p
  <2>1. Clear(Setting(q, s))' /\ Head(mempool) \notin Setting(q, s)
    BY <1>1, <1>2, <1>5, MinedAfter
  <2> QED
    BY <1>3, <1>5, <2>1 DEF WillSet
<1> QED
  BY <1>4, <1>5 DEF WillSet

(* ... and on what is given.                                               *)
LEMMA MineGives ==
  ASSUME EnableInv, Mine
  PROVE  /\ wired'.keeper = IF Head(mempool) \in Paying THEN Head(mempool).params ELSE wired.keeper
         /\ \A q \in Deployed :
              /\ q \in wired.executors \/ Head(mempool) = ExecutorTx(q) => q \in wired'.executors
              /\ q \in wired.settlers \/ Head(mempool) = SettlerTx(q) => q \in wired'.settlers
         /\ wired.capped \/ Head(mempool) = RewardTx => wired'.capped
         /\ \A t \in HeldTokens, s \in SourceKinds :
              s \in Range(wired.sources[t]) \/ Head(mempool) = SourceTx(t, s)
                => s \in Range(wired'.sources[t])
         /\ \A t \in HeldTokens :
              wired'.sources[t] # <<>> =>
                wired.sources[t] # <<>> \/ \E s \in SourceKinds : Head(mempool) = SourceTx(t, s)
<1> USE DEF EnableInv
<1> DEFINE tx == Head(mempool)
<1>1. mempool # <<>> /\ mempool \in Seq(Tx) /\ wired \in WiredType
  BY DEF Mine, ChainInv
<1>2. tx \in Tx
  BY <1>1, HeadTail
<1>3. wired' = Wire(wired, tx)
  BY DEF Mine
<1> HIDE DEF tx
<1>4. /\ tx.op # "setKeeperBps" => tx \notin Paying
      /\ tx.op # "setExecutor" => \A q : tx # ExecutorTx(q)
      /\ tx.op # "setSettler" => \A q : tx # SettlerTx(q)
      /\ tx.op # "setMaxRewardPerCall" => tx # RewardTx
      /\ tx.op # "addSource" => \A t, s : tx # SourceTx(t, s)
  BY DEF Paying, KeeperTx, ExecutorTx, SettlerTx, RewardTx, SourceTx
<1>5. CASE tx.op = "addSource"
  <2>1. PICK t1 \in HeldTokens, s1 \in SourceKinds : tx = SourceTx(t1, s1)
    BY <1>2, <1>5, TxEqual
  <2>2. tx.token = t1 /\ tx.source = s1
    BY <2>1 DEF SourceTx
  <2> DEFINE more == Append(wired.sources[t1], s1)
             sources == [wired.sources EXCEPT ![t1] = more]
  <2>3. wired' = [wired EXCEPT !.sources = sources]
    BY <1>3, <1>5, <2>2 DEF Wire
  <2>4. wired.sources \in [HeldTokens -> Seq(SourceKinds)]
    BY <1>1 DEF WiredType
  <2>5. s1 \in Range(more) /\ Range(wired.sources[t1]) \subseteq Range(more)
    <3>1. wired.sources[t1] \in Seq(SourceKinds)
      BY <2>4
    <3> DEFINE old == wired.sources[t1]
    <3>2. more = Append(old, s1) /\ old \in Seq(SourceKinds)
      BY <3>1
    <3> HIDE DEF old, more
    <3>3. /\ Len(old) + 1 \in DOMAIN more /\ more[Len(old) + 1] = s1
          /\ \A i \in DOMAIN old : i \in DOMAIN more /\ more[i] = old[i]
      BY <3>2
    <3>4. s1 \in Range(more) /\ Range(old) \subseteq Range(more)
      BY <3>3 DEF Range
    <3> QED
      BY <3>4 DEF old
  <2> HIDE DEF more
  <2>6. \A t \in HeldTokens : sources[t] = IF t = t1 THEN more ELSE wired.sources[t]
    BY <2>4
  <2> HIDE DEF sources
  <2>7. /\ wired'.sources = sources /\ wired'.keeper = wired.keeper
        /\ wired'.executors = wired.executors /\ wired'.settlers = wired.settlers
        /\ wired'.capped = wired.capped
    BY <1>1, <2>3 DEF WiredType
  <2>8. \A t, s : tx = SourceTx(t, s) => t = t1 /\ s = s1
    BY <2>1 DEF SourceTx
  <2>9. \A t \in HeldTokens, s \in SourceKinds :
          s \in Range(wired.sources[t]) \/ tx = SourceTx(t, s) => s \in Range(wired'.sources[t])
    BY <2>5, <2>6, <2>7, <2>8
  <2>10. \A t \in HeldTokens :
           wired'.sources[t] # <<>> =>
             wired.sources[t] # <<>> \/ \E s \in SourceKinds : tx = SourceTx(t, s)
    BY <2>1, <2>6, <2>7
  <2> QED
    BY <1>4, <1>5, <2>7, <2>9, <2>10 DEF tx
<1>6. CASE tx.op = "setExecutor"
  <2>1. PICK q1 \in Deployed : tx = ExecutorTx(q1) /\ tx.queue = q1
    BY <1>2, <1>6, TxEqual DEF ExecutorTx
  <2>2. wired' = [wired EXCEPT !.executors = wired.executors \cup {q1}]
    BY <1>3, <1>6, <2>1 DEF Wire
  <2>3. /\ wired'.sources = wired.sources /\ wired'.keeper = wired.keeper
        /\ wired'.executors = wired.executors \cup {q1} /\ wired'.settlers = wired.settlers
        /\ wired'.capped = wired.capped
    BY <1>1, <2>2 DEF WiredType
  <2>4. \A q : tx = ExecutorTx(q) => q = q1
    BY <2>1 DEF ExecutorTx
  <2> QED
    BY <1>4, <1>6, <2>3, <2>4 DEF tx
<1>7. CASE tx.op = "setSettler"
  <2>1. PICK q1 \in Deployed : tx = SettlerTx(q1) /\ tx.queue = q1
    BY <1>2, <1>7, TxEqual DEF SettlerTx
  <2>2. wired' = [wired EXCEPT !.settlers = wired.settlers \cup {q1}]
    BY <1>3, <1>7, <2>1 DEF Wire
  <2>3. /\ wired'.sources = wired.sources /\ wired'.keeper = wired.keeper
        /\ wired'.executors = wired.executors /\ wired'.settlers = wired.settlers \cup {q1}
        /\ wired'.capped = wired.capped
    BY <1>1, <2>2 DEF WiredType
  <2>4. \A q : tx = SettlerTx(q) => q = q1
    BY <2>1 DEF SettlerTx
  <2> QED
    BY <1>4, <1>7, <2>3, <2>4 DEF tx
<1>8. CASE tx.op = "setMaxRewardPerCall"
  <2>1. wired' = [wired EXCEPT !.capped = TRUE]
    BY <1>3, <1>8 DEF Wire
  <2>2. /\ wired'.sources = wired.sources /\ wired'.keeper = wired.keeper
        /\ wired'.executors = wired.executors /\ wired'.settlers = wired.settlers
        /\ wired'.capped
    BY <1>1, <2>1 DEF WiredType
  <2> QED
    BY <1>4, <1>8, <2>2 DEF tx
<1>9. CASE tx.op = "setKeeperBps"
  <2>1. wired' = [wired EXCEPT !.keeper = tx.params]
    BY <1>3, <1>9 DEF Wire
  <2>2. tx \in Paying
    BY <1>2, <1>9, TxEqual DEF Paying
  <2>3. /\ wired'.sources = wired.sources /\ wired'.keeper = tx.params
        /\ wired'.executors = wired.executors /\ wired'.settlers = wired.settlers
        /\ wired'.capped = wired.capped
    BY <1>1, <2>1 DEF WiredType
  <2> QED
    BY <1>4, <1>9, <2>2, <2>3 DEF tx
<1>10. CASE tx.op \in {"set", "deploy"}
  <2>1. wired' = wired
    BY <1>3, <1>10 DEF Wire
  <2> QED
    BY <1>4, <1>10, <2>1 DEF tx
<1> QED
  BY <1>2, <1>5, <1>6, <1>7, <1>8, <1>9, <1>10, TxEqual

LEMMA MineKeepsRest ==
  ASSUME EnableInv, Mine
  PROVE  /\ PayKept /\ RightsKept /\ SourcesKept
         /\ \A t \in HeldTokens : Begun(t)' => Begun(t)
<1>1. mempool \in Seq(Tx) /\ mempool # <<>> /\ mempool' = Tail(mempool)
  BY DEF EnableInv, ChainInv, Mine
<1>2. 1 \in DOMAIN mempool /\ mempool[1] = Head(mempool)
  BY <1>1, HeadTail
<1>3. PayKept
  <2> SUFFICES ASSUME NEW p \in Params, WillPay(p) PROVE WillPay(p)'
    BY DEF PayKept
  <2>1. KeeperTx(p).params = p /\ KeeperTx(p) \in Paying
    BY DEF KeeperTx, Paying
  <2>2. CASE Lands(KeeperTx(p), Paying)
    <3>1. \/ Lands(KeeperTx(p), Paying)'
          \/ KeeperTx(p) = Head(mempool) /\ Clear(Paying)'
      BY <1>1, <2>2, MinedAfter
    <3> QED
      BY <2>1, <3>1, MineGives DEF WillPay
  <2>3. CASE Clear(Paying) /\ wired.keeper = p
    <3>1. Clear(Paying)' /\ Head(mempool) \notin Paying
      BY <1>1, <2>3, MinedAfter
    <3> QED
      BY <2>3, <3>1, MineGives DEF WillPay
  <2> QED
    BY <2>2, <2>3 DEF WillPay
<1>4. RightsKept
  BY <1>1, MinedAfter, MineGives
     DEF RightsKept, WillExecute, WillSettle, WillCap, ExecutorTx, SettlerTx, RewardTx
<1>5. SourcesKept
  BY <1>1, MinedAfter, MineGives DEF SourcesKept, WillSource, SourceTx
<1>6. Sent(Head(mempool))
  BY <1>2 DEF Sent
<1>7. \A t \in HeldTokens : Begun(t)' => Begun(t)
  BY <1>1, <1>6, MinedAfter, MineGives DEF Begun, SourceTx
<1> QED
  BY <1>3, <1>4, <1>5, <1>7

-----------------------------------------------------------------------------
(* What follows for what the handler and a Live row rely on.               *)
LEMMA ChainSame ==
  ASSUME UNCHANGED chainVars
  PROVE  /\ SetsKept /\ PayKept /\ RightsKept /\ SourcesKept
         /\ \A t \in HeldTokens : Begun(t)' => Begun(t)
<1> USE DEF chainVars
<1>1. /\ \A x : Sent(x)' <=> Sent(x)
      /\ \A x, rivals : Lands(x, rivals)' <=> Lands(x, rivals)
      /\ \A rivals : Clear(rivals)' <=> Clear(rivals)
  BY DEF Sent, Lands, Clear
<1>2. SetsKept
  <2> SUFFICES ASSUME NEW q \in Deployed, NEW s \in SetterNames, NEW p \in Params,
                      WillSet(q, s, p)
               PROVE  WillSet(q, s, p)'
    BY DEF SetsKept
  <2>1. Setting(q, s)' = Setting(q, s) /\ SetterTx(q, s, p)' = SetterTx(q, s, p)
    BY DEF Setting, SetterTx
  <2> QED
    BY <1>1, <2>1 DEF WillSet
<1>3. PayKept
  BY <1>1 DEF PayKept, WillPay, KeeperTx, Paying
<1>4. RightsKept /\ SourcesKept
  BY <1>1 DEF RightsKept, SourcesKept, WillExecute, WillSettle, WillCap, WillSource,
              ExecutorTx, SettlerTx, RewardTx, SourceTx
<1>5. \A t \in HeldTokens : Begun(t)' => Begun(t)
  BY <1>1 DEF Begun, SourceTx
<1> QED
  BY <1>2, <1>3, <1>4, <1>5

LEMMA HavesKept ==
  ASSUME SourcesKept, torn \subseteq torn'
  PROVE  /\ \A t \in HeldTokens : WillHave(t) => WillHave(t)'
         /\ AllHave => AllHave'
BY DEF SourcesKept, WillHave, AllHave

LEMMA DoneKept ==
  ASSUME SetsKept, PayKept, RightsKept, SourcesKept, torn \subseteq torn',
         Deployed \subseteq Deployed'
  PROVE  \A q \in Deployed, p \in Params : Done(q, p) => Done(q, p)'
<1> SUFFICES ASSUME NEW q \in Deployed, NEW p \in Params, Done(q, p) PROVE Done(q, p)'
  OBVIOUS
<1>1. Configured(q, p)'
  BY DEF SetsKept, Done, Configured
<1>2. WillExecute(q)' /\ WillCap' /\ (IsRegistry => WillSettle(q)')
  BY DEF RightsKept, Done
<1>3. p \in PaysKeeper => WillPay(p)'
  BY DEF PayKept, Done
<1>4. AllHave'
  BY HavesKept DEF Done
<1> QED
  BY <1>1, <1>2, <1>3, <1>4 DEF Done

(* While the handler stands still, the chain may move and stops be noted.  *)
LEMMA ProgressStays ==
  ASSUME EnableInv, WorkInv, UNCHANGED run, torn \subseteq torn',
         SetsKept, PayKept, RightsKept, SourcesKept, \A t \in HeldTokens : Begun(t)' => Begun(t)
  PROVE  SourcesInv' /\ ConfigInv' /\ RightsInv' /\ BegunInv'
<1>1. /\ run.pc \in Late => run.queue \in Deployed
      /\ ~At("idle") => run.params \in Params
      /\ At("config") => run.at \in 1..Len(Setters)
      /\ run.at \in Nat
  BY RunFields DEF EnableInv, QueueInv, RunInv
<1>2. /\ \A t \in HeldTokens : WillHave(t) => WillHave(t)'
      /\ AllHave => AllHave'
  BY HavesKept
<1>3. SourcesInv'
  <2>1. At("weekend") => Held[run.at] \in HeldTokens
    BY HeldInTokens DEF EnableInv, RunInv
  <2>2. At("weekend") => WillSource(Held[run.at], "weekday")'
    BY <2>1 DEF SourcesKept, WorkInv, SourcesInv, SourceKinds
  <2>3. run.pc \in {"sources", "weekend"} =>
          \A i \in 1..(run.at - 1) : Held[i] \in torn' \/ WillHave(Held[i])'
    <3> SUFFICES ASSUME run.pc \in {"sources", "weekend"}, NEW i \in 1..(run.at - 1)
                 PROVE  Held[i] \in torn' \/ WillHave(Held[i])'
      OBVIOUS
    <3>1. Held[i] \in torn \/ WillHave(Held[i])
      BY DEF WorkInv, SourcesInv
    <3>2. Held[i] \in HeldTokens
      <4>1. Len(Held) \in Nat /\ run.at \in Nat /\ run.at <= Len(Held) + 1
        BY <1>1, EnableAssumption DEF WorkInv, SourcesInv, At, EnableInv, RunInv
      <4>2. i \in 1..Len(Held)
        BY <4>1
      <4> QED
        BY <4>2, HeldInTokens
    <3> QED
      BY <1>2, <3>1, <3>2
  <2> QED
    BY <1>2, <2>2, <2>3 DEF WorkInv, SourcesInv, At
<1>4. ConfigInv'
  <2>1. At("config") => \A i \in 1..(run.at - 1) : WillSet(run.queue, Setters[i], run.params)'
    <3> SUFFICES ASSUME At("config"), NEW i \in 1..(run.at - 1)
                 PROVE  WillSet(run.queue, Setters[i], run.params)'
      OBVIOUS
    <3>1. WillSet(run.queue, Setters[i], run.params)
      BY DEF WorkInv, ConfigInv
    <3>2. Setters[i] \in SetterNames /\ run.queue \in Deployed /\ run.params \in Params
      BY <1>1, SettersLength DEF At, Late
    <3> QED
      BY <3>1, <3>2 DEF SetsKept
  <2>2. run.pc \in Late \ {"config"} => Configured(run.queue, run.params)'
    <3>1. run.pc \in Late \ {"config"} =>
            run.queue \in Deployed /\ run.params \in Params /\ Configured(run.queue, run.params)
      BY <1>1 DEF WorkInv, ConfigInv, Late, At
    <3> QED
      BY <3>1 DEF SetsKept, Configured
  <2> QED
    BY <2>1, <2>2 DEF ConfigInv, At
<1>5. RightsInv'
  BY <1>1 DEF WorkInv, RightsInv, RightsKept, PayKept, At, Late
<1>6. BegunInv'
  BY <1>2 DEF WorkInv, BegunInv, InHand, At
<1> QED
  BY <1>3, <1>4, <1>5, <1>6

LEMMA MineKeepsWork == EnableInv /\ WorkInv /\ Mine => WorkInv'
<1> SUFFICES ASSUME EnableInv, WorkInv, Mine PROVE WorkInv'
  OBVIOUS
<1>1. UNCHANGED <<row, call, jobs, run, torn, crashes>>
  BY DEF Mine, workVars, stopVars
<1>2. SetsKept /\ PayKept /\ RightsKept /\ SourcesKept
      /\ \A t \in HeldTokens : Begun(t)' => Begun(t)
  BY MineKeepsSets, MineKeepsRest
<1>3. Deployed \subseteq Deployed'
  BY MineQueues
<1>4. SourcesInv' /\ ConfigInv' /\ RightsInv' /\ BegunInv'
  BY <1>1, <1>2, ProgressStays
<1>5. ParamsInv' /\ TriesInv' /\ (More => More')
  BY <1>1 DEF WorkInv, ParamsInv, TriesInv, More, At
<1>6. Done(row.queue, row.params) /\ row.params \in Params => Done(row.queue, row.params)'
  <2>1. \A q \in Deployed, p \in Params : Done(q, p) => Done(q, p)'
    BY <1>1, <1>2, <1>3, DoneKept
  <2> QED
    BY <1>1, <2>1 DEF Done
<1>7. LiveInv'
  BY <1>1, <1>5, <1>6 DEF WorkInv, LiveInv
<1> QED
  BY <1>4, <1>5, <1>7 DEF WorkInv

(* The endpoint.                                                           *)
LEMMA CallKeepsWork ==
  ASSUME EnableInv, WorkInv, NEW c \in Calls,
         CheckRow(c) \/ VerifySignature(c) \/ StoreRequest(c) \/ SendJob(c) \/ LoseCall(c)
  PROVE  WorkInv'
<1>1. UNCHANGED <<run, chainVars, torn, crashes>>
  BY DEF CheckRow, VerifySignature, StoreRequest, SendJob, LoseCall, workVars, stopVars
<1>2. SetsKept /\ PayKept /\ RightsKept /\ SourcesKept
      /\ \A t \in HeldTokens : Begun(t)' => Begun(t)
  BY <1>1, ChainSame
<1>3. SourcesInv' /\ ConfigInv' /\ RightsInv' /\ BegunInv'
  BY <1>1, <1>2, ProgressStays
<1>4. call \in [Calls -> Stages] /\ jobs \in Seq(0..RetryLimit)
  BY DEF EnableInv, RowInv, JobsInv
<1>5. More => More'
  <2>1. CASE SendJob(c)
    BY <1>4, <2>1 DEF SendJob, More
  <2>2. CASE ~SendJob(c)
    <3>1. jobs' = jobs
      BY <2>2 DEF CheckRow, VerifySignature, StoreRequest, LoseCall, workVars
    <3>2. \A d \in Calls : call[d] \in {"stored", "unsent"} => call'[d] \in {"stored", "unsent"}
      BY <1>4, <2>2 DEF CheckRow, VerifySignature, StoreRequest, LoseCall, Moves
    <3> QED
      BY <3>1, <3>2 DEF More
  <2> QED
    BY <2>1, <2>2
<1>6. \/ row' = row
      \/ row'.status = "Pending" /\ call'[c] = "stored"
  BY <1>4 DEF CheckRow, VerifySignature, StoreRequest, SendJob, LoseCall, Moves, EnableInv, RowInv, Row
<1>7. call'[c] = "stored" => More'
  BY DEF More
<1>8. ParamsInv'
  BY <1>1, <1>5, <1>6, <1>7 DEF WorkInv, ParamsInv, At
<1>9. TriesInv'
  <2>1. crashes \in Nat
    BY EnableAssumption DEF EnableInv, StopsInv
  <2>2. CASE SendJob(c)
    BY <1>1, <1>4, <2>1, <2>2 DEF SendJob, WorkInv, TriesInv
  <2>3. CASE ~SendJob(c)
    <3>1. jobs' = jobs
      BY <2>3 DEF CheckRow, VerifySignature, StoreRequest, LoseCall, workVars
    <3> QED
      BY <1>1, <3>1 DEF WorkInv, TriesInv
  <2> QED
    BY <2>2, <2>3
<1>10. LiveInv'
  <2>1. CASE row' = row
    <3>1. Deployed' = Deployed
      BY <1>1 DEF chainVars, Deployed
    <3>2. \A q \in Deployed, p \in Params : Done(q, p) => Done(q, p)'
      BY <1>1, <1>2, <3>1, DoneKept
    <3>3. Done(row.queue, row.params) /\ row.params \in Params => Done(row.queue, row.params)'
      BY <2>1, <3>2 DEF Done
    <3> QED
      BY <1>1, <1>5, <2>1, <3>3 DEF WorkInv, LiveInv
  <2>2. CASE row'.status = "Pending"
    BY <2>2 DEF LiveInv
  <2> QED
    BY <1>6, <2>1, <2>2
<1> QED
  BY <1>3, <1>8, <1>9, <1>10 DEF WorkInv

-----------------------------------------------------------------------------
(* The handler.  A step of it keeps its copy but for where it stands.      *)
SameCopy ==
  run'.params = run.params /\ run'.queue = run.queue /\ run'.tries = run.tries
LEMMA GoesTo ==
  ASSUME RunInv, NEW pc, run' = [run EXCEPT !.pc = pc]
  PROVE  SameCopy /\ run'.pc = pc /\ run'.at = run.at
BY RunFields DEF SameCopy, RunInv, RunType
LEMMA GoesOn ==
  ASSUME RunInv, NEW k, run' = [run EXCEPT !.at = k]
  PROVE  SameCopy /\ run'.pc = run.pc /\ run'.at = k
BY RunFields DEF SameCopy, RunInv, RunType
LEMMA GoesToOn ==
  ASSUME RunInv, NEW pc, NEW k, run' = [run EXCEPT !.pc = pc, !.at = k]
  PROVE  SameCopy /\ run'.pc = pc /\ run'.at = k
BY RunFields DEF SameCopy, RunInv, RunType

(* The row is not Live while the handler is past its start.                *)
RowAtWork == row'.params = row.params /\ row'.status # "Live"
LEMMA RowStays ==
  ASSUME EnableInv, WorkInv, run.pc \notin {"idle", "start", "refresh", "failed"},
         row' = row \/ SetWiring \/ SetWiringAt(run.queue)
  PROVE  RowAtWork
BY DEF RowAtWork, EnableInv, RowInv, Row, WorkInv, LiveInv, SetWiring, SetWiringAt

LEMMA BooksStay ==
  ASSUME EnableInv, WorkInv, ~At("idle"), UNCHANGED <<call, jobs, stopVars>>,
         run'.params = run.params, run'.tries = run.tries, RowAtWork
  PROVE  ParamsInv' /\ TriesInv' /\ LiveInv'
BY DEF WorkInv, ParamsInv, TriesInv, LiveInv, More, stopVars, RowAtWork, At

(* After the sources, the sources stay sent.                               *)
LEMMA SourcedStep ==
  ASSUME EnableInv, WorkInv, run.pc \in Sourced, run'.pc \in Sourced,
         UNCHANGED <<call, jobs, stopVars>>,
         run'.params = run.params, run'.tries = run.tries, RowAtWork,
         SourcesKept, \A t \in HeldTokens : Begun(t)' => Begun(t),
         ConfigInv', RightsInv'
  PROVE  WorkInv'
<1>1. ~At("idle") /\ ~At("weekend") /\ ~At("weekend")' /\ ~At("start")' /\ ~At("sources")'
  BY DEF Sourced, Late, At
<1>2. torn' = torn
  BY DEF stopVars
<1>3. (\A t \in HeldTokens : WillHave(t) => WillHave(t)') /\ AllHave'
  BY <1>2, HavesKept DEF WorkInv, SourcesInv
<1>4. SourcesInv'
  BY <1>1, <1>3 DEF SourcesInv, At
<1>5. BegunInv'
  BY <1>1, <1>2, <1>3 DEF WorkInv, BegunInv, InHand
<1>6. ParamsInv' /\ TriesInv' /\ LiveInv'
  BY <1>1, BooksStay
<1> QED
  BY <1>4, <1>5, <1>6 DEF WorkInv

LEMMA StartKeepsWork == EnableInv /\ WorkInv /\ Start => WorkInv'
<1> SUFFICES ASSUME EnableInv, WorkInv, Start PROVE WorkInv'
  OBVIOUS
<1>1. /\ run.pc = "start" /\ SameCopy /\ run'.pc = "sources" /\ run'.at = run.at
      /\ UNCHANGED <<call, jobs, chainVars, stopVars>>
  BY GoesTo DEF Start, Goto, At, EnableInv
<1>2. run.at = 1 /\ Len(Held) \in Nat
  BY <1>1, EnableAssumption DEF WorkInv, SourcesInv, At
<1>3. SourcesInv' /\ ConfigInv' /\ RightsInv'
  BY <1>1, <1>2 DEF SourcesInv, ConfigInv, RightsInv, Sourced, Late, At
<1>4. SourcesKept /\ \A t \in HeldTokens : Begun(t)' => Begun(t)
  BY <1>1, ChainSame
<1>5. torn' = torn /\ \A t \in HeldTokens : WillHave(t) => WillHave(t)'
  BY <1>1, <1>4, HavesKept DEF stopVars
<1>6. BegunInv'
  BY <1>1, <1>4, <1>5 DEF WorkInv, BegunInv, InHand, At
<1>7. RowAtWork
  BY DEF EnableInv, RowInv, Row, Start, SetWiring, RowAtWork
<1>8. ParamsInv' /\ TriesInv' /\ LiveInv'
  BY <1>1, <1>7, BooksStay DEF SameCopy, At
<1> QED
  BY <1>3, <1>6, <1>8 DEF WorkInv

LEMMA SentNotSource ==
  ASSUME mempool \in Seq(Tx), NEW tx \in Tx, mempool' = mempool \o <<tx>>, UNCHANGED wired
  PROVE  /\ \A t \in HeldTokens : Begun(t)' =>
              Begun(t) \/ \E s \in SourceKinds : tx = SourceTx(t, s)
         /\ tx.op # "addSource" => \A t \in HeldTokens : Begun(t)' => Begun(t)
         /\ tx.op # "setKeeperBps" => tx \notin Paying
         /\ tx.op # "set" => \A q, s : tx \notin Setting(q, s)
<1>1. \A t \in HeldTokens : Begun(t)' =>
              Begun(t) \/ \E s \in SourceKinds : tx = SourceTx(t, s)
  BY SentAfter DEF Begun, SourceTx
<1>2. tx.op # "addSource" => \A t, s : tx # SourceTx(t, s)
  BY DEF SourceTx
<1>3. tx.op # "setKeeperBps" => tx \notin Paying
  BY DEF Paying, KeeperTx
<1>4. tx.op # "set" => \A q, s : tx \notin Setting(q, s)
  BY DEF Setting, SetterTx
<1> QED
  BY <1>1, <1>2, <1>3, <1>4

LEMMA EnsureSourcesKeepsWork == EnableInv /\ WorkInv /\ EnsureSources => WorkInv'
<1> SUFFICES ASSUME EnableInv, WorkInv, EnsureSources PROVE WorkInv'
  OBVIOUS
<1>1. /\ run.pc = "sources" /\ run.at \in 1..Len(Held) /\ Held[run.at] \in HeldTokens
      /\ run.at \in Nat /\ Len(Held) \in Nat
      /\ UNCHANGED <<row, call, jobs, queues, wired, stopVars>> /\ torn' = torn
  BY HeldInTokens, RunFields, EnableAssumption DEF EnsureSources, EnableInv, RunInv, At, stopVars
<1>2. \A i \in 1..(run.at - 1) : Held[i] \in HeldTokens
  BY <1>1, HeldInTokens
<1>3. \A i \in 1..(run.at - 1) : Held[i] \in torn \/ WillHave(Held[i])
  BY <1>1 DEF WorkInv, SourcesInv
<1>4. RowAtWork
  BY <1>1, RowStays
<1>5. InHand = {}
  BY <1>1 DEF InHand, At
<1>6. CASE wired.sources[Held[run.at]] # <<>>
  <2>1. /\ SameCopy /\ run'.pc = "sources" /\ run'.at = run.at + 1
        /\ UNCHANGED chainVars
    BY <1>1, <1>6, GoesOn DEF EnsureSources, EnableInv, chainVars
  <2>2. SourcesKept /\ \A t \in HeldTokens : Begun(t)' => Begun(t)
    BY <2>1, ChainSame
  <2>3. \A t \in HeldTokens : WillHave(t) => WillHave(t)'
    BY <1>1, <2>2, HavesKept
  <2>4. Held[run.at] \in torn \/ WillHave(Held[run.at])
    BY <1>1, <1>5, <1>6 DEF WorkInv, BegunInv, Begun
  <2>5. \A i \in 1..(run'.at - 1) : Held[i] \in torn' \/ WillHave(Held[i])'
    <3> SUFFICES ASSUME NEW i \in 1..run.at PROVE Held[i] \in torn \/ WillHave(Held[i])'
      BY <1>1, <2>1
    <3>1. i \in 1..(run.at - 1) \/ i = run.at
      BY <1>1
    <3> QED
      BY <1>1, <1>2, <1>3, <2>3, <2>4, <3>1
  <2>6. run'.at <= Len(Held) + 1
    BY <1>1, <2>1
  <2>7. SourcesInv' /\ ConfigInv' /\ RightsInv'
    BY <2>1, <2>5, <2>6 DEF SourcesInv, ConfigInv, RightsInv, Sourced, Late, At
  <2>8. BegunInv'
    BY <1>1, <1>5, <2>2, <2>3 DEF WorkInv, BegunInv
  <2>9. ParamsInv' /\ TriesInv' /\ LiveInv'
    BY <1>1, <1>4, <2>1, BooksStay DEF SameCopy, At
  <2> QED
    BY <2>7, <2>8, <2>9 DEF WorkInv
<1>7. CASE ~(wired.sources[Held[run.at]] # <<>>)
  <2>0. PICK t0 \in HeldTokens : t0 = Held[run.at]
    BY <1>1
  <2> DEFINE tx == SourceTx(t0, "weekday")
  <2>1. /\ SameCopy /\ run'.pc = "weekend" /\ run'.at = run.at
        /\ mempool' = mempool \o <<tx>>
    BY <1>1, <1>7, <2>0, GoesTo DEF EnsureSources, Goto, Send, EnableInv
  <2>2. tx \in Tx /\ mempool \in Seq(Tx) /\ "weekday" \in SourceKinds
    BY <1>1, TxMember DEF SourceKinds, EnableInv, ChainInv
  <2>3. \A t \in HeldTokens, s \in SourceKinds : tx = SourceTx(t, s) => t = t0
    BY DEF SourceTx
  <2> HIDE DEF tx
  <2>4. SourcesKept
    BY <1>1, <2>1, <2>2, SendKeepsRights
  <2>5. \A t \in HeldTokens : Begun(t)' => Begun(t) \/ t = t0
    BY <1>1, <2>1, <2>2, <2>3, SentNotSource
  <2>6. \A t \in HeldTokens : WillHave(t) => WillHave(t)'
    BY <1>1, <2>4, HavesKept
  <2>7. WillSource(t0, "weekday")'
    <3>1. \A x : x = tx => Sent(x)'
      BY <2>1, <2>2, SentAfter
    <3> QED
      BY <3>1 DEF WillSource, tx, SourceTx
  <2>8. \A i \in 1..(run'.at - 1) : Held[i] \in torn' \/ WillHave(Held[i])'
    BY <1>1, <1>2, <1>3, <2>1, <2>6
  <2>9. SourcesInv' /\ ConfigInv' /\ RightsInv'
    BY <2>0, <2>1, <2>7, <2>8 DEF SourcesInv, ConfigInv, RightsInv, Sourced, Late, At
  <2>10. InHand' = {t0}
    BY <2>0, <2>1 DEF InHand, At
  <2>11. BegunInv'
    BY <1>1, <1>5, <2>5, <2>6, <2>10 DEF WorkInv, BegunInv
  <2>12. ParamsInv' /\ TriesInv' /\ LiveInv'
    BY <1>1, <1>4, <2>1, BooksStay DEF SameCopy, At
  <2> QED
    BY <2>9, <2>11, <2>12 DEF WorkInv
<1> QED
  BY <1>6, <1>7

LEMMA AddWeekendKeepsWork == EnableInv /\ WorkInv /\ AddWeekendSource => WorkInv'
<1> SUFFICES ASSUME EnableInv, WorkInv, AddWeekendSource PROVE WorkInv'
  OBVIOUS
<1>0. PICK t0 \in HeldTokens : t0 = Held[run.at]
  BY HeldInTokens DEF AddWeekendSource, EnableInv, RunInv, At
<1> DEFINE tx == SourceTx(t0, "weekend")
<1>1. /\ run.pc = "weekend" /\ run.at \in 1..Len(Held) /\ Held[run.at] \in HeldTokens
      /\ run.at \in Nat /\ Len(Held) \in Nat
      /\ UNCHANGED <<row, call, jobs, queues, wired, stopVars>> /\ torn' = torn
      /\ mempool' = mempool \o <<tx>>
  BY <1>0, HeldInTokens, RunFields, EnableAssumption
     DEF AddWeekendSource, EnableInv, RunInv, At, stopVars, Send
<1>2. SameCopy /\ run'.pc = "sources" /\ run'.at = run.at + 1
  <2>1. PICK k : k = run.at + 1
    OBVIOUS
  <2>2. run' = [run EXCEPT !.pc = "sources", !.at = k]
    BY <2>1, Zenon DEF AddWeekendSource
  <2>3. SameCopy /\ run'.pc = "sources" /\ run'.at = k
    BY <2>2, GoesToOn DEF EnableInv
  <2> QED
    BY <2>1, <2>3
<1>3. \A i \in 1..(run.at - 1) : Held[i] \in HeldTokens
  BY <1>1, HeldInTokens
<1>4. \A i \in 1..(run.at - 1) : Held[i] \in torn \/ WillHave(Held[i])
  BY <1>1 DEF WorkInv, SourcesInv
<1>5. RowAtWork
  BY <1>1, RowStays
<1>6. tx \in Tx /\ mempool \in Seq(Tx) /\ SourceKinds = {"weekday", "weekend"}
  BY <1>1, TxMember DEF SourceKinds, EnableInv, ChainInv
<1>7. \A t \in HeldTokens, s \in SourceKinds : tx = SourceTx(t, s) => t = t0
  BY DEF SourceTx
<1> HIDE DEF tx
<1>8. SourcesKept
  BY <1>1, <1>6, SendKeepsRights
<1>9. \A t \in HeldTokens : Begun(t)' => Begun(t) \/ t = t0
  BY <1>1, <1>6, <1>7, SentNotSource
<1>10. \A t \in HeldTokens : WillHave(t) => WillHave(t)'
  BY <1>1, <1>8, HavesKept
<1>11. WillHave(t0)'
  <2>1. \A x : x = tx => Sent(x)'
    BY <1>1, <1>6, SentAfter
  <2>2. WillSource(t0, "weekend")'
    BY <2>1 DEF WillSource, tx, SourceTx
  <2>3. WillSource(t0, "weekday")
    BY <1>0, <1>1 DEF WorkInv, SourcesInv, At
  <2>4. WillSource(t0, "weekday")'
    BY <1>6, <1>8, <2>3 DEF SourcesKept
  <2> QED
    BY <1>6, <2>2, <2>4 DEF WillHave
<1>12. \A i \in 1..(run'.at - 1) : Held[i] \in torn' \/ WillHave(Held[i])'
  <2> SUFFICES ASSUME NEW i \in 1..run.at PROVE Held[i] \in torn \/ WillHave(Held[i])'
    BY <1>1, <1>2
  <2>1. i \in 1..(run.at - 1) \/ i = run.at
    BY <1>1
  <2> QED
    BY <1>0, <1>3, <1>4, <1>10, <1>11, <2>1
<1>13. run'.at <= Len(Held) + 1
  BY <1>1, <1>2
<1>14. SourcesInv' /\ ConfigInv' /\ RightsInv'
  BY <1>2, <1>12, <1>13 DEF SourcesInv, ConfigInv, RightsInv, Sourced, Late, At
<1>15. InHand = {t0} /\ InHand' = {}
  BY <1>0, <1>1, <1>2 DEF InHand, At
<1>16. BegunInv'
  BY <1>1, <1>9, <1>10, <1>11, <1>15 DEF WorkInv, BegunInv
<1>17. ParamsInv' /\ TriesInv' /\ LiveInv'
  BY <1>1, <1>2, <1>5, BooksStay DEF SameCopy, At
<1> QED
  BY <1>14, <1>16, <1>17 DEF WorkInv

(* Nothing or one transaction is sent, and it is no source.                *)
LEMMA SendOrNot ==
  ASSUME EnableInv, UNCHANGED <<queues, wired>>, NEW tx \in Tx, tx.op # "addSource",
         mempool' = mempool \o <<tx>> \/ mempool' = mempool \o <<>>
  PROVE  /\ RightsKept /\ SourcesKept /\ \A t \in HeldTokens : Begun(t)' => Begun(t)
         /\ tx.op # "set" => SetsKept
         /\ tx.op # "setKeeperBps" => PayKept
<1>1. mempool \in Seq(Tx)
  BY DEF EnableInv, ChainInv
<1>2. CASE mempool' = mempool \o <<tx>>
  <2>1. RightsKept /\ SourcesKept
    BY <1>1, <1>2, SendKeepsRights
  <2>2. /\ \A t \in HeldTokens : Begun(t)' => Begun(t)
        /\ tx.op # "setKeeperBps" => tx \notin Paying
        /\ tx.op # "set" => \A q, s : tx \notin Setting(q, s)
    BY <1>1, <1>2, SentNotSource
  <2>3. tx.op # "set" => SetsKept
    BY <1>1, <1>2, <2>2, SendKeepsSets DEF SetsKept
  <2>4. tx.op # "setKeeperBps" => PayKept
    BY <1>1, <1>2, <2>2, SendKeepsPay
  <2> QED
    BY <2>1, <2>2, <2>3, <2>4
<1>3. CASE mempool' = mempool \o <<>>
  <2>1. UNCHANGED chainVars
    BY <1>1, <1>3 DEF chainVars
  <2> QED
    BY <2>1, ChainSame
<1> QED
  BY <1>2, <1>3

LEMMA SourcesDoneKeepsWork == EnableInv /\ WorkInv /\ SourcesDone => WorkInv'
<1> SUFFICES ASSUME EnableInv, WorkInv, SourcesDone PROVE WorkInv'
  OBVIOUS
<1>1. /\ run.pc = "sources" /\ run.at > Len(Held) /\ run.at \in Nat /\ Len(Held) \in Nat
      /\ UNCHANGED <<row, call, jobs, chainVars, stopVars>> /\ torn' = torn
      /\ SameCopy /\ run'.pc = "deploy"
  BY GoesTo, RunFields, EnableAssumption DEF SourcesDone, Goto, EnableInv, At, stopVars
<1>2. SourcesKept /\ \A t \in HeldTokens : Begun(t)' => Begun(t)
  BY <1>1, ChainSame
<1>3. (\A t \in HeldTokens : WillHave(t) => WillHave(t)') /\ (AllHave => AllHave')
  BY <1>1, <1>2, HavesKept
<1>4. AllHave
  <2> SUFFICES ASSUME NEW t \in HeldTokens \ torn PROVE WillHave(t)
    BY DEF AllHave
  <2>1. PICK i \in DOMAIN Held : Held[i] = t
    BY DEF HeldTokens, Range
  <2>2. i \in 1..(run.at - 1)
    BY <1>1, EnableAssumption
  <2> QED
    BY <1>1, <2>1, <2>2 DEF WorkInv, SourcesInv
<1>5. SourcesInv' /\ ConfigInv' /\ RightsInv'
  BY <1>1, <1>3, <1>4 DEF SourcesInv, ConfigInv, RightsInv, Sourced, Late, At
<1>6. BegunInv'
  BY <1>1, <1>2, <1>3 DEF WorkInv, BegunInv, InHand, At
<1>7. ParamsInv' /\ TriesInv' /\ LiveInv'
  BY <1>1, RowStays, BooksStay DEF SameCopy, At
<1> QED
  BY <1>5, <1>6, <1>7 DEF WorkInv

LEMMA DeployQueueKeepsWork == EnableInv /\ WorkInv /\ DeployQueue => WorkInv'
<1> SUFFICES ASSUME EnableInv, WorkInv, DeployQueue PROVE WorkInv'
  OBVIOUS
<1>1. /\ run.pc = "deploy" /\ UNCHANGED <<call, jobs, queues, wired, stopVars>>
      /\ mempool' = mempool \o <<DeployTx>> \/ mempool' = mempool \o <<>>
  BY DEF DeployQueue, Send, At, EnableInv, ChainInv
<1>2. SameCopy /\ (run'.pc = "deploying" \/ (run'.pc = "config" /\ run'.at = 1))
  BY GoesTo, GoesToOn DEF DeployQueue, Goto, EnableInv
<1>3. RowAtWork
  BY <1>1, RowStays DEF DeployQueue
<1>4. SourcesKept /\ \A t \in HeldTokens : Begun(t)' => Begun(t)
  BY <1>1, TxMember, SendOrNot DEF DeployTx
<1>5. ConfigInv' /\ RightsInv'
  BY <1>2 DEF ConfigInv, RightsInv, Late, At
<1>6. run.pc \in Sourced /\ run'.pc \in Sourced
  BY <1>1, <1>2 DEF Sourced, Late
<1> QED
  BY <1>1, <1>2, <1>3, <1>4, <1>5, <1>6, SourcedStep DEF SameCopy

LEMMA ReceiptKeepsWork == EnableInv /\ WorkInv /\ (ReceiveReceipt \/ PersistQueue) => WorkInv'
<1> SUFFICES ASSUME EnableInv, WorkInv, ReceiveReceipt \/ PersistQueue PROVE WorkInv'
  OBVIOUS
<1>1. /\ run.pc \in {"deploying", "persist"} /\ UNCHANGED <<call, jobs, chainVars, stopVars>>
  BY DEF ReceiveReceipt, PersistQueue, At
<1>2. /\ run'.params = run.params /\ run'.tries = run.tries
      /\ run'.pc = "persist" \/ (run'.pc = "config" /\ run'.at = 1)
  <2>1. CASE ReceiveReceipt
    BY <2>1, RunFields DEF ReceiveReceipt, EnableInv, RunInv, RunType
  <2>2. CASE PersistQueue
    BY <2>2, GoesToOn DEF PersistQueue, EnableInv, SameCopy
  <2> QED
    BY <2>1, <2>2
<1>3. RowAtWork
  BY <1>1, RowStays DEF ReceiveReceipt, PersistQueue
<1>4. SourcesKept /\ \A t \in HeldTokens : Begun(t)' => Begun(t)
  BY <1>1, ChainSame
<1>5. ConfigInv' /\ RightsInv'
  BY <1>2 DEF ConfigInv, RightsInv, Late, At
<1>6. run.pc \in Sourced /\ run'.pc \in Sourced
  BY <1>1, <1>2 DEF Sourced, Late
<1> QED
  BY <1>1, <1>2, <1>3, <1>4, <1>5, <1>6, SourcedStep

(* The write of one setter leaves what the others were given.              *)
LEMMA SettersDiffer ==
  /\ \A i, j \in 1..Len(Setters) : Setters[i] = Setters[j] => i = j
  /\ \A s \in SetterNames : \E i \in 1..Len(Setters) : Setters[i] = s
<1>1. Len(Setters) = 6 /\ DOMAIN Setters = 1..6
  BY DEF Setters
<1>2. \A i, j \in 1..6 : Setters[i] = Setters[j] => i = j
  BY DEF Setters
<1> QED
  BY <1>1, <1>2 DEF SetterNames, Range

LEMMA ConfigureKeepsWork == EnableInv /\ WorkInv /\ ConfigureQueue => WorkInv'
<1> SUFFICES ASSUME EnableInv, WorkInv, ConfigureQueue PROVE WorkInv'
  OBVIOUS
<1>0. PICK q \in Deployed, p \in Params, k \in 1..Len(Setters) :
        q = run.queue /\ p = run.params /\ k = run.at
  BY RunFields DEF ConfigureQueue, EnableInv, RunInv, QueueInv, Late, At
<1> DEFINE tx == SetterTx(q, Setters[k], p)
<1>1. /\ run.pc = "config" /\ UNCHANGED <<row, call, jobs, queues, wired, stopVars>>
      /\ mempool' = mempool \o <<tx>> /\ mempool \in Seq(Tx)
  BY <1>0 DEF ConfigureQueue, Send, At, EnableInv, ChainInv
<1>2. Setters[k] \in SetterNames /\ Len(Setters) = 6
  BY SettersLength
<1>3. tx \in Tx /\ tx.op = "set"
  BY <1>2, TxMember DEF SetterTx
<1>4. \A s \in SetterNames : s # Setters[k] => tx \notin Setting(q, s)
  BY DEF Setting, SetterTx
<1>5. \A x : x = tx => Lands(x, Setting(q, Setters[k]))'
  <2>1. \A rivals : Lands(tx, rivals)'
    BY <1>1, <1>3, SentAfter
  <2> QED
    BY <2>1 DEF Setting, SetterTx
<1>6. WillSet(q, Setters[k], p)'
  BY <1>5 DEF WillSet, tx, SetterTx
<1> HIDE DEF tx
<1>7. \A s \in SetterNames : s # Setters[k] /\ WillSet(q, s, p) => WillSet(q, s, p)'
  BY <1>1, <1>3, <1>4, SendKeepsSets
<1>8. \A i \in 1..(k - 1) : WillSet(q, Setters[i], p)
  BY <1>0, <1>1 DEF WorkInv, ConfigInv, At
<1>9. \A i \in 1..k : WillSet(q, Setters[i], p)'
  <2> SUFFICES ASSUME NEW i \in 1..k PROVE WillSet(q, Setters[i], p)'
    OBVIOUS
  <2>1. CASE i = k
    BY <1>6, <2>1
  <2>2. CASE i # k
    <3>1. i \in 1..(k - 1) /\ i \in 1..Len(Setters)
      BY <1>2, <2>2
    <3>2. Setters[i] \in SetterNames /\ Setters[i] # Setters[k]
      BY <2>2, <3>1, SettersLength, SettersDiffer
    <3> QED
      BY <1>7, <1>8, <3>1, <3>2
  <2> QED
    BY <2>1, <2>2
<1>10. ConfigInv' /\ RightsInv' /\ SameCopy /\ run'.pc \in {"config", "executor"}
  <2>1. CASE run.at < Len(Setters)
    <3>1. SameCopy /\ run'.pc = "config" /\ run'.at = k + 1
      BY <1>0, <1>1, <2>1, GoesOn DEF ConfigureQueue, EnableInv
    <3>2. 1..(run'.at - 1) = 1..k
      BY <3>1
    <3>3. \A i \in 1..(run'.at - 1) : WillSet(run.queue, Setters[i], run.params)'
      BY <1>0, <1>9, <3>1, <3>2 DEF SameCopy
    <3> QED
      BY <3>1, <3>3 DEF ConfigInv, RightsInv, Late, At
  <2>2. CASE ~(run.at < Len(Setters))
    <3>0. run' = [run EXCEPT !.pc = "executor"]
      BY <2>2 DEF ConfigureQueue, Goto
    <3>1. SameCopy /\ run'.pc = "executor" /\ k = Len(Setters)
      BY <1>0, <1>2, <2>2, <3>0, GoesTo DEF EnableInv
    <3>2. \A s \in SetterNames : WillSet(q, s, p)'
      BY <1>9, <3>1, SettersDiffer
    <3>3. Configured(run.queue, run.params)'
      BY <1>0, <3>1, <3>2 DEF Configured, SameCopy
    <3> QED
      BY <3>1, <3>3 DEF ConfigInv, RightsInv, Late, At
  <2> QED
    BY <2>1, <2>2
<1>11. SourcesKept /\ \A t \in HeldTokens : Begun(t)' => Begun(t)
  BY <1>1, <1>3, SendOrNot
<1>12. run.pc \in Sourced /\ run'.pc \in Sourced /\ RowAtWork
  BY <1>1, <1>10, RowStays DEF Sourced, Late
<1> QED
  BY <1>1, <1>10, <1>11, <1>12, SourcedStep DEF SameCopy

(* After the configuration, the queue stays configured.                    *)
LEMMA ConfiguredStays ==
  ASSUME EnableInv, WorkInv, SetsKept, SameCopy, run.pc \in Late \ {"config"},
         run'.pc # "config"
  PROVE  ConfigInv'
<1>1. PICK q \in Deployed, p \in Params : q = run.queue /\ p = run.params
  BY DEF EnableInv, RunInv, QueueInv, Late, At
<1>2. Configured(q, p)
  BY <1>1 DEF WorkInv, ConfigInv
<1>3. Configured(q, p)'
  BY <1>2 DEF SetsKept, Configured
<1>4. Configured(run.queue, run.params)'
  BY <1>1, <1>3 DEF SameCopy
<1> QED
  BY <1>4 DEF ConfigInv, At

LEMMA ExecutorKeepsWork == EnableInv /\ WorkInv /\ EnsureExecutor => WorkInv'
<1> SUFFICES ASSUME EnableInv, WorkInv, EnsureExecutor PROVE WorkInv'
  OBVIOUS
<1>0. PICK q \in Deployed : q = run.queue
  BY DEF EnsureExecutor, EnableInv, QueueInv, Late, At
<1> DEFINE tx == ExecutorTx(q)
<1>1. /\ run.pc = "executor" /\ UNCHANGED <<call, jobs, queues, wired, stopVars>>
      /\ mempool \in Seq(Tx) /\ SameCopy /\ run'.pc = "reward"
      /\ SetWiringAt(run.queue)
  BY GoesTo DEF EnsureExecutor, Goto, At, EnableInv, ChainInv
<1>2. mempool' = mempool \o <<tx>> \/ (q \in wired.executors /\ mempool' = mempool \o <<>>)
  BY <1>0 DEF EnsureExecutor, Send
<1>3. tx \in Tx /\ tx.op = "setExecutor"
  BY TxMember DEF ExecutorTx
<1>4. \A x : x = tx /\ mempool' = mempool \o <<tx>> => Sent(x)'
  BY <1>1, <1>3, SentAfter
<1>5. WillExecute(q)'
  BY <1>1, <1>2, <1>4 DEF WillExecute, ExecutorTx
<1> HIDE DEF tx
<1>6. SetsKept /\ SourcesKept /\ \A t \in HeldTokens : Begun(t)' => Begun(t)
  BY <1>1, <1>2, <1>3, SendOrNot
<1>7. ConfigInv'
  BY <1>1, <1>6, ConfiguredStays DEF Late
<1>8. WillExecute(run.queue)'
  BY <1>0, <1>1, <1>5 DEF SameCopy
<1>9. RightsInv'
  BY <1>1, <1>8 DEF RightsInv, At
<1>10. run.pc \in Sourced /\ run'.pc \in Sourced /\ RowAtWork
  BY <1>1, RowStays DEF Sourced, Late
<1> QED
  BY <1>1, <1>6, <1>7, <1>9, <1>10, SourcedStep DEF SameCopy

LEMMA RewardKeepsWork == EnableInv /\ WorkInv /\ EnsureRewardCap => WorkInv'
<1> SUFFICES ASSUME EnableInv, WorkInv, EnsureRewardCap PROVE WorkInv'
  OBVIOUS
<1>0. PICK q \in Deployed : q = run.queue
  BY DEF EnsureRewardCap, EnableInv, QueueInv, Late, At
<1>1. /\ run.pc = "reward" /\ UNCHANGED <<row, call, jobs, queues, wired, stopVars>>
      /\ mempool \in Seq(Tx) /\ SameCopy
      /\ run'.pc = IF IsRegistry THEN "settler" ELSE "keeperBps"
  BY GoesTo DEF EnsureRewardCap, Goto, At, EnableInv, ChainInv
<1>2. mempool' = mempool \o <<RewardTx>> \/ (wired.capped /\ mempool' = mempool \o <<>>)
  BY DEF EnsureRewardCap, Send
<1>3. RewardTx \in Tx /\ RewardTx.op = "setMaxRewardPerCall"
  BY TxMember DEF RewardTx
<1>4. mempool' = mempool \o <<RewardTx>> => Sent(RewardTx)'
  <2>1. \A x : x = RewardTx /\ mempool' = mempool \o <<RewardTx>> => Sent(x)'
    BY <1>1, <1>3, SentAfter
  <2> QED
    BY <2>1 DEF RewardTx
<1>5. WillCap'
  BY <1>1, <1>2, <1>4 DEF WillCap, RewardTx
<1>6. SetsKept /\ RightsKept /\ SourcesKept /\ \A t \in HeldTokens : Begun(t)' => Begun(t)
  BY <1>1, <1>2, <1>3, SendOrNot
<1>7. ConfigInv'
  BY <1>1, <1>6, ConfiguredStays DEF Late
<1>8. WillExecute(q)'
  BY <1>0, <1>1, <1>6 DEF WorkInv, RightsInv, RightsKept
<1>9. WillExecute(run.queue)'
  BY <1>0, <1>1, <1>8 DEF SameCopy
<1>10. RightsInv'
  BY <1>1, <1>5, <1>9 DEF RightsInv, At
<1>11. run.pc \in Sourced /\ run'.pc \in Sourced /\ RowAtWork
  BY <1>1, RowStays DEF Sourced, Late
<1> QED
  BY <1>1, <1>6, <1>7, <1>10, <1>11, SourcedStep DEF SameCopy

LEMMA SettlerKeepsWork == EnableInv /\ WorkInv /\ EnsureSettler => WorkInv'
<1> SUFFICES ASSUME EnableInv, WorkInv, EnsureSettler PROVE WorkInv'
  OBVIOUS
<1>0. PICK q \in Deployed : q = run.queue
  BY DEF EnsureSettler, EnableInv, QueueInv, Late, At
<1> DEFINE tx == SettlerTx(q)
<1>1. /\ run.pc = "settler" /\ UNCHANGED <<call, jobs, queues, wired, stopVars>>
      /\ mempool \in Seq(Tx) /\ SameCopy /\ run'.pc = "keeperBps"
      /\ SetWiringAt(run.queue)
  BY GoesTo DEF EnsureSettler, Goto, At, EnableInv, ChainInv
<1>2. mempool' = mempool \o <<tx>> \/ (q \in wired.settlers /\ mempool' = mempool \o <<>>)
  BY <1>0 DEF EnsureSettler, Send
<1>3. tx \in Tx /\ tx.op = "setSettler"
  BY TxMember DEF SettlerTx
<1>4. \A x : x = tx /\ mempool' = mempool \o <<tx>> => Sent(x)'
  BY <1>1, <1>3, SentAfter
<1>5. WillSettle(q)'
  BY <1>1, <1>2, <1>4 DEF WillSettle, SettlerTx
<1> HIDE DEF tx
<1>6. SetsKept /\ RightsKept /\ SourcesKept /\ \A t \in HeldTokens : Begun(t)' => Begun(t)
  BY <1>1, <1>2, <1>3, SendOrNot
<1>7. ConfigInv'
  BY <1>1, <1>6, ConfiguredStays DEF Late
<1>8. WillExecute(q)' /\ WillCap'
  BY <1>0, <1>1, <1>6 DEF WorkInv, RightsInv, RightsKept
<1>9. WillExecute(run.queue)' /\ WillSettle(run.queue)'
  BY <1>0, <1>1, <1>5, <1>8 DEF SameCopy
<1>10. RightsInv'
  BY <1>1, <1>8, <1>9 DEF RightsInv, At
<1>11. run.pc \in Sourced /\ run'.pc \in Sourced /\ RowAtWork
  BY <1>1, RowStays DEF Sourced, Late
<1> QED
  BY <1>1, <1>6, <1>7, <1>10, <1>11, SourcedStep DEF SameCopy

LEMMA KeeperBpsKeepsWork == EnableInv /\ WorkInv /\ SetKeeperBps => WorkInv'
<1> SUFFICES ASSUME EnableInv, WorkInv, SetKeeperBps PROVE WorkInv'
  OBVIOUS
<1>0. PICK q \in Deployed, p \in Params : q = run.queue /\ p = run.params
  BY DEF SetKeeperBps, EnableInv, RunInv, QueueInv, Late, At
<1> DEFINE tx == KeeperTx(p)
<1>1. /\ run.pc = "keeperBps" /\ UNCHANGED <<call, jobs, queues, wired, stopVars>>
      /\ mempool \in Seq(Tx) /\ SameCopy /\ run'.pc = "live"
      /\ SetWiringAt(run.queue) \/ row' = row
  BY GoesTo DEF SetKeeperBps, Goto, At, EnableInv, ChainInv
<1>2. mempool' = mempool \o <<tx>> \/ (p \notin PaysKeeper /\ mempool' = mempool \o <<>>)
  BY <1>0, <1>1 DEF SetKeeperBps, Send
<1>3. tx \in Tx /\ tx.op = "setKeeperBps"
  BY TxMember DEF KeeperTx
<1>4. \A x : x = tx /\ mempool' = mempool \o <<tx>> => Lands(x, Paying)'
  <2>1. mempool' = mempool \o <<tx>> => \A rivals : Lands(tx, rivals)'
    BY <1>1, <1>3, SentAfter
  <2> QED
    BY <2>1 DEF Paying, KeeperTx
<1>5. p \in PaysKeeper => WillPay(p)'
  BY <1>2, <1>4 DEF WillPay, KeeperTx
<1> HIDE DEF tx
<1>6. SetsKept /\ RightsKept /\ SourcesKept /\ \A t \in HeldTokens : Begun(t)' => Begun(t)
  BY <1>1, <1>2, <1>3, SendOrNot
<1>7. ConfigInv'
  BY <1>1, <1>6, ConfiguredStays DEF Late
<1>8. WillExecute(q)' /\ WillCap' /\ (IsRegistry => WillSettle(q)')
  BY <1>0, <1>1, <1>6 DEF WorkInv, RightsInv, RightsKept
<1>9. /\ WillExecute(run.queue)' /\ (IsRegistry => WillSettle(run.queue)')
      /\ run.params \in PaysKeeper => WillPay(run.params)'
  BY <1>0, <1>1, <1>5, <1>8 DEF SameCopy
<1>10. RightsInv'
  BY <1>0, <1>1, <1>8, <1>9 DEF RightsInv, At, SameCopy
<1>11. run.pc \in Sourced /\ run'.pc \in Sourced /\ RowAtWork
  BY <1>1, RowStays DEF Sourced, Late
<1> QED
  BY <1>1, <1>6, <1>7, <1>10, <1>11, SourcedStep DEF SameCopy

(* The row goes Live when all is sent for the queue it names, and with the *)
(* parameters it names unless another run is coming.                       *)
LEMMA GoLiveKeepsWork == EnableInv /\ WorkInv /\ GoLive => WorkInv'
<1> SUFFICES ASSUME EnableInv, WorkInv, GoLive PROVE WorkInv'
  OBVIOUS
<1>0. PICK q \in Deployed, p \in Params : q = run.queue /\ p = run.params
  BY DEF GoLive, EnableInv, RunInv, QueueInv, Late, At
<1>1. /\ run.pc = "live" /\ UNCHANGED <<call, jobs, chainVars, stopVars>> /\ torn' = torn
      /\ crashes' = crashes /\ SameCopy /\ run'.pc = "refresh" /\ run'.at = run.at
  BY GoesTo DEF GoLive, Goto, At, EnableInv, stopVars
<1>2. row'.status = "Live" /\ row'.queue = run.queue /\ row'.params = row.params
  BY DEF GoLive, EnableInv, RowInv, Row
<1>3. SetsKept /\ PayKept /\ RightsKept /\ SourcesKept
      /\ \A t \in HeldTokens : Begun(t)' => Begun(t)
  BY <1>1, ChainSame
<1>4. Done(q, p)
  <2>1. Configured(q, p) /\ AllHave
    BY <1>0, <1>1 DEF WorkInv, ConfigInv, SourcesInv, Sourced, Late
  <2>2. WillExecute(q) /\ WillCap /\ (IsRegistry => WillSettle(q)) /\ (p \in PaysKeeper => WillPay(p))
    BY <1>0, <1>1 DEF WorkInv, RightsInv, At
  <2> QED
    BY <2>1, <2>2 DEF Done
<1>5. Done(q, p)'
  <2>1. Deployed' = Deployed
    BY <1>1 DEF chainVars, Deployed
  <2> QED
    BY <1>1, <1>3, <1>4, <2>1, DoneKept
<1>6. More' <=> More
  BY <1>1 DEF More
<1>7. LiveInv'
  <2>1. row.params \in Params
    BY <1>1 DEF EnableInv, RowInv, At
  <2>2. run.params = row.params => Done(row.queue, row.params)'
    BY <1>0, <1>2, <1>5
  <2>3. More' \/ run.params = row.params
    BY <1>1, <1>6 DEF WorkInv, ParamsInv, At
  <2> QED
    BY <1>1, <1>2, <2>1, <2>2, <2>3 DEF LiveInv
<1>8. \A t \in HeldTokens : WillHave(t) => WillHave(t)'
  BY <1>1, <1>3, HavesKept
<1>9. SourcesInv' /\ ConfigInv' /\ RightsInv'
  BY <1>1 DEF SourcesInv, ConfigInv, RightsInv, Sourced, Late, At
<1>10. BegunInv'
  BY <1>1, <1>3, <1>8 DEF WorkInv, BegunInv, InHand, At
<1>11. ParamsInv' /\ TriesInv'
  BY <1>1, <1>2, <1>6 DEF WorkInv, ParamsInv, TriesInv, SameCopy, At
<1> QED
  BY <1>7, <1>9, <1>10, <1>11 DEF WorkInv

(* The handler is not at work, or no further than its start.               *)
LEMMA RestingStep ==
  ASSUME EnableInv, WorkInv, UNCHANGED chainVars,
         run'.pc \in {"idle", "failed"} \/ (run'.pc = "start" /\ run'.at = 1),
         torn \cup InHand \subseteq torn'
  PROVE  SourcesInv' /\ ConfigInv' /\ RightsInv' /\ BegunInv'
<1>1. SourcesInv' /\ ConfigInv' /\ RightsInv'
  BY DEF SourcesInv, ConfigInv, RightsInv, Sourced, Late, At
<1>2. SourcesKept /\ \A t \in HeldTokens : Begun(t)' => Begun(t)
  BY ChainSame
<1>3. \A t \in HeldTokens : WillHave(t) => WillHave(t)'
  BY <1>2, HavesKept
<1>4. BegunInv'
  BY <1>2, <1>3 DEF WorkInv, BegunInv
<1> QED
  BY <1>1, <1>4

LEMMA DoneRests ==
  ASSUME EnableInv, WorkInv, UNCHANGED chainVars, torn \subseteq torn'
  PROVE  \A q \in Deployed, p \in Params : Done(q, p) => Done(q, p)'
<1>1. SetsKept /\ PayKept /\ RightsKept /\ SourcesKept
  BY ChainSame
<1>2. Deployed' = Deployed
  BY DEF chainVars, Deployed
<1> QED
  BY <1>1, <1>2, DoneKept

LEMMA TakeJobKeepsWork == EnableInv /\ WorkInv /\ TakeJob => WorkInv'
<1> SUFFICES ASSUME EnableInv, WorkInv, TakeJob PROVE WorkInv'
  OBVIOUS
<1>1. /\ At("idle") /\ jobs # <<>> /\ jobs' = Tail(jobs) /\ jobs \in Seq(0..RetryLimit)
      /\ UNCHANGED <<row, call, chainVars, stopVars>> /\ torn' = torn /\ crashes' = crashes
      /\ run' = [pc |-> "start", queue |-> row.queue, params |-> row.params,
                 at |-> 1, tries |-> Head(jobs)]
  BY DEF TakeJob, stopVars, EnableInv, JobsInv
<1>2. /\ run'.pc = "start" /\ run'.at = 1 /\ run'.params = row.params
      /\ run'.tries = Head(jobs)
  BY <1>1
<1>3. SourcesInv' /\ ConfigInv' /\ RightsInv' /\ BegunInv'
  BY <1>1, <1>2, RestingStep DEF InHand, At
<1>4. ParamsInv'
  BY <1>1, <1>2 DEF ParamsInv
<1>5. TriesInv'
  BY <1>1, <1>2, HeadTail DEF WorkInv, TriesInv
<1>6. LiveInv'
  BY <1>1, <1>2 DEF WorkInv, LiveInv
<1> QED
  BY <1>3, <1>4, <1>5, <1>6 DEF WorkInv

(* A run ends: it is refreshed, or failed and recorded.                    *)
LEMMA EndsKeepWork == EnableInv /\ WorkInv /\ (RefreshRegistry \/ RecordFailure) => WorkInv'
<1> SUFFICES ASSUME EnableInv, WorkInv, RefreshRegistry \/ RecordFailure PROVE WorkInv'
  OBVIOUS
<1>1. /\ run.pc \in {"refresh", "failed"} /\ run'.pc = "idle" /\ run'.tries = 0
      /\ UNCHANGED <<call, jobs, chainVars, stopVars>> /\ torn' = torn /\ crashes' = crashes
  BY DEF RefreshRegistry, RecordFailure, At, Idle, stopVars
<1>2. \/ row' = row /\ run.pc = "refresh"
      \/ row'.status = "Failed"
  BY DEF RefreshRegistry, RecordFailure, EnableInv, RowInv, Row, At
<1>3. SourcesInv' /\ ConfigInv' /\ RightsInv' /\ BegunInv'
  BY <1>1, RestingStep DEF InHand, At
<1>4. crashes \in Nat
  BY EnableAssumption DEF EnableInv, StopsInv
<1>5. ParamsInv' /\ TriesInv' /\ (More' <=> More)
  BY <1>1, <1>4 DEF WorkInv, ParamsInv, TriesInv, More, At
<1>6. CASE row' = row /\ run.pc = "refresh"
  <2>1. Done(row.queue, row.params) /\ row.params \in Params => Done(row.queue, row.params)'
    <3>1. \A q \in Deployed, p \in Params : Done(q, p) => Done(q, p)'
      BY <1>1, DoneRests
    <3> QED
      BY <1>6, <3>1 DEF Done
  <2>2. LiveInv'
    BY <1>1, <1>5, <1>6, <2>1 DEF WorkInv, LiveInv
  <2> QED
    BY <1>3, <1>5, <2>2 DEF WorkInv
<1>7. CASE row'.status = "Failed"
  BY <1>3, <1>5, <1>7 DEF WorkInv, LiveInv
<1> QED
  BY <1>2, <1>6, <1>7

LEMMA ThrowKeepsWork == EnableInv /\ WorkInv /\ Throw => WorkInv'
<1> SUFFICES ASSUME EnableInv, WorkInv, Throw PROVE WorkInv'
  OBVIOUS
<1>1. /\ run.pc \in Working /\ SameCopy /\ run'.pc = "failed"
      /\ UNCHANGED <<row, call, jobs, chainVars, crashes>> /\ TornIf(At("weekend"))
  BY GoesTo DEF Throw, Goto, EnableInv
<1>2. torn \cup InHand \subseteq torn'
  BY <1>1 DEF TornIf, InHand
<1>3. SourcesInv' /\ ConfigInv' /\ RightsInv' /\ BegunInv'
  BY <1>1, <1>2, RestingStep
<1>4. ParamsInv' /\ TriesInv'
  BY <1>1 DEF WorkInv, ParamsInv, TriesInv, More, SameCopy, Working, At
<1>5. LiveInv'
  BY <1>1 DEF WorkInv, LiveInv
<1> QED
  BY <1>3, <1>4, <1>5 DEF WorkInv

(* The worker stops: while stops are not too many its job comes back.      *)
LEMMA CrashKeepsWork == EnableInv /\ WorkInv /\ CrashWorker => WorkInv'
<1> SUFFICES ASSUME EnableInv, WorkInv, CrashWorker PROVE WorkInv'
  OBVIOUS
<1>1. /\ run' = Idle /\ run'.pc = "idle" /\ run'.tries = 0 /\ crashes' = crashes + 1
      /\ UNCHANGED <<row, call, chainVars>> /\ TornIf(At("weekend"))
      /\ jobs' = IF run.tries < RetryLimit THEN <<run.tries + 1>> \o jobs ELSE jobs
  BY DEF CrashWorker, Idle
<1>2. /\ crashes \in Nat /\ run.tries \in Nat /\ RetryLimit \in Nat
      /\ jobs \in Seq(0..RetryLimit) /\ 0..RetryLimit \subseteq Nat
      /\ run.tries <= crashes /\ \A i \in DOMAIN jobs : jobs[i] <= crashes
  BY RunFields, EnableAssumption DEF EnableInv, StopsInv, JobsInv, WorkInv, TriesInv
<1>3. torn \cup InHand \subseteq torn'
  BY <1>1 DEF TornIf, InHand
<1>4. SourcesInv' /\ ConfigInv' /\ RightsInv' /\ BegunInv'
  BY <1>1, <1>3, RestingStep
<1>5. ParamsInv'
  BY <1>1 DEF ParamsInv, At
<1>6. \A i \in DOMAIN jobs' : jobs'[i] <= crashes + 1
  <2>1. CASE run.tries < RetryLimit
    <3>1. /\ jobs' = <<run.tries + 1>> \o jobs /\ jobs \in Seq(Nat)
          /\ \A i \in DOMAIN jobs : jobs[i] <= crashes + 1
      BY <1>1, <1>2, <2>1
    <3>2. \A i \in DOMAIN jobs' :
            jobs'[i] = run.tries + 1 \/ (i - 1 \in DOMAIN jobs /\ jobs'[i] = jobs[i - 1])
      BY <1>2, <3>1
    <3> QED
      BY <1>2, <3>1, <3>2
  <2>2. CASE ~(run.tries < RetryLimit)
    BY <1>1, <1>2, <2>2
  <2> QED
    BY <2>1, <2>2
<1>7. TriesInv'
  BY <1>1, <1>2, <1>6 DEF TriesInv
<1>8. crashes' <= RetryLimit => jobs' # <<>>
  <2> SUFFICES ASSUME crashes + 1 <= RetryLimit PROVE jobs' # <<>>
    BY <1>1
  <2>1. run.tries < RetryLimit
    BY <1>2
  <2> QED
    BY <1>1, <1>2, <2>1
<1>9. LiveInv'
  BY <1>1, <1>8 DEF WorkInv, LiveInv, More
<1> QED
  BY <1>4, <1>5, <1>7, <1>9 DEF WorkInv

-----------------------------------------------------------------------------
LEMMA InitWorkInv == EnableInit => WorkInv
<1> SUFFICES ASSUME EnableInit PROVE WorkInv
  OBVIOUS
<1> USE DEF EnableInit, Idle
<1>1. SourcesInv /\ ConfigInv /\ RightsInv
  BY DEF SourcesInv, ConfigInv, RightsInv, Sourced, Late, At
<1>2. BegunInv
  BY DEF BegunInv, Begun, Sent
<1>3. ParamsInv /\ TriesInv /\ LiveInv
  BY DEF ParamsInv, TriesInv, LiveInv, NoRow, At
<1> QED
  BY <1>1, <1>2, <1>3 DEF WorkInv

LEMMA StepWorkInv == EnableInv /\ WorkInv /\ [EnableNext]_enableVars => WorkInv'
<1> SUFFICES ASSUME EnableInv, WorkInv, [EnableNext]_enableVars PROVE WorkInv'
  OBVIOUS
<1>1. CASE UNCHANGED enableVars
  <2>1. UNCHANGED <<row, call, jobs, run, chainVars, torn, crashes>>
    BY <1>1 DEF enableVars, workVars, stopVars
  <2>2. SourcesInv' /\ ConfigInv' /\ RightsInv' /\ BegunInv'
    BY <2>1, ChainSame, ProgressStays
  <2>3. ParamsInv' /\ TriesInv' /\ (More' <=> More)
    BY <2>1 DEF WorkInv, ParamsInv, TriesInv, More, At
  <2>4. Done(row.queue, row.params) /\ row.params \in Params => Done(row.queue, row.params)'
    <3>1. \A q \in Deployed, p \in Params : Done(q, p) => Done(q, p)'
      BY <2>1, DoneRests
    <3> QED
      BY <2>1, <3>1 DEF Done
  <2>5. LiveInv'
    BY <2>1, <2>3, <2>4 DEF WorkInv, LiveInv
  <2> QED
    BY <2>2, <2>3, <2>5 DEF WorkInv
<1>2. CASE HandlerStep
  BY <1>2, TakeJobKeepsWork, StartKeepsWork, EnsureSourcesKeepsWork, AddWeekendKeepsWork,
     SourcesDoneKeepsWork, DeployQueueKeepsWork, ReceiptKeepsWork, ConfigureKeepsWork,
     ExecutorKeepsWork, RewardKeepsWork, SettlerKeepsWork, KeeperBpsKeepsWork,
     GoLiveKeepsWork, EndsKeepWork
     DEF HandlerStep
<1> QED
  BY <1>1, <1>2, CallKeepsWork, ThrowKeepsWork, CrashKeepsWork, MineKeepsWork DEF EnableNext

LEMMA InvLiveIsWired == EnableInv /\ WorkInv => LiveIsWired
<1> SUFFICES ASSUME EnableInv, WorkInv, Quiet, row.status = "Live", crashes <= RetryLimit
             PROVE  /\ row.queue \in Deployed \cap wired.executors
                    /\ \A s \in SetterNames : queues[row.queue][s] = row.params
                    /\ wired.capped
                    /\ IsRegistry => row.queue \in wired.settlers
                    /\ row.params \in PaysKeeper => wired.keeper = row.params
                    /\ \A t \in HeldTokens \ torn : SourceKinds \subseteq Range(wired.sources[t])
  BY DEF LiveIsWired
<1>1. Done(row.queue, row.params)
  BY DEF WorkInv, LiveInv, Quiet, More, At
<1>2. DOMAIN mempool = {}
  BY DEF Quiet
<1>3. (\A tx : ~Sent(tx)) /\ (\A tx, rivals : ~Lands(tx, rivals))
  BY <1>2 DEF Sent, Lands
<1> QED
  BY <1>1, <1>3 DEF Done, Configured, WillSet, WillExecute, WillCap, WillSettle, WillPay,
                    AllHave, WillHave, WillSource

(* A Live row tells the truth once all is quiet, for any vault, requests,  *)
(* redeliveries, stops and throws: its queue has its parameters and its    *)
(* rights, and every held token its sources, but those torn, as long as    *)
(* the stops do not use up a job's retries                                 *)
(* (forward-enable.handler.ts 42-150, forward-enable.writer.ts 32-42).     *)
THEOREM LiveRowsAreWired == EnableSpec => []LiveIsWired
BY InitEnableInv, StepEnableInv, InitWorkInv, StepWorkInv, InvLiveIsWired, PTL DEF EnableSpec
=============================================================================
