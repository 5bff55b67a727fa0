--------------------------- MODULE ForwardEnable ---------------------------
(***************************************************************************)
(* Enabling forward cash settlement for one vault: the endpoint that takes *)
(* the manager's signed request, the job queue, the handler that deploys   *)
(* and wires a ForwardCashQueue with the platform key, and the database    *)
(* row that both read and write.                                           *)
(*                                                                         *)
(* The handler sends its transactions without waiting for them, except the *)
(* deployment, so what it reads of the chain is older than what it sent;   *)
(* a step of it may throw; its process may stop at any of them.            *)
(*                                                                         *)
(* One process runs the workers, so one job at a time is worked.           *)
(***************************************************************************)
EXTENDS Naturals, Sequences, Functions

CONSTANTS
  Calls,          \* the requests that reach the endpoint
  Asked,          \* [Calls -> the parameters the manager signed]
  Params,
  PaysKeeper,     \* the parameters whose keeper share is not zero
  NoParams, NoQueue,
  Held,           \* the tokens the vault holds, in the order it lists them
  IsRegistry,
  RetryLimit,     \* how often the job queue redelivers a job
  MaxCrashes, MaxFaults   \* bounds on the stops and the throws

ASSUME EnableAssumption ==
  /\ PaysKeeper \subseteq Params /\ NoParams \notin Params
  /\ Asked \in [Calls -> Params]
  /\ NoQueue \notin Nat
  /\ Held \in Seq(Range(Held)) /\ IsInjective(Held)
  /\ IsRegistry \in BOOLEAN
  /\ RetryLimit \in Nat /\ MaxCrashes \in Nat /\ MaxFaults \in Nat

Setters == <<"setGateParams", "setG1Refs", "setKeeperTip", "setSpreadBps",
             "setCapacity", "setCutoffDelay">>
HeldTokens == Range(Held)
SourceKinds == {"weekday", "weekend"}

VARIABLES
  row,         \* the vault's ForwardQueueConfig
  call,        \* [Calls -> where the request stands]
  jobs,        \* the waiting jobs: how often each was redelivered
  run,         \* the job being worked, with the handler's local variables
  queues,      \* the deployed queues: [the setters -> what they were given]
  wired,       \* what the enabling changes in the other contracts
  mempool,     \* transactions of the platform key, in the order of its nonces
  torn,        \* history: the tokens a run stopped at between their two sources
  crashes, faults

workVars == <<jobs, run>>
chainVars == <<queues, wired, mempool>>
stopVars == <<torn, crashes, faults>>
enableVars == <<row, call, workVars, chainVars, stopVars>>

Deployed == 1..Len(queues)
Statuses == {"None", "Pending", "Wiring", "Live", "Failed"}
Row == [status : Statuses, queue : Deployed \cup {NoQueue},
        params : Params \cup {NoParams}]
NoRow == [status |-> "None", queue |-> NoQueue, params |-> NoParams]

SetterNames == Range(Setters)
Blank == [s \in SetterNames |-> NoParams]
Idle == [pc |-> "idle", queue |-> NoQueue, params |-> NoParams, at |-> 0, tries |-> 0]

(* Where the handler stands inside its try block, and after it threw.      *)
Working == {"start", "sources", "weekend", "deploy", "deploying", "persist",
            "config", "executor", "reward", "settler", "keeperBps", "live", "refresh"}

SourceTx(t, s) == [op |-> "addSource", token |-> t, source |-> s]
DeployTx == [op |-> "deploy"]
SetterTx(q, s, p) == [op |-> "set", queue |-> q, setter |-> s, params |-> p]
ExecutorTx(q) == [op |-> "setExecutor", queue |-> q]
RewardTx == [op |-> "setMaxRewardPerCall"]
SettlerTx(q) == [op |-> "setSettler", queue |-> q]
KeeperTx(p) == [op |-> "setKeeperBps", params |-> p]

EnableInit ==
  /\ row = NoRow
  /\ call = [c \in Calls |-> "new"]
  /\ jobs = <<>>
  /\ run = Idle
  /\ queues = <<>>
  /\ wired = [sources |-> [t \in HeldTokens |-> <<>>], executors |-> {},
              settlers |-> {}, capped |-> FALSE, keeper |-> NoParams]
  /\ mempool = <<>>
  /\ torn = {}
  /\ crashes = 0 /\ faults = 0

-----------------------------------------------------------------------------
(* The endpoint: ForwardEnableService.enable                               *)

Moves(c, from, to) ==
  /\ call[c] = from
  /\ call' = [call EXCEPT ![c] = to]

(* The parameters are in bounds and the row does not refuse.               *)
CheckRow(c) ==
  /\ Moves(c, "new", IF row.status \in {"Live", "Wiring"} THEN "refused" ELSE "checked")
  /\ UNCHANGED <<row, workVars, chainVars, stopVars>>

(* The signature, the expiry and the nonce pass, or one of them does not.  *)
VerifySignature(c) ==
  /\ \E verdict \in {"verified", "refused"} : Moves(c, "checked", verdict)
  /\ UNCHANGED <<row, workVars, chainVars, stopVars>>

(* The upsert keeps the queue's address.                                   *)
StoreRequest(c) ==
  /\ Moves(c, "verified", "stored")
  /\ row' = [row EXCEPT !.status = "Pending", !.params = Asked[c]]
  /\ UNCHANGED <<workVars, chainVars, stopVars>>

SendJob(c) ==
  /\ Moves(c, "stored", "sent")
  /\ jobs' = Append(jobs, 0)
  /\ UNCHANGED <<row, run, chainVars, stopVars>>

(* The process stops, or the send fails, after the upsert.                 *)
LoseCall(c) ==
  /\ faults < MaxFaults
  /\ Moves(c, "stored", "unsent")
  /\ faults' = faults + 1
  /\ UNCHANGED <<row, workVars, chainVars, torn, crashes>>

-----------------------------------------------------------------------------
(* The handler: ForwardEnableHandler.run                                   *)

At(pc) == run.pc = pc
Goto(pc) == run' = [run EXCEPT !.pc = pc]
Send(txs) == mempool' = mempool \o txs
SetWiring == row' = [row EXCEPT !.status = "Wiring"]
TornIf(stopped) == torn' = IF stopped THEN torn \cup {Held[run.at]} ELSE torn
SetWiringAt(q) == row' = [row EXCEPT !.status = "Wiring", !.queue = q]

(* The job queue delivers; the handler copies the row.                     *)
TakeJob ==
  /\ At("idle") /\ jobs # <<>>
  /\ run' = [pc |-> "start", queue |-> row.queue, params |-> row.params,
             at |-> 1, tries |-> Head(jobs)]
  /\ jobs' = Tail(jobs)
  /\ UNCHANGED <<row, call, chainVars, stopVars>>

Start ==
  /\ At("start")
  /\ SetWiring
  /\ Goto("sources")
  /\ UNCHANGED <<call, jobs, chainVars, stopVars>>

(* ensureSources for the next held token: its first send, or the skip; the *)
(* count is of the mined sources.                                          *)
EnsureSources ==
  /\ At("sources") /\ run.at <= Len(Held)
  /\ IF wired.sources[Held[run.at]] # <<>>
       THEN run' = [run EXCEPT !.at = @ + 1] /\ UNCHANGED mempool
       ELSE Goto("weekend") /\ Send(<<SourceTx(Held[run.at], "weekday")>>)
  /\ UNCHANGED <<row, call, jobs, queues, wired, stopVars>>

AddWeekendSource ==
  /\ At("weekend")
  /\ Send(<<SourceTx(Held[run.at], "weekend")>>)
  /\ run' = [run EXCEPT !.pc = "sources", !.at = @ + 1]
  /\ UNCHANGED <<row, call, jobs, queues, wired, stopVars>>

SourcesDone ==
  /\ At("sources") /\ run.at > Len(Held)
  /\ Goto("deploy")
  /\ UNCHANGED <<row, call, jobs, chainVars, stopVars>>

DeployWithoutReceipt ==
  /\ At("deploy")
  /\ SetWiring
  /\ IF run.queue = NoQueue
       THEN Goto("persist") /\ Send(<<DeployTx>>)
       ELSE run' = [run EXCEPT !.pc = "config", !.at = 1] /\ UNCHANGED mempool
  /\ UNCHANGED <<call, jobs, queues, wired, stopVars>>
ResumeWithoutConfiguring ==
  /\ At("deploy")
  /\ SetWiring
  /\ IF run.queue = NoQueue
       THEN Goto("deploying") /\ Send(<<DeployTx>>)
       ELSE Goto("executor") /\ UNCHANGED mempool
  /\ UNCHANGED <<call, jobs, queues, wired, stopVars>>

(* deployQueue, unless the copy of the row had a queue.                    *)
DeployQueue ==
  /\ At("deploy")
  /\ SetWiring
  /\ IF run.queue = NoQueue
       THEN Goto("deploying") /\ Send(<<DeployTx>>)
       ELSE run' = [run EXCEPT !.pc = "config", !.at = 1] /\ UNCHANGED mempool
  /\ UNCHANGED <<call, jobs, queues, wired, stopVars>>

(* Its deployment is the last transaction sent: the queue it waits for is  *)
(* the newest once everything is mined.                                    *)
ReceiveReceipt ==
  /\ At("deploying") /\ mempool = <<>>
  /\ run' = [run EXCEPT !.pc = "persist", !.queue = Len(queues)]
  /\ UNCHANGED <<row, call, jobs, chainVars, stopVars>>

ConfigureBeforePersisting ==
  /\ At("persist")
  /\ SetWiring
  /\ run' = [run EXCEPT !.pc = "config", !.at = 1]
  /\ UNCHANGED <<call, jobs, chainVars, stopVars>>

PersistQueue ==
  /\ At("persist")
  /\ SetWiringAt(run.queue)
  /\ run' = [run EXCEPT !.pc = "config", !.at = 1]
  /\ UNCHANGED <<call, jobs, chainVars, stopVars>>

(* One of the six configuration writes, with the copied parameters.        *)
ConfigureQueue ==
  /\ At("config")
  /\ Send(<<SetterTx(run.queue, Setters[run.at], run.params)>>)
  /\ IF run.at < Len(Setters) THEN run' = [run EXCEPT !.at = @ + 1] ELSE Goto("executor")
  /\ UNCHANGED <<row, call, jobs, queues, wired, stopVars>>

EnsureExecutor ==
  /\ At("executor")
  /\ SetWiringAt(run.queue)
  /\ Send(IF run.queue \in wired.executors THEN <<>> ELSE <<ExecutorTx(run.queue)>>)
  /\ Goto("reward")
  /\ UNCHANGED <<call, jobs, queues, wired, stopVars>>

EnsureRewardCap ==
  /\ At("reward")
  /\ Send(IF wired.capped THEN <<>> ELSE <<RewardTx>>)
  /\ Goto(IF IsRegistry THEN "settler" ELSE "keeperBps")
  /\ UNCHANGED <<row, call, jobs, queues, wired, stopVars>>

EnsureSettler ==
  /\ At("settler")
  /\ SetWiringAt(run.queue)
  /\ Send(IF run.queue \in wired.settlers THEN <<>> ELSE <<SettlerTx(run.queue)>>)
  /\ Goto("keeperBps")
  /\ UNCHANGED <<call, jobs, queues, wired, stopVars>>

SetKeeperBps ==
  /\ At("keeperBps")
  /\ IF run.params \in PaysKeeper
       THEN SetWiringAt(run.queue) /\ Send(<<KeeperTx(run.params)>>)
       ELSE UNCHANGED <<row, mempool>>
  /\ Goto("live")
  /\ UNCHANGED <<call, jobs, queues, wired, stopVars>>

GoLive ==
  /\ At("live")
  /\ row' = [row EXCEPT !.status = "Live", !.queue = run.queue]
  /\ Goto("refresh")
  /\ UNCHANGED <<call, jobs, chainVars, stopVars>>

(* The registry of queues is refreshed and the job completes.              *)
RefreshRegistry ==
  /\ At("refresh")
  /\ run' = Idle
  /\ UNCHANGED <<row, call, jobs, chainVars, stopVars>>

(* Any call inside the try block may throw.                                *)
Throw ==
  /\ run.pc \in Working /\ faults < MaxFaults
  /\ Goto("failed")
  /\ TornIf(At("weekend"))
  /\ faults' = faults + 1
  /\ UNCHANGED <<row, call, jobs, chainVars, crashes>>

SwallowFailure ==
  /\ At("failed")
  /\ run' = Idle
  /\ UNCHANGED <<row, call, jobs, chainVars, stopVars>>

(* The catch block does not throw again: the job completes.                *)
RecordFailure ==
  /\ At("failed")
  /\ row' = [row EXCEPT !.status = "Failed"]
  /\ run' = Idle
  /\ UNCHANGED <<call, jobs, chainVars, stopVars>>

(* The worker's process stops, or the catch block's own write fails: the   *)
(* job queue delivers the job again while it has retries left.             *)
CrashWorker ==
  /\ ~At("idle") /\ crashes < MaxCrashes
  /\ jobs' = IF run.tries < RetryLimit THEN <<run.tries + 1>> \o jobs ELSE jobs
  /\ run' = Idle
  /\ TornIf(At("weekend"))
  /\ crashes' = crashes + 1
  /\ UNCHANGED <<row, call, chainVars, faults>>

-----------------------------------------------------------------------------
(* The chain                                                               *)

(* What a transaction of the enabling does to the other contracts; adding  *)
(* a source does not look for it first.                                    *)
Wire(w, tx) ==
  CASE tx.op = "addSource" -> [w EXCEPT !.sources[tx.token] = Append(@, tx.source)]
    [] tx.op = "setExecutor" -> [w EXCEPT !.executors = @ \cup {tx.queue}]
    [] tx.op = "setSettler" -> [w EXCEPT !.settlers = @ \cup {tx.queue}]
    [] tx.op = "setMaxRewardPerCall" -> [w EXCEPT !.capped = TRUE]
    [] tx.op = "setKeeperBps" -> [w EXCEPT !.keeper = tx.params]
    [] OTHER -> w

Mine ==
  /\ mempool # <<>>
  /\ LET tx == Head(mempool) IN
       /\ queues' = CASE tx.op = "deploy" -> Append(queues, Blank)
                      [] tx.op = "set" ->
                           [queues EXCEPT ![tx.queue][tx.setter] = tx.params]
                      [] OTHER -> queues
       /\ wired' = Wire(wired, tx)
  /\ mempool' = Tail(mempool)
  /\ UNCHANGED <<row, call, workVars, stopVars>>

HandlerStep ==
  \/ TakeJob \/ Start \/ EnsureSources \/ AddWeekendSource \/ SourcesDone
  \/ DeployQueue \/ ReceiveReceipt \/ PersistQueue \/ ConfigureQueue
  \/ EnsureExecutor \/ EnsureRewardCap \/ EnsureSettler \/ SetKeeperBps
  \/ GoLive \/ RefreshRegistry \/ RecordFailure

EnableNext ==
  \/ \E c \in Calls : CheckRow(c) \/ VerifySignature(c) \/ StoreRequest(c)
                        \/ SendJob(c) \/ LoseCall(c)
  \/ HandlerStep
  \/ Throw
  \/ CrashWorker
  \/ Mine

(* The worker keeps polling and what was broadcast is mined; nobody has to *)
(* send a request, and nothing has to fail.                                *)
EnableSpec ==
  /\ EnableInit /\ [][EnableNext]_enableVars
  /\ WF_enableVars(HandlerStep) /\ WF_enableVars(Mine)

-----------------------------------------------------------------------------
(* Properties                                                              *)

Stages == {"new", "checked", "verified", "stored", "sent", "refused", "unsent"}
Tx == {SourceTx(t, s) : t \in HeldTokens, s \in SourceKinds}
        \cup {SetterTx(q, s, p) : q \in Deployed, s \in SetterNames, p \in Params}
        \cup {ExecutorTx(q) : q \in Deployed} \cup {SettlerTx(q) : q \in Deployed}
        \cup {KeeperTx(p) : p \in Params} \cup {DeployTx, RewardTx}

(* The row, the requests, the jobs and the handler's copy keep their shape;*)
(* a job is never delivered more often than the job queue may, and the     *)
(* handler never works on without the parameters and, from the             *)
(* configuration on, without a queue.                                      *)
EnableTypeOK ==
  /\ row \in Row
  /\ call \in [Calls -> Stages]
  /\ jobs \in Seq(0..RetryLimit)
  /\ run \in [pc : Working \cup {"idle", "failed"}, queue : Deployed \cup {NoQueue},
              params : Params \cup {NoParams}, at : Nat, tries : 0..RetryLimit]
  /\ ~At("idle") => run.params \in Params
  /\ run.pc \in {"persist", "config", "executor", "reward", "settler", "keeperBps", "live"}
       => run.queue \in Deployed
  /\ At("config") => run.at \in 1..Len(Setters)
  /\ queues \in Seq([SetterNames -> Params \cup {NoParams}])
  /\ wired \in [sources : [HeldTokens -> Seq(SourceKinds)], executors : SUBSET Deployed,
                settlers : SUBSET Deployed, capped : BOOLEAN, keeper : Params \cup {NoParams}]
  /\ mempool \in Seq(Tx)
  /\ torn \subseteq HeldTokens
  /\ crashes \in 0..MaxCrashes /\ faults \in 0..MaxFaults

(* A queue the enabling has given parameters or rights, or is about to.    *)
Touched(q) ==
  \/ queues[q] # Blank
  \/ q \in wired.executors \cup wired.settlers
  \/ \E i \in DOMAIN mempool :
       mempool[i].op \in {"set", "setExecutor", "setSettler"} /\ mempool[i].queue = q

(* Only the queue the row names is ever configured or given rights: a run  *)
(* that stops between the deployment and the write of its address leaves   *)
(* an orphan, and a blank one (forward-enable.handler.ts 120-124).         *)
OnlyTheStoredQueueIsWired ==
  \A q \in Deployed : Touched(q) => row.queue = q

(* Nothing is running, waiting, unmined or half requested.                 *)
Quiet ==
  /\ jobs = <<>> /\ At("idle") /\ mempool = <<>>
  /\ \A c \in Calls : call[c] \notin {"stored", "unsent"}

(* A Live row tells the truth once all is quiet: the queue it names has    *)
(* the parameters the row shows and every right it needs, and every held   *)
(* token has both its sources, whatever requests raced and wherever        *)
(* earlier runs stopped - except between the two sources of a token:       *)
(* the count the next run skips by is then one already                     *)
(* (forward-enable.writer.ts 32-42).  It holds as long as the stops do not *)
(* use up a job's retries: the job of a request stored while an earlier    *)
(* run went Live may else be lost before its first write.                  *)
LiveIsWired ==
  Quiet /\ row.status = "Live" /\ crashes <= RetryLimit =>
    /\ row.queue \in Deployed \cap wired.executors
    /\ \A s \in SetterNames : queues[row.queue][s] = row.params
    /\ wired.capped
    /\ IsRegistry => row.queue \in wired.settlers
    /\ row.params \in PaysKeeper => wired.keeper = row.params
    /\ \A t \in HeldTokens \ torn : SourceKinds \subseteq Range(wired.sources[t])

(* Once no request is half way, the row gets to Live or Failed, as long as *)
(* the stops of the worker do not use up the job's retries.                *)
RequestsAreAnswered ==
  (\A c \in Calls : call[c] \in {"new", "refused", "sent"})
    ~> row.status \in {"None", "Live", "Failed"}
=============================================================================
