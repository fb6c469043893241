------------------------------ MODULE Watcher ------------------------------
(***************************************************************************)
(* One Watcher of pkg/watcher/watcher.go during one life of the process:   *)
(* the loop goroutine that polls the chain and puts event logs on a        *)
(* bounded channel, the pool of workers that takes them off and runs the   *)
(* handlers, and the two ways to end it (cancelling the context, Stop).    *)
(*                                                                         *)
(* An event log is its position in chain order, (block number, index in    *)
(* the block), so < on logs is the order in which a node returns them.     *)
(* The chain does not reorganise, and one node answers every request.      *)
(***************************************************************************)
EXTENDS Integers, Sequences, FiniteSets, Functions

CONSTANTS
  Logs,          \* the event logs the chain will ever emit
  Block,         \* Block[l]: the number of the block that contains l
  AddressOf,     \* AddressOf[l]: the contract that emitted l (log.Address)
  TopicOf,       \* TopicOf[l]: the event's signature hash (log.Topics[0])
  Handlers,      \* addressToHandlers: contract address -> topics with a handler
  StartBlock,    \* WatcherConfig.StartBlock
  MaxBlockSpan,  \* WatcherConfig.MaxBlockSpan
  QueueSize,     \* WatcherConfig.QueueSize, the capacity of jobQueue
  Workers,       \* the worker goroutines; WorkerCount is their number
  MaxHead        \* bound of the model: the chain stops growing at this block

NoBlock == 0     \* toBlock outside a poll
NoLog == 0       \* job of a worker that handles nothing

\* The order of the logs respects the order of their blocks.
LogsAssumption ==
  /\ Logs \subseteq Nat \ {NoLog}
  /\ Block \in [Logs -> Nat]
  /\ \A l, m \in Logs : l < m => Block[l] <= Block[m]

\* NewWatcher refuses WorkerCount <= 0 and QueueSize <= 0.
ConfigAssumption ==
  /\ StartBlock \in Nat
  /\ MaxBlockSpan \in Nat
  /\ QueueSize \in Nat \ {0}
  /\ Workers # {} /\ IsFiniteSet(Workers)
  /\ MaxHead \in Nat

ASSUME WatcherAssumption == LogsAssumption /\ ConfigAssumption

VARIABLES
  head,          \* the newest block of the chain
  ctxDone,       \* the context given to Start is cancelled
  loop,          \* where the loop goroutine is
  currentBlock,  \* the last block whose logs have been dispatched
  toBlock,       \* the last block of the poll in progress
  batch,         \* the logs of the poll in progress not yet dispatched
  jobQueue,      \* the channel of jobs, oldest first
  closed,        \* jobQueue is closed
  worker,        \* where each worker is
  job,           \* the log each worker handles
  quit,          \* the quit channel: "open", "closed", or "nil" once Stop returned
  fate           \* history: how the life of each log ended

envVars == <<head, ctxDone>>
pollVars == <<currentBlock, toBlock, batch>>
queueVars == <<jobQueue, closed>>
workerVars == <<worker, job>>
vars == <<envVars, loop, pollVars, queueVars, workerVars, quit, fate>>

(***************************************************************************)
(* The loop goroutine: "off" before Start; "select", "filter" (the latest  *)
(* block is known and FilterLogs is being asked), "dispatch", "closing"    *)
(* (jobQueue is closed, workerWg.Wait); then how it returned: "stopped"    *)
(* after workerWg.Wait, "aborted" when pollEvents returned                 *)
(* context.Canceled, "quit" after Stop.                                    *)
(***************************************************************************)
LoopRunning == {"select", "filter", "dispatch", "closing"}
LoopReturned == {"stopped", "aborted", "quit"}

TypeOK ==
  /\ head \in 0..MaxHead
  /\ ctxDone \in BOOLEAN
  /\ loop \in {"off"} \cup LoopRunning \cup LoopReturned
  /\ currentBlock \in Nat
  /\ toBlock \in Nat
  /\ batch \in SUBSET Logs
  /\ jobQueue \in Seq(Logs)
  /\ Len(jobQueue) <= QueueSize
  /\ closed \in BOOLEAN
  /\ worker \in [Workers -> {"off", "select", "handling", "exited"}]
  /\ job \in [Workers -> Logs \cup {NoLog}]
  /\ quit \in {"open", "closed", "nil"}
  /\ fate \in [Logs -> {"none", "handled", "failed", "dropped"}]

Init ==
  /\ head = 0
  /\ ctxDone = FALSE
  /\ loop = "off"
  /\ currentBlock = 0
  /\ toBlock = NoBlock
  /\ batch = {}
  /\ jobQueue = <<>>
  /\ closed = FALSE
  /\ worker = [w \in Workers |-> "off"]
  /\ job = [w \in Workers |-> NoLog]
  /\ quit = "open"
  /\ fate = [l \in Logs |-> "none"]

-----------------------------------------------------------------------------
(***************************************************************************)
(* What the watcher asks of the node, and what it does with a log.         *)
(***************************************************************************)

\* NewWatcher's address and topic lists, the arguments of FilterQuery. An empty
\* list matches everything.
addresses == DOMAIN Handlers
topics == UNION {Handlers[a] : a \in addresses}

Matches(l) ==
  /\ addresses = {} \/ AddressOf[l] \in addresses
  /\ topics = {} \/ TopicOf[l] \in topics

\* The two lookups before a log becomes a job. The query's address and topic
\* lists are independent, so a log it returns may have no handler.
HasHandler(l) ==
  /\ AddressOf[l] \in DOMAIN Handlers
  /\ TopicOf[l] \in Handlers[AddressOf[l]]

\* Faulty variant: a poll starts again at the last block of the poll before it.
FromBlock_Repeats == currentBlock

\* Faulty variant: the first block of every poll is passed over.
FromBlock_Skips == currentBlock + 2

FromBlock == currentBlock + 1

WindowEnd(latest) ==
  IF latest - FromBlock > MaxBlockSpan THEN FromBlock + MaxBlockSpan ELSE latest

\* The node's answer to FilterLogs: the matching logs of the blocks mined so far.
FilterLogs ==
  {l \in Logs : FromBlock <= Block[l] /\ Block[l] <= toBlock
                /\ Block[l] <= head /\ Matches(l)}

\* Faulty variant: the logs of a poll are dispatched newest first.
IsNext_Newest(l) == l \in batch /\ \A m \in batch : m <= l

\* The logs of a poll are dispatched in the order the node returned them.
IsNext(l) == l \in batch /\ \A m \in batch : l <= m

\* Faulty variant: one slot too many.
QueueHasRoom_OneTooMany == Len(jobQueue) <= QueueSize

\* Faulty variant: one slot too few.
QueueHasRoom_OneTooFew == Len(jobQueue) + 1 < QueueSize

QueueHasRoom == Len(jobQueue) < QueueSize

-----------------------------------------------------------------------------
(***************************************************************************)
(* The chain, the owner of the context, and the client that calls Start    *)
(* and, after it, Stop.                                                    *)
(***************************************************************************)
NewBlock ==
  /\ head < MaxHead
  /\ head' = head + 1
  /\ UNCHANGED <<ctxDone, loop, pollVars, queueVars, workerVars, quit, fate>>

Cancel ==
  /\ ~ctxDone
  /\ ctxDone' = TRUE
  /\ UNCHANGED <<head, loop, pollVars, queueVars, workerVars, quit, fate>>

\* Faulty variant: the cursor is not set to the configured block.
Start_ZeroCursor ==
  /\ loop = "off" /\ worker' = [w \in Workers |-> "select"] /\ loop' = "select"
  /\ UNCHANGED <<envVars, pollVars, queueVars, job, quit, fate>>

Start ==
  /\ loop = "off"
  /\ worker' = [w \in Workers |-> "select"] /\ currentBlock' = StartBlock
  /\ loop' = "select"
  /\ UNCHANGED <<envVars, toBlock, batch, queueVars, job, quit, fate>>

\* Faulty variant: Stop closes the job channel itself.
StopCalled_ClosesQueue ==
  /\ loop # "off" /\ quit = "open" /\ quit' = "closed" /\ closed' = TRUE
  /\ UNCHANGED <<envVars, loop, pollVars, jobQueue, workerVars, fate>>

\* Stop up to watcherWg.Wait. Once it has returned, Stop is refused and changes
\* nothing ("watcher already stopped").
StopCalled ==
  /\ loop # "off" /\ quit = "open"
  /\ quit' = "closed"
  /\ UNCHANGED <<envVars, loop, pollVars, queueVars, workerVars, fate>>

\* Faulty variant: Stop does not wait for the loop.
StopReturns_NoWait ==
  /\ quit = "closed" /\ quit' = "nil"
  /\ UNCHANGED <<envVars, loop, pollVars, queueVars, workerVars, fate>>

\* watcherWg counts one loop goroutine, from Start until it returns.
StopReturns ==
  /\ quit = "closed" /\ loop \in LoopReturned
  /\ quit' = "nil"
  /\ UNCHANGED <<envVars, loop, pollVars, queueVars, workerVars, fate>>

-----------------------------------------------------------------------------
(***************************************************************************)
(* The loop goroutine. Its select takes any ready case: ctx.Done, the      *)
(* ticker (a tick is always due in time), or quit.                         *)
(***************************************************************************)
LoopSeesCancel ==
  /\ loop = "select" /\ ctxDone
  /\ closed' = TRUE /\ loop' = "closing"
  /\ UNCHANGED <<envVars, pollVars, jobQueue, workerVars, quit, fate>>

WorkersAwaited ==
  /\ loop = "closing"
  /\ \A w \in Workers : worker[w] = "exited"
  /\ loop' = "stopped"
  /\ UNCHANGED <<envVars, pollVars, queueVars, workerVars, quit, fate>>

LoopSeesQuit ==
  /\ loop = "select" /\ quit = "closed"
  /\ loop' = "quit"
  /\ UNCHANGED <<envVars, pollVars, queueVars, workerVars, quit, fate>>

\* A tick on which BlockNumber fails, or the latest block is not above
\* currentBlock: logged at most.
PollFindsNothing ==
  /\ loop = "select"
  /\ UNCHANGED vars

\* A tick on which BlockNumber answers with a new block. A cancelled context
\* makes the call fail.
PollBegins ==
  /\ loop = "select" /\ ~ctxDone /\ head > currentBlock
  /\ toBlock' = WindowEnd(head) /\ loop' = "filter"
  /\ UNCHANGED <<envVars, currentBlock, batch, queueVars, workerVars, quit, fate>>

\* Faulty variant: a failed query passes for one that found no logs.
FilterLogsFails_Swallowed ==
  /\ loop = "filter" /\ loop' = "dispatch"
  /\ UNCHANGED <<envVars, pollVars, queueVars, workerVars, quit, fate>>

\* Faulty variant: the loop returns on every error of a poll.
FilterLogsFails_Fatal ==
  /\ loop = "filter" /\ toBlock' = NoBlock /\ loop' = "aborted"
  /\ UNCHANGED <<envVars, currentBlock, batch, queueVars, workerVars, quit, fate>>

\* FilterLogs fails: the error is wrapped, so also with a cancelled context the
\* loop logs it and goes on; currentBlock stays.
FilterLogsFails ==
  /\ loop = "filter"
  /\ toBlock' = NoBlock /\ loop' = "select"
  /\ UNCHANGED <<envVars, currentBlock, batch, queueVars, workerVars, quit, fate>>

FilterLogsReturns ==
  /\ loop = "filter" /\ ~ctxDone
  /\ batch' = FilterLogs /\ loop' = "dispatch"
  /\ UNCHANGED <<envVars, currentBlock, toBlock, queueVars, workerVars, quit, fate>>

\* A log without a handler is passed over.
SkipLog(l) ==
  /\ loop = "dispatch" /\ IsNext(l) /\ ~HasHandler(l)
  /\ batch' = batch \ {l}
  /\ UNCHANGED <<envVars, loop, currentBlock, toBlock, queueVars, workerVars, quit, fate>>

\* case jobQueue <- job: ready when the channel has room, cancelled or not.
EnqueueLog(l) ==
  /\ loop = "dispatch" /\ IsNext(l) /\ HasHandler(l) /\ QueueHasRoom
  /\ jobQueue' = Append(jobQueue, l) /\ batch' = batch \ {l}
  /\ UNCHANGED <<envVars, loop, currentBlock, toBlock, closed, workerVars, quit, fate>>

\* default: neither of the other cases is ready.
DropLog(l) ==
  /\ loop = "dispatch" /\ IsNext(l) /\ HasHandler(l) /\ ~QueueHasRoom /\ ~ctxDone
  /\ fate' = [fate EXCEPT ![l] = "dropped"] /\ batch' = batch \ {l}
  /\ UNCHANGED <<envVars, loop, currentBlock, toBlock, queueVars, workerVars, quit>>

\* case ctx.Done: pollEvents returns context.Canceled as it is, and the loop
\* returns without closing jobQueue. currentBlock stays.
DispatchCancelled ==
  /\ loop = "dispatch"
  /\ \E l \in Logs : IsNext(l) /\ HasHandler(l)
  /\ ctxDone
  /\ toBlock' = NoBlock /\ batch' = {} /\ loop' = "aborted"
  /\ UNCHANGED <<envVars, currentBlock, queueVars, workerVars, quit, fate>>

PollCompletes ==
  /\ loop = "dispatch" /\ batch = {}
  /\ currentBlock' = toBlock /\ toBlock' = NoBlock /\ loop' = "select"
  /\ UNCHANGED <<envVars, batch, queueVars, workerVars, quit, fate>>

DispatchLog(l) == SkipLog(l) \/ EnqueueLog(l) \/ DropLog(l)

LoopStep ==
  \/ LoopSeesCancel
  \/ WorkersAwaited
  \/ LoopSeesQuit
  \/ PollFindsNothing
  \/ PollBegins
  \/ FilterLogsFails
  \/ FilterLogsReturns
  \/ \E l \in Logs : DispatchLog(l)
  \/ DispatchCancelled
  \/ PollCompletes

-----------------------------------------------------------------------------
(***************************************************************************)
(* A worker goroutine. Its select takes ctx.Done or a receive, whichever   *)
(* is ready.                                                               *)
(***************************************************************************)

\* Faulty variant: the worker reads the oldest job and leaves it in the channel.
WorkerTakesJob_Peeks(w) ==
  /\ worker[w] = "select" /\ jobQueue # <<>> /\ job' = [job EXCEPT ![w] = Head(jobQueue)]
  /\ worker' = [worker EXCEPT ![w] = "handling"]
  /\ UNCHANGED <<envVars, loop, pollVars, queueVars, quit, fate>>

WorkerTakesJob(w) ==
  /\ worker[w] = "select" /\ jobQueue # <<>>
  /\ job' = [job EXCEPT ![w] = Head(jobQueue)] /\ jobQueue' = Tail(jobQueue)
  /\ worker' = [worker EXCEPT ![w] = "handling"]
  /\ UNCHANGED <<envVars, loop, pollVars, closed, quit, fate>>

\* Faulty variant: the worker returns on every error of a handler.
HandlerReturns_ErrorFatal(w) ==
  /\ worker[w] = "handling"
  /\ \E result \in {"handled", "failed"} :
       /\ fate' = [fate EXCEPT ![job[w]] = result]
       /\ worker' = [worker EXCEPT ![w] = IF result = "failed" THEN "exited" ELSE "select"]
  /\ job' = [job EXCEPT ![w] = NoLog]
  /\ UNCHANGED <<envVars, loop, pollVars, queueVars, quit>>

\* An error other than context.Canceled is logged and the job is done with.
HandlerReturns(w) ==
  /\ worker[w] = "handling"
  /\ \E result \in {"handled", "failed"} : fate' = [fate EXCEPT ![job[w]] = result]
  /\ worker' = [worker EXCEPT ![w] = "select"] /\ job' = [job EXCEPT ![w] = NoLog]
  /\ UNCHANGED <<envVars, loop, pollVars, queueVars, quit>>

\* A handler that returns context.Canceled ends its worker.
HandlerCanceled(w) ==
  /\ worker[w] = "handling" /\ ctxDone
  /\ fate' = [fate EXCEPT ![job[w]] = "failed"]
  /\ worker' = [worker EXCEPT ![w] = "exited"] /\ job' = [job EXCEPT ![w] = NoLog]
  /\ UNCHANGED <<envVars, loop, pollVars, queueVars, quit>>

\* Faulty variant: the worker waits for a job only, not for ctx.Done.
WorkerSeesCancel_Never(w) == FALSE /\ UNCHANGED vars

WorkerSeesCancel(w) ==
  /\ worker[w] = "select" /\ ctxDone
  /\ worker' = [worker EXCEPT ![w] = "exited"]
  /\ UNCHANGED <<envVars, loop, pollVars, queueVars, job, quit, fate>>

\* A receive from a closed and drained channel.
WorkerSeesClosed(w) ==
  /\ worker[w] = "select" /\ closed /\ jobQueue = <<>>
  /\ worker' = [worker EXCEPT ![w] = "exited"]
  /\ UNCHANGED <<envVars, loop, pollVars, queueVars, job, quit, fate>>

WorkerStep(w) ==
  \/ WorkerTakesJob(w)
  \/ HandlerReturns(w)
  \/ HandlerCanceled(w)
  \/ WorkerSeesCancel(w)
  \/ WorkerSeesClosed(w)

-----------------------------------------------------------------------------
\* Every goroutine has returned and Stop is not waiting.
Terminated ==
  /\ loop \in LoopReturned
  /\ \A w \in Workers : worker[w] = "exited"
  /\ quit # "closed"
  /\ UNCHANGED vars

Next ==
  \/ NewBlock
  \/ Cancel
  \/ Start
  \/ StopCalled
  \/ StopReturns
  \/ LoopStep
  \/ \E w \in Workers : WorkerStep(w)
  \/ Terminated

Spec == Init /\ [][Next]_vars

\* Go runs every goroutine that can run; select picks among its ready cases at
\* random, so a case that is ready again and again is taken; the node answers a
\* request that is made again and again; handlers return. Nothing forces a new
\* block, the cancellation, or a call of Stop.
Fairness ==
  /\ WF_vars(Start)
  /\ WF_vars(StopReturns)
  /\ WF_vars(LoopStep)
  /\ SF_vars(LoopSeesCancel)
  /\ SF_vars(LoopSeesQuit)
  /\ SF_vars(PollBegins)
  /\ SF_vars(FilterLogsReturns)
  /\ \A w \in Workers : WF_vars(WorkerStep(w))

FairSpec == Spec /\ Fairness

-----------------------------------------------------------------------------
(***************************************************************************)
(* Safety.                                                                 *)
(***************************************************************************)
Queued == Range(jobQueue)
InFlight == {job[w] : w \in Workers} \ {NoLog}
Ended == {l \in Logs : fate[l] # "none"}
Touched == Queued \cup InFlight \cup Ended

Ascending(s) == \A i, j \in DOMAIN s : i < j => s[i] < s[j]

\* The logs this watcher has to deliver: those of a configured contract and
\* event, in the blocks after StartBlock.
Wanted == {l \in Logs : HasHandler(l) /\ Block[l] > StartBlock}

\* A log is in at most one place: one slot of the channel, one worker, or ended.
\* So no handler runs twice for a log, however polls that fail and are repeated
\* interleave with the workers.
AtMostOnce ==
  /\ IsInjective(jobQueue)
  /\ \A v, w \in Workers : job[v] = job[w] /\ job[v] # NoLog => v = w
  /\ Queued \cap InFlight = {}
  /\ (Queued \cup InFlight) \cap Ended = {}

\* Every wanted log at or below currentBlock is queued, in a worker, or ended: the
\* cursor never passes a log that was not dispatched, whatever poll failed before.
NoLogLost ==
  \A l \in Wanted : loop # "off" /\ Block[l] <= currentBlock => l \in Touched

\* Only wanted logs are dispatched, and none above currentBlock but by the poll in
\* progress (or the one that the cancellation cut short): a poll that failed has
\* dispatched nothing, so repeating it delivers nothing twice.
NothingAhead ==
  /\ Touched \subseteq Wanted
  /\ loop \notin {"dispatch", "aborted"} => \A l \in Touched : Block[l] <= currentBlock

\* A poll asks for a non-empty range of mined blocks, at most MaxBlockSpan wide.
WindowInRange ==
  loop \in {"filter", "dispatch"} =>
    /\ currentBlock < toBlock /\ toBlock <= head
    /\ toBlock - (currentBlock + 1) <= MaxBlockSpan

\* Jobs are started in chain order: every queued log comes after every log that a
\* worker has taken, and the channel itself is in chain order.
ChainOrder ==
  /\ Ascending(jobQueue)
  /\ \A l \in Queued, m \in InFlight \cup {e \in Ended : fate[e] # "dropped"} : m < l

\* A log is dropped only by a backlog: at least QueueSize logs before it in chain
\* order were accepted.
DropsNeedBacklog ==
  \A l \in Ended : fate[l] = "dropped" =>
    Cardinality({m \in Touched : m < l /\ fate[m] # "dropped"}) >= QueueSize

\* The loop sends to jobQueue only while it is open (a send on a closed channel
\* panics), and closes it only when it will not send again.
NeverSendOnClosed == closed => loop \in {"closing", "stopped"}

\* "Watcher service stopped" is reported only when no worker is left.
StoppedMeansQuiet ==
  loop = "stopped" => InFlight = {} /\ \A w \in Workers : worker[w] = "exited"

(***************************************************************************)
(* What makes the above inductive.                                         *)
(***************************************************************************)

\* What each place of the goroutines says about the rest of the state.
Shape ==
  /\ \A w \in Workers : worker[w] = "handling" <=> job[w] # NoLog
  /\ loop # "dispatch" => batch = {}
  /\ loop = "off" => Touched = {} /\ \A w \in Workers : worker[w] = "off"
  /\ loop # "off" => StartBlock <= currentBlock

\* While a poll is dispatched, every wanted log of its window is still to come or
\* dispatched, and what is to come lies in the window, after all that was
\* dispatched.
PollInOrder == loop = "dispatch" =>
  /\ \A l \in batch : currentBlock < Block[l] /\ Block[l] <= toBlock
  /\ \A l \in Wanted : currentBlock < Block[l] /\ Block[l] <= toBlock => l \in batch \cup Touched
  /\ \A l \in Touched : Block[l] <= toBlock
  /\ \A l \in batch, m \in Touched : m < l

\* The inductive invariant of WatcherProofs.
IInv ==
  /\ TypeOK
  /\ Shape
  /\ AtMostOnce
  /\ ChainOrder
  /\ NoLogLost
  /\ NothingAhead
  /\ WindowInRange
  /\ PollInOrder
  /\ NeverSendOnClosed
  /\ StoppedMeansQuiet

\* Once Stop has returned, nothing more is polled or queued: the cursor stays and
\* the channel only drains.
StopIsFinal ==
  [][quit = "nil" =>
       /\ UNCHANGED <<currentBlock, batch>>
       /\ jobQueue' = jobQueue \/ jobQueue' = Tail(jobQueue)]_vars

\* Claimed by the messages of Stop ("stopping watcher", "waiting for watcher to
\* stop"): once Stop has returned, no handler is running.
StoppedWatcherIsIdle == quit = "nil" => InFlight = {}

-----------------------------------------------------------------------------
(***************************************************************************)
(* Liveness, under FairSpec.                                               *)
(***************************************************************************)

\* Every wanted log of a mined block is handled, fails, or is dropped, unless the
\* watcher is cancelled or stopped first.
WantedLogsSettle ==
  \A l \in Wanted :
    head >= Block[l] ~> (fate[l] # "none" \/ ctxDone \/ quit # "open")

\* A queued log is handled or fails unless the context is cancelled: Stop does not
\* keep the workers from draining the channel.
QueueDrains ==
  \A l \in Wanted : l \in Queued ~> (fate[l] # "none" \/ ctxDone)

\* Cancelling the context ends every goroutine, on both ways out of the loop.
CancelEndsAll ==
  ctxDone ~> (loop \in LoopReturned /\ \A w \in Workers : worker[w] = "exited")

-----------------------------------------------------------------------------
(***************************************************************************)
(* The refinement of Delivery.                                             *)
(***************************************************************************)
stage == [l \in Wanted |->
  IF l \in Queued THEN "queued"
  ELSE IF l \in InFlight THEN "active"
  ELSE IF fate[l] = "dropped" THEN "dropped"
  ELSE IF fate[l] # "none" THEN "done"
  ELSE "ahead"]

Abstract == INSTANCE Delivery WITH
  Logs <- Wanted, Capacity <- QueueSize, Concurrency <- Cardinality(Workers)

\* The watcher delivers as Delivery promises: polls, retries and the two ways to
\* end it are invisible to the handlers, but for the logs a full channel loses.
Delivers == Abstract!Spec

=============================================================================
