----------------------------- MODULE Lifecycle -----------------------------
(***************************************************************************)
(* Start and Stop of one Watcher in any order, any number of times and     *)
(* from several goroutines: quit, the two wait groups, and the mutex that  *)
(* lets one loop poll at a time. What Watcher tells of one loop is short   *)
(* here: a poll asks for the one block after the cursor, jobs are not      *)
(* followed, workers are counted. A WaitGroup that is used again while a   *)
(* Wait returns (a panic, too) is left out; all Starts get one context.    *)
(***************************************************************************)
EXTENDS Integers, Sequences, FiniteSets, SequencesExt

CONSTANTS
  Callers,      \* goroutines that call the watcher
  Programs,     \* what they may call, each in turn: functions from Callers to sequences
                \* of "Start" and "Stop", a Start at most once in each
  WorkerCount,  \* WatcherConfig.WorkerCount
  MaxBlock      \* bound of the model: the newest block of the chain

StartBlock == 0

ASSUME LifecycleAssumption ==
  /\ IsFiniteSet(Callers)
  /\ \A p \in Programs : p \in [Callers -> Seq({"Start", "Stop"})]
  /\ \A p \in Programs, c \in Callers : \A i, j \in DOMAIN p[c] :
       p[c][i] = "Start" /\ p[c][j] = "Start" => i = j
  /\ WorkerCount \in Nat \ {0} /\ MaxBlock \in Nat \ {0}

\* The loop goroutines are named after who started them.
Loops == Callers

VARIABLES
  program,       \* what the callers call, never changed
  calls,         \* what each of them has still to call
  pc,            \* where each caller is: "idle" between two calls, or in Stop
  told,          \* history: the loops that ran when a caller closed quit
  quit,          \* the field w.quit: "chan" or "nil"
  quitClosed,    \* the channel it held from the beginning is closed
  loop,          \* where each loop goroutine is
  hears,         \* the loop's select has the channel, not nil, as its third case
  window,        \* the block that the loop's poll asks for
  watcherWg,     \* the counter
  pool,          \* the workers that run, the counter of workerWg
  closed,        \* jobQueue is closed
  ctxDone,
  currentBlock,
  polled,        \* history: how often the logs of each block were dispatched
  panicked       \* the process is gone

callerVars == <<calls, pc, told>>
quitVars == <<quit, quitClosed>>
loopVars == <<loop, hears, window, watcherWg>>
poolVars == <<pool, closed>>
pollVars == <<currentBlock, polled>>
vars == <<program, callerVars, quitVars, loopVars, poolVars, ctxDone, pollVars, panicked>>
outside == <<program, callerVars, quitVars, ctxDone, panicked>>   \* of the goroutines

Running == {r \in Loops : loop[r] \notin {"off", "returned"}}
Started == {r \in Loops : loop[r] # "off"}
Polling == {r \in Loops : loop[r] \in {"filter", "dispatch"}}

TypeOK ==
  /\ program \in Programs /\ \A c \in Callers : IsSuffix(calls[c], program[c])
  /\ pc \in [Callers -> {"idle", "close", "wait", "clear"}]
  /\ told \in [Callers -> SUBSET Loops]
  /\ quit \in {"chan", "nil"} /\ quitClosed \in BOOLEAN
  /\ loop \in [Loops -> {"off", "top", "select", "lock", "filter", "dispatch", "closing", "returned"}]
  /\ hears \in [Loops -> BOOLEAN]
  /\ window \in [Loops -> 0..MaxBlock]
  /\ watcherWg \in Nat /\ pool \in Nat
  /\ closed \in BOOLEAN /\ ctxDone \in BOOLEAN /\ panicked \in BOOLEAN
  /\ currentBlock \in 0..MaxBlock
  /\ polled \in [1..MaxBlock -> Nat]

Init ==
  /\ program \in Programs /\ calls = program
  /\ pc = [c \in Callers |-> "idle"]
  /\ told = [c \in Callers |-> {}]
  /\ quit = "chan" /\ quitClosed = FALSE
  /\ loop = [r \in Loops |-> "off"]
  /\ hears = [r \in Loops |-> FALSE]
  /\ window = [r \in Loops |-> 0]
  /\ watcherWg = 0 /\ pool = 0
  /\ closed = FALSE /\ ctxDone = FALSE /\ panicked = FALSE
  /\ currentBlock = 0
  /\ polled = [b \in 1..MaxBlock |-> 0]

Cancel ==
  /\ ~ctxDone
  /\ ctxDone' = TRUE
  /\ UNCHANGED <<program, callerVars, quitVars, loopVars, poolVars, pollVars, panicked>>

Panic ==
  /\ panicked' = TRUE
  /\ UNCHANGED <<program, callerVars, quitVars, loopVars, poolVars, ctxDone, pollVars>>

-----------------------------------------------------------------------------
(***************************************************************************)
(* The callers.                                                            *)
(***************************************************************************)
Calls(c, method) == pc[c] = "idle" /\ calls[c] # <<>> /\ Head(calls[c]) = method

Returns(c) ==
  /\ calls' = [calls EXCEPT ![c] = Tail(@)]
  /\ pc' = [pc EXCEPT ![c] = "idle"]

\* Faulty variant: watcherWg.Add is forgotten.
Start_NotCounted(c) ==
  /\ Calls(c, "Start") /\ Returns(c)
  /\ pool' = pool + WorkerCount /\ currentBlock' = StartBlock
  /\ loop' = [loop EXCEPT ![c] = "top"]
  /\ UNCHANGED <<program, told, quitVars, hears, window, watcherWg, closed, ctxDone, polled, panicked>>

Start(c) ==
  /\ Calls(c, "Start")
  /\ Returns(c)
  /\ pool' = pool + WorkerCount
  /\ currentBlock' = StartBlock
  /\ watcherWg' = watcherWg + 1
  /\ loop' = [loop EXCEPT ![c] = "top"]
  /\ UNCHANGED <<program, told, quitVars, hears, window, closed, ctxDone, polled, panicked>>

\* Stop answers "watcher already stopped".
StopRefused(c) ==
  /\ Calls(c, "Stop") /\ quit = "nil"
  /\ Returns(c)
  /\ UNCHANGED <<program, told, quitVars, loopVars, poolVars, ctxDone, pollVars, panicked>>

\* Faulty variant: the field is not looked at.
StopCalled_Unchecked(c) ==
  /\ Calls(c, "Stop")
  /\ pc' = [pc EXCEPT ![c] = "close"]
  /\ UNCHANGED <<program, calls, told, quitVars, loopVars, poolVars, ctxDone, pollVars, panicked>>

StopCalled(c) ==
  /\ Calls(c, "Stop") /\ quit # "nil"
  /\ pc' = [pc EXCEPT ![c] = "close"]
  /\ UNCHANGED <<program, calls, told, quitVars, loopVars, poolVars, ctxDone, pollVars, panicked>>

\* close(w.quit), which panics on nil and on a closed channel.
StopCloses(c) ==
  /\ pc[c] = "close"
  /\ IF quit = "nil" \/ quitClosed
     THEN Panic
     ELSE /\ quitClosed' = TRUE
          /\ pc' = [pc EXCEPT ![c] = "wait"]
          /\ told' = [told EXCEPT ![c] = Running]
          /\ UNCHANGED <<program, calls, quit, loopVars, poolVars, ctxDone, pollVars, panicked>>

\* Faulty variant: Stop does not wait for the loops.
StopWaits_NoWait(c) ==
  /\ pc[c] = "wait"
  /\ pc' = [pc EXCEPT ![c] = "clear"]
  /\ UNCHANGED <<program, calls, told, quitVars, loopVars, poolVars, ctxDone, pollVars, panicked>>

\* Faulty variant: Stop waits for the workers too, whom quit does not reach.
StopWaits_ForWorkers(c) ==
  /\ pc[c] = "wait" /\ watcherWg = 0 /\ pool = 0
  /\ pc' = [pc EXCEPT ![c] = "clear"]
  /\ UNCHANGED <<program, calls, told, quitVars, loopVars, poolVars, ctxDone, pollVars, panicked>>

StopWaits(c) ==
  /\ pc[c] = "wait" /\ watcherWg = 0
  /\ pc' = [pc EXCEPT ![c] = "clear"]
  /\ UNCHANGED <<program, calls, told, quitVars, loopVars, poolVars, ctxDone, pollVars, panicked>>

StopClears(c) ==
  /\ pc[c] = "clear"
  /\ Returns(c)
  /\ quit' = "nil"
  /\ UNCHANGED <<program, told, quitClosed, loopVars, poolVars, ctxDone, pollVars, panicked>>

Stop(c) == StopRefused(c) \/ StopCalled(c) \/ StopCloses(c) \/ StopWaits(c) \/ StopClears(c)

-----------------------------------------------------------------------------
(***************************************************************************)
(* The loop goroutines and the workers.                                    *)
(***************************************************************************)
Goes(r, from, to) == loop[r] = from /\ loop' = [loop EXCEPT ![r] = to]

LoopReturns(r, from) == Goes(r, from, "returned") /\ watcherWg' = watcherWg - 1

\* The select evaluates the field w.quit anew; a nil channel is never ready.
LoopSelects(r) ==
  /\ Goes(r, "top", "select")
  /\ hears' = [hears EXCEPT ![r] = quit # "nil"]
  /\ UNCHANGED <<outside, window, watcherWg, poolVars, pollVars>>

\* case ctx.Done: close(w.jobQueue), which panics if another loop has closed it.
LoopSeesCancel(r) ==
  /\ loop[r] = "select" /\ ctxDone
  /\ IF closed
     THEN Panic
     ELSE /\ Goes(r, "select", "closing") /\ closed' = TRUE
          /\ UNCHANGED <<outside, hears, window, watcherWg, pool, pollVars>>

WorkersAwaited(r) ==
  /\ pool = 0 /\ LoopReturns(r, "closing")
  /\ UNCHANGED <<outside, hears, window, poolVars, pollVars>>

LoopSeesQuit(r) ==
  /\ hears[r] /\ quitClosed /\ LoopReturns(r, "select")
  /\ UNCHANGED <<outside, hears, window, poolVars, pollVars>>

LoopTicks(r) ==
  /\ Goes(r, "select", "lock")
  /\ UNCHANGED <<outside, hears, window, watcherWg, poolVars, pollVars>>

\* Faulty variant: pollEvents does not take the mutex.
PollBegins_Unlocked(r) ==
  /\ currentBlock < MaxBlock /\ Goes(r, "lock", "filter")
  /\ window' = [window EXCEPT ![r] = currentBlock + 1]
  /\ UNCHANGED <<outside, hears, watcherWg, poolVars, pollVars>>

\* mu.Lock, BlockNumber, and the window.
PollBegins(r) ==
  /\ Polling = {} /\ currentBlock < MaxBlock /\ Goes(r, "lock", "filter")
  /\ window' = [window EXCEPT ![r] = currentBlock + 1]
  /\ UNCHANGED <<outside, hears, watcherWg, poolVars, pollVars>>

\* Faulty variant: the error of FilterLogs is swallowed.
PollFails_Swallowed(r) ==
  /\ Goes(r, "filter", "top")
  /\ currentBlock' = window[r]
  /\ UNCHANGED <<outside, hears, window, watcherWg, poolVars, polled>>

\* A poll that ends with no logs: BlockNumber fails or has nothing new, or
\* FilterLogs fails.
PollFails(r) ==
  /\ \/ Polling = {} /\ Goes(r, "lock", "top")
     \/ Goes(r, "filter", "top")
  /\ UNCHANGED <<outside, hears, window, watcherWg, poolVars, pollVars>>

PollDispatches(r) ==
  /\ ~ctxDone /\ Goes(r, "filter", "dispatch")
  /\ polled' = [polled EXCEPT ![window[r]] = @ + 1]
  /\ UNCHANGED <<outside, hears, window, watcherWg, poolVars, currentBlock>>

\* A send on a channel that another loop has closed.
PollSendsOnClosed(r) == loop[r] = "dispatch" /\ closed /\ Panic

PollCancelled(r) ==
  /\ ctxDone /\ LoopReturns(r, "dispatch")
  /\ UNCHANGED <<outside, hears, window, poolVars, pollVars>>

PollCompletes(r) ==
  /\ Goes(r, "dispatch", "top")
  /\ currentBlock' = window[r]
  /\ UNCHANGED <<outside, hears, window, watcherWg, poolVars, polled>>

Loop(r) ==
  \/ LoopSelects(r) \/ LoopSeesCancel(r) \/ WorkersAwaited(r) \/ LoopSeesQuit(r)
  \/ LoopTicks(r) \/ PollBegins(r) \/ PollFails(r) \/ PollDispatches(r)
  \/ PollSendsOnClosed(r) \/ PollCancelled(r) \/ PollCompletes(r)

\* Faulty variant: a worker looks at the channel only.
WorkerExits_WhenClosed ==
  /\ pool > 0 /\ closed
  /\ pool' = pool - 1
  /\ UNCHANGED <<outside, loopVars, closed, pollVars>>

\* A worker returns: ctx.Done, or the closed channel.
WorkerExits ==
  /\ pool > 0 /\ ctxDone
  /\ pool' = pool - 1
  /\ UNCHANGED <<outside, loopVars, closed, pollVars>>

\* Nobody has to do anything: the process waits or is gone.
AtRest ==
  /\ panicked \/ (Running = {} /\ \A c \in Callers : pc[c] = "idle" /\ calls[c] = <<>>)
  /\ UNCHANGED vars

Next ==
  \/ ~panicked /\ (Cancel \/ WorkerExits)
  \/ ~panicked /\ \E c \in Callers : Start(c) \/ Stop(c)
  \/ ~panicked /\ \E r \in Loops : Loop(r)
  \/ AtRest

Spec == Init /\ [][Next]_vars

\* As in Watcher: goroutines that can run do, a select takes a case that is ready
\* again and again, and sync.Mutex starves nobody. No call or cancellation is forced.
Fairness ==
  /\ \A c \in Callers : WF_vars(~panicked /\ (StopCloses(c) \/ StopWaits(c) \/ StopClears(c)))
  /\ WF_vars(~panicked /\ WorkerExits)
  /\ \A r \in Loops :
       /\ WF_vars(~panicked /\ Loop(r))
       /\ SF_vars(~panicked /\ (LoopSeesCancel(r) \/ LoopSeesQuit(r)))
       /\ SF_vars(~panicked /\ loop[r] = "lock" /\ Loop(r))

FairSpec == Spec /\ Fairness

-----------------------------------------------------------------------------
\* However many loops there are and whenever Start moves the cursor back, the mutex
\* keeps the polls apart: no block's logs are dispatched more often than Start was
\* called.
OncePerStart == \A b \in 1..MaxBlock : polled[b] <= Cardinality(Started)

\* And none is passed over: the cursor stands behind blocks that were dispatched.
NoBlockSkipped == \A b \in 1..currentBlock : polled[b] > 0

\* When Stop gives up quit, none of the loops that ran when it closed it is left.
StopOutlivesLoops == \A c \in Callers : pc[c] = "clear" => told[c] \cap Running = {}

\* All calls are made by one goroutine, one after the other.
Alone(c) == \A d \in Callers \ {c} : program[d] = <<>>

\* Calls that one goroutine makes one after the other, with one Start among them, in any
\* place, and a cancellation anywhere: nothing panics. With two goroutines two Stops may
\* close the same channel, and two loops the other one.
AloneNoPanic == (\E c \in Callers : Alone(c)) => ~panicked

\* Where Stop's error "watcher already stopped" is true: one goroutine makes the calls,
\* and never starts a watcher that it has told to stop.
NoStartAfterStop(c) ==
  \A i, j \in DOMAIN program[c] : program[c][i] = "Stop" /\ program[c][j] = "Start" => j < i

OrderlyStopEnds ==
  \A c \in Callers : Alone(c) /\ NoStartAfterStop(c) => (quit = "nil" => Running = {})

\* Every Stop returns, unless the process is gone.
StopReturns == \A c \in Callers : pc[c] # "idle" ~> (pc[c] = "idle" \/ panicked)

\* The cancellation ends every loop and worker, also a loop that no Stop can reach
\* any more.
CancelEndsAll == ctxDone ~> (panicked \/ (Running = {} /\ pool = 0))

\* Claimed by Stop's error "watcher already stopped": when it is returned, no loop
\* is running.
RefusedMeansStopped == [][\A c \in Callers : StopRefused(c) => Running = {}]_vars

=============================================================================
