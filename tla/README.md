# garden-evm-watcher: specification

TLA+ modules, TLC configurations and TLAPS proofs for
`gardenfi/garden-evm-watcher`: a Go process that follows EVM chains, picks the
events of the Garden HTLC and orderbook contracts out of their logs and writes
what they say to PostgreSQL. Paths below are relative to the repository; line
numbers are those of `pkg/watcher/watcher.go` unless a file is named.

## 1. The system

| component | state | operations |
|---|---|---|
| watcher (`pkg/watcher/watcher.go`) | `currentBlock` (the cursor, in memory only), the bounded channel `jobQueue`, the channel `quit`, two wait groups, `addressToHandlers`, the address and topic lists of the query | `NewWatcher`, `Start`, the loop goroutine (`start`, `pollEvents`, `processAllContractEvents`), `worker`, `Stop` |
| event handlers (`pkg/handlers/htlc`, `pkg/handlers/orderbook`) | none (package variables with the contracts' ABIs) | `handleInitiatedEvent`, `handleRedeemedEvent`, `handleRefundedEvent`, `handleCreatedEvent`, `handleFilledEvent` |
| store (`pkg/store/store.go`) | tables `swaps` and `create_orders` | `NewStore`, `CreateSwap`, `UpdateSwapInitiate/Redeem/Refund`, `WriteCreateOrder`, `ReadCreateOrder` |
| model (`pkg/model/model.go`) | the rows' columns | conversions of `BigInt` |
| builder (`cmd/builder`, `cmd/config`) | the list of watchers | `RunWatcher`, `setupWatchers`, `LoadConfiguration` |
| entry points (`cmd/watcher`, `cmd/local`) | none | `main`: load a configuration file, call `RunWatcher` |
| test ERC20 binding (`pkg/bindings`) | none | generated, used by tests only |

How they interact. `RunWatcher` opens the database, builds one watcher per
chain of the configuration and starts each in a goroutine; then it waits for a
signal, and the process ends when it returns. `Start` spawns `WorkerCount`
workers and the loop. On every tick the loop asks the node for the newest
block, then for the logs of a window after the cursor, and puts each log that
has a handler on `jobQueue` without blocking: when the channel is full the
event is dropped. Workers receive jobs and call the handler, which runs one SQL
statement. Another service, sharing the database, inserts the rows of `swaps`
that the handlers update. A watcher ends by the cancellation of its context (the
loop closes `jobQueue` and waits for the workers, or returns at once if the
cancellation hit it while dispatching) or by `Stop` (the loop ends, the workers
do not).

What makes it hard: the interleaving of loop, workers, cancellation and `Stop`;
polls that fail half way and are repeated over another window; a queue that
sheds load while the cursor moves on; a cursor and a queue that a restart
loses, against tables that it keeps; two workers writing one row; events whose
row is not there yet; answers of the database that are lost; `Start` and `Stop`
called again, or by two goroutines at once, on one watcher; a chain that is
reorganised under a cursor that only goes forward, behind nodes that disagree;
arithmetic in fixed widths; a configuration file whose decoding errors nobody
looks at. `PROJECT.json`
lists these at their lines under `hazards`, with the properties that cover each.

What makes each component correct:

* watcher: a log of a watched contract and event is handed to its handler
  exactly once per life of the process, in chain order, unless the queue is
  full of earlier ones; nothing else is handed over; retries, cancellation and
  `Stop` change none of this; ending it ends the goroutines.
* handlers and store: a handler returns nil only if the tables hold its event,
  for good; handling an event again, in any order with the others, changes
  nothing that is already there.
* model: a number that goes through the database, JSON or an integer column
  without an error is still that number.
* builder: what is watched is what the configuration says, in whatever order
  the maps are read, and it is all or nothing.

## 2. Modules

| module | models | |
|---|---|---|
| `Delivery` | what a watcher promises to its handlers, without blocks, polls, channels or goroutines | abstract specification |
| `Watcher` | one watcher from `Start` on | implements `Delivery` |
| `Lifecycle` | `Start` and `Stop` of one watcher in any order and from several goroutines | the loop is shorter than in `Watcher` |
| `BlockWindow` | the arithmetic of `pollEvents` in `uint64` and `int64` | `Watcher` counts in Nat; this is why it may |
| `Reorg` | the poll against a chain that is reorganised and nodes that lag | without queue and workers |
| `SwapStore` | the store's statements on its two tables | used by `Indexer` |
| `Indexer` | the process end to end over several lives: `Delivery` (by `INSTANCE`), the handlers, the store, exit and restart | composition |
| `BigInts` | the conversions of `pkg/model` and the integer columns of `handleCreatedEvent` | |
| `Setup` | configuration file to running watchers | |
| `WatcherProofs`, `DeliveryProofs`, `LifecycleProofs`, `BlockWindowProofs`, `ReorgProofs`, `IndexerProofs`, `BigIntsProofs`, `SetupProofs` | | the theorems, section 4 |
| `MC*` | instances for TLC | |

`Indexer` is built on `Delivery`, not on `Watcher`: `Delivers` (checked, and
proved) says that this is what a watcher looks like from outside, so the
composition stays small.

### Watcher

A log is a natural number, its place in chain order, so `<` is the order in
which a node returns logs; `Block`, `AddressOf` and `TopicOf` give what the code
reads of it. `Handlers` is `addressToHandlers` as a function from addresses to
the topics that have a handler.

| state | code |
|---|---|
| `head`, `ctxDone` | the chain's newest block; the context given to `Start` |
| `loop` | the program counter of the loop goroutine (135-159): `select`, `filter` (inside `pollEvents`, between `BlockNumber` and the answer of `FilterLogs`), `dispatch` (the range loop at 243), `closing` (`workerWg.Wait` at 144), and how it returned: `stopped`, `aborted` (`return` at 150), `quit` |
| `currentBlock`, `toBlock`, `batch` | the cursor, the window's end, the logs not dispatched yet |
| `jobQueue`, `closed` | the channel |
| `worker[w]`, `job[w]` | a worker goroutine (176-195) and the job it runs |
| `quit` | `open`, `closed` by `Stop` (167), `nil` once it has returned (172) |
| `fate[l]` | history: how the life of a log ended |

Each action is one atomic step of one goroutine, cut where another goroutine
can observe or influence the state: at channel operations, `select`s, calls to
the node and calls of handlers. `PollBegins`/`PollFindsNothing` are a tick up
to the answer of `BlockNumber`; `FilterLogsFails`/`FilterLogsReturns` the answer
of the query; `EnqueueLog`, `DropLog`, `DispatchCancelled`, `SkipLog` the cases
of the `select` at 246 and of the two lookups before it; `PollCompletes` moves
the cursor. `DispatchCancelled` is enabled together with `EnqueueLog` when the
channel has room, as Go's `select` may take either; `DropLog` needs both other
cases not ready. With `ctxDone` the calls to the node fail: their errors are
wrapped (203, 238), so they are not `== context.Canceled` and the loop goes on
to its `select`.

### SwapStore and Indexer

The columns that one statement writes together are one value, the event they
came from, so the tables are `columns[id][group]` and `orders[id]`. A statement
is atomic; its result is `ok`, `missing` (no row matched), `duplicate` (primary
key), or `error`, with or without effect. `Indexer` gives each event a `stage`
(from `Delivery`) and the `result` of its handler; `Exit` may come between any
two steps, for a signal or for a handler that panics (`handleCreatedEvent` slices
`log.Data[96:]`), and `RunWatcher` starts over with all events ahead and the tables
kept. `acked` is history: the events whose handler ever returned nil.
`TablesExplained` is the end-to-end statement: what is in the tables came from the
chain, and an event that is not there is still on its way in this life, or its
statement matched no row or failed, or it came after enough accepted events to
fill the queue. There is no other way to lose one. The
process is assumed to see one swap row per order id and one `Created` event per
`CreateID` (`ChainAssumption`: an HTLC is initiated once, and redeemed or
refunded once; two orders differ in transaction or secret hash). Chains are not
told apart: the tables and the handlers do not tell them apart either.

### Lifecycle

`Watcher` has one `Start`; here goroutines (`Callers`) call `Start` and `Stop` in
turn, as `program` says. A step of a caller is one step on what the goroutines
share: `StopCalled` reads `w.quit` (162), `StopCloses` is `close(w.quit)` (167),
which reads the field again and panics on nil and on a closed channel,
`StopWaits` is `watcherWg.Wait`, `StopClears` the assignment of nil (172).
`Start` adds workers to the same pool, adds to `watcherWg`, resets `currentBlock`
and spawns one more loop; it makes no new `quit`. A loop evaluates the field
`w.quit` each time it enters its `select` (`LoopSelects`, variable `hears`): a nil
channel is never ready. `PollBegins` needs the mutex. Each poll asks for the one
block after the cursor, jobs are not followed and workers are counted: `Watcher`
has them in detail. `panicked` stops everything.

### BlockWindow

All sums, differences and conversions of `pollEvents` and of the `FilterQuery` are
modulo `2 * Half`, where `Half` stands for 2^63. `StartBlock`, `MaxBlockSpan` and
every head are arbitrary, also a span of 0, which is what an absent `maxBlockSpan`
gives, and a head below the cursor. The ranges of `uint64` and `int64` hold by the
operators themselves, so `TypeOK` is no property here; what could be wrong is the
window (`WindowAgrees`), how often a block is asked for (`EachBlockOnce`), and where a
poll takes the cursor (`CursorAdvances`).

### Reorg

`chain[h]` is the fork on which block `h` was mined, so a block is `<<h, fork>>`.
`Reorganise` replaces the blocks from some height on, by fewer or more than there
were. A node answers `BlockNumber` and `FilterLogs` from a view: a beginning of the
chain of now or of the chain before the latest reorganisation; the two calls of a
poll may see two views. `Restart` begins a new life at `StartBlock`. `replaced` and
`behind` are histories: the two reasons for which an event can be missed.

### BigInts

One number is followed through `place`s: memory, a column, a JSON text, an integer
column. The actions are `Scan` (by the type in which the driver hands over the
column), `Value`, `MarshalJSON`, `UnmarshalJSON`, and `Uint64` into a column of type
`integer` (`RecordCreated`). Digits are not modelled: what `big.Int` prints it
parses. `NumberPreserved` says what the code does with a number of 2^64 or more on its
way into an integer column: its low 64 bits are recorded, as another number and without
an error, when they fit the column; `OnlyForeignFormsFail` says that otherwise the
insert fails. Nothing in the repository says that such numbers cannot occur.

### Setup

`LoadConfiguration` reads the file: the result of `Decode` is ignored, so a file
that is no JSON is the empty configuration, and a value that is absent or of
another type is the zero value while the rest counts (`Doubtful` says which values
of an instance may be so). Entries are read in any order; `configs` is the list
that `getConfig` builds, `addressToHandlers` what `NewWatcher` makes of it.
`SetupFails` stands for every `return nil, err`. An HTLC takes two steps: `CallToken`
asks the contract for its Token (`htlc.go:40`), `TokenReturns` goes on with the answer,
for which the code waits without a timeout. `StartWatcher` includes
`time.NewTicker`, which panics for an interval that is absent or not positive. The
tags `binding:"required"` (`config.go:16-17,24-25`) are read by nothing, so they
constrain nothing here either.

What a damaged file does depends on the value. Without a `url` no chain is watched;
without a `pollingInterval` the process ends; without `contracts`, `startBlock` or
`maxBlockSpan` the chain is watched at no address, from block 0, or block by block, and
nobody is told. `LossesAreNoticed` is the line between them: while chains are
watched, every chain of the file is, each with a url and an interval. `ComesUp` ties
each way the start up may end to what the file gave: none watched because a chain
could not be set up, all watched because every chain is in order, the process ended by
an interval, or a Token call that never comes back.

## 3. Properties and runs

| run | instance | what it shows |
|---|---|---|
| `watcher_safety` | 8 logs in 5 blocks, two contracts, a foreign contract's log and a log that passes the query and has no handler; queue of 2, two workers (symmetric), span 1, `StartBlock` 1 | `TypeOK`, `AtMostOnce`, `NoLogLost`, `NothingAhead`, `ChainOrder`, `DropsNeedBacklog`, `NeverSendOnClosed`, the inductive invariant `IInv` (with `WindowInRange` and `StoppedMeansQuiet`), `StopIsFinal`, and `Delivers` (the refinement) |
| `watcher_liveness` | the first 4 logs in 3 blocks, queue of 1, two workers | `WantedLogsSettle`, `QueueDrains`, `CancelEndsAll` under `FairSpec` |
| `stop_leaves_workers` | the same | violated: `StoppedWatcherIsIdle` |
| `lifecycle_callers` | six programs: three for two goroutines, with one or two `Start`s and one or two `Stop`s in different orders, and three for one goroutine with two `Stop`s around, before and after its `Start`; 2 blocks | `TypeOK`, `OncePerStart`, `NoBlockSkipped`, `StopOutlivesLoops`, `AloneNoPanic`, `StopReturns`, `CancelEndsAll` under `FairSpec` |
| `lifecycle_refused` | the three programs of one goroutine, 1 block | violated: `RefusedMeansStopped` |
| `block_window` | four bits: every `StartBlock`, span and head | `WindowAgrees`, `EachBlockOnce`, `CursorAdvances` |
| `reorganised_chain` | height 3, two reorganisations, span 1, two lives | `TypeOK`, `LossIsExplained`, `OneBlockPerHeight`, `RestartHeals` under `FairSpec` |
| `indexer_safety` | 5 events of every kind, two swaps, one order, queue 2, two workers, 2 lives | `TypeOK`, `AckedIsDurable`, `TablesExplained`, `TablesOnlyGrow` |
| `indexer_liveness` | 3 events, one swap, one order, queue 1, 2 lives | `RestartRecovers` under `FairSpec` |
| `bigint_conversions` | numbers to 31, a word of 16, columns to 3 | `TypeOK`, `NumberPreserved`, `OnlyForeignFormsFail` |
| `setup_safety` | three chains, a contract listed twice, an unknown type; values of each chain that may be missing: `startBlock` of one, `contracts` and `maxBlockSpan` of another, `url` and `pollingInterval` of the third | `TypeOK`, `AllOrNone`, `WatchedAsConfigured`, `LossesAreNoticed`, `ComesUp` under `FairSpec` |
| `local_config_unwatched` | `local_config.json` | violated: `StartedContractsAreWatched` |

Why the bounds are enough. With a queue of 2 and 6 wanted logs the channel
fills, drops, drains and fills again; with a span of 1 and 5 blocks a chain that
is ahead needs several polls, and a window is cut short by the head or by the
span; two workers are the fewest that overtake one another. A log at
`StartBlock` must never be dispatched. `MaxHead` only ends the growth of the
chain. `Stop` and the cancellation may each come at any step, in both orders. In
`Indexer` two lives are enough for every kind of loss (queue, missing row,
error, exit) followed by a replay; more lives repeat the second. In `Lifecycle`
two callers give two loops on one cursor, two `Stop`s at once, and a `Stop` that
finds nil before, between and after `Start`s; `MaxBlock` 2 lets a `Start` reset the
cursor under a poll of block 2. In `Reorg` three blocks and a span of 1 give
windows cut short by the head and by the span, and a second reorganisation falls
on a chain that was shortened by the first; a lasting property of the newest
chain needs no third. `BlockWindow` has all numbers of its width, `BigInts` numbers
on both sides of the two limits.

Each property is broken by a plausible fault of the code: the operators named
`<action>_<fault>` next to the actions, listed under `mutants`.

The three violated runs are disagreements between the code and what it says:

* `Stop` (161-174) logs "stopping watcher" and "waiting for watcher to stop" and
  waits for `watcherWg`, which counts the loop only. The workers go on: with what
  is queued and with the handler they are in. `QueueDrains` is the other side of
  it: what was queued is still handled.
* `Stop` answers "watcher already stopped" (163) whenever `w.quit` is nil. After
  `Stop` and `Start` it is nil while a loop polls, and no later `Stop` ends that loop.
* `builder.go:66` logs "Starting watcher for contract" for every entry, but the
  `switch` has no default and `local_config.json` spells the type `gardenhtlc`
  where `config.go:11` has `htlc`: the contract gets the zero `ContractConfig`.

`AloneNoPanic` marks where the code stands with panics: it holds for callers that
are one goroutine with one `Start`; with two goroutines, two `Stop`s may close one
channel, and two loops the other one, and the process is gone. No text of the
repository promises otherwise, so that is a precondition here and not a finding.
`OrderlyStopEnds` marks in the same way where "watcher already stopped" is true: for
one goroutine that never starts a watcher again after it has stopped it.

### Fairness

`Watcher!Fairness` is weak for `Start` and `Stop`'s wait, for the loop and for
each worker: the Go scheduler runs every goroutine that can run, and handlers
return. It is strong for `LoopSeesCancel` and `LoopSeesQuit`, because a `select`
picks at random among its ready cases and so takes one that is ready again and
again, and for `PollBegins` and `FilterLogsReturns`, because a node that is asked
again and again answers at some time; without the latter no liveness holds. No
block, cancellation or call of `Stop` is forced. `Indexer!Fairness` is weak: the
watcher delivers (`WantedLogsSettle`), handlers return, a process that ended is
started again (the container's restart). Rows, exits and errors are not forced.
`Lifecycle!Fairness` is that of `Watcher` for each of its goroutines, and strong for
the mutex, because `sync.Mutex` starves nobody; no call and no cancellation is
forced. `Reorg!Fairness`: the loop polls on, among the nodes there is one that is up
to date and is asked now and then, and `FilterLogs` does not fail for ever.
`Setup` is sequential, so weak fairness of its next step is enough: of every step but
the answer to a Token call, which nothing bounds. That opening the database and
`ethclient.Dial` return in some way is assumed.

## 4. Proofs

Proved by TLAPS, for every value of the constants that the modules' assumptions
allow (TLC evaluates the assumptions in the runs):

| module | theorems | for every |
|---|---|---|
| `WatcherProofs` | `TypeCorrect`, `Invariance`, `DeliveredAtMostOnce`, `CursorLosesNothing`, `NothingBeyondCursor`, `StartedInChainOrder`, `NoSendOnClosed`, `StoppedIsQuiet`, `QueriesInRange`, `StopEndsPolling` | logs, contracts, handlers, `StartBlock`, span, queue, finite set of workers |
| `DeliveryProofs` | `LossNeedsBacklog`, `Refinement` (`Spec => Delivers`) | the same |
| `LifecycleProofs` | `Invariance`, `TypeCorrect`, `DispatchedOncePerStart`, `NoneSkipped`, `StopsOutliveLoops`, `NoPanicAlone`, `StoppedInOrder` | finite set of callers, programs with at most one `Start` each, number of workers, length of the chain |
| `BlockWindowProofs` | `WindowsAgree`, `BlocksServedOnce`, `CursorOnlyAdvances` | width |
| `ReorgProofs` | `Invariance`, `TypeCorrect`, `LossExplained`, `OneBlockHandled` | span, height, number of reorganisations and lives |
| `IndexerProofs` | `Invariance`, `TypeCorrect`, `AckedStays`, `TablesAreExplained`, `TablesGrow` | events, keys, queue, number of workers and lives |
| `BigIntsProofs` | `Invariance`, `TypeCorrect`, `NumbersPreserved`, `FailuresAreForeign` | width of numbers, word and column |
| `SetupProofs` | `TypeCorrect`, `WatchingIsAllOrNone`, `WatchedIsConfigured`, `LossesNeverSilent` | configuration (a finite one) and values that it may lack |

### Watcher and its refinement

None of the safety properties is inductive alone. That no log is handled twice
needs to know that a poll dispatches only what no earlier poll did, which is a
fact about the cursor (`NothingAhead`), which in turn needs to know what the
poll in progress still has to dispatch (`PollInOrder`), that its window lies
just above the cursor (`WindowInRange`) and that the logs are dispatched in
order (`ChainOrder`). `Shape` says what the program counters mean for the rest
of the state. `IInv` is their conjunction; `watcher_safety` checks it as an
invariant as well. The proof has one lemma per group of actions: the steps
outside the goroutines (`InvOutside`), those of the loop that leave the channel
alone (`InvLoopQuiet`), `InvEnqueue`, `InvDrop`, and those of the workers
(`InvWorker`); `InvStep` joins them.

For the refinement a log's `stage` is read off the place it is in (channel,
worker, `fate`). An `EnqueueLog` is an `Accept` because every earlier wanted log
is already somewhere (`NoLogLost`, `PollInOrder`); a `WorkerTakesJob` is a `Begin`
because the channel is in chain order and not all workers are busy; everything
that happens to cursor, window, `quit` and context is a stutter.

### The other components

* `LifecycleProofs`: that no block is dispatched more often than `Start` was called
  needs a Start to spare for every block still to come (`Fresh`): a `Start` adds one
  when it moves the cursor back, and a dispatch uses it up; between the dispatch and
  the cursor's move it is the mutex that keeps another loop from the same block
  (`PollsApart`). A poll that the cancellation cut short leaves a dispatched block
  above the cursor, which is harmless because nothing is dispatched after it.
  `Gapless` is the corresponding fact for `NoBlockSkipped`, `Counted` that
  `watcherWg` counts the loops, and `StartsOnce` that a loop is never started twice.
  Types need that what a caller has still to call is the end of its program
  (`TailIsSuffix`, `CallsStep`). `AloneNoPanic` follows from `AloneInv`, stated for the
  one goroutine that calls: no other caller ever leaves `idle`, so only this one closes
  `quit`, which it has just read open, and there is one loop, so that whoever closes
  `jobQueue` is past its last send on it (`Undisturbed`). If the goroutine never starts
  what it has stopped, no `Start` is left in its program once a `Stop` has begun
  (`Orderly`), and a nil `quit` means that nothing runs: `OrderlyStopEnds`. No run
  lists that one; TLC agrees on the instance of `lifecycle_callers`, and finds it
  violated when either precondition is dropped.
* `BlockWindowProofs`: `pollEvents` compares before it subtracts and subtracts before
  it adds, so `WindowInNat` shows that nothing wraps, whatever the span; from there
  a poll is `Watcher`'s, and served blocks are those between `StartBlock` and cursor.
  The one step that moves the cursor takes it to the end of such a window
  (`StepAdvances`), so it only advances, within the head and the span.
* `ReorgProofs`: `LossIsExplained` is strengthened to every height that was asked for,
  also those the chain of now does not have (`AskedIsExplained`), because such a
  height may be mined again; `PollAbove` keeps a window above all that was handled.
* `IndexerProofs`: what the tables hold came from an event of that row and group
  (`Origin`), so a second write of a group can only write the same event, and the
  tables grow (`Grows`); what a handler answered in this life is true of them
  (`Answered`). The step from one statement to the invariant is `Keeps`. For
  `TablesExplained`, `Staged` adds the delivery of this life: events are dispatched in
  order, so what waits when an event is dropped came before it (`DropNeedsBacklog`);
  what came before it and was accepted stays so until the life ends (`BacklogStays`);
  and no event is done before its handler answered.
* `BigIntsProofs`: a conversion that makes the same number is sound
  (`ConversionSound`), a failure is one of those listed (`FailureSound`). The theorem
  covers the conversion that does change a number: an integer column holds the low bits
  of what the event said, no more and no less.
* `SetupProofs`: `Phases` says what is built and started in each phase. `Built` adds
  that the list of the chain in progress has an entry for each contract read and no
  other (`Reading`); of two entries with one address the last counts, which exists
  (`LastExists`), and the zero `ContractConfig` of an unknown type takes no
  contract's address (`ZeroIsNobody`). `Calling` says that at most one entry waits for
  its Token, one of the chain in progress. `Read` says that what was decoded has all
  chains of the file or none, and `Noticed` that a watcher needs a url and a start
  that the process survives an interval; with `Built` they give `LossesAreNoticed`.
  `Listed` counts: the entries read and those still to be read are as many as the
  chain has (hence `IsFiniteSet(Contracts)` in `SetupAssumption`); with `Typed` it
  gives the types.

Model-checked only: the liveness properties, which depend on fairness and are out
of the prover's reach (`WantedLogsSettle`, `QueueDrains`, `CancelEndsAll`,
`StopReturns`, `RestartHeals`, `RestartRecovers`, `ComesUp`). Every invariant and every
action property that a passing run checks is proved.

## 5. Not modelled

* Contents of events, SQL text, log output; rows deleted softly (`deleted_at`).
* The tables `strategies`, `fill_orders`, `matched_orders`: migrated, never used.
* The generated test binding (`pkg/bindings/testerc20.go`).
* The overflow of `PollingInterval * time.Millisecond` in `int64` (only its sign
  counts in `Setup`), and the panic of a `WaitGroup` that is used again while a
  `Wait` returns (`Start` while `Stop` waits).
* Two Starts by one goroutine: `Lifecycle` names a loop after its caller, so each
  caller starts at most once.
* Two chains that share an order id: `swaps` is keyed by the id alone, and how the
  contracts form it is outside the repository (`ChainAssumption`).

## 6. Plan

What is left: a refinement from `Reorg` without reorganisations to the cursor of
`BlockWindow`; several callers in `Watcher` itself, with the jobs of two loops in one
channel.
