--------------------------- MODULE WatcherProofs ---------------------------
(***************************************************************************)
(* Proofs about Watcher, for every chain, configuration and number of      *)
(* workers: type correctness, the inductive invariant IInv and the safety  *)
(* properties it contains, and the refinement of Delivery.                 *)
(***************************************************************************)
EXTENDS Watcher, SequenceTheorems, TLAPS

-----------------------------------------------------------------------------
(***************************************************************************)
(* Type correctness.                                                       *)
(***************************************************************************)

\* The end of a poll's window is a block number.
LEMMA WindowEndType ==
  ASSUME currentBlock \in Nat, NEW latest \in Nat
  PROVE  WindowEnd(latest) \in Nat
  BY WatcherAssumption DEF WatcherAssumption, ConfigAssumption, WindowEnd, FromBlock

LEMMA TypeInit == Init => TypeOK
  <1> SUFFICES ASSUME Init PROVE TypeOK
    OBVIOUS
  <1>1. jobQueue \in Seq(Logs) /\ Len(jobQueue) = 0
    BY EmptySeq DEF Init
  <1>2. Len(jobQueue) <= QueueSize
    BY <1>1, WatcherAssumption DEF WatcherAssumption, ConfigAssumption
  <1>3. head \in 0..MaxHead
    BY WatcherAssumption DEF Init, WatcherAssumption, ConfigAssumption
  <1> QED
    BY <1>1, <1>2, <1>3 DEF Init, TypeOK, LoopRunning, NoBlock, NoLog

LEMMA TypeStep == TypeOK /\ [Next]_vars => TypeOK'
  <1> SUFFICES ASSUME TypeOK, [Next]_vars PROVE TypeOK'
    OBVIOUS
  <1> USE DEF TypeOK, envVars, pollVars, queueVars, workerVars, LoopRunning, LoopReturned
  <1>1. CASE NewBlock
    BY <1>1, WatcherAssumption DEF NewBlock, WatcherAssumption, ConfigAssumption
  <1>2. CASE Cancel
    BY <1>2 DEF Cancel
  <1>3. CASE Start
    BY <1>3, WatcherAssumption DEF Start, WatcherAssumption, ConfigAssumption
  <1>4. CASE StopCalled
    BY <1>4 DEF StopCalled
  <1>5. CASE StopReturns
    BY <1>5 DEF StopReturns
  <1>6. CASE LoopStep
    <2>1. CASE LoopSeesCancel
      BY <2>1 DEF LoopSeesCancel
    <2>2. CASE WorkersAwaited
      BY <2>2 DEF WorkersAwaited
    <2>3. CASE LoopSeesQuit
      BY <2>3 DEF LoopSeesQuit
    <2>4. CASE PollFindsNothing
      BY <2>4 DEF PollFindsNothing, vars
    <2>5. CASE PollBegins
      <3>1. WindowEnd(head) \in Nat
        BY WindowEndType
      <3> QED
        BY <2>5, <3>1 DEF PollBegins
    <2>6. CASE FilterLogsFails
      BY <2>6 DEF FilterLogsFails, NoBlock
    <2>7. CASE FilterLogsReturns
      BY <2>7 DEF FilterLogsReturns, FilterLogs
    <2>8. ASSUME NEW l \in Logs, DispatchLog(l) PROVE TypeOK'
      <3>1. CASE SkipLog(l)
        BY <3>1 DEF SkipLog
      <3>2. CASE EnqueueLog(l)
        <4>1. jobQueue' \in Seq(Logs) /\ Len(jobQueue') = Len(jobQueue) + 1
          BY <3>2, AppendProperties DEF EnqueueLog
        <4>2. Len(jobQueue') <= QueueSize
          BY <3>2, <4>1, LenProperties, WatcherAssumption
          DEF EnqueueLog, QueueHasRoom, WatcherAssumption, ConfigAssumption
        <4> QED
          BY <3>2, <4>1, <4>2 DEF EnqueueLog
      <3>3. CASE DropLog(l)
        BY <3>3 DEF DropLog
      <3> QED
        BY <2>8, <3>1, <3>2, <3>3 DEF DispatchLog
    <2>9. CASE DispatchCancelled
      BY <2>9 DEF DispatchCancelled, NoBlock
    <2>10. CASE PollCompletes
      BY <2>10 DEF PollCompletes, NoBlock
    <2> QED
      BY <1>6, <2>1, <2>2, <2>3, <2>4, <2>5, <2>6, <2>7, <2>8, <2>9, <2>10 DEF LoopStep
  <1>7. ASSUME NEW w \in Workers, WorkerStep(w) PROVE TypeOK'
    <2>1. CASE WorkerTakesJob(w)
      <3>1. /\ Head(jobQueue) \in Logs
            /\ Tail(jobQueue) \in Seq(Logs)
            /\ Len(Tail(jobQueue)) = Len(jobQueue) - 1
        BY <2>1, HeadTailProperties DEF WorkerTakesJob
      <3>2. Len(jobQueue') <= QueueSize
        BY <2>1, <3>1, LenProperties, WatcherAssumption
        DEF WorkerTakesJob, WatcherAssumption, ConfigAssumption
      <3> QED
        BY <2>1, <3>1, <3>2 DEF WorkerTakesJob
    <2>2. CASE HandlerReturns(w)
      BY <2>2 DEF HandlerReturns
    <2>3. CASE HandlerCanceled(w)
      BY <2>3 DEF HandlerCanceled
    <2>4. CASE WorkerSeesCancel(w)
      BY <2>4 DEF WorkerSeesCancel
    <2>5. CASE WorkerSeesClosed(w)
      BY <2>5 DEF WorkerSeesClosed
    <2> QED
      BY <1>7, <2>1, <2>2, <2>3, <2>4, <2>5 DEF WorkerStep
  <1>8. CASE Terminated \/ UNCHANGED vars
    BY <1>8 DEF Terminated, vars
  <1> QED
    BY <1>1, <1>2, <1>3, <1>4, <1>5, <1>6, <1>7, <1>8 DEF Next

\* Every reachable state is well typed; in particular the channel never holds
\* more than QueueSize jobs.
THEOREM TypeCorrect == Spec => []TypeOK
  BY TypeInit, TypeStep, PTL DEF Spec
-----------------------------------------------------------------------------
(***************************************************************************)
(* Sequences: how the elements and the order of the channel change.        *)
(***************************************************************************)

\* Appending adds one element.
LEMMA RangeAppend ==
  ASSUME NEW S, NEW s \in Seq(S), NEW e \in S
  PROVE  Range(Append(s, e)) = Range(s) \cup {e}
  <1>1. DOMAIN s = 1..Len(s) /\ Len(s) \in Nat
    BY LenProperties
  <1>2. DOMAIN Append(s, e) = 1..(Len(s) + 1)
    BY AppendProperties, LenProperties
  <1>3. \A i \in 1..Len(s) : Append(s, e)[i] = s[i]
    BY AppendProperties
  <1>4. Append(s, e)[Len(s) + 1] = e
    BY AppendProperties
  <1>5. 1..(Len(s) + 1) = 1..Len(s) \cup {Len(s) + 1}
    BY <1>1
  <1> QED
    BY <1>1, <1>2, <1>3, <1>4, <1>5, Zenon DEF Range

\* Taking the head takes one element.
LEMMA RangeTail ==
  ASSUME NEW S, NEW s \in Seq(S), s # <<>>
  PROVE  Range(s) = {Head(s)} \cup Range(Tail(s))
  <1>1. DOMAIN s = 1..Len(s) /\ Len(s) \in Nat \ {0}
    BY LenProperties, EmptySeq
  <1>2. DOMAIN Tail(s) = 1..(Len(s) - 1)
    BY HeadTailProperties, LenProperties
  <1>3. \A i \in 1..(Len(s) - 1) : Tail(s)[i] = s[i + 1]
    BY HeadTailProperties
  <1>4. Head(s) = s[1]
    BY HeadTailProperties
  <1>5. ASSUME NEW i \in 1..Len(s), i # 1
        PROVE  i - 1 \in 1..(Len(s) - 1) /\ s[i] = Tail(s)[i - 1]
    <2>1. i - 1 \in 1..(Len(s) - 1) /\ (i - 1) + 1 = i
      BY <1>1, <1>5
    <2>2. Tail(s)[i - 1] = s[(i - 1) + 1]
      BY <1>3, <2>1
    <2> QED
      BY <2>1, <2>2
  <1>6. Range(s) \subseteq {Head(s)} \cup Range(Tail(s))
    <2>1. ASSUME NEW i \in 1..Len(s), i # 1 PROVE s[i] \in Range(Tail(s))
      BY <1>2, <1>5, <2>1 DEF Range
    <2> QED
      BY <1>1, <1>4, <2>1 DEF Range
  <1>7. Head(s) \in Range(s)
    BY <1>1, <1>4 DEF Range
  <1>8. \A i \in 1..(Len(s) - 1) : i + 1 \in DOMAIN s /\ Tail(s)[i] = s[i + 1]
    BY <1>1, <1>3
  <1>9. Range(Tail(s)) \subseteq Range(s)
    BY <1>2, <1>8 DEF Range
  <1> QED
    BY <1>6, <1>7, <1>9

\* An ascending sequence of numbers has no repetition.
LEMMA AscendingInjective ==
  ASSUME NEW s \in Seq(Int), Ascending(s)
  PROVE  IsInjective(s)
  <1>1. DOMAIN s = 1..Len(s) /\ \A i \in 1..Len(s) : s[i] \in Int
    BY LenProperties, ElementOfSeq
  <1> QED
    BY <1>1, LenProperties DEF Ascending, IsInjective

\* A larger element may be appended.
LEMMA AscendingAppend ==
  ASSUME NEW s \in Seq(Int), NEW e \in Int, Ascending(s), \A d \in Range(s) : d < e
  PROVE  Ascending(Append(s, e))
  <1>1. DOMAIN s = 1..Len(s) /\ Len(s) \in Nat
    BY LenProperties
  <1>2. DOMAIN Append(s, e) = 1..(Len(s) + 1)
    BY AppendProperties, LenProperties
  <1>3. \A i \in 1..Len(s) : Append(s, e)[i] = s[i] /\ s[i] < e
    BY <1>1, AppendProperties DEF Range
  <1>4. Append(s, e)[Len(s) + 1] = e
    BY AppendProperties
  <1> QED
    BY <1>1, <1>2, <1>3, <1>4 DEF Ascending

\* The head of an ascending sequence is smaller than the rest, which is ascending.
LEMMA AscendingTail ==
  ASSUME NEW s \in Seq(Int), Ascending(s), s # <<>>
  PROVE  /\ Ascending(Tail(s))
         /\ \A d \in Range(Tail(s)) : Head(s) < d
  <1>1. DOMAIN s = 1..Len(s) /\ Len(s) \in Nat \ {0}
    BY LenProperties, EmptySeq
  <1>2. DOMAIN Tail(s) = 1..(Len(s) - 1)
    BY HeadTailProperties, LenProperties
  <1>3. \A i \in 1..(Len(s) - 1) : Tail(s)[i] = s[i + 1]
    BY HeadTailProperties
  <1>4. Head(s) = s[1]
    BY HeadTailProperties
  <1>5. \A i \in 1..(Len(s) - 1) : i + 1 \in DOMAIN s /\ 1 < i + 1
    BY <1>1
  <1>6. Ascending(Tail(s))
    BY <1>1, <1>2, <1>3, <1>5 DEF Ascending
  <1>7. \A i \in 1..(Len(s) - 1) : Head(s) < Tail(s)[i]
    BY <1>1, <1>3, <1>4, <1>5 DEF Ascending
  <1> QED
    BY <1>2, <1>6, <1>7 DEF Range

-----------------------------------------------------------------------------
(***************************************************************************)
(* Where the logs are, before and after each kind of step.                 *)
(***************************************************************************)

LEMMA LogsAreNumbers == Logs \subseteq Int /\ Logs \subseteq Nat /\ NoLog \notin Logs
  <1>1. Logs \subseteq Nat \ {NoLog}
    BY WatcherAssumption DEF WatcherAssumption, LogsAssumption
  <1>2. Nat \subseteq Int
    OBVIOUS
  <1> QED
    BY <1>1, <1>2, Zenon

\* The logs of the channel, of the workers and the ended ones are logs.
LEMMA PlacesType ==
  ASSUME TypeOK
  PROVE  /\ jobQueue \in Seq(Int)
         /\ Queued \subseteq Logs /\ InFlight \subseteq Logs /\ Ended \subseteq Logs
         /\ Touched \subseteq Logs
  <1>1. jobQueue \in Seq(Int)
    BY LogsAreNumbers, SeqMonotonic DEF TypeOK
  <1>2. Queued \subseteq Logs
    BY LenProperties, ElementOfSeq DEF TypeOK, Queued, Range
  <1>3. InFlight \subseteq Logs /\ Ended \subseteq Logs
    BY DEF TypeOK, InFlight, Ended
  <1> QED
    BY <1>1, <1>2, <1>3 DEF Touched

\* A step that leaves the channel, the workers' jobs and the fates alone moves no log.
LEMMA QuietMovesNothing ==
  ASSUME UNCHANGED <<jobQueue, job, fate>>
  PROVE  /\ Queued' = Queued /\ InFlight' = InFlight /\ Ended' = Ended
         /\ Touched' = Touched
  BY DEF Queued, InFlight, Ended, Touched

LEMMA EnqueueMoves ==
  ASSUME TypeOK, NEW l \in Logs, EnqueueLog(l)
  PROVE  /\ Queued' = Queued \cup {l} /\ InFlight' = InFlight /\ Ended' = Ended
         /\ Touched' = Touched \cup {l}
  <1>1. Queued' = Queued \cup {l}
    BY RangeAppend DEF TypeOK, EnqueueLog, Queued
  <1>2. InFlight' = InFlight /\ Ended' = Ended
    BY DEF EnqueueLog, workerVars, InFlight, Ended
  <1> QED
    BY <1>1, <1>2 DEF Touched

LEMMA DropMoves ==
  ASSUME TypeOK, NEW l \in Logs, DropLog(l)
  PROVE  /\ Queued' = Queued /\ InFlight' = InFlight /\ Ended' = Ended \cup {l}
         /\ Touched' = Touched \cup {l}
  <1>1. Queued' = Queued /\ InFlight' = InFlight
    BY DEF DropLog, queueVars, workerVars, Queued, InFlight
  <1>2. Ended' = Ended \cup {l}
    BY DEF TypeOK, DropLog, Ended
  <1> QED
    BY <1>1, <1>2 DEF Touched

LEMMA TakeMoves ==
  ASSUME TypeOK, Shape, NEW w \in Workers, WorkerTakesJob(w)
  PROVE  /\ Head(jobQueue) \in Logs
         /\ Queued = {Head(jobQueue)} \cup Queued'
         /\ InFlight' = InFlight \cup {Head(jobQueue)}
         /\ Ended' = Ended
         /\ Touched' = Touched
  <1>1. Head(jobQueue) \in Logs
    BY HeadTailProperties DEF TypeOK, WorkerTakesJob
  <1>2. Queued = {Head(jobQueue)} \cup Queued'
    BY RangeTail DEF TypeOK, WorkerTakesJob, Queued
  <1>3. job[w] = NoLog
    BY DEF Shape, WorkerTakesJob
  <1>4. job' = [job EXCEPT ![w] = Head(jobQueue)]
    BY DEF WorkerTakesJob
  <1>5. InFlight' = InFlight \cup {Head(jobQueue)}
    BY <1>1, <1>3, <1>4, LogsAreNumbers DEF TypeOK, InFlight
  <1>6. Ended' = Ended
    BY DEF WorkerTakesJob, Ended
  <1> QED
    BY <1>1, <1>2, <1>5, <1>6 DEF Touched

LEMMA EndMoves ==
  ASSUME TypeOK, Shape, AtMostOnce, NEW w \in Workers, HandlerReturns(w) \/ HandlerCanceled(w)
  PROVE  /\ job[w] \in Logs
         /\ Queued' = Queued
         /\ InFlight = InFlight' \cup {job[w]} /\ job[w] \notin InFlight'
         /\ Ended' = Ended \cup {job[w]}
         /\ Touched' = Touched
  <1>1. job[w] \in Logs /\ job[w] # NoLog
    BY DEF TypeOK, Shape, HandlerReturns, HandlerCanceled
  <1>2. Queued' = Queued
    BY DEF HandlerReturns, HandlerCanceled, queueVars, Queued
  <1>3. job' = [job EXCEPT ![w] = NoLog]
    BY DEF HandlerReturns, HandlerCanceled
  <1>4. InFlight = InFlight' \cup {job[w]}
    BY <1>1, <1>3 DEF TypeOK, InFlight
  <1>5. job[w] \notin InFlight'
    BY <1>1, <1>3 DEF TypeOK, AtMostOnce, InFlight
  <1>6. \E r \in {"handled", "failed"} : fate' = [fate EXCEPT ![job[w]] = r]
    BY DEF HandlerReturns, HandlerCanceled
  <1>7. Ended' = Ended \cup {job[w]}
    BY <1>1, <1>6 DEF TypeOK, Ended
  <1> QED
    BY <1>1, <1>2, <1>4, <1>5, <1>7 DEF Touched

-----------------------------------------------------------------------------
(***************************************************************************)
(* The inductive invariant.                                                *)
(***************************************************************************)

LEMMA InvInit == Init => IInv
  <1> SUFFICES ASSUME Init PROVE IInv
    OBVIOUS
  <1>1. TypeOK
    BY TypeInit
  <1>2. Queued = {} /\ InFlight = {} /\ Ended = {} /\ Touched = {}
    <2>1. DOMAIN jobQueue = {}
      BY EmptySeq, LenProperties DEF Init
    <2> QED
      BY <2>1 DEF Init, Queued, Range, InFlight, Ended, Touched
  <1>3. Shape
    BY <1>2 DEF Init, Shape
  <1>4. AtMostOnce /\ ChainOrder
    <2>1. DOMAIN jobQueue = {}
      BY EmptySeq, LenProperties DEF Init
    <2> QED
      BY <1>2, <2>1 DEF Init, AtMostOnce, IsInjective, ChainOrder, Ascending
  <1>5. NoLogLost /\ NothingAhead /\ WindowInRange /\ PollInOrder
    BY <1>2 DEF Init, NoLogLost, NothingAhead, WindowInRange, PollInOrder
  <1>6. NeverSendOnClosed /\ StoppedMeansQuiet
    BY DEF Init, NeverSendOnClosed, StoppedMeansQuiet
  <1> QED
    BY <1>1, <1>3, <1>4, <1>5, <1>6 DEF IInv

\* A step that moves no log keeps what is said of the places of logs only.
LEMMA QuietKeepsOrder ==
  ASSUME AtMostOnce, ChainOrder, UNCHANGED <<jobQueue, job, fate>>
  PROVE  AtMostOnce' /\ ChainOrder'
  BY QuietMovesNothing DEF AtMostOnce, ChainOrder, IsInjective, Ascending

\* The steps of the chain, of the owner of the context and of the client.
LEMMA InvOutside ==
  ASSUME IInv, NewBlock \/ Cancel \/ Start \/ StopCalled \/ StopReturns
  PROVE  IInv'
  <1>1. TypeOK'
    BY TypeStep DEF IInv, Next
  <1>2. UNCHANGED <<jobQueue, job, fate, closed, batch, toBlock>>
    BY DEF NewBlock, Cancel, Start, StopCalled, StopReturns, envVars, pollVars,
           queueVars, workerVars
  <1>3. AtMostOnce' /\ ChainOrder'
    BY <1>2, QuietKeepsOrder DEF IInv
  <1>4. Queued' = Queued /\ InFlight' = InFlight /\ Touched' = Touched
    BY <1>2, QuietMovesNothing
  <1>5. CASE Start
    <2>1. /\ loop = "off" /\ loop' = "select" /\ currentBlock' = StartBlock
          /\ worker' = [w \in Workers |-> "select"]
      BY <1>5 DEF Start
    <2>2. Touched = {} /\ \A w \in Workers : job[w] = NoLog
      BY <2>1 DEF IInv, TypeOK, Shape
    <2>3. Shape'
      BY <1>2, <1>4, <2>1, <2>2, WatcherAssumption
      DEF IInv, Shape, WatcherAssumption, ConfigAssumption
    <2>4. NoLogLost' /\ NothingAhead'
      BY <1>4, <2>1, <2>2, WatcherAssumption
      DEF NoLogLost, NothingAhead, Wanted, WatcherAssumption, LogsAssumption, ConfigAssumption
    <2>5. WindowInRange' /\ PollInOrder' /\ NeverSendOnClosed' /\ StoppedMeansQuiet'
      BY <1>2, <2>1
      DEF IInv, WindowInRange, PollInOrder, NeverSendOnClosed, StoppedMeansQuiet
    <2> QED
      BY <1>1, <1>3, <2>3, <2>4, <2>5 DEF IInv
  <1>6. CASE NewBlock \/ Cancel \/ StopCalled \/ StopReturns
    <2>1. /\ UNCHANGED <<loop, currentBlock, worker>>
          /\ head' = head \/ head' = head + 1
      BY <1>6 DEF NewBlock, Cancel, StopCalled, StopReturns, envVars, pollVars, workerVars
    <2>2. Shape' /\ NoLogLost' /\ NothingAhead' /\ PollInOrder'
      BY <1>2, <1>4, <2>1 DEF IInv, Shape, NoLogLost, NothingAhead, PollInOrder
    <2>3. WindowInRange'
      BY <1>2, <2>1 DEF IInv, TypeOK, WindowInRange
    <2>4. NeverSendOnClosed' /\ StoppedMeansQuiet'
      BY <1>2, <1>4, <2>1 DEF IInv, NeverSendOnClosed, StoppedMeansQuiet
    <2> QED
      BY <1>1, <1>3, <2>2, <2>3, <2>4 DEF IInv
  <1> QED
    BY <1>5, <1>6

\* A log with a handler matches the query.
LEMMA HandledMatches ==
  ASSUME NEW l \in Logs, HasHandler(l)
  PROVE  Matches(l)
  BY DEF HasHandler, Matches, addresses, topics

\* The window of a poll is not empty, ends at a mined block, and is not too wide.
LEMMA WindowEndRange ==
  ASSUME currentBlock \in Nat, NEW latest \in Nat, currentBlock < latest
  PROVE  /\ currentBlock < WindowEnd(latest) /\ WindowEnd(latest) <= latest
         /\ WindowEnd(latest) - (currentBlock + 1) <= MaxBlockSpan
  BY WatcherAssumption DEF WatcherAssumption, ConfigAssumption, WindowEnd, FromBlock

\* The steps of the loop that move no log.
LEMMA InvLoopQuiet ==
  ASSUME IInv,
         \/ LoopSeesCancel \/ WorkersAwaited \/ LoopSeesQuit \/ PollFindsNothing
         \/ PollBegins \/ FilterLogsFails \/ FilterLogsReturns
         \/ (\E l \in Logs : SkipLog(l)) \/ DispatchCancelled \/ PollCompletes
  PROVE  IInv'
  <1> USE DEF envVars, pollVars, queueVars, workerVars
  <1>1. TypeOK'
    BY TypeStep DEF IInv, Next, LoopStep, DispatchLog
  <1>2. UNCHANGED <<head, jobQueue, worker, job, fate>>
    BY DEF LoopSeesCancel, WorkersAwaited, LoopSeesQuit, PollFindsNothing, PollBegins,
           FilterLogsFails, FilterLogsReturns, SkipLog, DispatchCancelled, PollCompletes, vars
  <1>3. AtMostOnce' /\ ChainOrder'
    BY <1>2, QuietKeepsOrder DEF IInv
  <1>4. Queued' = Queued /\ InFlight' = InFlight /\ Touched' = Touched
    BY <1>2, QuietMovesNothing
  <1>5. loop \in LoopRunning /\ loop # "off"
    BY DEF LoopSeesCancel, WorkersAwaited, LoopSeesQuit, PollFindsNothing, PollBegins,
           FilterLogsFails, FilterLogsReturns, SkipLog, DispatchCancelled, PollCompletes, LoopRunning
  <1>6. CASE LoopSeesCancel \/ WorkersAwaited \/ LoopSeesQuit \/ PollFindsNothing
    <2>1. /\ UNCHANGED <<currentBlock, toBlock, batch>>
          /\ loop' = loop \/ loop' \in {"closing", "stopped", "quit"}
          /\ loop' = loop \/ loop \in {"select", "closing"}
      BY <1>6 DEF LoopSeesCancel, WorkersAwaited, LoopSeesQuit, PollFindsNothing, vars
    <2>2. Shape'
      BY <1>2, <1>4, <1>5, <2>1 DEF IInv, Shape
    <2>3. NoLogLost' /\ NothingAhead' /\ WindowInRange' /\ PollInOrder'
      BY <1>2, <1>4, <1>5, <2>1 DEF IInv, NoLogLost, NothingAhead, WindowInRange, PollInOrder
    <2>4. NeverSendOnClosed' /\ StoppedMeansQuiet'
      <3>1. CASE LoopSeesCancel
        BY <3>1 DEF LoopSeesCancel, NeverSendOnClosed, StoppedMeansQuiet
      <3>2. CASE WorkersAwaited
        <4>1. \A w \in Workers : worker[w] = "exited" /\ job[w] = NoLog
          BY <3>2 DEF WorkersAwaited, IInv, Shape
        <4>2. InFlight = {}
          BY <4>1 DEF InFlight
        <4> QED
          BY <1>2, <1>4, <3>2, <4>1, <4>2
          DEF WorkersAwaited, IInv, NeverSendOnClosed, StoppedMeansQuiet
      <3>3. CASE LoopSeesQuit
        BY <3>3 DEF LoopSeesQuit, IInv, NeverSendOnClosed, StoppedMeansQuiet
      <3>4. CASE PollFindsNothing
        BY <1>2, <1>4, <3>4
        DEF PollFindsNothing, vars, IInv, NeverSendOnClosed, StoppedMeansQuiet
      <3> QED
        BY <1>6, <3>1, <3>2, <3>3, <3>4
    <2> QED
      BY <1>1, <1>3, <2>2, <2>3, <2>4 DEF IInv
  <1>7. CASE PollBegins \/ FilterLogsFails \/ FilterLogsReturns \/ (\E l \in Logs : SkipLog(l))
             \/ DispatchCancelled \/ PollCompletes
    <2>1. /\ loop \in {"select", "filter", "dispatch"}
          /\ loop' \in {"select", "filter", "dispatch", "aborted"}
          /\ closed' = closed
      BY <1>7 DEF PollBegins, FilterLogsFails, FilterLogsReturns, SkipLog, DispatchCancelled,
                  PollCompletes
    <2>2. NeverSendOnClosed' /\ StoppedMeansQuiet'
      BY <2>1 DEF IInv, NeverSendOnClosed, StoppedMeansQuiet
    <2>3. Touched \subseteq Wanted
      BY DEF IInv, NothingAhead
    <2>4. CASE PollBegins
      <3>1. /\ loop = "select" /\ loop' = "filter" /\ toBlock' = WindowEnd(head)
            /\ currentBlock < head /\ UNCHANGED <<currentBlock, batch>>
        BY <2>4 DEF PollBegins, IInv, TypeOK
      <3>2. head \in Nat
        BY WatcherAssumption DEF IInv, TypeOK, WatcherAssumption, ConfigAssumption
      <3>3. WindowInRange'
        BY <1>2, <3>1, <3>2, WindowEndRange DEF IInv, TypeOK, WindowInRange
      <3>4. Shape' /\ NoLogLost' /\ NothingAhead' /\ PollInOrder'
        BY <1>2, <1>4, <3>1 DEF IInv, Shape, NoLogLost, NothingAhead, PollInOrder
      <3> QED
        BY <1>1, <1>3, <2>2, <3>3, <3>4 DEF IInv
    <2>5. CASE FilterLogsFails
      <3>1. /\ loop = "filter" /\ loop' = "select" /\ UNCHANGED <<currentBlock, batch>>
        BY <2>5 DEF FilterLogsFails
      <3>2. Shape' /\ NoLogLost' /\ NothingAhead' /\ WindowInRange' /\ PollInOrder'
        BY <1>2, <1>4, <3>1
        DEF IInv, Shape, NoLogLost, NothingAhead, WindowInRange, PollInOrder
      <3> QED
        BY <1>1, <1>3, <2>2, <3>2 DEF IInv
    <2>6. CASE FilterLogsReturns
      <3>1. /\ loop = "filter" /\ loop' = "dispatch" /\ batch' = FilterLogs
            /\ UNCHANGED <<currentBlock, toBlock>>
        BY <2>6 DEF FilterLogsReturns
      <3>2. /\ currentBlock < toBlock /\ toBlock <= head
            /\ \A l \in Touched : Block[l] <= currentBlock
        BY <3>1 DEF IInv, WindowInRange, NothingAhead
      <3>3. currentBlock \in Nat /\ toBlock \in Nat /\ head \in Nat
        BY WatcherAssumption DEF IInv, TypeOK, WatcherAssumption, ConfigAssumption
      <3>4. Logs \subseteq Nat /\ \A l \in Logs : Block[l] \in Nat
        BY WatcherAssumption DEF WatcherAssumption, LogsAssumption
      <3>5. \A l \in FilterLogs : l \in Logs /\ currentBlock < Block[l] /\ Block[l] <= toBlock
        BY <3>3, <3>4 DEF FilterLogs, FromBlock
      <3>6. \A l \in Wanted : currentBlock < Block[l] /\ Block[l] <= toBlock => l \in FilterLogs
        BY <3>2, <3>3, <3>4, HandledMatches DEF Wanted, FilterLogs, FromBlock
      <3>7. \A l \in Touched : Block[l] <= toBlock
        BY <2>3, <3>2, <3>3, <3>4 DEF Wanted
      <3>8. \A l \in FilterLogs, m \in Touched : m < l
        <4> SUFFICES ASSUME NEW l \in FilterLogs, NEW m \in Touched PROVE m < l
          OBVIOUS
        <4>1. m \in Logs /\ Block[m] <= currentBlock
          BY <2>3, <3>2 DEF Wanted
        <4>2. l \in Logs /\ currentBlock < Block[l]
          BY <3>5
        <4>3. ~(l <= m)
          BY <3>3, <3>4, <4>1, <4>2, WatcherAssumption DEF WatcherAssumption, LogsAssumption
        <4> QED
          BY <3>4, <4>1, <4>2, <4>3
      <3>9. PollInOrder'
        BY <1>4, <3>1, <3>5, <3>6, <3>7, <3>8 DEF PollInOrder
      <3>10. Shape' /\ NoLogLost' /\ NothingAhead' /\ WindowInRange'
        BY <1>2, <1>4, <2>3, <3>1 DEF IInv, Shape, NoLogLost, NothingAhead, WindowInRange
      <3> QED
        BY <1>1, <1>3, <2>2, <3>9, <3>10 DEF IInv
    <2>7. CASE \E l \in Logs : SkipLog(l)
      <3>1. PICK l \in Logs : SkipLog(l)
        BY <2>7
      <3>2. /\ loop = "dispatch" /\ batch' = batch \ {l} /\ l \notin Wanted
            /\ UNCHANGED <<loop, currentBlock, toBlock>>
        BY <3>1 DEF SkipLog, Wanted
      <3>3. PollInOrder'
        BY <1>4, <3>2 DEF IInv, PollInOrder
      <3>4. Shape' /\ NoLogLost' /\ NothingAhead' /\ WindowInRange'
        BY <1>2, <1>4, <3>2 DEF IInv, Shape, NoLogLost, NothingAhead, WindowInRange
      <3> QED
        BY <1>1, <1>3, <2>2, <3>3, <3>4 DEF IInv
    <2>8. CASE DispatchCancelled
      <3>1. loop' = "aborted" /\ batch' = {} /\ currentBlock' = currentBlock
        BY <2>8 DEF DispatchCancelled
      <3>2. Shape' /\ NoLogLost' /\ NothingAhead' /\ WindowInRange' /\ PollInOrder'
        BY <1>2, <1>4, <1>5, <2>3, <3>1
        DEF IInv, Shape, NoLogLost, NothingAhead, WindowInRange, PollInOrder
      <3> QED
        BY <1>1, <1>3, <2>2, <3>2 DEF IInv
    <2>9. CASE PollCompletes
      <3>1. /\ loop = "dispatch" /\ loop' = "select" /\ batch = {} /\ batch' = {}
            /\ currentBlock' = toBlock
        BY <2>9 DEF PollCompletes
      <3>2. currentBlock \in Nat /\ toBlock \in Nat /\ currentBlock < toBlock
        BY <3>1 DEF IInv, TypeOK, WindowInRange
      <3>3. \A l \in Logs : Block[l] \in Nat
        BY WatcherAssumption DEF WatcherAssumption, LogsAssumption
      <3>4. NoLogLost' /\ NothingAhead'
        BY <1>4, <2>3, <3>1, <3>2, <3>3 DEF IInv, NoLogLost, NothingAhead, PollInOrder, Wanted
      <3>5. Shape' /\ WindowInRange' /\ PollInOrder'
        BY <1>2, <1>4, <3>1, <3>2, WatcherAssumption
        DEF IInv, Shape, WindowInRange, PollInOrder, WatcherAssumption, ConfigAssumption
      <3> QED
        BY <1>1, <1>3, <2>2, <3>4, <3>5 DEF IInv
    <2> QED
      BY <1>7, <2>4, <2>5, <2>6, <2>7, <2>8, <2>9
  <1> QED
    BY <1>6, <1>7

\* A log enters the channel.
LEMMA InvEnqueue ==
  ASSUME IInv, NEW l \in Logs, EnqueueLog(l)
  PROVE  IInv'
  <1> USE DEF envVars, pollVars, queueVars, workerVars
  <1>1. TypeOK'
    BY TypeStep DEF IInv, Next, LoopStep, DispatchLog
  <1>2. /\ loop = "dispatch" /\ l \in batch /\ (\A m \in batch : l <= m) /\ HasHandler(l)
        /\ jobQueue' = Append(jobQueue, l) /\ batch' = batch \ {l}
        /\ UNCHANGED <<head, ctxDone, loop, currentBlock, toBlock, closed, worker, job, quit, fate>>
    BY DEF EnqueueLog, IsNext
  <1>3. /\ Queued' = Queued \cup {l} /\ InFlight' = InFlight /\ Ended' = Ended
        /\ Touched' = Touched \cup {l}
    BY EnqueueMoves DEF IInv
  <1>4. currentBlock < Block[l] /\ Block[l] <= toBlock /\ \A m \in Touched : m < l
    BY <1>2 DEF IInv, PollInOrder
  <1>5. l \in Wanted
    <2>1. StartBlock <= currentBlock /\ currentBlock \in Nat
      BY <1>2 DEF IInv, TypeOK, Shape
    <2>2. StartBlock \in Nat /\ Block[l] \in Nat
      BY WatcherAssumption DEF WatcherAssumption, LogsAssumption, ConfigAssumption
    <2> QED
      BY <1>2, <1>4, <2>1, <2>2 DEF Wanted
  <1>6. jobQueue \in Seq(Int) /\ Touched \subseteq Int /\ batch \subseteq Int /\ l \in Int
    <2>1. jobQueue \in Seq(Int) /\ Touched \subseteq Logs /\ batch \subseteq Logs
      BY PlacesType DEF IInv, TypeOK
    <2> QED
      BY <2>1, LogsAreNumbers
  <1>7. ChainOrder'
    <2>1. Ascending(jobQueue')
      BY <1>2, <1>4, <1>6, AscendingAppend DEF IInv, ChainOrder, Touched, Queued
    <2>2. \A k \in Queued', m \in InFlight' \cup {e \in Ended' : fate'[e] # "dropped"} : m < k
      BY <1>2, <1>3, <1>4 DEF IInv, ChainOrder, Touched
    <2> QED
      BY <2>1, <2>2 DEF ChainOrder
  <1>8. AtMostOnce'
    <2>1. IsInjective(jobQueue')
      <3>1. jobQueue' \in Seq(Int)
        <4>1. jobQueue' \in Seq(Logs)
          BY <1>1 DEF TypeOK
        <4> QED
          BY <4>1, LogsAreNumbers, SeqMonotonic
      <3> QED
        BY <3>1, <1>7, AscendingInjective DEF ChainOrder
    <2>2. l \notin Touched
      BY <1>4, <1>6
    <2> QED
      BY <1>2, <1>3, <2>1, <2>2 DEF IInv, AtMostOnce, Touched
  <1>9. PollInOrder'
    <2>1. \A m \in batch' : l < m
      BY <1>2, <1>6
    <2> QED
      BY <1>2, <1>3, <1>4, <2>1 DEF IInv, PollInOrder
  <1>10. Shape' /\ NoLogLost' /\ NothingAhead' /\ WindowInRange'
    BY <1>2, <1>3, <1>5 DEF IInv, Shape, NoLogLost, NothingAhead, WindowInRange
  <1>11. NeverSendOnClosed' /\ StoppedMeansQuiet'
    BY <1>2 DEF IInv, NeverSendOnClosed, StoppedMeansQuiet
  <1> QED
    BY <1>1, <1>7, <1>8, <1>9, <1>10, <1>11 DEF IInv

\* A log is lost to a full channel.
LEMMA InvDrop ==
  ASSUME IInv, NEW l \in Logs, DropLog(l)
  PROVE  IInv'
  <1> USE DEF envVars, pollVars, queueVars, workerVars
  <1>1. TypeOK'
    BY TypeStep DEF IInv, Next, LoopStep, DispatchLog
  <1>2. /\ loop = "dispatch" /\ l \in batch /\ (\A m \in batch : l <= m) /\ HasHandler(l)
        /\ fate' = [fate EXCEPT ![l] = "dropped"] /\ batch' = batch \ {l}
        /\ UNCHANGED <<head, ctxDone, loop, currentBlock, toBlock, jobQueue, closed, worker, job, quit>>
    BY DEF DropLog, IsNext
  <1>3. /\ Queued' = Queued /\ InFlight' = InFlight /\ Ended' = Ended \cup {l}
        /\ Touched' = Touched \cup {l}
    BY DropMoves DEF IInv
  <1>4. currentBlock < Block[l] /\ Block[l] <= toBlock /\ \A m \in Touched : m < l
    BY <1>2 DEF IInv, PollInOrder
  <1>5. l \in Wanted
    <2>1. StartBlock <= currentBlock /\ currentBlock \in Nat
      BY <1>2 DEF IInv, TypeOK, Shape
    <2>2. StartBlock \in Nat /\ Block[l] \in Nat
      BY WatcherAssumption DEF WatcherAssumption, LogsAssumption, ConfigAssumption
    <2> QED
      BY <1>2, <1>4, <2>1, <2>2 DEF Wanted
  <1>6. Touched \subseteq Int /\ batch \subseteq Int /\ l \in Int
    <2>1. Touched \subseteq Logs /\ batch \subseteq Logs
      BY PlacesType DEF IInv, TypeOK
    <2> QED
      BY <2>1, LogsAreNumbers
  <1>7. l \notin Touched
    BY <1>4, <1>6
  <1>8. ChainOrder'
    <2>1. \A e \in Ended' : fate'[e] # "dropped" => e \in Ended /\ fate[e] # "dropped"
      BY <1>2, <1>3 DEF IInv, TypeOK, Ended
    <2> QED
      BY <1>2, <1>3, <2>1 DEF IInv, ChainOrder, Ascending
  <1>9. AtMostOnce'
    BY <1>2, <1>3, <1>7 DEF IInv, AtMostOnce, Touched, IsInjective
  <1>10. PollInOrder'
    <2>1. \A m \in batch' : l < m
      BY <1>2, <1>6
    <2> QED
      BY <1>2, <1>3, <1>4, <2>1 DEF IInv, PollInOrder
  <1>11. Shape' /\ NoLogLost' /\ NothingAhead' /\ WindowInRange'
    BY <1>2, <1>3, <1>5 DEF IInv, Shape, NoLogLost, NothingAhead, WindowInRange
  <1>12. NeverSendOnClosed' /\ StoppedMeansQuiet'
    BY <1>2 DEF IInv, NeverSendOnClosed, StoppedMeansQuiet
  <1> QED
    BY <1>1, <1>8, <1>9, <1>10, <1>11, <1>12 DEF IInv

\* The steps of a worker.
LEMMA InvWorker ==
  ASSUME IInv, NEW w \in Workers, WorkerStep(w)
  PROVE  IInv'
  <1> USE DEF envVars, pollVars, queueVars, workerVars
  <1>1. TypeOK'
    BY TypeStep DEF IInv, Next
  <1>2. /\ UNCHANGED <<head, ctxDone, loop, currentBlock, toBlock, batch, closed, quit>>
        /\ worker[w] \in {"select", "handling"}
    BY DEF WorkerStep, WorkerTakesJob, HandlerReturns, HandlerCanceled, WorkerSeesCancel,
           WorkerSeesClosed
  <1>3. loop # "off" /\ loop # "stopped"
    BY <1>2 DEF IInv, Shape, StoppedMeansQuiet
  <1>4. ASSUME Touched' = Touched
        PROVE  NoLogLost' /\ NothingAhead' /\ WindowInRange' /\ PollInOrder'
               /\ NeverSendOnClosed' /\ StoppedMeansQuiet'
    BY <1>2, <1>3, <1>4 DEF IInv, NoLogLost, NothingAhead, WindowInRange, PollInOrder,
                            NeverSendOnClosed, StoppedMeansQuiet
  <1>5. CASE WorkerTakesJob(w)
    <2> DEFINE h == Head(jobQueue)
    <2>1. /\ jobQueue # <<>> /\ jobQueue' = Tail(jobQueue) /\ fate' = fate
          /\ job' = [job EXCEPT ![w] = h] /\ worker' = [worker EXCEPT ![w] = "handling"]
      BY <1>5 DEF WorkerTakesJob
    <2>2. /\ h \in Logs /\ Queued = {h} \cup Queued' /\ InFlight' = InFlight \cup {h}
          /\ Ended' = Ended /\ Touched' = Touched
      BY <1>5, TakeMoves DEF IInv
    <2>3. jobQueue \in Seq(Int) /\ h \in Int /\ h # NoLog
      BY <2>2, PlacesType, LogsAreNumbers DEF IInv
    <2> HIDE DEF h
    <2>4. Ascending(jobQueue') /\ \A d \in Queued' : h < d
      BY <2>1, <2>3, AscendingTail DEF h, IInv, ChainOrder, Queued
    <2>5. h \notin Queued'
      BY <2>2, <2>3, <2>4
    <2>6. ChainOrder'
      BY <2>1, <2>2, <2>4 DEF IInv, ChainOrder
    <2>7. AtMostOnce'
      <3>1. IsInjective(jobQueue')
        <4>1. jobQueue' \in Seq(Int)
          <5>1. jobQueue' \in Seq(Logs)
            BY <1>1 DEF TypeOK
          <5> QED
            BY <5>1, LogsAreNumbers, SeqMonotonic
        <4> QED
          BY <2>4, <4>1, AscendingInjective
      <3>2. \A v \in Workers : job[v] # h
        BY <2>2, <2>3 DEF IInv, AtMostOnce, InFlight
      <3>3. \A u, v \in Workers : job'[u] = job'[v] /\ job'[u] # NoLog => u = v
        BY <2>1, <3>2 DEF IInv, TypeOK, AtMostOnce
      <3> QED
        BY <2>2, <2>5, <3>1, <3>3 DEF IInv, AtMostOnce
    <2>8. Shape'
      BY <1>2, <1>3, <2>1, <2>2, <2>3 DEF IInv, TypeOK, Shape
    <2> QED
      BY <1>1, <1>4, <2>2, <2>6, <2>7, <2>8 DEF IInv
  <1>6. CASE HandlerReturns(w) \/ HandlerCanceled(w)
    <2>1. /\ UNCHANGED jobQueue /\ job' = [job EXCEPT ![w] = NoLog]
          /\ \E r \in {"select", "exited"} : worker' = [worker EXCEPT ![w] = r]
          /\ \E r \in {"handled", "failed"} : fate' = [fate EXCEPT ![job[w]] = r]
      BY <1>6 DEF HandlerReturns, HandlerCanceled
    <2>2. /\ job[w] \in Logs /\ Queued' = Queued
          /\ InFlight = InFlight' \cup {job[w]} /\ job[w] \notin InFlight'
          /\ Ended' = Ended \cup {job[w]} /\ Touched' = Touched
      BY <1>6, EndMoves DEF IInv
    <2>3. ChainOrder'
      <3>1. \A e \in Ended' : fate'[e] # "dropped" => e = job[w] \/ (e \in Ended /\ fate[e] # "dropped")
        BY <2>1, <2>2 DEF IInv, TypeOK, Ended
      <3> QED
        BY <2>1, <2>2, <3>1 DEF IInv, ChainOrder, Ascending
    <2>4. AtMostOnce'
      <3>1. \A u, v \in Workers : job'[u] = job'[v] /\ job'[u] # NoLog => u = v
        BY <2>1 DEF IInv, TypeOK, AtMostOnce
      <3> QED
        BY <2>1, <2>2, <3>1 DEF IInv, AtMostOnce, IsInjective
    <2>5. Shape'
      BY <1>2, <1>3, <2>1, <2>2 DEF IInv, TypeOK, Shape
    <2> QED
      BY <1>1, <1>4, <2>2, <2>3, <2>4, <2>5 DEF IInv
  <1>7. CASE WorkerSeesCancel(w) \/ WorkerSeesClosed(w)
    <2>1. /\ UNCHANGED <<jobQueue, job, fate>>
          /\ worker[w] = "select" /\ worker' = [worker EXCEPT ![w] = "exited"]
      BY <1>7 DEF WorkerSeesCancel, WorkerSeesClosed
    <2>2. Touched' = Touched
      BY <2>1, QuietMovesNothing
    <2>3. AtMostOnce' /\ ChainOrder'
      BY <2>1, QuietKeepsOrder DEF IInv
    <2>4. Shape'
      BY <1>2, <1>3, <2>1, <2>2 DEF IInv, TypeOK, Shape
    <2> QED
      BY <1>1, <1>4, <2>2, <2>3, <2>4 DEF IInv
  <1> QED
    BY <1>5, <1>6, <1>7 DEF WorkerStep

LEMMA InvStep == IInv /\ [Next]_vars => IInv'
  <1> SUFFICES ASSUME IInv, [Next]_vars PROVE IInv'
    OBVIOUS
  <1>1. CASE NewBlock \/ Cancel \/ Start \/ StopCalled \/ StopReturns
    BY <1>1, InvOutside
  <1>2. CASE LoopStep
    <2>1. ASSUME NEW l \in Logs, DispatchLog(l) PROVE IInv'
      BY <2>1, InvLoopQuiet, InvEnqueue, InvDrop DEF DispatchLog
    <2> QED
      BY <1>2, <2>1, InvLoopQuiet DEF LoopStep
  <1>3. CASE \E w \in Workers : WorkerStep(w)
    BY <1>3, InvWorker
  <1>4. CASE Terminated \/ UNCHANGED vars
    <2>1. UNCHANGED vars
      BY <1>4 DEF Terminated
    <2> QED
      BY <2>1 DEF vars, envVars, pollVars, queueVars, workerVars, IInv, TypeOK, Shape,
        AtMostOnce, ChainOrder, NoLogLost, NothingAhead, WindowInRange, PollInOrder,
        NeverSendOnClosed, StoppedMeansQuiet, Touched, Queued, InFlight, Ended, Ascending
  <1> QED
    BY <1>1, <1>2, <1>3, <1>4 DEF Next

\* IInv holds in every reachable state.
THEOREM Invariance == Spec => []IInv
  BY InvInit, InvStep, PTL DEF Spec


-----------------------------------------------------------------------------
(***************************************************************************)
(* What follows from it.                                                   *)
(***************************************************************************)

\* A log is in one place at most: no handler runs twice for it, and no log is both
\* waiting and handled.
THEOREM DeliveredAtMostOnce == Spec => []AtMostOnce
  BY Invariance, PTL DEF IInv

\* The cursor passes no wanted log that was not dispatched.
THEOREM CursorLosesNothing == Spec => []NoLogLost
  BY Invariance, PTL DEF IInv

\* Only wanted logs are dispatched, and none above the cursor but by the poll in
\* progress, or by one that the cancellation cut short.
THEOREM NothingBeyondCursor == Spec => []NothingAhead
  BY Invariance, PTL DEF IInv

\* Logs are started in chain order.
THEOREM StartedInChainOrder == Spec => []ChainOrder
  BY Invariance, PTL DEF IInv

\* The loop never sends on the channel it closed.
THEOREM NoSendOnClosed == Spec => []NeverSendOnClosed
  BY Invariance, PTL DEF IInv

\* A stopped watcher has no worker left.
THEOREM StoppedIsQuiet == Spec => []StoppedMeansQuiet
  BY Invariance, PTL DEF IInv

\* Every query asks for a non-empty range of mined blocks of bounded width.
THEOREM QueriesInRange == Spec => []WindowInRange
  BY Invariance, PTL DEF IInv

\* Stop returns after the loop.
StopWaits == quit = "nil" => loop \in LoopReturned

\* A loop that has returned, or was not started again, takes no step.
LEMMA LoopIsOver ==
  ASSUME loop \in LoopReturned
  PROVE  ~LoopStep /\ ~Start
  BY DEF LoopReturned, Start, LoopStep, LoopSeesCancel, WorkersAwaited, LoopSeesQuit,
    PollFindsNothing, PollBegins, FilterLogsFails, FilterLogsReturns, DispatchLog, SkipLog,
    EnqueueLog, DropLog, DispatchCancelled, PollCompletes

\* Once Stop has returned, no log is polled or queued any more.
THEOREM StopEndsPolling == Spec => StopIsFinal
  <1>1. Init => StopWaits
    BY DEF Init, StopWaits
  <1>2. StopWaits /\ [Next]_vars => StopWaits'
    <2> SUFFICES ASSUME StopWaits, [Next]_vars PROVE StopWaits'
      OBVIOUS
    <2>1. CASE quit = "nil" /\ ~(UNCHANGED <<quit, loop>>)
      <3>1. ~LoopStep /\ ~Start
        BY <2>1, LoopIsOver DEF StopWaits
      <3> QED
        BY <2>1, <3>1 DEF Next, NewBlock, Cancel, StopCalled, StopReturns, Terminated, vars,
          WorkerStep, WorkerTakesJob, HandlerReturns, HandlerCanceled, WorkerSeesCancel,
          WorkerSeesClosed
    <2>2. CASE quit # "nil" /\ quit' = "nil"
      <3>1. StopReturns
        BY <2>2 DEF Next, NewBlock, Cancel, Start, StopCalled, Terminated, vars,
          WorkerStep, WorkerTakesJob, HandlerReturns, HandlerCanceled, WorkerSeesCancel,
          WorkerSeesClosed, LoopStep, LoopSeesCancel, WorkersAwaited, LoopSeesQuit,
          PollFindsNothing, PollBegins, FilterLogsFails, FilterLogsReturns, DispatchLog, SkipLog,
          EnqueueLog, DropLog, DispatchCancelled, PollCompletes
      <3> QED
        BY <3>1 DEF StopReturns, StopWaits
    <2> QED
      BY <2>1, <2>2 DEF StopWaits
  <1>3. ASSUME StopWaits, [Next]_vars, quit = "nil"
        PROVE  /\ UNCHANGED <<currentBlock, batch>>
               /\ jobQueue' = jobQueue \/ jobQueue' = Tail(jobQueue)
    <2>1. ~LoopStep /\ ~Start
      BY <1>3, LoopIsOver DEF StopWaits
    <2>2. CASE NewBlock \/ Cancel \/ StopCalled \/ StopReturns
      BY <2>2 DEF NewBlock, Cancel, StopCalled, StopReturns, pollVars, queueVars
    <2>3. CASE \E w \in Workers : WorkerStep(w)
      BY <2>3 DEF WorkerStep, WorkerTakesJob, HandlerReturns, HandlerCanceled, WorkerSeesCancel,
        WorkerSeesClosed, pollVars, queueVars
    <2>4. CASE Terminated \/ UNCHANGED vars
      BY <2>4 DEF Terminated, vars, pollVars, queueVars
    <2> QED
      BY <1>3, <2>1, <2>2, <2>3, <2>4 DEF Next
  <1> QED
    BY <1>1, <1>2, <1>3, PTL DEF Spec, StopIsFinal

=============================================================================
