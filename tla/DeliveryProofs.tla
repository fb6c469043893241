--------------------------- MODULE DeliveryProofs ---------------------------
(***************************************************************************)
(* Proofs that count: how many logs wait and how many are handled. With    *)
(* them, a log is lost only behind QueueSize accepted ones, and Watcher    *)
(* implements Delivery.                                                    *)
(***************************************************************************)
EXTENDS WatcherProofs, FiniteSetTheorems

-----------------------------------------------------------------------------
(***************************************************************************)
(* Counting.                                                               *)
(***************************************************************************)

\* A sequence without repetition has as many elements as its length.
LEMMA InjectiveCount ==
  ASSUME NEW S, NEW s \in Seq(S), IsInjective(s)
  PROVE  IsFiniteSet(Range(s)) /\ Cardinality(Range(s)) = Len(s)
  <1>1. DOMAIN s = 1..Len(s) /\ Len(s) \in Nat /\ s \in [1..Len(s) -> S]
    BY LenProperties
  <1>2. s \in [1..Len(s) -> Range(s)]
    BY <1>1 DEF Range
  <1>3. s \in Bijection(1..Len(s), Range(s))
    BY <1>1, <1>2 DEF Bijection, Injection, Surjection, IsInjective, Range
  <1>4. ExistsBijection(1..Len(s), Range(s))
    BY <1>3 DEF ExistsBijection
  <1> QED
    BY <1>1, <1>4, FS_NatBijection, FS_CountingElements

\* As many logs wait as the channel is long.
LEMMA QueuedCount ==
  ASSUME IInv
  PROVE  IsFiniteSet(Queued) /\ Cardinality(Queued) = Len(jobQueue)
  BY InjectiveCount DEF IInv, TypeOK, AtMostOnce, Queued

\* While a worker is idle, fewer logs are handled than there are workers.
LEMMA ActiveCount ==
  ASSUME IInv, NEW w \in Workers, job[w] = NoLog
  PROVE  Cardinality(InFlight) < Cardinality(Workers)
  <1> DEFINE Busy == {v \in Workers : job[v] # NoLog}
             f == [v \in Busy |-> job[v]]
  <1>1. IsFiniteSet(Workers)
    BY WatcherAssumption DEF WatcherAssumption, ConfigAssumption
  <1>2. /\ IsFiniteSet(Workers \ {w}) /\ Cardinality(Workers) \in Nat
        /\ Cardinality(Workers \ {w}) = Cardinality(Workers) - 1
    BY <1>1, FS_RemoveElement, FS_CardinalityType
  <1>3. Busy \subseteq Workers \ {w}
    OBVIOUS
  <1>4. IsFiniteSet(Busy) /\ Cardinality(Busy) <= Cardinality(Workers \ {w})
    BY <1>2, <1>3, FS_Subset
  <1>5. f \in Surjection(Busy, InFlight)
    BY DEF Surjection, InFlight
  <1>6. IsFiniteSet(InFlight) /\ Cardinality(InFlight) <= Cardinality(Busy)
    BY <1>4, <1>5, FS_Surjection
  <1> HIDE DEF Busy
  <1>7. Cardinality(Busy) \in Nat /\ Cardinality(InFlight) \in Nat /\ Cardinality(Workers \ {w}) \in Nat
    BY <1>2, <1>4, <1>6, FS_CardinalityType
  <1> QED
    BY <1>2, <1>4, <1>6, <1>7


-----------------------------------------------------------------------------
(***************************************************************************)
(* Every step moves no log, or one log in one of four ways.                *)
(***************************************************************************)
LEMMA StepKinds ==
  ASSUME [Next]_vars
  PROVE  \/ UNCHANGED <<jobQueue, job, fate>>
         \/ \E l \in Logs : EnqueueLog(l)
         \/ \E l \in Logs : DropLog(l)
         \/ \E w \in Workers : WorkerTakesJob(w)
         \/ \E w \in Workers : HandlerReturns(w) \/ HandlerCanceled(w)
  <1> USE DEF envVars, pollVars, queueVars, workerVars
  <1>1. CASE NewBlock \/ Cancel \/ Start \/ StopCalled \/ StopReturns
    BY <1>1 DEF NewBlock, Cancel, Start, StopCalled, StopReturns
  <1>2. CASE LoopStep
    BY <1>2 DEF LoopStep, LoopSeesCancel, WorkersAwaited, LoopSeesQuit, PollFindsNothing, PollBegins,
      FilterLogsFails, FilterLogsReturns, DispatchLog, SkipLog, DispatchCancelled, PollCompletes, vars
  <1>3. CASE \E w \in Workers : WorkerStep(w)
    BY <1>3 DEF WorkerStep, WorkerSeesCancel, WorkerSeesClosed
  <1>4. CASE Terminated \/ UNCHANGED vars
    BY <1>4 DEF Terminated, vars
  <1> QED
    BY <1>1, <1>2, <1>3, <1>4 DEF Next

-----------------------------------------------------------------------------
(***************************************************************************)
(* What a full channel loses.                                              *)
(***************************************************************************)

\* The logs before l that were dispatched and not lost.
AcceptedBefore(l) == {m \in Touched : m < l /\ fate[m] # "dropped"}

\* Only finitely many logs come before a log.
LEMMA BeforeFinite ==
  ASSUME NEW l \in Logs, NEW S, \A m \in S : m \in Logs /\ m < l
  PROVE  IsFiniteSet(S) /\ Cardinality(S) \in Nat
  <1>1. l \in Nat /\ Logs \subseteq Nat
    BY LogsAreNumbers
  <1>2. ASSUME NEW m \in S PROVE m \in 0..l
    <2>1. m \in Nat /\ m < l
      BY <1>1
    <2> QED
      BY <1>1, <2>1
  <1>3. IsFiniteSet(0..l) /\ S \subseteq 0..l
    BY <1>1, <1>2, FS_Interval
  <1> QED
    BY <1>3, FS_Subset, FS_CardinalityType

\* What was accepted stays accepted, and only DropLog loses a log.
LEMMA AcceptedGrows ==
  ASSUME IInv, [Next]_vars, NEW l \in Logs
  PROVE  /\ AcceptedBefore(l) \subseteq AcceptedBefore(l)'
         /\ fate'[l] = "dropped" => fate[l] = "dropped" \/ DropLog(l)
  <1>1. CASE UNCHANGED <<jobQueue, job, fate>>
    BY <1>1, QuietMovesNothing DEF AcceptedBefore
  <1>2. ASSUME NEW k \in Logs, EnqueueLog(k)
        PROVE  /\ AcceptedBefore(l) \subseteq AcceptedBefore(l)'
               /\ fate'[l] = "dropped" => fate[l] = "dropped" \/ DropLog(l)
    <2>1. Touched \subseteq Touched' /\ fate' = fate
      BY <1>2, EnqueueMoves DEF IInv, EnqueueLog
    <2> QED
      BY <2>1 DEF AcceptedBefore
  <1>3. ASSUME NEW k \in Logs, DropLog(k)
        PROVE  /\ AcceptedBefore(l) \subseteq AcceptedBefore(l)'
               /\ fate'[l] = "dropped" => fate[l] = "dropped" \/ DropLog(l)
    <2>1. Touched \subseteq Touched' /\ fate' = [fate EXCEPT ![k] = "dropped"]
      BY <1>3, DropMoves DEF IInv, DropLog
    <2>2. k \notin Touched
      <3>1. \A m \in Touched : m < k
        BY <1>3 DEF DropLog, IsNext, IInv, PollInOrder
      <3>2. k \in Int
        BY LogsAreNumbers
      <3> QED
        BY <3>1, <3>2
    <2>3. \A m \in Touched : fate'[m] = fate[m]
      BY <2>1, <2>2, PlacesType DEF IInv, TypeOK
    <2>4. AcceptedBefore(l) \subseteq AcceptedBefore(l)'
      BY <2>1, <2>3 DEF AcceptedBefore
    <2>5. CASE l = k
      BY <1>3, <2>4, <2>5
    <2>6. CASE l # k
      <3>1. fate'[l] = fate[l]
        BY <2>1, <2>6 DEF IInv, TypeOK
      <3> QED
        BY <2>4, <3>1
    <2> QED
      BY <2>5, <2>6
  <1>4. ASSUME NEW w \in Workers, WorkerTakesJob(w)
        PROVE  /\ AcceptedBefore(l) \subseteq AcceptedBefore(l)'
               /\ fate'[l] = "dropped" => fate[l] = "dropped" \/ DropLog(l)
    <2>1. Touched' = Touched /\ fate' = fate
      BY <1>4, TakeMoves DEF IInv, WorkerTakesJob
    <2> QED
      BY <2>1 DEF AcceptedBefore
  <1>5. ASSUME NEW w \in Workers, HandlerReturns(w) \/ HandlerCanceled(w)
        PROVE  /\ AcceptedBefore(l) \subseteq AcceptedBefore(l)'
               /\ fate'[l] = "dropped" => fate[l] = "dropped" \/ DropLog(l)
    <2>1. Touched' = Touched
      BY <1>5, EndMoves DEF IInv
    <2>2. \E r \in {"handled", "failed"} : fate' = [fate EXCEPT ![job[w]] = r]
      BY <1>5 DEF HandlerReturns, HandlerCanceled
    <2>3. \A m \in Logs : fate'[m] = "dropped" => fate[m] = "dropped"
      BY <2>2 DEF IInv, TypeOK
    <2> QED
      BY <2>1, <2>3, PlacesType DEF AcceptedBefore, IInv
  <1> QED
    BY <1>1, <1>2, <1>3, <1>4, <1>5, StepKinds

\* A log is lost only behind at least QueueSize accepted logs.
THEOREM LossNeedsBacklog == Spec => []DropsNeedBacklog
  <1>1. Init => DropsNeedBacklog
    BY DEF Init, DropsNeedBacklog, Ended
  <1>2. IInv /\ IInv' /\ DropsNeedBacklog /\ [Next]_vars => DropsNeedBacklog'
    <2> SUFFICES ASSUME IInv, IInv', DropsNeedBacklog, [Next]_vars,
                        NEW l \in Logs, fate'[l] = "dropped"
                 PROVE  Cardinality(AcceptedBefore(l)') >= QueueSize
      BY DEF DropsNeedBacklog, AcceptedBefore, Ended
    <2>1. AcceptedBefore(l) \subseteq AcceptedBefore(l)'
      BY AcceptedGrows
    <2>2. IsFiniteSet(AcceptedBefore(l)') /\ Cardinality(AcceptedBefore(l)') \in Nat
      <3>1. \A m \in AcceptedBefore(l)' : m \in Logs /\ m < l
        BY DEF AcceptedBefore, IInv, NothingAhead, Wanted
      <3> QED
        BY <3>1, BeforeFinite
    <2>3. Cardinality(AcceptedBefore(l)) <= Cardinality(AcceptedBefore(l)')
      BY <2>1, <2>2, FS_Subset
    <2>4. /\ IsFiniteSet(AcceptedBefore(l)) /\ Cardinality(AcceptedBefore(l)) \in Nat
          /\ QueueSize \in Nat
      <3>1. \A m \in AcceptedBefore(l) : m \in Logs /\ m < l
        BY DEF AcceptedBefore, IInv, NothingAhead, Wanted
      <3> QED
        BY <3>1, BeforeFinite, WatcherAssumption DEF WatcherAssumption, ConfigAssumption
    <2>5. CASE fate[l] = "dropped"
      <3>1. Cardinality(AcceptedBefore(l)) >= QueueSize
        BY <2>5 DEF DropsNeedBacklog, AcceptedBefore, Ended
      <3> QED
        BY <2>2, <2>3, <2>4, <3>1
    <2>6. CASE DropLog(l)
      <3>1. Queued \subseteq AcceptedBefore(l)
        <4>1. \A m \in Touched : m < l
          BY <2>6 DEF DropLog, IsNext, IInv, PollInOrder
        <4>2. \A m \in Queued : m \in Logs /\ m \notin Ended
          BY PlacesType DEF IInv, AtMostOnce
        <4> QED
          BY <4>1, <4>2 DEF AcceptedBefore, Touched, Ended
      <3>2. Cardinality(Queued) <= Cardinality(AcceptedBefore(l))
        BY <2>4, <3>1, FS_Subset
      <3>3. Cardinality(Queued) = Len(jobQueue) /\ Len(jobQueue) \in Nat
        BY QueuedCount, LenProperties DEF IInv, TypeOK
      <3>4. Len(jobQueue) >= QueueSize
        BY <2>4, <2>6, <3>3 DEF DropLog, QueueHasRoom
      <3> QED
        BY <2>2, <2>3, <2>4, <3>2, <3>3, <3>4
    <2> QED
      BY <2>5, <2>6, AcceptedGrows
  <1> QED
    BY <1>1, <1>2, Invariance, PTL DEF Spec


-----------------------------------------------------------------------------
(***************************************************************************)
(* Watcher implements Delivery.                                            *)
(***************************************************************************)

\* The places of a log are disjoint, so each says what its stage is.
LEMMA StageOf ==
  ASSUME IInv, NEW l \in Wanted
  PROVE  /\ l \in Logs
         /\ stage[l] = "queued" <=> l \in Queued
         /\ stage[l] = "active" <=> l \in InFlight
         /\ stage[l] = "dropped" <=> fate[l] = "dropped"
         /\ stage[l] = "done" <=> fate[l] \in {"handled", "failed"}
         /\ stage[l] = "ahead" <=> l \notin Touched
  <1>1. l \in Logs
    BY DEF Wanted
  <1>2. ~(l \in Queued /\ l \in InFlight) /\ (l \in Queued \cup InFlight => l \notin Ended)
    BY DEF IInv, AtMostOnce
  <1>3. l \in Ended <=> fate[l] # "none"
    BY <1>1 DEF Ended
  <1>4. fate[l] \in {"none", "handled", "failed", "dropped"}
    BY <1>1 DEF IInv, TypeOK
  <1>5. l \in Touched <=> l \in Queued \/ l \in InFlight \/ l \in Ended
    BY DEF Touched
  <1> QED
    BY <1>1, <1>2, <1>3, <1>4, <1>5 DEF stage

\* A log that is next in a poll is due: every wanted log before it was dispatched.
LEMMA NextIsDue ==
  ASSUME IInv, loop = "dispatch", NEW l \in Logs, IsNext(l)
  PROVE  Abstract!Due(l) /\ l \notin Touched
  <1>1. Logs \subseteq Int /\ \A m \in Logs : Block[m] \in Nat
    BY LogsAreNumbers, WatcherAssumption DEF WatcherAssumption, LogsAssumption
  <1>2. /\ l \in batch /\ \A m \in batch : l <= m
        /\ Block[l] <= toBlock /\ \A m \in Touched : m < l
    BY DEF IsNext, IInv, PollInOrder
  <1>3. ASSUME NEW m \in Wanted, m < l PROVE m \in Touched
    <2>1. m \in Logs /\ m \in Int /\ l \in Int
      BY <1>1 DEF Wanted
    <2>2. Block[m] <= Block[l]
      BY <1>3, <2>1, WatcherAssumption DEF WatcherAssumption, LogsAssumption
    <2>3. m \notin batch
      BY <1>2, <1>3, <2>1
    <2>4. CASE Block[m] <= currentBlock
      BY <2>4 DEF IInv, NoLogLost
    <2>5. CASE ~(Block[m] <= currentBlock)
      <3>1. currentBlock < Block[m] /\ Block[m] <= toBlock
        BY <1>1, <1>2, <2>1, <2>2, <2>5 DEF IInv, TypeOK
      <3> QED
        BY <2>3, <3>1 DEF IInv, PollInOrder
    <2> QED
      BY <2>4, <2>5
  <1>4. l \notin Touched
    BY <1>1, <1>2
  <1> QED
    BY <1>3, <1>4, StageOf DEF Abstract!Due

\* Cardinality in the instance of Delivery is Cardinality.
LEMMA SameCardinality == \A S : Abstract!Cardinality(S) = Cardinality(S)
  BY DEF Abstract!Cardinality, Cardinality

LEMMA DeliveryStep ==
  ASSUME IInv, IInv', [Next]_vars
  PROVE  [Abstract!Next]_stage
  <1>1. CASE UNCHANGED <<jobQueue, job, fate>>
    BY <1>1, QuietMovesNothing DEF stage
  <1>2. ASSUME NEW k \in Logs, EnqueueLog(k)
        PROVE  Abstract!Next
    <2>1. /\ Queued' = Queued \cup {k} /\ InFlight' = InFlight /\ fate' = fate
      BY <1>2, EnqueueMoves DEF IInv, EnqueueLog
    <2>2. k \in Wanted /\ k \in Queued'
      BY <2>1 DEF IInv, NothingAhead, Touched
    <2>3. Abstract!Due(k) /\ k \notin Touched
      BY <1>2, NextIsDue DEF EnqueueLog
    <2>4. Cardinality(Abstract!At("queued")) < QueueSize
      <3>1. Abstract!At("queued") = Queued
        BY StageOf DEF Abstract!At, IInv, NothingAhead, Touched
      <3> QED
        BY <1>2, <3>1, QueuedCount DEF EnqueueLog, QueueHasRoom
    <2>5. stage' = [stage EXCEPT ![k] = "queued"]
      BY <2>1, <2>2 DEF stage
    <2>6. stage[k] = "ahead"
      BY <2>2, <2>3, StageOf
    <2>7. Abstract!Accept(k)
      BY <2>3, <2>4, <2>5, <2>6, SameCardinality DEF Abstract!Accept, Abstract!Move
    <2> QED
      BY <2>2, <2>7 DEF Abstract!Next
  <1>3. ASSUME NEW k \in Logs, DropLog(k)
        PROVE  Abstract!Next
    <2>1. /\ Queued' = Queued /\ InFlight' = InFlight /\ Touched' = Touched \cup {k}
          /\ fate' = [fate EXCEPT ![k] = "dropped"]
      BY <1>3, DropMoves DEF IInv, DropLog
    <2>2. k \in Wanted
      BY <2>1 DEF IInv, NothingAhead
    <2>3. Abstract!Due(k) /\ k \notin Touched
      BY <1>3, NextIsDue DEF DropLog
    <2>4. Cardinality(Abstract!At("queued")) = QueueSize
      <3>1. Abstract!At("queued") = Queued
        BY StageOf DEF Abstract!At, IInv, NothingAhead, Touched
      <3>2. Len(jobQueue) <= QueueSize /\ ~(Len(jobQueue) < QueueSize) /\ Len(jobQueue) \in Nat
        BY <1>3, LenProperties DEF IInv, TypeOK, DropLog, QueueHasRoom
      <3> QED
        BY <3>1, <3>2, QueuedCount, WatcherAssumption DEF WatcherAssumption, ConfigAssumption
    <2>5. \A l \in Wanted : l # k => fate'[l] = fate[l]
      BY <2>1 DEF IInv, TypeOK, Wanted
    <2>6. fate'[k] = "dropped" /\ k \notin Queued /\ k \notin InFlight
      BY <2>1, <2>2, <2>3 DEF IInv, TypeOK, Wanted, Touched
    <2>7. stage' = [stage EXCEPT ![k] = "dropped"]
      BY <2>1, <2>2, <2>5, <2>6 DEF stage
    <2>8. stage[k] = "ahead"
      BY <2>2, <2>3, StageOf
    <2>9. Abstract!Drop(k)
      BY <2>3, <2>4, <2>7, <2>8, SameCardinality DEF Abstract!Drop, Abstract!Move
    <2> QED
      BY <2>2, <2>9 DEF Abstract!Next
  <1>4. ASSUME NEW w \in Workers, WorkerTakesJob(w)
        PROVE  Abstract!Next
    <2> DEFINE k == Head(jobQueue)
    <2>1. /\ Queued = {k} \cup Queued' /\ InFlight' = InFlight \cup {k} /\ fate' = fate
          /\ jobQueue # <<>> /\ jobQueue' = Tail(jobQueue)
      BY <1>4, TakeMoves DEF IInv, WorkerTakesJob
    <2>2. k \in Int /\ \A d \in Queued' : k < d
      <3>1. jobQueue \in Seq(Int) /\ Ascending(jobQueue)
        BY PlacesType DEF IInv, ChainOrder
      <3>2. Queued' = Range(Tail(jobQueue))
        BY <2>1 DEF Queued
      <3> QED
        BY <2>1, <3>1, <3>2, AscendingTail, HeadTailProperties
    <2> HIDE DEF k
    <2>3. k \in Wanted /\ k \in Queued /\ k \notin Queued'
      BY <2>1, <2>2 DEF IInv, NothingAhead, Touched
    <2>4. \A m \in Abstract!At("queued") : k <= m
      <3>1. Abstract!At("queued") = Queued
        BY StageOf DEF Abstract!At, IInv, NothingAhead, Touched
      <3>2. Queued \subseteq Int
        BY PlacesType, LogsAreNumbers DEF IInv
      <3>3. ASSUME NEW m \in Queued PROVE k <= m
        BY <2>1, <2>2, <3>2
      <3> QED
        BY <3>1, <3>3
    <2>5. Cardinality(Abstract!At("active")) < Cardinality(Workers)
      <3>1. Abstract!At("active") = InFlight
        BY StageOf DEF Abstract!At, IInv, NothingAhead, Touched
      <3>2. job[w] = NoLog
        BY <1>4 DEF IInv, Shape, WorkerTakesJob
      <3> QED
        BY <3>1, <3>2, ActiveCount
    <2>6. stage' = [stage EXCEPT ![k] = "active"]
      BY <2>1, <2>3 DEF stage
    <2>7. stage[k] = "queued"
      BY <2>3, StageOf
    <2>8. Abstract!Begin(k)
      BY <2>4, <2>5, <2>6, <2>7, SameCardinality DEF Abstract!Begin, Abstract!Move
    <2> QED
      BY <2>3, <2>8 DEF Abstract!Next
  <1>5. ASSUME NEW w \in Workers, HandlerReturns(w) \/ HandlerCanceled(w)
        PROVE  Abstract!Next
    <2> DEFINE k == job[w]
    <2>1. /\ k \in Logs /\ Queued' = Queued
          /\ InFlight = InFlight' \cup {k} /\ k \notin InFlight'
      BY <1>5, EndMoves DEF IInv
    <2>2. \E r \in {"handled", "failed"} : fate' = [fate EXCEPT ![k] = r]
      BY <1>5 DEF HandlerReturns, HandlerCanceled
    <2> HIDE DEF k
    <2>3. k \in Wanted /\ k \notin Queued
      BY <2>1 DEF IInv, NothingAhead, Touched, AtMostOnce
    <2>4. fate'[k] \in {"handled", "failed"} /\ \A l \in Wanted : l # k => fate'[l] = fate[l]
      BY <2>1, <2>2 DEF IInv, TypeOK, Wanted
    <2>5. stage' = [stage EXCEPT ![k] = "done"]
      BY <2>1, <2>3, <2>4 DEF stage
    <2> QED
      BY <2>1, <2>3, <2>5, StageOf DEF Abstract!Next, Abstract!End, Abstract!Move
  <1> QED
    BY <1>1, <1>2, <1>3, <1>4, <1>5, StepKinds

\* The handlers cannot tell the watcher from Delivery: each wanted log is considered
\* once and in chain order, lost only when QueueSize logs wait, begun in chain
\* order by at most WorkerCount workers.
THEOREM Refinement == Spec => Delivers
  <1>1. Init => Abstract!Init
    <2> SUFFICES ASSUME Init PROVE Abstract!Init
      OBVIOUS
    <2>1. IInv /\ Touched = {}
      BY InvInit DEF Init, IInv, Shape
    <2>2. \A l \in Wanted : stage[l] = "ahead"
      BY <2>1, StageOf
    <2> QED
      BY <2>2 DEF Abstract!Init, stage
  <1>2. IInv /\ IInv' /\ [Next]_vars => [Abstract!Next]_stage
    BY DeliveryStep
  <1> QED
    BY <1>1, <1>2, Invariance, PTL DEF Spec, Delivers, Abstract!Spec

=============================================================================
