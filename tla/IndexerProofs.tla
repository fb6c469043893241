--------------------------- MODULE IndexerProofs ---------------------------
(***************************************************************************)
(* For every chain of events, queue, number of workers and number of       *)
(* lives: what a handler acknowledged stays in the tables, what the tables *)
(* hold is never replaced, and what they lack is explained.                *)
(***************************************************************************)
EXTENDS Indexer, FiniteSetTheorems, TLAPS

\* What the tables hold came from an event of that row and of that group.
Origin ==
  /\ \A id \in SwapIds, g \in Groups : columns[id][g] # NoEvent =>
       /\ Kind[columns[id][g]] \in HtlcKinds
       /\ GroupOf[Kind[columns[id][g]]] = g
       /\ Key[columns[id][g]] = id
  /\ \A id \in CreateIds : orders[id] # NoEvent =>
       Kind[orders[id]] = "Created" /\ Key[orders[id]] = id

\* What the answers of this life say about the tables.
Answered ==
  \A e \in Events : /\ result[e] = "ok" => e \in acked
                    /\ result[e] = "duplicate" => Recorded(e)

\* A process that ended is started again.
MoreLives == ~running => lives < MaxLives

\* How far the events are: in order, none lost without a backlog, none at its end
\* before its handler answered.
Staged ==
  /\ Watch!InOrder
  /\ \A e \in Events : /\ stage[e] = "dropped" => Watch!Backlogged(e)
                       /\ stage[e] = "done" => result[e] # "none"

IInv == TypeOK /\ Origin /\ AckedIsDurable /\ Answered /\ MoreLives /\ Staged

\* A step that erases and replaces nothing.
Grows ==
  /\ \A id \in SwapIds, g \in Groups : columns[id][g] # NoEvent => columns'[id][g] = columns[id][g]
  /\ \A id \in CreateIds : orders[id] # NoEvent => orders'[id] = orders[id]

\* Every statement of a handler keeps the tables in order, and its answer is true.
Keeps(e, r) ==
  /\ StoreTypeOK' /\ Origin' /\ Grows
  /\ r \in {"ok", "duplicate"} => Recorded(e)'

\* The three groups are the groups of the three events.
LEMMA GroupsOfKinds ==
  /\ \A k \in HtlcKinds : GroupOf[k] \in Groups
  /\ \A j, k \in HtlcKinds : GroupOf[j] = GroupOf[k] => j = k
  BY DEF HtlcKinds, GroupOf, Groups

\* An event that is in the tables stays there when they only grow.
LEMMA GrowthKeepsRecords ==
  ASSUME TypeOK, Grows, NEW e \in Events, Recorded(e) PROVE Recorded(e)'
<1>1. e # NoEvent
  BY EventsAssumption
<1>2. CASE Kind[e] \in HtlcKinds
  <2>1. Key[e] \in SwapIds /\ GroupOf[Kind[e]] \in Groups
    BY <1>2, IndexerAssumption, GroupsOfKinds DEF IndexerAssumption, ChainAssumption
  <2>2. columns'[Key[e]][GroupOf[Kind[e]]] = e
    BY <1>1, <1>2, <2>1 DEF Grows, Recorded
  <2> QED
    BY <1>2, <2>2 DEF Recorded, HtlcKinds
<1>3. CASE Kind[e] = "Created"
  <2>1. Key[e] \in CreateIds
    BY <1>3, IndexerAssumption DEF IndexerAssumption, ChainAssumption
  <2>2. orders[Key[e]] = e
    BY <1>3 DEF Recorded, ReadCreateOrder
  <2>3. orders'[Key[e]] = e
    BY <1>1, <2>1, <2>2 DEF Grows
  <2> QED
    BY <1>1, <1>3, <2>3 DEF Recorded, ReadCreateOrder, HtlcKinds
<1> QED
  BY <1>2, <1>3 DEF Recorded

\* UPDATE: the group that it writes is empty or holds this event already.
LEMMA UpdateKeeps ==
  ASSUME IInv, NEW e \in Events, NEW r, Kind[e] \in HtlcKinds,
         UpdateSwap(Key[e], GroupOf[Kind[e]], e, r)
  PROVE  Keeps(e, r)
<1> DEFINE id == Key[e]
           g == GroupOf[Kind[e]]
<1> USE DEF IInv, TypeOK
<1>1. id \in SwapIds /\ g \in Groups /\ e # NoEvent
  BY IndexerAssumption, EventsAssumption, GroupsOfKinds DEF IndexerAssumption, ChainAssumption
<1>2. CASE UNCHANGED columns
  <2>1. r \in {"ok", "duplicate"} => columns[id][g] = e
    BY <1>1, <1>2 DEF UpdateSwap, StoreTypeOK
  <2> QED
    BY <1>2, <2>1 DEF Keeps, UpdateSwap, StoreTypeOK, Origin, Grows, Recorded, HtlcKinds
<1>3. CASE id \in swapRows /\ columns' = [columns EXCEPT ![id][g] = e]
  <2>1. columns' \in [SwapIds -> [Groups -> Events \cup {NoEvent}]]
    BY <1>1, <1>3 DEF StoreTypeOK
  <2>2. \A i \in SwapIds, h \in Groups :
          columns'[i][h] = IF i = id /\ h = g THEN e ELSE columns[i][h]
    BY <1>1, <1>3 DEF StoreTypeOK
  <2>3. UNCHANGED <<swapRows, orders>>
    BY DEF UpdateSwap
  <2>4. StoreTypeOK'
    BY <1>3, <2>1, <2>2, <2>3 DEF StoreTypeOK
  <2>5. Origin'
    BY <2>2, <2>3 DEF Origin
  <2>6. columns[id][g] # NoEvent => columns[id][g] = e
    <3> SUFFICES ASSUME columns[id][g] # NoEvent PROVE columns[id][g] = e
      OBVIOUS
    <3>1. columns[id][g] \in Events
      BY <1>1 DEF StoreTypeOK
    <3>2. Kind[columns[id][g]] = Kind[e] /\ Key[columns[id][g]] = Key[e]
      BY <1>1, GroupsOfKinds DEF Origin
    <3> QED
      BY <3>1, <3>2, IndexerAssumption DEF IndexerAssumption, ChainAssumption, HtlcKinds
  <2>7. Grows
    BY <2>2, <2>3, <2>6 DEF Grows
  <2>8. Recorded(e)'
    BY <1>1, <2>2 DEF Recorded, HtlcKinds
  <2> QED
    BY <2>4, <2>5, <2>7, <2>8 DEF Keeps
<1> QED
  BY <1>2, <1>3 DEF UpdateSwap

\* INSERT: it writes a row that was not there; a duplicate is the row of this event.
LEMMA InsertKeeps ==
  ASSUME IInv, NEW e \in Events, NEW r, Kind[e] = "Created", WriteCreateOrder(Key[e], e, r)
  PROVE  Keeps(e, r)
<1> DEFINE id == Key[e]
<1> USE DEF IInv, TypeOK
<1>1. id \in CreateIds /\ e # NoEvent
  BY IndexerAssumption, EventsAssumption DEF IndexerAssumption, ChainAssumption
<1>2. UNCHANGED <<swapRows, columns>>
  BY DEF WriteCreateOrder
<1>3. CASE orders[id] = NoEvent /\ orders' = [orders EXCEPT ![id] = e]
  <2>1. /\ orders' \in [CreateIds -> Events \cup {NoEvent}]
        /\ \A i \in CreateIds : orders'[i] = IF i = id THEN e ELSE orders[i]
    BY <1>1, <1>3 DEF StoreTypeOK
  <2>2. StoreTypeOK' /\ Origin' /\ Grows
    BY <1>2, <1>3, <2>1 DEF StoreTypeOK, Origin, Grows
  <2>3. Recorded(e)'
    BY <1>1, <2>1 DEF Recorded, ReadCreateOrder, HtlcKinds
  <2> QED
    BY <2>2, <2>3 DEF Keeps
<1>4. CASE UNCHANGED orders
  <2>1. StoreTypeOK' /\ Origin' /\ Grows
    BY <1>2, <1>4 DEF StoreTypeOK, Origin, Grows
  <2>2. r \in {"ok", "duplicate"} => orders[id] # NoEvent
    <3>1. \A i \in CreateIds : orders[i] = NoEvent => orders'[i] # e
      BY <1>1, <1>4
    <3> QED
      BY <1>1, <3>1 DEF WriteCreateOrder, StoreTypeOK
  <2>3. orders[id] # NoEvent => orders[id] = e
    <3> SUFFICES ASSUME orders[id] # NoEvent PROVE orders[id] = e
      OBVIOUS
    <3>1. orders[id] \in Events
      BY <1>1 DEF StoreTypeOK
    <3>2. Kind[orders[id]] = Kind[e] /\ Key[orders[id]] = Key[e]
      BY <1>1 DEF Origin
    <3> QED
      BY <3>1, <3>2, IndexerAssumption DEF IndexerAssumption, ChainAssumption
  <2>4. r \in {"ok", "duplicate"} => Recorded(e)'
    BY <1>1, <1>4, <2>2, <2>3 DEF Recorded, ReadCreateOrder, HtlcKinds
  <2> QED
    BY <2>1, <2>4 DEF Keeps
<1> QED
  BY <1>3, <1>4 DEF WriteCreateOrder

\* Whatever the event is, its handler keeps the tables in order.
LEMMA HandlerKeeps ==
  ASSUME IInv, NEW e \in Events, NEW r, Handler(e, r) PROVE Keeps(e, r)
<1>1. CASE \/ handleInitiatedEvent(e, r) \/ handleRedeemedEvent(e, r) \/ handleRefundedEvent(e, r)
  <2>1. Kind[e] \in HtlcKinds /\ UpdateSwap(Key[e], GroupOf[Kind[e]], e, r)
    BY <1>1 DEF handleInitiatedEvent, handleRedeemedEvent, handleRefundedEvent, HtlcKinds, GroupOf,
      UpdateSwapInitiate, UpdateSwapRedeem, UpdateSwapRefund
  <2> QED
    BY <2>1, UpdateKeeps
<1>2. CASE handleCreatedEvent(e, r)
  BY <1>2, InsertKeeps DEF handleCreatedEvent
<1>3. CASE handleFilledEvent(e, r)
  BY <1>3 DEF handleFilledEvent, storeVars, Keeps, IInv, TypeOK, StoreTypeOK, Origin, Grows,
    Recorded, HtlcKinds
<1> QED
  BY <1>1, <1>2, <1>3 DEF Handler

-----------------------------------------------------------------------------
(***************************************************************************)
(* The delivery of this life.                                              *)
(***************************************************************************)

\* Cardinality in the instance of Delivery is Cardinality.
LEMMA SameCardinality == \A S : Watch!Cardinality(S) = Cardinality(S)
  BY DEF Watch!Cardinality, Cardinality

\* A backlog, with that Cardinality.
LEMMA BackloggedMeans ==
  ASSUME NEW e \in Events
  PROVE  Watch!Backlogged(e) <=> Cardinality(Watch!AcceptedBefore(e)) >= Capacity
  BY SameCardinality DEF Watch!Backlogged

\* Finitely many events come before an event.
LEMMA AcceptedIsFinite ==
  ASSUME NEW e \in Events
  PROVE  IsFiniteSet(Watch!AcceptedBefore(e)) /\ Cardinality(Watch!AcceptedBefore(e)) \in Nat
<1>1. Watch!AcceptedBefore(e) \in SUBSET (0..e)
  <2> SUFFICES ASSUME NEW d \in Events, d < e PROVE d \in 0..e
    BY DEF Watch!AcceptedBefore
  <2> QED
    BY IndexerAssumption DEF IndexerAssumption, ChainAssumption
<1>2. IsFiniteSet(0..e)
  BY IndexerAssumption, FS_Interval DEF IndexerAssumption, ChainAssumption
<1> QED
  BY <1>1, <1>2, FS_Subset, FS_CardinalityType

\* An event that was accepted in this life stays accepted until the life ends, so a
\* backlog does not shrink.
LEMMA BacklogStays ==
  ASSUME NEW e \in Events, Watch!Backlogged(e),
         \A d \in Events : stage[d] \in {"queued", "active", "done"} =>
           stage'[d] \in {"queued", "active", "done"}
  PROVE  Watch!Backlogged(e)'
<1> DEFINE before == Watch!AcceptedBefore(e)
           after == {d \in Events : d < e /\ stage'[d] \in {"queued", "active", "done"}}
<1>1. before \in SUBSET after
  BY DEF Watch!AcceptedBefore
<1>2. after \in SUBSET (0..e)
  <2> SUFFICES ASSUME NEW d \in Events, d < e PROVE d \in 0..e
    OBVIOUS
  <2> QED
    BY IndexerAssumption DEF IndexerAssumption, ChainAssumption
<1>3. IsFiniteSet(after)
  <2>1. IsFiniteSet(0..e)
    BY IndexerAssumption, FS_Interval DEF IndexerAssumption, ChainAssumption
  <2> QED
    BY <1>2, <2>1, FS_Subset
<1>4. Cardinality(before) \in Nat /\ Cardinality(after) \in Nat
  BY <1>3, AcceptedIsFinite, FS_CardinalityType
<1>5. Cardinality(before) <= Cardinality(after)
  BY <1>1, <1>3, FS_Subset
<1>6. Cardinality(after) >= Capacity
  <2> HIDE DEF before, after
  <2>1. Cardinality(before) >= Capacity
    BY BackloggedMeans DEF before
  <2> QED
    BY <2>1, <1>4, <1>5, IndexerAssumption DEF IndexerAssumption, BoundsAssumption
<1>7. (Watch!Backlogged(e) <=> Cardinality(Watch!AcceptedBefore(e)) >= Capacity)'
  BY BackloggedMeans, PTL
<1> QED
  BY <1>6, <1>7 DEF Watch!AcceptedBefore

\* An event is dropped behind a full queue, and what waits precedes it.
LEMMA DropNeedsBacklog ==
  ASSUME IInv, NEW e \in Events, Watch!Drop(e) PROVE Watch!Backlogged(e)
<1>1. Watch!At("queued") \in SUBSET Watch!AcceptedBefore(e)
  <2> SUFFICES ASSUME NEW d \in Events, stage[d] = "queued" PROVE d < e
    BY DEF Watch!At, Watch!AcceptedBefore
  <2>1. stage[e] = "ahead"
    BY DEF Watch!Drop, Watch!Move
  <2>2. ~(e < d) /\ d # e
    BY <2>1 DEF IInv, Staged, Watch!InOrder
  <2>3. d \in Nat /\ e \in Nat
    BY IndexerAssumption DEF IndexerAssumption, ChainAssumption
  <2> QED
    BY <2>2, <2>3
<1>2. Cardinality(Watch!At("queued")) = Capacity
  BY SameCardinality DEF Watch!Drop
<1>3. Cardinality(Watch!At("queued")) <= Cardinality(Watch!AcceptedBefore(e))
  BY <1>1, AcceptedIsFinite, FS_Subset
<1>4. Cardinality(Watch!AcceptedBefore(e)) >= Capacity
  BY <1>2, <1>3, AcceptedIsFinite, IndexerAssumption DEF IndexerAssumption, BoundsAssumption
<1> QED
  BY <1>4, BackloggedMeans

\* An event moves on and keeps its place in the order.
LEMMA MovesInOrder ==
  ASSUME IInv, NEW e \in Events, Watch!Accept(e) \/ Watch!Drop(e) \/ Watch!Begin(e) \/ Watch!End(e)
  PROVE  Watch!InOrder'
<1>1. PICK s \in {"queued", "dropped", "active", "done"} : stage' = [stage EXCEPT ![e] = s]
  BY DEF Watch!Accept, Watch!Drop, Watch!Begin, Watch!End, Watch!Move
<1>2. \A d \in Events : d < e => stage[d] # "ahead"
  <2>1. CASE Watch!Accept(e) \/ Watch!Drop(e)
    BY <2>1 DEF Watch!Accept, Watch!Drop, Watch!Due
  <2>2. CASE Watch!Begin(e) \/ Watch!End(e)
    BY <2>2 DEF IInv, Staged, Watch!InOrder, Watch!Begin, Watch!End, Watch!Move
  <2> QED
    BY <2>1, <2>2
<1>3. \A d \in Events : stage'[d] = IF d = e THEN s ELSE stage[d]
  BY <1>1 DEF IInv, TypeOK
<1> QED
  BY <1>2, <1>3 DEF IInv, Staged, Watch!InOrder

\* What the loop and the workers do to an event leaves the delivery explained.
LEMMA DeliveryStaged ==
  ASSUME IInv, NEW e \in Events, Deliver(e) \/ EndEvent(e) PROVE Staged'
<1>1. UNCHANGED result
  BY DEF Deliver, DispatchEvent, BeginEvent, EndEvent
<1>2. PICK s \in {"queued", "dropped", "active", "done"} :
        /\ stage' = [stage EXCEPT ![e] = s]
        /\ s = "dropped" => Watch!Drop(e)
        /\ s = "done" => result[e] # "none"
        /\ stage[e] \in {"queued", "active", "done"} => s # "dropped"
  BY DEF Deliver, DispatchEvent, BeginEvent, EndEvent, Watch!Accept, Watch!Drop, Watch!Begin,
    Watch!End, Watch!Move
<1>3. \A d \in Events : stage'[d] = IF d = e THEN s ELSE stage[d]
  BY <1>2 DEF IInv, TypeOK
<1>4. \A d \in Events : stage[d] \in {"queued", "active", "done"} =>
        stage'[d] \in {"queued", "active", "done"}
  BY <1>2, <1>3
<1>5. \A d \in Events : stage'[d] = "dropped" => Watch!Backlogged(d)
  BY <1>2, <1>3, DropNeedsBacklog DEF IInv, Staged
<1>6. \A d \in Events : stage'[d] = "dropped" => Watch!Backlogged(d)'
  BY <1>4, <1>5, BacklogStays
<1>7. \A d \in Events : stage'[d] = "done" => result'[d] # "none"
  BY <1>1, <1>2, <1>3 DEF IInv, Staged
<1>8. Watch!InOrder'
  BY MovesInOrder DEF Deliver, DispatchEvent, BeginEvent, EndEvent
<1> QED
  BY <1>6, <1>7, <1>8 DEF Staged

\* A step that moves no event and takes no answer back.
LEMMA StagesUntouched ==
  ASSUME IInv, UNCHANGED stage,
         \A e \in Events : result[e] # "none" => result'[e] # "none"
  PROVE  Staged'
<1>1. \A e \in Events : Watch!Backlogged(e) => Watch!Backlogged(e)'
  BY BacklogStays
<1> QED
  BY <1>1 DEF IInv, Staged, Watch!InOrder

\* Nothing is delivered when a life begins.
LEMMA NothingIsStaged == stage = NothingDelivered => Staged
  BY DEF Staged, NothingDelivered, Watch!InOrder

-----------------------------------------------------------------------------
LEMMA InitEstablishes == Init => IInv
<1> SUFFICES ASSUME Init PROVE IInv
  OBVIOUS
<1>1. StoreTypeOK
  BY DEF Init, NewStore, StoreTypeOK
<1>2. TypeOK
  BY <1>1, IndexerAssumption
  DEF Init, TypeOK, NothingDelivered, NothingReturned, IndexerAssumption, BoundsAssumption
<1>3. Origin
  BY DEF Init, NewStore, Origin
<1>4. AckedIsDurable /\ Answered /\ MoreLives
  BY DEF Init, AckedIsDurable, Answered, NothingReturned, MoreLives
<1>5. Staged
  BY NothingIsStaged DEF Init
<1> QED
  BY <1>2, <1>3, <1>4, <1>5 DEF IInv

\* A step that leaves the tables and the history alone.
LEMMA TablesUntouched ==
  ASSUME IInv, TypeOK', MoreLives', Staged', UNCHANGED <<storeVars, acked>>,
         \A e \in Events : result'[e] \in {"ok", "duplicate"} => result[e] = result'[e]
  PROVE  IInv'
<1>1. Origin' /\ AckedIsDurable'
  BY DEF IInv, storeVars, Origin, AckedIsDurable, Recorded, ReadCreateOrder
<1>2. Answered'
  BY DEF IInv, storeVars, Answered, Recorded, ReadCreateOrder
<1> QED
  BY <1>1, <1>2 DEF IInv

LEMMA RunHandlerPreserves ==
  ASSUME IInv, NEW e \in Events, RunHandler(e) PROVE IInv' /\ Grows
<1>1. PICK r \in Results : /\ Handler(e, r)
                           /\ result' = [result EXCEPT ![e] = r]
                           /\ acked' = IF r = "ok" THEN acked \cup {e} ELSE acked
  BY DEF RunHandler
<1>2. Keeps(e, r)
  BY <1>1, HandlerKeeps
<1>3. \A d \in Events : Recorded(d) => Recorded(d)'
  BY <1>2, GrowthKeepsRecords DEF IInv, Keeps
<1>4. TypeOK'
  BY <1>1, <1>2 DEF IInv, TypeOK, Keeps, RunHandler, processVars, Results
<1>5. AckedIsDurable'
  BY <1>1, <1>2, <1>3 DEF IInv, TypeOK, AckedIsDurable, Keeps
<1>6. Answered'
  <2> SUFFICES ASSUME NEW d \in Events
               PROVE  /\ result'[d] = "ok" => d \in acked'
                      /\ result'[d] = "duplicate" => Recorded(d)'
    BY DEF Answered
  <2>1. CASE d = e
    BY <1>1, <1>2, <2>1 DEF IInv, TypeOK, Keeps
  <2>2. CASE d # e
    <3>1. result'[d] = result[d]
      BY <1>1, <2>2 DEF IInv, TypeOK
    <3> QED
      BY <1>1, <1>3, <3>1 DEF IInv, Answered
  <2> QED
    BY <2>1, <2>2
<1>7. MoreLives'
  BY DEF IInv, MoreLives, RunHandler, processVars
<1>8. Staged'
  <2>1. UNCHANGED stage
    BY DEF RunHandler
  <2>2. \A d \in Events : result[d] # "none" => result'[d] # "none"
    BY <1>1 DEF IInv, TypeOK, Results
  <2> QED
    BY <2>1, <2>2, StagesUntouched
<1> QED
  BY <1>2, <1>4, <1>5, <1>6, <1>7, <1>8 DEF IInv, Keeps

\* The other service adds a row; the columns stay.
LEMMA SwapCreatedPreserves ==
  ASSUME IInv, NEW id \in SwapIds, SwapCreated(id) PROVE IInv' /\ Grows
<1>1. /\ swapRows' = swapRows \cup {id}
      /\ UNCHANGED <<columns, orders, stage, running, lives, result, acked>>
  BY DEF SwapCreated, CreateSwap, processVars
<1>2. TypeOK'
  BY <1>1 DEF IInv, TypeOK, StoreTypeOK
<1>3. Origin' /\ AckedIsDurable' /\ Answered' /\ MoreLives' /\ Grows
  BY <1>1 DEF IInv, Origin, AckedIsDurable, Answered, MoreLives, Recorded, ReadCreateOrder, Grows
<1>4. Staged'
  BY <1>1, StagesUntouched
<1> QED
  BY <1>2, <1>3, <1>4 DEF IInv

LEMMA DeliverPreserves ==
  ASSUME IInv, NEW e \in Events, Deliver(e) \/ EndEvent(e) PROVE IInv' /\ Grows
<1>1. \E s \in {"queued", "dropped", "active", "done"} : stage' = [stage EXCEPT ![e] = s]
  BY DEF Deliver, DispatchEvent, BeginEvent, EndEvent, Watch!Accept, Watch!Drop, Watch!Begin,
    Watch!End, Watch!Move
<1>2. UNCHANGED <<storeVars, processVars, result, acked>>
  BY DEF Deliver, DispatchEvent, BeginEvent, EndEvent
<1>3. TypeOK'
  BY <1>1, <1>2 DEF IInv, TypeOK, StoreTypeOK, storeVars, processVars
<1>4. MoreLives'
  BY <1>2 DEF IInv, MoreLives, processVars
<1> QED
  BY <1>2, <1>3, <1>4, DeliveryStaged, TablesUntouched DEF storeVars, Grows

LEMMA ProcessPreserves ==
  ASSUME IInv, Exit \/ RunWatcher \/ Idle \/ UNCHANGED vars PROVE IInv' /\ Grows
<1>1. UNCHANGED <<storeVars, acked>>
  BY DEF Exit, RunWatcher, Idle, vars
<1>2. result' = result \/ result' = NothingReturned
  BY DEF Exit, RunWatcher, Idle, vars
<1>3. TypeOK' /\ MoreLives'
  <2>1. CASE RunWatcher
    <3>1. lives < MaxLives /\ lives' = lives + 1 /\ running' = TRUE
      BY <2>1 DEF RunWatcher, IInv, MoreLives
    <3>2. lives' \in 1..MaxLives
      BY <3>1, IndexerAssumption DEF IInv, TypeOK, IndexerAssumption, BoundsAssumption
    <3>3. /\ stage' \in [Events -> {"ahead", "queued", "active", "done", "dropped"}]
          /\ result' \in [Events -> Results \cup {"none"}]
      BY <2>1 DEF RunWatcher, NothingDelivered, NothingReturned
    <3> QED
      BY <1>1, <3>1, <3>2, <3>3 DEF IInv, TypeOK, StoreTypeOK, storeVars, MoreLives
  <2>2. CASE Exit \/ Idle \/ UNCHANGED vars
    BY <1>1, <2>2
    DEF IInv, TypeOK, StoreTypeOK, storeVars, processVars, MoreLives, Exit, Idle, vars
  <2> QED
    BY <2>1, <2>2
<1>4. Staged'
  <2>1. CASE RunWatcher
    <3>1. stage' = NothingDelivered
      BY <2>1 DEF RunWatcher
    <3>2. (stage = NothingDelivered)' => Staged'
      BY NothingIsStaged, PTL
    <3> QED
      BY <3>1, <3>2 DEF NothingDelivered
  <2>2. CASE Exit \/ Idle \/ UNCHANGED vars
    <3>1. UNCHANGED <<stage, result>>
      BY <2>2 DEF Exit, Idle, vars
    <3> QED
      BY <3>1, StagesUntouched
  <2> QED
    BY <2>1, <2>2
<1> QED
  BY <1>1, <1>2, <1>3, <1>4, TablesUntouched DEF storeVars, Grows, NothingReturned

LEMMA StepPreserves == IInv /\ [Next]_vars => IInv' /\ Grows
<1> SUFFICES ASSUME IInv, [Next]_vars PROVE IInv' /\ Grows
  OBVIOUS
<1>1. CASE \E id \in SwapIds : SwapCreated(id)
  BY <1>1, SwapCreatedPreserves
<1>2. CASE \E e \in Events : RunHandler(e)
  BY <1>2, RunHandlerPreserves
<1>3. CASE \E e \in Events : Deliver(e) \/ EndEvent(e)
  BY <1>3, DeliverPreserves
<1>4. CASE Exit \/ RunWatcher \/ Idle \/ UNCHANGED vars
  BY <1>4, ProcessPreserves
<1> QED
  BY <1>1, <1>2, <1>3, <1>4 DEF Next

-----------------------------------------------------------------------------
\* The inductive invariant holds in every reachable state.
THEOREM Invariance == Spec => []IInv
<1>1. IInv /\ [Next]_vars => IInv'
  BY StepPreserves
<1> QED
  BY InitEstablishes, <1>1, PTL DEF Spec

\* Every variable keeps its type, over all lives of the process.
THEOREM TypeCorrect == Spec => []TypeOK
<1>1. IInv => TypeOK
  BY DEF IInv
<1> QED
  BY Invariance, <1>1, PTL

\* An event whose handler returned nil is in the tables for good, through every
\* exit, restart, repeated delivery and update of its row by another worker.
THEOREM AckedStays == Spec => []AckedIsDurable
<1>1. IInv => AckedIsDurable
  BY DEF IInv
<1> QED
  BY Invariance, <1>1, PTL

\* What an event wrote is in its own row and columns, and an event that the tables
\* lack is on its way, or its statement found no row or failed, or it was lost when
\* enough accepted events to fill the queue were before it. In particular a life
\* whose handlers all wrote their event leaves tables that say what the chain says.
THEOREM TablesAreExplained == Spec => []TablesExplained
<1>1. IInv => TablesExplained
  <2> SUFFICES ASSUME IInv, NEW e \in Events
               PROVE  \/ Recorded(e)
                      \/ stage[e] \in {"ahead", "queued", "active"}
                      \/ stage[e] = "done" /\ result[e] \in {"missing", "error"}
                      \/ stage[e] = "dropped" /\ Watch!Backlogged(e)
    BY DEF TablesExplained, IInv, Origin
  <2>1. CASE stage[e] = "done"
    <3>1. result[e] \in Results
      BY <2>1 DEF IInv, TypeOK, Staged
    <3>2. result[e] \in {"ok", "duplicate"} => Recorded(e)
      BY DEF IInv, Answered, AckedIsDurable
    <3> QED
      BY <2>1, <3>1, <3>2 DEF Results
  <2>2. CASE stage[e] # "done"
    BY <2>2 DEF IInv, TypeOK, Staged
  <2> QED
    BY <2>1, <2>2
<1> QED
  BY Invariance, <1>1, PTL

\* No statement erases or replaces what another one wrote, whatever is delivered
\* again.
THEOREM TablesGrow == Spec => TablesOnlyGrow
<1>1. IInv /\ [Next]_vars => [Grows]_vars
  BY StepPreserves
<1>2. Spec => [][Grows]_vars
  BY Invariance, <1>1, PTL DEF Spec
<1> QED
  BY <1>2 DEF TablesOnlyGrow, Grows

=============================================================================
