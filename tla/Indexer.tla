------------------------------ MODULE Indexer ------------------------------
(***************************************************************************)
(* The watcher process end to end, over any number of lives: the events of *)
(* one chain are delivered as Delivery says (Watcher implements it), the   *)
(* handlers of pkg/handlers write them to the store, another service       *)
(* inserts the rows of the swaps, and the process exits and is started     *)
(* again. Nothing but the tables survives an exit: RunWatcher starts over  *)
(* at StartBlock, so every event is delivered again.                       *)
(***************************************************************************)
EXTENDS SwapStore

CONSTANTS
  Capacity,      \* Watcher's QueueSize
  Concurrency,   \* Watcher's WorkerCount
  Kind,          \* Kind[e]: the event of the contract's ABI
  Key,           \* Key[e]: the order id of an HTLC event, the CreateID of a Created one
  MaxLives       \* bound of the model: how often the process is started

HtlcKinds == {"Initiated", "Redeemed", "Refunded"}

\* An HTLC has one Initiated event and one Redeemed or Refunded; the transaction
\* hash and the secret hash tell the orders created apart.
ChainAssumption ==
  /\ Events \subseteq Nat
  /\ Kind \in [Events -> HtlcKinds \cup {"Created", "Filled"}]
  /\ \A e \in Events : Kind[e] \in HtlcKinds => Key[e] \in SwapIds
  /\ \A e \in Events : Kind[e] = "Created" => Key[e] \in CreateIds
  /\ \A d, e \in Events : Kind[d] # "Filled" /\ Kind[d] = Kind[e] /\ Key[d] = Key[e] => d = e

BoundsAssumption == Capacity \in Nat \ {0} /\ Concurrency \in Nat \ {0} /\ MaxLives \in Nat \ {0}

ASSUME IndexerAssumption == ChainAssumption /\ BoundsAssumption

VARIABLES
  stage,      \* of each event in this life, see Delivery
  running,    \* the process runs
  lives,      \* how often it was started
  result,     \* what the handler of each event returned in this life
  acked       \* history: the events whose handler returned nil in some life

processVars == <<running, lives>>
vars == <<storeVars, stage, processVars, result, acked>>

Watch == INSTANCE Delivery WITH Logs <- Events

TypeOK ==
  /\ StoreTypeOK
  /\ stage \in [Events -> {"ahead", "queued", "active", "done", "dropped"}]
  /\ running \in BOOLEAN
  /\ lives \in 1..MaxLives
  /\ result \in [Events -> Results \cup {"none"}]
  /\ acked \subseteq Events

NothingDelivered == [e \in Events |-> "ahead"]
NothingReturned == [e \in Events |-> "none"]

Init ==
  /\ NewStore
  /\ stage = NothingDelivered
  /\ running = TRUE
  /\ lives = 1
  /\ result = NothingReturned
  /\ acked = {}

-----------------------------------------------------------------------------
(***************************************************************************)
(* The handlers: what each writes, by the outcome of its statement. A log  *)
(* that cannot be parsed is an "error" that writes nothing, or, where the  *)
(* handler slices data that is too short for it, an Exit.                  *)
(***************************************************************************)
handleInitiatedEvent(e, r) == Kind[e] = "Initiated" /\ UpdateSwapInitiate(Key[e], e, r)
handleRedeemedEvent(e, r) == Kind[e] = "Redeemed" /\ UpdateSwapRedeem(Key[e], e, r)
handleRefundedEvent(e, r) == Kind[e] = "Refunded" /\ UpdateSwapRefund(Key[e], e, r)
handleCreatedEvent(e, r) == Kind[e] = "Created" /\ WriteCreateOrder(Key[e], e, r)
handleFilledEvent(e, r) == Kind[e] = "Filled" /\ r = "ok" /\ UNCHANGED storeVars

Handler(e, r) ==
  \/ handleInitiatedEvent(e, r)
  \/ handleRedeemedEvent(e, r)
  \/ handleRefundedEvent(e, r)
  \/ handleCreatedEvent(e, r)
  \/ handleFilledEvent(e, r)

-----------------------------------------------------------------------------
\* Another service inserts the row of a swap.
SwapCreated(id) ==
  /\ CreateSwap(id)
  /\ UNCHANGED <<stage, processVars, result, acked>>

\* The loop dispatches an event: it is queued, or dropped when the queue is full.
DispatchEvent(e) ==
  /\ running
  /\ Watch!Accept(e) \/ Watch!Drop(e)
  /\ UNCHANGED <<storeVars, processVars, result, acked>>

\* A worker takes the next event of the queue.
BeginEvent(e) ==
  /\ running
  /\ Watch!Begin(e)
  /\ UNCHANGED <<storeVars, processVars, result, acked>>

Deliver(e) == DispatchEvent(e) \/ BeginEvent(e)

\* A worker runs the handler up to the answer of the database.
RunHandler(e) ==
  /\ running
  /\ stage[e] = "active" /\ result[e] = "none"
  /\ \E r \in Results :
       /\ Handler(e, r)
       /\ result' = [result EXCEPT ![e] = r]
       /\ acked' = IF r = "ok" THEN acked \cup {e} ELSE acked
  /\ UNCHANGED <<stage, processVars>>

\* The worker is done with the event, whatever the handler returned.
EndEvent(e) ==
  /\ running /\ result[e] # "none" /\ Watch!End(e)
  /\ UNCHANGED <<storeVars, processVars, result, acked>>

\* A signal ends RunWatcher, or a panic in a handler, as handleCreatedEvent's at data of
\* fewer than 96 bytes, ends the process: all its goroutines are gone.
Exit ==
  /\ running /\ lives < MaxLives
  /\ running' = FALSE
  /\ UNCHANGED <<storeVars, stage, lives, result, acked>>

\* Faulty variant: the process goes on where the one before it was.
RunWatcher_Resumes ==
  /\ ~running /\ running' = TRUE /\ lives' = lives + 1
  /\ UNCHANGED <<storeVars, stage, result, acked>>

RunWatcher ==
  /\ ~running
  /\ running' = TRUE /\ lives' = lives + 1 /\ stage' = NothingDelivered
  /\ result' = NothingReturned
  /\ UNCHANGED <<storeVars, acked>>

\* Every event was delivered and the process waits for a signal.
Idle ==
  /\ running /\ lives = MaxLives
  /\ \A e \in Events : stage[e] \in {"done", "dropped"}
  /\ UNCHANGED vars

Next ==
  \/ \E id \in SwapIds : SwapCreated(id)
  \/ \E e \in Events : Deliver(e) \/ RunHandler(e) \/ EndEvent(e)
  \/ Exit
  \/ RunWatcher
  \/ Idle

Spec == Init /\ [][Next]_vars

\* The watcher delivers (Watcher's WantedLogsSettle), handlers return, and a
\* process that ended is started again. Nothing forces a row, an exit or an error.
Fairness ==
  /\ \A e \in Events : WF_vars(Deliver(e)) /\ WF_vars(RunHandler(e)) /\ WF_vars(EndEvent(e))
  /\ WF_vars(RunWatcher)

FairSpec == Spec /\ Fairness

-----------------------------------------------------------------------------
GroupOf == [Initiated |-> "initiate", Redeemed |-> "redeem", Refunded |-> "refund"]

\* The tables hold what the event says.
Recorded(e) ==
  /\ Kind[e] \in HtlcKinds => columns[Key[e]][GroupOf[Kind[e]]] = e
  /\ Kind[e] = "Created" => ReadCreateOrder(Key[e]) = {e}

\* The event can be written: its row exists, or it makes its row.
Writable(e) == Kind[e] \in HtlcKinds => Key[e] \in swapRows

\* An event whose handler returned nil is in the tables, now and after every exit,
\* restart, replay and update of the same row by another worker.
AckedIsDurable == \A e \in acked : Recorded(e)

\* What an event wrote is in the row and the columns of that event, and an event
\* that is not in the tables is explained: it is on its way, its statement found no
\* row or failed, or it came when enough events to fill the queue were before it.
\* So a life that handled every event, each one written or found written, leaves
\* tables that say what the chain says, in whatever order the workers wrote.
TablesExplained ==
  /\ \A id \in SwapIds, g \in Groups : columns[id][g] # NoEvent =>
       /\ Kind[columns[id][g]] \in HtlcKinds
       /\ GroupOf[Kind[columns[id][g]]] = g
       /\ Key[columns[id][g]] = id
  /\ \A id \in CreateIds : orders[id] # NoEvent =>
       Kind[orders[id]] = "Created" /\ Key[orders[id]] = id
  /\ \A e \in Events :
       \/ Recorded(e)
       \/ stage[e] \in {"ahead", "queued", "active"}
       \/ stage[e] = "done" /\ result[e] \in {"missing", "error"}
       \/ stage[e] = "dropped" /\ Watch!Backlogged(e)

\* What is written is never erased or replaced: to deliver an event again, in a
\* later life or after an answer was lost, changes nothing.
TablesOnlyGrow ==
  [][/\ \A id \in SwapIds, g \in Groups : columns[id][g] # NoEvent => columns'[id][g] = columns[id][g]
     /\ \A id \in CreateIds : orders[id] # NoEvent => orders'[id] = orders[id]]_vars

\* A restart makes up for an event that was lost because its row was not there yet,
\* or to a full queue, or to a failing database: it is recorded after the next
\* start, unless it is lost to the queue or the database again.
RestartRecovers ==
  \A e \in Events :
    ~running /\ Writable(e) ~>
      \/ Recorded(e)
      \/ running /\ (stage[e] = "dropped" \/ result[e] = "error")

=============================================================================
