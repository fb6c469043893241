----------------------------- MODULE SwapStore -----------------------------
(***************************************************************************)
(* pkg/store/store.go and the tables it keeps in PostgreSQL. The columns   *)
(* that one statement writes together are one value here, the event log    *)
(* they were taken from: a row of swaps has the groups initiate            *)
(* (initiate_tx_hash, filled_amount, initiate_block_number), redeem        *)
(* (redeem_tx_hash, secret, redeem_block_number) and refund                *)
(* (refund_tx_hash, refund_block_number). Each statement is atomic; its    *)
(* answer may be lost.                                                     *)
(***************************************************************************)
EXTENDS Naturals

CONSTANTS
  Events,     \* the event logs whose data may be written
  SwapIds,    \* values of the primary key swap_id
  CreateIds   \* values of the primary key create_id

Groups == {"initiate", "redeem", "refund"}
NoEvent == 0

\* What a method returns: nil, "no swap found with the given orderID", the
\* violation of a primary key, or another error of the database.
Results == {"ok", "missing", "duplicate", "error"}

ASSUME EventsAssumption == NoEvent \notin Events

VARIABLES
  swapRows,   \* the keys of the table swaps
  columns,    \* columns[id][g]: the event that wrote group g of row id
  orders      \* orders[id]: the event that wrote row id of create_orders

storeVars == <<swapRows, columns, orders>>

StoreTypeOK ==
  /\ swapRows \subseteq SwapIds
  /\ columns \in [SwapIds -> [Groups -> Events \cup {NoEvent}]]
  /\ orders \in [CreateIds -> Events \cup {NoEvent}]
  /\ \A id \in SwapIds, g \in Groups : columns[id][g] # NoEvent => id \in swapRows

\* NewStore migrates the schema and keeps what the tables hold; the first time
\* they are empty.
NewStore ==
  /\ swapRows = {}
  /\ columns = [id \in SwapIds |-> [g \in Groups |-> NoEvent]]
  /\ orders = [id \in CreateIds |-> NoEvent]

\* The first insert of a row; a second one fails on the primary key.
CreateSwap(id) ==
  /\ id \notin swapRows
  /\ swapRows' = swapRows \cup {id}
  /\ UNCHANGED <<columns, orders>>

\* UPDATE swaps SET <group> WHERE swap_id = id, and how it is answered.
UpdateSwap(id, group, e, result) ==
  /\ \/ result = "ok" /\ id \in swapRows /\ columns' = [columns EXCEPT ![id][group] = e]
     \/ result = "missing" /\ id \notin swapRows /\ UNCHANGED columns
     \/ result = "error" /\ UNCHANGED columns
     \/ result = "error" /\ id \in swapRows /\ columns' = [columns EXCEPT ![id][group] = e]
  /\ UNCHANGED <<swapRows, orders>>

\* Faulty variant: an update that matched no row passes for a success.
UpdateSwapInitiate_RowsNotCounted(id, e, result) ==
  \/ UpdateSwap(id, "initiate", e, result)
  \/ result = "ok" /\ id \notin swapRows /\ UNCHANGED storeVars

\* Faulty variant: a row that is not there is made (Save in place of Updates).
UpdateSwapInitiate_Upserts(id, e, result) ==
  /\ result = "ok" /\ columns' = [columns EXCEPT ![id]["initiate"] = e]
  /\ UNCHANGED <<swapRows, orders>>

UpdateSwapInitiate(id, e, result) == UpdateSwap(id, "initiate", e, result)

\* Faulty variant: the columns of the refund are written instead.
UpdateSwapRedeem_RefundColumns(id, e, result) == UpdateSwap(id, "refund", e, result)

UpdateSwapRedeem(id, e, result) == UpdateSwap(id, "redeem", e, result)

\* Faulty variant: the whole row is written from a Swap that holds the refund only.
UpdateSwapRefund_WholeRow(id, e, result) ==
  \/ UpdateSwap(id, "refund", e, result) /\ result # "ok"
  \/ /\ result = "ok" /\ id \in swapRows
     /\ columns' = [columns EXCEPT ![id] =
                      [g \in Groups |-> IF g = "refund" THEN e ELSE NoEvent]]
     /\ UNCHANGED <<swapRows, orders>>

UpdateSwapRefund(id, e, result) == UpdateSwap(id, "refund", e, result)

\* INSERT INTO create_orders.
WriteCreateOrder(id, e, result) ==
  /\ \/ result = "ok" /\ orders[id] = NoEvent /\ orders' = [orders EXCEPT ![id] = e]
     \/ result = "duplicate" /\ orders[id] # NoEvent /\ UNCHANGED orders
     \/ result = "error" /\ UNCHANGED orders
     \/ result = "error" /\ orders[id] = NoEvent /\ orders' = [orders EXCEPT ![id] = e]
  /\ UNCHANGED <<swapRows, columns>>

\* SELECT FROM create_orders WHERE create_id = id: the row, or none and an error.
ReadCreateOrder(id) == {orders[id]} \ {NoEvent}

=============================================================================
