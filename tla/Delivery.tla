------------------------------ MODULE Delivery ------------------------------
(***************************************************************************)
(* What a Watcher promises to the handlers of its events, without blocks,  *)
(* polls, channels or goroutines: every log of interest is considered      *)
(* once, in chain order; it is accepted while fewer than Capacity logs     *)
(* wait and lost when Capacity logs wait; the logs accepted are begun in   *)
(* chain order, at most Concurrency at a time, and end in any order.       *)
(***************************************************************************)
EXTENDS Integers, FiniteSets

CONSTANTS
  Logs,          \* the logs to deliver, ordered by <
  Capacity,      \* how many logs may wait
  Concurrency    \* how many logs may be handled at a time

VARIABLE stage   \* how far each log has come

At(s) == {l \in Logs : stage[l] = s}

Init == stage = [l \in Logs |-> "ahead"]

Move(l, from, to) ==
  /\ stage[l] = from
  /\ stage' = [stage EXCEPT ![l] = to]

\* Every log before l has been considered.
Due(l) == \A m \in Logs : m < l => stage[m] # "ahead"

Accept(l) ==
  /\ Due(l)
  /\ Cardinality(At("queued")) < Capacity
  /\ Move(l, "ahead", "queued")

Drop(l) ==
  /\ Due(l)
  /\ Cardinality(At("queued")) = Capacity
  /\ Move(l, "ahead", "dropped")

Begin(l) ==
  /\ \A m \in At("queued") : l <= m
  /\ Cardinality(At("active")) < Concurrency
  /\ Move(l, "queued", "active")

End(l) == Move(l, "active", "done")

Next == \E l \in Logs : Accept(l) \/ Drop(l) \/ Begin(l) \/ End(l)

Spec == Init /\ [][Next]_stage

\* No log is considered before the logs that precede it.
InOrder == \A l, m \in Logs : l < m /\ stage[m] # "ahead" => stage[l] # "ahead"

\* The logs before l that were accepted, whatever became of them.
AcceptedBefore(l) == {m \in Logs : m < l /\ stage[m] \in {"queued", "active", "done"}}

\* Enough logs were accepted before l to fill the queue.
Backlogged(l) == Cardinality(AcceptedBefore(l)) >= Capacity
=============================================================================
