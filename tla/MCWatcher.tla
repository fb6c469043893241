----------------------------- MODULE MCWatcher -----------------------------
(***************************************************************************)
(* Small instances of Watcher for TLC. Two contracts are watched, one with *)
(* two handled events and one with a single one, on a chain that also      *)
(* carries a log of an unwatched contract and one that passes the query's  *)
(* independent address and topic lists and has no handler.                 *)
(***************************************************************************)
EXTENDS Watcher, TLC

CONSTANTS htlc, orderbook, other,          \* contract addresses
          Initiated, Redeemed, Created     \* event topics

MCHandlers == (htlc :> {Initiated, Redeemed}) @@ (orderbook :> {Created})

\* Each log: its block, its contract and its event.
Chain == <<
  [block |-> 1, address |-> htlc,      topic |-> Redeemed],
  [block |-> 2, address |-> htlc,      topic |-> Initiated],
  [block |-> 3, address |-> orderbook, topic |-> Created],
  [block |-> 3, address |-> htlc,      topic |-> Redeemed],
  [block |-> 4, address |-> orderbook, topic |-> Initiated],
  [block |-> 4, address |-> htlc,      topic |-> Initiated],
  [block |-> 5, address |-> other,     topic |-> Created],
  [block |-> 5, address |-> orderbook, topic |-> Created] >>

MCLogs == DOMAIN Chain
MCBlock == [l \in MCLogs |-> Chain[l].block]
MCAddressOf == [l \in MCLogs |-> Chain[l].address]
MCTopicOf == [l \in MCLogs |-> Chain[l].topic]

\* The first logs only, for the liveness run.
FewLogs == 1..4
FewBlock == [l \in FewLogs |-> Chain[l].block]

WorkerSymmetry == Permutations(Workers)
=============================================================================
