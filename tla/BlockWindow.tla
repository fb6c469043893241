---------------------------- MODULE BlockWindow ----------------------------
(***************************************************************************)
(* The arithmetic of pollEvents at the width of the code: blocks are       *)
(* uint64, the numbers of a FilterQuery go through int64. Watcher counts   *)
(* in Nat; this module shows where that is the same. StartBlock and        *)
(* MaxBlockSpan are any uint64, as the configuration file may give them,   *)
(* and a node may report any head, also an older one than before.          *)
(***************************************************************************)
EXTENDS Integers

CONSTANT Half   \* 2^63: the first uint64 that int64 does not hold

ASSUME WidthAssumption == Half \in Nat \ {0}

Modulus == 2 * Half
UInt64 == 0..(Modulus - 1)
Int64 == (-Half)..(Half - 1)

VARIABLES
  StartBlock, MaxBlockSpan,   \* of the WatcherConfig, never changed
  currentBlock,
  latestBlock,                \* what BlockNumber has answered
  polling,                    \* FilterLogs is called
  fromBlock, toBlock,         \* of the latest poll
  query,                      \* FromBlock and ToBlock of its FilterQuery
  served                      \* history: how often each block's logs were returned

config == <<StartBlock, MaxBlockSpan>>
window == <<latestBlock, fromBlock, toBlock, query>>
vars == <<config, currentBlock, polling, window, served>>

\* Addition, subtraction and conversion, as the processor does them.
Plus(x, y) == (x + y) % Modulus
Minus(x, y) == (x - y) % Modulus

ToInt64(x) == IF x < Half THEN x ELSE x - Modulus

\* Faulty variant: a window starts at the cursor.
FromBlock_Repeats(current) == current

FromBlock(current) == Plus(current, 1)

\* Faulty variant: the bound is computed first and then compared.
WindowEnd_AddFirst(from, latest) ==
  IF latest > Plus(from, MaxBlockSpan) THEN Plus(from, MaxBlockSpan) ELSE latest

WindowEnd(from, latest) ==
  IF Minus(latest, from) > MaxBlockSpan THEN Plus(from, MaxBlockSpan) ELSE latest

TypeOK ==
  /\ StartBlock \in UInt64 /\ MaxBlockSpan \in UInt64
  /\ currentBlock \in UInt64 /\ latestBlock \in UInt64
  /\ fromBlock \in UInt64 /\ toBlock \in UInt64
  /\ polling \in BOOLEAN
  /\ query \in [FromBlock : Int64, ToBlock : Int64]
  /\ served \in [UInt64 -> Nat]

Init ==
  /\ StartBlock \in UInt64 /\ MaxBlockSpan \in UInt64
  /\ currentBlock = StartBlock
  /\ latestBlock = 0 /\ fromBlock = 0 /\ toBlock = 0 /\ polling = FALSE
  /\ query = [FromBlock |-> 0, ToBlock |-> 0]
  /\ served = [b \in UInt64 |-> 0]

\* Faulty variant: the cursor follows a head that has gone back.
PollFindsNothing_Follows(latest) ==
  /\ ~polling /\ latest <= currentBlock /\ currentBlock' = latest
  /\ UNCHANGED <<config, polling, window, served>>

PollFindsNothing(latest) == ~polling /\ latest <= currentBlock /\ UNCHANGED vars

\* A poll up to the call of FilterLogs.
PollBegins(latest) ==
  /\ ~polling /\ latest > currentBlock
  /\ polling' = TRUE
  /\ latestBlock' = latest
  /\ fromBlock' = FromBlock(currentBlock)
  /\ toBlock' = WindowEnd(fromBlock', latest)
  /\ query' = [FromBlock |-> ToInt64(fromBlock'), ToBlock |-> ToInt64(toBlock')]
  /\ UNCHANGED <<config, currentBlock, served>>

FilterLogsFails ==
  /\ polling /\ polling' = FALSE
  /\ UNCHANGED <<config, currentBlock, window, served>>

\* The logs of the blocks that the query names, each once; a negative number is a tag
\* or nonsense to the node, and if it answers at all, then with logs of other blocks.
PollCompletes ==
  /\ polling /\ polling' = FALSE
  /\ currentBlock' = toBlock
  /\ served' = [b \in UInt64 |->
                  IF query.FromBlock >= 0 /\ query.FromBlock <= b /\ b <= query.ToBlock
                  THEN served[b] + 1 ELSE served[b]]
  /\ UNCHANGED <<config, window>>

Next ==
  \/ \E latest \in UInt64 : PollFindsNothing(latest) \/ PollBegins(latest)
  \/ FilterLogsFails \/ PollCompletes

Spec == Init /\ [][Next]_vars

-----------------------------------------------------------------------------
\* Watcher's window, with sums in Nat that nothing wraps.
NatWindowEnd(current, latest) ==
  IF latest - (current + 1) > MaxBlockSpan THEN current + 1 + MaxBlockSpan ELSE latest

\* Whatever StartBlock, MaxBlockSpan and the head are, the window of a poll is the one
\* that Watcher computes in Nat: pollEvents subtracts before it adds, and nothing wraps.
\* The query names these blocks as long as the head is below 2^63.
WindowAgrees ==
  polling =>
    /\ fromBlock = currentBlock + 1
    /\ toBlock = NatWindowEnd(currentBlock, latestBlock)
    /\ fromBlock <= toBlock /\ toBlock <= latestBlock
    /\ latestBlock < Half => query = [FromBlock |-> fromBlock, ToBlock |-> toBlock]

\* As long as the cursor is below 2^63, the logs of every block after StartBlock up to
\* the cursor were returned exactly once, and of no other block.
EachBlockOnce ==
  currentBlock < Half =>
    \A b \in UInt64 : served[b] = IF StartBlock < b /\ b <= currentBlock THEN 1 ELSE 0

\* A poll takes the cursor forward or not at all, never beyond the head that it asked
\* for and never by more than MaxBlockSpan + 1 blocks: also where the sums come near the
\* width, where the head has gone back, and where an absent maxBlockSpan is 0.
CursorAdvances ==
  [][currentBlock' # currentBlock =>
       /\ currentBlock < currentBlock' /\ currentBlock' <= latestBlock
       /\ currentBlock' - currentBlock <= MaxBlockSpan + 1]_vars

=============================================================================
