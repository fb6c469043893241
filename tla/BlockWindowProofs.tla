------------------------- MODULE BlockWindowProofs -------------------------
(***************************************************************************)
(* For every width, StartBlock, MaxBlockSpan and sequence of heads: the    *)
(* window of a poll is the one that Watcher computes in Nat, every block   *)
(* up to the cursor is asked for exactly once, and the cursor only moves   *)
(* forward, within the head and the span.                                  *)
(***************************************************************************)
EXTENDS BlockWindow, TLAPS

\* A number that fits is left alone by the wrap of uint64.
LEMMA NoWrap == ASSUME NEW x \in UInt64 PROVE x % Modulus = x
  BY WidthAssumption DEF UInt64, Modulus

\* The window of a poll, for a head beyond the cursor: nothing in it wraps.
LEMMA WindowInNat ==
  ASSUME NEW current \in UInt64, NEW latest \in UInt64, current < latest,
         MaxBlockSpan \in UInt64
  PROVE  /\ FromBlock(current) = current + 1
         /\ WindowEnd(current + 1, latest) = NatWindowEnd(current, latest)
         /\ NatWindowEnd(current, latest) \in (current + 1)..latest
<1>1. current + 1 \in UInt64
  BY WidthAssumption DEF UInt64, Modulus
<1>2. latest - (current + 1) \in UInt64
  BY WidthAssumption DEF UInt64, Modulus
<1>3. Minus(latest, current + 1) = latest - (current + 1)
  BY <1>2, NoWrap DEF Minus
<1>4. FromBlock(current) = current + 1
  BY <1>1, NoWrap DEF FromBlock, Plus
<1>5. CASE latest - (current + 1) > MaxBlockSpan
  <2>1. current + 1 + MaxBlockSpan \in UInt64 /\ current + 1 + MaxBlockSpan <= latest
    BY <1>5, WidthAssumption DEF UInt64, Modulus
  <2>2. Plus(current + 1, MaxBlockSpan) = current + 1 + MaxBlockSpan
    BY <2>1, NoWrap DEF Plus
  <2> QED
    BY <1>3, <1>4, <1>5, <2>1, <2>2, WidthAssumption DEF WindowEnd, NatWindowEnd, UInt64, Modulus
<1>6. CASE ~(latest - (current + 1) > MaxBlockSpan)
  BY <1>3, <1>4, <1>6, WidthAssumption DEF WindowEnd, NatWindowEnd, UInt64, Modulus
<1> QED BY <1>5, <1>6

-----------------------------------------------------------------------------
\* What a poll relies on beyond the two properties: its query is its window put
\* through int64, whatever the head was, and the cursor never falls behind StartBlock.
IInv ==
  /\ TypeOK
  /\ WindowAgrees
  /\ EachBlockOnce
  /\ polling => query = [FromBlock |-> ToInt64(fromBlock), ToBlock |-> ToInt64(toBlock)]
  /\ StartBlock <= currentBlock

LEMMA ToInt64Type == ASSUME NEW x \in UInt64 PROVE ToInt64(x) \in Int64
  BY WidthAssumption DEF UInt64, Int64, Modulus, ToInt64

LEMMA InitEstablishes == Init => IInv
<1> SUFFICES ASSUME Init PROVE IInv
  OBVIOUS
<1>1. 0 \in UInt64 /\ 0 \in Int64
  BY WidthAssumption DEF UInt64, Int64, Modulus
<1>2. TypeOK
  BY <1>1 DEF Init, TypeOK
<1>3. EachBlockOnce
  BY WidthAssumption DEF Init, EachBlockOnce, UInt64, Modulus
<1> QED
  BY <1>2, <1>3, WidthAssumption DEF Init, IInv, WindowAgrees, UInt64, Modulus

LEMMA PollBeginsPreserves ==
  ASSUME IInv, NEW latest \in UInt64, PollBegins(latest) PROVE IInv'
<1> USE DEF IInv
<1>1. /\ FromBlock(currentBlock) = currentBlock + 1
      /\ WindowEnd(currentBlock + 1, latest) = NatWindowEnd(currentBlock, latest)
      /\ NatWindowEnd(currentBlock, latest) \in (currentBlock + 1)..latest
  <2>1. /\ currentBlock \in UInt64 /\ MaxBlockSpan \in UInt64
        /\ currentBlock < latest
    BY WidthAssumption DEF TypeOK, PollBegins, UInt64, Modulus
  <2> QED BY <2>1, WindowInNat
<1>2. /\ fromBlock' = currentBlock + 1 /\ latestBlock' = latest
      /\ toBlock' = NatWindowEnd(currentBlock, latest)
      /\ fromBlock' <= toBlock' /\ toBlock' <= latest
  BY <1>1 DEF PollBegins, TypeOK, UInt64
<1>3. fromBlock' \in UInt64 /\ toBlock' \in UInt64
  BY <1>1, <1>2, WidthAssumption DEF TypeOK, UInt64, Modulus
<1>4. query' = [FromBlock |-> ToInt64(fromBlock'), ToBlock |-> ToInt64(toBlock')]
  BY DEF PollBegins
<1>5. TypeOK'
  <2>1. query' \in [FromBlock : Int64, ToBlock : Int64]
    BY <1>3, <1>4, ToInt64Type
  <2> QED
    BY <1>2, <1>3, <2>1 DEF TypeOK, PollBegins, config
<1>6. WindowAgrees'
  <2>1. latest < Half => query' = [FromBlock |-> fromBlock', ToBlock |-> toBlock']
    BY <1>2, <1>3, <1>4, WidthAssumption DEF ToInt64, UInt64, Modulus
  <2>2. NatWindowEnd(currentBlock, latest)' = NatWindowEnd(currentBlock, latest)
    BY DEF NatWindowEnd, PollBegins, config
  <2> QED
    BY <1>2, <2>1, <2>2 DEF WindowAgrees, NatWindowEnd, PollBegins, config
<1>7. EachBlockOnce'
  BY DEF EachBlockOnce, PollBegins, config
<1> QED
  BY <1>4, <1>5, <1>6, <1>7 DEF PollBegins, config, ToInt64

LEMMA PollCompletesPreserves == ASSUME IInv, PollCompletes PROVE IInv'
<1> USE DEF IInv
<1>1. /\ polling /\ ~polling'
      /\ currentBlock' = toBlock /\ toBlock \in UInt64 /\ StartBlock' = StartBlock
      /\ fromBlock = currentBlock + 1 /\ fromBlock <= toBlock
  BY DEF PollCompletes, WindowAgrees, TypeOK, config
<1>2. TypeOK'
  <2>1. served' \in [UInt64 -> Nat]
    BY DEF PollCompletes, TypeOK
  <2> QED
    BY <1>1, <2>1 DEF PollCompletes, TypeOK, config, window
<1>3. EachBlockOnce'
  <2> SUFFICES ASSUME toBlock < Half, NEW b \in UInt64
               PROVE  served'[b] = IF StartBlock < b /\ b <= toBlock THEN 1 ELSE 0
    BY <1>1 DEF EachBlockOnce
  <2>1. query.FromBlock = currentBlock + 1 /\ query.ToBlock = toBlock
    BY <1>1, WidthAssumption DEF ToInt64, TypeOK, UInt64, Modulus
  <2>2. served[b] = IF StartBlock < b /\ b <= currentBlock THEN 1 ELSE 0
    BY <1>1, WidthAssumption DEF EachBlockOnce, TypeOK, UInt64, Modulus
  <2>3. served'[b] = IF currentBlock + 1 <= b /\ b <= toBlock THEN served[b] + 1 ELSE served[b]
    BY <2>1, WidthAssumption DEF PollCompletes, TypeOK, UInt64, Modulus
  <2> QED
    BY <1>1, <2>2, <2>3, WidthAssumption DEF TypeOK, UInt64, Modulus
<1>4. StartBlock' <= currentBlock'
  BY <1>1, WidthAssumption DEF TypeOK, UInt64, Modulus
<1> QED
  BY <1>1, <1>2, <1>3, <1>4 DEF WindowAgrees

\* The remaining steps leave the cursor, the window and the history alone.
LEMMA OthersPreserve ==
  ASSUME IInv, FilterLogsFails \/ UNCHANGED vars PROVE IInv'
<1>1. CASE FilterLogsFails
  BY <1>1 DEF IInv, FilterLogsFails, TypeOK, WindowAgrees, EachBlockOnce, config, window
<1>2. CASE UNCHANGED vars
  BY <1>2 DEF IInv, vars, TypeOK, WindowAgrees, EachBlockOnce, config, window, NatWindowEnd, ToInt64
<1> QED BY <1>1, <1>2

LEMMA StepPreserves == IInv /\ [Next]_vars => IInv'
<1> SUFFICES ASSUME IInv, [Next]_vars PROVE IInv'
  OBVIOUS
<1>1. CASE \E latest \in UInt64 : PollBegins(latest)
  BY <1>1, PollBeginsPreserves
<1>2. CASE \E latest \in UInt64 : PollFindsNothing(latest)
  BY <1>2, OthersPreserve DEF PollFindsNothing
<1>3. CASE PollCompletes
  BY <1>3, PollCompletesPreserves
<1> QED
  BY <1>1, <1>2, <1>3, OthersPreserve DEF Next

LEMMA Invariance == Spec => []IInv
  BY InitEstablishes, StepPreserves, PTL DEF Spec

\* For every StartBlock, MaxBlockSpan and head that a uint64 can hold, the window of a
\* poll is Watcher's: the sums of Watcher in Nat stand for the code.
THEOREM WindowsAgree == Spec => []WindowAgrees
  BY Invariance, PTL DEF IInv

\* While the cursor is below 2^63, every block after StartBlock up to the cursor was
\* asked for successfully exactly once, and no other block was.
THEOREM BlocksServedOnce == Spec => []EachBlockOnce
  BY Invariance, PTL DEF IInv

\* The steps that leave the cursor where it is, and the one that moves it.
LEMMA StepAdvances ==
  IInv /\ [Next]_vars =>
    [currentBlock' # currentBlock =>
       /\ currentBlock < currentBlock' /\ currentBlock' <= latestBlock
       /\ currentBlock' - currentBlock <= MaxBlockSpan + 1]_vars
<1> SUFFICES ASSUME IInv, Next, currentBlock' # currentBlock
             PROVE  /\ currentBlock < currentBlock' /\ currentBlock' <= latestBlock
                    /\ currentBlock' - currentBlock <= MaxBlockSpan + 1
  BY DEF vars
<1>1. PollCompletes
  BY DEF Next, PollFindsNothing, PollBegins, FilterLogsFails, vars
<1>2. /\ currentBlock' = toBlock /\ fromBlock = currentBlock + 1
      /\ fromBlock <= toBlock /\ toBlock <= latestBlock
      /\ toBlock = NatWindowEnd(currentBlock, latestBlock)
  BY <1>1 DEF PollCompletes, IInv, WindowAgrees
<1>3. currentBlock \in Nat /\ latestBlock \in Nat /\ MaxBlockSpan \in Nat
  BY WidthAssumption DEF IInv, TypeOK, UInt64, Modulus
<1> QED
  BY <1>2, <1>3 DEF NatWindowEnd

\* For every width and every sequence of heads and failures: the cursor never falls back,
\* never passes the head that was read, and moves by at most MaxBlockSpan + 1 blocks.
THEOREM CursorOnlyAdvances == Spec => CursorAdvances
  BY Invariance, StepAdvances, PTL DEF Spec, CursorAdvances

=============================================================================
