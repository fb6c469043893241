---------------------------- MODULE ReorgProofs ----------------------------
(***************************************************************************)
(* For every span, every chain and any number of reorganisations, answers  *)
(* of late nodes, failures and restarts: which events a reorganised chain  *)
(* can cost, and that it adds none.                                        *)
(***************************************************************************)
EXTENDS Reorg, SequenceTheorems, TLAPS

\* A poll in progress is above the cursor, and nothing is handled that was not asked for.
PollAbove ==
  /\ phase # "select" => currentBlock < toBlock
  /\ \A a \in handled : a[1] \in Asked

\* LossIsExplained for everything that was asked for, also for heights that the chain
\* of now does not have.
AskedIsExplained == \A h \in Asked : Handled(h) \/ h \in replaced \cup behind

IInv == TypeOK /\ PollAbove /\ OneBlockPerHeight /\ AskedIsExplained

\* What a node may know is at most as long as the longest chain.
LEMMA ViewsAreChains ==
  ASSUME TypeOK, NEW view \in Views
  PROVE  view \in Seq(0..MaxForks) /\ Len(view) <= MaxHeight
<1>1. PICK c \in {chain, old} : \E n \in 0..Len(c) : view = SubSeq(c, 1, n)
  BY DEF Views
<1>2. PICK n \in 0..Len(c) : view = SubSeq(c, 1, n)
  BY <1>1
<1>3. c \in Seq(0..MaxForks) /\ Len(c) \in Nat /\ Len(c) <= MaxHeight
  BY LenProperties DEF TypeOK
<1>4. n \in Nat /\ n <= Len(c) /\ \A i \in 1..n : c[i] \in 0..MaxForks
  <2>1. \A i \in 1..Len(c) : c[i] \in 0..MaxForks
    BY <1>3, ElementOfSeq
  <2> QED
    BY <1>3, <2>1
<1>5. view \in Seq(0..MaxForks) /\ Len(view) = IF 1 <= n THEN n - 1 + 1 ELSE 0
  BY <1>2, <1>3, <1>4, SubSeqProperties
<1>6. Len(view) <= Len(c)
  BY <1>3, <1>4, <1>5
<1> QED
  BY <1>3, <1>5, <1>6, ReorgAssumption DEF ReorgAssumption

LEMMA InitEstablishes == Init => IInv
  BY ReorgAssumption
  DEF Init, Watching, StartBlock, IInv, TypeOK, PollAbove, OneBlockPerHeight, AskedIsExplained,
    Asked, ReorgAssumption

LEMMA NewBlockPreserves == ASSUME IInv, NewBlock PROVE IInv'
<1> USE DEF IInv, TypeOK
<1>1. /\ chain' = Append(chain, forks)
      /\ UNCHANGED <<old, forks, currentBlock, toBlock, phase, lives, handled, replaced, behind>>
  BY DEF NewBlock, history
<1>2. /\ chain' \in Seq(0..MaxForks) /\ Len(chain') = Len(chain) + 1
      /\ \A h \in DOMAIN chain : h \in DOMAIN chain' /\ chain'[h] = chain[h]
  BY <1>1, AppendProperties, LenProperties
<1>3. Len(chain) < MaxHeight /\ Len(chain) \in Nat
  BY DEF NewBlock
<1>4. TypeOK'
  BY <1>1, <1>2, <1>3, ReorgAssumption DEF ReorgAssumption
<1>5. AskedIsExplained'
  BY <1>1, <1>2 DEF AskedIsExplained, Asked, Handled
<1>6. PollAbove' /\ OneBlockPerHeight'
  BY <1>1 DEF PollAbove, OneBlockPerHeight, Asked
<1> QED
  BY <1>4, <1>5, <1>6

LEMMA ReorganisePreserves ==
  ASSUME IInv, NEW h \in DOMAIN chain, NEW n \in 1..(MaxHeight - h + 1), Reorganise(h, n)
  PROVE  IInv'
<1> DEFINE S == 0..MaxForks
           kept == SubSeq(chain, 1, h - 1)
           new == [i \in 1..n |-> forks']
<1>1. /\ forks < MaxForks /\ forks' = forks + 1
      /\ chain' = kept \o new /\ old' = chain
      /\ replaced' = replaced \cup {i \in Asked : i >= h}
      /\ UNCHANGED <<currentBlock, toBlock, phase, lives, handled, behind>>
  BY DEF Reorganise
<1>2. TypeOK /\ chain \in Seq(S) /\ Len(chain) \in Nat /\ Len(chain) <= MaxHeight
  BY LenProperties DEF IInv, TypeOK
<1>3. /\ DOMAIN chain = 1..Len(chain) /\ h \in 1..Len(chain) /\ n \in Nat
      /\ \A i \in 1..Len(chain) : chain[i] \in S
  <2> HIDE DEF S
  <2>1. DOMAIN chain = 1..Len(chain)
    BY <1>2, LenProperties
  <2>2. \A i \in 1..Len(chain) : chain[i] \in S
    BY <1>2, ElementOfSeq
  <2> QED
    BY <1>2, <2>1, <2>2, ReorgAssumption DEF ReorgAssumption
<1>4. /\ kept \in Seq(S) /\ Len(kept) = h - 1
      /\ \A i \in 1..(h - 1) : kept[i] = chain[i]
  <2>1. 1 \in Int /\ h - 1 \in Int /\ \A i \in 1..(h - 1) : chain[i] \in S
    BY <1>2, <1>3
  <2> HIDE DEF S
  <2>2. /\ kept \in Seq(S)
        /\ Len(kept) = IF 1 <= h - 1 THEN (h - 1) - 1 + 1 ELSE 0
        /\ \A i \in 1..((h - 1) - 1 + 1) : kept[i] = chain[1 + i - 1]
    BY <2>1, SubSeqProperties
  <2> QED
    BY <1>2, <1>3, <2>2
<1>5. new \in Seq(S) /\ Len(new) = n
  <2>1. forks' \in S
    BY <1>1, <1>2, ReorgAssumption DEF TypeOK, ReorgAssumption
  <2> QED
    BY <1>3, <2>1
<1>6. /\ chain' \in Seq(S) /\ Len(chain') = h - 1 + n
      /\ \A i \in 1..(h - 1) : chain'[i] = chain[i]
  <2> HIDE DEF S, kept, new
  <2>1. /\ kept \o new \in Seq(S) /\ Len(kept \o new) = Len(kept) + Len(new)
        /\ \A i \in 1..(Len(kept) + Len(new)) :
             (kept \o new)[i] = IF i <= Len(kept) THEN kept[i] ELSE new[i - Len(kept)]
    BY <1>4, <1>5, ConcatProperties
  <2> QED
    BY <1>1, <1>2, <1>3, <1>4, <1>5, <2>1
<1>7. Asked \subseteq 1..MaxHeight /\ Asked' = Asked
  BY <1>1, <1>2, ReorgAssumption DEF TypeOK, Asked, ReorgAssumption
<1> HIDE DEF S, kept, new
<1>8. TypeOK'
  <2>1. Len(chain') <= MaxHeight
    BY <1>2, <1>3, <1>6, ReorgAssumption DEF ReorgAssumption
  <2>2. forks' \in 0..MaxForks
    BY <1>1, <1>2, ReorgAssumption DEF TypeOK, ReorgAssumption
  <2>3. replaced' \subseteq 1..MaxHeight
    BY <1>1, <1>2, <1>7 DEF TypeOK
  <2> QED
    BY <1>1, <1>2, <1>6, <2>1, <2>2, <2>3 DEF TypeOK, S
<1>9. AskedIsExplained'
  <2> SUFFICES ASSUME NEW i \in Asked PROVE Handled(i)' \/ i \in replaced' \cup behind'
    BY <1>7 DEF AskedIsExplained
  <2>1. i \in Int /\ 1 <= i
    BY <1>7, ReorgAssumption DEF ReorgAssumption
  <2>2. CASE i >= h
    BY <1>1, <2>2
  <2>3. CASE i < h
    <3>1. i \in 1..(h - 1) /\ DOMAIN chain' = 1..Len(chain')
      BY <1>3, <1>6, <2>1, <2>3, LenProperties
    <3>2. i \in DOMAIN chain /\ i \in DOMAIN chain' /\ chain'[i] = chain[i]
      BY <1>2, <1>3, <1>6, <3>1
    <3> QED
      BY <1>1, <3>2 DEF IInv, AskedIsExplained, Handled
  <2> QED
    BY <1>3, <2>1, <2>2, <2>3
<1>10. PollAbove' /\ OneBlockPerHeight'
  BY <1>1, <1>7 DEF IInv, PollAbove, OneBlockPerHeight
<1> QED
  BY <1>8, <1>9, <1>10 DEF IInv

LEMMA PollPreserves ==
  ASSUME IInv, NEW view \in Views,
         \/ PollFindsNothing(Len(view)) \/ PollBegins(Len(view))
         \/ FilterLogsFails \/ PollCompletes \/ Restart
  PROVE  IInv'
<1> USE ReorgAssumption DEF IInv, TypeOK, ReorgAssumption
<1>1. Len(view) \in 0..MaxHeight
  BY ViewsAreChains, LenProperties
<1>2. UNCHANGED chainVars
  BY DEF PollFindsNothing, PollBegins, FilterLogsFails, PollCompletes, Restart, vars
<1>3. CASE PollBegins(Len(view))
  <2>1. toBlock' \in 0..MaxHeight /\ currentBlock < toBlock'
    BY <1>1, <1>3 DEF PollBegins
  <2> QED
    BY <1>2, <1>3, <2>1
    DEF PollBegins, chainVars, history, PollAbove, OneBlockPerHeight, AskedIsExplained, Handled, Asked
<1>4. CASE Restart
  BY <1>2, <1>4
  DEF Restart, chainVars, StartBlock, PollAbove, OneBlockPerHeight, AskedIsExplained, Handled, Asked
<1>5. CASE PollFindsNothing(Len(view)) \/ FilterLogsFails \/ PollCompletes
  BY <1>2, <1>5
  DEF PollFindsNothing, FilterLogsFails, PollCompletes, vars, chainVars, history, PollAbove,
    OneBlockPerHeight, AskedIsExplained, Handled, Asked
<1> QED
  BY <1>3, <1>4, <1>5

\* The window lies above all that was asked for, so no height is handled twice; a block
\* of the chain of now that the node does not have goes into behind.
LEMMA FilterLogsPreserves ==
  ASSUME IInv, NEW view \in Views, FilterLogsReturns(view) PROVE IInv'
<1> USE ReorgAssumption DEF IInv, TypeOK, ReorgAssumption
<1> DEFINE window == (currentBlock + 1)..toBlock
<1>1. /\ phase = "filter" /\ phase' = "dispatch" /\ currentBlock < toBlock
      /\ handled' = handled \cup {<<h, view[h]>> : h \in window \cap DOMAIN view}
      /\ behind' = behind \cup {h \in window :
                     h \notin DOMAIN view \/ h \notin DOMAIN chain \/ view[h] # chain[h]}
      /\ UNCHANGED <<chain, old, forks, currentBlock, toBlock, lives, replaced>>
  BY DEF FilterLogsReturns, PollAbove, chainVars
<1>2. /\ DOMAIN view \subseteq 1..MaxHeight
      /\ \A h \in DOMAIN view : view[h] \in 0..MaxForks
  <2>1. view \in Seq(0..MaxForks) /\ Len(view) <= MaxHeight
    BY ViewsAreChains
  <2>2. DOMAIN view = 1..Len(view) /\ Len(view) \in Nat
    BY <2>1, LenProperties
  <2> QED
    BY <2>1, <2>2, ElementOfSeq
<1>3. TypeOK'
  <2>1. window \subseteq 1..MaxHeight
    OBVIOUS
  <2>2. handled' \subseteq (1..MaxHeight) \X (0..MaxForks)
    BY <1>1, <1>2, <2>1
  <2>3. behind' \subseteq 1..MaxHeight
    BY <1>1, <2>1
  <2> QED
    BY <1>1, <2>2, <2>3
<1>4. Asked' = Asked \cup window /\ Asked \cap window = {}
  BY <1>1 DEF Asked
<1>5. PollAbove'
  BY <1>1, <1>4 DEF PollAbove
<1>6. OneBlockPerHeight'
  <2> SUFFICES ASSUME NEW a \in handled', NEW b \in handled', a[1] = b[1] PROVE a = b
    BY DEF OneBlockPerHeight
  <2>1. a \in handled <=> b \in handled
    BY <1>1, <1>4 DEF PollAbove
  <2>2. CASE a \in handled
    BY <2>1, <2>2 DEF OneBlockPerHeight
  <2>3. CASE a \notin handled
    <3>1. PICK h \in window \cap DOMAIN view : a = <<h, view[h]>>
      BY <1>1, <2>3
    <3>2. PICK i \in window \cap DOMAIN view : b = <<i, view[i]>>
      BY <1>1, <2>1, <2>3
    <3> QED
      BY <3>1, <3>2
  <2> QED
    BY <2>2, <2>3
<1>7. AskedIsExplained'
  <2> SUFFICES ASSUME NEW h \in Asked \cup window PROVE Handled(h)' \/ h \in replaced' \cup behind'
    BY <1>4 DEF AskedIsExplained
  <2>1. CASE h \in Asked
    BY <1>1, <2>1 DEF AskedIsExplained, Handled
  <2>2. CASE h \in window
    BY <1>1, <2>2 DEF Handled
  <2> QED
    BY <2>1, <2>2
<1> QED
  BY <1>3, <1>5, <1>6, <1>7

-----------------------------------------------------------------------------
\* The inductive invariant holds in every reachable state.
THEOREM Invariance == Spec => []IInv
<1>1. IInv /\ [Next]_vars => IInv'
  <2> SUFFICES ASSUME IInv, [Next]_vars PROVE IInv'
    OBVIOUS
  <2>1. CASE NewBlock
    BY <2>1, NewBlockPreserves
  <2>2. CASE \E h \in DOMAIN chain : \E n \in 1..(MaxHeight - h + 1) : Reorganise(h, n)
    BY <2>2, ReorganisePreserves
  <2>3. CASE \E latest \in {Len(view) : view \in Views} :
               PollFindsNothing(latest) \/ PollBegins(latest)
    BY <2>3, PollPreserves
  <2>4. CASE \E view \in Views : FilterLogsReturns(view)
    BY <2>4, FilterLogsPreserves
  <2>5. CASE FilterLogsFails \/ PollCompletes \/ Restart
    <3>1. Views # {}
      BY DEF Views, IInv, TypeOK
    <3> QED
      BY <2>5, <3>1, PollPreserves
  <2>6. CASE UNCHANGED vars
    BY <2>6 DEF vars, chainVars, history, IInv, TypeOK, PollAbove, OneBlockPerHeight,
      AskedIsExplained, Handled, Asked
  <2> QED
    BY <2>1, <2>2, <2>3, <2>4, <2>5, <2>6 DEF Next
<1> QED
  BY InitEstablishes, <1>1, PTL DEF Spec

\* Cursor and window keep to the heights of the chain, however it is reorganised.
THEOREM TypeCorrect == Spec => []TypeOK
<1>1. IInv => TypeOK
  BY DEF IInv
<1> QED
  BY Invariance, <1>1, PTL

\* An event in a block that the cursor has passed is missed only when its block took
\* the place of one that was asked for, or when the node that answered did not have it.
THEOREM LossExplained == Spec => []LossIsExplained
<1>1. IInv => LossIsExplained
  BY DEF IInv, TypeOK, PollAbove, AskedIsExplained, LossIsExplained, Asked
<1> QED
  BY Invariance, <1>1, PTL

\* The events of a replaced block are never joined by those of its replacement.
THEOREM OneBlockHandled == Spec => []OneBlockPerHeight
<1>1. IInv => OneBlockPerHeight
  BY DEF IInv
<1> QED
  BY Invariance, <1>1, PTL

=============================================================================
