-------------------------- MODULE LifecycleProofs --------------------------
(***************************************************************************)
(* For any callers, in whatever order they start and stop the watcher, any *)
(* number of loops and workers and a chain of any length: polls stay       *)
(* apart, pass over nothing, and a Stop outlives the loops that it told.   *)
(***************************************************************************)
EXTENDS Lifecycle, SequenceTheorems, FiniteSetTheorems, TLAPS

Places == {"off", "top", "select", "lock", "filter", "dispatch", "closing", "returned"}

Types ==
  /\ calls \in [Callers -> Seq({"Start", "Stop"})]
  /\ pc \in [Callers -> {"idle", "close", "wait", "clear"}]
  /\ told \in [Callers -> SUBSET Loops]
  /\ loop \in [Loops -> Places]
  /\ window \in [Loops -> 0..MaxBlock]
  /\ currentBlock \in 0..MaxBlock
  /\ polled \in [1..MaxBlock -> Nat]

\* Who has called Start does not call it again; who is in Stop has called it.
StartsOnce ==
  \A c \in Callers :
    /\ pc[c] # "idle" => calls[c] # <<>>
    /\ \A i, j \in 1..Len(calls[c]) : calls[c][i] = "Start" /\ calls[c][j] = "Start" => i = j
    /\ loop[c] # "off" => \A i \in 1..Len(calls[c]) : calls[c][i] # "Start"

\* The wait group counts the loops, and a loop that a Stop has seen was started.
Counted ==
  /\ watcherWg = Cardinality(Running)
  /\ \A c \in Callers : told[c] \subseteq Started
  /\ StopOutlivesLoops

\* One loop polls at a time, for a block after the cursor.
PollsApart ==
  /\ \A r, s \in Polling : r = s
  /\ \A r \in Polling : currentBlock < window[r]

\* A block that is still to be dispatched has a Start that has not dispatched it yet.
\* After the cancellation nothing is dispatched any more.
Fresh ==
  /\ OncePerStart
  /\ ~ctxDone =>
       /\ \A r \in Loops : loop[r] = "filter" => polled[window[r]] < Cardinality(Started)
       /\ \A b \in 1..MaxBlock :
            b > currentBlock /\ (\A r \in Loops : loop[r] = "dispatch" => window[r] # b) =>
              Started = {} \/ polled[b] < Cardinality(Started)

\* What lies before the cursor, and before the block of a poll, was dispatched.
Gapless ==
  /\ NoBlockSkipped
  /\ \A r \in Polling : \A b \in 1..(window[r] - 1) : polled[b] > 0
  /\ \A r \in Loops : loop[r] = "dispatch" => polled[window[r]] > 0

IInv == Types /\ StartsOnce /\ Counted /\ PollsApart /\ Fresh /\ Gapless

LEMMA LoopsFinite ==
  \A S : S \subseteq Loops => IsFiniteSet(S) /\ Cardinality(S) \in Nat /\ (Cardinality(S) = 0 <=> S = {})
  BY LifecycleAssumption, FS_Subset, FS_CardinalityType, FS_EmptySet DEF LifecycleAssumption, Loops

-----------------------------------------------------------------------------
LEMMA InitEstablishes == Init => IInv
<1> SUFFICES ASSUME Init PROVE IInv
  OBVIOUS
<1>1. program \in [Callers -> Seq({"Start", "Stop"})] /\ calls = program /\ MaxBlock \in Nat
  BY LifecycleAssumption DEF Init, LifecycleAssumption
<1>2. Types
  BY <1>1 DEF Init, Types, Places, Loops
<1>3. StartsOnce
  <2> SUFFICES ASSUME NEW c \in Callers
               PROVE  \A i, j \in 1..Len(calls[c]) :
                        calls[c][i] = "Start" /\ calls[c][j] = "Start" => i = j
    BY DEF Init, StartsOnce, Loops
  <2>1. DOMAIN calls[c] = 1..Len(calls[c])
    BY <1>1, LenProperties
  <2> QED
    BY <1>1, <2>1, LifecycleAssumption DEF Init, LifecycleAssumption
<1>4. Running = {} /\ Started = {} /\ Polling = {}
  BY DEF Init, Running, Started, Polling
<1>5. Counted
  BY <1>4, LoopsFinite DEF Init, Counted, StopOutlivesLoops
<1>6. PollsApart /\ Gapless
  BY <1>4 DEF Init, PollsApart, Gapless, NoBlockSkipped
<1>7. Fresh
  BY <1>4, LoopsFinite DEF Init, Fresh, OncePerStart
<1> QED
  BY <1>2, <1>3, <1>5, <1>6, <1>7 DEF IInv

\* A call that returns takes itself off the list.
LEMMA ReturnShortens ==
  ASSUME Types, StartsOnce, NEW c \in Callers, Returns(c), calls[c] # <<>>
  PROVE  /\ calls' \in [Callers -> Seq({"Start", "Stop"})]
         /\ pc' \in [Callers -> {"idle", "close", "wait", "clear"}]
         /\ \A d \in Callers :
              /\ pc'[d] # "idle" => calls'[d] # <<>>
              /\ \A i, j \in 1..Len(calls'[d]) :
                   calls'[d][i] = "Start" /\ calls'[d][j] = "Start" => i = j
              /\ (\A i \in 1..Len(calls[d]) : calls[d][i] # "Start") =>
                   \A i \in 1..Len(calls'[d]) : calls'[d][i] # "Start"
         /\ Head(calls[c]) = "Start" => \A i \in 1..Len(calls'[c]) : calls'[c][i] # "Start"
<1> DEFINE rest == Tail(calls[c])
<1>1. /\ calls[c] \in Seq({"Start", "Stop"}) /\ Len(calls[c]) \in Nat /\ Len(calls[c]) > 0
      /\ rest \in Seq({"Start", "Stop"}) /\ Len(rest) = Len(calls[c]) - 1
      /\ \A i \in 1..Len(rest) : rest[i] = calls[c][i + 1]
      /\ Head(calls[c]) = calls[c][1]
  BY HeadTailProperties, LenProperties, EmptySeq DEF Types
<1>2. \A d \in Callers : calls'[d] = IF d = c THEN rest ELSE calls[d]
  BY DEF Returns, Types
<1>3. /\ calls' \in [Callers -> Seq({"Start", "Stop"})]
      /\ pc' = [pc EXCEPT ![c] = "idle"]
  BY <1>1 DEF Returns, Types
<1> HIDE DEF rest
<1>4. \A i \in 1..Len(rest) : i + 1 \in 1..Len(calls[c]) /\ i + 1 # 1 /\ 1 \in 1..Len(calls[c])
  BY <1>1
<1>5. /\ \A i, j \in 1..Len(rest) : rest[i] = "Start" /\ rest[j] = "Start" => i = j
      /\ calls[c][1] = "Start" => \A i \in 1..Len(rest) : rest[i] # "Start"
      /\ (\A i \in 1..Len(calls[c]) : calls[c][i] # "Start") =>
           \A i \in 1..Len(rest) : rest[i] # "Start"
  <2>1. \A i, j \in 1..Len(calls[c]) : calls[c][i] = "Start" /\ calls[c][j] = "Start" => i = j
    BY DEF StartsOnce
  <2>2. ASSUME NEW i \in 1..Len(rest), NEW j \in 1..Len(rest), rest[i] = "Start", rest[j] = "Start"
        PROVE  i = j
    <3>1. i + 1 = j + 1
      BY <1>1, <1>4, <2>1, <2>2
    <3> QED
      BY <1>1, <3>1
  <2>3. ASSUME calls[c][1] = "Start", NEW i \in 1..Len(rest) PROVE rest[i] # "Start"
    BY <1>1, <1>4, <2>1, <2>3
  <2> QED
    BY <1>1, <1>4, <2>2, <2>3
<1>6. \A d \in Callers : pc'[d] # "idle" => calls'[d] # <<>>
  BY <1>2, <1>3 DEF Types, StartsOnce
<1>7. ASSUME NEW d \in Callers
      PROVE  /\ \A i, j \in 1..Len(calls'[d]) :
                  calls'[d][i] = "Start" /\ calls'[d][j] = "Start" => i = j
             /\ (\A i \in 1..Len(calls[d]) : calls[d][i] # "Start") =>
                  \A i \in 1..Len(calls'[d]) : calls'[d][i] # "Start"
  <2>1. CASE d = c
    BY <1>2, <1>5, <2>1
  <2>2. CASE d # c
    BY <1>2, <2>2 DEF StartsOnce
  <2> QED
    BY <2>1, <2>2
<1>8. pc' \in [Callers -> {"idle", "close", "wait", "clear"}]
  BY <1>3 DEF Types
<1>9. Head(calls[c]) = "Start" => \A i \in 1..Len(calls'[c]) : calls'[c][i] # "Start"
  BY <1>1, <1>2, <1>5
<1> QED
  BY <1>3, <1>6, <1>7, <1>8, <1>9

\* A caller's step within Stop.
LEMMA StopPreserves == ASSUME IInv, NEW c \in Callers, Stop(c) PROVE IInv'
<1>1. UNCHANGED <<loop, window, watcherWg, currentBlock, polled, ctxDone>>
  BY DEF Stop, StopRefused, StopCalled, StopCloses, StopWaits, StopClears, Panic, loopVars, pollVars
<1>2. Running' = Running /\ Started' = Started /\ Polling' = Polling
  BY <1>1 DEF Running, Started, Polling
<1>3. Types' /\ StartsOnce'
  <2>1. CASE StopRefused(c) \/ StopClears(c)
    <3>1. Returns(c) /\ calls[c] # <<>> /\ told' = told
      BY <2>1 DEF StopRefused, StopClears, Calls, IInv, StartsOnce
    <3>2. Types'
      BY <1>1, <3>1, ReturnShortens DEF IInv, Types
    <3> QED
      BY <1>1, <3>1, <3>2, ReturnShortens DEF IInv, StartsOnce
  <2>2. CASE StopCalled(c) \/ StopCloses(c) \/ StopWaits(c)
    <3>1. /\ calls' = calls
          /\ told' = told \/ told' = [told EXCEPT ![c] = Running]
          /\ pc' = pc \/ \E p \in {"close", "wait", "clear"} : pc' = [pc EXCEPT ![c] = p]
      BY <2>2 DEF StopCalled, StopCloses, StopWaits, Panic, callerVars
    <3>2. Types'
      BY <1>1, <3>1 DEF IInv, Types, Running
    <3>3. calls[c] # <<>>
      BY <2>2 DEF StopCalled, StopCloses, StopWaits, Calls, IInv, StartsOnce
    <3> QED
      BY <1>1, <3>1, <3>2, <3>3 DEF IInv, StartsOnce, Types
  <2> QED
    BY <2>1, <2>2 DEF Stop
<1>4. Counted'
  <2>1. \A d \in Callers : told'[d] \subseteq Started
    BY DEF Stop, StopRefused, StopCalled, StopCloses, StopWaits, StopClears, Panic, callerVars,
      IInv, Counted, Types, Running, Started
  <2>2. ASSUME NEW d \in Callers, pc'[d] = "clear" PROVE told'[d] \cap Running = {}
    <3>1. CASE pc[d] = "clear"
      <4>1. told'[d] = told[d]
        BY <3>1 DEF Stop, StopRefused, StopCalled, StopCloses, StopWaits, StopClears, Panic,
          callerVars, Calls, IInv, Types
      <4> QED
        BY <3>1, <4>1 DEF IInv, Counted, StopOutlivesLoops
    <3>2. CASE pc[d] # "clear"
      <4>1. watcherWg = 0
        BY <2>2, <3>2 DEF Stop, StopRefused, StopCalled, StopCloses, StopWaits, StopClears, Panic,
          callerVars, Returns, IInv, Types
      <4>2. Running = {}
        BY <4>1, LoopsFinite DEF IInv, Counted, Running
      <4> QED
        BY <4>2
    <3> QED
      BY <3>1, <3>2
  <2> QED
    BY <1>1, <1>2, <2>1, <2>2 DEF IInv, Counted, StopOutlivesLoops
<1>5. PollsApart' /\ Fresh' /\ Gapless'
  BY <1>1, <1>2 DEF IInv, PollsApart, Fresh, Gapless, OncePerStart, NoBlockSkipped
<1> QED
  BY <1>3, <1>4, <1>5 DEF IInv

\* One more loop, and the cursor goes back.
LEMMA StartPreserves == ASSUME IInv, NEW c \in Callers, Start(c) PROVE IInv'
<1>1. /\ calls[c] # <<>> /\ Head(calls[c]) = "Start" /\ Returns(c)
      /\ currentBlock' = 0 /\ watcherWg' = watcherWg + 1
      /\ loop' = [loop EXCEPT ![c] = "top"]
      /\ UNCHANGED <<told, window, polled, ctxDone>>
  BY DEF Start, Calls, StartBlock
<1>2. loop[c] = "off"
  <2>1. 1 \in 1..Len(calls[c]) /\ calls[c][1] = "Start"
    BY <1>1, HeadTailProperties, EmptySeq, LenProperties DEF IInv, Types
  <2> QED
    BY <2>1 DEF IInv, StartsOnce
<1>3. /\ loop' \in [Loops -> Places]
      /\ \A r \in Loops : loop'[r] = IF r = c THEN "top" ELSE loop[r]
  BY <1>1 DEF IInv, Types, Places, Loops
<1>4. /\ Running' = Running \cup {c} /\ c \notin Running
      /\ Started' = Started \cup {c} /\ c \notin Started
      /\ Polling' = Polling
  BY <1>2, <1>3 DEF Running, Started, Polling, Loops
<1>5. /\ Cardinality(Running') = Cardinality(Running) + 1
      /\ Cardinality(Started') = Cardinality(Started) + 1
      /\ Cardinality(Started) \in Nat
  BY <1>4, LoopsFinite, FS_AddElement DEF Running, Started
<1>6. MaxBlock \in Nat
  BY LifecycleAssumption DEF LifecycleAssumption
<1>7. Types'
  BY <1>1, <1>3, <1>6, ReturnShortens DEF IInv, Types
<1>8. StartsOnce'
  BY <1>1, <1>3, ReturnShortens DEF IInv, StartsOnce, Loops
<1>9. Counted'
  <2>1. \A d \in Callers : pc'[d] = "clear" => pc[d] = "clear"
    BY <1>1 DEF Returns, IInv, Types
  <2> QED
    BY <1>1, <1>4, <1>5, <2>1 DEF IInv, Counted, StopOutlivesLoops
<1>10. PollsApart'
  BY <1>1, <1>4, <1>6 DEF IInv, PollsApart, Types, Polling
<1>11. Fresh'
  <2>1. \A b \in 1..MaxBlock : polled'[b] < Cardinality(Started')
    BY <1>1, <1>5 DEF IInv, Fresh, OncePerStart, Types
  <2>2. \A r \in Loops : loop'[r] = "filter" => window'[r] \in 1..MaxBlock
    <3> SUFFICES ASSUME NEW r \in Loops, loop'[r] = "filter" PROVE window[r] \in 1..MaxBlock
      BY <1>1
    <3>1. r \in Polling
      BY <1>3 DEF Polling
    <3> QED
      BY <3>1, <1>6 DEF IInv, PollsApart, Types
  <2>3. OncePerStart'
    BY <1>1, <1>5, <2>1 DEF OncePerStart, IInv, Types
  <2> QED
    BY <2>1, <2>2, <2>3 DEF Fresh
<1>12. Gapless'
  BY <1>1, <1>3, <1>4 DEF IInv, Gapless, NoBlockSkipped
<1> QED
  BY <1>7, <1>8, <1>9, <1>10, <1>11, <1>12 DEF IInv

-----------------------------------------------------------------------------
\* What a loop's step from one place to another does to the sets of loops.
LEMMA LoopMoves ==
  ASSUME IInv, NEW r \in Loops, NEW from \in Places \ {"off", "returned"},
         NEW to \in Places \ {"off"}, Goes(r, from, to),
         UNCHANGED <<calls, pc, told>>,
         watcherWg' = IF to = "returned" THEN watcherWg - 1 ELSE watcherWg
  PROVE  /\ loop' \in [Loops -> Places]
         /\ \A s \in Loops : loop'[s] = IF s = r THEN to ELSE loop[s]
         /\ loop[r] = from
         /\ Started' = Started
         /\ StartsOnce' /\ Counted'
<1>1. /\ loop' \in [Loops -> Places] /\ loop[r] = from
      /\ \A s \in Loops : loop'[s] = IF s = r THEN to ELSE loop[s]
  BY DEF Goes, IInv, Types
<1>2. /\ Started' = Started /\ r \in Running
      /\ Running' = IF to = "returned" THEN Running \ {r} ELSE Running
  BY <1>1 DEF Started, Running
<1>3. watcherWg' = Cardinality(Running')
  <2>1. IsFiniteSet(Running) /\ watcherWg = Cardinality(Running)
    BY LoopsFinite DEF IInv, Counted, Running
  <2>2. Cardinality(Running \ {r}) = Cardinality(Running) - 1
    BY <1>2, <2>1, FS_RemoveElement
  <2> QED
    BY <1>2, <2>1, <2>2
<1>4. StartsOnce'
  BY <1>1 DEF IInv, StartsOnce, Loops
<1>5. Counted'
  BY <1>2, <1>3 DEF IInv, Counted, StopOutlivesLoops
<1> QED
  BY <1>1, <1>2, <1>4, <1>5

\* A step that begins no poll, dispatches nothing, and leaves the cursor.
LEMMA QuietMove ==
  ASSUME IInv, NEW r \in Loops, NEW from \in Places \ {"off", "returned"},
         NEW to \in Places \ {"off", "filter", "dispatch"}, Goes(r, from, to),
         from = "dispatch" => ctxDone,
         UNCHANGED <<calls, pc, told, window, currentBlock, polled, ctxDone>>,
         watcherWg' = IF to = "returned" THEN watcherWg - 1 ELSE watcherWg
  PROVE  IInv'
<1>1. /\ loop' \in [Loops -> Places]
      /\ \A s \in Loops : loop'[s] = IF s = r THEN to ELSE loop[s]
      /\ loop[r] = from
      /\ Started' = Started
      /\ StartsOnce' /\ Counted'
  BY LoopMoves
<1>2. Types'
  BY <1>1 DEF IInv, Types
<1>3. Polling' \subseteq Polling
  BY <1>1 DEF Polling
<1>4. PollsApart'
  BY <1>3 DEF IInv, PollsApart
<1>5. Fresh'
  BY <1>1 DEF IInv, Fresh, OncePerStart
<1>6. Gapless'
  BY <1>1, <1>3 DEF IInv, Gapless, NoBlockSkipped
<1> QED
  BY <1>1, <1>2, <1>4, <1>5, <1>6 DEF IInv

\* A poll that begins asks for the block after the cursor, which the latest Start has
\* not dispatched.
LEMMA BeginPreserves == ASSUME IInv, NEW r \in Loops, PollBegins(r) PROVE IInv'
<1>1. /\ Polling = {} /\ currentBlock < MaxBlock /\ Goes(r, "lock", "filter")
      /\ window' = [window EXCEPT ![r] = currentBlock + 1]
      /\ UNCHANGED <<calls, pc, told, watcherWg, currentBlock, polled, ctxDone>>
  BY DEF PollBegins, outside, callerVars, pollVars
<1>2. /\ loop' \in [Loops -> Places]
      /\ \A s \in Loops : loop'[s] = IF s = r THEN "filter" ELSE loop[s]
      /\ loop[r] = "lock"
      /\ Started' = Started
      /\ StartsOnce' /\ Counted'
  <2>1. "lock" \in Places \ {"off", "returned"} /\ "filter" \in Places \ {"off"}
    BY DEF Places
  <2> QED
    BY <1>1, <2>1, LoopMoves
<1>3. currentBlock + 1 \in 1..MaxBlock /\ window'[r] = currentBlock + 1
  BY <1>1, LifecycleAssumption DEF IInv, Types, LifecycleAssumption
<1>4. Types'
  <2>1. window' \in [Loops -> 0..MaxBlock]
    BY <1>1, <1>3 DEF IInv, Types
  <2> QED
    BY <1>1, <1>2, <2>1 DEF IInv, Types
<1>5. Polling' = {r} /\ \A s \in Loops : loop[s] # "dispatch" /\ loop'[s] # "dispatch"
  BY <1>1, <1>2 DEF Polling
<1>6. PollsApart'
  BY <1>1, <1>3, <1>5 DEF PollsApart, IInv, Types
<1>7. Fresh'
  <2>1. Started # {} /\ Cardinality(Started) \in Nat
    BY <1>2, LoopsFinite DEF Started
  <2>2. ~ctxDone => polled[currentBlock + 1] < Cardinality(Started)
    BY <1>3, <1>5, <2>1 DEF IInv, Fresh, Types
  <2>3. \A s \in Loops : loop'[s] = "filter" => s = r
    BY <1>5 DEF Polling
  <2>4. OncePerStart'
    BY <1>1, <1>2 DEF IInv, Fresh, OncePerStart
  <2> QED
    BY <1>1, <1>2, <1>3, <1>5, <2>2, <2>3, <2>4 DEF IInv, Fresh
<1>8. Gapless'
  <2>1. \A b \in 1..currentBlock : polled[b] > 0
    BY DEF IInv, Gapless, NoBlockSkipped
  <2>2. window'[r] - 1 = currentBlock
    BY <1>3 DEF IInv, Types
  <2> QED
    BY <1>1, <1>5, <2>1, <2>2 DEF Gapless, NoBlockSkipped
<1> QED
  BY <1>2, <1>4, <1>6, <1>7, <1>8 DEF IInv

LEMMA DispatchPreserves == ASSUME IInv, NEW r \in Loops, PollDispatches(r) PROVE IInv'
<1> DEFINE w == window[r]
<1>1. /\ ~ctxDone /\ Goes(r, "filter", "dispatch")
      /\ polled' = [polled EXCEPT ![w] = @ + 1]
      /\ UNCHANGED <<calls, pc, told, watcherWg, window, currentBlock, ctxDone>>
  BY DEF PollDispatches, outside, callerVars
<1>2. /\ loop' \in [Loops -> Places]
      /\ \A s \in Loops : loop'[s] = IF s = r THEN "dispatch" ELSE loop[s]
      /\ loop[r] = "filter"
      /\ Started' = Started
      /\ StartsOnce' /\ Counted'
  <2>1. "filter" \in Places \ {"off", "returned"} /\ "dispatch" \in Places \ {"off"}
    BY DEF Places
  <2> QED
    BY <1>1, <2>1, LoopMoves
<1>3. Polling' = Polling /\ Polling = {r} /\ currentBlock < w
  BY <1>2 DEF IInv, PollsApart, Polling
<1>4. w \in 1..MaxBlock /\ currentBlock \in Nat
  BY <1>3, LifecycleAssumption DEF IInv, Types, LifecycleAssumption
<1>5. /\ polled' \in [1..MaxBlock -> Nat]
      /\ \A b \in 1..MaxBlock : polled'[b] = IF b = w THEN polled[w] + 1 ELSE polled[b]
  BY <1>1, <1>4 DEF IInv, Types
<1> HIDE DEF w
<1>6. Types' /\ PollsApart'
  BY <1>1, <1>2, <1>3, <1>5 DEF IInv, Types, PollsApart
<1>7. Fresh'
  <2>1. polled[w] < Cardinality(Started) /\ Cardinality(Started) \in Nat /\ polled[w] \in Nat
    BY <1>1, <1>2, <1>4, LoopsFinite DEF IInv, Fresh, w, Started, Types
  <2>2. OncePerStart'
    BY <1>2, <1>5, <2>1 DEF IInv, Fresh, OncePerStart
  <2>3. \A s \in Loops : loop'[s] # "filter"
    BY <1>2, <1>3 DEF Polling
  <2>4. ASSUME NEW b \in 1..MaxBlock, b > currentBlock,
               \A s \in Loops : loop'[s] = "dispatch" => window[s] # b
        PROVE  polled'[b] < Cardinality(Started)
    <3>1. b # w
      BY <1>2, <2>4 DEF w
    <3>2. \A s \in Loops : loop[s] # "dispatch"
      BY <1>2, <1>3 DEF Polling
    <3>3. Started # {}
      BY <1>2 DEF Started
    <3> QED
      BY <1>1, <1>5, <2>4, <3>1, <3>2, <3>3 DEF IInv, Fresh
  <2> QED
    BY <1>1, <1>2, <2>2, <2>3, <2>4 DEF Fresh
<1>8. Gapless'
  <2>1. \A b \in 1..MaxBlock : polled[b] > 0 => polled'[b] > 0
    <3>1. \A b \in 1..MaxBlock : polled[b] \in Nat
      BY DEF IInv, Types
    <3> QED
      BY <1>4, <1>5, <3>1
  <2>2. polled'[w] > 0
    BY <1>4, <1>5 DEF IInv, Types
  <2>3. \A b \in 1..(w - 1) : b \in 1..MaxBlock /\ polled[b] > 0
    <3>1. \A b \in 1..(w - 1) : polled[b] > 0
      BY <1>3 DEF IInv, Gapless, w
    <3>2. \A b \in 1..(w - 1) : b \in 1..MaxBlock
      BY <1>4, LifecycleAssumption DEF LifecycleAssumption
    <3> QED
      BY <3>1, <3>2
  <2>4. \A b \in 1..currentBlock : b \in 1..(w - 1)
    BY <1>3, <1>4, LifecycleAssumption DEF LifecycleAssumption
  <2>5. \A s \in Loops : loop'[s] = "dispatch" => s = r
    BY <1>3 DEF Polling
  <2> QED
    BY <1>1, <1>3, <2>1, <2>2, <2>3, <2>4, <2>5 DEF Gapless, NoBlockSkipped, w
<1> QED
  BY <1>2, <1>6, <1>7, <1>8 DEF IInv

LEMMA CompletePreserves == ASSUME IInv, NEW r \in Loops, PollCompletes(r) PROVE IInv'
<1> DEFINE w == window[r]
<1>1. /\ Goes(r, "dispatch", "top") /\ currentBlock' = w
      /\ UNCHANGED <<calls, pc, told, watcherWg, window, polled, ctxDone>>
  BY DEF PollCompletes, outside, callerVars
<1>2. /\ loop' \in [Loops -> Places]
      /\ \A s \in Loops : loop'[s] = IF s = r THEN "top" ELSE loop[s]
      /\ loop[r] = "dispatch"
      /\ Started' = Started
      /\ StartsOnce' /\ Counted'
  <2>1. "dispatch" \in Places \ {"off", "returned"} /\ "top" \in Places \ {"off"}
    BY DEF Places
  <2> QED
    BY <1>1, <2>1, LoopMoves
<1>3. Polling' = {} /\ Polling = {r} /\ currentBlock < w
  BY <1>2 DEF IInv, PollsApart, Polling
<1>4. w \in 1..MaxBlock /\ currentBlock \in Nat
  BY <1>3, LifecycleAssumption DEF IInv, Types, LifecycleAssumption
<1>5. Types'
  BY <1>1, <1>2, <1>4 DEF IInv, Types
<1>6. PollsApart'
  BY <1>3 DEF PollsApart
<1>7. Fresh'
  <2>1. OncePerStart'
    BY <1>1, <1>2 DEF IInv, Fresh, OncePerStart
  <2>2. \A s \in Loops : loop'[s] \notin {"filter", "dispatch"}
    BY <1>3 DEF Polling
  <2>3. ASSUME ~ctxDone, NEW b \in 1..MaxBlock, b > w
        PROVE  Started = {} \/ polled[b] < Cardinality(Started)
    <3>1. b > currentBlock /\ b # w
      BY <1>3, <1>4, <2>3
    <3>2. \A s \in Loops : loop[s] = "dispatch" => window[s] # b
      BY <1>3, <3>1 DEF Polling
    <3> QED
      BY <2>3, <3>1, <3>2 DEF IInv, Fresh
  <2> QED
    BY <1>1, <1>2, <2>1, <2>2, <2>3 DEF Fresh
<1>8. Gapless'
  <2>1. \A b \in 1..w : polled[b] > 0
    <3>1. \A b \in 1..(w - 1) : polled[b] > 0
      BY <1>3 DEF IInv, Gapless
    <3>2. polled[w] > 0
      BY <1>2 DEF IInv, Gapless
    <3> QED
      BY <1>4, <3>1, <3>2
  <2>2. \A s \in Loops : loop'[s] # "dispatch"
    BY <1>3 DEF Polling
  <2> QED
    BY <1>1, <1>3, <2>1, <2>2 DEF Gapless, NoBlockSkipped
<1> QED
  BY <1>2, <1>5, <1>6, <1>7, <1>8 DEF IInv

\* The context, the workers, the end of the process, and a process at rest.
LEMMA OutsidePreserves ==
  ASSUME IInv, Cancel \/ WorkerExits \/ Panic \/ AtRest \/ UNCHANGED vars PROVE IInv'
<1>1. /\ UNCHANGED <<calls, pc, told, loop, window, watcherWg, currentBlock, polled>>
      /\ ctxDone' = ctxDone \/ ctxDone'
  BY DEF Cancel, WorkerExits, Panic, AtRest, vars, outside, callerVars, loopVars, pollVars
<1>2. Running' = Running /\ Started' = Started /\ Polling' = Polling
  BY <1>1 DEF Running, Started, Polling
<1>3. Types' /\ StartsOnce' /\ Counted' /\ PollsApart' /\ Gapless'
  BY <1>1, <1>2 DEF IInv, Types, StartsOnce, Counted, StopOutlivesLoops, PollsApart, Gapless,
    NoBlockSkipped
<1>4. Fresh'
  BY <1>1, <1>2 DEF IInv, Fresh, OncePerStart
<1> QED
  BY <1>3, <1>4 DEF IInv

LEMMA LoopPreserves == ASSUME IInv, NEW r \in Loops, Loop(r) PROVE IInv'
<1> USE DEF Places, outside, callerVars, poolVars, pollVars
<1>1. CASE LoopSelects(r)
  BY <1>1, QuietMove DEF LoopSelects
<1>2. CASE LoopTicks(r)
  BY <1>2, QuietMove DEF LoopTicks
<1>3. CASE LoopSeesCancel(r) /\ ~closed
  BY <1>3, QuietMove DEF LoopSeesCancel
<1>4. CASE WorkersAwaited(r)
  BY <1>4, QuietMove DEF WorkersAwaited, LoopReturns
<1>5. CASE LoopSeesQuit(r)
  BY <1>5, QuietMove DEF LoopSeesQuit, LoopReturns
<1>6. CASE PollFails(r)
  BY <1>6, QuietMove DEF PollFails
<1>7. CASE PollCancelled(r)
  BY <1>7, QuietMove DEF PollCancelled, LoopReturns
<1>8. CASE Panic
  BY <1>8, OutsidePreserves
<1> QED
  BY <1>1, <1>2, <1>3, <1>4, <1>5, <1>6, <1>7, <1>8, BeginPreserves, DispatchPreserves,
    CompletePreserves
  DEF Loop, LoopSeesCancel, PollSendsOnClosed

-----------------------------------------------------------------------------
\* The inductive invariant holds in every reachable state.
THEOREM Invariance == Spec => []IInv
<1>1. IInv /\ [Next]_vars => IInv'
  BY StartPreserves, StopPreserves, LoopPreserves, OutsidePreserves DEF Next
<1> QED
  BY InitEstablishes, <1>1, PTL DEF Spec

\* The mutex keeps the polls of all loops apart: no block is dispatched more often
\* than Start was called, although each Start moves the cursor back.
THEOREM DispatchedOncePerStart == Spec => []OncePerStart
<1>1. IInv => OncePerStart
  BY DEF IInv, Fresh
<1> QED
  BY Invariance, <1>1, PTL

\* No loop moves the cursor past a block that no loop has dispatched.
THEOREM NoneSkipped == Spec => []NoBlockSkipped
<1>1. IInv => NoBlockSkipped
  BY DEF IInv, Gapless
<1> QED
  BY Invariance, <1>1, PTL

\* A Stop that gives up quit has outlived all loops that ran when it closed it.
THEOREM StopsOutliveLoops == Spec => []StopOutlivesLoops
<1>1. IInv => StopOutlivesLoops
  BY DEF IInv, Counted
<1> QED
  BY Invariance, <1>1, PTL

-----------------------------------------------------------------------------
\* Sequences from their ends.
LEMMA ReverseProperties ==
  ASSUME NEW S, NEW s \in Seq(S)
  PROVE  /\ Reverse(s) \in Seq(S) /\ Len(Reverse(s)) = Len(s)
         /\ \A i \in 1..Len(s) : Reverse(s)[i] = s[Len(s) - i + 1]
<1> DEFINE n == Len(s)
           r == [i \in 1..n |-> s[(n - i) + 1]]
<1>1. n \in Nat /\ s \in [1..n -> S]
  BY LenProperties
<1> HIDE DEF n
<1>2. \A i \in 1..n : (n - i) + 1 \in 1..n
  BY <1>1
<1>3. r \in [1..n -> S]
  BY <1>1, <1>2
<1>4. r \in Seq(S)
  BY <1>1, <1>3, SeqDef
<1>5. DOMAIN r = 1..n /\ DOMAIN r = 1..Len(r) /\ Len(r) \in Nat
  BY <1>3, <1>4, LenProperties
<1>6. Len(r) = n
  BY <1>1, <1>5
<1>7. Reverse(s) = r
  BY DEF Reverse, n
<1> QED
  BY <1>1, <1>4, <1>6, <1>7 DEF n

\* A suffix agrees with the end of the sequence.
LEMMA SuffixMeans ==
  ASSUME NEW S, NEW s \in Seq(S), NEW t \in Seq(S)
  PROVE  IsSuffix(s, t) <=>
           /\ Len(s) <= Len(t)
           /\ \A i \in 1..Len(s) : s[i] = t[Len(t) - Len(s) + i]
<1> DEFINE n == Len(s)
           m == Len(t)
           rs == Reverse(s)
           rt == Reverse(t)
<1>1. n \in Nat /\ m \in Nat
  BY LenProperties
<1>2. /\ rs \in Seq(S) /\ Len(rs) = n /\ \A i \in 1..n : rs[i] = s[n - i + 1]
      /\ rt \in Seq(S) /\ Len(rt) = m /\ \A i \in 1..m : rt[i] = t[m - i + 1]
  BY ReverseProperties
<1>3. IsSuffix(s, t) <=> n <= m /\ SubSeq(rs, 1, n) = SubSeq(rt, 1, n)
  BY <1>2 DEF IsSuffix, IsPrefix
<1> HIDE DEF n, m, rs, rt
<1>4. SubSeq(rs, 1, n) = rs
  BY <1>2, SubSeqFull
<1>5. ASSUME n <= m
      PROVE  (rs = SubSeq(rt, 1, n)) <=> \A i \in 1..n : s[n - i + 1] = t[m - i + 1]
  <2> DEFINE sub == SubSeq(rt, 1, n)
  <2>1. \A i \in 1..n : i \in 1..m
    BY <1>1, <1>5
  <2>2. \A i \in 1..n : rt[i] \in S
    BY <1>2, <2>1, ElementOfSeq
  <2>3. sub \in Seq(S) /\ Len(sub) = n /\ \A i \in 1..n : sub[i] = rt[i]
    BY <1>1, <2>2, SubSeqProperties
  <2> HIDE DEF sub
  <2>4. rs = sub <=> \A i \in 1..n : rs[i] = sub[i]
    BY <1>2, <2>3, SeqEqual
  <2>5. \A i \in 1..n : rs[i] = s[n - i + 1] /\ sub[i] = t[m - i + 1]
    BY <1>2, <2>1, <2>3
  <2>6. rs = sub <=> \A i \in 1..n : s[n - i + 1] = t[m - i + 1]
    BY <2>4, <2>5
  <2> QED
    BY <2>6 DEF sub
<1>6. ASSUME n <= m
      PROVE  (\A i \in 1..n : s[n - i + 1] = t[m - i + 1]) <=> (\A i \in 1..n : s[i] = t[m - n + i])
  <2>1. ASSUME \A i \in 1..n : s[n - i + 1] = t[m - i + 1], NEW i \in 1..n
        PROVE  s[i] = t[m - n + i]
    <3> DEFINE j == n - i + 1
    <3>1. j \in 1..n /\ n - j + 1 = i /\ m - j + 1 = m - n + i
      BY <1>1
    <3> QED
      BY <2>1, <3>1
  <2>2. ASSUME \A i \in 1..n : s[i] = t[m - n + i], NEW i \in 1..n
        PROVE  s[n - i + 1] = t[m - i + 1]
    <3> DEFINE j == n - i + 1
    <3>1. j \in 1..n /\ m - n + j = m - i + 1
      BY <1>1
    <3> QED
      BY <2>2, <3>1
  <2> QED
    BY <2>1, <2>2
<1> QED
  BY <1>3, <1>4, <1>5, <1>6 DEF n, m

\* What is left of a program after a call is still an end of it.
LEMMA TailIsSuffix ==
  ASSUME NEW S, NEW s \in Seq(S), NEW t \in Seq(S), s # <<>>, IsSuffix(s, t)
  PROVE  IsSuffix(Tail(s), t)
<1> DEFINE n == Len(s)
           m == Len(t)
           r == Tail(s)
<1>1. n \in Nat \ {0} /\ m \in Nat
  BY LenProperties, EmptySeq
<1>2. r \in Seq(S) /\ Len(r) = n - 1 /\ \A i \in 1..(n - 1) : r[i] = s[i + 1]
  BY HeadTailProperties
<1>3. n <= m /\ \A i \in 1..n : s[i] = t[m - n + i]
  BY SuffixMeans
<1> HIDE DEF n, m, r
<1>4. ASSUME NEW i \in 1..(n - 1) PROVE r[i] = t[m - (n - 1) + i]
  <2>1. i + 1 \in 1..n /\ m - n + (i + 1) = m - (n - 1) + i
    BY <1>1
  <2> QED
    BY <1>2, <1>3, <2>1
<1>5. n - 1 <= m
  BY <1>1, <1>3
<1> QED
  BY <1>2, <1>4, <1>5, SuffixMeans DEF r, m

\* What the callers have still to call gets shorter, one call at a time.
LEMMA CallsStep ==
  ASSUME IInv, [Next]_vars
  PROVE  /\ program' = program
         /\ \A d \in Callers : \/ calls'[d] = calls[d]
                               \/ calls[d] # <<>> /\ calls'[d] = Tail(calls[d])
<1> DEFINE Shorter == \A d \in Callers : \/ calls'[d] = calls[d]
                                         \/ calls[d] # <<>> /\ calls'[d] = Tail(calls[d])
<1>1. ASSUME NEW c \in Callers, Returns(c), calls[c] # <<>> PROVE Shorter
  BY <1>1 DEF Returns, IInv, Types
<1> HIDE DEF Shorter
<1>2. ASSUME NEW c \in Callers, Start(c) \/ StopRefused(c) \/ StopClears(c)
      PROVE  program' = program /\ Shorter
  <2>1. Returns(c) /\ calls[c] # <<>> /\ program' = program
    BY <1>2 DEF Start, StopRefused, StopClears, Calls, IInv, StartsOnce
  <2> QED
    BY <1>1, <2>1
<1>3. ASSUME UNCHANGED calls PROVE Shorter
  BY <1>3 DEF Shorter
<1>4. ASSUME NEW c \in Callers, StopCalled(c) \/ StopCloses(c) \/ StopWaits(c)
      PROVE  program' = program /\ Shorter
  BY <1>3, <1>4 DEF StopCalled, StopCloses, StopWaits, Panic, callerVars
<1>5. ASSUME NEW r \in Loops, Loop(r) PROVE program' = program /\ Shorter
  BY <1>3, <1>5 DEF Loop, LoopSelects, LoopSeesCancel, WorkersAwaited, LoopSeesQuit, LoopTicks,
    PollBegins, PollFails, PollDispatches, PollSendsOnClosed, PollCancelled, PollCompletes, Panic,
    outside, callerVars
<1>6. ASSUME Cancel \/ WorkerExits \/ AtRest \/ UNCHANGED vars PROVE program' = program /\ Shorter
  BY <1>3, <1>6 DEF Cancel, WorkerExits, AtRest, vars, outside, callerVars
<1>7. program' = program /\ Shorter
  BY <1>2, <1>4, <1>5, <1>6 DEF Next, Stop
<1> QED
  BY <1>7 DEF Shorter

\* The conjuncts of TypeOK that the inductive invariant has no use for.
LEMMA TypeStep == ASSUME IInv, IInv', TypeOK, [Next]_vars PROVE TypeOK'
<1>1. program' \in Programs /\ \A c \in Callers : IsSuffix(calls'[c], program'[c])
  <2>1. program' = program /\ program \in [Callers -> Seq({"Start", "Stop"})]
    BY CallsStep, LifecycleAssumption DEF TypeOK, LifecycleAssumption
  <2>2. ASSUME NEW c \in Callers PROVE IsSuffix(calls'[c], program[c])
    <3>1. calls[c] \in Seq({"Start", "Stop"}) /\ program[c] \in Seq({"Start", "Stop"})
      BY <2>1 DEF IInv, Types
    <3>2. IsSuffix(calls[c], program[c])
      BY DEF TypeOK
    <3> QED
      BY <3>1, <3>2, CallsStep, TailIsSuffix
  <2> QED
    BY <2>1, <2>2 DEF TypeOK
<1>2. /\ quit' \in {"chan", "nil"} /\ quitClosed' \in BOOLEAN /\ hears' \in [Loops -> BOOLEAN]
      /\ pool' \in Nat /\ closed' \in BOOLEAN /\ ctxDone' \in BOOLEAN /\ panicked' \in BOOLEAN
  <2> DEFINE Rest ==
        /\ quit' \in {"chan", "nil"} /\ quitClosed' \in BOOLEAN /\ hears' \in [Loops -> BOOLEAN]
        /\ pool' \in Nat /\ closed' \in BOOLEAN /\ ctxDone' \in BOOLEAN /\ panicked' \in BOOLEAN
  <2>1. ASSUME NEW c \in Callers, Start(c) PROVE Rest
    BY <2>1, LifecycleAssumption DEF Start, TypeOK, LifecycleAssumption, quitVars
  <2>2. ASSUME NEW c \in Callers, Stop(c) PROVE Rest
    BY <2>2 DEF Stop, StopRefused, StopCalled, StopCloses, StopWaits, StopClears, Panic, TypeOK,
      quitVars, loopVars, poolVars
  <2>3. ASSUME NEW r \in Loops, Loop(r) PROVE Rest
    BY <2>3 DEF Loop, LoopSelects, LoopSeesCancel, WorkersAwaited, LoopSeesQuit, LoopTicks,
      PollBegins, PollFails, PollDispatches, PollSendsOnClosed, PollCancelled, PollCompletes, Panic,
      outside, quitVars, loopVars, poolVars, TypeOK
  <2>4. ASSUME Cancel \/ WorkerExits \/ AtRest \/ UNCHANGED vars PROVE Rest
    <3>1. /\ UNCHANGED <<quit, quitClosed, hears, closed, panicked>>
          /\ ctxDone' \in {ctxDone, TRUE} /\ pool' \in {pool, pool - 1}
          /\ pool' # pool => pool > 0
      BY <2>4 DEF Cancel, WorkerExits, AtRest, vars, outside, quitVars, loopVars, poolVars
    <3>2. pool' \in Nat
      BY <3>1 DEF TypeOK
    <3> QED
      BY <3>1, <3>2, Zenon DEF TypeOK
  <2> HIDE DEF Rest
  <2>5. Rest
    BY <2>1, <2>2, <2>3, <2>4 DEF Next
  <2> QED
    BY <2>5 DEF Rest
<1>3. watcherWg' \in Nat
  <2>1. Cardinality(Running') \in Nat
    BY LoopsFinite DEF Running
  <2> QED
    BY <2>1 DEF IInv, Counted
<1> QED
  BY <1>1, <1>2, <1>3 DEF TypeOK, IInv, Types, Places

\* Types, wait group and counters stay in range, and what the callers have still to call
\* is an end of their programs.
THEOREM TypeCorrect == Spec => []TypeOK
<1>1. Init => TypeOK
  <2> SUFFICES ASSUME Init PROVE TypeOK
    OBVIOUS
  <2>1. IInv /\ program \in [Callers -> Seq({"Start", "Stop"})]
    BY InitEstablishes, LifecycleAssumption DEF Init, LifecycleAssumption
  <2>2. \A c \in Callers : IsSuffix(program[c], program[c])
    <3> SUFFICES ASSUME NEW c \in Callers PROVE IsSuffix(program[c], program[c])
      OBVIOUS
    <3>1. program[c] \in Seq({"Start", "Stop"})
      BY <2>1
    <3>2. Len(program[c]) \in Nat
      BY <3>1, LenProperties
    <3>3. \A i \in 1..Len(program[c]) : Len(program[c]) - Len(program[c]) + i = i
      BY <3>2
    <3>4. /\ Len(program[c]) <= Len(program[c])
          /\ \A i \in 1..Len(program[c]) :
               program[c][i] = program[c][Len(program[c]) - Len(program[c]) + i]
      BY <3>2, <3>3
    <3> QED
      BY <3>1, <3>4, SuffixMeans
  <2> QED
    BY <2>1, <2>2 DEF Init, TypeOK, IInv, Types, Places
<1>2. IInv /\ IInv' /\ TypeOK /\ [Next]_vars => TypeOK'
  BY TypeStep
<1> QED
  BY <1>1, <1>2, Invariance, PTL DEF Spec

-----------------------------------------------------------------------------
(***************************************************************************)
(* One goroutine makes all calls.                                          *)
(***************************************************************************)
\* Only c calls and only its loop runs. While c is in Stop, quit is the channel, which c
\* alone has closed or is about to close; the loop that has closed jobQueue is past
\* every use of it.
Undisturbed(c) ==
  /\ ~panicked
  /\ \A d \in Callers \ {c} : calls[d] = <<>> /\ loop[d] = "off"
  /\ pc[c] = "idle" => (quit = "nil" <=> quitClosed)
  /\ pc[c] = "close" => quit # "nil" /\ ~quitClosed
  /\ pc[c] \in {"wait", "clear"} => quit # "nil" /\ quitClosed
  /\ closed => loop[c] \in {"closing", "returned"}

\* Once it has told the watcher to stop, c has no Start left.
Orderly(c) ==
  /\ pc[c] # "idle" => Head(calls[c]) = "Stop"
  /\ quit = "nil" => \A i \in 1..Len(calls[c]) : calls[c][i] # "Start"
  /\ pc[c] = "clear" \/ quit = "nil" => Running = {}

AloneInv ==
  \A c \in Callers : Alone(c) => Undisturbed(c) /\ (NoStartAfterStop(c) => Orderly(c))

LEMMA InitAlone == Init => AloneInv
<1> SUFFICES ASSUME Init, NEW c \in Callers, Alone(c) PROVE Undisturbed(c) /\ Orderly(c)
  BY DEF AloneInv
<1>1. Undisturbed(c)
  BY DEF Init, Undisturbed, Alone, Loops
<1>2. Running = {}
  BY DEF Init, Running
<1> QED
  BY <1>1, <1>2 DEF Init, Orderly

\* A step of a loop that was running: the callers are where they were, the channel is
\* closed by a loop that will not use it, and what it panics on is a closed channel.
Moved(r) ==
  /\ loop[r] \notin {"off", "returned"}
  /\ \A s \in Loops : s # r => loop'[s] = loop[s]
  /\ UNCHANGED <<calls, pc, quit, quitClosed>>
  /\ closed' = closed \/ loop'[r] = "closing"
  /\ loop[r] = "closing" => loop'[r] = "returned" /\ closed' = closed
  /\ panicked' = panicked \/ (closed /\ loop[r] \in {"select", "dispatch"})

LEMMA LoopRuns == ASSUME IInv, NEW r \in Loops, Loop(r) PROVE Moved(r)
<1>1. ASSUME NEW from \in Places \ {"off", "returned"}, NEW to \in Places, Goes(r, from, to),
             UNCHANGED <<calls, pc, quit, quitClosed, panicked>>,
             closed' = closed \/ to = "closing",
             from = "closing" => to = "returned" /\ closed' = closed
      PROVE  Moved(r)
  <2>1. loop[r] = from /\ loop'[r] = to /\ \A s \in Loops : s # r => loop'[s] = loop[s]
    BY <1>1 DEF IInv, Types, Goes
  <2> QED
    BY <1>1, <2>1 DEF Moved
<1>2. ASSUME Panic, closed, loop[r] \in {"select", "dispatch"} PROVE Moved(r)
  BY <1>2 DEF Panic, callerVars, quitVars, loopVars, poolVars, Moved
<1> USE DEF Places, outside, callerVars, quitVars, poolVars
<1>3. CASE LoopSelects(r)
  BY <1>1, <1>3 DEF LoopSelects
<1>4. CASE LoopTicks(r)
  BY <1>1, <1>4 DEF LoopTicks
<1>5. CASE LoopSeesQuit(r)
  BY <1>1, <1>5 DEF LoopSeesQuit, LoopReturns
<1>6. CASE WorkersAwaited(r)
  BY <1>1, <1>6 DEF WorkersAwaited, LoopReturns
<1>7. CASE PollBegins(r)
  BY <1>1, <1>7 DEF PollBegins
<1>8. CASE PollFails(r)
  BY <1>1, <1>8 DEF PollFails
<1>9. CASE PollDispatches(r)
  BY <1>1, <1>9 DEF PollDispatches
<1>10. CASE PollCancelled(r)
  BY <1>1, <1>10 DEF PollCancelled, LoopReturns
<1>11. CASE PollCompletes(r)
  BY <1>1, <1>11 DEF PollCompletes
<1>12. CASE LoopSeesCancel(r)
  BY <1>1, <1>2, <1>12 DEF LoopSeesCancel
<1>13. CASE PollSendsOnClosed(r)
  BY <1>2, <1>13 DEF PollSendsOnClosed
<1> QED
  BY <1>3, <1>4, <1>5, <1>6, <1>7, <1>8, <1>9, <1>10, <1>11, <1>12, <1>13 DEF Loop

\* Who calls Start has no loop yet.
LEMMA StartIsFirst == ASSUME IInv, NEW c \in Callers, Start(c) PROVE loop[c] = "off"
<1>1. calls[c] \in Seq({"Start", "Stop"}) /\ calls[c] # <<>> /\ Head(calls[c]) = "Start"
  BY DEF Start, Calls, IInv, Types
<1>2. 1 \in 1..Len(calls[c]) /\ calls[c][1] = "Start"
  BY <1>1, HeadTailProperties, EmptySeq, LenProperties
<1> QED
  BY <1>2 DEF IInv, StartsOnce

LEMMA UndisturbedStep ==
  ASSUME IInv, TypeOK, NEW c \in Callers, Undisturbed(c), [Next]_vars
  PROVE  Undisturbed(c)'
<1>1. ASSUME NEW d \in Callers, Start(d) PROVE Undisturbed(c)'
  <2>1. d = c /\ loop[c] = "off" /\ pc[c] = "idle"
    BY <1>1, StartIsFirst DEF Start, Calls, Undisturbed
  <2>2. /\ Returns(c) /\ loop' = [loop EXCEPT ![c] = "top"]
        /\ UNCHANGED <<quit, quitClosed, closed, panicked>>
    BY <1>1, <2>1 DEF Start, quitVars
  <2>3. pc'[c] = "idle" /\ \A e \in Callers \ {c} : calls'[e] = calls[e] /\ loop'[e] = loop[e]
    BY <2>2 DEF Returns, IInv, Types, Loops
  <2>4. ~closed
    BY <2>1 DEF Undisturbed
  <2> QED
    BY <2>1, <2>2, <2>3, <2>4 DEF Undisturbed
<1>2. ASSUME NEW d \in Callers, Stop(d) PROVE Undisturbed(c)'
  <2>1. d = c
    BY <1>2 DEF Stop, StopRefused, StopCalled, StopCloses, StopWaits, StopClears, Calls,
      Undisturbed, IInv, StartsOnce
  <2>2. CASE StopRefused(c)
    <3>1. Returns(c) /\ pc[c] = "idle" /\ UNCHANGED <<quit, quitClosed, loop, closed, panicked>>
      BY <2>2 DEF StopRefused, Calls, quitVars, loopVars, poolVars
    <3>2. pc'[c] = "idle" /\ \A e \in Callers \ {c} : calls'[e] = calls[e]
      BY <3>1 DEF Returns, IInv, Types
    <3> QED
      BY <3>1, <3>2 DEF Undisturbed
  <2>3. CASE StopCalled(c)
    BY <2>3 DEF StopCalled, Calls, Undisturbed, IInv, Types, quitVars, loopVars, poolVars
  <2>4. CASE StopCloses(c)
    <3>1. quit # "nil" /\ ~quitClosed
      BY <2>4 DEF StopCloses, Undisturbed
    <3>2. /\ quitClosed' /\ pc' = [pc EXCEPT ![c] = "wait"]
          /\ UNCHANGED <<calls, quit, loop, closed, panicked>>
      BY <2>4, <3>1 DEF StopCloses, loopVars, poolVars
    <3>3. pc'[c] = "wait"
      BY <3>2 DEF IInv, Types
    <3> QED
      BY <3>1, <3>2, <3>3 DEF Undisturbed
  <2>5. CASE StopWaits(c)
    BY <2>5 DEF StopWaits, Undisturbed, IInv, Types, quitVars, loopVars, poolVars
  <2>6. CASE StopClears(c)
    <3>1. Returns(c) /\ quit' = "nil" /\ quitClosed /\ UNCHANGED <<quitClosed, loop, closed, panicked>>
      BY <2>6 DEF StopClears, Undisturbed, loopVars, poolVars
    <3>2. pc'[c] = "idle" /\ \A e \in Callers \ {c} : calls'[e] = calls[e]
      BY <3>1 DEF Returns, IInv, Types
    <3> QED
      BY <3>1, <3>2 DEF Undisturbed
  <2> QED
    BY <1>2, <2>1, <2>2, <2>3, <2>4, <2>5, <2>6 DEF Stop
<1>3. ASSUME NEW r \in Loops, Loop(r) PROVE Undisturbed(c)'
  <2>1. r = c
    BY <1>3, LoopRuns DEF Moved, Undisturbed, Loops
  <2>2. ~panicked'
    BY <1>3, <2>1, LoopRuns DEF Moved, Undisturbed
  <2>3. closed' => loop'[c] \in {"closing", "returned"}
    <3>1. CASE loop[c] = "closing"
      BY <1>3, <2>1, <3>1, LoopRuns DEF Moved
    <3>2. CASE loop[c] # "closing"
      BY <1>3, <2>1, <3>2, LoopRuns DEF Moved, Undisturbed
    <3> QED
      BY <3>1, <3>2
  <2> QED
    BY <1>3, <2>1, <2>2, <2>3, LoopRuns DEF Moved, Undisturbed, Loops
<1>4. CASE Cancel \/ WorkerExits \/ AtRest \/ UNCHANGED vars
  BY <1>4 DEF Cancel, WorkerExits, AtRest, vars, outside, callerVars, quitVars, loopVars, poolVars,
    Undisturbed
<1> QED
  BY <1>1, <1>2, <1>3, <1>4 DEF Next

\* What follows the Stop that c is in is no Start.
LEMMA StopIsLast ==
  ASSUME IInv, TypeOK, NEW c \in Callers, NoStartAfterStop(c), calls[c] # <<>>,
         Head(calls[c]) = "Stop"
  PROVE  \A i \in 1..Len(Tail(calls[c])) : Tail(calls[c])[i] # "Start"
<1> DEFINE s == calls[c]
           t == program[c]
           at == Len(t) - Len(s)
<1>1. s \in Seq({"Start", "Stop"}) /\ t \in Seq({"Start", "Stop"})
  BY LifecycleAssumption DEF IInv, Types, TypeOK, LifecycleAssumption
<1>2. /\ Len(s) \in Nat \ {0} /\ Len(t) \in Nat /\ DOMAIN t = 1..Len(t)
      /\ s[1] = "Stop" /\ Len(Tail(s)) = Len(s) - 1
      /\ \A i \in 1..(Len(s) - 1) : Tail(s)[i] = s[i + 1]
  BY <1>1, LenProperties, EmptySeq, HeadTailProperties
<1>3. Len(s) <= Len(t) /\ \A i \in 1..Len(s) : s[i] = t[at + i]
  BY <1>1, SuffixMeans DEF TypeOK
<1>4. \A i, j \in 1..Len(t) : t[i] = "Stop" /\ t[j] = "Start" => j < i
  BY <1>2 DEF NoStartAfterStop
<1> HIDE DEF s, t
<1>5. ASSUME NEW i \in 1..(Len(s) - 1) PROVE s[i + 1] # "Start"
  <2>1. /\ 1 \in 1..Len(s) /\ i + 1 \in 1..Len(s)
        /\ at + 1 \in 1..Len(t) /\ at + (i + 1) \in 1..Len(t) /\ ~(at + (i + 1) < at + 1)
    BY <1>2, <1>3
  <2>2. t[at + 1] = "Stop" /\ s[i + 1] = t[at + (i + 1)]
    BY <1>2, <1>3, <2>1
  <2> QED
    BY <1>4, <2>1, <2>2
<1> QED
  BY <1>2, <1>5 DEF s

LEMMA OrderlyStep ==
  ASSUME IInv, TypeOK, NEW c \in Callers, NoStartAfterStop(c), Undisturbed(c), Orderly(c),
         [Next]_vars
  PROVE  Orderly(c)'
<1>1. ASSUME NEW d \in Callers, Start(d) PROVE Orderly(c)'
  <2>1. d = c /\ pc[c] = "idle" /\ calls[c] # <<>> /\ Head(calls[c]) = "Start" /\ Returns(c) /\ quit' = quit
    BY <1>1 DEF Start, Calls, Undisturbed, quitVars
  <2>2. quit # "nil"
    <3>1. 1 \in 1..Len(calls[c]) /\ calls[c][1] = "Start"
      BY <2>1, HeadTailProperties, EmptySeq, LenProperties DEF IInv, Types
    <3> QED
      BY <3>1 DEF Orderly
  <2> QED
    BY <2>1, <2>2 DEF Orderly, Returns, IInv, Types
<1>2. ASSUME NEW d \in Callers, Stop(d) PROVE Orderly(c)'
  <2>1. d = c
    BY <1>2 DEF Stop, StopRefused, StopCalled, StopCloses, StopWaits, StopClears, Calls,
      Undisturbed, IInv, StartsOnce
  <2>2. Running' = Running
    BY <1>2 DEF Stop, StopRefused, StopCalled, StopCloses, StopWaits, StopClears, Panic, loopVars,
      Running
  <2>3. CASE StopRefused(c) \/ StopClears(c)
    <3>1. Returns(c) /\ calls[c] # <<>> /\ Head(calls[c]) = "Stop" /\ Running = {}
      BY <2>3 DEF StopRefused, StopClears, Calls, Orderly, IInv, StartsOnce
    <3>2. pc'[c] = "idle" /\ calls'[c] = Tail(calls[c])
      BY <3>1 DEF Returns, IInv, Types
    <3> QED
      BY <2>2, <3>1, <3>2, StopIsLast DEF Orderly
  <2>4. CASE StopCalled(c) \/ StopCloses(c)
    <3>1. /\ UNCHANGED <<calls, quit>> /\ pc'[c] \in {"close", "wait"} /\ quit # "nil"
          /\ Head(calls[c]) = "Stop"
      BY <2>4 DEF StopCalled, StopCloses, Calls, Panic, callerVars, quitVars, Undisturbed, Orderly,
        IInv, Types
    <3> QED
      BY <2>2, <3>1 DEF Orderly
  <2>5. CASE StopWaits(c)
    <3>1. UNCHANGED <<calls, quit>> /\ pc'[c] = "clear" /\ quit # "nil" /\ Head(calls[c]) = "Stop"
      BY <2>5 DEF StopWaits, quitVars, Undisturbed, Orderly, IInv, Types
    <3>2. Running = {}
      BY <2>5, LoopsFinite DEF StopWaits, IInv, Counted, Running
    <3> QED
      BY <2>2, <3>1, <3>2 DEF Orderly
  <2> QED
    BY <1>2, <2>1, <2>3, <2>4, <2>5 DEF Stop
<1>3. ASSUME NEW r \in Loops, Loop(r) PROVE Orderly(c)'
  <2>1. UNCHANGED <<calls, pc, quit>> /\ r \in Running
    BY <1>3, LoopRuns DEF Moved, Running
  <2> QED
    BY <2>1 DEF Orderly
<1>4. CASE Cancel \/ WorkerExits \/ AtRest \/ UNCHANGED vars
  <2>1. UNCHANGED <<calls, pc, quit, loop>>
    BY <1>4 DEF Cancel, WorkerExits, AtRest, vars, outside, callerVars, quitVars, loopVars
  <2> QED
    BY <2>1 DEF Orderly, Running
<1> QED
  BY <1>1, <1>2, <1>3, <1>4 DEF Next

LEMMA AloneInvariance == Spec => []AloneInv
<1>1. IInv /\ TypeOK /\ AloneInv /\ [Next]_vars => AloneInv'
  <2> SUFFICES ASSUME IInv, TypeOK, AloneInv, [Next]_vars, NEW c \in Callers, Alone(c)'
               PROVE  Undisturbed(c)' /\ (NoStartAfterStop(c)' => Orderly(c)')
    BY DEF AloneInv
  <2>1. Alone(c) /\ (NoStartAfterStop(c)' <=> NoStartAfterStop(c))
    BY CallsStep DEF Alone, NoStartAfterStop
  <2>2. Undisturbed(c) /\ (NoStartAfterStop(c) => Orderly(c))
    BY <2>1 DEF AloneInv
  <2> QED
    BY <2>1, <2>2, UndisturbedStep, OrderlyStep
<1> QED
  BY InitAlone, <1>1, Invariance, TypeCorrect, PTL DEF Spec

\* One goroutine that starts the watcher at most once, and stops it whenever it likes,
\* closes no channel twice and no nil one, and nothing is sent on a closed one.
THEOREM NoPanicAlone == Spec => []AloneNoPanic
<1>1. AloneInv => AloneNoPanic
  BY DEF AloneInv, AloneNoPanic, Undisturbed
<1> QED
  BY AloneInvariance, <1>1, PTL

\* For one goroutine that does not start the watcher again, quit is nil only when no loop
\* runs, so that "watcher already stopped" is true when Stop answers it.
THEOREM StoppedInOrder == Spec => []OrderlyStopEnds
<1>1. AloneInv => OrderlyStopEnds
  BY DEF AloneInv, OrderlyStopEnds, Orderly
<1> QED
  BY AloneInvariance, <1>1, PTL

=============================================================================
