------------------------------- MODULE Reorg -------------------------------
(***************************************************************************)
(* The poll on a chain whose newest blocks may be replaced, behind a URL   *)
(* that several nodes answer, some of them late. The code asks by number,  *)
(* up to the newest block, and never again: this module says which events  *)
(* that can cost, and which not. Queue and workers are left to Watcher.    *)
(***************************************************************************)
EXTENDS Integers, Sequences

CONSTANTS
  MaxBlockSpan,   \* of the WatcherConfig
  MaxHeight,      \* bound of the model: blocks of the chain
  MaxForks,       \* bound of the model: how often the chain is reorganised
  MaxLives        \* bound of the model: how often the process is started

ASSUME ReorgAssumption ==
  MaxBlockSpan \in Nat /\ MaxHeight \in Nat \ {0} /\ MaxForks \in Nat /\ MaxLives \in Nat \ {0}

StartBlock == 0

VARIABLES
  chain,          \* chain[h]: the fork on which block h was mined
  old,            \* the chain before the latest reorganisation
  forks,
  currentBlock,
  toBlock,        \* of the poll in progress
  phase,          \* of the loop: "select", "filter" or "dispatch"
  lives,
  handled,        \* blocks <<h, fork>> whose events were dispatched in this life
  replaced,       \* history of this life: heights replaced after they were asked for
  behind          \* history of this life: heights for which the node that answered
                  \* had no block, or one that was replaced already

chainVars == <<chain, old, forks>>
history == <<handled, replaced, behind>>
vars == <<chainVars, currentBlock, toBlock, phase, lives, history>>

Asked == 1..(IF phase = "dispatch" THEN toBlock ELSE currentBlock)

\* What a node may know: the chain of now or of before, up to some block.
Views == UNION {{SubSeq(c, 1, n) : n \in 0..Len(c)} : c \in {chain, old}}

TypeOK ==
  /\ \A c \in {chain, old} : c \in Seq(0..MaxForks) /\ Len(c) <= MaxHeight
  /\ forks \in 0..MaxForks /\ lives \in 1..MaxLives
  /\ currentBlock \in 0..MaxHeight /\ toBlock \in 0..MaxHeight
  /\ phase \in {"select", "filter", "dispatch"}
  /\ handled \subseteq (1..MaxHeight) \X (0..MaxForks)
  /\ replaced \subseteq 1..MaxHeight /\ behind \subseteq 1..MaxHeight

Watching ==
  /\ currentBlock = StartBlock /\ toBlock = 0 /\ phase = "select"
  /\ handled = {} /\ replaced = {} /\ behind = {}

Init == chain = <<>> /\ old = <<>> /\ forks = 0 /\ lives = 1 /\ Watching

-----------------------------------------------------------------------------
NewBlock ==
  /\ Len(chain) < MaxHeight
  /\ chain' = Append(chain, forks)
  /\ UNCHANGED <<old, forks, currentBlock, toBlock, phase, lives, history>>

\* The blocks from h on are replaced by n others, at times fewer than before.
Reorganise(h, n) ==
  /\ forks < MaxForks
  /\ forks' = forks + 1
  /\ chain' = SubSeq(chain, 1, h - 1) \o [i \in 1..n |-> forks']
  /\ old' = chain
  /\ replaced' = replaced \cup {i \in Asked : i >= h}
  /\ UNCHANGED <<currentBlock, toBlock, phase, lives, handled, behind>>

\* Faulty variant: the cursor follows a head that went back.
PollFindsNothing_Rewinds(latest) ==
  /\ phase = "select" /\ latest <= currentBlock
  /\ currentBlock' = latest
  /\ UNCHANGED <<chainVars, toBlock, phase, lives, history>>

\* A head at or below the cursor, whether the chain stands still or went back.
PollFindsNothing(latest) ==
  /\ phase = "select" /\ latest <= currentBlock
  /\ UNCHANGED vars

\* Faulty variant: the span is counted whatever the head is.
PollBegins_FullSpan(latest) ==
  /\ phase = "select" /\ latest > currentBlock
  /\ toBlock' = currentBlock + 1 + MaxBlockSpan
  /\ phase' = "filter"
  /\ UNCHANGED <<chainVars, currentBlock, lives, history>>

\* Faulty variant: a single new block is left for later.
PollBegins_TooLate(latest) ==
  /\ phase = "select" /\ latest > currentBlock + 1
  /\ toBlock' = IF latest - (currentBlock + 1) > MaxBlockSpan
                THEN currentBlock + 1 + MaxBlockSpan ELSE latest
  /\ phase' = "filter"
  /\ UNCHANGED <<chainVars, currentBlock, lives, history>>

PollBegins(latest) ==
  /\ phase = "select" /\ latest > currentBlock
  /\ toBlock' = IF latest - (currentBlock + 1) > MaxBlockSpan
                THEN currentBlock + 1 + MaxBlockSpan ELSE latest
  /\ phase' = "filter"
  /\ UNCHANGED <<chainVars, currentBlock, lives, history>>

\* A node answers with the logs of the blocks it knows by these numbers, and does not
\* mind that it lacks some; an error leaves the cursor.
FilterLogsReturns(view) ==
  /\ phase = "filter"
  /\ phase' = "dispatch"
  /\ LET window == (currentBlock + 1)..toBlock
     IN  /\ handled' = handled \cup {<<h, view[h]>> : h \in window \cap DOMAIN view}
         /\ behind' = behind \cup {h \in window :
                        h \notin DOMAIN view \/ h \notin DOMAIN chain \/ view[h] # chain[h]}
  /\ UNCHANGED <<chainVars, currentBlock, toBlock, lives, replaced>>

FilterLogsFails ==
  /\ phase = "filter" /\ phase' = "select"
  /\ UNCHANGED <<chainVars, currentBlock, toBlock, lives, history>>

\* Faulty variant: the cursor moves to the head of now, not of the poll's beginning.
PollCompletes_NewestHead ==
  /\ phase = "dispatch" /\ phase' = "select"
  /\ currentBlock' = Len(chain)
  /\ UNCHANGED <<chainVars, toBlock, lives, history>>

PollCompletes ==
  /\ phase = "dispatch" /\ phase' = "select"
  /\ currentBlock' = toBlock
  /\ UNCHANGED <<chainVars, toBlock, lives, history>>

\* The process ends and is started again, at StartBlock.
Restart ==
  /\ lives < MaxLives
  /\ lives' = lives + 1
  /\ currentBlock' = StartBlock /\ toBlock' = 0 /\ phase' = "select"
  /\ handled' = {} /\ replaced' = {} /\ behind' = {}
  /\ UNCHANGED chainVars

Next ==
  \/ NewBlock
  \/ \E h \in DOMAIN chain : \E n \in 1..(MaxHeight - h + 1) : Reorganise(h, n)
  \/ \E latest \in {Len(view) : view \in Views} : PollFindsNothing(latest) \/ PollBegins(latest)
  \/ \E view \in Views : FilterLogsReturns(view)
  \/ FilterLogsFails \/ PollCompletes \/ Restart

Spec == Init /\ [][Next]_vars

\* The loop polls again and again; among the nodes there is one that is up to date and
\* is asked now and then, and FilterLogs does not fail for ever.
Fairness ==
  /\ WF_vars(PollCompletes)
  /\ SF_vars(PollBegins(Len(chain)))
  /\ SF_vars(\E view \in Views : FilterLogsReturns(view))

FairSpec == Spec /\ Fairness

-----------------------------------------------------------------------------
Handled(h) == h \in DOMAIN chain /\ <<h, chain[h]>> \in handled

\* An event of the chain of now, in a block that the cursor has passed, is missed for
\* two reasons only: its block took the place of one that had been asked for, or the
\* node that answered FilterLogs did not have it. A block that is replaced between the
\* two calls of a poll is none: the logs are asked for by number.
LossIsExplained ==
  \A h \in 1..currentBlock \cap DOMAIN chain : Handled(h) \/ h \in replaced \cup behind

\* One life handles the events of at most one block of a height: the events of a block
\* that was replaced are not joined by those of the block that took its place.
OneBlockPerHeight == \A a, b \in handled : a[1] = b[1] => a = b

\* A life that begins on a chain that is not reorganised any more handles the events of
\* every block but those for which a node answered that did not have them.
RestartHeals ==
  \A n \in 1..MaxHeight :
    forks = MaxForks /\ Watching /\ Len(chain) = n ~>
      \A h \in 1..n : Handled(h) \/ h \in behind

=============================================================================
