------------------------------- MODULE Setup -------------------------------
(***************************************************************************)
(* From the configuration file to running watchers: main, which loads the  *)
(* file and calls RunWatcher, setupWatchers, NewWatcher's tables, and the  *)
(* ContractConfigs of pkg/handlers. Go ranges over a map in any order, so  *)
(* the chains, and the contracts of a chain, come in any order.            *)
(***************************************************************************)
EXTENDS Integers, Sequences, FiniteSets, SequencesExt

CONSTANTS
  Chains,            \* the keys of "chains"
  Contracts,         \* the entries of "contracts", of all chains
  ChainOf,           \* ChainOf[k]: the chain of an entry
  Address,           \* Address[k]: HexToAddress of its key
  AbiType,           \* AbiType[k]: its value, "" if that is no string
  PollingInterval,   \* PollingInterval[c]: of a chain
  Doubtful,          \* the <<c, key>> whose value may be absent or of another type,
                     \* as a negative "startBlock" is
  ZeroAddress        \* common.Address{}

NoChain == "none"

ASSUME SetupAssumption ==
  /\ IsFiniteSet(Contracts)
  /\ NoChain \notin Chains
  /\ ChainOf \in [Contracts -> Chains]
  /\ PollingInterval \in [Chains -> Int]
  /\ \A k \in Contracts : Address[k] # ZeroAddress

VARIABLES
  config,       \* what LoadConfiguration returned, by chain
  setup,        \* "loading", "opening" the database, then what became of
                \* setupWatchers: "running", "done" or "failed"
  chain,        \* the chain that is being set up
  unread,       \* its entries that are still to be read
  awaited,      \* {k} while HTLCConfig waits for the Token of entry k, else {}
  configs,      \* its ContractConfigs so far
  watchers,     \* addressToHandlers of the watcher of each chain that has one
  started,      \* the chains whose watcher has been started
  panicked      \* a goroutine panicked: the process is gone

vars == <<config, setup, chain, unread, awaited, configs, watchers, started, panicked>>

EntriesOf(c) == {k \in Contracts : ChainOf[k] = c}

HTLCEvents == {"Initiated", "Redeemed", "Refunded"}
OrderbookEvents == {"Created", "Filled"}
Events == HTLCEvents \cup OrderbookEvents

Keys == {"contracts", "url", "startBlock", "maxBlockSpan", "pollingInterval"}

\* The ChainConfig of a chain whose file lacks some keys. Of the url and of the two
\* numbers it says whether they are the file's, or "" and 0.
Decoded(c, lost) ==
  [Contracts |-> IF "contracts" \in lost THEN {} ELSE EntriesOf(c),
   Url |-> "url" \notin lost,
   StartBlock |-> "startBlock" \notin lost,
   MaxBlockSpan |-> "maxBlockSpan" \notin lost,
   PollingInterval |-> IF "pollingInterval" \in lost THEN 0 ELSE PollingInterval[c]]

\* ContractConfigs: what HTLCConfig and OrderbookConfig return, and the zero
\* value, which the switch leaves for a type that it does not know.
HTLCConfig(a) == [Address |-> a, EventHandlers |-> HTLCEvents]
OrderbookConfig(a) == [Address |-> a, EventHandlers |-> OrderbookEvents]
NoConfig == [Address |-> ZeroAddress, EventHandlers |-> {}]

ContractHandler(k) ==
  CASE AbiType[k] = "orderbook" -> OrderbookConfig(Address[k])
    [] AbiType[k] = "htlc" -> HTLCConfig(Address[k])
    [] OTHER -> NoConfig

Known(k) == AbiType[k] \in {"orderbook", "htlc"}

TypeOK ==
  /\ setup \in {"loading", "opening", "running", "done", "failed"}
  /\ DOMAIN config \subseteq Chains
  /\ \A c \in DOMAIN config : config[c].Contracts \subseteq EntriesOf(c)
  /\ chain \in Chains \cup {NoChain}
  /\ unread \subseteq Contracts
  /\ awaited \in {{}} \cup {{k} : k \in unread}
  /\ \A i \in DOMAIN configs :
       configs[i] \in [Address : {Address[k] : k \in Contracts} \cup {ZeroAddress},
                       EventHandlers : SUBSET Events]
  /\ chain # NoChain => Len(configs) + Cardinality(unread) = Cardinality(config[chain].Contracts)
  /\ DOMAIN watchers \subseteq DOMAIN config
  /\ started \subseteq DOMAIN config
  /\ panicked \in BOOLEAN

Init ==
  /\ config = [c \in {} |-> {}]
  /\ setup = "loading"
  /\ chain = NoChain
  /\ unread = {}
  /\ awaited = {}
  /\ configs = <<>>
  /\ watchers = [c \in {} |-> {}]
  /\ started = {}
  /\ panicked = FALSE

-----------------------------------------------------------------------------
\* Faulty variant: decoding ends at the first value of another type.
LoadConfiguration_StopsEarly ==
  /\ setup = "loading" /\ ~panicked /\ setup' = "opening"
  /\ \E kept \in SUBSET Chains : config' = [c \in kept |-> Decoded(c, {})]
  /\ UNCHANGED <<chain, unread, awaited, configs, watchers, started, panicked>>

\* The result of Decode is not looked at: a file that is no JSON, or whose "chains" is
\* no object, has no chain, and a value that is absent or of another type is 0, "" or
\* empty, while the rest of the file counts.
LoadConfiguration ==
  /\ setup = "loading" /\ ~panicked /\ setup' = "opening"
  /\ \/ config' = [c \in {} |-> {}]
     \/ \E lost \in SUBSET Doubtful :
          config' = [c \in Chains |-> Decoded(c, {key \in Keys : <<c, key>> \in lost})]
  /\ UNCHANGED <<chain, unread, awaited, configs, watchers, started, panicked>>

\* The file, or the database of RunWatcher, cannot be opened: both panic.
OpenFails ==
  /\ setup \in {"loading", "opening"} /\ ~panicked /\ panicked' = TRUE
  /\ UNCHANGED <<config, setup, chain, unread, awaited, configs, watchers, started>>

\* RunWatcher opens the database and calls setupWatchers.
OpenStore ==
  /\ setup = "opening" /\ ~panicked /\ setup' = "running"
  /\ UNCHANGED <<config, chain, unread, awaited, configs, watchers, started, panicked>>

\* Faulty variant: the list of ContractConfigs is shared by the chains.
Dial_SharedList(c) ==
  /\ setup = "running" /\ chain = NoChain /\ c \notin DOMAIN watchers /\ chain' = c
  /\ config[c].Url /\ unread' = config[c].Contracts /\ UNCHANGED <<config, setup, awaited, configs, watchers, started, panicked>>

\* The next chain of cfg.Chains, when ethclient.Dial succeeds, which it cannot for "".
Dial(c) ==
  /\ setup = "running" /\ chain = NoChain /\ c \notin DOMAIN watchers /\ config[c].Url
  /\ chain' = c /\ unread' = config[c].Contracts /\ configs' = <<>>
  /\ UNCHANGED <<config, setup, awaited, watchers, started, panicked>>

\* The next entry of the chain's contracts, when it is no HTLC: no call is made for it.
Configure(k) ==
  /\ setup = "running" /\ k \in unread /\ awaited = {} /\ AbiType[k] # "htlc"
  /\ configs' = Append(configs, ContractHandler(k)) /\ unread' = unread \ {k}
  /\ UNCHANGED <<config, setup, chain, awaited, watchers, started, panicked>>

\* HTLCConfig asks the contract of the next entry for its Token, without a timeout.
CallToken(k) ==
  /\ setup = "running" /\ k \in unread /\ awaited = {} /\ AbiType[k] = "htlc"
  /\ awaited' = {k}
  /\ UNCHANGED <<config, setup, chain, unread, configs, watchers, started, panicked>>

TokenReturns(k) ==
  /\ setup = "running" /\ awaited = {k} /\ awaited' = {}
  /\ configs' = Append(configs, ContractHandler(k)) /\ unread' = unread \ {k}
  /\ UNCHANGED <<config, setup, chain, watchers, started, panicked>>

\* Faulty variant: the watchers built so far are returned next to the error.
SetupFails_Partial ==
  /\ setup = "running"
  /\ \/ chain = NoChain /\ DOMAIN watchers # DOMAIN config
     \/ \E k \in unread : Known(k) /\ awaited \subseteq {k}
  /\ setup' = "failed"
  /\ chain' = NoChain /\ awaited' = {}
  /\ UNCHANGED <<config, unread, configs, watchers, started, panicked>>

\* setupWatchers returns nil and an error: Dial fails, or a contract's ABI, or the
\* call that tells an HTLC from another contract. An unknown type is not an error.
SetupFails ==
  /\ setup = "running"
  /\ \/ chain = NoChain /\ DOMAIN watchers # DOMAIN config
     \/ \E k \in unread : Known(k) /\ awaited \subseteq {k}
  /\ setup' = "failed"
  /\ watchers' = [c \in {} |-> {}]
  /\ chain' = NoChain /\ awaited' = {}
  /\ UNCHANGED <<config, unread, configs, started, panicked>>

\* NewWatcher's addressToHandlers: of two ContractConfigs with the same address the
\* later one counts.
addressToHandlers ==
  [a \in {contract.Address : contract \in ToSet(configs)} |->
     configs[SelectLastInSeq(configs, LAMBDA contract : contract.Address = a)].EventHandlers]

NewWatcher ==
  /\ setup = "running" /\ chain # NoChain /\ unread = {}
  /\ watchers' = [c \in DOMAIN watchers \cup {chain} |->
                    IF c = chain THEN addressToHandlers ELSE watchers[c]]
  /\ chain' = NoChain
  /\ UNCHANGED <<config, setup, unread, awaited, configs, started, panicked>>

SetupReturns ==
  /\ setup = "running" /\ chain = NoChain /\ DOMAIN watchers = DOMAIN config
  /\ setup' = "done"
  /\ UNCHANGED <<config, chain, unread, awaited, configs, watchers, started, panicked>>

\* Faulty variant: the goroutines share the loop's variable, and start what it has last.
StartWatcher_Captured(c) ==
  /\ setup \in {"done", "failed"} /\ ~panicked /\ c \in DOMAIN watchers \ started
  /\ LET w == CHOOSE d \in DOMAIN watchers : TRUE
     IN  started' = started \cup {w} /\ panicked' = (config[w].PollingInterval <= 0)
  /\ UNCHANGED <<config, setup, chain, unread, awaited, configs, watchers>>

\* Each watcher that setupWatchers returned is started in a goroutine of its own.
\* time.NewTicker panics unless its interval is positive.
StartWatcher(c) ==
  /\ setup \in {"done", "failed"} /\ ~panicked /\ c \in DOMAIN watchers \ started
  /\ started' = started \cup {c} /\ panicked' = (config[c].PollingInterval <= 0)
  /\ UNCHANGED <<config, setup, chain, unread, awaited, configs, watchers>>

\* All is started, and RunWatcher waits for a signal; or the process is gone.
Waiting ==
  /\ panicked \/ (setup \in {"done", "failed"} /\ DOMAIN watchers = started)
  /\ UNCHANGED vars

Next ==
  \/ LoadConfiguration \/ OpenFails \/ OpenStore
  \/ \E c \in DOMAIN config : Dial(c) \/ StartWatcher(c)
  \/ \E k \in Contracts : Configure(k) \/ CallToken(k) \/ TokenReturns(k)
  \/ SetupFails \/ NewWatcher \/ SetupReturns
  \/ Waiting

Spec == Init /\ [][Next]_vars

\* The one goroutine of setupWatchers runs, and so do those that start the watchers:
\* opening the database and Dial come back in some way. The answer to a Token call, for
\* which the code has no timeout, may never come.
FairSpec == Spec /\ WF_vars(awaited = {} /\ Next)

-----------------------------------------------------------------------------
\* No watcher is started unless every chain of the configuration has one: a chain
\* that cannot be set up, early or late, keeps all the others from being watched.
AllOrNone == started # {} => DOMAIN watchers = DOMAIN config

\* In whatever order the maps are read: every contract of a known type has the
\* handlers of that type (of one of the types, if its address is listed twice) in
\* the watcher of its own chain, and no other address of that watcher has any.
WatchedAsConfigured ==
  \A c \in started :
    /\ \A k \in config[c].Contracts : Known(k) =>
         /\ Address[k] \in DOMAIN watchers[c]
         /\ \E j \in config[c].Contracts :
              Known(j) /\ Address[j] = Address[k] /\ watchers[c][Address[k]] = ContractHandler(j).EventHandlers
    /\ \A a \in DOMAIN watchers[c] : watchers[c][a] # {} =>
         \E k \in config[c].Contracts : Known(k) /\ Address[k] = a

\* What a damaged file can do in silence: of the values that are absent or of another
\* type, a url keeps every chain from being watched and a pollingInterval ends the
\* process. No chain is left out, or watched at no address or interval, next to others
\* that are watched. (A lost "contracts", "startBlock" or "maxBlockSpan" is not noticed.)
LossesAreNoticed ==
  started # {} /\ ~panicked =>
    /\ DOMAIN watchers = Chains
    /\ \A c \in Chains : config[c].Url
    /\ \A c \in started : config[c].PollingInterval > 0

\* The ways the start up may end: nothing is watched because a chain could not be set up;
\* all is watched, for which every chain needs a url and an interval; or all chains could
\* be set up, and one without a positive interval has ended the process for all.
NoneWatched == setup = "failed" /\ started = {}
AllWatched ==
  /\ setup = "done" /\ started = DOMAIN config /\ ~panicked
  /\ \A c \in DOMAIN config : config[c].Url /\ config[c].PollingInterval > 0
EndedByInterval ==
  /\ setup = "done" /\ panicked
  /\ \A c \in DOMAIN config : config[c].Url
  /\ \E c \in DOMAIN config : config[c].PollingInterval <= 0

\* Once the database is open the start up ends in one of these ways and stays there, or
\* hangs on one contract that never answers for its Token: then no chain is ever watched.
ComesUp ==
  setup = "running" ~>
    [](\/ NoneWatched \/ AllWatched \/ EndedByInterval
       \/ awaited # {} /\ started = {})

\* Claimed by the message "Starting watcher for contract", logged for every entry:
\* the events of every contract of a started watcher are handled.
StartedContractsAreWatched ==
  \A c \in started : \A k \in config[c].Contracts :
    Address[k] \in DOMAIN watchers[c] /\ watchers[c][Address[k]] # {}

=============================================================================
