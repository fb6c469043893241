---------------------------- MODULE SetupProofs ----------------------------
(***************************************************************************)
(* For every configuration, and any errors on the way: watching is all or  *)
(* nothing, and what is watched is what was configured.                    *)
(***************************************************************************)
EXTENDS Setup, TLAPS, SequenceTheorems, FiniteSetTheorems, WellFoundedInduction

NoWatchers == [c \in {} |-> {}]

\* What has been built and started in each phase.
Phases ==
  /\ setup \in {"loading", "opening", "running", "done", "failed"}
  /\ setup \in {"loading", "opening"} => watchers = NoWatchers
  /\ setup # "done" => started = {}
  /\ setup = "done" => DOMAIN watchers = DOMAIN config
  /\ setup = "failed" => watchers = NoWatchers

LEMMA InitEstablishes == Init => Phases
  BY DEF Init, Phases, NoWatchers

LEMMA StepPreserves == Phases /\ [Next]_vars => Phases'
<1> SUFFICES ASSUME Phases, [Next]_vars PROVE Phases'
  OBVIOUS
<1>1. CASE LoadConfiguration \/ OpenStore
  BY <1>1 DEF LoadConfiguration, OpenStore, Phases
<1>2. CASE OpenFails \/ Waiting \/ UNCHANGED vars
  BY <1>2 DEF OpenFails, Waiting, vars, Phases
<1>3. CASE \E c \in DOMAIN config : Dial(c)
  BY <1>3 DEF Dial, Phases
<1>4. CASE \E k \in Contracts : Configure(k) \/ CallToken(k) \/ TokenReturns(k)
  BY <1>4 DEF Configure, CallToken, TokenReturns, Phases
<1>5. CASE SetupFails
  BY <1>5 DEF SetupFails, Phases, NoWatchers
<1>6. CASE NewWatcher
  BY <1>6 DEF NewWatcher, Phases
<1>7. CASE SetupReturns
  BY <1>7 DEF SetupReturns, Phases
\* After a failure there is no watcher to start.
<1>8. CASE \E c \in DOMAIN config : StartWatcher(c)
  <2>1. setup = "done"
    BY <1>8 DEF StartWatcher, Phases, NoWatchers
  <2> QED
    BY <1>8, <2>1 DEF StartWatcher, Phases
<1> QED
  BY <1>1, <1>2, <1>3, <1>4, <1>5, <1>6, <1>7, <1>8 DEF Next

\* A chain or a contract that cannot be set up keeps every chain from being watched,
\* in whatever order they are read.
THEOREM WatchingIsAllOrNone == Spec => []AllOrNone
<1>1. Spec => []Phases
  BY InitEstablishes, StepPreserves, PTL DEF Spec
<1>2. Phases => AllOrNone
  BY DEF Phases, AllOrNone
<1> QED
  BY <1>1, <1>2, PTL

-----------------------------------------------------------------------------
\* The last of a set of places in a sequence.
LEMMA LastExists ==
  ASSUME NEW n \in Nat, NEW I \in SUBSET (1..n), I # {}
  PROVE  Max(I) \in I
<1>0. \A i \in I : i \in Nat /\ n - i \in Nat
  OBVIOUS
<1> DEFINE R == {p \in Nat \X Nat : p[1] < p[2]}
           T == {n - i : i \in I}
<1>1. IsWellFoundedOn(R, Nat)
  <2>1. IsWellFoundedOn(OpToRel(<, Nat), Nat)
    BY NatLessThanWellFounded
  <2> QED
    BY <2>1 DEF OpToRel
<1>2. T \subseteq Nat /\ T # {}
  BY <1>0
<1>3. \E x \in T : \A y \in T : <<y, x>> \notin R
  <2> HIDE DEF R, T
  <2> QED
    BY <1>1, <1>2, WFMin
<1>4. PICK x \in T : \A y \in T : <<y, x>> \notin R
  BY <1>3
<1>5. \A y \in T : x <= y
  <2> SUFFICES ASSUME NEW y \in T PROVE x <= y
    OBVIOUS
  <2>1. x \in Nat /\ y \in Nat /\ <<y, x>> \notin R
    BY <1>2, <1>4
  <2>2. ~(y < x)
    BY <2>1
  <2> QED
    BY <2>1, <2>2
<1>6. PICK i \in I : x = n - i
  OBVIOUS
<1>7. \A j \in I : i >= j
  <2> SUFFICES ASSUME NEW j \in I PROVE i >= j
    OBVIOUS
  <2>1. i \in Nat /\ j \in Nat
    BY <1>0
  <2>2. n - i <= n - j
    BY <1>5, <1>6
  <2> HIDE DEF R, T
  <2> QED
    BY <2>1, <2>2
<1> QED
  BY <1>7 DEF Max

\* The ContractConfigs that setupWatchers may make.
Conf == {ContractHandler(k) : k \in Contracts}

\* NewWatcher's table has every address of the list, and what it has there is an
\* entry of the list.
LEMMA TableOfConfigs ==
  ASSUME configs \in Seq(Conf)
  PROVE  /\ DOMAIN addressToHandlers = {configs[i].Address : i \in 1..Len(configs)}
         /\ \A a \in DOMAIN addressToHandlers : \E i \in 1..Len(configs) :
              configs[i].Address = a /\ addressToHandlers[a] = configs[i].EventHandlers
<1>1. DOMAIN configs = 1..Len(configs) /\ Len(configs) \in Nat
  BY LenProperties
<1>2. DOMAIN addressToHandlers = {configs[i].Address : i \in 1..Len(configs)}
  BY <1>1 DEF addressToHandlers, ToSet
<1>3. ASSUME NEW a \in DOMAIN addressToHandlers
      PROVE  \E i \in 1..Len(configs) :
               configs[i].Address = a /\ addressToHandlers[a] = configs[i].EventHandlers
  <2> DEFINE I == {i \in 1..Len(configs) : configs[i].Address = a}
  <2>1. I # {}
    BY <1>2
  <2>2. Max(I) \in I
    BY <1>1, <2>1, LastExists
  <2>3. addressToHandlers[a] = configs[Max(I)].EventHandlers
    <3>1. SelectLastInSeq(configs, LAMBDA contract : contract.Address = a) = Max(I)
      BY <2>1 DEF SelectLastInSeq
    <3>2. a \in {contract.Address : contract \in ToSet(configs)}
      BY <1>1, <1>2 DEF ToSet
    <3> QED
      BY <3>1, <3>2 DEF addressToHandlers
  <2> QED
    BY <2>2, <2>3
<1> QED
  BY <1>2, <1>3

\* The body of WatchedAsConfigured, for a table of one chain.
Right(c, table) ==
  /\ \A k \in config[c].Contracts : Known(k) =>
       /\ Address[k] \in DOMAIN table
       /\ \E j \in config[c].Contracts :
            Known(j) /\ Address[j] = Address[k] /\ table[Address[k]] = ContractHandler(j).EventHandlers
  /\ \A a \in DOMAIN table : table[a] # {} =>
       \E k \in config[c].Contracts : Known(k) /\ Address[k] = a

\* While a chain is set up, its list holds an entry for each contract read, and no other.
Reading ==
  chain # NoChain =>
    /\ unread \subseteq config[chain].Contracts
    /\ \A i \in 1..Len(configs) : \E k \in config[chain].Contracts : configs[i] = ContractHandler(k)
    /\ \A k \in config[chain].Contracts \ unread :
         \E i \in 1..Len(configs) : configs[i] = ContractHandler(k)

\* At most one entry, one of the chain in progress, waits for its Token.
Calling ==
  /\ awaited \in {{}} \cup {{k} : k \in unread}
  /\ chain = NoChain => awaited = {} /\ (setup # "failed" => unread = {})

Built ==
  /\ Phases
  /\ Calling
  /\ NoChain \notin DOMAIN config
  /\ \A c \in DOMAIN config : config[c].Contracts \subseteq Contracts
  /\ chain # NoChain => setup = "running" /\ chain \in DOMAIN config
  /\ configs \in Seq(Conf)
  /\ Reading
  /\ started \subseteq DOMAIN watchers
  /\ \A c \in DOMAIN watchers : Right(c, watchers[c])

\* An unknown type makes the zero ContractConfig, whose address no contract has.
LEMMA ZeroIsNobody ==
  ASSUME NEW k \in Contracts
  PROVE  /\ Known(k) => ContractHandler(k).Address = Address[k]
         /\ ~Known(k) => /\ ContractHandler(k).Address = ZeroAddress
                         /\ ContractHandler(k).EventHandlers = {}
         /\ Address[k] # ZeroAddress
  BY SetupAssumption
  DEF Known, ContractHandler, OrderbookConfig, HTLCConfig, NoConfig, SetupAssumption

\* When all entries are read, the table that NewWatcher makes is right.
LEMMA TableIsRight ==
  ASSUME Built, chain # NoChain, unread = {} PROVE Right(chain, addressToHandlers)
<1> DEFINE table == addressToHandlers
           own == config[chain].Contracts
<1>1. own \subseteq Contracts
  BY DEF Built
<1>2. /\ DOMAIN table = {configs[i].Address : i \in 1..Len(configs)}
      /\ \A a \in DOMAIN table : \E i \in 1..Len(configs) :
           configs[i].Address = a /\ table[a] = configs[i].EventHandlers
  BY TableOfConfigs DEF Built
<1> HIDE DEF table
<1>3. /\ \A i \in 1..Len(configs) : \E k \in own : configs[i] = ContractHandler(k)
      /\ \A k \in own : \E i \in 1..Len(configs) : configs[i] = ContractHandler(k)
  BY DEF Built, Reading
<1>4. \A a \in DOMAIN table : \E j \in own :
        ContractHandler(j).Address = a /\ table[a] = ContractHandler(j).EventHandlers
  <2> SUFFICES ASSUME NEW a \in DOMAIN table
               PROVE  \E j \in own : ContractHandler(j).Address = a
                                    /\ table[a] = ContractHandler(j).EventHandlers
    OBVIOUS
  <2>1. PICK i \in 1..Len(configs) :
               configs[i].Address = a /\ table[a] = configs[i].EventHandlers
    BY <1>2
  <2>2. PICK j \in own : configs[i] = ContractHandler(j)
    BY <1>3, <2>1
  <2> QED
    BY <2>1, <2>2
<1>5. ASSUME NEW k \in own, Known(k)
      PROVE  /\ Address[k] \in DOMAIN table
             /\ \E j \in own : /\ Known(j) /\ Address[j] = Address[k]
                               /\ table[Address[k]] = ContractHandler(j).EventHandlers
  <2>1. Address[k] \in DOMAIN table
    BY <1>1, <1>2, <1>3, <1>5, ZeroIsNobody
  <2>2. PICK j \in own : /\ ContractHandler(j).Address = Address[k]
                         /\ table[Address[k]] = ContractHandler(j).EventHandlers
    BY <1>4, <2>1
  <2>3. Known(j) /\ Address[j] = Address[k]
    BY <1>1, <2>2, ZeroIsNobody
  <2> QED
    BY <2>1, <2>2, <2>3
<1>6. ASSUME NEW a \in DOMAIN table, table[a] # {}
      PROVE  \E k \in own : Known(k) /\ Address[k] = a
  BY <1>1, <1>4, <1>6, ZeroIsNobody
<1> QED
  BY <1>5, <1>6 DEF Right, table

LEMMA InitBuilds == Init => Built
  BY InitEstablishes, EmptySeq DEF Init, Built, Reading, Calling

\* The configuration is read once, before anything is built from it.
LEMMA LoadBuilds ==
  ASSUME Built, LoadConfiguration PROVE Built'
<1>1. Phases'
  BY StepPreserves DEF Built, Next
<1>2. /\ setup = "loading" /\ watchers = NoWatchers /\ chain = NoChain
      /\ UNCHANGED <<chain, unread, awaited, configs, watchers, started>>
  BY DEF LoadConfiguration, Built, Phases
<1>3. /\ NoChain \notin DOMAIN config'
      /\ \A c \in DOMAIN config' : config'[c].Contracts \subseteq Contracts
  <2>1. CASE config' = [c \in {} |-> {}]
    BY <2>1
  <2>2. ASSUME NEW lost \in SUBSET Doubtful,
               config' = [c \in Chains |-> Decoded(c, {key \in Keys : <<c, key>> \in lost})]
        PROVE  /\ NoChain \notin DOMAIN config'
               /\ \A c \in DOMAIN config' : config'[c].Contracts \subseteq Contracts
    <3>1. \A c, some : Decoded(c, some).Contracts \subseteq Contracts
      BY DEF Decoded, EntriesOf
    <3> QED
      BY <2>2, <3>1, SetupAssumption DEF SetupAssumption
  <2> QED
    BY <2>1, <2>2 DEF LoadConfiguration
<1>4. \A c \in DOMAIN watchers' : FALSE
  BY <1>2 DEF NoWatchers
<1>5. configs' \in Seq(Conf) /\ Reading' /\ started' \subseteq DOMAIN watchers' /\ chain' = NoChain
  BY <1>2 DEF Built, Reading
<1>6. Calling'
  BY <1>2 DEF Built, Calling
<1> QED
  BY <1>1, <1>3, <1>4, <1>5, <1>6 DEF Built

LEMMA ConfigureBuilds ==
  ASSUME Built, NEW k \in Contracts, Configure(k) \/ TokenReturns(k) PROVE Built'
<1>1. Phases'
  BY StepPreserves DEF Built, Next
<1>2. /\ configs' = Append(configs, ContractHandler(k)) /\ unread' = unread \ {k} /\ k \in unread
      /\ awaited' = {}
      /\ UNCHANGED <<config, setup, chain, watchers, started>>
  BY DEF Configure, TokenReturns, Built, Calling
<1>3. ContractHandler(k) \in Conf
  BY DEF Conf
<1>4. /\ configs' \in Seq(Conf) /\ Len(configs') = Len(configs) + 1 /\ Len(configs) \in Nat
      /\ \A i \in 1..Len(configs) : configs'[i] = configs[i]
      /\ configs'[Len(configs) + 1] = ContractHandler(k)
  BY <1>2, <1>3, AppendProperties, LenProperties DEF Built
<1>5. Reading'
  <2> SUFFICES ASSUME chain # NoChain
               PROVE  /\ unread' \subseteq config[chain].Contracts
                      /\ \A i \in 1..Len(configs') :
                           \E j \in config[chain].Contracts : configs'[i] = ContractHandler(j)
                      /\ \A j \in config[chain].Contracts \ unread' :
                           \E i \in 1..Len(configs') : configs'[i] = ContractHandler(j)
    BY <1>2 DEF Reading
  <2>1. unread \subseteq config[chain].Contracts
    BY DEF Built, Reading
  <2>2. ASSUME NEW i \in 1..Len(configs')
        PROVE  \E j \in config[chain].Contracts : configs'[i] = ContractHandler(j)
    <3>1. CASE i \in 1..Len(configs)
      BY <1>4, <3>1 DEF Built, Reading
    <3>2. CASE i = Len(configs) + 1
      BY <1>2, <1>4, <2>1, <3>2
    <3> QED
      BY <1>4, <3>1, <3>2
  <2>3. ASSUME NEW j \in config[chain].Contracts \ unread'
        PROVE  \E i \in 1..Len(configs') : configs'[i] = ContractHandler(j)
    <3>1. CASE j = k
      BY <1>4, <3>1
    <3>2. CASE j # k
      <4>1. PICK i \in 1..Len(configs) : configs[i] = ContractHandler(j)
        BY <1>2, <3>2 DEF Built, Reading
      <4> QED
        BY <1>4, <4>1
    <3> QED
      BY <3>1, <3>2
  <2> QED
    BY <1>2, <2>1, <2>2, <2>3
<1> QED
  BY <1>1, <1>2, <1>4, <1>5 DEF Built, Calling, Right

LEMMA CallTokenBuilds ==
  ASSUME Built, NEW k \in Contracts, CallToken(k) PROVE Built'
<1>1. Phases'
  BY StepPreserves DEF Built, Next
<1>2. /\ setup = "running" /\ k \in unread /\ awaited' = {k}
      /\ UNCHANGED <<config, setup, chain, unread, configs, watchers, started>>
  BY DEF CallToken
<1>3. chain # NoChain
  BY <1>2 DEF Built, Calling
<1>4. Calling'
  BY <1>2, <1>3 DEF Calling
<1>5. Reading'
  BY <1>2 DEF Built, Reading
<1> QED
  BY <1>1, <1>2, <1>4, <1>5 DEF Built, Right

LEMMA NewWatcherBuilds ==
  ASSUME Built, NewWatcher PROVE Built'
<1>1. Phases'
  BY StepPreserves DEF Built, Next
<1>2. /\ chain # NoChain /\ unread = {} /\ chain' = NoChain
      /\ watchers' = [c \in DOMAIN watchers \cup {chain} |->
                        IF c = chain THEN addressToHandlers ELSE watchers[c]]
      /\ UNCHANGED <<config, setup, unread, awaited, configs, started>>
  BY DEF NewWatcher
<1>3. \A c \in DOMAIN watchers' : Right(c, watchers'[c])
  BY <1>2, TableIsRight DEF Built
<1>4. (\A c \in DOMAIN watchers : Right(c, watchers[c]))'
  <2>1. config' = config
    BY <1>2
  <2> QED
    BY <1>3, <2>1 DEF Right
<1>5. /\ configs' \in Seq(Conf) /\ Reading' /\ started' \subseteq DOMAIN watchers'
      /\ Calling'
  BY <1>2 DEF Built, Reading, Calling
<1> QED
  BY <1>1, <1>2, <1>4, <1>5 DEF Built

LEMMA StepBuilds == Built /\ [Next]_vars => Built'
<1> SUFFICES ASSUME Built, [Next]_vars PROVE Built'
  OBVIOUS
<1>1. Phases'
  BY StepPreserves DEF Built
<1>2. CASE OpenFails \/ OpenStore \/ SetupReturns \/ Waiting \/ UNCHANGED vars
  BY <1>1, <1>2
  DEF OpenFails, OpenStore, SetupReturns, Waiting, vars, Built, Phases, Reading, Calling, Right
<1>3. ASSUME NEW c \in DOMAIN config, Dial(c) PROVE Built'
  <2>1. awaited' = {} /\ chain' # NoChain
    BY <1>3 DEF Dial, Built, Calling
  <2> QED
    BY <1>1, <1>3, <2>1, EmptySeq DEF Dial, Built, Reading, Calling, Right
<1>4. CASE \E c \in DOMAIN config : StartWatcher(c)
  BY <1>1, <1>4 DEF StartWatcher, Built, Reading, Calling, Right
<1>5. CASE SetupFails
  <2>1. /\ setup' = "failed" /\ started' = {} /\ chain' = NoChain /\ awaited' = {}
        /\ UNCHANGED <<config, configs>>
        /\ \A c \in DOMAIN watchers' : FALSE
    BY <1>5 DEF SetupFails, Built, Phases
  <2> QED
    BY <1>1, <2>1 DEF Built, Reading, Calling
<1> QED
  BY <1>2, <1>3, <1>4, <1>5, LoadBuilds, ConfigureBuilds, CallTokenBuilds, NewWatcherBuilds
  DEF Next

\* In whatever order chains and contracts are read, and whatever the file lacks: a
\* watcher that is started has the handlers of its own contracts, and no others.
THEOREM WatchedIsConfigured == Spec => []WatchedAsConfigured
<1>1. Spec => []Built
  BY InitBuilds, StepBuilds, PTL DEF Spec
<1>2. Built => WatchedAsConfigured
  BY DEF Built, WatchedAsConfigured, Right
<1> QED
  BY <1>1, <1>2, PTL

-----------------------------------------------------------------------------
\* The list of the chain in progress and what is still unread make up its contracts.
Listed ==
  chain # NoChain => Len(configs) + Cardinality(unread) = Cardinality(config[chain].Contracts)

LEMMA ContractsFinite ==
  \A S : S \subseteq Contracts => IsFiniteSet(S) /\ Cardinality(S) \in Nat
  BY SetupAssumption, FS_Subset, FS_CardinalityType DEF SetupAssumption

LEMMA ListedStep == ASSUME Built, Listed, unread \subseteq Contracts, [Next]_vars PROVE Listed'
<1>1. CASE LoadConfiguration \/ OpenStore \/ OpenFails
  <2>1. chain' = NoChain
    BY <1>1 DEF LoadConfiguration, OpenStore, OpenFails, Built, Phases
  <2> QED
    BY <2>1 DEF Listed
<1>2. ASSUME NEW c \in DOMAIN config, Dial(c) PROVE Listed'
  <2>1. chain' = c /\ unread' = config[c].Contracts /\ configs' = <<>> /\ config' = config
    BY <1>2 DEF Dial
  <2>2. Len(configs') = 0 /\ Cardinality(unread') \in Nat
    BY <2>1, EmptySeq, ContractsFinite DEF Built
  <2> QED
    BY <2>1, <2>2 DEF Listed
<1>3. ASSUME NEW k \in Contracts, Configure(k) \/ TokenReturns(k) PROVE Listed'
  <2>1. /\ configs' = Append(configs, ContractHandler(k)) /\ unread' = unread \ {k} /\ k \in unread
        /\ UNCHANGED <<config, chain>>
    BY <1>3 DEF Configure, TokenReturns, Built, Calling
  <2>2. Len(configs') = Len(configs) + 1 /\ Len(configs) \in Nat
    BY <1>3, <2>1, AppendProperties, LenProperties DEF Built, Conf
  <2>3. Cardinality(unread') = Cardinality(unread) - 1 /\ Cardinality(unread) \in Nat
    BY <2>1, ContractsFinite, FS_RemoveElement
  <2> QED
    BY <2>1, <2>2, <2>3 DEF Listed
<1>4. CASE SetupFails \/ NewWatcher
  <2>1. chain' = NoChain
    BY <1>4 DEF SetupFails, NewWatcher
  <2> QED
    BY <2>1 DEF Listed
<1>5. CASE \/ SetupReturns \/ Waiting \/ UNCHANGED vars
           \/ \E c \in DOMAIN config : StartWatcher(c)
           \/ \E k \in Contracts : CallToken(k)
  BY <1>5 DEF SetupReturns, Waiting, vars, StartWatcher, CallToken, Listed
<1> QED
  BY <1>1, <1>2, <1>3, <1>4, <1>5 DEF Next

\* No chain of the file is lost on the way, or all are; what was read of one is a part of it.
Read ==
  /\ DOMAIN config \in {{}, Chains}
  /\ \A c \in DOMAIN config :
       config[c].Contracts \subseteq EntriesOf(c) /\ config[c].PollingInterval \in Int

LEMMA ReadStep == ASSUME Read, [Next]_vars PROVE Read'
<1>1. CASE LoadConfiguration
  <2>1. CASE config' = [c \in {} |-> {}]
    BY <2>1 DEF Read
  <2>2. ASSUME NEW lost \in SUBSET Doubtful,
               config' = [c \in Chains |-> Decoded(c, {key \in Keys : <<c, key>> \in lost})]
        PROVE  Read'
    <3>1. DOMAIN config' = Chains
      BY <2>2
    <3>2. ASSUME NEW c \in Chains
          PROVE  config'[c].Contracts \subseteq EntriesOf(c) /\ config'[c].PollingInterval \in Int
      BY <2>2, SetupAssumption DEF Decoded, SetupAssumption
    <3> QED
      BY <3>1, <3>2 DEF Read, EntriesOf
  <2> QED
    BY <1>1, <2>1, <2>2 DEF LoadConfiguration
<1>2. CASE config' = config
  BY <1>2 DEF Read, EntriesOf
<1>3. ~LoadConfiguration => config' = config
  BY DEF Next, OpenStore, OpenFails, Dial, StartWatcher, Configure, CallToken,
    TokenReturns, SetupFails, NewWatcher, SetupReturns, Waiting, vars
<1> QED
  BY <1>1, <1>2, <1>3

\* The rest of TypeOK.
Typed ==
  /\ chain \in Chains \cup {NoChain}
  /\ unread \subseteq Contracts
  /\ DOMAIN watchers \subseteq DOMAIN config
  /\ panicked \in BOOLEAN
  /\ Listed

LEMMA TypedStep == ASSUME Built, Read, Typed, [Next]_vars PROVE Typed'
<1>1. Listed'
  BY ListedStep DEF Typed
<1>2. (chain \in Chains \cup {NoChain})' /\ (unread \subseteq Contracts)'
  BY DEF Next, LoadConfiguration, OpenStore, OpenFails, Dial, StartWatcher, Configure, CallToken,
    TokenReturns, SetupFails, NewWatcher, SetupReturns, Waiting, vars, Typed, Read, EntriesOf
<1>3. (DOMAIN watchers \subseteq DOMAIN config)'
  <2>1. CASE LoadConfiguration \/ SetupFails
    <3>1. watchers' = NoWatchers
      BY <2>1 DEF LoadConfiguration, SetupFails, Built, Phases, NoWatchers
    <3> QED
      BY <3>1 DEF NoWatchers
  <2>2. CASE NewWatcher
    BY <2>2 DEF NewWatcher, Built, Typed
  <2>3. CASE UNCHANGED <<config, watchers>>
    BY <2>3 DEF Typed
  <2> QED
    BY <2>1, <2>2, <2>3 DEF Next, OpenStore, OpenFails, Dial, StartWatcher, Configure, CallToken,
      TokenReturns, SetupReturns, Waiting, vars
<1>4. panicked' \in BOOLEAN
  <2>1. CASE \E c \in DOMAIN config : StartWatcher(c)
    <3>1. PICK c \in DOMAIN config : panicked' = (config[c].PollingInterval <= 0)
      BY <2>1 DEF StartWatcher
    <3>2. panicked' = TRUE \/ panicked' = FALSE
      BY <3>1
    <3> QED
      BY <3>2
  <2>2. CASE panicked' \in {panicked, TRUE}
    BY <2>2, Zenon DEF Typed
  <2> QED
    BY <2>1, <2>2 DEF Next, LoadConfiguration, OpenStore, OpenFails, Dial, Configure, CallToken,
      TokenReturns, SetupFails, NewWatcher, SetupReturns, Waiting, vars
<1> QED
  BY <1>1, <1>2, <1>3, <1>4 DEF Typed

LEMMA SetupInvariance == Spec => [](Built /\ Read /\ Typed)
<1>1. Init => Built /\ Read /\ Typed
  BY InitBuilds DEF Init, Read, Typed, Listed
<1>2. Built /\ Read /\ Typed /\ [Next]_vars => (Built /\ Read /\ Typed)'
  BY StepBuilds, ReadStep, TypedStep
<1> QED
  BY <1>1, <1>2, PTL DEF Spec

\* Any configuration and any order: the lists and tables are made of what the file has
\* for their chain, and no entry of the chain in progress is lost or read twice.
THEOREM TypeCorrect == Spec => []TypeOK
<1>1. Built /\ Read /\ Typed => TypeOK
  <2> SUFFICES ASSUME Built, Read, Typed PROVE TypeOK
    OBVIOUS
  <2>1. \A i \in DOMAIN configs :
          configs[i] \in [Address : {Address[k] : k \in Contracts} \cup {ZeroAddress},
                          EventHandlers : SUBSET Events]
    <3>1. DOMAIN configs = 1..Len(configs) /\ \A i \in 1..Len(configs) : configs[i] \in Conf
      BY LenProperties, ElementOfSeq DEF Built
    <3>2. \A k \in Contracts :
            ContractHandler(k) \in [Address : {Address[j] : j \in Contracts} \cup {ZeroAddress},
                                    EventHandlers : SUBSET Events]
      BY DEF ContractHandler, OrderbookConfig, HTLCConfig, NoConfig, Events
    <3> QED
      BY <3>1, <3>2 DEF Conf
  <2> QED
    BY <2>1 DEF TypeOK, Built, Phases, Calling, Read, Typed, Listed
<1> QED
  BY SetupInvariance, <1>1, PTL

\* A chain gets a watcher only if it can be dialled, and while the process lives only
\* watchers with an interval have been started.
Noticed ==
  /\ \A c \in DOMAIN watchers : config[c].Url
  /\ chain # NoChain => config[chain].Url
  /\ ~panicked => \A c \in started : config[c].PollingInterval > 0

LEMMA NoticedStep == ASSUME Built, Read, Noticed, [Next]_vars PROVE Noticed'
<1>1. CASE LoadConfiguration \/ OpenStore \/ SetupFails
  <2>1. /\ \A c \in DOMAIN watchers' : FALSE
        /\ chain' = NoChain /\ started' = {}
    BY <1>1 DEF LoadConfiguration, OpenStore, SetupFails, Built, Phases, NoWatchers
  <2> QED
    BY <2>1 DEF Noticed
<1>2. CASE OpenFails \/ SetupReturns \/ Waiting \/ UNCHANGED vars
  BY <1>2 DEF OpenFails, SetupReturns, Waiting, vars, Noticed
<1>3. CASE \E c \in DOMAIN config : Dial(c)
  BY <1>3 DEF Dial, Noticed
<1>4. CASE \E k \in Contracts : Configure(k) \/ CallToken(k) \/ TokenReturns(k)
  BY <1>4 DEF Configure, CallToken, TokenReturns, Noticed
<1>5. CASE NewWatcher
  BY <1>5 DEF NewWatcher, Noticed
<1>6. ASSUME NEW c \in DOMAIN config, StartWatcher(c) PROVE Noticed'
  <2>1. /\ ~panicked /\ started' = started \cup {c}
        /\ panicked' = (config[c].PollingInterval <= 0)
        /\ UNCHANGED <<config, chain, watchers>>
    BY <1>6 DEF StartWatcher
  <2>2. ASSUME ~panicked', NEW d \in started' PROVE config[d].PollingInterval > 0
    <3>1. CASE d = c
      <4>1. ~(config[c].PollingInterval <= 0)
        BY <2>1, <2>2
      <4>2. config[c].PollingInterval \in Int
        BY DEF Read
      <4> QED
        BY <3>1, <4>1, <4>2
    <3>2. CASE d \in started
      BY <2>1, <3>2 DEF Noticed
    <3> QED
      BY <2>1, <2>2, <3>1, <3>2
  <2> QED
    BY <2>1, <2>2 DEF Noticed
<1> QED
  BY <1>1, <1>2, <1>3, <1>4, <1>5, <1>6 DEF Next

\* However the file is damaged: while chains are watched, none of its chains has been left
\* out, and all that are watched have a url and a positive interval.
THEOREM LossesNeverSilent == Spec => []LossesAreNoticed
<1>1. Init => Noticed
  BY DEF Init, Noticed
<1>2. Built /\ Read /\ Noticed /\ [Next]_vars => Noticed'
  BY NoticedStep
<1>3. Spec => []Noticed
  BY SetupInvariance, <1>1, <1>2, PTL DEF Spec
<1>4. Built /\ Read /\ Noticed => LossesAreNoticed
  <2> SUFFICES ASSUME Built, Read, Noticed, started # {}, ~panicked
               PROVE  /\ DOMAIN watchers = Chains
                      /\ \A c \in Chains : config[c].Url
                      /\ \A c \in started : config[c].PollingInterval > 0
    BY DEF LossesAreNoticed
  <2>1. setup = "done" /\ DOMAIN watchers = DOMAIN config /\ started \subseteq DOMAIN config
    BY DEF Built, Phases
  <2>2. DOMAIN config = Chains
    BY <2>1 DEF Read
  <2> QED
    BY <2>1, <2>2 DEF Noticed
<1> QED
  BY SetupInvariance, <1>3, <1>4, PTL

=============================================================================
