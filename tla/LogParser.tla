------------------------------ MODULE LogParser ------------------------------
(***************************************************************************)
(* TransactionLogParser (transactionLogParser.go) as a poller uses it: the *)
(* poller of one chain decodes logs with the contracts of a ContractStore  *)
(* that all chains share, while the application adds and overrides         *)
(* contracts.                                                              *)
(*                                                                         *)
(* An event is [id, inputs]; its id stands for the hash of name and types, *)
(* which leaves out what is indexed.  An input is [name, type, indexed].   *)
(* The value of a parameter in a log is the input it was emitted for, so   *)
(* that a decoded log shows where each value came from.  A parameter takes *)
(* one word.                                                               *)
(***************************************************************************)
EXTENDS ContractStore

CONSTANTS
    ChainId,       \* the poller's chain
    Names,         \* names of contracts, as spelled
    Given,         \* the contracts the application may add or override with
    Loaded,        \* the lists it may create the store with
    Interesting,   \* the addresses it may have the poller watch, as spelled
    ChainIdLists,  \* the lists of chain ids it may override for
    Emitted,       \* address -> the events the contract there emits on the chain
    MaxContracts   \* bound on the length of the list

\* Every contract of the store has the ABI versions of one that was given.
ContractType ==
    [name : Spellings, address : Spellings, chainId : ChainIds,
     abiVersions : {c.abiVersions : c \in Given}]

IsSequence(s) == s \in Seq(ToSet(s))

ASSUME ParserAssumption ==
    /\ Given \subseteq ContractType
    /\ \A c \in Given :
          /\ IsSequence(c.abiVersions)
          /\ \A i \in DOMAIN c.abiVersions :
                c.abiVersions[i] \in {TooShort, Malformed} \/ IsSequence(c.abiVersions[i])
    /\ Loaded \subseteq Seq(Given)
    /\ Interesting \subseteq Spellings
    /\ ChainIdLists \subseteq Seq(ChainIds)
    /\ \A a \in Spellings : \A e \in Emitted[a] :
          IsSequence(e.inputs) /\ \A i \in DOMAIN e.inputs : e.inputs[i].indexed \in BOOLEAN
    /\ MaxContracts \in Nat

VARIABLES
    watched,             \* the addresses the poller asks for logs of
    lg,                  \* the log in hand, as a set: {} is none
    held,                \* the contract that was looked up for it, as a set
    decoded,             \* the log decoded last, as a set
    panicked,            \* a nil pointer was dereferenced: the process is gone
    \* history: the addresses that overrides have taken off the list, that were not
    \* on it when the poller was told of them, and that came on it unchecked
    movedFrom, unlisted, unchecked

parserVars == <<lg, held, decoded, panicked>>
historyVars == <<movedFrom, unlisted, unchecked>>
vars == <<contracts, watched, parserVars, historyVars>>

Listed(list) == {Lower[c.address] : c \in ToSet(list)}

\* The addresses that two contracts of one chain have in common.
Repeated(list) ==
    {Lower[list[i].address] :
       i \in {j \in DOMAIN list : \E k \in DOMAIN list \ {j} :
                /\ list[k].chainId = list[j].chainId
                /\ EqualFold(list[k].address, list[j].address)}}

\* The constructor takes its list as it is.
Init ==
    /\ contracts \in Loaded
    /\ watched = {}
    /\ lg = {} /\ held = {} /\ decoded = {} /\ panicked = FALSE
    /\ movedFrom = {} /\ unlisted = {} /\ unchecked = Repeated(contracts)

-----------------------------------------------------------------------------
(* The application *)

Add(c) ==
    /\ ~panicked /\ Len(contracts) < MaxContracts
    /\ AddContract(c)
    /\ UNCHANGED <<watched, parserVars, historyVars>>

Moved(contract) ==
    /\ movedFrom' = (movedFrom \cup Listed(contracts)) \ Listed(contracts')
    /\ unchecked' = unchecked \cup {Lower[contract.address]}
    /\ UNCHANGED unlisted

\* Mutant: the contracts are changed in place, under the hands of a parser.
OverrideInPlace(name, chainIds, contract) ==
    /\ ~panicked
    /\ OverrideContract(name, chainIds, contract)
    /\ Len(contracts') <= MaxContracts
    /\ Moved(contract)
    /\ held' = {IF Overridden(name, chainIds, h)
                  THEN [h EXCEPT !.address = contract.address,
                                 !.abiVersions = contract.abiVersions] ELSE h : h \in held}
    /\ UNCHANGED <<watched, lg, decoded, panicked>>

\* A contract that is replaced leaves the list; a parser may still hold it.
Override(name, chainIds, contract) ==
    /\ ~panicked
    /\ OverrideContract(name, chainIds, contract)
    /\ Len(contracts') <= MaxContracts
    /\ Moved(contract)
    /\ UNCHANGED <<watched, parserVars>>

Watches(addresses) ==
    /\ ~panicked /\ ~(addresses \subseteq watched)
    /\ watched' = watched \cup addresses
    /\ unlisted' = unlisted \cup (addresses \ Listed(contracts))
    /\ UNCHANGED <<contracts, parserVars, movedFrom, unchecked>>

\* The application has the poller watch any address it has configured or registered,
WatchAddress(address) == Watches({Lower[address]})

\* every contract of its chain,
WatchListed == Watches(ListContractAddressesForChain(ChainId))

\* or the one of a name.
WatchNamed(name) ==
    \E c \in GetContractByNameForChainId(name, ChainId) : Watches({Lower[c.address]})

-----------------------------------------------------------------------------
(* DecodeLog *)

\* The inputs of an event that are indexed, or that are not, in their order.
InputsOf(e, indexed) ==
    LET taken[n \in 0 .. Len(e.inputs)] ==
          IF n = 0 THEN <<>>
          ELSE IF e.inputs[n].indexed = indexed THEN Append(taken[n - 1], e.inputs[n])
          ELSE taken[n - 1]
    IN  taken[Len(e.inputs)]

\* An event without an id is one that is emitted without topics.
LogOf(address, e) ==
    [address |-> address, event |-> e,
     topics |-> IF e.id = "" THEN <<>> ELSE <<e.id>> \o InputsOf(e, TRUE),
     data |-> InputsOf(e, FALSE)]

\* processBlockLogs takes the next log of those that were asked for.
Receive ==
    /\ ~panicked /\ lg = {}
    /\ \E a \in watched : \E e \in Emitted[a] : lg' = {LogOf(a, e)}
    /\ decoded' = {}
    /\ UNCHANGED <<contracts, watched, held, panicked, historyVars>>

\* The contract is looked up; GetAbi is called on what was found, nil or not.
LookUp ==
    /\ ~panicked /\ held = {}
    /\ \E l \in lg : held' = GetContractByAddress(l.address)
    /\ panicked' = (held' = {})
    /\ UNCHANGED <<contracts, watched, lg, decoded, historyVars>>

\* The library's map of events is searched in any order.
EventByID(abi, topics) ==
    {e \in abi : topics # <<>> /\ e.id = Head(topics)}

\* Of these types only a bool can be found badly encoded: no value then.
ParseLogValueForType(input, value) ==
    IF input.type = "bool" /\ value.type # "bool" THEN {} ELSE {value}

\* Mutant: one topic too many is skipped.
ArgumentsAfterSecondTopic(e, topics) ==
    [i \in DOMAIN e.inputs |->
       IF i + 2 \in DOMAIN topics THEN ParseLogValueForType(e.inputs[i], topics[i + 2]) ELSE {}]

\* The topics after the first go to the inputs by position.  There are no more of
\* them than inputs: the id, by which the event was found, stands for all its types.
Arguments(e, topics) ==
    [i \in DOMAIN e.inputs |->
       IF i + 1 \in DOMAIN topics THEN ParseLogValueForType(e.inputs[i], topics[i + 1]) ELSE {}]

\* The words of the data go to the inputs that are not indexed; too few are an error.
Unpacks(e, data) == Len(data) >= Len(InputsOf(e, FALSE))

UnpackIntoMap(e, data) ==
    LET inputs == InputsOf(e, FALSE)
    IN  {[name |-> inputs[i].name, value |-> data[i]] : i \in DOMAIN inputs}

\* The log is decoded and handed to HandleLog.
DecodeLog ==
    /\ ~panicked
    /\ \E l \in lg, c \in held :
          \E e \in EventByID(GetAbi(c), l.topics) :
             /\ Unpacks(e, l.data)
             /\ decoded' = {[log |-> l, contract |-> c,
                             arguments |-> Arguments(e, l.topics),
                             outputData |-> UnpackIntoMap(e, l.data)]}
    /\ lg' = {} /\ held' = {}
    /\ UNCHANGED <<contracts, watched, panicked, historyVars>>

\* Mutant: the next attempt has the same contract.
DecodeFailsWithCache ==
    /\ ~panicked
    /\ \E l \in lg, c \in held : EventByID(GetAbi(c), l.topics) = {}
    /\ UNCHANGED vars

\* An error ends processBlockLogs; the block, and so the log, is met again.
DecodeFails ==
    /\ ~panicked
    /\ \E l \in lg, c \in held :
          LET events == EventByID(GetAbi(c), l.topics)
          IN  events = {} \/ \E e \in events : ~Unpacks(e, l.data)
    /\ held' = {}
    /\ UNCHANGED <<contracts, watched, lg, decoded, panicked, historyVars>>

-----------------------------------------------------------------------------
Application ==
    \/ \E c \in Given : Add(c)
    \/ \E name \in Names, chainIds \in ChainIdLists, c \in Given : Override(name, chainIds, c)
    \/ \E address \in Interesting : WatchAddress(address)
    \/ WatchListed
    \/ \E name \in Names : WatchNamed(name)

Next == Application \/ Receive \/ LookUp \/ DecodeLog \/ DecodeFails

Spec == Init /\ [][Next]_vars

\* The poll loop goes on with a log it has, and comes back to it after an error.
FairSpec == Spec /\ WF_vars(LookUp \/ DecodeLog \/ DecodeFails)

-----------------------------------------------------------------------------
(* Properties *)

\* The events a contract's ABI versions declare, version by version.
Entries(c) == UNION {ToSet(c.abiVersions[i]) : i \in DOMAIN c.abiVersions}
DeclaredOnce(c, e) == {d \in Entries(c) : d.id = e.id} = {e}

IndexedFirst(e) ==
    \A i, j \in DOMAIN e.inputs : e.inputs[j].indexed /\ i < j => e.inputs[i].indexed

\* Every parameter of the event has the value it was emitted with.
InPlace(d) ==
    \A i \in DOMAIN d.log.event.inputs :
       LET input == d.log.event.inputs[i]
       IN  IF input.indexed THEN d.arguments[i] = {input}
                            ELSE [name |-> input.name, value |-> input] \in d.outputData

\* "Event Parsing: Decode transaction logs using contract ABIs with support for
\* multiple ABI versions" (README.md:9): when the contract's versions declare the
\* emitted event, and no other of its name and types, every parameter of a decoded
\* log has its own value (transactionLogParser.go:119, 144).
ValuesInPlace ==
    \A d \in decoded : DeclaredOnce(d.contract, d.log.event) => InPlace(d)

\* The same for events whose indexed inputs come first, where the position among
\* the topics is the position among the inputs: also when the contract was
\* overridden between the lookup and the decoding.
IndexedFirstInPlace ==
    \A d \in decoded :
       IndexedFirst(d.log.event) /\ DeclaredOnce(d.contract, d.log.event) => InPlace(d)

\* A log is decoded with a contract of its own address, whatever is overridden
\* while the parser holds it (inMemoryContractStore.go:87: a new contract, not a
\* change of the old one).
OwnContract == \A l \in lg, c \in held : EqualFold(c.address, l.address)

\* The nil that GetContractByAddress returns without an error
\* (inMemoryContractStore.go:52), on which DecodeLog calls GetAbi, is not met for an
\* address that was on the list, however spelled, when the poller was told to watch
\* it, and that no override has taken off the list since: the poller itself does not
\* ask the store (evmChainPoller.go:342), so this is what an application must see to.
ListedIsFound ==
    panicked => \E l \in lg : Lower[l.address] \in unlisted \cup movedFrom

\* Two contracts of one address on one chain come only of the list the store was
\* created with or of an override (inMemoryContractStore.go:22, 87, 102);
\* AddContract sees through spellings (line 119), also of contracts that were
\* overridden before.
AddRepeatsNothing == Repeated(contracts) \subseteq unchecked

\* A contract whose versions declare the event and can be put together: none is
\* broken, none empty, and no special function is in two of them.
Readable(c, e) ==
    /\ \A i \in DOMAIN c.abiVersions : c.abiVersions[i] \notin {TooShort, Malformed, <<>>}
    /\ \A i, j \in DOMAIN c.abiVersions :
          i # j => \A s \in ToSet(c.abiVersions[i]) \cap ToSet(c.abiVersions[j]) : s.inputs # <<>>
    /\ e.id # "" /\ DeclaredOnce(c, e)

\* A log that could not be decoded holds its poller up only as long as the ABI in
\* the store is wrong: once lookups find a contract that declares the event, in
\* whichever version, the log is decoded (evmChainPoller.go:292 comes back to it,
\* transactionLogParser.go:61 looks again).
RepairUnblocks ==
    <>[](\A l \in lg : \E c \in GetContractByAddress(l.address) : Readable(c, l.event)) =>
       []<>(lg = {} \/ panicked)

=============================================================================
