-------------------------- MODULE LogParserProofs --------------------------
(***************************************************************************)
(* Theorems about LogParser and the contract store it reads, for any       *)
(* contracts, spellings, chains and lists of chain ids, and any number of  *)
(* contracts added and overridden while a log is being decoded.            *)
(***************************************************************************)
EXTENDS LogParser, NaturalLemmas, TLAPS

-----------------------------------------------------------------------------
(* The store *)

StoreInv == contracts \in Seq(ContractType)

\* What an override makes of a contract it applies to.
Replaced(c, contract) ==
    [c EXCEPT !.address = contract.address, !.abiVersions = contract.abiVersions]

\* What an override puts in the place of a contract.
LEMMA ReplacedType ==
    ASSUME NEW c \in ContractType, NEW contract \in Given
    PROVE  /\ Replaced(c, contract) \in ContractType
           /\ Replaced(c, contract).address = contract.address
           /\ Replaced(c, contract).chainId = c.chainId
<1>1. contract \in ContractType
  BY ParserAssumption
<1> QED
  BY <1>1 DEF Replaced, ContractType

\* What an override adds when it applies to no contract.
AddedFor(chainIds, contract) == [i \in DOMAIN chainIds |-> [contract EXCEPT !.chainId = chainIds[i]]]

\* What an override adds for chains that had no such contract.
LEMMA AddedForType ==
    ASSUME NEW chainIds \in ChainIdLists, NEW contract \in Given
    PROVE  /\ AddedFor(chainIds, contract) \in Seq(ContractType)
           /\ Len(AddedFor(chainIds, contract)) = Len(chainIds)
           /\ \A i \in 1 .. Len(chainIds) : AddedFor(chainIds, contract)[i].address = contract.address
<1>1. chainIds \in Seq(ChainIds) /\ contract \in ContractType
  BY ParserAssumption
<1>2. DOMAIN chainIds = 1 .. Len(chainIds) /\ Len(chainIds) \in Nat
  BY <1>1
<1>3. ASSUME NEW i \in 1 .. Len(chainIds)
      PROVE  /\ [contract EXCEPT !.chainId = chainIds[i]] \in ContractType
             /\ [contract EXCEPT !.chainId = chainIds[i]].address = contract.address
  BY <1>1 DEF ContractType
<1>4. AddedFor(chainIds, contract) = [i \in 1 .. Len(chainIds) |-> [contract EXCEPT !.chainId = chainIds[i]]]
  BY <1>2 DEF AddedFor
<1> DEFINE added == AddedFor(chainIds, contract)
<1>5. added = [i \in 1 .. Len(chainIds) |-> added[i]]
  BY <1>4
<1>6. \A i \in 1 .. Len(chainIds) : added[i] \in ContractType /\ added[i].address = contract.address
  BY <1>3, <1>4
<1> HIDE DEF added
<1>7. added \in Seq(ContractType) /\ Len(added) = Len(chainIds)
  BY <1>2, <1>5, <1>6
<1> QED
  BY <1>6, <1>7 DEF added

\* The list after an override: every contract in it is one of before, or has the
\* address of the new one.
LEMMA OverrideEffect ==
    ASSUME StoreInv, NEW name \in Names, NEW chainIds \in ChainIdLists, NEW contract \in Given,
           OverrideContract(name, chainIds, contract)
    PROVE  /\ contracts' \in Seq(ContractType)
           /\ \A i \in DOMAIN contracts' :
                 \/ i \in DOMAIN contracts /\ contracts'[i] = contracts[i]
                 \/ contracts'[i].address = contract.address
<1>1. contracts \in Seq(ContractType) /\ DOMAIN contracts = 1 .. Len(contracts) /\ Len(contracts) \in Nat
  BY DEF StoreInv
<1>2. CASE \E c \in ToSet(contracts) : Overridden(name, chainIds, c)
  <2>1. contracts' = [i \in 1 .. Len(contracts) |->
                        IF Overridden(name, chainIds, contracts[i])
                          THEN Replaced(contracts[i], contract) ELSE contracts[i]]
    BY <1>1, <1>2 DEF OverrideContract, Replaced
  <2>2. \A i \in 1 .. Len(contracts) : contracts[i] \in ContractType
    BY <1>1
  <2> QED
    BY <1>1, <2>1, <2>2, ReplacedType
<1>3. CASE ~ \E c \in ToSet(contracts) : Overridden(name, chainIds, c)
  <2> DEFINE added == AddedFor(chainIds, contract)
  <2>1. contracts' = contracts \o added
    BY <1>3 DEF OverrideContract, AddedFor
  <2>2. added \in Seq(ContractType) /\ \A i \in DOMAIN added : added[i].address = contract.address
    BY AddedForType
  <2> HIDE DEF added
  <2> QED
    BY <1>1, <2>1, <2>2
<1> QED
  BY <1>2, <1>3

\* AddContract leaves the list as it is, or puts the contract at its end.
LEMMA AddEffect ==
    ASSUME StoreInv, NEW c \in Given, AddContract(c)
    PROVE  /\ contracts' \in Seq(ContractType)
           /\ \A i \in DOMAIN contracts' :
                 \/ i \in DOMAIN contracts /\ contracts'[i] = contracts[i]
                 \/ i = Len(contracts) + 1 /\ contracts'[i] = c
           /\ \A i \in DOMAIN contracts : i \in DOMAIN contracts' /\ contracts'[i] = contracts[i]
BY ParserAssumption DEF StoreInv, AddContract

\* StoreInv through every step.
LEMMA StoreStep ==
    ASSUME StoreInv, [Next]_vars
    PROVE  StoreInv'
<1>1. ASSUME NEW c \in Given, Add(c) PROVE StoreInv'
  BY <1>1, AddEffect DEF Add, StoreInv
<1>2. ASSUME NEW name \in Names, NEW chainIds \in ChainIdLists, NEW c \in Given,
             Override(name, chainIds, c)
      PROVE  StoreInv'
  BY <1>2, OverrideEffect DEF Override, StoreInv
<1>3. CASE contracts' = contracts
  BY <1>3 DEF StoreInv
<1> QED
  BY <1>1, <1>2, <1>3 DEF Next, Application, WatchAddress, WatchListed, WatchNamed,
                          Watches, Receive, LookUp, DecodeLog, DecodeFails, vars

\* StoreInv of a store that has just been created.
LEMMA StoreInit == Init => StoreInv
<1>1. Loaded \subseteq Seq(Given) /\ Given \subseteq ContractType
  BY ParserAssumption
<1>2. ASSUME NEW list \in Seq(Given) PROVE list \in Seq(ContractType)
  BY <1>1
<1> QED
  BY <1>1, <1>2 DEF Init, StoreInv

\* When two contracts have an address in common.
LEMMA RepeatedDef ==
    ASSUME NEW list, NEW a
    PROVE  a \in Repeated(list) <=>
              \E i, j \in DOMAIN list :
                 /\ i # j /\ a = Lower[list[i].address]
                 /\ list[j].chainId = list[i].chainId
                 /\ EqualFold(list[j].address, list[i].address)
BY DEF Repeated

\* Two contracts of one address on one chain come only of the list the store was
\* created with or of an override: what AddContract compares
\* (inMemoryContractStore.go:119) is enough, for any spellings and any history of
\* overrides.
THEOREM AddedContractsDiffer == Spec => []AddRepeatsNothing
<1>1. Init => StoreInv /\ AddRepeatsNothing
  BY StoreInit DEF Init, AddRepeatsNothing
<1>2. ASSUME StoreInv, AddRepeatsNothing, [Next]_vars
      PROVE  AddRepeatsNothing'
  <2>1. ASSUME NEW c \in Given, Add(c) PROVE AddRepeatsNothing'
    <3>1. AddContract(c) /\ unchecked' = unchecked
      BY <2>1 DEF Add, historyVars
    <3>2. ASSUME NEW i \in DOMAIN contracts', NEW j \in DOMAIN contracts', i # j,
                 contracts'[j].chainId = contracts'[i].chainId,
                 EqualFold(contracts'[j].address, contracts'[i].address)
          PROVE  Lower[contracts'[i].address] \in unchecked
      <4>1. CASE i \in DOMAIN contracts /\ j \in DOMAIN contracts
        <5>1. contracts'[i] = contracts[i] /\ contracts'[j] = contracts[j]
          BY <1>2, <3>1, <4>1, AddEffect
        <5>2. Lower[contracts[i].address] \in Repeated(contracts)
          BY <3>2, <4>1, <5>1, RepeatedDef
        <5> QED
          BY <1>2, <5>1, <5>2 DEF AddRepeatsNothing
      <4>2. CASE ~(i \in DOMAIN contracts /\ j \in DOMAIN contracts)
        <5>1. \E d \in ToSet(contracts) : d.chainId = c.chainId /\ EqualFold(d.address, c.address)
          BY <1>2, <3>1, <3>2, <4>2, AddEffect DEF EqualFold, ToSet
        <5>2. Known(c)
          BY <5>1 DEF Known
        <5>3. contracts' = contracts
          BY <3>1, <5>2 DEF AddContract
        <5> QED
          BY <4>2, <5>3
      <4> QED
        BY <4>1, <4>2
    <3>3. ASSUME NEW a \in Repeated(contracts') PROVE a \in unchecked
      <4>1. \E i, j \in DOMAIN contracts' :
               /\ i # j /\ a = Lower[contracts'[i].address]
               /\ contracts'[j].chainId = contracts'[i].chainId
               /\ EqualFold(contracts'[j].address, contracts'[i].address)
        BY <3>3, RepeatedDef
      <4> QED
        BY <3>2, <4>1
    <3> QED
      BY <3>1, <3>3 DEF AddRepeatsNothing, Repeated, EqualFold
  <2>2. ASSUME NEW name \in Names, NEW chainIds \in ChainIdLists, NEW c \in Given,
               Override(name, chainIds, c)
        PROVE  AddRepeatsNothing'
    <3>1. OverrideContract(name, chainIds, c) /\ unchecked' = unchecked \cup {Lower[c.address]}
      BY <2>2 DEF Override, Moved
    <3>2. \A i \in DOMAIN contracts' : \/ i \in DOMAIN contracts /\ contracts'[i] = contracts[i]
                                       \/ contracts'[i].address = c.address
      BY <1>2, <3>1, OverrideEffect
    <3>3. ASSUME NEW a \in Repeated(contracts') PROVE a \in unchecked'
      <4>1. PICK i \in DOMAIN contracts', j \in DOMAIN contracts' :
               /\ i # j /\ a = Lower[contracts'[i].address]
               /\ contracts'[j].chainId = contracts'[i].chainId
               /\ EqualFold(contracts'[j].address, contracts'[i].address)
        BY <3>3, RepeatedDef
      <4>2. CASE contracts'[i].address = c.address \/ contracts'[j].address = c.address
        BY <3>1, <4>1, <4>2 DEF EqualFold
      <4>3. CASE /\ i \in DOMAIN contracts /\ contracts'[i] = contracts[i]
                 /\ j \in DOMAIN contracts /\ contracts'[j] = contracts[j]
        <5>1. a \in Repeated(contracts)
          BY <4>1, <4>3, RepeatedDef
        <5> QED
          BY <1>2, <3>1, <5>1 DEF AddRepeatsNothing
      <4> QED
        BY <3>2, <4>1, <4>2, <4>3
    <3> QED
      BY <3>3 DEF AddRepeatsNothing, Repeated, EqualFold
  <2>3. CASE UNCHANGED <<contracts, unchecked>>
    BY <1>2, <2>3 DEF AddRepeatsNothing, Repeated, EqualFold
  <2> QED
    BY <1>2, <2>1, <2>2, <2>3 DEF Next, Application, WatchAddress, WatchListed, WatchNamed,
                                  Watches, Receive, LookUp, DecodeLog, DecodeFails, vars, historyVars
<1> QED
  BY <1>1, <1>2, StoreStep, PTL DEF Spec

-----------------------------------------------------------------------------
(* Lookups *)

\* The first of the passing contracts is one of them, and there is one if any pass.
LEMMA FindPasses ==
    ASSUME StoreInv, NEW passing, passing \subseteq DOMAIN contracts
    PROVE  /\ \A c \in Find(passing) : \E i \in passing : c = contracts[i]
           /\ Find(passing) = {} => passing = {}
<1>1. passing \subseteq Nat
  BY DEF StoreInv
<1>2. ASSUME passing # {} PROVE Find(passing) # {}
  <2>1. \E j \in passing : \A k \in passing : j <= k
    BY <1>1, <1>2, LeastNatural
  <2> QED
    BY <2>1 DEF Find
<1> QED
  BY <1>2 DEF Find

\* A lookup finds a contract of its address, and finds nothing only if none is listed.
LEMMA LookUpFinds ==
    ASSUME StoreInv, NEW address
    PROVE  /\ \A c \in GetContractByAddress(address) : EqualFold(c.address, address)
           /\ GetContractByAddress(address) = {} => Lower[address] \notin Listed(contracts)
<1> DEFINE passing == {i \in DOMAIN contracts : EqualFold(contracts[i].address, address)}
<1>1. passing \subseteq DOMAIN contracts
  OBVIOUS
<1>2. /\ \A c \in Find(passing) : \E i \in passing : c = contracts[i]
      /\ Find(passing) = {} => passing = {}
  BY <1>1, FindPasses
<1> QED
  BY <1>2 DEF GetContractByAddress, Listed, ToSet, EqualFold

\* There is one log in hand, and a contract is held for that log only.
HeldInv ==
    /\ \A l, m \in lg : l = m
    /\ lg = {} => held = {}
    /\ OwnContract

\* HeldInv through every step.
LEMMA HeldStep ==
    ASSUME StoreInv, HeldInv, [Next]_vars
    PROVE  HeldInv'
<1>1. CASE Receive
  BY <1>1 DEF Receive, HeldInv, OwnContract
<1>2. CASE LookUp
  <2>1. PICK l \in lg : held' = GetContractByAddress(l.address)
    BY <1>2 DEF LookUp
  <2>2. \A c \in held' : EqualFold(c.address, l.address)
    BY <2>1, LookUpFinds
  <2>3. lg' = lg /\ \A m \in lg : m = l
    BY <1>2, <2>1 DEF LookUp, HeldInv
  <2> QED
    BY <2>1, <2>2, <2>3 DEF HeldInv, OwnContract, EqualFold
<1>3. CASE DecodeLog
  BY <1>3 DEF DecodeLog, HeldInv, OwnContract
<1>4. CASE DecodeFails
  BY <1>4 DEF DecodeFails, HeldInv, OwnContract
<1>5. CASE UNCHANGED <<lg, held>>
  BY <1>5 DEF HeldInv, OwnContract, EqualFold
<1> QED
  BY <1>1, <1>2, <1>3, <1>4, <1>5 DEF Next, Application, Add, Override, WatchAddress,
                      WatchListed, WatchNamed, Watches, parserVars, vars

\* A log is decoded with a contract of its own address: an override while the
\* parser holds the contract does not change it (inMemoryContractStore.go:87).
THEOREM DecodedWithOwnContract == Spec => []OwnContract
<1>1. Init => StoreInv /\ HeldInv
  BY StoreInit DEF Init, HeldInv, OwnContract
<1>2. StoreInv /\ HeldInv /\ [Next]_vars => StoreInv' /\ HeldInv'
  BY StoreStep, HeldStep
<1>3. HeldInv => OwnContract
  BY DEF HeldInv
<1> QED
  BY <1>1, <1>2, <1>3, PTL DEF Spec

-----------------------------------------------------------------------------
(* The nil contract *)

\* What is watched is listed, or was taken off the list by an override, or was not
\* on it; the log in hand is of a watched address.
WatchInv ==
    /\ \A a \in watched : Lower[a] = a /\ a \in Listed(contracts) \cup movedFrom \cup unlisted
    /\ \A l \in lg : l.address \in watched

NilInv == StoreInv /\ WatchInv /\ ListedIsFound

\* AddContract takes no address off the list.
LEMMA ListedGrows ==
    ASSUME StoreInv, NEW c \in Given, AddContract(c)
    PROVE  Listed(contracts) \subseteq Listed(contracts')
BY AddEffect DEF Listed, ToSet

\* The listed addresses are in lower case.
LEMMA ListedIdempotent ==
    ASSUME StoreInv
    PROVE  /\ \A a \in Listed(contracts) : Lower[a] = a
           /\ \A c \in ToSet(contracts) : Lower[c.address] \in Listed(contracts)
<1>1. \A c \in ToSet(contracts) : c \in ContractType
  BY DEF StoreInv, ToSet
<1>2. \A c \in ContractType : Lower[Lower[c.address]] = Lower[c.address]
  BY SpellingAssumption DEF ContractType
<1> QED
  BY <1>1, <1>2 DEF Listed

\* NilInv through every step.
LEMMA NilStep ==
    ASSUME NilInv, [Next]_vars
    PROVE  NilInv'
<1>1. StoreInv'
  BY StoreStep DEF NilInv
<1>2. ASSUME NEW c \in Given, Add(c) PROVE NilInv'
  BY <1>1, <1>2, ListedGrows DEF Add, NilInv, WatchInv, ListedIsFound, parserVars, historyVars
<1>3. ASSUME NEW name \in Names, NEW chainIds \in ChainIdLists, NEW c \in Given,
             Override(name, chainIds, c)
      PROVE  NilInv'
  BY <1>1, <1>3 DEF Override, Moved, NilInv, WatchInv, ListedIsFound, parserVars
<1>4. ASSUME NEW addresses, \A a \in addresses : Lower[a] = a, Watches(addresses)
      PROVE  NilInv'
  BY <1>1, <1>4
     DEF Watches, NilInv, WatchInv, ListedIsFound, parserVars
<1>5. ASSUME NEW address \in Interesting, WatchAddress(address) PROVE NilInv'
  <2>1. Lower[Lower[address]] = Lower[address]
    BY SpellingAssumption, ParserAssumption
  <2> QED
    BY <1>4, <1>5, <2>1 DEF WatchAddress
<1>6. CASE WatchListed \/ \E name \in Names : WatchNamed(name)
  <2>1. \A a \in ListContractAddressesForChain(ChainId) : Lower[a] = a
    BY ListedIdempotent DEF ListContractAddressesForChain, Listed, NilInv
  <2>2. ASSUME NEW name \in Names, NEW c \in GetContractByNameForChainId(name, ChainId)
        PROVE  Lower[Lower[c.address]] = Lower[c.address]
    <3>1. c \in ToSet(contracts)
      BY <2>2, FindPasses DEF GetContractByNameForChainId, NilInv, ToSet
    <3> QED
      BY <3>1, ListedIdempotent DEF NilInv
  <2> QED
    BY <1>4, <1>6, <2>1, <2>2 DEF WatchListed, WatchNamed
<1>7. CASE Receive
  <2>1. PICK a \in watched : \E e \in Emitted[a] : lg' = {LogOf(a, e)}
    BY <1>7 DEF Receive
  <2>2. PICK e \in Emitted[a] : lg' = {LogOf(a, e)}
    BY <2>1
  <2>3. LogOf(a, e).address = a
    BY DEF LogOf
  <2> QED
    BY <1>1, <1>7, <2>2, <2>3 DEF Receive, NilInv, WatchInv, ListedIsFound, historyVars
<1>8. CASE LookUp
  <2>1. PICK l \in lg : held' = GetContractByAddress(l.address)
    BY <1>8 DEF LookUp
  <2>2. panicked' => Lower[l.address] \in unlisted \cup movedFrom
    BY <1>8, <2>1, LookUpFinds DEF LookUp, NilInv, WatchInv
  <2> QED
    BY <1>1, <1>8, <2>2 DEF LookUp, NilInv, WatchInv, ListedIsFound, historyVars
<1>9. CASE DecodeLog
  BY <1>1, <1>9 DEF DecodeLog, NilInv, WatchInv, ListedIsFound, historyVars
<1>10. CASE DecodeFails
  BY <1>1, <1>10 DEF DecodeFails, NilInv, WatchInv, ListedIsFound, historyVars
<1>11. CASE UNCHANGED vars
  BY <1>1, <1>11 DEF vars, NilInv, WatchInv, ListedIsFound, parserVars, historyVars
<1> QED
  BY <1>2, <1>3, <1>5, <1>6, <1>7, <1>8, <1>9, <1>10, <1>11 DEF Next, Application

\* The nil that GetContractByAddress returns without an error
\* (inMemoryContractStore.go:52) is met by DecodeLog only for an address that was
\* not on the list when the poller was told of it, or that an override took off the
\* list: for a listed one no spelling and no order of additions leads to it.
THEOREM ListedContractsFound == Spec => []ListedIsFound
<1>1. Init => NilInv
  BY StoreInit DEF Init, NilInv, WatchInv, ListedIsFound
<1>2. NilInv => ListedIsFound
  BY DEF NilInv
<1> QED
  BY <1>1, <1>2, NilStep, PTL DEF Spec

-----------------------------------------------------------------------------
(* The values of a decoded log *)

\* The recursion of InputsOf has a solution, whose last value InputsOf is.
LEMMA InputsOfDef ==
    ASSUME NEW e, IsSequence(e.inputs), NEW indexed
    PROVE  \E taken \in [0 .. Len(e.inputs) -> Seq(ToSet(e.inputs))] :
              /\ taken[0] = <<>>
              /\ \A n \in 1 .. Len(e.inputs) :
                    taken[n] = IF e.inputs[n].indexed = indexed
                                 THEN Append(taken[n - 1], e.inputs[n]) ELSE taken[n - 1]
              /\ InputsOf(e, indexed) = taken[Len(e.inputs)]
<1> DEFINE s == e.inputs
           N == Len(s)
           E == ToSet(s)
           empty == <<>>
           Value(n, q) == IF n > 0 /\ s[n].indexed = indexed THEN Append(q, s[n]) ELSE q
           step == [p \in (0 .. N) \X Seq(E) |-> Value(p[1], p[2])]
           Solves(g) == g = [n \in 0 .. N |->
                               IF n = 0 THEN empty
                               ELSE IF s[n].indexed = indexed THEN Append(g[n - 1], s[n])
                               ELSE g[n - 1]]
<1>1. N \in Nat /\ (\A n \in 1 .. N : s[n] \in E) /\ empty \in Seq(E)
  BY DEF IsSequence
<1>2. InputsOf(e, indexed) = (CHOOSE g : Solves(g))[N]
  BY DEF InputsOf
<1> HIDE DEF E, N, s, empty
<1>3. \A n \in 0 .. N, q \in Seq(E) : Value(n, q) \in Seq(E)
  <2>1. ASSUME NEW n \in 0 .. N, NEW q \in Seq(E) PROVE Value(n, q) \in Seq(E)
    <3>1. n > 0 => s[n] \in E
      BY <1>1
    <3> QED
      BY <3>1
  <2> QED
    BY <2>1
<1> HIDE DEF Value
<1>4. /\ step \in [(0 .. N) \X Seq(E) -> Seq(E)]
      /\ \A n \in 0 .. N, q \in Seq(E) : step[<<n, q>>] = Value(n, q)
  BY <1>3
<1> HIDE DEF step
<1>5. PICK g \in [0 .. N -> Seq(E)] : Recursive(g, 0, N, empty, step)
  <2>1. 0 <= N /\ 0 \in Nat
    BY <1>1
  <2> QED
    BY <1>1, <1>4, <2>1, RecursiveFunction
<1>6. \A n \in 0 .. N : g[n] = IF n = 0 THEN empty ELSE Value(n, g[n - 1])
  <2>1. ASSUME NEW n \in 0 .. N, n # 0 PROVE g[n] = Value(n, g[n - 1])
    <3>1. n - 1 \in 0 .. N
      BY <1>1, <2>1
    <3>2. g[n - 1] \in Seq(E) /\ g[n] = step[<<n, g[n - 1]>>]
      BY <1>5, <2>1, <3>1 DEF Recursive
    <3> QED
      BY <1>4, <3>2
  <2> QED
    BY <1>5, <2>1 DEF Recursive
<1>7. \A n \in 0 .. N : g[n] = IF n = 0 THEN empty
                              ELSE IF s[n].indexed = indexed THEN Append(g[n - 1], s[n])
                              ELSE g[n - 1]
  BY <1>1, <1>6 DEF Value
<1>8. Solves(g)
  <2>1. g = [n \in 0 .. N |-> g[n]]
    BY <1>5
  <2> QED
    BY <1>7, <2>1
<1> DEFINE taken == CHOOSE h : Solves(h)
<1>9. Solves(taken)
  BY <1>8
<1> HIDE DEF taken
<1>10. \A n \in 0 .. N : taken[n] = IF n = 0 THEN empty
                                   ELSE IF s[n].indexed = indexed THEN Append(taken[n - 1], s[n])
                                   ELSE taken[n - 1]
  <2> DEFINE val == [n \in 0 .. N |-> IF n = 0 THEN empty
                                      ELSE IF s[n].indexed = indexed THEN Append(taken[n - 1], s[n])
                                      ELSE taken[n - 1]]
  <2>1. taken = val
    BY <1>9
  <2>2. \A n \in 0 .. N : val[n] = IF n = 0 THEN empty
                                   ELSE IF s[n].indexed = indexed THEN Append(taken[n - 1], s[n])
                                   ELSE taken[n - 1]
    OBVIOUS
  <2> HIDE DEF val
  <2> QED
    BY <2>1, <2>2
<1> DEFINE P == {n \in 0 .. N : taken[n] = g[n]}
<1>11. 0 \in P
  BY <1>1, <1>7, <1>10
<1>12. ASSUME NEW n \in 0 .. N - 1, n \in P PROVE n + 1 \in P
  <2>1. n + 1 \in 0 .. N /\ n + 1 # 0 /\ (n + 1) - 1 = n
    BY <1>1
  <2> QED
    BY <1>7, <1>10, <1>12, <2>1
<1>13. 0 .. N \subseteq P
  <2> HIDE DEF P
  <2> QED
    BY <1>1, <1>11, <1>12, IntervalInduction
<1>14. InputsOf(e, indexed) = g[N]
  <2>1. taken[N] = g[N]
    BY <1>1, <1>13
  <2> QED
    BY <1>2, <2>1 DEF taken
<1>15. g[0] = empty /\ \A n \in 1 .. N : g[n] = IF s[n].indexed = indexed
                                               THEN Append(g[n - 1], s[n]) ELSE g[n - 1]
  <2>1. 0 \in 0 .. N /\ \A n \in 1 .. N : n \in 0 .. N /\ n # 0
    BY <1>1
  <2> QED
    BY <1>7, <2>1
<1> QED
  BY <1>5, <1>14, <1>15 DEF N, E, s, empty

\* InputsOf has every input of its kind.
LEMMA InputsOfHasAll ==
    ASSUME NEW e, IsSequence(e.inputs), NEW indexed
    PROVE  /\ InputsOf(e, indexed) \in Seq(ToSet(e.inputs))
           /\ \A i \in DOMAIN e.inputs : e.inputs[i].indexed = indexed =>
                 \E j \in DOMAIN InputsOf(e, indexed) : InputsOf(e, indexed)[j] = e.inputs[i]
<1> DEFINE s == e.inputs
           N == Len(s)
           Has(q, k) == \A i \in 1 .. k : s[i].indexed = indexed => \E j \in 1 .. Len(q) : q[j] = s[i]
<1>1. N \in Nat /\ DOMAIN s = 1 .. N /\ (\A n \in 1 .. N : s[n] \in ToSet(s))
  BY DEF IsSequence
<1>2. PICK taken \in [0 .. N -> Seq(ToSet(s))] :
         /\ taken[0] = <<>>
         /\ \A n \in 1 .. N : taken[n] = IF s[n].indexed = indexed
                                         THEN Append(taken[n - 1], s[n]) ELSE taken[n - 1]
         /\ InputsOf(e, indexed) = taken[N]
  BY InputsOfDef
<1> HIDE DEF N, s
<1> DEFINE P == {n \in 0 .. N : Has(taken[n], n)}
<1>3. 0 \in P
  BY <1>1
<1>4. ASSUME NEW n \in 0 .. N - 1, n \in P PROVE n + 1 \in P
  <2>1. n + 1 \in 1 .. N /\ (n + 1) - 1 = n /\ n + 1 \in 0 .. N /\ n \in 0 .. N
    BY <1>1
  <2>2. taken[n] \in Seq(ToSet(s)) /\ s[n + 1] \in ToSet(s)
    BY <1>1, <2>1
  <2>3. Has(taken[n], n)
    BY <1>4
  <2>4. CASE s[n + 1].indexed = indexed
    <3>1. taken[n + 1] = Append(taken[n], s[n + 1])
      BY <1>2, <2>1, <2>4
    <3>2. /\ Len(taken[n + 1]) = Len(taken[n]) + 1
          /\ \A j \in 1 .. Len(taken[n]) : taken[n + 1][j] = taken[n][j]
          /\ taken[n + 1][Len(taken[n]) + 1] = s[n + 1]
          /\ Len(taken[n]) \in Nat
      BY <2>2, <3>1
    <3>3. ASSUME NEW i \in 1 .. n + 1, s[i].indexed = indexed
          PROVE  \E j \in 1 .. Len(taken[n + 1]) : taken[n + 1][j] = s[i]
      <4>1. CASE i = n + 1
        BY <4>1, <3>2
      <4>2. CASE i # n + 1
        <5>1. i \in 1 .. n
          BY <4>2, <2>1
        <5>2. PICK j \in 1 .. Len(taken[n]) : taken[n][j] = s[i]
          BY <2>3, <3>3, <5>1
        <5> QED
          BY <5>2, <3>2
      <4> QED
        BY <4>1, <4>2
    <3> QED
      BY <2>1, <3>3
  <2>5. CASE s[n + 1].indexed # indexed
    <3>1. taken[n + 1] = taken[n]
      BY <1>2, <2>1, <2>5
    <3>2. \A i \in 1 .. n + 1 : s[i].indexed = indexed => i \in 1 .. n
      BY <2>1, <2>5
    <3> QED
      BY <2>1, <2>3, <3>1, <3>2
  <2> QED
    BY <2>4, <2>5
<1>5. 0 .. N \subseteq P
  <2> HIDE DEF P
  <2> QED
    BY <1>1, <1>3, <1>4, IntervalInduction
<1>6. Has(taken[N], N) /\ taken[N] \in Seq(ToSet(s))
  BY <1>1, <1>5
<1>7. DOMAIN taken[N] = 1 .. Len(taken[N])
  BY <1>6
<1> QED
  BY <1>1, <1>2, <1>6, <1>7 DEF N, s

\* When the indexed inputs come first, each is at its own place among them.
LEMMA IndexedAtPlace ==
    ASSUME NEW e, IsSequence(e.inputs), IndexedFirst(e),
           NEW i \in DOMAIN e.inputs, e.inputs[i].indexed = TRUE
    PROVE  i \in DOMAIN InputsOf(e, TRUE) /\ InputsOf(e, TRUE)[i] = e.inputs[i]
<1> DEFINE s == e.inputs
           N == Len(s)
<1>1. N \in Nat /\ DOMAIN s = 1 .. N /\ (\A n \in 1 .. N : s[n] \in ToSet(s)) /\ i \in 1 .. N
  BY DEF IsSequence
<1>2. PICK taken \in [0 .. N -> Seq(ToSet(s))] :
         /\ taken[0] = <<>>
         /\ \A n \in 1 .. N : taken[n] = IF s[n].indexed = TRUE
                                         THEN Append(taken[n - 1], s[n]) ELSE taken[n - 1]
         /\ InputsOf(e, TRUE) = taken[N]
  BY InputsOfDef
<1>3. \A n \in 1 .. i : s[n].indexed
  <2>1. ASSUME NEW n \in 1 .. i, n # i PROVE s[n].indexed
    <3>1. n \in DOMAIN e.inputs /\ n < i
      BY <1>1, <2>1
    <3> QED
      BY <3>1 DEF IndexedFirst
  <2> QED
    BY <2>1
<1> HIDE DEF N, s
<1> DEFINE P == {n \in 0 .. i : Len(taken[n]) = n}
           Q == {n \in i .. N : Len(taken[n]) >= i /\ taken[n][i] = s[i]}
<1>4. i \in P
  <2>1. 0 \in P
    BY <1>1, <1>2
  <2>2. ASSUME NEW n \in 0 .. i - 1, n \in P PROVE n + 1 \in P
    <3>1. n + 1 \in 1 .. N /\ n + 1 \in 1 .. i /\ (n + 1) - 1 = n /\ n \in 0 .. N
      BY <1>1
    <3>2. taken[n + 1] = Append(taken[n], s[n + 1]) /\ taken[n] \in Seq(ToSet(s)) /\ s[n + 1] \in ToSet(s)
      BY <1>1, <1>2, <1>3, <3>1
    <3> QED
      BY <2>2, <3>1, <3>2
  <2>3. 0 .. i \subseteq P
    <3> HIDE DEF P
    <3>1. i \in Nat
      BY <1>1
    <3> QED
      BY <2>1, <2>2, <3>1, IntervalInduction
  <2> QED
    BY <1>1, <2>3
<1>5. i \in Q
  <2>1. i - 1 \in 0 .. N /\ i \in 1 .. i /\ i \in i .. N /\ i \in 0 .. N
    BY <1>1
  <2>2. taken[i] = Append(taken[i - 1], s[i]) /\ taken[i - 1] \in Seq(ToSet(s)) /\ s[i] \in ToSet(s)
    BY <1>1, <1>2, <1>3, <2>1
  <2>3. Len(taken[i]) = i /\ Len(taken[i]) = Len(taken[i - 1]) + 1
    BY <1>4, <2>2
  <2> QED
    BY <2>1, <2>2, <2>3
<1>6. ASSUME NEW n \in i .. N - 1, n \in Q PROVE n + 1 \in Q
  <2>1. n + 1 \in 1 .. N /\ n + 1 \in i .. N /\ (n + 1) - 1 = n /\ n \in 0 .. N /\ i \in 1 .. N
    BY <1>1
  <2>2. /\ taken[n + 1] = Append(taken[n], s[n + 1]) \/ taken[n + 1] = taken[n]
        /\ taken[n] \in Seq(ToSet(s)) /\ s[n + 1] \in ToSet(s)
    BY <1>1, <1>2, <2>1
  <2> QED
    BY <1>6, <2>1, <2>2
<1>7. i .. N \subseteq Q
  <2>1. i \in Nat
    BY <1>1
  <2> HIDE DEF Q
  <2> QED
    BY <1>1, <1>5, <1>6, <2>1, IntervalInduction
<1>8. Len(taken[N]) >= i /\ taken[N][i] = s[i] /\ taken[N] \in Seq(ToSet(s))
  <2>1. N \in i .. N /\ N \in 0 .. N
    BY <1>1
  <2> QED
    BY <1>7, <2>1
<1>9. i \in DOMAIN taken[N]
  BY <1>1, <1>8
<1> QED
  BY <1>2, <1>8, <1>9 DEF N, s

\* The joined versions have no entry that is in none of them.
LEMMA FlattenedEntries ==
    ASSUME NEW v, IsSequence(v), \A i \in DOMAIN v : IsSequence(v[i])
    PROVE  FlattenSeq(v) \in Seq(UNION {ToSet(v[i]) : i \in DOMAIN v})
<1> DEFINE N == Len(v)
           E == UNION {ToSet(v[i]) : i \in DOMAIN v}
           S == Seq(E)
           Value(i, q) == q \o v[i]
           step == [p \in (1 .. N) \X S |-> Value(p[1], p[2])]
           Solves(g) == g = [i \in 1 .. N |-> IF i = 1 THEN v[i] ELSE g[i - 1] \o v[i]]
<1>1. N \in Nat /\ DOMAIN v = 1 .. N
  BY DEF IsSequence
<1>2. \A i \in 1 .. N : v[i] \in S
  <2>1. ASSUME NEW i \in 1 .. N PROVE v[i] \in Seq(E)
    <3>1. v[i] \in Seq(ToSet(v[i])) /\ ToSet(v[i]) \subseteq E
      BY <1>1 DEF IsSequence
    <3> HIDE DEF E
    <3> QED
      BY <3>1
  <2> QED
    BY <2>1
<1>3. CASE N = 0
  BY <1>1, <1>3 DEF FlattenSeq, IsSequence
<1>4. CASE N # 0
  <2>1. FlattenSeq(v) = (CHOOSE g : Solves(g))[N]
    BY <1>4 DEF FlattenSeq
  <2>13. v[1] \in S
    BY <1>1, <1>2, <1>4
  <2> HIDE DEF N, E
  <2>14. \A i \in 1 .. N, q \in S : Value(i, q) \in S
    BY <1>2
  <2> HIDE DEF S, Value
  <2>2. /\ step \in [(1 .. N) \X S -> S]
        /\ \A i \in 1 .. N, q \in S : step[<<i, q>>] = Value(i, q)
    BY <2>14
  <2>3. 1 <= N /\ 1 \in Nat
    BY <1>1, <1>4
  <2> HIDE DEF step
  <2>4. PICK g \in [1 .. N -> S] : Recursive(g, 1, N, v[1], step)
    BY <1>1, <2>2, <2>3, <2>13, RecursiveFunction
  <2>5. \A i \in 1 .. N : g[i] = IF i = 1 THEN v[i] ELSE g[i - 1] \o v[i]
    <3>1. ASSUME NEW i \in 1 .. N, i # 1 PROVE g[i] = g[i - 1] \o v[i]
      <4>1. i - 1 \in 1 .. N
        BY <1>1, <3>1
      <4>2. g[i - 1] \in S /\ g[i] = step[<<i, g[i - 1]>>]
        BY <2>4, <3>1, <4>1 DEF Recursive
      <4> QED
        BY <2>2, <4>2 DEF Value
    <3> QED
      BY <1>1, <2>4, <3>1 DEF Recursive
  <2>6. Solves(g)
    <3>1. g = [i \in 1 .. N |-> g[i]]
      BY <2>4
    <3> QED
      BY <2>5, <3>1
  <2> DEFINE h == CHOOSE f : Solves(f)
  <2>7. Solves(h)
    BY <2>6
  <2> HIDE DEF h
  <2> DEFINE P == {i \in 1 .. N : h[i] = g[i]}
  <2>8. \A i \in 1 .. N : h[i] = IF i = 1 THEN v[i] ELSE h[i - 1] \o v[i]
    <3> DEFINE val == [i \in 1 .. N |-> IF i = 1 THEN v[i] ELSE h[i - 1] \o v[i]]
    <3>1. h = val
      BY <2>7
    <3>2. \A i \in 1 .. N : val[i] = IF i = 1 THEN v[i] ELSE h[i - 1] \o v[i]
      OBVIOUS
    <3> HIDE DEF val
    <3> QED
      BY <3>1, <3>2
  <2>9. 1 \in P
    BY <1>1, <1>4, <2>5, <2>8
  <2>10. ASSUME NEW i \in 1 .. N - 1, i \in P PROVE i + 1 \in P
    <3>1. i + 1 \in 1 .. N /\ i + 1 # 1 /\ (i + 1) - 1 = i
      BY <1>1
    <3>2. h[i] = g[i]
      BY <2>10
    <3>3. h[i + 1] = h[i] \o v[i + 1] /\ g[i + 1] = g[i] \o v[i + 1]
      BY <2>5, <2>8, <3>1
    <3> QED
      BY <3>1, <3>2, <3>3
  <2>11. 1 .. N \subseteq P
    <3> HIDE DEF P
    <3> QED
      BY <1>1, <2>9, <2>10, IntervalInduction
  <2>12. h[N] = g[N] /\ g[N] \in S
    BY <1>1, <1>4, <2>4, <2>11
  <2> QED
    BY <2>1, <2>12 DEF h, S, E
<1> QED
  BY <1>3, <1>4

\* What is read of a contract's ABI is declared in one of its versions.
LEMMA AbiDeclared ==
    ASSUME NEW c \in ContractType
    PROVE  GetAbi(c) \subseteq Entries(c)
<1> DEFINE v == c.abiVersions
<1>1. PICK given \in Given : v = given.abiVersions
  BY DEF ContractType
<1>2. IsSequence(v) /\ \A i \in DOMAIN v : v[i] \in {TooShort, Malformed} \/ IsSequence(v[i])
  BY <1>1, ParserAssumption
<1>3. CASE Combinable(v)
  <2>1. \A i \in DOMAIN v : IsSequence(v[i])
    BY <1>2, <1>3 DEF Combinable
  <2> DEFINE f == FlattenSeq(v)
  <2>2. f \in Seq(Entries(c))
    BY <1>2, <2>1, FlattenedEntries DEF Entries
  <2>3. GetAbi(c) = UnmarshalJson(f)
    BY <1>3 DEF GetAbi
  <2> HIDE DEF f
  <2>4. UnmarshalJson(f) \subseteq {f[i] : i \in DOMAIN f}
    BY DEF UnmarshalJson
  <2> QED
    BY <2>2, <2>3, <2>4
<1>4. CASE ~Combinable(v)
  BY <1>4 DEF GetAbi
<1> QED
  BY <1>3, <1>4

\* The topics are the event's id and after it the indexed inputs.
LEMMA Prefixed ==
    ASSUME NEW E, NEW q \in Seq(E), NEW w
    PROVE  /\ Head(<<w>> \o q) = w
           /\ \A i \in DOMAIN q : i + 1 \in DOMAIN (<<w>> \o q) /\ (<<w>> \o q)[i + 1] = q[i]
<1> DEFINE U == E \cup {w}
<1>1. E \subseteq U /\ w \in U
  OBVIOUS
<1> HIDE DEF U
<1>2. q \in Seq(U)
  BY <1>1
<1>3. <<w>> \in Seq(U) /\ Len(<<w>>) = 1 /\ <<w>>[1] = w
  BY <1>1
<1>4. DOMAIN q = 1 .. Len(q) /\ Len(q) \in Nat
  BY <1>2
<1>5. Len(<<w>> \o q) = 1 + Len(q) /\ <<w>> \o q \in Seq(U)
  BY <1>2, <1>3
<1>6. DOMAIN (<<w>> \o q) = 1 .. 1 + Len(q)
  BY <1>5
<1>7. (<<w>> \o q)[1] = w /\ Head(<<w>> \o q) = w
  BY <1>2, <1>3, <1>4, <1>5, <1>6
<1>8. ASSUME NEW i \in DOMAIN q
      PROVE  i + 1 \in DOMAIN (<<w>> \o q) /\ (<<w>> \o q)[i + 1] = q[i]
  BY <1>2, <1>3, <1>4, <1>6
<1> QED
  BY <1>7, <1>8

\* A log decoded by its own event has every value in its place.
LEMMA DecodedInPlace ==
    ASSUME NEW a, NEW e, NEW d, IsSequence(e.inputs),
           \A i \in DOMAIN e.inputs : e.inputs[i].indexed \in BOOLEAN,
           e.id # "", IndexedFirst(e),
           d.log = LogOf(a, e),
           d.arguments = Arguments(e, LogOf(a, e).topics),
           d.outputData = UnpackIntoMap(e, LogOf(a, e).data)
    PROVE  InPlace(d)
<1> DEFINE topics == <<e.id>> \o InputsOf(e, TRUE)
           data == InputsOf(e, FALSE)
<1>1. LogOf(a, e).event = e /\ LogOf(a, e).topics = topics /\ LogOf(a, e).data = data
  BY DEF LogOf
<1>2. d.log.event = e
  BY <1>1
<1>3. ASSUME NEW i \in DOMAIN e.inputs, e.inputs[i].indexed
      PROVE  d.arguments[i] = {e.inputs[i]}
  <2>1. e.inputs[i].indexed = TRUE
    BY <1>3
  <2>2. i \in DOMAIN InputsOf(e, TRUE) /\ InputsOf(e, TRUE)[i] = e.inputs[i]
    BY <2>1, IndexedAtPlace
  <2> DEFINE q == InputsOf(e, TRUE)
  <2>3. q \in Seq(ToSet(e.inputs))
    BY InputsOfHasAll
  <2> HIDE DEF q
  <2>4. i + 1 \in DOMAIN (<<e.id>> \o q) /\ (<<e.id>> \o q)[i + 1] = q[i]
    BY <2>2, <2>3, Prefixed DEF q
  <2>5. d.arguments[i] = ParseLogValueForType(e.inputs[i], topics[i + 1])
    BY <1>1, <2>4 DEF Arguments, q
  <2>6. topics[i + 1] = e.inputs[i]
    BY <2>2, <2>4 DEF q
  <2> QED
    BY <2>5, <2>6 DEF ParseLogValueForType
<1>4. ASSUME NEW i \in DOMAIN e.inputs, ~e.inputs[i].indexed
      PROVE  [name |-> e.inputs[i].name, value |-> e.inputs[i]] \in d.outputData
  <2>1. e.inputs[i].indexed = FALSE
    BY <1>4
  <2>2. PICK j \in DOMAIN data : data[j] = e.inputs[i]
    BY <2>1, InputsOfHasAll
  <2>3. d.outputData = {[name |-> data[k].name, value |-> data[k]] : k \in DOMAIN data}
    BY <1>1 DEF UnpackIntoMap
  <2> QED
    BY <2>2, <2>3
<1> QED
  BY <1>2, <1>3, <1>4 DEF InPlace

\* The log in hand is one that was emitted, the contract one of the store's type.
EmittedInv ==
    /\ watched \subseteq Spellings
    /\ \A l \in lg : \E a \in Spellings : \E e \in Emitted[a] : l = LogOf(a, e)
    /\ held \subseteq ContractType

DecodedInv == StoreInv /\ HeldInv /\ EmittedInv /\ IndexedFirstInPlace

\* A decoding puts every value at its input.
LEMMA DecodeInPlace ==
    ASSUME DecodedInv, DecodeLog
    PROVE  IndexedFirstInPlace'
<1>1. PICK l \in lg, c \in held :
         \E e \in EventByID(GetAbi(c), l.topics) :
            decoded' = {[log |-> l, contract |-> c, arguments |-> Arguments(e, l.topics),
                         outputData |-> UnpackIntoMap(e, l.data)]}
  BY DEF DecodeLog
<1>2. PICK e \in EventByID(GetAbi(c), l.topics) :
         decoded' = {[log |-> l, contract |-> c, arguments |-> Arguments(e, l.topics),
                      outputData |-> UnpackIntoMap(e, l.data)]}
  BY <1>1
<1>3. PICK a \in Spellings : \E f \in Emitted[a] : l = LogOf(a, f)
  BY DEF DecodedInv, EmittedInv
<1>4. PICK f \in Emitted[a] : l = LogOf(a, f)
  BY <1>3
<1>5. IsSequence(f.inputs) /\ \A i \in DOMAIN f.inputs : f.inputs[i].indexed \in BOOLEAN
  BY ParserAssumption
<1>6. l.event = f /\ l.topics = IF f.id = "" THEN <<>> ELSE <<f.id>> \o InputsOf(f, TRUE)
  BY <1>4 DEF LogOf
<1>7. e \in GetAbi(c) /\ l.topics # <<>> /\ e.id = Head(l.topics)
  BY <1>2 DEF EventByID
<1>8. f.id # "" /\ e.id = f.id
  <2>1. f.id # ""
    BY <1>6, <1>7
  <2> DEFINE q == InputsOf(f, TRUE)
  <2>2. q \in Seq(ToSet(f.inputs))
    BY <1>5, InputsOfHasAll
  <2>3. l.topics = <<f.id>> \o q
    BY <1>6, <2>1
  <2> HIDE DEF q
  <2>4. Head(<<f.id>> \o q) = f.id
    BY <2>2, Prefixed
  <2> QED
    BY <1>7, <2>1, <2>3, <2>4
<1>9. e \in Entries(c)
  BY <1>7, AbiDeclared DEF DecodedInv, EmittedInv
<1> DEFINE d == [log |-> l, contract |-> c, arguments |-> Arguments(e, l.topics),
                 outputData |-> UnpackIntoMap(e, l.data)]
<1>10. /\ d.log = l /\ d.contract = c /\ d.arguments = Arguments(e, l.topics)
       /\ d.outputData = UnpackIntoMap(e, l.data) /\ decoded' = {d}
  BY <1>2
<1> HIDE DEF d
<1>11. ASSUME IndexedFirst(f), DeclaredOnce(c, f)
       PROVE  InPlace(d)
  <2>1. e = f
    BY <1>8, <1>9, <1>11 DEF DeclaredOnce
  <2> QED
    BY <1>4, <1>5, <1>8, <1>10, <1>11, <2>1, DecodedInPlace
<1> QED
  BY <1>6, <1>10, <1>11 DEF IndexedFirstInPlace

\* A contract that was found is of the store's type.
LEMMA FoundType ==
    ASSUME StoreInv, NEW passing, passing \subseteq DOMAIN contracts
    PROVE  Find(passing) \subseteq ContractType
<1>1. \A i \in DOMAIN contracts : contracts[i] \in ContractType
  BY DEF StoreInv
<1> QED
  BY <1>1, FindPasses

\* The lower case of an address is a spelling.
LEMMA LowerType ==
    ASSUME NEW c \in ContractType
    PROVE  Lower[c.address] \in Spellings
BY SpellingAssumption DEF ContractType

\* EmittedInv through every step.
LEMMA EmittedStep ==
    ASSUME DecodedInv, [Next]_vars
    PROVE  EmittedInv'
<1>1. ASSUME NEW addresses, addresses \subseteq Spellings, Watches(addresses) PROVE EmittedInv'
  BY <1>1 DEF Watches, DecodedInv, EmittedInv, parserVars
<1>2. CASE WatchListed
  <2>1. \A c \in ToSet(contracts) : c \in ContractType
    BY DEF DecodedInv, StoreInv, ToSet
  <2>2. ListContractAddressesForChain(ChainId) \subseteq Spellings
    BY <2>1, LowerType DEF ListContractAddressesForChain
  <2> QED
    BY <1>1, <1>2, <2>2 DEF WatchListed
<1>3. ASSUME NEW name \in Names, WatchNamed(name) PROVE EmittedInv'
  <2>1. PICK c \in GetContractByNameForChainId(name, ChainId) : Watches({Lower[c.address]})
    BY <1>3 DEF WatchNamed
  <2>2. c \in ContractType
    BY <2>1, FoundType DEF GetContractByNameForChainId, DecodedInv
  <2>3. {Lower[c.address]} \subseteq Spellings
    BY <2>2, LowerType
  <2> QED
    BY <1>1, <2>1, <2>3
<1>4. CASE Receive
  BY <1>4 DEF Receive, DecodedInv, EmittedInv
<1>5. CASE LookUp
  <2>1. PICK l \in lg : held' = GetContractByAddress(l.address)
    BY <1>5 DEF LookUp
  <2>2. held' \subseteq ContractType
    BY <2>1, FoundType DEF GetContractByAddress, DecodedInv
  <2> QED
    BY <1>5, <2>2 DEF LookUp, DecodedInv, EmittedInv
<1>6. CASE DecodeLog
  BY <1>6 DEF DecodeLog, DecodedInv, EmittedInv
<1>7. CASE DecodeFails
  BY <1>7 DEF DecodeFails, DecodedInv, EmittedInv
<1>8. CASE UNCHANGED <<watched, lg, held>>
  BY <1>8 DEF DecodedInv, EmittedInv
<1>9. ASSUME NEW address \in Interesting, WatchAddress(address) PROVE EmittedInv'
  <2>1. {Lower[address]} \subseteq Spellings
    BY SpellingAssumption, ParserAssumption
  <2> QED
    BY <1>1, <1>9, <2>1 DEF WatchAddress
<1> QED
  BY <1>2, <1>3, <1>4, <1>5, <1>6, <1>7, <1>8, <1>9
     DEF Next, Application, Add, Override, parserVars, vars

\* DecodedInv through every step.
LEMMA DecodedStep ==
    ASSUME DecodedInv, [Next]_vars
    PROVE  DecodedInv'
<1>1. StoreInv' /\ HeldInv' /\ EmittedInv'
  BY StoreStep, HeldStep, EmittedStep DEF DecodedInv
<1>2. CASE DecodeLog
  BY <1>1, <1>2, DecodeInPlace DEF DecodedInv
<1>3. CASE decoded' = {}
  BY <1>1, <1>3 DEF DecodedInv, IndexedFirstInPlace
<1>4. CASE decoded' = decoded
  BY <1>1, <1>4 DEF DecodedInv, IndexedFirstInPlace
<1> QED
  BY <1>2, <1>3, <1>4 DEF Next, Application, Add, Override, WatchAddress, WatchListed,
                          WatchNamed, Watches, Receive, LookUp, DecodeFails, parserVars, vars

\* Every parameter of a decoded log has the value it was emitted with, when the
\* event's indexed inputs come first and the contract's versions declare it once
\* (transactionLogParser.go:119, 144): for any ABIs, in any number of versions, and
\* also when the contract is overridden between lookup and decoding.
THEOREM DecodedValuesInPlace == Spec => []IndexedFirstInPlace
<1>1. Init => DecodedInv
  BY StoreInit DEF Init, DecodedInv, HeldInv, OwnContract, EmittedInv, IndexedFirstInPlace
<1>2. DecodedInv => IndexedFirstInPlace
  BY DEF DecodedInv
<1> QED
  BY <1>1, <1>2, DecodedStep, PTL DEF Spec

=============================================================================
