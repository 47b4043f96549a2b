---------------------------- MODULE ContractStore ----------------------------
(***************************************************************************)
(* InMemoryContractStore (contractStore/inMemoryContractStore) and the     *)
(* contracts it holds (contracts/contracts.go).  Every method holds the    *)
(* mutex from its first line to its last, so each is one step; a contract  *)
(* is never changed in place, so what a lookup returned stays as it was.   *)
(*                                                                         *)
(* An ABI version is the sequence of its entries, records with an id: the  *)
(* events, and the functions "receive" and "fallback", of which the ABI    *)
(* library allows one each.  Other entries are left out.                   *)
(***************************************************************************)
EXTENDS Integers, SequencesExt

CONSTANTS
    Spellings,     \* names and addresses as they may be spelled
    Lower,         \* strings.ToLower: Spellings -> Spellings
    ChainIds,
    TooShort,      \* an ABI version of less than two characters
    Malformed      \* an ABI version that is not JSON

ASSUME SpellingAssumption ==
    /\ Lower \in [Spellings -> Spellings]
    /\ \A s \in Spellings : Lower[Lower[s]] = Lower[s]

VARIABLE contracts   \* Seq([name, address, chainId, abiVersions])

EqualFold(s, t) == Lower[s] = Lower[t]

-----------------------------------------------------------------------------
(* The store *)

\* The first contract, in the order of the list, of those that pass the test; as a
\* set: {} is nil.
Find(passing) == {contracts[i] : i \in {j \in passing : \A k \in passing : j <= k}}

GetContractByNameForChainId(name, chainId) ==
    Find({i \in DOMAIN contracts :
            EqualFold(contracts[i].name, name) /\ contracts[i].chainId = chainId})

\* Mutant: addresses are compared as they are spelled.
GetContractByAddressAsSpelled(address) ==
    Find({i \in DOMAIN contracts : contracts[i].address = address})

\* Of whatever chain; that there is none is no error.
GetContractByAddress(address) ==
    Find({i \in DOMAIN contracts : EqualFold(contracts[i].address, address)})

ListContractAddressesForChain(chainId) ==
    {Lower[c.address] : c \in {d \in ToSet(contracts) : d.chainId = chainId}}

\* Mutant: addresses are compared as they are spelled.
KnownAsSpelled(c) ==
    \E d \in ToSet(contracts) : d.address = c.address /\ d.chainId = c.chainId

Known(c) ==
    \E d \in ToSet(contracts) : EqualFold(d.address, c.address) /\ d.chainId = c.chainId

\* A second contract of one address on one chain is an error.
AddContract(c) ==
    /\ ~Known(c)
    /\ contracts' = Append(contracts, c)

\* Names are compared as they are spelled; no chain ids mean every chain.
Overridden(name, chainIds, c) ==
    c.name = name /\ (chainIds = <<>> \/ c.chainId \in ToSet(chainIds))

\* The contracts of the name keep name and chain and take address and ABI; if
\* there are none, the contract is added under its own name for each chain id.
OverrideContract(name, chainIds, contract) ==
    contracts' =
       IF \E c \in ToSet(contracts) : Overridden(name, chainIds, c)
         THEN [i \in DOMAIN contracts |->
                 IF Overridden(name, chainIds, contracts[i])
                   THEN [contracts[i] EXCEPT !.address = contract.address,
                                             !.abiVersions = contract.abiVersions]
                   ELSE contracts[i]]
         ELSE contracts \o [i \in DOMAIN chainIds |-> [contract EXCEPT !.chainId = chainIds[i]]]

-----------------------------------------------------------------------------
(* The ABI of a contract *)

\* combineAbis takes the brackets off each version and joins with commas, so an
\* empty version among others leaves a comma too many.
Combinable(versions) ==
    /\ \A i \in DOMAIN versions : versions[i] \notin {TooShort, Malformed}
    /\ Len(versions) > 1 => \A i \in DOMAIN versions : versions[i] # <<>>

\* The library stops at the second receive or fallback function; that error is
\* ignored, and the ABI is what was read before it.
UnmarshalJson(entries) ==
    LET repeated == {i \in DOMAIN entries : /\ entries[i].id \in {"receive", "fallback"}
                                            /\ \E j \in 1 .. i - 1 : entries[j] = entries[i]}
    IN  {entries[i] : i \in {j \in DOMAIN entries : \A k \in repeated : j < k}}

\* The entries that are read; none stands for an error, after which DecodeLog
\* returns one just as it does when the event is not found.
GetAbi(c) == IF Combinable(c.abiVersions) THEN UnmarshalJson(FlattenSeq(c.abiVersions)) ELSE {}

=============================================================================
