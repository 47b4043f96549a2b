-------------------------- MODULE ContractRegistry --------------------------
(***************************************************************************)
(* InMemoryContractRegistry (contractRegistry/inMemory.go): a list of      *)
(* contract addresses that writers replace as a whole.  A writer holds     *)
(* writeMu from its load of the list to its store of the new one; a reader *)
(* takes no lock.                                                          *)
(*                                                                         *)
(* The list never holds an address twice and its order is that of a Go     *)
(* map, so it is modelled as a set.                                        *)
(***************************************************************************)

CONSTANTS
    Addresses,   \* addresses as they may be spelled
    Lower,       \* strings.ToLower: Addresses -> Addresses
    Writers,     \* goroutines that register and unregister
    NoWriter,    \* writeMu is free
    NoCall       \* the writer is not in a call

ASSUME RegistryAssumption ==
    /\ Lower \in [Addresses -> Addresses]
    /\ \A a \in Addresses : Lower[Lower[a]] = Lower[a]
    /\ NoWriter \notin Writers

VARIABLES
    contracts,   \* the atomic value
    writeMu,     \* the writer that holds the mutex
    call         \* writer -> the call it is in, with the list it has loaded

registryVars == <<contracts, writeMu, call>>

Lowered(addresses) == {Lower[a] : a \in addresses}

Call == [op : {"register", "unregister"}, addresses : SUBSET Addresses,
         current : SUBSET Lowered(Addresses)]

New ==
    /\ contracts = {}
    /\ writeMu = NoWriter
    /\ call = [w \in Writers |-> NoCall]

\* Mutant: the mutex is not taken.
LoadUnlocked(w, op, addresses) ==
    /\ call[w] = NoCall
    /\ call' = [call EXCEPT ![w] =
                  [op |-> op, addresses |-> addresses, current |-> contracts]]
    /\ UNCHANGED <<contracts, writeMu>>

\* RegisterContracts or UnregisterContracts has taken the mutex and loaded the list.
Load(w, op, addresses) ==
    /\ call[w] = NoCall
    /\ writeMu = NoWriter
    /\ writeMu' = w
    /\ call' = [call EXCEPT ![w] =
                  [op |-> op, addresses |-> addresses, current |-> contracts]]
    /\ UNCHANGED contracts

RegisterContracts(c) == c.current \cup Lowered(c.addresses)

UnregisterContracts(c) == c.current \ Lowered(c.addresses)

\* The list made of the loaded one is stored and the mutex released.
Store(w) ==
    /\ call[w] # NoCall
    /\ contracts' = IF call[w].op = "register"
                      THEN RegisterContracts(call[w]) ELSE UnregisterContracts(call[w])
    /\ writeMu' = NoWriter
    /\ call' = [call EXCEPT ![w] = NoCall]

Write ==
    \E w \in Writers :
       \/ \E op \in {"register", "unregister"}, addresses \in SUBSET Addresses :
             Load(w, op, addresses)
       \/ Store(w)

-----------------------------------------------------------------------------
\* Every variable keeps its type; the list holds lower-case addresses only.
RegistryTypeOK ==
    /\ contracts \subseteq Lowered(Addresses)
    /\ writeMu \in Writers \cup {NoWriter}
    /\ call \in [Writers -> Call \cup {NoCall}]

\* A call under way that is to add, or to remove, the address.
Names(c, op, a) == c # NoCall /\ c.op = op /\ a \in Lowered(c.addresses)

\* An address enters the list only by a RegisterContracts that names it, and
\* leaves it only by an UnregisterContracts that does (inMemory.go:20, 39): of two
\* writers at once neither undoes what the other has done.
NoUpdateLost ==
    [][\A a \in Lowered(Addresses) :
          /\ a \in contracts' \ contracts => \E w \in Writers : Names(call[w], "register", a)
          /\ a \in contracts \ contracts' => \E w \in Writers : Names(call[w], "unregister", a)
      ]_registryVars

=============================================================================
