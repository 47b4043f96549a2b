--------------------------- MODULE LogFetchProofs ---------------------------
(***************************************************************************)
(* Theorems about LogFetch and the registry it reads, for any addresses,   *)
(* spellings and number of writers.                                        *)
(***************************************************************************)
EXTENDS LogFetch, NaturalLemmas, FiniteSetTheorems, TLAPS

-----------------------------------------------------------------------------
(* The registry *)

\* A writer in a call holds the mutex, and the list is still the one it loaded.
MutexInv ==
    \A w \in Writers :
       call[w] # NoCall => writeMu = w /\ call[w].current = contracts

RegistryInv == RegistryTypeOK /\ MutexInv

\* The new registry has its type and no writer.
LEMMA RegistryInit == New => RegistryInv
BY DEF New, RegistryInv, RegistryTypeOK, MutexInv

\* RegistryInv through the load and the store of a writer.
LEMMA RegistryWrite ==
    ASSUME RegistryInv, Write
    PROVE  RegistryInv'
<1>1. ASSUME NEW w \in Writers, NEW op \in {"register", "unregister"},
             NEW addresses \in SUBSET Addresses, Load(w, op, addresses)
      PROVE  RegistryInv'
  <2> DEFINE new == [op |-> op, addresses |-> addresses, current |-> contracts]
  <2>1. new \in Call /\ call' = [call EXCEPT ![w] = new] /\ writeMu' = w /\ contracts' = contracts
    BY <1>1 DEF Load, Call, RegistryInv, RegistryTypeOK
  <2>2. new.current = contracts
    OBVIOUS
  <2> HIDE DEF new
  <2>3. RegistryTypeOK'
    BY <2>1 DEF RegistryInv, RegistryTypeOK
  <2>4. MutexInv'
    BY <1>1, <2>1, <2>2, RegistryAssumption DEF Load, RegistryInv, RegistryTypeOK, MutexInv
  <2> QED
    BY <2>3, <2>4 DEF RegistryInv
<1>2. ASSUME NEW w \in Writers, Store(w)
      PROVE  RegistryInv'
  <2>1. call[w] \in Call
    BY <1>2 DEF Store, RegistryInv, RegistryTypeOK
  <2>2. contracts' \subseteq Lowered(Addresses)
    BY <1>2, <2>1 DEF Store, Call, RegisterContracts, UnregisterContracts, Lowered
  <2>3. RegistryTypeOK'
    BY <1>2, <2>2 DEF Store, RegistryInv, RegistryTypeOK
  <2>4. \A v \in Writers : call[v] # NoCall => v = w
    BY <1>2 DEF Store, RegistryInv, MutexInv
  <2>5. MutexInv'
    BY <1>2, <2>4 DEF Store, RegistryInv, RegistryTypeOK, MutexInv
  <2> QED
    BY <2>3, <2>5 DEF RegistryInv
<1> QED
  BY <1>1, <1>2 DEF Write

\* RegistryInv through every step.
LEMMA RegistryStepInv ==
    ASSUME RegistryInv, [Next]_vars
    PROVE  RegistryInv'
<1>1. CASE Write
  BY <1>1, RegistryWrite
<1>2. CASE UNCHANGED registryVars
  BY <1>2 DEF registryVars, RegistryInv, RegistryTypeOK, MutexInv
<1> QED
  BY <1>1, <1>2 DEF Next, RegistryStep, Fetch, Goroutine, BatchReply, BatchFails, Gather, vars

\* What a step may do to the listing of an address.
ListedByCall(a) ==
    /\ a \in contracts' \ contracts => \E w \in Writers : Names(call[w], "register", a)
    /\ a \in contracts \ contracts' => \E w \in Writers : Names(call[w], "unregister", a)

\* An address enters and leaves the list by a call that names it.
LEMMA ListedByStep ==
    ASSUME RegistryInv, [Next]_vars, NEW a \in Lowered(Addresses)
    PROVE  ListedByCall(a)
<1>1. ASSUME NEW w \in Writers, Store(w)
      PROVE  ListedByCall(a)
  <2>1. call[w] # NoCall /\ call[w].current = contracts /\ call[w] \in Call
    BY <1>1 DEF Store, RegistryInv, RegistryTypeOK, MutexInv
  <2>2. call[w].op \in {"register", "unregister"}
    BY <2>1 DEF Call
  <2> QED
    BY <1>1, <2>1, <2>2 DEF Store, ListedByCall, Names, RegisterContracts, UnregisterContracts
<1>2. CASE contracts' = contracts
  BY <1>2 DEF ListedByCall
<1> QED
  BY <1>1, <1>2 DEF Next, RegistryStep, Write, Load, Fetch, Goroutine, BatchReply, BatchFails,
                    Gather, vars, registryVars

\* Of any number of writers none undoes what another has done: an address enters
\* and leaves the list only by a call that names it (inMemory.go:20, 39).
THEOREM RegistryLosesNothing == Spec => NoUpdateLost
<1>1. Init => RegistryInv
  BY RegistryInit DEF Init
<1>2. RegistryInv /\ [Next]_vars => RegistryInv'
  BY RegistryStepInv
<1>3. RegistryInv /\ [Next]_vars => [\A a \in Lowered(Addresses) : ListedByCall(a)]_registryVars
  BY ListedByStep
<1> QED
  BY <1>1, <1>2, <1>3, PTL DEF Spec, NoUpdateLost, ListedByCall

-----------------------------------------------------------------------------
(* The list of the interesting contracts *)

\* No element is twice in the sequence.
NoRepeats(s) == \A i, j \in DOMAIN s : s[i] = s[j] => i = j

\* Two sequences one after the other.
LEMMA ConcatFacts ==
    ASSUME NEW A, NEW s \in Seq(A), NEW t \in Seq(A)
    PROVE  /\ s \o t \in Seq(A)
           /\ Len(s) \in Nat /\ Len(t) \in Nat
           /\ DOMAIN s = 1 .. Len(s) /\ DOMAIN t = 1 .. Len(t)
           /\ DOMAIN (s \o t) = 1 .. Len(s) + Len(t)
           /\ \A i \in 1 .. Len(s) : (s \o t)[i] = s[i]
           /\ \A i \in 1 .. Len(t) : (s \o t)[Len(s) + i] = t[i]
OBVIOUS

\* What is in two sequences one after the other, and when nothing is there twice.
LEMMA ConcatDistinct ==
    ASSUME NEW A, NEW s \in Seq(A), NEW t \in Seq(A)
    PROVE  /\ s \o t \in Seq(A)
           /\ ToSet(s \o t) = ToSet(s) \cup ToSet(t)
           /\ NoRepeats(s) /\ NoRepeats(t) /\ ToSet(s) \cap ToSet(t) = {} => NoRepeats(s \o t)
<1> DEFINE u == s \o t
           m == Len(s)
           n == Len(t)
<1>1. /\ u \in Seq(A) /\ m \in Nat /\ n \in Nat
      /\ DOMAIN s = 1 .. m /\ DOMAIN t = 1 .. n /\ DOMAIN u = 1 .. m + n
      /\ \A i \in 1 .. m : u[i] = s[i]
      /\ \A i \in 1 .. n : u[m + i] = t[i]
  BY ConcatFacts
<1> HIDE DEF u, m, n
<1>2. \A i \in 1 .. m + n : i \in 1 .. m \/ (i - m \in 1 .. n /\ m + (i - m) = i)
  BY <1>1
<1>3. (\A i \in 1 .. m : i \in 1 .. m + n) /\ (\A i \in 1 .. n : m + i \in 1 .. m + n)
  BY <1>1
<1>4. \A i \in 1 .. m + n : (i \in 1 .. m /\ u[i] = s[i]) \/ (i - m \in 1 .. n /\ u[i] = t[i - m])
  BY <1>1, <1>2
<1>5. ToSet(u) = ToSet(s) \cup ToSet(t)
  BY <1>1, <1>3, <1>4 DEF ToSet
<1>6. ASSUME NoRepeats(s), NoRepeats(t), ToSet(s) \cap ToSet(t) = {},
             NEW i \in 1 .. m + n, NEW j \in 1 .. m + n, u[i] = u[j]
      PROVE  i = j
  <2>1. \A k \in 1 .. m, l \in 1 .. n : s[k] # t[l]
    BY <1>1, <1>6 DEF ToSet
  <2>2. CASE i \in 1 .. m /\ u[i] = s[i]
    <3>1. j \in 1 .. m /\ u[j] = s[j]
      BY <1>4, <1>6, <2>1, <2>2
    <3> QED
      BY <1>1, <1>6, <2>2, <3>1 DEF NoRepeats
  <2>3. CASE i - m \in 1 .. n /\ u[i] = t[i - m]
    <3>1. j - m \in 1 .. n /\ u[j] = t[j - m]
      BY <1>4, <1>6, <2>1, <2>3
    <3>2. i - m = j - m
      BY <1>1, <1>6, <2>3, <3>1 DEF NoRepeats
    <3> QED
      BY <1>1, <3>2
  <2> QED
    BY <1>4, <2>2, <2>3
<1> QED
  BY <1>1, <1>5, <1>6 DEF u, NoRepeats

\* The configured contracts among the first n entries, in lower case.
ConfiguredSet(n) ==
    {Lower[InterestingContracts[i]] : i \in {j \in 1 .. n : InterestingContracts[j] # EmptyAddress}}

\* One turn of the loop keeps the list free of repetitions and adds the address.
LEMMA AddUnlessSeenFacts ==
    ASSUME NEW A, NEW s \in Seq(A), NoRepeats(s), NEW a, Lower[a] \in A
    PROVE  /\ AddUnlessSeen(s, a) \in Seq(A)
           /\ NoRepeats(AddUnlessSeen(s, a))
           /\ ToSet(AddUnlessSeen(s, a)) = IF a = EmptyAddress THEN ToSet(s) ELSE ToSet(s) \cup {Lower[a]}
<1>1. CASE a = EmptyAddress \/ Lower[a] \in ToSet(s)
  <2>1. AddUnlessSeen(s, a) = s
    BY <1>1 DEF AddUnlessSeen
  <2> QED
    BY <1>1, <2>1
<1>2. CASE ~(a = EmptyAddress \/ Lower[a] \in ToSet(s))
  <2> DEFINE x == Lower[a]
             t == Append(s, x)
  <2>1. AddUnlessSeen(s, a) = t
    BY <1>2 DEF AddUnlessSeen
  <2>2. x \in A /\ x \notin ToSet(s)
    BY <1>2
  <2> HIDE DEF x
  <2>3. /\ t \in Seq(A) /\ Len(t) = Len(s) + 1 /\ Len(s) \in Nat
        /\ DOMAIN s = 1 .. Len(s) /\ DOMAIN t = 1 .. Len(s) + 1
        /\ \A i \in 1 .. Len(s) : t[i] = s[i]
        /\ t[Len(s) + 1] = x
    BY <2>2
  <2> HIDE DEF t
  <2>4. \A i \in 1 .. Len(s) : s[i] # x
    BY <2>2, <2>3 DEF ToSet
  <2>5. NoRepeats(t)
    <3>1. ASSUME NEW i \in 1 .. Len(s) + 1, NEW j \in 1 .. Len(s) + 1, t[i] = t[j]
          PROVE  i = j
      <4>1. CASE i \in 1 .. Len(s) /\ j \in 1 .. Len(s)
        BY <2>3, <3>1, <4>1 DEF NoRepeats
      <4>2. CASE i = Len(s) + 1 /\ j \in 1 .. Len(s)
        BY <2>3, <2>4, <3>1, <4>2
      <4>3. CASE j = Len(s) + 1 /\ i \in 1 .. Len(s)
        BY <2>3, <2>4, <3>1, <4>3
      <4> QED
        BY <2>3, <4>1, <4>2, <4>3
    <3> QED
      BY <2>3, <3>1 DEF NoRepeats
  <2>6. ToSet(t) = ToSet(s) \cup {x}
    <3>1. \A i \in 1 .. Len(s) + 1 : i \in 1 .. Len(s) \/ i = Len(s) + 1
      BY <2>3
    <3>2. \A i \in 1 .. Len(s) : i \in 1 .. Len(s) + 1
      BY <2>3
    <3>3. Len(s) + 1 \in 1 .. Len(s) + 1
      BY <2>3
    <3> QED
      BY <2>3, <3>1, <3>2, <3>3 DEF ToSet
  <2> QED
    BY <1>2, <2>1, <2>3, <2>5, <2>6 DEF x
<1> QED
  BY <1>1, <1>2

\* The loop over the configuration has a result after every turn.
LEMMA ConfiguredAfterDef ==
    LET N == Len(InterestingContracts)
    IN  /\ ConfiguredAfter[0] = <<>>
        /\ \A n \in 1 .. N :
              ConfiguredAfter[n] = AddUnlessSeen(ConfiguredAfter[n - 1], InterestingContracts[n])
<1> DEFINE N == Len(InterestingContracts)
           A == Lowered(Addresses)
           empty == <<>>
           Value(n, q) == IF n = 0 THEN q ELSE AddUnlessSeen(q, InterestingContracts[n])
           step == [p \in (0 .. N) \X Seq(A) |-> Value(p[1], p[2])]
           Solves(g) == g = [n \in 0 .. N |->
                               IF n = 0 THEN empty
                               ELSE AddUnlessSeen(g[n - 1], InterestingContracts[n])]
<1>1. N \in Nat /\ (\A n \in 1 .. N : Lower[InterestingContracts[n]] \in A) /\ empty \in Seq(A)
  BY FetchAssumption, RegistryAssumption DEF Lowered
<1>2. ConfiguredAfter = CHOOSE g : Solves(g)
  BY DEF ConfiguredAfter
<1> HIDE DEF N, A, empty
<1>3. \A n \in 0 .. N, q \in Seq(A) : Value(n, q) \in Seq(A)
  <2>1. ASSUME NEW n \in 0 .. N, NEW q \in Seq(A) PROVE Value(n, q) \in Seq(A)
    <3>1. n # 0 => Lower[InterestingContracts[n]] \in A
      BY <1>1
    <3> QED
      BY <3>1 DEF AddUnlessSeen
  <2> QED
    BY <2>1
<1> HIDE DEF Value
<1>4. /\ step \in [(0 .. N) \X Seq(A) -> Seq(A)]
      /\ \A n \in 0 .. N, q \in Seq(A) : step[<<n, q>>] = Value(n, q)
  BY <1>3
<1> HIDE DEF step
<1>5. PICK g \in [0 .. N -> Seq(A)] : Recursive(g, 0, N, empty, step)
  <2>1. 0 <= N /\ 0 \in Nat
    BY <1>1
  <2> QED
    BY <1>1, <1>4, <2>1, RecursiveFunction
<1>6. \A n \in 0 .. N : g[n] = IF n = 0 THEN empty ELSE AddUnlessSeen(g[n - 1], InterestingContracts[n])
  <2>1. ASSUME NEW n \in 0 .. N, n # 0
        PROVE  g[n] = AddUnlessSeen(g[n - 1], InterestingContracts[n])
    <3>1. n - 1 \in 0 .. N
      BY <1>1, <2>1
    <3>2. g[n - 1] \in Seq(A) /\ g[n] = step[<<n, g[n - 1]>>]
      BY <1>5, <2>1, <3>1 DEF Recursive
    <3> QED
      BY <1>4, <2>1, <3>2 DEF Value
  <2> QED
    BY <1>5, <2>1 DEF Recursive
<1>7. Solves(g)
  <2>1. g = [n \in 0 .. N |-> g[n]]
    BY <1>5
  <2> QED
    BY <1>6, <2>1
<1>8. Solves(ConfiguredAfter)
  BY <1>2, <1>7
<1>9. \A n \in 0 .. N : ConfiguredAfter[n] =
         IF n = 0 THEN empty ELSE AddUnlessSeen(ConfiguredAfter[n - 1], InterestingContracts[n])
  <2> DEFINE val == [n \in 0 .. N |-> IF n = 0 THEN empty
                       ELSE AddUnlessSeen(ConfiguredAfter[n - 1], InterestingContracts[n])]
  <2>1. ConfiguredAfter = val
    BY <1>8
  <2>2. \A n \in 0 .. N : val[n] = IF n = 0 THEN empty
                       ELSE AddUnlessSeen(ConfiguredAfter[n - 1], InterestingContracts[n])
    OBVIOUS
  <2> HIDE DEF val
  <2> QED
    BY <2>1, <2>2
<1>10. 0 \in 0 .. N /\ \A n \in 1 .. N : n \in 0 .. N /\ n # 0
  BY <1>1
<1> QED
  BY <1>9, <1>10 DEF N, empty

\* What the loop over the configuration lists: every configured contract once.
LEMMA ConfiguredFacts ==
    LET N == Len(InterestingContracts)
    IN  /\ ConfiguredAfter[N] \in Seq(Lowered(Addresses))
        /\ NoRepeats(ConfiguredAfter[N])
        /\ ToSet(ConfiguredAfter[N]) = ConfiguredSet(N)
<1> DEFINE N == Len(InterestingContracts)
           A == Lowered(Addresses)
           c == ConfiguredAfter
           P == {n \in 0 .. N : c[n] \in Seq(A) /\ NoRepeats(c[n]) /\ ToSet(c[n]) = ConfiguredSet(n)}
<1>1. N \in Nat /\ \A n \in 1 .. N : Lower[InterestingContracts[n]] \in A
  BY FetchAssumption, RegistryAssumption DEF Lowered
<1>2. c[0] = <<>> /\ \A n \in 1 .. N : c[n] = AddUnlessSeen(c[n - 1], InterestingContracts[n])
  BY ConfiguredAfterDef
<1> HIDE DEF N, A, c
<1>3. 0 \in P
  <2>1. 0 \in 0 .. N /\ ConfiguredSet(0) = {}
    BY <1>1 DEF ConfiguredSet
  <2>2. c[0] \in Seq(A) /\ DOMAIN c[0] = {}
    BY <1>2
  <2> QED
    BY <2>1, <2>2 DEF NoRepeats, ToSet
<1>4. ASSUME NEW n \in 0 .. N - 1, n \in P PROVE n + 1 \in P
  <2> DEFINE a == InterestingContracts[n + 1]
  <2>1. n + 1 \in 1 .. N /\ (n + 1) - 1 = n /\ n + 1 \in 0 .. N /\ n \in Nat
    BY <1>1
  <2>2. c[n + 1] = AddUnlessSeen(c[n], a) /\ Lower[a] \in A
    BY <1>1, <1>2, <2>1
  <2>3. c[n] \in Seq(A) /\ NoRepeats(c[n]) /\ ToSet(c[n]) = ConfiguredSet(n)
    BY <1>4
  <2>4. ConfiguredSet(n + 1) = IF a = EmptyAddress THEN ConfiguredSet(n)
                               ELSE ConfiguredSet(n) \cup {Lower[a]}
    <3>1. \A i : i \in 1 .. n + 1 <=> i \in 1 .. n \/ i = n + 1
      BY <2>1
    <3> QED
      BY <3>1 DEF ConfiguredSet
  <2> HIDE DEF a
  <2>5. /\ AddUnlessSeen(c[n], a) \in Seq(A)
        /\ NoRepeats(AddUnlessSeen(c[n], a))
        /\ ToSet(AddUnlessSeen(c[n], a)) =
              IF a = EmptyAddress THEN ToSet(c[n]) ELSE ToSet(c[n]) \cup {Lower[a]}
    BY <2>2, <2>3, AddUnlessSeenFacts
  <2> QED
    BY <2>1, <2>2, <2>3, <2>4, <2>5
<1>5. 0 .. N \subseteq P
  <2> HIDE DEF P
  <2> QED
    BY <1>1, <1>3, <1>4, IntervalInduction
<1>6. N \in P
  BY <1>1, <1>5
<1> QED
  BY <1>6 DEF N, A, c

\* A sequence made of a finite set has each of its elements once.
LEMMA SetToSeqsFacts ==
    ASSUME NEW S, IsFiniteSet(S), NEW s \in SetToSeqs(S)
    PROVE  s \in Seq(S) /\ NoRepeats(s) /\ ToSet(s) = S
<1> DEFINE n == Cardinality(S)
<1>1. n \in Nat
  BY FS_CardinalityType
<1>2. s \in [1 .. n -> S] /\ \A i, j \in 1 .. n : i # j => s[i] # s[j]
  BY DEF SetToSeqs
<1>3. IsFiniteSet(1 .. n) /\ Cardinality(1 .. n) = n
  <2>1. Cardinality(1 .. n) = IF 1 > n THEN 0 ELSE n - 1 + 1
    BY <1>1, FS_Interval
  <2>2. IsFiniteSet(1 .. n)
    BY <1>1, FS_Interval
  <2> QED
    BY <1>1, <2>1, <2>2
<1> HIDE DEF n
<1>4. s \in Injection(1 .. n, S)
  BY <1>2 DEF Injection, IsInjective
<1>5. s \in Surjection(1 .. n, S)
  BY <1>3, <1>4, FS_Injection DEF n
<1>6. \A x \in S : \E i \in 1 .. n : s[i] = x
  BY <1>5 DEF Surjection
<1>7. s \in Seq(S) /\ DOMAIN s = 1 .. n
  BY <1>1, <1>2
<1> QED
  BY <1>2, <1>6, <1>7 DEF NoRepeats, ToSet

\* The list has every interesting contract, and none twice.
LEMMA ListFacts ==
    ASSUME RegistryTypeOK, NEW s \in ListAllInterestingContracts(contracts)
    PROVE  s \in Seq(Lowered(Addresses)) /\ NoRepeats(s) /\ ToSet(s) = Interesting(contracts)
<1> DEFINE N == Len(InterestingContracts)
           A == Lowered(Addresses)
           c == ConfiguredAfter[N]
           R == contracts \ ToSet(c)
<1>1. PICK t \in SetToSeqs(R) : s = c \o t
  BY DEF ListAllInterestingContracts
<1>2. IsFiniteSet(R) /\ R \subseteq A
  <2>1. A \subseteq Addresses
    BY RegistryAssumption DEF Lowered
  <2>2. R \subseteq A
    BY DEF RegistryTypeOK
  <2> HIDE DEF R, A
  <2> QED
    BY <2>1, <2>2, FetchAssumption, FS_Subset
<1>3. c \in Seq(A) /\ NoRepeats(c) /\ ToSet(c) = ConfiguredSet(N)
  BY ConfiguredFacts
<1>4. t \in Seq(R) /\ NoRepeats(t) /\ ToSet(t) = R
  BY <1>1, <1>2, SetToSeqsFacts
<1>5. Interesting(contracts) = ConfiguredSet(N) \cup contracts
  <2>1. N \in Nat /\ DOMAIN InterestingContracts = 1 .. N
    BY FetchAssumption
  <2> QED
    BY <2>1 DEF Interesting, ConfiguredSet, ToSet
<1>6. ToSet(c) \cup R = Interesting(contracts) /\ ToSet(c) \cap ToSet(t) = {}
  BY <1>3, <1>4, <1>5
<1> HIDE DEF R, A, c
<1>7. t \in Seq(A)
  BY <1>2, <1>4
<1>8. ToSet(s) = ToSet(c) \cup ToSet(t) /\ NoRepeats(s) /\ s \in Seq(A)
  BY <1>1, <1>3, <1>4, <1>6, <1>7, ConcatDistinct
<1> QED
  BY <1>4, <1>6, <1>8 DEF A

-----------------------------------------------------------------------------
(* The batches *)

\* Division with remainder.
LEMMA DivFacts ==
    ASSUME NEW a \in Nat, NEW b \in Nat \ {0}
    PROVE  /\ a \div b \in Nat
           /\ (a \div b) * b \in Nat
           /\ (a \div b) * b <= a
           /\ a < (a \div b) * b + b
OBVIOUS

\* Multiples keep the order of their factors.
LEMMA TimesMono ==
    ASSUME NEW a \in Nat, NEW b \in Nat, NEW c \in Nat, a <= b
    PROVE  a * c <= b * c /\ a * c \in Nat /\ b * c \in Nat
OBVIOUS

\* One multiple less.
LEMMA TimesBefore ==
    ASSUME NEW a \in Nat, NEW c \in Nat
    PROVE  (a - 1) * c = a * c - c
OBVIOUS

\* The size of a batch is positive, whatever the configuration says.
LEMMA SizeType == Size \in Nat \ {0}
BY FetchAssumption DEF Size

\* Where the batches begin and end: each has a place in 1 .. n, at least one and at
\* most Size of them, they follow one another, and leave none out.
LEMMA BatchBounds ==
    ASSUME NEW n \in Nat
    PROVE  LET K == (n + Size - 1) \div Size
               first(i) == (i - 1) * Size + 1
               end(i) == IF i * Size > n THEN n ELSE i * Size
           IN  /\ K \in Nat
               /\ \A i \in 1 .. K : /\ first(i) \in 1 .. n /\ end(i) \in 1 .. n
                                    /\ first(i) <= end(i) /\ end(i) - first(i) + 1 <= Size
               /\ \A i, j \in 1 .. K : i < j => end(i) < first(j)
               /\ \A p \in 1 .. n : \E i \in 1 .. K : first(i) <= p /\ p <= end(i)
<1> DEFINE Z == Size
           K == (n + Z - 1) \div Z
           first(i) == (i - 1) * Z + 1
           end(i) == IF i * Z > n THEN n ELSE i * Z
<1>1. Z \in Nat \ {0}
  BY SizeType
<1> HIDE DEF Z
<1>2. n + Z - 1 \in Nat
  BY <1>1
<1>3. K \in Nat /\ K * Z \in Nat /\ K * Z <= n + Z - 1 /\ n + Z - 1 < K * Z + Z
  BY <1>1, <1>2, DivFacts
<1> HIDE DEF K
<1>4. ASSUME NEW i \in 1 .. K
      PROVE  /\ first(i) \in 1 .. n /\ end(i) \in 1 .. n
             /\ first(i) <= end(i) /\ end(i) - first(i) + 1 <= Z
  <2>1. i * Z <= K * Z /\ i * Z \in Nat
    BY <1>1, <1>3, TimesMono
  <2>2. (i - 1) * Z = i * Z - Z
    BY <1>1, <1>3, TimesBefore
  <2>3. 0 * Z <= (i - 1) * Z /\ 0 * Z = 0 /\ (i - 1) * Z \in Nat
    BY <1>1, <1>3, TimesMono
  <2> DEFINE x == i * Z
             y == (i - 1) * Z
             z == K * Z
  <2>4. x <= z /\ x \in Nat /\ y = x - Z /\ y \in Nat /\ z \in Nat /\ z <= n + Z - 1
    BY <1>3, <2>1, <2>2, <2>3
  <2> HIDE DEF x, y, z
  <2>5. y + 1 \in 1 .. n /\ (IF x > n THEN n ELSE x) \in 1 .. n
        /\ y + 1 <= (IF x > n THEN n ELSE x) /\ (IF x > n THEN n ELSE x) - (y + 1) + 1 <= Z
    BY <1>1, <2>4
  <2> QED
    BY <2>5 DEF x, y
<1>5. ASSUME NEW i \in 1 .. K, NEW j \in 1 .. K, i < j
      PROVE  end(i) < first(j)
  <2>1. i \in Nat /\ j - 1 \in Nat /\ i <= j - 1
    BY <1>3, <1>5
  <2>2. i * Z <= (j - 1) * Z /\ i * Z \in Nat /\ (j - 1) * Z \in Nat
    BY <1>1, <2>1, TimesMono
  <2> QED
    BY <2>2
<1>6. ASSUME NEW p \in 1 .. n
      PROVE  \E i \in 1 .. K : first(i) <= p /\ p <= end(i)
  <2> DEFINE q == (p - 1) \div Z
  <2>1. q \in Nat /\ q * Z \in Nat /\ q * Z <= p - 1 /\ p - 1 < q * Z + Z
    BY <1>1, DivFacts
  <2> HIDE DEF q
  <2>2. q + 1 <= K
    <3> SUFFICES ASSUME K <= q PROVE FALSE
      BY <1>3, <2>1
    <3>1. K * Z <= q * Z
      BY <1>1, <1>3, <2>1, TimesMono
    <3> QED
      BY <1>1, <1>3, <2>1, <3>1
  <2>3. (q + 1) - 1 = q /\ (q + 1) * Z = q * Z + Z /\ q + 1 \in 1 .. K
    BY <1>1, <1>3, <2>1, <2>2
  <2>4. first(q + 1) = q * Z + 1 /\ end(q + 1) = IF q * Z + Z > n THEN n ELSE q * Z + Z
    BY <2>3
  <2>5. first(q + 1) <= p /\ p <= end(q + 1)
    BY <1>1, <2>1, <2>4
  <2> QED
    BY <2>3, <2>5
<1> QED
  BY <1>3, <1>4, <1>5, <1>6 DEF K, Z

\* No address is in two batches, or twice in one.
Disjoint(b) ==
    /\ \A i \in DOMAIN b : NoRepeats(b[i])
    /\ \A i, j \in DOMAIN b : i # j => ToSet(b[i]) \cap ToSet(b[j]) = {}

\* What is in some batch.
InBatches(b) == UNION {ToSet(b[i]) : i \in DOMAIN b}

\* The batches hold what was listed.
LEMMA ChunkFacts ==
    ASSUME NEW A, NEW s \in Seq(A), NoRepeats(s)
    PROVE  /\ ChunkAddresses(s) \in Seq(Seq(A))
           /\ \A i \in DOMAIN ChunkAddresses(s) : Len(ChunkAddresses(s)[i]) \in 1 .. Size
           /\ Disjoint(ChunkAddresses(s))
           /\ InBatches(ChunkAddresses(s)) = ToSet(s)
<1> DEFINE n == Len(s)
           K == (n + Size - 1) \div Size
           first(i) == (i - 1) * Size + 1
           end(i) == IF i * Size > n THEN n ELSE i * Size
           b == ChunkAddresses(s)
<1>1. n \in Nat /\ DOMAIN s = 1 .. n /\ \A p \in 1 .. n : s[p] \in A
  OBVIOUS
<1>2. /\ K \in Nat
      /\ \A i \in 1 .. K : /\ first(i) \in 1 .. n /\ end(i) \in 1 .. n
                           /\ first(i) <= end(i) /\ end(i) - first(i) + 1 <= Size
      /\ \A i, j \in 1 .. K : i < j => end(i) < first(j)
      /\ \A p \in 1 .. n : \E i \in 1 .. K : first(i) <= p /\ p <= end(i)
  BY <1>1, BatchBounds
<1>3. b = [i \in 1 .. K |-> SubSeq(s, first(i), end(i))]
  BY DEF ChunkAddresses
<1> HIDE DEF n, K, first, end, b
<1>4. ASSUME NEW i \in 1 .. K
      PROVE  /\ b[i] \in Seq(A) /\ Len(b[i]) \in 1 .. Size
             /\ Len(b[i]) = end(i) - first(i) + 1
             /\ DOMAIN b[i] = 1 .. end(i) - first(i) + 1
             /\ \A p \in DOMAIN b[i] :
                   b[i][p] = s[first(i) + p - 1] /\ first(i) + p - 1 \in first(i) .. end(i)
  <2> DEFINE f == first(i)
             e == end(i)
             c == SubSeq(s, f, e)
  <2>1. b[i] = c
    BY <1>3
  <2>2. f \in 1 .. n /\ e \in 1 .. n /\ f <= e /\ e - f + 1 <= Size
    BY <1>2
  <2> HIDE DEF f, e
  <2>3. \A p \in f .. e : s[p] \in A
    BY <1>1, <2>2
  <2>4. c \in Seq(A) /\ Len(c) = e - f + 1
    BY <1>1, <2>2, <2>3 DEF n
  <2>5. \A p \in 1 .. e - f + 1 : c[p] = s[f + p - 1]
    BY <1>1, <2>2, <2>3 DEF n
  <2> HIDE DEF c
  <2>6. DOMAIN c = 1 .. e - f + 1
    BY <2>4
  <2>7. Len(c) \in 1 .. Size /\ \A p \in 1 .. e - f + 1 : f + p - 1 \in f .. e
    BY <1>1, <2>2, <2>4, SizeType
  <2> QED
    BY <2>1, <2>4, <2>5, <2>6, <2>7 DEF f, e
<1>5. b \in Seq(Seq(A)) /\ DOMAIN b = 1 .. K
  <2> DEFINE S == Seq(A)
  <2>1. b = [i \in 1 .. K |-> b[i]] /\ \A i \in 1 .. K : b[i] \in S
    BY <1>3, <1>4
  <2> HIDE DEF S
  <2>2. b \in [1 .. K -> S]
    BY <2>1
  <2>3. b \in Seq(S) /\ DOMAIN b = 1 .. K
    BY <1>2, <2>2
  <2> QED
    BY <2>3 DEF S
<1>11. \A i \in 1 .. K : /\ first(i) \in Int /\ end(i) \in Int
                          /\ 1 <= first(i) /\ first(i) <= end(i) /\ end(i) <= n
  <2>1. ASSUME NEW i \in 1 .. K
        PROVE  /\ first(i) \in Int /\ end(i) \in Int
               /\ 1 <= first(i) /\ first(i) <= end(i) /\ end(i) <= n
    <3>1. first(i) \in 1 .. n /\ end(i) \in 1 .. n /\ first(i) <= end(i)
      BY <1>2
    <3> QED
      BY <1>1, <3>1
  <2> QED
    BY <2>1
<1>12. ASSUME NEW i \in 1 .. K, NEW p \in DOMAIN b[i]
       PROVE  /\ p \in Int /\ 1 <= p /\ first(i) + p - 1 <= end(i)
              /\ first(i) + p - 1 \in 1 .. n /\ b[i][p] = s[first(i) + p - 1]
  <2>1. first(i) \in Int /\ end(i) \in Int /\ 1 <= first(i) /\ first(i) <= end(i) /\ end(i) <= n
    BY <1>11
  <2>2. p \in 1 .. end(i) - first(i) + 1 /\ b[i][p] = s[first(i) + p - 1]
    BY <1>4
  <2> QED
    BY <1>1, <2>1, <2>2
<1>6. \A i \in 1 .. K : \A p \in DOMAIN b[i] :
         first(i) + p - 1 \in 1 .. n /\ b[i][p] = s[first(i) + p - 1]
  BY <1>12
<1>7. \A i \in 1 .. K : NoRepeats(b[i])
  <2>1. ASSUME NEW i \in 1 .. K, NEW p \in DOMAIN b[i], NEW q \in DOMAIN b[i], b[i][p] = b[i][q]
        PROVE  p = q
    <3>1. first(i) + p - 1 = first(i) + q - 1
      BY <1>1, <1>6, <2>1 DEF NoRepeats
    <3>2. p \in Int /\ q \in Int /\ first(i) \in Int
      BY <1>11, <1>12
    <3> QED
      BY <3>1, <3>2
  <2> QED
    BY <2>1 DEF NoRepeats
<1>8. ASSUME NEW i \in 1 .. K, NEW j \in 1 .. K, i < j
      PROVE  ToSet(b[i]) \cap ToSet(b[j]) = {}
  <2>1. ASSUME NEW p \in DOMAIN b[i], NEW q \in DOMAIN b[j], b[i][p] = b[j][q]
        PROVE  FALSE
    <3>1. first(i) + p - 1 = first(j) + q - 1
      BY <1>1, <1>6, <2>1 DEF NoRepeats
    <3>2. first(i) + p - 1 <= end(i) /\ 1 <= q /\ p \in Int /\ q \in Int
      BY <1>12
    <3>3. first(i) \in Int /\ end(i) \in Int /\ first(j) \in Int /\ end(i) < first(j)
      BY <1>2, <1>8, <1>11
    <3> QED
      BY <3>1, <3>2, <3>3
  <2> QED
    BY <2>1 DEF ToSet
<1>9. Disjoint(b)
  <2>1. \A i, j \in 1 .. K : i # j => i < j \/ j < i
    BY <1>2
  <2> QED
    BY <1>5, <1>7, <1>8, <2>1 DEF Disjoint
<1>10. InBatches(b) = ToSet(s)
  <2>1. ASSUME NEW i \in 1 .. K PROVE ToSet(b[i]) \subseteq ToSet(s)
    BY <1>1, <1>6 DEF ToSet
  <2>2. ASSUME NEW p \in 1 .. n PROVE \E i \in 1 .. K : s[p] \in ToSet(b[i])
    <3>1. PICK i \in 1 .. K : first(i) <= p /\ p <= end(i)
      BY <1>2
    <3>2. p - first(i) + 1 \in 1 .. end(i) - first(i) + 1 /\ first(i) + (p - first(i) + 1) - 1 = p
      <4>1. first(i) \in Int /\ end(i) \in Int
        BY <1>11
      <4> QED
        BY <1>1, <3>1, <4>1
    <3>3. b[i][p - first(i) + 1] = s[p] /\ p - first(i) + 1 \in DOMAIN b[i]
      BY <1>4, <3>2
    <3> QED
      BY <3>3 DEF ToSet
  <2>3. \A x \in ToSet(s) : \E i \in 1 .. K : x \in ToSet(b[i])
    BY <1>1, <2>2 DEF ToSet
  <2> QED
    BY <1>5, <2>1, <2>3 DEF InBatches
<1> QED
  BY <1>4, <1>5, <1>9, <1>10 DEF b

-----------------------------------------------------------------------------
(* The fetch *)

\* The batches in hand are disjoint and hold every contract that was interesting
\* all along.
BatchInv ==
    /\ fetching \in BOOLEAN
    /\ batches \in Seq(Seq(Lowered(Addresses)))
    /\ \A i \in DOMAIN batches : Len(batches[i]) \in 1 .. Size
    /\ Disjoint(batches)
    /\ steady \subseteq InBatches(batches)

\* What has arrived is what the batches that were answered hold; logs are returned
\* when every batch was.
ReplyInv ==
    /\ pending \subseteq DOMAIN batches /\ errors \subseteq DOMAIN batches
    /\ pending \cap errors = {}
    /\ logs \in Seq(Lowered(Addresses)) /\ NoRepeats(logs)
    /\ ToSet(logs) = UNION {ToSet(batches[i]) : i \in DOMAIN batches \ (pending \cup errors)}
    /\ outcome \in {"none", "logs", "error"}
    /\ outcome = "logs" => pending = {} /\ errors = {}
    /\ fetching => outcome = "none"

FetchInv == RegistryInv /\ BatchInv /\ ReplyInv

\* FetchInv before the first fetch.
LEMMA FetchInit == Init => FetchInv
<1> SUFFICES ASSUME Init PROVE FetchInv
  OBVIOUS
<1>1. RegistryInv
  BY RegistryInit DEF Init
<1>2. batches = <<>> /\ logs = <<>> /\ DOMAIN batches = {} /\ DOMAIN logs = {}
  BY DEF Init
<1>3. batches \in Seq(Seq(Lowered(Addresses))) /\ logs \in Seq(Lowered(Addresses))
  BY <1>2
<1>4. BatchInv
  BY <1>2, <1>3 DEF Init, BatchInv, Disjoint, InBatches
<1>5. ReplyInv
  BY <1>2, <1>3 DEF Init, ReplyInv, NoRepeats, ToSet
<1> QED
  BY <1>1, <1>4, <1>5 DEF FetchInv

\* A fetch begins: its batches hold exactly the interesting contracts.
LEMMA FetchStep ==
    ASSUME FetchInv, Fetch
    PROVE  BatchInv' /\ ReplyInv'
<1> DEFINE A == Lowered(Addresses)
<1>1. PICK s \in ListAllInterestingContracts(contracts) : batches' = ChunkAddresses(s)
  BY DEF Fetch
<1>2. s \in Seq(A) /\ NoRepeats(s) /\ ToSet(s) = Interesting(contracts)
  BY <1>1, ListFacts DEF FetchInv, RegistryInv
<1>3. /\ batches' \in Seq(Seq(A))
      /\ \A i \in DOMAIN batches' : Len(batches'[i]) \in 1 .. Size
      /\ Disjoint(batches')
      /\ InBatches(batches') = ToSet(s)
  BY <1>1, <1>2, ChunkFacts
<1>4. BatchInv'
  BY <1>2, <1>3 DEF Fetch, BatchInv
<1>5. logs' = <<>> /\ logs' \in Seq(A) /\ DOMAIN logs' = {} /\ errors' = {} /\ pending' = DOMAIN batches'
  BY DEF Fetch
<1>6. ToSet(logs') = {} /\ NoRepeats(logs')
  BY <1>5 DEF ToSet, NoRepeats
<1>7. UNION {ToSet(batches'[i]) : i \in DOMAIN batches' \ (pending' \cup errors')} = {}
  BY <1>5
<1>8. /\ outcome' \in {"none", "logs", "error"}
      /\ outcome' = "logs" => batches' = <<>>
      /\ fetching' => outcome' = "none"
  BY DEF Fetch
<1>9. batches' = <<>> => pending' = {}
  BY <1>5
<1> QED
  BY <1>4, <1>5, <1>6, <1>7, <1>8, <1>9 DEF ReplyInv

\* A batch is answered: its logs come to those of the others.
LEMMA ReplyStep ==
    ASSUME FetchInv, NEW i \in pending, BatchReply(i)
    PROVE  BatchInv' /\ ReplyInv'
<1> DEFINE A == Lowered(Addresses)
<1>1. /\ i \in DOMAIN batches /\ i \notin errors /\ logs \in Seq(A) /\ NoRepeats(logs)
      /\ batches \in Seq(Seq(A)) /\ Disjoint(batches)
  BY DEF FetchInv, BatchInv, ReplyInv
<1>2. batches[i] \in Seq(A) /\ NoRepeats(batches[i])
  <2> DEFINE S == Seq(A)
  <2>1. batches \in Seq(S)
    BY <1>1
  <2> HIDE DEF S
  <2>2. batches[i] \in S
    BY <1>1, <2>1
  <2> QED
    BY <1>1, <2>2 DEF Disjoint, S
<1>3. ToSet(logs) = UNION {ToSet(batches[j]) : j \in DOMAIN batches \ (pending \cup errors)}
  BY DEF FetchInv, ReplyInv
<1>4. ToSet(logs) \cap ToSet(batches[i]) = {}
  <2>1. \A j \in DOMAIN batches \ (pending \cup errors) : ToSet(batches[j]) \cap ToSet(batches[i]) = {}
    BY <1>1 DEF Disjoint
  <2> QED
    BY <1>3, <2>1
<1>5. /\ logs' = logs \o batches[i] /\ pending' = pending \ {i}
      /\ UNCHANGED <<fetching, batches, errors, outcome, steady>>
  BY DEF BatchReply
<1>6. /\ logs' \in Seq(A) /\ NoRepeats(logs')
      /\ ToSet(logs') = ToSet(logs) \cup ToSet(batches[i])
  BY <1>1, <1>2, <1>4, <1>5, ConcatDistinct
<1>7. DOMAIN batches \ (pending' \cup errors) = (DOMAIN batches \ (pending \cup errors)) \cup {i}
  BY <1>1, <1>5
<1>8. UNION {ToSet(batches[j]) : j \in DOMAIN batches \ (pending' \cup errors)}
         = ToSet(logs) \cup ToSet(batches[i])
  BY <1>3, <1>7
<1>9. BatchInv'
  BY <1>5 DEF FetchInv, BatchInv, Disjoint, InBatches
<1>10. ReplyInv'
  BY <1>5, <1>6, <1>8 DEF FetchInv, ReplyInv
<1> QED
  BY <1>9, <1>10

\* A batch fails: its error stays until the fetch returns.
LEMMA FailStep ==
    ASSUME FetchInv, NEW i \in pending, BatchFails(i)
    PROVE  BatchInv' /\ ReplyInv'
<1>1. /\ pending' = pending \ {i} /\ errors' = errors \cup {i} /\ fetching
      /\ UNCHANGED <<fetching, batches, logs, outcome, steady>>
  BY DEF BatchFails
<1>2. pending' \cup errors' = pending \cup errors /\ outcome = "none"
  BY <1>1 DEF FetchInv, ReplyInv
<1>3. BatchInv'
  BY <1>1 DEF FetchInv, BatchInv, Disjoint, InBatches
<1>4. ReplyInv'
  BY <1>1, <1>2 DEF FetchInv, ReplyInv
<1> QED
  BY <1>3, <1>4

\* FetchInv through every step.
LEMMA FetchNext ==
    ASSUME FetchInv, [Next]_vars
    PROVE  FetchInv'
<1>1. RegistryInv'
  BY RegistryStepInv DEF FetchInv
<1>2. CASE Fetch
  BY <1>1, <1>2, FetchStep DEF FetchInv
<1>3. ASSUME NEW i \in pending, Goroutine(i) PROVE FetchInv'
  BY <1>1, <1>3, ReplyStep, FailStep DEF Goroutine, FetchInv
<1>4. CASE Gather
  <2>1. BatchInv'
    BY <1>4 DEF Gather, FetchInv, BatchInv, Disjoint, InBatches
  <2>2. ReplyInv'
    BY <1>4 DEF Gather, FetchInv, ReplyInv
  <2> QED
    BY <1>1, <2>1, <2>2 DEF FetchInv
<1>5. CASE RegistryStep
  <2>1. BatchInv'
    BY <1>5 DEF RegistryStep, FetchInv, BatchInv, Disjoint, InBatches
  <2>2. ReplyInv'
    BY <1>5 DEF RegistryStep, FetchInv, ReplyInv
  <2> QED
    BY <1>1, <2>1, <2>2 DEF FetchInv
<1>6. CASE UNCHANGED vars
  <2>1. BatchInv'
    BY <1>6 DEF vars, fetchVars, FetchInv, BatchInv, Disjoint, InBatches
  <2>2. ReplyInv'
    BY <1>6 DEF vars, fetchVars, FetchInv, ReplyInv
  <2> QED
    BY <1>1, <2>1, <2>2 DEF FetchInv
<1> QED
  BY <1>2, <1>3, <1>4, <1>5, <1>6 DEF Next

\* The invariant of the fetch holds in every behaviour.
LEMMA FetchInvariant == Spec => []FetchInv
BY FetchInit, FetchNext, PTL DEF Spec

\* What is in the batches and in the logs are addresses.
LEMMA BatchElements ==
    ASSUME FetchInv
    PROVE  /\ \A i \in DOMAIN batches : ToSet(batches[i]) \subseteq Lowered(Addresses)
           /\ ToSet(logs) \subseteq Lowered(Addresses)
<1> DEFINE S == Seq(Lowered(Addresses))
<1>1. batches \in Seq(S) /\ logs \in S
  BY DEF FetchInv, BatchInv, ReplyInv
<1>2. \A t \in S : ToSet(t) \subseteq Lowered(Addresses)
  BY DEF ToSet
<1> HIDE DEF S
<1>3. \A i \in DOMAIN batches : batches[i] \in S
  BY <1>1
<1> QED
  BY <1>1, <1>2, <1>3

\* The types of the fetch and the registry: a batch is never empty and never longer
\* than a request may be (evmChainPoller.go:363), for any configured size.
THEOREM FetchTypeCorrect == Spec => []TypeOK
<1>1. FetchInv => TypeOK
  <2> SUFFICES ASSUME FetchInv PROVE TypeOK
    OBVIOUS
  <2>1. steady \subseteq Lowered(Addresses)
    BY BatchElements DEF FetchInv, BatchInv, InBatches
  <2> QED
    BY <2>1, BatchElements DEF FetchInv, BatchInv, ReplyInv, RegistryInv, TypeOK
<1> QED
  BY <1>1, FetchInvariant, PTL

\* A fetch that returns logs has those of every contract that was interesting from
\* its beginning to its end (evmChainPoller.go:438, 443), for any configuration, size
\* of batches and number of writers of the registry.
THEOREM FetchMissesNothing == Spec => []NothingMissed
<1>1. FetchInv => NothingMissed
  BY DEF FetchInv, BatchInv, ReplyInv, NothingMissed, InBatches
<1> QED
  BY <1>1, FetchInvariant, PTL

\* No address is asked for twice, in whatever spellings it is configured and
\* registered (evmChainPoller.go:347).
THEOREM FetchRepeatsNothing == Spec => []NothingTwice
<1>1. FetchInv => NothingTwice
  <2> SUFFICES ASSUME FetchInv, NEW i \in DOMAIN logs, NEW j \in DOMAIN logs,
                      Lower[logs[i]] = Lower[logs[j]]
               PROVE  i = j
    BY DEF NothingTwice
  <2>1. logs[i] \in Lowered(Addresses) /\ logs[j] \in Lowered(Addresses)
    BY BatchElements DEF ToSet
  <2>2. \A a \in Lowered(Addresses) : Lower[a] = a
    BY RegistryAssumption DEF Lowered
  <2>3. logs[i] = logs[j]
    BY <2>1, <2>2
  <2> QED
    BY <2>3 DEF FetchInv, ReplyInv, NoRepeats
<1> QED
  BY <1>1, FetchInvariant, PTL

=============================================================================
