------------------------- MODULE RepoCatalog_proofs -------------------------
(***************************************************************************)
(* Theorems about RepoCatalog, for any repositories and catalogs, any list *)
(* that a file, an earlier version or the user may leave, and any number   *)
(* of fetches under way.                                                   *)
(***************************************************************************)
EXTENDS RepoCatalog, FiniteSetTheorems, TLAPS

----------------------------------------------------------------------------
\* Picking places from a list.

Rank(K, k) == Cardinality({j \in K : j <= k})

\* Ranks number the members of a set in their order.
LEMMA Ranks ==
    ASSUME NEW m \in Nat, NEW K \in SUBSET (1 .. m)
    PROVE  /\ Cardinality(K) \in Nat
           /\ \A k \in K : Rank(K, k) \in 1 .. Cardinality(K)
           /\ \A k, l \in K : k < l => Rank(K, k) < Rank(K, l)
           /\ \A n \in 1 .. Cardinality(K) : \E k \in K : Rank(K, k) = n
  <1> DEFINE Upto(k) == {j \in K : j <= k}
             rank == [k \in K |-> Rank(K, k)]
             N == Cardinality(K)
  <1>1. IsFiniteSet(K)
    BY FS_Interval, FS_Subset, 1 \in Int, m \in Int
  <1>2. N \in Nat
    BY <1>1, FS_CardinalityType
  <1>3. \A k \in K : /\ IsFiniteSet(Upto(k)) /\ Cardinality(Upto(k)) \in Nat
                     /\ Cardinality(Upto(k)) <= N /\ Cardinality(Upto(k)) # 0
    <2> SUFFICES ASSUME NEW k \in K
                 PROVE  /\ IsFiniteSet(Upto(k)) /\ Cardinality(Upto(k)) \in Nat
                        /\ Cardinality(Upto(k)) <= N /\ Cardinality(Upto(k)) # 0
      OBVIOUS
    <2>1. Upto(k) \in SUBSET K /\ k \in Upto(k)
      OBVIOUS
    <2>2. IsFiniteSet(Upto(k)) /\ Cardinality(Upto(k)) <= N
      BY <1>1, <2>1, FS_Subset
    <2> HIDE DEF Upto
    <2> QED
      BY <2>1, <2>2, FS_CardinalityType, FS_EmptySet
  <1>4. \A k \in K : Rank(K, k) \in 1 .. N
    BY <1>2, <1>3 DEF Rank
  <1>5. ASSUME NEW k \in K, NEW l \in K, k < l PROVE Rank(K, k) < Rank(K, l)
    <2>1. \A j \in K : j \in Int
      OBVIOUS
    <2>2. Upto(k) \in SUBSET Upto(l) /\ l \in Upto(l) /\ l \notin Upto(k)
      <3>1. \A j \in K : j <= k => j <= l
        BY <1>5, <2>1
      <3>2. l <= l /\ ~(l <= k)
        BY <1>5, <2>1
      <3> QED
        BY <3>1, <3>2
    <2>3. Cardinality(Upto(k)) <= Cardinality(Upto(l)) /\ Cardinality(Upto(k)) # Cardinality(Upto(l))
      BY <1>3, <2>2, FS_Subset
    <2> QED
      BY <1>3, <2>3 DEF Rank
  <1>6. rank \in Injection(K, 1 .. N)
    <2>1. rank \in [K -> 1 .. N]
      BY <1>4
    <2>2. \A k, l \in K : rank[k] = rank[l] => k = l
      <3> SUFFICES ASSUME NEW k \in K, NEW l \in K, Rank(K, k) = Rank(K, l) PROVE k = l
        OBVIOUS
      <3>1. Rank(K, k) \in Int
        BY <1>2, <1>4
      <3> QED
        BY <1>5, <3>1
    <2> QED
      BY <2>1, <2>2 DEF Injection, IsInjective
  <1>7. IsFiniteSet(1 .. N) /\ Cardinality(1 .. N) = N
    BY <1>2, FS_Interval
  <1>8. rank \in Surjection(K, 1 .. N)
    BY <1>6, <1>7, FS_Injection
  <1>9. \A n \in 1 .. N : \E k \in K : Rank(K, k) = n
    BY <1>8 DEF Surjection
  <1> QED
    BY <1>2, <1>4, <1>5, <1>9

\* Pick goes through the places in ascending order, each of them once.
\* Pick(list, K) reads the places at[1], at[2], ..., which are K in its order.
InOrder(list, K, at) ==
    /\ at \in [1 .. Cardinality(K) -> K]
    /\ \A a, b \in 1 .. Cardinality(K) : a < b => at[a] < at[b]
    /\ \A k \in K : \E a \in 1 .. Cardinality(K) : at[a] = k
    /\ Pick(list, K) = [n \in 1 .. Cardinality(K) |-> list[at[n]]]

LEMMA Picked ==
    ASSUME NEW T, NEW list \in Seq(T), NEW K \in SUBSET DOMAIN list
    PROVE  Cardinality(K) \in Nat /\ \E at : InOrder(list, K, at)
  <1> DEFINE N == Cardinality(K)
             at == [n \in 1 .. N |-> CHOOSE k \in K : Rank(K, k) = n]
  <1>1. Len(list) \in Nat /\ K \in SUBSET (1 .. Len(list))
    OBVIOUS
  <1>2. /\ N \in Nat
        /\ \A k \in K : Rank(K, k) \in 1 .. N
        /\ \A k, l \in K : k < l => Rank(K, k) < Rank(K, l)
        /\ \A n \in 1 .. N : \E k \in K : Rank(K, k) = n
    BY <1>1, Ranks
  <1> HIDE DEF N
  <1>3. \A n \in 1 .. N : at[n] \in K /\ Rank(K, at[n]) = n
    BY <1>2
  <1>4. at \in [1 .. N -> K]
    BY <1>3
  <1>5. ASSUME NEW k \in K, NEW l \in K, Rank(K, k) = Rank(K, l) PROVE k = l
    BY <1>1, <1>2, <1>5
  <1>6. ASSUME NEW a \in 1 .. N, NEW b \in 1 .. N, a < b PROVE at[a] < at[b]
    <2> DEFINE k == at[a]
               l == at[b]
    <2>1. k \in K /\ l \in K /\ Rank(K, k) = a /\ Rank(K, l) = b
      BY <1>3
    <2> HIDE DEF k, l
    <2> SUFFICES k < l
      BY DEF k, l
    <2>2. ~(l < k) /\ l # k
      BY <1>2, <1>6, <2>1
    <2> QED
      BY <1>1, <2>1, <2>2
  <1>7. ASSUME NEW k \in K PROVE \E a \in 1 .. N : at[a] = k
    <2>1. Rank(K, k) \in 1 .. N
      BY <1>2
    <2>2. at[Rank(K, k)] = k
      BY <1>3, <1>5, <2>1
    <2> QED
      BY <2>1, <2>2
  <1>8. Pick(list, K) = [n \in 1 .. N |-> list[at[n]]]
    BY DEF Pick, Rank, N
  <1> HIDE DEF at
  <1>9. InOrder(list, K, at)
    BY <1>4, <1>6, <1>7, <1>8, Zenon DEF N, InOrder
  <1> QED
    BY <1>2, <1>9, Zenon DEF N

LEMMA Least ==
    ASSUME NEW m \in Nat, NEW K \in SUBSET (1 .. m), K # {}
    PROVE  \E k \in K : \A j \in K : k <= j
  <1>1. IsFiniteSet(K)
    BY FS_Interval, FS_Subset, 1 \in Int, m \in Int
  <1>2. 1 \in 1 .. Cardinality(K)
    BY <1>1, Ranks, FS_EmptySet
  <1>3. PICK k \in K : Rank(K, k) = 1
    BY <1>2, Ranks
  <1>4. Cardinality(K) \in Nat /\ \A j \in K : Rank(K, j) \in 1 .. Cardinality(K)
    BY Ranks
  <1>5. \A j \in K : Rank(K, j) >= 1 /\ Rank(K, j) \in Int /\ j \in Int
    BY <1>4
  <1>6. \A j \in K : j < k => Rank(K, j) < Rank(K, k)
    BY Ranks
  <1> QED
    BY <1>3, <1>5, <1>6

----------------------------------------------------------------------------
\* Lists of repositories.

\* What getRepos makes of any list: no URL twice, and none that is retired.
Clean(list) == IsInjective(list) /\ ToSet(list) \cap Retired = {}

LEMMA MovedType ==
    /\ \A u \in Texts : Moved(u) \in Texts \ Retired
    /\ \A u \in Texts \ Retired : Moved(u) = u
    /\ Default \in Texts \ Retired /\ Default \in Urls
  BY UrlAssumption DEF Moved, Texts

LEMMA MovedList ==
    ASSUME NEW list \in Seq(Texts)
    PROVE  LET moved == [k \in DOMAIN list |-> Moved(list[k])]
           IN  /\ moved \in Seq(Texts \ Retired)
               /\ DOMAIN moved = DOMAIN list /\ DOMAIN list = 1 .. Len(list) /\ Len(list) \in Nat
               /\ Firsts(list) \in SUBSET DOMAIN list
  BY MovedType DEF Firsts

\* Normal answers a clean list, of the current URLs of the given one.
LEMMA NormalClean ==
    ASSUME NEW list \in Seq(Texts)
    PROVE  /\ Normal(list) \in Seq(Texts) /\ Clean(Normal(list))
           /\ ToSet(Normal(list)) = {Moved(list[k]) : k \in DOMAIN list}
  <1> DEFINE moved == [k \in DOMAIN list |-> Moved(list[k])]
             K == Firsts(list)
             N == Cardinality(K)
  <1>1. /\ moved \in Seq(Texts \ Retired) /\ DOMAIN moved = DOMAIN list
        /\ DOMAIN list = 1 .. Len(list) /\ Len(list) \in Nat
        /\ K \in SUBSET DOMAIN list
    BY MovedList
  <1>2. Normal(list) = Pick(moved, K)
    BY DEF Normal
  <1>3. \A k \in DOMAIN list : moved[k] = Moved(list[k]) /\ moved[k] \in Texts \ Retired
    BY MovedType
  <1>4. \A k \in K : k \in DOMAIN list /\ \A j \in 1 .. k - 1 : moved[j] # moved[k]
    <2> SUFFICES ASSUME NEW k \in K, NEW j \in 1 .. k - 1 PROVE moved[j] # moved[k]
      BY <1>1
    <2>1. k \in DOMAIN list /\ j \in DOMAIN list
      BY <1>1
    <2> QED
      BY <1>3, <2>1 DEF Firsts
  <1> HIDE DEF moved, K
  <1>5. Cardinality(K) \in Nat /\ \E at : InOrder(moved, K, at)
    <2> DEFINE T == Texts \ Retired
    <2>1. moved \in Seq(T) /\ K \in SUBSET DOMAIN moved
      BY <1>1
    <2> HIDE DEF T
    <2> QED
      BY <2>1, Picked
  <1>6. PICK at : /\ N \in Nat /\ at \in [1 .. N -> K]
                  /\ \A a, b \in 1 .. N : a < b => at[a] < at[b]
                  /\ \A k \in K : \E a \in 1 .. N : at[a] = k
                  /\ Pick(moved, K) = [n \in 1 .. N |-> moved[at[n]]]
    BY <1>5 DEF InOrder
  <1> HIDE DEF N
  <1>7. \A n \in 1 .. N : at[n] \in K /\ at[n] \in DOMAIN list /\ moved[at[n]] \in Texts \ Retired
    BY <1>1, <1>3, <1>6
  <1>8. Normal(list) \in Seq(Texts)
    <2>1. N \in Nat /\ [n \in 1 .. N |-> moved[at[n]]] \in [1 .. N -> Texts]
      BY <1>6, <1>7
    <2> QED
      BY <1>2, <1>6, <2>1
  <1>9. DOMAIN Normal(list) = 1 .. N /\ \A n \in 1 .. N : Normal(list)[n] = moved[at[n]]
    BY <1>2, <1>6
  <1>10. ASSUME NEW a \in 1 .. N, NEW b \in 1 .. N, a < b PROVE moved[at[a]] # moved[at[b]]
    <2>1. at[a] \in 1 .. at[b] - 1
      BY <1>1, <1>6, <1>7, <1>10
    <2> QED
      BY <1>4, <1>7, <2>1
  <1>11. IsInjective(Normal(list))
    <2> SUFFICES ASSUME NEW a \in 1 .. N, NEW b \in 1 .. N, moved[at[a]] = moved[at[b]] PROVE a = b
      BY <1>9 DEF IsInjective
    <2> QED
      BY <1>10
  <1>12. ToSet(Normal(list)) = {moved[at[n]] : n \in 1 .. N}
    BY <1>9 DEF ToSet
  <1>13. ASSUME NEW k \in DOMAIN list PROVE \E n \in 1 .. N : moved[at[n]] = moved[k]
    <2> DEFINE Same == {j \in DOMAIN list : moved[j] = moved[k]}
    <2>1. Same \in SUBSET (1 .. Len(list)) /\ Same # {}
      BY <1>1
    <2>2. PICK j \in Same : \A i \in Same : j <= i
      BY <1>1, <2>1, Least
    <2>3. \A i \in 1 .. j - 1 : moved[i] # moved[j]
      BY <1>1, <2>2
    <2>4. j \in K
      BY <1>1, <1>3, <2>2, <2>3 DEF K, Firsts
    <2> QED
      BY <1>6, <2>2, <2>4
  <1>14. ToSet(Normal(list)) = {moved[k] : k \in DOMAIN list}
    BY <1>7, <1>12, <1>13
  <1>15. ToSet(Normal(list)) = {Moved(list[k]) : k \in DOMAIN list}
    BY <1>3, <1>14
  <1>16. ToSet(Normal(list)) \cap Retired = {}
    BY <1>3, <1>14
  <1> QED
    BY <1>8, <1>11, <1>15, <1>16 DEF Clean

\* A clean list is its own normal form: reading what a read has left changes nothing.
LEMMA CleanIsNormal ==
    ASSUME NEW list \in Seq(Texts), Clean(list)
    PROVE  Normal(list) = list
  <1> DEFINE N == Len(list)
  <1>1. N \in Nat /\ DOMAIN list = 1 .. N /\ \A k \in 1 .. N : list[k] \in Texts \ Retired
    BY DEF Clean, ToSet
  <1>2. [k \in DOMAIN list |-> Moved(list[k])] = list
    BY <1>1, MovedType
  <1>3. Firsts(list) = 1 .. N
    <2> SUFFICES ASSUME NEW k \in 1 .. N, NEW j \in 1 .. k - 1 PROVE Moved(list[j]) # Moved(list[k])
      BY <1>1 DEF Firsts
    <2>1. j \in 1 .. N /\ j # k
      BY <1>1
    <2>2. Moved(list[j]) = list[j] /\ Moved(list[k]) = list[k]
      BY <1>1, <2>1, MovedType
    <2> QED
      BY <1>1, <2>1, <2>2 DEF Clean, IsInjective
  <1> HIDE DEF N
  <1>4. ASSUME NEW k \in 1 .. N PROVE Cardinality({j \in 1 .. N : j <= k}) = k
    <2>1. {j \in 1 .. N : j <= k} = 1 .. k
      BY <1>1
    <2>2. Cardinality(1 .. k) = IF 1 > k THEN 0 ELSE k - 1 + 1
      BY <1>1, FS_Interval, 1 \in Int, k \in Int
    <2>3. Cardinality(1 .. k) = k
      BY <1>1, <2>2
    <2> QED
      BY <2>1, <2>3, Zenon
  <1>5. Cardinality(1 .. N) = N
    BY <1>1, FS_Interval
  <1> DEFINE at(n) == CHOOSE k \in 1 .. N : Cardinality({j \in 1 .. N : j <= k}) = n
  <1>6. ASSUME NEW n \in 1 .. N PROVE at(n) = n
    BY <1>4
  <1>7. Pick(list, 1 .. N) = [n \in 1 .. N |-> list[n]]
    <2>1. Pick(list, 1 .. N) = [n \in 1 .. Cardinality(1 .. N) |-> list[at(n)]]
      BY DEF Pick
    <2> HIDE DEF at
    <2> QED
      BY <1>5, <1>6, <2>1
  <1> QED
    BY <1>1, <1>2, <1>3, <1>7 DEF Normal

LEMMA OneUrl == \A u \in Texts : <<u>> \in Seq(Texts)
  OBVIOUS

\* What getRepos leaves and answers.
LEMMA Answers ==
    ASSUME stored \in Seq(Texts), legacy \in Texts \cup {NoUrl}, sys \in Seq(Texts)
    PROVE  /\ Saved \in Seq(Texts) /\ Clean(Saved)
           /\ InForce(sys, Saved) \in Seq(Texts) \ {<<>>}
           /\ sys = <<>> => Clean(InForce(sys, Saved))
           /\ InForce(<<>>, Saved) \in Seq(Texts) \ {<<>>} /\ Clean(InForce(<<>>, Saved))
  <1>1. Saved \in Seq(Texts) /\ Clean(Saved)
    BY OneUrl, NormalClean DEF Saved
  <1>2. <<Default>> \in Seq(Texts) \ {<<>>} /\ Clean(<<Default>>)
    BY OneUrl, MovedType DEF Clean, IsInjective, ToSet
  <1> QED
    BY <1>1, <1>2 DEF InForce

LEMMA KeptType ==
    ASSUME NEW rows \in Seq(Texts)
    PROVE  Kept(rows) \in Seq(Texts)
  <1> DEFINE K == {k \in DOMAIN rows : rows[k] \in Urls}
  <1>1. K \in SUBSET DOMAIN rows /\ DOMAIN rows = 1 .. Len(rows)
    OBVIOUS
  <1> HIDE DEF K
  <1>2. Cardinality(K) \in Nat /\ \E at : InOrder(rows, K, at)
    BY <1>1, Picked
  <1>3. PICK at \in [1 .. Cardinality(K) -> K] : Pick(rows, K) = [n \in 1 .. Cardinality(K) |-> rows[at[n]]]
    BY <1>2 DEF InOrder
  <1>4. \A n \in 1 .. Cardinality(K) : rows[at[n]] \in Texts
    BY <1>1, <1>3
  <1>5. Pick(rows, K) \in Seq(Texts)
    BY <1>2, <1>3, <1>4
  <1> QED
    BY <1>5, OneUrl, MovedType DEF Kept, K

LEMMA AskingType ==
    ASSUME NEW list \in Seq(Texts)
    PROVE  /\ Asking(list) \in Fetch /\ Asking(list).repos = list
           /\ Asking(list).wait \cup Asking(list).ok \subseteq DOMAIN list
  BY DEF Asking, Fetch

LEMMA NoFetchType == NoFetch \in Fetch /\ NoFetch.repos = <<>> /\ NoFetch.wait \cup NoFetch.ok \subseteq {}
  BY DEF NoFetch, Fetch

----------------------------------------------------------------------------
\* The inductive invariant.

\* repos.json is read once after the WebUI is opened.
ReadOnce == sysRead => sys = <<>>
\* Nothing is fetched or edited before.
Opened == manager \/ (\E i \in Slots : fetches[i].repos # <<>>) => opens > 0
\* The catalog is of the list that the last fetch to land asked.
Listed == \A e \in catalog : e.repo \in ToSet(from)

ListTypes ==
    /\ stored \in Seq(Texts) /\ sysFile \in Seq(Texts) /\ sys \in Seq(Texts)
    /\ legacy \in Texts \cup {NoUrl} /\ opens \in 0 .. MaxOpens /\ sysRead \in BOOLEAN
    /\ manager \in BOOLEAN
FetchTypes ==
    /\ fetches \in [Slots -> Fetch]
    /\ \A i \in Slots : fetches[i].wait \cup fetches[i].ok \subseteq DOMAIN fetches[i].repos
PageTypes ==
    /\ from \in Seq(Texts) /\ catalog \subseteq Entries /\ query \in Queries
    /\ shown \subseteq Mods /\ msg \in Messages
Types == ListTypes /\ FetchTypes /\ PageTypes

IInv == Types /\ ReadOnce /\ Opened /\ Listed /\ AskedListIsClean /\ FirstRepositoryWins /\ MessageIsTrue

LEMMA Bounds == MaxFetches \in Nat \ {0} /\ MaxOpens \in Nat /\ 1 \in Slots
  BY BoundAssumption DEF Slots

\* A fetch of list goes into the free slot i.
Asks(i, list) == fetches[i].repos = <<>> /\ fetches' = [fetches EXCEPT ![i] = Asking(list)]

\* What each step does to the list and to the fetches.
LEMMA Cases ==
    ASSUME [Next]_vars
    PROVE  \/ Open \/ SystemRead \/ Search \/ OpenManager \/ CancelManager \/ UNCHANGED vars
           \/ \E i \in Slots : Visit /\ Asks(i, InForce(sys, Saved))
           \/ \E i \in Slots, rows \in Typed :
                 /\ SaveRepos /\ manager /\ manager' = FALSE
                 /\ stored' = IF sys # <<>> THEN Kept(rows) ELSE Normal(Kept(rows))
                 /\ Asks(i, InForce(sys, Normal(Kept(rows)))) /\ msg' = "loading"
                 /\ UNCHANGED <<legacy, sysFile, opens, sys, sysRead, catalog, from, query, shown>>
           \/ \E i \in Slots : Land(i)
           \/ \E i \in Slots : \E k \in fetches[i].wait : Answer(i, k)
  <1>1. Visit => \E i \in Slots : Visit /\ Asks(i, InForce(sys, Saved))
    BY DEF Visit, FetchRepo, Free, Asks
  <1>2. SaveRepos => \E i \in Slots, rows \in Typed :
                 /\ SaveRepos /\ manager /\ manager' = FALSE
                 /\ stored' = IF sys # <<>> THEN Kept(rows) ELSE Normal(Kept(rows))
                 /\ Asks(i, InForce(sys, Normal(Kept(rows)))) /\ msg' = "loading"
                 /\ UNCHANGED <<legacy, sysFile, opens, sys, sysRead, catalog, from, query, shown>>
    BY DEF SaveRepos, Free, Asks
  <1>3. Ends => (\E i \in Slots : Land(i)) \/ \E i \in Slots : \E k \in fetches[i].wait : Answer(i, k)
    BY DEF Ends
  <1> QED
    BY <1>1, <1>2, <1>3 DEF Next

----------------------------------------------------------------------------
\* Types.

LEMMA TypesInit == Init => Types
  <1> SUFFICES ASSUME Init PROVE Types
    OBVIOUS
  <1>1. <<>> \in Seq(Texts) /\ {} \subseteq Entries
    OBVIOUS
  <1>2. ListTypes
    <2>1. stored \in Seq(Texts) /\ sysFile \in Seq(Texts) /\ sys \in Seq(Texts)
      BY <1>1, ListAssumption DEF Init
    <2>2. legacy \in Texts \cup {NoUrl}
      BY TypedAssumption DEF Init
    <2>3. opens \in 0 .. MaxOpens
      BY Bounds DEF Init
    <2>4. sysRead \in BOOLEAN /\ manager \in BOOLEAN
      BY DEF Init
    <2> QED
      BY <2>1, <2>2, <2>3, <2>4 DEF ListTypes
  <1>3. FetchTypes
    BY NoFetchType DEF Init, FetchTypes
  <1>4. PageTypes
    BY <1>1, QueryAssumption DEF Init, PageTypes, Messages
  <1> QED
    BY <1>2, <1>3, <1>4 DEF Types

LEMMA SavedTypes ==
    ASSUME NEW rows \in Typed, sys \in Seq(Texts)
    PROVE  /\ Kept(rows) \in Seq(Texts) /\ Normal(Kept(rows)) \in Seq(Texts)
           /\ Clean(Normal(Kept(rows)))
           /\ InForce(sys, Normal(Kept(rows))) \in Seq(Texts) \ {<<>>}
           /\ sys = <<>> => Clean(InForce(sys, Normal(Kept(rows))))
  <1>1. Kept(rows) \in Seq(Texts)
    BY KeptType, TypedAssumption
  <1>2. Normal(Kept(rows)) \in Seq(Texts) /\ Clean(Normal(Kept(rows)))
    BY <1>1, NormalClean
  <1>3. <<Default>> \in Seq(Texts) \ {<<>>} /\ Clean(<<Default>>)
    BY OneUrl, MovedType DEF Clean, IsInjective, ToSet
  <1> QED
    BY <1>1, <1>2, <1>3 DEF InForce

LEMMA ListTypesStep == ASSUME ListTypes, [Next]_vars PROVE ListTypes'
  <1> USE DEF ListTypes
  <1>1. CASE Open
    <2>1. stored' \in Seq(Texts) /\ sysFile' \in Seq(Texts) /\ sys' \in Seq(Texts)
      BY <1>1, Answers DEF Open
    <2>2. legacy' \in Texts \cup {NoUrl}
      BY <1>1 DEF Open
    <2>3. opens' \in 0 .. MaxOpens
      BY <1>1, Bounds DEF Open
    <2>4. sysRead' \in BOOLEAN /\ manager' \in BOOLEAN
      BY <1>1 DEF Open
    <2> QED
      BY <2>1, <2>2, <2>3, <2>4
  <1>2. CASE SystemRead
    BY <1>2 DEF SystemRead
  <1>3. CASE Visit \/ OpenManager
    BY <1>3, Answers DEF Visit, OpenManager, FetchRepo, GetRepos
  <1>4. CASE \E rows \in Typed :
                 /\ manager' = FALSE
                 /\ stored' = IF sys # <<>> THEN Kept(rows) ELSE Normal(Kept(rows))
                 /\ UNCHANGED <<legacy, sysFile, opens, sys, sysRead>>
    BY <1>4, SavedTypes
  <1>5. CASE UNCHANGED lists /\ manager' \in {manager, FALSE}
    BY <1>5 DEF lists
  <1> QED
    BY <1>1, <1>2, <1>3, <1>4, <1>5, Cases DEF Search, CancelManager, Land, Answer, vars

LEMMA FetchTypesStep == ASSUME ListTypes, FetchTypes, [Next]_vars PROVE FetchTypes'
  <1> USE DEF FetchTypes
  <1>1. CASE Open
    BY <1>1, Answers, AskingType, NoFetchType DEF Open, ListTypes
  <1>2. ASSUME NEW i \in Slots, NEW list \in Seq(Texts), Asks(i, list) PROVE FetchTypes'
    BY <1>2, AskingType DEF Asks
  <1>3. ASSUME NEW i \in Slots, Land(i) PROVE FetchTypes'
    BY <1>3, NoFetchType DEF Land
  <1>4. ASSUME NEW i \in Slots, NEW k \in fetches[i].wait, Answer(i, k) PROVE FetchTypes'
    <2> DEFINE f == fetches[i]
    <2>1. PICK good \in BOOLEAN :
              fetches' = [fetches EXCEPT ![i].wait = @ \ {k}, ![i].ok = IF good THEN @ \cup {k} ELSE @]
      BY <1>4 DEF Answer
    <2> DEFINE g == [[f EXCEPT !.wait = f.wait \ {k}] EXCEPT !.ok = IF good THEN f.ok \cup {k} ELSE f.ok]
    <2>2. f \in Fetch /\ k \in f.wait /\ f.wait \cup f.ok \subseteq DOMAIN f.repos
      OBVIOUS
    <2>3. fetches' = [fetches EXCEPT ![i] = g]
      BY <2>1, <2>2 DEF Fetch
    <2>4. g \in Fetch /\ g.repos = f.repos /\ g.wait = f.wait \ {k} /\ g.ok \subseteq f.ok \cup {k}
      BY <2>2 DEF Fetch
    <2> HIDE DEF g
    <2>5. g.wait \cup g.ok \subseteq DOMAIN g.repos
      BY <2>2, <2>4
    <2> QED
      BY <2>3, <2>4, <2>5
  <1>5. CASE UNCHANGED fetches
    BY <1>5
  <1>6. \A rows \in Typed : InForce(sys, Normal(Kept(rows))) \in Seq(Texts)
    BY SavedTypes DEF ListTypes
  <1>7. InForce(sys, Saved) \in Seq(Texts)
    BY Answers DEF ListTypes
  <1> QED
    BY <1>1, <1>2, <1>3, <1>4, <1>5, <1>6, <1>7, Cases
       DEF SystemRead, Search, OpenManager, CancelManager, vars, lists, page

LEMMA PageTypesStep == ASSUME FetchTypes, PageTypes, [Next]_vars PROVE PageTypes'
  <1> USE DEF PageTypes
  <1>1. CASE Open
    BY <1>1, QueryAssumption DEF Open, Messages
  <1>2. CASE msg' = "loading" /\ UNCHANGED <<catalog, from, query, shown>>
    BY <1>2 DEF Messages
  <1>3. ASSUME NEW i \in Slots, Land(i) PROVE PageTypes'
    <2>1. fetches[i] \in Fetch /\ Merged(fetches[i]) \subseteq Entries
      BY DEF FetchTypes, Merged
    <2> QED
      BY <1>3, <2>1 DEF Land, Filter, Ids, Messages, Entries, Fetch
  <1>4. CASE Search
    BY <1>4 DEF Search, Filter, Ids, Messages, Entries
  <1>5. CASE UNCHANGED page
    BY <1>5 DEF page
  <1> QED
    BY <1>1, <1>2, <1>3, <1>4, <1>5, Cases DEF SystemRead, Visit, FetchRepo, OpenManager, CancelManager, Answer, vars

LEMMA TypesStep == Types /\ [Next]_vars => Types'
  BY ListTypesStep, FetchTypesStep, PageTypesStep DEF Types

----------------------------------------------------------------------------
\* The invariants, step by step.

LEMMA Answered ==
    ASSUME FetchTypes, NEW i \in Slots, NEW k \in fetches[i].wait, Answer(i, k)
    PROVE  \A j \in Slots : fetches'[j].repos = fetches[j].repos
  <1>1. PICK good \in BOOLEAN :
            fetches' = [fetches EXCEPT ![i].wait = @ \ {k}, ![i].ok = IF good THEN @ \cup {k} ELSE @]
    BY DEF Answer
  <1>2. fetches[i] \in Fetch
    BY DEF FetchTypes
  <1> QED
    BY <1>1, <1>2 DEF FetchTypes, Fetch

\* Where fetches ask for something after a step.
LEMMA AskedSlots ==
    ASSUME Types, [Next]_vars, NEW j \in Slots
    PROVE  \/ fetches'[j].repos \in {fetches[j].repos, <<>>}
           \/ /\ Open /\ fetches'[j].repos = InForce(<<>>, Saved)
           \/ /\ Visit /\ fetches'[j].repos = InForce(sys, Saved)
           \/ /\ manager /\ SaveRepos /\ UNCHANGED <<sys, opens>>
              /\ \E rows \in Typed : fetches'[j].repos = InForce(sys, Normal(Kept(rows)))
  <1>1. CASE Open
    BY <1>1, Answers, AskingType, NoFetchType DEF Open, Types, ListTypes
  <1>2. ASSUME NEW i \in Slots, NEW list \in Seq(Texts), Asks(i, list)
        PROVE  fetches'[j].repos \in {fetches[j].repos, list}
    BY <1>2, AskingType DEF Asks, Types, FetchTypes
  <1>3. CASE Visit
    BY <1>2, <1>3, Answers DEF Types, ListTypes, Visit, FetchRepo, Free, Asks
  <1>4. ASSUME NEW i \in Slots, NEW rows \in Typed,
               SaveRepos, manager, UNCHANGED <<sys, opens>>, Asks(i, InForce(sys, Normal(Kept(rows))))
        PROVE  \/ fetches'[j].repos = fetches[j].repos
               \/ /\ manager /\ SaveRepos /\ UNCHANGED <<sys, opens>>
                  /\ \E r \in Typed : fetches'[j].repos = InForce(sys, Normal(Kept(r)))
    BY <1>2, <1>4, SavedTypes DEF Types, ListTypes
  <1>5. ASSUME NEW i \in Slots, Land(i) PROVE fetches'[j].repos \in {fetches[j].repos, <<>>}
    BY <1>5, NoFetchType DEF Land, Types, FetchTypes
  <1>6. ASSUME NEW i \in Slots, NEW k \in fetches[i].wait, Answer(i, k)
        PROVE  fetches'[j].repos = fetches[j].repos
    BY <1>6, Answered DEF Types
  <1>7. CASE UNCHANGED fetches
    BY <1>7
  <1> QED
    BY <1>1, <1>3, <1>4, <1>5, <1>6, <1>7, Cases
       DEF SystemRead, Search, OpenManager, CancelManager, vars, lists, page

LEMMA ReadOnceStep == ASSUME ReadOnce, [Next]_vars PROVE ReadOnce'
  BY Cases DEF ReadOnce, Open, SystemRead, Visit, Search, OpenManager, CancelManager, Land, Answer, lists, vars

LEMMA OpenedStep == ASSUME Types, Opened, [Next]_vars PROVE Opened'
  <1>1. CASE Open
    BY <1>1, Bounds DEF Open, Opened, Types, ListTypes
  <1>2. CASE opens > 0 /\ UNCHANGED opens
    BY <1>2 DEF Opened
  <1>3. CASE UNCHANGED opens /\ manager' \in {manager, FALSE}
             /\ \A j \in Slots : fetches'[j].repos \in {fetches[j].repos, <<>>}
    BY <1>3 DEF Opened
  <1>4. CASE Visit
    BY <1>2, <1>4 DEF Visit
  <1>5. CASE OpenManager
    BY <1>2, <1>5 DEF OpenManager
  <1>6. CASE SaveRepos
    BY <1>2, <1>6 DEF SaveRepos, Opened
  <1>7. CASE ~Open /\ ~Visit /\ ~OpenManager /\ ~SaveRepos
    <2>1. \A j \in Slots : fetches'[j].repos \in {fetches[j].repos, <<>>}
      BY <1>7, AskedSlots
    <2>2. UNCHANGED opens /\ manager' \in {manager, FALSE}
      BY <1>7, Cases DEF SystemRead, Search, CancelManager, Land, Answer, lists, vars
    <2> QED
      BY <1>3, <2>1, <2>2
  <1> QED
    BY <1>1, <1>4, <1>5, <1>6, <1>7

LEMMA AskedStep == ASSUME Types, ReadOnce, AskedListIsClean, [Next]_vars PROVE AskedListIsClean'
  <1> SUFFICES ASSUME NEW j \in Slots, sys' = <<>> PROVE Clean(fetches'[j].repos)
    BY DEF AskedListIsClean, Clean
  <1>1. Clean(<<>>)
    BY DEF Clean, IsInjective, ToSet
  <1>2. CASE Open
    BY <1>1, <1>2, AskedSlots, Answers, AskingType, NoFetchType DEF Open, Types, ListTypes
  <1>3. CASE ~Open
    <2>1. sys = <<>>
      BY <1>3, Cases DEF ReadOnce, SystemRead, Visit, Search, OpenManager, CancelManager, Land, Answer, lists, vars
    <2>2. Clean(fetches[j].repos)
      BY <2>1 DEF AskedListIsClean, Clean
    <2>3. /\ Clean(InForce(sys, Saved))
          /\ \A rows \in Typed : Clean(InForce(sys, Normal(Kept(rows))))
      BY <2>1, Answers, SavedTypes DEF Types, ListTypes
    <2> QED
      BY <1>1, <1>3, <2>2, <2>3, AskedSlots
  <1> QED
    BY <1>2, <1>3

\* An entry of a merged catalog: the first fetch that answered with its module.
LEMMA MergedEntry ==
    ASSUME NEW f \in Fetch, f.ok \subseteq DOMAIN f.repos, NEW e \in Merged(f)
    PROVE  \E k \in f.ok : /\ k \in DOMAIN f.repos /\ k \in Int /\ f.repos[k] = e.repo
                           /\ e.id \in Content[e.repo]
                           /\ \A j \in f.ok : j < k => e.id \notin Content[f.repos[j]]
  BY DEF Merged, Offer, Fetch

LEMMA FirstStep ==
    ASSUME Types, Listed, FirstRepositoryWins, [Next]_vars
    PROVE  Listed' /\ FirstRepositoryWins'
  <1>1. ASSUME NEW i \in Slots, Land(i) PROVE Listed' /\ FirstRepositoryWins'
    <2> DEFINE f == fetches[i]
    <2>1. f \in Fetch /\ f.ok \subseteq DOMAIN f.repos /\ catalog' = Merged(f) /\ from' = f.repos
      BY <1>1 DEF Land, Types, FetchTypes
    <2>2. catalog' \subseteq Entries
      BY <2>1 DEF Merged
    <2> HIDE DEF f
    <2>3. Listed'
      BY <2>1, MergedEntry DEF Listed, ToSet
    <2>4. ASSUME NEW e \in catalog', NEW d \in catalog'
          PROVE  /\ e.id = d.id => e = d
                 /\ (\A p \in {p \in DOMAIN from' : from'[p] = d.repo},
                        q \in {p \in DOMAIN from' : from'[p] = e.repo} : p < q)
                       => e.id \notin Content[d.repo]
      <3>1. PICK k \in f.ok : /\ k \in DOMAIN f.repos /\ k \in Int /\ f.repos[k] = e.repo
                              /\ e.id \in Content[e.repo]
                              /\ \A j \in f.ok : j < k => e.id \notin Content[f.repos[j]]
        BY <2>1, <2>4, MergedEntry
      <3>2. PICK l \in f.ok : /\ l \in DOMAIN f.repos /\ l \in Int /\ f.repos[l] = d.repo
                              /\ d.id \in Content[d.repo]
                              /\ \A j \in f.ok : j < l => d.id \notin Content[f.repos[j]]
        BY <2>1, <2>4, MergedEntry
      <3>3. ASSUME e.id = d.id PROVE e = d
        <4>1. k = l
          BY <3>1, <3>2, <3>3
        <4> QED
          BY <2>2, <2>4, <3>1, <3>2, <3>3, <4>1 DEF Entries
      <3>4. ASSUME \A p \in {p \in DOMAIN from' : from'[p] = d.repo},
                      q \in {p \in DOMAIN from' : from'[p] = e.repo} : p < q
            PROVE  e.id \notin Content[d.repo]
        <4>1. l < k
          BY <2>1, <3>1, <3>2, <3>4
        <4> QED
          BY <3>1, <3>2, <4>1
      <3> QED
        BY <3>3, <3>4
    <2> QED
      BY <2>3, <2>4 DEF FirstRepositoryWins
  <1>2. CASE catalog' = {}
    BY <1>2 DEF Listed, FirstRepositoryWins
  <1>3. CASE UNCHANGED <<catalog, from>>
    BY <1>3 DEF Listed, FirstRepositoryWins
  <1>4. catalog' = {} \/ UNCHANGED <<catalog, from>> \/ \E i \in Slots : Land(i)
    BY Cases DEF Open, SystemRead, Visit, Search, OpenManager, CancelManager, Answer, page, vars
  <1> QED
    BY <1>1, <1>2, <1>3, <1>4

\* The message and the cards that renderRepoList and applyFilters leave.
LEMMA Filtered ==
    ASSUME NEW c, NEW q, Filter(c, q), opens' > 0, catalog' = c, query' = q
    PROVE  MessageIsTrue'
  BY DEF Filter, MessageIsTrue

LEMMA MessageStep ==
    ASSUME Types, Opened, MessageIsTrue, [Next]_vars
    PROVE  MessageIsTrue'
  <1>1. CASE Open
    <2>1. fetches'[1].repos # <<>>
      BY <1>1, Answers, AskingType, Bounds DEF Open, Types, ListTypes
    <2> QED
      BY <1>1, <2>1, Bounds DEF Open, MessageIsTrue, Ids
  <1>2. ASSUME NEW i \in Slots, NEW list \in Seq(Texts) \ {<<>>}, Asks(i, list), msg' = "loading",
               UNCHANGED <<catalog, query, shown>>
        PROVE  MessageIsTrue'
    <2>1. fetches'[i].repos # <<>>
      BY <1>2, AskingType DEF Asks, Types, FetchTypes
    <2> QED
      BY <1>2, <2>1 DEF MessageIsTrue, Ids
  <1>3. CASE Visit
    <2>1. PICK i \in Slots : Asks(i, InForce(sys, Saved))
      BY <1>3 DEF Visit, FetchRepo, Free, Asks
    <2> QED
      BY <1>2, <1>3, <2>1, Answers DEF Visit, FetchRepo, Types, ListTypes
  <1>4. ASSUME NEW i \in Slots, NEW rows \in Typed,
               Asks(i, InForce(sys, Normal(Kept(rows)))), msg' = "loading",
               UNCHANGED <<catalog, query, shown>>
        PROVE  MessageIsTrue'
    BY <1>2, <1>4, SavedTypes DEF Types, ListTypes
  <1>5. ASSUME NEW i \in Slots, Land(i) PROVE MessageIsTrue'
    <2>1. opens > 0
      BY <1>5 DEF Land, Opened
    <2>2. Filter(catalog', query) /\ UNCHANGED <<opens, query>>
      BY <1>5 DEF Land, lists
    <2> QED
      BY <2>1, <2>2, Filtered
  <1>6. CASE Search
    <2>1. opens > 0 /\ Filter(catalog, query') /\ UNCHANGED <<opens, catalog>>
      BY <1>6 DEF Search, lists
    <2> QED
      BY <2>1, Filtered
  <1>7. CASE UNCHANGED <<opens, page>> /\ \A j \in Slots : fetches'[j].repos = fetches[j].repos
    BY <1>7 DEF page, MessageIsTrue, Ids
  <1>8. ASSUME NEW i \in Slots, NEW k \in fetches[i].wait, Answer(i, k) PROVE MessageIsTrue'
    BY <1>7, <1>8, Answered DEF Types, Answer, lists
  <1>9. CASE SystemRead \/ OpenManager \/ CancelManager \/ UNCHANGED vars
    BY <1>7, <1>9 DEF SystemRead, OpenManager, CancelManager, lists, vars
  <1> QED
    BY <1>1, <1>3, <1>4, <1>5, <1>6, <1>8, <1>9, Cases

----------------------------------------------------------------------------

LEMMA Initially == Init => IInv
  <1> SUFFICES ASSUME Init PROVE IInv
    OBVIOUS
  <1>1. Types
    BY TypesInit
  <1>2. ReadOnce /\ Listed /\ FirstRepositoryWins
    BY DEF Init, ReadOnce, Listed, FirstRepositoryWins
  <1>3. \A i \in Slots : fetches[i].repos = <<>>
    BY NoFetchType DEF Init
  <1>4. Opened /\ AskedListIsClean
    BY <1>3 DEF Init, Opened, AskedListIsClean, IsInjective, ToSet
  <1>5. MessageIsTrue
    BY DEF Init, MessageIsTrue, Ids
  <1> QED
    BY <1>1, <1>2, <1>4, <1>5 DEF IInv

LEMMA Inductive == Spec => []IInv
  <1>1. IInv /\ [Next]_vars => IInv'
    BY TypesStep, ReadOnceStep, OpenedStep, AskedStep, FirstStep, MessageStep DEF IInv
  <1> QED
    BY Initially, <1>1, PTL DEF Spec

\* Lists, fetches, catalog and page keep their types, whatever the files hold and
\* the user types.
THEOREM TypeCorrect == Spec => []TypeOK
  <1>1. IInv => TypeOK
    BY DEF IInv, Types, ListTypes, FetchTypes, PageTypes, TypeOK
  <1> QED
    BY <1>1, Inductive, PTL

\* Without a system list no fetch asks a repository twice or a retired one,
\* whatever was saved, migrated or typed (kpm_repo.js:20-39, 70-86).
THEOREM AsksClean == Spec => []AskedListIsClean
  <1>1. IInv => AskedListIsClean
    BY DEF IInv
  <1> QED
    BY <1>1, Inductive, PTL

\* However fetches fail and overtake each other, the catalog has a module once, and
\* from the repository that comes first (kpm_repo.js:163-178), also where a system
\* list names a repository twice.
THEOREM FirstWins == Spec => []FirstRepositoryWins
  <1>1. IInv => FirstRepositoryWins
    BY DEF IInv
  <1> QED
    BY <1>1, Inductive, PTL

\* The message under the search field is true of the list, and "loading" means that
\* a fetch is under way (kpm_repo.js:152-188, 326-352).
THEOREM MessageTrue == Spec => []MessageIsTrue
  <1>1. IInv => MessageIsTrue
    BY DEF IInv
  <1> QED
    BY <1>1, Inductive, PTL

\* No step but saving replaces a saved list by anything but its clean form.
THEOREM ListSurvives == Spec => SavedListSurvives
  <1>1. [Next]_vars => [stored # <<>> /\ ~SaveRepos => stored' \in {stored, Normal(stored)}]_vars
    <2> SUFFICES ASSUME [Next]_vars, stored # <<>>, ~SaveRepos PROVE stored' \in {stored, Normal(stored)}
      OBVIOUS
    <2>1. Saved = Normal(stored)
      BY DEF Saved
    <2> QED
      BY <2>1, Cases DEF Open, SystemRead, Visit, FetchRepo, GetRepos, Search, OpenManager, CancelManager, Land,
         Answer, lists, vars
  <1> QED
    BY <1>1, PTL DEF Spec, SavedListSurvives

\* A clean list is left as it is: one reading is enough (kpm_repo.js:77-86).
THEOREM CleanListStays ==
    Spec => [][stored # <<>> /\ Clean(stored) /\ ~SaveRepos => stored' = stored]_vars
  <1>1. IInv /\ [stored # <<>> /\ ~SaveRepos => stored' \in {stored, Normal(stored)}]_vars
          => [stored # <<>> /\ Clean(stored) /\ ~SaveRepos => stored' = stored]_vars
    BY CleanIsNormal DEF IInv, Types, ListTypes
  <1> QED
    BY <1>1, ListSurvives, Inductive, PTL DEF SavedListSurvives
=============================================================================
