-------------------------- MODULE KpmCards_proofs --------------------------
(***************************************************************************)
(* Theorems about KpmCards, for any KPMs, builds and catalogs, and any      *)
(* number of refreshes and rounds under way.                                *)
(***************************************************************************)
EXTENDS KpmCards, FiniteSetTheorems, WellFoundedInduction, TLAPS

Loaded == {n \in Names : kernel[n] # 0}
NatStats == 0 .. MaxWorld + 1
Card == [build : Builds \cup {0}, badge : {NoBadge} \cup Versions, dash : NatStats, hid : BOOLEAN]
Refreshing == [ph : {"free", "list", "info"}, todo : SUBSET Names, got : [Names -> Builds \cup {0}]]
Round == [ph : {"free", "next", "read", "show"}, todo : SUBSET Names,
          cur : SUBSET Names, live : BOOLEAN, val : NatStats]

KernelTypes ==
    /\ kernel \in [Names -> Builds \cup {0}] /\ props \in Props
    /\ world \in 1 .. MaxWorld + 1 /\ acts \in 0 .. MaxActs
    /\ unloading \subseteq Names /\ Cardinality(unloading) <= 1
RefreshTypes == refreshes \in [1 .. MaxRefreshes -> Refreshing]
PageTypes ==
    /\ cached \subseteq dom /\ dom \subseteq list /\ list \subseteq Names
    /\ query \in Queries /\ msg \in {"hidden", "loading", "nomatch"}
CardTypes == cards \in [Names -> Card]
StatTypes == cache \in [Names -> NatStats] /\ passes \in [1 .. MaxPasses -> Round]
BadgeTypes == annotate.ph \in {"fetch", "done"} /\ annotate.mods \in Catalogs \cup {<<>>}
Types == KernelTypes /\ RefreshTypes /\ PageTypes /\ CardTypes /\ StatTypes /\ BadgeTypes

LEMMA Bounds == MaxActs \in Nat /\ MaxWorld \in Nat /\ MaxRefreshes \in Nat \ {0} /\ MaxPasses \in Nat
  BY BoundAssumption

LEMMA Cases ==
    ASSUME [Next]_vars
    PROVE  \/ \E forget \in BOOLEAN : Refresh(forget)
           \/ \E n \in Names : Unload(n) \/ Unloaded(n) \/ TooOld(n) \/ \E b \in Builds : Load(n, b)
           \/ \E i \in 1 .. MaxRefreshes :
                 ReadNames(i) \/ ShowList(i) \/ \E n \in Names : ReadInfo(i, n)
           \/ \E p \in 1 .. MaxPasses :
                 ReadStats(p) \/ ShowStats(p) \/ EndPass(p) \/ Tick(p) \/ \E n \in Names : NextCard(p, n)
           \/ Search \/ Changes \/ Annotate \/ UNCHANGED vars
  BY DEF Next, List, Pass

----------------------------------------------------------------------------
\* Versions.

LEMMA Least ==
    ASSUME NEW T \in SUBSET Nat, T # {}
    PROVE  \E k \in T : \A j \in T : k <= j
  <1> DEFINE R == OpToRel(<, Nat)
  <1>1. \A k, j \in Nat : j < k => <<j, k>> \in R
    BY DEF OpToRel
  <1>2. IsWellFoundedOn(R, Nat)
    BY NatLessThanWellFounded
  <1> HIDE DEF R
  <1>3. PICK k \in T : \A j \in T : ~(<<j, k>> \in R)
    BY <1>2, WFMin
  <1>4. \A j \in T : j \in Nat
    OBVIOUS
  <1>5. \A j \in T : ~(j < k)
    BY <1>1, <1>3, <1>4
  <1> QED
    BY <1>4, <1>5

LEMMA VersionShape ==
    ASSUME NEW a \in Versions, NEW b \in Versions
    PROVE  /\ Len(a) \in Nat /\ DOMAIN a = 1 .. Len(a) /\ DOMAIN b = DOMAIN a
           /\ \A k \in DOMAIN a : a[k] \in Int /\ b[k] \in Int
           /\ (\A k \in DOMAIN a : a[k] = b[k]) => a = b
  <1>1. a \in Seq(Nat) /\ b \in Seq(Nat) /\ Len(a) = Len(b)
    BY VersionAssumption
  <1>2. Len(a) \in Nat /\ DOMAIN a = 1 .. Len(a) /\ DOMAIN b = 1 .. Len(a)
    BY <1>1
  <1>3. ASSUME NEW k \in DOMAIN a PROVE a[k] \in Int /\ b[k] \in Int
    <2>1. a[k] \in Nat /\ b[k] \in Nat
      BY <1>1, <1>2
    <2> QED
      BY <2>1
  <1>4. ASSUME \A k \in DOMAIN a : a[k] = b[k] PROVE a = b
    <2>1. a = [k \in 1 .. Len(a) |-> a[k]] /\ b = [k \in 1 .. Len(a) |-> b[k]]
      BY <1>1
    <2>2. \A k \in 1 .. Len(a) : a[k] = b[k]
      BY <1>2, <1>4
    <2>3. [k \in 1 .. Len(a) |-> a[k]] = [k \in 1 .. Len(a) |-> b[k]]
      BY <2>2, Zenon
    <2> QED
      BY <2>1, <2>3, Zenon
  <1> QED
    BY <1>2, <1>3, <1>4

\* compareVersions is a strict order of the versions it can read, and a total one: of
\* two different versions exactly one is newer (utils.js:130-139).
THEOREM VersionsAreOrdered ==
    /\ \A a, b \in Versions : Newer(a, b) => a # b /\ ~Newer(b, a)
    /\ \A a, b, c \in Versions : Newer(a, b) /\ Newer(b, c) => Newer(a, c)
    /\ \A a, b \in Versions : a # b => Newer(a, b) \/ Newer(b, a)
  <1>1. ASSUME NEW a \in Versions, NEW b \in Versions, Newer(a, b) PROVE a # b /\ ~Newer(b, a)
    <2>1. PICK k \in DOMAIN a : a[k] > b[k] /\ \A j \in 1 .. k - 1 : a[j] = b[j]
      BY <1>1 DEF Newer
    <2>2. a[k] # b[k]
      BY <2>1, VersionShape
    <2>3. ASSUME NEW l \in DOMAIN b, b[l] > a[l], \A j \in 1 .. l - 1 : b[j] = a[j] PROVE FALSE
      <3>1. k \in Nat \ {0} /\ l \in Nat \ {0} /\ a[l] \in Int /\ b[l] \in Int /\ a[k] \in Int /\ b[k] \in Int
        BY <2>3, VersionShape
      <3>2. ~(k < l) /\ ~(l < k)
        BY <2>1, <2>3, <3>1
      <3> QED
        BY <2>1, <2>3, <3>1, <3>2
    <2> QED
      BY <2>2, <2>3 DEF Newer
  <1>2. ASSUME NEW a \in Versions, NEW b \in Versions, NEW c \in Versions, Newer(a, b), Newer(b, c)
        PROVE  Newer(a, c)
    <2>1. PICK k \in DOMAIN a : a[k] > b[k] /\ \A j \in 1 .. k - 1 : a[j] = b[j]
      BY <1>2 DEF Newer
    <2>2. PICK l \in DOMAIN b : b[l] > c[l] /\ \A j \in 1 .. l - 1 : b[j] = c[j]
      BY <1>2 DEF Newer
    <2>3. /\ Len(a) \in Nat /\ DOMAIN a = 1 .. Len(a) /\ DOMAIN b = DOMAIN a
          /\ \A i \in DOMAIN a : a[i] \in Int /\ b[i] \in Int /\ c[i] \in Int
      BY VersionShape
    <2> DEFINE m == IF k <= l THEN k ELSE l
    <2>4. m \in DOMAIN a /\ m <= k /\ m <= l /\ (m = k \/ m = l)
      BY <2>1, <2>2, <2>3
    <2>5. k \in Int /\ l \in Int
      BY <2>3
    <2> HIDE DEF m
    <2>6. \A j \in 1 .. m - 1 : a[j] = c[j]
      <3> SUFFICES ASSUME NEW j \in 1 .. m - 1 PROVE a[j] = c[j]
        OBVIOUS
      <3>1. j \in 1 .. k - 1 /\ j \in 1 .. l - 1
        BY <2>3, <2>4, <2>5
      <3> QED
        BY <2>1, <2>2, <3>1
    <2>7. a[m] > c[m]
      <3>1. CASE m < k
        <4>1. m = l /\ m \in 1 .. k - 1
          BY <2>3, <2>4, <2>5, <3>1
        <4> QED
          BY <2>1, <2>2, <4>1
      <3>2. CASE m < l
        <4>1. m = k /\ m \in 1 .. l - 1
          BY <2>3, <2>4, <2>5, <3>2
        <4> QED
          BY <2>1, <2>2, <4>1
      <3>3. CASE m = k /\ m = l
        BY <2>1, <2>2, <2>3, <2>4, <3>3
      <3> QED
        BY <2>3, <2>4, <2>5, <3>1, <3>2, <3>3
    <2> QED
      BY <2>4, <2>6, <2>7 DEF Newer
  <1>3. ASSUME NEW a \in Versions, NEW b \in Versions, a # b PROVE Newer(a, b) \/ Newer(b, a)
    <2>1. /\ Len(a) \in Nat /\ DOMAIN a = 1 .. Len(a) /\ DOMAIN b = DOMAIN a
          /\ \A i \in DOMAIN a : a[i] \in Int /\ b[i] \in Int
      BY VersionShape
    <2> DEFINE Differ == {k \in DOMAIN a : a[k] # b[k]}
    <2>2. Differ # {}
      BY <1>3, VersionShape
    <2>3. Differ \in SUBSET Nat
      BY <2>1
    <2>4. PICK k \in Differ : \A j \in Differ : k <= j
      BY <2>2, <2>3, Least
    <2>5. \A j \in 1 .. k - 1 : a[j] = b[j]
      BY <2>1, <2>4
    <2>6. a[k] > b[k] \/ b[k] > a[k]
      BY <2>1, <2>4
    <2> QED
      BY <2>1, <2>4, <2>5, <2>6 DEF Newer
  <1> QED
    BY <1>1, <1>2, <1>3

\* Where the best entry can be read it is the only one, and the catalog has none newer.
LEMMA LatestIsBest ==
    ASSUME NEW mods \in Catalogs, NEW n \in Names, NEW v \in Latest(mods, n), v \in Versions
    PROVE  /\ Latest(mods, n) = {v}
           /\ \E k \in DOMAIN mods : mods[k] = [id |-> n, version |-> v]
           /\ \A k \in DOMAIN mods : mods[k].id = n => ~Newer(mods[k].version, v)
  <1> DEFINE of == {k \in DOMAIN mods : mods[k].id = n}
             first == {k \in of : \A j \in of : k <= j}
             read == {k \in of : mods[k].version \in Versions}
             rivals == IF first \subseteq read THEN read ELSE first
             best == {k \in rivals : \A j \in rivals : ~Newer(mods[j].version, mods[k].version)}
  <1>1. Latest(mods, n) = {mods[k].version : k \in best}
    BY DEF Latest
  <1>2. PICK k \in best : mods[k].version = v
    BY <1>1
  <1>3. \A j \in DOMAIN mods : j \in Int /\ mods[j] \in [id : Names, version : Readable]
    <2> DEFINE E == [id : Names, version : Readable]
    <2>1. mods \in Seq(E)
      BY CatalogAssumption
    <2> HIDE DEF E
    <2>2. DOMAIN mods = 1 .. Len(mods) /\ Len(mods) \in Nat /\ \A j \in DOMAIN mods : mods[j] \in E
      BY <2>1
    <2> QED
      BY <2>2 DEF E
  <1>4. rivals = read
    <2> SUFFICES ASSUME NEW f \in first, f \notin read PROVE FALSE
      OBVIOUS
    <2>1. k \in first
      BY <1>2
    <2>2. k = f
      BY <1>3, <2>1
    <2> QED
      BY <1>2, <2>1, <2>2
  <1>5. k \in of /\ \A j \in read : ~Newer(mods[j].version, v)
    BY <1>2, <1>4
  <1>6. ASSUME NEW w \in Latest(mods, n) PROVE w = v
    <2>1. PICK l \in read : mods[l].version = w /\ \A j \in read : ~Newer(mods[j].version, w)
      BY <1>1, <1>4
    <2>2. k \in read /\ w \in Versions
      BY <1>2, <1>4, <2>1
    <2>3. ~Newer(v, w) /\ ~Newer(w, v)
      BY <1>2, <1>5, <2>1, <2>2
    <2> QED
      BY <2>2, <2>3, VersionsAreOrdered
  <1>7. mods[k] = [id |-> n, version |-> v]
    BY <1>2, <1>3, <1>5
  <1>8. \A j \in of : ~Newer(mods[j].version, v)
    BY <1>5 DEF Newer
  <1> QED
    BY <1>5, <1>6, <1>7, <1>8

\* The badge that Annotate puts on a card.
Chosen(mods, n) == CHOOSE v \in Latest(mods, n) : TRUE

LEMMA ChosenIsNewer ==
    ASSUME NEW mods \in Catalogs, NEW n \in Updates(props, mods)
    PROVE  /\ n \in Names /\ props[n] # NoVersion
           /\ Chosen(mods, n) \in Versions /\ Newer(Chosen(mods, n), props[n])
           /\ \E k \in DOMAIN mods : mods[k] = [id |-> n, version |-> Chosen(mods, n)]
           /\ \A k \in DOMAIN mods : mods[k].id = n => ~Newer(mods[k].version, Chosen(mods, n))
  <1>1. n \in Names /\ props[n] # NoVersion
    BY DEF Updates
  <1>2. PICK v \in Latest(mods, n) : Newer(v, props[n])
    BY DEF Updates, Update
  <1>3. v \in Versions
    BY <1>2 DEF Newer
  <1>4. Latest(mods, n) = {v}
    BY <1>1, <1>3, LatestIsBest
  <1>5. Chosen(mods, n) = v
    BY <1>4 DEF Chosen
  <1> QED
    BY <1>1, <1>2, <1>3, <1>5, LatestIsBest

----------------------------------------------------------------------------
\* Types.

LEMMA KernelTypesStep == ASSUME KernelTypes, PageTypes, [Next]_vars PROVE KernelTypes'
  <1> USE Bounds DEF KernelTypes
  <1>1. ASSUME NEW forget \in BOOLEAN, Refresh(forget) PROVE KernelTypes'
    BY <1>1 DEF Refresh, Acts, world_vars
  <1>2. ASSUME NEW n \in Names, Unload(n) PROVE KernelTypes'
    BY <1>2, FS_Singleton DEF Unload, Acts, world_vars
  <1>3. ASSUME NEW n \in Names, Unloaded(n) PROVE KernelTypes'
    BY <1>3, FS_EmptySet DEF Unloaded
  <1>4. ASSUME NEW n \in Names, NEW b \in Builds, Load(n, b) PROVE KernelTypes'
    BY <1>4 DEF Load, Acts
  <1>5. CASE Changes
    BY <1>5 DEF Changes
  <1>6. CASE UNCHANGED <<world_vars, acts, unloading>>
    BY <1>6 DEF world_vars
  <1>7. \/ \E forget \in BOOLEAN : Refresh(forget)
        \/ \E n \in Names : Unload(n) \/ Unloaded(n) \/ \E b \in Builds : Load(n, b)
        \/ Changes \/ UNCHANGED <<world_vars, acts, unloading>>
    <2> DEFINE Same == UNCHANGED <<world_vars, acts, unloading>>
    <2>1. \A n \in Names : TooOld(n) => Same
      BY DEF TooOld
    <2>2. \A i \in 1 .. MaxRefreshes :
            ReadNames(i) \/ ShowList(i) \/ (\E n \in Names : ReadInfo(i, n)) => Same
      BY DEF ReadNames, ShowList, ReadInfo
    <2>3. \A p \in 1 .. MaxPasses :
            ReadStats(p) \/ ShowStats(p) \/ EndPass(p) \/ Tick(p) \/ (\E n \in Names : NextCard(p, n))
              => Same
      BY DEF ReadStats, ShowStats, EndPass, Tick, NextCard
    <2>4. Search \/ Annotate \/ UNCHANGED vars => Same
      BY DEF Search, Annotate, vars
    <2> HIDE DEF Same
    <2>5. \/ \E forget \in BOOLEAN : Refresh(forget)
          \/ \E n \in Names : Unload(n) \/ Unloaded(n) \/ \E b \in Builds : Load(n, b)
          \/ Changes \/ Same
      BY Cases, <2>1, <2>2, <2>3, <2>4
    <2> QED
      BY <2>5 DEF Same
  <1> QED
    BY <1>1, <1>2, <1>3, <1>4, <1>5, <1>6, <1>7

LEMMA NoRefreshType ==
    /\ [NoRefresh EXCEPT !.ph = "list"] = [ph |-> "list", todo |-> {}, got |-> [n \in Names |-> 0]]
    /\ NoRefresh \in Refreshing
    /\ [ph |-> "list", todo |-> {}, got |-> [n \in Names |-> 0]] \in Refreshing
  BY DEF NoRefresh, Refreshing

\* What StartRefresh does.
LEMMA Starting ==
    ASSUME StartRefresh
    PROVE  /\ msg' = "loading" /\ cache' = [n \in Names |-> 0]
           /\ \E i \in 1 .. MaxRefreshes :
                /\ refreshes[i].ph = "free"
                /\ refreshes' = [refreshes EXCEPT ![i] =
                      [ph |-> "list", todo |-> {}, got |-> [n \in Names |-> 0]]]
  BY NoRefreshType DEF StartRefresh, FirstFree

LEMMA RefreshTypesStep == ASSUME KernelTypes, RefreshTypes, [Next]_vars PROVE RefreshTypes'
  <1> USE DEF RefreshTypes
  <1>1. CASE StartRefresh
    BY <1>1, Starting, NoRefreshType
  <1>2. ASSUME NEW i \in 1 .. MaxRefreshes, ReadNames(i) PROVE RefreshTypes'
    <2>1. [ph |-> "info", todo |-> Loaded, got |-> [n \in Names |-> 0]] \in Refreshing
      BY DEF Refreshing, Loaded
    <2> QED
      BY <1>2, <2>1 DEF ReadNames, Loaded
  <1>3. ASSUME NEW i \in 1 .. MaxRefreshes, NEW n \in Names, ReadInfo(i, n) PROVE RefreshTypes'
    <2>1. kernel[n] \in Builds \cup {0}
      BY DEF KernelTypes
    <2>2. [[refreshes[i] EXCEPT !.todo = @ \ {n}] EXCEPT !.got[n] = kernel[n]] \in Refreshing
      BY <2>1 DEF Refreshing
    <2> QED
      BY <1>3, <2>2 DEF ReadInfo
  <1>4. ASSUME NEW i \in 1 .. MaxRefreshes, ShowList(i) PROVE RefreshTypes'
    BY <1>4, NoRefreshType DEF ShowList
  <1>5. CASE UNCHANGED refreshes
    BY <1>5
  <1>6. \/ StartRefresh
        \/ \E i \in 1 .. MaxRefreshes :
               ReadNames(i) \/ ShowList(i) \/ \E n \in Names : ReadInfo(i, n)
        \/ UNCHANGED refreshes
    BY Cases DEF Refresh, Unload, Unloaded, Load, TooOld, ReadStats, ShowStats, EndPass, Tick, NextCard,
       Search, Changes, Annotate, vars
  <1> QED
    BY <1>1, <1>2, <1>3, <1>4, <1>5, <1>6

LEMMA PageTypesStep == ASSUME PageTypes, [Next]_vars PROVE PageTypes'
  <1> USE DEF PageTypes
  <1>1. CASE StartRefresh /\ UNCHANGED <<list, dom, query>> /\ cached' \in {cached, {}}
    BY <1>1, Starting
  <1>2. ASSUME NEW i \in 1 .. MaxRefreshes, ShowList(i) PROVE PageTypes'
    BY <1>2 DEF ShowList, Held, Message
  <1>3. CASE Search
    BY <1>3 DEF Search, Message
  <1>4. CASE UNCHANGED <<list, dom, cached, query, msg>>
    BY <1>4
  <1>5. \/ StartRefresh /\ UNCHANGED <<list, dom, query>> /\ cached' \in {cached, {}}
        \/ \E i \in 1 .. MaxRefreshes : ShowList(i)
        \/ Search \/ UNCHANGED <<list, dom, cached, query, msg>>
    <2>1. (\E forget \in BOOLEAN : Refresh(forget)) \/ (\E n \in Names : Unloaded(n) \/ \E b \in Builds : Load(n, b))
          => StartRefresh /\ UNCHANGED <<list, dom, query>> /\ cached' \in {cached, {}}
      BY DEF Refresh, Unloaded, Load
    <2>2. \/ \E n \in Names : Unload(n) \/ TooOld(n)
          \/ \E i \in 1 .. MaxRefreshes : ReadNames(i) \/ \E n \in Names : ReadInfo(i, n)
          \/ Changes \/ Annotate \/ UNCHANGED vars
          => UNCHANGED <<list, dom, cached, query, msg>>
      BY DEF Unload, TooOld, ReadNames, ReadInfo, Changes, Annotate, page, vars
    <2>3. ASSUME NEW p \in 1 .. MaxPasses,
                 ReadStats(p) \/ ShowStats(p) \/ EndPass(p) \/ Tick(p) \/ \E n \in Names : NextCard(p, n)
          PROVE  UNCHANGED <<list, dom, cached, query, msg>>
      BY <2>3 DEF ReadStats, ShowStats, EndPass, Tick, NextCard, page
    <2> QED
      BY <2>1, <2>2, <2>3, Cases
  <1> QED
    BY <1>1, <1>2, <1>3, <1>4, <1>5

\* What is written to a card.
LEMMA CardUpdates ==
    ASSUME NEW c \in Card
    PROVE  /\ \A b \in BOOLEAN : [c EXCEPT !.hid = b] \in Card
           /\ \A d \in NatStats : [c EXCEPT !.dash = d] \in Card
           /\ \A v \in Versions : [c EXCEPT !.badge = v] \in Card
  BY DEF Card

LEMMA NewCardType == \A b \in Builds \cup {0} : NewCard(b) \in Card
  BY Bounds DEF NewCard, Card, NatStats

LEMMA FilteredTypes ==
    ASSUME NEW c \in [Names -> Card], NEW l, NEW h, NEW q
    PROVE  Filtered(c, l, h, q) \in [Names -> Card]
  <1>1. \A n \in Names : (n \notin q) \in BOOLEAN
    BY Zenon
  <1>2. \A n \in Names : [c[n] EXCEPT !.hid = n \notin q] \in Card
    BY <1>1, CardUpdates, Zenon
  <1> QED
    BY <1>2 DEF Filtered

LEMMA CardTypesStep == ASSUME CardTypes, RefreshTypes, StatTypes, [Next]_vars PROVE CardTypes'
  <1> USE DEF CardTypes
  <1>1. ASSUME NEW i \in 1 .. MaxRefreshes, ShowList(i) PROVE CardTypes'
    <2> DEFINE l == {n \in Names : refreshes[i].got[n] # 0}
               drawn == [n \in Names |-> IF n \in l \ cached THEN NewCard(refreshes[i].got[n]) ELSE cards[n]]
    <2>1. \A n \in Names : refreshes[i].got[n] \in Builds \cup {0}
      BY DEF RefreshTypes, Refreshing
    <2>2. drawn \in [Names -> Card]
      BY <2>1, NewCardType
    <2>3. cards' = Filtered(drawn, l, l, query)
      BY <1>1 DEF ShowList
    <2> HIDE DEF drawn
    <2> QED
      BY <2>2, <2>3, FilteredTypes
  <1>2. CASE Search
    BY <1>2, FilteredTypes DEF Search
  <1>3. ASSUME NEW p \in 1 .. MaxPasses, NEW n \in Names, NextCard(p, n) PROVE CardTypes'
    <2>1. cards' = cards \/ cards' = [cards EXCEPT ![n].dash = IF cache[n] = 0 THEN @ ELSE cache[n]]
      BY <1>3 DEF NextCard
    <2>2. cards[n].dash \in NatStats /\ cache[n] \in NatStats
      BY DEF Card, StatTypes
    <2>3. [cards[n] EXCEPT !.dash = IF cache[n] = 0 THEN @ ELSE cache[n]] \in Card
      BY <2>2, CardUpdates
    <2> QED
      BY <2>1, <2>3
  <1>4. ASSUME NEW p \in 1 .. MaxPasses, ShowStats(p) PROVE CardTypes'
    <2>1. passes[p].val \in NatStats
      BY DEF StatTypes, Round
    <2>2. \A n \in Names : [cards[n] EXCEPT !.dash = passes[p].val] \in Card
      BY <2>1, CardUpdates
    <2> QED
      BY <1>4, <2>2 DEF ShowStats
  <1>5. CASE Annotate
    <2>1. annotate'.mods \in Catalogs
      BY <1>5 DEF Annotate
    <2>2. \A n \in Names \cap Updates(props, annotate'.mods) :
            [cards[n] EXCEPT !.badge = Chosen(annotate'.mods, n)] \in Card
      BY <2>1, ChosenIsNewer, CardUpdates
    <2> QED
      BY <1>5, <2>2 DEF Annotate, Chosen
  <1>6. CASE UNCHANGED cards
    BY <1>6
  <1>7. \/ \E i \in 1 .. MaxRefreshes : ShowList(i)
        \/ \E p \in 1 .. MaxPasses : ShowStats(p) \/ \E n \in Names : NextCard(p, n)
        \/ Search \/ Annotate \/ UNCHANGED cards
    BY Cases DEF Refresh, Unload, Unloaded, Load, TooOld, ReadNames, ReadInfo, ReadStats, EndPass,
       Tick, Changes, page, vars
  <1> QED
    BY <1>1, <1>2, <1>3, <1>4, <1>5, <1>6, <1>7

LEMMA NoPassType ==
    /\ NoPass \in Round
    /\ \A l \in SUBSET Names : [NoPass EXCEPT !.ph = "next", !.todo = l] \in Round
  <1>1. 0 \in NatStats
    BY Bounds DEF NatStats
  <1>2. NoPass \in Round
    BY <1>1 DEF NoPass, Round
  <1>3. \A l \in SUBSET Names : [NoPass EXCEPT !.ph = "next", !.todo = l] \in Round
    BY <1>2 DEF Round
  <1> QED
    BY <1>2, <1>3

LEMMA StatTypesStep == ASSUME StatTypes, KernelTypes, PageTypes, [Next]_vars PROVE StatTypes'
  <1> USE DEF StatTypes
  <1>0. 0 \in NatStats /\ world \in NatStats
    BY Bounds DEF NatStats, KernelTypes
  <1>1. CASE StartRefresh /\ passes' = passes
    BY <1>0, <1>1, Starting
  <1>2. ASSUME NEW i \in 1 .. MaxRefreshes, ShowList(i) PROVE StatTypes'
    <2> DEFINE l == {n \in Names : refreshes[i].got[n] # 0}
               left == [q \in 1 .. MaxPasses |-> [passes[q] EXCEPT !.live = @ /\ passes[q].cur \subseteq cached \cap l]]
    <2>1. \A q \in 1 .. MaxPasses : \A b \in BOOLEAN : [passes[q] EXCEPT !.live = b] \in Round
      BY DEF Round
    <2>2. \A q \in 1 .. MaxPasses : (passes[q].live /\ passes[q].cur \subseteq cached \cap l) \in BOOLEAN
      BY Zenon
    <2>3. \A q \in 1 .. MaxPasses :
            [passes[q] EXCEPT !.live = @ /\ passes[q].cur \subseteq cached \cap l] \in Round
      BY <2>1, <2>2, Zenon
    <2>4. left \in [1 .. MaxPasses -> Round]
      BY <2>3, Zenon
    <2>5. [NoPass EXCEPT !.ph = "next", !.todo = l] \in Round
      BY NoPassType
    <2>6. \E p \in 1 .. MaxPasses : passes' = [left EXCEPT ![p] = [NoPass EXCEPT !.ph = "next", !.todo = l]]
      BY <1>2, Zenon DEF ShowList
    <2>7. cache' = cache
      BY <1>2 DEF ShowList
    <2> HIDE DEF left, l
    <2> QED
      BY <2>4, <2>5, <2>6, <2>7
  <1>3. ASSUME NEW p \in 1 .. MaxPasses, Tick(p) PROVE StatTypes'
    <2>1. [NoPass EXCEPT !.ph = "next", !.todo = list] \in Round
      BY NoPassType DEF PageTypes
    <2> QED
      BY <1>3, <2>1 DEF Tick
  <1>4. ASSUME NEW n \in Names, TooOld(n) PROVE StatTypes'
    BY <1>0, <1>4 DEF TooOld
  <1>5. ASSUME NEW p \in 1 .. MaxPasses, NEW n \in Names, NextCard(p, n) PROVE StatTypes'
    <2> DEFINE rest == [passes[p] EXCEPT !.todo = @ \ {n}]
               going == [rest EXCEPT !.ph = "read", !.cur = {n}, !.live = TRUE]
    <2>1. rest \in Round
      BY DEF Round
    <2>2. going \in Round
      BY <2>1 DEF Round
    <2>3. cache' = cache /\ (passes' = [passes EXCEPT ![p] = rest] \/ passes' = [passes EXCEPT ![p] = going])
      BY <1>5 DEF NextCard
    <2> HIDE DEF rest, going
    <2> QED
      BY <2>1, <2>2, <2>3
  <1>6. ASSUME NEW p \in 1 .. MaxPasses, ReadStats(p) PROVE StatTypes'
    <2>1. [[passes[p] EXCEPT !.ph = "show"] EXCEPT !.val = world] \in Round
      BY <1>0 DEF Round
    <2> QED
      BY <1>6, <2>1 DEF ReadStats
  <1>7. ASSUME NEW p \in 1 .. MaxPasses, ShowStats(p) PROVE StatTypes'
    <2>1. passes[p].val \in NatStats /\ passes[p].todo \in SUBSET Names
      BY DEF Round
    <2>2. [NoPass EXCEPT !.ph = "next", !.todo = passes[p].todo] \in Round
      BY <2>1, NoPassType
    <2> QED
      BY <1>7, <2>1, <2>2 DEF ShowStats
  <1>8. ASSUME NEW p \in 1 .. MaxPasses, EndPass(p) PROVE StatTypes'
    BY <1>8, NoPassType DEF EndPass
  <1>9. CASE UNCHANGED stats
    BY <1>9 DEF stats
  <1>10. \/ StartRefresh /\ passes' = passes
         \/ \E i \in 1 .. MaxRefreshes : ShowList(i)
         \/ \E n \in Names : TooOld(n)
         \/ \E p \in 1 .. MaxPasses :
                ReadStats(p) \/ ShowStats(p) \/ EndPass(p) \/ Tick(p) \/ \E n \in Names : NextCard(p, n)
         \/ UNCHANGED stats
    BY Cases DEF Refresh, Unload, Unloaded, Load, ReadNames, ReadInfo, Search, Changes, Annotate, stats, vars
  <1> QED
    BY <1>1, <1>2, <1>3, <1>4, <1>5, <1>6, <1>7, <1>8, <1>9, <1>10

LEMMA BadgeTypesStep == ASSUME BadgeTypes, [Next]_vars PROVE BadgeTypes'
  <1>1. CASE Annotate
    BY <1>1 DEF Annotate, BadgeTypes
  <1>2. Annotate \/ UNCHANGED annotate
    BY Cases DEF Refresh, Unload, Unloaded, Load, TooOld, ReadNames, ReadInfo, ShowList, ReadStats, ShowStats,
       EndPass, Tick, NextCard, Search, Changes, vars
  <1> QED
    BY <1>1, <1>2 DEF BadgeTypes

LEMMA InitTypes == Init => Types
  <1> SUFFICES ASSUME Init PROVE Types
    OBVIOUS
  <1> USE Bounds
  <1>1. KernelTypes
    BY FS_EmptySet DEF Init, KernelTypes
  <1>2. RefreshTypes
    BY NoRefreshType DEF Init, RefreshTypes
  <1>3. PageTypes
    BY QueryAssumption DEF Init, PageTypes
  <1>4. CardTypes
    BY NewCardType DEF Init, CardTypes
  <1>5. StatTypes
    <2>1. 0 \in NatStats
      BY DEF NatStats
    <2> QED
      BY <2>1, NoPassType DEF Init, StatTypes
  <1>6. BadgeTypes
    BY DEF Init, BadgeTypes, NoCatalog
  <1> QED
    BY <1>1, <1>2, <1>3, <1>4, <1>5, <1>6 DEF Types

LEMMA TypesInvariant == Spec => []Types
  <1>1. Types /\ [Next]_vars => Types'
    BY KernelTypesStep, RefreshTypesStep, PageTypesStep, CardTypesStep, StatTypesStep, BadgeTypesStep
       DEF Types
  <1> QED
    BY InitTypes, <1>1, PTL DEF Spec

\* The page keeps its types: in particular every card that the map holds is on the
\* page, and a badge is a version that can be read.
THEOREM TypeCorrect == Spec => []TypeOK
  <1>1. Types => TypeOK
    BY DEF Types, KernelTypes, RefreshTypes, PageTypes, CardTypes, StatTypes, BadgeTypes, TypeOK,
       Refreshing, Card, NatStats, Round
  <1> QED
    BY TypesInvariant, <1>1, PTL

----------------------------------------------------------------------------
\* The page shows the loaded KPMs.

\* Of a patient user's loads, unloads and refreshes at most one is under way.
OneAtATime ==
    /\ unloading # {} => \A i \in 1 .. MaxRefreshes : refreshes[i].ph = "free"
    /\ \A i, j \in 1 .. MaxRefreshes : refreshes[i].ph # "free" /\ refreshes[j].ph # "free" => i = j
\* A refresh has read what is loaded, except for the KPMs it has still to ask about.
ReadIsTrue ==
    \A i \in 1 .. MaxRefreshes :
        /\ refreshes[i].ph # "info" => refreshes[i].todo = {}
        /\ refreshes[i].ph = "info" =>
              \A n \in Names : n \notin refreshes[i].todo => refreshes[i].got[n] = kernel[n]
\* A card that will be used again is of the build that is loaded, and is hidden
\* when the search does not select it.
HeldIsTrue ==
    \A n \in cached : /\ kernel[n] # 0 => cards[n].build = kernel[n]
                      /\ cards[n].hid = (n \notin query)
\* Nothing under way: the page is drawn.
Drawn == Idle => /\ dom = Loaded /\ list = Loaded /\ cached = Loaded
                 /\ msg = IF Loaded \cap query = {} THEN "nomatch" ELSE "hidden"
Truth == OneAtATime /\ ReadIsTrue /\ HeldIsTrue /\ Drawn

\* A refresh that starts when nothing else is under way.
LEMMA StartTruth ==
    ASSUME Types, ReadIsTrue, \A i \in 1 .. MaxRefreshes : refreshes[i].ph = "free",
           StartRefresh, unloading' = {}
    PROVE  OneAtATime' /\ ReadIsTrue' /\ Drawn'
  <1>1. PICK i \in 1 .. MaxRefreshes :
          refreshes' = [refreshes EXCEPT ![i] = [ph |-> "list", todo |-> {}, got |-> [n \in Names |-> 0]]]
    BY Starting
  <1>2. /\ refreshes'[i].ph = "list" /\ refreshes'[i].todo = {}
        /\ \A j \in (1 .. MaxRefreshes) \ {i} : refreshes'[j] = refreshes[j]
    BY <1>1 DEF Types, RefreshTypes
  <1>3. OneAtATime'
    BY <1>2 DEF OneAtATime
  <1>4. Drawn'
    BY <1>2 DEF Drawn, Idle
  <1> QED
    BY <1>2, <1>3, <1>4 DEF ReadIsTrue

LEMMA StartsHeld ==
    ASSUME HeldIsTrue, cached' \in {cached, {}}, UNCHANGED <<cards, query>>,
           \A n \in cached' : kernel'[n] = kernel[n] \/ kernel'[n] = 0
    PROVE  HeldIsTrue'
  BY DEF HeldIsTrue

LEMMA RefreshTruth ==
    ASSUME Patient, Types, Truth, NEW forget \in BOOLEAN, Refresh(forget)
    PROVE  Truth'
  <1>1. Idle /\ StartRefresh /\ cached' \in {cached, {}} /\ UNCHANGED <<kernel, unloading, cards, query>>
    BY DEF Refresh, Acts, world_vars
  <1>2. OneAtATime' /\ ReadIsTrue' /\ Drawn'
    BY <1>1, StartTruth DEF Idle, Truth
  <1>3. HeldIsTrue'
    BY <1>1, StartsHeld DEF Truth
  <1> QED
    BY <1>2, <1>3 DEF Truth

LEMMA LoadTruth ==
    ASSUME Patient, Types, Truth, NEW n \in Names, NEW b \in Builds, Load(n, b)
    PROVE  Truth'
  <1>1. /\ Idle /\ StartRefresh /\ UNCHANGED <<unloading, cached, cards, query>>
        /\ kernel[n] = 0 /\ kernel' = [kernel EXCEPT ![n] = b]
    BY DEF Load, Acts
  <1>2. OneAtATime' /\ ReadIsTrue' /\ Drawn'
    BY <1>1, StartTruth DEF Idle, Truth
  <1>3. cached = Loaded
    BY <1>1 DEF Truth, Drawn
  <1>4. \A m \in cached : kernel'[m] = kernel[m]
    BY <1>1, <1>3 DEF Loaded, Types, KernelTypes
  <1>5. HeldIsTrue'
    BY <1>1, <1>4, StartsHeld DEF Truth
  <1> QED
    BY <1>2, <1>5 DEF Truth

LEMMA UnloadTruth ==
    ASSUME Patient, Types, Truth, NEW n \in Names, Unload(n)
    PROVE  Truth'
  <1>1. Idle /\ unloading' = {n} /\ UNCHANGED <<kernel, refreshes, cached, cards, query>>
    BY DEF Unload, Acts, world_vars, page
  <1> QED
    BY <1>1 DEF Truth, OneAtATime, ReadIsTrue, HeldIsTrue, Drawn, Idle

LEMMA UnloadedTruth ==
    ASSUME Patient, Types, Truth, NEW n \in Names, Unloaded(n)
    PROVE  Truth'
  <1>1. /\ n \in unloading /\ unloading' = {} /\ kernel' \in {kernel, [kernel EXCEPT ![n] = 0]}
        /\ StartRefresh /\ UNCHANGED <<cached, cards, query>>
    BY DEF Unloaded
  <1>2. OneAtATime' /\ ReadIsTrue' /\ Drawn'
    BY <1>1, StartTruth DEF Truth, OneAtATime
  <1>3. \A m \in cached : kernel'[m] = kernel[m] \/ kernel'[m] = 0
    BY <1>1 DEF Types, KernelTypes, PageTypes
  <1>4. HeldIsTrue'
    BY <1>1, <1>3, StartsHeld DEF Truth
  <1> QED
    BY <1>2, <1>4 DEF Truth

LEMMA NamesTruth ==
    ASSUME Types, Truth, NEW i \in 1 .. MaxRefreshes, ReadNames(i)
    PROVE  Truth'
  <1>1. /\ refreshes[i].ph = "list" /\ UNCHANGED <<kernel, unloading, cached, cards, query>>
        /\ refreshes' = [refreshes EXCEPT ![i] = [ph |-> "info", todo |-> Loaded, got |-> [n \in Names |-> 0]]]
    BY DEF ReadNames, world_vars, page, Loaded
  <1>2. /\ refreshes'[i].ph = "info" /\ refreshes'[i].todo = Loaded
        /\ \A n \in Names : refreshes'[i].got[n] = 0
        /\ \A j \in (1 .. MaxRefreshes) \ {i} : refreshes'[j] = refreshes[j]
    BY <1>1 DEF Types, RefreshTypes
  <1>3. OneAtATime'
    BY <1>1, <1>2 DEF Truth, OneAtATime
  <1>4. ReadIsTrue'
    BY <1>1, <1>2 DEF Truth, ReadIsTrue, Loaded
  <1>5. HeldIsTrue' /\ Drawn'
    BY <1>1, <1>2 DEF Truth, HeldIsTrue, Drawn, Idle
  <1> QED
    BY <1>3, <1>4, <1>5 DEF Truth

LEMMA InfoTruth ==
    ASSUME Types, Truth, NEW i \in 1 .. MaxRefreshes, NEW n \in Names, ReadInfo(i, n)
    PROVE  Truth'
  <1> DEFINE x == [[refreshes[i] EXCEPT !.todo = @ \ {n}] EXCEPT !.got[n] = kernel[n]]
  <1>1. /\ n \in refreshes[i].todo /\ UNCHANGED <<kernel, unloading, cached, cards, query>>
        /\ refreshes' = [refreshes EXCEPT ![i] = x]
    BY DEF ReadInfo, world_vars, page, Types, RefreshTypes
  <1>2. refreshes[i] \in Refreshing
    BY DEF Types, RefreshTypes
  <1>3. /\ x.ph = refreshes[i].ph /\ x.todo = refreshes[i].todo \ {n}
        /\ x.got = [refreshes[i].got EXCEPT ![n] = kernel[n]]
    BY <1>2 DEF Refreshing
  <1>4. refreshes[i].ph = "info"
    BY <1>1 DEF Truth, ReadIsTrue
  <1> HIDE DEF x
  <1>5. refreshes'[i] = x /\ \A j \in (1 .. MaxRefreshes) \ {i} : refreshes'[j] = refreshes[j]
    BY <1>1 DEF Types, RefreshTypes
  <1>6. OneAtATime'
    BY <1>1, <1>3, <1>5 DEF Truth, OneAtATime
  <1>7. \A m \in Names : m \notin x.todo => x.got[m] = kernel[m]
    BY <1>2, <1>3, <1>4 DEF Truth, ReadIsTrue, Refreshing
  <1>8. ReadIsTrue'
    <2>1. \A j \in (1 .. MaxRefreshes) \ {i} :
            /\ refreshes'[j].ph # "info" => refreshes'[j].todo = {}
            /\ refreshes'[j].ph = "info" =>
                  \A m \in Names : m \notin refreshes'[j].todo => refreshes'[j].got[m] = kernel'[m]
      BY <1>1, <1>5 DEF Truth, ReadIsTrue
    <2>2. /\ refreshes'[i].ph = "info"
          /\ \A m \in Names : m \notin refreshes'[i].todo => refreshes'[i].got[m] = kernel'[m]
      BY <1>1, <1>3, <1>4, <1>5, <1>7
    <2> QED
      BY <2>1, <2>2 DEF ReadIsTrue
  <1>9. HeldIsTrue' /\ Drawn'
    BY <1>1, <1>3, <1>4, <1>5 DEF Truth, HeldIsTrue, Drawn, Idle
  <1> QED
    BY <1>6, <1>8, <1>9 DEF Truth

LEMMA FilteredCards ==
    ASSUME NEW c \in [Names -> Card], NEW l, NEW h, NEW q, NEW n \in Names
    PROVE  /\ Filtered(c, l, h, q)[n].build = c[n].build
           /\ n \in l \cap h => Filtered(c, l, h, q)[n].hid = (n \notin q)
  <1>1. \A b : /\ [c[n] EXCEPT !.hid = b].build = c[n].build
               /\ [c[n] EXCEPT !.hid = b].hid = b
    BY DEF Card
  <1>2. Filtered(c, l, h, q)[n] = IF n \in l \cap h THEN [c[n] EXCEPT !.hid = n \notin q] ELSE c[n]
    BY Zenon DEF Filtered
  <1>3. CASE n \in l \cap h
    <2>1. Filtered(c, l, h, q)[n] = [c[n] EXCEPT !.hid = n \notin q]
      BY <1>2, <1>3, Zenon
    <2> QED
      BY <1>1, <2>1, Zenon
  <1>4. CASE n \notin l \cap h
    BY <1>2, <1>4, Zenon
  <1> QED
    BY <1>3, <1>4

LEMMA ShowTruth ==
    ASSUME Types, Truth, NEW i \in 1 .. MaxRefreshes, ShowList(i)
    PROVE  Truth'
  <1> DEFINE l == {n \in Names : refreshes[i].got[n] # 0}
             drawn == [n \in Names |-> IF n \in l \ cached THEN NewCard(refreshes[i].got[n]) ELSE cards[n]]
  <1>1. /\ refreshes[i].ph = "info" /\ refreshes[i].todo = {}
        /\ refreshes' = [refreshes EXCEPT ![i] = NoRefresh]
        /\ list' = l /\ dom' = l /\ cached' = l
        /\ cards' = Filtered(drawn, l, l, query) /\ msg' = Message(l, l, query)
        /\ UNCHANGED <<kernel, unloading, query>>
    BY DEF ShowList, Held, world_vars
  <1>2. /\ refreshes'[i].ph = "free" /\ refreshes'[i].todo = {}
        /\ \A j \in (1 .. MaxRefreshes) \ {i} : refreshes'[j] = refreshes[j]
    BY <1>1 DEF Types, RefreshTypes, NoRefresh
  <1>3. \A n \in Names : refreshes[i].got[n] = kernel[n]
    BY <1>1 DEF Truth, ReadIsTrue
  <1>4. l = Loaded
    BY <1>3 DEF Loaded
  <1>5. \A n \in Names : refreshes[i].got[n] \in Builds \cup {0}
    BY DEF Types, RefreshTypes, Refreshing
  <1>6. drawn \in [Names -> Card]
    BY <1>5, NewCardType DEF Types, CardTypes
  <1>7. \A n \in l : drawn[n].build = kernel[n]
    <2> SUFFICES ASSUME NEW n \in l PROVE drawn[n].build = kernel[n]
      OBVIOUS
    <2>1. CASE n \in cached
      BY <1>3, <2>1 DEF Truth, HeldIsTrue
    <2>2. CASE n \notin cached
      BY <1>3, <2>2 DEF NewCard
    <2> QED
      BY <2>1, <2>2
  <1> HIDE DEF drawn
  <1>8. OneAtATime'
    BY <1>1, <1>2 DEF Truth, OneAtATime
  <1>9. ReadIsTrue'
    BY <1>1, <1>2 DEF Truth, ReadIsTrue
  <1>10. HeldIsTrue'
    <2>1. \A n \in l : cards'[n].build = kernel[n] /\ cards'[n].hid = (n \notin query)
      BY <1>1, <1>6, <1>7, FilteredCards
    <2> HIDE DEF l
    <2> QED
      BY <1>1, <2>1, Zenon DEF HeldIsTrue
  <1>11. Drawn'
    <2>1. Loaded' = Loaded
      BY <1>1 DEF Loaded
    <2> QED
      BY <1>1, <1>4, <2>1 DEF Drawn, Message
  <1> QED
    BY <1>8, <1>9, <1>10, <1>11 DEF Truth

LEMMA SearchTruth ==
    ASSUME Types, Truth, Search
    PROVE  Truth'
  <1>1. /\ UNCHANGED <<kernel, unloading, refreshes, list, dom, cached>>
        /\ cards' = Filtered(cards, list, cached, query') /\ msg' = Message(list, cached, query')
    BY DEF Search, world_vars
  <1>2. OneAtATime' /\ ReadIsTrue'
    BY <1>1 DEF Truth, OneAtATime, ReadIsTrue
  <1>3. HeldIsTrue'
    <2>1. \A n \in cached : n \in Names /\ n \in list \cap cached
      BY DEF Types, PageTypes
    <2>2. \A n \in cached : cards'[n].build = cards[n].build /\ cards'[n].hid = (n \notin query')
      BY <1>1, <2>1, FilteredCards DEF Types, CardTypes
    <2> QED
      BY <1>1, <2>2, Zenon DEF Truth, HeldIsTrue
  <1>4. Drawn'
    <2>1. Loaded' = Loaded /\ Idle' = Idle
      BY <1>1 DEF Loaded, Idle
    <2> QED
      BY <1>1, <2>1 DEF Truth, Drawn, Message
  <1> QED
    BY <1>2, <1>3, <1>4 DEF Truth

\* Statistics and badges change neither the build of a card nor whether it is hidden.
LEMMA CardsTruth ==
    ASSUME Types, Truth, UNCHANGED <<kernel, unloading, refreshes, list, dom, cached, query, msg>>,
           \A n \in Names : cards'[n].build = cards[n].build /\ cards'[n].hid = cards[n].hid
    PROVE  Truth'
  <1>1. OneAtATime' /\ ReadIsTrue' /\ Drawn'
    BY DEF Truth, OneAtATime, ReadIsTrue, Drawn, Idle, Loaded
  <1>2. cached \subseteq Names
    BY DEF Types, PageTypes
  <1>3. HeldIsTrue'
    BY <1>2 DEF Truth, HeldIsTrue
  <1> QED
    BY <1>1, <1>3 DEF Truth

LEMMA SameCards ==
    ASSUME NEW c \in Card
    PROVE  \A x : /\ [c EXCEPT !.dash = x].build = c.build /\ [c EXCEPT !.dash = x].hid = c.hid
                  /\ [c EXCEPT !.badge = x].build = c.build /\ [c EXCEPT !.badge = x].hid = c.hid
  BY DEF Card

LEMMA StatsTruth ==
    ASSUME Types, Truth, NEW p \in 1 .. MaxPasses,
           ShowStats(p) \/ \E n \in Names : NextCard(p, n)
    PROVE  Truth'
  <1>1. UNCHANGED <<kernel, unloading, refreshes, list, dom, cached, query, msg>>
    BY DEF ShowStats, NextCard, world_vars
  <1>2. \A n \in Names : cards'[n].build = cards[n].build /\ cards'[n].hid = cards[n].hid
    <2>1. CASE ShowStats(p)
      BY <2>1, SameCards DEF ShowStats, Types, CardTypes
    <2>2. ASSUME NEW n \in Names, NextCard(p, n)
          PROVE  \A m \in Names : cards'[m].build = cards[m].build /\ cards'[m].hid = cards[m].hid
      <3> DEFINE d == IF cache[n] = 0 THEN cards[n].dash ELSE cache[n]
      <3>1. cards' = cards \/ cards' = [cards EXCEPT ![n] = [cards[n] EXCEPT !.dash = d]]
        BY <2>2 DEF NextCard, Types, CardTypes
      <3>2. /\ [cards[n] EXCEPT !.dash = d].build = cards[n].build
            /\ [cards[n] EXCEPT !.dash = d].hid = cards[n].hid
        BY SameCards DEF Types, CardTypes
      <3> HIDE DEF d
      <3> QED
        BY <3>1, <3>2 DEF Types, CardTypes
    <2> QED
      BY <2>1, <2>2
  <1> QED
    BY <1>1, <1>2, CardsTruth

LEMMA AnnotateTruth ==
    ASSUME Types, Truth, Annotate
    PROVE  Truth'
  <1>1. UNCHANGED <<kernel, unloading, refreshes, list, dom, cached, query, msg>>
    BY DEF Annotate, world_vars
  <1>2. \A n \in Names : cards'[n].build = cards[n].build /\ cards'[n].hid = cards[n].hid
    BY SameCards DEF Annotate, Types, CardTypes
  <1> QED
    BY <1>1, <1>2, CardsTruth

LEMMA TruthStep ==
    ASSUME Patient, Types, Truth, [Next]_vars
    PROVE  Truth'
  <1>1. CASE UNCHANGED <<kernel, unloading, refreshes, page>>
    BY <1>1, CardsTruth DEF page
  <1>2. \/ \E n \in Names : TooOld(n)
        \/ \E p \in 1 .. MaxPasses : ReadStats(p) \/ EndPass(p) \/ Tick(p)
        \/ Changes \/ UNCHANGED vars
        => UNCHANGED <<kernel, unloading, refreshes, page>>
    BY DEF TooOld, ReadStats, EndPass, Tick, Changes, world_vars, page, vars
  <1> QED
    BY <1>1, <1>2, RefreshTruth, LoadTruth, UnloadTruth, UnloadedTruth, NamesTruth, InfoTruth, ShowTruth,
       SearchTruth, StatsTruth, AnnotateTruth, Cases

\* For a user who waits: once nothing is under way, the page shows the KPMs that are
\* loaded, in the build that is loaded, and of these the ones the search selects,
\* though a refresh reads them one by one and cards are used again.
THEOREM PageIsTrue == Patient => (Spec => []CardsAreTrue)
  <1> SUFFICES ASSUME Patient PROVE Spec => []CardsAreTrue
    OBVIOUS
  <1>1. Init => Truth
    <2> SUFFICES ASSUME Init PROVE Truth
      OBVIOUS
    <2>1. /\ refreshes = [i \in 1 .. MaxRefreshes |->
                 IF i = 1 THEN [ph |-> "list", todo |-> {}, got |-> [n \in Names |-> 0]] ELSE NoRefresh]
          /\ unloading = {} /\ cached = {}
      BY NoRefreshType DEF Init
    <2>2. refreshes[1].ph = "list" /\ 1 \in 1 .. MaxRefreshes
      BY <2>1, Bounds
    <2> QED
      BY <2>1, <2>2 DEF Truth, OneAtATime, ReadIsTrue, HeldIsTrue, Drawn, Idle, NoRefresh
  <1>2. Types /\ Truth /\ [Next]_vars => Truth'
    BY TruthStep
  <1>3. Truth => CardsAreTrue
    <2> SUFFICES ASSUME Truth, Idle PROVE CardsAreTrue
      BY DEF CardsAreTrue
    <2>1. dom = Loaded /\ cached = dom /\ msg = IF dom \cap query = {} THEN "nomatch" ELSE "hidden"
      BY DEF Truth, Drawn
    <2>2. \A n \in dom : cards[n].build = kernel[n] /\ cards[n].hid = (n \notin query)
      BY <2>1 DEF Truth, HeldIsTrue, Loaded
    <2> QED
      BY <2>1, <2>2, Zenon DEF CardsAreTrue, Loaded
  <1> QED
    BY TypesInvariant, <1>1, <1>2, <1>3, PTL DEF Spec
----------------------------------------------------------------------------
\* Badges.

\* No card has a badge before the catalog has come; one that has a badge keeps it
\* as long as it is on the page, and a new card has none.
Badged == /\ annotate.ph = "fetch" => \A n \in Names : cards[n].badge = NoBadge
          /\ BadgeIsNewer

\* What else is written to a card leaves its badge.
LEMMA SameBadge ==
    ASSUME NEW c \in Card
    PROVE  \A x : [c EXCEPT !.dash = x].badge = c.badge /\ [c EXCEPT !.hid = x].badge = c.badge
  BY DEF Card

LEMMA FilteredBadges ==
    ASSUME NEW c \in [Names -> Card], NEW l, NEW h, NEW q, NEW n \in Names
    PROVE  Filtered(c, l, h, q)[n].badge = c[n].badge
  <1>1. Filtered(c, l, h, q)[n] = IF n \in l \cap h THEN [c[n] EXCEPT !.hid = n \notin q] ELSE c[n]
    BY Zenon DEF Filtered
  <1>2. [c[n] EXCEPT !.hid = n \notin q].badge = c[n].badge
    BY SameBadge, Zenon
  <1> QED
    BY <1>1, <1>2, Zenon

LEMMA BadgesStay ==
    ASSUME Types, [Next]_vars, ~Annotate
    PROVE  \A n \in Names : cards'[n].badge \in {cards[n].badge, NoBadge}
  <1>1. ASSUME NEW i \in 1 .. MaxRefreshes, ShowList(i), NEW n \in Names
        PROVE  cards'[n].badge \in {cards[n].badge, NoBadge}
    <2> DEFINE l == {m \in Names : refreshes[i].got[m] # 0}
               drawn == [m \in Names |-> IF m \in l \ cached THEN NewCard(refreshes[i].got[m]) ELSE cards[m]]
    <2>1. \A m \in Names : refreshes[i].got[m] \in Builds \cup {0}
      BY DEF Types, RefreshTypes, Refreshing
    <2>2. drawn \in [Names -> Card]
      BY <2>1, NewCardType DEF Types, CardTypes
    <2>3. drawn[n].badge \in {cards[n].badge, NoBadge}
      BY DEF NewCard
    <2>4. cards' = Filtered(drawn, l, l, query)
      BY <1>1 DEF ShowList
    <2> HIDE DEF drawn
    <2> QED
      BY <2>2, <2>3, <2>4, FilteredBadges
  <1>2. ASSUME Search, NEW n \in Names PROVE cards'[n].badge = cards[n].badge
    BY <1>2, FilteredBadges DEF Search, Types, CardTypes
  <1>3. ASSUME NEW p \in 1 .. MaxPasses, NEW m \in Names, NextCard(p, m), NEW n \in Names
        PROVE  cards'[n].badge = cards[n].badge
    <2> DEFINE d == IF cache[m] = 0 THEN cards[m].dash ELSE cache[m]
    <2>1. cards' = cards \/ cards' = [cards EXCEPT ![m] = [cards[m] EXCEPT !.dash = d]]
      BY <1>3 DEF NextCard, Types, CardTypes
    <2>2. [cards[m] EXCEPT !.dash = d].badge = cards[m].badge
      BY SameBadge DEF Types, CardTypes
    <2> HIDE DEF d
    <2> QED
      BY <2>1, <2>2 DEF Types, CardTypes
  <1>4. ASSUME NEW p \in 1 .. MaxPasses, ShowStats(p), NEW n \in Names
        PROVE  cards'[n].badge = cards[n].badge
    BY <1>4, SameBadge DEF ShowStats, Types, CardTypes
  <1>5. \/ \E i \in 1 .. MaxRefreshes : ShowList(i)
        \/ \E p \in 1 .. MaxPasses : ShowStats(p) \/ \E n \in Names : NextCard(p, n)
        \/ Search \/ UNCHANGED cards
    BY Cases DEF Refresh, Unload, Unloaded, Load, TooOld, ReadNames, ReadInfo, ReadStats, EndPass,
       Tick, Changes, page, vars
  <1> QED
    BY <1>1, <1>2, <1>3, <1>4, <1>5

LEMMA AnnotateBadges ==
    ASSUME Types, Badged, Annotate
    PROVE  Badged'
  <1> DEFINE mods == annotate'.mods
  <1>1. /\ annotate'.ph = "done" /\ mods \in Catalogs /\ props' = props
        /\ \A n \in Names : cards[n].badge = NoBadge
    BY DEF Annotate, Badged, world_vars
  <1>2. \A n \in Names : \A v : [cards[n] EXCEPT !.badge = v].badge = v
    BY DEF Types, CardTypes, Card
  <1>3. ASSUME NEW n \in Names, cards'[n].badge # NoBadge
        PROVE  n \in Updates(props, mods) /\ cards'[n].badge = Chosen(mods, n)
    BY <1>1, <1>2, <1>3 DEF Annotate, Chosen
  <1> HIDE DEF mods
  <1>4. ASSUME NEW n \in Names, cards'[n].badge # NoBadge
        PROVE  /\ cards'[n].badge # props[n] /\ props[n] # NoVersion
               /\ ~Newer(props[n], cards'[n].badge)
               /\ \E k \in DOMAIN mods : mods[k] = [id |-> n, version |-> cards'[n].badge]
               /\ \A k \in DOMAIN mods : mods[k].id = n => ~Newer(mods[k].version, cards'[n].badge)
    <2>1. Newer(Chosen(mods, n), props[n])
      BY <1>1, <1>3, <1>4, ChosenIsNewer
    <2>2. Chosen(mods, n) \in Versions /\ props[n] \in Versions
      BY <2>1 DEF Newer
    <2> QED
      BY <1>1, <1>3, <1>4, <2>1, <2>2, ChosenIsNewer, VersionsAreOrdered
  <1> QED
    BY <1>1, <1>4 DEF Badged, BadgeIsNewer, mods

LEMMA BadgedStep ==
    ASSUME Types, Badged, [Next]_vars
    PROVE  Badged'
  <1>1. CASE Annotate
    BY <1>1, AnnotateBadges
  <1>2. CASE ~Annotate
    <2>1. UNCHANGED <<annotate, props>>
      BY <1>2, Cases DEF Refresh, Unload, Unloaded, Load, TooOld, ReadNames, ReadInfo, ShowList, ReadStats,
         ShowStats, EndPass, Tick, NextCard, Search, Changes, world_vars, vars
    <2>2. \A n \in Names : cards'[n].badge \in {cards[n].badge, NoBadge}
      BY <1>2, BadgesStay
    <2>3. annotate'.ph = "fetch" => \A n \in Names : cards'[n].badge = NoBadge
      BY <2>1, <2>2 DEF Badged
    <2>4. BadgeIsNewer'
      <3> SUFFICES ASSUME NEW n \in Names, cards'[n].badge # NoBadge
                   PROVE  cards'[n].badge = cards[n].badge
        BY <2>1 DEF Badged, BadgeIsNewer
      <3> QED
        BY <2>2
    <2> QED
      BY <2>3, <2>4 DEF Badged
  <1> QED
    BY <1>1, <1>2

\* A badge names a version of the catalog that is newer than the installed one, and
\* no entry of the catalog for this KPM has a newer one, in whatever order the
\* entries are and whichever of them cannot be read; cards that are used again, drawn
\* anew, searched or given statistics do not change this.  It holds for every user.
THEOREM BadgesAreNewer == Spec => []BadgeIsNewer
  <1>1. Init => Badged
    BY DEF Init, Badged, BadgeIsNewer, NewCard
  <1>2. Types /\ Badged /\ [Next]_vars => Badged'
    BY BadgedStep
  <1>3. Badged => BadgeIsNewer
    BY DEF Badged
  <1> QED
    BY TypesInvariant, <1>1, <1>2, <1>3, PTL DEF Spec
===========================================================================
