------------------------ MODULE BackupPages_proofs ------------------------
(***************************************************************************)
(* Theorems about BackupPages, for any number of backups, of previews and  *)
(* of refreshes, and whatever is typed.                                    *)
(***************************************************************************)
EXTENDS BackupPages, FiniteSetTheorems, TLAPS

\* A refresh adds a card once, and the page is emptied when it begins.
Busy == {i \in 1 .. MaxFetches : fetches[i].ph # "free"}
Room == \A n \in Names : cards[n] + Cardinality(Busy) <= MaxFetches
Types == TypeOK /\ Room

LEMMA Numbers ==
    /\ Minutes \in Nat /\ Old \in 0 .. Minutes /\ MaxPreviews \in Nat /\ MaxFetches \in Nat
    /\ KeepValues \subseteq Nat /\ 3 \in KeepValues
  BY MinutesAssumption, BoundAssumption

LEMMA Counted ==
    ASSUME NEW S \in SUBSET Names
    PROVE  IsFiniteSet(S) /\ Cardinality(S) \in 0 .. Minutes
  <1>1. IsFiniteSet(Names) /\ Cardinality(Names) <= Minutes
    <2>1. 1 \in Int /\ Minutes \in Int /\ Minutes >= 0
      BY Numbers
    <2>2. IsFiniteSet(1 .. Minutes) /\ Cardinality(1 .. Minutes) = IF 1 > Minutes THEN 0 ELSE Minutes - 1 + 1
      BY <2>1, FS_Interval
    <2> QED
      BY <2>1, <2>2 DEF Names
  <1>2. IsFiniteSet(S) /\ Cardinality(S) <= Cardinality(Names)
    BY <1>1, FS_Subset
  <1>3. Cardinality(S) \in Nat /\ Cardinality(Names) \in Nat
    BY <1>1, <1>2, FS_CardinalityType
  <1> QED
    BY <1>1, <1>2, <1>3, Numbers

LEMMA BusyCounted ==
    ASSUME NEW S \in SUBSET (1 .. MaxFetches)
    PROVE  IsFiniteSet(S) /\ Cardinality(S) \in 0 .. MaxFetches
  <1>1. IsFiniteSet(1 .. MaxFetches) /\ Cardinality(1 .. MaxFetches) <= MaxFetches
    <2>1. 1 \in Int /\ MaxFetches \in Int /\ MaxFetches >= 0
      BY Numbers
    <2>2. /\ IsFiniteSet(1 .. MaxFetches)
          /\ Cardinality(1 .. MaxFetches) = IF 1 > MaxFetches THEN 0 ELSE MaxFetches - 1 + 1
      BY <2>1, FS_Interval
    <2> QED
      BY <2>1, <2>2
  <1>2. IsFiniteSet(S) /\ Cardinality(S) <= Cardinality(1 .. MaxFetches)
    BY <1>1, FS_Subset
  <1>3. Cardinality(S) \in Nat /\ Cardinality(1 .. MaxFetches) \in Nat
    BY <1>1, <1>2, FS_CardinalityType
  <1> QED
    BY <1>1, <1>2, <1>3, Numbers

\* The parts of the state, so that a step disturbs one or two of them.
FetchTypes == [1 .. MaxFetches -> [ph : {"free", "ls", "got"}, got : SUBSET Names]]
ListTypes == fetches \in FetchTypes /\ cards \in [Names -> 0 .. MaxFetches] /\ Room
DiskTypes ==
    /\ imgs \subseteq Names /\ jsons \in [Names -> Manifests]
    /\ boot \in KpStates /\ last \in 0 .. Minutes /\ imgs \subseteq 1 .. last
DialogTypes ==
    dlg \in [mode : {"closed", "purge", "delete"}, target : 0 .. Minutes, text : Texts, off : BOOLEAN]
PreviewTypes ==
    /\ keep \in KeepValues
    /\ previews \subseteq [id : 1 .. MaxPreviews, count : Nat, n : 0 .. Minutes, ls : BOOLEAN]
PurgeTypes ==
    /\ purge \in [ph : {"none", "ls", "rm"}, count : Nat, todo : SUBSET Names]
    /\ gone \in 0 .. Minutes
PlanTypes ==
    plan \in [ph : {"closed", "ls", "own", "other", "shown"}, img : 0 .. Minutes,
              json : Manifests, found : BOOLEAN]
    /\ (plan.ph = "own" => plan.img \in Names)
Parts == ListTypes /\ DiskTypes /\ DialogTypes /\ PreviewTypes /\ PurgeTypes /\ PlanTypes

LEMMA InitParts == Init => Parts
  <1> SUFFICES ASSUME Init PROVE Parts
    OBVIOUS
  <1> USE Numbers DEF Init
  <1>1. ListTypes
    <2>1. Busy = {}
      BY DEF Busy
    <2>2. Cardinality(Busy) = 0
      BY <2>1, FS_EmptySet
    <2> QED
      BY <2>2 DEF ListTypes, FetchTypes, Room
  <1>2. DiskTypes
    <2>1. PICK f \in OldManifests : jsons = [n \in Names |-> IF n <= Old THEN f[n] ELSE None]
      OBVIOUS
    <2>2. f \in [1 .. Old -> Manifests]
      BY OldAssumption
    <2> QED
      BY <2>1, <2>2 DEF DiskTypes, Names, Manifests
  <1>3. DialogTypes
    BY DEF DialogTypes, Closed, Texts
  <1>4. PreviewTypes /\ PurgeTypes /\ PlanTypes
    BY DEF PreviewTypes, PurgeTypes, PlanTypes, NoPurge, NoPlan, Manifests
  <1> QED
    BY <1>1, <1>2, <1>3, <1>4 DEF Parts

----------------------------------------------------------------------------
\* The list.

LEMMA AskedTypes ==
    ASSUME ListTypes, Asked(fetches', cards')
    PROVE  ListTypes'
  <1>1. PICK i \in 1 .. MaxFetches : fetches' = [fetches EXCEPT ![i].ph = "ls"]
    BY DEF Asked
  <1>2. fetches' \in FetchTypes
    BY <1>1 DEF ListTypes, FetchTypes
  <1>3. cards' = [n \in Names |-> 0]
    BY DEF Asked
  <1>4. Busy' \in SUBSET (1 .. MaxFetches)
    BY DEF Busy
  <1>5. Cardinality(Busy') \in 0 .. MaxFetches
    BY <1>4, BusyCounted
  <1> QED
    BY <1>2, <1>3, <1>5, Numbers DEF ListTypes, Room

LEMMA ListStep ==
    ASSUME ListTypes, DiskTypes, NEW i \in 1 .. MaxFetches, List(i)
    PROVE  ListTypes'
  <1>1. fetches' = [fetches EXCEPT ![i] = [ph |-> "got", got |-> imgs]] /\ cards' = cards
    BY DEF List
  <1>2. fetches' \in FetchTypes
    BY <1>1 DEF ListTypes, DiskTypes, FetchTypes
  <1>3. fetches[i].ph = "ls"
    BY DEF List
  <1>4. Busy' = Busy
    BY <1>1, <1>3 DEF Busy, ListTypes, FetchTypes
  <1> QED
    BY <1>1, <1>2, <1>4 DEF ListTypes, Room

LEMMA ShowStep ==
    ASSUME ListTypes, NEW i \in 1 .. MaxFetches, Show(i)
    PROVE  ListTypes'
  <1>1. /\ fetches' = [fetches EXCEPT ![i] = [ph |-> "free", got |-> {}]] /\ fetches[i].ph = "got"
        /\ cards' = [n \in Names |-> cards[n] + IF n \in fetches[i].got THEN 1 ELSE 0]
    BY DEF Show
  <1>2. fetches' \in FetchTypes
    BY <1>1 DEF ListTypes, FetchTypes
  <1>3. Busy' = Busy \ {i} /\ i \in Busy
    BY <1>1 DEF Busy, ListTypes, FetchTypes
  <1>4. Busy \in SUBSET (1 .. MaxFetches)
    BY DEF Busy
  <1>5. Cardinality(Busy') = Cardinality(Busy) - 1 /\ Cardinality(Busy) \in Nat
    BY <1>3, <1>4, BusyCounted, FS_RemoveElement, Numbers
  <1>6. Busy' \in SUBSET (1 .. MaxFetches)
    BY <1>3, <1>4
  <1>7. Cardinality(Busy') \in Nat
    BY <1>6, BusyCounted, Numbers
  <1>8. \A n \in Names : cards'[n] \in Nat /\ cards'[n] + Cardinality(Busy') <= MaxFetches
    BY <1>1, <1>5, <1>7, Numbers DEF ListTypes, Room
  <1>9. cards' \in [Names -> 0 .. MaxFetches]
    BY <1>1, <1>7, <1>8, Numbers
  <1> QED
    BY <1>2, <1>8, <1>9 DEF ListTypes, Room

LEMMA ListTypesStep == ListTypes /\ DiskTypes /\ [Next]_vars => ListTypes'
  <1> SUFFICES ASSUME ListTypes, DiskTypes, [Next]_vars PROVE ListTypes'
    OBVIOUS
  <1>1. CASE Refresh \/ Deleted \/ EndPurge
    BY <1>1, AskedTypes DEF Refresh, Deleted, EndPurge
  <1>2. ASSUME NEW i \in 1 .. MaxFetches, List(i) \/ Show(i) PROVE ListTypes'
    BY <1>2, ListStep, ShowStep
  <1>3. CASE UNCHANGED <<fetches, cards>>
    BY <1>3 DEF ListTypes, Room, Busy
  <1>4. \/ Refresh \/ Deleted \/ EndPurge \/ \E i \in 1 .. MaxFetches : List(i) \/ Show(i)
        \/ UNCHANGED <<fetches, cards>>
    BY DEF Next, Answers, User, Purging, vars, OpenDelete, ConfirmDelete, OpenPurge, Type, ListPreview,
       ShowPreview, Cancel, ConfirmPurge, ListPurge, RemoveOne, AskPlan, PlanImage, PlanOwn, PlanOther,
       Decline, Unpatch, Patch
  <1> QED
    BY <1>1, <1>2, <1>3, <1>4

----------------------------------------------------------------------------
\* Types of the rest.

LEMMA DiskTypesStep == DiskTypes /\ [Next]_vars => DiskTypes'
  <1> SUFFICES ASSUME DiskTypes, [Next]_vars PROVE DiskTypes'
    OBVIOUS
  <1> USE Numbers DEF DiskTypes
  <1>1. CASE Deleted
    BY <1>1 DEF Deleted
  <1>2. ASSUME NEW n \in Names, RemoveOne(n) PROVE DiskTypes'
    BY <1>2 DEF RemoveOne
  <1>3. CASE Unpatch
    BY <1>3 DEF Unpatch, KpStates
  <1>4. CASE Patch
    <2>1. boot' \in KpStates /\ last' = last + 1 /\ last' \in 0 .. Minutes /\ last' \in Names
      BY <1>4 DEF Patch, KpStates, Names
    <2>2. imgs' \subseteq imgs \cup {last'} /\ jsons' \in [Names -> Manifests]
      BY <1>4, <2>1 DEF Patch, Manifests, KpStates
    <2> QED
      BY <2>1, <2>2
  <1>5. CASE UNCHANGED <<imgs, jsons, boot, last>>
    BY <1>5
  <1>6. \/ Deleted \/ Unpatch \/ Patch \/ \E n \in Names : RemoveOne(n)
        \/ UNCHANGED <<imgs, jsons, boot, last>>
    BY DEF Next, Answers, User, Purging, vars, Refresh, List, Show, OpenDelete, ConfirmDelete, OpenPurge,
       Type, ListPreview, ShowPreview, Cancel, ConfirmPurge, ListPurge, EndPurge, AskPlan, PlanImage,
       PlanOwn, PlanOther, Decline
  <1> QED
    BY <1>1, <1>2, <1>3, <1>4, <1>5, <1>6

LEMMA DialogTypesStep == DialogTypes /\ PreviewTypes /\ [Next]_vars => DialogTypes'
  <1> SUFFICES ASSUME DialogTypes, PreviewTypes, [Next]_vars PROVE DialogTypes'
    OBVIOUS
  <1> USE Numbers DEF DialogTypes, Texts
  <1>1. ASSUME NEW n \in Names, OpenDelete(n) PROVE DialogTypes'
    <2>1. <<"delete", n>> \in {"none", "count", "delete"} \X (0 .. Minutes) /\ n \in 0 .. Minutes
      BY DEF Names
    <2>2. dlg' = [dlg EXCEPT !.mode = "delete", !.target = n, !.text = <<"delete", n>>]
      BY <1>1 DEF OpenDelete
    <2> HIDE DEF Texts
    <2> QED
      BY <2>1, <2>2 DEF Texts
  <1>2. ASSUME NEW p \in previews, ShowPreview(p) PROVE DialogTypes'
    BY <1>2 DEF ShowPreview, PreviewTypes
  <1>3. CASE OpenPurge
    <2>1. dlg' = [dlg EXCEPT !.mode = "purge", !.target = 0] /\ 0 \in 0 .. Minutes
      BY <1>3 DEF OpenPurge
    <2> HIDE DEF Texts
    <2> QED
      BY <2>1
  <1>4. CASE ConfirmDelete \/ Cancel \/ ListPurge \/ EndPurge
    BY <1>4 DEF ConfirmDelete, Cancel, ListPurge, EndPurge
  <1>5. CASE UNCHANGED dlg
    BY <1>5
  <1>6. \/ \E n \in Names : OpenDelete(n)
        \/ \E p \in previews : ShowPreview(p)
        \/ OpenPurge \/ ConfirmDelete \/ Cancel \/ ListPurge \/ EndPurge \/ UNCHANGED dlg
    BY DEF Next, Answers, User, Purging, vars, Refresh, List, Show, Deleted, Type, ListPreview,
       ConfirmPurge, RemoveOne, AskPlan, PlanImage, PlanOwn, PlanOther, Decline, Unpatch, Patch
  <1> QED
    BY <1>1, <1>2, <1>3, <1>4, <1>5, <1>6

LEMMA PreviewTypesStep == PreviewTypes /\ DiskTypes /\ [Next]_vars => PreviewTypes'
  <1> SUFFICES ASSUME PreviewTypes, DiskTypes, [Next]_vars PROVE PreviewTypes'
    OBVIOUS
  <1> USE Numbers DEF PreviewTypes
  <1>1. ASSUME NEW k \in KeepValues, Previewing(k), keep' \in KeepValues PROVE PreviewTypes'
    <2>1. PICK id \in 1 .. MaxPreviews :
            previews' = previews \cup {[id |-> id, n |-> 0, ls |-> FALSE, count |-> IF k = 0 THEN 3 ELSE k]}
      BY <1>1 DEF Previewing
    <2>2. [id |-> id, n |-> 0, ls |-> FALSE, count |-> IF k = 0 THEN 3 ELSE k]
            \in [id : 1 .. MaxPreviews, count : Nat, n : 0 .. Minutes, ls : BOOLEAN]
      OBVIOUS
    <2> QED
      BY <1>1, <2>1, <2>2
  <1>2. CASE OpenPurge
    BY <1>1, <1>2 DEF OpenPurge
  <1>3. ASSUME NEW k \in KeepValues, Type(k) PROVE PreviewTypes'
    BY <1>1, <1>3 DEF Type
  <1>4. ASSUME NEW p \in previews, ListPreview(p) PROVE PreviewTypes'
    <2>1. Purged(imgs, p.count) \in SUBSET Names
      BY DEF Purged, DiskTypes
    <2>2. Cardinality(Purged(imgs, p.count)) \in 0 .. Minutes
      BY <2>1, Counted
    <2>3. [p EXCEPT !.ls = TRUE, !.n = Cardinality(Purged(imgs, p.count))]
            \in [id : 1 .. MaxPreviews, count : Nat, n : 0 .. Minutes, ls : BOOLEAN]
      BY <2>2
    <2> QED
      BY <1>4, <2>3 DEF ListPreview
  <1>5. ASSUME NEW p \in previews, ShowPreview(p) PROVE PreviewTypes'
    BY <1>5 DEF ShowPreview
  <1>6. CASE UNCHANGED <<keep, previews>>
    BY <1>6
  <1>7. \/ OpenPurge \/ \E k \in KeepValues : Type(k)
        \/ \E p \in previews : ListPreview(p) \/ ShowPreview(p)
        \/ UNCHANGED <<keep, previews>>
    BY DEF Next, Answers, User, Purging, vars, Refresh, List, Show, OpenDelete, ConfirmDelete, Deleted,
       Cancel, ConfirmPurge, ListPurge, RemoveOne, EndPurge, AskPlan, PlanImage, PlanOwn, PlanOther,
       Decline, Unpatch, Patch
  <1> QED
    BY <1>2, <1>3, <1>4, <1>5, <1>6, <1>7

LEMMA PurgeTypesStep ==
    PurgeTypes /\ DiskTypes /\ DialogTypes /\ PreviewTypes /\ [Next]_vars => PurgeTypes'
  <1> SUFFICES ASSUME PurgeTypes, DiskTypes, DialogTypes, PreviewTypes, [Next]_vars PROVE PurgeTypes'
    OBVIOUS
  <1> USE Numbers DEF PurgeTypes
  <1>1. CASE ConfirmDelete
    BY <1>1 DEF ConfirmDelete, DialogTypes
  <1>2. CASE Deleted
    BY <1>2 DEF Deleted
  <1>3. CASE ConfirmPurge
    BY <1>3 DEF ConfirmPurge, Count, PreviewTypes
  <1>4. CASE ListPurge
    <2>1. Purged(imgs, purge.count) \in SUBSET Names
      BY DEF Purged, DiskTypes
    <2>2. \/ purge' = [ph |-> "none", count |-> 0, todo |-> {}]
          \/ purge' = [purge EXCEPT !.ph = "rm", !.todo = Purged(imgs, purge.count)]
      BY <1>4 DEF ListPurge, NoPurge
    <2>3. gone' = gone
      BY <1>4 DEF ListPurge
    <2>4. [ph |-> "none", count |-> 0, todo |-> {}] \in [ph : {"none", "ls", "rm"}, count : Nat, todo : SUBSET Names]
      OBVIOUS
    <2>5. [purge EXCEPT !.ph = "rm", !.todo = Purged(imgs, purge.count)]
            \in [ph : {"none", "ls", "rm"}, count : Nat, todo : SUBSET Names]
      BY <2>1
    <2> QED
      BY <2>2, <2>3, <2>4, <2>5
  <1>5. ASSUME NEW n \in Names, RemoveOne(n) PROVE PurgeTypes'
    BY <1>5 DEF RemoveOne
  <1>6. CASE EndPurge
    BY <1>6 DEF EndPurge, NoPurge
  <1>7. CASE UNCHANGED <<purge, gone>>
    BY <1>7
  <1>8. \/ ConfirmDelete \/ Deleted \/ ConfirmPurge \/ ListPurge \/ EndPurge
        \/ \E n \in Names : RemoveOne(n)
        \/ UNCHANGED <<purge, gone>>
    BY DEF Next, Answers, User, Purging, vars, Refresh, List, Show, OpenDelete, OpenPurge, Type,
       ListPreview, ShowPreview, Cancel, AskPlan, PlanImage, PlanOwn, PlanOther, Decline, Unpatch, Patch
  <1> QED
    BY <1>1, <1>2, <1>3, <1>4, <1>5, <1>6, <1>7, <1>8

LEMMA PlanTypesStep == PlanTypes /\ DiskTypes /\ [Next]_vars => PlanTypes'
  <1> SUFFICES ASSUME PlanTypes, DiskTypes, [Next]_vars PROVE PlanTypes'
    OBVIOUS
  <1> USE Numbers DEF PlanTypes, Names
  <1>0. ASSUME NEW ph \in {"closed", "ls"}, plan' = [ph |-> ph, img |-> 0, json |-> None, found |-> FALSE]
        PROVE  PlanTypes'
    <2>1. None \in Manifests /\ 0 \in 0 .. Minutes
      BY DEF Manifests
    <2> QED
      BY <1>0, <2>1
  <1>1. CASE AskPlan
    <2>1. plan' = [ph |-> "ls", img |-> 0, json |-> None, found |-> FALSE]
      BY <1>1 DEF AskPlan, NoPlan
    <2> QED
      BY <1>0, <2>1
  <1>2. CASE PlanImage
    <2>1. CASE plan' = [plan EXCEPT !.ph = "shown"]
      BY <2>1
    <2>2. ASSUME NEW n \in imgs, plan' = [plan EXCEPT !.ph = "own", !.img = n, !.found = TRUE]
          PROVE  PlanTypes'
      <3>1. n \in 1 .. Minutes /\ n \in 0 .. Minutes
        BY DEF DiskTypes
      <3> QED
        BY <2>2, <3>1
    <2> QED
      BY <1>2, <2>1, <2>2 DEF PlanImage
  <1>3. CASE PlanOwn
    BY <1>3 DEF PlanOwn, DiskTypes
  <1>4. CASE PlanOther
    BY <1>4 DEF PlanOther, DiskTypes
  <1>5. CASE Decline \/ Unpatch
    <2>1. plan' = [ph |-> "closed", img |-> 0, json |-> None, found |-> FALSE]
      BY <1>5 DEF Decline, Unpatch, NoPlan
    <2> QED
      BY <1>0, <2>1
  <1>6. CASE UNCHANGED plan
    BY <1>6
  <1>7. AskPlan \/ PlanImage \/ PlanOwn \/ PlanOther \/ Decline \/ Unpatch \/ UNCHANGED plan
    BY DEF Next, Answers, User, Purging, vars, Refresh, List, Show, OpenDelete, ConfirmDelete, Deleted,
       OpenPurge, Type, ListPreview, ShowPreview, Cancel, ConfirmPurge, ListPurge, RemoveOne, EndPurge, Patch
  <1> QED
    BY <1>1, <1>2, <1>3, <1>4, <1>5, <1>6, <1>7

LEMMA PartsInvariant == Spec => []Parts
  <1>1. Parts /\ [Next]_vars => Parts'
    BY ListTypesStep, DiskTypesStep, DialogTypesStep, PreviewTypesStep, PurgeTypesStep, PlanTypesStep
       DEF Parts
  <1> QED
    BY InitParts, <1>1, PTL DEF Spec

\* The pages keep their types: in particular no card is shown more often than
\* refreshes can be under way, whoever waits.
THEOREM TypeCorrect == Spec => []TypeOK
  <1>1. Parts => TypeOK
    BY DEF Parts, ListTypes, FetchTypes, DiskTypes, DialogTypes, PreviewTypes, PurgeTypes, PlanTypes, TypeOK
  <1> QED
    BY PartsInvariant, <1>1, PTL

----------------------------------------------------------------------------
\* A purge keeps the newest images.

Above(n) == {m \in imgs : m > n}
\* While a purge runs its dialog stays open, so that no deletion is confirmed beside
\* it; and what it has still to remove has enough newer images, which it removes
\* after them if at all: the newest goes first.
Kept ==
    /\ dlg.mode # "closed" => gone = 0
    /\ purge.ph # "none" => dlg.mode = "purge"
    /\ purge.ph = "rm" => \A n \in purge.todo : Cardinality(Above(n)) >= purge.count

LEMMA MoreAbove ==
    ASSUME NEW S \in SUBSET Names, NEW T \in SUBSET S
    PROVE  Cardinality(T) <= Cardinality(S)
  BY Counted, FS_Subset

LEMMA RemoveKeeps ==
    ASSUME Parts, Kept, NEW n \in Names, RemoveOne(n)
    PROVE  /\ Cardinality({m \in imgs' : m > n}) >= purge.count
           /\ \A k \in purge.todo' : Cardinality(Above(k)') >= purge.count
  <1> USE Numbers
  <1>1. /\ n \in purge.todo /\ \A m \in purge.todo : m <= n
        /\ imgs' = imgs \ {n} /\ purge'.todo = purge.todo \ {n} /\ purge.ph = "rm"
    BY DEF RemoveOne, Parts, PurgeTypes
  <1>2. purge.todo \subseteq Names /\ imgs \subseteq Names /\ purge.count \in Nat
    BY DEF Parts, PurgeTypes, DiskTypes
  <1>3. {m \in imgs' : m > n} = Above(n)
    BY <1>1, <1>2 DEF Above, Names
  <1>4. Cardinality(Above(n)) >= purge.count
    BY <1>1 DEF Kept
  <1>5. ASSUME NEW k \in purge.todo' PROVE Cardinality(Above(k)') >= purge.count
    <2>1. k \in purge.todo /\ k < n /\ k \in Names
      BY <1>1, <1>2 DEF Names
    <2>2. Above(k)' \in SUBSET Names /\ Above(n) \in SUBSET Above(k)'
      <3>1. Above(k)' = {m \in imgs \ {n} : m > k}
        BY <1>1 DEF Above
      <3>2. imgs \subseteq Nat /\ n \in Nat /\ k \in Nat
        BY <1>2, <2>1 DEF Names
      <3>3. \A m \in Above(n) : m \in imgs \ {n} /\ m > k
        BY <2>1, <3>2 DEF Above
      <3> QED
        BY <1>2, <3>1, <3>3
    <2>3. Cardinality(Above(n)) <= Cardinality(Above(k)')
      BY <2>2, MoreAbove
    <2>4. Cardinality(Above(n)) \in Nat /\ Cardinality(Above(k)') \in Nat
      BY <2>2, Counted
    <2> QED
      BY <1>2, <1>4, <2>3, <2>4
  <1> QED
    BY <1>3, <1>4, <1>5

LEMMA KeptStep ==
    ASSUME Patient, Parts, Kept, [Next]_vars
    PROVE  Kept'
  <1>1. ASSUME NEW n \in Names, RemoveOne(n) PROVE Kept'
    <2>1. purge'.count = purge.count /\ UNCHANGED <<dlg, gone>> /\ purge'.ph = purge.ph
      BY <1>1 DEF RemoveOne, Parts, PurgeTypes
    <2> QED
      BY <1>1, <2>1, RemoveKeeps DEF Kept, RemoveOne
  <1>2. CASE ListPurge
    <2>1. CASE Purged(imgs, purge.count) = {}
      BY <1>2, <2>1 DEF ListPurge, NoPurge, Kept
    <2>2. CASE purge' = [purge EXCEPT !.ph = "rm", !.todo = Purged(imgs, purge.count)] /\ dlg' = dlg
      <3>1. purge'.todo = Purged(imgs, purge.count) /\ purge'.count = purge.count
        BY <2>2 DEF Parts, PurgeTypes
      <3>2. UNCHANGED <<imgs, gone>> /\ purge.ph = "ls"
        BY <1>2 DEF ListPurge
      <3> QED
        BY <2>2, <3>1, <3>2 DEF Kept, Purged, Above
    <2> QED
      BY <1>2, <2>1, <2>2 DEF ListPurge
  <1>3. CASE EndPurge
    BY <1>3 DEF EndPurge, NoPurge, Kept
  <1>4. CASE ConfirmPurge
    BY <1>4 DEF ConfirmPurge, Kept
  <1>5. CASE Deleted
    BY <1>5 DEF Deleted, Kept
  <1>6. CASE ConfirmDelete
    BY <1>6 DEF ConfirmDelete, Kept, Parts, DialogTypes
  <1>7. ASSUME NEW n \in Names, OpenDelete(n) PROVE Kept'
    BY <1>7 DEF OpenDelete, NoDialog, Idle, Kept
  <1>8. CASE OpenPurge
    BY <1>8 DEF OpenPurge, NoDialog, Idle, Kept
  <1>9. CASE Cancel
    BY <1>9 DEF Cancel, Idle, Kept, Parts, DialogTypes
  <1>10. CASE Patch
    BY <1>10 DEF Patch, NoDialog, Idle, Kept
  <1>11. ASSUME NEW p \in previews, ShowPreview(p) PROVE Kept'
    BY <1>11 DEF ShowPreview, Kept, Above, Parts, DialogTypes
  <1>12. CASE UNCHANGED <<imgs, dlg, purge, gone>>
    BY <1>12 DEF Kept, Above
  <1>13. \/ \E n \in Names : RemoveOne(n) \/ OpenDelete(n)
         \/ \E p \in previews : ShowPreview(p)
         \/ ListPurge \/ EndPurge \/ ConfirmPurge \/ Deleted \/ ConfirmDelete \/ OpenPurge \/ Cancel \/ Patch
         \/ UNCHANGED <<imgs, dlg, purge, gone>>
    BY DEF Next, Answers, User, Purging, vars, Refresh, List, Show, Type, ListPreview, AskPlan, PlanImage,
       PlanOwn, PlanOther, Decline, Unpatch
  <1> QED
    BY <1>1, <1>2, <1>3, <1>4, <1>5, <1>6, <1>7, <1>8, <1>9, <1>10, <1>11, <1>12, <1>13

LEMMA KeptInvariant == Patient => (Spec => [](Parts /\ Kept))
  <1> SUFFICES ASSUME Patient PROVE Spec => [](Parts /\ Kept)
    OBVIOUS
  <1>1. Init => Kept
    BY DEF Init, Kept, Closed, NoPurge
  <1>2. Parts /\ Kept /\ [Next]_vars => Kept'
    BY KeptStep
  <1> QED
    BY PartsInvariant, <1>1, <1>2, PTL DEF Spec

\* For a user who waits, a purge never removes an image that has fewer than N newer
\* ones beside it, N being the number in the field when it was confirmed, whatever
\* is typed while its commands run.
THEOREM NewestKept == Patient => (Spec => PurgeKeepsNewest)
  <1> SUFFICES ASSUME Patient PROVE Spec => PurgeKeepsNewest
    OBVIOUS
  <1>1. Parts /\ Kept /\ [Next]_vars =>
          [purge.ph = "rm" /\ purge.todo # purge.todo' =>
             \A n \in imgs \ imgs' : Cardinality({m \in imgs' : m > n}) >= purge.count]_vars
    <2> SUFFICES ASSUME Parts, Kept, [Next]_vars, purge.ph = "rm", purge.todo # purge.todo',
                        NEW k \in imgs \ imgs'
                 PROVE  Cardinality({m \in imgs' : m > k}) >= purge.count
      OBVIOUS
    <2>1. ASSUME NEW n \in Names, RemoveOne(n)
          PROVE  Cardinality({m \in imgs' : m > k}) >= purge.count
      <3>1. k = n
        BY <2>1 DEF RemoveOne
      <3> QED
        BY <2>1, <3>1, RemoveKeeps
    <2>2. CASE EndPurge
      BY <2>2 DEF EndPurge
    <2>3. \/ EndPurge \/ \E n \in Names : RemoveOne(n)
          \/ purge.ph # "rm" \/ purge.todo' = purge.todo
      BY DEF Next, Answers, User, Purging, vars, Refresh, List, Show, OpenDelete, ConfirmDelete, Deleted,
         OpenPurge, Type, ListPreview, ShowPreview, Cancel, ConfirmPurge, ListPurge, AskPlan, PlanImage,
         PlanOwn, PlanOther, Decline, Unpatch, Patch
    <2> QED
      BY <2>1, <2>2, <2>3
  <1> QED
    BY KeptInvariant, <1>1, PTL DEF Spec, PurgeKeepsNewest

----------------------------------------------------------------------------
\* The list is that of the images.

Reading(i) == fetches[i].ph # "free"
Beyond == last >= Old /\ \A n \in Names : n > last => cards[n] = 0
\* Nothing that removes images runs beside a refresh ...
Apart == dlg.mode # "closed" \/ gone # 0 \/ purge.ph # "none" => \A i \in 1 .. MaxFetches : ~Reading(i)
OneFetch == \A i, j \in 1 .. MaxFetches : Reading(i) /\ Reading(j) => i = j
\* ... so that it adds to an empty page what it has read, and this is still there.
Emptied == \A i \in 1 .. MaxFetches : Reading(i) => \A n \in Names : cards[n] = 0
GotIsTrue == \A i \in 1 .. MaxFetches : fetches[i].ph = "got" => fetches[i].got = imgs
CardIsRight(n) == cards[n] = (IF n \in imgs THEN 1 ELSE 0) \/ (n \in imgs /\ n > Old)
CardsAreRight ==
    /\ \A i \in 1 .. MaxFetches : ~Reading(i)
    /\ purge.ph # "rm"
    /\ \E n \in Names : cards[n] > 0
    => \A n \in 1 .. last : CardIsRight(n)
Current == Beyond /\ Apart /\ OneFetch /\ Emptied /\ GotIsTrue /\ CardsAreRight

LEMMA StartCurrent ==
    ASSUME Parts, Current, \A i \in 1 .. MaxFetches : ~Reading(i), Asked(fetches', cards'), last' = last,
           dlg'.mode = "closed", gone' = 0, purge'.ph = "none"
    PROVE  Current'
  <1>1. /\ cards' = [n \in Names |-> 0]
        /\ \E i \in 1 .. MaxFetches : fetches' = [fetches EXCEPT ![i] = [fetches[i] EXCEPT !.ph = "ls"]]
    BY DEF Asked, Parts, ListTypes, FetchTypes
  <1>2. PICK i \in 1 .. MaxFetches : fetches' = [fetches EXCEPT ![i] = [fetches[i] EXCEPT !.ph = "ls"]]
    BY <1>1
  <1>3. [fetches[i] EXCEPT !.ph = "ls"].ph = "ls"
    BY DEF Parts, ListTypes, FetchTypes
  <1>4. /\ fetches'[i].ph = "ls"
        /\ \A j \in (1 .. MaxFetches) \ {i} : fetches'[j].ph = "free"
    BY <1>2, <1>3 DEF Reading, Parts, ListTypes, FetchTypes
  <1>5. Beyond' /\ Apart' /\ Emptied'
    BY <1>1 DEF Current, Beyond, Apart, Emptied
  <1>6. OneFetch' /\ GotIsTrue' /\ CardsAreRight'
    BY <1>4 DEF OneFetch, GotIsTrue, CardsAreRight, Reading
  <1> QED
    BY <1>5, <1>6 DEF Current

LEMMA ShowCurrent ==
    ASSUME Parts, Current, NEW i \in 1 .. MaxFetches, Show(i)
    PROVE  Current'
  <1>1. /\ fetches[i].ph = "got" /\ fetches' = [fetches EXCEPT ![i] = [ph |-> "free", got |-> {}]]
        /\ cards' = [n \in Names |-> cards[n] + IF n \in fetches[i].got THEN 1 ELSE 0]
        /\ UNCHANGED <<imgs, last, dlg, purge, gone>>
    BY DEF Show
  <1>2. \A j \in 1 .. MaxFetches : fetches'[j].ph = "free"
    BY <1>1 DEF Current, OneFetch, Reading, Parts, ListTypes, FetchTypes
  <1>3. \A n \in Names : cards'[n] = IF n \in imgs THEN 1 ELSE 0
    <2>1. fetches[i].got = imgs /\ \A n \in Names : cards[n] = 0
      BY <1>1 DEF Current, GotIsTrue, Emptied, Reading
    <2> QED
      BY <1>1, <2>1
  <1>4. Beyond'
    <2>1. \A n \in imgs : n <= last
      BY DEF Parts, DiskTypes
    <2>2. last \in Nat /\ Names \subseteq Nat
      BY Numbers DEF Parts, DiskTypes, Names
    <2> QED
      BY <1>1, <1>3, <2>1, <2>2 DEF Current, Beyond
  <1>5. CardsAreRight'
    <2>1. 1 .. last \subseteq Names
      BY Numbers DEF Parts, DiskTypes, Names
    <2> QED
      BY <1>1, <1>3, <2>1 DEF CardsAreRight, CardIsRight
  <1>6. Apart' /\ OneFetch' /\ Emptied' /\ GotIsTrue'
    BY <1>2 DEF Apart, OneFetch, Emptied, GotIsTrue, Reading
  <1> QED
    BY <1>4, <1>5, <1>6 DEF Current

LEMMA ListCurrent ==
    ASSUME Parts, Current, NEW i \in 1 .. MaxFetches, List(i)
    PROVE  Current'
  <1>1. /\ fetches[i].ph = "ls" /\ fetches' = [fetches EXCEPT ![i] = [ph |-> "got", got |-> imgs]]
        /\ UNCHANGED <<imgs, last, cards, dlg, purge, gone>>
    BY DEF List
  <1>2. /\ fetches'[i] = [ph |-> "got", got |-> imgs]
        /\ \A j \in (1 .. MaxFetches) \ {i} : fetches'[j] = fetches[j]
    BY <1>1 DEF Parts, ListTypes, FetchTypes
  <1>3. \A j \in 1 .. MaxFetches : Reading(j)' <=> Reading(j)
    BY <1>1, <1>2 DEF Reading
  <1>4. Beyond' /\ Apart' /\ OneFetch' /\ Emptied' /\ CardsAreRight'
    BY <1>1, <1>3 DEF Current, Beyond, Apart, OneFetch, Emptied, CardsAreRight, CardIsRight
  <1>5. GotIsTrue'
    BY <1>1, <1>2 DEF Current, GotIsTrue
  <1> QED
    BY <1>4, <1>5 DEF Current

LEMMA PatchCurrent ==
    ASSUME Patient, Parts, Current, Patch
    PROVE  Current'
  <1>1. /\ \A i \in 1 .. MaxFetches : ~Reading(i)
        /\ last < Minutes /\ last' = last + 1 /\ UNCHANGED <<cards, fetches, dlg, purge, gone>>
        /\ imgs' = imgs \/ imgs' = imgs \cup {last + 1}
    BY DEF Patch, NoDialog, Fetching, Reading, Parts, ListTypes, FetchTypes
  <1>2. last \in Nat /\ Old \in Nat /\ Names \subseteq Nat /\ last >= Old
    BY Numbers DEF Parts, DiskTypes, Names, Current, Beyond
  <1>3. Beyond'
    BY <1>1, <1>2 DEF Current, Beyond
  <1>4. CardsAreRight'
    <2> SUFFICES ASSUME purge.ph # "rm", \E n \in Names : cards[n] > 0, NEW n \in 1 .. last'
                 PROVE  CardIsRight(n)'
      BY <1>1 DEF CardsAreRight
    <2>1. CASE n \in 1 .. last
      <3>1. CardIsRight(n)
        BY <1>1, <2>1 DEF Current, CardsAreRight
      <3>2. n # last + 1
        BY <1>2, <2>1
      <3> QED
        BY <1>1, <3>1, <3>2 DEF CardIsRight
    <2>2. CASE n = last + 1
      <3>1. n > Old /\ n > last /\ n \in Names
        BY <1>1, <1>2, <2>2, Numbers DEF Names
      <3>2. cards[n] = 0
        BY <3>1 DEF Current, Beyond
      <3> QED
        BY <1>1, <3>1, <3>2 DEF CardIsRight
    <2> QED
      BY <1>1, <1>2, <2>1, <2>2
  <1>5. Apart' /\ OneFetch' /\ Emptied' /\ GotIsTrue'
    BY <1>1 DEF Apart, OneFetch, Emptied, GotIsTrue, Reading
  <1> QED
    BY <1>3, <1>4, <1>5 DEF Current

LEMMA CurrentStep ==
    ASSUME Patient, Parts, Kept, Current, [Next]_vars
    PROVE  Current'
  <1> USE DEF Current
  <1>1. CASE Refresh
    <2>1. Idle /\ dlg.mode = "closed" /\ (\A i \in 1 .. MaxFetches : ~Reading(i)) /\ Asked(fetches', cards')
      BY <1>1 DEF Refresh, NoDialog, Fetching, Reading, Parts, ListTypes, FetchTypes
    <2>2. UNCHANGED <<last, dlg, gone, purge>>
      BY <1>1 DEF Refresh
    <2> QED
      BY <2>1, <2>2, StartCurrent DEF Idle
  <1>2. CASE Deleted
    <2>1. gone # 0 /\ gone' = 0 /\ Asked(fetches', cards') /\ UNCHANGED <<last, dlg, purge>>
      BY <1>2 DEF Deleted
    <2>2. dlg.mode = "closed" /\ purge.ph = "none" /\ \A i \in 1 .. MaxFetches : ~Reading(i)
      BY <2>1 DEF Kept, Apart
    <2> QED
      BY <2>1, <2>2, StartCurrent
  <1>3. CASE EndPurge
    <2>1. /\ purge.ph = "rm" /\ purge' = NoPurge /\ dlg' = [dlg EXCEPT !.mode = "closed"]
          /\ Asked(fetches', cards') /\ UNCHANGED <<last, gone>>
      BY <1>3 DEF EndPurge
    <2>2. gone = 0 /\ \A i \in 1 .. MaxFetches : ~Reading(i)
      BY <2>1 DEF Kept, Apart
    <2>3. dlg'.mode = "closed" /\ purge'.ph = "none"
      BY <2>1 DEF NoPurge, Parts, DialogTypes
    <2> QED
      BY <2>1, <2>2, <2>3, StartCurrent
  <1>4. ASSUME NEW i \in 1 .. MaxFetches, List(i) \/ Show(i) PROVE Current'
    BY <1>4, ListCurrent, ShowCurrent
  <1>5. CASE Patch
    BY <1>5, PatchCurrent
  <1>6. ASSUME NEW n \in Names, RemoveOne(n) PROVE Current'
    <2>1. /\ purge.ph = "rm" /\ purge'.ph = "rm" /\ UNCHANGED <<last, cards, fetches, dlg, gone>>
          /\ \A i \in 1 .. MaxFetches : ~Reading(i)
      BY <1>6 DEF RemoveOne, Apart, Parts, PurgeTypes
    <2> QED
      BY <2>1 DEF Beyond, Apart, OneFetch, Emptied, GotIsTrue, CardsAreRight, Reading
  \* What opens, closes or confirms, while no refresh is under way.
  <1>7. CASE /\ \A i \in 1 .. MaxFetches : ~Reading(i)
             /\ purge.ph = "rm" => purge'.ph = "rm"
             /\ UNCHANGED <<imgs, last, cards, fetches>>
    BY <1>7 DEF Beyond, Apart, OneFetch, Emptied, GotIsTrue, CardsAreRight, CardIsRight, Reading
  <1>8. ASSUME \/ \E n \in Names : OpenDelete(n)
               \/ ConfirmDelete \/ OpenPurge \/ Cancel \/ ConfirmPurge \/ ListPurge
        PROVE  Current'
    <2>1. UNCHANGED <<imgs, last, cards, fetches>> /\ (purge.ph = "rm" => purge' = purge)
      BY <1>8 DEF OpenDelete, ConfirmDelete, OpenPurge, Cancel, ConfirmPurge, ListPurge
    <2>2. \A i \in 1 .. MaxFetches : ~Reading(i)
      BY <1>8 DEF OpenDelete, ConfirmDelete, OpenPurge, Cancel, ConfirmPurge, ListPurge, NoDialog, Fetching,
         Reading, Apart, Parts, ListTypes, FetchTypes
    <2> QED
      BY <1>7, <2>1, <2>2
  <1>9. CASE dlg'.mode = dlg.mode /\ UNCHANGED <<imgs, last, cards, fetches, purge, gone>>
    BY <1>9 DEF Beyond, Apart, OneFetch, Emptied, GotIsTrue, CardsAreRight, CardIsRight, Reading
  <1>10. ASSUME NEW p \in previews, ShowPreview(p) PROVE Current'
    <2>1. dlg'.mode = dlg.mode /\ UNCHANGED <<imgs, last, cards, fetches, purge, gone>>
      BY <1>10 DEF ShowPreview, Parts, DialogTypes
    <2> QED
      BY <1>9, <2>1
  <1>11. \/ Refresh \/ Deleted \/ EndPurge \/ Patch
         \/ \E i \in 1 .. MaxFetches : List(i) \/ Show(i)
         \/ \E n \in Names : RemoveOne(n) \/ OpenDelete(n)
         \/ ConfirmDelete \/ OpenPurge \/ Cancel \/ ConfirmPurge \/ ListPurge
         \/ \E p \in previews : ShowPreview(p)
         \/ UNCHANGED <<imgs, last, cards, fetches, dlg, purge, gone>>
    BY DEF Next, Answers, User, Purging, vars, Type, ListPreview, AskPlan, PlanImage, PlanOwn, PlanOther,
       Decline, Unpatch
  <1> HIDE DEF Current
  <1> QED
    BY <1>1, <1>2, <1>3, <1>4, <1>5, <1>6, <1>8, <1>9, <1>10, <1>11

\* For a user who waits: a list that was shown after the last deletion has one card
\* for every image but those newer than Old, which a patch has taken since, and none
\* for an image that a deletion or a purge has removed.
THEOREM CardsAreCurrent == Patient => (Spec => []ListIsCurrent)
  <1> SUFFICES ASSUME Patient PROVE Spec => []ListIsCurrent
    OBVIOUS
  <1>1. Init => Current
    BY Numbers DEF Init, Current, Beyond, Apart, OneFetch, Emptied, GotIsTrue, CardsAreRight, Reading
  <1>2. Parts /\ Kept /\ Current /\ [Next]_vars => Current'
    BY CurrentStep
  <1>3. Parts /\ Current => ListIsCurrent
    BY DEF Parts, ListTypes, FetchTypes, Current, CardsAreRight, CardIsRight, Reading, ListIsCurrent, Idle,
       Fetching
  <1> QED
    BY KeptInvariant, <1>1, <1>2, <1>3, PTL DEF Spec

----------------------------------------------------------------------------
\* The preview is what the purge will do.

Unambiguous == \A p, q \in previews : p.id = q.id => p = q
\* While the dialog is open, and until the purge removes something, the images are
\* those that a preview has counted ...
CountedRight ==
    dlg.mode = "purge" /\ purge.ph # "rm" =>
        \A p \in previews : p.ls => p.n = Cardinality(Purged(imgs, p.count))
\* ... the last preview to be answered is of the number in the field ...
LastAsked ==
    dlg.mode = "purge" /\ previews # {} =>
        \E p \in previews : p.count = Count /\ \A q \in previews : q.id <= p.id
\* ... and its answer stays in the dialog.
Says(n) == dlg.text = (IF n = 0 THEN <<"none", 0>> ELSE <<"count", n>>) /\ (dlg.off <=> n = 0)
Answered ==
    dlg.mode = "purge" /\ purge.ph # "rm" /\ previews = {} => Says(Cardinality(Purged(imgs, Count)))
Foreseen == Unambiguous /\ CountedRight /\ LastAsked /\ Answered

LEMMA PreviewingForeseen ==
    ASSUME Parts, Foreseen, NEW k \in KeepValues, Previewing(k), keep' = k, imgs' = imgs,
           purge' = purge, dlg.mode = "purge" \/ previews = {}
    PROVE  Unambiguous' /\ LastAsked' /\ Answered' /\ (dlg'.mode = "purge" => CountedRight')
  <1>1. PICK id \in 1 .. MaxPreviews :
          /\ \A p \in previews : p.id < id
          /\ previews' = previews \cup {[id |-> id, n |-> 0, ls |-> FALSE, count |-> IF k = 0 THEN 3 ELSE k]}
    BY DEF Previewing
  <1> DEFINE new == [id |-> id, n |-> 0, ls |-> FALSE, count |-> IF k = 0 THEN 3 ELSE k]
  <1>2. new.id = id /\ ~new.ls /\ new.count = Count'
    BY DEF Count
  <1>3. \A p \in previews : p.id \in Nat
    BY Numbers DEF Parts, PreviewTypes
  <1>4. new \in previews' /\ \A p \in previews' : p \in previews \/ p = new
    BY <1>1
  <1> HIDE DEF new
  <1>5. \A p \in previews' : p.id <= new.id
    BY <1>1, <1>2, <1>3, <1>4, Numbers
  <1>6. Unambiguous'
    BY <1>1, <1>2, <1>3, <1>4, Numbers DEF Foreseen, Unambiguous
  <1>7. LastAsked' /\ Answered'
    BY <1>2, <1>4, <1>5 DEF LastAsked, Answered
  <1>8. CountedRight'
    BY <1>2, <1>4 DEF Foreseen, CountedRight
  <1> QED
    BY <1>6, <1>7, <1>8

LEMMA ListPreviewForeseen ==
    ASSUME Parts, Foreseen, NEW p \in previews, ListPreview(p)
    PROVE  Foreseen'
  <1> DEFINE new == [p EXCEPT !.ls = TRUE, !.n = Cardinality(Purged(imgs, p.count))]
  <1>1. previews' = (previews \ {p}) \cup {new} /\ UNCHANGED <<imgs, dlg, keep, purge>>
    BY DEF ListPreview
  <1>2. new.id = p.id /\ new.count = p.count /\ new.n = Cardinality(Purged(imgs, p.count))
    BY DEF Parts, PreviewTypes
  <1>3. new \in previews' /\ \A q \in previews' : (q \in previews /\ q # p) \/ q = new
    BY <1>1
  <1>4. \A q \in previews : q = p \/ q \in previews'
    BY <1>1
  <1> HIDE DEF new
  <1>5. Unambiguous'
    BY <1>2, <1>3 DEF Foreseen, Unambiguous
  <1>6. CountedRight'
    BY <1>1, <1>2, <1>3 DEF Foreseen, CountedRight
  <1>7. LastAsked'
    <2> SUFFICES ASSUME dlg.mode = "purge"
                 PROVE  \E q \in previews' : q.count = Count /\ \A r \in previews' : r.id <= q.id
      BY <1>1 DEF LastAsked, Count
    <2>1. PICK q \in previews : q.count = Count /\ \A r \in previews : r.id <= q.id
      BY DEF Foreseen, LastAsked
    <2>2. \A r \in previews' : r.id <= q.id
      BY <1>2, <1>3, <2>1
    <2>3. CASE q = p
      BY <1>2, <1>3, <2>1, <2>2, <2>3
    <2>4. CASE q # p
      BY <1>4, <2>1, <2>2, <2>4
    <2> QED
      BY <2>3, <2>4
  <1>8. Answered'
    BY <1>3 DEF Answered
  <1> QED
    BY <1>5, <1>6, <1>7, <1>8 DEF Foreseen

LEMMA ShowPreviewForeseen ==
    ASSUME Patient, Parts, Foreseen, NEW p \in previews, ShowPreview(p)
    PROVE  Foreseen'
  <1>1. /\ p.ls /\ (\A q \in previews : p.id <= q.id)
        /\ previews' = previews \ {p} /\ UNCHANGED <<imgs, keep, purge>>
        /\ dlg' = [dlg EXCEPT !.text = IF p.n = 0 THEN <<"none", 0>> ELSE <<"count", p.n>>, !.off = (p.n = 0)]
    BY DEF ShowPreview
  <1>2. \A t, o : /\ [dlg EXCEPT !.text = t, !.off = o].mode = dlg.mode
                  /\ [dlg EXCEPT !.text = t, !.off = o].text = t
                  /\ [dlg EXCEPT !.text = t, !.off = o].off = o
    BY DEF Parts, DialogTypes
  <1>3. dlg'.mode = dlg.mode /\ Says(p.n)'
    <2> DEFINE t == IF p.n = 0 THEN <<"none", 0>> ELSE <<"count", p.n>>
               o == (p.n = 0)
    <2>1. dlg' = [dlg EXCEPT !.text = t, !.off = o]
      BY <1>1
    <2>2. dlg'.mode = dlg.mode /\ dlg'.text = t /\ dlg'.off = o
      <3> HIDE DEF t, o
      <3> QED
        BY <1>2, <2>1, Zenon
    <2> QED
      BY <2>2, Zenon DEF Says
  <1>4. Unambiguous' /\ CountedRight'
    BY <1>1, <1>3 DEF Foreseen, Unambiguous, CountedRight
  <1>5. \A q \in previews : q.id \in Nat
    BY Numbers DEF Parts, PreviewTypes
  <1>6. ASSUME dlg.mode = "purge", NEW q \in previews, \A r \in previews : r.id <= q.id, q = p
        PROVE  previews' = {}
    <2>1. \A r \in previews : r.id = p.id
      BY <1>1, <1>5, <1>6
    <2> QED
      BY <1>1, <2>1 DEF Foreseen, Unambiguous
  <1>7. LastAsked'
    <2> SUFFICES ASSUME dlg.mode = "purge", previews' # {}
                 PROVE  \E q \in previews' : q.count = Count /\ \A r \in previews' : r.id <= q.id
      BY <1>1, <1>3 DEF LastAsked, Count
    <2>1. PICK q \in previews : q.count = Count /\ \A r \in previews : r.id <= q.id
      BY DEF Foreseen, LastAsked
    <2>2. q # p
      BY <1>6, <2>1
    <2> QED
      BY <1>1, <2>1, <2>2
  <1>8. Answered'
    <2> SUFFICES ASSUME dlg.mode = "purge", purge.ph # "rm", previews' = {}
                 PROVE  Says(Cardinality(Purged(imgs, Count)))'
      BY <1>1, <1>3 DEF Answered
    <2>1. p.count = Count /\ Count' = Count
      BY <1>1 DEF Foreseen, LastAsked, Count
    <2>2. p.n = Cardinality(Purged(imgs, Count))
      BY <1>1, <2>1 DEF Foreseen, CountedRight
    <2>3. Cardinality(Purged(imgs, Count))' = p.n
      BY <1>1, <2>1, <2>2 DEF Purged
    <2> QED
      BY <1>3, <2>3, Zenon DEF Says
  <1> QED
    BY <1>4, <1>7, <1>8 DEF Foreseen

LEMMA ForeseenStep ==
    ASSUME Patient, Parts, Kept, Foreseen, [Next]_vars
    PROVE  Foreseen'
  <1>1. CASE OpenPurge
    <2>1. Idle /\ Previewing(keep) /\ UNCHANGED <<imgs, keep, purge>> /\ dlg' = [dlg EXCEPT !.mode = "purge", !.target = 0]
      BY <1>1 DEF OpenPurge, NoDialog
    <2>2. dlg'.mode = "purge" /\ keep \in KeepValues
      BY <2>1 DEF Parts, DialogTypes, PreviewTypes
    <2> QED
      BY <2>1, <2>2, PreviewingForeseen DEF Foreseen, Idle
  <1>2. ASSUME NEW k \in KeepValues, Type(k) PROVE Foreseen'
    BY <1>2, PreviewingForeseen DEF Type, Foreseen
  <1>3. ASSUME NEW p \in previews, ListPreview(p) \/ ShowPreview(p) PROVE Foreseen'
    BY <1>3, ListPreviewForeseen, ShowPreviewForeseen
  <1>4. CASE dlg'.mode # "purge" /\ previews' = previews
    BY <1>4 DEF Foreseen, Unambiguous, CountedRight, LastAsked, Answered
  <1>5. CASE purge'.ph = "rm" /\ UNCHANGED <<dlg, keep, previews>>
    BY <1>5 DEF Foreseen, Unambiguous, CountedRight, LastAsked, Answered, Count
  <1>6. CASE /\ UNCHANGED <<imgs, dlg, keep, previews>>
             /\ purge.ph = "rm" => purge'.ph = "rm"
    BY <1>6 DEF Foreseen, Unambiguous, CountedRight, LastAsked, Answered, Count, Says, Purged
  <1>7. ASSUME NEW n \in Names, OpenDelete(n) PROVE Foreseen'
    BY <1>4, <1>7 DEF OpenDelete, Parts, DialogTypes
  <1>8. CASE ConfirmDelete \/ Cancel \/ EndPurge
    BY <1>4, <1>8 DEF ConfirmDelete, Cancel, EndPurge, Parts, DialogTypes
  <1>9. CASE Deleted
    BY <1>4, <1>9 DEF Deleted, Kept
  <1>10. CASE Patch
    BY <1>4, <1>10 DEF Patch, NoDialog
  <1>11. ASSUME NEW n \in Names, RemoveOne(n) PROVE Foreseen'
    BY <1>5, <1>11 DEF RemoveOne, Parts, PurgeTypes
  <1>12. CASE ListPurge
    BY <1>4, <1>5, <1>12 DEF ListPurge, Parts, PurgeTypes, DialogTypes
  <1>13. CASE ConfirmPurge
    BY <1>6, <1>13 DEF ConfirmPurge
  <1>14. CASE UNCHANGED <<imgs, dlg, keep, previews, purge>>
    BY <1>6, <1>14
  <1>15. \/ OpenPurge \/ \E k \in KeepValues : Type(k)
         \/ \E p \in previews : ListPreview(p) \/ ShowPreview(p)
         \/ \E n \in Names : RemoveOne(n) \/ OpenDelete(n)
         \/ ConfirmDelete \/ Cancel \/ EndPurge \/ Deleted \/ Patch \/ ListPurge \/ ConfirmPurge
         \/ UNCHANGED <<imgs, dlg, keep, previews, purge>>
    BY DEF Next, Answers, User, Purging, vars, Refresh, List, Show, AskPlan, PlanImage, PlanOwn, PlanOther,
       Decline, Unpatch
  <1> QED
    BY <1>1, <1>2, <1>3, <1>7, <1>8, <1>9, <1>10, <1>11, <1>12, <1>13, <1>14, <1>15

\* For a user who waits: with all previews answered, the dialog says how many images
\* the purge would remove, and can be confirmed exactly when there are any.
THEOREM PreviewHolds == Patient => (Spec => []PreviewIsTrue)
  <1> SUFFICES ASSUME Patient PROVE Spec => []PreviewIsTrue
    OBVIOUS
  <1>1. Init => Foreseen
    BY DEF Init, Closed, Foreseen, Unambiguous, CountedRight, LastAsked, Answered
  <1>2. Parts /\ Kept /\ Foreseen /\ [Next]_vars => Foreseen'
    BY ForeseenStep
  <1>3. Foreseen => PreviewIsTrue
    BY DEF Foreseen, Answered, Says, PreviewIsTrue, Idle
  <1> QED
    BY KeptInvariant, <1>1, <1>2, <1>3, PTL DEF Spec
===========================================================================
