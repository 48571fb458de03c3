------------------------ MODULE ExcludeSync_proofs ------------------------
(***************************************************************************)
(* Theorems about ExcludeSync, for any installed entries, files from other *)
(* devices and numbers of flips, refreshes and reboots.                    *)
(***************************************************************************)
EXTENDS ExcludeSync, FiniteSetTheorems, TLAPS

Got == {NoFile} \cup SUBSET (IF ksu THEN {FullUid(e) : e \in Entries} ELSE Keys)

ListTypes ==
    /\ ksu \in BOOLEAN /\ visible \in BOOLEAN
    /\ list \subseteq Entries /\ shown \subseteq Installed /\ byList \subseteq Entries
    /\ profile \in {NoProfile} \cup SUBSET Entries /\ csv \subseteq Keys
SaveTypes == timers \subseteq Timer /\ saves \subseteq Save
DiskTypes == file \in {NoFile} \cup SUBSET Keys /\ todo \subseteq Keys
KernelTypes ==
    /\ calls \subseteq [uid : {e.uid : e \in Installed}, on : BOOLEAN]
    /\ excl \subseteq {e.uid : e \in Installed}
    /\ allow \subseteq {FullUid(e) : e \in Entries}
RefreshTypes == refs \in [Slots -> Refresh]
Counters == toggles \in 0 .. MaxToggles /\ boots \in 0 .. MaxBoots
Types == ListTypes /\ SaveTypes /\ DiskTypes /\ KernelTypes /\ RefreshTypes /\ Counters

----------------------------------------------------------------------------
\* Entries and lines.

LEMMA Bounds == MaxToggles \in Nat /\ MaxRefreshes \in Nat /\ MaxBoots \in Nat
  BY BoundAssumption

LEMMA MainOf ==
    ASSUME NEW e \in Entries
    PROVE  Main(e) \in Keys /\ Main(e).uid = e.uid /\ Main(e).user = 0
  <1>1. ASSUME NEW x \in Installed \cup Foreign
        PROVE  Main(x) = [pkg |-> x.pkg, uid |-> x.uid, user |-> 0]
    <2>1. x = [pkg |-> x.pkg, uid |-> x.uid, user |-> x.user]
      BY EntryAssumption
    <2> QED
      BY <2>1 DEF Main
  <1>2. CASE e \in Installed
    BY <1>1, <1>2 DEF Keys, Mains
  <1>3. CASE e \in Foreign
    <2>1. e.user = 0 /\ e = [pkg |-> e.pkg, uid |-> e.uid, user |-> e.user]
      BY <1>3, EntryAssumption
    <2>2. Main(e) = e
      BY <1>1, <1>3, <2>1
    <2> QED
      BY <1>3, <2>1, <2>2 DEF Keys
  <1>4. CASE e \in Mains(Installed)
    <2>1. PICK x \in Installed : e = [pkg |-> x.pkg, uid |-> x.uid, user |-> 0]
      BY <1>1, <1>4 DEF Mains
    <2>2. Main(e) = e
      BY <2>1 DEF Main
    <2> QED
      BY <1>4, <2>1, <2>2 DEF Keys
  <1> QED
    BY <1>2, <1>3, <1>4 DEF Entries, Keys

\* A line is its own main entry.
LEMMA MainOfLine ==
    ASSUME NEW m \in Keys
    PROVE  Main(m) = m
  <1>1. CASE m \in Foreign
    <2>1. m.user = 0 /\ m = [pkg |-> m.pkg, uid |-> m.uid, user |-> m.user]
      BY <1>1, EntryAssumption
    <2> QED
      BY <2>1 DEF Main
  <1>2. CASE m \in Mains(Installed)
    <2>1. PICK x \in Installed : m = Main(x)
      BY <1>2 DEF Mains
    <2>2. x = [pkg |-> x.pkg, uid |-> x.uid, user |-> x.user]
      BY EntryAssumption
    <2> QED
      BY <2>1, <2>2 DEF Main
  <1> QED
    BY <1>1, <1>2 DEF Keys

LEMMA MainsOf ==
    ASSUME NEW S \in SUBSET Entries
    PROVE  Mains(S) \in SUBSET Keys
  BY MainOf DEF Mains

\* A list of lines is a set, not a missing file or profile.
LEMMA LinesAreThere ==
    ASSUME NEW S \in SUBSET Keys
    PROVE  S # NoFile
  BY NoneAssumption DEF Entries

LEMMA UidOf ==
    ASSUME NEW e \in Entries
    PROVE  <<e.uid, 0>> \in {FullUid(x) : x \in Entries}
  <1>1. Main(e) \in Entries
    BY MainOf DEF Entries
  <1>2. <<e.uid, 0>> = FullUid(Main(e))
    BY MainOf DEF FullUid
  <1> QED
    BY <1>1, <1>2

LEMMA UidOfGroup ==
    ASSUME NEW m \in Keys, Group(m) # {}
    PROVE  m.uid \in {e.uid : e \in Installed}
  <1>1. PICK e \in Installed : Main(e) = m
    BY DEF Group
  <1> QED
    BY <1>1, MainOf DEF Entries

LEMMA GenType == Gen \in 0 .. MaxRefreshes
  <1>1. IsFiniteSet(Slots) /\ Cardinality(Slots) = MaxRefreshes
    BY FS_Interval, Bounds DEF Slots
  <1>2. \A S \in SUBSET Slots : IsFiniteSet(S) /\ Cardinality(S) <= MaxRefreshes /\ Cardinality(S) \in Nat
    BY <1>1, FS_Subset, FS_CardinalityType
  <1> QED
    BY <1>2, Bounds DEF Gen

\* What a refresh lists.
LEMMA ListedTypes ==
    ASSUME ListTypes, NEW got \in Got
    PROVE  Listed(got) \in SUBSET Entries
  <1>1. \A m \in Keys : Expand(m) \in SUBSET Entries
    BY DEF Expand, Group, Entries
  <1>2. CASE ksu
    BY <1>2 DEF Listed, Entries
  <1>3. CASE ~ksu /\ got = NoFile
    BY <1>3 DEF Listed, ListTypes
  <1>4. CASE ~ksu /\ got # NoFile
    BY <1>1, <1>4 DEF Listed, Got
  <1> QED
    BY <1>2, <1>3, <1>4

\* The lines of the list that a file gives are those of the file.
LEMMA ListedLines ==
    ASSUME ~ksu, NEW got \in SUBSET Keys
    PROVE  Mains(Listed(got)) = got
  <1>1. \A m \in Keys : Mains(Expand(m)) = {m}
    BY MainOfLine DEF Mains, Expand, Group
  <1>2. Listed(got) = UNION {Expand(m) : m \in got}
    BY LinesAreThere DEF Listed
  <1>3. \A k : k \in Mains(Listed(got)) <=> \E m \in got : k \in Mains(Expand(m))
    BY <1>2 DEF Mains
  <1> QED
    BY <1>1, <1>3

----------------------------------------------------------------------------
\* Types.

LEMMA Cases ==
    ASSUME [Next]_vars
    PROVE  \/ \E e \in Installed : Toggle(e)
           \/ \E t \in timers : TimerFires(t)
           \/ \E s \in saves : SaveLands(s)
           \/ \E c \in calls : CallLands(c)
           \/ \E r \in Slots : \/ RefreshFails(r) \/ ReadList(r) \/ Render(r) \/ Applied(r)
                               \/ StartRefresh(r)
                               \/ visible /\ Apply(r, list \cup csv)
                               \/ visible /\ profile # NoProfile /\ Apply(r, profile)
           \/ \E m \in todo : Replay(m)
           \/ SaveProfile \/ DeleteProfile \/ Export \/ Reboot
           \/ UNCHANGED vars
  BY DEF Next, System, User, Under, Import, LoadProfile

LEMMA ListTypesStep ==
    ASSUME ListTypes, RefreshTypes, [Next]_vars
    PROVE  ListTypes'
  <1> USE DEF ListTypes
  <1>1. ASSUME NEW e \in Installed, Toggle(e) PROVE ListTypes'
    <2>1. Group(Main(e)) \subseteq Installed /\ Installed \subseteq Entries
      BY DEF Group, Entries
    <2> QED
      BY <1>1, <2>1 DEF Toggle, disk
  <1>2. ASSUME NEW r \in Slots, Render(r) PROVE ListTypes'
    <2>1. refs[r].got \in Got
      BY DEF RefreshTypes, Refresh, Got
    <2>2. Listed(refs[r].got) \in SUBSET Entries
      BY <2>1, ListedTypes
    <2> QED
      BY <1>2, <2>2 DEF Render, disk
  <1>3. ASSUME NEW r \in Slots, NEW S \in SUBSET Entries, Apply(r, S) PROVE ListTypes'
    BY <1>3 DEF Apply, disk
  <1>4. list \cup csv \in SUBSET Entries /\ (profile # NoProfile => profile \in SUBSET Entries)
    BY DEF Entries
  <1>5. CASE Export
    BY <1>5, MainsOf DEF Export, page
  <1>6. CASE SaveProfile \/ DeleteProfile \/ Reboot
    BY <1>6 DEF SaveProfile, DeleteProfile, Reboot, page
  <1>7. ASSUME NEW r \in Slots, RefreshFails(r) \/ ReadList(r) \/ Applied(r) \/ StartRefresh(r)
        PROVE  ListTypes'
    BY <1>7 DEF RefreshFails, ReadList, Applied, StartRefresh, page, disk
  <1>8. ASSUME NEW t \in timers, TimerFires(t) PROVE ListTypes'
    BY <1>8 DEF TimerFires, disk
  <1>9. ASSUME NEW s \in saves, SaveLands(s) PROVE ListTypes'
    BY <1>9 DEF SaveLands
  <1>10. ASSUME NEW c \in calls, CallLands(c) PROVE ListTypes'
    BY <1>10 DEF CallLands, disk
  <1>11. ASSUME NEW m \in todo, Replay(m) PROVE ListTypes'
    BY <1>11 DEF Replay, page, disk
  <1>12. CASE UNCHANGED vars
    BY <1>12 DEF vars
  <1> HIDE DEF ListTypes
  <1> QED
    BY <1>1, <1>2, <1>3, <1>4, <1>5, <1>6, <1>7, <1>8, <1>9, <1>10, <1>11, <1>12, Cases

\* A new write is well-formed, and so is a new timer.
LEMMA SavingTypes ==
    ASSUME SaveTypes, NEW i \in Ids, NEW S \in SUBSET Entries, Saving(i, S)
    PROVE  saves' \subseteq Save
  BY MainsOf DEF SaveTypes, Saving, Save

LEMMA SaveTypesStep ==
    ASSUME ListTypes, SaveTypes, RefreshTypes, [Next]_vars
    PROVE  SaveTypes'
  <1>1. ASSUME NEW e \in Installed, Toggle(e) PROVE SaveTypes'
    <2>1. {s.id : s \in saves} \subseteq Ids
      BY DEF SaveTypes, Save
    <2>2. Main(e) \in Keys
      BY MainOf DEF Entries
    <2>3. [key |-> Main(e), gen |-> Gen, after |-> {s.id : s \in saves}] \in Timer
      BY <2>1, <2>2, GenType DEF Timer
    <2>4. timers' \subseteq timers \cup {[key |-> Main(e), gen |-> Gen, after |-> {s.id : s \in saves}]}
      BY <1>1 DEF Toggle
    <2> QED
      BY <1>1, <2>3, <2>4 DEF SaveTypes, Toggle
  <1>2. ASSUME NEW t \in timers, TimerFires(t) PROVE SaveTypes'
    <2>1. saves' \subseteq Save
      BY <1>2, SavingTypes DEF TimerFires, ListTypes
    <2> QED
      BY <1>2, <2>1 DEF TimerFires, SaveTypes
  <1>3. ASSUME NEW s \in saves, SaveLands(s) PROVE SaveTypes'
    <2>1. \A t \in Timer : [t EXCEPT !.after = @ \ {s.id}] \in Timer
      BY DEF Timer
    <2> QED
      BY <1>3, <2>1 DEF SaveLands, SaveTypes
  <1>4. ASSUME NEW r \in Slots, Render(r) PROVE SaveTypes'
    <2>1. refs[r].got \in Got
      BY DEF RefreshTypes, Refresh, Got
    <2>2. Listed(refs[r].got) \in SUBSET Entries
      BY <2>1, ListedTypes
    <2>3. saves' \subseteq Save
      BY <1>4, <2>2, SavingTypes DEF Render, SaveTypes
    <2> QED
      BY <1>4, <2>3 DEF Render, SaveTypes
  <1>5. ASSUME NEW r \in Slots, NEW S \in SUBSET Entries, Apply(r, S) PROVE SaveTypes'
    <2>1. saves' \subseteq Save
      BY <1>5, SavingTypes DEF Apply
    <2> QED
      BY <1>5, <2>1 DEF Apply, SaveTypes
  <1>6. list \cup csv \in SUBSET Entries /\ (profile # NoProfile => profile \in SUBSET Entries)
    BY DEF Entries, ListTypes
  <1>7. CASE Reboot
    BY <1>7 DEF Reboot, SaveTypes
  <1>8. CASE UNCHANGED <<timers, saves>>
    BY <1>8 DEF SaveTypes
  <1>9. \/ \E e \in Installed : Toggle(e)
        \/ \E t \in timers : TimerFires(t)
        \/ \E s \in saves : SaveLands(s)
        \/ \E r \in Slots : \/ Render(r)
                            \/ visible /\ Apply(r, list \cup csv)
                            \/ visible /\ profile # NoProfile /\ Apply(r, profile)
        \/ Reboot \/ UNCHANGED <<timers, saves>>
    BY Cases DEF CallLands, RefreshFails, ReadList, Applied, StartRefresh, Replay, SaveProfile,
       DeleteProfile, Export, page, vars
  <1> QED
    BY <1>1, <1>2, <1>3, <1>4, <1>5, <1>6, <1>7, <1>8, <1>9

LEMMA DiskTypesStep ==
    ASSUME SaveTypes, DiskTypes, [Next]_vars
    PROVE  DiskTypes'
  <1>1. ASSUME NEW s \in saves, SaveLands(s) PROVE DiskTypes'
    <2>1. s.list \in SUBSET Keys
      BY DEF SaveTypes, Save
    <2> QED
      BY <1>1, <2>1 DEF SaveLands, DiskTypes
  <1>2. CASE Reboot
    BY <1>2 DEF Reboot, DiskTypes
  <1>3. ASSUME NEW m \in todo, Replay(m) PROVE DiskTypes'
    BY <1>3 DEF Replay, disk, DiskTypes
  <1>4. CASE UNCHANGED <<file, todo>>
    BY <1>4 DEF DiskTypes
  <1>5. \/ \E s \in saves : SaveLands(s)
        \/ Reboot
        \/ \E m \in todo : Replay(m)
        \/ UNCHANGED <<file, todo>>
    BY Cases DEF Toggle, TimerFires, CallLands, RefreshFails, ReadList, Render, Applied, StartRefresh,
       Apply, SaveProfile, DeleteProfile, Export, disk, vars
  <1> QED
    BY <1>1, <1>2, <1>3, <1>4, <1>5

LEMMA KernelTypesStep ==
    ASSUME KernelTypes, DiskTypes, [Next]_vars
    PROVE  KernelTypes'
  <1>1. ASSUME NEW e \in Installed, Toggle(e) PROVE KernelTypes'
    <2>1. [uid |-> e.uid, on |-> e \notin shown] \in [uid : {x.uid : x \in Installed}, on : BOOLEAN]
      BY Zenon
    <2>2. /\ calls' = calls \cup {[uid |-> e.uid, on |-> e \notin shown]}
          /\ UNCHANGED <<excl, allow>>
      BY <1>1, Zenon DEF Toggle
    <2> QED
      BY <2>1, <2>2 DEF KernelTypes
  <1>2. ASSUME NEW c \in calls, CallLands(c) PROVE KernelTypes'
    <2>1. PICK e \in Installed : c.uid = e.uid
      BY DEF KernelTypes
    <2>2. <<c.uid, 0>> \in {FullUid(x) : x \in Entries} /\ c.uid \in {x.uid : x \in Installed}
      BY <2>1, UidOf DEF Entries
    <2>3. /\ calls' \subseteq calls
          /\ excl' \subseteq excl \cup {c.uid}
          /\ allow' \subseteq allow \cup {<<c.uid, 0>>}
      BY <1>2 DEF CallLands
    <2> QED
      BY <2>2, <2>3 DEF KernelTypes
  <1>3. ASSUME NEW m \in todo, Replay(m) PROVE KernelTypes'
    <2>1. Group(m) = {} \/ m.uid \in {e.uid : e \in Installed}
      BY UidOfGroup DEF DiskTypes
    <2> QED
      BY <1>3, <2>1 DEF Replay, page, KernelTypes
  <1>4. CASE Reboot
    BY <1>4 DEF Reboot, KernelTypes
  <1>5. CASE UNCHANGED <<calls, excl, allow>>
    BY <1>5 DEF KernelTypes
  <1>6. \/ \E e \in Installed : Toggle(e)
        \/ \E c \in calls : CallLands(c)
        \/ \E m \in todo : Replay(m)
        \/ Reboot \/ UNCHANGED <<calls, excl, allow>>
    BY Cases DEF TimerFires, SaveLands, RefreshFails, ReadList, Render, Applied, StartRefresh,
       Apply, SaveProfile, DeleteProfile, Export, page, vars
  <1> QED
    BY <1>1, <1>2, <1>3, <1>4, <1>5, <1>6

LEMMA SameSystem == [Next]_vars => ksu' = ksu
  <1> SUFFICES ASSUME [Next]_vars PROVE ksu' = ksu
    OBVIOUS
  <1> QED
    BY Cases DEF Toggle, TimerFires, SaveLands, CallLands, RefreshFails, ReadList, Render, Applied,
       StartRefresh, Apply, Replay, SaveProfile, DeleteProfile, Export, Reboot, vars

Phases == {"free", "saving", "listing", "read", "done"}

LEMMA FreeTypes ==
    ASSUME NEW ph \in Phases
    PROVE  [ph |-> ph, save |-> 0, got |-> NoFile] \in Refresh
  BY DEF Refresh, Phases

LEMMA RefreshTypesStep ==
    ASSUME RefreshTypes, DiskTypes, KernelTypes, [Next]_vars
    PROVE  RefreshTypes'
  <1>0. Refresh' = Refresh
    <2>1. ksu' = ksu
      BY SameSystem
    <2> QED
      BY <2>1, Zenon DEF Refresh
  <1>1. ASSUME NEW r \in Slots, NEW x \in Refresh, refs' = [refs EXCEPT ![r] = x] PROVE RefreshTypes'
    BY <1>0, <1>1 DEF RefreshTypes
  <1>3. ASSUME NEW r \in Slots, StartRefresh(r) \/ Applied(r) PROVE RefreshTypes'
    <2>1. [refs[r] EXCEPT !.ph = "listing"] \in Refresh
      BY DEF RefreshTypes, Refresh
    <2>2. refs' = [refs EXCEPT ![r] = [refs[r] EXCEPT !.ph = "listing"]]
      BY <1>3 DEF StartRefresh, Applied, RefreshTypes
    <2> QED
      BY <1>1, <2>1, <2>2
  <1>4. ASSUME NEW r \in Slots, RefreshFails(r) \/ Render(r) PROVE RefreshTypes'
    <2>1. refs' = [refs EXCEPT ![r] = [ph |-> "done", save |-> 0, got |-> NoFile]]
      BY <1>4 DEF RefreshFails, Render, Free
    <2>2. [ph |-> "done", save |-> 0, got |-> NoFile] \in Refresh
      BY FreeTypes DEF Phases
    <2> QED
      BY <1>1, <2>1, <2>2
  <1>5. ASSUME NEW r \in Slots, ReadList(r) PROVE RefreshTypes'
    <2>1. (IF ksu THEN allow ELSE file) \in Got
      BY DEF Got, KernelTypes, DiskTypes
    <2>2. \A x \in Got : [refs[r] EXCEPT !.ph = "read", !.got = x] \in Refresh
      BY DEF Got, RefreshTypes, Refresh
    <2>3. refs' = [refs EXCEPT ![r] = [refs[r] EXCEPT !.ph = "read", !.got = IF ksu THEN allow ELSE file]]
      BY <1>5 DEF ReadList, RefreshTypes
    <2> QED
      BY <1>1, <2>1, <2>2, <2>3
  <1>6. ASSUME NEW r \in Slots, NEW S, Apply(r, S) PROVE RefreshTypes'
    <2>1. PICK i \in Ids : refs' = [refs EXCEPT ![r] = [@ EXCEPT !.ph = "saving", !.save = i]]
      BY <1>6 DEF Apply
    <2>2. [refs[r] EXCEPT !.ph = "saving", !.save = i] \in Refresh
      BY DEF RefreshTypes, Refresh
    <2> QED
      BY <1>1, <2>1, <2>2 DEF RefreshTypes
  <1>7. ASSUME NEW s \in saves, SaveLands(s) PROVE RefreshTypes'
    <2>1. \A r \in Slots : [refs[r] EXCEPT !.save = 0] \in Refresh
      BY DEF RefreshTypes, Refresh
    <2> QED
      BY <1>0, <1>7, <2>1 DEF SaveLands, RefreshTypes
  <1>8. CASE Reboot
    <2>1. [ph |-> "done", save |-> 0, got |-> NoFile] \in Refresh
      BY FreeTypes DEF Phases
    <2>2. refs' = [r \in Slots |-> IF Active(r) THEN [ph |-> "done", save |-> 0, got |-> NoFile] ELSE refs[r]]
      BY <1>8 DEF Reboot, Free
    <2> QED
      BY <1>0, <2>1, <2>2 DEF RefreshTypes
  <1>9. CASE UNCHANGED refs
    BY <1>0, <1>9 DEF RefreshTypes
  <1>10. \/ \E r \in Slots : \/ RefreshFails(r) \/ ReadList(r) \/ Render(r) \/ Applied(r) \/ StartRefresh(r)
                             \/ Apply(r, list \cup csv) \/ Apply(r, profile)
         \/ \E s \in saves : SaveLands(s)
         \/ Reboot \/ UNCHANGED refs
    BY Cases DEF Toggle, TimerFires, CallLands, Replay, SaveProfile, DeleteProfile, Export, vars
  <1> QED
    BY <1>3, <1>4, <1>5, <1>6, <1>7, <1>8, <1>9, <1>10

LEMMA CountersStep ==
    ASSUME Counters, [Next]_vars
    PROVE  Counters'
  <1> USE Bounds DEF Counters
  <1>1. ASSUME NEW e \in Installed, Toggle(e) PROVE Counters'
    BY <1>1 DEF Toggle
  <1>2. CASE Reboot
    BY <1>2 DEF Reboot
  <1>3. CASE UNCHANGED <<toggles, boots>>
    BY <1>3
  <1>4. \/ \E e \in Installed : Toggle(e)
        \/ Reboot \/ UNCHANGED <<toggles, boots>>
    BY Cases DEF TimerFires, SaveLands, CallLands, RefreshFails, ReadList, Render, Applied,
       StartRefresh, Apply, Replay, SaveProfile, DeleteProfile, Export, vars
  <1> QED
    BY <1>1, <1>2, <1>3, <1>4

LEMMA InitTypes == Init => Types
  <1> SUFFICES ASSUME Init PROVE Types
    OBVIOUS
  <1>1. ksu \in BOOLEAN
    BY DEF Init, Detect
  <1>2. ListTypes
    BY <1>1 DEF Init, ListTypes, Keys
  <1>3. SaveTypes /\ DiskTypes /\ KernelTypes
    BY DEF Init, SaveTypes, DiskTypes, KernelTypes
  <1>4. RefreshTypes
    <2>1. Free \in Refresh
      BY FreeTypes DEF Free, Phases
    <2> QED
      BY <2>1 DEF Init, RefreshTypes
  <1>5. Counters
    BY Bounds DEF Init, Counters
  <1> QED
    BY <1>2, <1>3, <1>4, <1>5 DEF Types

LEMMA TypesStep == Types /\ [Next]_vars => Types'
  BY ListTypesStep, SaveTypesStep, DiskTypesStep, KernelTypesStep, RefreshTypesStep, CountersStep DEF Types

LEMMA TypesInvariant == Spec => []Types
  BY InitTypes, TypesStep, PTL DEF Spec

\* Page, files, kernel and allowlist keep their types; in particular the file and
\* the kernel never learn of an entry that no line can name.
THEOREM TypeCorrect == Spec => []TypeOK
  <1>1. Types => TypeOK
    BY DEF Types, ListTypes, SaveTypes, DiskTypes, KernelTypes, RefreshTypes, Counters, TypeOK
  <1> QED
    BY TypesInvariant, <1>1, PTL

----------------------------------------------------------------------------
\* The file follows the list.

Unique == \A s, u \in saves : s.id = u.id => s = u
OneRefresh == \A r, q \in Slots : Active(r) /\ Active(q) => r = q
\* What a patient user leaves alone while a refresh or an import is under way: no
\* timer is pending, no write but the import's own, and the file is as it was read.
Undisturbed ==
    \A r \in Slots :
        /\ Active(r) => timers = {}
        /\ refs[r].ph \in {"listing", "read"} => saves = {}
        /\ refs[r].ph = "saving" => \A s \in saves : s.id = refs[r].save
        /\ refs[r].ph = "read" /\ ~ksu => refs[r].got = file
\* A write of an older list is followed by that of a timer that waits for it.
Covered == \A s \in saves : s.list = Mains(list) \/ \E t \in timers : s.id \in t.after
Pending == timers # {} \/ saves # {}
FileOfList ==
    ~ksu => /\ visible => file = Mains(list) \/ (file = NoFile /\ list = {}) \/ Pending
            /\ file = NoFile => list = {} \/ Pending
Flow == Unique /\ OneRefresh /\ Undisturbed /\ Covered /\ FileOfList

\* The id of a new write is no other's.
LEMMA SavingUnique ==
    ASSUME Unique, NEW i \in Ids, NEW S, Saving(i, S)
    PROVE  Unique'
  BY DEF Unique, Saving, IsNewId

\* A refresh that goes from one phase to another is still the only one.
LEMMA OneRefreshStep ==
    ASSUME RefreshTypes, OneRefresh, NEW r \in Slots, NEW x,
           Active(r) \/ \A q \in Slots : ~Active(q),
           refs' = [refs EXCEPT ![r] = x]
    PROVE  OneRefresh'
  BY DEF OneRefresh, Active, RefreshTypes

LEMMA ToggleFlow ==
    ASSUME Patient, Types, Flow, NEW e \in Installed, Toggle(e)
    PROVE  Flow'
  <1>1. \A r \in Slots : ~Active(r)
    BY DEF Toggle
  <1> DEFINE new == [key |-> Main(e), gen |-> Gen, after |-> {s.id : s \in saves}]
  <1>2. new \in timers' /\ new.after = {s.id : s \in saves}
    BY DEF Toggle
  <1> HIDE DEF new
  <1>3. UNCHANGED <<saves, refs, file, ksu>>
    BY DEF Toggle, disk
  <1>4. Unique' /\ OneRefresh'
    BY <1>3 DEF Flow, Unique, OneRefresh, Active
  <1>5. Undisturbed'
    BY <1>1, <1>3 DEF Undisturbed, Active
  <1>6. Covered'
    BY <1>2, <1>3 DEF Covered
  <1>7. FileOfList'
    BY <1>2 DEF FileOfList, Pending
  <1> QED
    BY <1>4, <1>5, <1>6, <1>7 DEF Flow

LEMMA TimerFlow ==
    ASSUME Patient, Types, Flow, NEW t \in timers, TimerFires(t)
    PROVE  Flow'
  <1>1. \A r \in Slots : ~Active(r)
    BY DEF Flow, Undisturbed
  <1>2. PICK i \in Ids : Saving(i, list)
    BY DEF TimerFires
  <1>3. saves' = saves \cup {[id |-> i, list |-> Mains(list)]}
    BY <1>2 DEF Saving
  <1>4. t.after = {} /\ timers' = timers \ {t} /\ UNCHANGED <<refs, file, ksu, list>>
    BY DEF TimerFires, disk
  <1>5. Unique'
    BY <1>2, SavingUnique DEF Flow
  <1>6. OneRefresh' /\ Undisturbed'
    BY <1>1, <1>4 DEF OneRefresh, Undisturbed, Active
  <1>7. Covered'
    BY <1>3, <1>4 DEF Flow, Covered
  <1>8. FileOfList'
    BY <1>3 DEF FileOfList, Pending
  <1> QED
    BY <1>5, <1>6, <1>7, <1>8 DEF Flow

LEMMA LandFlow ==
    ASSUME Patient, Types, Flow, NEW s \in saves, SaveLands(s)
    PROVE  Flow'
  <1>1. /\ saves' = saves \ {s} /\ file' = s.list /\ UNCHANGED <<ksu, list, visible>>
        /\ timers' = {[t EXCEPT !.after = @ \ {s.id}] : t \in timers}
        /\ refs' = [r \in Slots |-> IF refs[r].ph = "saving" /\ refs[r].save = s.id
                                    THEN [refs[r] EXCEPT !.save = 0] ELSE refs[r]]
    BY DEF SaveLands
  <1>2. \A r \in Slots : refs'[r].ph = refs[r].ph /\ (Active(r)' <=> Active(r))
    BY <1>1 DEF Types, RefreshTypes, Refresh, Active
  <1>3. Unique' /\ OneRefresh'
    BY <1>1, <1>2 DEF Flow, Unique, OneRefresh
  <1>4. Undisturbed'
    <2> SUFFICES ASSUME NEW r \in Slots
                 PROVE  /\ Active(r)' => timers' = {}
                        /\ refs'[r].ph \in {"listing", "read"} => saves' = {}
                        /\ refs'[r].ph = "saving" => \A u \in saves' : u.id = refs'[r].save
                        /\ refs'[r].ph = "read" /\ ~ksu' => refs'[r].got = file'
      BY DEF Undisturbed
    <2>1. /\ Active(r) => timers = {}
          /\ refs[r].ph \notin {"listing", "read"}
          /\ refs[r].ph = "saving" => \A u \in saves : u.id = refs[r].save
      BY DEF Flow, Undisturbed
    <2>2. refs[r].ph = "saving" => saves' = {}
      BY <1>1, <2>1 DEF Flow, Unique
    <2> QED
      BY <1>1, <1>2, <2>1, <2>2
  <1>5. Covered'
    <2> SUFFICES ASSUME NEW u \in saves', u.list # Mains(list) PROVE \E t \in timers' : u.id \in t.after
      BY <1>1 DEF Covered
    <2>1. u \in saves /\ u.id # s.id
      BY <1>1 DEF Flow, Unique
    <2>2. PICK t \in timers : u.id \in t.after
      BY <2>1 DEF Flow, Covered
    <2>3. t \in Timer
      BY DEF Types, SaveTypes
    <2>4. u.id \in [t EXCEPT !.after = @ \ {s.id}].after
      BY <2>1, <2>2, <2>3 DEF Timer
    <2> QED
      BY <1>1, <2>4
  <1>6. FileOfList'
    <2>1. s.list \in SUBSET Keys
      BY DEF Types, SaveTypes, Save
    <2>2. file' # NoFile
      BY <1>1, <2>1, LinesAreThere
    <2>3. timers # {} => timers' # {}
      BY <1>1
    <2>4. s.list = Mains(list) \/ timers # {}
      BY DEF Flow, Covered
    <2> QED
      BY <1>1, <2>2, <2>3, <2>4 DEF FileOfList, Pending
  <1> QED
    BY <1>3, <1>4, <1>5, <1>6 DEF Flow

LEMMA FreeDone == [Free EXCEPT !.ph = "done"] = [ph |-> "done", save |-> 0, got |-> NoFile]
  BY DEF Free

LEMMA RenderFlow ==
    ASSUME Patient, Types, Flow, NEW r \in Slots, Render(r)
    PROVE  Flow'
  <1> DEFINE got == refs[r].got
  <1>1. /\ refs[r].ph = "read" /\ Active(r)
        /\ refs' = [refs EXCEPT ![r] = [ph |-> "done", save |-> 0, got |-> NoFile]]
        /\ list' = Listed(got) /\ UNCHANGED <<ksu, timers, file>>
    <2>1. refs' = [refs EXCEPT ![r] = [ph |-> "done", save |-> 0, got |-> NoFile]]
      BY FreeDone DEF Render
    <2> QED
      BY <2>1 DEF Render, Active, disk
  <1>2. timers = {} /\ saves = {} /\ (~ksu => got = file)
    BY <1>1 DEF Flow, Undisturbed
  <1>3. \A q \in Slots : ~Active(q)' /\ refs'[q].ph \notin {"saving", "listing", "read"}
    BY <1>1 DEF Flow, OneRefresh, Active, Types, RefreshTypes
  <1>4. saves' = {} \/ \E i \in Ids : saves' = {[id |-> i, list |-> Mains(list')]}
    BY <1>1, <1>2 DEF Render, Saving
  <1>5. Unique' /\ OneRefresh' /\ Undisturbed'
    BY <1>3, <1>4 DEF Unique, OneRefresh, Undisturbed
  <1>6. Covered'
    BY <1>4 DEF Covered
  <1>7. FileOfList'
    <2>1. ~ksu /\ file # NoFile => file = Mains(list')
      BY <1>1, <1>2, ListedLines DEF Types, DiskTypes
    <2>2. ~ksu /\ file = NoFile => list' = {}
      BY <1>1, <1>2 DEF Listed, Flow, FileOfList, Pending
    <2> QED
      BY <1>1, <2>1, <2>2 DEF FileOfList
  <1> QED
    BY <1>5, <1>6, <1>7 DEF Flow

LEMMA ApplyFlow ==
    ASSUME Patient, Types, Flow, NEW r \in Slots, NEW S \in SUBSET Entries, Apply(r, S)
    PROVE  Flow'
  <1>1. saves = {} /\ timers = {} /\ \A q \in Slots : ~Active(q)
    BY DEF Apply, Waits, Quiet, Settled
  <1>2. PICK i \in Ids : /\ saves' = saves \cup {[id |-> i, list |-> Mains(S)]}
                         /\ refs' = [refs EXCEPT ![r] = [@ EXCEPT !.ph = "saving", !.save = i]]
    BY DEF Apply, Saving
  <1>3. list' = S /\ UNCHANGED <<timers, file, ksu>>
    BY DEF Apply, disk
  <1>4. /\ refs'[r].ph = "saving" /\ refs'[r].save = i
        /\ \A q \in Slots \ {r} : refs'[q] = refs[q]
    BY <1>2 DEF Types, RefreshTypes, Refresh
  <1>5. Unique'
    BY <1>1, <1>2 DEF Unique
  <1>6. OneRefresh'
    BY <1>1, <1>4 DEF OneRefresh, Active
  <1>7. Undisturbed'
    BY <1>1, <1>2, <1>3, <1>4 DEF Undisturbed, Active
  <1>8. Covered'
    BY <1>1, <1>2, <1>3 DEF Covered
  <1>9. FileOfList'
    BY <1>2 DEF FileOfList, Pending
  <1> QED
    BY <1>5, <1>6, <1>7, <1>8, <1>9 DEF Flow

\* What the steps of a refresh make of it before it is shown.
LEMMA RefreshPhase ==
    ASSUME RefreshTypes, NEW r \in Slots,
           StartRefresh(r) \/ RefreshFails(r) \/ ReadList(r) \/ Applied(r)
    PROVE  \E x : /\ refs' = [refs EXCEPT ![r] = x]
                  /\ x.ph \in {"listing", "read", "done"}
                  /\ x.ph = "read" => x.got = IF ksu THEN allow ELSE file
  <1>1. CASE StartRefresh(r) \/ Applied(r)
    <2>1. refs' = [refs EXCEPT ![r] = [refs[r] EXCEPT !.ph = "listing"]]
      BY <1>1 DEF StartRefresh, Applied, RefreshTypes
    <2>2. [refs[r] EXCEPT !.ph = "listing"].ph = "listing"
      BY DEF RefreshTypes, Refresh
    <2> QED
      BY <2>1, <2>2
  <1>2. CASE RefreshFails(r)
    <2>1. refs' = [refs EXCEPT ![r] = [ph |-> "done", save |-> 0, got |-> NoFile]]
      BY <1>2, FreeDone DEF RefreshFails
    <2>2. [ph |-> "done", save |-> 0, got |-> NoFile].ph = "done"
      OBVIOUS
    <2> QED
      BY <2>1, <2>2
  <1>3. CASE ReadList(r)
    <2>1. refs' = [refs EXCEPT ![r] = [refs[r] EXCEPT !.ph = "read", !.got = IF ksu THEN allow ELSE file]]
      BY <1>3 DEF ReadList, RefreshTypes
    <2>2. \A g : /\ [refs[r] EXCEPT !.ph = "read", !.got = g].ph = "read"
                 /\ [refs[r] EXCEPT !.ph = "read", !.got = g].got = g
      BY DEF RefreshTypes, Refresh
    <2> QED
      BY <2>1, <2>2
  <1> QED
    BY <1>1, <1>2, <1>3

\* The steps of a refresh before it is shown.
LEMMA RefreshFlow ==
    ASSUME Patient, Types, Flow, NEW r \in Slots,
           StartRefresh(r) \/ RefreshFails(r) \/ ReadList(r) \/ Applied(r)
    PROVE  Flow'
  <1>1. UNCHANGED <<ksu, list, timers, saves, file>> /\ (visible' => visible)
    BY DEF StartRefresh, RefreshFails, ReadList, Applied, page, disk
  <1>2. Unique' /\ Covered' /\ FileOfList'
    BY <1>1 DEF Flow, Unique, Covered, FileOfList, Pending
  <1>3. Active(r) \/ (timers = {} /\ saves = {} /\ \A q \in Slots : ~Active(q))
    BY DEF StartRefresh, RefreshFails, ReadList, Applied, Active, Waits, Quiet, Settled
  <1>4. timers = {} /\ saves = {}
    <2>1. CASE Applied(r)
      <3>1. \A s \in saves : s.id = 0 /\ s.id \in Ids
        BY <2>1 DEF Applied, Flow, Undisturbed, Types, SaveTypes, Save
      <3> QED
        BY <1>3, <3>1, Bounds DEF Flow, Undisturbed, Ids
    <2>2. CASE ~Applied(r)
      BY <1>3, <2>2 DEF StartRefresh, RefreshFails, ReadList, Flow, Undisturbed, Waits, Quiet, Settled
    <2> QED
      BY <2>1, <2>2
  <1>5. PICK x : /\ refs' = [refs EXCEPT ![r] = x]
                 /\ x.ph \in {"listing", "read", "done"}
                 /\ x.ph = "read" /\ ~ksu => x.got = file
    BY RefreshPhase DEF Types
  <1>6. OneRefresh'
    BY <1>3, <1>5, OneRefreshStep DEF Flow, Types
  <1>7. Undisturbed'
    BY <1>1, <1>4, <1>5 DEF Flow, Undisturbed, Types, RefreshTypes
  <1> QED
    BY <1>2, <1>6, <1>7 DEF Flow

LEMMA RebootFlow ==
    ASSUME Types, Flow, Reboot
    PROVE  Flow'
  <1>1. list' = {} /\ visible' = FALSE /\ timers' = {} /\ saves' = {}
    BY DEF Reboot
  <1>2. \A r \in Slots : refs'[r].ph \notin {"saving", "listing", "read"}
    BY DEF Reboot, Active, Free, Types, RefreshTypes
  <1> QED
    BY <1>1, <1>2 DEF Flow, Unique, OneRefresh, Undisturbed, Covered, FileOfList, Active

LEMMA FlowStep ==
    ASSUME Patient, Types, Flow, [Next]_vars
    PROVE  Flow'
  <1>1. CASE UNCHANGED <<ksu, list, visible, timers, saves, file, refs>>
    BY <1>1 DEF Flow, Unique, OneRefresh, Undisturbed, Covered, FileOfList, Pending, Active
  <1>2. list \cup csv \in SUBSET Entries /\ (profile # NoProfile => profile \in SUBSET Entries)
    BY DEF Types, ListTypes, Entries
  <1>3. \/ \E c \in calls : CallLands(c)
        \/ \E m \in todo : Replay(m)
        \/ SaveProfile \/ DeleteProfile \/ Export \/ UNCHANGED vars
        => UNCHANGED <<ksu, list, visible, timers, saves, file, refs>>
    BY DEF CallLands, Replay, SaveProfile, DeleteProfile, Export, page, disk, vars
  <1> QED
    BY <1>1, <1>2, <1>3, ToggleFlow, TimerFlow, LandFlow, RenderFlow, ApplyFlow, RefreshFlow, RebootFlow,
       Cases

LEMMA FlowInvariant == Patient => (Spec => [](Types /\ Flow))
  <1> SUFFICES ASSUME Patient PROVE Spec => [](Types /\ Flow)
    OBVIOUS
  <1>1. Init => Flow
    BY DEF Init, Flow, Unique, OneRefresh, Undisturbed, Covered, FileOfList, Active, Free
  <1>2. Types /\ Flow /\ [Next]_vars => Flow'
    BY FlowStep
  <1> QED
    BY TypesInvariant, <1>1, <1>2, PTL DEF Spec

\* For a user who waits: when nothing is under way, package_config has the entries
\* of the page's list. No save is lost or overtaken, whatever the order in which
\* timers and writes end.
THEOREM FileFollows == Patient => (Spec => []FileFollowsList)
  <1> SUFFICES ASSUME Patient PROVE Spec => []FileFollowsList
    OBVIOUS
  <1>1. Flow => FileFollowsList
    BY DEF Flow, FileOfList, Pending, FileFollowsList, Quiet, Settled
  <1> QED
    BY FlowInvariant, <1>1, PTL

----------------------------------------------------------------------------
\* The switches tell the truth.

Own == {e \in Installed : OwnUid(e)}
Lines(f) == IF f = NoFile THEN {} ELSE f
Called(e) == \E c \in calls : c.uid = e.uid
CalledOn(e) == \E c \in calls : c.uid = e.uid /\ c.on
\* What the kernel does with an app once it has been told everything.
Told(e) == CalledOn(e) \/ (~Called(e) /\ (Main(e) \in todo \/ e.uid \in excl))
Allowed(e) == CalledOn(e) \/ (~Called(e) /\ FullUid(e) \notin allow)

OneCall == \A c, d \in calls : c.uid = d.uid => c = d
NoCallInReplay == calls # {} => todo = {}
RefreshAlone ==
    \A r \in Slots :
        /\ Active(r) => calls = {} /\ todo = {}
        /\ refs[r].ph \in {"listing", "read"} => ~visible
        /\ refs[r].ph = "read" /\ ksu => refs[r].got = allow
\* With switches on the screen, the list has no line that stands for other entries.
WholeGroups ==
    visible /\ (\A r \in Slots : ~Active(r)) =>
        \A y \in list : y \in Installed \/ Group(Main(y)) = {}
Calm == OneCall /\ NoCallInReplay /\ RefreshAlone /\ WholeGroups
KsuTruth == ksu /\ visible => \A e \in Own : e.user = 0 => (e \in shown <=> Allowed(e))
\* The page's list, and the file once everything is saved, say what the kernel is told.
SureOf(e) ==
    /\ ~Pending => (Main(e) \in Lines(file) <=> Told(e))
    /\ Pending \/ visible => (Main(e) \in Mains(list) <=> Told(e))
    /\ visible => (e \in shown <=> Main(e) \in Mains(list))
KernelTruth == ~ksu => \A e \in Own \ byList : SureOf(e)
Honest == Calm /\ KsuTruth /\ KernelTruth

LEMMA GroupOf ==
    ASSUME NEW x \in Installed
    PROVE  /\ \A e \in Installed : e \in Group(Main(x)) <=> Main(e) = Main(x)
           /\ \A e \in Group(Main(x)) : Main(e) = Main(x) /\ e.uid = x.uid
           /\ \A e \in Own : e.uid = x.uid => Main(e) = Main(x)
  <1>1. \A e \in Installed : Main(e).uid = e.uid
    BY MainOf DEF Entries
  <1> QED
    BY <1>1 DEF Group, Own, OwnUid

\* An installed entry is listed when its line is in the file.
LEMMA ListedHas ==
    ASSUME ~ksu, NEW got \in SUBSET Keys, NEW e \in Installed
    PROVE  e \in Listed(got) <=> Main(e) \in got
  <1>1. Listed(got) = UNION {Expand(m) : m \in got}
    BY LinesAreThere DEF Listed
  <1>2. ASSUME Main(e) \in got PROVE e \in Listed(got)
    <2>1. e \in Group(Main(e))
      BY DEF Group
    <2>2. e \in Expand(Main(e))
      BY <2>1 DEF Expand
    <2> QED
      BY <1>1, <1>2, <2>2
  <1>3. ASSUME NEW m \in got, e \in Expand(m) PROVE Main(e) = m
    <2>1. CASE Group(m) = {}
      BY <1>3, <2>1, MainOfLine DEF Expand
    <2>2. CASE Group(m) # {}
      BY <1>3, <2>2 DEF Expand, Group
    <2> QED
      BY <2>1, <2>2
  <1> QED
    BY <1>1, <1>2, <1>3

LEMMA ListedGroups ==
    ASSUME NEW got \in Got, got # NoFile \/ ksu, NEW y \in Listed(got)
    PROVE  y \in Installed \/ Group(Main(y)) = {}
  <1>1. CASE ksu
    BY <1>1 DEF Listed
  <1>2. CASE ~ksu
    <2>1. PICK m \in Keys : y \in Expand(m)
      BY <1>2 DEF Listed, Got
    <2>2. CASE Group(m) = {}
      BY <2>1, <2>2, MainOfLine DEF Expand
    <2>3. CASE Group(m) # {}
      BY <2>1, <2>3 DEF Expand, Group
    <2> QED
      BY <2>2, <2>3
  <1> QED
    BY <1>1, <1>2

LEMMA ToggleHonest ==
    ASSUME Patient, Types, Flow, Honest, NEW x \in Installed, Toggle(x)
    PROVE  Honest'
  <1> DEFINE on == x \notin shown
             new == [uid |-> x.uid, on |-> on]
             group == Group(Main(x))
  <1>1. /\ visible /\ visible' = visible /\ todo = {} /\ (\A r \in Slots : ~Active(r))
        /\ \A c \in calls : c.uid # x.uid
        /\ UNCHANGED <<ksu, refs, excl, allow, todo, file>>
    BY DEF Toggle, disk
  <1>2. /\ list' = IF on THEN list \cup group ELSE list \ group
        /\ shown' = IF on THEN shown \cup group ELSE shown \ group
        /\ byList' = byList \ group
    BY DEF Toggle
  <1>3. calls' = calls \cup {new}
    BY Zenon DEF Toggle
  <1>4. new.uid = x.uid /\ (new.on <=> on)
    BY Zenon
  <1>5. Pending'
    BY DEF Toggle, Pending
  <1>6. \A e \in Installed : e \in group <=> Main(e) = Main(x)
    BY GroupOf
  <1>7. \A e \in group : e \in Installed /\ Main(e) = Main(x) /\ e.uid = x.uid
    BY GroupOf DEF Group
  <1>8. \A e \in Own : e.uid = x.uid => e \in group
    BY GroupOf DEF Own
  <1>9. \A y \in list : y \in Installed \/ Group(Main(y)) = {}
    BY <1>1 DEF Honest, Calm, WholeGroups
  <1>10. ASSUME NEW e \in Own, e \notin group
         PROVE  (Called(e)' <=> Called(e)) /\ (CalledOn(e)' <=> CalledOn(e))
    <2>1. new.uid # e.uid
      BY <1>4, <1>8, <1>10
    <2> HIDE DEF new
    <2> QED
      BY <1>3, <2>1 DEF Called, CalledOn
  <1>11. \A e \in group : Called(e)' /\ (CalledOn(e)' <=> on)
    <2> SUFFICES ASSUME NEW e \in group
                 PROVE  Called(e)' /\ (CalledOn(e)' <=> on)
      OBVIOUS
    <2>1. new.uid = e.uid /\ \A c \in calls : c.uid # e.uid
      BY <1>1, <1>4, <1>7
    <2> HIDE DEF new, on
    <2> QED
      BY <1>3, <1>4, <2>1 DEF Called, CalledOn
  <1> HIDE DEF on, new, group
  <1>12. Calm'
    <2>1. OneCall'
      BY <1>1, <1>3, <1>4 DEF Honest, Calm, OneCall
    <2>2. NoCallInReplay' /\ RefreshAlone'
      BY <1>1 DEF NoCallInReplay, RefreshAlone, Active
    <2>3. WholeGroups'
      BY <1>2, <1>7, <1>9 DEF WholeGroups
    <2> QED
      BY <2>1, <2>2, <2>3 DEF Calm
  <1>13. KsuTruth'
    <2> SUFFICES ASSUME ksu, NEW e \in Own, e.user = 0
                 PROVE  e \in shown' <=> Allowed(e)'
      BY <1>1 DEF KsuTruth
    <2>1. CASE e \in group
      BY <1>2, <1>11, <2>1 DEF Allowed
    <2>2. CASE e \notin group
      <3>1. (Called(e)' <=> Called(e)) /\ (CalledOn(e)' <=> CalledOn(e))
        BY <1>10, <2>2
      <3>2. Allowed(e)' <=> Allowed(e)
        BY <1>1, <3>1 DEF Allowed
      <3>3. e \in shown <=> Allowed(e)
        BY <1>1 DEF Honest, KsuTruth
      <3> QED
        BY <1>2, <2>2, <3>2, <3>3
    <2> QED
      BY <2>1, <2>2
  <1>14. KernelTruth'
    <2> SUFFICES ASSUME ~ksu, NEW e \in Own, e \notin byList'
                 PROVE  SureOf(e)'
      BY <1>1 DEF KernelTruth
    <2>1. CASE e \in group
      <3>1. e \in shown' <=> on
        BY <1>2, <2>1
      <3>2. Told(e)' <=> on
        BY <1>11, <2>1 DEF Told
      <3>3. Main(e) \in Mains(list') <=> on
        <4>1. CASE on
          BY <1>2, <2>1, <4>1 DEF Mains
        <4>2. CASE ~on
          <5>1. ASSUME NEW y \in list \ group, Main(y) = Main(e) PROVE FALSE
            <6>1. Main(e) = Main(x) /\ x \in group
              BY <1>6, <1>7, <2>1
            <6>2. CASE y \in Installed
              BY <1>6, <5>1, <6>1, <6>2
            <6>3. CASE Group(Main(y)) = {}
              BY <5>1, <6>1, <6>3 DEF Group
            <6> QED
              BY <1>9, <6>2, <6>3
          <5> QED
            BY <1>2, <4>2, <5>1 DEF Mains
        <4> QED
          BY <4>1, <4>2
      <3> QED
        BY <1>1, <1>5, <3>1, <3>2, <3>3 DEF SureOf
    <2>2. CASE e \notin group
      <3>1. e \notin byList /\ (e \in shown' <=> e \in shown)
        BY <1>2, <2>2
      <3>2. Main(e) \in Mains(list') <=> Main(e) \in Mains(list)
        <4>1. \A y \in group : Main(y) # Main(e)
          BY <1>6, <1>7, <2>2 DEF Own
        <4> QED
          BY <1>2, <4>1 DEF Mains
      <3>3. Told(e)' <=> Told(e)
        <4>1. (Called(e)' <=> Called(e)) /\ (CalledOn(e)' <=> CalledOn(e))
          BY <1>10, <2>2
        <4> QED
          BY <1>1, <4>1 DEF Told
      <3>4. SureOf(e)
        BY <3>1 DEF Honest, KernelTruth
      <3> QED
        BY <1>1, <1>5, <3>1, <3>2, <3>3, <3>4 DEF SureOf
    <2> QED
      BY <2>1, <2>2
  <1> QED
    BY <1>12, <1>13, <1>14 DEF Honest

LEMMA TimerHonest ==
    ASSUME Types, Flow, Honest, NEW t \in timers, TimerFires(t)
    PROVE  Honest'
  <1>1. UNCHANGED <<ksu, list, shown, visible, calls, file, excl, allow, refs, todo, byList>>
    BY DEF TimerFires, disk
  <1>2. Pending /\ Pending'
    BY DEF Pending, TimerFires, Saving
  <1>3. Calm' /\ KsuTruth'
    BY <1>1 DEF Honest, Calm, OneCall, NoCallInReplay, RefreshAlone, WholeGroups, Active, KsuTruth, Allowed,
       Called, CalledOn
  <1>4. KernelTruth'
    BY <1>1, <1>2 DEF Honest, KernelTruth, SureOf, Told, Called, CalledOn
  <1> QED
    BY <1>3, <1>4 DEF Honest

LEMMA LandHonest ==
    ASSUME Types, Flow, Honest, NEW s \in saves, SaveLands(s)
    PROVE  Honest'
  <1>1. /\ saves' = saves \ {s} /\ file' = s.list
        /\ UNCHANGED <<ksu, list, shown, visible, calls, excl, allow, todo, byList>>
        /\ timers' = {[t EXCEPT !.after = @ \ {s.id}] : t \in timers}
        /\ refs' = [r \in Slots |-> IF refs[r].ph = "saving" /\ refs[r].save = s.id
                                    THEN [refs[r] EXCEPT !.save = 0] ELSE refs[r]]
    BY DEF SaveLands
  <1>2. \A r \in Slots : /\ refs'[r].ph = refs[r].ph /\ (Active(r)' <=> Active(r))
                         /\ refs[r].ph = "read" => refs'[r].got = refs[r].got
    BY <1>1 DEF Types, RefreshTypes, Refresh, Active
  <1>3. Calm'
    <2>1. OneCall' /\ NoCallInReplay'
      BY <1>1 DEF Honest, Calm, OneCall, NoCallInReplay
    <2>2. RefreshAlone'
      BY <1>1, <1>2 DEF Honest, Calm, RefreshAlone
    <2>3. WholeGroups'
      BY <1>1, <1>2 DEF Honest, Calm, WholeGroups
    <2> QED
      BY <2>1, <2>2, <2>3 DEF Calm
  <1>4. KsuTruth'
    BY <1>1 DEF Honest, KsuTruth, Allowed, Called, CalledOn
  <1>5. KernelTruth'
    <2> SUFFICES ASSUME ~ksu, NEW e \in Own, e \notin byList PROVE SureOf(e)'
      BY <1>1 DEF KernelTruth
    <2>1. SureOf(e) /\ Pending
      BY DEF Honest, KernelTruth, Pending
    <2>2. Told(e)' <=> Told(e)
      BY <1>1 DEF Told, Called, CalledOn
    <2>3. ~Pending' => Lines(file') = Mains(list)
      <3>1. timers # {} => timers' # {}
        BY <1>1
      <3>2. s.list = Mains(list) \/ timers # {}
        BY DEF Flow, Covered
      <3>3. s.list # NoFile
        BY LinesAreThere DEF Types, SaveTypes, Save
      <3> QED
        BY <1>1, <3>1, <3>2, <3>3 DEF Pending, Lines
    <2> QED
      BY <1>1, <2>1, <2>2, <2>3 DEF SureOf
  <1> QED
    BY <1>3, <1>4, <1>5 DEF Honest

LEMMA CallHonest ==
    ASSUME Types, Flow, Honest, NEW c \in calls, CallLands(c)
    PROVE  Honest'
  <1>1. /\ calls' = calls \ {c} /\ UNCHANGED <<ksu, list, shown, visible, timers, saves, file, refs, todo, byList>>
        /\ excl' = IF ksu THEN excl ELSE IF c.on THEN excl \cup {c.uid} ELSE excl \ {c.uid}
        /\ allow' = IF ~ksu THEN allow ELSE IF c.on THEN allow \ {<<c.uid, 0>>}
                                            ELSE allow \cup {<<c.uid, 0>>}
    BY DEF CallLands, disk
  <1>2. todo = {} /\ \A r \in Slots : ~Active(r)
    BY DEF Honest, Calm, NoCallInReplay, RefreshAlone
  <1>3. \A d \in calls : d.uid = c.uid => d = c
    BY DEF Honest, Calm, OneCall
  <1>4. Calm'
    BY <1>1, <1>2 DEF Honest, Calm, OneCall, NoCallInReplay, RefreshAlone, WholeGroups, Active
  <1>5. ASSUME NEW e \in Own, e.uid # c.uid
        PROVE  (Called(e)' <=> Called(e)) /\ (CalledOn(e)' <=> CalledOn(e))
    BY <1>1, <1>5 DEF Called, CalledOn
  <1>6. ASSUME NEW e \in Own, e.uid = c.uid
        PROVE  ~Called(e)' /\ ~CalledOn(e)' /\ Called(e) /\ (CalledOn(e) <=> c.on)
    <2>1. \A d \in calls : d.uid = e.uid => d = c
      BY <1>3, <1>6
    <2>2. ~Called(e)' /\ ~CalledOn(e)' /\ Called(e)
      BY <1>1, <1>6, <2>1 DEF Called, CalledOn
    <2>3. CalledOn(e) <=> c.on
      BY <1>6, <2>1 DEF CalledOn
    <2> QED
      BY <2>2, <2>3
  <1>7. KsuTruth'
    <2> SUFFICES ASSUME ksu, visible, NEW e \in Own, e.user = 0 PROVE e \in shown <=> Allowed(e)'
      BY <1>1 DEF KsuTruth
    <2>1. e \in shown <=> Allowed(e)
      BY DEF Honest, KsuTruth
    <2>2. FullUid(e) = <<e.uid, 0>>
      BY DEF FullUid
    <2>3. CASE e.uid = c.uid
      <3>1. ~Called(e)' /\ ~CalledOn(e)' /\ Called(e) /\ (CalledOn(e) <=> c.on)
        BY <1>6, <2>3
      <3>2. FullUid(e) \notin allow' <=> c.on
        BY <1>1, <2>2, <2>3
      <3> QED
        BY <2>1, <3>1, <3>2 DEF Allowed
    <2>4. CASE e.uid # c.uid
      <3>1. (Called(e)' <=> Called(e)) /\ (CalledOn(e)' <=> CalledOn(e))
        BY <1>5, <2>4
      <3>2. FullUid(e) \notin allow' <=> FullUid(e) \notin allow
        BY <1>1, <2>2, <2>4
      <3> QED
        BY <2>1, <3>1, <3>2 DEF Allowed
    <2> QED
      BY <2>3, <2>4
  <1>8. KernelTruth'
    <2> SUFFICES ASSUME ~ksu, NEW e \in Own, e \notin byList PROVE SureOf(e)'
      BY <1>1 DEF KernelTruth
    <2>1. SureOf(e)
      BY DEF Honest, KernelTruth
    <2>2. Told(e)' <=> Told(e)
      <3>1. CASE e.uid = c.uid
        <4>1. ~Called(e)' /\ ~CalledOn(e)' /\ Called(e) /\ (CalledOn(e) <=> c.on)
          BY <1>6, <3>1
        <4>2. e.uid \in excl' <=> c.on
          BY <1>1, <3>1
        <4> QED
          BY <1>1, <1>2, <4>1, <4>2 DEF Told
      <3>2. CASE e.uid # c.uid
        <4>1. (Called(e)' <=> Called(e)) /\ (CalledOn(e)' <=> CalledOn(e))
          BY <1>5, <3>2
        <4>2. e.uid \in excl' <=> e.uid \in excl
          BY <1>1, <3>2
        <4> QED
          BY <1>1, <4>1, <4>2 DEF Told
      <3> QED
        BY <3>1, <3>2
    <2> QED
      BY <1>1, <2>1, <2>2 DEF SureOf, Pending
  <1> QED
    BY <1>4, <1>7, <1>8 DEF Honest

LEMMA ReplayHonest ==
    ASSUME Types, Honest, NEW m \in todo, Replay(m)
    PROVE  Honest'
  <1>1. /\ UNCHANGED <<ksu, list, shown, visible, timers, saves, calls, file, allow, refs, byList>>
        /\ todo' = todo \ {m}
        /\ excl' = IF Group(m) = {} THEN excl ELSE excl \cup {m.uid}
    BY DEF Replay, page, disk
  <1>2. calls = {}
    BY DEF Honest, Calm, NoCallInReplay
  <1>3. Calm' /\ KsuTruth'
    BY <1>1, <1>2 DEF Honest, Calm, OneCall, NoCallInReplay, RefreshAlone, WholeGroups, Active, KsuTruth,
       Allowed, Called, CalledOn
  <1>4. KernelTruth'
    <2> SUFFICES ASSUME ~ksu, NEW e \in Own, e \notin byList PROVE SureOf(e)'
      BY <1>1 DEF KernelTruth
    <2>1. SureOf(e)
      BY DEF Honest, KernelTruth
    <2>2. Told(e)' <=> Told(e)
      <3>1. e \in Group(Main(e)) /\ Main(e).uid = e.uid
        BY MainOf DEF Group, Own, Entries
      <3>2. CASE m = Main(e)
        BY <1>1, <1>2, <3>1, <3>2 DEF Told, Called, CalledOn
      <3>3. CASE m # Main(e)
        <4>1. Group(m) # {} => m.uid # e.uid
          <5> SUFFICES ASSUME NEW a \in Group(m), m.uid = e.uid PROVE FALSE
            OBVIOUS
          <5>1. a \in Installed /\ Main(a) = m /\ a.uid = m.uid
            BY MainOf DEF Group, Entries
          <5> QED
            BY <3>3, <5>1 DEF Own, OwnUid
        <4> QED
          BY <1>1, <1>2, <3>3, <4>1 DEF Told, Called, CalledOn
      <3> QED
        BY <3>2, <3>3
    <2> QED
      BY <1>1, <2>1, <2>2 DEF SureOf, Pending
  <1> QED
    BY <1>3, <1>4 DEF Honest

LEMMA PhaseHonest ==
    ASSUME Patient, Types, Flow, Honest, NEW r \in Slots,
           StartRefresh(r) \/ RefreshFails(r) \/ ReadList(r) \/ Applied(r)
    PROVE  Honest'
  <1>1. UNCHANGED <<ksu, list, timers, saves, calls, file, excl, allow, todo, byList>>
    BY DEF StartRefresh, RefreshFails, ReadList, Applied, page, disk
  <1>2. visible' = FALSE
    <2>1. CASE StartRefresh(r) \/ Applied(r)
      BY <2>1 DEF StartRefresh, Applied
    <2>2. CASE RefreshFails(r) \/ ReadList(r)
      BY <2>2 DEF RefreshFails, ReadList, page, Honest, Calm, RefreshAlone, Types, ListTypes
    <2> QED
      BY <2>1, <2>2
  <1>3. calls = {} /\ todo = {}
    <2>1. Active(r) \/ (calls = {} /\ todo = {})
      BY DEF StartRefresh, RefreshFails, ReadList, Applied, Active, Waits, Quiet, Settled
    <2> QED
      BY <2>1 DEF Honest, Calm, RefreshAlone
  <1>4. PICK x : /\ refs' = [refs EXCEPT ![r] = x]
                 /\ x.ph \in {"listing", "read", "done"}
                 /\ x.ph = "read" /\ ksu => x.got = allow
    BY RefreshPhase DEF Types
  <1>5. Calm'
    <2>1. OneCall' /\ NoCallInReplay' /\ WholeGroups'
      BY <1>1, <1>2, <1>3 DEF OneCall, NoCallInReplay, WholeGroups
    <2>2. refs'[r] = x /\ \A q \in Slots \ {r} : refs'[q] = refs[q]
      BY <1>4 DEF Types, RefreshTypes
    <2>3. RefreshAlone'
      BY <1>1, <1>2, <1>3, <1>4, <2>2 DEF Honest, Calm, RefreshAlone
    <2> QED
      BY <2>1, <2>3 DEF Calm
  <1>6. KsuTruth'
    BY <1>2 DEF KsuTruth
  <1>7. KernelTruth'
    BY <1>1, <1>2 DEF Honest, KernelTruth, SureOf, Pending, Told, Called, CalledOn
  <1> QED
    BY <1>5, <1>6, <1>7 DEF Honest

LEMMA RenderHonest ==
    ASSUME Types, Flow, Honest, NEW r \in Slots, Render(r)
    PROVE  Honest'
  <1> DEFINE got == refs[r].got
  <1>1. /\ refs[r].ph = "read" /\ Active(r)
        /\ list' = Listed(got) /\ shown' = Listed(got) \cap Installed /\ visible' = TRUE
        /\ UNCHANGED <<ksu, timers, calls, file, excl, allow, todo, byList>>
    BY DEF Render, Active, disk
  <1>2. refs' = [refs EXCEPT ![r] = [ph |-> "done", save |-> 0, got |-> NoFile]]
    BY FreeDone DEF Render
  <1>3. calls = {} /\ todo = {} /\ (ksu => got = allow)
    BY <1>1 DEF Honest, Calm, RefreshAlone
  <1>4. timers = {} /\ saves = {} /\ (~ksu => got = file)
    BY <1>1 DEF Flow, Undisturbed
  <1>5. \A q \in Slots : ~Active(q)' /\ refs'[q].ph \notin {"saving", "listing", "read"}
    BY <1>1, <1>2 DEF Flow, OneRefresh, Active, Types, RefreshTypes
  <1>6. got \in Got
    BY DEF Types, RefreshTypes, Refresh, Got
  <1>7. ~ksu /\ got = NoFile => list' = {} /\ shown' = {}
    BY <1>1, <1>4 DEF Listed, Flow, FileOfList, Pending
  <1> HIDE DEF got
  <1>8. Calm'
    <2>1. OneCall' /\ NoCallInReplay' /\ RefreshAlone'
      BY <1>1, <1>3, <1>5 DEF OneCall, NoCallInReplay, RefreshAlone
    <2>2. WholeGroups'
      BY <1>1, <1>6, <1>7, ListedGroups DEF WholeGroups
    <2> QED
      BY <2>1, <2>2 DEF Calm
  <1>9. KsuTruth'
    <2> SUFFICES ASSUME ksu, NEW e \in Own PROVE e \in shown' <=> Allowed(e)'
      BY <1>1 DEF KsuTruth
    <2>1. e \in shown' <=> FullUid(e) \notin allow
      BY <1>1, <1>3 DEF Listed, Own
    <2> QED
      BY <1>1, <1>3, <2>1 DEF Allowed, Called, CalledOn
  <1>10. KernelTruth'
    <2> SUFFICES ASSUME ~ksu, NEW e \in Own, e \notin byList PROVE SureOf(e)'
      BY <1>1 DEF KernelTruth
    <2>1. Main(e) \in Lines(file) <=> Told(e)
      BY <1>4 DEF Honest, KernelTruth, SureOf, Pending
    <2>2. Told(e)' <=> Told(e)
      BY <1>1 DEF Told, Called, CalledOn
    <2>3. Mains(list') = Lines(file) /\ (e \in shown' <=> Main(e) \in Lines(file))
      <3>1. CASE file = NoFile
        BY <1>4, <1>7, <3>1 DEF Lines, Mains
      <3>2. CASE file # NoFile
        <4>1. file \in SUBSET Keys
          BY <3>2 DEF Types, DiskTypes
        <4>2. Mains(Listed(file)) = file /\ (e \in Listed(file) <=> Main(e) \in file)
          BY <4>1, ListedLines, ListedHas DEF Own
        <4> QED
          BY <1>1, <1>4, <3>2, <4>2 DEF Lines, Own
      <3> QED
        BY <3>1, <3>2
    <2> QED
      BY <1>1, <2>1, <2>2, <2>3 DEF SureOf
  <1> QED
    BY <1>8, <1>9, <1>10 DEF Honest

LEMMA ApplyHonest ==
    ASSUME Patient, Types, Honest, NEW r \in Slots, NEW S \in SUBSET Entries, visible, Apply(r, S)
    PROVE  Honest'
  <1>1. /\ calls = {} /\ todo = {} /\ \A q \in Slots : ~Active(q)
    BY DEF Apply, Waits, Quiet, Settled
  <1>2. PICK i \in Ids : /\ saves' = saves \cup {[id |-> i, list |-> Mains(S)]}
                         /\ refs' = [refs EXCEPT ![r] = [@ EXCEPT !.ph = "saving", !.save = i]]
    BY DEF Apply, Saving
  <1>3. /\ list' = S /\ UNCHANGED <<ksu, shown, visible, calls, file, excl, allow, todo>>
        /\ byList' = byList \cup {e \in Entries : Main(e) \in
                         (Mains(S) \ Mains(list)) \cup (Mains(list) \ Mains(S))}
    BY DEF Apply, disk
  <1>4. refs'[r].ph = "saving" /\ \A q \in Slots \ {r} : refs'[q] = refs[q]
    BY <1>2 DEF Types, RefreshTypes, Refresh
  <1>5. Calm'
    <2>1. OneCall' /\ NoCallInReplay'
      BY <1>1, <1>3 DEF OneCall, NoCallInReplay
    <2>2. RefreshAlone'
      BY <1>1, <1>3, <1>4 DEF Honest, Calm, RefreshAlone
    <2>3. WholeGroups'
      BY <1>4 DEF WholeGroups, Active
    <2> QED
      BY <2>1, <2>2, <2>3 DEF Calm
  <1>6. KsuTruth'
    BY <1>3 DEF Honest, KsuTruth, Allowed, Called, CalledOn
  <1>7. KernelTruth'
    <2> SUFFICES ASSUME ~ksu, NEW e \in Own, e \notin byList' PROVE SureOf(e)'
      BY <1>3 DEF KernelTruth
    <2>1. e \notin byList /\ (Main(e) \in Mains(S) <=> Main(e) \in Mains(list))
      BY <1>3 DEF Own, Entries
    <2>2. SureOf(e)
      BY <2>1 DEF Honest, KernelTruth
    <2>3. Told(e)' <=> Told(e)
      BY <1>3 DEF Told, Called, CalledOn
    <2>4. Pending'
      BY <1>2 DEF Pending
    <2> QED
      BY <1>3, <2>1, <2>2, <2>3, <2>4 DEF SureOf
  <1> QED
    BY <1>5, <1>6, <1>7 DEF Honest

LEMMA RebootHonest ==
    ASSUME Types, Reboot
    PROVE  Honest'
  <1>1. /\ visible' = FALSE /\ timers' = {} /\ saves' = {} /\ calls' = {} /\ excl' = {}
        /\ todo' = Lines(file')
    BY DEF Reboot, Lines
  <1>2. \A r \in Slots : ~Active(r)' /\ refs'[r].ph \notin {"saving", "listing", "read"}
    BY DEF Reboot, Active, Free, Types, RefreshTypes
  <1>3. Calm' /\ KsuTruth'
    BY <1>1, <1>2 DEF Calm, OneCall, NoCallInReplay, RefreshAlone, WholeGroups, KsuTruth
  <1>4. KernelTruth'
    BY <1>1 DEF KernelTruth, SureOf, Pending, Told, Called, CalledOn
  <1> QED
    BY <1>3, <1>4 DEF Honest

LEMMA HonestStep ==
    ASSUME Patient, Types, Flow, Honest, [Next]_vars
    PROVE  Honest'
  <1>1. ASSUME UNCHANGED <<ksu, list, shown, visible, timers, saves, calls, file, excl, allow, refs, todo, byList>>
        PROVE  Honest'
    <2>1. Calm' /\ KsuTruth'
      BY <1>1 DEF Honest, Calm, OneCall, NoCallInReplay, RefreshAlone, WholeGroups, Active, KsuTruth, Allowed,
         Called, CalledOn
    <2>2. KernelTruth'
      BY <1>1 DEF Honest, KernelTruth, SureOf, Pending, Told, Called, CalledOn
    <2> QED
      BY <2>1, <2>2 DEF Honest
  <1>2. SaveProfile \/ DeleteProfile \/ Export \/ UNCHANGED vars => Honest'
    BY <1>1 DEF SaveProfile, DeleteProfile, Export, page, vars
  <1>3. list \cup csv \in SUBSET Entries /\ (profile # NoProfile => profile \in SUBSET Entries)
    BY DEF Types, ListTypes, Entries
  <1> QED
    BY <1>2, <1>3, ToggleHonest, TimerHonest, LandHonest, CallHonest, ReplayHonest, PhaseHonest, RenderHonest,
       ApplyHonest, RebootHonest, Cases

\* For a user who waits: when nothing is under way, a switch shows what the kernel,
\* or KernelSU, does with the app, whatever was flipped, refreshed and rebooted.
THEOREM SwitchesAreTrue == Patient => (Spec => []SwitchesTellTheTruth)
  <1> SUFFICES ASSUME Patient PROVE Spec => []SwitchesTellTheTruth
    OBVIOUS
  <1>1. Init => Honest
    BY DEF Init, Free, Honest, Calm, OneCall, NoCallInReplay, RefreshAlone, WholeGroups, Active, KsuTruth,
       KernelTruth, SureOf, Pending, Told, Called, CalledOn, Lines
  <1>2. Types /\ Flow /\ Honest /\ [Next]_vars => Honest'
    BY HonestStep
  <1>3. Honest => SwitchesTellTheTruth
    <2> SUFFICES ASSUME Honest, Quiet, visible, NEW e \in Installed, OwnUid(e),
                        IF ksu THEN e.user = 0 ELSE e \notin byList
                 PROVE  e \in shown <=> Enforced(e)
      BY DEF SwitchesTellTheTruth
    <2>1. e \in Own /\ calls = {} /\ todo = {}
      BY DEF Own, Quiet, Settled
    <2>2. CASE ksu
      BY <2>1, <2>2 DEF Honest, KsuTruth, Allowed, Called, CalledOn, Enforced
    <2>3. CASE ~ksu
      BY <2>1, <2>3 DEF Honest, KernelTruth, SureOf, Told, Called, CalledOn, Enforced
    <2> QED
      BY <2>2, <2>3
  <1> QED
    BY FlowInvariant, <1>1, <1>2, <1>3, PTL DEF Spec
===========================================================================
