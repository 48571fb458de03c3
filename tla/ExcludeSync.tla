---------------------------- MODULE ExcludeSync ----------------------------
(***************************************************************************)
(* The exclusion list of the WebUI.  One list is kept in four places: the  *)
(* page's memory (excludedApps), the switches on the screen, the file      *)
(* package_config, and the kernel (kpatch exclude_set) or, when KernelSU   *)
(* is found, its allowlist.  A switch changes the first two at once,       *)
(* starts a process for the kernel that nothing awaits, and saves the file *)
(* half a second later; a refresh rebuilds the first two from the file;    *)
(* service.sh rebuilds the kernel's flags from it at the next boot.        *)
(*                                                                         *)
(* An entry is a package, its uid within a user, and the user: the file    *)
(* and the kernel know the first two only.  The processes that the page    *)
(* starts do not fail.  package_config is a set: saveExcludedList writes   *)
(* every line once.                                                        *)
(***************************************************************************)
EXTENDS Naturals, FiniteSets

CONSTANTS
    Installed,     \* the entries that listPackages returns
    Foreign,       \* entries of a CSV file from another device
    Environments,  \* what detectEnvironment's probes may find
    NoFile,        \* package_config is missing or empty
    NoProfile,     \* no profile is stored
    MaxToggles,    \* bound: how often switches are flipped
    MaxRefreshes,  \* bound: refreshes, imports and profile loads
    MaxBoots,      \* bound: reboots
    Patient        \* the user waits: see Waits and Settled

ASSUME EntryAssumption ==
    /\ \A e \in Installed \cup Foreign : e = [pkg |-> e.pkg, uid |-> e.uid, user |-> e.user]
    /\ \A e \in Foreign : e.user = 0
ASSUME BoundAssumption == {MaxToggles, MaxRefreshes, MaxBoots} \subseteq Nat /\ Patient \in BOOLEAN

Main(e) == [e EXCEPT !.user = 0]
Mains(S) == {Main(e) : e \in S}
Keys == Mains(Installed) \cup Foreign      \* what a line of the file can say
Entries == Installed \cup Keys
ASSUME NoneAssumption == \A S \in SUBSET Entries : S # NoFile /\ S # NoProfile
Group(m) == {e \in Installed : Main(e) = m}
FullUid(e) == <<e.uid, e.user>>

\* ksuVersion and the manager's package, which only the home page shows, are
\* left out; "ksudir" is a non-empty /data/adb/ksu, left over or not.
Detect(env) ==
    LET hasKsu == env \cap {"ksu", "ksudir"} # {} IN
    [hasKsu |-> hasKsu,
     manager |-> IF hasKsu THEN "ksu" ELSE IF "ap" \in env THEN "apatch"
                 ELSE IF "magisk" \in env THEN "magisk" ELSE "unknown"]

VARIABLES
    ksu,      \* the page works on KernelSU's allowlist
    list,     \* excludedApps
    shown,    \* the switches that are on
    visible,  \* there are switches on the screen
    timers,   \* pending 500 ms timers
    saves,    \* writes of package_config under way
    calls,    \* kpatch or ksuctl processes under way
    file,     \* package_config
    excl,     \* uids whose exclude flag is set in the kernel
    allow,    \* full uids in KernelSU's allowlist
    refs,     \* the refreshes
    profile,  \* the stored profile
    csv,      \* the CSV file in Download
    todo,     \* lines that service.sh's replay has not come to
    byList,   \* entries that an import or a profile changed since the boot
    toggles, boots

vars == <<ksu, list, shown, visible, timers, saves, calls, file, excl, allow, refs,
          profile, csv, todo, byList, toggles, boots>>
page == <<list, shown, visible, timers, saves, calls>>
disk == <<file, profile, csv>>

Slots == 1 .. MaxRefreshes
Ids == 1 .. MaxToggles + 2 * MaxRefreshes
Save == [id : Ids, list : SUBSET Keys]
Timer == [key : Keys, gen : 0 .. MaxRefreshes, after : SUBSET Ids]
Refresh == [ph : {"free", "saving", "listing", "read", "done"}, save : Ids \cup {0},
            got : {NoFile} \cup SUBSET (IF ksu THEN {FullUid(e) : e \in Entries} ELSE Keys)]
Free == [ph |-> "free", save |-> 0, got |-> NoFile]

TypeOK ==
    /\ ksu \in BOOLEAN /\ visible \in BOOLEAN
    /\ list \subseteq Entries /\ shown \subseteq Installed /\ byList \subseteq Entries
    /\ timers \subseteq Timer /\ saves \subseteq Save
    /\ calls \subseteq [uid : {e.uid : e \in Installed}, on : BOOLEAN]
    /\ file \in {NoFile} \cup SUBSET Keys /\ todo \subseteq Keys
    /\ excl \subseteq {e.uid : e \in Installed}
    /\ allow \subseteq {FullUid(e) : e \in Entries}
    /\ refs \in [Slots -> Refresh]
    /\ profile \in {NoProfile} \cup SUBSET Entries /\ csv \subseteq Keys
    /\ toggles \in 0 .. MaxToggles /\ boots \in 0 .. MaxBoots

Init ==
    /\ \E env \in Environments :
           ksu = (Detect(env).hasKsu /\ Detect(env).manager # "apatch")
    /\ list = {} /\ shown = {} /\ visible = FALSE
    /\ timers = {} /\ saves = {} /\ calls = {}
    /\ file = NoFile /\ excl = {} /\ allow = {}
    /\ refs = [r \in Slots |-> Free]
    /\ profile = NoProfile /\ csv = Foreign
    /\ todo = {} /\ byList = {} /\ toggles = 0 /\ boots = 0

Active(r) == refs[r].ph \in {"saving", "listing", "read"}
\* Nothing that a refresh would miss is under way.
Settled == timers = {} /\ saves = {} /\ calls = {} /\ todo = {}
Quiet == Settled /\ ~ \E r \in Slots : Active(r)
\* A patient user changes the list only when no refresh and no process is
\* under way, and asks for a refresh when the last switch has been saved.
Waits == Patient => Quiet
Unused(r) == refs[r].ph = "free" /\ \A q \in 1 .. r - 1 : refs[q].ph # "free"

IsNewId(i) == /\ \A s \in saves : s.id # i
              /\ \A j \in 1 .. i - 1 : \E s \in saves : s.id = j
\* Mutant: the uid is written as it is.
Saving_FullUid(i, S) == IsNewId(i) /\ saves' = saves \cup {[id |-> i, list |-> S]}
\* saveExcludedList: starts the write, with the uid taken modulo 100000.
Saving(i, S) == IsNewId(i) /\ saves' = saves \cup {[id |-> i, list |-> Mains(S)]}
Gen == Cardinality({r \in Slots : refs[r].ph \in {"listing", "read", "done"}})

\* Mutant: only the switch's own entry is changed.
Toggle_OneUser(e) ==
    LET on == e \notin shown IN
    /\ visible /\ toggles < MaxToggles
    /\ Patient => /\ \A c \in calls : c.uid # e.uid
                  /\ todo = {} /\ ~ \E r \in Slots : Active(r)
    /\ list' = IF on THEN list \cup {e} ELSE list \ {e}
    /\ shown' = IF on THEN shown \cup {e} ELSE shown \ {e}
    /\ timers' = {t \in timers : <<t.key, t.gen>> # <<Main(e), Gen>>} \cup
                 {[key |-> Main(e), gen |-> Gen, after |-> {s.id : s \in saves}]}
    /\ calls' = calls \cup {[uid |-> e.uid, on |-> on]}
    /\ toggles' = toggles + 1
    /\ byList' = byList \ {e}
    /\ UNCHANGED <<ksu, visible, saves, disk, excl, allow, refs, todo, boots>>

\* The change handler of a switch.  The switches of the other users follow; a
\* second flip restarts the timer of this switch, and only of this one: the
\* items are made anew by every refresh.
Toggle(e) ==
    LET on == e \notin shown
        group == Group(Main(e)) IN
    /\ visible /\ toggles < MaxToggles
    /\ Patient => /\ \A c \in calls : c.uid # e.uid
                  /\ todo = {} /\ ~ \E r \in Slots : Active(r)
    /\ list' = IF on THEN list \cup group ELSE list \ group
    /\ shown' = IF on THEN shown \cup group ELSE shown \ group
    /\ timers' = {t \in timers : <<t.key, t.gen>> # <<Main(e), Gen>>} \cup
                 {[key |-> Main(e), gen |-> Gen, after |-> {s.id : s \in saves}]}
    /\ calls' = calls \cup {[uid |-> e.uid, on |-> on]}
    /\ toggles' = toggles + 1
    /\ byList' = byList \ group
    /\ UNCHANGED <<ksu, visible, saves, disk, excl, allow, refs, todo, boots>>

\* Mutants: the save is not delayed; only a switch that is on is saved.
TimerFires_AtOnce(t) ==
    /\ t \in timers
    /\ timers' = timers \ {t}
    /\ \E i \in Ids : Saving(i, list)
    /\ UNCHANGED <<ksu, list, shown, visible, calls, disk, excl, allow, refs, todo, byList, toggles, boots>>
TimerFires_OnlyOn(t) ==
    /\ t \in timers /\ t.after = {}
    /\ timers' = timers \ {t}
    /\ IF t.key \in Mains(list) THEN \E i \in Ids : Saving(i, list) ELSE UNCHANGED saves
    /\ UNCHANGED <<ksu, list, shown, visible, calls, disk, excl, allow, refs, todo, byList, toggles, boots>>

\* setTimeout's callback reads the page's list when it runs.  A write takes less
\* than the 500 ms of a timer that was set while it was under way.
TimerFires(t) ==
    /\ t \in timers /\ t.after = {}
    /\ timers' = timers \ {t}
    /\ \E i \in Ids : Saving(i, list)
    /\ UNCHANGED <<ksu, list, shown, visible, calls, disk, excl, allow, refs, todo, byList, toggles, boots>>

\* Writes end in any order.
SaveLands(s) ==
    /\ s \in saves
    /\ saves' = saves \ {s}
    /\ file' = s.list
    /\ timers' = {[t EXCEPT !.after = @ \ {s.id}] : t \in timers}
    /\ refs' = [r \in Slots |-> IF refs[r].ph = "saving" /\ refs[r].save = s.id
                                THEN [refs[r] EXCEPT !.save = 0] ELSE refs[r]]
    /\ UNCHANGED <<ksu, list, shown, visible, calls, profile, csv, excl, allow, todo, byList, toggles, boots>>

\* `kpatch exclude_set` or `ksuctl allow`, which is given the uid within a user.
CallLands(c) ==
    /\ c \in calls
    /\ calls' = calls \ {c}
    /\ excl' = IF ksu THEN excl ELSE IF c.on THEN excl \cup {c.uid} ELSE excl \ {c.uid}
    /\ allow' = IF ~ksu THEN allow ELSE IF c.on THEN allow \ {<<c.uid, 0>>}
                                         ELSE allow \cup {<<c.uid, 0>>}
    /\ UNCHANGED <<ksu, list, shown, visible, timers, saves, disk, refs, todo, byList, toggles, boots>>

\* The page is opened, or refreshed from its menu or by a pull: the screen is
\* cleared and the packages are asked for.
StartRefresh(r) ==
    /\ Unused(r) /\ Waits
    /\ refs' = [refs EXCEPT ![r].ph = "listing"]
    /\ shown' = {} /\ visible' = FALSE
    /\ UNCHANGED <<ksu, list, timers, saves, calls, disk, excl, allow, todo, byList, toggles, boots>>

\* listPackages throws: a message, and no switches.
RefreshFails(r) ==
    /\ refs[r].ph = "listing"
    /\ refs' = [refs EXCEPT ![r] = [Free EXCEPT !.ph = "done"]]
    /\ UNCHANGED <<ksu, page, disk, excl, allow, todo, byList, toggles, boots>>

\* renderAppList reads the file or the allowlist ...
ReadList(r) ==
    /\ refs[r].ph = "listing"
    /\ refs' = [refs EXCEPT ![r] = [@ EXCEPT !.ph = "read",
                                             !.got = IF ksu THEN allow ELSE file]]
    /\ UNCHANGED <<ksu, page, disk, excl, allow, todo, byList, toggles, boots>>

\* ... and goes on with what it read: a line that matches no installed package
\* is kept, one that matches several users' stands for all of them, and in
\* either case the list is written back, without waiting for the write.
Expand(m) == IF Group(m) = {} THEN {m} ELSE Group(m)
Listed(got) ==
    IF ksu THEN {e \in Installed : FullUid(e) \notin got}
    ELSE IF got = NoFile THEN list ELSE UNION {Expand(m) : m \in got}
Rewrites(got) ==
    /\ ~ksu /\ got # NoFile
    /\ (\E m \in got : Group(m) = {}) \/ Cardinality(Listed(got)) # Cardinality(got)
Render(r) ==
    LET got == refs[r].got IN
    /\ refs[r].ph = "read"
    /\ refs' = [refs EXCEPT ![r] = [Free EXCEPT !.ph = "done"]]
    /\ list' = Listed(got) /\ shown' = Listed(got) \cap Installed /\ visible' = TRUE
    /\ IF Rewrites(got) THEN \E i \in Ids : Saving(i, Listed(got)) ELSE UNCHANGED saves
    /\ UNCHANGED <<ksu, timers, calls, disk, excl, allow, todo, byList, toggles, boots>>

\* The list is replaced, saved, and the page refreshed when the write has ended.
Apply(r, S) ==
    /\ Unused(r) /\ Waits
    /\ list' = S
    /\ \E i \in Ids : /\ Saving(i, S)
                      /\ refs' = [refs EXCEPT ![r] = [@ EXCEPT !.ph = "saving", !.save = i]]
    /\ byList' = byList \cup {e \in Entries : Main(e) \in
                     (Mains(S) \ Mains(list)) \cup (Mains(list) \ Mains(S))}
    /\ UNCHANGED <<ksu, shown, visible, timers, calls, disk, excl, allow, todo, toggles, boots>>

\* Lines are taken as they are: the columns exclude and allow are not read.
Import(r) == visible /\ Apply(r, list \cup csv)
LoadProfile(r) == visible /\ profile # NoProfile /\ Apply(r, profile)

Applied(r) ==
    /\ refs[r].ph = "saving" /\ refs[r].save = 0
    /\ refs' = [refs EXCEPT ![r].ph = "listing"]
    /\ shown' = {} /\ visible' = FALSE
    /\ UNCHANGED <<ksu, list, timers, saves, calls, disk, excl, allow, todo, byList, toggles, boots>>

SaveProfile ==
    /\ visible /\ profile' = list
    /\ UNCHANGED <<ksu, page, file, csv, excl, allow, refs, todo, byList, toggles, boots>>
DeleteProfile ==
    /\ profile # NoProfile /\ profile' = NoProfile
    /\ UNCHANGED <<ksu, page, file, csv, excl, allow, refs, todo, byList, toggles, boots>>

\* An empty list is not exported; the CSV has the uid within a user.
Export ==
    /\ visible /\ list # {} /\ csv' = Mains(list)
    /\ UNCHANGED <<ksu, page, file, profile, excl, allow, refs, todo, byList, toggles, boots>>

\* The page and the flags are gone; `cat >` may have been cut off after it had
\* emptied the file.  service.sh copies the file before it replays it.
Reboot ==
    /\ boots < MaxBoots /\ boots' = boots + 1
    /\ list' = {} /\ shown' = {} /\ visible' = FALSE
    /\ timers' = {} /\ saves' = {} /\ calls' = {} /\ excl' = {} /\ byList' = {}
    /\ file' \in {file} \cup (IF saves = {} THEN {} ELSE {NoFile})
    /\ todo' = IF file' = NoFile THEN {} ELSE file'
    /\ refs' = [r \in Slots |-> IF Active(r) THEN [Free EXCEPT !.ph = "done"] ELSE refs[r]]
    /\ UNCHANGED <<ksu, allow, profile, csv, toggles>>

\* A line whose package is not in packages.list is counted as failed.
Replay(m) ==
    /\ m \in todo
    /\ todo' = todo \ {m}
    /\ excl' = IF Group(m) = {} THEN excl ELSE excl \cup {m.uid}
    /\ UNCHANGED <<ksu, page, disk, allow, refs, byList, toggles, boots>>

Under(r) == RefreshFails(r) \/ ReadList(r) \/ Render(r) \/ Applied(r)
System ==
    \/ \E t \in timers : TimerFires(t)
    \/ \E s \in saves : SaveLands(s)
    \/ \E c \in calls : CallLands(c)
    \/ \E r \in Slots : Under(r)
    \/ \E m \in todo : Replay(m)
User ==
    \/ \E e \in Installed : Toggle(e)
    \/ \E r \in Slots : StartRefresh(r) \/ Import(r) \/ LoadProfile(r)
    \/ SaveProfile \/ DeleteProfile \/ Export \/ Reboot
Next == System \/ User

\* Timers fire, processes end and awaits go on; the user need not do anything.
Spec == Init /\ [][Next]_vars /\ WF_vars(System)

----------------------------------------------------------------------------
\* When nothing is under way, package_config has the entries of the page's list,
\* which is what the next boot will replay: no save was lost or overtaken, though
\* every switch has a timer of its own and every save writes the whole list.
FileFollowsList ==
    Quiet /\ visible /\ ~ksu =>
        \/ file = Mains(list)
        \/ file = NoFile /\ list = {}

\* The only entry of the list with its uid: another package with the same uid
\* has a switch of its own but the same flag.
OwnUid(e) == \A a \in Installed : a.uid = e.uid => Main(a) = Main(e)
Enforced(e) == IF ksu THEN FullUid(e) \notin allow ELSE e.uid \in excl

\* When nothing is under way, a switch shows what the kernel, or KernelSU, does
\* with the app, after any toggles, refreshes and reboots: the processes that
\* handlers and the replay at boot started have left the kernel where the page is.
\* Excepted are other users' apps under KernelSU, since the allowlist has full
\* uids and `ksuctl allow` is given the uid within a user, and entries that an
\* import or a profile changed, of which the kernel is not told.
SwitchesTellTheTruth ==
    Quiet /\ visible =>
        \A e \in Installed :
            OwnUid(e) /\ (IF ksu THEN e.user = 0 ELSE e \notin byList)
                => (e \in shown <=> Enforced(e))

\* What a profile is for (exclude.js:536-541): to switch between lists "without
\* manually toggling each app".  The kernel is not told.
ProfileReachesKernel ==
    Quiet /\ visible /\ ~ksu => \A e \in Installed : OwnUid(e) => (e \in shown <=> Enforced(e))

\* A flipped switch is saved in the end, unless its page goes away.
TogglesAreSaved == timers # {} ~> (file = Mains(list) \/ ~visible)
============================================================================
