------------------------------ MODULE KpmCards ------------------------------
(***************************************************************************)
(* The KPM page: the list of loaded KPMs with its cache of cards, the      *)
(* search and the filter chips, the statistics on each card with their     *)
(* four-second cache and five-second timer, and the update badges that are *)
(* attached once, after the first catalog has arrived.                     *)
(*                                                                         *)
(* What a card's statistics are computed from (the service log, the list   *)
(* of kernel modules, the KPM's manifest and configuration) is one number  *)
(* that grows when any of it changes.  Loading is one step here and all of *)
(* KpmUpload.  A KPM's name is its id.                                     *)
(***************************************************************************)
EXTENDS Naturals, Sequences, FiniteSets

CONSTANTS
    Names,        \* of KPMs
    Builds,       \* that a KPM may be loaded in
    Props,        \* by id, the version in kpm/<id>/module.prop or NoVersion
    Catalogs,     \* what getAllRepoModules may return: entries of id and version
    Versions,     \* what parseVersion reads, as the numbers it returns, always as many
    NoVersion,    \* what parseVersion does not read
    Queries,      \* the names that a search text and a filter chip select
    MaxActs,      \* bound: loads, unloads and refreshes
    MaxWorld,     \* bound: changes of what the statistics are computed from
    MaxRefreshes, \* bound: refreshes under way
    MaxPasses,    \* bound: rounds of the statistics under way
    Patient       \* the user waits for the list before he acts again

ASSUME BuildsAssumption == Builds \subseteq Nat \ {0}
ASSUME VersionAssumption == /\ Versions \subseteq Seq(Nat) \ {<<>>} /\ NoVersion \notin Versions
                            /\ \A v, w \in Versions : Len(v) = Len(w)
Readable == Versions \cup {NoVersion}
ASSUME CatalogAssumption == /\ Props \subseteq [Names -> Readable]
                            /\ Catalogs \subseteq Seq([id : Names, version : Readable])
ASSUME QueryAssumption == Names \in Queries /\ Queries \subseteq SUBSET Names
ASSUME BoundAssumption == {MaxActs, MaxWorld, MaxRefreshes, MaxPasses} \subseteq Nat /\ MaxRefreshes # 0 /\ Patient \in BOOLEAN

VARIABLES
    kernel,    \* by name: the build that is loaded, or 0
    props,     \* what readInstalledKpmVersions finds
    world,     \* the number described above
    acts,      \* loads, unloads and refreshes so far
    unloading, \* the KPM that a confirmed unload removes, or none
    refreshes, \* refreshKpmList's under way
    list,      \* allKpms: the names
    dom,       \* the names of the cards on the page
    cached,    \* the cards that kpmItemMap holds
    cards,     \* by name: the card
    query,     \* searchQuery and activeFilter
    msg,       \* kpm-empty-msg
    cache,     \* by name: the statistics in kpm_stats' cache; 0 once they are too old
    passes,    \* refreshKpmDashboard's under way
    annotate   \* the catalog that the badges are made from

world_vars == <<kernel, props, world>>
stats == <<cache, passes>>
page == <<list, dom, cached, cards, query, msg>>
vars == <<world_vars, acts, unloading, refreshes, page, stats, annotate>>

NoBadge == <<>>
NewCard(b) == [build |-> b, badge |-> NoBadge, dash |-> 0, hid |-> FALSE]
NoRefresh == [ph |-> "free", todo |-> {}, got |-> [n \in Names |-> 0]]
NoPass == [ph |-> "free", todo |-> {}, cur |-> {}, live |-> FALSE, val |-> 0]
NoCatalog == [ph |-> "fetch", mods |-> <<>>]

TypeOK ==
    /\ kernel \in [Names -> Builds \cup {0}] /\ props \in Props
    /\ world \in 1 .. MaxWorld + 1 /\ acts \in 0 .. MaxActs
    /\ unloading \subseteq Names /\ Cardinality(unloading) <= 1
    /\ refreshes \in [1 .. MaxRefreshes -> [ph : {"free", "list", "info"}, todo : SUBSET Names,
                                            got : [Names -> Builds \cup {0}]]]
    /\ cached \subseteq dom /\ dom \subseteq list /\ list \subseteq Names
    /\ cards \in [Names -> [build : Builds \cup {0}, badge : {NoBadge} \cup Versions,
                            dash : 0 .. MaxWorld + 1, hid : BOOLEAN]]
    /\ query \in Queries /\ msg \in {"hidden", "loading", "nomatch"}
    /\ cache \in [Names -> 0 .. MaxWorld + 1]
    /\ passes \in [1 .. MaxPasses -> [ph : {"free", "next", "read", "show"}, todo : SUBSET Names,
                                      cur : SUBSET Names, live : BOOLEAN, val : 0 .. MaxWorld + 1]]
    /\ annotate.ph \in {"fetch", "done"} /\ annotate.mods \in Catalogs \cup {<<>>}

\* updateStatus has started the first refresh, the WebUI fetches the catalog and
\* the timer of the statistics runs.
Init ==
    /\ kernel \in [Names -> Builds \cup {0}] /\ props \in Props /\ world = 1 /\ acts = 0
    /\ unloading = {}
    /\ refreshes = [i \in 1 .. MaxRefreshes |->
                        IF i = 1 THEN [NoRefresh EXCEPT !.ph = "list"] ELSE NoRefresh]
    /\ list = {} /\ dom = {} /\ cached = {} /\ cards = [n \in Names |-> NewCard(0)]
    /\ query = Names /\ msg = "loading" /\ cache = [n \in Names |-> 0]
    /\ passes = [p \in 1 .. MaxPasses |-> NoPass] /\ annotate = NoCatalog

----------------------------------------------------------------------------
\* The list.

Idle == unloading = {} /\ \A i \in 1 .. MaxRefreshes : refreshes[i].ph = "free"
Acts == (Patient => Idle) /\ acts < MaxActs /\ acts' = acts + 1
FirstFree(s, i) == s[i].ph = "free" /\ \A j \in 1 .. i - 1 : s[j].ph # "free"
\* refreshKpmList up to its await: the statistics' cache is emptied.
StartRefresh ==
    /\ \E i \in 1 .. MaxRefreshes :
           FirstFree(refreshes, i) /\ refreshes' = [refreshes EXCEPT ![i] = [NoRefresh EXCEPT !.ph = "list"]]
    /\ msg' = "loading" /\ cache' = [n \in Names |-> 0]
\* The menu's and the pull's refresh forget the cards first; a control does not.
Refresh(forget) ==
    /\ Acts /\ StartRefresh /\ cached' = IF forget THEN {} ELSE cached
    /\ UNCHANGED <<world_vars, unloading, list, dom, cards, query, passes, annotate>>
Load(n, b) ==
    /\ Acts /\ kernel[n] = 0 /\ kernel' = [kernel EXCEPT ![n] = b] /\ StartRefresh
    /\ UNCHANGED <<props, world, unloading, list, dom, cached, cards, query, passes, annotate>>
\* The unload button, and its dialog's confirmation.
Unload(n) ==
    /\ Acts /\ n \in dom /\ ~cards[n].hid /\ unloading = {} /\ unloading' = {n}
    /\ UNCHANGED <<world_vars, refreshes, page, stats, annotate>>
\* Mutant: the list is not read again.
Unloaded_NoRefresh(n) ==
    /\ n \in unloading /\ unloading' = {} /\ kernel' \in {kernel, [kernel EXCEPT ![n] = 0]}
    /\ UNCHANGED <<props, world, acts, refreshes, page, stats, annotate>>
\* unloadModule has ended, whether or not the KPM could be unloaded.
Unloaded(n) ==
    /\ n \in unloading /\ unloading' = {} /\ kernel' \in {kernel, [kernel EXCEPT ![n] = 0]} /\ StartRefresh
    /\ UNCHANGED <<props, world, acts, list, dom, cached, cards, query, passes, annotate>>

\* getKpmList: the names, then each KPM's info.
ReadNames(i) ==
    /\ refreshes[i].ph = "list"
    /\ refreshes' = [refreshes EXCEPT ![i] = [ph |-> "info", todo |-> {n \in Names : kernel[n] # 0},
                                              got |-> [n \in Names |-> 0]]]
    /\ UNCHANGED <<world_vars, acts, unloading, page, stats, annotate>>
ReadInfo(i, n) ==
    /\ n \in refreshes[i].todo
    /\ refreshes' = [refreshes EXCEPT ![i].todo = @ \ {n}, ![i].got[n] = kernel[n]]
    /\ UNCHANGED <<world_vars, acts, unloading, page, stats, annotate>>

\* applyFilters, on the names l of which the map holds h.
Filtered(c, l, h, q) == [n \in Names |-> IF n \in l \cap h THEN [c[n] EXCEPT !.hid = n \notin q] ELSE c[n]]
Message(l, h, q) == IF l \cap h \cap q = {} THEN "nomatch" ELSE "hidden"
\* Mutant: a card is kept in the map when its KPM is gone.
Held_Forever(l) == cached \cup l
\* renderKpmList prunes the map to the live names.
Held(l) == l
\* refreshKpmList after its await: the cards that the map holds are used again, and
\* a round of the statistics starts.  A card that is replaced takes no more results.
ShowList(i) ==
    LET l == {n \in Names : refreshes[i].got[n] # 0}
        drawn == [n \in Names |-> IF n \in l \ cached THEN NewCard(refreshes[i].got[n]) ELSE cards[n]]
    IN  /\ refreshes[i].ph = "info" /\ refreshes[i].todo = {}
        /\ refreshes' = [refreshes EXCEPT ![i] = NoRefresh]
        /\ list' = l /\ dom' = l /\ cached' = Held(l)
        /\ cards' = Filtered(drawn, l, l, query) /\ msg' = Message(l, l, query)
        /\ \E p \in 1 .. MaxPasses :
               /\ FirstFree(passes, p)
               /\ passes' = [[q \in 1 .. MaxPasses |->
                                 [passes[q] EXCEPT !.live = @ /\ passes[q].cur \subseteq cached \cap l]]
                             EXCEPT ![p] = [NoPass EXCEPT !.ph = "next", !.todo = l]]
        /\ UNCHANGED <<world_vars, acts, unloading, query, cache, annotate>>
Search ==
    /\ query' \in Queries \ {query}
    /\ cards' = Filtered(cards, list, cached, query') /\ msg' = Message(list, cached, query')
    /\ UNCHANGED <<world_vars, acts, unloading, refreshes, list, dom, cached, stats, annotate>>

----------------------------------------------------------------------------
\* The statistics.

Changes ==
    /\ world <= MaxWorld /\ world' = world + 1
    /\ UNCHANGED <<kernel, props, acts, unloading, refreshes, page, stats, annotate>>
\* The timer; it leaves a place for the round of a refresh.
Tick(p) ==
    /\ p < MaxPasses /\ FirstFree(passes, p)
    /\ passes' = [passes EXCEPT ![p] = [NoPass EXCEPT !.ph = "next", !.todo = list]]
    /\ UNCHANGED <<world_vars, acts, unloading, refreshes, page, cache, annotate>>
\* Four seconds have passed.
TooOld(n) ==
    /\ cache[n] # 0 /\ cache' = [cache EXCEPT ![n] = 0]
    /\ UNCHANGED <<world_vars, acts, unloading, refreshes, page, passes, annotate>>
\* Mutant: a cached result is used whatever its age.
Hit_Any(n) == cards[n].dash # 0
Hit(n) == cache[n] # 0
\* The next card of a round: skipped when the map has no card or a hidden one,
\* shown from the cache, or read.
NextCard(p, n) ==
    /\ passes[p].ph = "next" /\ n \in passes[p].todo
    /\ LET rest == [passes[p] EXCEPT !.todo = @ \ {n}] IN
       \/ /\ n \notin cached \/ cards[n].hid
          /\ passes' = [passes EXCEPT ![p] = rest] /\ cards' = cards
       \/ /\ n \in cached /\ ~cards[n].hid /\ Hit(n)
          /\ passes' = [passes EXCEPT ![p] = rest]
          /\ cards' = [cards EXCEPT ![n].dash = IF cache[n] = 0 THEN @ ELSE cache[n]]
       \/ /\ n \in cached /\ ~cards[n].hid /\ ~Hit(n)
          /\ passes' = [passes EXCEPT ![p] = [rest EXCEPT !.ph = "read", !.cur = {n}, !.live = TRUE]]
          /\ cards' = cards
    /\ UNCHANGED <<world_vars, acts, unloading, refreshes, list, dom, cached, query, msg, cache, annotate>>
\* getKpmRuntimeStats' four reads.
ReadStats(p) ==
    /\ passes[p].ph = "read" /\ passes' = [passes EXCEPT ![p].ph = "show", ![p].val = world]
    /\ UNCHANGED <<world_vars, acts, unloading, refreshes, page, cache, annotate>>
\* Their result goes into the cache and onto the card the round began with.
ShowStats(p) ==
    /\ passes[p].ph = "show"
    /\ passes' = [passes EXCEPT ![p] = [NoPass EXCEPT !.ph = "next", !.todo = passes[p].todo]]
    /\ cache' = [n \in Names |-> IF n \in passes[p].cur THEN passes[p].val ELSE cache[n]]
    /\ cards' = [n \in Names |-> IF n \in passes[p].cur /\ passes[p].live
                                 THEN [cards[n] EXCEPT !.dash = passes[p].val] ELSE cards[n]]
    /\ UNCHANGED <<world_vars, acts, unloading, refreshes, list, dom, cached, query, msg, annotate>>
EndPass(p) ==
    /\ passes[p].ph = "next" /\ passes[p].todo = {} /\ passes' = [passes EXCEPT ![p] = NoPass]
    /\ UNCHANGED <<world_vars, acts, unloading, refreshes, page, cache, annotate>>

----------------------------------------------------------------------------
\* Update badges.

\* compareVersions(a, b) > 0; an unreadable version compares as equal.
Newer(a, b) ==
    /\ a \in Versions /\ b \in Versions
    /\ \E k \in DOMAIN a : a[k] > b[k] /\ \A j \in 1 .. k - 1 : a[j] = b[j]
\* Mutant: an equal version is an update.
Update_Same(p, latest) == p = latest \/ Newer(latest, p)
Update(p, latest) == Newer(latest, p)
\* diffInstalledVsRepo: by id, the version that no entry of the catalog has a newer
\* one than.  An entry it cannot read is kept if it comes first, and never wins later.
Latest(mods, n) ==
    LET of == {k \in DOMAIN mods : mods[k].id = n}
        first == {k \in of : \A j \in of : k <= j}
        read == {k \in of : mods[k].version \in Versions}
        rivals == IF first \subseteq read THEN read ELSE first
    IN  {mods[k].version : k \in {k \in rivals : \A j \in rivals : ~Newer(mods[j].version, mods[k].version)}}
\* The installed KPMs for which it is newer.
Updates(inst, mods) ==
    {n \in Names : inst[n] # NoVersion /\ \E v \in Latest(mods, n) : Update(inst[n], v)}
\* The first fetchRepo has ended and annotateInstalledKpmWithUpdates has read the
\* installed versions: cards get the badge they do not have yet.
Annotate ==
    /\ annotate.ph = "fetch" /\ \E c \in Catalogs : annotate' = [ph |-> "done", mods |-> c]
    /\ cards' = [n \in Names |-> IF n \in dom \cap Updates(props, annotate'.mods) /\ cards[n].badge = NoBadge
                                 THEN [cards[n] EXCEPT !.badge = CHOOSE v \in Latest(annotate'.mods, n) : TRUE] ELSE cards[n]]
    /\ UNCHANGED <<world_vars, acts, unloading, refreshes, list, dom, cached, query, msg, stats>>

----------------------------------------------------------------------------
List(i) == ReadNames(i) \/ ShowList(i) \/ \E n \in Names : ReadInfo(i, n)
Pass(p) == ReadStats(p) \/ ShowStats(p) \/ EndPass(p) \/ \E n \in Names : NextCard(p, n)
Next ==
    \/ \E forget \in BOOLEAN : Refresh(forget)
    \/ \E n \in Names : Unload(n) \/ Unloaded(n) \/ TooOld(n) \/ \E b \in Builds : Load(n, b)
    \/ \E i \in 1 .. MaxRefreshes : List(i)
    \/ \E p \in 1 .. MaxPasses : Pass(p) \/ Tick(p)
    \/ Search \/ Changes \/ Annotate
\* Commands end, timers fire and time passes.
Fairness ==
    /\ \A n \in Names : WF_vars(Unloaded(n)) /\ WF_vars(TooOld(n))
    /\ \A i \in 1 .. MaxRefreshes : WF_vars(List(i))
    /\ \A p \in 1 .. MaxPasses : WF_vars(Pass(p)) /\ WF_vars(Tick(p))
Spec == Init /\ [][Next]_vars /\ Fairness

----------------------------------------------------------------------------
\* Properties.

\* Once nothing is under way, the page shows the KPMs that are loaded, in the build
\* that is loaded, and of these the ones the search selects.
CardsAreTrue ==
    Idle => /\ dom = {n \in Names : kernel[n] # 0}
            /\ \A n \in dom : cards[n].build = kernel[n] /\ cards[n].hid = (n \notin query)
            /\ msg = IF dom \cap query = {} THEN "nomatch" ELSE "hidden"
\* A badge is on the card of an installed KPM and names a version of the catalog that
\* is newer, and than which the catalog has none newer.
BadgeIsNewer ==
    LET mods == annotate.mods IN
    \A n \in Names : cards[n].badge # NoBadge =>
        /\ cards[n].badge # props[n] /\ props[n] # NoVersion
        /\ ~Newer(props[n], cards[n].badge)
        /\ \E k \in DOMAIN mods : mods[k] = [id |-> n, version |-> cards[n].badge]
        /\ \A k \in DOMAIN mods : mods[k].id = n => ~Newer(mods[k].version, cards[n].badge)
\* The statistics on a card that stays on the page catch up with what they are
\* computed from, in spite of the cache and of rounds that overtake each other.
StatsCatchUp ==
    \A n \in Names : <>[](n \in dom /\ ~cards[n].hid) => <>[](cards[n].dash = world)

\* index.js:569: once the catalog has been fetched, the cards of the installed KPMs
\* have their badges.
CardsHaveBadges ==
    Idle /\ annotate.ph = "done" =>
        \A n \in dom \cap Updates(props, annotate.mods) : cards[n].badge # NoBadge
=============================================================================
