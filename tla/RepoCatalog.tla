---------------------------- MODULE RepoCatalog ----------------------------
(***************************************************************************)
(* The repository page: which catalogs it asks (a system list, the user's  *)
(* list, a legacy single URL, or the default), the fetches that ask them   *)
(* in parallel, the merged list with its search and the repository         *)
(* manager.                                                                *)
(*                                                                         *)
(* A repository is its URL and a module its id: display names, versions,   *)
(* sizes, the order and the layout of the cards are left out.  A catalog   *)
(* always has the same modules, but any request for it may fail.           *)
(***************************************************************************)
EXTENDS Naturals, Sequences, FiniteSets, SequencesExt

CONSTANTS
    Urls,         \* what sanitizeUrl lets through
    Invalid,      \* what it does not
    Default,      \* DEFAULT_REPO_URL
    Retired,      \* RETIRED_REPO_URLS
    Content,      \* the ids in a catalog
    Queries,      \* what is typed into the search field: the ids it matches
    SystemLists,  \* what repos.json may hold; <<>> for no usable list
    SavedLists,   \* what an earlier version left in patchnest_repos
    LegacyUrls,   \* what it left in patchnest_repo_url
    NoUrl,        \* no legacy URL
    Typed,        \* what the rows of the manager hold when it is saved
    MaxFetches,   \* bound: fetches under way
    MaxOpens      \* bound: how often the WebUI is opened

Texts == Urls \cup Invalid
Mods == UNION {Content[u] : u \in Urls}

ASSUME UrlAssumption == Default \in Urls \ Retired /\ Retired \subseteq Urls /\ NoUrl \notin Texts
ASSUME ListAssumption == SystemLists \subseteq Seq(Texts) /\ SavedLists \subseteq Seq(Texts)
ASSUME TypedAssumption == Typed \subseteq Seq(Texts) /\ LegacyUrls \subseteq Texts \cup {NoUrl}
ASSUME QueryAssumption == Mods \in Queries /\ Queries \subseteq SUBSET Mods
ASSUME BoundAssumption == {MaxFetches, MaxOpens} \subseteq Nat \ {0}

VARIABLES
    stored,    \* patchnest_repos; <<>> when absent
    legacy,    \* patchnest_repo_url
    sysFile,   \* repos.json
    opens,     \* how often the WebUI was opened
    sys,       \* window.__systemRepos; <<>> when undefined
    sysRead,   \* loadSystemRepos waits for its answer
    fetches,   \* fetchRepo's under way; free when repos is <<>>
    catalog,   \* allModules: the ids with their repositories
    from,      \* history: the list of the fetch that made the catalog
    query,     \* searchQuery
    shown,     \* the ids of the cards that are not search-hidden
    msg,       \* repo-empty-msg
    manager    \* repo-manager-dialog is open

page == <<catalog, from, query, shown, msg>>
lists == <<stored, legacy, sysFile, opens, sys, sysRead>>
vars == <<lists, fetches, page, manager>>

Slots == 1 .. MaxFetches
NoFetch == [repos |-> <<>>, wait |-> {}, ok |-> {}]
Fetch == [repos : Seq(Texts), wait : SUBSET Nat, ok : SUBSET Nat]
Entries == [id : Mods, repo : Urls]
Messages == {"hidden", "loading", "none", "nomatch"}

TypeOK ==
    /\ {stored, sysFile, sys, from} \subseteq Seq(Texts) /\ legacy \in Texts \cup {NoUrl}
    /\ opens \in 0 .. MaxOpens /\ sysRead \in BOOLEAN /\ manager \in BOOLEAN
    /\ fetches \in [Slots -> Fetch]
    /\ \A i \in Slots : fetches[i].wait \cup fetches[i].ok \subseteq DOMAIN fetches[i].repos
    /\ catalog \subseteq Entries /\ query \in Queries /\ shown \subseteq Mods /\ msg \in Messages

Init ==
    /\ stored \in SavedLists /\ legacy \in LegacyUrls /\ sysFile \in SystemLists
    /\ opens = 0 /\ sys = <<>> /\ sysRead = FALSE
    /\ fetches = [i \in Slots |-> NoFetch]
    /\ catalog = {} /\ from = <<>> /\ query = Mods /\ shown = {} /\ msg = "hidden"
    /\ manager = FALSE

----------------------------------------------------------------------------
\* Which repositories.

\* Mutants: retired URLs are kept; they become empty.
Moved_Kept(u) == u
Moved_Empty(u) == IF u \in Retired THEN NoUrl ELSE u
Moved(u) == IF u \in Retired THEN Default ELSE u
\* The elements of a list at the places in K, in their order.
Pick(list, K) ==
    [n \in 1 .. Cardinality(K) |-> list[CHOOSE k \in K : Cardinality({j \in K : j <= k}) = n]]
\* normalizeStoredRepos: the current URLs, the first of equal ones.
Firsts(list) == {k \in DOMAIN list : \A j \in 1 .. k - 1 : Moved(list[j]) # Moved(list[k])}
Normal(list) == Pick([k \in DOMAIN list |-> Moved(list[k])], Firsts(list))
\* Mutant: the legacy URL wins over a saved list.
Saved_Legacy == IF legacy # NoUrl THEN Normal(<<legacy>>) ELSE Normal(stored)
\* getRepos() without a system list: what it leaves in localStorage.
Saved == IF legacy # NoUrl /\ stored = <<>> THEN Normal(<<legacy>>) ELSE Normal(stored)
\* What it answers, given what is then in localStorage.
InForce(sy, st) == IF sy # <<>> THEN sy ELSE IF st # <<>> THEN st ELSE <<Default>>
\* One call of getRepos: the answer, and its writes unless a system list comes first.
GetRepos(list) ==
    /\ list = InForce(sys, Saved)
    /\ stored' = IF sys # <<>> THEN stored ELSE Saved
    /\ legacy' = IF sys = <<>> /\ stored = <<>> THEN NoUrl ELSE legacy

\* loadSystemRepos has its answer.
SystemRead ==
    /\ sysRead /\ sysRead' = FALSE /\ sys' = sysFile
    /\ UNCHANGED <<stored, legacy, sysFile, opens, fetches, page, manager>>

----------------------------------------------------------------------------
\* Fetching.

Free(i) == fetches[i].repos = <<>> /\ \A j \in 1 .. i - 1 : fetches[j].repos # <<>>
\* fetchRepo up to Promise.all; an invalid URL is no request.
Asking(list) ==
    [repos |-> list, wait |-> {k \in DOMAIN list : list[k] \in Urls}, ok |-> {}]
FetchRepo ==
    \E i \in Slots, list \in {InForce(sys, Saved)} :
        /\ Free(i) /\ GetRepos(list)
        /\ fetches' = [fetches EXCEPT ![i] = Asking(list)]
        /\ msg' = "loading"
\* The repository page, its refresh button and a pull.
Visit ==
    /\ opens > 0 /\ FetchRepo
    /\ UNCHANGED <<sysFile, opens, sys, sysRead, catalog, from, query, shown, manager>>

\* fetchOne: curl answers, or fails, within its ten seconds.
Answer(i, k) ==
    /\ k \in fetches[i].wait
    /\ \E good \in BOOLEAN :
           fetches' = [fetches EXCEPT ![i].wait = @ \ {k}, ![i].ok = IF good THEN @ \cup {k} ELSE @]
    /\ UNCHANGED <<lists, page, manager>>

\* Where the merge takes a module from: the first that answered and has it.
Offer(f, m) == {k \in f.ok : m \in Content[f.repos[k]]
                        /\ \A j \in f.ok : j < k => m \notin Content[f.repos[j]]}
\* The modules of the catalogs that answered.
Merged(f) == {e \in Entries : \E k \in Offer(f, e.id) : f.repos[k] = e.repo}
Ids(c) == {e.id : e \in c}
\* Mutant: the query is forgotten when the list is drawn again.
Filter_All(c, q) == /\ shown' = Ids(c)
                    /\ msg' = IF c = {} THEN "none" ELSE IF Ids(c) \cap q = {} THEN "nomatch" ELSE "hidden"
\* renderRepoList and applyFilters.
Filter(c, q) == /\ shown' = Ids(c) \cap q
                /\ msg' = IF c = {} THEN "none" ELSE IF Ids(c) \cap q = {} THEN "nomatch" ELSE "hidden"
\* Mutant: an empty result returns before the message is set.
Land_Silent(i) ==
    /\ fetches[i].repos # <<>> /\ fetches[i].wait = {}
    /\ fetches' = [fetches EXCEPT ![i] = NoFetch]
    /\ catalog' = Merged(fetches[i]) /\ from' = fetches[i].repos
    /\ IF catalog' = {} THEN shown' = {} /\ msg' = msg ELSE Filter(catalog', query)
    /\ UNCHANGED <<lists, query, manager>>
\* Mutant: a catalog that is merged later replaces the entries of an earlier one.
Land_LastWins(i) ==
    LET f == fetches[i]
        last(m) == {k \in f.ok : m \in Content[f.repos[k]]
                       /\ \A j \in f.ok : j > k => m \notin Content[f.repos[j]]}
    IN  /\ f.repos # <<>> /\ f.wait = {}
        /\ fetches' = [fetches EXCEPT ![i] = NoFetch]
        /\ catalog' = {e \in Entries : \E k \in last(e.id) : f.repos[k] = e.repo}
        /\ from' = f.repos /\ Filter(catalog', query)
        /\ UNCHANGED <<lists, query, manager>>
\* fetchRepo after Promise.all.
Land(i) ==
    /\ fetches[i].repos # <<>> /\ fetches[i].wait = {}
    /\ fetches' = [fetches EXCEPT ![i] = NoFetch]
    /\ catalog' = Merged(fetches[i]) /\ from' = fetches[i].repos
    /\ Filter(catalog', query)
    /\ UNCHANGED <<lists, query, manager>>

\* Typing into the search field, or closing it.
Search ==
    /\ opens > 0 /\ query' \in Queries /\ Filter(catalog, query')
    /\ UNCHANGED <<lists, fetches, catalog, from, manager>>

----------------------------------------------------------------------------
\* The repository manager.  Its rows are text fields, so what they are filled
\* with does not bound what they hold when they are saved.

OpenManager ==
    /\ opens > 0 /\ ~manager /\ manager' = TRUE /\ GetRepos(InForce(sys, Saved))
    /\ UNCHANGED <<sysFile, opens, sys, sysRead, fetches, page>>

Kept(rows) == LET valid == {k \in DOMAIN rows : rows[k] \in Urls}
              IN  IF valid = {} THEN <<Default>> ELSE Pick(rows, valid)
\* Save writes the list as typed and fetches at once: that getRepos cleans it up.
SaveRepos ==
    \E rows \in Typed, i \in Slots :
        LET clean == Normal(Kept(rows))
            list == InForce(sys, clean)
        IN  /\ manager /\ manager' = FALSE /\ Free(i)
            /\ stored' = IF sys # <<>> THEN Kept(rows) ELSE clean
            /\ fetches' = [fetches EXCEPT ![i] = Asking(list)] /\ msg' = "loading"
            /\ UNCHANGED <<legacy, sysFile, opens, sys, sysRead, catalog, from, query, shown>>
CancelManager ==
    /\ manager /\ manager' = FALSE
    /\ UNCHANGED <<lists, fetches, page>>

----------------------------------------------------------------------------
\* The WebUI is opened, for the first time or again: initRepoPage starts the read
\* of repos.json, the settings line calls getRepos, and the catalog is fetched.
Open ==
    /\ opens < MaxOpens /\ opens' = opens + 1
    /\ sys' = <<>> /\ sysRead' = TRUE /\ sysFile' = sysFile
    /\ stored' = Saved /\ legacy' = IF stored = <<>> THEN NoUrl ELSE legacy
    /\ fetches' = [i \in Slots |-> IF i = 1 THEN Asking(InForce(<<>>, Saved)) ELSE NoFetch]
    /\ catalog' = {} /\ from' = <<>> /\ query' = Mods /\ shown' = {} /\ msg' = "loading"
    /\ manager' = FALSE

Ends == (\E i \in Slots : Land(i) \/ \E k \in fetches[i].wait : Answer(i, k))
Next ==
    \/ Open \/ SystemRead \/ Visit \/ Search
    \/ OpenManager \/ SaveRepos \/ CancelManager
    \/ Ends
\* curl has --max-time 10.
Spec == Init /\ [][Next]_vars /\ WF_vars(Ends)

----------------------------------------------------------------------------
\* Properties.

\* Without a system list, a fetch asks each repository once and never a retired
\* one, whatever was saved, migrated or typed.
AskedListIsClean ==
    \A i \in Slots : LET list == fetches[i].repos IN
        sys = <<>> => IsInjective(list) /\ ToSet(list) \cap Retired = {}
\* The catalog has every module once, and takes it from no repository that another
\* one with this module, of which it has anything, comes before in the list.
FirstRepositoryWins ==
    LET Places(u) == {p \in DOMAIN from : from[p] = u} IN
    \A e, d \in catalog :
        /\ e.id = d.id => e = d
        /\ (\A p \in Places(d.repo), q \in Places(e.repo) : p < q) => e.id \notin Content[d.repo]
\* What is shown under the search field is true of the list unless it says that it
\* is loading, and it says so only while a fetch is under way.
MessageIsTrue ==
    /\ msg = "loading" => \E i \in Slots : fetches[i].repos # <<>>
    /\ msg = "none" <=> msg # "loading" /\ opens > 0 /\ catalog = {}
    /\ msg = "nomatch" => shown = {} /\ catalog # {}
    /\ shown = Ids(catalog) \cap query
\* A list the user has saved changes only when he saves another; reading it may
\* clean it up and no more, and a legacy URL does not replace it.
SavedListSurvives == [][stored # <<>> /\ ~SaveRepos => stored' \in {stored, Normal(stored)}]_vars
\* The page does not load forever.
LoadingEnds == msg = "loading" ~> msg # "loading"

\* kpm_repo.js:427: saving a list refreshes the page with the new list: when no
\* fetch is under way, the modules shown are of the list in force.
CatalogIsOfList ==
    (\A i \in Slots : fetches[i].repos = <<>>) /\ sys = <<>> /\ opens > 0
        => \A e \in catalog : e.repo \in ToSet(InForce(sys, stored))
\* kpm_repo.js:51: if repos.json exists, it defines the list: nothing else is asked.
SystemListRules ==
    sysFile # <<>> => \A i \in Slots : ToSet(fetches[i].repos) \subseteq ToSet(sysFile)
=============================================================================
