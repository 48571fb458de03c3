------------------------------ MODULE Settings ------------------------------
(***************************************************************************)
(* What the settings and stealth pages write, and the update dialog.  The  *)
(* signature policy is a line of the file `config`, a stealth KPM's switch *)
(* a line of its own file; both are read with grep and written with sed,   *)
(* one command each.  The update dialog is filled by the check at the      *)
(* start and by the check of the settings page, each in its own way.       *)
(*                                                                         *)
(* A line is how it is written, `key=value` or `key = value`, and what it  *)
(* says.  A release is its version and whether update.json has its hash;   *)
(* download URLs are valid.  Reads and writes may fail, and not all that   *)
(* fail say so.                                                            *)
(***************************************************************************)
EXTENDS Naturals, FiniteSets

CONSTANTS
    Kpms,      \* the stealth KPMs in kpm/
    Styles,    \* how a line may be written before the WebUI writes it
    Releases,  \* what update.json may say: [version : Nat, hash : BOOLEAN]
    Local,     \* the installed version
    None,      \* no line, no release
    MaxActs,   \* bound: what the user does
    Patient    \* the user waits for a list, and for the write of what he sets anew

Policies == {"off", "warn", "strict"}
ASSUME StyleAssumption == Styles \subseteq {"tight", "spaced"} /\ "tight" \in Styles
ASSUME ReleaseAssumption == Releases \subseteq [version : Nat, hash : BOOLEAN] /\ Local \in Nat
ASSUME NoneAssumption == None \notin Releases /\ Kpms # {}
ASSUME BoundAssumption == MaxActs \in Nat /\ Patient \in BOOLEAN

VARIABLES
    config,    \* the policy's line
    conf,      \* by KPM: the line `enabled`
    acts,      \* what the user did so far
    select,    \* kpm-sig-policy-select
    current,   \* what initSignaturePolicy has read; None before
    saving,    \* policies being written
    stale,     \* history: `current` was not read, or has been written over since
    doubt,     \* history: `select` rests on that, or on a write that failed silently
    cards,     \* the cards of the stealth page, and which fetch drew them; history
               \* `sure`: from a file that was read, with no write of it under way
    lists,     \* refreshStealthList's under way: the KPMs that are read, and how
    writes,    \* switches being written, and which fetch drew them
    remote,    \* update.json
    checks,    \* by caller: the checks that have no answer yet
    due,       \* the start's dialog will open in 800 ms
    dialog,    \* update-dialog: open, and the version it shows
    onclick,   \* the release its button's onclick downloads
    once,      \* the releases its button's once-listeners download
    asked,     \* history: the settings page has checked
    opened     \* history: the releases that the last click opened in the browser

policy == <<config, select, current, saving, stale, doubt>>
stealth == <<conf, cards, lists, writes>>
update == <<remote, checks, due, dialog, onclick, once, asked, opened>>
vars == <<acts, policy, stealth, update>>

NoLine == [style |-> "none", val |-> None]
Lines(V) == [style : Styles, val : V] \cup {NoLine}
Fetches == {1, 2}
Gone == 0  \* of a card that has been removed from the page
Callers == {"start", "page"}
Free == [ph |-> "free", got |-> [k \in Kpms |-> None], unsure |-> {}]

TypeOK ==
    /\ config \in Lines(Policies) /\ conf \in [Kpms -> Lines(BOOLEAN)] /\ acts \in 0 .. MaxActs
    /\ select \in Policies /\ current \in Policies \cup {None} /\ saving \subseteq Policies
    /\ stale \in BOOLEAN /\ doubt \in BOOLEAN /\ asked \in BOOLEAN /\ due \in BOOLEAN
    /\ cards \subseteq [id : Kpms, by : Fetches, on : BOOLEAN, tag : BOOLEAN, sure : BOOLEAN]
    /\ \A c, d \in cards : c.id = d.id /\ c.by = d.by => c = d
    /\ lists \in [Fetches -> [ph : {"free", "read"}, got : [Kpms -> BOOLEAN \cup {None}],
                              unsure : SUBSET Kpms]]
    /\ writes \subseteq [id : Kpms, by : Fetches \cup {Gone}, on : BOOLEAN]
    /\ remote \in Releases /\ checks \in [Callers -> Nat]
    /\ dialog \in [open : BOOLEAN, release : Releases \cup {None}] /\ onclick \in Releases \cup {None}
    /\ once \subseteq Releases /\ opened \subseteq Releases

Init ==
    /\ config \in Lines(Policies) /\ conf \in [Kpms -> Lines(BOOLEAN)] /\ acts = 0
    /\ select = "off" /\ current = None /\ saving = {} /\ stale = FALSE /\ doubt = FALSE
    /\ cards = {} /\ lists = [f \in Fetches |-> Free] /\ writes = {}
    /\ remote \in Releases /\ checks = [c \in Callers |-> IF c = "start" THEN 1 ELSE 0]
    /\ due = FALSE /\ dialog = [open |-> FALSE, release |-> None]
    /\ onclick = None /\ once = {} /\ asked = FALSE /\ opened = {}

Acts == acts < MaxActs /\ acts' = acts + 1

----------------------------------------------------------------------------
\* Lines of a configuration file.

\* Mutant: no default for a line that is not there.
Says_NoDefault(line, default) == line.val
\* The commands of the page find the line, and trim it, however it is written.
Says(line, default) == IF line = NoLine THEN default ELSE line.val
\* grep finds the line; sed replaces it if no space precedes the sign.
Written(line, v) == IF line.style = "spaced" THEN line ELSE [style |-> "tight", val |-> v]

\* What service.sh makes of the policy's line: it finds it, and does not trim it.
Boots(line) == IF line.style = "tight" THEN line.val ELSE "off"

----------------------------------------------------------------------------
\* The signature policy.

\* initSignaturePolicy has read the file, or taken `off` for it, and attaches its
\* handler.
ReadPolicy(ok) ==
    /\ current = None /\ current' = (IF ok THEN Says(config, "off") ELSE "off") /\ select' = current'
    /\ stale' = ~ok /\ doubt' = ~ok
    /\ UNCHANGED <<acts, config, saving, stealth, update>>
SelectPolicy(p) ==
    /\ Acts /\ current # None /\ p # select /\ (Patient => saving = {})
    /\ select' = p /\ saving' = saving \cup {p}
    /\ UNCHANGED <<config, current, stale, doubt, stealth, update>>
\* Mutant: the page does not go back.
Refused_Stays(p) == p
\* Where no command could be run the select goes back to what was read first.
Refused(p) == current
\* The command has ended.  It ends in `|| true`: where the line could not be written
\* nothing tells.
PolicySaved(p) ==
    /\ p \in saving /\ saving' = saving \ {p}
    /\ \/ config' = Written(config, p) /\ select' = select /\ stale' = TRUE /\ doubt' = FALSE
       \/ config' = config /\ select' = select /\ stale' = stale /\ doubt' = TRUE
       \/ config' = config /\ select' = Refused(p) /\ stale' = stale /\ doubt' = stale
    /\ UNCHANGED <<acts, current, stealth, update>>

----------------------------------------------------------------------------
\* The stealth page.

Reading == \E f \in Fetches : lists[f].ph = "read"
\* refreshStealthList up to its await: the page is emptied.
OpenStealth ==
    /\ Acts /\ (Patient => ~Reading)
    /\ cards' = {} /\ writes' = {[w EXCEPT !.by = Gone] : w \in writes}
    /\ \E f \in Fetches : /\ lists[f].ph = "free" /\ \A g \in 1 .. f - 1 : lists[g].ph = "read"
                          /\ lists' = [lists EXCEPT ![f] = [Free EXCEPT !.ph = "read"]]
    /\ UNCHANGED <<conf, policy, update>>
\* ls fails: the page says that no stealth KPM is installed.
NoStealth(f) ==
    /\ lists[f].ph = "read" /\ \A k \in Kpms : lists[f].got[k] = None
    /\ lists' = [lists EXCEPT ![f] = Free]
    /\ UNCHANGED <<acts, conf, cards, writes, policy, update>>
\* readKpmEnabled: a KPM whose file could not be read is enabled.
ReadEnabled(f, k, ok) ==
    /\ lists[f].ph = "read" /\ lists[f].got[k] = None
    /\ lists' = [lists EXCEPT ![f].got[k] = ~ok \/ Says(conf[k], TRUE),
                              ![f].unsure = @ \cup {j \in {k} : ~ok \/ \E w \in writes : w.id = j}]
    /\ UNCHANGED <<acts, conf, cards, writes, policy, update>>
\* renderCard.
Card(f, k) == [id |-> k, by |-> f, on |-> lists[f].got[k], tag |-> lists[f].got[k],
               sure |-> k \notin lists[f].unsure]
ShowStealth(f) ==
    /\ lists[f].ph = "read" /\ \A k \in Kpms : lists[f].got[k] # None
    /\ lists' = [lists EXCEPT ![f] = Free]
    /\ cards' = cards \cup {Card(f, k) : k \in Kpms}
    /\ UNCHANGED <<acts, conf, writes, policy, update>>
Toggle(c) ==
    /\ Acts /\ (Patient => \A w \in writes : w.id # c.id)
    /\ cards' = (cards \ {c}) \cup {[c EXCEPT !.on = ~c.on]}
    /\ writes' = writes \cup {[id |-> c.id, by |-> c.by, on |-> ~c.on]}
    /\ UNCHANGED <<conf, lists, policy, update>>
\* Mutant: a failure leaves the switch where it is.
Shown_Forward(c, w, ok) == IF ok THEN [c EXCEPT !.tag = w.on, !.sure = TRUE] ELSE c
\* The card of a switch whose write has ended.
Shown(c, w, ok) == IF ok THEN [c EXCEPT !.tag = w.on, !.sure = TRUE] ELSE [c EXCEPT !.on = ~w.on]
\* writeKpmEnabled has ended; nothing is left to show it on a page drawn since.
ToggleSaved(w) ==
    \E ok \in BOOLEAN :
        /\ w \in writes /\ writes' = writes \ {w}
        /\ conf' = IF ok THEN [conf EXCEPT ![w.id] = Written(@, w.on)] ELSE conf
        /\ cards' = {IF c.id = w.id /\ c.by = w.by THEN Shown(c, w, ok) ELSE c : c \in cards}
        /\ UNCHANGED <<acts, lists, policy, update>>

----------------------------------------------------------------------------
\* The update dialog.

Publish(r) ==
    /\ r.version > remote.version \/ (r.version = remote.version /\ r.hash /\ ~remote.hash)
    /\ remote' = r
    /\ UNCHANGED <<acts, policy, stealth, checks, due, dialog, onclick, once, asked, opened>>
\* The settings page's check: each click begins one.
Check ==
    /\ Acts /\ checks' = [checks EXCEPT !["page"] = @ + 1] /\ asked' = TRUE
    /\ UNCHANGED <<policy, stealth, remote, due, dialog, onclick, once, opened>>
\* Mutant: the installed version is offered as well.
Offers_Same(r) == r.version >= Local
\* checkForUpdates: updateAvailable.
Offers(r) == r.version > Local
\* An answer is what update.json says when it comes.
\* maybeNotifyUpdate has its answer: showUpdateDialog sets the button's onclick.
StartAnswer(ok) ==
    /\ checks["start"] > 0 /\ checks' = [checks EXCEPT !["start"] = @ - 1]
    /\ IF ok /\ Offers(remote)
       THEN due' = TRUE /\ onclick' = remote /\ dialog' = [dialog EXCEPT !.release = remote]
       ELSE UNCHANGED <<due, onclick, dialog>>
    /\ UNCHANGED <<acts, policy, stealth, remote, once, asked, opened>>
ShowDue ==
    /\ due /\ due' = FALSE /\ dialog' = [dialog EXCEPT !.open = TRUE]
    /\ UNCHANGED <<acts, policy, stealth, remote, checks, onclick, once, asked, opened>>
\* The page's check has its answer: it adds one more listener to the button.
PageAnswer(ok) ==
    /\ checks["page"] > 0 /\ checks' = [checks EXCEPT !["page"] = @ - 1]
    /\ IF ok /\ Offers(remote)
       THEN once' = once \cup {remote} /\ dialog' = [open |-> TRUE, release |-> remote]
       ELSE UNCHANGED <<once, dialog>>
    /\ UNCHANGED <<acts, policy, stealth, remote, due, onclick, asked, opened>>
Later ==
    /\ dialog.open /\ dialog' = [dialog EXCEPT !.open = FALSE]
    /\ UNCHANGED <<acts, policy, stealth, remote, checks, due, onclick, once, asked, opened>>
\* The button runs its onclick, which wants a hash, and every listener, which does not.
Download ==
    /\ dialog.open /\ dialog' = [dialog EXCEPT !.open = FALSE] /\ once' = {}
    /\ opened' = once \cup {r \in {onclick} \ {None} : r.hash}
    /\ UNCHANGED <<acts, policy, stealth, remote, checks, due, onclick, asked>>

----------------------------------------------------------------------------
Next ==
    \/ \E ok \in BOOLEAN : ReadPolicy(ok)
    \/ \E p \in Policies : SelectPolicy(p) \/ PolicySaved(p)
    \/ OpenStealth
    \/ \E f \in Fetches : NoStealth(f) \/ ShowStealth(f)
    \/ \E f \in Fetches, k \in Kpms, ok \in BOOLEAN : ReadEnabled(f, k, ok)
    \/ \E c \in cards : Toggle(c)
    \/ \E w \in writes : ToggleSaved(w)
    \/ \E r \in Releases : Publish(r)
    \/ Check \/ \E ok \in BOOLEAN : StartAnswer(ok) \/ PageAnswer(ok)
    \/ ShowDue \/ Later \/ Download
Spec == Init /\ [][Next]_vars

----------------------------------------------------------------------------
\* Properties.

\* When nothing is being written, the select shows what boot will read: unless it
\* shows a policy that was not read or written although nothing told so, or went
\* back to one older than the last save.  A switch agrees with its tag, and both with
\* the KPM's file, unless the file could not be read, or was read while a write of it
\* was under way, and no write of the switch has succeeded since.  All for lines
\* without a space before the sign: the page finds others, and does not replace them.
ShownIsSaved ==
    /\ current # None /\ saving = {} /\ ~doubt /\ config.style # "spaced" => select = Boots(config)
    /\ \A c \in cards : (\A w \in writes : w.id # c.id) =>
          /\ c.on = c.tag
          /\ c.sure /\ conf[c.id].style # "spaced" => c.on = Says(conf[c.id], TRUE)
\* A click never opens a release that is not newer; and until the settings page has
\* checked, only the one that is shown, with its hash.
OfferIsSafe ==
    /\ \A r \in opened : r.version > Local
    /\ ~asked => \A r \in opened : r.hash /\ r = dialog.release
=============================================================================
