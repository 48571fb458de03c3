-------------------------- MODULE Settings_proofs --------------------------
(***************************************************************************)
(* Theorems about Settings, for any KPMs, releases and number of clicks.   *)
(* The three parts of the state do not depend on each other: each has an   *)
(* invariant of its own, which the actions of the other two leave alone.   *)
(***************************************************************************)
EXTENDS Settings, TLAPS

PolicyTypes ==
    /\ config \in Lines(Policies) /\ select \in Policies /\ current \in Policies \cup {None}
    /\ saving \subseteq Policies /\ stale \in BOOLEAN /\ doubt \in BOOLEAN
    \* The handler is attached after the read.
    /\ current = None => saving = {}
Cards == [id : Kpms, by : Fetches, on : BOOLEAN, tag : BOOLEAN, sure : BOOLEAN]
Lists == [ph : {"free", "read"}, got : [Kpms -> BOOLEAN \cup {None}], unsure : SUBSET Kpms]
Writes == [id : Kpms, by : Fetches \cup {Gone}, on : BOOLEAN]
StealthTypes ==
    /\ conf \in [Kpms -> Lines(BOOLEAN)]
    /\ cards \subseteq Cards
    /\ \A c, d \in cards : c.id = d.id /\ c.by = d.by => c = d
    /\ lists \in [Fetches -> Lists]
    /\ writes \subseteq Writes
    \* A fetch under way has no cards yet.
    /\ \A f \in Fetches : lists[f].ph = "read" => \A c \in cards : c.by # f
UpdateTypes ==
    /\ asked \in BOOLEAN /\ due \in BOOLEAN
    /\ remote \in Releases /\ checks \in [Callers -> Nat]
    /\ dialog \in [open : BOOLEAN, release : Releases \cup {None}] /\ onclick \in Releases \cup {None}
    /\ once \subseteq Releases /\ opened \subseteq Releases

PolicyNext ==
    \/ \E ok \in BOOLEAN : ReadPolicy(ok)
    \/ \E p \in Policies : SelectPolicy(p) \/ PolicySaved(p)
StealthNext ==
    \/ OpenStealth
    \/ \E f \in Fetches : NoStealth(f) \/ ShowStealth(f)
    \/ \E f \in Fetches, k \in Kpms, ok \in BOOLEAN : ReadEnabled(f, k, ok)
    \/ \E c \in cards : Toggle(c)
    \/ \E w \in writes : ToggleSaved(w)
UpdateNext ==
    \/ \E r \in Releases : Publish(r)
    \/ Check \/ \E ok \in BOOLEAN : StartAnswer(ok) \/ PageAnswer(ok)
    \/ ShowDue \/ Later \/ Download

LEMMA Split == [Next]_vars <=> PolicyNext \/ StealthNext \/ UpdateNext \/ UNCHANGED vars
  BY DEF Next, PolicyNext, StealthNext, UpdateNext

LEMMA Others ==
    /\ PolicyNext => UNCHANGED <<stealth, update>>
    /\ StealthNext => UNCHANGED <<policy, update>>
    /\ UpdateNext => UNCHANGED <<policy, stealth>>
    /\ UNCHANGED vars => UNCHANGED <<policy, stealth, update>>
  <1>1. PolicyNext => UNCHANGED <<stealth, update>>
    BY DEF PolicyNext, ReadPolicy, SelectPolicy, PolicySaved
  <1>2. StealthNext => UNCHANGED <<policy, update>>
    BY DEF StealthNext, OpenStealth, NoStealth, ShowStealth, ReadEnabled, Toggle, ToggleSaved
  <1>3. UpdateNext => UNCHANGED <<policy, stealth>>
    BY DEF UpdateNext, Publish, Check, StartAnswer, PageAnswer, ShowDue, Later, Download
  <1> QED
    BY <1>1, <1>2, <1>3 DEF vars

----------------------------------------------------------------------------
\* Types.

LEMMA LineTypes ==
    ASSUME NEW V, NEW line \in Lines(V), NEW v \in V
    PROVE  /\ Says(line, v) \in V
           /\ Written(line, v) \in Lines(V)
  BY StyleAssumption DEF Lines, NoLine, Says, Written

LEMMA PolicyTypesStep == PolicyTypes /\ [Next]_vars => PolicyTypes'
  <1> SUFFICES ASSUME PolicyTypes, [Next]_vars PROVE PolicyTypes'
    OBVIOUS
  <1> USE DEF PolicyTypes
  <1>0. "off" \in Policies
    BY DEF Policies
  <1>1. ASSUME NEW ok \in BOOLEAN, ReadPolicy(ok) PROVE PolicyTypes'
    <2>1. Says(config, "off") \in Policies
      BY <1>0, LineTypes
    <2> QED
      BY <1>0, <1>1, <2>1 DEF ReadPolicy
  <1>2. ASSUME NEW p \in Policies, SelectPolicy(p) PROVE PolicyTypes'
    BY <1>2 DEF SelectPolicy
  <1>3. ASSUME NEW p \in Policies, PolicySaved(p) PROVE PolicyTypes'
    <2>1. p \in saving /\ current \in Policies
      BY <1>3 DEF PolicySaved
    <2>2. Written(config, p) \in Lines(Policies)
      BY LineTypes
    <2> QED
      BY <1>3, <2>1, <2>2 DEF PolicySaved, Refused
  <1>4. CASE StealthNext \/ UpdateNext \/ UNCHANGED vars
    BY <1>4, Others DEF policy
  <1> QED
    BY <1>1, <1>2, <1>3, <1>4, Split DEF PolicyNext

\* The card of a switch whose write has ended is a card of the same switch.
LEMMA ShownTypes ==
    ASSUME NEW c \in Cards, NEW w \in Writes, NEW ok \in BOOLEAN
    PROVE  /\ Shown(c, w, ok) \in Cards
           /\ Shown(c, w, ok).id = c.id /\ Shown(c, w, ok).by = c.by
  BY DEF Shown, Cards, Writes

\* A list under way has read one KPM more.
Got(f, k, v, m) ==
    /\ lists' \in [Fetches -> Lists]
    /\ \A g \in Fetches : g # f => lists'[g] = lists[g]
    /\ lists'[f].ph = "read"
    /\ lists'[f].got = [lists[f].got EXCEPT ![k] = v]
    /\ lists'[f].unsure = lists[f].unsure \cup m
    /\ k \notin m => v = Says(conf[k], TRUE) /\ \A w \in writes : w.id # k
LEMMA ReadTypes ==
    ASSUME NEW f \in Fetches, NEW k \in Kpms
    PROVE  StealthTypes /\ (\E ok \in BOOLEAN : ReadEnabled(f, k, ok)) =>
              \E v, m : Got(f, k, v, m)
  <1> SUFFICES ASSUME StealthTypes, NEW ok \in BOOLEAN, ReadEnabled(f, k, ok)
               PROVE  \E v, m : Got(f, k, v, m)
    OBVIOUS
  <1> DEFINE v == ~ok \/ Says(conf[k], TRUE)
             m == {j \in {k} : ~ok \/ \E w \in writes : w.id = j}
             old == lists[f]
             new == [[old EXCEPT !.got[k] = v] EXCEPT !.unsure = @ \cup m]
  <1>1. v \in BOOLEAN /\ m \in SUBSET Kpms
    BY LineTypes DEF StealthTypes
  <1>2. old \in Lists /\ lists \in [Fetches -> Lists] /\ old.ph = "read"
    BY DEF StealthTypes, ReadEnabled
  <1>3. lists' = [lists EXCEPT ![f].got[k] = v, ![f].unsure = @ \cup m]
    BY DEF ReadEnabled
  <1>4. k \notin m => v = Says(conf[k], TRUE) /\ \A w \in writes : w.id # k
    <2>1. Says(conf[k], TRUE) \in BOOLEAN
      BY LineTypes DEF StealthTypes
    <2> QED
      BY <2>1
  <1> HIDE DEF v, m
  <1>5. lists' = [lists EXCEPT ![f] = new]
    BY <1>2, <1>3
  <1>6. /\ new \in Lists /\ new.ph = old.ph /\ new.got = [old.got EXCEPT ![k] = v]
        /\ new.unsure = old.unsure \cup m
    BY <1>1, <1>2 DEF Lists
  <1> HIDE DEF new
  <1>7. /\ lists' \in [Fetches -> Lists] /\ lists'[f] = new
        /\ \A g \in Fetches : g # f => lists'[g] = lists[g]
    BY <1>2, <1>5, <1>6
  <1>8. Got(f, k, v, m)
    BY <1>2, <1>4, <1>6, <1>7 DEF Got
  <1> QED
    BY <1>8

\* The card of a list that has been read.
LEMMA CardTypes ==
    ASSUME NEW f \in Fetches, NEW k \in Kpms, lists \in [Fetches -> Lists], lists[f].got[k] # None
    PROVE  /\ Card(f, k) \in Cards
           /\ Card(f, k).id = k /\ Card(f, k).by = f
           /\ Card(f, k).on = lists[f].got[k] /\ Card(f, k).tag = lists[f].got[k]
           /\ Card(f, k).sure = (k \notin lists[f].unsure)
  <1>1. lists[f].got[k] \in BOOLEAN
    BY DEF Lists
  <1> QED
    BY <1>1 DEF Card, Cards

LEMMA FreeTypes ==
    /\ Free \in Lists /\ Free.ph = "free"
    /\ [Free EXCEPT !.ph = "read"] \in Lists
    /\ [Free EXCEPT !.ph = "read"].unsure = {}
    /\ \A k \in Kpms : [Free EXCEPT !.ph = "read"].got[k] = None
  BY DEF Free, Lists

LEMMA StealthTypesStep == StealthTypes /\ [Next]_vars => StealthTypes'
  <1> SUFFICES ASSUME StealthTypes, [Next]_vars PROVE StealthTypes'
    OBVIOUS
  <1>0. ASSUME NEW f \in Fetches, NEW k \in Kpms, \E ok \in BOOLEAN : ReadEnabled(f, k, ok)
        PROVE  lists' \in [Fetches -> Lists] /\ \A g \in Fetches : g # f => lists'[g] = lists[g]
    <2>1. PICK v, m : Got(f, k, v, m)
      BY <1>0, ReadTypes
    <2> QED
      BY <2>1 DEF Got
  <1> USE DEF StealthTypes
  <1>1. CASE OpenStealth
    <2>1. PICK f \in Fetches : lists' = [lists EXCEPT ![f] = [Free EXCEPT !.ph = "read"]]
      BY <1>1 DEF OpenStealth
    <2>2. lists' \in [Fetches -> Lists]
      BY <2>1, FreeTypes
    <2>3. cards' = {} /\ writes' = {[w EXCEPT !.by = Gone] : w \in writes} /\ conf' = conf
      BY <1>1 DEF OpenStealth
    <2>4. writes' \subseteq Writes
      BY <2>3 DEF Writes
    <2> QED
      BY <2>2, <2>3, <2>4
  <1>2. ASSUME NEW f \in Fetches, NoStealth(f) PROVE StealthTypes'
    <2>1. /\ lists' = [lists EXCEPT ![f] = Free] /\ UNCHANGED <<conf, cards, writes>>
      BY <1>2 DEF NoStealth
    <2>2. lists' \in [Fetches -> Lists] /\ \A g \in Fetches : lists'[g].ph = "read" => lists[g].ph = "read"
      BY <2>1, FreeTypes
    <2> QED
      BY <2>1, <2>2
  <1>3. ASSUME NEW f \in Fetches, ShowStealth(f) PROVE StealthTypes'
    <2>1. /\ lists' = [lists EXCEPT ![f] = Free] /\ UNCHANGED <<conf, writes>>
          /\ cards' = cards \cup {Card(f, k) : k \in Kpms}
          /\ lists[f].ph = "read"
      BY <1>3 DEF ShowStealth
    <2>2. /\ lists' \in [Fetches -> Lists]
          /\ \A g \in Fetches : lists'[g].ph = "read" => g # f /\ lists[g].ph = "read"
      BY <2>1, FreeTypes
    <2>3. \A k \in Kpms : Card(f, k) \in Cards /\ Card(f, k).id = k /\ Card(f, k).by = f
      BY <1>3, CardTypes DEF ShowStealth
    <2>4. \A c \in cards' : c \in cards \/ \E k \in Kpms : c = Card(f, k)
      BY <2>1
    <2>5. \A c \in cards : c.by # f
      BY <2>1
    <2>6. cards' \subseteq Cards
      BY <2>3, <2>4
    <2>7. \A c, d \in cards' : c.id = d.id /\ c.by = d.by => c = d
      BY <2>3, <2>4, <2>5
    <2>8. \A g \in Fetches : lists'[g].ph = "read" => \A c \in cards' : c.by # g
      BY <2>2, <2>3, <2>4
    <2> QED
      BY <2>1, <2>2, <2>6, <2>7, <2>8
  <1>4. ASSUME NEW f \in Fetches, NEW k \in Kpms, \E ok \in BOOLEAN : ReadEnabled(f, k, ok)
        PROVE StealthTypes'
    <2>1. UNCHANGED <<conf, cards, writes>> /\ lists[f].ph = "read"
      BY <1>4 DEF ReadEnabled
    <2>2. lists' \in [Fetches -> Lists] /\ \A g \in Fetches : g # f => lists'[g] = lists[g]
      BY <1>0, <1>4
    <2> QED
      BY <2>1, <2>2
  <1>5. ASSUME NEW c \in cards, Toggle(c) PROVE StealthTypes'
    <2> DEFINE new == [c EXCEPT !.on = ~c.on]
    <2>1. /\ new \in Cards /\ new.id = c.id /\ new.by = c.by
          /\ [id |-> c.id, by |-> c.by, on |-> ~c.on] \in Writes
      BY DEF Cards, Writes
    <2>2. cards' = (cards \ {c}) \cup {new} /\ UNCHANGED <<conf, lists>>
      BY <1>5 DEF Toggle
    <2>3. writes' = writes \cup {[id |-> c.id, by |-> c.by, on |-> ~c.on]}
      BY <1>5 DEF Toggle
    <2> HIDE DEF new
    <2>4. \A d, e \in cards' : d.id = e.id /\ d.by = e.by => d = e
      BY <2>1, <2>2
    <2>5. /\ cards' \subseteq Cards
          /\ \A f \in Fetches : lists'[f].ph = "read" => \A d \in cards' : d.by # f
      BY <2>1, <2>2
    <2>6. writes' \subseteq Writes
      BY <2>1, <2>3
    <2> QED
      BY <2>2, <2>4, <2>5, <2>6
  <1>6. ASSUME NEW w \in writes, ToggleSaved(w) PROVE StealthTypes'
    <2>1. PICK ok \in BOOLEAN :
            /\ writes' = writes \ {w}
            /\ conf' = IF ok THEN [conf EXCEPT ![w.id] = Written(@, w.on)] ELSE conf
            /\ cards' = {IF c.id = w.id /\ c.by = w.by THEN Shown(c, w, ok) ELSE c : c \in cards}
            /\ lists' = lists
      BY <1>6 DEF ToggleSaved
    <2>2. conf[w.id] \in Lines(BOOLEAN) /\ w.on \in BOOLEAN
      BY DEF Writes
    <2>3. conf' \in [Kpms -> Lines(BOOLEAN)]
      BY <2>1, <2>2, LineTypes
    <2>4. \A c \in cards : /\ Shown(c, w, ok) \in Cards
                           /\ Shown(c, w, ok).id = c.id /\ Shown(c, w, ok).by = c.by
      BY ShownTypes
    <2>5. \A d \in cards' : \E c \in cards :
            /\ d = IF c.id = w.id /\ c.by = w.by THEN Shown(c, w, ok) ELSE c
            /\ d.id = c.id /\ d.by = c.by
            /\ d \in Cards
      BY <2>1, <2>4
    <2>6. \A c, d \in cards' : c.id = d.id /\ c.by = d.by => c = d
      BY <2>5
    <2> QED
      BY <2>1, <2>3, <2>5, <2>6
  <1>7. CASE PolicyNext \/ UpdateNext \/ UNCHANGED vars
    BY <1>7, Others DEF stealth
  <1> QED
    BY <1>1, <1>2, <1>3, <1>4, <1>5, <1>6, <1>7, Split DEF StealthNext

LEMMA UpdateTypesStep == UpdateTypes /\ [Next]_vars => UpdateTypes'
  <1> SUFFICES ASSUME UpdateTypes, [Next]_vars PROVE UpdateTypes'
    OBVIOUS
  <1> USE DEF UpdateTypes, Callers
  <1>1. ASSUME NEW r \in Releases, Publish(r) PROVE UpdateTypes'
    BY <1>1 DEF Publish
  <1>2. CASE Check
    BY <1>2 DEF Check
  <1>3. ASSUME NEW ok \in BOOLEAN, StartAnswer(ok) PROVE UpdateTypes'
    <2>1. checks["start"] > 0 /\ checks' = [checks EXCEPT !["start"] = @ - 1]
      BY <1>3 DEF StartAnswer
    <2>2. checks' \in [Callers -> Nat]
      BY <2>1
    <2>3. \/ dialog' = dialog /\ onclick' = onclick /\ due' = due
          \/ dialog' = [dialog EXCEPT !.release = remote] /\ onclick' = remote /\ due' = TRUE
      BY <1>3 DEF StartAnswer
    <2>4. UNCHANGED <<remote, once, asked, opened>>
      BY <1>3 DEF StartAnswer
    <2>5. dialog' \in [open : BOOLEAN, release : Releases \cup {None}]
      BY <2>3
    <2> QED
      BY <2>2, <2>3, <2>4, <2>5
  <1>4. ASSUME NEW ok \in BOOLEAN, PageAnswer(ok) PROVE UpdateTypes'
    <2>1. /\ dialog' = dialog \/ dialog' = [open |-> TRUE, release |-> remote]
          /\ once' \in {once, once \cup {remote}}
          /\ checks["page"] > 0 /\ checks' = [checks EXCEPT !["page"] = @ - 1]
          /\ UNCHANGED <<remote, due, onclick, asked, opened>>
      BY <1>4 DEF PageAnswer
    <2>2. dialog' \in [open : BOOLEAN, release : Releases \cup {None}]
      <3>1. [open |-> TRUE, release |-> remote] \in [open : BOOLEAN, release : Releases \cup {None}]
        OBVIOUS
      <3> QED
        BY <2>1, <3>1, Zenon
    <2>3. checks' \in [Callers -> Nat] /\ once' \subseteq Releases
      BY <2>1
    <2> QED
      BY <2>1, <2>2, <2>3
  <1>5. CASE ShowDue \/ Later
    BY <1>5 DEF ShowDue, Later
  <1>6. CASE Download
    BY <1>6 DEF Download
  <1>7. CASE PolicyNext \/ StealthNext \/ UNCHANGED vars
    BY <1>7, Others DEF update
  <1> QED
    BY <1>1, <1>2, <1>3, <1>4, <1>5, <1>6, <1>7, Split DEF UpdateNext

LEMMA ActsStep == acts \in 0 .. MaxActs /\ [Next]_vars => (acts \in 0 .. MaxActs)'
  <1> SUFFICES ASSUME acts \in 0 .. MaxActs, [Next]_vars PROVE acts' \in 0 .. MaxActs
    OBVIOUS
  <1>1. acts' = acts \/ Acts
    BY DEF Next, ReadPolicy, SelectPolicy, PolicySaved, OpenStealth, NoStealth, ShowStealth,
           ReadEnabled,           Toggle, ToggleSaved, Publish, Check, StartAnswer, PageAnswer, ShowDue, Later, Download, vars
  <1> QED
    BY <1>1, BoundAssumption DEF Acts

Types == PolicyTypes /\ StealthTypes /\ UpdateTypes /\ acts \in 0 .. MaxActs

LEMMA InitTypes == Init => Types
  <1> SUFFICES ASSUME Init PROVE Types
    OBVIOUS
  <1> USE DEF Init
  <1>1. PolicyTypes
    BY DEF PolicyTypes, Policies
  <1>2. StealthTypes
    BY FreeTypes DEF StealthTypes
  <1>3. UpdateTypes
    BY DEF UpdateTypes, Callers
  <1> QED
    BY <1>1, <1>2, <1>3, BoundAssumption DEF Types

LEMMA TypesInvariant == Spec => []Types
  <1>1. Types /\ [Next]_vars => Types'
    BY PolicyTypesStep, StealthTypesStep, UpdateTypesStep, ActsStep DEF Types
  <1> QED
    BY InitTypes, <1>1, PTL DEF Spec

\* The pages keep their types, whatever fails and whoever waits.
THEOREM TypeCorrect == Spec => []TypeOK
  <1>1. Types => TypeOK
    BY DEF Types, TypeOK, PolicyTypes, StealthTypes, UpdateTypes, Cards, Lists, Writes
  <1> QED
    BY TypesInvariant, <1>1, PTL

----------------------------------------------------------------------------
\* The update dialog.

\* What may be behind the button, and, until the settings page has checked, that the
\* one check at the start is all that has filled the dialog.
Offered ==
    /\ \A r \in Releases : r \in once \cup {onclick} => Offers(r)
    /\ checks["start"] <= 1
    /\ ~asked => /\ once = {} /\ checks["page"] = 0
                 /\ onclick # None => dialog.release = onclick
                 /\ checks["start"] = 1 => ~due /\ ~dialog.open /\ opened = {}

LEMMA OfferStep == UpdateTypes /\ Offered /\ OfferIsSafe /\ [Next]_vars => Offered' /\ OfferIsSafe'
  <1> SUFFICES ASSUME UpdateTypes, Offered, OfferIsSafe, [Next]_vars PROVE Offered' /\ OfferIsSafe'
    OBVIOUS
  <1> USE NoneAssumption DEF UpdateTypes, Callers, Offered, OfferIsSafe, Offers
  <1>1. ASSUME NEW r \in Releases, Publish(r) PROVE Offered' /\ OfferIsSafe'
    BY <1>1 DEF Publish
  <1>2. CASE Check
    BY <1>2 DEF Check
  <1>3. ASSUME NEW ok \in BOOLEAN, StartAnswer(ok) PROVE Offered' /\ OfferIsSafe'
    BY <1>3 DEF StartAnswer
  <1>4. ASSUME NEW ok \in BOOLEAN, PageAnswer(ok) PROVE Offered' /\ OfferIsSafe'
    BY <1>4 DEF PageAnswer
  <1>5. CASE ShowDue
    BY <1>5 DEF ShowDue
  <1>6. CASE Later
    BY <1>6 DEF Later
  <1>7. CASE Download
    BY <1>7 DEF Download
  <1>8. CASE PolicyNext \/ StealthNext \/ UNCHANGED vars
    BY <1>8, Others DEF update
  <1> QED
    BY <1>1, <1>2, <1>3, <1>4, <1>5, <1>6, <1>7, <1>8, Split DEF UpdateNext

\* No click opens a release that is not newer; and until the settings page has
\* checked, a click opens only the one that the dialog shows, with its hash.
THEOREM OffersSafe == Spec => []OfferIsSafe
  <1>1. Init => Offered /\ OfferIsSafe
    BY NoneAssumption DEF Init, Offered, OfferIsSafe, Callers
  <1>2. Types => UpdateTypes
    BY DEF Types
  <1> QED
    BY TypesInvariant, <1>1, <1>2, OfferStep, PTL DEF Spec

----------------------------------------------------------------------------
\* What is shown and what is saved.

\* At most the shown policy is being written; and with nothing being written, the
\* select and what was read first are what boot reads where nothing speaks against it.
PolicySync ==
    /\ saving \subseteq {select}
    /\ current # None /\ config.style # "spaced" =>
          /\ ~stale => current = Boots(config)
          /\ saving = {} /\ ~doubt => select = Boots(config)

\* A line that is not spaced is read as the page reads it, and says what is written.
LEMMA PolicySays ==
    ASSUME NEW line \in Lines(Policies), line.style # "spaced"
    PROVE  Says(line, "off") = Boots(line)
  <1>1. CASE line = NoLine
    BY <1>1 DEF Says, Boots, NoLine
  <1>2. CASE line # NoLine
    BY <1>2, StyleAssumption DEF Says, Boots, Lines, NoLine
  <1> QED
    BY <1>1, <1>2

LEMMA LineSays ==
    ASSUME NEW V, NEW line \in Lines(V), NEW v \in V, NEW d
    PROVE  /\ line.style # "spaced" => /\ Written(line, v).style = "tight"
                                       /\ Boots(Written(line, v)) = v
                                       /\ Says(Written(line, v), d) = v
           /\ Written(line, v).style = "spaced" <=> line.style = "spaced"
  BY DEF Lines, NoLine, Written, Boots, Says

LEMMA PolicyStep == Patient /\ PolicyTypes /\ PolicySync /\ [Next]_vars => PolicySync'
  <1> SUFFICES ASSUME Patient, PolicyTypes, PolicySync, [Next]_vars PROVE PolicySync'
    OBVIOUS
  <1> USE DEF PolicyTypes, PolicySync
  <1>1. ASSUME NEW ok \in BOOLEAN, ReadPolicy(ok) PROVE PolicySync'
    BY <1>1, PolicySays DEF ReadPolicy
  <1>2. ASSUME NEW p \in Policies, SelectPolicy(p) PROVE PolicySync'
    BY <1>2 DEF SelectPolicy
  <1>3. ASSUME NEW p \in Policies, PolicySaved(p) PROVE PolicySync'
    <2>1. p = select /\ saving' = {} /\ current' = current /\ current # None
      BY <1>3 DEF PolicySaved
    <2>2. CASE config' = Written(config, p) /\ select' = select /\ stale' = TRUE
      BY <2>1, <2>2, LineSays
    <2>3. CASE config' = config /\ stale' = stale /\ doubt' = TRUE
      BY <2>1, <2>3
    <2>4. CASE config' = config /\ select' = Refused(p) /\ stale' = stale /\ doubt' = stale
      BY <2>1, <2>4 DEF Refused
    <2> QED
      BY <1>3, <2>2, <2>3, <2>4 DEF PolicySaved
  <1>4. CASE StealthNext \/ UpdateNext \/ UNCHANGED vars
    BY <1>4, Others DEF policy
  <1> QED
    BY <1>1, <1>2, <1>3, <1>4, Split DEF PolicyNext

\* With a user who waits there is one fetch at a time, on an empty page, and what is
\* on its way then is of cards that are gone.  A KPM of which nothing was unsure when
\* it was read has no such write; and a write is on its way exactly where the switch
\* of a card says otherwise than its tag.
True(k, v) == conf[k].style # "spaced" => v = Says(conf[k], TRUE)
OneFetch ==
    /\ lists[2].ph = "free"
    /\ lists[1].ph = "read" =>
          /\ cards = {}
          /\ \A w \in writes : w.by = Gone
          /\ \A k \in Kpms : lists[1].got[k] # None /\ k \notin lists[1].unsure =>
                True(k, lists[1].got[k]) /\ \A w \in writes : w.id # k
Tagged == \A c \in cards :
    /\ c.by = 1
    /\ c.sure => True(c.id, c.tag) /\ \A w \in writes : w.id = c.id => w.by = 1
Still == \A c \in cards : (\A w \in writes : ~(w.id = c.id /\ w.by = 1)) => c.on = c.tag
Sent == \A w \in writes :
    \/ w.by = Gone
    \/ w.by = 1 /\ \E c \in cards : c.id = w.id /\ c.on = w.on /\ c.tag = ~w.on
OneWrite == \A w, x \in writes : w.id = x.id => w = x
StealthSync == OneFetch /\ Tagged /\ Still /\ Sent /\ OneWrite

LEMMA StealthStep == Patient /\ StealthTypes /\ StealthSync /\ [Next]_vars => StealthSync'
  <1> SUFFICES ASSUME Patient, StealthTypes, StealthSync, [Next]_vars PROVE StealthSync'
    OBVIOUS
  <1>0. OneFetch /\ Tagged /\ Still /\ Sent /\ OneWrite
    BY DEF StealthSync
  \* What the types say, one fact at a time.
  <1>a. \A c \in cards : c.id \in Kpms /\ c.on \in BOOLEAN /\ c.tag \in BOOLEAN
    BY DEF StealthTypes, Cards
  <1>b. \A w \in writes : w.id \in Kpms /\ w.on \in BOOLEAN
    BY DEF StealthTypes, Writes
  <1>c. \A c, d \in cards : c.id = d.id => c = d
    BY <1>0 DEF StealthTypes, Tagged
  <1>d. conf \in [Kpms -> Lines(BOOLEAN)]
    BY DEF StealthTypes
  <1>e. lists \in [Fetches -> Lists] /\ 1 \in Fetches /\ 2 \in Fetches
    BY DEF StealthTypes, Fetches
  <1>1. CASE OpenStealth
    <2>1. /\ ~Reading /\ cards' = {} /\ conf' = conf
          /\ writes' = {[w EXCEPT !.by = Gone] : w \in writes}
      BY <1>1 DEF OpenStealth
    <2>2. PICK f \in Fetches :
            /\ lists[f].ph = "free" /\ \A g \in 1 .. f - 1 : lists[g].ph = "read"
            /\ lists' = [lists EXCEPT ![f] = [Free EXCEPT !.ph = "read"]]
      BY <1>1 DEF OpenStealth
    <2>3. f = 1
      BY <2>1, <2>2 DEF Reading, Fetches
    <2>4. lists'[2] = lists[2] /\ lists'[1] = [Free EXCEPT !.ph = "read"]
      BY <1>e, <2>2, <2>3
    <2>5. \A k \in Kpms : lists'[1].got[k] = None
      BY <2>4, FreeTypes
    <2>6. \A w \in writes : [w EXCEPT !.by = Gone].id = w.id /\ [w EXCEPT !.by = Gone].by = Gone
                            /\ [w EXCEPT !.by = Gone].on = w.on
      BY DEF StealthTypes, Writes
    <2>7. \A x \in writes' : x.by = Gone /\ \E w \in writes : x = [w EXCEPT !.by = Gone] /\ x.id = w.id
      BY <2>1, <2>6
    <2>8. OneWrite'
      BY <1>0, <2>7 DEF OneWrite
    <2>9. OneFetch'
      BY <1>0, <2>1, <2>4, <2>5, <2>7 DEF OneFetch
    <2> QED
      BY <2>1, <2>7, <2>8, <2>9 DEF StealthSync, Tagged, Still, Sent
  <1>2. ASSUME NEW f \in Fetches, NoStealth(f) PROVE StealthSync'
    <2>1. /\ lists[f].ph = "read" /\ lists' = [lists EXCEPT ![f] = Free]
          /\ UNCHANGED <<conf, cards, writes>>
      BY <1>2 DEF NoStealth
    <2>2. f = 1
      BY <1>0, <2>1 DEF OneFetch, Fetches
    <2>3. lists'[1].ph = "free" /\ lists'[2] = lists[2]
      BY <1>e, <2>1, <2>2, FreeTypes
    <2> QED
      BY <1>0, <2>1, <2>3 DEF StealthSync, OneFetch, Tagged, Still, Sent, OneWrite, True
  <1>3. ASSUME NEW f \in Fetches, ShowStealth(f) PROVE StealthSync'
    <2>1. /\ lists[f].ph = "read" /\ \A k \in Kpms : lists[f].got[k] # None
          /\ lists' = [lists EXCEPT ![f] = Free] /\ conf' = conf /\ writes' = writes
          /\ cards' = cards \cup {Card(f, k) : k \in Kpms}
      BY <1>3 DEF ShowStealth
    <2>2. f = 1 /\ cards = {} /\ \A w \in writes : w.by = Gone
      BY <1>0, <2>1 DEF OneFetch, Fetches
    <2>3. \A k \in Kpms : k \notin lists[1].unsure =>
             True(k, lists[1].got[k]) /\ \A w \in writes : w.id # k
      BY <1>0, <2>1, <2>2 DEF OneFetch
    <2>4. \A c \in cards' : /\ c.by = 1 /\ c.id \in Kpms /\ c.on = c.tag
                            /\ c.sure => True(c.id, c.tag) /\ \A w \in writes : w.id # c.id
      <3> SUFFICES ASSUME NEW c \in cards'
                   PROVE  /\ c.by = 1 /\ c.id \in Kpms /\ c.on = c.tag
                          /\ c.sure => True(c.id, c.tag) /\ \A w \in writes : w.id # c.id
        OBVIOUS
      <3>1. PICK k \in Kpms : c = Card(1, k)
        BY <2>1, <2>2
      <3>2. /\ c.id = k /\ c.by = 1 /\ c.on = lists[1].got[k] /\ c.tag = lists[1].got[k]
            /\ c.sure = (k \notin lists[1].unsure)
        BY <1>e, <2>1, <2>2, <3>1, CardTypes
      <3> QED
        BY <2>3, <3>2
    <2>5. lists'[1].ph = "free" /\ lists'[2] = lists[2]
      BY <1>e, <2>1, <2>2, FreeTypes
    <2>6. OneFetch'
      BY <1>0, <2>5 DEF OneFetch
    <2>7. Tagged'
      BY <2>1, <2>4 DEF Tagged, True
    <2> QED
      BY <1>0, <2>1, <2>2, <2>4, <2>6, <2>7 DEF StealthSync, Still, Sent, OneWrite
  <1>4. ASSUME NEW f \in Fetches, NEW k \in Kpms, \E ok \in BOOLEAN : ReadEnabled(f, k, ok)
        PROVE StealthSync'
    <2>1. lists[f].ph = "read" /\ lists[f].got[k] = None /\ UNCHANGED <<conf, cards, writes>>
      BY <1>4 DEF ReadEnabled
    <2>2. f = 1
      BY <1>0, <2>1 DEF OneFetch, Fetches
    <2>3. PICK v, m : Got(1, k, v, m)
      BY <1>4, <2>2, ReadTypes
    <2>4. lists[1].got \in [Kpms -> BOOLEAN \cup {None}]
      BY <1>e DEF Lists
    <2>5. \A j \in Kpms : j # k => lists'[1].got[j] = lists[1].got[j]
      BY <2>3, <2>4 DEF Got
    <2>6. lists'[1].got[k] = v
      BY <2>3, <2>4 DEF Got
    <2>7. lists[1].unsure \subseteq lists'[1].unsure /\ lists'[2] = lists[2] /\ lists'[1].ph = "read"
      BY <1>e, <2>3 DEF Got
    <2>8. k \notin lists'[1].unsure =>
             lists'[1].got[k] = Says(conf[k], TRUE) /\ \A w \in writes : w.id # k
      BY <2>3, <2>6 DEF Got
    <2>9. \A j \in Kpms : lists'[1].got[j] # None /\ j \notin lists'[1].unsure =>
             True(j, lists'[1].got[j]) /\ \A w \in writes : w.id # j
      <3> SUFFICES ASSUME NEW j \in Kpms, lists'[1].got[j] # None, j \notin lists'[1].unsure
                   PROVE  True(j, lists'[1].got[j]) /\ \A w \in writes : w.id # j
        OBVIOUS
      <3>1. CASE j = k
        BY <2>8, <3>1 DEF True
      <3>2. CASE j # k
        <4>1. lists[1].got[j] # None /\ j \notin lists[1].unsure
          BY <2>5, <2>7, <3>2
        <4> QED
          BY <1>0, <2>1, <2>2, <2>5, <3>2, <4>1 DEF OneFetch
      <3> QED
        BY <3>1, <3>2
    <2>10. OneFetch'
      BY <1>0, <2>1, <2>2, <2>7, <2>9 DEF OneFetch, True
    <2> QED
      BY <1>0, <2>1, <2>10 DEF StealthSync, Tagged, Still, Sent, OneWrite, True
  <1>5. ASSUME NEW c \in cards, Toggle(c) PROVE StealthSync'
    <2> DEFINE new == [c EXCEPT !.on = ~c.on]
               sent == [id |-> c.id, by |-> c.by, on |-> ~c.on]
    <2>1. /\ new.id = c.id /\ new.by = c.by /\ new.on = ~c.on /\ new.tag = c.tag /\ new.sure = c.sure
          /\ sent.id = c.id /\ sent.by = c.by /\ sent.on = ~c.on /\ c.by = 1
      BY <1>0 DEF StealthTypes, Cards, Tagged
    <2>2. /\ cards' = (cards \ {c}) \cup {new} /\ writes' = writes \cup {sent}
          /\ UNCHANGED <<conf, lists>>
          /\ \A w \in writes : w.id # c.id
      BY <1>5 DEF Toggle
    <2> HIDE DEF new, sent
    <2>3. lists[1].ph # "read" /\ c.on = c.tag /\ c.on \in BOOLEAN
      BY <1>0, <1>a, <2>2 DEF OneFetch, Still
    <2>4. OneFetch'
      BY <1>0, <2>2, <2>3 DEF OneFetch
    <2>5. Tagged'
      BY <1>0, <2>1, <2>2 DEF Tagged, True
    <2>6. Still'
      BY <1>0, <2>1, <2>2 DEF Still
    <2>7. Sent'
      <3>1. \A w \in writes : w.by = Gone \/ (w.by = 1 /\ \E d \in cards' : d.id = w.id /\ d.on = w.on /\ d.tag = ~w.on)
        BY <1>0, <2>2 DEF Sent
      <3>2. new \in cards' /\ new.id = sent.id /\ sent.by = 1 /\ new.on = sent.on /\ new.tag = ~sent.on
        BY <2>1, <2>2, <2>3
      <3> QED
        BY <2>2, <3>1, <3>2 DEF Sent
    <2>8. OneWrite'
      BY <1>0, <2>1, <2>2 DEF OneWrite
    <2> QED
      BY <2>4, <2>5, <2>6, <2>7, <2>8 DEF StealthSync
  <1>6. ASSUME NEW w \in writes, ToggleSaved(w) PROVE StealthSync'
    <2>1. PICK ok \in BOOLEAN :
            /\ writes' = writes \ {w}
            /\ conf' = IF ok THEN [conf EXCEPT ![w.id] = Written(@, w.on)] ELSE conf
            /\ cards' = {IF c.id = w.id /\ c.by = w.by THEN Shown(c, w, ok) ELSE c : c \in cards}
            /\ lists' = lists
      BY <1>6 DEF ToggleSaved
    <2>2. \A k \in Kpms : k # w.id => conf'[k] = conf[k]
      BY <1>d, <2>1
    <2>4. OneWrite' /\ \A x \in writes' : x \in writes /\ x.id # w.id
      BY <1>0, <2>1 DEF OneWrite
    <2>5. OneFetch'
      <3>1. \A k \in Kpms : lists[1].ph = "read" /\ lists[1].got[k] # None /\ k \notin lists[1].unsure =>
               k # w.id /\ conf'[k] = conf[k]
        BY <1>0, <2>2 DEF OneFetch
      <3>2. cards = {} => cards' = {}
        BY <2>1
      <3> QED
        BY <1>0, <2>1, <2>4, <3>1, <3>2 DEF OneFetch, True
    <2>6. CASE w.by = Gone
      <3>1. \A c \in cards : c.by # w.by
        BY <1>0, <2>6 DEF Tagged, Gone
      <3>2. cards' = cards
        BY <2>1, <3>1
      <3>3. \A c \in cards : c.sure => c.id # w.id /\ conf'[c.id] = conf[c.id]
        BY <1>0, <1>a, <2>2, <2>6 DEF Tagged, Gone
      <3>4. Tagged'
        BY <1>0, <2>4, <3>2, <3>3 DEF Tagged, True
      <3>5. Still'
        BY <1>0, <2>1, <2>6, <3>2 DEF Still, Gone
      <3>6. Sent'
        BY <1>0, <2>4, <3>2 DEF Sent
      <3> QED
        BY <2>4, <2>5, <3>4, <3>5, <3>6 DEF StealthSync
    <2>7. CASE w.by # Gone
      <3>1. PICK c \in cards : c.id = w.id /\ c.on = w.on /\ c.tag = ~w.on /\ w.by = 1 /\ c.by = 1
        BY <1>0, <2>7 DEF Sent, Tagged
      <3> DEFINE new == Shown(c, w, ok)
      <3>2. /\ new.id = c.id /\ new.by = c.by /\ new.on = new.tag
            /\ new.tag = (IF ok THEN w.on ELSE c.tag)
            /\ new.sure = (ok \/ c.sure)
        BY <1>b, <3>1 DEF Shown, StealthTypes, Cards
      <3>3. \A d \in cards : d.id = w.id => d = c
        BY <1>c, <3>1
      <3>4. cards' = (cards \ {c}) \cup {new}
        BY <2>1, <3>1, <3>3
      <3>5. new.sure => (True(w.id, new.tag))'
        <4>1. CASE ok
          <5>1. conf'[w.id] = Written(conf[w.id], w.on)
            BY <1>b, <1>d, <2>1, <4>1
          <5>2. conf[w.id] \in Lines(BOOLEAN) /\ w.on \in BOOLEAN
            BY <1>b, <1>d
          <5>3. ASSUME conf'[w.id].style # "spaced" PROVE Says(conf'[w.id], TRUE) = w.on
            <6>1. conf'[w.id] # NoLine /\ conf'[w.id].val = w.on
              BY <5>1, <5>2, <5>3 DEF Written, NoLine, Lines
            <6> QED
              BY <6>1, Zenon DEF Says
          <5> QED
            BY <3>2, <4>1, <5>3 DEF True
        <4>2. CASE ~ok
          BY <1>0, <2>1, <3>1, <3>2, <4>2 DEF Tagged, True
        <4> QED
          BY <4>1, <4>2
      <3> HIDE DEF new
      <3>6. Tagged'
        <4> SUFFICES ASSUME NEW d \in cards'
                     PROVE  /\ d.by = 1
                            /\ d.sure => (True(d.id, d.tag))' /\ \A x \in writes' : x.id = d.id => x.by = 1
          BY DEF Tagged, True
        <4>1. CASE d = new
          BY <2>4, <3>1, <3>2, <3>5, <4>1 DEF True
        <4>2. CASE d \in cards /\ d # c
          <5>1. d.id # w.id /\ conf'[d.id] = conf[d.id]
            BY <1>a, <2>2, <3>3, <4>2
          <5> QED
            BY <1>0, <2>4, <4>2, <5>1 DEF Tagged, True
        <4> QED
          BY <3>4, <4>1, <4>2
      <3>7. Still'
        BY <1>0, <2>1, <3>1, <3>2, <3>3, <3>4 DEF Still
      <3>8. Sent'
        <4> SUFFICES ASSUME NEW x \in writes'
                     PROVE  x.by = Gone \/ (x.by = 1 /\ \E d \in cards' : d.id = x.id /\ d.on = x.on /\ d.tag = ~x.on)
          BY DEF Sent
        <4>1. x \in writes /\ x.id # w.id
          BY <2>4
        <4>2. CASE x.by = Gone
          BY <4>2
        <4>3. CASE x.by # Gone
          <5>1. PICK d \in cards : x.by = 1 /\ d.id = x.id /\ d.on = x.on /\ d.tag = ~x.on
            BY <1>0, <4>1, <4>3 DEF Sent
          <5> QED
            BY <3>1, <3>4, <4>1, <5>1
        <4> QED
          BY <4>2, <4>3
      <3> QED
        BY <2>4, <2>5, <3>6, <3>7, <3>8 DEF StealthSync
    <2> QED
      BY <2>6, <2>7
  <1>7. CASE PolicyNext \/ UpdateNext \/ UNCHANGED vars
    <2>1. UNCHANGED <<conf, lists, cards, writes>>
      BY <1>7, Others DEF stealth
    <2> QED
      BY <1>0, <2>1 DEF StealthSync, OneFetch, Tagged, Still, Sent, OneWrite, True
  <1> QED
    BY <1>1, <1>2, <1>3, <1>4, <1>5, <1>6, <1>7, Split DEF StealthNext

\* When nothing is being written, the select shows what boot reads, and the switches
\* and tags what the files say, however lines are written and whichever reads and
\* writes fail, but for what ShownIsSaved names: for a user who waits.
THEOREM SavedIsShown == Patient => (Spec => []ShownIsSaved)
  <1> SUFFICES ASSUME Patient PROVE Spec => []ShownIsSaved
    OBVIOUS
  <1>1. Init => PolicySync /\ StealthSync
    <2> SUFFICES ASSUME Init PROVE PolicySync /\ StealthSync
      OBVIOUS
    <2>1. \A f \in {1, 2} : lists[f].ph = "free"
      BY DEF Init, Fetches, Free
    <2> QED
      BY <2>1 DEF Init, PolicySync, StealthSync, OneFetch, Tagged, Still, Sent, OneWrite
  <1>2. Types /\ PolicySync /\ StealthSync /\ [Next]_vars => PolicySync' /\ StealthSync'
    BY PolicyStep, StealthStep DEF Types
  <1>3. Types /\ PolicySync /\ StealthSync => ShownIsSaved
    <2> SUFFICES ASSUME Types, PolicySync, StealthSync PROVE ShownIsSaved
      OBVIOUS
    <2>1. \A c \in cards : c.id \in Kpms
      BY DEF Types, StealthTypes, Cards
    <2> QED
      BY <2>1 DEF PolicySync, StealthSync, Tagged, Still, True, ShownIsSaved
  <1> QED
    BY TypesInvariant, <1>1, <1>2, <1>3, PTL DEF Spec
=============================================================================
