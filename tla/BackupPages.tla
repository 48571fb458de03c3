---------------------------- MODULE BackupPages ----------------------------
(***************************************************************************)
(* The backup page and the recovery plan of the WebUI.  The page lists the *)
(* images in backup/, deletes one, or purges all but the newest few; both  *)
(* deletions ask in the same dialog, whose text and button belong to       *)
(* whoever wrote them last.  The plan is shown before an unpatch and is    *)
(* read from the newest image and from a manifest, one command at a time.  *)
(*                                                                         *)
(* A backup's name is the minute it was taken in; `ls` sorts by name, and  *)
(* names and modification times have the same order.  Hashes, sizes and    *)
(* copies to Download are left out.  boot_patch.sh is one step here and    *)
(* all of BootScripts.                                                     *)
(***************************************************************************)
EXTENDS Naturals, FiniteSets

CONSTANTS
    Minutes,      \* bound: backups are named 1 .. Minutes
    Old,          \* the backups of an earlier installation are 1 .. Old
    OldManifests, \* what they may have for manifests, by name
    KeepValues,   \* what the user types; 0 for 0, nothing or no number
    MaxPreviews,  \* bound: previews under way
    MaxFetches,   \* bound: refreshes of the list under way
    None,         \* no manifest
    Patient       \* the user waits: see Idle

ASSUME MinutesAssumption == Minutes \in Nat /\ Old \in 0 .. Minutes
ASSUME BoundAssumption == KeepValues \subseteq Nat /\ 3 \in KeepValues /\ {MaxPreviews, MaxFetches} \subseteq Nat
ASSUME PatientAssumption == Patient \in BOOLEAN

Names == 1 .. Minutes
KpStates == {"stock", "patched"}
ASSUME NoneAssumption == None \notin KpStates
Manifests == KpStates \cup {None}   \* kp_state, all that the plan's LOSE section reads
ASSUME OldAssumption == OldManifests \subseteq [1 .. Old -> Manifests]

VARIABLES
    imgs,      \* the images in backup/
    jsons,     \* their manifests: by name, and after the image is gone
    boot,      \* the boot partition
    last,      \* the name of the newest backup ever taken
    cards,     \* by name: how many cards the page shows
    fetches,   \* refreshes of the list
    dlg,       \* purge-dialog
    keep,      \* the number in its field
    previews,  \* updatePreview's under way, oldest first by id
    purge,     \* the purge that was confirmed
    gone,      \* the image that a delete button's rm is removing, or 0
    plan       \* the recovery plan

vars == <<imgs, jsons, boot, last, cards, fetches, dlg, keep, previews, purge, gone, plan>>

Closed == [mode |-> "closed", target |-> 0, text |-> <<"none", 0>>, off |-> FALSE]
NoPurge == [ph |-> "none", count |-> 0, todo |-> {}]
NoPlan == [ph |-> "closed", img |-> 0, json |-> None, found |-> FALSE]
Texts == {"none", "count", "delete"} \X (0 .. Minutes)

TypeOK ==
    /\ imgs \subseteq Names /\ jsons \in [Names -> Manifests]
    /\ boot \in KpStates /\ last \in 0 .. Minutes /\ imgs \subseteq 1 .. last
    /\ cards \in [Names -> 0 .. MaxFetches]
    /\ fetches \in [1 .. MaxFetches -> [ph : {"free", "ls", "got"}, got : SUBSET Names]]
    /\ dlg \in [mode : {"closed", "purge", "delete"}, target : 0 .. Minutes, text : Texts, off : BOOLEAN]
    /\ keep \in KeepValues
    /\ previews \subseteq [id : 1 .. MaxPreviews, count : Nat, n : 0 .. Minutes, ls : BOOLEAN]
    /\ purge \in [ph : {"none", "ls", "rm"}, count : Nat, todo : SUBSET Names]
    /\ gone \in 0 .. Minutes
    /\ plan \in [ph : {"closed", "ls", "own", "other", "shown"}, img : 0 .. Minutes,
                 json : Manifests, found : BOOLEAN]

Init ==
    /\ imgs = 1 .. Old /\ last = Old
    /\ \E f \in OldManifests : jsons = [n \in Names |-> IF n <= Old THEN f[n] ELSE None]
    /\ boot \in KpStates
    /\ cards = [n \in Names |-> 0]
    /\ fetches = [i \in 1 .. MaxFetches |-> [ph |-> "free", got |-> {}]]
    /\ dlg = Closed /\ keep = 3 /\ previews = {} /\ purge = NoPurge /\ gone = 0
    /\ plan = NoPlan

\* Mutant: the list is used in the order of ls.
Purged_Oldest(S, count) == {n \in S : Cardinality({m \in S : m < n}) >= count}
\* getBackupList(), newest first, .slice(count): what a purge removes.
Purged(S, count) == {n \in S : Cardinality({m \in S : m > n}) >= count}
\* parseInt(keepInput.value, 10) || 3
Count == IF keep = 0 THEN 3 ELSE keep
Fetching == \E i \in 1 .. MaxFetches : fetches[i].ph \in {"ls", "got"}
\* A patient user waits for what a click has started, looks at one page at a time
\* and does not type into the dialog that asks about one backup.
Idle == purge.ph = "none" /\ gone = 0 /\ previews = {} /\ plan.ph = "closed"
NoDialog == Patient => Idle /\ ~Fetching /\ dlg.mode = "closed"

----------------------------------------------------------------------------
\* The list of backups.

\* Mutant: the page is not emptied.
Asked_Appends(f, c) ==
    /\ c = cards
    /\ \E i \in 1 .. MaxFetches :
           /\ fetches[i].ph = "free" /\ \A j \in 1 .. i - 1 : fetches[j].ph # "free"
           /\ f = [fetches EXCEPT ![i].ph = "ls"]
\* refreshBackupList empties the page, asks, and appends a card per image.
Asked(f, c) ==
    /\ c = [n \in Names |-> 0]
    /\ \E i \in 1 .. MaxFetches :
           /\ fetches[i].ph = "free" /\ \A j \in 1 .. i - 1 : fetches[j].ph # "free"
           /\ f = [fetches EXCEPT ![i].ph = "ls"]
Refresh ==
    /\ NoDialog /\ Asked(fetches', cards')
    /\ UNCHANGED <<imgs, jsons, boot, last, dlg, keep, previews, purge, gone, plan>>
List(i) ==
    /\ fetches[i].ph = "ls" /\ fetches' = [fetches EXCEPT ![i] = [ph |-> "got", got |-> imgs]]
    /\ UNCHANGED <<imgs, jsons, boot, last, cards, dlg, keep, previews, purge, gone, plan>>
Show(i) ==
    /\ fetches[i].ph = "got" /\ fetches' = [fetches EXCEPT ![i] = [ph |-> "free", got |-> {}]]
    /\ cards' = [n \in Names |-> cards[n] + IF n \in fetches[i].got THEN 1 ELSE 0]
    /\ UNCHANGED <<imgs, jsons, boot, last, dlg, keep, previews, purge, gone, plan>>

\* A card's delete button takes over the purge dialog: its text and its buttons,
\* not whether the confirm button is disabled.
OpenDelete(n) ==
    /\ NoDialog /\ cards[n] > 0
    /\ dlg' = [dlg EXCEPT !.mode = "delete", !.target = n, !.text = <<"delete", n>>]
    /\ UNCHANGED <<imgs, jsons, boot, last, cards, fetches, keep, previews, purge, gone, plan>>
ConfirmDelete ==
    /\ dlg.mode = "delete" /\ ~dlg.off /\ gone = 0
    /\ gone' = dlg.target /\ dlg' = [dlg EXCEPT !.mode = "closed"]
    /\ UNCHANGED <<imgs, jsons, boot, last, cards, fetches, keep, previews, purge, plan>>
\* The manifest stays.  The list is refreshed.
Deleted ==
    /\ gone # 0 /\ imgs' = imgs \ {gone} /\ gone' = 0
    /\ Asked(fetches', cards')
    /\ UNCHANGED <<jsons, boot, last, dlg, keep, previews, purge, plan>>

----------------------------------------------------------------------------
\* The purge dialog.

\* updatePreview reads the field, asks for the list and writes text and button.
Previewing(k) ==
    \E id \in 1 .. MaxPreviews :
        /\ \A p \in previews : p.id < id
        /\ previews' = previews \cup {[id |-> id, n |-> 0, ls |-> FALSE,
                                       count |-> IF k = 0 THEN 3 ELSE k]}
OpenPurge ==
    /\ NoDialog
    /\ dlg' = [dlg EXCEPT !.mode = "purge", !.target = 0] /\ Previewing(keep)
    /\ UNCHANGED <<imgs, jsons, boot, last, cards, fetches, keep, purge, gone, plan>>
Type(k) ==
    /\ dlg.mode # "closed" /\ k # keep
    /\ Patient => dlg.mode = "purge"
    /\ keep' = k /\ Previewing(k)
    /\ UNCHANGED <<imgs, jsons, boot, last, cards, fetches, dlg, purge, gone, plan>>
ListPreview(p) ==
    /\ p \in previews /\ ~p.ls
    /\ previews' = (previews \ {p}) \cup
           {[p EXCEPT !.ls = TRUE, !.n = Cardinality(Purged(imgs, p.count))]}
    /\ UNCHANGED <<imgs, jsons, boot, last, cards, fetches, dlg, keep, purge, gone, plan>>
\* Previews for a patient user are answered in the order they were asked for.
\* Mutant: with nothing to purge only the text is written.
ShowPreview_Enabled(p) ==
    /\ p \in previews /\ p.ls /\ (Patient => \A q \in previews : p.id <= q.id)
    /\ previews' = previews \ {p}
    /\ dlg' = [dlg EXCEPT !.text = IF p.n = 0 THEN <<"none", 0>> ELSE <<"count", p.n>>, !.off = FALSE]
    /\ UNCHANGED <<imgs, jsons, boot, last, cards, fetches, keep, purge, gone, plan>>
ShowPreview(p) ==
    /\ p \in previews /\ p.ls /\ (Patient => \A q \in previews : p.id <= q.id)
    /\ previews' = previews \ {p}
    /\ dlg' = [dlg EXCEPT !.text = IF p.n = 0 THEN <<"none", 0>> ELSE <<"count", p.n>>,
                          !.off = (p.n = 0)]
    /\ UNCHANGED <<imgs, jsons, boot, last, cards, fetches, keep, purge, gone, plan>>
Cancel ==
    /\ dlg.mode # "closed" /\ (Patient => Idle)
    /\ dlg' = [dlg EXCEPT !.mode = "closed"]
    /\ UNCHANGED <<imgs, jsons, boot, last, cards, fetches, keep, previews, purge, gone, plan>>

\* The purge reads the field when it is confirmed, once, and lists once more.
ConfirmPurge ==
    /\ dlg.mode = "purge" /\ ~dlg.off /\ purge.ph = "none"
    /\ purge' = [ph |-> "ls", count |-> Count, todo |-> {}]
    /\ UNCHANGED <<imgs, jsons, boot, last, cards, fetches, dlg, keep, previews, gone, plan>>
\* Mutant: with nothing to remove the dialog stays open.
ListPurge_StaysOpen ==
    /\ purge.ph = "ls"
    /\ purge' = IF Purged(imgs, purge.count) = {} THEN NoPurge
                ELSE [purge EXCEPT !.ph = "rm", !.todo = Purged(imgs, purge.count)]
    /\ UNCHANGED <<imgs, jsons, boot, last, cards, fetches, dlg, keep, previews, gone, plan>>
ListPurge ==
    /\ purge.ph = "ls"
    /\ IF Purged(imgs, purge.count) = {}
       THEN purge' = NoPurge /\ dlg' = [dlg EXCEPT !.mode = "closed"]
       ELSE purge' = [purge EXCEPT !.ph = "rm", !.todo = Purged(imgs, purge.count)] /\ UNCHANGED dlg
    /\ UNCHANGED <<imgs, jsons, boot, last, cards, fetches, keep, previews, gone, plan>>
\* One rm after the other, newest first.
RemoveOne(n) ==
    /\ purge.ph = "rm" /\ n \in purge.todo /\ \A m \in purge.todo : m <= n
    /\ imgs' = imgs \ {n} /\ purge' = [purge EXCEPT !.todo = @ \ {n}]
    /\ UNCHANGED <<jsons, boot, last, cards, fetches, dlg, keep, previews, gone, plan>>
\* Mutant: the list is not refreshed.
EndPurge_NoRefresh ==
    /\ purge.ph = "rm" /\ purge.todo = {} /\ purge' = NoPurge
    /\ dlg' = [dlg EXCEPT !.mode = "closed"]
    /\ UNCHANGED <<imgs, jsons, boot, last, cards, fetches, keep, previews, gone, plan>>
EndPurge ==
    /\ purge.ph = "rm" /\ purge.todo = {} /\ purge' = NoPurge
    /\ dlg' = [dlg EXCEPT !.mode = "closed"]
    /\ Asked(fetches', cards')
    /\ UNCHANGED <<imgs, jsons, boot, last, keep, previews, gone, plan>>

----------------------------------------------------------------------------
\* The recovery plan: index.js's unpatch button and confirmAutoUnpatch.

IsNewest(n, S) == n \in S /\ \A m \in S : m <= n
AskPlan ==
    /\ NoDialog /\ plan.ph = "closed" /\ plan' = [NoPlan EXCEPT !.ph = "ls"]
    /\ UNCHANGED <<imgs, jsons, boot, last, cards, fetches, dlg, keep, previews, purge, gone>>
PlanImage ==
    /\ plan.ph = "ls"
    /\ \/ imgs = {} /\ plan' = [plan EXCEPT !.ph = "shown"]
       \/ \E n \in imgs : /\ IsNewest(n, imgs)
                          /\ plan' = [plan EXCEPT !.ph = "own", !.img = n, !.found = TRUE]
    /\ UNCHANGED <<imgs, jsons, boot, last, cards, fetches, dlg, keep, previews, purge, gone>>
PlanOwn ==
    /\ plan.ph = "own"
    /\ plan' = IF jsons[plan.img] = None THEN [plan EXCEPT !.ph = "other"]
               ELSE [plan EXCEPT !.ph = "shown", !.json = jsons[plan.img]]
    /\ UNCHANGED <<imgs, jsons, boot, last, cards, fetches, dlg, keep, previews, purge, gone>>
\* Without a manifest of its own: the newest one there is, of whatever image.
PlanOther ==
    LET there == {n \in Names : jsons[n] # None} IN
    /\ plan.ph = "other"
    /\ \/ there = {} /\ plan' = [plan EXCEPT !.ph = "shown"]
       \/ \E n \in there : IsNewest(n, there) /\ plan' = [plan EXCEPT !.ph = "shown", !.json = jsons[n]]
    /\ UNCHANGED <<imgs, jsons, boot, last, cards, fetches, dlg, keep, previews, purge, gone>>
\* renderPlan: the patches are lost if the manifest says that the image it was
\* taken from had them, or if there is no backup at all.
SaysPatchesAreLost == ~plan.found \/ plan.json = "patched"
Decline ==
    /\ plan.ph = "shown" /\ plan' = NoPlan
    /\ UNCHANGED <<imgs, jsons, boot, last, cards, fetches, dlg, keep, previews, purge, gone>>
\* Continue: boot_unpatch.sh takes the patch out of the current image.
Unpatch ==
    /\ plan.ph = "shown" /\ plan' = NoPlan /\ boot' = "stock"
    /\ UNCHANGED <<imgs, jsons, last, cards, fetches, dlg, keep, previews, purge, gone>>

\* boot_patch.sh, from elsewhere: a stock image is backed up first, with a
\* manifest unless a second run in the same minute has dropped it.
Patch ==
    /\ NoDialog /\ last < Minutes
    /\ boot' = "patched" /\ last' = last + 1
    /\ IF boot = "stock"
       THEN /\ imgs' = imgs \cup {last + 1}
            /\ \E j \in {None, "stock"} : jsons' = [jsons EXCEPT ![last + 1] = j]
       ELSE UNCHANGED <<imgs, jsons>>
    /\ UNCHANGED <<cards, fetches, dlg, keep, previews, purge, gone, plan>>

Purging == ListPurge \/ (\E n \in Names : RemoveOne(n)) \/ EndPurge
Answers ==
    \/ \E i \in 1 .. MaxFetches : List(i) \/ Show(i)
    \/ \E p \in previews : ListPreview(p) \/ ShowPreview(p)
    \/ Deleted \/ Purging
    \/ PlanImage \/ PlanOwn \/ PlanOther
User ==
    \/ Refresh \/ OpenPurge \/ (\E k \in KeepValues : Type(k)) \/ Cancel \/ ConfirmPurge
    \/ (\E n \in Names : OpenDelete(n)) \/ ConfirmDelete
    \/ AskPlan \/ Decline \/ Unpatch \/ Patch
Next == Answers \/ User

\* Commands are answered, those of a purge too while the user goes on typing; the
\* user need not do anything.
Spec == Init /\ [][Next]_vars /\ WF_vars(Answers) /\ WF_vars(Purging)
----------------------------------------------------------------------------
\* A purge never removes an image that has fewer than N newer ones beside it, N
\* being the number in the field when it was confirmed, whatever is typed while
\* its commands run.
PurgeKeepsNewest ==
    [][purge.ph = "rm" /\ purge.todo # purge.todo' =>
       \A n \in imgs \ imgs' : Cardinality({m \in imgs' : m > n}) >= purge.count]_vars

\* With all previews answered, the dialog says how many images the purge would
\* remove, and can be confirmed exactly when there are any.
PreviewIsTrue ==
    dlg.mode = "purge" /\ Idle =>
        LET n == Cardinality(Purged(imgs, Count)) IN
        /\ dlg.text = IF n = 0 THEN <<"none", 0>> ELSE <<"count", n>>
        /\ dlg.off <=> n = 0

\* With nothing under way, a list that was shown after the last deletion has one card
\* for every image of the earlier installation, may lack those that a patch has taken
\* since (n > Old), and has none for an image that is gone.
ListIsCurrent ==
    (\E n \in Names : cards[n] > 0) /\ Idle /\ ~Fetching =>
        \A n \in 1 .. last : cards[n] = (IF n \in imgs THEN 1 ELSE 0) \/ (n \in imgs /\ n > Old)

\* A confirmed purge comes to an end and its dialog is closed.
PurgeEnds == purge.ph # "none" ~> (purge.ph = "none" /\ dlg.mode = "closed")

\* boot_unpatch.js:4-7: the plan "tells the user exactly what will be lost".  The
\* manifest describes the image that was backed up, not the one that is unpatched.
PlanTellsLoss ==
    plan.ph = "shown" /\ boot = "patched" /\ plan.json # None => SaysPatchesAreLost
============================================================================
