---------------------------- MODULE PatchSession ----------------------------
(***************************************************************************)
(* The WebUI around the boot scripts: the patch page extracts the boot     *)
(* image into ${modDir}/tmp, starts a script there and removes the         *)
(* directory when the script has exited; the KPM pages use and remove the  *)
(* same directory.                                                         *)
(*                                                                         *)
(* Every await is a point where the user may go on clicking.  A Patient    *)
(* user waits until the page shows the extracted kernel before a start,    *)
(* and until a script has ended and its directory is gone before anything  *)
(* else.  One script, one extraction and one KPM upload run at a time.     *)
(***************************************************************************)
EXTENDS BootScripts

CONSTANT Patient  \* the user waits for what is running

ASSUME PatientAssumption == Patient \in BOOLEAN

\* session = "open" stands for patch.js's bootDev being set.
VARIABLES
    page,      \* the page shown: "patch" or another one
    button,    \* is the Start/Unpatch button visible
    prep,      \* the next step of the extraction under way
    shown,     \* is the card of the extracted kernel visible
    cleaning,  \* is the exit handler's `rm -rf tmp` under way
    upload     \* is a KPM page using the directory

ui == <<page, button, prep, shown, cleaning, upload>>
sessionVars == <<vars, ui>>

\* A WebView that has just been opened.
FreshPage ==
    /\ page' = "other"
    /\ button' = FALSE
    /\ prep' = "none"
    /\ shown' = FALSE
    /\ upload' = FALSE

SessionInit ==
    /\ Init
    /\ page = "other"
    /\ button = FALSE
    /\ prep = "none"
    /\ shown = FALSE
    /\ cleaning = FALSE
    /\ upload = FALSE

\* What a patient user waits for.
Quiet == pc = "idle" /\ prep = "none" /\ ~cleaning /\ ~upload
Waits == Patient => Quiet

----------------------------------------------------------------------------
(* The patch page.                                                         *)

\* navigateToPatch and navigateToUnPatch: with a known device only the
\* unpack is done again.
Navigate ==
    /\ session # "off" /\ page = "other" /\ prep = "none" /\ Waits
    /\ page' = "patch"
    /\ button' = TRUE
    /\ prep' = IF session = "open" THEN "unpack" ELSE "prepare"
    /\ UNCHANGED <<vars, shown, cleaning, upload>>

\* Back to a primary page, where the animated cards are hidden again.
Leave ==
    /\ page = "patch" /\ Waits
    /\ page' = "other"
    /\ shown' = FALSE
    /\ UNCHANGED <<vars, button, prep, cleaning, upload>>

\* Mutant: what is in the directory is left there.
Prepare_KeepsFiles ==
    /\ session # "off" /\ prep = "prepare"
    /\ wd' = [wd EXCEPT !.dir = TRUE]
    /\ prep' \in {"locate", "none"}
    /\ UNCHANGED <<boot, files, session, pc, job, rc, clock, owed,
                   page, button, shown, cleaning, upload>>

\* mkdir -p tmp && rm -rf tmp/* && cp kpimg tmp; the promise is rejected when
\* one of them fails.
Prepare ==
    /\ session # "off" /\ prep = "prepare"
    /\ \/ wd' = Fresh /\ prep' \in {"locate", "none"}
       \/ UNCHANGED wd /\ prep' = "none"
    /\ UNCHANGED <<boot, files, session, pc, job, rc, clock, owed,
                   page, button, shown, cleaning, upload>>

\* boot_extract.sh finds the device, or the page says it cannot; the device of
\* a failed search may have been printed before.
Locate ==
    /\ session # "off" /\ prep = "locate"
    /\ \/ session' = "open" /\ prep' \in {"unpack", "none"}
       \/ UNCHANGED session /\ prep' = "none"
    /\ UNCHANGED <<boot, files, wd, pc, job, rc, clock, owed,
                   page, button, shown, cleaning, upload>>

\* Mutant: the status of `magiskboot unpack` is not looked at.
Extract_StatusIgnored ==
    /\ session # "off" /\ prep = "unpack"
    /\ prep' = "none"
    /\ \/ wd.dir /\ wd' = Unpacked(wd) /\ shown' \in {shown, TRUE}
       \/ UNCHANGED <<wd, shown>>
    /\ UNCHANGED <<boot, files, session, pc, job, rc, clock, owed,
                   page, button, cleaning, upload>>

\* `magiskboot unpack` and `kptools -l`; each may fail with a toast.
Extract ==
    /\ session # "off" /\ prep = "unpack"
    /\ prep' = "none"
    /\ \/ /\ wd.dir /\ boot # Torn
          /\ wd' = Unpacked(wd)
          /\ shown' \in {shown, TRUE}
       \/ UNCHANGED <<wd, shown>>
    /\ UNCHANGED <<boot, files, session, pc, job, rc, clock, owed,
                   page, button, cleaning, upload>>

\* A KPM to embed is uploaded into the directory, which is made if need be.
EmbedKPM ==
    /\ page = "patch" /\ Waits
    /\ wd' = [wd EXCEPT !.dir = TRUE]
    /\ UNCHANGED <<boot, files, session, pc, job, rc, clock, owed, ui>>

\* Start or Unpatch: the button is hidden until the page is opened again.
\* Nothing is started without a device or when the dialog is declined.
Click(mode, flash) ==
    /\ page = "patch" /\ button /\ Waits
    /\ button' = FALSE
    /\ \/ (Patient => shown) /\ Start(mode, flash, FALSE)
       \/ (session # "open" \/ mode = "unpatch") /\ UNCHANGED vars
    /\ UNCHANGED <<page, prep, shown, cleaning, upload>>

\* The first part of the exit handler, up to its await.
Exited ==
    /\ pc = "exited"
    /\ pc' = "idle"
    /\ session' = IF rc = 0 THEN "closed" ELSE session
    /\ cleaning' = TRUE
    /\ UNCHANGED <<boot, files, wd, job, rc, clock, owed,
                   page, button, prep, shown, upload>>

\* The handler is done: nothing is left of its script, unless the user has
\* started another one meanwhile.
Done == IF pc = "idle" THEN Forget ELSE UNCHANGED <<pc, job, rc>>

\* Mutant: the directory is removed after a success only.
Remove_OnSuccess ==
    /\ cleaning
    /\ cleaning' = FALSE
    /\ wd' = IF rc = 0 THEN NoDir ELSE wd
    /\ Done
    /\ UNCHANGED <<boot, files, session, clock, owed,
                   page, button, prep, shown, upload>>

Remove ==
    /\ cleaning
    /\ cleaning' = FALSE
    /\ wd' = NoDir
    /\ Done
    /\ UNCHANGED <<boot, files, session, clock, owed,
                   page, button, prep, shown, upload>>

----------------------------------------------------------------------------
(* The KPM pages, the WebView and the device.                              *)

\* A KPM upload or download: mkdir -p tmp && rm -rf tmp/*.
BeginUpload ==
    /\ session # "off" /\ page = "other" /\ ~upload /\ Waits
    /\ upload' = TRUE
    /\ wd' = Fresh
    /\ UNCHANGED <<boot, files, session, pc, job, rc, clock, owed,
                   page, button, prep, shown, cleaning>>

\* rm -rf tmp at its end; a KPM that did not load is kept there.
EndUpload ==
    /\ upload
    /\ upload' = FALSE
    /\ wd' \in {NoDir, wd}
    /\ UNCHANGED <<boot, files, session, pc, job, rc, clock, owed,
                   page, button, prep, shown, cleaning>>

\* The WebView is closed and opened again between two scripts: the page's
\* state is lost.
Reload ==
    /\ session # "off" /\ pc = "idle" /\ Waits
    /\ FreshPage
    /\ session' = "closed"
    /\ UNCHANGED <<boot, files, wd, pc, job, rc, clock, owed, cleaning>>

\* The power fails; what the directory holds may survive.
PowerFails ==
    /\ \E left \in {wd, NoDir} : PowerLoss(left)
    /\ FreshPage
    /\ cleaning' = FALSE

\* Another tool flashes; a patient user does not while the kernel is shown.
OtherFlash ==
    /\ Patient => Quiet /\ ~shown
    /\ ExternalFlash
    /\ UNCHANGED ui

SessionNext ==
    \/ Navigate \/ Leave \/ Prepare \/ Locate \/ Extract
    \/ \E flash \in BOOLEAN : Click("patch", flash)
    \/ Click("unpatch", TRUE)
    \/ EmbedKPM \/ Exited \/ Remove \/ BeginUpload \/ EndUpload \/ Reload
    \/ Script /\ UNCHANGED ui
    \/ OtherFlash
    \/ Tick /\ UNCHANGED ui
    \/ PowerFails
    \/ PowerOn /\ UNCHANGED ui

SessionSpec == SessionInit /\ [][SessionNext]_sessionVars

----------------------------------------------------------------------------
(* Properties.                                                             *)

SessionTypeOK ==
    /\ TypeOK
    /\ page \in {"patch", "other"}
    /\ button \in BOOLEAN
    /\ prep \in {"none", "prepare", "locate", "unpack"}
    /\ shown \in BOOLEAN
    /\ cleaning \in BOOLEAN
    /\ upload \in BOOLEAN

\* A script that is started finds the directory the boot scripts rely on: the
\* kernel and the parts of the image that is on the partition now, and no
\* product of an earlier run, whatever runs, failures, crashes, uploads and
\* other pages came before (patch.js:200-253, 465-482; boot_patch.sh:50,
\* boot_unpatch.sh:94-106).
ScriptFindsFreshDir ==
    pc = "unpack" => /\ wd.kernel = boot /\ wd.parts
                     /\ wd.ori = None /\ wd.newBoot = None

\* With a patient user the page and the scripts are BootScripts: its page is
\* open while a kernel is shown or a script is running or cleaned up after,
\* and otherwise its working directory counts as none.
Busy == pc # "idle" \/ cleaning
Ready == shown /\ wd.kernel # None
Page == IF session = "off" THEN "off"
        ELSE IF Busy \/ Ready THEN "open" ELSE "closed"
Scripts == INSTANCE BootScripts WITH
    session <- Page,
    wd <- IF Page = "open" THEN wd ELSE NoDir,
    pc <- IF cleaning THEN "exited" ELSE pc,
    FlashWhileOpen <- FALSE
ImplementsBootScripts == Scripts!Spec

----------------------------------------------------------------------------
(* What a comment says and the code does not do.                           *)

\* "await the cleanup so it can't race with a subsequent patch start"
\* (patch.js:474-476): no script is started while the directory is removed.
NoStartWhileCleaning ==
    [][pc = "idle" /\ pc' = "unpack" => ~cleaning]_sessionVars
==============================================================================
