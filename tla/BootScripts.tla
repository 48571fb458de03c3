---------------------------- MODULE BootScripts ----------------------------
(***************************************************************************)
(* boot_patch.sh, boot_unpatch.sh and flash_image: the shell scripts that  *)
(* read the boot partition, keep a backup with a JSON manifest, patch or   *)
(* unpatch the kernel in a working directory and flash the result.         *)
(*                                                                         *)
(* An image or a kernel is abstracted to the release it comes from (its    *)
(* base) and to whether KernelPatch is in it.  One script runs at a time;  *)
(* between its steps the clock may tick, the power may fail and, when      *)
(* FlashWhileOpen, the user may flash the partition with another tool.     *)
(* PatchSession puts the WebUI, which shares the working directory, around *)
(* these steps.                                                            *)
(*                                                                         *)
(* Any command of a script may fail.  Where the script looks at the status *)
(* it exits; where it does not, the model goes on as the script does, with *)
(* what the failed command has left, and the ghosts job.missed and doubt   *)
(* remember it.  What is written to a file is in the page cache until      *)
(* flash_image's sync: a power failure may lose it.  The target is a block *)
(* device, as BOOTIMAGE is on every device the scripts look for.           *)
(***************************************************************************)
EXTENDS Naturals

CONSTANTS
    Bases,           \* releases whose boot image may be on the partition
    MaxMinute,       \* bound on the clock whose minute names the backups
    RebackupFlags,   \* values of KP_REBACKUP a caller may pass
    FlashWhileOpen,  \* may another tool flash while the patch page is open
    None,            \* no file
    Torn             \* an incomplete file

Image == [base : Bases, patched : BOOLEAN]
Stock(b) == [base |-> b, patched |-> FALSE]
Minutes == 1 .. MaxMinute
KpStates == {"patched", "other"}
Manifest == [image : Image \cup {Torn}, kp : KpStates, verified : BOOLEAN]

ASSUME ClockAssumption == MaxMinute \in Nat \ {0}
ASSUME FlagAssumption ==
    /\ RebackupFlags \subseteq BOOLEAN
    /\ FlashWhileOpen \in BOOLEAN
ASSUME NoImageAssumption ==
    /\ None \notin Image \cup Bases \cup Manifest \cup {Torn}
    /\ Torn \notin Image \cup Manifest

VARIABLES
    boot,     \* content of the boot partition
    bak,      \* backup/boot_backup_<minute>.img, by minute
    man,      \* backup/boot_backup_<minute>.json, by minute
    bakDisk,  \* the part of bak that has reached the storage
    manDisk,  \* the part of man that has reached the storage
    wd,       \* the scripts' working directory, ${modDir}/tmp
    session,  \* "off": no power; "closed": booted; "open": boot image extracted
    pc,       \* the running script's next step
    job,      \* the running script's arguments and locals
    rc,       \* its exit status once it has exited
    clock,    \* the current minute
    owed,     \* ghost: the base whose unpatched image a script overwrote last
    doubt     \* ghost: minutes with a file whose write was lost unseen

files == <<bak, man, bakDisk, manDisk, doubt>>
vars == <<boot, files, wd, session, pc, job, rc, clock, owed>>

WorkDir == [dir : BOOLEAN, kernel : Image \cup {None},
            ori : Image \cup {None}, parts : BOOLEAN,
            newBoot : Image \cup {None, Torn}]
Job == [mode : {"patch", "unpatch"}, flash : BOOLEAN, force : BOOLEAN,
        stamp : Minutes, src : Image \cup {None, Torn}, from : Image \cup {Torn},
        missed : {"nothing", "backup", "flash"}]

NoDir == [dir |-> FALSE, kernel |-> None, ori |-> None,
          parts |-> FALSE, newBoot |-> None]

\* No script is running.
NoJob == [mode |-> "patch", flash |-> FALSE, force |-> FALSE, stamp |-> 1,
          src |-> None, from |-> Torn, missed |-> "nothing"]

NoFile == [m \in Minutes |-> None]

Init ==
    /\ boot \in Image
    /\ bak = NoFile /\ bakDisk = NoFile
    /\ man = NoFile /\ manDisk = NoFile
    /\ wd = NoDir
    /\ session = "closed"
    /\ pc = "idle"
    /\ job = NoJob
    /\ rc = 0
    /\ clock = 1
    /\ owed = None
    /\ doubt = {}

----------------------------------------------------------------------------
(* Both scripts.                                                           *)

Running == pc \notin {"idle", "exited"}

Exit(code) == pc' = "exited" /\ rc' = code

\* The script and its locals are gone.
Forget == pc' = "idle" /\ job' = NoJob /\ rc' = 0

Goto(step) == pc' = step /\ UNCHANGED rc

Start(mode, flash, force) ==
    /\ session = "open"
    /\ pc = "idle"
    /\ job' = [mode |-> mode, flash |-> flash, force |-> force,
               stamp |-> clock, src |-> None, from |-> boot,
               missed |-> "nothing"]
    /\ Goto("unpack")
    /\ UNCHANGED <<boot, files, wd, session, clock, owed>>

\* The script goes on although a command it does not check has failed: without
\* the backup it should have, or without the flash it will report.
Misses(what) == job' = [job EXCEPT !.missed = what]

\* `magiskboot unpack`: the kernel and the other parts of a whole image.
Unpacked(d) == [d EXCEPT !.kernel = boot, !.parts = TRUE]

\* Mutant: the status of `magiskboot unpack` is not looked at.
Unpack_StatusIgnored ==
    /\ pc = "unpack"
    /\ \/ /\ \/ wd.kernel # None /\ UNCHANGED wd
             \/ wd.kernel = None /\ wd.dir /\ wd' = Unpacked(wd)
          /\ Goto(IF job.mode = "patch" THEN "draft" ELSE "inspect")
       \/ Exit(1) /\ UNCHANGED wd
    /\ UNCHANGED <<boot, files, session, job, clock, owed>>

\* A kernel already in the directory is used as it is.  The script gives up
\* on a missing image or tool, an unpack error, a kernel with built-in KPM or
\* without KALLSYMS_ALL.
Unpack ==
    /\ pc = "unpack"
    /\ \/ /\ \/ wd.kernel # None /\ UNCHANGED wd
             \/ wd.kernel = None /\ wd.dir /\ boot # Torn /\ wd' = Unpacked(wd)
          /\ Goto(IF job.mode = "patch" THEN "draft" ELSE "inspect")
       \/ Exit(1) /\ UNCHANGED wd
    /\ UNCHANGED <<boot, files, session, job, clock, owed>>

\* `magiskboot repack "$BOOTIMAGE"`.  It is external: with a part missing it
\* fails or writes an incomplete image.
Repack ==
    /\ pc = "repack"
    /\ \/ Exit(1) /\ UNCHANGED wd
       \/ /\ boot # Torn
          /\ wd' = [wd EXCEPT !.newBoot =
                      IF wd.parts /\ wd.kernel # None THEN wd.kernel ELSE Torn]
          /\ IF job.mode = "unpatch" \/ job.flash THEN Goto("flash")
                                                   ELSE Exit(0)
    /\ UNCHANGED <<boot, files, session, job, clock, owed>>

\* flash_image up to its dd: it refuses an image that does not fit or a
\* read-only device; from the first block written the partition is torn.
Flash ==
    /\ pc = "flash"
    /\ \/ /\ Exit(IF job.mode = "unpatch" /\ wd.newBoot = None THEN 0 ELSE 1)
          /\ UNCHANGED <<boot, job, owed>>
       \/ /\ wd.newBoot # None
          /\ job' = [job EXCEPT !.src = wd.newBoot]
          /\ boot' = Torn
          /\ owed' = IF boot = Torn \/ boot.patched THEN owed
                     ELSE IF job.missed = "backup" THEN None ELSE boot.base
          /\ Goto("writing")
    /\ UNCHANGED <<files, wd, session, clock>>

\* `sync`: what was written to the files reaches the storage.
Sync == bakDisk' = bak /\ manDisk' = man

\* Mutant: flash_image ends with `return 0`, as it did before its P0-7 fix.
Written_ReturnsZero ==
    /\ pc = "writing"
    /\ boot' \in {job.src, boot}
    /\ Exit(0)
    /\ Sync
    /\ UNCHANGED <<bak, man, wd, session, job, clock, owed, doubt>>

\* The end of `cat "$1" | dd` and the sync after it.  The status is dd's alone,
\* so that a cat that fails half-way leaves a torn partition and status 0.
Written ==
    /\ pc = "writing"
    /\ \/ boot' = job.src /\ Exit(0) /\ UNCHANGED job
       \/ UNCHANGED <<boot, job>> /\ Exit(1)
       \/ UNCHANGED boot /\ Exit(0) /\ Misses("flash")
    /\ Sync
    /\ UNCHANGED <<bak, man, wd, session, clock, owed, doubt>>

----------------------------------------------------------------------------
(* boot_patch.sh: draft manifest, backup, validation, patch.               *)

\* kp_state is "patched" only for a patched kernel, on a device without Magisk
\* or APatch, and when `kptools -l` answers.
Drafts == {[image |-> boot, kp |-> kp, verified |-> FALSE] :
             kp \in IF wd.kernel.patched THEN KpStates ELSE {"other"}}

\* The draft is written over any manifest of the same minute; the write is not
\* checked: it may leave a torn file, or the file that was there.  Until the
\* next sync the storage has an earlier file of that name or a part of this one.
Draft ==
    /\ pc = "draft"
    /\ wd.kernel # None
    /\ \/ /\ \E draft \in Drafts \cup {Torn} : man' = [man EXCEPT ![clock] = draft]
          /\ \E part \in {manDisk[clock], man[clock], Torn} :
                manDisk' = [manDisk EXCEPT ![clock] = part]
          /\ doubt' = doubt \ {clock}
          /\ job' = [job EXCEPT !.stamp = clock]
       \/ /\ job' = [job EXCEPT !.stamp = clock, !.missed = "backup"]
          /\ doubt' = IF man[clock] = None THEN doubt ELSE doubt \cup {clock}
          /\ UNCHANGED <<man, manDisk>>
    /\ Goto("decide")
    /\ UNCHANGED <<boot, bak, bakDisk, wd, session, clock, owed>>

\* The manifest `ls -1t` lists first: names grow with the clock, and within
\* a minute the draft is the last one written.
Latest == {m \in Minutes : /\ man[m] # None
                           /\ \A n \in Minutes : man[n] # None => n <= m}

\* is_boot_modified_externally, and the kp_state test that follows it.
ModifiedSinceBackup ==
    \E m \in Latest : /\ man[m] # Torn
                      /\ man[m].image # boot
                      /\ man[m].kp = "patched"

\* Mutant: a backup is taken only when there is none yet.
ShouldBackup_OnlyFirst == \A m \in Minutes : bak[m] = None

ShouldBackup ==
    \/ ~wd.kernel.patched
    \/ job.force
    \/ ModifiedSinceBackup

\* Mutant: a run without a new backup removes the files of its minute.
Decide_RemovesBackup ==
    /\ pc = "decide"
    /\ wd.kernel # None
    /\ IF ShouldBackup
       THEN Goto("copy") /\ UNCHANGED <<bak, man>>
       ELSE /\ bak' = [bak EXCEPT ![job.stamp] = None]
            /\ man' = [man EXCEPT ![job.stamp] = None]
            /\ Goto("embed")
    /\ UNCHANGED <<boot, bakDisk, manDisk, wd, session, job, clock, owed, doubt>>

\* Without a new backup the draft is removed, whatever it replaced.  A
\* `kptools -l` or a sha256sum that prints nothing, its status not looked at,
\* counts as the answer that no backup is needed.
Decide ==
    /\ pc = "decide"
    /\ \/ /\ wd.kernel = None
          /\ Exit(1)
          /\ UNCHANGED <<man, job>>
       \/ /\ wd.kernel # None /\ ShouldBackup
          /\ Goto("copy")
          /\ UNCHANGED <<man, job>>
       \/ /\ wd.kernel # None /\ ~job.force
          /\ man' = [man EXCEPT ![job.stamp] = None]
          /\ IF ShouldBackup THEN Misses("backup") ELSE UNCHANGED job
          /\ Goto("embed")
    /\ UNCHANGED <<boot, bak, bakDisk, manDisk, wd, session, clock, owed, doubt>>

\* The status of cp is not looked at: a failed copy leaves a torn file, or the
\* file of an earlier run of the same minute.  A script that has missed the
\* failure of its draft may be overwriting the one backup that counts.
Copy ==
    /\ pc = "copy"
    /\ \/ /\ \E file \in {boot, Torn} : bak' = [bak EXCEPT ![job.stamp] = file]
          /\ \E part \in {bakDisk[job.stamp], bak[job.stamp], Torn} :
                bakDisk' = [bakDisk EXCEPT ![job.stamp] = part]
          /\ owed' = IF job.missed = "backup" THEN None ELSE owed
          /\ UNCHANGED <<job, doubt>>
       \/ /\ Misses("backup")
          /\ doubt' = IF bak[job.stamp] = None THEN doubt ELSE doubt \cup {job.stamp}
          /\ UNCHANGED <<bak, bakDisk, owed>>
    /\ Goto("validate")
    /\ UNCHANGED <<boot, man, manDisk, wd, session, clock>>

\* Mutant: the status of the validating unpack is not looked at.
Validate_StatusIgnored ==
    /\ pc = "validate"
    /\ Goto("promote")
    /\ UNCHANGED <<boot, files, wd, session, job, clock, owed>>

\* A backup that does not unpack is removed with its manifest, and so is one
\* whose validation fails for another reason.  After a copy that was not made,
\* that may be the one backup that counts.
Validate ==
    /\ pc = "validate"
    /\ \/ /\ bak[job.stamp] \in Image
          /\ Goto("promote")
          /\ UNCHANGED <<bak, man, owed>>
       \/ /\ bak' = [bak EXCEPT ![job.stamp] = None]
          /\ man' = [man EXCEPT ![job.stamp] = None]
          /\ owed' = IF job.missed = "backup" THEN None ELSE owed
          /\ Exit(1)
    /\ UNCHANGED <<boot, bakDisk, manDisk, wd, session, job, clock, doubt>>

\* sed > .final, then mv over the draft, neither of them checked: the draft may
\* stay as it is or be replaced by a torn file.
Promote ==
    /\ pc = "promote"
    /\ \/ /\ man[job.stamp] \in Manifest
          /\ man' = [man EXCEPT ![job.stamp].verified = TRUE]
       \/ man' = [man EXCEPT ![job.stamp] = Torn]
       \/ UNCHANGED man
    /\ Goto("embed")
    /\ UNCHANGED <<boot, bak, bakDisk, manDisk, wd, session, job, clock, owed, doubt>>

\* mv kernel kernel.ori, then the checks of the KPMs to embed; a bad one
\* moves the kernel back.
Embed ==
    /\ pc = "embed"
    /\ \/ /\ wd' = IF wd.kernel = None THEN wd
                   ELSE [wd EXCEPT !.ori = wd.kernel, !.kernel = None]
          /\ Goto("kptools")
       \/ Exit(1) /\ UNCHANGED wd
    /\ UNCHANGED <<boot, files, session, job, clock, owed>>

\* kptools -p: needs kernel.ori, and fails without kpimg; on an error nothing
\* is restored.
Kptools ==
    /\ pc = "kptools"
    /\ \/ /\ wd.ori # None
          /\ wd' = [wd EXCEPT !.kernel = [wd.ori EXCEPT !.patched = TRUE]]
          /\ Goto("repack")
       \/ Exit(1) /\ UNCHANGED wd
    /\ UNCHANGED <<boot, files, session, job, clock, owed>>

----------------------------------------------------------------------------
(* boot_unpatch.sh.                                                        *)

\* "found backup boot.img, use it for recovery": a new-boot.img already in
\* the directory is flashed as it is.  A `kptools -l` that prints nothing, its
\* status not looked at, counts as an unpatched kernel.
Inspect ==
    /\ pc = "inspect"
    /\ \/ /\ wd.kernel # None /\ wd.kernel.patched
          /\ Goto(IF wd.newBoot # None THEN "flash" ELSE "unpatch")
          /\ UNCHANGED job
       \/ /\ Exit(0)
          /\ IF wd.kernel # None /\ wd.kernel.patched
             THEN Misses("flash") ELSE UNCHANGED job
    /\ UNCHANGED <<boot, files, wd, session, clock, owed>>

Unpatch ==
    /\ pc = "unpatch"
    /\ \/ /\ wd.kernel # None
          /\ wd' = [wd EXCEPT !.ori = wd.kernel,
                              !.kernel = [wd.kernel EXCEPT !.patched = FALSE]]
          /\ Goto("repack")
       \/ /\ wd' = IF wd.kernel = None THEN wd
                   ELSE [wd EXCEPT !.ori = wd.kernel, !.kernel = None]
          /\ Exit(1)
    /\ UNCHANGED <<boot, files, session, job, clock, owed>>

Script ==
    \/ Unpack \/ Draft \/ Decide \/ Copy \/ Validate \/ Promote \/ Embed
    \/ Kptools \/ Inspect \/ Unpatch \/ Repack \/ Flash \/ Written

----------------------------------------------------------------------------
(* Around the scripts: the patch page (external here, PatchSession models  *)
(* it), the power and other flashing tools.                                *)

\* A directory with nothing of an earlier run.
Fresh == [NoDir EXCEPT !.dir = TRUE]

\* The patch page shows the boot image it has unpacked in a fresh directory,
\* or goes on after an unpack that failed.
Open ==
    /\ session \in {"closed", "open"}
    /\ pc = "idle"
    /\ session' = "open"
    /\ \/ wd' = Fresh
       \/ boot # Torn /\ wd' = Unpacked(Fresh)
    /\ UNCHANGED <<boot, files, pc, job, rc, clock, owed>>

\* The page is left or opened again.  What a closed page's directory holds
\* is not looked at before it is emptied: it counts as none here, and
\* PatchSession has what is really in it.
Close ==
    /\ session = "open"
    /\ pc = "idle"
    /\ session' = "closed"
    /\ wd' = NoDir
    /\ UNCHANGED <<boot, files, pc, job, rc, clock, owed>>

\* The page's exit handler removes the directory; after success the boot
\* device is forgotten and has to be looked up again.
Cleanup ==
    /\ pc = "exited"
    /\ Forget
    /\ wd' = NoDir
    /\ session' \in IF rc = 0 THEN {"closed"} ELSE {"closed", session}
    /\ UNCHANGED <<boot, files, clock, owed>>

ExternalFlash ==
    /\ FlashWhileOpen \/ (pc = "idle" /\ session # "open")
    /\ pc # "writing"
    /\ boot' \in Image
    /\ owed' = None
    /\ UNCHANGED <<files, wd, session, pc, job, rc, clock>>

Tick ==
    /\ clock < MaxMinute
    /\ clock' = clock + 1
    /\ UNCHANGED <<boot, files, wd, session, pc, job, rc, owed>>

\* The bases of which a backup is kept whole, and those of which it has reached
\* the storage as well.
Kept == {b \in Bases : \E m \in Minutes : bak[m] = Stock(b)}
Safe == {b \in Bases : \E m \in Minutes : bak[m] = Stock(b) /\ bakDisk[m] = bak[m]}

\* The power fails between any two steps, in the middle of the dd too or before
\* the sync that follows it.  Of each file the storage has what was written last
\* or what it held before; only there may that cost the one backup that counts.
PowerLoss(left) ==
    /\ session # "off"
    /\ session' = "off"
    /\ Forget
    /\ wd' = left
    /\ \E lost \in SUBSET {m \in Minutes : bak[m] # bakDisk[m]},
          lostMan \in SUBSET {m \in Minutes : man[m] # manDisk[m]} :
          /\ bak' = [m \in Minutes |-> IF m \in lost THEN bakDisk[m] ELSE bak[m]]
          /\ man' = [m \in Minutes |-> IF m \in lostMan THEN manDisk[m] ELSE man[m]]
          /\ doubt' = doubt \cup {m \in Minutes : bak'[m] # bak[m] \/ man'[m] # man[m]}
    /\ bakDisk' = bak' /\ manDisk' = man'
    /\ boot' \in {boot} \cup (IF pc = "writing" THEN {job.src} ELSE {})
    /\ owed' = IF pc = "writing" /\ owed \notin Kept' THEN None ELSE owed
    /\ UNCHANGED clock

Crash == PowerLoss(NoDir)

PowerOn ==
    /\ session = "off"
    /\ boot # Torn
    /\ session' = "closed"
    /\ UNCHANGED <<boot, files, wd, pc, job, rc, clock, owed>>

Environment == Open \/ Close \/ Cleanup \/ ExternalFlash \/ Tick \/ Crash \/ PowerOn

Next ==
    \/ \E flash \in BOOLEAN, force \in RebackupFlags : Start("patch", flash, force)
    \/ Start("unpatch", TRUE, FALSE)
    \/ Script
    \/ Environment

Spec == Init /\ [][Next]_vars

----------------------------------------------------------------------------
(* Properties.                                                             *)

\* Types of the variables, and the working values of a running script.
TypeOK ==
    /\ boot \in Image \cup {Torn}
    /\ bak \in [Minutes -> Image \cup {None, Torn}]
    /\ man \in [Minutes -> Manifest \cup {None, Torn}]
    /\ bakDisk \in [Minutes -> Image \cup {None, Torn}]
    /\ manDisk \in [Minutes -> Manifest \cup {None, Torn}]
    /\ wd \in WorkDir
    /\ session \in {"off", "closed", "open"}
    /\ pc \in {"idle", "unpack", "draft", "decide", "copy", "validate", "promote",
               "embed", "kptools", "inspect", "unpatch", "repack", "flash",
               "writing", "exited"}
    /\ job \in Job
    /\ rc \in {0, 1}
    /\ clock \in Minutes
    /\ owed \in Bases \cup {None}
    /\ doubt \subseteq Minutes

\* From the moment a script overwrites an unpatched image, the partition or
\* some backup holds that image whole, through crashes, failed flashes and
\* later runs of the same minute (boot_patch.sh:291-328, boot_unpatch.sh:128).
\* Two things end the promise: a script that goes on after a failed command
\* whose status it does not read (boot_patch.sh:88, 266, 294) and then
\* overwrites the partition, or overwrites or removes a backup, and a power
\* failure between the start of the dd and the sync after it that takes the
\* backup, which is not synced before (util_functions.sh:334-337).
OverwrittenIsRecoverable ==
    owed # None => \/ boot = Stock(owed)
                   \/ \E m \in Minutes : bak[m] = Stock(owed)

\* A manifest that says backup_verified describes the image file of its own
\* minute, and that file is whole (boot_patch.sh:236-243, 304-322), unless a
\* write of the pair has failed unseen and left an older file, or a power
\* failure has taken one.
VerifiedMeansWhole ==
    \A m \in Minutes \ doubt :
        man[m] \in Manifest /\ man[m].verified =>
            bak[m] = man[m].image /\ bak[m] # Torn

\* A script that flashed and reports success has left the partition with the
\* release it found there, patched or unpatched as it was asked
\* (boot_patch.sh:405-422, boot_unpatch.sh:86-142, util_functions.sh:311-356),
\* unless `kptools -l` printed nothing for a patched kernel
\* (boot_unpatch.sh:103) or the cat before dd failed (util_functions.sh:334).
SuccessMeansFlashed ==
    pc = "exited" /\ rc = 0 /\ job.flash /\ job.missed # "flash" =>
        /\ boot \in Image
        /\ boot.base = job.from.base
        /\ boot.patched = (job.mode = "patch")

\* The promise of RecoverableFlash, with the whole unpatched backups kept.
Promise == INSTANCE RecoverableFlash WITH
    partition <- boot, kept <- Kept, safe <- Safe, owed <- owed
ImplementsRecoverableFlash == Promise!Spec

----------------------------------------------------------------------------
(* What the comments say and the code does not do.                         *)

\* "No new backup: drop the draft manifest; the previous one remains
\* authoritative" (boot_patch.sh:325-326): the backup of the image a script
\* has overwritten keeps its manifest.
RecoveryHasManifest ==
    owed # None => \A m \in Minutes : bak[m] = Stock(owed) => man[m] # None
============================================================================
