------------------------ MODULE BootScripts_proofs ------------------------
(***************************************************************************)
(* Theorems about BootScripts and about PatchSession, which has the same   *)
(* variables and steps, for every set of releases and every bound on the   *)
(* clock.  The safety theorems about BootScripts are about callers that do *)
(* what the WebUI does (KP_REBACKUP is never set) and about users who do   *)
(* not flash with another tool while the patch page is open; those about   *)
(* PatchSession are about users who wait.                                  *)
(***************************************************************************)
EXTENDS PatchSession, TLAPS

Careful == RebackupFlags = {FALSE} /\ FlashWhileOpen = FALSE

----------------------------------------------------------------------------
(* The inductive invariant.                                                *)

\* The steps at which a script has not changed its working directory yet.
Reading == {"unpack", "draft", "decide", "copy", "validate", "promote", "embed",
            "inspect", "unpatch"}
Backing == {"decide", "copy", "validate", "promote"}
Patching == {"embed", "kptools"}
Ending == {"repack", "flash"}

\* An open page and a script that only reads see the kernel that is on the
\* partition, or none.
FreshDir ==
    (pc = "idle" /\ session = "open") \/ pc \in Reading =>
        /\ wd.newBoot = None
        /\ wd.kernel # None => wd.kernel = boot /\ wd.parts

\* A script runs from an open page, in the steps of its own mode, never forced.
RunState ==
    /\ job.force = FALSE
    /\ pc # "idle" => session = "open"
    /\ pc \in Backing \cup Patching \cup {"draft"} => job.mode = "patch"
    /\ pc \in {"inspect", "unpatch"} => job.mode = "unpatch"
    /\ pc \in (Reading \ {"unpack"}) => wd.kernel # None
    /\ pc \in Reading \cup {"kptools"} \cup Ending => job.from = boot
    /\ pc \in Patching \cup Ending /\ job.mode = "patch" => boot # Torn
    /\ pc = "unpatch" \/ (pc \in Ending /\ job.mode = "unpatch") =>
          boot # Torn /\ boot.patched

\* What the script has made so far.
Made == [base |-> job.from.base, patched |-> (job.mode = "patch")]
Products ==
    /\ pc = "kptools" => wd.ori = boot /\ wd.parts
    /\ pc = "repack" => wd.kernel = Made /\ wd.parts
    /\ pc = "flash" => wd.newBoot = Made
    /\ pc = "writing" => job.src = Made /\ job.from # Torn

\* Names grow with the clock, those a power failure may bring back too; the
\* draft is the newest manifest.
Clocked ==
    /\ \A m \in Minutes : man[m] # None \/ manDisk[m] # None => m <= clock
    /\ job.stamp <= clock
    /\ pc = "decide" => \A m \in Minutes : man[m] # None => m <= job.stamp

\* The draft a script has written, and the copy beside it.  The files of its
\* minute are its own unless they are in doubt.
Backup ==
    /\ pc \in Backing /\ job.missed # "backup" =>
          man[job.stamp] # None /\ job.stamp \notin doubt
    /\ pc \in Backing /\ job.stamp \notin doubt /\ man[job.stamp] \in Manifest =>
          man[job.stamp].image = boot /\ ~man[job.stamp].verified
    /\ pc \in {"copy", "validate", "promote"} /\ job.missed # "backup" =>
          ~boot.patched
    /\ pc = "validate" /\ job.stamp \notin doubt =>
          bak[job.stamp] \in {boot, Torn, None}
    /\ pc = "promote" /\ job.stamp \notin doubt => bak[job.stamp] = boot
    /\ pc \in Patching \cup Ending /\ ~boot.patched /\ job.mode = "patch"
             /\ job.missed # "backup" =>
          bak[job.stamp] = boot

\* What is owed is the release on the partition, or the one being written.
OwedHere ==
    owed # None =>
        /\ boot # Torn => boot.base = owed
        /\ pc = "writing" => job.src.base = owed

\* From the first block of a flash to its last the partition is torn.
WritingTorn == pc = "writing" => boot = Torn

\* Before a flash and after it, the copy that the partition depends on has
\* reached the storage.
Durable ==
    owed # None /\ pc # "writing" =>
        \/ boot = Stock(owed)
        \/ \E m \in Minutes : bak[m] = Stock(owed) /\ bakDisk[m] = Stock(owed)

IInv ==
    /\ FreshDir
    /\ RunState
    /\ Products
    /\ Clocked
    /\ Backup
    /\ OwedHere
    /\ WritingTorn
    /\ Durable
    /\ OverwrittenIsRecoverable
    /\ VerifiedMeansWhole

----------------------------------------------------------------------------
(* Type correctness.                                                       *)

\* What the named assumptions say, in the form the steps use.
LEMMA Constants ==
    /\ 1 \in Minutes
    /\ Minutes \subseteq Nat
    /\ None # Torn
    /\ None \notin Image /\ Torn \notin Image
    /\ None \notin Bases
    /\ None \notin Manifest /\ Torn \notin Manifest
    /\ \A i \in Image : i.base \in Bases /\ i.patched \in BOOLEAN
  BY ClockAssumption, NoImageAssumption DEF Minutes, Image

\* A kernel keeps its release when KernelPatch is put in or taken out.
LEMMA PatchedImage ==
    ASSUME NEW i \in Image, NEW p \in BOOLEAN
    PROVE  /\ [i EXCEPT !.patched = p] \in Image
           /\ [i EXCEPT !.patched = p] = [base |-> i.base, patched |-> p]
  BY DEF Image

\* TypeOK is inductive with what it needs of a local of the script: the image
\* being written is a file.
LocalsOK == pc = "writing" => job.src # None

TypeInv == TypeOK /\ LocalsOK

LEMMA NoJobType ==
    /\ NoJob \in Job
    /\ NoJob.stamp = 1 /\ NoJob.force = FALSE /\ NoJob.missed = "nothing"
  BY Constants DEF NoJob, Job

LEMMA NoDirType ==
    /\ NoDir \in WorkDir
    /\ NoDir.kernel = None /\ NoDir.ori = None /\ NoDir.newBoot = None
  BY DEF NoDir, WorkDir

LEMMA FreshDirType ==
    /\ Fresh \in WorkDir /\ Fresh.dir /\ ~Fresh.parts
    /\ Fresh.kernel = None /\ Fresh.ori = None /\ Fresh.newBoot = None
  <1>1. PICK d : d = Fresh
    OBVIOUS
  <1>2. d = [dir |-> TRUE, kernel |-> None, ori |-> None, parts |-> FALSE,
             newBoot |-> None]
    BY <1>1 DEF Fresh, NoDir
  <1> QED
    BY <1>1, <1>2 DEF WorkDir

LEMMA TypeInit == Init => TypeInv
  BY Constants, NoJobType, NoDirType DEF Init, NoFile, TypeInv, TypeOK, LocalsOK

LEMMA TypeStart ==
    ASSUME TypeInv,
           NEW mode \in {"patch", "unpatch"}, NEW flash \in BOOLEAN,
           NEW force \in BOOLEAN, Start(mode, flash, force)
    PROVE  TypeInv'
  BY DEF TypeInv, TypeOK, LocalsOK, Start, Goto, Job, files

LEMMA WholeKernel ==
    ASSUME TypeInv, wd.kernel # None PROVE wd.kernel \in Image
  BY DEF TypeInv, TypeOK, WorkDir

LEMMA TypeScript == TypeInv /\ Script => TypeInv'
  <1> SUFFICES ASSUME TypeInv, Script PROVE TypeInv'
    OBVIOUS
  <1>0. job.stamp \in Minutes
    BY DEF TypeInv, TypeOK, Job
  <1>1. CASE Unpack
    <2>1. wd' \in WorkDir
      BY <1>1 DEF TypeInv, TypeOK, LocalsOK, Unpack, Unpacked, WorkDir
    <2> QED
      BY <1>1, <2>1 DEF TypeInv, TypeOK, LocalsOK, Unpack, Goto, Exit, files
  <1>2. CASE Draft
    <2>1. job' \in Job
      BY <1>2 DEF TypeInv, TypeOK, Draft, Job
    <2>2. /\ man' \in [Minutes -> Manifest \cup {None, Torn}]
          /\ manDisk' \in [Minutes -> Manifest \cup {None, Torn}]
      <3>1. ASSUME NEW d \in Drafts PROVE d \in Manifest
        <4>1. PICK kp \in KpStates : d = [image |-> boot, kp |-> kp, verified |-> FALSE]
          BY <3>1 DEF Drafts, KpStates
        <4> QED
          BY <4>1 DEF Manifest, TypeInv, TypeOK
      <3> QED
        BY <1>2, <3>1 DEF TypeInv, TypeOK, Draft
    <2> QED
      BY <1>2, <2>1, <2>2 DEF TypeInv, TypeOK, LocalsOK, Draft, Goto
  <1>3. CASE Decide
    <2>1. job' \in Job
      BY <1>3 DEF TypeInv, TypeOK, Decide, Misses, Job
    <2> QED
      BY <1>0, <1>3, <2>1 DEF TypeInv, TypeOK, LocalsOK, Decide, Goto, Exit
  <1>4. CASE Copy
    <2>1. job' \in Job
      BY <1>4 DEF TypeInv, TypeOK, Copy, Misses, Job
    <2>2. bak' \in [Minutes -> Image \cup {None, Torn}]
      BY <1>4 DEF TypeInv, TypeOK, Copy
    <2>3. bakDisk' \in [Minutes -> Image \cup {None, Torn}]
      BY <1>0, <1>4 DEF TypeInv, TypeOK, Copy
    <2> QED
      BY <1>0, <1>4, <2>1, <2>2, <2>3 DEF TypeInv, TypeOK, LocalsOK, Copy, Goto
  <1>5. CASE Validate
    BY <1>0, <1>5 DEF TypeInv, TypeOK, LocalsOK, Validate, Goto, Exit
  <1>6. CASE Promote
    <2>1. man[job.stamp] \in Manifest => [man[job.stamp] EXCEPT !.verified = TRUE] \in Manifest
      BY DEF Manifest
    <2> QED
      BY <1>0, <1>6, <2>1 DEF TypeInv, TypeOK, LocalsOK, Promote, Goto
  <1>7. CASE Embed
    <2>1. wd' \in WorkDir
      BY <1>7 DEF TypeInv, TypeOK, LocalsOK, Embed, WorkDir
    <2> QED
      BY <1>7, <2>1 DEF TypeInv, TypeOK, LocalsOK, Embed, Goto, Exit, files
  <1>8. CASE Kptools
    <2>1. wd' \in WorkDir
      <3>1. \A k \in Image : [wd EXCEPT !.kernel = k] \in WorkDir
        BY DEF TypeInv, TypeOK, WorkDir
      <3>2. wd \in WorkDir /\ (wd.ori # None => [wd.ori EXCEPT !.patched = TRUE] \in Image)
        BY PatchedImage DEF TypeInv, TypeOK, WorkDir
      <3> QED
        BY <1>8, <3>1, <3>2 DEF Kptools
    <2> QED
      BY <1>8, <2>1 DEF TypeInv, TypeOK, LocalsOK, Kptools, Goto, Exit, files
  <1>9. CASE Inspect
    <2>1. job' \in Job
      BY <1>9 DEF TypeInv, TypeOK, Inspect, Misses, Job
    <2> QED
      BY <1>9, <2>1 DEF TypeInv, TypeOK, LocalsOK, Inspect, Goto, Exit, files
  <1>10. CASE Unpatch
    <2>1. wd' \in WorkDir
      <3>1. \A o \in Image, k \in Image \cup {None} : [wd EXCEPT !.ori = o, !.kernel = k] \in WorkDir
        BY DEF TypeInv, TypeOK, WorkDir
      <3>2. /\ wd \in WorkDir
            /\ wd.kernel # None => wd.kernel \in Image /\ [wd.kernel EXCEPT !.patched = FALSE] \in Image
        BY PatchedImage DEF TypeInv, TypeOK, WorkDir
      <3> QED
        BY <1>10, <3>1, <3>2 DEF Unpatch
    <2> QED
      BY <1>10, <2>1 DEF TypeInv, TypeOK, LocalsOK, Unpatch, Goto, Exit, files
  <1>11. CASE Repack
    <2>1. wd' \in WorkDir
      BY <1>11 DEF TypeInv, TypeOK, LocalsOK, Repack, WorkDir
    <2> QED
      BY <1>11, <2>1 DEF TypeInv, TypeOK, LocalsOK, Repack, Goto, Exit, files
  <1>12. CASE Flash
    <2>1. job' \in Job
      BY <1>12 DEF TypeInv, TypeOK, LocalsOK, Flash, Job, WorkDir
    <2>2. owed' \in Bases \cup {None}
      BY <1>12, Constants DEF TypeInv, TypeOK, LocalsOK, Flash
    <2>3. pc' = "writing" => job'.src # None
      BY <1>12 DEF TypeInv, TypeOK, Flash, Job, WorkDir, Exit
    <2>4. pc' \in {"exited", "writing"} /\ rc' \in {0, 1} /\ boot' \in Image \cup {Torn}
      BY <1>12 DEF TypeInv, TypeOK, Flash, Goto, Exit
    <2> QED
      BY <1>12, <2>1, <2>2, <2>3, <2>4 DEF TypeInv, TypeOK, LocalsOK, Flash, files
  <1>13. CASE Written
    <2>1. boot' \in Image \cup {Torn}
      BY <1>13 DEF TypeInv, TypeOK, LocalsOK, Written, Job
    <2>2. job' \in Job
      BY <1>13 DEF TypeInv, TypeOK, Written, Misses, Job
    <2> QED
      BY <1>13, <2>1, <2>2 DEF TypeInv, TypeOK, LocalsOK, Written, Exit, Sync
  <1> QED
    BY <1>1, <1>2, <1>3, <1>4, <1>5, <1>6, <1>7, <1>8, <1>9, <1>10, <1>11,
       <1>12, <1>13 DEF Script

\* The directory of an open page: fresh, or with the image just unpacked.
LEMMA OpenDir ==
    ASSUME TypeInv, Open
    PROVE  /\ wd' \in WorkDir
           /\ wd'.newBoot = None
           /\ wd'.kernel # None => wd'.kernel = boot /\ wd'.parts
  <1>1. Fresh \in WorkDir /\ Fresh.newBoot = None /\ Fresh.kernel = None
    BY FreshDirType
  <1>2. CASE wd' = Fresh
    BY <1>1, <1>2
  <1>3. CASE wd' = Unpacked(Fresh) /\ boot # Torn
    BY <1>1, <1>3 DEF WorkDir, Unpacked, TypeInv, TypeOK
  <1> QED
    BY <1>2, <1>3 DEF Open

\* What a power failure leaves of the files.
LEMMA LostFiles ==
    ASSUME TypeInv, NEW left, PowerLoss(left)
    PROVE  /\ bak' \in [Minutes -> Image \cup {None, Torn}]
           /\ man' \in [Minutes -> Manifest \cup {None, Torn}]
           /\ \A m \in Minutes : bak'[m] \in {bak[m], bakDisk[m]} /\ man'[m] \in {man[m], manDisk[m]}
           /\ \A m \in Minutes \ doubt' : m \notin doubt /\ bak'[m] = bak[m] /\ man'[m] = man[m]
           /\ doubt' \subseteq Minutes
           /\ bakDisk' = bak' /\ manDisk' = man'
           /\ pc' = "idle" /\ job' = NoJob /\ rc' = 0 /\ wd' = left
           /\ boot' = boot \/ (pc = "writing" /\ boot' = job.src)
           /\ clock' = clock /\ session # "off" /\ session' = "off"
  <1>1. PICK lost \in SUBSET {m \in Minutes : bak[m] # bakDisk[m]},
             lostMan \in SUBSET {m \in Minutes : man[m] # manDisk[m]} :
          /\ bak' = [m \in Minutes |-> IF m \in lost THEN bakDisk[m] ELSE bak[m]]
          /\ man' = [m \in Minutes |-> IF m \in lostMan THEN manDisk[m] ELSE man[m]]
          /\ doubt' = doubt \cup {m \in Minutes : bak'[m] # bak[m] \/ man'[m] # man[m]}
    BY DEF PowerLoss
  <1>2. \A m \in Minutes : bak'[m] \in {bak[m], bakDisk[m]} /\ man'[m] \in {man[m], manDisk[m]}
    BY <1>1
  <1>3. /\ bak' \in [Minutes -> Image \cup {None, Torn}]
        /\ man' \in [Minutes -> Manifest \cup {None, Torn}]
    BY <1>1 DEF TypeInv, TypeOK
  <1>4. doubt' \subseteq Minutes
    BY <1>1 DEF TypeInv, TypeOK
  <1>5. \A m \in Minutes \ doubt' : m \notin doubt /\ bak'[m] = bak[m] /\ man'[m] = man[m]
    BY <1>1
  <1> QED
    BY <1>2, <1>3, <1>4, <1>5 DEF PowerLoss, Forget

LEMMA TypePowerLoss ==
    ASSUME TypeInv, NEW left \in WorkDir, PowerLoss(left) PROVE TypeInv'
  <1>1. owed' \in Bases \cup {None}
    BY DEF PowerLoss, TypeInv, TypeOK
  <1>2. boot' \in Image \cup {Torn}
    BY LostFiles DEF TypeInv, TypeOK, LocalsOK, Job
  <1> QED
    BY <1>1, <1>2, LostFiles, NoJobType DEF TypeInv, TypeOK, LocalsOK

LEMMA TypeEnvironment == TypeInv /\ Environment => TypeInv'
  <1> SUFFICES ASSUME TypeInv, Environment PROVE TypeInv'
    OBVIOUS
  <1> USE DEF TypeInv, TypeOK, LocalsOK, files
  <1>1. CASE Open
    BY <1>1, OpenDir DEF Open
  <1>2. CASE Cleanup
    BY <1>2, NoDirType, NoJobType DEF Cleanup, Forget
  <1>3. CASE ExternalFlash
    BY <1>3 DEF ExternalFlash
  <1>4. CASE Tick
    BY <1>4, ClockAssumption DEF Tick, Minutes
  <1>5. CASE Crash
    BY <1>5, TypePowerLoss, NoDirType DEF Crash
  <1>6. CASE PowerOn
    BY <1>6 DEF PowerOn
  <1>7. CASE Close
    BY <1>7, NoDirType DEF Close
  <1> QED
    BY <1>1, <1>2, <1>3, <1>4, <1>5, <1>6, <1>7 DEF Environment

LEMMA TypeStutter == TypeInv /\ UNCHANGED vars => TypeInv'
  BY DEF TypeInv, TypeOK, LocalsOK, vars, files

LEMMA TypeNext == TypeInv /\ [Next]_vars => TypeInv'
  <1> SUFFICES ASSUME TypeInv, [Next]_vars PROVE TypeInv'
    OBVIOUS
  <1>1. CASE \E flash \in BOOLEAN, force \in RebackupFlags : Start("patch", flash, force)
    BY <1>1, TypeStart, FlagAssumption
  <1>2. CASE Start("unpatch", TRUE, FALSE)
    BY <1>2, TypeStart
  <1> QED
    BY <1>1, <1>2, TypeScript, TypeEnvironment, TypeStutter DEF Next

\* Type correctness of the scripts, for every choice of the constants: no step
\* leaves a file, a local or an exit status outside its set.
THEOREM TypeCorrect == Spec => []TypeOK
  <1>1. Spec => []TypeInv
    BY TypeInit, TypeNext, PTL DEF Spec
  <1>2. TypeInv => TypeOK
    BY DEF TypeInv
  <1> QED
    BY <1>1, <1>2, PTL

----------------------------------------------------------------------------
(* Every action preserves the invariant.                                   *)

\* What the files hold, in every step below.
USE DEF files

LEMMA StepStart ==
    ASSUME TypeInv, IInv, NEW mode \in {"patch", "unpatch"},
           NEW flash \in BOOLEAN, Start(mode, flash, FALSE)
    PROVE  IInv'
  <1>1. job' = [mode |-> mode, flash |-> flash, force |-> FALSE,
                stamp |-> clock, src |-> None, from |-> boot, missed |-> "nothing"]
    BY DEF Start
  <1>2. pc' = "unpack" /\ session = "open" /\ pc = "idle"
    BY DEF Start, Goto
  <1>3. FreshDir' /\ Durable' /\ OverwrittenIsRecoverable' /\ VerifiedMeansWhole'
    BY <1>2 DEF IInv, FreshDir, Durable, OverwrittenIsRecoverable, VerifiedMeansWhole, Start
  <1>4. RunState' /\ Products' /\ Backup' /\ WritingTorn'
    BY <1>1, <1>2 DEF RunState, Products, Backup, WritingTorn, Reading, Backing,
       Patching, Ending, Start
  <1>5. Clocked' /\ OwedHere'
    BY <1>1, <1>2, Constants DEF IInv, Clocked, OwedHere, TypeInv, TypeOK, Start
  <1> QED
    BY <1>3, <1>4, <1>5 DEF IInv

LEMMA StepUnpack ==
    ASSUME TypeInv, IInv, Unpack PROVE IInv'
  <1>1. Products' /\ Clocked' /\ Backup' /\ OwedHere'
       /\ WritingTorn' /\ Durable' /\ OverwrittenIsRecoverable' /\ VerifiedMeansWhole'
    BY DEF IInv, Products, Made, Clocked, Backup, Reading, Backing, Patching,
       Ending, OwedHere, WritingTorn, Durable, OverwrittenIsRecoverable,
       VerifiedMeansWhole, Unpack, Goto, Exit, TypeInv, TypeOK
  <1>2. /\ UNCHANGED <<boot, session, job>> /\ pc = "unpack"
        /\ \/ pc' = "exited" /\ wd' = wd
           \/ /\ pc' = IF job.mode = "patch" THEN "draft" ELSE "inspect"
              /\ (wd' = wd /\ wd.kernel # None) \/ (wd' = Unpacked(wd) /\ boot # Torn)
    BY DEF Unpack, Goto, Exit
  <1>3. /\ Unpacked(wd).kernel = boot /\ Unpacked(wd).parts
        /\ Unpacked(wd).newBoot = wd.newBoot
    BY DEF TypeInv, TypeOK, WorkDir, Unpacked
  <1>4. boot # None /\ job.mode \in {"patch", "unpatch"}
    BY Constants DEF TypeInv, TypeOK, Job
  <1>5. FreshDir'
    BY <1>2, <1>3 DEF IInv, FreshDir, Reading
  <1>6. RunState'
    BY <1>2, <1>3, <1>4 DEF IInv, RunState, Reading, Backing, Patching, Ending
  <1> QED
    BY <1>1, <1>5, <1>6 DEF IInv

\* What a draft leaves: it is written, or the script has missed a failure and any
\* manifest of the minute is in doubt.
LEMMA DraftFacts ==
    ASSUME TypeInv, Draft
    PROVE  /\ pc = "draft" /\ pc' = "decide" /\ clock \in Minutes
           /\ UNCHANGED <<boot, bak, bakDisk, wd, session, clock, owed>>
           /\ job'.stamp = clock /\ job'.mode = job.mode /\ job'.force = job.force
           /\ job'.from = job.from /\ job'.src = job.src
           /\ \A m \in Minutes : m # clock =>
                 /\ man'[m] = man[m] /\ manDisk'[m] = manDisk[m]
                 /\ m \in doubt' <=> m \in doubt
           /\ \/ /\ clock \notin doubt' /\ man'[clock] # None
                 /\ man'[clock] \in Manifest =>
                       man'[clock].image = boot /\ ~man'[clock].verified
              \/ /\ job'.missed = "backup" /\ man'[clock] = man[clock]
                 /\ man[clock] # None => clock \in doubt'
  <1>1. /\ pc = "draft" /\ pc' = "decide" /\ clock \in Minutes
        /\ UNCHANGED <<boot, bak, bakDisk, wd, session, clock, owed>>
    BY DEF Draft, Goto, TypeInv, TypeOK
  <1>2. CASE job' = [job EXCEPT !.stamp = clock, !.missed = "backup"]
             /\ doubt' = (IF man[clock] = None THEN doubt ELSE doubt \cup {clock})
             /\ UNCHANGED <<man, manDisk>>
    BY <1>1, <1>2 DEF TypeInv, TypeOK, Job
  <1>3. CASE /\ \E draft \in Drafts \cup {Torn} : man' = [man EXCEPT ![clock] = draft]
             /\ \E part \in {manDisk[clock], man[clock], Torn} :
                   manDisk' = [manDisk EXCEPT ![clock] = part]
             /\ doubt' = doubt \ {clock}
             /\ job' = [job EXCEPT !.stamp = clock]
    <2>1. /\ job'.stamp = clock /\ job'.mode = job.mode /\ job'.force = job.force
          /\ job'.from = job.from /\ job'.src = job.src
      BY <1>3 DEF TypeInv, TypeOK, Job
    <2>2. /\ \A m \in Minutes : m # clock =>
                /\ man'[m] = man[m] /\ manDisk'[m] = manDisk[m]
                /\ m \in doubt' <=> m \in doubt
          /\ clock \notin doubt'
      BY <1>3 DEF TypeInv, TypeOK
    <2>3. PICK draft \in Drafts \cup {Torn} : man'[clock] = draft
      BY <1>1, <1>3 DEF TypeInv, TypeOK
    <2>4. CASE draft = Torn
      BY <1>1, <2>1, <2>2, <2>3, <2>4, Constants
    <2>5. CASE draft \in Drafts
      <3>1. PICK kp \in KpStates : draft = [image |-> boot, kp |-> kp, verified |-> FALSE]
        BY <2>5 DEF Drafts, KpStates
      <3>2. draft \in Manifest /\ draft.image = boot /\ draft.verified = FALSE
        BY <3>1 DEF Manifest, TypeInv, TypeOK
      <3> QED
        BY <1>1, <2>1, <2>2, <2>3, <3>2, Constants
    <2> QED
      BY <2>3, <2>4, <2>5
  <1> QED
    BY <1>2, <1>3 DEF Draft

LEMMA StepDraft ==
    ASSUME TypeInv, IInv, Draft PROVE IInv'
  <1>1. FreshDir' /\ Products' /\ OwedHere' /\ WritingTorn' /\ Durable' /\ OverwrittenIsRecoverable'
    BY DraftFacts DEF IInv, FreshDir, Reading, Products, OwedHere, WritingTorn, Durable,
       OverwrittenIsRecoverable
  <1>2. RunState'
    <2>1. wd.kernel # None
      BY DEF Draft
    <2> QED
      BY <2>1, DraftFacts DEF IInv, RunState, Reading, Backing, Patching, Ending
  <1>3. Clocked'
    BY DraftFacts, Constants DEF IInv, TypeInv, TypeOK, Clocked
  <1>4. Backup'
    BY DraftFacts, Constants DEF Backup, Backing, Patching, Ending
  <1>5. VerifiedMeansWhole'
    BY DraftFacts, Constants DEF IInv, VerifiedMeansWhole
  <1> QED
    BY <1>1, <1>2, <1>3, <1>4, <1>5 DEF IInv

\* With the draft in place is_boot_modified_externally finds nothing.
LEMMA OwnDraft ==
    ASSUME TypeInv, IInv, pc = "decide", job.missed # "backup"
    PROVE  ~ModifiedSinceBackup
  <1>1. job.stamp \in Minutes /\ man[job.stamp] # None
    BY DEF TypeInv, TypeOK, Job, IInv, Backup, Backing
  <1>2. man[job.stamp] = Torn \/ man[job.stamp].image = boot
    BY <1>1 DEF TypeInv, TypeOK, IInv, Backup, Backing
  <1>3. ASSUME NEW m \in Latest PROVE m = job.stamp
    <2>1. m \in Minutes /\ man[m] # None /\ job.stamp <= m
      BY <1>1 DEF Latest
    <2>2. m <= job.stamp
      BY <2>1 DEF IInv, Clocked
    <2>3. m \in Nat /\ job.stamp \in Nat
      BY <1>1, <2>1, ClockAssumption DEF Minutes
    <2> QED
      BY <2>1, <2>2, <2>3
  <1> QED
    BY <1>2, <1>3 DEF ModifiedSinceBackup

LEMMA StepDecide ==
    ASSUME TypeInv, IInv, Decide PROVE IInv'
  <1>0. /\ pc = "decide" /\ pc' \in {"copy", "embed", "exited"}
        /\ UNCHANGED <<boot, bak, bakDisk, manDisk, wd, session, clock, owed, doubt>>
        /\ job'.stamp = job.stamp /\ job'.mode = job.mode /\ job'.force = job.force
        /\ job'.from = job.from /\ job'.src = job.src /\ job.stamp \in Minutes
    BY DEF Decide, Misses, Goto, Exit, TypeInv, TypeOK, Job
  <1>1. man' = man \/ man' = [man EXCEPT ![job.stamp] = None]
    BY DEF Decide
  <1>2. FreshDir' /\ Products' /\ OwedHere' /\ WritingTorn' /\ Durable' /\ OverwrittenIsRecoverable'
    BY <1>0 DEF IInv, FreshDir, Reading, Products, OwedHere, WritingTorn, Durable,
       OverwrittenIsRecoverable
  <1>3. RunState'
    BY <1>0, Constants, WholeKernel DEF IInv, FreshDir, RunState, Reading, Backing, Patching, Ending, Decide, Exit
  <1>4. Clocked'
    BY <1>0, <1>1 DEF IInv, TypeInv, TypeOK, Clocked
  <1>5. VerifiedMeansWhole'
    BY <1>0, <1>1, Constants DEF IInv, TypeInv, TypeOK, VerifiedMeansWhole
  <1>6. wd.kernel # None => wd.kernel = boot
    BY <1>0 DEF IInv, FreshDir, Reading
  <1>7. Backup'
    <2>1. CASE pc' = "copy"
      <3>1. wd.kernel # None /\ ShouldBackup /\ UNCHANGED <<man, job>>
        BY <2>1 DEF Decide, Exit, Goto
      <3>2. job.missed # "backup" => ~boot.patched
        BY <1>0, <1>6, <3>1, OwnDraft DEF ShouldBackup, IInv, RunState
      <3> QED
        BY <1>0, <2>1, <3>1, <3>2 DEF IInv, Backup, Backing, Patching, Ending
    <2>2. CASE pc' = "embed"
      <3>1. ~boot.patched => job'.missed = "backup"
        BY <1>6, <2>2 DEF Decide, Exit, Goto, ShouldBackup, Misses, TypeInv, TypeOK, Job
      <3> QED
        BY <2>2, <3>1, <1>0 DEF Backup, Backing, Patching, Ending
    <2>3. CASE pc' = "exited"
      BY <2>3 DEF Backup, Backing, Patching, Ending
    <2> QED
      BY <1>0, <2>1, <2>2, <2>3
  <1> QED
    BY <1>2, <1>3, <1>4, <1>5, <1>7 DEF IInv

\* A script that reads has a whole image on the partition.
LEMMA WholeBoot ==
    ASSUME TypeInv, IInv, pc \in (Reading \ {"unpack"}) \/ pc = "flash"
    PROVE  boot \in Image
  <1>1. CASE pc = "flash"
    <2>1. job.mode \in {"patch", "unpatch"} /\ boot \in Image \cup {Torn}
      BY DEF TypeInv, TypeOK, Job
    <2>2. boot # Torn
      BY <1>1, <2>1 DEF IInv, RunState, Ending
    <2> QED
      BY <2>1, <2>2
  <1>2. CASE pc \in Reading \ {"unpack"}
    <2>1. wd.kernel # None /\ wd.kernel = boot
      BY <1>2 DEF IInv, FreshDir, RunState
    <2>2. wd.kernel \in Image \cup {None}
      BY DEF TypeInv, TypeOK, WorkDir
    <2> QED
      BY <2>1, <2>2
  <1> QED
    BY <1>1, <1>2

\* A whole unpatched backup is of its own release only.
LEMMA StockImage ==
    /\ \A b \in Bases : Stock(b) \in Image /\ Stock(b) # None /\ Stock(b) # Torn
    /\ \A b, c : Stock(b) = Stock(c) => b = c
    /\ \A i \in Image : ~i.patched <=> i = Stock(i.base)
  <1>1. \A b \in Bases : Stock(b) \in Image
    BY DEF Stock, Image
  <1>2. \A b, c : Stock(b) = Stock(c) => b = c
    <2> SUFFICES ASSUME NEW b, NEW c, Stock(b) = Stock(c) PROVE b = c
      OBVIOUS
    <2>1. Stock(b).base = b /\ Stock(c).base = c
      BY DEF Stock
    <2> QED
      BY <2>1
  <1>3. \A i \in Image : ~i.patched <=> i = Stock(i.base)
    BY DEF Stock, Image
  <1> QED
    BY <1>1, <1>2, <1>3, Constants

\* A backup that is made or removed is that of the image on the partition,
\* unless the script has missed a failure.
LEMMA OwedWhileBacking ==
    ASSUME TypeInv, IInv, pc \in {"copy", "validate", "promote"},
           job.missed # "backup", owed # None
    PROVE  boot = Stock(owed)
  <1>1. boot \in Image
    BY WholeBoot DEF Reading
  <1>2. ~boot.patched /\ boot.base = owed
    BY <1>1, Constants DEF IInv, Backup, OwedHere
  <1> QED
    BY <1>1, <1>2, StockImage

LEMMA StepCopy ==
    ASSUME TypeInv, IInv, Copy PROVE IInv'
  <1>0. /\ pc = "copy" /\ pc' = "validate"
        /\ UNCHANGED <<boot, man, manDisk, wd, session, clock>>
        /\ job'.stamp = job.stamp /\ job'.mode = job.mode /\ job'.force = job.force
        /\ job'.from = job.from /\ job'.src = job.src /\ job.stamp \in Minutes
        /\ job'.missed # "backup" => job'.missed = job.missed /\ doubt' = doubt
        /\ owed' \in {owed, None}
    BY DEF Copy, Misses, Goto, TypeInv, TypeOK, Job
  <1>1. /\ \A m \in Minutes : m # job.stamp =>
              bak'[m] = bak[m] /\ (m \in doubt' <=> m \in doubt)
        /\ job.stamp \notin doubt' =>
              job.stamp \notin doubt /\ bak'[job.stamp] \in {boot, Torn, None}
    BY <1>0 DEF Copy, TypeInv, TypeOK
  <1>2. FreshDir' /\ Products' /\ OwedHere' /\ WritingTorn'
    BY <1>0 DEF IInv, FreshDir, Reading, Products, OwedHere, WritingTorn
  <1>3. RunState'
    BY <1>0, Constants DEF IInv, RunState, Reading, Backing, Patching, Ending
  <1>4. Clocked'
    BY <1>0 DEF IInv, Clocked
  <1>5. Backup'
    BY <1>0, <1>1 DEF IInv, Backup, Backing, Patching, Ending
  <1>6. Durable' /\ OverwrittenIsRecoverable'
    <2>1. CASE UNCHANGED <<bak, bakDisk, owed>>
      BY <1>0, <2>1 DEF IInv, Durable, OverwrittenIsRecoverable
    <2>2. CASE owed' = IF job.missed = "backup" THEN None ELSE owed
      BY <1>0, <2>2, OwedWhileBacking DEF Durable, OverwrittenIsRecoverable
    <2> QED
      BY <2>1, <2>2 DEF Copy
  <1>7. VerifiedMeansWhole'
    BY <1>0, <1>1 DEF IInv, VerifiedMeansWhole, Backup, Backing
  <1> QED
    BY <1>2, <1>3, <1>4, <1>5, <1>6, <1>7 DEF IInv

LEMMA StepValidate ==
    ASSUME TypeInv, IInv, Validate PROVE IInv'
  <1>0. /\ pc = "validate" /\ pc' \in {"promote", "exited"} /\ job.stamp \in Minutes
        /\ UNCHANGED <<boot, bakDisk, manDisk, wd, session, job, clock, doubt>>
        /\ owed' \in {owed, None}
    BY DEF Validate, Goto, Exit, TypeInv, TypeOK, Job
  <1>1. CASE bak[job.stamp] \in Image /\ pc' = "promote" /\ UNCHANGED <<bak, man, owed>>
    <2>1. job.stamp \notin doubt => bak[job.stamp] = boot
      BY <1>0, <1>1, Constants DEF IInv, Backup
    <2>2. Backup'
      BY <1>0, <1>1, <2>1 DEF IInv, Backup, Backing, Patching, Ending
    <2>3. FreshDir' /\ RunState' /\ Products' /\ Clocked' /\ OwedHere' /\ WritingTorn'
      BY <1>0, <1>1 DEF IInv, FreshDir, RunState, Products, Made, Clocked, OwedHere, WritingTorn,
         Reading, Backing, Patching, Ending
    <2>4. Durable' /\ OverwrittenIsRecoverable' /\ VerifiedMeansWhole'
      BY <1>0, <1>1 DEF IInv, Durable, OverwrittenIsRecoverable, VerifiedMeansWhole
    <2> QED
      BY <2>2, <2>3, <2>4 DEF IInv
  <1>2. CASE /\ bak' = [bak EXCEPT ![job.stamp] = None]
             /\ man' = [man EXCEPT ![job.stamp] = None]
             /\ owed' = IF job.missed = "backup" THEN None ELSE owed
             /\ pc' = "exited"
    <2>1. FreshDir' /\ RunState' /\ Products' /\ OwedHere' /\ WritingTorn' /\ Backup'
      BY <1>0, <1>2 DEF IInv, FreshDir, RunState, Products, Made, OwedHere, WritingTorn, Backup,
         Reading, Backing, Patching, Ending
    <2>2. Clocked'
      BY <1>0, <1>2 DEF IInv, TypeInv, TypeOK, Clocked
    <2>3. Durable' /\ OverwrittenIsRecoverable'
      BY <1>0, <1>2, OwedWhileBacking DEF Durable, OverwrittenIsRecoverable
    <2>4. VerifiedMeansWhole'
      BY <1>0, <1>2, Constants DEF IInv, TypeInv, TypeOK, VerifiedMeansWhole
    <2> QED
      BY <2>1, <2>2, <2>3, <2>4 DEF IInv
  <1> QED
    BY <1>1, <1>2 DEF Validate, Goto, Exit

LEMMA StepPromote ==
    ASSUME TypeInv, IInv, Promote PROVE IInv'
  <1>0. /\ pc = "promote" /\ pc' = "embed" /\ job.stamp \in Minutes
        /\ UNCHANGED <<boot, bak, bakDisk, manDisk, wd, session, job, clock, owed, doubt>>
    BY DEF Promote, Goto, TypeInv, TypeOK, Job
  <1>1. /\ \A m \in Minutes : m # job.stamp => man'[m] = man[m]
        /\ \/ man'[job.stamp] \in {man[job.stamp], Torn}
           \/ /\ man[job.stamp] \in Manifest
              /\ man'[job.stamp].image = man[job.stamp].image
    <2>1. CASE man[job.stamp] \in Manifest /\ man' = [man EXCEPT ![job.stamp].verified = TRUE]
      <3>1. /\ \A m \in Minutes : m # job.stamp => man'[m] = man[m]
            /\ man'[job.stamp] = [man[job.stamp] EXCEPT !.verified = TRUE]
        BY <1>0, <2>1 DEF TypeInv, TypeOK
      <3>2. [man[job.stamp] EXCEPT !.verified = TRUE].image = man[job.stamp].image
        BY <2>1 DEF Manifest
      <3> QED
        BY <2>1, <3>1, <3>2
    <2>2. CASE man' = [man EXCEPT ![job.stamp] = Torn] \/ man' = man
      BY <1>0, <2>2 DEF TypeInv, TypeOK
    <2> QED
      BY <2>1, <2>2 DEF Promote
  <1>2. boot \in Image
    BY <1>0, WholeBoot DEF Reading
  <1>3. FreshDir' /\ Products' /\ OwedHere' /\ WritingTorn' /\ Durable' /\ OverwrittenIsRecoverable'
    BY <1>0 DEF IInv, FreshDir, Reading, Products, OwedHere, WritingTorn, Durable,
       OverwrittenIsRecoverable
  <1>4. RunState'
    BY <1>0, <1>2, Constants DEF IInv, RunState, Reading, Backing, Patching, Ending
  <1>5. Clocked'
    <2>1. man[job.stamp] \in Manifest \/ man'[job.stamp] = None \/ job.stamp <= clock
      BY DEF IInv, Clocked
    <2> QED
      BY <1>0, <1>1 DEF IInv, Clocked
  <1>6. Backup'
    BY <1>0 DEF IInv, Backup, Backing, Patching, Ending
  <1>7. VerifiedMeansWhole'
    <2> SUFFICES ASSUME NEW m \in Minutes \ doubt, man'[m] \in Manifest, man'[m].verified
                 PROVE  bak[m] = man'[m].image /\ bak[m] # Torn
      BY <1>0 DEF VerifiedMeansWhole
    <2>1. CASE m # job.stamp
      BY <1>1, <2>1 DEF IInv, VerifiedMeansWhole
    <2>2. CASE m = job.stamp
      <3>1. bak[m] = boot /\ boot # Torn
        BY <1>0, <1>2, <2>2, Constants DEF IInv, Backup
      <3>2. man[m] \in Manifest /\ man'[m].image = man[m].image
        BY <1>1, <2>2, Constants
      <3>3. man[m].image = boot
        BY <1>0, <2>2, <3>2 DEF IInv, Backup, Backing
      <3> QED
        BY <3>1, <3>2, <3>3
    <2> QED
      BY <2>1, <2>2
  <1> QED
    BY <1>3, <1>4, <1>5, <1>6, <1>7 DEF IInv

LEMMA StepEmbed ==
    ASSUME TypeInv, IInv, Embed PROVE IInv'
  <1>1. FreshDir' /\ Clocked' /\ OwedHere' /\ WritingTorn'
       /\ Durable' /\ OverwrittenIsRecoverable' /\ VerifiedMeansWhole'
    BY DEF IInv, FreshDir, Reading, Clocked, OwedHere, WritingTorn,
       Durable, OverwrittenIsRecoverable, VerifiedMeansWhole, Embed, Goto, Exit, TypeInv,
       TypeOK
  <1>2. RunState'
    BY Constants DEF IInv, TypeInv, TypeOK, FreshDir, RunState, Backup,
       Products, Reading, Backing, Patching, Ending, Embed, Goto, Exit, WorkDir,
       Job, Image
  <1>3. Products'
    <2>1. wd.kernel = boot /\ wd.kernel # None /\ wd.parts
      BY DEF IInv, RunState, FreshDir, Reading, Embed
    <2>2. pc' = "kptools" => wd'.ori = boot /\ wd'.parts
      BY <2>1 DEF TypeInv, TypeOK, WorkDir, Embed, Goto, Exit
    <2> QED
      BY <2>2 DEF Products, Embed, Goto, Exit
  <1>4. Backup'
    BY Constants DEF IInv, TypeInv, TypeOK, Backup, RunState, FreshDir, Reading,
       Backing, Patching, Ending, Embed, Goto, Exit, Job, Manifest, WorkDir,
       LocalsOK
  <1> QED
    BY <1>1, <1>2, <1>3, <1>4 DEF IInv

LEMMA StepKptools ==
    ASSUME TypeInv, IInv, Kptools PROVE IInv'
  <1>1. FreshDir' /\ Clocked' /\ OwedHere' /\ WritingTorn'
       /\ Durable' /\ OverwrittenIsRecoverable' /\ VerifiedMeansWhole'
    BY DEF IInv, FreshDir, Reading, Clocked, OwedHere, WritingTorn,
       Durable, OverwrittenIsRecoverable, VerifiedMeansWhole, Kptools, Goto, Exit,
       TypeInv, TypeOK
  <1>2. RunState'
    BY Constants, PatchedImage DEF IInv, TypeInv, TypeOK, FreshDir, RunState,
       Backup, Products, Reading, Backing, Patching, Ending, Kptools, Goto,
       Exit, WorkDir, Job, Image
  <1>3. Products'
    <2>1. wd.ori = boot /\ wd.parts /\ job.mode = "patch" /\ job.from = boot
      BY DEF IInv, RunState, Products, Patching, Kptools
    <2>2. CASE pc' = "repack"
      <3>1. boot \in Image
        BY DEF TypeInv, TypeOK, IInv, RunState, Patching, Kptools
      <3>2. wd'.kernel = [boot EXCEPT !.patched = TRUE] /\ wd'.parts
        BY <2>1, <2>2 DEF TypeInv, TypeOK, WorkDir, Kptools, Exit
      <3> QED
        BY <2>1, <2>2, <3>1, <3>2, PatchedImage DEF Products, Made, Kptools
    <2> QED
      BY <2>2 DEF Products, Kptools, Goto, Exit
  <1>4. Backup'
    BY Constants, PatchedImage DEF IInv, TypeInv, TypeOK, Backup, RunState,
       FreshDir, Reading, Backing, Patching, Ending, Kptools, Goto, Exit, Job,
       Manifest, WorkDir, LocalsOK
  <1> QED
    BY <1>1, <1>2, <1>3, <1>4 DEF IInv

LEMMA StepInspect ==
    ASSUME TypeInv, IInv, Inspect PROVE IInv'
  <1>0. /\ pc = "inspect" /\ pc' \in {"flash", "unpatch", "exited"}
        /\ pc' # "exited" => wd.kernel # None /\ wd.kernel.patched
        /\ pc' = "flash" => wd.newBoot # None
        /\ UNCHANGED <<boot, bak, man, bakDisk, manDisk, doubt, wd, session, clock, owed>>
        /\ job'.stamp = job.stamp /\ job'.mode = job.mode /\ job'.force = job.force
        /\ job'.from = job.from /\ job'.src = job.src
    BY DEF Inspect, Misses, Goto, Exit, TypeInv, TypeOK, Job
  <1>1. wd.newBoot = None /\ wd.kernel = boot /\ job.mode = "unpatch" /\ boot \in Image
    BY <1>0, WholeBoot DEF IInv, FreshDir, RunState, Reading
  <1>2. FreshDir' /\ Clocked' /\ OwedHere' /\ WritingTorn' /\ Durable'
        /\ OverwrittenIsRecoverable' /\ VerifiedMeansWhole'
    BY <1>0 DEF IInv, FreshDir, Reading, Clocked, OwedHere, WritingTorn, Durable,
       OverwrittenIsRecoverable, VerifiedMeansWhole
  <1>3. RunState' /\ Products' /\ Backup'
    BY <1>0, <1>1, Constants DEF IInv, RunState, Products, Backup, Reading, Backing, Patching, Ending
  <1> QED
    BY <1>2, <1>3 DEF IInv

LEMMA StepUnpatch ==
    ASSUME TypeInv, IInv, Unpatch PROVE IInv'
  <1>1. FreshDir' /\ Clocked' /\ OwedHere' /\ WritingTorn'
       /\ Durable' /\ OverwrittenIsRecoverable' /\ VerifiedMeansWhole'
    BY DEF IInv, FreshDir, Reading, Clocked, OwedHere, WritingTorn,
       Durable, OverwrittenIsRecoverable, VerifiedMeansWhole, Unpatch, Goto, Exit,
       TypeInv, TypeOK
  <1>2. RunState'
    BY Constants, PatchedImage DEF IInv, TypeInv, TypeOK, FreshDir, RunState,
       Backup, Products, Reading, Backing, Patching, Ending, Unpatch, Goto,
       Exit, WorkDir, Job, Image
  <1>3. Products'
    <2>1. /\ wd.kernel = boot /\ wd.parts /\ job.mode = "unpatch" /\ job.from = boot
          /\ wd.kernel # None
      BY DEF IInv, RunState, FreshDir, Reading, Unpatch
    <2>2. CASE pc' = "repack"
      <3>1. boot \in Image
        BY DEF TypeInv, TypeOK, IInv, RunState, Unpatch
      <3>2. wd'.kernel = [boot EXCEPT !.patched = FALSE] /\ wd'.parts
        BY <2>1, <2>2 DEF TypeInv, TypeOK, WorkDir, Unpatch, Exit
      <3> QED
        BY <2>1, <2>2, <3>1, <3>2, PatchedImage DEF Products, Made, Unpatch
    <2> QED
      BY <2>2 DEF Products, Unpatch, Goto, Exit
  <1>4. Backup'
    BY Constants, PatchedImage DEF IInv, TypeInv, TypeOK, Backup, RunState,
       FreshDir, Reading, Backing, Patching, Ending, Unpatch, Goto, Exit, Job,
       Manifest, WorkDir, LocalsOK
  <1> QED
    BY <1>1, <1>2, <1>3, <1>4 DEF IInv

LEMMA StepRepack ==
    ASSUME TypeInv, IInv, Repack PROVE IInv'
  <1>1. FreshDir' /\ Clocked' /\ OwedHere' /\ WritingTorn'
       /\ Durable' /\ OverwrittenIsRecoverable' /\ VerifiedMeansWhole'
    BY DEF IInv, FreshDir, Reading, Clocked, OwedHere, WritingTorn,
       Durable, OverwrittenIsRecoverable, VerifiedMeansWhole, Repack, Goto, Exit,
       TypeInv, TypeOK
  <1>2. RunState'
    BY Constants DEF IInv, TypeInv, TypeOK, FreshDir, RunState, Backup,
       Products, Reading, Backing, Patching, Ending, Repack, Goto, Exit,
       WorkDir, Job, Image
  <1>3. Products'
    BY Constants DEF IInv, TypeInv, TypeOK, FreshDir, RunState, Products, Made,
       Reading, Backing, Patching, Ending, Repack, Goto, Exit, WorkDir, Job,
       Image
  <1>4. Backup'
    BY Constants DEF IInv, TypeInv, TypeOK, Backup, RunState, FreshDir, Reading,
       Backing, Patching, Ending, Repack, Goto, Exit, Job, Manifest, WorkDir,
       LocalsOK
  <1> QED
    BY <1>1, <1>2, <1>3, <1>4 DEF IInv

\* The flash of an unpatched image that is not known to go without a backup.
LEMMA FlashBacked ==
    ASSUME TypeInv, IInv, Flash, ~boot.patched, job.missed # "backup"
    PROVE  bak[job.stamp] = boot /\ job.stamp \in Minutes
  BY DEF IInv, RunState, Backup, Ending, Flash, TypeInv, TypeOK, Job

LEMMA StepFlash ==
    ASSUME TypeInv, IInv, Flash PROVE IInv'
  <1>0. /\ pc = "flash" /\ boot \in Image /\ boot # Torn
        /\ UNCHANGED <<bak, man, bakDisk, manDisk, doubt, wd, session, clock>>
    BY WholeBoot, Constants DEF Flash
  <1>1. CASE pc' = "exited" /\ UNCHANGED <<boot, job, owed>>
    <2>1. FreshDir' /\ RunState' /\ Products' /\ Clocked' /\ Backup' /\ OwedHere' /\ WritingTorn'
      BY <1>0, <1>1 DEF IInv, FreshDir, RunState, Products, Clocked, Backup, OwedHere, WritingTorn,
         Reading, Backing, Patching, Ending
    <2>2. Durable' /\ OverwrittenIsRecoverable' /\ VerifiedMeansWhole'
      BY <1>0, <1>1 DEF IInv, Durable, OverwrittenIsRecoverable, VerifiedMeansWhole
    <2> QED
      BY <2>1, <2>2 DEF IInv
  <1>2. CASE pc' = "writing"
    <2>1. /\ boot' = Torn /\ wd.newBoot = Made
          /\ owed' = IF boot.patched THEN owed
                     ELSE IF job.missed = "backup" THEN None ELSE boot.base
      BY <1>0, <1>2 DEF IInv, Products, Flash, Exit
    <2>2. /\ job'.src = Made /\ job'.stamp = job.stamp /\ job'.mode = job.mode
          /\ job'.force = job.force /\ job'.from = job.from /\ job.from = boot
      BY <1>0, <1>2, <2>1 DEF Flash, Exit, TypeInv, TypeOK, Job, IInv, RunState, Ending
    <2>3. FreshDir' /\ RunState' /\ Clocked' /\ Backup' /\ WritingTorn' /\ Durable'
      BY <1>0, <1>2, <2>1, <2>2 DEF IInv, FreshDir, RunState, Clocked, Backup, WritingTorn, Durable,
         Reading, Backing, Patching, Ending
    <2>4. Made' = Made /\ Made.base = boot.base
      BY <2>2 DEF Made
    <2>5. Products' /\ OwedHere'
      BY <1>0, <1>2, <2>1, <2>2, <2>4 DEF IInv, Products, OwedHere
    <2>6. VerifiedMeansWhole'
      BY <1>0 DEF IInv, VerifiedMeansWhole
    <2>7. OverwrittenIsRecoverable'
      <3>1. CASE boot.patched
        <4>1. owed' = owed /\ (owed # None => boot # Stock(owed))
          BY <2>1, <3>1 DEF Stock
        <4> QED
          BY <1>0, <4>1 DEF IInv, OverwrittenIsRecoverable
      <3>2. CASE ~boot.patched /\ job.missed # "backup"
        <4>1. bak[job.stamp] = boot /\ job.stamp \in Minutes
          BY <3>2, FlashBacked
        <4>2. boot = Stock(boot.base) /\ owed' = boot.base
          BY <1>0, <2>1, <3>2, StockImage
        <4> QED
          BY <1>0, <4>1, <4>2 DEF OverwrittenIsRecoverable
      <3>3. CASE ~boot.patched /\ job.missed = "backup"
        BY <2>1, <3>3 DEF OverwrittenIsRecoverable
      <3> QED
        BY <3>1, <3>2, <3>3
    <2> QED
      BY <2>3, <2>5, <2>6, <2>7 DEF IInv
  <1> QED
    BY <1>1, <1>2 DEF Flash, Goto, Exit

LEMMA StepWritten ==
    ASSUME TypeInv, IInv, Written PROVE IInv'
  <1>0. /\ pc = "writing" /\ pc' = "exited" /\ boot = Torn /\ boot' \in {job.src, boot}
        /\ bakDisk' = bak /\ manDisk' = man
        /\ UNCHANGED <<bak, man, doubt, wd, session, clock, owed>>
        /\ job'.stamp = job.stamp /\ job'.mode = job.mode /\ job'.force = job.force
    BY DEF Written, Misses, Sync, Exit, TypeInv, TypeOK, Job, IInv, WritingTorn
  <1>1. FreshDir' /\ RunState' /\ Products' /\ Backup' /\ WritingTorn'
    BY <1>0 DEF IInv, FreshDir, RunState, Products, Backup, WritingTorn, Reading, Backing, Patching, Ending
  <1>2. Clocked' /\ OwedHere' /\ VerifiedMeansWhole'
    BY <1>0 DEF IInv, Clocked, OwedHere, VerifiedMeansWhole
  <1>3. Durable' /\ OverwrittenIsRecoverable'
    <2>1. owed # None => boot # Stock(owed)
      BY <1>0, StockImage DEF TypeInv, TypeOK
    <2> QED
      BY <1>0, <2>1 DEF IInv, Durable, OverwrittenIsRecoverable
  <1> QED
    BY <1>1, <1>2, <1>3 DEF IInv

LEMMA StepOpen ==
    ASSUME Careful, TypeInv, IInv, Open PROVE IInv'
  <1>1. Products' /\ Clocked' /\ Backup' /\ OwedHere'
       /\ WritingTorn' /\ Durable' /\ OverwrittenIsRecoverable' /\ VerifiedMeansWhole'
    BY DEF IInv, Products, Made, Clocked, Backup, Reading, Backing, Patching,
       Ending, OwedHere, WritingTorn, Durable, OverwrittenIsRecoverable,
       VerifiedMeansWhole, Open, TypeInv, TypeOK
  <1>2. FreshDir'
    BY OpenDir DEF FreshDir, Reading, Open
  <1>3. RunState'
    BY DEF IInv, RunState, Reading, Backing, Patching, Ending, Open
  <1> QED
    BY <1>1, <1>2, <1>3 DEF IInv

LEMMA StepClose ==
    ASSUME Careful, TypeInv, IInv, Close PROVE IInv'
  <1>1. Products' /\ Clocked' /\ Backup' /\ OwedHere'
       /\ WritingTorn' /\ Durable' /\ OverwrittenIsRecoverable' /\ VerifiedMeansWhole'
    BY DEF IInv, Products, Made, Clocked, Backup, Reading, Backing, Patching,
       Ending, OwedHere, WritingTorn, Durable, OverwrittenIsRecoverable,
       VerifiedMeansWhole, Close, TypeInv, TypeOK
  <1>2. FreshDir'
    BY Constants DEF IInv, TypeInv, TypeOK, FreshDir, RunState, Reading,
       Close, WorkDir, NoDir
  <1>3. RunState'
    BY Constants DEF IInv, TypeInv, TypeOK, FreshDir, RunState, Backup,
       Products, Reading, Backing, Patching, Ending, Close, WorkDir, Job,
       Image, NoDir
  <1> QED
    BY <1>1, <1>2, <1>3 DEF IInv

LEMMA StepCleanup ==
    ASSUME Careful, TypeInv, IInv, Cleanup PROVE IInv'
  <1>0. /\ pc = "exited" /\ pc' = "idle" /\ job' = NoJob /\ wd' = NoDir
        /\ UNCHANGED <<boot, bak, man, bakDisk, manDisk, doubt, clock, owed>>
        /\ clock \in Minutes
    BY DEF Cleanup, Forget, TypeInv, TypeOK
  <1>1. Clocked'
    BY <1>0, NoJobType, ClockAssumption DEF IInv, Clocked, Minutes
  <1>2. FreshDir' /\ RunState' /\ Products' /\ Backup' /\ WritingTorn'
    BY <1>0, NoJobType, NoDirType DEF FreshDir, RunState, Products, Backup, WritingTorn,
       Reading, Backing, Patching, Ending
  <1>3. OwedHere' /\ Durable' /\ OverwrittenIsRecoverable' /\ VerifiedMeansWhole'
    BY <1>0 DEF IInv, OwedHere, Durable, OverwrittenIsRecoverable, VerifiedMeansWhole
  <1> QED
    BY <1>1, <1>2, <1>3 DEF IInv

LEMMA StepExternalFlash ==
    ASSUME Careful, TypeInv, IInv, ExternalFlash PROVE IInv'
  <1>0. /\ pc = "idle" /\ pc' = "idle" /\ session # "open" /\ owed' = None
        /\ UNCHANGED <<bak, man, bakDisk, manDisk, doubt, wd, session, job, clock>>
    BY DEF ExternalFlash, Careful
  <1>1. Clocked' /\ OwedHere' /\ Durable' /\ OverwrittenIsRecoverable' /\ VerifiedMeansWhole'
    BY <1>0 DEF IInv, Clocked, OwedHere, Durable, OverwrittenIsRecoverable, VerifiedMeansWhole
  <1>2. FreshDir' /\ RunState' /\ Products' /\ Backup' /\ WritingTorn'
    BY <1>0 DEF IInv, FreshDir, RunState, Products, Backup, WritingTorn, Reading, Backing, Patching, Ending
  <1> QED
    BY <1>1, <1>2 DEF IInv

LEMMA StepTick ==
    ASSUME TypeInv, IInv, Tick PROVE IInv'
  <1>1. FreshDir' /\ RunState' /\ Products' /\ Backup'
       /\ OwedHere' /\ WritingTorn' /\ Durable' /\ OverwrittenIsRecoverable' /\ VerifiedMeansWhole'
    BY DEF IInv, FreshDir, Reading, RunState, Backing, Patching, Ending,
       Products, Made, Backup, OwedHere, WritingTorn, Durable, OverwrittenIsRecoverable,
       VerifiedMeansWhole, Tick, TypeInv, TypeOK
  <1>2. Clocked'
    BY ClockAssumption DEF IInv, TypeInv, TypeOK, Clocked, Tick, Job, Minutes
  <1> QED
    BY <1>1, <1>2 DEF IInv

\* What a power failure preserves, whatever it leaves in the directory.
LEMMA PowerLossKeeps ==
    ASSUME TypeInv, Clocked, OwedHere, WritingTorn, Durable, OverwrittenIsRecoverable, VerifiedMeansWhole,
           NEW left, PowerLoss(left)
    PROVE  Clocked' /\ OwedHere' /\ Durable' /\ OverwrittenIsRecoverable' /\ VerifiedMeansWhole'
  <1>1. Clocked'
    BY LostFiles, NoJobType, ClockAssumption DEF Clocked, TypeInv, TypeOK, Minutes
  <1>2. VerifiedMeansWhole'
    BY LostFiles DEF VerifiedMeansWhole
  <1>3. owed' \in {owed, None} /\ (pc = "writing" /\ owed \notin Kept' => owed' = None)
    BY DEF PowerLoss
  <1>4. OwedHere'
    BY <1>3, LostFiles DEF OwedHere
  <1>5. owed' # None => \/ boot' = Stock(owed)
                        \/ \E m \in Minutes : bak'[m] = Stock(owed)
    <2>1. CASE pc = "writing"
      BY <1>3, <2>1 DEF Kept
    <2>2. CASE pc # "writing"
      BY <1>3, <2>2, LostFiles DEF Durable
    <2> QED
      BY <2>1, <2>2
  <1> QED
    BY <1>1, <1>2, <1>3, <1>4, <1>5, LostFiles DEF Durable, OverwrittenIsRecoverable

LEMMA StepCrash ==
    ASSUME Careful, TypeInv, IInv, Crash PROVE IInv'
  <1>1. Clocked' /\ OwedHere' /\ Durable' /\ OverwrittenIsRecoverable' /\ VerifiedMeansWhole'
    BY PowerLossKeeps DEF IInv, Crash
  <1>2. pc' = "idle" /\ session' = "off" /\ job' = NoJob
    BY LostFiles DEF Crash
  <1>3. FreshDir' /\ RunState' /\ Products' /\ Backup' /\ WritingTorn'
    BY <1>2, NoJobType DEF FreshDir, RunState, Products, Backup, WritingTorn, Reading, Backing, Patching, Ending
  <1> QED
    BY <1>1, <1>3 DEF IInv

LEMMA StepPowerOn ==
    ASSUME Careful, TypeInv, IInv, PowerOn PROVE IInv'
  <1>1. FreshDir' /\ RunState' /\ Products' /\ Clocked'
       /\ Backup' /\ OwedHere' /\ WritingTorn' /\ Durable' /\ OverwrittenIsRecoverable' /\ VerifiedMeansWhole'
    BY DEF IInv, FreshDir, Reading, RunState, Backing, Patching, Ending,
       Products, Made, Clocked, Backup, OwedHere, WritingTorn,
       Durable, OverwrittenIsRecoverable, VerifiedMeansWhole, PowerOn, TypeInv, TypeOK
  <1> QED
    BY <1>1 DEF IInv

LEMMA InvInit == Init => IInv
  <1> SUFFICES ASSUME Init PROVE IInv
    OBVIOUS
  <1>1. FreshDir /\ RunState /\ Products /\ Backup
    BY Constants, NoJobType DEF Init, FreshDir, RunState, Products, Backup, Reading,
       Backing, Patching, Ending
  <1>2. Clocked /\ VerifiedMeansWhole
    BY Constants, NoJobType DEF Init, NoFile, Clocked, VerifiedMeansWhole
  <1>3. OwedHere /\ WritingTorn /\ Durable /\ OverwrittenIsRecoverable
    BY DEF Init, OwedHere, WritingTorn, Durable, OverwrittenIsRecoverable
  <1> QED
    BY <1>1, <1>2, <1>3 DEF IInv

LEMMA InvStutter == IInv /\ UNCHANGED vars => IInv'
  BY DEF vars, IInv, FreshDir, RunState, Products, Made, Clocked, Backup, OwedHere,
     WritingTorn, Durable, OverwrittenIsRecoverable, VerifiedMeansWhole, Reading,
     Backing, Patching, Ending

LEMMA InvScript == TypeInv /\ IInv /\ Script => IInv'
  BY StepUnpack, StepDraft, StepDecide, StepCopy, StepValidate, StepPromote, StepEmbed, StepKptools,
     StepInspect, StepUnpatch, StepRepack, StepFlash, StepWritten DEF Script

LEMMA InvNext == Careful /\ TypeInv /\ IInv /\ [Next]_vars => IInv'
  <1> SUFFICES ASSUME Careful, TypeInv, IInv, [Next]_vars PROVE IInv'
    OBVIOUS
  <1>1. CASE \E flash \in BOOLEAN, force \in RebackupFlags : Start("patch", flash, force)
    BY <1>1, StepStart DEF Careful
  <1>2. CASE Start("unpatch", TRUE, FALSE)
    BY <1>2, StepStart
  <1>3. CASE Script
    BY <1>3, InvScript
  <1>4. CASE Environment
    BY <1>4, StepOpen, StepClose, StepCleanup, StepExternalFlash, StepTick, StepCrash,
       StepPowerOn DEF Environment
  <1> QED
    BY <1>1, <1>2, <1>3, <1>4, InvStutter DEF Next

\* A script that reports a flash has done it, unless it has missed a failure.
LEMMA SuccessScript ==
    ASSUME TypeInv, IInv, Script
    PROVE  SuccessMeansFlashed'
  <1>1. CASE Unpack \/ Draft \/ Decide \/ Copy \/ Validate \/ Promote \/ Embed \/ Kptools \/ Unpatch
    BY <1>1 DEF SuccessMeansFlashed, Unpack, Draft, Decide, Copy, Validate, Promote,
       Embed, Kptools, Unpatch, Goto, Exit
  <1>2. CASE Inspect
    <2>1. /\ pc = "inspect" /\ wd.kernel = boot /\ wd.kernel # None /\ boot \in Image
          /\ job.from = boot /\ job.mode = "unpatch"
      BY <1>2, WholeBoot DEF IInv, FreshDir, RunState, Reading, Inspect
    <2>2. CASE boot.patched
      <3>1. pc' = "exited" => job' = [job EXCEPT !.missed = "flash"]
        BY <1>2, <2>1, <2>2 DEF Inspect, Misses, Goto
      <3>2. [job EXCEPT !.missed = "flash"].missed = "flash"
        BY DEF TypeInv, TypeOK, Job
      <3> QED
        BY <3>1, <3>2 DEF SuccessMeansFlashed
    <2>3. CASE ~boot.patched
      <3>1. UNCHANGED <<boot, job>> /\ (boot.patched <=> FALSE)
        BY <1>2, <2>1, <2>3 DEF Inspect
      <3>2. boot.patched = (job.mode = "patch")
        BY <2>1, <3>1 DEF Image
      <3> QED
        BY <2>1, <3>1, <3>2 DEF SuccessMeansFlashed
    <2> QED
      BY <2>2, <2>3
  <1>3. CASE Repack
    BY <1>3 DEF SuccessMeansFlashed, Repack, Goto, Exit
  <1>4. CASE Flash
    <2>1. wd.newBoot = Made /\ job.from = boot /\ boot # Torn
      BY <1>4 DEF IInv, Products, RunState, Ending, TypeInv, TypeOK, Job, Flash
    <2>2. Made \in Image
      BY <2>1 DEF Made, Image, TypeInv, TypeOK
    <2>3. wd.newBoot # None
      BY <2>1, <2>2, Constants
    <2> QED
      BY <1>4, <2>3 DEF SuccessMeansFlashed, Flash, Goto, Exit
  <1>5. CASE Written
    <2>1. CASE boot' = job.src /\ UNCHANGED job
      <3>1. boot' = Made /\ job.from # Torn
        BY <1>5, <2>1 DEF IInv, Products, Written
      <3>2. Made \in Image /\ Made.base = job.from.base /\ Made.patched = (job.mode = "patch")
        BY <3>1 DEF Made, Image, TypeInv, TypeOK, Job
      <3> QED
        BY <2>1, <3>1, <3>2 DEF SuccessMeansFlashed
    <2>2. CASE rc' = 1 \/ Misses("flash")
      BY <2>2 DEF SuccessMeansFlashed, Misses, TypeInv, TypeOK, Job
    <2> QED
      BY <1>5, <2>1, <2>2 DEF Written, Exit
  <1> QED
    BY <1>1, <1>2, <1>3, <1>4, <1>5 DEF Script

LEMMA SuccessNext ==
    ASSUME Careful, TypeInv, IInv, SuccessMeansFlashed, [Next]_vars
    PROVE  SuccessMeansFlashed'
  <1>1. CASE Start("unpatch", TRUE, FALSE) \/
             \E flash \in BOOLEAN, force \in RebackupFlags : Start("patch", flash, force)
    BY <1>1 DEF SuccessMeansFlashed, Start, Goto
  <1>2. CASE Environment
    BY <1>2 DEF SuccessMeansFlashed, Careful, Environment, Open, Close, Cleanup, Forget,
       ExternalFlash, Tick, Crash, PowerLoss, PowerOn
  <1>3. CASE UNCHANGED vars
    BY <1>3 DEF SuccessMeansFlashed, vars
  <1> QED
    BY <1>1, <1>2, <1>3, SuccessScript DEF Next

----------------------------------------------------------------------------
(* The theorems.                                                           *)

LEMMA Inductive == ASSUME Careful PROVE Spec => []IInv
  <1>1. Careful
    OBVIOUS
  <1>2. TypeInv /\ IInv /\ [Next]_vars => TypeInv' /\ IInv'
    BY <1>1, TypeNext, InvNext
  <1>3. Init => TypeInv /\ IInv
    BY TypeInit, InvInit
  <1> QED
    BY <1>2, <1>3, PTL DEF Spec

\* An unpatched image that a script overwrote stays on the partition or in a
\* backup, whatever crashes, failed copies and failed flashes follow, for callers
\* that force no backup and users who do not flash with another tool while the
\* patch page is open; and up to the two losses that OverwrittenIsRecoverable
\* names.
THEOREM Recoverable == ASSUME Careful PROVE Spec => []OverwrittenIsRecoverable
  <1>1. IInv => OverwrittenIsRecoverable
    BY DEF IInv
  <1> QED
    BY <1>1, Inductive, PTL

\* A manifest with backup_verified set describes a whole file beside it, for the
\* same callers and users, unless a write of the two was lost unseen.
THEOREM Verified == ASSUME Careful PROVE Spec => []VerifiedMeansWhole
  <1>1. IInv => VerifiedMeansWhole
    BY DEF IInv
  <1> QED
    BY <1>1, Inductive, PTL

\* A script that reports a flash with status 0 has left the release it found,
\* patched or unpatched as it was asked, for the same callers and users, unless
\* its `kptools -l` printed nothing or its cat failed half-way.
THEOREM Flashed == ASSUME Careful PROVE Spec => []SuccessMeansFlashed
  <1>1. Careful
    OBVIOUS
  <1>2. Init => SuccessMeansFlashed
    BY DEF Init, SuccessMeansFlashed
  <1>3. /\ TypeInv /\ IInv /\ SuccessMeansFlashed /\ [Next]_vars
        => TypeInv' /\ IInv' /\ SuccessMeansFlashed'
    BY <1>1, TypeNext, InvNext, SuccessNext
  <1>4. Init => TypeInv /\ IInv
    BY TypeInit, InvInit
  <1> QED
    BY <1>2, <1>3, <1>4, PTL DEF Spec
----------------------------------------------------------------------------
(* The scripts implement RecoverableFlash.                                 *)

LEMMA PromiseInit == Init => Promise!Init
  <1> SUFFICES ASSUME Init PROVE Promise!Init
    OBVIOUS
  <1>1. Kept = {} /\ Safe = {}
    BY StockImage DEF Init, NoFile, Kept, Safe
  <1> QED
    BY <1>1 DEF Init, Promise!Init, Promise!Image, Image

LEMMA CopiesKept == Kept \in SUBSET Bases /\ Safe \in SUBSET Kept
  BY DEF Kept, Safe

\* A backup file of the script's minute is replaced, while the image it is, or
\* was, a copy of is on the partition or by a script that has missed a failure.
LEMMA FileStep ==
    ASSUME TypeInv, IInv, pc \in {"copy", "validate"},
           NEW f \in {boot, None, Torn}, bak' = [bak EXCEPT ![job.stamp] = f],
           boot' = boot, owed' = IF job.missed = "backup" THEN None ELSE owed
    PROVE  Promise!Rearrange \/ Promise!Forfeit
  <1>1. \A m \in Minutes : m # job.stamp => bak'[m] = bak[m]
    BY DEF TypeInv, TypeOK
  <1>2. job.stamp \in Minutes /\ bak'[job.stamp] = f
    BY DEF TypeInv, TypeOK, Job
  <1>3. \A b \in Kept' \ Kept : boot = Stock(b)
    BY <1>1, <1>2, StockImage DEF Kept
  <1>4. Promise!Copies
    <2>1. Kept' \in SUBSET Bases /\ Safe' \in SUBSET Kept'
      BY CopiesKept DEF Kept, Safe
    <2> QED
      BY <1>3, <2>1 DEF Promise!Copies, Promise!Stock, Stock
  <1>5. CASE job.missed = "backup"
    BY <1>4, <1>5 DEF Promise!Forfeit
  <1>6. CASE job.missed # "backup"
    <2>1. owed # None => boot = Stock(owed)
      BY <1>6, OwedWhileBacking
    <2>2. owed \in Kept => owed # None
      BY Constants DEF Kept
    <2>3. owed \in Safe => owed \in Kept
      BY CopiesKept
    <2> QED
      BY <1>4, <1>6, <2>1, <2>2, <2>3 DEF Promise!Rearrange, Promise!Stock, Stock
  <1> QED
    BY <1>5, <1>6

LEMMA FlashStep ==
    ASSUME TypeInv, IInv, Flash, boot' # boot
    PROVE  Promise!BeginWrite \/ Promise!Forfeit
  <1>1. /\ boot \in Image /\ boot' = Torn /\ boot # Torn /\ UNCHANGED <<bak, bakDisk>>
        /\ owed' = IF boot.patched THEN owed
                   ELSE IF job.missed = "backup" THEN None ELSE boot.base
    BY WholeBoot, Constants DEF Flash
  <1>2. Kept' = Kept /\ Safe' = Safe
    BY <1>1 DEF Kept, Safe
  <1>3. CASE ~boot.patched /\ job.missed = "backup"
    BY <1>1, <1>2, <1>3 DEF Promise!Forfeit
  <1>4. CASE boot.patched \/ job.missed # "backup"
    <2>1. (\E b \in Bases : boot = Stock(b)) <=> ~boot.patched
      BY <1>1, StockImage, Constants DEF Stock
    <2>2. ASSUME NEW b \in Bases, boot = Stock(b) PROVE b \in Kept
      <3>1. bak[job.stamp] = boot /\ job.stamp \in Minutes
        BY <1>4, <2>1, <2>2, FlashBacked
      <3> QED
        BY <2>2, <3>1 DEF Kept
    <2> QED
      BY <1>1, <1>2, <1>4, <2>1, <2>2 DEF Promise!BeginWrite, Promise!Stock, Stock
  <1> QED
    BY <1>3, <1>4

LEMMA WrittenStep ==
    ASSUME TypeInv, IInv, Written
    PROVE  Promise!EndWrite \/ Promise!Rearrange
  <1>1. boot = Torn /\ UNCHANGED <<bak, owed>> /\ bakDisk' = bak
    BY DEF Written, Sync, IInv, WritingTorn
  <1>2. Kept' = Kept /\ Safe' = Kept
    BY <1>1 DEF Kept, Safe
  <1>3. CASE boot' = job.src
    <2>1. job.src = Made /\ job.from # Torn
      BY DEF Written, IInv, Products
    <2>2. Made \in Image
      BY <2>1, Constants DEF Made, Image, TypeInv, TypeOK, Job
    <2> QED
      BY <1>1, <1>2, <1>3, <2>1, <2>2 DEF Promise!EndWrite, Promise!Image, Image
  <1>4. CASE boot' = boot
    <2>1. Promise!Copies
      BY <1>2, CopiesKept DEF Promise!Copies
    <2>2. owed \notin Kept \ Kept' /\ owed \notin Safe \ Safe'
      BY <1>2, CopiesKept
    <2> QED
      BY <1>1, <1>4, <2>1, <2>2 DEF Promise!Rearrange
  <1> QED
    BY <1>3, <1>4 DEF Written

LEMMA OutageStep ==
    ASSUME TypeInv, IInv, Crash
    PROVE  Promise!Outage
  <1>1. bakDisk' = bak' /\ \A m \in Minutes : bak'[m] \in {bak[m], bakDisk[m]}
    BY LostFiles DEF Crash
  <1>2. Safe' = Kept' /\ Safe \subseteq Kept'
    BY <1>1 DEF Safe, Kept
  <1>3. owed' = IF pc = "writing" /\ owed \notin Kept' THEN None ELSE owed
    BY DEF Crash, PowerLoss
  <1>4. boot = Torn /\ owed \notin Kept' /\ pc # "writing" => owed = None
    <2> SUFFICES ASSUME boot = Torn, pc # "writing", owed # None PROVE owed \in Kept'
      OBVIOUS
    <2>1. owed \in Bases /\ boot # Stock(owed)
      BY StockImage DEF TypeInv, TypeOK
    <2>2. owed \in Safe
      BY <2>1 DEF IInv, Durable, Safe
    <2> QED
      BY <1>2, <2>2
  <1>5. pc = "writing" => boot = Torn
    BY DEF IInv, WritingTorn
  <1>6. boot' # boot => boot = Torn /\ boot' \in Image
    <2>1. pc = "writing" => Made \in Image /\ job.src = Made
      BY Constants DEF IInv, Products, Made, Image, TypeInv, TypeOK, Job
    <2> QED
      BY <1>5, <2>1, LostFiles DEF Crash
  <1>7. Kept' \in SUBSET Bases
    BY DEF Kept
  <1> QED
    BY <1>2, <1>3, <1>4, <1>5, <1>6, <1>7 DEF Promise!Outage, Promise!Image, Image

LEMMA PromiseStep == TypeInv /\ IInv /\ [Next]_vars => [Promise!Next]_(Promise!vars)
  <1> SUFFICES ASSUME TypeInv, IInv, [Next]_vars PROVE [Promise!Next]_(Promise!vars)
    OBVIOUS
  <1>1. CASE UNCHANGED <<boot, bak, bakDisk, owed>>
    BY <1>1 DEF Kept, Safe, Promise!vars
  <1>2. CASE Copy
    <2>1. CASE UNCHANGED <<bak, bakDisk, owed>>
      BY <1>1, <1>2, <2>1 DEF Copy
    <2>2. CASE /\ \E file \in {boot, Torn} : bak' = [bak EXCEPT ![job.stamp] = file]
               /\ owed' = IF job.missed = "backup" THEN None ELSE owed
      <3>1. PICK f \in {boot, Torn} : bak' = [bak EXCEPT ![job.stamp] = f]
        BY <2>2
      <3> QED
        BY <1>2, <2>2, <3>1, FileStep DEF Copy, Promise!Next
    <2> QED
      BY <1>2, <2>1, <2>2 DEF Copy
  <1>3. CASE Validate
    <2>1. CASE bak' = [bak EXCEPT ![job.stamp] = None]
               /\ owed' = IF job.missed = "backup" THEN None ELSE owed
      BY <1>3, <2>1, FileStep DEF Validate, Promise!Next
    <2> QED
      BY <1>1, <1>3, <2>1 DEF Validate
  <1>4. CASE Flash
    <2>1. CASE boot' # boot
      BY <1>4, <2>1, FlashStep DEF Promise!Next
    <2>2. CASE boot' = boot
      <3>1. boot # Torn
        BY <1>4, WholeBoot, Constants DEF Flash
      <3> QED
        BY <1>1, <1>4, <2>2, <3>1 DEF Flash
    <2> QED
      BY <2>1, <2>2
  <1>5. CASE Written
    BY <1>5, WrittenStep DEF Promise!Next
  <1>6. CASE ExternalFlash
    <2>1. Kept' = Kept /\ Safe' = Safe
      BY <1>6 DEF ExternalFlash, Kept, Safe
    <2> QED
      BY <1>6, <2>1 DEF ExternalFlash, Promise!Next, Promise!Replace, Promise!Image, Image
  <1>7. CASE Crash
    BY <1>7, OutageStep DEF Promise!Next
  <1>8. \/ UNCHANGED <<boot, bak, bakDisk, owed>>
        \/ Copy \/ Validate \/ Flash \/ Written \/ ExternalFlash \/ Crash
    BY DEF Next, vars, Start, Script, Environment, Unpack, Draft, Decide, Promote, Embed, Kptools, Inspect,
       Unpatch, Repack, Open, Close, Cleanup, Tick, PowerOn
  <1> QED
    BY <1>1, <1>2, <1>3, <1>4, <1>5, <1>6, <1>7, <1>8

\* Seen from the partition and the whole unpatched backups, all that the scripts,
\* crashes and the page do is what RecoverableFlash allows: an unpatched image is
\* overwritten only while a copy is kept, and that copy goes only when it is back,
\* or by a script that has missed a failure.  It assumes callers that force no
\* backup and users who do not flash while the patch page is open.
THEOREM Implements == ASSUME Careful PROVE Spec => ImplementsRecoverableFlash
  <1>1. Careful
    OBVIOUS
  <1>2. TypeInv /\ IInv /\ [Next]_vars => TypeInv' /\ IInv'
    BY <1>1, TypeNext, InvNext
  <1>3. Init => TypeInv /\ IInv
    BY TypeInit, InvInit
  <1> QED
    BY <1>2, <1>3, PromiseInit, PromiseStep, PTL DEF Spec, ImplementsRecoverableFlash, Promise!Spec
----------------------------------------------------------------------------
(* PatchSession: types.                                                    *)

UiTypes ==
    /\ page \in {"patch", "other"} /\ prep \in {"none", "prepare", "locate", "unpack"}
    /\ {button, shown, cleaning, upload} \subseteq BOOLEAN
SessionTypes == TypeInv /\ UiTypes

\* The directories that the WebUI makes.
LEMMA WebDirs ==
    ASSUME TypeInv
    PROVE  /\ [wd EXCEPT !.dir = TRUE] \in WorkDir
           /\ boot # Torn => Unpacked(wd) \in WorkDir
  BY DEF TypeInv, TypeOK, WorkDir, Unpacked

LEMMA SessionTypesStep == SessionTypes /\ [SessionNext]_sessionVars => SessionTypes'
  <1> SUFFICES ASSUME SessionTypes, [SessionNext]_sessionVars PROVE SessionTypes'
    OBVIOUS
  <1> USE DEF SessionTypes
  <1>1. CASE (\E flash \in BOOLEAN : Click("patch", flash)) \/ Click("unpatch", TRUE)
    <2>1. TypeInv'
      BY <1>1, TypeStart, TypeStutter DEF Click
    <2> QED
      BY <1>1, <2>1 DEF Click, UiTypes
  <1>2. CASE (Script \/ Tick \/ PowerOn) /\ UNCHANGED ui
    BY <1>2, TypeScript, TypeEnvironment DEF UiTypes, ui, Environment
  <1>3. CASE OtherFlash
    BY <1>3, TypeEnvironment DEF OtherFlash, UiTypes, ui, Environment
  <1>4. CASE Prepare \/ Extract \/ EmbedKPM \/ BeginUpload \/ EndUpload
    <2>1. wd' \in WorkDir
      BY <1>4, WebDirs, NoDirType, FreshDirType DEF Prepare, Extract, EmbedKPM, BeginUpload, EndUpload, TypeInv, TypeOK
    <2> QED
      <3>1. TypeInv'
        <4>1. UNCHANGED <<boot, files, session, pc, job, rc, clock, owed>>
          BY <1>4 DEF Prepare, Extract, EmbedKPM, BeginUpload, EndUpload
        <4> QED
          BY <2>1, <4>1 DEF files, TypeInv, TypeOK, LocalsOK
      <3>2. UiTypes'
        BY <1>4 DEF Prepare, Extract, EmbedKPM, BeginUpload, EndUpload, UiTypes, ui
      <3> QED
        BY <3>1, <3>2
  <1>5. CASE Navigate \/ Leave \/ UNCHANGED sessionVars
    BY <1>5, TypeStutter DEF Navigate, Leave, sessionVars, UiTypes, ui
  <1>6. CASE Locate \/ Exited \/ Reload
    <2>1. CASE Locate
      BY <2>1 DEF Locate, TypeInv, TypeOK, LocalsOK, UiTypes
    <2>2. CASE Exited
      BY <2>2 DEF Exited, TypeInv, TypeOK, LocalsOK, UiTypes
    <2>3. CASE Reload
      BY <2>3 DEF Reload, FreshPage, TypeInv, TypeOK, LocalsOK, UiTypes
    <2> QED
      BY <1>6, <2>1, <2>2, <2>3
  <1>7. CASE Remove
    <2>1. /\ UNCHANGED <<boot, bak, man, bakDisk, manDisk, doubt, session, clock, owed>>
          /\ wd' \in WorkDir
          /\ \/ pc' = "idle" /\ job' \in Job /\ rc' = 0
             \/ UNCHANGED <<pc, job, rc>>
      BY <1>7, NoDirType, NoJobType DEF Remove, Done, Forget
    <2>2. TypeInv'
      BY <2>1 DEF TypeInv, TypeOK, LocalsOK
    <2> QED
      BY <1>7, <2>2 DEF Remove, UiTypes
  <1>8. CASE PowerFails
    <2>1. PICK left \in {wd, NoDir} : PowerLoss(left)
      BY <1>8 DEF PowerFails
    <2>2. left \in WorkDir
      BY NoDirType DEF TypeInv, TypeOK
    <2> QED
      BY <1>8, <2>1, <2>2, TypePowerLoss DEF PowerFails, FreshPage, UiTypes
  <1> QED
    BY <1>1, <1>2, <1>3, <1>4, <1>5, <1>6, <1>7, <1>8 DEF SessionNext

LEMMA SessionTypesInvariant == SessionSpec => []SessionTypes
  <1>1. SessionInit => SessionTypes
    BY TypeInit DEF SessionInit, SessionTypes, UiTypes
  <1> QED
    BY <1>1, SessionTypesStep, PTL DEF SessionSpec

\* The page and what it shares with the scripts keep their types, whether the user
\* waits or not.
THEOREM SessionTypeCorrect == SessionSpec => []SessionTypeOK
  <1>1. SessionTypes => SessionTypeOK
    BY DEF SessionTypes, UiTypes, TypeInv, SessionTypeOK
  <1> QED
    BY <1>1, SessionTypesInvariant, PTL

----------------------------------------------------------------------------
(* PatchSession: every script starts in a fresh directory, and so its      *)
(* steps are those of BootScripts with their invariant.                    *)

\* With a patient user one thing at a time uses the directory.
Alone ==
    /\ pc # "idle" => prep = "none" /\ ~cleaning /\ ~upload
    /\ prep # "none" => ~cleaning /\ ~upload
    /\ ~(cleaning /\ upload)
\* Nothing is shown before it is extracted, and nothing is started before the
\* page is opened again.
Onscreen ==
    /\ page = "other" \/ prep # "none" => ~shown
    /\ pc # "idle" \/ cleaning => ~button
    /\ upload => page = "other"
    /\ prep # "none" => page = "patch"
    /\ session = "off" => page = "other" /\ pc = "idle" /\ prep = "none" /\ ~cleaning /\ ~upload
\* While the page has the device and no script has used the directory since it
\* was emptied, no product of a script is in it.
Emptied ==
    prep \in {"locate", "unpack"} \/ (session = "open" /\ pc = "idle" /\ ~cleaning) =>
        wd.ori = None /\ wd.newBoot = None
\* A kernel that is shown is that of the image on the partition.
KernelShown ==
    /\ shown /\ button => wd.kernel # None
    /\ shown /\ pc = "idle" /\ ~cleaning /\ wd.kernel # None =>
           wd.kernel = boot /\ wd.parts /\ wd.dir
\* What BootScripts' invariant says when no script runs.
AtRest ==
    /\ job.force = FALSE /\ Clocked /\ OwedHere /\ WritingTorn /\ Durable
    /\ OverwrittenIsRecoverable /\ VerifiedMeansWhole

SessionInv ==
    /\ Alone /\ Onscreen /\ Emptied /\ KernelShown /\ AtRest /\ ScriptFindsFreshDir
    /\ pc # "idle" => IInv

LEMMA AtRestOfIInv == IInv => AtRest
  BY DEF IInv, AtRest, RunState

\* The page may start a script where BootScripts' page may.
LEMMA StartInv ==
    ASSUME SessionTypes, SessionInv, shown, button, pc = "idle", session = "open", ~cleaning
    PROVE  IInv /\ wd.kernel = boot /\ wd.parts /\ wd.ori = None /\ wd.newBoot = None
  <1>1. wd.kernel = boot /\ wd.parts /\ wd.ori = None /\ wd.newBoot = None
    BY DEF SessionInv, KernelShown, Emptied
  <1>2. FreshDir /\ RunState /\ Products /\ Backup /\ WritingTorn
    BY <1>1 DEF FreshDir, RunState, Products, Backup, WritingTorn, Reading, Backing, Patching, Ending,
       SessionInv, AtRest
  <1> QED
    BY <1>1, <1>2 DEF SessionInv, AtRest, IInv

LEMMA ClickInv ==
    ASSUME Patient, SessionTypes, SessionInv, NEW mode \in {"patch", "unpatch"}, NEW flash \in BOOLEAN,
           Click(mode, flash)
    PROVE  SessionInv'
  <1>0. pc = "idle" /\ prep = "none" /\ ~cleaning /\ ~upload
    BY DEF Click, Waits, Quiet
  <1>1. CASE Start(mode, flash, FALSE) /\ shown
    <2>1. IInv /\ wd.kernel = boot /\ wd.parts /\ wd.ori = None /\ wd.newBoot = None
      BY <1>0, <1>1, StartInv DEF Click, Start
    <2>2. IInv'
      BY <1>1, <2>1, StepStart DEF SessionTypes
    <2>3. AtRest'
      BY <2>2, AtRestOfIInv DEF IInv, AtRest, RunState
    <2> QED
      BY <1>0, <1>1, <2>1, <2>2, <2>3 DEF Click, Start, Goto, SessionInv, Alone, Onscreen, Emptied, KernelShown,
         ScriptFindsFreshDir
  <1>2. CASE UNCHANGED vars
    BY <1>0, <1>2 DEF Click, vars, SessionInv, Alone, Onscreen, Emptied, KernelShown, ScriptFindsFreshDir,
       AtRest, Clocked, OwedHere, WritingTorn, Durable, OverwrittenIsRecoverable, VerifiedMeansWhole
  <1> QED
    BY <1>1, <1>2 DEF Click

\* A script's steps: the page waits.
LEMMA ScriptInv ==
    ASSUME SessionTypes, SessionInv, Script, UNCHANGED ui
    PROVE  SessionInv'
  <1>1. pc # "idle" /\ pc' # "idle" /\ pc' # "unpack"
    BY DEF Script, Unpack, Draft, Decide, Copy, Validate, Promote, Embed, Kptools, Inspect, Unpatch, Repack,
       Flash, Written, Goto, Exit
  <1>2. IInv'
    BY <1>1, InvScript DEF SessionTypes, SessionInv
  <1>3. session' = session
    BY DEF Script, Unpack, Draft, Decide, Copy, Validate, Promote, Embed, Kptools, Inspect, Unpatch, Repack,
       Flash, Written
  <1>4. AtRest'
    BY <1>2 DEF IInv, AtRest, RunState
  <1> QED
    BY <1>1, <1>2, <1>3, <1>4 DEF ui, SessionInv, Alone, Onscreen, Emptied, KernelShown, ScriptFindsFreshDir

LEMMA ExitInv ==
    ASSUME SessionTypes, SessionInv, Exited \/ Remove \/ PowerFails
    PROVE  SessionInv'
  <1>1. CASE Exited
    <2>1. pc' = "idle" /\ UNCHANGED <<boot, bak, man, bakDisk, manDisk, doubt, job, clock, owed>>
      BY <1>1 DEF Exited
    <2>2. AtRest'
      BY <1>1, <2>1 DEF Exited, SessionInv, AtRest, Clocked, OwedHere, WritingTorn, Durable, OverwrittenIsRecoverable,
         VerifiedMeansWhole
    <2> QED
      BY <1>1, <2>1, <2>2 DEF Exited, SessionInv, Alone, Onscreen, Emptied, KernelShown, ScriptFindsFreshDir
  <1>2. CASE Remove
    <2>1. /\ pc = "idle" /\ pc' = "idle" /\ job' = NoJob /\ wd' = NoDir /\ cleaning /\ ~cleaning'
          /\ UNCHANGED <<boot, bak, man, bakDisk, manDisk, doubt, clock, owed>>
      BY <1>2 DEF Remove, Done, Forget, SessionInv, Alone
    <2>2. Clocked'
      BY <2>1, NoJobType, ClockAssumption DEF SessionInv, AtRest, Clocked, SessionTypes, TypeInv, TypeOK, Minutes
    <2>3. AtRest'
      BY <2>1, <2>2, NoJobType DEF SessionInv, AtRest, OwedHere, WritingTorn, Durable, OverwrittenIsRecoverable,
         VerifiedMeansWhole
    <2> QED
      BY <1>2, <2>1, <2>3, NoDirType DEF Remove, SessionInv, Alone, Onscreen, Emptied, KernelShown,
         ScriptFindsFreshDir
  <1>3. CASE PowerFails
    <2>1. PICK left \in {wd, NoDir} : PowerLoss(left)
      BY <1>3 DEF PowerFails
    <2>2. pc' = "idle" /\ session' = "off" /\ job' = NoJob
      BY <2>1, LostFiles DEF SessionTypes
    <2>3. AtRest'
      <3>1. WritingTorn'
        BY <2>2 DEF WritingTorn
      <3> QED
        BY <2>1, <2>2, <3>1, PowerLossKeeps, NoJobType DEF SessionTypes, SessionInv, AtRest
    <2> QED
      BY <1>3, <2>2, <2>3 DEF PowerFails, FreshPage, SessionInv, Alone, Onscreen, Emptied, KernelShown,
         ScriptFindsFreshDir
  <1> QED
    BY <1>1, <1>2, <1>3

\* What the page does with the directory while no script runs.
LEMMA PageInv ==
    ASSUME Patient, SessionTypes, SessionInv,
           Navigate \/ Leave \/ Prepare \/ Locate \/ Extract \/ EmbedKPM \/ BeginUpload \/ EndUpload \/ Reload
    PROVE  SessionInv'
  <1>1. pc = "idle" /\ pc' = "idle" /\ UNCHANGED <<boot, bak, man, bakDisk, manDisk, doubt, job, clock, owed>>
    BY DEF Navigate, Leave, Prepare, Locate, Extract, EmbedKPM, BeginUpload, EndUpload, Reload, Waits, Quiet,
       vars, SessionInv, Alone
  <1>2. AtRest'
    BY <1>1 DEF SessionInv, AtRest, Clocked, OwedHere, WritingTorn, Durable, OverwrittenIsRecoverable, VerifiedMeansWhole
  <1>3. Alone' /\ Onscreen'
    <2> USE <1>1 DEF SessionInv, Alone, Onscreen
    <2>1. CASE Navigate \/ Leave
      BY <2>1 DEF Navigate, Leave, Waits, Quiet, vars
    <2>2. CASE Prepare
      BY <2>2 DEF Prepare
    <2>3. CASE Locate
      BY <2>3 DEF Locate
    <2>4. CASE Extract
      BY <2>4 DEF Extract
    <2>5. CASE EmbedKPM \/ Reload
      BY <2>5 DEF EmbedKPM, Reload, FreshPage, Waits, Quiet, ui
    <2>6. CASE BeginUpload \/ EndUpload
      BY <2>6 DEF BeginUpload, EndUpload, Waits, Quiet
    <2> QED
      BY <2>1, <2>2, <2>3, <2>4, <2>5, <2>6
  <1>4. Emptied' /\ KernelShown'
    <2>0. /\ NoDir.ori = None /\ NoDir.newBoot = None
          /\ Fresh.ori = None /\ Fresh.newBoot = None
      BY NoDirType, FreshDirType
    <2>1. CASE Navigate \/ Leave \/ Locate \/ Reload
      BY <1>1, <2>1 DEF Navigate, Leave, Locate, Reload, FreshPage, Waits, Quiet, vars, SessionInv, Emptied,
         KernelShown, Onscreen, Alone
    <2>2. CASE Prepare
      <3>1. ~shown' /\ UNCHANGED <<session, cleaning>> /\ prep # "none" /\ prep' # "unpack"
        BY <2>2 DEF Prepare, SessionInv, Onscreen
      <3>2. /\ prep' = "locate" => wd'.ori = None /\ wd'.newBoot = None
            /\ wd' = wd \/ (wd'.ori = None /\ wd'.newBoot = None)
        BY <2>0, <2>2 DEF Prepare
      <3> QED
        BY <1>1, <3>1, <3>2 DEF SessionInv, Emptied, KernelShown, Alone
    <2>3. CASE Extract
      <3>1. /\ wd.ori = None /\ wd.newBoot = None /\ ~shown /\ ~cleaning /\ page = "patch"
            /\ UNCHANGED <<session, cleaning, button>> /\ prep' = "none"
        BY <2>3 DEF Extract, SessionInv, Emptied, Onscreen, Alone
      <3>2. CASE wd.dir /\ boot # Torn /\ wd' = Unpacked(wd)
        <4>1. /\ wd'.kernel = boot /\ wd'.parts /\ wd'.dir /\ wd'.ori = None /\ wd'.newBoot = None
          BY <3>1, <3>2 DEF Unpacked, SessionTypes, TypeInv, TypeOK, WorkDir
        <4>2. boot # None
          BY <3>2, Constants DEF SessionTypes, TypeInv, TypeOK
        <4> QED
          BY <1>1, <3>1, <4>1, <4>2 DEF Emptied, KernelShown
      <3>3. CASE UNCHANGED <<wd, shown>>
        BY <1>1, <3>1, <3>3 DEF Emptied, KernelShown
      <3> QED
        BY <2>3, <3>2, <3>3 DEF Extract
    <2>5. CASE BeginUpload \/ EndUpload
      <3>1. ~shown' /\ UNCHANGED <<session, cleaning, prep>>
        BY <2>5 DEF BeginUpload, EndUpload, SessionInv, Onscreen
      <3>2. wd' = wd \/ (wd'.ori = None /\ wd'.newBoot = None)
        BY <2>0, <2>5 DEF BeginUpload, EndUpload
      <3> QED
        BY <1>1, <3>1, <3>2 DEF SessionInv, Emptied, KernelShown
    <2>4. CASE EmbedKPM
      BY <1>1, <2>4 DEF EmbedKPM, Waits, Quiet, ui, SessionTypes, TypeInv, TypeOK, WorkDir, SessionInv,
         Emptied, KernelShown, Onscreen, Alone
    <2> QED
      BY <2>1, <2>2, <2>3, <2>4, <2>5
  <1> QED
    BY <1>1, <1>2, <1>3, <1>4 DEF SessionInv, ScriptFindsFreshDir

LEMMA OtherFlashInv ==
    ASSUME Patient, SessionTypes, SessionInv, OtherFlash
    PROVE  SessionInv'
  <1>1. /\ pc = "idle" /\ pc' = "idle" /\ ~shown /\ owed' = None
        /\ UNCHANGED <<bak, man, bakDisk, manDisk, doubt, wd, session, job, clock, ui>>
    BY DEF OtherFlash, Quiet, ExternalFlash
  <1>2. AtRest'
    BY <1>1 DEF SessionInv, AtRest, Clocked, OwedHere, WritingTorn, Durable, OverwrittenIsRecoverable, VerifiedMeansWhole
  <1> QED
    BY <1>1, <1>2 DEF ui, SessionInv, Alone, Onscreen, Emptied, KernelShown, ScriptFindsFreshDir

LEMMA ClockInv ==
    ASSUME SessionTypes, SessionInv, Tick \/ PowerOn \/ UNCHANGED vars, UNCHANGED ui
    PROVE  SessionInv'
  <1>0. /\ UNCHANGED <<boot, bak, man, bakDisk, manDisk, doubt, pc, job, owed>>
        /\ clock' = clock \/ clock' = clock + 1
    BY DEF Tick, PowerOn, vars
  <1>1. AtRest'
    <2>1. Clocked'
      BY <1>0, Constants DEF SessionInv, AtRest, Clocked, SessionTypes, TypeInv, TypeOK, Minutes, Job
    <2> QED
      BY <1>0, <2>1 DEF SessionInv, AtRest, OwedHere, WritingTorn, Durable, OverwrittenIsRecoverable, VerifiedMeansWhole
  <1>2. pc' # "idle" => IInv'
    BY StepTick, InvStutter DEF SessionTypes, SessionInv, Tick, PowerOn, Onscreen, vars
  <1> QED
    BY <1>1, <1>2 DEF Tick, PowerOn, vars, ui, SessionInv, Alone, Onscreen, Emptied, KernelShown,
       ScriptFindsFreshDir

LEMMA SessionStep ==
    ASSUME Patient, SessionTypes, SessionInv, [SessionNext]_sessionVars
    PROVE  SessionInv'
  BY ClickInv, ScriptInv, ExitInv, PageInv, OtherFlashInv, ClockInv DEF SessionNext, sessionVars

LEMMA SessionInductive == ASSUME Patient PROVE SessionSpec => [](SessionTypes /\ SessionInv)
  <1>1. Patient
    OBVIOUS
  <1>2. SessionInit => SessionTypes /\ SessionInv
    <2>1. SessionInit => SessionTypes
      BY TypeInit DEF SessionInit, SessionTypes, UiTypes
    <2>2. SessionInit => IInv
      BY InvInit DEF SessionInit
    <2> QED
      BY <2>1, <2>2, AtRestOfIInv DEF SessionInit, Init, SessionInv, Alone, Onscreen, Emptied, KernelShown,
         ScriptFindsFreshDir
  <1>3. SessionTypes /\ SessionInv /\ [SessionNext]_sessionVars => SessionTypes' /\ SessionInv'
    BY <1>1, SessionTypesStep, SessionStep
  <1> QED
    BY <1>2, <1>3, PTL DEF SessionSpec

\* A patient user's script finds the kernel of the image that is on the partition
\* and nothing of an earlier run, whatever came before it.
THEOREM StartsFresh == ASSUME Patient PROVE SessionSpec => []ScriptFindsFreshDir
  <1>1. SessionTypes /\ SessionInv => ScriptFindsFreshDir
    BY DEF SessionInv
  <1> QED
    BY <1>1, SessionInductive, PTL

\* A patient user who is told of success has the right image on the partition,
\* even if other tools flash between his visits, unless the script's `kptools -l`
\* printed nothing or its cat failed half-way.
THEOREM SessionFlashed == ASSUME Patient PROVE SessionSpec => []SuccessMeansFlashed
  <1>1. Patient
    OBVIOUS
  <1>2. SessionInit => SuccessMeansFlashed
    BY DEF SessionInit, Init, SuccessMeansFlashed
  <1>3. /\ SessionTypes /\ SessionInv /\ SuccessMeansFlashed /\ [SessionNext]_sessionVars
        => SuccessMeansFlashed'
    <2> SUFFICES ASSUME SessionTypes, SessionInv, SuccessMeansFlashed, [SessionNext]_sessionVars
                 PROVE  SuccessMeansFlashed'
      OBVIOUS
    <2>1. CASE Script
      <3>1. IInv
        BY <2>1 DEF SessionInv, Script, Unpack, Draft, Decide, Copy, Validate, Promote, Embed, Kptools, Inspect,
           Unpatch, Repack, Flash, Written
      <3> QED
        BY <1>1, <2>1, <3>1, SuccessScript DEF SessionTypes
    <2>2. CASE OtherFlash
      BY <1>1, <2>2 DEF OtherFlash, Quiet, ExternalFlash, SuccessMeansFlashed
    <2>3. CASE (\E flash \in BOOLEAN : Click("patch", flash)) \/ Click("unpatch", TRUE)
      BY <2>3 DEF Click, Start, Goto, vars, SuccessMeansFlashed
    <2>4. pc' = "idle" \/ UNCHANGED <<boot, pc, job, rc>> \/ Script \/ OtherFlash
          \/ (\E flash \in BOOLEAN : Click("patch", flash)) \/ Click("unpatch", TRUE)
      BY DEF SessionNext, sessionVars, vars, Navigate, Leave, Prepare, Locate, Extract, EmbedKPM, Exited, Remove,
         Done, Forget, BeginUpload, EndUpload, Reload, PowerFails, PowerLoss, Tick, PowerOn
    <2> QED
      BY <2>1, <2>2, <2>3, <2>4 DEF SuccessMeansFlashed
  <1> QED
    BY <1>1, <1>2, <1>3, SessionInductive, PTL DEF SessionSpec

----------------------------------------------------------------------------
(* PatchSession implements BootScripts.                                    *)

\* What does not depend on the page is the same in both.
LEMMA SameDir ==
    /\ Scripts!NoDir = NoDir /\ Scripts!NoJob = NoJob /\ Scripts!NoFile = NoFile
    /\ Scripts!Image = Image /\ Scripts!Minutes = Minutes /\ Scripts!Manifest = Manifest
    /\ Scripts!Latest = Latest /\ Scripts!Kept = Kept /\ (Scripts!Kept)' = Kept'
  <1>1. /\ Scripts!NoDir = NoDir /\ Scripts!NoJob = NoJob
        /\ Scripts!Image = Image /\ Scripts!Minutes = Minutes
    BY DEF Scripts!NoDir, NoDir, Scripts!NoJob, NoJob, Scripts!Image, Image, Scripts!Minutes, Minutes
  <1>2. Scripts!NoFile = NoFile /\ Scripts!Manifest = Manifest
    BY <1>1 DEF Scripts!NoFile, NoFile, Scripts!Manifest, Manifest, Scripts!KpStates, KpStates
  <1>3. Scripts!Latest = Latest
    BY <1>1 DEF Scripts!Latest, Latest
  <1>4. Scripts!Kept = Kept /\ (Scripts!Kept)' = Kept'
    BY <1>1 DEF Scripts!Kept, Kept, Scripts!Stock, Stock
  <1> QED
    BY <1>1, <1>2, <1>3, <1>4

USE DEF Scripts!files

\* While a script runs, BootScripts' variables are the session's own.
LEMMA MapScript ==
    ASSUME SessionTypes, SessionInv, Page = "open", Page' = "open", ~cleaning, ~cleaning', Script
    PROVE  Scripts!Script
  <1>1. CASE Unpack
    BY <1>1 DEF Unpack, Scripts!Unpack, Unpacked, Scripts!Unpacked, Goto, Scripts!Goto, Exit, Scripts!Exit, Scripts!Script
  <1>2. CASE Draft
    <2>1. Scripts!Drafts = Drafts
      BY DEF Drafts, Scripts!Drafts, KpStates, Scripts!KpStates
    <2> QED
      BY <1>2, <2>1 DEF Draft, Scripts!Draft, Goto, Scripts!Goto, Scripts!Script
  <1>3. CASE Decide
    <2>1. Scripts!ShouldBackup <=> ShouldBackup
      BY SameDir DEF Scripts!ShouldBackup, ShouldBackup, ModifiedSinceBackup, Scripts!ModifiedSinceBackup
    <2> QED
      BY <1>3, <2>1 DEF Decide, Scripts!Decide, Misses, Scripts!Misses, Goto, Scripts!Goto, Exit, Scripts!Exit,
         Scripts!Script
  <1>4. CASE Copy
    BY <1>4 DEF Copy, Scripts!Copy, Misses, Scripts!Misses, Goto, Scripts!Goto, Scripts!Script
  <1>5. CASE Validate
    BY <1>5, SameDir DEF Validate, Scripts!Validate, Goto, Scripts!Goto, Exit, Scripts!Exit, Scripts!Script
  <1>6. CASE Promote
    BY <1>6, SameDir DEF Promote, Scripts!Promote, Goto, Scripts!Goto, Scripts!Script
  <1>7. CASE Embed \/ Kptools
    BY <1>7 DEF Embed, Kptools, Scripts!Embed, Scripts!Kptools, Goto, Scripts!Goto, Exit, Scripts!Exit, Scripts!Script
  <1>8. CASE Inspect \/ Unpatch
    BY <1>8 DEF Inspect, Unpatch, Scripts!Inspect, Scripts!Unpatch, Misses, Scripts!Misses, Goto, Scripts!Goto,
       Exit, Scripts!Exit, Scripts!Script
  <1>9. CASE Repack
    BY <1>9 DEF Repack, Scripts!Repack, Goto, Scripts!Goto, Exit, Scripts!Exit, Scripts!Script
  <1>10. CASE Flash \/ Written
    BY <1>10 DEF Flash, Written, Scripts!Flash, Scripts!Written, Sync, Scripts!Sync, Misses, Scripts!Misses,
       Goto, Scripts!Goto, Exit, Scripts!Exit, Scripts!Script
  <1> QED
    BY <1>1, <1>2, <1>3, <1>4, <1>5, <1>6, <1>7, <1>8, <1>9, <1>10 DEF Script

LEMMA ScriptStep ==
    ASSUME SessionTypes, SessionInv, Script, UNCHANGED ui
    PROVE  Scripts!Next
  <1>1. pc # "idle" /\ pc' # "idle" /\ session' = session
    BY DEF Script, Unpack, Draft, Decide, Copy, Validate, Promote, Embed, Kptools, Inspect, Unpatch, Repack,
       Flash, Written, Goto, Exit
  <1>2. session # "off" /\ ~cleaning /\ ~cleaning'
    BY <1>1 DEF SessionInv, Alone, Onscreen, ui
  <1>3. Page = "open" /\ Page' = "open"
    BY <1>1, <1>2 DEF Page, Busy
  <1> QED
    BY <1>2, <1>3, MapScript DEF Scripts!Next

LEMMA ClickStep ==
    ASSUME Patient, FALSE \in RebackupFlags, SessionTypes, SessionInv,
           NEW mode \in {"patch", "unpatch"}, NEW flash \in BOOLEAN, mode = "unpatch" => flash, Click(mode, flash)
    PROVE  Scripts!Next \/ UNCHANGED Scripts!vars
  <1>0. pc = "idle" /\ ~cleaning /\ cleaning' = cleaning /\ shown' = shown
    BY DEF Click, Waits, Quiet
  <1>1. CASE Start(mode, flash, FALSE) /\ shown
    <2>1. Page = "open" /\ Page' = "open"
      BY <1>0, <1>1 DEF Click, Start, Goto, Page, Busy, Ready, SessionInv, KernelShown
    <2>2. Scripts!Start(mode, flash, FALSE)
      BY <1>0, <1>1, <2>1 DEF Start, Scripts!Start, Goto, Scripts!Goto
    <2> QED
      BY <2>2 DEF Scripts!Next
  <1>2. CASE UNCHANGED vars
    BY <1>0, <1>2 DEF vars, Scripts!vars, Page, Busy, Ready
  <1> QED
    BY <1>1, <1>2 DEF Click

\* The exit handler is a part of the script's exit, and the cleanup its end.
LEMMA ExitStep ==
    ASSUME SessionTypes, SessionInv, Exited \/ Remove \/ PowerFails
    PROVE  Scripts!Next \/ UNCHANGED Scripts!vars
  <1>1. CASE Exited
    <2>1. session # "off" /\ ~cleaning /\ cleaning' /\ session' # "off"
      BY <1>1 DEF Exited, SessionInv, Alone, Onscreen
    <2>2. Page = "open" /\ Page' = "open"
      BY <1>1, <2>1 DEF Exited, Page, Busy
    <2> QED
      BY <1>1, <2>1, <2>2 DEF Exited, Scripts!vars
  <1>2. CASE Remove
    <2>1. pc = "idle" /\ cleaning /\ ~cleaning' /\ pc' = "idle" /\ session # "off" /\ session' = session
      BY <1>2 DEF Remove, Done, Forget, SessionInv, Alone, Onscreen
    <2>2. wd' = NoDir /\ NoDir.kernel = None
      BY <1>2, NoDirType DEF Remove
    <2>3. Page = "open" /\ Page' = "closed"
      BY <2>1, <2>2 DEF Page, Busy, Ready
    <2>4. Scripts!Cleanup
      BY <1>2, <2>1, <2>2, <2>3, SameDir DEF Remove, Done, Forget, Scripts!Cleanup, Scripts!Forget
    <2> QED
      BY <2>4 DEF Scripts!Next, Scripts!Environment
  <1>3. CASE PowerFails
    <2>0. PICK left \in {wd, NoDir} : PowerLoss(left)
      BY <1>3 DEF PowerFails
    <2>1. Page # "off" /\ Page' = "off" /\ ~cleaning' /\ pc' = "idle"
      BY <1>3, <2>0, LostFiles DEF PowerFails, Page, SessionTypes, Busy, Ready
    <2>2. cleaning => pc # "writing"
      BY DEF SessionInv, Alone
    <2>3. Scripts!Crash
      BY <2>0, <2>1, <2>2, SameDir DEF PowerLoss, Scripts!PowerLoss, Scripts!Crash, Forget, Scripts!Forget
    <2> QED
      BY <2>3 DEF Scripts!Next, Scripts!Environment
  <1> QED
    BY <1>1, <1>2, <1>3

\* An image is unpacked into an emptied directory as into a fresh one.
LEMMA SameUnpack ==
    ASSUME wd \in WorkDir, wd.dir, wd.ori = None, wd.newBoot = None, boot \in Image
    PROVE  Unpacked(wd) = Unpacked(Fresh)
  <1>1. ASSUME NEW d \in WorkDir, d.dir, d.ori = None, d.newBoot = None
        PROVE  Unpacked(d) = [dir |-> TRUE, kernel |-> boot, ori |-> None, parts |-> TRUE, newBoot |-> None]
    <2>1. PICK e \in WorkDir : e = [d EXCEPT !.kernel = boot, !.parts = TRUE]
      BY <1>1 DEF WorkDir
    <2>2. e.dir /\ e.kernel = boot /\ e.ori = None /\ e.parts /\ e.newBoot = None
      BY <1>1, <2>1 DEF WorkDir
    <2>3. e = [dir |-> TRUE, kernel |-> boot, ori |-> None, parts |-> TRUE, newBoot |-> None]
      BY <2>1, <2>2 DEF WorkDir
    <2> QED
      BY <2>1, <2>3 DEF Unpacked
  <1> QED
    BY <1>1, FreshDirType

\* The page opens when a kernel is shown and closes when it is hidden; what is done
\* to the directory in between does not show.
LEMMA PageStep ==
    ASSUME Patient, SessionTypes, SessionInv,
           Navigate \/ Leave \/ Prepare \/ Locate \/ Extract \/ EmbedKPM \/ BeginUpload \/ EndUpload \/ Reload
    PROVE  Scripts!Next \/ UNCHANGED Scripts!vars
  <1>1. /\ pc = "idle" /\ pc' = "idle" /\ ~cleaning /\ ~cleaning'
        /\ UNCHANGED <<boot, bak, man, bakDisk, manDisk, doubt, job, rc, clock, owed>>
    <2>1. pc = "idle" /\ ~cleaning
      BY DEF Navigate, Leave, Prepare, Locate, Extract, EmbedKPM, BeginUpload, EndUpload, Reload, Waits, Quiet,
         SessionInv, Alone
    <2>2. UNCHANGED <<boot, bak, man, bakDisk, manDisk, doubt, pc, job, rc, clock, owed>>
      BY DEF Navigate, Leave, Prepare, Locate, Extract, EmbedKPM, BeginUpload, EndUpload, Reload, vars
    <2>3. cleaning' = cleaning
      BY DEF Navigate, Leave, Prepare, Locate, Extract, EmbedKPM, BeginUpload, EndUpload, Reload, ui
    <2> QED
      BY <2>1, <2>2, <2>3
  <1>2. CASE Page' = Page /\ Page # "open"
    BY <1>1, <1>2 DEF Scripts!vars
  <1>3. CASE Page' = Page /\ wd' = wd
    BY <1>1, <1>3 DEF Scripts!vars
  <1>4. CASE Page = "open" /\ Page' = "closed"
    <2>1. Scripts!Close
      BY <1>1, <1>4, SameDir DEF Scripts!Close
    <2> QED
      BY <2>1 DEF Scripts!Next, Scripts!Environment
  <1>5. CASE Navigate
    BY <1>1, <1>3, <1>5 DEF Navigate, vars, Page, Busy, Ready
  <1>6. CASE Leave \/ Reload
    <2>1. Page' = Page \/ (Page = "open" /\ Page' = "closed")
      BY <1>1, <1>6 DEF Leave, Reload, FreshPage, vars, Page, Busy, Ready
    <2>2. wd' = wd
      BY <1>6 DEF Leave, Reload, vars
    <2> QED
      BY <1>3, <1>4, <2>1, <2>2
  <1>7. CASE Prepare \/ Locate \/ BeginUpload \/ EndUpload
    <2>1. ~shown /\ ~shown' /\ (session = "off" <=> session' = "off")
      BY <1>7 DEF Prepare, Locate, BeginUpload, EndUpload, SessionInv, Onscreen
    <2> QED
      BY <1>1, <1>2, <2>1 DEF Page, Busy, Ready
  <1>8. CASE Extract
    <2>1. ~shown /\ session # "off" /\ session' = session /\ wd.ori = None /\ wd.newBoot = None
      BY <1>8 DEF Extract, SessionInv, Onscreen, Emptied
    <2>2. Page = "closed"
      BY <1>1, <2>1 DEF Page, Busy, Ready
    <2>3. CASE ~shown'
      BY <1>1, <1>2, <2>1, <2>2, <2>3 DEF Page, Busy, Ready
    <2>4. CASE shown'
      <3>1. wd.dir /\ boot # Torn /\ wd' = Unpacked(wd)
        BY <1>8, <2>1, <2>4 DEF Extract
      <3>2. /\ wd \in WorkDir /\ wd.dir /\ wd.ori = None /\ wd.newBoot = None
            /\ boot \in Image
        BY <2>1, <3>1 DEF SessionTypes, TypeInv, TypeOK
      <3>3. wd' = Scripts!Unpacked(Scripts!Fresh)
        <4>1. Scripts!Fresh = Fresh
          BY SameDir DEF Scripts!Fresh, Fresh
        <4>2. Unpacked(wd) = Unpacked(Fresh)
          BY <3>2, SameUnpack
        <4> QED
          BY <3>1, <4>1, <4>2 DEF Scripts!Unpacked, Unpacked
      <3>4. Page' = "open"
        <4>1. wd'.kernel # None
          BY <3>1, <3>2, Constants DEF Unpacked, WorkDir
        <4> QED
          BY <1>1, <2>1, <2>4, <4>1 DEF Page, Busy, Ready
      <3>5. Scripts!Open
        BY <1>1, <2>2, <3>1, <3>3, <3>4 DEF Scripts!Open
      <3> QED
        BY <3>5 DEF Scripts!Next, Scripts!Environment
    <2> QED
      BY <2>3, <2>4
  <1>9. CASE EmbedKPM
    <2>1. wd' = [wd EXCEPT !.dir = TRUE] /\ wd'.kernel = wd.kernel /\ UNCHANGED <<shown, session>>
      BY <1>9 DEF EmbedKPM, ui, SessionTypes, TypeInv, TypeOK, WorkDir
    <2>2. Page' = Page
      BY <1>1, <2>1 DEF Page, Busy, Ready
    <2>3. Page = "open" => wd' = wd
      <3>1. Page = "open" => wd.dir
        BY <1>1 DEF Page, Busy, Ready, SessionInv, KernelShown
      <3> QED
        BY <2>1, <3>1 DEF SessionTypes, TypeInv, TypeOK, WorkDir
    <2> QED
      BY <1>2, <1>3, <2>2, <2>3
  <1> QED
    BY <1>5, <1>6, <1>7, <1>8, <1>9

LEMMA DeviceStep ==
    ASSUME Patient, SessionTypes, SessionInv, OtherFlash \/ ((Tick \/ PowerOn \/ UNCHANGED vars) /\ UNCHANGED ui)
    PROVE  Scripts!Next \/ UNCHANGED Scripts!vars
  <1>1. CASE OtherFlash
    <2>1. pc = "idle" /\ pc' = "idle" /\ ~cleaning /\ ~cleaning' /\ Page' = Page /\ Page # "open"
      BY <1>1 DEF OtherFlash, Quiet, ExternalFlash, ui, Page, Busy, Ready
    <2>2. Scripts!ExternalFlash
      BY <1>1, <2>1 DEF OtherFlash, ExternalFlash, Scripts!ExternalFlash, Image, Scripts!Image
    <2> QED
      BY <2>2 DEF Scripts!Next, Scripts!Environment
  <1>2. CASE Tick /\ UNCHANGED ui
    <2>1. Page' = Page
      BY <1>2 DEF Tick, ui, Page, Busy, Ready
    <2>2. Scripts!Tick
      BY <1>2, <2>1 DEF Tick, Scripts!Tick, ui
    <2> QED
      BY <2>2 DEF Scripts!Next, Scripts!Environment
  <1>3. CASE PowerOn /\ UNCHANGED ui
    <2>1. Page = "off" /\ Page' = "closed" /\ pc = "idle" /\ ~cleaning /\ ~cleaning'
      BY <1>3 DEF PowerOn, ui, Page, Busy, Ready, SessionInv, Onscreen
    <2>2. Scripts!PowerOn
      BY <1>3, <2>1 DEF PowerOn, Scripts!PowerOn
    <2> QED
      BY <2>2 DEF Scripts!Next, Scripts!Environment
  <1>4. CASE UNCHANGED vars /\ UNCHANGED ui
    BY <1>4 DEF vars, ui, Scripts!vars, Page, Busy, Ready
  <1> QED
    BY <1>1, <1>2, <1>3, <1>4

\* What a patient user does on the pages, with the scripts, crashes and other tools,
\* is what BootScripts allows, whose other theorems are about one script at a time
\* in a fresh directory.
THEOREM SessionImplements ==
    ASSUME Patient, FALSE \in RebackupFlags PROVE SessionSpec => ImplementsBootScripts
  <1>1. Patient /\ FALSE \in RebackupFlags
    OBVIOUS
  <1>2. SessionInit => Scripts!Init
    BY SameDir DEF SessionInit, Init, Scripts!Init, Page, Busy, Ready
  <1>3. SessionTypes /\ SessionInv /\ [SessionNext]_sessionVars => [Scripts!Next]_(Scripts!vars)
    BY <1>1, ScriptStep, ClickStep, ExitStep, PageStep, DeviceStep DEF SessionNext, sessionVars
  <1> QED
    BY <1>2, <1>3, SessionInductive, PTL DEF SessionSpec, ImplementsBootScripts, Scripts!Spec
===========================================================================
