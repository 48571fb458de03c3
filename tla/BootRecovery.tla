---------------------------- MODULE BootRecovery ----------------------------
(***************************************************************************)
(* The bootloop counter: post-fs-data.sh counts a boot before the system   *)
(* is up and signals auto-unpatch at the third; service.sh resets the      *)
(* counter when `kpatch hello` answers, then loads the KPMs.               *)
(*                                                                         *)
(* Every write is a step of its own and the power may fail between any     *)
(* two: `echo n > file` truncates the file first, and `rm -f a b` removes  *)
(* one file after the other.  An absent or empty counter reads as 0.       *)
(***************************************************************************)
EXTENDS Naturals

CONSTANT Threshold  \* the count at which a boot is signalled, 3 in the code

ASSUME ThresholdAssumption == Threshold \in Nat \ {0}

VARIABLES
    stage,    \* the next step of the boot; "up": service.sh has ended
    count,    \* boot_count
    current,  \* post-fs-data.sh's current_count
    signal,   \* which of autorecovery_active and auto_unpatch_requested exist
    begun,    \* ghost: boots begun since the counter was reset, up to Threshold
    outcome   \* ghost: "failed" when one of them ended before service.sh did

recovery_vars == <<stage, count, current, signal, begun, outcome>>

\* autorecovery_active and auto_unpatch_requested.
Files == {"marker", "request"}

\* The steps of post-fs-data.sh.
Early == {"prepare", "read", "truncate", "write", "mark", "request", "unmark",
          "unrequest"}

RecoveryInit ==
    /\ stage = "off"
    /\ count = 0
    /\ current = 0
    /\ signal = {}
    /\ begun = 0
    /\ outcome = "clean"

Goto(from, to) == stage = from /\ stage' = to

PowerOn ==
    /\ Goto("off", "prepare")
    /\ begun' = IF begun < Threshold THEN begun + 1 ELSE begun
    /\ UNCHANGED <<count, current, signal, outcome>>

\* The boot dies, or the user reboots a device that is up.
Halt ==
    /\ stage # "off"
    /\ stage' = "off"
    /\ outcome' = IF stage = "up" THEN outcome ELSE "failed"
    /\ UNCHANGED <<count, current, signal, begun>>

----------------------------------------------------------------------------
(* post-fs-data.sh.                                                        *)

\* mkdir -p, cp status.sh, chmod.
Prepare ==
    /\ Goto("prepare", "read")
    /\ UNCHANGED <<count, current, signal, begun, outcome>>

\* Mutant: the threshold is compared after the increment only, so that the
\* counter keeps growing.
Read_NoCap ==
    /\ Goto("read", "truncate")
    /\ current' = count + 1
    /\ UNCHANGED <<count, signal, begun, outcome>>

\* Mutant: the files are touched on the transition only.
Read_MarksOnce ==
    /\ stage = "read"
    /\ IF count >= Threshold
       THEN stage' = "unmark" /\ current' = count
       ELSE stage' = "truncate" /\ current' = count + 1
    /\ UNCHANGED <<count, signal, begun, outcome>>

Read ==
    /\ stage = "read"
    /\ IF count >= Threshold
       THEN stage' = "mark" /\ current' = count
       ELSE stage' = "truncate" /\ current' = count + 1
    /\ UNCHANGED <<count, signal, begun, outcome>>

Truncate ==
    /\ Goto("truncate", "write")
    /\ count' = 0
    /\ UNCHANGED <<current, signal, begun, outcome>>

Write ==
    /\ stage = "write"
    /\ count' = current
    /\ stage' = IF current >= Threshold THEN "mark" ELSE "unmark"
    /\ UNCHANGED <<current, signal, begun, outcome>>

Mark ==
    /\ Goto("mark", "request")
    /\ signal' = signal \cup {"marker"}
    /\ UNCHANGED <<count, current, begun, outcome>>

Request ==
    /\ Goto("request", "late")
    /\ signal' = signal \cup {"request"}
    /\ UNCHANGED <<count, current, begun, outcome>>

Unmark ==
    /\ Goto("unmark", "unrequest")
    /\ signal' = signal \ {"marker"}
    /\ UNCHANGED <<count, current, begun, outcome>>

\* Mutant: only autorecovery_active is removed.
Unrequest_Forgotten ==
    /\ Goto("unrequest", "late")
    /\ UNCHANGED <<count, current, signal, begun, outcome>>

Unrequest ==
    /\ Goto("unrequest", "late")
    /\ signal' = signal \ {"request"}
    /\ UNCHANGED <<count, current, begun, outcome>>

\* set -eu: a failing command ends the script, and the boot goes on without it.
Abort ==
    /\ stage \in Early
    /\ stage' = "aborted"
    /\ UNCHANGED <<count, current, signal, begun, outcome>>

----------------------------------------------------------------------------
(* service.sh.                                                             *)

\* kpatch answers hello after at most five retries, or service.sh leaves
\* "unresolved" behind and exits.
Hello ==
    /\ stage \in {"late", "aborted"}
    /\ stage' \in {"reset", "up"}
    /\ UNCHANGED <<count, current, signal, begun, outcome>>

\* Mutant: the counter survives a healthy boot.
Reset_Skipped ==
    /\ Goto("reset", "clear")
    /\ begun' = 0
    /\ outcome' = "clean"
    /\ UNCHANGED <<count, current, signal>>

Reset ==
    /\ Goto("reset", "clear")
    /\ count' = 0
    /\ begun' = 0
    /\ outcome' = "clean"
    /\ UNCHANGED <<current, signal>>

Clear ==
    /\ Goto("clear", "unsignal")
    /\ signal' = signal \ {"marker"}
    /\ UNCHANGED <<count, current, begun, outcome>>

ClearRequest ==
    /\ Goto("unsignal", "load")
    /\ signal' = signal \ {"request"}
    /\ UNCHANGED <<count, current, begun, outcome>>

\* The KPMs, rehook, events and exclusions; a KPM may bring the kernel down.
LoadKpms ==
    /\ Goto("load", "up")
    /\ UNCHANGED <<count, current, signal, begun, outcome>>

Scripts ==
    \/ Prepare \/ Read \/ Truncate \/ Write \/ Mark \/ Request \/ Unmark
    \/ Unrequest \/ Abort \/ Hello \/ Reset \/ Clear \/ ClearRequest \/ LoadKpms

RecoveryNext == PowerOn \/ Halt \/ Scripts

\* init runs a script it has started to its end, unless the boot dies.
RecoverySpec == RecoveryInit /\ [][RecoveryNext]_recovery_vars /\ WF_recovery_vars(Scripts)

----------------------------------------------------------------------------
(* Properties.                                                             *)

RecoveryTypeOK ==
    /\ stage \in Early \cup {"off", "late", "aborted", "reset", "clear",
                          "unsignal", "load", "up"}
    /\ count \in 0 .. Threshold
    /\ current \in 0 .. Threshold
    /\ signal \subseteq Files
    /\ begun \in 0 .. Threshold
    /\ outcome \in {"clean", "failed"}

\* The counter never claims more boots than were begun since the last healthy
\* one, although a boot may die between any two of the writes
\* (post-fs-data.sh:35-47, service.sh:130).
CountIsHonest == count <= begun

\* When post-fs-data.sh has ended in status 0, both files are there or neither
\* is, and they are there exactly at the third boot in a row that was not
\* healthy, whatever half-made or half-removed pair an earlier boot left
\* (post-fs-data.sh:39-54, service.sh:131).
SignalIsExact ==
    stage = "late" =>
        /\ signal \in {{}, Files}
        /\ signal = Files <=> count = Threshold
        /\ signal = Files => begun = Threshold

\* A device that is booted again and again, never gets to a healthy boot and
\* does not fail in the middle of the counter's write is signalled for good, in
\* every boot that gets to the end of post-fs-data.sh (post-fs-data.sh:24-28,
\* 40-41).
LoopIsSignalled ==
    /\ []<><<PowerOn>>_recovery_vars
    /\ []<>(stage = "late")
    /\ <>[][~Reset]_recovery_vars
    /\ <>[][stage = "write" => Write]_recovery_vars
    => <>[](stage = "late" => signal = Files)

----------------------------------------------------------------------------
(* What the comments say and the code does not do.                         *)

\* "If counter reaches >= 3 consecutive failed boots ... signal auto-unpatch"
\* (post-fs-data.sh:26-28): a device that is booted again and again and dies in
\* every boot before service.sh ends is signalled.
FailedBootsAreSignalled ==
    /\ []<><<PowerOn>>_recovery_vars
    /\ []<>(stage = "load")
    /\ [](stage # "up")
    /\ <>[][~Abort /\ (stage = "write" => Write)]_recovery_vars
    => <>(signal = Files)

\* "service.sh will reset it on a healthy boot" (post-fs-data.sh:28): where no
\* boot has failed, none is signalled.
SignalMeansFailure == stage = "late" /\ signal # {} => outcome = "failed"
=============================================================================
