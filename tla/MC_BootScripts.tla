-------------------------- MODULE MC_BootScripts --------------------------
(***************************************************************************)
(* BootScripts for TLC.  Two releases, so that a backup of one can be in   *)
(* the way of the other, and two minutes, so that two runs share a file    *)
(* name or not.  The releases are interchangeable.                         *)
(***************************************************************************)
EXTENDS BootScripts, FiniteSets, TLC

Releases == Permutations(Bases)

\* Everything on the device is of one release.
OneRelease ==
    LET backups == UNION {{bak[m], bakDisk[m]} : m \in Minutes}
        manifests == UNION {{man[m], manDisk[m]} : m \in Minutes} \ {None, Torn}
        images == ({boot} \cup backups \cup {n.image : n \in manifests}) \ {None, Torn}
    IN  \A i, j \in images : i.base = j.base

\* The files that are torn or in doubt, and a failure not noticed.
Faults ==
    LET backups == {m \in Minutes : Torn \in {bak[m], bakDisk[m]}}
        manifests == {m \in Minutes : Torn \in {man[m], manDisk[m]}}
    IN  Cardinality(backups) + Cardinality(manifests) + Cardinality(doubt)
            + IF job.missed = "nothing" THEN 0 ELSE 1

\* Bound: the first minute is explored in full, the second with one release and
\* no fault, or one fault when the files of the first are on the storage.
SecondMinute ==
    clock = 2 => /\ OneRelease
                 /\ Faults <= IF bak[1] = bakDisk[1] /\ man[1] = manDisk[1]
                              THEN 1 ELSE 0
===========================================================================
