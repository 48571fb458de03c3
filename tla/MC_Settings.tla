-------------------------- MODULE MC_Settings --------------------------
(***************************************************************************)
(* Settings for TLC: two stealth KPMs; the installed release, and a newer  *)
(* one that is published without its hash first.                           *)
(***************************************************************************)
EXTENDS Settings

Release(v, h) == [version |-> v, hash |-> h]
MCReleases == {Release(1, TRUE), Release(2, FALSE), Release(2, TRUE)}

\* The policy, the stealth page and the update dialog share nothing but `acts`: a
\* behaviour is followed as long as it is about one of the three.
PolicyRests == current = None
StealthRests == cards = {} /\ writes = {} /\ ~Reading
UpdateRests == checks = [start |-> 1, page |-> 0] /\ remote.version = Local
OnePage ==
    \/ PolicyRests /\ StealthRests
    \/ PolicyRests /\ UpdateRests
    \/ StealthRests /\ UpdateRests
=========================================================================
