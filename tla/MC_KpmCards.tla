-------------------------- MODULE MC_KpmCards --------------------------
(***************************************************************************)
(* KpmCards for TLC: one KPM in two builds, with a recorded version; a     *)
(* catalog with the same version and one with a newer and a version that   *)
(* cannot be read.                                                         *)
(***************************************************************************)
EXTENDS KpmCards, SequencesExt

MCProps == {[n \in Names |-> <<1, 0, 9>>]}
Entry(v) == [id |-> "p", version |-> v]
MCCatalogs == {<<Entry(<<1, 1, 0>>), Entry(NoVersion)>>, <<Entry(<<1, 0, 9>>)>>}
MCVersions == {<<1, 0, 9>>, <<1, 1, 0>>, <<1, 1, 1>>}
MCQueries == {{"p"}, {}}

----------------------------------------------------------------------------
\* The code's loop, which Latest states without a loop.

LatestLoop(mods, n) ==
    FoldLeft(LAMBDA best, m : IF m.id = n /\ \A v \in best : Newer(m.version, v) THEN {m.version} ELSE best,
             {}, mods)

ASSUME LatestIsLoop ==
    \A mods \in BoundedSeq([id : {"p", "q"}, version : Readable], 4) : Latest(mods, "p") = LatestLoop(mods, "p")
=========================================================================
