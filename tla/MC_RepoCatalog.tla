------------------------- MODULE MC_RepoCatalog -------------------------
(***************************************************************************)
(* RepoCatalog for TLC: the default, a retired URL and a third party's,    *)
(* which share a module; a saved list with a retired URL, a retired        *)
(* legacy URL or none, and a system list, which may name a repository      *)
(* twice, or none.                                                         *)
(***************************************************************************)
EXTENDS RepoCatalog

MCContent == [u \in Urls |-> IF u = "main" THEN {"a", "b"} ELSE {"b", "c"}]
MCQueries == {{"a", "b", "c"}, {"c"}}
MCSavedLists == {<<>>, <<"old", "main">>}
MCTyped == {<<"file">>, <<"third", "old", "main">>}
MCSystemLists == {<<>>, <<"third", "third">>}

----------------------------------------------------------------------------
\* The code's loops, which the definitions above them state without a loop.

NormalLoop(list) ==
    FoldLeft(LAMBDA acc, u : IF Moved(u) \in ToSet(acc) THEN acc ELSE Append(acc, Moved(u)),
             <<>>, list)
KeptLoop(rows) == LET valid == SelectSeq(rows, LAMBDA u : u \in Urls)
                  IN  IF valid = <<>> THEN <<Default>> ELSE valid
MergeLoop(f) ==
    LET New(k, acc) == IF k \in f.ok THEN Content[f.repos[k]] \ Ids(acc) ELSE {}
    IN  FoldLeft(LAMBDA acc, k : acc \cup {[id |-> m, repo |-> f.repos[k]] : m \in New(k, acc)},
                 {}, [k \in DOMAIN f.repos |-> k])

ASSUME ListLoops == \A list \in BoundedSeq(Texts, 4) : Normal(list) = NormalLoop(list) /\ Kept(list) = KeptLoop(list)
ASSUME CatalogLoop ==
    \A list \in BoundedSeq(Urls, 4) : \A ok \in SUBSET DOMAIN list :
        LET f == [NoFetch EXCEPT !.repos = list, !.ok = ok] IN Merged(f) = MergeLoop(f)
==========================================================================
