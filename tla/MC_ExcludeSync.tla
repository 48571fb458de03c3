-------------------------- MODULE MC_ExcludeSync --------------------------
(***************************************************************************)
(* ExcludeSync for TLC: a package installed for two users, and two         *)
(* packages that share a uid; the CSV file names one of them and a package *)
(* that is not installed.                                                  *)
(***************************************************************************)
EXTENDS ExcludeSync

App(p, u, n) == [pkg |-> p, uid |-> u, user |-> n]
MCInstalled == {App("p", 1, 0), App("p", 1, 10), App("q", 2, 0), App("r", 2, 0)}
MCForeign == {App("q", 2, 0), App("z", 9, 0)}
MCEnvironments == {{}, {"ap"}, {"magisk"}, {"ap", "ksudir"}}
===========================================================================
