-------------------------- MODULE MC_PatchSession --------------------------
(***************************************************************************)
(* PatchSession for TLC.  What the files of an earlier minute hold makes   *)
(* no difference to the page.                                              *)
(***************************************************************************)
EXTENDS PatchSession, MC_BootScripts

\* Bound: the second minute is explored from the states with no fault.
SoundMinute == clock = 2 => Faults = 0
=============================================================================
