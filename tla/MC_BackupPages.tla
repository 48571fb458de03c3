------------------------- MODULE MC_BackupPages -------------------------
(***************************************************************************)
(* BackupPages for TLC: three old backups, so that a purge that keeps the  *)
(* default of three has something to remove once a fourth is taken; the    *)
(* newest has a manifest, or only an older one has, or none.               *)
(***************************************************************************)
EXTENDS BackupPages

MCOldManifests == {<<None, None, "patched">>, <<None, "stock", None>>, <<None, None, None>>}
==========================================================================
