------------------------- MODULE MC_LegacyHeightSync -------------------------
(***************************************************************************)
(* Model-checking instance of LegacyHeightSync: the constants are given in *)
(* the .cfg files.                                                         *)
(***************************************************************************)
EXTENDS LegacyHeightSync
=============================================================================
