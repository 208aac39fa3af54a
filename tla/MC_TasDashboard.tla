--------------------------- MODULE MC_TasDashboard ---------------------------
(***************************************************************************)
(* TLC instances of TasDashboard: the engine of MC_TasSync with a chain of *)
(* height 2, a group sequence of height 1, one probe in flight, two live   *)
(* intervals and two pending timeouts of each kind (so that a tab clicked  *)
(* twice leaks one interval), and one host change.                         *)
(***************************************************************************)
EXTENDS TasDashboard
=============================================================================
