----------------------------- MODULE MC_TasSync -----------------------------
(***************************************************************************)
(* TLC instances of TasSync.  MC_TasSync_streams.cfg runs both streams     *)
(* together with small heights (blocks to 2, groups to 1) and a capacity   *)
(* of 2, so that eviction happens; the cold-start window (1) is below the  *)
(* catch-up window (2) as 20 < 100 in tas.js, the catch-up window equals   *)
(* the capacity as both are 100, the node may restart once onto the same   *)
(* or a fresh chain, and two GTAS_dashboard answers can be in flight to    *)
(* arrive in either order.  The violation runs use the same instance.      *)
(***************************************************************************)
EXTENDS TasSync
=============================================================================
