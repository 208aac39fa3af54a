------------------------- MODULE TasDashboardProofs -------------------------
(***************************************************************************)
(* Proofs about TasDashboard for every value of its constants: every step  *)
(* of the timers and handlers is a step of the engine TasSync or leaves    *)
(* the engine unchanged, so the engine's proved invariants hold under the  *)
(* timers.                                                                 *)
(***************************************************************************)
EXTENDS TasDashboard, TasSyncProofs

USE TasDashboardAssumption, TasSyncAssumption

-----------------------------------------------------------------------------
(* Refinement of the engine.                                               *)

\* Every step of the page is a step of TasSync's Next or a stutter of the
\* engine's variables.
LEMMA DashStepIsEngineStep == [DashNext]_dvars => [Next]_vars
<1> SUFFICES ASSUME [DashNext]_dvars PROVE [Next]_vars
  OBVIOUS
<1>1. CASE NodeStep /\ UNCHANGED timers
  BY <1>1 DEF Next
<1>2. CASE \E t \in Tabs : TabClick(t)
  BY <1>2 DEF TabClick
<1>3. CASE \E on \in BOOLEAN : SwitchClick(on)
  BY <1>3 DEF SwitchClick
<1>4. CASE DashChangeHost
  BY <1>4 DEF DashChangeHost, Next
<1>5. CASE FirstLoad \/ DashTick
  BY <1>5 DEF FirstLoad, DashTick, Next
<1>6. CASE BlockTick \/ GroupTick
  BY <1>6 DEF BlockTick, GroupTick, Next
<1>7. CASE BlockLaterFires \/ GroupLaterFires
  BY <1>7 DEF BlockLaterFires, GroupLaterFires, Next
<1>8. CASE \E i \in 1..Len(pending) : DashboardAnswer(i)
  BY <1>8 DEF DashboardAnswer, Next
<1>9. CASE UNCHANGED dvars
  BY <1>9 DEF dvars
<1> QED
  BY <1>1, <1>2, <1>3, <1>4, <1>5, <1>6, <1>7, <1>8, <1>9 DEF DashNext

\* TasDashboard implements TasSync: the engine under its timers does
\* nothing that TasSync, where every callback may fire at any time, does not.
THEOREM DashRefinesEngine == DashSpec => Spec
<1>1. DashInit => Init
  BY DEF DashInit
<1>2. [DashNext]_dvars => [Next]_vars
  BY DashStepIsEngineStep
<1> QED
  BY <1>1, <1>2, PTL DEF DashSpec, Spec

\* BlocksSorted under the timers: the block mirror stays in strictly
\* increasing height order whatever the tab handler, the switch and the
\* intervals do (TasSync's BlocksSortedThm carried over).
THEOREM DashBlocksSorted == DashSpec => []BlocksSorted
BY DashRefinesEngine, BlocksSortedThm, PTL

\* Under the real timers, last_sync_block stays at or above every mirrored
\* height, so the 1 s block interval never re-fetches a mirrored block.
THEOREM DashBlocksBelowCursor == DashSpec => []BlocksBelowCursor
BY DashRefinesEngine, BlocksBelowCursorThm, PTL

\* Under the real timers, the group mirror stays in strictly increasing
\* height order, whichever of the 10 ms timeout and the 10 s interval runs.
THEOREM DashGroupsSorted == DashSpec => []GroupsSorted
BY DashRefinesEngine, GroupsSortedThm, PTL

=============================================================================
