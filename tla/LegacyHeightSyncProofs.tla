----------------------- MODULE LegacyHeightSyncProofs -----------------------
(***************************************************************************)
(* Proofs about LegacyHeightSync for every value of its constants: the     *)
(* type invariant, and that one GTAS_blockHeight answer moves the cursor   *)
(* up by at most Batch heights.                                            *)
(***************************************************************************)
EXTENDS LegacyHeightSync, SequenceTheorems, TLAPS

USE LegacyHeightSyncAssumption

\* Removing one answer from the in-flight sequence.
LEMMA RemoveAtType ==
    ASSUME NEW S, NEW s \in Seq(S), NEW i \in 1..Len(s)
    PROVE  /\ RemoveAt(s, i) \in Seq(S)
           /\ Len(RemoveAt(s, i)) = Len(s) - 1
<1> DEFINE s1 == SubSeq(s, 1, i - 1)
           s2 == SubSeq(s, i + 1, Len(s))
<1>1. s1 \in Seq(S) /\ Len(s1) = i - 1
  BY SubSeqProperties
<1>2. s2 \in Seq(S) /\ Len(s2) = Len(s) - i
  BY SubSeqProperties
<1>3. RemoveAt(s, i) = s1 \o s2
  BY DEF RemoveAt
<1> HIDE DEF s1, s2
<1>4. s1 \o s2 \in Seq(S) /\ Len(s1 \o s2) = Len(s1) + Len(s2)
  BY <1>1, <1>2, ConcatProperties
<1> QED
  BY <1>1, <1>2, <1>3, <1>4

\* The walk ends at a height between 0 and the reported height, at most
\* Batch above the cursor it started from, and not below that cursor when
\* the reported height is not below it.
LEMMA WalkEndFacts ==
    ASSUME NEW cur \in Nat, NEW data \in Nat
    PROVE  /\ WalkEnd(cur, data) \in 0..data
           /\ WalkEnd(cur, data) <= cur + Batch
           /\ cur <= data => cur <= WalkEnd(cur, data)
BY DEF WalkEnd

-----------------------------------------------------------------------------
(* Type correctness.                                                       *)

\* A callback removes the answer it handles and keeps the rest typed.
LEMMA DeliverType ==
    ASSUME TypeOK, NEW i \in 1..Len(pending), Deliver(i)
    PROVE  TypeOK'
<1>1. pending[i] \in Answer
  BY DEF TypeOK
<1>2. pending' \in Seq(Answer) /\ Len(pending') <= MaxInflight
  <2>1. pending' = RemoveAt(pending, i)
    BY DEF Deliver, SyncBlockHeightSuccess, SyncBlockHeightRpcError,
           SyncBlockHeightError
  <2> QED
    BY <2>1, RemoveAtType DEF TypeOK
<1>3. current_block_height' \in 0..MaxHeight
  <2>1. CASE SyncBlockHeightSuccess(i)
    <3>1. /\ pending[i].data \in Nat /\ pending[i].data <= MaxHeight
          /\ current_block_height \in Nat
      BY <1>1 DEF Answer, TypeOK
    <3>2. WalkEnd(current_block_height, pending[i].data) \in 0..pending[i].data
      BY <3>1, WalkEndFacts, Zenon
    <3>3. current_block_height' = WalkEnd(current_block_height, pending[i].data)
      BY <2>1 DEF SyncBlockHeightSuccess
    <3> QED
      BY <3>1, <3>2, <3>3
  <2>2. CASE SyncBlockHeightRpcError(i) \/ SyncBlockHeightError(i)
    BY <2>2 DEF TypeOK, SyncBlockHeightRpcError, SyncBlockHeightError
  <2> QED
    BY <2>1, <2>2 DEF Deliver
<1>4. /\ online' \in BOOLEAN
      /\ UNCHANGED <<node, hostChanges>>
  BY DEF Deliver, SyncBlockHeightSuccess, SyncBlockHeightRpcError,
         SyncBlockHeightError
<1> QED
  BY <1>2, <1>3, <1>4 DEF TypeOK, node

\* Every step keeps the types.
LEMMA TypeStep == TypeOK /\ [Next]_vars => TypeOK'
<1> SUFFICES ASSUME TypeOK, [Next]_vars PROVE TypeOK'
  OBVIOUS
<1> USE DEF node
<1>1. CASE NodeStep
  <2>1. UNCHANGED <<online, current_block_height, pending, hostChanges>>
    BY <1>1 DEF NodeStep
  <2>2. CASE NodeGrow
    BY <2>1, <2>2 DEF NodeGrow, TypeOK
  <2>3. CASE NodeCrash
    BY <2>1, <2>3 DEF NodeCrash, TypeOK
  <2>4. CASE NodeRestart
    BY <2>1, <2>4 DEF NodeRestart, TypeOK
  <2> QED
    BY <1>1, <2>2, <2>3, <2>4 DEF NodeStep
<1>2. CASE ProbeOk
  <2>1. pending' = Append(pending, [kind |-> "ok", data |-> rHeight])
    BY <1>2 DEF ProbeOk
  <2>2. [kind |-> "ok", data |-> rHeight] \in Answer
    BY DEF TypeOK, Answer
  <2> QED
    BY <1>2, <2>1, <2>2, AppendProperties DEF ProbeOk, TypeOK
<1>3. CASE ProbeFailed
  <2>1. PICK k \in {"rpcerr", "fail"} :
          pending' = Append(pending, [kind |-> k, data |-> 0])
    BY <1>3 DEF ProbeFailed
  <2>2. [kind |-> k, data |-> 0] \in Answer
    BY DEF TypeOK, Answer
  <2> QED
    BY <1>3, <2>1, <2>2, AppendProperties DEF ProbeFailed, TypeOK
<1>4. CASE \E i \in 1..Len(pending) : Deliver(i)
  BY <1>4, DeliverType
<1>5. CASE ChangeHost
  BY <1>5 DEF ChangeHost, TypeOK
<1>6. CASE UNCHANGED vars
  BY <1>6 DEF vars, TypeOK
<1> QED
  BY <1>1, <1>2, <1>3, <1>4, <1>5, <1>6 DEF Next, SyncBlockHeight

\* The type invariant holds in every reachable state of tas-back.js's probe.
THEOREM LegacyTypeCorrect == Spec => []TypeOK
<1>1. Init => TypeOK
  <2> SUFFICES ASSUME Init PROVE TypeOK
    OBVIOUS
  <2>1. pending \in Seq(Answer) /\ Len(pending) <= MaxInflight
    <3>1. <<>> \in Seq(Answer) /\ Len(<<>>) = 0
      BY EmptySeq
    <3> QED
      BY <3>1 DEF Init
  <2>2. rUp \in BOOLEAN /\ online \in BOOLEAN
    BY Zenon DEF Init
  <2>3. /\ rBoot \in 0..MaxBoot /\ rHeight \in 0..MaxHeight
        /\ current_block_height \in 0..MaxHeight
        /\ hostChanges \in 0..MaxHostChange
    BY DEF Init
  <2> QED
    BY <2>1, <2>2, <2>3 DEF TypeOK
<1>2. TypeOK /\ [Next]_vars => TypeOK'
  BY TypeStep
<1> QED
  BY <1>1, <1>2, PTL DEF Spec

-----------------------------------------------------------------------------
(* The request volume bound.                                               *)

\* No step moves the cursor up by more than Batch: the success callback's
\* walk returns after Batch syncBlock calls, the other callbacks leave the
\* cursor, and a host change sets it to 0.
LEMMA BatchStep ==
    TypeOK /\ [Next]_vars => current_block_height' <= current_block_height + Batch
<1> SUFFICES ASSUME TypeOK, [Next]_vars
             PROVE  current_block_height' <= current_block_height + Batch
  OBVIOUS
<1>1. CASE \E i \in 1..Len(pending) : SyncBlockHeightSuccess(i)
  <2>1. PICK i \in 1..Len(pending) : SyncBlockHeightSuccess(i)
    BY <1>1
  <2>2. pending[i] \in Answer
    BY DEF TypeOK
  <2>3. pending[i].data \in Nat /\ current_block_height \in Nat
    BY <2>2 DEF TypeOK, Answer
  <2>4. WalkEnd(current_block_height, pending[i].data) <= current_block_height + Batch
    BY <2>3, WalkEndFacts, Zenon
  <2> QED
    BY <2>1, <2>4 DEF SyncBlockHeightSuccess
<1>2. CASE ChangeHost
  BY <1>2 DEF ChangeHost, TypeOK
<1>3. CASE ~(\E i \in 1..Len(pending) : SyncBlockHeightSuccess(i)) /\ ~ChangeHost
  <2>1. UNCHANGED current_block_height
    BY <1>3 DEF Next, NodeStep, SyncBlockHeight, ProbeOk, ProbeFailed,
           Deliver, SyncBlockHeightRpcError, SyncBlockHeightError, vars
  <2> QED
    BY <2>1 DEF TypeOK
<1> QED
  BY <1>1, <1>2, <1>3

\* BatchBounded: one GTAS_blockHeight answer makes at most Batch syncBlock
\* calls, for every batch size, height bound and number of probes in flight.
THEOREM BatchBoundedThm == Spec => BatchBounded
<1>1. TypeOK /\ [Next]_vars => [current_block_height' <= current_block_height + Batch]_vars
  BY BatchStep
<1> QED
  BY <1>1, LegacyTypeCorrect, PTL DEF Spec, BatchBounded

-----------------------------------------------------------------------------
(* Where the cursor may fall.                                              *)

\* Every step that lowers the cursor is a host change to 0, or the success
\* callback of an answer reporting a lower height, landing at or below it.
LEMMA FallStep ==
    ASSUME TypeOK, [Next]_vars, current_block_height' < current_block_height
    PROVE  \/ hostChanges' = hostChanges + 1 /\ current_block_height' = 0
           \/ \E i \in 1..Len(pending) :
                 /\ pending[i].kind = "ok"
                 /\ pending' = RemoveAt(pending, i)
                 /\ pending[i].data < current_block_height
                 /\ current_block_height' <= pending[i].data
<1>1. CASE \E i \in 1..Len(pending) : SyncBlockHeightSuccess(i)
  <2>1. PICK i \in 1..Len(pending) : SyncBlockHeightSuccess(i)
    BY <1>1
  <2>2. pending[i].data \in Nat /\ current_block_height \in Nat
    <3>1. pending[i] \in Answer
      BY ElementOfSeq DEF TypeOK
    <3> QED
      BY <3>1 DEF TypeOK, Answer
  <2>3. current_block_height' = WalkEnd(current_block_height, pending[i].data)
    BY <2>1 DEF SyncBlockHeightSuccess
  <2>4. /\ WalkEnd(current_block_height, pending[i].data) \in 0..pending[i].data
        /\ current_block_height <= pending[i].data =>
              current_block_height <= WalkEnd(current_block_height, pending[i].data)
    BY <2>2, WalkEndFacts
  <2>5. pending[i].data < current_block_height
        /\ current_block_height' <= pending[i].data
    BY <2>2, <2>3, <2>4
  <2> QED
    BY <2>1, <2>5 DEF SyncBlockHeightSuccess
<1>2. CASE ChangeHost
  BY <1>2 DEF ChangeHost
<1>3. CASE ~(\E i \in 1..Len(pending) : SyncBlockHeightSuccess(i)) /\ ~ChangeHost
  <2>1. UNCHANGED current_block_height
    BY <1>3 DEF Next, NodeStep, SyncBlockHeight, ProbeOk, ProbeFailed,
           Deliver, SyncBlockHeightRpcError, SyncBlockHeightError, vars
  <2> QED
    BY <2>1 DEF TypeOK
<1> QED
  BY <1>1, <1>2, <1>3

\* CursorFallsOnlyToReport: for every batch size and bound, the cursor of
\* tas-back.js falls only on a host change, to 0, or on an answer that
\* reports a height below it, to at most that height; the stale answer of
\* the legacy_stale run is such an answer.
THEOREM CursorFallsOnlyToReportThm == Spec => CursorFallsOnlyToReport
<1>1. TypeOK /\ [Next]_vars =>
        [current_block_height' < current_block_height =>
           \/ hostChanges' = hostChanges + 1 /\ current_block_height' = 0
           \/ \E i \in 1..Len(pending) :
                 /\ pending[i].kind = "ok"
                 /\ pending' = RemoveAt(pending, i)
                 /\ pending[i].data < current_block_height
                 /\ current_block_height' <= pending[i].data]_vars
  BY FallStep
<1> QED
  BY <1>1, LegacyTypeCorrect, PTL DEF Spec, CursorFallsOnlyToReport
=============================================================================
