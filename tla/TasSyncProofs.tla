--------------------------- MODULE TasSyncProofs ---------------------------
(***************************************************************************)
(* Proofs about TasSync for every value of its constants: the type         *)
(* invariant, and that the block mirror stays in strictly increasing       *)
(* height order (so holds no block twice) although syncBlock never         *)
(* de-duplicates.                                                          *)
(***************************************************************************)
EXTENDS TasSync, SequenceTheorems, TLAPS

USE TasSyncAssumption

-----------------------------------------------------------------------------
(* Lemmas on the sequence helpers.                                         *)

\* Trim keeps a suffix of at most Cap elements.
LEMMA TrimFacts ==
    ASSUME NEW S, NEW s \in Seq(S)
    PROVE  /\ Trim(s) \in Seq(S)
           /\ Len(Trim(s)) <= Cap
           /\ Len(Trim(s)) <= Len(s)
           /\ \A i \in 1..Len(Trim(s)) :
                 Trim(s)[i] = s[i + Len(s) - Len(Trim(s))]
<1>1. CASE Len(s) > Cap
  <2> DEFINE m == Len(s) - Cap + 1
  <2>1. m \in Int /\ \A i \in m..Len(s) : s[i] \in S
    BY <1>1
  <2>2. /\ SubSeq(s, m, Len(s)) \in Seq(S)
        /\ Len(SubSeq(s, m, Len(s))) = Cap
        /\ \A i \in 1..Cap : SubSeq(s, m, Len(s))[i] = s[m + i - 1]
    BY <1>1, <2>1, SubSeqProperties
  <2> QED
    BY <1>1, <2>2 DEF Trim
<1>2. CASE ~(Len(s) > Cap)
  BY <1>2 DEF Trim
<1> QED
  BY <1>1, <1>2

\* A function on 1..n is a sequence of length n.
LEMMA FunIsSeq ==
    ASSUME NEW S, NEW n \in Nat, NEW f \in [1..n -> S]
    PROVE  f \in Seq(S) /\ Len(f) = n
<1>1. f \in UNION {[1..k -> S] : k \in Nat}
  BY Zenon
<1>2. f \in Seq(S)
  BY <1>1, SeqDef, Zenon
<1> QED
  BY <1>2, LenProperties

\* Removing one answer from the in-flight sequence.
LEMMA RemoveAtFacts ==
    ASSUME NEW S, NEW s \in Seq(S), NEW i \in 1..Len(s)
    PROVE  /\ RemoveAt(s, i) \in Seq(S)
           /\ Len(RemoveAt(s, i)) = Len(s) - 1
<1> DEFINE s1 == SubSeq(s, 1, i - 1)
           s2 == SubSeq(s, i + 1, Len(s))
<1>1. s1 \in Seq(S) /\ Len(s1) = i - 1
  BY SubSeqProperties
<1>2. s2 \in Seq(S) /\ Len(s2) = Len(s) - i
  BY SubSeqProperties
<1>3. RemoveAt(s, i) = s1 \o s2
  BY DEF RemoveAt
<1> HIDE DEF s1, s2
<1>4. s1 \o s2 \in Seq(S) /\ Len(s1 \o s2) = Len(s1) + Len(s2)
  BY <1>1, <1>2, ConcatProperties
<1> QED
  BY <1>1, <1>2, <1>3, <1>4

\* The blocks a GTAS_getBlocks call returns are keys of the current chain
\* with heights between from and to.
LEMMA BlocksInFacts ==
    ASSUME TypeOK, NEW from \in Nat, NEW to \in Int
    PROVE  /\ BlocksIn(from, to) \in Seq(BlockKey)
           /\ \A i \in 1..Len(BlocksIn(from, to)) :
                 /\ BlocksIn(from, to)[i].h = from + i - 1
                 /\ BlocksIn(from, to)[i].h <= to
<1> DEFINE top == IF to < rHeight THEN to ELSE rHeight
           n   == IF top - from + 1 < 0 THEN 0 ELSE top - from + 1
           f   == [i \in 1..n |-> [e |-> rEpoch, h |-> from + i - 1]]
<1>1. n \in Nat /\ 1..n = 1..(top - from + 1)
  BY DEF TypeOK
<1>2. BlocksIn(from, to) = f
  BY <1>1 DEF BlocksIn
<1>3. f \in [1..n -> BlockKey]
  BY DEF TypeOK, BlockKey, Epochs
<1>4. ASSUME NEW i \in 1..n PROVE f[i].h = from + i - 1 /\ f[i].h <= to
  <2>1. f[i].h = from + i - 1
    OBVIOUS
  <2>2. from + i - 1 <= to
    BY <1>1 DEF TypeOK
  <2> QED
    BY <2>1, <2>2
<1> HIDE DEF f
<1>5. f \in Seq(BlockKey) /\ Len(f) = n
  BY <1>1, <1>3, FunIsSeq
<1> QED
  BY <1>2, <1>4, <1>5

\* The groups a GTAS_getGroupsAfter call returns are keys of the current
\* chain.
LEMMA GroupsAfterFacts ==
    ASSUME TypeOK, NEW height \in Nat
    PROVE  /\ GroupsAfter(height) \in Seq(GroupKey)
           /\ \A i \in 1..Len(GroupsAfter(height)) :
                 GroupsAfter(height)[i].h = height + i - 1
<1> DEFINE n == IF rGroupHeight - height + 1 < 0 THEN 0
                ELSE rGroupHeight - height + 1
           f == [i \in 1..n |-> [e |-> rEpoch, h |-> height + i - 1]]
<1>1. n \in Nat /\ 1..n = 1..(rGroupHeight - height + 1)
  BY DEF TypeOK
<1>2. GroupsAfter(height) = f
  BY <1>1 DEF GroupsAfter
<1>3. f \in [1..n -> GroupKey]
  BY DEF TypeOK, GroupKey, Epochs
<1>4. \A i \in 1..n : f[i].h = height + i - 1
  OBVIOUS
<1> HIDE DEF f
<1>5. f \in Seq(GroupKey) /\ Len(f) = n
  BY <1>1, <1>3, FunIsSeq
<1> QED
  BY <1>2, <1>4, <1>5

-----------------------------------------------------------------------------
(* The type invariant.                                                     *)

\* syncBlock keeps the block cursor and the block mirror well typed.
LEMMA SyncBlockType ==
    ASSUME TypeOK, NEW f0 \in Int, NEW t0 \in -1..MaxHeight, SyncBlock(f0, t0)
    PROVE  /\ last_sync_block' \in -1..MaxHeight
           /\ blocks' \in Seq(BlockKey)
           /\ Len(blocks') <= Cap
<1> DEFINE from == IF f0 < 0 THEN 0 ELSE f0
           to   == IF t0 < 0 THEN 0 ELSE t0
<1>1. from \in Nat /\ to \in 0..MaxHeight /\ to \in Int
  BY DEF TypeOK
<1>2. BlocksIn(from, to) \in Seq(BlockKey)
  BY <1>1, BlocksInFacts, Zenon
<1>3. blocks \o BlocksIn(from, to) \in Seq(BlockKey)
  BY <1>2, ConcatProperties, Zenon DEF TypeOK
<1>4. Trim(blocks \o BlocksIn(from, to)) \in Seq(BlockKey)
      /\ Len(Trim(blocks \o BlocksIn(from, to))) <= Cap
  BY <1>3, TrimFacts
<1> QED
  BY <1>1, <1>4 DEF SyncBlock, TypeOK

\* syncGroup keeps the group cursor, the group mirror and groupIds well
\* typed.
LEMMA SyncGroupType ==
    ASSUME TypeOK, NEW height \in Nat, SyncGroup(height)
    PROVE  /\ last_sync_group' \in -1..MaxGroupHeight
           /\ groups' \in Seq(GroupKey)
           /\ Len(groups') <= Cap
           /\ groupIds' \in SUBSET GroupKey
<1> DEFINE ret == GroupsAfter(height)
           unseen == {i \in DOMAIN ret : ret[i] \notin groupIds}
<1>1. ret \in Seq(GroupKey)
  BY GroupsAfterFacts
<1>2. CASE /\ rUp
           /\ \E idx \in Enumerations(unseen, Len(ret)) :
                 groups' = Trim(groups \o [k \in DOMAIN idx |-> ret[idx[k]]])
           /\ groupIds' = groupIds \cup {ret[i] : i \in DOMAIN ret}
           /\ last_sync_group' =
                 IF Len(ret) > 0 /\ ret[Len(ret)].h > last_sync_group
                 THEN ret[Len(ret)].h ELSE last_sync_group
  <2>1. PICK idx \in Enumerations(unseen, Len(ret)) :
            groups' = Trim(groups \o [k \in DOMAIN idx |-> ret[idx[k]]])
    BY <1>2
  <2> DEFINE picked == [k \in DOMAIN idx |-> ret[idx[k]]]
  <2>2. picked \in Seq(GroupKey)
    <3>1. PICK n \in 0..Len(ret) : idx \in [1..n -> 1..Len(ret)]
      BY <2>1 DEF Enumerations
    <3>2. picked \in [1..n -> GroupKey]
      BY <1>1, <3>1, ElementOfSeq
    <3> QED
      BY <3>1, <3>2, FunIsSeq
  <2> HIDE DEF picked
  <2>3. groups \o picked \in Seq(GroupKey)
    BY <2>2, ConcatProperties, Zenon DEF TypeOK
  <2>4. groups' \in Seq(GroupKey) /\ Len(groups') <= Cap
    BY <2>1, <2>3, TrimFacts DEF picked
  <2>5. groupIds' \in SUBSET GroupKey
    BY <1>1, <1>2, ElementOfSeq DEF TypeOK
  <2>6. last_sync_group' \in -1..MaxGroupHeight
    <3>1. Len(ret) > 0 => ret[Len(ret)] \in GroupKey
      BY <1>1, ElementOfSeq
    <3> QED
      BY <1>2, <3>1 DEF TypeOK, GroupKey
  <2> QED
    BY <2>4, <2>5, <2>6
<1>3. CASE UNCHANGED <<groups, groupIds, last_sync_group>>
  BY <1>3 DEF TypeOK
<1> QED
  BY <1>2, <1>3 DEF SyncGroup

\* Every step keeps TypeOK.
LEMMA TypeStep == TypeOK /\ [Next]_vars => TypeOK'
<1> SUFFICES ASSUME TypeOK, [Next]_vars PROVE TypeOK'
  OBVIOUS
<1> USE DEF node, bvars, gvars
<1>1. CASE NodeStep
  <2>1. CASE NodeGrow
    BY <1>1, <2>1 DEF NodeStep, NodeGrow, TypeOK
  <2>2. CASE NodeGroupGrow
    BY <1>1, <2>2 DEF NodeStep, NodeGroupGrow, TypeOK
  <2>3. CASE NodeCrash
    BY <1>1, <2>3 DEF NodeStep, NodeCrash, TypeOK
  <2>4. CASE NodeRestart
    BY <1>1, <2>4 DEF NodeStep, NodeRestart, TypeOK, Epochs
  <2> QED
    BY <1>1, <2>1, <2>2, <2>3, <2>4 DEF NodeStep
<1>2. CASE DashboardLoad
  <2>1. PICK a \in (IF rUp THEN {OkAnswer, ErrAnswer, BadAnswer} ELSE {ErrAnswer}) :
            pending' = Append(pending, a)
    BY <1>2 DEF DashboardLoad
  <2>2. a \in Answer
    BY <2>1 DEF TypeOK, Answer, OkAnswer, ErrAnswer, BadAnswer
  <2>3. pending' \in Seq(Answer) /\ Len(pending') <= MaxInflight
    BY <1>2, <2>1, <2>2, AppendProperties DEF DashboardLoad, TypeOK
  <2> QED
    BY <1>2, <2>3 DEF DashboardLoad, TypeOK
<1>3. ASSUME NEW i \in 1..Len(pending),
             DashboardSuccess(i) \/ DashboardError(i) \/ DashboardBad(i)
      PROVE  TypeOK'
  <2>1. RemoveAt(pending, i) \in Seq(Answer)
        /\ Len(RemoveAt(pending, i)) <= MaxInflight
    BY RemoveAtFacts DEF TypeOK
  <2>2. pending[i] \in Answer
    BY ElementOfSeq DEF TypeOK
  <2>3. CASE DashboardSuccess(i)
    <3>1. /\ pending[i].block_height \in 0..MaxHeight
          /\ pending[i].group_height \in 0..MaxGroupHeight
          /\ pending[i].status \in {Running, Stopped, Unknown}
          /\ pending[i].boot \in 0..MaxBoot
      BY <2>2 DEF Answer
    <3>2. /\ blocks' \in Seq(BlockKey) /\ Len(blocks') <= Cap
          /\ groups' \in Seq(GroupKey) /\ Len(groups') <= Cap
          /\ groupIds' \in SUBSET GroupKey
      BY <2>3, EmptySeq DEF DashboardSuccess, TypeOK
    <3>3. /\ current_block_height' \in -1..MaxHeight
          /\ current_group_height' \in -1..MaxGroupHeight
          /\ tb_node_status' \in {Running, Stopped, Unknown}
          /\ seenBoot' \in 0..MaxBoot
          /\ pending' = RemoveAt(pending, i)
      BY <2>3, <3>1 DEF DashboardSuccess
    <3>4. UNCHANGED <<node, last_sync_block, last_sync_group>>
      BY <2>3 DEF DashboardSuccess
    <3> QED
      BY <2>1, <3>2, <3>3, <3>4 DEF TypeOK
  <2>4. CASE DashboardError(i)
    BY <2>1, <2>4 DEF DashboardError, TypeOK
  <2>5. CASE DashboardBad(i)
    BY <2>1, <2>5 DEF DashboardBad, TypeOK
  <2> QED
    BY <1>3, <2>3, <2>4, <2>5
<1>4. CASE ReloadBlocksTable
  <2>1. /\ last_sync_block' \in -1..MaxHeight
        /\ blocks' \in Seq(BlockKey)
        /\ Len(blocks') <= Cap
    BY <1>4, SyncBlockType DEF ReloadBlocksTable, TypeOK
  <2> QED
    BY <1>4, <2>1 DEF ReloadBlocksTable, TypeOK
<1>5. CASE SyncBlockLater
  <2>1. /\ last_sync_block' \in -1..MaxHeight
        /\ blocks' \in Seq(BlockKey)
        /\ Len(blocks') <= Cap
    BY <1>5, SyncBlockType DEF SyncBlockLater, TypeOK
  <2> QED
    BY <1>5, <2>1 DEF SyncBlockLater, TypeOK
<1>6. CASE ReloadGroupsTable
  <2>1. last_sync_group + 1 \in Nat
    BY <1>6 DEF ReloadGroupsTable, TypeOK
  <2>2. /\ last_sync_group' \in -1..MaxGroupHeight
        /\ groups' \in Seq(GroupKey)
        /\ Len(groups') <= Cap
        /\ groupIds' \in SUBSET GroupKey
    BY <1>6, <2>1, SyncGroupType DEF ReloadGroupsTable
  <2> QED
    BY <1>6, <2>2 DEF ReloadGroupsTable, TypeOK
<1>7. CASE SyncGroupLater
  <2>1. /\ (IF current_group_height > CatchUpWindow
            THEN current_group_height - CatchUpWindow ELSE 0) \in Nat
        /\ last_sync_group + 1 \in Nat
    BY DEF TypeOK
  <2>2. /\ last_sync_group' \in -1..MaxGroupHeight
        /\ groups' \in Seq(GroupKey)
        /\ Len(groups') <= Cap
        /\ groupIds' \in SUBSET GroupKey
    BY <1>7, <2>1, SyncGroupType DEF SyncGroupLater
  <2> QED
    BY <1>7, <2>2 DEF SyncGroupLater, TypeOK
<1>8. CASE ChangeHost
  BY <1>8 DEF ChangeHost, TypeOK
<1>9. CASE UNCHANGED vars
  BY <1>9 DEF vars, TypeOK
<1> QED
  BY <1>1, <1>2, <1>3, <1>4, <1>5, <1>6, <1>7, <1>8, <1>9 DEF Next

\* TasSync keeps every variable in its type: both mirrors within Cap, the
\* cursors within the heights the node can report, the in-flight
\* GTAS_dashboard answers within MaxInflight.
THEOREM TypeCorrect == Spec => []TypeOK
<1>1. Init => TypeOK
  BY DEF Init, TypeOK, Epochs
<1>2. TypeOK /\ [Next]_vars => TypeOK'
  BY TypeStep
<1> QED
  BY <1>1, <1>2, PTL DEF Spec

-----------------------------------------------------------------------------
(* The block mirror stays sorted.                                          *)

\* Strictly increasing heights, and all heights at most x.
SortedH(s) == \A i, j \in 1..Len(s) : i < j => s[i].h < s[j].h
BelowH(s, x) == \A i \in 1..Len(s) : s[i].h <= x

\* The inductive invariant: BlocksSorted alone is not preserved, since a
\* fetch starting above last_sync_block only avoids the mirrored heights
\* because they are all at most last_sync_block.
IInv == TypeOK /\ BlocksSorted /\ BlocksBelowCursor

\* Trimming to the newest Cap entries keeps order and upper bounds.
LEMMA TrimSorted ==
    ASSUME NEW S, NEW s \in Seq(S), NEW x, SortedH(s), BelowH(s, x)
    PROVE  SortedH(Trim(s)) /\ BelowH(Trim(s), x)
<1> DEFINE t == Trim(s)
           d == Len(s) - Len(t)
<1>1. /\ t \in Seq(S)
      /\ Len(t) <= Len(s)
      /\ \A i \in 1..Len(t) : t[i] = s[i + d]
  BY TrimFacts
<1> HIDE DEF t
<1>2. d \in Nat /\ \A i \in 1..Len(t) : i + d \in 1..Len(s)
  BY <1>1, LenProperties
<1> HIDE DEF d
<1>3. SortedH(t)
  <2> SUFFICES ASSUME NEW i \in 1..Len(t), NEW j \in 1..Len(t), i < j
               PROVE  t[i].h < t[j].h
    BY DEF SortedH
  <2>1. t[i] = s[i + d] /\ t[j] = s[j + d]
    BY <1>1
  <2>2. i + d \in 1..Len(s) /\ j + d \in 1..Len(s) /\ i + d < j + d
    BY <1>2
  <2> QED
    BY <2>1, <2>2 DEF SortedH
<1>4. BelowH(t, x)
  <2> SUFFICES ASSUME NEW i \in 1..Len(t) PROVE t[i].h <= x
    BY DEF BelowH
  <2> QED
    BY <1>1, <1>2 DEF BelowH
<1> QED
  BY <1>3, <1>4 DEF t

\* Appending a sorted sequence that starts above a sorted one keeps order.
LEMMA ConcatSorted ==
    ASSUME NEW S, NEW s \in Seq(S), NEW u \in Seq(S), NEW x,
           SortedH(s), SortedH(u), BelowH(s, x), BelowH(u, x),
           \A i \in 1..Len(s), j \in 1..Len(u) : s[i].h < u[j].h
    PROVE  SortedH(s \o u) /\ BelowH(s \o u, x)
<1>1. /\ Len(s \o u) = Len(s) + Len(u)
      /\ \A i \in 1..Len(s) + Len(u) :
            (s \o u)[i] = IF i <= Len(s) THEN s[i] ELSE u[i - Len(s)]
  BY ConcatProperties
<1> DEFINE c == s \o u
<1> HIDE DEF c
<1>2. SortedH(c)
  <2> SUFFICES ASSUME NEW i \in 1..Len(c), NEW j \in 1..Len(c), i < j
               PROVE  c[i].h < c[j].h
    BY DEF SortedH
  <2>1. CASE j <= Len(s)
    BY <1>1, <2>1 DEF SortedH, c
  <2>2. CASE i <= Len(s) /\ j > Len(s)
    BY <1>1, <2>2 DEF c
  <2>3. CASE i > Len(s)
    BY <1>1, <2>3 DEF SortedH, c
  <2> QED
    BY <2>1, <2>2, <2>3
<1>3. BelowH(c, x)
  BY <1>1 DEF BelowH, c
<1> QED
  BY <1>2, <1>3 DEF c

\* BlocksSorted and BlocksBelowCursor in terms of SortedH and BelowH.
LEMMA SortedDefs ==
    /\ BlocksSorted <=> SortedH(blocks)
    /\ BlocksBelowCursor <=> BelowH(blocks, last_sync_block)
    /\ BlocksSorted' <=> SortedH(blocks')
    /\ BlocksBelowCursor' <=> BelowH(blocks', last_sync_block')
  BY DEF BlocksSorted, BlocksBelowCursor, SortedH, BelowH

\* One syncBlock call from above last_sync_block, or into an empty mirror,
\* keeps the mirror sorted and below the cursor.
LEMMA SyncBlockSorted ==
    ASSUME IInv, NEW f0 \in Int, NEW t0 \in -1..MaxHeight, SyncBlock(f0, t0),
           blocks = << >> \/ f0 > last_sync_block
    PROVE  SortedH(blocks') /\ BelowH(blocks', last_sync_block')
<1> DEFINE from == IF f0 < 0 THEN 0 ELSE f0
           to   == IF t0 < 0 THEN 0 ELSE t0
           B    == BlocksIn(from, to)
<1>1. from \in Nat /\ to \in 0..MaxHeight /\ to \in Int /\ from >= f0
  BY DEF IInv, TypeOK
<1>2. /\ B \in Seq(BlockKey)
      /\ \A i \in 1..Len(B) : B[i].h = from + i - 1 /\ B[i].h <= to
  BY <1>1, BlocksInFacts, Zenon DEF IInv
<1>3. /\ blocks \in Seq(BlockKey)
      /\ last_sync_block \in Int
      /\ SortedH(blocks)
      /\ BelowH(blocks, last_sync_block)
  BY SortedDefs DEF IInv, TypeOK
<1>8. \A i \in 1..Len(blocks) : blocks[i].h \in Int
  <2> SUFFICES ASSUME NEW i \in 1..Len(blocks) PROVE blocks[i].h \in Int
    OBVIOUS
  <2>1. blocks[i] \in BlockKey
    BY <1>3, ElementOfSeq
  <2> QED
    BY <2>1 DEF BlockKey
<1> HIDE DEF B
<1>4. from <= to => BelowH(blocks, to)
  <2> SUFFICES ASSUME from <= to, NEW i \in 1..Len(blocks) PROVE blocks[i].h <= to
    BY DEF BelowH
  <2>1. blocks # << >>
    BY <1>3
  <2>2. f0 > last_sync_block
    BY <2>1, Zenon
  <2>3. blocks[i].h <= last_sync_block /\ blocks[i].h \in Int
    BY <1>3, <1>8 DEF BelowH
  <2> QED
    BY <1>1, <1>3, <2>2, <2>3
<1>5. CASE /\ from <= to
           /\ last_sync_block' = to
           /\ blocks' = Trim(blocks \o B)
  <2>1. SortedH(B) /\ BelowH(B, to)
    BY <1>2 DEF SortedH, BelowH
  <2>2. \A i \in 1..Len(blocks), j \in 1..Len(B) : blocks[i].h < B[j].h
    <3> SUFFICES ASSUME NEW i \in 1..Len(blocks), NEW j \in 1..Len(B)
                 PROVE  blocks[i].h < B[j].h
      OBVIOUS
    <3>1. blocks # << >>
      BY <1>3
    <3>2. f0 > last_sync_block
      BY <3>1, Zenon
    <3>3. blocks[i].h <= last_sync_block /\ last_sync_block < from
      BY <1>1, <1>3, <3>2 DEF BelowH
    <3> QED
      BY <1>1, <1>2, <1>3, <1>8, <3>3
  <2>3. SortedH(blocks \o B) /\ BelowH(blocks \o B, to)
    BY <1>2, <1>3, <1>4, <1>5, <2>1, <2>2, ConcatSorted
  <2>4. blocks \o B \in Seq(BlockKey)
    BY <1>2, <1>3, ConcatProperties, Zenon
  <2> QED
    BY <1>5, <2>3, <2>4, TrimSorted
<1>6. CASE from <= to /\ last_sync_block' = to /\ UNCHANGED blocks
  BY <1>3, <1>4, <1>6
<1>7. CASE UNCHANGED <<last_sync_block, blocks>>
  BY <1>3, <1>7
<1> QED
  BY <1>5, <1>6, <1>7 DEF SyncBlock, B

\* Every step keeps the mirror sorted and below last_sync_block.
LEMMA SortedStep == IInv /\ [Next]_vars => SortedH(blocks') /\ BelowH(blocks', last_sync_block')
<1> SUFFICES ASSUME IInv, [Next]_vars
             PROVE  SortedH(blocks') /\ BelowH(blocks', last_sync_block')
  OBVIOUS
<1> USE DEF node, bvars, gvars
<1>1. SortedH(blocks) /\ BelowH(blocks, last_sync_block)
  BY SortedDefs DEF IInv
<1>2. SortedH(<< >>) /\ \A x : BelowH(<< >>, x)
  BY DEF SortedH, BelowH
<1>3. TypeOK
  BY DEF IInv
<1>4. CASE UNCHANGED <<blocks, last_sync_block>>
  BY <1>1, <1>4
<1>5. CASE NodeStep \/ DashboardLoad \/ ReloadGroupsTable \/ SyncGroupLater
          \/ \E i \in 1..Len(pending) : DashboardError(i) \/ DashboardBad(i)
  BY <1>4, <1>5 DEF NodeStep, DashboardLoad, ReloadGroupsTable, SyncGroupLater,
                    DashboardError, DashboardBad
<1>6. ASSUME NEW i \in 1..Len(pending), DashboardSuccess(i)
      PROVE  SortedH(blocks') /\ BelowH(blocks', last_sync_block')
  <2>1. last_sync_block' = last_sync_block
        /\ (blocks' = << >> \/ blocks' = blocks)
    BY <1>6 DEF DashboardSuccess
  <2> QED
    BY <1>1, <1>2, <2>1
<1>7. CASE ChangeHost
  BY <1>2, <1>7 DEF ChangeHost
<1>8. CASE ReloadBlocksTable
  <2>1. /\ SyncBlock(last_sync_block + 1, current_block_height)
        /\ last_sync_block + 1 \in Int
        /\ last_sync_block + 1 > last_sync_block
        /\ current_block_height \in -1..MaxHeight
    BY <1>3, <1>8 DEF ReloadBlocksTable, TypeOK
  <2> QED
    BY <2>1, SyncBlockSorted
<1>9. CASE SyncBlockLater
  <2>1. current_block_height \in -1..MaxHeight /\ last_sync_block \in -1..MaxHeight
    BY <1>3 DEF TypeOK
  <2>2. CASE /\ Len(blocks) = 0
             /\ SyncBlock(current_block_height - ColdWindow, current_block_height)
    <3>1. blocks = << >>
      BY <1>3, <2>2 DEF TypeOK
    <3> QED
      BY <2>1, <2>2, <3>1, SyncBlockSorted
  <2>3. CASE /\ current_block_height - last_sync_block > CatchUpWindow
             /\ SyncBlock(current_block_height - CatchUpWindow, current_block_height)
    BY <2>1, <2>3, SyncBlockSorted
  <2>4. CASE /\ last_sync_block + 1 <= current_block_height
             /\ SyncBlock(last_sync_block + 1, current_block_height)
    BY <2>1, <2>4, SyncBlockSorted
  <2> QED
    BY <1>9, <2>2, <2>3, <2>4 DEF SyncBlockLater
<1> QED
  BY <1>4, <1>5, <1>6, <1>7, <1>8, <1>9 DEF Next, vars

\* IInv holds in every reachable state.
LEMMA IInvThm == Spec => []IInv
<1>1. Init => IInv
  BY DEF Init, IInv, TypeOK, Epochs, BlocksSorted, BlocksBelowCursor
<1>2. IInv /\ [Next]_vars => IInv'
  BY TypeStep, SortedStep, SortedDefs DEF IInv
<1> QED
  BY <1>1, <1>2, PTL DEF Spec

\* The block mirror that syncBlock fills without de-duplication is in
\* strictly increasing height order in every reachable state, for every
\* capacity and window size: no block is ever held twice.
THEOREM BlocksSortedThm == Spec => []BlocksSorted
<1>1. IInv => BlocksSorted
  BY DEF IInv
<1> QED
  BY <1>1, IInvThm, PTL

\* last_sync_block is at or above every mirrored height in every reachable
\* state, for every capacity and window: a steady or catch-up fetch, which
\* starts above last_sync_block, never re-fetches a block the mirror holds,
\* and the resets of change_host and of a restart seen by GTAS_dashboard
\* empty the mirror without lowering the cursor.
THEOREM BlocksBelowCursorThm == Spec => []BlocksBelowCursor
<1>1. IInv => BlocksBelowCursor
  BY DEF IInv
<1> QED
  BY <1>1, IInvThm, PTL

-----------------------------------------------------------------------------
(* The group mirror stays sorted.                                          *)

\* The groups syncGroup pushes are in strictly increasing height order,
\* between the requested height and the highest height returned.
LEMMA PickedHeights ==
    ASSUME TypeOK, NEW height \in Nat,
           NEW idx \in Enumerations({i \in DOMAIN GroupsAfter(height) :
                                       GroupsAfter(height)[i] \notin groupIds},
                                    Len(GroupsAfter(height)))
    PROVE  LET ret    == GroupsAfter(height)
               picked == [k \in DOMAIN idx |-> ret[idx[k]]]
           IN  /\ picked \in Seq(GroupKey)
               /\ SortedH(picked)
               /\ \A k \in 1..Len(picked) :
                     /\ height <= picked[k].h
                     /\ picked[k].h <= height + Len(ret) - 1
<1> DEFINE ret    == GroupsAfter(height)
           picked == [k \in DOMAIN idx |-> ret[idx[k]]]
<1>1. /\ ret \in Seq(GroupKey)
      /\ \A i \in 1..Len(ret) : ret[i].h = height + i - 1
  BY GroupsAfterFacts
<1>2. PICK n \in 0..Len(ret) : idx \in [1..n -> 1..Len(ret)]
  BY DEF Enumerations
<1>3. \A a, b \in 1..n : a < b => idx[a] < idx[b]
  BY <1>2 DEF Enumerations
<1> HIDE DEF ret
<1>4. picked \in [1..n -> GroupKey]
  BY <1>1, <1>2, ElementOfSeq
<1>5. picked \in Seq(GroupKey) /\ Len(picked) = n
  BY <1>4, FunIsSeq
<1>6. \A k \in 1..n : picked[k].h = height + idx[k] - 1 /\ idx[k] \in 1..Len(ret)
  <2> SUFFICES ASSUME NEW k \in 1..n
               PROVE  picked[k].h = height + idx[k] - 1 /\ idx[k] \in 1..Len(ret)
    OBVIOUS
  <2>1. idx[k] \in 1..Len(ret) /\ picked[k] = ret[idx[k]]
    BY <1>2
  <2> QED
    BY <1>1, <2>1
<1>7. SortedH(picked)
  <2> SUFFICES ASSUME NEW a \in 1..n, NEW b \in 1..n, a < b
               PROVE  picked[a].h < picked[b].h
    BY <1>5 DEF SortedH
  <2>1. idx[a] < idx[b]
    BY <1>3
  <2>2. picked[a].h = height + idx[a] - 1 /\ picked[b].h = height + idx[b] - 1
    BY <1>6
  <2>3. idx[a] \in 1..Len(ret) /\ idx[b] \in 1..Len(ret)
    BY <1>2
  <2> QED
    BY <2>1, <2>2, <2>3, SMTT(60)
<1>8. \A k \in 1..Len(picked) :
         height <= picked[k].h /\ picked[k].h <= height + Len(ret) - 1
  BY <1>5, <1>6
<1> QED
  BY <1>5, <1>7, <1>8 DEF ret

\* One syncGroup call from above last_sync_group, or into an empty mirror,
\* keeps the group mirror sorted and at or below the group cursor.
LEMMA SyncGroupSorted ==
    ASSUME TypeOK, SortedH(groups), BelowH(groups, last_sync_group),
           NEW height \in Nat, SyncGroup(height),
           groups = << >> \/ height > last_sync_group
    PROVE  SortedH(groups') /\ BelowH(groups', last_sync_group')
<1> DEFINE ret    == GroupsAfter(height)
           unseen == {i \in DOMAIN ret : ret[i] \notin groupIds}
<1>1. /\ ret \in Seq(GroupKey)
      /\ \A i \in 1..Len(ret) : ret[i].h = height + i - 1
  BY GroupsAfterFacts
<1>2. /\ groups \in Seq(GroupKey)
      /\ last_sync_group \in Int
      /\ \A i \in 1..Len(groups) : groups[i].h \in Int
  <2>1. groups \in Seq(GroupKey) /\ last_sync_group \in Int
    BY DEF TypeOK
  <2>2. \A i \in 1..Len(groups) : groups[i] \in GroupKey
    BY <2>1, ElementOfSeq
  <2> QED
    BY <2>1, <2>2 DEF GroupKey
<1>3. CASE /\ \E idx \in Enumerations(unseen, Len(ret)) :
                 groups' = Trim(groups \o [k \in DOMAIN idx |-> ret[idx[k]]])
           /\ last_sync_group' =
                 IF Len(ret) > 0 /\ ret[Len(ret)].h > last_sync_group
                 THEN ret[Len(ret)].h ELSE last_sync_group
  <2>1. PICK idx \in Enumerations(unseen, Len(ret)) :
            groups' = Trim(groups \o [k \in DOMAIN idx |-> ret[idx[k]]])
    BY <1>3
  <2> DEFINE picked == [k \in DOMAIN idx |-> ret[idx[k]]]
  <2>2. /\ picked \in Seq(GroupKey)
        /\ SortedH(picked)
        /\ \A k \in 1..Len(picked) :
              /\ height <= picked[k].h
              /\ picked[k].h <= height + Len(ret) - 1
    BY <2>1, PickedHeights
  <2> HIDE DEF picked
  <2>3. /\ last_sync_group' \in Int
        /\ last_sync_group <= last_sync_group'
        /\ Len(ret) > 0 => height + Len(ret) - 1 <= last_sync_group'
    BY <1>1, <1>2, <1>3
  <2>8. \A k \in 1..Len(picked) : picked[k].h \in Int
    <3> SUFFICES ASSUME NEW k \in 1..Len(picked) PROVE picked[k].h \in Int
      OBVIOUS
    <3>1. picked[k] \in GroupKey
      BY <2>2, ElementOfSeq
    <3> QED
      BY <3>1 DEF GroupKey
  <2>4. BelowH(groups, last_sync_group') /\ BelowH(picked, last_sync_group')
    <3>1. BelowH(groups, last_sync_group')
      BY <1>2, <2>3 DEF BelowH
    <3>2. SUFFICES ASSUME NEW k \in 1..Len(picked)
                   PROVE  picked[k].h <= last_sync_group'
      BY <3>1 DEF BelowH
    <3>3. height <= picked[k].h /\ picked[k].h <= height + Len(ret) - 1
      BY <2>2
    <3>4. Len(ret) > 0
      BY <2>8, <3>3
    <3> QED
      BY <2>3, <2>8, <3>3, <3>4
  <2>5. \A i \in 1..Len(groups), j \in 1..Len(picked) : groups[i].h < picked[j].h
    <3> SUFFICES ASSUME NEW i \in 1..Len(groups), NEW j \in 1..Len(picked)
                 PROVE  groups[i].h < picked[j].h
      OBVIOUS
    <3>1. groups # << >>
      BY <1>2
    <3>2. height > last_sync_group
      BY <3>1, Zenon
    <3>3. groups[i].h <= last_sync_group
      BY DEF BelowH
    <3>4. height <= picked[j].h
      BY <2>2
    <3> QED
      BY <1>2, <2>8, <3>2, <3>3, <3>4
  <2>6. SortedH(groups \o picked) /\ BelowH(groups \o picked, last_sync_group')
    BY <1>2, <2>2, <2>4, <2>5, ConcatSorted
  <2>7. groups \o picked \in Seq(GroupKey)
    BY <1>2, <2>2, ConcatProperties
  <2> QED
    BY <2>1, <2>6, <2>7, TrimSorted DEF picked
<1>4. CASE UNCHANGED <<groups, groupIds, last_sync_group>>
  BY <1>4
<1> QED
  BY <1>3, <1>4 DEF SyncGroup

\* The strengthening, as for the blocks: every mirrored group is at or below
\* the group cursor, so a fetch from above the cursor lands above them all.
GroupsBelowCursor == BelowH(groups, last_sync_group)

SInv == TypeOK /\ GroupsSorted /\ GroupsBelowCursor

\* Every step keeps the group mirror sorted and below last_sync_group.
LEMMA GroupsSortedStep ==
    SInv /\ [Next]_vars => SortedH(groups') /\ BelowH(groups', last_sync_group')
<1> SUFFICES ASSUME SInv, [Next]_vars
             PROVE  SortedH(groups') /\ BelowH(groups', last_sync_group')
  OBVIOUS
<1> USE DEF node, bvars, gvars
<1>1. TypeOK /\ SortedH(groups) /\ BelowH(groups, last_sync_group)
  BY DEF SInv, GroupsSorted, GroupsBelowCursor, SortedH
<1>2. SortedH(<< >>) /\ \A x : BelowH(<< >>, x)
  BY DEF SortedH, BelowH
<1>3. CASE UNCHANGED <<groups, last_sync_group>>
  BY <1>1, <1>3
<1>4. CASE NodeStep \/ DashboardLoad \/ ReloadBlocksTable \/ SyncBlockLater
          \/ ChangeHost
          \/ \E i \in 1..Len(pending) : DashboardError(i) \/ DashboardBad(i)
  BY <1>3, <1>4 DEF NodeStep, DashboardLoad, ReloadBlocksTable, SyncBlockLater,
                    ChangeHost, DashboardError, DashboardBad
<1>5. ASSUME NEW i \in 1..Len(pending), DashboardSuccess(i)
      PROVE  SortedH(groups') /\ BelowH(groups', last_sync_group')
  <2>1. last_sync_group' = last_sync_group
        /\ (groups' = << >> \/ groups' = groups)
    BY <1>5 DEF DashboardSuccess
  <2> QED
    BY <1>1, <1>2, <2>1
<1>6. CASE ReloadGroupsTable
  <2>1. last_sync_group + 1 \in Nat /\ last_sync_group + 1 > last_sync_group
    BY <1>1, <1>6 DEF ReloadGroupsTable, TypeOK
  <2> QED
    BY <1>1, <1>6, <2>1, SyncGroupSorted DEF ReloadGroupsTable
<1>7. CASE SyncGroupLater
  <2> DEFINE cold == IF current_group_height > CatchUpWindow
                     THEN current_group_height - CatchUpWindow ELSE 0
  <2>1. cold \in Nat /\ last_sync_group + 1 \in Nat
        /\ last_sync_group + 1 > last_sync_group
    BY <1>1 DEF TypeOK
  <2>2. CASE Len(groups) = 0 /\ SyncGroup(cold)
    <3>1. groups = << >>
      BY <1>1, <2>2 DEF TypeOK
    <3> QED
      BY <1>1, <2>1, <2>2, <3>1, SyncGroupSorted
  <2>3. CASE SyncGroup(last_sync_group + 1)
    BY <1>1, <2>1, <2>3, SyncGroupSorted
  <2> QED
    BY <1>7, <2>2, <2>3 DEF SyncGroupLater
<1> QED
  BY <1>3, <1>4, <1>5, <1>6, <1>7 DEF Next, vars

\* SInv holds in every reachable state.
LEMMA SInvThm == Spec => []SInv
<1>1. Init => SInv
  BY DEF Init, SInv, TypeOK, Epochs, GroupsSorted, GroupsBelowCursor, BelowH
<1>2. SInv /\ [Next]_vars => SInv'
  BY TypeStep, GroupsSortedStep DEF SInv, GroupsSorted, GroupsBelowCursor, SortedH
<1> QED
  BY <1>1, <1>2, PTL DEF Spec

\* The group mirror that syncGroup fills in the order the node returns is
\* in strictly increasing height order in every reachable state, for every
\* capacity and window: a restarted chain whose group ids are new to
\* groupIds never puts a group below or beside one the mirror holds,
\* because every fetch into a non-empty mirror starts above
\* last_sync_group, which the restart resets leave in place.
THEOREM GroupsSortedThm == Spec => []GroupsSorted
<1>1. SInv => GroupsSorted
  BY DEF SInv
<1> QED
  BY <1>1, SInvThm, PTL
=============================================================================
