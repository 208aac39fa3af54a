------------------------------ MODULE TasSync ------------------------------
(***************************************************************************)
(* The synchronisation engine of the dashboard, src/cmd/gtas/fronted/js/   *)
(* tas.js: the mirrors of the remote block and group sequences (blocks,    *)
(* groups, groupIds), their cursors (current_block_height and the like),  *)
(* GTAS_dashboard status probe whose responses arrive asynchronously and   *)
(* in any order, and the reset of the mirrors that the probe decides from  *)
(* the text of the node-status cell.  The remote node is the environment:  *)
(* it grows its chain, crashes and restarts, either on the same chain or   *)
(* on a fresh one.                                                         *)
(*                                                                         *)
(* GTAS_getBlocks and GTAS_getGroupsAfter are sent with async:false: the   *)
(* browser runs nothing else until they answer, so a call and its success  *)
(* handler are one step.  GTAS_dashboard is asynchronous: sending it and   *)
(* handling its answer are two steps, with other steps in between.         *)
(*                                                                         *)
(* Block hashes and group ids are abstracted to [e |-> chain, h |->        *)
(* height]: two blocks are equal iff they are the same height of the same  *)
(* chain.  A fresh chain after a restart gets a new chain number.          *)
(***************************************************************************)
EXTENDS Integers, Sequences, FiniteSets

CONSTANTS
    Cap,            \* capacity of the blocks and groups arrays (100 in tas.js)
    ColdWindow,     \* blocks fetched below the tip on a cold start (20)
    CatchUpWindow,  \* block gap that triggers a catch-up, and its window (100)
    MaxHeight,      \* bound on the remote block height
    MaxGroupHeight, \* bound on the remote group height
    MaxEpoch,       \* bound on the number of fresh chains the node starts
    MaxBoot,        \* bound on the number of node restarts
    MaxInflight     \* bound on GTAS_dashboard requests awaiting an answer

ASSUME TasSyncAssumption ==
    /\ Cap \in Nat \ {0}
    /\ ColdWindow \in Nat
    /\ CatchUpWindow \in Nat
    /\ MaxHeight \in Nat
    /\ MaxGroupHeight \in Nat
    /\ MaxEpoch \in Nat
    /\ MaxBoot \in Nat
    /\ MaxInflight \in Nat \ {0}

\* Texts of the #tb_node_status cell: "运行中", "已停止", and its text
\* before the first answer.
Running == "running"
Stopped == "stopped"
Unknown == "unknown"

Epochs   == 0..MaxEpoch
BlockKey == [e : Epochs, h : 0..MaxHeight]
GroupKey == [e : Epochs, h : 0..MaxGroupHeight]

\* An answer to GTAS_dashboard: "ok" carries result.data, "error" is the
\* ajax error callback, "bad" is a reply without result (an error field).
Answer == [kind : {"ok", "error", "bad"}, block_height : 0..MaxHeight,
           group_height : 0..MaxGroupHeight, status : {Running},
           boot : 0..MaxBoot]

VARIABLES
    rUp, rBoot, rEpoch, rHeight, rGroupHeight,  \* the remote node
    current_block_height, last_sync_block, blocks,
    current_group_height, last_sync_group, groups, groupIds,
    tb_node_status,                             \* text of #tb_node_status
    pending,                                    \* GTAS_dashboard answers in flight
    seenBoot                                    \* boot of the last applied answer

node   == <<rUp, rBoot, rEpoch, rHeight, rGroupHeight>>
bvars  == <<current_block_height, last_sync_block, blocks>>
gvars  == <<current_group_height, last_sync_group, groups, groupIds>>
vars   == <<node, bvars, gvars, tb_node_status, pending, seenBoot>>

TypeOK ==
    /\ rUp \in BOOLEAN
    /\ rBoot \in 0..MaxBoot
    /\ rEpoch \in Epochs
    /\ rHeight \in 0..MaxHeight
    /\ rGroupHeight \in 0..MaxGroupHeight
    /\ current_block_height \in -1..MaxHeight
    /\ last_sync_block \in -1..MaxHeight
    /\ blocks \in Seq(BlockKey) /\ Len(blocks) <= Cap
    /\ current_group_height \in -1..MaxGroupHeight
    /\ last_sync_group \in -1..MaxGroupHeight
    /\ groups \in Seq(GroupKey) /\ Len(groups) <= Cap
    /\ groupIds \in SUBSET GroupKey
    /\ tb_node_status \in {Running, Stopped, Unknown}
    /\ pending \in Seq(Answer) /\ Len(pending) <= MaxInflight
    /\ seenBoot \in 0..MaxBoot

-----------------------------------------------------------------------------
(* Helpers on sequences.                                                   *)

\* Mutant: the shift() after the push is lost.
TrimKeepAll(s) == s

\* The loop "push; if (length > 100) shift()" keeps the newest Cap entries.
Trim(s) == IF Len(s) > Cap THEN SubSeq(s, Len(s) - Cap + 1, Len(s)) ELSE s

RemoveAt(s, i) == SubSeq(s, 1, i - 1) \o SubSeq(s, i + 1, Len(s))

\* The strictly increasing enumerations of the positions P of a sequence of
\* length m: there is exactly one, and s restricted along it is the
\* subsequence of s at P, in order.
Enumerations(P, m) ==
    { idx \in UNION {[1..n -> 1..m] : n \in 0..m} :
        /\ \A a, b \in DOMAIN idx : a < b => idx[a] < idx[b]
        /\ {idx[k] : k \in DOMAIN idx} = P }

-----------------------------------------------------------------------------
(* The remote node.                                                        *)

\* Blocks from..to that exist, in height order (GTAS_getBlocks).
BlocksIn(from, to) ==
    LET top == IF to < rHeight THEN to ELSE rHeight
    IN  [i \in 1..(top - from + 1) |-> [e |-> rEpoch, h |-> from + i - 1]]

\* Groups of height >= height, in height order (GTAS_getGroupsAfter).
GroupsAfter(height) ==
    [i \in 1..(rGroupHeight - height + 1) |-> [e |-> rEpoch, h |-> height + i - 1]]

OkAnswer  == [kind |-> "ok", block_height |-> rHeight,
              group_height |-> rGroupHeight, status |-> Running, boot |-> rBoot]
ErrAnswer == [kind |-> "error", block_height |-> 0, group_height |-> 0,
              status |-> Running, boot |-> 0]
BadAnswer == [kind |-> "bad", block_height |-> 0, group_height |-> 0,
              status |-> Running, boot |-> 0]

NodeGrow ==
    /\ rUp /\ rHeight < MaxHeight
    /\ rHeight' = rHeight + 1
    /\ UNCHANGED <<rUp, rBoot, rEpoch, rGroupHeight>>

NodeGroupGrow ==
    /\ rUp /\ rGroupHeight < MaxGroupHeight
    /\ rGroupHeight' = rGroupHeight + 1
    /\ UNCHANGED <<rUp, rBoot, rEpoch, rHeight>>

NodeCrash ==
    /\ rUp
    /\ rUp' = FALSE
    /\ UNCHANGED <<rBoot, rEpoch, rHeight, rGroupHeight>>

\* The node process starts again, on the chain it had or on a fresh one.
NodeRestart ==
    /\ ~rUp /\ rBoot < MaxBoot
    /\ rUp' = TRUE
    /\ rBoot' = rBoot + 1
    /\ \/ UNCHANGED <<rEpoch, rHeight, rGroupHeight>>
       \/ /\ rEpoch < MaxEpoch
          /\ rEpoch' = rEpoch + 1
          /\ rHeight' = 0
          /\ rGroupHeight' = 0

NodeStep ==
    /\ NodeGrow \/ NodeGroupGrow \/ NodeCrash \/ NodeRestart
    /\ UNCHANGED <<bvars, gvars, tb_node_status, pending, seenBoot>>

-----------------------------------------------------------------------------
(* The block stream.                                                       *)

\* Mutant: the cursor is moved to the start of the fetched range.
SyncBlockCursorAtFrom(from0, to0) ==
    LET from == IF from0 < 0 THEN 0 ELSE from0
        to   == IF to0 < 0 THEN 0 ELSE to0
    IN  /\ from <= to
        /\ \/ /\ rUp
              /\ last_sync_block' = from
              /\ blocks' = Trim(blocks \o BlocksIn(from, to))
           \/ /\ rUp
              /\ last_sync_block' = from
              /\ UNCHANGED blocks
           \/ UNCHANGED <<last_sync_block, blocks>>

\* syncBlock(from, to): clamp, return if from > to, else one synchronous
\* GTAS_getBlocks.  Any result moves last_sync_block to `to`; only a
\* "success" result is pushed, trimming the array to Cap.
SyncBlock(from0, to0) ==
    LET from == IF from0 < 0 THEN 0 ELSE from0
        to   == IF to0 < 0 THEN 0 ELSE to0
    IN  /\ from <= to
        /\ \/ /\ rUp
              /\ last_sync_block' = to
              /\ blocks' = Trim(blocks \o BlocksIn(from, to))
           \/ /\ rUp
              /\ last_sync_block' = to
              /\ UNCHANGED blocks
           \/ UNCHANGED <<last_sync_block, blocks>>

\* Mutant: the steady fetch waits for a gap of two heights.
ReloadBlocksTableShort ==
    /\ last_sync_block + 1 < current_block_height
    /\ SyncBlock(last_sync_block + 1, current_block_height)
    /\ UNCHANGED <<node, current_block_height, gvars, tb_node_status,
                   pending, seenBoot>>

\* Mutant: the steady range starts at last_sync_block instead of one above.
ReloadBlocksTableFromLast ==
    /\ last_sync_block + 1 <= current_block_height
    /\ SyncBlock(last_sync_block, current_block_height)
    /\ UNCHANGED <<node, current_block_height, gvars, tb_node_status,
                   pending, seenBoot>>

\* The 2 s interval set when the block tab opens.
ReloadBlocksTable ==
    /\ last_sync_block + 1 <= current_block_height
    /\ SyncBlock(last_sync_block + 1, current_block_height)
    /\ UNCHANGED <<node, current_block_height, gvars, tb_node_status,
                   pending, seenBoot>>

\* The 10 ms timeout set when the block tab opens.
SyncBlockLater ==
    /\ \/ /\ Len(blocks) = 0
          /\ SyncBlock(current_block_height - ColdWindow, current_block_height)
       \/ /\ Len(blocks) # 0
          /\ current_block_height - last_sync_block > CatchUpWindow
          /\ SyncBlock(current_block_height - CatchUpWindow, current_block_height)
       \/ /\ Len(blocks) # 0
          /\ current_block_height - last_sync_block <= CatchUpWindow
          /\ last_sync_block + 1 <= current_block_height
          /\ SyncBlock(last_sync_block + 1, current_block_height)
    /\ UNCHANGED <<node, current_block_height, gvars, tb_node_status,
                   pending, seenBoot>>

-----------------------------------------------------------------------------
(* The group stream.                                                       *)

\* syncGroup(height): one synchronous GTAS_getGroupsAfter.  On "success"
\* every returned group whose id is not in groupIds is pushed (trimming to
\* Cap) and its id recorded; last_sync_group rises to the highest height
\* returned.  Ids of evicted groups stay in groupIds.
SyncGroup(height) ==
    \/ /\ rUp
       /\ LET ret == GroupsAfter(height)
              unseen == {i \in DOMAIN ret : ret[i] \notin groupIds}
          IN  /\ \E idx \in Enumerations(unseen, Len(ret)) :
                    groups' = Trim(groups \o [k \in DOMAIN idx |-> ret[idx[k]]])
              /\ groupIds' = groupIds \cup {ret[i] : i \in DOMAIN ret}
              /\ last_sync_group' =
                    IF Len(ret) > 0 /\ ret[Len(ret)].h > last_sync_group
                    THEN ret[Len(ret)].h ELSE last_sync_group
    \/ UNCHANGED <<groups, groupIds, last_sync_group>>

\* Mutant: the steady group fetch starts at last_sync_group, not one above.
ReloadGroupsTableFromLast ==
    /\ last_sync_group + 1 <= current_group_height
    /\ SyncGroup(last_sync_group)
    /\ UNCHANGED <<node, bvars, current_group_height, tb_node_status,
                   pending, seenBoot>>

\* The 10 s interval set when the group tab opens.
ReloadGroupsTable ==
    /\ last_sync_group + 1 <= current_group_height
    /\ SyncGroup(last_sync_group + 1)
    /\ UNCHANGED <<node, bvars, current_group_height, tb_node_status,
                   pending, seenBoot>>

\* The 10 ms timeout set when the group tab opens.
SyncGroupLater ==
    /\ \/ /\ Len(groups) = 0
          /\ SyncGroup(IF current_group_height > CatchUpWindow
                       THEN current_group_height - CatchUpWindow ELSE 0)
       \/ /\ Len(groups) # 0
          /\ last_sync_group + 1 <= current_group_height
          /\ SyncGroup(last_sync_group + 1)
    /\ UNCHANGED <<node, bvars, current_group_height, tb_node_status,
                   pending, seenBoot>>

-----------------------------------------------------------------------------
(* The GTAS_dashboard probe.                                               *)

\* dashboardLoad(): the request leaves; the node answers with its state at
\* that moment, or the call fails.
DashboardLoad ==
    /\ Len(pending) < MaxInflight
    /\ \E a \in (IF rUp THEN {OkAnswer, ErrAnswer, BadAnswer} ELSE {ErrAnswer}) :
          pending' = Append(pending, a)
    /\ UNCHANGED <<node, bvars, gvars, tb_node_status, seenBoot>>

\* The success callback with result.data.  The mirrors are cleared when the
\* cell read "已停止" and the node now reports "运行中"; last_sync_block and
\* last_sync_group are left as they are.
DashboardSuccess(i) ==
    LET a     == pending[i]
        clear == tb_node_status = Stopped /\ a.status = Running
    IN  /\ a.kind = "ok"
        /\ pending' = RemoveAt(pending, i)
        /\ current_block_height' = a.block_height
        /\ current_group_height' = a.group_height
        /\ blocks' = IF clear THEN <<>> ELSE blocks
        /\ groups' = IF clear THEN <<>> ELSE groups
        /\ groupIds' = IF clear THEN {} ELSE groupIds
        /\ tb_node_status' = a.status
        /\ seenBoot' = a.boot
        /\ UNCHANGED <<node, last_sync_block, last_sync_group>>

\* The error callback writes "已停止" into the status cell.
DashboardError(i) ==
    /\ pending[i].kind = "error"
    /\ pending' = RemoveAt(pending, i)
    /\ tb_node_status' = Stopped
    /\ UNCHANGED <<node, bvars, gvars, seenBoot>>

\* A reply without result: rdata.result.data throws before any assignment.
DashboardBad(i) ==
    /\ pending[i].kind = "bad"
    /\ pending' = RemoveAt(pending, i)
    /\ UNCHANGED <<node, bvars, gvars, tb_node_status, seenBoot>>

\* The #change_host prompt callback (the new host serves the same node).
ChangeHost ==
    /\ current_block_height' = 0
    /\ blocks' = <<>>
    /\ UNCHANGED <<node, last_sync_block, gvars, tb_node_status, pending,
                   seenBoot>>

-----------------------------------------------------------------------------
Init ==
    /\ rUp \in BOOLEAN
    /\ rBoot = 0
    /\ rEpoch = 0
    /\ rHeight \in 0..MaxHeight
    /\ rGroupHeight \in 0..MaxGroupHeight
    /\ current_block_height = -1
    /\ last_sync_block = -1
    /\ blocks = <<>>
    /\ current_group_height = -1
    /\ last_sync_group = -1
    /\ groups = <<>>
    /\ groupIds = {}
    /\ tb_node_status = Unknown
    /\ pending = <<>>
    /\ seenBoot = 0

Next ==
    \/ NodeStep
    \/ DashboardLoad
    \/ \E i \in 1..Len(pending) :
          DashboardSuccess(i) \/ DashboardError(i) \/ DashboardBad(i)
    \/ ReloadBlocksTable
    \/ SyncBlockLater
    \/ ReloadGroupsTable
    \/ SyncGroupLater
    \/ ChangeHost

Spec == Init /\ [][Next]_vars

-----------------------------------------------------------------------------
(* Properties.                                                             *)

\* The block mirror is in strictly increasing height order, so no block is
\* held twice, although syncBlock pushes without any de-duplication: the
\* cold-start, catch-up and steady fetch ranges, the stale cursor left by a
\* reset or a host change, and a restarted chain never overlap what is
\* already mirrored.
BlocksSorted ==
    \A i, j \in 1..Len(blocks) : i < j => blocks[i].h < blocks[j].h

\* last_sync_block is at or above every mirrored height: the next steady or
\* catch-up fetch, which starts above last_sync_block, cannot re-fetch a
\* mirrored block.  A reset of the mirror (change_host, a restart seen by
\* GTAS_dashboard) empties it without touching last_sync_block.
BlocksBelowCursor ==
    \A i \in 1..Len(blocks) : blocks[i].h <= last_sync_block

\* The group mirror is in strictly increasing height order, although
\* syncGroup never sorts and its groupIds test only keeps out ids already
\* seen: a group of a restarted chain has a new id, so only the steady
\* fetch starting above last_sync_group keeps a same-height group of the
\* new chain out of a mirror that the probe did not reset.  In particular
\* no group is held twice.
GroupsSorted ==
    \A i, j \in 1..Len(groups) : i < j => groups[i].h < groups[j].h

\* Spec 4.5: a probe failure must not discard mirrored history; the mirrors
\* are cleared only when the node process restarted.  A step that handles a
\* GTAS_dashboard answer and empties a mirror applies an answer from a newer
\* boot of the node than the last answer applied.
MirrorsClearedOnlyOnRestart ==
    [][ ( /\ pending' # pending
          /\ \/ blocks # <<>> /\ blocks' = <<>>
             \/ groups # <<>> /\ groups' = <<>> )
        => seenBoot' # seenBoot ]_vars

\* Spec 4.5(b): a newly probed remote height below the highest mirrored
\* height means the node serves a shorter or forked history, and resets the
\* mirror.  A step of the GTAS_dashboard success callback that applies such
\* an answer leaves the block mirror empty.
RegressionResetsMirror ==
    [][\A i \in 1..Len(pending) :
          ( /\ pending[i].kind = "ok"
            /\ pending' = RemoveAt(pending, i)
            /\ \E k \in 1..Len(blocks) : pending[i].block_height < blocks[k].h )
          => blocks' = <<>>]_vars

\* Spec 4.3: merge removes an evicted entry's key from the seen set, so the
\* seen set of the group stream never outgrows the mirror's capacity.
GroupIdsBounded == Cardinality(groupIds) <= Cap

=============================================================================
