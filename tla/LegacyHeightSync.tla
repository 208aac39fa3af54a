-------------------------- MODULE LegacyHeightSync --------------------------
(***************************************************************************)
(* The height probe of the older dashboard, src/cmd/gtas/fronted/js/       *)
(* tas-back.js: syncBlockHeight sends GTAS_blockHeight asynchronously once *)
(* at load and then every second, for ever.  Its success callback sets the *)
(* online flag, resets the cursor current_block_height to 0 when the node  *)
(* reports a lower height, and walks the cursor towards the reported       *)
(* height calling syncBlock once per height, at most 50 heights per answer.*)
(* Its error callback clears the online flag.  The #change_host prompt     *)
(* sets the cursor back to 0.                                              *)
(*                                                                         *)
(* syncBlock's body is commented out, so the cursor is the only state the  *)
(* walk changes.  syncWorkGroupNum and the #block_height text are display  *)
(* only.  Answers arrive in any order: several probes may be in flight.    *)
(* The remote node is the environment: its chain grows, and it crashes and *)
(* restarts on the same chain or on a fresh one starting at height 0.      *)
(***************************************************************************)
EXTENDS Integers, Sequences

CONSTANTS
    Batch,          \* syncBlock calls per answer before the loop returns (50)
    MaxHeight,      \* bound on the remote block height
    MaxBoot,        \* bound on the number of node restarts
    MaxInflight,    \* bound on GTAS_blockHeight requests awaiting an answer
    MaxHostChange   \* bound on the uses of the #change_host prompt

ASSUME LegacyHeightSyncAssumption ==
    /\ Batch \in Nat \ {0}
    /\ MaxHeight \in Nat
    /\ MaxBoot \in Nat
    /\ MaxInflight \in Nat \ {0}
    /\ MaxHostChange \in Nat

\* An answer to GTAS_blockHeight: "ok" carries result.data, "rpcerr" is a
\* reply with an error field and no result, "fail" is the ajax error callback.
Answer == [kind : {"ok", "rpcerr", "fail"}, data : 0..MaxHeight]

VARIABLES
    rUp, rBoot, rHeight,   \* the remote node
    online,                \* the online flag behind #online_flag
    current_block_height,
    pending,               \* GTAS_blockHeight answers in flight
    hostChanges            \* uses of #change_host so far

node == <<rUp, rBoot, rHeight>>
vars == <<node, online, current_block_height, pending, hostChanges>>

TypeOK ==
    /\ rUp \in BOOLEAN
    /\ rBoot \in 0..MaxBoot
    /\ rHeight \in 0..MaxHeight
    /\ online \in BOOLEAN
    /\ current_block_height \in 0..MaxHeight
    /\ pending \in Seq(Answer) /\ Len(pending) <= MaxInflight
    /\ hostChanges \in 0..MaxHostChange

\* Removing the answer at position i from the answers in flight.
RemoveAt(s, i) == SubSeq(s, 1, i - 1) \o SubSeq(s, i + 1, Len(s))

-----------------------------------------------------------------------------
(* The cursor walk of the success callback (lines 452-469).                *)

\* Mutant: the walk returns one height after the 50th syncBlock.
WalkEndPastI(cur, data) ==
    LET base == IF cur > data THEN 0 ELSE cur
    IN  IF base + Batch <= data THEN base + Batch + 1 ELSE data

\* Mutant: the reset of line 452 also fires when the cursor equals the
\* reported height (>= for >).
WalkEndResetAtEqual(cur, data) ==
    LET base == IF cur >= data THEN 0 ELSE cur
    IN  IF base + Batch <= data THEN base + Batch ELSE data

\* The cursor after one answer carrying data: 0 if data is below the cursor;
\* then the loop i = cur+1 .. data counts one syncBlock per height and
\* returns with the cursor at i when the count reaches Batch, else the
\* cursor becomes data.
WalkEnd(cur, data) ==
    LET base == IF cur > data THEN 0 ELSE cur
    IN  IF base + Batch <= data THEN base + Batch ELSE data

-----------------------------------------------------------------------------
(* The remote node (environment, from the spec).                           *)

NodeGrow ==
    /\ rUp /\ rHeight < MaxHeight
    /\ rHeight' = rHeight + 1
    /\ UNCHANGED <<rUp, rBoot>>

NodeCrash ==
    /\ rUp
    /\ rUp' = FALSE
    /\ UNCHANGED <<rBoot, rHeight>>

\* The node starts again on the chain it had, or on a fresh one at height 0.
NodeRestart ==
    /\ ~rUp /\ rBoot < MaxBoot
    /\ rUp' = TRUE
    /\ rBoot' = rBoot + 1
    /\ rHeight' \in {rHeight, 0}

NodeStep ==
    /\ NodeGrow \/ NodeCrash \/ NodeRestart
    /\ UNCHANGED <<online, current_block_height, pending, hostChanges>>

-----------------------------------------------------------------------------
(* syncBlockHeight and its callbacks.                                      *)

\* syncBlockHeight sends GTAS_blockHeight; a node that is up answers with
\* its height.
ProbeOk ==
    /\ Len(pending) < MaxInflight
    /\ rUp
    /\ pending' = Append(pending, [kind |-> "ok", data |-> rHeight])
    /\ UNCHANGED <<node, online, current_block_height, hostChanges>>

\* The same request answered with an error field, or not answered at all
\* (a node that is down, a lost connection).
ProbeFailed ==
    /\ Len(pending) < MaxInflight
    /\ \E k \in (IF rUp THEN {"rpcerr", "fail"} ELSE {"fail"}) :
          pending' = Append(pending, [kind |-> k, data |-> 0])
    /\ UNCHANGED <<node, online, current_block_height, hostChanges>>

SyncBlockHeight == ProbeOk \/ ProbeFailed

\* Mutant: the return after the 50th syncBlock is missing, so the loop runs
\* on to the reported height.
SyncBlockHeightSuccessNoLimit(i) ==
    /\ pending[i].kind = "ok"
    /\ pending' = RemoveAt(pending, i)
    /\ online' = TRUE
    /\ current_block_height' = pending[i].data
    /\ UNCHANGED <<node, hostChanges>>

\* Mutant: the reset of line 452 is missing, so a cursor above the reported
\* height stays where it is.
SyncBlockHeightSuccessNoReset(i) ==
    /\ pending[i].kind = "ok"
    /\ pending' = RemoveAt(pending, i)
    /\ online' = TRUE
    /\ current_block_height' =
          IF current_block_height > pending[i].data THEN current_block_height
          ELSE WalkEnd(current_block_height, pending[i].data)
    /\ UNCHANGED <<node, hostChanges>>

\* The success callback with result.data: online is set, and the cursor
\* walks to WalkEnd.
SyncBlockHeightSuccess(i) ==
    /\ pending[i].kind = "ok"
    /\ pending' = RemoveAt(pending, i)
    /\ online' = TRUE
    /\ current_block_height' = WalkEnd(current_block_height, pending[i].data)
    /\ UNCHANGED <<node, hostChanges>>

\* The success callback with an error field: the result test fails, online
\* is set, and rdata.result.data then throws before the cursor is touched.
SyncBlockHeightRpcError(i) ==
    /\ pending[i].kind = "rpcerr"
    /\ pending' = RemoveAt(pending, i)
    /\ online' = TRUE
    /\ UNCHANGED <<node, current_block_height, hostChanges>>

\* The error callback clears online.
SyncBlockHeightError(i) ==
    /\ pending[i].kind = "fail"
    /\ pending' = RemoveAt(pending, i)
    /\ online' = FALSE
    /\ UNCHANGED <<node, current_block_height, hostChanges>>

\* The callback of the answer at position i.
Deliver(i) ==
    /\ i \in 1..Len(pending)
    /\ \/ SyncBlockHeightSuccess(i)
       \/ SyncBlockHeightRpcError(i)
       \/ SyncBlockHeightError(i)

\* The #change_host prompt callback.
ChangeHost ==
    /\ hostChanges < MaxHostChange
    /\ hostChanges' = hostChanges + 1
    /\ current_block_height' = 0
    /\ UNCHANGED <<node, online, pending>>

-----------------------------------------------------------------------------
Init ==
    /\ rUp \in BOOLEAN
    /\ rBoot = 0
    /\ rHeight \in 0..MaxHeight
    /\ online = FALSE
    /\ current_block_height = 0
    /\ pending = <<>>
    /\ hostChanges = 0

Next ==
    \/ NodeStep
    \/ SyncBlockHeight
    \/ \E i \in 1..Len(pending) : Deliver(i)
    \/ ChangeHost

\* The interval of line 817 is never cleared, and a node that stays up
\* eventually answers one probe with its height; the browser eventually
\* completes every request, oldest first at the latest.
Fairness ==
    /\ SF_vars(ProbeOk)
    /\ \A i \in 1..MaxInflight : WF_vars(Deliver(i))

Spec == Init /\ [][Next]_vars /\ Fairness

-----------------------------------------------------------------------------
(* Properties.                                                             *)

\* One GTAS_blockHeight answer makes at most 50 syncBlock calls: the cursor
\* of the walk in the success callback never moves up by more than Batch in
\* one step, whatever the answer and the cursor were (request volume bound).
BatchBounded ==
    [][current_block_height' <= current_block_height + Batch]_vars

\* If the node eventually stays up, the cursor eventually equals the node's
\* height and stays there: stale answers, resets by lower heights, host
\* changes and the 50-per-answer limit do not keep the walk from the tip.
CursorReachesTip ==
    (<>[]rUp) => <>[](current_block_height = rHeight)

\* The online flag is raised only by an answer that carries a result (spec
\* 4.5 and 7: a protocol error is a failure of the probe).
OnlineOnlyOnResult ==
    [][(~online /\ online') =>
         \E i \in 1..Len(pending) :
            /\ pending[i].kind = "ok"
            /\ pending' = RemoveAt(pending, i)]_vars

\* The cursor falls only on a host change, which sets it to 0, or on an
\* answer that reports a height below it, and then lands at or below that
\* height: line 452 resets it only when the reported height is lower, and
\* the walk of lines 461-469 never passes the reported height.  (Whether
\* that answer is the newest one is another matter: see the next property.)
CursorFallsOnlyToReport ==
    [][current_block_height' < current_block_height =>
         \/ hostChanges' = hostChanges + 1 /\ current_block_height' = 0
         \/ \E i \in 1..Len(pending) :
               /\ pending[i].kind = "ok"
               /\ pending' = RemoveAt(pending, i)
               /\ pending[i].data < current_block_height
               /\ current_block_height' <= pending[i].data]_vars

\* The cursor goes down only on a host change or when the node really
\* serves fewer heights than the cursor (spec 4.5(b) and 8): an answer that
\* was overtaken by a newer one must not pull it back.
CursorDropsOnlyOnRegression ==
    [][current_block_height' < current_block_height =>
         \/ hostChanges' = hostChanges + 1
         \/ rHeight < current_block_height]_vars
=============================================================================
