# TLA+ models of the GTAS dashboard synchronisation engine

This directory holds TLA+ models of the browser dashboard in
`src/cmd/gtas/fronted/js/`, together with TLC configurations and TLAPS proofs.
The dashboard mirrors a remote node's blocks and groups by polling its JSON-RPC
endpoint. The models cover the part of the code with real invariants: the
cursors, the bounded mirrors, the fetch scheduling and the detection of node
restarts. `PROJECT.json` lists every component, run, mutant, mapped source line,
finding, hazard and theorem.

## 1. Inventory of the system

### Sources

| File | Lines | What it holds |
|---|---|---|
| `tas.js` | 798 | The current dashboard: the sync engine for blocks and groups, the `GTAS_dashboard` probe, timers, tab handler, host change, and form glue (wallets, votes, transactions, stake operations). |
| `tas-back.js` | 861 | An older dashboard. A `GTAS_blockHeight` probe with an `online` flag, a regression reset of the height cursor, and a catch-up loop of at most 50 heights per tick. Its `syncBlock` and `syncGroup` bodies are commented out. |
| `tas-ext.js` | 253 | The block and transaction detail queries, and the recent-query list `addRecentQuery`, a de-duplicated FIFO of 10 entries. |

### Components and their state (tas.js)

- **Cursor store** (lines 10-14): `current_block_height` and
  `current_group_height` are the heights the last probe reported.
  `last_sync_block` and `last_sync_group` are the highest heights synced. All
  four start at -1.
- **Bounded mirrors** (lines 17-18, 24): the arrays `blocks` and `groups`, capped
  at 100 by a `shift()` after each `push()`, and the set `groupIds` of group ids
  already pushed.
- **Fetches**:
  - `syncBlock(from, to)` (lines 351-394) is one synchronous `GTAS_getBlocks`.
    A reply with any `result` moves `last_sync_block` to `to`. Only
    `message == "success"` pushes the blocks. Nothing is de-duplicated.
  - `syncGroup(height)` (lines 396-441) is one synchronous
    `GTAS_getGroupsAfter`. It pushes the groups whose id is not in `groupIds`,
    and raises `last_sync_group` to the highest height returned.
- **Scheduler**:
  - `syncBlockLater` (748-757) has three paths. A cold start fetches 20 below
    the tip. A catch-up fetches the last 100 when the gap exceeds 100.
    Otherwise `reloadBlocksTable` (552-556) fetches `last_sync_block+1 ..
    current_block_height`.
  - `syncGroupLater` (759-769) and `reloadGroupsTable` (557-561) do the same for
    groups.
  - The tab handler (774-797) starts these when tab 5 or tab 6 opens: a 10 ms
    timeout and a 2 s or 10 s interval.
- **Liveness monitor**: `dashboardLoad` (563-665) sends an asynchronous
  `GTAS_dashboard` every 2 s (lines 732-746).
  - The success callback computes `clear` from the text of `#tb_node_status`:
    the cell read "stopped" and the node now reports "running". On `clear` it
    empties `blocks`, `groups` and `groupIds` and sets `current_block_height`
    to 0. It then copies the reported heights into the cursors and writes the
    reported status into the cell.
  - The error callback writes "stopped" into the cell.
- **Host change** (124-139): sets `current_block_height` to 0 and empties
  `blocks`. It does not reset `last_sync_block`, `groups` or `groupIds`.

### How the parts interact

The probe is the only asynchronous call. Several probes can be in flight at
once, and their callbacks run in any order between other steps. The fetches use
`async:false`, so a fetch and its callback run as one uninterrupted step. The
probe writes the cursors that the fetches read. The probe's error callback
writes the status cell that its success callback reads to decide a reset.

### Hard behaviours

- Reordered probe answers: an error, then a success, reads as a node restart.
- Node restarts, on the same chain or on a fresh, shorter one.
- Cursors that resets leave stale: `last_sync_block` survives a reset and a host
  change.
- Batches larger than the capacity.
- `groupIds` is never pruned.
- Leaked interval handles when a tab is clicked twice.

## 2. Plan

| Module | Models | State |
|---|---|---|
| `TasSync` | The tas.js engine, probe, host change, and the remote node as environment. | done |
| `TasSyncProofs` | TLAPS: type correctness, the sorted, duplicate-free block mirror, and the sorted, duplicate-free group mirror. | done |
| `LegacyHeightSync`, `LegacyHeightSyncProofs` | tas-back.js `syncBlockHeight`: online flag, regression reset, 50-per-tick loop. Liveness: the cursor reaches the tip. | done |
| `RecentQuery`, `RecentQueryAbstract`, `RecentQueryProofs` | tas-ext.js `queryBlockDetail` and `addRecentQuery`, refining an abstract bounded de-duplicated list. | done |
| `TasDashboard`, `TasDashboardProofs` | TasSync driven by the timers, the tab handler and the dashboard switch, with the interval-handle leak. Liveness of the catch-up; refinement of TasSync. | done |
| `TxDetail`, `QueryPanelAbstract`, `TxDetailProofs` | tas-ext.js `queryTxDetail`: two independent requests per query, each filling its own panel; each panel refines an abstract query panel. | done |

Left for later:

- A group-stream liveness property in `TasDashboard` (`last_sync_group` reaches
  the tip while tab 6 is open).
- The tab handler of `tas-back.js` (826-857). It leaks the dashboard
  interval on a second click of tab 0, the same code shape that `dash_leak`
  shows for tas.js.

## 3. TasSync

### State and actions

The variables `current_block_height`, `last_sync_block`, `blocks`,
`current_group_height`, `last_sync_group`, `groups` and `groupIds` have the
code's names. `tb_node_status` is the text of the status cell. `pending` is the
sequence of probe answers in flight. The remote node is `rUp`, `rBoot`,
`rEpoch`, `rHeight` and `rGroupHeight`. `seenBoot` is a history variable: the
boot number of the last answer applied.

- A block or group is abstracted to `[e |-> chain, h |-> height]`. Two blocks are
  equal exactly when they have the same height on the same chain. A fresh chain
  after a restart gets a new chain number `e`.
- Every handler is one action. `SyncBlock` and `SyncGroup` are the bodies of
  `syncBlock` and `syncGroup`. They appear inside the actions that call them:
  `ReloadBlocksTable`, `SyncBlockLater`, `ReloadGroupsTable` and
  `SyncGroupLater`.
- Each fetch has three outcomes:
  - success;
  - a `result` whose message is not "success" (the cursor moves, nothing is
    pushed);
  - no result or a transport error (nothing changes).
- The group loop pushes the unseen groups of the answer in order. It is written
  with `Enumerations`, the strictly increasing enumeration of the unseen
  positions, rather than `SelectSeq`, so that TLAPS can reason about it.
- `DashboardLoad` appends an answer that is a snapshot of the node when sent.
  A node that is up may answer "ok", an error, or a reply without `result`
  ("bad", which throws at line 574 before any assignment). A node that is down
  only causes the error callback.
- `DashboardSuccess`, `DashboardError` and `DashboardBad` take any answer in
  flight, not only the oldest.
- The node's reported status is always "running". "stopped" only ever comes from
  the error callback, as in the code.
- TasSync lets every timer callback fire in any state. This over-approximates
  the real timer schedule, since each callback only reads the engine's state.
  `TasDashboard` adds the timers, and `DashRefinesEngine` proves that it
  implements TasSync.

### Runs

All runs use `MC_TasSync.tla` with `Cap = 2` (100 in the code),
`ColdWindow = 1` (20), `CatchUpWindow = 2` (100), one restart (`MaxBoot = 1`)
onto the same or a fresh chain (`MaxEpoch = 1`), and two probes in flight
(`MaxInflight = 2`). The windows keep the code's order: the cold window is
smaller than the catch-up window, and the catch-up window equals the capacity.

The passing run checks both streams together:

- **streams** (`MaxHeight = 2`, `MaxGroupHeight = 1`, 3.3M states, about 50 s)
  checks `TypeOK`, `BlocksSorted`, `BlocksBelowCursor` and `GroupsSorted`.
  - `syncGroup` never sorts the groups. They stay in height order only
    because the steady fetch starts one above `last_sync_group`. A restarted
    chain's groups have new ids, so deduplication by id does not keep a
    same-height group out.
  - `GroupsAfter` returns one group per height from the requested height
    up, and every fetch into a non-empty mirror starts above
    `last_sync_group`, the highest height returned so far. So the `groupIds`
    test of line 416 never skips a group in the model, and no property is
    stated about it: that no group is held twice follows from
    `GroupsSorted`.
  - Three blocks (heights 0 to 2) exceed the capacity of 2, so the cold,
    catch-up and steady paths and trimming all occur.
  - Heights 2 and 1 keep the run under a minute. Heights 2 and 2 give 18.8M
    states and take 5 minutes.

Violation runs, one property each:

- **blip** (`MirrorsClearedOnlyOnRestart`): TLC finds two probes in flight.
  The error callback runs first and the cell reads "stopped". The success of the
  same boot then clears both mirrors.
- **fork** (`RegressionResetsMirror`, spec 4.5(b): applying a probe answer
  whose height is below the highest mirrored height resets the mirror). One
  probe in flight, so answers are applied in the order they were taken and a
  lower height can only come from a regressed node. TLC's trace: the mirror
  holds heights 0 and 1; the node crashes and restarts on a fresh chain at
  height 0 with no probe in between, so the cell still reads "running"; the
  next answer reports 0, and the success callback keeps the mirror. It tests
  only the status cell (line 582), never the reported height.
- **seen** (`GroupIdsBounded`): a cold fetch of three groups into a mirror of two
  leaves three ids in `groupIds`.

Each is a finding in `PROJECT.json`: the code departs from spec sections 4.5,
4.5(b) and 4.3.

### Mutants

Each property of a passing run is broken by a plausible bug in the code it is
about:

| Mutant | Breaks |
|---|---|
| the `shift()` dropped (`TrimKeepAll`) | `TypeOK` |
| the steady range starting at `last_sync_block` instead of one above (`ReloadBlocksTableFromLast`) | `BlocksSorted` |
| the cursor moved to `from` instead of `to` (`SyncBlockCursorAtFrom`) | `BlocksBelowCursor` |
| the steady group fetch starting at `last_sync_group` (`ReloadGroupsTableFromLast`) | `GroupsSorted` |

## 4. Proofs (TasSyncProofs)

Assumption: `TasSyncAssumption`. `Cap` and `MaxInflight` are positive naturals,
and the other bounds are naturals.

- **`TypeCorrect`**: `Spec => []TypeOK`. `TypeOK` is inductive on its own.
  - The lemmas `TrimFacts`, `RemoveAtFacts`, `BlocksInFacts`,
    `GroupsAfterFacts` and `FunIsSeq` give the types and lengths of the
    sequence helpers.
  - `SyncBlockType` and `SyncGroupType` cover the two fetch bodies.
  - `TypeStep` has one case per action.
- **`BlocksSortedThm`**: `Spec => []BlocksSorted`. `BlocksSorted` is not
  inductive. A fetch is duplicate-free only because it starts above
  `last_sync_block`, and that helps only if every mirrored height is at most
  `last_sync_block`.
  - The inductive invariant is `IInv == TypeOK /\ BlocksSorted /\
    BlocksBelowCursor`. TLC checks `BlocksBelowCursor` in the streams run.
  - `TrimSorted`: trimming keeps order and upper bounds.
  - `ConcatSorted`: appending a sorted run that starts above the mirror keeps
    it sorted.
  - `SyncBlockSorted`: one `syncBlock` from above the cursor, or into an empty
    mirror, preserves both conjuncts.
  - `SortedStep`: every action calls `syncBlock` that way. The cold start needs
    an empty mirror. The catch-up starts at `cur - 100 > last_sync_block`. The
    steady fetch starts at `last_sync_block + 1`. Resets empty the mirror and
    leave the cursor.

- **`BlocksBelowCursorThm`**: `Spec => []BlocksBelowCursor`, from the same
  invariant (lemma `IInvThm: Spec => []IInv`).
- **`GroupsSortedThm`**: `Spec => []GroupsSorted`. Like `BlocksSorted`, it is
  not inductive. A steady fetch that starts at or below a mirrored height could
  push a group of a restarted chain whose id is new. The inductive invariant is
  `SInv == TypeOK /\ GroupsSorted /\ GroupsBelowCursor`, where
  `GroupsBelowCursor` says that every mirrored group's height is at most
  `last_sync_group`. TLC checked `SInv` on the streams instance before the
  proof was written.
  - `PickedHeights`: the pushed groups are in increasing height order and lie
    in `height .. height + Len(ret) - 1`.
  - `SyncGroupSorted`: one `syncGroup` from above the cursor, or into an empty
    mirror, preserves both conjuncts. It reuses `TrimSorted` and
    `ConcatSorted`.
  - `GroupsSortedStep` has one case per action, and `SInvThm` gives
    `Spec => []SInv`.

The proofs hold for every capacity, window and bound. `tlapm TasSyncProofs.tla`
checks them in about a minute.

Every invariant of the streams run is proved. The violation runs' properties
are false, so there is nothing to prove. Liveness and anything stated with
ENABLED are out of TLAPS's reach and stay with TLC.

## 5. LegacyHeightSync (tas-back.js)

### State and actions

`LegacyHeightSync` models the probe of the older dashboard, `syncBlockHeight`
(tas-back.js 426-476). Its `syncBlock` body is commented out, so the only state
is `online`, the cursor `current_block_height` and the answers in flight
(`pending`). The remote node (`rUp`, `rBoot`, `rHeight`) is an environment
modelled from the spec. It grows, crashes and restarts on its old chain or on a
fresh one at height 0.

- `ProbeOk` and `ProbeFailed` are the asynchronous request. A node that is up
  answers with its height, with an error field ("rpcerr"), or not at all
  ("fail"). A node that is down only causes "fail".
- `SyncBlockHeightSuccess` sets `online` and moves the cursor to
  `WalkEnd(cur, data)`. That is 0 when `data < cur`, then one step per
  `syncBlock` call, stopping after `Batch` calls (50 in the code).
- `SyncBlockHeightRpcError` is a reply with an error field. The success callback
  sets `online` before it tests the result, and then throws at
  `rdata.result.data`.
- `SyncBlockHeightError` clears `online`.
- `ChangeHost` sets the cursor to 0.

Fairness: `SF_vars(ProbeOk)` and `WF_vars(Deliver(i))`. The interval of line 817
is never cleared, so a node that stays up gets probed for ever and eventually
answers one probe. The browser completes every request.

### Runs

- **legacy_probe** (`Batch = 2`, `MaxHeight = 4`, one restart, two probes in
  flight, one host change; 14k states). It checks four properties:
  - `TypeOK`, whose bound `0..MaxHeight` on the cursor says that the walk
    never takes the cursor past the highest height the node reported;
  - `BatchBounded`: no step moves the cursor up by more than `Batch`;
  - `CursorFallsOnlyToReport`: the cursor falls only on a host change (to 0)
    or on an "ok" answer reporting a height below it, and then to at most
    that height. This is the part of spec 4.5(b) the code keeps. The
    violation run legacy_stale shows that the answer need not be the newest
    one;
  - `CursorReachesTip`: if the node eventually stays up, the cursor
    eventually equals its height for ever.

  A height of 4 with a batch of 2 needs two answers to reach the tip.
- **legacy_online** (violation of `OnlineOnlyOnResult`). A reply with an error
  field raises `online`, because line 448 runs before the result test.
- **legacy_stale** (violation of `CursorDropsOnlyOnRegression`). Two "ok"
  answers, 0 and 1, are delivered newest first. The older answer then resets the
  cursor to 0 although the node never regressed.

Mutants: `WalkEndPastI` (the cursor set to `i + 1` at the 50th call) takes
the cursor past the reported tip and breaks `TypeOK`. `SyncBlockHeightSuccessNoLimit` (no `return`
after 50 calls) breaks `BatchBounded`. `SyncBlockHeightSuccessNoReset` (no
reset at line 452) breaks `CursorReachesTip`. `WalkEndResetAtEqual` (`>=`
for `>` at line 452) breaks `CursorFallsOnlyToReport`.

### Proofs (LegacyHeightSyncProofs)

`LegacyTypeCorrect` proves `Spec => []TypeOK`. `BatchBoundedThm` proves
`Spec => BatchBounded`, for every batch size and every bound. It rests on
`WalkEndFacts`: the walk ends in `0..data`, at most `Batch` above the cursor,
and not below the cursor when `data` is not below it.
`CursorFallsOnlyToReportThm` proves `Spec => CursorFallsOnlyToReport`. Lemma
`FallStep` shows that a step lowering the cursor is a host change or the
success callback of an answer with `data < cur`: by `WalkEndFacts`, an answer
with `data >= cur` never lowers it, and the walk never passes `data`.
`TypeOK` is inductive on its own.

`CursorReachesTip` is liveness and stays with TLC.

`WalkEnd` is the loop of lines 461-469 in closed form: from `base + 1` it
counts one call per height and stops at the 50th, so it ends at
`base + Batch` when that is at most `data`, and at `data` otherwise. That the
closed form equals the loop for every input is an induction over the loop
counter, which the provers cannot do (the library's induction theorems take
an operator parameter), so it is argued here and not checked.

## 6. RecentQuery (tas-ext.js)

### State and actions

`RecentQuery` models `queryBlockDetail` (tas-ext.js 45-130), the handlers that
call it, and `addRecentQuery` (12-25). The variables are:

- `recent_query`, the list;
- `query_block_hash`, the text field;
- `detail`, the hash whose details the result panel shows, or `NoDetail`;
- `pending`, the hashes of the requests in flight.

Hashes are model values. The request is asynchronous, and answers arrive in any
order.

- `AddRecentQuery(s, q)` keeps `s` when `q` is in it. Otherwise it shifts out the
  oldest entry when the list holds `RecentCap` (10), then pushes `q`.
- `QueryBlockDetail(h)` writes the field, hides the result and sends the
  request. `QueryBlockBtn`, `RecentQueryClick` and `HashRowClick` call it.
  `EditQueryField` is typing.
- `BlockDetailSuccess(i)` shows the details of `pending[i]` and adds it to the
  list. `BlockDetailFailed(i)` only removes the request.
- The success callback is taken as all or nothing, for a well-formed
  payload. It shows the panel at line 67 before it reads the fields, so a
  payload with `txs` null would throw at line 76 and skip `addRecentQuery`
  (line 125), leaving a shown block outside the list. The node that answers
  `Dev_blockDetail` is not in this repository, so whether that payload can
  occur is not known; `PROJECT.json` lists it as a hazard with no run.
- `lastQueried` and `overlapped` are history variables that the code does not
  keep. They record the hash of the latest `queryBlockDetail` call and whether
  an earlier answer was still outstanding when it was made.

`RecentQueryAbstract` is what the list promises as a set. It holds at most
`RecentCap` hashes, and a hash leaves only to make room for a new one.
`RecentRefines` checks `RecentQuery` against it under the refinement mapping
`recent <- Elems(recent_query)`.

### Runs

The **recent** run uses three hashes, `RecentCap = 2`, three requests in
flight and symmetry over the hashes (778 states). Three hashes overflow a list of
two, and three requests in flight let answers overtake each other. It checks
five properties:

- `TypeOK`;
- `RecentDistinct`;
- `DetailRemembered`: the shown block is in the list;
- `DetailShowsLastQuery`: when the latest query overlapped no earlier
  answer, the panel shows that block or is hidden. This is the hazard at
  tas-ext.js:65 narrowed to where the code gets it right. When queries
  overlap, TLC reaches states where block A's details sit under block B's
  hash. The spec leaves detail views out of its scope, so those states are
  recorded as a hazard and not as a finding;
- `RecentRefines`.

Mutants: `AddRecentQueryLate` (`> 10`) breaks `TypeOK`, and `AddRecentQueryDup`
(no `$.inArray`) breaks `RecentDistinct`. `BlockDetailSuccessFromField` (the hash
read back from the field) breaks `DetailRemembered`. `QueryBlockDetailKeepDetail`
(no hide at line 54) breaks `DetailShowsLastQuery`. `AddRecentQueryEarly`
(trim at 9) evicts an entry from a list that is not full, and breaks the
refinement.

### Proofs (RecentQueryProofs)

- `RecentTypeCorrect`: `Spec => []TypeOK`.
- `InvThm`: `Spec => []IInv` with `IInv == TypeOK /\ Distinct(recent_query) /\
  DetailRemembered`. `DetailRemembered` alone is not inductive. When a full
  list receives a new hash, the proof needs distinctness to know that the
  shifted-out entry is a different hash from the pushed one.
  `RecentDistinctThm` and `DetailRememberedThm` follow from it.
- `RecentRefinesThm`: `Spec => RecentRefines`. The initial list maps to `{}`.
  Every success step maps to `Remember(h)` or to a stutter. `DistinctCard`
  (a distinct sequence has as many elements as its length) turns the length
  test into the cardinality test of the abstract specification.
- `DetailShowsLastQueryThm`: `Spec => []DetailShowsLastQuery`, through `PInv`.
  `PInv` adds to the property that after a query that overlapped nothing,
  every request in flight is for `lastQueried`. Without that conjunct, an
  answer still in flight could carry another block. `RemoveAtAllFor`: an
  answer removes one request and keeps the others.

## 6a. TxDetail (tas-ext.js)

### State and actions

`TxDetail` models `queryTxDetail` (tas-ext.js 133-237), `#query_tx_btn`
(246-251) and the `tx_hash_row` click (40-44).

- `query_tx_hash` is the text field.
- `tx_detail_set` and `tx_receipt_set` are the two panels. Each is the hash
  whose data it shows, or `Hidden`.
- `txInflight` and `receiptInflight` hold the hashes of the
  `Dev_getTransaction` and `Gtas_txReceipt` requests in flight.
- `lastQueried` and `overlapped` are history variables, as in `RecentQuery`.

`QueryTxDetail(h)` writes the field, hides both panels and sends both
requests. `TxDetailSuccess(i)` and `TxReceiptSuccess(i)` each show the hash of
their own request. The failures only remove the request. The failures cover a
message other than "success", an answer without `result` (which throws), and
the ajax error callback. The detail failure alerts; the receipt failure is
silent. The texts of the panels, and the `Type` and `status` labels
(199-230), come from the answer for that hash, so the hash stands for them.

### Run

**tx_panels** uses three hashes, two requests of each method in flight and
symmetry (504 states). It checks three properties:

- `TypeOK`;
- `PanelsShowLastQuery`: when the latest query overlapped no earlier answer,
  each panel shows that transaction or is hidden. So the two panels never
  show different transactions. With overlapping queries, TLC reaches the
  state of hazard tas-ext.js:186: the detail of one transaction beside the
  receipt of another.
- `PanelsRefine`: each panel, seen alone, implements `QueryPanelAbstract`.
  That module is what one panel promises: a query writes the field, hides the
  panel and asks for the hash; an answer may show only a hash that was asked
  for and not yet answered; an answer may settle its request or leave it
  asked (another request for the same hash may still be in flight); an edit
  of the field changes nothing else. The mapping takes the field to
  `query_tx_hash`, the panel to `tx_detail_set` (or `tx_receipt_set`), and the
  asked set to the hashes of `txInflight` (or `receiptInflight`).

Mutants: `QueryTxBtnNoEmptyCheck` (the button without its empty-field test)
sends a request for the empty text and breaks `TypeOK`. `QueryTxDetailKeepReceipt`
(no hide at line 142) leaves an old receipt beside a new transaction and breaks
`PanelsShowLastQuery`. `TxDetailSuccessFromField` (the detail panel filled
from the text field, not from the answer's hash) shows a hash nobody asked
for after an edit, and breaks `PanelsRefine`.

### Proofs (TxDetailProofs)

Assumption `TxDetailAssumption`: `Empty` and `Hidden` are not hashes, and
`MaxInflight` is a positive natural.

- `TxTypeCorrect`: `Spec => []TypeOK`.
- `PanelsShowLastQueryThm`: `Spec => []PanelsShowLastQuery`, through
  `IInv == TypeOK /\ PanelsShowLastQuery /\ Fresh`. `Fresh` says that after a
  query that overlapped nothing, both request lists carry only
  `lastQueried`. The proof has one lemma per kind of step (`QueryInv`,
  `DetailAnswerInv`, `ReceiptAnswerInv`). `RemoveAtFacts` gives the entries
  left after an answer.
- `PanelsRefineThm`: `Spec => PanelsRefine`, proved step by step. The initial
  state maps to the abstract initial state. `DetailStep` and `ReceiptStep`
  show that, under `TypeOK`, every step maps to an abstract step or a
  stutter, one case per action. `RequestedAppend` and `RequestedRemoveAt`
  say how the set of requested hashes changes when a request is sent and
  when one is answered. The proof needs only the type invariant.

## 7. TasDashboard (timers of tas.js)

### State and actions

`TasDashboard` extends `TasSync` with the timers and the handlers that start and
stop them:

- the `dashboardLoad()` call at load (`loadCall`, `FirstLoad`);
- the dashboard interval (`DashTick`);
- the `#dashboard_update_div` handler and `updateDashboardUpdate`
  (`SwitchClick`);
- the tab handler (`TabClick`);
- the two 10 ms timeouts (`BlockLaterFires`, `GroupLaterFires`);
- the two table intervals (`BlockTick`, `GroupTick`).

A browser interval fires until it is cleared, and `clearInterval` reaches only
the handle stored in `blocktable_inter`, `grouptable_inter` or `dashboard`. So
each kind of interval has two variables:

- a count of its live intervals (`blockLive`, `groupLive`, `dashLive`);
- a flag saying whether the stored handle is one of them (`blockHeld`, ...).

A second `setInterval` overwrites the stored handle, and the overwritten
interval keeps firing. Two further details:

- `SwitchClick(on)` reads the checkbox as `on`. The click may or may not have
  toggled it, so a click that leaves it checked sets a second interval.
- A timeout whose callback returns early (`SyncBlockLaterIdle`) only consumes
  the timeout.

Every callback is the TasSync action it calls. `DashChangeHost` bounds the
prompt by `MaxHostChange`.

Assumption: layui's tab event fires on every click of a tab title, including
the active one. Tab indices other than 5 and 6 behave alike and are one value,
0.

Fairness (`DashFairness`):

- every pending timeout fires (WF);
- the browser completes every dashboard request (WF per position);
- a node that stays up eventually answers some probe with its state (SF on
  `DashTickOk`);
- a node that stays up eventually answers some block fetch with its blocks (SF
  on `BlockTickOk`).

Strong fairness is needed because an interval's step can be disabled between
firings, for example when the probe queue is full or no new height has arrived.
Nothing is assumed of the user or of the node's growth.

### Runs

All three runs use the block bounds of `MC_TasSync` with height 2, one probe in
flight, group height 0 and one host change. The node does not restart here;
resets come from the status cell and the host change. Restarts multiply the
state space by about 13 and are covered by the TasSync runs.

- **dash_live** (`MaxTimers = 1`, 231k states, 40 s) checks
  `CatchUpWhileOpen`. If the block tab stays open, the node stays up and the
  switch stays on, `last_sync_block` eventually reaches the node's height for
  good. This is despite error and malformed answers, the one-shot timeout,
  the host change and status resets. With one probe in flight no answer is
  overtaken here; reordered answers are covered by the TasSync runs (two in
  flight gives more than 600k states and does not finish in 5 minutes). With
  one interval of each kind, a second click on the active tab is outside the
  run; a leaked interval only adds firings. The property does not say that
  the mirror is refilled: a stale high `last_sync_block` satisfies it, which
  is what dash_refill shows.
- **dash_leak** (`MaxTimers = 2`, violation of `BlockPollOnlyOnBlockTab`).
  Clicking tab 5, tab 5 again, then another tab leaves a `reloadBlocksTable`
  interval live: a finding against spec 4.4. The same code shape is at line 792
  (groups).
- **dash_refill** (violation of `MirrorRefilled`). With the tab open and the
  node up, the block mirror stays empty for ever. `reloadBlocksTable` tests only
  `last_sync_block + 1 <= current_block_height` and never `blocks.length`. TLC's
  trace has a fetch that answers without "success". The same happens after a
  host change or a status reset, which empty the mirror and keep
  `last_sync_block`. This is a finding against spec 4.5 ("the next scheduling
  tick behaves as cold-start").

Mutant: `ReloadBlocksTableShort` (the steady fetch waits
for a gap of two) breaks `CatchUpWhileOpen`.

### Proofs (TasDashboardProofs)

- `DashRefinesEngine`: `DashSpec => Spec`. Every `DashNext` step is a `Next`
  step of TasSync or leaves the engine's variables unchanged (lemma
  `DashStepIsEngineStep`, one case per action).
- `DashBlocksSorted`: `DashSpec => []BlocksSorted`, from the refinement and
  `BlocksSortedThm`. The sorted-mirror result therefore holds under the real
  timer schedule, for every bound.
- `DashBlocksBelowCursor` and `DashGroupsSorted` carry
  `BlocksBelowCursorThm` and `GroupsSortedThm` over in the same way.

The timer counters have no type invariant of their own: their bounds would
follow from the `MaxTimers` guards and from `ClearInterval`'s definition
whatever the code did, so neither a run nor a theorem states them.

Liveness (`CatchUpWhileOpen`) stays with TLC.

## 8. Not modelled

- The presentation glue: tables, forms, wallets, votes, transactions and stake
  operations, and `queryWorkGroup` of tas.js. Each is one request and one DOM
  update, with no state shared with the engine. Both detail queries of
  `tas-ext.js` are modelled, in `RecentQuery` and `TxDetail`.
- The tab change made by a `tx_hash_row` or `block_table_hash_row` click. It
  fires the tas.js tab handler, which `TasDashboard` models with a click on a
  tab other than 5 or 6. The two modules are not composed, because they share
  no state.
- The timers and tab handler of `tas-back.js` (808-857). Their callbacks only
  write text, except `syncBlockHeight`, whose interval `LegacyHeightSync`
  models as an always-enabled send.
- The text formatting of widgets.
- The remote node's own code (not in `src/`). It is modelled from the spec as
  an environment.
