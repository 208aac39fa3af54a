---------------------------- MODULE TasDashboard ----------------------------
(***************************************************************************)
(* The synchronisation engine of TasSync driven by the timers of tas.js:   *)
(* the GTAS_dashboard call at load and its 2 s interval (lines 731-735),   *)
(* the #dashboard_update_switch handler (113-121, 738-746), and the tab    *)
(* handler (774-797), which on tab 5 sets a 10 ms timeout for              *)
(* syncBlockLater and a 2 s interval for reloadBlocksTable, on tab 6 the   *)
(* same for groups, and on any other tab clears the interval whose handle  *)
(* it last stored.                                                         *)
(*                                                                         *)
(* An interval is a handle that fires until cleared; clearInterval only    *)
(* reaches the handle stored in blocktable_inter, grouptable_inter or      *)
(* dashboard, so a handle overwritten by a second setInterval keeps        *)
(* firing.  The model counts the live intervals of each kind (blockLive)   *)
(* and records whether the stored handle is one of them (blockHeld).  A    *)
(* firing whose callback returns early changes nothing and is a stutter.   *)
(* layui fires the tab event on every click of a tab title, the active     *)
(* one included.  Tab indices other than 5 and 6 are one value, 0.         *)
(***************************************************************************)
EXTENDS TasSync

CONSTANTS
    MaxTimers,      \* bound on the live intervals and timeouts of each kind
    MaxHostChange   \* bound on the uses of the #change_host prompt

ASSUME TasDashboardAssumption ==
    /\ MaxTimers \in Nat \ {0}
    /\ MaxHostChange \in Nat

Tabs == {0, 5, 6}

VARIABLES
    tab,                        \* index of the active tab
    blockLive, blockHeld,       \* reloadBlocksTable intervals; blocktable_inter live
    blockLater,                 \* syncBlockLater timeouts not yet fired
    groupLive, groupHeld,       \* reloadGroupsTable intervals; grouptable_inter live
    groupLater,                 \* syncGroupLater timeouts not yet fired
    dashLive, dashHeld,         \* dashboardLoad intervals; dashboard live
    dashboard_update_switch,
    loadCall,                   \* the dashboardLoad() call at load is still to run
    hostChanges                 \* uses of #change_host so far

timers == <<tab, blockLive, blockHeld, blockLater, groupLive, groupHeld,
            groupLater, dashLive, dashHeld, dashboard_update_switch,
            loadCall, hostChanges>>
dvars  == <<vars, timers>>

-----------------------------------------------------------------------------
(* Handlers of the page.                                                   *)

\* setInterval(f) stores a new live handle; clearInterval(h) stops the
\* stored handle if it is still live.
SetInterval(live, held) == live' = live + 1 /\ held' = TRUE

ClearInterval(live, held) ==
    /\ live' = IF held THEN live - 1 ELSE live
    /\ held' = FALSE

\* The tab(demo) handler for a click on tab t.
TabClick(t) ==
    /\ tab' = t
    /\ IF t = 5
       THEN /\ blockLive < MaxTimers /\ blockLater < MaxTimers
            /\ blockLater' = blockLater + 1
            /\ SetInterval(blockLive, blockHeld)
       ELSE /\ ClearInterval(blockLive, blockHeld)
            /\ UNCHANGED blockLater
    /\ IF t = 6
       THEN /\ groupLive < MaxTimers /\ groupLater < MaxTimers
            /\ groupLater' = groupLater + 1
            /\ SetInterval(groupLive, groupHeld)
       ELSE /\ ClearInterval(groupLive, groupHeld)
            /\ UNCHANGED groupLater
    /\ UNCHANGED <<vars, dashLive, dashHeld, dashboard_update_switch,
                   loadCall, hostChanges>>

\* A click on #dashboard_update_div: the switch reads the checkbox, which
\* the click may or may not have toggled, then updateDashboardUpdate.
SwitchClick(on) ==
    /\ dashboard_update_switch' = on
    /\ IF on
       THEN dashLive < MaxTimers /\ SetInterval(dashLive, dashHeld)
       ELSE ClearInterval(dashLive, dashHeld)
    /\ UNCHANGED <<vars, tab, blockLive, blockHeld, blockLater, groupLive,
                   groupHeld, groupLater, loadCall, hostChanges>>

\* The #change_host prompt callback.
DashChangeHost ==
    /\ hostChanges < MaxHostChange
    /\ hostChanges' = hostChanges + 1
    /\ ChangeHost
    /\ UNCHANGED <<tab, blockLive, blockHeld, blockLater, groupLive,
                   groupHeld, groupLater, dashLive, dashHeld,
                   dashboard_update_switch, loadCall>>

-----------------------------------------------------------------------------
(* Timer callbacks.                                                        *)

\* The dashboardLoad() call at line 731.
FirstLoad ==
    /\ loadCall
    /\ loadCall' = FALSE
    /\ DashboardLoad
    /\ UNCHANGED <<tab, blockLive, blockHeld, blockLater, groupLive,
                   groupHeld, groupLater, dashLive, dashHeld,
                   dashboard_update_switch, hostChanges>>

\* A live dashboard interval fires.
DashTick ==
    /\ dashLive > 0
    /\ DashboardLoad
    /\ UNCHANGED timers

\* A live reloadBlocksTable or reloadGroupsTable interval fires.
BlockTick ==
    /\ blockLive > 0
    /\ ReloadBlocksTable
    /\ UNCHANGED timers

GroupTick ==
    /\ groupLive > 0
    /\ ReloadGroupsTable
    /\ UNCHANGED timers

\* syncBlockLater and syncGroupLater return without a call when the steady
\* path finds nothing new.
SyncBlockLaterIdle ==
    /\ Len(blocks) # 0
    /\ current_block_height - last_sync_block <= CatchUpWindow
    /\ last_sync_block + 1 > current_block_height

SyncGroupLaterIdle ==
    /\ Len(groups) # 0
    /\ last_sync_group + 1 > current_group_height

\* A pending 10 ms timeout fires once.
BlockLaterFires ==
    /\ blockLater > 0
    /\ blockLater' = blockLater - 1
    /\ SyncBlockLater \/ (SyncBlockLaterIdle /\ UNCHANGED vars)
    /\ UNCHANGED <<tab, blockLive, blockHeld, groupLive, groupHeld,
                   groupLater, dashLive, dashHeld, dashboard_update_switch,
                   loadCall, hostChanges>>

GroupLaterFires ==
    /\ groupLater > 0
    /\ groupLater' = groupLater - 1
    /\ SyncGroupLater \/ (SyncGroupLaterIdle /\ UNCHANGED vars)
    /\ UNCHANGED <<tab, blockLive, blockHeld, blockLater, groupLive,
                   groupHeld, dashLive, dashHeld, dashboard_update_switch,
                   loadCall, hostChanges>>

\* The callback of the GTAS_dashboard answer at position i.
DashboardAnswer(i) ==
    /\ i \in 1..Len(pending)
    /\ DashboardSuccess(i) \/ DashboardError(i) \/ DashboardBad(i)
    /\ UNCHANGED timers

-----------------------------------------------------------------------------
DashInit ==
    /\ Init
    /\ tab = 0
    /\ blockLive = 0 /\ blockHeld = FALSE /\ blockLater = 0
    /\ groupLive = 0 /\ groupHeld = FALSE /\ groupLater = 0
    /\ dashLive = 1 /\ dashHeld = TRUE
    /\ dashboard_update_switch = TRUE
    /\ loadCall = TRUE
    /\ hostChanges = 0

DashNext ==
    \/ NodeStep /\ UNCHANGED timers
    \/ \E t \in Tabs : TabClick(t)
    \/ \E on \in BOOLEAN : SwitchClick(on)
    \/ DashChangeHost
    \/ FirstLoad
    \/ DashTick
    \/ BlockTick
    \/ GroupTick
    \/ BlockLaterFires
    \/ GroupLaterFires
    \/ \E i \in 1..Len(pending) : DashboardAnswer(i)

\* A node that stays up eventually answers one of the dashboard probes with
\* its state, and one of the block fetches with its blocks; the browser
\* fires every pending timeout and completes every request.
DashTickOk   == DashTick /\ pending' = Append(pending, OkAnswer)
BlockTickOk  ==
    /\ BlockTick
    /\ last_sync_block' = current_block_height
    /\ blocks' = Trim(blocks \o BlocksIn(last_sync_block + 1, current_block_height))

DashFairness ==
    /\ SF_dvars(DashTickOk)
    /\ SF_dvars(BlockTickOk)
    /\ WF_dvars(BlockLaterFires)
    /\ WF_dvars(GroupLaterFires)
    /\ \A i \in 1..MaxInflight : WF_dvars(DashboardAnswer(i))

DashSpec == DashInit /\ [][DashNext]_dvars /\ DashFairness

-----------------------------------------------------------------------------
(* Properties.                                                             *)

\* While the block tab stays open, the node stays up and the switch stays
\* on, last_sync_block eventually reaches the node's height and stays
\* there: the dashboard interval brings the height into
\* current_block_height and the reloadBlocksTable interval fetches up to
\* it, whatever answers were in flight and whatever the timeout did.
CatchUpWhileOpen ==
    (<>[](tab = 5 /\ rUp /\ dashboard_update_switch))
        => <>[](last_sync_block >= rHeight)

\* Spec 4.4: switching views cancels the coarse timer of the previous view,
\* so no reloadBlocksTable interval is live while another tab is active.
BlockPollOnlyOnBlockTab == blockLive > 0 => tab = 5

\* Spec 4.5: after a reset the next scheduling tick behaves as a cold
\* start, so while the block tab stays open and the node stays up, the
\* block mirror is not left empty for ever.
MirrorRefilled ==
    (<>[](tab = 5 /\ rUp /\ dashboard_update_switch))
        => []<>(Len(blocks) > 0)
=============================================================================
