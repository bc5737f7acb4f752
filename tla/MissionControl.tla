---------------------------- MODULE MissionControl ----------------------------
(***************************************************************************)
(* The overview that all clients share (src/mission_control/mod.rs and     *)
(* handle_mission_control_op in src/ws/sync.rs): whether it is open, and   *)
(* which workspace and tab are highlighted.  A connection handles its      *)
(* operations one after the other; each changes the shared state under its *)
(* lock and broadcasts the result after the lock is released.  Confirm     *)
(* takes the lock twice.  Meanwhile tabs close, open and move to other     *)
(* workspaces with their working directory.  Every tab has one pane.       *)
(***************************************************************************)
EXTENDS Naturals, Sequences

CONSTANTS
    Conns,         \* connections of the sync websocket
    TabOrder,      \* the tabs there may be, in tab_order
    WorkspaceList, \* the workspaces, in order
    None,          \* no tab, the default workspace
    MaxOps,        \* bound: operations
    MaxTabSteps    \* bound: tabs opened, closed or moved

VARIABLES
    open, workspace, selected,   \* MissionControlSnapshot
    present, home,               \* the tabs there are, tab -> its workspace
    active,                      \* the tab of active_pane_id, or None
    confirming,                  \* connections between the two parts of Confirm
    pending,                     \* connection -> broadcasts it still has to make
    seen,                        \* what clients were told last: <<{open}, workspace, selected>>
    ops, tabSteps

mc   == <<open, workspace, selected>>
tabs == <<present, home, tabSteps>>
vars == <<mc, tabs, active, confirming, pending, seen, ops>>

Tabs       == {TabOrder[i] : i \in 1 .. Len(TabOrder)}
Workspaces == {WorkspaceList[i] : i \in 1 .. Len(WorkspaceList)} \cup {None}

\* The position of x in s, 0 if it is not there.
Position(s, x) == IF \E i \in 1 .. Len(s) : s[i] = x
                  THEN CHOOSE i \in 1 .. Len(s) : s[i] = x ELSE 0

Begin(c) == /\ pending[c] = <<>> /\ c \notin confirming
            /\ ops < MaxOps /\ ops' = ops + 1 /\ confirming' = confirming

\* MissionControlToggled, and SelectionChanged, which does not say whether it is open.
Toggled(c)   == pending' = [pending EXCEPT ![c] = <<<<{open'}, workspace', selected'>>>>]
Reselected(c) == pending' = [pending EXCEPT ![c] = <<<<{}, workspace', selected'>>>>]

-----------------------------------------------------------------------------
(* Operations                                                              *)

\* seed_mission_control_selection: the active tab and its workspace.
Seed ==
    IF ~open' \/ active = None THEN UNCHANGED <<workspace, selected>>
    ELSE IF active \in present THEN selected' = active /\ workspace' = home[active]
    ELSE selected' = None /\ UNCHANGED workspace

\* Toggle and Set.
Switch(c, target) ==
    /\ Begin(c)
    /\ open' = target /\ Seed /\ Toggled(c)
    /\ UNCHANGED <<tabs, active, seen>>

\* Up and Down: the next workspace, with no tab of it.
MoveWorkspace(c, up) ==
    /\ Begin(c) /\ open
    /\ LET all == <<None>> \o WorkspaceList
           old == IF Position(all, workspace) = 0 THEN 1 ELSE Position(all, workspace)
           new == IF up THEN (IF old = 1 THEN 1 ELSE old - 1)
                  ELSE (IF old = Len(all) THEN old ELSE old + 1)
       IN workspace' = all[new]
    /\ selected' = None /\ open' = open /\ Reselected(c)
    /\ UNCHANGED <<tabs, active, seen>>

\* navigate_tab_in_workspace: to the next card of the workspace on that side, from the
\* card that adds a tab to the other end; past either end there is that card, None.
Step(left) ==
    LET cards  == {i \in 1 .. Len(TabOrder) : TabOrder[i] \in present /\ home[TabOrder[i]] = workspace}
        beyond == {i \in cards : \A k \in cards :
                                    TabOrder[k] = selected => IF left THEN i < k ELSE i > k}
    IN \/ beyond = {} /\ selected' = None
       \/ \E i \in beyond : /\ selected' = TabOrder[i]
                             /\ \A j \in beyond : IF left THEN j <= i ELSE j >= i

\* Left and Right.
MoveTab(c, left) ==
    /\ Begin(c) /\ open
    /\ Step(left)
    /\ open' = open /\ workspace' = workspace /\ Reselected(c)
    /\ UNCHANGED <<tabs, active, seen>>

Jump(c, w) ==
    /\ Begin(c) /\ open
    /\ workspace' = w /\ selected' = None /\ open' = open /\ Reselected(c)
    /\ UNCHANGED <<tabs, active, seen>>

\* Confirm: the highlighted tab, if it is there, becomes the active one ...
Confirm(c) ==
    /\ pending[c] = <<>> /\ c \notin confirming /\ open
    /\ ops < MaxOps /\ ops' = ops + 1 /\ confirming' = confirming \cup {c}
    /\ active' = IF selected \in present THEN selected ELSE active
    /\ UNCHANGED <<mc, tabs, pending, seen>>

\* ... and, under the lock again, the overview is closed, whatever it is by now.
CloseConfirmed(c) ==
    /\ c \in confirming /\ confirming' = confirming \ {c}
    /\ open' = FALSE /\ UNCHANGED <<workspace, selected>> /\ Toggled(c)
    /\ UNCHANGED <<tabs, active, seen, ops>>

Cancel(c) ==
    /\ Begin(c) /\ open
    /\ open' = FALSE /\ UNCHANGED <<workspace, selected>> /\ Toggled(c)
    /\ UNCHANGED <<tabs, active, seen>>

Broadcast(c) ==
    /\ pending[c] # <<>> /\ pending' = [pending EXCEPT ![c] = <<>>]
    /\ LET msg == pending[c][1]
       IN seen' = IF msg[1] = {} THEN <<seen[1], msg[2], msg[3]>> ELSE msg
    /\ UNCHANGED <<mc, tabs, active, confirming, ops>>

-----------------------------------------------------------------------------
(* The tabs                                                                *)

Open(t, w) ==
    /\ tabSteps < MaxTabSteps /\ tabSteps' = tabSteps + 1
    /\ t \notin present /\ present' = present \cup {t}
    /\ home' = [home EXCEPT ![t] = w] /\ active' = t
    /\ UNCHANGED <<mc, confirming, pending, seen, ops>>

Close(t) ==
    /\ tabSteps < MaxTabSteps /\ tabSteps' = tabSteps + 1
    /\ t \in present /\ present' = present \ {t}
    /\ UNCHANGED <<mc, home, active, confirming, pending, seen, ops>>

\* tab_workspace_id follows the tab's working directory.
ChangeDirectory(t, w) ==
    /\ tabSteps < MaxTabSteps /\ tabSteps' = tabSteps + 1
    /\ t \in present /\ home' = [home EXCEPT ![t] = w]
    /\ UNCHANGED <<mc, present, active, confirming, pending, seen, ops>>

-----------------------------------------------------------------------------
Init ==
    /\ open = FALSE /\ workspace = None /\ selected = None
    /\ present = Tabs /\ home \in [Tabs -> Workspaces] /\ active = TabOrder[1]
    /\ confirming = {} /\ pending = [c \in Conns |-> <<>>] /\ seen = <<{FALSE}, None, None>>
    /\ ops = 0 /\ tabSteps = 0

Next ==
    \/ \E c \in Conns :
          \/ Switch(c, ~open) \/ Switch(c, TRUE)
          \/ \E b \in BOOLEAN : MoveWorkspace(c, b) \/ MoveTab(c, b)
          \/ \E w \in Workspaces : Jump(c, w)
          \/ Confirm(c) \/ CloseConfirmed(c) \/ Cancel(c) \/ Broadcast(c)
    \/ \E t \in Tabs : Close(t) \/ \E w \in Workspaces : Open(t, w) \/ ChangeDirectory(t, w)

Spec == Init /\ [][Next]_vars

-----------------------------------------------------------------------------
(* Properties                                                              *)

\* The highlight, the tabs and the queues hold values of their types.
TypeOK ==
    /\ open \in BOOLEAN /\ workspace \in Workspaces /\ selected \in Tabs \cup {None}
    /\ present \subseteq Tabs /\ home \in [Tabs -> Workspaces]
    /\ active \in Tabs \cup {None}
    /\ confirming \subseteq Conns /\ \A c \in Conns : Len(pending[c]) <= 1

\* Wherever an operation moves the highlight, it is on a card of the workspace that
\* is shown ("so that the keyboard highlight stays on cards the user actually
\* sees"), although tabs move between workspaces all the while.
HighlightIsShown ==
    <<workspace', selected'>> # <<workspace, selected>> =>
        selected' = None \/ home[selected'] = workspace'

=============================================================================
