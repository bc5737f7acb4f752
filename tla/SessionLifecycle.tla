-------------------------- MODULE SessionLifecycle --------------------------
(***************************************************************************)
(* The life of terminal sessions in the server's SessionManager            *)
(* (src/session/manager.rs): how a pane id gets a session, how WebSocket   *)
(* connections join and leave it (src/ws/terminal.rs), how a close is      *)
(* claimed and finished, and how the reaper removes sessions nobody owns.  *)
(* The child processes and the PID ledger are the matter of PidLedger.     *)
(*                                                                         *)
(* Every step below is one critical section of the `lifecycle` mutex (or   *)
(* one access to an atomic or to a per-session lock); everything the code  *)
(* does between two locks can be interleaved with any other task.          *)
(*                                                                         *)
(* A session object (an Arc<Session>) is a generation g \in Gens: the code *)
(* compares generations with Arc::ptr_eq, the model with =.  A layout is   *)
(* the set of the leaf ids it holds.                                       *)
(***************************************************************************)
EXTENDS Naturals, FiniteSets, TLC

CONSTANTS
    Panes,      \* ids of terminal panes
    Widgets,    \* ids of plugin/files/web leaves, which never have a session
    Tabs,       \* tab ids; an implicit singleton tab reuses its pane's id
    Tasks,      \* concurrent requests: HTTP handlers and WebSocket tasks
    NoPane,     \* active_pane_id = None
    MaxGen,     \* bound: session objects ever spawned
    Grace       \* SESSION_UNOWNED_GRACE, in clock ticks

ASSUME PanesAssumption  == /\ Panes \subseteq Tabs
                           /\ Panes \cap Widgets = {}
                           /\ NoPane \notin Panes \cup Widgets
ASSUME BoundsAssumption == MaxGen \in Nat /\ Grace \in Nat \ {0}

Gens   == 1 .. MaxGen
NoGen  == 0
Leaves == Panes \cup Widgets

\* The ages below stop at Grace: the code only compares with it.
NoEntry == Grace + 1
Ages    == 0 .. Grace

VARIABLES
    sessions,      \* pane -> its current generation, or NoGen
    reservations,  \* panes a spawn in progress has reserved
    unowned,       \* pane -> how long unowned_since is past, or NoEntry
    tabs,          \* keys of tab_layouts
    leaves,        \* tab -> leaf ids of its layout ({} for a missing tab)
    active,        \* the global active_pane_id
    minted,        \* ids handed out by Uuid::new_v4
    stage,         \* generation -> where it is between spawn and close
    paneOf,        \* generation -> its pane
    age,           \* generation -> time since publication while it is live
    connected,     \* generation -> Session::is_connected
    exited,        \* generation -> Session::exited
    clients,       \* generation -> tasks with an endpoint in Session::clients
    task,          \* per task: program counter and locals
    candidates     \* generations the current reaper tick still has to try

regVars    == <<sessions, reservations, unowned>>
layoutVars == <<tabs, leaves, active>>
sessVars   == <<stage, paneOf, age, connected, exited, clients>>
allButTask == <<regVars, layoutVars, minted, sessVars, candidates>>
vars       == <<allButTask, task>>

-----------------------------------------------------------------------------
Stages == {"free", "spawned", "aborted", "live", "closing", "closed"}

PCs == {"idle", "upgraded", "missed", "cloned", "mirrored", "validated",
        "attached", "left", "emptied", "creating", "reserved", "spawned",
        "unpublished", "unwound", "published", "current", "unreferenced",
        "inserted"}

IdleTask == [pc |-> "idle", kind |-> "http", pane |-> NoPane,
             tab |-> NoPane, gen |-> NoGen]

Goto(t, pc)    == task' = [task EXCEPT ![t].pc = pc]
Finish(t)      == task' = [task EXCEPT ![t] = IdleTask]
Holds(t, g, S) == task[t].pc \in S /\ task[t].gen = g

Referenced(p) == \E tab \in tabs : p \in leaves[tab]

\* A leaf set with the pane taken out: the tabs it empties are removed and
\* the others keep their remaining leaves (remove_pane_from_layout).
Emptied(p, T)  == {tab \in T : leaves[tab] = {p}}
PurgePane(p, T) ==
    /\ tabs'   = tabs \ Emptied(p, T)
    /\ leaves' = [tab \in Tabs |-> IF tab \in T THEN leaves[tab] \ {p}
                                                ELSE leaves[tab]]

\* Mutant: the tab that carries the pane's own id is skipped.
CollectSkipsOwnTab(p) ==
    /\ PurgePane(p, tabs \ {p})
    /\ active' = IF active = p THEN NoPane ELSE active

CollectLayoutClose(p) ==
    /\ PurgePane(p, tabs)
    /\ active' = IF active = p THEN NoPane ELSE active

InsertTab(tab, L) ==
    /\ tabs'   = tabs \cup {tab}
    /\ leaves' = [leaves EXCEPT ![tab] = L]

RemoveTabs(T) ==
    /\ tabs'   = tabs \ T
    /\ leaves' = [tab \in Tabs |-> IF tab \in T THEN {} ELSE leaves[tab]]

Init ==
    /\ sessions = [p \in Panes |-> NoGen]
    /\ reservations = {}
    /\ unowned = [p \in Panes |-> NoEntry]
    /\ tabs = {}
    /\ leaves = [tab \in Tabs |-> {}]
    /\ active = NoPane
    /\ minted = {}
    /\ stage = [g \in Gens |-> "free"]
    /\ paneOf = [g \in Gens |-> NoPane]
    /\ age = [g \in Gens |-> 0]
    /\ connected = [g \in Gens |-> FALSE]
    /\ exited = [g \in Gens |-> FALSE]
    /\ clients = [g \in Gens |-> {}]
    /\ task = [t \in Tasks |-> IdleTask]
    /\ candidates = {}

-----------------------------------------------------------------------------
(* create_session and create_ssh_session: reserve, spawn, publish.         *)

\* POST /api/tabs: fresh uuids for the tab and for its pane.
StartCreateTab(t) ==
    /\ task[t].pc = "idle"
    /\ \E p \in Panes \ minted, tab \in Tabs \ (minted \cup Panes) :
        /\ minted' = minted \cup {p, tab}
        /\ task' = [task EXCEPT ![t] = [pc |-> "creating", kind |-> "http",
                                        pane |-> p, tab |-> tab,
                                        gen |-> NoGen]]
    /\ UNCHANGED <<regVars, layoutVars, sessVars, candidates>>

\* The shell cannot be resolved: an early return before anything is reserved.
ShellResolveFails(t) ==
    /\ task[t].pc = "creating"
    /\ Finish(t)
    /\ UNCHANGED allButTask

\* Mutant: reservations of other spawns are not looked at.
ReserveIgnoresOthers(t) ==
    LET p == task[t].pane IN
    /\ task[t].pc = "creating"
    /\ IF sessions[p] = NoGen
         THEN /\ reservations' = reservations \cup {p}
              /\ Goto(t, "reserved")
         ELSE /\ Finish(t)
              /\ UNCHANGED reservations
    /\ UNCHANGED <<sessions, unowned, layoutVars, minted, sessVars,
                   candidates>>

ReserveSession(t) ==
    LET p == task[t].pane IN
    /\ task[t].pc = "creating"
    /\ IF sessions[p] = NoGen /\ p \notin reservations
         THEN /\ reservations' = reservations \cup {p}
              /\ Goto(t, "reserved")
         ELSE /\ Finish(t)
              /\ UNCHANGED reservations
    /\ UNCHANGED <<sessions, unowned, layoutVars, minted, sessVars,
                   candidates>>

\* The backend runs and PendingSpawn guards it; the session object starts out
\* as Connected, before any client has come.
SpawnChild(t) ==
    LET p == task[t].pane IN
    /\ task[t].pc = "reserved"
    /\ \E g \in Gens :
        /\ stage[g] = "free"
        /\ \A h \in Gens : h < g => stage[h] # "free"
        /\ stage' = [stage EXCEPT ![g] = "spawned"]
        /\ paneOf' = [paneOf EXCEPT ![g] = p]
        /\ connected' = [connected EXCEPT ![g] = TRUE]
        /\ task' = [task EXCEPT ![t].pc = "spawned", ![t].gen = g]
    /\ UNCHANGED <<regVars, layoutVars, minted, age, exited, clients,
                   candidates>>

\* Mutant: the error path forgets the reservation.
SpawnFailsLeaks(t) ==
    /\ task[t].pc = "reserved"
    /\ Finish(t)
    /\ UNCHANGED allButTask

\* openpty or spawn_command failed: only the reservation has to be dropped.
SpawnFails(t) ==
    /\ task[t].pc = "reserved"
    /\ Goto(t, "unwound")
    /\ UNCHANGED allButTask

\* Mutant: the new generation inherits an unowned_since entry.
PublishKeepsAge(t) ==
    LET p == task[t].pane
        g == task[t].gen IN
    /\ task[t].pc = "spawned"
    /\ sessions[p] = NoGen
    /\ reservations' = reservations \ {p}
    /\ sessions' = [sessions EXCEPT ![p] = g]
    /\ stage' = [stage EXCEPT ![g] = "live"]
    /\ Goto(t, "published")
    /\ UNCHANGED <<unowned, layoutVars, minted, paneOf, age, connected,
                   exited, clients, candidates>>

Publish(t) ==
    LET p == task[t].pane
        g == task[t].gen IN
    /\ task[t].pc = "spawned"
    /\ reservations' = reservations \ {p}
    /\ IF sessions[p] = NoGen
         THEN /\ sessions' = [sessions EXCEPT ![p] = g]
              /\ unowned' = [unowned EXCEPT ![p] = NoEntry]
              /\ stage' = [stage EXCEPT ![g] = "live"]
              /\ Goto(t, "published")
         ELSE /\ Goto(t, "unpublished")
              /\ UNCHANGED <<sessions, unowned, stage>>
    /\ UNCHANGED <<layoutVars, minted, paneOf, age, connected, exited,
                   clients, candidates>>

\* Mutant: the guard is not disarmed by the publication.
RollbackNotDisarmed(t) ==
    /\ task[t].pc \in {"spawned", "published"}
    /\ stage' = [stage EXCEPT ![task[t].gen] = "aborted"]
    /\ Goto(t, "unwound")
    /\ UNCHANGED <<regVars, layoutVars, minted, paneOf, age, connected,
                   exited, clients, candidates>>

\* PendingSpawn::drop after a failure between the spawn and the publication:
\* the child is killed while the reservation is still held (unless publish has
\* consumed it already).
RollbackSpawn(t) ==
    /\ task[t].pc \in {"spawned", "unpublished"}
    /\ stage' = [stage EXCEPT ![task[t].gen] = "aborted"]
    /\ IF task[t].pc = "spawned" THEN Goto(t, "unwound") ELSE Finish(t)
    /\ UNCHANGED <<regVars, layoutVars, minted, paneOf, age, connected,
                   exited, clients, candidates>>

\* SessionReservation::drop while the reservation is still active.
DropReservation(t) ==
    /\ task[t].pc = "unwound"
    /\ reservations' = reservations \ {task[t].pane}
    /\ Finish(t)
    /\ UNCHANGED <<sessions, unowned, layoutVars, minted, sessVars,
                   candidates>>

\* insert_tab_for_session: the new tab is published only while the very
\* session that was created is still the pane's current one.
InsertTabForSession(t) ==
    LET p == task[t].pane IN
    /\ task[t].pc = "published"
    /\ task[t].kind = "http"
    /\ IF sessions[p] = task[t].gen
         THEN InsertTab(task[t].tab, {p}) /\ active' = p
         ELSE UNCHANGED layoutVars
    /\ Finish(t)
    /\ UNCHANGED <<regVars, minted, sessVars, candidates>>

-----------------------------------------------------------------------------
(* The terminal WebSocket: ws_handler, then handle_socket.                 *)

WsUpgrade(t) ==
    /\ task[t].pc = "idle"
    /\ \E p \in Panes :
        /\ Referenced(p)
        /\ task' = [task EXCEPT ![t] = [pc |-> "upgraded", kind |-> "ws",
                                        pane |-> p, tab |-> p, gen |-> NoGen]]
    /\ UNCHANGED allButTask

\* session_for_attach clones the current session under lifecycle.
SessionForAttach(t) ==
    LET g == sessions[task[t].pane] IN
    /\ task[t].pc = "upgraded"
    /\ task' = [task EXCEPT ![t].pc = IF g = NoGen THEN "missed" ELSE "cloned",
                            ![t].gen = g]
    /\ UNCHANGED allButTask

\* No session: a pane that is still in a tab is answered with session_exit,
\* any other one gets a new PTY.
MissedLookup(t) ==
    /\ task[t].pc = "missed"
    /\ IF Referenced(task[t].pane) THEN Finish(t) ELSE Goto(t, "creating")
    /\ UNCHANGED allButTask

MirrorConnected(t) ==
    /\ task[t].pc = "cloned"
    /\ connected' = [connected EXCEPT ![task[t].gen] = TRUE]
    /\ Goto(t, "mirrored")
    /\ UNCHANGED <<regVars, layoutVars, minted, stage, paneOf, age, exited,
                   clients, candidates>>

\* Mutant: a failed attach marks the session that holds the pane now.
RevalidateMarksCurrent(t) ==
    LET h == sessions[task[t].pane] IN
    /\ task[t].pc = "mirrored"
    /\ IF h \in {task[t].gen, NoGen}
         THEN /\ Goto(t, "validated")
              /\ UNCHANGED <<connected, exited>>
         ELSE /\ connected' = [connected EXCEPT ![h] = FALSE]
              /\ exited' = [exited EXCEPT ![h] = TRUE]
              /\ Finish(t)
    /\ UNCHANGED <<regVars, layoutVars, minted, stage, paneOf, age, clients,
                   candidates>>

\* is_current_session, and mark_failed_attach when a close won.
Revalidate(t) ==
    LET g == task[t].gen IN
    /\ task[t].pc = "mirrored"
    /\ IF sessions[task[t].pane] = g
         THEN /\ Goto(t, "validated")
              /\ UNCHANGED <<connected, exited>>
         ELSE /\ connected' = [connected EXCEPT ![g] = FALSE]
              /\ exited' = [exited EXCEPT ![g] = TRUE]
              /\ Finish(t)
    /\ UNCHANGED <<regVars, layoutVars, minted, stage, paneOf, age, clients,
                   candidates>>

\* register_singleton_tab, one step per lifecycle section, after the new
\* session path of handle_socket.  It skips a pane that is no longer current
\* or already has a terminal leaf somewhere.
SingletonCheckCurrent(t) ==
    /\ task[t].pc = "published"
    /\ task[t].kind = "ws"
    /\ Goto(t, IF sessions[task[t].pane] = task[t].gen THEN "current"
                                                       ELSE "validated")
    /\ UNCHANGED allButTask

SingletonCheckReferenced(t) ==
    /\ task[t].pc = "current"
    /\ Goto(t, IF Referenced(task[t].pane) THEN "validated"
                                           ELSE "unreferenced")
    /\ UNCHANGED allButTask

SingletonInsert(t) ==
    /\ task[t].pc = "unreferenced"
    /\ InsertTab(task[t].pane, {task[t].pane})
    /\ Goto(t, "inserted")
    /\ UNCHANGED <<regVars, active, minted, sessVars, candidates>>

SingletonRecheck(t) ==
    LET p == task[t].pane IN
    /\ task[t].pc = "inserted"
    /\ IF sessions[p] = task[t].gen
         THEN UNCHANGED <<tabs, leaves>>
         ELSE RemoveTabs({p})
    /\ Goto(t, "validated")
    /\ UNCHANGED <<regVars, active, minted, sessVars, candidates>>

AddClient(t) ==
    /\ task[t].pc = "validated"
    /\ clients' = [clients EXCEPT ![task[t].gen] = @ \cup {t}]
    /\ Goto(t, "attached")
    /\ UNCHANGED <<regVars, layoutVars, minted, stage, paneOf, age, connected,
                   exited, candidates>>

\* The read loop ended: remove_client, has_clients, set_status(Detached) are
\* three separate steps.
RemoveClient(t) ==
    /\ task[t].pc = "attached"
    /\ clients' = [clients EXCEPT ![task[t].gen] = @ \ {t}]
    /\ Goto(t, "left")
    /\ UNCHANGED <<regVars, layoutVars, minted, stage, paneOf, age, connected,
                   exited, candidates>>

HasClients(t) ==
    /\ task[t].pc = "left"
    /\ IF clients[task[t].gen] = {} THEN Goto(t, "emptied") ELSE Finish(t)
    /\ UNCHANGED allButTask

MirrorDetached(t) ==
    /\ task[t].pc = "emptied"
    /\ connected' = [connected EXCEPT ![task[t].gen] = FALSE]
    /\ Finish(t)
    /\ UNCHANGED <<regVars, layoutVars, minted, stage, paneOf, age, exited,
                   clients, candidates>>

-----------------------------------------------------------------------------
(* Closing: a claim removes the membership, its owner executes the plan.   *)

\* Mutant: the claim makes a plan and leaves the session in the map.
ClaimKeepsMember(g) ==
    LET p == paneOf[g] IN
    /\ unowned' = [unowned EXCEPT ![p] = NoEntry]
    /\ stage' = [stage EXCEPT ![g] = "closing"]
    /\ age' = [age EXCEPT ![g] = 0]
    /\ CollectLayoutClose(p)
    /\ UNCHANGED sessions

\* remove_session_locked, the claim on which a close plan is made.
ClaimClose(g) ==
    LET p == paneOf[g] IN
    /\ sessions' = [sessions EXCEPT ![p] = NoGen]
    /\ unowned' = [unowned EXCEPT ![p] = NoEntry]
    /\ stage' = [stage EXCEPT ![g] = "closing"]
    /\ age' = [age EXCEPT ![g] = 0]
    /\ CollectLayoutClose(p)

\* close_session (explicit, shutdown) and close_pane on a pane with a session.
CloseSession(p) ==
    /\ sessions[p] # NoGen
    /\ ClaimClose(sessions[p])
    /\ UNCHANGED <<reservations, minted, paneOf, connected, exited,
                   clients, task, candidates>>

Published(g) == stage[g] \in {"live", "closing", "closed"}

\* Mutant: the exit handler does not compare generations.
NaturalCloseUnchecked(g) ==
    /\ Published(g)
    /\ ClaimClose(g)
    /\ UNCHANGED <<reservations, minted, paneOf, connected, exited, clients,
                   task, candidates>>

\* close_session_for_session(NaturalExit), from the reader's EOF or error or
\* from the child watcher: only the exact generation is closed.
NaturalClose(g) ==
    /\ Published(g)
    /\ sessions[paneOf[g]] = g
    /\ ClaimClose(g)
    /\ UNCHANGED <<reservations, minted, paneOf, connected, exited,
                   clients, task, candidates>>

\* close_pane on a leaf without a session: a layout-only close.
ClosePaneLayout(x) ==
    /\ x \in Panes => sessions[x] = NoGen
    /\ CollectLayoutClose(x)
    /\ UNCHANGED <<regVars, minted, sessVars, task, candidates>>

\* execute_close_plan: once the backend is dealt with the session is marked
\* exited and its clients are told; the events and broadcasts that follow leave
\* the state of this module alone.
ExecuteClosePlan(g) ==
    /\ stage[g] = "closing"
    /\ stage' = [stage EXCEPT ![g] = "closed"]
    /\ exited' = [exited EXCEPT ![g] = TRUE]
    /\ UNCHANGED <<regVars, layoutVars, minted, paneOf, age, connected,
                   clients, task, candidates>>

-----------------------------------------------------------------------------
(* The reaper: start_cleanup_task, one scan and then one try per candidate.*)

Aged(p) == unowned[p] = Grace

\* Mutant: every scan restarts the grace period (insert for or_insert).
ScanRestartsGrace ==
    LET Unreferenced == {p \in Panes : sessions[p] # NoGen /\ ~Referenced(p)}
    IN
    /\ candidates = {}
    /\ unowned' = [p \in Panes |-> IF p \in Unreferenced THEN 0 ELSE NoEntry]
    /\ candidates' = {}
    /\ UNCHANGED <<sessions, reservations, layoutVars, minted, sessVars, task>>

\* reconcile_unowned_since, then the candidates that are old enough and were
\* not seen connected.
ScanUnowned ==
    LET Unreferenced == {p \in Panes : sessions[p] # NoGen /\ ~Referenced(p)}
    IN
    /\ candidates = {}
    /\ unowned' = [p \in Panes |->
                     IF p \notin Unreferenced THEN NoEntry
                     ELSE IF unowned[p] = NoEntry THEN 0
                     ELSE unowned[p]]
    /\ candidates' = {sessions[p] : p \in {q \in Unreferenced :
                                  Aged(q) /\ ~connected[sessions[q]]}}
    /\ UNCHANGED <<sessions, reservations, layoutVars, minted, sessVars,
                   task>>

\* Mutant: the candidate is claimed on what the scan saw.
TryReapTrustsScan(g) ==
    /\ g \in candidates
    /\ candidates' = candidates \ {g}
    /\ IF sessions[paneOf[g]] = g
         THEN ClaimClose(g)
         ELSE UNCHANGED <<sessions, unowned, layoutVars, stage, age>>
    /\ UNCHANGED <<reservations, minted, paneOf, connected, exited, clients,
                   task>>

\* try_reap_session: the whole decision is one lifecycle section.
TryReap(g) ==
    LET p == paneOf[g] IN
    /\ g \in candidates
    /\ candidates' = candidates \ {g}
    /\ IF ~Referenced(p) /\ Aged(p) /\ ~connected[g] /\ sessions[p] = g
         THEN ClaimClose(g)
         ELSE /\ unowned' = [unowned EXCEPT ![p] =
                               IF Referenced(p) THEN NoEntry
                               ELSE IF @ = NoEntry THEN 0 ELSE @]
              /\ UNCHANGED <<sessions, layoutVars, stage, age>>
    /\ UNCHANGED <<reservations, minted, paneOf, connected, exited, clients,
                   task>>

\* Mutant: ages do not stop at the grace period.
OlderUnbounded(a) == a + 1

Older(a) == IF a < Grace THEN a + 1 ELSE a

\* Time passes for the entries of unowned_since and for the sessions.
Tick ==
    /\ unowned' = [p \in Panes |-> Older(unowned[p])]
    /\ age' = [g \in Gens |-> IF stage[g] = "live" THEN Older(age[g])
                                                  ELSE age[g]]
    /\ UNCHANGED <<sessions, reservations, layoutVars, minted, stage, paneOf,
                   connected, exited, clients, task, candidates>>

-----------------------------------------------------------------------------
(* The tab operations, as far as the sessions can tell.                    *)

\* update_layout and insert_tab: whatever leaves the writer had in hand, which
\* may be a copy read before other steps.
UpdateLayout(tab, L, a) ==
    /\ InsertTab(tab, L)
    /\ active' = a
    /\ UNCHANGED <<regVars, minted, sessVars, task, candidates>>

RemoveTab(tab) ==
    /\ tab \in tabs
    /\ RemoveTabs({tab})
    /\ UNCHANGED <<regVars, active, minted, sessVars, task, candidates>>

\* tab_list prunes, for every caller, the tabs that have no leaf or have a
\* terminal leaf without a session.
Stale(tab) == \/ leaves[tab] = {}
              \/ \E p \in leaves[tab] \cap Panes : sessions[p] = NoGen

TabList ==
    /\ \E tab \in tabs : Stale(tab)
    /\ RemoveTabs({tab \in tabs : Stale(tab)})
    /\ UNCHANGED <<regVars, active, minted, sessVars, task, candidates>>

\* set_active_pane_id, for a leaf the ActivateTab handler resolved.
SetActivePane(x) ==
    /\ \E tab \in tabs : x \in leaves[tab]
    /\ active' = x
    /\ UNCHANGED <<regVars, tabs, leaves, minted, sessVars, task, candidates>>

\* recheck_publish_or_correct for a generation that lost its membership: the
\* leaf goes from every tab but the one that carries the pane's own id.  The check
\* and the correction lock separately; what has lost its membership never gets it back.
CorrectLateLayout(g) ==
    /\ Published(g)
    /\ sessions[paneOf[g]] # g
    /\ PurgePane(paneOf[g], tabs \ {paneOf[g]})
    /\ UNCHANGED <<regVars, active, minted, sessVars, task, candidates>>

-----------------------------------------------------------------------------
CreateStep(t) ==
    \/ ShellResolveFails(t) \/ ReserveSession(t) \/ SpawnChild(t)
    \/ SpawnFails(t) \/ Publish(t) \/ RollbackSpawn(t) \/ DropReservation(t)
    \/ InsertTabForSession(t)

AttachStep(t) ==
    \/ SessionForAttach(t) \/ MissedLookup(t) \/ MirrorConnected(t)
    \/ Revalidate(t) \/ SingletonCheckCurrent(t)
    \/ SingletonCheckReferenced(t) \/ SingletonInsert(t)
    \/ SingletonRecheck(t) \/ AddClient(t)

DetachStep(t) == HasClients(t) \/ MirrorDetached(t)

Reaper == ScanUnowned \/ \E g \in Gens : TryReap(g)

\* The leaves a client can name: it has seen them published.
KnownLeaves == {paneOf[g] : g \in {h \in Gens : Published(h)}} \cup Widgets

TabStep ==
    \/ \E tab \in Tabs, L \in SUBSET KnownLeaves :
         \E a \in KnownLeaves \cup {active} : UpdateLayout(tab, L, a)
    \/ \E tab \in Tabs : RemoveTab(tab)
    \/ TabList
    \/ \E x \in Leaves : SetActivePane(x) \/ ClosePaneLayout(x)
    \/ \E g \in Gens : CorrectLateLayout(g)

Next ==
    \/ \E t \in Tasks : \/ StartCreateTab(t) \/ WsUpgrade(t)
                        \/ CreateStep(t) \/ AttachStep(t)
                        \/ RemoveClient(t) \/ DetachStep(t)
    \/ \E p \in Panes : CloseSession(p)
    \/ \E g \in Gens : NaturalClose(g) \/ ExecuteClosePlan(g)
    \/ Reaper
    \/ Tick
    \/ TabStep

\* Tasks the runtime has started run on, the reaper's interval fires and time
\* passes; nothing obliges a client to come, to leave or to close a pane.
Fairness ==
    /\ \A t \in Tasks : /\ WF_vars(CreateStep(t))
                        /\ WF_vars(AttachStep(t))
                        /\ WF_vars(DetachStep(t))
    /\ \A g \in Gens : WF_vars(ExecuteClosePlan(g))
    /\ WF_vars(ScanUnowned)
    /\ \A g \in Gens : WF_vars(TryReap(g))
    /\ WF_vars(Tick)

Spec     == Init /\ [][Next]_vars
FairSpec == Spec /\ Fairness

-----------------------------------------------------------------------------
(* Properties.                                                             *)

TaskType == [pc : PCs, kind : {"http", "ws"}, pane : Panes \cup {NoPane},
             tab : Tabs \cup {NoPane}, gen : Gens \cup {NoGen}]

TypeOK ==
    /\ sessions \in [Panes -> Gens \cup {NoGen}]
    /\ reservations \subseteq Panes
    /\ unowned \in [Panes -> Ages \cup {NoEntry}]
    /\ tabs \subseteq Tabs
    /\ leaves \in [Tabs -> SUBSET Leaves]
    /\ active \in Leaves \cup {NoPane}
    /\ minted \subseteq Tabs
    /\ stage \in [Gens -> Stages]
    /\ paneOf \in [Gens -> Panes \cup {NoPane}]
    /\ age \in [Gens -> Ages]
    /\ connected \in [Gens -> BOOLEAN]
    /\ exited \in [Gens -> BOOLEAN]
    /\ clients \in [Gens -> SUBSET Tasks]
    /\ task \in [Tasks -> TaskType]
    /\ candidates \subseteq Gens

\* Program counters at which a task has a clone of a published session.
Holding == {"cloned", "mirrored", "validated", "attached", "left", "emptied",
            "published", "current", "unreferenced", "inserted"}

Reserving(t) == task[t].pc \in {"reserved", "spawned", "unwound"}

\* A pane is reserved exactly while one spawn is in progress for it, and it has
\* no session then: so two creators never own the same pane, and
\* SessionReservation::publish never meets its Occupied arm (whose rollback
\* would remove the ledger entry of the session that got there first).
SpawnIsExclusive ==
    /\ \A p \in reservations : sessions[p] = NoGen
    /\ \A t \in Tasks : Reserving(t) => task[t].pane \in reservations
    /\ \A t, u \in Tasks :
         Reserving(t) /\ Reserving(u) /\ task[t].pane = task[u].pane => t = u
    /\ \A p \in reservations : \E t \in Tasks : Reserving(t) /\ task[t].pane = p
    /\ \A t \in Tasks : task[t].pc # "unpublished"

\* The session map holds exactly the generations that were published and whose
\* close nobody has claimed, each under its own pane: a close is claimed once
\* (`close_session` is "the single authoritative close chokepoint"), and the
\* exit of an old generation never removes the one that replaced it.
MapHoldsLiveGenerations ==
    /\ \A p \in Panes : sessions[p] # NoGen =>
         stage[sessions[p]] = "live" /\ paneOf[sessions[p]] = p
    /\ \A g \in Gens : stage[g] = "live" =>
         paneOf[g] \in Panes /\ sessions[paneOf[g]] = g

\* Session::exited silences broadcast() for good; neither a late failed attach
\* nor the end of a close ever marks the session that is current.
CurrentSessionNotExited ==
    \A p \in Panes : sessions[p] # NoGen => ~exited[sessions[p]]

\* An age in unowned_since belongs to the current generation, never to one
\* that had the pane before: it is at most the time since publication.
UnownedAgeIsOwn ==
    \A p \in Panes :
        sessions[p] # NoGen /\ unowned[p] # NoEntry =>
            unowned[p] <= age[sessions[p]]

\* The reaper takes a session only when no layout has it as a terminal leaf, it
\* was published at least SESSION_UNOWNED_GRACE ago and nobody is connected.
ReapOnlyAbandoned ==
    [][\A g \in Gens :
          candidates' # candidates /\ stage[g] = "live" /\ stage'[g] # "live" =>
             /\ ~Referenced(paneOf[g])
             /\ age[g] = Grace
             /\ ~connected[g]]_vars

\* The stages of a close and of a rolled back spawn are taken in order, each
\* once; nothing brings a generation back.
StageOrder == [s \in Stages |->
    CASE s = "free"    -> {"spawned"}
      [] s = "spawned" -> {"live", "aborted"}
      [] s = "live"    -> {"closing"}
      [] s = "closing" -> {"closed"}
      [] OTHER         -> {}]
StagesInOrder ==
    [][\A g \in Gens :
          stage'[g] # stage[g] => stage'[g] \in StageOrder[stage[g]]]_vars

\* A leaf a close has removed from the layouts stays removed unless a client or
\* a creator writes it back: closing leaves no tab with that leaf.
CloseLeavesNoLeaf ==
    [][\A p \in Panes : sessions[p] # NoGen /\ sessions'[p] = NoGen =>
          \A tab \in tabs' : p \notin leaves'[tab]]_vars

\* A reservation is always given back: the pane can be created again.
ReservationsReleased ==
    \A p \in Panes : p \in reservations ~> p \notin reservations

\* A session that stays out of every layout and disconnected is reaped.
AbandonedIsReaped ==
    \A g \in Gens :
        []<>(stage[g] = "live" => Referenced(paneOf[g]) \/ connected[g])

\* The manager implements the abstract registry of panes: every step of every
\* task opens a vacant pane, closes a held one or changes nothing there.
Registry == INSTANCE PaneRegistry WITH
                holder <- sessions,
                spent  <- {g \in Gens : Published(g)}
ImplementsRegistry == Registry!Spec

-----------------------------------------------------------------------------
(* For TLC: concurrent requests may be exchanged for one another.          *)
TaskSymmetry == Permutations(Tasks)

=============================================================================
