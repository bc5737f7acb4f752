------------------------------ MODULE TabSync ------------------------------
(***************************************************************************)
(* The tab layouts of the server, the handlers that change them, what the  *)
(* clients of /ws/sync are told of it, and the snapshot file from which a  *)
(* restart builds the tabs again.                                          *)
(*                                                                         *)
(* Handlers (src/tabs, src/ws/sync.rs) read a layout, work on their copy   *)
(* and store the result; only the store itself is under the `lifecycle`    *)
(* mutex, and what changed is broadcast after it.  Every step below is one *)
(* read, one store, one spawn or one broadcast; anything may come between  *)
(* two of them.                                                            *)
(*                                                                         *)
(* A layout is the set of its leaf ids (its shape is the matter of         *)
(* LayoutTree); a tab is present when its layout is not empty.  A session  *)
(* is spawned and closed in one step (SessionLifecycle has the details).   *)
(* Left out: titles, ratios, the active pane and the order of the tabs.    *)
(* One client is followed: a page that is loaded when it connects.         *)
(***************************************************************************)
EXTENDS Naturals, Sequences, FiniteSets

CONSTANTS
    Panes,       \* ids of terminal leaves
    Remote,      \* those whose session is an SSH connection
    Widgets,     \* ids of plugin, files and web leaves
    Tabs,        \* tab ids
    StartGroups, \* layouts before the first request: each tab in a set with its leaves
    Handlers,    \* concurrent requests
    Nobody,      \* no pane, no tab
    MaxClientOps, MaxFileOps, \* bounds: requests ever started, when the client and
                 \*         when the file is followed
    MaxCrashes   \* bound: crashes

StartTabs == [t \in Tabs |-> UNION {g \in StartGroups : t \in g} \ Tabs]
MaxOps == [client |-> MaxClientOps, file |-> MaxFileOps]

ASSUME IdsAssumption ==
    /\ Panes \cap Widgets = {} /\ Remote \subseteq Panes
    /\ Nobody \notin Panes \cup Widgets \cup Tabs
    /\ StartTabs \in [Tabs -> SUBSET (Panes \cup Widgets)]
    /\ IsFiniteSet(Tabs)
ASSUME StartAssumption ==
    \A p \in Panes : \A t, u \in Tabs : p \in StartTabs[t] \cap StartTabs[u] => t = u
ASSUME BoundsAssumption ==
    MaxOps \in [{"client", "file"} -> Nat] /\ MaxCrashes \in Nat

Leaves == Panes \cup Widgets
NoTabs == [t \in Tabs |-> {}]

VARIABLES
    layouts,   \* tab_layouts: tab -> leaves
    sessions,  \* panes with a session
    used,      \* ids ever handed out (Uuid::new_v4)
    clock,     \* how many changes were stored
    version,   \* tab -> the change that made it what it is
    req,       \* handler -> its request: program counter and locals
    ops,       \* requests started so far
    conn,      \* the client: "away", "registered", "listed"
    queue,     \* broadcasts on their way to the client
    replica,   \* tab -> leaves, as the client shows them
    told,      \* tab -> the latest change of it that was broadcast
    latest,    \* the latest change that was broadcast
    dirty,     \* a signal waits in the channel of the snapshot task
    saving,    \* the snapshot task: "idle", or "reading"
    unread,    \* tabs it has still to read
    draft,     \* what it has read
    file,      \* session.json, as [tab -> leaves]
    boot,      \* "serving", or "restoring"
    unrestored,\* tabs of the file the restore has still to do
    spawned,   \* panes the restore has spawned for the tab it is at
    crashes,
    followed,  \* "client" or "file": which of the two this behaviour follows
    slips      \* what went wrong: "stale", "reordered", "late", "merged", "overtaken",
               \* "unannounced", "unsaved", "early"

serverVars == <<layouts, sessions, used, clock, version>>
clientVars == <<conn, queue, replica, told, latest>>
fileVars   == <<dirty, saving, unread, draft, file>>
bootVars   == <<boot, unrestored, spawned, crashes, followed>>
vars == <<serverVars, req, ops, clientVars, fileVars, bootVars, slips>>

Idle == [op |-> "none", pc |-> "idle", tab |-> Nobody, dst |-> Nobody,
         pane |-> Nobody, new |-> Nobody, copy |-> {}, dstCopy |-> {},
         first |-> 0, todo |-> {}, out |-> <<>>]

Present  == {t \in Tabs : layouts[t] # {}}
Shown(p) == {t \in Tabs : p \in layouts[t]}
Fresh(S) == S \ used

\* A broadcast: what it says of a tab, the change it stems from, and the last
\* change of its request.
Note(k, t, L, own, last) ==
    [kind |-> k, tab |-> t, leaves |-> L, own |-> own, last |-> last]
Slip(cond, what) == IF cond THEN {what} ELSE {}
Later(m, n) == IF m < n THEN n ELSE m

Init ==
    /\ followed \in {"client", "file"}
    /\ layouts = StartTabs
    /\ sessions = Panes \cap UNION {StartTabs[t] : t \in Tabs}
    /\ used = (UNION {StartTabs[t] : t \in Tabs})
                \cup {t \in Tabs : StartTabs[t] # {}}
    /\ clock = 0 /\ version = [t \in Tabs |-> 0]
    /\ req = [h \in Handlers |-> Idle]
    /\ ops = 0
    /\ conn = "away" /\ queue = <<>> /\ replica = NoTabs
    /\ told = [t \in Tabs |-> 0] /\ latest = 0
    /\ dirty \in {FALSE, followed = "file"}
    /\ saving = "idle" /\ unread = {} /\ draft = NoTabs /\ file = StartTabs
    /\ boot = "serving" /\ unrestored = {} /\ spawned = {} /\ crashes = 0
    /\ slips = {}

-----------------------------------------------------------------------------
(* The stores, each under the lifecycle mutex.  A store made from a copy   *)
(* that is no longer the layout is a slip: it undoes what others did.      *)

Stamp(T) ==
    /\ clock' = IF T = {} THEN clock ELSE clock + 1
    /\ version' = [t \in Tabs |-> IF t \in T THEN clock + 1 ELSE version[t]]

\* insert_tab_locked: the layout is replaced and the snapshot task signalled.
Store(t, L, basis) ==
    /\ layouts' = [layouts EXCEPT ![t] = L]
    /\ Stamp({t})
    /\ dirty' = TRUE
    /\ slips' = slips \cup Slip(layouts[t] # basis, "stale")

\* remove_tab_locked
Remove(t, basis) ==
    /\ layouts' = [layouts EXCEPT ![t] = {}]
    /\ Stamp({t} \cap Present)
    /\ dirty' = (dirty \/ layouts[t] # {})
    /\ slips' = slips \cup Slip(layouts[t] # basis, "stale")

\* purge_pane_from_layouts_locked
Purge(p) ==
    /\ layouts' = [t \in Tabs |-> layouts[t] \ {p}]
    /\ Stamp(Shown(p))
    /\ dirty' = (dirty \/ Shown(p) # {})

\* What broadcast_layout_changes has to tell about a purge, before the purge:
\* the tabs it empties first, then those it leaves with other leaves.
NotesOf(p) ==
    LET T       == Shown(p)
        closes(t) == layouts[t] = {p}
        order   == CHOOSE s \in [1 .. Cardinality(T) -> T] :
                     \A i, j \in 1 .. Cardinality(T) : i < j =>
                        s[i] # s[j] /\ (closes(s[j]) => closes(s[i]))
    IN  [i \in 1 .. Cardinality(T) |->
            Note(IF closes(order[i]) THEN "closed" ELSE "updated",
                 order[i], layouts[order[i]] \ {p}, clock + 1, clock + 1)]

-----------------------------------------------------------------------------
(* The requests.                                                           *)

\* A request that has something to broadcast sends it before it goes on.
SendThen(h, notes, pc) ==
    req' = [req EXCEPT ![h].out = notes, ![h].pc = pc]

Start(h, r) ==
    /\ boot = "serving" /\ req[h] = Idle /\ ops < MaxOps[followed]
    /\ ops' = ops + 1
    /\ req' = [req EXCEPT ![h] = r]

At(h, op, pc) == req[h].op = op /\ req[h].pc = pc /\ req[h].out = <<>>

Heard(m) == [kind |-> m.kind, tab |-> m.tab, leaves |-> m.leaves]

\* The message comes after one that tells of a later change.
ComesLate(m) == m.own < told[m.tab] \/ m.last < latest

\* What create_tab says of a tab that is gone; it takes that back itself.
TakesBack(h) == req[h].op = "create" /\ layouts[req[h].tab] = {}

\* broadcast_sync: every registered client gets the message, in the order the
\* messages are sent, which need not be the order of the stores: a slip.
Broadcast(h) ==
    /\ req[h].out # <<>>
    /\ LET m == Head(req[h].out) IN
        /\ queue' = IF conn = "away" THEN queue ELSE Append(queue, Heard(m))
        /\ told' = [told EXCEPT ![m.tab] = Later(@, m.own)]
        /\ latest' = Later(latest, m.last)
        /\ slips' = slips \cup Slip(ComesLate(m), IF TakesBack(h) THEN "late" ELSE "reordered")
    /\ req' = [req EXCEPT ![h] =
                 IF Len(@.out) = 1 /\ @.pc = "end" THEN Idle
                 ELSE [@ EXCEPT !.out = Tail(req[h].out)]]
    /\ UNCHANGED <<serverVars, ops, conn, replica, fileVars, bootVars>>

\* create_tab: the session first, then the tab, if the session is still there.
BeginCreate(h) ==
    /\ \E p \in Fresh(Panes), t \in Fresh(Tabs) :
        /\ p = (CHOOSE x \in Fresh(Panes) : TRUE)
        /\ t = (CHOOSE x \in Fresh(Tabs) : TRUE)
        /\ Start(h, [Idle EXCEPT !.op = "create", !.pc = "publish",
                                 !.pane = p, !.tab = t])
        /\ used' = used \cup {p, t}
        /\ sessions' = sessions \cup {p}
    /\ UNCHANGED <<layouts, clock, version, clientVars, fileVars, bootVars,
                   slips>>

PublishTab(h) ==
    /\ At(h, "create", "publish")
    /\ LET r == req[h] IN
        IF r.pane \in sessions
        THEN /\ Store(r.tab, {r.pane}, layouts[r.tab])
             /\ SendThen(h, <<Note("created", r.tab, {r.pane},
                                   clock + 1, clock + 1)>>, "verify")
        ELSE /\ req' = [req EXCEPT ![h] = Idle]
             /\ UNCHANGED <<layouts, clock, version, dirty, slips>>
    /\ UNCHANGED <<sessions, used, ops, clientVars, saving, unread, draft,
                   file, bootVars>>

\* Mutant: the session is not looked at again.
VerifyTabNever(h) ==
    /\ At(h, "create", "verify")
    /\ req' = [req EXCEPT ![h] = Idle]
    /\ UNCHANGED <<serverVars, ops, clientVars, fileVars, bootVars, slips>>

\* If a close won after the publication, a last TabClosed follows the late
\* TabCreated, even if the tab has got another leaf by now; it counts as a change
\* of the tab.  Only the session is looked at: the tab may be gone, its pane moved
\* to another one.
VerifyTab(h) ==
    /\ At(h, "create", "verify")
    /\ LET t == req[h].tab IN
        IF req[h].pane \in sessions
        THEN /\ req' = [req EXCEPT ![h] = Idle] /\ UNCHANGED <<clock, version>>
             /\ slips' = slips \cup Slip(layouts[t] = {}, "merged")
        ELSE /\ Stamp({t})
             /\ SendThen(h, <<Note("closed", t, {}, clock + 1, clock + 1)>>, "end")
             /\ slips' = slips \cup Slip(layouts[t] # {}, "stale")
    /\ UNCHANGED <<layouts, sessions, used, ops, clientVars, fileVars, bootVars>>

\* A client's CreateTab over /ws/sync stores a layout whose session is only
\* created when the terminal's own WebSocket connects.
ClientCreate(h) ==
    /\ \E p \in Fresh(Panes), t \in Fresh(Tabs) :
        /\ p = (CHOOSE x \in Fresh(Panes) : TRUE)
        /\ t = (CHOOSE x \in Fresh(Tabs) : TRUE)
        /\ Start(h, [Idle EXCEPT !.op = "mirror", !.pc = "end",
                     !.out = <<Note("created", t, {p}, clock + 1, clock + 1)>>])
        /\ used' = used \cup {p, t}
        /\ Store(t, {p}, layouts[t])
    /\ UNCHANGED <<sessions, clientVars, saving, unread, draft, file,
                   bootVars>>

\* create_plugin_tab, for an id no tab has.
CreatePluginTab(h) ==
    /\ \E w \in Fresh(Widgets), t \in Fresh(Tabs) :
        /\ t = (CHOOSE x \in Fresh(Tabs) : TRUE)
        /\ Start(h, [Idle EXCEPT !.op = "plugin", !.pc = "end",
                     !.out = <<Note("created", t, {w}, clock + 1, clock + 1)>>])
        /\ used' = used \cup {w, t}
        /\ Store(t, {w}, layouts[t])
    /\ UNCHANGED <<sessions, clientVars, saving, unread, draft, file,
                   bootVars>>

ConnectTerminal(p) ==
    /\ boot = "serving" /\ p \notin sessions /\ Shown(p) # {}
    /\ sessions' = sessions \cup {p}
    /\ UNCHANGED <<layouts, used, clock, version, req, ops, clientVars,
                   fileVars, bootVars, slips>>

\* split_pane: the layout is copied, ...
BeginSplit(h) ==
    /\ \E t \in Present :
        Start(h, [Idle EXCEPT !.op = "split", !.pc = "spawn", !.tab = t,
                              !.copy = layouts[t]])
    /\ UNCHANGED <<serverVars, clientVars, fileVars, bootVars, slips>>

\* ... a shell is started, or that fails, ...
SpawnForSplit(h) ==
    /\ At(h, "split", "spawn")
    /\ \/ \E n \in Fresh(Panes) :
            /\ n = (CHOOSE x \in Fresh(Panes) : TRUE)
            /\ used' = used \cup {n}
            /\ sessions' = sessions \cup {n}
            /\ req' = [req EXCEPT ![h].new = n, ![h].pc = "store"]
       \/ req' = [req EXCEPT ![h] = Idle] /\ UNCHANGED <<used, sessions>>
    /\ UNCHANGED <<layouts, clock, version, ops, clientVars, fileVars, bootVars,
                   slips>>

WithNew(r) == r.copy \cup {r.new}

\* ... and the copy with the new leaf is stored, whatever is there by now.
StoreSplit(h) ==
    /\ At(h, "split", "store")
    /\ LET r == req[h] IN
        /\ Store(r.tab, WithNew(r), r.copy)
        /\ SendThen(h, <<Note("updated", r.tab, WithNew(r), clock + 1,
                              clock + 1)>>, "recheck")
    /\ UNCHANGED <<sessions, used, ops, clientVars, saving, unread, draft,
                   file, bootVars>>

\* insert_non_terminal_pane does the same with a leaf that needs no session.
BeginInsert(h) ==
    /\ \E t \in Present, w \in Fresh(Widgets) :
        /\ Start(h, [Idle EXCEPT !.op = "insert", !.pc = "store", !.tab = t,
                                 !.copy = layouts[t], !.new = w])
        /\ used' = used \cup {w}
    /\ UNCHANGED <<layouts, sessions, clock, version, clientVars, fileVars,
                   bootVars, slips>>

StoreInsert(h) ==
    /\ At(h, "insert", "store")
    /\ LET r == req[h] IN
        /\ Store(r.tab, WithNew(r), r.copy)
        /\ SendThen(h, <<Note("updated", r.tab, WithNew(r), clock + 1,
                              clock + 1)>>, "end")
    /\ UNCHANGED <<sessions, used, ops, clientVars, saving, unread, draft,
                   file, bootVars>>

\* recheck_publish_or_correct: the new pane was closed before it was shown.
RecheckSplit(h) ==
    /\ At(h, "split", "recheck")
    /\ LET p == req[h].new IN
        IF p \in sessions \/ Shown(p) = {}
        THEN req' = [req EXCEPT ![h] = Idle]
             /\ UNCHANGED <<layouts, clock, version, dirty>>
        ELSE Purge(p) /\ SendThen(h, NotesOf(p), "end")
    /\ UNCHANGED <<sessions, used, ops, clientVars, saving, unread, draft,
                   file, bootVars, slips>>

\* move_pane: two layouts are copied one after the other.  Without a source
\* pane the whole tab is moved, else the pane, from a tab with another leaf.
BeginMove(h) ==
    /\ \E t, d \in Present, p \in Leaves \cup {Nobody} :
        /\ t # d
        /\ p # Nobody => p \in layouts[t] /\ Cardinality(layouts[t]) > 1
        /\ Start(h, [Idle EXCEPT !.op = "move", !.pc = "target", !.tab = t,
                                 !.dst = d, !.pane = p, !.copy = layouts[t]])
    /\ UNCHANGED <<serverVars, clientVars, fileVars, bootVars, slips>>

ReadTarget(h) ==
    /\ At(h, "move", "target")
    /\ req' = IF layouts[req[h].dst] = {} THEN [req EXCEPT ![h] = Idle]
              ELSE [req EXCEPT ![h].dstCopy = layouts[req[h].dst],
                               ![h].pc = "source"]
    /\ UNCHANGED <<serverVars, ops, clientVars, fileVars, bootVars, slips>>

Moved(r)  == IF r.pane = Nobody THEN r.copy ELSE {r.pane}

\* Mutant: the leaf stays in its tab as well.
KeepsLeaf(r) == r.copy

Remains(r) == r.copy \ Moved(r)

StoreSource(h) ==
    /\ At(h, "move", "source")
    /\ LET r == req[h] IN
        IF r.pane = Nobody THEN Remove(r.tab, r.copy)
                           ELSE Store(r.tab, Remains(r), r.copy)
    /\ req' = [req EXCEPT ![h].pc = "dest", ![h].first = clock']
    /\ UNCHANGED <<sessions, used, ops, clientVars, saving, unread, draft,
                   file, bootVars>>

\* Mode A tells of the destination first, mode B of the source.
StoreTarget(h) ==
    /\ At(h, "move", "dest")
    /\ LET r == req[h]
           L == r.dstCopy \cup Moved(r)
           to   == Note("updated", r.dst, L, clock + 1, clock + 1)
           from == Note(IF r.pane = Nobody THEN "closed" ELSE "updated",
                        r.tab, Remains(r), r.first, clock + 1)
       IN /\ Store(r.dst, L, r.dstCopy)
          /\ SendThen(h, IF r.pane = Nobody THEN <<to, from>>
                                            ELSE <<from, to>>, "end")
    /\ UNCHANGED <<sessions, used, ops, clientVars, saving, unread, draft,
                   file, bootVars>>

\* extract_pane: the leaf becomes a tab of its own.
BeginExtract(h) ==
    /\ \E t \in Present, d \in Fresh(Tabs) : \E p \in layouts[t] :
        /\ Cardinality(layouts[t]) > 1
        /\ d = (CHOOSE x \in Fresh(Tabs) : TRUE)
        /\ Start(h, [Idle EXCEPT !.op = "extract", !.pc = "source", !.tab = t,
                                 !.dst = d, !.pane = p, !.copy = layouts[t]])
        /\ used' = used \cup {d}
    /\ UNCHANGED <<layouts, sessions, clock, version, clientVars, fileVars,
                   bootVars, slips>>

StoreRest(h) ==
    /\ At(h, "extract", "source")
    /\ Store(req[h].tab, Remains(req[h]), req[h].copy)
    /\ req' = [req EXCEPT ![h].pc = "dest", ![h].first = clock']
    /\ UNCHANGED <<sessions, used, ops, clientVars, saving, unread, draft,
                   file, bootVars>>

StoreExtracted(h) ==
    /\ At(h, "extract", "dest")
    /\ LET r == req[h] IN
        /\ Store(r.dst, {r.pane}, layouts[r.dst])
        /\ SendThen(h, <<Note("updated", r.tab, Remains(r), r.first, clock + 1),
                         Note("created", r.dst, {r.pane}, clock + 1,
                              clock + 1)>>, "end")
    /\ UNCHANGED <<sessions, used, ops, clientVars, saving, unread, draft,
                   file, bootVars>>

\* activate_pane stores the layout it read again, and tells of nothing but
\* the activation; a client's UpdateLayout stores the layout the client has.
BeginActivate(h) ==
    /\ \E t \in Present :
        Start(h, [Idle EXCEPT !.op = "activate", !.pc = "store", !.tab = t,
                              !.copy = layouts[t]])
    /\ UNCHANGED <<serverVars, clientVars, fileVars, bootVars, slips>>

StoreActivated(h) ==
    /\ At(h, "activate", "store")
    /\ LET r == req[h] IN
        /\ Store(r.tab, r.copy, r.copy)
        /\ req' = [req EXCEPT ![h] = Idle]
    /\ UNCHANGED <<sessions, used, ops, clientVars, saving, unread, draft,
                   file, bootVars>>

ClientUpdates(h) ==
    /\ boot = "serving" /\ conn = "listed"
    /\ req[h] = Idle /\ ops < MaxOps[followed]
    /\ ops' = ops + 1
    /\ \E t \in {x \in Tabs : replica[x] # {}} :
        /\ layouts' = [layouts EXCEPT ![t] = replica[t]]
        /\ Stamp({t})
        /\ told' = [told EXCEPT ![t] = clock + 1] /\ latest' = clock + 1
        /\ dirty' = TRUE
        /\ slips' = slips
             \cup Slip(layouts[t] # replica[t], "stale")
             \cup Slip(\E i \in DOMAIN queue : queue[i].tab = t, "reordered")
    /\ UNCHANGED <<sessions, used, req, conn, queue, replica, saving, unread,
                   draft, file, bootVars>>

\* close_pane, and the close of a session whose shell ends: the session goes
\* and every tab that shows the pane loses it, under one lock.
ClosePane(h) ==
    /\ \E p \in sessions \cup UNION {layouts[t] : t \in Tabs} :
        /\ boot = "serving" /\ req[h] = Idle /\ ops < MaxOps[followed]
        /\ ops' = ops + 1
        /\ sessions' = sessions \ {p}
        /\ Purge(p)
        /\ req' = IF NotesOf(p) = <<>> THEN req
                  ELSE [req EXCEPT ![h] = [Idle EXCEPT !.op = "close",
                                           !.pc = "end", !.out = NotesOf(p)]]
    /\ UNCHANGED <<used, clientVars, saving, unread, draft, file, bootVars,
                   slips>>

\* close_tab: the leaves are read, closed one by one, and then the tab goes.
\* The REST handler closes the sessions among them, /ws/sync any leaf.
BeginCloseTab(h) ==
    /\ \E t \in Present, op \in {"closeRest", "closeSync"} :
        Start(h, [Idle EXCEPT !.op = op, !.pc = "leaf", !.tab = t,
                              !.todo = layouts[t]])
    /\ UNCHANGED <<serverVars, clientVars, fileVars, bootVars, slips>>

Closing(h) == \E op \in {"closeRest", "closeSync"} : At(h, op, "leaf")

CloseLeaf(h) ==
    /\ Closing(h)
    /\ \E p \in req[h].todo :
        IF req[h].op = "closeRest" /\ p \notin sessions
        THEN /\ req' = [req EXCEPT ![h].todo = @ \ {p}]
             /\ UNCHANGED <<sessions, layouts, clock, version, dirty>>
        ELSE /\ sessions' = sessions \ {p}
             /\ Purge(p)
             /\ req' = [req EXCEPT ![h].todo = @ \ {p}, ![h].out = NotesOf(p)]
    /\ UNCHANGED <<used, ops, clientVars, saving, unread, draft, file,
                   bootVars, slips>>

\* A pane that has come to the tab, or got its session, since the leaves were
\* read loses its tab.
RemoveClosed(h) ==
    /\ Closing(h) /\ req[h].todo = {}
    /\ LET t == req[h].tab IN
        /\ Remove(t, layouts[t] \ sessions)
        /\ IF layouts[t] = {} THEN req' = [req EXCEPT ![h] = Idle]
           ELSE SendThen(h, <<Note("closed", t, {}, clock + 1, clock + 1)>>,
                         "end")
    /\ UNCHANGED <<sessions, used, ops, clientVars, saving, unread, draft,
                   file, bootVars>>

\* tab_list removes every tab with a terminal leaf that has no session, and
\* tells nobody but the one who asked.
Stale == {t \in Present : (layouts[t] \cap Panes) \ sessions # {}}

Prune ==
    /\ layouts' = [t \in Tabs |-> IF t \in Stale THEN {} ELSE layouts[t]]
    /\ Stamp(Stale)
    /\ dirty' = (dirty \/ Stale # {})

ListTabs ==
    /\ boot = "serving" /\ Stale # {}
    /\ Prune
    /\ slips' = slips \cup {"unannounced"}
    /\ UNCHANGED <<sessions, used, req, ops, clientVars, saving, unread,
                   draft, file, bootVars>>

-----------------------------------------------------------------------------
(* The client.                                                             *)

\* add_sync_client: from here on broadcasts are queued for the client, ...
Register ==
    /\ followed = "client" /\ boot = "serving" /\ conn = "away"
    /\ conn' = "registered"
    /\ UNCHANGED <<serverVars, req, ops, queue, replica, told, latest, fileVars,
                   bootVars, slips>>

\* ... and the list it gets first may be newer than some of them, and than those
\* that are still to be sent.
OnTheirWay ==
    queue # <<>> \/ \E h \in Handlers : req[h].out # <<>> \/ req[h].pc = "dest"

ReceiveList ==
    /\ conn = "registered"
    /\ conn' = "listed"
    /\ Prune
    /\ replica' = layouts'
    /\ slips' = slips \cup Slip(Stale # {}, "unannounced") \cup Slip(OnTheirWay, "overtaken")
    /\ UNCHANGED <<sessions, used, req, ops, queue, told, latest, saving,
                   unread, draft, file, bootVars>>

Disconnect ==
    /\ conn # "away"
    /\ conn' = "away" /\ queue' = <<>> /\ replica' = NoTabs
    /\ UNCHANGED <<serverVars, req, ops, told, latest, fileVars, bootVars,
                   slips>>

\* Mutant: the tab of that id is not looked for before the others.
WithLayoutAny(m) ==
    LET own    == {t \in Tabs : replica[t] # {} /\ (t = m.tab \/ replica[t] \cap m.leaves # {})}
        target == CHOOSE t \in own : TRUE
    IN  IF own = {} THEN replica
        ELSE [t \in Tabs |-> IF t = target THEN m.leaves
                             ELSE IF replica[t] \subseteq m.leaves THEN {} ELSE replica[t]]

\* layout_updated: the tab of that id, else one that shares a leaf with the
\* new layout, takes it; other tabs all of whose leaves are in it are dropped.
WithLayout(m) ==
    LET own    == IF replica[m.tab] # {} THEN {m.tab}
                  ELSE {t \in Tabs : replica[t] \cap m.leaves # {}}
        target == CHOOSE t \in own : TRUE
    IN  IF own = {} THEN replica
        ELSE [t \in Tabs |-> IF t = target THEN m.leaves
                             ELSE IF replica[t] \subseteq m.leaves THEN {}
                             ELSE replica[t]]

\* tab_created
WithTab(m) ==
    IF replica[m.tab] # {} \/ \E t \in Tabs : replica[t] \cap m.leaves # {}
    THEN replica ELSE [replica EXCEPT ![m.tab] = m.leaves]

Deliver ==
    /\ conn = "listed" /\ queue # <<>>
    /\ LET m == Head(queue) IN
        replica' = CASE m.kind = "updated" -> WithLayout(m)
                     [] m.kind = "created" -> WithTab(m)
                     [] m.kind = "closed"  -> [replica EXCEPT ![m.tab] = {}]
    /\ queue' = Tail(queue)
    /\ UNCHANGED <<serverVars, req, ops, conn, told, latest, fileVars, bootVars,
                   slips>>

-----------------------------------------------------------------------------
(* session.json: written some time after a change, read at the start.      *)

\* The signals that have come so far are taken from the channel, ...
BeginSnapshot ==
    /\ followed = "file" /\ boot = "serving" /\ saving = "idle" /\ dirty
    /\ dirty' = FALSE
    /\ saving' = "reading" /\ unread' = Present /\ draft' = NoTabs
    /\ UNCHANGED <<serverVars, req, ops, clientVars, file, bootVars, slips>>

\* ... the tabs are read one after the other while others change them, ...
ReadTab ==
    /\ saving = "reading"
    /\ \E t \in unread :
        /\ draft' = [draft EXCEPT ![t] = layouts[t]]
        /\ unread' = unread \ {t}
    /\ UNCHANGED <<serverVars, req, ops, clientVars, dirty, saving, file,
                   bootVars, slips>>

\* ... and the file is replaced in one step (a rename), or, if that fails, is
\* what it was.
Write(saved) ==
    /\ file' = IF saved THEN draft ELSE file
    /\ slips' = IF saved THEN slips \ {"unsaved"} ELSE slips \cup {"unsaved"}

\* Mutant: signals that came while the tabs were read are dropped.
EndSnapshotClean ==
    /\ saving = "reading" /\ unread = {}
    /\ \E saved \in BOOLEAN : Write(saved)
    /\ saving' = "idle" /\ draft' = NoTabs /\ dirty' = FALSE
    /\ UNCHANGED <<serverVars, req, ops, clientVars, unread, bootVars>>

EndSnapshot ==
    /\ saving = "reading" /\ unread = {}
    /\ \E saved \in BOOLEAN : Write(saved)
    /\ saving' = "idle" /\ draft' = NoTabs
    /\ UNCHANGED <<serverVars, req, ops, clientVars, dirty, unread, bootVars>>

\* The server ends, with its sessions; the tabs of the file are restored before
\* requests are served.
Crash ==
    /\ crashes < MaxCrashes /\ boot = "serving" /\ followed = "file"
    /\ crashes' = crashes + 1
    /\ layouts' = NoTabs /\ sessions' = {}
    /\ req' = [h \in Handlers |-> Idle]
    /\ conn' = "away" /\ queue' = <<>> /\ replica' = NoTabs
    /\ told' = version /\ latest' = clock
    /\ dirty' = FALSE /\ saving' = "idle" /\ unread' = {} /\ draft' = NoTabs
    /\ boot' = "restoring"
    /\ unrestored' = {t \in Tabs : file[t] # {}} /\ spawned' = {}
    /\ slips' = slips \cap {"unsaved"}
    /\ UNCHANGED <<used, clock, version, ops, file, followed>>

\* Mutant: create_session starts another session for the pane.
SpawnableAlways(p) == TRUE

\* spawn_pane: create_session refuses a pane that has a session.
Spawnable(p) == p \notin sessions

\* Every terminal leaf of a tab is spawned; at the first that cannot be, those
\* before it are killed and the tab is left out.
Current == CHOOSE t \in unrestored : TRUE

\* Mutant: the leaves of plugins are started, too.
ToSpawnAll == file[Current] \ spawned

\* collect_terminal_leaves_with_cwd
ToSpawn == (file[Current] \cap Panes) \ spawned

RestorePane ==
    /\ boot = "restoring" /\ unrestored # {}
    /\ \E p \in ToSpawn :
        \/ /\ Spawnable(p)
           /\ sessions' = sessions \cup {p} /\ spawned' = spawned \cup {p}
           /\ UNCHANGED unrestored
        \/ /\ sessions' = sessions \ spawned
           /\ spawned' = {} /\ unrestored' = unrestored \ {Current}
    /\ UNCHANGED <<layouts, used, clock, version, req, ops, clientVars,
                   fileVars, boot, crashes, followed, slips>>

RestoreTab ==
    /\ boot = "restoring" /\ unrestored # {} /\ ToSpawn = {}
    /\ Store(Current, file[Current], layouts[Current])
    /\ spawned' = {} /\ unrestored' = unrestored \ {Current}
    /\ UNCHANGED <<sessions, used, req, ops, clientVars, saving, unread,
                   draft, file, boot, crashes, followed>>

\* A shell that ends while the tabs are restored; if its tab is not stored yet,
\* the leaf comes back without a session.
ShellEnds ==
    /\ boot = "restoring"
    /\ \E p \in sessions :
        /\ sessions' = sessions \ {p}
        /\ Purge(p)
        /\ slips' = slips \cup Slip(p \in spawned, "early")
    /\ UNCHANGED <<used, req, ops, clientVars, saving, unread, draft, file,
                   bootVars>>

Serve ==
    /\ boot = "restoring" /\ unrestored = {}
    /\ boot' = "serving"
    /\ UNCHANGED <<serverVars, req, ops, clientVars, fileVars, unrestored,
                   spawned, crashes, followed, slips>>

-----------------------------------------------------------------------------
Next ==
    \/ \E h \in Handlers :
        \/ Broadcast(h)
        \/ BeginCreate(h) \/ PublishTab(h) \/ VerifyTab(h) \/ ClientCreate(h)
        \/ CreatePluginTab(h) \/ BeginInsert(h) \/ StoreInsert(h)
        \/ BeginSplit(h) \/ SpawnForSplit(h) \/ StoreSplit(h) \/ RecheckSplit(h)
        \/ BeginMove(h) \/ ReadTarget(h) \/ StoreSource(h) \/ StoreTarget(h)
        \/ BeginExtract(h) \/ StoreRest(h) \/ StoreExtracted(h)
        \/ BeginActivate(h) \/ StoreActivated(h) \/ ClientUpdates(h)
        \/ ClosePane(h) \/ BeginCloseTab(h) \/ CloseLeaf(h) \/ RemoveClosed(h)
    \/ \E p \in Panes : ConnectTerminal(p)
    \/ ListTabs \/ Register \/ ReceiveList \/ Disconnect \/ Deliver
    \/ BeginSnapshot \/ ReadTab \/ EndSnapshot
    \/ Crash \/ RestorePane \/ RestoreTab \/ ShellEnds \/ Serve

Spec == Init /\ [][Next]_vars

-----------------------------------------------------------------------------
(* Properties.                                                             *)

Notes == [kind : {"created", "updated", "closed"}, tab : Tabs,
          leaves : SUBSET Leaves]

\* Every variable holds a value of its kind, and every layout is made of ids
\* that were handed out.
TypeOK ==
    /\ {layouts, replica, draft, file} \subseteq [Tabs -> SUBSET Leaves]
    /\ sessions \subseteq Panes /\ used \subseteq Leaves \cup Tabs
    /\ (UNION {layouts[t] : t \in Tabs}) \cup sessions \subseteq used
    /\ {version, told} \subseteq [Tabs -> 0 .. clock] /\ latest \in 0 .. clock
    /\ \A h \in Handlers : \A i \in DOMAIN req[h].out :
            Heard(req[h].out[i]) \in Notes
    /\ \A i \in DOMAIN queue : queue[i] \in Notes
    /\ conn \in {"away", "registered", "listed"}
    /\ dirty \in BOOLEAN /\ saving \in {"idle", "reading"}
    /\ unread \subseteq Tabs /\ unrestored \subseteq Tabs
    /\ boot \in {"serving", "restoring"} /\ spawned \subseteq Panes
    /\ ops \in 0 .. MaxOps[followed] /\ crashes \in 0 .. MaxCrashes
    /\ slips \subseteq {"stale", "reordered", "late", "merged", "overtaken", "unannounced",
                       "unsaved", "early"}

Quiet == boot = "serving" /\ \A h \in Handlers : req[h] = Idle

\* A client that has received everything shows what the server has.
ClientsInSync ==
    Quiet /\ conn = "listed" /\ queue = <<>> => replica = layouts

\* "all connected clients stay in sync": a client that has received everything
\* shows what the server has, unless a copy was stored over another's change, two
\* broadcasts swapped places, tab_list dropped a tab, or the list the client began
\* with was newer than a broadcast it got after it.
InSync ==
    slips \cap {"stale", "reordered", "late", "unannounced", "overtaken"} = {} => ClientsInSync

\* A client shows no tab that is gone, whatever was stored over what, even if the
\* TabCreated of create_tab comes after the TabClosed of the close that won, unless
\* other broadcasts swapped places, tab_list dropped a tab, or the tab was merged
\* into another one while create_tab was at it.
GoneTabsGo ==
    slips \cap {"reordered", "merged", "unannounced"} = {} =>
        (Quiet /\ conn = "listed" /\ queue = <<>> =>
            \A t \in Tabs : layouts[t] = {} => replica[t] = {})

\* Once the requests are done, a pane with a session is shown in exactly one
\* tab, unless a stale copy was stored, tab_list dropped its tab, or its shell
\* ended in a restart before its tab was stored.
OnePlace ==
    Quiet /\ slips \cap {"stale", "unannounced", "early"} = {}
        => \A p \in sessions : Cardinality(Shown(p)) = 1

\* When the snapshot task waits for a signal, the file is what a restart should
\* bring back: it has every change, if it could be written.
FileCatchesUp ==
    boot = "serving" /\ saving = "idle" /\ ~dirty /\ "unsaved" \notin slips
        => \/ file = layouts
           \/ crashes > 0 /\ layouts = NoTabs

\* Whatever the file says, a restart shows no pane in two tabs, unless its
\* shell ended before its tab was stored.
RestoredOnce ==
    boot = "restoring" /\ "early" \notin slips
        => \A p \in Panes : Cardinality(Shown(p)) <= 1

\* "SSH tabs are skipped": no pane of an SSH connection is started again.
RestoreSkipsSsh == boot = "restoring" => sessions \cap Remote = {}

=============================================================================
