# Verification of dinotty

dinotty is a terminal server: a Rust process that runs shells on PTYs (or SSH
channels), shows them to browsers over WebSockets, keeps the layout of tabs and
panes, and goes on running when every browser is closed. This directory holds
TLA+ models of its core, the TLC instances that check them, and proofs checked
with TLAPS.

Paths below are relative to the root of the repository.

- [The system](#the-system): components, state, interactions, what is hard
- [Modules](#modules) and how they correspond to the code
  ([session lifecycle](#session-lifecycle), [PID ledger](#pid-ledger),
  [output stream](#output-stream), [resize](#resize), [UTF-8](#utf-8),
  [attention](#attention), [tabs](#tabs), [services](#services))
- [Runs](#runs), bounds and fairness
- [Proofs](#proofs)
- [Findings and observations](#findings-and-observations)
- [What is not modelled](#what-is-not-modelled) and the [plan](#plan)

## The system

### Components

| component | source | state | operations | must hold |
|---|---|---|---|---|
| session manager | `src/session/manager.rs` | `sessions` and `session_reservations`, `tab_layouts`, `active_pane_id`, `unowned_since`, under one `lifecycle` mutex | reserve, publish, claim and execute a close, natural exit, layout updates, scan and reap | a pane has one session; a close is claimed once; nothing in use is reaped |
| session | `src/session/mod.rs` | clients with bounded queues, `SyncState`, screen, `size`, `exited`, status | add and remove clients, broadcast, flush, snapshot handshake, resize, exit | output in order and complete, updates end, sizes settle |
| local PTY | `src/pty.rs` | one reader thread, one broadcast task, one debounce task and a child per session | spawn with rollback, forward, debounce resizes | no partial characters, no lost last resize |
| SSH session | `src/ssh/` | a channel, authentication prompts | as a local PTY, over a connection | as above |
| PID ledger | `src/session/ledger.rs` | a JSON file beside the settings, a lock file | `add_entry`, `remove_entry`, `boot_sweep` | orphans are found after a crash, nobody else is signalled |
| terminal websocket | `src/ws/terminal.rs` | per connection: the session it has cloned | attach or create, input, resize, snapshot request, detach | an attached session is current |
| sync websocket | `src/ws/sync.rs` | a queue per client | tab and workspace broadcasts, mission control, attention | clients converge |
| attention ledger | `src/attention/`, `src/notification/` | epoch, revision, unread events per pane, read-mark deduplication | record, mark read, expire, cap, snapshot, delta | unread is shown, read stays read |
| clients' attention | `frontend/src/composables/attentionReconcile.ts`, `useNotification.ts` | a copy, masks, pending read marks | apply delta, snapshot and result, retry | the copy follows the ledger |
| tabs | `src/tabs/`, `src/session/manager.rs` | `tab_layouts`; between two locks, a handler's copy of one | create, split, move, extract, close, activate | a pane is in one place, clients show what the server has |
| layout trees | `src/session/layout.rs` | none | pure functions on JSON trees | leaves are kept, in order |
| snapshot, restore | `src/session/snapshot.rs`, `restore.rs` | a file, a dirty flag, a task that waits for quiet | save and restore tabs | the file catches up, a restart shows no pane twice |
| virtual screen | `src/vt_screen/` | two buffers, scrollback, cursor, command marks | feed, resize, track a command | no line is lost, indexes stay inside |
| event bus | `src/events/` | a broadcast channel of 1024, subscriptions | publish, bridge, webhooks, agents, plugins | events arrive once and in order |
| agent API | `src/agent.rs` | run slots, tracking on a shared screen | run, wait, interrupt | a run ends, with its own result |
| MCP server | `src/mcp/` | list of event streams | requests, tools, streams | a request is answered |
| plugins | `src/plugin/` | directory, registry, table of processes, one lock per plugin | install, update, remove, link, start, stop, watch | files change only under stopped processes |
| settings | `src/settings/`, `src/workspace_mgmt/` | one record and one list, each with a file | read, upgrade, change, save | file and memory agree, a change stays |
| themes, languages | `src/settings/themes.rs`, `locales.rs` | a directory each | install, delete, list | the list has what was installed |
| authentication | `src/auth/` | codes, sessions, the token | log in, validate, revoke | what has ended stays ended |
| agent tokens | `src/token.rs` | a map, revoked hashes, a file | create, revoke, delete, touch | the file has what the map has |
| templates | `src/templates/` | files and an index | save, delete, apply | the index lists the files, a template is applied whole |
| command history | `src/history.rs` | the entries of a file, deleted ones | reload, push, delete | a deleted command stays away |
| workspace files | `src/workspace/` | none but the file system | create, rename, move, delete, upload, read a range | nothing of another request is replaced |
| file watcher | `src/file_watcher.rs` | a channel per path | subscribe, watch, unsubscribe | who watches learns of a change |
| update check | `src/update_check.rs` | a cached answer with its age | check, force | no answer is older than it says |
| shell probe | `src/platform/shell_probe.rs` | one cached result, one probe under way | probe, wait | one probe at a time, results are fresh |
| mission control | `src/mission_control/`, `src/ws/sync.rs` | open or not, what is highlighted | toggle, switch, move, confirm | the highlight is on what is shown |
| desktop shell | `src-tauri/src/` | the page's attachment, window phase, quit request, autostart entry, download | spawn, write, quit, show, register, download | see [services](#services) |
| frontend terminal | `frontend/src/composables/useTerminal.ts` | transaction depth, what it owes | write, hold back, ask for a snapshot | nothing held back for ever |

The monitor, the proxy and the mobile shell are listed in `PROJECT.json` with
why they are left out, and each component with what of it is.

### How they interact

    browser --terminal ws--> handle_socket --> SessionManager.sessions --> Session
    PTY reader -> screen -> output_tx -> broadcast_task -> queues -> browser
    PTY reader -> EOF -> close_session_for_session -> close plan -> ledger, events, sync ws
    browser --sync ws--> tabs, read marks      ledger of attention --deltas--> sync ws
    POST /api/tabs -> create_session -> reserve, spawn, add_entry, publish
    reaper every 30 s -> scan_unowned -> try_reap_session -> close plan
    boot -> boot_sweep, restore (before the server listens)
    changes of tabs -> dirty -> snapshot task -> file      quit, shutdown -> the same at once
    POST run / MCP -> screen marks <- reader of the session
    HTTP handlers -> settings, workspaces, tokens, templates -> files
    everything -> event bus -> bridge to sync ws, webhooks, agents

Everything shares `Arc<Session>` clones and the `SessionManager`. A clone lives
on after its session has left the map; identity is `Arc::ptr_eq`.

### What is hard

- Handlers are async tasks and blocking threads. Between two locks anything can
  happen: a pane is closed between lookup and attach, a shell exits while its
  pane is being created again, a client attaches while the reaper decides.
- Output takes two ways to a client, live and by snapshot, and synchronized
  updates (DEC mode 2026) hold one of them back. The program, a limit on the
  buffer, a timeout, a resize and a snapshot can each end an update.
- Three locks hold three copies of a size, and one of them is only tried.
- Servers crash. Children survive them, and the numbers by which they are known
  are given to other processes.
- Clients lose connections, repeat requests, and meet a restarted server whose
  counters begin again.
- Most state is read under a lock, changed as a copy without, and stored under
  the lock again; files are saved beside that. Two requests undo each other
  unless something forbids it.
- Directories and index files are changed by several handlers without a lock,
  and a user may change them by hand.
- Some guards are kept over a wait: of a shard of the session map by a run, of
  the settings by an MCP request.

`PROJECT.json` lists the hazards, each with its line and the properties about
it.

## Modules

| module | models |
|---|---|
| `SessionLifecycle` | manager, terminal websocket, reaper, tabs as sets of leaves; refines `PaneRegistry` |
| `PaneRegistry` | abstract: a pane is vacant or held by one object, once |
| `SessionLifecycleProofs` | the theorems about both |
| `PidLedger`, `PidLedgerProofs` | ledger file, processes, crashes, the sweep; its theorems |
| `SessionStream`, `SessionStreamProofs` | reader, broadcast task, synchronized updates, queues, snapshot handshake, the receiving frontend; its theorems |
| `Utf8Forward` | the carry of the broadcast task |
| `SessionResize` | debounce task, handshake, writer, three sizes |
| `AttentionSync`, `AttentionSyncProofs` | attention ledger, sync connections, copies and masks of clients; its theorems |
| `TabSync` | handlers of tabs and their copies, broadcasts, a client, the snapshot file, crash and restore |
| `TabSyncProofs`, `SyncProofs` | the theorems about it: places of panes, file and restart; what a client shows |
| `ServiceProofs`, `StoreProofs` | theorems about 25 of the small parts below, listed under [Proofs](#proofs) |
| `LayoutTree` | the trees of `layout.rs` under the handlers |
| `VirtualScreen`, `CommandTracking` | the screen of a session; how a run learns that its command ended |
| `AgentRuns` | run slots, guards of the session map, worker threads |
| `McpRequests` | MCP requests under the lock of the settings, event streams |
| `EventBus`, `SyncConnection`, `MissionControl` | the bus and its listeners; the queues of a sync connection; the shared overview |
| `PluginOps` | one plugin: files, registry, processes, watcher |
| `SettingsStore`, `SettingsFile` | saving of settings and workspaces; upgrade and normalisation |
| `InstalledFiles`, `Templates`, `CommandHistory`, `TokenStore` | directories and files with what is listed of them |
| `LoginSessions` | codes, logins, sessions |
| `WorkspaceFiles`, `Uploads`, `RangeRead`, `FileWatch` | files of workspaces |
| `UpdateCheck`, `ShellProbe`, `SshConnect` | work that several requests share or wait for |
| `DesktopQuit`, `DesktopAttach`, `WindowActions`, `Autostart`, `DesktopExec`, `UpdateDownload` | the desktop program |
| `MCServices` | all of the small parts beside each other, for TLC |

The modules meet at named places. `SessionLifecycle` ends where a child is
spawned or killed, and there `PidLedger` begins (`Spawn`, `Record`, `Publish`,
`Claim` are the same moments of `create_session` and `execute_close_plan`).
`SessionStream` takes a published session and its end for granted, `Utf8Forward`
details its `Forward`, and `SessionResize` the resize that `SessionStream` keeps
as a step of its own. The state spaces multiply without new behaviour, which is
why these are separate modules and not one.

### Session lifecycle

A session object is a *generation* `g \in Gens`; `sessions`, `reservations` and
`unowned` are the maps of the manager, `tabs` and `leaves` the layouts as sets,
`stage` the way of a generation from its spawn to the end of its close, and
`task` the program counters and locals of the requests. Each action is one
section of the `lifecycle` lock, or one access to an atomic or a per-session
lock; what the code does between them is interleaved.

| code | actions |
|---|---|
| `create_session` (`pty.rs`), `reserve_session`, `SessionReservation::publish`, the drop guards | `ReserveSession`, `SpawnChild`, `SpawnFails`, `Publish`, `RollbackSpawn`, `DropReservation` |
| `handle_socket` | `WsUpgrade`, `SessionForAttach`, `MissedLookup`, `MirrorConnected`, `Revalidate`, `AddClient`, `RemoveClient`, `HasClients`, `MirrorDetached` |
| `register_singleton_tab` | `SingletonCheckCurrent`, `SingletonCheckReferenced`, `SingletonInsert`, `SingletonRecheck` |
| `close_session`, `close_session_for_session`, `execute_close_plan` | `CloseSession`, `NaturalClose`, `ExecuteClosePlan` |
| `start_cleanup_task` | `ScanUnowned`, `TryReap`, with `Tick` for the clock |
| `update_layout`, `remove_tab`, `tab_list`, `set_active_pane_id`, `recheck_publish_or_correct` | `TabStep` |

`UpdateLayout` writes *any* set of known leaves: handlers of tabs work on copies
they read earlier, and this covers every such copy. The order of an unwinding is
the code's: `PendingSpawn` is dropped, and kills the child, before the
reservation is. `CorrectLateLayout` joins the check and the correction, two
sections in the code, into one step. Between the two nothing can change the
answer, since a generation that has left the map does not come back.

Two behaviours of the code to keep in mind when reading the properties:

- A session that no client ever joined keeps the status it was created with, so
  it counts as connected and the reaper never takes it. `AbandonedIsReaped`
  therefore speaks of sessions that are disconnected.
- The age in `unowned_since` is not restarted by a time between two scans in
  which a layout did show the pane. `ReapOnlyAbandoned` states what the code
  ensures: the session is old enough, out of every layout and disconnected in
  the state in which it is taken.

### PID ledger

A process is an identity, the pair of PID and start time that the code
compares. `pid` and `group` are numbers the kernel hands out again, to shells,
to what they fork, and to strangers. `ledger` is the file, replaced atomically
under a file lock. Servers boot, sweep, serve and crash at any step, several at
a time. A sweep sends TERM to a group, waits, compares again, sends KILL and
looks once more; between these, processes exit, fork and start.

A read of an unreadable or corrupt file returns an empty list in the code
(`ledger.rs:104-132`), and the next write drops what was there; the constant
`Unreadable` allows it. A pane id can be created again while the removal of its
old entry is under way; the constant `Recreate` allows that. Entries are keyed
by pane and owner, so that removal takes the *new* entry out. Where an invariant
does not survive these, it is stated for instances without them, and the safety
of the sweep (`StrangersSpared`, `ForeignSpared`) is shown with both.

A signal and the probe right before it are one step: the window between
`kill(0)` and `kill` is the one the operating system leaves.

Left standing by the code, and by the properties: a group whose leader has died
is never swept, and a close that is confirmed because the backend reports an
exited shell kills no background member of its group.

### Output stream

Chunk `k` is the `k`-th read. `fed` counts what the screen was fed, and a chunk
goes from `reading` through `output` and `batch` to `buffer` or to the clients'
`queue`s, and from there to `received`. `base[c]` is what the snapshot of `c`
shows. A snapshot request first ends an update that is on, then draws and sends
under the clients lock. Whoever ends an update keeps the sync lock between the
flush and `SyncEnd`; `ending` names it. `depth` is the `_transactionDepth` of the frontend,
which writes only at zero.

Chunks are numbers: what a snapshot draws is `1 .. base`, and the bytes are the
matter of `Utf8Forward`. The partial character that the broadcast task carries
between batches is therefore not in this module. A burst of `try_send` to one
client is one step. `Peer` is another client of which only its resizes are
kept, since these end an update for everybody.

`NothingMissing` and `NoWedge` are about clients no send to which has failed.
The code drops an event when the queue of 10240 is full; a dropped chunk is
noticed by nobody, a dropped `SyncEnd` leaves the frontend in its transaction.
The instances use queues of 4 so that this happens, and `lossy` remembers it.

### Resize

`pty` is what the kernel tells the program, `size` and `screen` the copies of
the session. A request goes through a watch channel, 25 ms of quiet and a check
that its client is still there. `Session::resize` takes the backend with
`try_lock`; while input is being written it skips the PTY, sets the two copies
and reports success. A joining client's snapshot request waits for the backend
instead, and resizes in three steps of its own, in between which the debounce
task may do its three.

`RestsAtLastRequest` is stated for sessions no snapshot request has resized:
when the two interleave, `size` and `screen` can end up different until the
next resize (`mod.rs:389-395`, `425-430`).

### UTF-8

The six classes of bytes that decide what `str::from_utf8` accepts, and the
carry of at most three bytes. UTF-8 in means UTF-8 out, wherever it is cut. Of
a byte that is not UTF-8 the model keeps what the code does: with more than
three bytes behind it, all of them become one U+FFFD.

### Attention

The server side is one ledger with its `epoch`, `revision` and `nextSeq`;
`ledger[p]` has `latest_event_seq`, `read_through_seq` and the unread events.
Every operation begins with `expire_into` and ends with the caps, and its delta
is the difference it made, as whole rows. Some deltas are broadcast under the
lock (`process_notify`, `apply_mark_read`), others after it (`send_bell`,
`pane_closed`, `sweep`): `outbox` holds those in between, so that they overtake
each other. `Connect`, `TakeSnapshot` and `SendSnapshot` are the three moments
of a registration. A client's copy, masks (`overlays`), unanswered requests and
retries follow the two TypeScript files function by function.

The end of `DEDUP_TTL` (10 minutes) is left out: a client gives a request up
after four times five seconds. `PENDING_CAP`, notices without a pane, severity,
debouncing and presentation are left out. A repeated notice of a producer is
answered from the deduplication and changes nothing here.

### Tabs

`TabSync` keeps a tab as the set of its leaves. A request is a record `req[h]`
with its program counter and its copy; every read, store, spawn and broadcast is
a step, so that two requests, the terminal websocket of a client and the
snapshot task interleave at every point where the code gives a lock up. `queue`
and `replica` are the messages to one client and what it shows, `file` and
`draft` the snapshot file and what the task has collected, `dirty` the signal.
A crash may come at any step, and the restart spawns what the file says tab by
tab.

Some interleavings do lose a pane or leave a client behind. `slips` remembers
which of them has happened, and each property names the slips it excepts;
everything else is covered.

| slip | what happened | excepted by |
|---|---|---|
| `stale` | a copy was stored over another's change | `InSync`, `OnePlace` |
| `reordered` | a broadcast came after one of a later change | `InSync`, `GoneTabsGo` |
| `late` | the same, by the `TabCreated` of a tab that is gone, which `create_tab` takes back | `InSync` |
| `overtaken` | the list of a new client was newer than broadcasts that were still on their way | `InSync` |
| `unannounced` | `tab_list` dropped a tab without telling anybody | `InSync`, `GoneTabsGo`, `OnePlace` |
| `merged` | a tab was merged into another while `create_tab` was at it | `GoneTabsGo` |
| `early` | a shell ended before its tab was stored | `OnePlace`, `RestoredOnce` |
| `unsaved` | the file could not be written | `FileCatchesUp` |

`InSync` compares the client with the server exactly. `GoneTabsGo` says less, but
also of stale copies and overtaken lists: no tab stays at a client for good. What
the slips do is told under [findings](#findings-and-observations).

`LayoutTree` follows `layout.rs` node by node, and next to the trees keeps the
order in which a user has arranged the panes. `ReadsAsArranged` compares the
leaves of the trees with that order after any sequence of splits, moves,
extractions and removals; it says that no leaf is lost, doubled or swapped,
whatever the shape of the tree.

### Services

The parts that share no state with each other are instantiated by `MCServices`.
A behaviour is one of one part (`part`), whose variables take the slots `v1`,
`v2`, ...: the state spaces add up and do not multiply. A property of
`MCServices` joins what is of one kind and names for each part the definition
of its module that says it exactly.

| part | module | each action is | what is stated |
|---|---|---|---|
| screen | `VirtualScreen` | one control function, or a resize | `HistoryKept`: a line that scrolls off the primary screen is in the scrollback; `IndexInBounds`: for any sizes clients ask for |
| commands | `CommandTracking` | a chunk fed, a poll, a mark of the shell | `NotBeforeItsEnd`: no answer "shell integration" for a command that has not ended |
| agents | `AgentRuns` | a step of a run or of who closes a session | `SlotsAreRunsAndLosses`; runs and closes end |
| mcp | `McpRequests` | a wait for the lock, a tool, an answer | `HandledWhileEnabled`, `StreamsHaveAnswers` |
| events | `EventBus` | a publication, a reception, a change of subscriptions | `ForwardedOnce`: in order, once, only what was asked for |
| sync | `SyncConnection` | a message between the two queues of a connection and its socket | `NoGaps`: no message is skipped; who stops reading is disconnected |
| overview | `MissionControl` | an operation under the lock, a change of tabs | `HighlightIsShown`: a step leaves the highlight on a tab of the workspace shown |
| layouts | `LayoutTree` | a handler | `ReadsAsArranged`, `ActiveIsShown` |
| plugins | `PluginOps` | a step of a request, a process, its supervisor, the watcher, the boot | `ChangesMeetNoProcess`: requests change files under no process that has not at least been killed and outlived its time; the registry catches up |
| settings | `SettingsStore` | a read, a save, a store | `SettingsSaved`, `WorkspacesSaved`: at rest the file has what memory has |
| upgrade | `SettingsFile` | a load, a save, a change by hand | `StartsSettle`: one load brings any old file to rest; `KeysKept` |
| tokens | `TokenStore` | a change, a save entry by entry | `TokensSaved` |
| installs | `InstalledFiles` | a write, a rename, a deletion, a read of the directory | `ListsWhatWasInstalled` |
| templates | `Templates` | a file or an index written or not, a shell | `AllListed`: but for those a failed or broken-off save left unlisted; `AppliedWhole` |
| history | `CommandHistory` | a reload, a push, a deletion, a list | `DeletedStaysAway`, `ClientsShowEntries` |
| logins | `LoginSessions` | a look at a code or a session, a login, a revocation | `EndForGood`: a code lets one login in, an ended session stays ended |
| files | `WorkspaceFiles` | the look and the act of a handler | `TreeIsSound`, `NothingIsReplaced` |
| uploads | `Uploads` | a file created, written, removed, or not | `AllOrNothing`: an upload leaves all its files, or takes back those it can |
| ranges | `RangeRead` | a request for bytes of a file | `PartsAreExact` |
| watch | `FileWatch` | a subscription, an event, an end | `Paid`: who watches learns of a change or is disconnected |
| updates | `UpdateCheck` | a check, an answer, time | `AnswersAreRecent` |
| probes | `ShellProbe` | a caller, a probe, time | `OneProbe`, `ProbedSinceAsked` |
| logon | `SshConnect` | a step of the connection, a prompt, an answer | `AnswersFit`, `ListedMeansLive` |
| attach | `DesktopAttach` | a step of `pty_spawn`, a forwarder, the write task | `PageHasItsClient`, `InputKept` |
| quit | `DesktopQuit` | the page, the deadline, the cleanup | the program ends |
| window | `WindowActions` | a request, a creation on the main thread | `RequestsShow` |
| autostart | `Autostart` | a check, a write, a reading back | `AnswersHold` on four platforms |
| entry | `DesktopExec` | one more character of the path | `ExecRoundTrips` |
| download | `UpdateDownload` | a chunk, an end, early or not, a cancellation, a rename | `TargetIsWhole`: whole or absent, if the response said its length |
| resize, utf8 | `SessionResize`, `Utf8Forward` | see above | `RestsAtLastRequest`, `Utf8Intact`; handshakes and debounces end |

Where the code loses something under one interleaving, the module keeps a
history variable that says so, and its property excepts exactly that; the
comment of the property names the case, and
[findings](#findings-and-observations) tells it.

## Runs

Twelve runs; ten have to pass, two show a finding. Each property of a passing
run has a mutant of the code that breaks it.

| run | instance | shows |
|---|---|---|
| `lifecycle_safety` | one pane, its tab and another one, two tasks, two generations, grace of one tick | exclusive spawns, the map, exits, ages, reaping, order of stages, refinement of `PaneRegistry` |
| `lifecycle_liveness` | one pane and a widget, one task, two generations | reservations are released, abandoned sessions reaped, a close leaves no leaf |
| `ledger_safety` | two servers, one pane, three processes, two numbers, `Recreate` and `Unreadable` | nobody else is signalled |
| `ledger_liveness` | the same without the two flags and without symmetry | a running shell keeps its entry; a sweep ends |
| `stream_safety` | one client and a resizing peer, two chunks with any synchronized updates, queues of four | order, completeness, transactions |
| `stream_liveness` | one client, two chunks, updates that are never ended | updates end, waiting for a snapshot ends |
| `attention` | two panes of which the ledger keeps one, one client, two starts of the server, two connections, two events, one read mark sent up to twice | watermarks, read marks, copies |
| `attention_badges` (violated) | two panes, one connection, two events | `BadgesArrive` |
| `tabs` | two tabs, room for a third, four panes, one of them over SSH, and a plugin leaf; two requests at a time with a client, or one with the file and a crash | clients, places of panes, the file, restarts |
| `services` | every part of `MCServices`, with one to three of whatever can race | what holds in their states and steps |
| `tasks` | the parts with tasks: resize, agents, plugins, watch, quit, sync | what happens in the end |
| `mcp_lock` (violated) | one request and one change of the settings | `RequestsAreAnswered` |

**Why the bounds suffice.** Two generations are what it takes for one to be
mistaken for the other, and two tasks for a race; a third adds no new pair.
Ages matter only against the grace period, which one tick represents. With
three processes and two numbers a PID is reused by a stranger while its former
owner's group still has a member. In the stream, two chunks give "one before and
one after" each lock, and the buffer limit of two overflows. Six bytes hold
a four-byte character cut anywhere, and a piece of the next. In `attention`, the
second event reuses its number in the second epoch, which is what a late read
mark must not confuse, and the second pane evicts the first. In `tabs`, two
requests race on every pair of tabs, including a move between the two, and the
third tab is the one that is created. In `services`, limits (the capacity of the
bus and of queues, the cap on uploads, the attempts at a code, the rows of
a screen) are one or two, so that they are reached; two callers share what is
shared, and a third stands beside them where one must be able to come back
(a third page in `attach`, a third probe). Screens have none, one or two rows and
columns. A request installs another version of the plugin than is there at the start. In
`upgrade` the files vary one aspect of the upgrade at a time, over all versions at which that
aspect changes. Every bound is a constant named in the comment of its module.

**Fairness.** `lifecycle_liveness`: tasks that have been started run on, the
reaper's interval fires and time passes; nothing is assumed of clients and of
shells. `ledger_liveness`: the sweep runs in the main thread before the server
listens (`src/main.rs:259`, `src-tauri/src/main.rs:693`), so only its own steps
are fair. `stream_liveness`: threads, tasks and timers run, and a visible
frontend sends the snapshot request it owes; no fairness for the program on the
PTY, for joining or leaving. `tasks`: `Step(i)` is the `i`-th task or thread of
a part (the debounce task and the blocking threads with an end of each write;
the loop of a run and who waits for it; a supervisor, whose wait for a killed process has
an end, a request, the watcher and the seed of plugins; the watcher tasks and connections; the page's deadline and
the cleanup; the forwarding tasks of a connection and the monitor's samples),
each weakly fair, since the runtime goes on with every task that is ready.
Requests of users, commands, changes of files, and the page's answer to a quit
are not fair. `agents` has one worker thread more than requests that block one;
with as many, the handlers and the runs wait for each other (see below).

The liveness of the parts is stated as `[]<>`: over and over a request is over,
a debt is paid. A request that is under way for ever would falsify it, and a part
whose requests are used up stays in such a state.

**Deadlock** is not checked where the system may stop: all servers down, a
session over, all bounded input used up. The lifecycle instances check it.

**Symmetry** of tasks, of servers, processes and numbers, and of panes is used
in runs with safety and action properties only.

## Proofs

TLC checks the instances above; these theorems hold for all panes, tabs, tasks,
generations, servers, processes, clients, numbers and limits. They rest on the
assumptions the modules name and on nothing else: `PanesAssumption`,
`BoundsAssumption` (`SessionLifecycle`); `NoneAssumption`, `FlagsAssumption`
(`PidLedger`); `ClientAssumption`, `UseAssumption`, `BoundAssumption`
(`SessionStream`); `CapAssumption`, `PaneAssumption`, `NoneAssumption`
(`AttentionSync`); `IdsAssumption`, `StartAssumption`, `BoundsAssumption`
(`TabSync`); and for the parts in `ServiceProofs` and `StoreProofs`

- what bounds a part (`Size`, `MaxProbes`, `MaxSpawns`, `MaxInputs`, `MaxHides`,
  `MaxSize`, `MaxLines`, `Limit`, `MaxCommands`, the counts of `AgentRuns` and
  `SessionResize`, the times of `UpdateCheck`) is a number, `MaxVersion` is not 0;
  the sizes of a screen are any numbers, of which one of each is not 0, since a
  session starts with 80 columns and 24 rows (`SizeAssumption`);
- the runs over HTTP and the requests to the history are finitely many, and there
  is a PID and a template's id;
- the requests that save, those that delete and those that list are different ones
  (`Templates`, `CommandHistory`, `InstalledFiles`), as are the calls of different handlers
  (`McpRequests`);
- uploads and clears are different requests, and the bounds of `Uploads` are its
  module's `NamesAssumption`;
- there is a tab at the start and the tabs and workspaces are sequences
  (`OverviewAssumption`: `Init` has the first tab active, as a client that opens the
  overview has one);
- there are at least the two files `WorkspaceFiles` starts with, and what stands for
  nothing and for a directory is not a file (`FilesAssumption`);
- `Kinds` and `Platforms` are among those the modules know;
- the values that stand for "none" differ from what they stand beside.

Those of the modules above say that bounds are numbers, that the limits of the code
are not 0 where it needs room for one, and that model values differ from what
they stand beside. `StartAssumption` says that no pane is in two of the tabs a
behaviour of `TabSync` starts with: a server starts with none
(`SessionManager::new`), or with those of a file from a server in which nothing
had gone wrong; later files may say anything that the model can write.

**`SessionLifecycleProofs`.** `IInv` joins the type invariant, the map, the
reservations and the ages with two further parts that make it inductive:

- `TaskInv`, what the locals of a task are worth at its program counter: a task
  at `spawned` has a spawned generation of its own pane, and one that holds a
  clone has a generation of its pane that was published once.
- `GenInv`, what a generation's fields are worth at its stage: it has
  a pane once it is spawned, is exited only when its close was claimed, and is a
  candidate of the reaper only once it was published.

Without `TaskInv`, `Publish` could put a generation into the map under a pane
not its own; without `GenInv`, a generation could be exited when it is published. There is one lemma
per action, over frame lemmas for what an action leaves alone
(`TaskFrame`, `MapFrame`, `AgeFrame`, `GenFrame`). From `Invariance` follow

| theorem | states |
|---|---|
| `TypeCorrect` | `TypeOK` |
| `SpawnExclusive` | `SpawnIsExclusive`: the `Occupied` arm of `publish` is dead code |
| `MapHoldsLive` | `MapHoldsLiveGenerations` |
| `CurrentNotExited` | `CurrentSessionNotExited` |
| `AgeIsOwn` | `UnownedAgeIsOwn` |
| `ReapsOnlyAbandoned` | `ReapOnlyAbandoned` |
| `StagesOrdered` | `StagesInOrder` |
| `ClosesLeaveNoLeaf` | `CloseLeavesNoLeaf` |
| `Refinement` | `ImplementsRegistry`: the manager implements `PaneRegistry` |

`Refinement` maps `holder` to `sessions` and `spent` to the generations that
were ever published. `RegistryMove` splits the steps by what they do to the
stages, and `RegistryStep` shows that each publishes one generation into a
vacant pane, vacates one, or stutters.

**`PidLedgerProofs`.** `LInv` adds to the types: `KernelInv` (a group belongs to
one owner, since its number is not handed out while it has a member),
`ShellInv` (the stage of a shell against its life), `SweepInv` (one sweep holds
the lock, the group it has signalled belongs to a server that is down) and
`EntryInv` (under readable files and no pane created twice, the key of a live
shell is its own). From it

| theorem | states |
|---|---|
| `TypeCorrect` | `TypeOK` |
| `StrangersAreSpared` | `StrangersSpared`, for any reuse of numbers |
| `ForeignIsSpared` | `ForeignSpared`, for any number of servers |
| `EntriesOutliveProcesses` | `EntryOutlivesProcess`, if panes are created once and the file can be read |

**`SessionStreamProofs`.** Output is taken for a pipeline whose stages are the
chunk the reader holds (`reading`), the channel (`output`), what the broadcast
task has taken (`batch`), the buffer of a synchronized update (`buffer`), then a
client's queue and its screen. The theorems are about one client, and none of
them is inductive: each needs to know of every stage where it stands between
the others. `IInv` joins

- `TypeInv` and `PlaceInv`: which stages are empty where. Nothing is buffered
  outside an update, nobody ends an update while one is active, and the task
  holds nothing while it waits.
- `FedInv`: whatever is under way, the screen was fed.
- `OrderInv`: each stage is sorted and lies before the stages behind it, and
  what a client has, and has queued, before all of them. This is where the
  order of locks counts: were `buffer` flushed after a chunk passed by it,
  `PipeInv` would fail a step before any client notices.
- `CompleteInv`: a client without gaps has, in its snapshot, its screen, its
  queue and the pipeline, all that was fed.
- `WedgeInv`: read from the depth its frontend is at, a client's queue leads
  out of the transaction, or into one that is open or just being ended.

All sending steps (flush, broadcast, `SyncBegin` and `SyncEnd`, the reset of a
resize, the exit) are instances of one lemma, `Moves`, about a burst of which
each client gets the part that fits in its queue; what a step does to the parts
of `IInv` is then said once for bursts of data and once for bursts of markers.

| theorem | states |
|---|---|
| `TypeCorrect` | `TypeOK` |
| `OrderKept` | `InOrder`, for any number of clients, reads, resizes and any capacity |
| `NoneMissing` | `NothingMissing`: `atomic_resize_and_snapshot_for_client` and `snapshot_pending` leave no gap |
| `NoneWedged` | `NoWedge` |

**`AttentionSyncProofs`.** A message says something of a pane, and so do the
ledger and each copy; `AtMost` orders what they say, by the last event and then
by the read mark. `IInv` joins

- `LedgerInv`: each entry is `Whole`, that is `UnreadIffBehind` with the bounds
  of its numbers; `expire_into`, `record_pane_event`, `mark_read` and the caps
  each keep an entry whole (`ExpiredEntryFacts`, `RecordedEntryFacts`,
  `MarkedEntryFacts`, `CappedFacts`). The last of these needs that the event
  just recorded is the latest of all: the pane given up at the cap is never the
  one it belongs to.
- `LinkInv`: types of connections, queues and the outbox.
- `AskInv`: a request is `Honest`; if it is of this epoch, some copy has had
  the event up to which it marks. It says nothing of requests of other epochs,
  which `Verdict` refuses.
- `NewsInv`: a delta or snapshot under way, in a queue, held or in the outbox,
  is of this epoch and says no more than the ledger, and exactly what the ledger
  says if it has its revision; of two the one with the later revision says no
  less. A restart empties all of them.
- `StoreInv`: a copy of this epoch says no more than the ledger, and no more
  than any message it would still take.

`NewsInv` depends on `Event`: an event always changes the ledger, so its delta
never has the revision of an earlier one. That deltas carry only changed rows,
and that late ones are refused, is not in the way: what a message does not say
of a pane it cannot contradict. (It is why badges get lost, see
`attention_badges`: copies are never ahead, but may lack rows.) `OnlySeenIsRead`
needs besides that a pane whose entry expires as a whole has nothing unread
(`StaleInv`).

| theorem | states |
|---|---|
| `TypeCorrect` | `TypeOK` |
| `UnreadTells` | `UnreadIffBehind`, for any caps |
| `OnlySeenIsRead` | `ReadOnlySeen`, for any number of clients, retries, connections and restarts |
| `ReadMarksStay` | `ReadStaysRead`, for any order of deltas and snapshots |

**`TabSyncProofs`.** Between two steps of a handler a leaf may be in no layout at
all, so `OnePlace` is far from inductive. `IInv` joins

- `TypeInv`: every copy of a layout, in a request, a client or the file, is made
  of ids handed out before, which is why a new id is in none of them. `Sensible`
  says what the locals of a request are worth at its program counter.
- `CleanInv`, in two parts, as long as none of the excepted slips has happened.
  `PlaceInv`: a leaf that has one place (`Placed`) is in one layout at most, or in
  the hands of one request (`Holds`) that is about to store it, and never both. All
  leaves have one place if they start with one (`OneEach`) and there is a client to
  follow; where the file is followed only those with a session have, for a plugin
  leaf that moves while the tabs are read is in two tabs of the file. A leaf with
  a session is in one of these or just spawned by the restart; the tab for which a request
  has taken an id (`Reserves`) is empty and named by no other request.
  `RestoreInv`: what the restart has spawned belongs to the tab it is at, and
  what is stored already has its sessions; therefore a leaf that the file shows
  in two tabs is refused the second time by `create_session`, and its tab left
  out.
- `BootInv`: nobody is served during a restart, so it meets no request.
- `FileInv`: while the tabs are read, those that have been read are up to date,
  or a signal waits.

The lemma `Place` says once what a step of a request may do to the places; the
handlers are instances of it (`Hands` for those that store nothing, `Stores` for
those that store one tab, `Purges`). A slip is what makes the copy of a request
differ from the layout it replaces: without one, `CleanStore` has the copy equal
to it, however many steps lie between reading and storing.

| theorem | states |
|---|---|
| `TypeCorrect` | `TypeOK` |
| `PanesInOnePlace` | `OnePlace`, for any number of concurrent requests, panes and tabs |
| `RestoresOnce` | `RestoredOnce`, for any file, spawns that fail and shells that end |
| `FileIsCurrent` | `FileCatchesUp`, for any changes while the tabs are read and any crash |

**`SyncProofs`.** What a client shows is compared with the server when nobody
sends anything, but between the two lie the broadcasts of all requests and a queue
of any length. The argument takes them apart.

- `ClientInv`: what a request has still to tell (`Pending`) is of one change, a tab
  once (`Batch`), and only a whole tab is moved so that nothing remains (`Meant`).
  Every step of a handler is then one of five (`Steps`): it keeps the layouts,
  overwrites with a stale copy, tells what it stores, lifts leaves out of a tab, or
  puts them into another one.
- `UntoldInv`: of a tab whose id a request has just taken nothing is told yet.
- `Agree` relates a client's layouts `S` to the server's: where they differ, a
  pending note or a request between its two stores says so, and where a note differs
  from the server, a later note does. Telling, lifting and putting keep it
  (`AgreeTells`, `AgreeLifts`, `AgreePuts`), and so does sending a note that does not
  come late, applied to `S` (`AgreeSent`). With nothing to tell it is equality
  (`AgreeQuiet`).
- `Shows(R, s, S)`: the queue `s` makes `S` of the replica `R`. It is said by a function
  that lists what the client shows after each message, so that a message more at
  the end (`ShowsMore`) or one less at the beginning (`ShowsLess`) extends or shifts it, and
  no induction over the queue is needed. `SyncInv` is that there is an `S` which
  the queue makes of the replica and which agrees with the server.

For `GoneTabsGo` there is no such `S`, because a stale copy may differ from everything.
`GoneInv` follows one tab instead: when the server has it no more, the queue has a
`TabClosed` behind the last `TabCreated` of it, or one is still to be told
(`Closings`), or the `create_tab` that made it looks once more (`Verifies`).

| theorem | states |
|---|---|
| `ClientsStayInSync` | `InSync`, for any panes, tabs, requests and messages; assumes `OneEach` |
| `TabsThatAreGoneGo` | `GoneTabsGo`, for the same, from any layouts |

`OneEach` holds of a server that starts with no tabs, and of one restarted from a file
that was written while no plugin leaf moved.

**`ServiceProofs`, `StoreProofs`.** `MCServices` runs one part per behaviour, on a small
instance; these modules take 25 of them, whose promises depend on the order of the steps of any
number of actors, each by `INSTANCE` with its constants free. What makes each
inductive, in `ServiceProofs` (clients, terminals, plugins):

- Logins: `CodeInv` (whoever was let in by a code has used it up, and nobody else
  was) and `SessionInv` (a session belongs to a login that is over with its code; one
  that ended is not there). `validate` lets the lock go between its two looks:
  what it does at the second is harmless because it only touches a session that
  is there.
- Runs: the slots are the HTTP runs that are on plus those whose caller hung up,
  counted with the library's facts about cardinality; that `Release` finds a slot to
  give back follows from the run that gives it back being one of them.
- MCP: `GuardInv`, the guards are those of the requests that are handled, and
  where there is one MCP is on, for a writer waits for all of them; `StreamInv`, what a
  stream has got is the endpoint and the part of the log since it joined.
- Sync: `SyncInv` follows a change through the forwarder's queue, the bounded
  queue and the frame that is being sent. Each change in one of them has every
  earlier one before it or behind it with the client, where the snapshot stands for
  all up to its version; while changes are forwarded, so does every change that was
  broadcast. The registration before the snapshots makes it true, giving up on a
  full queue keeps it.
- Bus: `BusInv`, a receiver is where what it has forwarded ends; a sync client has
  been sent nothing over the bridge that the bridge has not forwarded.
- Resize: `DebounceInv`, the debounce task works on the last request unless one it
  has not seen waits; with its program counter, what is set so far is that request's.
- Screen: `CursorInv`, the cursors of both buffers and the saved one are on the
  screen, or right behind a row, unless one is older than a resize or a wide character
  was printed on a screen of one column. A size without rows or columns ends what the
  model says (below). That scrolling and resizing keep the
  number of rows is a lemma each (`RowsMove`, `FittedFits`).
- Commands: `AloneRunInv`, a run that has a local shell for itself is the only one
  under way, its command is what is typed or runs, and until it has ended the screen is
  tracking. A prompt is only then taken for an end.
- SSH: `AskedInv`, of an attempt that waits, the prompt sent last is on its way,
  before one user, answered or lost, and no other prompt or answer is anywhere.
- Plugins: `TableInv`, a process whose PID was new has its entry, and nobody else
  has had the PID; `AloneInv`, who holds the lifecycle lock is alone with it, and by the
  time the files change all that live have been asked and have answered, or were given
  up on; `BootInv`, nothing is started before the seed is in place. The proof
  of the action property needs all three.
- Desktop's page: `AttachInv`, the forwarder of the last call has its client, unless a
  later call is on the way. For the input, `WriterInv` (a task that is not there
  holds nothing), `PlaceInv` (an input is in one place at most, and each channel has
  its inputs in rising order) and `ArriveInv` (none is in no place; with
  one page they follow each other without a gap). Positions are bounded by values,
  which spares an induction over the queues.
- Overview: the type invariant is enough, for an operation that changes the workspace
  shown or the highlight chooses the tab under the same lock, from the tabs there are then.

and in `StoreProofs` (what is kept in files, and the desktop program):

- Downloads: `DownloadInv`, the guard goes with the one call that runs, and the
  `.part` file has what that call has received, so that what is renamed is the whole
  installer, or all of a response without a length.
- Probes: `ProbeInv`, the probe under way is the one in the slot, and what it will
  list has been there since it began; `AskInv`, who waits joined before its end.
- Window: `WindowInv`, a window that is there and owed to somebody is visible.
- Autostart: `AutostartInv`, the answers themselves, once an answer is read back
  from an entry that is there. The proof is what showed that: in an earlier form of
  the model the reading back held for an entry that had gone together with the program,
  which takes two changes from outside, and the instance had one.
- Updates: `FeedInv` (what the feed has is not replaced yet), `CacheInv` (what is
  cached was there when it was asked for), `LockInv` (only the holder of the lock asks,
  with the cached ETag, so that a 304 speaks of the cache), `AnswerInv`.
- Tokens and settings: `TokenInv` and `StoreInv`, as long as no two saves meet, the one under
  way carries what memory has, and without one the file has it. The list of
  workspaces needs no such condition: it is changed and saved under one lock, and
  `delete_workspace`, which takes the lock again to save, saves what the list is by then.
- Templates, installed files, history: `IndexInv`, `ShowsInstalled` with `WritesAlone`
  and `NameInv`, `ListInv`: what is shown differs from what there is by the step
  that the one request under way still owes. Of the templates, whatever is written and not
  listed is in `cut`, or is the file of the one save under way (`Own`). `DeletedInv` needs no such condition:
  what was deleted is in nothing that is about to be added.
- Uploads: `HasItsFiles`, what a call has written so far is there, whole and its
  own, unless another was under way (`UploadsApart`, two at once know it). The
  trimming at the end is passed the call's own names and leaves them, wherever it stops;
  a rollback takes no others, and what it leaves is remembered in `names`.
- Files: `TreeInv`, the tree as it is written: what is in a directory has it there,
  only what is at the top is one, and no file is at two paths; `LookInv`, what a
  request saw still holds at its act if nobody changed an entry in between.
  `DirectoryMoves` and `FileMoves` say what a move leaves at each path;
  rename(2) would replace, and does not, because a request that is alone has looked.
- Ranges: `ResolvedIsAsked`, what `resolve_byte_range` returns for any size and header.

| theorem of `ServiceProofs` | states |
|---|---|
| `LoginsEndForGood` | `EndForGood`, for any codes, logins and calls of `validate` |
| `RunsAreLimited` | `SlotsAreRunsAndLosses`, and that no more runs over HTTP are on than `MAX_CONCURRENT_RUNS` |
| `ToolsRunWhileOn` | `HandledWhileEnabled`, for any order of requests and changes of settings |
| `StreamsMissNothing` | `StreamsHaveAnswers`, for any streams that join and hang up |
| `ChangesWithoutGaps` | `NoGaps`, for any capacity of the queue and number of changes |
| `EventsAreForwardedOnce` | `ForwardedOnce`, for any agents, plugins and capacity |
| `LastResizeWins` | `RestsAtLastRequest`, for any clients, sizes and failed writes |
| `ScreenStaysInBounds` | `IndexInBounds`, for any sizes, 0 and 1 included, and sequences of output; its exceptions are below |
| `AnswersComeAfterTheEnd` | `NotBeforeItsEnd`, for any runs and typed commands |
| `QuestionsAreAnswered` | `AnswersFit` and `ListedMeansLive`, for any connections, polls and late answers |
| `PluginsChangeAtRest` | `ChangesMeetNoProcess`, for any processes, PIDs and requests, with stops that run out of time |
| `ThePageHasItsClient` | `PageHasItsClient`, for any number of reloads |
| `InputsAreKept` | `InputKept`, for any number of pages and inputs |
| `HighlightIsOnCards` | `HighlightIsShown`, for any tabs, workspaces and clients |

| theorem of `StoreProofs` | states |
|---|---|
| `DownloadsAreWhole` | `TargetIsWhole`, for any size, calls, cancellations and responses with a length or without |
| `ProbesAreShared` | `OneProbe` and `ProbedSinceAsked`, for any requests |
| `WindowComesWhenAsked` | `RequestsShow`, for any callers |
| `AutostartAnswersHold` | `AnswersHold`, on each platform, for any edits from outside |
| `UpdatesAreRecent` | `AnswersAreRecent`, for any clock, TTL and back-off |
| `TokensSurvive` | `TokensSaved` |
| `SettingsAreOnDisk` | `SettingsSaved`, and that the list of workspaces is its file's (`ListIsSaved`) |
| `TemplatesAreListed` | `AllListed` and `AppliedWhole`, for any writes that fail, damage and restarts |
| `InstalledIsListed` | `ListsWhatWasInstalled`, for any crashes and failed writes |
| `DeletedCommandsStayAway` | `DeletedStaysAway` and `ClientsShowEntries` |
| `PartsAreAsked` | `PartsAreExact`, for files of any size |
| `UploadsAreWhole` | `AllOrNothing`, for any uploads, clears, names, cap and failures |
| `FilesAreKept` | `TreeIsSound` and `NothingIsReplaced`, for any requests and names, in a tree of two levels |

**Only model-checked.** Every liveness property, for liveness under fairness is
beyond the prover. The conjunctions in which `MCServices` states the properties of all its parts:
the theorems above speak of the parts one by one, and of these parts not of
`HistoryKept` (`VirtualScreen`) and the order of the workspaces' list, nor of
`FileWatch` and `DesktopQuit`. And what
`Utf8Forward`, `LayoutTree`, `SettingsFile` and `DesktopExec` compute: these are
properties of data, by folds and choices, to be shown by induction, which the prover
does not do.

## Findings and observations

Shown by a run:

- `attention_badges`: `register_client` takes the snapshot under the lock and
  sends it later, and the client is registered already
  (`src/notification/broadcast.rs:51`). A delta in between arrives first, the
  client takes over its revision and refuses the snapshot as old
  (`attentionReconcile.ts:125`): all other unread panes stay without a badge.
  Two bells whose deltas overtake each other, or a delta that comes between the
  restart of a server and its snapshot, lose a badge in the same way.
- `mcp_lock`: `mcp_message_handler` keeps a read guard of the settings while the
  request is handled (`src/mcp/transport.rs:169`), and `tab_create` and
  `pane_split` read them again (`src/tabs/service.rs:48`, `175`). tokio's lock
  serves in order: with a change of the settings between the two reads, both
  wait for ever, and so does every later request that reads the settings.

Statements of comments and documents that do not hold. Each is a definition of
the module it is about, which TLC finds violated on that module's instance:

| definition | statement | what the code does |
|---|---|---|
| `EventBus!SlowListenersGoOn` | slow consumers lose older events (`events/bus.rs`) | the bridge and the webhooks stop for good after lagging by 1024 (`session/manager.rs:999`, `events/webhook.rs:174`), and an agent's forwarder with them |
| `EventBus!GuardIsCautious` | the 409 guard errs on the side of caution | a subscription and a disconnection that cross can leave a wanted one unknown |
| `CommandTracking!AnswersForItsCommand` | a result by shell integration is about the run's command | a mark of a command typed before ends the run |
| `VirtualScreen!NeverPanics` | the cursor follows the content | a saved cursor is not clamped by a resize; restoring it makes the next index fall outside. So does an erasure after a wide character on one column (`performer.rs:62-100`, `251`, `290`), and a size of 0 underflows (`data.rs:237`); the server takes both from a client |
| `VirtualScreen!ScrollbackIsPrimary` | the scrollback belongs to the primary screen | a resize moves rows of the alternate screen into it |
| `DesktopQuit!KilledAreSaved` | the snapshot is flushed before sessions are killed | a session born between the flush and the collection is killed unsaved |
| `InstalledFiles!NeverHalfWritten` | a reader never sees a half-written theme | two installs of one id share the temporary file |
| `SettingsStore!ActiveIsLastActivated` | a PUT cannot clobber `active_workspace_id` | it stores the value it read before another request changed it |
| `SshConnect!ExitsAreCorrected` | a layout published during the exit is corrected | the correction's own message can come before that of the tab |
| `Templates!RebuiltIfMissing` | index files are rebuilt if missing | the next save writes an index of one |
| `UpdateDownload!NeverPartial` | a partial download is never mistaken for an installer (`update_download.rs:134-135`) | a response without a `Content-Length` that ends early is renamed (`update_download.rs:181`) |
| `UpdateDownload!CancelledIsNotSaved` | a cancelled download reports so | a second, refused, download clears the flag first (`update_download.rs:46`), and the cancelled one goes on and is saved |
| `TabSync!RestoreSkipsSsh` | SSH tabs are skipped (`restore.rs:4-5`) | `build_snapshot` writes no `connection_id` (`snapshot.rs:187`), so they come back as local shells |
| `SessionResize!FinalResizeApplied` | the final resize is always applied (`session/mod.rs:535-536`) | a resize that meets a write of input leaves the PTY as it was (`mod.rs:381`) |

Also against a comment: a connection that finds no session and spawns one stays
marked as waiting for a snapshot, and its live output is dropped until it
connects again (`ws/terminal.rs:334`, against `session/mod.rs:93-95`).

Seen while modelling:

**Sessions.**
- A WebSocket reconnect can spawn a shell: when the pane is closed between the
  tab check in `ws_handler` and the lookup in `handle_socket`, the connection
  falls through to `create_session` (`ws/terminal.rs:298`, against `36-37`).
- A detach that has read `has_clients()` can store `Detached` after another
  client has stored `Connected` and was validated (`ws/terminal.rs:278-281`).
  The reaper may then take a session in use, if no layout shows it.
  `ReapOnlyAbandoned` speaks of the flag, as the code does.
- `remove_entry` of a pane that is created again while it is being closed
  deletes the new entry (`ledger.rs:214`, `manager.rs:921`).
- `enqueue_control` drops `SyncEnd` when the queue is full (`mod.rs:737`,
  against `95-96`). An update may begin between the handshake's look at it and
  the replay (`mod.rs:464`). `ReplayBegin` can announce another size than the
  snapshot was drawn at (`mod.rs:487`). A handshake whose resize failed leaves
  its client waiting (`ws/terminal.rs:252-259`).
- `kill_child_and_confirm` gives up when input is being written (`mod.rs:197`):
  the shell lives and keeps its entry, until a later boot.
- The broadcast task leaves what is queued when the session exits
  (`pty.rs:103-105`), so the last output of a shell may be missing.
- A panic of the screen drops the rest of a chunk of a local session, and ends
  the task of an SSH session. Two clients that switch screens and save cursors
  share one saved cursor. `DECSTBM` accepts a top below the bottom.

**Attention.** A bell that comes after `pane_closed` brings the pane back, until
it expires. `ResyncRequired`, which the client handles, is never sent. A mask
can wait for a revision the copy gets only with the next change of any pane.

**Tabs.**
- Stale copies: a split or an update drops the title set by a rename in between;
  `close_tab` and `remove_tab` discard panes that came since its leaves were
  read; a late `layout_updated` for an unknown tab shrinks another one; the
  client's `UpdateLayout` brings a closed tab back; `activate_pane` stores the
  layout it read.
- `tab_list` drops tabs without telling clients and leaves their other panes
  without a place. `create_tab` sends its corrective `TabClosed` even if the tab
  has other leaves by then. `extract_pane` has no correction if its pane closes.
  A reconnecting page's `tab_list` does not refresh layouts it has.
- "All clients stay in sync" has exceptions. A copy stored over another's change is
  broadcast as it is, or, by `activate_pane`, not at all. Two requests may send
  in the other order than they stored. A client is registered before `tab_list` reads
  the layouts (`ws/sync.rs`), so the list may be newer than the broadcasts behind it.
  With three requests before the list (a plugin is put beside a pane, the pane is
  extracted into a new tab, the plugin is closed) the client finds the pane by the
  older messages in its new tab, gives that tab what they say of the closed one,
  and ignores the `TabCreated` of a tab it has: it goes on showing the closed
  plugin and not the pane.
- A snapshot that failed to be written is not tried again until the next change.
  A snapshot that caught a pane in two tabs makes the restore refuse the second.
  The claim of `restore.rs:9-11` fails if a shell exits between its spawn and the
  commit.
- `insert_pane_into_layout` is documented to return `None` for a target it does
  not find, and returns the tree unchanged. A removal can leave splits of the
  same direction nested.

**Agent API and MCP.**
- The reader of a local PTY takes command results away with each chunk, so that
  its runs are answered by the prompt or the time limit, never by shell
  integration; an SSH session keeps them, and has no `CommandFinished`.
- A run whose request is dropped keeps its slot. Slots are counted under one key
  for all tokens. Runs over a websocket and over MCP take none.
- A run holds a guard of the session map while it waits. Two blocked workers of
  two are enough to stop it.
- An MCP request keeps its guard of the settings during `terminal_execute`, up
  to an hour; every save of the settings and every later reader waits for it.
- With stdio switched on and HTTP off, answers still go to the event streams.

**Plugins and events.**
- A PID that is used again lets a stop, a report or a removal hit another
  process of the plugin; a second stop may be told 409 though the process has
  stopped. While the watcher rebuilds the registry, a plugin is "not installed".
- A killed process that has not ended after `PROCESS_REAP_GRACE` is marked as exited and
  its stop acknowledged (`exec/managed.rs:55-61`, `106-119`), so the directory is changed
  under it; the timeout of an exec waits for the child not at all. A scan removes a
  broken link under what was started from it, and may remove one a request has just
  made and is about to register. A seed that fails halfway leaves a plugin registered
  whose directory is gone, until the directory changes again. A delete that fails at the
  plugin's data leaves its registry entry to the watcher.
- `plugin_exec` holds a guard of the registry, so the rebuilding blocks a worker.
- The page does not await its subscriptions: a subscription and its end may be
  handled in the other order.

**Files.**
- Two saves of settings, workspaces or tokens that overlap may leave the file
  with the older state. `std::fs::write` is not atomic: a torn settings file
  counts as none, and the next PUT overwrites it. Expired and used tokens change
  without a save. A refused update of a workspace leaves its `connection_id`
  changed in memory; activation does not check that the workspace exists;
  reordering a part of the list leaves numbers twice.
- A deleted command can return until the next reload, and lists may be sent in
  the other order. A history file that is missing at the start is never watched.
- Two saves of templates lose index entries; a crash between file and index, or an
  index that cannot be written (`templates/store.rs:202`), hides a template; an update that races a deletion brings it back; applying
  stores the tab without another look at its shells.
- `workspace_upload` looks for a free name and then creates the file: two
  uploads of one name overwrite each other. The trim of one call removes files
  of another that is still being written. When it fails, or the status after it, the
  call is answered with 500 and its files stay (`workspace/upload.rs:540-555`); a rollback
  ignores what it cannot remove; a request that is dropped with its connection leaves
  what it has written.
- Renaming and moving look before they act, and a local rename replaces a file
  made in between; remote creation truncates it. A whole file is announced with
  the length it had before. `bytes=5-3` is answered with 416.
- Any subscriber that leaves takes the watcher's entry away; a watcher that
  failed is not reported.

**Connections.**
- An SSH authentication that timed out or failed leaves its entry, which every
  sync client polls every 50 ms; a prompt goes to one connection only, and is
  lost if that is about to close. A guard of the map is held up to two minutes.
- The sync websocket notices a dead client at the third ping (90 s; the comment
  says 60) and then only sends a close; it waits for the connection's error. Two
  input messages run as two tasks and may swap places.
- Broadcasts of the overview may swap places between clients. `Confirm` closes
  an overview that was opened again meanwhile, and activates a tab that may be
  gone.
- A client that joins between the broadcast of a sample and its place in the
  history misses that sample.

**Desktop.**
- `pty_detach` never detaches while the forwarder's client exists. Two write
  tasks may swap input after a reload: `InputKept` speaks of the order until
  the first reload. A page that attaches as the session ends never hears of it.
- Closing the window while the deadline's thread cleans up ends the program in
  the middle. A session created after the cleanup has collected them survives.
- A rename that fails leaves the `.part` file. An autostart entry that is
  edited between check and write is overwritten.

## What is not modelled

`PROJECT.json` names every component with what is left out of it. In short:
the monitor (samples of the system), the proxy and the relay (I/O without
state of their own), the mobile shell, the routes of the embedded server, and
the user interface of the frontend apart from what receives terminals, tabs and
badges.

Of five parts the model ends before the code does. `VirtualScreen` stops at the first panic: the
code recovers the lock and goes on with the buffers as they were left halfway, and a
build without overflow checks does not panic at a size of 0 but goes on with
the largest number there is. `PluginOps` has the processes of one server's life: those an earlier
one left, and what a plugin's process starts itself, are known to nobody in the code.
`Templates` follows files that can be read, `Uploads` gives every file one unit of
size, and `UpdateDownload` lets the flush fail only together with the receiving.

Within the modelled parts the following is left out: contents of commands and
environment, tracking of working directories, clipboard and selection messages,
colours and attributes of cells, titles and the order of tabs, archives and
downloads of plugins, search, git and highlighting, the counting of failed
logins, the form of templates, the validation of single settings, debouncing
and hooks of notifications.

## Plan

Done: the modules above, with proofs for `SessionLifecycle`, `PidLedger`,
`SessionStream`, `AttentionSync`, `TabSync` and 25 of the parts that `MCServices` puts
together.

Next, in this order:

1. An abstract specification of a sync client (it has a prefix of what was
   published) that `SyncConnection` and `EventBus` implement.
2. Proofs about `FileWatch`, and `WorkspaceFiles` with a tree of any depth.
