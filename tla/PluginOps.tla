------------------------------ MODULE PluginOps ------------------------------
(***************************************************************************)
(* One plugin of the plugin manager: its directory, its entry in the       *)
(* registry, and the processes started from it (src/plugin/manager.rs,     *)
(* crud.rs, exec/mod.rs, exec/managed.rs).  Whatever changes the directory *)
(* holds the plugin's operation lock for writing, whatever starts a        *)
(* process holds it for reading.  The watcher of the plugin directory      *)
(* rebuilds the registry without that lock, and removes a development link *)
(* whose target is gone; at startup the plugin that comes with the program *)
(* is put in place before anything else happens.                           *)
(*                                                                         *)
(* Processes are known by their PID; the operating system gives the PID of *)
(* a reaped process to another one.  The process of an exec is in no table *)
(* and keeps the lock as long as it is waited for.  A process that was     *)
(* killed is waited for PROCESS_REAP_GRACE, then taken for ended.          *)
(***************************************************************************)
EXTENDS Naturals, Sequences

CONSTANTS
    Managed, Sockets, Execs,   \* processes, by the way they are started
    Pids,
    Ops,                       \* requests
    Kinds,                     \* what the requests ask for
    Versions,                  \* of the plugin, what an operation installs
    None

VARIABLES
    boot,      \* "seed" as the server starts, then "done"; "lost" when the directory
               \* went where nothing tells the registry
    disk,      \* the plugin's directory: None or [v |-> version, link |-> dev link]
    backup,    \* the directory that replace_with_staged has put aside
    registry,  \* registry[id]
    table,     \* processes[id]: pid -> None or [p |-> process, exited |-> BOOLEAN]
    proc,      \* process -> [pc, alive, pid, by, loose: its entry may be another's]
    ack,       \* op -> process -> "no", "sent", "ok", "dropped": its Stop message
    op,        \* op -> [pc, kind, v]
    watcher,   \* "idle", "cleared", "broken", "read"
    dirty,     \* the watcher has events it has not looked at
    seen,      \* the manifest the scan has read
    used       \* PIDs a process of this plugin has had

vars == <<boot, disk, backup, registry, table, proc, ack, op, watcher, dirty, seen, used>>

procVars == <<table, proc, ack, used>>
scanVars == <<watcher, seen>>
fileVars == <<boot, disk, backup, registry, op, dirty, scanVars>>

Procs   == Managed \cup Sockets \cup Execs
Alive   == {p \in Procs : proc[p].alive}
Readers == {p \in Procs : proc[p].pc = "locked" \/ (p \in Execs /\ proc[p].pc = "watch")}
InTable == {table[n].p : n \in {k \in Pids : table[k] # None}}
Changing == {"kill", "wait", "change", "swap", "register"}
Writers == {o \in Ops : op[o].pc \in Changing /\ op[o].kind # "stop"}

\* plugin_process_start and plugin_exec keep their reference into the registry.
Guards  == {p \in Readers : p \notin Sockets}

Entry(v, link) == [v |-> v, link |-> link]
Dangling == Entry(None, TRUE)         \* a development link without its target
At(o, pc) == op' = [op EXCEPT ![o].pc = pc]

-----------------------------------------------------------------------------
(* Processes.                                                              *)

\* plugin_process_start, plugin_spawn_ws and plugin_exec: the lock, then the
\* registry once more.  Mutant: nobody is waited for.
StartUnlocked(p) ==
    /\ boot # "seed" /\ proc[p].pc = "new" /\ registry # None
    /\ proc' = [proc EXCEPT ![p].pc = "locked"]
    /\ UNCHANGED <<fileVars, table, ack, used>>

Start(p) ==
    /\ boot # "seed" /\ proc[p].pc = "new" /\ registry # None
    /\ Writers = {}
    /\ proc' = [proc EXCEPT ![p].pc = "locked"]
    /\ UNCHANGED <<fileVars, table, ack, used>>

\* A PID is free when its process has ended and nobody is about to wait for it.
FreePids == {n \in Pids : \A p \in Managed \cup Sockets :
               proc[p].pc \in {"watch", "stopping"} \/ proc[p].alive => proc[p].pid # n}

\* The child is spawned from the files on disk and put in the table; a managed
\* process and that of a socket give the lock back then.
Launch(p) ==
    /\ proc[p].pc = "locked"
    /\ IF disk \in {None, Dangling}
         THEN /\ proc' = [proc EXCEPT ![p].pc = "gone"]
              /\ UNCHANGED <<table, used>>
         ELSE IF p \in Execs
           THEN /\ proc' = [proc EXCEPT ![p].pc = "watch", ![p].alive = TRUE]
                /\ UNCHANGED <<table, used>>
           ELSE \E n \in FreePids :
                /\ proc' = [proc EXCEPT ![p].pc = "watch", ![p].alive = TRUE,
                                        ![p].pid = n, ![p].loose = n \in used]
                /\ table' = [table EXCEPT ![n] = [p |-> p, exited |-> FALSE]]
                /\ used' = used \cup {n}
    /\ UNCHANGED <<fileVars, ack>>

\* By itself, killed, or because the client of the socket left.
Exit(p) ==
    /\ proc[p].alive
    /\ proc' = [proc EXCEPT ![p].alive = FALSE]
    /\ UNCHANGED <<fileVars, table, ack, used>>

\* wait_for_managed_child, or the loop of the socket, receives a Stop
ReceiveStop(p) ==
    /\ proc[p].pc = "watch"
    /\ \E o \in Ops : /\ ack[o][p] = "sent"
                      /\ proc' = [proc EXCEPT ![p].pc = "stopping", ![p].by = o]
    /\ UNCHANGED <<fileVars, table, ack, used>>

\* The entry, and the sender of the channel with it, is gone.
Abandon(p) ==
    /\ p \notin Execs /\ proc[p].pc = "watch" /\ proc[p].alive
    /\ p \notin InTable
    /\ proc' = [proc EXCEPT ![p].alive = FALSE]
    /\ UNCHANGED <<fileVars, table, ack, used>>

\* The channel is closed: messages nobody received are dropped.
Unheard(p) == ack' = [o \in Ops |->
                        IF ack[o][p] = "sent" /\ proc[p].by # o
                          THEN [ack[o] EXCEPT ![p] = "dropped"] ELSE ack[o]]

\* The child is waited for.
Reap(p) ==
    /\ proc[p].pc \in {"watch", "stopping"} /\ ~proc[p].alive
    /\ proc' = [proc EXCEPT ![p].pc = IF p \in Execs THEN "gone" ELSE "report"]
    /\ Unheard(p)
    /\ UNCHANGED <<fileVars, table, used>>

\* stop_managed_child: the killed child has not ended within PROCESS_REAP_GRACE, or
\* waiting for it failed.  The rest goes on as if it had.
GiveUp(p) ==
    /\ proc[p].pc = "stopping" /\ proc[p].alive
    /\ proc' = [proc EXCEPT ![p].pc = "report"]
    /\ Unheard(p)
    /\ UNCHANGED <<fileVars, table, used>>

\* The deadline of an exec, or its client has left: the child is killed as it is
\* dropped, and nobody waits for it.
TimeOut(p) ==
    /\ p \in Execs /\ proc[p].pc = "watch" /\ proc[p].alive
    /\ proc' = [proc EXCEPT ![p].pc = "gone"]
    /\ UNCHANGED <<fileVars, table, ack, used>>

\* The end of a process that was given up on is still to come.
Outlived(p) == proc[p].alive /\ proc[p].pc \in {"report", "gone"}

\* supervise_managed_process marks the entry of the PID, the socket removes it;
\* then the Stop is answered.
Report(p) ==
    /\ proc[p].pc = "report"
    /\ proc' = [proc EXCEPT ![p].pc = "gone"]
    /\ table' = [table EXCEPT ![proc[p].pid] =
                   IF @ = None \/ p \in Sockets THEN None
                                                ELSE [@ EXCEPT !.exited = TRUE]]
    /\ ack' = [o \in Ops |-> IF proc[p].by = o
                               THEN [ack[o] EXCEPT ![p] = "ok"] ELSE ack[o]]
    /\ UNCHANGED <<fileVars, used>>

-----------------------------------------------------------------------------
(* Requests that change the plugin.                                        *)

\* The lock, and what each operation asks of the registry and the directory first.
BeginOp(o) ==
    /\ boot # "seed" /\ op[o].pc = "new" /\ op[o].kind # "stop"
    /\ Writers = {} /\ Readers = {}
    /\ CASE op[o].kind = "install" ->
              At(o, IF registry # None \/ disk # None THEN "done" ELSE "swap")
         [] op[o].kind = "update" ->
              At(o, IF registry = None THEN "done"
                    ELSE IF registry.link THEN "done" ELSE "kill")
         [] op[o].kind = "upsert" ->
              At(o, IF registry # None \/ disk # None THEN "kill" ELSE "change")
         [] op[o].kind = "link" ->
              At(o, IF disk = None THEN "swap"
                    ELSE IF disk.link THEN "kill" ELSE "done")
         [] op[o].kind = "delete" -> At(o, "kill")
    /\ UNCHANGED <<boot, disk, backup, registry, procVars, dirty, scanVars>>

\* A Stop for one process, or for all: no lock.
BeginStop(o) ==
    /\ boot # "seed" /\ op[o].pc = "new" /\ op[o].kind = "stop"
    /\ At(o, "kill")
    /\ UNCHANGED <<boot, disk, backup, registry, procVars, dirty, scanVars>>

\* kill_plugin_processes_with_scope: a Stop to each entry; who does not listen
\* any more is removed.
Kill(o) ==
    /\ op[o].pc = "kill" /\ At(o, "wait")
    /\ LET Listed  == {n \in Pids : table[n] # None}
           Hears(n) == proc[table[n].p].pc \in {"watch", "stopping"}
       IN /\ ack' = [ack EXCEPT ![o] = [p \in Procs |->
                       IF \E n \in Listed : table[n].p = p /\ Hears(n)
                         THEN "sent" ELSE "no"]]
          /\ table' = [n \in Pids |-> IF n \in Listed /\ ~Hears(n)
                                        THEN None ELSE table[n]]
    /\ UNCHANGED <<boot, disk, backup, registry, proc, used, dirty, scanVars>>

\* Each answer, or its timeout, is looked at when all are there; entries are
\* removed by PID.
Asked(o)      == {p \in Procs : ack[o][p] # "no"}
Stopped(o, p) == \/ ack[o][p] = "ok"
                 \/ table[proc[p].pid] = None
                 \/ table[proc[p].pid].exited

Await(o) ==
    /\ op[o].pc = "wait"
    /\ \E Late \in SUBSET {p \in Asked(o) : ack[o][p] = "sent"} :
         /\ \A p \in Asked(o) : ack[o][p] # "sent" \/ p \in Late
         /\ LET Done == {p \in Asked(o) : Stopped(o, p)}
            IN /\ table' = [n \in Pids |-> IF \E p \in Done : proc[p].pid = n
                                             THEN None ELSE table[n]]
               /\ At(o, IF Done # Asked(o) \/ op[o].kind = "stop"
                          THEN "done" ELSE "change")
    /\ ack' = [ack EXCEPT ![o] = [p \in Procs |-> "no"]]
    /\ UNCHANGED <<boot, disk, backup, registry, proc, used, dirty, scanVars>>

\* The old directory is removed, or put aside by replace_with_staged.  A delete may
\* fail after that, at the plugin's data.
Change(o) ==
    /\ op[o].pc = "change"
    /\ \/ At(o, "done") /\ UNCHANGED <<disk, backup, dirty>>       \* it fails
       \/ /\ \E to \in IF op[o].kind = "delete" THEN {"register", "done"} ELSE {"swap"} :
               At(o, to)
          /\ disk' = None /\ dirty' = (dirty \/ disk # None)
          /\ backup' = IF op[o].kind \in {"delete", "link"} THEN backup ELSE disk
    /\ UNCHANGED <<boot, registry, procVars, scanVars>>

\* The new one takes its place; if that fails, the old one is put back, which may
\* fail too.
Swap(o) ==
    /\ op[o].pc = "swap"
    /\ \/ /\ disk' = Entry(op[o].v, op[o].kind = "link")
          /\ backup' = None /\ At(o, "register")
       \/ /\ disk' \in {backup, None} /\ backup' = None /\ At(o, "done")
    /\ dirty' = TRUE
    /\ UNCHANGED <<boot, registry, procVars, scanVars>>

Register(o) ==
    /\ op[o].pc = "register" /\ At(o, "done")
    /\ registry' = IF op[o].kind = "delete" THEN None
                   ELSE Entry(op[o].v, op[o].kind = "link")
    /\ UNCHANGED <<boot, disk, backup, procVars, dirty, scanVars>>

-----------------------------------------------------------------------------
(* watch_changes and scan, and the developer of a linked plugin.           *)

\* clear() waits for who has a reference into the registry.
Clear ==
    /\ watcher = "idle" /\ dirty
    /\ Guards = {}
    /\ watcher' = "cleared" /\ registry' = None /\ dirty' = FALSE
    /\ UNCHANGED <<boot, disk, backup, procVars, op, seen>>

ScanRead ==
    /\ watcher = "cleared"
    /\ IF disk = Dangling THEN watcher' = "broken" /\ seen' = None
                          ELSE watcher' = "read" /\ seen' = disk
    /\ UNCHANGED <<boot, disk, backup, registry, procVars, op, dirty>>

\* remove_symlink_or_file: whatever link is there now, and never a real directory.  No
\* process is stopped for it, so what is started from the link is no longer asked to.
Unlink ==
    /\ watcher = "broken" /\ watcher' = "read"
    /\ \/ /\ disk # None /\ disk.link
          /\ disk' = None /\ dirty' = TRUE
          /\ proc' = [p \in Procs |-> [proc[p] EXCEPT !.loose = @ \/ proc[p].alive]]
          /\ boot' = IF \E o \in Ops : op[o].pc = "register" THEN "lost" ELSE boot
       \/ UNCHANGED <<boot, disk, dirty, proc>>
    /\ UNCHANGED <<backup, registry, table, ack, used, op, seen>>

ScanInsert ==
    /\ watcher = "read"
    /\ Guards = {}
    /\ watcher' = "idle" /\ seen' = None
    /\ registry' = IF seen = None THEN registry ELSE seen
    /\ UNCHANGED <<boot, disk, backup, procVars, op, dirty>>

\* The developer moves or removes what the link points to.
Vanish ==
    /\ disk # None /\ disk.link /\ disk # Dangling
    /\ disk' = Dangling /\ dirty' \in {dirty, TRUE}
    /\ UNCHANGED <<boot, backup, registry, procVars, op, scanVars>>

\* ensure_seed, between two scans and before the server answers or watches: nothing
\* to do, the seed replaces what is there, or its last step fails and so does the
\* way back.
Seed ==
    /\ boot = "seed"
    /\ \/ boot' = "done" /\ UNCHANGED <<disk, registry>>
       \/ /\ boot' = "done"
          /\ \E v \in Versions : disk' = Entry(v, FALSE) /\ registry' = disk'
       \/ boot' = "lost" /\ disk' = None /\ UNCHANGED registry
    /\ UNCHANGED <<backup, procVars, op, dirty, scanVars>>

-----------------------------------------------------------------------------
Init ==
    /\ boot = "seed"
    /\ \/ disk = None
       \/ \E link \in BOOLEAN : disk = Entry(CHOOSE v \in Versions : TRUE, link)
    /\ registry = disk /\ backup = None
    /\ table = [n \in Pids |-> None] /\ used = {}
    /\ proc = [p \in Procs |-> [pc |-> "new", alive |-> FALSE,
                                pid |-> CHOOSE n \in Pids : TRUE,
                                by |-> None, loose |-> FALSE]]
    /\ ack = [o \in Ops |-> [p \in Procs |-> "no"]]
    /\ op \in [Ops -> [pc : {"new"}, kind : Kinds, v : Versions]]
    /\ watcher = "idle" /\ dirty = FALSE /\ seen = None

Supervise(p) == \/ Launch(p) \/ Exit(p) \/ ReceiveStop(p) \/ Abandon(p)
                \/ Reap(p) \/ GiveUp(p) \/ TimeOut(p) \/ Report(p)
OpStep(o) == \/ BeginOp(o) \/ BeginStop(o) \/ Kill(o) \/ Await(o)
             \/ Change(o) \/ Swap(o) \/ Register(o)
Watch     == Clear \/ ScanRead \/ Unlink \/ ScanInsert

Next ==
    \/ \E p \in Procs : Start(p) \/ Supervise(p)
    \/ \E o \in Ops : OpStep(o)
    \/ Watch \/ Vanish \/ Seed

\* Tasks run on; a plugin's command has a deadline, or is stopped at one.
Fairness ==
    /\ \A p \in Procs : WF_vars(Supervise(p))
    /\ \A o \in Ops : WF_vars(OpStep(o))
    /\ WF_vars(Watch) /\ WF_vars(Seed)

Spec == Init /\ [][Next]_vars /\ Fairness

-----------------------------------------------------------------------------
(* Properties.                                                             *)

Dirs == {None, Dangling} \cup [v : Versions, link : BOOLEAN]
TypeOK ==
    /\ {disk, backup, registry, seen} \subseteq Dirs /\ boot \in {"seed", "done", "lost"}
    /\ \A n \in Pids : table[n] = None \/ table[n].p \in Managed \cup Sockets
    /\ used \subseteq Pids
    /\ watcher \in {"idle", "cleared", "broken", "read"} /\ dirty \in BOOLEAN

\* What the program changes of the plugin's directory, the removal of a broken link
\* apart, it changes when every process started from it has ended or was killed and
\* not seen to end in time; except one that has a PID the plugin had before, or was
\* started from a link that was removed so.
ChangesMeetNoProcess ==
    disk' # disk /\ ~Vanish /\ ~Unlink => \A p \in Alive : proc[p].loose \/ Outlived(p)

\* Whatever the watcher and the requests did in between, the registry shows what
\* is installed in the end; unless a link lost its target and nothing happened to the
\* plugin directory since, the seed was lost before it was watched, or a scan removed
\* a link that a request was about to register.
UpToDate == registry = disk \/ disk = Dangling \/ boot = "lost"
RegistryCatchesUp == <>[]UpToDate

=============================================================================
