---------------------------- MODULE CommandHistory ----------------------------
(***************************************************************************)
(* The suggestions taken from the history file of the shell                *)
(* (src/history.rs): what the file holds is loaded once, and again after   *)
(* each change of the file, without the commands users deleted from the    *)
(* list; a command typed in a terminal is added at once.  Every change is  *)
(* broadcast, as a list that is read again for it.  The locks are held for *)
(* single steps only.  How often a command occurs is left out.             *)
(***************************************************************************)
EXTENDS Naturals, FiniteSets

CONSTANTS Commands,
          Pushes, Deletes,  \* calls of push_realtime and delete
          MaxWrites         \* bound: times the shell writes its file

VARIABLES
    file, event,        \* the history file; the watcher has seen it change
    entries, deleted,
    loader,             \* [pc, got, watch]: load_initial, then the task of the watcher
    call,               \* push or delete -> [pc, cmd, items]
    shown,              \* the list clients were sent last
    writes,
    raced,              \* commands deleted while a call or a load had checked them
    crossed             \* a list was read before another was sent after it

dataVars  == <<entries, deleted>>
fileVars  == <<file, event, writes>>
vars == <<fileVars, dataVars, loader, call, shown, raced, crossed>>

Calls == Pushes \cup Deletes

Reading(c)  == call[c].pc = "send"
Sending     == {c \in Calls : Reading(c)} \cup (IF loader.pc = "send" THEN {loader} ELSE {})

\* broadcast_top: the list is read, and sent under another lock.
Crossing(n) == crossed' = (crossed \/ Cardinality(Sending) > n)

-----------------------------------------------------------------------------
\* The shell appends to its file, or rewrites it; the watcher polls it, from when the
\* first load is over.
ShellWrites ==
    /\ writes < MaxWrites /\ writes' = writes + 1
    /\ \E f \in SUBSET Commands : file' = f /\ f # file
    /\ event' = (event \/ loader.watch)
    /\ UNCHANGED <<dataVars, loader, call, shown, raced, crossed>>

\* load_initial takes what the file holds, reload_incremental filters it.
ReadFile ==
    /\ \/ loader.pc = "init" /\ loader' = [loader EXCEPT !.pc = "store", !.got = file]
       \/ loader.pc = "wait" /\ event
          /\ loader' = [loader EXCEPT !.pc = "filter", !.got = file]
    /\ event' = FALSE
    /\ UNCHANGED <<file, writes, dataVars, call, shown, raced, crossed>>

\* Mutant: what was deleted is taken from the file again.
FilterNothing ==
    /\ loader.pc = "filter"
    /\ loader' = [loader EXCEPT !.pc = "store"]
    /\ UNCHANGED <<fileVars, dataVars, call, shown, raced, crossed>>

Filter ==
    /\ loader.pc = "filter"
    /\ loader' = [loader EXCEPT !.pc = "store", !.got = @ \ deleted]
    /\ UNCHANGED <<fileVars, dataVars, call, shown, raced, crossed>>

Replace ==
    /\ loader.pc = "store"
    /\ entries' = loader.got /\ loader' = [loader EXCEPT !.pc = "list"]
    /\ UNCHANGED <<fileVars, deleted, call, shown, raced, crossed>>

ListLoaded ==
    /\ loader.pc = "list"
    /\ loader' = [loader EXCEPT !.pc = "send", !.got = entries]
    /\ UNCHANGED <<fileVars, dataVars, call, shown, raced, crossed>>

SendLoaded ==
    /\ loader.pc = "send"
    /\ shown' = loader.got
    /\ loader' = [pc |-> "wait", got |-> {}, watch |-> TRUE]
    /\ Crossing(1)
    /\ UNCHANGED <<fileVars, dataVars, call, raced>>

\* push_realtime
CheckPush(p) ==
    /\ call[p].pc = "new"
    /\ \E cmd \in Commands :
         call' = [call EXCEPT ![p] = [@ EXCEPT !.cmd = {cmd},
                    !.pc = IF cmd \in deleted THEN "done" ELSE "change"]]
    /\ UNCHANGED <<fileVars, dataVars, loader, shown, raced, crossed>>

AddPushed(p) ==
    /\ call[p].pc = "change"
    /\ entries' = entries \cup call[p].cmd
    /\ call' = [call EXCEPT ![p].pc = "list"]
    /\ UNCHANGED <<fileVars, deleted, loader, shown, raced, crossed>>

\* delete
MarkDeleted(d) ==
    /\ call[d].pc = "new"
    /\ \E cmd \in Commands :
         /\ deleted' = deleted \cup {cmd}
         /\ call' = [call EXCEPT ![d].pc = "change", ![d].cmd = {cmd}]
         /\ raced' = IF \/ loader.pc \in {"init", "store"}
                        \/ \E p \in Pushes : call[p].pc = "change" /\ cmd \in call[p].cmd
                     THEN raced \cup {cmd} ELSE raced
    /\ UNCHANGED <<fileVars, entries, loader, shown, crossed>>

RemoveDeleted(d) ==
    /\ call[d].pc = "change"
    /\ entries' = entries \ call[d].cmd
    /\ call' = [call EXCEPT ![d].pc = "list"]
    /\ UNCHANGED <<fileVars, deleted, loader, shown, raced, crossed>>

ListChanged(c) ==
    /\ call[c].pc = "list"
    /\ call' = [call EXCEPT ![c].pc = "send", ![c].items = entries]
    /\ UNCHANGED <<fileVars, dataVars, loader, shown, raced, crossed>>

SendChanged(c) ==
    /\ call[c].pc = "send"
    /\ shown' = call[c].items
    /\ call' = [call EXCEPT ![c].pc = "done", ![c].items = {}]
    /\ Crossing(1)
    /\ UNCHANGED <<fileVars, dataVars, loader, raced>>

Init ==
    /\ file \in SUBSET Commands /\ event = FALSE /\ writes = 0
    /\ entries = {} /\ deleted = {} /\ shown = {} /\ raced = {} /\ crossed = FALSE
    /\ loader = [pc |-> "init", got |-> {}, watch |-> FALSE]
    /\ call = [c \in Calls |-> [pc |-> "new", cmd |-> {}, items |-> {}]]

Next ==
    \/ ShellWrites \/ ReadFile \/ Filter \/ Replace \/ ListLoaded \/ SendLoaded
    \/ \E p \in Pushes : CheckPush(p) \/ AddPushed(p)
    \/ \E d \in Deletes : MarkDeleted(d) \/ RemoveDeleted(d)
    \/ \E c \in Calls : ListChanged(c) \/ SendChanged(c)

Spec == Init /\ [][Next]_vars

-----------------------------------------------------------------------------
\* Entries, requests and the loader have the values the code gives them.
TypeOK ==
    /\ entries \cup deleted \cup shown \cup raced \subseteq Commands
    /\ loader.pc \in {"init", "filter", "store", "list", "send", "wait"}
    /\ \A c \in Calls : call[c].pc \in {"new", "change", "list", "send", "done"}

\* A command that was deleted from the suggestions does not come back (delete,
\* push_realtime, reload_incremental), whatever the shell writes: except one that
\* was deleted while a load or a push of it had looked at the deleted ones already.
DeletedStaysAway ==
    \A c \in deleted \ raced :
      c \in entries => \E d \in Deletes : call[d].pc = "change" /\ c \in call[d].cmd

\* Clients show the suggestions the server has (broadcast_top) once the calls are
\* over, except after two lists were under way at once.
ClientsShowEntries ==
    /\ ~crossed
    /\ loader.pc = "wait" /\ \A c \in Calls : call[c].pc \in {"new", "done"}
    => shown = entries
==============================================================================
