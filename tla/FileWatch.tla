------------------------------ MODULE FileWatch ------------------------------
(***************************************************************************)
(* The watchers of workspace paths (src/file_watcher.rs): connections that *)
(* watch the same path share a watcher task and its broadcast channel, and *)
(* the map of watchers has one entry per path, which any of them removes.  *)
(* One path is modelled, since paths do not touch each other; the tasks    *)
(* that watch it one after the other are its generations, and an entry of  *)
(* the map is the generation whose sender it holds, 0 for none.            *)
(* The channel's 100 messages are more than the changes of a run.          *)
(***************************************************************************)
EXTENDS Naturals, Sequences

CONSTANTS
    Conns,        \* connections of /ws/watch
    MaxGens,      \* bound: watcher tasks started
    MaxChanges    \* bound: changes of the file system

VARIABLES
    entry,     \* the path's entry in `watchers`
    gens,      \* tasks started
    task,      \* generation -> "none", "starting", "on", "blind", "ending", "ended"
    events,    \* generation -> what notify has queued for it
    at,        \* connection -> "new", "open", "leaving", "closed"
    sub,       \* connection -> generation it receives from
    box,       \* connection -> messages not received yet
    owed,      \* connection -> changes its watcher saw and it has not been sent
    changes    \* changes so far

conns == <<at, sub, box, owed>>
tasks == <<gens, task, events>>
vars  == <<entry, tasks, conns, changes>>

Gens == 1 .. MaxGens

\* A channel is open while the map or its task holds the sender.
Senders == {g \in Gens : entry = g \/ task[g] \in {"starting", "on", "blind", "ending"}}
Receivers(g) == {c \in Conns : sub[c] = g /\ at[c] \in {"open", "leaving"}}

-----------------------------------------------------------------------------
(* FileWatcherState                                                        *)

Subscribe(c) ==
    /\ at[c] = "new" /\ at' = [at EXCEPT ![c] = "open"]
    /\ \/ /\ entry # 0 /\ sub' = [sub EXCEPT ![c] = entry]
          /\ UNCHANGED <<entry, gens, task>>
       \/ /\ entry = 0 /\ gens < MaxGens
          /\ gens' = gens + 1 /\ entry' = gens'
          /\ task' = [task EXCEPT ![gens'] = "starting"]
          /\ sub' = [sub EXCEPT ![c] = gens']
    /\ UNCHANGED <<events, box, owed, changes>>

\* The pane or the path is unknown.
Refuse(c) ==
    /\ at[c] = "new" /\ at' = [at EXCEPT ![c] = "closed"]
    /\ UNCHANGED <<entry, tasks, sub, box, owed, changes>>

\* run_watcher: the system refuses a watcher and the task ends, the path is gone
\* and it waits for nothing, or it watches.
StartWatching(g) ==
    /\ task[g] = "starting"
    /\ \E next \in {"on", "blind", "ended"} : task' = [task EXCEPT ![g] = next]
    /\ UNCHANGED <<entry, gens, events, conns, changes>>

Change ==
    /\ changes < MaxChanges /\ changes' = changes + 1
    /\ events' = [g \in Gens |-> IF task[g] = "on" THEN Append(events[g], changes') ELSE events[g]]
    /\ owed' = [c \in Conns |-> IF at[c] = "open" /\ task[sub[c]] = "on"
                                THEN owed[c] \cup {changes'} ELSE owed[c]]
    /\ UNCHANGED <<entry, gens, task, at, sub, box>>

\* The next event: without an entry of any generation the task is over, without
\* receivers as well (and then the entry is left alone).
Handle(g) ==
    /\ task[g] = "on" /\ events[g] # <<>>
    /\ events' = [events EXCEPT ![g] = Tail(@)]
    /\ \/ /\ entry = 0
          /\ task' = [task EXCEPT ![g] = "ending"] /\ UNCHANGED box
       \/ /\ entry # 0 /\ Receivers(g) = {}
          /\ task' = [task EXCEPT ![g] = "ended"] /\ UNCHANGED box
       \/ /\ entry # 0 /\ Receivers(g) # {}
          /\ box' = [c \in Conns |-> IF c \in Receivers(g)
                                     THEN Append(box[c], Head(events[g])) ELSE box[c]]
          /\ UNCHANGED task
    /\ UNCHANGED <<entry, gens, at, sub, owed, changes>>

\* Whatever entry the path has by now is removed.
End(g) ==
    /\ task[g] = "ending" /\ task' = [task EXCEPT ![g] = "ended"]
    /\ entry' = 0
    /\ UNCHANGED <<gens, events, conns, changes>>

-----------------------------------------------------------------------------
(* handle_watch_socket                                                     *)

\* A message is sent on, or the send fails and the loop ends.
Receive(c) ==
    /\ at[c] = "open" /\ box[c] # <<>>
    /\ box' = [box EXCEPT ![c] = Tail(@)]
    /\ \/ owed' = [owed EXCEPT ![c] = @ \ {Head(box[c])}] /\ UNCHANGED at
       \/ at' = [at EXCEPT ![c] = "leaving"] /\ UNCHANGED owed
    /\ UNCHANGED <<entry, tasks, sub, changes>>

\* Mutant: a closed channel is taken for one that lags.
ClosedIsLagged(c) == FALSE

SeeClosed(c) ==
    /\ at[c] = "open" /\ box[c] = <<>> /\ sub[c] \notin Senders
    /\ at' = [at EXCEPT ![c] = "leaving"]
    /\ UNCHANGED <<entry, tasks, sub, box, owed, changes>>

HangUp(c) ==
    /\ at[c] = "open" /\ at' = [at EXCEPT ![c] = "leaving"]
    /\ UNCHANGED <<entry, tasks, sub, box, owed, changes>>

\* It removes the path's entry, whoever else uses it.
Unsubscribe(c) ==
    /\ at[c] = "leaving" /\ at' = [at EXCEPT ![c] = "closed"]
    /\ entry' = 0
    /\ UNCHANGED <<tasks, sub, box, owed, changes>>

-----------------------------------------------------------------------------
Init ==
    /\ entry = 0 /\ gens = 0 /\ changes = 0
    /\ task = [g \in Gens |-> "none"] /\ events = [g \in Gens |-> <<>>]
    /\ at = [c \in Conns |-> "new"] /\ sub = [c \in Conns |-> 0]
    /\ box = [c \in Conns |-> <<>>] /\ owed = [c \in Conns |-> {}]

Next ==
    \/ \E c \in Conns : Subscribe(c) \/ Refuse(c) \/ Receive(c) \/ SeeClosed(c)
                        \/ HangUp(c) \/ Unsubscribe(c)
    \/ \E g \in Gens : StartWatching(g) \/ Handle(g) \/ End(g)
    \/ Change

\* The tasks run; nobody has to change, subscribe or hang up.
Fairness ==
    /\ \A g \in Gens : WF_vars(StartWatching(g)) /\ WF_vars(Handle(g)) /\ WF_vars(End(g))
    /\ \A c \in Conns : WF_vars(Receive(c)) /\ WF_vars(SeeClosed(c)) /\ WF_vars(Unsubscribe(c))

Spec == Init /\ [][Next]_vars /\ Fairness

-----------------------------------------------------------------------------
(* Properties                                                              *)

\* Entry, tasks and connections hold values of their types.
TypeOK ==
    /\ entry \in 0 .. MaxGens /\ gens \in 0 .. MaxGens /\ changes \in 0 .. MaxChanges
    /\ task \in [Gens -> {"none", "starting", "on", "blind", "ending", "ended"}]
    /\ at \in [Conns -> {"new", "open", "leaving", "closed"}]
    /\ sub \in [Conns -> 0 .. MaxGens] /\ owed \in [Conns -> SUBSET (1 .. MaxChanges)]
    /\ \A g \in Gens : events[g] \in Seq(1 .. MaxChanges)
    /\ \A c \in Conns : box[c] \in Seq(1 .. MaxChanges)

\* One connection's leaving removes the entry that the others use, and an old task
\* may remove the entry of a new one: still, a change that a watcher saw reaches
\* every connection it serves, or the connection is closed (and may reconnect).
Paid(c) == owed[c] = {} \/ at[c] # "open"
SentOrClosed == \A c \in Conns : []<>Paid(c)

=============================================================================
