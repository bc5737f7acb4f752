------------------------------ MODULE AgentRuns ------------------------------
(***************************************************************************)
(* The runs of the agent API (src/agent.rs, the same loop in               *)
(* src/mcp/tools.rs) against the rest of the server.  A run over HTTP      *)
(* takes a slot of the limiter, one over a WebSocket does not; both then   *)
(* hold a guard of the session map, that is a read lock on one shard of    *)
(* it, until they are answered.  Who removes or adds a session of that     *)
(* shard waits for the lock without giving its worker thread back to the   *)
(* runtime, and, since that happens under the `lifecycle` mutex, so does   *)
(* every other handler that needs this mutex.  (How a run is answered is   *)
(* the matter of CommandTracking.)                                         *)
(***************************************************************************)
EXTENDS Naturals, FiniteSets

CONSTANTS
    HttpRuns, SocketRuns,   \* runs, by the way they came
    Closers,                \* handlers that change sessions or layouts
    Workers,                \* worker threads of the runtime
    MaxConcurrentRuns       \* MAX_CONCURRENT_RUNS

CountsAssumption == Workers \in Nat /\ MaxConcurrentRuns \in Nat

VARIABLES
    pc,        \* run -> "new", "slotted", "polling", "answered", "done",
               \*        "refused", "dropped"
    slots,     \* run_limiter["default"]
    closer,    \* handler -> "idle", "locked" (waits for the shard, with the
               \*            mutex), "blocked" (waits for the mutex), "done"
    lost       \* slots whose run was dropped

vars == <<pc, slots, closer, lost>>

Runs    == HttpRuns \cup SocketRuns
Guards  == {r \in Runs : pc[r] = "polling"}
Waiting == {c \in Closers : closer[c] \in {"locked", "blocked"}}

\* A task makes progress on a worker that no waiting handler occupies.
FreeWorker == Cardinality(Waiting) < Workers
Held       == \E c \in Closers : closer[c] = "locked"

-----------------------------------------------------------------------------
(* sessions_run and the "run" message of handle_agent_ws                   *)

TakeSlot(r) ==
    IF slots < MaxConcurrentRuns
      THEN pc' = [pc EXCEPT ![r] = "slotted"] /\ slots' = slots + 1
      ELSE pc' = [pc EXCEPT ![r] = "refused"] /\ slots' = slots

Start(r) ==
    /\ FreeWorker /\ pc[r] = "new"
    /\ IF r \in HttpRuns THEN TakeSlot(r)
       ELSE pc' = [pc EXCEPT ![r] = "slotted"] /\ slots' = slots
    /\ UNCHANGED <<closer, lost>>

\* execute_command takes the guard and writes the command; the pane may be gone,
\* or the write fail.
Execute(r) ==
    /\ FreeWorker /\ pc[r] = "slotted"
    /\ pc' \in {[pc EXCEPT ![r] = next] : next \in {"polling", "answered"}}
    /\ UNCHANGED <<slots, closer, lost>>

\* Mutant: the time is not looked at.
PollForever(r) == FALSE

\* A poll ends the run, at its timeout at the latest, and gives the guard back.
Poll(r) ==
    /\ FreeWorker /\ pc[r] = "polling"
    /\ pc' = [pc EXCEPT ![r] = "answered"]
    /\ UNCHANGED <<slots, closer, lost>>

Release(r) ==
    /\ FreeWorker /\ pc[r] = "answered"
    /\ pc' = [pc EXCEPT ![r] = "done"]
    /\ slots' = IF r \in HttpRuns /\ slots > 0 THEN slots - 1 ELSE slots
    /\ UNCHANGED <<closer, lost>>

\* The caller hangs up: the handler's future is dropped where it waits, its guard
\* with it.  A run of a WebSocket is a task of its own and goes on.
Drop(r) ==
    /\ FreeWorker /\ r \in HttpRuns /\ pc[r] \in {"slotted", "polling", "answered"}
    /\ pc' = [pc EXCEPT ![r] = "dropped"]
    /\ lost' = lost + 1
    /\ UNCHANGED <<slots, closer>>

-----------------------------------------------------------------------------
(* The others                                                              *)

Lock(c) ==
    /\ FreeWorker /\ closer[c] = "idle"
    /\ closer' = [closer EXCEPT ![c] = IF Held THEN "blocked" ELSE "locked"]
    /\ UNCHANGED <<pc, slots, lost>>

\* sessions.remove or sessions.insert: only without a reader on the shard
Change(c) ==
    /\ closer[c] = "locked" /\ Guards = {}
    /\ closer' = [closer EXCEPT ![c] = "done"]
    /\ UNCHANGED <<pc, slots, lost>>

Acquire(c) ==
    /\ closer[c] = "blocked" /\ ~Held
    /\ closer' = [closer EXCEPT ![c] = "locked"]
    /\ UNCHANGED <<pc, slots, lost>>

Init ==
    /\ pc = [r \in Runs |-> "new"] /\ slots = 0
    /\ closer = [c \in Closers |-> "idle"] /\ lost = 0

RunStep(r)    == Execute(r) \/ Poll(r) \/ Release(r)
CloserStep(c) == Change(c) \/ Acquire(c)

Next ==
    \/ \E r \in Runs : Start(r) \/ Execute(r) \/ Poll(r) \/ Release(r) \/ Drop(r)
    \/ \E c \in Closers : Lock(c) \/ Change(c) \/ Acquire(c)

\* The runtime polls a task that is due when a worker is free, and locks are
\* handed on.
Fairness ==
    /\ \A r \in Runs : WF_vars(RunStep(r))
    /\ \A c \in Closers : WF_vars(CloserStep(c))

Spec     == Init /\ [][Next]_vars
FairSpec == Spec /\ Fairness

-----------------------------------------------------------------------------
(* Properties.                                                             *)

TypeOK ==
    /\ pc \in [Runs -> {"new", "slotted", "polling", "answered", "done",
                        "refused", "dropped"}]
    /\ closer \in [Closers -> {"idle", "locked", "blocked", "done"}]
    /\ slots \in 0 .. MaxConcurrentRuns

\* The limiter counts the runs that are on, and those that were dropped, for which
\* nobody gives the slot back: it never lets more runs in than it should, and each
\* hang-up makes it let in one less for good.
SlotsAreRunsAndLosses ==
    slots = lost + Cardinality(
              {r \in HttpRuns : pc[r] \in {"slotted", "polling", "answered"}})

\* "waiting for completion or timeout": a run that has begun is answered, or its
\* caller has hung up.
Over(r) == pc[r] \notin {"slotted", "polling", "answered"}
RunsEnd == \A r \in Runs : []<>Over(r)

\* Who waits for the session map gets it.
Served(c)  == closer[c] \in {"idle", "done"}
ClosersEnd == \A c \in Closers : []<>Served(c)

=============================================================================
