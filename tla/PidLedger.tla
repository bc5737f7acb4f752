------------------------------ MODULE PidLedger ------------------------------
(***************************************************************************)
(* The crash-orphan PID ledger (src/session/ledger.rs) and the processes   *)
(* it is about.  A server writes an entry for every shell it spawns and    *)
(* takes it out once the end of the shell is confirmed; a server that      *)
(* starts sweeps the entries whose owner is gone.                          *)
(*                                                                         *)
(* A process n \in Procs is an identity, the pair of pid and start time    *)
(* the code compares; its pid and its process group are numbers that the   *)
(* kernel hands out again.  An entry stands for the process it names: its  *)
(* pane and its owner are the process's own, so the file is a set of       *)
(* processes.  The file is replaced by an atomic rename under a file lock, *)
(* so each operation on it is one step that may also fail and change       *)
(* nothing; a sweep keeps the lock, and the others fail meanwhile.         *)
(* Signals and probes that follow each other without a pause are one step; *)
(* pids are reused between steps.                                          *)
(***************************************************************************)
EXTENDS Naturals, FiniteSets, TLC

CONSTANTS
    Servers,    \* server processes, each started at most once
    Panes,      \* pane ids
    Procs,      \* bound: processes ever started
    Pids,       \* process and group numbers
    None,
    Recreate,   \* whether a server may create a pane id a second time
    Unreadable  \* whether reading the file may fail, which reads as empty

ASSUME NoneAssumption == None \notin Servers \cup Panes \cup Procs \cup Pids
ASSUME FlagsAssumption == Recreate \in BOOLEAN /\ Unreadable \in BOOLEAN

VARIABLES
    mode,       \* server -> new, sweeping, serving or down
    pid,        \* process -> its pid, None before it starts
    group,      \* process -> its pgid
    alive,      \* running processes
    owner,      \* process -> the server it descends from, None for strangers
    pane,       \* process -> the pane it is the shell of, None for others
    stage,      \* shell -> where its server is with it
    logged,     \* shells whose add_entry succeeded
    ledger,     \* entries of the file
    todo,       \* entries the sweep has not looked at
    kept,       \* entries the sweep retains
    target,     \* the entry whose group the sweep has signalled, or None
    before,     \* members of that group when TERM was sent
    forced,     \* KILL has been sent as well
    signalled   \* processes the sweep has signalled

kernelVars == <<pid, group, alive, owner>>
shellVars  == <<pane, stage, logged>>
sweepVars  == <<todo, kept, target, before, forced, signalled>>
vars       == <<mode, kernelVars, shellVars, ledger, sweepVars>>

-----------------------------------------------------------------------------
Modes  == {"new", "sweeping", "serving", "down"}
Stages == {"none", "spawned", "recorded", "rolling", "live", "claimed",
           "exiting", "confirmed", "closed"}

Members(g) == {m \in alive : group[m] = g}
Locked     == \E s \in Servers : mode[s] = "sweeping"
FreePids   == Pids \ ({pid[m] : m \in alive} \cup {group[m] : m \in alive})

\* What read_ledger may return.
Reads == {ledger} \cup {L \in {{}} : Unreadable}

\* The entries of a file that add_entry and remove_entry for n drop.
SameKey(L, n) == {m \in L : pane[m] = pane[n] /\ owner[m] = owner[n]}

Init ==
    /\ mode = [s \in Servers |-> "new"]
    /\ pid = [n \in Procs |-> None]
    /\ group = [n \in Procs |-> None]
    /\ alive = {}
    /\ owner = [n \in Procs |-> None]
    /\ pane = [n \in Procs |-> None]
    /\ stage = [n \in Procs |-> "none"]
    /\ logged = {}
    /\ ledger = {}
    /\ todo = {}
    /\ kept = {}
    /\ target = None
    /\ before = {}
    /\ forced = FALSE
    /\ signalled = {}

-----------------------------------------------------------------------------
(* The kernel and the programs in the panes.                               *)

StartsAs(n, i, g, o) ==
    /\ pid' = [pid EXCEPT ![n] = i]
    /\ group' = [group EXCEPT ![n] = g]
    /\ owner' = [owner EXCEPT ![n] = o]
    /\ alive' = alive \cup {n}

\* A process that is none of the servers' business, possibly under a number
\* that one of their shells had before.
StrangerStarts(n) ==
    /\ pid[n] = None
    /\ \E i \in FreePids : StartsAs(n, i, i, None)
    /\ UNCHANGED <<mode, shellVars, ledger, sweepVars>>

\* A program in a pane starts another one in its group.
Fork(n, m) ==
    /\ n \in alive
    /\ pid[m] = None
    /\ \E i \in FreePids : StartsAs(m, i, group[n], owner[n])
    /\ UNCHANGED <<mode, shellVars, ledger, sweepVars>>

Exits(n) ==
    /\ n \in alive
    /\ alive' = alive \ {n}
    /\ UNCHANGED <<mode, pid, group, owner, shellVars, ledger, sweepVars>>

-----------------------------------------------------------------------------
(* A serving server: spawn, record, publish, close.                        *)

\* reserve_session: the pane has neither a session nor a spawn in progress.
Vacant(s, p) ==
    \A n \in Procs : owner[n] = s /\ pane[n] = p =>
        stage[n] \notin {"spawned", "recorded", "rolling", "live"}

Spawn(s, p, n) ==
    /\ mode[s] = "serving"
    /\ Vacant(s, p)
    /\ Recreate \/ \A m \in Procs : owner[m] = s => pane[m] # p
    /\ pid[n] = None
    /\ \E i \in FreePids : StartsAs(n, i, i, s)
    /\ pane' = [pane EXCEPT ![n] = p]
    /\ stage' = [stage EXCEPT ![n] = "spawned"]
    /\ UNCHANGED <<mode, logged, ledger, sweepVars>>

\* add_entry, which is allowed to fail ("continuing without crash recovery").
Record(n) ==
    /\ stage[n] = "spawned"
    /\ stage' = [stage EXCEPT ![n] = "recorded"]
    /\ \/ /\ ~Locked
          /\ \E L \in Reads : ledger' = (L \ SameKey(L, n)) \cup {n}
          /\ logged' = logged \cup {n}
       \/ UNCHANGED <<ledger, logged>>
    /\ UNCHANGED <<mode, kernelVars, pane, sweepVars>>

Publish(n) ==
    /\ stage[n] = "recorded"
    /\ stage' = [stage EXCEPT ![n] = "live"]
    /\ UNCHANGED <<mode, kernelVars, pane, logged, ledger, sweepVars>>

\* PendingSpawn::drop: the group is killed, then the entry removed.
Rollback(n) ==
    /\ stage[n] = "recorded"
    /\ stage' = [stage EXCEPT ![n] = "rolling"]
    /\ alive' = alive \ (Members(group[n]) \cup {n})
    /\ UNCHANGED <<mode, pid, group, owner, pane, logged, ledger, sweepVars>>

\* The claim of a close, by a user or the reaper or by the end of the output.
Claim(n, s) ==
    /\ stage[n] = "live"
    /\ stage' = [stage EXCEPT ![n] = s]
    /\ UNCHANGED <<mode, kernelVars, pane, logged, ledger, sweepVars>>

\* kill_child_and_confirm has waited for the shell: its whole group was killed,
\* or the child watcher had already seen it exit.
KillConfirmed(n) ==
    /\ stage[n] = "claimed"
    /\ \/ alive' = alive \ (Members(group[n]) \cup {n})
       \/ n \notin alive /\ UNCHANGED alive
    /\ stage' = [stage EXCEPT ![n] = "confirmed"]
    /\ UNCHANGED <<mode, pid, group, owner, pane, logged, ledger, sweepVars>>

\* The backend lock was taken, or the shell outlived the polling window: the
\* entry stays.
KillUnconfirmed(n) ==
    /\ stage[n] = "claimed"
    /\ \E D \in SUBSET (Members(group[n]) \ {n}) : alive' = alive \ D
    /\ stage' = [stage EXCEPT ![n] = "closed"]
    /\ UNCHANGED <<mode, pid, group, owner, pane, logged, ledger, sweepVars>>

\* Mutant: the exit of the shell alone is taken for the end of the group, and
\* not even that is checked.
NaturalExitTrusted(n) ==
    /\ stage[n] = "exiting"
    /\ stage' = [stage EXCEPT ![n] = "confirmed"]
    /\ UNCHANGED <<mode, kernelVars, pane, logged, ledger, sweepVars>>

\* natural_exit_confirmed: the shell has been waited for, and the entry that the
\* ledger has for this pane and owner names a process and a group that are gone.
NaturalExit(n) ==
    /\ stage[n] = "exiting"
    /\ \/ /\ ~Locked
          /\ n \notin alive
          /\ \E L \in Reads : \A m \in SameKey(L, n) :
               m \notin alive /\ Members(group[m]) = {}
          /\ stage' = [stage EXCEPT ![n] = "confirmed"]
       \/ stage' = [stage EXCEPT ![n] = "closed"]
    /\ UNCHANGED <<mode, kernelVars, pane, logged, ledger, sweepVars>>

\* remove_entry takes the pane and the owner, not the process; a file that does
\* not have them, or could not be read, is not written.
RemoveEntry(n) ==
    /\ stage[n] \in {"confirmed", "rolling"}
    /\ \/ ~Locked /\ ledger' = ledger \ SameKey(ledger, n)
       \/ UNCHANGED ledger
    /\ stage' = [stage EXCEPT ![n] = "closed"]
    /\ UNCHANGED <<mode, kernelVars, pane, logged, sweepVars>>

\* The server dies and what it was doing is over; the shells may live on.
Crash(s) ==
    /\ mode[s] \in {"sweeping", "serving"}
    /\ mode' = [mode EXCEPT ![s] = "down"]
    /\ stage' = [n \in Procs |-> IF owner[n] = s /\ pane[n] # None
                                   THEN "closed" ELSE stage[n]]
    /\ IF mode[s] = "sweeping"
         THEN /\ todo' = {}
              /\ kept' = {}
              /\ target' = None
              /\ before' = {}
              /\ forced' = FALSE
         ELSE UNCHANGED <<todo, kept, target, before, forced>>
    /\ UNCHANGED <<kernelVars, pane, logged, ledger, signalled>>

-----------------------------------------------------------------------------
(* boot_sweep, before the server does anything else.                       *)

Boot(s) ==
    /\ mode[s] = "new"
    /\ \/ /\ ~Locked
          /\ mode' = [mode EXCEPT ![s] = "sweeping"]
          /\ todo' \in Reads
       \/ /\ mode' = [mode EXCEPT ![s] = "serving"]   \* the sweep is skipped
          /\ UNCHANGED todo
    /\ UNCHANGED <<kernelVars, shellVars, ledger, kept, target, before, forced,
                   signalled>>

Keep(n) == /\ kept' = kept \cup {n}
           /\ UNCHANGED <<alive, target, before, signalled>>
Drop(n) == UNCHANGED <<kept, alive, target, before, signalled>>

\* TERM to the group, which some members obey.
Terminate(n) ==
    /\ target' = n
    /\ before' = Members(group[n])
    /\ signalled' = signalled \cup Members(group[n])
    /\ \E D \in SUBSET Members(group[n]) : alive' = alive \ D
    /\ UNCHANGED kept

\* Mutant: the owner is not probed.
SweepAnyOwner(n) ==
    /\ target = None
    /\ n \in todo
    /\ todo' = todo \ {n}
    /\ \/ n \in alive /\ Terminate(n)
       \/ n \notin alive /\ Drop(n)
    /\ UNCHANGED <<mode, pid, group, owner, shellVars, ledger, forced>>

\* sweep_at for one entry up to TERM: a live owner keeps it, an empty group
\* drops it, a group without the recorded process keeps it, and so does every
\* probe or signal that fails.
SweepEntry(n) ==
    /\ target = None
    /\ n \in todo
    /\ todo' = todo \ {n}
    /\ \/ Keep(n)
       \/ /\ mode[owner[n]] = "down"
          /\ \/ Members(group[n]) = {} /\ Drop(n)
             \/ n \in alive /\ Terminate(n)
    /\ UNCHANGED <<mode, pid, group, owner, shellVars, ledger, forced>>

Done == target' = None /\ before' = {} /\ forced' = FALSE

\* Mutant: the group is killed without a second look at its members.
KillWholeGroup ==
    /\ target # None
    /\ ~forced
    /\ \/ /\ Members(group[target]) = {}
          /\ Done
          /\ UNCHANGED <<kept, alive, signalled>>
       \/ /\ Members(group[target]) # {}
          /\ signalled' = signalled \cup Members(group[target])
          /\ alive' = alive \ Members(group[target])
          /\ forced' = TRUE
          /\ UNCHANGED <<kept, target, before>>
    /\ UNCHANGED <<mode, pid, group, owner, shellVars, ledger, todo>>

\* After the grace period: members that were there before TERM, and nothing but
\* those, are killed; KILL may not have taken effect when it is checked.
SweepKill ==
    LET after == Members(group[target]) IN
    /\ target # None
    /\ ~forced
    /\ \/ /\ after = {}
          /\ Done
          /\ UNCHANGED <<kept, alive, signalled>>
       \/ /\ after # {}
          /\ kept' = kept \cup {target}
          /\ Done
          /\ UNCHANGED <<alive, signalled>>
       \/ /\ after # {}
          /\ after \subseteq before
          /\ signalled' = signalled \cup after
          /\ \E K \in SUBSET after : alive' = alive \ K
          /\ forced' = TRUE
          /\ UNCHANGED <<kept, target, before>>
    /\ UNCHANGED <<mode, pid, group, owner, shellVars, ledger, todo>>

\* Mutant: a group that is still there is killed again.
SweepInsists ==
    /\ target # None
    /\ forced
    /\ IF Members(group[target]) = {}
         THEN Done
         ELSE UNCHANGED <<target, before, forced>>
    /\ UNCHANGED <<kept, mode, kernelVars, shellVars, ledger, todo, signalled>>

\* The last look at the group decides whether the entry is retained.
SweepVerify ==
    /\ target # None
    /\ forced
    /\ \/ Members(group[target]) = {} /\ UNCHANGED kept
       \/ kept' = kept \cup {target}
    /\ Done
    /\ UNCHANGED <<mode, kernelVars, shellVars, ledger, todo, signalled>>

\* Mutant: what one sweep retained is there again in the next one.
SweepWriteKeeps(s) ==
    /\ mode[s] = "sweeping"
    /\ todo = {}
    /\ target = None
    /\ ledger' \in {kept, ledger}
    /\ mode' = [mode EXCEPT ![s] = "serving"]
    /\ UNCHANGED <<kernelVars, shellVars, todo, kept, target, before, forced,
                   signalled>>

\* write_ledger with what is retained, or a failed write; the lock is released.
SweepWrite(s) ==
    /\ mode[s] = "sweeping"
    /\ todo = {}
    /\ target = None
    /\ ledger' \in {kept, ledger}
    /\ kept' = {}
    /\ mode' = [mode EXCEPT ![s] = "serving"]
    /\ UNCHANGED <<kernelVars, shellVars, todo, target, before, forced,
                   signalled>>

-----------------------------------------------------------------------------
KernelStep == \E n \in Procs : \/ StrangerStarts(n) \/ Exits(n)
                               \/ \E m \in Procs : Fork(m, n)

ShellStep == \E n \in Procs :
    \/ Record(n) \/ Publish(n) \/ Rollback(n)
    \/ Claim(n, "claimed") \/ Claim(n, "exiting")
    \/ KillConfirmed(n) \/ KillUnconfirmed(n) \/ NaturalExit(n)
    \/ RemoveEntry(n)

SweepStep == SweepKill \/ SweepVerify \/ \E n \in Procs : SweepEntry(n)

Next ==
    \/ KernelStep
    \/ \E s \in Servers, p \in Panes, n \in Procs : Spawn(s, p, n)
    \/ ShellStep
    \/ SweepStep
    \/ \E s \in Servers : Boot(s) \/ SweepWrite(s) \/ Crash(s)

\* The sweep runs in the main thread, before anything else.
Fairness == /\ WF_vars(SweepStep)
            /\ \A s \in Servers : WF_vars(SweepWrite(s))

Spec     == Init /\ [][Next]_vars
FairSpec == Spec /\ Fairness

-----------------------------------------------------------------------------
(* Properties.                                                             *)

TypeOK ==
    /\ mode \in [Servers -> Modes]
    /\ pid \in [Procs -> Pids \cup {None}]
    /\ group \in [Procs -> Pids \cup {None}]
    /\ alive \subseteq Procs
    /\ owner \in [Procs -> Servers \cup {None}]
    /\ pane \in [Procs -> Panes \cup {None}]
    /\ stage \in [Procs -> Stages]
    /\ logged \subseteq Procs
    /\ ledger \subseteq logged
    /\ todo \subseteq ledger
    /\ kept \subseteq ledger
    /\ target \in ledger \cup {None}
    /\ before \subseteq Procs
    /\ forced \in BOOLEAN
    /\ signalled \subseteq Procs

\* A sweep never signals a process that no server started, however pids and
\* groups have been reused since the entry was written.
StrangersSpared == \A n \in signalled : owner[n] # None

\* A sweep never signals what another running server owns (two instances may
\* share the configuration directory).
ForeignSpared ==
    [][\A n \in signalled' \ signalled :
          owner[n] # None => mode[owner[n]] = "down"]_vars

\* While no pane id is created twice and the file can be read, a shell that was
\* written to the ledger stays there as long as it runs, across closes, failed
\* operations, crashes and sweeps: a later boot can find it.
EntryOutlivesProcess == \A n \in logged : n \in alive => n \in ledger

\* A sweep ends and lets the server start, whatever the swept processes do.
SweepEnds == \A s \in Servers : mode[s] = "sweeping" ~> mode[s] # "sweeping"

-----------------------------------------------------------------------------
(* For TLC: servers, processes and pids may be exchanged for one another.  *)
ProcessSymmetry ==
    Permutations(Servers) \cup Permutations(Procs) \cup Permutations(Pids)

=============================================================================
