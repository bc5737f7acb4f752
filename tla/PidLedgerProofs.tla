-------------------------- MODULE PidLedgerProofs --------------------------
(***************************************************************************)
(* Proofs about PidLedger, for any servers, panes, processes and pids.     *)
(***************************************************************************)
EXTENDS PidLedger, TLAPS

\* Running processes have a pid and a group, and a group belongs to one owner:
\* its number is not handed out while it has a member.
KernelInv ==
    /\ \A n \in alive : pid[n] \in Pids /\ group[n] \in Pids
    /\ \A n, m \in alive : group[n] = group[m] => owner[n] = owner[m]

ShellOK(n) ==
    /\ stage[n] # "none" =>
         pane[n] \in Panes /\ owner[n] \in Servers /\ pid[n] # None
    /\ pane[n] # None => stage[n] # "none"
    /\ n \in logged => stage[n] # "none"
    /\ stage[n] \in {"confirmed", "rolling"} => n \notin alive
    /\ n \in signalled \cup before => pid[n] # None
ShellInv == \A n \in Procs : ShellOK(n)

\* The lock is exclusive; the group a sweep has signalled belongs to a server
\* that is down.
SweepInv ==
    /\ \A s, t \in Servers : mode[s] = "sweeping" /\ mode[t] = "sweeping" => s = t
    /\ ~Locked => todo = {} /\ kept = {} /\ target = None
    /\ target # None => /\ mode[owner[target]] = "down"
                        /\ \A m \in before : owner[m] = owner[target]

\* What keeps a live shell in the file: its key is its own, and a sweep has not
\* lost it.
EntryInv ==
    ~Recreate /\ ~Unreadable =>
      /\ EntryOutlivesProcess
      /\ \A n, m \in Procs :
           /\ stage[n] # "none" /\ stage[m] # "none"
           /\ owner[n] = owner[m] /\ pane[n] = pane[m]
           => n = m
      /\ Locked => ledger \cap alive \subseteq todo \cup kept \cup {target}

\* The inductive invariant.
LInv == /\ TypeOK
        /\ KernelInv
        /\ ShellInv
        /\ SweepInv
        /\ StrangersSpared
        /\ EntryInv

-----------------------------------------------------------------------------
USE NoneAssumption, FlagsAssumption

\* The initial state satisfies the invariant.
LEMMA InitLInv == Init => LInv
BY DEF Init, LInv, TypeOK, Modes, Stages, KernelInv, ShellInv, ShellOK, SweepInv,
       Locked, StrangersSpared, EntryInv, EntryOutlivesProcess

\* A stranger takes numbers nobody uses.
LEMMA StrangerStartsStep ==
    ASSUME LInv, NEW n \in Procs, StrangerStarts(n)
    PROVE  LInv'
<1> USE DEF LInv, StrangerStarts, kernelVars, shellVars, sweepVars, StartsAs, FreePids
<1>f. /\ alive' = alive \cup {n}
      /\ \A k \in Procs \ {n} : owner'[k] = owner[k]
  BY DEF TypeOK
<1>o. /\ \A k \in signalled \cup before \cup logged : k \in Procs \ {n}
      /\ target # None => target \in Procs \ {n}
  BY DEF TypeOK, ShellInv, ShellOK
<1>1. TypeOK'
  BY DEF TypeOK, Modes, Stages
<1>2. KernelInv'
  BY DEF TypeOK, KernelInv
<1>3. ShellInv'
  BY DEF TypeOK, ShellInv, ShellOK
<1>4. SweepInv'
  BY <1>f, <1>o DEF SweepInv, Locked
<1>5. StrangersSpared'
  BY <1>f, <1>o DEF StrangersSpared
<1>6. EntryInv'
  <2>1. \A k \in Procs : stage[k] # "none" => owner'[k] = owner[k]
    BY <1>f DEF ShellInv, ShellOK
  <2> QED BY <1>f, <1>o, <2>1 DEF TypeOK, EntryInv, EntryOutlivesProcess, Locked
<1> QED BY <1>1, <1>2, <1>3, <1>4, <1>5, <1>6

\* A forked process joins the group and the owner of its parent.
LEMMA ForkStep ==
    ASSUME LInv, NEW n \in Procs, NEW m \in Procs, Fork(n, m)
    PROVE  LInv'
<1> USE DEF LInv, Fork, kernelVars, shellVars, sweepVars, StartsAs, FreePids
<1>f. /\ alive' = alive \cup {m}
      /\ \A k \in Procs \ {m} : owner'[k] = owner[k]
  BY DEF TypeOK
<1>o. /\ \A k \in signalled \cup before \cup logged : k \in Procs \ {m}
      /\ target # None => target \in Procs \ {m}
  BY DEF TypeOK, ShellInv, ShellOK
<1>1. TypeOK'
  BY DEF TypeOK, Modes, Stages
<1>2. KernelInv'
  BY DEF TypeOK, KernelInv
<1>3. ShellInv'
  BY DEF TypeOK, ShellInv, ShellOK
<1>4. SweepInv'
  BY <1>f, <1>o DEF SweepInv, Locked
<1>5. StrangersSpared'
  BY <1>f, <1>o DEF StrangersSpared
<1>6. EntryInv'
  <2>1. \A k \in Procs : stage[k] # "none" => owner'[k] = owner[k]
    BY <1>f DEF ShellInv, ShellOK
  <2> QED BY <1>f, <1>o, <2>1 DEF TypeOK, EntryInv, EntryOutlivesProcess, Locked
<1> QED BY <1>1, <1>2, <1>3, <1>4, <1>5, <1>6

\* The end of a process.
LEMMA ExitsStep ==
    ASSUME LInv, NEW n \in Procs, Exits(n)
    PROVE  LInv'
<1> USE DEF LInv, Exits, kernelVars, shellVars, sweepVars
<1>1. TypeOK'
  BY DEF TypeOK, Modes, Stages
<1>2. KernelInv'
  BY DEF TypeOK, KernelInv
<1>3. ShellInv'
  BY DEF TypeOK, ShellInv, ShellOK
<1>4. SweepInv'
  BY DEF TypeOK, SweepInv, Locked
<1>5. StrangersSpared'
  BY DEF TypeOK, StrangersSpared
<1>6. EntryInv'
  BY DEF TypeOK, EntryInv, EntryOutlivesProcess, Locked
<1> QED BY <1>1, <1>2, <1>3, <1>4, <1>5, <1>6

\* The spawn of a shell.
LEMMA SpawnStep ==
    ASSUME LInv, NEW s \in Servers, NEW p \in Panes, NEW n \in Procs, Spawn(s, p, n)
    PROVE  LInv'
<1> USE DEF LInv, Spawn, kernelVars, shellVars, sweepVars, StartsAs, FreePids
<1>f. /\ alive' = alive \cup {n}
      /\ \A k \in Procs \ {n} : owner'[k] = owner[k]
  BY DEF TypeOK
<1>o. /\ \A k \in signalled \cup before \cup logged : k \in Procs \ {n}
      /\ target # None => target \in Procs \ {n}
  BY DEF TypeOK, ShellInv, ShellOK
<1>1. TypeOK'
  BY DEF TypeOK, Modes, Stages
<1>2. KernelInv'
  BY DEF TypeOK, KernelInv
<1>3. ShellInv'
  BY DEF TypeOK, ShellInv, ShellOK
<1>4. SweepInv'
  BY <1>f, <1>o DEF SweepInv, Locked
<1>5. StrangersSpared'
  BY DEF TypeOK, StrangersSpared
<1>6. EntryInv'
  <2>1. /\ owner'[n] = s /\ pane'[n] = p
        /\ \A k \in Procs \ {n} : stage'[k] = stage[k] /\ pane'[k] = pane[k]
    BY DEF TypeOK
  <2>2. ~Recreate /\ ~Unreadable => \A k \in Procs \ {n} : owner[k] = s => pane[k] # p
    OBVIOUS
  <2>3. ~Recreate /\ ~Unreadable => \A k, m \in Procs :
          /\ stage'[k] # "none" /\ stage'[m] # "none"
          /\ owner'[k] = owner'[m] /\ pane'[k] = pane'[m]
          => k = m
    BY <1>f, <2>1, <2>2 DEF EntryInv
  <2>4. ~Recreate /\ ~Unreadable => EntryOutlivesProcess'
    BY <1>f, <1>o DEF EntryInv, EntryOutlivesProcess
  <2>5. ~Recreate /\ ~Unreadable /\ Locked' => ledger' \cap alive' \subseteq todo' \cup kept' \cup {target'}
    BY <1>f, <1>o DEF TypeOK, EntryInv, Locked
  <2> QED BY <2>3, <2>4, <2>5 DEF EntryInv
<1> QED BY <1>1, <1>2, <1>3, <1>4, <1>5, <1>6

\* add_entry replaces nothing but an entry of the same shell.
LEMMA RecordStep ==
    ASSUME LInv, NEW n \in Procs, Record(n)
    PROVE  LInv'
<1> USE DEF LInv, Record, kernelVars, shellVars, sweepVars, Reads, SameKey
<1>1. TypeOK'
  BY DEF TypeOK, Modes, Stages, SweepInv, Locked
<1>2. KernelInv'
  BY DEF TypeOK, KernelInv
<1>3. ShellInv'
  BY DEF TypeOK, ShellInv, ShellOK
<1>4. SweepInv'
  BY DEF TypeOK, SweepInv, Locked
<1>5. StrangersSpared'
  BY DEF TypeOK, StrangersSpared
<1>6. EntryInv'
  <2>1. ~Recreate /\ ~Unreadable => \A m \in SameKey(ledger, n) : m = n
    BY DEF TypeOK, ShellInv, ShellOK, EntryInv
  <2>2. ~Recreate /\ ~Unreadable => ledger \subseteq ledger' /\ logged' \subseteq logged \cup {n}
    BY <2>1
  <2>3. n \in logged' => n \in logged \/ n \in ledger'
    OBVIOUS
  <2>4. ~Recreate /\ ~Unreadable => EntryOutlivesProcess'
    BY <2>2, <2>3 DEF EntryInv, EntryOutlivesProcess
  <2>5. \A k \in Procs : stage'[k] # "none" => stage[k] # "none"
    BY DEF TypeOK
  <2>6. Locked' => Locked /\ UNCHANGED ledger
    BY DEF Locked
  <2> QED BY <2>4, <2>5, <2>6 DEF EntryInv, Locked
<1> QED BY <1>1, <1>2, <1>3, <1>4, <1>5, <1>6

\* The publication of a session.
LEMMA PublishStep ==
    ASSUME LInv, NEW n \in Procs, Publish(n)
    PROVE  LInv'
<1> USE DEF LInv, Publish, kernelVars, shellVars, sweepVars
<1>1. TypeOK'
  BY DEF TypeOK, Modes, Stages
<1>2. KernelInv'
  BY DEF TypeOK, KernelInv
<1>3. ShellInv'
  BY DEF TypeOK, ShellInv, ShellOK
<1>4. SweepInv'
  BY DEF TypeOK, SweepInv, Locked
<1>5. StrangersSpared'
  BY DEF TypeOK, StrangersSpared
<1>6. EntryInv'
  BY DEF TypeOK, EntryInv, EntryOutlivesProcess, Locked
<1> QED BY <1>1, <1>2, <1>3, <1>4, <1>5, <1>6

\* PendingSpawn::drop, the kill.
LEMMA RollbackStep ==
    ASSUME LInv, NEW n \in Procs, Rollback(n)
    PROVE  LInv'
<1> USE DEF LInv, Rollback, kernelVars, shellVars, sweepVars, Members
<1>1. TypeOK'
  BY DEF TypeOK, Modes, Stages
<1>2. KernelInv'
  BY DEF TypeOK, KernelInv
<1>3. ShellInv'
  BY DEF TypeOK, ShellInv, ShellOK
<1>4. SweepInv'
  BY DEF TypeOK, SweepInv, Locked
<1>5. StrangersSpared'
  BY DEF TypeOK, StrangersSpared
<1>6. EntryInv'
  BY DEF TypeOK, EntryInv, EntryOutlivesProcess, Locked
<1> QED BY <1>1, <1>2, <1>3, <1>4, <1>5, <1>6

\* The claim of a close.
LEMMA ClaimStep ==
    ASSUME LInv, NEW n \in Procs, NEW c \in {"claimed", "exiting"}, Claim(n, c)
    PROVE  LInv'
<1> USE DEF LInv, Claim, kernelVars, shellVars, sweepVars
<1>1. TypeOK'
  BY DEF TypeOK, Modes, Stages
<1>2. KernelInv'
  BY DEF TypeOK, KernelInv
<1>3. ShellInv'
  BY DEF TypeOK, ShellInv, ShellOK
<1>4. SweepInv'
  BY DEF TypeOK, SweepInv, Locked
<1>5. StrangersSpared'
  BY DEF TypeOK, StrangersSpared
<1>6. EntryInv'
  BY DEF TypeOK, EntryInv, EntryOutlivesProcess, Locked
<1> QED BY <1>1, <1>2, <1>3, <1>4, <1>5, <1>6

\* A kill that was confirmed.
LEMMA KillConfirmedStep ==
    ASSUME LInv, NEW n \in Procs, KillConfirmed(n)
    PROVE  LInv'
<1> USE DEF LInv, KillConfirmed, kernelVars, shellVars, sweepVars, Members
<1>1. TypeOK'
  BY DEF TypeOK, Modes, Stages
<1>2. KernelInv'
  BY DEF TypeOK, KernelInv
<1>3. ShellInv'
  BY DEF TypeOK, ShellInv, ShellOK
<1>4. SweepInv'
  BY DEF TypeOK, SweepInv, Locked
<1>5. StrangersSpared'
  BY DEF TypeOK, StrangersSpared
<1>6. EntryInv'
  BY DEF TypeOK, EntryInv, EntryOutlivesProcess, Locked
<1> QED BY <1>1, <1>2, <1>3, <1>4, <1>5, <1>6

\* A kill that could not be confirmed.
LEMMA KillUnconfirmedStep ==
    ASSUME LInv, NEW n \in Procs, KillUnconfirmed(n)
    PROVE  LInv'
<1> USE DEF LInv, KillUnconfirmed, kernelVars, shellVars, sweepVars, Members
<1>1. TypeOK'
  BY DEF TypeOK, Modes, Stages
<1>2. KernelInv'
  BY DEF TypeOK, KernelInv
<1>3. ShellInv'
  BY DEF TypeOK, ShellInv, ShellOK
<1>4. SweepInv'
  BY DEF TypeOK, SweepInv, Locked
<1>5. StrangersSpared'
  BY DEF TypeOK, StrangersSpared
<1>6. EntryInv'
  BY DEF TypeOK, EntryInv, EntryOutlivesProcess, Locked
<1> QED BY <1>1, <1>2, <1>3, <1>4, <1>5, <1>6

\* natural_exit_confirmed.
LEMMA NaturalExitStep ==
    ASSUME LInv, NEW n \in Procs, NaturalExit(n)
    PROVE  LInv'
<1> USE DEF LInv, NaturalExit, kernelVars, shellVars, sweepVars, Reads
<1>1. TypeOK'
  BY DEF TypeOK, Modes, Stages
<1>2. KernelInv'
  BY DEF TypeOK, KernelInv
<1>3. ShellInv'
  BY DEF TypeOK, ShellInv, ShellOK
<1>4. SweepInv'
  BY DEF TypeOK, SweepInv, Locked
<1>5. StrangersSpared'
  BY DEF TypeOK, StrangersSpared
<1>6. EntryInv'
  BY DEF TypeOK, EntryInv, EntryOutlivesProcess, Locked
<1> QED BY <1>1, <1>2, <1>3, <1>4, <1>5, <1>6

\* remove_entry takes out nothing but an entry of the same shell, which is dead.
LEMMA RemoveEntryStep ==
    ASSUME LInv, NEW n \in Procs, RemoveEntry(n)
    PROVE  LInv'
<1> USE DEF LInv, RemoveEntry, kernelVars, shellVars, sweepVars, SameKey
<1>1. TypeOK'
  BY DEF TypeOK, Modes, Stages, SweepInv, Locked
<1>2. KernelInv'
  BY DEF TypeOK, KernelInv
<1>3. ShellInv'
  BY DEF TypeOK, ShellInv, ShellOK
<1>4. SweepInv'
  BY DEF TypeOK, SweepInv, Locked
<1>5. StrangersSpared'
  BY DEF TypeOK, StrangersSpared
<1>6. EntryInv'
  <2>1. ~Recreate /\ ~Unreadable => \A m \in SameKey(ledger, n) : m \notin alive
    BY DEF TypeOK, ShellInv, ShellOK, EntryInv
  <2>2. ~Recreate /\ ~Unreadable => EntryOutlivesProcess'
    BY <2>1 DEF EntryInv, EntryOutlivesProcess
  <2>3. \A k \in Procs : stage'[k] # "none" => stage[k] # "none"
    BY DEF TypeOK
  <2>4. Locked' => Locked /\ UNCHANGED ledger
    BY DEF Locked
  <2> QED BY <2>2, <2>3, <2>4 DEF EntryInv, Locked
<1> QED BY <1>1, <1>2, <1>3, <1>4, <1>5, <1>6

\* The end of a server.
LEMMA CrashStep ==
    ASSUME LInv, NEW s \in Servers, Crash(s)
    PROVE  LInv'
<1> USE DEF LInv, Crash, kernelVars, shellVars, sweepVars
<1>1. TypeOK'
  BY DEF TypeOK, Modes, Stages
<1>2. KernelInv'
  BY DEF TypeOK, KernelInv
<1>3. ShellInv'
  BY DEF TypeOK, ShellInv, ShellOK
<1>4. SweepInv'
  BY DEF TypeOK, SweepInv, Locked
<1>5. StrangersSpared'
  BY DEF TypeOK, StrangersSpared
<1>6. EntryInv'
  <2>1. \A k \in Procs : stage'[k] # "none" => stage[k] # "none"
    BY DEF TypeOK, ShellInv, ShellOK
  <2>2. Locked' => Locked /\ UNCHANGED <<todo, kept, target>>
    BY DEF TypeOK, Locked, SweepInv
  <2> QED BY <2>1, <2>2 DEF EntryInv, EntryOutlivesProcess
<1> QED BY <1>1, <1>2, <1>3, <1>4, <1>5, <1>6

\* The start of a server.
LEMMA BootStep ==
    ASSUME LInv, NEW s \in Servers, Boot(s)
    PROVE  LInv'
<1> USE DEF LInv, Boot, kernelVars, shellVars, sweepVars, Reads
<1>1. TypeOK'
  BY DEF TypeOK, Modes, Stages
<1>2. KernelInv'
  BY DEF TypeOK, KernelInv
<1>3. ShellInv'
  BY DEF TypeOK, ShellInv, ShellOK
<1>4. SweepInv'
  <2>1. /\ \A t \in Servers : mode'[t] = "down" <=> mode[t] = "down"
        /\ \A t \in Servers \ {s} : mode'[t] = mode[t]
        /\ mode'[s] = "sweeping" => ~Locked
    BY DEF TypeOK
  <2>2. target # None => owner[target] \in Servers
    BY DEF TypeOK, ShellInv, ShellOK
  <2>3. ~Locked' => ~Locked /\ UNCHANGED todo
    BY DEF TypeOK, Locked
  <2> QED BY <2>1, <2>2, <2>3 DEF SweepInv, Locked
<1>5. StrangersSpared'
  BY DEF TypeOK, StrangersSpared
<1>6. EntryInv'
  BY DEF TypeOK, EntryInv, EntryOutlivesProcess, Locked
<1> QED BY <1>1, <1>2, <1>3, <1>4, <1>5, <1>6

\* The first half of sweep_entry.
LEMMA SweepEntryStep ==
    ASSUME LInv, NEW n \in Procs, SweepEntry(n)
    PROVE  LInv'
<1> USE DEF LInv, SweepEntry, kernelVars, shellVars, sweepVars, Keep, Drop, Terminate, Members
<1>n. n \in Procs /\ stage[n] # "none" /\ owner[n] \in Servers /\ Locked
  BY DEF TypeOK, ShellInv, ShellOK, SweepInv
<1>s. \/ UNCHANGED <<alive, target, before, signalled>>
      \/ /\ target' = n /\ before' = Members(group[n])
         /\ signalled' = signalled \cup Members(group[n])
         /\ alive' \subseteq alive
         /\ mode[owner[n]] = "down"
         /\ \A m \in Members(group[n]) : m \in alive /\ owner[m] = owner[n]
  BY DEF TypeOK, KernelInv
<1>1. TypeOK'
  BY DEF TypeOK, Modes, Stages
<1>2. KernelInv'
  BY DEF TypeOK, KernelInv
<1>3. ShellInv'
  BY <1>s DEF TypeOK, ShellInv, ShellOK, KernelInv
<1>4. SweepInv'
  BY <1>n, <1>s DEF SweepInv, Locked
<1>5. StrangersSpared'
  BY <1>n, <1>s DEF StrangersSpared
<1>6. EntryInv'
  BY DEF TypeOK, EntryInv, EntryOutlivesProcess, Locked
<1> QED BY <1>1, <1>2, <1>3, <1>4, <1>5, <1>6

\* The end of a sweep.
LEMMA SweepWriteStep ==
    ASSUME LInv, NEW s \in Servers, SweepWrite(s)
    PROVE  LInv'
<1> USE DEF LInv, SweepWrite, kernelVars, shellVars, sweepVars
<1>1. TypeOK'
  BY DEF TypeOK, Modes, Stages
<1>2. KernelInv'
  BY DEF TypeOK, KernelInv
<1>3. ShellInv'
  BY DEF TypeOK, ShellInv, ShellOK
<1>4. SweepInv'
  BY DEF TypeOK, SweepInv, Locked
<1>5. StrangersSpared'
  BY DEF TypeOK, StrangersSpared
<1>6. EntryInv'
  <2>1. Locked /\ ~Locked'
    BY DEF TypeOK, SweepInv, Locked
  <2>2. ~Recreate /\ ~Unreadable => EntryOutlivesProcess'
    BY <2>1 DEF TypeOK, EntryInv, EntryOutlivesProcess
  <2> QED BY <2>1, <2>2 DEF EntryInv
<1> QED BY <1>1, <1>2, <1>3, <1>4, <1>5, <1>6

\* KILL and the checks before it.
LEMMA SweepKillStep ==
    ASSUME LInv, SweepKill
    PROVE  LInv'
<1> USE DEF LInv, SweepKill, Done, Members, kernelVars, shellVars
<1>1. TypeOK'
  BY DEF TypeOK
<1>2. KernelInv'
  BY DEF TypeOK, KernelInv
<1>3. ShellInv'
  BY DEF TypeOK, ShellInv, ShellOK
<1>4. SweepInv'
  BY DEF TypeOK, SweepInv, Locked
<1>5. StrangersSpared'
  BY DEF TypeOK, StrangersSpared, SweepInv, ShellInv, ShellOK
<1>6. EntryInv'
  BY DEF TypeOK, EntryInv, EntryOutlivesProcess, Locked
<1> QED BY <1>1, <1>2, <1>3, <1>4, <1>5, <1>6

\* The last look at the group.
LEMMA SweepVerifyStep ==
    ASSUME LInv, SweepVerify
    PROVE  LInv'
<1> USE DEF LInv, SweepVerify, Done, Members, kernelVars, shellVars
<1>1. TypeOK'
  BY DEF TypeOK
<1>2. KernelInv'
  BY DEF TypeOK, KernelInv
<1>3. ShellInv'
  BY DEF TypeOK, ShellInv, ShellOK
<1>4. SweepInv'
  BY DEF TypeOK, SweepInv, Locked
<1>5. StrangersSpared'
  BY DEF TypeOK, StrangersSpared
<1>6. EntryInv'
  BY DEF TypeOK, EntryInv, EntryOutlivesProcess, Locked
<1> QED BY <1>1, <1>2, <1>3, <1>4, <1>5, <1>6

\* The invariant is inductive: one case per action of Next.
LEMMA NextLInv == LInv /\ [Next]_vars => LInv'
<1> SUFFICES ASSUME LInv, [Next]_vars PROVE LInv'
  OBVIOUS
<1>1. CASE KernelStep
  BY <1>1, StrangerStartsStep, ForkStep, ExitsStep DEF KernelStep
<1>2. CASE ShellStep
  BY <1>2, RecordStep, PublishStep, RollbackStep, ClaimStep, KillConfirmedStep,
     KillUnconfirmedStep, NaturalExitStep, RemoveEntryStep DEF ShellStep
<1>3. CASE SweepStep
  BY <1>3, SweepKillStep, SweepVerifyStep, SweepEntryStep DEF SweepStep
<1>4. CASE \E s \in Servers : Boot(s) \/ SweepWrite(s) \/ Crash(s)
  BY <1>4, BootStep, SweepWriteStep, CrashStep
<1>5. CASE UNCHANGED vars
  BY <1>5 DEF vars, kernelVars, shellVars, sweepVars, LInv, TypeOK, KernelInv,
     ShellInv, ShellOK, SweepInv, Locked, StrangersSpared, EntryInv,
     EntryOutlivesProcess
<1> QED BY <1>1, <1>2, <1>3, <1>4, <1>5, SpawnStep DEF Next

-----------------------------------------------------------------------------
(* The theorems.                                                           *)

\* The invariant of the ledger holds in every reachable state.
THEOREM Invariance == Spec => []LInv
BY InitLInv, NextLInv, PTL DEF Spec

\* The variables keep their types; a sweep works on entries of the file only.
THEOREM TypeCorrect == Spec => []TypeOK
<1>1. LInv => TypeOK
  BY DEF LInv
<1> QED BY <1>1, Invariance, PTL

\* sweep_entry never signals a process no server started, for any reuse of pids
\* and groups between the writing of the entry and the sweep or during it.
THEOREM StrangersAreSpared == Spec => []StrangersSpared
<1>1. LInv => StrangersSpared
  BY DEF LInv
<1> QED BY <1>1, Invariance, PTL

\* As long as no server creates a pane id twice and the file can be read, a
\* shell that add_entry has written stays in the file while it runs.
THEOREM EntriesOutliveProcesses ==
    ASSUME ~Recreate, ~Unreadable
    PROVE  Spec => []EntryOutlivesProcess
<1>1. LInv => EntryOutlivesProcess
  BY DEF LInv, EntryInv
<1> QED BY <1>1, Invariance, PTL

\* Only the two halves of sweep_entry signal anything.
LEMMA SignalsComeFromSweep ==
    ASSUME Next, signalled' # signalled
    PROVE  SweepKill \/ \E n \in Procs : SweepEntry(n)
<1> USE DEF sweepVars
<1>1. ~KernelStep
  BY DEF KernelStep, StrangerStarts, Fork, Exits
<1>2. ~ShellStep
  BY DEF ShellStep, Record, Publish, Rollback, Claim, KillConfirmed,
     KillUnconfirmed, NaturalExit, RemoveEntry
<1>3. ~SweepVerify
  BY DEF SweepVerify
<1>4. \A s \in Servers : ~Boot(s) /\ ~SweepWrite(s) /\ ~Crash(s)
  BY DEF Boot, SweepWrite, Crash
<1>5. \A s \in Servers, p \in Panes, n \in Procs : ~Spawn(s, p, n)
  BY DEF Spawn
<1> QED BY <1>1, <1>2, <1>3, <1>4, <1>5 DEF Next, SweepStep

\* A sweep never signals a process of a server that is up.
THEOREM ForeignIsSpared == Spec => ForeignSpared
<1>1. ASSUME LInv, [Next]_vars
      PROVE  [\A n \in signalled' \ signalled :
                 owner[n] # None => mode[owner[n]] = "down"]_vars
  <2> SUFFICES ASSUME Next, NEW n \in signalled' \ signalled
               PROVE  mode[owner[n]] = "down"
    BY <1>1
  <2>1. CASE SweepKill
    BY <1>1, <2>1 DEF SweepKill, LInv, SweepInv
  <2>2. ASSUME NEW m \in Procs, SweepEntry(m)
        PROVE  mode[owner[n]] = "down"
    BY <1>1, <2>2 DEF SweepEntry, Keep, Drop, Terminate, Members, LInv, KernelInv
  <2> QED BY <2>1, <2>2, SignalsComeFromSweep
<1> QED BY <1>1, Invariance, PTL DEF Spec, ForeignSpared

=============================================================================
