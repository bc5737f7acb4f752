----------------------- MODULE SessionLifecycleProofs -----------------------
(***************************************************************************)
(* Proofs about SessionLifecycle, for any panes, tabs, tasks, number of    *)
(* generations and grace period.                                           *)
(***************************************************************************)
EXTENDS SessionLifecycle, TLAPS

\* What a task's locals are worth at its program counter.
TaskOK(t) ==
    /\ task[t].pc # "idle" => task[t].pane \in Panes /\ task[t].tab \in Tabs
    /\ task[t].pc = "spawned" =>
         /\ task[t].gen \in Gens
         /\ stage[task[t].gen] = "spawned"
         /\ paneOf[task[t].gen] = task[t].pane
    /\ task[t].pc \in Holding =>
         /\ task[t].gen \in Gens
         /\ Published(task[t].gen)
         /\ paneOf[task[t].gen] = task[t].pane
TaskInv == \A t \in Tasks : TaskOK(t)

\* What a generation's fields are worth at its stage.
GenOK(g) == /\ stage[g] # "free" => paneOf[g] \in Panes
            /\ exited[g] => stage[g] \in {"closing", "closed"}
            /\ g \in candidates => Published(g)
GenInv == \A g \in Gens : GenOK(g)

\* The inductive invariant.
IInv == /\ TypeOK
        /\ SpawnIsExclusive
        /\ MapHoldsLiveGenerations
        /\ UnownedAgeIsOwn
        /\ TaskInv
        /\ GenInv

-----------------------------------------------------------------------------
USE PanesAssumption, BoundsAssumption DEF Gens, NoGen, Ages, NoEntry, Leaves

\* The initial state satisfies the invariant.
LEMMA InitIInv == Init => IInv
BY DEF Init, IInv, TypeOK, TaskType, IdleTask, PCs, Stages, SpawnIsExclusive,
       Reserving, MapHoldsLiveGenerations, UnownedAgeIsOwn, TaskInv, TaskOK,
       Holding, GenInv, GenOK, Published

\* What the updates of a task's record do.
OthersKept(t) == \A u \in Tasks \ {t} : task'[u] = task[u]
LocalsKept(t) == /\ task'[t].kind = task[t].kind
                 /\ task'[t].pane = task[t].pane
                 /\ task'[t].tab = task[t].tab
                 /\ task'[t].gen = task[t].gen

\* Goto moves one task and keeps its locals.
LEMMA GotoFacts ==
    ASSUME TypeOK, NEW t \in Tasks, NEW c \in PCs, Goto(t, c)
    PROVE  /\ task' \in [Tasks -> TaskType]
           /\ OthersKept(t)
           /\ LocalsKept(t)
           /\ task'[t].pc = c
BY DEF Goto, TypeOK, TaskType, OthersKept, LocalsKept

\* Finish makes one task idle.
LEMMA FinishFacts ==
    ASSUME TypeOK, NEW t \in Tasks, Finish(t)
    PROVE  /\ task' \in [Tasks -> TaskType]
           /\ OthersKept(t)
           /\ task'[t].pc = "idle"
BY DEF Finish, TypeOK, IdleTask, TaskType, PCs, OthersKept

\* A step of task t that neither takes nor gives back a reservation.
LEMMA SpawnFrame ==
    ASSUME SpawnIsExclusive, NEW t \in Tasks, OthersKept(t),
           UNCHANGED <<sessions, reservations>>,
           Reserving(t)' <=> Reserving(t),
           Reserving(t) => task'[t].pane = task[t].pane,
           task'[t].pc # "unpublished"
    PROVE  SpawnIsExclusive'
<1>1. \A u \in Tasks : /\ Reserving(u)' <=> Reserving(u)
                       /\ Reserving(u) => task'[u].pane = task[u].pane
                       /\ task'[u].pc # "unpublished"
  BY DEF OthersKept, Reserving, SpawnIsExclusive
<1> QED BY <1>1 DEF SpawnIsExclusive

\* A step that leaves the generations alone needs a look at its own task only.
LEMMA TaskFrame ==
    ASSUME TaskInv, NEW t \in Tasks, OthersKept(t),
           UNCHANGED <<stage, paneOf>>, TaskOK(t)'
    PROVE  TaskInv'
<1> SUFFICES ASSUME NEW u \in Tasks, u # t PROVE TaskOK(u)'
  BY DEF TaskInv
<1>1. task'[u] = task[u] /\ TaskOK(u)
  BY DEF OthersKept, TaskInv
<1> QED BY <1>1 DEF TaskOK, Published

\* Nothing about the map changes while map, stages and panes stay.
LEMMA MapFrame ==
    ASSUME MapHoldsLiveGenerations, UNCHANGED <<sessions, stage, paneOf>>
    PROVE  MapHoldsLiveGenerations'
BY DEF MapHoldsLiveGenerations

\* Nothing about the ages changes while map and ages stay.
LEMMA AgeFrame ==
    ASSUME UnownedAgeIsOwn, UNCHANGED <<sessions, unowned, age>>
    PROVE  UnownedAgeIsOwn'
BY DEF UnownedAgeIsOwn

\* A generation keeps its invariant while its fields and the candidates
\* stay.
LEMMA GenFrame ==
    ASSUME GenInv, UNCHANGED <<stage, paneOf, exited, candidates>>
    PROVE  GenInv'
BY DEF GenInv, GenOK, Published

\* A step in which task t gives its reservation back.
LEMMA GiveBack ==
    ASSUME TypeOK, SpawnIsExclusive, NEW t \in Tasks, OthersKept(t),
           Reserving(t), ~Reserving(t)', task'[t].pc # "unpublished",
           reservations' = reservations \ {task[t].pane},
           \A p \in Panes \ {task[t].pane} : sessions'[p] = sessions[p]
    PROVE  SpawnIsExclusive'
<1>1. \A u \in Tasks \ {t} : /\ Reserving(u)' <=> Reserving(u)
                             /\ task'[u] = task[u]
  BY DEF OthersKept, Reserving
<1>2. \A u \in Tasks \ {t} : Reserving(u) => task[u].pane # task[t].pane
  BY DEF SpawnIsExclusive
<1>3. \A p \in reservations' : sessions'[p] = NoGen
  BY DEF SpawnIsExclusive, TypeOK
<1>4. \A u \in Tasks : Reserving(u)' => task'[u].pane \in reservations'
  BY <1>1, <1>2 DEF SpawnIsExclusive
<1>5. \A u, v \in Tasks :
        Reserving(u)' /\ Reserving(v)' /\ task'[u].pane = task'[v].pane => u = v
  BY <1>1 DEF SpawnIsExclusive
<1>6. \A p \in reservations' :
         \E u \in Tasks : Reserving(u)' /\ task'[u].pane = p
  <2> TAKE p \in reservations'
  <2>1. PICK u \in Tasks : Reserving(u) /\ task[u].pane = p
    BY DEF SpawnIsExclusive
  <2> QED BY <2>1, <1>1
<1>7. \A u \in Tasks : task'[u].pc # "unpublished"
  BY <1>1 DEF SpawnIsExclusive
<1> QED BY <1>3, <1>4, <1>5, <1>6, <1>7 DEF SpawnIsExclusive

\* A close keeps the layouts well formed.
LEMMA CollectType ==
    ASSUME TypeOK, NEW x, CollectLayoutClose(x)
    PROVE  /\ tabs' \subseteq Tabs
           /\ leaves' \in [Tabs -> SUBSET Leaves]
           /\ active' \in Leaves \cup {NoPane}
BY DEF CollectLayoutClose, PurgePane, TypeOK

\* create_tab starting with fresh ids preserves the invariant.
LEMMA StartCreateTabStep ==
    ASSUME IInv, NEW t \in Tasks, StartCreateTab(t)
    PROVE  IInv'
<1> USE DEF IInv, StartCreateTab, allButTask, regVars, layoutVars, sessVars
<1>f. /\ task' \in [Tasks -> TaskType] /\ OthersKept(t)
      /\ task'[t].pc = "creating"
      /\ task'[t].pane \in Panes /\ task'[t].tab \in Tabs
  BY DEF TypeOK, TaskType, PCs, OthersKept
<1>1. TypeOK'
  BY <1>f DEF TypeOK, TaskInv, TaskOK, Holding
<1>2. SpawnIsExclusive'
  BY <1>f, SpawnFrame DEF Reserving, LocalsKept
<1>3. MapHoldsLiveGenerations'
  BY MapFrame
<1>4. UnownedAgeIsOwn'
  BY AgeFrame
<1>5. TaskInv'
  <2>1. TaskOK(t)'
    BY <1>f DEF TaskInv, TaskOK, Holding, LocalsKept, Published
  <2> QED BY <2>1, <1>f, TaskFrame
<1>6. GenInv'
  BY GenFrame
<1> QED BY <1>1, <1>2, <1>3, <1>4, <1>5, <1>6

\* ws_handler accepting a connection preserves the invariant.
LEMMA WsUpgradeStep ==
    ASSUME IInv, NEW t \in Tasks, WsUpgrade(t)
    PROVE  IInv'
<1> USE DEF IInv, WsUpgrade, allButTask, regVars, layoutVars, sessVars
<1>f. /\ task' \in [Tasks -> TaskType] /\ OthersKept(t)
      /\ task'[t].pc = "upgraded"
      /\ task'[t].pane \in Panes /\ task'[t].tab \in Tabs
  BY DEF TypeOK, TaskType, PCs, OthersKept
<1>1. TypeOK'
  BY <1>f DEF TypeOK, TaskInv, TaskOK, Holding
<1>2. SpawnIsExclusive'
  BY <1>f, SpawnFrame DEF Reserving, LocalsKept
<1>3. MapHoldsLiveGenerations'
  BY MapFrame
<1>4. UnownedAgeIsOwn'
  BY AgeFrame
<1>5. TaskInv'
  <2>1. TaskOK(t)'
    BY <1>f DEF TaskInv, TaskOK, Holding, LocalsKept, Published
  <2> QED BY <2>1, <1>f, TaskFrame
<1>6. GenInv'
  BY GenFrame
<1> QED BY <1>1, <1>2, <1>3, <1>4, <1>5, <1>6

\* handle_socket without a session preserves the invariant.
LEMMA MissedLookupStep ==
    ASSUME IInv, NEW t \in Tasks, MissedLookup(t)
    PROVE  IInv'
<1> USE DEF IInv, MissedLookup, allButTask, regVars, layoutVars, sessVars
<1>f. /\ task' \in [Tasks -> TaskType] /\ OthersKept(t)
      /\ \/ task'[t].pc = "idle"
         \/ LocalsKept(t) /\ task'[t].pc = "creating"
  BY GotoFacts, FinishFacts DEF PCs
<1>1. TypeOK'
  BY <1>f DEF TypeOK, TaskInv, TaskOK, Holding
<1>2. SpawnIsExclusive'
  BY <1>f, SpawnFrame DEF Reserving, LocalsKept
<1>3. MapHoldsLiveGenerations'
  BY MapFrame
<1>4. UnownedAgeIsOwn'
  BY AgeFrame
<1>5. TaskInv'
  <2>1. TaskOK(t)'
    BY <1>f DEF TaskInv, TaskOK, Holding, LocalsKept, Published
  <2> QED BY <2>1, <1>f, TaskFrame
<1>6. GenInv'
  BY GenFrame
<1> QED BY <1>1, <1>2, <1>3, <1>4, <1>5, <1>6

\* set_status(Connected) before the second check preserves the invariant.
LEMMA MirrorConnectedStep ==
    ASSUME IInv, NEW t \in Tasks, MirrorConnected(t)
    PROVE  IInv'
<1> USE DEF IInv, MirrorConnected, allButTask, regVars, layoutVars, sessVars
<1>f. /\ task' \in [Tasks -> TaskType] /\ OthersKept(t)
      /\ LocalsKept(t) /\ task'[t].pc = "mirrored"
  BY GotoFacts DEF PCs
<1>1. TypeOK'
  BY <1>f DEF TypeOK, TaskInv, TaskOK, Holding
<1>2. SpawnIsExclusive'
  BY <1>f, SpawnFrame DEF Reserving, LocalsKept
<1>3. MapHoldsLiveGenerations'
  BY MapFrame
<1>4. UnownedAgeIsOwn'
  BY AgeFrame
<1>5. TaskInv'
  <2>1. TaskOK(t)'
    BY <1>f DEF TaskInv, TaskOK, Holding, LocalsKept, Published
  <2> QED BY <2>1, <1>f, TaskFrame
<1>6. GenInv'
  BY GenFrame
<1> QED BY <1>1, <1>2, <1>3, <1>4, <1>5, <1>6

\* register_singleton_tab's first check preserves the invariant.
LEMMA SingletonCheckCurrentStep ==
    ASSUME IInv, NEW t \in Tasks, SingletonCheckCurrent(t)
    PROVE  IInv'
<1> USE DEF IInv, SingletonCheckCurrent, allButTask, regVars, layoutVars, sessVars
<1>f. /\ task' \in [Tasks -> TaskType] /\ OthersKept(t)
      /\ \/ LocalsKept(t) /\ task'[t].pc = "current"
         \/ LocalsKept(t) /\ task'[t].pc = "validated"
  BY GotoFacts, FinishFacts DEF PCs
<1>1. TypeOK'
  BY <1>f DEF TypeOK, TaskInv, TaskOK, Holding
<1>2. SpawnIsExclusive'
  BY <1>f, SpawnFrame DEF Reserving, LocalsKept
<1>3. MapHoldsLiveGenerations'
  BY MapFrame
<1>4. UnownedAgeIsOwn'
  BY AgeFrame
<1>5. TaskInv'
  <2>1. TaskOK(t)'
    BY <1>f DEF TaskInv, TaskOK, Holding, LocalsKept, Published
  <2> QED BY <2>1, <1>f, TaskFrame
<1>6. GenInv'
  BY GenFrame
<1> QED BY <1>1, <1>2, <1>3, <1>4, <1>5, <1>6

\* register_singleton_tab's second check preserves the invariant.
LEMMA SingletonCheckReferencedStep ==
    ASSUME IInv, NEW t \in Tasks, SingletonCheckReferenced(t)
    PROVE  IInv'
<1> USE DEF IInv, SingletonCheckReferenced, allButTask, regVars, layoutVars, sessVars
<1>f. /\ task' \in [Tasks -> TaskType] /\ OthersKept(t)
      /\ \/ LocalsKept(t) /\ task'[t].pc = "unreferenced"
         \/ LocalsKept(t) /\ task'[t].pc = "validated"
  BY GotoFacts, FinishFacts DEF PCs
<1>1. TypeOK'
  BY <1>f DEF TypeOK, TaskInv, TaskOK, Holding
<1>2. SpawnIsExclusive'
  BY <1>f, SpawnFrame DEF Reserving, LocalsKept
<1>3. MapHoldsLiveGenerations'
  BY MapFrame
<1>4. UnownedAgeIsOwn'
  BY AgeFrame
<1>5. TaskInv'
  <2>1. TaskOK(t)'
    BY <1>f DEF TaskInv, TaskOK, Holding, LocalsKept, Published
  <2> QED BY <2>1, <1>f, TaskFrame
<1>6. GenInv'
  BY GenFrame
<1> QED BY <1>1, <1>2, <1>3, <1>4, <1>5, <1>6

\* register_singleton_tab's insertion preserves the invariant.
LEMMA SingletonInsertStep ==
    ASSUME IInv, NEW t \in Tasks, SingletonInsert(t)
    PROVE  IInv'
<1> USE DEF IInv, SingletonInsert, InsertTab, allButTask, regVars, layoutVars, sessVars
<1>f. /\ task' \in [Tasks -> TaskType] /\ OthersKept(t)
      /\ LocalsKept(t) /\ task'[t].pc = "inserted"
  BY GotoFacts DEF PCs
<1>1. TypeOK'
  BY <1>f DEF TypeOK, TaskInv, TaskOK, Holding
<1>2. SpawnIsExclusive'
  BY <1>f, SpawnFrame DEF Reserving, LocalsKept
<1>3. MapHoldsLiveGenerations'
  BY MapFrame
<1>4. UnownedAgeIsOwn'
  BY AgeFrame
<1>5. TaskInv'
  <2>1. TaskOK(t)'
    BY <1>f DEF TaskInv, TaskOK, Holding, LocalsKept, Published
  <2> QED BY <2>1, <1>f, TaskFrame
<1>6. GenInv'
  BY GenFrame
<1> QED BY <1>1, <1>2, <1>3, <1>4, <1>5, <1>6

\* register_singleton_tab's final check preserves the invariant.
LEMMA SingletonRecheckStep ==
    ASSUME IInv, NEW t \in Tasks, SingletonRecheck(t)
    PROVE  IInv'
<1> USE DEF IInv, SingletonRecheck, RemoveTabs, allButTask, regVars, layoutVars, sessVars
<1>f. /\ task' \in [Tasks -> TaskType] /\ OthersKept(t)
      /\ LocalsKept(t) /\ task'[t].pc = "validated"
  BY GotoFacts DEF PCs
<1>1. TypeOK'
  BY <1>f DEF TypeOK, TaskInv, TaskOK, Holding
<1>2. SpawnIsExclusive'
  BY <1>f, SpawnFrame DEF Reserving, LocalsKept
<1>3. MapHoldsLiveGenerations'
  BY MapFrame
<1>4. UnownedAgeIsOwn'
  BY AgeFrame
<1>5. TaskInv'
  <2>1. TaskOK(t)'
    BY <1>f DEF TaskInv, TaskOK, Holding, LocalsKept, Published
  <2> QED BY <2>1, <1>f, TaskFrame
<1>6. GenInv'
  BY GenFrame
<1> QED BY <1>1, <1>2, <1>3, <1>4, <1>5, <1>6

\* Session::add_client preserves the invariant.
LEMMA AddClientStep ==
    ASSUME IInv, NEW t \in Tasks, AddClient(t)
    PROVE  IInv'
<1> USE DEF IInv, AddClient, allButTask, regVars, layoutVars, sessVars
<1>f. /\ task' \in [Tasks -> TaskType] /\ OthersKept(t)
      /\ LocalsKept(t) /\ task'[t].pc = "attached"
  BY GotoFacts DEF PCs
<1>1. TypeOK'
  BY <1>f DEF TypeOK, TaskInv, TaskOK, Holding
<1>2. SpawnIsExclusive'
  BY <1>f, SpawnFrame DEF Reserving, LocalsKept
<1>3. MapHoldsLiveGenerations'
  BY MapFrame
<1>4. UnownedAgeIsOwn'
  BY AgeFrame
<1>5. TaskInv'
  <2>1. TaskOK(t)'
    BY <1>f DEF TaskInv, TaskOK, Holding, LocalsKept, Published
  <2> QED BY <2>1, <1>f, TaskFrame
<1>6. GenInv'
  BY GenFrame
<1> QED BY <1>1, <1>2, <1>3, <1>4, <1>5, <1>6

\* Session::remove_client preserves the invariant.
LEMMA RemoveClientStep ==
    ASSUME IInv, NEW t \in Tasks, RemoveClient(t)
    PROVE  IInv'
<1> USE DEF IInv, RemoveClient, allButTask, regVars, layoutVars, sessVars
<1>f. /\ task' \in [Tasks -> TaskType] /\ OthersKept(t)
      /\ LocalsKept(t) /\ task'[t].pc = "left"
  BY GotoFacts DEF PCs
<1>1. TypeOK'
  BY <1>f DEF TypeOK, TaskInv, TaskOK, Holding
<1>2. SpawnIsExclusive'
  BY <1>f, SpawnFrame DEF Reserving, LocalsKept
<1>3. MapHoldsLiveGenerations'
  BY MapFrame
<1>4. UnownedAgeIsOwn'
  BY AgeFrame
<1>5. TaskInv'
  <2>1. TaskOK(t)'
    BY <1>f DEF TaskInv, TaskOK, Holding, LocalsKept, Published
  <2> QED BY <2>1, <1>f, TaskFrame
<1>6. GenInv'
  BY GenFrame
<1> QED BY <1>1, <1>2, <1>3, <1>4, <1>5, <1>6

\* has_clients after a disconnect preserves the invariant.
LEMMA HasClientsStep ==
    ASSUME IInv, NEW t \in Tasks, HasClients(t)
    PROVE  IInv'
<1> USE DEF IInv, HasClients, allButTask, regVars, layoutVars, sessVars
<1>f. /\ task' \in [Tasks -> TaskType] /\ OthersKept(t)
      /\ \/ task'[t].pc = "idle"
         \/ LocalsKept(t) /\ task'[t].pc = "emptied"
  BY GotoFacts, FinishFacts DEF PCs
<1>1. TypeOK'
  BY <1>f DEF TypeOK, TaskInv, TaskOK, Holding
<1>2. SpawnIsExclusive'
  BY <1>f, SpawnFrame DEF Reserving, LocalsKept
<1>3. MapHoldsLiveGenerations'
  BY MapFrame
<1>4. UnownedAgeIsOwn'
  BY AgeFrame
<1>5. TaskInv'
  <2>1. TaskOK(t)'
    BY <1>f DEF TaskInv, TaskOK, Holding, LocalsKept, Published
  <2> QED BY <2>1, <1>f, TaskFrame
<1>6. GenInv'
  BY GenFrame
<1> QED BY <1>1, <1>2, <1>3, <1>4, <1>5, <1>6

\* set_status(Detached) preserves the invariant.
LEMMA MirrorDetachedStep ==
    ASSUME IInv, NEW t \in Tasks, MirrorDetached(t)
    PROVE  IInv'
<1> USE DEF IInv, MirrorDetached, allButTask, regVars, layoutVars, sessVars
<1>f. /\ task' \in [Tasks -> TaskType] /\ OthersKept(t)
      /\ task'[t].pc = "idle"
  BY FinishFacts
<1>1. TypeOK'
  BY <1>f DEF TypeOK, TaskInv, TaskOK, Holding
<1>2. SpawnIsExclusive'
  BY <1>f, SpawnFrame DEF Reserving, LocalsKept
<1>3. MapHoldsLiveGenerations'
  BY MapFrame
<1>4. UnownedAgeIsOwn'
  BY AgeFrame
<1>5. TaskInv'
  <2>1. TaskOK(t)'
    BY <1>f DEF TaskInv, TaskOK, Holding, LocalsKept, Published
  <2> QED BY <2>1, <1>f, TaskFrame
<1>6. GenInv'
  BY GenFrame
<1> QED BY <1>1, <1>2, <1>3, <1>4, <1>5, <1>6

\* A shell that cannot be resolved leaves the invariant alone.
LEMMA ShellResolveFailsStep ==
    ASSUME IInv, NEW t \in Tasks, ShellResolveFails(t)
    PROVE  IInv'
<1> USE DEF IInv, ShellResolveFails, allButTask, regVars, layoutVars, sessVars
<1>f. /\ task' \in [Tasks -> TaskType] /\ OthersKept(t)
      /\ task'[t].pc = "idle"
  BY FinishFacts
<1>1. TypeOK'
  BY <1>f DEF TypeOK, TaskInv, TaskOK, Holding
<1>2. SpawnIsExclusive'
  BY <1>f, SpawnFrame DEF Reserving, LocalsKept
<1>3. MapHoldsLiveGenerations'
  BY MapFrame
<1>4. UnownedAgeIsOwn'
  BY AgeFrame
<1>5. TaskInv'
  <2>1. TaskOK(t)'
    BY <1>f DEF TaskInv, TaskOK, Holding, LocalsKept, Published
  <2> QED BY <2>1, <1>f, TaskFrame
<1>6. GenInv'
  BY GenFrame
<1> QED BY <1>1, <1>2, <1>3, <1>4, <1>5, <1>6

\* A failed spawn preserves the invariant.
LEMMA SpawnFailsStep ==
    ASSUME IInv, NEW t \in Tasks, SpawnFails(t)
    PROVE  IInv'
<1> USE DEF IInv, SpawnFails, allButTask, regVars, layoutVars, sessVars
<1>f. /\ task' \in [Tasks -> TaskType] /\ OthersKept(t)
      /\ LocalsKept(t) /\ task'[t].pc = "unwound"
  BY GotoFacts DEF PCs
<1>1. TypeOK'
  BY <1>f DEF TypeOK, TaskInv, TaskOK, Holding
<1>2. SpawnIsExclusive'
  BY <1>f, SpawnFrame DEF Reserving, LocalsKept
<1>3. MapHoldsLiveGenerations'
  BY MapFrame
<1>4. UnownedAgeIsOwn'
  BY AgeFrame
<1>5. TaskInv'
  <2>1. TaskOK(t)'
    BY <1>f DEF TaskInv, TaskOK, Holding, LocalsKept, Published
  <2> QED BY <2>1, <1>f, TaskFrame
<1>6. GenInv'
  BY GenFrame
<1> QED BY <1>1, <1>2, <1>3, <1>4, <1>5, <1>6

\* insert_tab_for_session preserves the invariant.
LEMMA InsertTabForSessionStep ==
    ASSUME IInv, NEW t \in Tasks, InsertTabForSession(t)
    PROVE  IInv'
<1> USE DEF IInv, InsertTabForSession, allButTask, regVars, layoutVars,
            sessVars
<1>f. /\ task' \in [Tasks -> TaskType] /\ OthersKept(t)
      /\ task'[t].pc = "idle"
  BY FinishFacts
<1>l. /\ tabs' \subseteq Tabs
      /\ leaves' \in [Tabs -> SUBSET Leaves]
      /\ active' \in Leaves \cup {NoPane}
  <2>1. task[t].pane \in Panes /\ task[t].tab \in Tabs
    BY DEF TaskInv, TaskOK
  <2>2. CASE sessions[task[t].pane] = task[t].gen
    BY <2>1, <2>2 DEF InsertTab, TypeOK
  <2>3. CASE sessions[task[t].pane] # task[t].gen
    BY <2>3 DEF TypeOK
  <2> QED BY <2>2, <2>3
<1>1. TypeOK'
  BY <1>f, <1>l DEF TypeOK
<1>2. SpawnIsExclusive'
  BY <1>f, SpawnFrame DEF Reserving
<1>3. MapHoldsLiveGenerations'
  BY MapFrame
<1>4. UnownedAgeIsOwn'
  BY AgeFrame
<1>5. TaskInv'
  BY <1>f, TaskFrame DEF TaskOK, Holding
<1>6. GenInv'
  BY GenFrame
<1> QED BY <1>1, <1>2, <1>3, <1>4, <1>5, <1>6

\* reserve_session preserves the invariant: its guard makes the reservation
\* exclusive.
LEMMA ReserveSessionStep ==
    ASSUME IInv, NEW t \in Tasks, ReserveSession(t)
    PROVE  IInv'
<1> USE DEF IInv, ReserveSession, layoutVars, sessVars
<1>p. task[t].pane \in Panes /\ task[t].tab \in Tabs /\ ~Reserving(t)
  BY DEF TaskInv, TaskOK, Reserving
<1>3. MapHoldsLiveGenerations'
  BY MapFrame
<1>4. UnownedAgeIsOwn'
  BY AgeFrame
<1>6. GenInv'
  BY GenFrame
<1>7. CASE sessions[task[t].pane] = NoGen /\ task[t].pane \notin reservations
  <2>f. /\ task' \in [Tasks -> TaskType] /\ OthersKept(t)
        /\ LocalsKept(t) /\ task'[t].pc = "reserved"
    BY <1>7, GotoFacts DEF PCs
  <2>r. reservations' = reservations \cup {task[t].pane}
    BY <1>7
  <2>1. TypeOK'
    BY <1>p, <2>f, <2>r DEF TypeOK
  <2>2. SpawnIsExclusive'
    <3>1. Reserving(t)' /\ task'[t].pane = task[t].pane
      BY <2>f DEF Reserving, LocalsKept
    <3>2. \A u \in Tasks \ {t} : /\ Reserving(u)' <=> Reserving(u)
                                 /\ task'[u] = task[u]
      BY <2>f DEF Reserving, OthersKept
    <3>3. \A u \in Tasks \ {t} : Reserving(u) => task[u].pane # task[t].pane
      BY <1>7 DEF SpawnIsExclusive
    <3>4. \A p \in reservations' : sessions'[p] = NoGen
      BY <1>7, <2>r DEF SpawnIsExclusive
    <3>5. \A u \in Tasks : Reserving(u)' => task'[u].pane \in reservations'
      BY <2>r, <3>1, <3>2 DEF SpawnIsExclusive
    <3>6. \A u, v \in Tasks :
            Reserving(u)' /\ Reserving(v)' /\ task'[u].pane = task'[v].pane
               => u = v
      BY <3>1, <3>2, <3>3 DEF SpawnIsExclusive
    <3>7. \A p \in reservations' :
             \E u \in Tasks : Reserving(u)' /\ task'[u].pane = p
      <4> TAKE p \in reservations'
      <4>1. CASE p = task[t].pane
        BY <4>1, <3>1
      <4>2. CASE p \in reservations
        <5>1. PICK u \in Tasks : Reserving(u) /\ task[u].pane = p
          BY <4>2 DEF SpawnIsExclusive
        <5> QED BY <5>1, <3>2, <1>p
      <4> QED BY <2>r, <4>1, <4>2
    <3>8. \A u \in Tasks : task'[u].pc # "unpublished"
      BY <2>f, <3>2 DEF SpawnIsExclusive
    <3> QED BY <3>4, <3>5, <3>6, <3>7, <3>8 DEF SpawnIsExclusive
  <2>5. TaskInv'
    BY <1>p, <2>f, TaskFrame DEF TaskOK, Holding, LocalsKept
  <2> QED BY <2>1, <2>2, <1>3, <1>4, <2>5, <1>6
<1>8. CASE ~(sessions[task[t].pane] = NoGen /\ task[t].pane \notin reservations)
  <2>f. /\ task' \in [Tasks -> TaskType] /\ OthersKept(t)
        /\ task'[t].pc = "idle"
    BY <1>8, FinishFacts
  <2>r. reservations' = reservations
    BY <1>8
  <2>1. TypeOK'
    BY <2>f, <2>r DEF TypeOK
  <2>2. SpawnIsExclusive'
    BY <1>p, <2>f, <2>r, SpawnFrame DEF Reserving
  <2>5. TaskInv'
    BY <2>f, TaskFrame DEF TaskOK, Holding
  <2> QED BY <2>1, <2>2, <1>3, <1>4, <2>5, <1>6
<1> QED BY <1>7, <1>8

\* The spawn of the backend preserves the invariant.
LEMMA SpawnChildStep ==
    ASSUME IInv, NEW t \in Tasks, SpawnChild(t)
    PROVE  IInv'
<1> USE DEF IInv, layoutVars
<1>p. task[t].pane \in Panes /\ task[t].tab \in Tabs /\ task[t].pc = "reserved"
  BY DEF SpawnChild, TaskInv, TaskOK
<1>g. PICK g \in Gens :
        /\ stage[g] = "free"
        /\ stage' = [stage EXCEPT ![g] = "spawned"]
        /\ paneOf' = [paneOf EXCEPT ![g] = task[t].pane]
        /\ connected' = [connected EXCEPT ![g] = TRUE]
        /\ task' = [task EXCEPT ![t].pc = "spawned", ![t].gen = g]
        /\ UNCHANGED <<sessions, reservations, unowned, tabs, leaves, active,
                       minted, age, exited, clients, candidates>>
  BY DEF SpawnChild, regVars
<1>f. /\ task' \in [Tasks -> TaskType] /\ OthersKept(t)
      /\ task'[t].pc = "spawned" /\ task'[t].gen = g
      /\ task'[t].pane = task[t].pane /\ task'[t].tab = task[t].tab
  <2>1. task \in [Tasks -> TaskType]
    BY DEF TypeOK
  <2>2. task' = [task EXCEPT ![t] = [task[t] EXCEPT !.pc = "spawned",
                                                  !.gen = g]]
    BY <1>g, <2>1
  <2> QED BY <2>1, <2>2 DEF TaskType, PCs, OthersKept
<1>s. /\ stage \in [Gens -> Stages] /\ stage'[g] = "spawned"
      /\ paneOf'[g] = task[t].pane
      /\ \A h \in Gens \ {g} : stage'[h] = stage[h] /\ paneOf'[h] = paneOf[h]
  BY <1>g DEF TypeOK
<1>1. TypeOK'
  BY <1>p, <1>g, <1>f DEF TypeOK, Stages
<1>2. SpawnIsExclusive'
  BY <1>p, <1>g, <1>f, SpawnFrame DEF Reserving
<1>3. MapHoldsLiveGenerations'
  BY <1>g, <1>s DEF MapHoldsLiveGenerations, TypeOK
<1>4. UnownedAgeIsOwn'
  BY <1>g, AgeFrame
<1>5. TaskInv'
  <2> SUFFICES ASSUME NEW u \in Tasks PROVE TaskOK(u)'
    BY DEF TaskInv
  <2>1. CASE u = t
    BY <2>1, <1>p, <1>f, <1>s DEF TaskOK, Holding
  <2>2. CASE u # t
    <3>1. task'[u] = task[u] /\ TaskOK(u)
      BY <2>2, <1>f DEF OthersKept, TaskInv
    <3>2. task[u].pc \in Holding \cup {"spawned"} => task[u].gen # g
      BY <3>1, <1>g DEF TaskOK, Published
    <3> QED BY <3>1, <3>2, <1>s DEF TaskOK, Published
  <2> QED BY <2>1, <2>2
<1>6. GenInv'
  BY <1>p, <1>g, <1>s DEF GenInv, GenOK, Published
<1> QED BY <1>1, <1>2, <1>3, <1>4, <1>5, <1>6

\* SessionReservation::publish preserves the invariant: the reservation
\* rules out its Occupied arm.
LEMMA PublishStep ==
    ASSUME IInv, NEW t \in Tasks, Publish(t)
    PROVE  IInv'
<1> USE DEF IInv
<1> DEFINE p == task[t].pane
           g == task[t].gen
<1>p. /\ p \in Panes /\ task[t].tab \in Tabs /\ g \in Gens
      /\ stage[g] = "spawned" /\ paneOf[g] = p /\ task[t].pc = "spawned"
  BY DEF Publish, TaskInv, TaskOK
<1>e. /\ p \in reservations /\ sessions[p] = NoGen /\ Reserving(t)
  BY <1>p DEF SpawnIsExclusive, Reserving
<1>g. /\ sessions' = [sessions EXCEPT ![p] = g]
      /\ unowned' = [unowned EXCEPT ![p] = NoEntry]
      /\ stage' = [stage EXCEPT ![g] = "live"]
      /\ reservations' = reservations \ {p}
      /\ UNCHANGED <<tabs, leaves, active, minted, paneOf, age, connected,
                     exited, clients, candidates>>
      /\ Goto(t, "published")
  BY <1>e DEF Publish, layoutVars
<1>f. /\ task' \in [Tasks -> TaskType] /\ OthersKept(t)
      /\ LocalsKept(t) /\ task'[t].pc = "published"
  BY <1>g, GotoFacts DEF PCs
<1>s. /\ stage'[g] = "live" /\ sessions'[p] = g
      /\ \A h \in Gens \ {g} : stage'[h] = stage[h]
      /\ \A q \in Panes \ {p} : sessions'[q] = sessions[q]
  BY <1>g, <1>p DEF TypeOK
<1>1. TypeOK'
  BY <1>p, <1>g, <1>f DEF TypeOK, Stages
<1>2. SpawnIsExclusive'
  BY <1>p, <1>e, <1>g, <1>f, <1>s, GiveBack DEF Reserving
<1>3. MapHoldsLiveGenerations'
  <2>1. \A q \in Panes : sessions[q] # NoGen => sessions[q] \in Gens \ {g}
    BY <1>p DEF MapHoldsLiveGenerations, TypeOK
  <2>2. \A h \in Gens \ {g} : stage[h] = "live" => paneOf[h] # p
    BY <1>e DEF MapHoldsLiveGenerations
  <2> QED BY <1>p, <1>g, <1>s, <2>1, <2>2 DEF MapHoldsLiveGenerations
<1>4. UnownedAgeIsOwn'
  BY <1>p, <1>g, <1>s DEF UnownedAgeIsOwn, TypeOK
<1>5. TaskInv'
  <2> SUFFICES ASSUME NEW u \in Tasks PROVE TaskOK(u)'
    BY DEF TaskInv
  <2>1. CASE u = t
    BY <2>1, <1>p, <1>g, <1>f, <1>s DEF TaskOK, Holding, Published, LocalsKept
  <2>2. CASE u # t
    <3>1. task'[u] = task[u] /\ TaskOK(u)
      BY <2>2, <1>f DEF OthersKept, TaskInv
    <3>2. task[u].pc = "spawned" => task[u].pane # p
      BY <2>2, <1>p DEF SpawnIsExclusive, Reserving
    <3>3. task[u].pc = "spawned" => task[u].gen # g
      BY <3>1, <3>2, <1>p DEF TaskOK
    <3> QED BY <1>g, <3>1, <3>3, <1>s DEF TaskOK, Published
  <2> QED BY <2>1, <2>2
<1>6. GenInv'
  BY <1>p, <1>g, <1>s DEF GenInv, GenOK, Published
<1> QED BY <1>1, <1>2, <1>3, <1>4, <1>5, <1>6

\* PendingSpawn::drop preserves the invariant.
LEMMA RollbackSpawnStep ==
    ASSUME IInv, NEW t \in Tasks, RollbackSpawn(t)
    PROVE  IInv'
<1> USE DEF IInv
<1> DEFINE g == task[t].gen
<1>p. /\ task[t].pane \in Panes /\ task[t].tab \in Tabs /\ g \in Gens
      /\ stage[g] = "spawned" /\ paneOf[g] = task[t].pane
      /\ task[t].pc = "spawned"
  BY DEF RollbackSpawn, SpawnIsExclusive, TaskInv, TaskOK
<1>g. /\ stage' = [stage EXCEPT ![g] = "aborted"]
      /\ Goto(t, "unwound")
      /\ UNCHANGED <<sessions, reservations, unowned, tabs, leaves, active,
                     minted, paneOf, age, connected, exited, clients,
                     candidates>>
  BY <1>p DEF RollbackSpawn, layoutVars, regVars
<1>f. /\ task' \in [Tasks -> TaskType] /\ OthersKept(t)
      /\ LocalsKept(t) /\ task'[t].pc = "unwound"
  BY <1>g, GotoFacts DEF PCs
<1>s. /\ stage'[g] = "aborted"
      /\ \A h \in Gens \ {g} : stage'[h] = stage[h]
  BY <1>g, <1>p DEF TypeOK
<1>1. TypeOK'
  BY <1>p, <1>g, <1>f DEF TypeOK, Stages
<1>2. SpawnIsExclusive'
  BY <1>p, <1>g, <1>f, SpawnFrame DEF Reserving, LocalsKept
<1>3. MapHoldsLiveGenerations'
  <2>1. \A q \in Panes : sessions[q] # NoGen => sessions[q] \in Gens \ {g}
    BY <1>p DEF MapHoldsLiveGenerations, TypeOK
  <2> QED BY <1>p, <1>g, <1>s, <2>1 DEF MapHoldsLiveGenerations
<1>4. UnownedAgeIsOwn'
  BY <1>g, AgeFrame
<1>5. TaskInv'
  <2> SUFFICES ASSUME NEW u \in Tasks PROVE TaskOK(u)'
    BY DEF TaskInv
  <2>1. CASE u = t
    BY <2>1, <1>p, <1>g, <1>f, <1>s DEF TaskOK, Holding, LocalsKept
  <2>2. CASE u # t
    <3>1. task'[u] = task[u] /\ TaskOK(u)
      BY <2>2, <1>f DEF OthersKept, TaskInv
    <3>2. task[u].pc = "spawned" => task[u].pane # task[t].pane
      BY <2>2, <1>p DEF SpawnIsExclusive, Reserving
    <3>3. task[u].pc = "spawned" => task[u].gen # g
      BY <3>1, <3>2, <1>p DEF TaskOK
    <3>4. task[u].pc \in Holding => task[u].gen # g
      BY <3>1, <1>p DEF TaskOK, Published
    <3> QED BY <1>g, <3>1, <3>3, <3>4, <1>s DEF TaskOK, Published
  <2> QED BY <2>1, <2>2
<1>6. GenInv'
  BY <1>p, <1>g, <1>s DEF GenInv, GenOK, Published
<1> QED BY <1>1, <1>2, <1>3, <1>4, <1>5, <1>6

\* SessionReservation::drop preserves the invariant.
LEMMA DropReservationStep ==
    ASSUME IInv, NEW t \in Tasks, DropReservation(t)
    PROVE  IInv'
<1> USE DEF IInv, DropReservation, layoutVars, sessVars
<1>p. /\ task[t].pane \in Panes /\ Reserving(t)
      /\ task[t].pane \in reservations
  BY DEF TaskInv, TaskOK, Reserving, SpawnIsExclusive
<1>f. /\ task' \in [Tasks -> TaskType] /\ OthersKept(t)
      /\ task'[t].pc = "idle"
  BY FinishFacts
<1>1. TypeOK'
  BY <1>f DEF TypeOK
<1>2. SpawnIsExclusive'
  BY <1>p, <1>f, GiveBack DEF Reserving
<1>3. MapHoldsLiveGenerations'
  BY MapFrame
<1>4. UnownedAgeIsOwn'
  BY AgeFrame
<1>5. TaskInv'
  BY <1>f, TaskFrame DEF TaskOK, Holding
<1>6. GenInv'
  BY GenFrame
<1> QED BY <1>1, <1>2, <1>3, <1>4, <1>5, <1>6

\* session_for_attach preserves the invariant.
LEMMA SessionForAttachStep ==
    ASSUME IInv, NEW t \in Tasks, SessionForAttach(t)
    PROVE  IInv'
<1> USE DEF IInv, allButTask, regVars, layoutVars, sessVars
<1> DEFINE g == sessions[task[t].pane]
           c == IF g = NoGen THEN "missed" ELSE "cloned"
<1>p. /\ task[t].pane \in Panes /\ task[t].tab \in Tabs
      /\ task[t].pc = "upgraded" /\ g \in Gens \cup {NoGen}
      /\ UNCHANGED allButTask
  BY DEF SessionForAttach, TaskInv, TaskOK, TypeOK
<1>f. /\ task' \in [Tasks -> TaskType] /\ OthersKept(t)
      /\ task'[t].pc = c /\ task'[t].gen = g
      /\ task'[t].pane = task[t].pane /\ task'[t].tab = task[t].tab
  <2>1. task \in [Tasks -> TaskType]
    BY DEF TypeOK
  <2>2. task' = [task EXCEPT ![t] = [task[t] EXCEPT !.pc = c, !.gen = g]]
    BY <2>1 DEF SessionForAttach
  <2>3. c \in PCs
    BY DEF PCs
  <2> HIDE DEF c, g
  <2> QED BY <1>p, <2>1, <2>2, <2>3 DEF TaskType, OthersKept
<1>1. TypeOK'
  BY <1>p, <1>f DEF TypeOK
<1>2. SpawnIsExclusive'
  BY <1>p, <1>f, SpawnFrame DEF Reserving
<1>3. MapHoldsLiveGenerations'
  BY <1>p, MapFrame
<1>4. UnownedAgeIsOwn'
  BY <1>p, AgeFrame
<1>5. TaskInv'
  <2>1. g # NoGen => g \in Gens /\ stage[g] = "live" /\ paneOf[g] = task[t].pane
    BY <1>p DEF MapHoldsLiveGenerations
  <2>2. TaskOK(t)'
    BY <1>p, <1>f, <2>1 DEF TaskOK, Holding, Published
  <2> QED BY <1>p, <2>2, <1>f, TaskFrame
<1>6. GenInv'
  BY <1>p, GenFrame
<1> QED BY <1>1, <1>2, <1>3, <1>4, <1>5, <1>6

\* The second check and mark_failed_attach preserve the invariant.
LEMMA RevalidateStep ==
    ASSUME IInv, NEW t \in Tasks, Revalidate(t)
    PROVE  IInv'
<1> USE DEF IInv
<1>p. /\ task[t].pane \in Panes /\ task[t].tab \in Tabs
      /\ task[t].pc = "mirrored"
      /\ task[t].gen \in Gens /\ Published(task[t].gen)
      /\ paneOf[task[t].gen] = task[t].pane
      /\ UNCHANGED <<sessions, reservations, unowned, tabs, leaves, active,
                     minted, stage, paneOf, age, clients, candidates>>
  BY DEF Revalidate, TaskInv, TaskOK, Holding, regVars, layoutVars
<1>3. MapHoldsLiveGenerations'
  BY <1>p, MapFrame
<1>4. UnownedAgeIsOwn'
  BY <1>p, AgeFrame
<1>7. CASE sessions[task[t].pane] = task[t].gen
  <2>g. Goto(t, "validated") /\ UNCHANGED <<connected, exited>>
    BY <1>7 DEF Revalidate
  <2>f. /\ task' \in [Tasks -> TaskType] /\ OthersKept(t)
        /\ LocalsKept(t) /\ task'[t].pc = "validated"
    BY <2>g, GotoFacts DEF PCs
  <2>1. TypeOK'
    BY <1>p, <2>g, <2>f DEF TypeOK
  <2>2. SpawnIsExclusive'
    BY <1>p, <2>f, SpawnFrame DEF Reserving
  <2>5. TaskInv'
    BY <1>p, <2>f, TaskFrame DEF TaskOK, Holding, LocalsKept, Published
  <2>6. GenInv'
    BY <1>p, <2>g, GenFrame
  <2> QED BY <2>1, <2>2, <1>3, <1>4, <2>5, <2>6
<1>8. CASE sessions[task[t].pane] # task[t].gen
  <2>g. /\ Finish(t)
        /\ connected' = [connected EXCEPT ![task[t].gen] = FALSE]
        /\ exited' = [exited EXCEPT ![task[t].gen] = TRUE]
    BY <1>8 DEF Revalidate
  <2>f. /\ task' \in [Tasks -> TaskType] /\ OthersKept(t)
        /\ task'[t].pc = "idle"
    BY <2>g, FinishFacts
  <2>1. TypeOK'
    BY <1>p, <2>g, <2>f DEF TypeOK
  <2>2. SpawnIsExclusive'
    BY <1>p, <2>f, SpawnFrame DEF Reserving
  <2>5. TaskInv'
    BY <1>p, <2>f, TaskFrame DEF TaskOK, Holding
  <2>6. GenInv'
    <3>1. stage[task[t].gen] \in {"closing", "closed"}
      BY <1>p, <1>8 DEF MapHoldsLiveGenerations, Published
    <3>2. \A g \in Gens \ {task[t].gen} : exited'[g] = exited[g]
      BY <2>g DEF TypeOK
    <3> QED BY <1>p, <3>1, <3>2 DEF GenInv, GenOK, Published
  <2> QED BY <2>1, <2>2, <1>3, <1>4, <2>5, <2>6
<1> QED BY <1>7, <1>8

\* The claim of a close, whoever makes it.
LEMMA ClaimCloseStep ==
    ASSUME IInv, NEW g \in Gens, stage[g] = "live", ClaimClose(g),
           UNCHANGED <<reservations, minted, paneOf, connected, exited,
                       clients, task>>,
           candidates' \subseteq candidates
    PROVE  IInv'
<1> USE DEF IInv
<1> DEFINE p == paneOf[g]
<1>p. p \in Panes /\ sessions[p] = g
  BY DEF MapHoldsLiveGenerations
<1>c. /\ sessions' = [sessions EXCEPT ![p] = NoGen]
      /\ unowned' = [unowned EXCEPT ![p] = NoEntry]
      /\ stage' = [stage EXCEPT ![g] = "closing"]
      /\ age' = [age EXCEPT ![g] = 0]
      /\ CollectLayoutClose(p)
  BY DEF ClaimClose
<1>s. /\ sessions'[p] = NoGen /\ stage'[g] = "closing"
      /\ \A h \in Gens \ {g} : stage'[h] = stage[h] /\ age'[h] = age[h]
      /\ \A q \in Panes \ {p} : /\ sessions'[q] = sessions[q]
                                /\ unowned'[q] = unowned[q]
  BY <1>p, <1>c DEF TypeOK
<1>l. /\ tabs' \subseteq Tabs
      /\ leaves' \in [Tabs -> SUBSET Leaves]
      /\ active' \in Leaves \cup {NoPane}
  BY <1>c, CollectType
<1>1. TypeOK'
  <2>1. /\ sessions' \in [Panes -> Gens \cup {NoGen}]
        /\ unowned' \in [Panes -> Ages \cup {NoEntry}]
        /\ stage' \in [Gens -> Stages]
        /\ age' \in [Gens -> Ages]
    BY <1>p, <1>c DEF TypeOK, Stages
  <2> QED BY <1>l, <2>1 DEF TypeOK
<1>2. SpawnIsExclusive'
  <2>1. \A q \in reservations : sessions'[q] = NoGen
    BY <1>s DEF SpawnIsExclusive, TypeOK
  <2> QED BY <2>1 DEF SpawnIsExclusive, Reserving
<1>3. MapHoldsLiveGenerations'
  <2>1. \A q \in Panes \ {p} : sessions[q] # NoGen => sessions[q] \in Gens \ {g}
    BY <1>p DEF MapHoldsLiveGenerations, TypeOK
  <2>2. \A h \in Gens \ {g} : stage[h] = "live" => paneOf[h] # p
    BY <1>p DEF MapHoldsLiveGenerations
  <2> QED BY <1>p, <1>s, <2>1, <2>2 DEF MapHoldsLiveGenerations
<1>4. UnownedAgeIsOwn'
  <2>1. \A q \in Panes \ {p} : sessions[q] # NoGen => sessions[q] \in Gens \ {g}
    BY <1>p DEF MapHoldsLiveGenerations, TypeOK
  <2> QED BY <1>s, <2>1 DEF UnownedAgeIsOwn
<1>5. TaskInv'
  <2>1. \A h \in Gens : Published(h) => Published(h)'
    BY <1>s DEF Published
  <2>2. \A h \in Gens : stage[h] = "spawned" => stage'[h] = "spawned"
    BY <1>s
  <2> QED BY <2>1, <2>2 DEF TaskInv, TaskOK
<1>6. GenInv'
  BY <1>s DEF GenInv, GenOK, Published
<1> QED BY <1>1, <1>2, <1>3, <1>4, <1>5, <1>6

\* close_session preserves the invariant.
LEMMA CloseSessionStep ==
    ASSUME IInv, NEW p \in Panes, CloseSession(p)
    PROVE  IInv'
<1>1. sessions[p] \in Gens /\ stage[sessions[p]] = "live"
  BY DEF IInv, TypeOK, CloseSession, MapHoldsLiveGenerations
<1> QED BY <1>1, ClaimCloseStep DEF CloseSession

\* close_session_for_session preserves the invariant.
LEMMA NaturalCloseStep ==
    ASSUME IInv, NEW g \in Gens, NaturalClose(g)
    PROVE  IInv'
<1>1. stage[g] = "live"
  BY DEF IInv, NaturalClose, MapHoldsLiveGenerations, GenInv, GenOK, Published
<1> QED BY <1>1, ClaimCloseStep DEF NaturalClose

\* try_reap_session preserves the invariant, whether it takes the session or
\* not.
LEMMA TryReapStep ==
    ASSUME IInv, NEW g \in Gens, TryReap(g)
    PROVE  IInv'
<1> USE DEF IInv
<1> DEFINE p == paneOf[g]
           cond == ~Referenced(p) /\ Aged(p) /\ ~connected[g] /\ sessions[p] = g
<1>p. p \in Panes /\ g \in candidates /\ candidates' = candidates \ {g}
  BY DEF TryReap, GenInv, GenOK, Published
<1>7. CASE cond
  <2>1. stage[g] = "live"
    BY <1>7, <1>p DEF MapHoldsLiveGenerations
  <2>2. ClaimClose(g) /\ UNCHANGED <<reservations, minted, paneOf, connected,
                                     exited, clients, task>>
    BY <1>7 DEF TryReap
  <2> QED BY <1>p, <2>1, <2>2, ClaimCloseStep
<1>8. CASE ~cond
  <2>u. /\ unowned' = [unowned EXCEPT ![p] = IF Referenced(p) THEN NoEntry
                               ELSE IF unowned[p] = NoEntry THEN 0 ELSE unowned[p]]
        /\ UNCHANGED <<sessions, tabs, leaves, active, stage, age,
                       reservations, minted, paneOf, connected, exited,
                       clients, task>>
    <3>1. unowned \in [Panes -> Ages \cup {NoEntry}]
      BY DEF TypeOK
    <3> QED BY <1>8, <1>p, <3>1 DEF TryReap, layoutVars
  <2>v. /\ unowned' \in [Panes -> Ages \cup {NoEntry}]
        /\ \A q \in Panes : unowned'[q] # NoEntry => unowned'[q] \in {0, unowned[q]}
    BY <1>p, <2>u DEF TypeOK
  <2>1. TypeOK'
    BY <1>p, <2>u, <2>v DEF TypeOK
  <2>2. SpawnIsExclusive'
    BY <2>u DEF SpawnIsExclusive, Reserving
  <2>3. MapHoldsLiveGenerations'
    BY <2>u, MapFrame
  <2>4. UnownedAgeIsOwn'
    BY <2>u, <2>v DEF UnownedAgeIsOwn, TypeOK
  <2>5. TaskInv'
    BY <2>u DEF TaskInv, TaskOK, Published
  <2>6. GenInv'
    BY <1>p, <2>u DEF GenInv, GenOK, Published
  <2> QED BY <2>1, <2>2, <2>3, <2>4, <2>5, <2>6
<1> QED BY <1>7, <1>8

\* execute_close_plan preserves the invariant.
LEMMA ExecuteClosePlanStep ==
    ASSUME IInv, NEW g \in Gens, ExecuteClosePlan(g)
    PROVE  IInv'
<1> USE DEF IInv, regVars, layoutVars
<1>s. /\ stage[g] = "closing" /\ stage'[g] = "closed" /\ exited'[g]
      /\ \A h \in Gens \ {g} : stage'[h] = stage[h] /\ exited'[h] = exited[h]
      /\ UNCHANGED <<sessions, reservations, unowned, tabs, leaves, active,
                     minted, paneOf, age, connected, clients, task, candidates>>
  BY DEF ExecuteClosePlan, TypeOK
<1>1. TypeOK'
  BY DEF TypeOK, ExecuteClosePlan, Stages
<1>2. SpawnIsExclusive'
  BY <1>s DEF SpawnIsExclusive, Reserving
<1>3. MapHoldsLiveGenerations'
  <2>1. \A q \in Panes : sessions[q] # NoGen => sessions[q] \in Gens \ {g}
    BY <1>s DEF MapHoldsLiveGenerations, TypeOK
  <2> QED BY <1>s, <2>1 DEF MapHoldsLiveGenerations
<1>4. UnownedAgeIsOwn'
  BY <1>s, AgeFrame
<1>5. TaskInv'
  <2>1. \A h \in Gens : /\ Published(h) => Published(h)'
                        /\ stage[h] = "spawned" => stage'[h] = "spawned"
    BY <1>s DEF Published
  <2> QED BY <1>s, <2>1 DEF TaskInv, TaskOK
<1>6. GenInv'
  BY <1>s DEF GenInv, GenOK, Published
<1> QED BY <1>1, <1>2, <1>3, <1>4, <1>5, <1>6

\* scan_unowned preserves the invariant.
LEMMA ScanUnownedStep ==
    ASSUME IInv, ScanUnowned
    PROVE  IInv'
<1> USE DEF IInv, layoutVars, sessVars
<1>s. /\ unowned' \in [Panes -> Ages \cup {NoEntry}]
      /\ \A q \in Panes : unowned'[q] # NoEntry => unowned'[q] \in {0, unowned[q]}
  BY DEF ScanUnowned, TypeOK
<1>c. \A g \in candidates' : g \in Gens /\ stage[g] = "live"
  BY DEF ScanUnowned, TypeOK, MapHoldsLiveGenerations
<1>u. UNCHANGED <<sessions, reservations, tabs, leaves, active, minted, stage,
                  paneOf, age, connected, exited, clients, task>>
  BY DEF ScanUnowned
<1>1. TypeOK'
  BY <1>s, <1>c, <1>u DEF TypeOK
<1>2. SpawnIsExclusive'
  BY <1>u DEF SpawnIsExclusive, Reserving
<1>3. MapHoldsLiveGenerations'
  BY <1>u, MapFrame
<1>4. UnownedAgeIsOwn'
  BY <1>s, <1>u DEF UnownedAgeIsOwn, TypeOK
<1>5. TaskInv'
  BY <1>u DEF TaskInv, TaskOK, Published
<1>6. GenInv'
  BY <1>c, <1>u DEF GenInv, GenOK, Published
<1> QED BY <1>1, <1>2, <1>3, <1>4, <1>5, <1>6

\* The passing of time preserves the invariant.
LEMMA TickStep ==
    ASSUME IInv, Tick
    PROVE  IInv'
<1> USE DEF IInv, layoutVars
<1>u. UNCHANGED <<sessions, reservations, tabs, leaves, active, minted, stage,
                  paneOf, connected, exited, clients, task, candidates>>
  BY DEF Tick
<1>s. /\ unowned' \in [Panes -> Ages \cup {NoEntry}]
      /\ age' \in [Gens -> Ages]
  BY DEF Tick, Older, TypeOK
<1>1. TypeOK'
  BY <1>s, <1>u DEF TypeOK
<1>2. SpawnIsExclusive'
  BY <1>u DEF SpawnIsExclusive, Reserving
<1>3. MapHoldsLiveGenerations'
  BY <1>u, MapFrame
<1>4. UnownedAgeIsOwn'
  <2> SUFFICES ASSUME NEW p \in Panes, sessions'[p] # NoGen,
                      unowned'[p] # NoEntry
               PROVE  unowned'[p] <= age'[sessions'[p]]
    BY DEF UnownedAgeIsOwn
  <2>1. /\ sessions[p] \in Gens /\ stage[sessions[p]] = "live"
        /\ sessions'[p] = sessions[p]
    BY <1>u DEF MapHoldsLiveGenerations, TypeOK
  <2>2. /\ unowned'[p] = Older(unowned[p])
        /\ age'[sessions[p]] = Older(age[sessions[p]])
    BY <2>1 DEF Tick
  <2>3. unowned[p] \in Ages \cup {NoEntry} /\ age[sessions[p]] \in Ages
    BY <2>1 DEF TypeOK
  <2>4. unowned[p] # NoEntry
    BY <2>2 DEF Older
  <2>5. unowned[p] <= age[sessions[p]]
    BY <2>1, <2>4 DEF UnownedAgeIsOwn
  <2> QED BY <2>1, <2>2, <2>3, <2>4, <2>5 DEF Older
<1>5. TaskInv'
  BY <1>u DEF TaskInv, TaskOK, Published
<1>6. GenInv'
  BY <1>u, GenFrame
<1> QED BY <1>1, <1>2, <1>3, <1>4, <1>5, <1>6

\* The tab operations touch the layouts only.
LEMMA LayoutFrame ==
    ASSUME IInv,
           UNCHANGED <<sessions, reservations, unowned, minted, stage, paneOf,
                       age, connected, exited, clients, task, candidates>>,
           tabs' \subseteq Tabs,
           leaves' \in [Tabs -> SUBSET Leaves],
           active' \in Leaves \cup {NoPane}
    PROVE  IInv'
<1> USE DEF IInv
<1>1. TypeOK'
  BY DEF TypeOK
<1>2. SpawnIsExclusive'
  BY DEF SpawnIsExclusive, Reserving
<1>3. MapHoldsLiveGenerations'
  BY MapFrame
<1>4. UnownedAgeIsOwn'
  BY AgeFrame
<1>5. TaskInv'
  BY DEF TaskInv, TaskOK, Published
<1>6. GenInv'
  BY GenFrame
<1> QED BY <1>1, <1>2, <1>3, <1>4, <1>5, <1>6

\* Every tab operation preserves the invariant.
LEMMA TabStepStep ==
    ASSUME IInv, TabStep
    PROVE  IInv'
<1> USE DEF regVars, layoutVars, sessVars
<1>t. TypeOK
  BY DEF IInv
<1>1. ASSUME NEW tab \in Tabs, NEW L \in SUBSET KnownLeaves,
             NEW a \in KnownLeaves \cup {active}, UpdateLayout(tab, L, a)
      PROVE  IInv'
  <2>1. KnownLeaves \subseteq Leaves
    BY DEF KnownLeaves, IInv, GenInv, GenOK, Published
  <2>2. /\ tabs' \subseteq Tabs
        /\ leaves' \in [Tabs -> SUBSET Leaves]
        /\ active' \in Leaves \cup {NoPane}
    BY <1>1, <1>t, <2>1 DEF UpdateLayout, InsertTab, TypeOK
  <2> QED BY <1>1, <2>2, LayoutFrame DEF UpdateLayout
<1>2. ASSUME NEW tab \in Tabs, RemoveTab(tab)
      PROVE  IInv'
  <2>1. tabs' \subseteq Tabs /\ leaves' \in [Tabs -> SUBSET Leaves]
    BY <1>2, <1>t DEF RemoveTab, RemoveTabs, TypeOK
  <2> QED BY <1>2, <1>t, <2>1, LayoutFrame DEF RemoveTab, TypeOK
<1>3. CASE TabList
  <2>1. tabs' \subseteq Tabs /\ leaves' \in [Tabs -> SUBSET Leaves]
    BY <1>3, <1>t DEF TabList, RemoveTabs, TypeOK
  <2> QED BY <1>3, <1>t, <2>1, LayoutFrame DEF TabList, TypeOK
<1>4. ASSUME NEW x \in Leaves, SetActivePane(x)
      PROVE  IInv'
  BY <1>4, <1>t, LayoutFrame DEF SetActivePane, TypeOK
<1>5. ASSUME NEW x \in Leaves, ClosePaneLayout(x)
      PROVE  IInv'
  BY <1>5, <1>t, CollectType, LayoutFrame DEF ClosePaneLayout
<1>6. ASSUME NEW g \in Gens, CorrectLateLayout(g)
      PROVE  IInv'
  <2>1. tabs' \subseteq Tabs /\ leaves' \in [Tabs -> SUBSET Leaves]
    BY <1>6, <1>t DEF CorrectLateLayout, PurgePane, TypeOK
  <2> QED BY <1>6, <1>t, <2>1, LayoutFrame DEF CorrectLateLayout, TypeOK
<1> QED BY <1>1, <1>2, <1>3, <1>4, <1>5, <1>6 DEF TabStep

\* A stuttering step preserves the invariant.
LEMMA StutterStep == ASSUME IInv, UNCHANGED vars PROVE IInv'
BY LayoutFrame DEF vars, allButTask, regVars, layoutVars, sessVars, IInv, TypeOK

\* The invariant is inductive: one case per action of Next.
LEMMA NextIInv == IInv /\ [Next]_vars => IInv'
<1> SUFFICES ASSUME IInv, [Next]_vars PROVE IInv'
  OBVIOUS
<1>1. ASSUME NEW t \in Tasks, CreateStep(t) PROVE IInv'
  BY <1>1, ShellResolveFailsStep, ReserveSessionStep, SpawnChildStep, SpawnFailsStep, PublishStep,
     RollbackSpawnStep, DropReservationStep, InsertTabForSessionStep
     DEF CreateStep
<1>2. ASSUME NEW t \in Tasks, AttachStep(t) PROVE IInv'
  BY <1>2, SessionForAttachStep, MissedLookupStep, MirrorConnectedStep,
     RevalidateStep, SingletonCheckCurrentStep, SingletonCheckReferencedStep,
     SingletonInsertStep, SingletonRecheckStep, AddClientStep
     DEF AttachStep
<1>3. ASSUME NEW t \in Tasks,
             StartCreateTab(t) \/ WsUpgrade(t) \/ RemoveClient(t) \/ DetachStep(t)
      PROVE  IInv'
  BY <1>3, StartCreateTabStep, WsUpgradeStep, RemoveClientStep,
     HasClientsStep, MirrorDetachedStep DEF DetachStep
<1>4. CASE Reaper
  BY <1>4, ScanUnownedStep, TryReapStep DEF Reaper
<1> QED BY <1>1, <1>2, <1>3, <1>4, CloseSessionStep, NaturalCloseStep,
           ExecuteClosePlanStep, TickStep, TabStepStep, StutterStep DEF Next

-----------------------------------------------------------------------------
(* The theorems.                                                           *)

\* The invariant of the session manager holds in every reachable state.
THEOREM Invariance == Spec => []IInv
BY InitIInv, NextIInv, PTL DEF Spec

\* The variables keep their types; in particular the age of an unowned_since
\* entry and the one of a session never pass the grace period.
THEOREM TypeCorrect == Spec => []TypeOK
<1>1. IInv => TypeOK
  BY DEF IInv
<1> QED BY <1>1, Invariance, PTL

\* reserve_session and SessionReservation::publish: two spawns never own the
\* same pane, and publish never finds it taken.
THEOREM SpawnExclusive == Spec => []SpawnIsExclusive
<1>1. IInv => SpawnIsExclusive
  BY DEF IInv
<1> QED BY <1>1, Invariance, PTL

\* remove_session_locked: the session map holds exactly the published
\* generations whose close nobody has claimed.
THEOREM MapHoldsLive == Spec => []MapHoldsLiveGenerations
<1>1. IInv => MapHoldsLiveGenerations
  BY DEF IInv
<1> QED BY <1>1, Invariance, PTL

\* mark_failed_attach and execute_close_plan never silence the current session.
THEOREM CurrentNotExited == Spec => []CurrentSessionNotExited
<1>1. IInv => CurrentSessionNotExited
  BY DEF IInv, TypeOK, CurrentSessionNotExited, MapHoldsLiveGenerations,
         GenInv, GenOK
<1> QED BY <1>1, Invariance, PTL

\* An unowned_since entry is never older than the session it is about.
THEOREM AgeIsOwn == Spec => []UnownedAgeIsOwn
<1>1. IInv => UnownedAgeIsOwn
  BY DEF IInv
<1> QED BY <1>1, Invariance, PTL

-----------------------------------------------------------------------------
\* Only the reaper changes its list of candidates.
LEMMA CandidatesChange ==
    ASSUME Next, candidates' # candidates
    PROVE  ScanUnowned \/ \E g \in Gens : TryReap(g)
<1> USE DEF allButTask
<1>1. ASSUME NEW t \in Tasks,
             StartCreateTab(t) \/ WsUpgrade(t) \/ CreateStep(t)
      PROVE  FALSE
  BY <1>1 DEF StartCreateTab, WsUpgrade, CreateStep, ShellResolveFails, ReserveSession,
     SpawnChild, SpawnFails, Publish, RollbackSpawn, DropReservation,
     InsertTabForSession
<1>2. ASSUME NEW t \in Tasks,
             AttachStep(t) \/ RemoveClient(t) \/ DetachStep(t)
      PROVE  FALSE
  BY <1>2 DEF AttachStep, SessionForAttach, MissedLookup, MirrorConnected,
     Revalidate, SingletonCheckCurrent, SingletonCheckReferenced,
     SingletonInsert, SingletonRecheck, AddClient, RemoveClient, DetachStep,
     HasClients, MirrorDetached
<1>3. ASSUME NEW p \in Panes, CloseSession(p)
      PROVE  FALSE
  BY <1>3 DEF CloseSession
<1>4. ASSUME NEW g \in Gens, NaturalClose(g) \/ ExecuteClosePlan(g)
      PROVE  FALSE
  BY <1>4 DEF NaturalClose, ExecuteClosePlan
<1>5. ~Tick /\ ~TabStep
  BY DEF Tick, TabStep, UpdateLayout, RemoveTab, TabList, SetActivePane,
     ClosePaneLayout, CorrectLateLayout
<1> QED BY <1>1, <1>2, <1>3, <1>4, <1>5 DEF Next, Reaper

\* What try_reap_session has established when it takes a session.
LEMMA ReapStep ==
    ASSUME IInv, NEW g \in Gens, TryReap(g), NEW h \in Gens,
           stage[h] = "live", stage'[h] # "live"
    PROVE  ~Referenced(paneOf[h]) /\ age[h] = Grace /\ ~connected[h]
<1> USE DEF IInv
<1>1. /\ ~Referenced(paneOf[g]) /\ Aged(paneOf[g]) /\ ~connected[g]
      /\ sessions[paneOf[g]] = g
      /\ stage' = [stage EXCEPT ![g] = "closing"]
  BY DEF TryReap, ClaimClose
<1>2. h = g
  BY <1>1 DEF TypeOK
<1>3. paneOf[g] \in Panes /\ age[g] \in Ages
  BY <1>2 DEF GenInv, GenOK, TypeOK
<1>4. Grace <= age[g]
  BY <1>1, <1>3 DEF UnownedAgeIsOwn, Aged
<1> QED BY <1>1, <1>2, <1>3, <1>4

\* The reaper removes only sessions that no layout has, that were published at
\* least the grace period ago and that nobody is connected to.
THEOREM ReapsOnlyAbandoned == Spec => ReapOnlyAbandoned
<1>1. ASSUME IInv, [Next]_vars
      PROVE  [\A g \in Gens :
                candidates' # candidates /\ stage[g] = "live"
                   /\ stage'[g] # "live" =>
                   /\ ~Referenced(paneOf[g])
                   /\ age[g] = Grace
                   /\ ~connected[g]]_vars
  <2> SUFFICES ASSUME Next, NEW g \in Gens, candidates' # candidates,
                      stage[g] = "live", stage'[g] # "live"
               PROVE  ~Referenced(paneOf[g]) /\ age[g] = Grace /\ ~connected[g]
    BY <1>1
  <2>1. CASE ScanUnowned
    BY <2>1 DEF ScanUnowned, sessVars
  <2>2. ASSUME NEW h \in Gens, TryReap(h)
        PROVE  ~Referenced(paneOf[g]) /\ age[g] = Grace /\ ~connected[g]
    BY <1>1, <2>2, ReapStep
  <2> QED BY <2>1, <2>2, CandidatesChange
<1> QED BY <1>1, Invariance, PTL DEF Spec, ReapOnlyAbandoned

-----------------------------------------------------------------------------
\* The moves of the registry of panes: a generation is published, a close is
\* claimed or finished, a spawn starts or is rolled back, or nothing happens.
RegistryMove ==
    \/ \E g \in Gens : /\ stage[g] = "spawned" /\ paneOf[g] \in Panes
                       /\ sessions[paneOf[g]] = NoGen
                       /\ sessions' = [sessions EXCEPT ![paneOf[g]] = g]
                       /\ stage' = [stage EXCEPT ![g] = "live"]
    \/ \E g \in Gens : /\ stage[g] = "live" /\ paneOf[g] \in Panes
                       /\ sessions[paneOf[g]] = g
                       /\ sessions' = [sessions EXCEPT ![paneOf[g]] = NoGen]
                       /\ stage' = [stage EXCEPT ![g] = "closing"]
                       /\ CollectLayoutClose(paneOf[g])
    \/ \E g \in Gens : /\ stage[g] = "closing"
                       /\ UNCHANGED sessions
                       /\ stage' = [stage EXCEPT ![g] = "closed"]
    \/ \E g \in Gens : /\ stage[g] = "free"
                       /\ UNCHANGED sessions
                       /\ stage' = [stage EXCEPT ![g] = "spawned"]
    \/ \E g \in Gens : /\ stage[g] = "spawned"
                       /\ UNCHANGED sessions
                       /\ stage' = [stage EXCEPT ![g] = "aborted"]
    \/ UNCHANGED <<sessions, stage>>

\* What a step does to the registry of panes: it publishes one generation,
\* claims one close or leaves the map and the published generations alone.
LEMMA RegistryStep ==
    ASSUME IInv, [Next]_vars
    PROVE  RegistryMove
<1> USE DEF RegistryMove
<1>b. ASSUME NEW g \in Gens, stage[g] = "live", ClaimClose(g)
      PROVE  RegistryMove
  <2>1. paneOf[g] \in Panes /\ sessions[paneOf[g]] = g
    BY <1>b DEF IInv, MapHoldsLiveGenerations
  <2> QED BY <1>b, <2>1 DEF ClaimClose
<1>1. ASSUME NEW t \in Tasks, Publish(t)
      PROVE  RegistryMove
  <2>1. /\ task[t].pane \in Panes /\ task[t].gen \in Gens
        /\ stage[task[t].gen] = "spawned" /\ paneOf[task[t].gen] = task[t].pane
        /\ task[t].pc = "spawned"
    BY <1>1 DEF IInv, Publish, TaskInv, TaskOK
  <2>2. sessions[task[t].pane] = NoGen
    BY <2>1 DEF IInv, SpawnIsExclusive, Reserving
  <2> QED BY <1>1, <2>1, <2>2 DEF Publish
<1>2. ASSUME NEW t \in Tasks, SpawnChild(t)
      PROVE  RegistryMove
  BY <1>2 DEF SpawnChild, regVars
<1>3. ASSUME NEW t \in Tasks, RollbackSpawn(t)
      PROVE  RegistryMove
  <2>1. task[t].gen \in Gens /\ stage[task[t].gen] = "spawned"
    BY <1>3 DEF IInv, RollbackSpawn, SpawnIsExclusive, TaskInv, TaskOK
  <2> QED BY <1>3, <2>1 DEF RollbackSpawn, regVars
<1>4. ASSUME NEW t \in Tasks,
             \/ StartCreateTab(t) \/ WsUpgrade(t) \/ ReserveSession(t)
             \/ SpawnFails(t) \/ DropReservation(t) \/ InsertTabForSession(t)
             \/ ShellResolveFails(t)
             \/ AttachStep(t) \/ RemoveClient(t) \/ DetachStep(t)
      PROVE  UNCHANGED <<sessions, stage>>
  BY <1>4 DEF StartCreateTab, WsUpgrade, ShellResolveFails, ReserveSession, SpawnFails,
     DropReservation, InsertTabForSession, AttachStep, SessionForAttach,
     MissedLookup, MirrorConnected, Revalidate, SingletonCheckCurrent,
     SingletonCheckReferenced, SingletonInsert, SingletonRecheck, AddClient,
     RemoveClient, DetachStep, HasClients, MirrorDetached, allButTask,
     regVars, sessVars
<1>5. ASSUME NEW p \in Panes, CloseSession(p)
      PROVE  RegistryMove
  <2>1. sessions[p] \in Gens /\ stage[sessions[p]] = "live"
    BY <1>5 DEF IInv, TypeOK, CloseSession, MapHoldsLiveGenerations
  <2> QED BY <1>5, <2>1, <1>b DEF CloseSession
<1>6. ASSUME NEW g \in Gens, NaturalClose(g)
      PROVE  RegistryMove
  <2>1. stage[g] = "live"
    BY <1>6 DEF IInv, NaturalClose, MapHoldsLiveGenerations, GenInv, GenOK,
                Published
  <2> QED BY <1>6, <2>1, <1>b DEF NaturalClose
<1>7. ASSUME NEW g \in Gens, ExecuteClosePlan(g)
      PROVE  RegistryMove
  BY <1>7 DEF ExecuteClosePlan, regVars
<1>8. ASSUME NEW g \in Gens, TryReap(g)
      PROVE  RegistryMove
  <2>1. CASE ~Referenced(paneOf[g]) /\ Aged(paneOf[g]) /\ ~connected[g]
             /\ sessions[paneOf[g]] = g
    <3>1. stage[g] = "live"
      BY <1>8, <2>1 DEF IInv, TryReap, GenInv, GenOK, Published,
                        MapHoldsLiveGenerations
    <3> QED BY <1>8, <2>1, <3>1, <1>b DEF TryReap
  <2>2. CASE ~(~Referenced(paneOf[g]) /\ Aged(paneOf[g]) /\ ~connected[g]
               /\ sessions[paneOf[g]] = g)
    BY <1>8, <2>2 DEF TryReap
  <2> QED BY <2>1, <2>2
<1>9. ScanUnowned \/ Tick \/ TabStep => UNCHANGED <<sessions, stage>>
  BY DEF ScanUnowned, Tick, TabStep, UpdateLayout, RemoveTab, TabList,
     SetActivePane, ClosePaneLayout, CorrectLateLayout, regVars, sessVars
<1>10. UNCHANGED vars => UNCHANGED <<sessions, stage>>
  BY DEF vars, allButTask, regVars, sessVars
<1> HIDE DEF RegistryMove
<1>11. UNCHANGED <<sessions, stage>> => RegistryMove
  BY DEF RegistryMove
<1>12. CASE \E t \in Tasks : \/ StartCreateTab(t) \/ WsUpgrade(t)
                             \/ CreateStep(t) \/ AttachStep(t)
                             \/ RemoveClient(t) \/ DetachStep(t)
  BY <1>12, <1>1, <1>2, <1>3, <1>4, <1>11 DEF CreateStep
<1> QED BY <1>5, <1>6, <1>7, <1>8, <1>9, <1>10, <1>11, <1>12 DEF Next, Reaper

\* Spawn, publication, claim and end of a close happen in this order, once.
THEOREM StagesOrdered == Spec => StagesInOrder
<1>1. ASSUME IInv, [Next]_vars
      PROVE  [\A g \in Gens :
                 stage'[g] # stage[g] => stage'[g] \in StageOrder[stage[g]]]_vars
  <2>1. stage \in [Gens -> Stages]
    BY <1>1 DEF IInv, TypeOK
  <2> QED BY <1>1, <2>1, RegistryStep DEF RegistryMove, StageOrder, Stages
<1> QED BY <1>1, Invariance, PTL DEF Spec, StagesInOrder

\* collect_layout_close_locked: a close leaves no tab with the closed pane.
THEOREM ClosesLeaveNoLeaf == Spec => CloseLeavesNoLeaf
<1>1. ASSUME IInv, [Next]_vars
      PROVE  [\A p \in Panes : sessions[p] # NoGen /\ sessions'[p] = NoGen =>
                 \A tab \in tabs' : p \notin leaves'[tab]]_vars
  <2> SUFFICES ASSUME NEW p \in Panes, sessions[p] # NoGen, sessions'[p] = NoGen
               PROVE  \A tab \in tabs' : p \notin leaves'[tab]
    BY <1>1
  <2>1. CollectLayoutClose(p)
    <3>1. sessions \in [Panes -> Gens \cup {NoGen}]
      BY <1>1 DEF IInv, TypeOK
    <3> QED BY <1>1, <3>1, RegistryStep DEF RegistryMove
  <2>2. tabs \subseteq Tabs
    BY <1>1 DEF IInv, TypeOK
  <2> QED BY <2>1, <2>2 DEF CollectLayoutClose, PurgePane
<1> QED BY <1>1, Invariance, PTL DEF Spec, CloseLeavesNoLeaf

\* The session manager implements the abstract registry of panes: an object
\* enters the map only where the pane is vacant, leaves it once, and never
\* comes back, whatever the tasks, closes, exits and the reaper do.
THEOREM Refinement == Spec => ImplementsRegistry
<1>1. Init => Registry!Init
  BY DEF Init, Registry!Init, Published
<1>2. ASSUME IInv, [Next]_vars
      PROVE  [Registry!Next]_<<sessions, {g \in Gens : Published(g)}>>
  <2> DEFINE spent == {g \in Gens : Published(g)}
  <2>t. stage \in [Gens -> Stages]
    BY <1>2 DEF IInv, TypeOK
  <2>1. ASSUME NEW g \in Gens, stage[g] = "spawned", paneOf[g] \in Panes,
               sessions[paneOf[g]] = NoGen,
               sessions' = [sessions EXCEPT ![paneOf[g]] = g],
               stage' = [stage EXCEPT ![g] = "live"]
        PROVE  Registry!Next
    <3>1. g \notin spent /\ spent' = spent \cup {g}
      BY <2>1, <2>t DEF Published
    <3>2. Registry!Open(paneOf[g], g)
      BY <2>1, <3>1 DEF Registry!Open
    <3> QED BY <2>1, <3>2 DEF Registry!Next
  <2>2. ASSUME NEW g \in Gens, stage[g] = "live", paneOf[g] \in Panes,
               sessions[paneOf[g]] = g,
               sessions' = [sessions EXCEPT ![paneOf[g]] = NoGen],
               stage' = [stage EXCEPT ![g] = "closing"]
        PROVE  Registry!Next
    <3>1. spent' = spent
      BY <2>2, <2>t DEF Published
    <3>2. Registry!Close(paneOf[g])
      BY <2>2, <3>1 DEF Registry!Close
    <3> QED BY <2>2, <3>2 DEF Registry!Next
  <2>3. ASSUME NEW g \in Gens,
               \/ stage[g] = "closing" /\ stage' = [stage EXCEPT ![g] = "closed"]
               \/ stage[g] = "free" /\ stage' = [stage EXCEPT ![g] = "spawned"]
               \/ stage[g] = "spawned" /\ stage' = [stage EXCEPT ![g] = "aborted"]
        PROVE  spent' = spent
    BY <2>3, <2>t DEF Published
  <2>4. UNCHANGED stage => spent' = spent
    BY DEF Published
  <2> QED BY <1>2, <2>1, <2>2, <2>3, <2>4, RegistryStep DEF RegistryMove
<1> QED BY <1>1, <1>2, Invariance, PTL DEF Spec, ImplementsRegistry, Registry!Spec

=============================================================================
