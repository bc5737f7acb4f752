---------------------------- MODULE TabSyncProofs ----------------------------
(***************************************************************************)
(* Proofs about TabSync, for any panes, tabs, handlers, layouts at the     *)
(* start and numbers of requests and crashes.                              *)
(***************************************************************************)
EXTENDS TabSync, FiniteSetTheorems, TLAPS

-----------------------------------------------------------------------------
(* The inductive invariant.                                                *)

\* Layouts and broadcasts made of ids in U, the ids handed out, and of changes up to n.
LayoutsOf(U) == {f \in [Tabs -> SUBSET (Leaves \cap U)] : \A t \in Tabs : f[t] # {} => t \in U}
HeardOf(U)   == [kind : {"created", "updated", "closed"}, tab : Tabs \cap U,
                 leaves : SUBSET (Leaves \cap U)]
NotesOfIds(U, n) == [kind : {"created", "updated", "closed"}, tab : Tabs \cap U,
                     leaves : SUBSET (Leaves \cap U), own : 0 .. n, last : 0 .. n]

Ops == {"none", "create", "mirror", "plugin", "split", "insert", "move", "extract",
        "activate", "close", "closeRest", "closeSync"}
Pcs == {"idle", "publish", "verify", "end", "spawn", "store", "recheck", "target", "source",
        "dest", "leaf"}

RequestsOf(U, n) ==
    [op : Ops, pc : Pcs, tab : (Tabs \cap U) \cup {Nobody}, dst : (Tabs \cap U) \cup {Nobody},
     pane : (Leaves \cap U) \cup {Nobody}, new : (Leaves \cap U) \cup {Nobody},
     copy : SUBSET (Leaves \cap U), dstCopy : SUBSET (Leaves \cap U), first : 0 .. n,
     todo : SUBSET (Leaves \cap U), out : Seq(NotesOfIds(U, n))]

\* What the locals of a request are worth, by its kind and its program counter.
Sensible(r) ==
    /\ r.op \notin {"none", "mirror", "plugin", "close"} => r.tab # Nobody
    /\ r.op \in {"move", "extract"} => r.dst # Nobody
    /\ r.op = "create" => r.pane \in Panes
    /\ r.op = "split" /\ r.pc # "spawn" => r.new \in Panes
    /\ r.op = "insert" => r.new \in Widgets
    /\ r.op = "extract" => r.pane \in r.copy
    /\ r.op = "move" /\ r.pane # Nobody => r.pane \in r.copy

TypeInv ==
    /\ used \subseteq Leaves \cup Tabs /\ sessions \subseteq Panes \cap used
    /\ {layouts, replica, draft, file} \subseteq LayoutsOf(used)
    /\ clock \in Nat /\ {version, told} \subseteq [Tabs -> 0 .. clock] /\ latest \in 0 .. clock
    /\ req \in [Handlers -> RequestsOf(used, clock)]
    /\ \A h \in Handlers : Sensible(req[h])
    /\ queue \in Seq(HeardOf(used))
    /\ conn \in {"away", "registered", "listed"}
    /\ dirty \in BOOLEAN /\ saving \in {"idle", "reading"}
    /\ unread \subseteq Tabs /\ unrestored \subseteq Tabs
    /\ boot \in {"serving", "restoring"} /\ spawned \subseteq Panes
    /\ followed \in {"client", "file"}
    /\ ops \in 0 .. MaxOps[followed] /\ crashes \in 0 .. MaxCrashes
    /\ slips \subseteq {"stale", "reordered", "late", "merged", "overtaken", "unannounced",
                       "unsaved", "early"}

\* While tabs are restored nobody is served.
BootInv ==
    /\ boot = "restoring" =>
         /\ \A h \in Handlers : req[h] = Idle
         /\ conn = "away" /\ saving = "idle" /\ followed = "file"
         /\ slips \subseteq {"unsaved", "early"}
         /\ unrestored = {} => spawned = {}
    /\ boot = "serving" => spawned = {}

\* A leaf that is in no layout, but in the hands of a request that is to store it; and
\* a tab whose id a request has taken and has not stored yet.
Holds(r, p) ==
    \/ r.op = "create" /\ r.pc = "publish" /\ p = r.pane
    \/ r.op \in {"split", "insert"} /\ r.pc = "store" /\ p = r.new
    \/ r.op = "extract" /\ r.pc = "dest" /\ p = r.pane
    \/ r.op = "move" /\ r.pc = "dest" /\ p \in Moved(r)
Reserves(r, t) ==
    \/ r.op = "create" /\ r.pc = "publish" /\ t = r.tab
    \/ r.op = "extract" /\ r.pc \in {"source", "dest"} /\ t = r.dst

\* The leaves that have one place.  A plugin leaf that moves while the snapshot task reads
\* the tabs may be in two tabs of the file, and so in two tabs after a restart.
OneEach == \A q \in Leaves : \A t, u \in Tabs : q \in StartTabs[t] \cap StartTabs[u] => t = u
Placed  == IF followed = "client" /\ OneEach THEN Leaves ELSE Panes

\* Every such leaf has at most one place, and one with a session has one.
PlaceInv ==
    /\ \A p \in Placed : \A t, u \in Tabs : p \in layouts[t] \cap layouts[u] => t = u
    /\ \A p \in Placed : \A h \in Handlers : Holds(req[h], p) => Shown(p) = {}
    /\ \A p \in Placed : \A h, k \in Handlers : Holds(req[h], p) /\ Holds(req[k], p) => h = k
    /\ \A p \in sessions : \/ Shown(p) # {} \/ p \in spawned
                           \/ \E h \in Handlers : Holds(req[h], p)
    /\ \A t \in Tabs : \A h \in Handlers : Reserves(req[h], t) =>
         /\ layouts[t] = {}
         /\ \A k \in Handlers \ {h} : t \notin {req[k].tab, req[k].dst}

\* What has been restored so far.
RestoreInv ==
    boot = "restoring" =>
        /\ spawned \subseteq sessions
        /\ \A p \in spawned : Shown(p) = {} /\ unrestored # {} /\ p \in file[Current]
        /\ \A t \in Tabs : layouts[t] \cap Panes \subseteq sessions
        /\ \A t \in unrestored : layouts[t] = {}

CleanInv == slips \cap {"stale", "unannounced", "early"} = {} => PlaceInv /\ RestoreInv

\* What has been read of the tabs is up to date, or a signal waits.
FileInv ==
    ~dirty =>
        /\ saving = "reading" => \A t \in Tabs \ unread : draft[t] = layouts[t]
        /\ boot = "restoring" => layouts = NoTabs
        /\ boot = "restoring" => crashes > 0
        /\ boot = "serving" /\ saving = "idle" /\ "unsaved" \notin slips =>
             file = layouts \/ (crashes > 0 /\ layouts = NoTabs)

IInv == TypeInv /\ BootInv /\ CleanInv /\ FileInv

-----------------------------------------------------------------------------
(* More ids may be handed out, and more changes stored.                    *)

LEMMA MoreIds ==
    ASSUME NEW U, NEW V, U \subseteq V, NEW m \in Nat, NEW n \in Nat, m <= n
    PROVE  /\ LayoutsOf(U) \subseteq LayoutsOf(V)
           /\ HeardOf(U) \subseteq HeardOf(V)
           /\ NotesOfIds(U, m) \subseteq NotesOfIds(V, n)
           /\ Seq(HeardOf(U)) \subseteq Seq(HeardOf(V))
           /\ RequestsOf(U, m) \subseteq RequestsOf(V, n)
<1>1. 0 .. m \subseteq 0 .. n
  OBVIOUS
<1>2. /\ Leaves \cap U \subseteq Leaves \cap V /\ Tabs \cap U \subseteq Tabs \cap V
      /\ SUBSET (Leaves \cap U) \subseteq SUBSET (Leaves \cap V)
      /\ (Tabs \cap U) \cup {Nobody} \subseteq (Tabs \cap V) \cup {Nobody}
      /\ (Leaves \cap U) \cup {Nobody} \subseteq (Leaves \cap V) \cup {Nobody}
  OBVIOUS
<1>3. LayoutsOf(U) \subseteq LayoutsOf(V)
  BY <1>2 DEF LayoutsOf
<1>4. HeardOf(U) \subseteq HeardOf(V)
  BY <1>2 DEF HeardOf
<1>5. NotesOfIds(U, m) \subseteq NotesOfIds(V, n)
  BY <1>1, <1>2 DEF NotesOfIds
<1>6. \A S, T : S \subseteq T => Seq(S) \subseteq Seq(T)
  OBVIOUS
<1>7. RequestsOf(U, m) \subseteq RequestsOf(V, n)
  <2>1. Seq(NotesOfIds(U, m)) \subseteq Seq(NotesOfIds(V, n))
    BY <1>5, <1>6
  <2>. QED
    BY <1>1, <1>2, <2>1 DEF RequestsOf
<1>. QED
  BY <1>3, <1>4, <1>5, <1>6, <1>7

\* What the stores do to the types.
StoreTypes ==
    /\ layouts' \in LayoutsOf(used')
    /\ clock' \in Nat /\ clock <= clock' /\ version' \in [Tabs -> 0 .. clock']
    /\ dirty' \in BOOLEAN

LEMMA Stamping ==
    ASSUME TypeInv, NEW T, Stamp(T)
    PROVE  /\ clock' \in Nat /\ clock <= clock' /\ version' \in [Tabs -> 0 .. clock']
           /\ T # {} => clock' = clock + 1
           /\ T = {} => clock' = clock
<1>1. clock \in Nat /\ version \in [Tabs -> 0 .. clock]
  BY DEF TypeInv
<1>2. CASE T = {}
  BY <1>1, <1>2 DEF Stamp
<1>3. CASE T # {}
  BY <1>1, <1>3 DEF Stamp
<1>. QED
  BY <1>2, <1>3

LEMMA StoreFacts ==
    ASSUME TypeInv, used \subseteq used', NEW t \in Tabs \cap used', NEW L, L \subseteq Leaves \cap used',
           NEW basis, Store(t, L, basis)
    PROVE  /\ StoreTypes /\ clock' = clock + 1 /\ dirty' = TRUE
           /\ layouts' = [layouts EXCEPT ![t] = L]
           /\ slips' = slips \cup Slip(layouts[t] # basis, "stale")
<1>1. layouts \in LayoutsOf(used)
  BY DEF TypeInv
<1>2. layouts' \in LayoutsOf(used')
  BY <1>1 DEF Store, LayoutsOf
<1>3. Stamp({t})
  BY DEF Store
<1>. QED
  BY <1>2, <1>3, Stamping DEF Store, StoreTypes

LEMMA RemoveFacts ==
    ASSUME TypeInv, used \subseteq used', NEW t \in Tabs, NEW basis, Remove(t, basis)
    PROVE  /\ StoreTypes
           /\ layouts' = [layouts EXCEPT ![t] = {}]
           /\ layouts[t] # {} => clock' = clock + 1 /\ dirty' = TRUE
           /\ layouts[t] = {} => UNCHANGED <<layouts, clock, dirty>>
           /\ slips' = slips \cup Slip(layouts[t] # basis, "stale")
<1>1. layouts \in LayoutsOf(used) /\ dirty \in BOOLEAN
  BY DEF TypeInv
<1>2. layouts' \in LayoutsOf(used')
  BY <1>1 DEF Remove, LayoutsOf
<1>3. Stamp({t} \cap Present) /\ dirty' = (dirty \/ layouts[t] # {})
  BY DEF Remove
<1>4. layouts[t] = {} => layouts' = layouts
  BY <1>1 DEF Remove, LayoutsOf
<1>5. {t} \cap Present = IF layouts[t] = {} THEN {} ELSE {t}
  BY DEF Present
<1>. QED
  BY <1>1, <1>2, <1>3, <1>4, <1>5, Stamping DEF Remove, StoreTypes

LEMMA PurgeFacts ==
    ASSUME TypeInv, used \subseteq used', NEW p, Purge(p)
    PROVE  /\ StoreTypes
           /\ \A t \in Tabs : layouts'[t] = layouts[t] \ {p}
           /\ Shown(p) # {} => clock' = clock + 1 /\ dirty' = TRUE
           /\ Shown(p) = {} => UNCHANGED <<layouts, clock, dirty>>
<1>1. layouts \in LayoutsOf(used) /\ dirty \in BOOLEAN
  BY DEF TypeInv
<1>2. layouts' = [t \in Tabs |-> layouts[t] \ {p}] /\ Stamp(Shown(p)) /\ dirty' = (dirty \/ Shown(p) # {})
  BY DEF Purge
<1>3. layouts' \in LayoutsOf(used')
  BY <1>1, <1>2 DEF LayoutsOf
<1>4. Shown(p) = {} => layouts' = layouts
  <2>1. ASSUME Shown(p) = {}, NEW t \in Tabs PROVE layouts[t] \ {p} = layouts[t]
    BY <2>1 DEF Shown
  <2>2. layouts = [t \in Tabs |-> layouts[t]]
    BY <1>1 DEF LayoutsOf
  <2>. QED
    BY <1>2, <2>1, <2>2
<1>. QED
  BY <1>1, <1>2, <1>3, <1>4, Stamping DEF StoreTypes

LEMMA PruneFacts ==
    ASSUME TypeInv, used \subseteq used', Prune
    PROVE  /\ StoreTypes
           /\ Stale # {} => dirty' = TRUE
           /\ Stale = {} => UNCHANGED <<layouts, clock, dirty>>
<1>1. layouts \in LayoutsOf(used) /\ dirty \in BOOLEAN
  BY DEF TypeInv
<1>2. layouts' = [t \in Tabs |-> IF t \in Stale THEN {} ELSE layouts[t]] /\ Stamp(Stale)
      /\ dirty' = (dirty \/ Stale # {})
  BY DEF Prune
<1>3. layouts' \in LayoutsOf(used')
  BY <1>1, <1>2 DEF LayoutsOf
<1>4. Stale = {} => layouts' = layouts
  BY <1>1, <1>2 DEF LayoutsOf
<1>. QED
  BY <1>1, <1>2, <1>3, <1>4, Stamping DEF StoreTypes

\* The members of a finite set can be put in a row, those of a part of it first.
LEMMA InARow ==
    ASSUME NEW T, IsFiniteSet(T), NEW C \in SUBSET T
    PROVE  \E s \in [1 .. Cardinality(T) -> T] :
             \A i, j \in 1 .. Cardinality(T) : i < j => s[i] # s[j] /\ (s[j] \in C => s[i] \in C)
<1>. DEFINE D == T \ C
            a == Cardinality(C)
            b == Cardinality(D)
<1>1. C \in SUBSET T /\ D \in SUBSET T /\ C \cap D = {} /\ C \cup D = T
  OBVIOUS
<1>2. IsFiniteSet(C) /\ IsFiniteSet(D)
  BY <1>1, FS_Subset, Zenon
<1>. HIDE DEF D
<1>3. a \in Nat /\ b \in Nat
  BY <1>2, FS_CardinalityType
<1>4. Cardinality(T) = a + b
  <2>1. Cardinality(C \cup D) = a + b - Cardinality(C \cap D)
    BY <1>2, FS_Union, Zenon
  <2>2. Cardinality(C \cap D) = 0
    BY <1>1, FS_EmptySet
  <2>3. Cardinality(C \cup D) = Cardinality(T)
    BY <1>1, Zenon
  <2>. QED
    BY <1>3, <2>1, <2>2, <2>3
<1>5. PICK f \in Bijection(1 .. a, C) : TRUE
  BY <1>2, FS_CardinalityType, Zenon DEF ExistsBijection
<1>6. PICK g \in Bijection(1 .. b, D) : TRUE
  BY <1>2, FS_CardinalityType, Zenon DEF ExistsBijection
<1>7. /\ f \in [1 .. a -> C] /\ \A i, j \in 1 .. a : f[i] = f[j] => i = j
      /\ g \in [1 .. b -> D] /\ \A i, j \in 1 .. b : g[i] = g[j] => i = j
  BY <1>5, <1>6 DEF Bijection, Injection, Surjection, IsInjective
<1>. DEFINE s == [i \in 1 .. a + b |-> IF i <= a THEN f[i] ELSE g[i - a]]
<1>. HIDE DEF a, b
<1>8. \A i \in 1 .. a + b : \/ i \in 1 .. a /\ s[i] = f[i] /\ s[i] \in C
                            \/ i > a /\ i - a \in 1 .. b /\ s[i] = g[i - a] /\ s[i] \in D
  BY <1>3, <1>7
<1>9. s \in [1 .. a + b -> T]
  BY <1>1, <1>8
<1>. HIDE DEF s
<1>10. ASSUME NEW i \in 1 .. a + b, NEW j \in 1 .. a + b, i < j
       PROVE  s[i] # s[j] /\ (s[j] \in C => s[i] \in C)
  <2>1. CASE j \in 1 .. a /\ s[j] = f[j] /\ s[j] \in C
    <3>1. i \in 1 .. a /\ s[i] = f[i] /\ s[i] \in C
      BY <1>3, <1>8, <1>10, <2>1
    <3>2. f[i] # f[j]
      BY <1>7, <1>10, <2>1, <3>1
    <3>. QED
      BY <2>1, <3>1, <3>2
  <2>2. CASE j > a /\ j - a \in 1 .. b /\ s[j] = g[j - a] /\ s[j] \in D
    <3>1. CASE s[i] \in C
      BY <1>1, <2>2, <3>1
    <3>2. CASE i > a /\ i - a \in 1 .. b /\ s[i] = g[i - a] /\ s[i] \in D
      <4>1. i - a # j - a
        BY <1>3, <1>10
      <4>2. g[i - a] # g[j - a]
        BY <1>7, <2>2, <3>2, <4>1
      <4>. QED
        BY <1>1, <2>2, <3>2, <4>2
    <3>. QED
      BY <1>8, <3>1, <3>2
  <2>. QED
    BY <1>8, <2>1, <2>2
<1>. QED
  BY <1>4, <1>9, <1>10

\* What is to be told of a purge is about tabs that show the leaf, and stems from it.
LEMMA NotesFacts ==
    ASSUME TypeInv, NEW p
    PROVE  /\ Shown(p) = {} => NotesOf(p) = <<>>
           /\ NotesOf(p) \in Seq(NotesOfIds(used, IF Shown(p) = {} THEN clock ELSE clock + 1))
<1>. DEFINE T         == Shown(p)
            closes(t) == layouts[t] = {p}
            n         == Cardinality(T)
            order     == CHOOSE s \in [1 .. Cardinality(T) -> T] :
                           \A i, j \in 1 .. Cardinality(T) : i < j =>
                              s[i] # s[j] /\ (closes(s[j]) => closes(s[i]))
            note(i)   == Note(IF closes(order[i]) THEN "closed" ELSE "updated",
                              order[i], layouts[order[i]] \ {p}, clock + 1, clock + 1)
<1>1. NotesOf(p) = [i \in 1 .. n |-> note(i)]
  BY Zenon DEF NotesOf
<1>2. T \in SUBSET Tabs /\ IsFiniteSet(Tabs)
  BY IdsAssumption DEF Shown
<1>3. IsFiniteSet(T) /\ n \in Nat
  BY <1>2, FS_Subset, FS_CardinalityType, Zenon
<1>4. order \in [1 .. n -> T]
  <2>. DEFINE C == {t \in T : closes(t)}
  <2>1. C \in SUBSET T
    OBVIOUS
  <2>2. PICK s \in [1 .. Cardinality(T) -> T] :
          \A i, j \in 1 .. Cardinality(T) : i < j => s[i] # s[j] /\ (s[j] \in C => s[i] \in C)
    <3>. HIDE DEF C, T
    <3>. QED
      BY <1>3, <2>1, InARow, Zenon
  <2>3. \A i, j \in 1 .. Cardinality(T) : i < j => s[i] # s[j] /\ (closes(s[j]) => closes(s[i]))
    <3>1. \A i \in 1 .. n : s[i] \in C <=> closes(s[i])
      BY <2>2
    <3>. QED
      BY <2>2, <3>1
  <2>. QED
    BY <2>2, <2>3, Zenon
<1>5. layouts \in LayoutsOf(used) /\ clock \in Nat
  BY DEF TypeInv
<1>. HIDE DEF order
<1>6. CASE T = {}
  <2>1. n = 0
    BY <1>6, FS_EmptySet
  <2>2. NotesOf(p) = <<>>
    BY <1>1, <2>1
  <2>. QED
    BY <1>6, <2>2
<1>7. CASE T # {}
  <2>1. ASSUME NEW i \in 1 .. n PROVE note(i) \in NotesOfIds(used, clock + 1)
    <3>1. order[i] \in Tabs /\ layouts[order[i]] # {}
      BY <1>4 DEF Shown
    <3>2. order[i] \in used /\ layouts[order[i]] \in SUBSET (Leaves \cap used)
      BY <1>5, <3>1 DEF LayoutsOf
    <3>3. clock + 1 \in 0 .. clock + 1
      BY <1>5
    <3>. QED
      BY <3>1, <3>2, <3>3 DEF Note, NotesOfIds
  <2>. HIDE DEF note, n, T
  <2>2. NotesOf(p) \in Seq(NotesOfIds(used, clock + 1))
    BY <1>1, <1>3, <2>1
  <2>. QED
    BY <1>7, <2>2 DEF T
<1>. QED
  BY <1>6, <1>7

-----------------------------------------------------------------------------
(* The types.                                                              *)

LEMMA SameStores ==
    ASSUME TypeInv, used \subseteq used', UNCHANGED <<layouts, clock, version, dirty>>
    PROVE  StoreTypes
<1>1. layouts \in LayoutsOf(used) /\ clock \in Nat /\ version \in [Tabs -> 0 .. clock] /\ dirty \in BOOLEAN
  BY DEF TypeInv
<1>2. LayoutsOf(used) \subseteq LayoutsOf(used')
  BY <1>1, MoreIds
<1>. QED
  BY <1>1, <1>2 DEF StoreTypes

\* A request goes on, and whatever it stores is made of ids handed out.
LEMMA Typed ==
    ASSUME TypeInv, used \subseteq used', used' \subseteq Leaves \cup Tabs,
           sessions' \subseteq Panes \cap used', StoreTypes,
           NEW h \in Handlers, NEW r, req' = [req EXCEPT ![h] = r],
           r \in RequestsOf(used', clock'), Sensible(r), ops' \in 0 .. MaxOps[followed],
           slips' \subseteq slips \cup {"stale", "merged", "unannounced"},
           UNCHANGED <<clientVars, saving, unread, draft, file, bootVars>>
    PROVE  TypeInv'
<1>1. clock \in Nat /\ clock' \in Nat /\ clock <= clock'
  BY DEF TypeInv, StoreTypes
<1>2. /\ LayoutsOf(used) \subseteq LayoutsOf(used') /\ Seq(HeardOf(used)) \subseteq Seq(HeardOf(used'))
      /\ RequestsOf(used, clock) \subseteq RequestsOf(used', clock')
  BY <1>1, MoreIds, Zenon
<1>3. req \in [Handlers -> RequestsOf(used, clock)] /\ \A k \in Handlers : Sensible(req[k])
  BY DEF TypeInv
<1>4. req' \in [Handlers -> RequestsOf(used', clock')] /\ \A k \in Handlers : req'[k] = IF k = h THEN r ELSE req[k]
  BY <1>2, <1>3
<1>5. \A k \in Handlers : Sensible(req[k])'
  BY <1>3, <1>4 DEF Sensible, Moved
<1>6. {layouts', replica', draft', file'} \subseteq LayoutsOf(used')
  BY <1>2 DEF TypeInv, StoreTypes, clientVars
<1>7. {version', told'} \subseteq [Tabs -> 0 .. clock'] /\ latest' \in 0 .. clock'
  BY <1>1 DEF TypeInv, StoreTypes, clientVars
<1>8. queue' \in Seq(HeardOf(used')) /\ conn' \in {"away", "registered", "listed"}
  BY <1>2 DEF TypeInv, clientVars
<1>9. /\ dirty' \in BOOLEAN /\ saving' \in {"idle", "reading"}
      /\ unread' \subseteq Tabs /\ unrestored' \subseteq Tabs
      /\ boot' \in {"serving", "restoring"} /\ spawned' \subseteq Panes
      /\ followed' \in {"client", "file"} /\ ops' \in 0 .. MaxOps[followed']
      /\ crashes' \in 0 .. MaxCrashes
      /\ slips' \subseteq {"stale", "reordered", "late", "merged", "overtaken", "unannounced", "unsaved", "early"}
  BY DEF TypeInv, StoreTypes, bootVars
<1>. QED
  BY <1>1, <1>4, <1>5, <1>6, <1>7, <1>8, <1>9 DEF TypeInv

LEMMA OpsBound ==
    ASSUME TypeInv, ops < MaxOps[followed], ops' = ops + 1
    PROVE  ops' \in 0 .. MaxOps[followed]
BY BoundsAssumption DEF TypeInv

\* The locals of a request, seen with the ids and changes there are afterwards.
LEMMA Locals ==
    ASSUME TypeInv, NEW h \in Handlers, used \subseteq used', clock' \in Nat, clock <= clock'
    PROVE  /\ req[h] \in RequestsOf(used', clock') /\ Sensible(req[h])
           /\ Idle \in RequestsOf(used', clock') /\ Sensible(Idle)
           /\ DOMAIN req = Handlers
           /\ req[h] \in RequestsOf(used, clock)
<1>1. req[h] \in RequestsOf(used, clock) /\ Sensible(req[h]) /\ clock \in Nat /\ DOMAIN req = Handlers
  BY DEF TypeInv
<1>2. RequestsOf(used, clock) \subseteq RequestsOf(used', clock')
  BY <1>1, MoreIds, Zenon
<1>3. Idle \in RequestsOf(used', clock')
  BY DEF Idle, RequestsOf, Ops, Pcs
<1>4. Sensible(Idle)
  BY DEF Idle, Sensible
<1>. QED
  BY <1>1, <1>2, <1>3, <1>4

\* A request starts that only reads; or takes ids that were never handed out.
LEMMA Starting ==
    ASSUME TypeInv, NEW h \in Handlers, NEW r, Start(h, r),
           used \subseteq used', used' \subseteq Leaves \cup Tabs, sessions' \subseteq Panes \cap used',
           UNCHANGED <<layouts, clock, version, clientVars, fileVars, bootVars, slips>>,
           r \in RequestsOf(used', clock), Sensible(r)
    PROVE  TypeInv'
<1>1. UNCHANGED <<clientVars, saving, unread, draft, file, bootVars, dirty, clock>>
  BY DEF fileVars
<1>2. StoreTypes
  BY <1>1, SameStores
<1>3. ops' \in 0 .. MaxOps[followed] /\ req' = [req EXCEPT ![h] = r]
  BY OpsBound DEF Start
<1>4. r \in RequestsOf(used', clock')
  BY <1>1
<1>. QED
  BY <1>1, <1>2, <1>3, <1>4, Typed

LEMMA TypeBegin ==
    ASSUME TypeInv, NEW h \in Handlers,
           \/ BeginCreate(h) \/ BeginSplit(h) \/ BeginInsert(h) \/ BeginMove(h) \/ BeginExtract(h)
           \/ BeginActivate(h) \/ BeginCloseTab(h)
    PROVE  TypeInv'
<1>1. /\ used \subseteq Leaves \cup Tabs /\ sessions \subseteq Panes \cap used /\ clock \in Nat
      /\ layouts \in LayoutsOf(used)
  BY DEF TypeInv
<1>2. \A t \in Present : t \in Tabs \cap used /\ layouts[t] \in SUBSET (Leaves \cap used)
  BY <1>1 DEF Present, LayoutsOf
<1>3. Nobody \notin Tabs /\ Nobody \notin Leaves /\ Panes \subseteq Leaves /\ Widgets \subseteq Leaves
  BY IdsAssumption DEF Leaves
<1>4. <<>> \in Seq(NotesOfIds(used', clock)) /\ 0 \in 0 .. clock
  BY <1>1
<1>5. CASE BeginCreate(h)
  <2>1. PICK p \in Fresh(Panes), t \in Fresh(Tabs) :
          /\ Start(h, [Idle EXCEPT !.op = "create", !.pc = "publish", !.pane = p, !.tab = t])
          /\ used' = used \cup {p, t} /\ sessions' = sessions \cup {p}
    BY <1>5 DEF BeginCreate
  <2>. DEFINE r == [Idle EXCEPT !.op = "create", !.pc = "publish", !.pane = p, !.tab = t]
  <2>2. p \in Panes /\ t \in Tabs /\ p \in Leaves
    BY <1>3 DEF Fresh
  <2>3. r \in RequestsOf(used', clock) /\ Sensible(r)
    BY <1>3, <1>4, <2>1, <2>2 DEF Idle, RequestsOf, Sensible, Ops, Pcs
  <2>4. used \subseteq used' /\ used' \subseteq Leaves \cup Tabs /\ sessions' \subseteq Panes \cap used'
    BY <1>1, <2>1, <2>2
  <2>. HIDE DEF r
  <2>. QED
    BY <1>5, <2>1, <2>3, <2>4, Starting DEF BeginCreate, r
<1>6. CASE BeginSplit(h)
  <2>1. PICK t \in Present :
          Start(h, [Idle EXCEPT !.op = "split", !.pc = "spawn", !.tab = t, !.copy = layouts[t]])
    BY <1>6 DEF BeginSplit
  <2>. DEFINE r == [Idle EXCEPT !.op = "split", !.pc = "spawn", !.tab = t, !.copy = layouts[t]]
  <2>2. UNCHANGED <<used, sessions, layouts, clock, version, clientVars, fileVars, bootVars, slips>>
    BY <1>6 DEF BeginSplit, serverVars
  <2>3. r \in RequestsOf(used', clock) /\ Sensible(r)
    BY <1>2, <1>3, <1>4, <2>2 DEF Idle, RequestsOf, Sensible, Ops, Pcs
  <2>. HIDE DEF r
  <2>. QED
    BY <1>1, <2>1, <2>2, <2>3, Starting DEF r
<1>7. CASE BeginInsert(h)
  <2>1. PICK t \in Present, w \in Fresh(Widgets) :
          /\ Start(h, [Idle EXCEPT !.op = "insert", !.pc = "store", !.tab = t,
                                   !.copy = layouts[t], !.new = w])
          /\ used' = used \cup {w}
    BY <1>7 DEF BeginInsert
  <2>. DEFINE r == [Idle EXCEPT !.op = "insert", !.pc = "store", !.tab = t,
                                !.copy = layouts[t], !.new = w]
  <2>2. UNCHANGED <<sessions, layouts, clock, version, clientVars, fileVars, bootVars, slips>>
    BY <1>7 DEF BeginInsert
  <2>3. w \in Widgets /\ w \in Leaves
    BY <1>3 DEF Fresh
  <2>4. r \in RequestsOf(used', clock) /\ Sensible(r)
    BY <1>2, <1>3, <1>4, <2>1, <2>3 DEF Idle, RequestsOf, Sensible, Ops, Pcs
  <2>5. used \subseteq used' /\ used' \subseteq Leaves \cup Tabs /\ sessions' \subseteq Panes \cap used'
    BY <1>1, <2>1, <2>2, <2>3
  <2>. HIDE DEF r
  <2>. QED
    BY <2>1, <2>2, <2>4, <2>5, Starting DEF r
<1>8. CASE BeginMove(h)
  <2>1. PICK t, d, p :
          /\ t \in Present /\ d \in Present /\ p \in Leaves \cup {Nobody}
          /\ p # Nobody => p \in layouts[t]
          /\ Start(h, [Idle EXCEPT !.op = "move", !.pc = "target", !.tab = t,
                                   !.dst = d, !.pane = p, !.copy = layouts[t]])
    BY <1>8, Zenon DEF BeginMove
  <2>. DEFINE r == [Idle EXCEPT !.op = "move", !.pc = "target", !.tab = t,
                                !.dst = d, !.pane = p, !.copy = layouts[t]]
  <2>2. UNCHANGED <<used, sessions, layouts, clock, version, clientVars, fileVars, bootVars, slips>>
    BY <1>8 DEF BeginMove, serverVars
  <2>3. p \in (Leaves \cap used) \cup {Nobody}
    BY <1>2, <2>1
  <2>4. r \in RequestsOf(used', clock)
    <3>1. used' = used /\ t \in Tabs \cap used' /\ d \in Tabs \cap used' /\ layouts[t] \in SUBSET (Leaves \cap used')
          /\ p \in (Leaves \cap used') \cup {Nobody}
      BY <1>2, <2>1, <2>2, <2>3
    <3>2. CASE p = Nobody
      BY <1>4, <3>1, <3>2 DEF Idle, RequestsOf, Ops, Pcs
    <3>3. CASE p \in Leaves \cap used'
      BY <1>4, <3>1, <3>3 DEF Idle, RequestsOf, Ops, Pcs
    <3>. QED
      BY <3>1, <3>2, <3>3
  <2>5. Sensible(r)
    <3>1. r.op = "move" /\ r.pc = "target" /\ r.tab = t /\ r.dst = d /\ r.pane = p /\ r.copy = layouts[t]
      BY DEF Idle
    <3>2. t # Nobody /\ d # Nobody /\ (p # Nobody => p \in layouts[t])
      BY <1>2, <1>3, <2>1
    <3>. QED
      BY <3>1, <3>2 DEF Sensible
  <2>. HIDE DEF r
  <2>. QED
    BY <1>1, <2>1, <2>2, <2>4, <2>5, Starting DEF r
<1>9. CASE BeginExtract(h)
  <2>0. PICK t \in Present, d \in Fresh(Tabs) : \E p \in layouts[t] :
          /\ Start(h, [Idle EXCEPT !.op = "extract", !.pc = "source", !.tab = t,
                                   !.dst = d, !.pane = p, !.copy = layouts[t]])
          /\ used' = used \cup {d}
    BY <1>9, Zenon DEF BeginExtract
  <2>1. PICK p \in layouts[t] :
          /\ Start(h, [Idle EXCEPT !.op = "extract", !.pc = "source", !.tab = t,
                                   !.dst = d, !.pane = p, !.copy = layouts[t]])
          /\ used' = used \cup {d}
    BY <2>0, Zenon
  <2>. DEFINE r == [Idle EXCEPT !.op = "extract", !.pc = "source", !.tab = t,
                                !.dst = d, !.pane = p, !.copy = layouts[t]]
  <2>2. UNCHANGED <<sessions, layouts, clock, version, clientVars, fileVars, bootVars, slips>>
    BY <1>9 DEF BeginExtract
  <2>3. d \in Tabs /\ p \in Leaves \cap used /\ t \in Tabs \cap used /\ layouts[t] \in SUBSET (Leaves \cap used)
    BY <1>2, <2>1 DEF Fresh
  <2>4. r \in RequestsOf(used', clock)
    BY <1>4, <2>1, <2>3 DEF Idle, RequestsOf, Ops, Pcs
  <2>5. Sensible(r)
    BY <1>3, <2>1, <2>3 DEF Idle, Sensible
  <2>6. used \subseteq used' /\ used' \subseteq Leaves \cup Tabs /\ sessions' \subseteq Panes \cap used'
    BY <1>1, <2>1, <2>2, <2>3
  <2>. HIDE DEF r
  <2>. QED
    BY <2>1, <2>2, <2>4, <2>5, <2>6, Starting DEF r
<1>10. CASE BeginActivate(h)
  <2>1. PICK t \in Present :
          Start(h, [Idle EXCEPT !.op = "activate", !.pc = "store", !.tab = t, !.copy = layouts[t]])
    BY <1>10 DEF BeginActivate
  <2>. DEFINE r == [Idle EXCEPT !.op = "activate", !.pc = "store", !.tab = t, !.copy = layouts[t]]
  <2>2. UNCHANGED <<used, sessions, layouts, clock, version, clientVars, fileVars, bootVars, slips>>
    BY <1>10 DEF BeginActivate, serverVars
  <2>3. r \in RequestsOf(used', clock) /\ Sensible(r)
    BY <1>2, <1>3, <1>4, <2>2 DEF Idle, RequestsOf, Sensible, Ops, Pcs
  <2>. HIDE DEF r
  <2>. QED
    BY <1>1, <2>1, <2>2, <2>3, Starting DEF r
<1>11. CASE BeginCloseTab(h)
  <2>1. PICK t \in Present, op \in {"closeRest", "closeSync"} :
          Start(h, [Idle EXCEPT !.op = op, !.pc = "leaf", !.tab = t, !.todo = layouts[t]])
    BY <1>11 DEF BeginCloseTab
  <2>. DEFINE r == [Idle EXCEPT !.op = op, !.pc = "leaf", !.tab = t, !.todo = layouts[t]]
  <2>2. UNCHANGED <<used, sessions, layouts, clock, version, clientVars, fileVars, bootVars, slips>>
    BY <1>11 DEF BeginCloseTab, serverVars
  <2>3. r \in RequestsOf(used', clock) /\ Sensible(r)
    BY <1>2, <1>3, <1>4, <2>2 DEF Idle, RequestsOf, Sensible, Ops, Pcs
  <2>. HIDE DEF r
  <2>. QED
    BY <1>1, <2>1, <2>2, <2>3, Starting DEF r
<1>. QED
  BY <1>5, <1>6, <1>7, <1>8, <1>9, <1>10, <1>11


\* What is known of each local of a request.
LEMMA Fields ==
    ASSUME NEW U, NEW n, NEW r \in RequestsOf(U, n)
    PROVE  /\ r.op \in Ops /\ r.pc \in Pcs
           /\ r.tab \in (Tabs \cap U) \cup {Nobody} /\ r.dst \in (Tabs \cap U) \cup {Nobody}
           /\ r.pane \in (Leaves \cap U) \cup {Nobody} /\ r.new \in (Leaves \cap U) \cup {Nobody}
           /\ r.copy \in SUBSET (Leaves \cap U) /\ r.dstCopy \in SUBSET (Leaves \cap U)
           /\ r.first \in 0 .. n /\ r.todo \in SUBSET (Leaves \cap U) /\ r.out \in Seq(NotesOfIds(U, n))
BY DEF RequestsOf

LEMMA NoteTyped ==
    ASSUME NEW U, NEW n, NEW k \in {"created", "updated", "closed"}, NEW t \in Tabs \cap U,
           NEW L \in SUBSET (Leaves \cap U), NEW own \in 0 .. n, NEW last \in 0 .. n
    PROVE  Note(k, t, L, own, last) \in NotesOfIds(U, n)
BY DEF Note, NotesOfIds

\* A request that goes on with something to tell.
LEMMA SentTyped ==
    ASSUME TypeInv, used \subseteq used', used' \subseteq Leaves \cup Tabs,
           sessions' \subseteq Panes \cap used', StoreTypes,
           NEW h \in Handlers, NEW pc \in Pcs, NEW notes \in Seq(NotesOfIds(used', clock')),
           SendThen(h, notes, pc), req[h].op = "split" => req[h].new \in Panes,
           slips' \subseteq slips \cup {"stale", "merged", "unannounced"},
           UNCHANGED <<ops, clientVars, saving, unread, draft, file, bootVars>>
    PROVE  TypeInv'
<1>. DEFINE r == [req[h] EXCEPT !.out = notes, !.pc = pc]
<1>1. req[h] \in RequestsOf(used', clock') /\ Sensible(req[h]) /\ DOMAIN req = Handlers
  BY Locals DEF StoreTypes
<1>2. req' = [req EXCEPT ![h] = r]
  BY DEF SendThen
<1>3. r \in RequestsOf(used', clock')
  BY <1>1 DEF RequestsOf
<1>4. /\ r.op = req[h].op /\ r.tab = req[h].tab /\ r.dst = req[h].dst /\ r.pane = req[h].pane
      /\ r.new = req[h].new /\ r.copy = req[h].copy /\ r.pc = pc
  BY <1>1 DEF RequestsOf
<1>5. Sensible(r)
  BY <1>1, <1>4 DEF Sensible
<1>6. ops' \in 0 .. MaxOps[followed]
  BY DEF TypeInv
<1>. HIDE DEF r
<1>. QED
  BY <1>2, <1>3, <1>5, <1>6, Typed

\* A request that ends.
LEMMA EndedTyped ==
    ASSUME TypeInv, used' = used, sessions' \subseteq Panes \cap used, StoreTypes,
           NEW h \in Handlers, req' = [req EXCEPT ![h] = Idle],
           slips' \subseteq slips \cup {"stale", "merged", "unannounced"},
           UNCHANGED <<ops, clientVars, saving, unread, draft, file, bootVars>>
    PROVE  TypeInv'
<1>1. Idle \in RequestsOf(used', clock') /\ Sensible(Idle)
  BY Locals DEF StoreTypes
<1>2. ops' \in 0 .. MaxOps[followed] /\ used' \subseteq Leaves \cup Tabs /\ used \subseteq used'
      /\ sessions' \subseteq Panes \cap used'
  BY DEF TypeInv
<1>. HIDE DEF Idle
<1>. QED
  BY <1>1, <1>2, Typed

\* The request at a step: its locals, seen with the changes there are afterwards.
LEMMA AtStep ==
    ASSUME TypeInv, NEW h \in Handlers
    PROVE  /\ used \subseteq Leaves \cup Tabs /\ sessions \subseteq Panes \cap used /\ clock \in Nat
           /\ Sensible(req[h]) /\ req[h] \in RequestsOf(used, clock)
           /\ req[h].op \in Ops /\ req[h].pc \in Pcs
           /\ req[h].tab \in (Tabs \cap used) \cup {Nobody} /\ req[h].dst \in (Tabs \cap used) \cup {Nobody}
           /\ req[h].pane \in (Leaves \cap used) \cup {Nobody}
           /\ req[h].new \in (Leaves \cap used) \cup {Nobody}
           /\ req[h].copy \in SUBSET (Leaves \cap used) /\ req[h].dstCopy \in SUBSET (Leaves \cap used)
           /\ req[h].first \in 0 .. clock /\ req[h].first \in 0 .. clock + 1
           /\ req[h].todo \in SUBSET (Leaves \cap used)
           /\ Nobody \notin Tabs /\ Nobody \notin Leaves /\ Panes \subseteq Leaves /\ Widgets \subseteq Leaves
           /\ clock + 1 \in 0 .. clock + 1
<1>1. used \subseteq Leaves \cup Tabs /\ sessions \subseteq Panes \cap used /\ clock \in Nat
      /\ Sensible(req[h]) /\ req[h] \in RequestsOf(used, clock)
  BY DEF TypeInv
<1>2. /\ req[h].op \in Ops /\ req[h].pc \in Pcs
      /\ req[h].tab \in (Tabs \cap used) \cup {Nobody} /\ req[h].dst \in (Tabs \cap used) \cup {Nobody}
      /\ req[h].pane \in (Leaves \cap used) \cup {Nobody}
      /\ req[h].new \in (Leaves \cap used) \cup {Nobody}
      /\ req[h].copy \in SUBSET (Leaves \cap used) /\ req[h].dstCopy \in SUBSET (Leaves \cap used)
      /\ req[h].first \in 0 .. clock /\ req[h].todo \in SUBSET (Leaves \cap used)
  BY <1>1, Fields
<1>3. Nobody \notin Tabs /\ Nobody \notin Leaves /\ Panes \subseteq Leaves /\ Widgets \subseteq Leaves
  BY IdsAssumption DEF Leaves
<1>4. req[h].first \in 0 .. clock + 1 /\ clock + 1 \in 0 .. clock + 1
  BY <1>1, <1>2
<1>. QED
  BY <1>1, <1>2, <1>3, <1>4

\* A store of a tab that is told at once.
LEMMA ToldTyped ==
    ASSUME TypeInv, NEW h \in Handlers, used' = used, sessions' \subseteq Panes \cap used,
           NEW t \in Tabs \cap used, NEW L \in SUBSET (Leaves \cap used), NEW basis, Store(t, L, basis),
           NEW pc \in Pcs, NEW k \in {"created", "updated", "closed"},
           SendThen(h, <<Note(k, t, L, clock + 1, clock + 1)>>, pc),
           req[h].op = "split" => req[h].new \in Panes,
           UNCHANGED <<ops, clientVars, saving, unread, draft, file, bootVars>>
    PROVE  TypeInv'
<1>1. StoreTypes /\ clock' = clock + 1 /\ slips' = slips \cup Slip(layouts[t] # basis, "stale")
  BY StoreFacts
<1>2. used \subseteq used' /\ used' \subseteq Leaves \cup Tabs /\ sessions' \subseteq Panes \cap used'
  BY DEF TypeInv
<1>3. clock + 1 \in 0 .. clock'
  BY <1>1 DEF TypeInv
<1>4. Note(k, t, L, clock + 1, clock + 1) \in NotesOfIds(used', clock')
  BY <1>3, NoteTyped
<1>5. slips' \subseteq slips \cup {"stale", "merged", "unannounced"}
  BY <1>1 DEF Slip
<1>. DEFINE m == Note(k, t, L, clock + 1, clock + 1)
<1>. HIDE DEF m
<1>6. <<m>> \in Seq(NotesOfIds(used', clock'))
  BY <1>4 DEF m
<1>. QED
  BY <1>1, <1>2, <1>5, <1>6, SentTyped DEF m

LEMMA TypePublish ==
    ASSUME TypeInv, NEW h \in Handlers, PublishTab(h)
    PROVE  TypeInv'
<1>. DEFINE r == req[h]
<1>1. r.op = "create" /\ r.tab \in Tabs \cap used /\ r.pane \in Panes \cap used
  BY AtStep DEF PublishTab, At, Sensible
<1>2. UNCHANGED <<sessions, used, ops, clientVars, saving, unread, draft, file, bootVars>>
  BY DEF PublishTab
<1>3. sessions' \subseteq Panes \cap used
  BY <1>2 DEF TypeInv
<1>4. CASE r.pane \in sessions
  <2>1. /\ Store(r.tab, {r.pane}, layouts[r.tab])
        /\ SendThen(h, <<Note("created", r.tab, {r.pane}, clock + 1, clock + 1)>>, "verify")
    BY <1>4, Zenon DEF PublishTab
  <2>2. {r.pane} \in SUBSET (Leaves \cap used) /\ "verify" \in Pcs
    BY <1>1 DEF Leaves, Pcs
  <2>. QED
    BY <1>1, <1>2, <1>3, <2>1, <2>2, ToldTyped
<1>5. CASE r.pane \notin sessions
  <2>1. req' = [req EXCEPT ![h] = Idle] /\ UNCHANGED <<layouts, clock, version, dirty, slips>>
    BY <1>5, Zenon DEF PublishTab
  <2>2. StoreTypes
    BY <1>2, <2>1, SameStores
  <2>. QED
    BY <1>2, <1>3, <2>1, <2>2, EndedTyped
<1>. QED
  BY <1>4, <1>5

LEMMA TypeVerify ==
    ASSUME TypeInv, NEW h \in Handlers, VerifyTab(h)
    PROVE  TypeInv'
<1>. DEFINE r == req[h]
<1>1. r.op = "create" /\ r.tab \in Tabs \cap used
  BY AtStep DEF VerifyTab, At, Sensible
<1>2. UNCHANGED <<layouts, sessions, used, ops, clientVars, fileVars, bootVars>>
  BY DEF VerifyTab
<1>3. UNCHANGED <<layouts, sessions, used, dirty, saving, unread, draft, file>>
  BY <1>2 DEF fileVars
<1>4. used' \subseteq Leaves \cup Tabs /\ sessions' \subseteq Panes \cap used'
  BY <1>3 DEF TypeInv
<1>5. layouts' \in LayoutsOf(used') /\ dirty' \in BOOLEAN
  BY <1>3 DEF TypeInv
<1>6. CASE r.pane \in sessions
  <2>1. /\ req' = [req EXCEPT ![h] = Idle] /\ UNCHANGED <<clock, version>>
        /\ slips' = slips \cup Slip(layouts[r.tab] = {}, "merged")
    BY <1>6, Zenon DEF VerifyTab
  <2>2. StoreTypes
    BY <1>3, <2>1, SameStores
  <2>3. slips' \subseteq slips \cup {"stale", "merged", "unannounced"}
    BY <2>1 DEF Slip
  <2>. QED
    BY <1>2, <1>3, <1>4, <2>1, <2>2, <2>3, EndedTyped
<1>7. CASE r.pane \notin sessions
  <2>. DEFINE m == Note("closed", r.tab, {}, clock + 1, clock + 1)
  <2>1. /\ Stamp({r.tab}) /\ SendThen(h, <<m>>, "end")
        /\ slips' = slips \cup Slip(layouts[r.tab] # {}, "stale")
    BY <1>7, Zenon DEF VerifyTab
  <2>2. clock' \in Nat /\ clock <= clock' /\ version' \in [Tabs -> 0 .. clock'] /\ clock' = clock + 1
    <3>1. {r.tab} # {}
      OBVIOUS
    <3>2. Stamp({r.tab})
      BY <2>1
    <3>. QED
      BY <3>1, <3>2, Stamping
  <2>3. StoreTypes
    BY <1>5, <2>2 DEF StoreTypes
  <2>4. clock + 1 \in 0 .. clock' /\ r.tab \in Tabs \cap used' /\ {} \in SUBSET (Leaves \cap used')
    BY <1>1, <1>3, <2>2
  <2>5. m \in NotesOfIds(used', clock')
    BY <2>4, NoteTyped
  <2>6. slips' \subseteq slips \cup {"stale", "merged", "unannounced"}
    BY <2>1 DEF Slip
  <2>. HIDE DEF m
  <2>7. <<m>> \in Seq(NotesOfIds(used', clock')) /\ "end" \in Pcs
    BY <2>5 DEF Pcs
  <2>8. r.op # "split"
    BY <1>1
  <2>. QED
    BY <1>2, <1>3, <1>4, <2>1, <2>3, <2>6, <2>7, <2>8, SentTyped
<1>. QED
  BY <1>6, <1>7

\* A tab that is stored for a request that has only to tell of it.
LEMMA TypeShown ==
    ASSUME TypeInv, NEW h \in Handlers, NEW p \in Leaves, NEW t \in Tabs, NEW op \in {"mirror", "plugin"},
           Start(h, [Idle EXCEPT !.op = op, !.pc = "end",
                                 !.out = <<Note("created", t, {p}, clock + 1, clock + 1)>>]),
           used' = used \cup {p, t}, Store(t, {p}, layouts[t]),
           UNCHANGED <<sessions, clientVars, saving, unread, draft, file, bootVars>>
    PROVE  TypeInv'
<1>. DEFINE m == Note("created", t, {p}, clock + 1, clock + 1)
            r == [Idle EXCEPT !.op = op, !.pc = "end", !.out = <<m>>]
<1>1. /\ used \subseteq used' /\ used' \subseteq Leaves \cup Tabs /\ sessions' \subseteq Panes \cap used'
      /\ t \in Tabs \cap used' /\ {p} \subseteq Leaves \cap used'
  BY DEF TypeInv
<1>2. StoreTypes /\ clock' = clock + 1 /\ slips' = slips \cup Slip(layouts[t] # layouts[t], "stale")
  BY <1>1, StoreFacts
<1>3. clock + 1 \in 0 .. clock' /\ 0 \in 0 .. clock'
  BY <1>2 DEF TypeInv
<1>4. m \in NotesOfIds(used', clock')
  BY <1>1, <1>3, NoteTyped
<1>5. ops' \in 0 .. MaxOps[followed] /\ req' = [req EXCEPT ![h] = r]
  BY OpsBound DEF Start
<1>6. slips' \subseteq slips \cup {"stale", "merged", "unannounced"}
  BY <1>2 DEF Slip
<1>. HIDE DEF m
<1>7. r \in RequestsOf(used', clock')
  <2>. DEFINE q == <<m>>
  <2>1. q \in Seq(NotesOfIds(used', clock')) /\ op \in Ops
    BY <1>4 DEF Ops
  <2>. HIDE DEF q
  <2>. QED
    BY <1>3, <2>1 DEF Idle, RequestsOf, Ops, Pcs, q
<1>8. Sensible(r)
  <2>1. r.op \in {"mirror", "plugin"} /\ r.pane = Nobody
    BY DEF Idle
  <2>. QED
    BY <2>1 DEF Sensible
<1>. HIDE DEF r
<1>. QED
  BY <1>1, <1>2, <1>5, <1>6, <1>7, <1>8, Typed

LEMMA TypeClientCreate ==
    ASSUME TypeInv, NEW h \in Handlers, ClientCreate(h) \/ CreatePluginTab(h)
    PROVE  TypeInv'
<1>1. CASE ClientCreate(h)
  <2>1. PICK p \in Fresh(Panes), t \in Fresh(Tabs) :
          /\ Start(h, [Idle EXCEPT !.op = "mirror", !.pc = "end",
                                   !.out = <<Note("created", t, {p}, clock + 1, clock + 1)>>])
          /\ used' = used \cup {p, t} /\ Store(t, {p}, layouts[t])
    BY <1>1, Zenon DEF ClientCreate
  <2>2. UNCHANGED <<sessions, clientVars, saving, unread, draft, file, bootVars>>
    BY <1>1 DEF ClientCreate
  <2>3. p \in Leaves /\ t \in Tabs
    BY DEF Fresh, Leaves
  <2>4. "mirror" \in {"mirror", "plugin"}
    OBVIOUS
  <2>. QED
    BY <2>1, <2>2, <2>3, <2>4, TypeShown
<1>2. CASE CreatePluginTab(h)
  <2>1. PICK p \in Fresh(Widgets), t \in Fresh(Tabs) :
          /\ Start(h, [Idle EXCEPT !.op = "plugin", !.pc = "end",
                                   !.out = <<Note("created", t, {p}, clock + 1, clock + 1)>>])
          /\ used' = used \cup {p, t} /\ Store(t, {p}, layouts[t])
    BY <1>2, Zenon DEF CreatePluginTab
  <2>2. UNCHANGED <<sessions, clientVars, saving, unread, draft, file, bootVars>>
    BY <1>2 DEF CreatePluginTab
  <2>3. p \in Leaves /\ t \in Tabs
    BY DEF Fresh, Leaves
  <2>4. "plugin" \in {"mirror", "plugin"}
    OBVIOUS
  <2>. QED
    BY <2>1, <2>2, <2>3, <2>4, TypeShown
<1>. QED
  BY <1>1, <1>2

LEMMA TypeSplit ==
    ASSUME TypeInv, NEW h \in Handlers, SpawnForSplit(h) \/ StoreSplit(h) \/ RecheckSplit(h) \/ StoreInsert(h)
    PROVE  TypeInv'
<1>1. CASE SpawnForSplit(h)
  <2>1. UNCHANGED <<layouts, clock, version, ops, clientVars, fileVars, bootVars, slips>>
        /\ req[h].op = "split" /\ req[h].pc = "spawn"
    BY <1>1 DEF SpawnForSplit, At
  <2>2. UNCHANGED <<layouts, clock, version, dirty, saving, unread, draft, file>>
    BY <2>1 DEF fileVars
  <2>3. CASE req' = [req EXCEPT ![h] = Idle] /\ UNCHANGED <<used, sessions>>
    <3>1. StoreTypes
      BY <2>2, <2>3, SameStores
    <3>2. sessions' \subseteq Panes \cap used
      BY <2>3 DEF TypeInv
    <3>. QED
      BY <2>1, <2>2, <2>3, <3>1, <3>2, EndedTyped
  <2>4. ASSUME NEW n \in Fresh(Panes), used' = used \cup {n}, sessions' = sessions \cup {n},
               req' = [req EXCEPT ![h].new = n, ![h].pc = "store"]
        PROVE  TypeInv'
    <3>. DEFINE r == [req[h] EXCEPT !.new = n, !.pc = "store"]
    <3>1. n \in Panes /\ n \in Leaves
      BY DEF Fresh, Leaves
    <3>2. /\ used \subseteq used' /\ used' \subseteq Leaves \cup Tabs /\ sessions' \subseteq Panes \cap used'
          /\ n \in Leaves \cap used'
      BY <2>4, <3>1 DEF TypeInv
    <3>3. StoreTypes
      BY <2>2, <3>2, SameStores
    <3>4. req[h] \in RequestsOf(used', clock') /\ Sensible(req[h]) /\ DOMAIN req = Handlers
      BY <3>2, <3>3, Locals DEF StoreTypes
    <3>5. req' = [req EXCEPT ![h] = r]
      BY <2>4
    <3>6. r \in RequestsOf(used', clock')
      BY <3>2, <3>4 DEF RequestsOf, Pcs
    <3>7. r.op = "split" /\ r.tab = req[h].tab /\ r.new = n
      BY <2>1, <3>4 DEF RequestsOf
    <3>8. Sensible(r)
      BY <2>1, <3>1, <3>4, <3>7 DEF Sensible
    <3>9. ops' \in 0 .. MaxOps[followed]
      BY <2>1 DEF TypeInv
    <3>. HIDE DEF r
    <3>. QED
      BY <2>1, <2>2, <3>2, <3>3, <3>5, <3>6, <3>8, <3>9, Typed
  <2>5. \/ req' = [req EXCEPT ![h] = Idle] /\ UNCHANGED <<used, sessions>>
        \/ \E n \in Fresh(Panes) : /\ used' = used \cup {n} /\ sessions' = sessions \cup {n}
                                   /\ req' = [req EXCEPT ![h].new = n, ![h].pc = "store"]
    BY <1>1, Zenon DEF SpawnForSplit
  <2>. QED
    BY <2>3, <2>4, <2>5
<1>2. CASE StoreSplit(h)
  <2>1. UNCHANGED <<sessions, used, ops, clientVars, saving, unread, draft, file, bootVars>>
    BY <1>2 DEF StoreSplit
  <2>2. /\ req[h].tab \in Tabs \cap used /\ WithNew(req[h]) \in SUBSET (Leaves \cap used)
        /\ req[h].new \in Panes /\ sessions' \subseteq Panes \cap used
    BY <1>2, <2>1, AtStep DEF StoreSplit, At, Sensible, WithNew
  <2>3. /\ Store(req[h].tab, WithNew(req[h]), req[h].copy)
        /\ SendThen(h, <<Note("updated", req[h].tab, WithNew(req[h]), clock + 1, clock + 1)>>, "recheck")
    BY <1>2, Zenon DEF StoreSplit
  <2>4. "recheck" \in Pcs
    BY DEF Pcs
  <2>. QED
    BY <2>1, <2>2, <2>3, <2>4, ToldTyped
<1>3. CASE RecheckSplit(h)
  <2>1. UNCHANGED <<sessions, used, ops, clientVars, saving, unread, draft, file, bootVars, slips>>
    BY <1>3 DEF RecheckSplit
  <2>2. req[h].new \in Panes /\ sessions' \subseteq Panes \cap used'
        /\ used \subseteq used' /\ used' \subseteq Leaves \cup Tabs
    BY <1>3, <2>1, AtStep DEF RecheckSplit, At, Sensible
  <2>. DEFINE p == req[h].new
  <2>3. CASE p \in sessions \/ Shown(p) = {}
    <3>1. req' = [req EXCEPT ![h] = Idle] /\ UNCHANGED <<layouts, clock, version, dirty>>
      BY <1>3, <2>3, Zenon DEF RecheckSplit
    <3>2. StoreTypes
      BY <2>1, <3>1, SameStores
    <3>3. slips' \subseteq slips \cup {"stale", "merged", "unannounced"} /\ sessions' \subseteq Panes \cap used
      BY <2>1, <2>2
    <3>. QED
      BY <2>1, <2>2, <3>1, <3>2, <3>3, EndedTyped
  <2>4. CASE ~(p \in sessions \/ Shown(p) = {})
    <3>1. Purge(p) /\ SendThen(h, NotesOf(p), "end")
      BY <1>3, <2>4, Zenon DEF RecheckSplit
    <3>2. StoreTypes /\ clock' = clock + 1
      BY <2>1, <2>4, <3>1, PurgeFacts
    <3>3. NotesOf(p) \in Seq(NotesOfIds(used', clock')) /\ "end" \in Pcs
      BY <2>1, <2>4, <3>2, NotesFacts DEF Pcs
    <3>4. slips' \subseteq slips \cup {"stale", "merged", "unannounced"}
      BY <2>1
    <3>. QED
      BY <2>1, <2>2, <3>1, <3>2, <3>3, <3>4, SentTyped
  <2>. QED
    BY <2>3, <2>4
<1>4. CASE StoreInsert(h)
  <2>1. UNCHANGED <<sessions, used, ops, clientVars, saving, unread, draft, file, bootVars>>
    BY <1>4 DEF StoreInsert
  <2>2. /\ req[h].tab \in Tabs \cap used /\ WithNew(req[h]) \in SUBSET (Leaves \cap used)
        /\ req[h].op # "split" /\ sessions' \subseteq Panes \cap used
    BY <1>4, <2>1, AtStep DEF StoreInsert, At, Sensible, WithNew
  <2>3. /\ Store(req[h].tab, WithNew(req[h]), req[h].copy)
        /\ SendThen(h, <<Note("updated", req[h].tab, WithNew(req[h]), clock + 1, clock + 1)>>, "end")
    BY <1>4, Zenon DEF StoreInsert
  <2>4. "end" \in Pcs
    BY DEF Pcs
  <2>. QED
    BY <2>1, <2>2, <2>3, <2>4, ToldTyped
<1>. QED
  BY <1>1, <1>2, <1>3, <1>4

\* The first half of a move or of an extraction.
LEMMA HalfTyped ==
    ASSUME TypeInv, NEW h \in Handlers, req[h].op \in {"move", "extract"}, StoreTypes,
           req' = [req EXCEPT ![h].pc = "dest", ![h].first = clock'],
           slips' \subseteq slips \cup {"stale", "merged", "unannounced"},
           UNCHANGED <<sessions, used, ops, clientVars, saving, unread, draft, file, bootVars>>
    PROVE  TypeInv'
<1>. DEFINE r == [req[h] EXCEPT !.pc = "dest", !.first = clock']
<1>1. /\ used \subseteq used' /\ used' \subseteq Leaves \cup Tabs /\ sessions' \subseteq Panes \cap used'
      /\ ops' \in 0 .. MaxOps[followed]
  BY DEF TypeInv
<1>2. req[h] \in RequestsOf(used', clock') /\ Sensible(req[h]) /\ DOMAIN req = Handlers
  BY <1>1, Locals DEF StoreTypes
<1>3. req' = [req EXCEPT ![h] = r]
  OBVIOUS
<1>4. clock' \in 0 .. clock'
  BY DEF StoreTypes
<1>5. r \in RequestsOf(used', clock')
  <2>1. "dest" \in Pcs
    BY DEF Pcs
  <2>. QED
    BY <1>2, <1>4, <2>1 DEF RequestsOf
<1>6. /\ r.op = req[h].op /\ r.tab = req[h].tab /\ r.dst = req[h].dst /\ r.pane = req[h].pane
      /\ r.new = req[h].new /\ r.copy = req[h].copy
  BY <1>2 DEF RequestsOf
<1>7. Sensible(r)
  BY <1>2, <1>6 DEF Sensible
<1>. HIDE DEF r
<1>. QED
  BY <1>1, <1>3, <1>5, <1>7, Typed

LEMMA TypeMove ==
    ASSUME TypeInv, NEW h \in Handlers, ReadTarget(h) \/ StoreSource(h) \/ StoreRest(h)
    PROVE  TypeInv'
<1>. DEFINE r == req[h]
<1>1. CASE ReadTarget(h)
  <2>1. UNCHANGED <<layouts, sessions, used, clock, version, ops, clientVars, dirty, saving, unread, draft,
                    file, bootVars, slips>> /\ r.op = "move"
    BY <1>1 DEF ReadTarget, serverVars, fileVars, At
  <2>2. /\ used \subseteq used' /\ used' \subseteq Leaves \cup Tabs /\ sessions' \subseteq Panes \cap used'
        /\ ops' \in 0 .. MaxOps[followed] /\ sessions' \subseteq Panes \cap used
    BY <2>1 DEF TypeInv
  <2>3. StoreTypes
    BY <2>1, <2>2, SameStores
  <2>4. CASE req' = [req EXCEPT ![h] = Idle]
    BY <2>1, <2>2, <2>3, <2>4, EndedTyped
  <2>5. CASE req' = [req EXCEPT ![h].dstCopy = layouts[r.dst], ![h].pc = "source"]
    <3>. DEFINE s == [r EXCEPT !.dstCopy = layouts[r.dst], !.pc = "source"]
    <3>1. r \in RequestsOf(used', clock') /\ Sensible(r) /\ DOMAIN req = Handlers /\ r.dst \in Tabs
      <4>1. r \in RequestsOf(used', clock') /\ Sensible(r) /\ DOMAIN req = Handlers
        BY <2>2, <2>3, Locals DEF StoreTypes
      <4>2. r.dst \in Tabs
        BY <2>1, <4>1, AtStep DEF Sensible
      <4>. QED
        BY <4>1, <4>2
    <3>2. req' = [req EXCEPT ![h] = s]
      BY <2>5
    <3>3. layouts[r.dst] \in SUBSET (Leaves \cap used')
      BY <2>1, <3>1 DEF TypeInv, LayoutsOf
    <3>4. s \in RequestsOf(used', clock')
      BY <3>1, <3>3 DEF RequestsOf, Pcs
    <3>5. s.op = r.op /\ s.tab = r.tab /\ s.dst = r.dst /\ s.pane = r.pane /\ s.new = r.new /\ s.copy = r.copy
      BY <3>1 DEF RequestsOf
    <3>6. Sensible(s)
      BY <2>1, <3>1, <3>5 DEF Sensible
    <3>7. slips' \subseteq slips \cup {"stale", "merged", "unannounced"}
      BY <2>1
    <3>. HIDE DEF s
    <3>. QED
      BY <2>1, <2>2, <2>3, <3>2, <3>4, <3>6, <3>7, Typed
  <2>. QED
    BY <1>1, <2>4, <2>5, Zenon DEF ReadTarget
<1>2. CASE StoreSource(h)
  <2>1. /\ UNCHANGED <<sessions, used, ops, clientVars, saving, unread, draft, file, bootVars>>
        /\ req' = [req EXCEPT ![h].pc = "dest", ![h].first = clock'] /\ r.op = "move"
    BY <1>2 DEF StoreSource, At
  <2>2. r.tab \in Tabs \cap used /\ Remains(r) \subseteq Leaves \cap used
    BY <2>1, AtStep DEF Sensible, Remains
  <2>3. StoreTypes /\ slips' = slips \cup Slip(layouts[r.tab] # r.copy, "stale")
    <3>1. CASE r.pane = Nobody
      <4>1. Remove(r.tab, r.copy)
        BY <1>2, <3>1, Zenon DEF StoreSource
      <4>. QED
        BY <2>1, <2>2, <4>1, RemoveFacts
    <3>2. CASE r.pane # Nobody
      <4>1. Store(r.tab, Remains(r), r.copy)
        BY <1>2, <3>2, Zenon DEF StoreSource
      <4>2. used \subseteq used' /\ r.tab \in Tabs \cap used' /\ Remains(r) \subseteq Leaves \cap used'
        BY <2>1, <2>2
      <4>. QED
        BY <4>1, <4>2, StoreFacts, Zenon
    <3>. QED
      BY <3>1, <3>2
  <2>4. slips' \subseteq slips \cup {"stale", "merged", "unannounced"}
    BY <2>3 DEF Slip
  <2>. QED
    BY <2>1, <2>3, <2>4, HalfTyped
<1>3. CASE StoreRest(h)
  <2>1. /\ UNCHANGED <<sessions, used, ops, clientVars, saving, unread, draft, file, bootVars>>
        /\ req' = [req EXCEPT ![h].pc = "dest", ![h].first = clock'] /\ r.op = "extract"
        /\ Store(r.tab, Remains(r), r.copy)
    BY <1>3 DEF StoreRest, At
  <2>2. r.tab \in Tabs \cap used /\ Remains(r) \subseteq Leaves \cap used
    BY <2>1, AtStep DEF Sensible, Remains
  <2>3. StoreTypes /\ slips' = slips \cup Slip(layouts[r.tab] # r.copy, "stale")
    <3>1. used \subseteq used' /\ r.tab \in Tabs \cap used' /\ Remains(r) \subseteq Leaves \cap used'
      BY <2>1, <2>2
    <3>2. Store(r.tab, Remains(r), r.copy)
      BY <2>1
    <3>. QED
      BY <3>1, <3>2, StoreFacts, Zenon
  <2>4. slips' \subseteq slips \cup {"stale", "merged", "unannounced"}
    BY <2>3 DEF Slip
  <2>. QED
    BY <2>1, <2>3, <2>4, HalfTyped
<1>. QED
  BY <1>1, <1>2, <1>3

LEMMA TypeDone ==
    ASSUME TypeInv, NEW h \in Handlers, StoreTarget(h) \/ StoreExtracted(h) \/ StoreActivated(h)
    PROVE  TypeInv'
<1>. DEFINE r == req[h]
<1>1. CASE StoreTarget(h)
  <2>. DEFINE L    == r.dstCopy \cup Moved(r)
              to   == Note("updated", r.dst, L, clock + 1, clock + 1)
              from == Note(IF r.pane = Nobody THEN "closed" ELSE "updated",
                           r.tab, Remains(r), r.first, clock + 1)
  <2>1. /\ UNCHANGED <<sessions, used, ops, clientVars, saving, unread, draft, file, bootVars>>
        /\ r.op = "move" /\ Store(r.dst, L, r.dstCopy)
        /\ SendThen(h, IF r.pane = Nobody THEN <<to, from>> ELSE <<from, to>>, "end")
    BY <1>1, Zenon DEF StoreTarget, At
  <2>2. r.tab \in Tabs \cap used' /\ r.dst \in Tabs \cap used'
    BY <2>1, AtStep DEF Sensible
  <2>3. L \subseteq Leaves \cap used' /\ Remains(r) \in SUBSET (Leaves \cap used')
    BY <2>1, AtStep DEF Moved, Remains
  <2>4. used \subseteq used' /\ Store(r.dst, L, r.dstCopy)
    BY <2>1
  <2>5. StoreTypes /\ clock' = clock + 1 /\ slips' = slips \cup Slip(layouts[r.dst] # r.dstCopy, "stale")
    <3>. HIDE DEF L
    <3>. QED
      BY <2>2, <2>3, <2>4, StoreFacts, Zenon
  <2>6. clock + 1 \in 0 .. clock' /\ r.first \in 0 .. clock'
    BY <2>5, AtStep
  <2>7. to \in NotesOfIds(used', clock') /\ from \in NotesOfIds(used', clock')
    <3>1. L \in SUBSET (Leaves \cap used')
      BY <2>3
    <3>2. to \in NotesOfIds(used', clock')
      BY <2>2, <2>6, <3>1, NoteTyped
    <3>3. CASE r.pane = Nobody
      BY <2>2, <2>3, <2>6, <3>3, NoteTyped
    <3>4. CASE r.pane # Nobody
      BY <2>2, <2>3, <2>6, <3>4, NoteTyped
    <3>. QED
      BY <3>2, <3>3, <3>4
  <2>. DEFINE q == IF r.pane = Nobody THEN <<to, from>> ELSE <<from, to>>
  <2>. HIDE DEF to, from
  <2>8. q \in Seq(NotesOfIds(used', clock')) /\ "end" \in Pcs
    BY <2>7 DEF Pcs
  <2>9. /\ used' \subseteq Leaves \cup Tabs /\ sessions' \subseteq Panes \cap used'
        /\ slips' \subseteq slips \cup {"stale", "merged", "unannounced"}
    BY <2>1, <2>5, AtStep DEF Slip
  <2>10. SendThen(h, q, "end")
    BY <2>1 DEF to, from
  <2>. HIDE DEF q
  <2>. QED
    BY <2>1, <2>4, <2>5, <2>8, <2>9, <2>10, SentTyped
<1>2. CASE StoreExtracted(h)
  <2>. DEFINE from == Note("updated", r.tab, Remains(r), r.first, clock + 1)
              to   == Note("created", r.dst, {r.pane}, clock + 1, clock + 1)
  <2>1. /\ UNCHANGED <<sessions, used, ops, clientVars, saving, unread, draft, file, bootVars>>
        /\ r.op = "extract" /\ Store(r.dst, {r.pane}, layouts[r.dst])
        /\ SendThen(h, <<from, to>>, "end")
    BY <1>2, Zenon DEF StoreExtracted, At
  <2>2. r.tab \in Tabs \cap used' /\ r.dst \in Tabs \cap used'
    BY <2>1, AtStep DEF Sensible
  <2>3. {r.pane} \subseteq Leaves \cap used' /\ Remains(r) \in SUBSET (Leaves \cap used')
    BY <2>1, AtStep DEF Remains, Sensible
  <2>4. used \subseteq used' /\ Store(r.dst, {r.pane}, layouts[r.dst])
    BY <2>1
  <2>5. StoreTypes /\ clock' = clock + 1 /\ slips' = slips \cup Slip(layouts[r.dst] # layouts[r.dst], "stale")
    BY <2>2, <2>3, <2>4, StoreFacts, Zenon
  <2>6. clock + 1 \in 0 .. clock' /\ r.first \in 0 .. clock'
    BY <2>5, AtStep
  <2>7. to \in NotesOfIds(used', clock') /\ from \in NotesOfIds(used', clock')
    BY <2>2, <2>3, <2>6, NoteTyped
  <2>. DEFINE q == <<from, to>>
  <2>. HIDE DEF to, from
  <2>8. q \in Seq(NotesOfIds(used', clock')) /\ "end" \in Pcs
    BY <2>7 DEF Pcs
  <2>9. /\ used' \subseteq Leaves \cup Tabs /\ sessions' \subseteq Panes \cap used'
        /\ slips' \subseteq slips \cup {"stale", "merged", "unannounced"}
    BY <2>1, <2>5, AtStep DEF Slip
  <2>10. SendThen(h, q, "end")
    BY <2>1 DEF to, from
  <2>. HIDE DEF q
  <2>. QED
    BY <2>1, <2>4, <2>5, <2>8, <2>9, <2>10, SentTyped
<1>3. CASE StoreActivated(h)
  <2>1. /\ UNCHANGED <<sessions, used, ops, clientVars, saving, unread, draft, file, bootVars>>
        /\ r.op = "activate" /\ req' = [req EXCEPT ![h] = Idle]
    BY <1>3 DEF StoreActivated, At
  <2>2. used \subseteq used' /\ Store(r.tab, r.copy, r.copy)
    BY <1>3, <2>1 DEF StoreActivated
  <2>3. r.tab \in Tabs \cap used' /\ r.copy \subseteq Leaves \cap used'
    BY <2>1, AtStep DEF Sensible
  <2>4. StoreTypes /\ slips' = slips \cup Slip(layouts[r.tab] # r.copy, "stale")
    BY <2>2, <2>3, StoreFacts, Zenon
  <2>5. /\ used' = used /\ sessions' \subseteq Panes \cap used
        /\ slips' \subseteq slips \cup {"stale", "merged", "unannounced"}
    BY <2>1, <2>4, AtStep DEF Slip
  <2>. QED
    BY <2>1, <2>4, <2>5, EndedTyped
<1>. QED
  BY <1>1, <1>2, <1>3

LEMMA TypeClose ==
    ASSUME TypeInv, NEW h \in Handlers, ClosePane(h) \/ CloseLeaf(h) \/ RemoveClosed(h)
    PROVE  TypeInv'
<1>. DEFINE r == req[h]
<1>0. /\ UNCHANGED <<used, clientVars, saving, unread, draft, file, bootVars>> /\ used \subseteq used'
      /\ used' \subseteq Leaves \cup Tabs
  BY AtStep DEF ClosePane, CloseLeaf, RemoveClosed
<1>1. CASE ClosePane(h)
  <2>1. PICK p : /\ ops < MaxOps[followed] /\ ops' = ops + 1 /\ sessions' = sessions \ {p} /\ Purge(p)
                 /\ req' = IF NotesOf(p) = <<>> THEN req
                           ELSE [req EXCEPT ![h] = [Idle EXCEPT !.op = "close", !.pc = "end",
                                                                !.out = NotesOf(p)]]
    BY <1>1, Zenon DEF ClosePane
  <2>2. /\ StoreTypes
        /\ Shown(p) # {} => clock' = clock + 1
        /\ Shown(p) = {} => clock' = clock
    BY <1>0, <2>1, PurgeFacts
  <2>3. NotesOf(p) \in Seq(NotesOfIds(used', clock'))
    BY <1>0, <2>2, NotesFacts
  <2>4. /\ sessions' \subseteq Panes \cap used' /\ ops' \in 0 .. MaxOps[followed]
        /\ slips' \subseteq slips \cup {"stale", "merged", "unannounced"}
    <3>1. slips' = slips
      BY <1>1 DEF ClosePane
    <3>. QED
      BY <1>0, <2>1, <3>1, OpsBound, AtStep
  <2>. DEFINE q == NotesOf(p)
              s == IF q = <<>> THEN r ELSE [Idle EXCEPT !.op = "close", !.pc = "end", !.out = q]
  <2>5. r \in RequestsOf(used', clock') /\ Sensible(r) /\ DOMAIN req = Handlers
        /\ Idle \in RequestsOf(used', clock')
    BY <1>0, <2>2, Locals DEF StoreTypes
  <2>6. req' = [req EXCEPT ![h] = s]
    <3>1. [req EXCEPT ![h] = r] = req
      BY DEF TypeInv
    <3>. QED
      BY <2>1, <3>1
  <2>. HIDE DEF q
  <2>7. CASE q = <<>>
    BY <1>0, <2>2, <2>4, <2>5, <2>6, <2>7, Typed
  <2>8. CASE q # <<>>
    <3>1. s = [Idle EXCEPT !.op = "close", !.pc = "end", !.out = q]
      BY <2>8
    <3>2. "close" \in Ops /\ "end" \in Pcs /\ q \in Seq(NotesOfIds(used', clock'))
      BY <2>3 DEF Ops, Pcs, q
    <3>3. s \in RequestsOf(used', clock')
      <4>. HIDE DEF Idle
      <4>. QED
        BY <2>5, <3>1, <3>2 DEF RequestsOf
    <3>4. s.op = "close" /\ s.pane = Nobody
      BY <3>1 DEF Idle
    <3>5. Sensible(s)
      BY <3>4 DEF Sensible
    <3>. HIDE DEF s
    <3>. QED
      BY <1>0, <2>2, <2>4, <2>6, <3>3, <3>5, Typed
  <2>. QED
    BY <2>7, <2>8
<1>2. CASE CloseLeaf(h)
  <2>0. /\ r.op \in {"closeRest", "closeSync"} /\ UNCHANGED <<ops, slips>>
    BY <1>2 DEF CloseLeaf, Closing, At
  <2>1. PICK p \in r.todo :
          \/ /\ req' = [req EXCEPT ![h].todo = @ \ {p}]
             /\ UNCHANGED <<sessions, layouts, clock, version, dirty>>
          \/ /\ sessions' = sessions \ {p}
             /\ Purge(p)
             /\ req' = [req EXCEPT ![h].todo = @ \ {p}, ![h].out = NotesOf(p)]
    BY <1>2, Zenon DEF CloseLeaf
  <2>2. /\ ops' \in 0 .. MaxOps[followed] /\ slips' \subseteq slips \cup {"stale", "merged", "unannounced"}
        /\ sessions' \subseteq Panes \cap used'
    BY <1>0, <2>0, <2>1 DEF TypeInv
  <2>3. CASE /\ req' = [req EXCEPT ![h].todo = @ \ {p}]
             /\ UNCHANGED <<sessions, layouts, clock, version, dirty>>
    <3>. DEFINE s == [r EXCEPT !.todo = @ \ {p}]
    <3>1. StoreTypes
      BY <1>0, <2>3, SameStores
    <3>2. r \in RequestsOf(used', clock') /\ Sensible(r) /\ DOMAIN req = Handlers
      BY <1>0, <3>1, Locals DEF StoreTypes
    <3>3. req' = [req EXCEPT ![h] = s]
      BY <2>3
    <3>4. s \in RequestsOf(used', clock')
      BY <3>2 DEF RequestsOf
    <3>5. s.op = r.op /\ s.tab = r.tab
      BY <3>2 DEF RequestsOf
    <3>6. Sensible(s)
      BY <2>0, <3>2, <3>5 DEF Sensible
    <3>. HIDE DEF s
    <3>. QED
      BY <1>0, <2>2, <3>1, <3>3, <3>4, <3>6, Typed
  <2>4. CASE /\ sessions' = sessions \ {p}
             /\ Purge(p)
             /\ req' = [req EXCEPT ![h].todo = @ \ {p}, ![h].out = NotesOf(p)]
    <3>. DEFINE q == NotesOf(p)
                s == [r EXCEPT !.todo = @ \ {p}, !.out = q]
    <3>1. /\ StoreTypes
          /\ Shown(p) # {} => clock' = clock + 1
          /\ Shown(p) = {} => clock' = clock
      BY <1>0, <2>4, PurgeFacts
    <3>2. q \in Seq(NotesOfIds(used', clock'))
      BY <1>0, <3>1, NotesFacts
    <3>3. r \in RequestsOf(used', clock') /\ Sensible(r) /\ DOMAIN req = Handlers
      BY <1>0, <3>1, Locals DEF StoreTypes
    <3>4. req' = [req EXCEPT ![h] = s]
      BY <2>4
    <3>. HIDE DEF q
    <3>5. s \in RequestsOf(used', clock')
      BY <3>2, <3>3 DEF RequestsOf
    <3>6. s.op = r.op /\ s.tab = r.tab
      BY <3>3 DEF RequestsOf
    <3>7. Sensible(s)
      BY <2>0, <3>3, <3>6 DEF Sensible
    <3>. HIDE DEF s
    <3>. QED
      BY <1>0, <2>2, <3>1, <3>4, <3>5, <3>7, Typed
  <2>. QED
    BY <2>1, <2>3, <2>4
<1>3. CASE RemoveClosed(h)
  <2>0. r.op \in {"closeRest", "closeSync"} /\ UNCHANGED <<ops, sessions, used>>
    BY <1>3 DEF RemoveClosed, Closing, At
  <2>1. r.tab \in Tabs \cap used /\ sessions' \subseteq Panes \cap used /\ sessions' \subseteq Panes \cap used'
    BY <2>0, AtStep DEF Sensible
  <2>2. /\ Remove(r.tab, layouts[r.tab] \ sessions)
        /\ IF layouts[r.tab] = {} THEN req' = [req EXCEPT ![h] = Idle]
           ELSE SendThen(h, <<Note("closed", r.tab, {}, clock + 1, clock + 1)>>, "end")
    BY <1>3, Zenon DEF RemoveClosed
  <2>3. /\ StoreTypes
        /\ layouts[r.tab] # {} => clock' = clock + 1
        /\ slips' = slips \cup Slip(layouts[r.tab] # (layouts[r.tab] \ sessions), "stale")
    BY <1>0, <2>1, <2>2, RemoveFacts
  <2>4. slips' \subseteq slips \cup {"stale", "merged", "unannounced"}
    BY <2>3 DEF Slip
  <2>5. CASE layouts[r.tab] = {}
    BY <1>0, <2>0, <2>1, <2>2, <2>3, <2>4, <2>5, EndedTyped
  <2>6. CASE layouts[r.tab] # {}
    <3>. DEFINE m == Note("closed", r.tab, {}, clock + 1, clock + 1)
    <3>1. clock + 1 \in 0 .. clock' /\ r.tab \in Tabs \cap used' /\ {} \in SUBSET (Leaves \cap used')
      BY <2>0, <2>1, <2>3, <2>6, AtStep
    <3>2. m \in NotesOfIds(used', clock')
      BY <3>1, NoteTyped
    <3>3. SendThen(h, <<m>>, "end")
      BY <2>2, <2>6
    <3>. HIDE DEF m
    <3>4. <<m>> \in Seq(NotesOfIds(used', clock')) /\ "end" \in Pcs
      BY <3>2 DEF Pcs
    <3>5. r.op # "split"
      BY <2>0
    <3>. QED
      BY <1>0, <2>0, <2>1, <2>3, <2>4, <3>3, <3>4, <3>5, SentTyped
  <2>. QED
    BY <2>5, <2>6
<1>. QED
  BY <1>1, <1>2, <1>3

LEMMA TypeBroadcast ==
    ASSUME TypeInv, NEW h \in Handlers, Broadcast(h)
    PROVE  TypeInv'
<1>. DEFINE r == req[h]
            m == Head(r.out)
            s == IF Len(r.out) = 1 /\ r.pc = "end" THEN Idle ELSE [r EXCEPT !.out = Tail(r.out)]
<1>1. UNCHANGED <<layouts, sessions, used, clock, version, ops, conn, replica, dirty, saving, unread, draft,
                  file, bootVars>>
  BY DEF Broadcast, serverVars, fileVars
<1>2. /\ r \in RequestsOf(used', clock') /\ Sensible(r) /\ DOMAIN req = Handlers
      /\ Idle \in RequestsOf(used', clock') /\ Sensible(Idle) /\ clock' = clock /\ used' = used
  BY <1>1, Locals DEF TypeInv
<1>3. r.out \in Seq(NotesOfIds(used, clock)) /\ r.out # <<>>
  BY <1>2 DEF RequestsOf, Broadcast
<1>4. m \in NotesOfIds(used, clock) /\ Tail(r.out) \in Seq(NotesOfIds(used, clock))
  BY <1>3
<1>5. m.tab \in Tabs /\ m.own \in 0 .. clock /\ m.last \in 0 .. clock /\ Heard(m) \in HeardOf(used)
  BY <1>4 DEF NotesOfIds, HeardOf, Heard
<1>. HIDE DEF m
<1>6. /\ queue' = IF conn = "away" THEN queue ELSE Append(queue, Heard(m))
      /\ told' = [told EXCEPT ![m.tab] = Later(told[m.tab], m.own)] /\ latest' = Later(latest, m.last)
  BY DEF Broadcast, m
<1>7. slips' \subseteq slips \cup {"reordered", "late"}
  BY Zenon DEF Broadcast, Slip
<1>8. req' = [req EXCEPT ![h] = s]
  BY DEF Broadcast
<1>9. s \in RequestsOf(used, clock) /\ Sensible(s)
  <2>1. CASE s = Idle
    BY <1>2, <2>1
  <2>2. CASE s = [r EXCEPT !.out = Tail(r.out)]
    <3>1. s \in RequestsOf(used, clock)
      BY <1>2, <1>4, <2>2 DEF RequestsOf
    <3>2. s.op = r.op /\ s.pc = r.pc /\ s.tab = r.tab /\ s.dst = r.dst /\ s.pane = r.pane /\ s.new = r.new
          /\ s.copy = r.copy
      BY <1>2, <2>2 DEF RequestsOf
    <3>3. Sensible(s)
      BY <1>2, <3>2 DEF Sensible
    <3>. QED
      BY <3>1, <3>3
  <2>. QED
    BY <2>1, <2>2
<1>. HIDE DEF s
<1>10. req' \in [Handlers -> RequestsOf(used', clock')] /\ \A k \in Handlers : Sensible(req'[k])
  BY <1>1, <1>8, <1>9 DEF TypeInv
<1>11. queue' \in Seq(HeardOf(used')) /\ told' \in [Tabs -> 0 .. clock'] /\ latest' \in 0 .. clock'
  <2>1. queue \in Seq(HeardOf(used)) /\ told \in [Tabs -> 0 .. clock] /\ latest \in 0 .. clock
    BY DEF TypeInv
  <2>2. Later(told[m.tab], m.own) \in 0 .. clock /\ Later(latest, m.last) \in 0 .. clock
    BY <1>5, <2>1 DEF Later
  <2>3. told' \in [Tabs -> 0 .. clock']
    BY <1>1, <1>5, <1>6, <2>1, <2>2
  <2>4. queue' \in Seq(HeardOf(used'))
    BY <1>1, <1>5, <1>6, <2>1
  <2>. QED
    BY <1>1, <1>6, <2>2, <2>3, <2>4
<1>12. slips' \subseteq {"stale", "reordered", "late", "merged", "overtaken", "unannounced", "unsaved", "early"}
  BY <1>7 DEF TypeInv
<1>13. \A k \in Handlers : Sensible(req[k])'
  BY <1>10 DEF Sensible, Moved
<1>. QED
  BY <1>1, <1>10, <1>11, <1>12, <1>13 DEF TypeInv, bootVars

\* Nothing but what the server stores, the client and the file changes.
LEMMA ServerTyped ==
    ASSUME TypeInv, used' = used, StoreTypes, sessions' \subseteq Panes \cap used, req' = req,
           ops' \in 0 .. MaxOps[followed], followed' = followed,
           {replica', draft', file'} \subseteq LayoutsOf(used),
           told' \in [Tabs -> 0 .. clock'], latest' \in 0 .. clock', queue' \in Seq(HeardOf(used)),
           conn' \in {"away", "registered", "listed"}, saving' \in {"idle", "reading"},
           unread' \subseteq Tabs, unrestored' \subseteq Tabs, boot' \in {"serving", "restoring"},
           spawned' \subseteq Panes, crashes' \in 0 .. MaxCrashes,
           slips' \subseteq {"stale", "reordered", "late", "merged", "overtaken", "unannounced", "unsaved", "early"}
    PROVE  TypeInv'
<1>1. clock \in Nat /\ clock' \in Nat /\ clock <= clock' /\ used \subseteq used'
  BY DEF TypeInv, StoreTypes
<1>2. RequestsOf(used, clock) \subseteq RequestsOf(used', clock')
  BY <1>1, MoreIds, Zenon
<1>3. req' \in [Handlers -> RequestsOf(used', clock')]
  BY <1>2 DEF TypeInv
<1>4. \A k \in Handlers : Sensible(req[k])'
  <2>1. \A k \in Handlers : Sensible(req[k])
    BY DEF TypeInv
  <2>2. ASSUME NEW k \in Handlers PROVE Sensible(req[k])'
    BY <2>1 DEF Sensible
  <2>. QED
    BY <2>2
<1>5. followed' \in {"client", "file"} /\ used' \subseteq Leaves \cup Tabs
  BY DEF TypeInv
<1>. QED
  BY <1>1, <1>3, <1>4, <1>5 DEF TypeInv, StoreTypes

LEMMA TypeOthers ==
    ASSUME TypeInv,
           \/ \E p \in Panes : ConnectTerminal(p)
           \/ ListTabs \/ Register \/ ReceiveList \/ Disconnect \/ Deliver
           \/ BeginSnapshot \/ ReadTab \/ EndSnapshot \/ Serve
    PROVE  TypeInv'
<1>0. /\ used \subseteq Leaves \cup Tabs /\ sessions \subseteq Panes \cap used
      /\ {layouts, replica, draft, file} \subseteq LayoutsOf(used)
      /\ clock \in Nat /\ {version, told} \subseteq [Tabs -> 0 .. clock] /\ latest \in 0 .. clock
      /\ queue \in Seq(HeardOf(used))
      /\ conn \in {"away", "registered", "listed"} /\ saving \in {"idle", "reading"}
      /\ unread \subseteq Tabs /\ unrestored \subseteq Tabs
      /\ boot \in {"serving", "restoring"} /\ spawned \subseteq Panes
      /\ ops \in 0 .. MaxOps[followed] /\ crashes \in 0 .. MaxCrashes
      /\ slips \subseteq {"stale", "reordered", "late", "merged", "overtaken", "unannounced",
                       "unsaved", "early"}
      /\ dirty \in BOOLEAN
  BY DEF TypeInv
<1>1. NoTabs \in LayoutsOf(used) /\ <<>> \in Seq(HeardOf(used))
  BY DEF NoTabs, LayoutsOf
<1>2. ASSUME NEW p \in Panes, ConnectTerminal(p)
      PROVE  TypeInv'
  <2>1. UNCHANGED <<layouts, used, clock, version, req, ops, clientVars, fileVars, bootVars, slips>>
        /\ sessions' = sessions \cup {p} /\ Shown(p) # {}
    BY <1>2 DEF ConnectTerminal
  <2>2. UNCHANGED <<layouts, clock, version, dirty>> /\ used \subseteq used'
    BY <2>1 DEF fileVars
  <2>3. StoreTypes
    BY <2>2, SameStores
  <2>4. sessions' \subseteq Panes \cap used
    BY <1>0, <2>1 DEF Shown, LayoutsOf
  <2>. QED
    BY <1>0, <2>1, <2>3, <2>4, ServerTyped DEF clientVars, fileVars, bootVars
<1>3. CASE ListTabs
  <2>1. UNCHANGED <<sessions, used, req, ops, clientVars, saving, unread, draft, file, bootVars>>
        /\ slips' = slips \cup {"unannounced"} /\ Prune /\ used \subseteq used'
    BY <1>3 DEF ListTabs
  <2>2. StoreTypes
    BY <2>1, PruneFacts
  <2>3. told' \in [Tabs -> 0 .. clock'] /\ latest' \in 0 .. clock'
    BY <1>0, <2>1, <2>2 DEF StoreTypes, clientVars
  <2>. QED
    BY <1>0, <2>1, <2>2, <2>3, ServerTyped DEF clientVars, bootVars
<1>4. CASE ReceiveList
  <2>1. UNCHANGED <<sessions, used, req, ops, queue, told, latest, saving, unread, draft, file, bootVars>>
        /\ slips' = slips \cup Slip(Stale # {}, "unannounced") \cup Slip(OnTheirWay, "overtaken") /\ Prune /\ used \subseteq used'
        /\ conn' = "listed" /\ replica' = layouts'
    BY <1>4 DEF ReceiveList
  <2>2. StoreTypes
    BY <2>1, PruneFacts
  <2>3. told' \in [Tabs -> 0 .. clock'] /\ latest' \in 0 .. clock' /\ replica' \in LayoutsOf(used)
    BY <1>0, <2>1, <2>2 DEF StoreTypes
  <2>4. slips' \subseteq {"stale", "reordered", "late", "merged", "overtaken", "unannounced", "unsaved", "early"}
    BY <1>0, <2>1 DEF Slip
  <2>. QED
    BY <1>0, <2>1, <2>2, <2>3, <2>4, ServerTyped DEF bootVars
<1>5. CASE Register \/ Disconnect
  <2>1. UNCHANGED <<serverVars, req, ops, told, latest, fileVars, bootVars, slips>>
        /\ conn' \in {"away", "registered"} /\ queue' \in {queue, <<>>} /\ replica' \in {replica, NoTabs}
    BY <1>5 DEF Register, Disconnect
  <2>2. UNCHANGED <<layouts, clock, version, dirty>> /\ used \subseteq used'
    BY <2>1 DEF fileVars, serverVars
  <2>3. StoreTypes
    BY <2>2, SameStores
  <2>. QED
    BY <1>0, <1>1, <2>1, <2>3, ServerTyped DEF serverVars, fileVars, bootVars
<1>6. CASE Deliver
  <2>. DEFINE m == Head(queue)
  <2>1. UNCHANGED <<serverVars, req, ops, conn, told, latest, fileVars, bootVars, slips>>
        /\ queue' = Tail(queue) /\ queue # <<>>
        /\ replica' = CASE m.kind = "updated" -> WithLayout(m)
                        [] m.kind = "created" -> WithTab(m)
                        [] m.kind = "closed"  -> [replica EXCEPT ![m.tab] = {}]
    BY <1>6, Zenon DEF Deliver
  <2>2. UNCHANGED <<layouts, clock, version, dirty>> /\ used \subseteq used'
    BY <2>1 DEF fileVars, serverVars
  <2>3. StoreTypes
    BY <2>2, SameStores
  <2>4. m \in HeardOf(used) /\ queue' \in Seq(HeardOf(used))
    BY <1>0, <2>1
  <2>. HIDE DEF m
  <2>5. m.kind \in {"created", "updated", "closed"} /\ m.tab \in Tabs \cap used
        /\ m.leaves \in SUBSET (Leaves \cap used)
    BY <2>4 DEF HeardOf
  <2>6. WithLayout(m) \in LayoutsOf(used)
    <3>. DEFINE own    == IF replica[m.tab] # {} THEN {m.tab}
                          ELSE {t \in Tabs : replica[t] \cap m.leaves # {}}
                target == CHOOSE t \in own : TRUE
    <3>1. CASE own = {}
      BY <1>0, <3>1, Zenon DEF WithLayout
    <3>2. CASE own # {}
      <4>1. target \in own
        BY <3>2
      <4>2. target \in Tabs \cap used
        BY <1>0, <2>5, <4>1 DEF LayoutsOf
      <4>3. WithLayout(m) = [t \in Tabs |-> IF t = target THEN m.leaves
                                            ELSE IF replica[t] \subseteq m.leaves THEN {}
                                            ELSE replica[t]]
        BY <3>2, Zenon DEF WithLayout
      <4>. HIDE DEF target
      <4>. QED
        <5>1. /\ replica \in [Tabs -> SUBSET (Leaves \cap used)]
              /\ \A t \in Tabs : replica[t] # {} => t \in used
          BY <1>0 DEF LayoutsOf
        <5>2. WithLayout(m) \in [Tabs -> SUBSET (Leaves \cap used)]
          BY <2>5, <4>3, <5>1
        <5>3. \A t \in Tabs : WithLayout(m)[t] # {} => t \in used
          BY <4>2, <4>3, <5>1
        <5>. QED
          BY <5>2, <5>3 DEF LayoutsOf
    <3>. QED
      BY <3>1, <3>2
  <2>7. WithTab(m) \in LayoutsOf(used)
    BY <1>0, <2>5 DEF WithTab, LayoutsOf
  <2>8. [replica EXCEPT ![m.tab] = {}] \in LayoutsOf(used)
    BY <1>0 DEF LayoutsOf
  <2>9. replica' \in LayoutsOf(used)
    BY <2>1, <2>5, <2>6, <2>7, <2>8
  <2>. QED
    BY <1>0, <2>1, <2>3, <2>4, <2>9, ServerTyped DEF serverVars, fileVars, bootVars
<1>7. CASE BeginSnapshot
  <2>1. UNCHANGED <<serverVars, req, ops, clientVars, file, bootVars, slips>>
        /\ dirty' = FALSE /\ saving' = "reading" /\ unread' = Present /\ draft' = NoTabs
    BY <1>7 DEF BeginSnapshot
  <2>2. StoreTypes
    <3>1. dirty' \in BOOLEAN
      BY <2>1, Zenon
    <3>. QED
      BY <1>0, <2>1, <3>1 DEF StoreTypes, serverVars
  <2>. QED
    BY <1>0, <1>1, <2>1, <2>2, ServerTyped DEF serverVars, clientVars, bootVars, Present
<1>8. CASE ReadTab
  <2>1. PICK t \in unread : draft' = [draft EXCEPT ![t] = layouts[t]] /\ unread' = unread \ {t}
    BY <1>8 DEF ReadTab
  <2>2. UNCHANGED <<serverVars, req, ops, clientVars, dirty, saving, file, bootVars, slips>>
    BY <1>8 DEF ReadTab
  <2>3. StoreTypes
    BY <1>0, <2>2 DEF StoreTypes, serverVars
  <2>4. draft' \in LayoutsOf(used)
    BY <1>0, <2>1 DEF LayoutsOf
  <2>. QED
    BY <1>0, <2>1, <2>2, <2>3, <2>4, ServerTyped DEF serverVars, clientVars, bootVars
<1>9. CASE EndSnapshot
  <2>1. UNCHANGED <<serverVars, req, ops, clientVars, dirty, unread, bootVars>>
        /\ saving' = "idle" /\ draft' = NoTabs /\ file' \in {draft, file} /\ slips' \subseteq slips \cup {"unsaved"}
    BY <1>9 DEF EndSnapshot, Write
  <2>2. StoreTypes
    BY <1>0, <2>1 DEF StoreTypes, serverVars
  <2>. QED
    BY <1>0, <1>1, <2>1, <2>2, ServerTyped DEF serverVars, clientVars, bootVars
<1>10. CASE Serve
  <2>1. UNCHANGED <<serverVars, req, ops, clientVars, fileVars, unrestored, spawned, crashes, followed, slips>>
        /\ boot' = "serving"
    BY <1>10 DEF Serve
  <2>2. StoreTypes
    BY <1>0, <2>1 DEF StoreTypes, serverVars, fileVars
  <2>. QED
    BY <1>0, <2>1, <2>2, ServerTyped DEF serverVars, clientVars, fileVars
<1>. QED
  BY <1>2, <1>3, <1>4, <1>5, <1>6, <1>7, <1>8, <1>9, <1>10

LEMMA TypeClientUpdates ==
    ASSUME TypeInv, NEW h \in Handlers, ClientUpdates(h)
    PROVE  TypeInv'
<1>1. PICK t \in {x \in Tabs : replica[x] # {}} :
        /\ layouts' = [layouts EXCEPT ![t] = replica[t]] /\ Stamp({t})
        /\ told' = [told EXCEPT ![t] = clock + 1] /\ latest' = clock + 1
        /\ dirty' = TRUE
        /\ slips' = slips \cup Slip(layouts[t] # replica[t], "stale")
                          \cup Slip(\E i \in DOMAIN queue : queue[i].tab = t, "reordered")
  BY Zenon DEF ClientUpdates
<1>2. /\ UNCHANGED <<sessions, used, req, conn, queue, replica, saving, unread, draft, file, bootVars>>
      /\ ops < MaxOps[followed] /\ ops' = ops + 1
  BY DEF ClientUpdates
<1>3. /\ {layouts, replica, draft, file} \subseteq LayoutsOf(used) /\ clock \in Nat
      /\ told \in [Tabs -> 0 .. clock] /\ sessions \subseteq Panes \cap used
  BY DEF TypeInv
<1>4. {t} # {} /\ clock' = clock + 1 /\ version' \in [Tabs -> 0 .. clock']
  BY <1>1, Stamping
<1>5. layouts' \in LayoutsOf(used')
  BY <1>1, <1>2, <1>3 DEF LayoutsOf
<1>6. dirty' \in BOOLEAN
  BY <1>1, Zenon
<1>7. StoreTypes
  BY <1>3, <1>4, <1>5, <1>6 DEF StoreTypes
<1>8. told' \in [Tabs -> 0 .. clock'] /\ latest' \in 0 .. clock'
  BY <1>1, <1>3, <1>4
<1>9. slips' \subseteq {"stale", "reordered", "late", "merged", "overtaken", "unannounced", "unsaved", "early"}
  <2>1. slips' \subseteq slips \cup {"stale", "reordered"}
    BY <1>1, Zenon DEF Slip
  <2>. QED
    BY <2>1 DEF TypeInv
<1>10. ops' \in 0 .. MaxOps[followed]
  BY <1>2, OpsBound
<1>11. /\ conn \in {"away", "registered", "listed"} /\ saving \in {"idle", "reading"}
       /\ unread \subseteq Tabs /\ unrestored \subseteq Tabs /\ queue \in Seq(HeardOf(used))
       /\ boot \in {"serving", "restoring"} /\ spawned \subseteq Panes /\ crashes \in 0 .. MaxCrashes
  BY DEF TypeInv
<1>. QED
  BY <1>2, <1>3, <1>7, <1>8, <1>9, <1>10, <1>11, ServerTyped DEF bootVars

LEMMA TypeRestart ==
    ASSUME TypeInv, Crash \/ RestorePane \/ RestoreTab \/ ShellEnds
    PROVE  TypeInv'
<1>0. /\ used \subseteq Leaves \cup Tabs /\ sessions \subseteq Panes \cap used
      /\ {layouts, replica, draft, file} \subseteq LayoutsOf(used)
      /\ clock \in Nat /\ {version, told} \subseteq [Tabs -> 0 .. clock] /\ latest \in 0 .. clock
      /\ queue \in Seq(HeardOf(used))
      /\ conn \in {"away", "registered", "listed"} /\ saving \in {"idle", "reading"}
      /\ unread \subseteq Tabs /\ unrestored \subseteq Tabs
      /\ boot \in {"serving", "restoring"} /\ spawned \subseteq Panes
      /\ ops \in 0 .. MaxOps[followed] /\ crashes \in 0 .. MaxCrashes
      /\ slips \subseteq {"stale", "reordered", "late", "merged", "overtaken", "unannounced",
                       "unsaved", "early"}
      /\ dirty \in BOOLEAN
  BY DEF TypeInv
<1>1. CASE Crash
  <2>1. NoTabs \in LayoutsOf(used) /\ <<>> \in Seq(HeardOf(used))
    BY DEF NoTabs, LayoutsOf
  <2>2. /\ crashes < MaxCrashes /\ crashes' = crashes + 1
        /\ layouts' = NoTabs /\ sessions' = {}
        /\ req' = [h \in Handlers |-> Idle]
        /\ conn' = "away" /\ queue' = <<>> /\ replica' = NoTabs
        /\ told' = version /\ latest' = clock
        /\ dirty' = FALSE /\ saving' = "idle" /\ unread' = {} /\ draft' = NoTabs
        /\ boot' = "restoring"
        /\ unrestored' = {t \in Tabs : file[t] # {}} /\ spawned' = {}
        /\ slips' = slips \cap {"unsaved"}
        /\ UNCHANGED <<used, clock, version, ops, file, followed>>
    BY <1>1 DEF Crash
  <2>3. req' \in [Handlers -> RequestsOf(used', clock')] /\ \A h \in Handlers : Sensible(req'[h])
    <3>1. Idle \in RequestsOf(used', clock') /\ Sensible(Idle)
      BY <1>0, <2>2 DEF Idle, RequestsOf, Sensible, Ops, Pcs
    <3>. HIDE DEF Idle
    <3>. QED
      BY <2>2, <3>1
  <2>4. \A h \in Handlers : Sensible(req[h])'
    BY <2>3 DEF Sensible
  <2>5. dirty' \in BOOLEAN
    BY <2>2, Zenon
  <2>6. crashes' \in 0 .. MaxCrashes /\ latest' \in 0 .. clock'
    BY <1>0, <2>2, BoundsAssumption
  <2>. QED
    BY <1>0, <2>1, <2>2, <2>3, <2>4, <2>5, <2>6 DEF TypeInv
<1>2. CASE RestorePane
  <2>1. UNCHANGED <<layouts, used, clock, version, req, ops, clientVars, fileVars, boot, crashes, followed, slips>>
    BY <1>2 DEF RestorePane
  <2>2. /\ sessions' \subseteq Panes \cap used /\ spawned' \subseteq Panes /\ unrestored' \subseteq Tabs
    <3>1. PICK p \in ToSpawn :
            \/ /\ sessions' = sessions \cup {p} /\ spawned' = spawned \cup {p} /\ UNCHANGED unrestored
            \/ /\ sessions' = sessions \ spawned
               /\ spawned' = {} /\ unrestored' = unrestored \ {Current}
      BY <1>2, Zenon DEF RestorePane
    <3>2. Current \in unrestored
      BY <1>2 DEF RestorePane, Current
    <3>3. p \in Panes \cap used
      <4>. HIDE DEF Current
      <4>. QED
        BY <1>0, <3>2 DEF ToSpawn, LayoutsOf
    <3>. QED
      BY <1>0, <3>1, <3>3
  <2>3. StoreTypes
    BY <1>0, <2>1 DEF StoreTypes, fileVars
  <2>. QED
    BY <1>0, <2>1, <2>2, <2>3, ServerTyped DEF clientVars, fileVars
<1>3. CASE RestoreTab
  <2>1. UNCHANGED <<sessions, used, req, ops, clientVars, saving, unread, draft, file, boot, crashes, followed>>
        /\ spawned' = {} /\ unrestored' = unrestored \ {Current}
    BY <1>3 DEF RestoreTab
  <2>2. Current \in unrestored
    BY <1>3 DEF RestoreTab, Current
  <2>. HIDE DEF Current
  <2>3. /\ layouts' = [layouts EXCEPT ![Current] = file[Current]] /\ Stamp({Current}) /\ dirty' = TRUE
        /\ slips' = slips \cup Slip(layouts[Current] # layouts[Current], "stale")
    BY <1>3 DEF RestoreTab, Store
  <2>4. layouts' \in LayoutsOf(used')
    BY <1>0, <2>1, <2>3 DEF LayoutsOf
  <2>5. dirty' \in BOOLEAN /\ slips' = slips
    BY <2>3, Zenon DEF Slip
  <2>6. clock' \in Nat /\ clock <= clock' /\ version' \in [Tabs -> 0 .. clock']
    BY <2>3, Stamping
  <2>7. StoreTypes
    BY <2>4, <2>5, <2>6 DEF StoreTypes
  <2>8. told' \in [Tabs -> 0 .. clock'] /\ latest' \in 0 .. clock'
    BY <1>0, <2>1, <2>6 DEF clientVars
  <2>. QED
    BY <1>0, <2>1, <2>5, <2>7, <2>8, ServerTyped DEF clientVars
<1>4. CASE ShellEnds
  <2>1. PICK p \in sessions :
          sessions' = sessions \ {p} /\ Purge(p) /\ slips' = slips \cup Slip(p \in spawned, "early")
    BY <1>4 DEF ShellEnds
  <2>2. UNCHANGED <<used, req, ops, clientVars, saving, unread, draft, file, bootVars>> /\ used \subseteq used'
    BY <1>4 DEF ShellEnds
  <2>3. StoreTypes
    BY <2>1, <2>2, PurgeFacts
  <2>4. told' \in [Tabs -> 0 .. clock'] /\ latest' \in 0 .. clock'
    BY <1>0, <2>2, <2>3 DEF StoreTypes, clientVars
  <2>5. slips' \subseteq {"stale", "reordered", "late", "merged", "overtaken", "unannounced", "unsaved", "early"}
    BY <1>0, <2>1 DEF Slip
  <2>. QED
    BY <1>0, <2>1, <2>2, <2>3, <2>4, <2>5, ServerTyped DEF clientVars, bootVars
<1>. QED
  BY <1>1, <1>2, <1>3, <1>4

LEMMA TypeInit ==
    ASSUME Init
    PROVE  TypeInv
<1>1. StartTabs \in [Tabs -> SUBSET Leaves] /\ Panes \subseteq Leaves
  BY IdsAssumption DEF Leaves
<1>2. /\ layouts = StartTabs /\ file = StartTabs /\ replica = NoTabs /\ draft = NoTabs
      /\ used = (UNION {StartTabs[t] : t \in Tabs}) \cup {t \in Tabs : StartTabs[t] # {}}
      /\ sessions = Panes \cap UNION {StartTabs[t] : t \in Tabs}
  BY DEF Init
<1>3. \A t \in Tabs : /\ StartTabs[t] \subseteq Leaves \cap used
                      /\ StartTabs[t] # {} => t \in used
  BY <1>1, <1>2
<1>4. used \subseteq Leaves \cup Tabs /\ sessions \subseteq Panes \cap used
  BY <1>1, <1>2
<1>5. NoTabs \in LayoutsOf(used)
  BY DEF NoTabs, LayoutsOf
<1>6. StartTabs \in LayoutsOf(used)
  BY <1>1, <1>3 DEF LayoutsOf
<1>7. /\ clock = 0 /\ version = [t \in Tabs |-> 0] /\ told = [t \in Tabs |-> 0] /\ latest = 0
      /\ followed \in {"client", "file"} /\ ops = 0 /\ crashes = 0
      /\ conn = "away" /\ queue = <<>> /\ saving = "idle" /\ unread = {} /\ boot = "serving"
      /\ unrestored = {} /\ spawned = {} /\ slips = {} /\ req = [h \in Handlers |-> Idle]
  BY DEF Init
<1>8. dirty \in BOOLEAN
  BY Zenon DEF Init
<1>9. ops \in 0 .. MaxOps[followed] /\ crashes \in 0 .. MaxCrashes /\ 0 \in 0 .. clock
  BY <1>7, BoundsAssumption
<1>10. Idle \in RequestsOf(used, clock) /\ Sensible(Idle)
  BY <1>9 DEF Idle, RequestsOf, Sensible, Ops, Pcs
<1>11. req \in [Handlers -> RequestsOf(used, clock)] /\ \A h \in Handlers : Sensible(req[h])
  <2>. HIDE DEF Idle
  <2>. QED
    BY <1>7, <1>10
<1>. QED
  BY <1>2, <1>4, <1>5, <1>6, <1>7, <1>8, <1>9, <1>11 DEF TypeInv

LEMMA TypeStays ==
    ASSUME TypeInv, UNCHANGED vars
    PROVE  TypeInv'
BY DEF TypeInv, vars, serverVars, clientVars, fileVars, bootVars, Sensible, Moved

LEMMA TypeStep ==
    ASSUME TypeInv, [Next]_vars
    PROVE  TypeInv'
<1>1. ASSUME NEW h \in Handlers, Broadcast(h) PROVE TypeInv'
  BY <1>1, TypeBroadcast
<1>2. ASSUME NEW h \in Handlers,
             \/ BeginCreate(h) \/ BeginSplit(h) \/ BeginInsert(h) \/ BeginMove(h) \/ BeginExtract(h)
             \/ BeginActivate(h) \/ BeginCloseTab(h)
      PROVE  TypeInv'
  BY <1>2, TypeBegin
<1>3. ASSUME NEW h \in Handlers, PublishTab(h) \/ VerifyTab(h) \/ ClientCreate(h) \/ CreatePluginTab(h)
      PROVE  TypeInv'
  BY <1>3, TypePublish, TypeVerify, TypeClientCreate
<1>4. ASSUME NEW h \in Handlers, SpawnForSplit(h) \/ StoreSplit(h) \/ RecheckSplit(h) \/ StoreInsert(h)
      PROVE  TypeInv'
  BY <1>4, TypeSplit
<1>5. ASSUME NEW h \in Handlers, ReadTarget(h) \/ StoreSource(h) \/ StoreRest(h)
      PROVE  TypeInv'
  BY <1>5, TypeMove
<1>6. ASSUME NEW h \in Handlers, StoreTarget(h) \/ StoreExtracted(h) \/ StoreActivated(h)
      PROVE  TypeInv'
  BY <1>6, TypeDone
<1>7. ASSUME NEW h \in Handlers, ClosePane(h) \/ CloseLeaf(h) \/ RemoveClosed(h)
      PROVE  TypeInv'
  BY <1>7, TypeClose
<1>8. ASSUME NEW h \in Handlers, ClientUpdates(h) PROVE TypeInv'
  BY <1>8, TypeClientUpdates
<1>9. ASSUME \/ \E p \in Panes : ConnectTerminal(p)
             \/ ListTabs \/ Register \/ ReceiveList \/ Disconnect \/ Deliver
             \/ BeginSnapshot \/ ReadTab \/ EndSnapshot \/ Serve
      PROVE  TypeInv'
  BY <1>9, TypeOthers
<1>10. ASSUME Crash \/ RestorePane \/ RestoreTab \/ ShellEnds
       PROVE  TypeInv'
  BY <1>10, TypeRestart
<1>11. ASSUME UNCHANGED vars PROVE TypeInv'
  BY <1>11, TypeStays
<1>. QED
  BY <1>1, <1>2, <1>3, <1>4, <1>5, <1>6, <1>7, <1>8, <1>9, <1>10, <1>11, Zenon DEF Next

-----------------------------------------------------------------------------
(* The restart and the file.                                               *)

\* The steps of a request: those that leave the layouts alone, those that store a tab,
\* and those that take leaves or tabs away.
Reading(h) ==
    \/ Broadcast(h) \/ BeginCreate(h) \/ VerifyTab(h) \/ BeginInsert(h) \/ BeginSplit(h)
    \/ SpawnForSplit(h) \/ BeginMove(h) \/ ReadTarget(h) \/ BeginExtract(h) \/ BeginActivate(h)
    \/ BeginCloseTab(h)
Storing(h) ==
    \/ PublishTab(h) \/ ClientCreate(h) \/ CreatePluginTab(h) \/ StoreInsert(h) \/ StoreSplit(h)
    \/ StoreTarget(h) \/ StoreRest(h) \/ StoreExtracted(h) \/ StoreActivated(h) \/ ClientUpdates(h)
Taking(h) ==
    \/ RecheckSplit(h) \/ StoreSource(h) \/ ClosePane(h) \/ CloseLeaf(h) \/ RemoveClosed(h)

\* A request is served by a server that serves, and whatever it changes is signalled.
Signalled ==
    /\ boot = "serving" /\ UNCHANGED <<bootVars, saving, unread, draft, file>>
    /\ dirty' = TRUE \/ UNCHANGED <<layouts, dirty>>
    /\ slips \subseteq slips'

LEMMA BusyServes ==
    ASSUME TypeInv, BootInv, NEW h \in Handlers, req[h] # Idle \/ req[h].op # "none" \/ req[h].out # <<>>
    PROVE  boot = "serving"
<1>1. req[h] # Idle
  BY DEF Idle
<1>. QED
  BY <1>1 DEF BootInv, TypeInv

LEMMA ReadingSignals ==
    ASSUME TypeInv, BootInv, NEW h \in Handlers, Reading(h)
    PROVE  Signalled
<1>1. UNCHANGED <<layouts, dirty, saving, unread, draft, file, bootVars>>
  BY DEF Reading, Broadcast, BeginCreate, VerifyTab, BeginInsert, BeginSplit, SpawnForSplit, BeginMove,
         ReadTarget, BeginExtract, BeginActivate, BeginCloseTab, serverVars, fileVars
<1>2. slips \subseteq slips'
  BY DEF Reading, Broadcast, BeginCreate, VerifyTab, BeginInsert, BeginSplit, SpawnForSplit, BeginMove,
         ReadTarget, BeginExtract, BeginActivate, BeginCloseTab
<1>3. boot = "serving"
  BY BusyServes DEF Reading, Broadcast, BeginCreate, VerifyTab, BeginInsert, BeginSplit, SpawnForSplit, BeginMove,
         ReadTarget, BeginExtract, BeginActivate, BeginCloseTab, Start, At
<1>. QED
  BY <1>1, <1>2, <1>3 DEF Signalled

LEMMA StoringSignals ==
    ASSUME TypeInv, BootInv, NEW h \in Handlers, Storing(h)
    PROVE  Signalled
<1>1. UNCHANGED <<saving, unread, draft, file, bootVars>>
  BY DEF Storing, PublishTab, ClientCreate, CreatePluginTab, StoreInsert, StoreSplit, StoreTarget, StoreRest,
         StoreExtracted, StoreActivated, ClientUpdates
<1>2. /\ dirty' = TRUE \/ UNCHANGED <<layouts, dirty>>
      /\ slips \subseteq slips'
  BY DEF Storing, PublishTab, ClientCreate, CreatePluginTab, StoreInsert, StoreSplit, StoreTarget, StoreRest,
         StoreExtracted, StoreActivated, ClientUpdates, Store
<1>3. boot = "serving"
  BY BusyServes DEF Storing, PublishTab, ClientCreate, CreatePluginTab, StoreInsert, StoreSplit, StoreTarget,
         StoreRest, StoreExtracted, StoreActivated, ClientUpdates, Start, At
<1>. QED
  BY <1>1, <1>2, <1>3 DEF Signalled

LEMMA TakingSignals ==
    ASSUME TypeInv, BootInv, NEW h \in Handlers, Taking(h)
    PROVE  Signalled
<1>1. UNCHANGED <<saving, unread, draft, file, bootVars>> /\ used \subseteq used'
  BY DEF Taking, RecheckSplit, StoreSource, ClosePane, CloseLeaf, RemoveClosed
<1>2. boot = "serving"
  BY BusyServes DEF Taking, RecheckSplit, StoreSource, ClosePane, CloseLeaf, RemoveClosed, At, Closing
<1>3. slips \subseteq slips'
  BY DEF Taking, RecheckSplit, StoreSource, ClosePane, CloseLeaf, RemoveClosed, Store, Remove
<1>4. ASSUME NEW p, Purge(p)
      PROVE  dirty' = TRUE \/ UNCHANGED <<layouts, dirty>>
  BY <1>1, <1>4, PurgeFacts
<1>5. ASSUME NEW t \in Tabs, NEW basis, Remove(t, basis)
      PROVE  dirty' = TRUE \/ UNCHANGED <<layouts, dirty>>
  BY <1>1, <1>5, RemoveFacts
<1>6. dirty' = TRUE \/ UNCHANGED <<layouts, dirty>>
  <2>1. CASE RecheckSplit(h)
    BY <1>4, <2>1, Zenon DEF RecheckSplit
  <2>2. CASE StoreSource(h)
    <3>1. req[h].tab \in Tabs
      BY <2>2, AtStep DEF StoreSource, At, Sensible
    <3>2. Remove(req[h].tab, req[h].copy) \/ Store(req[h].tab, Remains(req[h]), req[h].copy)
      BY <2>2, Zenon DEF StoreSource
    <3>. QED
      BY <1>5, <3>1, <3>2, Zenon DEF Store
  <2>3. CASE ClosePane(h)
    BY <1>4, <2>3, Zenon DEF ClosePane
  <2>4. CASE CloseLeaf(h)
    <3>1. UNCHANGED <<layouts, dirty>> \/ \E p : Purge(p)
      BY <2>4, Zenon DEF CloseLeaf
    <3>. QED
      BY <1>4, <3>1, Zenon
  <2>5. CASE RemoveClosed(h)
    <3>1. req[h].tab \in Tabs
      BY <2>5, AtStep DEF RemoveClosed, Closing, At, Sensible
    <3>2. Remove(req[h].tab, layouts[req[h].tab] \ sessions)
      BY <2>5, Zenon DEF RemoveClosed
    <3>. QED
      BY <1>5, <3>1, <3>2, Zenon
  <2>. QED
    BY <2>1, <2>2, <2>3, <2>4, <2>5 DEF Taking
<1>. QED
  BY <1>1, <1>2, <1>3, <1>6 DEF Signalled

\* What is signalled keeps the restart and the file as they are.
LEMMA SignalledKeeps ==
    ASSUME TypeInv, BootInv, FileInv, Signalled
    PROVE  BootInv' /\ FileInv'
<1>1. BootInv'
  BY DEF BootInv, Signalled, bootVars
<1>2. CASE dirty' = TRUE
  BY <1>1, <1>2 DEF FileInv
<1>3. CASE UNCHANGED <<layouts, dirty>>
  BY <1>1, <1>3 DEF FileInv, Signalled, bootVars
<1>. QED
  BY <1>2, <1>3, <1>1 DEF Signalled

\* The other steps of a server that serves.
LEMMA OthersSignalled ==
    ASSUME TypeInv, BootInv,
           \/ \E p \in Panes : ConnectTerminal(p)
           \/ ListTabs \/ Register \/ ReceiveList \/ Disconnect \/ Deliver
    PROVE  Signalled
<1>1. UNCHANGED <<bootVars, saving, unread, draft, file>> /\ slips \subseteq slips'
  BY DEF ConnectTerminal, ListTabs, Register, ReceiveList, Disconnect, Deliver, fileVars
<1>2. boot = "serving"
  <2>1. boot = "serving" \/ conn # "away"
    BY DEF ConnectTerminal, ListTabs, Register, ReceiveList, Disconnect, Deliver
  <2>. QED
    BY <2>1 DEF BootInv, TypeInv
<1>3. dirty' = TRUE \/ UNCHANGED <<layouts, dirty>>
  <2>1. UNCHANGED <<layouts, dirty>> \/ (Prune /\ used' = used)
    BY DEF ConnectTerminal, ListTabs, Register, ReceiveList, Disconnect, Deliver, serverVars, fileVars
  <2>2. Prune /\ used' = used => dirty' = TRUE \/ UNCHANGED <<layouts, dirty>>
    BY PruneFacts
  <2>. QED
    BY <2>1, <2>2
<1>. QED
  BY <1>1, <1>2, <1>3 DEF Signalled

\* The snapshot task.
LEMMA SnapshotKeeps ==
    ASSUME TypeInv, BootInv, FileInv, BeginSnapshot \/ ReadTab \/ EndSnapshot
    PROVE  BootInv' /\ FileInv'
<1>0. {layouts, draft, file} \subseteq LayoutsOf(used) /\ boot \in {"serving", "restoring"}
  BY DEF TypeInv
<1>1. UNCHANGED <<serverVars, req, conn, bootVars>>
  BY DEF BeginSnapshot, ReadTab, EndSnapshot, clientVars
<1>2. boot = "serving"
  BY <1>0 DEF BootInv, BeginSnapshot, ReadTab, EndSnapshot
<1>3. BootInv'
  BY <1>1, <1>2 DEF BootInv, bootVars
<1>4. CASE BeginSnapshot
  <2>1. saving' = "reading" /\ unread' = Present /\ draft' = NoTabs
    BY <1>4 DEF BeginSnapshot
  <2>2. \A t \in Tabs \ unread' : draft'[t] = layouts'[t]
    BY <1>1, <2>1 DEF serverVars, Present, NoTabs
  <2>. QED
    BY <1>1, <1>2, <1>3, <2>1, <2>2 DEF FileInv, bootVars
<1>5. CASE ReadTab
  <2>1. PICK t \in unread : draft' = [draft EXCEPT ![t] = layouts[t]] /\ unread' = unread \ {t}
    BY <1>5 DEF ReadTab
  <2>2. saving = "reading" /\ UNCHANGED <<dirty, saving>>
    BY <1>5 DEF ReadTab
  <2>3. ASSUME ~dirty, NEW u \in Tabs \ unread'
        PROVE  draft'[u] = layouts'[u]
    <3>1. layouts' = layouts /\ draft \in [Tabs -> SUBSET (Leaves \cap used)]
      BY <1>0, <1>1 DEF serverVars, LayoutsOf
    <3>2. CASE u = t
      BY <2>1, <3>1, <3>2
    <3>3. CASE u # t
      BY <2>1, <2>2, <2>3, <3>1, <3>3 DEF FileInv
    <3>. QED
      BY <3>2, <3>3
  <2>. QED
    BY <1>1, <1>2, <1>3, <2>2, <2>3 DEF FileInv, bootVars
<1>6. CASE EndSnapshot
  <2>1. PICK saved \in BOOLEAN : Write(saved)
    BY <1>6, Zenon DEF EndSnapshot
  <2>2. saving = "reading" /\ unread = {} /\ saving' = "idle" /\ dirty' = dirty
    BY <1>6 DEF EndSnapshot
  <2>3. ~dirty => draft = layouts
    <3>1. ~dirty => \A t \in Tabs : draft[t] = layouts[t]
      BY <2>2 DEF FileInv
    <3>2. draft = [t \in Tabs |-> draft[t]] /\ layouts = [t \in Tabs |-> layouts[t]]
      BY <1>0 DEF LayoutsOf
    <3>. QED
      BY <3>1, <3>2
  <2>4. file' = draft \/ "unsaved" \in slips'
    BY <2>1 DEF Write
  <2>. QED
    BY <1>1, <1>2, <1>3, <2>2, <2>3, <2>4 DEF FileInv, bootVars, serverVars
<1>. QED
  BY <1>4, <1>5, <1>6

LEMMA RestartKeeps ==
    ASSUME TypeInv, BootInv, FileInv, Crash \/ RestorePane \/ RestoreTab \/ ShellEnds \/ Serve
    PROVE  BootInv' /\ FileInv'
<1>0. crashes \in Nat
  BY BoundsAssumption DEF TypeInv
<1>1. CASE Crash
  <2>1. /\ crashes' = crashes + 1 /\ layouts' = NoTabs /\ req' = [h \in Handlers |-> Idle]
        /\ conn' = "away" /\ saving' = "idle" /\ boot' = "restoring" /\ spawned' = {}
        /\ followed = "file" /\ followed' = followed /\ slips' = slips \cap {"unsaved"}
    BY <1>1 DEF Crash
  <2>2. BootInv'
    <3>. HIDE DEF Idle
    <3>. QED
      BY <2>1 DEF BootInv
  <2>3. FileInv'
    BY <1>0, <2>1 DEF FileInv
  <2>. QED
    BY <2>2, <2>3
<1>2. CASE RestorePane
  <2>1. UNCHANGED <<layouts, req, conn, saving, dirty, unread, draft, file, boot, crashes, followed, slips>>
        /\ boot = "restoring" /\ unrestored # {}
    BY <1>2 DEF RestorePane, clientVars, fileVars
  <2>2. unrestored' = unrestored \/ spawned' = {}
    BY <1>2 DEF RestorePane
  <2>3. BootInv'
    BY <2>1, <2>2 DEF BootInv
  <2>4. FileInv'
    BY <2>1 DEF FileInv
  <2>. QED
    BY <2>3, <2>4
<1>3. CASE RestoreTab
  <2>1. UNCHANGED <<req, conn, saving, boot, followed>> /\ boot = "restoring" /\ spawned' = {}
        /\ dirty' = TRUE /\ slips' = slips \cup Slip(layouts[Current] # layouts[Current], "stale")
    BY <1>3 DEF RestoreTab, clientVars, Store
  <2>2. slips' = slips
    BY <2>1 DEF Slip
  <2>3. BootInv'
    BY <2>1, <2>2 DEF BootInv
  <2>4. FileInv'
    BY <2>1 DEF FileInv
  <2>. QED
    BY <2>3, <2>4
<1>4. CASE ShellEnds
  <2>1. UNCHANGED <<used, req, conn, saving, unread, draft, file, bootVars>> /\ boot = "restoring"
        /\ slips' \subseteq slips \cup {"early"} /\ slips \subseteq slips'
    BY <1>4 DEF ShellEnds, clientVars, Slip
  <2>2. dirty' = TRUE \/ UNCHANGED <<layouts, dirty>>
    <3>1. \E p : Purge(p)
      BY <1>4, Zenon DEF ShellEnds
    <3>. QED
      BY <2>1, <3>1, PurgeFacts
  <2>3. BootInv'
    BY <2>1 DEF BootInv, bootVars
  <2>4. FileInv'
    BY <2>1, <2>2 DEF FileInv, bootVars
  <2>. QED
    BY <2>3, <2>4
<1>5. CASE Serve
  <2>1. UNCHANGED <<layouts, dirty, saving, unread, draft, file, crashes, spawned, slips>>
        /\ boot = "restoring" /\ boot' = "serving" /\ unrestored = {}
    BY <1>5 DEF Serve, serverVars, fileVars
  <2>2. BootInv'
    BY <2>1 DEF BootInv
  <2>3. FileInv'
    BY <2>1 DEF FileInv, BootInv
  <2>. QED
    BY <2>2, <2>3
<1>. QED
  BY <1>1, <1>2, <1>3, <1>4, <1>5

LEMMA FileStep ==
    ASSUME TypeInv, BootInv, FileInv, [Next]_vars
    PROVE  BootInv' /\ FileInv'
<1>1. ASSUME NEW h \in Handlers, Reading(h) \/ Storing(h) \/ Taking(h)
      PROVE  BootInv' /\ FileInv'
  BY <1>1, ReadingSignals, StoringSignals, TakingSignals, SignalledKeeps
<1>2. ASSUME \/ \E p \in Panes : ConnectTerminal(p)
             \/ ListTabs \/ Register \/ ReceiveList \/ Disconnect \/ Deliver
      PROVE  BootInv' /\ FileInv'
  BY <1>2, OthersSignalled, SignalledKeeps
<1>3. ASSUME BeginSnapshot \/ ReadTab \/ EndSnapshot PROVE BootInv' /\ FileInv'
  BY <1>3, SnapshotKeeps
<1>4. ASSUME Crash \/ RestorePane \/ RestoreTab \/ ShellEnds \/ Serve PROVE BootInv' /\ FileInv'
  BY <1>4, RestartKeeps
<1>5. ASSUME UNCHANGED vars PROVE BootInv' /\ FileInv'
  BY <1>5 DEF BootInv, FileInv, vars, serverVars, clientVars, fileVars, bootVars
<1>. QED
  BY <1>1, <1>2, <1>3, <1>4, <1>5, Zenon DEF Next, Reading, Storing, Taking

-----------------------------------------------------------------------------
(* The places of the terminal leaves.                                      *)

\* A leaf that is nowhere but in the tab t, and in the hands of nobody but h.
FreeFor(h, t, p) ==
    /\ Shown(p) \subseteq {t}
    /\ \A k \in Handlers \ {h} : ~Holds(req[k], p)
\* The tabs that a request names are no tab whose id another one has just taken.
Unreserved(h, t) == \A k \in Handlers \ {h} : ~Reserves(req[k], t)

\* Terminal leaves have one place, and only leaves have.
LEMMA PlacedFacts ==
    ASSUME TypeInv
    PROVE  /\ Panes \subseteq Placed /\ Placed \subseteq Leaves /\ sessions \subseteq Placed
           /\ followed' = followed => Placed' = Placed
           /\ followed = "file" => Placed = Panes
BY DEF TypeInv, Placed, Leaves

\* A step of request h that leaves it with the locals s, and stores at most the tab t; what
\* it takes from the others has no session any more.
LEMMA Place ==
    ASSUME TypeInv, PlaceInv, NEW h \in Handlers, NEW s, req' = [req EXCEPT ![h] = s], NEW t,
           \A u \in Tabs : u # t =>
               layouts'[u] \subseteq layouts[u] /\ layouts[u] \cap sessions' \subseteq layouts'[u],
           t \in Tabs => \A p \in Placed : p \in layouts'[t] => FreeFor(h, t, p),
           t \in Tabs /\ layouts'[t] # {} => Unreserved(h, t),
           \A p \in Placed : Holds(s, p) => FreeFor(h, t, p) /\ (t \in Tabs => p \notin layouts'[t]),
           \A p \in sessions' : \/ Holds(s, p)
                                \/ t \in Tabs /\ p \in layouts'[t]
                                \/ /\ p \in sessions /\ ~Holds(req[h], p)
                                   /\ t \in Tabs => p \notin layouts[t],
           UNCHANGED <<spawned, followed>>,
           \A u \in Tabs : u \in {s.tab, s.dst} => Unreserved(h, u),
           \A u \in Tabs : Reserves(s, u) =>
               layouts'[u] = {} /\ \A k \in Handlers \ {h} : u \notin {req[k].tab, req[k].dst}
    PROVE  PlaceInv'
<1>0. Placed' = Placed
  BY DEF Placed
<1>1. \A k \in Handlers : req'[k] = IF k = h THEN s ELSE req[k]
  BY DEF TypeInv
<1>2. ASSUME NEW p \in Placed, NEW u \in Tabs, NEW v \in Tabs, p \in layouts'[u] \cap layouts'[v]
      PROVE  u = v
  <2>1. CASE u = t
    BY <1>2, <2>1 DEF FreeFor, Shown
  <2>2. CASE v = t
    BY <1>2, <2>2 DEF FreeFor, Shown
  <2>3. CASE u # t /\ v # t
    BY <1>2, <2>3 DEF PlaceInv
  <2>. QED
    BY <2>1, <2>2, <2>3
<1>3. ASSUME NEW p \in Placed, NEW k \in Handlers, Holds(req'[k], p), NEW u \in Tabs
      PROVE  p \notin layouts'[u]
  <2>1. CASE k = h
    <3>1. Holds(s, p)
      BY <1>1, <1>3, <2>1
    <3>. QED
      BY <3>1 DEF FreeFor, Shown
  <2>2. CASE k # h
    <3>1. Holds(req[k], p)
      BY <1>1, <1>3, <2>2
    <3>2. p \notin layouts[u]
      BY <3>1 DEF PlaceInv, Shown
    <3>. QED
      BY <2>2, <3>1, <3>2 DEF FreeFor
  <2>. QED
    BY <2>1, <2>2
<1>4. ASSUME NEW p \in Placed, NEW k \in Handlers, NEW l \in Handlers, Holds(req'[k], p), Holds(req'[l], p)
      PROVE  k = l
  <2>1. CASE k # h /\ l # h
    BY <1>1, <1>4, <2>1 DEF PlaceInv
  <2>2. CASE k = h /\ l # h
    <3>1. Holds(s, p) /\ Holds(req[l], p)
      BY <1>1, <1>4, <2>2
    <3>. QED
      BY <2>2, <3>1 DEF FreeFor
  <2>3. CASE k # h /\ l = h
    <3>1. Holds(s, p) /\ Holds(req[k], p)
      BY <1>1, <1>4, <2>3
    <3>. QED
      BY <2>3, <3>1 DEF FreeFor
  <2>. QED
    BY <2>1, <2>2, <2>3
<1>5. ASSUME NEW p \in sessions'
      PROVE  \/ \E u \in Tabs : p \in layouts'[u]
             \/ p \in spawned'
             \/ \E k \in Handlers : Holds(req'[k], p)
  <2>1. CASE Holds(s, p)
    BY <1>1, <2>1
  <2>2. CASE t \in Tabs /\ p \in layouts'[t]
    BY <2>2
  <2>3. CASE p \in sessions /\ ~Holds(req[h], p) /\ (t \in Tabs => p \notin layouts[t])
    <3>1. \/ Shown(p) # {} \/ p \in spawned \/ \E k \in Handlers : Holds(req[k], p)
      BY <2>3 DEF PlaceInv
    <3>2. CASE Shown(p) # {}
      BY <1>5, <2>3, <3>2 DEF Shown
    <3>3. CASE \E k \in Handlers : Holds(req[k], p)
      <4>1. PICK k \in Handlers : Holds(req[k], p)
        BY <3>3
      <4>2. k # h
        BY <2>3, <4>1
      <4>. QED
        BY <1>1, <4>1, <4>2
    <3>. QED
      BY <3>1, <3>2, <3>3
  <2>. QED
    BY <1>5, <2>1, <2>2, <2>3
<1>6. ASSUME NEW u \in Tabs, NEW k \in Handlers, Reserves(req'[k], u)
      PROVE  /\ layouts'[u] = {}
             /\ \A l \in Handlers \ {k} : u \notin {req'[l].tab, req'[l].dst}
  <2>1. CASE k = h
    <3>1. Reserves(s, u)
      BY <1>1, <1>6, <2>1
    <3>. QED
      BY <1>1, <2>1, <3>1
  <2>2. CASE k # h
    <3>1. Reserves(req[k], u)
      BY <1>1, <1>6, <2>2
    <3>2. layouts[u] = {} /\ \A l \in Handlers \ {k} : u \notin {req[l].tab, req[l].dst}
      BY <3>1 DEF PlaceInv
    <3>3. ~Unreserved(h, u)
      BY <2>2, <3>1 DEF Unreserved
    <3>4. layouts'[u] = {}
      BY <3>2, <3>3
    <3>5. u \notin {s.tab, s.dst}
      BY <3>3
    <3>. QED
      BY <1>1, <2>2, <3>2, <3>4, <3>5
  <2>. QED
    BY <2>1, <2>2
<1>7. \A p \in Placed : \A k \in Handlers : (Holds(req[k], p) => Shown(p) = {})'
  BY <1>3 DEF Shown, Holds, Moved
<1>. QED
  BY <1>0, <1>2, <1>4, <1>5, <1>6, <1>7 DEF PlaceInv, Shown, Holds, Moved, Reserves

\* Leaves of the tab itself, leaves in hand and leaves never handed out are free; the tabs
\* a request names, tabs with leaves and tabs never handed out are not reserved.
LEMMA FreeFacts ==
    ASSUME TypeInv, PlaceInv, NEW h \in Handlers
    PROVE  /\ \A t \in Tabs : \A p \in Placed \cap layouts[t] : FreeFor(h, t, p)
           /\ \A t : \A p \in Placed : Holds(req[h], p) => FreeFor(h, t, p)
           /\ \A t : \A p \in Placed \ used : FreeFor(h, t, p)
           /\ \A t \in Tabs : t \in {req[h].tab, req[h].dst} => Unreserved(h, t)
           /\ \A t \in Tabs : layouts[t] # {} => Unreserved(h, t)
           /\ \A t \in Tabs \ used : /\ Unreserved(h, t) /\ layouts[t] = {}
                                     /\ \A k \in Handlers : t \notin {req[k].tab, req[k].dst}
           /\ \A t \in Tabs : Reserves(req[h], t) =>
                layouts[t] = {} /\ \A k \in Handlers \ {h} : t \notin {req[k].tab, req[k].dst}
           /\ ~\E t \in Tabs : t = Nobody
<1>1. /\ layouts \in LayoutsOf(used) /\ sessions \subseteq used
      /\ \A k \in Handlers : req[k] \in RequestsOf(used, clock)
  BY DEF TypeInv
<1>2. Nobody \notin Tabs /\ Nobody \notin Leaves /\ Placed \subseteq Leaves
  BY PlacedFacts, IdsAssumption DEF Leaves
<1>3. ASSUME NEW t \in Tabs, NEW p \in Placed \cap layouts[t] PROVE FreeFor(h, t, p)
  BY <1>3 DEF PlaceInv, FreeFor, Shown
<1>4. ASSUME NEW t, NEW p \in Placed, Holds(req[h], p) PROVE FreeFor(h, t, p)
  BY <1>4 DEF PlaceInv, FreeFor
<1>5. ASSUME NEW k \in Handlers, NEW p \in Placed, Holds(req[k], p) PROVE p \in used
  <2>1. /\ req[k].pane \in (Leaves \cap used) \cup {Nobody} /\ req[k].new \in (Leaves \cap used) \cup {Nobody}
        /\ req[k].copy \in SUBSET (Leaves \cap used)
    BY <1>1, Fields
  <2>2. p # Nobody
    BY <1>2
  <2>. QED
    BY <1>5, <2>1, <2>2 DEF Holds, Moved
<1>6. ASSUME NEW t, NEW p \in Placed \ used PROVE FreeFor(h, t, p)
  <2>1. Shown(p) = {}
    BY <1>1 DEF Shown, LayoutsOf
  <2>. QED
    BY <1>5, <2>1 DEF FreeFor
<1>7. ASSUME NEW t \in Tabs, t \in {req[h].tab, req[h].dst} PROVE Unreserved(h, t)
  BY <1>7 DEF PlaceInv, Unreserved
<1>8. ASSUME NEW t \in Tabs, layouts[t] # {} PROVE Unreserved(h, t)
  BY <1>8 DEF PlaceInv, Unreserved
<1>9. ASSUME NEW t \in Tabs \ used, NEW k \in Handlers PROVE t \notin {req[k].tab, req[k].dst}
  <2>1. req[k].tab \in (Tabs \cap used) \cup {Nobody} /\ req[k].dst \in (Tabs \cap used) \cup {Nobody}
    BY <1>1, Fields
  <2>. QED
    BY <1>2, <2>1
<1>10. ASSUME NEW t \in Tabs \ used PROVE Unreserved(h, t) /\ layouts[t] = {}
  <2>1. layouts[t] = {}
    BY <1>1 DEF LayoutsOf
  <2>2. \A k \in Handlers : ~Reserves(req[k], t)
    BY <1>9 DEF Reserves
  <2>. QED
    BY <2>1, <2>2 DEF Unreserved
<1>11. ASSUME NEW t \in Tabs, Reserves(req[h], t)
       PROVE  layouts[t] = {} /\ \A k \in Handlers \ {h} : t \notin {req[k].tab, req[k].dst}
  BY <1>11 DEF PlaceInv
<1>. QED
  BY <1>2, <1>3, <1>4, <1>6, <1>7, <1>8, <1>9, <1>10, <1>11

\* A step that leaves the layouts alone.
LEMMA Hands ==
    ASSUME TypeInv, PlaceInv, NEW h \in Handlers, NEW s, req' = [req EXCEPT ![h] = s],
           layouts' = layouts, UNCHANGED <<spawned, followed>>,
           \A p \in Placed : Holds(s, p) => Holds(req[h], p) \/ p \notin used,
           \A p \in sessions' : Holds(s, p) \/ (p \in sessions /\ ~Holds(req[h], p)),
           \A u \in Tabs : u \in {s.tab, s.dst} => Unreserved(h, u),
           \A u \in Tabs : Reserves(s, u) => Reserves(req[h], u) \/ u \notin used
    PROVE  PlaceInv'
<1>. DEFINE t == Nobody
<1>1. t \notin Tabs
  BY FreeFacts
<1>2. \A p \in Placed : Holds(s, p) => FreeFor(h, t, p)
  BY FreeFacts
<1>3. \A u \in Tabs : Reserves(s, u) =>
        layouts'[u] = {} /\ \A k \in Handlers \ {h} : u \notin {req[k].tab, req[k].dst}
  BY FreeFacts
<1>. HIDE DEF t
<1>. QED
  BY <1>1, <1>2, <1>3, Place

\* A step that stores one tab, of leaves that were there, in hand, or never handed out.
LEMMA Stores ==
    ASSUME TypeInv, PlaceInv, NEW h \in Handlers, NEW s, req' = [req EXCEPT ![h] = s],
           NEW t \in Tabs, NEW L, layouts' = [layouts EXCEPT ![t] = L],
           UNCHANGED <<sessions, spawned, followed>>, Unreserved(h, t),
           \A p \in Placed \cap L : p \in layouts[t] \/ Holds(req[h], p) \/ p \notin used,
           \A p \in Placed : Holds(s, p) => p \notin L /\ (p \in layouts[t] \/ Holds(req[h], p)),
           \A p \in sessions : p \in layouts[t] \/ Holds(req[h], p) => p \in L \/ Holds(s, p),
           \A u \in Tabs : u \in {s.tab, s.dst} => Unreserved(h, u),
           \A u \in Tabs : Reserves(s, u) => Reserves(req[h], u) /\ u # t
    PROVE  PlaceInv'
<1>1. layouts'[t] = L /\ \A u \in Tabs : u # t => layouts'[u] = layouts[u]
  BY DEF TypeInv, LayoutsOf
<1>2. \A p \in Placed : p \in layouts'[t] => FreeFor(h, t, p)
  BY <1>1, FreeFacts
<1>3. \A p \in Placed : Holds(s, p) => FreeFor(h, t, p) /\ p \notin layouts'[t]
  BY <1>1, FreeFacts
<1>4. \A u \in Tabs : Reserves(s, u) =>
        layouts'[u] = {} /\ \A k \in Handlers \ {h} : u \notin {req[k].tab, req[k].dst}
  BY <1>1, FreeFacts
<1>5. \A u \in Tabs : u # t =>
        layouts'[u] \subseteq layouts[u] /\ layouts[u] \cap sessions' \subseteq layouts'[u]
  BY <1>1
<1>6. \A p \in sessions' : \/ Holds(s, p)
                           \/ t \in Tabs /\ p \in layouts'[t]
                           \/ /\ p \in sessions /\ ~Holds(req[h], p)
                              /\ t \in Tabs => p \notin layouts[t]
  BY <1>1
<1>7. UNCHANGED <<spawned, followed>>
  OBVIOUS
<1>. QED
  BY <1>2, <1>3, <1>4, <1>5, <1>6, <1>7, Place, Zenon

\* A step that purges a leaf that has no session afterwards, by a request with nothing in hand.
LEMMA Purges ==
    ASSUME TypeInv, PlaceInv, NEW h \in Handlers, NEW s, req' = [req EXCEPT ![h] = s],
           NEW p, \A u \in Tabs : layouts'[u] = layouts[u] \ {p}, sessions' = sessions \ {p}, UNCHANGED <<spawned, followed>>,
           \A q \in Placed : ~Holds(req[h], q) /\ ~Holds(s, q),
           \A u \in Tabs : u \in {s.tab, s.dst} => Unreserved(h, u),
           \A u \in Tabs : ~Reserves(s, u)
    PROVE  PlaceInv'
<1>. DEFINE t == Nobody
<1>1. t \notin Tabs
  BY FreeFacts
<1>2. sessions \subseteq Placed
  BY PlacedFacts DEF TypeInv
<1>. HIDE DEF t
<1>. QED
  BY <1>1, <1>2, Place

\* What a request has in hand and what it reserves depends on where it is.
LEMMA EmptyHands ==
    ASSUME NEW r,
           \/ r.op \notin {"create", "split", "insert", "extract", "move"}
           \/ r.pc \notin {"publish", "store", "source", "dest"}
           \/ r.op = "move" /\ r.pc = "source"
    PROVE  /\ \A p \in Placed : ~Holds(r, p)
           /\ \A t \in Tabs : ~Reserves(r, t)
BY DEF Holds, Reserves

LEMMA IdleHands ==
    ASSUME TypeInv
    PROVE  /\ \A p \in Placed : ~Holds(Idle, p)
           /\ \A t \in Tabs : ~Reserves(Idle, t) /\ t \notin {Idle.tab, Idle.dst}
<1>1. Idle.op = "none" /\ Idle.tab = Nobody /\ Idle.dst = Nobody
  BY DEF Idle
<1>2. Nobody \notin Tabs
  BY IdsAssumption
<1>. QED
  BY <1>1, <1>2, EmptyHands

\* A request that has something to tell keeps its other locals.
LEMMA SentLocals ==
    ASSUME TypeInv, NEW h \in Handlers, NEW notes, NEW pc, SendThen(h, notes, pc)
    PROVE  \E s : /\ req' = [req EXCEPT ![h] = s] /\ s.pc = pc /\ s.op = req[h].op /\ s.tab = req[h].tab
                  /\ s.dst = req[h].dst /\ s.pane = req[h].pane /\ s.new = req[h].new /\ s.copy = req[h].copy
<1>. DEFINE s == [req[h] EXCEPT !.out = notes, !.pc = pc]
<1>1. req' = [req EXCEPT ![h] = s]
  BY DEF SendThen
<1>2. req[h] \in RequestsOf(used, clock)
  BY DEF TypeInv
<1>3. /\ s.pc = pc /\ s.op = req[h].op /\ s.tab = req[h].tab
      /\ s.dst = req[h].dst /\ s.pane = req[h].pane /\ s.new = req[h].new /\ s.copy = req[h].copy
  BY <1>2 DEF RequestsOf
<1>. HIDE DEF s
<1>. QED
  BY <1>1, <1>3

\* A request that ends with empty hands changes no place.
LEMMA PlaceEnd ==
    ASSUME TypeInv, PlaceInv, NEW h \in Handlers, req' = [req EXCEPT ![h] = Idle],
           UNCHANGED <<layouts, sessions, spawned, followed>>, \A p \in sessions : ~Holds(req[h], p)
    PROVE  PlaceInv'
<1>1. /\ \A p \in Placed : ~Holds(Idle, p)
      /\ \A t \in Tabs : ~Reserves(Idle, t) /\ t \notin {Idle.tab, Idle.dst}
  BY IdleHands
<1>. HIDE DEF Idle
<1>. QED
  BY <1>1, Hands

LEMMA PlaceBegin ==
    ASSUME TypeInv, PlaceInv, NEW h \in Handlers,
           \/ BeginSplit(h) \/ BeginInsert(h) \/ BeginMove(h) \/ BeginActivate(h) \/ BeginCloseTab(h)
           \/ BeginCreate(h) \/ BeginExtract(h)
    PROVE  PlaceInv'
<1>1. UNCHANGED <<layouts, spawned, followed>> /\ req[h] = Idle
  BY DEF BeginSplit, BeginInsert, BeginMove, BeginActivate, BeginCloseTab, BeginCreate, BeginExtract,
         serverVars, bootVars, Start
<1>2. sessions \subseteq Placed /\ Nobody \notin Tabs
  BY PlacedFacts, IdsAssumption DEF TypeInv
<1>3. /\ \A p \in Placed : ~Holds(req[h], p)
      /\ \A t \in Tabs : ~Reserves(req[h], t)
  BY <1>1, IdleHands, Zenon
<1>4. ASSUME NEW s, NEW t \in Present, NEW d \in Present \cup (Tabs \ used) \cup {Nobody},
             req' = [req EXCEPT ![h] = s], sessions' = sessions,
             s.tab = t, s.dst = d, s.op # "create", s.pc # "dest", s.op = "split" => s.pc = "spawn",
             s.op = "extract" => d \notin used, s.op # "insert"
      PROVE  PlaceInv'
  <2>1. \A p \in Placed : ~Holds(s, p)
    BY <1>4 DEF Holds
  <2>2. \A u \in Tabs : Reserves(s, u) => u \notin used
    BY <1>4 DEF Reserves
  <2>3. \A u \in Tabs : u \in {s.tab, s.dst} => Unreserved(h, u)
    BY <1>2, <1>4, FreeFacts DEF Present
  <2>. QED
    BY <1>1, <1>2, <1>3, <1>4, <2>1, <2>2, <2>3, Hands
<1>5. CASE BeginSplit(h)
  <2>1. PICK t \in Present :
          Start(h, [Idle EXCEPT !.op = "split", !.pc = "spawn", !.tab = t, !.copy = layouts[t]])
    BY <1>5 DEF BeginSplit
  <2>. DEFINE s == [Idle EXCEPT !.op = "split", !.pc = "spawn", !.tab = t, !.copy = layouts[t]]
  <2>2. s.op = "split" /\ s.pc = "spawn" /\ s.tab = t /\ s.dst = Nobody
    BY DEF Idle
  <2>3. req' = [req EXCEPT ![h] = s] /\ sessions' = sessions
    BY <1>5, <2>1 DEF Start, BeginSplit, serverVars
  <2>. HIDE DEF s
  <2>. QED
    BY <1>4, <2>2, <2>3
<1>6. CASE BeginInsert(h)
  <2>1. PICK t \in Present, w \in Fresh(Widgets) :
          Start(h, [Idle EXCEPT !.op = "insert", !.pc = "store", !.tab = t, !.copy = layouts[t], !.new = w])
    BY <1>6 DEF BeginInsert
  <2>. DEFINE s == [Idle EXCEPT !.op = "insert", !.pc = "store", !.tab = t, !.copy = layouts[t], !.new = w]
  <2>2. s.op = "insert" /\ s.pc = "store" /\ s.tab = t /\ s.dst = Nobody /\ s.new = w
    BY DEF Idle
  <2>3. req' = [req EXCEPT ![h] = s] /\ sessions' = sessions /\ w \notin used /\ t \in Present
    BY <1>6, <2>1 DEF Start, BeginInsert, Fresh
  <2>. HIDE DEF s
  <2>4. \A p \in Placed : Holds(s, p) => p = w
    BY <2>2 DEF Holds
  <2>5. \A u \in Tabs : ~Reserves(s, u)
    BY <2>2 DEF Reserves
  <2>6. \A u \in Tabs : u \in {s.tab, s.dst} => Unreserved(h, u)
    BY <1>2, <2>2, <2>3, FreeFacts DEF Present
  <2>7. \A p \in sessions' : p \in sessions /\ ~Holds(req[h], p)
    BY <1>2, <1>3, <2>3
  <2>. QED
    BY <1>1, <2>3, <2>4, <2>5, <2>6, <2>7, Hands
<1>7. CASE BeginMove(h)
  <2>1. PICK t, d, p :
          /\ t \in Present /\ d \in Present
          /\ Start(h, [Idle EXCEPT !.op = "move", !.pc = "target", !.tab = t,
                                   !.dst = d, !.pane = p, !.copy = layouts[t]])
    BY <1>7, Zenon DEF BeginMove
  <2>. DEFINE s == [Idle EXCEPT !.op = "move", !.pc = "target", !.tab = t,
                                !.dst = d, !.pane = p, !.copy = layouts[t]]
  <2>2. s.op = "move" /\ s.pc = "target" /\ s.tab = t /\ s.dst = d
    BY DEF Idle
  <2>3. req' = [req EXCEPT ![h] = s] /\ sessions' = sessions
    BY <1>7, <2>1 DEF Start, BeginMove, serverVars
  <2>. HIDE DEF s
  <2>. QED
    BY <1>4, <2>1, <2>2, <2>3
<1>8. CASE BeginActivate(h)
  <2>1. PICK t \in Present :
          Start(h, [Idle EXCEPT !.op = "activate", !.pc = "store", !.tab = t, !.copy = layouts[t]])
    BY <1>8 DEF BeginActivate
  <2>. DEFINE s == [Idle EXCEPT !.op = "activate", !.pc = "store", !.tab = t, !.copy = layouts[t]]
  <2>2. s.op = "activate" /\ s.pc = "store" /\ s.tab = t /\ s.dst = Nobody
    BY DEF Idle
  <2>3. req' = [req EXCEPT ![h] = s] /\ sessions' = sessions
    BY <1>8, <2>1 DEF Start, BeginActivate, serverVars
  <2>. HIDE DEF s
  <2>. QED
    BY <1>4, <2>2, <2>3
<1>9. CASE BeginCloseTab(h)
  <2>1. PICK t \in Present, op \in {"closeRest", "closeSync"} :
          Start(h, [Idle EXCEPT !.op = op, !.pc = "leaf", !.tab = t, !.todo = layouts[t]])
    BY <1>9 DEF BeginCloseTab
  <2>. DEFINE s == [Idle EXCEPT !.op = op, !.pc = "leaf", !.tab = t, !.todo = layouts[t]]
  <2>2. s.op \in {"closeRest", "closeSync"} /\ s.pc = "leaf" /\ s.tab = t /\ s.dst = Nobody
    BY DEF Idle
  <2>3. req' = [req EXCEPT ![h] = s] /\ sessions' = sessions
    BY <1>9, <2>1 DEF Start, BeginCloseTab, serverVars
  <2>. HIDE DEF s
  <2>. QED
    BY <1>4, <2>2, <2>3
<1>10. CASE BeginExtract(h)
  <2>1. PICK t, d, p :
          /\ t \in Present /\ d \in Fresh(Tabs)
          /\ Start(h, [Idle EXCEPT !.op = "extract", !.pc = "source", !.tab = t,
                                   !.dst = d, !.pane = p, !.copy = layouts[t]])
    BY <1>10, Zenon DEF BeginExtract
  <2>. DEFINE s == [Idle EXCEPT !.op = "extract", !.pc = "source", !.tab = t,
                                !.dst = d, !.pane = p, !.copy = layouts[t]]
  <2>2. s.op = "extract" /\ s.pc = "source" /\ s.tab = t /\ s.dst = d
    BY DEF Idle
  <2>3. req' = [req EXCEPT ![h] = s] /\ sessions' = sessions /\ d \in Tabs \ used
    BY <1>10, <2>1 DEF Start, BeginExtract, Fresh
  <2>. HIDE DEF s
  <2>. QED
    BY <1>4, <2>1, <2>2, <2>3
<1>11. CASE BeginCreate(h)
  <2>1. PICK p \in Fresh(Panes), t \in Fresh(Tabs) :
          /\ Start(h, [Idle EXCEPT !.op = "create", !.pc = "publish", !.pane = p, !.tab = t])
          /\ sessions' = sessions \cup {p}
    BY <1>11, Zenon DEF BeginCreate
  <2>. DEFINE s == [Idle EXCEPT !.op = "create", !.pc = "publish", !.pane = p, !.tab = t]
  <2>2. s.op = "create" /\ s.pc = "publish" /\ s.pane = p /\ s.tab = t /\ s.dst = Nobody
    BY DEF Idle
  <2>3. req' = [req EXCEPT ![h] = s] /\ p \in Placed \ used /\ t \in Tabs \ used
    BY <2>1, PlacedFacts DEF Start, Fresh
  <2>. HIDE DEF s
  <2>4. \A q \in Placed : Holds(s, q) <=> q = p
    BY <2>2 DEF Holds
  <2>5. \A u \in Tabs : Reserves(s, u) => u \notin used
    BY <2>2, <2>3 DEF Reserves
  <2>6. \A u \in Tabs : u \in {s.tab, s.dst} => Unreserved(h, u)
    BY <1>2, <2>2, <2>3, FreeFacts
  <2>7. \A q \in sessions' : Holds(s, q) \/ (q \in sessions /\ ~Holds(req[h], q))
    BY <1>2, <1>3, <2>1, <2>3, <2>4
  <2>. QED
    BY <1>1, <2>3, <2>4, <2>5, <2>6, <2>7, Hands
<1>. QED
  BY <1>5, <1>6, <1>7, <1>8, <1>9, <1>10, <1>11

\* A copy that is stored is the layout, unless that is counted as a slip.
LEMMA CleanStore ==
    ASSUME NEW t, NEW L, NEW basis, "stale" \notin slips', Store(t, L, basis) \/ Remove(t, basis)
    PROVE  layouts[t] = basis
BY DEF Store, Remove, Slip

LEMMA PlaceShown ==
    ASSUME TypeInv, PlaceInv, NEW h \in Handlers, ClientCreate(h) \/ CreatePluginTab(h)
    PROVE  PlaceInv'
<1>1. UNCHANGED <<sessions, spawned, followed>> /\ req[h] = Idle
  BY DEF ClientCreate, CreatePluginTab, bootVars, Start
<1>2. \A p \in Placed : ~Holds(req[h], p)
  BY <1>1, IdleHands, Zenon
<1>3. sessions \subseteq used /\ layouts \in LayoutsOf(used)
  BY DEF TypeInv
<1>4. PICK p, t, op, out : /\ p \in Fresh(Panes) \cup Fresh(Widgets) /\ t \in Fresh(Tabs)
                           /\ op \in {"mirror", "plugin"}
                           /\ Start(h, [Idle EXCEPT !.op = op, !.pc = "end", !.out = out])
                           /\ Store(t, {p}, layouts[t])
  <2>1. CASE ClientCreate(h)
    <3>1. PICK p \in Fresh(Panes), t \in Fresh(Tabs) :
            /\ Start(h, [Idle EXCEPT !.op = "mirror", !.pc = "end",
                                     !.out = <<Note("created", t, {p}, clock + 1, clock + 1)>>])
            /\ Store(t, {p}, layouts[t])
      BY <2>1, Zenon DEF ClientCreate
    <3>2. p \in Fresh(Panes) \cup Fresh(Widgets) /\ "mirror" \in {"mirror", "plugin"}
      OBVIOUS
    <3>. QED
      BY <3>1, <3>2, Zenon
  <2>2. CASE CreatePluginTab(h)
    <3>1. PICK p \in Fresh(Widgets), t \in Fresh(Tabs) :
            /\ Start(h, [Idle EXCEPT !.op = "plugin", !.pc = "end",
                                     !.out = <<Note("created", t, {p}, clock + 1, clock + 1)>>])
            /\ Store(t, {p}, layouts[t])
      BY <2>2, Zenon DEF CreatePluginTab
    <3>2. p \in Fresh(Panes) \cup Fresh(Widgets) /\ "plugin" \in {"mirror", "plugin"}
      OBVIOUS
    <3>. QED
      BY <3>1, <3>2, Zenon
  <2>. QED
    BY <2>1, <2>2
<1>. DEFINE s == [Idle EXCEPT !.op = op, !.pc = "end", !.out = out]
<1>5. s.op \in {"mirror", "plugin"} /\ s.tab = Nobody /\ s.dst = Nobody
  BY <1>4 DEF Idle
<1>6. req' = [req EXCEPT ![h] = s] /\ layouts' = [layouts EXCEPT ![t] = {p}] /\ t \in Tabs \ used
      /\ p \notin used
  BY <1>4 DEF Start, Store, Fresh
<1>. HIDE DEF s
<1>7. /\ \A q \in Placed : ~Holds(s, q)
      /\ \A u \in Tabs : ~Reserves(s, u) /\ u \notin {s.tab, s.dst}
  BY <1>5, EmptyHands, FreeFacts
<1>8. Unreserved(h, t) /\ layouts[t] = {}
  BY <1>6, FreeFacts
<1>. DEFINE L == {p}
<1>9. /\ \A q \in Placed \cap L : q \in layouts[t] \/ Holds(req[h], q) \/ q \notin used
      /\ \A q \in sessions : q \in layouts[t] \/ Holds(req[h], q) => q \in L \/ Holds(s, q)
  <2>1. sessions \subseteq Placed
    BY PlacedFacts DEF TypeInv
  <2>. QED
    BY <1>2, <1>6, <1>8, <2>1
<1>10. layouts' = [layouts EXCEPT ![t] = L] /\ t \in Tabs
  BY <1>6
<1>. HIDE DEF L
<1>. QED
  BY <1>1, <1>6, <1>7, <1>8, <1>9, <1>10, Stores

LEMMA PlacePublish ==
    ASSUME TypeInv, PlaceInv, NEW h \in Handlers, PublishTab(h), "stale" \notin slips'
    PROVE  PlaceInv'
<1>. DEFINE r == req[h]
<1>1. /\ r.op = "create" /\ r.pc = "publish" /\ r.tab \in Tabs /\ UNCHANGED <<sessions, spawned, followed>>
  BY AtStep DEF PublishTab, At, Sensible, bootVars
<1>2. \A p : Holds(r, p) <=> p = r.pane
  BY <1>1 DEF Holds
<1>3. CASE r.pane \in sessions
  <2>1. /\ Store(r.tab, {r.pane}, layouts[r.tab])
        /\ SendThen(h, <<Note("created", r.tab, {r.pane}, clock + 1, clock + 1)>>, "verify")
    BY <1>3, Zenon DEF PublishTab
  <2>2. PICK s : /\ req' = [req EXCEPT ![h] = s] /\ s.pc = "verify" /\ s.tab = r.tab /\ s.dst = r.dst
    BY <2>1, SentLocals
  <2>3. /\ \A q \in Placed : ~Holds(s, q)
        /\ \A u \in Tabs : ~Reserves(s, u)
    BY <2>2, EmptyHands
  <2>4. \A u \in Tabs : u \in {s.tab, s.dst} => Unreserved(h, u)
    BY <2>2, FreeFacts
  <2>5. layouts' = [layouts EXCEPT ![r.tab] = {r.pane}] /\ Unreserved(h, r.tab)
    BY <1>1, <2>1, FreeFacts DEF Store
  <2>6. Reserves(r, r.tab)
    BY <1>1 DEF Reserves
  <2>7. layouts[r.tab] = {}
    BY <1>1, <2>6, FreeFacts
  <2>. DEFINE L == {r.pane}
  <2>8. /\ \A q \in Placed \cap L : q \in layouts[r.tab] \/ Holds(r, q) \/ q \notin used
        /\ \A q \in sessions : q \in layouts[r.tab] \/ Holds(r, q) => q \in L \/ Holds(s, q)
    BY <1>2, <2>7
  <2>9. layouts' = [layouts EXCEPT ![r.tab] = L] /\ UNCHANGED <<sessions, spawned, followed>> /\ r.tab \in Tabs
        /\ req' = [req EXCEPT ![h] = s]
    BY <1>1, <2>2, <2>5
  <2>. HIDE DEF L
  <2>. QED
    BY <2>3, <2>4, <2>5, <2>8, <2>9, Stores
<1>4. CASE r.pane \notin sessions
  <2>1. req' = [req EXCEPT ![h] = Idle] /\ layouts' = layouts
    BY <1>4, Zenon DEF PublishTab
  <2>. QED
    BY <1>1, <1>2, <1>4, <2>1, PlaceEnd
<1>. QED
  BY <1>3, <1>4

\* A request with nothing in hand before and after, that leaves the layouts alone.
LEMMA PlaceGoesOn ==
    ASSUME TypeInv, PlaceInv, NEW h \in Handlers, NEW s, req' = [req EXCEPT ![h] = s],
           s.tab = req[h].tab, s.dst = req[h].dst, UNCHANGED <<layouts, sessions, spawned, followed>>,
           \A p \in Placed : ~Holds(req[h], p) /\ ~Holds(s, p),
           \A t \in Tabs : ~Reserves(s, t)
    PROVE  PlaceInv'
<1>1. \A u \in Tabs : u \in {s.tab, s.dst} => Unreserved(h, u)
  BY FreeFacts
<1>2. sessions \subseteq Placed
  BY PlacedFacts DEF TypeInv
<1>. QED
  BY <1>1, <1>2, Hands

LEMMA PlaceVerify ==
    ASSUME TypeInv, PlaceInv, NEW h \in Handlers, VerifyTab(h)
    PROVE  PlaceInv'
<1>1. UNCHANGED <<layouts, sessions, spawned, followed>> /\ req[h].pc = "verify"
  BY DEF VerifyTab, At, serverVars, bootVars
<1>2. \A p \in Placed : ~Holds(req[h], p)
  BY <1>1, EmptyHands
<1>3. CASE req' = [req EXCEPT ![h] = Idle]
  <2>1. sessions \subseteq Placed
    BY PlacedFacts DEF TypeInv
  <2>. QED
    BY <1>1, <1>2, <1>3, <2>1, PlaceEnd
<1>4. CASE \E notes : SendThen(h, notes, "end")
  <2>1. PICK s : req' = [req EXCEPT ![h] = s] /\ s.pc = "end" /\ s.tab = req[h].tab /\ s.dst = req[h].dst
    BY <1>4, SentLocals
  <2>2. /\ \A p \in Placed : ~Holds(s, p)
        /\ \A t \in Tabs : ~Reserves(s, t)
    BY <2>1, EmptyHands
  <2>. QED
    BY <1>1, <1>2, <2>1, <2>2, PlaceGoesOn
<1>. QED
  BY <1>3, <1>4, Zenon DEF VerifyTab

LEMMA PlaceBroadcast ==
    ASSUME TypeInv, PlaceInv, NEW h \in Handlers, Broadcast(h)
    PROVE  PlaceInv'
<1>. DEFINE r == req[h]
<1>1. UNCHANGED <<layouts, sessions, spawned, followed>>
  BY DEF Broadcast, serverVars, bootVars
<1>2. sessions \subseteq Placed /\ r \in RequestsOf(used, clock)
  BY PlacedFacts DEF TypeInv
<1>3. CASE r.pc = "end" /\ req' = [req EXCEPT ![h] = Idle]
  <2>1. \A p \in Placed : ~Holds(r, p)
    BY <1>3, EmptyHands
  <2>. QED
    BY <1>1, <1>2, <1>3, <2>1, PlaceEnd
<1>4. CASE req' = [req EXCEPT ![h] = [r EXCEPT !.out = Tail(r.out)]]
  <2>. DEFINE s == [r EXCEPT !.out = Tail(r.out)]
  <2>1. /\ s.op = r.op /\ s.pc = r.pc /\ s.tab = r.tab /\ s.dst = r.dst /\ s.pane = r.pane /\ s.new = r.new
        /\ s.copy = r.copy
    BY <1>2 DEF RequestsOf
  <2>2. req' = [req EXCEPT ![h] = s]
    BY <1>4
  <2>. HIDE DEF s
  <2>3. /\ \A p : Holds(s, p) <=> Holds(r, p)
        /\ \A t : Reserves(s, t) <=> Reserves(r, t)
    BY <2>1 DEF Holds, Reserves, Moved
  <2>4. \A u \in Tabs : u \in {s.tab, s.dst} => Unreserved(h, u)
    BY <2>1, FreeFacts
  <2>. QED
    BY <1>1, <2>2, <2>3, <2>4, Hands
<1>. QED
  <2>1. req' = [req EXCEPT ![h] = IF Len(r.out) = 1 /\ r.pc = "end" THEN Idle ELSE [r EXCEPT !.out = Tail(r.out)]]
    BY DEF Broadcast
  <2>. QED
    BY <1>3, <1>4, <2>1

\* A store at the end of a request: what was in the tab or in hand is in the tab now.
LEMMA PutDown ==
    ASSUME TypeInv, PlaceInv, NEW h \in Handlers, NEW t \in Tabs, t \in {req[h].tab, req[h].dst}, NEW L,
           layouts' = [layouts EXCEPT ![t] = L], UNCHANGED <<sessions, spawned, followed>>,
           NEW notes, NEW pc \in {"end", "recheck"}, SendThen(h, notes, pc),
           \A p \in Placed : p \in L <=> p \in layouts[t] \/ Holds(req[h], p)
    PROVE  PlaceInv'
<1>1. PICK s : req' = [req EXCEPT ![h] = s] /\ s.pc = pc /\ s.tab = req[h].tab /\ s.dst = req[h].dst
  BY SentLocals
<1>2. /\ \A q \in Placed : ~Holds(s, q)
      /\ \A u \in Tabs : ~Reserves(s, u)
  BY <1>1, EmptyHands
<1>3. \A u \in Tabs : u \in {s.tab, s.dst} => Unreserved(h, u)
  BY <1>1, FreeFacts
<1>4. Unreserved(h, t)
  BY FreeFacts
<1>5. sessions \subseteq Placed
  BY PlacedFacts DEF TypeInv
<1>. QED
  BY <1>1, <1>2, <1>3, <1>4, <1>5, Stores

LEMMA PlaceSplit ==
    ASSUME TypeInv, PlaceInv, NEW h \in Handlers, "stale" \notin slips',
           SpawnForSplit(h) \/ StoreSplit(h) \/ StoreInsert(h) \/ RecheckSplit(h)
    PROVE  PlaceInv'
<1>. DEFINE r == req[h]
<1>0. sessions \subseteq Placed /\ r \in RequestsOf(used, clock) /\ DOMAIN req = Handlers
  BY PlacedFacts DEF TypeInv
<1>1. CASE SpawnForSplit(h)
  <2>1. UNCHANGED <<layouts, spawned, followed>> /\ r.op = "split" /\ r.pc = "spawn"
    BY <1>1 DEF SpawnForSplit, At, bootVars
  <2>2. \A p \in Placed : ~Holds(r, p)
    BY <2>1, EmptyHands
  <2>3. CASE req' = [req EXCEPT ![h] = Idle] /\ sessions' = sessions
    BY <1>0, <2>1, <2>2, <2>3, PlaceEnd
  <2>4. ASSUME NEW n \in Fresh(Panes), sessions' = sessions \cup {n},
               req' = [req EXCEPT ![h].new = n, ![h].pc = "store"]
        PROVE  PlaceInv'
    <3>. DEFINE s == [r EXCEPT !.new = n, !.pc = "store"]
    <3>1. req' = [req EXCEPT ![h] = s]
      BY <2>4
    <3>2. s.op = "split" /\ s.pc = "store" /\ s.tab = r.tab /\ s.dst = r.dst /\ s.new = n
      BY <1>0, <2>1 DEF RequestsOf
    <3>. HIDE DEF s
    <3>3. \A p \in Placed : Holds(s, p) <=> p = n
      BY <3>2 DEF Holds
    <3>4. \A u \in Tabs : ~Reserves(s, u)
      BY <3>2 DEF Reserves
    <3>5. \A u \in Tabs : u \in {s.tab, s.dst} => Unreserved(h, u)
      BY <3>2, FreeFacts
    <3>6. n \in Placed \ used
      BY PlacedFacts DEF Fresh
    <3>7. \A p \in sessions' : Holds(s, p) \/ (p \in sessions /\ ~Holds(r, p))
      BY <1>0, <2>2, <2>4, <3>3, <3>6
    <3>. QED
      BY <2>1, <3>1, <3>3, <3>4, <3>5, <3>6, <3>7, Hands
  <2>. QED
    BY <1>1, <2>3, <2>4, Zenon DEF SpawnForSplit
<1>2. CASE StoreSplit(h)
  <2>. DEFINE L == WithNew(r)
  <2>1. /\ Store(r.tab, L, r.copy) /\ SendThen(h, <<Note("updated", r.tab, L, clock + 1, clock + 1)>>, "recheck")
        /\ UNCHANGED <<sessions, spawned, followed>> /\ r.op = "split" /\ r.pc = "store"
    BY <1>2, Zenon DEF StoreSplit, At, bootVars
  <2>2. r.tab \in Tabs
    BY <2>1, AtStep DEF Sensible
  <2>3. layouts[r.tab] = r.copy /\ layouts' = [layouts EXCEPT ![r.tab] = L]
    BY <2>1, CleanStore DEF Store
  <2>4. \A p \in Placed : p \in L <=> p \in layouts[r.tab] \/ Holds(r, p)
    BY <2>1, <2>3 DEF WithNew, Holds
  <2>. HIDE DEF L
  <2>. QED
    BY <2>1, <2>2, <2>3, <2>4, PutDown
<1>3. CASE StoreInsert(h)
  <2>. DEFINE L == WithNew(r)
  <2>1. /\ Store(r.tab, L, r.copy) /\ SendThen(h, <<Note("updated", r.tab, L, clock + 1, clock + 1)>>, "end")
        /\ UNCHANGED <<sessions, spawned, followed>> /\ r.op = "insert" /\ r.pc = "store"
    BY <1>3, Zenon DEF StoreInsert, At, bootVars
  <2>2. r.tab \in Tabs
    BY <2>1, AtStep DEF Sensible
  <2>3. layouts[r.tab] = r.copy /\ layouts' = [layouts EXCEPT ![r.tab] = L]
    BY <2>1, CleanStore DEF Store
  <2>4. \A p \in Placed : p \in L <=> p \in layouts[r.tab] \/ Holds(r, p)
    BY <2>1, <2>2, <2>3 DEF WithNew, Holds
  <2>. HIDE DEF L
  <2>. QED
    BY <2>1, <2>2, <2>3, <2>4, PutDown
<1>4. CASE RecheckSplit(h)
  <2>. DEFINE p == r.new
  <2>1. UNCHANGED <<sessions, used, spawned, followed>> /\ r.pc = "recheck" /\ used \subseteq used'
    BY <1>4 DEF RecheckSplit, At, bootVars
  <2>2. \A q \in Placed : ~Holds(r, q)
    BY <2>1, EmptyHands
  <2>3. CASE p \in sessions \/ Shown(p) = {}
    <3>1. req' = [req EXCEPT ![h] = Idle] /\ layouts' = layouts
      BY <1>4, <2>3, Zenon DEF RecheckSplit
    <3>. QED
      BY <1>0, <2>1, <2>2, <3>1, PlaceEnd
  <2>4. CASE p \notin sessions /\ Shown(p) # {}
    <3>1. Purge(p) /\ SendThen(h, NotesOf(p), "end")
      BY <1>4, <2>4, Zenon DEF RecheckSplit
    <3>2. PICK s : req' = [req EXCEPT ![h] = s] /\ s.pc = "end" /\ s.tab = r.tab /\ s.dst = r.dst
      BY <3>1, SentLocals
    <3>3. /\ \A q \in Placed : ~Holds(s, q)
          /\ \A t \in Tabs : ~Reserves(s, t)
      BY <3>2, EmptyHands
    <3>4. \A u \in Tabs : u \in {s.tab, s.dst} => Unreserved(h, u)
      BY <3>2, FreeFacts
    <3>5. \A u \in Tabs : layouts'[u] = layouts[u] \ {p}
      BY <2>1, <3>1, PurgeFacts
    <3>6. sessions' = sessions \ {p}
      BY <2>1, <2>4
    <3>. QED
      BY <2>1, <2>2, <3>2, <3>3, <3>4, <3>5, <3>6, Purges
  <2>. QED
    BY <2>3, <2>4
<1>. QED
  BY <1>1, <1>2, <1>3, <1>4

LEMMA PlaceMove ==
    ASSUME TypeInv, PlaceInv, NEW h \in Handlers, "stale" \notin slips',
           ReadTarget(h) \/ StoreSource(h) \/ StoreTarget(h)
    PROVE  PlaceInv'
<1>. DEFINE r == req[h]
<1>0. /\ sessions \subseteq Placed /\ r \in RequestsOf(used, clock) /\ DOMAIN req = Handlers
      /\ r.op = "move" /\ UNCHANGED <<sessions, spawned, followed>>
  BY PlacedFacts DEF TypeInv, ReadTarget, StoreSource, StoreTarget, At, serverVars, bootVars
<1>1. /\ r.tab \in Tabs /\ r.dst \in Tabs /\ r.copy \subseteq Leaves
      /\ r.pane # Nobody => r.pane \in r.copy
  BY <1>0, AtStep DEF Sensible
<1>2. CASE ReadTarget(h)
  <2>1. layouts' = layouts /\ r.pc = "target"
    BY <1>2 DEF ReadTarget, At, serverVars
  <2>2. \A q \in Placed : ~Holds(r, q)
    BY <2>1, EmptyHands
  <2>3. CASE req' = [req EXCEPT ![h] = Idle]
    BY <1>0, <2>1, <2>2, <2>3, PlaceEnd
  <2>4. CASE req' = [req EXCEPT ![h].dstCopy = layouts[r.dst], ![h].pc = "source"]
    <3>. DEFINE s == [r EXCEPT !.dstCopy = layouts[r.dst], !.pc = "source"]
    <3>1. req' = [req EXCEPT ![h] = s]
      BY <2>4
    <3>2. s.op = "move" /\ s.pc = "source" /\ s.tab = r.tab /\ s.dst = r.dst
      BY <1>0 DEF RequestsOf
    <3>. HIDE DEF s
    <3>3. /\ \A q \in Placed : ~Holds(s, q)
          /\ \A t \in Tabs : ~Reserves(s, t)
      BY <3>2, EmptyHands
    <3>. QED
      BY <1>0, <2>1, <2>2, <3>1, <3>2, <3>3, PlaceGoesOn
  <2>. QED
    BY <1>2, <2>3, <2>4, Zenon DEF ReadTarget
<1>3. CASE StoreSource(h)
  <2>. DEFINE s == [r EXCEPT !.pc = "dest", !.first = clock']
              L == Remains(r)
  <2>1. r.pc = "source" /\ req' = [req EXCEPT ![h].pc = "dest", ![h].first = clock']
    BY <1>3 DEF StoreSource, At
  <2>2. req' = [req EXCEPT ![h] = s]
    BY <2>1
  <2>3. s.op = "move" /\ s.pc = "dest" /\ s.tab = r.tab /\ s.dst = r.dst /\ s.pane = r.pane /\ s.copy = r.copy
    BY <1>0 DEF RequestsOf
  <2>. HIDE DEF s
  <2>4. layouts[r.tab] = r.copy /\ layouts' = [layouts EXCEPT ![r.tab] = L]
    <3>1. CASE r.pane = Nobody
      <4>1. Remove(r.tab, r.copy)
        BY <1>3, <3>1, Zenon DEF StoreSource
      <4>2. L = {}
        BY <3>1 DEF Remains, Moved
      <4>. QED
        BY <4>1, <4>2, CleanStore DEF Remove
    <3>2. CASE r.pane # Nobody
      <4>1. Store(r.tab, L, r.copy)
        BY <1>3, <3>2, Zenon DEF StoreSource
      <4>. QED
        BY <4>1, CleanStore DEF Store
    <3>. QED
      BY <3>1, <3>2
  <2>5. \A p : Holds(s, p) <=> p \in Moved(r)
    BY <2>3 DEF Holds, Moved
  <2>6. Moved(r) \subseteq r.copy /\ L = r.copy \ Moved(r)
    BY <1>1 DEF Moved, Remains
  <2>7. /\ \A q \in Placed : ~Holds(r, q)
        /\ \A u \in Tabs : ~Reserves(s, u)
    BY <1>0, <2>1, <2>3, EmptyHands DEF Reserves
  <2>8. \A u \in Tabs : u \in {s.tab, s.dst} => Unreserved(h, u)
    BY <2>3, FreeFacts
  <2>9. Unreserved(h, r.tab)
    BY <1>1, FreeFacts
  <2>. HIDE DEF L
  <2>10. /\ \A p \in Placed \cap L : p \in layouts[r.tab] \/ Holds(r, p) \/ p \notin used
         /\ \A p \in Placed : Holds(s, p) => p \notin L /\ (p \in layouts[r.tab] \/ Holds(r, p))
         /\ \A p \in sessions : p \in layouts[r.tab] \/ Holds(r, p) => p \in L \/ Holds(s, p)
    BY <1>0, <2>4, <2>5, <2>6, <2>7
  <2>. QED
    BY <1>0, <1>1, <2>2, <2>4, <2>7, <2>8, <2>9, <2>10, Stores
<1>4. CASE StoreTarget(h)
  <2>. DEFINE L == r.dstCopy \cup Moved(r)
  <2>1. Store(r.dst, L, r.dstCopy) /\ r.pc = "dest" /\ \E notes : SendThen(h, notes, "end")
    BY <1>4, Zenon DEF StoreTarget, At
  <2>2. layouts[r.dst] = r.dstCopy /\ layouts' = [layouts EXCEPT ![r.dst] = L]
    <3>1. layouts[r.dst] = r.dstCopy
      BY <2>1, CleanStore, Zenon
    <3>. QED
      BY <2>1, <3>1 DEF Store
  <2>3. \A p \in Placed : p \in L <=> p \in layouts[r.dst] \/ Holds(r, p)
    BY <1>0, <2>1, <2>2 DEF Holds
  <2>. HIDE DEF L
  <2>4. PICK notes : SendThen(h, notes, "end")
    BY <2>1
  <2>5. /\ r.dst \in {r.tab, r.dst} /\ "end" \in {"end", "recheck"} /\ UNCHANGED <<sessions, spawned, followed>>
        /\ r.dst \in Tabs
    BY <1>0, <1>1
  <2>. QED
    BY <2>2, <2>3, <2>4, <2>5, PutDown, Zenon
<1>. QED
  BY <1>2, <1>3, <1>4

LEMMA PlaceExtract ==
    ASSUME TypeInv, PlaceInv, NEW h \in Handlers, "stale" \notin slips', StoreRest(h) \/ StoreExtracted(h)
    PROVE  PlaceInv'
<1>. DEFINE r == req[h]
<1>0. /\ sessions \subseteq Placed /\ r \in RequestsOf(used, clock) /\ DOMAIN req = Handlers
      /\ r.op = "extract" /\ UNCHANGED <<sessions, spawned, followed>>
  BY PlacedFacts DEF TypeInv, StoreRest, StoreExtracted, At, bootVars
<1>1. r.tab \in Tabs /\ r.dst \in Tabs /\ r.pane \in r.copy
  BY <1>0, AtStep DEF Sensible
<1>2. \A t \in Tabs : r.pc \in {"source", "dest"} => (Reserves(r, t) <=> t = r.dst)
  BY <1>0 DEF Reserves
<1>3. CASE StoreRest(h)
  <2>. DEFINE s == [r EXCEPT !.pc = "dest", !.first = clock']
              L == Remains(r)
  <2>1. r.pc = "source" /\ req' = [req EXCEPT ![h].pc = "dest", ![h].first = clock'] /\ Store(r.tab, L, r.copy)
    BY <1>3 DEF StoreRest, At
  <2>2. req' = [req EXCEPT ![h] = s]
    BY <2>1
  <2>3. s.op = "extract" /\ s.pc = "dest" /\ s.tab = r.tab /\ s.dst = r.dst /\ s.pane = r.pane
    BY <1>0 DEF RequestsOf
  <2>. HIDE DEF s
  <2>4. layouts[r.tab] = r.copy /\ layouts' = [layouts EXCEPT ![r.tab] = L]
    <3>1. layouts[r.tab] = r.copy
      BY <2>1, CleanStore, Zenon
    <3>. QED
      BY <2>1, <3>1 DEF Store
  <2>5. \A p : Holds(s, p) <=> p = r.pane
    BY <2>3 DEF Holds
  <2>6. L = r.copy \ {r.pane}
    <3>1. r.pane # Nobody
      BY <1>0, <1>1, AtStep
    <3>. QED
      BY <3>1 DEF Moved, Remains
  <2>7. \A q \in Placed : ~Holds(r, q)
    BY <1>0, <2>1 DEF Holds
  <2>8. \A u \in Tabs : u \in {s.tab, s.dst} => Unreserved(h, u)
    BY <2>3, FreeFacts
  <2>9. Unreserved(h, r.tab)
    BY <1>1, FreeFacts
  <2>10. r.tab # r.dst
    <3>1. layouts[r.dst] = {}
      BY <1>1, <1>2, <2>1, FreeFacts
    <3>. QED
      BY <1>1, <2>4, <3>1
  <2>11. \A u \in Tabs : Reserves(s, u) => Reserves(r, u) /\ u # r.tab
    BY <1>2, <2>1, <2>3, <2>10 DEF Reserves
  <2>. HIDE DEF L
  <2>12. /\ \A p \in Placed \cap L : p \in layouts[r.tab] \/ Holds(r, p) \/ p \notin used
         /\ \A p \in Placed : Holds(s, p) => p \notin L /\ (p \in layouts[r.tab] \/ Holds(r, p))
         /\ \A p \in sessions : p \in layouts[r.tab] \/ Holds(r, p) => p \in L \/ Holds(s, p)
    BY <1>0, <1>1, <2>4, <2>5, <2>6, <2>7
  <2>. QED
    BY <1>0, <1>1, <2>2, <2>4, <2>8, <2>9, <2>11, <2>12, Stores
<1>4. CASE StoreExtracted(h)
  <2>. DEFINE L == {r.pane}
  <2>1. Store(r.dst, L, layouts[r.dst]) /\ r.pc = "dest" /\ \E notes : SendThen(h, notes, "end")
    BY <1>4, Zenon DEF StoreExtracted, At
  <2>2. layouts[r.dst] = {} /\ layouts' = [layouts EXCEPT ![r.dst] = L]
    BY <1>1, <1>2, <2>1, FreeFacts DEF Store
  <2>3. \A p \in Placed : p \in L <=> p \in layouts[r.dst] \/ Holds(r, p)
    BY <1>0, <2>1, <2>2 DEF Holds
  <2>. HIDE DEF L
  <2>4. PICK notes : SendThen(h, notes, "end")
    BY <2>1
  <2>5. /\ r.dst \in {r.tab, r.dst} /\ "end" \in {"end", "recheck"} /\ UNCHANGED <<sessions, spawned, followed>>
        /\ r.dst \in Tabs
    BY <1>0, <1>1
  <2>. QED
    BY <2>2, <2>3, <2>4, <2>5, PutDown, Zenon
<1>. QED
  BY <1>3, <1>4

\* A tab that is stored as it was.
LEMMA SameTab ==
    ASSUME TypeInv, NEW t, layouts' = [layouts EXCEPT ![t] = layouts[t]]
    PROVE  layouts' = layouts
BY DEF TypeInv, LayoutsOf

LEMMA PlaceActivated ==
    ASSUME TypeInv, PlaceInv, NEW h \in Handlers, "stale" \notin slips', StoreActivated(h) \/ ClientUpdates(h)
    PROVE  PlaceInv'
<1>0. UNCHANGED <<sessions, spawned, followed>> /\ sessions \subseteq Placed /\ req \in [Handlers -> RequestsOf(used, clock)]
  BY PlacedFacts DEF StoreActivated, ClientUpdates, bootVars, TypeInv
<1>1. layouts' = layouts
  <2>1. \E t : layouts' = [layouts EXCEPT ![t] = layouts[t]]
    <3>1. CASE StoreActivated(h)
      <4>1. Store(req[h].tab, req[h].copy, req[h].copy)
        BY <3>1, Zenon DEF StoreActivated
      <4>2. layouts[req[h].tab] = req[h].copy
        BY <4>1, CleanStore, Zenon
      <4>. QED
        BY <4>1, <4>2 DEF Store
    <3>2. CASE ClientUpdates(h)
      <4>1. PICK t \in Tabs : /\ layouts' = [layouts EXCEPT ![t] = replica[t]]
                              /\ slips' = slips \cup Slip(layouts[t] # replica[t], "stale")
                                   \cup Slip(\E i \in DOMAIN queue : queue[i].tab = t, "reordered")
        BY <3>2, Zenon DEF ClientUpdates
      <4>2. layouts[t] = replica[t]
        BY <4>1, Zenon DEF Slip
      <4>. QED
        BY <4>1, <4>2
    <3>. QED
      BY <3>1, <3>2
  <2>. QED
    BY <2>1, SameTab
<1>2. CASE StoreActivated(h)
  <2>1. req[h].op = "activate" /\ req' = [req EXCEPT ![h] = Idle]
    BY <1>2 DEF StoreActivated, At
  <2>2. \A p \in Placed : ~Holds(req[h], p)
    BY <2>1, EmptyHands
  <2>. QED
    BY <1>0, <1>1, <2>1, <2>2, PlaceEnd
<1>3. CASE ClientUpdates(h)
  <2>1. req' = req
    BY <1>3 DEF ClientUpdates
  <2>. QED
    BY <1>0, <1>1, <2>1 DEF PlaceInv, Placed, Shown, Holds, Moved, Reserves
<1>. QED
  BY <1>2, <1>3

LEMMA PlaceClose ==
    ASSUME TypeInv, PlaceInv, NEW h \in Handlers, "stale" \notin slips',
           ClosePane(h) \/ CloseLeaf(h) \/ RemoveClosed(h)
    PROVE  PlaceInv'
<1>. DEFINE r == req[h]
<1>0. /\ sessions \subseteq Placed /\ req \in [Handlers -> RequestsOf(used, clock)]
      /\ UNCHANGED <<spawned, followed>> /\ used \subseteq used'
  BY PlacedFacts DEF ClosePane, CloseLeaf, RemoveClosed, bootVars, TypeInv
<1>1. r \in RequestsOf(used, clock) /\ DOMAIN req = Handlers
  BY <1>0
<1>2. CASE ClosePane(h)
  <2>1. PICK p : /\ sessions' = sessions \ {p} /\ Purge(p) /\ r = Idle
                 /\ req' = IF NotesOf(p) = <<>> THEN req
                           ELSE [req EXCEPT ![h] = [Idle EXCEPT !.op = "close", !.pc = "end",
                                                                !.out = NotesOf(p)]]
    BY <1>2, Zenon DEF ClosePane
  <2>2. \A u \in Tabs : layouts'[u] = layouts[u] \ {p}
    BY <1>0, <2>1, PurgeFacts
  <2>. DEFINE s == IF NotesOf(p) = <<>> THEN r
                   ELSE [Idle EXCEPT !.op = "close", !.pc = "end", !.out = NotesOf(p)]
  <2>3. req' = [req EXCEPT ![h] = s]
    <3>1. [req EXCEPT ![h] = r] = req
      BY <1>0
    <3>. QED
      BY <2>1, <3>1
  <2>4. s.op \in {"none", "close"} /\ s.tab = Nobody /\ s.dst = Nobody /\ r.op = "none"
    BY <2>1 DEF Idle
  <2>. HIDE DEF s
  <2>5. /\ \A q \in Placed : ~Holds(r, q) /\ ~Holds(s, q)
        /\ \A u \in Tabs : u \in {s.tab, s.dst} => Unreserved(h, u)
        /\ \A u \in Tabs : ~Reserves(s, u)
    BY <2>4, EmptyHands, FreeFacts
  <2>. QED
    BY <1>0, <2>1, <2>2, <2>3, <2>5, Purges
<1>3. CASE CloseLeaf(h)
  <2>0. r.op \in {"closeRest", "closeSync"}
    BY <1>3 DEF CloseLeaf, Closing, At
  <2>1. \A q \in Placed : ~Holds(r, q)
    BY <2>0, EmptyHands
  <2>2. PICK p \in r.todo :
          \/ req' = [req EXCEPT ![h].todo = @ \ {p}] /\ UNCHANGED <<sessions, layouts>>
          \/ /\ sessions' = sessions \ {p} /\ Purge(p)
             /\ req' = [req EXCEPT ![h].todo = @ \ {p}, ![h].out = NotesOf(p)]
    BY <1>3, Zenon DEF CloseLeaf
  <2>3. CASE req' = [req EXCEPT ![h].todo = @ \ {p}] /\ UNCHANGED <<sessions, layouts>>
    <3>. DEFINE s == [r EXCEPT !.todo = @ \ {p}]
    <3>1. req' = [req EXCEPT ![h] = s]
      BY <2>3
    <3>2. s.op = r.op /\ s.tab = r.tab /\ s.dst = r.dst
      BY <1>1 DEF RequestsOf
    <3>. HIDE DEF s
    <3>3. /\ \A q \in Placed : ~Holds(s, q)
          /\ \A u \in Tabs : ~Reserves(s, u)
      BY <2>0, <3>2, EmptyHands
    <3>. QED
      BY <1>0, <2>1, <2>3, <3>1, <3>2, <3>3, PlaceGoesOn
  <2>4. CASE /\ sessions' = sessions \ {p} /\ Purge(p)
             /\ req' = [req EXCEPT ![h].todo = @ \ {p}, ![h].out = NotesOf(p)]
    <3>. DEFINE s == [r EXCEPT !.todo = @ \ {p}, !.out = NotesOf(p)]
    <3>1. req' = [req EXCEPT ![h] = s]
      BY <2>4
    <3>2. s.op = r.op /\ s.tab = r.tab /\ s.dst = r.dst
      BY <1>1 DEF RequestsOf
    <3>. HIDE DEF s
    <3>3. \A u \in Tabs : layouts'[u] = layouts[u] \ {p}
      BY <1>0, <2>4, PurgeFacts
    <3>4. /\ \A q \in Placed : ~Holds(r, q) /\ ~Holds(s, q)
          /\ \A u \in Tabs : u \in {s.tab, s.dst} => Unreserved(h, u)
          /\ \A u \in Tabs : ~Reserves(s, u)
      BY <2>0, <2>1, <3>2, EmptyHands, FreeFacts
    <3>. QED
      BY <1>0, <2>4, <3>1, <3>3, <3>4, Purges
  <2>. QED
    BY <2>2, <2>3, <2>4
<1>4. CASE RemoveClosed(h)
  <2>0. r.op \in {"closeRest", "closeSync"} /\ sessions' = sessions
    BY <1>4 DEF RemoveClosed, Closing, At
  <2>1. \A q \in Placed : ~Holds(r, q)
    BY <2>0, EmptyHands
  <2>2. r.tab \in Tabs
    BY <2>0, AtStep DEF Sensible
  <2>3. /\ Remove(r.tab, layouts[r.tab] \ sessions)
        /\ IF layouts[r.tab] = {} THEN req' = [req EXCEPT ![h] = Idle]
           ELSE SendThen(h, <<Note("closed", r.tab, {}, clock + 1, clock + 1)>>, "end")
    BY <1>4, Zenon DEF RemoveClosed
  <2>4. layouts[r.tab] = layouts[r.tab] \ sessions /\ layouts' = [layouts EXCEPT ![r.tab] = {}]
    BY <2>3, CleanStore DEF Remove
  <2>5. CASE layouts[r.tab] = {}
    <3>1. layouts' = layouts
      BY <2>4, <2>5, SameTab
    <3>. QED
      BY <1>0, <2>0, <2>1, <2>3, <2>5, <3>1, PlaceEnd
  <2>6. CASE layouts[r.tab] # {}
    <3>1. PICK s : req' = [req EXCEPT ![h] = s] /\ s.pc = "end" /\ s.tab = r.tab /\ s.dst = r.dst
      BY <2>3, <2>6, SentLocals
    <3>2. /\ \A q \in Placed : ~Holds(s, q)
          /\ \A u \in Tabs : ~Reserves(s, u)
      BY <3>1, EmptyHands
    <3>3. /\ \A u \in Tabs : u \in {s.tab, s.dst} => Unreserved(h, u)
          /\ Unreserved(h, r.tab)
      BY <2>2, <3>1, FreeFacts
    <3>. DEFINE L == {}
    <3>4. /\ \A p \in Placed \cap L : p \in layouts[r.tab] \/ Holds(r, p) \/ p \notin used
          /\ \A p \in sessions : p \in layouts[r.tab] \/ Holds(r, p) => p \in L \/ Holds(s, p)
          /\ layouts' = [layouts EXCEPT ![r.tab] = L]
      BY <1>0, <2>1, <2>4
    <3>. HIDE DEF L
    <3>. QED
      BY <1>0, <2>0, <2>2, <3>1, <3>2, <3>3, <3>4, Stores
  <2>. QED
    BY <2>5, <2>6
<1>. QED
  BY <1>2, <1>3, <1>4


\* The steps that touch neither the places nor the requests.
LEMMA PlaceSame ==
    ASSUME PlaceInv, UNCHANGED <<layouts, req, spawned, followed>>,
           sessions' = sessions \/ \E p \in Panes : Shown(p) # {} /\ sessions' = sessions \cup {p}
    PROVE  PlaceInv'
<1>0. Placed' = Placed
  BY DEF Placed
<1>1. \A p : Shown(p)' = Shown(p)
  BY DEF Shown
<1>2. \A p \in sessions' : p \in sessions \/ Shown(p) # {}
  OBVIOUS
<1>3. /\ \A k \in Handlers : \A p : Holds(req[k], p)' <=> Holds(req[k], p)
      /\ \A k \in Handlers : \A t : Reserves(req[k], t)' <=> Reserves(req[k], t)
  BY DEF Holds, Reserves, Moved
<1>4. \A p \in sessions' : \/ Shown(p)' # {} \/ p \in spawned'
                           \/ \E h \in Handlers : Holds(req[h], p)'
  BY <1>1, <1>2, <1>3 DEF PlaceInv
<1>5. \A p \in Placed : \A h \in Handlers : Holds(req[h], p)' => Shown(p)' = {}
  BY <1>1, <1>3 DEF PlaceInv
<1>6. \A p \in Placed : \A h, k \in Handlers : Holds(req[h], p)' /\ Holds(req[k], p)' => h = k
  BY <1>3 DEF PlaceInv
<1>. QED
  BY <1>0, <1>3, <1>4, <1>5, <1>6 DEF PlaceInv

\* A list that drops no tab changes nothing.
LEMMA PrunesNothing ==
    ASSUME TypeInv, Prune, Stale = {}
    PROVE  layouts' = layouts
<1>1. layouts = [t \in Tabs |-> layouts[t]]
  BY DEF TypeInv, LayoutsOf
<1>. QED
  BY <1>1 DEF Prune

LEMMA PlaceOthers ==
    ASSUME TypeInv, PlaceInv, "unannounced" \notin slips',
           \/ \E p \in Panes : ConnectTerminal(p)
           \/ ListTabs \/ Register \/ ReceiveList \/ Disconnect \/ Deliver
           \/ BeginSnapshot \/ ReadTab \/ EndSnapshot \/ UNCHANGED vars
    PROVE  PlaceInv'
<1>1. CASE \E p \in Panes : ConnectTerminal(p)
  BY <1>1, PlaceSame DEF ConnectTerminal, bootVars
<1>2. CASE ListTabs
  BY <1>2 DEF ListTabs
<1>3. CASE ReceiveList
  <2>1. Prune /\ Stale = {} /\ UNCHANGED <<sessions, req, spawned, followed>>
    BY <1>3, Zenon DEF ReceiveList, Slip, bootVars
  <2>. QED
    BY <2>1, PrunesNothing, PlaceSame
<1>4. CASE \/ Register \/ Disconnect \/ Deliver \/ BeginSnapshot \/ ReadTab \/ EndSnapshot
           \/ UNCHANGED vars
  <2>1. UNCHANGED <<layouts, sessions, req, spawned, followed>>
    BY <1>4 DEF Register, Disconnect, Deliver, BeginSnapshot, ReadTab, EndSnapshot, vars,
                serverVars, bootVars
  <2>. QED
    BY <2>1, PlaceSame
<1>. QED
  BY <1>1, <1>2, <1>3, <1>4

\* What a step of a request does to the places.
LEMMA PlaceHandled ==
    ASSUME TypeInv, PlaceInv, NEW h \in Handlers, "stale" \notin slips',
           Reading(h) \/ Storing(h) \/ Taking(h)
    PROVE  PlaceInv'
<1>1. CASE Reading(h)
  BY <1>1, PlaceBroadcast, PlaceBegin, PlaceVerify, PlaceSplit, PlaceMove, Zenon DEF Reading
<1>2. CASE Storing(h)
  BY <1>2, PlacePublish, PlaceShown, PlaceSplit, PlaceMove, PlaceExtract, PlaceActivated, Zenon DEF Storing
<1>3. CASE Taking(h)
  BY <1>3, PlaceSplit, PlaceMove, PlaceClose, Zenon DEF Taking
<1>. QED
  BY <1>1, <1>2, <1>3

\* While nobody is served nothing is in hand.
LEMMA QuietPlaces ==
    ASSUME TypeInv, followed' = followed, \A h \in Handlers : req'[h] = Idle,
           \A p \in Placed : \A t, u \in Tabs : p \in layouts'[t] \cap layouts'[u] => t = u,
           \A p \in sessions' : (\E t \in Tabs : p \in layouts'[t]) \/ p \in spawned'
    PROVE  PlaceInv'
<1>0. Placed' = Placed
  BY DEF Placed
<1>1. \A h \in Handlers : /\ \A p \in Placed : ~Holds(req'[h], p)
                          /\ \A t \in Tabs : ~Reserves(req'[h], t)
  BY IdleHands, Zenon
<1>2. \A h \in Handlers : /\ \A p \in Placed : ~Holds(req[h], p)'
                          /\ \A t \in Tabs : ~Reserves(req[h], t)'
  BY <1>1 DEF Holds, Reserves, Moved
<1>3. \A p \in sessions' : Shown(p)' # {} \/ p \in spawned'
  BY DEF Shown
<1>. QED
  BY <1>0, <1>2, <1>3 DEF PlaceInv

LEMMA CleanCrash ==
    ASSUME TypeInv, Crash
    PROVE  CleanInv'
<1>1. /\ layouts' = [t \in Tabs |-> {}] /\ sessions' = {} /\ spawned' = {} /\ followed' = followed
      /\ \A h \in Handlers : req'[h] = Idle
  BY DEF Crash, NoTabs
<1>2. PlaceInv'
  BY <1>1, QuietPlaces
<1>3. RestoreInv'
  <2>1. unrestored' \subseteq Tabs
    BY DEF Crash
  <2>. QED
    BY <1>1, <2>1 DEF RestoreInv, Shown
<1>. QED
  BY <1>2, <1>3 DEF CleanInv

LEMMA CleanRestorePane ==
    ASSUME TypeInv, BootInv, PlaceInv, RestoreInv, RestorePane
    PROVE  PlaceInv' /\ RestoreInv'
<1>1. /\ UNCHANGED <<layouts, file, boot, req, followed>> /\ boot = "restoring" /\ unrestored # {} /\ Placed = Panes
      /\ \A h \in Handlers : req[h] = Idle
  BY PlacedFacts DEF RestorePane, fileVars, BootInv
<1>2. /\ sessions \subseteq Panes /\ spawned \subseteq sessions
      /\ \A p \in spawned : Shown(p) = {} /\ p \in file[Current]
      /\ \A t \in Tabs : layouts[t] \cap Panes \subseteq sessions
      /\ \A t \in unrestored : layouts[t] = {}
  BY <1>1 DEF TypeInv, RestoreInv
<1>3. /\ \A p \in Panes : \A t, u \in Tabs : p \in layouts[t] \cap layouts[u] => t = u
      /\ \A p \in sessions : (\E t \in Tabs : p \in layouts[t]) \/ p \in spawned
  <2>1. \A h \in Handlers : \A p \in Placed : ~Holds(req[h], p)
    BY <1>1, IdleHands, Zenon
  <2>. QED
    BY <1>1, <1>2, <2>1 DEF PlaceInv, Shown
<1>4. PICK p \in ToSpawn :
        \/ /\ Spawnable(p) /\ sessions' = sessions \cup {p} /\ spawned' = spawned \cup {p}
           /\ UNCHANGED unrestored
        \/ /\ sessions' = sessions \ spawned /\ spawned' = {} /\ unrestored' = unrestored \ {Current}
  BY Zenon DEF RestorePane
<1>5. CASE /\ Spawnable(p) /\ sessions' = sessions \cup {p} /\ spawned' = spawned \cup {p}
           /\ UNCHANGED unrestored
  <2>1. p \in Panes /\ p \in file[Current] /\ p \notin sessions
    BY <1>4, <1>5 DEF ToSpawn, Spawnable
  <2>2. PlaceInv'
    BY <1>1, <1>3, <1>5, QuietPlaces
  <2>3. Shown(p) = {}
    BY <1>2, <2>1 DEF Shown
  <2>4. Current' = Current
    BY <1>5 DEF Current
  <2>5. \A q : Shown(q)' = Shown(q)
    BY <1>1 DEF Shown
  <2>6. \A q \in spawned' : Shown(q)' = {} /\ unrestored' # {} /\ q \in file'[Current']
    BY <1>1, <1>2, <1>5, <2>1, <2>3, <2>4, <2>5
  <2>7. /\ spawned' \subseteq sessions'
        /\ \A t \in Tabs : layouts'[t] \cap Panes \subseteq sessions'
        /\ \A t \in unrestored' : layouts'[t] = {}
    BY <1>1, <1>2, <1>5
  <2>. QED
    BY <2>2, <2>6, <2>7 DEF RestoreInv
<1>6. CASE sessions' = sessions \ spawned /\ spawned' = {} /\ unrestored' = unrestored \ {Current}
  <2>1. PlaceInv'
    BY <1>1, <1>3, <1>6, QuietPlaces
  <2>2. \A t \in Tabs : layouts'[t] \cap Panes \subseteq sessions'
    BY <1>1, <1>2, <1>6 DEF Shown
  <2>. QED
    BY <1>1, <1>2, <1>6, <2>1, <2>2 DEF RestoreInv
<1>. QED
  BY <1>4, <1>5, <1>6

LEMMA CleanRestoreTab ==
    ASSUME TypeInv, BootInv, PlaceInv, RestoreInv, RestoreTab
    PROVE  PlaceInv' /\ RestoreInv'
<1>1. /\ UNCHANGED <<sessions, file, boot, req, followed>> /\ boot = "restoring" /\ unrestored # {} /\ Placed = Panes
      /\ \A h \in Handlers : req[h] = Idle
      /\ spawned' = {} /\ unrestored' = unrestored \ {Current} /\ ToSpawn = {}
      /\ layouts' = [layouts EXCEPT ![Current] = file[Current]]
  BY PlacedFacts DEF RestoreTab, BootInv, Store
<1>2. /\ sessions \subseteq Panes /\ spawned \subseteq sessions
      /\ \A p \in spawned : Shown(p) = {} /\ p \in file[Current]
      /\ \A t \in Tabs : layouts[t] \cap Panes \subseteq sessions
      /\ \A t \in unrestored : layouts[t] = {}
      /\ DOMAIN layouts = Tabs /\ unrestored \subseteq Tabs
  BY <1>1 DEF TypeInv, RestoreInv, LayoutsOf
<1>3. Current \in unrestored
  BY <1>1 DEF Current
<1>4. file[Current] \cap Panes \subseteq spawned
  BY <1>1 DEF ToSpawn
<1>5. /\ \A p \in Panes : \A t, u \in Tabs : p \in layouts[t] \cap layouts[u] => t = u
      /\ \A p \in sessions : (\E t \in Tabs : p \in layouts[t]) \/ p \in spawned
  <2>1. \A h \in Handlers : \A p \in Placed : ~Holds(req[h], p)
    BY <1>1, IdleHands, Zenon
  <2>. QED
    BY <1>1, <1>2, <2>1 DEF PlaceInv, Shown
<1>. DEFINE c == Current
<1>. HIDE DEF c
<1>6. /\ c \in unrestored /\ unrestored' = unrestored \ {c} /\ layouts[c] = {} /\ layouts'[c] = file[c]
      /\ \A t \in Tabs : t # c => layouts'[t] = layouts[t]
      /\ file[c] \cap Panes \subseteq spawned
      /\ \A p \in spawned : (\A t \in Tabs : p \notin layouts[t]) /\ p \in file[c]
  BY <1>1, <1>2, <1>3, <1>4 DEF c, Shown
<1>7. \A p \in Panes : \A t, u \in Tabs : p \in layouts'[t] \cap layouts'[u] => t = u
  BY <1>2, <1>5, <1>6
<1>8. \A p \in sessions' : \E t \in Tabs : p \in layouts'[t]
  <2>1. SUFFICES ASSUME NEW p \in sessions PROVE \E t \in Tabs : p \in layouts'[t]
    BY <1>1
  <2>2. CASE p \in spawned
    BY <1>2, <1>6, <2>2
  <2>3. CASE \E t \in Tabs : p \in layouts[t]
    BY <1>6, <2>3
  <2>. QED
    BY <1>5, <2>2, <2>3
<1>9. PlaceInv'
  BY <1>1, <1>7, <1>8, QuietPlaces
<1>10. /\ \A t \in Tabs : layouts'[t] \cap Panes \subseteq sessions'
       /\ \A t \in unrestored' : layouts'[t] = {}
  BY <1>1, <1>2, <1>6
<1>. QED
  BY <1>1, <1>9, <1>10 DEF RestoreInv

LEMMA CleanShellEnds ==
    ASSUME TypeInv, BootInv, PlaceInv, RestoreInv, ShellEnds, "early" \notin slips'
    PROVE  PlaceInv' /\ RestoreInv'
<1>1. /\ UNCHANGED <<used, file, boot, req, spawned, unrestored, followed>> /\ boot = "restoring" /\ Placed = Panes
      /\ \A h \in Handlers : req[h] = Idle
  BY PlacedFacts DEF ShellEnds, BootInv, bootVars
<1>2. PICK p : sessions' = sessions \ {p} /\ Purge(p) /\ p \notin spawned
  BY Zenon DEF ShellEnds, Slip
<1>3. \A t \in Tabs : layouts'[t] = layouts[t] \ {p}
  BY <1>1, <1>2, PurgeFacts
<1>4. /\ sessions \subseteq Panes /\ spawned \subseteq sessions
      /\ \A q \in spawned : Shown(q) = {} /\ unrestored # {} /\ q \in file[Current]
      /\ \A t \in Tabs : layouts[t] \cap Panes \subseteq sessions
      /\ \A t \in unrestored : layouts[t] = {}
      /\ unrestored \subseteq Tabs
  BY <1>1 DEF TypeInv, RestoreInv
<1>5. /\ \A q \in Panes : \A t, u \in Tabs : q \in layouts[t] \cap layouts[u] => t = u
      /\ \A q \in sessions : (\E t \in Tabs : q \in layouts[t]) \/ q \in spawned
  <2>1. \A h \in Handlers : \A q \in Placed : ~Holds(req[h], q)
    BY <1>1, IdleHands, Zenon
  <2>. QED
    BY <1>1, <1>4, <2>1 DEF PlaceInv, Shown
<1>6. PlaceInv'
  <2>1. \A q \in sessions' : (\E t \in Tabs : q \in layouts'[t]) \/ q \in spawned'
    BY <1>1, <1>2, <1>3, <1>5
  <2>2. \A q \in Panes : \A t, u \in Tabs : q \in layouts'[t] \cap layouts'[u] => t = u
    BY <1>3, <1>5
  <2>. QED
    BY <1>1, <2>1, <2>2, QuietPlaces
<1>7. Current' = Current
  BY <1>1 DEF Current
<1>8. \A q \in spawned' : Shown(q)' = {} /\ unrestored' # {} /\ q \in file'[Current']
  BY <1>1, <1>3, <1>4, <1>7 DEF Shown
<1>9. /\ spawned' \subseteq sessions'
      /\ \A t \in Tabs : layouts'[t] \cap Panes \subseteq sessions'
      /\ \A t \in unrestored' : layouts'[t] = {}
  BY <1>1, <1>2, <1>3, <1>4
<1>. QED
  BY <1>6, <1>8, <1>9 DEF RestoreInv

\* No step but a crash forgets a slip that the places depend on.
LEMMA CleanBefore ==
    ASSUME TypeInv, BootInv, CleanInv, slips' \cap {"stale", "unannounced", "early"} = {},
           slips \subseteq slips' \cup {"unsaved"}
    PROVE  PlaceInv /\ RestoreInv
BY DEF CleanInv

LEMMA CleanStep ==
    ASSUME TypeInv, BootInv, CleanInv, [Next]_vars
    PROVE  CleanInv'
<1>1. CASE Crash
  BY <1>1, CleanCrash
<1>. SUFFICES ASSUME slips' \cap {"stale", "unannounced", "early"} = {}, ~Crash
              PROVE  PlaceInv' /\ RestoreInv'
  BY <1>1 DEF CleanInv
<1>2. ASSUME NEW h \in Handlers, Reading(h) \/ Storing(h) \/ Taking(h)
      PROVE  PlaceInv' /\ RestoreInv'
  <2>1. Signalled
    BY <1>2, ReadingSignals, StoringSignals, TakingSignals
  <2>2. slips \subseteq slips' \cup {"unsaved"} /\ boot' = "serving"
    BY <2>1 DEF Signalled, bootVars
  <2>3. PlaceInv
    BY <2>2, CleanBefore
  <2>4. "stale" \notin slips'
    OBVIOUS
  <2>. QED
    BY <1>2, <2>2, <2>3, <2>4, PlaceHandled DEF RestoreInv
<1>3. ASSUME \/ \E p \in Panes : ConnectTerminal(p)
             \/ ListTabs \/ Register \/ ReceiveList \/ Disconnect \/ Deliver
             \/ BeginSnapshot \/ ReadTab \/ EndSnapshot
      PROVE  PlaceInv' /\ RestoreInv'
  <2>1. /\ UNCHANGED bootVars
        /\ slips \subseteq slips' \cup {"unsaved"}
    BY <1>3 DEF ConnectTerminal, ListTabs, Register, ReceiveList, Disconnect, Deliver,
                BeginSnapshot, ReadTab, EndSnapshot, Write
  <2>2. boot = "serving"
    <3>1. boot = "serving" \/ conn # "away" \/ saving # "idle"
      BY <1>3 DEF ConnectTerminal, ListTabs, Register, ReceiveList, Disconnect, Deliver,
                  BeginSnapshot, ReadTab, EndSnapshot
    <3>. QED
      BY <3>1 DEF BootInv, TypeInv
  <2>3. PlaceInv
    BY <2>1, CleanBefore
  <2>4. "unannounced" \notin slips'
    OBVIOUS
  <2>. QED
    BY <1>3, <2>1, <2>2, <2>3, <2>4, PlaceOthers DEF RestoreInv, bootVars
<1>4. ASSUME RestorePane \/ RestoreTab \/ ShellEnds \/ Serve
      PROVE  PlaceInv' /\ RestoreInv'
  <2>1. slips \subseteq slips' \cup {"unsaved"} /\ "early" \notin slips'
    BY <1>4 DEF RestorePane, RestoreTab, ShellEnds, Serve, Store
  <2>2. PlaceInv /\ RestoreInv
    BY <2>1, CleanBefore
  <2>3. CASE Serve
    <3>1. UNCHANGED <<layouts, sessions, req, spawned, followed>> /\ boot' = "serving"
      BY <2>3 DEF Serve, serverVars
    <3>. QED
      BY <2>2, <3>1, PlaceSame DEF RestoreInv
  <2>. QED
    BY <1>4, <2>1, <2>2, <2>3, CleanRestorePane, CleanRestoreTab, CleanShellEnds
<1>5. ASSUME UNCHANGED vars PROVE PlaceInv' /\ RestoreInv'
  <2>1. UNCHANGED <<layouts, sessions, file, bootVars, slips>>
    BY <1>5 DEF vars, serverVars, fileVars
  <2>2. PlaceInv /\ RestoreInv
    BY <2>1, CleanBefore
  <2>3. PlaceInv'
    BY <1>5, <2>2, PlaceOthers
  <2>4. RestoreInv'
    <3>1. Current' = Current
      BY <2>1 DEF Current, bootVars
    <3>. QED
      BY <2>1, <2>2, <3>1 DEF RestoreInv, Shown, bootVars
  <2>. QED
    BY <2>3, <2>4
<1>. QED
  BY <1>2, <1>3, <1>4, <1>5, Zenon DEF Next, Reading, Storing, Taking

-----------------------------------------------------------------------------
(* The theorems.                                                           *)

LEMMA StartsIn ==
    ASSUME Init
    PROVE  BootInv /\ CleanInv /\ FileInv
<1>1. BootInv
  BY DEF Init, BootInv
<1>2. FileInv
  BY DEF Init, FileInv
<1>3. PlaceInv
  <2>1. \A h \in Handlers : req[h] = Idle
    BY DEF Init
  <2>2. \A h \in Handlers : /\ \A p \in Placed : ~Holds(req[h], p)
                            /\ \A t \in Tabs : ~Reserves(req[h], t)
    BY <2>1, EmptyHands DEF Idle
  <2>3. layouts = StartTabs /\ sessions = Panes \cap UNION {StartTabs[t] : t \in Tabs}
    BY DEF Init
  <2>4. \A p \in Placed : \A t, u \in Tabs : p \in layouts[t] \cap layouts[u] => t = u
    BY <2>3, StartAssumption DEF Placed, OneEach
  <2>5. \A p \in sessions : Shown(p) # {}
    BY <2>3 DEF Shown
  <2>. QED
    BY <2>2, <2>4, <2>5 DEF PlaceInv
<1>4. RestoreInv
  BY DEF Init, RestoreInv
<1>. QED
  BY <1>1, <1>2, <1>3, <1>4 DEF CleanInv

\* The inductive invariant holds of every behaviour.
THEOREM Invariance == Spec => []IInv
<1>1. Init => IInv
  BY TypeInit, StartsIn DEF IInv
<1>2. IInv /\ [Next]_vars => IInv'
  BY TypeStep, FileStep, CleanStep DEF IInv
<1>. QED
  BY <1>1, <1>2, PTL DEF Spec

\* Every variable holds a value of its kind, and every layout, shown, read or stored,
\* is made of ids that were handed out (Uuid::new_v4).
THEOREM TypeCorrect == Spec => []TypeOK
<1>1. IInv => TypeOK
  <2>. SUFFICES ASSUME TypeInv PROVE TypeOK
    BY DEF IInv
  <2>1. /\ {layouts, replica, draft, file} \subseteq [Tabs -> SUBSET Leaves]
        /\ (UNION {layouts[t] : t \in Tabs}) \cup sessions \subseteq used
    BY DEF TypeInv, LayoutsOf
  <2>2. ASSUME NEW h \in Handlers, NEW i \in DOMAIN req[h].out
        PROVE  Heard(req[h].out[i]) \in Notes
    <3>1. req[h].out \in Seq(NotesOfIds(used, clock))
      BY Fields DEF TypeInv
    <3>2. req[h].out[i] \in NotesOfIds(used, clock)
      BY <3>1
    <3>. QED
      BY <3>2 DEF NotesOfIds, Heard, Notes
  <2>3. ASSUME NEW i \in DOMAIN queue PROVE queue[i] \in Notes
    <3>1. queue \in Seq(HeardOf(used))
      BY DEF TypeInv
    <3>2. queue[i] \in HeardOf(used)
      BY <3>1
    <3>. QED
      BY <3>2 DEF HeardOf, Notes
  <2>4. /\ sessions \subseteq Panes /\ used \subseteq Leaves \cup Tabs
        /\ {version, told} \subseteq [Tabs -> 0 .. clock] /\ latest \in 0 .. clock
        /\ conn \in {"away", "registered", "listed"}
        /\ saving \in {"idle", "reading"}
        /\ unread \subseteq Tabs /\ unrestored \subseteq Tabs
        /\ boot \in {"serving", "restoring"} /\ spawned \subseteq Panes
        /\ ops \in 0 .. MaxOps[followed] /\ crashes \in 0 .. MaxCrashes
        /\ slips \subseteq {"stale", "reordered", "late", "merged", "overtaken", "unannounced",
                       "unsaved", "early"}
    BY DEF TypeInv
  <2>5. dirty \in BOOLEAN
    BY DEF TypeInv
  <2>. QED
    BY <2>1, <2>2, <2>3, <2>4, <2>5, Zenon DEF TypeOK
<1>. QED
  BY <1>1, Invariance, PTL

\* A set of tabs no two of which differ.
LEMMA OneAtMost ==
    ASSUME NEW S, \A t, u \in S : t = u
    PROVE  /\ Cardinality(S) <= 1
           /\ S # {} => Cardinality(S) = 1
<1>1. CASE S = {}
  BY <1>1, FS_EmptySet
<1>2. CASE S # {}
  <2>1. PICK t \in S : TRUE
    BY <1>2
  <2>. DEFINE L == {t}
  <2>2. S = L
    BY <2>1
  <2>3. Cardinality(L) = 1
    BY FS_Singleton
  <2>. HIDE DEF L
  <2>4. Cardinality(S) = 1
    BY <2>2, <2>3, Zenon
  <2>. QED
    BY <2>4, <1>2
<1>. QED
  BY <1>1, <1>2

\* Once the requests are done, a pane with a session is shown in exactly one tab, unless
\* insert_tab_locked stored a stale copy, tab_list dropped the tab, or a shell ended in a
\* restart before its tab was stored.
THEOREM PanesInOnePlace == Spec => []OnePlace
<1>1. IInv => OnePlace
  <2>. SUFFICES ASSUME IInv, Quiet, slips \cap {"stale", "unannounced", "early"} = {},
                       NEW p \in sessions
                PROVE  Cardinality(Shown(p)) = 1
    BY DEF OnePlace
  <2>1. PlaceInv /\ spawned = {} /\ p \in Placed
    BY PlacedFacts DEF IInv, CleanInv, BootInv, TypeInv, Quiet
  <2>2. \A h \in Handlers : ~Holds(req[h], p)
    BY <2>1, IdleHands, Zenon DEF Quiet, IInv
  <2>3. Shown(p) # {}
    BY <2>1, <2>2 DEF PlaceInv
  <2>4. \A t, u \in Shown(p) : t = u
    BY <2>1 DEF PlaceInv, Shown
  <2>. QED
    BY <2>3, <2>4, OneAtMost
<1>. QED
  BY <1>1, Invariance, PTL

\* restore_tabs shows no pane in two tabs, whatever session.json says, unless its shell
\* ended before its tab was stored.
THEOREM RestoresOnce == Spec => []RestoredOnce
<1>1. IInv => RestoredOnce
  <2>. SUFFICES ASSUME IInv, boot = "restoring", "early" \notin slips, NEW p \in Panes
                PROVE  Cardinality(Shown(p)) <= 1
    BY DEF RestoredOnce
  <2>1. slips \cap {"stale", "unannounced", "early"} = {}
    BY DEF IInv, BootInv
  <2>2. PlaceInv
    BY <2>1 DEF IInv, CleanInv
  <2>3. p \in Placed
    BY PlacedFacts DEF IInv
  <2>4. \A t, u \in Shown(p) : t = u
    BY <2>2, <2>3 DEF PlaceInv, Shown
  <2>. QED
    BY <2>4, OneAtMost
<1>. QED
  BY <1>1, Invariance, PTL

\* When the snapshot task waits for a signal, session.json has every change, if it could
\* be written: what changed while the tabs were read left a signal.
THEOREM FileIsCurrent == Spec => []FileCatchesUp
<1>1. IInv => FileCatchesUp
  BY DEF IInv, FileInv, FileCatchesUp
<1>. QED
  BY <1>1, Invariance, PTL

=============================================================================
