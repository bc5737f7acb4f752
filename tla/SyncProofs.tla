------------------------------ MODULE SyncProofs ------------------------------
(***************************************************************************)
(* A client of /ws/sync ends up with what the server has: proofs of        *)
(* GoneTabsGo and of InSync, for any panes, tabs, handlers and numbers of  *)
(* requests.                                                               *)
(***************************************************************************)
EXTENDS TabSyncProofs

-----------------------------------------------------------------------------
(* What the requests have still to tell.                                   *)

\* The requests of c between the store of their source and that of their destination, and
\* the broadcasts they have still to send.
InHand(r)  == r.op \in {"move", "extract"} /\ r.pc = "dest"
Whole(r)   == r.op = "move" /\ r.pane = Nobody
Between(c) == {h \in Handlers : InHand(c[h])}
Pending(c) == UNION {{c[h].out[i] : i \in DOMAIN c[h].out} : h \in Handlers}

AnyLayouts == [Tabs -> SUBSET Leaves]
AnyNotes   == [kind : {"created", "updated", "closed"}, tab : Tabs, leaves : SUBSET Leaves,
               own : Nat, last : Nat]

-----------------------------------------------------------------------------
(* What a client shows once it has received the broadcasts sent so far, S, and what the    *)
(* server has, lay, differ only by the notes P that are still to be sent and by what the   *)
(* requests B of c have in hand.                                                           *)

\* No leaf is in two tabs, or in a tab and in hand, or in the hands of two requests.
Apart(lay, B, c) ==
    /\ \A q \in Leaves : \A t, u \in Tabs : q \in lay[t] /\ q \in lay[u] => t = u
    /\ \A h \in B : \A q \in Moved(c[h]) : \A t \in Tabs : q \notin lay[t]
    /\ \A h, k \in B : \A q \in Moved(c[h]) : q \in Moved(c[k]) => h = k

\* A request has the leaf in hand that it took out of the tab.
Lifted(B, c, t, q) == \E h \in B : c[h].tab = t /\ q \in Moved(c[h])

\* What the client shows of a tab and the tab has not is told, or in hand; what the tab has
\* and the client does not show is told.
ShownGoes(lay, P, B, c, S) ==
    \A t \in Tabs : \A q \in S[t] \ lay[t] :
        (\E n \in P : n.tab = t /\ q \notin n.leaves) \/ Lifted(B, c, t, q)
ShownComes(lay, P, S) ==
    \A t \in Tabs : \A q \in lay[t] \ S[t] : \E n \in P : n.tab = t /\ q \in n.leaves

\* The same of what a note says of a tab.
ToldGoes(lay, P, B, c) ==
    \A m \in P : \A q \in m.leaves \ lay[m.tab] :
        \/ \E n \in P : n.tab = m.tab /\ m.own < n.own /\ q \notin n.leaves
        \/ Lifted(B, c, m.tab, q)
ToldComes(lay, P) ==
    \A m \in P : \A q \in lay[m.tab] \ m.leaves :
        \E n \in P : n.tab = m.tab /\ m.own < n.own /\ q \in n.leaves

\* The same of what a request has left in the tab it took leaves out of; nothing is told
\* of that tab that happened later, and a whole tab is taken once.
LeftGoes(lay, B, c) ==
    \A h \in B : \A q \in Remains(c[h]) \ lay[c[h].tab] :
        \E k \in B : c[k].tab = c[h].tab /\ q \in Moved(c[k]) /\ c[h].first < c[k].first
LeftComes(lay, B, c) == \A h \in B : lay[c[h].tab] \subseteq Remains(c[h])
LeftLast(P, B, c) ==
    /\ \A h \in B : \A m \in P : m.tab = c[h].tab => m.own < c[h].first
    /\ \A h, k \in B : h # k /\ c[h].tab = c[k].tab =>
         /\ c[h].first # c[k].first
         /\ Whole(c[h]) => c[k].first < c[h].first

\* A note is sent before another one, or is the TabClosed of its whole-tab move.
Clears(n, m) == n.last < m.last \/ (n.last = m.last /\ n.own < n.last)

\* When a leaf is told to be in a tab, a note before that has taken it out of the other tab
\* where the client shows it, or where an earlier note says it is.
ShownOnce(P, S) ==
    \A m \in P : \A t \in Tabs \ {m.tab} : \A q \in m.leaves : q \in S[t] =>
        \E n \in P : n.tab = t /\ q \notin n.leaves /\ Clears(n, m)
ToldOnce(P) ==
    \A l, m \in P : l.tab # m.tab /\ l.last <= m.last => \A q \in m.leaves : q \in l.leaves =>
        \E n \in P : n.tab = l.tab /\ l.own < n.own /\ q \notin n.leaves /\ Clears(n, m)

\* A tab that is told to be updated is shown, or its creation is still to be told, first
\* of all that is told of it; a tab that is told to be closed is gone.
Creation(P, t)  == \E n \in P : n.tab = t /\ n.kind = "created"
Found(P, B, c, S) ==
    /\ \A m \in P : m.kind = "updated" => S[m.tab] # {} \/ Creation(P, m.tab)
    /\ \A h \in B : S[c[h].tab] # {} \/ Creation(P, c[h].tab)
CreatedFirst(P, S) ==
    \A m \in P : m.kind = "created" =>
        S[m.tab] = {} /\ \A n \in P : n.tab = m.tab /\ n # m => m.own < n.own
ClosedLast(lay, P, B, c) ==
    \A n \in P : n.kind = "closed" =>
        /\ lay[n.tab] = {}
        /\ \A h \in B : c[h].tab # n.tab
        /\ \A m \in P : m.tab = n.tab /\ m.kind # "closed" => m.own < n.own

Agree(lay, P, B, c, S) ==
    /\ ShownGoes(lay, P, B, c, S) /\ ShownComes(lay, P, S)
    /\ ToldGoes(lay, P, B, c) /\ ToldComes(lay, P)
    /\ LeftGoes(lay, B, c) /\ LeftComes(lay, B, c) /\ LeftLast(P, B, c)
    /\ ShownOnce(P, S) /\ ToldOnce(P)
    /\ Found(P, B, c, S) /\ CreatedFirst(P, S) /\ ClosedLast(lay, P, B, c)

\* What the lemmas about it are about.
Settled(lay, P, B, c, S) ==
    /\ lay \in AnyLayouts /\ S \in AnyLayouts /\ P \subseteq AnyNotes
    /\ \A h \in B : /\ c[h].tab \in Tabs /\ c[h].first \in Nat
                    /\ Moved(c[h]) \subseteq Leaves /\ Remains(c[h]) \subseteq Leaves
    /\ \A m \in P : m.leaves = {} <=> m.kind = "closed"

\* A tab with leaves is shown, or its creation is still to be told.
LEMMA PresentIsFound ==
    ASSUME NEW lay, NEW P, NEW B, NEW c, NEW S, Settled(lay, P, B, c, S), Agree(lay, P, B, c, S),
           NEW t \in Tabs, lay[t] # {}
    PROVE  S[t] # {} \/ Creation(P, t)
<1>1. PICK q : q \in lay[t]
  OBVIOUS
<1>2. CASE q \in S[t]
  BY <1>2
<1>3. CASE q \notin S[t]
  <2>1. PICK n \in P : n.tab = t /\ q \in n.leaves
    BY <1>1, <1>3 DEF Agree, ShownComes
  <2>2. n.kind \in {"created", "updated", "closed"} /\ n.kind # "closed"
    BY <2>1 DEF Settled, AnyNotes
  <2>. QED
    BY <2>1, <2>2 DEF Agree, Found, Creation
<1>. QED
  BY <1>2, <1>3

\* Changes that are told at once, of tabs no request has taken leaves out of.
LEMMA AgreeTold ==
    ASSUME NEW lay, NEW P, NEW B, NEW c, NEW S, Settled(lay, P, B, c, S), Agree(lay, P, B, c, S),
           NEW new, NEW N, Settled(new, P \cup N, B, c, S), Apart(lay, B, c), Apart(new, B, c),
           NEW now \in Nat,
           \A m \in P : m.own <= now /\ m.last <= now,
           \A n \in N : n.own = now + 1 /\ n.last = now + 1,
           \A n \in N : \A h \in B : n.tab # c[h].tab,
           \A n \in N : new[n.tab] = n.leaves,
           \A n \in N : n.kind = "created" => lay[n.tab] = {} /\ \A m \in P : m.tab # n.tab,
           \A n \in N : n.kind = "updated" => lay[n.tab] # {},
           \A t \in Tabs : new[t] = lay[t] \/ \E n \in N : n.tab = t,
           \A t \in Tabs : \A q \in new[t] \ lay[t] : /\ \A u \in Tabs : q \notin lay[u]
                                                      /\ \A h \in B : q \notin Moved(c[h]),
           \A n, m \in N : n.tab = m.tab => n = m
    PROVE  Agree(new, P \cup N, B, c, S)
<1>1. /\ P \subseteq AnyNotes /\ N \subseteq AnyNotes /\ lay \in AnyLayouts /\ new \in AnyLayouts
      /\ S \in AnyLayouts /\ \A h \in B : c[h].tab \in Tabs
      /\ \A m \in P \cup N : m.leaves = {} <=> m.kind = "closed"
  BY DEF Settled
<1>2. \A m \in P \cup N : /\ m.tab \in Tabs /\ m.own \in Nat /\ m.last \in Nat /\ m.leaves \subseteq Leaves
                          /\ m.kind \in {"created", "updated", "closed"}
  BY <1>1 DEF AnyNotes
<1>3. \A h \in B : new[c[h].tab] = lay[c[h].tab]
  BY <1>1
<1>4. ShownGoes(new, P \cup N, B, c, S)
  <2>. SUFFICES ASSUME NEW t \in Tabs, NEW q \in S[t] \ new[t]
                PROVE  (\E n \in P \cup N : n.tab = t /\ q \notin n.leaves) \/ Lifted(B, c, t, q)
    BY DEF ShownGoes
  <2>1. CASE q \in lay[t]
    BY <2>1
  <2>2. CASE q \notin lay[t]
    BY <2>2 DEF Agree, ShownGoes
  <2>. QED
    BY <2>1, <2>2
<1>5. ShownComes(new, P \cup N, S)
  BY DEF Agree, ShownComes
<1>6. ToldGoes(new, P \cup N, B, c)
  <2>. SUFFICES ASSUME NEW m \in P \cup N, NEW q \in m.leaves \ new[m.tab]
                PROVE  \/ \E n \in P \cup N : n.tab = m.tab /\ m.own < n.own /\ q \notin n.leaves
                       \/ Lifted(B, c, m.tab, q)
    BY DEF ToldGoes
  <2>1. m \in P
    BY <1>2
  <2>2. CASE q \notin lay[m.tab]
    BY <2>1, <2>2 DEF Agree, ToldGoes
  <2>3. CASE q \in lay[m.tab]
    <3>1. PICK n \in N : n.tab = m.tab
      BY <1>2, <2>3
    <3>2. m.own < n.own
      BY <1>2, <2>1
    <3>. QED
      BY <3>1, <3>2
  <2>. QED
    BY <2>2, <2>3
<1>7. ToldComes(new, P \cup N)
  <2>. SUFFICES ASSUME NEW m \in P \cup N, NEW q \in new[m.tab] \ m.leaves
                PROVE  \E n \in P \cup N : n.tab = m.tab /\ m.own < n.own /\ q \in n.leaves
    BY DEF ToldComes
  <2>1. m \in P
    BY <1>2
  <2>2. CASE q \in lay[m.tab]
    BY <2>1, <2>2 DEF Agree, ToldComes
  <2>3. CASE q \notin lay[m.tab]
    <3>1. PICK n \in N : n.tab = m.tab
      BY <1>2, <2>3
    <3>2. m.own < n.own
      BY <1>2, <2>1
    <3>. QED
      BY <3>1, <3>2
  <2>. QED
    BY <2>2, <2>3
<1>8. LeftGoes(new, B, c)
  BY <1>3 DEF Agree, LeftGoes
<1>9. LeftComes(new, B, c)
  BY <1>3 DEF Agree, LeftComes
<1>10. LeftLast(P \cup N, B, c)
  BY DEF Agree, LeftLast
\* A leaf that is in a tab now was not in another one before, nor in hand.
<1>11. ASSUME NEW t \in Tabs, NEW u \in Tabs, t # u, NEW q \in new[t]
       PROVE  q \notin lay[u] /\ q \notin new[u] /\ ~Lifted(B, c, u, q)
  <2>1. q \in Leaves
    BY <1>1 DEF AnyLayouts
  <2>2. q \notin new[u] /\ \A h \in B : q \notin Moved(c[h])
    BY <1>11, <2>1 DEF Apart
  <2>3. q \notin lay[u]
    BY <1>11, <2>1 DEF Apart
  <2>. QED
    BY <2>2, <2>3 DEF Lifted
<1>12. ShownOnce(P \cup N, S)
  <2>. SUFFICES ASSUME NEW m \in P \cup N, NEW t \in Tabs \ {m.tab}, NEW q \in m.leaves, q \in S[t]
                PROVE  \E n \in P \cup N : n.tab = t /\ q \notin n.leaves /\ Clears(n, m)
    BY DEF ShownOnce
  <2>1. CASE m \in P
    BY <2>1 DEF Agree, ShownOnce
  <2>2. CASE m \in N
    <3>1. q \notin lay[t] /\ ~Lifted(B, c, t, q)
      BY <1>2, <1>11, <2>2
    <3>2. PICK n \in P : n.tab = t /\ q \notin n.leaves
      BY <3>1 DEF Agree, ShownGoes
    <3>3. n.last < m.last
      BY <1>2, <2>2
    <3>. QED
      BY <3>2, <3>3 DEF Clears
  <2>. QED
    BY <2>1, <2>2
<1>13. ToldOnce(P \cup N)
  <2>. SUFFICES ASSUME NEW l \in P \cup N, NEW m \in P \cup N, l.tab # m.tab, l.last <= m.last,
                       NEW q \in m.leaves, q \in l.leaves
                PROVE  \E n \in P \cup N : n.tab = l.tab /\ l.own < n.own /\ q \notin n.leaves /\ Clears(n, m)
    BY DEF ToldOnce
  <2>1. CASE l \in P /\ m \in P
    BY <2>1 DEF Agree, ToldOnce
  <2>2. CASE l \in P /\ m \in N
    <3>1. q \notin lay[l.tab] /\ ~Lifted(B, c, l.tab, q)
      BY <1>2, <1>11, <2>2
    <3>2. PICK n \in P : n.tab = l.tab /\ l.own < n.own /\ q \notin n.leaves
      BY <2>2, <3>1 DEF Agree, ToldGoes
    <3>3. n.last < m.last
      BY <1>2, <2>2
    <3>. QED
      BY <3>2, <3>3 DEF Clears
  <2>3. CASE l \in N /\ m \in P
    BY <1>2, <2>3
  <2>4. CASE l \in N /\ m \in N
    BY <1>2, <1>11, <2>4
  <2>. QED
    BY <2>1, <2>2, <2>3, <2>4
<1>14. Found(P \cup N, B, c, S)
  <2>0. ASSUME NEW t \in Tabs, lay[t] # {} PROVE S[t] # {} \/ Creation(P, t)
    BY <2>0, PresentIsFound, SMTT(30)
  <2>1. \A t : Creation(P, t) => Creation(P \cup N, t)
    BY DEF Creation
  <2>2. ASSUME NEW m \in P \cup N, m.kind = "updated" PROVE S[m.tab] # {} \/ Creation(P \cup N, m.tab)
    <3>1. CASE m \in P
      BY <2>1, <2>2, <3>1 DEF Agree, Found
    <3>2. CASE m \in N
      <4>1. lay[m.tab] # {} /\ m.tab \in Tabs
        BY <1>2, <2>2, <3>2
      <4>2. S[m.tab] # {} \/ Creation(P, m.tab)
        BY <2>0, <4>1
      <4>. QED
        BY <2>1, <4>2
    <3>. QED
      BY <3>1, <3>2
  <2>3. \A h \in B : S[c[h].tab] # {} \/ Creation(P \cup N, c[h].tab)
    BY <2>1 DEF Agree, Found
  <2>. QED
    BY <2>2, <2>3 DEF Found
<1>15. CreatedFirst(P \cup N, S)
  <2>. SUFFICES ASSUME NEW m \in P \cup N, m.kind = "created"
                PROVE  S[m.tab] = {} /\ \A n \in P \cup N : n.tab = m.tab /\ n # m => m.own < n.own
    BY DEF CreatedFirst
  <2>1. CASE m \in P
    <3>1. S[m.tab] = {} /\ \A n \in P : n.tab = m.tab /\ n # m => m.own < n.own
      BY <2>1 DEF Agree, CreatedFirst
    <3>2. \A n \in N : m.own < n.own
      BY <1>2, <2>1
    <3>. QED
      BY <3>1, <3>2
  <2>2. CASE m \in N
    <3>1. \A q \in S[m.tab] : FALSE
      BY <1>2, <2>2 DEF Agree, ShownGoes, Lifted
    <3>. QED
      BY <2>2, <3>1
  <2>. QED
    BY <2>1, <2>2
<1>16. ClosedLast(new, P \cup N, B, c)
  <2>. SUFFICES ASSUME NEW n \in P \cup N, n.kind = "closed"
                PROVE  /\ new[n.tab] = {}
                       /\ \A h \in B : c[h].tab # n.tab
                       /\ \A m \in P \cup N : m.tab = n.tab /\ m.kind # "closed" => m.own < n.own
    BY DEF ClosedLast
  <2>1. CASE n \in P
    <3>1. lay[n.tab] = {} /\ (\A h \in B : c[h].tab # n.tab)
          /\ \A m \in P : m.tab = n.tab /\ m.kind # "closed" => m.own < n.own
      BY <2>1 DEF Agree, ClosedLast
    <3>2. \A m \in N : m.tab = n.tab => m.kind = "closed"
      BY <1>2, <2>1, <3>1
    <3>3. new[n.tab] = {}
      BY <1>1, <1>2, <2>1, <3>1, <3>2
    <3>. QED
      BY <3>1, <3>2, <3>3
  <2>2. CASE n \in N
    <3>1. \A m \in P : m.own < n.own
      BY <1>2, <2>2
    <3>2. n.leaves = {}
      BY <1>1
    <3>. QED
      BY <2>2, <3>1, <3>2
  <2>. QED
    BY <2>1, <2>2
<1>. QED
  BY <1>4, <1>5, <1>6, <1>7, <1>8, <1>9, <1>10, <1>12, <1>13, <1>14, <1>15, <1>16 DEF Agree


\* What the requests hold matters only of those that have leaves in hand.
LEMMA AgreeHands ==
    ASSUME NEW lay, NEW P, NEW B, NEW c, NEW d, NEW S, Agree(lay, P, B, c, S),
           \A h \in B : d[h] = c[h]
    PROVE  Agree(lay, P, B, d, S)
<1>1. ShownGoes(lay, P, B, d, S)
  BY DEF Agree, ShownGoes, Lifted
<1>2. ToldGoes(lay, P, B, d)
  BY DEF Agree, ToldGoes, Lifted
<1>3. LeftGoes(lay, B, d) /\ LeftComes(lay, B, d)
  BY DEF Agree, LeftGoes, LeftComes
<1>4. LeftLast(P, B, d)
  BY DEF Agree, LeftLast
<1>5. Found(P, B, d, S)
  BY DEF Agree, Found
<1>6. ClosedLast(lay, P, B, d)
  BY DEF Agree, ClosedLast
<1>. QED
  BY <1>1, <1>2, <1>3, <1>4, <1>5, <1>6 DEF Agree

\* A request takes leaves out of a tab.
LEMMA AgreeLifted ==
    ASSUME NEW lay, NEW P, NEW B, NEW c, NEW S, Settled(lay, P, B, c, S), Agree(lay, P, B, c, S),
           NEW h, h \notin B, NEW now \in Nat,
           c[h].tab \in Tabs, c[h].copy = lay[c[h].tab], c[h].copy # {},
           Moved(c[h]) \subseteq c[h].copy, c[h].first = now + 1,
           \A m \in P : m.own <= now /\ m.last <= now,
           \A k \in B : c[k].first <= now,
           NEW new, new = [lay EXCEPT ![c[h].tab] = Remains(c[h])]
    PROVE  Agree(new, P, B \cup {h}, c, S)
<1>. DEFINE t == c[h].tab
<1>1. /\ lay \in AnyLayouts /\ S \in AnyLayouts /\ P \subseteq AnyNotes
      /\ \A k \in B : c[k].tab \in Tabs /\ c[k].first \in Nat
  BY DEF Settled
<1>2. \A m \in P : m.tab \in Tabs /\ m.own \in Nat /\ m.last \in Nat
  BY <1>1 DEF AnyNotes
<1>3. /\ new[t] = Remains(c[h])
      /\ \A u \in Tabs : new[u] \subseteq lay[u]
      /\ \A u \in Tabs : u # t => new[u] = lay[u]
      /\ \A u \in Tabs : \A q \in lay[u] \ new[u] : u = t /\ q \in Moved(c[h])
  BY <1>1 DEF AnyLayouts, Remains
<1>4. \A u, q : Lifted(B, c, u, q) => Lifted(B \cup {h}, c, u, q)
  BY DEF Lifted
<1>5. \A u \in Tabs : \A q \in lay[u] \ new[u] : Lifted(B \cup {h}, c, u, q)
  BY <1>3 DEF Lifted
<1>6. ShownGoes(new, P, B \cup {h}, c, S)
  BY <1>4, <1>5 DEF Agree, ShownGoes
<1>7. ShownComes(new, P, S)
  BY <1>3 DEF Agree, ShownComes
<1>8. ToldGoes(new, P, B \cup {h}, c)
  BY <1>2, <1>4, <1>5 DEF Agree, ToldGoes
<1>9. ToldComes(new, P)
  BY <1>2, <1>3 DEF Agree, ToldComes
<1>10. LeftGoes(new, B \cup {h}, c)
  <2>. SUFFICES ASSUME NEW g \in B \cup {h}, NEW q \in Remains(c[g]) \ new[c[g].tab]
                PROVE  \E k \in B \cup {h} : /\ c[k].tab = c[g].tab /\ q \in Moved(c[k])
                                             /\ c[g].first < c[k].first
    BY DEF LeftGoes
  <2>1. g \in B
    BY <1>3
  <2>2. CASE q \in lay[c[g].tab]
    <3>1. c[g].tab = t /\ q \in Moved(c[h])
      BY <1>1, <1>3, <2>1, <2>2
    <3>2. c[g].first < c[h].first
      BY <1>1, <2>1
    <3>. QED
      BY <3>1, <3>2
  <2>3. CASE q \notin lay[c[g].tab]
    BY <2>1, <2>3 DEF Agree, LeftGoes
  <2>. QED
    BY <2>2, <2>3
<1>11. LeftComes(new, B \cup {h}, c)
  BY <1>1, <1>3 DEF Agree, LeftComes
<1>12. \A k \in B : c[k].tab = t => ~Whole(c[k])
  BY <1>1 DEF Agree, LeftComes, Whole, Remains, Moved
<1>13. LeftLast(P, B \cup {h}, c)
  <2>1. \A k \in B \cup {h} : \A m \in P : m.tab = c[k].tab => m.own < c[k].first
    BY <1>2 DEF Agree, LeftLast
  <2>2. ASSUME NEW k \in B \cup {h}, NEW l \in B \cup {h}, k # l, c[k].tab = c[l].tab
        PROVE  c[k].first # c[l].first /\ (Whole(c[k]) => c[l].first < c[k].first)
    <3>1. CASE k \in B /\ l \in B
      BY <2>2, <3>1 DEF Agree, LeftLast
    <3>2. CASE k = h /\ l \in B
      <4>1. c[l].first < c[k].first
        BY <1>1, <3>2
      <4>. QED
        BY <1>1, <3>2, <4>1
    <3>3. CASE k \in B /\ l = h
      <4>1. c[k].first < c[l].first /\ ~Whole(c[k])
        BY <1>1, <1>12, <2>2, <3>3
      <4>. QED
        BY <1>1, <3>3, <4>1
    <3>. QED
      BY <2>2, <3>1, <3>2, <3>3
  <2>. QED
    BY <2>1, <2>2 DEF LeftLast
<1>14. Found(P, B \cup {h}, c, S)
  <2>1. S[t] # {} \/ Creation(P, t)
    BY PresentIsFound, SMTT(30)
  <2>. QED
    BY <2>1 DEF Agree, Found
<1>15. ClosedLast(new, P, B \cup {h}, c)
  <2>. SUFFICES ASSUME NEW n \in P, n.kind = "closed"
                PROVE  /\ new[n.tab] = {}
                       /\ \A k \in B \cup {h} : c[k].tab # n.tab
                       /\ \A m \in P : m.tab = n.tab /\ m.kind # "closed" => m.own < n.own
    BY DEF ClosedLast
  <2>1. lay[n.tab] = {} /\ (\A k \in B : c[k].tab # n.tab)
        /\ \A m \in P : m.tab = n.tab /\ m.kind # "closed" => m.own < n.own
    BY DEF Agree, ClosedLast
  <2>2. n.tab # t
    BY <2>1
  <2>. QED
    BY <1>2, <1>3, <2>1, <2>2
<1>. QED
  BY <1>6, <1>7, <1>8, <1>9, <1>10, <1>11, <1>13, <1>14, <1>15 DEF Agree

\* A request puts them into another tab, and has both tabs to tell of.
LEMMA AgreePut ==
    ASSUME NEW lay, NEW P, NEW B, NEW c, NEW S, Settled(lay, P, B, c, S), Agree(lay, P, B, c, S),
           Apart(lay, B, c), NEW h \in B, NEW now \in Nat, NEW v \in Tabs, NEW from, NEW to, NEW new,
           new = [lay EXCEPT ![v] = lay[v] \cup Moved(c[h])],
           Settled(new, P \cup {from, to}, B \ {h}, c, S),
           v # c[h].tab, \A k \in B : c[k].tab # v,
           from.tab = c[h].tab, from.leaves = Remains(c[h]), from.own = c[h].first,
           from.last = now + 1, from.kind \in {"updated", "closed"},
           to.tab = v, to.leaves = new[v], to.own = now + 1, to.last = now + 1,
           to.kind = "created" => lay[v] = {} /\ \A m \in P : m.tab # v,
           to.kind = "updated" => lay[v] # {},
           to.leaves # {}, from.leaves = {} => Whole(c[h]),
           \A m \in P : m.own <= now /\ m.last <= now,
           \A k \in B : c[k].first <= now,
           \A k \in B : c[k].tab = c[h].tab => c[h].first <= c[k].first
    PROVE  Agree(new, P \cup {from, to}, B \ {h}, c, S)
<1>. DEFINE t == c[h].tab
            P2 == P \cup {from, to}
            B2 == B \ {h}
<1>1. /\ lay \in AnyLayouts /\ new \in AnyLayouts /\ S \in AnyLayouts /\ P2 \subseteq AnyNotes
      /\ \A k \in B : c[k].tab \in Tabs /\ c[k].first \in Nat
      /\ \A k \in B : Moved(c[k]) \subseteq Leaves /\ Remains(c[k]) \subseteq Leaves
      /\ \A m \in P2 : m.leaves = {} <=> m.kind = "closed"
  BY DEF Settled
<1>2. \A m \in P2 : /\ m.tab \in Tabs /\ m.own \in Nat /\ m.last \in Nat /\ m.leaves \subseteq Leaves
                    /\ m.kind \in {"created", "updated", "closed"}
  BY <1>1 DEF AnyNotes
<1>3. /\ new[v] = lay[v] \cup Moved(c[h])
      /\ \A u \in Tabs : u # v => new[u] = lay[u]
      /\ new[t] = lay[t]
  BY <1>1 DEF AnyLayouts
<1>4. \A u \in Tabs : lay[u] \subseteq new[u]
  BY <1>3
<1>5. from \in P2 /\ to \in P2 /\ P \subseteq P2 /\ B2 \subseteq B /\ t \in Tabs /\ t # v
  BY <1>1
<1>6. \A n \in P2 : n \in P \/ n = from \/ n = to
  OBVIOUS
\* A leaf that was in hand is in that of another request, or is not left in the tab.
<1>7. ASSUME NEW u \in Tabs, NEW q, Lifted(B, c, u, q)
      PROVE  Lifted(B2, c, u, q) \/ (u = t /\ q \notin Remains(c[h]))
  BY <1>7 DEF Lifted, Remains
<1>8. ShownGoes(new, P2, B2, c, S)
  <2>. SUFFICES ASSUME NEW u \in Tabs, NEW q \in S[u] \ new[u]
                PROVE  (\E n \in P2 : n.tab = u /\ q \notin n.leaves) \/ Lifted(B2, c, u, q)
    BY DEF ShownGoes
  <2>1. q \notin lay[u]
    BY <1>4
  <2>2. (\E n \in P : n.tab = u /\ q \notin n.leaves) \/ Lifted(B, c, u, q)
    BY <2>1 DEF Agree, ShownGoes
  <2>3. CASE Lifted(B, c, u, q)
    BY <1>5, <1>7, <2>3
  <2>. QED
    BY <2>2, <2>3
<1>9. ShownComes(new, P2, S)
  <2>. SUFFICES ASSUME NEW u \in Tabs, NEW q \in new[u] \ S[u]
                PROVE  \E n \in P2 : n.tab = u /\ q \in n.leaves
    BY DEF ShownComes
  <2>1. CASE q \in lay[u]
    BY <2>1 DEF Agree, ShownComes
  <2>2. CASE u = v
    BY <2>2
  <2>. QED
    BY <1>3, <2>1, <2>2
<1>10. \A m \in P : m.tab = t => m.own < from.own
  BY DEF Agree, LeftLast
<1>11. \A m \in P : m.own < to.own /\ m.last < to.last /\ m.last < from.last
  BY <1>2
<1>12. \A k \in B2 : c[k].tab = t => c[h].first < c[k].first /\ ~Whole(c[h])
  <2>. SUFFICES ASSUME NEW k \in B2, c[k].tab = t PROVE c[h].first < c[k].first /\ ~Whole(c[h])
    OBVIOUS
  <2>1. c[h].first # c[k].first /\ (Whole(c[h]) => c[k].first < c[h].first)
    BY DEF Agree, LeftLast
  <2>2. c[h].first <= c[k].first /\ c[h].first \in Nat /\ c[k].first \in Nat
    BY <1>1
  <2>. QED
    BY <2>1, <2>2
\* What the request has left in its tab is there, or in the hands of another one.
<1>13. ASSUME NEW q \in Remains(c[h]), q \notin lay[t]
       PROVE  \E k \in B2 : c[k].tab = t /\ q \in Moved(c[k])
  <2>1. PICK k \in B : c[k].tab = t /\ q \in Moved(c[k]) /\ c[h].first < c[k].first
    BY <1>13 DEF Agree, LeftGoes
  <2>2. k # h
    BY <1>1, <2>1
  <2>. QED
    BY <2>1, <2>2
<1>14. ToldGoes(new, P2, B2, c)
  <2>. SUFFICES ASSUME NEW m \in P2, NEW q \in m.leaves \ new[m.tab]
                PROVE  \/ \E n \in P2 : n.tab = m.tab /\ m.own < n.own /\ q \notin n.leaves
                       \/ Lifted(B2, c, m.tab, q)
    BY DEF ToldGoes
  <2>1. CASE m \in P
    <3>1. q \notin lay[m.tab] /\ m.tab \in Tabs
      BY <1>2, <1>4, <2>1
    <3>2. (\E n \in P : n.tab = m.tab /\ m.own < n.own /\ q \notin n.leaves) \/ Lifted(B, c, m.tab, q)
      BY <2>1, <3>1 DEF Agree, ToldGoes
    <3>3. CASE Lifted(B, c, m.tab, q)
      <4>1. Lifted(B2, c, m.tab, q) \/ (m.tab = t /\ q \notin Remains(c[h]))
        BY <1>7, <3>1, <3>3
      <4>. QED
        BY <1>5, <1>10, <2>1, <4>1
    <3>. QED
      BY <3>2, <3>3
  <2>2. CASE m = from
    BY <1>3, <1>13, <2>2 DEF Lifted
  <2>. QED
    BY <2>1, <2>2
<1>15. ToldComes(new, P2)
  <2>. SUFFICES ASSUME NEW m \in P2, NEW q \in new[m.tab] \ m.leaves
                PROVE  \E n \in P2 : n.tab = m.tab /\ m.own < n.own /\ q \in n.leaves
    BY DEF ToldComes
  <2>1. CASE m \in P
    <3>1. CASE q \in lay[m.tab]
      BY <2>1, <3>1 DEF Agree, ToldComes
    <3>2. CASE q \notin lay[m.tab]
      BY <1>2, <1>3, <1>11, <2>1, <3>2
    <3>. QED
      BY <3>1, <3>2
  <2>2. CASE m = from
    <3>1. lay[t] \subseteq Remains(c[h])
      BY DEF Agree, LeftComes
    <3>. QED
      BY <1>3, <2>2, <3>1
  <2>. QED
    BY <2>1, <2>2
<1>16. LeftGoes(new, B2, c)
  <2>. SUFFICES ASSUME NEW g \in B2, NEW q \in Remains(c[g]) \ new[c[g].tab]
                PROVE  \E k \in B2 : c[k].tab = c[g].tab /\ q \in Moved(c[k]) /\ c[g].first < c[k].first
    BY DEF LeftGoes
  <2>1. PICK k \in B : c[k].tab = c[g].tab /\ q \in Moved(c[k]) /\ c[g].first < c[k].first
    BY <1>1, <1>3 DEF Agree, LeftGoes
  <2>2. k # h
    <3>1. c[g].tab = t => c[h].first < c[g].first
      BY <1>12
    <3>. QED
      BY <1>1, <2>1, <3>1
  <2>. QED
    BY <2>1, <2>2
<1>17. LeftComes(new, B2, c)
  BY <1>1, <1>3 DEF Agree, LeftComes
<1>18. LeftLast(P2, B2, c)
  <2>1. \A k \in B2 : \A m \in P2 : m.tab = c[k].tab => m.own < c[k].first
    <3>. SUFFICES ASSUME NEW k \in B2, NEW m \in P2, m.tab = c[k].tab PROVE m.own < c[k].first
      OBVIOUS
    <3>1. CASE m \in P
      BY <3>1 DEF Agree, LeftLast
    <3>2. CASE m = from
      BY <1>12, <3>2
    <3>. QED
      BY <3>1, <3>2
  <2>2. \A k, l \in B2 : k # l /\ c[k].tab = c[l].tab =>
           c[k].first # c[l].first /\ (Whole(c[k]) => c[l].first < c[k].first)
    BY DEF Agree, LeftLast
  <2>. QED
    BY <2>1, <2>2 DEF LeftLast
\* Where a leaf of a note is, it is nowhere else and in no other hand.
<1>19. ASSUME NEW m \in {from, to}, NEW q \in m.leaves, NEW u \in Tabs, u # m.tab
       PROVE  /\ q \notin lay[u]
              /\ Lifted(B, c, u, q) => m = to /\ u = t /\ q \in Moved(c[h])
  <2>1. q \in Leaves
    BY <1>1, <1>2, <1>5
  <2>2. CASE m.tab = v /\ q \in lay[v]
    BY <1>19, <2>1, <2>2 DEF Apart, Lifted
  <2>3. CASE m = to /\ q \in Moved(c[h])
    <3>1. q \notin lay[u]
      BY <1>1, <2>3 DEF Apart
    <3>2. ASSUME Lifted(B, c, u, q) PROVE u = t
      <4>1. PICK k \in B : c[k].tab = u /\ q \in Moved(c[k])
        BY <3>2 DEF Lifted
      <4>2. k = h
        BY <2>1, <2>3, <4>1 DEF Apart
      <4>. QED
        BY <4>1, <4>2
    <3>. QED
      BY <2>3, <3>1, <3>2
  <2>4. CASE m = from /\ q \in lay[t]
    BY <1>5, <1>19, <2>1, <2>4 DEF Apart, Lifted
  <2>5. CASE m = from /\ q \notin lay[t]
    <3>1. PICK k \in B2 : c[k].tab = t /\ q \in Moved(c[k])
      BY <1>13, <2>5
    <3>2. q \notin lay[u] /\ ~Lifted(B, c, u, q)
      BY <1>1, <1>19, <2>1, <2>5, <3>1 DEF Apart, Lifted
    <3>. QED
      BY <3>2
  <2>. QED
    BY <1>3, <2>2, <2>3, <2>4, <2>5
<1>20. \A n \in P : \A m \in {from, to} : Clears(n, m)
  BY <1>11 DEF Clears
<1>21. Clears(from, to)
  BY <1>1 DEF Clears
<1>22. ShownOnce(P2, S)
  <2>. SUFFICES ASSUME NEW m \in P2, NEW u \in Tabs \ {m.tab}, NEW q \in m.leaves, q \in S[u]
                PROVE  \E n \in P2 : n.tab = u /\ q \notin n.leaves /\ Clears(n, m)
    BY DEF ShownOnce
  <2>1. CASE m \in P
    BY <2>1 DEF Agree, ShownOnce
  <2>2. CASE m \in {from, to}
    <3>1. q \notin lay[u] /\ (Lifted(B, c, u, q) => m = to /\ u = t /\ q \in Moved(c[h]))
      BY <1>19, <2>2
    <3>2. (\E n \in P : n.tab = u /\ q \notin n.leaves) \/ Lifted(B, c, u, q)
      BY <3>1 DEF Agree, ShownGoes
    <3>3. CASE Lifted(B, c, u, q)
      <4>1. q \notin from.leaves
        BY <3>1, <3>3 DEF Remains
      <4>. QED
        BY <1>5, <1>21, <3>1, <3>3, <4>1
    <3>. QED
      BY <1>20, <2>2, <3>2, <3>3
  <2>. QED
    BY <2>1, <2>2
<1>23. ToldOnce(P2)
  <2>. SUFFICES ASSUME NEW l \in P2, NEW m \in P2, l.tab # m.tab, l.last <= m.last,
                       NEW q \in m.leaves, q \in l.leaves
                PROVE  \E n \in P2 : n.tab = l.tab /\ l.own < n.own /\ q \notin n.leaves /\ Clears(n, m)
    BY DEF ToldOnce
  <2>1. CASE l \in P /\ m \in P
    BY <2>1 DEF Agree, ToldOnce
  <2>2. CASE l \in P /\ m \in {from, to}
    <3>1. l.tab \in Tabs
      BY <1>2
    <3>2. q \notin lay[l.tab] /\ (Lifted(B, c, l.tab, q) => m = to /\ l.tab = t /\ q \in Moved(c[h]))
      BY <1>19, <2>2, <3>1
    <3>3. \/ \E n \in P : n.tab = l.tab /\ l.own < n.own /\ q \notin n.leaves
          \/ Lifted(B, c, l.tab, q)
      BY <2>2, <3>2 DEF Agree, ToldGoes
    <3>4. CASE Lifted(B, c, l.tab, q)
      <4>1. q \notin from.leaves
        BY <3>2, <3>4 DEF Remains
      <4>. QED
        BY <1>5, <1>10, <1>21, <2>2, <3>2, <3>4, <4>1
    <3>. QED
      BY <1>20, <2>2, <3>3, <3>4
  <2>3. CASE l \in {from, to} /\ m \in P
    BY <1>2, <1>11, <2>3
  <2>4. CASE {l, m} = {from, to}
    <3>1. q \in from.leaves /\ q \in to.leaves
      BY <2>4
    <3>2. q \notin lay[t] /\ q \notin lay[v]
      BY <1>5, <1>19, <3>1
    <3>3. q \in Moved(c[h])
      BY <1>3, <3>1, <3>2
    <3>. QED
      BY <3>1, <3>3 DEF Remains
  <2>. QED
    BY <1>6, <2>1, <2>2, <2>3, <2>4
<1>24. \A u : Creation(P, u) => Creation(P2, u)
  BY DEF Creation
<1>25. Found(P2, B2, c, S)
  <2>1. ASSUME NEW m \in P2, m.kind = "updated" PROVE S[m.tab] # {} \/ Creation(P2, m.tab)
    <3>1. CASE m \in P
      BY <1>24, <2>1, <3>1 DEF Agree, Found
    <3>2. CASE m = from
      BY <1>24, <3>2 DEF Agree, Found
    <3>3. CASE m = to
      <4>1. lay[v] # {}
        BY <2>1, <3>3
      <4>2. S[v] # {} \/ Creation(P, v)
        BY <4>1, PresentIsFound, SMTT(30)
      <4>. QED
        BY <1>24, <3>3, <4>2
    <3>. QED
      BY <1>6, <3>1, <3>2, <3>3
  <2>. QED
    BY <1>24, <2>1 DEF Agree, Found
<1>26. CreatedFirst(P2, S)
  <2>. SUFFICES ASSUME NEW m \in P2, m.kind = "created"
                PROVE  S[m.tab] = {} /\ \A n \in P2 : n.tab = m.tab /\ n # m => m.own < n.own
    BY DEF CreatedFirst
  <2>1. CASE m \in P
    BY <1>6, <1>10, <1>11, <2>1 DEF Agree, CreatedFirst
  <2>2. CASE m = to
    <3>1. lay[v] = {} /\ \A n \in P : n.tab # v
      BY <2>2
    <3>2. \A q \in S[v] : FALSE
      BY <3>1 DEF Agree, ShownGoes, Lifted
    <3>. QED
      BY <1>5, <1>6, <2>2, <3>1, <3>2
  <2>. QED
    BY <1>6, <2>1, <2>2
<1>27. ClosedLast(new, P2, B2, c)
  <2>. SUFFICES ASSUME NEW n \in P2, n.kind = "closed"
                PROVE  /\ new[n.tab] = {}
                       /\ \A k \in B2 : c[k].tab # n.tab
                       /\ \A m \in P2 : m.tab = n.tab /\ m.kind # "closed" => m.own < n.own
    BY DEF ClosedLast
  <2>1. CASE n \in P
    <3>1. lay[n.tab] = {} /\ (\A k \in B : c[k].tab # n.tab)
          /\ \A m \in P : m.tab = n.tab /\ m.kind # "closed" => m.own < n.own
      BY <2>1 DEF Agree, ClosedLast
    <3>2. n.tab # v /\ n.tab # t
      <4>1. to.kind \in {"created", "updated"}
        BY <1>1, <1>2, <1>5
      <4>. QED
        BY <2>1, <3>1, <4>1
    <3>3. new[n.tab] = {}
      BY <1>2, <1>3, <3>1, <3>2
    <3>. QED
      BY <1>6, <3>1, <3>2, <3>3
  <2>2. CASE n = from
    <3>1. Remains(c[h]) = {} /\ Whole(c[h])
      BY <1>1, <1>5, <2>2
    <3>2. lay[t] = {}
      BY <3>1 DEF Agree, LeftComes
    <3>3. \A k \in B2 : c[k].tab # t
      BY <1>12, <3>1
    <3>4. \A m \in P2 : m.tab = t /\ m.kind # "closed" => m.own < from.own
      BY <1>5, <1>6, <1>10, <2>2
    <3>. QED
      BY <1>3, <2>2, <3>2, <3>3, <3>4
  <2>3. n # to
    BY <1>1, <1>5
  <2>. QED
    BY <1>6, <2>1, <2>2, <2>3
<1>. QED
  BY <1>8, <1>9, <1>14, <1>15, <1>16, <1>17, <1>18, <1>22, <1>23, <1>25, <1>26, <1>27 DEF Agree

\* What a message makes of what the client shows.
Applied(S, m) ==
    LET own    == IF S[m.tab] # {} THEN {m.tab} ELSE {t \in Tabs : S[t] \cap m.leaves # {}}
        target == CHOOSE t \in own : TRUE
    IN  CASE m.kind = "updated" ->
               IF own = {} THEN S
               ELSE [t \in Tabs |-> IF t = target THEN m.leaves
                                    ELSE IF S[t] \subseteq m.leaves THEN {} ELSE S[t]]
          [] m.kind = "created" ->
               IF S[m.tab] # {} \/ \E t \in Tabs : S[t] \cap m.leaves # {} THEN S
               ELSE [S EXCEPT ![m.tab] = m.leaves]
          [] m.kind = "closed" -> [S EXCEPT ![m.tab] = {}]

\* Of a tab that is shown, or is created beside all others.
LEMMA AppliedIs ==
    ASSUME NEW S \in AnyLayouts, NEW m, m.tab \in Tabs,
           m.kind \in {"created", "updated", "closed"}, m.kind = "closed" => m.leaves = {},
           m.kind = "updated" => S[m.tab] # {},
           m.kind = "created" => S[m.tab] = {} /\ \A u \in Tabs : S[u] \cap m.leaves = {}
    PROVE  Applied(S, m) =
             [u \in Tabs |-> IF u = m.tab THEN m.leaves
                             ELSE IF m.kind = "updated" /\ S[u] \subseteq m.leaves THEN {} ELSE S[u]]
<1>1. S = [u \in Tabs |-> S[u]]
  BY DEF AnyLayouts
<1>2. CASE m.kind = "updated"
  <2>1. (CHOOSE t \in {m.tab} : TRUE) = m.tab
    OBVIOUS
  <2>. QED
    BY <1>2, <2>1 DEF Applied
<1>3. CASE m.kind = "created"
  <2>1. ~(S[m.tab] # {} \/ \E t \in Tabs : S[t] \cap m.leaves # {})
    BY <1>3
  <2>2. Applied(S, m) = [S EXCEPT ![m.tab] = m.leaves]
    BY <1>3, <2>1 DEF Applied
  <2>. QED
    BY <1>1, <1>3, <2>2
<1>4. CASE m.kind = "closed"
  <2>1. Applied(S, m) = [S EXCEPT ![m.tab] = {}]
    BY <1>4 DEF Applied
  <2>. QED
    BY <1>1, <1>4, <2>1
<1>. QED
  BY <1>2, <1>3, <1>4

\* A broadcast is sent, none being overtaken by it.
LEMMA AgreeSent ==
    ASSUME NEW lay, NEW P, NEW B, NEW c, NEW S, Settled(lay, P, B, c, S), Agree(lay, P, B, c, S),
           NEW m \in P, NEW Q, Q = P \ {m},
           \A n \in Q : m.last <= n.last /\ (n.tab = m.tab => m.own <= n.own),
           \A k, n \in P : k.tab = n.tab /\ k.own < n.own => k.last <= n.last,
           \A k, n \in P : k.tab = n.tab /\ k.last = n.last => k = n,
           \A n \in Q : n.last = m.last /\ n.own < n.last => n.kind = "closed" /\ m.kind = "updated",
           NEW new, new = Applied(S, Heard(m))
    PROVE  Agree(lay, Q, B, c, new) /\ new \in AnyLayouts
<1>1. /\ lay \in AnyLayouts /\ S \in AnyLayouts /\ P \subseteq AnyNotes
      /\ \A k \in B : c[k].tab \in Tabs
      /\ \A n \in P : n.leaves = {} <=> n.kind = "closed"
  BY DEF Settled
<1>2. \A n \in P : /\ n.tab \in Tabs /\ n.own \in Nat /\ n.last \in Nat /\ n.leaves \subseteq Leaves
                   /\ n.kind \in {"created", "updated", "closed"}
  BY <1>1 DEF AnyNotes
<1>3. Q \subseteq P /\ m \notin Q /\ \A n \in P : n # m => n \in Q
  OBVIOUS
<1>4. \A n \in P : n.tab # m.tab => n \in Q
  OBVIOUS
<1>5. \A n \in P : n.tab = m.tab /\ m.own < n.own => n \in Q
  BY <1>2
<1>6. \A k \in Q : \A n \in P : n.tab = k.tab /\ k.own < n.own => n \in Q
  BY <1>2
\* A leaf of the note that another tab shows is taken away by a TabClosed.
<1>7. ASSUME NEW u \in Tabs, u # m.tab, NEW q \in m.leaves, q \in S[u]
      PROVE  m.kind = "updated" /\ \E n \in Q : n.tab = u /\ n.kind = "closed" /\ n.last = m.last
  <2>1. PICK n \in P : n.tab = u /\ q \notin n.leaves /\ Clears(n, m)
    BY <1>7 DEF Agree, ShownOnce
  <2>2. n \in Q /\ m.last <= n.last
    BY <1>4, <1>7, <2>1
  <2>3. n.last = m.last /\ n.own < n.last
    BY <1>2, <2>1, <2>2 DEF Clears
  <2>. QED
    BY <2>1, <2>2, <2>3
<1>8. m.kind = "updated" => S[m.tab] # {}
  <2>. SUFFICES ASSUME m.kind = "updated", S[m.tab] = {} PROVE FALSE
    OBVIOUS
  <2>1. PICK n \in P : n.tab = m.tab /\ n.kind = "created"
    BY DEF Agree, Found, Creation
  <2>2. n # m /\ n.own < m.own
    BY <2>1 DEF Agree, CreatedFirst
  <2>. QED
    BY <1>2, <1>3, <2>1, <2>2
<1>9. m.kind = "created" => S[m.tab] = {} /\ \A u \in Tabs : S[u] \cap m.leaves = {}
  <2>. SUFFICES ASSUME m.kind = "created" PROVE S[m.tab] = {} /\ \A u \in Tabs : S[u] \cap m.leaves = {}
    OBVIOUS
  <2>1. S[m.tab] = {}
    BY DEF Agree, CreatedFirst
  <2>. QED
    BY <1>7, <2>1
<1>10. new = [u \in Tabs |-> IF u = m.tab THEN m.leaves
                             ELSE IF m.kind = "updated" /\ S[u] \subseteq m.leaves THEN {} ELSE S[u]]
  <2>. DEFINE x == Heard(m)
  <2>1. x.kind = m.kind /\ x.tab = m.tab /\ x.leaves = m.leaves
    BY DEF Heard
  <2>2. x.kind = "closed" => x.leaves = {}
    BY <1>1, <2>1
  <2>3. x.tab \in Tabs /\ x.kind \in {"created", "updated", "closed"}
    BY <1>2, <2>1
  <2>4. x.kind = "updated" => S[x.tab] # {}
    BY <1>8, <2>1
  <2>5. x.kind = "created" => S[x.tab] = {} /\ \A u \in Tabs : S[u] \cap x.leaves = {}
    BY <1>9, <2>1
  <2>6. S \in AnyLayouts
    BY <1>1
  <2>7. new = Applied(S, x)
    OBVIOUS
  <2>. HIDE DEF x
  <2>8. Applied(S, x) =
             [u \in Tabs |-> IF u = x.tab THEN x.leaves
                             ELSE IF x.kind = "updated" /\ S[u] \subseteq x.leaves THEN {} ELSE S[u]]
    BY <2>2, <2>3, <2>4, <2>5, <2>6, AppliedIs
  <2>. QED
    BY <2>1, <2>7, <2>8
<1>11. new[m.tab] = m.leaves /\ m.tab \in Tabs /\ \A u \in Tabs : u # m.tab => new[u] \subseteq S[u]
  BY <1>2, <1>10
<1>12. new \in AnyLayouts
  BY <1>1, <1>2, <1>10 DEF AnyLayouts
\* A tab that is dropped is about to be closed.
<1>13. ASSUME NEW u \in Tabs, u # m.tab, new[u] # S[u]
       PROVE  /\ new[u] = {}
              /\ \E n \in Q : n.tab = u /\ n.kind = "closed" /\ n.last = m.last
  <2>1. S[u] # {} /\ S[u] \subseteq m.leaves /\ new[u] = {}
    BY <1>10, <1>13
  <2>. QED
    BY <1>7, <1>13, <2>1
<1>14. ShownGoes(lay, Q, B, c, new)
  <2>. SUFFICES ASSUME NEW t \in Tabs, NEW q \in new[t] \ lay[t]
                PROVE  (\E n \in Q : n.tab = t /\ q \notin n.leaves) \/ Lifted(B, c, t, q)
    BY DEF ShownGoes
  <2>1. CASE t = m.tab
    BY <1>5, <1>11, <2>1 DEF Agree, ToldGoes
  <2>2. CASE t # m.tab
    BY <1>4, <1>11, <2>2 DEF Agree, ShownGoes
  <2>. QED
    BY <2>1, <2>2
<1>15. ShownComes(lay, Q, new)
  <2>. SUFFICES ASSUME NEW t \in Tabs, NEW q \in lay[t] \ new[t]
                PROVE  \E n \in Q : n.tab = t /\ q \in n.leaves
    BY DEF ShownComes
  <2>1. CASE t = m.tab
    BY <1>5, <1>11, <2>1 DEF Agree, ToldComes
  <2>2. CASE t # m.tab /\ new[t] = S[t]
    BY <1>4, <2>2 DEF Agree, ShownComes
  <2>3. CASE t # m.tab /\ new[t] # S[t]
    BY <1>3, <1>13, <2>3 DEF Agree, ClosedLast
  <2>. QED
    BY <2>1, <2>2, <2>3
<1>16. ToldGoes(lay, Q, B, c)
  BY <1>3, <1>6 DEF Agree, ToldGoes
<1>17. ToldComes(lay, Q)
  BY <1>3, <1>6 DEF Agree, ToldComes
<1>18. LeftGoes(lay, B, c) /\ LeftComes(lay, B, c) /\ LeftLast(Q, B, c)
  BY <1>3 DEF Agree, LeftLast
<1>19. ShownOnce(Q, new)
  <2>. SUFFICES ASSUME NEW l \in Q, NEW t \in Tabs \ {l.tab}, NEW q \in l.leaves, q \in new[t]
                PROVE  \E n \in Q : n.tab = t /\ q \notin n.leaves /\ Clears(n, l)
    BY DEF ShownOnce
  <2>1. CASE t = m.tab
    <3>1. m.tab # l.tab /\ m.last <= l.last /\ q \in m.leaves /\ l \in P
      BY <1>3, <1>11, <2>1
    <3>2. PICK n \in P : n.tab = m.tab /\ m.own < n.own /\ q \notin n.leaves /\ Clears(n, l)
      BY <3>1 DEF Agree, ToldOnce
    <3>. QED
      BY <1>5, <2>1, <3>2
  <2>2. CASE t # m.tab
    <3>1. q \in S[t] /\ l \in P
      BY <1>3, <1>11, <2>2
    <3>2. PICK n \in P : n.tab = t /\ q \notin n.leaves /\ Clears(n, l)
      BY <3>1 DEF Agree, ShownOnce
    <3>. QED
      BY <1>4, <2>2, <3>2
  <2>. QED
    BY <2>1, <2>2
<1>20. ToldOnce(Q)
  <2>. SUFFICES ASSUME NEW l \in Q, NEW k \in Q, l.tab # k.tab, l.last <= k.last,
                       NEW q \in k.leaves, q \in l.leaves
                PROVE  \E n \in Q : n.tab = l.tab /\ l.own < n.own /\ q \notin n.leaves /\ Clears(n, k)
    BY DEF ToldOnce
  <2>1. PICK n \in P : n.tab = l.tab /\ l.own < n.own /\ q \notin n.leaves /\ Clears(n, k)
    BY <1>3 DEF Agree, ToldOnce
  <2>. QED
    BY <1>6, <2>1
\* What is shown of the other tabs is shown still, or they are closed after the last of
\* what is told of them.
<1>21. ASSUME NEW t \in Tabs, t # m.tab, S[t] # {} \/ Creation(P, t)
       PROVE  \/ new[t] # {} \/ Creation(Q, t)
              \/ \E n \in Q : n.tab = t /\ n.kind = "closed" /\ n.last = m.last
  <2>1. Creation(P, t) => Creation(Q, t)
    BY <1>4, <1>21 DEF Creation
  <2>. QED
    BY <1>13, <1>21, <2>1
<1>22. Found(Q, B, c, new)
  <2>1. ASSUME NEW k \in Q, k.kind = "updated" PROVE new[k.tab] # {} \/ Creation(Q, k.tab)
    <3>1. CASE k.tab = m.tab
      <4>1. m.kind # "closed"
        <5>. SUFFICES ASSUME m.kind = "closed" PROVE FALSE
          OBVIOUS
        <5>1. k.own < m.own
          BY <1>3, <2>1, <3>1 DEF Agree, ClosedLast
        <5>. QED
          BY <1>2, <1>3, <3>1, <5>1
      <4>. QED
        BY <1>1, <1>11, <3>1, <4>1
    <3>2. CASE k.tab # m.tab
      <4>1. S[k.tab] # {} \/ Creation(P, k.tab)
        BY <1>3, <2>1 DEF Agree, Found
      <4>2. ASSUME NEW n \in Q, n.tab = k.tab, n.kind = "closed", n.last = m.last PROVE FALSE
        <5>1. k.own < n.own
          BY <1>3, <2>1, <4>2 DEF Agree, ClosedLast
        <5>2. k.last <= n.last /\ m.last <= k.last
          BY <1>3, <4>2, <5>1
        <5>3. k.last = n.last
          BY <1>2, <1>3, <4>2, <5>2
        <5>4. k = n
          BY <1>3, <4>2, <5>3
        <5>. QED
          BY <2>1, <4>2, <5>4
      <4>3. k.tab \in Tabs
        BY <1>2, <1>3
      <4>. QED
        BY <1>21, <3>2, <4>1, <4>2, <4>3
    <3>. QED
      BY <3>1, <3>2
  <2>2. ASSUME NEW k \in B PROVE new[c[k].tab] # {} \/ Creation(Q, c[k].tab)
    <3>1. S[c[k].tab] # {} \/ Creation(P, c[k].tab)
      BY DEF Agree, Found
    <3>2. \A n \in P : n.kind = "closed" => n.tab # c[k].tab
      BY DEF Agree, ClosedLast
    <3>3. CASE c[k].tab = m.tab
      BY <1>1, <1>11, <3>2, <3>3
    <3>4. CASE c[k].tab # m.tab
      BY <1>1, <1>3, <1>21, <3>1, <3>2, <3>4
    <3>. QED
      BY <3>3, <3>4
  <2>. QED
    BY <2>1, <2>2 DEF Found
<1>23. CreatedFirst(Q, new)
  <2>. SUFFICES ASSUME NEW n \in Q, n.kind = "created"
                PROVE  new[n.tab] = {} /\ \A k \in Q : k.tab = n.tab /\ k # n => n.own < k.own
    BY DEF CreatedFirst
  <2>1. S[n.tab] = {} /\ \A k \in P : k.tab = n.tab /\ k # n => n.own < k.own
    BY <1>3 DEF Agree, CreatedFirst
  <2>2. n.tab # m.tab
    BY <1>2, <1>3, <2>1
  <2>. QED
    BY <1>2, <1>3, <1>11, <2>1, <2>2
<1>24. ClosedLast(lay, Q, B, c)
  BY <1>3 DEF Agree, ClosedLast
<1>. QED
  BY <1>12, <1>14, <1>15, <1>16, <1>17, <1>18, <1>19, <1>20, <1>22, <1>23, <1>24 DEF Agree

\* The client gets its list when nothing is on its way.
LEMMA AgreeListed ==
    ASSUME NEW lay, NEW P, NEW B, NEW c, P = {}, B = {}
    PROVE  Agree(lay, P, B, c, lay)
<1>1. ShownGoes(lay, P, B, c, lay) /\ ShownComes(lay, P, lay)
  BY DEF ShownGoes, ShownComes
<1>2. ToldGoes(lay, P, B, c) /\ ToldComes(lay, P) /\ ToldOnce(P) /\ ShownOnce(P, lay)
  BY DEF ToldGoes, ToldComes, ToldOnce, ShownOnce
<1>3. LeftGoes(lay, B, c) /\ LeftComes(lay, B, c) /\ LeftLast(P, B, c)
  BY DEF LeftGoes, LeftComes, LeftLast
<1>4. Found(P, B, c, lay) /\ CreatedFirst(P, lay) /\ ClosedLast(lay, P, B, c)
  BY DEF Found, CreatedFirst, ClosedLast
<1>. QED
  BY <1>1, <1>2, <1>3, <1>4 DEF Agree

\* ... and shows what the server has once all has been sent.
LEMMA AgreeQuiet ==
    ASSUME NEW lay \in AnyLayouts, NEW S \in AnyLayouts, NEW P, NEW B, NEW c,
           Agree(lay, P, B, c, S), P = {}, B = {}
    PROVE  S = lay
<1>1. \A t \in Tabs : S[t] = lay[t]
  BY DEF Agree, ShownGoes, ShownComes, Lifted
<1>. QED
  BY <1>1 DEF AnyLayouts

-----------------------------------------------------------------------------
(* What the steps of the requests do.                                      *)

\* The notes of a request, all of one change but for the TabClosed of a whole-tab move.
Batch(out) ==
    /\ \A i \in DOMAIN out : out[i].leaves = {} <=> out[i].kind = "closed"
    /\ \A i, j \in DOMAIN out : i < j =>
         /\ out[i].last = out[j].last /\ out[i].tab # out[j].tab
         /\ out[j].own < out[j].last => out[j].kind = "closed" /\ out[i].kind = "updated"

\* What the locals of a request mean: no copy is empty, and only a whole tab is moved so
\* that nothing remains of it.
Meant(r) ==
    /\ r.op \in {"split", "insert", "move", "extract", "activate"} => r.copy # {}
    /\ r.op \in {"move", "extract"} => r.tab # r.dst /\ (Remains(r) = {} <=> Whole(r))
    /\ r.op = "move" /\ r.pc \in {"source", "dest"} => r.dstCopy # {}
    /\ InHand(r) => r.out = <<>>
    /\ Batch(r.out)
    /\ \A i \in DOMAIN r.out : r.out[i].kind = "created" /\ r.op = "create" =>
         r.pc = "verify" /\ r.out[i].tab = r.tab

Out(r) == {r.out[i] : i \in DOMAIN r.out}

\* The step is one of request h.
Mine(h) == \A k \in Handlers : k # h => req'[k] = req[k]

\* Nothing is stored, or what was there before.
Keeps(h) ==
    /\ req[h].out = <<>> /\ req'[h].out = <<>> /\ ~InHand(req[h]) /\ ~InHand(req'[h])
    /\ layouts' = layouts
    /\ req[h].op = "create" /\ req[h].pc = "verify" => "merged" \in slips' \/ layouts[req[h].tab] # {}

\* A stale copy is stored, and nobody is told.
Overwrites(h) ==
    /\ req[h].out = <<>> /\ req'[h].out = <<>> /\ ~InHand(req[h]) /\ ~InHand(req'[h])
    /\ req[h].op # "create" /\ "stale" \in slips'
    /\ \A t \in Tabs : layouts'[t] = {} => layouts[t] = {}

\* What is stored is to be told.
Tells(h) ==
    /\ req[h].out = <<>> /\ ~InHand(req[h]) /\ ~InHand(req'[h]) /\ clock' = clock + 1
    /\ \A n \in Out(req'[h]) :
         /\ n.own = clock + 1 /\ n.last = clock + 1
         /\ layouts'[n.tab] = n.leaves \/ (n.kind = "closed" /\ "stale" \in slips')
         /\ n.kind = "created" => Reserves(req[h], n.tab) \/ n.tab \notin used
         /\ n.kind = "updated" => layouts[n.tab] # {} \/ "stale" \in slips'
         /\ n.kind = "closed" => layouts[n.tab] # {} \/ n.tab = req[h].tab
    /\ \A t \in Tabs : layouts'[t] = layouts[t] \/ \E n \in Out(req'[h]) : n.tab = t
    /\ \A t \in Tabs : \A q \in layouts'[t] \ layouts[t] :
         "stale" \in slips' \/ Holds(req[h], q) \/ q \notin used
    /\ req[h].op = "create" /\ req[h].pc = "verify" =>
         \E n \in Out(req'[h]) : n.tab = req[h].tab /\ n.kind = "closed"

\* Leaves are taken out of a tab.
Lifts(h) ==
    /\ req[h].out = <<>> /\ req'[h].out = <<>> /\ ~InHand(req[h]) /\ InHand(req'[h])
    /\ req[h].op # "create" /\ req'[h].tab \in Tabs
    /\ layouts' = [layouts EXCEPT ![req'[h].tab] = Remains(req'[h])]
    /\ layouts[req'[h].tab] = req'[h].copy \/ "stale" \in slips'
    /\ layouts[req'[h].tab] # {} => req'[h].first = clock + 1 /\ clock' = clock + 1

\* They are put into another one.
Puts(h) ==
    /\ InHand(req[h]) /\ ~InHand(req'[h]) /\ clock' = clock + 1
    /\ req[h].tab \in Tabs /\ req[h].dst \in Tabs /\ req[h].tab # req[h].dst
    /\ \E from, to \in Out(req'[h]) :
         /\ Out(req'[h]) = {from, to}
         /\ from.tab = req[h].tab /\ from.leaves = Remains(req[h]) /\ from.own = req[h].first
         /\ from.last = clock + 1 /\ from.kind = IF Whole(req[h]) THEN "closed" ELSE "updated"
         /\ to.tab = req[h].dst /\ to.own = clock + 1 /\ to.last = clock + 1 /\ to.leaves # {}
         /\ layouts' = [layouts EXCEPT ![req[h].dst] = to.leaves]
         /\ \/ to.kind = "created" /\ Reserves(req[h], req[h].dst) /\ to.leaves = Moved(req[h])
            \/ /\ to.kind = "updated"
               /\ \/ layouts[req[h].dst] # {} /\ to.leaves = layouts[req[h].dst] \cup Moved(req[h])
                  \/ "stale" \in slips'

Steps(h) == Keeps(h) \/ Overwrites(h) \/ Tells(h) \/ Lifts(h) \/ Puts(h)

\* What is to be told of a purge: every tab that showed the leaf, once.
Tellings(s, p) ==
    /\ Shown(p) # {} => s # <<>>
    /\ \A i \in DOMAIN s :
         /\ s[i].tab \in Shown(p) /\ s[i].leaves = layouts[s[i].tab] \ {p}
         /\ s[i].own = clock + 1 /\ s[i].last = clock + 1
         /\ s[i].kind = IF layouts[s[i].tab] = {p} THEN "closed" ELSE "updated"
    /\ \A i, j \in DOMAIN s : i < j => s[i].tab # s[j].tab
    /\ \A t \in Shown(p) : \E i \in DOMAIN s : s[i].tab = t

LEMMA NotesAre ==
    ASSUME TypeInv, NEW p
    PROVE  Tellings(NotesOf(p), p)
<1>. DEFINE T         == Shown(p)
            closes(t) == layouts[t] = {p}
            n         == Cardinality(T)
            order     == CHOOSE s \in [1 .. Cardinality(T) -> T] :
                           \A i, j \in 1 .. Cardinality(T) : i < j =>
                              s[i] # s[j] /\ (closes(s[j]) => closes(s[i]))
            note(i)   == Note(IF closes(order[i]) THEN "closed" ELSE "updated",
                              order[i], layouts[order[i]] \ {p}, clock + 1, clock + 1)
            s         == [i \in 1 .. n |-> note(i)]
<1>1. NotesOf(p) = s
  BY Zenon DEF NotesOf
<1>2. T \in SUBSET Tabs /\ IsFiniteSet(Tabs)
  BY IdsAssumption DEF Shown
<1>3. IsFiniteSet(T) /\ n \in Nat
  BY <1>2, FS_Subset, FS_CardinalityType, Zenon
<1>4. order \in [1 .. n -> T] /\ \A i, j \in 1 .. n : i < j => order[i] # order[j]
  <2>. DEFINE C == {t \in T : closes(t)}
  <2>1. C \in SUBSET T
    OBVIOUS
  <2>2. PICK f \in [1 .. Cardinality(T) -> T] :
          \A i, j \in 1 .. Cardinality(T) : i < j => f[i] # f[j] /\ (f[j] \in C => f[i] \in C)
    <3>. HIDE DEF C, T
    <3>. QED
      BY <1>3, <2>1, InARow, Zenon
  <2>3. \A i, j \in 1 .. Cardinality(T) : i < j => f[i] # f[j] /\ (closes(f[j]) => closes(f[i]))
    <3>1. \A i \in 1 .. n : f[i] \in C <=> closes(f[i])
      BY <2>2
    <3>. QED
      BY <2>2, <3>1
  <2>. QED
    BY <2>2, <2>3, Zenon
<1>. HIDE DEF order
<1>5. \A t \in T : \E i \in 1 .. n : order[i] = t
  <2>1. \A i, j \in 1 .. n : order[i] = order[j] => i = j
    <3>. SUFFICES ASSUME NEW i \in 1 .. n, NEW j \in 1 .. n, order[i] = order[j], i # j PROVE FALSE
      OBVIOUS
    <3>1. i < j \/ j < i
      BY <1>3
    <3>. QED
      BY <1>4, <3>1
  <2>. HIDE DEF n, T
  <2>2. order \in Injection(1 .. n, T)
    BY <1>4, <2>1 DEF Injection, IsInjective
  <2>3. Cardinality(1 .. n) = n
    BY <1>3, FS_Interval
  <2>4. order \in Surjection(1 .. n, T)
    BY <1>3, <2>2, <2>3, FS_Injection DEF n
  <2>. QED
    BY <2>4 DEF Surjection
<1>6. DOMAIN s = 1 .. n
  OBVIOUS
<1>7. \A i \in 1 .. n : /\ s[i].tab = order[i] /\ s[i].leaves = layouts[order[i]] \ {p}
                        /\ s[i].own = clock + 1 /\ s[i].last = clock + 1
                        /\ s[i].kind = IF closes(order[i]) THEN "closed" ELSE "updated"
  BY DEF Note
<1>8. T # {} => s # <<>>
  <2>1. T # {} => n # 0
    BY <1>3, FS_EmptySet
  <2>. QED
    BY <1>3, <1>6, <2>1
<1>. HIDE DEF s, n
<1>9. \A i \in 1 .. n : order[i] \in T
  BY <1>4
<1>10. \A i \in DOMAIN s :
         /\ s[i].tab \in Shown(p) /\ s[i].leaves = layouts[s[i].tab] \ {p}
         /\ s[i].own = clock + 1 /\ s[i].last = clock + 1
         /\ s[i].kind = IF layouts[s[i].tab] = {p} THEN "closed" ELSE "updated"
  BY <1>6, <1>7, <1>9
<1>11. \A i, j \in DOMAIN s : i < j => s[i].tab # s[j].tab
  BY <1>4, <1>6, <1>7
<1>12. \A t \in Shown(p) : \E i \in DOMAIN s : s[i].tab = t
  BY <1>5, <1>6, <1>7
<1>13. Tellings(s, p)
  BY <1>8, <1>10, <1>11, <1>12, Zenon DEF Tellings
<1>. QED
  BY <1>1, <1>13

\* One note, or two.
LEMMA OneNote ==
    ASSUME NEW m, m.leaves = {} <=> m.kind = "closed"
    PROVE  /\ Batch(<<m>>) /\ <<m>> # <<>> /\ DOMAIN <<m>> = {1} /\ <<m>>[1] = m
           /\ \A r : r.out = <<m>> => Out(r) = {m}
<1>. DEFINE s == <<m>>
<1>1. DOMAIN s = {1} /\ s[1] = m /\ s # <<>>
  OBVIOUS
<1>. HIDE DEF s
<1>2. Batch(s)
  BY <1>1 DEF Batch
<1>3. \A r : r.out = s => Out(r) = {m}
  BY <1>1 DEF Out
<1>. QED
  BY <1>1, <1>2, <1>3 DEF s

LEMMA TwoNotes ==
    ASSUME NEW m, NEW n, m.leaves = {} <=> m.kind = "closed", n.leaves = {} <=> n.kind = "closed",
           m.last = n.last, m.tab # n.tab, n.own < n.last => n.kind = "closed" /\ m.kind = "updated"
    PROVE  /\ Batch(<<m, n>>) /\ <<m, n>> # <<>> /\ DOMAIN <<m, n>> = {1, 2}
           /\ <<m, n>>[1] = m /\ <<m, n>>[2] = n
           /\ \A r : r.out = <<m, n>> => Out(r) = {m, n}
<1>. DEFINE s == <<m, n>>
<1>1. DOMAIN s = {1, 2} /\ s[1] = m /\ s[2] = n /\ s # <<>>
  OBVIOUS
<1>. HIDE DEF s
<1>2. Batch(s)
  <2>1. \A i \in DOMAIN s : s[i].leaves = {} <=> s[i].kind = "closed"
    BY <1>1
  <2>2. \A i, j \in DOMAIN s : i < j => i = 1 /\ j = 2
    BY <1>1
  <2>3. \A i, j \in DOMAIN s : i < j =>
          /\ s[i].last = s[j].last /\ s[i].tab # s[j].tab
          /\ s[j].own < s[j].last => s[j].kind = "closed" /\ s[i].kind = "updated"
    BY <1>1, <2>2
  <2>. QED
    BY <2>1, <2>3 DEF Batch
<1>3. \A r : r.out = s => Out(r) = {m, n}
  BY <1>1 DEF Out
<1>. QED
  BY <1>1, <1>2, <1>3 DEF s

LEMMA NoNotes == Batch(<<>>) /\ \A r : r.out = <<>> => Out(r) = {}
<1>. DEFINE s == <<>>
<1>1. DOMAIN s = {}
  OBVIOUS
<1>. HIDE DEF s
<1>2. Batch(s) /\ \A r : r.out = s => Out(r) = {}
  BY <1>1 DEF Batch, Out
<1>. QED
  BY <1>2 DEF s

LEMMA IdleMeans ==
    /\ Idle.op = "none" /\ Idle.pc = "idle" /\ Idle.out = <<>> /\ Idle.tab = Nobody
    /\ ~InHand(Idle) /\ Meant(Idle) /\ \A q : ~Holds(Idle, q)
    /\ \A t : ~Reserves(Idle, t)
<1>1. Idle.op = "none" /\ Idle.pc = "idle" /\ Idle.out = <<>> /\ Idle.tab = Nobody
  BY DEF Idle
<1>. HIDE DEF Idle
<1>2. ~InHand(Idle) /\ (\A q : ~Holds(Idle, q)) /\ \A t : ~Reserves(Idle, t)
  BY <1>1 DEF InHand, Holds, Reserves
<1>3. DOMAIN Idle.out = {}
  BY <1>1
<1>4. Meant(Idle)
  BY <1>1, <1>2, <1>3, NoNotes DEF Meant
<1>. QED
  BY <1>1, <1>2, <1>4

LEMMA Replaced ==
    ASSUME TypeInv, NEW h \in Handlers, NEW s, req' = [req EXCEPT ![h] = s]
    PROVE  req'[h] = s /\ Mine(h)
BY DEF TypeInv, Mine

\* A request that ends with nothing in hand and nothing to tell.
LEMMA Quits ==
    ASSUME TypeInv, NEW h \in Handlers, req[h].out = <<>>, ~InHand(req[h]), layouts' = layouts,
           req' = [req EXCEPT ![h] = Idle],
           req[h].op = "create" /\ req[h].pc = "verify" => "merged" \in slips' \/ layouts[req[h].tab] # {}
    PROVE  Mine(h) /\ Meant(req'[h]) /\ Steps(h)
<1>1. req'[h] = Idle /\ Mine(h)
  BY Replaced
<1>2. Idle.out = <<>> /\ ~InHand(Idle) /\ Meant(Idle)
  BY IdleMeans
<1>3. Keeps(h)
  BY <1>1, <1>2 DEF Keeps
<1>. QED
  BY <1>1, <1>2, <1>3 DEF Steps

\* A request that goes on: its other locals are what they were.
LEMMA GoesOn ==
    ASSUME NEW r, NEW s, Meant(r), s.pc \notin {"source", "dest"}, Batch(s.out),
           s.op = r.op, s.tab = r.tab, s.dst = r.dst, s.pane = r.pane, s.copy = r.copy,
           \A i \in DOMAIN s.out : s.out[i].kind = "created" /\ s.op = "create" =>
             s.pc = "verify" /\ s.out[i].tab = s.tab
    PROVE  Meant(s) /\ ~InHand(s)
<1>1. ~InHand(s)
  BY DEF InHand
<1>2. Remains(s) = Remains(r) /\ (Whole(s) <=> Whole(r))
  BY DEF Remains, Moved, Whole
<1>. QED
  BY <1>1, <1>2 DEF Meant

\* A request that starts.
LEMMA Begins ==
    ASSUME TypeInv, NEW h \in Handlers, NEW s, Start(h, s), layouts' = layouts,
           s.out = <<>>, Meant(s), ~InHand(s)
    PROVE  Mine(h) /\ Meant(req'[h]) /\ Steps(h)
<1>1. req[h] = Idle /\ req' = [req EXCEPT ![h] = s]
  BY DEF Start
<1>2. req'[h] = s /\ Mine(h)
  BY <1>1, Replaced
<1>3. req[h].out = <<>> /\ ~InHand(req[h]) /\ req[h].op # "create"
  BY <1>1, IdleMeans
<1>4. Keeps(h)
  BY <1>2, <1>3 DEF Keeps
<1>. QED
  BY <1>2, <1>4 DEF Steps

LEMMA NothingOut ==
    ASSUME NEW s, s.out = <<>>
    PROVE  DOMAIN s.out = {} /\ Batch(s.out)
BY NoNotes

\* A tab of which one of several leaves is taken has others.
LEMMA Others ==
    ASSUME NEW L, NEW p, Cardinality(L) > 1
    PROVE  L # {} /\ L \ {p} # {}
<1>1. Cardinality({}) = 0
  BY FS_EmptySet
<1>2. ASSUME L \subseteq {p} PROVE FALSE
  <2>1. L = {} \/ L = {p}
    BY <1>2
  <2>. DEFINE M == {p}
  <2>2. Cardinality(M) = 1
    BY FS_Singleton
  <2>3. L = {} \/ L = M
    BY <2>1
  <2>. HIDE DEF M
  <2>4. Cardinality(L) = 0 \/ Cardinality(L) = 1
    BY <1>1, <2>2, <2>3, Zenon
  <2>. QED
    BY <2>4
<1>. QED
  BY <1>2

LEMMA StepsBegin ==
    ASSUME TypeInv, NEW h \in Handlers,
           \/ BeginCreate(h) \/ BeginSplit(h) \/ BeginInsert(h) \/ BeginMove(h) \/ BeginExtract(h)
           \/ BeginActivate(h) \/ BeginCloseTab(h)
    PROVE  Mine(h) /\ Meant(req'[h]) /\ Steps(h)
<1>0. layouts' = layouts
  BY DEF BeginCreate, BeginSplit, BeginInsert, BeginMove, BeginExtract, BeginActivate,
         BeginCloseTab, serverVars
<1>1. CASE BeginCreate(h)
  <2>1. PICK p, t : Start(h, [Idle EXCEPT !.op = "create", !.pc = "publish", !.pane = p, !.tab = t])
    BY <1>1 DEF BeginCreate
  <2>. DEFINE s == [Idle EXCEPT !.op = "create", !.pc = "publish", !.pane = p, !.tab = t]
  <2>2. s.op = "create" /\ s.pc = "publish" /\ s.out = <<>>
    BY DEF Idle
  <2>3. Start(h, s)
    BY <2>1
  <2>. HIDE DEF s
  <2>8. Meant(s)
    BY <2>2, <2>3, NothingOut DEF Meant, InHand
  <2>9. ~InHand(s)
    BY <2>2, <2>3 DEF InHand
  <2>. QED
    BY <1>0, <2>2, <2>3, <2>8, <2>9, Begins
<1>2. CASE BeginSplit(h)
  <2>1. PICK t \in Present :
          Start(h, [Idle EXCEPT !.op = "split", !.pc = "spawn", !.tab = t, !.copy = layouts[t]])
    BY <1>2 DEF BeginSplit
  <2>. DEFINE s == [Idle EXCEPT !.op = "split", !.pc = "spawn", !.tab = t, !.copy = layouts[t]]
  <2>2. s.op = "split" /\ s.pc = "spawn" /\ s.out = <<>> /\ s.copy # {}
    BY DEF Idle, Present
  <2>3. Start(h, s)
    BY <2>1
  <2>. HIDE DEF s
  <2>8. Meant(s)
    BY <2>2, <2>3, NothingOut DEF Meant, InHand
  <2>9. ~InHand(s)
    BY <2>2, <2>3 DEF InHand
  <2>. QED
    BY <1>0, <2>2, <2>3, <2>8, <2>9, Begins
<1>3. CASE BeginInsert(h)
  <2>1. PICK t \in Present, w \in Fresh(Widgets) :
          Start(h, [Idle EXCEPT !.op = "insert", !.pc = "store", !.tab = t, !.copy = layouts[t], !.new = w])
    BY <1>3 DEF BeginInsert
  <2>. DEFINE s == [Idle EXCEPT !.op = "insert", !.pc = "store", !.tab = t, !.copy = layouts[t], !.new = w]
  <2>2. s.op = "insert" /\ s.pc = "store" /\ s.out = <<>> /\ s.copy # {}
    BY DEF Idle, Present
  <2>3. Start(h, s)
    BY <2>1
  <2>. HIDE DEF s
  <2>8. Meant(s)
    BY <2>2, <2>3, NothingOut DEF Meant, InHand
  <2>9. ~InHand(s)
    BY <2>2, <2>3 DEF InHand
  <2>. QED
    BY <1>0, <2>2, <2>3, <2>8, <2>9, Begins
<1>4. CASE BeginMove(h)
  <2>1. PICK t \in Present, d \in Present, p \in Leaves \cup {Nobody} :
          /\ t # d
          /\ p # Nobody => p \in layouts[t] /\ Cardinality(layouts[t]) > 1
          /\ Start(h, [Idle EXCEPT !.op = "move", !.pc = "target", !.tab = t,
                                   !.dst = d, !.pane = p, !.copy = layouts[t]])
    BY <1>4 DEF BeginMove
  <2>. DEFINE s == [Idle EXCEPT !.op = "move", !.pc = "target", !.tab = t, !.dst = d, !.pane = p,
                                !.copy = layouts[t]]
  <2>2. /\ s.op = "move" /\ s.pc = "target" /\ s.out = <<>> /\ s.copy = layouts[t] /\ s.pane = p
        /\ s.tab = t /\ s.dst = d
    BY DEF Idle
  <2>3. Start(h, s) /\ layouts[t] # {}
    BY <2>1 DEF Present
  <2>. HIDE DEF s
  <2>4. Remains(s) = {} <=> Whole(s)
    <3>1. CASE p = Nobody
      BY <2>2, <3>1 DEF Remains, Moved, Whole
    <3>2. CASE p # Nobody
      <4>1. layouts[t] \ {p} # {}
        BY <2>1, <3>2, Others
      <4>. QED
        BY <2>2, <3>2, <4>1 DEF Remains, Moved, Whole
    <3>. QED
      BY <3>1, <3>2
  <2>5. s.tab # s.dst /\ s.copy # {}
    BY <2>1, <2>2, <2>3
  <2>8. Meant(s)
    BY <2>2, <2>3, <2>4, <2>5, NothingOut DEF Meant, InHand
  <2>9. ~InHand(s)
    BY <2>2, <2>3, <2>4, <2>5 DEF InHand
  <2>. QED
    BY <1>0, <2>2, <2>3, <2>4, <2>5, <2>8, <2>9, Begins
<1>5. CASE BeginExtract(h)
  <2>1. PICK t \in Present, d \in Fresh(Tabs) : \E p \in layouts[t] :
          /\ Cardinality(layouts[t]) > 1
          /\ Start(h, [Idle EXCEPT !.op = "extract", !.pc = "source", !.tab = t,
                                   !.dst = d, !.pane = p, !.copy = layouts[t]])
    BY <1>5 DEF BeginExtract
  <2>2. PICK p \in layouts[t] :
          /\ Cardinality(layouts[t]) > 1
          /\ Start(h, [Idle EXCEPT !.op = "extract", !.pc = "source", !.tab = t,
                                   !.dst = d, !.pane = p, !.copy = layouts[t]])
    BY <2>1
  <2>. DEFINE s == [Idle EXCEPT !.op = "extract", !.pc = "source", !.tab = t, !.dst = d, !.pane = p,
                                !.copy = layouts[t]]
  <2>3. /\ s.op = "extract" /\ s.pc = "source" /\ s.out = <<>> /\ s.copy = layouts[t] /\ s.pane = p
        /\ s.tab = t /\ s.dst = d
    BY DEF Idle
  <2>4. Start(h, s) /\ layouts[t] # {} /\ layouts[t] \ {p} # {}
    BY <2>2, Others DEF Present
  <2>5. p # Nobody /\ t # d
    <3>1. layouts \in LayoutsOf(used) /\ t \in Tabs /\ Nobody \notin Leaves
      BY IdsAssumption DEF TypeInv, Present, Leaves
    <3>2. t \in used /\ d \notin used
      BY <2>4, <3>1 DEF LayoutsOf, Fresh
    <3>. QED
      BY <3>1, <3>2 DEF LayoutsOf
  <2>. HIDE DEF s
  <2>6. Remains(s) # {} /\ ~Whole(s) /\ s.copy # {} /\ s.tab # s.dst
    BY <2>3, <2>4, <2>5 DEF Remains, Moved, Whole
  <2>8. Meant(s)
    BY <2>3, <2>4, <2>6, NothingOut DEF Meant, InHand
  <2>9. ~InHand(s)
    BY <2>3, <2>4, <2>6 DEF InHand
  <2>. QED
    BY <1>0, <2>3, <2>4, <2>6, <2>8, <2>9, Begins
<1>6. CASE BeginActivate(h)
  <2>1. PICK t \in Present :
          Start(h, [Idle EXCEPT !.op = "activate", !.pc = "store", !.tab = t, !.copy = layouts[t]])
    BY <1>6 DEF BeginActivate
  <2>. DEFINE s == [Idle EXCEPT !.op = "activate", !.pc = "store", !.tab = t, !.copy = layouts[t]]
  <2>2. s.op = "activate" /\ s.pc = "store" /\ s.out = <<>> /\ s.copy # {}
    BY DEF Idle, Present
  <2>3. Start(h, s)
    BY <2>1
  <2>. HIDE DEF s
  <2>8. Meant(s)
    BY <2>2, <2>3, NothingOut DEF Meant, InHand
  <2>9. ~InHand(s)
    BY <2>2, <2>3 DEF InHand
  <2>. QED
    BY <1>0, <2>2, <2>3, <2>8, <2>9, Begins
<1>7. CASE BeginCloseTab(h)
  <2>1. PICK t \in Present, op \in {"closeRest", "closeSync"} :
          Start(h, [Idle EXCEPT !.op = op, !.pc = "leaf", !.tab = t, !.todo = layouts[t]])
    BY <1>7 DEF BeginCloseTab
  <2>. DEFINE s == [Idle EXCEPT !.op = op, !.pc = "leaf", !.tab = t, !.todo = layouts[t]]
  <2>2. s.op \in {"closeRest", "closeSync"} /\ s.pc = "leaf" /\ s.out = <<>>
    BY DEF Idle
  <2>3. Start(h, s)
    BY <2>1
  <2>. HIDE DEF s
  <2>8. Meant(s)
    BY <2>2, <2>3, NothingOut DEF Meant, InHand
  <2>9. ~InHand(s)
    BY <2>2, <2>3 DEF InHand
  <2>. QED
    BY <1>0, <2>2, <2>3, <2>8, <2>9, Begins
<1>. QED
  BY <1>1, <1>2, <1>3, <1>4, <1>5, <1>6, <1>7

\* A request that goes on with something to tell keeps its other locals.
LEMMA SentOut ==
    ASSUME TypeInv, NEW h \in Handlers, NEW notes, NEW pc, SendThen(h, notes, pc)
    PROVE  /\ Mine(h) /\ req'[h].out = notes /\ req'[h].pc = pc /\ req'[h].op = req[h].op
           /\ req'[h].tab = req[h].tab /\ req'[h].dst = req[h].dst /\ req'[h].pane = req[h].pane
           /\ req'[h].new = req[h].new /\ req'[h].copy = req[h].copy
<1>. DEFINE s == [req[h] EXCEPT !.out = notes, !.pc = pc]
<1>1. req' = [req EXCEPT ![h] = s]
  BY DEF SendThen
<1>2. req'[h] = s /\ Mine(h)
  BY <1>1, Replaced
<1>3. req[h] \in RequestsOf(used, clock)
  BY DEF TypeInv
<1>4. /\ s.out = notes /\ s.pc = pc /\ s.op = req[h].op /\ s.tab = req[h].tab
      /\ s.dst = req[h].dst /\ s.pane = req[h].pane /\ s.new = req[h].new /\ s.copy = req[h].copy
  BY <1>3 DEF RequestsOf
<1>. QED
  BY <1>2, <1>4

\* A store of one tab that is told at once.
LEMMA StepsTold ==
    ASSUME TypeInv, NEW h \in Handlers, Meant(req[h]), req[h].out = <<>>, ~InHand(req[h]),
           ~(req[h].op = "create" /\ req[h].pc = "verify"),
           NEW t \in Tabs, NEW L, L # {}, NEW basis, Store(t, L, basis),
           NEW k \in {"created", "updated"}, NEW pc, pc \notin {"source", "dest"},
           SendThen(h, <<Note(k, t, L, clock + 1, clock + 1)>>, pc),
           k = "created" => Reserves(req[h], t) /\ pc = "verify" /\ t = req[h].tab,
           k = "updated" => basis # {},
           \A q \in L : q \in basis \/ Holds(req[h], q)
    PROVE  Mine(h) /\ Meant(req'[h]) /\ Steps(h)
<1>. DEFINE m == Note(k, t, L, clock + 1, clock + 1)
            r == req[h]
            s == req'[h]
<1>1. /\ m.kind = k /\ m.tab = t /\ m.leaves = L /\ m.own = clock + 1 /\ m.last = clock + 1
  BY DEF Note
<1>2. /\ Mine(h) /\ s.out = <<m>> /\ s.pc = pc /\ s.op = r.op
      /\ s.tab = r.tab /\ s.dst = r.dst /\ s.pane = r.pane
      /\ s.new = r.new /\ s.copy = r.copy
  BY SentOut
<1>3. layouts'[t] = L /\ \A u \in Tabs : u # t => layouts'[u] = layouts[u]
  BY DEF Store, TypeInv, LayoutsOf
<1>4. layouts[t] = basis \/ "stale" \in slips'
  BY DEF Store, Slip
<1>5. clock' = clock + 1
  BY DEF Store, Stamp
<1>. HIDE DEF m, r, s
<1>6. Batch(s.out) /\ DOMAIN s.out = {1} /\ s.out[1] = m /\ Out(s) = {m}
  <2>1. m.leaves = {} <=> m.kind = "closed"
    BY <1>1
  <2>. QED
    BY <1>2, <2>1, OneNote
<1>7. Meant(s) /\ ~InHand(s)
  <2>1. Meant(r)
    BY DEF r
  <2>2. \A i \in DOMAIN s.out : s.out[i].kind = "created" /\ s.op = "create" =>
          s.pc = "verify" /\ s.out[i].tab = s.tab
    BY <1>1, <1>2, <1>6 DEF r
  <2>. QED
    BY <1>2, <1>6, <2>1, <2>2, GoesOn
<1>8. Tells(h)
  <2>1. \A n \in Out(s) :
         /\ n.own = clock + 1 /\ n.last = clock + 1
         /\ layouts'[n.tab] = n.leaves \/ (n.kind = "closed" /\ "stale" \in slips')
         /\ n.kind = "created" => Reserves(r, n.tab) \/ n.tab \notin used
         /\ n.kind = "updated" => layouts[n.tab] # {} \/ "stale" \in slips'
         /\ n.kind = "closed" => layouts[n.tab] # {} \/ n.tab = r.tab
    BY <1>1, <1>3, <1>4, <1>6 DEF r
  <2>2. \A u \in Tabs : layouts'[u] = layouts[u] \/ \E n \in Out(s) : n.tab = u
    BY <1>1, <1>3, <1>6
  <2>3. \A u \in Tabs : \A q \in layouts'[u] \ layouts[u] :
          "stale" \in slips' \/ Holds(r, q) \/ q \notin used
    BY <1>3, <1>4 DEF r
  <2>. QED
    BY <1>5, <1>7, <2>1, <2>2, <2>3 DEF Tells, r, s
<1>. QED
  BY <1>2, <1>7, <1>8 DEF Steps, s

LEMMA StepsPublish ==
    ASSUME TypeInv, NEW h \in Handlers, Meant(req[h]), PublishTab(h)
    PROVE  Mine(h) /\ Meant(req'[h]) /\ Steps(h)
<1>. DEFINE r == req[h]
<1>1. r.op = "create" /\ r.pc = "publish" /\ r.out = <<>>
  BY DEF PublishTab, At
<1>2. ~InHand(r) /\ ~(r.op = "create" /\ r.pc = "verify")
  BY <1>1 DEF InHand
<1>3. r.tab \in Tabs /\ r.pane \in Panes
  BY <1>1, AtStep DEF Sensible
<1>4. CASE r.pane \in sessions
  <2>1. Store(r.tab, {r.pane}, layouts[r.tab])
        /\ SendThen(h, <<Note("created", r.tab, {r.pane}, clock + 1, clock + 1)>>, "verify")
    BY <1>4, Zenon DEF PublishTab
  <2>2. Reserves(r, r.tab) /\ Holds(r, r.pane)
    BY <1>1 DEF Reserves, Holds
  <2>. DEFINE L == {r.pane}
              basis == layouts[r.tab]
  <2>3. L # {} /\ \A q \in L : Holds(r, q)
    BY <2>2
  <2>4. Store(r.tab, L, basis)
        /\ SendThen(h, <<Note("created", r.tab, L, clock + 1, clock + 1)>>, "verify")
    BY <2>1
  <2>. HIDE DEF L, basis
  <2>5. "created" \in {"created", "updated"} /\ "verify" \notin {"source", "dest"} /\ "created" # "updated"
    OBVIOUS
  <2>6. \A q \in L : q \in basis \/ Holds(req[h], q)
    BY <2>3
  <2>. QED
    BY <1>1, <1>2, <1>3, <2>2, <2>3, <2>4, <2>5, <2>6, StepsTold, Zenon
<1>5. CASE r.pane \notin sessions
  <2>1. req' = [req EXCEPT ![h] = Idle] /\ layouts' = layouts
    BY <1>5, Zenon DEF PublishTab
  <2>. QED
    BY <1>1, <1>2, <2>1, Quits
<1>. QED
  BY <1>4, <1>5

LEMMA StepsVerify ==
    ASSUME TypeInv, NEW h \in Handlers, Meant(req[h]), VerifyTab(h)
    PROVE  Mine(h) /\ Meant(req'[h]) /\ Steps(h)
<1>. DEFINE r == req[h]
            t == r.tab
<1>1. r.op = "create" /\ r.pc = "verify" /\ r.out = <<>> /\ layouts' = layouts
  BY DEF VerifyTab, At
<1>2. ~InHand(r)
  BY <1>1 DEF InHand
<1>3. t \in Tabs
  BY <1>1, AtStep DEF Sensible
<1>4. CASE r.pane \in sessions
  <2>1. req' = [req EXCEPT ![h] = Idle] /\ slips' = slips \cup Slip(layouts[t] = {}, "merged")
    BY <1>4, Zenon DEF VerifyTab
  <2>2. "merged" \in slips' \/ layouts[t] # {}
    BY <2>1 DEF Slip
  <2>. QED
    BY <1>1, <1>2, <2>1, <2>2, Quits
<1>5. CASE r.pane \notin sessions
  <2>1. /\ Stamp({t}) /\ SendThen(h, <<Note("closed", t, {}, clock + 1, clock + 1)>>, "end")
        /\ slips' = slips \cup Slip(layouts[t] # {}, "stale")
    BY <1>5, Zenon DEF VerifyTab
  <2>. DEFINE m == Note("closed", t, {}, clock + 1, clock + 1)
              s == req'[h]
  <2>2. m.kind = "closed" /\ m.tab = t /\ m.leaves = {} /\ m.own = clock + 1 /\ m.last = clock + 1
    BY DEF Note
  <2>3. /\ Mine(h) /\ s.out = <<m>> /\ s.pc = "end" /\ s.op = r.op
        /\ s.tab = r.tab /\ s.dst = r.dst /\ s.pane = r.pane
        /\ s.new = r.new /\ s.copy = r.copy
    BY <2>1, SentOut
  <2>4. clock' = clock + 1 /\ (layouts[t] = {} \/ "stale" \in slips')
    BY <2>1 DEF Stamp, Slip
  <2>. HIDE DEF m, s
  <2>5. Batch(s.out) /\ DOMAIN s.out = {1} /\ s.out[1] = m /\ Out(s) = {m}
    <3>1. m.leaves = {} <=> m.kind = "closed"
      BY <2>2
    <3>. QED
      BY <2>3, <3>1, OneNote
  <2>6. Meant(s) /\ ~InHand(s)
    <3>1. \A i \in DOMAIN s.out : s.out[i].kind = "created" /\ s.op = "create" =>
            s.pc = "verify" /\ s.out[i].tab = s.tab
      BY <2>2, <2>5
    <3>. QED
      BY <2>3, <2>5, <3>1, GoesOn
  <2>7. Tells(h)
    <3>1. \A n \in Out(s) :
           /\ n.own = clock + 1 /\ n.last = clock + 1
           /\ layouts'[n.tab] = n.leaves \/ (n.kind = "closed" /\ "stale" \in slips')
           /\ n.kind = "created" => Reserves(r, n.tab) \/ n.tab \notin used
           /\ n.kind = "updated" => layouts[n.tab] # {} \/ "stale" \in slips'
           /\ n.kind = "closed" => layouts[n.tab] # {} \/ n.tab = r.tab
      BY <1>1, <2>2, <2>4, <2>5
    <3>2. \E n \in Out(s) : n.tab = t /\ n.kind = "closed"
      BY <2>2, <2>5
    <3>. QED
      BY <1>1, <1>2, <2>4, <2>6, <3>1, <3>2 DEF Tells, s
  <2>. QED
    BY <2>3, <2>6, <2>7 DEF Steps, s
<1>. QED
  BY <1>4, <1>5

\* A tab of an id never handed out is shown with a leaf never handed out.
LEMMA StepsShown ==
    ASSUME TypeInv, NEW h \in Handlers, NEW op \in {"mirror", "plugin"}, NEW t \in Tabs \ used,
           NEW q, q \notin used, Store(t, {q}, layouts[t]),
           Start(h, [Idle EXCEPT !.op = op, !.pc = "end",
                                 !.out = <<Note("created", t, {q}, clock + 1, clock + 1)>>])
    PROVE  Mine(h) /\ Meant(req'[h]) /\ Steps(h)
<1>. DEFINE L == {q}
            m == Note("created", t, L, clock + 1, clock + 1)
            s == [Idle EXCEPT !.op = op, !.pc = "end", !.out = <<m>>]
            basis == layouts[t]
<1>1. s.out = <<m>> /\ s.op = op /\ s.pc = "end"
  BY DEF Idle
<1>2. /\ m.kind = "created" /\ m.tab = t /\ m.leaves = L /\ m.own = clock + 1 /\ m.last = clock + 1
  BY DEF Note
<1>3. req[h] = Idle /\ req' = [req EXCEPT ![h] = s] /\ Store(t, L, basis)
  BY DEF Start
<1>4. L # {} /\ \A x \in L : x \notin used
  OBVIOUS
<1>. HIDE DEF L, m, s, basis
<1>5. req'[h] = s /\ Mine(h)
  BY <1>3, Replaced
<1>6. layouts'[t] = L /\ (\A u \in Tabs : u # t => layouts'[u] = layouts[u]) /\ clock' = clock + 1
  BY <1>3 DEF Store, Stamp, TypeInv, LayoutsOf
<1>7. Batch(s.out) /\ DOMAIN s.out = {1} /\ s.out[1] = m /\ Out(s) = {m}
  <2>1. m.leaves = {} <=> m.kind = "closed"
    BY <1>2, <1>4
  <2>. QED
    BY <1>1, <2>1, OneNote
<1>8. Meant(s) /\ ~InHand(s)
  BY <1>1, <1>7 DEF Meant, InHand
<1>9. req[h].out = <<>> /\ ~InHand(req[h]) /\ req[h].op # "create"
  BY <1>3, IdleMeans
<1>10. Tells(h)
  <2>1. \A n \in Out(s) :
         /\ n.own = clock + 1 /\ n.last = clock + 1
         /\ layouts'[n.tab] = n.leaves \/ (n.kind = "closed" /\ "stale" \in slips')
         /\ n.kind = "created" => Reserves(req[h], n.tab) \/ n.tab \notin used
         /\ n.kind = "updated" => layouts[n.tab] # {} \/ "stale" \in slips'
         /\ n.kind = "closed" => layouts[n.tab] # {} \/ n.tab = req[h].tab
    BY <1>2, <1>6, <1>7
  <2>2. \A u \in Tabs : layouts'[u] = layouts[u] \/ \E n \in Out(s) : n.tab = u
    BY <1>2, <1>6, <1>7
  <2>3. \A u \in Tabs : \A x \in layouts'[u] \ layouts[u] :
          "stale" \in slips' \/ Holds(req[h], x) \/ x \notin used
    BY <1>4, <1>6
  <2>. QED
    BY <1>5, <1>6, <1>8, <1>9, <2>1, <2>2, <2>3 DEF Tells
<1>. QED
  BY <1>5, <1>8, <1>10 DEF Steps

LEMMA StepsCreate ==
    ASSUME TypeInv, NEW h \in Handlers, ClientCreate(h) \/ CreatePluginTab(h)
    PROVE  Mine(h) /\ Meant(req'[h]) /\ Steps(h)
<1>1. CASE ClientCreate(h)
  <2>1. PICK p \in Fresh(Panes), t \in Fresh(Tabs) :
          /\ Start(h, [Idle EXCEPT !.op = "mirror", !.pc = "end",
                                   !.out = <<Note("created", t, {p}, clock + 1, clock + 1)>>])
          /\ Store(t, {p}, layouts[t])
    BY <1>1 DEF ClientCreate
  <2>2. t \in Tabs \ used /\ p \notin used /\ "mirror" \in {"mirror", "plugin"}
    BY DEF Fresh
  <2>. QED
    BY <2>1, <2>2, StepsShown, Zenon
<1>2. CASE CreatePluginTab(h)
  <2>1. PICK w \in Fresh(Widgets), t \in Fresh(Tabs) :
          /\ Start(h, [Idle EXCEPT !.op = "plugin", !.pc = "end",
                                   !.out = <<Note("created", t, {w}, clock + 1, clock + 1)>>])
          /\ Store(t, {w}, layouts[t])
    BY <1>2 DEF CreatePluginTab
  <2>2. t \in Tabs \ used /\ w \notin used /\ "plugin" \in {"mirror", "plugin"}
    BY DEF Fresh
  <2>. QED
    BY <2>1, <2>2, StepsShown, Zenon
<1>. QED
  BY <1>1, <1>2

\* A leaf is purged from every tab that shows it.
LEMMA StepsPurge ==
    ASSUME TypeInv, NEW h \in Handlers, req[h].out = <<>>, ~InHand(req[h]),
           ~(req[h].op = "create" /\ req[h].pc = "verify"), Mine(h), used' = used,
           NEW p, Purge(p), NEW s, req'[h] = s, s.out = NotesOf(p), ~InHand(s),
           Batch(s.out) /\ (\A i \in DOMAIN s.out : s.out[i].kind # "created") => Meant(s)
    PROVE  Mine(h) /\ Meant(req'[h]) /\ Steps(h)
<1>1. /\ \A t \in Tabs : layouts'[t] = layouts[t] \ {p}
      /\ Shown(p) # {} => clock' = clock + 1
      /\ Shown(p) = {} => layouts' = layouts
  BY PurgeFacts
<1>2. Tellings(s.out, p)
  BY NotesAre
<1>3. \A i \in DOMAIN s.out :
         /\ s.out[i].tab \in Tabs /\ p \in layouts[s.out[i].tab]
         /\ s.out[i].leaves = layouts[s.out[i].tab] \ {p}
         /\ s.out[i].own = clock + 1 /\ s.out[i].last = clock + 1
         /\ s.out[i].kind = IF layouts[s.out[i].tab] = {p} THEN "closed" ELSE "updated"
  BY <1>2 DEF Tellings, Shown
<1>4. Batch(s.out)
  <2>1. \A i \in DOMAIN s.out : s.out[i].leaves = {} <=> s.out[i].kind = "closed"
    BY <1>3
  <2>2. \A i, j \in DOMAIN s.out : i < j =>
          /\ s.out[i].last = s.out[j].last /\ s.out[i].tab # s.out[j].tab
          /\ ~(s.out[j].own < s.out[j].last)
    <3>1. clock + 1 \in Nat
      BY DEF TypeInv
    <3>. QED
      BY <1>2, <1>3, <3>1 DEF Tellings
  <2>. QED
    BY <2>1, <2>2 DEF Batch
<1>5. Meant(s)
  BY <1>3, <1>4
<1>6. CASE Shown(p) = {}
  <2>1. s.out = <<>>
    BY <1>6, NotesFacts
  <2>2. Keeps(h)
    BY <1>1, <1>6, <2>1 DEF Keeps
  <2>. QED
    BY <1>5, <2>2 DEF Steps
<1>7. CASE Shown(p) # {}
  <2>1. \A n \in Out(s) :
         /\ n.own = clock + 1 /\ n.last = clock + 1
         /\ layouts'[n.tab] = n.leaves \/ (n.kind = "closed" /\ "stale" \in slips')
         /\ n.kind = "created" => Reserves(req[h], n.tab) \/ n.tab \notin used
         /\ n.kind = "updated" => layouts[n.tab] # {} \/ "stale" \in slips'
         /\ n.kind = "closed" => layouts[n.tab] # {} \/ n.tab = req[h].tab
    <3>. SUFFICES ASSUME NEW i \in DOMAIN s.out
                  PROVE  LET n == s.out[i] IN
         /\ n.own = clock + 1 /\ n.last = clock + 1
         /\ layouts'[n.tab] = n.leaves \/ (n.kind = "closed" /\ "stale" \in slips')
         /\ n.kind = "created" => Reserves(req[h], n.tab) \/ n.tab \notin used
         /\ n.kind = "updated" => layouts[n.tab] # {} \/ "stale" \in slips'
         /\ n.kind = "closed" => layouts[n.tab] # {} \/ n.tab = req[h].tab
      BY DEF Out
    <3>. QED
      BY <1>1, <1>3
  <2>2. \A t \in Tabs : layouts'[t] = layouts[t] \/ \E n \in Out(s) : n.tab = t
    <3>. SUFFICES ASSUME NEW t \in Tabs, layouts'[t] # layouts[t] PROVE \E n \in Out(s) : n.tab = t
      OBVIOUS
    <3>1. t \in Shown(p)
      BY <1>1 DEF Shown
    <3>. QED
      BY <1>2, <3>1 DEF Tellings, Out
  <2>3. \A t \in Tabs : \A q \in layouts'[t] \ layouts[t] :
          "stale" \in slips' \/ Holds(req[h], q) \/ q \notin used
    BY <1>1
  <2>4. Tells(h)
    BY <1>1, <1>7, <2>1, <2>2, <2>3 DEF Tells
  <2>. QED
    BY <1>5, <2>4 DEF Steps
<1>. QED
  BY <1>6, <1>7

LEMMA StepsSplit ==
    ASSUME TypeInv, NEW h \in Handlers, Meant(req[h]),
           SpawnForSplit(h) \/ StoreSplit(h) \/ StoreInsert(h) \/ RecheckSplit(h)
    PROVE  Mine(h) /\ Meant(req'[h]) /\ Steps(h)
<1>. DEFINE r == req[h]
<1>1. r.op \in {"split", "insert"} /\ r.out = <<>> /\ r.pc \in {"spawn", "store", "recheck"}
  BY DEF SpawnForSplit, StoreSplit, StoreInsert, RecheckSplit, At
<1>2. ~InHand(r) /\ ~(r.op = "create" /\ r.pc = "verify") /\ r.copy # {}
  BY <1>1 DEF InHand, Meant
<1>3. r.tab \in Tabs /\ r \in RequestsOf(used, clock)
  BY <1>1, AtStep DEF Sensible
<1>4. CASE SpawnForSplit(h)
  <2>0. layouts' = layouts
    BY <1>4 DEF SpawnForSplit
  <2>1. CASE req' = [req EXCEPT ![h] = Idle]
    BY <1>1, <1>2, <2>0, <2>1, Quits
  <2>2. CASE \E n \in Fresh(Panes) : req' = [req EXCEPT ![h].new = n, ![h].pc = "store"]
    <3>1. PICK n \in Fresh(Panes) : req' = [req EXCEPT ![h].new = n, ![h].pc = "store"]
      BY <2>2
    <3>. DEFINE s == [r EXCEPT !.new = n, !.pc = "store"]
    <3>2. req' = [req EXCEPT ![h] = s]
      BY <3>1
    <3>3. /\ s.op = r.op /\ s.pc = "store" /\ s.tab = r.tab /\ s.dst = r.dst /\ s.pane = r.pane
          /\ s.copy = r.copy /\ s.out = r.out
      BY <1>3 DEF RequestsOf
    <3>. HIDE DEF s
    <3>4. req'[h] = s /\ Mine(h)
      BY <3>2, Replaced
    <3>5. DOMAIN s.out = {} /\ Batch(s.out)
      BY <1>1, <3>3, NothingOut
    <3>6. Meant(s) /\ ~InHand(s)
      BY <3>3, <3>5, GoesOn
    <3>7. Keeps(h)
      BY <1>1, <1>2, <2>0, <3>3, <3>4, <3>6 DEF Keeps
    <3>. QED
      BY <3>4, <3>6, <3>7 DEF Steps
  <2>. QED
    BY <1>4, <2>1, <2>2, Zenon DEF SpawnForSplit
<1>5. ASSUME StoreSplit(h) \/ StoreInsert(h)
      PROVE  Mine(h) /\ Meant(req'[h]) /\ Steps(h)
  <2>. DEFINE L == WithNew(r)
  <2>1. PICK pc \in {"recheck", "end"} :
          /\ Store(r.tab, L, r.copy)
          /\ SendThen(h, <<Note("updated", r.tab, L, clock + 1, clock + 1)>>, pc)
    BY <1>5, Zenon DEF StoreSplit, StoreInsert
  <2>2. r.pc = "store"
    BY <1>5 DEF StoreSplit, StoreInsert, At
  <2>3. L # {} /\ \A q \in L : q \in r.copy \/ Holds(r, q)
    BY <1>1, <1>2, <2>2 DEF WithNew, Holds
  <2>4. "updated" \in {"created", "updated"} /\ pc \notin {"source", "dest"} /\ "created" # "updated"
    OBVIOUS
  <2>. HIDE DEF L
  <2>. QED
    BY <1>1, <1>2, <1>3, <2>1, <2>3, <2>4, StepsTold, Zenon
<1>6. CASE RecheckSplit(h)
  <2>1. CASE req' = [req EXCEPT ![h] = Idle] /\ layouts' = layouts
    BY <1>1, <1>2, <2>1, Quits
  <2>2. CASE Purge(r.new) /\ SendThen(h, NotesOf(r.new), "end")
    <3>. DEFINE s == req'[h]
    <3>1. /\ Mine(h) /\ s.out = NotesOf(r.new) /\ s.pc = "end" /\ s.op = r.op
          /\ s.tab = r.tab /\ s.dst = r.dst /\ s.pane = r.pane /\ s.copy = r.copy
      BY <2>2, SentOut
    <3>. HIDE DEF s
    <3>2. ~InHand(s)
      BY <3>1 DEF InHand
    <3>3. Batch(s.out) /\ (\A i \in DOMAIN s.out : s.out[i].kind # "created") => Meant(s)
      BY <3>1, GoesOn
    <3>4. req'[h] = s /\ used' = used
      BY <1>6 DEF s, RecheckSplit
    <3>. QED
      BY <1>1, <1>2, <2>2, <3>1, <3>2, <3>3, <3>4, StepsPurge, Zenon
  <2>. QED
    BY <1>6, <2>1, <2>2, Zenon DEF RecheckSplit
<1>. QED
  BY <1>4, <1>5, <1>6

LEMMA StepsReadTarget ==
    ASSUME TypeInv, NEW h \in Handlers, Meant(req[h]), ReadTarget(h)
    PROVE  Mine(h) /\ Meant(req'[h]) /\ Steps(h)
<1>. DEFINE r == req[h]
<1>1. r.op = "move" /\ r.pc = "target" /\ r.out = <<>> /\ layouts' = layouts
  BY DEF ReadTarget, At, serverVars
<1>2. ~InHand(r) /\ r.op # "create" /\ r \in RequestsOf(used, clock)
  BY <1>1, AtStep DEF InHand
<1>3. CASE layouts[r.dst] = {}
  <2>1. req' = [req EXCEPT ![h] = Idle]
    BY <1>3, Zenon DEF ReadTarget
  <2>. QED
    BY <1>1, <1>2, <2>1, Quits
<1>4. CASE layouts[r.dst] # {}
  <2>. DEFINE s == [r EXCEPT !.dstCopy = layouts[r.dst], !.pc = "source"]
  <2>1. req' = [req EXCEPT ![h] = s]
    BY <1>4, Zenon DEF ReadTarget
  <2>2. /\ s.op = r.op /\ s.pc = "source" /\ s.tab = r.tab /\ s.dst = r.dst /\ s.pane = r.pane
        /\ s.copy = r.copy /\ s.out = r.out /\ s.dstCopy = layouts[r.dst]
    BY <1>2 DEF RequestsOf
  <2>. HIDE DEF s
  <2>3. req'[h] = s /\ Mine(h)
    BY <2>1, Replaced
  <2>4. DOMAIN s.out = {} /\ Batch(s.out)
    BY <1>1, <2>2, NothingOut
  <2>5. Remains(s) = Remains(r) /\ (Whole(s) <=> Whole(r)) /\ ~InHand(s)
    BY <2>2 DEF Remains, Moved, Whole, InHand
  <2>6. Meant(s)
    BY <1>1, <1>4, <2>2, <2>4, <2>5 DEF Meant
  <2>7. Keeps(h)
    BY <1>1, <1>2, <2>2, <2>3, <2>5 DEF Keeps
  <2>. QED
    BY <2>3, <2>6, <2>7 DEF Steps
<1>. QED
  BY <1>3, <1>4

\* The source is stored: the leaves are in hand.
LEMMA StepsSource ==
    ASSUME TypeInv, NEW h \in Handlers, Meant(req[h]), StoreSource(h) \/ StoreRest(h)
    PROVE  Mine(h) /\ Meant(req'[h]) /\ Steps(h)
<1>. DEFINE r == req[h]
            s == [r EXCEPT !.pc = "dest", !.first = clock']
<1>1. /\ r.op \in {"move", "extract"} /\ r.pc = "source" /\ r.out = <<>>
      /\ req' = [req EXCEPT ![h].pc = "dest", ![h].first = clock']
  BY DEF StoreSource, StoreRest, At
<1>2. r \in RequestsOf(used, clock) /\ r.tab \in Tabs /\ used \subseteq used'
  <2>1. used' = used
    BY DEF StoreSource, StoreRest
  <2>. QED
    BY <1>1, <2>1, AtStep DEF Sensible
<1>3. req' = [req EXCEPT ![h] = s]
  BY <1>1
<1>4. /\ s.op = r.op /\ s.pc = "dest" /\ s.tab = r.tab /\ s.dst = r.dst /\ s.pane = r.pane
      /\ s.copy = r.copy /\ s.out = r.out /\ s.dstCopy = r.dstCopy /\ s.first = clock'
  BY <1>2 DEF RequestsOf
<1>5. /\ layouts' = [layouts EXCEPT ![r.tab] = Remains(r)]
      /\ layouts[r.tab] = r.copy \/ "stale" \in slips'
      /\ layouts[r.tab] # {} => clock' = clock + 1
  <2>1. CASE StoreSource(h) /\ r.pane = Nobody
    <3>1. Remove(r.tab, r.copy)
      BY <2>1, Zenon DEF StoreSource
    <3>2. Remains(r) = {}
      BY <2>1 DEF Remains, Moved
    <3>3. layouts' = [layouts EXCEPT ![r.tab] = {}] /\ slips' = slips \cup Slip(layouts[r.tab] # r.copy, "stale")
      BY <3>1 DEF Remove
    <3>4. layouts[r.tab] # {} => clock' = clock + 1
      BY <1>2, <3>1, RemoveFacts, Zenon
    <3>. QED
      BY <3>2, <3>3, <3>4 DEF Slip
  <2>2. CASE StoreRest(h) \/ (StoreSource(h) /\ r.pane # Nobody)
    <3>1. Store(r.tab, Remains(r), r.copy)
      BY <2>2, Zenon DEF StoreSource, StoreRest
    <3>. QED
      BY <3>1 DEF Store, Stamp, Slip
  <2>. QED
    BY <2>1, <2>2
<1>. HIDE DEF s
<1>6. req'[h] = s /\ Mine(h)
  BY <1>3, Replaced
<1>7. DOMAIN s.out = {} /\ Batch(s.out) /\ s.out = <<>>
  BY <1>1, <1>4, NothingOut
<1>8. Remains(s) = Remains(r) /\ (Whole(s) <=> Whole(r)) /\ InHand(s)
  BY <1>1, <1>4 DEF Remains, Moved, Whole, InHand
<1>9. Meant(s)
  <2>1. s.op \in {"split", "insert", "move", "extract", "activate"} => s.copy # {}
    BY <1>4 DEF Meant
  <2>2. s.op \in {"move", "extract"} => s.tab # s.dst /\ (Remains(s) = {} <=> Whole(s))
    BY <1>4, <1>8 DEF Meant
  <2>3. s.op = "move" => s.dstCopy # {}
    BY <1>1, <1>4 DEF Meant
  <2>. QED
    BY <1>7, <2>1, <2>2, <2>3 DEF Meant
<1>10. ~InHand(r) /\ r.op # "create"
  BY <1>1 DEF InHand
<1>11. Lifts(h)
  BY <1>1, <1>2, <1>4, <1>5, <1>6, <1>7, <1>8, <1>10 DEF Lifts
<1>. QED
  BY <1>6, <1>9, <1>11 DEF Steps

\* The destination is stored: they are in another tab.
LEMMA StepsTarget ==
    ASSUME TypeInv, NEW h \in Handlers, Meant(req[h]), StoreTarget(h) \/ StoreExtracted(h)
    PROVE  Mine(h) /\ Meant(req'[h]) /\ Steps(h)
<1>. DEFINE r == req[h]
            s == req'[h]
            L == IF r.op = "move" THEN r.dstCopy \cup Moved(r) ELSE {r.pane}
            to   == Note(IF r.op = "move" THEN "updated" ELSE "created", r.dst, L, clock + 1, clock + 1)
            from == Note(IF Whole(r) THEN "closed" ELSE "updated", r.tab, Remains(r), r.first, clock + 1)
            notes == IF Whole(r) THEN <<to, from>> ELSE <<from, to>>
<1>1. r.op \in {"move", "extract"} /\ r.pc = "dest" /\ r.out = <<>> /\ InHand(r)
      /\ (StoreTarget(h) <=> r.op = "move")
  BY DEF StoreTarget, StoreExtracted, At, InHand
<1>2. r.tab \in Tabs /\ r.dst \in Tabs /\ r.pane \in r.copy \cup {Nobody} /\ clock \in Nat
      /\ (r.op = "extract" => r.pane \in r.copy /\ r.pane # Nobody)
  BY <1>1, AtStep DEF Sensible
<1>3. /\ r.copy # {} /\ r.tab # r.dst /\ (Remains(r) = {} <=> Whole(r))
      /\ (r.op = "move" => r.dstCopy # {})
  BY <1>1 DEF Meant
<1>4. /\ SendThen(h, notes, "end")
      /\ Store(r.dst, L, IF r.op = "move" THEN r.dstCopy ELSE layouts[r.dst])
  <2>1. CASE StoreTarget(h)
    <3>1. r.op = "move" /\ (Whole(r) <=> r.pane = Nobody)
      BY <1>1, <2>1 DEF Whole
    <3>. QED
      BY <2>1, <3>1, Zenon DEF StoreTarget
  <2>2. CASE StoreExtracted(h)
    <3>1. r.op # "move" /\ ~Whole(r)
      BY <2>2 DEF StoreExtracted, At, Whole
    <3>. QED
      BY <2>2, <3>1, Zenon DEF StoreExtracted
  <2>. QED
    BY <2>1, <2>2
<1>5. /\ Mine(h) /\ s.out = notes /\ s.pc = "end" /\ s.op = r.op
      /\ s.tab = r.tab /\ s.dst = r.dst /\ s.pane = r.pane /\ s.copy = r.copy
  BY <1>4, SentOut
<1>6. /\ to.kind = (IF r.op = "move" THEN "updated" ELSE "created") /\ to.tab = r.dst /\ to.leaves = L
      /\ to.own = clock + 1 /\ to.last = clock + 1
      /\ from.kind = (IF Whole(r) THEN "closed" ELSE "updated") /\ from.tab = r.tab
      /\ from.leaves = Remains(r) /\ from.own = r.first /\ from.last = clock + 1
  BY DEF Note
<1>7. L # {} /\ (r.op = "extract" => L = Moved(r)) /\ (r.op = "move" => L = r.dstCopy \cup Moved(r))
  BY <1>1, <1>2, <1>3 DEF Moved
<1>8. /\ layouts' = [layouts EXCEPT ![r.dst] = L] /\ clock' = clock + 1
      /\ r.op = "move" => layouts[r.dst] = r.dstCopy \/ "stale" \in slips'
  BY <1>4 DEF Store, Stamp, Slip
<1>9. notes = IF Whole(r) THEN <<to, from>> ELSE <<from, to>>
  OBVIOUS
<1>. HIDE DEF s, L, to, from, notes
<1>10. (to.leaves = {} <=> to.kind = "closed") /\ (from.leaves = {} <=> from.kind = "closed")
  BY <1>1, <1>3, <1>6, <1>7
<1>11. /\ to.last = from.last /\ to.tab # from.tab /\ ~(to.own < to.last)
       /\ Whole(r) => from.kind = "closed" /\ to.kind = "updated"
  <2>1. Whole(r) => r.op = "move"
    BY DEF Whole
  <2>. QED
    BY <1>2, <1>3, <1>6, <2>1
<1>12. Batch(s.out) /\ Out(s) = {from, to}
  <2>1. CASE Whole(r)
    <3>1. s.out = <<to, from>>
      BY <1>5, <1>9, <2>1
    <3>2. Batch(s.out) /\ Out(s) = {to, from}
      BY <1>10, <1>11, <2>1, <3>1, TwoNotes
    <3>. QED
      BY <3>2
  <2>2. CASE ~Whole(r)
    <3>1. s.out = <<from, to>>
      BY <1>5, <1>9, <2>2
    <3>. QED
      BY <1>10, <1>11, <3>1, TwoNotes
  <2>. QED
    BY <2>1, <2>2
<1>13. Meant(s) /\ ~InHand(s)
  <2>1. s.op # "create"
    BY <1>1, <1>5
  <2>. QED
    BY <1>5, <1>12, <2>1, GoesOn
<1>14. /\ to.kind = "created" => Reserves(r, r.dst) /\ to.leaves = Moved(r)
       /\ to.kind = "updated" =>
            \/ layouts[r.dst] # {} /\ to.leaves = layouts[r.dst] \cup Moved(r)
            \/ "stale" \in slips'
       /\ to.kind \in {"created", "updated"}
  BY <1>1, <1>3, <1>6, <1>7, <1>8 DEF Reserves
<1>15. Puts(h)
  <2>1. /\ from.tab = r.tab /\ from.leaves = Remains(r) /\ from.own = r.first
        /\ from.last = clock + 1 /\ from.kind = (IF Whole(r) THEN "closed" ELSE "updated")
        /\ to.tab = r.dst /\ to.own = clock + 1 /\ to.last = clock + 1 /\ to.leaves # {}
        /\ layouts' = [layouts EXCEPT ![r.dst] = to.leaves]
    BY <1>6, <1>7, <1>8
  <2>2. \/ to.kind = "created" /\ Reserves(r, r.dst) /\ to.leaves = Moved(r)
        \/ /\ to.kind = "updated"
           /\ \/ layouts[r.dst] # {} /\ to.leaves = layouts[r.dst] \cup Moved(r)
              \/ "stale" \in slips'
    BY <1>14
  <2>3. from \in Out(s) /\ to \in Out(s)
    BY <1>12
  <2>4. InHand(r) /\ ~InHand(s) /\ clock' = clock + 1 /\ r.tab \in Tabs /\ r.dst \in Tabs /\ r.tab # r.dst
    BY <1>1, <1>2, <1>3, <1>8, <1>13
  <2>. QED
    BY <1>12, <2>1, <2>2, <2>3, <2>4, Zenon DEF Puts, s
<1>. QED
  BY <1>5, <1>13, <1>15 DEF Steps, s

LEMMA StepsActivated ==
    ASSUME TypeInv, NEW h \in Handlers, Meant(req[h]), StoreActivated(h)
    PROVE  Mine(h) /\ Meant(req'[h]) /\ Steps(h)
<1>. DEFINE r == req[h]
<1>1. r.op = "activate" /\ r.out = <<>> /\ req' = [req EXCEPT ![h] = Idle]
  BY DEF StoreActivated, At
<1>2. ~InHand(r) /\ r.op # "create" /\ r.copy # {} /\ r.tab \in Tabs
  BY <1>1, AtStep DEF InHand, Meant, Sensible
<1>3. /\ layouts' = [layouts EXCEPT ![r.tab] = r.copy]
      /\ slips' = slips \cup Slip(layouts[r.tab] # r.copy, "stale")
  BY Zenon DEF StoreActivated, Store
<1>4. CASE layouts[r.tab] = r.copy
  <2>1. layouts' = layouts
    BY <1>3, <1>4, SameTab
  <2>. QED
    BY <1>1, <1>2, <2>1, Quits
<1>5. CASE layouts[r.tab] # r.copy
  <2>1. req'[h] = Idle /\ Mine(h)
    BY <1>1, Replaced
  <2>2. Idle.out = <<>> /\ ~InHand(Idle) /\ Meant(Idle)
    BY IdleMeans
  <2>3. \A t \in Tabs : layouts'[t] = {} => layouts[t] = {}
    BY <1>2, <1>3 DEF TypeInv, LayoutsOf
  <2>4. "stale" \in slips'
    BY <1>3, <1>5 DEF Slip
  <2>5. Overwrites(h)
    BY <1>1, <1>2, <2>1, <2>2, <2>3, <2>4 DEF Overwrites
  <2>. QED
    BY <2>1, <2>2, <2>5 DEF Steps
<1>. QED
  BY <1>4, <1>5

LEMMA StepsClose ==
    ASSUME TypeInv, NEW h \in Handlers, Meant(req[h]), ClosePane(h) \/ CloseLeaf(h) \/ RemoveClosed(h)
    PROVE  Mine(h) /\ Meant(req'[h]) /\ Steps(h)
<1>. DEFINE r == req[h]
<1>0. used' = used
  BY DEF ClosePane, CloseLeaf, RemoveClosed
<1>1. CASE ClosePane(h)
  <2>1. PICK p : /\ Purge(p) /\ req[h] = Idle
                 /\ req' = IF NotesOf(p) = <<>> THEN req
                           ELSE [req EXCEPT ![h] = [Idle EXCEPT !.op = "close", !.pc = "end",
                                                                !.out = NotesOf(p)]]
    BY <1>1, Zenon DEF ClosePane
  <2>2. req[h].out = <<>> /\ ~InHand(req[h]) /\ req[h].op # "create" /\ Meant(req[h])
    BY <2>1, IdleMeans
  <2>3. CASE NotesOf(p) = <<>>
    <3>. DEFINE s == req[h]
    <3>1. Mine(h) /\ req'[h] = s
      BY <2>1, <2>3 DEF Mine
    <3>2. s.out = NotesOf(p)
      BY <2>2, <2>3
    <3>. HIDE DEF s
    <3>3. ~InHand(s) /\ Meant(s)
      BY <2>2 DEF s
    <3>. QED
      BY <1>0, <2>1, <2>2, <3>1, <3>2, <3>3, StepsPurge, Zenon
  <2>4. CASE NotesOf(p) # <<>>
    <3>. DEFINE s == [Idle EXCEPT !.op = "close", !.pc = "end", !.out = NotesOf(p)]
    <3>1. req' = [req EXCEPT ![h] = s]
      BY <2>1, <2>4
    <3>2. s.op = "close" /\ s.pc = "end" /\ s.out = NotesOf(p)
      BY DEF Idle
    <3>. HIDE DEF s
    <3>3. req'[h] = s /\ Mine(h)
      BY <3>1, Replaced
    <3>4. ~InHand(s)
      BY <3>2 DEF InHand
    <3>5. Batch(s.out) /\ (\A i \in DOMAIN s.out : s.out[i].kind # "created") => Meant(s)
      BY <3>2, <3>4 DEF Meant
    <3>. QED
      BY <1>0, <2>1, <2>2, <3>2, <3>3, <3>4, <3>5, StepsPurge, Zenon
  <2>. QED
    BY <2>3, <2>4
<1>2. ASSUME Closing(h)
      PROVE  /\ r.op \in {"closeRest", "closeSync"} /\ r.pc = "leaf" /\ r.out = <<>>
             /\ ~InHand(r) /\ r.op # "create" /\ r \in RequestsOf(used, clock) /\ r.tab \in Tabs
  <2>1. r.op \in {"closeRest", "closeSync"} /\ r.pc = "leaf" /\ r.out = <<>>
    BY <1>2 DEF Closing, At
  <2>. QED
    BY <2>1, AtStep DEF InHand, Sensible
<1>3. CASE CloseLeaf(h)
  <2>0. /\ r.op \in {"closeRest", "closeSync"} /\ r.pc = "leaf" /\ r.out = <<>>
        /\ ~InHand(r) /\ r.op # "create" /\ r \in RequestsOf(used, clock)
    BY <1>2, <1>3 DEF CloseLeaf
  <2>1. PICK p \in r.todo :
           \/ req' = [req EXCEPT ![h].todo = @ \ {p}] /\ layouts' = layouts
           \/ Purge(p) /\ req' = [req EXCEPT ![h].todo = @ \ {p}, ![h].out = NotesOf(p)]
    BY <1>3, Zenon DEF CloseLeaf
  <2>2. CASE req' = [req EXCEPT ![h].todo = @ \ {p}] /\ layouts' = layouts
    <3>. DEFINE s == [r EXCEPT !.todo = r.todo \ {p}]
    <3>1. req' = [req EXCEPT ![h] = s]
      BY <2>2
    <3>2. s.op = r.op /\ s.pc = r.pc /\ s.out = r.out
      BY <2>0 DEF RequestsOf
    <3>. HIDE DEF s
    <3>3. req'[h] = s /\ Mine(h)
      BY <3>1, Replaced
    <3>4. ~InHand(s) /\ Batch(s.out) /\ DOMAIN s.out = {}
      BY <2>0, <3>2, NothingOut DEF InHand
    <3>5. Meant(s)
      BY <2>0, <3>2, <3>4 DEF Meant
    <3>6. Keeps(h)
      BY <2>0, <2>2, <3>2, <3>3, <3>4 DEF Keeps
    <3>. QED
      BY <3>3, <3>5, <3>6 DEF Steps
  <2>3. CASE Purge(p) /\ req' = [req EXCEPT ![h].todo = @ \ {p}, ![h].out = NotesOf(p)]
    <3>. DEFINE notes == NotesOf(p)
                s == [r EXCEPT !.todo = r.todo \ {p}, !.out = notes]
    <3>1. req' = [req EXCEPT ![h] = s]
      BY <2>3
    <3>2. s.op = r.op /\ s.pc = r.pc /\ s.out = notes
      BY <2>0 DEF RequestsOf
    <3>. HIDE DEF s
    <3>3. req'[h] = s /\ Mine(h)
      BY <3>1, Replaced
    <3>4. ~InHand(s)
      BY <2>0, <3>2 DEF InHand
    <3>5. Batch(s.out) /\ (\A i \in DOMAIN s.out : s.out[i].kind # "created") => Meant(s)
      BY <2>0, <3>2, <3>4 DEF Meant
    <3>. QED
      BY <1>0, <2>0, <2>3, <3>2, <3>3, <3>4, <3>5, StepsPurge, Zenon
  <2>. QED
    BY <2>1, <2>2, <2>3
<1>4. CASE RemoveClosed(h)
  <2>. DEFINE t == r.tab
  <2>0. /\ r.op \in {"closeRest", "closeSync"} /\ r.pc = "leaf" /\ r.out = <<>>
        /\ ~InHand(r) /\ r.op # "create" /\ r.tab \in Tabs
    BY <1>2, <1>4 DEF RemoveClosed
  <2>1. /\ Remove(t, layouts[t] \ sessions)
        /\ IF layouts[t] = {} THEN req' = [req EXCEPT ![h] = Idle]
           ELSE SendThen(h, <<Note("closed", t, {}, clock + 1, clock + 1)>>, "end")
    BY <1>4, Zenon DEF RemoveClosed
  <2>2. /\ layouts' = [layouts EXCEPT ![t] = {}]
        /\ layouts[t] # {} => clock' = clock + 1
        /\ layouts[t] = {} => layouts' = layouts
    <3>1. used \subseteq used'
      BY <1>0
    <3>. QED
      BY <2>0, <2>1, <3>1, RemoveFacts
  <2>3. CASE layouts[t] = {}
    BY <2>0, <2>1, <2>2, <2>3, Quits
  <2>4. CASE layouts[t] # {}
    <3>. DEFINE m == Note("closed", t, {}, clock + 1, clock + 1)
                s == req'[h]
    <3>1. m.kind = "closed" /\ m.tab = t /\ m.leaves = {} /\ m.own = clock + 1 /\ m.last = clock + 1
      BY DEF Note
    <3>2. /\ Mine(h) /\ s.out = <<m>> /\ s.pc = "end" /\ s.op = r.op
          /\ s.tab = r.tab /\ s.dst = r.dst /\ s.pane = r.pane
          /\ s.new = r.new /\ s.copy = r.copy
      BY <2>1, <2>4, SentOut
    <3>3. layouts'[t] = {} /\ \A u \in Tabs : u # t => layouts'[u] = layouts[u]
      BY <2>0, <2>2 DEF TypeInv, LayoutsOf
    <3>. HIDE DEF m, s
    <3>4. Batch(s.out) /\ DOMAIN s.out = {1} /\ s.out[1] = m /\ Out(s) = {m}
      <4>1. m.leaves = {} <=> m.kind = "closed"
        BY <3>1
      <4>. QED
        BY <3>2, <4>1, OneNote
    <3>5. Meant(s) /\ ~InHand(s)
      <4>1. \A i \in DOMAIN s.out : s.out[i].kind = "created" /\ s.op = "create" =>
              s.pc = "verify" /\ s.out[i].tab = s.tab
        BY <3>1, <3>4
      <4>. QED
        BY <3>2, <3>4, <4>1, GoesOn
    <3>6. Tells(h)
      <4>1. \A n \in Out(s) :
             /\ n.own = clock + 1 /\ n.last = clock + 1
             /\ layouts'[n.tab] = n.leaves \/ (n.kind = "closed" /\ "stale" \in slips')
             /\ n.kind = "created" => Reserves(r, n.tab) \/ n.tab \notin used
             /\ n.kind = "updated" => layouts[n.tab] # {} \/ "stale" \in slips'
             /\ n.kind = "closed" => layouts[n.tab] # {} \/ n.tab = req[h].tab
        BY <3>1, <3>3, <3>4
      <4>2. \A u \in Tabs : layouts'[u] = layouts[u] \/ \E n \in Out(s) : n.tab = u
        BY <3>1, <3>3, <3>4
      <4>3. \A u \in Tabs : layouts'[u] \subseteq layouts[u]
        BY <3>3
      <4>. QED
        BY <2>0, <2>2, <2>4, <3>5, <4>1, <4>2, <4>3 DEF Tells, s
    <3>. QED
      BY <3>2, <3>5, <3>6 DEF Steps, s
  <2>. QED
    BY <2>3, <2>4
<1>. QED
  BY <1>1, <1>3, <1>4

\* Every step of a request but its broadcasts and the store of what a client shows.
Handled(h) ==
    \/ BeginCreate(h) \/ PublishTab(h) \/ VerifyTab(h) \/ ClientCreate(h)
    \/ CreatePluginTab(h) \/ BeginInsert(h) \/ StoreInsert(h)
    \/ BeginSplit(h) \/ SpawnForSplit(h) \/ StoreSplit(h) \/ RecheckSplit(h)
    \/ BeginMove(h) \/ ReadTarget(h) \/ StoreSource(h) \/ StoreTarget(h)
    \/ BeginExtract(h) \/ StoreRest(h) \/ StoreExtracted(h)
    \/ BeginActivate(h) \/ StoreActivated(h)
    \/ ClosePane(h) \/ BeginCloseTab(h) \/ CloseLeaf(h) \/ RemoveClosed(h)

LEMMA StepsHandled ==
    ASSUME TypeInv, NEW h \in Handlers, Meant(req[h]), Handled(h)
    PROVE  /\ Mine(h) /\ Meant(req'[h]) /\ Steps(h)
           /\ UNCHANGED clientVars /\ slips \subseteq slips' /\ followed' = followed
<1>1. Mine(h) /\ Meant(req'[h]) /\ Steps(h)
  BY StepsBegin, StepsPublish, StepsVerify, StepsCreate, StepsSplit, StepsReadTarget, StepsSource,
     StepsTarget, StepsActivated, StepsClose, Zenon DEF Handled
<1>2. UNCHANGED clientVars /\ followed' = followed
  BY DEF Handled, BeginCreate, PublishTab, VerifyTab, ClientCreate,
         CreatePluginTab, BeginInsert, StoreInsert, BeginSplit, SpawnForSplit, StoreSplit, RecheckSplit,
         BeginMove, ReadTarget, StoreSource, StoreTarget, BeginExtract, StoreRest, StoreExtracted,
         BeginActivate, StoreActivated, ClosePane, BeginCloseTab, CloseLeaf, RemoveClosed, bootVars
<1>3. slips \subseteq slips'
  <2>1. \A t, L, b : Store(t, L, b) \/ Remove(t, b) => slips \subseteq slips'
    BY DEF Store, Remove
  <2>. QED
    BY <2>1 DEF Handled, BeginCreate, PublishTab, VerifyTab, ClientCreate,
         CreatePluginTab, BeginInsert, StoreInsert, BeginSplit, SpawnForSplit, StoreSplit, RecheckSplit,
         BeginMove, ReadTarget, StoreSource, StoreTarget, BeginExtract, StoreRest, StoreExtracted,
         BeginActivate, StoreActivated, ClosePane, BeginCloseTab, CloseLeaf, RemoveClosed
<1>. QED
  BY <1>1, <1>2, <1>3

-----------------------------------------------------------------------------
(* What is so of the requests and of the client at any time.               *)

MeantInv == \A h \in Handlers : Meant(req[h])

\* The notes of two requests stem from different changes.
Lasts(c) == \A h, k \in Handlers : h # k =>
              \A m \in Out(c[h]) : \A n \in Out(c[k]) : m.last # n.last

ConnInv ==
    /\ conn = "away" => queue = <<>>
    /\ conn # "listed" => replica = NoTabs
    /\ followed = "file" => conn = "away"
    /\ followed = "client" => "early" \notin slips

ClientInv == MeantInv /\ Lasts(req) /\ ConnInv

\* What is still to be told is of changes made so far.
LEMMA OutTyped ==
    ASSUME TypeInv, NEW h \in Handlers
    PROVE  /\ \A n \in Out(req[h]) :
                /\ n \in AnyNotes /\ n.tab \in Tabs \cap used /\ n.own \in 0 .. clock
                /\ n.last \in 0 .. clock /\ n.leaves \subseteq Leaves
           /\ req[h].out \in Seq(NotesOfIds(used, clock)) /\ clock \in Nat
<1>1. req[h].out \in Seq(NotesOfIds(used, clock)) /\ clock \in Nat
  BY DEF TypeInv, RequestsOf
<1>. DEFINE s == req[h].out
<1>2. ASSUME NEW i \in DOMAIN s
      PROVE  /\ s[i] \in AnyNotes /\ s[i].tab \in Tabs \cap used /\ s[i].own \in 0 .. clock
             /\ s[i].last \in 0 .. clock /\ s[i].leaves \subseteq Leaves
  <2>1. s[i] \in NotesOfIds(used, clock)
    BY <1>1
  <2>. QED
    BY <1>1, <2>1 DEF NotesOfIds, AnyNotes
<1>. QED
  BY <1>1, <1>2 DEF Out

\* A broadcast: what is left of the notes of its request.
LEMMA Sends ==
    ASSUME TypeInv, NEW h \in Handlers, Broadcast(h), Meant(req[h]),
           NEW m, m = Head(req[h].out)
    PROVE  /\ m \in Out(req[h]) /\ m \notin Out(req'[h]) /\ Out(req[h]) = Out(req'[h]) \cup {m}
           /\ Mine(h) /\ Meant(req'[h]) /\ ~InHand(req[h]) /\ ~InHand(req'[h])
           /\ \A n \in Out(req'[h]) :
                /\ n.last = m.last /\ n.tab # m.tab
                /\ n.own < n.last => n.kind = "closed" /\ m.kind = "updated"
           /\ \/ req'[h] = Idle /\ req[h].pc = "end"
              \/ /\ req'[h].op = req[h].op /\ req'[h].pc = req[h].pc /\ req'[h].tab = req[h].tab
                 /\ req'[h].dst = req[h].dst /\ req'[h].pane = req[h].pane /\ req'[h].copy = req[h].copy
                 /\ req'[h].new = req[h].new
<1>. DEFINE r == req[h]
            s == IF Len(r.out) = 1 /\ r.pc = "end" THEN Idle ELSE [r EXCEPT !.out = Tail(r.out)]
            o == r.out
            T == NotesOfIds(used, clock)
<1>1. req' = [req EXCEPT ![h] = s] /\ o # <<>>
  BY DEF Broadcast
<1>2. o \in Seq(T) /\ r \in RequestsOf(used, clock)
  BY DEF TypeInv, RequestsOf
<1>3. req'[h] = s /\ Mine(h)
  BY <1>1, Replaced
<1>4. /\ Len(o) \in Nat \ {0} /\ DOMAIN o = 1 .. Len(o) /\ o[1] = m
      /\ DOMAIN Tail(o) = 1 .. Len(o) - 1 /\ \A i \in 1 .. Len(o) - 1 : Tail(o)[i] = o[i + 1]
  BY <1>1, <1>2
<1>5. ~InHand(r) /\ Batch(o)
  BY <1>1 DEF Meant
<1>. DEFINE p == Tail(o)
<1>6. Out(r) = {o[i] : i \in DOMAIN o}
  BY DEF Out
<1>7. \A i \in DOMAIN p : i + 1 \in DOMAIN o /\ 1 < i + 1 /\ p[i] = o[i + 1] /\ 1 \in DOMAIN o
  BY <1>4
<1>8. \A i \in DOMAIN p : /\ p[i].last = m.last /\ p[i].tab # m.tab
                          /\ p[i].own < p[i].last => p[i].kind = "closed" /\ m.kind = "updated"
  <2>. SUFFICES ASSUME NEW i \in DOMAIN p
                PROVE  /\ p[i].last = m.last /\ p[i].tab # m.tab
                       /\ p[i].own < p[i].last => p[i].kind = "closed" /\ m.kind = "updated"
    OBVIOUS
  <2>1. /\ o[1].last = o[i + 1].last /\ o[1].tab # o[i + 1].tab
        /\ o[i + 1].own < o[i + 1].last => o[i + 1].kind = "closed" /\ o[1].kind = "updated"
    BY <1>5, <1>7 DEF Batch
  <2>. QED
    BY <1>4, <1>7, <2>1
<1>9. \A j \in DOMAIN o : o[j] = m \/ \E i \in DOMAIN p : p[i] = o[j]
  <2>. SUFFICES ASSUME NEW j \in DOMAIN o, j # 1 PROVE \E i \in DOMAIN p : p[i] = o[j]
    BY <1>4
  <2>1. j - 1 \in DOMAIN p /\ p[j - 1] = o[j]
    BY <1>4
  <2>. QED
    BY <2>1
<1>10. Batch(p)
  <2>1. \A i \in DOMAIN p : p[i].leaves = {} <=> p[i].kind = "closed"
    BY <1>5, <1>7 DEF Batch
  <2>2. ASSUME NEW i \in DOMAIN p, NEW j \in DOMAIN p, i < j
        PROVE  /\ p[i].last = p[j].last /\ p[i].tab # p[j].tab
               /\ p[j].own < p[j].last => p[j].kind = "closed" /\ p[i].kind = "updated"
    <3>1. i + 1 \in DOMAIN o /\ j + 1 \in DOMAIN o /\ i + 1 < j + 1 /\ p[i] = o[i + 1] /\ p[j] = o[j + 1]
      BY <1>4, <1>7, <2>2
    <3>. HIDE DEF p
    <3>. QED
      BY <1>5, <3>1 DEF Batch
  <2>. QED
    BY <2>1, <2>2 DEF Batch
<1>11. \/ s = Idle /\ r.pc = "end" /\ DOMAIN p = {}
       \/ /\ s.op = r.op /\ s.pc = r.pc /\ s.tab = r.tab /\ s.dst = r.dst /\ s.pane = r.pane /\ s.copy = r.copy
          /\ s.new = r.new /\ s.dstCopy = r.dstCopy /\ s.out = p
  BY <1>2, <1>4 DEF RequestsOf
<1>. HIDE DEF s
<1>12. CASE s = Idle /\ r.pc = "end" /\ DOMAIN p = {}
  <2>1. Out(s) = {} /\ Meant(s) /\ ~InHand(s)
    BY <1>12, IdleMeans, NoNotes, Zenon
  <2>2. \A i \in DOMAIN o : o[i] = m
    BY <1>9, <1>12
  <2>3. Out(r) = {m}
    BY <1>4, <1>6, <2>2
  <2>. QED
    BY <1>3, <1>5, <1>12, <2>1, <2>3
<1>13. CASE /\ s.op = r.op /\ s.pc = r.pc /\ s.tab = r.tab /\ s.dst = r.dst /\ s.pane = r.pane /\ s.copy = r.copy
            /\ s.new = r.new /\ s.dstCopy = r.dstCopy /\ s.out = p
  <2>. HIDE DEF p
  <2>1. Out(s) = {p[i] : i \in DOMAIN p}
    BY <1>13 DEF Out
  <2>2. ~InHand(s)
    BY <1>5, <1>13 DEF InHand
  <2>3. Remains(s) = Remains(r) /\ (Whole(s) <=> Whole(r))
    BY <1>13 DEF Remains, Moved, Whole
  <2>4. \A i \in DOMAIN p : p[i].kind = "created" /\ s.op = "create" => s.pc = "verify" /\ p[i].tab = s.tab
    BY <1>7, <1>13 DEF Meant
  <2>5. Meant(s)
    BY <1>10, <1>13, <2>2, <2>3, <2>4 DEF Meant
  <2>6. m \notin Out(s)
    BY <1>8, <2>1
  <2>7. Out(r) = Out(s) \cup {m} /\ m \in Out(r)
    <3>1. m \in Out(r)
      BY <1>4, <1>6, <1>1
    <3>2. \A i \in DOMAIN p : p[i] \in Out(r)
      BY <1>6, <1>7
    <3>3. \A i \in DOMAIN o : o[i] \in Out(s) \cup {m}
      BY <1>9, <2>1
    <3>. QED
      BY <1>6, <2>1, <3>1, <3>2, <3>3
  <2>8. \A n \in Out(s) : /\ n.last = m.last /\ n.tab # m.tab
                          /\ n.own < n.last => n.kind = "closed" /\ m.kind = "updated"
    BY <1>8, <2>1
  <2>. QED
    BY <1>3, <1>5, <1>13, <2>2, <2>5, <2>6, <2>7, <2>8
<1>. QED
  BY <1>11, <1>12, <1>13

\* What is meant by the locals is so of the locals afterwards.
LEMMA Meaning == MeantInv' <=> \A k \in Handlers : Meant(req'[k])
BY DEF MeantInv, Meant, Remains, Moved, Whole, InHand, Batch

\* The notes a step adds are of a change of its own.
LEMMA NewNotes ==
    ASSUME TypeInv, NEW h \in Handlers, Steps(h)
    PROVE  /\ req[h].out = <<>> => Out(req[h]) = {}
           /\ \A n \in Out(req'[h]) : n.last = clock + 1
<1>0. \A r : r.out = <<>> => Out(r) = {}
  BY NoNotes
<1>1. CASE Keeps(h) \/ Overwrites(h) \/ Lifts(h)
  <2>1. Out(req'[h]) = {}
    BY <1>0, <1>1 DEF Keeps, Overwrites, Lifts
  <2>. QED
    BY <1>0, <2>1
<1>2. CASE Tells(h)
  BY <1>0, <1>2 DEF Tells
<1>3. CASE Puts(h)
  BY <1>0, <1>3 DEF Puts
<1>. QED
  BY <1>1, <1>2, <1>3 DEF Steps

LEMMA MeantHandled ==
    ASSUME TypeInv, MeantInv, Lasts(req), NEW h \in Handlers, Handled(h)
    PROVE  MeantInv' /\ Lasts(req')
<1>1. Meant(req[h])
  BY DEF MeantInv
<1>2. Mine(h) /\ Meant(req'[h]) /\ Steps(h)
  BY <1>1, StepsHandled
<1>3. \A k \in Handlers : Meant(req'[k])
  BY <1>2 DEF Mine, MeantInv
<1>4. \A n \in Out(req'[h]) : n.last = clock + 1
  BY <1>2, NewNotes
<1>5. \A k \in Handlers \ {h} : req'[k] = req[k] /\ \A n \in Out(req[k]) : n.last \in 0 .. clock
  BY <1>2, OutTyped DEF Mine
<1>6. clock \in Nat
  BY DEF TypeInv
<1>7. Lasts(req')
  <2>. SUFFICES ASSUME NEW k \in Handlers, NEW j \in Handlers, k # j,
                       NEW m \in Out(req'[k]), NEW n \in Out(req'[j])
                PROVE  m.last # n.last
    BY DEF Lasts
  <2>1. CASE k = h
    BY <1>4, <1>5, <1>6, <2>1
  <2>2. CASE j = h
    BY <1>4, <1>5, <1>6, <2>2
  <2>3. CASE k # h /\ j # h
    <3>1. m \in Out(req[k]) /\ n \in Out(req[j])
      BY <1>5, <2>3
    <3>. QED
      BY <3>1 DEF Lasts
  <2>. QED
    BY <2>1, <2>2, <2>3
<1>8. MeantInv'
  BY <1>3, Meaning
<1>. QED
  BY <1>7, <1>8

LEMMA MeantSent ==
    ASSUME TypeInv, MeantInv, Lasts(req), NEW h \in Handlers, Broadcast(h)
    PROVE  MeantInv' /\ Lasts(req')
<1>. DEFINE m == Head(req[h].out)
<1>1. Meant(req[h])
  BY DEF MeantInv
<1>. HIDE DEF m
<1>2. Out(req[h]) = Out(req'[h]) \cup {m} /\ Mine(h) /\ Meant(req'[h])
  BY <1>1, Sends DEF m
<1>3. \A k \in Handlers : Meant(req'[k]) /\ \A n \in Out(req'[k]) : n \in Out(req[k])
  BY <1>2 DEF Mine, MeantInv
<1>4. Lasts(req')
  BY <1>3 DEF Lasts
<1>. QED
  BY <1>3, <1>4, Meaning

\* The steps, by what they do to the requests and to the client.
LEMMA Cases ==
    ASSUME [Next]_vars
    PROVE  \/ \E h \in Handlers : Handled(h) \/ Broadcast(h) \/ ClientUpdates(h)
           \/ ListTabs \/ Register \/ ReceiveList \/ Disconnect \/ Deliver \/ Crash
           \/ RestorePane \/ RestoreTab \/ ShellEnds \/ Serve
           \/ UNCHANGED <<layouts, req, clientVars, followed>> /\ slips \subseteq slips' \cup {"unsaved"}
              /\ slips' \subseteq slips \cup {"unsaved"}
<1>1. (\E p \in Panes : ConnectTerminal(p)) \/ BeginSnapshot \/ ReadTab \/ EndSnapshot \/ UNCHANGED vars
        => /\ UNCHANGED <<layouts, req, clientVars, followed>> /\ slips \subseteq slips' \cup {"unsaved"}
           /\ slips' \subseteq slips \cup {"unsaved"}
  BY DEF ConnectTerminal, BeginSnapshot, ReadTab, EndSnapshot, Write, vars, serverVars, bootVars
<1>. QED
  BY <1>1, Zenon DEF Next, Handled

LEMMA ClientStep ==
    ASSUME TypeInv, BootInv, ClientInv, [Next]_vars
    PROVE  ClientInv'
<1>1. MeantInv' /\ Lasts(req')
  <2>1. CASE \E h \in Handlers : Handled(h)
    BY <2>1, MeantHandled DEF ClientInv
  <2>2. CASE \E h \in Handlers : Broadcast(h)
    BY <2>2, MeantSent DEF ClientInv
  <2>3. CASE \A h \in Handlers : req'[h] = req[h]
    <3>1. Lasts(req')
      BY <2>3 DEF ClientInv, Lasts
    <3>2. MeantInv'
      BY <2>3, Meaning DEF ClientInv, MeantInv
    <3>. QED
      BY <3>1, <3>2
  <2>4. CASE Crash
    <3>1. \A h \in Handlers : req'[h] = Idle
      BY <2>4 DEF Crash
    <3>2. \A r : r.out = <<>> => Out(r) = {}
      BY NoNotes
    <3>3. \A h \in Handlers : Out(req'[h]) = {} /\ Meant(req'[h])
      BY <3>1, <3>2, IdleMeans
    <3>4. Lasts(req')
      BY <3>3 DEF Lasts
    <3>. QED
      BY <3>3, <3>4, Meaning
  <2>. QED
    <3>1. (\E h \in Handlers : ClientUpdates(h)) \/ ListTabs \/ Register \/ ReceiveList \/ Disconnect \/ Deliver
             \/ RestorePane \/ RestoreTab \/ ShellEnds \/ Serve => req' = req
      BY DEF ClientUpdates, ListTabs, Register, ReceiveList, Disconnect, Deliver, RestorePane,
             RestoreTab, ShellEnds, Serve
    <3>. QED
      BY <2>1, <2>2, <2>3, <2>4, <3>1, Cases
<1>2. ConnInv'
  <2>1. CASE \E h \in Handlers : Handled(h)
    <3>1. PICK h \in Handlers : Handled(h)
      BY <2>1
    <3>2. UNCHANGED clientVars /\ followed' = followed
      BY <3>1, StepsHandled DEF ClientInv, MeantInv
    <3>3. "early" \in slips' => "early" \in slips
      <4>1. \A c, w : "early" \in Slip(c, w) => w = "early"
        BY DEF Slip
      <4>2. \A t, L, b : Store(t, L, b) \/ Remove(t, b) => slips' = slips \cup Slip(layouts[t] # b, "stale")
        BY DEF Store, Remove
      <4>3. \/ slips' = slips \/ (\E t, L, b : Store(t, L, b) \/ Remove(t, b)) \/ VerifyTab(h)
        BY <3>1 DEF Handled, BeginCreate, PublishTab, ClientCreate,
         CreatePluginTab, BeginInsert, StoreInsert, BeginSplit, SpawnForSplit, StoreSplit, RecheckSplit,
         BeginMove, ReadTarget, StoreSource, StoreTarget, BeginExtract, StoreRest, StoreExtracted,
         BeginActivate, StoreActivated, ClosePane, BeginCloseTab, CloseLeaf, RemoveClosed
      <4>4. VerifyTab(h) => slips' = slips \/ (\E c : slips' = slips \cup Slip(c, "merged"))
                                           \/ (\E c : slips' = slips \cup Slip(c, "stale"))
        BY DEF VerifyTab
      <4>. QED
        BY <4>1, <4>2, <4>3, <4>4
    <3>. QED
      BY <3>2, <3>3 DEF ClientInv, ConnInv, clientVars
  <2>2. CASE \E h \in Handlers : Broadcast(h)
    <3>1. PICK h \in Handlers : Broadcast(h)
      BY <2>2
    <3>2. /\ conn' = conn /\ replica' = replica /\ followed' = followed /\ (conn = "away" => queue' = queue)
          /\ slips' \subseteq slips \cup {"late", "reordered"}
      BY <3>1 DEF Broadcast, bootVars, Slip
    <3>. QED
      BY <3>2 DEF ClientInv, ConnInv
  <2>3. CASE ShellEnds
    <3>1. conn' = conn /\ replica' = replica /\ queue' = queue /\ followed' = followed /\ followed = "file"
      BY <2>3 DEF ShellEnds, BootInv, clientVars, bootVars
    <3>. QED
      BY <3>1 DEF ClientInv, ConnInv
  <2>4. CASE Register
    BY <2>4 DEF ClientInv, ConnInv, Register, bootVars, TypeInv
  <2>5. CASE ReceiveList
    <3>1. conn = "registered" /\ conn' = "listed" /\ followed' = followed /\ "early" \in slips' => "early" \in slips
      BY <2>5 DEF ReceiveList, bootVars, Slip
    <3>2. conn = "registered" /\ conn' = "listed" /\ followed' = followed /\ queue' = queue
      BY <2>5 DEF ReceiveList, bootVars
    <3>. QED
      BY <3>1, <3>2 DEF ClientInv, ConnInv, TypeInv
  <2>6. CASE Disconnect
    BY <2>6 DEF ClientInv, ConnInv, Disconnect, bootVars
  <2>7. CASE Deliver
    BY <2>7 DEF ClientInv, ConnInv, Deliver, bootVars
  <2>8. CASE Crash
    BY <2>8 DEF ClientInv, ConnInv, Crash
  <2>9. CASE \E h \in Handlers : ClientUpdates(h)
    BY <2>9 DEF ClientInv, ConnInv, ClientUpdates, bootVars, Slip
  <2>10. CASE RestorePane \/ RestoreTab \/ Serve
    <3>1. UNCHANGED <<conn, queue, replica, followed>> /\ ("early" \in slips' => "early" \in slips)
      BY <2>10 DEF RestorePane, RestoreTab, Serve, clientVars, Store, Slip
    <3>. QED
      BY <3>1 DEF ClientInv, ConnInv
  <2>11. CASE ListTabs
    BY <2>11 DEF ClientInv, ConnInv, ListTabs, clientVars, bootVars
  <2>12. CASE UNCHANGED <<layouts, req, clientVars, followed>> /\ slips' \subseteq slips \cup {"unsaved"}
    BY <2>12 DEF ClientInv, ConnInv, clientVars
  <2>. QED
    BY <2>1, <2>2, <2>3, <2>4, <2>5, <2>6, <2>7, <2>8, <2>9, <2>10, <2>11, <2>12, Cases
<1>. QED
  BY <1>1, <1>2 DEF ClientInv, Lasts, Out

LEMMA ClientInit ==
    ASSUME Init
    PROVE  ClientInv
<1>1. \A h \in Handlers : req[h] = Idle
  BY DEF Init
<1>2. \A r : r.out = <<>> => Out(r) = {}
  BY NoNotes
<1>3. \A h \in Handlers : Out(req[h]) = {} /\ Meant(req[h])
  BY <1>1, <1>2, IdleMeans
<1>4. ConnInv
  BY DEF Init, ConnInv
<1>. QED
  BY <1>3, <1>4 DEF ClientInv, MeantInv, Lasts

-----------------------------------------------------------------------------
(* A tab whose id is taken and not stored yet is not told of.              *)

Untold(c) == \A h \in Handlers : \A t \in Tabs : Reserves(c[h], t) =>
               \A k \in Handlers : \A n \in Out(c[k]) : n.tab # t

UntoldInv == slips \cap {"stale", "unannounced", "early"} = {} => Untold(req)

\* Only an id never handed out is taken, by a request that tells of nothing meanwhile.
LEMMA Reservations ==
    ASSUME TypeInv, NEW h \in Handlers, Handled(h), NEW t \in Tabs, Reserves(req'[h], t)
    PROVE  (Reserves(req[h], t) \/ t \notin used) /\ req'[h].out = <<>>
<1>. DEFINE r == req[h]
            s == req'[h]
<1>1. r \in RequestsOf(used, clock) /\ req \in [Handlers -> RequestsOf(used, clock)]
  BY DEF TypeInv
<1>2. \A x : req' = [req EXCEPT ![h] = x] => s = x
  BY <1>1
<1>3. s # Idle
  BY IdleMeans
<1>4. ASSUME NEW notes, NEW pc, SendThen(h, notes, pc)
      PROVE  s.op = r.op /\ s.pc = pc /\ s.tab = r.tab /\ s.dst = r.dst
  BY <1>4, SentOut
<1>5. ASSUME BeginCreate(h) PROVE t \notin used /\ s.out = <<>>
  <2>1. PICK p \in Fresh(Panes), u \in Fresh(Tabs) :
          Start(h, [Idle EXCEPT !.op = "create", !.pc = "publish", !.pane = p, !.tab = u])
    BY <1>5 DEF BeginCreate
  <2>2. s = [Idle EXCEPT !.op = "create", !.pc = "publish", !.pane = p, !.tab = u]
    BY <1>2, <2>1 DEF Start
  <2>3. s.op = "create" /\ s.tab = u /\ s.out = <<>>
    BY <2>2 DEF Idle
  <2>. QED
    BY <2>3 DEF Fresh, Reserves
<1>6. ASSUME BeginExtract(h) PROVE t \notin used /\ s.out = <<>>
  <2>0. PICK u \in Present, d \in Fresh(Tabs) : \E p :
          Start(h, [Idle EXCEPT !.op = "extract", !.pc = "source", !.tab = u,
                                !.dst = d, !.pane = p, !.copy = layouts[u]])
    BY <1>6 DEF BeginExtract
  <2>1. PICK p : Start(h, [Idle EXCEPT !.op = "extract", !.pc = "source", !.tab = u,
                                       !.dst = d, !.pane = p, !.copy = layouts[u]])
    BY <2>0
  <2>2. s = [Idle EXCEPT !.op = "extract", !.pc = "source", !.tab = u,
                         !.dst = d, !.pane = p, !.copy = layouts[u]]
    BY <1>2, <2>1 DEF Start
  <2>3. s.op = "extract" /\ s.dst = d /\ s.out = <<>>
    BY <2>2 DEF Idle
  <2>. QED
    BY <2>3 DEF Fresh, Reserves
<1>8. ASSUME ClientCreate(h) \/ CreatePluginTab(h) \/ BeginInsert(h) \/ BeginSplit(h) \/ BeginMove(h)
               \/ BeginActivate(h) \/ BeginCloseTab(h)
      PROVE  FALSE
  <2>0. \A x : Start(h, x) => s = x
    BY <1>2 DEF Start
  <2>1. s.op \notin {"create", "extract"}
    <3>1. CASE ClientCreate(h)
      <4>1. s.op = "mirror"
        BY <2>0, <3>1 DEF ClientCreate, Idle
      <4>. QED
        BY <4>1
    <3>2. CASE CreatePluginTab(h)
      <4>1. s.op = "plugin"
        BY <2>0, <3>2 DEF CreatePluginTab, Idle
      <4>. QED
        BY <4>1
    <3>3. CASE BeginInsert(h)
      <4>1. s.op = "insert"
        BY <2>0, <3>3 DEF BeginInsert, Idle
      <4>. QED
        BY <4>1
    <3>4. CASE BeginSplit(h)
      <4>1. s.op = "split"
        BY <2>0, <3>4 DEF BeginSplit, Idle
      <4>. QED
        BY <4>1
    <3>5. CASE BeginMove(h)
      <4>1. s.op = "move"
        BY <2>0, <3>5 DEF BeginMove, Idle
      <4>. QED
        BY <4>1
    <3>6. CASE BeginActivate(h)
      <4>1. s.op = "activate"
        BY <2>0, <3>6 DEF BeginActivate, Idle
      <4>. QED
        BY <4>1
    <3>7. CASE BeginCloseTab(h)
      <4>1. s.op \in {"closeRest", "closeSync"}
        BY <2>0, <3>7 DEF BeginCloseTab, Idle
      <4>. QED
        BY <4>1
    <3>. QED
      BY <1>8, <3>1, <3>2, <3>3, <3>4, <3>5, <3>6, <3>7
  <2>. QED
    BY <2>1 DEF Reserves
<1>9. ASSUME PublishTab(h) \/ VerifyTab(h) \/ StoreSplit(h) \/ StoreInsert(h) \/ RecheckSplit(h)
               \/ StoreTarget(h) \/ StoreExtracted(h)
      PROVE  FALSE
  <2>1. \/ req' = [req EXCEPT ![h] = Idle]
        \/ \E notes, pc : SendThen(h, notes, pc) /\ pc \in {"verify", "end", "recheck"}
    BY <1>9, Zenon DEF PublishTab, VerifyTab, StoreSplit, StoreInsert, RecheckSplit, StoreTarget, StoreExtracted
  <2>2. PICK notes, pc : SendThen(h, notes, pc) /\ pc \in {"verify", "end", "recheck"}
    BY <1>2, <1>3, <2>1
  <2>. QED
    BY <1>4, <2>2 DEF Reserves
<1>10. ASSUME RemoveClosed(h) PROVE FALSE
  <2>1. req' = [req EXCEPT ![h] = Idle] \/ \E notes : SendThen(h, notes, "end")
    BY <1>10, Zenon DEF RemoveClosed
  <2>. QED
    BY <1>2, <1>3, <1>4, <2>1 DEF Reserves
<1>11. ASSUME SpawnForSplit(h) \/ ReadTarget(h) \/ StoreSource(h) \/ StoreActivated(h) \/ CloseLeaf(h) PROVE FALSE
  <2>1. r.op \in {"split", "move", "activate", "closeRest", "closeSync"}
    BY <1>11 DEF SpawnForSplit, ReadTarget, StoreSource, StoreActivated, CloseLeaf, Closing, At
  <2>2. s.op = r.op
    <3>1. CASE SpawnForSplit(h)
      BY <1>1, <1>3, <3>1 DEF SpawnForSplit, RequestsOf
    <3>2. CASE ReadTarget(h)
      BY <1>1, <1>3, <3>2 DEF ReadTarget, RequestsOf
    <3>3. CASE StoreSource(h)
      BY <1>1, <3>3 DEF StoreSource, RequestsOf
    <3>4. CASE StoreActivated(h)
      BY <1>1, <1>3, <3>4 DEF StoreActivated
    <3>5. CASE CloseLeaf(h)
      BY <1>1, <3>5 DEF CloseLeaf, RequestsOf
    <3>. QED
      BY <1>11, <3>1, <3>2, <3>3, <3>4, <3>5
  <2>. QED
    BY <2>1, <2>2 DEF Reserves
<1>12. ASSUME StoreRest(h) PROVE Reserves(r, t) /\ s.out = <<>>
  <2>1. r.op = "extract" /\ r.pc = "source" /\ r.out = <<>>
    BY <1>12 DEF StoreRest, At
  <2>2. s.dst = r.dst /\ s.op = r.op /\ s.out = r.out
    BY <1>1, <1>12 DEF StoreRest, RequestsOf
  <2>. QED
    BY <2>1, <2>2 DEF Reserves
<1>13. ASSUME ClosePane(h) PROVE FALSE
  <2>1. PICK p : req' = IF NotesOf(p) = <<>> THEN req
                        ELSE [req EXCEPT ![h] = [Idle EXCEPT !.op = "close", !.pc = "end", !.out = NotesOf(p)]]
    BY <1>13, Zenon DEF ClosePane
  <2>. DEFINE o == NotesOf(p)
  <2>. HIDE DEF o
  <2>2. s = r \/ s = [Idle EXCEPT !.op = "close", !.pc = "end", !.out = o]
    BY <1>2, <2>1 DEF o
  <2>3. s = [Idle EXCEPT !.op = "close", !.pc = "end", !.out = o] => s.op = "close"
    BY DEF Idle
  <2>4. r = Idle
    BY <1>13 DEF ClosePane
  <2>. QED
    BY <1>3, <2>2, <2>3, <2>4 DEF Reserves
<1>. QED
  BY <1>5, <1>6, <1>8, <1>9, <1>10, <1>11, <1>12, <1>13, Zenon DEF Handled

\* The same of the notes after a step.
LEMMA AfterTyped ==
    ASSUME TypeInv', NEW h \in Handlers
    PROVE  /\ \A n \in Out(req'[h]) : n \in AnyNotes /\ n.tab \in Tabs \cap used'
           /\ req'[h] \in RequestsOf(used', clock') /\ Sensible(req'[h]) /\ clock' \in Nat
<1>1. req'[h] \in RequestsOf(used', clock') /\ clock' \in Nat
  BY DEF TypeInv
<1>2. Sensible(req'[h])
  <2>1. Sensible(req[h])'
    BY DEF TypeInv
  <2>. QED
    BY <2>1 DEF Sensible, Moved
<1>. DEFINE s == req'[h].out
<1>3. s \in Seq(NotesOfIds(used', clock'))
  BY <1>1 DEF RequestsOf
<1>4. ASSUME NEW i \in DOMAIN s PROVE s[i] \in AnyNotes /\ s[i].tab \in Tabs \cap used'
  <2>1. s[i] \in NotesOfIds(used', clock')
    BY <1>3
  <2>. QED
    BY <1>1, <2>1 DEF NotesOfIds, AnyNotes
<1>. QED
  BY <1>1, <1>2, <1>4 DEF Out

\* No other request takes up what one has taken.
LEMMA Taken ==
    ASSUME TypeInv, PlaceInv, NEW h \in Handlers, NEW t \in Tabs, Reserves(req[h], t)
    PROVE  /\ layouts[t] = {} /\ t \in used
           /\ \A k \in Handlers \ {h} : t # req[k].tab /\ t # req[k].dst /\ ~Reserves(req[k], t)
<1>1. layouts[t] = {} /\ \A k \in Handlers \ {h} : t \notin {req[k].tab, req[k].dst}
  BY DEF PlaceInv
<1>2. \A k \in Handlers : Reserves(req[k], t) => t \in {req[k].tab, req[k].dst}
  BY DEF Reserves
<1>3. /\ req[h].tab \in (Tabs \cap used) \cup {Nobody} /\ req[h].dst \in (Tabs \cap used) \cup {Nobody}
      /\ Nobody \notin Tabs
  BY AtStep
<1>. QED
  BY <1>1, <1>2, <1>3

LEMMA UntoldHandled ==
    ASSUME TypeInv, TypeInv', PlaceInv, MeantInv, Untold(req), NEW h \in Handlers, Handled(h),
           "stale" \notin slips'
    PROVE  Untold(req')
<1>1. Mine(h) /\ Steps(h)
  BY StepsHandled DEF MeantInv
<1>0. \A r : r.out = <<>> => Out(r) = {}
  BY NoNotes
<1>2. \A k \in Handlers \ {h} : req'[k] = req[k]
  BY <1>1 DEF Mine
<1>3. \A k \in Handlers : \A n \in Out(req[k]) : n.tab \in used
  BY OutTyped
<1>4. ASSUME NEW t \in Tabs, Reserves(req'[h], t), NEW k \in Handlers, NEW n \in Out(req'[k])
      PROVE  n.tab # t
  <2>1. (Reserves(req[h], t) \/ t \notin used) /\ req'[h].out = <<>>
    BY <1>4, Reservations
  <2>2. Out(req'[h]) = {}
    BY <1>0, <2>1
  <2>3. k # h /\ n \in Out(req[k])
    BY <1>2, <1>4, <2>2
  <2>. QED
    BY <1>3, <2>1, <2>3 DEF Untold
<1>5. ASSUME NEW j \in Handlers \ {h}, NEW t \in Tabs, Reserves(req[j], t), NEW n \in Out(req'[h])
      PROVE  n.tab # t
  <2>1. layouts[t] = {} /\ t \in used /\ t # req[h].tab /\ t # req[h].dst /\ ~Reserves(req[h], t)
    BY <1>5, Taken
  <2>2. CASE Keeps(h) \/ Overwrites(h) \/ Lifts(h)
    <3>1. req'[h].out = <<>>
      BY <2>2 DEF Keeps, Overwrites, Lifts
    <3>. QED
      BY <1>0, <1>5, <3>1
  <2>3. CASE Tells(h)
    <3>1. /\ n.kind = "created" => Reserves(req[h], n.tab) \/ n.tab \notin used
          /\ n.kind = "updated" => layouts[n.tab] # {}
          /\ n.kind = "closed" => layouts[n.tab] # {} \/ n.tab = req[h].tab
      BY <1>5, <2>3 DEF Tells
    <3>2. n.kind \in {"created", "updated", "closed"}
      <4>1. n \in AnyNotes
        BY <1>5, AfterTyped
      <4>. QED
        BY <4>1 DEF AnyNotes
    <3>. QED
      BY <2>1, <3>1, <3>2
  <2>4. CASE Puts(h)
    <3>1. n.tab = req[h].tab \/ n.tab = req[h].dst
      BY <1>5, <2>4 DEF Puts
    <3>. QED
      BY <2>1, <3>1
  <2>. QED
    BY <1>1, <2>2, <2>3, <2>4 DEF Steps
<1>6. ASSUME NEW j \in Handlers, NEW t \in Tabs, Reserves(req'[j], t), NEW k \in Handlers, NEW n \in Out(req'[k])
      PROVE  n.tab # t
  <2>1. CASE j = h
    BY <1>4, <1>6, <2>1
  <2>2. CASE j # h /\ k = h
    BY <1>2, <1>5, <1>6, <2>2
  <2>3. CASE j # h /\ k # h
    BY <1>2, <1>6, <2>3 DEF Untold
  <2>. QED
    BY <2>1, <2>2, <2>3
<1>. QED
  BY <1>6 DEF Untold

LEMMA UntoldAfter == Untold(req') => Untold(req)'
BY DEF Untold, Reserves, Out

LEMMA UntoldStep ==
    ASSUME TypeInv, TypeInv', CleanInv, MeantInv, UntoldInv, [Next]_vars
    PROVE  UntoldInv'
<1>. SUFFICES ASSUME slips' \cap {"stale", "unannounced", "early"} = {} PROVE Untold(req)'
  BY DEF UntoldInv
<1>. SUFFICES Untold(req')
  BY UntoldAfter
<1>0. slips \subseteq slips' \cup {"unsaved"} => PlaceInv /\ Untold(req)
  BY DEF CleanInv, UntoldInv
<1>1. ASSUME NEW h \in Handlers, Handled(h) PROVE Untold(req')
  <2>1. slips \subseteq slips'
    BY <1>1, StepsHandled DEF MeantInv
  <2>2. "stale" \notin slips'
    OBVIOUS
  <2>. QED
    BY <1>0, <1>1, <2>1, <2>2, UntoldHandled
<1>2. ASSUME NEW h \in Handlers, Broadcast(h) PROVE Untold(req')
  <2>1. slips \subseteq slips'
    BY <1>2, Zenon DEF Broadcast
  <2>. DEFINE m == Head(req[h].out)
  <2>2. Meant(req[h])
    BY DEF MeantInv
  <2>. HIDE DEF m
  <2>3. /\ Out(req[h]) = Out(req'[h]) \cup {m} /\ Mine(h)
        /\ \/ req'[h] = Idle
           \/ req'[h].op = req[h].op /\ req'[h].pc = req[h].pc /\ req'[h].tab = req[h].tab
              /\ req'[h].dst = req[h].dst
    BY <1>2, <2>2, Sends DEF m
  <2>4. \A k \in Handlers : \A t \in Tabs : Reserves(req'[k], t) => Reserves(req[k], t)
    <3>1. \A t : Reserves(req'[h], t) => Reserves(req[h], t)
      BY <2>3, IdleMeans DEF Reserves
    <3>. QED
      BY <2>3, <3>1 DEF Mine
  <2>5. \A k \in Handlers : \A n \in Out(req'[k]) : n \in Out(req[k])
    BY <2>3 DEF Mine
  <2>6. Untold(req)
    BY <1>0, <2>1
  <2>. QED
    BY <2>4, <2>5, <2>6 DEF Untold
<1>3. CASE Crash
  <2>1. \A h \in Handlers : req'[h] = Idle
    BY <1>3 DEF Crash
  <2>. QED
    BY <2>1, IdleMeans DEF Untold
<1>4. ASSUME \/ (\E h \in Handlers : ClientUpdates(h)) \/ ListTabs \/ Register \/ ReceiveList \/ Disconnect \/ Deliver
             \/ RestorePane \/ RestoreTab \/ ShellEnds \/ Serve
             \/ req' = req /\ slips \subseteq slips' \cup {"unsaved"}
      PROVE  Untold(req')
  <2>1. req' = req /\ slips \subseteq slips' \cup {"unsaved"}
    BY <1>4 DEF ClientUpdates, ListTabs, Register, ReceiveList, Disconnect, Deliver,
                RestorePane, RestoreTab, ShellEnds, Serve, Store
  <2>. QED
    BY <1>0, <2>1
<1>. QED
  BY <1>1, <1>2, <1>3, <1>4, Cases

-----------------------------------------------------------------------------
(* What is known of the places, without the variables.                     *)

\* No leaf is in two tabs, or in a tab and in hand, or in the hands of two requests; and no
\* tab is taken that is there, or that another request names.
Places(lay, c) ==
    /\ \A q \in Leaves : \A t, u \in Tabs : q \in lay[t] /\ q \in lay[u] => t = u
    /\ \A h \in Handlers : \A q \in Leaves : Holds(c[h], q) => \A t \in Tabs : q \notin lay[t]
    /\ \A h, k \in Handlers : \A q \in Leaves : Holds(c[h], q) /\ Holds(c[k], q) => h = k

LEMMA PlacesNow ==
    /\ PlaceInv /\ Placed = Leaves => Places(layouts, req)
    /\ PlaceInv' /\ Placed' = Leaves => Places(layouts', req')
<1>1. PlaceInv /\ Placed = Leaves => Places(layouts, req)
  BY DEF PlaceInv, Places, Shown
<1>2. ASSUME PlaceInv', Placed' = Leaves PROVE Places(layouts', req')
  <2>1. \A q \in Leaves : \A t, u \in Tabs : q \in layouts'[t] /\ q \in layouts'[u] => t = u
    BY <1>2 DEF PlaceInv
  <2>2. \A h \in Handlers : \A q : Holds(req[h], q)' <=> Holds(req'[h], q)
    BY DEF Holds, Moved
  <2>3. \A q \in Leaves : \A h \in Handlers : Holds(req'[h], q) => Shown(q)' = {}
    BY <1>2, <2>2 DEF PlaceInv
  <2>4. \A q \in Leaves : Shown(q)' = {t \in Tabs : q \in layouts'[t]}
    BY DEF Shown
  <2>5. \A h, k \in Handlers : \A q \in Leaves : Holds(req'[h], q) /\ Holds(req'[k], q) => h = k
    BY <1>2, <2>2 DEF PlaceInv
  <2>. QED
    BY <2>1, <2>3, <2>4, <2>5 DEF Places
<1>. QED
  BY <1>1, <1>2

\* A leaf is in the hands of the request that moves it.
LEMMA HandsHold ==
    ASSUME NEW r, Sensible(r), InHand(r), r.copy \subseteq Leaves, NEW q \in Moved(r)
    PROVE  Holds(r, q)
<1>1. CASE r.op = "move"
  BY <1>1 DEF InHand, Holds
<1>2. CASE r.op = "extract"
  <2>1. r.pane \in Leaves /\ Nobody \notin Leaves
    BY <1>2, IdsAssumption DEF Sensible, Leaves
  <2>. QED
    BY <1>2, <2>1 DEF InHand, Holds, Moved
<1>. QED
  BY <1>1, <1>2 DEF InHand

LEMMA ApartIs ==
    ASSUME NEW lay, NEW c, Places(lay, c), NEW B, B \subseteq Between(c),
           \A h \in B : Sensible(c[h]) /\ c[h].copy \subseteq Leaves /\ Moved(c[h]) \subseteq Leaves
    PROVE  Apart(lay, B, c)
<1>1. \A h \in B : \A q \in Moved(c[h]) : Holds(c[h], q) /\ q \in Leaves /\ h \in Handlers
  <2>. SUFFICES ASSUME NEW h \in B, NEW q \in Moved(c[h])
                PROVE  Holds(c[h], q) /\ q \in Leaves /\ h \in Handlers
    OBVIOUS
  <2>1. h \in Handlers /\ InHand(c[h]) /\ Sensible(c[h]) /\ c[h].copy \subseteq Leaves
    BY DEF Between
  <2>. QED
    BY <2>1, HandsHold
<1>. QED
  BY <1>1 DEF Apart, Places

LEMMA SettledIs ==
    ASSUME NEW lay \in AnyLayouts, NEW S \in AnyLayouts, NEW c,
           \A h \in Handlers : Meant(c[h]) /\ Sensible(c[h]) /\ \A n \in Out(c[h]) : n \in AnyNotes,
           NEW U, NEW n \in Nat, \A h \in Handlers : c[h] \in RequestsOf(U, n)
    PROVE  /\ Settled(lay, Pending(c), Between(c), c, S)
           /\ \A h \in Between(c) : /\ Sensible(c[h]) /\ c[h].copy \subseteq Leaves
                                     /\ Moved(c[h]) \subseteq Leaves
<1>1. \A m \in Pending(c) : \E h \in Handlers : \E i \in DOMAIN c[h].out : m = c[h].out[i] /\ m \in Out(c[h])
  BY DEF Pending, Out
<1>2. Pending(c) \subseteq AnyNotes /\ \A m \in Pending(c) : m.leaves = {} <=> m.kind = "closed"
  BY <1>1 DEF Meant, Batch
<1>3. ASSUME NEW h \in Between(c)
      PROVE  /\ c[h].tab \in Tabs /\ c[h].first \in Nat
             /\ Moved(c[h]) \subseteq Leaves /\ Remains(c[h]) \subseteq Leaves /\ Sensible(c[h])
             /\ c[h].copy \subseteq Leaves
  <2>1. h \in Handlers /\ InHand(c[h]) /\ Sensible(c[h]) /\ c[h] \in RequestsOf(U, n)
    BY <1>3 DEF Between
  <2>2. /\ c[h].tab \in (Tabs \cap U) \cup {Nobody} /\ c[h].pane \in (Leaves \cap U) \cup {Nobody}
        /\ c[h].copy \in SUBSET (Leaves \cap U) /\ c[h].first \in 0 .. n
    BY <2>1, Fields
  <2>. QED
    BY <2>1, <2>2 DEF InHand, Sensible, Moved, Remains
<1>. QED
  BY <1>2, <1>3 DEF Settled

\* The same of requests that are what they were.
LEMMA SettledHands ==
    ASSUME NEW lay, NEW P, NEW B, NEW c, NEW d, NEW S, Settled(lay, P, B, c, S), \A h \in B : d[h] = c[h]
    PROVE  Settled(lay, P, B, d, S)
BY DEF Settled, Moved, Remains
LEMMA ApartHands ==
    ASSUME NEW lay, NEW B, NEW c, NEW d, Apart(lay, B, c), \A h \in B : d[h] = c[h]
    PROVE  Apart(lay, B, d)
BY DEF Apart, Moved

-----------------------------------------------------------------------------
(* Broadcasts in order, and the steps that keep the client in agreement.   *)

\* No broadcast that is still to be sent, nor one that a request in hand will send of its
\* source, tells of an earlier change than one that was sent; nor of an earlier one than
\* another that is to be sent before it.
InOrder(P, B, c, tl, lt) ==
    /\ \A n \in P : tl[n.tab] <= n.own /\ lt <= n.last
    /\ \A m, n \in P : m.tab = n.tab /\ m.own < n.own => m.last <= n.last
    /\ \A h \in B : /\ tl[c[h].tab] <= c[h].first
                    /\ \A n \in P : n.tab = c[h].tab => n.own <= c[h].first

LEMMA PendingIs ==
    ASSUME NEW c
    PROVE  \A m : m \in Pending(c) <=> \E h \in Handlers : m \in Out(c[h])
BY DEF Pending, Out

\* What the step of one request does to them.
LEMMA Changes ==
    ASSUME TypeInv, NEW h \in Handlers, Mine(h)
    PROVE  /\ req[h].out = <<>> => Pending(req') = Pending(req) \cup Out(req'[h])
           /\ (InHand(req[h]) <=> InHand(req'[h])) => Between(req') = Between(req)
           /\ ~InHand(req[h]) /\ InHand(req'[h]) => Between(req') = Between(req) \cup {h}
           /\ InHand(req[h]) /\ ~InHand(req'[h]) => Between(req') = Between(req) \ {h}
           /\ ~InHand(req[h]) => h \notin Between(req)
           /\ InHand(req[h]) => h \in Between(req)
           /\ \A k \in Between(req) : k \in Handlers /\ (k # h => req'[k] = req[k])
<1>1. \A r : r.out = <<>> => Out(r) = {}
  BY NoNotes
<1>2. \A m : m \in Pending(req) <=> \E k \in Handlers : m \in Out(req[k])
  BY PendingIs
<1>3. \A m : m \in Pending(req') <=> \E k \in Handlers : m \in Out(req'[k])
  BY PendingIs
<1>4. \A k \in Handlers \ {h} : req'[k] = req[k]
  BY DEF Mine
<1>5. req[h].out = <<>> => Pending(req') = Pending(req) \cup Out(req'[h])
  BY <1>1, <1>2, <1>3, <1>4
<1>. QED
  BY <1>4, <1>5 DEF Between

\* The types of what is pending and in hand.
LEMMA PendingTyped ==
    ASSUME TypeInv
    PROVE  /\ \A n \in Pending(req) : /\ n.tab \in Tabs \cap used /\ n.own \in 0 .. clock /\ n.last \in 0 .. clock
                                      /\ n.own <= clock /\ n.last <= clock
           /\ \A h \in Between(req) : req[h].first \in 0 .. clock /\ req[h].first <= clock /\ req[h].tab \in Tabs
           /\ clock \in Nat /\ told \in [Tabs -> 0 .. clock] /\ latest \in 0 .. clock
<1>1. \A n \in Pending(req) : n.tab \in Tabs \cap used /\ n.own \in 0 .. clock /\ n.last \in 0 .. clock
  BY OutTyped, PendingIs
<1>2. clock \in Nat /\ told \in [Tabs -> 0 .. clock] /\ latest \in 0 .. clock
  BY DEF TypeInv
<1>3. ASSUME NEW h \in Between(req) PROVE req[h].first \in 0 .. clock /\ req[h].tab \in Tabs
  <2>1. h \in Handlers /\ InHand(req[h])
    BY DEF Between
  <2>. QED
    BY <2>1, AtStep DEF Sensible, InHand
<1>. QED
  BY <1>1, <1>2, <1>3

\* If the broadcasts are in order after a step of a request, they were before.
LEMMA OrderBefore ==
    ASSUME TypeInv, NEW h \in Handlers, Meant(req[h]), Mine(h), Steps(h),
           InOrder(Pending(req'), Between(req'), req', told, latest)
    PROVE  InOrder(Pending(req), Between(req), req, told, latest)
<1>. DEFINE P == Pending(req)
            Q == Pending(req')
            B == Between(req)
            D == Between(req')
<1>1. ASSUME P \subseteq Q, B \subseteq D, \A k \in B : req'[k].tab = req[k].tab /\ req'[k].first = req[k].first
      PROVE  InOrder(P, B, req, told, latest)
  <2>. HIDE DEF P, Q, B, D
  <2>1. InOrder(Q, D, req', told, latest)
    BY DEF Q, D
  <2>. QED
    BY <1>1, <2>1 DEF InOrder
<1>2. CASE Keeps(h) \/ Overwrites(h) \/ Tells(h) \/ Lifts(h)
  <2>1. req[h].out = <<>> /\ ~InHand(req[h])
    BY <1>2 DEF Keeps, Overwrites, Tells, Lifts
  <2>2. P \subseteq Q /\ B \subseteq D /\ \A k \in B : req'[k] = req[k]
    BY <2>1, Changes
  <2>. QED
    BY <1>1, <2>2
<1>3. CASE Puts(h) /\ Meant(req[h])
  <2>1. InHand(req[h]) /\ ~InHand(req'[h]) /\ req[h].out = <<>>
    BY <1>3 DEF Puts, Meant
  <2>2. Q = P \cup Out(req'[h]) /\ D = B \ {h} /\ h \in B /\ \A k \in D : req'[k] = req[k]
    BY <2>1, Changes
  <2>3. PICK from \in Out(req'[h]) :
          from.tab = req[h].tab /\ from.own = req[h].first /\ from.last = clock + 1
    BY <1>3 DEF Puts
  <2>4. from \in Q /\ P \subseteq Q
    BY <2>2, <2>3
  <2>5. /\ \A n \in P : n.own \in 0 .. clock /\ n.last \in 0 .. clock
        /\ \A k \in B : req[k].first \in 0 .. clock
        /\ clock \in Nat
    BY PendingTyped
  <2>. HIDE DEF P, Q, B, D
  <2>6. InOrder(Q, D, req', told, latest)
    BY DEF Q, D
  <2>7. told[req[h].tab] <= req[h].first
    BY <2>3, <2>4, <2>6 DEF InOrder
  <2>8. ASSUME NEW n \in P, n.tab = req[h].tab PROVE n.own <= req[h].first
    <3>1. from.own < n.own => from.last <= n.last
      BY <2>3, <2>4, <2>6, <2>8 DEF InOrder
    <3>. QED
      BY <2>2, <2>3, <2>5, <3>1
  <2>9. \A k \in B : /\ told[req[k].tab] <= req[k].first
                     /\ \A n \in P : n.tab = req[k].tab => n.own <= req[k].first
    BY <2>2, <2>4, <2>6, <2>7, <2>8 DEF InOrder
  <2>10. InOrder(P, B, req, told, latest)
    BY <2>4, <2>6, <2>9 DEF InOrder
  <2>. QED
    BY <2>10 DEF P, B
<1>. QED
  BY <1>2, <1>3 DEF Steps

\* A request tells of a tab once.
LEMMA OnePerTab ==
    ASSUME NEW U, NEW b, NEW r \in RequestsOf(U, b), Meant(r), NEW n \in Out(r), NEW m \in Out(r), n.tab = m.tab
    PROVE  n = m
<1>1. PICK i, j \in DOMAIN r.out : n = r.out[i] /\ m = r.out[j]
  BY DEF Out
<1>2. i \in Nat /\ j \in Nat
  <2>1. r.out \in Seq(NotesOfIds(U, b))
    BY DEF RequestsOf
  <2>. QED
    BY <2>1
<1>3. i < j \/ j < i \/ i = j
  BY <1>2
<1>4. Batch(r.out)
  BY DEF Meant
<1>. QED
  BY <1>1, <1>3, <1>4 DEF Batch

\* What the lemmas about the agreement ask for.
LEMMA Around ==
    ASSUME TypeInv, TypeInv', MeantInv, \A k \in Handlers : Meant(req'[k]),
           Places(layouts, req), Places(layouts', req'), NEW S \in AnyLayouts
    PROVE  /\ Settled(layouts, Pending(req), Between(req), req, S)
           /\ Settled(layouts', Pending(req'), Between(req'), req', S)
           /\ Apart(layouts, Between(req), req) /\ Apart(layouts', Between(req'), req')
           /\ layouts \in AnyLayouts /\ layouts' \in AnyLayouts
<1>1. layouts \in AnyLayouts /\ layouts' \in AnyLayouts
  BY DEF TypeInv, LayoutsOf, AnyLayouts
<1>2. /\ \A h \in Handlers : Meant(req[h]) /\ Sensible(req[h]) /\ \A n \in Out(req[h]) : n \in AnyNotes
      /\ \A h \in Handlers : req[h] \in RequestsOf(used, clock)
      /\ clock \in Nat
  BY OutTyped DEF TypeInv, MeantInv
<1>3. /\ \A h \in Handlers : Meant(req'[h]) /\ Sensible(req'[h]) /\ \A n \in Out(req'[h]) : n \in AnyNotes
      /\ \A h \in Handlers : req'[h] \in RequestsOf(used', clock')
      /\ clock' \in Nat
  <2>1. clock' \in Nat
    BY DEF TypeInv
  <2>. QED
    BY <2>1, AfterTyped
<1>. DEFINE c == req
            d == req'
            lay == layouts
            new == layouts'
            n == clock'
            U == used'
<1>. HIDE DEF c, d, lay, new, n, U
<1>4. /\ Settled(lay, Pending(c), Between(c), c, S)
      /\ \A h \in Between(c) : Sensible(c[h]) /\ c[h].copy \subseteq Leaves /\ Moved(c[h]) \subseteq Leaves
  <2>1. lay \in AnyLayouts
    BY <1>1 DEF lay
  <2>2. \A h \in Handlers : Meant(c[h]) /\ Sensible(c[h]) /\ \A m \in Out(c[h]) : m \in AnyNotes
    BY <1>2 DEF c
  <2>3. \A h \in Handlers : c[h] \in RequestsOf(used, clock)
    BY <1>2 DEF c
  <2>. QED
    BY <1>2, <2>1, <2>2, <2>3, SettledIs
<1>5. /\ Settled(new, Pending(d), Between(d), d, S)
      /\ \A h \in Between(d) : Sensible(d[h]) /\ d[h].copy \subseteq Leaves /\ Moved(d[h]) \subseteq Leaves
  <2>1. new \in AnyLayouts
    BY <1>1 DEF new
  <2>2. \A h \in Handlers : Meant(d[h]) /\ Sensible(d[h]) /\ \A m \in Out(d[h]) : m \in AnyNotes
    BY <1>3 DEF d
  <2>3. (\A h \in Handlers : d[h] \in RequestsOf(U, n)) /\ n \in Nat
    BY <1>3 DEF d, U, n
  <2>. QED
    BY <2>1, <2>2, <2>3, SettledIs
<1>6. Apart(lay, Between(c), c)
  <2>1. Places(lay, c)
    BY DEF lay, c
  <2>2. Between(c) \subseteq Between(c)
    OBVIOUS
  <2>. QED
    BY <1>4, <2>1, <2>2, ApartIs, Zenon
<1>7. Apart(new, Between(d), d)
  <2>1. Places(new, d)
    BY DEF new, d
  <2>2. Between(d) \subseteq Between(d)
    OBVIOUS
  <2>. QED
    BY <1>5, <2>1, <2>2, ApartIs, Zenon
<1>. QED
  BY <1>1, <1>4, <1>5, <1>6, <1>7 DEF lay, new, c, d

\* What is stored is told.
LEMMA AgreeTells ==
    ASSUME TypeInv, TypeInv', MeantInv, NEW h \in Handlers, Mine(h), Meant(req'[h]),
           \A k \in Handlers : Meant(req'[k]),
           PlaceInv, Places(layouts, req), Places(layouts', req'), Untold(req), "stale" \notin slips',
           Tells(h), NEW S \in AnyLayouts,
           InOrder(Pending(req'), Between(req'), req', told, latest),
           Agree(layouts, Pending(req), Between(req), req, S)
    PROVE  Agree(layouts', Pending(req'), Between(req'), req', S)
<1>. DEFINE P == Pending(req)
            N == Out(req'[h])
            B == Between(req)
            D == Between(req')
            c == req
            d == req'
            lay == layouts
            new == layouts'
            now == clock
<1>1. /\ req[h].out = <<>> /\ ~InHand(req[h]) /\ ~InHand(req'[h])
  BY DEF Tells
<1>2. Pending(req') = P \cup N /\ D = B /\ \A k \in B : k \in Handlers /\ k # h /\ d[k] = c[k]
  BY <1>1, Changes
<1>3. /\ \A n \in N :
           /\ n.own = now + 1 /\ n.last = now + 1 /\ new[n.tab] = n.leaves
           /\ n.kind = "created" => Reserves(c[h], n.tab) \/ n.tab \notin used
           /\ n.kind = "updated" => lay[n.tab] # {}
  <2>1. \A n \in N : n.kind = "closed" => "stale" \notin slips'
    OBVIOUS
  <2>. QED
    BY DEF Tells
<1>4. /\ \A t \in Tabs : new[t] = lay[t] \/ \E n \in N : n.tab = t
      /\ \A t \in Tabs : \A q \in new[t] \ lay[t] : Holds(c[h], q) \/ q \notin used
  BY DEF Tells
<1>5. /\ Settled(lay, P, B, c, S) /\ Settled(new, P \cup N, B, d, S)
      /\ Apart(lay, B, c) /\ Apart(new, B, d) /\ lay \in AnyLayouts /\ new \in AnyLayouts
  <2>1. /\ Settled(layouts, P, B, req, S) /\ Settled(layouts', Pending(req'), D, req', S)
        /\ Apart(layouts, B, req) /\ Apart(layouts', D, req')
        /\ layouts \in AnyLayouts /\ layouts' \in AnyLayouts
    BY Around
  <2>. QED
    BY <1>2, <2>1
<1>6. /\ \A n \in P : n.tab \in Tabs \cap used /\ n.own <= now /\ n.last <= now
      /\ \A k \in B : c[k].first \in 0 .. now /\ c[k].tab \in Tabs
      /\ now \in Nat
  BY PendingTyped
<1>7. \A n \in N : n.tab \in Tabs
  BY AfterTyped
<1>8. \A n \in N : n.kind = "created" => lay[n.tab] = {} /\ \A m \in P : m.tab # n.tab
  <2>. SUFFICES ASSUME NEW n \in N, n.kind = "created" PROVE lay[n.tab] = {} /\ \A m \in P : m.tab # n.tab
    OBVIOUS
  <2>1. CASE Reserves(c[h], n.tab)
    <3>1. lay[n.tab] = {}
      BY <1>7, <2>1, Taken
    <3>2. \A m \in P : \E k \in Handlers : m \in Out(req[k])
      BY PendingIs
    <3>. QED
      BY <1>7, <2>1, <3>1, <3>2 DEF Untold
  <2>2. CASE n.tab \notin used
    <3>1. lay[n.tab] = {}
      BY <1>7, <2>2 DEF TypeInv, LayoutsOf
    <3>. QED
      BY <1>6, <2>2, <3>1
  <2>. QED
    BY <1>3, <2>1, <2>2
<1>9. \A t \in Tabs : \A q \in new[t] \ lay[t] :
        /\ \A u \in Tabs : q \notin lay[u]
        /\ \A k \in B : q \notin Moved(c[k])
  <2>. SUFFICES ASSUME NEW t \in Tabs, NEW q \in new[t] \ lay[t]
                PROVE  /\ \A u \in Tabs : q \notin lay[u]
                       /\ \A k \in B : q \notin Moved(c[k])
    OBVIOUS
  <2>1. q \in Leaves
    BY <1>5 DEF AnyLayouts
  <2>2. CASE Holds(c[h], q)
    <3>1. \A u \in Tabs : q \notin lay[u]
      BY <2>1, <2>2 DEF Places
    <3>2. ASSUME NEW k \in B, q \in Moved(c[k]) PROVE FALSE
      <4>1. k \in Handlers /\ k # h /\ InHand(req[k])
        BY <1>2, <3>2 DEF Between
      <4>2. Sensible(req[k]) /\ req[k].copy \subseteq Leaves
        BY <4>1, AtStep
      <4>3. Holds(c[k], q)
        BY <3>2, <4>1, <4>2, HandsHold
      <4>. QED
        BY <2>1, <2>2, <4>1, <4>3 DEF Places
    <3>. QED
      BY <3>1, <3>2
  <2>3. CASE q \notin used
    <3>1. \A u \in Tabs : q \notin lay[u]
      BY <2>3 DEF TypeInv, LayoutsOf
    <3>2. ASSUME NEW k \in B, q \in Moved(c[k]) PROVE FALSE
      <4>1. /\ req[k].copy \in SUBSET (Leaves \cap used) /\ req[k].pane \in (Leaves \cap used) \cup {Nobody}
            /\ Nobody \notin Leaves
        BY <1>2, AtStep
      <4>. QED
        BY <2>1, <2>3, <3>2, <4>1 DEF Moved
    <3>. QED
      BY <3>1, <3>2
  <2>. QED
    BY <1>4, <2>2, <2>3
<1>10. \A n, m \in N : n.tab = m.tab => n = m
  <2>1. req'[h] \in RequestsOf(used', clock')
    BY AfterTyped
  <2>. QED
    BY <2>1, OnePerTab
<1>11. Settled(new, P \cup N, B, c, S) /\ Apart(new, B, c)
  BY <1>2, <1>5, SettledHands, ApartHands
<1>. HIDE DEF P, N, B, D, c, d, lay, new, now
<1>12. \A n \in N : \A k \in B : n.tab # c[k].tab
  <2>1. InOrder(P \cup N, B, d, told, latest)
    BY <1>2 DEF d, D
  <2>. SUFFICES ASSUME NEW n \in N, NEW k \in B, n.tab = c[k].tab PROVE FALSE
    OBVIOUS
  <2>2. n.own <= c[k].first
    BY <1>2, <2>1 DEF InOrder
  <2>. QED
    BY <1>3, <1>6, <2>2
<1>13. \A n \in N : n.kind = "updated" => lay[n.tab] # {}
  BY <1>3
<1>14. /\ \A m \in P : m.own <= now /\ m.last <= now
       /\ \A n \in N : n.own = now + 1 /\ n.last = now + 1
       /\ \A n \in N : new[n.tab] = n.leaves
  BY <1>3, <1>6
<1>15. Agree(lay, P, B, c, S)
  BY DEF lay, P, B, c
<1>16. Agree(new, P \cup N, B, c, S)
  BY <1>4, <1>5, <1>6, <1>8, <1>9, <1>10, <1>11, <1>12, <1>13, <1>14, <1>15, AgreeTold
<1>17. Agree(new, P \cup N, B, d, S)
  BY <1>2, <1>16, AgreeHands
<1>. QED
  BY <1>2, <1>17 DEF new, d, D

\* Leaves are taken out of a tab.
LEMMA AgreeLifts ==
    ASSUME TypeInv, TypeInv', MeantInv, NEW h \in Handlers, Mine(h), Meant(req'[h]),
           \A k \in Handlers : Meant(req'[k]),
           Places(layouts, req), Places(layouts', req'), "stale" \notin slips',
           Lifts(h), NEW S \in AnyLayouts, Agree(layouts, Pending(req), Between(req), req, S)
    PROVE  Agree(layouts', Pending(req'), Between(req'), req', S)
<1>. DEFINE P == Pending(req)
            B == Between(req)
            c == req
            d == req'
            lay == layouts
            new == layouts'
            now == clock
<1>1. req[h].out = <<>> /\ ~InHand(req[h]) /\ InHand(req'[h]) /\ Out(req'[h]) = {}
  BY NoNotes DEF Lifts
<1>2. /\ Pending(req') = P /\ Between(req') = B \cup {h} /\ h \notin B
      /\ \A k \in B : k \in Handlers /\ d[k] = c[k]
  BY <1>1, Changes
<1>3. /\ Settled(lay, P, B, c, S) /\ lay \in AnyLayouts
  BY Around
<1>4. /\ \A n \in P : n.own <= now /\ n.last <= now
      /\ \A k \in B : c[k].first <= now
      /\ now \in Nat
  BY PendingTyped
<1>5. /\ d[h].tab \in Tabs /\ new = [lay EXCEPT ![d[h].tab] = Remains(d[h])]
      /\ lay[d[h].tab] = d[h].copy
      /\ lay[d[h].tab] # {} => d[h].first = now + 1
  BY DEF Lifts
<1>6. d[h].copy # {} /\ Moved(d[h]) \subseteq d[h].copy
  <2>1. Sensible(d[h])
    BY AfterTyped
  <2>2. d[h].op \in {"move", "extract"} /\ d[h].copy # {}
    BY <1>1 DEF InHand, Meant
  <2>. QED
    BY <2>1, <2>2 DEF Sensible, Moved
<1>7. Agree(lay, P, B, c, S)
  OBVIOUS
<1>. HIDE DEF P, B, c, d, lay, new, now
<1>8. Agree(lay, P, B, d, S) /\ Settled(lay, P, B, d, S) /\ \A k \in B : d[k].first <= now
  BY <1>2, <1>3, <1>4, <1>7, AgreeHands, SettledHands
<1>9. Agree(new, P, B \cup {h}, d, S)
  <2>1. d[h].copy = lay[d[h].tab] /\ d[h].first = now + 1
    BY <1>5, <1>6
  <2>. QED
    BY <1>2, <1>4, <1>5, <1>6, <1>8, <2>1, AgreeLifted
<1>. QED
  BY <1>2, <1>9 DEF new, d

\* They are put into another tab.
LEMMA AgreePuts ==
    ASSUME TypeInv, TypeInv', MeantInv, NEW h \in Handlers, Mine(h), Meant(req'[h]),
           \A k \in Handlers : Meant(req'[k]),
           PlaceInv, Places(layouts, req), Places(layouts', req'), Untold(req), "stale" \notin slips',
           Puts(h), NEW S \in AnyLayouts,
           InOrder(Pending(req'), Between(req'), req', told, latest),
           Agree(layouts, Pending(req), Between(req), req, S)
    PROVE  Agree(layouts', Pending(req'), Between(req'), req', S)
<1>. DEFINE P == Pending(req)
            B == Between(req)
            c == req
            d == req'
            lay == layouts
            new == layouts'
            now == clock
            v == req[h].dst
<1>1. InHand(req[h]) /\ ~InHand(req'[h]) /\ Meant(req[h]) /\ req[h].out = <<>>
  BY DEF Puts, MeantInv, Meant
<1>2. PICK from, to \in Out(req'[h]) :
         /\ Out(req'[h]) = {from, to}
         /\ from.tab = c[h].tab /\ from.leaves = Remains(c[h]) /\ from.own = c[h].first
         /\ from.last = now + 1 /\ from.kind = IF Whole(c[h]) THEN "closed" ELSE "updated"
         /\ to.tab = v /\ to.own = now + 1 /\ to.last = now + 1 /\ to.leaves # {}
         /\ new = [lay EXCEPT ![v] = to.leaves]
         /\ \/ to.kind = "created" /\ Reserves(c[h], v) /\ to.leaves = Moved(c[h])
            \/ to.kind = "updated" /\ lay[v] # {} /\ to.leaves = lay[v] \cup Moved(c[h])
  BY DEF Puts
<1>3. c[h].tab \in Tabs /\ v \in Tabs /\ c[h].tab # v
  BY DEF Puts
<1>4. /\ Pending(req') = P \cup {from, to} /\ Between(req') = B \ {h} /\ h \in B
      /\ \A k \in B : k \in Handlers /\ (k # h => d[k] = c[k])
  BY <1>1, <1>2, Changes
<1>5. /\ Settled(lay, P, B, c, S) /\ Settled(new, P \cup {from, to}, B \ {h}, d, S)
      /\ Apart(lay, B, c) /\ lay \in AnyLayouts
  <2>1. /\ Settled(layouts, P, B, req, S) /\ Settled(layouts', Pending(req'), Between(req'), req', S)
        /\ Apart(layouts, B, req) /\ layouts \in AnyLayouts
    BY Around
  <2>. QED
    BY <1>4, <2>1
<1>6. /\ \A n \in P : n.tab \in Tabs \cap used /\ n.own \in 0 .. now /\ n.last \in 0 .. now
      /\ \A k \in B : c[k].first \in 0 .. now /\ c[k].tab \in Tabs
      /\ now \in Nat
  BY PendingTyped
<1>7. to.kind = "created" => lay[v] = {} /\ \A m \in P : m.tab # v
  <2>. SUFFICES ASSUME to.kind = "created" PROVE lay[v] = {} /\ \A m \in P : m.tab # v
    OBVIOUS
  <2>1. Reserves(c[h], v)
    BY <1>2
  <2>2. lay[v] = {}
    BY <1>3, <2>1, Taken
  <2>3. \A m \in P : \E k \in Handlers : m \in Out(req[k])
    BY PendingIs
  <2>. QED
    BY <1>3, <2>1, <2>2, <2>3 DEF Untold
<1>8. from.leaves = {} => Whole(c[h])
  BY <1>1, <1>2 DEF Meant, InHand
<1>9. Agree(lay, P, B, c, S) /\ InOrder(P \cup {from, to}, B \ {h}, d, told, latest)
  BY <1>4
<1>. HIDE DEF P, B, c, d, lay, new, now, v
<1>10. new = [lay EXCEPT ![v] = lay[v] \cup Moved(c[h])] /\ to.leaves = new[v]
  <2>1. to.leaves = lay[v] \cup Moved(c[h])
    BY <1>2, <1>7
  <2>2. new[v] = to.leaves
    BY <1>2, <1>3, <1>5 DEF AnyLayouts
  <2>. QED
    BY <1>2, <2>1, <2>2
<1>11. \A k \in B : c[k].tab # v
  <2>. SUFFICES ASSUME NEW k \in B, k # h, c[k].tab = v PROVE FALSE
    BY <1>3
  <2>1. to.own <= d[k].first
    BY <1>2, <1>4, <1>9 DEF InOrder
  <2>. QED
    BY <1>2, <1>4, <1>6, <2>1
<1>12. \A k \in B : c[k].tab = c[h].tab => c[h].first <= c[k].first
  <2>. SUFFICES ASSUME NEW k \in B, c[k].tab = c[h].tab PROVE c[h].first <= c[k].first
    OBVIOUS
  <2>1. CASE k = h
    BY <1>6, <2>1
  <2>2. CASE k # h
    <3>1. from.own <= d[k].first
      BY <1>2, <1>4, <1>9, <2>2 DEF InOrder
    <3>. QED
      BY <1>2, <1>4, <2>2, <3>1
  <2>. QED
    BY <2>1, <2>2
<1>13. /\ \A m \in P : m.own <= now /\ m.last <= now
       /\ \A k \in B : c[k].first <= now
  BY <1>6
<1>14. Settled(new, P \cup {from, to}, B \ {h}, c, S)
  BY <1>4, <1>5, SettledHands
<1>15. Agree(new, P \cup {from, to}, B \ {h}, c, S)
  <2>1. h \in B /\ now \in Nat /\ v \in Tabs /\ v # c[h].tab
    BY <1>3, <1>4, <1>6
  <2>2. /\ from.tab = c[h].tab /\ from.leaves = Remains(c[h]) /\ from.own = c[h].first
        /\ from.last = now + 1 /\ from.kind \in {"updated", "closed"}
    BY <1>2
  <2>3. to.tab = v /\ to.own = now + 1 /\ to.last = now + 1 /\ to.leaves # {}
    BY <1>2
  <2>4. to.kind = "updated" => lay[v] # {}
    BY <1>2
  <2>5. Settled(lay, P, B, c, S) /\ Apart(lay, B, c) /\ Agree(lay, P, B, c, S)
    BY <1>5, <1>9
  <2>. QED
    BY <2>1, <2>2, <2>3, <2>4, <2>5, <1>7, <1>8, <1>10, <1>11, <1>12, <1>13, <1>14, AgreePut, ZenonT(90)
<1>16. Agree(new, P \cup {from, to}, B \ {h}, d, S)
  BY <1>4, <1>15, AgreeHands
<1>. QED
  BY <1>4, <1>16 DEF new, d

LEMMA AgreeHandled ==
    ASSUME TypeInv, TypeInv', MeantInv, NEW h \in Handlers, Mine(h), Meant(req'[h]), Steps(h),
           PlaceInv, Places(layouts, req), Places(layouts', req'), Untold(req), "stale" \notin slips',
           NEW S \in AnyLayouts,
           InOrder(Pending(req'), Between(req'), req', told, latest),
           Agree(layouts, Pending(req), Between(req), req, S)
    PROVE  Agree(layouts', Pending(req'), Between(req'), req', S)
<1>1. \A k \in Handlers : Meant(req'[k])
  BY DEF MeantInv, Mine
<1>2. CASE Keeps(h)
  <2>1. req[h].out = <<>> /\ ~InHand(req[h]) /\ ~InHand(req'[h]) /\ Out(req'[h]) = {} /\ layouts' = layouts
    BY <1>2, NoNotes DEF Keeps
  <2>2. /\ Pending(req') = Pending(req) /\ Between(req') = Between(req)
        /\ \A k \in Between(req) : req'[k] = req[k]
    BY <2>1, Changes
  <2>3. Agree(layouts, Pending(req), Between(req), req', S)
    <3>. DEFINE P == Pending(req)
                B == Between(req)
                c == req
                d == req'
                lay == layouts
    <3>1. Agree(lay, P, B, c, S) /\ \A k \in B : d[k] = c[k]
      BY <2>2
    <3>. HIDE DEF P, B, c, d, lay
    <3>2. Agree(lay, P, B, d, S)
      BY <3>1, AgreeHands
    <3>. QED
      BY <3>2 DEF P, B, d, lay
  <2>. QED
    BY <2>1, <2>2, <2>3
<1>3. CASE Overwrites(h)
  BY <1>3 DEF Overwrites
<1>4. CASE Tells(h)
  BY <1>1, <1>4, AgreeTells
<1>5. CASE Lifts(h)
  BY <1>1, <1>5, AgreeLifts
<1>6. CASE Puts(h)
  BY <1>1, <1>6, AgreePuts
<1>. QED
  BY <1>2, <1>3, <1>4, <1>5, <1>6 DEF Steps

\* A broadcast is one of the pending notes, the first of its request.
LEMMA OneIsSent ==
    ASSUME TypeInv, Lasts(req), NEW h \in Handlers, Meant(req[h]), Broadcast(h),
           NEW m, m = Head(req[h].out)
    PROVE  /\ m \in Pending(req) /\ Pending(req') = Pending(req) \ {m}
           /\ Between(req') = Between(req) /\ \A k \in Between(req) : req'[k] = req[k]
           /\ \A n \in Pending(req') : n.last = m.last /\ n.own < n.last =>
                n.kind = "closed" /\ m.kind = "updated"
<1>1. /\ m \in Out(req[h]) /\ m \notin Out(req'[h]) /\ Out(req[h]) = Out(req'[h]) \cup {m}
      /\ Mine(h) /\ ~InHand(req[h]) /\ ~InHand(req'[h])
      /\ \A n \in Out(req'[h]) : n.own < n.last => n.kind = "closed" /\ m.kind = "updated"
  BY Sends
<1>2. Between(req') = Between(req) /\ \A k \in Between(req) : req'[k] = req[k]
  BY <1>1, Changes
<1>3. \A x : x \in Pending(req) <=> \E k \in Handlers : x \in Out(req[k])
  BY PendingIs
<1>4. \A x : x \in Pending(req') <=> \E k \in Handlers : x \in Out(req'[k])
  BY PendingIs
<1>5. \A k \in Handlers \ {h} : req'[k] = req[k] /\ \A n \in Out(req[k]) : n.last # m.last
  BY <1>1 DEF Mine, Lasts
<1>6. Pending(req') = Pending(req) \ {m}
  <2>1. ASSUME NEW x \in Pending(req') PROVE x \in Pending(req) \ {m}
    BY <1>1, <1>3, <1>4, <1>5
  <2>2. ASSUME NEW x \in Pending(req) \ {m} PROVE x \in Pending(req')
    BY <1>1, <1>3, <1>4, <1>5
  <2>. QED
    BY <2>1, <2>2
<1>7. ASSUME NEW n \in Pending(req'), n.last = m.last, n.own < n.last
      PROVE  n.kind = "closed" /\ m.kind = "updated"
  <2>1. n \in Out(req'[h])
    BY <1>4, <1>5, <1>7
  <2>. QED
    BY <1>1, <1>7, <2>1
<1>. QED
  BY <1>1, <1>2, <1>3, <1>6, <1>7

\* It tells of a later change than what was sent before.
LEMMA InTime ==
    ASSUME TypeInv, NEW h \in Handlers, Broadcast(h), slips' \cap {"reordered", "late"} = {},
           NEW m, m = Head(req[h].out)
    PROVE  /\ ~ComesLate(m) /\ slips \subseteq slips'
           /\ told' = [told EXCEPT ![m.tab] = Later(told[m.tab], m.own)]
           /\ latest' = Later(latest, m.last)
           /\ UNCHANGED <<layouts, conn, replica, used, clock>>
           /\ conn # "away" => queue' = Append(queue, Heard(m))
<1>1. slips' = slips \cup Slip(ComesLate(m), IF TakesBack(h) THEN "late" ELSE "reordered")
  BY Zenon DEF Broadcast
<1>2. ~ComesLate(m)
  <2>1. CASE TakesBack(h)
    BY <1>1, <2>1 DEF Slip
  <2>2. CASE ~TakesBack(h)
    BY <1>1, <2>2 DEF Slip
  <2>. QED
    BY <2>1, <2>2
<1>. QED
  BY <1>1, <1>2 DEF Broadcast, serverVars

LEMMA OrderSent ==
    ASSUME TypeInv, NEW P, NEW B, NEW Q, NEW m \in P, Q = P \ {m},
           \A n \in P : n.tab \in Tabs /\ n.own \in Nat /\ n.last \in Nat,
           \A k \in B : req[k].tab \in Tabs /\ req[k].first \in Nat,
           ~ComesLate(m),
           told' = [told EXCEPT ![m.tab] = Later(told[m.tab], m.own)], latest' = Later(latest, m.last),
           InOrder(Q, B, req, told', latest')
    PROVE  /\ InOrder(P, B, req, told, latest)
           /\ \A n \in Q : m.last <= n.last /\ (n.tab = m.tab => m.own <= n.own)
<1>1. /\ told \in [Tabs -> Nat] /\ latest \in Nat
  BY DEF TypeInv
<1>2. m.tab \in Tabs /\ m.own \in Nat /\ m.last \in Nat /\ told[m.tab] <= m.own /\ latest <= m.last
  <2>1. m.tab \in Tabs /\ m.own \in Nat /\ m.last \in Nat
    OBVIOUS
  <2>2. told[m.tab] \in Nat
    BY <1>1, <2>1
  <2>3. ~(m.own < told[m.tab]) /\ ~(m.last < latest)
    BY DEF ComesLate
  <2>. QED
    BY <1>1, <2>1, <2>2, <2>3
<1>3. told' = [told EXCEPT ![m.tab] = m.own] /\ latest' = m.last
  <2>1. told[m.tab] \in Nat
    BY <1>1, <1>2
  <2>2. Later(told[m.tab], m.own) = m.own
    BY <1>2, <2>1 DEF Later
  <2>3. Later(latest, m.last) = m.last
    BY <1>1, <1>2 DEF Later
  <2>. QED
    BY <2>2, <2>3
<1>4. \A t \in Tabs : told[t] <= told'[t] /\ told'[t] \in Nat
  BY <1>1, <1>2, <1>3
<1>5. told'[m.tab] = m.own
  BY <1>1, <1>2, <1>3
<1>6. /\ \A n \in Q : told'[n.tab] <= n.own /\ m.last <= n.last
      /\ \A n, k \in Q : n.tab = k.tab /\ n.own < k.own => n.last <= k.last
      /\ \A k \in B : /\ told'[req[k].tab] <= req[k].first
                      /\ \A n \in Q : n.tab = req[k].tab => n.own <= req[k].first
  BY <1>3 DEF InOrder
<1>7. \A n \in Q : m.last <= n.last /\ (n.tab = m.tab => m.own <= n.own)
  BY <1>5, <1>6
<1>8. \A n \in P : told[n.tab] <= n.own /\ latest <= n.last
  <2>1. ASSUME NEW n \in Q PROVE told[n.tab] <= n.own /\ latest <= n.last
    <3>1. n.tab \in Tabs /\ n.own \in Nat /\ n.last \in Nat
      OBVIOUS
    <3>2. told[n.tab] <= told'[n.tab] /\ told'[n.tab] <= n.own /\ told[n.tab] \in Nat /\ told'[n.tab] \in Nat
      BY <1>1, <1>4, <1>6, <3>1
    <3>3. told[n.tab] <= n.own
      BY <3>1, <3>2
    <3>4. m.last <= n.last
      BY <1>6
    <3>. QED
      BY <1>1, <1>2, <3>1, <3>3, <3>4
  <2>. QED
    BY <1>2, <2>1
<1>9. \A n, k \in P : n.tab = k.tab /\ n.own < k.own => n.last <= k.last
  <2>. SUFFICES ASSUME NEW n \in P, NEW k \in P, n.tab = k.tab, n.own < k.own PROVE n.last <= k.last
    OBVIOUS
  <2>1. CASE n \in Q /\ k \in Q
    BY <1>6, <2>1
  <2>2. CASE n = m /\ k = m
    BY <1>2, <2>2
  <2>3. CASE n = m /\ k \in Q
    BY <1>7, <2>3
  <2>4. CASE n \in Q /\ k = m
    BY <1>2, <1>7, <2>4
  <2>. QED
    BY <2>1, <2>2, <2>3, <2>4
<1>10. ASSUME NEW k \in B
       PROVE  /\ told[req[k].tab] <= req[k].first
              /\ \A n \in P : n.tab = req[k].tab => n.own <= req[k].first
  <2>1. /\ req[k].tab \in Tabs /\ req[k].first \in Nat /\ told'[req[k].tab] <= req[k].first
        /\ told[req[k].tab] <= told'[req[k].tab] /\ told[req[k].tab] \in Nat /\ told'[req[k].tab] \in Nat
    BY <1>1, <1>4, <1>6
  <2>2. told[req[k].tab] <= req[k].first
    BY <2>1
  <2>3. ASSUME NEW n \in P, n.tab = req[k].tab PROVE n.own <= req[k].first
    <3>1. CASE n = m
      BY <1>5, <2>1, <2>3, <3>1
    <3>2. CASE n \in Q
      BY <1>6, <2>3, <3>2
    <3>. QED
      BY <3>1, <3>2
  <2>. QED
    BY <2>2, <2>3
<1>. QED
  BY <1>7, <1>8, <1>9, <1>10 DEF InOrder

LEMMA AgreeBroadcast ==
    ASSUME TypeInv, MeantInv, Lasts(req), NEW h \in Handlers, Broadcast(h),
           slips' \cap {"reordered", "late"} = {}, NEW m, m = Head(req[h].out),
           InOrder(Pending(req'), Between(req'), req', told', latest'), NEW S \in AnyLayouts,
           InOrder(Pending(req), Between(req), req, told, latest) =>
             Agree(layouts, Pending(req), Between(req), req, S)
    PROVE  LET new == Applied(S, Heard(m)) IN
             Agree(layouts, Pending(req'), Between(req'), req', new) /\ new \in AnyLayouts
<1>. DEFINE P == Pending(req)
            Q == Pending(req')
            B == Between(req)
            c == req
            d == req'
            lay == layouts
            new == Applied(S, Heard(m))
<1>0. Meant(req[h])
  BY DEF MeantInv
<1>1. /\ m \in P /\ Q = P \ {m} /\ Between(req') = B /\ \A k \in B : d[k] = c[k]
      /\ \A n \in Q : n.last = m.last /\ n.own < n.last => n.kind = "closed" /\ m.kind = "updated"
  BY <1>0, OneIsSent
<1>2. /\ ~ComesLate(m) /\ told' = [told EXCEPT ![m.tab] = Later(told[m.tab], m.own)]
      /\ latest' = Later(latest, m.last)
  BY InTime
<1>3. /\ \A n \in P : n.tab \in Tabs /\ n.own \in Nat /\ n.last \in Nat
      /\ \A k \in B : c[k].tab \in Tabs /\ c[k].first \in Nat
  BY PendingTyped
<1>4. InOrder(Q, B, c, told', latest')
  <2>1. InOrder(Q, B, d, told', latest')
    BY <1>1
  <2>. HIDE DEF Q, B, c, d
  <2>. QED
    BY <1>1, <2>1 DEF InOrder
<1>5. /\ InOrder(P, B, c, told, latest)
      /\ \A n \in Q : m.last <= n.last /\ (n.tab = m.tab => m.own <= n.own)
  <2>. HIDE DEF P, Q, B
  <2>. QED
    BY <1>1, <1>2, <1>3, <1>4, OrderSent
<1>6. Agree(lay, P, B, c, S)
  BY <1>5
<1>7. Settled(lay, P, B, c, S)
  <2>1. lay \in AnyLayouts
    BY DEF TypeInv, LayoutsOf, AnyLayouts
  <2>2. /\ \A k \in Handlers : Meant(c[k]) /\ Sensible(c[k]) /\ \A n \in Out(c[k]) : n \in AnyNotes
        /\ \A k \in Handlers : c[k] \in RequestsOf(used, clock)
        /\ clock \in Nat
    BY OutTyped DEF TypeInv, MeantInv
  <2>. HIDE DEF c, lay
  <2>3. Settled(lay, Pending(c), Between(c), c, S)
    BY <2>1, <2>2, SettledIs
  <2>. QED
    BY <2>3 DEF c
<1>8. \A k, n \in P : k.tab = n.tab /\ k.last = n.last => k = n
  <2>. SUFFICES ASSUME NEW k \in P, NEW n \in P, k.tab = n.tab, k.last = n.last PROVE k = n
    OBVIOUS
  <2>1. PICK i \in Handlers : k \in Out(req[i])
    BY PendingIs
  <2>2. PICK j \in Handlers : n \in Out(req[j])
    BY PendingIs
  <2>3. i = j
    BY <2>1, <2>2 DEF Lasts
  <2>4. req[i] \in RequestsOf(used, clock) /\ Meant(req[i])
    BY DEF TypeInv, MeantInv
  <2>. QED
    BY <2>1, <2>2, <2>3, <2>4, OnePerTab
<1>. HIDE DEF P, Q, B, c, d, lay, new
<1>9. \A k, n \in P : k.tab = n.tab /\ k.own < n.own => k.last <= n.last
  BY <1>5 DEF InOrder
<1>10. \A n \in Q : n.last = m.last /\ n.own < n.last => n.kind = "closed" /\ m.kind = "updated"
  BY <1>1
<1>11. new = Applied(S, Heard(m))
  BY DEF new
<1>12. \A n \in Q : m.last <= n.last /\ (n.tab = m.tab => m.own <= n.own)
  BY <1>5
<1>13. Agree(lay, Q, B, c, new) /\ new \in AnyLayouts
  <2>1. m \in P /\ Q = P \ {m}
    BY <1>1
  <2>. QED
    BY <2>1, <1>6, <1>7, <1>8, <1>9, <1>10, <1>11, <1>12, AgreeSent, SMTT(60)
<1>14. Agree(lay, Q, B, d, new)
  BY <1>1, <1>13, AgreeHands
<1>. QED
  BY <1>1, <1>13, <1>14 DEF Q, d, lay, new

-----------------------------------------------------------------------------
(* What the client is about to show.                                       *)

\* S is what the messages of s make of R, one after the other.
Shows(R, s, S) ==
    \E W \in [0 .. Len(s) -> AnyLayouts] :
        /\ W[0] = R /\ W[Len(s)] = S
        /\ \A i \in 1 .. Len(s) : W[i] = Applied(W[i - 1], s[i])

LEMMA ShowsNothing ==
    ASSUME NEW R \in AnyLayouts, NEW S
    PROVE  Shows(R, <<>>, S) <=> S = R
<1>1. ASSUME S = R PROVE Shows(R, <<>>, S)
  <2>. DEFINE W == [i \in 0 .. 0 |-> R]
  <2>1. W \in [0 .. Len(<<>>) -> AnyLayouts] /\ W[0] = R
    OBVIOUS
  <2>. HIDE DEF W
  <2>. QED
    BY <1>1, <2>1 DEF Shows
<1>2. ASSUME Shows(R, <<>>, S) PROVE S = R
  BY <1>2 DEF Shows
<1>. QED
  BY <1>1, <1>2

LEMMA ShowsMore ==
    ASSUME NEW R, NEW X, NEW s \in Seq(X), NEW m \in X, NEW S, Shows(R, s, S), Applied(S, m) \in AnyLayouts
    PROVE  Shows(R, Append(s, m), Applied(S, m))
<1>1. PICK W \in [0 .. Len(s) -> AnyLayouts] :
        /\ W[0] = R /\ W[Len(s)] = S
        /\ \A i \in 1 .. Len(s) : W[i] = Applied(W[i - 1], s[i])
  BY DEF Shows
<1>. DEFINE n == Len(s)
            z == Append(s, m)
            new == Applied(S, m)
            V == [i \in 0 .. n + 1 |-> IF i = n + 1 THEN new ELSE W[i]]
<1>2. n \in Nat /\ Len(z) = n + 1 /\ z[n + 1] = m /\ \A i \in 1 .. n : z[i] = s[i]
  OBVIOUS
<1>. HIDE DEF n, z, new
<1>3. V \in [0 .. n + 1 -> AnyLayouts] /\ V[0] = R /\ V[n + 1] = new /\ \A i \in 0 .. n : V[i] = W[i]
  BY <1>1, <1>2 DEF n, new
<1>. HIDE DEF V
<1>4. ASSUME NEW i \in 1 .. n + 1 PROVE V[i] = Applied(V[i - 1], z[i])
  <2>1. CASE i = n + 1
    <3>1. V[i - 1] = S
      BY <1>1, <1>2, <1>3, <2>1 DEF n
    <3>. QED
      BY <1>2, <1>3, <2>1, <3>1 DEF new
  <2>2. CASE i \in 1 .. n
    <3>1. V[i] = W[i] /\ V[i - 1] = W[i - 1] /\ z[i] = s[i]
      BY <1>2, <1>3, <2>2
    <3>2. W[i] = Applied(W[i - 1], s[i])
      BY <1>1, <2>2 DEF n
    <3>. QED
      BY <3>1, <3>2
  <2>. QED
    BY <1>2, <2>1, <2>2
<1>5. Shows(R, z, new)
  <2>1. V \in [0 .. Len(z) -> AnyLayouts] /\ V[Len(z)] = new /\ \A i \in 1 .. Len(z) : V[i] = Applied(V[i - 1], z[i])
    BY <1>2, <1>3, <1>4
  <2>. QED
    BY <1>3, <2>1 DEF Shows
<1>. QED
  BY <1>5 DEF z, new

LEMMA ShowsLess ==
    ASSUME NEW R, NEW X, NEW s \in Seq(X), s # <<>>, NEW S, Shows(R, s, S)
    PROVE  Shows(Applied(R, Head(s)), Tail(s), S)
<1>1. PICK W \in [0 .. Len(s) -> AnyLayouts] :
        /\ W[0] = R /\ W[Len(s)] = S
        /\ \A i \in 1 .. Len(s) : W[i] = Applied(W[i - 1], s[i])
  BY DEF Shows
<1>. DEFINE n == Len(s)
            z == Tail(s)
            V == [i \in 0 .. n - 1 |-> W[i + 1]]
<1>2. n \in Nat \ {0} /\ Len(z) = n - 1 /\ Head(s) = s[1] /\ \A i \in 1 .. n - 1 : z[i] = s[i + 1]
  OBVIOUS
<1>. HIDE DEF n, z
<1>3. V \in [0 .. n - 1 -> AnyLayouts] /\ \A i \in 0 .. n - 1 : V[i] = W[i + 1]
  BY <1>1, <1>2 DEF n
<1>. HIDE DEF V
<1>4. V[0] = Applied(R, Head(s))
  <2>1. W[1] = Applied(W[1 - 1], s[1]) /\ V[0] = W[0 + 1]
    BY <1>1, <1>2, <1>3 DEF n
  <2>. QED
    BY <1>1, <1>2, <2>1
<1>5. ASSUME NEW i \in 1 .. n - 1 PROVE V[i] = Applied(V[i - 1], z[i])
  <2>1. i + 1 \in 1 .. n /\ V[i] = W[i + 1] /\ V[i - 1] = W[i - 1 + 1] /\ z[i] = s[i + 1] /\ i - 1 + 1 = i /\ i + 1 - 1 = i
    BY <1>2, <1>3
  <2>2. W[i + 1] = Applied(W[i + 1 - 1], s[i + 1])
    BY <1>1, <2>1 DEF n
  <2>. QED
    BY <2>1, <2>2
<1>6. V[n - 1] = S
  BY <1>1, <1>2, <1>3 DEF n
<1>7. Shows(Applied(R, Head(s)), z, S)
  BY <1>2, <1>3, <1>4, <1>5, <1>6 DEF Shows
<1>. QED
  BY <1>7 DEF z

-----------------------------------------------------------------------------
(* InSync.                                                                 *)

SlipsOfSync == {"stale", "reordered", "late", "unannounced", "overtaken"}

\* What the client shows once it has received everything sent so far agrees with what the
\* server has.
Synced(cn, sl, lay, c, tl, lt, R, s) ==
    cn = "listed" /\ sl \cap SlipsOfSync = {} /\ InOrder(Pending(c), Between(c), c, tl, lt) =>
        \E S \in AnyLayouts : Shows(R, s, S) /\ Agree(lay, Pending(c), Between(c), c, S)

SyncInv == Synced(conn, slips, layouts, req, told, latest, replica, queue)

LEMMA SyncAfter == Synced(conn', slips', layouts', req', told', latest', replica', queue') => SyncInv'
BY DEF SyncInv, Synced, InOrder, Pending, Between, InHand, Shows, Applied, Agree, ShownGoes, ShownComes,
       ToldGoes, ToldComes, LeftGoes, LeftComes, LeftLast, ShownOnce, ToldOnce, Found, CreatedFirst, ClosedLast,
       Lifted, Creation, Whole, Moved, Remains, Clears

\* What is known when the client is there and nothing has slipped.
LEMMA SyncBefore ==
    ASSUME OneEach, TypeInv, CleanInv, UntoldInv, ConnInv, conn = "listed", slips \cap SlipsOfSync = {}
    PROVE  PlaceInv /\ Untold(req) /\ Placed = Leaves /\ Places(layouts, req)
<1>1. followed = "client" /\ "early" \notin slips
  BY DEF ConnInv, TypeInv
<1>2. slips \cap {"stale", "unannounced", "early"} = {}
  BY <1>1 DEF SlipsOfSync
<1>3. Placed = Leaves /\ PlaceInv /\ Untold(req)
  BY <1>1, <1>2 DEF Placed, CleanInv, UntoldInv
<1>. QED
  BY <1>3, PlacesNow

LEMMA SyncAfterwards ==
    ASSUME OneEach, TypeInv', CleanInv', ConnInv', conn' = "listed", slips' \cap SlipsOfSync = {}
    PROVE  Places(layouts', req')
<1>1. followed' = "client" /\ "early" \notin slips'
  BY DEF ConnInv, TypeInv
<1>2. slips' \cap {"stale", "unannounced", "early"} = {}
  BY <1>1 DEF SlipsOfSync
<1>3. Placed' = Leaves /\ PlaceInv'
  BY <1>1, <1>2 DEF Placed, CleanInv, OneEach
<1>. QED
  BY <1>3, PlacesNow

\* It is enough to say what the client is about to show.
LEMMA SyncSuffices ==
    ASSUME conn' = "listed" /\ slips' \cap SlipsOfSync = {}
             /\ InOrder(Pending(req'), Between(req'), req', told', latest') =>
           \E S \in AnyLayouts : /\ Shows(replica', queue', S)
                                 /\ Agree(layouts', Pending(req'), Between(req'), req', S)
    PROVE  SyncInv'
<1>1. Synced(conn', slips', layouts', req', told', latest', replica', queue')
  BY DEF Synced
<1>. QED
  BY <1>1, SyncAfter

LEMMA SyncHandled ==
    ASSUME OneEach, TypeInv, TypeInv', CleanInv, CleanInv', MeantInv, UntoldInv, ConnInv, ConnInv', SyncInv,
           NEW h \in Handlers, Handled(h)
    PROVE  SyncInv'
<1>0. Meant(req[h])
  BY DEF MeantInv
<1>1. /\ Mine(h) /\ Meant(req'[h]) /\ Steps(h)
      /\ UNCHANGED <<conn, queue, replica, told, latest>> /\ slips \subseteq slips'
  BY <1>0, StepsHandled DEF clientVars
<1>2. ASSUME conn' = "listed", slips' \cap SlipsOfSync = {},
             InOrder(Pending(req'), Between(req'), req', told', latest')
      PROVE  \E S \in AnyLayouts : /\ Shows(replica', queue', S)
                                   /\ Agree(layouts', Pending(req'), Between(req'), req', S)
  <2>1. conn = "listed" /\ slips \cap SlipsOfSync = {} /\ "stale" \notin slips'
    BY <1>1, <1>2 DEF SlipsOfSync
  <2>2. PlaceInv /\ Untold(req) /\ Places(layouts, req)
    BY <2>1, SyncBefore
  <2>3. Places(layouts', req')
    BY <1>2, SyncAfterwards
  <2>4. InOrder(Pending(req'), Between(req'), req', told, latest)
    BY <1>1, <1>2
  <2>5. InOrder(Pending(req), Between(req), req, told, latest)
    BY <1>0, <1>1, <2>4, OrderBefore, Zenon
  <2>6. PICK S \in AnyLayouts : Shows(replica, queue, S) /\ Agree(layouts, Pending(req), Between(req), req, S)
    BY <2>1, <2>5 DEF SyncInv, Synced
  <2>7. Agree(layouts', Pending(req'), Between(req'), req', S)
    BY <1>1, <2>1, <2>2, <2>3, <2>4, <2>6, AgreeHandled, ZenonT(90)
  <2>8. Shows(replica', queue', S)
    BY <1>1, <2>6
  <2>. QED
    BY <2>7, <2>8
<1>. QED
  BY <1>2, SyncSuffices

LEMMA SyncSent ==
    ASSUME OneEach, TypeInv, MeantInv, Lasts(req), ConnInv, SyncInv, NEW h \in Handlers, Broadcast(h)
    PROVE  SyncInv'
<1>. DEFINE m == Head(req[h].out)
<1>0. Meant(req[h])
  BY DEF MeantInv
<1>1. ASSUME conn' = "listed", slips' \cap SlipsOfSync = {},
             InOrder(Pending(req'), Between(req'), req', told', latest')
      PROVE  \E S \in AnyLayouts : /\ Shows(replica', queue', S)
                                   /\ Agree(layouts', Pending(req'), Between(req'), req', S)
  <2>1. slips' \cap {"reordered", "late"} = {}
    BY <1>1 DEF SlipsOfSync
  <2>2. /\ ~ComesLate(m) /\ slips \subseteq slips'
        /\ told' = [told EXCEPT ![m.tab] = Later(told[m.tab], m.own)]
        /\ latest' = Later(latest, m.last)
        /\ UNCHANGED <<layouts, conn, replica, used, clock>>
        /\ conn # "away" => queue' = Append(queue, Heard(m))
    BY <2>1, InTime
  <2>3. conn = "listed" /\ slips \cap SlipsOfSync = {}
    BY <1>1, <2>2
  <2>4. /\ m \in Pending(req) /\ Pending(req') = Pending(req) \ {m}
        /\ Between(req') = Between(req) /\ \A k \in Between(req) : req'[k] = req[k]
    BY <1>0, OneIsSent
  <2>5. InOrder(Pending(req), Between(req), req, told, latest)
    <3>. DEFINE P == Pending(req)
                Q == Pending(req')
                B == Between(req)
    <3>1. /\ \A n \in P : n.tab \in Tabs /\ n.own \in Nat /\ n.last \in Nat
          /\ \A k \in B : req[k].tab \in Tabs /\ req[k].first \in Nat
      BY PendingTyped
    <3>2. InOrder(Q, B, req, told', latest')
      <4>1. InOrder(Q, B, req', told', latest')
        BY <1>1, <2>4
      <4>. HIDE DEF Q, B
      <4>. QED
        BY <2>4, <4>1 DEF InOrder, B
    <3>3. m \in P /\ Q = P \ {m}
      BY <2>4
    <3>. HIDE DEF P, Q, B, m
    <3>4. InOrder(P, B, req, told, latest)
      BY <2>2, <3>1, <3>2, <3>3, OrderSent
    <3>. QED
      BY <3>4 DEF P, B
  <2>6. PICK S \in AnyLayouts : Shows(replica, queue, S) /\ Agree(layouts, Pending(req), Between(req), req, S)
    BY <2>3, <2>5 DEF SyncInv, Synced
  <2>7. /\ Agree(layouts, Pending(req'), Between(req'), req', Applied(S, Heard(m)))
        /\ Applied(S, Heard(m)) \in AnyLayouts
    BY <1>1, <2>1, <2>6, AgreeBroadcast
  <2>8. queue \in Seq(HeardOf(used)) /\ Heard(m) \in HeardOf(used)
    <3>1. queue \in Seq(HeardOf(used)) /\ req[h].out \in Seq(NotesOfIds(used, clock)) /\ req[h].out # <<>>
      BY OutTyped DEF TypeInv, Broadcast
    <3>2. m \in NotesOfIds(used, clock)
      BY <3>1
    <3>. QED
      BY <3>1, <3>2 DEF HeardOf, NotesOfIds, Heard
  <2>9. Shows(replica, Append(queue, Heard(m)), Applied(S, Heard(m)))
    BY <2>6, <2>7, <2>8, ShowsMore
  <2>10. replica' = replica /\ queue' = Append(queue, Heard(m)) /\ layouts' = layouts
    BY <2>2, <2>3
  <2>. HIDE DEF m
  <2>. QED
    BY <2>7, <2>9, <2>10
<1>. QED
  BY <1>1, SyncSuffices

\* A client that stores what it shows knows everything that was told, or it slips.
LEMMA SyncUpdates ==
    ASSUME TypeInv, SyncInv, NEW h \in Handlers, ClientUpdates(h)
    PROVE  SyncInv'
<1>1. PICK t \in Tabs :
        /\ layouts' = [layouts EXCEPT ![t] = replica[t]]
        /\ told' = [told EXCEPT ![t] = clock + 1] /\ latest' = clock + 1
        /\ slips' = slips
             \cup Slip(layouts[t] # replica[t], "stale")
             \cup Slip(\E i \in DOMAIN queue : queue[i].tab = t, "reordered")
  BY DEF ClientUpdates
<1>2. UNCHANGED <<req, conn, queue, replica>>
  BY DEF ClientUpdates
<1>3. ASSUME conn' = "listed", slips' \cap SlipsOfSync = {},
             InOrder(Pending(req'), Between(req'), req', told', latest')
      PROVE  \E S \in AnyLayouts : /\ Shows(replica', queue', S)
                                   /\ Agree(layouts', Pending(req'), Between(req'), req', S)
  <2>1. slips \cap SlipsOfSync = {} /\ layouts[t] = replica[t]
    BY <1>1, <1>3 DEF Slip, SlipsOfSync
  <2>2. layouts' = layouts
    <3>1. layouts \in [Tabs -> SUBSET Leaves]
      BY DEF TypeInv, LayoutsOf
    <3>. QED
      BY <1>1, <2>1, <3>1
  <2>. DEFINE P == Pending(req)
              B == Between(req)
  <2>3. InOrder(P, B, req, told', latest')
    BY <1>2, <1>3
  <2>4. /\ \A n \in P : n.last \in Nat /\ n.last <= clock
        /\ \A k \in B : req[k].first \in Nat /\ req[k].tab \in Tabs
        /\ clock \in Nat /\ told \in [Tabs -> 0 .. clock]
    BY PendingTyped
  <2>. HIDE DEF P, B
  <2>5. P = {}
    <3>1. \A n \in P : clock + 1 <= n.last
      BY <1>1, <2>3 DEF InOrder
    <3>. QED
      BY <2>4, <3>1
  <2>6. ASSUME NEW k \in B PROVE told[req[k].tab] <= req[k].first
    <3>1. told'[req[k].tab] <= req[k].first
      BY <2>3 DEF InOrder
    <3>2. told[req[k].tab] <= told'[req[k].tab]
      BY <1>1, <2>4
    <3>. QED
      BY <1>1, <2>4, <3>1, <3>2
  <2>7. InOrder(P, B, req, told, latest)
    BY <2>5, <2>6 DEF InOrder
  <2>8. PICK S \in AnyLayouts : Shows(replica, queue, S) /\ Agree(layouts, P, B, req, S)
    BY <1>2, <1>3, <2>1, <2>7 DEF SyncInv, Synced, P, B
  <2>. QED
    BY <1>2, <2>2, <2>8 DEF P, B
<1>. QED
  BY <1>3, SyncSuffices

LEMMA SyncListed ==
    ASSUME TypeInv, ConnInv, ReceiveList
    PROVE  SyncInv'
<1>1. ASSUME slips' \cap SlipsOfSync = {}
      PROVE  \E S \in AnyLayouts : /\ Shows(replica', queue', S)
                                   /\ Agree(layouts', Pending(req'), Between(req'), req', S)
  <2>1. Stale = {} /\ ~OnTheirWay
    BY <1>1 DEF ReceiveList, Slip, SlipsOfSync
  <2>2. layouts' = layouts /\ replica' = layouts' /\ UNCHANGED <<used, req, queue>>
    BY <2>1, PruneFacts DEF ReceiveList
  <2>3. queue = <<>> /\ \A h \in Handlers : req[h].out = <<>> /\ ~InHand(req[h])
    BY <2>1 DEF OnTheirWay, InHand
  <2>4. Pending(req) = {} /\ Between(req) = {}
    BY <2>3 DEF Pending, Between
  <2>5. layouts \in AnyLayouts
    BY DEF TypeInv, LayoutsOf, AnyLayouts
  <2>6. Shows(layouts, <<>>, layouts)
    BY <2>5, ShowsNothing
  <2>. DEFINE P == Pending(req)
              B == Between(req)
  <2>7. Agree(layouts, P, B, req, layouts)
    <3>1. P = {} /\ B = {}
      BY <2>4
    <3>. HIDE DEF P, B
    <3>. QED
      BY <3>1, AgreeListed
  <2>. QED
    BY <2>2, <2>3, <2>5, <2>6, <2>7
<1>. QED
  BY <1>1, SyncSuffices

LEMMA SyncDelivered ==
    ASSUME TypeInv, SyncInv, Deliver
    PROVE  SyncInv'
<1>. DEFINE m == Head(queue)
<1>1. /\ conn = "listed" /\ queue # <<>> /\ queue' = Tail(queue)
      /\ UNCHANGED <<layouts, req, conn, told, latest, slips>>
  BY DEF Deliver, serverVars
<1>2. replica' = Applied(replica, m)
  BY DEF Deliver, Applied, WithLayout, WithTab
<1>3. queue \in Seq(HeardOf(used))
  BY DEF TypeInv
<1>4. ASSUME slips' \cap SlipsOfSync = {},
             InOrder(Pending(req'), Between(req'), req', told', latest')
      PROVE  \E S \in AnyLayouts : /\ Shows(replica', queue', S)
                                   /\ Agree(layouts', Pending(req'), Between(req'), req', S)
  <2>1. PICK S \in AnyLayouts : Shows(replica, queue, S) /\ Agree(layouts, Pending(req), Between(req), req, S)
    BY <1>1, <1>4 DEF SyncInv, Synced
  <2>2. Shows(Applied(replica, m), Tail(queue), S)
    BY <1>1, <1>3, <2>1, ShowsLess
  <2>. QED
    BY <1>1, <1>2, <2>1, <2>2
<1>. QED
  BY <1>4, SyncSuffices

LEMMA SyncStep ==
    ASSUME OneEach, TypeInv, TypeInv', BootInv, CleanInv, CleanInv', ClientInv, ClientInv', UntoldInv, SyncInv,
           [Next]_vars
    PROVE  SyncInv'
<1>0. MeantInv /\ Lasts(req) /\ ConnInv /\ ConnInv'
  BY DEF ClientInv
<1>1. ASSUME NEW h \in Handlers, Handled(h) \/ Broadcast(h) \/ ClientUpdates(h) PROVE SyncInv'
  BY <1>0, <1>1, SyncHandled, SyncSent, SyncUpdates
<1>2. CASE ReceiveList
  BY <1>0, <1>2, SyncListed
<1>3. CASE Deliver
  BY <1>3, SyncDelivered
<1>4. CASE ListTabs
  <2>1. slips' \cap SlipsOfSync # {}
    BY <1>4 DEF ListTabs, SlipsOfSync
  <2>. QED
    BY <2>1, SyncSuffices
<1>5. CASE Register \/ Disconnect \/ Crash
  <2>1. conn' # "listed"
    BY <1>5 DEF Register, Disconnect, Crash
  <2>. QED
    BY <2>1, SyncSuffices
<1>6. CASE RestorePane \/ RestoreTab \/ ShellEnds \/ Serve
  <2>1. boot = "restoring" /\ conn' = conn
    BY <1>6 DEF RestorePane, RestoreTab, ShellEnds, Serve, clientVars
  <2>2. conn' # "listed"
    BY <2>1 DEF BootInv
  <2>. QED
    BY <2>2, SyncSuffices
<1>7. CASE UNCHANGED <<layouts, req, clientVars, followed>> /\ slips \subseteq slips' \cup {"unsaved"}
  <2>1. UNCHANGED <<layouts, req, conn, queue, replica, told, latest>>
    BY <1>7 DEF clientVars
  <2>2. slips' \cap SlipsOfSync = {} => slips \cap SlipsOfSync = {}
    BY <1>7 DEF SlipsOfSync
  <2>3. ASSUME conn' = "listed", slips' \cap SlipsOfSync = {},
               InOrder(Pending(req'), Between(req'), req', told', latest')
        PROVE  \E S \in AnyLayouts : /\ Shows(replica', queue', S)
                                     /\ Agree(layouts', Pending(req'), Between(req'), req', S)
    <3>1. PICK S \in AnyLayouts : Shows(replica, queue, S) /\ Agree(layouts, Pending(req), Between(req), req, S)
      BY <2>1, <2>2, <2>3 DEF SyncInv, Synced
    <3>. QED
      BY <2>1, <3>1
  <2>. QED
    BY <2>3, SyncSuffices
<1>. QED
  BY <1>1, <1>2, <1>3, <1>4, <1>5, <1>6, <1>7, Cases

LEMMA SyncInit ==
    ASSUME Init
    PROVE  SyncInv /\ UntoldInv
<1>1. conn = "away" /\ \A h \in Handlers : \A t \in Tabs : ~Reserves(req[h], t)
  BY DEF Init, Reserves, Idle
<1>. QED
  BY <1>1 DEF SyncInv, Synced, UntoldInv, Untold

LEMMA SyncedShows ==
    ASSUME TypeInv, SyncInv
    PROVE  InSync
<1>. SUFFICES ASSUME slips \cap SlipsOfSync = {}, Quiet, conn = "listed", queue = <<>>
              PROVE  replica = layouts
  BY DEF InSync, ClientsInSync, SlipsOfSync
<1>1. \A h \in Handlers : req[h].out = <<>> /\ ~InHand(req[h])
  BY DEF Quiet, Idle, InHand
<1>2. Pending(req) = {} /\ Between(req) = {}
  BY <1>1 DEF Pending, Between
<1>3. layouts \in AnyLayouts /\ replica \in AnyLayouts
  BY DEF TypeInv, LayoutsOf, AnyLayouts
<1>. DEFINE P == Pending(req)
            B == Between(req)
<1>4. P = {} /\ B = {}
  BY <1>2
<1>5. InOrder(P, B, req, told, latest)
  <2>. HIDE DEF P, B
  <2>. QED
    BY <1>4 DEF InOrder
<1>6. PICK S \in AnyLayouts : Shows(replica, queue, S) /\ Agree(layouts, P, B, req, S)
  BY <1>5 DEF SyncInv, Synced
<1>7. S = replica
  BY <1>3, <1>6, ShowsNothing
<1>8. S = layouts
  <2>. HIDE DEF P, B
  <2>. QED
    BY <1>3, <1>4, <1>6, AgreeQuiet
<1>. QED
  BY <1>7, <1>8

\* A client that has received everything shows what the server has, unless what it says
\* slipped: "all connected clients stay in sync".
THEOREM ClientsStayInSync ==
    ASSUME OneEach
    PROVE  Spec => []InSync
<1>. DEFINE Inv == IInv /\ ClientInv /\ UntoldInv /\ SyncInv
<1>1. Init => Inv
  BY TypeInit, StartsIn, ClientInit, SyncInit DEF IInv
<1>2. Inv /\ [Next]_vars => Inv'
  <2>. SUFFICES ASSUME Inv, [Next]_vars PROVE Inv'
    OBVIOUS
  <2>0. IInv' /\ (IInv <=> TypeInv /\ BootInv /\ CleanInv /\ FileInv)
    BY TypeStep, FileStep, CleanStep DEF IInv
  <2>1. TypeInv' /\ BootInv' /\ CleanInv'
    BY <2>0 DEF IInv
  <2>2. ClientInv'
    BY <2>0, ClientStep
  <2>3. UntoldInv'
    BY <2>0, <2>1, UntoldStep DEF ClientInv
  <2>4. SyncInv'
    BY <2>0, <2>1, <2>2, SyncStep
  <2>. QED
    BY <2>0, <2>2, <2>3, <2>4
<1>3. Inv => InSync
  BY SyncedShows DEF IInv
<1>. QED
  BY <1>1, <1>2, <1>3, PTL DEF Spec

-----------------------------------------------------------------------------
(* GoneTabsGo.                                                             *)

\* The changes as which it is still to be told that a tab was closed.
Closings(c, t) ==
    {n.own : n \in {m \in Pending(c) : m.tab = t /\ m.kind = "closed"}}
      \cup {c[h].first : h \in {k \in Between(c) : c[k].tab = t /\ Whole(c[k])}}

\* A request that is to look once more at the tab it created.
Verifies(c, t) == \E h \in Handlers : c[h].op = "create" /\ c[h].pc = "verify" /\ c[h].tab = t

\* A client that shows R and is about to get the messages of s will not show the tab.
Goes(R, s, t) ==
    \E i \in 0 .. Len(s) :
        /\ i = 0 => R[t] = {}
        /\ i > 0 => s[i].tab = t /\ s[i].kind = "closed"
        /\ \A j \in i + 1 .. Len(s) : ~(s[j].tab = t /\ s[j].kind = "created")

\* Of a tab that is gone the client is told so after all that shows it; and what is said of
\* its creation comes before, unless the request that says it looks once more.
Gone(cn, lay, c, tl, R, s) ==
    /\ cn # "away" => \A t \in Tabs : lay[t] = {} =>
          Goes(R, s, t) \/ Closings(c, t) # {} \/ Verifies(c, t)
    /\ \A h \in Handlers : \A n \in Out(c[h]) :
          n.kind = "created" /\ c[h].op # "create" /\ lay[n.tab] = {} =>
            n.own < tl[n.tab] \/ \E x \in Closings(c, n.tab) : n.own < x

SlipsOfGone == {"reordered", "merged", "unannounced"}
GoneInv == slips \cap SlipsOfGone = {} => Gone(conn, layouts, req, told, replica, queue)

LEMMA GoneSuffices ==
    ASSUME slips' \cap SlipsOfGone = {} => Gone(conn', layouts', req', told', replica', queue')
    PROVE  GoneInv'
BY DEF GoneInv, Gone, Goes, Closings, Verifies, Pending, Between, InHand, Whole, Out

LEMMA GoesNone ==
    ASSUME NEW R, NEW t, R[t] = {}
    PROVE  Goes(R, <<>>, t)
BY DEF Goes

\* What is appended leaves it as it is, or closes the tab, or creates it.
LEMMA GoesMore ==
    ASSUME NEW R, NEW X, NEW s \in Seq(X), NEW m \in X, NEW t
    PROVE  /\ Goes(R, s, t) /\ ~(m.tab = t /\ m.kind = "created") => Goes(R, Append(s, m), t)
           /\ m.tab = t /\ m.kind = "closed" => Goes(R, Append(s, m), t)
<1>. DEFINE n == Len(s)
            z == Append(s, m)
<1>1. n \in Nat /\ Len(z) = n + 1 /\ z[n + 1] = m /\ \A i \in 1 .. n : z[i] = s[i]
  OBVIOUS
<1>2. Goes(R, s, t) <=>
        \E i \in 0 .. n : /\ i = 0 => R[t] = {}
                          /\ i > 0 => s[i].tab = t /\ s[i].kind = "closed"
                          /\ \A j \in i + 1 .. n : ~(s[j].tab = t /\ s[j].kind = "created")
  BY DEF Goes
<1>3. Goes(R, z, t) <=>
        \E i \in 0 .. n + 1 : /\ i = 0 => R[t] = {}
                              /\ i > 0 => z[i].tab = t /\ z[i].kind = "closed"
                              /\ \A j \in i + 1 .. n + 1 : ~(z[j].tab = t /\ z[j].kind = "created")
  BY <1>1, Zenon DEF Goes
<1>. HIDE DEF n, z
<1>4. ASSUME Goes(R, s, t), ~(m.tab = t /\ m.kind = "created") PROVE Goes(R, z, t)
  <2>1. PICK i \in 0 .. n : /\ i = 0 => R[t] = {}
                            /\ i > 0 => s[i].tab = t /\ s[i].kind = "closed"
                            /\ \A j \in i + 1 .. n : ~(s[j].tab = t /\ s[j].kind = "created")
    BY <1>2, <1>4
  <2>2. i \in 0 .. n + 1 /\ (i > 0 => z[i].tab = t /\ z[i].kind = "closed")
    BY <1>1, <2>1
  <2>3. ASSUME NEW j \in i + 1 .. n + 1 PROVE ~(z[j].tab = t /\ z[j].kind = "created")
    <3>1. CASE j = n + 1
      BY <1>1, <1>4, <3>1
    <3>2. CASE j # n + 1
      <4>1. j \in i + 1 .. n /\ j \in 1 .. n
        BY <1>1, <3>2
      <4>. QED
        BY <1>1, <2>1, <4>1
    <3>. QED
      BY <3>1, <3>2
  <2>. QED
    BY <1>3, <2>1, <2>2, <2>3
<1>5. ASSUME m.tab = t, m.kind = "closed" PROVE Goes(R, z, t)
  <2>1. n + 1 \in 0 .. n + 1 /\ n + 1 > 0 /\ \A j \in n + 1 + 1 .. n + 1 : FALSE
    BY <1>1
  <2>. QED
    BY <1>1, <1>3, <1>5, <2>1
<1>. QED
  BY <1>4, <1>5 DEF z

\* No message but tab_created shows a tab that is not there.
LEMMA StaysAway ==
    ASSUME NEW S \in AnyLayouts, NEW m, m.tab \in Tabs, m.kind \in {"created", "updated", "closed"},
           NEW t \in Tabs
    PROVE  /\ S[t] = {} /\ ~(m.tab = t /\ m.kind = "created") => Applied(S, m)[t] = {}
           /\ m.tab = t /\ m.kind = "closed" => Applied(S, m)[t] = {}
<1>1. CASE m.kind = "closed"
  <2>1. Applied(S, m) = [S EXCEPT ![m.tab] = {}]
    BY <1>1 DEF Applied
  <2>. QED
    BY <2>1 DEF AnyLayouts
<1>2. CASE m.kind = "created"
  <2>1. Applied(S, m) = S \/ Applied(S, m) = [S EXCEPT ![m.tab] = m.leaves]
    BY <1>2 DEF Applied
  <2>. QED
    BY <1>2, <2>1 DEF AnyLayouts
<1>3. CASE m.kind = "updated"
  <2>. DEFINE own == IF S[m.tab] # {} THEN {m.tab} ELSE {u \in Tabs : S[u] \cap m.leaves # {}}
              target == CHOOSE u \in own : TRUE
  <2>1. Applied(S, m) = IF own = {} THEN S
               ELSE [u \in Tabs |-> IF u = target THEN m.leaves
                                    ELSE IF S[u] \subseteq m.leaves THEN {} ELSE S[u]]
    BY <1>3 DEF Applied
  <2>2. own # {} => target \in own
    OBVIOUS
  <2>3. \A u \in own : S[u] # {}
    OBVIOUS
  <2>. HIDE DEF own, target
  <2>4. ASSUME S[t] = {} PROVE Applied(S, m)[t] = {}
    <3>1. CASE own = {}
      BY <2>1, <2>4, <3>1
    <3>2. CASE own # {}
      <4>1. t # target
        BY <2>2, <2>3, <2>4, <3>2
      <4>2. Applied(S, m)[t] = IF S[t] \subseteq m.leaves THEN {} ELSE S[t]
        BY <2>1, <3>2, <4>1
      <4>. QED
        BY <2>4, <4>2
    <3>. QED
      BY <3>1, <3>2
  <2>. QED
    BY <1>3, <2>4
<1>. QED
  BY <1>1, <1>2, <1>3

LEMMA GoesLess ==
    ASSUME NEW R \in AnyLayouts, NEW s \in Seq(Notes), s # <<>>, NEW t \in Tabs, Goes(R, s, t)
    PROVE  Goes(Applied(R, Head(s)), Tail(s), t)
<1>. DEFINE n == Len(s)
            z == Tail(s)
            m == Head(s)
            new == Applied(R, m)
<1>1. n \in Nat \ {0} /\ Len(z) = n - 1 /\ m = s[1] /\ m \in Notes /\ \A i \in 1 .. n - 1 : z[i] = s[i + 1]
  OBVIOUS
<1>2. m.tab \in Tabs /\ m.kind \in {"created", "updated", "closed"}
  BY <1>1 DEF Notes
<1>3. PICK i \in 0 .. n : /\ i = 0 => R[t] = {}
                          /\ i > 0 => s[i].tab = t /\ s[i].kind = "closed"
                          /\ \A j \in i + 1 .. n : ~(s[j].tab = t /\ s[j].kind = "created")
  BY DEF Goes
<1>4. /\ R[t] = {} /\ ~(m.tab = t /\ m.kind = "created") => new[t] = {}
      /\ m.tab = t /\ m.kind = "closed" => new[t] = {}
  BY <1>2, StaysAway
<1>5. Goes(new, z, t) <=>
        \E k \in 0 .. n - 1 : /\ k = 0 => new[t] = {}
                              /\ k > 0 => z[k].tab = t /\ z[k].kind = "closed"
                              /\ \A j \in k + 1 .. n - 1 : ~(z[j].tab = t /\ z[j].kind = "created")
  BY <1>1, Zenon DEF Goes
<1>. HIDE DEF n, z, m, new
<1>6. ASSUME i \in {0, 1} PROVE Goes(new, z, t)
  <2>1. new[t] = {}
    <3>1. CASE i = 0
      <4>1. 1 \in i + 1 .. n
        BY <1>1, <3>1
      <4>. QED
        BY <1>1, <1>3, <1>4, <3>1, <4>1
    <3>2. CASE i = 1
      BY <1>1, <1>3, <1>4, <3>2
    <3>. QED
      BY <1>6, <3>1, <3>2
  <2>2. ASSUME NEW j \in 0 + 1 .. n - 1 PROVE ~(z[j].tab = t /\ z[j].kind = "created")
    <3>1. j \in 1 .. n - 1 /\ j + 1 \in i + 1 .. n
      BY <1>1, <1>6
    <3>. QED
      BY <1>1, <1>3, <3>1
  <2>3. 0 \in 0 .. n - 1
    BY <1>1
  <2>. QED
    BY <1>5, <2>1, <2>2, <2>3
<1>7. ASSUME i \notin {0, 1} PROVE Goes(new, z, t)
  <2>1. i - 1 \in 1 .. n - 1 /\ i - 1 + 1 = i /\ i > 0 /\ i - 1 \in 0 .. n - 1 /\ i - 1 # 0
    BY <1>1, <1>7
  <2>2. z[i - 1] = s[i]
    BY <1>1, <2>1
  <2>3. ASSUME NEW j \in i - 1 + 1 .. n - 1 PROVE ~(z[j].tab = t /\ z[j].kind = "created")
    <3>1. j \in 1 .. n - 1 /\ j + 1 \in i + 1 .. n
      BY <1>1, <2>1
    <3>. QED
      BY <1>1, <1>3, <3>1
  <2>. QED
    BY <1>3, <1>5, <2>1, <2>2, <2>3
<1>8. Goes(new, z, t)
  BY <1>6, <1>7
<1>. QED
  BY <1>8 DEF new, z, m

LEMMA ClosingsAre ==
    ASSUME NEW c, NEW t, NEW x
    PROVE  x \in Closings(c, t) <=>
             \/ \E h \in Handlers : \E n \in Out(c[h]) : n.tab = t /\ n.kind = "closed" /\ x = n.own
             \/ \E h \in Handlers : InHand(c[h]) /\ c[h].tab = t /\ Whole(c[h]) /\ x = c[h].first
<1>1. \A m : m \in Pending(c) <=> \E h \in Handlers : m \in Out(c[h])
  BY PendingIs
<1>2. \A h : h \in Between(c) <=> h \in Handlers /\ InHand(c[h])
  BY DEF Between
<1>. HIDE DEF Out
<1>. QED
  BY <1>1, <1>2 DEF Closings

\* What is still to be told stays so.
LEMMA ClosingsKeep ==
    ASSUME TypeInv, NEW h \in Handlers, Meant(req[h]), Mine(h), Meant(req'[h]), Steps(h),
           NEW t, NEW x \in Closings(req, t)
    PROVE  x \in Closings(req', t)
<1>1. CASE \E k \in Handlers : \E n \in Out(req[k]) : n.tab = t /\ n.kind = "closed" /\ x = n.own
  <2>1. PICK k \in Handlers : \E n \in Out(req[k]) : n.tab = t /\ n.kind = "closed" /\ x = n.own
    BY <1>1
  <2>2. req[h].out = <<>>
    BY DEF Steps, Keeps, Overwrites, Tells, Lifts, Puts, Meant
  <2>3. k # h
    BY <2>1, <2>2, NewNotes
  <2>4. req'[k] = req[k]
    BY <2>3 DEF Mine
  <2>. QED
    BY <2>1, <2>4, ClosingsAre
<1>2. CASE \E k \in Handlers : InHand(req[k]) /\ req[k].tab = t /\ Whole(req[k]) /\ x = req[k].first
  <2>1. PICK k \in Handlers : InHand(req[k]) /\ req[k].tab = t /\ Whole(req[k]) /\ x = req[k].first
    BY <1>2
  <2>2. CASE k # h
    <3>1. req'[k] = req[k]
      BY <2>2 DEF Mine
    <3>. QED
      BY <2>1, <3>1, ClosingsAre
  <2>3. CASE k = h
    <3>1. Puts(h)
      BY <2>1, <2>3 DEF Steps, Keeps, Overwrites, Tells, Lifts
    <3>2. \E n \in Out(req'[h]) : n.tab = t /\ n.kind = "closed" /\ x = n.own
      BY <2>1, <2>3, <3>1 DEF Puts
    <3>. QED
      BY <3>2, ClosingsAre
  <2>. QED
    BY <2>2, <2>3
<1>. QED
  BY <1>1, <1>2, ClosingsAre

\* A tab that a request empties is told to be closed, later than all that was said before.
LEMMA Empties ==
    ASSUME TypeInv, NEW h \in Handlers, Meant(req'[h]), Steps(h),
           NEW t \in Tabs, layouts[t] # {}, layouts'[t] = {}
    PROVE  clock + 1 \in Closings(req', t)
<1>0. layouts \in [Tabs -> SUBSET Leaves]
  BY DEF TypeInv, LayoutsOf
<1>1. CASE Tells(h)
  <2>1. PICK n \in Out(req'[h]) : n.tab = t
    BY <1>1 DEF Tells
  <2>2. n.own = clock + 1 /\ (layouts'[t] = n.leaves \/ n.kind = "closed")
    BY <1>1, <2>1 DEF Tells
  <2>3. n.leaves = {} => n.kind = "closed"
    BY <2>1 DEF Meant, Batch, Out
  <2>. QED
    BY <2>1, <2>2, <2>3, ClosingsAre
<1>2. CASE Lifts(h)
  <2>1. /\ InHand(req'[h]) /\ req'[h].tab \in Tabs
        /\ layouts' = [layouts EXCEPT ![req'[h].tab] = Remains(req'[h])]
        /\ layouts[req'[h].tab] # {} => req'[h].first = clock + 1
    BY <1>2 DEF Lifts
  <2>2. t = req'[h].tab
    BY <1>0, <2>1
  <2>3. layouts'[t] = Remains(req'[h])
    BY <1>0, <2>1, <2>2
  <2>4. Whole(req'[h])
    BY <2>1, <2>3 DEF Meant, InHand
  <2>. QED
    BY <2>1, <2>2, <2>4, ClosingsAre
<1>3. CASE Puts(h)
  <2>1. PICK from, to : to.leaves # {} /\ layouts' = [layouts EXCEPT ![req[h].dst] = to.leaves]
    BY <1>3 DEF Puts
  <2>. QED
    BY <1>0, <2>1
<1>4. CASE Keeps(h) \/ Overwrites(h)
  BY <1>4 DEF Keeps, Overwrites
<1>. QED
  BY <1>1, <1>2, <1>3, <1>4 DEF Steps

\* A tab that is said to be created is there.
LEMMA Creates ==
    ASSUME TypeInv, NEW h \in Handlers, Meant(req'[h]), Steps(h),
           NEW n \in Out(req'[h]), n.kind = "created", n.tab \in Tabs
    PROVE  layouts'[n.tab] # {}
<1>0. layouts \in [Tabs -> SUBSET Leaves]
  BY DEF TypeInv, LayoutsOf
<1>1. n.leaves # {}
  BY DEF Meant, Batch, Out
<1>2. CASE Tells(h)
  BY <1>1, <1>2 DEF Tells
<1>3. CASE Puts(h)
  <2>1. PICK from \in Out(req'[h]), to \in Out(req'[h]) :
          /\ Out(req'[h]) = {from, to} /\ from.kind = IF Whole(req[h]) THEN "closed" ELSE "updated"
          /\ to.tab = req[h].dst /\ to.leaves # {} /\ layouts' = [layouts EXCEPT ![req[h].dst] = to.leaves]
    BY <1>3 DEF Puts
  <2>2. n = to
    BY <2>1
  <2>. QED
    BY <1>0, <2>1, <2>2
<1>4. CASE Keeps(h) \/ Overwrites(h) \/ Lifts(h)
  <2>1. req'[h].out = <<>>
    BY <1>4 DEF Keeps, Overwrites, Lifts
  <2>. QED
    BY <2>1 DEF Out
<1>. QED
  BY <1>2, <1>3, <1>4 DEF Steps

\* A request that is to look once more does so, or is merged.
LEMMA VerifiesOr ==
    ASSUME TypeInv, NEW h \in Handlers, Mine(h), Steps(h), "merged" \notin slips',
           NEW t \in Tabs, Verifies(req, t), layouts[t] = {}
    PROVE  Verifies(req', t) \/ Closings(req', t) # {}
<1>1. PICK k \in Handlers : req[k].op = "create" /\ req[k].pc = "verify" /\ req[k].tab = t
  BY DEF Verifies
<1>2. CASE k # h
  <2>1. req'[k] = req[k]
    BY <1>2 DEF Mine
  <2>. QED
    BY <1>1, <2>1 DEF Verifies
<1>3. CASE k = h
  <2>1. Tells(h)
    BY <1>1, <1>3 DEF Steps, Keeps, Overwrites, Lifts, Puts, InHand
  <2>2. PICK n \in Out(req'[h]) : n.tab = t /\ n.kind = "closed"
    BY <1>1, <1>3, <2>1 DEF Tells
  <2>3. n.own \in Closings(req', t)
    BY <2>2, ClosingsAre
  <2>. QED
    BY <2>3
<1>. QED
  BY <1>2, <1>3

LEMMA GoneHandled ==
    ASSUME TypeInv, TypeInv', MeantInv, GoneInv, NEW h \in Handlers, Handled(h)
    PROVE  GoneInv'
<1>0. \A k \in Handlers : Meant(req[k])
  BY DEF MeantInv
<1>1. /\ Mine(h) /\ Meant(req'[h]) /\ Steps(h)
      /\ UNCHANGED <<conn, queue, replica, told, latest>> /\ slips \subseteq slips'
  BY <1>0, StepsHandled DEF clientVars
<1>2. SUFFICES ASSUME slips' \cap SlipsOfGone = {} PROVE Gone(conn', layouts', req', told', replica', queue')
  BY GoneSuffices
<1>3. slips \cap SlipsOfGone = {} /\ "merged" \notin slips'
  BY <1>1, <1>2 DEF SlipsOfGone
<1>4. Gone(conn, layouts, req, told, replica, queue)
  BY <1>3 DEF GoneInv
<1>5. ASSUME conn' # "away", NEW t \in Tabs, layouts'[t] = {}
      PROVE  Goes(replica', queue', t) \/ Closings(req', t) # {} \/ Verifies(req', t)
  <2>1. CASE layouts[t] = {}
    <3>1. Goes(replica, queue, t) \/ Closings(req, t) # {} \/ Verifies(req, t)
      BY <1>1, <1>4, <1>5, <2>1 DEF Gone
    <3>2. CASE Goes(replica, queue, t)
      BY <1>1, <3>2
    <3>3. CASE Closings(req, t) # {}
      BY <1>0, <1>1, <3>3, ClosingsKeep
    <3>4. CASE Verifies(req, t)
      BY <1>1, <1>3, <2>1, <3>4, VerifiesOr
    <3>. QED
      BY <3>1, <3>2, <3>3, <3>4
  <2>2. CASE layouts[t] # {}
    <3>1. clock + 1 \in Closings(req', t)
      BY <1>1, <1>5, <2>2, Empties
    <3>. QED
      BY <3>1
  <2>. QED
    BY <2>1, <2>2
<1>6. ASSUME NEW k \in Handlers, NEW n \in Out(req'[k]), n.kind = "created", req'[k].op # "create",
             layouts'[n.tab] = {}
      PROVE  n.own < told'[n.tab] \/ \E x \in Closings(req', n.tab) : n.own < x
  <2>1. n.tab \in Tabs
    BY AfterTyped
  <2>2. k # h
    BY <1>1, <1>6, <2>1, Creates
  <2>3. req'[k] = req[k] /\ n \in Out(req[k])
    BY <1>1, <1>6, <2>2 DEF Mine
  <2>4. CASE layouts[n.tab] = {}
    <3>1. n.own < told[n.tab] \/ \E x \in Closings(req, n.tab) : n.own < x
      BY <1>4, <1>6, <2>3, <2>4 DEF Gone
    <3>2. CASE n.own < told[n.tab]
      BY <1>1, <3>2
    <3>3. CASE \E x \in Closings(req, n.tab) : n.own < x
      BY <1>0, <1>1, <3>3, ClosingsKeep
    <3>. QED
      BY <3>1, <3>2, <3>3
  <2>5. CASE layouts[n.tab] # {}
    <3>1. clock + 1 \in Closings(req', n.tab)
      BY <1>1, <1>6, <2>1, <2>5, Empties
    <3>2. n.own \in 0 .. clock /\ clock \in Nat
      BY <2>3, OutTyped
    <3>. QED
      BY <3>1, <3>2
  <2>. QED
    BY <2>4, <2>5
<1>. QED
  BY <1>5, <1>6 DEF Gone

\* A broadcast that closes a tab tells it; what else is to be told of tabs closed remains.
LEMMA ClosingsSent ==
    ASSUME TypeInv, NEW h \in Handlers, Broadcast(h), Meant(req[h]),
           NEW m, m = Head(req[h].out), NEW t, NEW x \in Closings(req, t)
    PROVE  x \in Closings(req', t) \/ (m.tab = t /\ m.kind = "closed" /\ x = m.own)
<1>1. Out(req[h]) = Out(req'[h]) \cup {m} /\ Mine(h) /\ ~InHand(req[h])
  BY Sends
<1>2. \A k \in Handlers \ {h} : req'[k] = req[k]
  BY <1>1 DEF Mine
<1>3. CASE \E k \in Handlers : \E n \in Out(req[k]) : n.tab = t /\ n.kind = "closed" /\ x = n.own
  <2>1. PICK k \in Handlers : \E n \in Out(req[k]) : n.tab = t /\ n.kind = "closed" /\ x = n.own
    BY <1>3
  <2>2. PICK n \in Out(req[k]) : n.tab = t /\ n.kind = "closed" /\ x = n.own
    BY <2>1
  <2>3. n = m \/ n \in Out(req'[k])
    BY <1>1, <1>2, <2>2
  <2>. QED
    BY <2>2, <2>3, ClosingsAre
<1>4. CASE \E k \in Handlers : InHand(req[k]) /\ req[k].tab = t /\ Whole(req[k]) /\ x = req[k].first
  <2>1. PICK k \in Handlers : InHand(req[k]) /\ req[k].tab = t /\ Whole(req[k]) /\ x = req[k].first
    BY <1>4
  <2>2. req'[k] = req[k]
    BY <1>1, <1>2, <2>1
  <2>. QED
    BY <2>1, <2>2, ClosingsAre
<1>. QED
  BY <1>3, <1>4, ClosingsAre

LEMMA VerifiesSent ==
    ASSUME TypeInv, NEW h \in Handlers, Broadcast(h), Meant(req[h]), NEW t, Verifies(req, t)
    PROVE  Verifies(req', t)
<1>1. /\ Mine(h)
      /\ \/ req[h].pc = "end"
         \/ req'[h].op = req[h].op /\ req'[h].pc = req[h].pc /\ req'[h].tab = req[h].tab
  BY Sends
<1>2. PICK k \in Handlers : req[k].op = "create" /\ req[k].pc = "verify" /\ req[k].tab = t
  BY DEF Verifies
<1>3. req'[k].op = "create" /\ req'[k].pc = "verify" /\ req'[k].tab = t
  BY <1>1, <1>2 DEF Mine
<1>. QED
  BY <1>3 DEF Verifies

LEMMA GoneSent ==
    ASSUME TypeInv, MeantInv, GoneInv, NEW h \in Handlers, Broadcast(h)
    PROVE  GoneInv'
<1>. DEFINE m == Head(req[h].out)
<1>0. Meant(req[h])
  BY DEF MeantInv
<1>. SUFFICES ASSUME slips' \cap SlipsOfGone = {} PROVE Gone(conn', layouts', req', told', replica', queue')
  BY GoneSuffices
<1>1. /\ slips' = slips \cup Slip(ComesLate(m), IF TakesBack(h) THEN "late" ELSE "reordered")
      /\ told' = [told EXCEPT ![m.tab] = Later(told[m.tab], m.own)]
      /\ UNCHANGED <<layouts, conn, replica, used, clock>>
      /\ conn # "away" => queue' = Append(queue, Heard(m))
  BY DEF Broadcast, serverVars
<1>2. slips \cap SlipsOfGone = {} /\ (ComesLate(m) => TakesBack(h))
  BY <1>1 DEF Slip, SlipsOfGone
<1>3. Gone(conn, layouts, req, told, replica, queue)
  BY <1>2 DEF GoneInv
<1>4. /\ m \in Out(req[h]) /\ Out(req[h]) = Out(req'[h]) \cup {m} /\ Mine(h)
      /\ req'[h].op = req[h].op \/ req'[h] = Idle
  BY <1>0, Sends
<1>5. m \in AnyNotes /\ m.tab \in Tabs /\ m.own \in 0 .. clock /\ clock \in Nat /\ told \in [Tabs -> 0 .. clock]
  BY <1>4, OutTyped DEF TypeInv
<1>6. queue \in Seq(Notes) /\ Heard(m) \in Notes /\ Heard(m).tab = m.tab /\ Heard(m).kind = m.kind
  <2>1. queue \in Seq(HeardOf(used)) /\ HeardOf(used) \subseteq Notes
    BY DEF TypeInv, HeardOf, Notes
  <2>2. queue \in Seq(Notes)
    BY <2>1
  <2>. HIDE DEF m
  <2>3. Heard(m) \in Notes /\ Heard(m).tab = m.tab /\ Heard(m).kind = m.kind
    BY <1>5 DEF Heard, Notes, AnyNotes
  <2>. QED
    BY <2>2, <2>3
<1>7. ASSUME conn' # "away", NEW t \in Tabs, layouts'[t] = {}
      PROVE  Goes(replica', queue', t) \/ Closings(req', t) # {} \/ Verifies(req', t)
  <2>0. conn # "away" /\ layouts[t] = {} /\ queue' = Append(queue, Heard(m)) /\ replica' = replica
    BY <1>1, <1>7
  <2>. HIDE DEF m
  <2>1. CASE m.tab = t /\ m.kind = "closed"
    <3>1. Goes(replica, Append(queue, Heard(m)), t)
      BY <1>6, <2>1, GoesMore
    <3>. QED
      BY <2>0, <3>1
  <2>2. CASE m.tab = t /\ m.kind = "created"
    <3>1. CASE req[h].op = "create"
      <4>1. req[h].pc = "verify" /\ req[h].tab = t
        BY <1>0, <1>4, <2>2, <3>1 DEF Meant, Out
      <4>2. Verifies(req, t)
        BY <3>1, <4>1 DEF Verifies
      <4>. QED
        BY <1>0, <4>2, VerifiesSent
    <3>2. CASE req[h].op # "create"
      <4>1. ~ComesLate(m)
        BY <1>2, <3>2 DEF TakesBack
      <4>2. ~(m.own < told[t])
        BY <2>2, <4>1 DEF ComesLate
      <4>3. PICK x \in Closings(req, t) : m.own < x
        BY <1>3, <1>4, <2>0, <2>2, <3>2, <4>2 DEF Gone
      <4>4. m.kind # "closed"
        BY <2>2
      <4>5. x \in Closings(req', t)
        BY <1>0, <4>3, <4>4, ClosingsSent DEF m
      <4>. QED
        BY <4>5
    <3>. QED
      BY <3>1, <3>2
  <2>3. CASE ~(m.tab = t /\ m.kind \in {"created", "closed"})
    <3>1. Goes(replica, queue, t) \/ Closings(req, t) # {} \/ Verifies(req, t)
      BY <1>3, <2>0 DEF Gone
    <3>2. CASE Goes(replica, queue, t)
      <4>1. Goes(replica, Append(queue, Heard(m)), t)
        BY <1>6, <2>3, <3>2, GoesMore
      <4>. QED
        BY <2>0, <4>1
    <3>3. CASE Closings(req, t) # {}
      <4>1. PICK x \in Closings(req, t) : TRUE
        BY <3>3
      <4>2. x \in Closings(req', t)
        BY <1>0, <2>3, <4>1, ClosingsSent DEF m
      <4>. QED
        BY <4>2
    <3>4. CASE Verifies(req, t)
      BY <1>0, <3>4, VerifiesSent
    <3>. QED
      BY <3>1, <3>2, <3>3, <3>4
  <2>. QED
    BY <2>1, <2>2, <2>3
<1>. HIDE DEF m
<1>8. ASSUME NEW k \in Handlers, NEW n \in Out(req'[k]), n.kind = "created", req'[k].op # "create",
             layouts'[n.tab] = {}
      PROVE  n.own < told'[n.tab] \/ \E x \in Closings(req', n.tab) : n.own < x
  <2>1. n \in Out(req[k]) /\ req[k].op # "create"
    <3>1. CASE k # h
      BY <1>4, <1>8, <3>1 DEF Mine
    <3>2. CASE k = h
      <4>1. req'[h] # Idle
        BY <1>8, <3>2, IdleMeans DEF Out
      <4>. QED
        BY <1>4, <1>8, <3>2, <4>1
    <3>. QED
      BY <3>1, <3>2
  <2>2. n.tab \in Tabs /\ n.own \in 0 .. clock
    BY <2>1, OutTyped
  <2>3. told[n.tab] <= told'[n.tab] /\ told[n.tab] \in Nat /\ told'[n.tab] \in Nat
        /\ (n.tab = m.tab => m.own <= told'[n.tab])
    <3>1. told[m.tab] \in Nat /\ m.own \in Nat
      BY <1>5
    <3>2. /\ told[m.tab] <= Later(told[m.tab], m.own) /\ m.own <= Later(told[m.tab], m.own)
          /\ Later(told[m.tab], m.own) \in Nat
      BY <3>1 DEF Later
    <3>. QED
      BY <1>1, <1>5, <2>2, <3>2
  <2>4. n.own < told[n.tab] \/ \E x \in Closings(req, n.tab) : n.own < x
    BY <1>1, <1>3, <1>8, <2>1 DEF Gone
  <2>5. CASE n.own < told[n.tab]
    BY <2>2, <2>3, <2>5
  <2>6. CASE \E x \in Closings(req, n.tab) : n.own < x
    <3>1. PICK x \in Closings(req, n.tab) : n.own < x
      BY <2>6
    <3>2. x \in Closings(req', n.tab) \/ (m.tab = n.tab /\ x = m.own)
      BY <1>0, <3>1, ClosingsSent DEF m
    <3>3. CASE m.tab = n.tab /\ x = m.own
      BY <1>5, <2>2, <2>3, <3>1, <3>3
    <3>. QED
      BY <3>1, <3>2, <3>3
  <2>. QED
    BY <2>4, <2>5, <2>6
<1>. QED
  BY <1>7, <1>8 DEF Gone

LEMMA GoneUpdates ==
    ASSUME TypeInv, GoneInv, NEW h \in Handlers, ClientUpdates(h)
    PROVE  GoneInv'
<1>. SUFFICES ASSUME slips' \cap SlipsOfGone = {} PROVE Gone(conn', layouts', req', told', replica', queue')
  BY GoneSuffices
<1>1. PICK u \in Tabs :
        /\ replica[u] # {} /\ layouts' = [layouts EXCEPT ![u] = replica[u]]
        /\ told' = [told EXCEPT ![u] = clock + 1] /\ slips \subseteq slips'
  BY DEF ClientUpdates
<1>2. UNCHANGED <<req, conn, queue, replica>>
  BY DEF ClientUpdates
<1>3. Gone(conn, layouts, req, told, replica, queue)
  BY <1>1 DEF GoneInv
<1>4. layouts \in [Tabs -> SUBSET Leaves] /\ told \in [Tabs -> 0 .. clock]
  BY DEF TypeInv, LayoutsOf
<1>5. \A t \in Tabs : layouts'[t] = {} => layouts[t] = {} /\ told'[t] = told[t]
  BY <1>1, <1>4
<1>6. \A k \in Handlers : \A n \in Out(req[k]) : n.tab \in Tabs
  BY OutTyped
<1>7. conn # "away" => \A t \in Tabs : layouts'[t] = {} =>
        Goes(replica, queue, t) \/ Closings(req, t) # {} \/ Verifies(req, t)
  BY <1>3, <1>5 DEF Gone
<1>8. ASSUME NEW k \in Handlers, NEW n \in Out(req[k]), n.kind = "created", req[k].op # "create",
             layouts'[n.tab] = {}
      PROVE  n.own < told'[n.tab] \/ \E x \in Closings(req, n.tab) : n.own < x
  <2>1. layouts[n.tab] = {} /\ told'[n.tab] = told[n.tab]
    BY <1>5, <1>6, <1>8
  <2>. QED
    BY <1>3, <1>8, <2>1 DEF Gone
<1>9. Gone(conn, layouts', req, told', replica, queue)
  BY <1>7, <1>8 DEF Gone
<1>. QED
  BY <1>2, <1>9

LEMMA GoneListed ==
    ASSUME TypeInv, ConnInv, GoneInv, ReceiveList
    PROVE  GoneInv'
<1>. SUFFICES ASSUME slips' \cap SlipsOfGone = {} PROVE Gone(conn', layouts', req', told', replica', queue')
  BY GoneSuffices
<1>1. Stale = {} /\ slips \subseteq slips'
  BY DEF ReceiveList, Slip, SlipsOfGone
<1>2. layouts' = layouts /\ replica' = layouts /\ UNCHANGED <<req, queue, told>> /\ conn = "registered"
  BY <1>1, PruneFacts DEF ReceiveList
<1>3. Gone(conn, layouts, req, told, replica, queue)
  BY <1>1 DEF GoneInv
<1>4. ASSUME NEW t \in Tabs, layouts[t] = {}
      PROVE  Goes(layouts, queue, t) \/ Closings(req, t) # {} \/ Verifies(req, t)
  <2>1. Goes(replica, queue, t) \/ Closings(req, t) # {} \/ Verifies(req, t)
    BY <1>2, <1>3, <1>4 DEF Gone
  <2>2. Goes(replica, queue, t) => Goes(layouts, queue, t)
    BY <1>4 DEF Goes
  <2>. QED
    BY <2>1, <2>2
<1>5. Gone("listed", layouts, req, told, layouts, queue)
  BY <1>3, <1>4 DEF Gone
<1>6. conn' = "listed"
  BY DEF ReceiveList
<1>. QED
  BY <1>2, <1>5, <1>6

LEMMA GoneDelivered ==
    ASSUME TypeInv, GoneInv, Deliver
    PROVE  GoneInv'
<1>. DEFINE m == Head(queue)
<1>. SUFFICES ASSUME slips' \cap SlipsOfGone = {} PROVE Gone(conn', layouts', req', told', replica', queue')
  BY GoneSuffices
<1>1. /\ conn = "listed" /\ queue # <<>> /\ queue' = Tail(queue)
      /\ UNCHANGED <<layouts, req, conn, told, slips>>
  BY DEF Deliver, serverVars
<1>2. replica' = Applied(replica, m)
  BY DEF Deliver, Applied, WithLayout, WithTab
<1>3. queue \in Seq(Notes) /\ replica \in AnyLayouts
  <2>1. queue \in Seq(HeardOf(used)) /\ HeardOf(used) \subseteq Notes
    BY DEF TypeInv, HeardOf, Notes
  <2>. QED
    BY <2>1 DEF TypeInv, LayoutsOf, AnyLayouts
<1>4. Gone(conn, layouts, req, told, replica, queue)
  BY <1>1 DEF GoneInv
<1>5. ASSUME NEW t \in Tabs, Goes(replica, queue, t)
      PROVE  Goes(Applied(replica, m), Tail(queue), t)
  BY <1>1, <1>3, <1>5, GoesLess
<1>. HIDE DEF m
<1>6. Gone(conn, layouts, req, told, replica', queue')
  BY <1>1, <1>2, <1>4, <1>5 DEF Gone
<1>. QED
  BY <1>1, <1>6

\* Where the client is away, or has just come, and no request is under way or all are as they were.
LEMMA GoneAway ==
    ASSUME NEW cn, NEW lay, NEW c, NEW tl, NEW R, NEW s,
           cn # "away" => s = <<>> /\ \A t \in Tabs : R[t] = {},
           \/ \A h \in Handlers : c[h] = Idle
           \/ Gone(conn, layouts, req, told, replica, queue) /\ lay = layouts /\ c = req /\ tl = told
    PROVE  Gone(cn, lay, c, tl, R, s)
<1>1. cn # "away" => \A t \in Tabs : Goes(R, s, t)
  BY GoesNone
<1>2. \A h \in Handlers : c[h] = Idle => Out(c[h]) = {}
  BY IdleMeans DEF Out
<1>. QED
  BY <1>1, <1>2 DEF Gone

LEMMA GoneStep ==
    ASSUME TypeInv, TypeInv', BootInv, ClientInv, GoneInv, [Next]_vars
    PROVE  GoneInv'
<1>0. MeantInv /\ Lasts(req) /\ ConnInv
  BY DEF ClientInv
<1>1. ASSUME NEW h \in Handlers, Handled(h) \/ Broadcast(h) \/ ClientUpdates(h) PROVE GoneInv'
  BY <1>0, <1>1, GoneHandled, GoneSent, GoneUpdates
<1>2. CASE ReceiveList
  BY <1>0, <1>2, GoneListed
<1>3. CASE Deliver
  BY <1>3, GoneDelivered
<1>4. CASE ListTabs
  <2>1. slips' \cap SlipsOfGone # {}
    BY <1>4 DEF ListTabs, SlipsOfGone
  <2>. QED
    BY <2>1, GoneSuffices
<1>5. CASE Register \/ Disconnect
  <2>1. UNCHANGED <<layouts, req, told, slips>>
    BY <1>5 DEF Register, Disconnect, serverVars
  <2>2. conn' # "away" => queue' = <<>> /\ \A t \in Tabs : replica'[t] = {}
    BY <1>0, <1>5 DEF Register, Disconnect, ConnInv, NoTabs
  <2>3. ASSUME slips' \cap SlipsOfGone = {} PROVE Gone(conn', layouts', req', told', replica', queue')
    <3>1. Gone(conn, layouts, req, told, replica, queue)
      BY <2>1, <2>3 DEF GoneInv
    <3>. QED
      BY <2>1, <2>2, <3>1, GoneAway
  <2>. QED
    BY <2>3, GoneSuffices
<1>6. CASE Crash \/ RestorePane \/ RestoreTab \/ ShellEnds \/ Serve
  <2>1. conn' = "away" /\ \A h \in Handlers : req'[h] = Idle
    <3>1. CASE Crash
      BY <3>1 DEF Crash
    <3>2. CASE RestorePane \/ RestoreTab \/ ShellEnds \/ Serve
      <4>1. boot = "restoring" /\ UNCHANGED <<conn, req>>
        BY <3>2 DEF RestorePane, RestoreTab, ShellEnds, Serve, clientVars
      <4>. QED
        BY <4>1 DEF BootInv
    <3>. QED
      BY <1>6, <3>1, <3>2
  <2>2. Gone(conn', layouts', req', told', replica', queue')
    BY <2>1, GoneAway
  <2>. QED
    BY <2>2, GoneSuffices
<1>7. CASE UNCHANGED <<layouts, req, clientVars, followed>> /\ slips \subseteq slips' \cup {"unsaved"}
  <2>1. UNCHANGED <<layouts, req, conn, queue, replica, told>>
    BY <1>7 DEF clientVars
  <2>2. slips' \cap SlipsOfGone = {} => slips \cap SlipsOfGone = {}
    BY <1>7 DEF SlipsOfGone
  <2>3. slips' \cap SlipsOfGone = {} => Gone(conn', layouts', req', told', replica', queue')
    BY <2>1, <2>2 DEF GoneInv
  <2>. QED
    BY <2>3, GoneSuffices
<1>. QED
  BY <1>1, <1>2, <1>3, <1>4, <1>5, <1>6, <1>7, Cases

\* A client that has received everything shows no tab that is gone, whatever was stored over
\* what and whatever came after the list, unless broadcasts of a request other than create_tab
\* swapped places, tab_list dropped a tab, or a tab was merged while create_tab was at it.
THEOREM TabsThatAreGoneGo == Spec => []GoneTabsGo
<1>. DEFINE Inv == IInv /\ ClientInv /\ GoneInv
<1>1. Init => Inv
  <2>. SUFFICES ASSUME Init PROVE Inv
    OBVIOUS
  <2>1. conn = "away" /\ \A h \in Handlers : req[h] = Idle
    BY DEF Init
  <2>2. GoneInv
    BY <2>1, GoneAway DEF GoneInv
  <2>3. IInv
    BY TypeInit, StartsIn DEF IInv
  <2>. QED
    BY <2>2, <2>3, ClientInit
<1>2. Inv /\ [Next]_vars => Inv'
  <2>. SUFFICES ASSUME Inv, [Next]_vars PROVE Inv'
    OBVIOUS
  <2>0. IInv' /\ (IInv <=> TypeInv /\ BootInv /\ CleanInv /\ FileInv)
    BY TypeStep, FileStep, CleanStep DEF IInv
  <2>1. TypeInv' /\ ClientInv'
    BY <2>0, ClientStep DEF IInv
  <2>2. GoneInv'
    BY <2>0, <2>1, GoneStep
  <2>. QED
    BY <2>0, <2>1, <2>2
<1>3. Inv => GoneTabsGo
  <2>. SUFFICES ASSUME Inv, slips \cap SlipsOfGone = {}, Quiet, conn = "listed", queue = <<>>,
                       NEW t \in Tabs, layouts[t] = {}
                PROVE  replica[t] = {}
    BY DEF GoneTabsGo, SlipsOfGone
  <2>1. \A h \in Handlers : req[h] = Idle
    BY DEF Quiet
  <2>2. \A h \in Handlers : Out(req[h]) = {} /\ ~InHand(req[h]) /\ req[h].op # "create"
    BY <2>1, IdleMeans, NoNotes
  <2>3. Closings(req, t) = {} /\ ~Verifies(req, t)
    BY <2>2, ClosingsAre DEF Verifies
  <2>4. Goes(replica, <<>>, t)
    BY <2>3 DEF GoneInv, Gone
  <2>. QED
    BY <2>4 DEF Goes
<1>. QED
  BY <1>1, <1>2, <1>3, PTL DEF Spec

=============================================================================
