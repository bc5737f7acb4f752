------------------------- MODULE AttentionSyncProofs -------------------------
(***************************************************************************)
(* Proofs about AttentionSync, for any clients, panes, limits and numbers  *)
(* of events, requests, connections and starts of the server.              *)
(***************************************************************************)
EXTENDS AttentionSync, FiniteSetTheorems, WellFoundedInduction, TLAPS

-----------------------------------------------------------------------------
(* The inductive invariant.                                                *)

Entry  == [latest: Nat, read: Nat, unread: SUBSET Nat]
Answer == [type: {"result"}, epoch: Nat, request: Nat,
           status: {"stale_epoch", "not_found", "invalid", "applied"}, revision: Nat \cup {None}]
Ask    == [epoch: Nat, pane: Panes, through: Nat, attempts: Nat]
Sent   == [request: Nat, epoch: Nat, pane: Panes, through: Nat, link: Nat]
Copy   == [epoch: Nat, revision: Nat, awaiting: BOOLEAN, rows: Rows]

\* UnreadIffBehind of one entry, of whose events none is later than n.
Whole(e, n) ==
    /\ e \in Entry
    /\ e.latest \in 1 .. n /\ e.read <= e.latest
    /\ e.unread \subseteq e.read + 1 .. e.latest
    /\ e.read < e.latest => e.latest \in e.unread
    /\ IsFiniteSet(e.unread) /\ Cardinality(e.unread) <= UnreadCap

\* A ledger that holds such entries.
Sound(L, n) ==
    /\ DOMAIN L \subseteq Panes /\ IsFiniteSet(DOMAIN L)
    /\ \A p \in DOMAIN L : Whole(L[p], n)

LedgerInv ==
    /\ epoch \in 1 .. MaxEpoch /\ revision \in Nat
    /\ nextSeq \in 1 .. MaxSeq + 1 /\ aged \in Nat /\ aged < nextSeq
    /\ stale \subseteq DOMAIN ledger
    /\ Sound(ledger, nextSeq - 1) /\ Cardinality(DOMAIN ledger) <= IdentityCap
    /\ \A k \in DOMAIN dedup : dedup[k] \in Answer
    /\ seen \in [Panes -> Nat]

LinkInv ==
    /\ link \in [Clients -> {"down", "registered", "held", "up"}]
    /\ links \in [Clients -> Nat]
    /\ held \in [Clients -> News \cup {None}]
    /\ \A c \in Clients : link[c] = "held" <=> held[c] # None
    /\ outbox \in [Threads -> News \cup {None}]
    /\ queue \in [Clients -> Seq(News \cup Answer)]
    /\ wire \in [Clients -> Seq(Sent)]

\* What a client asks for has been shown to some client, if it is of this epoch.
Honest(a, e, s) == a.epoch <= e /\ (a.epoch = e => a.through <= s[a.pane])

AskInv ==
    /\ overlays = [c \in Clients |-> overlays[c]]
    /\ pending = [c \in Clients |-> pending[c]]
    /\ requests \in [Clients -> Nat]
    /\ \A c \in Clients :
         /\ DOMAIN pending[c] \subseteq DOMAIN overlays[c]
         /\ \A r \in DOMAIN pending[c] : pending[c][r] \in Ask /\ Honest(pending[c][r], epoch, seen)
         /\ \A i \in DOMAIN wire[c] : Honest(wire[c][i], epoch, seen)

\* The news on their way to the clients.
Travels(m) == (\E c \in Clients : m \in Range(queue[c])) \/ m \in Range(held) \/ m \in Range(outbox)
UnderWay   == {m \in News : Travels(m)}

\* Row b of a pane says no less than row a of it.
AtMost(a, b) == a.latest < b.latest \/ (a.latest = b.latest /\ a.read <= b.read)

Present(rows) == {p \in DOMAIN rows : rows[p] # None}
Precede(f, g) == \A p \in Present(f) \cap Present(g) : AtMost(f[p], g[p])

\* Rows that say no more than the ledger L, of which all events are before n.
Within(rows, L, n) ==
    \A p \in Present(rows) :
        /\ rows[p].latest < n
        /\ p \in DOMAIN L => AtMost(rows[p], Row(L[p]))
SameAs(rows, L) == \A p \in Present(rows) : p \in DOMAIN L /\ rows[p] = Row(L[p])

NewsInv ==
    /\ \A m \in UnderWay :
         /\ m.epoch = epoch /\ m.revision <= revision
         /\ Within(m.rows, ledger, nextSeq)
         /\ m.revision = revision => SameAs(m.rows, ledger)
    /\ \A m, w \in UnderWay : m.revision <= w.revision => Precede(m.rows, w.rows)

\* A copy of this epoch says no more than the ledger, and than what it would take.
Current(st) ==
    /\ Within(st.rows, ledger, nextSeq)
    /\ \A p \in DOMAIN st.rows : st.rows[p].latest <= seen[p]
    /\ \A m \in UnderWay : st.revision <= m.revision => Precede(st.rows, m.rows)

StoreInv ==
    /\ store \in [Clients -> Copy]
    /\ \A c \in Clients :
         /\ store[c].epoch <= epoch
         /\ store[c].epoch = 0 => DOMAIN store[c].rows = {}
         /\ store[c].epoch = epoch => Current(store[c])

IInv == LedgerInv /\ LinkInv /\ AskInv /\ NewsInv /\ StoreInv

-----------------------------------------------------------------------------
(* Sets of numbers.                                                        *)

LEMMA MinFacts ==
    ASSUME NEW S \in SUBSET Nat, S # {}
    PROVE  Min(S) \in S /\ \A n \in S : Min(S) <= n
<1>1. PICK x \in S : \A y \in S : ~(<<y, x>> \in OpToRel(<, Nat))
  BY NatLessThanWellFounded, WFMin, Zenon
<1>2. ASSUME NEW y \in S PROVE x <= y
  <2>1. y \in Nat /\ x \in Nat
    OBVIOUS
  <2>2. y < x => <<y, x>> \in OpToRel(<, Nat)
    BY <2>1 DEF OpToRel
  <2>3. ~(y < x)
    BY <1>1, <2>2, Zenon
  <2>. QED
    BY <2>1, <2>3
<1>. QED
  BY <1>2, Zenon DEF Min

LEMMA MaxFacts ==
    ASSUME NEW a \in Nat, NEW b \in Nat
    PROVE  Max({a, b}) = IF a >= b THEN a ELSE b
<1>1. (IF a >= b THEN a ELSE b) \in {a, b} /\ \A y \in {a, b} : (IF a >= b THEN a ELSE b) >= y
  OBVIOUS
<1>2. /\ Max({a, b}) \in {a, b}
      /\ \A y \in {a, b} : Max({a, b}) >= y
  BY <1>1, Zenon DEF Max
<1>. QED
  BY <1>2

-----------------------------------------------------------------------------
(* What the operators on the ledger preserve.                              *)

\* No row goes back, and the panes M has besides those of L have an event n or later.
Advances(L, M, n) ==
    \A p \in DOMAIN M :
        /\ p \in DOMAIN L => AtMost(Row(L[p]), Row(M[p]))
        /\ p \notin DOMAIN L => M[p].latest >= n

\* What expiry does to an entry.
Left(e, a)        == {k \in e.unread : k > a}
ExpiredEntry(e, a) ==
    [e EXCEPT !.unread = Left(e, a),
              !.read = IF @ < e.latest /\ Left(e, a) = {} THEN e.latest ELSE @]

\* An entry that expires stays whole: either its last event stays unread, or none does
\* and it counts as read.
LEMMA ExpiredEntryFacts ==
    ASSUME NEW e, NEW n \in Nat, Whole(e, n), NEW a \in Nat
    PROVE  LET f == ExpiredEntry(e, a) IN
           Whole(f, n) /\ AtMost(Row(e), Row(f)) /\ f.unread = Left(e, a) /\ f.latest = e.latest
<1>. DEFINE left == Left(e, a)
            f    == ExpiredEntry(e, a)
<1>1. e.latest \in Nat /\ e.read \in Nat /\ e.unread \in SUBSET Nat /\ left \in SUBSET Nat
  BY DEF Whole, Entry, Left
<1>2. f.unread = left /\ f.latest = e.latest
      /\ f.read = IF e.read < e.latest /\ left = {} THEN e.latest ELSE e.read
  BY DEF Whole, Entry, ExpiredEntry
<1>3. f \in Entry
  BY <1>1 DEF Whole, Entry, ExpiredEntry
<1>0. left = {k \in e.unread : k > a}
  BY DEF Left
<1>. HIDE DEF left, f
<1>4. f.latest \in 1 .. n /\ f.read <= f.latest /\ e.read <= f.read
  BY <1>1, <1>2 DEF Whole
<1>5. f.unread \subseteq f.read + 1 .. f.latest
  BY <1>0, <1>1, <1>2 DEF Whole
<1>6. ASSUME f.read < f.latest PROVE f.latest \in f.unread
  <2>1. left # {} /\ e.read < e.latest
    BY <1>1, <1>2, <1>6
  <2>2. e.latest \in e.unread
    BY <2>1 DEF Whole
  <2>3. PICK k \in left : TRUE
    BY <2>1
  <2>4. k <= e.latest /\ k > a
    BY <2>3, <1>0, <1>1 DEF Whole
  <2>. QED
    BY <1>0, <1>1, <1>2, <2>2, <2>4
<1>7. IsFiniteSet(left) /\ Cardinality(left) <= UnreadCap
  <2>1. left \in SUBSET e.unread /\ IsFiniteSet(e.unread) /\ Cardinality(e.unread) <= UnreadCap
    BY <1>0 DEF Whole
  <2>2. IsFiniteSet(left) /\ Cardinality(left) <= Cardinality(e.unread)
    BY <2>1, FS_Subset, Zenon
  <2>3. Cardinality(left) \in Nat /\ Cardinality(e.unread) \in Nat /\ UnreadCap \in Nat
    BY <2>1, <2>2, FS_CardinalityType, CapAssumption
  <2>. QED
    BY <2>1, <2>2, <2>3
<1>8. AtMost(Row(e), Row(f))
  BY <1>1, <1>2, <1>4 DEF AtMost, Row
<1>9. Whole(f, n)
  BY <1>2, <1>3, <1>4, <1>5, <1>6, <1>7 DEF Whole
<1>. QED
  BY <1>2, <1>8, <1>9 DEF left, f

LEMMA ExpiredFacts ==
    ASSUME NEW L, NEW n \in Nat, Sound(L, n), aged \in Nat
    PROVE  /\ DOMAIN Expired(L) = DOMAIN L \ stale
           /\ Sound(Expired(L), n)
           /\ \A p \in DOMAIN Expired(L) :
                /\ Expired(L)[p].unread = {k \in L[p].unread : k > aged}
                /\ Expired(L)[p].latest = L[p].latest
                /\ AtMost(Row(L[p]), Row(Expired(L)[p]))
<1>1. DOMAIN Expired(L) = DOMAIN L \ stale
  BY DEF Expired
<1>2. ASSUME NEW p \in DOMAIN L \ stale
      PROVE  /\ Whole(Expired(L)[p], n)
             /\ Expired(L)[p].unread = {k \in L[p].unread : k > aged}
             /\ Expired(L)[p].latest = L[p].latest
             /\ AtMost(Row(L[p]), Row(Expired(L)[p]))
  <2>1. Whole(L[p], n)
    BY <1>2 DEF Sound
  <2>2. Expired(L)[p] = ExpiredEntry(L[p], aged)
    BY <1>2 DEF Expired, ExpiredEntry, Left
  <2>3. Left(L[p], aged) = {k \in L[p].unread : k > aged}
    BY DEF Left
  <2>. QED
    BY <2>1, <2>2, <2>3, ExpiredEntryFacts, Zenon
<1>3. DOMAIN Expired(L) \in SUBSET DOMAIN L /\ IsFiniteSet(DOMAIN L) /\ DOMAIN L \subseteq Panes
  BY <1>1 DEF Sound
<1>4. IsFiniteSet(DOMAIN Expired(L))
  BY <1>3, FS_Subset, Zenon
<1>. QED
  BY <1>1, <1>2, <1>3, <1>4, Zenon DEF Sound

\* The entry an event makes of the one its pane had.
NoEntry == [latest |-> 0, read |-> 0, unread |-> {}]
Had(L, p) == IF p \in DOMAIN L THEN L[p] ELSE NoEntry
RecordedEntry(e) ==
    LET all  == e.unread \cup {nextSeq}
        kept == IF Cardinality(all) > UnreadCap THEN all \ {Min(all)} ELSE all IN
    [latest |-> nextSeq, read |-> e.read, unread |-> kept]

\* What is dropped at UNREAD_CAP is the oldest event, and never the new one.
LEMMA RecordedEntryFacts ==
    ASSUME nextSeq \in Nat \ {0},
           NEW e \in Entry, e.read < nextSeq, e.unread \subseteq e.read + 1 .. nextSeq - 1,
           IsFiniteSet(e.unread), Cardinality(e.unread) <= UnreadCap
    PROVE  LET f == RecordedEntry(e) IN
           /\ Whole(f, nextSeq)
           /\ f.latest = nextSeq
           /\ f.read = e.read
           /\ nextSeq \in f.unread
           /\ f.unread \subseteq e.unread \cup {nextSeq}
           /\ Cardinality(e.unread) < UnreadCap => f.unread = e.unread \cup {nextSeq}
<1>. DEFINE all  == e.unread \cup {nextSeq}
            kept == IF Cardinality(all) > UnreadCap THEN all \ {Min(all)} ELSE all
            f    == RecordedEntry(e)
<1>1. e.read \in Nat /\ e.latest \in Nat /\ e.unread \in SUBSET Nat /\ UnreadCap \in Nat \ {0}
  BY CapAssumption DEF Entry
<1>2. f = [latest |-> nextSeq, read |-> e.read, unread |-> kept]
  BY DEF RecordedEntry
<1>3. all \in SUBSET Nat /\ nextSeq \in all /\ nextSeq \notin e.unread
      /\ \A n \in all : n <= nextSeq /\ e.read < n
  BY <1>1
<1>4. /\ IsFiniteSet(all) /\ Cardinality(all) = Cardinality(e.unread) + 1
      /\ Cardinality(e.unread) \in Nat
  BY <1>3, FS_AddElement, FS_CardinalityType
<1>5. Min(all) \in all /\ \A n \in all : Min(all) <= n
  BY <1>3, MinFacts, Zenon
<1>6. /\ IsFiniteSet(kept) /\ Cardinality(kept) <= UnreadCap
      /\ nextSeq \in kept /\ kept \subseteq all
  <2>1. CASE Cardinality(all) > UnreadCap
    <3>1. IsFiniteSet(all \ {Min(all)}) /\ Cardinality(all \ {Min(all)}) = Cardinality(all) - 1
      BY <1>4, <1>5, FS_RemoveElement, Zenon
    <3>2. Cardinality(e.unread) = UnreadCap
      BY <1>1, <1>4, <2>1
    <3>3. e.unread # {}
      BY <3>2, <1>1, FS_EmptySet
    <3>4. Min(all) # nextSeq
      <4>1. PICK n \in e.unread : TRUE
        BY <3>3
      <4>2. n \in all /\ n < nextSeq
        BY <4>1, <1>1
      <4>. QED
        BY <4>2, <1>3, <1>5
    <3>5. kept = all \ {Min(all)}
      BY <2>1
    <3>. HIDE DEF all, kept
    <3>6. IsFiniteSet(kept) /\ Cardinality(kept) = UnreadCap
      BY <3>1, <3>2, <3>5, <1>1, <1>4
    <3>. QED
      BY <3>4, <3>5, <3>6, <1>1, <1>3
  <2>2. CASE ~(Cardinality(all) > UnreadCap)
    BY <2>2, <1>1, <1>3, <1>4
  <2>. QED
    BY <2>1, <2>2
<1>7. Cardinality(e.unread) < UnreadCap => kept = all
  BY <1>1, <1>4
<1>. HIDE DEF all, kept, f
<1>8. /\ f.latest = nextSeq /\ f.read = e.read /\ f.unread = kept /\ f \in Entry
  BY <1>1, <1>2, <1>3, <1>6 DEF Entry
<1>9. f.unread \subseteq f.read + 1 .. f.latest
  <2>. SUFFICES ASSUME NEW n \in kept PROVE n \in e.read + 1 .. nextSeq
    BY <1>8
  <2>1. n \in Nat /\ n <= nextSeq /\ e.read < n
    BY <1>3, <1>6
  <2>. QED
    BY <2>1, <1>1
<1>10. Whole(f, nextSeq)
  <2>1. f.latest \in 1 .. nextSeq /\ f.read <= f.latest
    BY <1>1, <1>8
  <2>. QED
    BY <2>1, <1>6, <1>8, <1>9 DEF Whole
<1>. QED
  BY <1>6, <1>7, <1>8, <1>10 DEF f, all

LEMMA RecordedFacts ==
    ASSUME nextSeq \in Nat \ {0}, NEW L, Sound(L, nextSeq - 1), NEW p \in Panes
    PROVE  LET R == Recorded(L, p) IN
           /\ DOMAIN R = DOMAIN L \cup {p}
           /\ Sound(R, nextSeq)
           /\ \A q \in DOMAIN L \ {p} : R[q] = L[q]
           /\ R[p] = RecordedEntry(Had(L, p))
           /\ R[p].latest = nextSeq
           /\ nextSeq \in R[p].unread
           /\ p \in DOMAIN L => R[p].read = L[p].read
<1>. DEFINE R == Recorded(L, p)
            e == Had(L, p)
<1>1. DOMAIN R = DOMAIN L \cup {p} /\ \A q \in DOMAIN L \ {p} : R[q] = L[q]
  BY DEF Recorded
<1>2. R[p] = RecordedEntry(e)
  BY DEF Recorded, RecordedEntry, Had, NoEntry
<1>3. /\ e \in Entry /\ e.read < nextSeq /\ e.unread \subseteq e.read + 1 .. nextSeq - 1
      /\ IsFiniteSet(e.unread) /\ Cardinality(e.unread) <= UnreadCap
  <2>1. CASE p \in DOMAIN L
    <3>1. Whole(L[p], nextSeq - 1) /\ e = L[p]
      BY <2>1 DEF Sound, Had
    <3>2. e \in Entry /\ e.latest \in 1 .. nextSeq - 1 /\ e.read <= e.latest
          /\ e.unread \subseteq e.read + 1 .. e.latest
          /\ IsFiniteSet(e.unread) /\ Cardinality(e.unread) <= UnreadCap
      BY <3>1, Zenon DEF Whole
    <3>3. e.read \in Nat
      BY <3>2 DEF Entry
    <3>. HIDE DEF e
    <3>4. e.read < nextSeq /\ e.unread \subseteq e.read + 1 .. nextSeq - 1
      BY <3>2, <3>3
    <3>. QED
      BY <3>2, <3>4
  <2>2. CASE p \notin DOMAIN L
    <3>1. e = NoEntry
      BY <2>2 DEF Had
    <3>2. NoEntry \in Entry /\ NoEntry.read = 0 /\ NoEntry.unread = {}
      BY DEF NoEntry, Entry
    <3>3. UnreadCap \in Nat /\ IsFiniteSet({}) /\ Cardinality({}) = 0
      BY CapAssumption, FS_EmptySet
    <3>. HIDE DEF e
    <3>. QED
      BY <3>1, <3>2, <3>3
  <2>. QED
    BY <2>1, <2>2
<1>. HIDE DEF R, e
<1>4. /\ Whole(R[p], nextSeq) /\ R[p].latest = nextSeq
      /\ R[p].read = e.read /\ nextSeq \in R[p].unread
  BY <1>2, <1>3, RecordedEntryFacts, Zenon
<1>5. ASSUME NEW q \in DOMAIN R PROVE Whole(R[q], nextSeq)
  <2>1. CASE q = p
    BY <2>1, <1>4
  <2>2. CASE q # p
    <3>1. q \in DOMAIN L /\ R[q] = L[q] /\ Whole(L[q], nextSeq - 1)
      BY <2>2, <1>1 DEF Sound
    <3>2. Whole(L[q], nextSeq)
      BY <3>1 DEF Whole
    <3>. QED
      BY <3>1, <3>2
  <2>. QED
    BY <2>1, <2>2
<1>6. DOMAIN R \subseteq Panes /\ IsFiniteSet(DOMAIN R)
  BY <1>1, FS_AddElement DEF Sound
<1>7. p \in DOMAIN L => R[p].read = L[p].read
  BY <1>4 DEF e, Had
<1>. QED
  BY <1>1, <1>2, <1>4, <1>5, <1>6, <1>7 DEF Sound, R, e

\* The pane of a new event is never the one that is given up at the identity cap: if
\* there is one too many it is the pane itself that is new, and its event is the latest.
LEMMA CappedFacts ==
    ASSUME nextSeq \in Nat \ {0}, NEW K, Sound(K, nextSeq - 1), NEW p \in Panes,
           Cardinality(DOMAIN K) <= IdentityCap,
           NEW L \in Capped(Recorded(K, p))
    PROVE  /\ DOMAIN L \subseteq DOMAIN K \cup {p}
           /\ Cardinality(DOMAIN L) <= IdentityCap
           /\ Sound(L, nextSeq)
           /\ p \in DOMAIN L
           /\ \A q \in DOMAIN L : L[q] = Recorded(K, p)[q]
<1>. DEFINE R == Recorded(K, p)
<1>1. /\ DOMAIN R = DOMAIN K \cup {p} /\ Sound(R, nextSeq)
      /\ \A q \in DOMAIN K \ {p} : R[q] = K[q]
      /\ R[p] = RecordedEntry(Had(K, p)) /\ nextSeq \in R[p].unread
  BY RecordedFacts, Zenon
<1>2. /\ IdentityCap \in Nat \ {0} /\ UnreadCap \in Nat \ {0}
      /\ IsFiniteSet(DOMAIN K) /\ Cardinality(DOMAIN K) \in Nat
  BY CapAssumption, FS_CardinalityType DEF Sound
<1>3. /\ IsFiniteSet(DOMAIN R)
      /\ Cardinality(DOMAIN R) = IF p \in DOMAIN K THEN Cardinality(DOMAIN K)
                                 ELSE Cardinality(DOMAIN K) + 1
  BY <1>1, <1>2, FS_AddElement
<1>4. CASE Cardinality(DOMAIN R) <= IdentityCap
  <2>1. L = R
    BY <1>4 DEF Capped
  <2>. HIDE DEF R
  <2>. QED
    BY <2>1, <1>1, <1>4 DEF R
<1>5. CASE ~(Cardinality(DOMAIN R) <= IdentityCap)
  <2>1. PICK v \in Victims(R) : L = Without(R, {v})
    BY <1>5 DEF Capped
  <2>2. p \notin DOMAIN K /\ Cardinality(DOMAIN R) = IdentityCap + 1
    BY <1>2, <1>3, <1>5
  <2>. HIDE DEF R
  <2>3. R[p].unread # {}
    BY <1>1
  <2>4. v \in DOMAIN R
    BY <2>1 DEF Victims
  <2>5. v # p
    <3>1. CASE {q \in DOMAIN R : R[q].unread = {}} # {}
      BY <3>1, <2>1, <2>3 DEF Victims
    <3>2. CASE {q \in DOMAIN R : R[q].unread = {}} = {}
      <4>. SUFFICES ASSUME v = p PROVE FALSE
        OBVIOUS
      <4>1. PICK q \in DOMAIN K : TRUE
        <5>1. DOMAIN K # {}
          BY <1>2, <1>3, <2>2, FS_EmptySet
        <5>. QED
          BY <5>1
      <4>2. q # p /\ q \in DOMAIN R /\ R[q] = K[q] /\ Whole(K[q], nextSeq - 1)
        BY <4>1, <2>2, <1>1 DEF Sound
      <4>3. Min(R[p].unread) <= Min(R[q].unread)
        BY <4>2, <3>2, <2>1 DEF Victims
      <4>4. Min(R[q].unread) < nextSeq
        <5>1. R[q].unread # {} /\ R[q].unread \in SUBSET Nat
          BY <3>2, <4>2 DEF Whole, Entry
        <5>2. Min(R[q].unread) \in R[q].unread
          BY <5>1, MinFacts, Zenon
        <5>3. \A n \in R[q].unread : n < nextSeq
          <6>1. /\ K[q].unread \subseteq K[q].read + 1 .. K[q].latest
                /\ K[q].latest \in 1 .. nextSeq - 1 /\ K[q].read \in Nat
            BY <4>2 DEF Whole, Entry
          <6>. QED
            BY <6>1, <4>2
        <5>. QED
          BY <5>2, <5>3
      <4>5. R[p].unread = {nextSeq}
        <5>1. Had(K, p) = NoEntry
          BY <2>2 DEF Had
        <5>2. NoEntry \in Entry /\ NoEntry.read = 0 /\ NoEntry.unread = {}
          BY DEF NoEntry, Entry
        <5>3. IsFiniteSet({}) /\ Cardinality({}) = 0
          BY FS_EmptySet
        <5>4. 0 < nextSeq /\ 0 < UnreadCap /\ 0 <= UnreadCap
          BY <1>2
        <5>5. {} \subseteq 0 + 1 .. nextSeq - 1
          OBVIOUS
        <5>6. RecordedEntry(NoEntry).unread = {} \cup {nextSeq}
          BY <5>2, <5>3, <5>4, <5>5, RecordedEntryFacts, Zenon
        <5>. QED
          BY <5>1, <5>6, <1>1
      <4>6. Min(R[p].unread) = nextSeq
        <5>1. {nextSeq} \in SUBSET Nat /\ {nextSeq} # {}
          OBVIOUS
        <5>2. Min({nextSeq}) \in {nextSeq}
          BY <5>1, MinFacts, Zenon
        <5>. QED
          BY <5>2, <4>5
      <4>7. Min(R[q].unread) \in Nat
        <5>1. R[q].unread # {} /\ R[q].unread \in SUBSET Nat
          BY <3>2, <4>2 DEF Whole, Entry
        <5>. QED
          BY <5>1, MinFacts
      <4>. QED
        BY <4>3, <4>4, <4>6, <4>7
    <3>. QED
      BY <3>1, <3>2
  <2>6. DOMAIN L = DOMAIN R \ {v} /\ \A q \in DOMAIN L : L[q] = R[q]
    BY <2>1 DEF Without, Restrict
  <2>7. IsFiniteSet(DOMAIN L) /\ Cardinality(DOMAIN L) = IdentityCap
    <3>1. Cardinality(DOMAIN R \ {v}) = Cardinality(DOMAIN R) - 1 /\ IsFiniteSet(DOMAIN R \ {v})
      BY <1>3, <2>4, FS_RemoveElement, Zenon
    <3>. QED
      BY <3>1, <2>2, <2>6, <1>2
  <2>8. Sound(L, nextSeq)
    BY <2>6, <2>7, <1>1 DEF Sound
  <2>9. p \in DOMAIN L /\ DOMAIN L \subseteq DOMAIN K \cup {p}
    BY <2>5, <2>6, <1>1
  <2>. QED
    BY <2>6, <2>7, <2>8, <2>9, <1>2 DEF R
<1>. QED
  BY <1>4, <1>5

\* What mark_read leaves of an entry.
MarkedEntry(e, through) ==
    LET mark == Max({e.read, through})
        left == {k \in e.unread : k > mark} IN
    [latest |-> e.latest,
     read   |-> IF left = {} /\ e.unread # {} THEN e.latest ELSE mark,
     unread |-> left]

LEMMA MarkedEntryFacts ==
    ASSUME NEW e, NEW n \in Nat, Whole(e, n), NEW through \in Nat, through <= e.latest
    PROVE  LET f == MarkedEntry(e, through) IN
           /\ Whole(f, n)
           /\ AtMost(Row(e), Row(f))
           /\ \A k \in e.unread \ f.unread : k <= through
<1>. DEFINE mark == Max({e.read, through})
            left == {k \in e.unread : k > mark}
            f    == MarkedEntry(e, through)
<1>1. /\ e.latest \in Nat /\ e.read \in Nat /\ e.unread \in SUBSET Nat
      /\ e.latest \in 1 .. n /\ e.read <= e.latest
      /\ \A k \in e.unread : e.read < k /\ k <= e.latest
  BY DEF Whole, Entry
<1>2. mark = IF e.read >= through THEN e.read ELSE through
  BY <1>1, MaxFacts, Zenon
<1>. HIDE DEF mark
<1>3. mark \in Nat /\ e.read <= mark /\ mark <= e.latest /\ through <= mark
  BY <1>1, <1>2
<1>4. f = [latest |-> e.latest, read |-> IF left = {} /\ e.unread # {} THEN e.latest ELSE mark,
           unread |-> left]
  BY DEF MarkedEntry, mark
<1>5. IsFiniteSet(left) /\ Cardinality(left) <= UnreadCap
  <2>1. left \in SUBSET e.unread /\ IsFiniteSet(e.unread) /\ Cardinality(e.unread) <= UnreadCap
    BY DEF Whole
  <2>. HIDE DEF left
  <2>2. IsFiniteSet(left) /\ Cardinality(left) <= Cardinality(e.unread)
    BY <2>1, FS_Subset, Zenon
  <2>3. Cardinality(left) \in Nat /\ Cardinality(e.unread) \in Nat /\ UnreadCap \in Nat
    BY <2>1, <2>2, FS_CardinalityType, CapAssumption
  <2>. QED
    BY <2>1, <2>2, <2>3
<1>6. left = {k \in e.unread : k > mark} /\ left \in SUBSET Nat
  BY <1>1
<1>. HIDE DEF left, f
<1>7. /\ f.latest = e.latest /\ f.unread = left /\ f \in Entry
      /\ f.read = IF left = {} /\ e.unread # {} THEN e.latest ELSE mark
  BY <1>1, <1>3, <1>4, <1>6 DEF Entry
<1>8. f.latest \in 1 .. n /\ f.read <= f.latest /\ e.read <= f.read
  BY <1>1, <1>3, <1>7
<1>9. f.unread \subseteq f.read + 1 .. f.latest
  <2>. SUFFICES ASSUME NEW k \in left PROVE k \in f.read + 1 .. e.latest
    BY <1>7
  <2>1. k \in Nat /\ k > mark /\ k <= e.latest /\ f.read = mark
    BY <1>1, <1>6, <1>7
  <2>. QED
    BY <2>1, <1>1, <1>3
<1>10. f.read < f.latest => f.latest \in f.unread
  <2>. SUFFICES ASSUME f.read < e.latest PROVE e.latest \in left
    BY <1>7
  <2>1. f.read = mark /\ (left # {} \/ e.unread = {})
    BY <1>1, <1>7
  <2>2. e.latest \in e.unread
    <3>1. e.read < e.latest
      BY <1>1, <1>3, <2>1
    <3>. QED
      BY <3>1 DEF Whole
  <2>. QED
    BY <1>1, <1>3, <1>6, <2>1, <2>2
<1>11. Whole(f, n)
  BY <1>5, <1>7, <1>8, <1>9, <1>10 DEF Whole
<1>12. AtMost(Row(e), Row(f))
  BY <1>1, <1>7, <1>8 DEF AtMost, Row
<1>13. \A k \in e.unread \ f.unread : k <= through
  <2>. SUFFICES ASSUME NEW k \in e.unread, k \notin left PROVE k <= through
    BY <1>7
  <2>1. k \in Nat /\ e.read < k /\ k <= mark
    BY <1>1, <1>3, <1>6
  <2>. QED
    BY <2>1, <1>1, <1>2
<1>. QED
  BY <1>11, <1>12, <1>13 DEF f

LEMMA MarkedFacts ==
    ASSUME NEW L, NEW n \in Nat, Sound(L, n), NEW p \in DOMAIN L,
           NEW through \in Nat, through <= L[p].latest
    PROVE  LET M == Marked(L, p, through) IN
           /\ DOMAIN M = DOMAIN L
           /\ Sound(M, n)
           /\ \A q \in DOMAIN L : AtMost(Row(L[q]), Row(M[q]))
           /\ \A q \in DOMAIN L : \A k \in L[q].unread \ M[q].unread : q = p /\ k <= through
<1>. DEFINE M == Marked(L, p, through)
<1>1. /\ DOMAIN M = DOMAIN L
      /\ M[p] = MarkedEntry(L[p], through)
      /\ \A q \in DOMAIN L \ {p} : M[q] = L[q]
  BY DEF Marked, MarkedEntry
<1>. HIDE DEF M
<1>2. ASSUME NEW q \in DOMAIN L
      PROVE  /\ Whole(M[q], n) /\ AtMost(Row(L[q]), Row(M[q]))
             /\ \A k \in L[q].unread \ M[q].unread : q = p /\ k <= through
  <2>1. Whole(L[q], n)
    BY DEF Sound
  <2>2. CASE q = p
    <3>1. Whole(L[p], n)
      BY DEF Sound
    <3>2. LET f == MarkedEntry(L[p], through) IN
          /\ Whole(f, n) /\ AtMost(Row(L[p]), Row(f))
          /\ \A k \in L[p].unread \ f.unread : k <= through
      BY <3>1, MarkedEntryFacts, Zenon
    <3>. QED
      BY <2>2, <3>2, <1>1
  <2>3. CASE q # p
    <3>1. M[q] = L[q]
      BY <1>1, <2>3
    <3>2. AtMost(Row(L[q]), Row(L[q]))
      BY <2>1 DEF AtMost, Row, Whole, Entry
    <3>. QED
      BY <2>1, <3>1, <3>2
  <2>. QED
    BY <2>2, <2>3
<1>. QED
  BY <1>1, <1>2 DEF Sound, M

-----------------------------------------------------------------------------
(* Rows and the messages that carry them.                                  *)

LEMMA AtMostTransitive ==
    ASSUME NEW a \in PaneRow, NEW b \in PaneRow, NEW c \in PaneRow, AtMost(a, b), AtMost(b, c)
    PROVE  AtMost(a, c)
BY DEF AtMost, PaneRow

LEMMA SoundRow ==
    ASSUME NEW L, NEW n \in Nat, Sound(L, n), NEW p \in DOMAIN L
    PROVE  /\ Row(L[p]) \in PaneRow /\ Row(L[p]).latest = L[p].latest
           /\ L[p].latest \in 1 .. n /\ AtMost(Row(L[p]), Row(L[p]))
<1>1. Whole(L[p], n)
  BY DEF Sound
<1>. QED
  BY <1>1 DEF Whole, Entry, Row, PaneRow, AtMost

LEMMA RowsOfNews ==
    ASSUME NEW m \in News
    PROVE  /\ m.epoch \in Nat /\ m.revision \in Nat /\ m.rows \in Changes
           /\ m.type \in {"snapshot", "delta"}
           /\ m.type = "snapshot" => m.rows \in Rows
<1>1. Rows \subseteq Changes
  BY DEF Rows, Changes
<1>. QED
  BY <1>1 DEF News

LEMMA PresentRows ==
    ASSUME NEW rows \in Changes
    PROVE  /\ DOMAIN rows \subseteq Panes
           /\ \A p \in Present(rows) : p \in DOMAIN rows /\ rows[p] \in PaneRow
BY DEF Changes, Present

LEMMA PlainRows ==
    ASSUME NEW rows \in Rows
    PROVE  /\ rows \in Changes /\ DOMAIN rows \subseteq Panes /\ Present(rows) = DOMAIN rows
           /\ rows = [p \in DOMAIN rows |-> rows[p]]
           /\ \A p \in DOMAIN rows : rows[p] \in PaneRow
BY NoneAssumption DEF Rows, Changes, Present

LEMMA NoneIsNoNews == None \notin News
BY NoneAssumption

LEMMA AnswerIsNoNews == Answer \cap News = {}
BY DEF Answer, News

LEMMA DeltaFacts ==
    ASSUME LedgerInv, NEW n \in Nat, NEW L, Sound(L, n)
    PROVE  /\ Delta(L) \in News
           /\ Delta(L).type = "delta" /\ Delta(L).epoch = epoch
           /\ Delta(L).revision = revision + 1
           /\ Present(Delta(L).rows) = Changed(L) \cap DOMAIN L
           /\ \A p \in Changed(L) \cap DOMAIN L : Delta(L).rows[p] = Row(L[p])
<1>. DEFINE rows == [p \in Changed(L) |-> IF p \in DOMAIN L THEN Row(L[p]) ELSE None]
<1>1. Delta(L) = [type |-> "delta", epoch |-> epoch, revision |-> revision + 1, rows |-> rows]
  BY DEF Delta
<1>2. \A p \in DOMAIN L : Row(L[p]) \in PaneRow
  BY SoundRow
<1>3. Changed(L) \in SUBSET Panes
  BY DEF Changed, Sound, LedgerInv
<1>4. rows \in [Changed(L) -> PaneRow \cup {None}]
  BY <1>2
<1>5. rows \in Changes
  BY <1>3, <1>4, Zenon DEF Changes
<1>6. Present(rows) = Changed(L) \cap DOMAIN L
      /\ \A p \in Changed(L) \cap DOMAIN L : rows[p] = Row(L[p])
  BY <1>2, NoneAssumption DEF Present
<1>. HIDE DEF rows
<1>7. Delta(L) \in News
  BY <1>1, <1>5 DEF News, LedgerInv
<1>. QED
  BY <1>1, <1>6, <1>7

LEMMA SnapshotFacts ==
    ASSUME LedgerInv
    PROVE  /\ Snapshot \in News
           /\ Snapshot.epoch = epoch /\ Snapshot.revision = revision
           /\ Present(Snapshot.rows) = DOMAIN ledger
           /\ \A p \in DOMAIN ledger : Snapshot.rows[p] = Row(ledger[p])
<1>. DEFINE rows == [p \in DOMAIN ledger |-> Row(ledger[p])]
<1>1. Snapshot = [type |-> "snapshot", epoch |-> epoch, revision |-> revision, rows |-> rows]
  BY DEF Snapshot
<1>2. \A p \in DOMAIN ledger : Row(ledger[p]) \in PaneRow
  <2>1. nextSeq - 1 \in Nat /\ Sound(ledger, nextSeq - 1)
    BY DEF LedgerInv
  <2>. QED
    BY <2>1, SoundRow
<1>3. DOMAIN ledger \in SUBSET Panes
  BY DEF Sound, LedgerInv
<1>4. rows \in [DOMAIN ledger -> PaneRow]
  BY <1>2
<1>5. rows \in Rows
  BY <1>3, <1>4, Zenon DEF Rows
<1>6. Present(rows) = DOMAIN ledger /\ \A p \in DOMAIN ledger : rows[p] = Row(ledger[p])
  BY <1>2, NoneAssumption DEF Present
<1>. HIDE DEF rows
<1>7. Snapshot \in News
  BY <1>1, <1>5 DEF News, LedgerInv
<1>. QED
  BY <1>1, <1>6, <1>7

-----------------------------------------------------------------------------
(* Messages on their way.                                                  *)

LEMMA RangeFacts ==
    ASSUME NEW S, NEW q \in Seq(S)
    PROVE  /\ \A m \in S : /\ Append(q, m) \in Seq(S) /\ q \o <<m>> \in Seq(S)
                           /\ Range(Append(q, m)) \subseteq Range(q) \cup {m}
                           /\ Range(q \o <<m>>) \subseteq Range(q) \cup {m}
           /\ q \o <<>> = q
           /\ q # <<>> => /\ Tail(q) \in Seq(S) /\ Range(Tail(q)) \subseteq Range(q)
                          /\ Head(q) \in Range(q) /\ Head(q) \in S
           /\ <<>> \in Seq(S) /\ Range(<<>>) = {}
<1>1. ASSUME NEW m \in S
      PROVE  /\ Append(q, m) \in Seq(S) /\ q \o <<m>> \in Seq(S)
             /\ Range(Append(q, m)) \subseteq Range(q) \cup {m}
             /\ Range(q \o <<m>>) \subseteq Range(q) \cup {m}
  <2>1. Append(q, m) \in Seq(S) /\ q \o <<m>> \in Seq(S)
    OBVIOUS
  <2>2. \A i \in DOMAIN Append(q, m) : Append(q, m)[i] = m \/ (i \in DOMAIN q /\ Append(q, m)[i] = q[i])
    OBVIOUS
  <2>3. \A i \in DOMAIN (q \o <<m>>) :
          (q \o <<m>>)[i] = m \/ (i \in DOMAIN q /\ (q \o <<m>>)[i] = q[i])
    OBVIOUS
  <2>. QED
    BY <2>1, <2>2, <2>3 DEF Range
<1>2. ASSUME q # <<>>
      PROVE  /\ Tail(q) \in Seq(S) /\ Range(Tail(q)) \subseteq Range(q)
             /\ Head(q) \in Range(q) /\ Head(q) \in S
  <2>1. Tail(q) \in Seq(S) /\ Head(q) \in S
    BY <1>2
  <2>2. 1 \in DOMAIN q /\ Head(q) = q[1]
    BY <1>2
  <2>3. \A i \in DOMAIN Tail(q) : i + 1 \in DOMAIN q /\ Tail(q)[i] = q[i + 1]
    BY <1>2
  <2>. QED
    BY <2>1, <2>2, <2>3 DEF Range
<1>3. q \o <<>> = q /\ <<>> \in Seq(S)
  OBVIOUS
<1>4. Range(<<>>) = {}
  BY DEF Range
<1>. QED
  BY <1>1, <1>2, <1>3, <1>4

\* If a step adds only X to what is held and queued, it adds the news of X.
LEMMA Flow ==
    ASSUME NEW X,
           \A c \in Clients : \A m \in Range(queue'[c]) : Travels(m) \/ m \in X,
           \A m \in Range(held') : Travels(m) \/ m \in X,
           \A m \in Range(outbox') : Travels(m) \/ m \in X
    PROVE  \A m \in UnderWay' : m \in UnderWay \/ m \in X \cap News
BY DEF UnderWay, Travels

LEMMA Carried ==
    /\ \A c \in Clients : \A m \in Range(queue[c]) : Travels(m)
    /\ \A m \in Range(held) : Travels(m)
    /\ \A m \in Range(outbox) : Travels(m)
BY DEF Travels

\* One cell of a function changed.
LEMMA RangeExcept ==
    ASSUME NEW f, NEW x, NEW y
    PROVE  Range([f EXCEPT ![x] = y]) \subseteq Range(f) \cup {y}
BY DEF Range

-----------------------------------------------------------------------------
(* Steps that leave the copies alone.                                      *)

\* Rows that are no more than the ledger are no more than one that advances.
LEMMA WithinMoves ==
    ASSUME LedgerInv, NEW rows \in Changes, Within(rows, ledger, nextSeq),
           NEW n \in Nat, nextSeq <= n, NEW L, Sound(L, n - 1), n - 1 \in Nat,
           Advances(ledger, L, nextSeq)
    PROVE  Within(rows, L, n)
<1>. SUFFICES ASSUME NEW p \in Present(rows)
              PROVE  rows[p].latest < n /\ (p \in DOMAIN L => AtMost(rows[p], Row(L[p])))
  BY DEF Within
<1>1. /\ rows[p].latest < nextSeq /\ rows[p] \in PaneRow /\ rows[p].latest \in Nat
      /\ p \in DOMAIN ledger => AtMost(rows[p], Row(ledger[p]))
  BY PresentRows DEF Within, PaneRow
<1>2. nextSeq \in Nat /\ nextSeq - 1 \in Nat /\ Sound(ledger, nextSeq - 1)
  BY DEF LedgerInv
<1>3. CASE p \in DOMAIN L /\ p \in DOMAIN ledger
  <2>1. /\ AtMost(rows[p], Row(ledger[p])) /\ AtMost(Row(ledger[p]), Row(L[p]))
        /\ Row(ledger[p]) \in PaneRow /\ Row(L[p]) \in PaneRow
    BY <1>1, <1>2, <1>3, SoundRow DEF Advances
  <2>. QED
    BY <1>1, <1>2, <2>1, AtMostTransitive
<1>4. CASE p \in DOMAIN L /\ p \notin DOMAIN ledger
  <2>1. L[p].latest >= nextSeq /\ Row(L[p]).latest = L[p].latest /\ L[p].latest \in Nat
    BY <1>4, SoundRow DEF Advances
  <2>. QED
    BY <1>1, <1>2, <2>1 DEF AtMost
<1>5. CASE p \notin DOMAIN L
  BY <1>1, <1>2, <1>5
<1>. QED
  BY <1>3, <1>4, <1>5

\* A critical section of the ledger that leaves L, and sends its delta if it sends
\* anything.  The delta has the highest revision and the latest rows, and the rows of
\* this revision are those of the ledger again.
LEMMA Committing ==
    ASSUME IInv, NEW L, Commit(L), Advances(ledger, L, nextSeq),
           nextSeq' \in {nextSeq, nextSeq + 1}, nextSeq' <= MaxSeq + 1,
           Sound(L, nextSeq' - 1), Cardinality(DOMAIN L) <= IdentityCap,
           \A k \in DOMAIN dedup' : dedup'[k] \in Answer,
           UNCHANGED <<epoch, aged, seen, store>>,
           \A m \in UnderWay' : m \in UnderWay \/ (Changed(L) # {} /\ m = Delta(L))
    PROVE  LedgerInv' /\ NewsInv' /\ StoreInv'
<1>. DEFINE D == Delta(L)
<1>. USE DEF IInv
<1>1. /\ ledger' = L /\ stale' = {} /\ epoch' = epoch /\ aged' = aged /\ seen' = seen
      /\ store' = store
      /\ revision' = IF Changed(L) = {} THEN revision ELSE revision + 1
  BY DEF Commit
<1>2. /\ nextSeq \in Nat \ {0} /\ nextSeq' \in Nat \ {0} /\ nextSeq <= nextSeq'
      /\ nextSeq' - 1 \in Nat /\ nextSeq - 1 \in Nat /\ revision \in Nat /\ MaxSeq \in Nat
  <2>1. MaxSeq \in Nat
    BY CapAssumption
  <2>2. nextSeq \in Nat \ {0} /\ revision \in Nat
    BY <2>1 DEF LedgerInv
  <2>3. nextSeq' = nextSeq \/ nextSeq' = nextSeq + 1
    OBVIOUS
  <2>4. nextSeq' \in Nat \ {0} /\ nextSeq <= nextSeq' /\ nextSeq' - 1 \in Nat
    <3>1. CASE nextSeq' = nextSeq
      BY <2>2, <3>1
    <3>2. CASE nextSeq' = nextSeq + 1
      BY <2>2, <3>2
    <3>. QED
      BY <2>3, <3>1, <3>2
  <2>5. nextSeq - 1 \in Nat
    BY <2>2
  <2>. QED
    BY <2>1, <2>2, <2>4, <2>5
<1>3. LedgerInv'
  <2>1. aged < nextSeq' /\ nextSeq' \in 1 .. MaxSeq + 1 /\ revision' \in Nat
    BY <1>1, <1>2 DEF LedgerInv
  <2>. QED
    BY <1>1, <2>1 DEF LedgerInv
<1>4. \A rows \in Changes : Within(rows, ledger, nextSeq) => Within(rows, L, nextSeq')
  BY <1>2, WithinMoves
<1>5. /\ D \in News /\ D.epoch = epoch /\ D.revision = revision + 1
      /\ Present(D.rows) = Changed(L) \cap DOMAIN L
      /\ \A p \in Changed(L) \cap DOMAIN L : D.rows[p] = Row(L[p])
  BY <1>2, DeltaFacts
<1>. HIDE DEF D
<1>6. \A rows \in Changes : Within(rows, ledger, nextSeq) => Precede(rows, D.rows)
  BY <1>4, <1>5 DEF Within, Precede
<1>7. Within(D.rows, L, nextSeq') /\ SameAs(D.rows, L) /\ Precede(D.rows, D.rows)
  <2>. SUFFICES ASSUME NEW p \in Changed(L) \cap DOMAIN L
                PROVE  /\ Row(L[p]).latest < nextSeq'
                       /\ AtMost(Row(L[p]), Row(L[p]))
    BY <1>5 DEF Within, SameAs, Precede
  <2>. QED
    BY <1>2, SoundRow
<1>8. ASSUME NEW m \in UnderWay
      PROVE  /\ m \in News /\ m.rows \in Changes /\ m.revision \in Nat
             /\ m.epoch = epoch /\ m.revision <= revision
             /\ Within(m.rows, ledger, nextSeq)
             /\ m.revision = revision => SameAs(m.rows, ledger)
  BY RowsOfNews DEF UnderWay, NewsInv
<1>9. \A m \in UnderWay' : m \in UnderWay \/ (Changed(L) # {} /\ m = D)
  BY DEF D
<1>10. ASSUME NEW m \in UnderWay'
       PROVE  /\ m.epoch = epoch' /\ m.revision <= revision'
              /\ Within(m.rows, L, nextSeq')
              /\ m.revision = revision' => SameAs(m.rows, L)
  <2>1. CASE m \in UnderWay
    <3>1. m.epoch = epoch' /\ m.revision <= revision' /\ Within(m.rows, L, nextSeq')
      BY <1>1, <1>2, <1>4, <1>8, <2>1
    <3>2. ASSUME m.revision = revision' PROVE SameAs(m.rows, L)
      <4>1. Changed(L) = {} /\ SameAs(m.rows, ledger)
        BY <1>1, <1>2, <1>8, <2>1, <3>2
      <4>2. \A p \in DOMAIN ledger : p \in DOMAIN L /\ L[p] = ledger[p]
        BY <4>1 DEF Changed
      <4>. QED
        BY <4>1, <4>2 DEF SameAs
    <3>. QED
      BY <3>1, <3>2
  <2>2. CASE Changed(L) # {} /\ m = D
    BY <1>1, <1>2, <1>5, <1>7, <2>2
  <2>. QED
    BY <1>9, <2>1, <2>2
<1>11. ASSUME NEW m \in UnderWay', NEW w \in UnderWay', m.revision <= w.revision
       PROVE  Precede(m.rows, w.rows)
  <2>1. CASE m \in UnderWay /\ w \in UnderWay
    BY <1>11, <2>1 DEF NewsInv
  <2>2. CASE m \in UnderWay /\ w = D
    BY <1>6, <1>8, <2>2
  <2>3. CASE m = D /\ w \in UnderWay
    <3>1. revision + 1 <= w.revision /\ w.revision <= revision /\ w.revision \in Nat
      BY <1>5, <1>8, <1>11, <2>3
    <3>. QED
      BY <3>1, <1>2
  <2>4. CASE m = D /\ w = D
    BY <1>7, <2>4
  <2>. QED
    BY <1>9, <2>1, <2>2, <2>3, <2>4
<1>12. NewsInv'
  BY <1>1, <1>10, <1>11 DEF NewsInv
<1>13. StoreInv'
  <2>1. ASSUME NEW c \in Clients, store[c].epoch = epoch PROVE Current(store[c])'
    <3>1. Current(store[c]) /\ store[c].rows \in Changes
      BY <2>1, PlainRows DEF StoreInv, Copy
    <3>2. Within(store[c].rows, L, nextSeq')
      BY <1>4, <3>1 DEF Current
    <3>3. \A m \in UnderWay' : store[c].revision <= m.revision => Precede(store[c].rows, m.rows)
      BY <1>6, <1>9, <3>1 DEF Current
    <3>. QED
      BY <1>1, <3>1, <3>2, <3>3 DEF Current
  <2>. QED
    BY <1>1, <2>1 DEF StoreInv
<1>. QED
  BY <1>3, <1>12, <1>13

\* Steps that change neither the ledger nor the copies, and send nothing new or a
\* snapshot of this moment.
LEMMA Passing ==
    ASSUME IInv, UNCHANGED <<epoch, revision, nextSeq, ledger, seen, store>>,
           \A m \in UnderWay' : m \in UnderWay \/ m = Snapshot
    PROVE  NewsInv' /\ StoreInv'
<1>. DEFINE S == Snapshot
<1>. USE DEF IInv
<1>1. /\ S \in News /\ S.epoch = epoch /\ S.revision = revision
      /\ Present(S.rows) = DOMAIN ledger
      /\ \A p \in DOMAIN ledger : S.rows[p] = Row(ledger[p])
  BY SnapshotFacts
<1>. HIDE DEF S
<1>2. nextSeq \in Nat \ {0} /\ nextSeq - 1 \in Nat /\ revision \in Nat /\ Sound(ledger, nextSeq - 1)
  BY DEF LedgerInv
<1>3. Within(S.rows, ledger, nextSeq) /\ SameAs(S.rows, ledger) /\ Precede(S.rows, S.rows)
  <2>. SUFFICES ASSUME NEW p \in DOMAIN ledger
                PROVE  /\ Row(ledger[p]).latest < nextSeq
                       /\ AtMost(Row(ledger[p]), Row(ledger[p]))
    BY <1>1 DEF Within, SameAs, Precede
  <2>. QED
    BY <1>2, SoundRow
<1>4. \A rows : Within(rows, ledger, nextSeq) => Precede(rows, S.rows)
  BY <1>1 DEF Within, Precede
<1>5. \A m \in UnderWay' : m \in UnderWay \/ m = S
  BY DEF S
<1>6. \A m \in UnderWay : /\ m.revision \in Nat /\ m.epoch = epoch /\ m.revision <= revision
                          /\ Within(m.rows, ledger, nextSeq)
                          /\ m.revision = revision => SameAs(m.rows, ledger)
  BY RowsOfNews DEF UnderWay, NewsInv
<1>7. ASSUME NEW m \in UnderWay', NEW w \in UnderWay', m.revision <= w.revision
      PROVE  Precede(m.rows, w.rows)
  <2>1. CASE m \in UnderWay /\ w \in UnderWay
    BY <1>7, <2>1 DEF NewsInv
  <2>2. CASE m \in UnderWay /\ w = S
    BY <1>4, <1>6, <2>2
  <2>3. CASE m = S /\ w \in UnderWay
    <3>1. SameAs(w.rows, ledger)
      BY <1>1, <1>2, <1>6, <1>7, <2>3
    <3>2. \A p \in Present(S.rows) \cap Present(w.rows) : S.rows[p] = w.rows[p]
      BY <1>1, <3>1 DEF SameAs
    <3>3. \A p \in DOMAIN ledger : AtMost(Row(ledger[p]), Row(ledger[p]))
      BY <1>2, SoundRow
    <3>. QED
      BY <1>1, <2>3, <3>2, <3>3 DEF Precede
  <2>4. CASE m = S /\ w = S
    BY <1>3, <2>4
  <2>. QED
    BY <1>5, <2>1, <2>2, <2>3, <2>4
<1>8. ASSUME NEW m \in UnderWay'
      PROVE  /\ m.epoch = epoch /\ m.revision <= revision /\ Within(m.rows, ledger, nextSeq)
             /\ m.revision = revision => SameAs(m.rows, ledger)
  BY <1>1, <1>2, <1>3, <1>5, <1>6
<1>9. NewsInv'
  BY <1>7, <1>8 DEF NewsInv
<1>10. StoreInv'
  <2>1. ASSUME NEW c \in Clients, store[c].epoch = epoch PROVE Current(store[c])'
    <3>1. Current(store[c])
      BY <2>1 DEF StoreInv
    <3>2. \A m \in UnderWay' : store[c].revision <= m.revision => Precede(store[c].rows, m.rows)
      BY <1>4, <1>5, <3>1 DEF Current
    <3>. QED
      BY <3>1, <3>2 DEF Current
  <2>. QED
    BY <2>1 DEF StoreInv
<1>. QED
  BY <1>9, <1>10

-----------------------------------------------------------------------------
(* The server's threads.                                                   *)

LEMMA Numbers ==
    ASSUME LedgerInv
    PROVE  /\ nextSeq \in Nat \ {0} /\ nextSeq - 1 \in Nat /\ revision \in Nat /\ aged \in Nat
           /\ (nextSeq + 1) - 1 = nextSeq /\ epoch \in Nat \ {0}
<1>1. MaxSeq \in Nat /\ MaxEpoch \in Nat
  BY CapAssumption
<1>. QED
  BY <1>1 DEF LedgerInv

LEMMA AskFrame ==
    ASSUME AskInv, UNCHANGED <<epoch, overlays, pending, requests, wire, seen>>
    PROVE  AskInv'
BY DEF AskInv, Honest

\* What the ledger is once expired events are gone.
LEMMA Expiring ==
    ASSUME LedgerInv
    PROVE  LET K == Expired(ledger) IN
           /\ DOMAIN K \subseteq DOMAIN ledger
           /\ Sound(K, nextSeq - 1) /\ Cardinality(DOMAIN K) <= IdentityCap
           /\ \A p \in DOMAIN K : /\ AtMost(Row(ledger[p]), Row(K[p]))
                                  /\ K[p].unread = {k \in ledger[p].unread : k > aged}
                                  /\ K[p].latest = ledger[p].latest
<1>. DEFINE K == Expired(ledger)
<1>1. /\ DOMAIN K = DOMAIN ledger \ stale /\ Sound(K, nextSeq - 1)
      /\ \A p \in DOMAIN K : /\ K[p].unread = {k \in ledger[p].unread : k > aged}
                             /\ K[p].latest = ledger[p].latest
                             /\ AtMost(Row(ledger[p]), Row(K[p]))
  BY Numbers, ExpiredFacts, Zenon DEF LedgerInv
<1>. HIDE DEF K
<1>2. DOMAIN K \in SUBSET DOMAIN ledger /\ IsFiniteSet(DOMAIN ledger)
      /\ Cardinality(DOMAIN ledger) <= IdentityCap
  BY <1>1 DEF LedgerInv, Sound
<1>3. IsFiniteSet(DOMAIN K) /\ Cardinality(DOMAIN K) <= Cardinality(DOMAIN ledger)
  BY <1>2, FS_Subset, Zenon
<1>4. /\ Cardinality(DOMAIN K) \in Nat /\ Cardinality(DOMAIN ledger) \in Nat
      /\ IdentityCap \in Nat
  BY <1>2, <1>3, FS_CardinalityType, CapAssumption
<1>. QED
  BY <1>1, <1>2, <1>3, <1>4 DEF K

\* What it is after an event; the event always changes it, so its delta is a new revision.
LEMMA Event ==
    ASSUME LedgerInv, NEW p \in Panes, NEW L \in Capped(Recorded(Expired(ledger), p))
    PROVE  /\ Sound(L, nextSeq) /\ Cardinality(DOMAIN L) <= IdentityCap
           /\ Advances(ledger, L, nextSeq)
           /\ Changed(L) # {}
           /\ \A q \in DOMAIN L : L[q] = Recorded(Expired(ledger), p)[q]
<1>. DEFINE K == Expired(ledger)
            R == Recorded(K, p)
<1>1. /\ DOMAIN K \subseteq DOMAIN ledger
      /\ Sound(K, nextSeq - 1) /\ Cardinality(DOMAIN K) <= IdentityCap
      /\ \A q \in DOMAIN K : AtMost(Row(ledger[q]), Row(K[q]))
  BY Expiring
<1>. HIDE DEF K
<1>2. /\ DOMAIN R = DOMAIN K \cup {p} /\ R[p].latest = nextSeq
      /\ \A q \in DOMAIN K \ {p} : R[q] = K[q]
  BY <1>1, Numbers, RecordedFacts, Zenon
<1>3. /\ DOMAIN L \subseteq DOMAIN K \cup {p} /\ Cardinality(DOMAIN L) <= IdentityCap
      /\ Sound(L, nextSeq) /\ p \in DOMAIN L /\ \A q \in DOMAIN L : L[q] = R[q]
  <2>1. L \in Capped(Recorded(K, p))
    BY DEF K
  <2>2. nextSeq \in Nat \ {0}
    BY Numbers
  <2>3. /\ DOMAIN L \subseteq DOMAIN K \cup {p} /\ Cardinality(DOMAIN L) <= IdentityCap
        /\ Sound(L, nextSeq) /\ p \in DOMAIN L
        /\ \A q \in DOMAIN L : L[q] = Recorded(K, p)[q]
    BY <1>1, <2>1, <2>2, CappedFacts
  <2>. QED
    BY <2>3
<1>. HIDE DEF R
<1>4. \A q \in DOMAIN ledger : ledger[q].latest < nextSeq /\ ledger[q].latest \in Nat
                               /\ Row(ledger[q]).latest = ledger[q].latest
  BY Numbers, SoundRow DEF LedgerInv
<1>5. p \in DOMAIN ledger => ledger[p].latest # L[p].latest
  BY <1>2, <1>3, <1>4, Numbers
<1>6. Changed(L) # {}
  <2>1. p \in Changed(L)
    BY <1>3, <1>5 DEF Changed
  <2>. QED
    BY <2>1
<1>7. Advances(ledger, L, nextSeq)
  <2>. SUFFICES ASSUME NEW q \in DOMAIN L
                PROVE  /\ q \in DOMAIN ledger => AtMost(Row(ledger[q]), Row(L[q]))
                       /\ q \notin DOMAIN ledger => L[q].latest >= nextSeq
    BY DEF Advances
  <2>1. CASE q = p
    <3>1. L[q].latest = nextSeq /\ Row(L[q]).latest = nextSeq
      BY <1>2, <1>3, <2>1, Numbers, SoundRow
    <3>2. nextSeq >= nextSeq
      BY Numbers
    <3>. QED
      BY <3>1, <3>2, <1>4 DEF AtMost
  <2>2. CASE q # p
    <3>1. q \in DOMAIN K /\ q \in DOMAIN ledger /\ L[q] = K[q]
      BY <1>1, <1>2, <1>3, <2>2
    <3>. QED
      BY <3>1, <1>1
  <2>. QED
    BY <2>1, <2>2
<1>. QED
  BY <1>3, <1>6, <1>7 DEF K, R

\* What broadcast does to the queues.
LEMMA BroadcastFacts ==
    ASSUME LinkInv, NEW d \in News
    PROVE  /\ WithBroadcast(<<d>>) \in [Clients -> Seq(News \cup Answer)]
           /\ \A c \in Clients : \A m \in Range(WithBroadcast(<<d>>)[c]) : Travels(m) \/ m = d
<1>1. ASSUME NEW c \in Clients
      PROVE  /\ WithBroadcast(<<d>>)[c] \in Seq(News \cup Answer)
             /\ Range(WithBroadcast(<<d>>)[c]) \subseteq Range(queue[c]) \cup {d}
  <2>1. queue[c] \in Seq(News \cup Answer) /\ d \in News \cup Answer
    BY DEF LinkInv
  <2>2. /\ queue[c] \o <<d>> \in Seq(News \cup Answer)
        /\ Range(queue[c] \o <<d>>) \subseteq Range(queue[c]) \cup {d}
    BY <2>1, RangeFacts, Zenon
  <2>3. WithBroadcast(<<d>>)[c] \in {queue[c], queue[c] \o <<d>>}
    BY DEF WithBroadcast
  <2>. QED
    BY <2>1, <2>2, <2>3
<1>2. WithBroadcast(<<d>>) = [c \in Clients |-> WithBroadcast(<<d>>)[c]]
  BY DEF WithBroadcast
<1>. HIDE DEF WithBroadcast
<1>. QED
  BY <1>1, <1>2, Carried

LEMMA NoBroadcast ==
    ASSUME LinkInv
    PROVE  WithBroadcast(<<>>) = queue
<1>1. \A c \in Clients : queue[c] \o <<>> = queue[c]
  BY RangeFacts DEF LinkInv
<1>2. queue = [c \in Clients |-> queue[c]]
  BY DEF LinkInv
<1>. QED
  BY <1>1, <1>2 DEF WithBroadcast

LEMMA BellStep == ASSUME IInv, NEW p \in Panes, Bell(p) PROVE IInv'
<1>. USE DEF IInv
<1>1. PICK L \in Capped(Recorded(Expired(ledger), p)) :
          Commit(L) /\ outbox' = [outbox EXCEPT ![p] = Delta(L)]
  BY DEF Bell
<1>2. /\ nextSeq' = nextSeq + 1 /\ nextSeq <= MaxSeq
      /\ UNCHANGED <<epoch, aged, dedup, linkVars, queue, wire, clientVars>>
  BY DEF Bell
<1>3. /\ Sound(L, nextSeq) /\ Cardinality(DOMAIN L) <= IdentityCap
      /\ Advances(ledger, L, nextSeq) /\ Changed(L) # {}
  BY Event
<1>4. Delta(L) \in News
  BY <1>3, Numbers, DeltaFacts
<1>5. \A m \in UnderWay' : m \in UnderWay \/ m = Delta(L)
  <2>1. \A m \in Range(outbox') : Travels(m) \/ m \in {Delta(L)}
    BY <1>1, RangeExcept, Carried
  <2>2. \A c \in Clients : \A m \in Range(queue'[c]) : Travels(m) \/ m \in {Delta(L)}
    BY <1>2, Carried
  <2>3. \A m \in Range(held') : Travels(m) \/ m \in {Delta(L)}
    BY <1>2, Carried DEF linkVars
  <2>4. \A m \in UnderWay' : m \in UnderWay \/ m \in {Delta(L)} \cap News
    BY <2>1, <2>2, <2>3, Flow, Zenon
  <2>. QED
    BY <2>4
<1>6. LedgerInv' /\ NewsInv' /\ StoreInv'
  <2>1. nextSeq' <= MaxSeq + 1 /\ nextSeq' - 1 = nextSeq /\ nextSeq' \in {nextSeq, nextSeq + 1}
    BY <1>2, Numbers, CapAssumption
  <2>2. Sound(L, nextSeq' - 1) /\ \A k \in DOMAIN dedup' : dedup'[k] \in Answer
    BY <1>2, <1>3, <2>1 DEF LedgerInv
  <2>3. UNCHANGED <<epoch, aged, seen, store>>
    BY <1>2 DEF clientVars
  <2>. QED
    BY <1>1, <1>3, <1>5, <2>1, <2>2, <2>3, Committing
<1>7. LinkInv'
  BY <1>1, <1>2, <1>4 DEF LinkInv, linkVars, Threads
<1>8. AskInv'
  BY <1>2, AskFrame DEF clientVars
<1>. QED
  BY <1>6, <1>7, <1>8

LEMMA NotifyStep == ASSUME IInv, NEW p \in Panes, Notify(p) PROVE IInv'
<1>. USE DEF IInv
<1>1. PICK L \in Capped(Recorded(Expired(ledger), p)) :
          Commit(L) /\ queue' = WithBroadcast(<<Delta(L)>>)
  BY DEF Notify
<1>2. /\ nextSeq' = nextSeq + 1 /\ nextSeq <= MaxSeq
      /\ UNCHANGED <<epoch, aged, dedup, outbox, linkVars, wire, clientVars>>
  BY DEF Notify
<1>3. /\ Sound(L, nextSeq) /\ Cardinality(DOMAIN L) <= IdentityCap
      /\ Advances(ledger, L, nextSeq) /\ Changed(L) # {}
  BY Event
<1>4. Delta(L) \in News
  BY <1>3, Numbers, DeltaFacts
<1>5. /\ queue' \in [Clients -> Seq(News \cup Answer)]
      /\ \A m \in UnderWay' : m \in UnderWay \/ m = Delta(L)
  <2>1. /\ queue' \in [Clients -> Seq(News \cup Answer)]
        /\ \A c \in Clients : \A m \in Range(queue'[c]) : Travels(m) \/ m \in {Delta(L)}
    BY <1>1, <1>4, BroadcastFacts
  <2>2. /\ \A m \in Range(outbox') : Travels(m) \/ m \in {Delta(L)}
        /\ \A m \in Range(held') : Travels(m) \/ m \in {Delta(L)}
    BY <1>2, Carried DEF linkVars
  <2>3. \A m \in UnderWay' : m \in UnderWay \/ m \in {Delta(L)} \cap News
    BY <2>1, <2>2, Flow, Zenon
  <2>. QED
    BY <2>1, <2>3
<1>6. LedgerInv' /\ NewsInv' /\ StoreInv'
  <2>1. nextSeq' <= MaxSeq + 1 /\ nextSeq' - 1 = nextSeq /\ nextSeq' \in {nextSeq, nextSeq + 1}
    BY <1>2, Numbers, CapAssumption
  <2>2. Sound(L, nextSeq' - 1) /\ \A k \in DOMAIN dedup' : dedup'[k] \in Answer
    BY <1>2, <1>3, <2>1 DEF LedgerInv
  <2>3. UNCHANGED <<epoch, aged, seen, store>>
    BY <1>2 DEF clientVars
  <2>. QED
    BY <1>1, <1>3, <1>5, <2>1, <2>2, <2>3, Committing
<1>7. LinkInv'
  BY <1>2, <1>5 DEF LinkInv, linkVars
<1>8. AskInv'
  BY <1>2, AskFrame DEF clientVars
<1>. QED
  BY <1>6, <1>7, <1>8

\* A thread that broadcasts what has changed, if anything, after it has released the lock.
LEMMA Outgoings ==
    ASSUME IInv, NEW t \in Threads, NEW L,
           L = Expired(ledger) \/ \E p \in Panes : L = Without(Expired(ledger), {p}),
           Commit(L), Outgoing(t, L),
           UNCHANGED <<epoch, nextSeq, aged, dedup, linkVars, queue, wire, clientVars>>
    PROVE  IInv'
<1>. DEFINE K == Expired(ledger)
<1>. USE DEF IInv
<1>1. /\ DOMAIN K \subseteq DOMAIN ledger
      /\ Sound(K, nextSeq - 1) /\ Cardinality(DOMAIN K) <= IdentityCap
      /\ \A p \in DOMAIN K : AtMost(Row(ledger[p]), Row(K[p]))
  BY Expiring
<1>. HIDE DEF K
<1>2. DOMAIN L \subseteq DOMAIN K /\ \A p \in DOMAIN L : L[p] = K[p]
  BY DEF K, Without, Restrict
<1>3. Sound(L, nextSeq - 1) /\ Cardinality(DOMAIN L) <= IdentityCap
  <2>1. DOMAIN L \in SUBSET DOMAIN K /\ IsFiniteSet(DOMAIN K)
    BY <1>1, <1>2 DEF Sound
  <2>2. IsFiniteSet(DOMAIN L) /\ Cardinality(DOMAIN L) <= Cardinality(DOMAIN K)
    BY <2>1, FS_Subset, Zenon
  <2>3. /\ Cardinality(DOMAIN K) \in Nat /\ Cardinality(DOMAIN L) \in Nat
        /\ IdentityCap \in Nat
    BY <2>1, <2>2, FS_CardinalityType, CapAssumption
  <2>4. Cardinality(DOMAIN L) <= IdentityCap
    BY <1>1, <2>2, <2>3
  <2>. QED
    BY <1>1, <1>2, <2>2, <2>4 DEF Sound
<1>4. Advances(ledger, L, nextSeq)
  BY <1>1, <1>2 DEF Advances
<1>5. Delta(L) \in News
  BY <1>3, Numbers, DeltaFacts
<1>6. outbox' = [outbox EXCEPT ![t] = IF Changed(L) = {} THEN None ELSE Delta(L)]
  BY DEF Outgoing
<1>7. \A m \in UnderWay' : m \in UnderWay \/ (Changed(L) # {} /\ m = Delta(L))
  <2>. DEFINE X == {IF Changed(L) = {} THEN None ELSE Delta(L)}
  <2>1. \A m \in Range(outbox') : Travels(m) \/ m \in X
    BY <1>6, RangeExcept, Carried
  <2>2. \A c \in Clients : \A m \in Range(queue'[c]) : Travels(m) \/ m \in X
    BY Carried
  <2>3. \A m \in Range(held') : Travels(m) \/ m \in X
    BY Carried DEF linkVars
  <2>4. \A m \in UnderWay' : m \in UnderWay \/ m \in X \cap News
    <3>. HIDE DEF X
    <3>. QED
      BY <2>1, <2>2, <2>3, Flow, Zenon
  <2>. QED
    BY <2>4, NoneIsNoNews
<1>8. LedgerInv' /\ NewsInv' /\ StoreInv'
  <2>1. nextSeq' <= MaxSeq + 1 /\ nextSeq' = nextSeq
    BY CapAssumption DEF LedgerInv
  <2>2. Sound(L, nextSeq' - 1) /\ \A k \in DOMAIN dedup' : dedup'[k] \in Answer
    BY <1>3, <2>1 DEF LedgerInv
  <2>3. UNCHANGED <<epoch, aged, seen, store>>
    BY DEF clientVars
  <2>. QED
    BY <1>3, <1>4, <1>7, <2>1, <2>2, <2>3, Committing
<1>9. LinkInv'
  BY <1>5, <1>6 DEF LinkInv, linkVars, Threads
<1>10. AskInv'
  BY AskFrame DEF clientVars
<1>. QED
  BY <1>8, <1>9, <1>10

LEMMA PaneClosedStep == ASSUME IInv, NEW p \in Panes, PaneClosed(p) PROVE IInv'
<1>1. "closer" \in Threads /\ Closed(p) = Without(Expired(ledger), {p})
  BY DEF Threads, Closed
<1>. QED
  BY <1>1, Outgoings DEF PaneClosed

LEMMA SweepStep == ASSUME IInv, Sweep PROVE IInv'
<1>1. "sweeper" \in Threads /\ Swept = Expired(ledger)
  BY DEF Threads, Swept
<1>. QED
  BY <1>1, Outgoings DEF Sweep

\* What is broadcast was in the outbox.
LEMMA BroadcastStep == ASSUME IInv, NEW t \in Threads, Broadcast(t) PROVE IInv'
<1>. USE DEF IInv
<1>1. /\ outbox[t] # None
      /\ queue' = WithBroadcast(<<outbox[t]>>)
      /\ outbox' = [outbox EXCEPT ![t] = None]
      /\ UNCHANGED <<epoch, revision, nextSeq, ledger, aged, stale, dedup, linkVars, wire, clientVars>>
  BY DEF Broadcast
<1>2. outbox[t] \in News /\ outbox[t] \in Range(outbox)
  BY <1>1 DEF LinkInv, Range
<1>3. /\ queue' \in [Clients -> Seq(News \cup Answer)]
      /\ \A c \in Clients : \A m \in Range(queue'[c]) : Travels(m) \/ m = outbox[t]
  BY <1>1, <1>2, BroadcastFacts
<1>4. \A m \in UnderWay' : m \in UnderWay
  <2>1. \A c \in Clients : \A m \in Range(queue'[c]) : Travels(m) \/ m \in {None}
    BY <1>2, <1>3, Carried
  <2>2. \A m \in Range(outbox') : Travels(m) \/ m \in {None}
    BY <1>1, RangeExcept, Carried
  <2>3. \A m \in Range(held') : Travels(m) \/ m \in {None}
    BY <1>1, Carried DEF linkVars
  <2>4. \A m \in UnderWay' : m \in UnderWay \/ m \in {None} \cap News
    BY <2>1, <2>2, <2>3, Flow, Zenon
  <2>. QED
    BY <2>4, NoneIsNoNews
<1>5. LedgerInv'
  BY <1>1 DEF LedgerInv, clientVars
<1>6. NewsInv' /\ StoreInv'
  BY <1>1, <1>4, Passing DEF clientVars
<1>7. LinkInv'
  BY <1>1, <1>3 DEF LinkInv, linkVars, Threads
<1>8. AskInv'
  BY <1>1, AskFrame DEF clientVars
<1>. QED
  BY <1>5, <1>6, <1>7, <1>8

\* Steps after which what is on its way was on its way, and the server is as it was.
LEMMA Still ==
    ASSUME IInv, UNCHANGED <<ledgerVars, store, seen>>, \A m \in UnderWay' : m \in UnderWay
    PROVE  LedgerInv' /\ NewsInv' /\ StoreInv'
<1>1. UNCHANGED <<epoch, revision, nextSeq, ledger, seen, store>>
  BY DEF ledgerVars
<1>2. NewsInv' /\ StoreInv'
  BY <1>1, Passing
<1>3. LedgerInv'
  BY DEF ledgerVars, IInv, LedgerInv
<1>. QED
  BY <1>2, <1>3

LEMMA SameNews ==
    ASSUME UNCHANGED <<queue, held, outbox>>
    PROVE  \A m \in UnderWay' : m \in UnderWay
BY DEF UnderWay, Travels

LEMMA AgeStep == ASSUME IInv, Age PROVE IInv'
<1>. USE DEF IInv
<1>1. UNCHANGED <<epoch, revision, nextSeq, ledger, dedup, outbox, linkVars, queue, wire, clientVars>>
  BY DEF Age
<1>2. /\ stale' \subseteq DOMAIN ledger /\ aged' \in Nat /\ aged' < nextSeq
  BY DEF Age, LedgerInv
<1>3. LedgerInv'
  BY <1>1, <1>2 DEF LedgerInv, clientVars
<1>4. \A m \in UnderWay' : m \in UnderWay
  BY <1>1, SameNews DEF linkVars
<1>5. NewsInv' /\ StoreInv'
  BY <1>1, <1>4, Passing DEF clientVars
<1>6. LinkInv'
  BY <1>1 DEF LinkInv, linkVars
<1>7. AskInv'
  BY <1>1, AskFrame DEF clientVars
<1>. QED
  BY <1>3, <1>5, <1>6, <1>7

\* A new epoch: nothing is on its way, and no copy or request is of it.
LEMMA RestartStep == ASSUME IInv, Restart PROVE IInv'
<1>. USE DEF IInv
<1>1. /\ epoch < MaxEpoch /\ epoch' = epoch + 1 /\ revision' = 0 /\ nextSeq' = 1 /\ ledger' = NoRows
      /\ aged' = 0 /\ stale' = {} /\ dedup' = NoRows
      /\ outbox' = [t \in Threads |-> None] /\ link' = [c \in Clients |-> "down"]
      /\ held' = [c \in Clients |-> None] /\ queue' = [c \in Clients |-> <<>>]
      /\ wire' = [c \in Clients |-> <<>>] /\ seen' = [p \in Panes |-> 0]
      /\ UNCHANGED <<links, store, overlays, pending, requests>>
  BY DEF Restart
<1>2. epoch \in Nat \ {0} /\ MaxEpoch \in Nat /\ MaxSeq \in Nat /\ IdentityCap \in Nat
  BY Numbers, CapAssumption
<1>3. \A m \in UnderWay' : FALSE
  <2>1. /\ \A c \in Clients : \A m \in Range(queue'[c]) : FALSE
        /\ \A m \in Range(held') : m = None
        /\ \A m \in Range(outbox') : m = None
    BY <1>1 DEF Range
  <2>. QED
    BY <2>1, NoneIsNoNews DEF UnderWay, Travels
<1>4. LedgerInv'
  <2>1. DOMAIN NoRows = {}
    BY DEF NoRows
  <2>2. epoch' \in 1 .. MaxEpoch /\ nextSeq' \in 1 .. MaxSeq + 1 /\ aged' < nextSeq'
    BY <1>1, <1>2 DEF LedgerInv
  <2>3. IsFiniteSet({}) /\ Cardinality({}) <= IdentityCap
    BY <1>2, FS_EmptySet
  <2>. QED
    BY <1>1, <2>1, <2>2, <2>3 DEF LedgerInv, Sound
<1>5. LinkInv'
  BY <1>1, RangeFacts DEF LinkInv
<1>6. AskInv'
  <2>1. ASSUME NEW c \in Clients, NEW r \in DOMAIN pending[c]
        PROVE  Honest(pending[c][r], epoch', seen')
    BY <1>1, <1>2 DEF AskInv, Ask, Honest
  <2>2. \A c \in Clients : DOMAIN wire'[c] = {}
    BY <1>1
  <2>. QED
    BY <1>1, <2>1, <2>2 DEF AskInv
<1>7. NewsInv'
  BY <1>3 DEF NewsInv
<1>8. StoreInv'
  <2>1. \A c \in Clients : store[c].epoch \in Nat /\ store[c].epoch <= epoch
    BY DEF StoreInv, Copy
  <2>2. \A c \in Clients : store[c].epoch <= epoch' /\ store[c].epoch # epoch'
    BY <1>1, <1>2, <2>1
  <2>. QED
    BY <1>1, <2>2 DEF StoreInv
<1>. QED
  BY <1>4, <1>5, <1>6, <1>7, <1>8

-----------------------------------------------------------------------------
(* Read marks.                                                             *)

\* The ledger after a request.
MarkRead(req) ==
    LET now == Expired(ledger) IN
    IF Verdict(now, req) = "applied" THEN Marked(now, req.pane, req.through) ELSE now

LEMMA VerdictFacts ==
    ASSUME NEW L, NEW req \in Sent
    PROVE  /\ Verdict(L, req) \in {"stale_epoch", "not_found", "invalid", "applied"}
           /\ Verdict(L, req) = "applied" =>
                req.epoch = epoch /\ req.pane \in DOMAIN L /\ ~(req.through > L[req.pane].latest)
BY DEF Verdict

\* An honest request reads only what was seen.
LEMMA MarkReadFacts ==
    ASSUME LedgerInv, NEW req \in Sent, Honest(req, epoch, seen)
    PROVE  LET L == MarkRead(req) IN
           /\ Sound(L, nextSeq - 1) /\ Cardinality(DOMAIN L) <= IdentityCap
           /\ Advances(ledger, L, nextSeq)
           /\ \A p \in DOMAIN L : /\ p \in DOMAIN ledger
                                  /\ \A n \in ledger[p].unread \ L[p].unread : n <= aged \/ n <= seen[p]
<1>. DEFINE K == Expired(ledger)
            L == MarkRead(req)
<1>1. /\ DOMAIN K \subseteq DOMAIN ledger
      /\ Sound(K, nextSeq - 1) /\ Cardinality(DOMAIN K) <= IdentityCap
      /\ \A p \in DOMAIN K : /\ AtMost(Row(ledger[p]), Row(K[p]))
                             /\ K[p].unread = {k \in ledger[p].unread : k > aged}
  BY Expiring
<1>2. nextSeq \in Nat /\ nextSeq - 1 \in Nat /\ aged \in Nat /\ Sound(ledger, nextSeq - 1)
  BY Numbers DEF LedgerInv
<1>3. \A p \in DOMAIN K : \A n \in ledger[p].unread \ K[p].unread : n <= aged
  <2>. SUFFICES ASSUME NEW p \in DOMAIN K, NEW n \in ledger[p].unread \ K[p].unread
                PROVE  n <= aged
    OBVIOUS
  <2>1. ledger[p].unread \in SUBSET Nat
    BY <1>1, <1>2 DEF Sound, Whole, Entry
  <2>2. n \in Nat /\ ~(n > aged)
    BY <1>1, <2>1
  <2>. QED
    BY <1>2, <2>2
<1>4. CASE Verdict(K, req) # "applied"
  <2>1. L = K
    BY <1>4 DEF MarkRead
  <2>. HIDE DEF K
  <2>2. Advances(ledger, K, nextSeq)
    BY <1>1 DEF Advances
  <2>. QED
    BY <1>1, <1>3, <2>1, <2>2
<1>5. CASE Verdict(K, req) = "applied"
  <2>. HIDE DEF K
  <2>1. L = Marked(K, req.pane, req.through)
    BY <1>5 DEF MarkRead, K
  <2>2. /\ req.epoch = epoch /\ req.pane \in DOMAIN K /\ req.through \in Nat
        /\ ~(req.through > K[req.pane].latest)
    BY <1>5, VerdictFacts DEF Sent
  <2>3. K[req.pane].latest \in Nat
    BY <1>1, <1>2, <2>2, SoundRow
  <2>4. req.through <= K[req.pane].latest
    BY <2>2, <2>3
  <2>5. LET M == Marked(K, req.pane, req.through) IN
        /\ DOMAIN M = DOMAIN K /\ Sound(M, nextSeq - 1)
        /\ \A q \in DOMAIN K : AtMost(Row(K[q]), Row(M[q]))
        /\ \A q \in DOMAIN K : \A k \in K[q].unread \ M[q].unread : q = req.pane /\ k <= req.through
    BY <1>1, <1>2, <2>2, <2>4, MarkedFacts, Zenon
  <2>. HIDE DEF L
  <2>6. /\ DOMAIN L = DOMAIN K /\ Sound(L, nextSeq - 1)
        /\ \A q \in DOMAIN K : AtMost(Row(K[q]), Row(L[q]))
        /\ \A q \in DOMAIN K : \A k \in K[q].unread \ L[q].unread : q = req.pane /\ k <= req.through
    BY <2>1, <2>5
  <2>7. Advances(ledger, L, nextSeq)
    <3>. SUFFICES ASSUME NEW q \in DOMAIN L PROVE q \in DOMAIN ledger /\ AtMost(Row(ledger[q]), Row(L[q]))
      BY DEF Advances
    <3>1. /\ q \in DOMAIN ledger /\ AtMost(Row(ledger[q]), Row(K[q])) /\ AtMost(Row(K[q]), Row(L[q]))
          /\ Row(ledger[q]) \in PaneRow /\ Row(K[q]) \in PaneRow /\ Row(L[q]) \in PaneRow
      BY <1>1, <1>2, <2>6, SoundRow
    <3>. QED
      BY <3>1, AtMostTransitive
  <2>8. ASSUME NEW p \in DOMAIN L, NEW n \in ledger[p].unread \ L[p].unread
        PROVE  n <= aged \/ n <= seen[p]
    <3>1. CASE n \notin K[p].unread
      BY <1>3, <2>6, <2>8, <3>1
    <3>2. CASE n \in K[p].unread
      <4>1. p = req.pane /\ n <= req.through
        BY <2>6, <2>8, <3>2
      <4>2. req.through <= seen[p] /\ req.through \in Nat /\ seen[p] \in Nat /\ n \in Nat
        BY <4>1, <2>2, <2>6, <1>1, <1>2, <2>8 DEF Honest, LedgerInv, Sound, Whole, Entry
      <4>. QED
        BY <4>1, <4>2
    <3>. QED
      BY <3>1, <3>2
  <2>. QED
    BY <1>1, <2>6, <2>7, <2>8 DEF L
<1>. QED
  BY <1>4, <1>5

\* The answer to a request, if it has anybody to answer to.
LEMMA Answering ==
    ASSUME NEW q \in Seq(News \cup Answer), NEW a \in Answer
    PROVE  \A s \in {<<a>>, <<>>} :
               q \o s \in Seq(News \cup Answer) /\ Range(q \o s) \subseteq Range(q) \cup {a}
<1>. DEFINE S == News \cup Answer
<1>1. a \in S /\ q \in Seq(S)
  OBVIOUS
<1>. HIDE DEF S
<1>2. q \o <<a>> \in Seq(S) /\ Range(q \o <<a>>) \subseteq Range(q) \cup {a}
  BY <1>1, RangeFacts, Zenon
<1>3. q \o <<>> = q
  OBVIOUS
<1>. QED
  BY <1>2, <1>3 DEF S

\* Taking the request off the wire.
LEMMA Taken ==
    ASSUME LinkInv, AskInv, NEW c \in Clients, wire[c] # <<>>, wire' = [wire EXCEPT ![c] = Tail(@)],
           UNCHANGED <<epoch, overlays, pending, requests, seen>>
    PROVE  /\ Head(wire[c]) \in Sent /\ Honest(Head(wire[c]), epoch, seen)
           /\ wire' \in [Clients -> Seq(Sent)]
           /\ AskInv'
<1>1. wire[c] \in Seq(Sent) /\ \A i \in DOMAIN wire[c] : Honest(wire[c][i], epoch, seen)
  BY DEF LinkInv, AskInv
<1>2. /\ Head(wire[c]) \in Sent /\ Honest(Head(wire[c]), epoch, seen) /\ Tail(wire[c]) \in Seq(Sent)
      /\ \A i \in DOMAIN Tail(wire[c]) : i + 1 \in DOMAIN wire[c] /\ Tail(wire[c])[i] = wire[c][i + 1]
  <2>1. 1 \in DOMAIN wire[c] /\ Head(wire[c]) = wire[c][1]
    BY <1>1
  <2>2. Head(wire[c]) \in Sent /\ Tail(wire[c]) \in Seq(Sent)
    BY <1>1
  <2>3. \A i \in DOMAIN Tail(wire[c]) : i + 1 \in DOMAIN wire[c] /\ Tail(wire[c])[i] = wire[c][i + 1]
    BY <1>1
  <2>. QED
    BY <1>1, <2>1, <2>2, <2>3
<1>3. wire' \in [Clients -> Seq(Sent)] /\ \A d \in Clients : wire'[d] = IF d = c THEN Tail(wire[c]) ELSE wire[d]
  BY <1>2 DEF LinkInv
<1>4. \A d \in Clients : \A i \in DOMAIN wire'[d] : Honest(wire'[d][i], epoch, seen)
  BY <1>1, <1>2, <1>3 DEF AskInv
<1>5. AskInv'
  BY <1>4 DEF AskInv, Honest
<1>. QED
  BY <1>2, <1>3, <1>5

LEMMA ApplyMarkReadStep == ASSUME IInv, NEW c \in Clients, ApplyMarkRead(c) PROVE IInv'
<1>. USE DEF IInv
<1>. DEFINE req    == Head(wire[c])
            key    == <<c, req.request>>
            status == Verdict(Expired(ledger), req)
            L      == MarkRead(req)
            deltas == IF Changed(L) = {} THEN <<>> ELSE <<Delta(L)>>
            answer(result) == IF req.link = links[c] /\ link[c] # "down" THEN <<result>> ELSE <<>>
            result == Result(req.request, status, IF status = "applied" THEN revision' ELSE None)
            Replay == /\ Replayed(key)
                      /\ queue' = [queue EXCEPT ![c] = @ \o answer(dedup[key])]
                      /\ UNCHANGED <<revision, ledger, stale, dedup>>
            Fresh  == /\ Commit(L)
                      /\ dedup' = Completed(key, result)
                      /\ queue' = [WithBroadcast(deltas) EXCEPT ![c] = @ \o answer(result)]
<1>1. /\ wire[c] # <<>> /\ wire' = [wire EXCEPT ![c] = Tail(@)]
      /\ UNCHANGED <<epoch, nextSeq, aged, outbox, linkVars, clientVars>>
      /\ Replay \/ Fresh
  BY DEF ApplyMarkRead, MarkRead
<1>2. req \in Sent /\ Honest(req, epoch, seen) /\ wire' \in [Clients -> Seq(Sent)] /\ AskInv'
  BY <1>1, Taken DEF clientVars
<1>3. req.request \in Nat /\ status \in {"stale_epoch", "not_found", "invalid", "applied"}
  BY <1>2, VerdictFacts DEF Sent
<1>4. queue \in [Clients -> Seq(News \cup Answer)]
  BY DEF LinkInv
<1>. HIDE DEF req, status, L
<1>5. CASE Replay
  <2>1. dedup[key] \in Answer
    BY <1>5 DEF Replayed, LedgerInv
  <2>. DEFINE a == dedup[key]
              s == answer(a)
  <2>2. s \in {<<a>>, <<>>}
    OBVIOUS
  <2>3. queue' = [queue EXCEPT ![c] = queue[c] \o s]
    BY <1>5
  <2>. HIDE DEF a, s
  <2>4. /\ queue[c] \o s \in Seq(News \cup Answer)
        /\ Range(queue[c] \o s) \subseteq Range(queue[c]) \cup {a}
    BY <1>4, <2>1, <2>2, Answering DEF a
  <2>5. /\ queue' \in [Clients -> Seq(News \cup Answer)]
        /\ \A d \in Clients : \A m \in Range(queue'[d]) : Travels(m) \/ m \in {a}
    BY <1>4, <2>3, <2>4, Carried
  <2>6. \A m \in UnderWay' : m \in UnderWay
    <3>1. /\ \A m \in Range(outbox') : Travels(m) \/ m \in {a}
          /\ \A m \in Range(held') : Travels(m) \/ m \in {a}
      BY <1>1, Carried DEF linkVars
    <3>2. \A m \in UnderWay' : m \in UnderWay \/ m \in {a} \cap News
      BY <2>5, <3>1, Flow, Zenon
    <3>. QED
      BY <3>2, <2>1, AnswerIsNoNews DEF a
  <2>7. UNCHANGED <<ledgerVars, store, seen>>
    BY <1>1, <1>5 DEF ledgerVars, clientVars
  <2>8. LedgerInv' /\ NewsInv' /\ StoreInv'
    BY <2>6, <2>7, Still
  <2>9. LinkInv'
    BY <1>1, <1>2, <2>5 DEF LinkInv, linkVars
  <2>. QED
    BY <1>2, <2>8, <2>9
<1>6. CASE Fresh
  <2>1. /\ Sound(L, nextSeq - 1) /\ Cardinality(DOMAIN L) <= IdentityCap
        /\ Advances(ledger, L, nextSeq)
    BY <1>2, MarkReadFacts, Zenon DEF L
  <2>2. revision' \in Nat /\ epoch \in Nat
    BY <1>6, Numbers DEF Commit
  <2>3. result \in Answer
    BY <1>3, <2>2 DEF Result, Answer
  <2>. DEFINE s == answer(result)
              W == WithBroadcast(deltas)
  <2>4. s \in {<<result>>, <<>>}
    OBVIOUS
  <2>5. queue' = [W EXCEPT ![c] = W[c] \o s] /\ dedup' = Completed(key, result)
    BY <1>6
  <2>6. Delta(L) \in News
    BY <2>1, Numbers, DeltaFacts
  <2>7. /\ W \in [Clients -> Seq(News \cup Answer)]
        /\ \A d \in Clients : \A m \in Range(W[d]) : Travels(m) \/ (Changed(L) # {} /\ m = Delta(L))
    <3>1. CASE Changed(L) = {}
      BY <3>1, <1>4, NoBroadcast, Carried
    <3>2. CASE Changed(L) # {}
      BY <3>2, <2>6, BroadcastFacts
    <3>. QED
      BY <3>1, <3>2
  <2>. HIDE DEF s, W, result
  <2>8. /\ W[c] \o s \in Seq(News \cup Answer)
        /\ Range(W[c] \o s) \subseteq Range(W[c]) \cup {result}
    BY <2>3, <2>4, <2>7, Answering
  <2>. DEFINE X == {result} \cup {d \in {Delta(L)} : Changed(L) # {}}
  <2>9. /\ queue' \in [Clients -> Seq(News \cup Answer)]
        /\ \A d \in Clients : \A m \in Range(queue'[d]) : Travels(m) \/ m \in X
    BY <2>5, <2>7, <2>8
  <2>10. \A m \in UnderWay' : m \in UnderWay \/ (Changed(L) # {} /\ m = Delta(L))
    <3>1. /\ \A m \in Range(outbox') : Travels(m) \/ m \in X
          /\ \A m \in Range(held') : Travels(m) \/ m \in X
      BY <1>1, Carried DEF linkVars
    <3>2. \A m \in UnderWay' : m \in UnderWay \/ m \in X \cap News
      <4>. HIDE DEF X
      <4>. QED
        BY <2>9, <3>1, Flow, Zenon
    <3>. QED
      BY <3>2, <2>3, AnswerIsNoNews
  <2>11. LedgerInv' /\ NewsInv' /\ StoreInv'
    <3>1. nextSeq' <= MaxSeq + 1 /\ nextSeq' = nextSeq
      BY <1>1, CapAssumption DEF LedgerInv
    <3>2. \A k \in DOMAIN dedup' : dedup'[k] \in Answer
      <4>1. \A k \in DOMAIN dedup : dedup[k] \in Answer
        BY DEF LedgerInv
      <4>. QED
        BY <4>1, <2>3, <2>5 DEF Completed
    <3>3. UNCHANGED <<epoch, aged, seen, store>>
      BY <1>1 DEF clientVars
    <3>4. Sound(L, nextSeq' - 1)
      BY <2>1, <3>1
    <3>. QED
      BY <1>6, <2>1, <2>10, <3>1, <3>2, <3>3, <3>4, Committing
  <2>12. LinkInv'
    BY <1>1, <1>2, <2>9 DEF LinkInv, linkVars
  <2>. QED
    BY <1>2, <2>11, <2>12
<1>. QED
  BY <1>1, <1>5, <1>6

-----------------------------------------------------------------------------
(* Connections.                                                            *)

LEMMA ConnectStep == ASSUME IInv, NEW c \in Clients, Connect(c) PROVE IInv'
<1>. USE DEF IInv
<1>1. /\ link[c] = "down"
      /\ link' = [link EXCEPT ![c] = "registered"] /\ links' = [links EXCEPT ![c] = @ + 1]
      /\ UNCHANGED <<ledgerVars, held, queue, wire, clientVars>>
  BY DEF Connect
<1>2. \A m \in UnderWay' : m \in UnderWay
  BY <1>1, SameNews DEF ledgerVars
<1>3. LedgerInv' /\ NewsInv' /\ StoreInv'
  BY <1>1, <1>2, Still DEF clientVars
<1>4. LinkInv'
  BY <1>1 DEF LinkInv, ledgerVars
<1>5. AskInv'
  BY <1>1, AskFrame DEF ledgerVars, clientVars
<1>. QED
  BY <1>3, <1>4, <1>5

LEMMA TakeSnapshotStep == ASSUME IInv, NEW c \in Clients, TakeSnapshot(c) PROVE IInv'
<1>. USE DEF IInv
<1>1. /\ link' = [link EXCEPT ![c] = "held"] /\ held' = [held EXCEPT ![c] = Snapshot]
      /\ UNCHANGED <<ledgerVars, links, queue, wire, clientVars>>
  BY DEF TakeSnapshot
<1>2. Snapshot \in News
  BY SnapshotFacts
<1>3. \A m \in UnderWay' : m \in UnderWay \/ m = Snapshot
  <2>1. /\ \A d \in Clients : \A m \in Range(queue'[d]) : Travels(m) \/ m \in {Snapshot}
        /\ \A m \in Range(held') : Travels(m) \/ m \in {Snapshot}
        /\ \A m \in Range(outbox') : Travels(m) \/ m \in {Snapshot}
    BY <1>1, RangeExcept, Carried DEF ledgerVars
  <2>2. \A m \in UnderWay' : m \in UnderWay \/ m \in {Snapshot} \cap News
    BY <2>1, Flow, Zenon
  <2>. QED
    BY <2>2
<1>4. NewsInv' /\ StoreInv'
  BY <1>1, <1>3, Passing DEF ledgerVars, clientVars
<1>5. LedgerInv'
  BY <1>1 DEF LedgerInv, ledgerVars, clientVars
<1>6. LinkInv'
  BY <1>1, <1>2, NoneIsNoNews DEF LinkInv, ledgerVars
<1>7. AskInv'
  BY <1>1, AskFrame DEF ledgerVars, clientVars
<1>. QED
  BY <1>4, <1>5, <1>6, <1>7

LEMMA SendSnapshotStep == ASSUME IInv, NEW c \in Clients, SendSnapshot(c) PROVE IInv'
<1>. USE DEF IInv
<1>1. /\ link[c] = "held" /\ link' = [link EXCEPT ![c] = "up"]
      /\ queue' = [queue EXCEPT ![c] = Append(@, held[c])] /\ held' = [held EXCEPT ![c] = None]
      /\ UNCHANGED <<ledgerVars, links, wire, clientVars>>
  BY DEF SendSnapshot
<1>2. held[c] \in News /\ held[c] \in Range(held) /\ queue \in [Clients -> Seq(News \cup Answer)]
  BY <1>1 DEF LinkInv, Range
<1>3. /\ Append(queue[c], held[c]) \in Seq(News \cup Answer)
      /\ Range(Append(queue[c], held[c])) \subseteq Range(queue[c]) \cup {held[c]}
  <2>1. queue[c] \in Seq(News \cup Answer) /\ held[c] \in News \cup Answer
    BY <1>2
  <2>. QED
    BY <2>1, RangeFacts, Zenon
<1>4. \A m \in UnderWay' : m \in UnderWay
  <2>1. /\ \A d \in Clients : \A m \in Range(queue'[d]) : Travels(m) \/ m \in {None}
        /\ \A m \in Range(outbox') : Travels(m) \/ m \in {None}
    BY <1>1, <1>2, <1>3, Carried DEF ledgerVars
  <2>2. \A m \in Range(held') : Travels(m) \/ m \in {None}
    BY <1>1, RangeExcept, Carried
  <2>3. \A m \in UnderWay' : m \in UnderWay \/ m \in {None} \cap News
    BY <2>1, <2>2, Flow, Zenon
  <2>. QED
    BY <2>3, NoneIsNoNews
<1>5. LedgerInv' /\ NewsInv' /\ StoreInv'
  BY <1>1, <1>4, Still DEF clientVars
<1>6. LinkInv'
  BY <1>1, <1>2, <1>3 DEF LinkInv, ledgerVars
<1>7. AskInv'
  BY <1>1, AskFrame DEF ledgerVars, clientVars
<1>. QED
  BY <1>5, <1>6, <1>7

LEMMA DisconnectStep == ASSUME IInv, NEW c \in Clients, Disconnect(c) PROVE IInv'
<1>. USE DEF IInv
<1>1. /\ link' = [link EXCEPT ![c] = "down"]
      /\ queue' = [queue EXCEPT ![c] = <<>>] /\ held' = [held EXCEPT ![c] = None]
      /\ wire' \in {wire, [wire EXCEPT ![c] = <<>>]}
      /\ UNCHANGED <<ledgerVars, links, clientVars>>
  BY DEF Disconnect
<1>2. \A m \in UnderWay' : m \in UnderWay
  <2>1. /\ \A d \in Clients : \A m \in Range(queue'[d]) : Travels(m) \/ m \in {None}
        /\ \A m \in Range(outbox') : Travels(m) \/ m \in {None}
    BY <1>1, RangeFacts, Carried DEF ledgerVars, LinkInv
  <2>2. \A m \in Range(held') : Travels(m) \/ m \in {None}
    BY <1>1, RangeExcept, Carried
  <2>3. \A m \in UnderWay' : m \in UnderWay \/ m \in {None} \cap News
    BY <2>1, <2>2, Flow, Zenon
  <2>. QED
    BY <2>3, NoneIsNoNews
<1>3. LedgerInv' /\ NewsInv' /\ StoreInv'
  BY <1>1, <1>2, Still DEF clientVars
<1>4. <<>> \in Seq(News \cup Answer) /\ <<>> \in Seq(Sent) /\ DOMAIN <<>> = {}
  OBVIOUS
<1>5. LinkInv'
  BY <1>1, <1>4 DEF LinkInv, ledgerVars
<1>6. AskInv'
  <2>1. \A d \in Clients : \A i \in DOMAIN wire'[d] : Honest(wire'[d][i], epoch, seen)
    BY <1>1, <1>4 DEF AskInv, LinkInv
  <2>. QED
    BY <1>1, <2>1 DEF AskInv, Honest, ledgerVars, clientVars
<1>. QED
  BY <1>3, <1>5, <1>6

-----------------------------------------------------------------------------
(* The clients.                                                            *)

LEMMA ExceptFacts ==
    ASSUME NEW f, NEW D, f = [x \in D |-> f[x]], NEW y \in D, NEW z
    PROVE  LET g == [f EXCEPT ![y] = z] IN
           g = [x \in D |-> g[x]] /\ g[y] = z /\ \A x \in D \ {y} : g[x] = f[x]
OBVIOUS

\* sendMarkRead puts an honest request on the wire, or nothing.
LEMMA Sending ==
    ASSUME LinkInv, AskInv, NEW c \in Clients, NEW r \in Nat, NEW req \in Ask, Honest(req, epoch, seen),
           SendRequest(c, r, req)
    PROVE  /\ wire' \in [Clients -> Seq(Sent)]
           /\ \A d \in Clients : \A i \in DOMAIN wire'[d] : Honest(wire'[d][i], epoch, seen)
<1>. DEFINE m == [request |-> r, epoch |-> req.epoch, pane |-> req.pane, through |-> req.through,
                  link |-> links[c]]
<1>1. m \in Sent /\ Honest(m, epoch, seen)
  BY DEF Sent, Ask, Honest, LinkInv
<1>2. /\ wire' = [wire EXCEPT ![c] = IF link[c] = "down" THEN @ ELSE Append(@, m)]
      /\ wire \in [Clients -> Seq(Sent)]
  BY DEF SendRequest, LinkInv
<1>. HIDE DEF m
<1>3. /\ Append(wire[c], m) \in Seq(Sent)
      /\ \A i \in DOMAIN Append(wire[c], m) :
            Append(wire[c], m)[i] = m \/ (i \in DOMAIN wire[c] /\ Append(wire[c], m)[i] = wire[c][i])
  <2>1. wire[c] \in Seq(Sent)
    BY <1>2
  <2>. QED
    BY <1>1, <2>1
<1>4. wire' \in [Clients -> Seq(Sent)]
  BY <1>2, <1>3
<1>5. \A i \in DOMAIN Append(wire[c], m) : Honest(Append(wire[c], m)[i], epoch, seen)
  BY <1>1, <1>3 DEF AskInv
<1>6. ASSUME NEW d \in Clients, NEW i \in DOMAIN wire'[d] PROVE Honest(wire'[d][i], epoch, seen)
  <2>1. wire'[d] = wire[d] \/ (d = c /\ wire'[d] = Append(wire[c], m))
    BY <1>2
  <2>. QED
    BY <1>5, <1>6, <2>1 DEF AskInv
<1>. QED
  BY <1>4, <1>6

LEMMA MarkPaneReadStep == ASSUME IInv, NEW c \in Clients, NEW p \in Panes, MarkPaneRead(c, p) PROVE IInv'
<1>. USE DEF IInv
<1>. DEFINE r   == requests[c] + 1
            req == [epoch |-> store[c].epoch, pane |-> p,
                    through |-> store[c].rows[p].latest, attempts |-> 1]
            msk == [pane |-> p, through |-> req.through, acked |-> None]
<1>1. /\ p \in DOMAIN store[c].rows /\ requests' = [requests EXCEPT ![c] = @ + 1]
      /\ overlays' = [overlays EXCEPT ![c] = [k \in DOMAIN @ \cup {r} |-> IF k = r THEN msk ELSE @[k]]]
      /\ pending' = [pending EXCEPT ![c] = [k \in DOMAIN @ \cup {r} |-> IF k = r THEN req ELSE @[k]]]
      /\ SendRequest(c, r, req)
      /\ UNCHANGED <<ledgerVars, linkVars, queue, store, seen>>
  BY DEF MarkPaneRead, Shown, Unread
<1>2. req \in Ask /\ Honest(req, epoch, seen) /\ r \in Nat
  <2>1. store[c] \in Copy /\ store[c].epoch <= epoch /\ requests[c] \in Nat
        /\ (store[c].epoch = epoch => Current(store[c]))
    BY DEF StoreInv, AskInv
  <2>2. store[c].epoch \in Nat /\ store[c].rows \in Rows
    BY <2>1 DEF Copy
  <2>3. store[c].rows[p] \in PaneRow
    BY <1>1, <2>2, PlainRows
  <2>4. store[c].epoch = epoch => store[c].rows[p].latest <= seen[p]
    BY <1>1, <2>1 DEF Current
  <2>. QED
    BY <2>1, <2>2, <2>3, <2>4 DEF Ask, PaneRow, Honest
<1>. HIDE DEF req, msk, r
<1>3. /\ wire' \in [Clients -> Seq(Sent)]
      /\ \A d \in Clients : \A i \in DOMAIN wire'[d] : Honest(wire'[d][i], epoch, seen)
  BY <1>1, <1>2, Sending
<1>4. \A m \in UnderWay' : m \in UnderWay
  BY <1>1, SameNews DEF ledgerVars, linkVars
<1>5. LedgerInv' /\ NewsInv' /\ StoreInv'
  BY <1>1, <1>4, Still
<1>6. LinkInv'
  BY <1>1, <1>3 DEF LinkInv, ledgerVars, linkVars
<1>7. AskInv'
  <2>1. /\ overlays' = [d \in Clients |-> overlays'[d]] /\ pending' = [d \in Clients |-> pending'[d]]
        /\ requests' \in [Clients -> Nat]
    <3>1. overlays = [d \in Clients |-> overlays[d]] /\ pending = [d \in Clients |-> pending[d]]
      BY DEF AskInv
    <3>2. overlays' = [d \in Clients |-> overlays'[d]]
      BY <1>1, <3>1, ExceptFacts, Zenon
    <3>3. pending' = [d \in Clients |-> pending'[d]]
      BY <1>1, <3>1, ExceptFacts, Zenon
    <3>4. requests' \in [Clients -> Nat]
      <4>1. requests \in [Clients -> Nat] /\ requests[c] + 1 \in Nat
        BY DEF AskInv
      <4>. QED
        BY <1>1, <4>1
    <3>. QED
      BY <3>2, <3>3, <3>4
  <2>2. ASSUME NEW d \in Clients
        PROVE  /\ DOMAIN pending'[d] \subseteq DOMAIN overlays'[d]
               /\ \A k \in DOMAIN pending'[d] : pending'[d][k] \in Ask /\ Honest(pending'[d][k], epoch, seen)
    <3>1. CASE d = c
      <4>1. /\ DOMAIN pending'[c] = DOMAIN pending[c] \cup {r}
            /\ DOMAIN overlays'[c] = DOMAIN overlays[c] \cup {r}
            /\ \A k \in DOMAIN pending'[c] : pending'[c][k] = IF k = r THEN req ELSE pending[c][k]
        BY <1>1 DEF AskInv
      <4>. QED
        BY <1>2, <3>1, <4>1 DEF AskInv
    <3>2. CASE d # c
      <4>1. pending'[d] = pending[d] /\ overlays'[d] = overlays[d]
        BY <1>1, <3>2 DEF AskInv
      <4>. QED
        BY <4>1 DEF AskInv
    <3>. QED
      BY <3>1, <3>2
  <2>. QED
    BY <1>1, <1>3, <2>1, <2>2 DEF AskInv, Honest, ledgerVars
<1>. QED
  BY <1>5, <1>6, <1>7

LEMMA ExceptSame ==
    ASSUME NEW f, NEW D, f = [x \in D |-> f[x]], NEW y \in D
    PROVE  f = [f EXCEPT ![y] = f[y]]
OBVIOUS

\* A step that changes the requests of one client, and may have shown more.
LEMMA AskMoves ==
    ASSUME LedgerInv, AskInv, NEW c \in Clients, NEW mine, NEW masks,
           overlays' = [overlays EXCEPT ![c] = masks],
           pending' = [pending EXCEPT ![c] = mine],
           DOMAIN mine \subseteq DOMAIN masks,
           \A k \in DOMAIN mine : mine[k] \in Ask /\ Honest(mine[k], epoch, seen),
           wire' \in [Clients -> Seq(Sent)],
           \A d \in Clients : \A i \in DOMAIN wire'[d] : Honest(wire'[d][i], epoch, seen),
           UNCHANGED <<epoch, requests>>,
           seen' \in [Panes -> Nat], \A p \in Panes : seen[p] <= seen'[p]
    PROVE  AskInv'
<1>1. \A p \in Panes : seen[p] \in Nat /\ seen'[p] \in Nat /\ seen[p] <= seen'[p]
  BY DEF LedgerInv
<1>2. \A a : /\ a \in Ask /\ Honest(a, epoch, seen) => Honest(a, epoch', seen')
             /\ a \in Sent /\ Honest(a, epoch, seen) => Honest(a, epoch', seen')
  BY <1>1 DEF Ask, Sent, Honest
<1>3. /\ overlays = [d \in Clients |-> overlays[d]] /\ pending = [d \in Clients |-> pending[d]]
      /\ requests \in [Clients -> Nat]
  BY DEF AskInv
<1>4. /\ overlays' = [d \in Clients |-> overlays'[d]] /\ overlays'[c] = masks
      /\ \A d \in Clients \ {c} : overlays'[d] = overlays[d]
  BY <1>3, ExceptFacts, Zenon
<1>5. /\ pending' = [d \in Clients |-> pending'[d]] /\ pending'[c] = mine
      /\ \A d \in Clients \ {c} : pending'[d] = pending[d]
  BY <1>3, ExceptFacts, Zenon
<1>6. ASSUME NEW d \in Clients
      PROVE  /\ DOMAIN pending'[d] \subseteq DOMAIN overlays'[d]
             /\ \A k \in DOMAIN pending'[d] : pending'[d][k] \in Ask /\ Honest(pending'[d][k], epoch', seen')
  <2>1. CASE d = c
    BY <1>2, <1>4, <1>5, <2>1
  <2>2. CASE d # c
    <3>1. pending'[d] = pending[d] /\ overlays'[d] = overlays[d]
      BY <1>4, <1>5, <2>2
    <3>2. /\ DOMAIN pending[d] \subseteq DOMAIN overlays[d]
          /\ \A k \in DOMAIN pending[d] : pending[d][k] \in Ask /\ Honest(pending[d][k], epoch, seen)
      BY DEF AskInv
    <3>. QED
      BY <1>2, <3>1, <3>2
  <2>. QED
    BY <2>1, <2>2
<1>7. ASSUME NEW d \in Clients, NEW i \in DOMAIN wire'[d] PROVE Honest(wire'[d][i], epoch', seen')
  <2>1. wire'[d][i] \in Sent
    BY <1>7
  <2>. QED
    BY <1>2, <2>1
<1>. QED
  BY <1>3, <1>4, <1>5, <1>6, <1>7 DEF AskInv

LEMMA AckTimeoutStep == ASSUME IInv, NEW c \in Clients, NEW r \in Nat, AckTimeout(c, r) PROVE IInv'
<1>. USE DEF IInv
<1>1. /\ r \in DOMAIN pending[c]
      /\ UNCHANGED <<ledgerVars, linkVars, queue, store, requests, seen>>
  BY DEF AckTimeout
<1>2. UNCHANGED <<epoch, requests, outbox, link, links, held, queue, store, seen>>
  BY <1>1 DEF ledgerVars, linkVars
<1>3. /\ DOMAIN pending[c] \subseteq DOMAIN overlays[c]
      /\ \A k \in DOMAIN pending[c] : pending[c][k] \in Ask /\ Honest(pending[c][k], epoch, seen)
      /\ \A d \in Clients : \A i \in DOMAIN wire[d] : Honest(wire[d][i], epoch, seen)
  BY DEF AskInv
<1>4. seen' \in [Panes -> Nat] /\ \A p \in Panes : seen[p] <= seen'[p]
  BY <1>2 DEF LedgerInv
<1>5. wire' \in [Clients -> Seq(Sent)] /\ AskInv'
  <2>1. CASE /\ pending' = [pending EXCEPT ![c] = Without(@, {r})]
             /\ overlays' = [overlays EXCEPT ![c] = Without(@, {r})]
             /\ UNCHANGED wire
    <3>. DEFINE mine  == Without(pending[c], {r})
                masks == Without(overlays[c], {r})
    <3>1. /\ DOMAIN mine \subseteq DOMAIN masks
          /\ \A k \in DOMAIN mine : mine[k] \in Ask /\ Honest(mine[k], epoch, seen)
      BY <1>3 DEF Without, Restrict
    <3>2. wire' \in [Clients -> Seq(Sent)] /\ \A d \in Clients : \A i \in DOMAIN wire'[d] : Honest(wire'[d][i], epoch, seen)
      BY <1>3, <2>1 DEF LinkInv
    <3>3. overlays' = [overlays EXCEPT ![c] = masks] /\ pending' = [pending EXCEPT ![c] = mine]
      BY <2>1
    <3>. HIDE DEF mine, masks
    <3>. QED
      BY <1>2, <1>4, <3>1, <3>2, <3>3, AskMoves
  <2>2. CASE /\ pending' = [pending EXCEPT ![c][r].attempts = @ + 1]
             /\ SendRequest(c, r, pending[c][r])
             /\ UNCHANGED overlays
    <3>. DEFINE again == [pending[c][r] EXCEPT !.attempts = @ + 1]
                mine  == [pending[c] EXCEPT ![r] = again]
    <3>1. \A k \in DOMAIN mine : mine[k] \in Ask /\ Honest(mine[k], epoch, seen)
      <4>1. pending[c][r] \in Ask /\ Honest(pending[c][r], epoch, seen)
        BY <1>1, <1>3
      <4>2. again \in Ask /\ Honest(again, epoch, seen)
        BY <4>1 DEF Ask, Honest
      <4>. HIDE DEF again
      <4>3. \A k \in DOMAIN mine : k \in DOMAIN pending[c] /\ mine[k] = IF k = r THEN again ELSE pending[c][k]
        OBVIOUS
      <4>. QED
        BY <1>3, <4>2, <4>3
    <3>2. /\ wire' \in [Clients -> Seq(Sent)]
          /\ \A d \in Clients : \A i \in DOMAIN wire'[d] : Honest(wire'[d][i], epoch, seen)
      BY <1>1, <1>3, <2>2, Sending
    <3>3. overlays' = [overlays EXCEPT ![c] = overlays[c]]
      <4>1. overlays = [d \in Clients |-> overlays[d]]
        BY DEF AskInv
      <4>. QED
        BY <2>2, <4>1, ExceptSame, Zenon
    <3>4. pending' = [pending EXCEPT ![c] = mine]
      BY <2>2
    <3>5. DOMAIN mine \subseteq DOMAIN overlays[c]
      BY <1>3
    <3>. HIDE DEF mine
    <3>. QED
      BY <1>2, <1>4, <3>1, <3>2, <3>3, <3>4, <3>5, AskMoves
  <2>. QED
    BY <2>1, <2>2 DEF AckTimeout
<1>6. \A m \in UnderWay' : m \in UnderWay
  BY <1>2, SameNews
<1>7. LedgerInv' /\ NewsInv' /\ StoreInv'
  BY <1>1, <1>6, Still
<1>8. LinkInv'
  BY <1>2, <1>5 DEF LinkInv
<1>. QED
  BY <1>5, <1>7, <1>8

\* A copy that may be a client's: of this epoch, it agrees with the ledger and with what
\* is on its way.
Fit(st) ==
    /\ st \in Copy /\ st.epoch <= epoch
    /\ st.epoch = 0 => DOMAIN st.rows = {}
    /\ st.epoch = epoch =>
         /\ Within(st.rows, ledger, nextSeq)
         /\ \A m \in UnderWay : st.revision <= m.revision => Precede(st.rows, m.rows)

\* In the same epoch no row goes back.
Grown(old, st) ==
    st.epoch = old.epoch => \A p \in DOMAIN old.rows \cap DOMAIN st.rows : AtMost(old.rows[p], st.rows[p])

LEMMA StoreFits ==
    ASSUME StoreInv, NEW c \in Clients
    PROVE  Fit(store[c]) /\ Grown(store[c], store[c])
<1>1. Fit(store[c])
  BY DEF StoreInv, Fit, Current
<1>2. \A p \in DOMAIN store[c].rows : store[c].rows[p] \in PaneRow
  BY PlainRows DEF StoreInv, Copy
<1>. QED
  BY <1>1, <1>2 DEF Grown, AtMost, PaneRow

\* applyDelta on a delta under way.
LEMMA DeltaTaken ==
    ASSUME IInv, NEW c \in Clients, NEW d \in UnderWay
    PROVE  Fit(WithDelta(store[c], d)) /\ Grown(store[c], WithDelta(store[c], d))
<1>. USE DEF IInv
<1>. DEFINE old == store[c]
            dom == {q \in DOMAIN old.rows \cup DOMAIN d.rows : q \in DOMAIN d.rows => d.rows[q] # None}
            R   == [p \in dom |-> IF p \in DOMAIN d.rows THEN d.rows[p] ELSE old.rows[p]]
            new == [old EXCEPT !.epoch = d.epoch, !.revision = d.revision, !.rows = R]
            st  == WithDelta(old, d)
<1>1. Fit(old) /\ Grown(old, old) /\ old \in Copy
  BY StoreFits DEF StoreInv
<1>2. /\ d.revision \in Nat /\ d.rows \in Changes /\ d.epoch = epoch /\ epoch \in Nat \ {0}
      /\ Within(d.rows, ledger, nextSeq)
      /\ \A w \in UnderWay : d.revision <= w.revision => Precede(d.rows, w.rows)
  BY RowsOfNews, Numbers DEF NewsInv, UnderWay
<1>3. old.revision \in Nat /\ old.epoch \in Nat /\ old.rows \in Rows /\ old.awaiting \in BOOLEAN
  BY <1>1 DEF Copy
<1>4. \/ st = old
      \/ st = [old EXCEPT !.awaiting = TRUE]
      \/ st = new /\ old.epoch \in {0, d.epoch} /\ ~(d.revision <= old.revision)
  BY DEF WithDelta
<1>5. CASE st = old
  BY <1>1, <1>5
<1>6. CASE st = [old EXCEPT !.awaiting = TRUE]
  <2>1. /\ st \in Copy /\ st.epoch = old.epoch /\ st.revision = old.revision /\ st.rows = old.rows
    BY <1>1, <1>6 DEF Copy
  <2>. HIDE DEF st, old
  <2>2. Fit(st) /\ Grown(old, st)
    BY <1>1, <2>1 DEF Fit, Grown
  <2>. QED
    BY <2>2 DEF st, old
<1>7. CASE st = new /\ old.epoch \in {0, d.epoch} /\ ~(d.revision <= old.revision)
  <2>. HIDE DEF old
  <2>1. /\ DOMAIN R = dom
        /\ \A p \in dom : \/ p \in Present(d.rows) /\ R[p] = d.rows[p]
                          \/ p \notin DOMAIN d.rows /\ p \in DOMAIN old.rows /\ R[p] = old.rows[p]
    BY DEF Present
  <2>2. /\ DOMAIN old.rows \subseteq Panes /\ Present(old.rows) = DOMAIN old.rows
        /\ \A p \in DOMAIN old.rows : old.rows[p] \in PaneRow
        /\ DOMAIN d.rows \subseteq Panes
        /\ \A p \in Present(d.rows) : p \in DOMAIN d.rows /\ d.rows[p] \in PaneRow
    BY <1>2, <1>3, PlainRows, PresentRows
  <2>3. R \in Rows
    <3>1. dom \in SUBSET Panes
      BY <2>2
    <3>2. R \in [dom -> PaneRow]
      BY <2>1, <2>2
    <3>. QED
      BY <3>1, <3>2, Zenon DEF Rows
  <2>. HIDE DEF dom, R
  <2>4. st \in Copy /\ st.epoch = epoch /\ st.revision = d.revision /\ st.rows = R
    BY <1>1, <1>2, <1>7, <2>3 DEF Copy
  <2>5. old.epoch = epoch \/ DOMAIN old.rows = {}
    BY <1>1, <1>2, <1>7 DEF Fit
  <2>6. Present(R) = DOMAIN R
    BY <2>3, PlainRows
  <2>7. Within(R, ledger, nextSeq)
    <3>. SUFFICES ASSUME NEW p \in DOMAIN R
                  PROVE  R[p].latest < nextSeq /\ (p \in DOMAIN ledger => AtMost(R[p], Row(ledger[p])))
      BY <2>6 DEF Within
    <3>1. CASE p \in Present(d.rows) /\ R[p] = d.rows[p]
      BY <1>2, <3>1 DEF Within
    <3>2. CASE p \in DOMAIN old.rows /\ R[p] = old.rows[p]
      BY <1>1, <2>2, <2>5, <3>2 DEF Fit, Within
    <3>. QED
      BY <2>1, <3>1, <3>2
  <2>8. ASSUME NEW w \in UnderWay, d.revision <= w.revision PROVE Precede(R, w.rows)
    <3>1. Precede(d.rows, w.rows)
      BY <1>2, <2>8
    <3>2. old.epoch = epoch => Precede(old.rows, w.rows)
      <4>1. w.revision \in Nat
        BY RowsOfNews DEF UnderWay
      <4>2. old.revision <= w.revision
        BY <1>2, <1>3, <1>7, <2>8, <4>1
      <4>. QED
        BY <1>1, <4>2 DEF Fit
    <3>. QED
      BY <2>1, <2>2, <2>5, <2>6, <3>1, <3>2 DEF Precede
  <2>9. Fit(st)
    BY <1>2, <2>4, <2>7, <2>8 DEF Fit
  <2>10. Grown(old, st)
    <3>. SUFFICES ASSUME old.epoch = epoch, NEW p \in DOMAIN old.rows \cap DOMAIN R
                  PROVE  AtMost(old.rows[p], R[p])
      BY <2>4 DEF Grown
    <3>1. Precede(old.rows, d.rows)
      <4>1. old.revision <= d.revision
        BY <1>2, <1>3, <1>7
      <4>. QED
        BY <1>1, <4>1 DEF Fit
    <3>2. CASE p \in Present(d.rows) /\ R[p] = d.rows[p]
      BY <2>2, <3>1, <3>2 DEF Precede
    <3>3. CASE R[p] = old.rows[p]
      BY <2>2, <3>3 DEF AtMost, PaneRow
    <3>. QED
      BY <2>1, <3>2, <3>3
  <2>. QED
    BY <2>9, <2>10 DEF old
<1>. QED
  BY <1>4, <1>5, <1>6, <1>7

\* applySnapshot on a snapshot under way.
LEMMA SnapshotTaken ==
    ASSUME IInv, NEW c \in Clients, NEW s \in UnderWay, s.type = "snapshot"
    PROVE  Fit(WithSnapshot(store[c], s)) /\ Grown(store[c], WithSnapshot(store[c], s))
<1>. USE DEF IInv
<1>. DEFINE old == store[c]
            new == [epoch |-> s.epoch, revision |-> s.revision, awaiting |-> FALSE, rows |-> s.rows]
            st  == WithSnapshot(old, s)
<1>1. Fit(old) /\ Grown(old, old) /\ old \in Copy
  BY StoreFits DEF StoreInv
<1>2. /\ s.revision \in Nat /\ s.rows \in Rows /\ s.epoch = epoch /\ epoch \in Nat \ {0}
      /\ Within(s.rows, ledger, nextSeq)
      /\ \A w \in UnderWay : s.revision <= w.revision => Precede(s.rows, w.rows)
  BY RowsOfNews, Numbers DEF NewsInv, UnderWay
<1>3. old.revision \in Nat /\ old.rows \in Rows
  BY <1>1 DEF Copy
<1>4. st = old \/ (st = new /\ ~(old.epoch = s.epoch /\ s.revision < old.revision))
  BY DEF WithSnapshot
<1>5. CASE st = old
  BY <1>1, <1>5
<1>6. CASE st = new /\ ~(old.epoch = s.epoch /\ s.revision < old.revision)
  <2>. HIDE DEF old
  <2>1. st \in Copy /\ st.epoch = epoch /\ st.revision = s.revision /\ st.rows = s.rows
    BY <1>2, <1>6 DEF Copy
  <2>2. Fit(st)
    BY <1>2, <2>1 DEF Fit
  <2>3. Grown(old, st)
    <3>. SUFFICES ASSUME old.epoch = epoch PROVE Precede(old.rows, s.rows)
      BY <1>2, <1>3, <2>1, PlainRows DEF Grown, Precede
    <3>1. old.revision <= s.revision
      BY <1>2, <1>3, <1>6
    <3>. QED
      BY <1>1, <3>1 DEF Fit
  <2>. QED
    BY <2>2, <2>3 DEF old
<1>. QED
  BY <1>4, <1>5, <1>6

\* A client takes over a copy that fits.
LEMMA Updating ==
    ASSUME IInv, NEW c \in Clients, NEW st, Fit(st), NEW masks, Update(c, st, masks),
           queue' \in [Clients -> Seq(News \cup Answer)], \A m \in UnderWay' : m \in UnderWay,
           UNCHANGED <<ledgerVars, linkVars, wire, requests>>
    PROVE  IInv'
<1>. USE DEF IInv
<1>1. /\ store' = [store EXCEPT ![c] = st] /\ overlays' = [overlays EXCEPT ![c] = masks]
      /\ pending' = [pending EXCEPT ![c] = Restrict(@, DOMAIN @ \cap DOMAIN masks)]
      /\ seen' = [p \in Panes |-> IF st.epoch = epoch /\ p \in DOMAIN st.rows
                                    THEN Max({seen[p], st.rows[p].latest}) ELSE seen[p]]
  BY DEF Update
<1>2. UNCHANGED <<epoch, revision, nextSeq, ledger, aged, stale, dedup, outbox, link, links, held, wire, requests>>
  BY DEF ledgerVars, linkVars
<1>3. st \in Copy /\ st.rows \in Rows /\ DOMAIN st.rows \subseteq Panes
      /\ \A p \in DOMAIN st.rows : st.rows[p] \in PaneRow /\ st.rows[p].latest \in Nat
  BY PlainRows DEF Fit, Copy, PaneRow
<1>4. seen \in [Panes -> Nat]
  BY DEF LedgerInv
<1>5. ASSUME NEW p \in Panes
      PROVE  /\ seen'[p] \in Nat /\ seen[p] <= seen'[p]
             /\ st.epoch = epoch /\ p \in DOMAIN st.rows => st.rows[p].latest <= seen'[p]
  <2>1. seen[p] \in Nat
    BY <1>4
  <2>2. CASE st.epoch = epoch /\ p \in DOMAIN st.rows
    <3>1. seen'[p] = Max({seen[p], st.rows[p].latest}) /\ st.rows[p].latest \in Nat
      BY <1>1, <1>3, <2>2
    <3>2. Max({seen[p], st.rows[p].latest})
            = IF seen[p] >= st.rows[p].latest THEN seen[p] ELSE st.rows[p].latest
      BY <2>1, <3>1, MaxFacts, Zenon
    <3>. QED
      BY <2>1, <3>1, <3>2
  <2>3. CASE ~(st.epoch = epoch /\ p \in DOMAIN st.rows)
    BY <1>1, <2>1, <2>3
  <2>. QED
    BY <2>2, <2>3
<1>6. seen' \in [Panes -> Nat]
  BY <1>1, <1>5
<1>7. LedgerInv'
  BY <1>2, <1>6 DEF LedgerInv
<1>8. LinkInv'
  BY <1>2 DEF LinkInv
<1>9. AskInv'
  <2>. DEFINE mine == Restrict(pending[c], DOMAIN pending[c] \cap DOMAIN masks)
  <2>1. /\ DOMAIN mine \subseteq DOMAIN masks
        /\ \A k \in DOMAIN mine : mine[k] \in Ask /\ Honest(mine[k], epoch, seen)
    BY DEF Restrict, AskInv
  <2>2. wire' \in [Clients -> Seq(Sent)] /\ \A d \in Clients : \A i \in DOMAIN wire'[d] : Honest(wire'[d][i], epoch, seen)
    BY <1>2 DEF LinkInv, AskInv
  <2>3. pending' = [pending EXCEPT ![c] = mine]
    BY <1>1
  <2>. HIDE DEF mine
  <2>. QED
    BY <1>1, <1>2, <1>5, <1>6, <2>1, <2>2, <2>3, AskMoves
<1>10. NewsInv'
  BY <1>2 DEF NewsInv
<1>11. StoreInv'
  <2>1. store \in [Clients -> Copy]
    BY DEF StoreInv
  <2>2. store' \in [Clients -> Copy] /\ \A d \in Clients : store'[d] = IF d = c THEN st ELSE store[d]
    BY <1>1, <1>3, <2>1
  <2>3. ASSUME NEW d \in Clients
        PROVE  /\ Fit(store'[d])
               /\ store'[d].epoch = epoch => \A p \in DOMAIN store'[d].rows : store'[d].rows[p].latest <= seen'[p]
    <3>1. CASE d = c
      <4>1. store'[d] = st
        BY <2>2, <3>1
      <4>. QED
        BY <1>3, <1>5, <4>1
    <3>2. CASE d # c
      <4>1. store'[d] = store[d] /\ Fit(store[d])
        BY <2>2, <3>2, StoreFits
      <4>2. ASSUME store[d].epoch = epoch, NEW p \in DOMAIN store[d].rows
            PROVE  store[d].rows[p].latest <= seen'[p]
        <5>1. store[d].rows[p].latest <= seen[p]
          BY <4>2 DEF StoreInv, Current
        <5>2. p \in Panes /\ store[d].rows[p].latest \in Nat /\ seen[p] \in Nat
          BY <1>4, <2>1, <4>2, PlainRows DEF Copy, PaneRow
        <5>. QED
          BY <1>5, <5>1, <5>2
      <4>. QED
        BY <4>1, <4>2
    <3>. QED
      BY <3>1, <3>2
  <2>4. ASSUME NEW d \in Clients
        PROVE  /\ store'[d].epoch <= epoch /\ (store'[d].epoch = 0 => DOMAIN store'[d].rows = {})
               /\ store'[d].epoch = epoch =>
                    /\ Within(store'[d].rows, ledger, nextSeq)
                    /\ \A p \in DOMAIN store'[d].rows : store'[d].rows[p].latest <= seen'[p]
                    /\ \A m \in UnderWay' : store'[d].revision <= m.revision => Precede(store'[d].rows, m.rows)
    BY <2>3 DEF Fit
  <2>. QED
    BY <1>2, <2>2, <2>4 DEF StoreInv, Current
<1>. QED
  BY <1>7, <1>8, <1>9, <1>10, <1>11

\* A message leaves the queue of a client.
LEMMA Received ==
    ASSUME IInv, NEW c \in Clients, queue[c] # <<>>, queue' = [queue EXCEPT ![c] = Tail(@)],
           UNCHANGED <<held, outbox>>
    PROVE  /\ queue' \in [Clients -> Seq(News \cup Answer)]
           /\ Head(queue[c]) \in News \cup Answer
           /\ Head(queue[c]) \in News => Head(queue[c]) \in UnderWay
           /\ \A m \in UnderWay' : m \in UnderWay
<1>. DEFINE S == News \cup Answer
<1>1. queue \in [Clients -> Seq(S)]
  BY DEF IInv, LinkInv
<1>. HIDE DEF S
<1>2. /\ Tail(queue[c]) \in Seq(S) /\ Range(Tail(queue[c])) \subseteq Range(queue[c])
      /\ Head(queue[c]) \in Range(queue[c]) /\ Head(queue[c]) \in S
  <2>1. queue[c] \in Seq(S)
    BY <1>1
  <2>. QED
    BY <2>1, RangeFacts, Zenon
<1>3. queue' \in [Clients -> Seq(S)]
  BY <1>1, <1>2
<1>4. \A m \in UnderWay' : m \in UnderWay
  <2>1. /\ \A d \in Clients : \A m \in Range(queue'[d]) : Travels(m) \/ m \in {None}
        /\ \A m \in Range(held') : Travels(m) \/ m \in {None}
        /\ \A m \in Range(outbox') : Travels(m) \/ m \in {None}
    BY <1>1, <1>2, Carried
  <2>2. \A m \in UnderWay' : m \in UnderWay \/ m \in {None} \cap News
    BY <2>1, Flow, Zenon
  <2>. QED
    BY <2>2, NoneIsNoNews
<1>5. Travels(Head(queue[c]))
  BY <1>2, Carried
<1>. QED
  BY <1>2, <1>3, <1>4, <1>5 DEF S, UnderWay

LEMMA ReceiveStep == ASSUME IInv, NEW c \in Clients, Receive(c) PROVE IInv'
<1>. USE DEF IInv
<1>. DEFINE m == Head(queue[c])
<1>1. /\ queue[c] # <<>> /\ queue' = [queue EXCEPT ![c] = Tail(@)]
      /\ UNCHANGED <<ledgerVars, linkVars, wire, requests>>
      /\ \/ m.type = "delta" /\ ReceiveDelta(c, m)
         \/ m.type = "snapshot" /\ ReceiveSnapshot(c, m)
         \/ m.type = "result" /\ ReceiveResult(c, m)
  BY DEF Receive
<1>2. /\ queue' \in [Clients -> Seq(News \cup Answer)]
      /\ m \in News \cup Answer /\ (m \in News => m \in UnderWay)
      /\ \A w \in UnderWay' : w \in UnderWay
  BY <1>1, Received DEF ledgerVars, linkVars
<1>. HIDE DEF m
<1>3. m.type # "result" => m \in UnderWay
  BY <1>2 DEF Answer
<1>4. CASE m.type = "delta" /\ ReceiveDelta(c, m)
  <2>. DEFINE st    == WithDelta(store[c], m)
              masks == IF st.revision = store[c].revision THEN overlays[c]
                       ELSE Revalidated(overlays[c], st)
  <2>1. Fit(st)
    BY <1>3, <1>4, DeltaTaken
  <2>2. Update(c, st, masks)
    BY <1>4 DEF ReceiveDelta
  <2>. HIDE DEF st, masks
  <2>. QED
    BY <1>1, <1>2, <2>1, <2>2, Updating
<1>5. CASE m.type = "snapshot" /\ ReceiveSnapshot(c, m)
  <2>. DEFINE st    == WithSnapshot(store[c], m)
              masks == IF m.epoch # store[c].epoch THEN NoRows
                       ELSE IF st = store[c] THEN overlays[c]
                       ELSE Revalidated(overlays[c], st)
  <2>1. Fit(st)
    BY <1>3, <1>5, SnapshotTaken
  <2>2. Update(c, st, masks)
    BY <1>5 DEF ReceiveSnapshot
  <2>. HIDE DEF st, masks
  <2>. QED
    BY <1>1, <1>2, <2>1, <2>2, Updating
<1>6. CASE m.type = "result" /\ ReceiveResult(c, m)
  <2>1. UNCHANGED <<store, seen>>
    BY <1>6 DEF ReceiveResult
  <2>2. LedgerInv' /\ NewsInv' /\ StoreInv'
    BY <1>1, <1>2, <2>1, Still
  <2>3. LinkInv'
    BY <1>1, <1>2 DEF LinkInv, ledgerVars, linkVars
  <2>4. PICK mine, masks :
          /\ overlays' = [overlays EXCEPT ![c] = masks] /\ pending' = [pending EXCEPT ![c] = mine]
          /\ DOMAIN mine \subseteq DOMAIN masks
          /\ \A k \in DOMAIN mine : k \in DOMAIN pending[c] /\ mine[k] = pending[c][k]
    <3>1. CASE m.status = "stale_epoch"
      <4>1. overlays' = [overlays EXCEPT ![c] = NoRows] /\ pending' = [pending EXCEPT ![c] = NoRows]
        BY <1>6, <3>1 DEF ReceiveResult
      <4>2. DOMAIN NoRows = {}
        BY DEF NoRows
      <4>. QED
        BY <4>1, <4>2
    <3>2. CASE m.status # "stale_epoch"
      <4>. DEFINE r     == m.request
                  mine  == Without(pending[c], {r})
                  masks == IF r \in DOMAIN overlays[c] /\ m.status = "applied" /\ m.revision > store[c].revision
                             THEN [overlays[c] EXCEPT ![r].acked = m.revision]
                             ELSE Without(overlays[c], {r})
      <4>1. overlays' = [overlays EXCEPT ![c] = masks] /\ pending' = [pending EXCEPT ![c] = mine]
        BY <1>6, <3>2 DEF ReceiveResult
      <4>2. DOMAIN pending[c] \subseteq DOMAIN overlays[c]
        BY DEF AskInv
      <4>3. DOMAIN mine = DOMAIN pending[c] \ {r} /\ \A k \in DOMAIN mine : mine[k] = pending[c][k]
        BY DEF Without, Restrict
      <4>4. DOMAIN overlays[c] \ {r} \subseteq DOMAIN masks
        BY DEF Without, Restrict
      <4>. HIDE DEF mine, masks
      <4>. QED
        BY <4>1, <4>2, <4>3, <4>4
    <3>. QED
      BY <3>1, <3>2
  <2>5. \A k \in DOMAIN mine : mine[k] \in Ask /\ Honest(mine[k], epoch, seen)
    BY <2>4 DEF AskInv
  <2>6. wire' \in [Clients -> Seq(Sent)] /\ \A d \in Clients : \A i \in DOMAIN wire'[d] : Honest(wire'[d][i], epoch, seen)
    BY <1>1 DEF LinkInv, AskInv
  <2>7. UNCHANGED <<epoch, requests>> /\ seen' \in [Panes -> Nat] /\ \A p \in Panes : seen[p] <= seen'[p]
    BY <1>1, <2>1 DEF ledgerVars, LedgerInv
  <2>8. AskInv'
    BY <2>4, <2>5, <2>6, <2>7, AskMoves
  <2>. QED
    BY <2>2, <2>3, <2>8
<1>. QED
  BY <1>1, <1>4, <1>5, <1>6

-----------------------------------------------------------------------------
(* The invariant holds.                                                    *)

LEMMA InitIInv == Init => IInv
<1>. SUFFICES ASSUME Init PROVE IInv
  OBVIOUS
<1>1. /\ epoch = 1 /\ revision = 0 /\ nextSeq = 1 /\ ledger = NoRows /\ aged = 0 /\ stale = {}
      /\ dedup = NoRows /\ outbox = [t \in Threads |-> None]
      /\ link = [c \in Clients |-> "down"] /\ links = [c \in Clients |-> 0]
      /\ held = [c \in Clients |-> None]
      /\ queue = [c \in Clients |-> <<>>] /\ wire = [c \in Clients |-> <<>>]
      /\ store = [c \in Clients |-> [epoch |-> 0, revision |-> 0, awaiting |-> FALSE, rows |-> NoRows]]
      /\ overlays = [c \in Clients |-> NoRows] /\ pending = [c \in Clients |-> NoRows]
      /\ requests = [c \in Clients |-> 0] /\ seen = [p \in Panes |-> 0]
  BY DEF Init
<1>2. MaxEpoch \in Nat \ {0} /\ MaxSeq \in Nat /\ IdentityCap \in Nat
  BY CapAssumption
<1>3. DOMAIN NoRows = {} /\ NoRows \in Rows
  <2>1. NoRows \in [{} -> PaneRow] /\ {} \in SUBSET Panes
    BY DEF NoRows
  <2>. QED
    BY <2>1, Zenon DEF Rows, NoRows
<1>4. LedgerInv
  <2>1. IsFiniteSet({}) /\ Cardinality({}) <= IdentityCap
    BY <1>2, FS_EmptySet
  <2>2. epoch \in 1 .. MaxEpoch /\ nextSeq \in 1 .. MaxSeq + 1 /\ aged \in Nat /\ aged < nextSeq /\ revision \in Nat
    BY <1>1, <1>2
  <2>3. DOMAIN ledger = {} /\ DOMAIN dedup = {} /\ stale = {}
    BY <1>1, <1>3
  <2>4. seen \in [Panes -> Nat]
    BY <1>1
  <2>. QED
    BY <2>1, <2>2, <2>3, <2>4 DEF LedgerInv, Sound
<1>5. LinkInv
  <2>1. <<>> \in Seq(News \cup Answer) /\ <<>> \in Seq(Sent)
    OBVIOUS
  <2>. QED
    BY <1>1, <2>1 DEF LinkInv
<1>6. AskInv
  <2>1. \A c \in Clients : DOMAIN pending[c] = {} /\ DOMAIN wire[c] = {}
    BY <1>1, <1>3
  <2>2. overlays = [c \in Clients |-> overlays[c]] /\ pending = [c \in Clients |-> pending[c]]
        /\ requests \in [Clients -> Nat]
    BY <1>1
  <2>. QED
    BY <2>1, <2>2 DEF AskInv
<1>7. \A m \in UnderWay : FALSE
  <2>1. /\ \A c \in Clients : \A m \in Range(queue[c]) : FALSE
        /\ \A m \in Range(held) : m = None
        /\ \A m \in Range(outbox) : m = None
    BY <1>1 DEF Range
  <2>. QED
    BY <2>1, NoneIsNoNews DEF UnderWay, Travels
<1>8. StoreInv
  <2>1. ASSUME NEW c \in Clients
        PROVE  /\ store[c] \in Copy /\ store[c].epoch = 0 /\ store[c].rows = NoRows
    BY <1>1, <1>3 DEF Copy
  <2>2. store \in [Clients -> Copy]
    BY <1>1, <2>1
  <2>. QED
    BY <1>1, <1>3, <2>1, <2>2 DEF StoreInv
<1>. QED
  BY <1>4, <1>5, <1>6, <1>7, <1>8 DEF IInv, NewsInv

LEMMA Step == IInv /\ [Next]_vars => IInv'
<1>. SUFFICES ASSUME IInv, [Next]_vars PROVE IInv'
  OBVIOUS
<1>1. CASE Server
  <2>1. ASSUME NEW p \in Panes, Bell(p) PROVE IInv'
    BY <2>1, BellStep
  <2>2. ASSUME NEW p \in Panes, Notify(p) PROVE IInv'
    BY <2>2, NotifyStep
  <2>3. ASSUME NEW p \in Panes, PaneClosed(p) PROVE IInv'
    BY <2>3, PaneClosedStep
  <2>4. ASSUME NEW t \in Threads, Broadcast(t) PROVE IInv'
    BY <2>4, BroadcastStep
  <2>. QED
    BY <1>1, <2>1, <2>2, <2>3, <2>4, SweepStep, AgeStep, RestartStep DEF Server
<1>2. CASE \E c \in Clients : Client(c)
  <2>. SUFFICES ASSUME NEW c \in Clients, Client(c) PROVE IInv'
    BY <1>2
  <2>1. ASSUME NEW p \in Panes, MarkPaneRead(c, p) PROVE IInv'
    BY <2>1, MarkPaneReadStep
  <2>2. ASSUME NEW r \in 1 .. MaxRequests, AckTimeout(c, r) PROVE IInv'
    <3>1. r \in Nat
      BY CapAssumption
    <3>. QED
      BY <2>2, <3>1, AckTimeoutStep
  <2>. QED
    BY <2>1, <2>2, ConnectStep, TakeSnapshotStep, SendSnapshotStep, DisconnectStep,
       ApplyMarkReadStep, ReceiveStep DEF Client
<1>3. CASE UNCHANGED vars
  <2>1. UNCHANGED <<ledgerVars, linkVars, queue, wire, clientVars>>
    BY <1>3 DEF vars
  <2>2. UNCHANGED <<epoch, revision, nextSeq, ledger, aged, stale, dedup, outbox, link, links, held,
                    queue, wire, store, overlays, pending, requests, seen>>
    BY <2>1 DEF ledgerVars, linkVars, clientVars
  <2>3. \A m \in UnderWay' : m \in UnderWay
    BY <2>2, SameNews
  <2>4. LedgerInv' /\ NewsInv' /\ StoreInv'
    BY <2>1, <2>2, <2>3, Still
  <2>5. LinkInv' /\ AskInv'
    BY <2>2, AskFrame DEF IInv, LinkInv
  <2>. QED
    BY <2>4, <2>5 DEF IInv
<1>. QED
  BY <1>1, <1>2, <1>3 DEF Next

\* The invariant holds throughout: no order of events, deliveries, expiries, read marks,
\* lost connections and restarts breaks it.
THEOREM Invariance == Spec => []IInv
BY InitIInv, Step, PTL DEF Spec

-----------------------------------------------------------------------------
(* What the runs check, as theorems.                                       *)

\* The bounds of the server's numbers and tables, what a connection's states say of the
\* snapshot held for it, and that a request waits for its answer only under a mask.
THEOREM TypeCorrect == Spec => []TypeOK
<1>1. ASSUME IInv PROVE TypeOK
  <2>1. LedgerInv /\ LinkInv /\ AskInv
    BY <1>1 DEF IInv
  <2>2. ASSUME NEW p \in DOMAIN ledger
        PROVE  /\ ledger[p].latest \in 1 .. nextSeq - 1 /\ ledger[p].read <= ledger[p].latest
               /\ Cardinality(ledger[p].unread) <= UnreadCap
    BY <2>1 DEF LedgerInv, Sound, Whole
  <2>. QED
    BY <2>1, <2>2 DEF TypeOK, LedgerInv, LinkInv, AskInv, Sound
<1>. QED
  BY <1>1, Invariance, PTL

\* The two numbers the clients are told of a pane say that it is unread exactly while the
\* server holds unread events of it: record_event, mark_read, expire_into and the caps
\* keep them in step.
THEOREM UnreadTells == Spec => []UnreadIffBehind
<1>1. ASSUME IInv PROVE UnreadIffBehind
  <2>. SUFFICES ASSUME NEW p \in DOMAIN ledger
                PROVE  LET e == ledger[p] IN
                       /\ e.unread # {} <=> e.read < e.latest
                       /\ e.unread # {} => e.latest \in e.unread
                       /\ \A n \in e.unread : n \in e.read + 1 .. e.latest
    BY DEF UnreadIffBehind
  <2>. DEFINE e == ledger[p]
  <2>1. /\ e.latest \in Nat /\ e.read \in Nat
        /\ e.unread \subseteq e.read + 1 .. e.latest /\ e.read <= e.latest
        /\ e.read < e.latest => e.latest \in e.unread
    BY <1>1 DEF IInv, LedgerInv, Sound, Whole, Entry
  <2>. HIDE DEF e
  <2>2. e.unread # {} => e.read < e.latest
    <3>. SUFFICES ASSUME NEW n \in e.unread PROVE e.read < e.latest
      OBVIOUS
    <3>1. n \in e.read + 1 .. e.latest
      BY <2>1
    <3>. QED
      BY <2>1, <3>1
  <2>3. e.read < e.latest => e.unread # {}
    BY <2>1
  <2>. QED
    BY <2>1, <2>2, <2>3 DEF e
<1>. QED
  BY <1>1, Invariance, PTL

\* A pane that has been read for longer than UNREAD_TTL has no unread events: nothing is
\* recorded of it without forgetting it first.
StaleInv == \A p \in stale : ledger[p].unread = {}

LEMMA StaleStep == StaleInv /\ [Next]_vars => StaleInv'
<1>. SUFFICES ASSUME StaleInv, [Next]_vars PROVE StaleInv'
  OBVIOUS
<1>1. stale' = {} \/ UNCHANGED <<stale, ledger>> \/ Age
  <2>1. CASE Server
    BY <2>1 DEF Server, Bell, Notify, PaneClosed, Sweep, Restart, Broadcast, Commit
  <2>2. CASE \E c \in Clients : Client(c)
    <3>. SUFFICES ASSUME NEW c \in Clients, Client(c) PROVE stale' = {} \/ UNCHANGED <<stale, ledger>>
      BY <2>2
    <3>1. CASE ApplyMarkRead(c)
      BY <3>1 DEF ApplyMarkRead, Commit
    <3>2. CASE ~ApplyMarkRead(c)
      BY <3>2 DEF Client, Connect, TakeSnapshot, SendSnapshot, Disconnect, Receive, MarkPaneRead,
         AckTimeout, ledgerVars
    <3>. QED
      BY <3>1, <3>2
  <2>3. CASE UNCHANGED vars
    BY <2>3 DEF vars, ledgerVars
  <2>. QED
    BY <2>1, <2>2, <2>3 DEF Next
<1>2. CASE Age
  <2>1. CASE UNCHANGED stale
    BY <1>2, <2>1 DEF Age, StaleInv
  <2>2. CASE \E p \in DOMAIN ledger \ stale : ledger[p].unread = {} /\ stale' = stale \cup {p}
    BY <1>2, <2>2 DEF Age, StaleInv
  <2>. QED
    BY <1>2, <2>1, <2>2 DEF Age
<1>. QED
  BY <1>1, <1>2 DEF StaleInv

LEMMA StaleAreRead == Spec => []StaleInv
<1>1. Init => StaleInv
  BY DEF Init, StaleInv
<1>. QED
  BY <1>1, StaleStep, PTL DEF Spec

\* What expiry takes away has aged.
LEMMA OnlyAgedExpire ==
    ASSUME LedgerInv, NEW p \in DOMAIN Expired(ledger), NEW n \in ledger[p].unread \ Expired(ledger)[p].unread
    PROVE  n <= aged
<1>1. p \in DOMAIN ledger /\ Expired(ledger)[p].unread = {k \in ledger[p].unread : k > aged}
  BY Expiring
<1>2. n \in Nat /\ aged \in Nat
  BY <1>1 DEF LedgerInv, Sound, Whole, Entry
<1>3. ~(n > aged)
  BY <1>1
<1>. QED
  BY <1>2, <1>3

\* What an event takes away has aged, or was the oldest of a full row.
LEMMA EventTakes ==
    ASSUME LedgerInv, StaleInv, NEW p \in Panes, NEW L \in Capped(Recorded(Expired(ledger), p)),
           NEW q \in DOMAIN ledger \cap DOMAIN L, NEW n \in ledger[q].unread \ L[q].unread
    PROVE  \/ n <= aged
           \/ Cardinality(ledger[q].unread) = UnreadCap /\ L[q].latest # ledger[q].latest
<1>. DEFINE K == Expired(ledger)
<1>1. /\ Sound(K, nextSeq - 1) /\ DOMAIN K \subseteq DOMAIN ledger
      /\ \A r \in DOMAIN K : K[r].unread = {k \in ledger[r].unread : k > aged}
  BY Expiring
<1>2. q \in DOMAIN K
  <2>1. q \notin stale
    BY DEF StaleInv
  <2>. QED
    BY <2>1 DEF Expired
<1>3. q \in DOMAIN L /\ L[q] = Recorded(K, p)[q]
  BY Event
<1>4. CASE n \notin K[q].unread
  BY <1>2, <1>4, OnlyAgedExpire
<1>. HIDE DEF K
<1>5. CASE n \in K[q].unread
  <2>1. /\ \A r \in DOMAIN K \ {p} : Recorded(K, p)[r] = K[r]
        /\ Recorded(K, p)[p] = RecordedEntry(Had(K, p)) /\ Recorded(K, p)[p].latest = nextSeq
    BY <1>1, Numbers, RecordedFacts, Zenon
  <2>2. q = p
    BY <1>2, <1>3, <1>5, <2>1
  <2>3. L[q] = RecordedEntry(K[q]) /\ L[q].latest = nextSeq
    BY <1>2, <1>3, <2>1, <2>2 DEF Had
  <2>4. ledger[q].latest # nextSeq
    <3>1. ledger[q].latest < nextSeq /\ ledger[q].latest \in Nat
      BY Numbers, SoundRow DEF LedgerInv
    <3>. QED
      BY <3>1
  <2>5. ~(Cardinality(K[q].unread) < UnreadCap)
    <3>1. /\ K[q] \in Entry /\ K[q].latest \in 1 .. nextSeq - 1 /\ K[q].read <= K[q].latest
          /\ K[q].unread \subseteq K[q].read + 1 .. K[q].latest
          /\ IsFiniteSet(K[q].unread) /\ Cardinality(K[q].unread) <= UnreadCap
      BY <1>1, <1>2 DEF Sound, Whole
    <3>2. K[q].read \in Nat /\ nextSeq \in Nat \ {0}
      BY <3>1, Numbers DEF Entry
    <3>3. K[q].read < nextSeq /\ K[q].unread \subseteq K[q].read + 1 .. nextSeq - 1
      BY <3>1, <3>2
    <3>4. Cardinality(K[q].unread) < UnreadCap
            => RecordedEntry(K[q]).unread = K[q].unread \cup {nextSeq}
      BY <3>1, <3>2, <3>3, RecordedEntryFacts, Zenon
    <3>. QED
      BY <3>4, <1>5, <2>3
  <2>6. Cardinality(ledger[q].unread) = UnreadCap
    <3>1. /\ IsFiniteSet(ledger[q].unread) /\ Cardinality(ledger[q].unread) <= UnreadCap
          /\ K[q].unread \in SUBSET ledger[q].unread
      BY <1>1, <1>2 DEF LedgerInv, Sound, Whole
    <3>2. IsFiniteSet(K[q].unread) /\ Cardinality(K[q].unread) <= Cardinality(ledger[q].unread)
      BY <3>1, FS_Subset, Zenon
    <3>3. /\ Cardinality(K[q].unread) \in Nat /\ Cardinality(ledger[q].unread) \in Nat
          /\ UnreadCap \in Nat
      BY <3>1, <3>2, FS_CardinalityType, CapAssumption
    <3>. QED
      BY <2>5, <3>1, <3>2, <3>3
  <2>. QED
    BY <2>3, <2>4, <2>6
<1>. QED
  BY <1>4, <1>5

\* What a request takes away has aged or was seen: it is an honest one.
LEMMA RequestTakes ==
    ASSUME IInv, NEW c \in Clients, ApplyMarkRead(c), ledger' # ledger
    PROVE  \A p \in DOMAIN ledger \cap DOMAIN ledger' :
             \A n \in ledger[p].unread \ ledger'[p].unread : n <= aged \/ n <= seen[p]
<1>. DEFINE req == Head(wire[c])
<1>1. /\ wire[c] # <<>> /\ wire' = [wire EXCEPT ![c] = Tail(@)]
      /\ UNCHANGED <<epoch, linkVars, clientVars>> /\ ledger' = MarkRead(req)
  BY DEF ApplyMarkRead, MarkRead, Commit
<1>2. req \in Sent /\ Honest(req, epoch, seen)
  BY <1>1, Taken DEF clientVars, IInv
<1>3. \A p \in DOMAIN MarkRead(req) :
        \A n \in ledger[p].unread \ MarkRead(req)[p].unread : n <= aged \/ n <= seen[p]
  BY <1>2, MarkReadFacts, Zenon DEF IInv
<1>. QED
  BY <1>1, <1>3

\* Whatever order events, read marks, expiry, reconnects and restarts come in, no unread
\* event is taken away that is later than all its pane's rows the clients have had, unless
\* it is too old or a full row makes room: apply_mark_read checks the epoch of a request,
\* and a request marks up to what its sender was shown.
THEOREM OnlySeenIsRead == Spec => ReadOnlySeen
<1>. DEFINE Kept(p) == \A n \in ledger[p].unread \ ledger'[p].unread :
                         \/ epoch' # epoch
                         \/ n <= aged
                         \/ Cardinality(ledger[p].unread) = UnreadCap /\ ledger'[p].latest # ledger[p].latest
                         \/ n <= seen[p]
<1>1. ASSUME IInv, StaleInv, Next PROVE \A p \in DOMAIN ledger \cap DOMAIN ledger' : Kept(p)
  <2>. USE <1>1 DEF IInv
  <2>1. ASSUME NEW p \in Panes, Bell(p) \/ Notify(p)
        PROVE  \A q \in DOMAIN ledger \cap DOMAIN ledger' : Kept(q)
    <3>1. ledger' \in Capped(Recorded(Expired(ledger), p))
      BY <2>1 DEF Bell, Notify, Commit
    <3>. QED
      BY <3>1, EventTakes
  <2>2. ASSUME NEW L, ledger' = L, L = Expired(ledger) \/ \E p \in Panes : L = Without(Expired(ledger), {p})
        PROVE  \A q \in DOMAIN ledger \cap DOMAIN ledger' : Kept(q)
    <3>1. DOMAIN L \subseteq DOMAIN Expired(ledger) /\ \A q \in DOMAIN L : L[q] = Expired(ledger)[q]
      BY <2>2 DEF Without, Restrict
    <3>. QED
      BY <2>2, <3>1, OnlyAgedExpire
  <2>3. CASE Server
    <3>1. ASSUME NEW p \in Panes, PaneClosed(p) PROVE \A q \in DOMAIN ledger \cap DOMAIN ledger' : Kept(q)
      BY <3>1, <2>2 DEF PaneClosed, Closed, Commit
    <3>2. CASE Sweep
      BY <3>2, <2>2 DEF Sweep, Swept, Commit
    <3>3. CASE Restart
      BY <3>3, Numbers DEF Restart
    <3>4. CASE Age \/ \E t \in Threads : Broadcast(t)
      BY <3>4 DEF Age, Broadcast
    <3>. QED
      BY <2>1, <2>3, <3>1, <3>2, <3>3, <3>4 DEF Server
  <2>4. CASE \E c \in Clients : Client(c)
    <3>. SUFFICES ASSUME NEW c \in Clients, Client(c), ledger' # ledger
                  PROVE  \A q \in DOMAIN ledger \cap DOMAIN ledger' : Kept(q)
      BY <2>4
    <3>1. ApplyMarkRead(c)
      BY DEF Client, Connect, TakeSnapshot, SendSnapshot, Disconnect, Receive, MarkPaneRead,
         AckTimeout, ledgerVars
    <3>. QED
      BY <3>1, RequestTakes
  <2>. QED
    BY <2>3, <2>4 DEF Next
<1>2. ASSUME IInv, StaleInv, [Next]_vars
      PROVE  [\A p \in DOMAIN ledger \cap DOMAIN ledger' : Kept(p)]_vars
  BY <1>1, <1>2
<1>3. Spec => [][\A p \in DOMAIN ledger \cap DOMAIN ledger' : Kept(p)]_vars
  BY <1>2, Invariance, StaleAreRead, PTL DEF Spec
<1>. QED
  BY <1>3 DEF ReadOnlySeen

\* Whatever order deltas and snapshots come in, a row of a client's copy does not go back
\* within an epoch: applyDelta and applySnapshot go by the revision, and two messages of
\* an epoch differ only as the ledger has moved on between their revisions.
THEOREM ReadMarksStay == Spec => ReadStaysRead
<1>. DEFINE Stays(c) == store'[c].epoch = store[c].epoch =>
                          \A p \in DOMAIN store[c].rows \cap DOMAIN store'[c].rows :
                             LET old == store[c].rows[p]
                                 new == store'[c].rows[p] IN
                             \/ new.latest > old.latest
                             \/ new.latest = old.latest /\ new.read >= old.read
<1>1. ASSUME IInv, Next, NEW c \in Clients PROVE Stays(c)
  <2>. USE <1>1 DEF IInv
  <2>1. Grown(store[c], store'[c])
    <3>1. CASE store' = store
      BY <3>1, StoreFits
    <3>2. CASE store' # store
      <4>1. PICK d \in Clients : Receive(d)
        BY <3>2 DEF Next, Server, Bell, Notify, PaneClosed, Sweep, Age, Restart, Broadcast, Client,
           Connect, TakeSnapshot, SendSnapshot, Disconnect, ApplyMarkRead, MarkPaneRead, AckTimeout,
           clientVars
      <4>. DEFINE m == Head(queue[d])
      <4>2. /\ queue[d] # <<>> /\ queue' = [queue EXCEPT ![d] = Tail(@)] /\ UNCHANGED <<held, outbox>>
            /\ \/ m.type = "delta" /\ ReceiveDelta(d, m)
               \/ m.type = "snapshot" /\ ReceiveSnapshot(d, m)
        BY <4>1, <3>2 DEF Receive, ReceiveResult, ledgerVars, linkVars
      <4>3. m \in UnderWay
        <5>1. m \in News \cup Answer /\ (m \in News => m \in UnderWay)
          BY <4>2, Received
        <5>. QED
          BY <4>2, <5>1 DEF Answer
      <4>. HIDE DEF m
      <4>4. PICK st : store' = [store EXCEPT ![d] = st] /\ Grown(store[d], st)
        <5>1. CASE ReceiveDelta(d, m)
          BY <5>1, <4>3, DeltaTaken DEF ReceiveDelta, Update
        <5>2. CASE m.type = "snapshot" /\ ReceiveSnapshot(d, m)
          BY <5>2, <4>3, SnapshotTaken DEF ReceiveSnapshot, Update
        <5>. QED
          BY <4>2, <5>1, <5>2
      <4>. QED
        BY <4>4, StoreFits DEF StoreInv
    <3>. QED
      BY <3>1, <3>2
  <2>2. store \in [Clients -> Copy] /\ store' \in [Clients -> Copy]
    BY Step DEF StoreInv
  <2>3. ASSUME store'[c].epoch = store[c].epoch, NEW p \in DOMAIN store[c].rows \cap DOMAIN store'[c].rows
        PROVE  LET old == store[c].rows[p]
                   new == store'[c].rows[p] IN
               new.latest > old.latest \/ (new.latest = old.latest /\ new.read >= old.read)
    <3>1. store[c].rows[p] \in PaneRow /\ store'[c].rows[p] \in PaneRow
      BY <2>2, PlainRows DEF Copy
    <3>2. AtMost(store[c].rows[p], store'[c].rows[p])
      BY <2>1, <2>3 DEF Grown
    <3>. QED
      BY <3>1, <3>2 DEF AtMost, PaneRow
  <2>. QED
    BY <2>3
<1>2. ASSUME IInv, [Next]_vars PROVE [\A c \in Clients : Stays(c)]_vars
  BY <1>1, <1>2
<1>3. Spec => [][\A c \in Clients : Stays(c)]_vars
  BY <1>2, Invariance, PTL DEF Spec
<1>. QED
  BY <1>3 DEF ReadStaysRead

=============================================================================
