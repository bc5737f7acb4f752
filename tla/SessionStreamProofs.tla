------------------------- MODULE SessionStreamProofs -------------------------
(***************************************************************************)
(* Proofs about SessionStream, for any clients, sequences of SyncEvents,   *)
(* capacities and numbers of reads and resizes.                            *)
(***************************************************************************)
EXTENDS SessionStream, TLAPS

-----------------------------------------------------------------------------
(* Sequences of chunks, and the data of sequences of events.               *)

Sorted(s)    == \A i, j \in DOMAIN s : i < j => s[i] < s[j]
Before(S, T) == \A x \in S, y \in T : x < y

Data(q) == UNION {Range(q[i].data) : i \in DOMAIN q}
SortedData(q) ==
    /\ \A i \in DOMAIN q : Sorted(q[i].data)
    /\ \A i, j \in DOMAIN q : i < j => Before(Range(q[i].data), Range(q[j].data))

\* A sequence of one.
LEMMA RangeOne == ASSUME NEW x PROVE Range(<<x>>) = {x}
<1>1. ASSUME NEW y \in Range(<<x>>) PROVE y = x
  BY SMT DEF Range
<1>2. 1 \in DOMAIN <<x>> /\ <<x>>[1] = x
  OBVIOUS
<1>3. x \in Range(<<x>>)
  BY <1>2 DEF Range
<1>. QED
  BY <1>1, <1>3

\* What is in a concatenation, and when it is sorted.
LEMMA ConcatFacts ==
    ASSUME NEW s \in Seq(Chunk), NEW t \in Seq(Chunk)
    PROVE  /\ s \o t \in Seq(Chunk)
           /\ Range(s \o t) = Range(s) \cup Range(t)
           /\ Sorted(s) /\ Sorted(t) /\ Before(Range(s), Range(t)) => Sorted(s \o t)
<1>1. /\ Len(s \o t) = Len(s) + Len(t)
      /\ \A i \in DOMAIN s : i \in DOMAIN (s \o t) /\ (s \o t)[i] = s[i]
      /\ \A i \in DOMAIN t : i + Len(s) \in DOMAIN (s \o t) /\ (s \o t)[i + Len(s)] = t[i]
  OBVIOUS
<1>2. \A i \in DOMAIN (s \o t) : \/ i \in DOMAIN s
                                 \/ i - Len(s) \in DOMAIN t /\ i = (i - Len(s)) + Len(s)
  OBVIOUS
<1>3. Range(s \o t) = Range(s) \cup Range(t)
  <2>1. ASSUME NEW x \in Range(s \o t) PROVE x \in Range(s) \cup Range(t)
    BY <1>1, <1>2 DEF Range
  <2>2. ASSUME NEW x \in Range(s) \cup Range(t) PROVE x \in Range(s \o t)
    BY <1>1 DEF Range
  <2>. QED
    BY <2>1, <2>2
<1>4. ASSUME Sorted(s), Sorted(t), Before(Range(s), Range(t)) PROVE Sorted(s \o t)
  <2>. SUFFICES ASSUME NEW i \in DOMAIN (s \o t), NEW j \in DOMAIN (s \o t), i < j
                PROVE  (s \o t)[i] < (s \o t)[j]
    BY DEF Sorted
  <2>1. CASE i \in DOMAIN s /\ j \in DOMAIN s
    BY <2>1, <1>1, <1>4 DEF Sorted
  <2>2. CASE i \in DOMAIN s /\ j - Len(s) \in DOMAIN t
    BY <2>2, <1>1, <1>2, <1>4 DEF Before, Range
  <2>3. CASE i - Len(s) \in DOMAIN t /\ j - Len(s) \in DOMAIN t
    BY <2>3, <1>1, <1>2, <1>4 DEF Sorted
  <2>. QED
    BY <2>1, <2>2, <2>3, <1>2
<1>. QED
  BY <1>3, <1>4

\* The same of queues.
LEMMA DataConcat ==
    ASSUME NEW q \in Seq(Message), NEW r \in Seq(Message)
    PROVE  /\ q \o r \in Seq(Message)
           /\ Data(q \o r) = Data(q) \cup Data(r)
           /\ SortedData(q) /\ SortedData(r) /\ Before(Data(q), Data(r)) => SortedData(q \o r)
<1>1. /\ Len(q \o r) = Len(q) + Len(r)
      /\ \A i \in DOMAIN q : i \in DOMAIN (q \o r) /\ (q \o r)[i] = q[i]
      /\ \A i \in DOMAIN r : i + Len(q) \in DOMAIN (q \o r) /\ (q \o r)[i + Len(q)] = r[i]
  OBVIOUS
<1>2. \A i \in DOMAIN (q \o r) : \/ i \in DOMAIN q
                                 \/ i - Len(q) \in DOMAIN r /\ i = (i - Len(q)) + Len(q)
  OBVIOUS
<1>3. Data(q \o r) = Data(q) \cup Data(r)
  <2>1. ASSUME NEW x \in Data(q \o r) PROVE x \in Data(q) \cup Data(r)
    BY <1>1, <1>2 DEF Data
  <2>2. ASSUME NEW x \in Data(q) \cup Data(r) PROVE x \in Data(q \o r)
    BY <1>1 DEF Data
  <2>. QED
    BY <2>1, <2>2
<1>4. ASSUME SortedData(q), SortedData(r), Before(Data(q), Data(r)) PROVE SortedData(q \o r)
  <2>1. ASSUME NEW i \in DOMAIN (q \o r) PROVE Sorted((q \o r)[i].data)
    BY <1>1, <1>2, <1>4 DEF SortedData
  <2>2. ASSUME NEW i \in DOMAIN (q \o r), NEW j \in DOMAIN (q \o r), i < j
        PROVE  Before(Range((q \o r)[i].data), Range((q \o r)[j].data))
    <3>1. CASE i \in DOMAIN q /\ j \in DOMAIN q
      BY <3>1, <1>1, <1>4, <2>2 DEF SortedData
    <3>2. CASE i \in DOMAIN q /\ j - Len(q) \in DOMAIN r
      BY <3>2, <1>1, <1>2, <1>4 DEF Before, Data
    <3>3. CASE i - Len(q) \in DOMAIN r /\ j - Len(q) \in DOMAIN r
      BY <3>3, <1>1, <1>2, <1>4, <2>2 DEF SortedData
    <3>. QED
      BY <3>1, <3>2, <3>3, <1>2, <2>2
  <2>. QED
    BY <2>1, <2>2 DEF SortedData
<1>. QED
  BY <1>3, <1>4

\* A prefix of a queue, as it is left of a burst that does not fit.
LEMMA DataPrefix ==
    ASSUME NEW q \in Seq(Message), NEW k \in 0 .. Len(q)
    PROVE  /\ SubSeq(q, 1, k) \in Seq(Message)
           /\ Len(SubSeq(q, 1, k)) = k
           /\ Data(SubSeq(q, 1, k)) \subseteq Data(q)
           /\ SortedData(q) => SortedData(SubSeq(q, 1, k))
           /\ k = Len(q) => SubSeq(q, 1, k) = q
<1>1. /\ SubSeq(q, 1, k) \in Seq(Message)
      /\ DOMAIN SubSeq(q, 1, k) = 1 .. k
      /\ Len(SubSeq(q, 1, k)) = k
      /\ \A i \in 1 .. k : i \in DOMAIN q /\ SubSeq(q, 1, k)[i] = q[i]
  OBVIOUS
<1>2. Data(SubSeq(q, 1, k)) \subseteq Data(q)
  BY <1>1 DEF Data
<1>3. ASSUME SortedData(q) PROVE SortedData(SubSeq(q, 1, k))
  <2>1. \A i \in 1 .. k : Sorted(SubSeq(q, 1, k)[i].data)
    BY <1>1, <1>3, Zenon DEF SortedData
  <2>2. ASSUME NEW i \in 1 .. k, NEW j \in 1 .. k, i < j
        PROVE  Before(Range(SubSeq(q, 1, k)[i].data), Range(SubSeq(q, 1, k)[j].data))
    BY <1>1, <1>3, <2>2, Zenon DEF SortedData
  <2>. QED
    BY <1>1, <2>1, <2>2, Zenon DEF SortedData
<1>4. k = Len(q) => SubSeq(q, 1, k) = q
  BY <1>1
<1>. QED
  BY <1>1, <1>2, <1>3, <1>4

\* The head of a queue goes before the rest.
LEMMA DataTail ==
    ASSUME NEW q \in Seq(Message), q # <<>>
    PROVE  /\ Head(q) \in Message
           /\ Tail(q) \in Seq(Message)
           /\ Len(Tail(q)) = Len(q) - 1
           /\ Data(q) = Range(Head(q).data) \cup Data(Tail(q))
           /\ SortedData(q) => /\ Sorted(Head(q).data)
                               /\ SortedData(Tail(q))
                               /\ Before(Range(Head(q).data), Data(Tail(q)))
<1>1. /\ Head(q) = q[1] /\ 1 \in DOMAIN q
      /\ Tail(q) \in Seq(Message)
      /\ DOMAIN Tail(q) = 1 .. Len(q) - 1
      /\ \A i \in DOMAIN Tail(q) : i + 1 \in DOMAIN q /\ Tail(q)[i] = q[i + 1]
  OBVIOUS
<1>2. \A i \in DOMAIN q : i = 1 \/ (i - 1 \in DOMAIN Tail(q) /\ i = (i - 1) + 1)
  BY <1>1
<1>3. Data(q) = Range(Head(q).data) \cup Data(Tail(q))
  <2>1. ASSUME NEW x \in Data(q) PROVE x \in Range(Head(q).data) \cup Data(Tail(q))
    BY <1>1, <1>2 DEF Data
  <2>2. ASSUME NEW x \in Range(Head(q).data) \cup Data(Tail(q)) PROVE x \in Data(q)
    BY <1>1 DEF Data
  <2>. QED
    BY <2>1, <2>2
<1>4. ASSUME SortedData(q)
      PROVE  /\ Sorted(Head(q).data)
             /\ SortedData(Tail(q))
             /\ Before(Range(Head(q).data), Data(Tail(q)))
  <2>1. SortedData(Tail(q))
    BY <1>1, <1>4 DEF SortedData
  <2>2. Before(Range(Head(q).data), Data(Tail(q)))
    <3>. SUFFICES ASSUME NEW x \in Range(Head(q).data), NEW i \in DOMAIN Tail(q),
                         NEW y \in Range(Tail(q)[i].data)
                  PROVE  x < y
      BY DEF Before, Data
    <3>1. Before(Range(q[1].data), Range(q[i + 1].data)) /\ Tail(q)[i] = q[i + 1]
      BY <1>1, <1>4 DEF SortedData
    <3>. QED
      BY <3>1, <1>1 DEF Before
  <2>. QED
    BY <2>1, <2>2, <1>1, <1>4 DEF SortedData
<1>. QED
  BY <1>1, <1>3, <1>4

\* One event, and the pieces of a flush.
LEMMA DataOne ==
    ASSUME NEW e \in Message
    PROVE  /\ <<e>> \in Seq(Message)
           /\ Data(<<e>>) = Range(e.data)
           /\ Sorted(e.data) => SortedData(<<e>>)
BY DEF Data, SortedData

\* A flush holds what the buffer did, in its order.
LEMMA DataPieces ==
    ASSUME NEW s \in Seq(Chunk)
    PROVE  /\ Pieces(s) \in Seq(Message)
           /\ Data(Pieces(s)) = Range(s)
           /\ Sorted(s) => SortedData(Pieces(s))
<1>1. /\ DOMAIN Pieces(s) = DOMAIN s
      /\ \A i \in DOMAIN s : Pieces(s)[i] = [type |-> "output", data |-> <<s[i]>>]
  BY DEF Pieces, Output
<1>2. ASSUME NEW i \in DOMAIN s
      PROVE  /\ Pieces(s)[i] \in Message
             /\ Pieces(s)[i].data = <<s[i]>>
             /\ Range(Pieces(s)[i].data) = {s[i]}
  <2>1. <<s[i]>> \in Seq(Chunk) /\ "output" \in Kinds
    BY DEF Kinds
  <2>2. [type |-> "output", data |-> <<s[i]>>] \in Message
    BY <2>1 DEF Message
  <2>3. Pieces(s)[i].data = <<s[i]>>
    BY <1>1
  <2>. QED
    BY <1>1, <2>2, <2>3, RangeOne
<1>3. Pieces(s) \in Seq(Message)
  BY <1>2 DEF Pieces, Output
<1>4. Data(Pieces(s)) = Range(s)
  <2>1. ASSUME NEW x \in Data(Pieces(s)) PROVE x \in Range(s)
    BY <1>1, <1>2 DEF Data, Range
  <2>2. ASSUME NEW i \in DOMAIN s PROVE s[i] \in Data(Pieces(s))
    BY <1>1, <1>2 DEF Data
  <2>. QED
    BY <2>1, <2>2 DEF Range
<1>5. ASSUME Sorted(s) PROVE SortedData(Pieces(s))
  <2>1. ASSUME NEW i \in DOMAIN s PROVE Sorted(Pieces(s)[i].data)
    BY <1>2 DEF Sorted
  <2>2. ASSUME NEW i \in DOMAIN s, NEW j \in DOMAIN s, i < j
        PROVE  Before(Range(Pieces(s)[i].data), Range(Pieces(s)[j].data))
    BY <1>2, <1>5, <2>2 DEF Sorted, Before
  <2>. QED
    BY <1>1, <2>1, <2>2 DEF SortedData
<1>. QED
  BY <1>3, <1>4, <1>5

-----------------------------------------------------------------------------
(* The transaction depth a queue leads to, without a fold: the depths on   *)
(* the way are the values of a function.                                   *)

Settles(d, q, e) ==
    \E h \in [0 .. Len(q) -> Nat] :
        /\ h[0] = d
        /\ h[Len(q)] = e
        /\ \A i \in 1 .. Len(q) : h[i] = DepthAfter(h[i - 1], q[i].type)

\* A depth stays a number.
LEMMA DepthType == ASSUME NEW d \in Nat, NEW t PROVE DepthAfter(d, t) \in Nat
BY DEF DepthAfter

\* An empty queue leads nowhere, one event where DepthAfter says, two queues one after
\* the other, and the rest of a queue whither the whole of it does.
LEMMA SettlesEmpty == ASSUME NEW d \in Nat PROVE Settles(d, <<>>, d)
<1>. DEFINE h == [i \in 0 .. 0 |-> d]
<1>1. /\ h \in [0 .. Len(<<>>) -> Nat]
      /\ h[0] = d
      /\ h[Len(<<>>)] = d
      /\ \A i \in 1 .. Len(<<>>) : FALSE
  OBVIOUS
<1>. QED
  BY <1>1 DEF Settles

LEMMA SettlesOne ==
    ASSUME NEW d \in Nat, NEW m
    PROVE  Settles(d, <<m>>, DepthAfter(d, m.type))
<1>. DEFINE h == [i \in 0 .. 1 |-> IF i = 0 THEN d ELSE DepthAfter(d, m.type)]
<1>1. /\ h \in [0 .. 1 -> Nat]
      /\ h[0] = d
      /\ h[1] = DepthAfter(d, m.type)
  BY DepthType
<1>2. Len(<<m>>) = 1 /\ <<m>>[1] = m
  OBVIOUS
<1>. HIDE DEF h
<1>3. \A i \in 1 .. 1 : h[i] = DepthAfter(h[i - 1], <<m>>[i].type)
  <2>. SUFFICES h[1] = DepthAfter(h[1 - 1], <<m>>[1].type)
    OBVIOUS
  <2>1. 1 - 1 = 0
    OBVIOUS
  <2>. QED
    BY <1>1, <1>2, <2>1
<1>. QED
  BY <1>1, <1>2, <1>3 DEF Settles

LEMMA SettlesConcat ==
    ASSUME NEW q \in Seq(Message), NEW r \in Seq(Message), NEW d, NEW e, NEW f,
           Settles(d, q, e), Settles(e, r, f)
    PROVE  Settles(d, q \o r, f)
<1>1. PICK g \in [0 .. Len(q) -> Nat] :
          /\ g[0] = d /\ g[Len(q)] = e
          /\ \A i \in 1 .. Len(q) : g[i] = DepthAfter(g[i - 1], q[i].type)
  BY DEF Settles
<1>2. PICK k \in [0 .. Len(r) -> Nat] :
          /\ k[0] = e /\ k[Len(r)] = f
          /\ \A i \in 1 .. Len(r) : k[i] = DepthAfter(k[i - 1], r[i].type)
  BY DEF Settles
<1>. DEFINE n == Len(q)
            h == [i \in 0 .. Len(q) + Len(r) |-> IF i <= n THEN g[i] ELSE k[i - n]]
<1>3. n \in Nat /\ Len(r) \in Nat /\ Len(q \o r) = n + Len(r)
  OBVIOUS
<1>4. h \in [0 .. n + Len(r) -> Nat]
  BY <1>3
<1>5. h[0] = d /\ h[n + Len(r)] = f
  <2>1. h[0] = d
    BY <1>1, <1>3
  <2>2. CASE Len(r) = 0
    BY <2>1, <2>2, <1>1, <1>2, <1>3
  <2>3. CASE Len(r) # 0
    <3>1. /\ n + Len(r) \in 0 .. Len(q) + Len(r)
          /\ ~ (n + Len(r) <= n)
          /\ (n + Len(r)) - n = Len(r)
      BY <2>3, <1>3
    <3>. QED
      BY <2>1, <3>1, <1>2
  <2>. QED
    BY <2>2, <2>3
<1>6. ASSUME NEW i \in 1 .. n + Len(r)
      PROVE  h[i] = DepthAfter(h[i - 1], (q \o r)[i].type)
  <2>1. CASE i <= n
    <3>1. h[i] = g[i] /\ h[i - 1] = g[i - 1] /\ (q \o r)[i] = q[i]
      BY <2>1, <1>3
    <3>. QED
      BY <3>1, <2>1, <1>1, <1>3
  <2>2. CASE i > n
    <3>1. h[i] = k[i - n] /\ (q \o r)[i] = r[i - n]
      BY <2>2, <1>3
    <3>2. h[i - 1] = k[(i - n) - 1]
      BY <2>2, <1>1, <1>2, <1>3
    <3>. QED
      BY <3>1, <3>2, <2>2, <1>2, <1>3
  <2>. QED
    BY <2>1, <2>2, <1>3
<1>. QED
  BY <1>3, <1>4, <1>5, <1>6 DEF Settles

LEMMA SettlesTail ==
    ASSUME NEW q \in Seq(Message), q # <<>>, NEW d, NEW e, Settles(d, q, e)
    PROVE  Settles(DepthAfter(d, Head(q).type), Tail(q), e)
<1>1. PICK g \in [0 .. Len(q) -> Nat] :
          /\ g[0] = d /\ g[Len(q)] = e
          /\ \A i \in 1 .. Len(q) : g[i] = DepthAfter(g[i - 1], q[i].type)
  BY DEF Settles
<1>2. /\ Len(q) \in Nat \ {0}
      /\ Len(Tail(q)) = Len(q) - 1
      /\ Head(q) = q[1]
      /\ \A i \in 1 .. Len(q) - 1 : Tail(q)[i] = q[i + 1]
  OBVIOUS
<1>. DEFINE h == [i \in 0 .. Len(q) - 1 |-> g[i + 1]]
<1>3. h \in [0 .. Len(Tail(q)) -> Nat]
  BY <1>2
<1>4. h[0] = DepthAfter(d, Head(q).type)
  <2>1. h[0] = g[1] /\ g[1] = DepthAfter(g[1 - 1], q[1].type) /\ 1 - 1 = 0
    BY <1>1, <1>2
  <2>. QED
    BY <2>1, <1>1, <1>2
<1>5. h[Len(Tail(q))] = e
  BY <1>1, <1>2
<1>6. ASSUME NEW i \in 1 .. Len(Tail(q))
      PROVE  h[i] = DepthAfter(h[i - 1], Tail(q)[i].type)
  <2>1. h[i] = g[i + 1] /\ h[i - 1] = g[(i + 1) - 1] /\ Tail(q)[i] = q[i + 1]
    BY <1>2
  <2>2. i + 1 \in 1 .. Len(q)
    BY <1>2
  <2>. QED
    BY <2>1, <2>2, <1>1
<1>. QED
  BY <1>3, <1>4, <1>5, <1>6 DEF Settles

\* Output does not move the depth, and a replay moves it there and back.
LEMMA SettlesPieces ==
    ASSUME NEW d \in Nat, NEW s \in Seq(Chunk)
    PROVE  Settles(d, Pieces(s), d)
<1>. DEFINE h == [i \in 0 .. Len(Pieces(s)) |-> d]
<1>1. /\ Len(Pieces(s)) \in Nat
      /\ \A i \in 1 .. Len(Pieces(s)) : Pieces(s)[i].type = "output"
  BY DEF Pieces, Output
<1>2. DepthAfter(d, "output") = d
  BY DEF DepthAfter
<1>3. /\ h \in [0 .. Len(Pieces(s)) -> Nat]
      /\ h[0] = d
      /\ h[Len(Pieces(s))] = d
      /\ \A i \in 1 .. Len(Pieces(s)) : h[i] = d /\ h[i - 1] = d
  BY <1>1
<1>. HIDE DEF h
<1>. QED
  BY <1>1, <1>2, <1>3 DEF Settles

\* The three events of a replay.
ReplayEvents == <<Event("replay_begin"), Event("snapshot"), Event("replay_end")>>

LEMMA SettlesReplay == ASSUME NEW d \in Nat PROVE Settles(d, ReplayEvents, d)
<1>1. /\ DepthAfter(d, "replay_begin") = d + 1
      /\ DepthAfter(d + 1, "snapshot") = d + 1
      /\ DepthAfter(d + 1, "replay_end") = d
  BY DEF DepthAfter
<1>2. /\ Len(ReplayEvents) = 3
      /\ ReplayEvents[1].type = "replay_begin"
      /\ ReplayEvents[2].type = "snapshot"
      /\ ReplayEvents[3].type = "replay_end"
  BY DEF ReplayEvents, Event
<1>. DEFINE h == [i \in 0 .. 3 |-> IF i = 0 \/ i = 3 THEN d ELSE d + 1]
<1>3. /\ h \in [0 .. 3 -> Nat]
      /\ h[0] = d /\ h[1] = d + 1 /\ h[2] = d + 1 /\ h[3] = d
  OBVIOUS
<1>. HIDE DEF h
<1>4. ASSUME NEW i \in 1 .. 3 PROVE h[i] = DepthAfter(h[i - 1], ReplayEvents[i].type)
  <2>1. CASE i = 1
    BY <2>1, <1>1, <1>2, <1>3
  <2>2. CASE i = 2
    BY <2>2, <1>1, <1>2, <1>3
  <2>3. CASE i = 3
    BY <2>3, <1>1, <1>2, <1>3
  <2>. QED
    BY <2>1, <2>2, <2>3
<1>. QED
  BY <1>2, <1>3, <1>4 DEF Settles

-----------------------------------------------------------------------------
(* The inductive invariant.                                                *)

\* The chunks that are on their way to every client.
Ahead == Range(buffer) \cup Range(batch) \cup Range(output) \cup Range(reading)

StageType ==
    /\ reading \in Seq(Chunk) /\ output \in Seq(Chunk)
    /\ batch \in Seq(Chunk) /\ buffer \in Seq(Chunk)
    /\ events \in Seq({"start", "stop"})
    /\ task \in {"recv", "expire", "check", "forward", "done"}
    /\ started \in {"none", "fresh", "expired"}
    /\ active \in BOOLEAN /\ exited \in BOOLEAN /\ told \in BOOLEAN
    /\ ending \in Clients \cup {Nobody, "reader", "task", "resizer"}

TypeInv ==
    /\ fed \in 0 .. MaxChunks
    /\ StageType
    /\ joined \subseteq Clients /\ left \subseteq Clients /\ lossy \subseteq Clients
    /\ joined \cap left = {}
    /\ queue \in [Clients -> Seq(Message)]
    /\ \A c \in Clients : Len(queue[c]) <= Capacity
    /\ received \in [Clients -> Seq(Chunk)]
    /\ pending \in [Clients -> BOOLEAN]
    /\ base \in [Clients -> 0 .. fed]
    /\ depth \in [Clients -> Nat]

\* What the stages of the pipeline and of a client imply of its buffers.
StagePlace ==
    /\ ~active => buffer = <<>>
    /\ ending # Nobody => ~active
    /\ task \in {"recv", "done"} => batch = <<>>

PlaceInv ==
    /\ StagePlace
    /\ \A c \in Clients \ joined : queue[c] = <<>>
    /\ \A c \in Clients \ (joined \cup left) : depth[c] = 0

\* Nothing is under way that the screen was not fed.
FedInv ==
    /\ Ahead \subseteq 1 .. fed
    /\ \A c \in Clients : Range(received[c]) \cup Data(queue[c]) \subseteq 1 .. fed

\* The shared stages are sorted, each before those that come after it ...
PipeInv ==
    /\ Sorted(buffer) /\ Sorted(batch) /\ Sorted(output) /\ Sorted(reading)
    /\ Before(Range(buffer), Range(batch)) /\ Before(Range(buffer), Range(output))
    /\ Before(Range(buffer), Range(reading))
    /\ Before(Range(batch), Range(output)) /\ Before(Range(batch), Range(reading))
    /\ Before(Range(output), Range(reading))

\* ... and what a client has, and has queued, before all of them.
ClientOrder(c) ==
    /\ Sorted(received[c]) /\ SortedData(queue[c])
    /\ Before(Range(received[c]), Data(queue[c]))
    /\ Before(Range(received[c]), Ahead)
    /\ Before(Data(queue[c]), Ahead)
OrderInv == PipeInv /\ \A c \in Clients : ClientOrder(c)

\* NothingMissing, in terms of Data and Ahead.
Complete(c) ==
    1 .. fed \subseteq (1 .. base[c]) \cup Range(received[c]) \cup Data(queue[c]) \cup Ahead
CompleteInv == \A c \in joined \ lossy : ~pending[c] /\ ~exited => Complete(c)

\* What is queued leads a client's frontend into a transaction only when one is open.
Settled(c) == \/ Settles(depth[c], queue[c], 0)
              \/ Settles(depth[c], queue[c], 1) /\ (active \/ ending # Nobody)
WedgeInv == \A c \in joined \ lossy : Settled(c)

IInv == TypeInv /\ PlaceInv /\ FedInv /\ OrderInv /\ CompleteInv /\ WedgeInv

-----------------------------------------------------------------------------
(* What try_send does.                                                     *)

\* After a burst es[c] to every client, each has the part of its own that fitted.
Sent(es) ==
    /\ queue' \in [Clients -> Seq(Message)]
    /\ lossy \subseteq lossy'
    /\ lossy' \subseteq Clients
    /\ \A c \in Clients :
         /\ Len(queue'[c]) <= Capacity
         /\ es[c] = <<>> => queue'[c] = queue[c]
         /\ \E r \in Seq(Message) :
              /\ queue'[c] = queue[c] \o r
              /\ Data(r) \subseteq Data(es[c])
              /\ SortedData(es[c]) => SortedData(r)
              /\ c \notin lossy' => r = es[c]

\* How much of a burst fits.
LEMMA MinOfTwo ==
    ASSUME NEW x \in Int, NEW y \in Int
    PROVE  /\ Min({x, y}) \in {x, y}
           /\ Min({x, y}) <= x /\ Min({x, y}) <= y
<1>1. \E z \in {x, y} : \A w \in {x, y} : z =< w
  OBVIOUS
<1>2. /\ Min({x, y}) \in {x, y}
      /\ \A w \in {x, y} : Min({x, y}) =< w
  BY <1>1 DEF Min
<1>. QED
  BY <1>2

\* What Send does to every client's queue.
LEMMA SendFacts ==
    ASSUME TypeInv, NEW es \in [Clients -> Seq(Message)], Send(es)
    PROVE  Sent(es)
<1>. DEFINE k(c) == Min({Len(es[c]), Capacity - Len(queue[c])})
<1>1. /\ queue' = [c \in Clients |-> queue[c] \o SubSeq(es[c], 1, k(c))]
      /\ lossy' = lossy \cup {c \in Clients : Len(queue[c]) + Len(es[c]) > Capacity}
  BY DEF Send
<1>2. ASSUME NEW c \in Clients
      PROVE  /\ queue[c] \in Seq(Message) /\ es[c] \in Seq(Message)
             /\ Len(queue[c]) \in Nat /\ Len(es[c]) \in Nat
             /\ k(c) \in 0 .. Len(es[c])
             /\ Len(queue[c]) + k(c) <= Capacity
             /\ c \notin lossy' => k(c) = Len(es[c])
  <2>1. /\ queue[c] \in Seq(Message) /\ es[c] \in Seq(Message)
        /\ Len(queue[c]) <= Capacity /\ Capacity \in Nat
    BY BoundAssumption DEF TypeInv, StageType
  <2>2. Len(queue[c]) \in Nat /\ Len(es[c]) \in Nat
    BY <2>1
  <2>3. Capacity - Len(queue[c]) \in Nat
    BY <2>1, <2>2
  <2>4. /\ k(c) \in {Len(es[c]), Capacity - Len(queue[c])}
        /\ k(c) <= Len(es[c]) /\ k(c) <= Capacity - Len(queue[c])
    <3>1. Len(es[c]) \in Int /\ Capacity - Len(queue[c]) \in Int
      BY <2>2, <2>3
    <3>. QED
      BY <3>1, MinOfTwo, Zenon
  <2>5. k(c) \in 0 .. Len(es[c]) /\ Len(queue[c]) + k(c) <= Capacity
    BY <2>1, <2>2, <2>3, <2>4
  <2>6. c \notin lossy' => k(c) = Len(es[c])
    <3>1. c \notin lossy' => ~ (Len(queue[c]) + Len(es[c]) > Capacity)
      BY <1>1
    <3>. HIDE DEF k
    <3>. QED
      BY <3>1, <2>1, <2>2, <2>3, <2>4
  <2>. QED
    BY <2>1, <2>2, <2>5, <2>6
<1>. HIDE DEF k
<1>3. ASSUME NEW c \in Clients
      PROVE  /\ queue'[c] \in Seq(Message)
             /\ Len(queue'[c]) <= Capacity
             /\ es[c] = <<>> => queue'[c] = queue[c]
             /\ \E r \in Seq(Message) :
                  /\ queue'[c] = queue[c] \o r
                  /\ Data(r) \subseteq Data(es[c])
                  /\ SortedData(es[c]) => SortedData(r)
                  /\ c \notin lossy' => r = es[c]
  <2>. DEFINE r == SubSeq(es[c], 1, k(c))
  <2>1. queue'[c] = queue[c] \o r
    BY <1>1
  <2>2. /\ r \in Seq(Message) /\ Len(r) = k(c)
        /\ Data(r) \subseteq Data(es[c])
        /\ SortedData(es[c]) => SortedData(r)
        /\ k(c) = Len(es[c]) => r = es[c]
    BY <1>2, DataPrefix
  <2>. HIDE DEF r
  <2>3. queue'[c] \in Seq(Message) /\ Len(queue'[c]) <= Capacity
    BY <2>1, <2>2, <1>2
  <2>4. es[c] = <<>> => queue'[c] = queue[c]
    <3>1. es[c] = <<>> => r = <<>>
      BY <2>2, <1>2
    <3>. QED
      BY <3>1, <2>1, <1>2
  <2>. QED
    BY <2>1, <2>2, <2>3, <2>4, <1>2
<1>4. lossy \subseteq lossy' /\ lossy' \subseteq Clients
  BY <1>1 DEF TypeInv, StageType
<1>5. queue' \in [Clients -> Seq(Message)]
  BY <1>1, <1>3
<1>. QED
  BY <1>3, <1>4, <1>5 DEF Sent

\* Nothing is sent.
Nothing == [c \in Clients |-> <<>>]

LEMMA NothingSent ==
    ASSUME TypeInv, UNCHANGED sendVars
    PROVE  Sent(Nothing) /\ Nothing \in [Clients -> Seq(Message)]
<1>1. /\ queue' = queue /\ lossy' = lossy
      /\ Nothing \in [Clients -> Seq(Message)]
      /\ \A c \in Clients : Nothing[c] = <<>>
  BY DEF sendVars, Nothing
<1>2. ASSUME NEW c \in Clients
      PROVE  \E r \in Seq(Message) :
                  /\ queue'[c] = queue[c] \o r
                  /\ Data(r) \subseteq Data(Nothing[c])
                  /\ SortedData(Nothing[c]) => SortedData(r)
                  /\ c \notin lossy' => r = Nothing[c]
  <2>1. queue[c] \o <<>> = queue[c] /\ <<>> \in Seq(Message)
    BY DEF TypeInv, StageType
  <2>. QED
    BY <2>1, <1>1, Zenon
<1>. QED
  BY <1>1, <1>2 DEF Sent, TypeInv, StageType

\* The bursts the code sends: an event to all, or chunks to those that are ready.
All(e)   == [c \in Clients |-> IF c \in joined THEN <<e>> ELSE <<>>]
Ready(s) == [c \in Clients |-> IF c \in joined /\ ~pending[c] THEN s ELSE <<>>]
One(c, s) == [d \in Clients |-> IF d = c THEN s ELSE <<>>]
ToOthers(o) == [c \in Clients |-> IF c \in joined \ {o} THEN <<Event("resize")>> ELSE <<>>]

\* The data of the events that carry none.
LEMMA EventType ==
    ASSUME NEW t \in Kinds
    PROVE  /\ Event(t) \in Message
           /\ <<Event(t)>> \in Seq(Message)
           /\ Data(<<Event(t)>>) = {}
           /\ SortedData(<<Event(t)>>)
<1>1. Event(t) \in Message /\ Event(t).data = <<>>
  BY DEF Event, Message
<1>2. Range(<<>>) = {} /\ Sorted(<<>>)
  BY DEF Range, Sorted
<1>. QED
  BY <1>1, <1>2, DataOne

LEMMA NoData == Data(<<>>) = {} /\ SortedData(<<>>)
BY DEF Data, SortedData

LEMMA ReplayType ==
    /\ ReplayEvents \in Seq(Message)
    /\ Data(ReplayEvents) = {}
    /\ SortedData(ReplayEvents)
<1>1. \A t \in Kinds : Event(t) \in Message /\ Event(t).data = <<>>
  BY DEF Event, Message
<1>2. {"replay_begin", "snapshot", "replay_end"} \subseteq Kinds
  BY DEF Kinds
<1>3. ReplayEvents \in Seq(Message)
  BY <1>1, <1>2 DEF ReplayEvents
<1>4. DOMAIN ReplayEvents = 1 .. 3 /\ \A i \in 1 .. 3 : ReplayEvents[i].data = <<>>
  BY DEF ReplayEvents, Event
<1>5. Range(<<>>) = {} /\ Sorted(<<>>)
  BY DEF Range, Sorted
<1>. QED
  BY <1>3, <1>4, <1>5 DEF Data, SortedData, Before

\* enqueue_control and send_chunk_to_clients, as bursts.
LEMMA AllFacts ==
    ASSUME TypeInv, NEW e \in Message
    PROVE  /\ All(e) \in [Clients -> Seq(Message)]
           /\ \A c \in Clients : All(e)[c] = IF c \in joined THEN <<e>> ELSE <<>>
           /\ ToAll(e) => Sent(All(e))
<1>1. <<e>> \in Seq(Message) /\ <<>> \in Seq(Message)
  OBVIOUS
<1>2. All(e) \in [Clients -> Seq(Message)]
  BY <1>1 DEF All
<1>3. ToAll(e) => Sent(All(e))
  BY <1>2, SendFacts DEF ToAll, All
<1>. QED
  BY <1>2, <1>3 DEF All

LEMMA ReadyFacts ==
    ASSUME TypeInv, NEW s \in Seq(Message)
    PROVE  /\ Ready(s) \in [Clients -> Seq(Message)]
           /\ \A c \in Clients :
                Ready(s)[c] = IF c \in joined /\ ~pending[c] THEN s ELSE <<>>
           /\ ToReady(s) => Sent(Ready(s))
<1>1. <<>> \in Seq(Message)
  OBVIOUS
<1>2. Ready(s) \in [Clients -> Seq(Message)]
  BY <1>1 DEF Ready
<1>3. ToReady(s) => Sent(Ready(s))
  BY <1>2, SendFacts DEF ToReady, Ready
<1>. QED
  BY <1>2, <1>3 DEF Ready

-----------------------------------------------------------------------------
(* One lemma for all steps that send: what it takes to keep the invariant.  *)

\* A synchronized update is open, or being closed.
Open == active \/ ending # Nobody

\* Events after which a frontend is in a transaction only if an update is open.
Leads(s) ==
    /\ Settles(0, s, 0) \/ (Settles(0, s, 1) /\ Open')
    /\ Open => Settles(1, s, 0) \/ (Settles(1, s, 1) /\ Open')

\* The sends of a step leave the shared stages in order and no chunk behind, and lead
\* a frontend nowhere it may not be.
Moves(es) ==
    /\ es \in [Clients -> Seq(Message)]
    /\ Sent(es)
    /\ UNCHANGED <<fed, received, depth, left>>
    /\ joined \subseteq joined'
    /\ PipeInv'
    /\ Ahead' \subseteq Ahead
    /\ \A c \in Clients :
         /\ es[c] # <<>> => c \in joined
         /\ SortedData(es[c])
         /\ Data(es[c]) \subseteq Ahead
         /\ Before(Data(es[c]), Ahead')
         /\ c \in joined => Leads(es[c])
    /\ \A c \in joined' : ~pending'[c] /\ ~exited' =>
         \/ base'[c] = fed
         \/ /\ c \in joined /\ ~pending[c] /\ ~exited /\ base'[c] = base[c]
            /\ Ahead \subseteq Ahead' \cup Data(es[c])
    /\ \A c \in joined' :
         \/ c \in Clients \ (joined \cup left) /\ es[c] = <<>>
         \/ c \in joined

\* Such a step keeps the order of chunks, ...
LEMMA MovesOrder ==
    ASSUME TypeInv, OrderInv, FedInv, NEW es, Moves(es)
    PROVE  OrderInv' /\ FedInv'
<1>1. ASSUME NEW c \in Clients
      PROVE  /\ ClientOrder(c)'
             /\ Range(received[c])' \cup Data(queue[c])' \subseteq 1 .. fed
  <2>1. PICK r \in Seq(Message) :
               /\ queue'[c] = queue[c] \o r
               /\ Data(r) \subseteq Data(es[c])
               /\ SortedData(es[c]) => SortedData(r)
    BY DEF Moves, Sent
  <2>2. /\ SortedData(r) /\ Data(r) \subseteq Ahead /\ Before(Data(r), Ahead')
        /\ received'[c] = received[c] /\ Ahead' \subseteq Ahead
    BY <2>1 DEF Moves, Before
  <2>3. ClientOrder(c) /\ queue[c] \in Seq(Message)
    BY DEF OrderInv, TypeInv, StageType
  <2>4. Before(Data(queue[c]), Data(r))
    BY <2>2, <2>3 DEF ClientOrder, Before
  <2>5. SortedData(queue'[c]) /\ Data(queue'[c]) = Data(queue[c]) \cup Data(r)
    BY <2>1, <2>2, <2>3, <2>4, DataConcat DEF ClientOrder
  <2>6. Before(Range(received'[c]), Data(queue'[c]))
    BY <2>2, <2>3, <2>5 DEF ClientOrder, Before
  <2>7. Before(Range(received'[c]), Ahead') /\ Before(Data(queue'[c]), Ahead')
    BY <2>2, <2>3, <2>5 DEF ClientOrder, Before
  <2>8. Range(received'[c]) \cup Data(queue'[c]) \subseteq 1 .. fed
    BY <2>2, <2>5 DEF FedInv
  <2>. QED
    BY <2>2, <2>3, <2>5, <2>6, <2>7, <2>8 DEF ClientOrder
<1>2. Ahead' \subseteq 1 .. fed /\ fed' = fed /\ PipeInv'
  BY DEF Moves, FedInv
<1>. QED
  BY <1>1, <1>2 DEF OrderInv, FedInv

\* ... leaves nobody short of a chunk, ...
LEMMA MovesComplete ==
    ASSUME TypeInv, CompleteInv, NEW es, Moves(es)
    PROVE  CompleteInv'
<1>. SUFFICES ASSUME NEW c \in joined', c \notin lossy', ~pending'[c], ~exited'
              PROVE  Complete(c)'
  BY DEF CompleteInv
<1>1. CASE base'[c] = fed
  BY <1>1 DEF Complete, Moves
<1>2. CASE /\ c \in joined /\ ~pending[c] /\ ~exited /\ base'[c] = base[c]
           /\ Ahead \subseteq Ahead' \cup Data(es[c])
  <2>1. c \in Clients /\ c \notin lossy
    BY <1>2 DEF TypeInv, StageType, Moves, Sent
  <2>2. PICK r \in Seq(Message) : queue'[c] = queue[c] \o r /\ r = es[c]
    BY <2>1 DEF Moves, Sent
  <2>3. Data(queue'[c]) = Data(queue[c]) \cup Data(es[c])
    BY <2>1, <2>2, DataConcat DEF TypeInv, StageType
  <2>4. Complete(c)
    BY <1>2, <2>1 DEF CompleteInv
  <2>5. received'[c] = received[c] /\ fed' = fed
    BY DEF Moves
  <2>. QED
    BY <1>2, <2>3, <2>4, <2>5 DEF Complete
<1>. QED
  BY <1>1, <1>2 DEF Moves

\* ... and leads no frontend into a transaction that nothing ends.
LEMMA MovesSettled ==
    ASSUME TypeInv, PlaceInv, WedgeInv, NEW es, Moves(es)
    PROVE  WedgeInv'
<1>. SUFFICES ASSUME NEW c \in joined', c \notin lossy'
              PROVE  Settled(c)'
  BY DEF WedgeInv
<1>1. CASE c \in joined
  <2>1. c \in Clients /\ c \notin lossy
    BY <1>1 DEF TypeInv, StageType, Moves, Sent
  <2>2. PICK r \in Seq(Message) : queue'[c] = queue[c] \o r /\ r = es[c]
    BY <2>1 DEF Moves, Sent
  <2>3. Settled(c) /\ queue[c] \in Seq(Message) /\ depth'[c] = depth[c] /\ Leads(r)
    BY <1>1, <2>1, <2>2 DEF WedgeInv, TypeInv, StageType, Moves
  <2>4. \A e, f \in {0, 1} : Settles(depth[c], queue[c], e) /\ Settles(e, r, f)
                               => Settles(depth'[c], queue'[c], f)
    BY <2>2, <2>3, SettlesConcat
  <2>5. CASE Settles(depth[c], queue[c], 0)
    BY <2>3, <2>4, <2>5 DEF Leads, Settled, Open
  <2>6. CASE Settles(depth[c], queue[c], 1) /\ Open
    BY <2>3, <2>4, <2>6 DEF Leads, Settled, Open
  <2>. QED
    BY <2>3, <2>5, <2>6 DEF Settled, Open
<1>2. CASE c \in Clients \ (joined \cup left) /\ es[c] = <<>>
  <2>1. queue'[c] = <<>> /\ depth'[c] = 0
    BY <1>2 DEF Moves, Sent, PlaceInv, StagePlace
  <2>. QED
    BY <2>1, SettlesEmpty DEF Settled
<1>. QED
  BY <1>1, <1>2 DEF Moves

\* What leaves the depth of a frontend alone, moves it, or resets it.
LEMMA LeadsNowhere ==
    ASSUME NEW s, \A d \in {0, 1} : Settles(d, s, d), Open => Open'
    PROVE  Leads(s)
BY DEF Leads

LEMMA LeadsHome ==
    ASSUME NEW s, \A d \in {0, 1} : Settles(d, s, 0)
    PROVE  Leads(s)
BY DEF Leads

\* Which events these are.
LEMMA NeutralEvents ==
    /\ \A d \in {0, 1} : Settles(d, <<>>, d)
    /\ \A d \in {0, 1} : Settles(d, <<Event("session_exit")>>, d)
    /\ \A d \in {0, 1} : Settles(d, ReplayEvents, d)
    /\ \A d \in {0, 1}, s \in Seq(Chunk) : Settles(d, Pieces(s), d)
    /\ \A d \in {0, 1}, s \in Seq(Chunk) : Settles(d, <<Output(s)>>, d)
<1>1. \A d \in {0, 1} : DepthAfter(d, "session_exit") = d /\ DepthAfter(d, "output") = d
  BY DEF DepthAfter
<1>2. /\ Event("session_exit").type = "session_exit"
      /\ \A s \in Seq(Chunk) : Output(s).type = "output"
  BY DEF Event, Output
<1>. QED
  BY <1>1, <1>2, SettlesEmpty, SettlesOne, SettlesReplay, SettlesPieces

LEMMA ClosingEvents ==
    /\ \A d \in {0, 1} : Settles(d, <<Event("sync_end")>>, 0)
    /\ \A d \in {0, 1} : Settles(d, <<Event("resize")>>, 0)
    /\ Settles(0, <<Event("sync_begin")>>, 1)
<1>1. /\ \A d \in {0, 1} : DepthAfter(d, "sync_end") = 0 /\ DepthAfter(d, "resize") = 0
      /\ DepthAfter(0, "sync_begin") = 1
  BY DEF DepthAfter
<1>2. \A t \in Kinds : Event(t).type = t
  BY DEF Event
<1>3. {"sync_end", "resize", "sync_begin"} \subseteq Kinds
  BY DEF Kinds
<1>. QED
  BY <1>1, <1>2, <1>3, SettlesOne

-----------------------------------------------------------------------------
(* Steps that send and leave the stages as they are.                       *)

Still == UNCHANGED <<fed, reading, output, batch, buffer, received, depth, joined, left>>

\* An event without data, to any of the clients.
LEMMA ControlMoves ==
    ASSUME IInv, Still, UNCHANGED <<base, pending>>, exited => exited',
           NEW es \in [Clients -> Seq(Message)], Sent(es),
           \A c \in Clients : /\ es[c] # <<>> => c \in joined
                              /\ SortedData(es[c]) /\ Data(es[c]) = {}
                              /\ c \in joined => Leads(es[c])
    PROVE  Moves(es)
<1>1. PipeInv' /\ Ahead' = Ahead
  BY DEF Still, IInv, OrderInv, PipeInv, Ahead
<1>2. \A c \in joined' : /\ c \in joined /\ base'[c] = base[c]
                         /\ ~pending'[c] /\ ~exited' => ~pending[c] /\ ~exited
  BY DEF Still
<1>3. \A c \in Clients : Before(Data(es[c]), Ahead') /\ Data(es[c]) \subseteq Ahead
  BY DEF Before
<1>. QED
  BY <1>1, <1>2, <1>3 DEF Moves, Still

\* Nothing is sent.
LEMMA QuietMoves ==
    ASSUME IInv, Still, UNCHANGED <<base, pending, sendVars>>, exited => exited', Open => Open'
    PROVE  Moves(Nothing)
<1>1. Sent(Nothing) /\ Nothing \in [Clients -> Seq(Message)]
  BY NothingSent DEF IInv
<1>2. \A c \in Clients : Nothing[c] = <<>>
  BY DEF Nothing
<1>3. Leads(<<>>)
  BY NeutralEvents, LeadsNowhere
<1>. QED
  BY <1>1, <1>2, <1>3, NoData, ControlMoves

\* An event without data is sent to all.
LEMMA AllMoves ==
    ASSUME IInv, Still, UNCHANGED <<base, pending>>, exited => exited',
           NEW t \in Kinds, ToAll(Event(t)), Leads(<<Event(t)>>)
    PROVE  Moves(All(Event(t)))
<1>1. /\ Event(t) \in Message
      /\ Data(<<Event(t)>>) = {} /\ SortedData(<<Event(t)>>)
  BY EventType
<1>2. /\ All(Event(t)) \in [Clients -> Seq(Message)]
      /\ Sent(All(Event(t)))
      /\ \A c \in Clients : All(Event(t))[c] = IF c \in joined THEN <<Event(t)>> ELSE <<>>
  BY <1>1, AllFacts DEF IInv
<1>. QED
  BY <1>1, <1>2, NoData, ControlMoves

-----------------------------------------------------------------------------
(* set_sync_mode.                                                          *)

\* All that set_sync_mode leaves alone, of what the invariant is about.
Bystanders == UNCHANGED <<fed, reading, output, batch, received, depth, joined, left,
                          base, pending, exited>>

\* On: SyncBegin goes to all.
LEMMA StartSyncMoves ==
    ASSUME IInv, StartSync, Bystanders
    PROVE  \E es : Moves(es)
<1>1. Still /\ Open' /\ ending = Nobody /\ active \in BOOLEAN
  BY DEF StartSync, Bystanders, Still, Open, IInv, TypeInv, StageType
<1>2. CASE active
  <2>1. Moves(Nothing)
    BY <1>1, <1>2, QuietMoves DEF StartSync, Bystanders
  <2>. QED
    BY <2>1
<1>3. CASE ~active
  <2>1. Leads(<<Event("sync_begin")>>) /\ Leads(<<>>)
    BY <1>1, <1>3, ClosingEvents, NeutralEvents DEF Leads, Open
  <2>2. Moves(All(Event("sync_begin")))
    BY <1>1, <1>3, <2>1, AllMoves DEF StartSync, Bystanders, Kinds
  <2>. QED
    BY <2>2
<1>. QED
  BY <1>1, <1>2, <1>3

\* Off: the buffer goes to those that are ready, before SyncEnd does.
LEMMA StopSyncMoves ==
    ASSUME IInv, NEW who \in Clients \cup {"reader", "task", "resizer"},
           StopSync(who), Bystanders
    PROVE  \E es : Moves(es)
<1>1. CASE ~active
  <2>1. Still /\ (Open => Open')
    BY <1>1 DEF StopSync, Bystanders, Still, Open
  <2>2. Moves(Nothing)
    BY <1>1, <2>1, QuietMoves DEF StopSync, Bystanders
  <2>. QED
    BY <2>2
<1>2. CASE active
  <2>. DEFINE s == Pieces(buffer)
  <2>1. /\ buffer' = <<>> /\ ending' = who /\ who # Nobody
        /\ ToReady(s) /\ TypeInv
    BY <1>2, ClientAssumption DEF StopSync, IInv
  <2>2. /\ s \in Seq(Message) /\ Data(s) = Range(buffer) /\ SortedData(s)
    BY DataPieces DEF IInv, TypeInv, StageType, OrderInv, PipeInv
  <2>3. /\ Ready(s) \in [Clients -> Seq(Message)] /\ Sent(Ready(s))
        /\ \A c \in Clients : Ready(s)[c] = IF c \in joined /\ ~pending[c] THEN s ELSE <<>>
    BY <2>1, <2>2, ReadyFacts
  <2>4. Range(<<>>) = {} /\ Sorted(<<>>)
    BY DEF Range, Sorted
  <2>5. /\ PipeInv'
        /\ Ahead' = Range(batch) \cup Range(output) \cup Range(reading)
        /\ Before(Range(buffer), Ahead')
    BY <2>1, <2>4 DEF Bystanders, IInv, OrderInv, PipeInv, Ahead, Before
  <2>6. Leads(s) /\ Leads(<<>>)
    BY <2>1, NeutralEvents, LeadsNowhere DEF Open, IInv, TypeInv, StageType
  <2>. HIDE DEF s
  <2>7. /\ \A c \in Clients : /\ Ready(s)[c] # <<>> => c \in joined
                              /\ SortedData(Ready(s)[c])
                              /\ Data(Ready(s)[c]) \subseteq Ahead
                              /\ Before(Data(Ready(s)[c]), Ahead')
                              /\ Leads(Ready(s)[c])
        /\ \A c \in joined : ~pending[c] => Ahead \subseteq Ahead' \cup Data(Ready(s)[c])
    BY <2>1, <2>2, <2>3, <2>5, <2>6, NoData DEF Ahead, Before, TypeInv, StageType
  <2>8. Ahead' \subseteq Ahead
    BY <2>5 DEF Ahead
  <2>9. Moves(Ready(s))
    BY <2>3, <2>5, <2>7, <2>8 DEF Moves, Bystanders
  <2>. QED
    BY <2>9
<1>. QED
  BY <1>1, <1>2 DEF IInv, TypeInv, StageType

-----------------------------------------------------------------------------
(* The reader and the broadcast task.                                      *)

\* The chunks of a stage move to the next one, or are dropped once the session is over.
LEMMA StageMoves ==
    ASSUME IInv, UNCHANGED <<fed, received, depth, joined, left, base, pending, sendVars>>,
           Open => Open', PipeInv', Ahead' \subseteq Ahead,
           Ahead' = Ahead \/ exited', exited => exited'
    PROVE  Moves(Nothing)
<1>1. Sent(Nothing) /\ Nothing \in [Clients -> Seq(Message)]
  BY NothingSent DEF IInv
<1>2. \A c \in Clients : Nothing[c] = <<>>
  BY DEF Nothing
<1>3. Leads(<<>>)
  BY NeutralEvents, LeadsNowhere
<1>4. \A c \in Clients : Before(Data(<<>>), Ahead')
  BY NoData DEF Before
<1>5. \A c \in joined' : /\ c \in joined /\ base'[c] = base[c]
                         /\ ~pending'[c] /\ ~exited' => ~pending[c] /\ ~exited /\ Ahead' = Ahead
  OBVIOUS
<1>. QED
  BY <1>1, <1>2, <1>3, <1>4, <1>5, NoData DEF Moves

\* The read is handed on behind the output that waits.
LEMMA HandOnMoves == ASSUME IInv, HandOn PROVE Moves(Nothing)
<1>1. output' = output \o reading /\ reading' = <<>> /\ buffer' = buffer /\ batch' = batch
  BY DEF HandOn, taskVars, syncVars
<1>2. /\ Range(output') = Range(output) \cup Range(reading)
      /\ Sorted(output') /\ Range(<<>>) = {} /\ Sorted(<<>>)
  <2>1. Range(<<>>) = {} /\ Sorted(<<>>)
    BY DEF Range, Sorted
  <2>. QED
    BY <1>1, <2>1, ConcatFacts DEF IInv, TypeInv, StageType, OrderInv, PipeInv
<1>3. PipeInv'
  BY <1>1, <1>2 DEF IInv, OrderInv, PipeInv, Before
<1>4. Ahead' = Ahead
  BY <1>1, <1>2 DEF Ahead
<1>. QED
  BY <1>3, <1>4, StageMoves
     DEF HandOn, taskVars, syncVars, exitVars, memberVars, clientVars, Open

\* The output that waits becomes the batch.
LEMMA RecvMoves == ASSUME IInv, Recv PROVE Moves(Nothing)
<1>1. CASE exited
  <2>1. Still /\ UNCHANGED <<base, pending, sendVars>> /\ exited' = exited /\ (Open => Open')
    BY <1>1 DEF Recv, readerVars, syncVars, exitVars, memberVars, clientVars, Still, Open
  <2>. QED
    BY <2>1, QuietMoves
<1>2. CASE ~exited
  <2>1. /\ batch' = output /\ output' = <<>> /\ batch = <<>>
        /\ buffer' = buffer /\ reading' = reading
    BY <1>2 DEF Recv, readerVars, syncVars, IInv, PlaceInv, StagePlace
  <2>2. Range(<<>>) = {} /\ Sorted(<<>>)
    BY DEF Range, Sorted
  <2>3. PipeInv'
    BY <2>1, <2>2 DEF IInv, OrderInv, PipeInv, Before
  <2>4. Ahead' = Ahead
    BY <2>1, <2>2 DEF Ahead
  <2>. QED
    BY <2>3, <2>4, StageMoves
       DEF Recv, readerVars, syncVars, exitVars, memberVars, clientVars, Open
<1>. QED
  BY <1>1, <1>2

\* A batch is dropped only after the end of the session.
LEMMA CheckExitedMoves == ASSUME IInv, CheckExited PROVE Moves(Nothing)
<1>1. /\ output' = output /\ buffer' = buffer /\ reading' = reading
      /\ batch' = batch \/ (batch' = <<>> /\ exited /\ exited' = exited)
  BY DEF CheckExited, readerVars, syncVars, exitVars
<1>2. Range(<<>>) = {} /\ Sorted(<<>>)
  BY DEF Range, Sorted
<1>3. PipeInv'
  BY <1>1, <1>2 DEF IInv, OrderInv, PipeInv, Before
<1>4. Ahead' \subseteq Ahead /\ (Ahead' = Ahead \/ exited')
  BY <1>1, <1>2 DEF Ahead
<1>. QED
  BY <1>3, <1>4, StageMoves
     DEF CheckExited, readerVars, syncVars, exitVars, memberVars, clientVars, Open

\* What is ready is given S of the chunks, and the stages keep the others.
LEMMA FlushMoves ==
    ASSUME IInv, UNCHANGED <<fed, received, depth, joined, left, base, pending, exited>>,
           NEW s \in Seq(Message), ToReady(s), SortedData(s), Leads(s), Leads(<<>>),
           PipeInv', Ahead = Data(s) \cup Ahead', Before(Data(s), Ahead')
    PROVE  Moves(Ready(s))
<1>1. /\ Ready(s) \in [Clients -> Seq(Message)] /\ Sent(Ready(s))
      /\ \A c \in Clients : Ready(s)[c] = IF c \in joined /\ ~pending[c] THEN s ELSE <<>>
  BY ReadyFacts DEF IInv
<1>2. /\ \A c \in Clients : /\ Ready(s)[c] # <<>> => c \in joined
                            /\ SortedData(Ready(s)[c])
                            /\ Data(Ready(s)[c]) \subseteq Ahead
                            /\ Before(Data(Ready(s)[c]), Ahead')
                            /\ Leads(Ready(s)[c])
  BY <1>1, NoData DEF Before
<1>3. \A c \in joined : ~pending[c] => Ahead \subseteq Ahead' \cup Data(Ready(s)[c])
  BY <1>1 DEF IInv, TypeInv, StageType
<1>4. \A c \in joined' : /\ c \in joined /\ base'[c] = base[c]
                         /\ ~pending'[c] /\ ~exited' => ~pending[c] /\ ~exited
  OBVIOUS
<1>. QED
  BY <1>1, <1>2, <1>3, <1>4 DEF Moves

\* A batch is buffered behind the buffer, flushed with it, or sent.
LEMMA ForwardMoves == ASSUME IInv, Forward PROVE \E es : Moves(es)
<1>1. /\ batch' = <<>> /\ output' = output /\ reading' = reading
      /\ UNCHANGED <<active, ending>> /\ ending = Nobody
      /\ UNCHANGED <<fed, received, depth, joined, left, base, pending, exited>>
  BY DEF Forward, readerVars, exitVars, memberVars, clientVars
<1>2. Range(<<>>) = {} /\ Sorted(<<>>)
  BY DEF Range, Sorted
<1>3. /\ buffer \o batch \in Seq(Chunk)
      /\ Range(buffer \o batch) = Range(buffer) \cup Range(batch)
      /\ Sorted(buffer \o batch)
  BY ConcatFacts DEF IInv, TypeInv, StageType, OrderInv, PipeInv
<1>4. Leads(<<>>)
  BY <1>1, NeutralEvents, LeadsNowhere DEF Open
<1>5. CASE buffer' = buffer \o batch /\ UNCHANGED sendVars
  <2>1. PipeInv' /\ Ahead' = Ahead
    BY <1>1, <1>2, <1>3, <1>5 DEF IInv, OrderInv, PipeInv, Ahead, Before
  <2>2. Moves(Nothing)
    BY <1>1, <1>5, <2>1, StageMoves DEF Open
  <2>. QED
    BY <2>2
<1>6. CASE ToReady(Pieces(buffer \o batch)) /\ buffer' = <<>>
  <2>1. /\ PipeInv'
        /\ Ahead' = Range(output) \cup Range(reading)
        /\ Before(Range(buffer \o batch), Ahead')
    BY <1>1, <1>2, <1>3, <1>6 DEF IInv, OrderInv, PipeInv, Ahead, Before
  <2>2. /\ Pieces(buffer \o batch) \in Seq(Message)
        /\ Data(Pieces(buffer \o batch)) = Range(buffer \o batch)
        /\ SortedData(Pieces(buffer \o batch))
    BY <1>3, DataPieces
  <2>3. Leads(Pieces(buffer \o batch))
    BY <1>1, <1>3, NeutralEvents, LeadsNowhere DEF Open
  <2>4. Ahead = Data(Pieces(buffer \o batch)) \cup Ahead'
    BY <1>3, <2>1, <2>2 DEF Ahead
  <2>5. Moves(Ready(Pieces(buffer \o batch)))
    BY <1>1, <1>4, <1>6, <2>1, <2>2, <2>3, <2>4, FlushMoves
  <2>. QED
    BY <2>5
<1>7. CASE ~active /\ ToReady(<<Output(batch)>>) /\ UNCHANGED buffer
  <2>1. buffer = <<>>
    BY <1>7 DEF IInv, PlaceInv, StagePlace
  <2>2. /\ PipeInv'
        /\ Ahead' = Range(output) \cup Range(reading)
        /\ Before(Range(batch), Ahead')
    BY <1>1, <1>2, <1>7, <2>1 DEF IInv, OrderInv, PipeInv, Ahead, Before
  <2>3. Output(batch) \in Message /\ Output(batch).data = batch /\ Sorted(batch)
    BY DEF Output, Message, Kinds, IInv, TypeInv, StageType, OrderInv, PipeInv
  <2>4. /\ <<Output(batch)>> \in Seq(Message)
        /\ Data(<<Output(batch)>>) = Range(batch)
        /\ SortedData(<<Output(batch)>>)
    BY <2>3, DataOne
  <2>5. Leads(<<Output(batch)>>)
    BY <1>1, NeutralEvents, LeadsNowhere DEF Open, IInv, TypeInv, StageType
  <2>6. Ahead = Data(<<Output(batch)>>) \cup Ahead'
    BY <1>2, <2>1, <2>2, <2>4 DEF Ahead
  <2>7. Moves(Ready(<<Output(batch)>>))
    BY <1>1, <1>4, <1>7, <2>2, <2>4, <2>5, <2>6, FlushMoves
  <2>. QED
    BY <2>7
<1>. QED
  BY <1>5, <1>6, <1>7 DEF Forward

-----------------------------------------------------------------------------
(* Clients, resizes and the end.                                           *)

\* A client joins pending, and is owed nothing yet.
LEMMA JoinMoves == ASSUME IInv, NEW c \in Clients, Join(c) PROVE Moves(Nothing)
<1>1. /\ UNCHANGED <<fed, reading, output, batch, buffer, received, depth, exited>>
      /\ UNCHANGED <<base, sendVars>>
      /\ active' = active /\ ending' = ending
      /\ joined' = joined \cup {c} /\ left' = left /\ c \notin joined \cup left
      /\ pending' = [pending EXCEPT ![c] = TRUE]
  BY DEF Join, readerVars, taskVars, syncVars, exitVars, clientVars
<1>2. Sent(Nothing) /\ Nothing \in [Clients -> Seq(Message)]
  BY <1>1, NothingSent DEF IInv
<1>3. PipeInv' /\ Ahead' = Ahead
  BY <1>1 DEF IInv, OrderInv, PipeInv, Ahead
<1>4. \A d \in Clients : Nothing[d] = <<>>
  BY DEF Nothing
<1>5. Leads(<<>>)
  BY <1>1, NeutralEvents, LeadsNowhere DEF Open
<1>6. Before(Data(<<>>), Ahead')
  BY NoData DEF Before
<1>7. \A d \in joined' : d \in Clients /\ (d = c \/ (d \in joined /\ pending'[d] = pending[d]))
  BY <1>1 DEF IInv, TypeInv, StageType
<1>8. pending'[c]
  BY <1>1 DEF IInv, TypeInv, StageType
<1>. QED
  BY <1>1, <1>2, <1>3, <1>4, <1>5, <1>6, <1>7, <1>8, NoData DEF Moves

\* The snapshot shows every chunk fed so far, so the client lacks none.
LEMMA ReplayMoves == ASSUME IInv, NEW c \in Clients, Replay(c) PROVE Moves(One(c, ReplayEvents))
<1>1. /\ UNCHANGED <<fed, reading, output, batch, buffer, received, depth, exited>>
      /\ active' = active /\ ending' = ending /\ joined' = joined /\ left' = left
      /\ base' = [base EXCEPT ![c] = fed]
      /\ pending' = [pending EXCEPT ![c] = FALSE]
      /\ c \in joined
      /\ Send(One(c, ReplayEvents))
  BY DEF Replay, readerVars, taskVars, syncVars, exitVars, clientVars, One, ReplayEvents
<1>2. /\ One(c, ReplayEvents) \in [Clients -> Seq(Message)]
      /\ \A d \in Clients : One(c, ReplayEvents)[d] = IF d = c THEN ReplayEvents ELSE <<>>
  BY ReplayType DEF One
<1>3. Sent(One(c, ReplayEvents))
  BY <1>1, <1>2, SendFacts DEF IInv
<1>4. PipeInv' /\ Ahead' = Ahead
  BY <1>1 DEF IInv, OrderInv, PipeInv, Ahead
<1>5. Leads(<<>>) /\ Leads(ReplayEvents)
  BY <1>1, NeutralEvents, LeadsNowhere DEF Open
<1>6. \A d \in joined' : \/ d = c /\ base'[d] = fed
                         \/ d \in joined /\ pending'[d] = pending[d] /\ base'[d] = base[d]
  BY <1>1 DEF IInv, TypeInv, StageType
<1>7. \A d \in Clients :
        /\ One(c, ReplayEvents)[d] # <<>> => d \in joined
        /\ SortedData(One(c, ReplayEvents)[d])
        /\ Data(One(c, ReplayEvents)[d]) = {}
        /\ Leads(One(c, ReplayEvents)[d])
  BY <1>1, <1>2, <1>5, ReplayType, NoData
<1>8. \A d \in Clients : Before(Data(One(c, ReplayEvents)[d]), Ahead')
  BY <1>7 DEF Before
<1>9. \A d \in joined' : d \in joined
  BY <1>1
<1>. HIDE DEF ReplayEvents, One
<1>. QED
  BY <1>1, <1>2, <1>3, <1>4, <1>6, <1>7, <1>8, <1>9 DEF Moves

\* SyncEnd and a resize close what was open; the exit moves nothing.
LEMMA EndSyncMoves == ASSUME IInv, EndSync PROVE Moves(All(Event("sync_end")))
<1>1. /\ Still /\ UNCHANGED <<base, pending, exited>>
      /\ ToAll(Event("sync_end"))
  BY DEF EndSync, Still, readerVars, taskVars, exitVars, memberVars, clientVars
<1>2. Leads(<<Event("sync_end")>>)
  BY ClosingEvents, LeadsHome
<1>. QED
  BY <1>1, <1>2, AllMoves DEF Kinds

LEMMA NotifyExitMoves == ASSUME IInv, NotifyExit PROVE Moves(All(Event("session_exit")))
<1>1. /\ Still /\ UNCHANGED <<base, pending, exited>>
      /\ ToAll(Event("session_exit")) /\ (Open => Open')
  BY DEF NotifyExit, Still, readerVars, taskVars, syncVars, memberVars, clientVars, Open
<1>2. Leads(<<Event("session_exit")>>)
  BY <1>1, NeutralEvents, LeadsNowhere
<1>. QED
  BY <1>1, <1>2, AllMoves DEF Kinds

LEMMA SendResizeMoves == ASSUME IInv, SendResize PROVE \E es : Moves(es)
<1>1. Still /\ UNCHANGED <<base, pending, exited>> /\ (Open => Open')
  BY DEF SendResize, Still, readerVars, taskVars, syncVars, exitVars, memberVars, clientVars,
         Open
<1>2. CASE UNCHANGED sendVars
  <2>1. Moves(Nothing)
    BY <1>1, <1>2, QuietMoves
  <2>. QED
    BY <2>1
<1>3. CASE Send(ToOthers(resizer.origin))
  <2>. DEFINE es == ToOthers(resizer.origin)
  <2>1. /\ <<Event("resize")>> \in Seq(Message)
        /\ Data(<<Event("resize")>>) = {} /\ SortedData(<<Event("resize")>>)
    BY EventType DEF Kinds
  <2>2. /\ es \in [Clients -> Seq(Message)]
        /\ \A c \in Clients : es[c] = IF c \in joined \ {resizer.origin}
                                     THEN <<Event("resize")>> ELSE <<>>
    BY <2>1 DEF ToOthers
  <2>. HIDE DEF es
  <2>3. Sent(es)
    BY <1>3, <2>2, SendFacts DEF IInv, es
  <2>4. Leads(<<Event("resize")>>) /\ Leads(<<>>)
    BY <1>1, ClosingEvents, LeadsHome, NeutralEvents, LeadsNowhere
  <2>5. Moves(es)
    BY <1>1, <2>1, <2>2, <2>3, <2>4, NoData, ControlMoves
  <2>. QED
    BY <2>5
<1>. QED
  BY <1>2, <1>3 DEF SendResize, ToOthers

\* The steps that only move a phase, a flag or the clock.
LEMMA PhaseMoves ==
    ASSUME IInv, \/ Tick \/ Age \/ MarkExited
                 \/ \E c \in Clients : RequestSnapshot(c) \/ SnapshotFails(c)
                 \/ \E c \in Clients \cup {Peer} : StartResize(c)
    PROVE  Moves(Nothing)
<1>. SUFFICES Still /\ UNCHANGED <<base, pending, sendVars>> /\ (exited => exited')
                    /\ (Open => Open')
  BY QuietMoves
<1>1. CASE Tick \/ Age \/ MarkExited
  BY <1>1 DEF Tick, Age, MarkExited, Still, Open, readerVars, taskVars, syncVars, exitVars,
              memberVars, clientVars
<1>2. ASSUME NEW c \in Clients, RequestSnapshot(c) \/ SnapshotFails(c)
      PROVE  Still /\ UNCHANGED <<base, pending, sendVars>> /\ (exited => exited')
                   /\ (Open => Open')
  BY <1>2 DEF RequestSnapshot, SnapshotFails, Still, Open, readerVars, taskVars, syncVars,
              exitVars, clientVars
<1>3. ASSUME NEW c \in Clients \cup {Peer}, StartResize(c)
      PROVE  Still /\ UNCHANGED <<base, pending, sendVars>> /\ (exited => exited')
                   /\ (Open => Open')
  BY <1>3 DEF StartResize, Still, Open, readerVars, taskVars, syncVars, exitVars,
              memberVars, clientVars
<1>. QED
  BY <1>1, <1>2, <1>3

\* The steps that set the sync mode.
LEMMA SyncMoves ==
    ASSUME IInv, \/ ApplySyncEvent \/ Expire \/ ResizeBreaksSync
                 \/ \E c \in Clients : BreakSync(c)
    PROVE  \E es : Moves(es)
<1>1. CASE ApplySyncEvent
  <2>1. Bystanders /\ (StartSync \/ StopSync("reader"))
    BY <1>1 DEF ApplySyncEvent, Bystanders, taskVars, exitVars, memberVars, clientVars
  <2>. QED
    BY <2>1, StartSyncMoves, StopSyncMoves
<1>2. CASE Expire
  <2>1. Bystanders /\ StopSync("task")
    BY <1>2 DEF Expire, Bystanders, readerVars, exitVars, memberVars, clientVars
  <2>. QED
    BY <2>1, StopSyncMoves
<1>3. CASE ResizeBreaksSync
  <2>1. Bystanders /\ StopSync("resizer")
    BY <1>3 DEF ResizeBreaksSync, Bystanders, readerVars, taskVars, exitVars, memberVars,
                clientVars
  <2>. QED
    BY <2>1, StopSyncMoves
<1>4. ASSUME NEW c \in Clients, BreakSync(c) PROVE \E es : Moves(es)
  <2>1. Bystanders /\ StopSync(c)
    BY <1>4 DEF BreakSync, Bystanders, readerVars, taskVars, exitVars, clientVars
  <2>. QED
    BY <2>1, StopSyncMoves
<1>. QED
  BY <1>1, <1>2, <1>3, <1>4

\* Every step that is no read, no departure and no delivery.
Sending ==
    \/ ApplySyncEvent \/ HandOn \/ Recv \/ Tick \/ Expire \/ CheckExited \/ Forward \/ Age
    \/ Resizer \/ EndSync \/ MarkExited \/ NotifyExit
    \/ \E c \in Clients : \/ Join(c) \/ RequestSnapshot(c) \/ BreakSync(c) \/ Replay(c)
                          \/ SnapshotFails(c)

\* All of them.
LEMMA SendingMoves == ASSUME IInv, Sending PROVE \E es : Moves(es)
<1>1. CASE \/ Tick \/ Age \/ MarkExited
           \/ \E c \in Clients : RequestSnapshot(c) \/ SnapshotFails(c)
           \/ \E c \in Clients \cup {Peer} : StartResize(c)
  BY <1>1, PhaseMoves
<1>2. CASE \/ ApplySyncEvent \/ Expire \/ ResizeBreaksSync
           \/ \E c \in Clients : BreakSync(c)
  BY <1>2, SyncMoves
<1>3. CASE HandOn \/ Recv \/ CheckExited
  BY <1>3, HandOnMoves, RecvMoves, CheckExitedMoves
<1>4. CASE Forward \/ SendResize
  BY <1>4, ForwardMoves, SendResizeMoves
<1>5. CASE EndSync \/ NotifyExit
  BY <1>5, EndSyncMoves, NotifyExitMoves
<1>6. CASE \E c \in Clients : Join(c) \/ Replay(c)
  BY <1>6, JoinMoves, ReplayMoves
<1>. QED
  BY <1>1, <1>2, <1>3, <1>4, <1>5, <1>6 DEF Sending, Resizer

-----------------------------------------------------------------------------
(* Types and places.                                                       *)

\* What a sending step has to keep itself: its sends keep the rest.
LEMMA MovesType ==
    ASSUME TypeInv, PlaceInv, NEW es, Moves(es), StageType', StagePlace',
           joined' \subseteq Clients, joined' \cap left' = {},
           pending' \in [Clients -> BOOLEAN], base' \in [Clients -> 0 .. fed]
    PROVE  TypeInv' /\ PlaceInv'
<1>1. UNCHANGED <<fed, received, depth, left>> /\ joined \subseteq joined' /\ Sent(es)
  BY DEF Moves
<1>2. TypeInv'
  BY <1>1 DEF TypeInv, Sent
<1>3. ASSUME NEW c \in Clients \ joined' PROVE queue'[c] = <<>>
  <2>1. c \notin joined /\ es[c] = <<>>
    BY <1>1, <1>3 DEF Moves
  <2>. QED
    BY <1>1, <2>1 DEF Sent, PlaceInv
<1>4. \A c \in Clients \ (joined' \cup left') : depth'[c] = 0
  BY <1>1 DEF PlaceInv
<1>. QED
  BY <1>2, <1>3, <1>4 DEF PlaceInv

\* The sync state after set_sync_mode.
LEMMA SyncTypes ==
    ASSUME TypeInv, PlaceInv,
           \/ StartSync
           \/ \E who \in Clients \cup {"reader", "task", "resizer"} : StopSync(who)
    PROVE  /\ active' \in BOOLEAN /\ buffer' \in Seq(Chunk)
           /\ ending' \in Clients \cup {Nobody, "reader", "task", "resizer"}
           /\ ~active' => buffer' = <<>>
           /\ ending' # Nobody => ~active'
<1>. DEFINE T == Clients \cup {Nobody, "reader", "task", "resizer"}
<1>1. /\ active \in BOOLEAN /\ buffer \in Seq(Chunk) /\ <<>> \in Seq(Chunk) /\ ending \in T
      /\ ~active => buffer = <<>>
      /\ ending # Nobody => ~active
  BY DEF TypeInv, StageType, PlaceInv, StagePlace
<1>. HIDE DEF T
<1>2. CASE StartSync
  BY <1>1, <1>2 DEF StartSync
<1>3. ASSUME NEW who \in T, StopSync(who)
      PROVE  /\ active' \in BOOLEAN /\ buffer' \in Seq(Chunk) /\ ending' \in T
             /\ ~active' => buffer' = <<>>
             /\ ending' # Nobody => ~active'
  BY <1>1, <1>3 DEF StopSync
<1>. QED
  BY <1>2, <1>3 DEF T

\* The stages of the pipeline, action by action.
LEMMA StageTypes ==
    ASSUME TypeInv, PlaceInv, Sending
    PROVE  StageType' /\ StagePlace'
<1>. USE DEF TypeInv, PlaceInv, StageType, StagePlace
<1>1. CASE ApplySyncEvent
  <2>1. StartSync \/ StopSync("reader")
    BY <1>1 DEF ApplySyncEvent
  <2>2. events' \in Seq({"start", "stop"})
    BY <1>1 DEF ApplySyncEvent
  <2>. QED
    BY <1>1, <2>1, <2>2, SyncTypes DEF ApplySyncEvent, taskVars, exitVars
<1>2. CASE HandOn
  <2>1. output' \in Seq(Chunk) /\ reading' \in Seq(Chunk)
    BY <1>2, ConcatFacts DEF HandOn
  <2>. QED
    BY <1>2, <2>1 DEF HandOn, taskVars, syncVars, exitVars
<1>3. CASE Recv
  BY <1>3 DEF Recv, readerVars, syncVars, exitVars
<1>4. CASE Tick
  BY <1>4 DEF Tick, readerVars, syncVars, exitVars
<1>5. CASE Expire
  BY <1>5, SyncTypes DEF Expire, readerVars, exitVars
<1>6. CASE CheckExited
  BY <1>6 DEF CheckExited, readerVars, syncVars, exitVars
<1>7. CASE Forward
  <2>1. /\ buffer \o batch \in Seq(Chunk) /\ <<>> \in Seq(Chunk)
        /\ buffer' \in {buffer \o batch, <<>>, buffer}
        /\ ~active => buffer' = buffer
    BY <1>7, ConcatFacts DEF Forward
  <2>. QED
    BY <1>7, <2>1 DEF Forward, readerVars, exitVars
<1>8. CASE Age
  BY <1>8 DEF Age, readerVars, syncVars, exitVars
<1>9. CASE Resizer
  <2>1. CASE ResizeBreaksSync
    BY <2>1, SyncTypes DEF ResizeBreaksSync, readerVars, taskVars, exitVars
  <2>2. CASE SendResize
    BY <2>2 DEF SendResize, readerVars, taskVars, syncVars, exitVars
  <2>3. ASSUME NEW c \in Clients \cup {Peer}, StartResize(c) PROVE StageType' /\ StagePlace'
    BY <2>3 DEF StartResize, readerVars, taskVars, syncVars, exitVars
  <2>. QED
    BY <1>9, <2>1, <2>2, <2>3 DEF Resizer
<1>10. CASE EndSync
  BY <1>10 DEF EndSync, readerVars, taskVars, exitVars
<1>11. CASE MarkExited
  BY <1>11 DEF MarkExited, readerVars, taskVars, syncVars
<1>12. CASE NotifyExit
  BY <1>12 DEF NotifyExit, readerVars, taskVars, syncVars
<1>13. ASSUME NEW c \in Clients, BreakSync(c) PROVE StageType' /\ StagePlace'
  BY <1>13, SyncTypes DEF BreakSync, readerVars, taskVars, exitVars
<1>14. ASSUME NEW c \in Clients,
              Join(c) \/ RequestSnapshot(c) \/ Replay(c) \/ SnapshotFails(c)
       PROVE  StageType' /\ StagePlace'
  <2>1. UNCHANGED <<readerVars, output, taskVars, syncVars, exitVars>>
    BY <1>14 DEF Join, RequestSnapshot, Replay, SnapshotFails
  <2>. QED
    BY <2>1 DEF readerVars, taskVars, syncVars, exitVars
<1>. QED
  BY <1>1, <1>2, <1>3, <1>4, <1>5, <1>6, <1>7, <1>8, <1>9, <1>10, <1>11, <1>12, <1>13,
     <1>14 DEF Sending

\* Membership, likewise.
LEMMA MemberTypes ==
    ASSUME TypeInv, Sending
    PROVE  /\ joined' \subseteq Clients /\ joined' \cap left' = {}
           /\ pending' \in [Clients -> BOOLEAN] /\ base' \in [Clients -> 0 .. fed]
<1>. USE DEF TypeInv
<1>1. CASE UNCHANGED <<joined, left, pending, base>>
  BY <1>1
<1>2. ASSUME NEW c \in Clients, Join(c)
      PROVE  /\ joined' \subseteq Clients /\ joined' \cap left' = {}
             /\ pending' \in [Clients -> BOOLEAN] /\ base' \in [Clients -> 0 .. fed]
  BY <1>2 DEF Join
<1>3. ASSUME NEW c \in Clients, Replay(c)
      PROVE  /\ joined' \subseteq Clients /\ joined' \cap left' = {}
             /\ pending' \in [Clients -> BOOLEAN] /\ base' \in [Clients -> 0 .. fed]
  <2>1. fed \in 0 .. fed
    BY BoundAssumption
  <2>. QED
    BY <1>3, <2>1 DEF Replay
<1>4. \/ UNCHANGED <<joined, left, pending, base>>
      \/ \E c \in Clients : Join(c) \/ Replay(c)
  BY DEF Sending, ApplySyncEvent, HandOn, Recv, Tick, Expire, CheckExited, Forward, Age,
         Resizer, ResizeBreaksSync, SendResize, StartResize, EndSync, MarkExited, NotifyExit,
         RequestSnapshot, BreakSync, SnapshotFails, memberVars
<1>. QED
  BY <1>1, <1>2, <1>3, <1>4

\* So the sending steps keep the invariant.
LEMMA SendingStep == ASSUME IInv, Sending PROVE IInv'
<1>1. PICK es : Moves(es)
  BY SendingMoves
<1>2. TypeInv' /\ PlaceInv'
  BY <1>1, StageTypes, MemberTypes, MovesType DEF IInv
<1>3. OrderInv' /\ FedInv' /\ CompleteInv' /\ WedgeInv'
  BY <1>1, MovesOrder, MovesComplete, MovesSettled DEF IInv
<1>. QED
  BY <1>2, <1>3 DEF IInv

-----------------------------------------------------------------------------
(* The read, the delivery and the departure.                               *)

\* The chunk just read comes after all there are.
LEMMA FeedStep == ASSUME IInv, Feed PROVE IInv'
<1>1. /\ fed' = fed + 1 /\ reading = <<>> /\ reading' = <<fed + 1>>
      /\ fed \in Nat /\ fed + 1 \in Chunk
      /\ events' \in Seq({"start", "stop"})
      /\ UNCHANGED <<output, batch, buffer, task, started, active, ending, exited, told>>
      /\ UNCHANGED <<joined, left, pending, base, queue, lossy, depth, received>>
  BY BoundAssumption, UseAssumption
     DEF Feed, taskVars, syncVars, exitVars, memberVars, clientVars, sendVars, IInv, TypeInv,
         Chunk
<1>2. /\ Range(reading') = {fed + 1} /\ Range(reading) = {}
      /\ Sorted(reading') /\ reading' \in Seq(Chunk)
  <2>1. Range(<<fed + 1>>) = {fed + 1} /\ Range(<<>>) = {}
    BY RangeOne DEF Range
  <2>2. Sorted(<<fed + 1>>)
    BY DEF Sorted
  <2>. QED
    BY <1>1, <2>1, <2>2
<1>3. Ahead' = Ahead \cup {fed + 1}
  BY <1>1, <1>2 DEF Ahead
<1>4. TypeInv' /\ PlaceInv'
  <2>1. base' \in [Clients -> 0 .. fed']
    <3>1. \A n \in 0 .. fed : n \in 0 .. fed'
      BY <1>1
    <3>. QED
      BY <1>1, <3>1 DEF IInv, TypeInv
  <2>2. fed' \in 0 .. MaxChunks
    BY <1>1, BoundAssumption DEF Chunk
  <2>3. StageType' /\ StagePlace'
    BY <1>1, <1>2 DEF IInv, TypeInv, PlaceInv, StageType, StagePlace
  <2>. QED
    BY <1>1, <2>1, <2>2, <2>3 DEF IInv, TypeInv, PlaceInv
<1>5. FedInv'
  <2>1. \A n \in 1 .. fed : n \in 1 .. fed'
    BY <1>1
  <2>2. fed + 1 \in 1 .. fed'
    BY <1>1
  <2>. QED
    BY <1>1, <1>3, <2>1, <2>2 DEF IInv, FedInv
<1>6. OrderInv'
  <2>1. \A n \in 1 .. fed : n < fed + 1
    BY <1>1
  <2>2. PipeInv'
    BY <1>1, <1>2, <2>1 DEF IInv, OrderInv, PipeInv, FedInv, Ahead, Before
  <2>3. ASSUME NEW c \in Clients PROVE ClientOrder(c)'
    <3>1. ClientOrder(c) /\ Range(received[c]) \cup Data(queue[c]) \subseteq 1 .. fed
      BY DEF IInv, OrderInv, FedInv
    <3>. QED
      BY <1>1, <1>3, <2>1, <3>1 DEF ClientOrder, Before
  <2>. QED
    BY <2>2, <2>3 DEF OrderInv
<1>7. CompleteInv'
  <2>1. \A n \in 1 .. fed' : n \in 1 .. fed \/ n = fed + 1
    BY <1>1
  <2>. QED
    BY <1>1, <1>3, <2>1 DEF IInv, CompleteInv, Complete
<1>8. WedgeInv'
  BY <1>1 DEF IInv, WedgeInv, Settled
<1>. QED
  BY <1>4, <1>5, <1>6, <1>7, <1>8 DEF IInv

\* The head of a queue goes to the frontend, with its chunks and its depth.
LEMMA DeliverStep == ASSUME IInv, NEW c \in Clients, Deliver(c) PROVE IInv'
<1>. DEFINE m == Head(queue[c])
<1>1. /\ queue[c] # <<>>
      /\ depth' = [depth EXCEPT ![c] = DepthAfter(depth[c], m.type)]
      /\ received' = [received EXCEPT ![c] = received[c] \o m.data]
      /\ queue' = [queue EXCEPT ![c] = Tail(queue[c])]
      /\ UNCHANGED <<fed, reading, events, output, batch, buffer, task, started, active>>
      /\ UNCHANGED <<ending, exited, told, joined, left, pending, base, lossy>>
  BY DEF Deliver, readerVars, taskVars, syncVars, exitVars, memberVars
<1>2. /\ queue[c] \in Seq(Message) /\ received[c] \in Seq(Chunk) /\ depth[c] \in Nat
      /\ Len(queue[c]) <= Capacity
  BY DEF IInv, TypeInv
<1>3. /\ m \in Message /\ Tail(queue[c]) \in Seq(Message)
      /\ Len(Tail(queue[c])) = Len(queue[c]) - 1
      /\ Data(queue[c]) = Range(m.data) \cup Data(Tail(queue[c]))
      /\ SortedData(queue[c]) => /\ Sorted(m.data)
                                 /\ SortedData(Tail(queue[c]))
                                 /\ Before(Range(m.data), Data(Tail(queue[c])))
  BY <1>1, <1>2, DataTail
<1>. HIDE DEF m
<1>4. m.data \in Seq(Chunk)
  BY <1>3 DEF Message
<1>5. /\ queue'[c] = Tail(queue[c])
      /\ received'[c] = received[c] \o m.data
      /\ depth'[c] = DepthAfter(depth[c], m.type)
      /\ \A d \in Clients : d # c => /\ queue'[d] = queue[d] /\ received'[d] = received[d]
                                     /\ depth'[d] = depth[d]
  BY <1>1 DEF IInv, TypeInv
<1>6. /\ received'[c] \in Seq(Chunk)
      /\ Range(received'[c]) = Range(received[c]) \cup Range(m.data)
      /\ Sorted(received[c]) /\ Sorted(m.data) /\ Before(Range(received[c]), Range(m.data))
           => Sorted(received'[c])
  BY <1>2, <1>4, <1>5, ConcatFacts
<1>7. TypeInv' /\ PlaceInv'
  <2>1. received' \in [Clients -> Seq(Chunk)]
    BY <1>1, <1>5, <1>6 DEF IInv, TypeInv
  <2>2. depth' \in [Clients -> Nat]
    BY <1>1, <1>2, DepthType DEF IInv, TypeInv
  <2>3. queue' \in [Clients -> Seq(Message)]
    BY <1>1, <1>3 DEF IInv, TypeInv
  <2>4. \A d \in Clients : Len(queue'[d]) <= Capacity
    <3>1. Len(queue[c]) \in Nat /\ Capacity \in Nat
      BY <1>2, BoundAssumption
    <3>2. Len(queue'[c]) <= Capacity
      BY <1>2, <1>3, <1>5, <3>1
    <3>. QED
      BY <1>5, <3>2 DEF IInv, TypeInv
  <2>5. TypeInv'
    BY <1>1, <2>1, <2>2, <2>3, <2>4 DEF IInv, TypeInv, StageType
  <2>6. c \in joined
    BY <1>1 DEF IInv, PlaceInv
  <2>. QED
    BY <1>1, <1>5, <2>5, <2>6 DEF IInv, PlaceInv, StagePlace
<1>8. FedInv'
  BY <1>1, <1>3, <1>5, <1>6 DEF IInv, FedInv, Ahead
<1>9. OrderInv'
  <2>1. PipeInv' /\ Ahead' = Ahead
    BY <1>1 DEF IInv, OrderInv, PipeInv, Ahead
  <2>2. ClientOrder(c)'
    <3>1. ClientOrder(c)
      BY DEF IInv, OrderInv
    <3>2. Before(Range(received[c]), Range(m.data))
      BY <1>3, <3>1 DEF ClientOrder, Before
    <3>. QED
      BY <1>3, <1>5, <1>6, <2>1, <3>1, <3>2 DEF ClientOrder, Before
  <2>3. \A d \in Clients : d # c => ClientOrder(d)'
    BY <1>5, <2>1 DEF IInv, OrderInv, ClientOrder
  <2>. QED
    BY <2>1, <2>2, <2>3 DEF OrderInv
<1>10. CompleteInv'
  <2>1. Ahead' = Ahead
    BY <1>1 DEF Ahead
  <2>2. \A d \in Clients : Complete(d) => Complete(d)'
    BY <1>1, <1>3, <1>5, <1>6, <2>1 DEF Complete
  <2>. QED
    BY <1>1, <2>2 DEF IInv, CompleteInv, TypeInv
<1>11. WedgeInv'
  <2>1. \A e \in {0, 1} : Settles(depth[c], queue[c], e) => Settles(depth'[c], queue'[c], e)
    BY <1>1, <1>2, <1>5, SettlesTail DEF m
  <2>2. \A d \in Clients : Settled(d) => Settled(d)'
    BY <1>1, <1>5, <2>1 DEF Settled
  <2>. QED
    BY <1>1, <2>2 DEF IInv, WedgeInv, TypeInv
<1>. QED
  BY <1>7, <1>8, <1>9, <1>10, <1>11 DEF IInv

\* What was queued for a client that leaves is gone, and so is the obligation.
LEMMA LeaveStep == ASSUME IInv, NEW c \in Clients, Leave(c) PROVE IInv'
<1>1. /\ c \in joined /\ joined' = joined \ {c} /\ left' = left \cup {c}
      /\ queue' = [queue EXCEPT ![c] = <<>>]
      /\ UNCHANGED <<fed, reading, events, output, batch, buffer, task, started, active>>
      /\ UNCHANGED <<ending, exited, told, pending, base, lossy, depth, received>>
  BY DEF Leave, readerVars, taskVars, syncVars, exitVars, clientVars
<1>2. /\ queue'[c] = <<>>
      /\ \A d \in Clients : d # c => queue'[d] = queue[d]
  BY <1>1 DEF IInv, TypeInv
<1>3. TypeInv'
  <2>1. queue' \in [Clients -> Seq(Message)]
    BY <1>1 DEF IInv, TypeInv
  <2>2. \A d \in Clients : Len(queue'[d]) <= Capacity
    <3>1. Len(queue'[c]) = 0 /\ Capacity \in Nat
      BY <1>2, BoundAssumption
    <3>2. Len(queue'[c]) <= Capacity
      BY <3>1
    <3>3. \A d \in Clients : Len(queue[d]) <= Capacity
      BY DEF IInv, TypeInv
    <3>. QED
      BY <1>2, <3>2, <3>3
  <2>. QED
    BY <1>1, <2>1, <2>2 DEF IInv, TypeInv, StageType
<1>4. PlaceInv'
  BY <1>1, <1>2 DEF IInv, PlaceInv, StagePlace
<1>5. Ahead' = Ahead /\ PipeInv'
  BY <1>1 DEF IInv, OrderInv, PipeInv, Ahead
<1>6. ASSUME NEW d \in Clients
      PROVE  ClientOrder(d)' /\ Range(received'[d]) \cup Data(queue'[d]) \subseteq 1 .. fed
  <2>1. ClientOrder(d) /\ Range(received[d]) \cup Data(queue[d]) \subseteq 1 .. fed
    BY DEF IInv, OrderInv, FedInv
  <2>2. CASE d = c
    BY <1>1, <1>2, <1>5, <2>1, <2>2, NoData DEF ClientOrder, Before
  <2>3. CASE d # c
    BY <1>1, <1>2, <1>5, <2>1, <2>3 DEF ClientOrder
  <2>. QED
    BY <2>2, <2>3
<1>7. OrderInv' /\ FedInv'
  BY <1>1, <1>5, <1>6 DEF IInv, OrderInv, FedInv
<1>8. CompleteInv' /\ WedgeInv'
  <2>. SUFFICES ASSUME NEW d \in joined', d \notin lossy'
                PROVE  (~pending'[d] /\ ~exited' => Complete(d)') /\ Settled(d)'
    BY DEF CompleteInv, WedgeInv
  <2>1. d \in joined \ lossy /\ queue'[d] = queue[d]
    BY <1>1, <1>2 DEF IInv, TypeInv
  <2>. QED
    BY <1>1, <1>5, <2>1 DEF IInv, CompleteInv, WedgeInv, Complete, Settled
<1>. QED
  BY <1>3, <1>4, <1>7, <1>8 DEF IInv

-----------------------------------------------------------------------------
(* The invariant, and what it implies.                                     *)

\* It holds when the session starts, with no client and nothing read, ...
LEMMA InitIInv == Init => IInv
<1>. SUFFICES ASSUME Init PROVE IInv
  OBVIOUS
<1>. USE DEF Init
<1>1. Range(<<>>) = {} /\ Sorted(<<>>) /\ Data(<<>>) = {} /\ SortedData(<<>>)
  BY NoData DEF Range, Sorted
<1>2. TypeInv
  <2>1. 0 \in 0 .. MaxChunks /\ \A c \in Clients : Len(queue[c]) <= Capacity
    <3>1. \A c \in Clients : Len(queue[c]) = 0
      OBVIOUS
    <3>2. 0 <= Capacity /\ 0 \in 0 .. MaxChunks
      BY BoundAssumption
    <3>. HIDE DEF Init
    <3>. QED
      BY <3>1, <3>2
  <2>2. StageType
    <3>1. <<>> \in Seq(Chunk) /\ <<>> \in Seq({"start", "stop"})
      OBVIOUS
    <3>2. /\ reading = <<>> /\ output = <<>> /\ batch = <<>> /\ buffer = <<>> /\ events = <<>>
          /\ task = "recv" /\ started = "none" /\ ending = Nobody
          /\ active = FALSE /\ exited = FALSE /\ told = FALSE
      OBVIOUS
    <3>. HIDE DEF Init
    <3>. QED
      BY <3>1, <3>2 DEF StageType
  <2>3. /\ queue \in [Clients -> Seq(Message)] /\ received \in [Clients -> Seq(Chunk)]
        /\ base \in [Clients -> 0 .. 0] /\ depth \in [Clients -> Nat]
        /\ pending \in [Clients -> BOOLEAN]
    OBVIOUS
  <2>4. joined = {} /\ left = {} /\ lossy = {} /\ fed = 0
    OBVIOUS
  <2>. HIDE DEF Init
  <2>. QED
    BY <2>1, <2>2, <2>3, <2>4 DEF TypeInv
<1>3. PlaceInv
  BY DEF PlaceInv, StagePlace
<1>4. Ahead = {} /\ \A c \in Clients : Range(received[c]) = {} /\ Data(queue[c]) = {}
  BY <1>1 DEF Ahead
<1>5. FedInv
  BY <1>4 DEF FedInv
<1>6. OrderInv
  <2>1. PipeInv
    BY <1>1 DEF PipeInv, Before
  <2>2. \A c \in Clients : ClientOrder(c)
    BY <1>1, <1>4 DEF ClientOrder, Before
  <2>. QED
    BY <2>1, <2>2 DEF OrderInv
<1>7. CompleteInv /\ WedgeInv
  BY DEF CompleteInv, WedgeInv
<1>. QED
  BY <1>2, <1>3, <1>5, <1>6, <1>7 DEF IInv

\* ... and every step keeps it: a read, a delivery, a departure, or one that sends.
LEMMA Step == IInv /\ [Next]_vars => IInv'
<1>. SUFFICES ASSUME IInv, [Next]_vars PROVE IInv'
  OBVIOUS
<1>1. CASE UNCHANGED vars
  <2>1. /\ UNCHANGED <<fed, reading, events, output, batch, task, started, active, buffer>>
        /\ UNCHANGED <<ending, exited, told, joined, left, pending, base>>
        /\ UNCHANGED <<depth, received, queue, lossy>>
    BY <1>1 DEF vars, readerVars, taskVars, syncVars, exitVars, memberVars, clientVars, sendVars
  <2>2. TypeInv' /\ PlaceInv'
    BY <2>1 DEF IInv, TypeInv, StageType, PlaceInv, StagePlace
  <2>3. Ahead' = Ahead /\ FedInv'
    BY <2>1 DEF IInv, FedInv, Ahead
  <2>4. OrderInv'
    <3>1. PipeInv'
      BY <2>1 DEF IInv, OrderInv, PipeInv
    <3>2. \A c \in Clients : ClientOrder(c)'
      BY <2>1, <2>3 DEF IInv, OrderInv, ClientOrder
    <3>. QED
      BY <2>1, <3>1, <3>2 DEF OrderInv
  <2>5. CompleteInv' /\ WedgeInv'
    BY <2>1, <2>3 DEF IInv, CompleteInv, Complete, WedgeInv, Settled
  <2>. QED
    BY <2>2, <2>3, <2>4, <2>5 DEF IInv
<1>2. CASE Sending
  BY <1>2, SendingStep
<1>3. CASE Feed
  BY <1>3, FeedStep
<1>4. CASE \E c \in Clients : Leave(c) \/ Deliver(c)
  BY <1>4, LeaveStep, DeliverStep
<1>5. [Next]_vars => \/ UNCHANGED vars \/ Sending \/ Feed
                     \/ \E c \in Clients : Leave(c) \/ Deliver(c)
  BY DEF Next, Reader, Broadcaster, Client, Sending
<1>. QED
  BY <1>1, <1>2, <1>3, <1>4, <1>5

\* The invariant holds throughout: of the reader, the broadcast task, the resizes, the
\* snapshots and the frontends, no step breaks it.
THEOREM Invariance == Spec => []IInv
BY InitIInv, Step, PTL DEF Spec

-----------------------------------------------------------------------------
(* The stretches of SessionStream, in terms of the invariant.              *)

\* The elements of two sequences, and of three, one after the other.
LEMMA JoinedTwo ==
    ASSUME NEW U, NEW a \in Seq(U), NEW b \in Seq(U), NEW p, p = a \o b
    PROVE  /\ p \in Seq(U) /\ Len(p) = Len(a) + Len(b)
           /\ \A i \in 1 .. Len(a) : p[i] = a[i] /\ i \in 1 .. Len(p)
           /\ \A i \in 1 .. Len(b) : p[Len(a) + i] = b[i] /\ Len(a) + i \in 1 .. Len(p)
OBVIOUS

InThree(s, a, b, d) ==
    /\ DOMAIN s = 1 .. Len(a) + Len(b) + Len(d)
    /\ \A i \in 1 .. Len(a) : s[i] = a[i]
    /\ \A i \in 1 .. Len(b) : s[Len(a) + i] = b[i]
    /\ \A i \in 1 .. Len(d) : s[Len(a) + Len(b) + i] = d[i]

LEMMA Joined ==
    ASSUME NEW U, NEW a \in Seq(U), NEW b \in Seq(U), NEW d \in Seq(U)
    PROVE  InThree((a \o b) \o d, a, b, d)
<1>1. PICK p : p = a \o b
  OBVIOUS
<1>2. PICK s : s = p \o d
  OBVIOUS
<1>3. /\ p \in Seq(U) /\ Len(p) = Len(a) + Len(b)
      /\ \A i \in 1 .. Len(a) : p[i] = a[i] /\ i \in 1 .. Len(p)
      /\ \A i \in 1 .. Len(b) : p[Len(a) + i] = b[i] /\ Len(a) + i \in 1 .. Len(p)
  BY <1>1, JoinedTwo
<1>4. /\ s \in Seq(U) /\ Len(s) = Len(p) + Len(d)
      /\ \A i \in 1 .. Len(p) : s[i] = p[i] /\ i \in 1 .. Len(s)
      /\ \A i \in 1 .. Len(d) : s[Len(p) + i] = d[i] /\ Len(p) + i \in 1 .. Len(s)
  <2>1. p \in Seq(U)
    BY <1>3
  <2>. QED
    BY <1>2, <2>1, JoinedTwo
<1>5. DOMAIN s = 1 .. Len(a) + Len(b) + Len(d)
  BY <1>3, <1>4
<1>6. InThree(s, a, b, d)
  BY <1>3, <1>4, <1>5, Zenon DEF InThree
<1>. QED
  BY <1>1, <1>2, <1>6

\* Of the stretches for a client the first is what it has, the last four are the shared
\* stages, and those between are the events of its queue.
LEMMA StretchFacts ==
    ASSUME IInv, NEW c \in Clients
    PROVE  LET s == Stretches(c)
               n == Len(queue[c])
           IN  /\ n \in Nat /\ DOMAIN s = 1 .. n + 5 /\ DOMAIN queue[c] = 1 .. n
               /\ s[1] = received[c]
               /\ \A i \in 1 .. n : s[i + 1] = queue[c][i].data
               /\ s[n + 2] = buffer /\ s[n + 3] = batch
               /\ s[n + 4] = output /\ s[n + 5] = reading
<1>. DEFINE n == Len(queue[c])
            q == [i \in DOMAIN queue[c] |-> queue[c][i].data]
            r == <<received[c]>>
            t == <<buffer, batch, output, reading>>
            U == Seq(Chunk)
<1>1. queue[c] \in Seq(Message) /\ n \in Nat /\ DOMAIN queue[c] = 1 .. n
  BY DEF IInv, TypeInv
<1>2. \A i \in DOMAIN queue[c] : queue[c][i].data \in Seq(Chunk)
  <2>1. \A m \in Message : m.data \in Seq(Chunk)
    BY DEF Message
  <2>2. \A i \in DOMAIN queue[c] : queue[c][i] \in Message
    BY <1>1
  <2>. QED
    BY <2>1, <2>2
<1>3. received[c] \in Seq(Chunk) /\ buffer \in Seq(Chunk) /\ batch \in Seq(Chunk)
      /\ output \in Seq(Chunk) /\ reading \in Seq(Chunk)
  BY DEF IInv, TypeInv, StageType
<1>. HIDE DEF U, n
<1>4. q \in Seq(U) /\ Len(q) = n /\ \A i \in 1 .. n : q[i] = queue[c][i].data
  BY <1>1, <1>2 DEF U
<1>5. /\ r \in Seq(U) /\ Len(r) = 1 /\ r[1] = received[c]
      /\ t \in Seq(U) /\ Len(t) = 4
      /\ t[1] = buffer /\ t[2] = batch /\ t[3] = output /\ t[4] = reading
  BY <1>3 DEF U
<1>6. Stretches(c) = (r \o q) \o t
  BY DEF Stretches
<1>. HIDE DEF q, r, t
<1>7. PICK s : s = Stretches(c)
  OBVIOUS
<1>8. /\ DOMAIN s = 1 .. 1 + n + 4
      /\ \A i \in 1 .. 1 : s[i] = r[i]
      /\ \A i \in 1 .. n : s[1 + i] = q[i]
      /\ \A i \in 1 .. 4 : s[1 + n + i] = t[i]
  <2>1. r \in Seq(U) /\ q \in Seq(U) /\ t \in Seq(U)
    BY <1>4, <1>5
  <2>2. InThree((r \o q) \o t, r, q, t)
    BY <2>1, Joined, Zenon
  <2>3. InThree(s, r, q, t)
    BY <1>6, <1>7, <2>2, Zenon
  <2>. QED
    BY <1>4, <1>5, <2>3, Zenon DEF InThree
<1>9. /\ 1 + n + 4 = n + 5 /\ 1 + n + 1 = n + 2 /\ 1 + n + 2 = n + 3 /\ 1 + n + 3 = n + 4
      /\ 1 \in 1 .. 1
      /\ \A i \in 1 .. n : 1 + i = i + 1
      /\ 1 \in 1 .. 4 /\ 2 \in 1 .. 4 /\ 3 \in 1 .. 4 /\ 4 \in 1 .. 4
  BY <1>1
<1>10. /\ DOMAIN s = 1 .. n + 5
       /\ s[1] = received[c]
       /\ \A i \in 1 .. n : s[i + 1] = queue[c][i].data
       /\ s[n + 2] = buffer /\ s[n + 3] = batch
       /\ s[n + 4] = output /\ s[n + 5] = reading
  <2>1. DOMAIN s = 1 .. n + 5
    BY <1>8, <1>9, Zenon
  <2>2. s[1] = received[c]
    BY <1>5, <1>8, <1>9, Zenon
  <2>3. ASSUME NEW i \in 1 .. n PROVE s[i + 1] = queue[c][i].data
    <3>1. s[1 + i] = q[i] /\ q[i] = queue[c][i].data
      BY <1>4, <1>8
    <3>2. 1 + i = i + 1
      BY <1>9
    <3>. QED
      BY <3>1, <3>2, Zenon
  <2>4. s[1 + n + 1] = buffer /\ s[1 + n + 2] = batch /\ s[1 + n + 3] = output
        /\ s[1 + n + 4] = reading
    BY <1>5, <1>8, <1>9, Zenon
  <2>5. s[n + 2] = buffer /\ s[n + 3] = batch
    BY <1>9, <2>4, Zenon
  <2>6. s[n + 4] = output /\ s[n + 5] = reading
    BY <1>9, <2>4, Zenon
  <2>. QED
    BY <2>1, <2>2, <2>3, <2>5, <2>6
<1>. QED
  BY <1>1, <1>7, <1>10 DEF n

\* The chunks for a client, in terms of the invariant.
LEMMA ChunksSplit ==
    ASSUME IInv, NEW c \in Clients
    PROVE  Chunks(c) = Range(received[c]) \cup Data(queue[c]) \cup Ahead
<1>. DEFINE s == Stretches(c)
            n == Len(queue[c])
<1>1. /\ n \in Nat /\ DOMAIN s = 1 .. n + 5 /\ DOMAIN queue[c] = 1 .. n
      /\ s[1] = received[c]
      /\ \A i \in 1 .. n : s[i + 1] = queue[c][i].data
      /\ s[n + 2] = buffer /\ s[n + 3] = batch /\ s[n + 4] = output /\ s[n + 5] = reading
  BY StretchFacts, Zenon
<1>2. \A x : x \in Chunks(c) <=> \E i \in 1 .. n + 5 : x \in Range(s[i])
  <2>1. \A x : x \in Chunks(c) <=> \E y \in Range(s) : x \in Range(y)
    BY DEF Chunks
  <2>. HIDE DEF s
  <2>2. \A y : y \in Range(s) <=> \E i \in 1 .. n + 5 : y = s[i]
    BY <1>1 DEF Range
  <2>. QED
    BY <2>1, <2>2
<1>. HIDE DEF s
<1>. HIDE DEF n
<1>3. \A i \in 1 .. n + 5 : \/ i = 1 \/ (i - 1 \in 1 .. n /\ i = (i - 1) + 1)
                            \/ i \in {n + 2, n + 3, n + 4, n + 5}
  BY <1>1
<1>4. ASSUME NEW i \in 1 .. n + 5, NEW x \in Range(s[i])
      PROVE  x \in Range(received[c]) \cup Data(queue[c]) \cup Ahead
  BY <1>1, <1>3 DEF Data, Ahead
<1>5. ASSUME NEW x \in Range(received[c]) \cup Data(queue[c]) \cup Ahead
      PROVE  \E i \in 1 .. n + 5 : x \in Range(s[i])
  <2>1. CASE x \in Range(received[c])
    <3>1. 1 \in 1 .. n + 5
      BY <1>1
    <3>. QED
      BY <2>1, <3>1, <1>1
  <2>2. CASE x \in Data(queue[c])
    <3>1. PICK i \in 1 .. n : x \in Range(queue[c][i].data)
      BY <2>2, <1>1 DEF Data
    <3>2. i + 1 \in 1 .. n + 5 /\ s[i + 1] = queue[c][i].data
      BY <1>1
    <3>. QED
      BY <3>1, <3>2
  <2>3. CASE x \in Ahead
    <3>1. {n + 2, n + 3, n + 4, n + 5} \subseteq 1 .. n + 5
      BY <1>1
    <3>. QED
      BY <2>3, <3>1, <1>1 DEF Ahead
  <2>. QED
    BY <1>5, <2>1, <2>2, <2>3
<1>. QED
  BY <1>2, <1>4, <1>5

\* The order of two chunks of two stretches, or of one.
LEMMA StretchOrder ==
    ASSUME IInv, NEW c \in Clients
    PROVE  LET s == Stretches(c) IN
           /\ \A i \in DOMAIN s : Sorted(s[i])
           /\ \A i, j \in DOMAIN s : i < j => Before(Range(s[i]), Range(s[j]))
<1>. DEFINE s == Stretches(c)
            n == Len(queue[c])
<1>1. /\ n \in Nat /\ DOMAIN s = 1 .. n + 5 /\ DOMAIN queue[c] = 1 .. n
      /\ s[1] = received[c]
      /\ \A i \in 1 .. n : s[i + 1] = queue[c][i].data
      /\ s[n + 2] = buffer /\ s[n + 3] = batch /\ s[n + 4] = output /\ s[n + 5] = reading
  BY StretchFacts, Zenon
<1>. HIDE DEF s
<1>. HIDE DEF n
<1>2. \A i \in 1 .. n + 5 : \/ i = 1 \/ (i - 1 \in 1 .. n /\ i = (i - 1) + 1)
                            \/ i \in {n + 2, n + 3, n + 4, n + 5}
  BY <1>1
<1>3. PipeInv /\ ClientOrder(c)
  BY DEF IInv, OrderInv
<1>4. ASSUME NEW i \in 1 .. n + 5 PROVE Sorted(s[i])
  BY <1>1, <1>2, <1>3 DEF PipeInv, ClientOrder, SortedData
<1>5. \A i \in 1 .. n : Range(queue[c][i].data) \subseteq Data(queue[c])
  BY <1>1 DEF Data
<1>6. ASSUME NEW i \in {n + 2, n + 3, n + 4, n + 5}
      PROVE  Range(s[i]) \subseteq Ahead
  BY <1>1 DEF Ahead
<1>7. ASSUME NEW i \in 1 .. n + 5, NEW j \in 1 .. n + 5, i < j
      PROVE  Before(Range(s[i]), Range(s[j]))
  <2>1. CASE i = 1 /\ j - 1 \in 1 .. n
    BY <2>1, <1>1, <1>2, <1>3, <1>5 DEF ClientOrder, Before
  <2>2. CASE i = 1 /\ j \in {n + 2, n + 3, n + 4, n + 5}
    BY <2>2, <1>1, <1>3, <1>6 DEF ClientOrder, Before
  <2>3. CASE i - 1 \in 1 .. n /\ j - 1 \in 1 .. n
    <3>1. i - 1 < j - 1 /\ i = (i - 1) + 1 /\ j = (j - 1) + 1
      BY <1>1, <1>7
    <3>2. s[i] = queue[c][i - 1].data /\ s[j] = queue[c][j - 1].data
      BY <2>3, <3>1, <1>1, Zenon
    <3>. QED
      BY <2>3, <3>1, <3>2, <1>1, <1>3 DEF ClientOrder, SortedData
  <2>4. CASE i - 1 \in 1 .. n /\ j \in {n + 2, n + 3, n + 4, n + 5}
    <3>1. s[i] = queue[c][i - 1].data
      BY <2>4, <1>1, <1>2
    <3>. QED
      BY <2>4, <3>1, <1>3, <1>5, <1>6 DEF ClientOrder, Before
  <2>5. CASE i \in {n + 2, n + 3, n + 4, n + 5} /\ j \in {n + 2, n + 3, n + 4, n + 5}
    BY <2>5, <1>1, <1>3, <1>7 DEF PipeInv
  <2>. QED
    BY <1>1, <1>2, <1>7, <2>1, <2>2, <2>3, <2>4, <2>5
<1>. QED
  BY <1>1, <1>4, <1>7 DEF s

-----------------------------------------------------------------------------
(* The theorems.                                                           *)

\* Every variable has its type; buffers hold chunks the screen has been fed, queues are
\* bounded, and nothing is buffered outside a synchronized update (set_sync_mode flushes
\* before it releases the sync lock).
THEOREM TypeCorrect == Spec => []TypeOK
<1>1. IInv => TypeOK
  <2>. SUFFICES ASSUME IInv PROVE TypeOK
    OBVIOUS
  <2>1. \A c \in Clients : Chunks(c) \subseteq 1 .. fed
    BY ChunksSplit DEF IInv, FedInv
  <2>2. {reading, output, batch, buffer} \subseteq Seq(Chunk)
    BY DEF IInv, TypeInv, StageType
  <2>3. {active, exited, told} \subseteq BOOLEAN
    BY DEF IInv, TypeInv, StageType
  <2>4. ~active /\ ending = Nobody => buffer = <<>>
    BY DEF IInv, PlaceInv, StagePlace
  <2>. QED
    BY <2>1, <2>2, <2>3, <2>4 DEF TypeOK, IInv, TypeInv, StageType
<1>. QED
  BY <1>1, Invariance, PTL

\* Whichever thread flushes or sends (the broadcast task, the reader at the end of a
\* synchronized update, its timeout, a resize, a snapshot), no client is given a chunk
\* twice or after a later one.
THEOREM OrderKept == Spec => []InOrder
<1>1. IInv => InOrder
  <2>. SUFFICES ASSUME IInv, NEW c \in joined PROVE
                 LET s == Stretches(c) IN
                 \A i, j \in DOMAIN s : \A k \in DOMAIN s[i], l \in DOMAIN s[j] :
                     i < j \/ (i = j /\ k < l) => s[i][k] < s[j][l]
    BY DEF InOrder
  <2>1. c \in Clients
    BY DEF IInv, TypeInv
  <2>2. PICK s : s = Stretches(c)
    OBVIOUS
  <2>3. /\ \A i \in DOMAIN s : Sorted(s[i])
        /\ \A i, j \in DOMAIN s : i < j => Before(Range(s[i]), Range(s[j]))
    BY <2>1, <2>2, StretchOrder
  <2>4. ASSUME NEW i \in DOMAIN s, NEW j \in DOMAIN s,
               NEW k \in DOMAIN s[i], NEW l \in DOMAIN s[j],
               i < j \/ (i = j /\ k < l)
        PROVE  s[i][k] < s[j][l]
    <3>1. CASE i < j
      BY <2>3, <3>1 DEF Before, Range
    <3>2. CASE i = j /\ k < l
      BY <2>3, <3>2 DEF Sorted
    <3>. QED
      BY <2>4, <3>1, <3>2
  <2>. QED
    BY <2>2, <2>4
<1>. QED
  BY <1>1, Invariance, PTL

\* Once a client has its replay, every chunk the screen was fed is in its snapshot, or
\* has been given to it, or is on its way, unless its queue was full or the session is
\* over: between the replay's snapshot and the end of snapshot_pending nothing slips by.
THEOREM NoneMissing == Spec => []NothingMissing
<1>1. IInv => NothingMissing
  <2>. SUFFICES ASSUME IInv, NEW c \in joined \ lossy, ~pending[c], ~exited
                PROVE  1 .. fed \subseteq (1 .. base[c]) \cup Chunks(c)
    BY DEF NothingMissing
  <2>1. c \in Clients /\ Complete(c)
    BY DEF IInv, TypeInv, CompleteInv
  <2>. QED
    BY <2>1, ChunksSplit DEF Complete
<1>. QED
  BY <1>1, Invariance, PTL

\* When no synchronized update is active and a client's queue is empty, its frontend is
\* outside any transaction: the SyncBegin and SyncEnd it gets balance, whichever of the
\* resets (resize) fall between them and whenever it joined.
THEOREM NoneWedged == Spec => []NoWedge
<1>1. IInv => NoWedge
  <2>. SUFFICES ASSUME IInv, NEW c \in joined \ lossy,
                       queue[c] = <<>>, ~active, ending = Nobody
                PROVE  depth[c] = 0
    BY DEF NoWedge
  <2>1. Settles(depth[c], <<>>, 0)
    BY DEF IInv, WedgeInv, Settled
  <2>. QED
    BY <2>1 DEF Settles
<1>. QED
  BY <1>1, Invariance, PTL
=============================================================================
