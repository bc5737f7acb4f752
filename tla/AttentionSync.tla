---------------------------- MODULE AttentionSync ----------------------------
(***************************************************************************)
(* Which panes have unread bells and notices: the ledger of the server     *)
(* (src/attention/ledger.rs), its deltas and snapshots on the sync         *)
(* websockets (src/notification/broadcast.rs), and the copies of the       *)
(* clients with the masks they lay over what they have marked as read      *)
(* (attentionReconcile.ts, useNotification.ts).                            *)
(*                                                                         *)
(* A delta carries whole rows.  Some are broadcast under the ledger lock,  *)
(* others after it is released: `outbox` holds those in between, one per   *)
(* thread.  A restarted server has a new epoch and counts from 1 again.    *)
(* Of a row, the time and the severity of its events are left out, and of  *)
(* the clock that events up to `aged` and the panes in `stale` have passed *)
(* UNREAD_TTL.  Notices without a pane are left out, and so is the end of  *)
(* DEDUP_TTL, which is 30 times as long as a client retries.               *)
(***************************************************************************)
EXTENDS Naturals, Sequences, FiniteSets, FiniteSetsExt, Functions, TLC

CONSTANTS
    Clients,      \* pages in browsers
    Panes,
    IdentityCap,  \* panes the ledger keeps (512 in the code)
    UnreadCap,    \* unread events it keeps of one pane (100)
    MaxAttempts,  \* MAX_SEND_ATTEMPTS (4)
    MaxSeq,       \* bound: events in one epoch
    MaxRevision,  \* bound: revisions in one epoch, but for events and read marks
    MaxEpoch,     \* bound: starts of the server
    MaxRequests,  \* bound: read marks of one client
    MaxLinks,     \* bound: connections of one client
    MaxOutbox,    \* bound: deltas recorded and not broadcast
    MaxQueue,     \* bound: messages under way to a client
    None

ASSUME CapAssumption ==
    /\ {IdentityCap, UnreadCap, MaxAttempts, MaxEpoch} \subseteq Nat \ {0}
    /\ {MaxSeq, MaxRevision, MaxRequests, MaxLinks, MaxOutbox, MaxQueue} \subseteq Nat
ASSUME PaneAssumption == Panes \cap {None, "closer", "sweeper"} = {}

\* A row of the ledger, and the messages that carry rows; None says that there is none.
PaneRow == [latest: Nat, read: Nat]
Rows    == UNION {[S -> PaneRow] : S \in SUBSET Panes}
Changes == UNION {[S -> PaneRow \cup {None}] : S \in SUBSET Panes}
News    == [type: {"snapshot"}, epoch: Nat, revision: Nat, rows: Rows]
           \cup [type: {"delta"}, epoch: Nat, revision: Nat, rows: Changes]

ASSUME NoneAssumption == None \notin PaneRow \cup News

VARIABLES
    epoch,     \* of the running server
    revision,  \* of the ledger
    nextSeq,   \* next_event_seq
    ledger,    \* pane -> latest, read and the unread events
    aged,      \* events up to this one have passed UNREAD_TTL
    stale,     \* panes read for longer than UNREAD_TTL
    dedup,     \* (client, request) -> the result given
    outbox,    \* thread -> the delta it has still to broadcast
    link,      \* client -> its connection: down, registered, held or up
    links,     \* client -> connections so far
    held,      \* client -> the snapshot taken for it and not sent yet
    queue,     \* client -> messages to it
    wire,      \* client -> requests from it
    store,     \* client -> its copy
    overlays,  \* client -> its masks, by request
    pending,   \* client -> its requests without an answer
    requests,  \* client -> requests so far
    seen       \* pane -> the last event of this epoch a copy has had

ledgerVars == <<epoch, revision, nextSeq, ledger, aged, stale, dedup, outbox>>
linkVars   == <<link, links, held>>
clientVars == <<store, overlays, pending, requests, seen>>
vars == <<ledgerVars, linkVars, queue, wire, clientVars>>

-----------------------------------------------------------------------------
Threads == Panes \cup {"closer", "sweeper"}
NoRows  == [p \in {} |-> None]
Without(f, S) == Restrict(f, DOMAIN f \ S)

Row(entry) == [latest |-> entry.latest, read |-> entry.read]

Init ==
    /\ epoch = 1
    /\ revision = 0
    /\ nextSeq = 1
    /\ ledger = NoRows
    /\ aged = 0
    /\ stale = {}
    /\ dedup = NoRows
    /\ outbox = [t \in Threads |-> None]
    /\ link = [c \in Clients |-> "down"]
    /\ links = [c \in Clients |-> 0]
    /\ held = [c \in Clients |-> None]
    /\ queue = [c \in Clients |-> <<>>]
    /\ wire = [c \in Clients |-> <<>>]
    /\ store = [c \in Clients |-> [epoch |-> 0, revision |-> 0, awaiting |-> FALSE, rows |-> NoRows]]
    /\ overlays = [c \in Clients |-> NoRows]
    /\ pending = [c \in Clients |-> NoRows]
    /\ requests = [c \in Clients |-> 0]
    /\ seen = [p \in Panes |-> 0]

-----------------------------------------------------------------------------
(* The ledger.                                                             *)

\* Mutant: a pane whose unread events expire keeps its watermark.
ExpiredKeepsMark(L) ==
    [p \in DOMAIN L \ stale |->
       [L[p] EXCEPT !.unread = {n \in @ : n > aged}]]

\* expire_into: old events are no longer unread, and panes long read are forgotten.
Expired(L) ==
    [p \in DOMAIN L \ stale |->
       LET left == {n \in L[p].unread : n > aged} IN
       [L[p] EXCEPT !.unread = left, !.read = IF @ < L[p].latest /\ left = {} THEN L[p].latest ELSE @]]

\* enforce_identity_caps: of too many panes a read one goes, or the one whose
\* first unread event is the oldest.
Victims(L) ==
    LET read == {p \in DOMAIN L : L[p].unread = {}} IN
    IF read # {} THEN read
    ELSE {p \in DOMAIN L : \A q \in DOMAIN L : Min(L[p].unread) <= Min(L[q].unread)}

\* Mutant: the limit on panes is not enforced.
CappedNever(L) == {L}

Capped(L) == IF Cardinality(DOMAIN L) <= IdentityCap THEN {L}
             ELSE {Without(L, {v}) : v \in Victims(L)}

\* The unread event is added, and the oldest dropped at UNREAD_CAP.
Recorded(L, p) ==
    LET old  == IF p \in DOMAIN L THEN L[p] ELSE [latest |-> 0, read |-> 0, unread |-> {}]
        all  == old.unread \cup {nextSeq}
        kept == IF Cardinality(all) > UnreadCap THEN all \ {Min(all)} ELSE all IN
    [q \in DOMAIN L \cup {p} |->
       IF q = p THEN [latest |-> nextSeq, read |-> old.read, unread |-> kept] ELSE L[q]]

\* What mark_read does to one pane.
Marked(L, p, through) ==
    LET mark == Max({L[p].read, through})
        left == {n \in L[p].unread : n > mark} IN
    [L EXCEPT ![p] = [latest |-> L[p].latest,
                      read |-> IF left = {} /\ L[p].unread # {} THEN L[p].latest ELSE mark,
                      unread |-> left]]

\* The delta from the present ledger to L: what differs, as whole rows.
Changed(L) == {p \in DOMAIN ledger \cup DOMAIN L :
                 \/ p \notin DOMAIN ledger \cap DOMAIN L
                 \/ ledger[p] # L[p]}

Delta(L) == [type |-> "delta", epoch |-> epoch, revision |-> revision + 1,
             rows |-> [p \in Changed(L) |-> IF p \in DOMAIN L THEN Row(L[p]) ELSE None]]

Snapshot == [type |-> "snapshot", epoch |-> epoch, revision |-> revision,
             rows |-> [p \in DOMAIN ledger |-> Row(ledger[p])]]

\* bump_revision, if anything has changed.
Commit(L) ==
    /\ ledger' = L
    /\ revision' = IF Changed(L) = {} THEN revision ELSE revision + 1
    /\ stale' = {}

\* What the instances are bounded by.
OutboxFree == Cardinality({t \in Threads : outbox[t] # None}) < MaxOutbox
QueuesFree == \A c \in Clients : Len(queue[c]) < MaxQueue

Listening == {c \in Clients : link[c] # "down"}

\* broadcast to every client of sync_clients.
WithBroadcast(msgs) ==
    [c \in Clients |-> IF c \in Listening THEN queue[c] \o msgs ELSE queue[c]]

-----------------------------------------------------------------------------
(* The server's threads.                                                   *)

\* send_bell, by the reader of the pane: recorded under the lock, broadcast after it.
Bell(p) ==
    /\ nextSeq <= MaxSeq /\ OutboxFree
    /\ outbox[p] = None
    /\ \E L \in Capped(Recorded(Expired(ledger), p)) :
         /\ Commit(L)
         /\ outbox' = [outbox EXCEPT ![p] = Delta(L)]
    /\ nextSeq' = nextSeq + 1
    /\ UNCHANGED <<epoch, aged, dedup, linkVars, queue, wire, clientVars>>

\* process_notify, for a request that names a pane: broadcast under the lock.
Notify(p) ==
    /\ nextSeq <= MaxSeq /\ QueuesFree
    /\ \E L \in Capped(Recorded(Expired(ledger), p)) :
         /\ Commit(L)
         /\ queue' = WithBroadcast(<<Delta(L)>>)
    /\ nextSeq' = nextSeq + 1
    /\ UNCHANGED <<epoch, aged, dedup, outbox, linkVars, wire, clientVars>>

\* A delta of a thread that broadcasts after the lock is released, if there is one.
Outgoing(t, L) ==
    /\ outbox[t] = None
    /\ outbox' = [outbox EXCEPT ![t] = IF Changed(L) = {} THEN None ELSE Delta(L)]

\* pane_closed, with the removal of what has expired.
Closed(p) == Without(Expired(ledger), {p})

PaneClosed(p) ==
    /\ revision < MaxRevision /\ OutboxFree
    /\ Commit(Closed(p)) /\ Outgoing("closer", Closed(p))
    /\ UNCHANGED <<epoch, nextSeq, aged, dedup, linkVars, queue, wire, clientVars>>

\* The sweep of every minute.
Swept == Expired(ledger)

Sweep ==
    /\ revision < MaxRevision /\ OutboxFree
    /\ Commit(Swept) /\ Outgoing("sweeper", Swept)
    /\ UNCHANGED <<epoch, nextSeq, aged, dedup, linkVars, queue, wire, clientVars>>

Broadcast(t) ==
    /\ outbox[t] # None
    /\ QueuesFree
    /\ queue' = WithBroadcast(<<outbox[t]>>)
    /\ outbox' = [outbox EXCEPT ![t] = None]
    /\ UNCHANGED <<epoch, revision, nextSeq, ledger, aged, stale, dedup, linkVars,
                   wire, clientVars>>

\* 72 hours pass for an event, or for a pane that was read.
Age ==
    /\ \/ aged + 1 < nextSeq /\ aged' = aged + 1 /\ UNCHANGED stale
       \/ \E p \in DOMAIN ledger \ stale :
            ledger[p].unread = {} /\ stale' = stale \cup {p} /\ UNCHANGED aged
    /\ UNCHANGED <<epoch, revision, nextSeq, ledger, dedup, outbox, linkVars, queue,
                   wire, clientVars>>

Result(r, status, rev) ==
    [type |-> "result", epoch |-> epoch, request |-> r, status |-> status, revision |-> rev]

\* Mutant: the epoch of a request is not looked at.
VerdictOfAnyEpoch(L, req) ==
    CASE req.pane \notin DOMAIN L -> "not_found"
      [] req.pane \in DOMAIN L /\ req.through > L[req.pane].latest -> "invalid"
      [] OTHER -> "applied"

Verdict(L, req) ==
    CASE req.epoch # epoch -> "stale_epoch"
      [] req.epoch = epoch /\ req.pane \notin DOMAIN L -> "not_found"
      [] req.epoch = epoch /\ req.pane \in DOMAIN L /\ req.through > L[req.pane].latest -> "invalid"
      [] OTHER -> "applied"

\* reserve finds the result of a request that was completed; a reservation is made
\* and completed under one lock, so none is found unfinished.
Replayed(key) == key \in DOMAIN dedup

\* complete.  The ten minutes for which a result is kept do not pass here.
Completed(key, result) ==
    [k \in DOMAIN dedup \cup {key} |-> IF k = key THEN result ELSE dedup[k]]

\* apply_mark_read: a repeated request is given the result of the first.  The answer
\* leaves after the lock is released; it is sent in the same step here, since a client
\* takes a later answer for the same.  A request of an earlier connection has nobody to
\* answer to.
ApplyMarkRead(c) ==
    /\ wire[c] # <<>>
    /\ QueuesFree
    /\ wire' = [wire EXCEPT ![c] = Tail(@)]
    /\ LET req    == Head(wire[c])
           key    == <<c, req.request>>
           now    == Expired(ledger)
           status == Verdict(now, req)
           L      == IF status = "applied" THEN Marked(now, req.pane, req.through) ELSE now
           deltas == IF Changed(L) = {} THEN <<>> ELSE <<Delta(L)>>
           answer(result) == IF req.link = links[c] /\ link[c] # "down" THEN <<result>> ELSE <<>>
       IN
       \/ /\ Replayed(key)
          /\ queue' = [queue EXCEPT ![c] = @ \o answer(dedup[key])]
          /\ UNCHANGED <<revision, ledger, stale, dedup>>
       \/ /\ ~Replayed(key)
          /\ Commit(L)
          /\ LET result == Result(req.request, status,
                                  IF status = "applied" THEN revision' ELSE None) IN
             /\ dedup' = Completed(key, result)
             /\ queue' = [WithBroadcast(deltas) EXCEPT ![c] = @ \o answer(result)]
    /\ UNCHANGED <<epoch, nextSeq, aged, outbox, linkVars, clientVars>>

\* The server goes down and starts again: the ledger is not stored.
Restart ==
    /\ epoch < MaxEpoch
    /\ epoch' = epoch + 1
    /\ revision' = 0
    /\ nextSeq' = 1
    /\ ledger' = NoRows
    /\ aged' = 0
    /\ stale' = {}
    /\ dedup' = NoRows
    /\ outbox' = [t \in Threads |-> None]
    /\ link' = [c \in Clients |-> "down"]
    /\ held' = [c \in Clients |-> None]
    /\ queue' = [c \in Clients |-> <<>>]
    /\ wire' = [c \in Clients |-> <<>>]
    /\ seen' = [p \in Panes |-> 0]
    /\ UNCHANGED <<links, store, overlays, pending, requests>>

-----------------------------------------------------------------------------
(* Connections.                                                            *)

\* add_sync_client.
Connect(c) ==
    /\ link[c] = "down"
    /\ links[c] < MaxLinks
    /\ link' = [link EXCEPT ![c] = "registered"]
    /\ links' = [links EXCEPT ![c] = @ + 1]
    /\ UNCHANGED <<ledgerVars, held, queue, wire, clientVars>>

\* register_client takes the snapshot under the ledger lock ...
TakeSnapshot(c) ==
    /\ link[c] = "registered"
    /\ link' = [link EXCEPT ![c] = "held"]
    /\ held' = [held EXCEPT ![c] = Snapshot]
    /\ UNCHANGED <<ledgerVars, links, queue, wire, clientVars>>

\* ... and sends it without.
SendSnapshot(c) ==
    /\ link[c] = "held"
    /\ link' = [link EXCEPT ![c] = "up"]
    /\ queue' = [queue EXCEPT ![c] = Append(@, held[c])]
    /\ held' = [held EXCEPT ![c] = None]
    /\ UNCHANGED <<ledgerVars, links, wire, clientVars>>

\* The connection breaks, or the server gives a client up whose queue is full.  Its
\* requests may still be handled.
Disconnect(c) ==
    /\ link[c] # "down"
    /\ link' = [link EXCEPT ![c] = "down"]
    /\ held' = [held EXCEPT ![c] = None]
    /\ queue' = [queue EXCEPT ![c] = <<>>]
    /\ wire' \in {wire, [wire EXCEPT ![c] = <<>>]}
    /\ UNCHANGED <<ledgerVars, links, clientVars>>

-----------------------------------------------------------------------------
(* The client's copy.                                                      *)

\* revalidateOverlays.
Revalidated(masks, st) ==
    Restrict(masks, {r \in DOMAIN masks :
        /\ masks[r].acked = None \/ masks[r].acked > st.revision
        /\ masks[r].pane \in DOMAIN st.rows => st.rows[masks[r].pane].read < masks[r].through})

\* Mutant: a delta is applied though a later one has been.
WithDeltaOfAnyAge(st, d) ==
    IF st.awaiting THEN st
    ELSE IF st.epoch \notin {0, d.epoch} THEN [st EXCEPT !.awaiting = TRUE]
    ELSE [st EXCEPT !.epoch = d.epoch, !.revision = d.revision,
            !.rows = [p \in {q \in DOMAIN @ \cup DOMAIN d.rows :
                               q \in DOMAIN d.rows => d.rows[q] # None} |->
                        IF p \in DOMAIN d.rows THEN d.rows[p] ELSE @[p]]]

\* applyDelta: not while a snapshot is awaited, not of another epoch, none twice.
WithDelta(st, d) ==
    IF st.awaiting THEN st
    ELSE IF st.epoch \notin {0, d.epoch} THEN [st EXCEPT !.awaiting = TRUE]
    ELSE IF d.revision <= st.revision THEN st
    ELSE [st EXCEPT !.epoch = d.epoch, !.revision = d.revision,
            !.rows = [p \in {q \in DOMAIN @ \cup DOMAIN d.rows :
                               q \in DOMAIN d.rows => d.rows[q] # None} |->
                        IF p \in DOMAIN d.rows THEN d.rows[p] ELSE @[p]]]

\* applySnapshot: not an older one of the same epoch.
WithSnapshot(st, s) ==
    IF st.epoch = s.epoch /\ s.revision < st.revision THEN st
    ELSE [epoch |-> s.epoch, revision |-> s.revision, awaiting |-> FALSE, rows |-> s.rows]

\* A copy has changed: masks are retired, and requests without a mask cancelled.
Update(c, st, masks) ==
    /\ store' = [store EXCEPT ![c] = st]
    /\ overlays' = [overlays EXCEPT ![c] = masks]
    /\ pending' = [pending EXCEPT ![c] = Restrict(@, DOMAIN @ \cap DOMAIN masks)]
    /\ seen' = [p \in Panes |-> IF st.epoch = epoch /\ p \in DOMAIN st.rows
                                  THEN Max({seen[p], st.rows[p].latest}) ELSE seen[p]]

ReceiveDelta(c, d) ==
    LET st == WithDelta(store[c], d) IN
    Update(c, st, IF st.revision = store[c].revision THEN overlays[c]
                  ELSE Revalidated(overlays[c], st))

\* In a new epoch the masks are cleared.
ReceiveSnapshot(c, s) ==
    LET st == WithSnapshot(store[c], s) IN
    Update(c, st, IF s.epoch # store[c].epoch THEN NoRows
                  ELSE IF st = store[c] THEN overlays[c]
                  ELSE Revalidated(overlays[c], st))

\* applyMarkReadResult: the request is answered; its mask stays until the copy has
\* got as far as the answer, and goes at once if nothing was applied.
ReceiveResult(c, m) ==
    LET r == m.request IN
    /\ \/ /\ m.status = "stale_epoch"
          /\ overlays' = [overlays EXCEPT ![c] = NoRows]
          /\ pending' = [pending EXCEPT ![c] = NoRows]
       \/ /\ m.status # "stale_epoch"
          /\ overlays' = [overlays EXCEPT ![c] =
               IF r \in DOMAIN @ /\ m.status = "applied" /\ m.revision > store[c].revision
                 THEN [@ EXCEPT ![r].acked = m.revision] ELSE Without(@, {r})]
          /\ pending' = [pending EXCEPT ![c] = Without(@, {r})]
    /\ UNCHANGED <<store, seen>>

Receive(c) ==
    /\ queue[c] # <<>>
    /\ queue' = [queue EXCEPT ![c] = Tail(@)]
    /\ LET m == Head(queue[c]) IN
       \/ m.type = "delta" /\ ReceiveDelta(c, m)
       \/ m.type = "snapshot" /\ ReceiveSnapshot(c, m)
       \/ m.type = "result" /\ ReceiveResult(c, m)
    /\ UNCHANGED <<ledgerVars, linkVars, wire, requests>>

-----------------------------------------------------------------------------
(* Marking as read.                                                        *)

Unread(c)    == {p \in DOMAIN store[c].rows : store[c].rows[p].read < store[c].rows[p].latest}
Masked(c, p) == \E r \in DOMAIN overlays[c] :
                    /\ overlays[c][r].pane = p
                    /\ overlays[c][r].through >= store[c].rows[p].latest
Shown(c)     == {p \in Unread(c) : ~Masked(c, p)}

\* sendMarkRead: what has no connection is not sent.
SendRequest(c, r, req) ==
    wire' = [wire EXCEPT ![c] =
               IF link[c] = "down" THEN @
               ELSE Append(@, [request |-> r, epoch |-> req.epoch, pane |-> req.pane,
                               through |-> req.through, link |-> links[c]])]

\* markPaneReadIfUnread and createPending.
MarkPaneRead(c, p) ==
    /\ p \in Shown(c)
    /\ requests[c] < MaxRequests
    /\ requests' = [requests EXCEPT ![c] = @ + 1]
    /\ LET r   == requests[c] + 1
           req == [epoch |-> store[c].epoch, pane |-> p,
                   through |-> store[c].rows[p].latest, attempts |-> 1]
           msk == [pane |-> p, through |-> req.through, acked |-> None] IN
       /\ overlays' = [overlays EXCEPT ![c] = [k \in DOMAIN @ \cup {r} |-> IF k = r THEN msk ELSE @[k]]]
       /\ pending' = [pending EXCEPT ![c] = [k \in DOMAIN @ \cup {r} |-> IF k = r THEN req ELSE @[k]]]
       /\ SendRequest(c, r, req)
    /\ UNCHANGED <<ledgerVars, linkVars, queue, store, seen>>

\* No answer in five seconds: the request is sent again, or given up with its mask.
AckTimeout(c, r) ==
    /\ r \in DOMAIN pending[c]
    /\ \/ /\ pending[c][r].attempts >= MaxAttempts
          /\ pending' = [pending EXCEPT ![c] = Without(@, {r})]
          /\ overlays' = [overlays EXCEPT ![c] = Without(@, {r})]
          /\ UNCHANGED wire
       \/ /\ pending[c][r].attempts < MaxAttempts
          /\ pending' = [pending EXCEPT ![c][r].attempts = @ + 1]
          /\ SendRequest(c, r, pending[c][r])
          /\ UNCHANGED overlays
    /\ UNCHANGED <<ledgerVars, linkVars, queue, store, requests, seen>>

-----------------------------------------------------------------------------
Server == \/ \E p \in Panes : Bell(p) \/ Notify(p) \/ PaneClosed(p)
          \/ Sweep \/ Age \/ Restart
          \/ \E t \in Threads : Broadcast(t)

Client(c) == \/ Connect(c) \/ TakeSnapshot(c) \/ SendSnapshot(c) \/ Disconnect(c)
             \/ ApplyMarkRead(c) \/ Receive(c)
             \/ \E p \in Panes : MarkPaneRead(c, p)
             \/ \E r \in 1 .. MaxRequests : AckTimeout(c, r)

Next == Server \/ \E c \in Clients : Client(c)

Spec == Init /\ [][Next]_vars

PaneSymmetry == Permutations(Panes)

-----------------------------------------------------------------------------
(* Properties.                                                             *)

TypeOK ==
    /\ epoch \in 1 .. MaxEpoch
    /\ nextSeq \in 1 .. MaxSeq + 1
    /\ aged < nextSeq
    /\ stale \subseteq DOMAIN ledger
    /\ DOMAIN ledger \subseteq Panes
    /\ Cardinality(DOMAIN ledger) <= IdentityCap
    /\ \A p \in DOMAIN ledger :
         /\ ledger[p].latest \in 1 .. nextSeq - 1
         /\ ledger[p].read <= ledger[p].latest
         /\ Cardinality(ledger[p].unread) <= UnreadCap
    /\ link \in [Clients -> {"down", "registered", "held", "up"}]
    /\ \A c \in Clients :
         /\ link[c] = "held" <=> held[c] # None
         /\ DOMAIN pending[c] \subseteq DOMAIN overlays[c]

\* The clients learn two numbers of a pane, and take it for unread if they differ.
\* That is so exactly while the server holds unread events of it, and those are the
\* last ones: reads, expiry, the caps and new events keep the two in step.
UnreadIffBehind ==
    \A p \in DOMAIN ledger :
        LET e == ledger[p] IN
        /\ e.unread # {} <=> e.read < e.latest
        /\ e.unread # {} => e.latest \in e.unread
        /\ \A n \in e.unread : n \in e.read + 1 .. e.latest

\* A read mark takes away no event that came after what its sender saw: not if it is
\* late, repeated, or from before a restart that began to count again.
ReadOnlySeen ==
    [][\A p \in DOMAIN ledger \cap DOMAIN ledger' : \A n \in ledger[p].unread \ ledger'[p].unread :
          \/ epoch' # epoch
          \/ n <= aged
          \/ Cardinality(ledger[p].unread) = UnreadCap /\ ledger'[p].latest # ledger[p].latest
          \/ n <= seen[p]]_vars

\* What a client has been told is read stays read in its copy, whatever order deltas
\* and snapshots come in.
ReadStaysRead ==
    [][\A c \in Clients : store'[c].epoch = store[c].epoch =>
          \A p \in DOMAIN store[c].rows \cap DOMAIN store'[c].rows :
             LET old == store[c].rows[p]
                 new == store'[c].rows[p] IN
             \/ new.latest > old.latest
             \/ new.latest = old.latest /\ new.read >= old.read]_vars

-----------------------------------------------------------------------------
(* What the documentation says, and the code does not do.                  *)

\* "notifications still arrive, with an unread badge on the source tab": once all
\* messages are delivered, a connected client shows what is unread.
BadgesArrive ==
    \A c \in Clients :
        (/\ link[c] = "up" /\ queue[c] = <<>>
         /\ \A t \in Threads : outbox[t] = None
         /\ DOMAIN overlays[c] = {})
        => Shown(c) = {p \in DOMAIN ledger : ledger[p].unread # {}}

=============================================================================
