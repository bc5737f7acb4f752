---------------------------- MODULE SessionStream ----------------------------
(***************************************************************************)
(* How the output of a shell reaches the clients of its session: the PTY   *)
(* reader, which feeds the virtual screen and hands every read on; the     *)
(* broadcast task, which forwards it to bounded per-client queues; DEC     *)
(* mode 2026 (synchronized output), which holds it back; and the replay    *)
(* that brings a joining client up to date.                                *)
(*                                                                         *)
(* A read is a number: chunk k is the k-th read of the PTY, and a screen   *)
(* that has been fed k chunks shows chunks 1 .. k.  Steps are the sections *)
(* under the sync lock or the clients lock.  The sync lock is held across  *)
(* the two halves of the end of a synchronized update, which `ending`      *)
(* names.  A burst of try_send to one client is one step: the queue does   *)
(* not drain in the middle of it.                                          *)
(***************************************************************************)
EXTENDS Naturals, Sequences, FiniteSetsExt, Functions

CONSTANTS
    Clients,     \* client endpoints, each added at most once
    Fresh,       \* those whose connection spawned the session itself
    SyncUse,     \* the sequences of SyncEvents one read may carry
    MaxChunks,   \* bound: reads of the PTY
    Capacity,    \* of a client's queue (10240 in the code)
    BufferLimit, \* SYNC_BUFFER_LIMIT, in chunks
    MaxResizes,  \* bound: applied resizes
    Peer,        \* a further client, of which only its resizes are modelled
    Nobody

ASSUME ClientAssumption ==
    /\ Fresh \subseteq Clients
    /\ Clients \cap {Nobody, Peer, "reader", "task", "resizer"} = {}
    /\ Nobody \notin {Peer, "reader", "task", "resizer"}
ASSUME UseAssumption == SyncUse \subseteq Seq({"start", "stop"})
ASSUME BoundAssumption ==
    {MaxChunks, Capacity, BufferLimit, MaxResizes} \subseteq Nat

VARIABLES
    fed,        \* chunks the screen has been fed
    reading,    \* the chunk the reader has fed and not sent yet, in a sequence
    events,     \* SyncEvents of that chunk still to be applied
    output,     \* output_tx to output_rx
    batch,      \* what the broadcast task has received and not broadcast
    task,       \* where the broadcast task is
    started,    \* sync_started_at: none, fresh, or expired (500 ms)
    active,     \* SyncState.active
    buffer,     \* SyncState.buffer
    ending,     \* who holds the sync lock between the flush and SyncEnd
    exited,     \* Session.exited
    told,       \* SessionExit has been sent
    joined,     \* Session.clients
    left,       \* clients that were there before
    queue,      \* client -> its events
    pending,    \* client -> snapshot_pending
    handshake,  \* client -> where its SnapshotRequest is
    base,       \* client -> chunks its snapshot shows
    lossy,      \* clients for which a try_send has failed
    depth,      \* client -> _transactionDepth of the frontend
    received,   \* client -> live chunks the frontend has been given
    resizer,    \* the resize being applied: its origin and its step
    resizes     \* how many there have been

readerVars == <<fed, reading, events>>
taskVars   == <<batch, task, started>>
syncVars   == <<active, buffer, ending>>
exitVars   == <<exited, told>>
memberVars == <<joined, left, pending, handshake, base>>
clientVars == <<depth, received>>
sendVars   == <<queue, lossy>>
resizeVars == <<resizer, resizes>>
vars == <<readerVars, output, taskVars, syncVars, exitVars, memberVars,
          clientVars, sendVars, resizeVars>>

-----------------------------------------------------------------------------
Event(t)     == [type |-> t, data |-> <<>>]
Output(data) == [type |-> "output", data |-> data]
Kinds        == {"output", "snapshot", "sync_begin", "sync_end",
                 "replay_begin", "replay_end", "resize", "session_exit"}

Init ==
    /\ fed = 0
    /\ reading = <<>>
    /\ events = <<>>
    /\ output = <<>>
    /\ batch = <<>>
    /\ task = "recv"
    /\ started = "none"
    /\ active = FALSE
    /\ buffer = <<>>
    /\ ending = Nobody
    /\ exited = FALSE
    /\ told = FALSE
    /\ joined = {}
    /\ left = {}
    /\ queue = [c \in Clients |-> <<>>]
    /\ pending = [c \in Clients |-> FALSE]
    /\ handshake = [c \in Clients |-> "none"]
    /\ base = [c \in Clients |-> 0]
    /\ lossy = {}
    /\ depth = [c \in Clients |-> 0]
    /\ received = [c \in Clients |-> <<>>]
    /\ resizer = [origin |-> Nobody, step |-> "idle"]
    /\ resizes = 0

\* try_send of the events es[c] to each client: what does not fit is dropped.
Send(es) ==
    /\ queue' = [c \in Clients |->
                   queue[c] \o SubSeq(es[c], 1, Min({Len(es[c]), Capacity - Len(queue[c])}))]
    /\ lossy' = lossy \cup {c \in Clients : Len(queue[c]) + Len(es[c]) > Capacity}

\* enqueue_control.
ToAll(e) == Send([c \in Clients |-> IF c \in joined THEN <<e>> ELSE <<>>])

\* send_chunk_to_clients.
ToReady(es) == Send([c \in Clients |-> IF c \in joined /\ ~pending[c] THEN es ELSE <<>>])

\* What a flush makes of the buffer: pieces of FLUSH_CHUNK_SIZE.
Pieces(data) == [i \in DOMAIN data |-> Output(<<data[i]>>)]

-----------------------------------------------------------------------------
(* set_sync_mode.                                                          *)

\* Mutant: a repeated set is not a no-op.
StartSyncAgain ==
    /\ ending = Nobody
    /\ active' = TRUE
    /\ ToAll(Event("sync_begin"))
    /\ UNCHANGED <<buffer, ending>>

StartSync ==
    /\ ending = Nobody
    /\ active' = TRUE
    /\ IF active THEN UNCHANGED sendVars ELSE ToAll(Event("sync_begin"))
    /\ UNCHANGED <<buffer, ending>>

\* Mutant: the buffer is cleared without having been flushed.
StopSyncDiscards(who) ==
    /\ ending = Nobody
    /\ active' = FALSE
    /\ buffer' = <<>>
    /\ ending' = IF active THEN who ELSE Nobody
    /\ UNCHANGED sendVars

\* The first half: the mode is off and the buffer is flushed.
StopSync(who) ==
    /\ ending = Nobody
    /\ IF active
         THEN /\ active' = FALSE
              /\ buffer' = <<>>
              /\ ending' = who
              /\ ToReady(Pieces(buffer))
         ELSE UNCHANGED <<active, buffer, ending, sendVars>>

\* The second half: SyncEnd, and the sync lock is released.
EndSync ==
    /\ ending # Nobody
    /\ ToAll(Event("sync_end"))
    /\ ending' = Nobody
    /\ UNCHANGED <<readerVars, output, taskVars, active, buffer, exitVars,
                   memberVars, clientVars, resizeVars>>

-----------------------------------------------------------------------------
(* The PTY reader.                                                         *)

\* read and feed, under the screen lock.
Feed ==
    /\ fed < MaxChunks
    /\ reading = <<>>
    /\ fed' = fed + 1
    /\ reading' = <<fed + 1>>
    /\ events' \in SyncUse
    /\ UNCHANGED <<output, taskVars, syncVars, exitVars, memberVars, clientVars,
                   sendVars, resizeVars>>

\* The transitions of the read are applied before it is handed on.
ApplySyncEvent ==
    /\ events # <<>>
    /\ IF Head(events) = "start" THEN StartSync ELSE StopSync("reader")
    /\ events' = Tail(events)
    /\ UNCHANGED <<fed, reading, output, taskVars, exitVars, memberVars,
                   clientVars, resizeVars>>

HandOn ==
    /\ reading # <<>>
    /\ events = <<>>
    /\ ending # "reader"
    /\ output' = output \o reading
    /\ reading' = <<>>
    /\ UNCHANGED <<fed, events, taskVars, syncVars, exitVars, memberVars,
                   clientVars, sendVars, resizeVars>>

-----------------------------------------------------------------------------
(* broadcast_task.                                                         *)

\* A batch is received and the age of the synchronized update looked at.
Recv ==
    /\ task = "recv"
    /\ output # <<>>
    /\ ending = Nobody
    /\ IF exited
         THEN task' = "done" /\ UNCHANGED <<batch, started, output>>
         ELSE /\ batch' = output
              /\ output' = <<>>
              /\ task' = IF active /\ started = "expired" THEN "expire" ELSE "check"
              /\ started' = CASE ~active -> "none"
                              [] active /\ started = "none" -> "fresh"
                              [] OTHER -> started
    /\ UNCHANGED <<readerVars, syncVars, exitVars, memberVars, clientVars,
                   sendVars, resizeVars>>

\* Mutant: the age is looked at when there is output, and at no other time.
TickIdle ==
    /\ task = "recv"
    /\ ending = Nobody
    /\ task' = IF exited THEN "done" ELSE "recv"
    /\ started' = IF exited \/ active THEN started ELSE "none"
    /\ UNCHANGED <<readerVars, output, batch, syncVars, exitVars, memberVars,
                   clientVars, sendVars, resizeVars>>

\* The 100 ms watchdog for a PTY that is silent.
Tick ==
    /\ task = "recv"
    /\ ending = Nobody
    /\ task' = CASE exited -> "done"
                 [] ~exited /\ active /\ started = "expired" -> "expire"
                 [] OTHER -> "recv"
    /\ started' = IF exited \/ active THEN started ELSE "none"
    /\ UNCHANGED <<readerVars, output, batch, syncVars, exitVars, memberVars,
                   clientVars, sendVars, resizeVars>>

\* The timeout, in either branch: what is active by now is ended.
Expire ==
    /\ task = "expire"
    /\ StopSync("task")
    /\ started' = "none"
    /\ task' = IF batch = <<>> THEN "recv" ELSE "check"
    /\ UNCHANGED <<readerVars, output, batch, exitVars, memberVars, clientVars,
                   resizeVars>>

\* The check of exited with which broadcast begins.
CheckExited ==
    /\ task = "check"
    /\ ending # "task"
    /\ task' = IF exited THEN "recv" ELSE "forward"
    /\ batch' = IF exited THEN <<>> ELSE batch
    /\ UNCHANGED <<readerVars, output, started, syncVars, exitVars, memberVars,
                   clientVars, sendVars, resizeVars>>

\* Mutant: at the limit the new output overtakes what is buffered.
ForwardOvertakes ==
    /\ task = "forward"
    /\ ending = Nobody
    /\ IF active /\ Len(buffer) + Len(batch) < BufferLimit
         THEN buffer' = buffer \o batch /\ UNCHANGED sendVars
         ELSE ToReady(<<Output(batch)>>) /\ UNCHANGED buffer
    /\ batch' = <<>>
    /\ task' = "recv"
    /\ UNCHANGED <<readerVars, output, started, active, ending, exitVars,
                   memberVars, clientVars, resizeVars>>

\* broadcast under the sync lock: buffered, flushed at the limit, or sent.
Forward ==
    /\ task = "forward"
    /\ ending = Nobody
    /\ \/ /\ active
          /\ Len(buffer) + Len(batch) < BufferLimit
          /\ buffer' = buffer \o batch
          /\ UNCHANGED sendVars
       \/ /\ active
          /\ Len(buffer) + Len(batch) >= BufferLimit
          /\ ToReady(Pieces(buffer \o batch))
          /\ buffer' = <<>>
       \/ /\ ~active
          /\ ToReady(<<Output(batch)>>)
          /\ UNCHANGED buffer
    /\ batch' = <<>>
    /\ task' = "recv"
    /\ UNCHANGED <<readerVars, output, started, active, ending, exitVars,
                   memberVars, clientVars, resizeVars>>

\* 500 ms pass.
Age ==
    /\ started = "fresh"
    /\ started' = "expired"
    /\ UNCHANGED <<readerVars, output, batch, task, syncVars, exitVars,
                   memberVars, clientVars, sendVars, resizeVars>>

-----------------------------------------------------------------------------
(* Clients: add_client, the snapshot handshake, remove_client.             *)

\* An attach sends Reconnected, and the frontend then owes a SnapshotRequest; the
\* connection that spawned the session gets ShellInfo instead, and owes nothing.
Join(c) ==
    /\ c \notin joined \cup left
    /\ joined' = joined \cup {c}
    /\ pending' = [pending EXCEPT ![c] = TRUE]
    /\ handshake' = [handshake EXCEPT ![c] = IF c \in Fresh THEN "none" ELSE "owed"]
    /\ UNCHANGED <<readerVars, output, taskVars, syncVars, exitVars, left, base,
                   clientVars, sendVars, resizeVars>>

\* _maybeSendSnapshotRequest arrives: atomic_resize_and_snapshot_for_client looks
\* whether a synchronized update has to be ended.
RequestSnapshot(c) ==
    /\ handshake[c] = "owed"
    /\ c \in joined
    /\ ending = Nobody
    /\ handshake' = [handshake EXCEPT ![c] = IF active THEN "break" ELSE "resize"]
    /\ UNCHANGED <<readerVars, output, taskVars, syncVars, exitVars, joined,
                   left, pending, base, clientVars, sendVars, resizeVars>>

BreakSync(c) ==
    /\ handshake[c] = "break"
    /\ StopSync(c)
    /\ handshake' = [handshake EXCEPT ![c] = "resize"]
    /\ UNCHANGED <<readerVars, output, taskVars, exitVars, joined, left, pending,
                   base, clientVars, resizeVars>>

\* Mutant: the client stays pending.
ReplayForgets(c) ==
    /\ handshake[c] = "resize"
    /\ ending # c
    /\ c \in joined
    /\ Send([d \in Clients |-> IF d = c THEN <<Event("replay_begin"), Event("snapshot"),
                                             Event("replay_end")>> ELSE <<>>])
    /\ base' = [base EXCEPT ![c] = fed]
    /\ handshake' = [handshake EXCEPT ![c] = "done"]
    /\ UNCHANGED <<readerVars, output, taskVars, syncVars, exitVars, joined, left,
                   pending, clientVars, resizeVars>>

\* After resize_async: snapshot, replay and the end of snapshot_pending, all under
\* the clients lock and the snapshot under the screen lock.
Replay(c) ==
    /\ handshake[c] = "resize"
    /\ ending # c
    /\ c \in joined
    /\ Send([d \in Clients |-> IF d = c THEN <<Event("replay_begin"), Event("snapshot"),
                                             Event("replay_end")>> ELSE <<>>])
    /\ base' = [base EXCEPT ![c] = fed]
    /\ pending' = [pending EXCEPT ![c] = FALSE]
    /\ handshake' = [handshake EXCEPT ![c] = "done"]
    /\ UNCHANGED <<readerVars, output, taskVars, syncVars, exitVars, joined, left,
                   clientVars, resizeVars>>

\* resize_async fails, and the client stays pending; or the client is gone.
SnapshotFails(c) ==
    /\ handshake[c] = "resize"
    /\ ending # c
    /\ ~exited \/ c \notin joined
    /\ handshake' = [handshake EXCEPT ![c] = "failed"]
    /\ UNCHANGED <<readerVars, output, taskVars, syncVars, exitVars, joined, left,
                   pending, base, clientVars, sendVars, resizeVars>>

\* The connection ends and remove_client follows; the desktop client's may do so in
\* the middle of its handshake.
Leave(c) ==
    /\ c \in joined
    /\ joined' = joined \ {c}
    /\ left' = left \cup {c}
    /\ queue' = [queue EXCEPT ![c] = <<>>]
    /\ UNCHANGED <<readerVars, output, taskVars, syncVars, exitVars, pending,
                   handshake, base, clientVars, lossy, resizeVars>>

\* The transaction depth after an event: a begin or an end moves it, an end without
\* a begin does not, a resize resets it.
DepthAfter(d, t) ==
    CASE t \in {"sync_begin", "replay_begin"} -> d + 1
      [] t \in {"sync_end", "replay_end"} /\ d > 0 -> d - 1
      [] t = "resize" -> 0
      [] OTHER -> d

\* Mutant: an end without a begin is counted.
DeliverUnguarded(c) ==
    /\ queue[c] # <<>>
    /\ depth' = [depth EXCEPT ![c] = IF Head(queue[c]).type = "sync_end"
                                       THEN @ - 1 ELSE DepthAfter(@, Head(queue[c]).type)]
    /\ received' = [received EXCEPT ![c] = @ \o Head(queue[c]).data]
    /\ queue' = [queue EXCEPT ![c] = Tail(@)]
    /\ UNCHANGED <<readerVars, output, taskVars, syncVars, exitVars, memberVars,
                   lossy, resizeVars>>

\* The forwarder passes an event on and the frontend handles it.
Deliver(c) ==
    /\ queue[c] # <<>>
    /\ depth' = [depth EXCEPT ![c] = DepthAfter(@, Head(queue[c]).type)]
    /\ received' = [received EXCEPT ![c] = @ \o Head(queue[c]).data]
    /\ queue' = [queue EXCEPT ![c] = Tail(@)]
    /\ UNCHANGED <<readerVars, output, taskVars, syncVars, exitVars, memberVars,
                   lossy, resizeVars>>

-----------------------------------------------------------------------------
(* apply_and_broadcast_resize, and the end of the session.                 *)

StartResize(c) ==
    /\ resizer.step = "idle"
    /\ resizes < MaxResizes
    /\ c \in joined \cup {Peer}
    /\ ending = Nobody
    /\ resizes' = resizes + 1
    /\ resizer' = [origin |-> c, step |-> IF active THEN "break" ELSE "send"]
    /\ UNCHANGED <<readerVars, output, taskVars, syncVars, exitVars, memberVars,
                   clientVars, sendVars>>

ResizeBreaksSync ==
    /\ resizer.step = "break"
    /\ StopSync("resizer")
    /\ resizer' = [resizer EXCEPT !.step = "send"]
    /\ UNCHANGED <<readerVars, output, taskVars, exitVars, memberVars, clientVars,
                   resizes>>

\* An origin that has gone meanwhile resizes nothing, and neither does a PTY that
\* refuses.
SendResize ==
    /\ resizer.step = "send"
    /\ ending # "resizer"
    /\ \/ /\ resizer.origin \in joined \cup {Peer}
          /\ Send([c \in Clients |-> IF c \in joined \ {resizer.origin}
                                     THEN <<Event("resize")>> ELSE <<>>])
       \/ UNCHANGED sendVars
    /\ resizer' = [origin |-> Nobody, step |-> "idle"]
    /\ UNCHANGED <<readerVars, output, taskVars, syncVars, exitVars, memberVars,
                   clientVars, resizes>>

\* notify_exit_and_mark_exited, in two sections.
MarkExited ==
    /\ ~exited
    /\ exited' = TRUE
    /\ UNCHANGED <<readerVars, output, taskVars, syncVars, told, memberVars,
                   clientVars, sendVars, resizeVars>>

NotifyExit ==
    /\ exited
    /\ ~told
    /\ told' = TRUE
    /\ ToAll(Event("session_exit"))
    /\ UNCHANGED <<readerVars, output, taskVars, syncVars, exited, memberVars,
                   clientVars, resizeVars>>

-----------------------------------------------------------------------------
Reader      == Feed \/ ApplySyncEvent \/ HandOn
Broadcaster == Recv \/ Tick \/ Expire \/ CheckExited \/ Forward \/ Age
Resizer     == ResizeBreaksSync \/ SendResize \/ \E c \in Clients \cup {Peer} : StartResize(c)

Client(c) == \/ Join(c) \/ RequestSnapshot(c) \/ BreakSync(c) \/ Replay(c)
             \/ SnapshotFails(c) \/ Leave(c) \/ Deliver(c)

Next == Reader \/ Broadcaster \/ Resizer \/ EndSync \/ MarkExited \/ NotifyExit
          \/ \E c \in Clients : Client(c)

\* Threads and tasks run, timers fire, tokio::select! starves no branch.  A frontend
\* whose pane is on screen sends the request it owes.
Fairness ==
    /\ WF_vars(ApplySyncEvent) /\ WF_vars(HandOn) /\ WF_vars(EndSync)
    /\ WF_vars(Recv) /\ WF_vars(Tick) /\ WF_vars(Expire)
    /\ WF_vars(CheckExited) /\ WF_vars(Forward) /\ WF_vars(Age)
    /\ WF_vars(ResizeBreaksSync) /\ WF_vars(SendResize)
    /\ \A c \in Clients : /\ WF_vars(RequestSnapshot(c)) /\ WF_vars(BreakSync(c))
                          /\ WF_vars(Replay(c) \/ SnapshotFails(c))
                          /\ WF_vars(Deliver(c))

Spec     == Init /\ [][Next]_vars
FairSpec == Spec /\ Fairness

-----------------------------------------------------------------------------
(* Properties.                                                             *)

\* Where the chunks for a client are, from what it has been given to what was read
\* last: one sequence of chunks for each place.
Stretches(c) ==
    <<received[c]>> \o [i \in DOMAIN queue[c] |-> queue[c][i].data]
                    \o <<buffer, batch, output, reading>>

Chunks(c) == UNION {Range(s) : s \in Range(Stretches(c))}

Chunk   == 1 .. MaxChunks
Message == [type : Kinds, data : Seq(Chunk)]

\* Every variable has its type, buffers hold chunks the screen has been fed, queues
\* are bounded, and nothing is buffered outside a synchronized update.
TypeOK ==
    /\ fed \in 0 .. MaxChunks
    /\ {reading, output, batch, buffer} \subseteq Seq(Chunk)
    /\ events \in Seq({"start", "stop"})
    /\ task \in {"recv", "expire", "check", "forward", "done"}
    /\ started \in {"none", "fresh", "expired"}
    /\ {active, exited, told} \subseteq BOOLEAN
    /\ ending \in Clients \cup {Nobody, "reader", "task", "resizer"}
    /\ joined \cup left \cup lossy \subseteq Clients
    /\ joined \cap left = {}
    /\ queue \in [Clients -> Seq(Message)]
    /\ received \in [Clients -> Seq(Chunk)]
    /\ \A c \in Clients : Len(queue[c]) <= Capacity /\ Chunks(c) \subseteq 1 .. fed
    /\ pending \in [Clients -> BOOLEAN]
    /\ base \in [Clients -> 0 .. fed]
    /\ depth \in [Clients -> Nat]
    /\ ~active /\ ending = Nobody => buffer = <<>>

\* Whichever thread flushes or sends, no client is given a chunk twice or after a
\* later one: what it has and what is under way for it is in the order of the PTY.
InOrder ==
    \A c \in joined :
        LET s == Stretches(c) IN
        \A i, j \in DOMAIN s : \A k \in DOMAIN s[i], l \in DOMAIN s[j] :
            i < j \/ (i = j /\ k < l) => s[i][k] < s[j][l]

\* Once a client has its replay, nothing the screen was fed is missing for it: it
\* is in the snapshot, or given to the client, or under way, unless its queue was
\* full or the session is over.
NothingMissing ==
    \A c \in joined \ lossy : ~pending[c] /\ ~exited =>
        1 .. fed \subseteq (1 .. base[c]) \cup Chunks(c)

\* The begins and ends a client gets leave its frontend outside any transaction when
\* no synchronized update is active: later output is written, not held.
NoWedge ==
    \A c \in joined \ lossy :
        queue[c] = <<>> /\ ~active /\ ending = Nobody => depth[c] = 0

\* A synchronized update ends even if the program that began it falls silent.
SyncIsBounded == active ~> ~active \/ exited

\* The output dropped for a client that waits for its snapshot is shown by one: the
\* wait ends, unless the resize failed.
PendingEnds ==
    \A c \in Clients :
        (c \in joined /\ pending[c]) ~>
            (c \notin joined \/ ~pending[c] \/ handshake[c] = "failed")

-----------------------------------------------------------------------------
(* Values of SyncUse for TLC: a read may open a synchronized update, close *)
(* one, do both, or neither.                                               *)

AnyUse   == {<<>>, <<"start">>, <<"stop">>, <<"stop", "start">>}
StartUse == {<<>>, <<"start">>}

=============================================================================
