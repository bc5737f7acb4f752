--------------------------- MODULE SyncConnection ---------------------------
(* One connection of the sync websocket (src/ws/sync.rs): registration before *)
(* the snapshots, the queue of broadcasts that never fills, the bounded queue *)
(* of outgoing frames that may, the writer, the pings and the receive loop.   *)
(* A change of the server's state is a version number; a broadcast carries    *)
(* the change made, a snapshot the version it was taken at.                   *)
EXTENDS Naturals, Sequences, FiniteSets

CONSTANTS Capacity,     \* MAX_SYNC_OUTBOUND
          MaxChanges    \* bound: changes of the server's state

VARIABLES version,      \* changes made
          cast,         \* changes broadcast
          listed,       \* the connection is in sync_clients
          phase,        \* "fresh", "registered", "open", "ended"
          rx,           \* what broadcasts left for the connection (msg_rx too)
          bridge,       \* the task that moves rx to the forwarding task runs
          fwd,          \* the forwarding task runs
          out,          \* ws_out: the bounded queue
          writer,       \* "idle", "sending" or "off"
          frame,        \* the frame the writer is sending
          pinging,      \* the ping task runs
          missed,       \* missed_pongs
          pong,         \* an answer to a ping is on its way
          shutdown,     \* shutdown_tx was set
          client,       \* "up", "stalled" (does not read), "gone"
          snap,         \* the version of the client's snapshot, 0 for none yet
          got           \* the changes the client received, in order
vars == <<version, cast, listed, phase, rx, bridge, fwd, out, writer,
          frame, pinging, missed, pong, shutdown, client, snap, got>>

Frames == [kind : {"change", "snapshot"}, n : 0 .. MaxChanges]
            \cup [kind : {"sample", "ping", "close", "none"}, n : {0}]
Frame(k, n) == [kind |-> k, n |-> n]
Change(n) == Frame("change", n)
Sample == Frame("sample", 0)
Ping == Frame("ping", 0)
CloseFrame == Frame("close", 0)
NoFrame == Frame("none", 0)

Open == writer # "off"                      \* ws_out still has its receiver
Full == Len(out) >= Capacity
Fits == Open /\ ~Full                       \* try_send succeeds

(***************************************************************************)
(* The server's state changes and is broadcast; the monitor's samples come *)
(* every two seconds whatever else happens.                                *)
(***************************************************************************)
Modify ==
  /\ version < MaxChanges                        \* bound
  /\ cast = version
  /\ version' = version + 1
  /\ UNCHANGED <<cast, listed, phase, rx, bridge, fwd, out, writer, frame,
                 pinging, missed, pong, shutdown, client, snap, got>>

\* broadcast_sync: a client whose receiver is gone leaves the list.
Deliver(f) ==
  /\ rx' = IF listed /\ bridge THEN Append(rx, f) ELSE rx
  /\ listed' = (listed /\ bridge)
BroadcastChange ==
  /\ cast < version
  /\ cast' = cast + 1
  /\ Deliver(Change(cast + 1))
  /\ UNCHANGED <<version, phase, bridge, fwd, out, writer, frame, pinging,
                 missed, pong, shutdown, client, snap, got>>
BroadcastSample ==
  /\ listed /\ rx = <<>>                    \* bound: one sample waits
  /\ Deliver(Sample)
  /\ UNCHANGED <<version, cast, phase, bridge, fwd, out, writer, frame,
                 pinging, missed, pong, shutdown, client, snap, got>>

(***************************************************************************)
(* The connection's own task.                                              *)
(***************************************************************************)
Register ==
  /\ phase = "fresh"
  /\ phase' = "registered"
  /\ listed' = TRUE /\ bridge' = TRUE
  /\ UNCHANGED <<version, cast, rx, fwd, out, writer, frame, pinging,
                 missed, pong, shutdown, client, snap, got>>

\* The snapshots are queued; the bridge and the forwarder start after them.
Snapshot ==
  /\ phase = "registered" /\ Fits
  /\ phase' = "open" /\ fwd' = TRUE
  /\ out' = Append(out, Frame("snapshot", version))
  /\ UNCHANGED <<version, cast, listed, rx, bridge, writer, frame, pinging,
                 missed, pong, shutdown, client, snap, got>>

\* try_send failed: the handler returns, its channels are dropped.
GiveUp ==
  /\ phase = "registered" /\ ~Fits
  /\ phase' = "ended" /\ bridge' = FALSE /\ rx' = <<>>
  /\ UNCHANGED <<version, cast, listed, fwd, out, writer, frame, pinging,
                 missed, pong, shutdown, client, snap, got>>

\* The task that moves the broadcasts over finds that nobody takes them.
Unbridge ==
  /\ phase # "registered" /\ bridge /\ ~fwd /\ rx # <<>>
  /\ bridge' = FALSE /\ rx' = <<>>
  /\ UNCHANGED <<version, cast, listed, phase, fwd, out, writer, frame, pinging,
                 missed, pong, shutdown, client, snap, got>>

(* Forward skips what does not fit. *)
ForwardSkipping ==
  /\ fwd /\ rx # <<>>
  /\ rx' = Tail(rx)
  /\ out' = IF Fits THEN Append(out, Head(rx)) ELSE out
  /\ fwd' = Open
  /\ UNCHANGED <<version, cast, listed, phase, bridge, writer, frame, pinging,
                 missed, pong, shutdown, client, snap, got>>

Forward ==
  /\ fwd /\ rx # <<>>
  /\ rx' = Tail(rx)
  /\ out' = IF Fits THEN Append(out, Head(rx)) ELSE out
  /\ fwd' = Fits
  /\ shutdown' = (shutdown \/ (Open /\ Full))
  /\ UNCHANGED <<version, cast, listed, phase, bridge, writer, frame, pinging,
                 missed, pong, client, snap, got>>

\* The third ping in a row that finds no answer closes.
PingTick ==
  /\ pinging /\ phase = "open"             \* bound: not before
  /\ IF ~Fits
     THEN pinging' = FALSE /\ UNCHANGED <<out, missed>>
     ELSE /\ missed' = IF missed < 3 THEN missed + 1 ELSE missed
          /\ pinging' = (missed < 2)
          /\ out' = IF missed < 2 THEN Append(out, Ping)
                    ELSE IF Len(out) + 1 < Capacity
                         THEN out \o <<Ping, CloseFrame>> ELSE Append(out, Ping)
  /\ UNCHANGED <<version, cast, listed, phase, rx, bridge, fwd, writer,
                 frame, pong, shutdown, client, snap, got>>

ReceivePong ==
  /\ phase = "open" /\ pong
  /\ pong' = FALSE /\ missed' = 0
  /\ UNCHANGED <<version, cast, listed, phase, rx, bridge, fwd, out, writer,
                 frame, pinging, shutdown, client, snap, got>>

\* The receive loop ends: a shutdown, an error of the socket, or a Close.
Aborted ==
  /\ fwd' = FALSE /\ out' = <<>>
  /\ writer' = "off" /\ frame' = NoFrame /\ pinging' = FALSE
Leave ==
  /\ phase = "open"
  /\ shutdown \/ client = "gone"
  /\ phase' = "ended" /\ client' = "gone"
  /\ Aborted
  /\ UNCHANGED <<version, cast, listed, rx, bridge, missed, pong, shutdown, snap,
                 got>>

(***************************************************************************)
(* The writer and the client.  A client that stalls takes no frame; one    *)
(* that is gone makes the writer fail.                                     *)
(***************************************************************************)
TakeFrame ==
  /\ writer = "idle" /\ out # <<>>
  /\ writer' = "sending" /\ frame' = Head(out) /\ out' = Tail(out)
  /\ UNCHANGED <<version, cast, listed, phase, rx, bridge, fwd, pinging,
                 missed, pong, shutdown, client, snap, got>>

Sent ==
  /\ writer = "sending" /\ client = "up"
  /\ writer' = IF frame.kind = "close" THEN "off" ELSE "idle"
  /\ frame' = NoFrame
  /\ out' = IF frame.kind = "close" THEN <<>> ELSE out
  /\ snap' = IF frame.kind = "snapshot" THEN frame.n ELSE snap
  /\ got' = IF frame.kind = "change" THEN Append(got, frame.n) ELSE got
  /\ pong' = (pong \/ frame.kind = "ping")
  /\ client' = IF frame.kind = "close" THEN "gone" ELSE client
  /\ UNCHANGED <<version, cast, listed, phase, rx, bridge, fwd, pinging,
                 missed, shutdown>>

SendFails ==
  /\ writer = "sending" /\ client = "gone"
  /\ writer' = "off" /\ frame' = NoFrame /\ out' = <<>>
  /\ UNCHANGED <<version, cast, listed, phase, rx, bridge, fwd, pinging,
                 missed, pong, shutdown, client, snap, got>>

Stall ==
  /\ client \in {"up", "stalled"}
  /\ client' \in {"up", "stalled", "gone"} \ {client}
  /\ UNCHANGED <<version, cast, listed, phase, rx, bridge, fwd, out, writer,
                 frame, pinging, missed, pong, shutdown, snap, got>>

Init ==
  /\ version = 0 /\ cast = 0 /\ listed = FALSE /\ phase = "fresh"
  /\ rx = <<>> /\ bridge = FALSE /\ fwd = FALSE
  /\ out = <<>> /\ writer = "idle" /\ frame = NoFrame /\ pinging = TRUE
  /\ missed = 0 /\ pong = FALSE /\ shutdown = FALSE /\ client = "up"
  /\ snap = 0 /\ got = <<>>

Step ==
  \/ BroadcastSample \/ BroadcastChange
  \/ Snapshot \/ GiveUp \/ Unbridge \/ Forward \/ ReceivePong \/ Leave
  \/ TakeFrame \/ Sent \/ SendFails
Next == Modify \/ Register \/ PingTick \/ Stall \/ Step

\* The tasks run on; samples are taken for ever; nothing makes a client stall,
\* recover or leave.
Fairness == /\ WF_vars(BroadcastSample) /\ WF_vars(Snapshot) /\ WF_vars(GiveUp)
            /\ WF_vars(Unbridge) /\ WF_vars(Forward) /\ WF_vars(Leave)
            /\ WF_vars(TakeFrame) /\ WF_vars(SendFails)
Spec == Init /\ [][Next]_vars /\ Fairness

-----------------------------------------------------------------------------
TypeOK ==
  /\ version \in 0 .. MaxChanges /\ cast \in 0 .. version
  /\ listed \in BOOLEAN /\ bridge \in BOOLEAN /\ fwd \in BOOLEAN
  /\ phase \in {"fresh", "registered", "open", "ended"}
  /\ rx \in Seq(Frames) /\ out \in Seq(Frames)
  /\ Len(out) <= Capacity
  /\ writer \in {"idle", "sending", "off"} /\ frame \in Frames
  /\ pinging \in BOOLEAN /\ missed \in 0 .. 3 /\ pong \in BOOLEAN
  /\ shutdown \in BOOLEAN /\ client \in {"up", "stalled", "gone"}
  /\ snap \in 0 .. MaxChanges /\ got \in Seq(1 .. MaxChanges)

(* Whatever the client received last, it has not missed anything before it:  *)
(* a change is in the snapshot or was sent (the registration precedes the    *)
(* snapshots, and a full queue ends the connection instead of skipping).     *)
NoGaps ==
  \A i \in DOMAIN got : \A n \in 1 .. got[i] - 1 :
    n <= snap \/ \E j \in 1 .. i - 1 : got[j] = n

(* A client that stops reading or disappears does not keep its connection: it *)
(* reads again, or its connection ends and leaves the list of clients, so    *)
(* that nothing is queued for it for ever.                                   *)
Dropped == client = "up" \/ (phase \in {"fresh", "ended"} /\ ~listed)
StalledIsDropped == []<>Dropped

=============================================================================
