---------------------------- MODULE SessionResize ----------------------------
(***************************************************************************)
(* The size of a local session: the kernel's window size of the PTY, the   *)
(* `size` field and the virtual screen, each under a lock of its own.      *)
(* Resizes of the clients go through a watch channel and a debounce task   *)
(* (src/pty.rs); a joining client's snapshot request resizes by itself     *)
(* (src/session/mod.rs).  The input writer takes the backend lock while it *)
(* writes, and writing may take its time.                                  *)
(***************************************************************************)
EXTENDS Naturals

CONSTANTS
    Clients,
    Joining,     \* clients that ask for a snapshot
    Sizes,
    Start,       \* the size of a new session (80 x 24)
    None,
    MaxRequests, \* bound: resizes the clients ask for
    MaxWrites    \* bound: batches of input written

SizeAssumption == Start \in Sizes /\ None \notin Sizes
ClientAssumption == Joining \subseteq Clients /\ None \notin Clients
BoundAssumption == MaxRequests \in Nat /\ MaxWrites \in Nat

VARIABLES
    pty,        \* what the kernel tells the program
    size,       \* Session.size
    screen,     \* dimensions of the virtual screen
    writing,    \* the writer has the backend lock
    writes,     \* batches written
    joined,     \* Session.clients
    request,    \* the value in the watch channel
    changed,    \* the debounce task has not seen it
    requests,   \* resizes asked for
    debounce,   \* the debounce task: its step and the request it works on
    handshake,  \* client -> the step of its snapshot request and its size
    replay      \* client -> what ReplayBegin said and the snapshot was drawn at

sizeVars    == <<pty, size, screen>>
writerVars  == <<writing, writes>>
requestVars == <<request, changed, requests>>
vars == <<sizeVars, writerVars, joined, requestVars, debounce, handshake, replay>>

-----------------------------------------------------------------------------
Request == [origin : Clients, dims : Sizes]
Quiet   == [step |-> "idle", req |-> None]

Init ==
    /\ pty = Start
    /\ size = Start
    /\ screen = Start
    /\ writing = FALSE
    /\ writes = 0
    /\ joined = Clients
    /\ request = None
    /\ changed = FALSE
    /\ requests = 0
    /\ debounce = Quiet
    /\ handshake = [c \in Clients |-> [step |-> "none", dims |-> None]]
    /\ replay = [c \in Clients |-> None]

-----------------------------------------------------------------------------
(* write_input_blocking: the backend lock is held from the one to the other. *)

BeginWrite ==
    /\ ~writing
    /\ writes < MaxWrites
    /\ writing' = TRUE
    /\ writes' = writes + 1
    /\ UNCHANGED <<sizeVars, joined, requestVars, debounce, handshake, replay>>

EndWrite ==
    /\ writing
    /\ writing' = FALSE
    /\ UNCHANGED <<sizeVars, writes, joined, requestVars, debounce, handshake,
                   replay>>

-----------------------------------------------------------------------------
(* Clients: a frontend asks for no resize until its replay is over.        *)

\* resize_debounced.
ResizeDebounced(c, d) ==
    /\ c \in joined
    /\ c \in Joining => handshake[c].step \in {"done", "failed"}
    /\ requests < MaxRequests
    /\ request' = [origin |-> c, dims |-> d]
    /\ changed' = TRUE
    /\ requests' = requests + 1
    /\ UNCHANGED <<sizeVars, writerVars, joined, debounce, handshake, replay>>

Leave(c) ==
    /\ c \in joined
    /\ joined' = joined \ {c}
    /\ UNCHANGED <<sizeVars, writerVars, requestVars, debounce, handshake, replay>>

-----------------------------------------------------------------------------
(* The debounce task and apply_and_broadcast_resize, which it waits for.   *)

To(step) == debounce' = [debounce EXCEPT !.step = step]

\* rx.changed, and the 25 ms begin.
Wake ==
    /\ debounce.step = "idle"
    /\ changed
    /\ changed' = FALSE
    /\ debounce' = [step |-> "waiting", req |-> request]
    /\ UNCHANGED <<sizeVars, writerVars, joined, request, requests, handshake,
                   replay>>

\* The 25 ms are over: another request meanwhile starts them again.
Settle ==
    /\ debounce.step = "waiting"
    /\ IF request = debounce.req THEN To("member") ELSE debounce' = Quiet
    /\ UNCHANGED <<sizeVars, writerVars, joined, requestVars, handshake, replay>>

\* A resize whose origin has gone is dropped.
CheckOrigin ==
    /\ debounce.step = "member"
    /\ IF debounce.req.origin \in joined THEN To("pty") ELSE debounce' = Quiet
    /\ UNCHANGED <<sizeVars, writerVars, joined, requestVars, handshake, replay>>

\* Session::resize takes the backend with try_lock and goes on without it.
ResizePty ==
    /\ debounce.step = "pty"
    /\ pty' = IF writing THEN pty ELSE debounce.req.dims
    /\ To("size")
    /\ UNCHANGED <<size, screen, writerVars, joined, requestVars, handshake, replay>>

ResizeSize ==
    /\ debounce.step = "size"
    /\ size' = debounce.req.dims
    /\ To("screen")
    /\ UNCHANGED <<pty, screen, writerVars, joined, requestVars, handshake, replay>>

ResizeScreen ==
    /\ debounce.step = "screen"
    /\ screen' = debounce.req.dims
    /\ debounce' = Quiet
    /\ UNCHANGED <<pty, size, writerVars, joined, requestVars, handshake, replay>>

-----------------------------------------------------------------------------
(* atomic_resize_and_snapshot_for_client.                                  *)

Step(c, s) == handshake' = [handshake EXCEPT ![c].step = s]

SnapshotRequest(c, d) ==
    /\ c \in joined \cap Joining
    /\ handshake[c].step = "none"
    /\ handshake' = [handshake EXCEPT ![c] = [step |-> "pty", dims |-> d]]
    /\ UNCHANGED <<sizeVars, writerVars, joined, requestVars, debounce, replay>>

\* resize_async waits for the backend.
HandshakePty(c) ==
    /\ handshake[c].step = "pty"
    /\ ~writing
    /\ pty' = handshake[c].dims
    /\ Step(c, "size")
    /\ UNCHANGED <<size, screen, writerVars, joined, requestVars, debounce, replay>>

HandshakeSize(c) ==
    /\ handshake[c].step = "size"
    /\ size' = handshake[c].dims
    /\ Step(c, "screen")
    /\ UNCHANGED <<pty, screen, writerVars, joined, requestVars, debounce, replay>>

HandshakeScreen(c) ==
    /\ handshake[c].step = "screen"
    /\ screen' = handshake[c].dims
    /\ Step(c, "replay")
    /\ UNCHANGED <<pty, size, writerVars, joined, requestVars, debounce, replay>>

HandshakeReplay(c) ==
    /\ handshake[c].step = "replay"
    /\ IF c \in joined
         THEN /\ replay' = [replay EXCEPT ![c] =
                              [said |-> handshake[c].dims, drawn |-> screen]]
              /\ Step(c, "done")
         ELSE Step(c, "failed") /\ UNCHANGED replay
    /\ UNCHANGED <<sizeVars, writerVars, joined, requestVars, debounce>>

-----------------------------------------------------------------------------
Debouncer == Wake \/ Settle \/ CheckOrigin \/ ResizePty \/ ResizeSize \/ ResizeScreen

Handshake(c) == \/ HandshakePty(c) \/ HandshakeSize(c) \/ HandshakeScreen(c)
                \/ HandshakeReplay(c)

Next ==
    \/ BeginWrite \/ EndWrite \/ Debouncer
    \/ \E c \in Clients : \/ Leave(c) \/ Handshake(c)
                          \/ \E d \in Sizes : ResizeDebounced(c, d) \/ SnapshotRequest(c, d)

\* Tasks and blocking threads run, and the PTY takes the input in the end.
Fairness == /\ WF_vars(Debouncer) /\ WF_vars(EndWrite)
            /\ \A c \in Clients : WF_vars(Handshake(c))

Spec     == Init /\ [][Next]_vars
FairSpec == Spec /\ Fairness

-----------------------------------------------------------------------------
(* Properties.                                                             *)

TypeOK ==
    /\ {pty, size, screen} \subseteq Sizes
    /\ {writing, changed} \subseteq BOOLEAN
    /\ joined \subseteq Clients
    /\ request \in Request \cup {None}
    /\ debounce.step \in {"idle", "waiting", "member", "pty", "size", "screen"}
    /\ debounce.req \in Request \cup {None}
    /\ debounce.step = "idle" <=> debounce.req = None
    /\ \A c \in Clients :
         /\ handshake[c].step \in {"none", "pty", "size", "screen", "replay", "done", "failed"}
         /\ handshake[c].step # "none" <=> handshake[c].dims \in Sizes
         /\ replay[c] # None => {replay[c].said, replay[c].drawn} \subseteq Sizes

Settled == debounce = Quiet /\ \A c \in Clients : handshake[c].step \in {"none", "done", "failed"}

\* Until a snapshot request resizes too, the session comes to rest at the last
\* request of a client that stays, `size` and screen alike: the debounce loses none,
\* and a backend that is taken does not stop it.
RestsAtLastRequest ==
    /\ Settled /\ ~changed /\ request # None
    /\ request.origin \in joined
    /\ \A c \in Clients : handshake[c].step = "none"
    => size = request.dims /\ screen = request.dims

\* Even while a snapshot request resizes too, the debounce task always comes to an
\* end with the requests it was woken for.
Applied         == ~changed /\ debounce = Quiet
RequestsApplied == []<>Applied

\* A snapshot request ends, however long input is being written.
Shaken(c)     == handshake[c].step \in {"none", "done", "failed"}
HandshakeEnds == \A c \in Clients : []<>Shaken(c)

-----------------------------------------------------------------------------
(* What a comment says, and the code does not do.                          *)

\* "Ensures the final resize is always applied even if no further calls arrive": the
\* program in the PTY has the size of the session.
FinalResizeApplied == Settled /\ ~changed => pty = size

=============================================================================
