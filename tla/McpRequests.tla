----------------------------- MODULE McpRequests -----------------------------
(***************************************************************************)
(* The MCP endpoints (src/mcp): a posted request is let in by the settings *)
(* and handled while the guard of the settings is kept; tab_create and     *)
(* pane_split read the settings once more.  Answers go back to the poster  *)
(* and to every client of the event stream.                                *)
(*                                                                         *)
(* The lock of the settings is tokio's: who has to wait is served in the   *)
(* order of asking, so a reader that asks after a waiting writer waits     *)
(* behind it.                                                              *)
(***************************************************************************)
EXTENDS Naturals, Sequences, FiniteSets

CONSTANTS
    Requests,   \* calls of mcp_message_handler
    Savers,     \* calls that change the settings
    Streams,    \* calls of mcp_sse_handler
    Endpoint    \* the first event of a stream

VARIABLES
    enabled,    \* mcp.http_enabled; stdio_enabled is off
    kind,       \* request -> what it asks for
    notes,      \* the requests without an id, which are not answered
    at,         \* call -> where it is
    guards,     \* the requests that keep a guard of the settings
    queue,      \* the calls that wait for the settings' lock, in order
    clients,    \* SseState: the streams that get the answers
    sent,       \* stream -> what was sent to it
    gone,       \* the streams whose client has hung up
    log,        \* the answers, in the order in which they were sent
    from        \* stream -> the length of the log when it joined

lock == <<guards, queue>>
sse  == <<clients, sent, gone, log, from>>
asked == <<kind, notes>>
vars == <<enabled, asked, at, lock, sse>>

Kinds == {"create", "split", "execute", "other"}
Calls == Requests \cup Savers \cup Streams

TypeOK ==
    /\ enabled \in BOOLEAN
    /\ kind \in [Requests -> Kinds] /\ notes \subseteq Requests
    /\ at \in [Calls -> {"new", "waiting", "handling", "again", "running",
                         "working", "joining", "over"}]
    /\ guards \subseteq Requests
    /\ queue \in Seq(Calls)
    /\ clients \subseteq Streams /\ gone \subseteq Streams
    /\ sent \in [Streams -> Seq(Requests \cup {Endpoint})]
    /\ log \in Seq(Requests) /\ from \in [Streams -> Nat]

Init ==
    /\ enabled \in BOOLEAN
    /\ kind \in [Requests -> Kinds] /\ notes \in SUBSET Requests
    /\ at = [p \in Calls |-> "new"]
    /\ guards = {} /\ queue = <<>>
    /\ clients = {} /\ gone = {} /\ log = <<>>
    /\ sent = [s \in Streams |-> <<>>] /\ from = [s \in Streams |-> 0]

-----------------------------------------------------------------------------
(* The lock of the settings                                                *)

\* Whoever comes to the lock stands at the end of the queue; who is first in it
\* and can be served goes on.
Ask(p, stage) ==
    /\ queue' = Append(queue, p)
    /\ at' = [at EXCEPT ![p] = stage]
    /\ UNCHANGED <<enabled, asked, guards, sse>>

First(p) == queue # <<>> /\ Head(queue) = p

\* Readers share the lock, a writer needs it alone: it is held over a step by
\* requests only.
MayRead(p)  == First(p)
MayWrite(p) == First(p) /\ guards = {}

-----------------------------------------------------------------------------
(* mcp_message_handler and handle_request                                  *)

Post(r) == at[r] = "new" /\ Ask(r, "waiting")

\* Refused with 404 when the endpoint is off.
LetIn(r) ==
    /\ at[r] = "waiting" /\ MayRead(r)
    /\ queue' = Tail(queue)
    /\ at' = [at EXCEPT ![r] = IF enabled THEN "handling" ELSE "over"]
    /\ guards' = guards \cup (IF enabled THEN {r} ELSE {})
    /\ UNCHANGED <<enabled, asked, sse>>

Goes(r, stage) ==
    /\ at' = [at EXCEPT ![r] = stage]
    /\ UNCHANGED <<enabled, asked, lock, sse>>

\* The request lacks a parameter, names no tool, or its token may not use it.
TurnDown(r) == at[r] = "handling" /\ Goes(r, "working")

\* service::create_tab copies the settings it needs ...
CreateTab(r) == at[r] = "handling" /\ kind[r] = "create" /\ Ask(r, "again")

\* ... and split_pane does.
SplitPane(r) == at[r] = "handling" /\ kind[r] = "split" /\ Ask(r, "again")

ReadAgain(r) ==
    /\ at[r] = "again" /\ MayRead(r)
    /\ queue' = Tail(queue)
    /\ at' = [at EXCEPT ![r] = "working"]
    /\ UNCHANGED <<enabled, asked, guards, sse>>

\* terminal_execute types the command and looks every 50 ms for its result or for a
\* prompt, up to an hour.
TypeCommand(r) == at[r] = "handling" /\ kind[r] = "execute" /\ Goes(r, "running")
CommandOver(r) == at[r] = "running" /\ Goes(r, "working")

\* The tools that look at a screen or at files, and the methods without a tool, do
\* not wait.
OtherTool(r) == at[r] = "handling" /\ kind[r] = "other" /\ Goes(r, "working")

\* The answer goes to the streams, and those that are gone leave the list; a
\* request without an id gets none.  Then the handler returns.
Answer(r) ==
    /\ at[r] = "working"
    /\ at' = [at EXCEPT ![r] = "over"]
    /\ guards' = guards \ {r}
    /\ IF r \in notes THEN UNCHANGED sse
       ELSE /\ log' = Append(log, r)
            /\ sent' = [s \in Streams |-> IF s \in clients \ gone
                                          THEN Append(sent[s], r) ELSE sent[s]]
            /\ clients' = clients \ gone
            /\ UNCHANGED <<gone, from>>
    /\ UNCHANGED <<enabled, asked, queue>>

-----------------------------------------------------------------------------
(* mcp_sse_handler                                                         *)

Listen(s) == at[s] = "new" /\ Ask(s, "waiting")

\* The first event is in the channel before the stream is in the list.
Open(s) ==
    /\ at[s] = "waiting" /\ MayRead(s)
    /\ queue' = Tail(queue)
    /\ at' = [at EXCEPT ![s] = IF enabled THEN "joining" ELSE "over"]
    /\ sent' = [sent EXCEPT ![s] = IF enabled THEN <<Endpoint>> ELSE @]
    /\ UNCHANGED <<enabled, asked, guards, clients, gone, log, from>>

Join(s) ==
    /\ at[s] = "joining"
    /\ at' = [at EXCEPT ![s] = "over"]
    /\ clients' = clients \cup {s}
    /\ from' = [from EXCEPT ![s] = Len(log)]
    /\ UNCHANGED <<enabled, asked, lock, sent, gone, log>>

HangUp(s) ==
    /\ s \in clients /\ s \notin gone
    /\ gone' = gone \cup {s}
    /\ UNCHANGED <<enabled, asked, at, lock, clients, sent, log, from>>

-----------------------------------------------------------------------------
(* The calls that save settings (put_settings and others) take the lock for  *)
(* one assignment.                                                           *)

Save(w) == at[w] = "new" /\ Ask(w, "waiting")

Put(w) ==
    /\ at[w] = "waiting" /\ MayWrite(w)
    /\ queue' = Tail(queue)
    /\ at' = [at EXCEPT ![w] = "over"]
    /\ enabled' \in BOOLEAN
    /\ UNCHANGED <<asked, guards, sse>>

-----------------------------------------------------------------------------
Step(r) == \/ LetIn(r) \/ TurnDown(r) \/ CreateTab(r) \/ SplitPane(r) \/ ReadAgain(r)
           \/ TypeCommand(r) \/ CommandOver(r) \/ OtherTool(r) \/ Answer(r)

Next ==
    \/ \E r \in Requests : Post(r) \/ Step(r)
    \/ \E s \in Streams : Listen(s) \/ Open(s) \/ Join(s) \/ HangUp(s)
    \/ \E w \in Savers : Save(w) \/ Put(w)

Spec == Init /\ [][Next]_vars

\* The runtime goes on with every call that is not waiting.
FairSpec == /\ Spec
            /\ \A r \in Requests : WF_vars(Step(r))
            /\ \A s \in Streams : WF_vars(Open(s) \/ Join(s))
            /\ \A w \in Savers : WF_vars(Put(w))

-----------------------------------------------------------------------------
(* No tool runs after a change of the settings has turned MCP off: the guard *)
(* that the handler keeps holds the change back.                             *)
HandledWhileEnabled ==
    \A r \in Requests : at[r] \in {"handling", "again", "running", "working"} => enabled

(* A stream starts with the endpoint and has every answer since it joined,   *)
(* each once and in the order of the others.                                 *)
StreamsHaveAnswers ==
    \A s \in clients \ gone :
       sent[s] = <<Endpoint>> \o SubSeq(log, from[s] + 1, Len(log))

(* "POST /mcp/message returns the complete JSON-RPC response body directly"  *)
(* (docs/en/api/mcp-server.md).                                              *)
RequestsAreAnswered ==
    \A r \in Requests : at[r] = "waiting" ~> at[r] = "over"
=============================================================================
