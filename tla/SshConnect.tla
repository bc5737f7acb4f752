------------------------------ MODULE SshConnect ------------------------------
(***************************************************************************)
(* An SSH terminal from the request to its end (src/ssh/mod.rs,            *)
(* src/tabs/ssh.rs): the steps of create_ssh_session, with the fallback to *)
(* keyboard-interactive authentication that asks the user through the sync *)
(* websockets (src/ws/sync.rs), the publication of session and tab, and    *)
(* the reader task that closes the session.                                *)
(*                                                                         *)
(* A prompt is the number of its round.  Every request makes a new pane,   *)
(* so attempts and panes are one.  A step that only waits for the network  *)
(* succeeds or fails; which timeout it was does not matter.                *)
(***************************************************************************)
EXTENDS Naturals, Sequences

CONSTANTS
    Attempts,    \* requests for an SSH tab
    Conns,       \* connections of the sync websocket
    MaxRounds    \* bound: prompts the server sends in one attempt

VARIABLES
    at,        \* attempt -> where create_ssh_session and its caller are
    round,     \* attempt -> prompts the server has sent
    given,     \* attempt -> the answer sent to the server last
    pending,   \* pending_ssh_auth: the attempts with an entry
    prompts,   \* attempt -> prompts_rx
    answers,   \* attempt -> responses_rx
    conn,      \* connection -> "new", "on", "gone"
    poller,    \* connection -> attempt -> "none", "on", "off"
    asked,     \* connection -> prompts its user sees, <<attempt, round>>
    session,   \* attempt -> "none", "live", "closing", "closed"
    tab,       \* attempts with a tab in tab_layouts
    seen       \* attempts whose tab the clients were last told of

entry == <<pending, prompts, answers>>
desk  == <<conn, poller, asked>>
pane  == <<session, tab, seen>>
vars  == <<at, round, given, entry, desk, pane>>

Steps == {"new", "dial", "auth", "fallback", "asking", "waiting", "channel",
          "built", "published", "listed", "told", "done", "failed"}

Goes(a, next) == at' = [at EXCEPT ![a] = next]

-----------------------------------------------------------------------------
(* create_ssh_session up to the published session                          *)

Reserve(a) ==
    /\ at[a] = "new" /\ Goes(a, "dial")
    /\ UNCHANGED <<round, given, entry, desk, pane>>

\* TCP connection and handshake.
Dial(a) ==
    /\ at[a] = "dial" /\ Goes(a, "auth")
    /\ UNCHANGED <<round, given, entry, desk, pane>>

\* The password or the key is accepted, or refused without an error.
Authenticate(a) ==
    /\ at[a] = "auth"
    /\ \E next \in {"channel", "fallback"} : Goes(a, next)
    /\ UNCHANGED <<round, given, entry, desk, pane>>

\* try_keyboard_interactive_auth registers the entry and starts the exchange.
Register(a) ==
    /\ at[a] = "fallback" /\ Goes(a, "asking")
    /\ pending' = pending \cup {a}
    /\ UNCHANGED <<round, given, prompts, answers, desk, pane>>

\* The server is content with what it has, or refuses: the entry goes.
Decide(a) ==
    /\ at[a] = "asking"
    /\ \E next \in {"channel", "failed"} : Goes(a, next)
    /\ pending' = pending \ {a}
    /\ UNCHANGED <<round, given, prompts, answers, desk, pane>>

\* It asks (again): the prompts go to the entry's queue.
Ask(a) ==
    /\ at[a] = "asking" /\ round[a] < MaxRounds
    /\ Goes(a, "waiting")
    /\ round' = [round EXCEPT ![a] = @ + 1]
    /\ prompts' = [prompts EXCEPT ![a] = Append(@, round'[a])]
    /\ UNCHANGED <<given, pending, answers, desk, pane>>

Take(a) ==
    /\ at[a] = "waiting" /\ answers[a] # <<>>
    /\ Goes(a, "asking")
    /\ given' = [given EXCEPT ![a] = Head(answers[a])]
    /\ answers' = [answers EXCEPT ![a] = Tail(@)]
    /\ UNCHANGED <<round, pending, prompts, desk, pane>>

\* Channel, terminal, shell and the question for $HOME.
Open(a) ==
    /\ at[a] = "channel" /\ Goes(a, "built")
    /\ UNCHANGED <<round, given, entry, desk, pane>>

\* An error or a timeout at any wait, or the request is dropped: the entry stays.
Fail(a) ==
    /\ at[a] \in {"dial", "auth", "fallback", "asking", "waiting", "channel"}
    /\ Goes(a, "failed")
    /\ UNCHANGED <<round, given, entry, desk, pane>>

Publish(a) ==
    /\ at[a] = "built" /\ Goes(a, "published")
    /\ session' = [session EXCEPT ![a] = "live"]
    /\ UNCHANGED <<round, given, entry, desk, tab, seen>>

-----------------------------------------------------------------------------
(* create_ssh_tab after that, and the end of the session                   *)

\* insert_tab_for_session; the request ends with GONE if the session has.
InsertTab(a) ==
    /\ at[a] = "published"
    /\ IF session[a] = "live" THEN Goes(a, "listed") /\ tab' = tab \cup {a}
       ELSE Goes(a, "failed") /\ UNCHANGED tab
    /\ UNCHANGED <<round, given, entry, desk, session, seen>>

Announce(a) ==
    /\ at[a] = "listed" /\ Goes(a, "told")
    /\ seen' = seen \cup {a}
    /\ UNCHANGED <<round, given, entry, desk, session, tab>>

\* recheck_publish_or_correct: only what it takes out of a layout is broadcast.
Recheck(a) ==
    /\ at[a] = "told" /\ Goes(a, "done")
    /\ IF session[a] # "live" /\ a \in tab
         THEN tab' = tab \ {a} /\ seen' = seen \ {a}
         ELSE UNCHANGED <<tab, seen>>
    /\ UNCHANGED <<round, given, entry, desk, session>>

\* The reader task sees the channel end, a write fail or SshCmd::Close:
\* close_session_for_session takes session and tab out under one lock ...
Close(a) ==
    /\ session[a] = "live"
    /\ session' = [session EXCEPT ![a] = IF a \in tab THEN "closing" ELSE "closed"]
    /\ tab' = tab \ {a}
    /\ UNCHANGED <<at, round, given, entry, desk, seen>>

\* ... and tells the clients after it is released.
TellClosed(a) ==
    /\ session[a] = "closing"
    /\ session' = [session EXCEPT ![a] = "closed"]
    /\ seen' = seen \ {a}
    /\ UNCHANGED <<at, round, given, entry, desk, tab>>

-----------------------------------------------------------------------------
(* The sync websockets                                                     *)

Connect(c) ==
    /\ conn[c] = "new" /\ conn' = [conn EXCEPT ![c] = "on"]
    /\ UNCHANGED <<at, round, given, entry, poller, asked, pane>>

\* The monitor of a connection is aborted with it, the pollers it started are not.
Disconnect(c) ==
    /\ conn[c] = "on" /\ conn' = [conn EXCEPT ![c] = "gone"]
    /\ asked' = [asked EXCEPT ![c] = {}]
    /\ UNCHANGED <<at, round, given, entry, poller, pane>>

\* ssh_auth_monitor starts a poller for each new entry.
Notice(c, a) ==
    /\ conn[c] = "on" /\ a \in pending /\ poller[c][a] = "none"
    /\ poller' = [poller EXCEPT ![c][a] = "on"]
    /\ UNCHANGED <<at, round, given, entry, conn, asked, pane>>

\* A poller takes the next prompt; one whose connection is gone, or has a full
\* queue, loses it and ends.
Forward(c, a) ==
    /\ poller[c][a] = "on" /\ a \in pending /\ prompts[a] # <<>>
    /\ prompts' = [prompts EXCEPT ![a] = Tail(@)]
    /\ \/ /\ conn[c] = "on"
          /\ asked' = [asked EXCEPT ![c] = @ \cup {<<a, Head(prompts[a])>>}]
          /\ UNCHANGED poller
       \/ poller' = [poller EXCEPT ![c][a] = "off"] /\ UNCHANGED asked
    /\ UNCHANGED <<at, round, given, pending, answers, conn, pane>>

StopPoller(c, a) ==
    /\ poller[c][a] = "on" /\ a \notin pending
    /\ poller' = [poller EXCEPT ![c][a] = "off"]
    /\ UNCHANGED <<at, round, given, entry, conn, asked, pane>>

\* The user answers: SshAuthResponse goes to the entry, if there is one still.
Respond(c, a, k) ==
    /\ <<a, k>> \in asked[c]
    /\ asked' = [asked EXCEPT ![c] = @ \ {<<a, k>>}]
    /\ answers' = IF a \in pending THEN [answers EXCEPT ![a] = Append(@, k)]
                  ELSE answers
    /\ UNCHANGED <<at, round, given, pending, prompts, conn, poller, pane>>

-----------------------------------------------------------------------------
Init ==
    /\ at = [a \in Attempts |-> "new"]
    /\ round = [a \in Attempts |-> 0] /\ given = [a \in Attempts |-> 0]
    /\ pending = {}
    /\ prompts = [a \in Attempts |-> <<>>] /\ answers = [a \in Attempts |-> <<>>]
    /\ conn = [c \in Conns |-> "new"] /\ asked = [c \in Conns |-> {}]
    /\ poller = [c \in Conns |-> [a \in Attempts |-> "none"]]
    /\ session = [a \in Attempts |-> "none"]
    /\ tab = {} /\ seen = {}

Next ==
    \/ \E a \in Attempts :
          \/ Reserve(a) \/ Dial(a) \/ Authenticate(a) \/ Register(a) \/ Decide(a)
          \/ Ask(a) \/ Take(a) \/ Open(a) \/ Fail(a) \/ Publish(a)
          \/ InsertTab(a) \/ Announce(a) \/ Recheck(a) \/ Close(a) \/ TellClosed(a)
    \/ \E c \in Conns : Connect(c) \/ Disconnect(c)
    \/ \E c \in Conns, a \in Attempts :
          \/ Notice(c, a) \/ Forward(c, a) \/ StopPoller(c, a)
          \/ \E k \in 1 .. MaxRounds : Respond(c, a, k)

Spec == Init /\ [][Next]_vars

-----------------------------------------------------------------------------
(* Properties                                                              *)

\* The steps, queues and tables hold values of their types.
TypeOK ==
    /\ at \in [Attempts -> Steps] /\ round \in [Attempts -> 0 .. MaxRounds]
    /\ given \in [Attempts -> 0 .. MaxRounds]
    /\ pending \subseteq Attempts /\ tab \subseteq Attempts /\ seen \subseteq Attempts
    /\ \A a \in Attempts : prompts[a] \in Seq(1 .. MaxRounds) /\ answers[a] \in Seq(1 .. MaxRounds)
    /\ conn \in [Conns -> {"new", "on", "gone"}]
    /\ poller \in [Conns -> [Attempts -> {"none", "on", "off"}]]
    /\ asked \in [Conns -> SUBSET (Attempts \X (1 .. MaxRounds))]
    /\ session \in [Attempts -> {"none", "live", "closing", "closed"}]

\* Whatever connections come, go, poll and answer late: what the server gets is
\* the answer to the prompt it sent last (the queues of PendingSshAuth are shared
\* by all connections, and no answer names its prompt).
AnswersFit == \A a \in Attempts : at[a] = "asking" => given[a] = round[a]

\* A session that ends while its tab is made leaves no tab behind
\* (insert_tab_for_session against close_session_for_session).
ListedMeansLive == \A a \in tab : session[a] = "live"

\* "Correct a just-published layout if its session exited during the broadcast
\* race": once all is said, the clients see no tab of an ended session.
ExitsAreCorrected ==
    \A a \in Attempts : at[a] = "done" /\ session[a] = "closed" => a \notin seen
=============================================================================
