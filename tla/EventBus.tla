------------------------------- MODULE EventBus -------------------------------
(***************************************************************************)
(* The event bus (src/events) and who listens to it: the bridge to the     *)
(* sync clients, the webhook dispatcher, and the task that forwards events *)
(* to an agent's WebSocket.  The bus is a broadcast channel: a ring that   *)
(* keeps the last Capacity events, and an own position for each receiver.  *)
(* A receiver that the ring has overtaken gets an error.  Beside it, the   *)
(* registry of the plugins' subscriptions, which guards uninstalling.      *)
(*                                                                         *)
(* Events are numbers in the order they are published.                     *)
(***************************************************************************)
EXTENDS Naturals, Sequences

CONSTANTS
    Agents,      \* WebSockets of agents
    Plugins,
    Capacity,    \* of the ring: EventBus::new
    MaxEvents,   \* bound: events published
    MaxChanges   \* bound: subscriptions made or ended

BoundsAssumption == {Capacity, MaxEvents, MaxChanges} \subseteq Nat

VARIABLES
    published,   \* events, each "direct" or "mirrored"
    position,    \* receiver -> events it has taken or been overtaken by
    listening,   \* receivers whose loop has not ended
    since,       \* agent -> events published before it connected
    sent,        \* receiver -> what it has forwarded
    clientGot,   \* what a sync client got: <<"plain", n>> or <<"event", n>>
    wants,       \* plugins whose frontend subscribes to auth.verification_code
    subscribed,  \* those the registry has it for
    leaving,     \* unsubscribe calls between the look at the empty set and the removal
    changes      \* subscription changes so far

busVars == <<published, position, listening, since, sent, clientGot>>
regVars == <<wants, subscribed, leaving, changes>>
vars == <<busVars, regVars>>

Receivers == {"bridge", "webhooks"} \cup Agents
Count     == Len(published)

-----------------------------------------------------------------------------
(* The bus.                                                                *)

\* A task publishes an event of its own; broadcast_sync sends its message to the
\* clients and mirrors some of them.
Publish ==
    /\ Count < MaxEvents
    /\ \E kind \in {"direct", "mirrored"} :
         /\ published' = Append(published, kind)
         /\ clientGot' = IF kind = "mirrored"
                           THEN Append(clientGot, <<"plain", Count + 1>>)
                           ELSE clientGot
    /\ UNCHANGED <<position, listening, since, sent, regVars>>

Connect(a) ==
    /\ a \notin listening /\ since[a] = 0 /\ sent[a] = <<>>
    /\ listening' = listening \cup {a}
    /\ position' = [position EXCEPT ![a] = Count]
    /\ since' = [since EXCEPT ![a] = Count]
    /\ UNCHANGED <<published, sent, clientGot, regVars>>

Disconnect(a) ==
    /\ a \in listening
    /\ listening' = listening \ {a}
    /\ UNCHANGED <<published, position, since, sent, clientGot, regVars>>

Overtaken(r) == Count - position[r] > Capacity

\* The event number n is forwarded to a client, a hook or a socket; what the bridge
\* sends is an Event message, which broadcast_sync does not mirror.
Forward(r, n) ==
    /\ position' = [position EXCEPT ![r] = n]
    /\ sent' = [sent EXCEPT ![r] = Append(@, n)]
    /\ clientGot' = IF r = "bridge" THEN Append(clientGot, <<"event", n>>)
                                    ELSE clientGot
    /\ UNCHANGED <<published, listening, since, regVars>>

Receive(r) ==
    /\ r \in listening /\ position[r] < Count /\ ~Overtaken(r)
    /\ Forward(r, position[r] + 1)

\* `while let Ok(event) = rx.recv().await` ends at the first error.
Lag(r) ==
    /\ r \in listening /\ Overtaken(r)
    /\ listening' = listening \ {r}
    /\ UNCHANGED <<published, position, since, sent, clientGot, regVars>>

-----------------------------------------------------------------------------
(* SubscriptionRegistry                                                    *)

Change == changes < MaxChanges /\ changes' = changes + 1

Subscribe(p) ==
    /\ Change
    /\ wants' = wants \cup {p} /\ subscribed' = subscribed \cup {p}
    /\ UNCHANGED <<busVars, leaving>>

\* The plugin's set is found empty, and the entry dropped, before it is removed.
Unsubscribe(p) ==
    /\ Change
    /\ wants' = wants \ {p} /\ subscribed' = subscribed \ {p}
    /\ leaving' = IF p \in subscribed THEN leaving \cup {p} ELSE leaving
    /\ UNCHANGED busVars

RemoveEntry(p) ==
    /\ p \in leaving
    /\ leaving' = leaving \ {p} /\ subscribed' = subscribed \ {p}
    /\ UNCHANGED <<busVars, wants, changes>>

-----------------------------------------------------------------------------
Init ==
    /\ published = <<>> /\ clientGot = <<>>
    /\ position = [r \in Receivers |-> 0] /\ since = [a \in Agents |-> 0]
    /\ listening = {"bridge", "webhooks"}
    /\ sent = [r \in Receivers |-> <<>>]
    /\ wants = {} /\ subscribed = {}
    /\ leaving = {} /\ changes = 0

Next ==
    \/ Publish
    \/ \E a \in Agents : Connect(a) \/ Disconnect(a)
    \/ \E r \in Receivers : Receive(r) \/ Lag(r)
    \/ \E p \in Plugins : Subscribe(p) \/ Unsubscribe(p) \/ RemoveEntry(p)

Spec == Init /\ [][Next]_vars

-----------------------------------------------------------------------------
(* Properties.                                                             *)

TypeOK ==
    /\ position \in [Receivers -> 0 .. MaxEvents]
    /\ listening \subseteq Receivers
    /\ subscribed \cup leaving \cup wants \subseteq Plugins

\* A receiver forwards every event published since it came, in order, once, as far
\* as it got; a sync client sees a mirrored message before the event it becomes,
\* and neither twice.
From(r) == IF r \in Agents THEN since[r] ELSE 0
ForwardedOnce ==
    /\ \A r \in Receivers :
         sent[r] = [i \in 1 .. Len(sent[r]) |-> From(r) + i]
    /\ \A i, j \in DOMAIN clientGot :
         /\ clientGot[i] = clientGot[j] => i = j
         /\ i < j /\ clientGot[i][2] = clientGot[j][2] => clientGot[i][1] = "plain"

\* "slow consumers lose older events": nothing but its own end stops a listener
\* of the server.
SlowListenersGoOn == {"bridge", "webhooks"} \subseteq listening

\* "The 409 guard errs on the side of caution": the registry may know a
\* subscription that has ended, but none is missing when all calls are through.
GuardIsCautious == leaving = {} => wants \subseteq subscribed

=============================================================================
