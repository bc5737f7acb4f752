---------------------------- MODULE DesktopAttach ----------------------------
(***************************************************************************)
(* How the desktop's own page is attached to a session                     *)
(* (src-tauri/src/main.rs): pty_spawn, the thread that forwards the        *)
(* session's events to the page, and the end of the session.  A page that  *)
(* is loaded again calls pty_spawn again; the calls run one after the      *)
(* other on the main thread, the forwarder threads and the close beside    *)
(* them.  Of the events only the exit matters here (the output is the      *)
(* matter of SessionStream); one session is followed.  What the page types *)
(* goes through a channel to a task that writes it to the terminal, and    *)
(* each call of pty_spawn makes both anew.                                 *)
(***************************************************************************)
EXTENDS Naturals, Sequences, FiniteSets

CONSTANTS
    MaxSpawns,   \* bound: calls of pty_spawn
    MaxInputs    \* bound: inputs typed

VARIABLES
    pc,       \* pty_spawn: "idle", "found", "current", "hooked", "alone", "added",
              \* "told"
    spawns,   \* calls so far
    last,     \* client id of the last call that came through, 0 for none
    tauri,    \* Session::tauri_client_id, 0 for None
    clients,  \* ids of Session::clients of the desktop
    forward,  \* id -> its thread: "none", "on", "removing", "ended"
    told,     \* ids whose channel holds SessionExit
    hook,     \* tauri_on_exit: "none", "set", "taken"
    close,    \* execute_close_plan: "none", "claimed", "noted", "done"
    heard,    \* the page has got pty-exit
    typed,    \* inputs so far
    tx,       \* Session::input_tx: the channel the page writes to, 0 for None
    inbox,    \* channel -> the inputs in it
    writer,   \* channel -> its task: "none", "idle", "writing", "ended" or
              \* "broken"
    batch,    \* channel -> the inputs its task is writing
    written   \* the inputs the terminal has

attachVars == <<pc, spawns, last, tauri, clients, forward, told, hook, close, heard>>
inputVars  == <<typed, tx, inbox, writer, batch, written>>
vars == <<attachVars, inputVars>>

Ids == 1 .. MaxSpawns
Current == close = "none"

-----------------------------------------------------------------------------
(* pty_spawn                                                               *)

\* session_for_tauri_attach; a session that is gone is an error.
Find ==
    /\ pc = "idle" /\ spawns < MaxSpawns /\ Current
    /\ pc' = "found" /\ spawns' = spawns + 1 /\ heard' = FALSE
    /\ UNCHANGED <<last, tauri, clients, forward, told, hook, close, inputVars>>

\* is_current_session, after the status was set to Connected.
Revalidate ==
    /\ pc = "found" /\ pc' = IF Current THEN "current" ELSE "idle"
    /\ UNCHANGED <<spawns, last, tauri, clients, forward, told, hook, close, heard, inputVars>>

Hook ==
    /\ pc = "current" /\ pc' = "hooked"
    /\ hook' = IF hook = "set" THEN hook ELSE "set"
    /\ UNCHANGED <<spawns, last, tauri, clients, forward, told, close, heard, inputVars>>

\* The forwarder of an earlier call loses its client, and with it its channel.
Supersede ==
    /\ pc = "hooked" /\ pc' = "alone"
    /\ clients' = clients \ {tauri} /\ tauri' = 0
    /\ UNCHANGED <<spawns, last, forward, told, hook, close, heard, inputVars>>

\* spawn_tauri_output_forwarder.
AddClient ==
    /\ pc = "alone" /\ pc' = "added"
    /\ clients' = clients \cup {spawns}
    /\ UNCHANGED <<spawns, last, tauri, forward, told, hook, close, heard, inputVars>>

\* The thread starts, or the client is taken back; the page is told to attach.
StartThread ==
    /\ pc = "added" /\ pc' = "told"
    /\ last' = spawns
    /\ \/ /\ forward' = [forward EXCEPT ![spawns] = "on"] /\ tauri' = spawns
          /\ UNCHANGED clients
       \/ /\ forward' = [forward EXCEPT ![spawns] = "ended"] /\ tauri' = 0
          /\ clients' = clients \ {spawns}
    /\ UNCHANGED <<spawns, told, hook, close, heard, inputVars>>

\* spawn_tauri_write_task: the sender of the channel before is dropped.
StartWriter ==
    /\ pc = "told" /\ pc' = "idle"
    /\ tx' = spawns /\ writer' = [writer EXCEPT ![spawns] = "idle"]
    /\ UNCHANGED <<spawns, last, tauri, clients, forward, told, hook, close, heard,
                   typed, inbox, batch, written>>

-----------------------------------------------------------------------------
(* pty_write and the write task                                            *)

\* Without a channel, or with one whose task has ended, it is an error.
Write ==
    /\ typed < MaxInputs /\ Current /\ tx # 0 /\ writer[tx] \in {"idle", "writing"}
    /\ typed' = typed + 1
    /\ inbox' = [inbox EXCEPT ![tx] = Append(@, typed + 1)]
    /\ UNCHANGED <<attachVars, tx, writer, batch, written>>

Leave(i, how) ==
    /\ writer' = [writer EXCEPT ![i] = how]
    /\ inbox' = [inbox EXCEPT ![i] = <<>>] /\ batch' = [batch EXCEPT ![i] = <<>>]
    /\ UNCHANGED <<attachVars, typed, tx, written>>

Exited == close \in {"noted", "done"}

\* All that is in the channel is taken at once, and of a session that has exited lost.
Take(i) ==
    /\ writer[i] = "idle" /\ inbox[i] # <<>>
    /\ \/ Exited /\ Leave(i, "ended")
       \/ /\ ~Exited
          /\ batch' = [batch EXCEPT ![i] = inbox[i]]
          /\ inbox' = [inbox EXCEPT ![i] = <<>>] /\ writer' = [writer EXCEPT ![i] = "writing"]
          /\ UNCHANGED <<attachVars, typed, tx, written>>

\* The terminal takes the batch, or refuses it, as it does when the shell is gone.
WriteOut(i) ==
    /\ writer[i] = "writing"
    /\ \/ /\ written' = written \o batch[i]
          /\ batch' = [batch EXCEPT ![i] = <<>>] /\ writer' = [writer EXCEPT ![i] = "idle"]
          /\ UNCHANGED <<attachVars, typed, tx, inbox>>
       \/ Leave(i, "broken")

\* The channel is empty and has no sender.
NoMore(i) == writer[i] = "idle" /\ inbox[i] = <<>> /\ tx # i /\ Leave(i, "ended")

-----------------------------------------------------------------------------
(* A forwarder thread                                                      *)

\* It forwards the exit, or finds its channel closed, or cannot emit.
Stop(i) ==
    /\ forward[i] = "on" /\ forward' = [forward EXCEPT ![i] = "removing"]
    /\ \/ i \in told /\ heard' = TRUE
       \/ UNCHANGED heard
    /\ clients' = clients \ {i}
    /\ UNCHANGED <<pc, spawns, last, tauri, told, hook, close, inputVars>>

\* clear_tauri_client_if.
Forget(i) ==
    /\ forward[i] = "removing" /\ forward' = [forward EXCEPT ![i] = "ended"]
    /\ tauri' = IF tauri = i THEN 0 ELSE tauri
    /\ UNCHANGED <<pc, spawns, last, clients, told, hook, close, heard, inputVars>>

-----------------------------------------------------------------------------
(* The session ends                                                        *)

Claim ==
    /\ close = "none" /\ close' = "claimed"
    /\ UNCHANGED <<pc, spawns, last, tauri, clients, forward, told, hook, heard, inputVars>>

\* notify_exit_and_mark_exited.
Note ==
    /\ close = "claimed" /\ close' = "noted"
    /\ told' = told \cup clients
    /\ UNCHANGED <<pc, spawns, last, tauri, clients, forward, hook, heard, inputVars>>

CallBack ==
    /\ close = "noted" /\ close' = "done"
    /\ IF hook = "set" THEN hook' = "taken" /\ heard' = TRUE
       ELSE UNCHANGED <<hook, heard>>
    /\ UNCHANGED <<pc, spawns, last, tauri, clients, forward, told, inputVars>>

-----------------------------------------------------------------------------
Init ==
    /\ pc = "idle" /\ spawns = 0 /\ last = 0 /\ tauri = 0 /\ clients = {}
    /\ forward = [i \in Ids |-> "none"] /\ told = {}
    /\ hook = "none" /\ close = "none" /\ heard = FALSE
    /\ typed = 0 /\ tx = 0 /\ written = <<>>
    /\ inbox = [i \in Ids |-> <<>>] /\ batch = [i \in Ids |-> <<>>]
    /\ writer = [i \in Ids |-> "none"]

Next ==
    \/ Find \/ Revalidate \/ Hook \/ Supersede \/ AddClient \/ StartThread \/ StartWriter
    \/ Write
    \/ \E i \in Ids : Stop(i) \/ Forget(i) \/ Take(i) \/ WriteOut(i) \/ NoMore(i)
    \/ Claim \/ Note \/ CallBack

Spec == Init /\ [][Next]_vars

-----------------------------------------------------------------------------
(* Properties                                                              *)

\* Steps, ids and sets hold values of their types.
TypeOK ==
    /\ pc \in {"idle", "found", "current", "hooked", "alone", "added", "told"}
    /\ spawns \in 0 .. MaxSpawns /\ last \in 0 .. MaxSpawns /\ tauri \in 0 .. MaxSpawns
    /\ clients \subseteq Ids /\ told \subseteq Ids
    /\ forward \in [Ids -> {"none", "on", "removing", "ended"}]
    /\ hook \in {"none", "set", "taken"} /\ heard \in BOOLEAN
    /\ close \in {"none", "claimed", "noted", "done"}
    /\ typed \in 0 .. MaxInputs /\ tx \in 0 .. MaxSpawns
    /\ writer \in [Ids -> {"none", "idle", "writing", "ended", "broken"}]
    /\ inbox \in [Ids -> Seq(1 .. MaxInputs)] /\ batch \in [Ids -> Seq(1 .. MaxInputs)]

\* The threads of earlier calls end at any time after a new one: the id under which
\* the page resizes and asks for snapshots stays the one of its forwarder.
PageHasItsClient ==
    pc = "idle" /\ last # 0 /\ forward[last] = "on" => tauri = last /\ last \in clients

Way(i) == batch[i] \o inbox[i]
Places(n) == {<<0, k>> : k \in {j \in DOMAIN written : written[j] = n}}
             \cup {x \in Ids \X (1 .. MaxInputs) : x[2] \in DOMAIN Way(x[1]) /\ Way(x[1])[x[2]] = n}

\* While the session lives and its terminal takes what is written, each input is on its way or in the terminal, once, though
\* the page is loaded again in between; and the terminal gets the inputs in order as
\* long as it is not.
InputKept ==
    Current /\ (\A i \in Ids : writer[i] # "broken") =>
        /\ \A n \in 1 .. typed : Cardinality(Places(n)) = 1
        /\ spawns <= 1 => \A k \in DOMAIN written : written[k] = k

=============================================================================
