--------------------------- MODULE CommandTracking ---------------------------
(***************************************************************************)
(* How POST /api/sessions/:pane/run learns that its command has ended.     *)
(* The run marks the screen of the session as tracking a command, types    *)
(* the command, and every 50 ms asks the screen for results; the reader of *)
(* the session feeds the screen, which gets results from the OSC 133 marks *)
(* of the shell.  The reader of a local PTY takes the results away with    *)
(* every chunk it feeds; the reader of an SSH channel leaves them.         *)
(*                                                                         *)
(* Commands are numbers in the order they are typed, 0 is the start of the *)
(* shell.  An exit code, a duration and text stand as the command they     *)
(* come from.                                                              *)
(***************************************************************************)
EXTENDS Naturals, Sequences

CONSTANTS
    Runs,         \* requests to run a command
    MaxCommands   \* bound: commands typed, by runs and by the user

MaxCommandsAssumption == MaxCommands \in Nat

VARIABLES
    host,       \* "local" or "remote"
    marks,      \* whether the shell writes OSC 133 marks
    typed,      \* commands typed so far
    input,      \* those the shell has not read
    current,    \* the command that runs, <<>> at the prompt
    ended,      \* commands that have ended
    tracking,   \* command_state is CommandStart
    pending,    \* pending_command: <<the commands its output is from>>, or <<>>
    results,    \* command_results
    quiet,      \* 100 ms have passed since the last output
    prompt,     \* the cursor line is a prompt that detect_prompt knows
    run,        \* the requests
    alone       \* runs that had the prompt, and the shell for themselves since

shellVars  == <<typed, input, current, ended>>
screenVars == <<tracking, pending, results, quiet, prompt>>
vars == <<host, marks, shellVars, screenVars, run, alone>>

NoRun == [pc |-> "new", cmd |-> 0, of |-> 0, out |-> {}, method |-> "none"]

-----------------------------------------------------------------------------
(* The screen.                                                             *)

\* What a chunk adds to the results, before the reader drains them.
Result(c, method) == [of |-> c, method |-> method]

\* pty.rs: the reader of a PTY feeds and drains under one lock; ssh/mod.rs: the
\* reader of a channel only feeds.
Kept(rs) == IF host = "local" THEN <<>> ELSE rs

\* VirtualScreen::feed: output of the command c is collected first, the marks
\* change the state then.
Collected(c) ==
    IF tracking /\ pending # <<>> THEN <<pending[1] \cup {c}>> ELSE pending

FeedText(c) ==
    /\ pending' = Collected(c)
    /\ quiet' = FALSE /\ prompt' = FALSE
    /\ UNCHANGED <<tracking, results>>

\* dispatch_osc133 "B"
FeedStart(c) ==
    /\ results' = Kept(IF tracking /\ pending # <<>>
                         THEN Append(results, Result(c, "interrupted"))
                         ELSE results)
    /\ tracking' = TRUE /\ pending' = <<{}>>
    /\ quiet' = FALSE /\ prompt' = FALSE

\* dispatch_osc133 "A" and "D", and the prompt
FeedEnd(c) ==
    /\ results' = Kept(Append(results, Result(c, "shell_integration")))
    /\ tracking' = FALSE /\ pending' = <<>>
    /\ quiet' = FALSE /\ prompt' \in BOOLEAN

\* The prompt of a shell without marks
FeedPrompt(c) ==
    /\ pending' = Collected(c)
    /\ quiet' = FALSE /\ prompt' \in BOOLEAN
    /\ UNCHANGED <<tracking, results>>

Silence ==
    /\ ~quiet /\ quiet' = TRUE
    /\ UNCHANGED <<host, marks, shellVars, tracking, pending, results, prompt,
                   run, alone>>

-----------------------------------------------------------------------------
(* The shell: with marks it announces the end of a command before each     *)
(* prompt, and, when it is local, also the start.                          *)

StartCommand ==
    /\ current = <<>> /\ input # <<>>
    /\ current' = <<Head(input)>> /\ input' = Tail(input)
    /\ IF marks /\ host = "local" THEN FeedStart(Head(input))
                                  ELSE FeedText(Head(input))
    /\ UNCHANGED <<host, marks, typed, ended, run, alone>>

WriteOutput ==
    /\ current # <<>>
    /\ FeedText(current[1])
    /\ UNCHANGED <<host, marks, shellVars, run, alone>>

EndCommand ==
    /\ current # <<>>
    /\ current' = <<>> /\ ended' = ended \cup {current[1]}
    /\ IF marks THEN FeedEnd(current[1]) ELSE FeedPrompt(current[1])
    /\ UNCHANGED <<host, marks, typed, input, run, alone>>

\* The user, or POST .../send
Type ==
    /\ typed < MaxCommands
    /\ typed' = typed + 1 /\ input' = Append(input, typed + 1)
    /\ alone' = {}
    /\ UNCHANGED <<host, marks, current, ended, screenVars, run>>

-----------------------------------------------------------------------------
(* execute_command                                                         *)

\* begin_command_tracking
BeginTracking == tracking' = TRUE /\ pending' = <<{}>>

Begin(r) ==
    /\ run[r].pc = "new" /\ typed < MaxCommands
    /\ BeginTracking
    /\ typed' = typed + 1 /\ input' = Append(input, typed + 1)
    /\ run' = [run EXCEPT ![r].pc = "waiting", ![r].cmd = typed + 1]
    /\ alone' = IF /\ current = <<>> /\ input = <<>>
                   /\ \A q \in Runs : run[q].pc \in {"new", "answered"}
                  THEN {r} ELSE {}
    /\ UNCHANGED <<host, marks, current, ended, results, quiet, prompt>>

Answer(r, of, out, method) ==
    run' = [run EXCEPT ![r].pc = "answered", ![r].of = of, ![r].out = out,
                       ![r].method = method]

\* drain_command_results: the first one is the answer, the others are dropped.
Drain(r) ==
    /\ run[r].pc = "waiting" /\ results # <<>>
    /\ results' = <<>>
    /\ run' = [run EXCEPT ![r].pc = "drained", ![r].of = Head(results).of,
                          ![r].method = Head(results).method]
    /\ UNCHANGED <<host, marks, shellVars, tracking, pending, quiet, prompt,
                   alone>>

OutputOf(p) == IF p = <<>> THEN {} ELSE p[1]

\* take_command_output
TakeOutput(r) ==
    /\ run[r].pc = "drained"
    /\ Answer(r, run[r].of, OutputOf(pending), run[r].method)
    /\ pending' = IF pending = <<>> THEN <<>> ELSE <<{}>>
    /\ UNCHANGED <<host, marks, shellVars, tracking, results, quiet, prompt,
                   alone>>

\* should_check_prompt and detect_prompt, which drops the pending command before
\* its output is taken
DetectPrompt(r) ==
    /\ run[r].pc = "waiting" /\ results = <<>>
    /\ quiet /\ ~tracking /\ prompt
    /\ Answer(r, run[r].cmd, {}, "prompt_detection")
    /\ pending' = <<>>
    /\ UNCHANGED <<host, marks, shellVars, tracking, results, quiet, prompt,
                   alone>>

\* finish_command_tracking
TimeOut(r) ==
    /\ run[r].pc = "waiting"
    /\ Answer(r, run[r].cmd, OutputOf(pending), "timeout")
    /\ tracking' = FALSE /\ pending' = <<>>
    /\ UNCHANGED <<host, marks, shellVars, results, quiet, prompt, alone>>

\* The shell has been started: command 0 is on.
Init ==
    /\ host \in {"local", "remote"} /\ marks \in BOOLEAN
    /\ typed = 0 /\ input = <<>> /\ current = <<0>> /\ ended = {}
    /\ tracking = FALSE /\ pending = <<>> /\ results = <<>>
    /\ quiet = FALSE /\ prompt = FALSE
    /\ run = [r \in Runs |-> NoRun] /\ alone = {}

Next ==
    \/ StartCommand \/ WriteOutput \/ EndCommand \/ Type \/ Silence
    \/ \E r \in Runs : \/ Begin(r) \/ Drain(r) \/ TakeOutput(r)
                       \/ DetectPrompt(r) \/ TimeOut(r)

Spec == Init /\ [][Next]_vars

-----------------------------------------------------------------------------
(* Properties.                                                             *)

Commands == 0 .. MaxCommands
TypeOK ==
    /\ typed \in Commands /\ ended \subseteq Commands
    /\ \A i \in DOMAIN results :
         results[i] \in [of : Commands, method : {"shell_integration", "interrupted"}]
    /\ pending \in {<<>>} \cup {<<S>> : S \in SUBSET Commands}
    /\ \A r \in Runs : run[r].cmd \in Commands /\ run[r].out \subseteq Commands
    /\ host = "local" => results = <<>>

\* On a local shell that a run has for itself from a prompt on, the run is not
\* answered before its command has ended, unless it times out.
NotBeforeItsEnd ==
    \A r \in Runs :
      /\ host = "local" /\ r \in alone
      /\ run[r].pc = "answered" /\ run[r].method # "timeout"
      => run[r].cmd \in ended

\* An answer that names shell integration as its method is about the command of
\* the run.
AnswersForItsCommand ==
    \A r \in Runs :
      run[r].pc = "answered" /\ run[r].method = "shell_integration"
        => run[r].of = run[r].cmd

=============================================================================
