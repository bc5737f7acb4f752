----------------------------- MODULE ShellProbe -----------------------------
(***************************************************************************)
(* The probe for WSL distributions on Windows (platform/shell_probe.rs):   *)
(* whoever asks while a probe is under way waits for its result, the first *)
(* one to ask starts it; the task of the probe publishes the result, and   *)
(* takes its entry out of the slot afterwards.                             *)
(*                                                                         *)
(* The machine is reduced to the set of its distributions.                 *)
(***************************************************************************)
EXTENDS Naturals

CONSTANTS
    Distros,
    Requests,      \* each lists the shells, or resolves one distribution
    MaxProbes,     \* bound: probes
    None

VARIABLES
    installed,  \* the machine: distributions
    next,       \* next_probe_id
    slot,       \* in_flight: the number of a probe, or None
    probe,      \* number -> [pc, result], and what has been installed since it began
    ask         \* request -> [pc, probe, distro, answer], and the probes that were over

vars == <<installed, next, slot, probe, ask>>

Probes  == 0 .. MaxProbes - 1
Running == {n \in Probes : probe[n].pc \in {"help", "list"}}

Listing(ds)     == [is |-> "available", distros |-> ds]
Failing(reason) == [is |-> reason, distros |-> {}]

-----------------------------------------------------------------------------
(* The machine: distributions come and go.                                 *)

Install(d) ==
    /\ d \notin installed
    /\ installed' = installed \cup {d}
    /\ probe' = [n \in Probes |-> IF n \in Running
                                    THEN [probe[n] EXCEPT !.had = @ \cup {d}] ELSE probe[n]]
    /\ UNCHANGED <<next, slot, ask>>

Remove(d) ==
    /\ d \in installed
    /\ installed' = installed \ {d}
    /\ UNCHANGED <<next, slot, probe, ask>>

-----------------------------------------------------------------------------
(* probe_wsl                                                               *)

Waits(r, n, d) ==
    ask' = [ask EXCEPT ![r] = [pc |-> "waiting", probe |-> n, distro |-> d,
              over |-> {m \in Probes : probe[m].pc \in {"sent", "over"}},
              answer |-> None]]

\* The entry of a probe without a result.
Joins(n) == IF n = None THEN FALSE ELSE n \in Running

Ask(r, d) ==
    /\ ask[r].pc \in {"new", "answered"}
    /\ IF Joins(slot)
         THEN Waits(r, slot, d) /\ UNCHANGED <<next, slot, probe>>
         ELSE /\ next < MaxProbes
              /\ next' = next + 1 /\ slot' = next
              /\ probe' = [probe EXCEPT ![next].pc = "help", ![next].had = installed]
              /\ Waits(r, next, d)
    /\ UNCHANGED installed

Send(n, result) == probe' = [probe EXCEPT ![n].pc = "sent", ![n].result = result]

\* run_wsl_probe: no launcher, no answer to --help in time, or one without what is
\* needed.
NoHelp(n) ==
    /\ probe[n].pc = "help"
    /\ \E why \in {"unavailable", "unknown"} : Send(n, Failing(why))
    /\ UNCHANGED <<installed, next, slot, ask>>

Help(n) ==
    /\ probe[n].pc = "help"
    /\ probe' = [probe EXCEPT ![n].pc = "list"]
    /\ UNCHANGED <<installed, next, slot, ask>>

\* --list fails, or is late; an empty one is a machine without WSL.
List(n) ==
    /\ probe[n].pc = "list"
    /\ \/ Send(n, Failing("unknown"))
       \/ Send(n, IF installed = {} THEN Failing("unavailable") ELSE Listing(installed))
    /\ UNCHANGED <<installed, next, slot, ask>>

\* The task takes out its own entry only.
Emptied(n) == IF slot = n THEN None ELSE slot

Clear(n) ==
    /\ probe[n].pc = "sent"
    /\ probe' = [probe EXCEPT ![n].pc = "over"]
    /\ slot' = Emptied(n)
    /\ UNCHANGED <<installed, next, ask>>

\* resolve: a distribution that is asked for has to be listed.
Answer(r, result) ==
    IF result.is # "available" THEN result.is
    ELSE IF ask[r].distro # None /\ ask[r].distro \notin result.distros THEN "missing"
    ELSE "ok"

Receive(r) ==
    /\ ask[r].pc = "waiting" /\ probe[ask[r].probe].pc \in {"sent", "over"}
    /\ ask' = [ask EXCEPT ![r].pc = "answered",
                          ![r].answer = Answer(r, probe[ask[r].probe].result)]
    /\ UNCHANGED <<installed, next, slot, probe>>

Init ==
    /\ installed \in SUBSET Distros
    /\ next = 0 /\ slot = None
    /\ probe = [n \in Probes |-> [pc |-> "none", result |-> None, had |-> {}]]
    /\ ask = [r \in Requests |-> [pc |-> "new", probe |-> None, distro |-> None,
                                  over |-> {}, answer |-> None]]

Next ==
    \/ \E d \in Distros : Install(d) \/ Remove(d)
    \/ \E r \in Requests, d \in Distros \cup {None} : Ask(r, d)
    \/ \E n \in Probes : NoHelp(n) \/ Help(n) \/ List(n) \/ Clear(n)
    \/ \E r \in Requests : Receive(r)

Spec == Init /\ [][Next]_vars

-----------------------------------------------------------------------------
\* The slot, the probes and the requests have the values the code gives them.
TypeOK ==
    /\ slot # None => slot < next
    /\ \A n \in Probes : /\ n >= next => probe[n].pc = "none"
                         /\ probe[n].pc \in {"sent", "over"} => probe[n].result # None
    /\ \A r \in Requests : ask[r].pc # "new" => ask[r].probe < next

\* Requests share a probe (probe_wsl): two are never under way at once, although an
\* entry outlives its result, and the task of an old probe may come to take out its
\* entry when the slot holds the next one.
OneProbe == \A m, n \in Running : m = n

\* Nobody is told what a probe found that had ended before they asked; a distribution
\* that is confirmed has been there since that probe began (resolve).
ProbedSinceAsked ==
    \A r \in Requests :
      /\ ask[r].pc # "new" => ask[r].probe \notin ask[r].over
      /\ ask[r].answer = "ok" /\ ask[r].distro # None => ask[r].distro \in probe[ask[r].probe].had
=============================================================================
