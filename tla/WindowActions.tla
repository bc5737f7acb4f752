---------------------------- MODULE WindowActions ----------------------------
(***************************************************************************)
(* The main window of the desktop program (src-tauri/src/window_actions.rs *)
(* and tray): shown, hidden and, when the program was started in the       *)
(* background, created at the first request.  Requests come from the tray, *)
(* the shortcut, the dock and a second start of the program, in threads of *)
(* their own; a window is created by the main thread.                      *)
(***************************************************************************)
EXTENDS Naturals

CONSTANTS
    Callers,    \* the threads that requests come from
    MaxHides    \* bound: windows hidden and creations that failed

VARIABLES
    tray,       \* TrayCapability: "full", "showOnly" or "unavailable"
    window,     \* there is a main window
    visible,
    phase,      \* MainWindowPhase
    pc,         \* caller -> "idle", "looked", "begun", "hiding" or "revealing"
    jobs,       \* the creations that the main thread has yet to run
    owed,       \* the window was asked for, and neither hidden nor refused by the
                \* system since
    hides

vars == <<tray, window, visible, phase, pc, jobs, owed, hides>>

TypeOK ==
    /\ tray \in {"full", "showOnly", "unavailable"}
    /\ window \in BOOLEAN /\ visible \in BOOLEAN /\ owed \in BOOLEAN
    /\ phase \in {"absent", "creating", "ready"}
    /\ pc \in [Callers -> {"idle", "looked", "begun", "hiding", "revealing"}]
    /\ jobs \in Nat /\ hides \in 0 .. MaxHides

\* Interactive, or in the background, which needs a tray.
Init ==
    /\ tray \in {"full", "showOnly", "unavailable"}
    /\ \/ window = TRUE /\ phase = "ready"
       \/ window = FALSE /\ phase = "absent" /\ tray # "unavailable"
    /\ visible = window /\ owed = window
    /\ pc = [k \in Callers |-> "idle"] /\ jobs = 0 /\ hides = 0

Goes(k, stage) == pc' = [pc EXCEPT ![k] = stage]
Waived == hides < MaxHides /\ hides' = hides + 1 /\ owed' = FALSE

-----------------------------------------------------------------------------
(* request_main_window                                                     *)

Show == /\ phase' = "ready" /\ visible' = TRUE /\ owed' = TRUE
        /\ UNCHANGED <<tray, window, jobs, hides>>

Look(k) ==
    /\ pc[k] \in {"idle", "revealing"}
    /\ IF window THEN Show /\ Goes(k, "idle")
       ELSE /\ owed' = TRUE /\ Goes(k, "looked")
            /\ UNCHANGED <<tray, window, visible, phase, jobs, hides>>

\* begin_create: one creation at a time.
Begin(k) ==
    /\ pc[k] = "looked"
    /\ IF phase = "creating" THEN Goes(k, "idle") /\ UNCHANGED phase
       ELSE Goes(k, "begun") /\ phase' = "creating"
    /\ UNCHANGED <<tray, window, visible, jobs, owed, hides>>

Schedule(k) ==
    /\ pc[k] = "begun" /\ Goes(k, "idle")
    /\ \/ jobs' = jobs + 1 /\ UNCHANGED <<phase, owed, hides>>
       \/ phase' = "absent" /\ Waived /\ UNCHANGED jobs
    /\ UNCHANGED <<tray, window, visible>>

\* The main thread builds the window, unless there is one of that name already.
Create ==
    /\ jobs > 0 /\ jobs' = jobs - 1
    /\ \/ ~window /\ window' = TRUE /\ visible' = TRUE /\ phase' = "ready"
          /\ UNCHANGED <<owed, hides>>
       \/ ~window /\ phase' = "absent" /\ Waived /\ UNCHANGED <<window, visible>>
       \/ window /\ phase' = "absent" /\ UNCHANGED <<window, visible, owed, hides>>
    /\ UNCHANGED <<tray, pc>>

-----------------------------------------------------------------------------
(* toggle_main_window_checked and hide_main_window_checked                 *)

Toggle(k) ==
    /\ pc[k] = "idle" /\ window
    /\ Goes(k, IF visible THEN "hiding" ELSE "revealing")
    /\ UNCHANGED <<tray, window, visible, phase, jobs, owed, hides>>

\* The page may ask for it too.  Only a window that the tray can bring back.
Hide(k) ==
    /\ pc[k] \in {"idle", "hiding"} /\ window /\ Goes(k, "idle")
    /\ IF tray = "full" THEN Waived /\ visible' = FALSE
       ELSE UNCHANGED <<visible, owed, hides>>
    /\ UNCHANGED <<tray, window, phase, jobs>>

Next == Create \/ \E k \in Callers : \/ Look(k) \/ Begin(k) \/ Schedule(k)
                                     \/ Toggle(k) \/ Hide(k)

Spec == Init /\ [][Next]_vars

-----------------------------------------------------------------------------
(* Who asks for the window gets it, from his own creation or from the one    *)
(* that made the code refuse him: no state is reached in which creations     *)
(* are refused and none is under way.                                        *)
RequestsShow ==
    /\ owed => visible \/ jobs > 0 \/ \E k \in Callers : pc[k] \in {"looked", "begun"}
    /\ phase = "creating" => jobs > 0 \/ \E k \in Callers : pc[k] = "begun"
=============================================================================
