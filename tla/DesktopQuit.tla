----------------------------- MODULE DesktopQuit -----------------------------
(***************************************************************************)
(* Quitting the desktop program (src-tauri/src/shutdown.rs and the run     *)
(* loop of src-tauri/src/main.rs): a quit waits for the frontend to save,  *)
(* but not for long; then the snapshot is written, the sessions are        *)
(* terminated and the program exits.  The cleanup runs on the main thread  *)
(* (an answer of the frontend, or no window) or on a runtime thread (the   *)
(* deadline), beside the server that still creates sessions and the task   *)
(* that writes the snapshot after a quiet second.  A session and its tab   *)
(* are one.  A close signals that task again, and the next close or the    *)
(* exit comes within its second: it only fires on an older signal.         *)
(***************************************************************************)
EXTENDS Naturals, FiniteSets

CONSTANTS Requests, Sessions

VARIABLES
    phase,     \* QuitPhase: "idle", "awaiting", "finalizing"
    current,   \* the request that waits, {} for none
    window,    \* the main window exists
    emitted,   \* requests the frontend was told of
    timers,    \* requests whose deadline runs
    cleanup,   \* "none", "flush", "collect", "close", "exit" (next to do)
    onMain,    \* it runs on the main thread
    todo,      \* sessions it has still to close
    live,      \* sessions of the manager
    born,      \* sessions created so far
    file,      \* sessions in session.json
    writer,    \* snapshot task: "idle", "signalled", "fired", "built"
    built,     \* the snapshot it has built
    exit       \* "no", "asked" (app.exit or the last window gone), "gone"

quit   == <<phase, current, window, emitted, timers>>
clean  == <<cleanup, onMain, todo>>
store  == <<live, born, file, writer, built>>
vars   == <<quit, clean, store, exit>>

Here == exit # "gone"
MainFree == Here /\ ~(onMain /\ cleanup # "none")

-----------------------------------------------------------------------------
(* ShutdownCoordinator                                                     *)

\* finalize_if_current, and the start of cleanup_and_exit on this thread.
Finalize(main) ==
    /\ phase' = "finalizing" /\ current' = {}
    /\ cleanup' = "flush" /\ onMain' = main

\* request_quit: tray, window, or an ExitRequested that is prevented.  Only the
\* first counts.
RequestQuit(r) ==
    /\ MainFree /\ phase = "idle"
    /\ IF window
         THEN /\ phase' = "awaiting" /\ current' = {r}
              /\ emitted' = emitted \cup {r} /\ timers' = timers \cup {r}
              /\ UNCHANGED <<cleanup, onMain>>
         ELSE Finalize(TRUE) /\ UNCHANGED <<emitted, timers>>
    /\ UNCHANGED <<window, todo, store, exit>>

\* desktop_quit_ack, when the frontend has saved or failed to.
Ack(r) ==
    /\ MainFree /\ r \in emitted
    /\ emitted' = emitted \ {r}
    /\ IF r \in current THEN Finalize(TRUE)
       ELSE UNCHANGED <<phase, current, cleanup, onMain>>
    /\ UNCHANGED <<window, timers, todo, store, exit>>

Deadline(r) ==
    /\ Here /\ r \in timers
    /\ timers' = timers \ {r}
    /\ IF r \in current THEN Finalize(FALSE)
       ELSE UNCHANGED <<phase, current, cleanup, onMain>>
    /\ UNCHANGED <<window, emitted, todo, store, exit>>

Flush ==
    /\ Here /\ cleanup = "flush" /\ cleanup' = "collect"
    /\ file' = live
    /\ UNCHANGED <<quit, onMain, todo, live, born, writer, built, exit>>

Collect ==
    /\ Here /\ cleanup = "collect" /\ cleanup' = "close"
    /\ todo' = live
    /\ UNCHANGED <<quit, onMain, store, exit>>

CloseNext(s) ==
    /\ Here /\ cleanup = "close" /\ s \in todo
    /\ todo' = todo \ {s} /\ live' = live \ {s}
    /\ writer' = IF writer = "signalled" THEN "idle" ELSE writer
    /\ UNCHANGED <<quit, cleanup, onMain, born, file, built, exit>>

\* app.exit(0) asks the run loop; the cleanup of the loop's own Exit just ends.
Finish ==
    /\ Here /\ cleanup = "close" /\ todo = {}
    /\ cleanup' = "exit" /\ onMain' = FALSE
    /\ exit' = "asked"
    /\ UNCHANGED <<quit, todo, store>>

-----------------------------------------------------------------------------
(* The run loop                                                            *)

\* While it is finalizing, neither the window's close nor the exit that follows
\* the last window is prevented.
CloseWindow ==
    /\ MainFree /\ window /\ phase = "finalizing"
    /\ window' = FALSE /\ exit' = "asked"
    /\ UNCHANGED <<phase, current, emitted, timers, clean, store>>

\* RunEvent::Exit: force_cleanup finds the cleanup begun and returns.
Exit ==
    /\ MainFree /\ exit = "asked" /\ exit' = "gone"
    /\ UNCHANGED <<quit, clean, store>>

-----------------------------------------------------------------------------
(* The rest of the program                                                 *)

Create(s) ==
    /\ Here /\ s \notin born
    /\ live' = live \cup {s} /\ born' = born \cup {s}
    /\ writer' = IF writer = "idle" THEN "signalled" ELSE writer
    /\ UNCHANGED <<quit, clean, file, built, exit>>

Fire ==
    /\ Here /\ writer = "signalled" /\ writer' = "fired"
    /\ UNCHANGED <<quit, clean, live, born, file, built, exit>>

Build ==
    /\ Here /\ writer = "fired" /\ writer' = "built" /\ built' = live
    /\ UNCHANGED <<quit, clean, live, born, file, exit>>

Persist ==
    /\ Here /\ writer = "built" /\ writer' = "idle" /\ file' = built
    /\ UNCHANGED <<quit, clean, live, born, built, exit>>

-----------------------------------------------------------------------------
Init ==
    /\ phase = "idle" /\ current = {} /\ window \in BOOLEAN
    /\ emitted = {} /\ timers = {}
    /\ cleanup = "none" /\ onMain = FALSE /\ todo = {}
    /\ live = {} /\ born = {} /\ file = {} /\ writer = "idle" /\ built = {}
    /\ exit = "no"

Next ==
    \/ \E r \in Requests : RequestQuit(r) \/ Ack(r) \/ Deadline(r)
    \/ \E s \in Sessions : CloseNext(s) \/ Create(s)
    \/ Flush \/ Collect \/ Finish \/ CloseWindow \/ Exit \/ Fire \/ Build \/ Persist

\* The deadline expires, the cleanup goes on, and the loop takes its events; the
\* frontend need not answer.
Fairness ==
    /\ \A r \in Requests : WF_vars(Deadline(r))
    /\ \A s \in Sessions : WF_vars(CloseNext(s))
    /\ WF_vars(Flush) /\ WF_vars(Collect) /\ WF_vars(Finish) /\ WF_vars(Exit)

Spec == Init /\ [][Next]_vars /\ Fairness

-----------------------------------------------------------------------------
(* Properties                                                              *)

\* Phase, cleanup and sets hold values of their types.
TypeOK ==
    /\ phase \in {"idle", "awaiting", "finalizing"}
    /\ current \subseteq Requests /\ Cardinality(current) <= 1
    /\ emitted \subseteq Requests /\ timers \subseteq Requests
    /\ window \in BOOLEAN /\ onMain \in BOOLEAN
    /\ cleanup \in {"none", "flush", "collect", "close", "exit"}
    /\ todo \subseteq Sessions /\ live \subseteq born /\ born \subseteq Sessions
    /\ file \subseteq Sessions /\ built \subseteq Sessions
    /\ writer \in {"idle", "signalled", "fired", "built"}
    /\ exit \in {"no", "asked", "gone"}

\* A quit ends, whether the frontend answers, answers late or never does
\* (FRONTEND_DEADLINE; whoever comes first finalizes, the other finds it done).
Quit     == phase = "idle" \/ exit = "gone"
QuitEnds == []<>Quit

\* "Sync-flush the session snapshot before killing sessions so their cwd/layout
\* are captured": a session that the cleanup kills is in the file at the end.
KilledAreSaved == exit = "gone" => (born \ live) \subseteq file

=============================================================================
