------------------------------- MODULE Autostart -------------------------------
(***************************************************************************)
(* Starting the desktop program at login (src-tauri/src/autostart.rs): an  *)
(* entry of the operating system names the program's file, and the         *)
(* settings page turns it on and off.  A call checks what is registered    *)
(* and whether this package may be registered, checks the package again,   *)
(* writes, and reads the entry back.  Meanwhile the user may edit or       *)
(* remove the entry, move the program's file, or start it from elsewhere.  *)
(*                                                                         *)
(* A path is one of Places; names of one file count as one place.          *)
(***************************************************************************)
EXTENDS Naturals, FiniteSets

CONSTANTS
    Calls,      \* calls of set_autostart
    Platforms,  \* the packages: Windows, MacOS, Deb, AppImage
    Windows, MacOS, Deb, AppImage,
    Places,     \* where the program may be installed
    Missing,    \* NativeRegistration::Missing, and no candidate
    Malformed,  \* an entry that this program has not written
    MaxChanges  \* bound: edits of the entry, moves and restarts

VARIABLES
    platform,   \* the package this program is
    place,      \* the path it was started from
    evidence,   \* what holds of that path and the environment, see Facts
    tray,       \* a tray icon can be shown
    entry,      \* what is registered: a place, Missing or Malformed
    lock,       \* AutostartController: the calls that hold it
    pc,         \* call -> "new", "check", "recheck", "write", "verify", "done"
    enabled,    \* call -> what it asks for
    trayThen,   \* call -> the tray capability it read
    target,     \* call -> the candidate it will register
    written,    \* call -> its operation succeeded
    inForce,    \* what the last call answered without an error, and nobody changed
                \* since: a set of at most one entry
    changes

world == <<platform, place, evidence, tray>>
call  == <<pc, enabled, trayThen, target, written>>
vars  == <<world, entry, lock, call, inForce, changes>>

\* The file is there; it is in an app bundle, or at the path of the Debian package;
\* its volume, and for a bundle its folder, are those of an installed program; the
\* home or configuration directory is known; the AppImage runtime is mounted.
Facts == {"file", "bundle", "installed", "home", "image"}

-----------------------------------------------------------------------------
(* What may be registered                                                  *)

\* capability() of each package: the path it would register, and whether it may.
\* On Windows the drive is fixed or removable, a macOS bundle is installed on a
\* writable volume, on Linux there is a directory for the entry, and a tray.
OnWindows ==
    [path |-> IF "file" \in evidence THEN place ELSE Missing,
     eligible |-> {"file", "installed"} \subseteq evidence]

OnMacOS ==
    [path |-> IF {"file", "bundle"} \subseteq evidence THEN place ELSE Missing,
     eligible |-> {"file", "bundle", "installed", "home"} \subseteq evidence]

AsDeb(t) ==
    [path |-> IF "bundle" \in evidence THEN place ELSE Missing,
     eligible |-> {"bundle", "file", "home"} \subseteq evidence /\ t]

AsAppImage(t) ==
    [path |-> IF {"file", "image"} \subseteq evidence THEN place ELSE Missing,
     eligible |-> {"file", "image", "home"} \subseteq evidence /\ t]

Capability(t) == CASE platform = Windows  -> OnWindows
                   [] platform = MacOS    -> OnMacOS
                   [] platform = Deb      -> AsDeb(t)
                   [] platform = AppImage -> AsAppImage(t)

\* backend(): the place of the entry depends on the home directory, not on Windows.
Reachable == platform = Windows \/ "home" \in evidence

\* status_from_capability: can_enable, can_disable.
CanEnable(t) == Reachable /\ entry # Malformed /\ Capability(t).eligible
CanDisable   == Reachable /\ entry \in Places

-----------------------------------------------------------------------------
(* set_autostart                                                           *)

Answered(c, force) == /\ pc' = [pc EXCEPT ![c] = "done"] /\ lock' = lock \ {c}
                      /\ inForce' = force
                      /\ UNCHANGED <<world, entry, enabled, trayThen, target, written, changes>>

Take(c) ==
    /\ pc[c] = "new" /\ lock = {} /\ lock' = {c}
    /\ pc' = [pc EXCEPT ![c] = "check"] /\ trayThen' = [trayThen EXCEPT ![c] = tray]
    /\ UNCHANGED <<world, entry, enabled, target, written, inForce, changes>>

Check(c) ==
    /\ pc[c] = "check"
    /\ IF IF enabled[c] THEN CanEnable(trayThen[c]) ELSE CanDisable
       THEN /\ pc' = [pc EXCEPT ![c] = "recheck"]
            /\ UNCHANGED <<world, entry, lock, enabled, trayThen, target, written, inForce, changes>>
       ELSE Answered(c, inForce)

\* The package is looked at again right before writing.
Recheck(c) ==
    /\ pc[c] = "recheck"
    /\ IF enabled[c] /\ ~Capability(trayThen[c]).eligible THEN Answered(c, inForce)
       ELSE /\ pc' = [pc EXCEPT ![c] = "write"] /\ target' = [target EXCEPT ![c] = Capability(trayThen[c]).path]
            /\ UNCHANGED <<world, entry, lock, enabled, trayThen, written, inForce, changes>>

\* enable() renames a finished file over the entry, or sets the value; disable()
\* removes it, and fails when there is none.
Enable(c)  == enabled[c] /\ target[c] # Missing /\ entry' = target[c]
Disable(c) == ~enabled[c] /\ entry # Missing /\ entry' = Missing

\* Either may fail and change nothing.
Write(c) ==
    /\ pc[c] = "write" /\ pc' = [pc EXCEPT ![c] = "verify"]
    /\ \/ (Enable(c) \/ Disable(c)) /\ written' = [written EXCEPT ![c] = TRUE]
       \/ UNCHANGED <<entry, written>>
    /\ inForce' = IF entry' = entry THEN inForce ELSE {}
    /\ UNCHANGED <<world, lock, enabled, trayThen, target, changes>>

\* OnCurrent: there is a candidate, and the entry names it; or Off.
AsAsked(c) == IF enabled[c] THEN entry # Missing /\ entry = Capability(trayThen[c]).path
              ELSE entry = Missing

\* The entry is read back; only if it is what was asked for there is no error.
Verify(c) ==
    /\ pc[c] = "verify"
    /\ Answered(c, IF written[c] /\ Reachable /\ AsAsked(c)
                   THEN {IF enabled[c] THEN place ELSE Missing} ELSE inForce)

-----------------------------------------------------------------------------
(* The user                                                                *)

Changed == changes < MaxChanges /\ changes' = changes + 1

\* The entry is edited or removed by hand, by another tool or another version.
EditEntry(e) ==
    /\ Changed /\ e # entry /\ entry' = e /\ inForce' = {}
    /\ UNCHANGED <<world, lock, call>>

\* The program's file is moved away; the path it was started from stays the same.
MoveFile ==
    /\ Changed /\ "file" \in evidence /\ evidence' = evidence \ {"file"}
    /\ UNCHANGED <<platform, place, tray, entry, lock, call, inForce>>

ChangeTray ==
    /\ Changed /\ tray' = ~tray
    /\ UNCHANGED <<platform, place, evidence, entry, lock, call, inForce>>

\* The program ends, in the middle of calls or not, and is started elsewhere.
Restart(p) ==
    /\ Changed /\ place' = p /\ \E f \in SUBSET Facts : "file" \in f /\ evidence' = f
    /\ lock' = {} /\ pc' = [c \in Calls |-> IF c \in lock THEN "done" ELSE pc[c]]
    /\ UNCHANGED <<platform, tray, entry, enabled, trayThen, target, written, inForce>>

-----------------------------------------------------------------------------
Init ==
    /\ platform \in Platforms /\ place \in Places
    /\ evidence \in {f \in SUBSET Facts : "file" \in f}
    /\ tray \in BOOLEAN /\ entry \in Places \cup {Missing, Malformed}
    /\ lock = {} /\ pc = [c \in Calls |-> "new"] /\ enabled \in [Calls -> BOOLEAN]
    /\ trayThen = [c \in Calls |-> FALSE] /\ target = [c \in Calls |-> Missing]
    /\ written = [c \in Calls |-> FALSE] /\ inForce = {} /\ changes = 0

Next ==
    \/ \E c \in Calls : Take(c) \/ Check(c) \/ Recheck(c) \/ Write(c) \/ Verify(c)
    \/ \E e \in Places \cup {Missing, Malformed} : EditEntry(e)
    \/ MoveFile \/ ChangeTray \/ \E p \in Places : Restart(p)

Spec == Init /\ [][Next]_vars

-----------------------------------------------------------------------------
(* Properties                                                              *)

\* The entry, the evidence and the calls hold values of their types.
TypeOK ==
    /\ platform \in Platforms /\ place \in Places /\ evidence \subseteq Facts
    /\ tray \in BOOLEAN /\ entry \in Places \cup {Missing, Malformed}
    /\ lock \subseteq Calls /\ target \in [Calls -> Places \cup {Missing}]
    /\ inForce \subseteq Places \cup {Missing}

\* An answer without an error holds: until somebody changes the entry, it names the
\* program that was asked to start at login, or nothing is registered.
AnswersHold == inForce \subseteq {entry}
=============================================================================
