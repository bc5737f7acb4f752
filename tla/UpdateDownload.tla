---------------------------- MODULE UpdateDownload ----------------------------
(***************************************************************************)
(* The desktop's download of an installer                                  *)
(* (src-tauri/src/update_download.rs): download_update_asset with its      *)
(* single-flight guard, the .part file and the rename, and                 *)
(* cancel_update_download.  Commands run concurrently on the runtime.  The *)
(* save dialog answers with the same target every time, and the content of *)
(* a file is the number of chunks written, Size of them for a whole        *)
(* installer.  The response may end early; that is noticed only if it says *)
(* how long it is.                                                         *)
(***************************************************************************)
EXTENDS Naturals

CONSTANTS
    Calls,    \* calls of download_update_asset
    Cancels,  \* calls of cancel_update_download
    Size      \* chunks of an installer

VARIABLES
    at,       \* call -> "new", "cleared", "dialog", "request", "writing",
              \*         "flushed", "saved", "refused", "cancelled", "failed"
    done,     \* call -> chunks it has received
    cancel,   \* UpdateDownloadState.cancel
    active,   \* UpdateDownloadState.active
    part,     \* chunks in the .part file, or NoFile
    target,   \* chunks in the target, or NoFile
    asks,     \* cancel -> "new", "yes" or "no" (its answer)
    owing,    \* calls cancelled while they ran
    sized     \* calls whose response has a Content-Length

vars == <<at, done, cancel, active, part, target, asks, owing, sized>>

NoFile == Size + 1          \* no file
Over == {"saved", "refused", "cancelled", "failed"}
Running == {c \in Calls : at[c] \in {"dialog", "request", "writing", "flushed"}}

\* The guard is dropped with the call.
Ends(c, how) == at' = [at EXCEPT ![c] = how] /\ active' = FALSE

-----------------------------------------------------------------------------
(* UpdateDownloadState::begin                                              *)

Clear(c) ==
    /\ at[c] = "new" /\ at' = [at EXCEPT ![c] = "cleared"]
    /\ cancel' = FALSE
    /\ UNCHANGED <<done, active, part, target, asks, owing, sized>>

Claim(c) ==
    /\ at[c] = "cleared"
    /\ at' = [at EXCEPT ![c] = IF active THEN "refused" ELSE "dialog"]
    /\ active' = TRUE
    /\ UNCHANGED <<done, cancel, part, target, asks, owing, sized>>

-----------------------------------------------------------------------------
(* download_update_asset                                                   *)

Choose(c) ==
    /\ at[c] = "dialog"
    /\ \/ at' = [at EXCEPT ![c] = "request"] /\ UNCHANGED active
       \/ Ends(c, "cancelled")
    /\ UNCHANGED <<done, cancel, part, target, asks, owing, sized>>

\* The response is there, with a length or without, and the .part file created; or one
\* of them fails.
Request(c) ==
    /\ at[c] = "request"
    /\ \/ /\ at' = [at EXCEPT ![c] = "writing"] /\ part' = 0
          /\ sized' \in {sized, sized \cup {c}} /\ UNCHANGED active
       \/ Ends(c, "failed") /\ UNCHANGED <<part, sized>>
    /\ UNCHANGED <<done, cancel, target, asks, owing>>

\* A chunk arrives, after which the flag is looked at; or it fails to arrive, or
\* to be written.
Receive(c) ==
    /\ at[c] = "writing"
    /\ \/ /\ ~cancel /\ done[c] < Size
          /\ done' = [done EXCEPT ![c] = @ + 1] /\ part' = part + 1
          /\ UNCHANGED <<at, active>>
       \/ /\ cancel /\ done[c] < Size
          /\ Ends(c, "cancelled") /\ part' = NoFile /\ UNCHANGED done
       \/ Ends(c, "failed") /\ part' = NoFile /\ UNCHANGED done
    /\ UNCHANGED <<cancel, target, asks, owing, sized>>

\* The response ends, early or not: a file shorter than the response said is removed.
Flush(c) ==
    /\ at[c] = "writing"
    /\ IF done[c] = Size \/ c \notin sized
         THEN at' = [at EXCEPT ![c] = "flushed"] /\ UNCHANGED <<active, part>>
         ELSE Ends(c, "failed") /\ part' = NoFile
    /\ UNCHANGED <<done, cancel, target, asks, owing, sized>>

\* The rename; when it fails the .part file stays.
Rename(c) ==
    /\ at[c] = "flushed"
    /\ \/ Ends(c, "saved") /\ target' = part /\ part' = NoFile
       \/ Ends(c, "failed") /\ UNCHANGED <<part, target>>
    /\ UNCHANGED <<done, cancel, asks, owing, sized>>

-----------------------------------------------------------------------------
\* cancel_update_download answers with the flag's old value.
Cancel(k) ==
    /\ asks[k] = "new"
    /\ asks' = [asks EXCEPT ![k] = IF cancel THEN "yes" ELSE "no"]
    /\ cancel' = TRUE
    /\ owing' = owing \cup {c \in Running : at[c] # "flushed" /\ done[c] < Size}
    /\ UNCHANGED <<at, done, active, part, target, sized>>

-----------------------------------------------------------------------------
Init ==
    /\ at = [c \in Calls |-> "new"] /\ done = [c \in Calls |-> 0]
    /\ cancel = FALSE /\ active = FALSE
    /\ part = NoFile /\ target = NoFile
    /\ asks = [k \in Cancels |-> "new"] /\ owing = {} /\ sized = {}

Next ==
    \/ \E c \in Calls : Clear(c) \/ Claim(c) \/ Choose(c) \/ Request(c)
                        \/ Receive(c) \/ Flush(c) \/ Rename(c)
    \/ \E k \in Cancels : Cancel(k)

Spec == Init /\ [][Next]_vars

-----------------------------------------------------------------------------
(* Properties                                                              *)

\* Steps, flags and files hold values of their types.
TypeOK ==
    /\ at \in [Calls -> Over \cup {"new", "cleared", "dialog", "request", "writing", "flushed"}]
    /\ done \in [Calls -> 0 .. Size]
    /\ cancel \in BOOLEAN /\ active \in BOOLEAN
    /\ part \in 0 .. NoFile /\ target \in 0 .. NoFile
    /\ asks \in [Cancels -> {"new", "yes", "no"}] /\ owing \subseteq Calls
    /\ sized \subseteq Calls

\* "A partial download is never mistaken for an installer": whatever calls,
\* cancels and errors meet, the target is absent or whole; or it is all that one
\* call received of a response that ended early and had not said how long it is.
TargetIsWhole ==
    \/ target \in {NoFile, Size}
    \/ \E c \in Calls \ sized : at[c] = "saved" /\ done[c] = target

\* The same without the exception, as the comment has it.
NeverPartial == target \in {NoFile, Size}

\* "The download command notices within one chunk ... and reports cancelled": a
\* call cancelled before its last chunk is not saved.
CancelledIsNotSaved == \A c \in owing : at[c] # "saved"
=============================================================================
