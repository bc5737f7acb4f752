---------------------------- MODULE InstalledFiles ----------------------------
(***************************************************************************)
(* Themes and language packs users install, each a file in a directory of  *)
(* the configuration (src/settings/themes.rs, locales.rs).  An install     *)
(* checks what was uploaded or fetched, writes it to a temporary file that *)
(* all installs of the same id share, and renames that.  No lock is held.  *)
(* A theme may also be a .conf file the user put there.                    *)
(*                                                                         *)
(* The module follows one id.  Files are inodes, one for each install that *)
(* had to create the temporary file; a descriptor keeps writing to its     *)
(* inode whatever its name is by then.  A document stands as the install   *)
(* it came with.                                                           *)
(***************************************************************************)
EXTENDS Naturals, FiniteSets

CONSTANTS Installs, Deletes, None, Torn, ByHand

VARIABLES
    kind,       \* "theme" or "pack"
    inode,      \* inode -> what it holds: an install, Torn
    json, tmp,  \* the inodes of the file and of the temporary file, or None
    conf,       \* ByHand or None: the .conf file of the theme
    job,        \* install -> [pc, fd]; delete -> [pc]
    installed,  \* the install that last reported success, None after a delete
    crossed,    \* two changes of this id were under way at once
    crashed     \* a restart has happened

diskVars == <<inode, json, tmp, conf>>
vars == <<kind, diskVars, job, installed, crossed, crashed>>

Jobs == Installs \cup Deletes
Busy(j) == job[j].pc \notin {"new", "done", "refused", "failed"}
Starts(j, pc) ==
    /\ job[j].pc = "new"
    /\ crossed' = (crossed \/ \E k \in Jobs : Busy(k))
    /\ job' = [job EXCEPT ![j].pc = pc]

Holds(name) == IF name = None THEN None ELSE inode[name]

-----------------------------------------------------------------------------
\* What an upload or a fetch has to be (sanitize_theme, sanitize_pack; fetch_registry,
\* is_offered, fetch_bytes, finish_fetch): listed and reachable when it is fetched, of
\* the digest the registry gives if it gives one, and well formed.
Routes == {"upload", "fetch"}
Documents == [reached : BOOLEAN, digest : {"none", "right", "wrong"}, valid : BOOLEAN]

Accepted(route, d) ==
    /\ route = "fetch" => d.reached /\ d.digest # "wrong"
    /\ d.valid

\* post_theme, install_registry_theme, post_locale, fetch_locale
Receive(i) ==
    \E route \in Routes, d \in Documents :
      IF Accepted(route, d)
        THEN Starts(i, "open") /\ UNCHANGED <<kind, diskVars, installed, crashed>>
        ELSE /\ job[i].pc = "new" /\ job' = [job EXCEPT ![i].pc = "refused"]
             /\ UNCHANGED <<kind, diskVars, installed, crossed, crashed>>

\* write_theme: fs::write opens the temporary file, empties it, and fills it.
Open(i) ==
    LET n == IF tmp = None THEN i ELSE tmp IN
    /\ job[i].pc = "open"
    /\ tmp' = n /\ inode' = [inode EXCEPT ![n] = Torn]
    /\ job' = [job EXCEPT ![i] = [pc |-> "write", fd |-> n]]
    /\ UNCHANGED <<kind, json, conf, installed, crossed, crashed>>

\* Another install may be writing to the same inode, and then it holds both.
Write(i) ==
    /\ job[i].pc = "write"
    /\ LET n == job[i].fd
           shared == \E k \in Installs \ {i} : job[k].fd = n /\ job[k].pc \in {"write", "rename"}
       IN \E held \in {i} \cup (IF shared THEN {Torn} ELSE {}) :
            inode' = [inode EXCEPT ![n] = held]
    /\ job' = [job EXCEPT ![i].pc = "rename"]
    /\ UNCHANGED <<kind, json, tmp, conf, installed, crossed, crashed>>

\* The disk is full: what was written stays in the temporary file.
WriteFails(i) ==
    /\ job[i].pc = "write"
    /\ job' = [job EXCEPT ![i].pc = "failed"]
    /\ UNCHANGED <<kind, diskVars, installed, crossed, crashed>>

\* Whatever the temporary file is by now becomes the file.
Rename(i) ==
    /\ job[i].pc = "rename"
    /\ IF tmp = None
         THEN /\ job' = [job EXCEPT ![i].pc = "failed"]
              /\ UNCHANGED <<json, tmp, installed>>
         ELSE /\ json' = tmp /\ tmp' = None /\ installed' = i
              /\ job' = [job EXCEPT ![i].pc = "done"]
    /\ UNCHANGED <<kind, inode, conf, crossed, crashed>>

\* delete_theme removes both files, one after the other; delete_locale the one.
RemoveJson(d) ==
    /\ Starts(d, "conf")
    /\ json' = None
    /\ UNCHANGED <<kind, inode, tmp, conf, installed, crashed>>

RemoveConf(d) ==
    /\ job[d].pc = "conf"
    /\ conf' = IF kind = "theme" THEN None ELSE conf
    /\ installed' = None
    /\ job' = [job EXCEPT ![d].pc = "done"]
    /\ UNCHANGED <<kind, inode, json, tmp, crossed, crashed>>

\* A restart: requests end where they are.
Restart ==
    /\ ~crashed /\ crashed' = TRUE
    /\ job' = [j \in Jobs |-> IF Busy(j) THEN [job[j] EXCEPT !.pc = "failed"] ELSE job[j]]
    /\ UNCHANGED <<kind, diskVars, installed, crossed>>

\* get_themes, get_locales: one file for an id, the .json first.
Listed == IF json # None THEN Holds(json) ELSE conf

Init ==
    /\ kind \in {"theme", "pack"}
    /\ inode = [n \in Installs |-> None] /\ json = None /\ tmp = None
    /\ conf \in (IF kind = "theme" THEN {None, ByHand} ELSE {None})
    /\ job = [j \in Jobs |-> [pc |-> "new", fd |-> None]]
    /\ installed = conf /\ crossed = FALSE /\ crashed = FALSE

Next ==
    \/ \E i \in Installs : Receive(i) \/ Open(i) \/ Write(i) \/ WriteFails(i) \/ Rename(i)
    \/ \E d \in Deletes : RemoveJson(d) \/ RemoveConf(d)
    \/ Restart

Spec == Init /\ [][Next]_vars

-----------------------------------------------------------------------------
\* Files and requests have the values the code gives them.
TypeOK ==
    /\ {json, tmp} \subseteq Installs \cup {None}
    /\ \A n \in Installs : inode[n] \in Installs \cup {None, Torn}
    /\ conf \in {None, ByHand}
    /\ json # None => json # tmp

\* A list shows what the last install or delete that reported success left, and
\* never part of a document, also after a crash or a full disk (write_theme,
\* install_pack): except while a delete is between its two files, or after two
\* changes of the same id were under way at once, or a delete was cut short.
ListsWhatWasInstalled ==
    /\ ~crossed
    /\ \A d \in Deletes : job[d].pc \notin {"conf", "failed"}
    => Listed = installed

\* "a reader never sees a half-written theme" (themes.rs, write_theme)
NeverHalfWritten == Listed # Torn
==============================================================================
