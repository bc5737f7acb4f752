------------------------------ MODULE Templates ------------------------------
(***************************************************************************)
(* Layout templates (src/templates).  A template is a file; an index file  *)
(* next to it says which templates there are.  Saving and deleting change  *)
(* the file, read the index, and replace it, without a lock; each file is  *)
(* replaced as a whole, or not at all when the write fails.  A request     *)
(* that meets an index it cannot read replaces it by what is there.        *)
(* Applying a template spawns a shell for every terminal of its layout,    *)
(* then stores the layout as a new tab; if a shell cannot be spawned it    *)
(* kills those it has.                                                     *)
(*                                                                         *)
(* The module follows one scope, and one request that applies.  A template *)
(* stands as its id; the panes of its layout are terminals, all others     *)
(* only get a new id.  Template files can be read.                         *)
(***************************************************************************)
EXTENDS Naturals, FiniteSets

CONSTANTS
    Ids,        \* templates
    Saves, Deletes, \* requests that create or update, and that delete
    Lists,      \* requests that list, and find the index unreadable
    Terminals   \* panes of the layout that is applied

VARIABLES
    files,      \* ids whose file is there
    index,      \* [is, ids]: "there", "lost" or "corrupt"
    req,        \* request -> [pc, id, got]
    apply,      \* [pc, spawned]
    live,       \* terminals whose shell runs
    shown,      \* terminals in the tab
    overlap,    \* two requests were under way at once
    cut,        \* ids whose save came to its end between the file and the index, or
                \* that an index named that was lost
    early       \* a shell ended before its tab was there

storeVars == <<files, index, req, overlap, cut>>
applyVars == <<apply, live, shown, early>>
vars == <<storeVars, applyVars>>

Requests == Saves \cup Deletes \cup Lists
Busy(r) == req[r].pc \notin {"new", "done"}
Index(ids) == [is |-> "there", ids |-> ids]

-----------------------------------------------------------------------------
(* store.rs, handlers.rs                                                   *)

\* load_index: without an index there are no templates; one that cannot be read is
\* rebuilt from the files.
Known == CASE index.is = "there"   -> index.ids
           [] index.is = "lost"    -> {}
           [] index.is = "corrupt" -> files

Starts(r) == overlap' = (overlap \/ \E s \in Requests : Busy(s))

\* write_json_atomic of the index.
Write(ids) == index' = Index(ids) /\ cut' = cut \ ids

\* The file a request has written and not yet listed.
Own(r) == IF r \in Saves THEN {req[r].id} ELSE {}

\* create_template has a new id; update_template reads the file first.
BeginCreate(r) ==
    /\ req[r].pc = "new" /\ Starts(r)
    /\ \E id \in Ids \ (files \cup {req[s].id : s \in {t \in Requests : Busy(t)}}) :
         req' = [req EXCEPT ![r].pc = "file", ![r].id = id]
    /\ UNCHANGED <<files, index, cut, applyVars>>

BeginUpdate(r) ==
    /\ req[r].pc = "new" /\ Starts(r)
    /\ \E id \in files : req' = [req EXCEPT ![r].pc = "file", ![r].id = id]
    /\ UNCHANGED <<files, index, cut, applyVars>>

\* save: the file, then the index is read, changed and replaced.
WriteFile(r) ==
    /\ req[r].pc = "file"
    /\ \/ files' = files \cup {req[r].id} /\ req' = [req EXCEPT ![r].pc = "load"]
       \/ req' = [req EXCEPT ![r].pc = "done"] /\ UNCHANGED files
    /\ UNCHANGED <<index, overlap, cut, applyVars>>

\* delete: a template that is not there is not found, or it cannot be removed.
RemoveFile(d) ==
    /\ req[d].pc = "new" /\ Starts(d)
    /\ \/ \E id \in files :
            /\ files' = files \ {id}
            /\ req' = [req EXCEPT ![d].pc = "load", ![d].id = id]
       \/ req' = [req EXCEPT ![d].pc = "done"] /\ UNCHANGED files
    /\ UNCHANGED <<index, cut, applyVars>>

\* list reads the index; when it can, nothing changes.
BeginList(l) ==
    /\ req[l].pc = "new" /\ index.is = "corrupt" /\ Starts(l)
    /\ req' = [req EXCEPT ![l].pc = "rebuild", ![l].got = files]
    /\ UNCHANGED <<files, index, cut, applyVars>>

ReadIndex(r) ==
    /\ req[r].pc = "load"
    /\ req' = [req EXCEPT ![r].pc = IF index.is = "corrupt" THEN "rebuild" ELSE "save",
                          ![r].got = Known]
    /\ UNCHANGED <<files, index, overlap, cut, applyVars>>

\* rebuild_index: its write may fail, which nobody is told.
Rebuild(r) ==
    /\ req[r].pc = "rebuild"
    /\ Write(req[r].got) \/ UNCHANGED <<index, cut>>
    /\ req' = [req EXCEPT ![r].pc = IF r \in Lists THEN "done" ELSE "save"]
    /\ UNCHANGED <<files, overlap, applyVars>>

\* The template is put in or taken out, and the index replaced; or that fails, after
\* the file has changed.  A delete of what the index does not name leaves it alone.
SaveIndex(r) ==
    /\ req[r].pc = "save"
    /\ \/ r \in Saves /\ Write(req[r].got \cup {req[r].id})
       \/ r \in Deletes /\ req[r].id \in req[r].got /\ Write(req[r].got \ {req[r].id})
       \/ cut' = cut \cup (Own(r) \ Known) /\ UNCHANGED index
    /\ req' = [req EXCEPT ![r].pc = "done"]
    /\ UNCHANGED <<files, overlap, applyVars>>

\* The server stops and starts again; or the user's disk loses or damages the index.
Restart ==
    /\ cut' = cut \cup ({req[r].id : r \in {s \in Saves : req[s].pc \in {"load", "rebuild", "save"}}} \ Known)
    /\ req' = [r \in Requests |-> IF Busy(r) THEN [req[r] EXCEPT !.pc = "done"] ELSE req[r]]
    /\ UNCHANGED <<files, index, overlap, applyVars>>

Damage ==
    /\ index.is = "there"
    /\ \/ index' = [is |-> "lost", ids |-> {}] /\ cut' = cut \cup files
       \/ index' = [is |-> "corrupt", ids |-> {}] /\ UNCHANGED cut
    /\ UNCHANGED <<files, req, overlap, applyVars>>

\* list: what the index names, if its file is there.
Listed == Known \cap files

-----------------------------------------------------------------------------
(* apply.rs                                                                *)

\* prepare_layout_with_shell: a shell for the next terminal.
Spawn ==
    /\ apply.pc = "spawn" /\ apply.spawned # Terminals
    /\ \E t \in Terminals \ apply.spawned :
         /\ apply' = [apply EXCEPT !.spawned = @ \cup {t}]
         /\ live' = live \cup {t}
    /\ UNCHANGED <<storeVars, shown, early>>

\* A shell cannot be spawned: kill_and_remove for those that were.
GiveUp ==
    /\ apply.pc = "spawn" /\ apply.spawned # Terminals
    /\ apply' = [apply EXCEPT !.pc = "failed"]
    /\ live' = live \ apply.spawned
    /\ UNCHANGED <<storeVars, shown, early>>

\* insert_tab: the layout as it was prepared.
InsertTab ==
    /\ apply.pc = "spawn" /\ apply.spawned = Terminals
    /\ apply' = [apply EXCEPT !.pc = "done"]
    /\ shown' = Terminals
    /\ UNCHANGED <<storeVars, live, early>>

\* A shell ends: its session goes, and its pane leaves the layout if it is there.
ShellEnds(t) ==
    /\ t \in live
    /\ live' = live \ {t} /\ shown' = shown \ {t}
    /\ early' = (early \/ apply.pc = "spawn")
    /\ UNCHANGED <<storeVars, apply>>

Init ==
    /\ files \in SUBSET Ids /\ index = Index(files)
    /\ req = [r \in Requests |-> [pc |-> "new", id |-> CHOOSE i \in Ids : TRUE, got |-> {}]]
    /\ overlap = FALSE /\ cut = {}
    /\ apply = [pc |-> "spawn", spawned |-> {}]
    /\ live = {} /\ shown = {} /\ early = FALSE

Next ==
    \/ \E r \in Saves : BeginCreate(r) \/ BeginUpdate(r) \/ WriteFile(r)
    \/ \E d \in Deletes : RemoveFile(d)
    \/ \E l \in Lists : BeginList(l)
    \/ \E r \in Requests : ReadIndex(r) \/ Rebuild(r) \/ SaveIndex(r)
    \/ Restart \/ Damage
    \/ Spawn \/ GiveUp \/ InsertTab
    \/ \E t \in Terminals : ShellEnds(t)

Spec == Init /\ [][Next]_vars

-----------------------------------------------------------------------------
\* Files, index and requests have the values the code gives them.
TypeOK ==
    /\ files \cup index.ids \subseteq Ids
    /\ \A r \in Requests : req[r].pc \in {"new", "file", "load", "rebuild", "save", "done"}
    /\ live \subseteq apply.spawned /\ shown \subseteq Terminals

\* Between requests, unless two changed it at once, the list shows every template whose
\* file is there (save, delete, load_index), also after the index was damaged; but not one
\* whose last save failed or was cut short between its file and the index, nor, until it is
\* saved again or the index rebuilt, one of an index that was lost.
AllListed ==
    ~overlap /\ (\A r \in Requests : ~Busy(r)) => files \ Listed \subseteq cut

\* Applying is all or nothing (apply_template): a request that failed leaves no shell,
\* one that succeeded a tab of the shells that run, unless one of them had ended
\* before the tab was there.
AppliedWhole ==
    /\ apply.pc = "failed" => live = {}
    /\ apply.pc = "done" /\ ~early => shown = live

\* "Index files are rebuilt on demand if they go missing or fail to parse" (store.rs).
RebuiltIfMissing == index.is # "there" => Listed = files
==============================================================================
