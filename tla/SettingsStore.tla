---------------------------- MODULE SettingsStore ----------------------------
(***************************************************************************)
(* The settings and the list of workspaces: each an object in memory       *)
(* behind a read-write lock, and a file (src/settings, src/workspace_mgmt).*)
(* Small changes are made and saved under the write lock.  A PUT of all    *)
(* the settings, or of the roster of remote servers, builds the new object *)
(* from a copy it read, saves that, and only then takes the write lock to  *)
(* put it in place.  Deleting a workspace saves the list after its lock is *)
(* released, and then looks at the settings.                               *)
(*                                                                         *)
(* What a client writes stands as the request that wrote it.               *)
(***************************************************************************)
EXTENDS Naturals, FiniteSets, SequencesExt

CONSTANTS
    Requests,
    OldClients,   \* those of clients that do not know the newer fields
    Workspaces,   \* ids
    Paths, Conns, \* where a workspace is: a path, here or on a connection
    None

PathsAssumption == Cardinality(Paths) <= Cardinality(Workspaces)

VARIABLES
    mem,       \* Settings: [prefs, keys, active, server]
    file,      \* settings.json: the same, None when torn
    list,      \* the workspaces: sequence of [id, path, conn, order]
    listFile,  \* workspaces.json, None when torn
    req,       \* request -> [pc, copy, id]
    last,      \* the workspace last activated, as its client knows it
    overlap,   \* a PUT was overtaken by another change of the settings
    unsaved,   \* the last change of the settings could not be saved
    unlisted   \* ... of the list, or an update was refused halfway

settingsVars == <<mem, file, last, overlap, unsaved>>
listVars     == <<list, listFile, unlisted>>
vars == <<settingsVars, listVars, req>>

Default == [prefs |-> None, keys |-> None, active |-> None, server |-> None]
Server(token, seen) == [token |-> token, seen |-> seen]

New(h)   == req[h].pc = "new"
Done(h)  == req' = [req EXCEPT ![h].pc = "done"]
InPut(h) == req[h].pc \in {"save", "write"}
Overtaking(h) == overlap \/ \E g \in Requests \ {h} : InPut(g)

-----------------------------------------------------------------------------
(* PUT /api/settings, PUT /api/remote-servers                              *)

\* inherit_remote_server_tokens: an entry without a token keeps the one it had.
Inherited(sent, old) ==
    IF sent = None THEN None
    ELSE IF sent.token # "kept" THEN sent
    ELSE [sent EXCEPT !.token = IF old = None THEN None ELSE old.token]

SentServers(h) == {None, Server("kept", FALSE), Server(h, FALSE)}

\* preserve_current_settings_on_legacy_put and what follows it
Merged(h, sent) ==
    [prefs |-> h, keys |-> IF h \in OldClients THEN mem.keys ELSE h,
     active |-> mem.active, server |-> Inherited(sent, mem.server)]

PutSettings(h) ==
    /\ New(h)
    /\ \E sent \in SentServers(h) :
         req' = [req EXCEPT ![h].pc = "save", ![h].copy = Merged(h, sent)]
    /\ UNCHANGED <<settingsVars, listVars>>

PutRemoteServers(h) ==
    /\ New(h)
    /\ \E sent \in SentServers(h) :
         req' = [req EXCEPT ![h].pc = "save",
                   ![h].copy = [mem EXCEPT !.server = Inherited(sent, @)]]
    /\ UNCHANGED <<settingsVars, listVars>>

SaveCopy(h) ==
    /\ req[h].pc = "save"
    /\ \/ /\ file' = req[h].copy
          /\ req' = [req EXCEPT ![h].pc = "write"]
          /\ overlap' = Overtaking(h)
       \/ Done(h) /\ UNCHANGED <<file, overlap>>
    /\ UNCHANGED <<mem, last, unsaved, listVars>>

StoreCopy(h) ==
    /\ req[h].pc = "write"
    /\ mem' = req[h].copy /\ unsaved' = FALSE
    /\ overlap' = Overtaking(h)
    /\ Done(h)
    /\ UNCHANGED <<file, last, listVars>>

-----------------------------------------------------------------------------
(* Changes under the write lock: made in memory, and saved if that succeeds *)

ChangeSettings(h, new) ==
    /\ mem' = new /\ overlap' = Overtaking(h)
    /\ \/ file' = new /\ unsaved' = FALSE
       \/ file' = file /\ unsaved' = TRUE

Activate(h) ==
    /\ New(h) /\ Done(h)
    /\ \E w \in Workspaces \cup {None} :
         ChangeSettings(h, [mem EXCEPT !.active = w]) /\ last' = w
    /\ UNCHANGED listVars

\* remember_version, at the end of a probe
RememberVersion(h) ==
    /\ New(h) /\ Done(h)
    /\ mem.server # None /\ ~mem.server.seen
    /\ ChangeSettings(h, [mem EXCEPT !.server.seen = TRUE])
    /\ UNCHANGED <<last, listVars>>

UploadBackground(h) ==
    /\ New(h) /\ Done(h)
    /\ ChangeSettings(h, [mem EXCEPT !.prefs = h])
    /\ UNCHANGED <<last, listVars>>

-----------------------------------------------------------------------------
(* The list of workspaces.                                                 *)

Ids == {list[i].id : i \in DOMAIN list}
Taken(path, conn, others) ==
    \E i \in others : list[i].path = path /\ list[i].conn = conn

SaveList(new) ==
    \/ listFile' = new /\ unlisted' = FALSE
    \/ listFile' = listFile /\ unlisted' = TRUE

CreateWorkspace(h) ==
    /\ New(h) /\ Done(h)
    /\ \E w \in Workspaces \ Ids, path \in Paths, conn \in Conns \cup {None} :
         /\ ~Taken(path, conn, DOMAIN list)
         /\ list' = Append(list, [id |-> w, path |-> path, conn |-> conn,
                                  order |-> Len(list)])
         /\ SaveList(list')
    /\ UNCHANGED settingsVars

\* The connection is set before the path is looked at, and stays set, in memory,
\* when the path is refused.  A local path is compared with those of all others.
UpdateWorkspace(h) ==
    /\ New(h) /\ Done(h)
    /\ \E i \in DOMAIN list, path \in Paths \cup {None}, conn \in Conns \cup {None} :
         LET connected == IF conn = None THEN list
                          ELSE [list EXCEPT ![i].conn = conn]
             others    == DOMAIN list \ {i}
             refused   == /\ path # None
                          /\ IF connected[i].conn = None
                               THEN \E j \in others : list[j].path = path
                               ELSE Taken(path, connected[i].conn, others)
         IN IF refused
              THEN /\ list' = connected /\ listFile' = listFile
                   /\ unlisted' = (unlisted \/ connected # list)
              ELSE /\ list' = IF path = None THEN connected
                              ELSE [connected EXCEPT ![i].path = path]
                   /\ SaveList(list')
    /\ UNCHANGED settingsVars

\* The positions sent, then a stable sort; who is not mentioned keeps its order.
Sorted(s) ==
    LET Rank(i) == Cardinality({j \in DOMAIN s :
                     \/ s[j].order < s[i].order
                     \/ s[j].order = s[i].order /\ j <= i})
    IN [r \in DOMAIN s |-> s[CHOOSE i \in DOMAIN s : Rank(i) = r]]

ReorderWorkspaces(h) ==
    /\ New(h) /\ Done(h)
    /\ \E n \in 1 .. Len(list) : \E ids \in [1 .. n -> Ids] :
         LET Place(w) == CHOOSE k \in 1 .. n : /\ ids[k] = w
                                               /\ \A l \in k + 1 .. n : ids[l] # w
             moved == [i \in DOMAIN list |->
                         IF \E k \in 1 .. n : ids[k] = list[i].id
                           THEN [list[i] EXCEPT !.order = Place(list[i].id) - 1]
                           ELSE list[i]]
         IN list' = Sorted(moved) /\ SaveList(list')
    /\ UNCHANGED settingsVars

DeleteWorkspace(h) ==
    /\ New(h)
    /\ \E i \in DOMAIN list :
         LET rest == [k \in 1 .. Len(list) - 1 |->
                        [list[IF k < i THEN k ELSE k + 1] EXCEPT !.order = k - 1]]
         IN /\ list' = rest
            /\ req' = [req EXCEPT ![h] = [pc |-> "savelist", copy |-> rest,
                                          id |-> list[i].id]]
    /\ UNCHANGED <<settingsVars, listFile, unlisted>>

\* Mutant: the list as it was when the lock was released
SaveRestStale(h) ==
    /\ req[h].pc = "savelist"
    /\ SaveList(req[h].copy)
    /\ req' = [req EXCEPT ![h].pc = "clear"]
    /\ UNCHANGED <<settingsVars, list>>

SaveRest(h) ==
    /\ req[h].pc = "savelist"
    /\ SaveList(list)
    /\ req' = [req EXCEPT ![h].pc = "clear"]
    /\ UNCHANGED <<settingsVars, list>>

ClearActive(h) ==
    /\ req[h].pc = "clear" /\ Done(h)
    /\ IF mem.active = req[h].id
         THEN ChangeSettings(h, [mem EXCEPT !.active = None]) /\ last' = None
         ELSE UNCHANGED settingsVars
    /\ UNCHANGED listVars

-----------------------------------------------------------------------------
\* The server stops, perhaps while it writes a file, and starts again: a file that
\* cannot be read counts as the default, or as empty.
Restart ==
    /\ \E f \in {file} \cup {None : h \in {g \in Requests : req[g].pc = "save"}} :
         /\ file' = f
         /\ mem' = IF f = None THEN Default ELSE f
         /\ unsaved' = (f = None)
         /\ last' = mem'.active
    /\ \E f \in {listFile} \cup {None : h \in {g \in Requests : req[g].pc = "savelist"}} :
         /\ listFile' = f
         /\ list' = IF f = None THEN <<>> ELSE f
         /\ unlisted' = (f = None)
    /\ overlap' = FALSE
    /\ \E h \in Requests : ~New(h)
    /\ req' = [h \in Requests |-> [req[h] EXCEPT !.pc = IF New(h) THEN "new" ELSE "done"]]

\* What the files hold at the start: perhaps a server, and a workspace or more.
Init ==
    /\ mem \in {Default, [Default EXCEPT !.server = Server(None, FALSE)]}
    /\ file = mem /\ last = None
    /\ overlap = FALSE /\ unsaved = FALSE
    /\ list \in {[i \in 1 .. n |-> [id |-> SetToSeq(Workspaces)[i],
                                   path |-> SetToSeq(Paths)[i],
                                   conn |-> None, order |-> i - 1]]
                 : n \in 0 .. Cardinality(Paths)}
    /\ listFile = list /\ unlisted = FALSE
    /\ req = [h \in Requests |-> [pc |-> "new", copy |-> None, id |-> None]]

SettingsStep(h) ==
    \/ PutSettings(h) \/ PutRemoteServers(h) \/ SaveCopy(h) \/ StoreCopy(h)
    \/ Activate(h) \/ RememberVersion(h) \/ UploadBackground(h)

ListStep(h) ==
    \/ CreateWorkspace(h) \/ UpdateWorkspace(h) \/ ReorderWorkspaces(h)
    \/ DeleteWorkspace(h) \/ SaveRest(h) \/ ClearActive(h)

Next ==
    \/ \E h \in Requests : SettingsStep(h) \/ ListStep(h)
    \/ Restart

Spec == Init /\ [][Next]_vars

-----------------------------------------------------------------------------
(* Properties.                                                             *)

Writers  == Requests \cup {None}
Settings == [prefs : Writers, keys : Writers, active : Workspaces \cup {None},
             server : {None} \cup [token : Writers, seen : BOOLEAN]]
TypeOK ==
    /\ mem \in Settings /\ file \in Settings \cup {None}
    /\ \A i \in DOMAIN list :
         list[i] \in [id : Workspaces, path : Paths, conn : Conns \cup {None},
                      order : Nat]

\* As long as no PUT is overtaken, the file holds what memory holds once each
\* change is through, and no PUT moves the active workspace.
SettingsSaved ==
    ~overlap /\ (\A h \in Requests : ~InPut(h))
      => /\ unsaved \/ mem = file
         /\ mem.active = last

\* Whatever overlaps, the file holds the list once no delete is on its way (unless
\* saving failed, or an update was refused halfway); the list is in order, and an
\* id is in it once.
WorkspacesSaved ==
    /\ (\A h \in Requests : req[h].pc # "savelist") => unlisted \/ list = listFile
    /\ \A i, j \in DOMAIN list :
         i < j => list[i].order <= list[j].order /\ list[i].id # list[j].id

\* "so this endpoint cannot clobber server-owned fields such as
\* `active_workspace_id`": the active workspace is the one last activated.
ActiveIsLastActivated == mem.active = last

=============================================================================
