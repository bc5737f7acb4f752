------------------------------ MODULE TokenStore ------------------------------
(***************************************************************************)
(* The agent tokens (src/token.rs): a map in memory, the hashes of revoked *)
(* tokens beside it, and tokens.json.  Each change is made in the map and  *)
(* then saved; saving walks through the map entry by entry and writes the  *)
(* file, and nothing keeps two of them apart.  Time takes tokens away      *)
(* without a save.  Names, capabilities and scopes of a token stand as the *)
(* request that wrote them.                                                *)
(***************************************************************************)
EXTENDS FiniteSets

CONSTANTS
    Requests, Tokens,
    Expiring,    \* tokens with an expires_at
    None

VARIABLES
    tokens,     \* Tokens -> the last request that wrote it, or None
    revoked,    \* tokens whose hash is in `revoked`
    expired,    \* tokens whose time has come
    file,       \* tokens.json: like tokens
    req,        \* request -> [pc, of, left: entries not collected, got]
    overlap,    \* a save met another change
    unsaved     \* a save has failed

vars == <<tokens, revoked, expired, file, req, overlap, unsaved>>

Saving(r) == req[r].pc \in {"collect", "write"}
Others(r) == \E q \in Requests \ {r} : Saving(q)
Nothing   == [t \in Tokens |-> None]

\* The change is in the map, the save begins.
ToSave(r, t) ==
    /\ req' = [req EXCEPT ![r] = [pc |-> "collect", of |-> t,
                                  left |-> Tokens, got |-> Nothing]]
    /\ overlap' = (overlap \/ Others(r))

Create(r, t) ==
    /\ req[r].pc = "new"
    /\ tokens[t] = None /\ t \notin revoked /\ \A q \in Requests : req[q].of # t
    /\ file[t] = None
    /\ tokens' = [tokens EXCEPT ![t] = r]
    /\ ToSave(r, t)
    /\ UNCHANGED <<revoked, expired, file, unsaved>>

Update(r, t) ==
    /\ req[r].pc = "new" /\ tokens[t] # None
    /\ tokens' = [tokens EXCEPT ![t] = r]
    /\ ToSave(r, t)
    /\ UNCHANGED <<revoked, expired, file, unsaved>>

Revoke(r, t) ==
    /\ req[r].pc = "new" /\ tokens[t] # None
    /\ tokens' = [tokens EXCEPT ![t] = None] /\ revoked' = revoked \cup {t}
    /\ ToSave(r, t)
    /\ UNCHANGED <<expired, file, unsaved>>

\* save
Collect(r) ==
    /\ req[r].pc = "collect"
    /\ \E t \in req[r].left :
         req' = [req EXCEPT ![r].got[t] = tokens[t], ![r].left = @ \ {t},
                            ![r].pc = IF req[r].left = {t} THEN "write" ELSE "collect"]
    /\ UNCHANGED <<tokens, revoked, expired, file, overlap, unsaved>>

Write(r) ==
    /\ req[r].pc = "write"
    /\ req' = [req EXCEPT ![r].pc = "done"]
    /\ \/ file' = req[r].got /\ unsaved' = FALSE
       \/ file' = file /\ unsaved' = TRUE
    /\ UNCHANGED <<tokens, revoked, expired, overlap>>

\* Expired tokens are dropped from the map, revocations after a day.
Expire(t) ==
    /\ t \in Expiring \ expired /\ tokens[t] # None
    /\ expired' = expired \cup {t}
    /\ UNCHANGED <<tokens, revoked, file, req, overlap, unsaved>>

Cleanup ==
    /\ \E Old \in SUBSET revoked : revoked' = revoked \ Old
    /\ tokens' = [t \in Tokens |-> IF t \in expired THEN None ELSE tokens[t]]
    /\ <<tokens, revoked>>' # <<tokens, revoked>>
    /\ UNCHANGED <<expired, file, req, overlap, unsaved>>

\* A file that was being written may be torn: it is then read as no tokens.
Restart ==
    /\ \E r \in Requests : req[r].pc # "new"
    /\ file' \in {file} \cup {Nothing : r \in {q \in Requests : req[q].pc = "write"}}
    /\ tokens' = file' /\ revoked' = {}
    /\ unsaved' = FALSE /\ overlap' = FALSE
    /\ req' = [r \in Requests |-> IF Saving(r) THEN [req[r] EXCEPT !.pc = "done"]
                                               ELSE req[r]]
    /\ UNCHANGED expired

Init ==
    /\ tokens \in {[t \in Tokens |-> IF t \in Have THEN "old" ELSE None]
                   : Have \in SUBSET Tokens}
    /\ file = tokens
    /\ revoked = {} /\ expired = {} /\ overlap = FALSE /\ unsaved = FALSE
    /\ req = [r \in Requests |-> [pc |-> "new", of |-> None,
                                  left |-> {}, got |-> Nothing]]

Next ==
    \/ \E r \in Requests :
         \/ \E t \in Tokens : Create(r, t) \/ Update(r, t) \/ Revoke(r, t)
         \/ Collect(r) \/ Write(r)
    \/ \E t \in Tokens : Expire(t)
    \/ Cleanup \/ Restart

Spec == Init /\ [][Next]_vars

-----------------------------------------------------------------------------
(* Properties.                                                             *)

TypeOK ==
    /\ {tokens, file} \subseteq [Tokens -> Requests \cup {"old", None}]
    /\ expired \subseteq Expiring /\ revoked \subseteq Tokens

\* validate: what a token is worth, in memory or when the file is loaded
Worth(t, map) == IF t \in expired THEN None ELSE map[t]

\* With no save on its way and no two that met, each token is worth now what it is
\* after a restart, and a revoked one nothing.
TokensSaved ==
    ~overlap /\ ~unsaved /\ (\A r \in Requests : ~Saving(r))
      => \A t \in Tokens : /\ Worth(t, tokens) = Worth(t, file)
                           /\ t \in revoked => tokens[t] = None

=============================================================================
