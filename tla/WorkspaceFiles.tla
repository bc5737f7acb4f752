--------------------------- MODULE WorkspaceFiles ---------------------------
(* The changes of a workspace's files (src/workspace/handlers.rs, its remote  *)
(* counterpart over SFTP and the plugins' src/plugin/workspace.rs).  Every    *)
(* handler looks first and acts later; what other requests did in between is  *)
(* seen by nobody but the file system.  A file is an identity with a content, *)
(* so that it can be followed when it moves; directories hold files only.     *)
EXTENDS Naturals, Sequences, FiniteSets

CONSTANTS Names,        \* names of entries
          Calls,        \* requests
          Wheres,       \* "local", "plugin", "remote": where requests act
          MaxFiles,     \* bound: files ever created
          Nothing, Directory   \* what may be at a path besides a file

Tops == {<<n>> : n \in Names}
Paths == Tops \cup {<<d, n>> : d \in Names, n \in Names}
Files == 1 .. MaxFiles
Empty == 0
Old == 1                \* the content of the files there are at the start
New == 2                \* the content that requests write

VARIABLES tree,         \* what is at each path
          content,      \* the content of each file
          used,         \* files created so far
          where,        \* which of the three the workspace is
          call          \* the state of each request
vars == <<tree, content, used, where, call>>

Idle == [stage |-> "idle", op |-> "none", src |-> <<>>, dst |-> <<>>, file |-> 0,
         alone |-> TRUE, answer |-> "none"]

Exists(p) == tree[p] # Nothing
IsDir(p) == tree[p] = Directory
IsFile(p) == tree[p] \notin {Nothing, Directory}
Parent(p) == SubSeq(p, 1, Len(p) - 1)
Under(p) == {q \in Paths : Len(q) > Len(p) /\ SubSeq(q, 1, Len(p)) = p}
ParentThere(p) == Len(p) > 1 => IsDir(Parent(p))

Answer(c, a) == call' = [call EXCEPT ![c].stage = "done", ![c].answer = a]
\* Every request that is between its look and its act is no longer alone.
Disturb(c, a) ==
  call' = [d \in Calls |->
             IF d = c THEN [call[d] EXCEPT !.stage = "done", !.answer = a]
             ELSE [call[d] EXCEPT !.alone = FALSE]]
Moved(p, q) ==
  tree' = [x \in Paths |->
             IF x = q THEN tree[p]
             ELSE IF x \in Under(q) /\ IsDir(p) THEN tree[p \o SubSeq(x, Len(q) + 1, Len(x))]
             ELSE IF x = p \/ x \in Under(p) THEN Nothing ELSE tree[x]]

(***************************************************************************)
(* The look: what a handler checks before it acts.                         *)
(***************************************************************************)
Free(q) == ~Exists(q)

CanCreate(q) == ParentThere(q) /\ Free(q)
CanMakeDir(q) == Len(q) = 1 /\ Free(q)
CanPut(q) == ParentThere(q) /\ (where = "remote" \/ ~IsDir(q))
CanDelete(p) == Exists(p)
CanRename(p, q) == Exists(p) /\ Free(q)
CanMove(p, q) == Exists(p) /\ IsDir(Parent(q)) /\ Free(q)
Looks(op, p, q) ==
  CASE op = "create" -> CanCreate(q)
    [] op = "mkdir" -> CanMakeDir(q)
    [] op = "put" -> CanPut(q)
    [] op = "delete" -> CanDelete(p)
    [] op = "rename" -> CanRename(p, q)
    [] op = "move" -> CanMove(p, q)

\* rename stays in the directory, move keeps the name and a directory does not
\* move into another one (the tree has two levels).
Fits(op, p, q) ==
  CASE op \in {"create", "mkdir", "put"} -> p = q
    [] op = "delete" -> p = q
    [] op = "rename" -> Parent(p) = Parent(q) /\ p # q
    [] op = "move" -> Len(p) = 1 /\ Len(q) = 2 /\ q[2] = p[1] /\ q[1] # p[1]
Ops == {"create", "mkdir", "put", "delete", "rename", "move"}

Look(c) ==
  /\ call[c].stage = "idle"
  /\ \E op \in Ops, p \in Paths, q \in Paths :
       /\ Fits(op, p, q)
       /\ op = "move" => ~IsDir(p)
       /\ call' = [call EXCEPT ![c] =
                     [Idle EXCEPT !.op = op, !.src = p, !.dst = q,
                        !.stage = IF Looks(op, p, q) THEN "looked" ELSE "done",
                        !.answer = IF Looks(op, p, q) THEN "none" ELSE "refused"]]
  /\ UNCHANGED <<tree, content, used, where>>

(***************************************************************************)
(* The act.                                                                *)
(***************************************************************************)
At(c, op) == call[c].stage = "looked" /\ call[c].op = op

\* create_new fails if the name is taken; SFTP's create empties the file.
Create(c) ==
  /\ At(c, "create")
  /\ LET q == call[c].dst IN
     \/ /\ ParentThere(q) /\ ~Exists(q) /\ used < MaxFiles
        /\ used' = used + 1
        /\ tree' = [tree EXCEPT ![q] = used + 1]
        /\ content' = [content EXCEPT ![used + 1] = Empty]
        /\ Disturb(c, "ok")
     \/ /\ where = "remote" /\ ParentThere(q) /\ IsFile(q)
        /\ content' = [content EXCEPT ![tree[q]] = Empty]
        /\ Disturb(c, "ok") /\ UNCHANGED <<tree, used>>
     \/ /\ ~ParentThere(q) \/ (Exists(q) /\ ~(where = "remote" /\ IsFile(q)))
        /\ Answer(c, "failed") /\ UNCHANGED <<tree, content, used>>
  /\ UNCHANGED where

MakeDir(c) ==
  /\ At(c, "mkdir")
  /\ LET q == call[c].dst IN
     IF Exists(q)
     THEN /\ Answer(c, IF IsDir(q) /\ where = "plugin" THEN "ok" ELSE "failed")
          /\ UNCHANGED tree
     ELSE tree' = [tree EXCEPT ![q] = Directory] /\ Disturb(c, "ok")
  /\ UNCHANGED <<content, used, where>>

\* A put opens and empties the file, then writes to what it opened.
Open(c) ==
  /\ At(c, "put")
  /\ LET q == call[c].dst IN
     \/ /\ ParentThere(q) /\ IsFile(q)
        /\ content' = [content EXCEPT ![tree[q]] = Empty]
        /\ call' = [call EXCEPT ![c].stage = "opened", ![c].file = tree[q]]
        /\ UNCHANGED <<tree, used>>
     \/ /\ ParentThere(q) /\ ~Exists(q) /\ used < MaxFiles
        /\ used' = used + 1 /\ tree' = [tree EXCEPT ![q] = used + 1]
        /\ content' = [content EXCEPT ![used + 1] = Empty]
        /\ call' = [d \in Calls |->
                      IF d = c THEN [call[d] EXCEPT !.stage = "opened", !.file = used + 1]
                      ELSE [call[d] EXCEPT !.alone = FALSE]]
     \/ /\ ~ParentThere(q) \/ IsDir(q)
        /\ Answer(c, "failed") /\ UNCHANGED <<tree, content, used>>
  /\ UNCHANGED where
Write(c) ==
  /\ call[c].stage = "opened"
  /\ content' = [content EXCEPT ![call[c].file] = New]
  /\ Answer(c, "ok")
  /\ UNCHANGED <<tree, used, where>>

\* A file goes at once; of a directory first what is in it, then itself.
Delete(c) ==
  /\ At(c, "delete")
  /\ LET p == call[c].src IN
     IF IsDir(p)
     THEN /\ tree' = [x \in Paths |-> IF x \in Under(p) THEN Nothing ELSE tree[x]]
          /\ call' = [d \in Calls |->
                        IF d = c THEN [call[d] EXCEPT !.stage = "emptied"]
                        ELSE [call[d] EXCEPT !.alone = FALSE]]
     ELSE IF Exists(p)
          THEN tree' = [tree EXCEPT ![p] = Nothing] /\ Disturb(c, "ok")
          ELSE UNCHANGED tree /\ Answer(c, "failed")
  /\ UNCHANGED <<content, used, where>>
RemoveDir(c) ==
  /\ call[c].stage = "emptied"
  /\ LET p == call[c].src IN
     IF IsDir(p) /\ \A x \in Under(p) : ~Exists(x)
     THEN tree' = [tree EXCEPT ![p] = Nothing] /\ Disturb(c, "ok")
     ELSE UNCHANGED tree /\ Answer(c, "failed")
  /\ UNCHANGED <<content, used, where>>

\* rename(2) replaces a file by a file and an empty directory by a directory;
\* an SFTP server refuses a name that is taken.
Replaces(p, q) ==
  /\ where # "remote" /\ Exists(q)
  /\ IF IsDir(p) THEN IsDir(q) /\ \A x \in Under(q) : ~Exists(x) ELSE IsFile(q)
Renamed(c) ==
  /\ LET p == call[c].src
         q == call[c].dst
     IN IF Exists(p) /\ ParentThere(q) /\ (~Exists(q) \/ Replaces(p, q))
           /\ (IsDir(p) => Len(q) = 1)              \* bound: two levels
        THEN Moved(p, q) /\ Disturb(c, "ok")
        ELSE UNCHANGED tree /\ Answer(c, "failed")
  /\ UNCHANGED <<content, used, where>>
Rename(c) == At(c, "rename") /\ Renamed(c)
Move(c) == At(c, "move") /\ Renamed(c)

Init ==
  /\ \E d \in Names : \E n \in Names \ {d} :
       tree = [p \in Paths |-> IF p = <<d>> THEN Directory
                               ELSE IF p = <<n>> THEN 1
                               ELSE IF p = <<d, d>> THEN 2 ELSE Nothing]
  /\ content = [f \in Files |-> IF f <= 2 THEN Old ELSE Empty]
  /\ used = 2 /\ where \in Wheres
  /\ call = [c \in Calls |-> Idle]

Next ==
  \E c \in Calls : Look(c) \/ Create(c) \/ MakeDir(c) \/ Open(c) \/ Write(c)
                     \/ Delete(c) \/ RemoveDir(c) \/ Rename(c) \/ Move(c)
Spec == Init /\ [][Next]_vars

-----------------------------------------------------------------------------
TypeOK ==
  /\ \A p \in Paths : IsFile(p) => tree[p] \in 1 .. used
  /\ \A f \in Files : content[f] \in {Empty, Old, New}
  /\ used \in 0 .. MaxFiles /\ where \in Wheres
  /\ \A c \in Calls : call[c].op \in Ops \cup {"none"}

(* A file is at one path, in a directory that is there.                      *)
TreeIsSound ==
  /\ \A p \in Paths : Exists(p) => ParentThere(p)
  /\ \A p, q \in Paths : (IsFile(p) /\ tree[p] = tree[q]) => p = q

Held == {<<tree[p], content[tree[p]]>> : p \in {x \in Paths : IsFile(x)}}
ActsNow(c) == call[c].stage # call'[c].stage /\ call'[c].stage # "looked"
(* A request that makes, renames or moves an entry takes nothing from        *)
(* another: no file disappears or loses its content by it, unless some other *)
(* request changed the entries between its look and its act.  A local create *)
(* takes nothing even then.                                                  *)
NothingIsReplaced ==
  \A c \in Calls :
    (/\ ActsNow(c) /\ call[c].op \in {"create", "mkdir", "rename", "move"}
     /\ call[c].alone \/ (call[c].op = "create" /\ where # "remote"))
    => \A h \in Held : \E p \in Paths :
         tree'[p] = h[1] /\ content'[h[1]] = h[2]

=============================================================================
