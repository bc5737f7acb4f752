------------------------------- MODULE Uploads -------------------------------
(***************************************************************************)
(* Files users upload (src/workspace/upload.rs): into the directory of     *)
(* uploads, which is kept under a cap if it is managed, or into a          *)
(* workspace.  The former creates a file under the first free name in one  *)
(* step, takes its files back if a later one fails, and trims the oldest   *)
(* others at the end, which may fail as well; the latter looks for a free  *)
(* name and then creates.                                                  *)
(*                                                                         *)
(* A file stands as the call that made it; names are numbers: the name the *)
(* users give is 0, its next free variant 1, and so on.  Every file has    *)
(* one unit of size, the cap is on their number.                           *)
(***************************************************************************)
EXTENDS Naturals, FiniteSets

CONSTANTS
    Calls,     \* POST of uploads, of at most two files each
    Clears,    \* POST of uploads/clear
    Cap,       \* upload_cap_count
    Names,     \* bound: names 0..Names - 1
    None

NamesAssumption == Cap \in Nat /\ Names \in Nat /\ Names > 0

VARIABLES
    uploads,   \* the directory of uploads: name -> [by, age, whole], or None
    files,     \* the workspace: the same
    managed,   \* the marker is there
    clock,     \* age of the next file
    call,      \* [pc, into, names, name, trims]; names are those of its whole files,
               \* and in the end of those it leaves behind
    crossed    \* calls that wrote while another wrote, trimmed or cleared

dirVars == <<uploads, files, managed, clock>>
vars == <<dirVars, call, crossed>>

NameSet == 0..Names - 1
Present(dir) == {n \in DOMAIN dir : dir[n] # None}
Busy(c) == call[c].pc \notin {"new", "done", "refused", "failed", "dropped"}

\* unique_path, create_new_upload_file: the first free name.
Free(dir, n) == n \notin Present(dir) /\ \A k \in 0..n - 1 : k \in Present(dir)

Entry(c) == [by |-> c, age |-> clock, whole |-> FALSE]

Overlapping(c) == {d \in (Calls \cup Clears) \ {c} : Busy(d)}
Cross(c) == crossed' = IF Overlapping(c) = {} THEN crossed
                       ELSE crossed \cup {c} \cup Overlapping(c)

To(c, pc) == call' = [call EXCEPT ![c].pc = pc]

-----------------------------------------------------------------------------
\* prepare_upload_base: a directory that is not there, or is empty, gets the marker;
\* a foreign one is used as it is.  The directory may be out of reach.
Begin(c) ==
    /\ call[c].pc = "new"
    /\ \E into \in {"uploads", "workspace"} :
         /\ managed' = (managed \/ (into = "uploads" /\ Present(uploads) = {}))
         /\ \E pc \in {"next", "refused"} :
              call' = [call EXCEPT ![c].pc = pc, ![c].into = into,
                         ![c].trims = (into = "uploads" /\ managed')]
    /\ Cross(c)
    /\ UNCHANGED <<uploads, files, clock>>

\* workspace_uploads, create_new_upload_file: the name is free and taken at once.
CreateNew(c) ==
    /\ call[c].pc = "next" /\ call[c].into = "uploads" /\ Cardinality(call[c].names) < 2
    /\ \E n \in NameSet :
         /\ Free(uploads, n)
         /\ uploads' = [uploads EXCEPT ![n] = Entry(c)]
         /\ call' = [call EXCEPT ![c].pc = "write", ![c].name = n]
    /\ clock' = clock + 1
    /\ UNCHANGED <<files, managed, crossed>>

\* workspace_upload: unique_path looks, File::create truncates what is there by then.
LookForName(c) ==
    /\ call[c].pc = "next" /\ call[c].into = "workspace" /\ Cardinality(call[c].names) < 2
    /\ \E n \in NameSet :
         /\ Free(files, n)
         /\ call' = [call EXCEPT ![c].pc = "create", ![c].name = n]
    /\ UNCHANGED <<dirVars, crossed>>

Create(c) ==
    /\ call[c].pc = "create"
    /\ files' = [files EXCEPT ![call[c].name] = Entry(c)]
    /\ clock' = clock + 1
    /\ To(c, "write")
    /\ UNCHANGED <<uploads, managed, crossed>>

Filled(dir, n) == IF dir[n] = None THEN dir ELSE [dir EXCEPT ![n].whole = TRUE]

Write(c) ==
    /\ call[c].pc = "write"
    /\ IF call[c].into = "uploads"
         THEN uploads' = Filled(uploads, call[c].name) /\ UNCHANGED files
         ELSE files' = Filled(files, call[c].name) /\ UNCHANGED uploads
    /\ call' = [call EXCEPT ![c].pc = "next", ![c].names = @ \cup {call[c].name}]
    /\ UNCHANGED <<managed, clock, crossed>>

Without(dir, ns) == [n \in DOMAIN dir |-> IF n \in ns THEN None ELSE dir[n]]

\* A file is over its cap or has no proper name, the disk is full, or the request cannot
\* be read: uploads takes the files of the call back (rollback_uploads), workspace_upload
\* the one it was writing.  What cannot be removed stays, and nobody is told.
Rollback(c) ==
    /\ call[c].pc \in {"next", "create", "write"}
    /\ LET mine == (IF call[c].into = "uploads" THEN call[c].names ELSE {})
                   \cup (IF call[c].pc = "write" THEN {call[c].name} ELSE {}) IN
       \E left \in SUBSET mine :
         /\ IF call[c].into = "uploads"
              THEN uploads' = Without(uploads, mine \ left) /\ UNCHANGED files
              ELSE files' = Without(files, mine \ left) /\ UNCHANGED uploads
         /\ call' = [call EXCEPT ![c].pc = "refused", ![c].names = left]
    /\ UNCHANGED <<managed, clock, crossed>>

\* The request goes with its connection, and leaves what it has made.
Drop(c) ==
    /\ call[c].pc \in {"next", "create", "write"}
    /\ To(c, "dropped")
    /\ UNCHANGED <<dirVars, crossed>>

\* trim_uploads_dir: the oldest that are not of this call go, until the cap is met.
Oldest(ns, k) == {n \in ns : Cardinality({m \in ns : uploads[m].age < uploads[n].age}) < k}

TrimmedBy(keep) ==
    LET over == Cardinality(Present(uploads)) - Cap IN
    IF Cardinality(Present(uploads)) <= Cap THEN {}
    ELSE Oldest(Present(uploads) \ keep, over)

Finish(c) ==
    /\ call[c].pc = "next"
    /\ uploads' = IF call[c].trims
                    THEN Without(uploads, TrimmedBy(call[c].names)) ELSE uploads
    /\ To(c, "done")
    /\ UNCHANGED <<files, managed, clock, crossed>>

\* Trimming stops where a file cannot be removed, or the directory cannot be read after
\* it: the call is answered with an error, and its files stay.
FinishFails(c) ==
    /\ call[c].pc = "next" /\ call[c].into = "uploads"
    /\ \E k \in 0..Cardinality(TrimmedBy(call[c].names)) :
         uploads' = IF call[c].trims
                      THEN Without(uploads, Oldest(Present(uploads) \ call[c].names, k))
                      ELSE uploads
    /\ To(c, "failed")
    /\ UNCHANGED <<files, managed, clock, crossed>>

\* uploads_clear lists the files of a managed directory, and removes them one by one,
\* until one cannot be.
BeginClear(d) ==
    /\ call[d].pc = "new"
    /\ managed' = (managed \/ Present(uploads) = {})
    /\ call' = [call EXCEPT ![d].pc = IF managed' THEN "clear" ELSE "refused",
                  ![d].names = IF managed' THEN Present(uploads) ELSE {}]
    /\ Cross(d)
    /\ UNCHANGED <<uploads, files, clock>>

Clear(d) ==
    /\ call[d].pc = "clear"
    /\ \E gone \in SUBSET call[d].names : uploads' = Without(uploads, gone)
    /\ To(d, "done")
    /\ UNCHANGED <<files, managed, clock, crossed>>

\* uploads_adopt: the user lets the program manage a foreign directory.
Adopt == /\ ~managed /\ managed' = TRUE
         /\ UNCHANGED <<uploads, files, clock, call, crossed>>

Init ==
    /\ \E old \in {{}, {0}} :
         uploads = [n \in NameSet |-> IF n \in old THEN [by |-> None, age |-> 0, whole |-> TRUE]
                                      ELSE None]
    /\ files = [n \in NameSet |-> None]
    /\ managed \in {FALSE} \cup {Present(uploads) # {}} /\ clock = 1
    /\ call = [c \in Calls \cup Clears |->
                 [pc |-> "new", into |-> "none", names |-> {}, name |-> 0, trims |-> FALSE]]
    /\ crossed = {}

Next ==
    \/ \E c \in Calls : \/ Begin(c) \/ CreateNew(c) \/ LookForName(c) \/ Create(c)
                        \/ Write(c) \/ Rollback(c) \/ Drop(c)
                        \/ Finish(c) \/ FinishFails(c)
    \/ \E d \in Clears : BeginClear(d) \/ Clear(d)
    \/ Adopt

Spec == Init /\ [][Next]_vars

-----------------------------------------------------------------------------
\* Directories and calls have the values the code gives them.
TypeOK ==
    /\ \A n \in NameSet : \A f \in {uploads[n], files[n]} :
         f # None => f.by \in Calls \cup {None} /\ f.age < clock
    /\ \A c \in Calls : call[c].names \subseteq NameSet
    /\ managed \in BOOLEAN

Of(dir, c) == {n \in Present(dir) : dir[n].by = c}

\* An upload that is answered with success leaves all its files, whole and under the
\* names it answers with (workspace_uploads, workspace_upload), and so does one into the
\* uploads directory whose trimming failed.  Any other that is answered with an error
\* leaves there none of its files (rollback_uploads) but those it failed to remove.  Unless
\* another call was under way meanwhile.
AllOrNothing ==
    \A c \in Calls \ crossed' :
      LET dir   == IF call[c].into = "uploads" THEN uploads' ELSE files'
          Ends(pc) == call[c].pc # pc /\ call'[c].pc = pc IN
      /\ Ends("done") \/ Ends("failed") =>
           \A n \in call[c].names : dir[n] # None /\ dir[n].by = c /\ dir[n].whole
      /\ Ends("refused") /\ call'[c].into = "uploads" =>
           Of(uploads', c) \subseteq call'[c].names
==============================================================================
