----------------------------- MODULE Utf8Forward -----------------------------
(***************************************************************************)
(* How broadcast_task (src/pty.rs) turns the bytes of the PTY into the     *)
(* text it broadcasts: reads end anywhere, so the bytes after the last     *)
(* complete character are carried over to the next batch.                  *)
(*                                                                         *)
(* A byte is a class: "a" a character of its own, "2", "3" and "4" the     *)
(* first of that many bytes, "c" a continuation, "x" a byte UTF-8 does not *)
(* have.  "?" in the output is U+FFFD.                                     *)
(***************************************************************************)
EXTENDS Naturals, Sequences, SequencesExt, FiniteSetsExt

CONSTANTS
    Bytes,      \* the classes that occur
    MaxBatch,   \* bound: bytes of one batch
    MaxSent     \* bound: bytes of the whole output

ByteAssumption == Bytes \subseteq {"a", "2", "3", "4", "c", "x"}
BoundAssumption == MaxBatch \in Nat /\ MaxSent \in Nat

VARIABLES
    sent,       \* all the program has written
    out,        \* all that was broadcast
    tail        \* utf8_tail

vars == <<sent, out, tail>>

-----------------------------------------------------------------------------
Width(b) == CASE b = "a" -> 1 [] b = "2" -> 2 [] b = "3" -> 3 [] b = "4" -> 4
              [] OTHER -> 0

\* The bytes i + 1 .. j of s are one character.
IsChar(s, i, j) ==
    Width(s[i + 1]) = j - i /\ \A k \in i + 2 .. j : s[k] = "c"

\* std::str::from_utf8 and Utf8Error::valid_up_to: the longest prefix of s that is
\* a sequence of characters.
ValidUpTo(s) ==
    LET valid[n \in 0 .. Len(s)] ==
          n = 0 \/ \E i \in 0 .. n - 1 : valid[i] /\ IsChar(s, i, n)
    IN  Max({n \in 0 .. Len(s) : valid[n]})

\* Mutant: the carry is not limited.
ForwardKeepsAll(batch) ==
    LET all == tail \o batch
        n   == ValidUpTo(all) IN
    /\ out' = out \o SubSeq(all, 1, n)
    /\ tail' = SubSeq(all, n + 1, Len(all))

Forward(batch) ==
    LET all  == tail \o batch
        n    == ValidUpTo(all)
        rest == SubSeq(all, n + 1, Len(all)) IN
    IF Len(rest) > 3
      THEN out' = out \o SubSeq(all, 1, n) \o <<"?">> /\ tail' = <<>>
      ELSE out' = out \o SubSeq(all, 1, n) /\ tail' = rest

Recv ==
    \E k \in 1 .. Min({MaxBatch, MaxSent - Len(sent)}) :
      \E batch \in [1 .. k -> Bytes] :
        /\ sent' = sent \o batch
        /\ Forward(batch)

Init == sent = <<>> /\ out = <<>> /\ tail = <<>>
Spec == Init /\ [][Recv]_vars

-----------------------------------------------------------------------------
(* Properties.                                                             *)

\* What the task keeps for the next batch can be the beginning of a character.
TypeOK ==
    /\ Range(out) \subseteq Bytes \cup {"?"}
    /\ Len(tail) <= 3

\* s is UTF-8 that may end in the middle of a character.
Utf8Prefix(s) ==
    LET n == ValidUpTo(s) IN
    n = Len(s) \/ (Len(s) - n < Width(s[n + 1])
                     /\ \A k \in n + 2 .. Len(s) : s[k] = "c")

\* However reads cut UTF-8 into batches, the text is broadcast byte by byte as the
\* program wrote it, and what is not broadcast yet is carried.
Utf8Intact == Utf8Prefix(sent) => out \o tail = sent

=============================================================================
