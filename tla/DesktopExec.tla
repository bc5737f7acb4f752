------------------------------ MODULE DesktopExec ------------------------------
(***************************************************************************)
(* The command in a Linux autostart entry (encode_desktop_exec and         *)
(* decode_desktop_exec in src-tauri/src/autostart.rs): the program's path  *)
(* is quoted for the Exec key, and the result is escaped once more as a    *)
(* value of the file.  A path is a sequence of kinds of characters, built  *)
(* up step by step; " --background" is one character, Arg.                 *)
(***************************************************************************)
EXTENDS Naturals, FiniteSets, Sequences, SequencesExt

CONSTANTS
    Quote,     \* "
    Back,      \* \
    Dollar,    \* $ and `
    Percent,   \* %
    Space,     \* a space, which \s stands for in a value
    LetterS,   \* the letters s, n, t, r, which mean a blank after a backslash
    Arg,       \* " --background"
    MaxLength  \* bound: characters of a path

VARIABLE path

Chars == {Quote, Back, Dollar, Percent, Space, LetterS}

\* A result with what is still open: "" , an escape, or a failure.
Start     == [out |-> <<>>, open |-> "no"]
Put(r, c) == [out |-> Append(r.out, c), open |-> "no"]
Fail(r)   == [r EXCEPT !.open = "failed"]

-----------------------------------------------------------------------------
(* encode_desktop_exec                                                     *)

ExecChar(c) == IF c \in {Quote, Back, Dollar} THEN <<Back, c>>
               ELSE IF c = Percent THEN <<Percent, Percent>> ELSE <<c>>

ValueChar(c) == IF c = Back THEN <<Back, Back>> ELSE <<c>>

EncodeExec(p) ==
    LET exec == <<Quote>> \o FoldLeft(LAMBDA s, c : s \o ExecChar(c), <<>>, p) \o <<Quote, Arg>>
    IN FoldLeft(LAMBDA s, c : s \o ValueChar(c), <<>>, exec)

-----------------------------------------------------------------------------
(* decode_desktop_exec                                                     *)

\* decode_desktop_value: \\ and the letters are the only escapes.
ValueStep(r, c) ==
    CASE r.open = "failed" -> r
      [] r.open = "back"   -> IF c = Back THEN Put(r, Back)
                              ELSE IF c = LetterS THEN Put(r, Space) ELSE Fail(r)
      [] OTHER             -> IF c = Back THEN [r EXCEPT !.open = "back"] ELSE Put(r, c)

\* Between the quotes: a backslash before a character that needs it, %%.
ExecStep(r, c) ==
    CASE r.open = "failed"  -> r
      [] r.open = "back"    -> IF c \in {Quote, Back, Dollar} THEN Put(r, c) ELSE Fail(r)
      [] r.open = "percent" -> IF c = Percent THEN Put(r, Percent) ELSE Fail(r)
      [] OTHER -> IF c = Back THEN [r EXCEPT !.open = "back"]
                  ELSE IF c = Percent THEN [r EXCEPT !.open = "percent"] ELSE Put(r, c)

\* The path in a set, or nothing if the value is refused.
DecodeExec(v) ==
    LET value == FoldLeft(ValueStep, Start, v)
        n     == Len(value.out)
    IN IF value.open # "no" \/ n < 3 \/ value.out[1] # Quote
          \/ SubSeq(value.out, n - 1, n) # <<Quote, Arg>> THEN {}
       ELSE LET exec == FoldLeft(ExecStep, Start, SubSeq(value.out, 2, n - 2))
            IN IF exec.open # "no" \/ exec.out = <<>> THEN {} ELSE {exec.out}

\* A launcher that follows the specification of desktop entries: the arguments in
\* the value, an argument ending at the first quote that is not escaped.
Closings(v) ==
    LET value == FoldLeft(ValueStep, Start, v).out
        Unescaped(i) == value[i] = Quote /\ ~\E k \in 1 .. i - 1 :
                            /\ \A j \in i - k .. i - 1 : value[j] = Back
                            /\ i - k = 1 \/ value[i - k - 1] # Back
                            /\ k % 2 = 1
    IN {i \in 2 .. Len(value) : Unescaped(i)}

-----------------------------------------------------------------------------
Init == path = <<>>

AppendChar(c) == Len(path) < MaxLength /\ path' = Append(path, c)

Next == \E c \in Chars : AppendChar(c)
Spec == Init /\ [][Next]_path

-----------------------------------------------------------------------------
(* Properties                                                              *)

\* Whatever path is registered, reading the entry gives it back, so that the status
\* can tell whether it is the current one, and a launcher takes all of it for one
\* argument.
ExecRoundTrips ==
    path # <<>> => /\ DecodeExec(EncodeExec(path)) = {path}
                   /\ Cardinality(Closings(EncodeExec(path))) = 1
=============================================================================
