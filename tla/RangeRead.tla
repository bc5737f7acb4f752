------------------------------ MODULE RangeRead ------------------------------
(* A read of a file, whole or in part (workspace_raw and resolve_byte_range   *)
(* in src/workspace): the size is read first, the range resolved against it,  *)
(* and the bytes are read from the file as it is by then.                     *)
EXTENDS Integers, FiniteSets

CONSTANTS MaxSize,      \* bound: the sizes of the file
          MaxDownload   \* MAX_DOWNLOAD

Positions == 0 .. MaxSize + 1
Open == -1                                  \* no last position given
\* What a Range header asks for: nothing readable, the last n, or from-to.
Headers == [kind : {"none"}, from : {0}, to : {Open}]
             \cup [kind : {"suffix"}, from : Positions, to : {Open}]
             \cup [kind : {"range"}, from : Positions, to : Positions \cup {Open}]

VARIABLES size,         \* the length of the file
          header,       \* the request's range
          stage,        \* "asked", "sized", "answered"
          len,          \* the length read from the metadata
          answer        \* kind, the bytes sent, the length promised
vars == <<size, header, stage, len, answer>>

Answer(k, sent, promised) == [kind |-> k, sent |-> sent, promised |-> promised]
NoAnswer == Answer("none", {}, 0)
Less(a, b) == IF a < b THEN a ELSE b

\* resolve_byte_range
Full == [kind |-> "full", start |-> 0, end |-> 0]
NotSatisfiable == [Full EXCEPT !.kind = "unsatisfiable"]
Partial(a, b) == [kind |-> "partial", start |-> a, end |-> b]

Resolve(h, n) ==
  CASE n = 0 \/ h.kind = "none" -> Full
    [] n > 0 /\ h.kind = "suffix" ->
         IF h.from = 0 THEN NotSatisfiable
         ELSE Partial(IF n > h.from THEN n - h.from ELSE 0, n - 1)
    [] n > 0 /\ h.kind = "range" ->
         LET end == IF h.to = Open THEN n - 1 ELSE Less(h.to, n - 1)
         IN IF h.from >= n \/ end < h.from THEN NotSatisfiable
            ELSE Partial(h.from, end)

Stat ==
  /\ stage = "asked"
  /\ len' = size
  /\ IF size > MaxDownload
     THEN stage' = "answered" /\ answer' = Answer("error", {}, 0)
     ELSE stage' = "sized" /\ UNCHANGED answer
  /\ UNCHANGED <<size, header>>

\* The part is read to its end or not at all; the whole is sent as it is found.
Read ==
  /\ stage = "sized"
  /\ stage' = "answered"
  /\ LET r == Resolve(header, len) IN
     answer' = CASE r.kind = "partial" /\ r.end < size ->
                      Answer("partial", r.start .. r.end, r.end - r.start + 1)
                 [] r.kind = "partial" /\ r.end >= size -> Answer("error", {}, 0)
                 [] r.kind = "unsatisfiable" -> Answer("unsatisfiable", {}, 0)
                 [] r.kind = "full" ->
                      Answer("full", IF len = 0 THEN {} ELSE 0 .. size - 1, len)
  /\ UNCHANGED <<size, header, len>>

\* Something else writes the file.
Resize ==
  /\ stage # "answered"
  /\ size' \in (0 .. MaxSize) \ {size}
  /\ UNCHANGED <<header, stage, len, answer>>

Init ==
  /\ size \in 0 .. MaxSize /\ header \in Headers
  /\ stage = "asked" /\ len = 0 /\ answer = NoAnswer
Next == Stat \/ Read \/ Resize
Spec == Init /\ [][Next]_vars

-----------------------------------------------------------------------------
\* What a header asks of a file of n bytes.
Asked(h, n) ==
  {p \in 0 .. n - 1 : CASE h.kind = "none" -> TRUE
                        [] h.kind = "suffix" -> p >= n - h.from
                        [] h.kind = "range" -> p >= h.from
                                                 /\ (h.to = Open \/ p <= h.to)}

(* A part is exactly what was asked of a file of the size that the answer    *)
(* names, and as long as promised; an answer that nothing can be served is   *)
(* only given when nothing was asked; and no file changes this while it is   *)
(* read: a part that is no longer there is an error, never a shorter part.   *)
PartsAreExact ==
  /\ answer.kind = "partial" => /\ answer.sent = Asked(header, len)
                                /\ Cardinality(answer.sent) = answer.promised
  /\ answer.kind = "unsatisfiable" => Asked(header, len) = {}

=============================================================================
