---------------------------- MODULE VirtualScreen ----------------------------
(***************************************************************************)
(* The screen the server keeps of every session, to show it to clients     *)
(* that come later (src/vt_screen): a primary and an alternate buffer, the *)
(* scrollback, and one saved cursor that ESC 7 and the switch to the       *)
(* alternate screen share.  The reader of the session feeds it, clients    *)
(* resize it.                                                              *)
(*                                                                         *)
(* A row stands as the line of output that was last written in it, 0 when  *)
(* it is blank; what the lines say, colours and modes are left out.  Rows  *)
(* and columns of a cursor count from 0 as in the code, cells from 1.      *)
(***************************************************************************)
EXTENDS Naturals, FiniteSets, SequencesExt

CONSTANTS
    Heights, Widths,  \* sizes a client may ask for
    Limit,            \* rows of scrollback kept (10000)
    MaxLines,         \* bound: lines of output,
    MaxChanges,       \* operations that are not plain output, and changes of size
    None

SizeAssumption ==
    /\ Heights \subseteq Nat /\ Heights \ {0} # {}
    /\ Widths \subseteq Nat /\ Widths \ {0} # {}

VARIABLES
    rows, cols,
    buf,        \* "primary", "alternate" -> [cells, row, col, top, bottom]
    shown,      \* the buffer in use
    scrollback,
    saved,      \* saved_cursor: [row, col, old], None
    line, open, \* lines written so far; the last one is not ended
    plain,      \* only text, line ends and switches of the screen so far
    stale,      \* a cursor saved before a resize was restored
    cramped,    \* a size without rows or columns was asked, or a wide character
                \* printed on a screen of one column
    fault,      \* an index was out of range, or a size too small, and it panicked
    changes     \* counted

sizeVars == <<rows, cols>>
ghosts   == <<line, open, plain, stale, cramped, fault>>
vars == <<sizeVars, buf, shown, scrollback, saved, ghosts, changes>>

Blank == 0
AltText == MaxLines + 1
cur == buf[shown]

-----------------------------------------------------------------------------
(* data.rs                                                                 *)

\* ScreenBuffer::new
Fresh(h) == [cells |-> [i \in 1..h |-> Blank], row |-> 0, col |-> 0,
             top |-> 0, bottom |-> h - 1]

Pushed(sb, rs) == LET all == sb \o rs IN
    SubSeq(all, 1 + (IF Len(all) > Limit THEN Len(all) - Limit ELSE 0), Len(all))

\* ScreenBuffer::scroll_up: the screen after it, and the scrollback.
ScrolledUp(s) == [s EXCEPT !.cells =
    InsertAt(RemoveAt(@, s.top + 1), s.bottom + 1, Blank)]
ScrolledOff(s, sb) == IF s.top = 0 THEN Pushed(sb, <<Head(s.cells)>>) ELSE sb

ScrolledDown(s) == [s EXCEPT !.cells =
    InsertAt(RemoveAt(@, s.bottom + 1), s.top + 1, Blank)]

Least(x, y) == IF x < y THEN x ELSE y
Less(x, y)  == IF x < y THEN 0 ELSE x - y

\* ScreenBuffer::resize: blank rows below the cursor go first, then rows from the top.
BlankBelow(s) == {i \in DOMAIN s.cells : /\ i > s.row + 1
                                         /\ \A j \in i..Len(s.cells) : s.cells[j] = Blank}
Excess(s, h) == Less(Less(Len(s.cells), h), Cardinality(BlankBelow(s)))

FittedAfter(s, h, w, up) ==
    [cells |-> [i \in 1..h |-> IF i + up <= Len(s.cells) THEN s.cells[i + up] ELSE Blank],
     row |-> Least(Less(s.row, up), h - 1), col |-> Least(s.col, w - 1),
     top |-> 0, bottom |-> h - 1]

\* Mutant: the cursor stays where it was.
FittedLoose(s, h, w) ==
    [FittedAfter(s, h, w, Excess(s, h)) EXCEPT !.row = s.row, !.col = s.col]

Fitted(s, h, w) == FittedAfter(s, h, w, Excess(s, h))

-----------------------------------------------------------------------------
(* performer.rs                                                            *)

\* The buffer in use becomes s, as an operation that is not plain output leaves it.
Becomes(s) ==
    /\ buf' = [buf EXCEPT ![shown] = s]
    /\ plain' = (plain /\ shown = "alternate")
    /\ UNCHANGED <<sizeVars, shown, saved, line, open, stale, cramped, fault>>

Changes == ~fault /\ changes < MaxChanges /\ changes' = changes + 1

\* One row down, scrolling at the end of the region.
Down(s) == IF s.row + 1 > s.bottom THEN ScrolledUp([s EXCEPT !.row = s.bottom])
           ELSE [s EXCEPT !.row = @ + 1]
DownOff(s, sb) == IF s.row + 1 > s.bottom THEN ScrolledOff(s, sb) ELSE sb

\* print: a character that does not fit goes to the next row; one off the screen is
\* not written.  A wide one goes down once more from the end of a row of one column,
\* and leaves the cursor behind the end of the next.
PutChar(width) ==
    /\ ~fault
    /\ LET wraps   == cur.col >= cols \/ (width = 2 /\ cur.col + 1 >= cols)
           again   == width = 2 /\ cols = 1 /\ cur.col >= cols
           first   == [cur EXCEPT !.col = 0]
           s       == IF again THEN Down(Down(first)) ELSE IF wraps THEN Down(first) ELSE cur
           off     == IF wraps THEN DownOff(first, scrollback) ELSE scrollback
           starts  == shown = "primary" /\ (wraps \/ ~open)
           text    == IF shown = "alternate" THEN AltText
                      ELSE IF starts THEN line + 1 ELSE line
       IN /\ starts => line < MaxLines
          /\ buf' = [buf EXCEPT ![shown] = [s EXCEPT !.col = @ + width,
                       !.cells = [i \in DOMAIN @ |->
                          IF i = s.row + 1 /\ s.col < cols THEN text ELSE @[i]]]]
          /\ scrollback' = IF again THEN DownOff(Down(first), off) ELSE off
          /\ line' = IF starts THEN line + 1 ELSE line
          /\ open' = (open \/ starts)
    /\ cramped' = (cramped \/ (width = 2 /\ cols = 1))
    /\ UNCHANGED <<sizeVars, shown, saved, plain, stale, fault, changes>>

\* execute: CR LF
NewLine ==
    /\ ~fault
    /\ buf' = [buf EXCEPT ![shown] = Down([cur EXCEPT !.col = 0])]
    /\ scrollback' = DownOff(cur, scrollback)
    /\ open' = (open /\ shown = "alternate")
    /\ UNCHANGED <<sizeVars, shown, saved, line, plain, stale, cramped, fault, changes>>

\* CUU, CUD, CUF, CUB, CUP, VPA, CHA, BS, HT: within the screen, or nearer to it.
MoveCursor ==
    /\ Changes
    /\ \E r \in 0..(rows - 1) \cup 0..cur.row, c \in 0..(cols - 1) \cup 0..cur.col :
         Becomes([cur EXCEPT !.row = r, !.col = c])
    /\ UNCHANGED scrollback

\* DECSTBM
SetRegion ==
    /\ Changes
    /\ \E t, e \in 0..(rows - 1) :
         Becomes([cur EXCEPT !.top = t, !.bottom = e, !.row = 0, !.col = 0])
    /\ UNCHANGED scrollback

\* SU, SD and RI at the top of the region.
Scroll ==
    /\ Changes
    /\ \/ Becomes(ScrolledUp(cur)) /\ scrollback' = ScrolledOff(cur, scrollback)
       \/ Becomes(ScrolledDown(cur)) /\ UNCHANGED scrollback

Fault ==
    /\ fault' = TRUE
    /\ UNCHANGED <<sizeVars, buf, shown, scrollback, saved, line, open, plain, stale, cramped>>

\* ED, EL, ECH, DCH, ICH, and a character that combines with the one before: the row
\* of the cursor is indexed, from its column on or up to it, but not to clear all.
Erase ==
    /\ Changes
    /\ \/ (cur.row >= rows \/ cur.col > cols) /\ Fault
       \/ /\ \E gone \in {DOMAIN cur.cells} \cup
                  (IF cur.row >= rows THEN {} ELSE {{cur.row + 1}, {}, 1..cur.row, (cur.row + 2)..rows}) :
                 Becomes([cur EXCEPT !.cells = [i \in DOMAIN @ |->
                                                IF i \in gone THEN Blank ELSE @[i]]])
          /\ UNCHANGED scrollback

\* IL: the last row of the region goes, a blank one comes at the cursor.
InsertLine ==
    /\ Changes
    /\ IF cur.row >= rows THEN Fault
       ELSE /\ Becomes([cur EXCEPT !.cells = InsertAt(RemoveAt(@, cur.bottom + 1), cur.row + 1, Blank)])
            /\ UNCHANGED scrollback

\* DL: the row of the cursor goes, if there is one.
DeleteLine ==
    /\ Changes /\ cur.row < rows
    /\ Becomes([cur EXCEPT !.cells = InsertAt(RemoveAt(@, cur.row + 1), cur.bottom + 1, Blank)])
    /\ UNCHANGED scrollback

\* DECSC, DECRC
SaveCursor ==
    /\ Changes
    /\ saved' = [row |-> cur.row, col |-> cur.col, old |-> FALSE]
    /\ plain' = (plain /\ shown = "primary")
    /\ UNCHANGED <<sizeVars, buf, shown, scrollback, line, open, stale, cramped, fault>>

Restored(s) == IF saved = None THEN s ELSE [s EXCEPT !.row = saved.row, !.col = saved.col]

RestoreCursor ==
    /\ Changes /\ saved # None
    /\ buf' = [buf EXCEPT ![shown] = Restored(@)]
    /\ stale' = (stale \/ saved.old) /\ plain' = FALSE
    /\ UNCHANGED <<sizeVars, shown, scrollback, saved, line, open, cramped, fault>>

-----------------------------------------------------------------------------
(* screen.rs                                                               *)

\* feed: the switch to the alternate screen and back.
EnterAlternate ==
    /\ ~fault /\ shown = "primary"
    /\ shown' = "alternate"
    /\ saved' = [row |-> cur.row, col |-> cur.col, old |-> FALSE]
    /\ buf' = [buf EXCEPT !["alternate"] = Fresh(rows)]
    /\ UNCHANGED <<sizeVars, scrollback, ghosts, changes>>

LeaveAlternate ==
    /\ ~fault /\ shown = "alternate"
    /\ shown' = "primary"
    /\ buf' = [buf EXCEPT !["primary"] = Restored(@)]
    /\ stale' = (stale \/ (saved # None /\ saved.old))
    /\ UNCHANGED <<sizeVars, scrollback, saved, line, open, plain, cramped, fault, changes>>

\* resize: both buffers, not the cursor that is saved.  The server takes any size: one
\* less than no rows or no columns is no number, which panics, or where the build does
\* not check is the largest there is.  Nothing is said of the screen from there on.
Resize ==
    /\ Changes
    /\ \E h \in Heights, w \in Widths :
         \/ /\ h = 0 \/ w = 0
            /\ fault' = TRUE /\ cramped' = TRUE
            /\ UNCHANGED <<sizeVars, buf, scrollback, saved, line, open, plain, stale>>
         \/ /\ h > 0 /\ w > 0 /\ <<h, w>> # <<rows, cols>>
            /\ rows' = h /\ cols' = w
            /\ buf' = [s \in DOMAIN buf |-> Fitted(buf[s], h, w)]
            /\ scrollback' = Pushed(scrollback,
                               SubSeq(buf["primary"].cells, 1, Excess(buf["primary"], h)))
            /\ saved' = IF saved = None THEN None ELSE [saved EXCEPT !.old = TRUE]
            /\ UNCHANGED ghosts
    /\ UNCHANGED shown

Init ==
    /\ rows \in Heights \ {0} /\ cols \in Widths \ {0}  \* 80 by 24
    /\ buf = [s \in {"primary", "alternate"} |-> Fresh(rows)]
    /\ shown = "primary" /\ scrollback = <<>> /\ saved = None
    /\ line = 0 /\ open = FALSE /\ plain = TRUE /\ stale = FALSE
    /\ cramped = FALSE /\ fault = FALSE
    /\ changes = 0

Next ==
    \/ \E width \in {1, 2} : PutChar(width)
    \/ NewLine \/ MoveCursor \/ SetRegion \/ Scroll
    \/ Erase \/ InsertLine \/ DeleteLine \/ SaveCursor \/ RestoreCursor
    \/ EnterAlternate \/ LeaveAlternate \/ Resize

Spec == Init /\ [][Next]_vars

-----------------------------------------------------------------------------
\* Sizes, buffers, the scrollback and the saved cursor have the values the code gives
\* them.
TypeOK ==
    /\ rows \in Heights \ {0} /\ cols \in Widths \ {0} /\ shown \in DOMAIN buf
    /\ \A s \in DOMAIN buf :
         /\ Len(buf[s].cells) = rows
         /\ buf[s].top < rows /\ buf[s].bottom < rows
    /\ Len(scrollback) <= Limit
    /\ saved = None \/ saved.old \in BOOLEAN
    /\ line \in 0..MaxLines

\* Output survives (resize, scroll_up): as long as a program only writes lines, or
\* draws on the alternate screen, the scrollback and the primary screen together
\* hold its lines in order, the last one included, and back to the first if the
\* scrollback has not been full, however often clients change the size.  Except
\* after a cursor was restored that was saved before a resize, or a size was asked
\* that has no rows or columns.
LinesOf(rs) == SelectSeq(rs, LAMBDA r : r \notin {Blank, AltText})

HistoryKept ==
    plain /\ ~stale /\ ~fault =>
      LET h == LinesOf(scrollback \o buf["primary"].cells) IN
      /\ Len(h) <= line
      /\ \A i \in DOMAIN h : h[i] = line - Len(h) + i
      /\ Len(h) < line => Len(scrollback) = Limit

\* An operation never indexes outside the screen (performer.rs), unless a cursor was
\* restored that was saved before a resize, a wide character was printed on a screen
\* of one column, or a size without rows or columns was asked.
IndexInBounds == fault => stale \/ cramped

\* The same without the exception: "cursor must follow the content up" when the
\* screen shrinks (mod.rs).
NeverPanics == ~fault

\* "Scrollback belongs to the primary screen" (screen.rs, snapshot_scrollback_chunks).
ScrollbackIsPrimary == AltText \notin {scrollback[i] : i \in DOMAIN scrollback}
==============================================================================
