----------------------------- MODULE LayoutTree -----------------------------
(***************************************************************************)
(* The layout trees of the tabs (src/session/layout.rs) under the handlers *)
(* that split, move, extract and close panes, one handler at a time (what  *)
(* concurrent handlers do to each other is the matter of TabSync).         *)
(*                                                                         *)
(* A node is a leaf with a pane id and a kind ("none" in layouts older     *)
(* than the field), or a split with a direction as it was requested, its   *)
(* children and its ratios, of which only the number is kept.  Next to the *)
(* trees stands what a user sees of them: for each tab its panes in order  *)
(* of reading.                                                             *)
(***************************************************************************)
EXTENDS Naturals, Sequences, SequencesExt

CONSTANTS
    Panes,      \* pane ids
    Terminals,  \* those that are shells
    Tabs,       \* tab ids
    Sides,      \* the directions that are requested
    NoPane      \* no active pane

PanesAssumption == Terminals \subseteq Panes /\ NoPane \notin Panes
SidesAssumption ==
    Sides \subseteq {"left", "right", "top", "bottom", "horizontal", "vertical"}

VARIABLES
    layout,     \* tab -> <<its tree>>, or <<>> without the tab
    active,     \* tab -> its active_pane_id
    reading     \* tab -> its panes in order of reading

vars == <<layout, active, reading>>

First(side) == side \in {"left", "top"}

\* normalize_split_direction
Axis(side) ==
    IF side \in {"top", "bottom", "vertical"} THEN "vertical" ELSE "horizontal"

Leaf(p, kind) == [type |-> "leaf", pane |-> p, kind |-> kind]
Split(dir, kids) ==
    [type |-> "split", dir |-> dir, kids |-> kids, ratios |-> Len(kids)]

-----------------------------------------------------------------------------
(* src/session/layout.rs                                                   *)

RECURSIVE Leaves(_), TerminalLeaves(_), HasPane(_, _), FirstLeaf(_), Found(_, _)
RECURSIVE WithKind(_), Without(_, _), Inserted(_, _, _, _)

Leaves(n) ==
    IF n.type = "leaf" THEN <<n.pane>>
    ELSE FlattenSeq([i \in DOMAIN n.kids |-> Leaves(n.kids[i])])

TerminalLeaves(n) ==
    IF n.type = "leaf"
      THEN IF n.kind \in {"terminal", "none"} THEN <<n.pane>> ELSE <<>>
      ELSE FlattenSeq([i \in DOMAIN n.kids |-> TerminalLeaves(n.kids[i])])

HasPane(n, p) ==
    IF n.type = "leaf" THEN n.pane = p
    ELSE \E i \in DOMAIN n.kids : HasPane(n.kids[i], p)

FirstLeaf(n) == IF n.type = "leaf" THEN n.pane ELSE FirstLeaf(n.kids[1])

\* extract_leaf_from_layout: <<the leaf>>, or <<>>
Found(n, p) ==
    IF n.type = "leaf" THEN IF n.pane = p THEN <<n>> ELSE <<>>
    ELSE FlattenSeq([i \in DOMAIN n.kids |-> Found(n.kids[i], p)])

\* ensure_leaf_kind
WithKind(n) ==
    IF n.type = "split"
      THEN [n EXCEPT !.kids = [i \in DOMAIN @ |-> WithKind(@[i])]]
    ELSE IF n.kind = "none" THEN [n EXCEPT !.kind = "terminal"] ELSE n


\* What becomes of a split whose children are now kids: a single child takes its
\* place, and ratios are dealt out anew when a child is gone.
Shrunk(n, kids) ==
    CASE Len(kids) = 0           -> <<>>
      [] Len(kids) = Len(n.kids) -> <<[n EXCEPT !.kids = kids]>>
      [] Len(kids) = 1           -> kids
      [] OTHER                   -> <<Split(n.dir, kids)>>

\* remove_pane_from_layout: <<the tree without p>>, or <<>> if nothing is left
Without(n, p) ==
    IF n.type = "leaf" THEN IF n.pane = p THEN <<>> ELSE <<n>>
    ELSE Shrunk(n, FlattenSeq([i \in DOMAIN n.kids |-> Without(n.kids[i], p)]))

\* The children of a split after the insertion below it, of which `first' is the
\* first that changed: from there on, those that are splits along the axis of the
\* parent give it their children.
Spliced(n, updated, first) ==
    FlattenSeq([i \in DOMAIN updated |->
        IF /\ i >= first
           /\ updated[i].type = "split"
           /\ Axis(updated[i].dir) = Axis(n.dir)
          THEN updated[i].kids ELSE <<updated[i]>>])

\* insert_pane_into_layout_inner and insert_subtree_into_layout: the target leaf
\* becomes a split of itself and what is added.
Inserted(n, target, dir, pair) ==
    IF n.type = "leaf" THEN IF n.pane = target THEN Split(dir, pair) ELSE n
    ELSE LET updated == [i \in DOMAIN n.kids |->
                           Inserted(n.kids[i], target, dir, pair)]
             changed == {i \in DOMAIN n.kids : updated[i] # n.kids[i]}
         IN  IF changed = {} THEN n
             ELSE Split(n.dir, Spliced(n, updated,
                          CHOOSE i \in changed : \A j \in changed : i <= j))

InsertPane(n, target, side, p) ==
    Inserted(n, target, side, <<Found(n, target)[1], Leaf(p, "none")>>)

InsertSubtree(n, target, side, sub) ==
    LET leaf == Found(n, target)[1] IN
    Inserted(n, target, Axis(side),
             IF First(side) THEN <<sub, leaf>> ELSE <<leaf, sub>>)

-----------------------------------------------------------------------------
(* The handlers.                                                           *)

Present == {t \in Tabs : layout[t] # <<>>}
Tree(t)  == layout[t][1]
Spare    == Panes \ UNION {ToSet(reading[t]) : t \in Tabs}
\* Uuid::new_v4: ids mean nothing, so any spare one will do.
NewTabs == IF Present = Tabs THEN {} ELSE {CHOOSE t \in Tabs : t \notin Present}
NewIn(S) == IF Spare \cap S = {} THEN {} ELSE {CHOOSE p \in S : p \in Spare}

\* insert_tab
Stored(n) == <<WithKind(n)>>

\* The order of reading with what stands in `new' before or after the target.
Beside(s, target, side, new) ==
    LET i == CHOOSE i \in DOMAIN s : s[i] = target IN
    IF First(side) THEN SubSeq(s, 1, i - 1) \o new \o SubSeq(s, i, Len(s))
    ELSE SubSeq(s, 1, i) \o new \o SubSeq(s, i + 1, Len(s))
Less(s, p) == SelectSeq(s, LAMBDA q : q # p)

NewLeaf(p) == Leaf(p, IF p \in Terminals THEN "none" ELSE "plugin")

\* create_tab, create_plugin_tab
CreateTab(t, p) ==
    /\ t \in NewTabs
    /\ p \in NewIn(Terminals) \cup NewIn(Panes \ Terminals)
    /\ layout' = [layout EXCEPT ![t] = Stored(NewLeaf(p))]
    /\ active' = [active EXCEPT ![t] = p]
    /\ reading' = [reading EXCEPT ![t] = <<p>>]

\* split_pane: what is new is always second
SplitPane(t, target, side, p) ==
    /\ t \in Present /\ HasPane(Tree(t), target) /\ p \in NewIn(Terminals)
    /\ layout' = [layout EXCEPT ![t] =
                    Stored(InsertPane(Tree(t), target, side, p))]
    /\ active' = [active EXCEPT ![t] = p]
    /\ reading' = [reading EXCEPT ![t] = Beside(@, target, "right", <<p>>)]

\* insert_non_terminal_pane
AddWidget(t, target, side, p) ==
    /\ t \in Present /\ HasPane(Tree(t), target) /\ p \in NewIn(Panes \ Terminals)
    /\ layout' = [layout EXCEPT ![t] =
                    Stored(InsertSubtree(Tree(t), target, side, NewLeaf(p)))]
    /\ active' = [active EXCEPT ![t] = p]
    /\ reading' = [reading EXCEPT ![t] = Beside(@, target, side, <<p>>)]

\* move_pane without a source pane: the whole tab s goes into t
MergeTab(s, t, target, side) ==
    /\ s \in Present /\ t \in Present /\ s # t /\ HasPane(Tree(t), target)
    /\ LET merged == InsertSubtree(Tree(t), target, side, Tree(s)) IN
       /\ layout' = [layout EXCEPT ![s] = <<>>, ![t] = Stored(merged)]
       /\ active' = [active EXCEPT ![s] = NoPane, ![t] = FirstLeaf(merged)]
    /\ reading' = [reading EXCEPT ![s] = <<>>,
                                  ![t] = Beside(@, target, side, reading[s])]

\* The active pane of a tab after a move or an extraction of p out of it.
LeftBehind(s, p) == FirstLeaf(Without(Tree(s), p)[1])

\* move_pane of one pane from s to t
MovePane(s, p, t, target, side) ==
    /\ s \in Present /\ t \in Present /\ s # t
    /\ HasPane(Tree(t), target) /\ HasPane(Tree(s), p)
    /\ Len(Leaves(Tree(s))) >= 2
    /\ layout' = [layout EXCEPT
         ![s] = Stored(Without(Tree(s), p)[1]),
         ![t] = Stored(InsertSubtree(Tree(t), target, side,
                                     Found(Tree(s), p)[1]))]
    /\ active' = [active EXCEPT ![s] = LeftBehind(s, p), ![t] = p]
    /\ reading' = [reading EXCEPT ![s] = Less(@, p),
                                  ![t] = Beside(@, target, side, <<p>>)]

\* extract_pane: p gets a tab of its own
ExtractPane(s, p, t) ==
    /\ s \in Present /\ t \in NewTabs
    /\ HasPane(Tree(s), p) /\ Len(Leaves(Tree(s))) >= 2
    /\ layout' = [layout EXCEPT ![s] = Stored(Without(Tree(s), p)[1]),
                                ![t] = Stored(Found(Tree(s), p)[1])]
    /\ active' = [active EXCEPT ![s] = LeftBehind(s, p), ![t] = p]
    /\ reading' = [reading EXCEPT ![s] = Less(@, p), ![t] = <<p>>]

\* activate_pane
Activate(t, p) ==
    /\ t \in Present /\ HasPane(Tree(t), p)
    /\ active' = [active EXCEPT ![t] = p]
    /\ UNCHANGED <<layout, reading>>

\* close_pane, purge_pane_from_layouts_locked: the active pane of a tab stays if
\* it is still shown; a tab that is emptied is removed.
ClosePane(t, p) ==
    /\ t \in Present /\ HasPane(Tree(t), p)
    /\ LET rest == Without(Tree(t), p) IN
       /\ layout' = [layout EXCEPT
            ![t] = IF rest = <<>> THEN <<>> ELSE Stored(rest[1])]
       /\ active' = [active EXCEPT
            ![t] = CASE rest = <<>>                        -> NoPane
                     [] rest # <<>> /\ HasPane(rest[1], @) -> @
                     [] OTHER                              -> FirstLeaf(rest[1])]
    /\ reading' = [reading EXCEPT ![t] = Less(@, p)]

Init ==
    /\ layout = [t \in Tabs |-> <<>>]
    /\ active = [t \in Tabs |-> NoPane]
    /\ reading = [t \in Tabs |-> <<>>]

Next ==
    \/ \E t \in Tabs, p \in Panes :
         CreateTab(t, p) \/ Activate(t, p) \/ ClosePane(t, p)
    \/ \E t \in Tabs, q, p \in Panes, side \in Sides :
         SplitPane(t, q, side, p) \/ AddWidget(t, q, side, p)
    \/ \E s, t \in Tabs, q \in Panes, side \in Sides : MergeTab(s, t, q, side)
    \/ \E s, t \in Tabs, p, q \in Panes, side \in Sides : MovePane(s, p, t, q, side)
    \/ \E s, t \in Tabs, p \in Panes : ExtractPane(s, p, t)

Spec == Init /\ [][Next]_vars

-----------------------------------------------------------------------------
(* Properties.                                                             *)

RECURSIVE WellFormed(_)

\* Every split has at least two children, and a ratio for each.
WellFormed(n) ==
    n.type = "split" =>
      /\ Len(n.kids) >= 2 /\ n.ratios = Len(n.kids)
      /\ \A i \in DOMAIN n.kids : WellFormed(n.kids[i])

TypeOK ==
    /\ DOMAIN layout = Tabs /\ active \in [Tabs -> Panes \cup {NoPane}]
    /\ \A t \in Present : WellFormed(Tree(t))

\* However panes are split, moved, merged, extracted and closed, the trees show
\* each tab's panes in the order the user put them, and its shells as shells.
ReadsAsArranged ==
    \A t \in Tabs :
      IF layout[t] = <<>> THEN reading[t] = <<>>
      ELSE /\ Leaves(Tree(t)) = reading[t]
           /\ TerminalLeaves(Tree(t)) =
                SelectSeq(reading[t], LAMBDA p : p \in Terminals)

\* The active pane of a tab is one of its panes.
ActiveIsShown == \A t \in Present : HasPane(Tree(t), active[t])

=============================================================================
