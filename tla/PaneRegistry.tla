---------------------------- MODULE PaneRegistry ----------------------------
(***************************************************************************)
(* What the session manager promises about pane ids, whoever creates,      *)
(* closes, exits or reaps at the same time: a pane has at most one session *)
(* object, an object enters the map only where the pane is vacant, and an  *)
(* object that has left never comes back.                                  *)
(***************************************************************************)
CONSTANTS Panes, Gens, NoGen

VARIABLES
    holder,   \* pane -> the session object that holds it, or NoGen
    spent     \* the session objects that hold or have held their pane

Init == /\ holder = [p \in Panes |-> NoGen]
        /\ spent = {}

Open(p, g) == /\ holder[p] = NoGen
              /\ g \notin spent
              /\ holder' = [holder EXCEPT ![p] = g]
              /\ spent' = spent \cup {g}

Close(p) == /\ holder[p] # NoGen
            /\ holder' = [holder EXCEPT ![p] = NoGen]
            /\ UNCHANGED spent

Next == \E p \in Panes : Close(p) \/ \E g \in Gens : Open(p, g)

Spec == Init /\ [][Next]_<<holder, spent>>
=============================================================================
