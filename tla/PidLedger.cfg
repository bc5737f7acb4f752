\* Three processes and two pids: pids and groups are reused.
CONSTANTS
    None = None
    Servers = {s1, s2}
    Panes = {p1}
    Procs = {n1, n2, n3}
    Pids = {i1, i2}
    Recreate = TRUE
    Unreadable = TRUE
SPECIFICATION Spec
SYMMETRY ProcessSymmetry
INVARIANTS
    TypeOK
    StrangersSpared
PROPERTY ForeignSpared
CHECK_DEADLOCK FALSE
