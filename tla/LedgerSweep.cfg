\* Every pane id is created once and the file can be read; no symmetry, under fairness.
CONSTANTS
    None = None
    Servers = {s1, s2}
    Panes = {p1}
    Procs = {n1, n2, n3}
    Pids = {i1, i2}
    Recreate = FALSE
    Unreadable = FALSE
SPECIFICATION FairSpec
INVARIANT EntryOutlivesProcess
PROPERTY SweepEnds
CHECK_DEADLOCK FALSE
