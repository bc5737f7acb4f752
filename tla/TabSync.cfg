\* Two tabs, one of them with a pane of an SSH connection, room for one more tab, one more
\* pane and one plugin leaf.  Two requests at a time and a client, or one request, the file
\* and a crash.
SPECIFICATION Spec
CONSTANTS
    Panes = {p1, p2, p3, p4}
    Remote = {p2}
    Widgets = {w1}
    Tabs = {t1, t2, t3}
    StartGroups = {{t1, p1}, {t2, p2, p3}, {t3}}
    Handlers = {h1, h2}
    Nobody = Nobody
    MaxClientOps = 2
    MaxFileOps = 1
    MaxCrashes = 1
INVARIANTS
    TypeOK
    InSync
    GoneTabsGo
    OnePlace
    FileCatchesUp
    RestoredOnce
CHECK_DEADLOCK FALSE
