\* One pane that several generations use in turn, two concurrent tasks.
CONSTANTS
    NoPane = NoPane
    Panes = {p1}
    Widgets = {}
    Tabs = {p1, t1}
    Tasks = {r1, r2}
    MaxGen = 2
    Grace = 1
SPECIFICATION Spec
SYMMETRY TaskSymmetry
INVARIANTS
    TypeOK
    SpawnIsExclusive
    MapHoldsLiveGenerations
    CurrentSessionNotExited
    UnownedAgeIsOwn
PROPERTIES
    ReapOnlyAbandoned
    StagesInOrder
    ImplementsRegistry
