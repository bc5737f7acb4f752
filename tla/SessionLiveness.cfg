\* A widget beside the pane and two generations, under fairness.
CONSTANTS
    NoPane = NoPane
    Panes = {p1}
    Widgets = {w1}
    Tabs = {p1, t1}
    Tasks = {r1}
    MaxGen = 2
    Grace = 1
SPECIFICATION FairSpec
PROPERTIES
    ReservationsReleased
    AbandonedIsReaped
    CloseLeavesNoLeaf
