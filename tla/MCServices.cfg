\* Every part by itself: what holds in its states and steps.
CONSTANTS
    a = a
    b = b
    c = c
    None = None
    Torn = Torn
    ByHand = ByHand
    Directory = Directory
    Missing = Missing
    Malformed = Malformed
    Windows = Windows
    MacOS = MacOS
    Deb = Deb
    AppImage = AppImage
    Quote = Quote
    Back = Back
    Dollar = Dollar
    Percent = Percent
    Space = Space
    LetterS = LetterS
    Arg = Arg
SPECIFICATION Spec
INVARIANTS
    
    ShownAsReceived
    StoresKeep
    AnswersHold
    ReachesAddressee
PROPERTIES
    StepsTakeNothing
CHECK_DEADLOCK FALSE
