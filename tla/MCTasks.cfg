\* The parts with tasks of their own: what happens in the end.
CONSTANTS
    a = a
    b = b
    c = c
    None = None
    Torn = Torn
    ByHand = ByHand
    Directory = Directory
    Missing = Missing
    Malformed = Malformed
    Windows = Windows
    MacOS = MacOS
    Deb = Deb
    AppImage = AppImage
    Quote = Quote
    Back = Back
    Dollar = Dollar
    Percent = Percent
    Space = Space
    LetterS = LetterS
    Arg = Arg
SPECIFICATION TaskSpec
PROPERTIES
    RequestsEnd
    ListenersCatchUp
CHECK_DEADLOCK FALSE
