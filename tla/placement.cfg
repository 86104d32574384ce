SPECIFICATION Spec
CONSTANTS
    weather = weather
    stock = stock
    Widgets = {weather, stock}
    NoWidget = NoWidget
    Start <- MCStart
    GridColumns = 2
    GridRows = {0}
    MaxSpan = 2
    MaxWidgets = 2
    PutsBack = FALSE
    Slots = {s1, s2}
    Drops = 2
    Others = 1
    Fingers = 1
    Patient = TRUE
    NewSpan = 1
    Interval = 1
SYMMETRY Symmetry
INVARIANTS PageSound  FreshUnlessHeld
PROPERTIES DropIsClear
CHECK_DEADLOCK FALSE
