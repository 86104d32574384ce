SPECIFICATION FairSpec
CONSTANTS
    Requests = {r1, r2}
    NoRequest = NoRequest
    Widgets = {w1, w2, w3}
    GridColumns = 2
    GridRows = {0}
    MaxSpan = 2
    MaxWidgets = 2
    Sends = {{"col", "row"}, {"width", "height"}}
INVARIANTS WithinGrid AtMostCap 
PROPERTIES KeepsPromise Answered
CHECK_DEADLOCK FALSE
