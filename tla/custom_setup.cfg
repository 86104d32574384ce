SPECIFICATION FairSpec
CONSTANTS
    Widgets = {w1, w2}
    NoWidget = NoWidget
    Saves = {s1}
    Clients = {s1, o1}
    Shared = {w1}
    OtherOps = {"put", "delete"}
    MaxOpens = 2
INVARIANTS ModalSound
PROPERTIES  WaitingEnds
CHECK_DEADLOCK FALSE
