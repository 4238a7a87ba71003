SPECIFICATION Spec
CONSTANTS
    SlotCount = 3
    NoImage = NoImage
    Peers = {p1}
    MaxPresses = 2
    MaxReceived = 0
    MaxChanges = 0
    MaxElsewhere = 0
INVARIANT ImagesThere
CHECK_DEADLOCK FALSE
