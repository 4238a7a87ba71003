SPECIFICATION FairSpec
CONSTANTS
    SlotCount = 2
    NoImage = NoImage
    Peers = {p1, p2}
    MaxPresses = 2
    MaxReceived = 1
    MaxChanges = 1
    MaxElsewhere = 1
INVARIANTS TypeOK GroupBalanced PicturesInPlace
PROPERTIES ImplementsBatches EveryPressAnswered
CHECK_DEADLOCK FALSE
