SPECIFICATION Spec
CONSTANTS
    r1 = r1
    r2 = r2
    r3 = r3
    Views <- MCEleven
    Nothing <- MCNothing
    Newcomers = {0, 1}
    Hits = {}
    MaxChanges = 2
INVARIANT EveryRowHasAState
CHECK_DEADLOCK FALSE
