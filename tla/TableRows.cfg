SPECIFICATION Spec
CONSTANTS
    r1 = r1
    r2 = r2
    r3 = r3
    Views <- MCLists
    Nothing <- MCNothing
    Newcomers = {0, 1}
    Hits <- MCHits
    MaxChanges = 3
INVARIANTS TypeOK TableMatchesArray CellsSettle
PROPERTY TouchIsSafe
CHECK_DEADLOCK FALSE
