SPECIFICATION Spec
CONSTANT MaxPending = 4
INVARIANTS TypeOK FocusShown Secrecy RestUnlessHurried
CHECK_DEADLOCK FALSE
