SPECIFICATION Spec
CONSTANTS
    milk = milk
    tea = tea
    letterM = letterM
    Reminders = {r1, r2}
    Contents <- MCContents
    Texts <- MCTexts
    Found <- MCFound
    NoContent = NoContent
    NoText = NoText
    NoReminder = NoReminder
    MaxOther = 1
    MaxFaults = 1
    MaxWrites = 2
CONSTRAINT MCOneDisturbance
SYMMETRY MCSymmetry
INVARIANTS TypeOK FilteredFromOriginal MirrorsView Settled TableFollows
PROPERTY NoResurrection
CHECK_DEADLOCK FALSE
