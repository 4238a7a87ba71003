SPECIFICATION Spec
CONSTANTS
    milk = milk
    tea = tea
    letterM = letterM
    Reminders = {r1}
    Contents <- MCContents
    Texts <- MCTexts
    Found <- MCFound
    NoContent = NoContent
    NoText = NoText
    NoReminder = NoReminder
    MaxOther = 1
    MaxFaults = 0
    MaxWrites = 1
INVARIANT SearchRespected
CHECK_DEADLOCK FALSE
