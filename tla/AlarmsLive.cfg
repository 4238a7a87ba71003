SPECIFICATION AlarmFairSpec
CONSTANTS
    walk = walk
    run = run
    idea = idea
    Reminders = {r1}
    Contents <- MCContents
    Undated <- MCUndated
    Texts <- MCNoTexts
    Found <- MCNoFound
    NoContent = NoContent
    NoText = NoText
    NoReminder = NoReminder
    MaxOther = 0
    MaxFaults = 1
    MaxWrites = 2
INVARIANTS AlarmsTypeOK NoAlarmAfterDeletion AlarmAgrees
PROPERTIES ImplementsMirror Converges
CHECK_DEADLOCK FALSE
