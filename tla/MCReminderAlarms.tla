-------------------------- MODULE MCReminderAlarms --------------------------
(* ReminderAlarms on a small instance without searches: a walk has a date, *)
(* an idea has none.                                                       *)
EXTENDS ReminderAlarms
CONSTANTS walk, run, idea
MCContents == {walk, run, idea}
MCUndated  == {idea}
MCNoTexts  == {}
MCNoFound  == <<>>
=============================================================================
