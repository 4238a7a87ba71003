-------------------------- MODULE MCHomeReminders --------------------------
(* HomeReminders on a small instance: two reminders, two contents of which *)
(* the one search text finds the first.                                    *)
EXTENDS HomeReminders, TLC
CONSTANTS milk, tea, letterM
MCContents == {milk, tea}
MCTexts == {letterM}
MCFound == (letterM :> {milk})
MCNoTexts == {}
MCNoFound == <<>>
\* Bound: the other device's change, or a fault, but not both.
MCOneDisturbance == otherOps + faults <= 1
MCSymmetry == Permutations(Reminders)
=============================================================================
