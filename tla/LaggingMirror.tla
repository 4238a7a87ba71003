---------------------------- MODULE LaggingMirror ----------------------------
(***************************************************************************)
(* What a snapshot listener promises to the screen that uses it: the view  *)
(* changes under the screen, every change is sent to each listener, and    *)
(* the screen shows what it was sent, in that order, later.  HomeReminders *)
(* implements this module, and ReminderTable builds on it.                 *)
(***************************************************************************)
EXTENDS Naturals, Sequences

CONSTANTS
    Views,        \* what there may be to see
    Nothing,      \* what a screen shows that has been sent nothing
    Newcomers     \* how many listeners may be heard for the first time at once

ASSUME MirrorAssumption == Nothing \in Views /\ Newcomers \subseteq Nat

VARIABLES view, listeners, inbox, shown

mirrorVars == <<view, listeners, inbox, shown>>

Copies(n, v) == [i \in 1..n |-> v]

\* The view becomes v; n listeners are told what there is, the others if it is new.
Change(v, n) ==
    /\ view' = v
    /\ listeners' = listeners + n
    /\ inbox' = inbox \o Copies((IF v # view THEN listeners ELSE 0) + n, v)
    /\ UNCHANGED shown

Take ==
    /\ inbox # <<>>
    /\ shown' = Head(inbox)
    /\ inbox' = Tail(inbox)
    /\ UNCHANGED <<view, listeners>>

\* The listeners are told that they will hear no more.
Refused ==
    /\ listeners' = 0
    /\ UNCHANGED <<view, inbox, shown>>

\* A new process, whose first listener may have its answer at once.
Launch ==
    /\ \E n \in {0, 1} : listeners' = n /\ inbox' = Copies(n, view)
    /\ shown' = Nothing
    /\ UNCHANGED view

MirrorInit == view \in Views /\ listeners = 0 /\ inbox = <<>> /\ shown = Nothing

MirrorNext == \/ \E v \in Views, n \in Newcomers : Change(v, n)
              \/ Take \/ Refused \/ Launch

MirrorSpec == MirrorInit /\ [][MirrorNext]_mirrorVars
=============================================================================
