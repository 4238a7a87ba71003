--------------------------- MODULE ReminderAlarms ---------------------------
(***************************************************************************)
(* The local notifications that ring for reminders, on top of Home and its *)
(* Firestore client.  An alarm is scheduled by the completion of a save in *)
(* Edit and removed by the completion of a deletion in Home; the system    *)
(* keeps it while the app is gone.  Edit's completion holds its screen     *)
(* weakly and closes it, so what it does depends on what has become of the *)
(* screen since.                                                           *)
(*                                                                         *)
(* Add never schedules anything: its scheduleAlarmNotification is not      *)
(* called.  Times are not modelled: an alarm stays after it has rung.      *)
(***************************************************************************)
EXTENDS HomeReminders

CONSTANT Undated    \* contents without a date an alarm can be made of

ASSUME UndatedAssumption == Undated \subseteq Contents

VARIABLES
    alarms,    \* alarms[d]: the content alarm "Reminder_d" was made for
    form,      \* what the form of the Edit screen on top holds
    savers,    \* saves whose completion is awaited: where the Edit screen of each is now
    home,      \* Home's place on the navigation stack
    heard,     \* ghost: what became of the last acknowledgement of an update of d
    unsure     \* ghost: documents an acknowledgement of which was lost on its way

ghostVars == <<heard, unsure>>
alarmVars == <<alarms, form, savers, home, ghostVars>>
allVars   == <<vars, alarmVars>>

\* A popped screen is "leaving" until the animation has ended.
Place == {"open", "leaving", "closed"}

\* An app launched with a user has Home at the root, else Login is below it.
HomePlace == {"root", "pushed", "popped"}

MovedTo(from, to) == [i \in DOMAIN savers |-> IF savers[i] = from THEN to ELSE savers[i]]
Popping == \E i \in DOMAIN savers : savers[i] = "leaving"

-----------------------------------------------------------------------------
(* Gestures.  Nothing can be touched while a screen is being popped.       *)

Touch == home # "popped" /\ ~Popping

HomeGesture ==
    /\ Touch
    /\ \/ \E t \in Texts \cup {NoText} : TextDidChange(t)
       \/ \E d \in Reminders : DeleteAction(d)
       \/ \E d \in Reminders, c \in Contents : AddReminder(d, c)
    /\ UNCHANGED alarmVars

\* Edit loads its copy of the reminder into the form.
OpenEdit(d) ==
    /\ Touch
    /\ DidSelectRow(d)
    /\ form' = filteredRemindersArr[d]
    /\ UNCHANGED <<alarms, savers, home, ghostVars>>

\* Slip: the alarm is scheduled when the save is made.
SaveEditEagerly(c) ==
    /\ Touch
    /\ UpdateReminder(c)
    /\ c \in Undated => form \in Undated
    /\ form' = c
    /\ savers' = Append(savers, "open")
    /\ alarms' = IF c \in Undated THEN alarms ELSE [alarms EXCEPT ![selected] = c]
    /\ UNCHANGED <<home, ghostVars>>

\* A date that was picked, or that the reminder had, cannot be taken away.
SaveEdit(c) ==
    /\ Touch
    /\ UpdateReminder(c)
    /\ c \in Undated => form \in Undated
    /\ form' = c
    /\ savers' = Append(savers, "open")
    /\ UNCHANGED <<alarms, home, ghostVars>>

BackFromEdit ==
    /\ Touch
    /\ CloseEdit
    /\ form' = NoContent
    /\ savers' = MovedTo("open", "leaving")
    /\ UNCHANGED <<alarms, home, ghostVars>>

PopEnds ==
    /\ Popping
    /\ savers' = MovedTo("leaving", "closed")
    /\ UNCHANGED <<vars, alarms, form, home, ghostVars>>

-----------------------------------------------------------------------------
(* Completions.                                                            *)

\* An alarm with the same identifier is replaced; a date that cannot be parsed
\* only shows a warning.  So does a request the notification center refuses: the
\* alarm there was stays, and the screen is closed all the same.
ScheduleAlarmNotification(d, c) ==
    \/ /\ alarms' = IF c \in Undated THEN alarms ELSE [alarms EXCEPT ![d] = c]
       /\ heard' = [heard EXCEPT ![d] = "acted"]
    \/ /\ c \notin Undated
       /\ heard' = [heard EXCEPT ![d] = "missed"]
       /\ UNCHANGED alarms

\* A write that is refused when it is sent again may have been done before.
Doubted(d) == [heard EXCEPT ![d] = IF d \in unsure /\ @ = "acted" THEN "missed" ELSE @]

\* Slip: the alarm is scheduled without a look at the error.
UpdateCompletedUnlooked ==
    LET m == Head(mainQ).mutation
    IN  /\ SaveCompleted
        /\ m.op = "update"
        /\ savers' = Tail(IF savers[1] = "open" /\ Head(mainQ).ok
                          THEN MovedTo("open", "leaving") ELSE savers)
        /\ ScheduleAlarmNotification(m.doc, m.content)
        /\ selected' = IF savers[1] = "open" /\ Head(mainQ).ok THEN NoReminder ELSE selected
        /\ form' = (IF selected' = NoReminder THEN NoContent ELSE form) /\ UNCHANGED <<home, unsure>>

\* Edit's completion.  A closed screen may be gone, or still be held by the half
\* second its alert lasts.  A screen that is there schedules the alarm and asks
\* its navigation controller for a pop: an open one is closed by that, one that
\* is just leaving may take Home with it unless Home is the root, and a closed
\* one has no navigation controller left.
UpdateCompleted ==
    LET m == Head(mainQ).mutation
    IN  /\ SaveCompleted
        /\ m.op = "update"
        /\ savers' = Tail(IF savers[1] = "open" /\ Head(mainQ).ok
                          THEN MovedTo("open", "leaving") ELSE savers)
        /\ \/ /\ Head(mainQ).ok
              /\ ScheduleAlarmNotification(m.doc, m.content)
              /\ selected' = IF savers[1] = "open" THEN NoReminder ELSE selected
              /\ home' \in IF savers[1] = "leaving" /\ home = "pushed"
                           THEN {"pushed", "popped"} ELSE {home}
           \/ /\ Head(mainQ).ok /\ savers[1] = "closed"
              /\ heard' = [heard EXCEPT ![m.doc] = "missed"]
              /\ UNCHANGED <<alarms, selected, home>>
           \/ /\ ~Head(mainQ).ok
              /\ heard' = Doubted(m.doc)
              /\ UNCHANGED <<alarms, selected, home>>
        /\ form' = IF selected' = NoReminder THEN NoContent ELSE form
        /\ UNCHANGED unsure

AddCompleted ==
    /\ SaveCompleted
    /\ Head(mainQ).mutation.op = "set"
    /\ UNCHANGED alarmVars

\* Home's completion removes the alarm after a success.
AlarmDeleteCompleted ==
    /\ DeleteCompleted
    /\ alarms' = IF Head(mainQ).ok THEN [alarms EXCEPT ![Head(mainQ).mutation.doc] = NoContent]
                 ELSE alarms
    /\ heard' = IF Head(mainQ).ok THEN heard ELSE Doubted(Head(mainQ).mutation.doc)
    /\ UNCHANGED <<form, savers, home, unsure>>

\* Completions of updates that have not run are lost with the process.
Unheard == {batches[i].doc : i \in {j \in DOMAIN batches : batches[j].callback}}
           \cup {mainQ[i].mutation.doc : i \in {j \in DOMAIN mainQ : mainQ[j].kind = "written"}}

\* Slip: the saves of the last process are still awaited.
AlarmRestartAwaiting ==
    /\ Restart
    /\ heard' = [d \in Reminders |-> IF d \in Unheard THEN "missed" ELSE heard[d]]
    /\ home' = "root" /\ form' = NoContent
    /\ UNCHANGED <<alarms, savers, unsure>>

AlarmRestart ==
    /\ Restart
    /\ heard' = [d \in Reminders |-> IF d \in Unheard THEN "missed" ELSE heard[d]]
    /\ savers' = <<>> /\ home' = "root" /\ form' = NoContent
    /\ UNCHANGED <<alarms, unsure>>

\* The client and the server go on; an acknowledgement may be lost on its way.
AnswersLost ==
    IF replies' = <<>> /\ batches' = batches
    THEN {batches[i].doc : i \in {j \in DOMAIN replies : replies[j].ok}} ELSE {}

AlarmClient ==
    /\ ClientNext
    /\ unsure' = unsure \cup AnswersLost
    /\ UNCHANGED <<homeVars, alarms, form, savers, home, heard>>

-----------------------------------------------------------------------------
AlarmInit ==
    /\ Init
    /\ alarms = NoDocuments /\ form = NoContent
    /\ savers = <<>> /\ home \in {"root", "pushed"}
    /\ heard = [d \in Reminders |-> "never"] /\ unsure = {}

AlarmUser == \/ HomeGesture
             \/ \E d \in Reminders : OpenEdit(d)
             \/ \E c \in Contents : SaveEdit(c)
             \/ BackFromEdit

AlarmMainQueue == \/ (SnapshotReceived \/ ListenFailed) /\ UNCHANGED alarmVars
                  \/ UpdateCompleted \/ AddCompleted \/ AlarmDeleteCompleted

AlarmNext == AlarmUser \/ AlarmMainQueue \/ AlarmRestart \/ PopEnds \/ AlarmClient

AlarmSpec == AlarmInit /\ [][AlarmNext]_allVars

\* The run loop drains the main queue, the server answers both streams, the
\* client's worker handles what they bring.  Steps of which one follows on the
\* other, or excludes it, share a condition.
AlarmFairSpec ==
    /\ AlarmSpec
    /\ WF_allVars(AlarmMainQueue)
    /\ WF_allVars(ServerCommit /\ UNCHANGED <<homeVars, alarmVars>>)
    /\ WF_allVars((WatchSend \/ ApplyRemoteEvent) /\ UNCHANGED <<homeVars, alarmVars>>)
    /\ WF_allVars((HandleSuccessfulWrite \/ HandleRejectedWrite) /\ UNCHANGED <<homeVars, alarmVars>>)
-----------------------------------------------------------------------------
(* Properties.                                                             *)

\* The completions of updates under way, oldest first, match the awaited saves
\* one by one: what a completion finds out about its screen is about its own.
AlarmsTypeOK ==
    /\ alarms \in View /\ form \in Maybe
    /\ savers \in Seq(Place) /\ Len(savers) = Pending("update")
    /\ home \in HomePlace
    /\ heard \in [Reminders -> {"never", "missed", "acted"}] /\ unsure \subseteq Reminders

\* No alarm rings for a reminder whose deletion has been reported: not even one
\* that a save made before, or made on a row an old snapshot brought back,
\* would schedule when its completion comes.
NoAlarmAfterDeletion == \A d \in deleted : alarms[d] = NoContent

\* With every queue empty and no changes from elsewhere, the alarm of a reminder
\* saved in Edit is the one of the server's document, and there is none if the
\* document is gone, unless the last acknowledgement found nobody to act on it or
\* a notification center that refused the alarm, or was lost on its way and its
\* write refused when it was sent again.  A reminder never saved in Edit has no
\* alarm.
AlarmAgrees ==
    Quiet /\ otherOps = 0 => \A d \in Reminders :
        /\ heard[d] = "acted" /\ server[d].content \notin Undated => alarms[d] = server[d].content
        /\ heard[d] = "never" => alarms[d] = NoContent

\* "Remove the local notification with the obtained identifier" (Home, line
\* 351): when everything is quiet, a reminder that is gone has no alarm.
AlarmsRemoved ==
    Quiet /\ otherOps = 0 => \A d \in Reminders : server[d].content = NoContent => alarms[d] = NoContent
=============================================================================
