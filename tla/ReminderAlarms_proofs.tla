------------------------ MODULE ReminderAlarms_proofs ------------------------
(***************************************************************************)
(* The alarms ride on Home: every behaviour with alarms is a behaviour of  *)
(* HomeReminders, so what is proved of Home holds with Edit's screens and  *)
(* their alarms around it.  No alarm outlives a reported deletion, a       *)
(* completion finds out about its own Edit screen only, every awaited save *)
(* has its completion on the way, and when nothing is on its way the       *)
(* alarms agree with the server's documents.                               *)
(***************************************************************************)
EXTENDS ReminderAlarms, HomeReminders_proofs

\* A step with alarms is one of Home's, or leaves Home alone.
LEMMA AlarmStepIsHomeStep == [AlarmNext]_allVars => [Next]_vars
<1>1. CASE AlarmUser
  <2>1. CASE HomeGesture
    BY <2>1 DEF HomeGesture, Next, User
  <2>2. ASSUME NEW d \in Reminders, OpenEdit(d) PROVE Next
    BY <2>2 DEF OpenEdit, Next, User
  <2>3. ASSUME NEW c \in Contents, SaveEdit(c) PROVE Next
    BY <2>3 DEF SaveEdit, Next, User
  <2>4. CASE BackFromEdit
    BY <2>4 DEF BackFromEdit, Next, User
  <2>. QED
    BY <1>1, <2>1, <2>2, <2>3, <2>4 DEF AlarmUser
<1>2. CASE AlarmMainQueue
  BY <1>2 DEF AlarmMainQueue, UpdateCompleted, AddCompleted, AlarmDeleteCompleted, Next, MainQueue
<1>3. CASE AlarmRestart
  BY <1>3 DEF AlarmRestart, Next
<1>4. CASE PopEnds
  BY <1>4 DEF PopEnds
<1>5. CASE AlarmClient
  BY <1>5 DEF AlarmClient, Next
<1>6. CASE UNCHANGED allVars
  BY <1>6 DEF allVars
<1>. QED
  BY <1>1, <1>2, <1>3, <1>4, <1>5, <1>6 DEF AlarmNext

\* Home with its alarms implements Home without them.
THEOREM AlarmsImplementHome == AlarmSpec => Spec
<1>1. AlarmInit => Init
  BY DEF AlarmInit
<1>. QED
  BY <1>1, AlarmStepIsHomeStep, PTL DEF AlarmSpec, Spec

-----------------------------------------------------------------------------
(* Alarms and deletions.                                                   *)

\* The inductive invariant: what is still on its way to Home for a reminder
\* reported deleted is harmless, an acknowledged save included.
AlarmInv == DeletionsKept /\ alarms \in View /\ NoAlarmAfterDeletion

LEMMA AlarmInvStep == AlarmInv /\ [AlarmNext]_allVars => AlarmInv'
<1> SUFFICES ASSUME AlarmInv, [AlarmNext]_allVars PROVE AlarmInv'
  OBVIOUS
<1>0. DeletionsKept' /\ deleted \subseteq Reminders /\ mainQ \in Seq(Event)
  BY AlarmStepIsHomeStep, DeletionStep, DeletionFacts DEF AlarmInv
<1>1. CASE UNCHANGED <<alarms, deleted>>
  BY <1>0, <1>1 DEF AlarmInv, NoAlarmAfterDeletion
<1>2. CASE UpdateCompleted
  <2> DEFINE m == Head(mainQ).mutation
  <2>1. /\ mainQ # <<>> /\ Head(mainQ).kind = "written" /\ m.op = "update" /\ deleted' = deleted
        /\ \/ alarms' = alarms
           \/ Head(mainQ).ok /\ ScheduleAlarmNotification(m.doc, m.content)
    BY <1>2 DEF UpdateCompleted, SaveCompleted, Turn
  <2>2. CASE alarms' = alarms
    BY <1>1, <2>1, <2>2
  <2>3. CASE Head(mainQ).ok /\ ScheduleAlarmNotification(m.doc, m.content)
    <3>1. m.doc \in Reminders /\ m.content \in Maybe
      <4>1. Head(mainQ) \in Event
        BY <1>0, <2>1, HeadTailProperties
      <4> QED  BY <2>1, <4>1 DEF Event, Mutation
    <3>2. PICK n \in Nat : 1 \in DOMAIN mainQ /\ Head(mainQ) = mainQ[1]
      BY <1>0, <2>1, TailFacts
    <3>3. \A d \in deleted : Harmless(Head(mainQ), d)
      BY <3>2 DEF AlarmInv, DeletionsKept, DeletionInv, OrderOK
    <3>4. m.doc \notin deleted
      BY <2>1, <2>3, <3>3 DEF Harmless, IsSuccess
    <3>5. \/ alarms' = alarms
          \/ alarms' = [alarms EXCEPT ![m.doc] = m.content]
      BY <2>3 DEF ScheduleAlarmNotification
    <3> HIDE DEF m
    <3> QED  BY <1>0, <2>1, <3>1, <3>4, <3>5 DEF AlarmInv, NoAlarmAfterDeletion, View
  <2> QED  BY <2>1, <2>2, <2>3
<1>3. CASE AlarmDeleteCompleted
  <2> DEFINE d == Head(mainQ).mutation.doc
  <2>1. CASE ~Head(mainQ).ok
    <3>1. UNCHANGED <<alarms, deleted>>
      BY <1>3, <2>1 DEF AlarmDeleteCompleted, DeleteCompleted
    <3> QED  BY <1>1, <3>1
  <2>2. CASE Head(mainQ).ok
    <3>1. alarms' = [alarms EXCEPT ![d] = NoContent] /\ deleted' = deleted \cup {d}
      BY <1>3, <2>2 DEF AlarmDeleteCompleted, DeleteCompleted
    <3>2. \A e \in Reminders : alarms'[e] = IF e = d THEN NoContent ELSE alarms[e]
      BY <3>1 DEF AlarmInv, View
    <3>3. alarms' \in View
      BY <3>1 DEF AlarmInv, View, Maybe
    <3>4. deleted' \subseteq Reminders
      BY <1>0 DEF DeletionsKept, TypeOK
    <3> HIDE DEF d
    <3> QED  BY <1>0, <3>1, <3>2, <3>3, <3>4 DEF AlarmInv, NoAlarmAfterDeletion
  <2> QED  BY <2>1, <2>2
<1>4. CASE AlarmUser \/ AlarmRestart \/ PopEnds \/ AlarmClient \/ UNCHANGED allVars
  <2>1. UNCHANGED <<alarms, deleted>>
    <3>1. CASE AlarmUser
      BY <3>1 DEF AlarmUser, HomeGesture, OpenEdit, SaveEdit, BackFromEdit, alarmVars, TextDidChange,
           DeleteAction, AddReminder, DidSelectRow, UpdateReminder, CloseEdit
    <3>2. CASE AlarmRestart \/ PopEnds
      BY <3>2 DEF AlarmRestart, Restart, PopEnds, vars, homeVars
    <3>3. CASE AlarmClient \/ UNCHANGED allVars
      BY <3>3 DEF AlarmClient, allVars, alarmVars, vars, homeVars
    <3> QED  BY <1>4, <3>1, <3>2, <3>3
  <2> QED  BY <1>1, <2>1
<1>5. CASE ((SnapshotReceived \/ ListenFailed) /\ UNCHANGED alarmVars) \/ AddCompleted
  <2>1. UNCHANGED <<alarms, deleted>>
    BY <1>5 DEF SnapshotReceived, ListenFailed, AddCompleted, SaveCompleted, alarmVars, homeVars
  <2> QED  BY <1>1, <2>1
<1> QED  BY <1>2, <1>3, <1>4, <1>5 DEF AlarmNext, AlarmMainQueue

\* No alarm rings for a reminder whose deletion was reported to Home: a save of
\* it is never acknowledged after its deletion, and an alarm set before goes
\* with the report.
THEOREM NoAlarmOutlivesDeletion == AlarmSpec => []NoAlarmAfterDeletion
<1>1. AlarmInit => AlarmInv
  <2> SUFFICES ASSUME AlarmInit PROVE AlarmInv
    OBVIOUS
  <2>1. DeletionsKept
    BY InitDeletions DEF AlarmInit
  <2>2. deleted = {} /\ alarms \in View
    BY DEF AlarmInit, Init, NoDocuments, View, Maybe
  <2> QED  BY <2>1, <2>2 DEF AlarmInv, NoAlarmAfterDeletion
<1>2. AlarmInv => NoAlarmAfterDeletion
  BY DEF AlarmInv
<1> QED  BY <1>1, <1>2, AlarmInvStep, PTL DEF AlarmSpec

-----------------------------------------------------------------------------
(* Awaited saves.                                                          *)

AwaitedFacts == TypeOK /\ PipelineOK /\ AlarmsTypeOK

\* Popping a screen loses no awaited save.
LEMMA MovedSavers ==
    ASSUME AlarmsTypeOK, NEW from, NEW to \in Place
    PROVE  MovedTo(from, to) \in Seq(Place) /\ Len(MovedTo(from, to)) = Len(savers)
<1>1. PICK n \in Nat : Len(savers) = n /\ DOMAIN savers = 1..n
  BY LenProperties DEF AlarmsTypeOK
<1>2. savers \in Seq(Place)
  BY DEF AlarmsTypeOK
<1>3. \A i \in 1..n : MovedTo(from, to)[i] \in Place
  BY <1>1, <1>2 DEF MovedTo
<1>4. DOMAIN MovedTo(from, to) = 1..n /\ MovedTo(from, to) = [i \in 1..n |-> MovedTo(from, to)[i]]
  BY <1>1 DEF MovedTo
<1>5. MovedTo(from, to) \in [1..n -> Place]
  BY <1>3, <1>4
<1> HIDE DEF MovedTo
<1>6. MovedTo(from, to) \in Seq(Place)
  BY <1>5
<1> QED  BY <1>1, <1>4, <1>6, LenProperties

\* The oldest save goes when its answer is heard.
LEMMA OldestSaver ==
    ASSUME NEW s \in Seq(Place), NEW n \in Nat, Len(s) = n + 1
    PROVE  Tail(s) \in Seq(Place) /\ Len(Tail(s)) = n
<1>1. s # <<>>
  BY EmptySeq
<1> QED  BY <1>1, HeadTailProperties

\* Every part of the types that a step leaves alone.
LEMMA AlarmsTyped ==
    ASSUME alarms' \in View, form' \in Maybe, savers' \in Seq(Place), Len(savers') = Pending("update")',
           home' \in HomePlace, heard' \in [Reminders -> {"never", "missed", "acted"}],
           unsure' \subseteq Reminders
    PROVE  AlarmsTypeOK'
  BY DEF AlarmsTypeOK

\* The user's gestures.
LEMMA UserAwaited ==
    ASSUME AwaitedFacts, AlarmUser
    PROVE  AlarmsTypeOK'
<1>0. /\ TypeOK /\ PipelineOK /\ AlarmsTypeOK
      /\ alarms \in View /\ form \in Maybe /\ savers \in Seq(Place) /\ Len(savers) = Pending("update")
      /\ home \in HomePlace /\ heard \in [Reminders -> {"never", "missed", "acted"}] /\ unsure \subseteq Reminders
  BY DEF AwaitedFacts, AlarmsTypeOK
<1>1. CASE HomeGesture
  <2>1. alarmVars' = alarmVars
    BY <1>1 DEF HomeGesture
  <2>2. Pending("update")' = Pending("update")
    <3>1. ASSUME NEW t \in Texts \cup {NoText}, TextDidChange(t) PROVE Pending("update")' = Pending("update")
      BY <3>1 DEF TextDidChange, clientVars, storeVars, eventVars, Pending
    <3>2. ASSUME NEW m \in Mutation \ Calling("update"), WriteMutations(m) PROVE Pending("update")' = Pending("update")
      BY <1>0, <3>2, WritePending
    <3>3. ASSUME NEW d \in Reminders, DeleteAction(d) PROVE Pending("update")' = Pending("update")
      <4>1. [op |-> "delete", doc |-> d, content |-> NoContent, callback |-> TRUE] \in Mutation \ Calling("update")
        BY CallKinds DEF Maybe
      <4> QED  BY <3>2, <3>3, <4>1 DEF DeleteAction
    <3>4. ASSUME NEW d \in Reminders, NEW c \in Contents, AddReminder(d, c) PROVE Pending("update")' = Pending("update")
      <4>1. [op |-> "set", doc |-> d, content |-> c, callback |-> TRUE] \in Mutation \ Calling("update")
        BY CallKinds DEF Maybe
      <4> QED  BY <3>2, <3>4, <4>1 DEF AddReminder
    <3> QED  BY <1>1, <3>1, <3>3, <3>4 DEF HomeGesture
  <2> QED  BY <1>0, <2>1, <2>2, AlarmsTyped DEF alarmVars, ghostVars
<1>2. ASSUME NEW d \in Reminders, OpenEdit(d) PROVE AlarmsTypeOK'
  <2>1. form' \in Maybe /\ UNCHANGED <<alarms, savers, home, ghostVars>>
    BY <1>0, <1>2 DEF OpenEdit, TypeOK, View
  <2>2. Pending("update")' = Pending("update")
    BY <1>2 DEF OpenEdit, DidSelectRow, clientVars, storeVars, eventVars, Pending
  <2> QED  BY <1>0, <2>1, <2>2, AlarmsTyped DEF ghostVars
<1>3. ASSUME NEW c \in Contents, SaveEdit(c) PROVE AlarmsTypeOK'
  <2> DEFINE m == [op |-> "update", doc |-> selected, content |-> c, callback |-> TRUE]
  <2>1. /\ form' \in Maybe /\ UNCHANGED <<alarms, home, ghostVars>>
        /\ savers' = Append(savers, "open") /\ WriteMutations(m) /\ selected \in Reminders
    BY <1>0, <1>3 DEF SaveEdit, UpdateReminder, OnHome, TypeOK, Maybe
  <2>2. m \in Mutation \cap Calling("update")
    BY <2>1, CallKinds DEF Maybe
  <2> HIDE DEF m
  <2>3. PICK n \in Nat : Pending("update") = n /\ Pending("update")' = n + 1
    BY <1>0, <2>1, <2>2, WritePending
  <2>4. savers' \in Seq(Place) /\ Len(savers') = n + 1
    BY <1>0, <2>1, <2>3, AppendProperties DEF Place
  <2> QED  BY <1>0, <2>1, <2>3, <2>4, AlarmsTyped DEF ghostVars
<1>4. CASE BackFromEdit
  <2>1. /\ form' \in Maybe /\ UNCHANGED <<alarms, home, ghostVars>> /\ savers' = MovedTo("open", "leaving")
    BY <1>4 DEF BackFromEdit, Maybe
  <2>2. Pending("update")' = Pending("update")
    BY <1>4 DEF BackFromEdit, CloseEdit, clientVars, storeVars, eventVars, Pending
  <2>3. savers' \in Seq(Place) /\ Len(savers') = Len(savers)
    BY <1>0, <2>1, MovedSavers DEF Place
  <2> QED  BY <1>0, <2>1, <2>2, <2>3, AlarmsTyped DEF ghostVars
<1> QED  BY <1>1, <1>2, <1>3, <1>4 DEF AlarmUser

\* A closure that answers no save leaves the awaited ones as they were.
LEMMA OtherClosure ==
    ASSUME AwaitedFacts, mainQ # <<>>, Head(mainQ) \notin AnswersTo("update"),
           AnswersIn("update", mainQ') = AnswersIn("update", Tail(mainQ)), batches' = batches,
           alarms' \in View, heard' \in [Reminders -> {"never", "missed", "acted"}],
           UNCHANGED <<form, savers, home, unsure>>
    PROVE  AlarmsTypeOK'
<1>1. TypeOK /\ AlarmsTypeOK
  BY DEF AwaitedFacts
<1>2. PICK n \in Nat : Pending("update")' = n /\ Pending("update") = n
  BY <1>1, DequeuePending
<1> QED  BY <1>1, <1>2, AlarmsTyped DEF AlarmsTypeOK

\* A closure that answers a save takes the oldest of the awaited ones.
LEMMA AnswerHeard ==
    ASSUME AwaitedFacts, UpdateCompleted
    PROVE  AlarmsTypeOK'
<1> DEFINE m == Head(mainQ).mutation
           left == IF savers[1] = "open" /\ Head(mainQ).ok THEN MovedTo("open", "leaving") ELSE savers
<1>0. /\ TypeOK /\ AlarmsTypeOK
      /\ alarms \in View /\ form \in Maybe /\ savers \in Seq(Place) /\ Len(savers) = Pending("update")
      /\ home \in HomePlace /\ heard \in [Reminders -> {"never", "missed", "acted"}] /\ unsure \subseteq Reminders
  BY DEF AwaitedFacts, AlarmsTypeOK
<1>1. /\ mainQ # <<>> /\ Head(mainQ).kind = "written" /\ m.op = "update"
      /\ mainQ' = Tail(mainQ) /\ batches' = batches /\ savers' = Tail(left) /\ unsure' = unsure
      /\ form' \in {form, NoContent}
  BY DEF UpdateCompleted, SaveCompleted, Turn, Dequeue, storeVars
<1>2. Head(mainQ) \in AnswersTo("update") /\ m.doc \in Reminders /\ m.content \in Maybe
  BY <1>0, <1>1, NextClosure
<1>3. PICK n \in Nat : Pending("update")' = n /\ Pending("update") = n + 1
  BY <1>0, <1>1, <1>2, DequeuePending
<1>4. left \in Seq(Place) /\ Len(left) = n + 1
  BY <1>0, <1>3, MovedSavers DEF Place
<1>5. savers' \in Seq(Place) /\ Len(savers') = n
  <2> HIDE DEF left
  <2> QED  BY <1>1, <1>3, <1>4, OldestSaver
<1>6. alarms' \in {alarms, [alarms EXCEPT ![m.doc] = m.content]}
  BY DEF UpdateCompleted, ScheduleAlarmNotification
<1>7. heard' \in {[heard EXCEPT ![m.doc] = "acted"], [heard EXCEPT ![m.doc] = "missed"], Doubted(m.doc)}
  BY DEF UpdateCompleted, ScheduleAlarmNotification
<1>8. home' \in {home, "pushed", "popped"}
  BY Zenon DEF UpdateCompleted
<1> HIDE DEF m
<1>9. alarms' \in View
  BY <1>0, <1>2, <1>6 DEF View
<1>10. heard' \in [Reminders -> {"never", "missed", "acted"}]
  BY <1>0, <1>2, <1>7 DEF Doubted
<1>11. home' \in HomePlace /\ form' \in Maybe
  BY <1>0, <1>1, <1>8 DEF HomePlace, Maybe
<1> QED  BY <1>0, <1>1, <1>3, <1>5, <1>9, <1>10, <1>11, AlarmsTyped

\* The closures on the main queue.
LEMMA MainQueueAwaited ==
    ASSUME AwaitedFacts, AlarmMainQueue
    PROVE  AlarmsTypeOK'
<1>0. /\ TypeOK /\ AlarmsTypeOK
      /\ alarms \in View /\ heard \in [Reminders -> {"never", "missed", "acted"}]
  BY DEF AwaitedFacts, AlarmsTypeOK
<1>1. ASSUME Dequeue PROVE AnswersIn("update", mainQ') = AnswersIn("update", Tail(mainQ)) /\ batches' = batches
  BY <1>1 DEF Dequeue, storeVars
<1>2. CASE (SnapshotReceived \/ ListenFailed) /\ UNCHANGED alarmVars
  <2>1. mainQ # <<>> /\ Head(mainQ).kind # "written" /\ Dequeue /\ UNCHANGED alarmVars
    BY <1>2 DEF SnapshotReceived, ListenFailed, Turn
  <2>2. Head(mainQ) \notin AnswersTo("update")
    BY <1>0, <2>1, NextClosure
  <2> QED  BY <1>0, <1>1, <2>1, <2>2, OtherClosure DEF alarmVars, ghostVars
<1>3. CASE UpdateCompleted
  BY <1>3, AnswerHeard
<1>4. CASE AddCompleted
  <2>1. /\ mainQ # <<>> /\ Head(mainQ).kind = "written" /\ Head(mainQ).mutation.op # "update"
        /\ Dequeue /\ UNCHANGED alarmVars
    BY <1>4 DEF AddCompleted, SaveCompleted, Turn
  <2>2. Head(mainQ) \notin AnswersTo("update")
    BY <1>0, <2>1, NextClosure
  <2> QED  BY <1>0, <1>1, <2>1, <2>2, OtherClosure DEF alarmVars, ghostVars
<1>5. CASE AlarmDeleteCompleted
  <2> DEFINE d == Head(mainQ).mutation.doc
  <2>1. /\ mainQ # <<>> /\ Head(mainQ).kind = "written" /\ Head(mainQ).mutation.op # "update"
        /\ AddSnapshotListener(Tail(mainQ)) \/ Dequeue
        /\ alarms' \in {alarms, [alarms EXCEPT ![d] = NoContent]}
        /\ heard' \in {heard, Doubted(d)}
        /\ UNCHANGED <<form, savers, home, unsure>>
    BY <1>5 DEF AlarmDeleteCompleted, DeleteCompleted, Turn
  <2>2. Head(mainQ) \notin AnswersTo("update") /\ d \in Reminders /\ Tail(mainQ) \in Seq(Event)
    BY <1>0, <2>1, NextClosure
  <2>3. AnswersIn("update", mainQ') = AnswersIn("update", Tail(mainQ)) /\ batches' = batches
    BY <1>0, <1>1, <2>1, <2>2, ListenPending
  <2> HIDE DEF d
  <2>4. alarms' \in View
    BY <1>0, <2>1, <2>2 DEF View, Maybe
  <2>5. heard' \in [Reminders -> {"never", "missed", "acted"}]
    BY <1>0, <2>1, <2>2 DEF Doubted
  <2> QED  BY <2>1, <2>2, <2>3, <2>4, <2>5, OtherClosure
<1> QED  BY <1>2, <1>3, <1>4, <1>5 DEF AlarmMainQueue

\* The inductive step of the types.
LEMMA AwaitedStep == AwaitedFacts /\ [AlarmNext]_allVars => AwaitedFacts'
<1> SUFFICES ASSUME AwaitedFacts, [AlarmNext]_allVars PROVE AwaitedFacts'
  OBVIOUS
<1>0. /\ TypeOK /\ PipelineOK /\ AlarmsTypeOK
      /\ alarms \in View /\ form \in Maybe /\ savers \in Seq(Place) /\ Len(savers) = Pending("update")
      /\ home \in HomePlace /\ heard \in [Reminders -> {"never", "missed", "acted"}] /\ unsure \subseteq Reminders
  BY DEF AwaitedFacts, AlarmsTypeOK
<1>1. TypeOK' /\ PipelineOK'
  BY <1>0, AlarmStepIsHomeStep, TypeStep
<1>2. CASE AlarmUser
  BY <1>1, <1>2, UserAwaited DEF AwaitedFacts
<1>3. CASE AlarmMainQueue
  BY <1>1, <1>3, MainQueueAwaited DEF AwaitedFacts
<1>4. CASE AlarmRestart
  <2>1. /\ RestartClient /\ savers' = <<>> /\ home' = "root" /\ form' = NoContent
        /\ UNCHANGED <<alarms, unsure>>
        /\ heard' = [d \in Reminders |-> IF d \in Unheard THEN "missed" ELSE heard[d]]
    BY <1>4 DEF AlarmRestart, Restart
  <2>2. Pending("update")' = 0
    BY <1>0, <2>1, RestartPending
  <2>3. savers' \in Seq(Place) /\ Len(savers') = 0
    BY <2>1, EmptySeq
  <2>4. heard' \in [Reminders -> {"never", "missed", "acted"}]
    BY <1>0, <2>1
  <2>5. form' \in Maybe /\ home' \in HomePlace /\ alarms' \in View /\ unsure' \subseteq Reminders
    BY <1>0, <2>1 DEF Maybe, HomePlace
  <2>6. AlarmsTypeOK'
    BY <2>2, <2>3, <2>4, <2>5, AlarmsTyped
  <2> QED  BY <1>1, <2>6 DEF AwaitedFacts
<1>5. CASE PopEnds
  <2>1. savers' = MovedTo("leaving", "closed") /\ UNCHANGED <<vars, alarms, form, home, ghostVars>>
    BY <1>5 DEF PopEnds
  <2>2. savers' \in Seq(Place) /\ Len(savers') = Len(savers)
    BY <1>0, <2>1, MovedSavers DEF Place
  <2>3. Pending("update")' = Pending("update")
    BY <2>1 DEF vars, clientVars, storeVars, eventVars, Pending
  <2>4. AlarmsTypeOK'
    BY <1>0, <2>1, <2>2, <2>3, AlarmsTyped DEF ghostVars
  <2> QED  BY <1>1, <2>4 DEF AwaitedFacts
<1>6. CASE AlarmClient
  <2>1. ClientNext /\ unsure' = unsure \cup AnswersLost /\ UNCHANGED <<alarms, form, savers, home, heard>>
    BY <1>6 DEF AlarmClient
  <2>2. Pending("update")' = Pending("update")
    BY <1>0, <2>1, ClientPending
  <2>3. AnswersLost \subseteq Reminders
    <3>1. PICK n \in Nat : Len(replies) = n /\ DOMAIN replies = 1..n
      BY <1>0, LenProperties DEF TypeOK, ClientTypeOK
    <3>2. PICK k \in Nat : Len(batches) = k /\ DOMAIN batches = 1..k
      BY <1>0, LenProperties DEF TypeOK, ClientTypeOK
    <3>3. n <= k
      BY <1>0, <3>1, <3>2 DEF PipelineOK
    <3>4. \A i \in 1..k : batches[i] \in Mutation
      BY <1>0, <3>2, ElementOfSeq DEF TypeOK, ClientTypeOK
    <3>5. \A i \in 1..n : batches[i].doc \in Reminders
      BY <3>3, <3>4 DEF Mutation
    <3> QED  BY <3>1, <3>5 DEF AnswersLost
  <2>4. AlarmsTypeOK'
    BY <1>0, <2>1, <2>2, <2>3, AlarmsTyped
  <2> QED  BY <1>1, <2>4 DEF AwaitedFacts
<1>7. CASE UNCHANGED allVars
  <2>1. Pending("update")' = Pending("update")
    BY <1>7 DEF allVars, vars, clientVars, storeVars, eventVars, Pending
  <2>2. AlarmsTypeOK'
    BY <1>0, <1>7, <2>1, AlarmsTyped DEF allVars, alarmVars, ghostVars
  <2> QED  BY <1>1, <2>2 DEF AwaitedFacts
<1> QED  BY <1>2, <1>3, <1>4, <1>5, <1>6, <1>7 DEF AlarmNext

\* Nobody awaits an answer when the app is first started.
LEMMA InitAwaited == AlarmInit => AwaitedFacts
<1> SUFFICES ASSUME AlarmInit PROVE AwaitedFacts
  OBVIOUS
<1>1. TypeOK /\ PipelineOK
  BY InitTypes DEF AlarmInit
<1>2. mainQ = <<>> /\ batches = <<>> /\ savers = <<>>
  BY DEF AlarmInit, Init, ClientInit
<1>3. Pending("update") = 0 /\ savers \in Seq(Place) /\ Len(savers) = 0
  <2>1. Len(<<>>) = 0
    BY EmptySeq
  <2> QED  BY <1>2, <2>1, OnlyOfEmpty DEF Pending
<1>4. /\ alarms \in View /\ form \in Maybe /\ home \in HomePlace
      /\ heard \in [Reminders -> {"never", "missed", "acted"}] /\ unsure \subseteq Reminders
  BY DEF AlarmInit, NoDocuments, View, Maybe, HomePlace
<1> QED  BY <1>1, <1>3, <1>4 DEF AwaitedFacts, AlarmsTypeOK

\* The awaited saves are as many as the answers to them on their way, so a
\* completion always finds an Edit screen to ask about, and every form, alarm
\* and place keeps its shape.
THEOREM AlarmsTypeCorrect == AlarmSpec => []AlarmsTypeOK
<1>1. AwaitedFacts => AlarmsTypeOK
  BY DEF AwaitedFacts
<1> QED  BY <1>1, InitAwaited, AwaitedStep, PTL DEF AlarmSpec

-----------------------------------------------------------------------------
(* Alarms and documents.  What is on its way about a reminder decides what *)
(* its alarm will be: the last success among the answers is the server's   *)
(* content, unless a write that was done before is refused when it is sent *)
(* again, which the document being in doubt stands for.                    *)

\* The answers about d on the main queue, and those on their way to the client.
About(q, d)       == {i \in DOMAIN q : q[i].kind = "written" /\ q[i].mutation.doc = d}
Replied(rp, b, d) == {j \in DOMAIN rp : b[j].doc = d}

\* No success among them, and no refusal that may be of a write done before.
QuietQueue(q, d, u)       == \A i \in About(q, d) : ~q[i].ok /\ d \notin u
QuietReplies(rp, b, d, u) == \A j \in Replied(rp, b, d) : ~rp[j].ok /\ d \notin u

\* The last success brings the content c.
QueueBrings(q, d, u, c) ==
    \A i \in About(q, d) :
        q[i].ok /\ (\A k \in About(q, d) : k > i => ~q[k].ok /\ d \notin u) => q[i].mutation.content = c
RepliesBring(rp, b, d, u, c) ==
    \A j \in Replied(rp, b, d) :
        rp[j].ok /\ (\A k \in Replied(rp, b, d) : k > j => ~rp[k].ok /\ d \notin u) => b[j].content = c

\* A write of d is to be sent again, and may have been done before.
Ahead(rp, b, d, u) == d \in u /\ \E j \in DOMAIN b : j \notin DOMAIN rp /\ b[j].doc = d

\* The alarm is the one of content c, or the last success on its way makes it so.
AgreesAbout(d, q, rp, b, u, c, al, hd) ==
    ~Ahead(rp, b, d, u) =>
        /\ RepliesBring(rp, b, d, u, c)
        /\ QuietReplies(rp, b, d, u) => QueueBrings(q, d, u, c)
        /\ QuietReplies(rp, b, d, u) /\ QuietQueue(q, d, u) /\ hd = "acted" /\ c \notin Undated => al = c

\* Writes restored from disk are the oldest, answer nobody, and their documents
\* have lost an acknowledgement with the process.
RestoredOK(q, b, hd) ==
    /\ \A i, j \in DOMAIN b : i < j /\ ~b[j].callback => ~b[i].callback
    /\ \A i \in DOMAIN b : ~b[i].callback =>
           hd[b[i].doc] # "acted" /\ \A k \in DOMAIN q : q[k].kind # "written"

\* The set that makes a document comes before everything else about it.
MadeFirst(q, b, dr, hd) ==
    /\ \A d \in Reminders : hd[d] = "acted" => d \in dr
    /\ \A i \in DOMAIN b :
           /\ b[i].doc \in dr
           /\ b[i].op = "set" => /\ hd[b[i].doc] # "acted" /\ About(q, b[i].doc) = {}
                                 /\ \A k \in DOMAIN b : k < i => b[k].doc # b[i].doc
           /\ b[i].op = "delete" => b[i].content = NoContent
    /\ \A i \in DOMAIN q : q[i].kind = "written" =>
           /\ q[i].mutation.doc \in dr
           /\ q[i].mutation.op = "set" => /\ hd[q[i].mutation.doc] # "acted"
                                          /\ \A k \in About(q, q[i].mutation.doc) : i <= k
           /\ q[i].mutation.op = "delete" => q[i].mutation.content = NoContent

\* The inductive invariant behind AlarmAgrees.
AllAgree(q, rp, b, u, docs, al, hd, dr, elsewhere) ==
    /\ \A d \in Reminders : hd[d] = "never" => al[d] = NoContent
    /\ RestoredOK(q, b, hd)
    /\ MadeFirst(q, b, dr, hd)
    /\ elsewhere = 0 => \A d \in Reminders : AgreesAbout(d, q, rp, b, u, docs[d].content, al[d], hd[d])

AgreementInv == AllAgree(mainQ, replies, batches, unsure, server, alarms, heard, drawn, otherOps)

\* p is q, with closures after it that answer nobody.
SameAnswers(p, q) == /\ DOMAIN q \subseteq DOMAIN p
                     /\ \A i \in DOMAIN q : p[i] = q[i]
                     /\ \A i \in DOMAIN p : p[i].kind = "written" => i \in DOMAIN q

\* Closures that answer nobody change nothing of what is on its way.
LEMMA AboutSame ==
    ASSUME NEW q, NEW p, SameAnswers(p, q), NEW d, NEW u, NEW c
    PROVE  /\ About(p, d) = About(q, d)
           /\ QuietQueue(p, d, u) <=> QuietQueue(q, d, u)
           /\ QueueBrings(p, d, u, c) <=> QueueBrings(q, d, u, c)
<1>1. About(p, d) = About(q, d)
  BY DEF About, SameAnswers
<1>2. \A i \in About(q, d) : i \in DOMAIN q /\ p[i] = q[i]
  BY DEF About, SameAnswers
<1> QED  BY <1>1, <1>2 DEF QuietQueue, QueueBrings

LEMMA SameAgrees ==
    ASSUME NEW q, NEW p, SameAnswers(p, q), NEW rp, NEW b, NEW u, NEW docs, NEW al, NEW hd, NEW dr, NEW o,
           AllAgree(q, rp, b, u, docs, al, hd, dr, o)
    PROVE  AllAgree(p, rp, b, u, docs, al, hd, dr, o)
<1>1. RestoredOK(p, b, hd)
  <2>1. \A k \in DOMAIN p : p[k].kind = "written" => k \in DOMAIN q /\ p[k] = q[k]
    BY DEF SameAnswers
  <2> QED  BY <2>1 DEF AllAgree, RestoredOK
<1>2. MadeFirst(p, b, dr, hd)
  <2>1. \A k \in DOMAIN p : p[k].kind = "written" => k \in DOMAIN q /\ p[k] = q[k]
    BY DEF SameAnswers
  <2>2. \A d : About(p, d) = About(q, d)
    BY AboutSame
  <2>3. MadeFirst(q, b, dr, hd)
    BY DEF AllAgree
  <2> QED  BY <2>1, <2>2, <2>3 DEF MadeFirst
<1>3. ASSUME o = 0, NEW d \in Reminders
      PROVE  AgreesAbout(d, p, rp, b, u, docs[d].content, al[d], hd[d])
  BY <1>3, AboutSame DEF AllAgree, AgreesAbout
<1> QED  BY <1>1, <1>2, <1>3 DEF AllAgree

LEMMA CopiesAnswerNobody ==
    ASSUME NEW q \in Seq(Event), NEW e \in Event, e.kind # "written", NEW n \in Nat
    PROVE  SameAnswers(q \o [i \in 1..n |-> e], q)
<1> DEFINE t == [i \in 1..n |-> e]
<1>1. t \in Seq(Event) /\ Len(t) = n /\ \A i \in 1..n : t[i] = e
  OBVIOUS
<1>2. PICK k \in Nat : Len(q) = k /\ DOMAIN q = 1..k
  BY LenProperties
<1> HIDE DEF t
<1>3. /\ q \o t \in Seq(Event) /\ Len(q \o t) = k + n
      /\ \A i \in 1..k + n : (q \o t)[i] = IF i <= k THEN q[i] ELSE t[i - k]
  BY <1>1, <1>2, ConcatProperties
<1>4. DOMAIN (q \o t) = 1..k + n
  BY <1>3, LenProperties
<1>5. ASSUME NEW i \in 1..k + n, (q \o t)[i].kind = "written" PROVE i \in 1..k
  <2>1. CASE i \in 1..k
    BY <2>1
  <2>2. CASE i \notin 1..k
    <3>1. i - k \in 1..n /\ ~(i <= k)
      BY <2>2
    <3>2. (q \o t)[i] = t[i - k]
      BY <1>3, <3>1
    <3>3. (q \o t)[i] = e
      BY <1>1, <3>1, <3>2
    <3> QED  BY <1>5, <3>3
  <2> QED  BY <2>1, <2>2
<1>6. \A i \in 1..k : (q \o t)[i] = q[i] /\ i \in 1..k + n
  BY <1>3
<1>7. SameAnswers(q \o t, q)
  BY <1>2, <1>4, <1>5, <1>6 DEF SameAnswers
<1> QED  BY <1>7 DEF t

\* The oldest closure goes.
LEMMA AboutTail ==
    ASSUME NEW q \in Seq(Event), q # <<>>, NEW d, NEW u, NEW c
    PROVE  LET mine == Head(q).kind = "written" /\ Head(q).mutation.doc = d
           IN  /\ QuietQueue(q, d, u) <=> QuietQueue(Tail(q), d, u) /\ (mine => ~Head(q).ok /\ d \notin u)
               /\ QueueBrings(q, d, u, c) => QueueBrings(Tail(q), d, u, c)
               /\ mine /\ Head(q).ok /\ QuietQueue(Tail(q), d, u) /\ QueueBrings(q, d, u, c)
                    => Head(q).mutation.content = c
<1> DEFINE mine == Head(q).kind = "written" /\ Head(q).mutation.doc = d
           t == Tail(q)
<1>1. PICK n \in Nat : /\ DOMAIN q = 1..(n + 1) /\ DOMAIN t = 1..n
                       /\ \A i \in 1..n : t[i] = q[i + 1]
                       /\ Head(q) = q[1] /\ 1 \in DOMAIN q
  BY TailFacts
<1> HIDE DEF t
<1>2. /\ \A i \in About(t, d) : i + 1 \in About(q, d) /\ t[i] = q[i + 1] /\ i \in Nat
      /\ \A i \in About(q, d) : (i = 1 /\ mine) \/ (i - 1 \in About(t, d) /\ q[i] = t[i - 1] /\ i - 1 \in Nat)
      /\ mine => 1 \in About(q, d)
  <2>1. \A i \in 1..n : i + 1 \in 1..(n + 1)
    OBVIOUS
  <2>2. \A i \in 1..(n + 1) : i = 1 \/ (i - 1 \in 1..n /\ (i - 1) + 1 = i)
    OBVIOUS
  <2>3. \A i \in About(q, d) : (i = 1 /\ mine) \/ (i - 1 \in About(t, d) /\ q[i] = t[i - 1] /\ i - 1 \in Nat)
    BY <1>1, <2>2 DEF About
  <2> QED  BY <1>1, <2>1, <2>3 DEF About
<1>3. QuietQueue(q, d, u) <=> QuietQueue(t, d, u) /\ (mine => ~Head(q).ok /\ d \notin u)
  BY <1>1, <1>2 DEF QuietQueue
<1>4. ASSUME QueueBrings(q, d, u, c) PROVE QueueBrings(t, d, u, c)
  <2> SUFFICES ASSUME NEW i \in About(t, d), t[i].ok, \A k \in About(t, d) : k > i => ~t[k].ok /\ d \notin u
               PROVE  t[i].mutation.content = c
    BY DEF QueueBrings
  <2>1. i + 1 \in About(q, d) /\ q[i + 1] = t[i] /\ i \in Nat
    BY <1>2
  <2>2. ASSUME NEW k \in About(q, d), k > i + 1 PROVE ~q[k].ok /\ d \notin u
    <3>1. k - 1 \in About(t, d) /\ q[k] = t[k - 1] /\ k - 1 \in Nat
      BY <1>2, <2>1, <2>2
    <3>2. k \in Nat
      BY <1>1 DEF About
    <3>3. k - 1 > i
      BY <2>1, <2>2, <3>1, <3>2
    <3> QED  BY <3>1, <3>3
  <2> QED  BY <1>4, <2>1, <2>2 DEF QueueBrings
<1>5. ASSUME mine, Head(q).ok, QuietQueue(t, d, u), QueueBrings(q, d, u, c)
      PROVE  Head(q).mutation.content = c
  <2>1. 1 \in About(q, d) /\ q[1].ok /\ q[1] = Head(q)
    BY <1>1, <1>2, <1>5
  <2>2. ASSUME NEW k \in About(q, d), k > 1 PROVE ~q[k].ok /\ d \notin u
    BY <1>2, <1>5, <2>2 DEF QuietQueue
  <2> QED  BY <1>5, <2>1, <2>2 DEF QueueBrings
<1> HIDE DEF mine
<1>6. /\ QuietQueue(q, d, u) <=> QuietQueue(t, d, u) /\ (mine => ~Head(q).ok /\ d \notin u)
      /\ QueueBrings(q, d, u, c) => QueueBrings(t, d, u, c)
      /\ mine /\ Head(q).ok /\ QuietQueue(t, d, u) /\ QueueBrings(q, d, u, c) => Head(q).mutation.content = c
  BY <1>3, <1>4, <1>5
<1> QED  BY <1>6 DEF t, mine

\* One more answer comes.
LEMMA AboutAppend ==
    ASSUME NEW q \in Seq(Event), NEW e \in Event, e.kind = "written", NEW d, NEW u, NEW c
    PROVE  LET p == Append(q, e)
           IN  /\ e.mutation.doc # d => /\ About(p, d) = About(q, d)
                                        /\ QuietQueue(p, d, u) <=> QuietQueue(q, d, u)
                                        /\ QueueBrings(q, d, u, c) => QueueBrings(p, d, u, c)
               /\ e.mutation.doc = d =>
                    /\ QuietQueue(p, d, u) <=> QuietQueue(q, d, u) /\ ~e.ok /\ d \notin u
                    /\ e.ok /\ e.mutation.content = c => QueueBrings(p, d, u, c)
                    /\ ~e.ok /\ (d \in u \/ QueueBrings(q, d, u, c)) => QueueBrings(p, d, u, c)
<1> DEFINE p == Append(q, e)
<1>1. PICK n \in Nat : Len(q) = n /\ DOMAIN q = 1..n
  BY LenProperties
<1>2. DOMAIN p = 1..(n + 1) /\ p[n + 1] = e /\ \A i \in 1..n : p[i] = q[i]
  BY <1>1, AppendProperties, LenProperties
<1> HIDE DEF p
<1>3. /\ \A i \in 1..(n + 1) : i \in 1..n \/ i = n + 1
      /\ \A i \in 1..n : i \in 1..(n + 1) /\ ~(i > n + 1) /\ n + 1 > i /\ i # n + 1
      /\ n + 1 \in 1..(n + 1)
  OBVIOUS
<1>4. CASE e.mutation.doc # d
  <2>1. About(p, d) = About(q, d)
    BY <1>1, <1>2, <1>3, <1>4 DEF About
  <2>2. \A i \in About(q, d) : i \in DOMAIN q /\ p[i] = q[i]
    BY <1>1, <1>2 DEF About
  <2>3. /\ QuietQueue(p, d, u) <=> QuietQueue(q, d, u)
        /\ QueueBrings(q, d, u, c) => QueueBrings(p, d, u, c)
    BY <2>1, <2>2 DEF QuietQueue, QueueBrings
  <2> QED  BY <1>4, <2>1, <2>3 DEF p
<1>5. CASE e.mutation.doc = d
  <2>1. About(p, d) = About(q, d) \cup {n + 1}
    BY <1>1, <1>2, <1>3, <1>5 DEF About
  <2>2. \A i \in About(q, d) : i \in 1..n /\ p[i] = q[i]
    BY <1>1, <1>2 DEF About
  <2>3. QuietQueue(p, d, u) <=> QuietQueue(q, d, u) /\ ~e.ok /\ d \notin u
    BY <1>2, <2>1, <2>2 DEF QuietQueue
  <2>4. ASSUME e.ok, e.mutation.content = c PROVE QueueBrings(p, d, u, c)
    BY <1>2, <1>3, <2>1, <2>2, <2>4 DEF QueueBrings
  <2>5. ASSUME ~e.ok, d \in u \/ QueueBrings(q, d, u, c) PROVE QueueBrings(p, d, u, c)
    BY <1>2, <1>3, <2>1, <2>2, <2>5 DEF QueueBrings
  <2> QED  BY <1>5, <2>3, <2>4, <2>5 DEF p
<1> QED  BY <1>4, <1>5

\* Telling the listeners of a view answers nobody; neither does registering one.
LEMMA EmitAgrees ==
    ASSUME raised \in Nat, waiting \in Nat, NEW q \in Seq(Event), NEW v \in View,
           NEW current, NEW state, EmitSnapshots(q, v, current, state)
    PROVE  SameAnswers(mainQ', q)
<1> DEFINE fresh == IF RaisesInitial(v, current, state) THEN waiting ELSE 0
           n     == (IF v # CurrentView THEN raised ELSE 0) + fresh
<1>1. n \in Nat
  OBVIOUS
<1>2. mainQ' = q \o [i \in 1..n |-> Snapshot(v)]
  BY Zenon DEF EmitSnapshots
<1> HIDE DEF n, fresh
<1>3. Snapshot(v) \in Event /\ Snapshot(v).kind # "written"
  BY DEF Snapshot, Event
<1> QED  BY <1>1, <1>2, <1>3, CopiesAnswerNobody

LEMMA ListenAgrees ==
    ASSUME TypeOK, NEW q \in Seq(Event), AddSnapshotListener(q)
    PROVE  SameAnswers(mainQ', q)
<1>1. mainQ' = q \/ mainQ' = Append(q, Snapshot(CurrentView))
  BY DEF AddSnapshotListener
<1>2. Snapshot(CurrentView) \in Event /\ Snapshot(CurrentView).kind # "written"
  BY LocalViewType DEF CurrentView, TypeOK, ClientTypeOK, Snapshot, Event
<1>3. Append(q, Snapshot(CurrentView)) = q \o [i \in 1..1 |-> Snapshot(CurrentView)]
  <2>1. [i \in 1..1 |-> Snapshot(CurrentView)] = <<Snapshot(CurrentView)>>
    OBVIOUS
  <2> QED  BY <1>2, <2>1, AppendIsConcat
<1>4. CASE mainQ' = q
  BY <1>4 DEF SameAnswers
<1>5. CASE mainQ' = Append(q, Snapshot(CurrentView))
  BY <1>2, <1>3, <1>5, CopiesAnswerNobody
<1> QED  BY <1>1, <1>4, <1>5

\* The oldest closure is run.  If it answers a write of d, what it does to the
\* alarm of d is what the invariant says of its answer.
LEMMA HeardAgrees ==
    ASSUME NEW q \in Seq(Event), q # <<>>, NEW rp, NEW b \in Seq(Mutation), NEW u, NEW docs, NEW al, NEW hd,
           NEW dr, NEW o, NEW al2, NEW hd2, AllAgree(q, rp, b, u, docs, al, hd, dr, o),
           Head(q).kind # "written" => \A d \in Reminders : al2[d] = al[d] /\ hd2[d] = hd[d],
           Head(q).kind = "written" =>
              LET m == Head(q).mutation
              IN  /\ \A d \in Reminders : d # m.doc => al2[d] = al[d] /\ hd2[d] = hd[d]
                  /\ hd2[m.doc] = "never" => al2[m.doc] = NoContent
                  /\ hd2[m.doc] = "acted" /\ Head(q).ok /\ m.content \notin Undated
                       => al2[m.doc] = m.content
                  /\ hd2[m.doc] = "acted" /\ m.op = "set" => hd[m.doc] = "acted"
                  /\ hd2[m.doc] = "acted" /\ ~Head(q).ok
                       => al2[m.doc] = al[m.doc] /\ hd[m.doc] = "acted" /\ m.doc \notin u
    PROVE  AllAgree(Tail(q), rp, b, u, docs, al2, hd2, dr, o)
<1> DEFINE e == Head(q)
           m == Head(q).mutation
           t == Tail(q)
<1>1. PICK n \in Nat : /\ DOMAIN q = 1..(n + 1) /\ DOMAIN t = 1..n
                       /\ \A i \in 1..n : t[i] = q[i + 1]
                       /\ Head(q) = q[1] /\ 1 \in DOMAIN q
  BY TailFacts
<1>2. \A i \in 1..n : i + 1 \in 1..(n + 1) /\ i + 1 # 1 /\ i \in Nat
  OBVIOUS
<1>3. \A i \in DOMAIN b : b[i].doc \in Reminders
  <2>1. \A i \in DOMAIN b : b[i] \in Mutation
    BY ElementOfSeq, LenProperties
  <2> QED  BY <2>1 DEF Mutation
<1>4. \A i \in DOMAIN q : q[i].kind = "written" => q[i].mutation.doc \in Reminders
  <2>1. \A i \in DOMAIN q : q[i] \in Event
    BY ElementOfSeq, LenProperties
  <2> QED  BY <2>1 DEF Event, Mutation
<1>5. RestoredOK(q, b, hd) /\ MadeFirst(q, b, dr, hd)
  BY DEF AllAgree
<1> HIDE DEF t
<1>6. \A d \in Reminders : hd2[d] = "never" => al2[d] = NoContent
  BY DEF AllAgree
<1>7. RestoredOK(t, b, hd2)
  <2>1. ASSUME NEW i \in DOMAIN b, ~b[i].callback
        PROVE  hd2[b[i].doc] # "acted" /\ \A k \in DOMAIN t : t[k].kind # "written"
    <3>1. hd[b[i].doc] # "acted" /\ \A k \in DOMAIN q : q[k].kind # "written"
      BY <1>5, <2>1 DEF RestoredOK
    <3>2. b[i].doc \in Reminders /\ e.kind # "written"
      BY <1>1, <1>3, <3>1
    <3>3. hd2[b[i].doc] # "acted"
      BY <3>1, <3>2
    <3>4. \A k \in DOMAIN t : t[k].kind # "written"
      BY <1>1, <1>2, <3>1
    <3> QED  BY <3>3, <3>4
  <2>2. \A i, j \in DOMAIN b : i < j /\ ~b[j].callback => ~b[i].callback
    BY <1>5 DEF RestoredOK
  <2> QED  BY <2>1, <2>2 DEF RestoredOK
<1>8. \A d : \A i \in About(t, d) : i \in Nat /\ i + 1 \in About(q, d) /\ t[i] = q[i + 1]
  BY <1>1, <1>2 DEF About
<1>9. ASSUME NEW d \in Reminders, hd2[d] = "acted"
      PROVE  d \in dr /\ (hd[d] # "acted" => e.kind = "written" /\ m.doc = d /\ m.op # "set" /\ 1 \in About(q, d))
  <2>1. CASE hd[d] = "acted"
    BY <1>5, <2>1 DEF MadeFirst
  <2>2. CASE hd[d] # "acted"
    <3>1. e.kind = "written" /\ m.doc = d
      BY <1>9, <2>2
    <3>2. m.op # "set"
      BY <1>9, <2>2, <3>1
    <3>3. d \in dr
      BY <1>1, <1>5, <3>1 DEF MadeFirst
    <3> QED  BY <1>1, <3>1, <3>2, <3>3 DEF About
  <2> QED  BY <2>1, <2>2
<1>10. MadeFirst(t, b, dr, hd2)
  <2>1. ASSUME NEW i \in DOMAIN b
        PROVE  /\ b[i].doc \in dr
               /\ b[i].op = "set" => /\ hd2[b[i].doc] # "acted" /\ About(t, b[i].doc) = {}
                                     /\ \A k \in DOMAIN b : k < i => b[k].doc # b[i].doc
               /\ b[i].op = "delete" => b[i].content = NoContent
    <3>1. /\ b[i].doc \in dr
          /\ b[i].op = "delete" => b[i].content = NoContent
          /\ b[i].op = "set" => /\ hd[b[i].doc] # "acted" /\ About(q, b[i].doc) = {}
                                /\ \A k \in DOMAIN b : k < i => b[k].doc # b[i].doc
      BY <1>5, <2>1 DEF MadeFirst
    <3>2. ASSUME b[i].op = "set" PROVE hd2[b[i].doc] # "acted" /\ About(t, b[i].doc) = {}
      BY <1>3, <1>8, <1>9, <3>1, <3>2
    <3> QED  BY <3>1, <3>2
  <2>2. ASSUME NEW i \in DOMAIN t, t[i].kind = "written"
        PROVE  /\ t[i].mutation.doc \in dr
               /\ t[i].mutation.op = "set" => /\ hd2[t[i].mutation.doc] # "acted"
                                              /\ \A k \in About(t, t[i].mutation.doc) : i <= k
               /\ t[i].mutation.op = "delete" => t[i].mutation.content = NoContent
    <3>1. i \in Nat /\ i + 1 \in DOMAIN q /\ q[i + 1] = t[i] /\ ~(i + 1 <= 1)
      BY <1>1, <1>2, <2>2
    <3>2. /\ t[i].mutation.doc \in dr
          /\ t[i].mutation.op = "set" => /\ hd[t[i].mutation.doc] # "acted"
                                         /\ \A k \in About(q, t[i].mutation.doc) : i + 1 <= k
          /\ t[i].mutation.op = "delete" => t[i].mutation.content = NoContent
      BY <1>5, <2>2, <3>1 DEF MadeFirst
    <3>3. ASSUME t[i].mutation.op = "set"
          PROVE  hd2[t[i].mutation.doc] # "acted" /\ \A k \in About(t, t[i].mutation.doc) : i <= k
      <4>1. t[i].mutation.doc \in Reminders
        BY <1>4, <2>2, <3>1
      <4>2. 1 \notin About(q, t[i].mutation.doc)
        BY <3>1, <3>2, <3>3
      <4>3. hd2[t[i].mutation.doc] # "acted"
        BY <1>9, <3>2, <3>3, <4>1, <4>2
      <4>4. ASSUME NEW k \in About(t, t[i].mutation.doc) PROVE i <= k
        <5>1. k \in Nat /\ i + 1 <= k + 1
          BY <1>8, <3>2, <3>3
        <5> QED  BY <3>1, <5>1
      <4> QED  BY <4>3, <4>4
    <3> QED  BY <3>2, <3>3
  <2>3. \A d \in Reminders : hd2[d] = "acted" => d \in dr
    BY <1>9
  <2> QED  BY <2>1, <2>2, <2>3 DEF MadeFirst
<1>11. ASSUME o = 0, NEW d \in Reminders
       PROVE  AgreesAbout(d, t, rp, b, u, docs[d].content, al2[d], hd2[d])
  <2> DEFINE mine == e.kind = "written" /\ m.doc = d
  <2>0. PICK c : c = docs[d].content
    OBVIOUS
  <2>1. AgreesAbout(d, q, rp, b, u, c, al[d], hd[d])
    BY <1>11, <2>0 DEF AllAgree
  <2>2. /\ QuietQueue(q, d, u) <=> QuietQueue(t, d, u) /\ (mine => ~e.ok /\ d \notin u)
        /\ QueueBrings(q, d, u, c) => QueueBrings(t, d, u, c)
        /\ mine /\ e.ok /\ QuietQueue(t, d, u) /\ QueueBrings(q, d, u, c) => m.content = c
    BY AboutTail DEF t
  <2>3. CASE ~mine
    <3>1. al2[d] = al[d] /\ hd2[d] = hd[d]
      BY <2>3
    <3> HIDE DEF mine
    <3> QED  BY <2>0, <2>1, <2>2, <2>3, <3>1 DEF AgreesAbout
  <2>4. CASE mine /\ e.ok
    <3>1. hd2[d] = "acted" /\ m.content \notin Undated => al2[d] = m.content
      BY <2>4
    <3> HIDE DEF mine, m, e
    <3> QED  BY <2>0, <2>1, <2>2, <2>4, <3>1 DEF AgreesAbout
  <2>5. CASE mine /\ ~e.ok
    <3>1. hd2[d] = "acted" => al2[d] = al[d] /\ hd[d] = "acted" /\ d \notin u
      BY <2>5
    <3> HIDE DEF mine, m, e
    <3> QED  BY <2>0, <2>1, <2>2, <2>5, <3>1 DEF AgreesAbout
  <2> QED  BY <2>3, <2>4, <2>5
<1> QED  BY <1>6, <1>7, <1>10, <1>11 DEF AllAgree, t

\* A write joins the queue.  A set makes a document nothing is known of.
LEMMA WrittenAgrees ==
    ASSUME NEW q \in Seq(Event), NEW rp \in Seq(Reply), NEW b \in Seq(Mutation), Len(rp) <= Len(b),
           NEW u, NEW docs, NEW al, NEW hd, NEW dr, NEW o, AllAgree(q, rp, b, u, docs, al, hd, dr, o),
           NEW m \in Mutation, m.callback, m.op = "set" => m.doc \notin dr,
           m.op = "delete" => m.content = NoContent
    PROVE  AllAgree(q, rp, Append(b, m), u, docs, al, hd, dr \cup {m.doc}, o)
<1> DEFINE bb == Append(b, m)
<1>1. PICK n \in Nat : Len(b) = n /\ DOMAIN b = 1..n
  BY LenProperties
<1>2. PICK k \in Nat : Len(rp) = k /\ DOMAIN rp = 1..k
  BY LenProperties
<1>3. DOMAIN bb = 1..(n + 1) /\ bb[n + 1] = m /\ \A i \in 1..n : bb[i] = b[i]
  BY <1>1, AppendProperties, LenProperties
<1>4. /\ \A j \in 1..k : j \in 1..n
      /\ \A i \in 1..(n + 1) : i \in 1..n \/ i = n + 1
      /\ \A i \in 1..n : i \in 1..(n + 1) /\ ~(n + 1 < i)
  BY <1>1, <1>2
<1> HIDE DEF bb
<1>5. RestoredOK(q, b, hd) /\ MadeFirst(q, b, dr, hd)
  BY DEF AllAgree
<1>6. RestoredOK(q, bb, hd)
  BY <1>1, <1>3, <1>4, <1>5 DEF RestoredOK
<1>7. ASSUME m.op = "set" PROVE hd[m.doc] # "acted" /\ About(q, m.doc) = {} /\ \A i \in DOMAIN b : b[i].doc # m.doc
  <2>1. m.doc \in Reminders /\ m.doc \notin dr
    BY <1>7 DEF Mutation
  <2> QED  BY <1>5, <2>1 DEF MadeFirst, About
<1>8. MadeFirst(q, bb, dr \cup {m.doc}, hd)
  <2>1. ASSUME NEW i \in DOMAIN bb
        PROVE  /\ bb[i].doc \in dr \cup {m.doc}
               /\ bb[i].op = "set" => /\ hd[bb[i].doc] # "acted" /\ About(q, bb[i].doc) = {}
                                      /\ \A j \in DOMAIN bb : j < i => bb[j].doc # bb[i].doc
               /\ bb[i].op = "delete" => bb[i].content = NoContent
    <3>1. CASE i \in 1..n
      <4>1. bb[i] = b[i] /\ \A j \in DOMAIN bb : j < i => j \in DOMAIN b /\ bb[j] = b[j]
        BY <1>1, <1>3, <1>4, <3>1
      <4>2. /\ b[i].doc \in dr
            /\ b[i].op = "set" => /\ hd[b[i].doc] # "acted" /\ About(q, b[i].doc) = {}
                                  /\ \A j \in DOMAIN b : j < i => b[j].doc # b[i].doc
            /\ b[i].op = "delete" => b[i].content = NoContent
        BY <1>1, <1>5, <3>1 DEF MadeFirst
      <4>3. b[i].op = "set" => \A j \in DOMAIN bb : j < i => bb[j].doc # bb[i].doc
        BY <4>1, <4>2
      <4> QED  BY <4>1, <4>2, <4>3
    <3>2. CASE i = n + 1
      <4>1. bb[i] = m /\ \A j \in DOMAIN bb : j < i => j \in DOMAIN b /\ bb[j] = b[j]
        BY <1>1, <1>3, <1>4, <3>2
      <4> QED  BY <1>7, <4>1
    <3> QED  BY <1>3, <1>4, <3>1, <3>2
  <2>2. ASSUME NEW i \in DOMAIN q, q[i].kind = "written"
        PROVE  /\ q[i].mutation.doc \in dr
               /\ q[i].mutation.op = "set" => /\ hd[q[i].mutation.doc] # "acted"
                                              /\ \A j \in About(q, q[i].mutation.doc) : i <= j
               /\ q[i].mutation.op = "delete" => q[i].mutation.content = NoContent
    BY <1>5, <2>2 DEF MadeFirst
  <2>3. \A d \in Reminders : hd[d] = "acted" => d \in dr
    BY <1>5 DEF MadeFirst
  <2> QED  BY <2>1, <2>2, <2>3 DEF MadeFirst
<1>9. ASSUME o = 0, NEW d \in Reminders
      PROVE  AgreesAbout(d, q, rp, bb, u, docs[d].content, al[d], hd[d])
  <2>0. PICK c : c = docs[d].content
    OBVIOUS
  <2>1. AgreesAbout(d, q, rp, b, u, c, al[d], hd[d])
    BY <1>9, <2>0 DEF AllAgree
  <2>2. Replied(rp, bb, d) = Replied(rp, b, d) /\ \A j \in Replied(rp, b, d) : bb[j] = b[j]
    BY <1>2, <1>3, <1>4 DEF Replied
  <2>3. /\ QuietReplies(rp, bb, d, u) <=> QuietReplies(rp, b, d, u)
        /\ RepliesBring(rp, bb, d, u, c) <=> RepliesBring(rp, b, d, u, c)
    BY <2>2 DEF QuietReplies, RepliesBring
  <2>4. Ahead(rp, b, d, u) => Ahead(rp, bb, d, u)
    BY <1>1, <1>3, <1>4 DEF Ahead
  <2> QED  BY <2>0, <2>1, <2>3, <2>4 DEF AgreesAbout
<1> QED  BY <1>6, <1>8, <1>9 DEF AllAgree, bb

\* Another device changes a document, and nothing more is said of alarms.
LEMMA ElsewhereAgrees ==
    ASSUME NEW q, NEW rp, NEW b, NEW u, NEW docs, NEW al, NEW hd, NEW dr, NEW o,
           AllAgree(q, rp, b, u, docs, al, hd, dr, o),
           NEW docs2, NEW dr2, dr \subseteq dr2, NEW o2, o2 # 0
    PROVE  AllAgree(q, rp, b, u, docs2, al, hd, dr2, o2)
<1>1. MadeFirst(q, b, dr2, hd)
  <2>1. MadeFirst(q, b, dr, hd)
    BY DEF AllAgree
  <2> QED  BY <2>1 DEF MadeFirst
<1> QED  BY <1>1 DEF AllAgree

\* The server answers the next batch: what it says is newer than every answer on
\* its way, and is what its document then holds.
LEMMA CommitAgrees ==
    ASSUME NEW q, NEW rp \in Seq(Reply), NEW b \in Seq(Mutation), Len(rp) < Len(b),
           NEW u, NEW docs, NEW al, NEW hd, NEW dr, NEW o, AllAgree(q, rp, b, u, docs, al, hd, dr, o),
           NEW r \in Reply, NEW docs2,
           LET m == b[Len(rp) + 1]
           IN  /\ \A d \in Reminders : d # m.doc => docs2[d] = docs[d]
               /\ r.ok => docs2[m.doc].content = m.content
               /\ ~r.ok => docs2[m.doc] = docs[m.doc]
    PROVE  AllAgree(q, Append(rp, r), b, u, docs2, al, hd, dr, o)
<1> DEFINE rr == Append(rp, r)
<1>1. PICK n \in Nat : Len(b) = n /\ DOMAIN b = 1..n
  BY LenProperties
<1>2. PICK k \in Nat : Len(rp) = k /\ DOMAIN rp = 1..k
  BY LenProperties
<1> DEFINE m == b[k + 1]
<1>3. DOMAIN rr = 1..(k + 1) /\ rr[k + 1] = r /\ \A i \in 1..k : rr[i] = rp[i]
  BY <1>2, AppendProperties, LenProperties
<1>4. /\ k + 1 \in 1..n /\ k + 1 \in 1..(k + 1) /\ k + 1 \notin 1..k
      /\ \A i \in 1..(k + 1) : i \in 1..k \/ i = k + 1
      /\ \A i \in 1..k : i \in 1..(k + 1) /\ k + 1 > i /\ ~(i > k + 1) /\ i # k + 1
      /\ ~(k + 1 > k + 1)
  BY <1>1, <1>2
<1>5. /\ \A d \in Reminders : d # m.doc => docs2[d] = docs[d]
      /\ r.ok => docs2[m.doc].content = m.content
      /\ ~r.ok => docs2[m.doc] = docs[m.doc]
  BY <1>2
<1> HIDE DEF rr
<1>6. ASSUME o = 0, NEW d \in Reminders
      PROVE  AgreesAbout(d, q, rr, b, u, docs2[d].content, al[d], hd[d])
  <2>0. PICK c, c2 : c = docs[d].content /\ c2 = docs2[d].content
    OBVIOUS
  <2>1. AgreesAbout(d, q, rp, b, u, c, al[d], hd[d])
    BY <1>6, <2>0 DEF AllAgree
  <2>2. \A j \in Replied(rp, b, d) : j \in 1..k /\ rr[j] = rp[j]
    BY <1>2, <1>3 DEF Replied
  <2>3. CASE m.doc # d
    <3>1. c2 = c
      BY <1>5, <2>0, <2>3
    <3>2. Replied(rr, b, d) = Replied(rp, b, d)
      BY <1>2, <1>3, <1>4, <2>3 DEF Replied
    <3>3. /\ QuietReplies(rr, b, d, u) <=> QuietReplies(rp, b, d, u)
          /\ RepliesBring(rr, b, d, u, c) <=> RepliesBring(rp, b, d, u, c)
      BY <2>2, <3>2 DEF QuietReplies, RepliesBring
    <3>4. Ahead(rr, b, d, u) <=> Ahead(rp, b, d, u)
      BY <1>2, <1>3, <1>4, <2>3 DEF Ahead
    <3> QED  BY <2>0, <2>1, <3>1, <3>3, <3>4 DEF AgreesAbout
  <2>4. CASE m.doc = d
    <3>1. Replied(rr, b, d) = Replied(rp, b, d) \cup {k + 1}
      BY <1>2, <1>3, <1>4, <2>4 DEF Replied
    <3>2. CASE r.ok
      <4>1. c2 = m.content
        BY <1>5, <2>0, <2>4, <3>2
      <4>2. ~QuietReplies(rr, b, d, u)
        BY <1>3, <3>1, <3>2 DEF QuietReplies
      <4>3. RepliesBring(rr, b, d, u, c2)
        BY <1>3, <1>4, <2>2, <3>1, <3>2, <4>1 DEF RepliesBring
      <4> QED  BY <2>0, <4>2, <4>3 DEF AgreesAbout
    <3>3. CASE ~r.ok
      <4>1. c2 = c
        BY <1>5, <2>0, <2>4, <3>3
      <4>2. QuietReplies(rr, b, d, u) <=> QuietReplies(rp, b, d, u) /\ d \notin u
        BY <1>3, <2>2, <3>1, <3>3 DEF QuietReplies
      <4>3. d \in u \/ RepliesBring(rp, b, d, u, c) => RepliesBring(rr, b, d, u, c)
        BY <1>3, <1>4, <2>2, <3>1, <3>3 DEF RepliesBring
      <4>4. Ahead(rp, b, d, u) => d \in u
        BY DEF Ahead
      <4> QED  BY <2>0, <2>1, <4>1, <4>2, <4>3, <4>4 DEF AgreesAbout
    <3> QED  BY <3>2, <3>3
  <2> QED  BY <2>3, <2>4
<1> QED  BY <1>6 DEF AllAgree, rr

\* The oldest answer leaves the stream.
LEMMA RepliesOldest ==
    ASSUME NEW rp \in Seq(Reply), rp # <<>>, NEW b \in Seq(Mutation), Len(rp) <= Len(b),
           NEW d, NEW u, NEW c
    PROVE  LET r == Head(rp)
               m == Head(b)
           IN  /\ QuietReplies(rp, b, d, u) <=>
                    QuietReplies(Tail(rp), Tail(b), d, u) /\ (m.doc = d => ~r.ok /\ d \notin u)
               /\ RepliesBring(rp, b, d, u, c) => RepliesBring(Tail(rp), Tail(b), d, u, c)
               /\ m.doc = d /\ r.ok /\ QuietReplies(Tail(rp), Tail(b), d, u) /\ RepliesBring(rp, b, d, u, c)
                    => m.content = c
               /\ Ahead(rp, b, d, u) <=> Ahead(Tail(rp), Tail(b), d, u)
<1> DEFINE r == Head(rp)
           m == Head(b)
           rt == Tail(rp)
           bt == Tail(b)
<1>1. PICK k \in Nat : /\ DOMAIN rp = 1..(k + 1) /\ DOMAIN rt = 1..k
                       /\ \A i \in 1..k : rt[i] = rp[i + 1]
                       /\ r = rp[1] /\ 1 \in DOMAIN rp /\ Len(rp) = k + 1
  BY TailFacts
<1>2. b # <<>>
  <2>1. Len(b) \in Nat /\ Len(b) # 0
    BY <1>1, LenProperties
  <2> QED  BY <2>1, EmptySeq
<1>3. PICK n \in Nat : /\ DOMAIN b = 1..(n + 1) /\ DOMAIN bt = 1..n
                       /\ \A i \in 1..n : bt[i] = b[i + 1]
                       /\ m = b[1] /\ 1 \in DOMAIN b /\ Len(b) = n + 1
  BY <1>2, TailFacts
<1>4. k <= n
  BY <1>1, <1>3
<1> HIDE DEF rt, bt, r, m
<1>5. /\ \A i \in Replied(rt, bt, d) : i + 1 \in Replied(rp, b, d) /\ rt[i] = rp[i + 1] /\ bt[i] = b[i + 1] /\ i \in Nat
      /\ \A i \in Replied(rp, b, d) :
             \/ i = 1 /\ m.doc = d
             \/ i - 1 \in Replied(rt, bt, d) /\ rp[i] = rt[i - 1] /\ i - 1 \in Nat
      /\ m.doc = d => 1 \in Replied(rp, b, d)
      /\ \A i \in Replied(rp, b, d) : i \in Nat
  <2>1. \A i \in 1..k : i + 1 \in 1..(k + 1) /\ i \in 1..n /\ i \in Nat
    BY <1>4
  <2>2. \A i \in 1..(k + 1) : i = 1 \/ (i - 1 \in 1..k /\ i - 1 \in 1..n /\ (i - 1) + 1 = i)
    BY <1>4
  <2>3. \A i \in Replied(rp, b, d) :
             \/ i = 1 /\ m.doc = d
             \/ i - 1 \in Replied(rt, bt, d) /\ rp[i] = rt[i - 1] /\ i - 1 \in Nat
    BY <1>1, <1>3, <2>2 DEF Replied
  <2> QED  BY <1>1, <1>3, <2>1, <2>3 DEF Replied
<1>6. QuietReplies(rp, b, d, u) <=> QuietReplies(rt, bt, d, u) /\ (m.doc = d => ~r.ok /\ d \notin u)
  BY <1>1, <1>5 DEF QuietReplies
<1>7. ASSUME RepliesBring(rp, b, d, u, c) PROVE RepliesBring(rt, bt, d, u, c)
  <2> SUFFICES ASSUME NEW i \in Replied(rt, bt, d), rt[i].ok,
                      \A j \in Replied(rt, bt, d) : j > i => ~rt[j].ok /\ d \notin u
               PROVE  bt[i].content = c
    BY DEF RepliesBring
  <2>1. i + 1 \in Replied(rp, b, d) /\ rp[i + 1] = rt[i] /\ bt[i] = b[i + 1] /\ i \in Nat
    BY <1>5
  <2>2. ASSUME NEW j \in Replied(rp, b, d), j > i + 1 PROVE ~rp[j].ok /\ d \notin u
    <3>1. j \in Nat
      BY <1>5
    <3>2. j - 1 \in Replied(rt, bt, d) /\ rp[j] = rt[j - 1] /\ j - 1 \in Nat
      BY <1>5, <2>1, <2>2
    <3>3. j - 1 > i
      BY <2>1, <2>2, <3>1, <3>2
    <3> QED  BY <3>2, <3>3
  <2> QED  BY <1>7, <2>1, <2>2 DEF RepliesBring
<1>8. ASSUME m.doc = d, r.ok, QuietReplies(rt, bt, d, u), RepliesBring(rp, b, d, u, c)
      PROVE  m.content = c
  <2>1. 1 \in Replied(rp, b, d) /\ rp[1].ok
    BY <1>1, <1>5, <1>8
  <2>2. ASSUME NEW j \in Replied(rp, b, d), j > 1 PROVE ~rp[j].ok /\ d \notin u
    BY <1>5, <1>8, <2>2 DEF QuietReplies
  <2>3. b[1].content = c
    BY <1>8, <2>1, <2>2 DEF RepliesBring
  <2> QED  BY <1>3, <2>3
<1>9. Ahead(rp, b, d, u) <=> Ahead(rt, bt, d, u)
  <2>1. ASSUME NEW j \in 1..(n + 1), j \notin 1..(k + 1), b[j].doc = d
        PROVE  \E i \in 1..n : i \notin 1..k /\ bt[i].doc = d
    <3>1. j - 1 \in 1..n /\ j - 1 \notin 1..k /\ (j - 1) + 1 = j
      BY <1>4, <2>1
    <3> QED  BY <1>3, <2>1, <3>1
  <2>2. ASSUME NEW i \in 1..n, i \notin 1..k, bt[i].doc = d
        PROVE  \E j \in 1..(n + 1) : j \notin 1..(k + 1) /\ b[j].doc = d
    <3>1. i + 1 \in 1..(n + 1) /\ i + 1 \notin 1..(k + 1)
      BY <1>4, <2>2
    <3> QED  BY <1>3, <2>2, <3>1
  <2> QED  BY <1>1, <1>3, <2>1, <2>2 DEF Ahead
<1>10. /\ QuietReplies(rp, b, d, u) <=> QuietReplies(rt, bt, d, u) /\ (m.doc = d => ~r.ok /\ d \notin u)
       /\ RepliesBring(rp, b, d, u, c) => RepliesBring(rt, bt, d, u, c)
       /\ m.doc = d /\ r.ok /\ QuietReplies(rt, bt, d, u) /\ RepliesBring(rp, b, d, u, c) => m.content = c
       /\ Ahead(rp, b, d, u) <=> Ahead(rt, bt, d, u)
  BY <1>6, <1>7, <1>8, <1>9
<1> QED  BY <1>10 DEF rt, bt, r, m

\* The oldest answer goes to its caller, who is gone if the write was restored
\* from disk.
LEMMA AnsweredAgrees ==
    ASSUME NEW q \in Seq(Event), NEW rp \in Seq(Reply), rp # <<>>, NEW b \in Seq(Mutation), Len(rp) <= Len(b),
           NEW u, NEW docs, NEW al, NEW hd, NEW dr, NEW o, AllAgree(q, rp, b, u, docs, al, hd, dr, o)
    PROVE  AllAgree(IF Head(b).callback THEN Append(q, Written(Head(b), Head(rp).ok)) ELSE q,
                    Tail(rp), Tail(b), u, docs, al, hd, dr, o)
<1> DEFINE m == Head(b)
           ok == Head(rp).ok
           e == Written(m, ok)
           p == IF m.callback THEN Append(q, e) ELSE q
           t == Tail(b)
<1>1. b # <<>>
  <2>1. Len(rp) \in Nat \ {0} /\ Len(b) \in Nat
    BY EmptySeq, LenProperties
  <2> QED  BY <2>1, EmptySeq
<1>2. PICK n \in Nat : /\ DOMAIN b = 1..(n + 1) /\ DOMAIN t = 1..n
                       /\ \A i \in 1..n : t[i] = b[i + 1]
                       /\ m = b[1] /\ 1 \in DOMAIN b
  BY <1>1, TailFacts
<1>3. m \in Mutation /\ m.doc \in Reminders /\ ok \in BOOLEAN
  <2>1. m \in Mutation /\ Head(rp) \in Reply
    BY <1>1, HeadTailProperties
  <2> QED  BY <2>1 DEF Mutation, Reply
<1>4. e \in Event /\ e.kind = "written" /\ e.mutation = m /\ e.ok = ok
  BY <1>3 DEF Written, Event
<1>5. PICK k \in Nat : Len(q) = k /\ DOMAIN q = 1..k
  BY LenProperties
<1>6. m.callback => p = Append(q, e) /\ DOMAIN p = 1..(k + 1) /\ p[k + 1] = e /\ \A i \in 1..k : p[i] = q[i]
  BY <1>4, <1>5, AppendProperties, LenProperties
<1>7. ~m.callback => p = q
  OBVIOUS
<1>8. /\ \A i \in 1..n : i \in Nat /\ i + 1 \in 1..(n + 1) /\ 1 < i + 1
      /\ \A i, j \in 1..n : i < j => i + 1 < j + 1
  OBVIOUS
<1>9. /\ \A i \in 1..(k + 1) : i \in 1..k \/ i = k + 1
      /\ \A i \in 1..k : i \in 1..(k + 1) /\ i <= k + 1 /\ i # k + 1
      /\ k + 1 <= k + 1
  OBVIOUS
<1> HIDE DEF p, t, m, ok, e
<1>10. RestoredOK(q, b, hd) /\ MadeFirst(q, b, dr, hd)
  BY DEF AllAgree
<1>11. RestoredOK(p, t, hd)
  <2>1. \A i, j \in DOMAIN t : i < j /\ ~t[j].callback => ~t[i].callback
    BY <1>2, <1>8, <1>10 DEF RestoredOK
  <2>2. ASSUME NEW i \in DOMAIN t, ~t[i].callback
        PROVE  hd[t[i].doc] # "acted" /\ \A j \in DOMAIN p : p[j].kind # "written"
    <3>1. ~m.callback
      BY <1>2, <1>8, <1>10, <2>2 DEF RestoredOK
    <3>2. i + 1 \in DOMAIN b /\ b[i + 1] = t[i]
      BY <1>2, <1>8, <2>2
    <3>3. hd[t[i].doc] # "acted" /\ \A j \in DOMAIN q : q[j].kind # "written"
      BY <1>10, <2>2, <3>2 DEF RestoredOK
    <3> QED  BY <1>7, <3>1, <3>3
  <2> QED  BY <2>1, <2>2 DEF RestoredOK
<1>12. \A d : m.doc # d \/ ~m.callback => About(p, d) = About(q, d)
  <2>1. ASSUME NEW d, m.doc # d, m.callback PROVE About(p, d) = About(q, d)
    BY <1>4, <1>5, <1>6, <1>9, <2>1 DEF About
  <2> QED  BY <1>7, <2>1
<1>13. ASSUME NEW i \in DOMAIN t
       PROVE  /\ t[i].doc \in dr
              /\ t[i].op = "set" => /\ hd[t[i].doc] # "acted" /\ About(p, t[i].doc) = {}
                                    /\ \A j \in DOMAIN t : j < i => t[j].doc # t[i].doc
              /\ t[i].op = "delete" => t[i].content = NoContent
  <2>1. i + 1 \in DOMAIN b /\ b[i + 1] = t[i] /\ 1 < i + 1
    BY <1>2, <1>8
  <2>2. /\ t[i].doc \in dr
        /\ t[i].op = "set" => /\ hd[t[i].doc] # "acted" /\ About(q, t[i].doc) = {}
                              /\ \A j \in DOMAIN b : j < i + 1 => b[j].doc # t[i].doc
        /\ t[i].op = "delete" => t[i].content = NoContent
    BY <1>10, <2>1 DEF MadeFirst
  <2>3. ASSUME t[i].op = "set" PROVE About(p, t[i].doc) = {} /\ \A j \in DOMAIN t : j < i => t[j].doc # t[i].doc
    <3>1. m.doc # t[i].doc
      BY <1>2, <2>1, <2>2, <2>3
    <3>2. ASSUME NEW j \in DOMAIN t, j < i PROVE t[j].doc # t[i].doc
      <4>1. j + 1 \in DOMAIN b /\ b[j + 1] = t[j] /\ j + 1 < i + 1
        BY <1>2, <1>8, <3>2
      <4> QED  BY <2>2, <2>3, <4>1
    <3> QED  BY <1>12, <2>2, <2>3, <3>1, <3>2
  <2> QED  BY <2>2, <2>3
<1>14. ASSUME NEW i \in DOMAIN p, p[i].kind = "written"
       PROVE  /\ p[i].mutation.doc \in dr
              /\ p[i].mutation.op = "set" => /\ hd[p[i].mutation.doc] # "acted"
                                             /\ \A j \in About(p, p[i].mutation.doc) : i <= j
              /\ p[i].mutation.op = "delete" => p[i].mutation.content = NoContent
  <2>1. CASE ~m.callback
    <3>1. p = q
      BY <1>7, <2>1
    <3> QED  BY <1>10, <1>14, <3>1 DEF MadeFirst
  <2>2. CASE m.callback /\ i \in 1..k
    <3>1. p[i] = q[i] /\ i \in DOMAIN q
      BY <1>5, <1>6, <2>2
    <3>2. /\ q[i].mutation.doc \in dr
          /\ q[i].mutation.op = "set" => /\ hd[q[i].mutation.doc] # "acted"
                                         /\ \A j \in About(q, q[i].mutation.doc) : i <= j
          /\ q[i].mutation.op = "delete" => q[i].mutation.content = NoContent
      BY <1>10, <1>14, <3>1 DEF MadeFirst
    <3>3. \A d : \A j \in About(p, d) : j \in About(q, d) \/ j = k + 1
      BY <1>5, <1>6, <1>9, <2>2 DEF About
    <3>4. i <= k + 1
      BY <1>9, <2>2
    <3> QED  BY <3>1, <3>2, <3>3, <3>4
  <2>3. CASE m.callback /\ i = k + 1
    <3>1. p[i].mutation = m
      BY <1>4, <1>6, <2>3
    <3>2. /\ m.doc \in dr
          /\ m.op = "set" => hd[m.doc] # "acted" /\ About(q, m.doc) = {}
          /\ m.op = "delete" => m.content = NoContent
      BY <1>2, <1>10 DEF MadeFirst
    <3>3. \A j \in About(p, m.doc) : j \in About(q, m.doc) \/ j = k + 1
      BY <1>5, <1>6, <1>9, <2>3 DEF About
    <3> QED  BY <1>9, <2>3, <3>1, <3>2, <3>3
  <2> QED  BY <1>6, <1>9, <2>1, <2>2, <2>3
<1>15. MadeFirst(p, t, dr, hd)
  <2>1. \A d \in Reminders : hd[d] = "acted" => d \in dr
    BY <1>10 DEF MadeFirst
  <2> QED  BY <1>13, <1>14, <2>1 DEF MadeFirst
<1>16. ASSUME o = 0, NEW d \in Reminders
       PROVE  AgreesAbout(d, p, Tail(rp), t, u, docs[d].content, al[d], hd[d])
  <2>0. PICK c, h, a : c = docs[d].content /\ h = hd[d] /\ a = al[d]
    OBVIOUS
  <2>1. AgreesAbout(d, q, rp, b, u, c, a, h)
    BY <1>16, <2>0 DEF AllAgree
  <2>2. /\ QuietReplies(rp, b, d, u) <=> QuietReplies(Tail(rp), t, d, u) /\ (m.doc = d => ~ok /\ d \notin u)
        /\ RepliesBring(rp, b, d, u, c) => RepliesBring(Tail(rp), t, d, u, c)
        /\ m.doc = d /\ ok /\ QuietReplies(Tail(rp), t, d, u) /\ RepliesBring(rp, b, d, u, c) => m.content = c
        /\ Ahead(rp, b, d, u) <=> Ahead(Tail(rp), t, d, u)
    BY RepliesOldest DEF t, m, ok
  <2>3. e \in Event
    BY <1>4
  <2>4. e.kind = "written"
    BY <1>4
  <2>5. /\ e.mutation.doc # d => /\ About(Append(q, e), d) = About(q, d)
                                 /\ QuietQueue(Append(q, e), d, u) <=> QuietQueue(q, d, u)
                                 /\ QueueBrings(q, d, u, c) => QueueBrings(Append(q, e), d, u, c)
        /\ e.mutation.doc = d =>
             /\ QuietQueue(Append(q, e), d, u) <=> QuietQueue(q, d, u) /\ ~e.ok /\ d \notin u
             /\ e.ok /\ e.mutation.content = c => QueueBrings(Append(q, e), d, u, c)
             /\ ~e.ok /\ (d \in u \/ QueueBrings(q, d, u, c)) => QueueBrings(Append(q, e), d, u, c)
    BY <2>3, <2>4, AboutAppend
  <2>6. CASE m.doc # d
    <3>1. /\ QuietQueue(p, d, u) <=> QuietQueue(q, d, u)
          /\ QueueBrings(q, d, u, c) => QueueBrings(p, d, u, c)
      <4>1. CASE m.callback
        BY <1>4, <1>6, <2>6, <2>5, <4>1
      <4>2. CASE ~m.callback
        BY <1>7, <4>2
      <4> QED  BY <4>1, <4>2
    <3> QED  BY <2>0, <2>1, <2>2, <2>6, <3>1 DEF AgreesAbout
  <2>7. CASE m.doc = d /\ m.callback
    <3>1. QuietQueue(p, d, u) <=> QuietQueue(q, d, u) /\ ~ok /\ d \notin u
      BY <1>4, <1>6, <2>7, <2>5
    <3>2. ok /\ m.content = c => QueueBrings(p, d, u, c)
      BY <1>4, <1>6, <2>7, <2>5
    <3>3. ~ok /\ (d \in u \/ QueueBrings(q, d, u, c)) => QueueBrings(p, d, u, c)
      BY <1>4, <1>6, <2>7, <2>5
    <3> QED  BY <2>0, <2>1, <2>2, <2>7, <3>1, <3>2, <3>3 DEF AgreesAbout
  <2>8. CASE m.doc = d /\ ~m.callback
    <3>1. h # "acted" /\ About(p, d) = {}
      BY <1>2, <1>7, <1>10, <2>0, <2>8 DEF RestoredOK, About
    <3>2. QueueBrings(p, d, u, c)
      BY <3>1 DEF QueueBrings
    <3> QED  BY <2>0, <2>1, <2>2, <3>1, <3>2 DEF AgreesAbout
  <2> QED  BY <2>6, <2>7, <2>8
<1>17. \A d \in Reminders : hd[d] = "never" => al[d] = NoContent
  BY DEF AllAgree
<1>18. AllAgree(p, Tail(rp), t, u, docs, al, hd, dr, o)
  BY <1>11, <1>15, <1>16, <1>17 DEF AllAgree
<1> QED  BY <1>18 DEF p, t, m, ok, e

\* The answers on the stream are lost, and their writes will be sent again: of
\* the documents of those that were done there is doubt.
LEMMA LostAgrees ==
    ASSUME NEW q, NEW rp \in Seq(Reply), NEW b \in Seq(Mutation), Len(rp) <= Len(b),
           NEW u, NEW docs, NEW al, NEW hd, NEW dr, NEW o, AllAgree(q, rp, b, u, docs, al, hd, dr, o)
    PROVE  AllAgree(q, <<>>, b, u \cup {b[i].doc : i \in {j \in DOMAIN rp : rp[j].ok}}, docs, al, hd, dr, o)
<1> DEFINE u2 == u \cup {b[i].doc : i \in {j \in DOMAIN rp : rp[j].ok}}
<1>1. \A j \in DOMAIN rp : j \in DOMAIN b
  <2>1. PICK n \in Nat, k \in Nat : Len(b) = n /\ DOMAIN b = 1..n /\ Len(rp) = k /\ DOMAIN rp = 1..k
    BY LenProperties
  <2> QED  BY <2>1
<1>2. DOMAIN (<<>>) = {}
  OBVIOUS
<1>3. ASSUME o = 0, NEW d \in Reminders
      PROVE  AgreesAbout(d, q, <<>>, b, u2, docs[d].content, al[d], hd[d])
  <2>0. PICK c, h, a : c = docs[d].content /\ h = hd[d] /\ a = al[d]
    OBVIOUS
  <2>1. AgreesAbout(d, q, rp, b, u, c, a, h)
    BY <1>3, <2>0 DEF AllAgree
  <2>2. Replied(<<>>, b, d) = {}
    BY <1>2 DEF Replied
  <2>3. RepliesBring(<<>>, b, d, u2, c) /\ QuietReplies(<<>>, b, d, u2)
    BY <2>2 DEF RepliesBring, QuietReplies
  <2>4. CASE d \in u2 /\ \E j \in DOMAIN b : b[j].doc = d
    <3>1. Ahead(<<>>, b, d, u2)
      BY <1>2, <2>4 DEF Ahead
    <3> QED  BY <2>0, <3>1 DEF AgreesAbout
  <2>5. CASE ~(d \in u2 /\ \E j \in DOMAIN b : b[j].doc = d)
    <3>1. d \in u2 <=> d \in u
      BY <1>1, <2>5
    <3>2. \A j \in Replied(rp, b, d) : ~rp[j].ok /\ d \notin u
      BY <1>1, <2>5 DEF Replied
    <3>3. QuietReplies(rp, b, d, u) /\ ~Ahead(rp, b, d, u)
      BY <2>5, <3>1, <3>2 DEF QuietReplies, Ahead
    <3> HIDE DEF u2
    <3>4. /\ QuietQueue(q, d, u2) <=> QuietQueue(q, d, u)
          /\ QueueBrings(q, d, u2, c) <=> QueueBrings(q, d, u, c)
      BY <3>1 DEF QuietQueue, QueueBrings
    <3> QED  BY <2>0, <2>1, <2>3, <3>3, <3>4 DEF AgreesAbout
  <2> QED  BY <2>4, <2>5
<1> HIDE DEF u2
<1>4. AllAgree(q, <<>>, b, u2, docs, al, hd, dr, o)
  BY <1>3 DEF AllAgree
<1> QED  BY <1>4 DEF u2

\* The process is gone, with whoever waited for an answer.
Killed(q, b, hd, p, bb, hd2, lost) ==
    /\ \A i \in DOMAIN p : p[i].kind # "written"
    /\ \A i \in DOMAIN b : b[i].callback => b[i].doc \in lost
    /\ \A i \in DOMAIN q : q[i].kind = "written" => q[i].mutation.doc \in lost
    /\ bb = [i \in DOMAIN b |-> [b[i] EXCEPT !.callback = FALSE]]
    /\ \A d \in Reminders : hd2[d] = IF d \in lost THEN "missed" ELSE hd[d]

LEMMA KilledAgrees ==
    ASSUME NEW q \in Seq(Event), NEW rp \in Seq(Reply), NEW b \in Seq(Mutation), Len(rp) <= Len(b),
           NEW u, NEW docs, NEW al, NEW hd, NEW dr, NEW o, AllAgree(q, rp, b, u, docs, al, hd, dr, o),
           NEW p, NEW bb, NEW hd2, NEW lost, Killed(q, b, hd, p, bb, hd2, lost)
    PROVE  AllAgree(p, <<>>, bb, u, docs, al, hd2, dr, o)
<1>0. /\ \A i \in DOMAIN p : p[i].kind # "written"
      /\ \A i \in DOMAIN b : b[i].callback => b[i].doc \in lost
      /\ \A i \in DOMAIN q : q[i].kind = "written" => q[i].mutation.doc \in lost
      /\ bb = [i \in DOMAIN b |-> [b[i] EXCEPT !.callback = FALSE]]
      /\ \A d \in Reminders : hd2[d] = IF d \in lost THEN "missed" ELSE hd[d]
  BY DEF Killed
<1>1. \A i \in DOMAIN b : b[i] \in Mutation
  BY ElementOfSeq, LenProperties
<1>2. /\ DOMAIN bb = DOMAIN b
      /\ \A i \in DOMAIN b : /\ bb[i].doc = b[i].doc /\ bb[i].op = b[i].op /\ bb[i].content = b[i].content
                             /\ ~bb[i].callback /\ b[i].doc \in Reminders
  BY <1>0, <1>1 DEF Mutation
<1>3. DOMAIN (<<>>) = {}
  OBVIOUS
<1>4. \A d : About(p, d) = {}
  BY <1>0 DEF About
<1>5. RestoredOK(q, b, hd) /\ MadeFirst(q, b, dr, hd)
  BY DEF AllAgree
<1>6. ASSUME NEW d \in Reminders, hd2[d] = "acted"
      PROVE  hd[d] = "acted" /\ About(q, d) = {} /\ \A i \in DOMAIN b : b[i].doc # d
  <2>1. /\ hd[d] = "acted"
        /\ \A i \in DOMAIN b : b[i].doc = d => ~b[i].callback
        /\ \A i \in DOMAIN q : ~(q[i].kind = "written" /\ q[i].mutation.doc = d)
    BY <1>0, <1>6
  <2>2. \A i \in DOMAIN b : b[i].doc # d
    BY <1>5, <2>1 DEF RestoredOK
  <2>3. About(q, d) = {}
    BY <2>1 DEF About
  <2> QED  BY <2>1, <2>2, <2>3
<1>7. RestoredOK(p, bb, hd2)
  <2>1. \A i, j \in DOMAIN bb : i < j /\ ~bb[j].callback => ~bb[i].callback
    BY <1>2
  <2>2. \A i \in DOMAIN bb : hd2[bb[i].doc] # "acted"
    BY <1>2, <1>6
  <2>3. \A k \in DOMAIN p : p[k].kind # "written"
    BY <1>0
  <2> QED  BY <2>1, <2>2, <2>3 DEF RestoredOK
<1>8. MadeFirst(p, bb, dr, hd2)
  <2>1. \A d \in Reminders : hd2[d] = "acted" => d \in dr
    BY <1>5, <1>6 DEF MadeFirst
  <2>2. ASSUME NEW i \in DOMAIN bb
        PROVE  /\ bb[i].doc \in dr
               /\ bb[i].op = "set" => /\ hd2[bb[i].doc] # "acted" /\ About(p, bb[i].doc) = {}
                                      /\ \A k \in DOMAIN bb : k < i => bb[k].doc # bb[i].doc
               /\ bb[i].op = "delete" => bb[i].content = NoContent
    <3>1. /\ i \in DOMAIN b /\ bb[i].doc = b[i].doc /\ bb[i].op = b[i].op /\ bb[i].content = b[i].content
          /\ b[i].doc \in Reminders
      BY <1>2
    <3>2. /\ b[i].doc \in dr
          /\ b[i].op = "set" => \A k \in DOMAIN b : k < i => b[k].doc # b[i].doc
          /\ b[i].op = "delete" => b[i].content = NoContent
      BY <1>5, <3>1 DEF MadeFirst
    <3>3. hd2[b[i].doc] # "acted"
      BY <1>6, <3>1
    <3>4. \A k \in DOMAIN bb : bb[k].doc = b[k].doc /\ k \in DOMAIN b
      BY <1>2
    <3> QED  BY <1>4, <3>1, <3>2, <3>3, <3>4
  <2>3. \A k \in DOMAIN p : p[k].kind # "written"
    BY <1>0
  <2> QED  BY <2>1, <2>2, <2>3 DEF MadeFirst
<1>9. ASSUME o = 0, NEW d \in Reminders
      PROVE  AgreesAbout(d, p, <<>>, bb, u, docs[d].content, al[d], hd2[d])
  <2>0. PICK c, a : c = docs[d].content /\ a = al[d]
    OBVIOUS
  <2>1. AgreesAbout(d, q, rp, b, u, c, a, hd[d])
    BY <1>9, <2>0 DEF AllAgree
  <2>2. RepliesBring(<<>>, bb, d, u, c) /\ QueueBrings(p, d, u, c)
    BY <1>3, <1>4 DEF RepliesBring, Replied, QueueBrings
  <2>3. ASSUME hd2[d] = "acted", c \notin Undated PROVE a = c
    <3>1. hd[d] = "acted" /\ About(q, d) = {} /\ \A i \in DOMAIN b : b[i].doc # d
      BY <1>6, <2>3
    <3>2. ~Ahead(rp, b, d, u) /\ QuietQueue(q, d, u)
      BY <3>1 DEF Ahead, QuietQueue
    <3>3. QuietReplies(rp, b, d, u)
      <4>1. PICK n \in Nat, k \in Nat : Len(b) = n /\ DOMAIN b = 1..n /\ Len(rp) = k /\ DOMAIN rp = 1..k
        BY LenProperties
      <4>2. \A j \in DOMAIN rp : j \in DOMAIN b
        BY <4>1
      <4> QED  BY <3>1, <4>2 DEF QuietReplies, Replied
    <3> QED  BY <2>1, <2>3, <3>1, <3>2, <3>3 DEF AgreesAbout
  <2> QED  BY <2>0, <2>2, <2>3 DEF AgreesAbout
<1>10. \A d \in Reminders : hd2[d] = "never" => al[d] = NoContent
  BY <1>0 DEF AllAgree
<1> QED  BY <1>7, <1>8, <1>9, <1>10 DEF AllAgree

AgreedFacts == AwaitedFacts /\ AgreementInv

\* What the steps use of the types.
LEMMA AgreedTypes ==
    ASSUME AgreedFacts
    PROVE  /\ TypeOK /\ PipelineOK
           /\ mainQ \in Seq(Event) /\ batches \in Seq(Mutation) /\ replies \in Seq(Reply)
           /\ Len(replies) <= Len(batches) /\ remote \in Versions /\ server \in Versions
           /\ raised \in Nat /\ waiting \in Nat /\ selected \in Reminders \cup {NoReminder}
           /\ alarms \in View /\ heard \in [Reminders -> {"never", "missed", "acted"}] /\ unsure \subseteq Reminders
           /\ AllAgree(mainQ, replies, batches, unsure, server, alarms, heard, drawn, otherOps)
  BY DEF AgreedFacts, AwaitedFacts, AgreementInv, AlarmsTypeOK, TypeOK, ClientTypeOK, PipelineOK

LEMMA ToldAgrees ==
    ASSUME AgreementInv, SameAnswers(mainQ', mainQ),
           UNCHANGED <<replies, batches, unsure, server, alarms, heard, drawn, otherOps>>
    PROVE  AgreementInv'
  BY SameAgrees DEF AgreementInv

\* A write of the user's.
LEMMA CallAgrees ==
    ASSUME AgreedFacts, NEW m \in Mutation, m.callback, m.op = "set" => m.doc \notin drawn,
           m.op = "delete" => m.content = NoContent, WriteMutations(m), UNCHANGED <<unsure, alarms, heard>>
    PROVE  AgreementInv'
<1>0. /\ mainQ \in Seq(Event) /\ batches \in Seq(Mutation) /\ replies \in Seq(Reply)
      /\ Len(replies) <= Len(batches) /\ remote \in Versions /\ raised \in Nat /\ waiting \in Nat
      /\ AllAgree(mainQ, replies, batches, unsure, server, alarms, heard, drawn, otherOps)
  BY AgreedTypes
<1>1. /\ batches' = Append(batches, m) /\ drawn' = drawn \cup {m.doc} /\ UNCHANGED <<server, otherOps, replies>>
      /\ EmitSnapshots(mainQ, LocalView(remote, batches'), synced, online)
  BY DEF WriteMutations, streamVars
<1>2. LocalView(remote, batches') \in View
  BY <1>0, <1>1, AppendProperties, LocalViewType
<1>3. SameAnswers(mainQ', mainQ)
  BY <1>0, <1>1, <1>2, EmitAgrees
<1>4. AllAgree(mainQ, replies, batches', unsure, server, alarms, heard, drawn', otherOps)
  BY <1>0, <1>1, WrittenAgrees
<1>5. AllAgree(mainQ', replies, batches', unsure, server, alarms, heard, drawn', otherOps)
  BY <1>3, <1>4, SameAgrees
<1> QED  BY <1>1, <1>5 DEF AgreementInv

LEMMA UserAgrees ==
    ASSUME AgreedFacts, AlarmUser \/ PopEnds \/ UNCHANGED allVars
    PROVE  AgreementInv'
<1>0. AgreementInv /\ SameAnswers(mainQ, mainQ) /\ selected \in Reminders \cup {NoReminder}
  BY AgreedTypes DEF AgreedFacts, SameAnswers
<1>1. ASSUME UNCHANGED <<clientVars, unsure, alarms, heard>> PROVE AgreementInv'
  BY <1>0, <1>1 DEF AgreementInv, clientVars, serverVars, streamVars, storeVars, eventVars
<1>2. CASE HomeGesture
  <2>1. UNCHANGED <<unsure, alarms, heard>>
    BY <1>2 DEF HomeGesture, alarmVars, ghostVars
  <2>2. ASSUME NEW t \in Texts \cup {NoText}, TextDidChange(t) PROVE AgreementInv'
    BY <1>1, <2>1, <2>2 DEF TextDidChange
  <2>3. ASSUME NEW d \in Reminders, DeleteAction(d) PROVE AgreementInv'
    <3> DEFINE m == [op |-> "delete", doc |-> d, content |-> NoContent, callback |-> TRUE]
    <3>1. m \in Mutation /\ m.callback /\ m.op = "delete" /\ m.content = NoContent /\ WriteMutations(m)
      BY <2>3, CallKinds DEF Maybe, DeleteAction
    <3> HIDE DEF m
    <3> QED  BY <2>1, <3>1, CallAgrees
  <2>4. ASSUME NEW d \in Reminders, NEW c \in Contents, AddReminder(d, c) PROVE AgreementInv'
    <3> DEFINE m == [op |-> "set", doc |-> d, content |-> c, callback |-> TRUE]
    <3>1. m \in Mutation /\ m.callback /\ m.op = "set" /\ m.doc \notin drawn /\ WriteMutations(m)
      BY <2>4, CallKinds DEF Maybe, AddReminder
    <3> HIDE DEF m
    <3> QED  BY <2>1, <3>1, CallAgrees
  <2> QED  BY <1>2, <2>2, <2>3, <2>4 DEF HomeGesture
<1>3. ASSUME NEW d \in Reminders, OpenEdit(d) PROVE AgreementInv'
  <2>1. UNCHANGED <<clientVars, unsure, alarms, heard>>
    BY <1>3 DEF OpenEdit, DidSelectRow, ghostVars
  <2> QED  BY <1>1, <2>1
<1>4. ASSUME NEW c \in Contents, SaveEdit(c) PROVE AgreementInv'
  <2> DEFINE m == [op |-> "update", doc |-> selected, content |-> c, callback |-> TRUE]
  <2>1. selected \in Reminders /\ WriteMutations(m) /\ UNCHANGED <<unsure, alarms, heard>>
    BY <1>0, <1>4 DEF SaveEdit, UpdateReminder, OnHome, ghostVars
  <2>2. m \in Mutation /\ m.callback /\ m.op = "update"
    BY <2>1, CallKinds DEF Maybe
  <2> HIDE DEF m
  <2> QED  BY <2>1, <2>2, CallAgrees
<1>5. CASE BackFromEdit \/ PopEnds \/ UNCHANGED allVars
  <2>1. UNCHANGED <<clientVars, unsure, alarms, heard>>
    BY <1>5 DEF BackFromEdit, CloseEdit, PopEnds, allVars, vars, alarmVars, ghostVars
  <2> QED  BY <1>1, <2>1
<1> QED  BY <1>2, <1>3, <1>4, <1>5 DEF AlarmUser

\* The closures on the main queue.
LEMMA RunAgrees ==
    ASSUME AgreedFacts, mainQ # <<>>, SameAnswers(mainQ', Tail(mainQ)),
           AllAgree(Tail(mainQ), replies, batches, unsure, server, alarms', heard', drawn, otherOps),
           UNCHANGED <<replies, batches, unsure, server, drawn, otherOps>>
    PROVE  AgreementInv'
  BY SameAgrees DEF AgreementInv

LEMMA MainQueueAgrees ==
    ASSUME AgreedFacts, AlarmMainQueue
    PROVE  AgreementInv'
<1> DEFINE e == Head(mainQ)
           m == Head(mainQ).mutation
<1>0. /\ TypeOK /\ PipelineOK /\ mainQ \in Seq(Event) /\ batches \in Seq(Mutation)
      /\ alarms \in View /\ heard \in [Reminders -> {"never", "missed", "acted"}]
      /\ AllAgree(mainQ, replies, batches, unsure, server, alarms, heard, drawn, otherOps)
  BY AgreedTypes
<1>1. mainQ # <<>>
  BY DEF AlarmMainQueue, SnapshotReceived, ListenFailed, UpdateCompleted, AddCompleted, SaveCompleted,
         AlarmDeleteCompleted, DeleteCompleted, Turn
<1>2. /\ Tail(mainQ) \in Seq(Event) /\ e \in Event
      /\ e.kind = "written" => e.ok \in BOOLEAN /\ m.doc \in Reminders /\ m.content \in Maybe
  BY <1>0, <1>1, NextClosure
<1>3. UNCHANGED <<replies, batches, unsure, server, drawn, otherOps>>
  BY Zenon DEF AlarmMainQueue, SnapshotReceived, ListenFailed, UpdateCompleted, AddCompleted, SaveCompleted,
         AlarmDeleteCompleted, DeleteCompleted, Dequeue, AddSnapshotListener, serverVars, streamVars, storeVars,
         alarmVars, ghostVars
<1>4. SameAnswers(mainQ', Tail(mainQ))
  <2>1. mainQ' = Tail(mainQ) \/ AddSnapshotListener(Tail(mainQ))
    BY Zenon DEF AlarmMainQueue, SnapshotReceived, ListenFailed, UpdateCompleted, AddCompleted, SaveCompleted,
           AlarmDeleteCompleted, DeleteCompleted, Dequeue
  <2>2. SameAnswers(Tail(mainQ), Tail(mainQ))
    BY DEF SameAnswers
  <2> QED  BY <1>0, <1>2, <2>1, <2>2, ListenAgrees
<1> DEFINE Run == AllAgree(Tail(mainQ), replies, batches, unsure, server, alarms', heard', drawn, otherOps)
<1> SUFFICES Run
  BY <1>1, <1>3, <1>4, RunAgrees
<1>5. ASSUME UNCHANGED <<alarms, heard>>, e.kind # "written" PROVE Run
  BY <1>0, <1>1, <1>5, HeardAgrees
<1>6. ASSUME e.kind = "written",
             \A d \in Reminders : d # m.doc => alarms'[d] = alarms[d] /\ heard'[d] = heard[d],
             heard'[m.doc] = "never" => alarms'[m.doc] = NoContent,
             heard'[m.doc] = "acted" /\ e.ok /\ m.content \notin Undated => alarms'[m.doc] = m.content,
             heard'[m.doc] = "acted" /\ m.op = "set" => heard[m.doc] = "acted",
             heard'[m.doc] = "acted" /\ ~e.ok
               => alarms'[m.doc] = alarms[m.doc] /\ heard[m.doc] = "acted" /\ m.doc \notin unsure
      PROVE  Run
  BY <1>0, <1>1, <1>6, HeardAgrees
<1>7. ASSUME e.kind = "written"
      PROVE  /\ m.op = "set" => heard[m.doc] # "acted"
             /\ m.op = "delete" => m.content = NoContent
             /\ heard[m.doc] = "never" => alarms[m.doc] = NoContent
  <2>1. PICK n \in Nat : 1 \in DOMAIN mainQ /\ Head(mainQ) = mainQ[1]
    BY <1>0, <1>1, TailFacts
  <2> QED  BY <1>0, <1>2, <1>7, <2>1 DEF AllAgree, MadeFirst
<1>8. CASE (SnapshotReceived \/ ListenFailed) /\ UNCHANGED alarmVars
  <2>1. e.kind # "written" /\ UNCHANGED <<alarms, heard>>
    BY <1>8 DEF SnapshotReceived, ListenFailed, Turn, alarmVars, ghostVars
  <2> QED  BY <1>5, <2>1
<1>9. CASE UpdateCompleted
  <2>1. e.kind = "written" /\ m.op = "update" /\ m.doc \in Reminders /\ m.content \in Maybe
    BY <1>2, <1>9 DEF UpdateCompleted, SaveCompleted, Turn
  <2>2. \/ /\ e.ok /\ heard' = [heard EXCEPT ![m.doc] = "acted"]
           /\ alarms' = IF m.content \in Undated THEN alarms ELSE [alarms EXCEPT ![m.doc] = m.content]
        \/ e.ok /\ heard' = [heard EXCEPT ![m.doc] = "missed"] /\ alarms' = alarms
        \/ ~e.ok /\ heard' = Doubted(m.doc) /\ alarms' = alarms
    BY <1>9 DEF UpdateCompleted, ScheduleAlarmNotification
  <2> HIDE DEF m, e
  <2>3. CASE /\ e.ok /\ heard' = [heard EXCEPT ![m.doc] = "acted"]
             /\ alarms' = IF m.content \in Undated THEN alarms ELSE [alarms EXCEPT ![m.doc] = m.content]
    <3>1. heard'[m.doc] = "acted" /\ \A d \in Reminders : d # m.doc => heard'[d] = heard[d]
      BY <1>0, <2>1, <2>3
    <3>2. /\ \A d \in Reminders : d # m.doc => alarms'[d] = alarms[d]
          /\ m.content \notin Undated => alarms'[m.doc] = m.content
      BY <1>0, <2>1, <2>3 DEF View
    <3> QED  BY <1>6, <2>1, <2>3, <3>1, <3>2 DEF e, m
  <2>4. CASE e.ok /\ heard' = [heard EXCEPT ![m.doc] = "missed"] /\ alarms' = alarms
    <3>1. heard'[m.doc] = "missed" /\ \A d \in Reminders : d # m.doc => heard'[d] = heard[d]
      BY <1>0, <2>1, <2>4
    <3> QED  BY <1>6, <2>1, <2>4, <3>1 DEF e, m
  <2>5. CASE ~e.ok /\ heard' = Doubted(m.doc) /\ alarms' = alarms
    <3>1. /\ \A d \in Reminders : d # m.doc => heard'[d] = heard[d]
          /\ heard'[m.doc] = "acted" => heard[m.doc] = "acted" /\ m.doc \notin unsure
          /\ heard'[m.doc] = "never" => heard[m.doc] = "never"
      BY <1>0, <2>1, <2>5 DEF Doubted
    <3> QED  BY <1>6, <1>7, <2>1, <2>5, <3>1 DEF e, m
  <2> QED  BY <2>2, <2>3, <2>4, <2>5
<1>10. CASE AddCompleted
  <2>1. e.kind = "written" /\ m.op = "set" /\ UNCHANGED <<alarms, heard>>
    BY <1>10 DEF AddCompleted, SaveCompleted, Turn, alarmVars, ghostVars
  <2> QED  BY <1>6, <1>7, <2>1
<1>11. CASE AlarmDeleteCompleted
  <2>1. e.kind = "written" /\ m.op = "delete" /\ m.doc \in Reminders /\ e.ok \in BOOLEAN
    BY <1>2, <1>11 DEF AlarmDeleteCompleted, DeleteCompleted, Turn
  <2>2. \/ e.ok /\ heard' = heard /\ alarms' = [alarms EXCEPT ![m.doc] = NoContent]
        \/ ~e.ok /\ heard' = Doubted(m.doc) /\ alarms' = alarms
    BY <1>11 DEF AlarmDeleteCompleted
  <2> HIDE DEF m, e
  <2>3. CASE e.ok /\ heard' = heard /\ alarms' = [alarms EXCEPT ![m.doc] = NoContent]
    <3>1. alarms'[m.doc] = NoContent /\ \A d \in Reminders : d # m.doc => alarms'[d] = alarms[d]
      BY <1>0, <2>1, <2>3 DEF View
    <3>2. m.content = NoContent
      BY <1>7, <2>1 DEF e, m
    <3> QED  BY <1>6, <2>1, <2>3, <3>1, <3>2 DEF e, m
  <2>4. CASE ~e.ok /\ heard' = Doubted(m.doc) /\ alarms' = alarms
    <3>1. /\ \A d \in Reminders : d # m.doc => heard'[d] = heard[d]
          /\ heard'[m.doc] = "acted" => heard[m.doc] = "acted" /\ m.doc \notin unsure
          /\ heard'[m.doc] = "never" => heard[m.doc] = "never"
      BY <1>0, <2>1, <2>4 DEF Doubted
    <3> QED  BY <1>6, <1>7, <2>1, <2>4, <3>1 DEF e, m
  <2> QED  BY <2>2, <2>3, <2>4
<1> QED  BY <1>8, <1>9, <1>10, <1>11 DEF AlarmMainQueue

\* The client and the server go on.
LEMMA ClientAgrees ==
    ASSUME AgreedFacts, AlarmClient
    PROVE  AgreementInv'
<1>0. /\ TypeOK /\ PipelineOK /\ mainQ \in Seq(Event) /\ batches \in Seq(Mutation) /\ replies \in Seq(Reply)
      /\ Len(replies) <= Len(batches) /\ remote \in Versions /\ server \in Versions
      /\ raised \in Nat /\ waiting \in Nat
      /\ AllAgree(mainQ, replies, batches, unsure, server, alarms, heard, drawn, otherOps)
  BY AgreedTypes
<1>1. /\ ClientNext /\ unsure' = unsure \cup AnswersLost /\ UNCHANGED <<alarms, heard>>
  BY DEF AlarmClient
<1>2. /\ AgreementInv /\ SameAnswers(mainQ, mainQ)
  BY DEF AgreedFacts, SameAnswers
<1>3. ASSUME UNCHANGED <<replies, batches>> PROVE unsure' = unsure
  <2>1. CASE replies = <<>>
    <3>1. DOMAIN replies = {}
      BY <2>1
    <3>2. AnswersLost = {}
      BY <3>1 DEF AnswersLost
    <3> QED  BY <1>1, <3>2
  <2>2. CASE replies # <<>>
    BY <1>1, <1>3, <2>2 DEF AnswersLost
  <2> QED  BY <2>1, <2>2
<1>4. CASE ServerCommit
  <2> DEFINE m == batches[Len(replies) + 1]
  <2>1. /\ Len(replies) < Len(batches) /\ UNCHANGED <<drawn, otherOps, batches, mainQ>>
    BY <1>4 DEF ServerCommit, storeVars, eventVars
  <2>2. m \in Mutation /\ m.doc \in Reminders
    <3>1. PICK n \in Nat, k \in Nat : Len(batches) = n /\ Len(replies) = k
      BY <1>0, LenProperties
    <3>2. k + 1 \in 1..n
      BY <2>1, <3>1
    <3>3. m \in Mutation
      BY <1>0, <3>1, <3>2, ElementOfSeq
    <3> QED  BY <3>3 DEF Mutation
  <2>3. PICK r \in Reply : /\ replies' = Append(replies, r)
                           /\ r.ok => Put(m.doc, m.content)
                           /\ ~r.ok => server' = server
    <3>1. server[m.doc].version + 1 \in Nat
      BY <1>0, <2>2 DEF Versions
    <3> DEFINE yes == [ok |-> TRUE, version |-> server[m.doc].version + 1]
               no  == [ok |-> FALSE, version |-> 0]
    <3>2. yes \in Reply /\ yes.ok /\ no \in Reply /\ ~no.ok
      BY <3>1 DEF Reply
    <3>3. \/ Put(m.doc, m.content) /\ replies' = Append(replies, yes)
          \/ server' = server /\ replies' = Append(replies, no)
      BY <1>4 DEF ServerCommit
    <3> HIDE DEF yes, no, m
    <3> QED  BY <3>2, <3>3
  <2>4. /\ \A d \in Reminders : d # m.doc => server'[d] = server[d]
        /\ r.ok => server'[m.doc].content = m.content
        /\ ~r.ok => server'[m.doc] = server[m.doc]
    <3> HIDE DEF m
    <3> QED  BY <1>0, <2>2, <2>3 DEF Put, Versions
  <2>5. AllAgree(mainQ, replies', batches, unsure, server', alarms, heard, drawn, otherOps)
    BY <1>0, <2>1, <2>3, <2>4, CommitAgrees
  <2>6. unsure' = unsure
    <3>1. replies' # <<>>
      BY <1>0, <2>3, AppendProperties
    <3>2. AnswersLost = {}
      BY <3>1 DEF AnswersLost
    <3> QED  BY <1>1, <3>2
  <2> QED  BY <1>1, <2>1, <2>5, <2>6 DEF AgreementInv
<1>5. CASE OtherDevice
  <2>1. /\ otherOps' = otherOps + 1 /\ drawn \subseteq drawn' /\ UNCHANGED <<replies, batches, mainQ>>
    BY <1>5 DEF OtherDevice, streamVars, storeVars, eventVars
  <2>2. otherOps' # 0
    BY <1>0, <2>1 DEF TypeOK, ClientTypeOK
  <2>3. unsure' = unsure
    BY <1>3, <2>1
  <2>4. AllAgree(mainQ, replies, batches, unsure, server', alarms, heard, drawn', otherOps')
    BY <1>0, <2>1, <2>2, ElsewhereAgrees
  <2> QED  BY <1>1, <2>1, <2>3, <2>4 DEF AgreementInv
<1>6. ASSUME SameAnswers(mainQ', mainQ), UNCHANGED <<serverVars, replies, batches>> PROVE AgreementInv'
  BY <1>1, <1>2, <1>3, <1>6, ToldAgrees DEF serverVars
<1>7. CASE WatchSend
  BY <1>2, <1>6, <1>7 DEF WatchSend, storeVars, eventVars
<1>8. CASE ApplyRemoteEvent
  <2>1. EmitSnapshots(mainQ, LocalView(remote', batches), TRUE, "Online") /\ UNCHANGED <<serverVars, replies, batches>>
    BY <1>8 DEF ApplyRemoteEvent
  <2>2. remote' \in Versions
    BY <1>0, <1>1, TypeStep DEF Next, TypeOK, ClientTypeOK, AlarmClient
  <2>3. LocalView(remote', batches) \in View
    BY <1>0, <2>2, LocalViewType
  <2>4. SameAnswers(mainQ', mainQ)
    BY <1>0, <2>1, <2>3, EmitAgrees
  <2> QED  BY <1>6, <2>1, <2>4
<1>9. CASE HandleRejectedListen
  <2>1. /\ mainQ' = mainQ \o [i \in 1..(raised + waiting) |-> Failure] /\ UNCHANGED <<serverVars, replies, batches>>
    BY <1>9 DEF HandleRejectedListen, storeVars
  <2>2. Failure \in Event /\ Failure.kind # "written" /\ raised + waiting \in Nat
    BY <1>0 DEF Failure, Event
  <2>3. SameAnswers(mainQ', mainQ)
    BY <1>0, <2>1, <2>2, CopiesAnswerNobody
  <2> QED  BY <1>6, <2>1, <2>3
<1>10. CASE WatchStreamClosed \/ OnlineStateTimeout
  <2>1. PICK state \in OnlineStates : HandleOnlineStateChange(state)
    BY <1>10 DEF WatchStreamClosed, OnlineStateTimeout, OnlineStates
  <2>2. UNCHANGED <<serverVars, replies, batches>>
    BY <1>10, Zenon DEF WatchStreamClosed, OnlineStateTimeout, streamVars, storeVars
  <2>3. CurrentView \in View /\ EmitSnapshots(mainQ, CurrentView, synced /\ state # "Offline", state)
    BY <1>0, <2>1, OnlineEffect
  <2>4. SameAnswers(mainQ', mainQ)
    BY <1>0, <2>3, EmitAgrees
  <2> QED  BY <1>6, <2>2, <2>4
<1>11. CASE WriteStreamClosed
  <2>1. replies' = <<>> /\ UNCHANGED <<serverVars, batches, mainQ>>
    BY <1>11 DEF WriteStreamClosed, storeVars, eventVars
  <2>2. unsure' = unsure \cup {batches[i].doc : i \in {j \in DOMAIN replies : replies[j].ok}}
    BY <1>1, <2>1 DEF AnswersLost
  <2>3. AllAgree(mainQ, <<>>, batches, unsure \cup {batches[i].doc : i \in {j \in DOMAIN replies : replies[j].ok}},
                 server, alarms, heard, drawn, otherOps)
    BY <1>0, LostAgrees
  <2> QED  BY <1>1, <2>1, <2>2, <2>3 DEF AgreementInv, serverVars
<1>12. CASE HandleSuccessfulWrite \/ HandleRejectedWrite
  <2> DEFINE q == NotifyUser(Head(replies).ok)
  <2>1. /\ replies # <<>> /\ replies' = Tail(replies) /\ batches' = Tail(batches) /\ UNCHANGED serverVars
        /\ EmitSnapshots(q, LocalView(remote', batches'), synced, online)
    <3>1. CASE HandleSuccessfulWrite
      <4>1. /\ replies # <<>> /\ replies' = Tail(replies) /\ batches' = Tail(batches) /\ UNCHANGED serverVars
            /\ EmitSnapshots(NotifyUser(TRUE), LocalView(remote', batches'), synced, online)
            /\ Head(replies).ok /\ Head(replies) \in Reply
        BY <1>0, <3>1, HeadTailProperties DEF HandleSuccessfulWrite
      <4>2. Head(replies).ok = TRUE
        BY <4>1 DEF Reply
      <4> QED  BY <4>1, <4>2
    <3>2. CASE HandleRejectedWrite
      <4>1. /\ replies # <<>> /\ replies' = Tail(replies) /\ batches' = Tail(batches) /\ UNCHANGED serverVars
            /\ EmitSnapshots(NotifyUser(FALSE), LocalView(remote, batches'), synced, online) /\ remote' = remote
            /\ ~Head(replies).ok /\ Head(replies) \in Reply
        BY <1>0, <3>2, HeadTailProperties DEF HandleRejectedWrite
      <4>2. Head(replies).ok = FALSE
        BY <4>1 DEF Reply
      <4> QED  BY <4>1, <4>2
    <3> QED  BY <1>12, <3>1, <3>2
  <2>2. /\ q \in Seq(Event) /\ LocalView(remote', batches') \in View
    <3>1. Head(replies).ok \in BOOLEAN
      <4>1. Head(replies) \in Reply
        BY <1>0, <2>1, HeadTailProperties
      <4> QED  BY <4>1 DEF Reply
    <3>2. q \in Seq(Event)
      BY <1>0, <2>1, <3>1, HeadBatch
    <3>3. remote' \in Versions /\ batches' \in Seq(Mutation)
      BY <1>0, <1>1, TypeStep DEF Next, TypeOK, ClientTypeOK, AlarmClient
    <3> QED  BY <3>2, <3>3, LocalViewType
  <2>3. SameAnswers(mainQ', q)
    BY <1>0, <2>1, <2>2, EmitAgrees
  <2>4. AllAgree(q, replies', batches', unsure, server, alarms, heard, drawn, otherOps)
    BY <1>0, <2>1, AnsweredAgrees DEF NotifyUser
  <2>5. unsure' = unsure
    <3>1. batches' # batches
      <4>1. PICK k \in Nat : Len(batches) = k /\ k # 0
        BY <1>0, <2>1, EmptySeq, LenProperties
      <4>2. Len(Tail(batches)) = k - 1
        BY <1>0, <4>1, EmptySeq, HeadTailProperties
      <4> QED  BY <2>1, <4>1, <4>2
    <3>2. AnswersLost = {}
      BY <3>1 DEF AnswersLost
    <3> QED  BY <1>1, <3>2
  <2> HIDE DEF q
  <2>6. AllAgree(mainQ', replies', batches', unsure, server, alarms, heard, drawn, otherOps)
    BY <2>3, <2>4, SameAgrees
  <2> QED  BY <1>1, <2>1, <2>5, <2>6 DEF AgreementInv, serverVars
<1> QED  BY <1>1, <1>4, <1>5, <1>7, <1>8, <1>9, <1>10, <1>11, <1>12 DEF ClientNext

LEMMA KillAgrees ==
    ASSUME AgreedFacts, AlarmRestart
    PROVE  AgreementInv'
<1>0. /\ TypeOK /\ mainQ \in Seq(Event) /\ batches \in Seq(Mutation) /\ replies \in Seq(Reply)
      /\ Len(replies) <= Len(batches) /\ heard \in [Reminders -> {"never", "missed", "acted"}]
      /\ AllAgree(mainQ, replies, batches, unsure, server, alarms, heard, drawn, otherOps)
  BY AgreedTypes
<1>1. RestartClient /\ UNCHANGED <<alarms, unsure>>
  BY DEF AlarmRestart, Restart
<1>2. replies' = <<>> /\ UNCHANGED <<server, drawn, otherOps>>
  BY <1>1, Zenon DEF RestartClient, serverVars
<1>3. Killed(mainQ, batches, heard, mainQ', batches', heard', Unheard)
  <2>1. mainQ' = <<>> \/ mainQ' = <<Snapshot(LocalView(remote, batches'))>>
    BY <1>1, Zenon DEF RestartClient
  <2>2. Snapshot(LocalView(remote, batches')).kind # "written"
    BY DEF Snapshot
  <2>3. \A i \in DOMAIN mainQ' : mainQ'[i].kind # "written"
    BY <2>1, <2>2
  <2>4. batches' = [i \in DOMAIN batches |-> [batches[i] EXCEPT !.callback = FALSE]]
    BY <1>1, Zenon DEF RestartClient
  <2>5. /\ \A i \in DOMAIN batches : batches[i].callback => batches[i].doc \in Unheard
        /\ \A i \in DOMAIN mainQ : mainQ[i].kind = "written" => mainQ[i].mutation.doc \in Unheard
    BY DEF Unheard
  <2>6. \A d \in Reminders : heard'[d] = IF d \in Unheard THEN "missed" ELSE heard[d]
    BY DEF AlarmRestart
  <2> QED  BY <2>3, <2>4, <2>5, <2>6 DEF Killed
<1>4. AllAgree(mainQ', <<>>, batches', unsure, server, alarms, heard', drawn, otherOps)
  BY <1>0, <1>3, KilledAgrees
<1> QED  BY <1>1, <1>2, <1>4 DEF AgreementInv

LEMMA AgreementStep == AgreedFacts /\ [AlarmNext]_allVars => AgreedFacts'
<1> SUFFICES ASSUME AgreedFacts, [AlarmNext]_allVars PROVE AgreedFacts'
  OBVIOUS
<1>1. AwaitedFacts'
  BY AwaitedStep DEF AgreedFacts
<1>2. AgreementInv'
  BY UserAgrees, MainQueueAgrees, ClientAgrees, KillAgrees DEF AlarmNext
<1> QED  BY <1>1, <1>2 DEF AgreedFacts

LEMMA InitAgreement == AlarmInit => AgreedFacts
<1> SUFFICES ASSUME AlarmInit PROVE AgreedFacts
  OBVIOUS
<1>1. /\ mainQ = <<>> /\ batches = <<>> /\ replies = <<>> /\ unsure = {}
      /\ alarms = NoDocuments /\ heard = [d \in Reminders |-> "never"]
  BY DEF AlarmInit, Init, ClientInit
<1>2. DOMAIN mainQ = {} /\ DOMAIN batches = {} /\ DOMAIN replies = {}
  BY <1>1
<1>3. \A d \in Reminders : heard[d] = "never" /\ alarms[d] = NoContent
  BY <1>1 DEF NoDocuments
<1>4. RestoredOK(mainQ, batches, heard)
  BY <1>2 DEF RestoredOK
<1>5. MadeFirst(mainQ, batches, drawn, heard)
  BY <1>2, <1>3 DEF MadeFirst
<1>6. ASSUME NEW d \in Reminders
      PROVE  AgreesAbout(d, mainQ, replies, batches, unsure, server[d].content, alarms[d], heard[d])
  <2>1. About(mainQ, d) = {} /\ Replied(replies, batches, d) = {}
    BY <1>2 DEF About, Replied
  <2>2. /\ RepliesBring(replies, batches, d, unsure, server[d].content)
        /\ QueueBrings(mainQ, d, unsure, server[d].content)
    BY <2>1 DEF RepliesBring, QueueBrings
  <2> QED  BY <1>3, <2>2 DEF AgreesAbout
<1>7. AgreementInv
  BY <1>3, <1>4, <1>5, <1>6 DEF AgreementInv, AllAgree
<1> QED  BY <1>7, InitAwaited DEF AgreedFacts

\* When nothing is on its way and no other device took part, the alarm of a
\* reminder saved in Edit is the one of the server's document, gone with it if
\* it is gone, unless its last acknowledgement found nobody or was lost.
THEOREM AlarmsAgree == AlarmSpec => []AlarmAgrees
<1>1. AgreedFacts => AlarmAgrees
  <2> SUFFICES ASSUME AgreedFacts, Quiet, otherOps = 0, NEW d \in Reminders
               PROVE  /\ heard[d] = "acted" /\ server[d].content \notin Undated => alarms[d] = server[d].content
                      /\ heard[d] = "never" => alarms[d] = NoContent
    BY DEF AlarmAgrees
  <2>1. /\ replies \in Seq(Reply) /\ Len(replies) <= Len(batches)
        /\ AllAgree(mainQ, replies, batches, unsure, server, alarms, heard, drawn, otherOps)
    BY AgreedTypes
  <2>2. mainQ = <<>> /\ batches = <<>>
    BY DEF Quiet
  <2>3. replies = <<>>
    <3>1. Len(replies) \in Nat /\ Len(batches) = 0
      BY <2>1, <2>2, EmptySeq, LenProperties
    <3>2. Len(replies) = 0
      BY <2>1, <3>1
    <3> QED  BY <2>1, <3>2, EmptySeq
  <2>4. DOMAIN mainQ = {} /\ DOMAIN batches = {} /\ DOMAIN replies = {}
    BY <2>2, <2>3
  <2>5. /\ ~Ahead(replies, batches, d, unsure)
        /\ QuietReplies(replies, batches, d, unsure) /\ QuietQueue(mainQ, d, unsure)
    BY <2>4 DEF Ahead, QuietReplies, Replied, QuietQueue, About
  <2>6. /\ AgreesAbout(d, mainQ, replies, batches, unsure, server[d].content, alarms[d], heard[d])
        /\ heard[d] = "never" => alarms[d] = NoContent
    BY <2>1 DEF AllAgree
  <2> QED  BY <2>5, <2>6 DEF AgreesAbout
<1> QED  BY <1>1, InitAgreement, AgreementStep, PTL DEF AlarmSpec
=============================================================================
