--------------------------- MODULE HomeReminders ---------------------------
(***************************************************************************)
(* The Home screen's reminder list (HomeReminderTableViewController) on    *)
(* top of the Firestore client: the two arrays behind the table, the       *)
(* search bar, the swipe that deletes a row, and the snapshot and          *)
(* completion closures that race with them on the main queue.  The Add and *)
(* Edit screens appear as far as they write documents.                     *)
(*                                                                         *)
(* An array is kept as the function from a document id to the content the  *)
(* array holds for it; the order of the rows is left to ReminderTable.     *)
(***************************************************************************)
EXTENDS FirestoreClient, Selections

CONSTANTS
    Texts,        \* non-empty search texts
    Found,        \* Found[t]: the contents whose title contains t
    NoText,       \* the empty search bar
    NoReminder,   \* no row selected
    MaxWrites     \* bound: reminders added, saved or deleted on this device

ASSUME TextsAssumption      == /\ Found \in [Texts -> SUBSET Contents]
                               /\ NoText \notin Texts
ASSUME NoReminderAssumption == NoReminder \notin Reminders
ASSUME MaxWritesAssumption  == MaxWrites \in Nat

VARIABLES
    originalRemindersArr,   \* the last snapshot taken
    filteredRemindersArr,   \* what the table shows
    searchText,             \* what the search bar shows
    selected,               \* the reminder the Edit screen on top holds a copy of
    writes,                 \* writes made so far
    deleted                 \* ghost: reminders whose deletion was reported to the user

listVars == <<originalRemindersArr, filteredRemindersArr>>
homeVars == <<listVars, searchText, selected, writes, deleted>>
vars     == <<clientVars, homeVars>>

OnHome == selected = NoReminder

\* The search bar's delegate: everything for an empty text, else the matches.
Matching(docs, t) ==
    [d \in Reminders |-> IF t = NoText \/ docs[d] \in Found[t] THEN docs[d] ELSE NoContent]

-----------------------------------------------------------------------------
(* Gestures on the Home screen.                                            *)

TextDidChange(t) ==
    /\ OnHome
    /\ searchText' = t
    /\ filteredRemindersArr' = Matching(originalRemindersArr, t)
    /\ UNCHANGED <<originalRemindersArr, selected, writes, deleted, clientVars>>

\* Slip: the row goes, but no deletion is written.
DeleteActionUnsent(d) ==
    /\ OnHome
    /\ filteredRemindersArr[d] # NoContent
    /\ writes < MaxWrites
    /\ writes' = writes + 1
    /\ filteredRemindersArr' = [filteredRemindersArr EXCEPT ![d] = NoContent]
    /\ UNCHANGED <<originalRemindersArr, searchText, selected, deleted, clientVars>>

\* The row goes at once, from the table's array only; the listener is left to
\* catch up with the rest.
DeleteAction(d) ==
    /\ OnHome
    /\ filteredRemindersArr[d] # NoContent
    /\ writes < MaxWrites
    /\ writes' = writes + 1
    /\ filteredRemindersArr' = [filteredRemindersArr EXCEPT ![d] = NoContent]
    /\ WriteMutations([op |-> "delete", doc |-> d, content |-> NoContent, callback |-> TRUE])
    /\ UNCHANGED <<originalRemindersArr, searchText, selected, deleted>>

DidSelectRow(d) ==
    /\ OnHome
    /\ filteredRemindersArr[d] # NoContent
    /\ selected' = d
    /\ UNCHANGED <<listVars, searchText, writes, deleted, clientVars>>

-----------------------------------------------------------------------------
(* The Add and Edit screens, as writers of documents.                      *)

\* Add saves and pops at once; the document id is new.
AddReminder(d, c) ==
    /\ OnHome
    /\ d \notin drawn
    /\ writes < MaxWrites
    /\ writes' = writes + 1
    /\ WriteMutations([op |-> "set", doc |-> d, content |-> c, callback |-> TRUE])
    /\ UNCHANGED <<listVars, searchText, selected, deleted>>

\* Edit writes all three fields of its form over the document, whatever has
\* become of the document since the row was selected.
UpdateReminder(c) ==
    /\ ~OnHome
    /\ writes < MaxWrites
    /\ writes' = writes + 1
    /\ WriteMutations([op |-> "update", doc |-> selected, content |-> c, callback |-> TRUE])
    /\ UNCHANGED <<listVars, searchText, selected, deleted>>

CloseEdit ==
    /\ ~OnHome
    /\ selected' = NoReminder
    /\ UNCHANGED <<listVars, searchText, writes, deleted, clientVars>>

-----------------------------------------------------------------------------
(* Closures the main queue runs, whatever screen is on top.                *)

Turn(kind) == mainQ # <<>> /\ Head(mainQ).kind = kind

Dequeue ==
    /\ mainQ' = Tail(mainQ)
    /\ UNCHANGED <<serverVars, streamVars, storeVars, online, synced, raised, waiting, faults>>

\* Slip: only the array kept for searching is refreshed.
SnapshotReceivedUnshown ==
    /\ Turn("snapshot")
    /\ originalRemindersArr' = Head(mainQ).docs
    /\ Dequeue
    /\ UNCHANGED <<filteredRemindersArr, searchText, selected, writes, deleted>>

\* Slip: only the table is refreshed, a later search starts from the old array.
SnapshotReceivedUnkept ==
    /\ Turn("snapshot")
    /\ filteredRemindersArr' = Head(mainQ).docs
    /\ Dequeue
    /\ UNCHANGED <<originalRemindersArr, searchText, selected, writes, deleted>>

\* Both arrays become the snapshot; the search text is not consulted.
SnapshotReceived ==
    /\ Turn("snapshot")
    /\ originalRemindersArr' = Head(mainQ).docs
    /\ filteredRemindersArr' = Head(mainQ).docs
    /\ Dequeue
    /\ UNCHANGED <<searchText, selected, writes, deleted>>

\* A failed listen is only printed.
ListenFailed ==
    /\ Turn("failure")
    /\ Dequeue
    /\ UNCHANGED homeVars

\* deleteReminder's completion: after a success Home loads the reminders
\* again, which adds one more listener; after an error it only prints.
DeleteCompleted ==
    /\ Turn("written")
    /\ Head(mainQ).mutation.op = "delete"
    /\ IF Head(mainQ).ok
       THEN /\ AddSnapshotListener(Tail(mainQ))
            /\ deleted' = deleted \cup {Head(mainQ).mutation.doc}
       ELSE Dequeue /\ UNCHANGED deleted
    /\ UNCHANGED <<listVars, searchText, selected, writes>>

\* The completions of Add and Edit leave the list alone; Edit's may pop Edit.
SaveCompleted ==
    /\ Turn("written")
    /\ Head(mainQ).mutation.op # "delete"
    /\ Dequeue
    /\ selected' \in IF Head(mainQ).ok /\ Head(mainQ).mutation.op = "update"
                     THEN {selected, NoReminder} ELSE {selected}
    /\ UNCHANGED <<listVars, searchText, writes, deleted>>

\* A new process: Home is loaded again with empty arrays.
Restart ==
    /\ RestartClient
    /\ originalRemindersArr' = NoDocuments /\ filteredRemindersArr' = NoDocuments
    /\ searchText' = NoText /\ selected' = NoReminder
    /\ UNCHANGED <<writes, deleted>>

-----------------------------------------------------------------------------
Init ==
    /\ ClientInit
    /\ originalRemindersArr = NoDocuments /\ filteredRemindersArr = NoDocuments
    /\ searchText = NoText /\ selected = NoReminder
    /\ writes = 0 /\ deleted = {}

User == \/ \E t \in Texts \cup {NoText} : TextDidChange(t)
        \/ \E d \in Reminders : DeleteAction(d)
        \/ \E d \in Reminders : DidSelectRow(d)
        \/ \E d \in Reminders, c \in Contents : AddReminder(d, c)
        \/ \E c \in Contents : UpdateReminder(c)
        \/ CloseEdit

MainQueue == SnapshotReceived \/ ListenFailed \/ DeleteCompleted \/ SaveCompleted

Next == User \/ MainQueue \/ Restart \/ (ClientNext /\ UNCHANGED homeVars)

Spec == Init /\ [][Next]_vars
-----------------------------------------------------------------------------
(* Properties.                                                             *)

\* Every variable keeps its shape: arrays hold reminders the contents of
\* which the app can show, queues hold closures the handlers know.
TypeOK ==
    /\ ClientTypeOK
    /\ originalRemindersArr \in View /\ filteredRemindersArr \in View
    /\ searchText \in Texts \cup {NoText}
    /\ selected \in Reminders \cup {NoReminder}
    /\ writes \in Nat /\ deleted \subseteq Reminders

\* Every row of the table is a reminder of the last snapshot, with the content
\* that snapshot gave it: neither search nor swipe leaves an older row behind.
FilteredFromOriginal ==
    \A d \in Reminders : filteredRemindersArr[d] \in {NoContent, originalRemindersArr[d]}

\* Once the closures of q have run, an array that is arr now holds v.
Snapshots(q) == {i \in DOMAIN q : q[i].kind = "snapshot"}
Delivers(q, arr, v) ==
    /\ \A i \in Snapshots(q) : (\A j \in Snapshots(q) : j <= i) => q[i].docs = v
    /\ Snapshots(q) = {} => arr = v

\* While a listener is alive the newest snapshot on its way to Home, or what
\* Home has when none is, is the client's view: snapshots are neither lost nor
\* overtaken however deletes, acknowledgements and duplicate listeners mix.
MirrorsView == raised > 0 => Delivers(mainQ, originalRemindersArr, CurrentView)

\* With every queue empty and the cache up to date, Home holds exactly the
\* server's reminders, and the table shows all of them or the ones the search
\* bar asks for: a swiped row whose deletion was refused is back, a deleted one
\* is gone, and nothing stays half removed.
Quiet == /\ batches = <<>> /\ mainQ = <<>> /\ raised > 0
         /\ ContentsOf(remote) = ContentsOf(server)
Settled ==
    Quiet => /\ originalRemindersArr = ContentsOf(server)
             /\ filteredRemindersArr \in {originalRemindersArr,
                                          Matching(originalRemindersArr, searchText)}

\* The replies on their way are for batches still in the queue.
PipelineOK == Len(replies) <= Len(batches)

\* While Home listens and no snapshot is on its way, the table shows the last
\* snapshot, or its matches for the search bar: a swiped row is missing only
\* until the snapshot without it arrives.
TableFollows == raised > 0 /\ Snapshots(mainQ) = {} =>
    filteredRemindersArr \in {originalRemindersArr, Matching(originalRemindersArr, searchText)}

\* Calls of one kind the completion of which has not run: it waits on the main
\* queue, or for the server's answer to a write of this process.
AnswersTo(o) == [kind : {"written"}, ok : BOOLEAN,
                 mutation : [op : {o}, doc : Reminders, content : Maybe, callback : BOOLEAN]]
Calling(o) == [op : {o}, doc : Reminders, content : Maybe, callback : {TRUE}]
Pending(o) == Len(Only(mainQ, AnswersTo(o))) + Len(Only(batches, Calling(o)))

\* A listener for the launch, and at most one for every deletion: the listeners
\* Home forgets to remove stay as few as that.
ListenersCounted == raised + waiting + Pending("delete") <= writes + 1 /\ writes <= MaxWrites

\* The inductive invariant behind Settled.
HomeInv == TypeOK /\ PipelineOK /\ FilteredFromOriginal /\ MirrorsView /\ TableFollows

\* A reminder whose deletion has been reported never enters the list again:
\* no snapshot, old or new, brings it back.
NoResurrection ==
    [][\A d \in deleted : originalRemindersArr[d] = NoContent => originalRemindersArr'[d] = NoContent]_vars

\* What the search bar's delegate says it does (line 180 of Home's source): if
\* there is text in the search bar, the table shows the reminders that match it.
SearchRespected ==
    searchText # NoText => \A d \in Reminders : filteredRemindersArr[d] \in Found[searchText] \cup {NoContent}

\* Home keeps what LaggingMirror promises: whichever of the client's steps moves
\* the view, every listener is told, and Home takes the snapshots in that order.
Told == [kind : {"snapshot"}, docs : View]
DocsOf(s) == [i \in DOMAIN s |-> s[i].docs]
Sent == DocsOf(Only(mainQ, Told))
Mirror == INSTANCE LaggingMirror
    WITH Views <- View, Nothing <- NoDocuments, Newcomers <- 0..(MaxWrites + 1),
         view <- CurrentView, listeners <- raised, inbox <- Sent,
         shown <- originalRemindersArr
ImplementsMirror == Mirror!MirrorSpec

\* Once the user, the other devices and the faults are done, a Home that still
\* listens ends up with the server's reminders.
Converges == <>[](Listening => originalRemindersArr = ContentsOf(server))
=============================================================================
