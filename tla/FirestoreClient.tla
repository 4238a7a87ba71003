-------------------------- MODULE FirestoreClient --------------------------
(***************************************************************************)
(* The Firestore client library of one signed-in Remindify user, as the    *)
(* app sees it, beside the server's copy of that user's "reminders"        *)
(* documents.  The library (vendored under Pods/FirebaseFirestore) keeps a *)
(* cache of the server's documents and a queue of local writes; listeners  *)
(* are shown the cache with the queue laid over it, before the server has  *)
(* answered.  Everything it tells the app is a closure on the main queue,  *)
(* which the app's modules consume.                                        *)
(*                                                                         *)
(* The library's own serial worker queue is not a variable: a call of the  *)
(* app and the worker's turn at it are one step.  The app learns of the    *)
(* worker's progress only through mainQ, so every worker step that really  *)
(* ran between the two can be moved before the call.                       *)
(***************************************************************************)
EXTENDS Naturals, Sequences

CONSTANTS
    Reminders,    \* document ids of the collection "reminders"
    Contents,     \* what a document can hold: title, description, date
    NoContent,    \* the content of a document that does not exist
    MaxOther,     \* bound: changes made by the user's other devices
    MaxFaults     \* bound: refused writes, refused listens, broken streams, app kills

ASSUME NoContentAssumption == NoContent \notin Contents

VARIABLES
    server,    \* the server's documents
    drawn,     \* document ids drawn so far, here or elsewhere
    otherOps,  \* changes made so far by other devices
    replies,   \* write-stream replies on their way, for the first batches of the queue
    watch,     \* watch-stream snapshots on their way
    remote,    \* remote document cache of the local store
    batches,   \* mutation queue of the local store, oldest first
    online,    \* what the library believes of its connection
    synced,    \* the query's view is current: not from the cache only
    raised,    \* listeners that have had their initial event
    waiting,   \* listeners that have not
    mainQ,     \* closures dispatched to the app's main queue
    faults     \* faults so far

serverVars == <<server, drawn, otherOps>>
streamVars == <<replies, watch>>
storeVars  == <<remote, batches>>
eventVars  == <<online, synced, raised, waiting, mainQ>>
clientVars == <<serverVars, streamVars, storeVars, eventVars, faults>>

Maybe    == Contents \cup {NoContent}
View     == [Reminders -> Maybe]
Versions == [Reminders -> [content : Maybe, version : Nat]]

\* "callback" is FALSE for a mutation restored from disk after a restart.
Mutation == [op : {"set", "update", "delete"}, doc : Reminders, content : Maybe, callback : BOOLEAN]
OnlineStates == {"Unknown", "Online", "Offline"}
Reply    == [ok : BOOLEAN, version : Nat]
Event    == [kind : {"snapshot"}, docs : View]
            \cup [kind : {"failure"}]
            \cup [kind : {"written"}, mutation : Mutation, ok : BOOLEAN]

Snapshot(v)    == [kind |-> "snapshot", docs |-> v]
Failure        == [kind |-> "failure"]
Written(m, ok) == [kind |-> "written", mutation |-> m, ok |-> ok]

NoDocuments == [d \in Reminders |-> NoContent]
ContentsOf(docs) == [d \in Reminders |-> docs[d].content]

-----------------------------------------------------------------------------
(* The local view: the cache with the queued writes laid over it.  A set   *)
(* or a delete replaces whatever is there; an update (which carries every  *)
(* field the app shows) applies only to a document that exists.            *)

HasNewest(S) == \E i \in S : \A j \in S : j <= i
Newest(S)    == CHOOSE i \in S : \A j \in S : j <= i

LocalDoc(r, b, d) ==
    LET blind   == {i \in DOMAIN b : b[i].doc = d /\ b[i].op # "update"}
        base    == IF HasNewest(blind) THEN b[Newest(blind)].content ELSE r[d].content
        patches == {i \in DOMAIN b : /\ b[i].doc = d /\ b[i].op = "update"
                                     /\ \A j \in blind : j < i}
    IN  IF base # NoContent /\ HasNewest(patches) THEN b[Newest(patches)].content ELSE base

LocalView(r, b) == [d \in Reminders |-> LocalDoc(r, b, d)]
CurrentView     == LocalView(remote, batches)

\* A fresh listener is raised at once when the view is synced or has documents,
\* or when there is no hope of the server's answer.
RaisesInitial(v, current, state) == current \/ v # NoDocuments \/ state = "Offline"

\* Slip: a waiting listener is counted off even when none is raised.
EmitSnapshotsMiscounted(q, v, current, state) ==
    /\ mainQ' = q \o [i \in 1..raised |-> Snapshot(v)]
    /\ raised' = raised + 1
    /\ waiting' = waiting - 1
    /\ synced' = current /\ online' = state

\* The view becomes v: listeners that had their initial event hear of a change
\* of the documents, the others get their initial event as soon as they may.
\* Everything is appended to q, the main queue as the step has left it so far.
EmitSnapshots(q, v, current, state) ==
    LET initial == RaisesInitial(v, current, state)
        fresh   == IF initial THEN waiting ELSE 0
        n       == (IF v # CurrentView THEN raised ELSE 0) + fresh
    IN  /\ mainQ'   = q \o [i \in 1..n |-> Snapshot(v)]
        /\ raised'  = raised + fresh
        /\ waiting' = waiting - fresh
        /\ synced'  = current
        /\ online'  = state

Listening == raised + waiting > 0

-----------------------------------------------------------------------------
(* Calls of the app.                                                       *)

AddSnapshotListener(q) ==
    /\ IF RaisesInitial(CurrentView, synced, online)
       THEN /\ mainQ' = Append(q, Snapshot(CurrentView))
            /\ raised' = raised + 1
            /\ UNCHANGED waiting
       ELSE /\ mainQ' = q
            /\ waiting' = waiting + 1
            /\ UNCHANGED raised
    /\ UNCHANGED <<serverVars, streamVars, storeVars, online, synced, faults>>

WriteMutations(m) ==
    /\ batches' = Append(batches, m)
    /\ drawn' = drawn \cup {m.doc}
    /\ EmitSnapshots(mainQ, LocalView(remote, batches'), synced, online)
    /\ UNCHANGED <<server, otherOps, streamVars, remote, faults>>

-----------------------------------------------------------------------------
(* The server, and the user's other devices.                               *)

Put(d, c) == server' = [server EXCEPT ![d] = [content |-> c, version |-> @.version + 1]]

\* The server works through the pipelined batches in order and stops at the
\* first one it refuses.  It refuses an update of a document that is not there
\* (updateData carries exists = true) and whatever its rules forbid.
ServerCommit ==
    /\ Len(replies) < Len(batches)
    /\ \A i \in DOMAIN replies : replies[i].ok
    /\ LET m == batches[Len(replies) + 1]
           refused == m.op = "update" /\ server[m.doc].content = NoContent
       IN  \/ /\ ~refused
              /\ Put(m.doc, m.content)
              /\ replies' = Append(replies, [ok |-> TRUE, version |-> server[m.doc].version + 1])
              /\ UNCHANGED faults
           \/ /\ refused \/ faults < MaxFaults
              /\ replies' = Append(replies, [ok |-> FALSE, version |-> 0])
              /\ faults' = IF refused THEN faults ELSE faults + 1
              /\ UNCHANGED server
    /\ UNCHANGED <<drawn, otherOps, watch, storeVars, eventVars>>

OtherDevice ==
    /\ otherOps < MaxOther
    /\ otherOps' = otherOps + 1
    /\ \E d \in Reminders :
          \/ /\ d \notin drawn
             /\ drawn' = drawn \cup {d}
             /\ \E c \in Contents : Put(d, c)
          \/ /\ server[d].content # NoContent
             /\ \E c \in Maybe \ {server[d].content} : Put(d, c)
             /\ UNCHANGED drawn
    /\ UNCHANGED <<streamVars, storeVars, eventVars, faults>>

WatchSend ==
    /\ Listening
    /\ watch = <<>>
    /\ watch' = <<server>>
    /\ UNCHANGED <<serverVars, replies, storeVars, eventVars, faults>>

-----------------------------------------------------------------------------
(* The client's worker.                                                    *)

\* Slip: whatever the watch stream brings replaces the cache.
WatchedIntoCacheUnversioned(docs) == docs

\* A watched document older than the cached one is ignored: an acknowledged
\* write may have overtaken the snapshot.  At the same version the cached one is
\* that write's own result, and gives way.
WatchedIntoCache(docs) ==
    [d \in Reminders |-> IF docs[d].version >= remote[d].version THEN docs[d] ELSE remote[d]]

ApplyRemoteEvent ==
    /\ watch # <<>>
    /\ remote' = WatchedIntoCache(Head(watch))
    /\ watch' = Tail(watch)
    /\ EmitSnapshots(mainQ, LocalView(remote', batches), TRUE, "Online")
    /\ UNCHANGED <<serverVars, replies, batches, faults>>

\* NotifyUser: the caller's completion runs before the snapshots it causes.
NotifyUser(ok) ==
    IF Head(batches).callback THEN Append(mainQ, Written(Head(batches), ok)) ELSE mainQ

\* A patch of a document the cache does not hold leaves it unknown.
AckedContent(m) == IF m.op = "update" /\ remote[m.doc].content = NoContent
                   THEN NoContent ELSE m.content

\* The cache takes an acknowledged write, unless watch has been there already.
AckedIntoCache(m, v) ==
    IF remote[m.doc].version < v
    THEN [remote EXCEPT ![m.doc] = [content |-> AckedContent(m), version |-> v]]
    ELSE remote

HandleSuccessfulWrite ==
    /\ replies # <<>> /\ Head(replies).ok
    /\ remote' = AckedIntoCache(Head(batches), Head(replies).version)
    /\ batches' = Tail(batches)
    /\ replies' = Tail(replies)
    /\ EmitSnapshots(NotifyUser(TRUE), LocalView(remote', batches'), synced, online)
    /\ UNCHANGED <<serverVars, watch, faults>>

\* Slip: the caller learns of the refusal, the listeners do not.
HandleRejectedWriteSilently ==
    /\ replies # <<>> /\ ~Head(replies).ok
    /\ batches' = Tail(batches)
    /\ replies' = Tail(replies)
    /\ mainQ' = NotifyUser(FALSE)
    /\ UNCHANGED <<serverVars, watch, remote, online, synced, raised, waiting, faults>>

HandleRejectedWrite ==
    /\ replies # <<>> /\ ~Head(replies).ok
    /\ batches' = Tail(batches)
    /\ replies' = Tail(replies)
    /\ EmitSnapshots(NotifyUser(FALSE), LocalView(remote, batches'), synced, online)
    /\ UNCHANGED <<serverVars, watch, remote, faults>>

\* The server refuses the query (missing index, permission): every listener is
\* told once and forgotten.
HandleRejectedListen ==
    /\ Listening
    /\ faults < MaxFaults
    /\ faults' = faults + 1
    /\ mainQ' = mainQ \o [i \in 1..(raised + waiting) |-> Failure]
    /\ raised' = 0 /\ waiting' = 0 /\ synced' = FALSE /\ online' = "Online"
    /\ watch' = <<>>
    /\ UNCHANGED <<serverVars, replies, storeVars>>

\* The online state reaches the views and the listeners: a view goes back to
\* the cache when the client is offline, and whoever waits is told what there is.
HandleOnlineStateChange(state) ==
    EmitSnapshots(mainQ, CurrentView, synced /\ state # "Offline", state)

\* The watch stream breaks: what was on it is lost.  After a first failure the
\* client still hopes, after a second in a row it is offline; with nothing to
\* listen for it cannot tell.
WatchStreamClosed ==
    /\ faults < MaxFaults
    /\ faults' = faults + 1
    /\ watch' = <<>>
    /\ HandleOnlineStateChange(IF online = "Online" \/ ~Listening THEN "Unknown" ELSE "Offline")
    /\ UNCHANGED <<serverVars, replies, storeVars>>

\* Ten seconds without a word from the server, the stream still open.
OnlineStateTimeout ==
    /\ Listening
    /\ online = "Unknown"
    /\ HandleOnlineStateChange("Offline")
    /\ UNCHANGED <<serverVars, streamVars, storeVars, faults>>

\* The write stream breaks: the replies are lost, the pipeline is sent again.
WriteStreamClosed ==
    /\ replies # <<>>
    /\ faults < MaxFaults
    /\ faults' = faults + 1
    /\ replies' = <<>>
    /\ UNCHANGED <<serverVars, watch, storeVars, eventVars>>

\* Slip: the cached reminders are shown, but the writes still queued are not.
RestartClientFromCache ==
    /\ faults < MaxFaults
    /\ faults' = faults + 1
    /\ replies' = <<>> /\ watch' = <<>>
    /\ batches' = [i \in DOMAIN batches |-> [batches[i] EXCEPT !.callback = FALSE]]
    /\ synced' = FALSE /\ online' = "Unknown"
    /\ mainQ' = <<Snapshot(ContentsOf(remote))>> /\ raised' = 1 /\ waiting' = 0
    /\ UNCHANGED <<serverVars, remote>>

\* The app is killed and started again: the local store survives on disk, the
\* callbacks, the listeners and the main queue do not.  The launch of the app
\* registers the listener of its Home screen.
RestartClient ==
    /\ faults < MaxFaults
    /\ faults' = faults + 1
    /\ replies' = <<>> /\ watch' = <<>>
    /\ batches' = [i \in DOMAIN batches |-> [batches[i] EXCEPT !.callback = FALSE]]
    /\ synced' = FALSE /\ online' = "Unknown"
    /\ LET v == LocalView(remote, batches')
       IN  IF RaisesInitial(v, FALSE, "Unknown")
           THEN mainQ' = <<Snapshot(v)>> /\ raised' = 1 /\ waiting' = 0
           ELSE mainQ' = <<>> /\ raised' = 0 /\ waiting' = 1
    /\ UNCHANGED <<serverVars, remote>>

\* The first launch, with nothing cached and Home's listener registered.
ClientInit ==
    /\ server \in [Reminders -> [content : Maybe, version : {0, 1}]]
    /\ \A d \in Reminders : server[d].content # NoContent <=> server[d].version = 1
    /\ drawn = {d \in Reminders : server[d].version = 1}
    /\ otherOps = 0 /\ faults = 0
    /\ replies = <<>> /\ watch = <<>>
    /\ remote = [d \in Reminders |-> [content |-> NoContent, version |-> 0]]
    /\ batches = <<>>
    /\ online = "Unknown" /\ synced = FALSE
    /\ raised = 0 /\ waiting = 1 /\ mainQ = <<>>

\* The steps in which the app takes no part.
ClientNext ==
    \/ ServerCommit \/ OtherDevice \/ WatchSend
    \/ ApplyRemoteEvent \/ HandleSuccessfulWrite \/ HandleRejectedWrite
    \/ HandleRejectedListen
    \/ WatchStreamClosed \/ OnlineStateTimeout \/ WriteStreamClosed

ClientTypeOK ==
    /\ server \in Versions /\ remote \in Versions
    /\ replies \in Seq(Reply) /\ watch \in Seq(Versions)
    /\ batches \in Seq(Mutation)
    /\ mainQ \in Seq(Event)
    /\ online \in OnlineStates /\ synced \in BOOLEAN
    /\ raised \in Nat /\ waiting \in Nat
    /\ drawn \subseteq Reminders
    /\ otherOps \in Nat /\ faults \in Nat
=============================================================================
