----------------------- MODULE HomeReminders_proofs -----------------------
(***************************************************************************)
(* For every set of reminders, contents and search texts and every bound:  *)
(* the types are right, the table's rows come from the last snapshot, the  *)
(* newest snapshot is the client's view, and a quiet Home shows the        *)
(* server's reminders.  What was reported deleted stays away, listeners    *)
(* stay few, and Home implements LaggingMirror.                            *)
(***************************************************************************)
EXTENDS HomeReminders, Selections_proofs, SequenceTheorems, TLAPS

\* The local view of a well-typed cache and queue is a view.
LEMMA LocalViewType ==
    ASSUME NEW r \in Versions, NEW b \in Seq(Mutation)
    PROVE  LocalView(r, b) \in View
<1>1. SUFFICES ASSUME NEW d \in Reminders PROVE LocalDoc(r, b, d) \in Maybe
  BY DEF LocalView, View
<1>2. r[d].content \in Maybe
  BY DEF Versions
<1>3. ASSUME NEW S \in SUBSET DOMAIN b, HasNewest(S) PROVE b[Newest(S)].content \in Maybe
  <2>1. Newest(S) \in S
    BY <1>3 DEF HasNewest, Newest
  <2>2. Newest(S) \in 1..Len(b)
    BY <2>1, LenProperties
  <2>3. b[Newest(S)] \in Mutation
    BY <2>2, ElementOfSeq
  <2>. QED
    BY <2>3 DEF Mutation
<1>. QED
  BY <1>2, <1>3 DEF LocalDoc

\* A queued delete removes its document from the view, whatever lies below it.
LEMMA DeleteHides ==
    ASSUME NEW r, NEW b \in Seq(Mutation), NEW m \in Mutation, m.op = "delete", m.content = NoContent
    PROVE  LocalDoc(r, Append(b, m), m.doc) = NoContent
<1> DEFINE n     == Len(b) + 1
           bb    == Append(b, m)
           blind == {i \in DOMAIN bb : bb[i].doc = m.doc /\ bb[i].op # "update"}
<1>1. DOMAIN bb = 1..n /\ bb[n] = m /\ n \in Nat /\ n \in 1..n
  BY LenProperties, AppendProperties
<1>2. n \in blind /\ \A j \in blind : j <= n
  BY <1>1
<1>3. HasNewest(blind) /\ Newest(blind) = n
  <2>1. \A i \in blind : (\A j \in blind : j <= i) => i = n
    BY <1>1, <1>2
  <2>. QED
    BY <1>2, <2>1 DEF HasNewest, Newest
<1>. QED
  BY <1>1, <1>3 DEF LocalDoc

-----------------------------------------------------------------------------
(* Main queues.                                                            *)

\* Appending a closure that is not a snapshot changes nothing for the array.
LEMMA DeliversAppendOther ==
    ASSUME NEW q \in Seq(Event), NEW e \in Event, e.kind # "snapshot"
    PROVE  /\ Snapshots(Append(q, e)) = Snapshots(q)
           /\ \A arr, v : Delivers(q, arr, v) => Delivers(Append(q, e), arr, v)
<1>1. /\ DOMAIN q = 1..Len(q) /\ Len(q) \in Nat
      /\ DOMAIN Append(q, e) = 1..(Len(q) + 1)
      /\ \A i \in 1..Len(q) : Append(q, e)[i] = q[i]
      /\ Append(q, e)[Len(q) + 1] = e
  BY LenProperties, AppendProperties
<1>2. Snapshots(Append(q, e)) = Snapshots(q)
  BY <1>1 DEF Snapshots
<1>3. \A i \in Snapshots(q) : Append(q, e)[i] = q[i]
  BY <1>1 DEF Snapshots
<1>. QED
  BY <1>2, <1>3 DEF Delivers

\* Appending snapshots of v, at least one of them, makes v the array's future.
LEMMA DeliversConcat ==
    ASSUME NEW q \in Seq(Event), NEW v \in View, NEW n \in Nat
    PROVE  LET qq == q \o [i \in 1..n |-> Snapshot(v)]
           IN  /\ qq \in Seq(Event)
               /\ n > 0 => Snapshots(qq) # {} /\ \A arr : Delivers(qq, arr, v)
               /\ n = 0 => qq = q
<1> DEFINE t  == [i \in 1..n |-> Snapshot(v)]
           qq == q \o t
<1>1. Snapshot(v) \in Event
  BY DEF Snapshot, Event
<1>2. t \in Seq(Event) /\ Len(t) = n
  BY <1>1
<1>3. /\ qq \in Seq(Event)
      /\ Len(qq) = Len(q) + n
      /\ \A i \in 1..(Len(q) + n) : qq[i] = IF i <= Len(q) THEN q[i] ELSE t[i - Len(q)]
  BY <1>2, ConcatProperties
<1>4. Len(q) \in Nat /\ DOMAIN qq = 1..(Len(q) + n)
  BY <1>3, LenProperties
<1> HIDE DEF qq
<1>5. ASSUME n > 0 PROVE Snapshots(qq) # {} /\ \A arr : Delivers(qq, arr, v)
  <2> DEFINE last == Len(q) + n
  <2>1. last \in DOMAIN qq /\ qq[last] = Snapshot(v)
    <3>1. last \in 1..(Len(q) + n) /\ ~(last <= Len(q)) /\ last - Len(q) \in 1..n
      BY <1>4, <1>5
    <3>. QED
      BY <1>3, <1>4, <3>1
  <2>2. last \in Snapshots(qq)
    BY <2>1 DEF Snapshots, Snapshot
  <2>3. ASSUME NEW i \in Snapshots(qq), \A j \in Snapshots(qq) : j <= i
        PROVE  qq[i].docs = v
    <3>1. i \in 1..last /\ last <= i
      BY <1>4, <2>2, <2>3 DEF Snapshots
    <3>2. i = last
      BY <1>4, <3>1
    <3>. QED
      BY <2>1, <3>2 DEF Snapshot
  <2>. QED
    BY <2>2, <2>3 DEF Delivers
<1>6. ASSUME n = 0 PROVE qq = q
  <2>1. t = <<>>
    BY <1>2, <1>6, EmptySeq
  <2>. QED
    BY <2>1, ConcatEmptySeq DEF qq
<1>. QED
  BY <1>3, <1>5, <1>6 DEF qq

\* Running a closure that is not a snapshot changes nothing for the array.
LEMMA DeliversTailOther ==
    ASSUME NEW q \in Seq(Event), q # <<>>, Head(q).kind # "snapshot"
    PROVE  /\ Snapshots(Tail(q)) = {} <=> Snapshots(q) = {}
           /\ \A arr, v : Delivers(q, arr, v) => Delivers(Tail(q), arr, v)
<1>1. /\ Len(q) \in Nat /\ DOMAIN q = 1..Len(q) /\ Tail(q) \in Seq(Event)
      /\ DOMAIN Tail(q) = 1..(Len(q) - 1) /\ Len(q) >= 1
      /\ \A i \in 1..(Len(q) - 1) : Tail(q)[i] = q[i + 1]
      /\ Head(q) = q[1]
  BY LenProperties, HeadTailProperties, EmptySeq
<1>2. \A i : i \in Snapshots(Tail(q)) <=> i \in 1..(Len(q) - 1) /\ i + 1 \in Snapshots(q)
  BY <1>1 DEF Snapshots
<1>3. \A i \in Snapshots(q) : i \in Nat /\ i # 1 /\ i - 1 \in Snapshots(Tail(q))
  <2>1. SUFFICES ASSUME NEW i \in Snapshots(q) PROVE i \in Nat /\ i # 1 /\ i - 1 \in Snapshots(Tail(q))
    OBVIOUS
  <2>2. i \in 1..Len(q) /\ i # 1
    BY <1>1 DEF Snapshots
  <2>. QED
    BY <1>1, <1>2, <2>2
<1>4. ASSUME NEW arr, NEW v, Delivers(q, arr, v) PROVE Delivers(Tail(q), arr, v)
  <2>1. ASSUME NEW i \in Snapshots(Tail(q)), \A j \in Snapshots(Tail(q)) : j <= i
        PROVE  Tail(q)[i].docs = v
    <3>1. i + 1 \in Snapshots(q) /\ i \in 1..(Len(q) - 1)
      BY <1>2
    <3>2. \A j \in Snapshots(q) : j <= i + 1
      BY <1>1, <1>3, <2>1, <3>1
    <3>. QED
      BY <1>1, <1>4, <3>1, <3>2 DEF Delivers
  <2>2. Snapshots(Tail(q)) = {} => arr = v
    BY <1>3, <1>4 DEF Delivers
  <2>. QED
    BY <2>1, <2>2 DEF Delivers
<1>. QED
  BY <1>2, <1>3, <1>4

\* Running a snapshot: the array that takes it still becomes v.
LEMMA DeliversTailSnapshot ==
    ASSUME NEW q \in Seq(Event), q # <<>>, Head(q).kind = "snapshot",
           NEW arr, NEW v, Delivers(q, arr, v)
    PROVE  Delivers(Tail(q), Head(q).docs, v)
<1>1. /\ Len(q) \in Nat /\ DOMAIN q = 1..Len(q) /\ Tail(q) \in Seq(Event)
      /\ DOMAIN Tail(q) = 1..(Len(q) - 1) /\ Len(q) >= 1
      /\ \A i \in 1..(Len(q) - 1) : Tail(q)[i] = q[i + 1]
      /\ Head(q) = q[1]
  BY LenProperties, HeadTailProperties, EmptySeq
<1>2. \A i : i \in Snapshots(Tail(q)) <=> i \in 1..(Len(q) - 1) /\ i + 1 \in Snapshots(q)
  BY <1>1 DEF Snapshots
<1>3. \A i \in Snapshots(q) : i \in Nat /\ (i # 1 => i - 1 \in Snapshots(Tail(q)))
  <2>1. SUFFICES ASSUME NEW i \in Snapshots(q) PROVE i \in Nat /\ (i # 1 => i - 1 \in Snapshots(Tail(q)))
    OBVIOUS
  <2>2. i \in 1..Len(q)
    BY <1>1 DEF Snapshots
  <2>. QED
    BY <1>1, <1>2, <2>2
<1>4. ASSUME NEW i \in Snapshots(Tail(q)), \A j \in Snapshots(Tail(q)) : j <= i
      PROVE  Tail(q)[i].docs = v
  <2>1. i + 1 \in Snapshots(q) /\ i \in 1..(Len(q) - 1)
    BY <1>2
  <2>2. \A j \in Snapshots(q) : j <= i + 1
    BY <1>1, <1>3, <1>4, <2>1
  <2>. QED
    BY <1>1, <2>1, <2>2 DEF Delivers
<1>5. ASSUME Snapshots(Tail(q)) = {} PROVE Head(q).docs = v
  <2>1. 1 \in Snapshots(q)
    BY <1>1 DEF Snapshots
  <2>2. \A j \in Snapshots(q) : j <= 1
    BY <1>3, <1>5
  <2>. QED
    BY <1>1, <2>1, <2>2 DEF Delivers
<1>. QED
  BY <1>4, <1>5 DEF Delivers

-----------------------------------------------------------------------------
(* What a step of the client does to the types.                            *)

\* Telling the listeners of a view keeps the types, and either queues the view
\* or leaves queue and listeners alone because none was owed it.
LEMMA EmitEffect ==
    ASSUME TypeOK, NEW q \in Seq(Event), NEW v \in View, NEW current \in BOOLEAN, NEW state \in OnlineStates,
           EmitSnapshots(q, v, current, state)
    PROVE  /\ mainQ' \in Seq(Event) /\ raised' \in Nat /\ waiting' \in Nat
           /\ synced' \in BOOLEAN /\ online' \in OnlineStates
           /\ \/ Snapshots(mainQ') # {} /\ \A arr : Delivers(mainQ', arr, v)
              \/ mainQ' = q /\ raised' = raised /\ (raised > 0 => v = CurrentView)
<1> DEFINE fresh == IF RaisesInitial(v, current, state) THEN waiting ELSE 0
           n     == (IF v # CurrentView THEN raised ELSE 0) + fresh
<1>1. raised \in Nat /\ waiting \in Nat
  BY DEF TypeOK, ClientTypeOK
<1>2. fresh \in Nat /\ fresh <= waiting /\ n \in Nat
  BY <1>1
<1>3. /\ mainQ' = q \o [i \in 1..n |-> Snapshot(v)]
      /\ raised' = raised + fresh /\ waiting' = waiting - fresh /\ synced' = current
  BY DEF EmitSnapshots
<1>4. n = 0 => fresh = 0 /\ (raised > 0 => v = CurrentView)
  BY <1>1, <1>2
<1> HIDE DEF n, fresh
<1>5. mainQ' \in Seq(Event)
  BY <1>2, <1>3, DeliversConcat
<1>6. n > 0 => Snapshots(mainQ') # {} /\ \A arr : Delivers(mainQ', arr, v)
  BY <1>2, <1>3, DeliversConcat
<1>7. n = 0 => mainQ' = q
  BY <1>2, <1>3, DeliversConcat
<1>8. /\ raised' \in Nat /\ waiting' \in Nat
      /\ synced' \in BOOLEAN /\ online' \in OnlineStates
  BY <1>1, <1>2, <1>3 DEF EmitSnapshots
<1>9. n = 0 => raised' = raised
  BY <1>1, <1>3, <1>4
<1>10. n > 0 \/ n = 0
  BY <1>2
<1>. QED
  BY <1>4, <1>5, <1>6, <1>7, <1>8, <1>9, <1>10

\* So does a change of the online state, whose view is the one there was.
LEMMA OnlineEffect ==
    ASSUME TypeOK, NEW state \in OnlineStates, HandleOnlineStateChange(state)
    PROVE  /\ mainQ' \in Seq(Event) /\ raised' \in Nat /\ waiting' \in Nat
           /\ synced' \in BOOLEAN /\ online' \in OnlineStates
           /\ CurrentView \in View
           /\ mainQ \in Seq(Event) /\ (synced /\ state # "Offline") \in BOOLEAN
           /\ EmitSnapshots(mainQ, CurrentView, synced /\ state # "Offline", state)
<1>1. /\ CurrentView \in View /\ mainQ \in Seq(Event)
      /\ (synced /\ state # "Offline") \in BOOLEAN
  BY LocalViewType DEF CurrentView, TypeOK, ClientTypeOK
<1>2. EmitSnapshots(mainQ, CurrentView, synced /\ state # "Offline", state)
  BY DEF HandleOnlineStateChange
<1>. QED
  BY <1>1, <1>2, EmitEffect

\* Registering a listener keeps the types and queues the view, unless the
\* listener has to wait.
LEMMA ListenEffect ==
    ASSUME TypeOK, NEW q \in Seq(Event), AddSnapshotListener(q)
    PROVE  /\ mainQ' \in Seq(Event) /\ raised' \in Nat /\ waiting' \in Nat
           /\ \/ Snapshots(mainQ') # {} /\ \A arr : Delivers(mainQ', arr, CurrentView)
              \/ mainQ' = q /\ raised' = raised
<1>1. CurrentView \in View /\ raised \in Nat /\ waiting \in Nat
  BY LocalViewType DEF CurrentView, TypeOK, ClientTypeOK
<1>2. Append(q, Snapshot(CurrentView)) = q \o [i \in 1..1 |-> Snapshot(CurrentView)]
  <2>1. Snapshot(CurrentView) \in Event
    BY <1>1 DEF Snapshot, Event
  <2>2. [i \in 1..1 |-> Snapshot(CurrentView)] = <<Snapshot(CurrentView)>>
    OBVIOUS
  <2>. QED
    BY <2>1, <2>2, AppendIsConcat
<1>3. CASE RaisesInitial(CurrentView, synced, online)
  <2>1. mainQ' = q \o [i \in 1..1 |-> Snapshot(CurrentView)]
    BY <1>2, <1>3 DEF AddSnapshotListener
  <2>2. mainQ' \in Seq(Event) /\ Snapshots(mainQ') # {} /\ \A arr : Delivers(mainQ', arr, CurrentView)
    <3> DEFINE qq(n) == q \o [i \in 1..n |-> Snapshot(CurrentView)]
    <3>1. 1 \in Nat /\ 1 > 0
      OBVIOUS
    <3>2. \A n \in Nat : /\ qq(n) \in Seq(Event)
                         /\ n > 0 => Snapshots(qq(n)) # {} /\ \A arr : Delivers(qq(n), arr, CurrentView)
      BY <1>1, DeliversConcat
    <3>. QED
      BY <2>1, <3>1, <3>2, Zenon
  <2>3. raised' \in Nat /\ waiting' \in Nat
    BY <1>1, <1>3 DEF AddSnapshotListener
  <2>. QED
    BY <2>2, <2>3
<1>4. CASE ~RaisesInitial(CurrentView, synced, online)
  BY <1>1, <1>4 DEF AddSnapshotListener
<1>. QED
  BY <1>3, <1>4

-----------------------------------------------------------------------------
(* Types.                                                                  *)

\* The initial types.
LEMMA InitTypes == Init => TypeOK /\ PipelineOK
<1> SUFFICES ASSUME Init PROVE TypeOK /\ PipelineOK
  OBVIOUS
<1>1. server \in Versions /\ remote \in Versions
  BY DEF Init, ClientInit, Versions, Maybe
<1>2. /\ replies \in Seq(Reply) /\ watch \in Seq(Versions) /\ batches \in Seq(Mutation)
      /\ mainQ \in Seq(Event) /\ Len(replies) = 0 /\ Len(batches) = 0
  BY EmptySeq DEF Init, ClientInit
<1>3. NoDocuments \in View
  BY DEF NoDocuments, View, Maybe
<1>4. /\ drawn \subseteq Reminders /\ otherOps \in Nat /\ faults \in Nat
      /\ synced \in BOOLEAN /\ raised \in Nat /\ waiting \in Nat /\ online \in OnlineStates
  BY DEF Init, ClientInit, OnlineStates
<1>5. ClientTypeOK /\ PipelineOK
  BY <1>1, <1>2, <1>4 DEF ClientTypeOK, PipelineOK
<1>6. /\ originalRemindersArr \in View /\ filteredRemindersArr \in View
      /\ searchText \in Texts \cup {NoText} /\ selected \in Reminders \cup {NoReminder}
      /\ writes \in Nat /\ deleted \subseteq Reminders
  BY <1>3 DEF Init
<1>. QED
  BY <1>5, <1>6 DEF TypeOK

\* A search keeps rows of the array it searches.
LEMMA MatchingType ==
    ASSUME NEW docs \in View, NEW t
    PROVE  /\ Matching(docs, t) \in View
           /\ \A d \in Reminders : Matching(docs, t)[d] \in {NoContent, docs[d]}
BY DEF Matching, View, Maybe

\* Queueing a write keeps the types.
LEMMA WriteTypes ==
    ASSUME TypeOK, PipelineOK, NEW m \in Mutation, WriteMutations(m)
    PROVE  ClientTypeOK' /\ PipelineOK'
<1>1. batches' \in Seq(Mutation) /\ Len(batches') = Len(batches) + 1 /\ Len(batches) \in Nat
  BY AppendProperties, LenProperties DEF WriteMutations, TypeOK, ClientTypeOK
<1>2. LocalView(remote, batches') \in View
  BY <1>1, LocalViewType DEF TypeOK, ClientTypeOK
<1>3. /\ mainQ' \in Seq(Event) /\ raised' \in Nat /\ waiting' \in Nat
      /\ synced' \in BOOLEAN /\ online' \in OnlineStates
  BY <1>2, EmitEffect DEF WriteMutations, TypeOK, ClientTypeOK
<1>4. Len(replies') <= Len(batches')
  <2>1. Len(replies) \in Nat
    BY LenProperties DEF TypeOK, ClientTypeOK
  <2>. QED
    BY <1>1, <2>1 DEF WriteMutations, PipelineOK, streamVars
<1>5. m.doc \in Reminders
  BY DEF Mutation
<1>. QED
  BY <1>1, <1>3, <1>4, <1>5
     DEF WriteMutations, TypeOK, ClientTypeOK, PipelineOK, streamVars

\* Running a closure of the main queue keeps the client's types.
LEMMA DequeueTypes ==
    ASSUME TypeOK, PipelineOK, mainQ # <<>>, Dequeue
    PROVE  ClientTypeOK' /\ PipelineOK'
<1>1. Tail(mainQ) \in Seq(Event)
  BY HeadTailProperties DEF TypeOK, ClientTypeOK
<1>. QED
  BY <1>1 DEF Dequeue, TypeOK, ClientTypeOK, PipelineOK, serverVars, streamVars, storeVars

\* So does registering a listener.
LEMMA ListenTypes ==
    ASSUME TypeOK, PipelineOK, NEW q \in Seq(Event), AddSnapshotListener(q)
    PROVE  ClientTypeOK' /\ PipelineOK'
<1>1. mainQ' \in Seq(Event) /\ raised' \in Nat /\ waiting' \in Nat
  BY ListenEffect
<1>. QED
  BY <1>1 DEF AddSnapshotListener, TypeOK, ClientTypeOK, PipelineOK, serverVars, streamVars, storeVars

\* The batch an answer is for leaves the queue; its caller is told if it is
\* still there to be told.
LEMMA HeadBatch ==
    ASSUME TypeOK, PipelineOK, replies # <<>>, NEW ok \in BOOLEAN
    PROVE  /\ Head(batches) \in Mutation /\ Tail(batches) \in Seq(Mutation)
           /\ Head(replies) \in Reply /\ Tail(replies) \in Seq(Reply)
           /\ Len(Tail(replies)) <= Len(Tail(batches))
           /\ NotifyUser(ok) \in Seq(Event)
           /\ Snapshots(NotifyUser(ok)) = Snapshots(mainQ)
           /\ \A arr, v : Delivers(mainQ, arr, v) => Delivers(NotifyUser(ok), arr, v)
<1>1. Len(replies) \in Nat \ {0} /\ Len(batches) \in Nat
  BY EmptySeq, LenProperties DEF TypeOK, ClientTypeOK
<1>2. batches # <<>>
  BY <1>1, EmptySeq DEF PipelineOK
<1>3. /\ Head(batches) \in Mutation /\ Tail(batches) \in Seq(Mutation)
      /\ Len(Tail(batches)) = Len(batches) - 1
      /\ Head(replies) \in Reply /\ Tail(replies) \in Seq(Reply)
      /\ Len(Tail(replies)) = Len(replies) - 1
  BY <1>2, HeadTailProperties DEF TypeOK, ClientTypeOK
<1>4. Len(Tail(replies)) <= Len(Tail(batches))
  BY <1>1, <1>3 DEF PipelineOK
<1>5. Written(Head(batches), ok) \in Event /\ Written(Head(batches), ok).kind # "snapshot"
  BY <1>3 DEF Written, Event
<1>6. mainQ \in Seq(Event)
  BY DEF TypeOK, ClientTypeOK
<1>7. CASE Head(batches).callback
  <2>1. NotifyUser(ok) = Append(mainQ, Written(Head(batches), ok))
    BY <1>7 DEF NotifyUser
  <2>2. NotifyUser(ok) \in Seq(Event)
    BY <1>5, <1>6, <2>1, AppendProperties
  <2>. QED
    BY <1>3, <1>4, <1>5, <1>6, <2>1, <2>2, DeliversAppendOther
<1>8. CASE ~Head(batches).callback
  BY <1>3, <1>4, <1>6, <1>8 DEF NotifyUser
<1>. QED
  BY <1>7, <1>8

\* An acknowledged write keeps the types.
LEMMA SuccessfulWriteTypes ==
    ASSUME TypeOK, PipelineOK, HandleSuccessfulWrite
    PROVE  /\ ClientTypeOK' /\ PipelineOK'
           /\ LocalView(remote', batches') \in View
<1>1. /\ Head(batches) \in Mutation /\ batches' \in Seq(Mutation)
      /\ Head(replies) \in Reply /\ replies' \in Seq(Reply)
      /\ Len(replies') <= Len(batches') /\ NotifyUser(TRUE) \in Seq(Event)
  BY HeadBatch DEF HandleSuccessfulWrite
<1>2. /\ Head(batches).doc \in Reminders /\ Head(replies).version \in Nat
      /\ AckedContent(Head(batches)) \in Maybe
  BY <1>1 DEF Mutation, Reply, AckedContent, Maybe
<1>3. remote' \in Versions
  BY <1>2 DEF HandleSuccessfulWrite, AckedIntoCache, TypeOK, ClientTypeOK, Versions
<1>4. LocalView(remote', batches') \in View
  BY <1>1, <1>3, LocalViewType
<1>5. /\ mainQ' \in Seq(Event) /\ raised' \in Nat /\ waiting' \in Nat
      /\ synced' \in BOOLEAN /\ online' \in OnlineStates
  BY <1>1, <1>4, EmitEffect DEF HandleSuccessfulWrite, TypeOK, ClientTypeOK
<1>. QED
  BY <1>1, <1>3, <1>4, <1>5
     DEF HandleSuccessfulWrite, TypeOK, ClientTypeOK, PipelineOK, serverVars

\* A refused write keeps the types.
LEMMA RejectedWriteTypes ==
    ASSUME TypeOK, PipelineOK, HandleRejectedWrite
    PROVE  /\ ClientTypeOK' /\ PipelineOK'
           /\ LocalView(remote, batches') \in View
<1>1. /\ batches' \in Seq(Mutation) /\ replies' \in Seq(Reply)
      /\ Len(replies') <= Len(batches') /\ NotifyUser(FALSE) \in Seq(Event)
  BY HeadBatch DEF HandleRejectedWrite
<1>2. LocalView(remote, batches') \in View
  BY <1>1, LocalViewType DEF TypeOK, ClientTypeOK
<1>3. /\ mainQ' \in Seq(Event) /\ raised' \in Nat /\ waiting' \in Nat
      /\ synced' \in BOOLEAN /\ online' \in OnlineStates
  BY <1>1, <1>2, EmitEffect DEF HandleRejectedWrite, TypeOK, ClientTypeOK
<1>. QED
  BY <1>1, <1>2, <1>3
     DEF HandleRejectedWrite, TypeOK, ClientTypeOK, PipelineOK, serverVars

\* The steps of the client and the server keep them.
LEMMA ClientTypes ==
    ASSUME TypeOK, PipelineOK, ClientNext
    PROVE  ClientTypeOK' /\ PipelineOK'
<1>0. /\ Len(replies) \in Nat /\ Len(batches) \in Nat
      /\ DOMAIN replies = 1..Len(replies) /\ DOMAIN batches = 1..Len(batches)
  BY LenProperties DEF TypeOK, ClientTypeOK
<1>0a. ASSUME NEW d \in Reminders, NEW c \in Maybe, Put(d, c) PROVE server' \in Versions
  BY <1>0a DEF Put, TypeOK, ClientTypeOK, Versions
<1>1. CASE ServerCommit
  <2> DEFINE m == batches[Len(replies) + 1]
  <2>1. m \in Mutation
    BY <1>0, <1>1, ElementOfSeq DEF ServerCommit, TypeOK, ClientTypeOK
  <2>2. m.doc \in Reminders /\ m.content \in Maybe /\ server[m.doc].version + 1 \in Nat
    BY <2>1 DEF Mutation, TypeOK, ClientTypeOK, Versions
  <2>3. PICK e \in Reply : replies' = Append(replies, e)
    BY <1>1, <2>2 DEF ServerCommit, Reply
  <2>4. replies' \in Seq(Reply) /\ Len(replies') = Len(replies) + 1
    BY <2>3, AppendProperties DEF TypeOK, ClientTypeOK
  <2>5. server' \in Versions
    BY <1>0a, <1>1, <2>2 DEF ServerCommit, TypeOK, ClientTypeOK
  <2>6. faults' \in Nat
    BY <1>1 DEF ServerCommit, TypeOK, ClientTypeOK
  <2>. QED
    BY <1>0, <1>1, <2>4, <2>5, <2>6
       DEF ServerCommit, TypeOK, ClientTypeOK, PipelineOK, storeVars, eventVars
<1>2. CASE OtherDevice
  <2>1. server' \in Versions /\ drawn' \subseteq Reminders
    BY <1>0a, <1>2 DEF OtherDevice, TypeOK, ClientTypeOK, Maybe
  <2>. QED
    BY <1>2, <2>1 DEF OtherDevice, TypeOK, ClientTypeOK, PipelineOK, streamVars, storeVars, eventVars
<1>3. CASE WatchSend
  BY <1>3 DEF WatchSend, TypeOK, ClientTypeOK, PipelineOK, serverVars, storeVars, eventVars
<1>4. CASE ApplyRemoteEvent
  <2>1. Head(watch) \in Versions /\ Tail(watch) \in Seq(Versions)
    BY <1>4, HeadTailProperties DEF ApplyRemoteEvent, TypeOK, ClientTypeOK
  <2>2. remote' \in Versions
    BY <1>4, <2>1 DEF ApplyRemoteEvent, WatchedIntoCache, TypeOK, ClientTypeOK, Versions
  <2>3. LocalView(remote', batches) \in View
    BY <2>2, LocalViewType DEF TypeOK, ClientTypeOK
  <2>4. /\ mainQ' \in Seq(Event) /\ raised' \in Nat /\ waiting' \in Nat
        /\ synced' \in BOOLEAN /\ online' \in OnlineStates
    BY <1>4, <2>3, EmitEffect DEF ApplyRemoteEvent, TypeOK, ClientTypeOK, OnlineStates
  <2>. QED
    BY <1>4, <2>1, <2>2, <2>4
       DEF ApplyRemoteEvent, TypeOK, ClientTypeOK, PipelineOK, serverVars
<1>5. CASE HandleSuccessfulWrite
  BY <1>5, SuccessfulWriteTypes
<1>6. CASE HandleRejectedWrite
  BY <1>6, RejectedWriteTypes
<1>7. CASE HandleRejectedListen
  <2>1. raised + waiting \in Nat /\ Failure \in Event
    BY DEF TypeOK, ClientTypeOK, Failure, Event
  <2>2. [i \in 1..(raised + waiting) |-> Failure] \in Seq(Event)
    BY <2>1
  <2>3. mainQ' \in Seq(Event)
    BY <1>7, <2>2, ConcatProperties DEF HandleRejectedListen, TypeOK, ClientTypeOK
  <2>4. watch' \in Seq(Versions) /\ faults' \in Nat /\ Len(replies') <= Len(batches')
    BY <1>7, EmptySeq DEF HandleRejectedListen, TypeOK, ClientTypeOK, PipelineOK, storeVars
  <2>. QED
    BY <1>7, <2>3, <2>4
       DEF HandleRejectedListen, TypeOK, ClientTypeOK, PipelineOK, serverVars, storeVars, OnlineStates
<1>8. CASE WatchStreamClosed \/ OnlineStateTimeout
  <2>1. PICK state \in OnlineStates : HandleOnlineStateChange(state)
    BY <1>8 DEF WatchStreamClosed, OnlineStateTimeout, OnlineStates
  <2>2. /\ mainQ' \in Seq(Event) /\ raised' \in Nat /\ waiting' \in Nat
        /\ synced' \in BOOLEAN /\ online' \in OnlineStates
    BY <2>1, OnlineEffect
  <2>3. watch' \in {watch, <<>>} /\ faults' \in {faults, faults + 1}
    BY <1>8, Zenon DEF WatchStreamClosed, OnlineStateTimeout, streamVars
  <2>4. watch' \in Seq(Versions) /\ faults' \in Nat
    <3>1. watch \in Seq(Versions) /\ faults \in Nat /\ <<>> \in Seq(Versions)
      BY EmptySeq DEF TypeOK, ClientTypeOK
    <3>2. watch' \in Seq(Versions)
      BY <2>3, <3>1, Zenon
    <3>3. faults' \in Nat
      BY <2>3, <3>1, SMT
    <3>. QED
      BY <3>2, <3>3
  <2>5. UNCHANGED <<serverVars, replies, storeVars>>
    BY <1>8, Zenon DEF WatchStreamClosed, OnlineStateTimeout, streamVars
  <2>. QED
    BY <2>2, <2>4, <2>5 DEF TypeOK, ClientTypeOK, PipelineOK, serverVars, storeVars
<1>9. CASE WriteStreamClosed
  BY <1>0, <1>9, EmptySeq
     DEF WriteStreamClosed, TypeOK, ClientTypeOK, PipelineOK, serverVars, storeVars, eventVars
<1>. QED
  BY <1>1, <1>2, <1>3, <1>4, <1>5, <1>6, <1>7, <1>8, <1>9 DEF ClientNext

\* A restart keeps them too, and queues the view if it shows anything.
LEMMA RestartEffect ==
    ASSUME TypeOK, PipelineOK, RestartClient
    PROVE  /\ ClientTypeOK' /\ PipelineOK'
           /\ raised' > 0 => Snapshots(mainQ') # {} /\ \A arr : Delivers(mainQ', arr, CurrentView')
<1> DEFINE b == [i \in DOMAIN batches |-> [batches[i] EXCEPT !.callback = FALSE]]
           v == LocalView(remote, batches')
<1>1. batches' = b /\ b \in Seq(Mutation)
  <2>1. DOMAIN batches = 1..Len(batches) /\ Len(batches) \in Nat
    BY LenProperties DEF TypeOK, ClientTypeOK
  <2>2. \A i \in 1..Len(batches) : [batches[i] EXCEPT !.callback = FALSE] \in Mutation
    <3>1. \A i \in 1..Len(batches) : batches[i] \in Mutation
      BY ElementOfSeq DEF TypeOK, ClientTypeOK
    <3>. QED
      BY <3>1 DEF Mutation
  <2>3. b \in [1..Len(batches) -> Mutation]
    BY <2>1, <2>2
  <2>4. b \in Seq(Mutation)
    BY <2>1, <2>3
  <2>. QED
    BY <2>4 DEF RestartClient
<1>2. v \in View /\ Snapshot(v) \in Event
  BY <1>1, LocalViewType DEF TypeOK, ClientTypeOK, Snapshot, Event
<1>3. CurrentView' = v
  BY DEF RestartClient, CurrentView
<1>4. \/ mainQ' = <<Snapshot(v)>> /\ raised' = 1 /\ waiting' = 0
      \/ mainQ' = <<>> /\ raised' = 0 /\ waiting' = 1
  BY DEF RestartClient
<1> HIDE DEF b, v
<1>5. mainQ' \in Seq(Event)
  <2>1. <<Snapshot(v)>> \in Seq(Event) /\ <<>> \in Seq(Event)
    BY <1>2
  <2>. QED
    BY <1>4, <2>1
<1>6. Len(replies') = 0 /\ replies' \in Seq(Reply) /\ watch' \in Seq(Versions) /\ Len(batches') \in Nat
  BY <1>1, EmptySeq, LenProperties DEF RestartClient
<1>7. faults' \in Nat /\ synced' \in BOOLEAN /\ online' \in OnlineStates
  <2>1. faults' = faults + 1 /\ synced' = FALSE /\ online' = "Unknown"
    BY Zenon DEF RestartClient
  <2>2. faults \in Nat
    BY DEF TypeOK, ClientTypeOK
  <2>3. faults' \in Nat
    BY <2>1, <2>2
  <2>. QED
    BY <2>1, <2>3, Zenon DEF OnlineStates
<1>8. ClientTypeOK' /\ PipelineOK'
  <2>1. UNCHANGED <<server, drawn, otherOps, remote>>
    BY Zenon DEF RestartClient, serverVars
  <2>. QED
    BY <1>1, <1>4, <1>5, <1>6, <1>7, <2>1 DEF TypeOK, ClientTypeOK, PipelineOK
<1>9. ASSUME raised' > 0 PROVE Snapshots(mainQ') # {} /\ \A arr : Delivers(mainQ', arr, v)
  <2>1. mainQ' = <<Snapshot(v)>>
    BY <1>4, <1>9
  <2>2. DOMAIN mainQ' = {1} /\ mainQ'[1] = Snapshot(v)
    BY <2>1
  <2>3. Snapshots(mainQ') = {1}
    BY <2>2 DEF Snapshots, Snapshot
  <2>. QED
    BY <2>2, <2>3 DEF Delivers, Snapshot
<1>. QED
  BY <1>3, <1>8, <1>9

\* Every step of the app keeps the types.
LEMMA TypeStep == TypeOK /\ PipelineOK /\ [Next]_vars => TypeOK' /\ PipelineOK'
<1> SUFFICES ASSUME TypeOK, PipelineOK, [Next]_vars PROVE TypeOK' /\ PipelineOK'
  OBVIOUS
<1> DEFINE HomeTypeOK == /\ originalRemindersArr \in View /\ filteredRemindersArr \in View
                         /\ searchText \in Texts \cup {NoText}
                         /\ selected \in Reminders \cup {NoReminder}
                         /\ writes \in Nat /\ deleted \subseteq Reminders
<1>0. /\ HomeTypeOK /\ mainQ \in Seq(Event)
      /\ UNCHANGED clientVars => ClientTypeOK' /\ PipelineOK'
      /\ ClientTypeOK' /\ HomeTypeOK' => TypeOK'
      /\ NoDocuments \in View
  BY DEF TypeOK, ClientTypeOK, PipelineOK, clientVars, serverVars, streamVars, storeVars, eventVars,
         NoDocuments, View, Maybe
<1>1. ASSUME NEW t \in Texts \cup {NoText}, TextDidChange(t) PROVE TypeOK' /\ PipelineOK'
  BY <1>0, <1>1, MatchingType DEF TextDidChange
<1>2. ASSUME NEW d \in Reminders, DeleteAction(d) PROVE TypeOK' /\ PipelineOK'
  <2>1. [op |-> "delete", doc |-> d, content |-> NoContent, callback |-> TRUE] \in Mutation
    BY DEF Mutation, Maybe
  <2>2. ClientTypeOK' /\ PipelineOK'
    BY <1>2, <2>1, WriteTypes DEF DeleteAction
  <2>3. HomeTypeOK'
    BY <1>0, <1>2 DEF DeleteAction, View, Maybe
  <2>. QED
    BY <1>0, <2>2, <2>3
<1>3. ASSUME NEW d \in Reminders, DidSelectRow(d) PROVE TypeOK' /\ PipelineOK'
  BY <1>0, <1>3 DEF DidSelectRow, listVars
<1>4. ASSUME NEW d \in Reminders, NEW c \in Contents, AddReminder(d, c) PROVE TypeOK' /\ PipelineOK'
  <2>1. [op |-> "set", doc |-> d, content |-> c, callback |-> TRUE] \in Mutation
    BY DEF Mutation, Maybe
  <2>2. ClientTypeOK' /\ PipelineOK'
    BY <1>4, <2>1, WriteTypes DEF AddReminder
  <2>. QED
    BY <1>0, <1>4, <2>2 DEF AddReminder, listVars
<1>5. ASSUME NEW c \in Contents, UpdateReminder(c) PROVE TypeOK' /\ PipelineOK'
  <2>1. [op |-> "update", doc |-> selected, content |-> c, callback |-> TRUE] \in Mutation
    BY <1>0, <1>5 DEF UpdateReminder, OnHome, Mutation, Maybe
  <2>2. ClientTypeOK' /\ PipelineOK'
    BY <1>5, <2>1, WriteTypes DEF UpdateReminder
  <2>. QED
    BY <1>0, <1>5, <2>2 DEF UpdateReminder, listVars
<1>6. CASE CloseEdit
  BY <1>0, <1>6 DEF CloseEdit, listVars
<1>7. CASE SnapshotReceived
  <2>1. ClientTypeOK' /\ PipelineOK'
    BY <1>7, DequeueTypes DEF SnapshotReceived, Turn
  <2>2. Head(mainQ) \in Event /\ Head(mainQ).kind = "snapshot"
    BY <1>0, <1>7, HeadTailProperties DEF SnapshotReceived, Turn
  <2>3. Head(mainQ).docs \in View
    BY <2>2 DEF Event
  <2>. QED
    BY <1>0, <1>7, <2>1, <2>3 DEF SnapshotReceived
<1>8. CASE ListenFailed
  <2>1. ClientTypeOK' /\ PipelineOK'
    BY <1>8, DequeueTypes DEF ListenFailed, Turn
  <2>. QED
    BY <1>0, <1>8, <2>1 DEF ListenFailed, homeVars, listVars
<1>9. CASE DeleteCompleted
  <2>1. mainQ # <<>> /\ Head(mainQ) \in Event /\ Tail(mainQ) \in Seq(Event) /\ Head(mainQ).kind = "written"
    BY <1>0, <1>9, HeadTailProperties DEF DeleteCompleted, Turn
  <2>2. Head(mainQ).mutation.doc \in Reminders
    BY <2>1 DEF Event, Mutation
  <2>3. CASE Head(mainQ).ok
    <3>1. ClientTypeOK' /\ PipelineOK'
      BY <1>9, <2>1, <2>3, ListenTypes DEF DeleteCompleted
    <3>. QED
      BY <1>0, <1>9, <2>2, <2>3, <3>1 DEF DeleteCompleted, listVars
  <2>4. CASE ~Head(mainQ).ok
    <3>1. ClientTypeOK' /\ PipelineOK'
      BY <1>9, <2>1, <2>4, DequeueTypes DEF DeleteCompleted
    <3>. QED
      BY <1>0, <1>9, <2>4, <3>1 DEF DeleteCompleted, listVars
  <2>. QED
    BY <2>3, <2>4
<1>10. CASE SaveCompleted
  <2>1. ClientTypeOK' /\ PipelineOK'
    BY <1>10, DequeueTypes DEF SaveCompleted, Turn
  <2>2. selected' \in {selected, NoReminder}
    BY <1>10 DEF SaveCompleted
  <2>. QED
    BY <1>0, <1>10, <2>1, <2>2 DEF SaveCompleted, listVars
<1>11. CASE Restart
  <2>1. ClientTypeOK' /\ PipelineOK'
    BY <1>11, RestartEffect DEF Restart
  <2>. QED
    BY <1>0, <1>11, <2>1 DEF Restart
<1>12. CASE ClientNext /\ UNCHANGED homeVars
  <2>1. ClientTypeOK' /\ PipelineOK'
    BY <1>12, ClientTypes
  <2>. QED
    BY <1>0, <1>12, <2>1 DEF homeVars, listVars
<1>13. CASE UNCHANGED vars
  BY <1>0, <1>13 DEF vars, homeVars, listVars
<1>. QED
  BY <1>1, <1>2, <1>3, <1>4, <1>5, <1>6, <1>7, <1>8, <1>9, <1>10, <1>11, <1>12, <1>13
     DEF Next, User, MainQueue

\* In every behaviour the arrays hold reminders and the queues hold closures the
\* handlers know, and replies answer batches that are still queued.
THEOREM TypeCorrect == Spec => []TypeOK
<1>1. TypeOK /\ PipelineOK /\ [Next]_vars => (TypeOK /\ PipelineOK)'
  BY TypeStep
<1>. QED
  BY InitTypes, <1>1, PTL DEF Spec

-----------------------------------------------------------------------------
(* Home and the view.                                                      *)

Table == <<originalRemindersArr, filteredRemindersArr, searchText>>

\* An emission keeps Home's promise, and leaves the queue without a snapshot
\* only where it was without one before.
LEMMA EmitKeeps ==
    ASSUME HomeInv, NEW q \in Seq(Event), Snapshots(q) = Snapshots(mainQ),
           \A arr, w : Delivers(mainQ, arr, w) => Delivers(q, arr, w),
           NEW v \in View, NEW current \in BOOLEAN, NEW state \in OnlineStates, EmitSnapshots(q, v, current, state),
           CurrentView' = v, UNCHANGED originalRemindersArr
    PROVE  /\ MirrorsView'
           /\ raised' > 0 /\ Snapshots(mainQ') = {} => raised > 0 /\ Snapshots(mainQ) = {} /\ v = CurrentView
<1>1. \/ Snapshots(mainQ') # {} /\ \A arr : Delivers(mainQ', arr, v)
      \/ mainQ' = q /\ raised' = raised /\ (raised > 0 => v = CurrentView)
  BY EmitEffect DEF HomeInv
<1>2. CASE Snapshots(mainQ') # {} /\ \A arr : Delivers(mainQ', arr, v)
  BY <1>2 DEF MirrorsView
<1>3. CASE mainQ' = q /\ raised' = raised /\ (raised > 0 => v = CurrentView)
  <2>1. raised > 0 => Delivers(q, originalRemindersArr, v)
    BY <1>3 DEF HomeInv, MirrorsView
  <2>2. MirrorsView'
    BY <1>3, <2>1 DEF MirrorsView
  <2>. QED
    BY <1>3, <2>2
<1>. QED
  BY <1>1, <1>2, <1>3

\* A step that leaves the table alone and adds no silence keeps the table's part.
LEMMA TableKept ==
    ASSUME HomeInv, UNCHANGED Table,
           raised' > 0 /\ Snapshots(mainQ') = {} => raised > 0 /\ Snapshots(mainQ) = {}
    PROVE  FilteredFromOriginal' /\ TableFollows'
BY DEF HomeInv, Table, FilteredFromOriginal, TableFollows, Matching

\* A write keeps Home's promise; where it is not followed by a snapshot it has
\* not changed the view.
LEMMA WriteKeeps ==
    ASSUME HomeInv, NEW m \in Mutation, WriteMutations(m), UNCHANGED originalRemindersArr
    PROVE  /\ MirrorsView'
           /\ raised' > 0 /\ Snapshots(mainQ') = {} =>
                 /\ raised > 0 /\ Snapshots(mainQ) = {}
                 /\ CurrentView = LocalView(remote, Append(batches, m))
<1>1. /\ mainQ \in Seq(Event) /\ synced \in BOOLEAN /\ online \in OnlineStates
      /\ batches \in Seq(Mutation) /\ remote \in Versions
  BY DEF HomeInv, TypeOK, ClientTypeOK
<1>2. batches' = Append(batches, m) /\ batches' \in Seq(Mutation) /\ remote' = remote
  BY <1>1, AppendProperties DEF WriteMutations
<1>3. CurrentView' = LocalView(remote, batches') /\ LocalView(remote, batches') \in View
  BY <1>1, <1>2, LocalViewType DEF CurrentView
<1>4. EmitSnapshots(mainQ, LocalView(remote, batches'), synced, online)
  BY DEF WriteMutations
<1>. QED
  BY <1>1, <1>2, <1>3, <1>4, EmitKeeps

\* Running a closure that is no snapshot keeps everything but the completion's
\* own doing.
LEMMA DequeueKeeps ==
    ASSUME HomeInv, Dequeue, mainQ # <<>>, Head(mainQ).kind # "snapshot", UNCHANGED Table
    PROVE  MirrorsView' /\ FilteredFromOriginal' /\ TableFollows'
<1>1. mainQ \in Seq(Event)
  BY DEF HomeInv, TypeOK, ClientTypeOK
<1>2. mainQ' = Tail(mainQ) /\ UNCHANGED <<remote, batches, raised>>
  BY DEF Dequeue, storeVars
<1>3. /\ Snapshots(mainQ') = {} <=> Snapshots(mainQ) = {}
      /\ \A arr, v : Delivers(mainQ, arr, v) => Delivers(mainQ', arr, v)
  BY <1>1, <1>2, DeliversTailOther
<1>4. CurrentView' = CurrentView
  BY <1>2 DEF CurrentView
<1>5. MirrorsView'
  BY <1>2, <1>3, <1>4 DEF HomeInv, MirrorsView, Table
<1>. QED
  BY <1>2, <1>3, <1>5, TableKept

\* Between them the client, the user and the main queue keep the invariant.
LEMMA HomeStep == HomeInv /\ [Next]_vars => HomeInv'
<1> SUFFICES ASSUME HomeInv, [Next]_vars PROVE HomeInv'
  OBVIOUS
<1> DEFINE Rest == FilteredFromOriginal /\ MirrorsView /\ TableFollows
<1>0. /\ TypeOK' /\ PipelineOK' /\ (Rest' => HomeInv')
      /\ mainQ \in Seq(Event) /\ synced \in BOOLEAN /\ online \in OnlineStates
      /\ originalRemindersArr \in View /\ filteredRemindersArr \in View
  BY TypeStep DEF HomeInv, TypeOK, ClientTypeOK
<1>q. ASSUME UNCHANGED <<remote, batches, raised, mainQ>>, UNCHANGED originalRemindersArr
      PROVE  MirrorsView' /\ (raised' > 0 /\ Snapshots(mainQ') = {} => raised > 0 /\ Snapshots(mainQ) = {})
  BY <1>q DEF HomeInv, MirrorsView, CurrentView
<1>1. ASSUME NEW t \in Texts \cup {NoText}, TextDidChange(t) PROVE Rest'
  <2>1. UNCHANGED <<remote, batches, raised, mainQ, originalRemindersArr>>
    BY <1>1 DEF TextDidChange, clientVars, storeVars, eventVars
  <2>2. filteredRemindersArr' = Matching(originalRemindersArr', searchText')
    BY <1>1 DEF TextDidChange
  <2>3. FilteredFromOriginal'
    BY <1>0, <2>1, <2>2, MatchingType DEF FilteredFromOriginal
  <2>. QED
    BY <1>q, <2>1, <2>2, <2>3 DEF TableFollows
<1>2. ASSUME NEW d \in Reminders, DeleteAction(d) PROVE Rest'
  <2> DEFINE m == [op |-> "delete", doc |-> d, content |-> NoContent, callback |-> TRUE]
  <2>1. m \in Mutation /\ m.op = "delete" /\ m.content = NoContent /\ m.doc = d
    BY DEF Mutation, Maybe
  <2> HIDE DEF m
  <2>2. /\ WriteMutations(m) /\ UNCHANGED originalRemindersArr
        /\ filteredRemindersArr' = [filteredRemindersArr EXCEPT ![d] = NoContent]
        /\ filteredRemindersArr[d] # NoContent
    BY <1>2 DEF DeleteAction, m
  <2>3. FilteredFromOriginal'
    BY <1>0, <2>2 DEF HomeInv, FilteredFromOriginal, View
  <2>4. LocalDoc(remote, Append(batches, m), d) = NoContent
    BY <2>1, DeleteHides DEF HomeInv, TypeOK, ClientTypeOK
  <2>5. CurrentView = LocalView(remote, Append(batches, m)) => CurrentView[d] = NoContent
    BY <2>4 DEF LocalView
  <2>6. originalRemindersArr[d] # NoContent
    BY <2>2 DEF HomeInv, FilteredFromOriginal
  <2>7. raised > 0 /\ Snapshots(mainQ) = {} => originalRemindersArr = CurrentView
    BY DEF HomeInv, MirrorsView, Delivers
  <2>8. MirrorsView' /\ ~(raised' > 0 /\ Snapshots(mainQ') = {})
    BY <2>1, <2>2, <2>5, <2>6, <2>7, WriteKeeps
  <2>. QED
    BY <2>3, <2>8 DEF TableFollows
<1>3. ASSUME NEW d \in Reminders, DidSelectRow(d) PROVE Rest'
  BY <1>q, <1>3, TableKept DEF DidSelectRow, listVars, clientVars, storeVars, eventVars, Table
<1>4. ASSUME NEW d \in Reminders, NEW c \in Contents, AddReminder(d, c) PROVE Rest'
  <2>1. [op |-> "set", doc |-> d, content |-> c, callback |-> TRUE] \in Mutation
    BY DEF Mutation, Maybe
  <2>2. UNCHANGED Table
    BY <1>4 DEF AddReminder, listVars, Table
  <2>. QED
    BY <1>4, <2>1, <2>2, WriteKeeps, TableKept DEF AddReminder, Table
<1>5. ASSUME NEW c \in Contents, UpdateReminder(c) PROVE Rest'
  <2>1. [op |-> "update", doc |-> selected, content |-> c, callback |-> TRUE] \in Mutation
    BY <1>5 DEF UpdateReminder, OnHome, Mutation, Maybe, HomeInv, TypeOK
  <2>2. UNCHANGED Table
    BY <1>5 DEF UpdateReminder, listVars, Table
  <2>. QED
    BY <1>5, <2>1, <2>2, WriteKeeps, TableKept DEF UpdateReminder, Table
<1>6. CASE CloseEdit
  BY <1>0, <1>q, <1>6, TableKept DEF CloseEdit, listVars, clientVars, storeVars, eventVars, Table
<1>7. CASE SnapshotReceived
  <2>1. /\ mainQ # <<>> /\ Head(mainQ).kind = "snapshot" /\ mainQ' = Tail(mainQ)
        /\ originalRemindersArr' = Head(mainQ).docs /\ filteredRemindersArr' = Head(mainQ).docs
        /\ UNCHANGED <<remote, batches, raised>>
    BY <1>7 DEF SnapshotReceived, Turn, Dequeue, storeVars
  <2>2. CurrentView' = CurrentView
    BY <2>1 DEF CurrentView
  <2>3. MirrorsView'
    BY <1>0, <2>1, <2>2, DeliversTailSnapshot DEF HomeInv, MirrorsView
  <2>. QED
    BY <1>0, <2>1, <2>3 DEF FilteredFromOriginal, TableFollows
<1>8. CASE ListenFailed
  <2>1. mainQ # <<>> /\ Head(mainQ).kind # "snapshot" /\ UNCHANGED Table /\ Dequeue
    BY <1>8 DEF ListenFailed, Turn, homeVars, listVars, Table
  <2>. QED
    BY <1>0, <2>1, DequeueKeeps
<1>9. CASE DeleteCompleted
  <2>1. mainQ # <<>> /\ Head(mainQ).kind # "snapshot" /\ UNCHANGED Table
    BY <1>9 DEF DeleteCompleted, Turn, listVars, Table
  <2>2. CASE ~Head(mainQ).ok
    BY <1>0, <1>9, <2>1, <2>2, DequeueKeeps DEF DeleteCompleted
  <2>3. CASE Head(mainQ).ok
    <3>1. AddSnapshotListener(Tail(mainQ)) /\ Tail(mainQ) \in Seq(Event)
      BY <1>0, <1>9, <2>1, <2>3, HeadTailProperties DEF DeleteCompleted
    <3>2. UNCHANGED <<remote, batches>> /\ CurrentView' = CurrentView
      BY <3>1 DEF AddSnapshotListener, storeVars, CurrentView
    <3>3. \/ Snapshots(mainQ') # {} /\ \A arr : Delivers(mainQ', arr, CurrentView)
          \/ mainQ' = Tail(mainQ) /\ raised' = raised
      BY <3>1, ListenEffect DEF HomeInv
    <3>4. CASE Snapshots(mainQ') # {} /\ \A arr : Delivers(mainQ', arr, CurrentView)
      <4>1. MirrorsView'
        BY <3>2, <3>4 DEF MirrorsView
      <4>. QED
        BY <1>0, <2>1, <3>4, <4>1, TableKept
    <3>5. CASE mainQ' = Tail(mainQ) /\ raised' = raised
      <4>1. /\ Snapshots(mainQ') = {} <=> Snapshots(mainQ) = {}
            /\ \A arr, v : Delivers(mainQ, arr, v) => Delivers(mainQ', arr, v)
        BY <1>0, <2>1, <3>5, DeliversTailOther
      <4>2. MirrorsView'
        BY <2>1, <3>2, <3>5, <4>1 DEF HomeInv, MirrorsView, Table
      <4>. QED
        BY <1>0, <2>1, <3>5, <4>1, <4>2, TableKept
    <3>. QED
      BY <3>3, <3>4, <3>5
  <2>. QED
    BY <2>2, <2>3
<1>10. CASE SaveCompleted
  <2>1. mainQ # <<>> /\ Head(mainQ).kind # "snapshot" /\ UNCHANGED Table /\ Dequeue
    BY <1>10 DEF SaveCompleted, Turn, listVars, Table
  <2>. QED
    BY <1>0, <2>1, DequeueKeeps
<1>11. CASE Restart
  <2>1. raised' > 0 => Snapshots(mainQ') # {} /\ \A arr : Delivers(mainQ', arr, CurrentView')
    BY <1>11, RestartEffect DEF Restart, HomeInv
  <2>2. originalRemindersArr' = NoDocuments /\ filteredRemindersArr' = NoDocuments
    BY <1>11 DEF Restart
  <2>. QED
    BY <1>0, <2>1, <2>2 DEF FilteredFromOriginal, MirrorsView, TableFollows
<1>12. CASE ClientNext /\ UNCHANGED homeVars
  <2>1. UNCHANGED Table
    BY <1>12 DEF homeVars, listVars, Table
  <2>2. CASE ServerCommit \/ OtherDevice \/ WatchSend \/ WriteStreamClosed
    <3>1. UNCHANGED <<remote, batches, raised, mainQ>>
      BY <2>2 DEF ServerCommit, OtherDevice, WatchSend, WriteStreamClosed, storeVars, eventVars
    <3>. QED
      BY <1>0, <1>q, <2>1, <3>1, TableKept DEF Table
  <2>3. CASE ApplyRemoteEvent
    <3>1. EmitSnapshots(mainQ, LocalView(remote', batches), TRUE, "Online") /\ batches' = batches
      BY <2>3 DEF ApplyRemoteEvent
    <3>2. LocalView(remote', batches) \in View /\ CurrentView' = LocalView(remote', batches)
      BY <1>0, <3>1, LocalViewType DEF TypeOK, ClientTypeOK, CurrentView
    <3>. QED
      BY <1>0, <2>1, <3>1, <3>2, EmitKeeps, TableKept DEF Table, OnlineStates
  <2>4. CASE HandleSuccessfulWrite
    <3>1. EmitSnapshots(NotifyUser(TRUE), LocalView(remote', batches'), synced, online) /\ replies # <<>>
      BY <2>4 DEF HandleSuccessfulWrite
    <3>2. LocalView(remote', batches') \in View /\ CurrentView' = LocalView(remote', batches')
      BY <2>4, SuccessfulWriteTypes DEF HomeInv, CurrentView
    <3>. QED
      BY <1>0, <2>1, <3>1, <3>2, HeadBatch, EmitKeeps, TableKept DEF Table, HomeInv
  <2>5. CASE HandleRejectedWrite
    <3>1. EmitSnapshots(NotifyUser(FALSE), LocalView(remote, batches'), synced, online) /\ replies # <<>> /\ remote' = remote
      BY <2>5 DEF HandleRejectedWrite
    <3>2. LocalView(remote, batches') \in View /\ CurrentView' = LocalView(remote, batches')
      BY <2>5, <3>1, RejectedWriteTypes DEF HomeInv, CurrentView
    <3>. QED
      BY <1>0, <2>1, <3>1, <3>2, HeadBatch, EmitKeeps, TableKept DEF Table, HomeInv
  <2>6. CASE HandleRejectedListen
    <3>1. ~(raised' > 0)
      BY <2>6 DEF HandleRejectedListen
    <3>. QED
      BY <1>0, <2>1, <3>1, TableKept DEF MirrorsView
  <2>7. CASE WatchStreamClosed \/ OnlineStateTimeout
    <3>1. PICK state \in OnlineStates : HandleOnlineStateChange(state)
      BY <2>7 DEF WatchStreamClosed, OnlineStateTimeout, OnlineStates
    <3>2. CurrentView' = CurrentView
      BY <2>7 DEF WatchStreamClosed, OnlineStateTimeout, storeVars, CurrentView
    <3>. QED
      BY <1>0, <2>1, <3>1, <3>2, OnlineEffect, EmitKeeps, TableKept DEF Table, HomeInv
  <2>. QED
    BY <1>12, <2>2, <2>3, <2>4, <2>5, <2>6, <2>7 DEF ClientNext
<1>13. CASE UNCHANGED vars
  BY <1>0, <1>q, <1>13, TableKept DEF vars, homeVars, listVars, clientVars, storeVars, eventVars, Table
<1>. QED
  BY <1>0, <1>1, <1>2, <1>3, <1>4, <1>5, <1>6, <1>7, <1>8, <1>9, <1>10, <1>11, <1>12, <1>13
     DEF Next, User, MainQueue

\* At launch nothing has been raised, so nothing is promised yet.
LEMMA InitHome == Init => HomeInv
<1> SUFFICES ASSUME Init PROVE HomeInv
  OBVIOUS
<1>1. raised = 0 /\ filteredRemindersArr = NoDocuments
  BY DEF Init, ClientInit
<1>2. FilteredFromOriginal
  BY <1>1 DEF FilteredFromOriginal, NoDocuments
<1>3. MirrorsView /\ TableFollows
  BY <1>1 DEF MirrorsView, TableFollows
<1>. QED
  BY <1>2, <1>3, InitTypes DEF HomeInv

\* The invariant behind the properties of the list holds throughout.
THEOREM HomeInvariant == Spec => []HomeInv
BY InitHome, HomeStep, PTL DEF Spec

\* Neither a search nor a swipe ever leaves a row that the last snapshot did not
\* have, or had with other content.
THEOREM RowsFromSnapshot == Spec => []FilteredFromOriginal
<1>1. HomeInv => FilteredFromOriginal
  BY DEF HomeInv
<1>. QED
  BY <1>1, HomeInvariant, PTL

\* However writes, acknowledgements, refusals, watch snapshots, duplicate
\* listeners and restarts mix, the newest snapshot on its way to a listening
\* Home, or else the one Home holds, is the client's view.
THEOREM NewestSnapshotIsView == Spec => []MirrorsView
<1>1. HomeInv => MirrorsView
  BY DEF HomeInv
<1>. QED
  BY <1>1, HomeInvariant, PTL

\* While Home listens and no snapshot is on its way, the table shows the last
\* snapshot or its matches: a row that was swiped away is missing only while the
\* snapshot that confirms it is on its way.
THEOREM TableFollowsSnapshots == Spec => []TableFollows
<1>1. HomeInv => TableFollows
  BY DEF HomeInv
<1>. QED
  BY <1>1, HomeInvariant, PTL

\* With nothing queued the view is the cache.
LEMMA EmptyQueueView == LocalView(remote, <<>>) = ContentsOf(remote)
BY DEF LocalView, LocalDoc, HasNewest, ContentsOf

\* A Home that still listens, with nothing queued and an up to date cache, holds
\* the server's reminders and shows all of them or the ones searched for.
THEOREM QuietHomeIsRight == Spec => []Settled
<1>1. HomeInv => Settled
  <2> SUFFICES ASSUME HomeInv, Quiet
               PROVE  /\ originalRemindersArr = ContentsOf(server)
                      /\ filteredRemindersArr \in {originalRemindersArr,
                                                   Matching(originalRemindersArr, searchText)}
    BY DEF Settled
  <2>1. raised > 0 /\ batches = <<>> /\ ContentsOf(remote) = ContentsOf(server)
    BY DEF Quiet
  <2>2. Snapshots(mainQ) = {}
    BY DEF Quiet, Snapshots
  <2>3. CurrentView = ContentsOf(server)
    BY <2>1, EmptyQueueView DEF CurrentView
  <2>. QED
    BY <2>1, <2>2, <2>3 DEF HomeInv, MirrorsView, Delivers, TableFollows
<1>. QED
  BY <1>1, HomeInvariant, PTL

-----------------------------------------------------------------------------
(* Deletions that have been reported.                                      *)

IsSuccess(e, op, d) == e.kind = "written" /\ e.ok /\ e.mutation.op = op /\ e.mutation.doc = d

\* The reminders whose deletion has been reported, or is about to be.
ReportedIn(q, del) ==
    {d \in Reminders : d \in del \/ \E i \in DOMAIN q : IsSuccess(q[i], "delete", d)}

\* A closure that neither shows d nor says that it was saved.
Harmless(e, d) == ~IsSuccess(e, "update", d) /\ (e.kind = "snapshot" => e.docs[d] = NoContent)

\* What is queued behind the report of a deletion is harmless.
OrderOK(q, del) ==
    /\ \A d \in del, k \in DOMAIN q : Harmless(q[k], d)
    /\ \A i, k \in DOMAIN q, d \in Reminders :
           i < k /\ IsSuccess(q[i], "delete", d) => Harmless(q[k], d)

\* A document is only set under a new id, dr being the ids drawn, R what has
\* been reported deleted.
BatchOK(b, dr, R) ==
    /\ R \subseteq dr
    /\ \A i \in DOMAIN b : /\ b[i].doc \in dr
                           /\ b[i].op = "delete" => b[i].content = NoContent
                           /\ b[i].op = "set" => b[i].doc \notin R
    /\ \A i, j \in DOMAIN b : i < j /\ b[j].op = "set" => b[i].doc # b[j].doc

Acked(rp, b, j, op) == rp[j].ok /\ b[j].op = op

\* What was deleted stays deleted at the server, and is not updated again.
ReplyOK(rp, b, srv, R) ==
    /\ \A d \in R : srv[d].content = NoContent
    /\ \A j \in DOMAIN rp : Acked(rp, b, j, "delete") => srv[b[j].doc].content = NoContent
    /\ \A j \in DOMAIN rp : Acked(rp, b, j, "update") =>
           /\ b[j].doc \notin R
           /\ \A i \in DOMAIN rp : i < j /\ Acked(rp, b, i, "delete") => b[i].doc # b[j].doc

AbsentFrom(docs, d, v) == docs[d].version >= v => docs[d].content = NoContent

\* Copies S of the server's documents, rem the cached one among them, are as
\* old as their versions say, and show a deleted document only if they are older.
VersionOK(rp, b, srv, S, rem, R) ==
    /\ \A docs \in S, d \in Reminders : docs[d].version <= srv[d].version
    /\ \A j \in DOMAIN rp : rp[j].ok => rp[j].version <= srv[b[j].doc].version
    /\ \A i, j \in DOMAIN rp : i < j /\ rp[i].ok /\ rp[j].ok /\ b[i].doc = b[j].doc =>
           rp[i].version < rp[j].version
    /\ \A j \in DOMAIN rp : Acked(rp, b, j, "delete") =>
           \A docs \in S : AbsentFrom(docs, b[j].doc, rp[j].version)
    /\ \A d \in R, docs \in S : AbsentFrom(docs, d, rem[d].version)

Reported == ReportedIn(mainQ, deleted)
Copies   == {remote} \cup {watch[i] : i \in DOMAIN watch}

\* The inductive invariant behind NoResurrection.
DeletionInv ==
    /\ OrderOK(mainQ, deleted)
    /\ BatchOK(batches, drawn, Reported)
    /\ ReplyOK(replies, batches, server, Reported)
    /\ VersionOK(replies, batches, server, Copies, remote, Reported)

\* Nothing is shown of a document whose deletion has been reported.
LEMMA ReportedIsHidden ==
    ASSUME NEW r \in Versions, NEW b \in Seq(Mutation), NEW d \in Reminders, NEW dr, NEW R,
           BatchOK(b, dr, R), d \in R, r[d].content = NoContent
    PROVE  LocalView(r, b)[d] = NoContent
<1> DEFINE blind == {i \in DOMAIN b : b[i].doc = d /\ b[i].op # "update"}
<1>1. \A i \in blind : b[i].content = NoContent
  <2> SUFFICES ASSUME NEW i \in blind PROVE b[i].content = NoContent
    OBVIOUS
  <2>1. b[i] \in Mutation
    BY LenProperties, ElementOfSeq
  <2>2. b[i].op \in {"set", "delete"}
    BY <2>1 DEF Mutation
  <2> QED  BY <2>2 DEF BatchOK
<1>2. HasNewest(blind) => b[Newest(blind)].content = NoContent
  <2>1. HasNewest(blind) => Newest(blind) \in blind
    BY DEF HasNewest, Newest
  <2> QED  BY <1>1, <2>1
<1> QED  BY <1>2 DEF LocalView, LocalDoc

\* What the tail of a sequence holds.
LEMMA TailFacts ==
    ASSUME NEW T, NEW s \in Seq(T), s # <<>>
    PROVE  \E n \in Nat : /\ DOMAIN s = 1..(n + 1) /\ DOMAIN Tail(s) = 1..n
                          /\ \A i \in 1..n : Tail(s)[i] = s[i + 1]
                          /\ Head(s) = s[1] /\ 1 \in DOMAIN s /\ Len(s) = n + 1
<1>1. PICK m \in Nat \ {0} : m = Len(s)
  BY EmptySeq
<1>2. /\ DOMAIN s = 1..m /\ DOMAIN Tail(s) = 1..(m - 1)
      /\ \A i \in 1..(m - 1) : Tail(s)[i] = s[i + 1]
      /\ Head(s) = s[1] /\ Len(s) = m
  BY <1>1, LenProperties, HeadTailProperties
<1>3. PICK n \in Nat : m = n + 1
  BY m - 1 \in Nat, m = (m - 1) + 1
<1> QED  BY <1>2, <1>3

\* The main queue runs its first closure.
LEMMA OrderOfTail ==
    ASSUME NEW q \in Seq(Event), q # <<>>, NEW del, OrderOK(q, del), NEW add \in SUBSET Reminders,
           \A d \in add : IsSuccess(Head(q), "delete", d)
    PROVE  /\ OrderOK(Tail(q), del \cup add)
           /\ ReportedIn(Tail(q), del \cup add) \subseteq ReportedIn(q, del)
<1>1. PICK n \in Nat : /\ DOMAIN q = 1..(n + 1) /\ DOMAIN Tail(q) = 1..n
                       /\ \A i \in 1..n : Tail(q)[i] = q[i + 1]
                       /\ Head(q) = q[1] /\ 1 \in DOMAIN q
  BY TailFacts
<1>2. \A i \in 1..n : i + 1 \in 1..(n + 1) /\ 1 < i + 1
  OBVIOUS
<1>3. ASSUME NEW d \in del \cup add, NEW k \in 1..n PROVE Harmless(Tail(q)[k], d)
  BY <1>1, <1>2 DEF OrderOK
<1>4. ASSUME NEW i \in 1..n, NEW k \in 1..n, NEW d \in Reminders, i < k, IsSuccess(Tail(q)[i], "delete", d)
      PROVE  Harmless(Tail(q)[k], d)
  <2>1. i + 1 < k + 1
    BY <1>4
  <2> QED  BY <1>1, <1>2, <1>4, <2>1 DEF OrderOK
<1>5. OrderOK(Tail(q), del \cup add)
  BY <1>1, <1>3, <1>4 DEF OrderOK
<1>6. ReportedIn(Tail(q), del \cup add) \subseteq ReportedIn(q, del)
  BY <1>1, <1>2 DEF ReportedIn
<1> QED  BY <1>5, <1>6

\* Closures e are queued that are harmless for whatever has been reported.
LEMMA OrderOfConcat ==
    ASSUME NEW q \in Seq(Event), NEW e \in Event, NEW n \in Nat, NEW del, OrderOK(q, del),
           e.kind # "written", \A d \in ReportedIn(q, del) : Harmless(e, d), del \subseteq Reminders
    PROVE  LET qq == q \o [i \in 1..n |-> e]
           IN  OrderOK(qq, del) /\ ReportedIn(qq, del) = ReportedIn(q, del)
<1> DEFINE t  == [i \in 1..n |-> e]
           qq == q \o t
<1>1. t \in Seq(Event) /\ Len(t) = n
  OBVIOUS
<1>2. PICK m \in Nat : m = Len(q) /\ DOMAIN q = 1..m
  BY LenProperties
<1>3. /\ DOMAIN qq = 1..(m + n)
      /\ \A i \in 1..m : qq[i] = q[i]
      /\ \A i \in 1..(m + n) : i \notin 1..m => qq[i] = e
  <2>1. /\ qq \in Seq(Event) /\ Len(qq) = m + n
        /\ \A i \in 1..(m + n) : qq[i] = IF i <= m THEN q[i] ELSE t[i - m]
    BY <1>1, <1>2, ConcatProperties
  <2>2. DOMAIN qq = 1..(m + n)
    BY <2>1, LenProperties
  <2>3. \A i \in 1..(m + n) : i \notin 1..m => ~(i <= m) /\ i - m \in 1..n
    OBVIOUS
  <2>4. 1..m \subseteq 1..(m + n) /\ \A i \in 1..m : i <= m
    OBVIOUS
  <2> HIDE DEF qq
  <2> QED  BY <2>1, <2>2, <2>3, <2>4
<1> HIDE DEF qq
<1>4. \A d : ~IsSuccess(e, "delete", d)
  BY DEF IsSuccess
<1>5. 1..m \subseteq 1..(m + n)
  OBVIOUS
<1>6. ReportedIn(qq, del) = ReportedIn(q, del)
  BY <1>2, <1>3, <1>4, <1>5 DEF ReportedIn
<1>7. \A d \in del : d \in ReportedIn(q, del)
  BY DEF ReportedIn
<1>8. ASSUME NEW i \in 1..(m + n), NEW k \in 1..(m + n), NEW d \in Reminders, i < k,
             IsSuccess(qq[i], "delete", d)
      PROVE  Harmless(qq[k], d)
  <2>1. i \in 1..m /\ IsSuccess(q[i], "delete", d)
    BY <1>3, <1>4, <1>8
  <2>2. d \in ReportedIn(q, del)
    BY <1>2, <2>1 DEF ReportedIn
  <2>3. k \in 1..m => qq[k] = q[k]
    BY <1>3
  <2>4. k \notin 1..m => qq[k] = e
    BY <1>3
  <2> QED  BY <1>2, <1>8, <2>1, <2>2, <2>3, <2>4 DEF OrderOK
<1>9. ASSUME NEW d \in del, NEW k \in 1..(m + n) PROVE Harmless(qq[k], d)
  BY <1>2, <1>3, <1>7 DEF OrderOK
<1>10. OrderOK(qq, del)
  BY <1>3, <1>8, <1>9 DEF OrderOK
<1> QED  BY <1>6, <1>10 DEF qq

\* A completion is queued.
LEMMA OrderOfAppend ==
    ASSUME NEW q \in Seq(Event), NEW e \in Event, NEW del, OrderOK(q, del),
           \A d \in ReportedIn(q, del) : Harmless(e, d), del \subseteq Reminders
    PROVE  /\ OrderOK(Append(q, e), del)
           /\ ReportedIn(Append(q, e), del)
                = ReportedIn(q, del) \cup {d \in Reminders : IsSuccess(e, "delete", d)}
<1> DEFINE qq == Append(q, e)
<1>1. PICK m \in Nat : m = Len(q) /\ DOMAIN q = 1..m
  BY LenProperties
<1>2. DOMAIN qq = 1..(m + 1) /\ qq[m + 1] = e /\ \A i \in 1..m : qq[i] = q[i]
  BY <1>1, AppendProperties, LenProperties
<1> HIDE DEF qq
<1>3. \A i \in 1..(m + 1) : i \in 1..m \/ i = m + 1
  OBVIOUS
<1>4. \A i \in 1..m : i \in 1..(m + 1)
  OBVIOUS
<1>5. m + 1 \in 1..(m + 1)
  OBVIOUS
<1>6. ReportedIn(qq, del) = ReportedIn(q, del) \cup {d \in Reminders : IsSuccess(e, "delete", d)}
  BY <1>1, <1>2, <1>3, <1>4, <1>5 DEF ReportedIn
<1>7. \A d \in del : d \in ReportedIn(q, del)
  BY DEF ReportedIn
<1>8. ASSUME NEW i \in 1..(m + 1), NEW k \in 1..(m + 1), NEW d \in Reminders, i < k,
             IsSuccess(qq[i], "delete", d)
      PROVE  Harmless(qq[k], d)
  <2>1. i \in 1..m
    BY <1>8
  <2>2. IsSuccess(q[i], "delete", d) /\ d \in ReportedIn(q, del)
    BY <1>1, <1>2, <1>8, <2>1 DEF ReportedIn
  <2> QED  BY <1>1, <1>2, <1>3, <1>8, <2>1, <2>2 DEF OrderOK
<1>9. ASSUME NEW d \in del, NEW k \in 1..(m + 1) PROVE Harmless(qq[k], d)
  BY <1>1, <1>2, <1>3, <1>7 DEF OrderOK
<1>10. OrderOK(qq, del)
  BY <1>2, <1>8, <1>9 DEF OrderOK
<1> QED  BY <1>6, <1>10 DEF qq

\* A mutation is queued; a set has an id of its own.
LEMMA BatchOfAppend ==
    ASSUME NEW b \in Seq(Mutation), NEW m \in Mutation, NEW dr, NEW R, BatchOK(b, dr, R),
           m.op = "delete" => m.content = NoContent, m.op = "set" => m.doc \notin dr
    PROVE  BatchOK(Append(b, m), dr \cup {m.doc}, R)
<1> DEFINE bb == Append(b, m)
<1>1. PICK n \in Nat : n = Len(b) /\ DOMAIN b = 1..n
  BY LenProperties
<1>2. DOMAIN bb = 1..(n + 1) /\ bb[n + 1] = m /\ \A i \in 1..n : bb[i] = b[i]
  BY <1>1, AppendProperties, LenProperties
<1> HIDE DEF bb
<1>3. \A i \in 1..(n + 1) : i \in 1..n \/ i = n + 1
  OBVIOUS
<1>4. ASSUME NEW i \in 1..(n + 1), NEW j \in 1..(n + 1), i < j, bb[j].op = "set"
      PROVE  bb[i].doc # bb[j].doc
  <2>1. i \in 1..n
    BY <1>4
  <2> QED  BY <1>1, <1>2, <1>3, <1>4, <2>1 DEF BatchOK
<1>5. \A i \in 1..(n + 1) : /\ bb[i].doc \in dr \cup {m.doc}
                            /\ bb[i].op = "delete" => bb[i].content = NoContent
                            /\ bb[i].op = "set" => bb[i].doc \notin R
  BY <1>1, <1>2, <1>3 DEF BatchOK
<1> QED  BY <1>2, <1>4, <1>5 DEF BatchOK, bb

\* The head of the queue is answered: if its deletion is now reported, no set of
\* the same document is left.
LEMMA BatchOfTail ==
    ASSUME NEW b \in Seq(Mutation), b # <<>>, NEW dr, NEW R, BatchOK(b, dr, R),
           NEW S, S \subseteq R \cup {Head(b).doc}
    PROVE  BatchOK(Tail(b), dr, S)
<1>1. PICK n \in Nat : /\ DOMAIN b = 1..(n + 1) /\ DOMAIN Tail(b) = 1..n
                       /\ \A i \in 1..n : Tail(b)[i] = b[i + 1]
                       /\ Head(b) = b[1] /\ 1 \in DOMAIN b
  BY TailFacts
<1>2. \A i \in 1..n : i + 1 \in 1..(n + 1) /\ 1 < i + 1
  OBVIOUS
<1>3. \A i, j \in 1..n : i < j => i + 1 < j + 1
  OBVIOUS
<1> QED  BY <1>1, <1>2, <1>3 DEF BatchOK

\* Fewer reports and more ids keep what there is.
LEMMA BatchKept ==
    ASSUME NEW b, NEW dr, NEW R, BatchOK(b, dr, R), NEW er, dr \subseteq er, NEW S, S \subseteq R
    PROVE  BatchOK(b, er, S)
BY DEF BatchOK

-----------------------------------------------------------------------------
(* Replies.                                                                *)

LEMMA ReplyKept ==
    ASSUME NEW rp, NEW b, NEW srv, NEW R, ReplyOK(rp, b, srv, R), NEW S, S \subseteq R
    PROVE  ReplyOK(rp, b, srv, S)
BY DEF ReplyOK

\* The queue grows behind the replies.
LEMMA RepliesOfAppend ==
    ASSUME NEW rp \in Seq(Reply), NEW b \in Seq(Mutation), Len(rp) <= Len(b), NEW m \in Mutation,
           NEW srv, NEW R, NEW S, NEW rem
    PROVE  /\ ReplyOK(rp, b, srv, R) => ReplyOK(rp, Append(b, m), srv, R)
           /\ VersionOK(rp, b, srv, S, rem, R) => VersionOK(rp, Append(b, m), srv, S, rem, R)
<1> DEFINE bb == Append(b, m)
<1>1. \A j \in DOMAIN rp : bb[j] = b[j]
  <2>1. PICK n \in Nat, k \in Nat : n = Len(b) /\ k = Len(rp) /\ DOMAIN rp = 1..k
    BY LenProperties
  <2>2. \A j \in 1..k : j \in 1..n
    BY <2>1
  <2> QED  BY <2>1, <2>2, AppendProperties
<1> HIDE DEF bb
<1>2. ReplyOK(rp, b, srv, R) => ReplyOK(rp, bb, srv, R)
  BY <1>1 DEF ReplyOK, Acked
<1>3. VersionOK(rp, b, srv, S, rem, R) => VersionOK(rp, bb, srv, S, rem, R)
  BY <1>1 DEF VersionOK, Acked
<1> QED  BY <1>2, <1>3 DEF bb

\* The server answers the next batch m.  It updates only what is there, so
\* nothing that was deleted, and its answer has a new version.
LEMMA RepliesOfCommit ==
    ASSUME NEW rp \in Seq(Reply), NEW b \in Seq(Mutation), Len(rp) < Len(b),
           NEW srv \in Versions, NEW dr, NEW R, NEW S, S \subseteq Versions, NEW rem \in S,
           BatchOK(b, dr, R), ReplyOK(rp, b, srv, R), VersionOK(rp, b, srv, S, rem, R), R \subseteq Reminders,
           NEW m \in Mutation, m = b[Len(rp) + 1],
           ~(m.op = "update" /\ srv[m.doc].content = NoContent)
    PROVE  LET new == [content |-> m.content, version |-> srv[m.doc].version + 1]
               r   == [ok |-> TRUE, version |-> srv[m.doc].version + 1]
           IN  /\ ReplyOK(Append(rp, r), b, [srv EXCEPT ![m.doc] = new], R)
               /\ VersionOK(Append(rp, r), b, [srv EXCEPT ![m.doc] = new], S, rem, R)
<1> DEFINE w   == srv[m.doc].version + 1
           new == [content |-> m.content, version |-> w]
           r   == [ok |-> TRUE, version |-> w]
           rq  == Append(rp, r)
           upd == [srv EXCEPT ![m.doc] = new]
<1>1. PICK n \in Nat : n = Len(rp) /\ DOMAIN rp = 1..n
  BY LenProperties
<1>2. m.doc \in Reminders /\ srv[m.doc].version \in Nat /\ w \in Nat /\ r \in Reply
  BY DEF Mutation, Versions, Reply
<1>3. /\ DOMAIN rq = 1..(n + 1) /\ rq[n + 1] = r /\ \A i \in 1..n : rq[i] = rp[i]
      /\ b[n + 1] = m /\ n + 1 \in DOMAIN b /\ \A i \in 1..n : i \in DOMAIN b
  <2>1. PICK k \in Nat : k = Len(b) /\ DOMAIN b = 1..k
    BY LenProperties
  <2>2. n + 1 \in 1..k /\ \A i \in 1..n : i \in 1..k
    BY <1>1, <2>1
  <2> QED  BY <1>1, <1>2, <2>1, <2>2, AppendProperties, LenProperties
<1>4. /\ upd[m.doc] = new
      /\ \A d \in Reminders : d # m.doc => upd[d] = srv[d]
      /\ \A d \in Reminders : srv[d].version <= upd[d].version /\ srv[d].version \in Nat
  BY <1>2 DEF Versions
<1>5. r.ok = TRUE /\ r.version = w /\ new.content = m.content /\ new.version = w
      /\ w > srv[m.doc].version
  BY <1>2
<1> HIDE DEF rq, upd, r, new, w
<1>6. \A i \in 1..(n + 1) : i \in 1..n \/ i = n + 1
  OBVIOUS
<1>7. \A i \in 1..n : b[i].doc \in Reminders
  <2>1. \A i \in DOMAIN b : b[i] \in Mutation
    BY LenProperties, ElementOfSeq
  <2> QED  BY <1>3, <2>1 DEF Mutation
\* A deleted document stays so, for the batch can neither update nor set it.
<1>8. /\ m.op = "delete" => m.content = NoContent
      /\ m.op = "set" => m.doc \notin R /\ \A i \in 1..n : b[i].doc # m.doc
      /\ m.op \in {"set", "update", "delete"}
  <2>1. \A i \in 1..n : i < n + 1
    OBVIOUS
  <2>2. m.op = "set" => \A i \in 1..n : b[i].doc # m.doc
    BY <1>3, <2>1 DEF BatchOK
  <2> QED  BY <1>3, <2>2 DEF BatchOK, Mutation
<1>9. ASSUME NEW d \in Reminders, srv[d].content = NoContent,
             d \in R \/ \E i \in 1..n : b[i].doc = d
      PROVE  upd[d].content = NoContent
  BY <1>4, <1>5, <1>8, <1>9
<1>10. ReplyOK(rq, b, upd, R)
  <2>1. \A d \in R : upd[d].content = NoContent
    BY <1>9 DEF ReplyOK
  <2>2. ASSUME NEW j \in 1..(n + 1), Acked(rq, b, j, "delete") PROVE upd[b[j].doc].content = NoContent
    <3>1. CASE j = n + 1
      BY <1>3, <1>4, <1>5, <1>8, <2>2, <3>1 DEF Acked
    <3>2. CASE j \in 1..n
      BY <1>1, <1>3, <1>7, <1>9, <2>2, <3>2 DEF Acked, ReplyOK
    <3> QED  BY <1>6, <3>1, <3>2
  <2>3. ASSUME NEW j \in 1..(n + 1), Acked(rq, b, j, "update")
        PROVE  /\ b[j].doc \notin R
               /\ \A i \in 1..(n + 1) : i < j /\ Acked(rq, b, i, "delete") => b[i].doc # b[j].doc
    <3>1. CASE j = n + 1
      <4>1. m.op = "update" /\ srv[m.doc].content # NoContent
        BY <1>3, <2>3, <3>1 DEF Acked
      <4>2. \A i \in 1..(n + 1) : i < n + 1 => i \in 1..n
        OBVIOUS
      <4> QED  BY <1>1, <1>3, <3>1, <4>1, <4>2 DEF ReplyOK, Acked
    <3>2. CASE j \in 1..n
      <4>1. \A i \in 1..(n + 1) : i < j => i \in 1..n
        BY <3>2
      <4> QED  BY <1>1, <1>3, <2>3, <3>2, <4>1 DEF ReplyOK, Acked
    <3> QED  BY <1>6, <3>1, <3>2
  <2> QED  BY <1>3, <2>1, <2>2, <2>3 DEF ReplyOK
<1>11. VersionOK(rq, b, upd, S, rem, R)
  <2>1. ASSUME NEW docs \in S, NEW d \in Reminders PROVE docs[d].version <= upd[d].version
    <3>1. docs[d].version \in Nat /\ docs[d].version <= srv[d].version /\ srv[d].version \in Nat
      BY DEF VersionOK, Versions
    <3>2. upd[d].version \in Nat /\ srv[d].version <= upd[d].version
      BY <1>2, <1>4, <1>5 DEF w, Versions
    <3> QED  BY <3>1, <3>2
  <2>2. \A i \in 1..n : rp[i].version \in Nat
    <3>1. \A i \in 1..n : rp[i] \in Reply
      BY <1>1, ElementOfSeq
    <3> QED  BY <3>1 DEF Reply
  <2>3. ASSUME NEW j \in 1..(n + 1), rq[j].ok PROVE rq[j].version <= upd[b[j].doc].version
    <3>1. CASE j = n + 1
      BY <1>2, <1>3, <1>4, <1>5, <3>1
    <3>2. CASE j \in 1..n
      <4>1. rp[j].version <= srv[b[j].doc].version /\ b[j].doc \in Reminders
        BY <1>1, <1>3, <1>7, <2>3, <3>2 DEF VersionOK
      <4>2. upd[b[j].doc].version \in Nat
        BY <1>2, <1>4, <1>5, <4>1 DEF Versions
      <4>3. srv[b[j].doc].version \in Nat /\ srv[b[j].doc].version <= upd[b[j].doc].version
        BY <1>4, <4>1
      <4>4. rp[j].version \in Nat /\ rq[j] = rp[j]
        BY <1>3, <2>2, <3>2
      <4> QED  BY <4>1, <4>2, <4>3, <4>4
    <3> QED  BY <1>6, <3>1, <3>2
  <2>4. ASSUME NEW i \in 1..(n + 1), NEW j \in 1..(n + 1), i < j, rq[i].ok, rq[j].ok, b[i].doc = b[j].doc
        PROVE  rq[i].version < rq[j].version
    <3>1. i \in 1..n
      BY <2>4
    <3>2. CASE j = n + 1
      <4>1. rp[i].version <= srv[m.doc].version
        BY <1>1, <1>3, <2>4, <3>1, <3>2 DEF VersionOK
      <4> QED  BY <1>2, <1>3, <1>5, <2>2, <3>1, <3>2, <4>1
    <3>3. CASE j \in 1..n
      BY <1>1, <1>3, <2>4, <3>1, <3>3 DEF VersionOK
    <3> QED  BY <1>6, <3>2, <3>3
  <2>5. ASSUME NEW j \in 1..(n + 1), Acked(rq, b, j, "delete"), NEW docs \in S
        PROVE  AbsentFrom(docs, b[j].doc, rq[j].version)
    <3>1. CASE j = n + 1
      <4>1. docs[m.doc].version <= srv[m.doc].version /\ docs[m.doc].version \in Nat
        BY <1>2 DEF VersionOK, Versions
      <4>2. ~(docs[m.doc].version >= w)
        BY <1>2, <1>5, <4>1
      <4> QED  BY <1>3, <1>5, <3>1, <4>2 DEF AbsentFrom
    <3>2. CASE j \in 1..n
      BY <1>1, <1>3, <2>5, <3>2 DEF VersionOK, Acked
    <3> QED  BY <1>6, <3>1, <3>2
  <2> QED  BY <1>3, <2>1, <2>3, <2>4, <2>5 DEF VersionOK
<1> QED  BY <1>10, <1>11 DEF rq, upd, r, new, w

\* A refusal says nothing.
LEMMA RepliesOfRefusal ==
    ASSUME NEW rp \in Seq(Reply), NEW b, NEW srv, NEW R, NEW S, NEW rem,
           NEW r \in Reply, ~r.ok
    PROVE  /\ ReplyOK(rp, b, srv, R) => ReplyOK(Append(rp, r), b, srv, R)
           /\ VersionOK(rp, b, srv, S, rem, R) => VersionOK(Append(rp, r), b, srv, S, rem, R)
<1> DEFINE rq == Append(rp, r)
<1>1. PICK n \in Nat : n = Len(rp) /\ DOMAIN rp = 1..n
  BY LenProperties
<1>2. DOMAIN rq = 1..(n + 1) /\ rq[n + 1] = r /\ \A i \in 1..n : rq[i] = rp[i]
  BY <1>1, AppendProperties, LenProperties
<1> HIDE DEF rq
<1>3. \A i \in DOMAIN rq : rq[i].ok => i \in DOMAIN rp /\ rq[i] = rp[i]
  <2>1. \A i \in 1..(n + 1) : i \in 1..n \/ i = n + 1
    OBVIOUS
  <2> QED  BY <1>1, <1>2, <2>1
<1>4. ReplyOK(rp, b, srv, R) => ReplyOK(rq, b, srv, R)
  BY <1>3 DEF ReplyOK, Acked
<1>5. VersionOK(rp, b, srv, S, rem, R) => VersionOK(rq, b, srv, S, rem, R)
  BY <1>3 DEF VersionOK, Acked
<1> QED  BY <1>4, <1>5 DEF rq

\* Replies are lost, and the batches forget their callbacks.
LEMMA RepliesLost ==
    ASSUME NEW rp, NEW b, NEW c, NEW srv, NEW R, NEW S, NEW rem,
           ReplyOK(rp, b, srv, R), VersionOK(rp, b, srv, S, rem, R)
    PROVE  ReplyOK(<<>>, c, srv, R) /\ VersionOK(<<>>, c, srv, S, rem, R)
BY DOMAIN <<>> = {} DEF ReplyOK, VersionOK

\* The server's own copy goes out, or copies are lost.
LEMMA CopySent ==
    ASSUME NEW rp \in Seq(Reply), NEW b, NEW srv \in Versions, NEW R, NEW S, NEW rem,
           ReplyOK(rp, b, srv, R), VersionOK(rp, b, srv, S, rem, R),
           NEW T, T \subseteq S \cup {srv}, NEW Q, Q \subseteq R
    PROVE  VersionOK(rp, b, srv, T, rem, Q)
<1>1. ASSUME NEW d \in Reminders PROVE srv[d].version <= srv[d].version
  <2>1. PICK n \in Nat : srv[d].version = n
    BY DEF Versions
  <2> QED  BY <2>1
<1>2. ASSUME NEW docs \in T, NEW d \in Reminders PROVE docs[d].version <= srv[d].version
  <2>1. CASE docs \in S
    BY <2>1 DEF VersionOK
  <2>2. CASE docs = srv
    BY <1>1, <2>2
  <2> QED  BY <2>1, <2>2
<1>3. \A j \in DOMAIN rp : Acked(rp, b, j, "delete") =>
          \A docs \in T : AbsentFrom(docs, b[j].doc, rp[j].version)
  BY DEF VersionOK, ReplyOK, AbsentFrom
<1>4. \A d \in Q, docs \in T : AbsentFrom(docs, d, rem[d].version)
  BY DEF VersionOK, ReplyOK, AbsentFrom
<1> QED  BY <1>2, <1>3, <1>4 DEF VersionOK

\* Another device adds a document, or changes one that is there: in both cases
\* none that was deleted.
LEMMA PutElsewhere ==
    ASSUME NEW rp \in Seq(Reply), NEW b, NEW srv \in Versions, NEW R, NEW S, S \subseteq Versions, NEW rem,
           \A j \in DOMAIN rp : b[j].doc \in Reminders,
           ReplyOK(rp, b, srv, R), VersionOK(rp, b, srv, S, rem, R), R \subseteq Reminders,
           NEW p \in Reminders, NEW c \in Maybe, p \notin R,
           \A j \in DOMAIN rp : Acked(rp, b, j, "delete") => b[j].doc # p
    PROVE  LET upd == [srv EXCEPT ![p] = [content |-> c, version |-> @.version + 1]]
           IN  ReplyOK(rp, b, upd, R) /\ VersionOK(rp, b, upd, S, rem, R)
<1> DEFINE upd == [srv EXCEPT ![p] = [content |-> c, version |-> @.version + 1]]
<1>1. /\ \A d \in Reminders : d # p => upd[d] = srv[d]
      /\ \A d \in Reminders : /\ srv[d].version \in Nat /\ upd[d].version \in Nat
                              /\ srv[d].version <= upd[d].version
  BY DEF Versions
<1> HIDE DEF upd
<1>2. ReplyOK(rp, b, upd, R)
  BY <1>1 DEF ReplyOK
<1>3. ASSUME NEW docs \in S, NEW d \in Reminders PROVE docs[d].version <= upd[d].version
  <2>1. docs[d].version \in Nat /\ docs[d].version <= srv[d].version
    BY DEF VersionOK, Versions
  <2> QED  BY <1>1, <2>1
<1>4. ASSUME NEW j \in DOMAIN rp, rp[j].ok PROVE rp[j].version <= upd[b[j].doc].version
  <2>1. rp[j].version \in Nat
    <3>1. rp[j] \in Reply
      BY LenProperties, ElementOfSeq
    <3> QED  BY <3>1 DEF Reply
  <2>2. rp[j].version <= srv[b[j].doc].version
    BY <1>4 DEF VersionOK
  <2> QED  BY <1>1, <2>1, <2>2
<1>5. VersionOK(rp, b, upd, S, rem, R)
  BY <1>3, <1>4 DEF VersionOK
<1> QED  BY <1>2, <1>5 DEF upd

\* A watched copy goes into the cache, document by document and never backwards.
LEMMA CopyWatched ==
    ASSUME NEW rp, NEW b, NEW srv, NEW R, NEW S, S \subseteq Versions, NEW rem \in S, R \subseteq Reminders,
           \A j \in DOMAIN rp : b[j].doc \in Reminders,
           VersionOK(rp, b, srv, S, rem, R),
           NEW new \in Versions,
           \A d \in Reminders : new[d].version >= rem[d].version /\ \E docs \in S : new[d] = docs[d],
           NEW T, T \subseteq S \cup {new}
    PROVE  VersionOK(rp, b, srv, T, new, R)
<1>1. \A docs \in T, d \in Reminders : \E old \in S : docs[d] = old[d]
  OBVIOUS
<1>2. \A docs \in T, d \in Reminders : docs[d].version <= srv[d].version
  BY <1>1 DEF VersionOK
<1>3. \A j \in DOMAIN rp : Acked(rp, b, j, "delete") =>
          \A docs \in T : AbsentFrom(docs, b[j].doc, rp[j].version)
  BY <1>1 DEF VersionOK, AbsentFrom
<1>4. ASSUME NEW d \in R, NEW docs \in T PROVE AbsentFrom(docs, d, new[d].version)
  <2>1. PICK old \in S : docs[d] = old[d]
    BY <1>1
  <2>2. /\ old[d].version \in Nat /\ new[d].version \in Nat /\ rem[d].version \in Nat
        /\ new[d].version >= rem[d].version
    BY DEF Versions
  <2>3. AbsentFrom(old, d, rem[d].version)
    BY DEF VersionOK
  <2> QED  BY <2>1, <2>2, <2>3 DEF AbsentFrom
<1> QED  BY <1>2, <1>3, <1>4 DEF VersionOK

\* The cache after the answer r to the batch m, of which it takes c.
CacheAfter(rem, m, r, c) ==
    IF r.ok /\ rem[m.doc].version < r.version
    THEN [rem EXCEPT ![m.doc] = [content |-> c, version |-> r.version]] ELSE rem

\* What the first reply answered leaves the queue: its deletion may be reported
\* now, and the cache takes it with its version.
LEMMA RepliesOfTail ==
    ASSUME NEW rp \in Seq(Reply), NEW b \in Seq(Mutation), rp # <<>>, Len(rp) <= Len(b),
           NEW srv, NEW dr, NEW R, NEW S, S \subseteq Versions, NEW rem \in S, R \subseteq Reminders,
           BatchOK(b, dr, R), ReplyOK(rp, b, srv, R), VersionOK(rp, b, srv, S, rem, R),
           NEW m, m = Head(b), NEW Q, Q \subseteq R \cup {m.doc},
           m.doc \in Q \ R => Head(rp).ok /\ m.op = "delete",
           NEW c \in Maybe, m.op = "delete" => c = NoContent,
           NEW new, new = CacheAfter(rem, m, Head(rp), c),
           NEW T, T \subseteq S \cup {new}
    PROVE  /\ ReplyOK(Tail(rp), Tail(b), srv, Q)
           /\ VersionOK(Tail(rp), Tail(b), srv, T, new, Q)
<1>0. b # <<>>
  <2>1. Len(rp) \in Nat \ {0} /\ Len(b) \in Nat /\ Len(<<>>) = 0
    BY EmptySeq, LenProperties
  <2> QED  BY <2>1
<1>1. PICK n \in Nat : /\ DOMAIN rp = 1..(n + 1) /\ DOMAIN Tail(rp) = 1..n
                       /\ \A i \in 1..n : Tail(rp)[i] = rp[i + 1]
                       /\ Head(rp) = rp[1] /\ 1 \in DOMAIN rp /\ Len(rp) = n + 1
  BY TailFacts
<1>2. PICK k \in Nat : /\ DOMAIN b = 1..(k + 1) /\ DOMAIN Tail(b) = 1..k
                       /\ \A i \in 1..k : Tail(b)[i] = b[i + 1]
                       /\ m = b[1] /\ 1 \in DOMAIN b /\ Len(b) = k + 1
  BY <1>0, TailFacts
<1>3. n <= k
  BY <1>1, <1>2
<1> DEFINE tr == Tail(rp)
           tb == Tail(b)
           v  == Head(rp).version
<1>4. \A j \in 1..n : /\ j + 1 \in DOMAIN rp /\ 1 < j + 1 /\ j + 1 \in DOMAIN b
                      /\ tr[j] = rp[j + 1] /\ tb[j] = b[j + 1]
  BY <1>1, <1>2, <1>3
<1>5. \A j \in DOMAIN rp : rp[j] \in Reply /\ b[j] \in Mutation /\ b[j].doc \in Reminders /\ rp[j].version \in Nat
  <2>1. \A j \in 1..(n + 1) : j \in 1..(k + 1)
    BY <1>3
  <2>2. \A j \in DOMAIN rp : rp[j] \in Reply /\ b[j] \in Mutation
    BY <1>1, <1>2, <2>1, ElementOfSeq
  <2> QED  BY <2>2 DEF Reply, Mutation
<1> HIDE DEF tr, tb
<1>6. m.doc \in Reminders /\ v \in Nat /\ 1 \in DOMAIN rp /\ v = rp[1].version /\ m = b[1]
      /\ m.op \in {"set", "update", "delete"}
  BY <1>1, <1>2, <1>5 DEF Mutation
<1> HIDE DEF v
<1>7. \A d \in Reminders : rem[d].version \in Nat
  BY DEF Versions
<1>8. /\ \A d \in Reminders : d # m.doc => new[d] = rem[d]
      /\ \/ new[m.doc] = rem[m.doc]
         \/ /\ Head(rp).ok /\ rem[m.doc].version < v
            /\ new[m.doc].content = c /\ new[m.doc].version = v
      /\ Head(rp).ok => new[m.doc].version >= v
  <2>1. CASE Head(rp).ok /\ rem[m.doc].version < v
    <3>1. new = [rem EXCEPT ![m.doc] = [content |-> c, version |-> v]]
      BY <2>1 DEF v, CacheAfter
    <3>2. /\ new[m.doc].content = c /\ new[m.doc].version = v
          /\ \A d \in Reminders : d # m.doc => new[d] = rem[d]
      BY <1>6, <3>1 DEF Versions
    <3> QED  BY <1>6, <2>1, <3>2
  <2>2. CASE ~(Head(rp).ok /\ rem[m.doc].version < v)
    <3>1. new = rem
      BY <2>2 DEF v, CacheAfter
    <3> QED  BY <1>6, <1>7, <2>2, <3>1
  <2> QED  BY <2>1, <2>2
<1>9. ASSUME NEW d \in Reminders PROVE new[d].version \in Nat /\ new[d].version >= rem[d].version
  <2>1. CASE new[d] = rem[d]
    BY <1>7, <2>1
  <2>2. CASE new[d] # rem[d]
    <3>1. d = m.doc /\ rem[d].version < v /\ new[d].version = v
      BY <1>8, <2>2
    <3> QED  BY <1>6, <1>7, <3>1
  <2> QED  BY <2>1, <2>2
<1>10. \A d \in Q : d \in R \/ (d = m.doc /\ Acked(rp, b, 1, "delete"))
  BY <1>1, <1>6 DEF Acked
<1>11. ReplyOK(tr, tb, srv, Q)
  <2>1. \A d \in Q : srv[d].content = NoContent
    BY <1>6, <1>10 DEF ReplyOK
  <2>2. \A j \in 1..n : Acked(tr, tb, j, "delete") => srv[tb[j].doc].content = NoContent
    BY <1>4 DEF ReplyOK, Acked
  <2>3. ASSUME NEW j \in 1..n, Acked(tr, tb, j, "update")
        PROVE  /\ tb[j].doc \notin Q
               /\ \A i \in 1..n : i < j /\ Acked(tr, tb, i, "delete") => tb[i].doc # tb[j].doc
    <3>1. Acked(rp, b, j + 1, "update")
      BY <1>4, <2>3 DEF Acked
    <3>2. /\ b[j + 1].doc \notin R
          /\ \A i \in DOMAIN rp : i < j + 1 /\ Acked(rp, b, i, "delete") => b[i].doc # b[j + 1].doc
      BY <1>4, <3>1 DEF ReplyOK
    <3>3. Acked(rp, b, 1, "delete") => m.doc # b[j + 1].doc
      BY <1>4, <1>6, <3>2
    <3>4. tb[j].doc \notin Q
      BY <1>4, <1>10, <3>2, <3>3
    <3>5. ASSUME NEW i \in 1..n, i < j, Acked(tr, tb, i, "delete") PROVE tb[i].doc # tb[j].doc
      <4>1. i + 1 < j + 1
        BY <3>5
      <4>2. i + 1 \in DOMAIN rp /\ Acked(rp, b, i + 1, "delete")
        BY <1>4, <3>5 DEF Acked
      <4> QED  BY <1>4, <3>2, <4>1, <4>2
    <3> QED  BY <3>4, <3>5
  <2> QED  BY <1>1, <2>1, <2>2, <2>3 DEF ReplyOK, tr
\* What the cache has taken is old for every later deletion.
<1>12. ASSUME NEW j \in 1..n, Acked(tr, tb, j, "delete"), NEW docs \in T
       PROVE  AbsentFrom(docs, tb[j].doc, tr[j].version)
  <2> DEFINE d == b[j + 1].doc
             w == rp[j + 1].version
  <2>1. /\ Acked(rp, b, j + 1, "delete") /\ j + 1 \in DOMAIN rp /\ 1 < j + 1
        /\ d \in Reminders /\ w \in Nat
    BY <1>4, <1>5, <1>12 DEF Acked
  <2>2. ASSUME NEW old \in S PROVE AbsentFrom(old, d, w)
    BY <2>1 DEF VersionOK
  <2>3. CASE docs \in S
    BY <1>4, <2>2, <2>3
  <2>4. CASE docs = new
    <3>1. CASE new[d] = rem[d]
      BY <1>4, <2>2, <2>4, <3>1 DEF AbsentFrom
    <3>2. CASE new[d] # rem[d]
      <4>1. d = m.doc /\ Head(rp).ok /\ new[d].version = v
        BY <1>8, <2>1, <3>2
      <4>2. v < w
        BY <1>1, <1>6, <2>1, <4>1 DEF VersionOK, Acked
      <4>3. ~(new[d].version >= w)
        BY <1>6, <2>1, <4>1, <4>2
      <4> QED  BY <1>4, <2>4, <4>3 DEF AbsentFrom
    <3> QED  BY <3>1, <3>2
  <2> QED  BY <2>3, <2>4
\* A document reported deleted was deleted by the batch, or is not the batch's.
<1>13. ASSUME NEW d \in Q, NEW docs \in T PROVE AbsentFrom(docs, d, new[d].version)
  <2>1. d \in Reminders
    BY <1>6
  <2>2. ASSUME NEW old \in S PROVE AbsentFrom(old, d, new[d].version)
    <3>1. old[d].version \in Nat
      BY <2>1 DEF Versions
    <3>2. CASE d \in R
      <4>1. AbsentFrom(old, d, rem[d].version)
        BY <3>2 DEF VersionOK
      <4> QED  BY <1>7, <1>9, <2>1, <3>1, <4>1 DEF AbsentFrom
    <3>3. CASE d \notin R
      <4>1. d = m.doc /\ Acked(rp, b, 1, "delete")
        BY <1>10, <3>3
      <4>2. AbsentFrom(old, d, v)
        BY <1>6, <4>1 DEF VersionOK
      <4>3. new[d].version >= v
        BY <1>1, <1>8, <4>1 DEF Acked
      <4> QED  BY <1>6, <1>9, <2>1, <3>1, <4>2, <4>3 DEF AbsentFrom
    <3> QED  BY <3>2, <3>3
  <2>3. CASE docs \in S
    BY <2>2, <2>3
  <2>4. CASE docs = new
    <3>1. CASE new[d] = rem[d]
      BY <2>2, <2>4, <3>1 DEF AbsentFrom
    <3>2. CASE new[d] # rem[d]
      <4>1. d = m.doc /\ Head(rp).ok /\ new[d].content = c
        BY <1>8, <2>1, <3>2
      <4>2. m.op = "delete"
        <5>1. CASE d \in R
          BY <1>1, <1>2, <1>6, <4>1, <5>1 DEF BatchOK, ReplyOK, Acked
        <5>2. CASE d \notin R
          BY <4>1, <5>2
        <5> QED  BY <5>1, <5>2
      <4> QED  BY <2>4, <4>1, <4>2 DEF AbsentFrom
    <3> QED  BY <3>1, <3>2
  <2> QED  BY <2>3, <2>4
<1>14. VersionOK(tr, tb, srv, T, new, Q)
  <2>1. ASSUME NEW docs \in T, NEW d \in Reminders PROVE docs[d].version <= srv[d].version
    <3>1. rem[d].version <= srv[d].version /\ (docs \in S => docs[d].version <= srv[d].version)
      BY DEF VersionOK
    <3>2. Head(rp).ok => v <= srv[m.doc].version
      BY <1>1, <1>6 DEF VersionOK
    <3> QED  BY <1>8, <3>1, <3>2
  <2>2. \A j \in 1..n : tr[j].ok => tr[j].version <= srv[tb[j].doc].version
    BY <1>4 DEF VersionOK
  <2>3. ASSUME NEW i \in 1..n, NEW j \in 1..n, i < j, tr[i].ok, tr[j].ok, tb[i].doc = tb[j].doc
        PROVE  tr[i].version < tr[j].version
    <3>1. i + 1 < j + 1
      BY <2>3
    <3> QED  BY <1>4, <2>3, <3>1 DEF VersionOK
  <2> QED  BY <1>1, <1>12, <1>13, <2>1, <2>2, <2>3 DEF VersionOK, tr
<1> QED  BY <1>11, <1>14 DEF tr, tb
-----------------------------------------------------------------------------
(* Steps of the app and the client.                                        *)

DeletionsKept == TypeOK /\ PipelineOK /\ DeletionInv

\* What the invariant says of the types and of the view.
LEMMA DeletionFacts ==
    ASSUME DeletionsKept
    PROVE  /\ mainQ \in Seq(Event) /\ batches \in Seq(Mutation) /\ replies \in Seq(Reply)
           /\ Len(replies) <= Len(batches) /\ raised \in Nat /\ waiting \in Nat
           /\ remote \in Versions /\ server \in Versions /\ deleted \subseteq Reminders
           /\ Copies \subseteq Versions /\ remote \in Copies /\ Reported \subseteq Reminders
           /\ \A j \in DOMAIN replies : j \in DOMAIN batches /\ batches[j].doc \in Reminders
<1>1. /\ mainQ \in Seq(Event) /\ batches \in Seq(Mutation) /\ replies \in Seq(Reply)
      /\ Len(replies) <= Len(batches) /\ raised \in Nat /\ waiting \in Nat
      /\ remote \in Versions /\ server \in Versions /\ deleted \subseteq Reminders
      /\ watch \in Seq(Versions)
  BY DEF DeletionsKept, TypeOK, ClientTypeOK, PipelineOK
<1>2. \A i \in DOMAIN watch : watch[i] \in Versions
  BY <1>1, LenProperties, ElementOfSeq
<1>3. Copies \subseteq Versions /\ remote \in Copies
  BY <1>1, <1>2 DEF Copies
<1>4. Reported \subseteq Reminders
  BY DEF Reported, ReportedIn
<1>5. ASSUME NEW j \in DOMAIN replies PROVE j \in DOMAIN batches /\ batches[j].doc \in Reminders
  <2>1. PICK n \in Nat, k \in Nat : n = Len(replies) /\ DOMAIN replies = 1..n /\ k = Len(batches) /\ DOMAIN batches = 1..k
    BY <1>1, LenProperties
  <2>2. j \in 1..k
    BY <1>1, <2>1
  <2>3. batches[j] \in Mutation
    BY <1>1, <2>1, <2>2, ElementOfSeq
  <2> QED  BY <2>1, <2>2, <2>3 DEF Mutation
<1> QED  BY <1>1, <1>3, <1>4, <1>5

\* The cache holds nothing of what has been reported.
LEMMA CacheHides ==
    ASSUME NEW rp, NEW c, NEW srv, NEW S, NEW r \in Versions, r \in S, NEW R, R \subseteq Reminders,
           VersionOK(rp, c, srv, S, r, R)
    PROVE  \A d \in R : r[d].content = NoContent
<1> SUFFICES ASSUME NEW d \in R PROVE r[d].content = NoContent
  OBVIOUS
<1>1. PICK n \in Nat : r[d].version = n
  BY DEF Versions
<1>2. AbsentFrom(r, d, n)
  BY <1>1 DEF VersionOK
<1> QED  BY <1>1, <1>2 DEF AbsentFrom

\* An emission of a view without what has been reported.
LEMMA EmitOrder ==
    ASSUME raised \in Nat, waiting \in Nat, deleted \subseteq Reminders,
           NEW q \in Seq(Event), OrderOK(q, deleted), NEW v \in View,
           \A d \in ReportedIn(q, deleted) : v[d] = NoContent,
           NEW current, NEW state, EmitSnapshots(q, v, current, state)
    PROVE  /\ OrderOK(mainQ', deleted)
           /\ ReportedIn(mainQ', deleted) = ReportedIn(q, deleted)
<1> DEFINE fresh == IF RaisesInitial(v, current, state) THEN waiting ELSE 0
           n     == (IF v # CurrentView THEN raised ELSE 0) + fresh
<1>1. n \in Nat
  OBVIOUS
<1>2. mainQ' = q \o [i \in 1..n |-> Snapshot(v)]
  BY Zenon DEF EmitSnapshots
<1> HIDE DEF n, fresh
<1>3. Snapshot(v) \in Event /\ Snapshot(v).kind # "written"
  BY DEF Snapshot, Event
<1>4. \A d \in ReportedIn(q, deleted) : Harmless(Snapshot(v), d)
  BY DEF Snapshot, Harmless, IsSuccess
<1> QED  BY <1>1, <1>2, <1>3, <1>4, OrderOfConcat

\* A step that leaves the documents alone reports nothing new.
LEMMA NothingNew ==
    ASSUME DeletionsKept, UNCHANGED <<server, drawn, replies, batches, remote>>,
           Copies' \subseteq Copies \cup {server}, OrderOK(mainQ', deleted'), Reported' \subseteq Reported
    PROVE  DeletionInv'
<1>1. /\ BatchOK(batches, drawn, Reported) /\ ReplyOK(replies, batches, server, Reported)
      /\ VersionOK(replies, batches, server, Copies, remote, Reported)
      /\ server \in Versions /\ replies \in Seq(Reply)
  BY DeletionFacts DEF DeletionsKept, DeletionInv
<1>2. BatchOK(batches, drawn, Reported')
  BY <1>1, BatchKept
<1>3. ReplyOK(replies, batches, server, Reported')
  BY <1>1, ReplyKept
<1>4. VersionOK(replies, batches, server, Copies', remote, Reported')
  BY <1>1, CopySent
<1> QED  BY <1>2, <1>3, <1>4 DEF DeletionInv

\* A closure is run, and reports the deletions of add.
LEMMA ClosureRun ==
    ASSUME DeletionsKept, mainQ # <<>>, NEW add \in SUBSET Reminders,
           \A d \in add : IsSuccess(Head(mainQ), "delete", d)
    PROVE  /\ OrderOK(Tail(mainQ), deleted \cup add)
           /\ ReportedIn(Tail(mainQ), deleted \cup add) \subseteq Reported
<1>1. mainQ \in Seq(Event) /\ OrderOK(mainQ, deleted)
  BY DeletionFacts DEF DeletionsKept, DeletionInv
<1> QED  BY <1>1, OrderOfTail DEF Reported

\* A closure that reports no deletion is run.
LEMMA DequeueDeletions ==
    ASSUME DeletionsKept, mainQ # <<>>, Dequeue, deleted' = deleted
    PROVE  DeletionInv'
<1>1. /\ OrderOK(Tail(mainQ), deleted \cup {})
      /\ ReportedIn(Tail(mainQ), deleted \cup {}) \subseteq Reported
  BY ClosureRun
<1>2. deleted \cup {} = deleted
  OBVIOUS
<1>3. /\ mainQ' = Tail(mainQ)
      /\ UNCHANGED <<server, drawn, replies, batches, remote, watch>>
  BY DEF Dequeue, serverVars, streamVars, storeVars
<1>4. OrderOK(mainQ', deleted') /\ Reported' \subseteq Reported
  BY <1>1, <1>2, <1>3 DEF Reported
<1>5. Copies' \subseteq Copies \cup {server}
  BY <1>3 DEF Copies
<1> QED  BY <1>3, <1>4, <1>5, NothingNew

\* The app writes.
LEMMA WriteDeletions ==
    ASSUME DeletionsKept, NEW m \in Mutation, WriteMutations(m), deleted' = deleted,
           m.op = "delete" => m.content = NoContent, m.op = "set" => m.doc \notin drawn
    PROVE  DeletionInv'
<1>1. /\ OrderOK(mainQ, deleted) /\ BatchOK(batches, drawn, Reported)
      /\ ReplyOK(replies, batches, server, Reported)
      /\ VersionOK(replies, batches, server, Copies, remote, Reported)
  BY DEF DeletionsKept, DeletionInv
<1>2. /\ batches' = Append(batches, m) /\ drawn' = drawn \cup {m.doc}
      /\ EmitSnapshots(mainQ, LocalView(remote, batches'), synced, online)
      /\ UNCHANGED <<server, replies, watch, remote>>
  BY DEF WriteMutations, streamVars
<1>3. batches' \in Seq(Mutation)
  BY <1>2, DeletionFacts, AppendProperties
<1>4. BatchOK(batches', drawn', Reported)
  BY <1>1, <1>2, DeletionFacts, BatchOfAppend
<1>5. LocalView(remote, batches') \in View /\ \A d \in Reported : LocalView(remote, batches')[d] = NoContent
  <2>1. remote \in Versions /\ remote \in Copies /\ Reported \subseteq Reminders
    BY DeletionFacts
  <2>2. LocalView(remote, batches') \in View
    BY <1>3, <2>1, LocalViewType
  <2>3. ASSUME NEW d \in Reported PROVE LocalView(remote, batches')[d] = NoContent
    <3>1. d \in Reminders /\ remote[d].content = NoContent
      BY <1>1, <2>1, CacheHides
    <3> QED  BY <1>3, <1>4, <2>1, <3>1, ReportedIsHidden
  <2> QED  BY <2>2, <2>3
<1>6. OrderOK(mainQ', deleted') /\ Reported' = Reported
  BY <1>1, <1>2, <1>5, DeletionFacts, EmitOrder DEF Reported
<1>7. /\ ReplyOK(replies, batches', server, Reported)
      /\ VersionOK(replies, batches', server, Copies, remote, Reported)
  BY <1>1, <1>2, DeletionFacts, RepliesOfAppend
<1>8. Copies' = Copies
  BY <1>2 DEF Copies
<1> QED  BY <1>2, <1>4, <1>6, <1>7, <1>8 DEF DeletionInv

\* A listener is registered once the closure at the head has reported add.
LEMMA ListenDeletions ==
    ASSUME DeletionsKept, mainQ # <<>>, AddSnapshotListener(Tail(mainQ)), NEW d \in Reminders,
           IsSuccess(Head(mainQ), "delete", d), deleted' = deleted \cup {d}
    PROVE  DeletionInv'
<1>1. OrderOK(Tail(mainQ), deleted') /\ ReportedIn(Tail(mainQ), deleted') \subseteq Reported
  BY ClosureRun
<1>2. UNCHANGED <<server, drawn, replies, batches, remote, watch>>
  BY DEF AddSnapshotListener, serverVars, streamVars, storeVars
<1>3. Copies' \subseteq Copies \cup {server}
  BY <1>2 DEF Copies
<1>4. CASE mainQ' = Tail(mainQ)
  BY <1>1, <1>2, <1>3, <1>4, NothingNew DEF Reported
<1>5. CASE mainQ' = Append(Tail(mainQ), Snapshot(CurrentView))
  <2>1. Tail(mainQ) \in Seq(Event) /\ deleted' \subseteq Reminders
    BY DeletionFacts, HeadTailProperties
  <2>2. CurrentView \in View /\ \A e \in Reported : CurrentView[e] = NoContent
    <3>1. /\ BatchOK(batches, drawn, Reported)
          /\ VersionOK(replies, batches, server, Copies, remote, Reported)
      BY DEF DeletionsKept, DeletionInv
    <3>2. \A e \in Reported : remote[e].content = NoContent
      BY <3>1, DeletionFacts, CacheHides
    <3>3. ASSUME NEW e \in Reported PROVE CurrentView[e] = NoContent
      <4>1. e \in Reminders /\ remote[e].content = NoContent
        BY <3>2, DeletionFacts
      <4> QED  BY <3>1, <4>1, DeletionFacts, ReportedIsHidden DEF CurrentView
    <3> QED  BY <3>3, DeletionFacts, LocalViewType DEF CurrentView
  <2> DEFINE e == Snapshot(CurrentView)
  <2>3. /\ e \in Event
        /\ \A f \in ReportedIn(Tail(mainQ), deleted') : Harmless(e, f)
        /\ {f \in Reminders : IsSuccess(e, "delete", f)} = {}
    BY <1>1, <2>2 DEF Snapshot, Event, Harmless, IsSuccess
  <2> HIDE DEF e
  <2>4. /\ OrderOK(Append(Tail(mainQ), e), deleted')
        /\ ReportedIn(Append(Tail(mainQ), e), deleted') = ReportedIn(Tail(mainQ), deleted') \cup {}
    BY <1>1, <2>1, <2>3, OrderOfAppend
  <2>5. OrderOK(mainQ', deleted') /\ Reported' \subseteq Reported
    BY <1>1, <1>5, <2>4 DEF Reported, e
  <2> QED  BY <1>2, <1>3, <2>5, NothingNew
<1> QED  BY <1>4, <1>5 DEF AddSnapshotListener

\* The server answers a batch.
LEMMA CommitDeletions ==
    ASSUME DeletionsKept, ServerCommit, deleted' = deleted
    PROVE  DeletionInv'
<1>1. /\ OrderOK(mainQ, deleted) /\ BatchOK(batches, drawn, Reported)
      /\ ReplyOK(replies, batches, server, Reported)
      /\ VersionOK(replies, batches, server, Copies, remote, Reported)
  BY DEF DeletionsKept, DeletionInv
<1>2. UNCHANGED <<mainQ, batches, drawn, watch, remote>>
  BY DEF ServerCommit, storeVars, eventVars
<1>3. Copies' = Copies /\ Reported' = Reported
  BY <1>2 DEF Copies, Reported
<1> DEFINE m == batches[Len(replies) + 1]
<1>4. m \in Mutation /\ Len(replies) < Len(batches)
  <2>1. PICK n \in Nat, k \in Nat : n = Len(replies) /\ k = Len(batches)
    BY DeletionFacts, LenProperties
  <2>2. n < k
    BY <2>1 DEF ServerCommit
  <2>3. n + 1 \in 1..k
    BY <2>2
  <2> QED  BY <2>1, <2>2, <2>3, DeletionFacts, ElementOfSeq
<1>5. /\ ReplyOK(replies', batches, server', Reported)
      /\ VersionOK(replies', batches, server', Copies, remote, Reported)
  <2> DEFINE w == server[m.doc].version + 1
  <2>1. CASE /\ ~(m.op = "update" /\ server[m.doc].content = NoContent)
             /\ Put(m.doc, m.content) /\ replies' = Append(replies, [ok |-> TRUE, version |-> w])
    <3>1. server' = [server EXCEPT ![m.doc] = [content |-> m.content, version |-> w]]
      BY <2>1 DEF Put
    <3> HIDE DEF m
    <3>2. m = batches[Len(replies) + 1]
      BY DEF m
    <3> QED  BY <1>1, <1>4, <2>1, <3>1, <3>2, DeletionFacts, RepliesOfCommit
  <2>2. CASE replies' = Append(replies, [ok |-> FALSE, version |-> 0]) /\ server' = server
    <3>1. [ok |-> FALSE, version |-> 0] \in Reply /\ ~[ok |-> FALSE, version |-> 0].ok
      BY DEF Reply
    <3> QED  BY <1>1, <2>2, <3>1, DeletionFacts, RepliesOfRefusal
  <2> QED  BY <2>1, <2>2 DEF ServerCommit
<1> QED  BY <1>1, <1>2, <1>3, <1>5 DEF DeletionInv

\* Another device writes.
LEMMA ElsewhereDeletions ==
    ASSUME DeletionsKept, OtherDevice, deleted' = deleted
    PROVE  DeletionInv'
<1>1. /\ OrderOK(mainQ, deleted) /\ BatchOK(batches, drawn, Reported)
      /\ ReplyOK(replies, batches, server, Reported)
      /\ VersionOK(replies, batches, server, Copies, remote, Reported)
  BY DEF DeletionsKept, DeletionInv
<1>2. UNCHANGED <<mainQ, replies, batches, watch, remote>>
  BY DEF OtherDevice, streamVars, storeVars, eventVars
<1>3. Copies' = Copies /\ Reported' = Reported
  BY <1>2 DEF Copies, Reported
<1>4. PICK d \in Reminders, c \in Maybe :
          /\ Put(d, c)
          /\ drawn \subseteq drawn'
          /\ d \notin drawn \/ server[d].content # NoContent
  BY DEF OtherDevice, Maybe
<1>5. d \notin Reported
  BY <1>1, <1>4 DEF BatchOK, ReplyOK
<1>6. \A j \in DOMAIN replies : Acked(replies, batches, j, "delete") => batches[j].doc # d
  BY <1>1, <1>4, DeletionFacts DEF BatchOK, ReplyOK
<1>7. /\ ReplyOK(replies, batches, server', Reported)
      /\ VersionOK(replies, batches, server', Copies, remote, Reported)
  BY <1>1, <1>4, <1>5, <1>6, DeletionFacts, PutElsewhere DEF Put
<1>8. BatchOK(batches, drawn', Reported)
  BY <1>1, <1>4, BatchKept
<1> QED  BY <1>1, <1>2, <1>3, <1>7, <1>8 DEF DeletionInv

\* A watched copy reaches the cache.
LEMMA WatchedDeletions ==
    ASSUME DeletionsKept, ApplyRemoteEvent, deleted' = deleted
    PROVE  DeletionInv'
<1>1. /\ OrderOK(mainQ, deleted) /\ BatchOK(batches, drawn, Reported)
      /\ ReplyOK(replies, batches, server, Reported)
      /\ VersionOK(replies, batches, server, Copies, remote, Reported)
  BY DEF DeletionsKept, DeletionInv
<1>2. /\ watch # <<>> /\ remote' = WatchedIntoCache(Head(watch)) /\ watch' = Tail(watch)
      /\ EmitSnapshots(mainQ, LocalView(remote', batches), TRUE, "Online")
      /\ UNCHANGED <<server, drawn, replies, batches>>
  BY DEF ApplyRemoteEvent, serverVars
<1>3. Head(watch) \in Copies /\ Copies' \subseteq Copies \cup {remote'}
  <2>1. watch \in Seq(Versions)
    BY DEF DeletionsKept, TypeOK, ClientTypeOK
  <2>2. PICK n \in Nat : /\ DOMAIN watch = 1..(n + 1) /\ DOMAIN Tail(watch) = 1..n
                         /\ \A i \in 1..n : Tail(watch)[i] = watch[i + 1]
                         /\ Head(watch) = watch[1] /\ 1 \in DOMAIN watch
    BY <1>2, <2>1, TailFacts
  <2>3. \A i \in 1..n : i + 1 \in 1..(n + 1)
    OBVIOUS
  <2> QED  BY <1>2, <2>2, <2>3 DEF Copies
<1>4. /\ \A d \in Reminders : /\ remote'[d].version >= remote[d].version
                              /\ \E docs \in Copies : remote'[d] = docs[d]
      /\ remote' \in Versions
  <2>1. Head(watch) \in Versions /\ remote \in Versions /\ remote \in Copies
    BY <1>3, DeletionFacts
  <2>2. ASSUME NEW d \in Reminders
        PROVE  /\ remote'[d].version >= remote[d].version
               /\ remote'[d] \in {Head(watch)[d], remote[d]}
    <3>1. PICK k \in Nat : remote[d].version = k
      BY <2>1 DEF Versions
    <3>2. remote'[d] = IF Head(watch)[d].version >= k THEN Head(watch)[d] ELSE remote[d]
      BY <1>2, <3>1 DEF WatchedIntoCache
    <3> QED  BY <3>1, <3>2
  <2>3. remote' \in Versions
    BY <1>2, <2>1 DEF WatchedIntoCache, Versions
  <2> QED  BY <1>3, <2>1, <2>2, <2>3
<1>5. VersionOK(replies, batches, server, Copies', remote', Reported)
  BY <1>1, <1>3, <1>4, DeletionFacts, CopyWatched
<1>6. LocalView(remote', batches) \in View
  BY <1>4, DeletionFacts, LocalViewType
<1>7. ASSUME NEW d \in Reported PROVE LocalView(remote', batches)[d] = NoContent
  <2>1. remote' \in Copies' /\ d \in Reminders
    BY DeletionFacts DEF Copies
  <2>2. remote'[d].content = NoContent
    BY <1>4, <1>5, <2>1, DeletionFacts, CacheHides
  <2> QED  BY <1>1, <1>4, <2>1, <2>2, DeletionFacts, ReportedIsHidden
<1>8. OrderOK(mainQ', deleted') /\ Reported' = Reported
  BY <1>1, <1>2, <1>6, <1>7, DeletionFacts, EmitOrder DEF Reported
<1> QED  BY <1>1, <1>2, <1>5, <1>8 DEF DeletionInv

\* A caller learns of the answer.  An acknowledged update is of a document that
\* no report was about, and only an acknowledged delete adds a report.
LEMMA NotifyOrder ==
    ASSUME DeletionsKept, replies # <<>>
    PROVE  LET q == NotifyUser(Head(replies).ok)
               m == Head(batches)
           IN  /\ q \in Seq(Event) /\ OrderOK(q, deleted)
               /\ ReportedIn(q, deleted) \subseteq Reported \cup {m.doc}
               /\ m.doc \in ReportedIn(q, deleted) \ Reported => Head(replies).ok /\ m.op = "delete"
<1> DEFINE ok == Head(replies).ok
           m  == Head(batches)
           e  == Written(m, ok)
<1>1. /\ OrderOK(mainQ, deleted) /\ ReplyOK(replies, batches, server, Reported)
      /\ mainQ \in Seq(Event) /\ replies \in Seq(Reply) /\ batches \in Seq(Mutation)
      /\ Len(replies) <= Len(batches) /\ deleted \subseteq Reminders
  BY DeletionFacts DEF DeletionsKept, DeletionInv
<1>2. 1 \in DOMAIN replies /\ Head(replies) = replies[1] /\ Head(replies) \in Reply
  <2>1. PICK n \in Nat : 1 \in DOMAIN replies /\ Head(replies) = replies[1]
    BY <1>1, TailFacts
  <2> QED  BY <1>1, <2>1, HeadTailProperties
<1>3. m = batches[1] /\ m \in Mutation
  <2>1. batches # <<>>
    BY <1>2, DeletionFacts, DOMAIN <<>> = {}
  <2>2. PICK n \in Nat : 1 \in DOMAIN batches /\ Head(batches) = batches[1]
    BY <1>1, <2>1, TailFacts
  <2> QED  BY <1>1, <2>1, <2>2, HeadTailProperties
<1>4. ok /\ m.op = "update" => m.doc \notin Reported
  BY <1>1, <1>2, <1>3 DEF ReplyOK, Acked
<1>5. e \in Event /\ \A d \in Reported : Harmless(e, d)
  BY <1>2, <1>3, <1>4 DEF Written, Event, Reply, Harmless, IsSuccess
<1>6. {d \in Reminders : IsSuccess(e, "delete", d)} = IF ok /\ m.op = "delete" THEN {m.doc} ELSE {}
  <2>1. m.doc \in Reminders
    BY <1>3 DEF Mutation
  <2> QED  BY <2>1 DEF Written, IsSuccess
<1> HIDE DEF e, ok, m
<1>7. CASE NotifyUser(ok) = Append(mainQ, e)
  <2>1. /\ OrderOK(Append(mainQ, e), deleted)
        /\ ReportedIn(Append(mainQ, e), deleted) = Reported \cup {d \in Reminders : IsSuccess(e, "delete", d)}
    BY <1>1, <1>5, OrderOfAppend DEF Reported
  <2>2. Append(mainQ, e) \in Seq(Event)
    BY <1>1, <1>5, AppendProperties
  <2> QED  BY <1>6, <1>7, <2>1, <2>2 DEF ok, m
<1>8. CASE NotifyUser(ok) = mainQ
  BY <1>1, <1>8 DEF Reported, ok, m
<1> QED  BY <1>7, <1>8 DEF NotifyUser, e, m

\* An answer is handled; c is what the cache takes of the write, if it does.
LEMMA AnswerDeletions ==
    ASSUME DeletionsKept, replies # <<>>, NEW c \in Maybe, NEW current, NEW state,
           Head(batches).op = "delete" /\ Head(batches).content = NoContent => c = NoContent,
           remote' = CacheAfter(remote, Head(batches), Head(replies), c),
           batches' = Tail(batches), replies' = Tail(replies),
           EmitSnapshots(NotifyUser(Head(replies).ok), LocalView(remote', batches'), current, state),
           UNCHANGED <<server, drawn, watch>>, deleted' = deleted
    PROVE  DeletionInv'
<1> DEFINE m == Head(batches)
           q == NotifyUser(Head(replies).ok)
           Q == ReportedIn(q, deleted)
<1>1. /\ BatchOK(batches, drawn, Reported) /\ ReplyOK(replies, batches, server, Reported)
      /\ VersionOK(replies, batches, server, Copies, remote, Reported)
  BY DEF DeletionsKept, DeletionInv
<1>2. /\ m = batches[1] /\ m \in Mutation /\ batches # <<>> /\ 1 \in DOMAIN batches
      /\ Head(replies) \in Reply
  <2>1. /\ replies \in Seq(Reply) /\ batches \in Seq(Mutation)
        /\ \A j \in DOMAIN replies : j \in DOMAIN batches
    BY DeletionFacts
  <2>2. PICK n \in Nat : 1 \in DOMAIN replies
    BY <2>1, TailFacts
  <2>3. batches # <<>>
    BY <2>1, <2>2, DOMAIN <<>> = {}
  <2>4. PICK k \in Nat : 1 \in DOMAIN batches /\ Head(batches) = batches[1]
    BY <2>1, <2>3, TailFacts
  <2> QED  BY <2>1, <2>3, <2>4, HeadTailProperties
<1>3. /\ q \in Seq(Event) /\ OrderOK(q, deleted) /\ Q \subseteq Reported \cup {m.doc}
      /\ m.doc \in Q \ Reported => Head(replies).ok /\ m.op = "delete"
  BY NotifyOrder
<1>4. m.op = "delete" => c = NoContent
  BY <1>1, <1>2 DEF BatchOK
<1>5. remote' \in Versions
  <2>1. m.doc \in Reminders /\ Head(replies).version \in Nat /\ remote \in Versions
    BY <1>2, DeletionFacts DEF Mutation, Reply
  <2> QED  BY <2>1 DEF Versions, CacheAfter
<1>6. Copies' \subseteq Copies \cup {remote'}
  BY DEF Copies
<1>7. Q \subseteq Reminders
  BY DEF ReportedIn
<1> HIDE DEF q, Q, m
<1>8. BatchOK(batches', drawn, Q)
  BY <1>1, <1>2, <1>3, DeletionFacts, BatchOfTail DEF m
<1>9. /\ ReplyOK(replies', batches', server, Q)
      /\ VersionOK(replies', batches', server, Copies', remote', Q)
  <2>1. /\ replies \in Seq(Reply) /\ batches \in Seq(Mutation) /\ Len(replies) <= Len(batches)
        /\ Copies \subseteq Versions /\ remote \in Copies /\ Reported \subseteq Reminders
    BY DeletionFacts
  <2>2. remote' = CacheAfter(remote, m, Head(replies), c)
    BY DEF m
  <2>3. /\ ReplyOK(Tail(replies), Tail(batches), server, Q)
        /\ VersionOK(Tail(replies), Tail(batches), server, Copies', remote', Q)
    BY <1>1, <1>3, <1>4, <1>6, <2>1, <2>2, RepliesOfTail DEF m
  <2> QED  BY <2>3
<1>10. batches' \in Seq(Mutation)
  BY <1>2, DeletionFacts, HeadTailProperties
<1>11. LocalView(remote', batches') \in View
  BY <1>5, <1>10, LocalViewType
<1>12. ASSUME NEW d \in Q PROVE LocalView(remote', batches')[d] = NoContent
  <2>1. remote' \in Copies' /\ d \in Reminders
    BY <1>7 DEF Copies
  <2>2. VersionOK(replies', batches', server, Copies', remote', Q)
    BY <1>9
  <2>3. \A f \in Q : remote'[f].content = NoContent
    BY <1>5, <1>7, <2>1, <2>2, CacheHides
  <2> QED  BY <1>5, <1>8, <1>10, <2>1, <2>3, ReportedIsHidden
<1>13. /\ OrderOK(mainQ', deleted)
       /\ ReportedIn(mainQ', deleted) = Q
  <2>1. \A d \in ReportedIn(q, deleted) : LocalView(remote', batches')[d] = NoContent
    BY <1>12 DEF Q
  <2>2. EmitSnapshots(q, LocalView(remote', batches'), current, state)
    BY DEF q
  <2> QED  BY <1>3, <1>11, <2>1, <2>2, DeletionFacts, EmitOrder DEF Q
<1>14. Reported' = Q
  BY <1>13 DEF Reported
<1> QED  BY <1>8, <1>9, <1>13, <1>14 DEF DeletionInv

\* The app is killed: of what was queued for it nothing is left, and the queue of
\* writes only forgets its callbacks.
LEMMA RestartDeletions ==
    ASSUME DeletionsKept, RestartClient, deleted' = deleted
    PROVE  DeletionInv'
<1>1. /\ OrderOK(mainQ, deleted) /\ BatchOK(batches, drawn, Reported)
      /\ ReplyOK(replies, batches, server, Reported)
      /\ VersionOK(replies, batches, server, Copies, remote, Reported)
  BY DEF DeletionsKept, DeletionInv
<1>2. /\ UNCHANGED <<server, drawn, remote>> /\ replies' = <<>> /\ watch' = <<>>
      /\ batches' = [i \in DOMAIN batches |-> [batches[i] EXCEPT !.callback = FALSE]]
      /\ mainQ' \in {<<Snapshot(LocalView(remote, batches'))>>, <<>>}
  BY Zenon DEF RestartClient, serverVars
<1>3. batches' \in Seq(Mutation)
  BY RestartEffect DEF DeletionsKept, ClientTypeOK
<1>4. deleted \subseteq Reported
  BY DeletionFacts DEF Reported, ReportedIn
<1>5. BatchOK(batches', drawn, deleted)
  <2>1. \A i \in DOMAIN batches : batches[i] \in Mutation
    BY DeletionFacts, LenProperties, ElementOfSeq
  <2>2. /\ DOMAIN batches' = DOMAIN batches
        /\ \A i \in DOMAIN batches : /\ batches'[i].doc = batches[i].doc
                                     /\ batches'[i].op = batches[i].op
                                     /\ batches'[i].content = batches[i].content
    BY <1>2, <2>1 DEF Mutation
  <2>3. BatchOK(batches', drawn, Reported)
    BY <1>1, <2>2 DEF BatchOK
  <2> QED  BY <1>4, <2>3, BatchKept
<1>6. /\ ReplyOK(replies', batches', server, deleted)
      /\ VersionOK(replies', batches', server, Copies', remote, deleted)
  <2>1. Copies' \subseteq Copies \cup {server}
    BY <1>2, DOMAIN <<>> = {} DEF Copies
  <2>2. /\ ReplyOK(replies, batches, server, deleted)
        /\ VersionOK(replies, batches, server, Copies', remote, deleted)
    BY <1>1, <1>4, <2>1, DeletionFacts, ReplyKept, CopySent
  <2> QED  BY <1>2, <2>2, RepliesLost
<1>7. \A d \in deleted : LocalView(remote, batches')[d] = NoContent
  <2>1. \A d \in Reported : remote[d].content = NoContent
    BY <1>1, DeletionFacts, CacheHides
  <2> QED  BY <1>3, <1>4, <1>5, <2>1, DeletionFacts, ReportedIsHidden
<1> DEFINE e == Snapshot(LocalView(remote, batches'))
<1>8. e.kind = "snapshot" /\ e.docs = LocalView(remote, batches')
  BY DEF Snapshot
<1> HIDE DEF e
<1>9. \A i \in DOMAIN mainQ' : i = 1 /\ mainQ'[i] = e
  <2>1. CASE mainQ' = <<e>>
    BY <2>1
  <2>2. CASE mainQ' = <<>>
    BY <2>2
  <2> QED  BY <1>2, <2>1, <2>2 DEF e
<1>10. OrderOK(mainQ', deleted)
  BY <1>7, <1>8, <1>9 DEF OrderOK, Harmless, IsSuccess
<1>11. Reported' = deleted
  BY <1>8, <1>9, DeletionFacts DEF Reported, ReportedIn, IsSuccess
<1> QED  BY <1>2, <1>5, <1>6, <1>10, <1>11 DEF DeletionInv

\* Whatever the user, the client, the server and the other devices do, what has
\* been reported deleted stays hidden.
LEMMA DeletionStep == DeletionsKept /\ [Next]_vars => DeletionsKept'
<1> SUFFICES ASSUME DeletionsKept, [Next]_vars PROVE DeletionInv'
  BY TypeStep DEF DeletionsKept
<1>0. OrderOK(mainQ, deleted)
  BY DEF DeletionsKept, DeletionInv
<1>q. ASSUME UNCHANGED <<clientVars, deleted>> PROVE DeletionInv'
  BY <1>q, NothingNew DEF clientVars, serverVars, streamVars, storeVars, eventVars, Copies, Reported,
         DeletionsKept, DeletionInv
<1>1. ASSUME NEW t \in Texts \cup {NoText}, TextDidChange(t) PROVE DeletionInv'
  BY <1>q, <1>1 DEF TextDidChange
<1>2. ASSUME NEW d \in Reminders, DeleteAction(d) PROVE DeletionInv'
  <2> DEFINE m == [op |-> "delete", doc |-> d, content |-> NoContent, callback |-> TRUE]
  <2>1. m \in Mutation /\ m.op = "delete" /\ m.content = NoContent
    BY DEF Mutation, Maybe
  <2> QED  BY <1>2, <2>1, WriteDeletions DEF DeleteAction
<1>3. ASSUME NEW d \in Reminders, DidSelectRow(d) PROVE DeletionInv'
  BY <1>q, <1>3 DEF DidSelectRow
<1>4. ASSUME NEW d \in Reminders, NEW c \in Contents, AddReminder(d, c) PROVE DeletionInv'
  <2> DEFINE m == [op |-> "set", doc |-> d, content |-> c, callback |-> TRUE]
  <2>1. m \in Mutation /\ m.op = "set" /\ m.doc = d
    BY DEF Mutation, Maybe
  <2> QED  BY <1>4, <2>1, WriteDeletions DEF AddReminder
<1>5. ASSUME NEW c \in Contents, UpdateReminder(c) PROVE DeletionInv'
  <2> DEFINE m == [op |-> "update", doc |-> selected, content |-> c, callback |-> TRUE]
  <2>1. m \in Mutation /\ m.op = "update"
    BY <1>5 DEF UpdateReminder, OnHome, Mutation, Maybe, DeletionsKept, TypeOK
  <2> QED  BY <1>5, <2>1, WriteDeletions DEF UpdateReminder
<1>6. CASE CloseEdit
  BY <1>q, <1>6 DEF CloseEdit
<1>7. CASE SnapshotReceived
  BY <1>7, DequeueDeletions DEF SnapshotReceived, Turn
<1>8. CASE ListenFailed
  BY <1>8, DequeueDeletions DEF ListenFailed, Turn, homeVars
<1>9. CASE DeleteCompleted
  <2>1. CASE Head(mainQ).ok
    <3> DEFINE d == Head(mainQ).mutation.doc
    <3>1. mainQ # <<>> /\ Head(mainQ) \in Event /\ IsSuccess(Head(mainQ), "delete", d)
      BY <1>9, <2>1, DeletionFacts, HeadTailProperties DEF DeleteCompleted, Turn, IsSuccess
    <3>2. d \in Reminders
      BY <3>1 DEF Event, Mutation, IsSuccess
    <3>3. AddSnapshotListener(Tail(mainQ)) /\ deleted' = deleted \cup {d}
      BY <1>9, <2>1 DEF DeleteCompleted
    <3> QED  BY <3>1, <3>2, <3>3, ListenDeletions
  <2>2. CASE ~Head(mainQ).ok
    BY <1>9, <2>2, DequeueDeletions DEF DeleteCompleted, Turn
  <2> QED  BY <2>1, <2>2
<1>10. CASE SaveCompleted
  BY <1>10, DequeueDeletions DEF SaveCompleted, Turn
<1>11. CASE Restart
  BY <1>11, RestartDeletions DEF Restart
<1>12. CASE ClientNext /\ UNCHANGED homeVars
  <2>0. deleted' = deleted
    BY <1>12 DEF homeVars
  <2>1. CASE WatchSend \/ WriteStreamClosed
    <3>1. UNCHANGED <<server, drawn, remote, batches, mainQ>>
      BY <2>1 DEF WatchSend, WriteStreamClosed, serverVars, storeVars, eventVars
    <3>2. CASE WatchSend
      <4>1. replies' = replies /\ watch' = <<server>>
        BY <3>2 DEF WatchSend
      <4>2. Copies' \subseteq Copies \cup {server}
        BY <3>1, <4>1 DEF Copies
      <4> QED  BY <1>0, <2>0, <3>1, <4>1, <4>2, NothingNew DEF Reported
    <3>3. CASE WriteStreamClosed
      <4>1. replies' = <<>> /\ watch' = watch
        BY <3>3 DEF WriteStreamClosed
      <4>2. Copies' = Copies /\ Reported' = Reported
        BY <2>0, <3>1, <4>1 DEF Copies, Reported
      <4> QED  BY <2>0, <3>1, <4>1, <4>2, RepliesLost DEF DeletionsKept, DeletionInv
    <3> QED  BY <2>1, <3>2, <3>3
  <2>2. CASE HandleSuccessfulWrite
    <3> DEFINE c == AckedContent(Head(batches))
    <3>1. replies # <<>> /\ Head(replies).ok = TRUE
      <4>1. Head(replies) \in Reply
        BY <2>2, DeletionFacts, HeadTailProperties DEF HandleSuccessfulWrite
      <4> QED  BY <2>2, <4>1 DEF HandleSuccessfulWrite, Reply
    <3>2. Head(batches) \in Mutation
      BY <3>1, HeadBatch DEF DeletionsKept
    <3>3. c \in Maybe /\ (Head(batches).op = "delete" /\ Head(batches).content = NoContent => c = NoContent)
      BY <3>2 DEF AckedContent, Mutation, Maybe
    <3>4. remote' = CacheAfter(remote, Head(batches), Head(replies), c)
      BY <2>2, <3>1 DEF HandleSuccessfulWrite, AckedIntoCache, CacheAfter
    <3>5. /\ batches' = Tail(batches) /\ replies' = Tail(replies)
          /\ EmitSnapshots(NotifyUser(TRUE), LocalView(remote', batches'), synced, online)
          /\ UNCHANGED <<server, drawn, watch>>
      BY <2>2 DEF HandleSuccessfulWrite, serverVars
    <3>6. EmitSnapshots(NotifyUser(Head(replies).ok), LocalView(remote', batches'), synced, online)
      BY <3>1, <3>5
    <3> HIDE DEF c
    <3> QED  BY <2>0, <3>1, <3>3, <3>4, <3>5, <3>6, AnswerDeletions
  <2>3. CASE HandleRejectedWrite
    <3>1. replies # <<>> /\ Head(replies).ok = FALSE
      <4>1. Head(replies) \in Reply
        BY <2>3, DeletionFacts, HeadTailProperties DEF HandleRejectedWrite
      <4> QED  BY <2>3, <4>1 DEF HandleRejectedWrite, Reply
    <3>2. NoContent \in Maybe
      BY DEF Maybe
    <3>3. /\ batches' = Tail(batches) /\ replies' = Tail(replies) /\ remote' = remote
          /\ EmitSnapshots(NotifyUser(FALSE), LocalView(remote, batches'), synced, online)
          /\ UNCHANGED <<server, drawn, watch>>
      BY <2>3 DEF HandleRejectedWrite, serverVars
    <3>4. remote' = CacheAfter(remote, Head(batches), Head(replies), NoContent)
      BY <3>1, <3>3 DEF CacheAfter
    <3>5. EmitSnapshots(NotifyUser(Head(replies).ok), LocalView(remote', batches'), synced, online)
      BY <3>1, <3>3
    <3> QED  BY <2>0, <3>1, <3>2, <3>3, <3>4, <3>5, AnswerDeletions
  <2>4. CASE HandleRejectedListen
    <3>1. /\ UNCHANGED <<server, drawn, replies, batches, remote>> /\ watch' = <<>>
          /\ mainQ' = mainQ \o [i \in 1..(raised + waiting) |-> Failure]
      BY <2>4 DEF HandleRejectedListen, serverVars, storeVars
    <3>2. Copies' \subseteq Copies
      BY <3>1, DOMAIN <<>> = {} DEF Copies
    <3>3. Failure \in Event /\ Failure.kind # "written" /\ \A d : Harmless(Failure, d)
      BY DEF Failure, Event, Harmless, IsSuccess
    <3>4. raised + waiting \in Nat
      BY DeletionFacts
    <3>5. OrderOK(mainQ', deleted) /\ ReportedIn(mainQ', deleted) = Reported
      BY <1>0, <3>1, <3>3, <3>4, DeletionFacts, OrderOfConcat DEF Reported
    <3> QED  BY <2>0, <3>1, <3>2, <3>5, NothingNew DEF Reported
  <2>5. CASE WatchStreamClosed \/ OnlineStateTimeout
    <3>1. PICK state \in OnlineStates : HandleOnlineStateChange(state)
      BY <2>5 DEF WatchStreamClosed, OnlineStateTimeout, OnlineStates
    <3>2. UNCHANGED <<server, drawn, replies, batches, remote>> /\ watch' \in {watch, <<>>}
      BY <2>5, Zenon DEF WatchStreamClosed, OnlineStateTimeout, serverVars, storeVars, streamVars
    <3>3. Copies' \subseteq Copies
      BY <3>2, DOMAIN <<>> = {} DEF Copies
    <3>4. /\ EmitSnapshots(mainQ, CurrentView, synced /\ state # "Offline", state)
          /\ CurrentView \in View
      BY <3>1, LocalViewType, DeletionFacts DEF HandleOnlineStateChange, CurrentView
    <3>5. /\ BatchOK(batches, drawn, Reported)
          /\ VersionOK(replies, batches, server, Copies, remote, Reported)
      BY DEF DeletionsKept, DeletionInv
    <3>6. ASSUME NEW d \in Reported PROVE CurrentView[d] = NoContent
      <4>1. d \in Reminders /\ remote[d].content = NoContent
        BY <3>5, CacheHides, DeletionFacts
      <4> QED  BY <3>5, <4>1, DeletionFacts, ReportedIsHidden DEF CurrentView
    <3>7. OrderOK(mainQ', deleted) /\ ReportedIn(mainQ', deleted) = Reported
      BY <1>0, <3>4, <3>6, DeletionFacts, EmitOrder DEF Reported
    <3> QED  BY <2>0, <3>2, <3>3, <3>7, NothingNew DEF Reported
  <2> QED  BY <1>12, <2>0, <2>1, <2>2, <2>3, <2>4, <2>5, CommitDeletions, ElsewhereDeletions,
              WatchedDeletions DEF ClientNext
<1>13. CASE UNCHANGED vars
  BY <1>q, <1>13 DEF vars, homeVars
<1> QED  BY <1>0, <1>1, <1>2, <1>3, <1>4, <1>5, <1>6, <1>7, <1>8, <1>9, <1>10, <1>11, <1>12, <1>13
            DEF Next, User, MainQueue

\* At launch nothing has been reported, and the cache is empty.
LEMMA InitDeletions == Init => DeletionsKept
<1> SUFFICES ASSUME Init PROVE DeletionInv
  BY InitTypes DEF DeletionsKept
<1>1. /\ mainQ = <<>> /\ batches = <<>> /\ replies = <<>> /\ watch = <<>> /\ deleted = {}
      /\ remote = [d \in Reminders |-> [content |-> NoContent, version |-> 0]]
      /\ server \in [Reminders -> [content : Maybe, version : {0, 1}]]
  BY DEF Init, ClientInit
<1>2. DOMAIN <<>> = {}
  OBVIOUS
<1>3. Reported = {} /\ Copies = {remote}
  BY <1>1, <1>2 DEF Reported, ReportedIn, Copies
<1>4. \A d \in Reminders : remote[d].version <= server[d].version
  <2> SUFFICES ASSUME NEW d \in Reminders PROVE remote[d].version <= server[d].version
    OBVIOUS
  <2>1. remote[d].version = 0 /\ server[d].version \in {0, 1}
    BY <1>1
  <2> QED  BY <2>1
<1> QED  BY <1>1, <1>2, <1>3, <1>4 DEF DeletionInv, OrderOK, BatchOK, ReplyOK, VersionOK

\* A reminder whose deletion Home was told of never enters its list again,
\* through whatever snapshot, answer, other device, restart or search: ids are
\* not used twice, the cache does not go back, and what the main queue still
\* holds was computed without the reminder.
THEOREM DeletedStaysAway == Spec => NoResurrection
<1> DEFINE A == \A d \in deleted : originalRemindersArr[d] = NoContent => originalRemindersArr'[d] = NoContent
<1>1. DeletionsKept /\ [Next]_vars => [A]_vars
  <2> SUFFICES ASSUME DeletionsKept, Next, NEW d \in deleted, originalRemindersArr[d] = NoContent
               PROVE  originalRemindersArr'[d] = NoContent
    OBVIOUS
  <2>0. d \in Reminders
    BY DeletionFacts
  <2>1. CASE SnapshotReceived
    <3>1. mainQ # <<>> /\ Head(mainQ).kind = "snapshot" /\ originalRemindersArr' = Head(mainQ).docs
      BY <2>1 DEF SnapshotReceived, Turn
    <3>2. PICK n \in Nat : 1 \in DOMAIN mainQ /\ Head(mainQ) = mainQ[1]
      BY <3>1, DeletionFacts, TailFacts
    <3>3. Harmless(Head(mainQ), d)
      BY <3>2 DEF DeletionsKept, DeletionInv, OrderOK
    <3> QED  BY <3>1, <3>3 DEF Harmless
  <2>2. CASE Restart
    BY <2>0, <2>2 DEF Restart, NoDocuments
  <2>3. CASE ~SnapshotReceived /\ ~Restart
    <3>1. originalRemindersArr' = originalRemindersArr
      BY <2>3 DEF Next, User, MainQueue, TextDidChange, DeleteAction, DidSelectRow, AddReminder,
             UpdateReminder, CloseEdit, ListenFailed, DeleteCompleted, SaveCompleted, homeVars, listVars
    <3> QED  BY <3>1
  <2> QED  BY <2>1, <2>2, <2>3
<1> QED  BY <1>1, InitDeletions, DeletionStep, PTL DEF Spec, NoResurrection

-----------------------------------------------------------------------------
(* Calls the completion of which is to come.                               *)

AnswersIn(o, q) == Len(Only(q, AnswersTo(o)))
CallsIn(o, b) == Len(Only(b, Calling(o)))

\* Telling the listeners answers nobody.
LEMMA EmitAnswersNobody ==
    ASSUME NEW o, raised \in Nat, waiting \in Nat, NEW q \in Seq(Event), NEW v \in View,
           NEW current, NEW state, EmitSnapshots(q, v, current, state)
    PROVE  AnswersIn(o, mainQ') = AnswersIn(o, q)
<1> DEFINE fresh == IF RaisesInitial(v, current, state) THEN waiting ELSE 0
           n     == (IF v # CurrentView THEN raised ELSE 0) + fresh
<1>1. n \in Nat
  OBVIOUS
<1>2. mainQ' = q \o [i \in 1..n |-> Snapshot(v)]
  BY Zenon DEF EmitSnapshots
<1> HIDE DEF n, fresh
<1>3. Snapshot(v) \in Event /\ Snapshot(v) \notin AnswersTo(o)
  BY DEF Snapshot, Event, AnswersTo
<1> QED  BY <1>1, <1>2, <1>3, OnlyIgnoresCopies DEF AnswersIn

\* A write is one more call of its kind.
LEMMA WritePending ==
    ASSUME NEW o, TypeOK, NEW m \in Mutation, WriteMutations(m)
    PROVE  \E n \in Nat : Pending(o) = n /\ Pending(o)' = IF m \in Calling(o) THEN n + 1 ELSE n
<1>1. /\ mainQ \in Seq(Event) /\ batches \in Seq(Mutation) /\ remote \in Versions
      /\ raised \in Nat /\ waiting \in Nat
  BY DEF TypeOK, ClientTypeOK
<1>2. batches' = Append(batches, m) /\ EmitSnapshots(mainQ, LocalView(remote, batches'), synced, online)
  BY DEF WriteMutations
<1>3. LocalView(remote, batches') \in View
  BY <1>1, <1>2, AppendProperties, LocalViewType
<1>4. AnswersIn(o, mainQ') = AnswersIn(o, mainQ)
  BY <1>1, <1>2, <1>3, EmitAnswersNobody
<1>5. PICK n \in Nat : CallsIn(o, batches) = n /\ CallsIn(o, batches') = IF m \in Calling(o) THEN n + 1 ELSE n
  BY <1>1, <1>2, OnlyLenAppend DEF CallsIn
<1>6. PICK k \in Nat : AnswersIn(o, mainQ) = k
  BY <1>1, OnlyIsSeq, LenProperties DEF AnswersIn
<1>7. Pending(o) = k + n /\ Pending(o)' = k + CallsIn(o, batches')
  BY <1>4, <1>5, <1>6 DEF Pending, AnswersIn, CallsIn
<1>8. k + n \in Nat
  OBVIOUS
<1> QED  BY <1>5, <1>7, <1>8

\* A closure is run.
LEMMA DequeuePending ==
    ASSUME NEW o, TypeOK, mainQ # <<>>, AnswersIn(o, mainQ') = AnswersIn(o, Tail(mainQ)), batches' = batches
    PROVE  \E n \in Nat : Pending(o)' = n /\ Pending(o) = IF Head(mainQ) \in AnswersTo(o) THEN n + 1 ELSE n
<1>1. mainQ \in Seq(Event) /\ batches \in Seq(Mutation)
  BY DEF TypeOK, ClientTypeOK
<1>2. PICK n \in Nat : /\ AnswersIn(o, Tail(mainQ)) = n
                       /\ AnswersIn(o, mainQ) = IF Head(mainQ) \in AnswersTo(o) THEN n + 1 ELSE n
  BY <1>1, OnlyLenTail DEF AnswersIn
<1>3. PICK k \in Nat : CallsIn(o, batches) = k
  BY <1>1, OnlyIsSeq, LenProperties DEF CallsIn
<1>4. Pending(o)' = n + k /\ Pending(o) = AnswersIn(o, mainQ) + k
  BY <1>2, <1>3 DEF Pending, AnswersIn, CallsIn
<1>5. n + k \in Nat
  OBVIOUS
<1> QED  BY <1>2, <1>4, <1>5

\* Registering a listener answers nobody either.
LEMMA ListenPending ==
    ASSUME NEW o, TypeOK, NEW q \in Seq(Event), AddSnapshotListener(q)
    PROVE  AnswersIn(o, mainQ') = AnswersIn(o, q) /\ batches' = batches
<1>1. CurrentView \in View
  BY LocalViewType DEF CurrentView, TypeOK, ClientTypeOK
<1>2. Snapshot(CurrentView) \in Event /\ Snapshot(CurrentView) \notin AnswersTo(o)
  BY <1>1 DEF Snapshot, Event, AnswersTo
<1>3. PICK n \in Nat : AnswersIn(o, q) = n /\ AnswersIn(o, Append(q, Snapshot(CurrentView))) = n
  BY <1>2, OnlyLenAppend DEF AnswersIn
<1>4. mainQ' \in {q, Append(q, Snapshot(CurrentView))} /\ batches' = batches
  BY DEF AddSnapshotListener, storeVars
<1> QED  BY <1>3, <1>4

\* The answer to a call goes from the queue of writes to the main queue.
LEMMA AnswerPending ==
    ASSUME NEW o, TypeOK, PipelineOK, replies # <<>>, NEW ok \in BOOLEAN, NEW v \in View, NEW current, NEW state,
           EmitSnapshots(NotifyUser(ok), v, current, state), batches' = Tail(batches)
    PROVE  Pending(o)' = Pending(o)
<1> DEFINE m == Head(batches)
           e == Written(m, ok)
<1>1. /\ mainQ \in Seq(Event) /\ batches \in Seq(Mutation) /\ raised \in Nat /\ waiting \in Nat
  BY DEF TypeOK, ClientTypeOK
<1>2. m \in Mutation /\ NotifyUser(ok) \in Seq(Event)
  BY HeadBatch
<1>3. batches # <<>>
  <2>1. Len(replies) \in Nat \ {0} /\ Len(batches) \in Nat
    BY EmptySeq, LenProperties DEF TypeOK, ClientTypeOK
  <2> QED  BY <2>1, EmptySeq DEF PipelineOK
<1>4. AnswersIn(o, mainQ') = AnswersIn(o, NotifyUser(ok))
  BY <1>1, <1>2, EmitAnswersNobody
<1>5. e \in Event /\ (e \in AnswersTo(o) <=> m.op = o)
  BY <1>2 DEF Written, Event, AnswersTo, Mutation
<1>6. m \in Calling(o) <=> m.op = o /\ m.callback
  BY <1>2 DEF Calling, Mutation
<1>7. PICK k \in Nat : /\ CallsIn(o, Tail(batches)) = k
                       /\ CallsIn(o, batches) = IF m \in Calling(o) THEN k + 1 ELSE k
  BY <1>1, <1>3, OnlyLenTail DEF CallsIn
<1>8. PICK n \in Nat : /\ AnswersIn(o, mainQ) = n
                       /\ AnswersIn(o, Append(mainQ, e)) = IF e \in AnswersTo(o) THEN n + 1 ELSE n
  BY <1>1, <1>5, OnlyLenAppend DEF AnswersIn
<1>9. NotifyUser(ok) = IF m.callback THEN Append(mainQ, e) ELSE mainQ
  BY DEF NotifyUser
<1>10. Pending(o) = n + CallsIn(o, batches) /\ Pending(o)' = AnswersIn(o, NotifyUser(ok)) + k
  BY <1>4, <1>7, <1>8 DEF Pending, AnswersIn, CallsIn
<1> HIDE DEF e, m
<1> QED  BY <1>5, <1>6, <1>7, <1>8, <1>9, <1>10

\* The client and the server neither lose nor answer twice.
LEMMA ClientPending ==
    ASSUME NEW o, TypeOK, PipelineOK, ClientNext
    PROVE  Pending(o)' = Pending(o)
<1>0. /\ mainQ \in Seq(Event) /\ batches \in Seq(Mutation) /\ raised \in Nat /\ waiting \in Nat
      /\ remote \in Versions
  BY DEF TypeOK, ClientTypeOK
<1>1. CASE ServerCommit \/ OtherDevice \/ WatchSend \/ WriteStreamClosed
  <2>1. UNCHANGED <<batches, mainQ>>
    BY <1>1 DEF ServerCommit, OtherDevice, WatchSend, WriteStreamClosed, storeVars, eventVars
  <2> QED  BY <2>1 DEF Pending
<1>2. CASE ApplyRemoteEvent
  <2>1. EmitSnapshots(mainQ, LocalView(remote', batches), TRUE, "Online") /\ batches' = batches
    BY <1>2 DEF ApplyRemoteEvent
  <2>2. remote' \in Versions
    BY <1>2, ClientTypes DEF ClientNext, ClientTypeOK
  <2>3. AnswersIn(o, mainQ') = AnswersIn(o, mainQ)
    BY <1>0, <2>1, <2>2, LocalViewType, EmitAnswersNobody
  <2> QED  BY <2>1, <2>3 DEF Pending, AnswersIn
<1>3. CASE HandleSuccessfulWrite
  <2>1. /\ replies # <<>> /\ batches' = Tail(batches)
        /\ EmitSnapshots(NotifyUser(TRUE), LocalView(remote', batches'), synced, online)
    BY <1>3 DEF HandleSuccessfulWrite
  <2>2. LocalView(remote', batches') \in View
    BY <1>3, SuccessfulWriteTypes
  <2> QED  BY <2>1, <2>2, AnswerPending
<1>4. CASE HandleRejectedWrite
  <2>1. /\ replies # <<>> /\ batches' = Tail(batches)
        /\ EmitSnapshots(NotifyUser(FALSE), LocalView(remote, batches'), synced, online)
    BY <1>4 DEF HandleRejectedWrite
  <2>2. LocalView(remote, batches') \in View
    BY <1>4, RejectedWriteTypes
  <2> QED  BY <2>1, <2>2, AnswerPending
<1>5. CASE HandleRejectedListen
  <2>1. mainQ' = mainQ \o [i \in 1..(raised + waiting) |-> Failure] /\ batches' = batches
    BY <1>5 DEF HandleRejectedListen, storeVars
  <2>2. Failure \in Event /\ Failure \notin AnswersTo(o) /\ raised + waiting \in Nat
    BY <1>0 DEF Failure, Event, AnswersTo
  <2>3. AnswersIn(o, mainQ') = AnswersIn(o, mainQ)
    BY <1>0, <2>1, <2>2, OnlyIgnoresCopies DEF AnswersIn
  <2> QED  BY <2>1, <2>3 DEF Pending, AnswersIn
<1>6. CASE WatchStreamClosed \/ OnlineStateTimeout
  <2>1. PICK state \in OnlineStates : HandleOnlineStateChange(state)
    BY <1>6 DEF WatchStreamClosed, OnlineStateTimeout, OnlineStates
  <2>2. batches' = batches
    BY <1>6, Zenon DEF WatchStreamClosed, OnlineStateTimeout, storeVars
  <2>3. CurrentView \in View /\ EmitSnapshots(mainQ, CurrentView, synced /\ state # "Offline", state)
    BY <2>1, OnlineEffect
  <2>4. AnswersIn(o, mainQ') = AnswersIn(o, mainQ)
    BY <1>0, <2>3, EmitAnswersNobody
  <2> QED  BY <2>2, <2>4 DEF Pending, AnswersIn
<1> QED  BY <1>1, <1>2, <1>3, <1>4, <1>5, <1>6 DEF ClientNext

\* After a restart no call is answered: the closures on the main queue are
\* gone, and the writes restored from disk call nobody.
LEMMA RestartPending ==
    ASSUME NEW o, TypeOK, RestartClient
    PROVE  Pending(o)' = 0
<1>1. batches \in Seq(Mutation) /\ remote \in Versions
  BY DEF TypeOK, ClientTypeOK
<1> DEFINE Silent == [op : {"set", "update", "delete"}, doc : Reminders, content : Maybe, callback : {FALSE}]
<1>2. batches' \in Seq(Silent) /\ batches' \in Seq(Mutation)
  <2>1. PICK n \in Nat : DOMAIN batches = 1..n
    BY <1>1, LenProperties
  <2>2. batches' = [i \in 1..n |-> [batches[i] EXCEPT !.callback = FALSE]]
    BY <2>1, Zenon DEF RestartClient
  <2>3. \A i \in 1..n : batches[i] \in Mutation
    BY <1>1, <2>1, ElementOfSeq, LenProperties
  <2>4. \A i \in 1..n : [batches[i] EXCEPT !.callback = FALSE] \in Silent /\ [batches[i] EXCEPT !.callback = FALSE] \in Mutation
    BY <2>3 DEF Mutation
  <2>5. batches' \in [1..n -> Silent] /\ batches' \in [1..n -> Mutation]
    BY <2>2, <2>4
  <2> HIDE DEF Silent
  <2> QED  BY <2>5
<1>3. Silent \cap Calling(o) = {}
  BY DEF Calling
<1>4. Only(batches', Calling(o)) = <<>>
  BY <1>2, <1>3, OnlyOfNone
<1>5. mainQ' = <<>> \/ mainQ' = <<Snapshot(LocalView(remote, batches'))>>
  BY DEF RestartClient
<1>6. Snapshot(LocalView(remote, batches')) \notin AnswersTo(o)
  BY DEF Snapshot, AnswersTo
<1>7. Only(mainQ', AnswersTo(o)) = <<>>
  BY <1>5, <1>6, OnlyOfEmpty, OnlyOfOne
<1>8. Len(<<>>) = 0
  BY EmptySeq
<1> QED  BY <1>4, <1>7, <1>8 DEF Pending

\* A write of this process calls back, and is a call of its own kind.
LEMMA CallKinds ==
    ASSUME NEW o, NEW k \in {"set", "update", "delete"}, NEW d \in Reminders, NEW c \in Maybe
    PROVE  LET m == [op |-> k, doc |-> d, content |-> c, callback |-> TRUE]
           IN  m \in Mutation /\ (m \in Calling(o) <=> k = o)
  BY DEF Mutation, Calling

\* The closure the main queue runs next.
LEMMA NextClosure ==
    ASSUME NEW o, TypeOK, mainQ # <<>>
    PROVE  /\ Head(mainQ) \in Event /\ Tail(mainQ) \in Seq(Event)
           /\ Head(mainQ).kind = "written" =>
                 /\ Head(mainQ).ok \in BOOLEAN
                 /\ Head(mainQ).mutation.doc \in Reminders /\ Head(mainQ).mutation.content \in Maybe
                 /\ Head(mainQ).mutation.op = o <=> Head(mainQ) \in AnswersTo(o)
           /\ Head(mainQ) \in AnswersTo(o) => Head(mainQ).kind = "written"
<1>1. Head(mainQ) \in Event /\ Tail(mainQ) \in Seq(Event)
  BY HeadTailProperties DEF TypeOK, ClientTypeOK
<1>2. Head(mainQ) \in AnswersTo(o) => Head(mainQ).kind = "written"
  BY DEF AnswersTo
<1>3. ASSUME Head(mainQ).kind = "written"
      PROVE  Head(mainQ) \in [kind : {"written"}, mutation : Mutation, ok : BOOLEAN]
  BY <1>1, <1>3 DEF Event
<1> DEFINE Replied == [op : {o}, doc : Reminders, content : Maybe, callback : BOOLEAN]
<1>4. ASSUME Head(mainQ).kind = "written"
      PROVE  /\ Head(mainQ).ok \in BOOLEAN
             /\ Head(mainQ).mutation.doc \in Reminders /\ Head(mainQ).mutation.content \in Maybe
             /\ Head(mainQ).mutation.op = o <=> Head(mainQ) \in AnswersTo(o)
  <2>1. Head(mainQ).mutation \in Mutation /\ Head(mainQ).ok \in BOOLEAN
    BY <1>3, <1>4
  <2>2. Head(mainQ).mutation \in Replied <=> Head(mainQ).mutation.op = o
    BY <2>1 DEF Mutation
  <2>3. Head(mainQ) \in AnswersTo(o) <=> Head(mainQ).mutation \in Replied
    BY <1>3, <1>4 DEF AnswersTo
  <2> QED  BY <2>1, <2>2, <2>3 DEF Mutation
<1> QED  BY <1>1, <1>2, <1>4

-----------------------------------------------------------------------------
(* Listeners.                                                              *)

CountFacts == TypeOK /\ PipelineOK /\ ListenersCounted
Listeners  == raised + waiting

\* Telling the listeners of a view neither adds one nor forgets one.
LEMMA EmitListeners ==
    ASSUME raised \in Nat, waiting \in Nat, NEW q, NEW v, NEW current, NEW state,
           EmitSnapshots(q, v, current, state)
    PROVE  Listeners' = Listeners
<1> DEFINE fresh == IF RaisesInitial(v, current, state) THEN waiting ELSE 0
<1>1. fresh \in Nat /\ fresh <= waiting
  OBVIOUS
<1>2. raised' = raised + fresh /\ waiting' = waiting - fresh
  BY Zenon DEF EmitSnapshots
<1> HIDE DEF fresh
<1> QED  BY <1>1, <1>2 DEF Listeners

\* What is left to prove of the counting in numbers.
LEMMA CountKept ==
    ASSUME TypeOK, ListenersCounted, NEW p \in Nat, NEW w \in Nat, NEW l \in Nat,
           Pending("delete")' = p, writes' = w, Listeners' = l,
           l + p <= w + 1, w <= MaxWrites
    PROVE  ListenersCounted'
  BY DEF ListenersCounted, Listeners

\* Every deletion adds to the calls that may bring one more listener; the
\* completion that does bring it is the end of the call.
LEMMA CountStep == CountFacts /\ [Next]_vars => CountFacts'
<1> SUFFICES ASSUME CountFacts, [Next]_vars PROVE CountFacts'
  OBVIOUS
<1>0. /\ TypeOK /\ PipelineOK /\ ListenersCounted /\ MaxWrites \in Nat
      /\ raised \in Nat /\ waiting \in Nat /\ writes \in Nat /\ mainQ \in Seq(Event) /\ batches \in Seq(Mutation)
  BY MaxWritesAssumption DEF CountFacts, TypeOK, ClientTypeOK
<1>1. TypeOK' /\ PipelineOK'
  BY <1>0, TypeStep
<1>2. PICK l \in Nat : Listeners = l
  BY <1>0 DEF Listeners
<1>3. PICK w \in Nat : writes = w /\ w <= MaxWrites
  BY <1>0 DEF ListenersCounted
<1>4. PICK p \in Nat : Pending("delete") = p
  <2>1. PICK a \in Nat : AnswersIn("delete", mainQ) = a
    BY <1>0, OnlyIsSeq, LenProperties DEF AnswersIn
  <2>2. PICK b \in Nat : CallsIn("delete", batches) = b
    BY <1>0, OnlyIsSeq, LenProperties DEF CallsIn
  <2> QED  BY <2>1, <2>2 DEF Pending, AnswersIn, CallsIn
<1>5. l + p <= w + 1
  BY <1>0, <1>2, <1>3, <1>4 DEF ListenersCounted, Listeners
<1>6. ASSUME UNCHANGED <<mainQ, batches, raised, waiting, writes>> PROVE ListenersCounted'
  BY <1>0, <1>6 DEF ListenersCounted, Pending
<1>7. ASSUME Pending("delete")' = Pending("delete"), Listeners' = Listeners, writes' = writes
      PROVE  ListenersCounted'
  BY <1>0, <1>2, <1>3, <1>4, <1>5, <1>7, CountKept
<1>8. ASSUME NEW m \in Mutation, WriteMutations(m), writes < MaxWrites, writes' = writes + 1
      PROVE  ListenersCounted'
  <2>1. PICK n \in Nat : Pending("delete") = n /\ Pending("delete")' = IF m \in Calling("delete") THEN n + 1 ELSE n
    BY <1>0, <1>8, WritePending
  <2>2. Listeners' = Listeners
    BY <1>0, <1>8, EmitListeners DEF WriteMutations
  <2>3. PICK r \in {p, p + 1} : Pending("delete")' = r
    BY <1>4, <2>1
  <2>4. r \in Nat /\ w + 1 \in Nat /\ l + r <= (w + 1) + 1 /\ w + 1 <= MaxWrites
    BY <1>0, <1>3, <1>5, <1>8, <2>3
  <2> QED  BY <1>0, <1>2, <1>3, <1>8, <2>2, <2>3, <2>4, CountKept
<1>9. ASSUME mainQ # <<>>, AnswersIn("delete", mainQ') = AnswersIn("delete", Tail(mainQ)), batches' = batches,
             writes' = writes,
             Listeners' = Listeners \/ (Listeners' = Listeners + 1 /\ Head(mainQ) \in AnswersTo("delete"))
      PROVE  ListenersCounted'
  <2>1. PICK n \in Nat : /\ Pending("delete")' = n
                         /\ Pending("delete") = IF Head(mainQ) \in AnswersTo("delete") THEN n + 1 ELSE n
    BY <1>0, <1>9, DequeuePending
  <2>2. PICK k \in Nat : Listeners' = k /\ k + n <= w + 1
    BY <1>2, <1>4, <1>5, <1>9, <2>1
  <2> QED  BY <1>0, <1>3, <1>9, <2>1, <2>2, CountKept
<1>10. ListenersCounted'
  <2>1. CASE User
    <3>1. ASSUME NEW t \in Texts \cup {NoText}, TextDidChange(t) PROVE ListenersCounted'
      BY <1>6, <3>1 DEF TextDidChange, clientVars, storeVars, eventVars
    <3>2. ASSUME NEW d \in Reminders, DeleteAction(d) PROVE ListenersCounted'
      <4>1. [op |-> "delete", doc |-> d, content |-> NoContent, callback |-> TRUE] \in Mutation
        BY CallKinds DEF Maybe
      <4> QED  BY <1>8, <3>2, <4>1 DEF DeleteAction
    <3>3. ASSUME NEW d \in Reminders, DidSelectRow(d) PROVE ListenersCounted'
      BY <1>6, <3>3 DEF DidSelectRow, clientVars, storeVars, eventVars
    <3>4. ASSUME NEW d \in Reminders, NEW c \in Contents, AddReminder(d, c) PROVE ListenersCounted'
      <4>1. [op |-> "set", doc |-> d, content |-> c, callback |-> TRUE] \in Mutation
        BY CallKinds DEF Maybe
      <4> QED  BY <1>8, <3>4, <4>1 DEF AddReminder
    <3>5. ASSUME NEW c \in Contents, UpdateReminder(c) PROVE ListenersCounted'
      <4>1. selected \in Reminders
        BY <1>0, <3>5 DEF UpdateReminder, OnHome, TypeOK
      <4>2. [op |-> "update", doc |-> selected, content |-> c, callback |-> TRUE] \in Mutation
        BY <4>1, CallKinds DEF Maybe
      <4> QED  BY <1>8, <3>5, <4>2 DEF UpdateReminder
    <3>6. CASE CloseEdit
      BY <1>6, <3>6 DEF CloseEdit, clientVars, storeVars, eventVars
    <3> QED  BY <2>1, <3>1, <3>2, <3>3, <3>4, <3>5, <3>6 DEF User
  <2>2. CASE MainQueue
    <3>1. ASSUME Dequeue PROVE /\ AnswersIn("delete", mainQ') = AnswersIn("delete", Tail(mainQ))
                               /\ batches' = batches /\ Listeners' = Listeners
      BY <3>1 DEF Dequeue, storeVars, Listeners
    <3>2. CASE SnapshotReceived \/ ListenFailed \/ SaveCompleted
      <4>1. mainQ # <<>> /\ Dequeue /\ writes' = writes
        BY <3>2 DEF SnapshotReceived, ListenFailed, SaveCompleted, Turn, homeVars
      <4> QED  BY <1>9, <3>1, <4>1
    <3>3. CASE DeleteCompleted
      <4>1. /\ mainQ # <<>> /\ Head(mainQ).kind = "written" /\ Head(mainQ).mutation.op = "delete"
            /\ writes' = writes /\ (AddSnapshotListener(Tail(mainQ)) \/ Dequeue)
        BY <3>3 DEF DeleteCompleted, Turn
      <4>2. Head(mainQ) \in AnswersTo("delete") /\ Tail(mainQ) \in Seq(Event)
        BY <1>0, <4>1, NextClosure
      <4>3. CASE AddSnapshotListener(Tail(mainQ))
        <5>1. AnswersIn("delete", mainQ') = AnswersIn("delete", Tail(mainQ)) /\ batches' = batches
          BY <1>0, <4>2, <4>3, ListenPending
        <5>2. Listeners' = Listeners + 1
          BY <1>0, <4>3 DEF AddSnapshotListener, Listeners
        <5> QED  BY <1>9, <4>1, <4>2, <5>1, <5>2
      <4>4. CASE Dequeue
        BY <1>9, <3>1, <4>1, <4>4
      <4> QED  BY <4>1, <4>3, <4>4
    <3> QED  BY <2>2, <3>2, <3>3 DEF MainQueue
  <2>3. CASE Restart
    <3>1. RestartClient /\ writes' = writes
      BY <2>3 DEF Restart
    <3>2. Pending("delete")' = 0
      BY <1>0, <3>1, RestartPending
    <3>3. Listeners' = 1
      <4>1. (raised' = 1 /\ waiting' = 0) \/ (raised' = 0 /\ waiting' = 1)
        BY <3>1, Zenon DEF RestartClient
      <4> QED  BY <4>1 DEF Listeners
    <3> QED  BY <1>0, <1>3, <3>1, <3>2, <3>3, CountKept
  <2>4. CASE ClientNext /\ UNCHANGED homeVars
    <3>1. Pending("delete")' = Pending("delete") /\ writes' = writes
      BY <1>0, <2>4, ClientPending DEF homeVars
    <3>2. CASE ServerCommit \/ OtherDevice \/ WatchSend \/ WriteStreamClosed
      <4>1. Listeners' = Listeners
        BY <3>2 DEF ServerCommit, OtherDevice, WatchSend, WriteStreamClosed, eventVars, Listeners
      <4> QED  BY <1>7, <3>1, <4>1
    <3>3. CASE ApplyRemoteEvent \/ HandleSuccessfulWrite \/ HandleRejectedWrite
      <4>1. PICK q, v, current, state : EmitSnapshots(q, v, current, state)
        BY <3>3, Zenon DEF ApplyRemoteEvent, HandleSuccessfulWrite, HandleRejectedWrite
      <4> QED  BY <1>0, <1>7, <3>1, <4>1, EmitListeners
    <3>4. CASE WatchStreamClosed \/ OnlineStateTimeout
      <4>1. PICK state \in OnlineStates : HandleOnlineStateChange(state)
        BY <3>4 DEF WatchStreamClosed, OnlineStateTimeout, OnlineStates
      <4>2. Listeners' = Listeners
        BY <1>0, <4>1, EmitListeners DEF HandleOnlineStateChange
      <4> QED  BY <1>7, <3>1, <4>2
    <3>5. CASE HandleRejectedListen
      <4>1. Listeners' = 0
        BY <3>5 DEF HandleRejectedListen, Listeners
      <4>2. 0 + p <= w + 1
        BY <1>2, <1>4, <1>5
      <4> QED  BY <1>0, <1>3, <1>4, <3>1, <4>1, <4>2, CountKept
    <3> QED  BY <2>4, <3>2, <3>3, <3>4, <3>5 DEF ClientNext
  <2>5. CASE UNCHANGED vars
    BY <1>6, <2>5 DEF vars, clientVars, storeVars, eventVars, homeVars
  <2> QED  BY <2>1, <2>2, <2>3, <2>4, <2>5 DEF Next
<1> QED  BY <1>1, <1>10 DEF CountFacts

\* The launch registers the one listener there is.
LEMMA InitCount == Init => CountFacts
<1> SUFFICES ASSUME Init PROVE CountFacts
  OBVIOUS
<1>1. TypeOK /\ PipelineOK
  BY InitTypes
<1>2. mainQ = <<>> /\ batches = <<>> /\ raised = 0 /\ waiting = 1 /\ writes = 0
  BY DEF Init, ClientInit
<1>3. Pending("delete") = 0
  <2>1. Len(<<>>) = 0
    BY EmptySeq
  <2> QED  BY <1>2, <2>1, OnlyOfEmpty DEF Pending
<1> QED  BY <1>1, <1>2, <1>3, MaxWritesAssumption DEF CountFacts, ListenersCounted

\* However many deletions are acknowledged, refused, or lost with the process,
\* Home never has more listeners than the launch and the writes of this device
\* account for.
THEOREM ListenersStayFew == Spec => []ListenersCounted
<1>1. CountFacts => ListenersCounted
  BY DEF CountFacts
<1> QED  BY <1>1, InitCount, CountStep, PTL DEF Spec

-----------------------------------------------------------------------------
(* The mirror: Home and its client implement LaggingMirror.                *)

SentIn(q) == DocsOf(Only(q, Told))

\* The views of snapshots are a sequence of views, one for each.
LEMMA DocsOfSnapshots ==
    ASSUME NEW s \in Seq(Told)
    PROVE  /\ DocsOf(s) \in Seq(View) /\ Len(DocsOf(s)) = Len(s)
           /\ \A i \in 1..Len(s) : DocsOf(s)[i] = s[i].docs
<1>1. PICK n \in Nat : Len(s) = n /\ DOMAIN s = 1..n
  BY LenProperties
<1>2. \A i \in 1..n : s[i] \in Told
  BY <1>1, ElementOfSeq
<1>3. \A i \in 1..n : s[i].docs \in View
  BY <1>2 DEF Told
<1>4. DocsOf(s) = [i \in 1..n |-> s[i].docs]
  BY <1>1 DEF DocsOf
<1>5. DocsOf(s) \in [1..n -> View]
  BY <1>3, <1>4
<1>6. DocsOf(s) \in Seq(View)
  BY <1>5, SeqDef
<1>7. Len(DocsOf(s)) = n
  BY <1>5, <1>6, LenProperties
<1> QED  BY <1>1, <1>4, <1>6, <1>7

\* Views of two runs of snapshots, one after the other.
LEMMA DocsOfConcat ==
    ASSUME NEW s \in Seq(Told), NEW t \in Seq(Told)
    PROVE  DocsOf(s \o t) = DocsOf(s) \o DocsOf(t)
<1>1. /\ s \o t \in Seq(Told) /\ Len(s \o t) = Len(s) + Len(t)
      /\ \A i \in 1..Len(s) + Len(t) : (s \o t)[i] = IF i <= Len(s) THEN s[i] ELSE t[i - Len(s)]
  BY ConcatProperties
<1>2. PICK m \in Nat : Len(s) = m
  BY LenProperties
<1>3. PICK n \in Nat : Len(t) = n
  BY LenProperties
<1>4. /\ DocsOf(s \o t) \in Seq(View) /\ Len(DocsOf(s \o t)) = m + n
      /\ \A i \in 1..m + n : DocsOf(s \o t)[i] = (s \o t)[i].docs
  BY <1>1, <1>2, <1>3, DocsOfSnapshots
<1>5. /\ DocsOf(s) \in Seq(View) /\ Len(DocsOf(s)) = m
      /\ \A i \in 1..m : DocsOf(s)[i] = s[i].docs
  BY <1>2, DocsOfSnapshots
<1>6. /\ DocsOf(t) \in Seq(View) /\ Len(DocsOf(t)) = n
      /\ \A i \in 1..n : DocsOf(t)[i] = t[i].docs
  BY <1>3, DocsOfSnapshots
<1>7. /\ DocsOf(s) \o DocsOf(t) \in Seq(View) /\ Len(DocsOf(s) \o DocsOf(t)) = m + n
      /\ \A i \in 1..m + n : (DocsOf(s) \o DocsOf(t))[i] = IF i <= m THEN DocsOf(s)[i] ELSE DocsOf(t)[i - m]
  BY <1>5, <1>6, ConcatProperties
<1>8. \A i \in 1..m + n : (s \o t)[i] = IF i <= m THEN s[i] ELSE t[i - m]
  BY <1>1, <1>2, <1>3
<1>9. ASSUME NEW i \in 1..m + n PROVE DocsOf(s \o t)[i] = (DocsOf(s) \o DocsOf(t))[i]
  <2>0. i \in Nat /\ (i <= m \/ i > m)
    OBVIOUS
  <2>1. CASE i <= m
    <3>1. i \in 1..m
      BY <2>1
    <3>2. (s \o t)[i] = s[i] /\ (DocsOf(s) \o DocsOf(t))[i] = DocsOf(s)[i]
      BY <1>7, <1>8, <2>1
    <3> QED  BY <1>4, <1>5, <3>1, <3>2
  <2>2. CASE i > m
    <3>1. i - m \in 1..n /\ ~(i <= m)
      BY <2>2
    <3>2. (s \o t)[i] = t[i - m] /\ (DocsOf(s) \o DocsOf(t))[i] = DocsOf(t)[i - m]
      BY <1>7, <1>8, <3>1
    <3> QED  BY <1>4, <1>6, <3>1, <3>2
  <2> QED  BY <2>0, <2>1, <2>2
<1> QED  BY <1>4, <1>7, <1>9, SeqEqual

\* Snapshots of one view tell that view.
LEMMA DocsOfCopies ==
    ASSUME NEW v \in View, NEW n \in Nat
    PROVE  /\ [i \in 1..n |-> Snapshot(v)] \in Seq(Told) \cap Seq(Event)
           /\ DocsOf([i \in 1..n |-> Snapshot(v)]) = Mirror!Copies(n, v)
<1>1. Snapshot(v) \in Told /\ Snapshot(v) \in Event /\ Snapshot(v).docs = v
  BY DEF Snapshot, Told, Event
<1>2. [i \in 1..n |-> Snapshot(v)] \in [1..n -> Told] /\ [i \in 1..n |-> Snapshot(v)] \in [1..n -> Event]
  BY <1>1
<1>3. DocsOf([i \in 1..n |-> Snapshot(v)]) = [i \in 1..n |-> v]
  BY <1>1 DEF DocsOf
<1> QED  BY <1>2, <1>3, SeqDef DEF Mirror!Copies

\* What is told of a queue.
LEMMA OnlyTold == ASSUME NEW q \in Seq(Event) PROVE Only(q, Told) \in Seq(Told)
<1> DEFINE T == Event \cap Told
<1>1. Only(q, Told) \in Seq(T)
  BY OnlyIsSeq
<1>2. T \subseteq Told
  OBVIOUS
<1> HIDE DEF T
<1> QED  BY <1>1, <1>2, SeqMonotonic

\* The views in a queue to which copies of a view are added.
LEMMA SentOfConcat ==
    ASSUME NEW q \in Seq(Event), NEW v \in View, NEW n \in Nat
    PROVE  SentIn(q \o [i \in 1..n |-> Snapshot(v)]) = SentIn(q) \o Mirror!Copies(n, v)
<1> DEFINE c == [i \in 1..n |-> Snapshot(v)]
<1>1. c \in Seq(Told) /\ c \in Seq(Event) /\ DocsOf(c) = Mirror!Copies(n, v)
  BY DocsOfCopies
<1> HIDE DEF c
<1>2. Only(c, Told) = c
  BY <1>1, OnlyOfAll
<1>3. Only(q \o c, Told) = Only(q, Told) \o Only(c, Told)
  BY <1>1, OnlyOfConcat
<1>4. Only(q, Told) \in Seq(Told)
  BY OnlyTold
<1>5. DocsOf(Only(q, Told) \o c) = DocsOf(Only(q, Told)) \o DocsOf(c)
  BY <1>1, <1>4, DocsOfConcat
<1>6. SentIn(q \o c) = SentIn(q) \o Mirror!Copies(n, v)
  BY <1>1, <1>2, <1>3, <1>5 DEF SentIn
<1> QED  BY <1>6 DEF c

\* A closure that is no snapshot tells nothing.
LEMMA SentOfOther ==
    ASSUME NEW q \in Seq(Event), NEW e \in Event, e \notin Told, NEW n \in Nat
    PROVE  SentIn(q \o [i \in 1..n |-> e]) = SentIn(q) /\ SentIn(Append(q, e)) = SentIn(q)
<1>1. Only(q \o [i \in 1..n |-> e], Told) = Only(q, Told)
  BY OnlyIgnoresCopies
<1>2. Only(Append(q, e), Told) = Only(q, Told)
  <2>1. Append(q, e) = q \o <<e>> /\ <<e>> \in Seq(Event)
    OBVIOUS
  <2>2. Only(q \o <<e>>, Told) = Only(q, Told) \o Only(<<e>>, Told)
    BY <2>1, OnlyOfConcat
  <2>3. Only(<<e>>, Told) = <<>> /\ Only(q, Told) \in Seq(Event \cap Told)
    BY OnlyOfOne, OnlyIsSeq
  <2> QED  BY <2>1, <2>2, <2>3
<1> QED  BY <1>1, <1>2 DEF SentIn

\* The next closure goes; if it is a snapshot, so does the next view.
LEMMA SentOfTail ==
    ASSUME NEW q \in Seq(Event), q # <<>>
    PROVE  /\ Head(q) \notin Told => SentIn(Tail(q)) = SentIn(q)
           /\ Head(q) \in Told => /\ SentIn(q) # <<>> /\ Head(SentIn(q)) = Head(q).docs
                                  /\ SentIn(Tail(q)) = Tail(SentIn(q))
<1> DEFINE rest == Only(Tail(q), Told)
           x == Head(q)
<1>0. Tail(q) \in Seq(Event) /\ x \in Event
  BY HeadTailProperties
<1>1. rest \in Seq(Told)
  BY <1>0, OnlyTold
<1>2. Only(q, Told) = (IF x \in Told THEN <<x>> ELSE <<>>) \o rest
  BY OnlyOfTail
<1>3. SentIn(Tail(q)) = DocsOf(rest) /\ SentIn(q) = DocsOf(Only(q, Told))
  BY DEF SentIn
<1> HIDE DEF rest, x
<1>4. CASE x \notin Told
  <2>1. Only(q, Told) = rest
    BY <1>1, <1>2, <1>4, ConcatEmptySeq
  <2> QED  BY <1>3, <1>4, <2>1 DEF x
<1>5. CASE x \in Told
  <2>1. SentIn(q) = DocsOf(<<x>> \o rest) /\ <<x>> \in Seq(Told)
    BY <1>2, <1>3, <1>5
  <2>2. x.docs \in View
    BY <1>5 DEF Told
  <2>3. DocsOf(<<x>>) = <<x.docs>>
    BY DEF DocsOf
  <2>4. SentIn(q) = <<x.docs>> \o DocsOf(rest) /\ DocsOf(rest) \in Seq(View)
    BY <1>1, <2>1, <2>3, DocsOfConcat, DocsOfSnapshots
  <2>5. \A t \in Seq(View) : <<x.docs>> \o t # <<>> /\ Head(<<x.docs>> \o t) = x.docs /\ Tail(<<x.docs>> \o t) = t
    <3> SUFFICES ASSUME NEW t \in Seq(View)
                 PROVE  <<x.docs>> \o t # <<>> /\ Head(<<x.docs>> \o t) = x.docs /\ Tail(<<x.docs>> \o t) = t
      OBVIOUS
    <3>0. PICK k \in Nat : Len(t) = k
      BY LenProperties
    <3>1. <<x.docs>> \in Seq(View) /\ Len(<<x.docs>>) = 1 /\ <<x.docs>>[1] = x.docs
      BY <2>2
    <3>2. /\ <<x.docs>> \o t \in Seq(View) /\ Len(<<x.docs>> \o t) = 1 + k
          /\ \A i \in 1..1 + k : (<<x.docs>> \o t)[i] = IF i <= 1 THEN <<x.docs>>[i] ELSE t[i - 1]
      BY <3>0, <3>1, ConcatProperties
    <3>3. <<x.docs>> \o t # <<>>
      BY <3>2, EmptySeq
    <3>4. /\ Tail(<<x.docs>> \o t) \in Seq(View) /\ Len(Tail(<<x.docs>> \o t)) = k
          /\ \A i \in 1..k : Tail(<<x.docs>> \o t)[i] = (<<x.docs>> \o t)[i + 1]
      BY <3>2, <3>3, HeadTailProperties
    <3>5. \A i \in 1..k : (<<x.docs>> \o t)[i + 1] = t[i]
      BY <3>2
    <3>6. Tail(<<x.docs>> \o t) = t
      BY <3>0, <3>4, <3>5, SeqEqual
    <3>7. Head(<<x.docs>> \o t) = (<<x.docs>> \o t)[1] /\ (<<x.docs>> \o t)[1] = x.docs
      BY <3>1, <3>2, <3>3
    <3> QED  BY <3>3, <3>6, <3>7
  <2> QED  BY <1>3, <1>5, <2>4, <2>5 DEF x
<1> QED  BY <1>4, <1>5 DEF x

\* What the steps rest on: types, and the number of listeners there may be.
LEMMA MirrorTypes ==
    ASSUME CountFacts
    PROVE  /\ TypeOK /\ PipelineOK
           /\ mainQ \in Seq(Event) /\ batches \in Seq(Mutation) /\ remote \in Versions
           /\ raised \in Nat /\ waiting \in 0..(MaxWrites + 1) /\ CurrentView \in View
           /\ originalRemindersArr \in View /\ 1 \in 0..(MaxWrites + 1) /\ Sent = SentIn(mainQ)
<1>1. /\ TypeOK /\ PipelineOK /\ ListenersCounted /\ MaxWrites \in Nat
      /\ mainQ \in Seq(Event) /\ batches \in Seq(Mutation) /\ remote \in Versions
      /\ raised \in Nat /\ waiting \in Nat /\ originalRemindersArr \in View /\ writes \in Nat
  BY MaxWritesAssumption DEF CountFacts, TypeOK, ClientTypeOK
<1>2. PICK p \in Nat : Pending("delete") = p
  <2>1. PICK a \in Nat : AnswersIn("delete", mainQ) = a
    BY <1>1, OnlyIsSeq, LenProperties DEF AnswersIn
  <2>2. PICK b \in Nat : CallsIn("delete", batches) = b
    BY <1>1, OnlyIsSeq, LenProperties DEF CallsIn
  <2> QED  BY <2>1, <2>2 DEF Pending, AnswersIn, CallsIn
<1>3. waiting \in 0..(MaxWrites + 1) /\ 1 \in 0..(MaxWrites + 1)
  BY <1>1, <1>2 DEF ListenersCounted
<1>4. CurrentView \in View
  BY <1>1, LocalViewType DEF CurrentView
<1> QED  BY <1>1, <1>3, <1>4 DEF Sent, SentIn

\* Telling the listeners of a view is a change of it.
LEMMA EmitIsChange ==
    ASSUME CountFacts, NEW q \in Seq(Event), SentIn(q) = Sent, NEW v \in View, NEW current, NEW state,
           EmitSnapshots(q, v, current, state), CurrentView' = v, UNCHANGED originalRemindersArr
    PROVE  Mirror!MirrorNext
<1> DEFINE fresh == IF RaisesInitial(v, current, state) THEN waiting ELSE 0
           n     == (IF v # CurrentView THEN raised ELSE 0) + fresh
<1>1. raised \in Nat /\ waiting \in 0..(MaxWrites + 1) /\ MaxWrites \in Nat
  BY MirrorTypes, MaxWritesAssumption
<1>2. fresh \in 0..(MaxWrites + 1) /\ n \in Nat
  BY <1>1
<1>3. mainQ' = q \o [i \in 1..n |-> Snapshot(v)] /\ raised' = raised + fresh
  BY Zenon DEF EmitSnapshots
<1>4. n = (IF v # CurrentView THEN raised ELSE 0) + fresh
  OBVIOUS
<1> HIDE DEF fresh, n
<1>5. Sent' = Sent \o Mirror!Copies(n, v)
  <2>1. Sent' = SentIn(mainQ')
    BY DEF Sent, SentIn
  <2>2. SentIn(mainQ') = SentIn(q) \o Mirror!Copies(n, v)
    BY <1>2, <1>3, SentOfConcat
  <2> QED  BY <2>1, <2>2
<1>6. Mirror!Change(v, fresh)
  BY <1>3, <1>4, <1>5 DEF Mirror!Change
<1> QED  BY <1>2, <1>6 DEF Mirror!MirrorNext

\* A new listener that may be told at once is a change to the view there is.
LEMMA ListenIsChange ==
    ASSUME CountFacts, NEW q \in Seq(Event), SentIn(q) = Sent, AddSnapshotListener(q),
           UNCHANGED originalRemindersArr
    PROVE  Mirror!MirrorNext \/ UNCHANGED Mirror!mirrorVars
<1> DEFINE v == CurrentView
<1>1. v \in View /\ 1 \in 0..(MaxWrites + 1) /\ raised \in Nat
  BY MirrorTypes
<1>2. CurrentView' = v
  BY DEF AddSnapshotListener, storeVars, CurrentView
<1>3. \/ mainQ' = Append(q, Snapshot(v)) /\ raised' = raised + 1
      \/ mainQ' = q /\ raised' = raised
  BY DEF AddSnapshotListener
<1>4. CASE mainQ' = Append(q, Snapshot(v)) /\ raised' = raised + 1
  <2>1. mainQ' = q \o [i \in 1..1 |-> Snapshot(v)]
    <3>1. Snapshot(v) \in Event
      BY <1>1 DEF Snapshot, Event
    <3> HIDE DEF v
    <3> QED  BY <1>4, <3>1
  <2>2. SentIn(mainQ') = SentIn(q) \o Mirror!Copies(1, v)
    <3> HIDE DEF v
    <3> QED  BY <1>1, <2>1, SentOfConcat
  <2>3. Sent' = Sent \o Mirror!Copies((IF v # CurrentView THEN raised ELSE 0) + 1, v)
    BY <2>2 DEF Sent, SentIn
  <2>4. Mirror!Change(v, 1)
    BY <1>2, <1>4, <2>3 DEF Mirror!Change
  <2> QED  BY <1>1, <2>4 DEF Mirror!MirrorNext
<1>5. CASE mainQ' = q /\ raised' = raised
  BY <1>2, <1>5 DEF Mirror!mirrorVars, Sent, SentIn
<1> QED  BY <1>3, <1>4, <1>5

\* A step that leaves view, listeners and what was sent alone is none of the
\* mirror's.
LEMMA ElsewhereIsStutter ==
    ASSUME UNCHANGED <<remote, batches, raised, originalRemindersArr>>, SentIn(mainQ') = SentIn(mainQ)
    PROVE  UNCHANGED Mirror!mirrorVars
  BY DEF Mirror!mirrorVars, Sent, SentIn, CurrentView

\* The answer a caller gets is no snapshot.
LEMMA NotifySent ==
    ASSUME CountFacts, replies # <<>>, NEW ok \in BOOLEAN
    PROVE  NotifyUser(ok) \in Seq(Event) /\ SentIn(NotifyUser(ok)) = Sent
<1>1. NotifyUser(ok) \in Seq(Event) /\ Head(batches) \in Mutation
  BY MirrorTypes, HeadBatch
<1> DEFINE e == Written(Head(batches), ok)
<1>2. e \in Event /\ e \notin Told
  BY <1>1 DEF Written, Event, Told
<1>3. NotifyUser(ok) = IF Head(batches).callback THEN Append(mainQ, e) ELSE mainQ
  BY DEF NotifyUser
<1> HIDE DEF e
<1>4. 0 \in Nat /\ mainQ \in Seq(Event) /\ Sent = SentIn(mainQ)
  BY MirrorTypes
<1>5. SentIn(Append(mainQ, e)) = SentIn(mainQ)
  BY <1>2, <1>4, SentOfOther
<1> QED  BY <1>1, <1>3, <1>4, <1>5

\* The view does not depend on who is called back.
LEMMA CallbacksUnseen ==
    ASSUME CountFacts, RestartClient
    PROVE  CurrentView' = CurrentView
<1>1. batches \in Seq(Mutation) /\ remote' = remote
  BY MirrorTypes DEF RestartClient
<1>2. batches' = [i \in DOMAIN batches |-> [batches[i] EXCEPT !.callback = FALSE]]
  BY Zenon DEF RestartClient
<1>3. DOMAIN batches' = DOMAIN batches
  BY <1>2
<1>4. \A i \in DOMAIN batches : batches[i] \in Mutation
  BY <1>1, ElementOfSeq, LenProperties
<1>5. \A i \in DOMAIN batches : /\ batches'[i].doc = batches[i].doc /\ batches'[i].op = batches[i].op
                                /\ batches'[i].content = batches[i].content
  BY <1>2, <1>4 DEF Mutation
<1>6. ASSUME NEW d \in Reminders PROVE LocalDoc(remote, batches', d) = LocalDoc(remote, batches, d)
  <2> DEFINE blind(b)   == {i \in DOMAIN b : b[i].doc = d /\ b[i].op # "update"}
             patches(b) == {i \in DOMAIN b : /\ b[i].doc = d /\ b[i].op = "update"
                                             /\ \A j \in blind(b) : j < i}
             base(b)    == IF HasNewest(blind(b)) THEN b[Newest(blind(b))].content ELSE remote[d].content
  <2>1. blind(batches') = blind(batches) /\ blind(batches) \subseteq DOMAIN batches
    BY <1>3, <1>5
  <2>2. patches(batches') = patches(batches) /\ patches(batches) \subseteq DOMAIN batches
    <3> HIDE DEF blind
    <3> QED  BY <1>3, <1>5, <2>1
  <2> HIDE DEF blind, patches
  <2>3. \A S : HasNewest(S) => Newest(S) \in S
    BY DEF HasNewest, Newest
  <2>4. base(batches') = base(batches)
    BY <1>5, <2>1, <2>3
  <2> HIDE DEF base
  <2>5. (IF base(batches') # NoContent /\ HasNewest(patches(batches'))
         THEN batches'[Newest(patches(batches'))].content ELSE base(batches'))
        = IF base(batches) # NoContent /\ HasNewest(patches(batches))
          THEN batches[Newest(patches(batches))].content ELSE base(batches)
    BY <1>5, <2>2, <2>3, <2>4
  <2> QED  BY <2>5 DEF LocalDoc, base, patches, blind
<1> QED  BY <1>1, <1>6 DEF CurrentView, LocalView

\* What the main queue runs moves the mirror's inbox, if anything.
LEMMA ClosureIsMirrorStep ==
    ASSUME CountFacts, MainQueue
    PROVE  Mirror!MirrorNext \/ UNCHANGED Mirror!mirrorVars
<1>0. TypeOK /\ mainQ \in Seq(Event) /\ Sent = SentIn(mainQ)
  BY MirrorTypes
<1>1. mainQ # <<>>
  BY DEF MainQueue, SnapshotReceived, ListenFailed, DeleteCompleted, SaveCompleted, Turn
<1>2. /\ Head(mainQ) \in Event /\ Tail(mainQ) \in Seq(Event)
      /\ Head(mainQ) \notin Told => SentIn(Tail(mainQ)) = SentIn(mainQ)
      /\ Head(mainQ) \in Told => /\ Sent # <<>> /\ Head(Sent) = Head(mainQ).docs
                                 /\ SentIn(Tail(mainQ)) = Tail(Sent)
  BY <1>0, <1>1, SentOfTail, HeadTailProperties
<1>3. Head(mainQ) \in Told <=> Head(mainQ).kind = "snapshot"
  BY <1>2 DEF Event, Told
<1>4. Sent' = SentIn(mainQ')
  BY DEF Sent, SentIn
<1>5. ASSUME Dequeue PROVE mainQ' = Tail(mainQ) /\ CurrentView' = CurrentView /\ raised' = raised
  BY <1>5 DEF Dequeue, storeVars, CurrentView
<1>6. ASSUME Dequeue, Head(mainQ).kind # "snapshot", UNCHANGED originalRemindersArr
      PROVE  UNCHANGED Mirror!mirrorVars
  BY <1>0, <1>2, <1>3, <1>4, <1>5, <1>6 DEF Mirror!mirrorVars
<1>7. CASE SnapshotReceived
  <2>1. Dequeue /\ Head(mainQ).kind = "snapshot" /\ originalRemindersArr' = Head(mainQ).docs
    BY <1>7 DEF SnapshotReceived, Turn
  <2>2. Mirror!Take
    BY <1>2, <1>3, <1>4, <1>5, <2>1 DEF Mirror!Take
  <2> QED  BY <2>2 DEF Mirror!MirrorNext
<1>8. CASE ListenFailed \/ SaveCompleted
  <2>1. Dequeue /\ Head(mainQ).kind # "snapshot" /\ UNCHANGED originalRemindersArr
    BY <1>8 DEF ListenFailed, SaveCompleted, Turn, homeVars, listVars
  <2> QED  BY <1>6, <2>1
<1>9. CASE DeleteCompleted
  <2>1. /\ Head(mainQ).kind # "snapshot" /\ UNCHANGED originalRemindersArr
        /\ Dequeue \/ AddSnapshotListener(Tail(mainQ))
    BY <1>9 DEF DeleteCompleted, Turn, listVars
  <2>2. CASE Dequeue
    BY <1>6, <2>1, <2>2
  <2>3. CASE AddSnapshotListener(Tail(mainQ))
    BY <1>0, <1>2, <1>3, <2>1, <2>3, ListenIsChange
  <2> QED  BY <2>1, <2>2, <2>3
<1> QED  BY <1>7, <1>8, <1>9 DEF MainQueue

\* What the client's worker does to the view, it tells.
LEMMA ClientIsMirrorStep ==
    ASSUME CountFacts, ClientNext, UNCHANGED homeVars
    PROVE  Mirror!MirrorNext \/ UNCHANGED Mirror!mirrorVars
<1>0. /\ TypeOK /\ PipelineOK /\ mainQ \in Seq(Event) /\ Sent = SentIn(mainQ) /\ CurrentView \in View
      /\ batches \in Seq(Mutation)
      /\ raised \in Nat /\ waiting \in Nat /\ UNCHANGED originalRemindersArr
  BY MirrorTypes DEF homeVars, listVars, TypeOK, ClientTypeOK
<1>1. CASE ServerCommit \/ OtherDevice \/ WatchSend \/ WriteStreamClosed
  <2>1. UNCHANGED <<remote, batches, raised, mainQ>>
    BY <1>1 DEF ServerCommit, OtherDevice, WatchSend, WriteStreamClosed, storeVars, eventVars
  <2>2. SentIn(mainQ') = SentIn(mainQ)
    BY <2>1
  <2> QED  BY <1>0, <2>1, <2>2, ElsewhereIsStutter
<1>2. CASE ApplyRemoteEvent
  <2>1. EmitSnapshots(mainQ, LocalView(remote', batches), TRUE, "Online") /\ batches' = batches
    BY <1>2 DEF ApplyRemoteEvent
  <2>2. remote' \in Versions
    BY <1>0, <1>2, ClientTypes DEF ClientNext, ClientTypeOK
  <2>3. LocalView(remote', batches) \in View /\ CurrentView' = LocalView(remote', batches)
    BY <1>0, <2>1, <2>2, LocalViewType DEF CurrentView
  <2> QED  BY <1>0, <2>1, <2>3, EmitIsChange
<1>3. CASE HandleSuccessfulWrite
  <2>1. /\ replies # <<>>
        /\ EmitSnapshots(NotifyUser(TRUE), LocalView(remote', batches'), synced, online)
    BY <1>3 DEF HandleSuccessfulWrite
  <2>2. LocalView(remote', batches') \in View /\ CurrentView' = LocalView(remote', batches')
    BY <1>0, <1>3, SuccessfulWriteTypes DEF CurrentView
  <2>3. NotifyUser(TRUE) \in Seq(Event) /\ SentIn(NotifyUser(TRUE)) = Sent
    BY <2>1, NotifySent
  <2> QED  BY <1>0, <2>1, <2>2, <2>3, EmitIsChange
<1>4. CASE HandleRejectedWrite
  <2>1. /\ replies # <<>> /\ remote' = remote
        /\ EmitSnapshots(NotifyUser(FALSE), LocalView(remote, batches'), synced, online)
    BY <1>4 DEF HandleRejectedWrite
  <2>2. LocalView(remote, batches') \in View /\ CurrentView' = LocalView(remote, batches')
    BY <1>0, <1>4, <2>1, RejectedWriteTypes DEF CurrentView
  <2>3. NotifyUser(FALSE) \in Seq(Event) /\ SentIn(NotifyUser(FALSE)) = Sent
    BY <2>1, NotifySent
  <2> QED  BY <1>0, <2>1, <2>2, <2>3, EmitIsChange
<1>5. CASE HandleRejectedListen
  <2>1. /\ mainQ' = mainQ \o [i \in 1..(raised + waiting) |-> Failure] /\ raised' = 0
        /\ CurrentView' = CurrentView
    BY <1>5 DEF HandleRejectedListen, storeVars, CurrentView
  <2>2. Failure \in Event /\ Failure \notin Told /\ raised + waiting \in Nat
    BY <1>0 DEF Failure, Event, Told
  <2>3. SentIn(mainQ') = SentIn(mainQ)
    BY <1>0, <2>1, <2>2, SentOfOther
  <2>4. Mirror!Refused
    BY <1>0, <2>1, <2>3 DEF Mirror!Refused, Sent, SentIn
  <2> QED  BY <2>4 DEF Mirror!MirrorNext
<1>6. CASE WatchStreamClosed \/ OnlineStateTimeout
  <2>1. PICK state \in OnlineStates : HandleOnlineStateChange(state)
    BY <1>6 DEF WatchStreamClosed, OnlineStateTimeout, OnlineStates
  <2>2. EmitSnapshots(mainQ, CurrentView, synced /\ state # "Offline", state)
    BY <2>1 DEF HandleOnlineStateChange
  <2>3. UNCHANGED <<remote, batches>>
    BY <1>6, Zenon DEF WatchStreamClosed, OnlineStateTimeout, storeVars
  <2>4. CurrentView' = CurrentView
    BY <2>3 DEF CurrentView
  <2> QED  BY <1>0, <2>2, <2>4, EmitIsChange
<1> QED  BY <1>1, <1>2, <1>3, <1>4, <1>5, <1>6 DEF ClientNext

\* A gesture changes the view only as a write, which is told like any change.
LEMMA UserIsMirrorStep ==
    ASSUME CountFacts, User
    PROVE  Mirror!MirrorNext \/ UNCHANGED Mirror!mirrorVars
<1>0. /\ TypeOK /\ mainQ \in Seq(Event) /\ Sent = SentIn(mainQ)
      /\ remote \in Versions /\ batches \in Seq(Mutation)
  BY MirrorTypes
<1>1. ASSUME UNCHANGED <<clientVars, originalRemindersArr>> PROVE UNCHANGED Mirror!mirrorVars
  <2>1. UNCHANGED <<remote, batches, raised, mainQ>>
    BY <1>1 DEF clientVars, storeVars, eventVars
  <2>2. SentIn(mainQ') = SentIn(mainQ)
    BY <2>1
  <2> QED  BY <1>1, <2>1, <2>2, ElsewhereIsStutter
<1>2. ASSUME NEW m \in Mutation, WriteMutations(m), UNCHANGED originalRemindersArr
      PROVE  Mirror!MirrorNext
  <2>1. /\ batches' = Append(batches, m) /\ remote' = remote
        /\ EmitSnapshots(mainQ, LocalView(remote, batches'), synced, online)
    BY <1>2 DEF WriteMutations
  <2>2. LocalView(remote, batches') \in View /\ CurrentView' = LocalView(remote, batches')
    BY <1>0, <1>2, <2>1, AppendProperties, LocalViewType DEF CurrentView
  <2> QED  BY <1>0, <1>2, <2>1, <2>2, EmitIsChange
<1>3. ASSUME NEW t \in Texts \cup {NoText}, TextDidChange(t) PROVE UNCHANGED Mirror!mirrorVars
  BY <1>1, <1>3 DEF TextDidChange
<1>4. ASSUME NEW d \in Reminders, DeleteAction(d) PROVE Mirror!MirrorNext
  <2>1. [op |-> "delete", doc |-> d, content |-> NoContent, callback |-> TRUE] \in Mutation
    BY CallKinds DEF Maybe
  <2> QED  BY <1>2, <1>4, <2>1 DEF DeleteAction
<1>5. ASSUME NEW d \in Reminders, DidSelectRow(d) PROVE UNCHANGED Mirror!mirrorVars
  BY <1>1, <1>5 DEF DidSelectRow, listVars
<1>6. ASSUME NEW d \in Reminders, NEW c \in Contents, AddReminder(d, c) PROVE Mirror!MirrorNext
  <2>1. [op |-> "set", doc |-> d, content |-> c, callback |-> TRUE] \in Mutation
    BY CallKinds DEF Maybe
  <2> QED  BY <1>2, <1>6, <2>1 DEF AddReminder, listVars
<1>7. ASSUME NEW c \in Contents, UpdateReminder(c) PROVE Mirror!MirrorNext
  <2>1. selected \in Reminders
    BY <1>0, <1>7 DEF UpdateReminder, OnHome, TypeOK
  <2>2. [op |-> "update", doc |-> selected, content |-> c, callback |-> TRUE] \in Mutation
    BY <2>1, CallKinds DEF Maybe
  <2> QED  BY <1>2, <1>7, <2>2 DEF UpdateReminder, listVars
<1>8. CASE CloseEdit
  BY <1>1, <1>8 DEF CloseEdit, listVars
<1> QED  BY <1>3, <1>4, <1>5, <1>6, <1>7, <1>8 DEF User

\* A new process has been sent the view, or is not listened to yet.
LEMMA RestartIsLaunch ==
    ASSUME CountFacts, Restart
    PROVE  Mirror!MirrorNext
<1> DEFINE v == LocalView(remote, batches')
<1>1. RestartClient /\ originalRemindersArr' = NoDocuments
  BY DEF Restart
<1>2. CurrentView' = CurrentView /\ CurrentView' = v /\ CurrentView \in View
  BY <1>1, CallbacksUnseen, MirrorTypes DEF RestartClient, CurrentView
<1>3. \/ mainQ' = <<Snapshot(v)>> /\ raised' = 1
      \/ mainQ' = <<>> /\ raised' = 0
  BY <1>1, Zenon DEF RestartClient
<1> HIDE DEF v
<1>4. Sent' = DocsOf(Only(mainQ', Told))
  BY DEF Sent
<1>5. CASE mainQ' = <<Snapshot(v)>> /\ raised' = 1
  <2>1. Snapshot(v) \in Told /\ Snapshot(v).docs = v
    BY <1>2 DEF Snapshot, Told
  <2>2. Sent' = DocsOf(<<Snapshot(v)>>)
    BY <1>4, <1>5, <2>1, OnlyOfOne
  <2>3. DocsOf(<<Snapshot(v)>>) = <<v>>
    BY <2>1 DEF DocsOf
  <2>4. Mirror!Copies(1, CurrentView) = <<v>>
    BY <1>2 DEF Mirror!Copies
  <2>5. Mirror!Launch
    BY <1>1, <1>2, <1>5, <2>2, <2>3, <2>4 DEF Mirror!Launch
  <2> QED  BY <2>5 DEF Mirror!MirrorNext
<1>6. CASE mainQ' = <<>> /\ raised' = 0
  <2>1. Sent' = DocsOf(<<>>)
    BY <1>4, <1>6, OnlyOfEmpty
  <2>2. DocsOf(<<>>) = <<>>
    BY DEF DocsOf
  <2>3. Mirror!Copies(0, CurrentView) = <<>>
    BY DEF Mirror!Copies
  <2>4. Mirror!Launch
    BY <1>1, <1>2, <1>6, <2>1, <2>2, <2>3 DEF Mirror!Launch
  <2> QED  BY <2>4 DEF Mirror!MirrorNext
<1> QED  BY <1>3, <1>5, <1>6

\* At the first launch there is nothing to see, and nothing was sent.
LEMMA InitIsMirrorInit == Init => Mirror!MirrorInit
<1> SUFFICES ASSUME Init PROVE Mirror!MirrorInit
  OBVIOUS
<1>1. CurrentView \in View
  BY InitCount, MirrorTypes
<1>2. mainQ = <<>> /\ raised = 0 /\ originalRemindersArr = NoDocuments
  BY DEF Init, ClientInit
<1>3. Sent = <<>>
  <2>1. DocsOf(<<>>) = <<>>
    BY DEF DocsOf
  <2> QED  BY <1>2, <2>1, OnlyOfEmpty DEF Sent
<1> QED  BY <1>1, <1>2, <1>3 DEF Mirror!MirrorInit

\* Home with its client is a lagging mirror: every step of the user, the main
\* queue, the client, the server, a fault or a new process is a step of
\* LaggingMirror, or leaves it alone.
THEOREM HomeIsMirror == Spec => ImplementsMirror
<1>1. CountFacts /\ [Next]_vars => [Mirror!MirrorNext]_(Mirror!mirrorVars)
  <2> SUFFICES ASSUME CountFacts, [Next]_vars
               PROVE  Mirror!MirrorNext \/ UNCHANGED Mirror!mirrorVars
    OBVIOUS
  <2>1. CASE UNCHANGED vars
    <3>1. UNCHANGED <<remote, batches, raised, mainQ, originalRemindersArr>>
      BY <2>1 DEF vars, clientVars, storeVars, eventVars, homeVars, listVars
    <3>2. SentIn(mainQ') = SentIn(mainQ)
      BY <3>1
    <3> QED  BY <3>1, <3>2, ElsewhereIsStutter
  <2> QED  BY <2>1, UserIsMirrorStep, ClosureIsMirrorStep, RestartIsLaunch, ClientIsMirrorStep DEF Next
<1> QED  BY <1>1, InitIsMirrorInit, InitCount, CountStep, PTL DEF Spec, ImplementsMirror, Mirror!MirrorSpec
=============================================================================
