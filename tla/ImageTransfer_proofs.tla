------------------------ MODULE ImageTransfer_proofs ------------------------
(***************************************************************************)
(* For every number of images, presses and peers: the dispatch group       *)
(* counts what is unfinished, and answers each press as DownloadBatches    *)
(* asks for it, once and after the press's own downloads; and a peer that  *)
(* is sent the images has each in its own place.                           *)
(***************************************************************************)
EXTENDS ImageTransfer, Selections_proofs, FiniteSetTheorems, TLAPS

Notices == registered \cup due

\* What the group's variables promise one another: downloads belong to presses
\* made, a press has at most one notification, and one that is due has nothing
\* left to wait for.
GroupInv ==
    /\ pressed \in 0..MaxPresses
    /\ scheduled \subseteq (1..pressed) \X Slots
    /\ running \subseteq (1..pressed) \X Slots
    /\ scheduled \cap running = {}
    /\ IsFiniteSet(Unfinished)
    /\ registered \subseteq Notice /\ due \subseteq Notice
    /\ \A n \in Notices : n.press <= pressed
    /\ \A n, o \in Notices : n.press = o.press => n = o
    /\ registered \cap due = {}
    /\ \A n \in due, i \in Slots : <<n.press, i>> \notin Unfinished
    /\ GroupBalanced

\* Nothing has been asked for at first.
LEMMA InitGroup == Init => GroupInv
<1> SUFFICES ASSUME Init PROVE GroupInv
  OBVIOUS
<1>1. Unfinished = {} /\ Notices = {}
  BY DEF Init, Unfinished, Notices
<1>2. IsFiniteSet(Unfinished) /\ Cardinality(Unfinished) = 0
  BY <1>1, FS_EmptySet
<1>. QED
  BY <1>1, <1>2, MaxPressesAssumption DEF Init, GroupInv, GroupBalanced

\* A press enters as many downloads as it adds to the unfinished ones.
LEMMA AskKeeps ==
    ASSUME GroupInv, NEW kind \in {"download", "transfer"}, Ask(kind)
    PROVE  GroupInv'
<1> DEFINE p    == pressed + 1
           mine == {p} \X Slots
           note == [press |-> p, kind |-> kind]
<1>1. /\ pressed \in Nat /\ p \in 1..MaxPresses /\ pressed' = p
      /\ scheduled' = scheduled \cup mine /\ running' = running
      /\ registered' = registered \cup {note} /\ due' = due /\ count' = count + SlotCount
  BY MaxPressesAssumption DEF GroupInv, Ask
<1>2. Unfinished' = Unfinished \cup mine
  BY <1>1 DEF Unfinished
<1>3. mine \cap Unfinished = {} /\ mine \subseteq (1..p) \X Slots
  BY <1>1 DEF GroupInv, Unfinished
<1>4. IsFiniteSet(mine) /\ Cardinality(mine) = SlotCount
  <2>1. IsFiniteSet(Slots) /\ Cardinality(Slots) = SlotCount
    BY SlotCountAssumption, FS_Interval DEF Slots
  <2>2. IsFiniteSet({p}) /\ Cardinality({p}) = 1
    BY FS_Singleton
  <2>. QED
    BY <2>1, <2>2, SlotCountAssumption, FS_Product
<1> HIDE DEF mine
<1>5. /\ IsFiniteSet(Unfinished')
      /\ Cardinality(Unfinished') = Cardinality(Unfinished) + SlotCount
      /\ Cardinality(Unfinished) \in Nat
  <2>1. Cardinality(Unfinished \cap mine) = 0
    BY <1>3, FS_EmptySet
  <2>2. Cardinality(Unfinished) \in Nat /\ IsFiniteSet(Unfinished)
    BY FS_CardinalityType DEF GroupInv
  <2>3. /\ IsFiniteSet(Unfinished \cup mine)
        /\ Cardinality(Unfinished \cup mine)
             = Cardinality(Unfinished) + Cardinality(mine) - Cardinality(Unfinished \cap mine)
    BY <1>4, <2>2, FS_Union
  <2>. QED
    BY <1>2, <1>4, <2>1, <2>2, <2>3, SlotCountAssumption
<1>6. GroupBalanced'
  BY <1>1, <1>5, SlotCountAssumption DEF GroupInv, GroupBalanced
<1>7. note \in Notice /\ note.press = p /\ Notices' = Notices \cup {note} /\ note \notin due
  BY <1>1 DEF Notice, Presses, Notices, GroupInv
<1> HIDE DEF note
<1>8. /\ scheduled' \subseteq (1..pressed') \X Slots
      /\ running' \subseteq (1..pressed') \X Slots
      /\ scheduled' \cap running' = {}
  <2>1. (1..pressed) \X Slots \subseteq (1..p) \X Slots
    BY <1>1
  <2>2. mine \cap running = {}
    BY <1>3 DEF Unfinished
  <2>. QED
    BY <1>1, <1>3, <2>1, <2>2 DEF GroupInv
<1>9. /\ \A n \in Notices' : n.press <= pressed'
      /\ \A n, o \in Notices' : n.press = o.press => n = o
  <2>1. \A n \in Notices : n.press \in Nat /\ n.press <= pressed
    BY DEF GroupInv, Notices, Notice, Presses
  <2>. QED
    BY <1>1, <1>7, <2>1 DEF GroupInv
<1>10. \A n \in due', i \in Slots : <<n.press, i>> \notin Unfinished'
  <2>1. \A n \in due : n.press \in Nat /\ n.press <= pressed
    BY DEF GroupInv, Notices, Notice, Presses
  <2>2. \A n \in due, i \in Slots : <<n.press, i>> \notin mine
    BY <1>1, <2>1 DEF mine
  <2>. QED
    BY <1>1, <1>2, <2>2 DEF GroupInv
<1>11. registered' \subseteq Notice /\ due' \subseteq Notice /\ registered' \cap due' = {}
  BY <1>1, <1>7 DEF GroupInv
<1>. QED
  BY <1>1, <1>5, <1>6, <1>8, <1>9, <1>10, <1>11 DEF GroupInv

\* A timer that fires moves a download, no more.
LEMMA StartKeeps ==
    ASSUME GroupInv, NEW d \in Download, StartDownload(d)
    PROVE  GroupInv' /\ Unfinished' = Unfinished
<1>1. Unfinished' = Unfinished
  BY DEF StartDownload, Unfinished
<1>. QED
  BY <1>1 DEF StartDownload, GroupInv, GroupBalanced, Notices

\* The end of a download takes one from both sides of the balance; the
\* notifications become due with the last.
LEMMA EndKeeps ==
    ASSUME GroupInv, NEW d \in Download, DownloadEnded(d)
    PROVE  /\ GroupInv' /\ Notices' = Notices
           /\ d \in Unfinished /\ Unfinished' = Unfinished \ {d}
<1>1. /\ d \in running /\ running' = running \ {d} /\ UNCHANGED <<pressed, scheduled>>
      /\ count' = count - 1
      /\ due' = IF count = 1 THEN due \cup registered ELSE due
      /\ registered' = IF count = 1 THEN {} ELSE registered
  BY DEF DownloadEnded, Leave
<1>2. d \in Unfinished /\ Unfinished' = Unfinished \ {d}
  BY <1>1 DEF GroupInv, Unfinished
<1>3. /\ IsFiniteSet(Unfinished') /\ Cardinality(Unfinished') = Cardinality(Unfinished) - 1
      /\ Cardinality(Unfinished) \in Nat
  BY <1>2, FS_RemoveElement, FS_CardinalityType DEF GroupInv
<1>4. GroupBalanced'
  BY <1>1, <1>3 DEF GroupInv, GroupBalanced
<1>5. Notices' = Notices
  BY <1>1 DEF Notices
<1>6. count = 1 => Unfinished' = {}
  BY <1>3, FS_EmptySet DEF GroupInv, GroupBalanced
<1>7. \A n \in due', i \in Slots : <<n.press, i>> \notin Unfinished'
  BY <1>1, <1>2, <1>6 DEF GroupInv
<1>8. /\ scheduled' \subseteq (1..pressed') \X Slots /\ running' \subseteq (1..pressed') \X Slots
      /\ scheduled' \cap running' = {}
  BY <1>1 DEF GroupInv
<1>9. registered' \subseteq Notice /\ due' \subseteq Notice /\ registered' \cap due' = {}
  BY <1>1 DEF GroupInv
<1>. QED
  BY <1>1, <1>2, <1>3, <1>4, <1>5, <1>7, <1>8, <1>9 DEF GroupInv

\* A notification that runs is gone for good.
LEMMA NotifiedKeeps ==
    ASSUME GroupInv, NEW n \in Notice, Notified(n)
    PROVE  /\ GroupInv' /\ Notices' = Notices \ {n} /\ n \in Notices
           /\ Unfinished' = Unfinished
<1>1. /\ n \in due /\ due' = due \ {n}
      /\ UNCHANGED <<pressed, scheduled, running, count, registered>>
  BY DEF Notified
<1>2. Unfinished' = Unfinished
  BY <1>1 DEF Unfinished
<1>3. Notices' = Notices \ {n} /\ n \in Notices
  BY <1>1 DEF Notices, GroupInv
<1>. QED
  BY <1>1, <1>2, <1>3 DEF GroupInv, GroupBalanced

\* Steps of the transfer and of the session leave the group alone.
LEMMA GroupKept == GroupInv /\ UNCHANGED groupVars => GroupInv' /\ Notices' = Notices /\ Unfinished' = Unfinished
BY DEF groupVars, GroupInv, GroupBalanced, Notices, Unfinished

\* What a step may be, for the group.
LEMMA GroupSteps ==
    ASSUME [Next]_vars
    PROVE  \/ \E kind \in {"download", "transfer"} : Ask(kind)
           \/ \E d \in Download : StartDownload(d)
           \/ \E d \in Download : DownloadEnded(d)
           \/ \E n \in Notice : Notified(n)
           \/ UNCHANGED groupVars
BY DEF Next, DownloadButtonPressed, TransferButtonPressed, SendImages, SendNext, SendThrows,
       PeerJoins, PeerLeaves, Deliver, ViewSetElsewhere, Receive, vars

\* Every step keeps the invariant.
LEMMA GroupStep == GroupInv /\ [Next]_vars => GroupInv'
BY AskKeeps, StartKeeps, EndKeeps, NotifiedKeeps, GroupKept, GroupSteps

\* The dispatch group is balanced whatever order downloads end in and however
\* many presses share it.
THEOREM GroupIsBalanced == Spec => []GroupBalanced
<1>1. GroupInv => GroupBalanced
  BY DEF GroupInv
<1>. QED
  BY <1>1, InitGroup, GroupStep, PTL DEF Spec

-----------------------------------------------------------------------------
(* The abstract specification.                                             *)

remainingOf(b) == {i \in Slots : <<b, i>> \in Unfinished}
answerOf(b)    == IF b > pressed THEN "none"
                  ELSE IF \E n \in Notices : n.press = b THEN "due" ELSE "given"
Waiting        == [b \in Presses |-> remainingOf(b)]
Answers        == [b \in Presses |-> answerOf(b)]

\* At first no press has been made.
LEMMA InitBatches == Init => Batches!Init
<1> SUFFICES ASSUME Init PROVE Batches!Init
  OBVIOUS
<1>1. Unfinished = {} /\ pressed = 0
  BY DEF Init, Unfinished
<1>. QED
  BY <1>1, MaxPressesAssumption DEF Batches!Init, Batches!Presses, Presses

\* A press is the start of a batch.
LEMMA AskIsStart ==
    ASSUME GroupInv, NEW kind \in {"download", "transfer"}, Ask(kind)
    PROVE  Batches!Next
<1>0. PICK p \in Presses : pressed \in Nat /\ p = pressed + 1
  BY MaxPressesAssumption DEF GroupInv, Ask, Presses
<1> DEFINE note == [press |-> p, kind |-> kind]
<1>1. /\ pressed \in Nat /\ p \in Nat /\ p > pressed /\ p \in Presses
      /\ pressed' = p /\ \A b \in Nat : b # p /\ b <= p => b <= pressed
      /\ Unfinished' = Unfinished \cup ({p} \X Slots)
      /\ Notices' = Notices \cup {note} /\ note.press = p
  BY <1>0 DEF Ask, Unfinished, Notices, Presses
<1>2. \A n \in Notices : n.press \in Nat /\ n.press <= pressed
  BY DEF GroupInv, Notices, Notice, Presses
<1> HIDE DEF note
<1>3. answerOf(p) = "none" /\ answerOf(p)' = "due"
  BY <1>1 DEF answerOf
<1>4. \A b \in Presses : b # p => answerOf(b)' = answerOf(b)
  BY <1>1, <1>2 DEF answerOf, Presses
<1>5. remainingOf(p)' = Slots /\ \A b \in Presses : b # p => remainingOf(b)' = remainingOf(b)
  BY <1>1 DEF remainingOf
<1>6. Waiting' = [Waiting EXCEPT ![p] = Slots]
  BY <1>1, <1>5 DEF Waiting
<1>7. Answers[p] = "none" /\ Answers' = [Answers EXCEPT ![p] = "due"]
  BY <1>1, <1>3, <1>4 DEF Answers
<1>8. Batches!Start(p)
  BY <1>6, <1>7 DEF Batches!Start, Waiting, Answers, remainingOf, answerOf, Notices
<1>. QED
  BY <1>1, <1>8 DEF Batches!Next, Batches!Presses, Presses

\* The end of a download is the end of one image of its press.
LEMMA EndIsEnd ==
    ASSUME GroupInv, NEW d \in Download, DownloadEnded(d)
    PROVE  Batches!Next
<1> DEFINE b == d[1]
           i == d[2]
<1>1. b \in Presses /\ i \in Slots /\ d = <<b, i>>
  BY DEF Download
<1>2. d \in Unfinished /\ Unfinished' = Unfinished \ {d} /\ Notices' = Notices /\ pressed' = pressed
  BY EndKeeps DEF DownloadEnded
<1> HIDE DEF b, i
<1>3. i \in remainingOf(b) /\ remainingOf(b)' = remainingOf(b) \ {i}
  BY <1>1, <1>2 DEF remainingOf
<1>4. \A c \in Presses : c # b => remainingOf(c)' = remainingOf(c)
  BY <1>1, <1>2 DEF remainingOf
<1>5. Waiting' = [Waiting EXCEPT ![b] = @ \ {i}] /\ i \in Waiting[b]
  BY <1>1, <1>3, <1>4 DEF Waiting
<1>6. Answers' = Answers
  BY <1>2 DEF Answers, answerOf
<1>7. Batches!End(b, i)
  BY <1>5, <1>6 DEF Batches!End, Waiting, Answers, remainingOf, answerOf, Notices
<1>. QED
  BY <1>1, <1>7 DEF Batches!Next, Batches!Presses, Presses

\* A notification that runs is the answer to its press.
LEMMA NotifiedIsAnswer ==
    ASSUME GroupInv, NEW n \in Notice, Notified(n)
    PROVE  Batches!Next
<1> DEFINE b == n.press
<1>1. b \in Presses /\ b <= pressed /\ n \in Notices /\ n \in due /\ pressed \in Nat
  BY NotifiedKeeps, MaxPressesAssumption DEF Notice, GroupInv, Notified
<1>2. Unfinished' = Unfinished /\ Notices' = Notices \ {n} /\ pressed' = pressed
  BY NotifiedKeeps DEF Notified
<1>3. \A o \in Notices : o.press = b => o = n
  BY <1>1 DEF GroupInv
<1> HIDE DEF b
<1>4. answerOf(b) = "due" /\ answerOf(b)' = "given"
  <2>1. b \in Nat /\ ~(b > pressed)
    BY <1>1 DEF Presses
  <2>. QED
    BY <1>1, <1>2, <1>3, <2>1 DEF answerOf, b
<1>5. \A c \in Presses : c # b => answerOf(c)' = answerOf(c)
  BY <1>2 DEF answerOf, b
<1>6. remainingOf(b) = {}
  BY <1>1 DEF remainingOf, GroupInv, b
<1>7. Waiting' = Waiting /\ Waiting[b] = {}
  BY <1>1, <1>2, <1>6 DEF Waiting, remainingOf
<1>8. Answers[b] = "due" /\ Answers' = [Answers EXCEPT ![b] = "given"]
  BY <1>1, <1>4, <1>5 DEF Answers
<1>9. Batches!Answer(b)
  BY <1>7, <1>8 DEF Batches!Answer, Waiting, Answers, remainingOf, answerOf, Notices
<1>. QED
  BY <1>1, <1>9 DEF Batches!Next, Batches!Presses, Presses

\* The two buttons and their one dispatch group implement DownloadBatches: each
\* press is answered once, after its own downloads.
THEOREM PressesAreBatches == Spec => ImplementsBatches
<1>1. ASSUME GroupInv, [Next]_vars
      PROVE  Batches!Next \/ (Waiting' = Waiting /\ Answers' = Answers)
  <2>1. CASE \E kind \in {"download", "transfer"} : Ask(kind)
    BY <1>1, <2>1, AskIsStart
  <2>2. CASE \E d \in Download : StartDownload(d)
    <3>1. Unfinished' = Unfinished /\ Notices' = Notices /\ pressed' = pressed
      BY <1>1, <2>2, StartKeeps DEF StartDownload, Notices
    <3>. QED
      BY <3>1 DEF Waiting, Answers, remainingOf, answerOf
  <2>3. CASE \E d \in Download : DownloadEnded(d)
    BY <1>1, <2>3, EndIsEnd
  <2>4. CASE \E n \in Notice : Notified(n)
    BY <1>1, <2>4, NotifiedIsAnswer
  <2>5. CASE UNCHANGED groupVars
    <3>1. Unfinished' = Unfinished /\ Notices' = Notices /\ pressed' = pressed
      BY <1>1, <2>5, GroupKept DEF groupVars
    <3>. QED
      BY <3>1 DEF Waiting, Answers, remainingOf, answerOf
  <2>. QED
    BY <1>1, <2>1, <2>2, <2>3, <2>4, <2>5, GroupSteps
<1>2. GroupInv /\ [Next]_vars => [Batches!Next]_<<Waiting, Answers>>
  BY <1>1
<1>. QED
  BY <1>2, InitBatches, InitGroup, GroupStep, PTL
     DEF Spec, ImplementsBatches, Batches!Spec, Waiting, Answers, remainingOf, answerOf, Notices

-----------------------------------------------------------------------------
(* Types.                                                                  *)

\* A received picture takes the least empty view.
LEMMA FillFirstFills ==
    ASSUME NEW views \in Views, NEW picture \in Slots
    PROVE  FillFirst(views, picture) \in Views
<1> DEFINE empty == {i \in Slots : views[i] = NoImage}
<1>1. CASE empty = {}
  BY <1>1 DEF FillFirst
<1>2. CASE empty # {}
  <2>1. empty \subseteq Nat
    BY SlotCountAssumption DEF Slots
  <2> HIDE DEF empty
  <2>2. \E i \in empty : \A j \in empty : i <= j
    BY <1>2, <2>1, LeastExists
  <2>3. (CHOOSE i \in empty : \A j \in empty : i <= j) \in empty
    BY <2>2
  <2>4. FillFirst(views, picture)
          = [views EXCEPT ![CHOOSE i \in empty : \A j \in empty : i <= j] = picture]
    BY <1>2 DEF FillFirst, empty
  <2> QED  BY <2>3, <2>4 DEF Views, empty
<1> QED  BY <1>1, <1>2

\* What the views, the loop and the peers hold.
SendTypeOK ==
    /\ transferEnabled \in BOOLEAN /\ crashed \in BOOLEAN
    /\ images \in Views
    /\ sends \in Nat /\ received \in Nat /\ changes \in Nat
    /\ outbox \in Seq(Slots \cup {NoImage})
    /\ connected \in Seq(Peers)
    /\ wire \in [Peers -> Seq(Slots)]
    /\ peerImages \in [Peers -> Views] /\ elsewhere \in [Peers -> Nat]

\* The group's share of the types is in its invariant.
LEMMA TypesOfAll == GroupInv /\ SendTypeOK => TypeOK
<1> SUFFICES ASSUME GroupInv, SendTypeOK PROVE TypeOK
  OBVIOUS
<1>1. count \in Nat
  BY FS_CardinalityType DEF GroupInv, GroupBalanced
<1>2. scheduled \subseteq Download /\ running \subseteq Download
  <2>1. 1..pressed \subseteq Presses
    BY MaxPressesAssumption DEF GroupInv, Presses
  <2> QED  BY <2>1 DEF GroupInv, Download
<1> QED  BY <1>1, <1>2 DEF GroupInv, SendTypeOK, TypeOK

\* Views and places are empty at first.
LEMMA InitSendTypes == Init => SendTypeOK
<1> SUFFICES ASSUME Init PROVE SendTypeOK
  OBVIOUS
<1>1. [i \in Slots |-> NoImage] \in Views
  BY DEF Views
<1>2. images \in Views /\ peerImages \in [Peers -> Views] /\ elsewhere \in [Peers -> Nat]
  BY <1>1 DEF Init
<1>3. connected \in Seq(Peers) /\ outbox \in Seq(Slots \cup {NoImage}) /\ wire \in [Peers -> Seq(Slots)]
  BY DEF Init
<1> QED  BY <1>2, <1>3 DEF Init, SendTypeOK

\* Every step keeps the types.
LEMMA SendTypesKept == ASSUME SendTypeOK, [Next]_vars PROVE SendTypeOK'
<1> USE DEF SendTypeOK
<1>1. CASE DownloadButtonPressed \/ TransferButtonPressed
  BY <1>1 DEF DownloadButtonPressed, TransferButtonPressed, Ask, viewVars, sendVars, peerVars
<1>2. CASE \E d \in Download : StartDownload(d)
  BY <1>2 DEF StartDownload, viewVars, sendVars, peerVars
<1>3. ASSUME NEW d \in Download, DownloadEnded(d) PROVE SendTypeOK'
  <2>1. d[2] \in Slots
    BY DEF Download
  <2>2. images' \in Views
    BY <1>3, <2>1 DEF DownloadEnded, Views
  <2> QED  BY <1>3, <2>2 DEF DownloadEnded, sendVars, peerVars
<1>4. CASE \E n \in Notice : Notified(n)
  BY <1>4 DEF Notified, peerVars
<1>5. CASE SendImages
  <2>1. images \in Seq(Slots \cup {NoImage})
    BY SlotCountAssumption DEF Views, Slots
  <2>2. sends' \in Nat
    BY <1>5 DEF SendImages
  <2> QED  BY <1>5, <2>1, <2>2 DEF SendImages, viewVars, peerVars
<1>6. CASE SendNext
  <2>1. /\ outbox # <<>> /\ UNCHANGED <<sends, connected, changes, peerImages, elsewhere, viewVars>>
        /\ outbox' = outbox \/ outbox' = Tail(outbox)
        /\ crashed' = crashed \/ crashed' = TRUE
    BY <1>6 DEF SendNext
  <2>2. wire' \in [Peers -> Seq(Slots)]
    <3>1. CASE connected # <<>> /\ Head(outbox) # NoImage
      <4>1. Head(outbox) \in Slots /\ Head(connected) \in Peers
        BY <2>1, <3>1
      <4>2. Append(wire[Head(connected)], Head(outbox)) \in Seq(Slots)
        BY <4>1
      <4>3. wire' = [wire EXCEPT ![Head(connected)] = Append(@, Head(outbox))]
        BY <1>6, <3>1 DEF SendNext
      <4> QED  BY <4>2, <4>3
    <3>2. CASE ~(connected # <<>> /\ Head(outbox) # NoImage)
      BY <1>6, <3>2 DEF SendNext
    <3> QED  BY <3>1, <3>2
  <2>3. outbox' \in Seq(Slots \cup {NoImage})
    <3>1. outbox \in Seq(Slots \cup {NoImage}) /\ Tail(outbox) \in Seq(Slots \cup {NoImage})
      BY <2>1
    <3>2. outbox' = outbox \/ outbox' = Tail(outbox)
      BY <2>1
    <3> QED  BY <3>1, <3>2, Zenon
  <2>4. crashed' \in BOOLEAN
    BY <2>1
  <2> QED  BY <2>1, <2>2, <2>3, <2>4 DEF viewVars
<1>7. CASE SendThrows
  <2>1. /\ outbox # <<>> /\ connected # <<>>
        /\ changes' = changes + 1 /\ connected' = Tail(connected) /\ outbox' = Tail(outbox)
        /\ wire' = [wire EXCEPT ![Head(connected)] = <<>>]
        /\ UNCHANGED <<sends, crashed, peerImages, elsewhere, viewVars>>
    BY <1>7 DEF SendThrows
  <2> QED  BY <2>1 DEF viewVars
<1>8. ASSUME NEW p \in Peers, PeerJoins(p) PROVE SendTypeOK'
  BY <1>8 DEF PeerJoins, viewVars, sendVars
<1>9. ASSUME NEW p \in Peers, PeerLeaves(p) PROVE SendTypeOK'
  <2>1. connected' \in Seq(Peers)
    <3>1. connected' \in Seq(Peers \cap (Peers \ {p}))
      BY <1>9, OnlyIsSeq DEF PeerLeaves
    <3> QED  BY <3>1
  <2>2. changes' \in Nat /\ wire' \in [Peers -> Seq(Slots)]
    BY <1>9 DEF PeerLeaves
  <2> QED  BY <1>9, <2>1, <2>2 DEF PeerLeaves, viewVars, sendVars
<1>10. ASSUME NEW p \in Peers, Deliver(p) PROVE SendTypeOK'
  <2>1. Head(wire[p]) \in Slots /\ Tail(wire[p]) \in Seq(Slots) /\ peerImages[p] \in Views
    BY <1>10 DEF Deliver
  <2>2. FillFirst(peerImages[p], Head(wire[p])) \in Views
    BY <2>1, FillFirstFills
  <2> QED  BY <1>10, <2>1, <2>2 DEF Deliver, viewVars, sendVars
<1>13. ASSUME NEW p \in Peers, ViewSetElsewhere(p) PROVE SendTypeOK'
  <2>1. peerImages[p] \in Views /\ elsewhere' \in [Peers -> Nat]
    BY <1>13 DEF ViewSetElsewhere
  <2>2. PICK views \in Views : peerImages' = [peerImages EXCEPT ![p] = views]
    <3>1. CASE \E picture \in Slots : peerImages' = [peerImages EXCEPT ![p] = FillFirst(@, picture)]
      BY <2>1, <3>1, FillFirstFills
    <3>2. ASSUME NEW i \in Slots, NEW own \in BOOLEAN,
                 peerImages' = [peerImages EXCEPT ![p][i] = IF own THEN i ELSE NoImage]
          PROVE  \E views \in Views : peerImages' = [peerImages EXCEPT ![p] = views]
      <4> DEFINE views == [peerImages[p] EXCEPT ![i] = IF own THEN i ELSE NoImage]
      <4>1. views \in Views
        BY <2>1 DEF Views
      <4> QED  BY <3>2, <4>1
    <3> QED  BY <1>13, <3>1, <3>2 DEF ViewSetElsewhere
  <2> QED  BY <1>13, <2>1, <2>2 DEF ViewSetElsewhere, viewVars, sendVars
<1>11. ASSUME NEW picture \in Slots, Receive(picture) PROVE SendTypeOK'
  BY <1>11, FillFirstFills DEF Receive, sendVars, peerVars
<1>12. CASE UNCHANGED vars
  BY <1>12 DEF vars, viewVars, sendVars, peerVars
<1> QED  BY <1>1, <1>2, <1>3, <1>4, <1>5, <1>6, <1>7, <1>8, <1>9, <1>10, <1>11, <1>12, <1>13 DEF Next

\* Views hold pictures, the queues hold pictures or empty places, the group
\* counts what there is to count, for any number of presses, peers and images.
THEOREM TypeCorrect == Spec => []TypeOK
BY InitGroup, GroupStep, InitSendTypes, SendTypesKept, TypesOfAll, PTL DEF Spec

-----------------------------------------------------------------------------
(* The stream of pictures to a peer, while no peer has left or sent.       *)

\* The first f views of a peer show their pictures, the others none.
Filled(f) == [i \in Slots |-> IF i <= f THEN i ELSE NoImage]

\* The first f pictures have been received by p, the next ones are on the wire
\* and the rest is in the loop; a loop that ends early has crashed.  Pictures
\* after the last, from a second transfer, find no empty view.
Streams(p, f) ==
    /\ elsewhere[p] = 0 => peerImages[p] = Filled(f)
    /\ \A j \in DOMAIN wire[p] : f + j <= SlotCount => wire[p][j] = f + j
    /\ f + Len(wire[p]) < SlotCount =>
           \/ outbox = <<>> /\ (crashed \/ f + Len(wire[p]) = 0)
           \/ outbox # <<>> /\ f + Len(wire[p]) + Len(outbox) = SlotCount

Undisturbed == changes = 0 /\ received = 0

OwnImages == \A i \in Slots : images[i] \in {NoImage, i}

\* What the loop has left are the last pictures.
LastImages == /\ Len(outbox) <= SlotCount
              /\ \A j \in DOMAIN outbox : outbox[j] \in {NoImage, SlotCount - Len(outbox) + j}

\* A transfer is only asked for with a peer.
AskedWithPeer ==
    sends > 0 \/ outbox # <<>> \/ (\E n \in Notices : n.kind = "transfer") => connected # <<>>

OthersEmpty ==
    \A p \in Peers : connected = <<>> \/ p # Head(connected) =>
        wire[p] = <<>> /\ (elsewhere[p] = 0 => peerImages[p] = Filled(0))

FirstStreams == connected # <<>> => \E f \in 0..SlotCount : Streams(Head(connected), f)

StreamInv ==
    Undisturbed => OwnImages /\ LastImages /\ AskedWithPeer /\ OthersEmpty /\ FirstStreams

LEMMA StreamShows == StreamInv => PicturesInPlace
<1> SUFFICES ASSUME StreamInv, Undisturbed, NEW p \in Peers, NEW i \in Slots, elsewhere[p] = 0
             PROVE  peerImages[p][i] \in {NoImage, i}
  BY DEF PicturesInPlace, Undisturbed
<1>1. \E f \in 0..SlotCount : peerImages[p] = Filled(f)
  <2>1. CASE connected = <<>> \/ p # Head(connected)
    BY <2>1, SlotCountAssumption DEF StreamInv, OthersEmpty
  <2>2. CASE connected # <<>> /\ p = Head(connected)
    BY <2>2 DEF StreamInv, FirstStreams, Streams
  <2> QED  BY <2>1, <2>2
<1> QED  BY <1>1 DEF Filled

LEMMA InitStream == Init => StreamInv
<1> SUFFICES ASSUME Init PROVE StreamInv
  OBVIOUS
<1>1. Notices = {} /\ outbox = <<>> /\ connected = <<>> /\ sends = 0
  BY DEF Init, Notices
<1>2. [i \in Slots |-> NoImage] = Filled(0)
  BY SlotCountAssumption DEF Filled, Slots
<1>3. OwnImages /\ LastImages
  BY <1>1, SlotCountAssumption DEF Init, OwnImages, LastImages
<1>4. OthersEmpty
  BY <1>2 DEF Init, OthersEmpty
<1> QED  BY <1>1, <1>3, <1>4 DEF StreamInv, AskedWithPeer, FirstStreams

\* What the peers see depends on the loop, the wires and the views of the peers.
StreamVars == <<outbox, crashed, connected, wire, peerImages, elsewhere>>

LEMMA StreamsKept ==
    ASSUME UNCHANGED StreamVars
    PROVE  /\ LastImages => LastImages'
           /\ OthersEmpty => OthersEmpty'
           /\ FirstStreams => FirstStreams'
BY DEF StreamVars, LastImages, OthersEmpty, FirstStreams, Streams

\* A received picture fills the next view.
LEMMA NextFilled ==
    ASSUME NEW f \in 0..SlotCount, NEW picture
    PROVE  FillFirst(Filled(f), picture)
             = IF f = SlotCount THEN Filled(f) ELSE [Filled(f) EXCEPT ![f + 1] = picture]
<1> DEFINE empty == {i \in Slots : Filled(f)[i] = NoImage}
<1>1. \A i \in Slots : i \in empty <=> i > f
  BY SlotCountAssumption, NoImageAssumption DEF Filled, Slots
<1>2. CASE f = SlotCount
  <2>1. empty = {}
    BY <1>1, <1>2 DEF Slots
  <2> QED  BY <1>2, <2>1 DEF FillFirst
<1>3. CASE f # SlotCount
  <2>1. f + 1 \in Slots /\ empty \subseteq Slots /\ Slots \subseteq Nat
    BY <1>3, SlotCountAssumption DEF Slots
  <2>2. f + 1 \in empty /\ \A j \in empty : f + 1 <= j
    BY <1>1, <2>1
  <2>3. FillFirst(Filled(f), picture)
          = [Filled(f) EXCEPT ![CHOOSE i \in empty : \A j \in empty : i <= j] = picture]
    BY <2>2 DEF FillFirst
  <2> HIDE DEF empty
  <2>4. \A i \in empty : (\A j \in empty : i <= j) => i = f + 1
    BY <2>1, <2>2
  <2>5. (CHOOSE i \in empty : \A j \in empty : i <= j) = f + 1
    BY <2>2, <2>4
  <2> QED  BY <1>3, <2>3, <2>5
<1> QED  BY <1>2, <1>3

\* The loop starts with all the views, when nothing of an earlier one is on the
\* wire or everything has been sent before.
LEMMA SendImagesStreams ==
    ASSUME SendTypeOK, StreamInv, Undisturbed, SendImages
    PROVE  LastImages' /\ OthersEmpty' /\ FirstStreams'
<1>1. /\ outbox = <<>> /\ ~crashed /\ outbox' = images
      /\ UNCHANGED <<crashed, connected, wire, peerImages, elsewhere>>
  BY DEF SendImages, MainThread, peerVars
<1>2. images \in Views /\ OwnImages /\ OthersEmpty /\ FirstStreams
  BY DEF SendTypeOK, StreamInv
<1>3. Len(outbox') = SlotCount /\ DOMAIN outbox' = Slots /\ outbox' # <<>>
  BY <1>1, <1>2, SlotCountAssumption DEF Views, Slots
<1>4. LastImages'
  <2>1. \A j \in Slots : SlotCount - SlotCount + j = j
    BY SlotCountAssumption DEF Slots
  <2> QED  BY <1>1, <1>2, <1>3, <2>1, SlotCountAssumption DEF LastImages, OwnImages
<1>5. FirstStreams'
  <2> SUFFICES ASSUME connected # <<>> PROVE \E f \in 0..SlotCount : Streams(Head(connected), f)'
    BY <1>1 DEF FirstStreams
  <2>1. PICK f \in 0..SlotCount : Streams(Head(connected), f)
    BY <1>2 DEF FirstStreams
  <2>2. PICK n \in Nat : n = Len(wire[Head(connected)])
    <3>1. connected \in Seq(Peers) /\ wire \in [Peers -> Seq(Slots)]
      BY DEF SendTypeOK
    <3>2. Head(connected) \in Peers
      BY <3>1
    <3> QED  BY <3>1, <3>2
  <2>3. f + n < SlotCount => f + n + SlotCount = SlotCount
    BY <1>1, <2>1, <2>2, SlotCountAssumption DEF Streams
  <2>4. Streams(Head(connected), f)'
    BY <1>1, <1>3, <2>1, <2>2, <2>3 DEF Streams
  <2> QED  BY <2>4
<1> QED  BY <1>1, <1>2, <1>4, <1>5 DEF OthersEmpty

\* What the loop sends is the picture that comes after those on the wire.
LEMMA SendNextStreams ==
    ASSUME SendTypeOK, StreamInv, Undisturbed, SendNext
    PROVE  LastImages' /\ OthersEmpty' /\ FirstStreams' /\ connected # <<>>
<1>1. /\ outbox # <<>> /\ ~crashed /\ UNCHANGED <<connected, peerImages, elsewhere>>
  BY DEF SendNext
<1>2. LastImages /\ OthersEmpty /\ FirstStreams /\ connected # <<>>
  BY <1>1 DEF StreamInv, AskedWithPeer
<1>3. PICK h \in Peers, f \in 0..SlotCount : h = Head(connected) /\ Streams(h, f)
  <2>1. Head(connected) \in Peers
    BY <1>2 DEF SendTypeOK
  <2> QED  BY <1>2, <2>1 DEF FirstStreams
<1>4. wire[h] \in Seq(Slots)
  BY DEF SendTypeOK
<1>5. PICK n \in Nat : n = Len(wire[h])
  BY <1>4
<1>6. PICK m \in Nat \ {0} : m = Len(outbox)
  BY <1>1 DEF SendTypeOK
<1>7. CASE Head(outbox) = NoImage
  <2>1. outbox' = outbox /\ wire' = wire
    BY <1>2, <1>7 DEF SendNext
  <2>2. Streams(h, f)'
    BY <1>1, <1>3, <2>1 DEF Streams
  <2> QED  BY <1>1, <1>2, <2>1, <2>2, <1>3 DEF LastImages, OthersEmpty, FirstStreams
<1>8. CASE Head(outbox) # NoImage
  <2>1. wire' = [wire EXCEPT ![h] = Append(@, Head(outbox))] /\ outbox' = Tail(outbox) /\ crashed' = crashed
    BY <1>2, <1>3, <1>8 DEF SendNext
  <2>2. Head(outbox) = SlotCount - m + 1 /\ Head(outbox) \in Slots
    <3>1. Head(outbox) = outbox[1] /\ 1 \in DOMAIN outbox /\ outbox[1] \in Slots
      BY <1>1, <1>8 DEF SendTypeOK
    <3>2. outbox[1] = SlotCount - m + 1
      BY <1>2, <1>6, <1>8, <3>1 DEF LastImages
    <3> QED  BY <3>1, <3>2
  <2>3. /\ Len(outbox') = m - 1 /\ DOMAIN outbox' = 1..(m - 1)
        /\ \A j \in 1..(m - 1) : outbox'[j] = outbox[j + 1]
        /\ outbox' = <<>> <=> m = 1
    <3>1. outbox \in Seq(Slots \cup {NoImage}) /\ outbox # <<>>
      BY <1>1 DEF SendTypeOK
    <3>2. /\ Len(Tail(outbox)) = m - 1 /\ DOMAIN Tail(outbox) = 1..(m - 1)
          /\ \A j \in 1..(m - 1) : Tail(outbox)[j] = outbox[j + 1]
      BY <1>6, <3>1
    <3>3. Tail(outbox) = <<>> <=> m - 1 = 0
      <4>1. Tail(outbox) \in Seq(Slots \cup {NoImage})
        BY <3>1
      <4> QED  BY <1>6, <3>2, <4>1, EmptySeq
    <3> QED  BY <1>6, <2>1, <3>2, <3>3
  <2>4. LastImages'
    <3>1. m - 1 <= SlotCount
      BY <1>2, <1>6, SlotCountAssumption DEF LastImages
    <3>2. ASSUME NEW j \in 1..(m - 1) PROVE outbox'[j] \in {NoImage, SlotCount - (m - 1) + j}
      <4>1. outbox[j + 1] \in {NoImage, SlotCount - m + (j + 1)}
        <5>1. DOMAIN outbox = 1..m /\ j + 1 \in 1..m
          BY <1>6 DEF SendTypeOK
        <5> QED  BY <1>2, <1>6, <5>1 DEF LastImages
      <4>2. SlotCount - m + (j + 1) = SlotCount - (m - 1) + j
        BY SlotCountAssumption
      <4> QED  BY <2>3, <4>1, <4>2
    <3> QED  BY <2>3, <3>1, <3>2 DEF LastImages
  <2>5. wire'[h] = Append(wire[h], Head(outbox)) /\ \A p \in Peers : p # h => wire'[p] = wire[p]
    BY <1>4, <2>1 DEF SendTypeOK
  <2>6. OthersEmpty'
    BY <1>1, <1>2, <1>3, <2>5 DEF OthersEmpty
  <2>7. /\ DOMAIN wire'[h] = 1..(n + 1) /\ Len(wire'[h]) = n + 1
        /\ \A j \in 1..n : wire'[h][j] = wire[h][j]
        /\ wire'[h][n + 1] = Head(outbox)
    BY <1>4, <1>5, <2>2, <2>5
  <2>8. Streams(h, f)'
    <3>1. elsewhere'[h] = 0 => peerImages'[h] = Filled(f)
      BY <1>1, <1>3 DEF Streams
    <3>2. f + n < SlotCount => f + n + m = SlotCount
      BY <1>1, <1>3, <1>5, <1>6 DEF Streams
    <3>3. ASSUME NEW j \in 1..(n + 1), f + j <= SlotCount PROVE wire'[h][j] = f + j
      <4>1. CASE j = n + 1
        BY <2>2, <2>7, <3>2, <3>3, <4>1, SlotCountAssumption
      <4>2. CASE j # n + 1
        <5>1. j \in 1..n /\ j \in DOMAIN wire[h]
          BY <1>4, <1>5, <4>2
        <5> QED  BY <1>3, <2>7, <3>3, <5>1 DEF Streams
      <4> QED  BY <4>1, <4>2
    <3>4. f + (n + 1) < SlotCount => m # 1 /\ f + (n + 1) + (m - 1) = SlotCount
      BY <3>2, SlotCountAssumption
    <3> QED  BY <2>3, <2>7, <3>1, <3>3, <3>4 DEF Streams
  <2> QED  BY <1>1, <1>2, <1>3, <2>4, <2>6, <2>8 DEF FirstStreams
<1> QED  BY <1>7, <1>8

\* Nobody has been sent anything before the first peer joins, and the first
\* peer stays the first.
LEMMA JoiningStreams ==
    ASSUME SendTypeOK, StreamInv, Undisturbed, NEW q \in Peers, PeerJoins(q)
    PROVE  LastImages' /\ OthersEmpty' /\ FirstStreams' /\ connected' # <<>>
<1>1. connected' = Append(connected, q) /\ UNCHANGED <<outbox, crashed, wire, peerImages, elsewhere>>
  BY DEF PeerJoins, sendVars
<1>2. LastImages /\ OthersEmpty /\ FirstStreams /\ AskedWithPeer
  BY DEF StreamInv
<1>3. connected' # <<>> /\ Head(connected') = IF connected = <<>> THEN q ELSE Head(connected)
  BY <1>1 DEF SendTypeOK
<1>4. CASE connected = <<>>
  <2>1. outbox = <<>> /\ wire[q] = <<>> /\ (elsewhere[q] = 0 => peerImages[q] = Filled(0))
    BY <1>2, <1>4 DEF AskedWithPeer, OthersEmpty
  <2>2. 0 \in 0..SlotCount /\ Streams(q, 0)'
    BY <1>1, <2>1, SlotCountAssumption DEF Streams
  <2> QED  BY <1>1, <1>2, <1>3, <1>4, <2>2 DEF LastImages, OthersEmpty, FirstStreams
<1>5. CASE connected # <<>>
  BY <1>1, <1>2, <1>3, <1>5 DEF LastImages, OthersEmpty, FirstStreams, Streams
<1> QED  BY <1>4, <1>5

\* A picture that arrives is the one for the next view.
LEMMA DeliveringStreams ==
    ASSUME SendTypeOK, StreamInv, Undisturbed, NEW q \in Peers, Deliver(q)
    PROVE  LastImages' /\ OthersEmpty' /\ FirstStreams'
<1>1. /\ wire[q] # <<>> /\ UNCHANGED <<outbox, crashed, connected, elsewhere>>
      /\ peerImages' = [peerImages EXCEPT ![q] = FillFirst(@, Head(wire[q]))]
      /\ wire' = [wire EXCEPT ![q] = Tail(@)]
  BY DEF Deliver, sendVars
<1>2. LastImages /\ OthersEmpty /\ FirstStreams
  BY DEF StreamInv
<1>3. connected # <<>> /\ q = Head(connected)
  BY <1>1, <1>2 DEF OthersEmpty
<1>4. PICK f \in 0..SlotCount : Streams(q, f)
  BY <1>2, <1>3 DEF FirstStreams
<1>5. PICK n \in Nat \ {0} : n = Len(wire[q])
  BY <1>1 DEF SendTypeOK
<1>6. /\ wire'[q] = Tail(wire[q]) /\ (elsewhere[q] = 0 => peerImages'[q] = FillFirst(Filled(f), Head(wire[q])))
      /\ \A p \in Peers : p # q => wire'[p] = wire[p] /\ peerImages'[p] = peerImages[p]
  BY <1>1, <1>4 DEF SendTypeOK, Streams
<1>7. /\ DOMAIN wire'[q] = 1..(n - 1) /\ Len(wire'[q]) = n - 1
      /\ \A j \in 1..(n - 1) : wire'[q][j] = wire[q][j + 1]
      /\ DOMAIN wire[q] = 1..n /\ Head(wire[q]) = wire[q][1]
  BY <1>1, <1>5, <1>6 DEF SendTypeOK
<1>8. \E g \in 0..SlotCount : Streams(q, g)'
  <2>1. CASE f = SlotCount
    <3>1. elsewhere[q] = 0 => peerImages'[q] = Filled(f)
      BY <1>6, <2>1, NextFilled
    <3>2. \A j \in 1..(n - 1) : ~(f + j <= SlotCount)
      BY <2>1, SlotCountAssumption
    <3>3. ~(f + (n - 1) < SlotCount)
      BY <1>5, <2>1, SlotCountAssumption
    <3> QED  BY <1>1, <1>7, <3>1, <3>2, <3>3 DEF Streams
  <2>2. CASE f # SlotCount
    <3>1. f + 1 \in 0..SlotCount /\ f + 1 <= SlotCount /\ f \in Nat
      BY <2>2, SlotCountAssumption
    <3>2. Head(wire[q]) = f + 1
      BY <1>4, <1>5, <1>7, <3>1 DEF Streams
    <3>3. elsewhere[q] = 0 => peerImages'[q] = Filled(f + 1)
      <4> SUFFICES ASSUME elsewhere[q] = 0 PROVE peerImages'[q] = Filled(f + 1)
        OBVIOUS
      <4>1. peerImages'[q] = [Filled(f) EXCEPT ![f + 1] = f + 1]
        BY <1>6, <2>2, <3>2, NextFilled
      <4>2. \A i \in Slots : [Filled(f) EXCEPT ![f + 1] = f + 1][i] = Filled(f + 1)[i]
        BY <3>1, SlotCountAssumption DEF Filled, Slots
      <4>3. [Filled(f) EXCEPT ![f + 1] = f + 1] = Filled(f + 1)
        BY <4>2 DEF Filled
      <4> QED  BY <4>1, <4>3
    <3>4. ASSUME NEW j \in 1..(n - 1), (f + 1) + j <= SlotCount
          PROVE  wire'[q][j] = (f + 1) + j
      <4>1. j + 1 \in 1..n /\ f + (j + 1) <= SlotCount /\ f + (j + 1) = (f + 1) + j
        BY <3>1, <3>4, SlotCountAssumption
      <4> QED  BY <1>4, <1>7, <4>1 DEF Streams
    <3>5. (f + 1) + (n - 1) = f + n /\ f + n # 0
      BY <3>1
    <3>6. f + n < SlotCount => \/ outbox = <<>> /\ crashed
                               \/ outbox # <<>> /\ f + n + Len(outbox) = SlotCount
      BY <1>4, <1>5, <3>5 DEF Streams
    <3>7. Streams(q, f + 1)'
      BY <1>1, <1>7, <3>3, <3>4, <3>5, <3>6 DEF Streams
    <3> QED  BY <3>1, <3>7
  <2> QED  BY <2>1, <2>2
<1> QED  BY <1>1, <1>2, <1>3, <1>6, <1>8 DEF LastImages, OthersEmpty, FirstStreams

\* A view that is set elsewhere leaves the stream as it is, and its peer is one
\* of whose views nothing is claimed any more.
LEMMA ElsewhereStreams ==
    ASSUME SendTypeOK, StreamInv, Undisturbed, NEW q \in Peers, ViewSetElsewhere(q)
    PROVE  LastImages' /\ OthersEmpty' /\ FirstStreams'
<1>1. UNCHANGED <<outbox, crashed, connected, wire>>
  BY DEF ViewSetElsewhere, sendVars
<1>2. LastImages /\ OthersEmpty /\ FirstStreams
  BY DEF StreamInv
<1>3. elsewhere'[q] # 0
  BY DEF ViewSetElsewhere, SendTypeOK
<1>4. ASSUME NEW p \in Peers, p # q PROVE elsewhere'[p] = elsewhere[p] /\ peerImages'[p] = peerImages[p]
  BY <1>4 DEF ViewSetElsewhere, SendTypeOK
<1>5. ASSUME NEW p \in Peers, NEW f \in 0..SlotCount, Streams(p, f) PROVE Streams(p, f)'
  BY <1>1, <1>3, <1>4, <1>5 DEF Streams
<1>6. connected # <<>> => Head(connected) \in Peers
  BY DEF SendTypeOK
<1>7. OthersEmpty'
  BY <1>1, <1>2, <1>3, <1>4 DEF OthersEmpty
<1>8. FirstStreams'
  BY <1>1, <1>2, <1>5, <1>6 DEF FirstStreams
<1> QED  BY <1>1, <1>2, <1>7, <1>8 DEF LastImages

\* Every step keeps the stream; a peer that leaves or sends ends the matter.
LEMMA StreamStep == ASSUME GroupInv, SendTypeOK, StreamInv, [Next]_vars PROVE StreamInv'
<1> SUFFICES ASSUME Undisturbed'
             PROVE  OwnImages' /\ LastImages' /\ AskedWithPeer' /\ OthersEmpty' /\ FirstStreams'
  BY DEF StreamInv
<1>1. /\ Undisturbed
      /\ ~SendThrows /\ (\A p \in Peers : ~PeerLeaves(p))
      /\ (\A picture \in Slots : ~Receive(picture))
  <2>1. changes \in Nat /\ received \in Nat /\ changes' = 0 /\ received' = 0
    BY DEF SendTypeOK, Undisturbed
  <2>2. ~SendThrows /\ (\A p \in Peers : ~PeerLeaves(p))
    BY <2>1 DEF SendThrows, PeerLeaves
  <2>3. \A picture \in Slots : ~Receive(picture)
    BY <2>1 DEF Receive
  <2>4. changes' = changes /\ received' = received
    <3>1. \/ \E kind \in {"download", "transfer"} : Ask(kind)
          \/ \E d \in Download : StartDownload(d) \/ DownloadEnded(d)
          \/ \E n \in Notice : Notified(n)
          \/ SendImages \/ SendNext \/ \E p \in Peers : PeerJoins(p) \/ Deliver(p) \/ ViewSetElsewhere(p)
          \/ UNCHANGED vars
      BY <2>2, <2>3 DEF Next, DownloadButtonPressed, TransferButtonPressed
    <3> QED  BY <3>1 DEF Ask, StartDownload, DownloadEnded, Notified, SendImages, SendNext,
                         PeerJoins, Deliver, ViewSetElsewhere, vars, viewVars, peerVars
  <2> QED  BY <2>1, <2>2, <2>3, <2>4 DEF Undisturbed
<1>2. OwnImages /\ LastImages /\ AskedWithPeer /\ OthersEmpty /\ FirstStreams
  BY <1>1 DEF StreamInv
<1>3. ASSUME NEW kind \in {"download", "transfer"}, Ask(kind),
             kind = "transfer" => connected # <<>>
      PROVE  StreamInv'
  <2>1. /\ registered' = registered \cup {[press |-> pressed', kind |-> kind]} /\ due' = due
        /\ UNCHANGED <<images, sends, StreamVars>>
    BY <1>3 DEF Ask, viewVars, sendVars, peerVars, StreamVars
  <2>2. AskedWithPeer'
    BY <1>2, <1>3, <2>1 DEF AskedWithPeer, Notices, StreamVars
  <2> QED  BY <1>2, <2>1, <2>2, StreamsKept DEF StreamInv, OwnImages
<1>4. CASE \E d \in Download : StartDownload(d)
  <2>1. UNCHANGED <<images, sends, registered, due, StreamVars>>
    BY <1>4 DEF StartDownload, viewVars, sendVars, peerVars, StreamVars
  <2> QED  BY <1>2, <2>1, StreamsKept DEF OwnImages, AskedWithPeer, Notices, StreamVars
<1>5. ASSUME NEW d \in Download, DownloadEnded(d) PROVE StreamInv'
  <2>1. UNCHANGED <<sends, StreamVars>>
    BY <1>5 DEF DownloadEnded, sendVars, peerVars, StreamVars
  <2>2. Notices' = Notices
    BY <1>5, EndKeeps
  <2>3. d[2] \in Slots /\ images \in Views
    BY DEF Download, SendTypeOK
  <2>4. OwnImages'
    BY <1>2, <1>5, <2>3 DEF DownloadEnded, OwnImages, Views
  <2> QED  BY <1>2, <2>1, <2>2, <2>4, StreamsKept DEF StreamInv, AskedWithPeer, StreamVars
<1>6. ASSUME NEW n \in Notice, Notified(n) PROVE StreamInv'
  <2>1. UNCHANGED <<images, StreamVars>> /\ sends' = IF n.kind = "transfer" THEN sends + 1 ELSE sends
    BY <1>6 DEF Notified, peerVars, StreamVars
  <2>2. Notices' = Notices \ {n} /\ n \in Notices
    BY <1>6, NotifiedKeeps
  <2>3. AskedWithPeer'
    BY <1>2, <2>1, <2>2 DEF AskedWithPeer, StreamVars
  <2> QED  BY <1>2, <2>1, <2>3, StreamsKept DEF StreamInv, OwnImages
<1>7. CASE SendImages
  <2>1. UNCHANGED <<images, connected, registered, due>> /\ sends > 0
    BY <1>7 DEF SendImages, viewVars, peerVars, groupVars
  <2>2. OwnImages' /\ AskedWithPeer'
    BY <1>2, <2>1 DEF OwnImages, AskedWithPeer
  <2> QED  BY <1>1, <1>7, <2>2, SendImagesStreams
<1>8. CASE SendNext
  <2>1. UNCHANGED <<images, connected>>
    BY <1>8 DEF SendNext, viewVars
  <2>2. LastImages' /\ OthersEmpty' /\ FirstStreams' /\ connected # <<>>
    BY <1>1, <1>8, SendNextStreams
  <2> QED  BY <1>2, <2>1, <2>2 DEF OwnImages, AskedWithPeer
<1>9. ASSUME NEW p \in Peers, PeerJoins(p) PROVE StreamInv'
  <2>1. UNCHANGED images
    BY <1>9 DEF PeerJoins, viewVars
  <2>2. LastImages' /\ OthersEmpty' /\ FirstStreams' /\ connected' # <<>>
    BY <1>1, <1>9, JoiningStreams
  <2> QED  BY <1>2, <2>1, <2>2 DEF StreamInv, OwnImages, AskedWithPeer
<1>10. ASSUME NEW p \in Peers, Deliver(p) PROVE StreamInv'
  <2>1. UNCHANGED <<images, sends, outbox, connected, registered, due>>
    BY <1>10 DEF Deliver, viewVars, sendVars, groupVars
  <2>2. LastImages' /\ OthersEmpty' /\ FirstStreams'
    BY <1>1, <1>10, DeliveringStreams
  <2> QED  BY <1>2, <2>1, <2>2 DEF StreamInv, OwnImages, AskedWithPeer, Notices
<1>13. ASSUME NEW p \in Peers, ViewSetElsewhere(p) PROVE StreamInv'
  <2>1. UNCHANGED <<images, sends, outbox, connected, registered, due>>
    BY <1>13 DEF ViewSetElsewhere, viewVars, sendVars, groupVars
  <2>2. LastImages' /\ OthersEmpty' /\ FirstStreams'
    BY <1>1, <1>13, ElsewhereStreams
  <2> QED  BY <1>2, <2>1, <2>2 DEF StreamInv, OwnImages, AskedWithPeer, Notices
<1>11. CASE UNCHANGED vars
  <2>1. UNCHANGED <<images, sends, registered, due, StreamVars>>
    BY <1>11 DEF vars, groupVars, viewVars, sendVars, peerVars, StreamVars
  <2> QED  BY <1>2, <2>1, StreamsKept DEF OwnImages, AskedWithPeer, Notices, StreamVars
<1>12. CASE DownloadButtonPressed \/ TransferButtonPressed
  BY <1>3, <1>12 DEF DownloadButtonPressed, TransferButtonPressed, StreamInv
<1> QED  BY <1>1, <1>4, <1>5, <1>6, <1>7, <1>8, <1>9, <1>10, <1>11, <1>12, <1>13 DEF Next, StreamInv

\* Pictures are not numbered on the wire, and a transfer may follow another, lack
\* a picture and crash, or meet an app that goes on downloading: as long as no
\* peer has left and none has sent, each picture a peer shows is in its own place,
\* if only this device has set the views of that peer.
THEOREM PicturesKeepTheirPlaces == Spec => []PicturesInPlace
BY InitGroup, GroupStep, InitSendTypes, SendTypesKept, InitStream, StreamStep, StreamShows, PTL DEF Spec
=============================================================================
