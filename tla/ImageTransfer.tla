--------------------------- MODULE ImageTransfer ---------------------------
(***************************************************************************)
(* The view controller of ConcurrencyProject: two buttons that download    *)
(* the same images, one dispatch group that counts the downloads of every  *)
(* press together, and the transfer of the images to the first peer of a   *)
(* Multipeer session, which may change while the images are being sent.    *)
(*                                                                         *)
(* Everything but the session's callbacks runs on the main thread, one     *)
(* closure at a time; progress bars and their messages are left out.  The  *)
(* picture behind the i-th URL is i.                                       *)
(***************************************************************************)
EXTENDS Naturals, Sequences, FiniteSets, Selections

CONSTANTS
    SlotCount,     \* number of images, of URLs and of image views
    NoImage,       \* an empty image view
    Peers,         \* devices that may join the session
    MaxPresses,    \* bound: presses of either button
    MaxReceived,   \* bound: pictures received from a peer
    MaxChanges,    \* bound: peers leaving the session
    MaxElsewhere   \* bound: for each peer, what sets its views besides this device

ASSUME SlotCountAssumption  == SlotCount \in Nat \ {0}
ASSUME NoImageAssumption    == NoImage \notin Nat
ASSUME MaxPressesAssumption == MaxPresses \in Nat

VARIABLES
    pressed,           \* presses so far
    scheduled,         \* downloads whose two seconds have not passed
    running,           \* downloads under way
    count,             \* the dispatch group's count
    registered,        \* notifications waiting for the group
    due,               \* notifications on the main queue
    transferEnabled,   \* transferButton.isEnabled
    images,            \* the image views
    sends,             \* sendImages closures whose two seconds have not passed
    outbox,            \* what a running sendImages has still to send
    crashed,           \* sendImages has unwrapped an absent image
    received,          \* pictures received so far
    connected,         \* session.connectedPeers
    changes,           \* peers that have left so far
    wire,              \* wire[p]: pictures on their way to p
    peerImages,        \* peerImages[p]: the image views of p
    elsewhere          \* elsewhere[p]: how often p's views were set by others so far

groupVars == <<pressed, scheduled, running, count, registered, due>>
viewVars  == <<transferEnabled, images, received>>
sendVars  == <<sends, outbox, crashed>>
peerVars  == <<connected, changes, wire, peerImages, elsewhere>>
vars      == <<groupVars, viewVars, sendVars, peerVars>>

Slots      == 1..SlotCount
Presses    == 1..MaxPresses
Views      == [Slots -> Slots \cup {NoImage}]
Download   == Presses \X Slots
Notice     == [press : Presses, kind : {"download", "transfer"}]
Unfinished == scheduled \cup running

\* The main thread is between two closures.
MainThread == outbox = <<>> /\ ~crashed

-----------------------------------------------------------------------------
(* Downloads.                                                              *)

\* Slip: the group is entered by nobody.
AskUncounted(kind) ==
    /\ MainThread
    /\ pressed < MaxPresses
    /\ pressed' = pressed + 1
    /\ scheduled' = scheduled \cup ({pressed'} \X Slots)
    /\ registered' = registered \cup {[press |-> pressed', kind |-> kind]}
    /\ UNCHANGED <<count, running, due, viewVars, sendVars, peerVars>>

\* The loop of both buttons: enter the group and start a timer for each image,
\* then ask the group to tell when it is empty.
Ask(kind) ==
    /\ MainThread
    /\ pressed < MaxPresses
    /\ pressed' = pressed + 1
    /\ scheduled' = scheduled \cup ({pressed'} \X Slots)
    /\ count' = count + SlotCount
    /\ registered' = registered \cup {[press |-> pressed', kind |-> kind]}
    /\ UNCHANGED <<running, due, viewVars, sendVars, peerVars>>

DownloadButtonPressed == Ask("download")

TransferButtonPressed ==
    /\ transferEnabled
    /\ connected # <<>>
    /\ Ask("transfer")

StartDownload(d) ==
    /\ MainThread
    /\ d \in scheduled
    /\ scheduled' = scheduled \ {d}
    /\ running' = running \cup {d}
    /\ UNCHANGED <<pressed, count, registered, due, viewVars, sendVars, peerVars>>

\* Slip: a notification goes out as soon as any download has left the group.
LeaveEarly ==
    /\ count' = count - 1
    /\ due' = due \cup registered
    /\ registered' = {}

\* The group's last leave submits every notification registered by then.
Leave ==
    /\ count' = count - 1
    /\ due' = IF count = 1 THEN due \cup registered ELSE due
    /\ registered' = IF count = 1 THEN {} ELSE registered

\* Slip: the group is left only after a success.
DownloadEndedUnbalanced(d) ==
    /\ MainThread
    /\ d \in running
    /\ running' = running \ {d}
    /\ \/ images' = [images EXCEPT ![d[2]] = d[2]] /\ Leave
       \/ UNCHANGED <<images, count, due, registered>>
    /\ UNCHANGED <<pressed, scheduled, transferEnabled, received, sendVars, peerVars>>

\* An answer that is no picture empties the view, a failure leaves it alone;
\* the group is left in every case, after the view has been set.
DownloadEnded(d) ==
    /\ MainThread
    /\ d \in running
    /\ running' = running \ {d}
    /\ \E picture \in {d[2], NoImage, images[d[2]]} : images' = [images EXCEPT ![d[2]] = picture]
    /\ Leave
    /\ UNCHANGED <<pressed, scheduled, transferEnabled, received, sendVars, peerVars>>

Notified(n) ==
    /\ MainThread
    /\ n \in due
    /\ due' = due \ {n}
    /\ transferEnabled' = (transferEnabled \/ n.kind = "download")
    /\ sends' = IF n.kind = "transfer" THEN sends + 1 ELSE sends
    /\ UNCHANGED <<pressed, scheduled, running, count, registered, images, received,
                   outbox, crashed, peerVars>>

-----------------------------------------------------------------------------
(* Sending.                                                                *)

\* sendImages reads all the views first, then sends one image after the other.
SendImages ==
    /\ MainThread
    /\ sends > 0
    /\ sends' = sends - 1
    /\ outbox' = images
    /\ UNCHANGED <<crashed, groupVars, viewVars, peerVars>>

\* Slip: the images go out last first.
SendNextReversed ==
    /\ outbox # <<>> /\ ~crashed
    /\ connected # <<>>
    /\ outbox[Len(outbox)] # NoImage
    /\ wire' = [wire EXCEPT ![Head(connected)] = Append(@, outbox[Len(outbox)])]
    /\ outbox' = SubSeq(outbox, 1, Len(outbox) - 1)
    /\ UNCHANGED <<sends, crashed, connected, changes, peerImages, elsewhere, groupVars, viewVars>>

\* Each image goes to whoever is the session's first peer by then, or nowhere;
\* only with a peer is the image unwrapped.
SendNext ==
    /\ outbox # <<>> /\ ~crashed
    /\ \/ /\ connected = <<>>
          /\ outbox' = Tail(outbox)
          /\ UNCHANGED <<crashed, wire>>
       \/ /\ connected # <<>> /\ Head(outbox) = NoImage
          /\ crashed' = TRUE
          /\ UNCHANGED <<outbox, wire>>
       \/ /\ connected # <<>> /\ Head(outbox) # NoImage
          /\ wire' = [wire EXCEPT ![Head(connected)] = Append(@, Head(outbox))]
          /\ outbox' = Tail(outbox)
          /\ UNCHANGED crashed
    /\ UNCHANGED <<sends, connected, changes, peerImages, elsewhere, groupVars, viewVars>>

\* The first peer leaves between the loop's look at it and the send, which
\* throws; the loop prints the error and goes on.
SendThrows ==
    /\ outbox # <<>> /\ ~crashed
    /\ connected # <<>> /\ Head(outbox) # NoImage
    /\ changes < MaxChanges
    /\ changes' = changes + 1
    /\ connected' = Tail(connected)
    /\ wire' = [wire EXCEPT ![Head(connected)] = <<>>]
    /\ outbox' = Tail(outbox)
    /\ UNCHANGED <<sends, crashed, peerImages, elsewhere, groupVars, viewVars>>

-----------------------------------------------------------------------------
(* The session, on a thread of its own.                                    *)

Joined == ElementsOf(connected)

PeerJoins(p) ==
    /\ p \notin Joined
    /\ connected' = Append(connected, p)
    /\ UNCHANGED <<changes, wire, peerImages, elsewhere, groupVars, viewVars, sendVars>>

PeerLeaves(p) ==
    /\ p \in Joined
    /\ changes < MaxChanges
    /\ changes' = changes + 1
    /\ connected' = Only(connected, Peers \ {p})
    /\ wire' = [wire EXCEPT ![p] = <<>>]
    /\ UNCHANGED <<peerImages, elsewhere, groupVars, viewVars, sendVars>>

\* A received picture takes the first empty view, if there is one.
FillFirst(views, picture) ==
    LET empty == {i \in Slots : views[i] = NoImage}
    IN  IF empty = {} THEN views
        ELSE [views EXCEPT ![CHOOSE i \in empty : \A j \in empty : i <= j] = picture]

Deliver(p) ==
    /\ wire[p] # <<>>
    /\ peerImages' = [peerImages EXCEPT ![p] = FillFirst(@, Head(wire[p]))]
    /\ wire' = [wire EXCEPT ![p] = Tail(@)]
    /\ UNCHANGED <<connected, changes, elsewhere, groupVars, viewVars, sendVars>>

\* A peer is the same program: in the session or not yet, the end of a download
\* of its own sets the view of that number, and a picture from a third device
\* takes its first empty view.
ViewSetElsewhere(p) ==
    /\ elsewhere[p] < MaxElsewhere
    /\ elsewhere' = [elsewhere EXCEPT ![p] = @ + 1]
    /\ \/ \E i \in Slots, own \in BOOLEAN :
             peerImages' = [peerImages EXCEPT ![p][i] = IF own THEN i ELSE NoImage]
       \/ \E picture \in Slots :
             peerImages' = [peerImages EXCEPT ![p] = FillFirst(@, picture)]
    /\ UNCHANGED <<connected, changes, wire, groupVars, viewVars, sendVars>>

\* A peer may send this device its images too.
Receive(picture) ==
    /\ MainThread
    /\ received < MaxReceived
    /\ received' = received + 1
    /\ images' = FillFirst(images, picture)
    /\ UNCHANGED <<transferEnabled, groupVars, sendVars, peerVars>>

-----------------------------------------------------------------------------
Init ==
    /\ pressed = 0 /\ scheduled = {} /\ running = {} /\ count = 0
    /\ registered = {} /\ due = {}
    /\ transferEnabled = FALSE
    /\ images = [i \in Slots |-> NoImage]
    /\ sends = 0 /\ outbox = <<>> /\ crashed = FALSE /\ received = 0
    /\ connected = <<>> /\ changes = 0
    /\ wire = [p \in Peers |-> <<>>]
    /\ peerImages = [p \in Peers |-> [i \in Slots |-> NoImage]]
    /\ elsewhere = [p \in Peers |-> 0]

Next ==
    \/ DownloadButtonPressed \/ TransferButtonPressed
    \/ \E d \in Download : StartDownload(d) \/ DownloadEnded(d)
    \/ \E n \in Notice : Notified(n)
    \/ SendImages \/ SendNext \/ SendThrows
    \/ \E p \in Peers : PeerJoins(p) \/ PeerLeaves(p) \/ Deliver(p) \/ ViewSetElsewhere(p)
    \/ \E picture \in Slots : Receive(picture)

Spec == Init /\ [][Next]_vars

\* Timers fire, downloads end, the main queue drains, the sending loop runs on.
Fairness ==
    /\ \A d \in Download : WF_vars(StartDownload(d)) /\ WF_vars(DownloadEnded(d))
    /\ \A n \in Notice : WF_vars(Notified(n))
    /\ WF_vars(SendImages) /\ WF_vars(SendNext)

FairSpec == Spec /\ Fairness
-----------------------------------------------------------------------------
(* Properties.                                                             *)

\* Views hold pictures, the queues hold pictures or empty places, and the group
\* counts what there is to count.
TypeOK ==
    /\ pressed \in 0..MaxPresses
    /\ scheduled \subseteq Download /\ running \subseteq Download
    /\ count \in Nat
    /\ registered \subseteq Notice /\ due \subseteq Notice
    /\ transferEnabled \in BOOLEAN /\ crashed \in BOOLEAN
    /\ images \in Views
    /\ sends \in Nat /\ received \in Nat /\ changes \in Nat
    /\ outbox \in Seq(Slots \cup {NoImage})
    /\ connected \in Seq(Peers)
    /\ wire \in [Peers -> Seq(Slots)]
    /\ peerImages \in [Peers -> Views] /\ elsewhere \in [Peers -> Nat]

\* The group's count is the number of downloads scheduled or running, and no
\* notification is left behind in an empty group.
GroupBalanced ==
    /\ count = Cardinality(Unfinished)
    /\ count = 0 => registered = {}

\* Each press by itself is answered once, after its own downloads: presses that
\* share the group may delay one another's answer, never bring it forward.
Batches == INSTANCE DownloadBatches WITH
    remaining <- [b \in Presses |-> {i \in Slots : <<b, i>> \in Unfinished}],
    answer    <- [b \in Presses |-> IF b > pressed THEN "none"
                                    ELSE IF \E n \in registered \cup due : n.press = b THEN "due"
                                    ELSE "given"]
ImplementsBatches == Batches!Spec

\* As long as no peer has left and none has sent, a peer that is sent images,
\* which are not numbered, shows each of them in the view of its own number,
\* if nothing else has set its views, whatever the other peers show.
PicturesInPlace ==
    changes = 0 /\ received = 0 =>
        \A p \in Peers, i \in Slots : elsewhere[p] = 0 => peerImages[p][i] \in {NoImage, i}

\* Every press is answered, unless the app has crashed.
EveryPressAnswered ==
    \A b \in Presses : pressed >= b ~>
        crashed \/ \A n \in registered \cup due : n.press # b

\* sendImages unwraps the images without a look (line 162): it may, if all of
\* them are there, as line 95's "All downloads completed. Sending images." says.
ImagesThere == ~crashed
=============================================================================
