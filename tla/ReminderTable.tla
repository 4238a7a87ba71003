---------------------------- MODULE ReminderTable ----------------------------
(***************************************************************************)
(* The rows of Home's table.  Reminders come and go by snapshots (view,    *)
(* inbox and shown of LaggingMirror, the last being originalRemindersArr), *)
(* while everything a row knows of itself is a position: its expansion     *)
(* flag, and the index path its press action has captured.  A swipe takes  *)
(* one cell out and leaves the other cells as they are until the table is  *)
(* loaded again.                                                           *)
(*                                                                         *)
(* A list is a sequence of reminders.  All rows count as visible; on a     *)
(* small screen a cell is made when its row is scrolled to.                *)
(***************************************************************************)
EXTENDS LaggingMirror, FiniteSets, Selections

CONSTANTS
    Hits,         \* sets of reminders a search text may find
    MaxChanges    \* bound: changes of the view, by the user or not

\* Lists are sequences of reminders, and a screen that was sent nothing has none.
Rows  == UNION {ElementsOf(v) : v \in Views}
Lists == Seq(Rows)

ASSUME ListsAssumption == Nothing = <<>> /\ \A v \in Views : v \in Lists

VARIABLES
    filteredRemindersArr,   \* the array behind the table
    cells,                  \* the cells the table shows, one per row
    isCellExpandedArr,      \* ten flags, by row
    pressed,                \* the row captured by the cell under a long press, 0 for none
    crashed,                \* an index was out of range
    changes                 \* changes so far

tableVars == <<filteredRemindersArr, cells, isCellExpandedArr, pressed, crashed>>
vars      == <<mirrorVars, tableVars, changes>>

Without(list, r) == Only(list, ElementsOf(list) \ {r})
Found(list, hit) == Only(list, hit)
RemovedAt(s, i)  == SubSeq(s, 1, i - 1) \o SubSeq(s, i + 1, Len(s))

Flags == [i \in 1..10 |-> FALSE]

\* Slip: the cell counts its row from zero.
CellForRowFromZero(list, i) == [reminder |-> list[i], expanded |-> isCellExpandedArr[i], row |-> i - 1]

CellForRow(list, i) == [reminder |-> list[i], expanded |-> isCellExpandedArr[i], row |-> i]

\* The table asks for a cell for every row of the array.
ReloadData(list) ==
    /\ filteredRemindersArr' = list
    /\ IF Len(list) > Len(isCellExpandedArr)
       THEN crashed' = TRUE /\ UNCHANGED cells
       ELSE cells' = [i \in DOMAIN list |-> CellForRow(list, i)] /\ UNCHANGED crashed

-----------------------------------------------------------------------------
SnapshotReceived ==
    /\ Take
    /\ ReloadData(Head(inbox))
    /\ UNCHANGED <<isCellExpandedArr, pressed, changes>>

TextDidChange(hit) ==
    /\ ReloadData(Found(shown, hit))
    /\ UNCHANGED <<mirrorVars, isCellExpandedArr, pressed, changes>>

ViewWillAppear ==
    /\ ReloadData(filteredRemindersArr)
    /\ UNCHANGED <<mirrorVars, isCellExpandedArr, pressed, changes>>

\* Slip: the row goes, but no deletion is written.
DeleteActionUnsent(i) ==
    /\ changes < MaxChanges
    /\ changes' = changes + 1
    /\ filteredRemindersArr' = RemovedAt(filteredRemindersArr, i)
    /\ cells' = RemovedAt(cells, i)
    /\ UNCHANGED <<mirrorVars, isCellExpandedArr, pressed, crashed>>

\* Slip: the array waits for the snapshot.
DeleteActionLate(i) ==
    /\ changes < MaxChanges
    /\ changes' = changes + 1
    /\ Change(Without(view, filteredRemindersArr[i]), 0)
    /\ cells' = RemovedAt(cells, i)
    /\ UNCHANGED <<filteredRemindersArr, isCellExpandedArr, pressed, crashed>>

\* The row that is swiped goes from the array, its deletion is written, and the
\* swipe takes its cell out of the table; no other cell is asked for.
DeleteAction(i) ==
    /\ changes < MaxChanges
    /\ changes' = changes + 1
    /\ filteredRemindersArr' = RemovedAt(filteredRemindersArr, i)
    /\ Change(Without(view, filteredRemindersArr[i]), 0)
    /\ cells' = RemovedAt(cells, i)
    /\ UNCHANGED <<isCellExpandedArr, pressed, crashed>>

\* Slip: the row is not loaded again.
DoubleTapActionUnseen(row) ==
    /\ isCellExpandedArr' = [isCellExpandedArr EXCEPT ![row] = ~@]
    /\ crashed' = (row > Len(filteredRemindersArr))
    /\ UNCHANGED <<mirrorVars, filteredRemindersArr, cells, changes>>

\* The flag of the captured row is toggled and that row loaded again.
DoubleTapAction(row) ==
    /\ isCellExpandedArr' = [isCellExpandedArr EXCEPT ![row] = ~@]
    /\ crashed' = (row > Len(filteredRemindersArr))
    /\ cells' = IF crashed' THEN cells
                ELSE [cells EXCEPT ![row] =
                        [CellForRow(filteredRemindersArr, row) EXCEPT !.expanded = ~@]]
    /\ UNCHANGED <<mirrorVars, filteredRemindersArr, changes>>

\* The recognizer calls its cell when a press begins, moves and ends.
PressBegins(i) ==
    /\ pressed = 0
    /\ DoubleTapAction(cells[i].row)
    /\ pressed' = cells[i].row

PressMoves ==
    /\ pressed # 0
    /\ DoubleTapAction(pressed)
    /\ UNCHANGED pressed

PressEnds ==
    /\ pressed # 0
    /\ DoubleTapAction(pressed)
    /\ pressed' = 0

\* Other screens, other devices and the server.
ViewChanges ==
    /\ changes < MaxChanges
    /\ changes' = changes + 1
    /\ \/ \E v \in Views, n \in Newcomers : Change(v, n)
       \/ Refused
    /\ UNCHANGED tableVars

Relaunch ==
    /\ changes < MaxChanges
    /\ changes' = changes + 1
    /\ Launch
    /\ filteredRemindersArr' = Nothing /\ cells' = <<>>
    /\ isCellExpandedArr' = Flags /\ pressed' = 0 /\ crashed' = FALSE

-----------------------------------------------------------------------------
Init == /\ MirrorInit
        /\ filteredRemindersArr = Nothing /\ cells = <<>>
        /\ isCellExpandedArr = Flags /\ pressed = 0 /\ crashed = FALSE /\ changes = 0

Running == \/ SnapshotReceived \/ ViewWillAppear
           \/ \E hit \in Hits : TextDidChange(hit)
           \/ \E i \in DOMAIN cells : DeleteAction(i) \/ PressBegins(i)
           \/ PressMoves \/ PressEnds

Next == (~crashed /\ Running) \/ ViewChanges \/ Relaunch

Spec == Init /\ [][Next]_vars
-----------------------------------------------------------------------------
(* Properties.                                                             *)

\* Lists hold reminders, a cell is one of ten rows, and counters are in range.
Cell == [reminder : Rows, expanded : BOOLEAN, row : 1..10]
TypeOK ==
    /\ view \in Lists /\ listeners \in Nat /\ inbox \in Seq(Lists) /\ shown \in Lists
    /\ filteredRemindersArr \in Lists /\ cells \in Seq(Cell)
    /\ isCellExpandedArr \in [1..10 -> BOOLEAN] /\ pressed \in 0..10 /\ crashed \in BOOLEAN

\* The table always shows the reminders of the array, row by row, as UIKit
\* demands when a cell is taken out, and no cell takes itself for a row above
\* its own: a swipe edits the array, the table and the collection in one step.
TableMatchesArray ==
    ~crashed => /\ DOMAIN cells = DOMAIN filteredRemindersArr
                /\ \A i \in DOMAIN cells : /\ cells[i].reminder = filteredRemindersArr[i]
                                           /\ cells[i].row >= i

\* While Home listens and no snapshot is on its way, every cell answers for its
\* own row and looks as its flag says: the cells a swipe has left with an old
\* index are put right by the snapshot the swipe itself causes.
CellsSettle ==
    ~crashed /\ listeners > 0 /\ inbox = <<>> =>
        \A i \in DOMAIN cells : cells[i] = CellForRow(filteredRemindersArr, i)

\* With a settled table nothing a finger does puts an index out of range.
TouchIsSafe ==
    [][listeners > 0 /\ inbox = <<>> /\ pressed = 0 /\ ~crashed => ~crashed']_vars

\* "Initialize the cell expansion states" (Home, line 436): every row the table
\* is loaded with has a state.
EveryRowHasAState == Len(filteredRemindersArr) <= Len(isCellExpandedArr)
=============================================================================
