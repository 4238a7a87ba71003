------------------------- MODULE ReminderTable_proofs -------------------------
(***************************************************************************)
(* What the table rests on and what it promises, for any reminders, any    *)
(* number of listeners and any searches.  First the lagging mirror its     *)
(* reminders come from, one lemma per step; then the rows.                 *)
(***************************************************************************)
EXTENDS ReminderTable, Selections_proofs

-----------------------------------------------------------------------------
(* The mirror.                                                             *)

\* Whoever still listens has been sent the view, or shows it.
MirrorCatchesUp ==
    listeners > 0 => view = IF inbox = <<>> THEN shown ELSE inbox[Len(inbox)]

MirrorInv ==
    /\ listeners \in Nat
    /\ \E S : inbox \in Seq(S)
    /\ MirrorCatchesUp

\* Copies of a view are a sequence, which ends with the view if there are any.
LEMMA CopiesAreNewest ==
    ASSUME NEW S, NEW q \in Seq(S), NEW v, NEW n \in Nat
    PROVE  /\ q \o Copies(n, v) \in Seq(S \cup {v})
           /\ n > 0 => /\ q \o Copies(n, v) # <<>>
                       /\ (q \o Copies(n, v))[Len(q \o Copies(n, v))] = v
           /\ n = 0 => q \o Copies(n, v) = q
<1> DEFINE T == S \cup {v}
<1>1. q \in Seq(T) /\ v \in T
  BY SeqDef
<1> HIDE DEF T
<1>2. Copies(n, v) \in Seq(T) /\ Len(Copies(n, v)) = n
      /\ \A i \in 1..n : Copies(n, v)[i] = v
  BY <1>1 DEF Copies
<1>3. q \o Copies(n, v) \in Seq(T) /\ Len(q \o Copies(n, v)) = Len(q) + n
  BY <1>1, <1>2
<1>4. CASE n > 0
  <2>1. (q \o Copies(n, v))[Len(q) + n] = v
    BY <1>1, <1>2, <1>4
  <2>2. q \o Copies(n, v) # <<>>
    BY <1>1, <1>3, <1>4
  <2> QED  BY <1>3, <1>4, <2>1, <2>2 DEF T
<1>5. CASE n = 0
  BY <1>1, <1>2, <1>3, <1>5 DEF T
<1> QED  BY <1>4, <1>5

\* Either everybody who listens is sent the new view, or the view is the same
\* and no new listener waits for it.
LEMMA ChangeKeepsInv ==
    ASSUME MirrorInv, NEW v, NEW n \in Nat, Change(v, n)
    PROVE  MirrorInv'
<1> DEFINE told == (IF v # view THEN listeners ELSE 0) + n
<1>1. listeners \in Nat /\ told \in Nat /\ listeners' \in Nat
  BY DEF MirrorInv, Change
<1>2. view' = v /\ listeners' = listeners + n /\ inbox' = inbox \o Copies(told, v) /\ shown' = shown
  BY DEF Change
<1>3. PICK S : inbox \in Seq(S)
  BY DEF MirrorInv
<1>4. (told > 0 \/ told = 0) /\ (told = 0 => n = 0 /\ (v # view => listeners = 0))
  BY <1>1
<1> HIDE DEF told
<1>5. /\ inbox' \in Seq(S \cup {v})
      /\ told > 0 => inbox' # <<>> /\ inbox'[Len(inbox')] = v
      /\ told = 0 => inbox' = inbox
  <2>1. /\ inbox \o Copies(told, v) \in Seq(S \cup {v})
        /\ told > 0 => /\ inbox \o Copies(told, v) # <<>>
                       /\ (inbox \o Copies(told, v))[Len(inbox \o Copies(told, v))] = v
        /\ told = 0 => inbox \o Copies(told, v) = inbox
    BY <1>1, <1>3, CopiesAreNewest, Zenon
  <2> QED  BY <1>2, <2>1, Zenon
<1>6. MirrorCatchesUp'
  <2>1. CASE told > 0
    BY <1>2, <1>5, <2>1 DEF MirrorCatchesUp
  <2>2. CASE told = 0
    BY <1>1, <1>2, <1>4, <1>5, <2>2 DEF MirrorInv, MirrorCatchesUp
  <2> QED  BY <1>4, <2>1, <2>2
<1> QED  BY <1>1, <1>5, <1>6 DEF MirrorInv

\* The screen takes the oldest view; the newest stays, or is the one it takes.
LEMMA TakeKeepsInv == ASSUME MirrorInv, Take PROVE MirrorInv'
<1>1. PICK S : inbox \in Seq(S)
  BY DEF MirrorInv
<1>2. /\ inbox # <<>> /\ inbox' = Tail(inbox) /\ shown' = Head(inbox)
      /\ view' = view /\ listeners' = listeners
  BY DEF Take
<1>3. /\ Len(inbox) \in Nat \ {0} /\ inbox' \in Seq(S) /\ Len(inbox') = Len(inbox) - 1
      /\ shown' = inbox[1]
  BY <1>1, <1>2
<1>4. CASE Len(inbox) = 1
  BY <1>1, <1>2, <1>3, <1>4 DEF MirrorInv, MirrorCatchesUp
<1>5. CASE Len(inbox) > 1
  <2>1. inbox' # <<>> /\ inbox'[Len(inbox')] = inbox[Len(inbox)]
    BY <1>1, <1>2, <1>3, <1>5, HeadTailProperties
  <2> QED  BY <1>2, <1>3, <2>1 DEF MirrorInv, MirrorCatchesUp
<1> QED  BY <1>3, <1>4, <1>5

\* Nobody listens any more, and nothing is promised.
LEMMA RefusedKeepsInv == ASSUME MirrorInv, Refused PROVE MirrorInv'
<1>1. listeners' = 0 /\ inbox' = inbox
  BY DEF Refused
<1> QED  BY <1>1 DEF MirrorInv, MirrorCatchesUp

\* A new process has been sent the view, or is not listened to yet.
LEMMA LaunchKeepsInv == ASSUME MirrorInv, Launch PROVE MirrorInv'
<1>1. PICK n \in {0, 1} : listeners' = n /\ inbox' = Copies(n, view) /\ view' = view
  BY DEF Launch
<1>2. CASE n = 0
  <2>1. inbox' = <<>> /\ inbox' \in Seq({view}) /\ listeners' = 0
    BY <1>1, <1>2 DEF Copies
  <2> QED  BY <2>1 DEF MirrorInv, MirrorCatchesUp
<1>3. CASE n = 1
  <2>1. inbox' = <<view>> /\ listeners' = 1
    BY <1>1, <1>3 DEF Copies
  <2>2. inbox' \in Seq({view}) /\ Len(inbox') = 1 /\ inbox'[1] = view /\ inbox' # <<>>
    BY <2>1
  <2>3. MirrorCatchesUp'
    BY <1>1, <2>1, <2>2 DEF MirrorCatchesUp
  <2>4. \E S : inbox' \in Seq(S)
    BY <2>2
  <2> QED  BY <2>1, <2>3, <2>4 DEF MirrorInv
<1> QED  BY <1>2, <1>3

\* A step that leaves the mirror alone.
LEMMA StutterKeepsInv == ASSUME MirrorInv, UNCHANGED mirrorVars PROVE MirrorInv'
  BY DEF mirrorVars, MirrorInv, MirrorCatchesUp

-----------------------------------------------------------------------------
(* Lists.                                                                  *)

\* The selections Home makes are lists, of reminders that were in the list.
LEMMA FoundIsList ==
    ASSUME NEW T, NEW list \in Seq(T), NEW hit
    PROVE  /\ Found(list, hit) \in Seq(T)
           /\ ElementsOf(Found(list, hit)) \subseteq ElementsOf(list)
           /\ Len(Found(list, hit)) <= Len(list)
<1>1. list \in Seq(ElementsOf(list))
  BY DEF ElementsOf
<1>2. Found(list, hit) \in Seq(ElementsOf(list) \cap hit) /\ Len(Found(list, hit)) <= Len(list)
  BY <1>1, OnlyIsSeq DEF Found
<1>3. ElementsOf(list) \subseteq T
  BY DEF ElementsOf
<1>4. Found(list, hit) \in Seq(T)
  BY <1>2, <1>3, SeqMonotonic
<1>5. ElementsOf(Found(list, hit)) \subseteq ElementsOf(list)
  BY <1>2 DEF ElementsOf
<1> QED  BY <1>2, <1>4, <1>5

LEMMA WithoutIsList ==
    ASSUME NEW T, NEW list \in Seq(T), NEW r
    PROVE  /\ Without(list, r) \in Seq(T)
           /\ r \in ElementsOf(list) => Without(list, r) # list
<1>1. list \in Seq(ElementsOf(list)) /\ ElementsOf(list) \subseteq T
  BY DEF ElementsOf
<1>2. Without(list, r) \in Seq(ElementsOf(list) \cap (ElementsOf(list) \ {r}))
  BY <1>1, OnlyIsSeq DEF Without
<1>3. Without(list, r) \in Seq(T)
  BY <1>1, <1>2, SeqMonotonic
<1>4. r \notin ElementsOf(Without(list, r))
  BY <1>2 DEF ElementsOf
<1> QED  BY <1>3, <1>4

\* A row is taken out and the rows below it move up.
LEMMA RemovedMovesUp ==
    ASSUME NEW T, NEW s \in Seq(T), NEW i \in DOMAIN s
    PROVE  /\ RemovedAt(s, i) \in Seq(T)
           /\ DOMAIN RemovedAt(s, i) = 1..Len(s) - 1
           /\ \A j \in 1..Len(s) - 1 :
                 RemovedAt(s, i)[j] = IF j < i THEN s[j] ELSE s[j + 1]
<1>1. PICK n \in Nat : n = Len(s)
  OBVIOUS
<1>2. i \in 1..n /\ \A j \in 1..n : s[j] \in T
  BY <1>1
<1>3. PICK a : a = SubSeq(s, 1, i - 1)
  OBVIOUS
<1>4. a \in Seq(T) /\ Len(a) = i - 1 /\ \A j \in 1..i - 1 : a[j] = s[j]
  <2>1. \A j \in 1..i - 1 : s[j] \in T
    BY <1>2
  <2>2. /\ a \in Seq(T)
        /\ Len(a) = IF 1 <= i - 1 THEN i - 1 - 1 + 1 ELSE 0
        /\ \A j \in 1..i - 1 - 1 + 1 : a[j] = s[1 + j - 1]
    BY <1>2, <1>3, <2>1, SubSeqProperties, 1 \in Int, i - 1 \in Int
  <2> QED  BY <1>2, <2>2
<1>5. PICK b : b = SubSeq(s, i + 1, n)
  OBVIOUS
<1>6. b \in Seq(T) /\ Len(b) = n - i /\ \A j \in 1..n - i : b[j] = s[i + j]
  <2>1. \A j \in i + 1..n : s[j] \in T
    BY <1>2
  <2>2. /\ b \in Seq(T)
        /\ Len(b) = IF i + 1 <= n THEN n - (i + 1) + 1 ELSE 0
        /\ \A j \in 1..n - (i + 1) + 1 : b[j] = s[i + 1 + j - 1]
    BY <1>2, <1>5, <2>1, SubSeqProperties, i + 1 \in Int, n \in Int
  <2> QED  BY <1>2, <2>2
<1>7. PICK c : c = a \o b
  OBVIOUS
<1>8. c \in Seq(T) /\ Len(c) = n - 1 /\ DOMAIN c = 1..n - 1
      /\ \A j \in 1..n - 1 : c[j] = IF j <= i - 1 THEN a[j] ELSE b[j - (i - 1)]
  <2>1. PICK k \in Nat, m \in Nat : k = i - 1 /\ m = n - i /\ k + m = n - 1
    BY <1>2
  <2>2. Len(a) = k /\ Len(b) = m
    BY <1>4, <1>6, <2>1
  <2>3. c \in Seq(T) /\ Len(c) = k + m /\ \A j \in 1..k + m : c[j] = IF j <= k THEN a[j] ELSE b[j - k]
    BY <1>4, <1>6, <1>7, <2>2, ConcatProperties
  <2> QED  BY <2>1, <2>3
<1>9. ASSUME NEW j \in 1..n - 1 PROVE c[j] = IF j < i THEN s[j] ELSE s[j + 1]
  <2>1. CASE j < i
    BY <1>2, <1>4, <1>8, <2>1
  <2>2. CASE ~(j < i)
    <3>1. j - (i - 1) \in 1..n - i /\ ~(j <= i - 1) /\ i + (j - (i - 1)) = j + 1
      BY <1>2, <2>2
    <3> QED  BY <1>6, <1>8, <2>2, <3>1
  <2> QED  BY <2>1, <2>2
<1>10. RemovedAt(s, i) = c
  BY <1>1, <1>3, <1>5, <1>7 DEF RemovedAt
<1> QED  BY <1>1, <1>8, <1>9, <1>10

-----------------------------------------------------------------------------
(* The table's mirror.                                                     *)

\* Each step of the table changes the mirror in one of its ways, or not at all.
LEMMA TableStepKeepsMirror == ASSUME MirrorInv, [Next]_vars PROVE MirrorInv'
<1>1. CASE SnapshotReceived
  BY <1>1, TakeKeepsInv DEF SnapshotReceived
<1>2. CASE ViewWillAppear
  BY <1>2, StutterKeepsInv DEF ViewWillAppear
<1>3. CASE \E hit \in Hits : TextDidChange(hit)
  BY <1>3, StutterKeepsInv DEF TextDidChange
<1>4. ASSUME NEW i \in DOMAIN cells, DeleteAction(i) PROVE MirrorInv'
  <2>1. Change(Without(view, filteredRemindersArr[i]), 0) /\ 0 \in Nat
    BY <1>4 DEF DeleteAction
  <2> QED  BY <2>1, ChangeKeepsInv, Zenon
<1>5. CASE (\E i \in DOMAIN cells : PressBegins(i)) \/ PressMoves \/ PressEnds
  BY <1>5, StutterKeepsInv DEF PressBegins, PressMoves, PressEnds, DoubleTapAction
<1>6. CASE ViewChanges
  <2>1. CASE Refused
    BY <2>1, RefusedKeepsInv
  <2>2. CASE \E v \in Views, n \in Newcomers : Change(v, n)
    BY <2>2, ChangeKeepsInv, MirrorAssumption
  <2> QED  BY <1>6, <2>1, <2>2 DEF ViewChanges
<1>7. CASE Relaunch
  BY <1>7, LaunchKeepsInv DEF Relaunch
<1>8. CASE UNCHANGED vars
  BY <1>8, StutterKeepsInv DEF vars
<1> QED  BY <1>1, <1>2, <1>3, <1>4, <1>5, <1>6, <1>7, <1>8 DEF Next, Running

-----------------------------------------------------------------------------
(* The rows.                                                               *)

\* What the types say of the mirror, and of the table.
MirrorTypeOK ==
    view \in Lists /\ listeners \in Nat /\ inbox \in Seq(Lists) /\ shown \in Lists
TableTypeOK ==
    /\ filteredRemindersArr \in Lists /\ cells \in Seq(Cell)
    /\ isCellExpandedArr \in [1..10 -> BOOLEAN] /\ pressed \in 0..10 /\ crashed \in BOOLEAN

\* The rows come from the last snapshot taken, by a search or by swipes; and
\* a snapshot of more than ten reminders has not been survived.
RowsShown == ElementsOf(filteredRemindersArr) \subseteq ElementsOf(shown)
TenAtMost == ~crashed => Len(shown) <= 10

\* The inductive invariant.
TableInv == /\ TypeOK /\ MirrorCatchesUp /\ TableMatchesArray /\ CellsSettle
            /\ RowsShown /\ TenAtMost

LEMMA TypesOfBoth ==
    /\ TypeOK <=> MirrorTypeOK /\ TableTypeOK
    /\ TypeOK' <=> MirrorTypeOK' /\ TableTypeOK'
  BY DEF TypeOK, MirrorTypeOK, TableTypeOK

LEMMA TenFlags == isCellExpandedArr \in [1..10 -> BOOLEAN] => Len(isCellExpandedArr) = 10
  OBVIOUS

\* A cell made for a row of the array is a cell of the table.
LEMMA CellIsCell ==
    ASSUME TableTypeOK, NEW list \in Lists, NEW i \in DOMAIN list, i <= 10
    PROVE  /\ CellForRow(list, i) \in Cell
           /\ CellForRow(list, i).reminder = list[i]
           /\ CellForRow(list, i).expanded = isCellExpandedArr[i]
           /\ CellForRow(list, i).row = i
<1>1. i \in 1..10 /\ list[i] \in Rows
  BY DEF Lists
<1>2. isCellExpandedArr[i] \in BOOLEAN
  BY <1>1 DEF TableTypeOK
<1> QED  BY <1>1, <1>2 DEF CellForRow, Cell

\* Loading the table crashes with more than ten rows; otherwise every cell is
\* made anew for its own row.
LEMMA ReloadedTable ==
    ASSUME TableTypeOK, NEW list \in Lists, ReloadData(list), ~crashed,
           UNCHANGED <<isCellExpandedArr, pressed>>
    PROVE  /\ TableTypeOK' /\ TableMatchesArray' /\ CellsSettle'
           /\ filteredRemindersArr' = list
           /\ crashed' <=> Len(list) > 10
<1>1. filteredRemindersArr' = list /\ Len(isCellExpandedArr) = 10
  BY TenFlags DEF ReloadData, TableTypeOK
<1>2. isCellExpandedArr' = isCellExpandedArr /\ pressed' = pressed
  OBVIOUS
<1>3. PICK n \in Nat : n = Len(list) /\ DOMAIN list = 1..n
  BY DEF Lists
<1>4. CASE n > 10
  <2>1. crashed' = TRUE /\ cells' = cells
    BY <1>1, <1>3, <1>4 DEF ReloadData
  <2>2. TableTypeOK'
    BY <1>1, <1>2, <2>1 DEF TableTypeOK
  <2> QED  BY <1>1, <1>3, <1>4, <2>1, <2>2 DEF TableMatchesArray, CellsSettle
<1>5. CASE ~(n > 10)
  <2>1. cells' = [i \in 1..n |-> CellForRow(list, i)] /\ crashed' = FALSE
    BY <1>1, <1>3, <1>5 DEF ReloadData
  <2>2. ASSUME NEW i \in 1..n
        PROVE  /\ CellForRow(list, i) \in Cell
               /\ CellForRow(list, i).reminder = list[i]
               /\ CellForRow(list, i).row = i
    <3>1. i \in DOMAIN list /\ i <= 10
      BY <1>3, <1>5
    <3> QED  BY <3>1, CellIsCell
  <2>3. cells' \in Seq(Cell) /\ DOMAIN cells' = 1..n /\ \A i \in 1..n : cells'[i] = CellForRow(list, i)
    BY <2>1, <2>2
  <2>4. TableTypeOK'
    BY <1>1, <1>2, <2>1, <2>3 DEF TableTypeOK
  <2>5. TableMatchesArray'
    BY <1>1, <1>3, <2>2, <2>3 DEF TableMatchesArray
  <2>6. CellsSettle'
    BY <1>1, <1>2, <2>3 DEF CellsSettle, CellForRow
  <2> QED  BY <1>1, <1>3, <1>5, <2>1, <2>4, <2>5, <2>6
<1> QED  BY <1>4, <1>5

\* A step of the mirror keeps its types.
LEMMA MirrorTypesKept ==
    ASSUME MirrorTypeOK
    PROVE  /\ Take => MirrorTypeOK'
           /\ Refused => MirrorTypeOK'
           /\ Launch => MirrorTypeOK'
           /\ \A v \in Lists, n \in Nat : Change(v, n) => MirrorTypeOK'
           /\ UNCHANGED mirrorVars => MirrorTypeOK'
<1> USE DEF MirrorTypeOK
<1>1. Take => MirrorTypeOK'
  BY DEF Take
<1>2. Refused => MirrorTypeOK'
  BY DEF Refused
<1>3. ASSUME Launch PROVE MirrorTypeOK'
  <2>1. PICK n \in {0, 1} : listeners' = n /\ inbox' = Copies(n, view)
    BY <1>3 DEF Launch
  <2>2. Copies(n, view) \in Seq(Lists) /\ n \in Nat
    BY DEF Copies
  <2>3. shown' \in Lists /\ view' = view
    BY <1>3, ListsAssumption, MirrorAssumption DEF Launch
  <2> QED  BY <2>1, <2>2, <2>3
<1>4. ASSUME NEW v \in Lists, NEW n \in Nat, Change(v, n) PROVE MirrorTypeOK'
  <2>1. PICK k \in Nat : k = (IF v # view THEN listeners ELSE 0) + n
    OBVIOUS
  <2>2. inbox' = inbox \o Copies(k, v) /\ view' = v /\ listeners' = listeners + n /\ shown' = shown
    BY <1>4, <2>1 DEF Change
  <2>3. Copies(k, v) \in Seq(Lists)
    BY DEF Copies
  <2> QED  BY <2>2, <2>3
<1>5. UNCHANGED mirrorVars => MirrorTypeOK'
  BY DEF mirrorVars
<1> QED  BY <1>1, <1>2, <1>3, <1>4, <1>5

\* Only these steps load the table, and with what Home has been sent.
LEMMA LoadingKeepsInv ==
    ASSUME TableInv, ~crashed
    PROVE  /\ SnapshotReceived => TypeOK' /\ TableMatchesArray' /\ CellsSettle' /\ RowsShown' /\ TenAtMost'
           /\ \A hit : TextDidChange(hit) =>
                       TypeOK' /\ TableMatchesArray' /\ CellsSettle' /\ RowsShown' /\ TenAtMost' /\ ~crashed'
           /\ ViewWillAppear =>
                       TypeOK' /\ TableMatchesArray' /\ CellsSettle' /\ RowsShown' /\ TenAtMost' /\ ~crashed'
<1>1. /\ MirrorTypeOK /\ TableTypeOK /\ RowsShown /\ Len(shown) <= 10
      /\ Len(filteredRemindersArr) <= 10
  <2>1. MirrorTypeOK /\ TableTypeOK /\ RowsShown /\ Len(shown) <= 10
    BY TypesOfBoth DEF TableInv, TenAtMost
  <2>2. PICK n \in Nat : n = Len(cells) /\ DOMAIN cells = 1..n
    BY <2>1 DEF TableTypeOK
  <2>3. \A i \in 1..n : cells[i].row >= i /\ cells[i] \in Cell
    BY <2>1, <2>2 DEF TableInv, TableMatchesArray, TableTypeOK
  <2>4. n <= 10
    <3>1. CASE n = 0
      BY <3>1
    <3>2. CASE n > 0
      <4>1. cells[n].row >= n /\ cells[n].row \in 1..10
        BY <2>3, <3>2 DEF Cell
      <4> QED  BY <4>1
    <3> QED  BY <3>1, <3>2
  <2>5. DOMAIN filteredRemindersArr = 1..n /\ filteredRemindersArr \in Seq(Rows)
    BY <2>1, <2>2 DEF TableInv, TableMatchesArray, TableTypeOK, Lists
  <2>6. Len(filteredRemindersArr) = n
    BY <2>5
  <2> QED  BY <2>1, <2>4, <2>6
<1>2. ASSUME SnapshotReceived
      PROVE  TypeOK' /\ TableMatchesArray' /\ CellsSettle' /\ RowsShown' /\ TenAtMost'
  <2>1. Take /\ ReloadData(Head(inbox)) /\ UNCHANGED <<isCellExpandedArr, pressed>>
    BY <1>2 DEF SnapshotReceived
  <2>2. Head(inbox) \in Lists /\ shown' = Head(inbox)
    BY <1>1, <2>1 DEF Take, MirrorTypeOK
  <2>3. /\ TableTypeOK' /\ TableMatchesArray' /\ CellsSettle'
        /\ filteredRemindersArr' = Head(inbox)
        /\ crashed' <=> Len(Head(inbox)) > 10
    BY <1>1, <2>1, <2>2, ReloadedTable
  <2>4. MirrorTypeOK'
    BY <1>1, <2>1, MirrorTypesKept
  <2>5. RowsShown'
    BY <2>2, <2>3 DEF RowsShown
  <2>6. TenAtMost'
    <3>1. Len(Head(inbox)) \in Nat
      BY <2>2 DEF Lists
    <3> QED  BY <2>2, <2>3, <3>1 DEF TenAtMost
  <2> QED  BY <2>3, <2>4, <2>5, <2>6, TypesOfBoth
<1>3. ASSUME NEW list \in Lists, ReloadData(list), UNCHANGED <<mirrorVars, isCellExpandedArr, pressed>>,
             Len(list) <= 10, ElementsOf(list) \subseteq ElementsOf(shown)
      PROVE  TypeOK' /\ TableMatchesArray' /\ CellsSettle' /\ RowsShown' /\ TenAtMost' /\ ~crashed'
  <2>1. /\ TableTypeOK' /\ TableMatchesArray' /\ CellsSettle'
        /\ filteredRemindersArr' = list
        /\ crashed' <=> Len(list) > 10
    BY <1>1, <1>3, ReloadedTable
  <2>2. MirrorTypeOK' /\ shown' = shown
    BY <1>1, <1>3, MirrorTypesKept DEF mirrorVars
  <2>3. ~crashed'
    <3>1. Len(list) \in Nat
      BY DEF Lists
    <3> QED  BY <1>3, <2>1, <3>1
  <2>4. RowsShown' /\ TenAtMost'
    BY <1>1, <1>3, <2>1, <2>2 DEF RowsShown, TenAtMost
  <2> QED  BY <2>1, <2>2, <2>3, <2>4, TypesOfBoth
<1>4. ASSUME NEW hit, TextDidChange(hit)
      PROVE  TypeOK' /\ TableMatchesArray' /\ CellsSettle' /\ RowsShown' /\ TenAtMost' /\ ~crashed'
  <2>1. /\ Found(shown, hit) \in Lists
        /\ ElementsOf(Found(shown, hit)) \subseteq ElementsOf(shown)
        /\ Len(Found(shown, hit)) <= Len(shown)
    BY <1>1, FoundIsList DEF MirrorTypeOK, Lists
  <2>2. PICK list \in Lists : list = Found(shown, hit)
    BY <2>1
  <2>3. Len(list) <= 10
    <3>1. Len(list) \in Nat /\ Len(shown) \in Nat /\ Len(list) <= Len(shown)
      BY <1>1, <2>1, <2>2 DEF MirrorTypeOK, Lists
    <3> QED  BY <1>1, <3>1
  <2> QED  BY <1>3, <1>4, <2>1, <2>2, <2>3 DEF TextDidChange
<1>5. ASSUME ViewWillAppear
      PROVE  TypeOK' /\ TableMatchesArray' /\ CellsSettle' /\ RowsShown' /\ TenAtMost' /\ ~crashed'
  <2>1. PICK list \in Lists : list = filteredRemindersArr
    BY <1>1 DEF TableTypeOK
  <2> QED  BY <1>1, <1>3, <1>5, <2>1 DEF ViewWillAppear, RowsShown
<1> QED  BY <1>2, <1>4, <1>5

\* A swipe: the cells keep what they know, and rows come to lie at or below the
\* row they take themselves for.  If Home listens a snapshot is now on its way,
\* because the reminder was in the view, or one was on its way before.
LEMMA DeletingKeepsInv ==
    ASSUME TableInv, ~crashed, NEW i \in DOMAIN cells, DeleteAction(i)
    PROVE  /\ TypeOK' /\ TableMatchesArray' /\ CellsSettle' /\ RowsShown' /\ TenAtMost' /\ ~crashed'
           /\ listeners' > 0 => inbox' # <<>>
<1>1. MirrorTypeOK /\ TableTypeOK
  BY TypesOfBoth DEF TableInv
<1>2. /\ DOMAIN cells = DOMAIN filteredRemindersArr
      /\ \A j \in DOMAIN cells : cells[j].reminder = filteredRemindersArr[j] /\ cells[j].row >= j
  BY DEF TableInv, TableMatchesArray
<1> DEFINE r == filteredRemindersArr[i]
<1>3. /\ filteredRemindersArr' = RemovedAt(filteredRemindersArr, i)
      /\ cells' = RemovedAt(cells, i)
      /\ Change(Without(view, r), 0)
      /\ UNCHANGED <<isCellExpandedArr, pressed, crashed>>
  BY DEF DeleteAction
<1>4. PICK n \in Nat : /\ DOMAIN cells = 1..n /\ Len(cells) = n
                       /\ DOMAIN filteredRemindersArr = 1..n /\ Len(filteredRemindersArr) = n
  BY <1>1, <1>2 DEF TableTypeOK, Lists
<1>5. /\ cells' \in Seq(Cell) /\ DOMAIN cells' = 1..n - 1
      /\ \A j \in 1..n - 1 : cells'[j] = IF j < i THEN cells[j] ELSE cells[j + 1]
  <2>1. /\ RemovedAt(cells, i) \in Seq(Cell)
        /\ DOMAIN RemovedAt(cells, i) = 1..Len(cells) - 1
        /\ \A j \in 1..Len(cells) - 1 :
              RemovedAt(cells, i)[j] = IF j < i THEN cells[j] ELSE cells[j + 1]
    BY <1>1, RemovedMovesUp DEF TableTypeOK
  <2> QED  BY <1>3, <1>4, <2>1
<1>6. /\ filteredRemindersArr' \in Lists /\ DOMAIN filteredRemindersArr' = 1..n - 1
      /\ \A j \in 1..n - 1 : filteredRemindersArr'[j] =
            IF j < i THEN filteredRemindersArr[j] ELSE filteredRemindersArr[j + 1]
  <2>1. i \in DOMAIN filteredRemindersArr
    BY <1>2
  <2>2. /\ RemovedAt(filteredRemindersArr, i) \in Seq(Rows)
        /\ DOMAIN RemovedAt(filteredRemindersArr, i) = 1..Len(filteredRemindersArr) - 1
        /\ \A j \in 1..Len(filteredRemindersArr) - 1 :
              RemovedAt(filteredRemindersArr, i)[j] =
                 IF j < i THEN filteredRemindersArr[j] ELSE filteredRemindersArr[j + 1]
    BY <1>1, <2>1, RemovedMovesUp DEF TableTypeOK, Lists
  <2> QED  BY <1>3, <1>4, <2>2 DEF Lists
<1>7. TableTypeOK'
  BY <1>1, <1>3, <1>5, <1>6 DEF TableTypeOK
<1>8. Without(view, r) \in Lists /\ (r \in ElementsOf(view) => Without(view, r) # view)
  BY <1>1, WithoutIsList DEF MirrorTypeOK, Lists
<1>9. MirrorTypeOK' /\ shown' = shown
  <2>1. MirrorTypeOK'
    BY <1>1, <1>3, <1>8, MirrorTypesKept, 0 \in Nat
  <2>2. shown' = shown
    BY <1>3 DEF Change
  <2> QED  BY <2>1, <2>2
<1>10. TableMatchesArray'
  <2>1. ASSUME NEW j \in 1..n - 1
        PROVE  cells'[j].reminder = filteredRemindersArr'[j] /\ cells'[j].row >= j
    <3>1. CASE j < i
      <4>1. cells'[j] = cells[j] /\ filteredRemindersArr'[j] = filteredRemindersArr[j] /\ j \in 1..n
        BY <1>5, <1>6, <3>1
      <4> QED  BY <1>2, <1>4, <4>1
    <3>2. CASE ~(j < i)
      <4>1. cells'[j] = cells[j + 1] /\ filteredRemindersArr'[j] = filteredRemindersArr[j + 1]
            /\ j + 1 \in 1..n
        BY <1>5, <1>6, <3>2
      <4>2. cells[j + 1].reminder = filteredRemindersArr[j + 1] /\ cells[j + 1].row >= j + 1
        BY <1>2, <1>4, <4>1
      <4>3. cells[j + 1].row \in 1..10
        <5>1. cells[j + 1] \in Cell
          BY <1>1, <1>4, <4>1 DEF TableTypeOK
        <5> QED  BY <5>1 DEF Cell
      <4> QED  BY <4>1, <4>2, <4>3
    <3> QED  BY <3>1, <3>2
  <2> QED  BY <1>5, <1>6, <2>1 DEF TableMatchesArray
<1>11. RowsShown'
  <2>1. \A j \in 1..n : filteredRemindersArr[j] \in ElementsOf(shown)
    BY <1>4 DEF TableInv, RowsShown, ElementsOf
  <2>2. ASSUME NEW j \in 1..n - 1 PROVE filteredRemindersArr'[j] \in ElementsOf(shown)
    <3>1. j \in 1..n /\ j + 1 \in 1..n
      OBVIOUS
    <3> QED  BY <1>6, <2>1, <3>1
  <2> QED  BY <1>6, <1>9, <2>2 DEF RowsShown, ElementsOf
<1>12. TenAtMost' /\ ~crashed'
  BY <1>3, <1>9 DEF TableInv, TenAtMost
<1>13. listeners' > 0 => inbox' # <<>>
  <2> SUFFICES ASSUME listeners' > 0 PROVE inbox' # <<>>
    OBVIOUS
  <2>1. PICK v \in Lists : v = Without(view, r)
    BY <1>8
  <2>2. PICK k \in Nat : k = (IF v # view THEN listeners ELSE 0) + 0
    BY <1>1 DEF MirrorTypeOK
  <2>3. inbox' = inbox \o Copies(k, v) /\ listeners' = listeners + 0
    BY <1>3, <2>1, <2>2 DEF Change
  <2>4. Copies(k, v) \in Seq(Lists) /\ Len(Copies(k, v)) = k
    BY DEF Copies
  <2>5. CASE inbox # <<>>
    BY <1>1, <2>3, <2>4, <2>5, ConcatEqualIffEmpty DEF MirrorTypeOK
  <2>6. CASE inbox = <<>>
    <3>1. listeners > 0
      BY <1>1, <2>3 DEF MirrorTypeOK
    <3>2. view = shown
      BY <2>6, <3>1 DEF TableInv, MirrorCatchesUp
    <3>3. r \in ElementsOf(shown)
      BY <1>2 DEF TableInv, RowsShown, ElementsOf
    <3>4. k > 0
      BY <1>1, <1>8, <2>1, <2>2, <3>1, <3>2, <3>3 DEF MirrorTypeOK
    <3>5. Copies(k, v) # <<>>
      BY <2>4, <3>4
    <3> QED  BY <1>1, <2>3, <2>4, <3>5, ConcatEqualIffEmpty DEF MirrorTypeOK
  <2> QED  BY <2>5, <2>6
<1>14. CellsSettle'
  BY <1>13 DEF CellsSettle
<1> QED  BY <1>7, <1>9, <1>10, <1>11, <1>12, <1>13, <1>14, TypesOfBoth

\* A press toggles the flag of a row and makes that row's cell again, from the
\* flag before: no other cell depends on the flag once the table has settled.
LEMMA PressingKeepsInv ==
    ASSUME TableInv, ~crashed, NEW row \in 1..10, DoubleTapAction(row), pressed' \in 0..10
    PROVE  /\ TypeOK' /\ TableMatchesArray' /\ CellsSettle' /\ RowsShown' /\ TenAtMost'
           /\ row \in DOMAIN filteredRemindersArr => ~crashed'
<1>1. MirrorTypeOK /\ TableTypeOK
  BY TypesOfBoth DEF TableInv
<1>2. /\ DOMAIN cells = DOMAIN filteredRemindersArr
      /\ \A j \in DOMAIN cells : cells[j].reminder = filteredRemindersArr[j] /\ cells[j].row >= j
  BY DEF TableInv, TableMatchesArray
<1>3. /\ isCellExpandedArr' = [isCellExpandedArr EXCEPT ![row] = ~@]
      /\ crashed' = (row > Len(filteredRemindersArr))
      /\ UNCHANGED <<mirrorVars, filteredRemindersArr>>
  BY DEF DoubleTapAction
<1>4. PICK n \in Nat : /\ DOMAIN cells = 1..n /\ Len(cells) = n
                       /\ DOMAIN filteredRemindersArr = 1..n /\ Len(filteredRemindersArr) = n
  BY <1>1, <1>2 DEF TableTypeOK, Lists
<1>5. isCellExpandedArr' \in [1..10 -> BOOLEAN]
  BY <1>1, <1>3 DEF TableTypeOK
<1>6. MirrorTypeOK' /\ RowsShown' /\ TenAtMost' /\ shown' = shown
  <2>1. shown' = shown /\ filteredRemindersArr' = filteredRemindersArr
    BY <1>3 DEF mirrorVars
  <2>2. MirrorTypeOK'
    BY <1>1, <1>3, MirrorTypesKept
  <2> QED  BY <2>1, <2>2 DEF TableInv, RowsShown, TenAtMost
<1>7. CASE row > n
  <2>1. crashed' = TRUE /\ cells' = cells
    BY <1>3, <1>4, <1>7 DEF DoubleTapAction
  <2>2. TableTypeOK'
    BY <1>1, <1>3, <1>5, <2>1 DEF TableTypeOK
  <2>3. row \notin DOMAIN filteredRemindersArr
    BY <1>4, <1>7
  <2> QED  BY <1>6, <2>1, <2>2, <2>3, TypesOfBoth DEF TableMatchesArray, CellsSettle
<1>8. CASE ~(row > n)
  <2> DEFINE cell == [CellForRow(filteredRemindersArr, row) EXCEPT !.expanded = ~@]
  <2>1. crashed' = FALSE /\ cells' = [cells EXCEPT ![row] = cell]
    <3>1. (row > n) = FALSE
      BY <1>8
    <3>2. crashed' = FALSE
      BY <1>3, <1>4, <3>1, Zenon
    <3>3. cells' = IF crashed' THEN cells ELSE [cells EXCEPT ![row] = cell]
      BY Zenon DEF DoubleTapAction
    <3> HIDE DEF cell
    <3> QED  BY <3>2, <3>3
  <2>2. row \in 1..n
    BY <1>8
  <2>3. /\ filteredRemindersArr[row] \in Rows
        /\ isCellExpandedArr[row] \in BOOLEAN
        /\ isCellExpandedArr'[row] = ~isCellExpandedArr[row]
    BY <1>1, <1>3, <1>4, <2>2 DEF TableTypeOK, Lists
  <2>4. cell = [reminder |-> filteredRemindersArr[row], expanded |-> isCellExpandedArr'[row], row |-> row]
    BY <2>3 DEF CellForRow
  <2> HIDE DEF cell
  <2>5. cell \in Cell
    BY <1>5, <2>3, <2>4 DEF Cell
  <2>6. cells' \in Seq(Cell) /\ DOMAIN cells' = 1..n /\ cells'[row] = cell
        /\ \A j \in 1..n : j # row => cells'[j] = cells[j]
    BY <1>1, <1>4, <2>1, <2>2, <2>5 DEF TableTypeOK
  <2>7. TableTypeOK'
    BY <1>1, <1>3, <1>5, <2>1, <2>6 DEF TableTypeOK
  <2>8. TableMatchesArray'
    <3>1. ASSUME NEW j \in 1..n
          PROVE  cells'[j].reminder = filteredRemindersArr[j] /\ cells'[j].row >= j
      <4>1. CASE j = row
        BY <2>4, <2>6, <4>1
      <4>2. CASE j # row
        BY <1>2, <1>4, <2>6, <4>2
      <4> QED  BY <4>1, <4>2
    <3> QED  BY <1>3, <1>4, <2>6, <3>1 DEF TableMatchesArray
  <2>9. CellsSettle'
    <3> SUFFICES ASSUME listeners > 0, inbox = <<>>, NEW j \in 1..n
                 PROVE  cells'[j] = CellForRow(filteredRemindersArr, j)'
      BY <1>3, <2>6 DEF CellsSettle, mirrorVars
    <3>1. cells[j] = CellForRow(filteredRemindersArr, j)
      BY <1>4 DEF TableInv, CellsSettle
    <3>2. CASE j = row
      BY <1>3, <2>4, <2>6, <3>2 DEF CellForRow
    <3>3. CASE j # row
      <4>1. isCellExpandedArr'[j] = isCellExpandedArr[j]
        BY <1>1, <1>3, <3>3 DEF TableTypeOK
      <4> QED  BY <1>3, <2>6, <3>1, <3>3, <4>1 DEF CellForRow
    <3> QED  BY <3>2, <3>3
  <2> QED  BY <1>6, <2>1, <2>7, <2>8, <2>9, TypesOfBoth
<1> QED  BY <1>7, <1>8

\* The view changes under the table; whoever listens is told, so the table has
\* settled only if it had, or nobody listens.
LEMMA ChangingKeepsInv ==
    ASSUME TableInv, ViewChanges
    PROVE  TypeOK' /\ TableMatchesArray' /\ CellsSettle' /\ RowsShown' /\ TenAtMost'
<1>1. MirrorTypeOK /\ TableTypeOK
  BY TypesOfBoth DEF TableInv
<1>2. UNCHANGED tableVars
  BY DEF ViewChanges
<1>3. TableTypeOK' /\ TableMatchesArray'
  BY <1>1, <1>2 DEF TableInv, TableTypeOK, TableMatchesArray, tableVars
<1>4. CASE Refused
  <2>1. listeners' = 0 /\ shown' = shown
    BY <1>4 DEF Refused
  <2>2. MirrorTypeOK'
    BY <1>1, <1>4, MirrorTypesKept
  <2> QED  BY <1>2, <1>3, <2>1, <2>2, TypesOfBoth DEF TableInv, CellsSettle, RowsShown, TenAtMost, tableVars
<1>5. CASE \E v \in Views, m \in Newcomers : Change(v, m)
  <2>1. PICK v \in Lists, m \in Nat : Change(v, m)
    BY <1>5, ListsAssumption, MirrorAssumption
  <2>2. MirrorTypeOK' /\ shown' = shown
    BY <1>1, <2>1, MirrorTypesKept DEF Change
  <2>3. PICK k \in Nat : k = (IF v # view THEN listeners ELSE 0) + m
    BY <1>1 DEF MirrorTypeOK
  <2>4. inbox' = inbox \o Copies(k, v) /\ listeners' = listeners + m
    BY <2>1, <2>3 DEF Change
  <2>5. Copies(k, v) \in Seq(Lists) /\ Len(Copies(k, v)) = k
    BY DEF Copies
  <2>6. listeners' > 0 /\ inbox' = <<>> => listeners > 0 /\ inbox = <<>>
    <3> SUFFICES ASSUME listeners' > 0, inbox' = <<>> PROVE listeners > 0 /\ inbox = <<>>
      OBVIOUS
    <3>0. PICK c \in Seq(Lists) : c = Copies(k, v)
      BY <2>5
    <3>1. inbox = <<>> /\ Copies(k, v) = <<>>
      <4>1. inbox \o c = <<>> /\ inbox \in Seq(Lists)
        BY <1>1, <2>4, <3>0 DEF MirrorTypeOK
      <4>2. inbox = <<>> /\ c = <<>>
        BY <4>1, ConcatEqualIffEmpty
      <4> QED  BY <3>0, <4>2
    <3>2. k = 0
      BY <2>5, <3>1
    <3>3. m = 0
      BY <1>1, <2>3, <3>2 DEF MirrorTypeOK
    <3> QED  BY <1>1, <2>4, <3>1, <3>3 DEF MirrorTypeOK
  <2>7. CellsSettle'
    BY <1>2, <2>6 DEF TableInv, CellsSettle, CellForRow, tableVars
  <2> QED  BY <1>2, <1>3, <2>2, <2>7, TypesOfBoth DEF TableInv, RowsShown, TenAtMost, tableVars
<1> QED  BY <1>4, <1>5 DEF ViewChanges

\* Home is empty when the app starts.
EmptyTable ==
    /\ filteredRemindersArr = Nothing /\ cells = <<>>
    /\ isCellExpandedArr = Flags /\ pressed = 0 /\ crashed = FALSE
    /\ shown = Nothing

LEMMA EmptyTableFits ==
    EmptyTable => TableTypeOK /\ TableMatchesArray /\ CellsSettle /\ RowsShown /\ TenAtMost
<1> SUFFICES ASSUME EmptyTable
             PROVE  TableTypeOK /\ TableMatchesArray /\ CellsSettle /\ RowsShown /\ TenAtMost
  OBVIOUS
<1>1. filteredRemindersArr = <<>> /\ shown = <<>> /\ cells = <<>>
  BY ListsAssumption DEF EmptyTable
<1>2. TableTypeOK
  <2>1. <<>> \in Lists /\ <<>> \in Seq(Cell) /\ 0 \in 0..10 /\ FALSE \in BOOLEAN
    BY DEF Lists
  <2> QED  BY <1>1, <2>1 DEF EmptyTable, TableTypeOK, Flags
<1>3. DOMAIN filteredRemindersArr = {} /\ DOMAIN cells = {} /\ Len(shown) = 0
  BY <1>1
<1> QED  BY <1>2, <1>3 DEF TableMatchesArray, CellsSettle, RowsShown, TenAtMost, ElementsOf

\* And so it is after a relaunch.
LEMMA RelaunchFits ==
    ASSUME Relaunch
    PROVE  TableTypeOK' /\ TableMatchesArray' /\ CellsSettle' /\ RowsShown' /\ TenAtMost'
<1>1. filteredRemindersArr' = <<>> /\ shown' = <<>> /\ cells' = <<>>
  BY ListsAssumption DEF Relaunch, Launch
<1>2. TableTypeOK'
  <2>1. <<>> \in Lists /\ <<>> \in Seq(Cell) /\ 0 \in 0..10 /\ FALSE \in BOOLEAN
    BY DEF Lists
  <2> QED  BY <1>1, <2>1 DEF Relaunch, TableTypeOK, Flags
<1>3. DOMAIN filteredRemindersArr' = {} /\ DOMAIN cells' = {} /\ Len(shown') = 0
  BY <1>1
<1> QED  BY <1>2, <1>3 DEF TableMatchesArray, CellsSettle, RowsShown, TenAtMost, ElementsOf

\* Every step keeps the invariant.
LEMMA StepKeepsTableInv == ASSUME TableInv, [Next]_vars PROVE TableInv'
<1>1. MirrorTypeOK /\ TableTypeOK
  BY TypesOfBoth DEF TableInv
<1>2. MirrorCatchesUp'
  <2>1. MirrorInv
    BY <1>1 DEF TableInv, MirrorInv, MirrorTypeOK
  <2> QED  BY <2>1, TableStepKeepsMirror DEF MirrorInv
<1>3. CASE ~crashed /\ (SnapshotReceived \/ ViewWillAppear \/ \E hit \in Hits : TextDidChange(hit))
  BY <1>2, <1>3, LoadingKeepsInv DEF TableInv
<1>4. ASSUME ~crashed, NEW i \in DOMAIN cells, DeleteAction(i) PROVE TableInv'
  BY <1>2, <1>4, DeletingKeepsInv DEF TableInv
<1>5. ASSUME ~crashed, NEW row \in 1..10, DoubleTapAction(row), pressed' \in 0..10 PROVE TableInv'
  BY <1>2, <1>5, PressingKeepsInv DEF TableInv
<1>6. ASSUME ~crashed, NEW i \in DOMAIN cells, PressBegins(i) PROVE TableInv'
  <2>1. cells[i] \in Cell
    BY <1>1 DEF TableTypeOK
  <2>2. cells[i].row \in 1..10 /\ DoubleTapAction(cells[i].row) /\ pressed' = cells[i].row
    BY <1>6, <2>1 DEF PressBegins, Cell
  <2>3. pressed' \in 0..10
    BY <2>2
  <2> QED  BY <1>5, <1>6, <2>2, <2>3
<1>7. CASE ~crashed /\ (PressMoves \/ PressEnds)
  <2>1. pressed \in 1..10 /\ DoubleTapAction(pressed) /\ pressed' \in 0..10
    BY <1>1, <1>7 DEF PressMoves, PressEnds, TableTypeOK
  <2> QED  BY <1>5, <1>7, <2>1
<1>8. CASE ViewChanges
  BY <1>2, <1>8, ChangingKeepsInv DEF TableInv
<1>9. CASE Relaunch
  <2>1. TableTypeOK' /\ TableMatchesArray' /\ CellsSettle' /\ RowsShown' /\ TenAtMost'
    BY <1>9, RelaunchFits
  <2>2. MirrorTypeOK'
    BY <1>1, <1>9, MirrorTypesKept DEF Relaunch
  <2> QED  BY <1>2, <2>1, <2>2, TypesOfBoth DEF TableInv
<1>10. CASE UNCHANGED vars
  <2>1. UNCHANGED <<mirrorVars, tableVars>>
    BY <1>10 DEF vars
  <2> QED  BY <1>2, <2>1 DEF TableInv, TypeOK, TableMatchesArray, CellsSettle, CellForRow, RowsShown,
              TenAtMost, mirrorVars, tableVars
<1> QED  BY <1>3, <1>4, <1>6, <1>7, <1>8, <1>9, <1>10 DEF Next, Running

LEMMA InitMakesTableInv == Init => TableInv
<1> SUFFICES ASSUME Init PROVE TableInv
  OBVIOUS
<1>1. EmptyTable /\ MirrorInit
  BY DEF Init, MirrorInit, EmptyTable
<1>2. TableTypeOK /\ TableMatchesArray /\ CellsSettle /\ RowsShown /\ TenAtMost
  BY <1>1, EmptyTableFits
<1>3. MirrorTypeOK
  BY <1>1, ListsAssumption, MirrorAssumption DEF MirrorInit, MirrorTypeOK
<1>4. MirrorCatchesUp
  BY <1>1 DEF MirrorInit, MirrorCatchesUp
<1> QED  BY <1>2, <1>3, <1>4, TypesOfBoth DEF TableInv

LEMMA TableInvariant == Spec => []TableInv
BY InitMakesTableInv, StepKeepsTableInv, PTL DEF Spec

\* Lists hold reminders, a cell is one of ten rows, and the flags are ten.
THEOREM TypeCorrect == Spec => []TypeOK
<1>1. TableInv => TypeOK
  BY DEF TableInv
<1> QED  BY <1>1, TableInvariant, PTL

\* The table has a cell for every row of the array, with that row's reminder,
\* and no cell takes itself for a row above its own, for any number of swipes,
\* searches and snapshots in any order.
THEOREM CellsMatchArray == Spec => []TableMatchesArray
<1>1. TableInv => TableMatchesArray
  BY DEF TableInv
<1> QED  BY <1>1, TableInvariant, PTL

\* Once Home has taken every snapshot every cell answers for its own row and
\* looks as its flag says.
THEOREM TableSettles == Spec => []CellsSettle
<1>1. TableInv => CellsSettle
  BY DEF TableInv
<1> QED  BY <1>1, TableInvariant, PTL

\* A finger on a settled table puts no index out of range: the cell it presses
\* takes itself for the row it lies on, and what a search finds has ten rows at most.
THEOREM FingersAreSafe == Spec => TouchIsSafe
<1> DEFINE Settled == listeners > 0 /\ inbox = <<>> /\ pressed = 0 /\ ~crashed
<1>1. ASSUME TableInv, [Next]_vars, Settled PROVE ~crashed'
  <2>1. MirrorTypeOK /\ TableTypeOK
    BY <1>1, TypesOfBoth DEF TableInv
  <2>2. CASE ViewWillAppear \/ \E hit \in Hits : TextDidChange(hit)
    BY <1>1, <2>2, LoadingKeepsInv
  <2>3. ASSUME NEW i \in DOMAIN cells, DeleteAction(i) PROVE ~crashed'
    BY <1>1, <2>3, DeletingKeepsInv
  <2>4. ASSUME NEW i \in DOMAIN cells, PressBegins(i) PROVE ~crashed'
    <3>1. cells[i] = CellForRow(filteredRemindersArr, i) /\ i \in DOMAIN filteredRemindersArr
      BY <1>1 DEF TableInv, CellsSettle, TableMatchesArray
    <3>2. cells[i].row = i /\ cells[i] \in Cell
      BY <2>1, <3>1 DEF CellForRow, TableTypeOK
    <3>3. i \in 1..10 /\ DoubleTapAction(i) /\ pressed' = i
      BY <2>4, <3>2 DEF PressBegins, Cell
    <3>4. pressed' \in 0..10
      BY <3>3
    <3> QED  BY <1>1, <3>1, <3>3, <3>4, PressingKeepsInv
  <2>5. CASE ViewChanges \/ Relaunch \/ UNCHANGED vars
    BY <1>1, <2>5 DEF ViewChanges, Relaunch, vars, tableVars
  <2>6. ~SnapshotReceived /\ ~PressMoves /\ ~PressEnds
    BY <1>1 DEF SnapshotReceived, Take, PressMoves, PressEnds
  <2> QED  BY <1>1, <2>2, <2>3, <2>4, <2>5, <2>6 DEF Next, Running
<1>2. TableInv /\ [Next]_vars => [Settled => ~crashed']_vars
  BY <1>1
<1> QED  BY <1>2, TableInvariant, PTL DEF Spec, TouchIsSafe
=============================================================================
