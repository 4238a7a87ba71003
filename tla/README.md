# Verification of Remindify and ConcurrencyProject

The repository is a collection of iOS practice apps. Two of them have logic of
their own that is hard to get right, and this directory is about those two:

- **Remindify** (`src/Remindify/Remindify`), a reminder list kept in Firestore,
  with snapshot listeners, completions and gestures that race on the main queue;
- **ConcurrencyProject** (`src/ConcurrencyProject/ConcurrencyProject`), one view
  controller that downloads images under a dispatch group and sends them to a
  peer that may come and go.

TLA+ modules model them, TLC checks the models on small instances, and TLAPS
proves the main invariants for every value of the constants.

## 1. Inventory

### Remindify

| Part | State | Operations | What is hard |
|---|---|---|---|
| Firestore client (vendored in `Pods/FirebaseFirestore`, used through `FirebaseService.swift`) | document cache, mutation queue, listeners, online state, two streams | listen, set, update, delete; acknowledgements, refusals, watch snapshots, broken streams, restart | the cache is updated by two streams in either order; listeners see local writes before the server does; refusals take them back |
| Home (`HomeReminderTableViewController`) | `originalRemindersArr`, `filteredRemindersArr`, search text, expansion flags | load, search, select, swipe to delete, double tap, logout | a swipe edits one array of the two; every acknowledged deletion adds a listener that nothing removes; snapshots replace rows during a search |
| Add, Edit (`AddReminderViewController`, `EditReminderViewController`) | a form; Edit: a copy of the reminder | save; Edit's completion schedules an alarm and pops | Add pops at once; Edit's completion holds the screen weakly |
| Rows of Home's table (cells, `isCellExpandedArr`, the press recognizer) | ten flags, the row each cell was made with | reload, swipe, "double tap" (a long press) | everything is kept by row number while rows come and go |
| Alarms (local notifications) | pending notifications, by document id | scheduled in Edit's completion, removed in Home's | a completion lost with the process leaves an alarm without a reminder |
| Session and navigation (`AppDelegate`, Login, Signup, Profile) | current user, stack of screens, the alert over them | sign-in, sign-up (two calls), logout with a delayed push, launch | half-done sign-up, screens of an earlier user left on the stack, alerts and their timers |
| Profile (`ProfileViewController`) | form, navigation bar | upload, fetch the URL, change the profile | the bar is disabled until a completion that may never come |
| Password (`PasswordViewController`) | form | check, reauthenticate, update | failure between the two calls |
| Login critter (`CritterView`) | animation state | the text fields' events, delayed by 100 ms | delayed closures of one field race with the next field |

The screens share nothing but Firestore and the Firebase user: a write in Add,
Edit or Home reaches Home only through its snapshot listener. Firestore runs on
a worker queue of its own and dispatches every snapshot and completion to the
main queue, where the closures run one at a time, whatever screen is on top.

### ConcurrencyProject

One view controller. State: the dispatch group, three image views, the transfer
button's flag, the session's list of connected peers. Operations: the Download
and Transfer buttons, two-second timers, downloads that end in any order with
an image, something that is no image, or an error, `sendImages`, and received
pictures. Session callbacks run on a thread of their own; the rest is on the
main thread. Hard: several presses share one group, and the list of peers
changes while images are sent one by one.

### Everything else

`AlamofireJSON`, `alarm`, the navigation exercises, `RandomTest`, `TextViews`,
`CoreDataTest`, `Excercise03SwiftUI`, `objc`, `ScrollView` and `I Am Rich` are
templates, layouts, or a single library call; they keep no state with an
invariant and are not modelled. Many other top-level directories are empty.
Code under `Pods/` is third-party; only the Firestore client's contract with the
app is modelled, because every property of Home rests on it.

### What makes each part correct

- *Firestore client*: no snapshot is lost or overtaken; a deleted document does
  not come back; an acknowledged write is not undone by an older snapshot.
- *Home*: the table shows the last snapshot or its matches, also after
  refusals, restarts and with several listeners; when everything is quiet it
  shows what the server has.
- *Alarms*: a reminder that Edit has saved with a date has its alarm, one that is
  gone has none.
- *Table*: the flag of a row is the flag of its reminder, and no index is out
  of range.
- *Session, Password*: a screen that takes touches belongs to the user who is
  signed in, if anybody is; no screen is pushed twice, every alert goes away.
- *Profile*: the navigation bar is enabled when nothing runs.
- *Critter*: with no field being edited it ends neutral.
- *Image transfer*: every press is answered once, after its own downloads;
  pictures land where they belong.

### Status of the components

| Component | Status | Modules |
|---|---|---|
| Firestore client, as the app meets it | partly | FirestoreClient |
| Home: list, search, swipe | modelled | HomeReminders, LaggingMirror, Selections |
| Home: rows, flags, press | modelled | ReminderTable, LaggingMirror |
| Add, Edit | partly (forms are abstracted) | HomeReminders, ReminderAlarms |
| Alarms | modelled | ReminderAlarms |
| Session and navigation | partly (forms and warnings left out) | Session |
| Password | modelled | Session |
| Profile | modelled | ProfileUpdate |
| Login critter | partly (drawing and mouth left out) | Critter |
| ConcurrencyProject | partly (progress messages left out) | DownloadBatches, ImageTransfer |
| the rest | not modelled | section 5 |

## 2. Modules

```
FirestoreClient <-- HomeReminders <-- ReminderAlarms <-- MCReminderAlarms
                     |   |   ^-- MCHomeReminders
                     |   v refines
       Selections <--+  LaggingMirror <-- ReminderTable <-- MCReminderTable
            ^------------------------------------+

DownloadBatches <== ImageTransfer <-- MCImageTransfer
                        +--> Selections

Session        ProfileUpdate <-- MCProfileUpdate        Critter
```

`A <-- B` says that B EXTENDS A; `refines` and `<==` are refinements stated
with INSTANCE. Each module `X_proofs` extends `X`. Three of them also extend
`Selections_proofs`, and `ReminderAlarms_proofs` extends `HomeReminders_proofs`.

### Selections

`Only(s, S)` is what a filter keeps of a sequence: the elements that lie in `S`,
in their order. It is a recursive function over positions, because the provers
know nothing of `SelectSeq`. Searches, swipes, the peers that stay connected and
the closures of one kind on the main queue are selections.

### FirestoreClient

The client library as the app meets it, for one listened query. `server` is the
server's copy, each document with its content and a version that grows with
every commit. `remote` is the local store's cache, `batches` its mutation queue,
`CurrentView` the one laid over the other (`LocalDocumentsView`: a set or delete
replaces, an update patches only what exists). `replies` and `watch` are the two
streams. `raised` and `waiting` count the listeners that have and have not had
their initial event, `online` and `synced` decide when a waiting one may have it
(`QueryListener::ShouldRaiseInitialEvent`), and `mainQ` holds the closures
dispatched to the app.

| Action | Code |
|---|---|
| `AddSnapshotListener`, `WriteMutations` | `EventManager::AddQueryListener`, `SyncEngine::WriteMutations` |
| `ApplyRemoteEvent` | `SyncEngine::ApplyRemoteEvent`, `LocalStore::ApplyRemoteEvent` |
| `HandleSuccessfulWrite`, `HandleRejectedWrite` | the same names in `SyncEngine`, `NotifyUser` first |
| `HandleRejectedListen` | `SyncEngine::HandleRejectedListen` |
| `HandleOnlineStateChange`, `WatchStreamClosed`, `OnlineStateTimeout` | `SyncEngine` and `OnlineStateTracker` |
| `WriteStreamClosed` | `RemoteStore::OnWriteStreamClose` |
| `RestartClient` | `LocalStore::Start`, with mutations whose callbacks are gone |
| `ServerCommit`, `OtherDevice`, `WatchSend` | external: the server and the other devices |

The library's worker queue is not a variable. A call of the app and the worker's
turn at it are one step: the app learns what the worker did only through
`mainQ`, so a worker step that ran between the call and its turn can be moved
before the call without the app seeing a difference. For the same reason a
broken stream, an online-state change and a snapshot are one step each.

### HomeReminders

An array of Home is a function from document id to content; the order of the
rows is left to ReminderTable. Gestures (`TextDidChange`,
`DeleteAction`, `DidSelectRow`) are enabled while Home is on top; Add and Edit
appear as writers (`AddReminder`, `UpdateReminder`, `CloseEdit`). The closures of
`loadReminders`, `deleteReminder`, `addReminder` and `updateReminder` are
`SnapshotReceived`, `ListenFailed`, `DeleteCompleted` and `SaveCompleted`; each
takes the head of `mainQ`. `DeleteCompleted` adds a listener after a success,
as the code does by calling `loadReminders` again. Edit's completion pops only
if its screen is still alive (weak `self`), which is one of its two outcomes.
`deleted` is a ghost: the documents whose deletion the app has been told of.
`Pending(o)` counts the calls of one kind whose completion has yet to run, on the
main queue or behind the server's answer; a call made by an earlier process has
none.

### LaggingMirror

What a snapshot listener promises, without a client: `view` changes under the
screen, every change is sent to each listener (`Change`), the screen takes what
it was sent in that order (`Take`), listeners may be refused, and a new process
starts over. `Mirror` in HomeReminders maps it: the view is `CurrentView`, the
inbox the snapshots in `mainQ`, the listeners those that have had their initial
event, and what is shown is `originalRemindersArr`. `ReminderTable` stands on
this module instead of on the client, which keeps it small.

### ReminderTable

| Action | Code (`HomeReminderTableViewController.swift`) |
|---|---|
| `SnapshotReceived`, `TextDidChange`, `ViewWillAppear` | the listener's closure, the search bar, the reload when Home appears; all call `reloadData` |
| `CellForRow`, `ReloadData` | `tableView(_:cellForRowAt:)` for each row: reminder, flag, captured index |
| `DeleteAction` | the swipe: `remove(at:)`, the deletion, `deleteRows` |
| `PressBegins`, `PressMoves`, `PressEnds`, `DoubleTapAction` | the recognizer (a `UILongPressGestureRecognizer`, line 264) and the closure it calls each time |
| `ViewChanges`, `Relaunch` | everybody else; a new process |

`cells` are the cells on the screen with the index each was made with, which a
swipe does not renew. An index out of range sets `crashed`, after which only a
new launch is possible. The press toggles a flag and loads
that one row again.

### ReminderAlarms

It extends each action of HomeReminders with what it does to the local
notifications and to the Edit screen. `alarms[d]` is the content that the
pending request `Reminder_d` was made for. `savers` says where the Edit screen
of each awaited save is: `open`, `leaving` (its pop is animated) or `closed`.
`home` is where Home is on the stack: an Edit that is leaving when its completion
runs asks for a second pop, which may take Home off too when Home is not the
root. `heard` is a ghost: whether the last acknowledged save of a reminder was
`acted` on, or `missed`, because it found its screen gone or because the
notification center refused the request, of which Edit only warns. `unsure` is a ghost too: the
documents an acknowledgement of which was lost with a broken write stream. The
client sends such a write again, and should it be refused this time, the app is
told of a failure for something that the server has done.

| Action | Code |
|---|---|
| `OpenEdit`, `SaveEdit`, `BackFromEdit`, `PopEnds` | `EditReminderViewController.loadReminder`, `saveButtonTapped`; UIKit's pop |
| `AlarmClient` | everything the client and the server do meanwhile (external) |
| `UpdateCompleted` | the closure in `updateReminderInFirestore`, `scheduleAlarmNotification`, the pop |
| `AddCompleted` | Add's closure, which schedules nothing |
| `AlarmDeleteCompleted` | the closure of `deleteReminder` in Home |
| `AlarmRestart` | a killed app: alarms stay with the system, closures are lost |

### DownloadBatches and ImageTransfer

`DownloadBatches` is what the two buttons promise: a press asks for every image,
the downloads end in any order, the press is answered once, when none of its own
is left. `ImageTransfer` is the view controller: `count`, `registered` and `due`
are the dispatch group (`enter`, `notify`, `leave`), `scheduled` and `running`
the downloads before and after their two-second timer, `outbox` what a running
`sendImages` still has to send. Everything but the session runs on the main
thread: while `outbox` is not empty only `SendNext`, `SendThrows` and the
session's own steps are enabled, because `connectedPeers` may change between
two iterations of the loop, and between its look and the send. A peer receives
in order (reliable mode) and puts each picture into its first empty view. It
runs the same program, so a press of its own or a third device may fill or empty
a view of it at any time, before it joins too: `ViewSetElsewhere`, counted in
`elsewhere`.

`Batches` maps press *b* of `ImageTransfer` to the images of *b* that are
scheduled or running, and to whether its notification is registered or due.

### Session

The screens of Remindify live on one navigation stack; `stack` lists them, root
first, each with its kind, the user it was loaded for (a ghost: the code keeps
none) and a number by which timers and answers find it again. `Form` stands for
Add and Edit, which meet the session in the same way. `leaving` are the screens
whose pop is animated: they are off the stack, without a navigation controller
or about to be, but alive. `currentUser` is `Auth.auth().currentUser`, the only
thing besides the accounts that outlives the process. `call` is the one call
Login or Signup waits for, `saves` are the password changes under way,
`presented` is the alert over the screen, `updateAlert[s]` what screen `s` keeps
in its field of that name, and `timers` are the `asyncAfter` blocks that have not
run.

| Action | Code |
|---|---|
| `LoginButtonTapped`, `SignedIn` | `LoginViewController.loginButtonTapped` and its closure |
| `OpenSignup`, `ReturnFromSignup` | Login's and Signup's buttons: a push, a pop to the root |
| `SignupButtonTapped`, `AccountCreated`, `NameCommitted` | Signup's button; the two calls in `FirebaseService.createUserWithEmail` |
| `CallFailed` | the failure of any of the three |
| `OpenFromHome`, `OpenPassword`, `Back` | pushes with the check in `viewDidLoad`; UIKit's back button |
| `PopEnds` | UIKit: the animation of a pop ends (external) |
| `LogoutButtonTapped` | sign-out, alert and timer in Home |
| `SaveChangesButtonPressed`, `Reauthenticated`, `PasswordUpdated`, `SaveFailed` | Password: one answer per step, held weakly |
| `TimerFired` | the `asyncAfter` closures of Home and Password |
| `Relaunch` | `AppDelegate` after the app was killed |

What UIKit and MBProgressHUD do is external and modelled so: a progress view
takes the touches of Login and Signup, whose back buttons are hidden; an alert
takes those of every screen; `present` is ignored when something is presented
already or the view is not in a window (which is why the "Session Expired"
popups, presented from `viewDidLoad`, never show); the completion of a dismissal
need not run when there was nothing to dismiss; no touch arrives during a pop. A
popped screen lives through its pop (`leaving`), and as long as a timer of its
own holds it (`Alive`): until then the answers that hold Password weakly (lines
73, 85, 97) find it. Whether an alert of a screen that is leaving appears, and
whether the screen still has its navigation controller, is left open; one that
is gone has none. Screens in the middle of a pop to the root may live as long as
the one on top, or be gone at once. A dismissal and the push that follows it
are one step, since no touch arrives in between. The window that is shown is
the one `AppDelegate` makes. Signing out cannot fail half-way: a failure changes
nothing and is left out, and so are the half-second alerts of Add and Edit,
which sign nobody out.

The field `updateAlert` of Password holds one alert, and nothing keeps its
button from being tapped while a change is under way. A second success signs out
whoever is signed in by then, replaces the alert whose timer is running, and
may push one Login on another. The ghost `repeated` marks what follows such a
success, until the next launch. A success may also find its Password covered, in
its pop, or popped and held by a timer: it signs out all the same, with no alert
over the screen that is on top and, once the pop has ended, no navigation
controller to push Login. The ghost `expired` marks a session ended in this way,
until somebody logs in.

### ProfileUpdate

One `screen` (a Profile by number, or Home), the navigation `bar` that both
share, the `form` of the Profile on top, the `upload` and the `commits` under way.

| Action | Code |
|---|---|
| `OpenProfile`, `Back` | `viewDidLoad` reads the user; UIKit's back button and swipe |
| `PickImage` | `imagePickerController(_:didFinishPickingMediaWithInfo:)` |
| `DataPut`, `UploadCompleted` | `FirebaseService.uploadProfileImage` (put, then URL) and its closure, which holds Profile weakly |
| `PhotoCommitted` | `updateUserProfilePhotoURL` and its closure, which holds Profile strongly |
| `TextFieldDidChange`, `SaveName`, `NameCommitted` | the name, its button, the closure of `updateDisplayName` |
| `Relaunch` | a new process |

The ghost `stranded` says that an upload has lost its Profile, or never began
because the picture had no JPEG data: nobody will enable the bar again. The
ghost `early` says that the Profile on top was opened while a commit was pending,
whose answer goes to the Profile that asked.

### Critter

`focus` is the field being edited; `pending` are the closures that were put off
by 100 ms. `shy`, `visible`, `hidden`, `head` and `neutral` are what they and
the handlers set: the eyes, the password's secrecy, the button beside it, where
the head's animation leads, and whether the neutral animation has been made.

| Action | Code |
|---|---|
| `Focus` | `textFieldDidEndEditing` of one field, `textFieldDidBeginEditing` of the next |
| `TurnClosure`, `HideClosure` | the two `asyncAfter` closures |
| `TextFieldShouldReturn`, `HandleTap` | Return; a tap beside the fields, or the app going to the background |
| `TogglePasswordVisibility` | the button |
| `NeutralEnds` | the completion of the neutral animation |

Login and Signup have the same handlers, over different fields. The ghost
`hurried` says that a field was left before its own closure had run.

### Names of slips

A definition whose comment begins with "Slip" is not part of a specification.
It states a plausible mistake in the definition that follows it
(`WatchedIntoCacheUnversioned`, `LeaveEarly`, ...), and a property is worth
keeping only if TLC finds it violated when the slip takes the definition's place.

## 3. What is checked

All runs set `CHECK_DEADLOCK FALSE`: the user may stop, the counts of writes,
presses and faults are bounded, and the app does stop after a crash.

| Run | Properties | Instance | What it shows |
|---|---|---|---|
| `home_writes` | `TypeOK`, `FilteredFromOriginal`, `MirrorsView`, `Settled`, `TableFollows`, `NoResurrection` | 2 reminders, 2 contents, 1 search text, 2 writes, 1 change elsewhere or 1 fault | every interleaving of two local writes with a foreign change, a refused write or listen, broken streams, a killed app |
| `home_alarms` | `AlarmsTypeOK`, `NoAlarmAfterDeletion`, `AlarmAgrees`, `ImplementsMirror`, `Converges` | 1 reminder, 3 contents (one without a date), 2 writes, 1 fault | alarms follow acknowledgements that may find their screen gone and requests that may be refused; Home is a lagging mirror and ends with the server's reminders |
| `table_rows` | `TypeOK`, `TableMatchesArray`, `CellsSettle`, `TouchIsSafe` | 3 reminders in any order, 3 changes | rows, cells and flags agree |
| `transfer` | `TypeOK`, `GroupBalanced`, `PicturesInPlace`, `ImplementsBatches`, `EveryPressAnswered` | 2 images, 2 peers, 2 presses, 1 change of the peers, 1 picture received, 1 view of each peer set elsewhere | presses that share the group are batches, each is answered, pictures land in their views on a peer whose views nobody else has set |
| `session_screens` | `TypeOK`, `HomeBelongsToUser`, `ScreensBelongToUser`, `NoScreenTwice`, `AlertGoes` | 2 users, 8 taps, 2 password changes, 1 relaunch | screens belong to the signed-in user whatever a Password does, no alert stays |
| `profile` | `TypeOK`, `BarWhileUploading`, `OneUpload`, `PictureIsUsers`, `NameIsUsers`, `UploadEnds` | 3 Profiles, 4 calls, 2 names, 2 pictures | the bar and the HUD follow the upload, Profile shows the user |
| `critter` | `TypeOK`, `FocusShown`, `Secrecy`, `RestUnlessHurried` | 4 pending closures | the animal and the password follow the focus |
| `home_search` | `SearchRespected` (violated) | 1 reminder, 1 write | a snapshot during a search |
| `alarms_killed` | `AlarmsRemoved` (violated) | as `home_alarms` | an alarm without a reminder |
| `table_eleven` | `EveryRowHasAState` (violated) | 11 reminders | the eleventh row has no state |
| `transfer_nil` | `ImagesThere` (violated) | 3 images, 2 presses | the crash after a failed download |
| `session_login` | `SignupLeadsToLogin` (violated) | 2 users, 5 taps | Signup's Login button after a launch to Home |

**Bounds.** `MaxWrites`, `MaxOther`, `MaxFaults`, `MaxPresses`, `MaxReceived`,
`MaxChanges`, `MaxElsewhere`, `MaxTaps`, `MaxSaves`, `MaxLaunches`, `MaxProfiles`, `MaxCalls` and
`MaxPending` bound what the environment may do, nothing else.

- *Home.* Two writes are enough for a deletion to add a listener while another
  write is pending, for an edit on top of an unacknowledged add, and for a
  pipeline in which the second write waits behind a refused first one. One
  foreign change is enough for a watch snapshot to be older than an
  acknowledgement and for an update to meet a document that is gone. The
  constraint `MCOneDisturbance` keeps the foreign change and the fault apart,
  which both fit in one run this way. Two reminders tell a change of one row
  from a change of all.
- *Alarms.* One reminder suffices: alarms of different documents do not meet,
  except through the queue of saves, which two writes fill. Nobody else writes,
  because an alarm is about what this device has saved. The
  exception that `unsure` stands for takes two faults, a broken stream and then a
  refusal: one fault keeps the check of liveness small, and `AlarmsAgree`
  (section 4) covers every number of them.
- *Table.* Three rows have a first, a middle and a last one to be swiped, and a
  row below it; three changes are a swipe, the snapshot of another device, and a
  second swipe before either has arrived. `table_eleven` shows the limit of ten.
- *Transfer.* With two presses the second joins a group that is being emptied;
  two peers let a peer leave between two pictures, of which the second is then
  the first for the other peer. Two images suffice for that, and for one to be
  put into the place of the other; the proofs cover any number of them. One view
  set elsewhere, before or between the pictures, shifts the ones that follow.
- *Session.* Eight taps let a user log in, open Profile and Password, ask for a
  change, leave and log out while it is under way, and another user log in;
  two changes let the second succeed first, or after the user has gone; one
  relaunch gives a stack whose root is Home.
- *Profile.* Three Profiles: one that is left while it uploads, one that is
  opened with an answer pending, one after that. Four calls: two pictures and
  two names in any order.
- *Critter.* Signup has four fields; four closures can be pending when each is
  entered within 100 ms.

The invariants that are proved (section 4) do not depend on the bounds.

**Symmetry.** Only `home_writes` uses it, for its reminders, which are
interchangeable; it checks no liveness property.

**Fairness.** Neither the user, nor other devices, nor the faults are under any
obligation.

- `home_alarms` assumes that the run loop drains the main queue, that the
  client's worker handles what has arrived, and that the server answers both
  streams. The first two are what serial dispatch queues give; the last says
  that the network comes back, which the client's own reconnecting assumes.
- `transfer` assumes that timers fire, that each download ends one way or
  another (requests have a timeout), and that the main queue and the sending
  loop go on. The peers need not do anything.
- `session_screens` assumes only that timers fire; Firebase need not answer.
- `profile` assumes that Storage and Auth answer every call, with an error when
  their retries end, as their clients do.

### Disagreements found

1. `SearchRespected`: `searchBar(_:textDidChange:)` says at line 180 "If there's
   text in the search bar, filter the reminders based on the search text", but
   the snapshot closure (line 44) shows all reminders whatever the text is.
2. `AlarmsRemoved`: Home's line 351 says "Remove the local notification with the
   obtained identifier", in a completion that is lost when the app is killed; the
   deletion is queued on disk and reaches the server all the same.
3. `EveryRowHasAState`: Home's line 436 says "Initialize the cell expansion
   states", and makes ten of them for any number of rows.
4. `ImagesThere`: line 95 of the Concurrency project's controller says "All
   downloads completed. Sending images.", but failed downloads leave the group
   too, and line 162 unwraps each image without a look.
5. `SignupLeadsToLogin`: Signup's Login button says "//navigate to login" (line
   101) and pops to the root, which is Home when the app was launched signed in.
   The Home shown is that of the user who has left, and nobody is signed in; the
   checks in Add, Edit and Profile then send the user to Login, so
   `HomeBelongsToUser` is stated for a stack that starts at Login and
   `ScreensBelongToUser` for any.

### Behaviour the properties allow for

These are what the code does; each is named in the property that excepts it.

- Sign-up makes an account, then commits its name. When the second call fails
  Signup prints "User registration failed." (line 142) while the new user is
  signed in, and a second attempt finds that the account exists.
- A second success of the same Password (`repeated`): without the exception
  `NoScreenTwice` and `AlertGoes` fail. `HomeBelongsToUser` and
  `ScreensBelongToUser` need none.
- A success that finds its Password covered, in its pop or popped (`expired`).
  Password's line 149 says "Expire the session and navigate to
  LoginViewController"; the sign-out comes first (line 97), and the push, 0.2
  seconds later, is on a navigation controller that a Password which has been
  left no longer has (line 113). Profile, and then Home, take touches with nobody
  signed in, until a screen that looks for a user is opened. That anybody is
  signed in and touches a screen of *somebody else* is still excluded.
- A Profile left during its upload leaves the bar disabled for good (`stranded`).
- A Profile opened before the answer of an earlier one's commit shows the old
  picture or name (`early`).
- Signup's name and confirmation fields keep the focus through a tap or a
  Return, and a field left within 100 ms still does what it asked for (`hurried`).
- An alarm is not scheduled when the acknowledgement finds Edit gone or the
  notification center refuses the request (`heard`), and never by Add, whose
  `scheduleAlarm` is not called: `AlarmAgrees` is about the others.
- A peer one of whose views was set by others (`elsewhere`), or that is left or
  reached halfway (`changes`), may show a picture in another view.
- An acknowledgement that arrives while Edit's own pop is animated may take Home
  off the stack (`UpdateCompleted` leaves it open); nothing promises either.
- After a refused listen Home stays as it is; `Converges` is about a Home that
  listens.

## 4. What is proved

Every invariant and every action property that a passing run checks is also a
theorem, and so are both refinements. The proofs assume only the named
assumptions of the modules on their constants: `Found` maps texts to sets of
contents, the values that mean "nothing" are no contents, texts or reminders,
bounds are naturals, lists are sequences of reminders with the empty one among
them (`ListsAssumption`). The sets may be of any size and the bounds arbitrary.

**Selections_proofs.** The type of `Only`, its length, and how it follows the
sequence when one or many elements are appended or the head is taken off. The
library's induction theorems take a predicate, which cannot be instantiated here;
`SetInduction` derives an induction over a *set* of naturals from the
well-foundedness of `<` instead, and `SeqInduction` one over sequences.

**HomeReminders_proofs.** The inductive invariant is
`HomeInv == TypeOK /\ PipelineOK /\ FilteredFromOriginal /\ MirrorsView /\ TableFollows`.
`Settled` is not inductive: a quiet state says nothing of how snapshots came
there. `MirrorsView` does: as long as a listener has had its initial event, the
*newest* snapshot in `mainQ`, or the array when there is none, is
`CurrentView`. Each client step either leaves the view alone or appends a
snapshot of the new one behind everything else, which is also why the extra
listeners do no harm. With empty queues `CurrentView` is the cache, and `Settled`
follows (`QuietHomeIsRight`). `PipelineOK` is needed because an acknowledgement
takes the heads of both `replies` and `batches`.

- `DeletedStaysAway` (`NoResurrection`). A reported deletion must be in the past
  for *everything* on its way. `DeletionInv` follows it backwards. On the main
  queue nothing behind the report shows the document or says that it was saved
  (`OrderOK`). No queued write makes it again, because an id is drawn once
  (`BatchOK`). The server no longer has it, and acknowledges no update of it
  behind the deletion (`ReplyOK`). The cache and the watch snapshots under way
  are no newer than the server, and have the document only where they are older
  than the deletion (`VersionOK`), so that the cache drops them.
- `ListenersStayFew` (`ListenersCounted`). A deletion that is pending counts as
  the listener it may become, so the listeners Home never removes are at most
  one for the launch and one for every write.
- `HomeIsMirror` (`ImplementsMirror`). With that bound on the newcomers, each
  step maps to `Change`, `Take`, `Refused`, `Launch` or a stutter of
  `LaggingMirror`. The heart of it is `EmitSnapshots`: it sends a changed view to
  every listener that had its initial event and to every fresh one, which is the
  `Change` of the abstract module.

**ReminderAlarms_proofs.** `AlarmsImplementHome == AlarmSpec => Spec`: each step
with alarms is a step of HomeReminders or leaves it alone, so everything proved
of Home's reminders holds in the composition.

- `NoAlarmOutlivesDeletion`: by `AlarmInv`, which adds the deletions of
  `DeletionInv`. Once a deletion is reported, no save of the document is
  acknowledged on the main queue, so nothing schedules its alarm again.
- `AlarmsTypeCorrect` rests on `AwaitedFacts`: the Edit
  screens in `savers` are as many as the updates whose completion has to run, so
  that `savers[1]` is the screen of the completion whose turn it is.
- `AlarmsAgree` (`AlarmAgrees`). `AgreementInv` says, for each reminder, what the
  alarm will be when everything on its way has arrived. It follows the last write
  of the document from the batch through the server's commit, the reply and the
  completion, and keeps apart what was refused, lost, or heard by nobody. There
  is one lemma for each kind of step: heard, written, committed, answered, lost,
  killed, elsewhere, and steps that change nothing of it.

**ReminderTable_proofs.** `MirrorInv` says that whoever still listens has been
sent the latest view or shows it (`MirrorCatchesUp`), and is proved with one
lemma per step of the mirror; the steps of the table change the mirror in one of those
ways or not at all. `TableInv` adds the types, `TableMatchesArray` and
`CellsSettle`, that every row is a reminder of the last snapshot (`RowsShown`),
and that this snapshot has ten at most while nothing has crashed (`TenAtMost`),
which bounds what a search can find. A swipe breaks the rows' indices, but leaves
the snapshot it causes in the inbox of every listener, so that `CellsSettle`
claims nothing until that has been taken.
`FingersAreSafe` is the action property that follows.

**ImageTransfer_proofs.** `GroupBalanced` alone is not inductive. `GroupInv` adds
that downloads belong to presses already made, that scheduled and running ones
are disjoint and finite in number, that a press has at most one notification,
and that a due notification has no unfinished download left. `GroupIsBalanced`
follows at once; `PressesAreBatches` shows that a press maps to `Start`, the end
of a download to `End`, a notification that runs to `Answer`, and every other
step to a stutter. `PicturesInPlace` and `StreamInv` speak of the time in which the list of
peers has not changed under a transfer and no peer has sent, and of a peer whose
views nobody else has set: then the first *f* views of the peer show their pictures, the wire carries the ones after these, and
the loop still has the rest, unless it has crashed at an empty place. Pictures of
a second transfer find no empty view.

**Session_proofs.** Whose screen is on top says nothing of what appears when it
is popped, so `SessionInv` speaks of the whole stack. `BelowInv`: Password lies on
the Profile, and a form or Profile on the Home, of the same user, or was opened
by nobody. `TopInv`: a user's screen on top is that of the signed-in user if there
is one, and if there is none, it is covered or the session has `expired`. These two need
no exception. They rest on `AlertInv`: while an alert is on show nobody is signed
in, and when the screen that made it has gone, the session has expired, so that
a timer which uncovers the screen on top either pushes Login or leaves what
`TopInv` allows; and on `CallInv`, because Signup's second call may end after
a late success. `HomeIsUsers` and `ScreensAreUsers` follow.

`OnceInv` holds without second successes only. Each timer stands for its screen's
last alert, which covers that screen while it is on the stack (`TimersOnce`); a
screen that is leaving and may yet push Login (it has a timer, or a save and no
alert so far) is the only one leaving and has no Login below (`LeavingOnce`);
no screen lies on its like, or on a Password without an alert (`ScreensApart`).
`NoScreenOnItsLike` follows.

**ProfileUpdate_proofs.** `ProfileInv` joins bar, HUD and upload in one statement
(`UploadInv`), says that a Profile opened with nothing pending sees only its own
commits (`OwnCommits`), and ties the name on the form to the last commit of a
name still to be answered, or to the user when there is none (`NameInv`).

**Critter_proofs.** `CritterInv` says that the *newest* pending closure is the one
the focus asked for (`NewestIsFocus`), that without hurry there is at most one
(`OneClosure`), and who can see the button (`ButtonGuarded`).

**Only model-checked.** Liveness under fairness (`Converges`,
`EveryPressAnswered`, `AlertGoes`, `UploadEnds`) is beyond the prover. The five
violated runs are counterexamples and have nothing to prove.

## 5. Not modelled

Nearly all of the repository's lines are vendored pods (gRPC, BoringSSL, abseil,
leveldb, Firebase): certificate tables, cryptography and transports that the
apps never call by name. What the apps rest on, the client's queues, streams and
views, is modelled from its sources; the rest has no property of these apps, and
a model of it would be one of those libraries. The apps' own code is
some seven thousand lines, most of them layout.

- Of Firestore: transactions, limits, limbo resolution, garbage collection,
  field transforms, idle streams, more than one query, security-rule details
  (a refusal is a choice).
- Of Home: the search bar's Cancel handler is unreachable, since nothing sets
  `showsCancelButton`. Home's list across logins, whose listeners outlive a logout.
- Of Add and Edit: the warnings about an empty title, the half-second alerts. Of
  the alarms: when they ring; `userNotificationCenter` compares with
  "alarmNotification", which no request is called, so that `play()` never runs.
- Of the session: the contents of forms and the warnings; a sign-out that
  fails, which changes nothing.
- Of Profile: the action sheet and the picker, which are one step with what they
  return.
- Of the table: cells that are reused while a press lasts. `PressMoves` keeps the
  row the press began with, although the cell may have been given another.
- Of the critter: that Signup turns the head for what is typed into its password
  fields too, how far the head turns, the mouth, the saved animation states,
  all drawing.
- Of ConcurrencyProject: progress bars and their messages, the browser, the
  advertiser, invitations. The main queue may run due notifications in any
  order, which is more than it does.
- `ReminderModel.opened` and `Controllers/CustomTableViewCell.swift` are unused.
  Remindify has no documents and no tests of its own: what is quoted above are
  comments.
- The other exercises (section 1), layout, colours, fonts and logging everywhere.

## 6. Plan

What is left, in this order:

1. Home across logins: the listeners of an earlier user, whose query the server
   refuses, composed with Session.
2. ReminderTable over HomeReminders: the arrays as sequences under the same
   client, so that `HomeIsMirror` joins the two.
3. The bound on listeners by deletions rather than writes, and with it how often
   one change is delivered.
