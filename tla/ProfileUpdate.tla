---------------------------- MODULE ProfileUpdate ----------------------------
(***************************************************************************)
(* The Profile screen: a picture is uploaded in three calls (put the data, *)
(* fetch its URL, commit the URL to the user), a name in one.  Profile     *)
(* shows a HUD over itself and disables the navigation bar, which it       *)
(* shares with Home, until the upload is answered; it may be swiped away   *)
(* meanwhile.  The answers of the upload hold Profile weakly, the answer   *)
(* of a picture's commit strongly.                                         *)
(*                                                                         *)
(* Home is the only other screen here: Password, which covers Profile,     *)
(* changes nothing that Profile keeps.                                     *)
(***************************************************************************)
EXTENDS Naturals, Sequences

CONSTANTS
    Names, NoName,        \* names, and the empty one
    Photos, NoPhoto,      \* pictures, and the symbol shown for none
    MaxProfiles,          \* bound: Profile screens opened
    MaxCalls              \* bound: uploads and name commits

ASSUME NoNameAssumption  == NoName \notin Names
ASSUME NoPhotoAssumption == NoPhoto \notin Photos
ASSUME BoundAssumption   == MaxProfiles \in Nat /\ MaxCalls \in Nat

VARIABLES
    user,        \* Auth's currentUser: displayName and photoURL
    commits,     \* profile changes being committed, oldest first
    upload,      \* the uploads under way, at most one
    bar,         \* navigationBar.isUserInteractionEnabled
    screen,      \* the number of the Profile on top, 0 for Home
    form,        \* what the Profile on top shows
    opened,      \* Profiles opened so far
    calls,       \* uploads and name commits so far
    stranded,    \* ghost: an upload that nobody will act on has disabled the bar
    early        \* ghost: the Profile on top was opened with commits pending

authVars  == <<user, commits>>
boundVars == <<opened, calls>>
vars      == <<authVars, upload, bar, screen, form, boundVars, stranded, early>>

OnProfile == screen # 0
User   == [name : Names \cup {NoName}, photo : Photos \cup {NoPhoto}]
Form   == [name : Names \cup {NoName}, photo : Photos \cup {NoPhoto}, saveEnabled : BOOLEAN,
           warning : {"hidden", "empty", "failed", "saved"}, hud : BOOLEAN]
NoForm == [name |-> NoName, photo |-> NoPhoto, saveEnabled |-> FALSE,
           warning |-> "hidden", hud |-> FALSE]
Upload == [by : 1..MaxProfiles, photo : Photos, step : {"put", "url"}]
Commit == [by : 1..MaxProfiles, field : {"name"}, value : Names]
          \cup [by : 1..MaxProfiles, field : {"photo"}, value : Photos]

\* A Profile lives on top, or in the answer of a picture's commit.
Alive(s) == s = screen \/ \E i \in DOMAIN commits : commits[i].by = s /\ commits[i].field = "photo"

-----------------------------------------------------------------------------
(* Gestures.                                                               *)

\* Home's button is on the bar; Profile loads the user as it is.
OpenProfile ==
    /\ ~OnProfile
    /\ bar
    /\ opened < MaxProfiles
    /\ opened' = opened + 1
    /\ screen' = opened'
    /\ form' = [NoForm EXCEPT !.name = user.name, !.photo = user.photo]
    /\ early' = (commits # <<>>)
    /\ UNCHANGED <<authVars, upload, bar, calls, stranded>>

\* Slip: the view's contents outlive the screen.
BackKeepingForm ==
    /\ OnProfile
    /\ screen' = 0
    /\ stranded' = (stranded \/ upload # {})
    /\ early' = FALSE
    /\ UNCHANGED <<authVars, upload, bar, form, boundVars>>

\* The swipe from the edge asks neither the bar nor the HUD.
Back ==
    /\ OnProfile
    /\ screen' = 0
    /\ form' = NoForm
    /\ stranded' = (stranded \/ upload # {})
    /\ early' = FALSE
    /\ UNCHANGED <<authVars, upload, bar, boundVars>>

\* The HUD covers the button.  A picture that has no JPEG data is not uploaded
\* and never answered.
PickImage(p) ==
    /\ OnProfile
    /\ ~form.hud
    /\ calls < MaxCalls
    /\ calls' = calls + 1
    /\ form' = [form EXCEPT !.hud = TRUE]
    /\ bar' = FALSE
    /\ \/ /\ upload' = upload \cup {[by |-> screen, photo |-> p, step |-> "put"]}
          /\ UNCHANGED stranded
       \/ /\ stranded' = TRUE
          /\ UNCHANGED upload
    /\ UNCHANGED <<authVars, screen, opened, early>>

TextFieldDidChange(n) ==
    /\ OnProfile
    /\ n # form.name
    /\ form' = [form EXCEPT !.name = n, !.saveEnabled = TRUE]
    /\ UNCHANGED <<authVars, upload, bar, screen, boundVars, stranded, early>>

\* Slip: the button is disabled before the name is looked at.
SaveNameDisabledFirst ==
    /\ OnProfile
    /\ form.saveEnabled /\ ~form.hud
    /\ \/ /\ form.name = NoName
          /\ form' = [form EXCEPT !.saveEnabled = FALSE, !.warning = "empty"]
          /\ UNCHANGED <<commits, calls>>
       \/ /\ form.name # NoName
          /\ calls < MaxCalls
          /\ calls' = calls + 1
          /\ commits' = Append(commits, [by |-> screen, field |-> "name", value |-> form.name])
          /\ form' = [form EXCEPT !.saveEnabled = FALSE]
    /\ UNCHANGED <<user, upload, bar, screen, opened, stranded, early>>

SaveName ==
    /\ OnProfile
    /\ form.saveEnabled /\ ~form.hud
    /\ \/ /\ form.name = NoName
          /\ form' = [form EXCEPT !.warning = "empty"]
          /\ UNCHANGED <<commits, calls>>
       \/ /\ form.name # NoName
          /\ calls < MaxCalls
          /\ calls' = calls + 1
          /\ commits' = Append(commits, [by |-> screen, field |-> "name", value |-> form.name])
          /\ form' = [form EXCEPT !.saveEnabled = FALSE]
    /\ UNCHANGED <<user, upload, bar, screen, opened, stranded, early>>

-----------------------------------------------------------------------------
(* Answers, on the main queue.                                             *)

DataPut(u) ==
    /\ u.step = "put"
    /\ upload' = (upload \ {u}) \cup {[u EXCEPT !.step = "url"]}
    /\ UNCHANGED <<authVars, bar, screen, form, boundVars, stranded, early>>

\* Slip: a failure is only printed.
UploadCompletedIfOk(u, ok) ==
    /\ ok => u.step = "url"
    /\ upload' = upload \ {u}
    /\ IF ok /\ u.by = screen
       THEN form' = [form EXCEPT !.hud = FALSE] /\ bar' = TRUE
       ELSE UNCHANGED <<form, bar>>
    /\ commits' = IF ok /\ Alive(u.by)
                  THEN Append(commits, [by |-> u.by, field |-> "photo", value |-> u.photo])
                  ELSE commits
    /\ UNCHANGED <<user, screen, boundVars, stranded, early>>

\* Either call may fail, only the second one succeeds.  A Profile that has gone
\* does nothing; one that is kept alive has no navigation controller any more,
\* but still commits the URL.
UploadCompleted(u, ok) ==
    /\ ok => u.step = "url"
    /\ upload' = upload \ {u}
    /\ IF u.by = screen
       THEN form' = [form EXCEPT !.hud = FALSE] /\ bar' = TRUE
       ELSE UNCHANGED <<form, bar>>
    /\ commits' = IF ok /\ Alive(u.by)
                  THEN Append(commits, [by |-> u.by, field |-> "photo", value |-> u.photo])
                  ELSE commits
    /\ UNCHANGED <<user, screen, boundVars, stranded, early>>

Answered == commits # <<>> /\ commits' = Tail(commits)

\* Auth commits one change after the other.  Each answer is for the Profile
\* that asked: the label tells of a name, a new picture is shown.
NameCommitted(ok) ==
    LET c == Head(commits)
    IN  /\ Answered
        /\ c.field = "name"
        /\ user' = IF ok THEN [user EXCEPT !.name = c.value] ELSE user
        /\ form' = IF c.by = screen
                   THEN [form EXCEPT !.warning = IF ok THEN "saved" ELSE "failed"] ELSE form
        /\ UNCHANGED <<upload, bar, screen, boundVars, stranded, early>>

\* Slip: the picture is shown whether or not it was committed.
PhotoCommittedUnlooked(ok) ==
    LET c == Head(commits)
    IN  /\ Answered
        /\ c.field = "photo"
        /\ user' = IF ok THEN [user EXCEPT !.photo = c.value] ELSE user
        /\ form' = IF c.by = screen THEN [form EXCEPT !.photo = c.value] ELSE form
        /\ UNCHANGED <<upload, bar, screen, boundVars, stranded, early>>

PhotoCommitted(ok) ==
    LET c == Head(commits)
    IN  /\ Answered
        /\ c.field = "photo"
        /\ user' = IF ok THEN [user EXCEPT !.photo = c.value] ELSE user
        /\ form' = IF ok /\ c.by = screen THEN [form EXCEPT !.photo = c.value] ELSE form
        /\ UNCHANGED <<upload, bar, screen, boundVars, stranded, early>>

\* A new process shows Home; the user outlives it, what was pending does not.
Relaunch ==
    /\ opened < MaxProfiles
    /\ commits' = <<>> /\ upload' = {} /\ bar' = TRUE
    /\ screen' = 0 /\ form' = NoForm
    /\ stranded' = FALSE /\ early' = FALSE
    /\ UNCHANGED <<user, boundVars>>

-----------------------------------------------------------------------------
Init ==
    /\ user \in [name : Names, photo : {NoPhoto}]
    /\ commits = <<>> /\ upload = {} /\ bar = TRUE
    /\ screen = 0 /\ form = NoForm
    /\ opened = 0 /\ calls = 0
    /\ stranded = FALSE /\ early = FALSE

StorageAnswers == \E u \in upload : DataPut(u) \/ \E ok \in BOOLEAN : UploadCompleted(u, ok)
AuthAnswers    == \E ok \in BOOLEAN : NameCommitted(ok) \/ PhotoCommitted(ok)

Next ==
    \/ OpenProfile \/ Back \/ SaveName \/ Relaunch
    \/ \E p \in Photos : PickImage(p)
    \/ \E n \in Names \cup {NoName} : TextFieldDidChange(n)
    \/ StorageAnswers \/ AuthAnswers

Spec == Init /\ [][Next]_vars

\* Storage and Auth answer every call, with an error when their retries end.
FairSpec == Spec /\ WF_vars(StorageAnswers) /\ WF_vars(AuthAnswers)
-----------------------------------------------------------------------------
(* Properties.                                                             *)

\* Values keep their types, and Home has neither a form nor a HUD.
TypeOK ==
    /\ user \in User /\ commits \in Seq(Commit) /\ upload \subseteq Upload
    /\ bar \in BOOLEAN /\ stranded \in BOOLEAN /\ early \in BOOLEAN
    /\ screen \in 0..opened /\ opened \in 0..MaxProfiles /\ calls \in 0..MaxCalls
    /\ form \in Form /\ (~OnProfile => form = NoForm)

\* The bar is disabled exactly while an upload of the Profile on top runs, but
\* for one way to break it: the upload has lost its Profile, or never began.
\* Then only a new process has a bar again.
BarWhileUploading ==
    ~stranded => (~bar <=> \E u \in upload : u.by = screen)

\* Uploads do not overlap, and the HUD never outlives or misses one.
OneUpload ==
    /\ \A u, v \in upload : u = v
    /\ OnProfile /\ ~stranded => (form.hud <=> upload # {})

\* The picture on the screen is the user's, through any number of uploads and
\* failures, unless Profile was opened while a commit was pending: that commit
\* reaches the Profile that asked for it.
PictureIsUsers == OnProfile /\ ~early => form.photo = user.photo

\* With nothing more to save or to wait for, and no failure on show, the name on
\* the screen is the user's, however edits, saves and answers have overlapped.
NameIsUsers ==
    OnProfile /\ ~early /\ commits = <<>> /\ ~form.saveEnabled /\ form.warning # "failed"
        => form.name = user.name

\* An upload that has begun ends, and its HUD and the closed bar with it.
UploadEnds == bar = FALSE /\ ~stranded ~> bar \/ stranded
=============================================================================
