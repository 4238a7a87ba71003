------------------------ MODULE ProfileUpdate_proofs ------------------------
(***************************************************************************)
(* Proofs about ProfileUpdate, for any names, pictures and bounds.         *)
(***************************************************************************)
EXTENDS ProfileUpdate, TLAPS

\* One upload at a time, by a Profile that was opened.  An upload nobody will
\* act on keeps the bar disabled, and its HUD if it never began; any other runs
\* for the Profile on top, with the bar disabled and the HUD shown until it ends.
UploadInv ==
    /\ \A u, v \in upload : u = v
    /\ stranded => ~bar /\ (OnProfile => upload = {} /\ form.hud)
    /\ ~stranded => /\ bar <=> upload = {}
                    /\ \A u \in upload : u.by = screen
                    /\ OnProfile => (form.hud <=> upload # {})

\* A Profile opened with nothing pending sees its own commits only.
OwnCommits == OnProfile /\ ~early => \A i \in DOMAIN commits : commits[i].by = screen

\* Unless the name is being edited, the last of q to commit a name commits the
\* one that f shows; when there is none to come, f shows the user's or a failure.
LastName(q, n) ==
    \E i \in DOMAIN q : /\ q[i].field = "name" /\ q[i].value = n
                        /\ \A j \in DOMAIN q : j > i => q[j].field # "name"
NoNames(q) == \A i \in DOMAIN q : q[i].field # "name"
NameInv ==
    OnProfile /\ ~early /\ ~form.saveEnabled =>
        \/ LastName(commits, form.name)
        \/ NoNames(commits) /\ (form.name = user.name \/ form.warning = "failed")

ProfileInv == TypeOK /\ UploadInv /\ OwnCommits /\ PictureIsUsers /\ NameInv

\* What a new commit does to the queue.
LEMMA Appended ==
  ASSUME NEW q \in Seq(Commit), NEW c \in Commit
  PROVE  /\ Append(q, c) \in Seq(Commit)
         /\ \A s : (\A i \in DOMAIN q : q[i].by = s) /\ c.by = s
                     => \A i \in DOMAIN Append(q, c) : Append(q, c)[i].by = s
         /\ c.field = "name" => LastName(Append(q, c), c.value)
         /\ c.field # "name" /\ NoNames(q) => NoNames(Append(q, c))
         /\ \A n : c.field # "name" /\ LastName(q, n) => LastName(Append(q, c), n)
<1> DEFINE r == Append(q, c)
<1>1. /\ r \in Seq(Commit) /\ Len(q) \in Nat /\ DOMAIN q = 1..Len(q)
      /\ DOMAIN r = 1..(Len(q) + 1)
      /\ \A i \in DOMAIN q : r[i] = q[i]
      /\ r[Len(q) + 1] = c
  OBVIOUS
<1> HIDE DEF r
<1>2. \A s : (\A i \in DOMAIN q : q[i].by = s) /\ c.by = s => \A i \in DOMAIN r : r[i].by = s
  <2> SUFFICES ASSUME NEW s, \A i \in DOMAIN q : q[i].by = s, c.by = s, NEW i \in DOMAIN r
               PROVE  r[i].by = s
    OBVIOUS
  <2>1. i \in DOMAIN q \/ i = Len(q) + 1
    BY <1>1
  <2> QED
    BY <1>1, <2>1
<1>3. c.field = "name" => LastName(r, c.value)
  <2> SUFFICES ASSUME c.field = "name" PROVE LastName(r, c.value)
    OBVIOUS
  <2>1. Len(q) + 1 \in DOMAIN r /\ \A j \in DOMAIN r : ~(j > Len(q) + 1)
    BY <1>1
  <2> QED
    BY <1>1, <2>1 DEF LastName
<1>4. c.field # "name" /\ NoNames(q) => NoNames(r)
  <2> SUFFICES ASSUME c.field # "name", NoNames(q), NEW i \in DOMAIN r PROVE r[i].field # "name"
    BY DEF NoNames
  <2>1. i \in DOMAIN q \/ i = Len(q) + 1
    BY <1>1
  <2> QED
    BY <1>1, <2>1 DEF NoNames
<1>5. \A n : c.field # "name" /\ LastName(q, n) => LastName(r, n)
  <2> SUFFICES ASSUME NEW n, c.field # "name", LastName(q, n) PROVE LastName(r, n)
    OBVIOUS
  <2>1. PICK i \in DOMAIN q : /\ q[i].field = "name" /\ q[i].value = n
                              /\ \A j \in DOMAIN q : j > i => q[j].field # "name"
    BY DEF LastName
  <2>2. ASSUME NEW j \in DOMAIN r, j > i PROVE r[j].field # "name"
    <3>1. j \in DOMAIN q \/ j = Len(q) + 1
      BY <1>1
    <3> QED
      BY <1>1, <2>1, <2>2, <3>1
  <2>3. i \in DOMAIN r /\ r[i] = q[i]
    BY <1>1
  <2> QED
    BY <2>1, <2>2, <2>3 DEF LastName
<1> QED
  BY <1>1, <1>2, <1>3, <1>4, <1>5 DEF r

\* What an answer does to the queue.
LEMMA Tailed ==
  ASSUME NEW q \in Seq(Commit), q # <<>>
  PROVE  /\ Tail(q) \in Seq(Commit) /\ Head(q) \in Commit
         /\ \A s : (\A i \in DOMAIN q : q[i].by = s)
                     => Head(q).by = s /\ \A i \in DOMAIN Tail(q) : Tail(q)[i].by = s
         /\ NoNames(q) => NoNames(Tail(q)) /\ Head(q).field # "name"
         /\ \A n : LastName(q, n) => \/ LastName(Tail(q), n)
                                     \/ NoNames(Tail(q)) /\ Head(q).field = "name" /\ Head(q).value = n
<1> DEFINE r == Tail(q)
<1>1. /\ r \in Seq(Commit) /\ Len(q) \in Nat /\ Len(q) >= 1 /\ DOMAIN q = 1..Len(q)
      /\ DOMAIN r = 1..(Len(q) - 1)
      /\ \A i \in DOMAIN r : r[i] = q[i + 1]
      /\ Head(q) = q[1] /\ q[1] \in Commit
  OBVIOUS
<1> HIDE DEF r
<1>2. \A i \in DOMAIN r : i + 1 \in DOMAIN q
  BY <1>1
<1>3. 1 \in DOMAIN q
  BY <1>1
<1>4. \A s : (\A i \in DOMAIN q : q[i].by = s) => Head(q).by = s /\ \A i \in DOMAIN r : r[i].by = s
  BY <1>1, <1>2, <1>3
<1>5. NoNames(q) => NoNames(r) /\ Head(q).field # "name"
  BY <1>1, <1>2, <1>3 DEF NoNames
<1>6. ASSUME NEW n, LastName(q, n)
      PROVE  LastName(r, n) \/ (NoNames(r) /\ Head(q).field = "name" /\ Head(q).value = n)
  <2>1. PICK i \in DOMAIN q : /\ q[i].field = "name" /\ q[i].value = n
                              /\ \A j \in DOMAIN q : j > i => q[j].field # "name"
    BY <1>6 DEF LastName
  <2>2. CASE i = 1
    <3>1. ASSUME NEW j \in DOMAIN r PROVE r[j].field # "name"
      <4>1. j + 1 \in DOMAIN q /\ j + 1 > i
        BY <1>1, <2>2
      <4> QED
        BY <1>1, <2>1, <4>1
    <3> QED
      BY <1>1, <2>1, <2>2, <3>1 DEF NoNames
  <2>3. CASE i # 1
    <3>1. i - 1 \in DOMAIN r /\ r[i - 1] = q[i]
      <4>1. i - 1 \in DOMAIN r /\ (i - 1) + 1 = i
        BY <1>1, <2>3
      <4> QED
        BY <1>1, <4>1
    <3>2. ASSUME NEW j \in DOMAIN r, j > i - 1 PROVE r[j].field # "name"
      <4>1. j + 1 \in DOMAIN q /\ j + 1 > i
        BY <1>1, <3>2
      <4> QED
        BY <1>1, <2>1, <4>1
    <3> QED
      BY <2>1, <3>1, <3>2 DEF LastName
  <2> QED
    BY <2>2, <2>3
<1> QED
  BY <1>1, <1>4, <1>5, <1>6 DEF r

\* Home at first, with nothing under way.
LEMMA ProfileInitial == Init => ProfileInv
<1> SUFFICES ASSUME Init PROVE ProfileInv
  OBVIOUS
<1>0. /\ user \in [name : Names, photo : {NoPhoto}] /\ commits = <<>> /\ upload = {}
      /\ bar = TRUE /\ screen = 0 /\ form = NoForm /\ opened = 0 /\ calls = 0
      /\ stranded = FALSE /\ early = FALSE
  BY DEF Init
<1>1. TypeOK
  <2>1. user \in User /\ form \in Form
    BY <1>0 DEF User, Form, NoForm
  <2>2. commits \in Seq(Commit)
    BY <1>0
  <2>3. screen \in 0..opened /\ opened \in 0..MaxProfiles /\ calls \in 0..MaxCalls
    BY <1>0, BoundAssumption
  <2> QED
    BY <1>0, <2>1, <2>2, <2>3 DEF TypeOK
<1>2. UploadInv
  BY <1>0 DEF UploadInv, OnProfile
<1>3. OwnCommits /\ PictureIsUsers /\ NameInv
  BY <1>0 DEF OwnCommits, PictureIsUsers, NameInv, OnProfile
<1> QED
  BY <1>1, <1>2, <1>3 DEF ProfileInv

\* Opening Profile.
LEMMA OpenStep == ProfileInv /\ OpenProfile => ProfileInv'
<1> SUFFICES ASSUME ProfileInv, OpenProfile PROVE ProfileInv'
  OBVIOUS
<1>1. /\ screen = 0 /\ bar /\ opened < MaxProfiles
      /\ opened' = opened + 1 /\ screen' = opened + 1
      /\ form' = [NoForm EXCEPT !.name = user.name, !.photo = user.photo]
      /\ early' = (commits # <<>>)
      /\ UNCHANGED <<user, commits, upload, bar, calls, stranded>>
  BY DEF OpenProfile, OnProfile, authVars
<1>2. TypeOK
  BY DEF ProfileInv
<1>3. screen' # 0 /\ opened' \in 0..MaxProfiles /\ screen' \in 0..opened'
  BY <1>1, <1>2, BoundAssumption DEF TypeOK
<1>4. /\ form' \in Form /\ form'.name = user.name /\ form'.photo = user.photo
      /\ form'.hud = FALSE
  BY <1>1, <1>2 DEF TypeOK, Form, NoForm, User
<1>5. TypeOK'
  <2>1. early' \in BOOLEAN
    BY <1>1
  <2> QED
    BY <1>1, <1>2, <1>3, <1>4, <2>1 DEF TypeOK, OnProfile
<1>6. ~stranded /\ upload = {}
  BY <1>1 DEF ProfileInv, UploadInv
<1>7. UploadInv'
  BY <1>1, <1>4, <1>6 DEF UploadInv
<1>8. OwnCommits' /\ NameInv'
  <2>1. ~early' => commits' = <<>>
    BY <1>1
  <2>2. ASSUME commits' = <<>> PROVE DOMAIN commits' = {}
    BY <2>2
  <2>3. form'.name = user'.name
    BY <1>1, <1>4
  <2> QED
    BY <2>1, <2>2, <2>3 DEF OwnCommits, NameInv, NoNames
<1>9. PictureIsUsers'
  BY <1>1, <1>4 DEF PictureIsUsers
<1> QED
  BY <1>5, <1>7, <1>8, <1>9 DEF ProfileInv

\* Leaving Profile, or starting the app again.
LEMMA LeaveStep == ProfileInv /\ (Back \/ Relaunch) => ProfileInv'
<1> SUFFICES ASSUME ProfileInv, Back \/ Relaunch PROVE ProfileInv'
  OBVIOUS
<1>1. TypeOK /\ UploadInv
  BY DEF ProfileInv
<1>2. screen' = 0 /\ form' = NoForm /\ early' = FALSE /\ UNCHANGED <<user, opened, calls>>
  BY DEF Back, Relaunch, authVars, boundVars
<1>3. NoForm \in Form
  BY DEF Form, NoForm
<1>4. CASE Back
  <2>1. /\ screen # 0 /\ stranded' = (stranded \/ upload # {})
        /\ UNCHANGED <<commits, upload, bar>>
    BY <1>4 DEF Back, OnProfile, authVars
  <2>2. TypeOK'
    <3>1. stranded' \in BOOLEAN /\ screen' \in 0..opened'
      BY <1>1, <1>2, <2>1 DEF TypeOK
    <3> QED
      BY <1>1, <1>2, <1>3, <2>1, <3>1 DEF TypeOK, OnProfile
  <2>3. stranded' => ~bar'
    BY <1>1, <2>1 DEF UploadInv
  <2>4. ~stranded' => ~stranded /\ upload = {} /\ bar'
    BY <1>1, <2>1 DEF UploadInv
  <2>5. UploadInv'
    BY <1>1, <1>2, <2>1, <2>3, <2>4 DEF UploadInv, OnProfile
  <2> QED
    BY <1>2, <2>2, <2>5 DEF ProfileInv, OwnCommits, PictureIsUsers, NameInv, OnProfile
<1>5. CASE Relaunch
  <2>1. commits' = <<>> /\ upload' = {} /\ bar' = TRUE /\ stranded' = FALSE
    BY <1>5 DEF Relaunch
  <2>2. TypeOK'
    <3>1. commits' \in Seq(Commit)
      BY <2>1
    <3>2. screen' \in 0..opened'
      BY <1>1, <1>2 DEF TypeOK
    <3> QED
      BY <1>1, <1>2, <1>3, <2>1, <3>1, <3>2 DEF TypeOK, OnProfile
  <2>3. UploadInv'
    BY <1>2, <2>1 DEF UploadInv, OnProfile
  <2> QED
    BY <1>2, <2>2, <2>3 DEF ProfileInv, OwnCommits, PictureIsUsers, NameInv, OnProfile
<1> QED
  BY <1>4, <1>5

\* Picking a picture.
LEMMA PickStep == ASSUME ProfileInv, NEW p \in Photos, PickImage(p) PROVE ProfileInv'
<1> DEFINE u == [by |-> screen, photo |-> p, step |-> "put"]
<1>1. /\ screen # 0 /\ ~form.hud /\ calls < MaxCalls /\ calls' = calls + 1
      /\ form' = [form EXCEPT !.hud = TRUE] /\ bar' = FALSE
      /\ UNCHANGED <<user, commits, screen, opened, early>>
      /\ \/ upload' = upload \cup {u} /\ stranded' = stranded
         \/ upload' = upload /\ stranded' = TRUE
  BY DEF PickImage, OnProfile, authVars
<1>2. TypeOK
  BY DEF ProfileInv
<1>3. ~stranded /\ upload = {}
  BY <1>1, <1>2 DEF ProfileInv, UploadInv, OnProfile
<1>4. /\ form' \in Form /\ form'.hud = TRUE
      /\ form'.name = form.name /\ form'.photo = form.photo
      /\ form'.saveEnabled = form.saveEnabled /\ form'.warning = form.warning
  BY <1>1, <1>2 DEF TypeOK, Form
<1>5. u \in Upload /\ u.by = screen
  <2>1. screen \in 1..MaxProfiles
    BY <1>1, <1>2, BoundAssumption DEF TypeOK
  <2> QED
    BY <2>1 DEF Upload
<1>6. TypeOK'
  <2>1. calls' \in 0..MaxCalls
    BY <1>1, <1>2, BoundAssumption DEF TypeOK
  <2>2. upload' \subseteq Upload /\ stranded' \in BOOLEAN
    BY <1>1, <1>2, <1>5 DEF TypeOK
  <2> QED
    BY <1>1, <1>2, <1>4, <2>1, <2>2 DEF TypeOK, OnProfile
<1>7. UploadInv'
  <2>1. CASE upload' = upload \cup {u} /\ stranded' = stranded
    BY <1>1, <1>3, <1>4, <1>5, <2>1 DEF UploadInv, OnProfile
  <2>2. CASE upload' = upload /\ stranded' = TRUE
    BY <1>1, <1>3, <1>4, <2>2 DEF UploadInv, OnProfile
  <2> QED
    BY <1>1, <2>1, <2>2
<1>8. OwnCommits' /\ PictureIsUsers' /\ NameInv'
  BY <1>1, <1>4 DEF ProfileInv, OwnCommits, PictureIsUsers, NameInv, OnProfile
<1> QED
  BY <1>6, <1>7, <1>8 DEF ProfileInv

\* Editing and saving the name.
LEMMA NameStep ==
  ASSUME ProfileInv, NEW n \in Names \cup {NoName}, TextFieldDidChange(n) \/ SaveName
  PROVE  ProfileInv'
<1>1. /\ screen # 0 /\ UNCHANGED <<user, upload, bar, screen, opened, stranded, early>>
  BY DEF TextFieldDidChange, SaveName, OnProfile, authVars, boundVars
<1>2. TypeOK /\ OwnCommits
  BY DEF ProfileInv
<1>3. CASE TextFieldDidChange(n)
  <2>1. form' = [form EXCEPT !.name = n, !.saveEnabled = TRUE] /\ UNCHANGED <<commits, calls>>
    BY <1>3 DEF TextFieldDidChange, authVars, boundVars
  <2>2. /\ form' \in Form /\ form'.saveEnabled = TRUE
        /\ form'.photo = form.photo /\ form'.hud = form.hud
    BY <1>2, <2>1 DEF TypeOK, Form
  <2>3. TypeOK'
    BY <1>1, <1>2, <2>1, <2>2 DEF TypeOK, OnProfile
  <2>4. UploadInv'
    BY <1>1, <2>2 DEF ProfileInv, UploadInv, OnProfile
  <2> QED
    BY <1>1, <2>1, <2>2, <2>3, <2>4 DEF ProfileInv, OwnCommits, PictureIsUsers, NameInv, OnProfile
<1>4. CASE SaveName
  <2>1. CASE form' = [form EXCEPT !.warning = "empty"] /\ UNCHANGED <<commits, calls>>
    <3>1. /\ form' \in Form /\ form'.saveEnabled = TRUE
          /\ form'.photo = form.photo /\ form'.hud = form.hud
      BY <1>2, <1>4, <2>1 DEF TypeOK, Form, SaveName
    <3>2. TypeOK'
      BY <1>1, <1>2, <2>1, <3>1 DEF TypeOK, OnProfile
    <3>3. UploadInv'
      BY <1>1, <3>1 DEF ProfileInv, UploadInv, OnProfile
    <3> QED
      BY <1>1, <2>1, <3>1, <3>2, <3>3
         DEF ProfileInv, OwnCommits, PictureIsUsers, NameInv, OnProfile
  <2>2. CASE ~(form' = [form EXCEPT !.warning = "empty"] /\ UNCHANGED <<commits, calls>>)
    <3> DEFINE c == [by |-> screen, field |-> "name", value |-> form.name]
    <3>1. /\ form.name # NoName /\ calls < MaxCalls /\ calls' = calls + 1
          /\ commits' = Append(commits, c) /\ form' = [form EXCEPT !.saveEnabled = FALSE]
      BY <1>4, <2>2 DEF SaveName
    <3>2. /\ form' \in Form /\ form'.name = form.name
          /\ form'.photo = form.photo /\ form'.hud = form.hud
      BY <1>2, <3>1 DEF TypeOK, Form
    <3>3. c \in Commit /\ c.field = "name" /\ c.value = form.name /\ c.by = screen
      <4>1. screen \in 1..MaxProfiles
        BY <1>1, <1>2, BoundAssumption DEF TypeOK
      <4>2. form.name \in Names
        BY <1>2, <3>1 DEF TypeOK, Form
      <4> QED
        BY <4>1, <4>2 DEF Commit
    <3> HIDE DEF c
    <3>4. commits \in Seq(Commit)
      BY <1>2 DEF TypeOK
    <3>5. /\ commits' \in Seq(Commit) /\ LastName(commits', form.name)
          /\ (\A i \in DOMAIN commits : commits[i].by = screen) => \A i \in DOMAIN commits' : commits'[i].by = screen
      BY <3>1, <3>3, <3>4, Appended
    <3>6. TypeOK'
      <4>1. calls' \in 0..MaxCalls
        BY <1>2, <3>1, BoundAssumption DEF TypeOK
      <4> QED
        BY <1>1, <1>2, <3>2, <3>5, <4>1 DEF TypeOK, OnProfile
    <3>7. UploadInv'
      BY <1>1, <3>2 DEF ProfileInv, UploadInv, OnProfile
    <3>8. OwnCommits'
      BY <1>1, <1>2, <3>5 DEF OwnCommits, OnProfile
    <3>9. PictureIsUsers' /\ NameInv'
      BY <1>1, <3>2, <3>5 DEF ProfileInv, PictureIsUsers, NameInv, OnProfile
    <3> QED
      BY <3>6, <3>7, <3>8, <3>9 DEF ProfileInv
  <2> QED
    BY <2>1, <2>2
<1> QED
  BY <1>3, <1>4

\* The first call of an upload is answered.
LEMMA PutStep == ASSUME ProfileInv, NEW u \in upload, DataPut(u) PROVE ProfileInv'
<1> DEFINE w == [u EXCEPT !.step = "url"]
<1>1. /\ upload' = (upload \ {u}) \cup {w}
      /\ UNCHANGED <<user, commits, bar, screen, form, opened, calls, stranded, early>>
  BY DEF DataPut, authVars, boundVars
<1>2. TypeOK /\ UploadInv
  BY DEF ProfileInv
<1>3. w \in Upload /\ w.by = u.by
  BY <1>2 DEF TypeOK, Upload
<1> HIDE DEF w
<1>4. upload' = {w} /\ upload # {}
  BY <1>1, <1>2 DEF UploadInv
<1>5. TypeOK'
  BY <1>1, <1>2, <1>3, <1>4 DEF TypeOK, OnProfile
<1>6. UploadInv'
  BY <1>1, <1>2, <1>3, <1>4 DEF UploadInv, OnProfile
<1>7. OwnCommits' /\ PictureIsUsers' /\ NameInv'
  BY <1>1 DEF ProfileInv, OwnCommits, PictureIsUsers, NameInv, OnProfile
<1> QED
  BY <1>5, <1>6, <1>7 DEF ProfileInv

\* An upload is answered: its Profile may have gone, which leaves it stranded.
LEMMA UploadStep ==
  ASSUME ProfileInv, NEW u \in upload, NEW ok \in BOOLEAN, UploadCompleted(u, ok)
  PROVE  ProfileInv'
<1> DEFINE c == [by |-> u.by, field |-> "photo", value |-> u.photo]
<1>1. /\ upload' = upload \ {u}
      /\ IF u.by = screen THEN form' = [form EXCEPT !.hud = FALSE] /\ bar' = TRUE
         ELSE UNCHANGED <<form, bar>>
      /\ commits' = Append(commits, c) \/ commits' = commits
      /\ UNCHANGED <<user, screen, opened, calls, stranded, early>>
  BY DEF UploadCompleted, boundVars
<1>2. TypeOK /\ UploadInv /\ OwnCommits /\ NameInv
  BY DEF ProfileInv
<1>3. upload' = {} /\ upload # {}
  BY <1>1, <1>2 DEF UploadInv
<1>4. u.by # 0 /\ u \in Upload
  BY <1>2 DEF TypeOK, Upload
<1>5. /\ form' \in Form /\ form'.name = form.name /\ form'.photo = form.photo
      /\ form'.saveEnabled = form.saveEnabled /\ form'.warning = form.warning
      /\ u.by = screen => form'.hud = FALSE
  BY <1>1, <1>2 DEF TypeOK, Form
<1>6. c \in Commit /\ c.field # "name" /\ c.by = u.by
  BY <1>4 DEF Upload, Commit
<1> HIDE DEF c
<1>7. OnProfile => u.by = screen
  BY <1>2, <1>3 DEF UploadInv
<1>8. commits \in Seq(Commit) /\ commits' \in Seq(Commit)
  BY <1>1, <1>2, <1>6, Appended DEF TypeOK
<1>9. TypeOK'
  <2>1. bar' \in BOOLEAN /\ (~OnProfile' => form' = NoForm)
    BY <1>1, <1>2, <1>4 DEF TypeOK, OnProfile
  <2> QED
    BY <1>1, <1>2, <1>3, <1>5, <1>8, <2>1 DEF TypeOK
<1>10. UploadInv'
  <2>1. CASE u.by = screen
    <3>1. ~stranded
      BY <1>2, <1>3, <1>4, <2>1 DEF UploadInv, OnProfile
    <3> QED
      BY <1>1, <1>3, <1>5, <2>1, <3>1 DEF UploadInv
  <2>2. CASE u.by # screen
    <3>1. stranded /\ ~bar /\ ~OnProfile
      BY <1>2, <1>3, <2>2, <1>7 DEF UploadInv
    <3> QED
      BY <1>1, <1>3, <2>2, <3>1 DEF UploadInv, OnProfile
  <2> QED
    BY <2>1, <2>2
<1>11. OwnCommits'
  <2>1. ASSUME OnProfile, \A i \in DOMAIN commits : commits[i].by = screen
        PROVE  \A i \in DOMAIN commits' : commits'[i].by = screen
    BY <1>1, <1>6, <1>7, <1>8, <2>1, Appended
  <2> QED
    BY <1>1, <1>2, <2>1 DEF OwnCommits, OnProfile
<1>12. NameInv'
  <2>1. ASSUME LastName(commits, form.name) PROVE LastName(commits', form.name)
    BY <1>1, <1>6, <1>8, <2>1, Appended
  <2>2. ASSUME NoNames(commits) PROVE NoNames(commits')
    BY <1>1, <1>6, <1>8, <2>2, Appended
  <2> QED
    BY <1>1, <1>2, <1>5, <2>1, <2>2 DEF NameInv, OnProfile
<1>13. PictureIsUsers'
  BY <1>1, <1>5 DEF ProfileInv, PictureIsUsers, OnProfile
<1> QED
  BY <1>9, <1>10, <1>11, <1>12, <1>13 DEF ProfileInv

\* A commit of a name or of a picture is answered.
LEMMA CommitStep ==
  ASSUME ProfileInv, NEW ok \in BOOLEAN, NameCommitted(ok) \/ PhotoCommitted(ok)
  PROVE  ProfileInv'
<1> DEFINE c == Head(commits)
<1>1. /\ commits # <<>> /\ commits' = Tail(commits)
      /\ UNCHANGED <<upload, bar, screen, opened, calls, stranded, early>>
  BY DEF NameCommitted, PhotoCommitted, Answered, boundVars
<1>2. TypeOK /\ UploadInv /\ OwnCommits /\ PictureIsUsers /\ NameInv
  BY DEF ProfileInv
<1>3. /\ commits' \in Seq(Commit) /\ c \in Commit
      /\ \A s : (\A i \in DOMAIN commits : commits[i].by = s)
                  => c.by = s /\ \A i \in DOMAIN commits' : commits'[i].by = s
      /\ NoNames(commits) => NoNames(commits') /\ c.field # "name"
      /\ \A n : LastName(commits, n) => \/ LastName(commits', n)
                                        \/ NoNames(commits') /\ c.field = "name" /\ c.value = n
  BY <1>1, <1>2, Tailed DEF TypeOK
<1>4. OnProfile /\ ~early => c.by = screen
  BY <1>2, <1>3 DEF OwnCommits
<1>5. OwnCommits'
  BY <1>1, <1>2, <1>3 DEF OwnCommits, OnProfile
<1>6. CASE NameCommitted(ok)
  <2>1. /\ c.field = "name"
        /\ user' = IF ok THEN [user EXCEPT !.name = c.value] ELSE user
        /\ form' = IF c.by = screen
                   THEN [form EXCEPT !.warning = IF ok THEN "saved" ELSE "failed"] ELSE form
    BY <1>6 DEF NameCommitted
  <2>2. c.by # 0
    BY <1>3 DEF Commit
  <2> HIDE DEF c
  <2>3. /\ form' \in Form /\ form'.name = form.name /\ form'.photo = form.photo
        /\ form'.saveEnabled = form.saveEnabled /\ form'.hud = form.hud
        /\ c.by = screen /\ ~ok => form'.warning = "failed"
    BY <1>2, <2>1 DEF TypeOK, Form
  <2>4. TypeOK'
    <3>1. c.value \in Names
      BY <1>3, <2>1 DEF Commit
    <3>2. user' \in User
      BY <1>2, <2>1, <3>1 DEF TypeOK, User
    <3> QED
      BY <1>1, <1>2, <1>3, <2>1, <2>2, <2>3, <3>2 DEF TypeOK, OnProfile
  <2>5. UploadInv'
    BY <1>1, <1>2, <2>3 DEF UploadInv, OnProfile
  <2>6. PictureIsUsers'
    <3>1. user'.photo = user.photo
      BY <1>2, <2>1 DEF TypeOK, User
    <3> QED
      BY <1>1, <1>2, <2>3, <3>1 DEF PictureIsUsers, OnProfile
  <2>7. NameInv'
    <3> SUFFICES ASSUME OnProfile, ~early, ~form.saveEnabled
                 PROVE  \/ LastName(commits', form.name)
                        \/ NoNames(commits') /\ (form.name = user'.name \/ form'.warning = "failed")
      BY <1>1, <2>3 DEF NameInv, OnProfile
    <3>1. LastName(commits, form.name)
      BY <1>2, <1>3, <2>1 DEF NameInv
    <3>2. ok => user'.name = c.value
      BY <1>2, <2>1 DEF TypeOK, User
    <3>3. ok \/ form'.warning = "failed"
      BY <1>4, <2>3
    <3> QED
      BY <1>3, <3>1, <3>2, <3>3
  <2> QED
    BY <1>5, <2>4, <2>5, <2>6, <2>7 DEF ProfileInv
<1>7. CASE PhotoCommitted(ok)
  <2>1. /\ c.field = "photo"
        /\ user' = IF ok THEN [user EXCEPT !.photo = c.value] ELSE user
        /\ form' = IF ok /\ c.by = screen THEN [form EXCEPT !.photo = c.value] ELSE form
    BY <1>7 DEF PhotoCommitted
  <2>2. c.by # 0 /\ c.value \in Photos
    BY <1>3, <2>1 DEF Commit
  <2> HIDE DEF c
  <2>3. /\ form' \in Form /\ form'.name = form.name /\ form'.saveEnabled = form.saveEnabled
        /\ form'.hud = form.hud /\ form'.warning = form.warning
        /\ form'.photo = IF ok /\ c.by = screen THEN c.value ELSE form.photo
    BY <1>2, <2>1, <2>2 DEF TypeOK, Form
  <2>4. /\ user' \in User /\ user'.name = user.name
        /\ user'.photo = IF ok THEN c.value ELSE user.photo
    BY <1>2, <2>1, <2>2 DEF TypeOK, User
  <2>5. TypeOK'
    BY <1>1, <1>2, <1>3, <2>1, <2>2, <2>3, <2>4 DEF TypeOK, OnProfile
  <2>6. UploadInv'
    BY <1>1, <1>2, <2>3 DEF UploadInv, OnProfile
  <2>7. PictureIsUsers'
    BY <1>1, <1>2, <1>4, <2>3, <2>4 DEF PictureIsUsers, OnProfile
  <2>8. NameInv'
    <3> SUFFICES ASSUME OnProfile, ~early, ~form.saveEnabled
                 PROVE  \/ LastName(commits', form.name)
                        \/ NoNames(commits') /\ (form.name = user.name \/ form.warning = "failed")
      BY <1>1, <2>3, <2>4 DEF NameInv, OnProfile
    <3>1. c.field # "name"
      BY <2>1
    <3> QED
      BY <1>2, <1>3, <3>1 DEF NameInv
  <2> QED
    BY <1>5, <2>5, <2>6, <2>7, <2>8 DEF ProfileInv
<1> QED
  BY <1>6, <1>7

\* The invariant is inductive.
THEOREM ProfileInvariant == Spec => []ProfileInv
<1>1. ASSUME ProfileInv, Next PROVE ProfileInv'
  BY <1>1, OpenStep, LeaveStep, PickStep, NameStep, PutStep, UploadStep, CommitStep
     DEF Next, StorageAnswers, AuthAnswers
<1>2. ASSUME ProfileInv, UNCHANGED vars PROVE ProfileInv'
  <2>1. UNCHANGED <<user, commits, upload, bar, screen, form, opened, calls, stranded, early>>
    BY <1>2 DEF vars, authVars, boundVars
  <2> QED
    BY <1>2, <2>1 DEF ProfileInv, TypeOK, UploadInv, OwnCommits, PictureIsUsers, NameInv, OnProfile
<1> QED
  BY <1>1, <1>2, ProfileInitial, PTL DEF Spec

\* Values keep their types, and Home has neither a form nor a HUD.
THEOREM TypeCorrect == Spec => []TypeOK
<1>1. ProfileInv => TypeOK
  BY DEF ProfileInv
<1> QED
  BY <1>1, ProfileInvariant, PTL

\* The bar is disabled exactly while an upload of the Profile on top runs,
\* unless the upload has lost its Profile or never began.
THEOREM BarFollowsUpload == Spec => []BarWhileUploading
<1>1. ProfileInv => BarWhileUploading
  BY DEF ProfileInv, UploadInv, BarWhileUploading
<1> QED
  BY <1>1, ProfileInvariant, PTL

\* Uploads do not overlap, and the HUD is shown exactly while one runs.
THEOREM OneAtATime == Spec => []OneUpload
<1>1. ProfileInv => OneUpload
  BY DEF ProfileInv, UploadInv, OneUpload
<1> QED
  BY <1>1, ProfileInvariant, PTL

\* The picture on Profile is the user's, however uploads and failures mix.
THEOREM PictureShown == Spec => []PictureIsUsers
<1>1. ProfileInv => PictureIsUsers
  BY DEF ProfileInv
<1> QED
  BY <1>1, ProfileInvariant, PTL

\* The name on Profile is the user's once nothing is edited, pending or failed.
THEOREM NameShown == Spec => []NameIsUsers
<1>1. ASSUME ProfileInv PROVE NameIsUsers
  <2>1. commits = <<>> => DOMAIN commits = {}
    OBVIOUS
  <2> QED
    BY <1>1, <2>1 DEF ProfileInv, NameInv, LastName, NameIsUsers
<1> QED
  BY <1>1, ProfileInvariant, PTL
=============================================================================
