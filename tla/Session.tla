------------------------------ MODULE Session ------------------------------
(***************************************************************************)
(* Who is signed in, and which screen is on top.  The screens of Remindify *)
(* are pushed on one navigation stack that starts at Login or at Home;     *)
(* none of them keeps track of the user it was made for.  A user leaves    *)
(* from Home or by a change of the password, and in both cases an alert    *)
(* covers the screen until a timer dismisses it and pushes Login.          *)
(*                                                                         *)
(* Firebase calls back on the main thread.  While Login or Signup waits    *)
(* for an answer its progress view takes the touches; Password has none.   *)
(***************************************************************************)
EXTENDS Naturals, Sequences

CONSTANTS
    Users,         \* people who have an account or may make one
    NoUser,        \* nobody signed in
    NoCall,        \* Login and Signup wait for nothing
    MaxTaps,       \* bound: taps that open a screen or start a call
    MaxSaves,      \* bound: password changes asked for
    MaxLaunches    \* bound: launches after the first

ASSUME NoUserAssumption == NoUser \notin Users
ASSUME NoCallAssumption ==
    NoCall \notin [op : {"signIn", "createUser", "commitChanges"}, user : Users]

VARIABLES
    accounts,      \* users with an account
    currentUser,   \* Auth.auth().currentUser, kept on disk
    expired,       \* ghost: a Password that was not on top has ended this session
    stack,         \* the navigation stack, root first
    leaving,       \* popped screens whose pop has not ended: no touch comes through
    call,          \* the call Login or Signup waits for
    saves,         \* password changes under way
    repeated,      \* ghost: a Password has had a second success
    presented,     \* the alert that covers the screen, 0 when none does
    updateAlert,   \* updateAlert[s]: the alert screen s has made last, 0 when none
    timers,        \* alerts made whose timer has not fired
    alerts,        \* alerts made so far
    taps,          \* taps so far
    asked,         \* password changes asked for so far
    launches       \* launches so far

authVars   == <<accounts, currentUser, expired>>
screenVars == <<stack, leaving, updateAlert>>
saveVars   == <<saves, repeated>>
alertVars  == <<presented, timers, alerts>>
boundVars  == <<taps, asked, launches>>
vars       == <<authVars, screenVars, call, saveVars, alertVars, boundVars>>

\* The forms are Add and Edit, which meet the session in the same way.
UserScreens == {"Form", "Profile", "Password"}
Screen == [kind : {"Login", "Signup", "Home"} \cup UserScreens,
           owner : Users \cup {NoUser}, number : Nat]
Call   == [op : {"signIn", "createUser", "commitChanges"}, user : Users]
Save   == [id : Nat, screen : Nat, step : {"reauthenticate", "updatePassword"}]
Timer  == [screen : Nat, alert : Nat]

Top      == stack[Len(stack)]
OnStack(s) == \E i \in DOMAIN stack : stack[i].number = s

\* A screen is kept by the stack, by its pop, and by a timer of its own.
Alive(s) == OnStack(s) \/ s \in leaving \/ \E t \in timers : t.screen = s

\* A touch reaches the screen on top unless something covers or moves it.
Touch == call = NoCall /\ presented = 0 /\ leaving = {}
Tap   == Touch /\ taps < MaxTaps /\ taps' = taps + 1

NewScreen(kind, user, number) == [kind |-> kind, owner |-> user, number |-> number]

\* Slip: a new screen gets no alert of its own.
PushUnnumbered(kind, user) ==
    /\ stack' = Append(stack, NewScreen(kind, user, Len(updateAlert) + 1))
    /\ UNCHANGED <<leaving, updateAlert>>

\* Screens are numbered as they are made; a new one has made no alert.
Push(kind, user) ==
    /\ stack' = Append(stack, NewScreen(kind, user, Len(updateAlert) + 1))
    /\ updateAlert' = Append(updateAlert, 0)
    /\ UNCHANGED leaving

\* Only the first n screens stay.  The one on top lives through its pop, those
\* between may go at once.
PopTo(n) ==
    /\ stack' = SubSeq(stack, 1, n)
    /\ \/ leaving' = {Top.number}
       \/ leaving' = {stack[i].number : i \in n + 1..Len(stack)}

-----------------------------------------------------------------------------
(* Login and Signup.                                                       *)

LoginButtonTapped(u) ==
    /\ Tap
    /\ Top.kind = "Login"
    /\ call' = [op |-> "signIn", user |-> u]
    /\ UNCHANGED <<authVars, screenVars, saveVars, alertVars, asked, launches>>

OpenSignup ==
    /\ Tap
    /\ Top.kind = "Login"
    /\ Push("Signup", currentUser)
    /\ UNCHANGED <<authVars, call, saveVars, alertVars, asked, launches>>

\* The animation of a pop comes to its end.
PopEnds ==
    /\ leaving # {}
    /\ leaving' = {}
    /\ UNCHANGED <<authVars, stack, updateAlert, call, saveVars, alertVars, boundVars>>

\* Signup's own Login button pops to the root of the stack.
ReturnFromSignup ==
    /\ Tap
    /\ Top.kind = "Signup"
    /\ PopTo(1)
    /\ UNCHANGED <<authVars, updateAlert, call, saveVars, alertVars, asked, launches>>

SignupButtonTapped(u) ==
    /\ Tap
    /\ Top.kind = "Signup"
    /\ call' = [op |-> "createUser", user |-> u]
    /\ UNCHANGED <<authVars, screenVars, saveVars, alertVars, asked, launches>>

SignedIn ==
    /\ call # NoCall /\ call.op = "signIn"
    /\ call.user \in accounts
    /\ currentUser' = call.user /\ expired' = FALSE
    /\ Push("Home", call.user)
    /\ call' = NoCall
    /\ UNCHANGED <<accounts, saveVars, alertVars, boundVars>>

\* A new account signs its user in; its name is still to be committed.
AccountCreated ==
    /\ call # NoCall /\ call.op = "createUser"
    /\ call.user \notin accounts
    /\ accounts' = accounts \cup {call.user}
    /\ currentUser' = call.user /\ expired' = FALSE
    /\ call' = [call EXCEPT !.op = "commitChanges"]
    /\ UNCHANGED <<screenVars, saveVars, alertVars, boundVars>>

NameCommitted ==
    /\ call # NoCall /\ call.op = "commitChanges"
    /\ Push("Home", currentUser)
    /\ call' = NoCall
    /\ UNCHANGED <<authVars, saveVars, alertVars, boundVars>>

\* Each of the three calls may fail; the screen only shows a warning.
CallFailed ==
    /\ call # NoCall
    /\ call' = NoCall
    /\ UNCHANGED <<authVars, screenVars, saveVars, alertVars, boundVars>>

-----------------------------------------------------------------------------
(* Home and what it opens.                                                 *)

\* Slip: the screen does not look for a user when it is loaded.
OpenUnchecked(kind) ==
    /\ Tap
    /\ Top.kind = "Home"
    /\ Push(kind, currentUser)
    /\ UNCHANGED <<authVars, call, saveVars, alertVars, asked, launches>>

\* Profile, Add and Edit push Login over themselves if nobody is signed in; the
\* popup they also present finds their view not in a window yet.
OpenFromHome(kind) ==
    /\ Tap
    /\ Top.kind = "Home"
    /\ IF currentUser = NoUser
       THEN LET n == Len(updateAlert)
            IN  /\ stack' = stack \o <<NewScreen(kind, NoUser, n + 1), NewScreen("Login", NoUser, n + 2)>>
                /\ updateAlert' = updateAlert \o <<0, 0>>
                /\ UNCHANGED leaving
       ELSE Push(kind, currentUser)
    /\ UNCHANGED <<authVars, call, saveVars, alertVars, asked, launches>>

OpenPassword ==
    /\ Tap
    /\ Top.kind = "Profile"
    /\ Push("Password", currentUser)
    /\ UNCHANGED <<authVars, call, saveVars, alertVars, asked, launches>>

\* Home, Login and Signup hide their back buttons.
Back ==
    /\ Touch
    /\ Top.kind \in UserScreens
    /\ PopTo(Len(stack) - 1)
    /\ UNCHANGED <<authVars, updateAlert, call, saveVars, alertVars, boundVars>>

\* Screen s makes an alert and starts its timer.  The alert appears if s is on
\* top and nothing has been presented yet, and may appear if s is leaving; s
\* remembers it in any case.
PresentAlert(s) ==
    /\ alerts' = alerts + 1
    /\ updateAlert' = [updateAlert EXCEPT ![s] = alerts']
    /\ timers' = timers \cup {[screen |-> s, alert |-> alerts']}
    /\ \/ presented' = IF presented = 0 /\ Top.number = s THEN alerts' ELSE presented
       \/ presented = 0 /\ s \in leaving /\ presented' = alerts'

\* Slip: the user is signed out with nothing over the screen.
LogoutUncovered ==
    /\ Tap
    /\ Top.kind = "Home"
    /\ currentUser' = NoUser
    /\ alerts' = alerts + 1
    /\ updateAlert' = [updateAlert EXCEPT ![Top.number] = alerts']
    /\ timers' = timers \cup {[screen |-> Top.number, alert |-> alerts']}
    /\ UNCHANGED <<presented, accounts, expired, stack, leaving, call, saveVars, asked, launches>>

LogoutButtonTapped ==
    /\ Tap
    /\ Top.kind = "Home"
    /\ currentUser' = NoUser
    /\ PresentAlert(Top.number)
    /\ UNCHANGED <<accounts, expired, stack, leaving, call, saveVars, asked, launches>>

-----------------------------------------------------------------------------
(* The change of the password.                                             *)

\* Nothing keeps the button from being tapped again.
SaveChangesButtonPressed ==
    /\ Tap
    /\ Top.kind = "Password"
    /\ currentUser # NoUser
    /\ asked < MaxSaves
    /\ asked' = asked + 1
    /\ saves' = saves \cup {[id |-> asked', screen |-> Top.number, step |-> "reauthenticate"]}
    /\ UNCHANGED <<authVars, screenVars, call, repeated, alertVars, launches>>

\* The screen is held weakly: if it is gone, nothing follows.
Reauthenticated(save) ==
    /\ save \in saves /\ save.step = "reauthenticate"
    /\ saves' = (saves \ {save})
                 \cup {s \in {[save EXCEPT !.step = "updatePassword"]} : Alive(save.screen)}
    /\ UNCHANGED <<authVars, screenVars, call, repeated, alertVars, boundVars>>

\* A success expires the session, whoever it is by now.
PasswordUpdated(save) ==
    /\ save \in saves /\ save.step = "updatePassword"
    /\ saves' = saves \ {save}
    /\ IF Alive(save.screen)
       THEN /\ currentUser' = NoUser /\ PresentAlert(save.screen)
            /\ repeated' = (repeated \/ updateAlert[save.screen] # 0)
            /\ expired' = (expired \/ Top.number # save.screen)
       ELSE UNCHANGED <<currentUser, updateAlert, repeated, expired, alertVars>>
    /\ UNCHANGED <<accounts, stack, leaving, call, boundVars>>

SaveFailed(save) ==
    /\ save \in saves
    /\ saves' = saves \ {save}
    /\ UNCHANGED <<authVars, screenVars, call, repeated, alertVars, boundVars>>

-----------------------------------------------------------------------------
(* Timers and launches.                                                    *)

\* Slip: Login is pushed under an alert that stays.
TimerFiredUndismissed(t) ==
    /\ t \in timers
    /\ timers' = timers \ {t}
    /\ Push("Login", currentUser)
    /\ UNCHANGED <<authVars, call, saveVars, presented, alerts, boundVars>>

\* A timer dismisses the alert its screen has made last, and Login follows.
\* Home pushes it in any case; Password as the completion of the dismissal,
\* which may not run when there was nothing to dismiss.  A screen that is leaving
\* may have its navigation controller still, one that is gone has none.
TimerFired(t) ==
    /\ t \in timers
    /\ timers' = timers \ {t}
    /\ LET dismissed == presented # 0 /\ presented = updateAlert[t.screen]
       IN  /\ presented' = IF dismissed THEN 0 ELSE presented
           /\ \/ /\ OnStack(t.screen) \/ t.screen \in leaving
                 /\ Push("Login", currentUser)
              \/ /\ \/ ~OnStack(t.screen)
                    \/ ~dismissed /\ \E i \in DOMAIN stack :
                          stack[i].number = t.screen /\ stack[i].kind = "Password"
                 /\ UNCHANGED screenVars
    /\ UNCHANGED <<authVars, call, saveVars, alerts, boundVars>>

FirstScreen == NewScreen(IF currentUser = NoUser THEN "Login" ELSE "Home", currentUser, 1)

\* The app is killed and started again; only the account and the user stay.
Relaunch ==
    /\ launches < MaxLaunches
    /\ launches' = launches + 1
    /\ stack' = <<FirstScreen>> /\ leaving' = {} /\ updateAlert' = <<0>>
    /\ call' = NoCall /\ saves' = {} /\ repeated' = FALSE
    /\ presented' = 0 /\ timers' = {} /\ alerts' = 0
    /\ expired' = FALSE
    /\ UNCHANGED <<accounts, currentUser, taps, asked>>

-----------------------------------------------------------------------------
Init ==
    /\ accounts \in SUBSET Users
    /\ currentUser \in accounts \cup {NoUser}
    /\ expired = FALSE
    /\ stack = <<FirstScreen>> /\ leaving = {} /\ updateAlert = <<0>>
    /\ call = NoCall /\ saves = {} /\ repeated = FALSE
    /\ presented = 0 /\ timers = {} /\ alerts = 0
    /\ taps = 0 /\ asked = 0 /\ launches = 0

Next ==
    \/ \E u \in Users : LoginButtonTapped(u) \/ SignupButtonTapped(u)
    \/ OpenSignup \/ ReturnFromSignup \/ PopEnds
    \/ SignedIn \/ AccountCreated \/ NameCommitted \/ CallFailed
    \/ \E kind \in {"Form", "Profile"} : OpenFromHome(kind)
    \/ OpenPassword \/ Back \/ LogoutButtonTapped
    \/ SaveChangesButtonPressed
    \/ \E save \in saves : Reauthenticated(save) \/ PasswordUpdated(save) \/ SaveFailed(save)
    \/ \E t \in timers : TimerFired(t)
    \/ Relaunch

Spec == Init /\ [][Next]_vars

\* Timers fire; nothing else is promised.
FairSpec == Spec /\ WF_vars(\E t \in timers : TimerFired(t))
-----------------------------------------------------------------------------
(* Properties.                                                             *)

\* The stack is never empty and its screens are numbered, alerts and timers
\* belong to screens that were made.
TypeOK ==
    /\ accounts \subseteq Users
    /\ currentUser \in accounts \cup {NoUser}
    /\ stack \in Seq(Screen) /\ stack # <<>>
    /\ leaving \subseteq Nat /\ updateAlert \in Seq(Nat)
    /\ \A i \in DOMAIN stack : stack[i].number \in DOMAIN updateAlert
    /\ call \in Call \cup {NoCall}
    /\ saves \subseteq Save /\ \A s \in saves : s.screen \in DOMAIN updateAlert
    /\ timers \subseteq Timer /\ \A t \in timers : t.screen \in DOMAIN updateAlert
    /\ repeated \in BOOLEAN /\ expired \in BOOLEAN /\ presented \in Nat /\ alerts \in Nat
    /\ taps \in Nat /\ asked \in Nat /\ launches \in Nat

\* Who owns what is on top is signed in, or nobody is: then a Password ended the
\* session that was not on top any more, where no alert and no Login follows.
TopIsUsers == \/ Top.owner = currentUser /\ currentUser # NoUser
              \/ currentUser = NoUser /\ expired

\* When the app has been launched to Login, a Home that takes touches was loaded
\* for the user who is signed in: no logout that is under way, no late success
\* of a password change and no stack of earlier sessions below lets anybody
\* touch somebody else's reminders.
HomeBelongsToUser == Touch /\ stack[1].kind = "Login" /\ Top.kind = "Home" => TopIsUsers

\* However the app was launched, a form, Profile or Password that takes touches
\* was opened by the user who is signed in.
ScreensBelongToUser == Touch /\ Top.kind \in UserScreens => TopIsUsers

\* No screen is pushed twice, one on the other, whatever the timers, the answers
\* and the checks in viewDidLoad push.
NoScreenTwice ==
    ~repeated => \A i \in 1..Len(stack) - 1 : stack[i].kind # stack[i + 1].kind

\* "Add a delay to dismiss the alert after a few seconds" (Password, line 108;
\* Home, line 72): every alert goes away.
AlertGoes == presented # 0 ~> presented = 0 \/ repeated

\* "navigate to login" (Signup, line 101): Signup's Login button leads to Login.
SignupLeadsToLogin == [][ReturnFromSignup => Top'.kind = "Login"]_vars
=============================================================================
