--------------------------- MODULE Session_proofs ---------------------------
(***************************************************************************)
(* Proofs about Session, for any number of people, taps, password changes  *)
(* and launches.  Whoever touches a screen of a user is that user, unless  *)
(* a Password has ended the session late and nobody is signed in; this     *)
(* needs no assumption on what a Password does.  As long as none has a     *)
(* second success, no screen lies on its like either.                      *)
(***************************************************************************)
EXTENDS Session, TLAPS

\* The stack starts at Login or Home, screens have numbers of their own, which a
\* popped one keeps; changes of the password are asked for by a Password, and
\* timers started by Home or a Password.
Numbered ==
    /\ stack[1].kind \in {"Login", "Home"}
    /\ \A i, j \in DOMAIN stack : stack[i].number = stack[j].number => i = j
    /\ \A s \in saves, i \in DOMAIN stack : stack[i].number = s.screen => stack[i].kind = "Password"
    /\ \A t \in timers, i \in DOMAIN stack :
           stack[i].number = t.screen => stack[i].kind \in {"Home", "Password"}
    /\ leaving \subseteq DOMAIN updateAlert
    /\ \A i \in DOMAIN stack : stack[i].number \notin leaving

\* What lies below what: Password on Profile, a form or Profile on Home, opened by
\* the owner of what is below or by nobody.  Whose Home it is counts only in an
\* app launched to Login.
Below(lower, upper, root) ==
    /\ upper.kind = "Password" => lower.kind = "Profile" /\ upper.owner \in {NoUser, lower.owner}
    /\ upper.kind \in {"Form", "Profile"} =>
           lower.kind = "Home" /\ (root = "Login" => upper.owner \in {NoUser, lower.owner})

BelowInv == \A i \in 1..Len(stack) - 1 : Below(stack[i], stack[i + 1], stack[1].kind)

\* A user's screen on top is the signed-in user's if anybody is signed in; if
\* nobody is, it is covered or the session has ended late.
OfUser == Top.kind \in UserScreens \/ (Top.kind = "Home" /\ stack[1].kind = "Login")
TopInv ==
    /\ OfUser => currentUser \in {NoUser, Top.owner}
    /\ OfUser /\ currentUser = NoUser /\ presented = 0 => expired
    /\ leaving # {} => Top.kind # "Password"

\* Login and Signup alone wait for calls, with nothing over them.
CallInv ==
    call # NoCall => /\ Top.kind \in {"Login", "Signup"}
                     /\ presented = 0 /\ leaving = {}
                     /\ call.op = "commitChanges" /\ currentUser = NoUser => expired

\* Alerts are numbered as they are made, one timer each.  While one covers the
\* screen nobody is signed in, and if it is a screen's that has gone since, the
\* session has ended late.
AlertInv ==
    /\ presented <= alerts
    /\ \A s \in DOMAIN updateAlert : updateAlert[s] <= alerts
    /\ \A t \in timers : t.alert \in 1..alerts
    /\ \A t, u \in timers : t.alert = u.alert => t = u
    /\ presented # 0 =>
           /\ currentUser = NoUser
           /\ expired \/ \A s \in DOMAIN updateAlert : updateAlert[s] = presented => OnStack(s)
           /\ Top.kind = "Password" => updateAlert[Top.number] # 0

\* Without second successes: no screen lies on its like, nor any on a Password
\* that has made no alert.
Apart(lower, upper, alert) ==
    lower.kind # upper.kind /\ (lower.kind = "Password" => alert[lower.number] # 0)
ScreensApart == \A i \in 1..Len(stack) - 1 : Apart(stack[i], stack[i + 1], updateAlert)

\* A timer stands for the alert its screen has made last, which covers that
\* screen if it is on the stack.
TimersOnce ==
    \A t \in timers :
        /\ t.alert = updateAlert[t.screen]
        /\ OnStack(t.screen) => t.screen = Top.number /\ presented = t.alert /\ leaving = {}

\* Of the screens that are leaving, one that may still push Login is the only
\* one, and has left no Login on top.
MayPush(s) == \/ \E t \in timers : t.screen = s
              \/ updateAlert[s] = 0 /\ \E v \in saves : v.screen = s
LeavingOnce == \A s \in leaving : MayPush(s) => leaving = {s} /\ Top.kind # "Login"

OnceInv == ScreensApart /\ TimersOnce /\ LeavingOnce

SessionInv == /\ TypeOK /\ Numbered /\ BelowInv /\ TopInv /\ CallInv /\ AlertInv
              /\ ~repeated => OnceInv

-----------------------------------------------------------------------------
(* The stack grows and shrinks.                                            *)

\* Screens up to the m-th are pushed, numbered on, without alerts of their own.
Growth(m) ==
    /\ stack' \in Seq(Screen) /\ Len(stack') = m /\ m > Len(stack)
    /\ \A i \in 1..Len(stack) : stack'[i] = stack[i]
    /\ \A i \in Len(stack) + 1..m : stack'[i].number = Len(updateAlert) + (i - Len(stack))
    /\ updateAlert' \in Seq(Nat) /\ Len(updateAlert') = Len(updateAlert) + (m - Len(stack))
    /\ \A n \in 1..Len(updateAlert) : updateAlert'[n] = updateAlert[n]
    /\ \A n \in Len(updateAlert) + 1..Len(updateAlert') : updateAlert'[n] = 0
    /\ leaving' = leaving

LEMMA PushGrows ==
  ASSUME TypeOK, NEW kind \in {"Login", "Signup", "Home"} \cup UserScreens,
         NEW user \in Users \cup {NoUser}, Push(kind, user)
  PROVE  /\ Growth(Len(stack) + 1)
         /\ Top'.kind = kind /\ Top'.owner = user
         /\ stack'[Len(stack)] = Top /\ stack'[Len(stack) + 1] = Top'
<1> DEFINE s == NewScreen(kind, user, Len(updateAlert) + 1)
<1>1. stack \in Seq(Screen) /\ stack # <<>> /\ updateAlert \in Seq(Nat)
  BY DEF TypeOK
<1>2. s \in Screen /\ s.kind = kind /\ s.owner = user /\ s.number = Len(updateAlert) + 1
  BY <1>1 DEF NewScreen, Screen
<1>3. stack' = Append(stack, s) /\ updateAlert' = Append(updateAlert, 0) /\ leaving' = leaving
  BY DEF Push
<1> HIDE DEF s
<1>4. /\ stack' \in Seq(Screen) /\ Len(stack) \in Nat \ {0} /\ Len(stack') = Len(stack) + 1
      /\ \A i \in 1..Len(stack) : stack'[i] = stack[i]
      /\ stack'[Len(stack) + 1] = s
  BY <1>1, <1>2, <1>3
<1>5. /\ updateAlert' \in Seq(Nat) /\ Len(updateAlert) \in Nat /\ Len(updateAlert') = Len(updateAlert) + 1
      /\ \A n \in 1..Len(updateAlert) : updateAlert'[n] = updateAlert[n]
      /\ updateAlert'[Len(updateAlert) + 1] = 0
  BY <1>1, <1>3
<1>6. Top' = s /\ stack'[Len(stack)] = Top
  BY <1>4 DEF Top
<1>7. Growth(Len(stack) + 1)
  <2>1. \A i \in Len(stack) + 1..Len(stack) + 1 : i = Len(stack) + 1
    BY <1>4
  <2>2. \A n \in Len(updateAlert) + 1..Len(updateAlert') : n = Len(updateAlert) + 1
    BY <1>5
  <2> QED
    BY <1>2, <1>3, <1>4, <1>5, <2>1, <2>2 DEF Growth
<1> QED
  BY <1>2, <1>4, <1>6, <1>7

\* What is old stays as it was, and what is new belongs to nothing that is under
\* way.
LEMMA GrowthKeeps ==
  ASSUME TypeOK, Numbered, NEW m \in Nat, Growth(m), saves' = saves, timers' \subseteq timers
  PROVE  /\ stack' \in Seq(Screen) /\ stack' # <<>> /\ updateAlert' \in Seq(Nat) /\ leaving' \subseteq Nat
         /\ \A i \in DOMAIN stack' : stack'[i].number \in DOMAIN updateAlert'
         /\ DOMAIN updateAlert \subseteq DOMAIN updateAlert'
         /\ stack'[1] = stack[1] /\ Top' = stack'[m]
         /\ Numbered'
         /\ \A n \in DOMAIN updateAlert : updateAlert'[n] = updateAlert[n]
         /\ \A n \in DOMAIN updateAlert' : n \notin DOMAIN updateAlert => updateAlert'[n] = 0
         /\ \A s \in DOMAIN updateAlert : OnStack(s)' <=> OnStack(s)
<1> DEFINE k == Len(stack)
           w == Len(updateAlert)
<1>1. /\ stack \in Seq(Screen) /\ stack # <<>> /\ k \in Nat \ {0} /\ DOMAIN stack = 1..k
      /\ updateAlert \in Seq(Nat) /\ w \in Nat /\ DOMAIN updateAlert = 1..w
      /\ \A i \in 1..k : stack[i].number \in 1..w
  BY DEF TypeOK
<1>2. /\ stack' \in Seq(Screen) /\ Len(stack') = m /\ m > k /\ DOMAIN stack' = 1..m
      /\ \A i \in 1..k : stack'[i] = stack[i]
      /\ \A i \in k + 1..m : stack'[i].number = w + (i - k)
      /\ updateAlert' \in Seq(Nat) /\ Len(updateAlert') = w + (m - k)
      /\ \A n \in 1..w : updateAlert'[n] = updateAlert[n]
      /\ \A n \in w + 1..w + (m - k) : updateAlert'[n] = 0
      /\ leaving' = leaving
  BY DEF Growth
<1>3. DOMAIN updateAlert' = 1..w + (m - k) /\ stack' # <<>>
  BY <1>1, <1>2
<1>4. \A i \in 1..m : \/ i \in 1..k /\ stack'[i] = stack[i]
                      \/ i \in k + 1..m /\ stack'[i].number \in w + 1..w + (m - k)
  BY <1>1, <1>2
<1> HIDE DEF k, w
<1>5. \A n \in 1..w : n \notin w + 1..w + (m - k) /\ n \in 1..w + (m - k)
  BY <1>1, <1>2
<1>6. \A i \in DOMAIN stack' : stack'[i].number \in DOMAIN updateAlert'
  BY <1>1, <1>2, <1>3, <1>4
<1>7. /\ DOMAIN updateAlert \subseteq DOMAIN updateAlert'
      /\ \A n \in DOMAIN updateAlert : updateAlert'[n] = updateAlert[n]
      /\ \A n \in DOMAIN updateAlert' : n \notin DOMAIN updateAlert => updateAlert'[n] = 0
  BY <1>1, <1>2, <1>3
<1>8. stack'[1] = stack[1] /\ Top' = stack'[m]
  BY <1>1, <1>2 DEF Top
<1>9. \A s \in DOMAIN updateAlert, i \in DOMAIN stack' :
          stack'[i].number = s => i \in DOMAIN stack /\ stack'[i] = stack[i]
  BY <1>1, <1>2, <1>4, <1>5
<1>10. \A s \in DOMAIN updateAlert : OnStack(s)' <=> OnStack(s)
  <2>1. DOMAIN stack \subseteq DOMAIN stack' /\ \A i \in DOMAIN stack : stack'[i] = stack[i]
    BY <1>1, <1>2
  <2> QED
    BY <1>9, <2>1 DEF OnStack
<1>11. Numbered'
  <2>1. ASSUME NEW i \in DOMAIN stack', NEW j \in DOMAIN stack', stack'[i].number = stack'[j].number
        PROVE  i = j
    <3>1. CASE i \in 1..k
      <4>1. stack'[i].number \in DOMAIN updateAlert
        BY <1>1, <1>2, <3>1
      <4>2. j \in DOMAIN stack /\ stack'[j] = stack[j]
        BY <1>9, <2>1, <4>1
      <4> QED
        BY <1>1, <1>2, <2>1, <3>1, <4>2 DEF Numbered
    <3>2. CASE j \in 1..k
      <4>1. stack'[j].number \in DOMAIN updateAlert
        BY <1>1, <1>2, <3>2
      <4>2. i \in DOMAIN stack /\ stack'[i] = stack[i]
        BY <1>9, <2>1, <4>1
      <4> QED
        BY <1>1, <1>2, <2>1, <3>2, <4>2 DEF Numbered
    <3>3. CASE i \notin 1..k /\ j \notin 1..k
      BY <1>1, <1>2, <1>4, <2>1, <3>3
    <3> QED
      BY <3>1, <3>2, <3>3
  <2>2. \A v \in saves', i \in DOMAIN stack' : stack'[i].number = v.screen => stack'[i].kind = "Password"
    <3>1. \A v \in saves : v.screen \in DOMAIN updateAlert
      BY DEF TypeOK
    <3> QED
      BY <1>9, <3>1 DEF Numbered
  <2>3. \A t \in timers', i \in DOMAIN stack' :
            stack'[i].number = t.screen => stack'[i].kind \in {"Home", "Password"}
    <3>1. \A t \in timers' : t \in timers /\ t.screen \in DOMAIN updateAlert
      BY DEF TypeOK
    <3> QED
      BY <1>9, <3>1 DEF Numbered
  <2>4. leaving' \subseteq DOMAIN updateAlert'
    BY <1>2, <1>7 DEF Numbered
  <2>5. \A i \in DOMAIN stack' : stack'[i].number \notin leaving'
    BY <1>2, <1>9 DEF Numbered
  <2> QED
    BY <1>8, <2>1, <2>2, <2>3, <2>4, <2>5 DEF Numbered
<1>12. leaving' \subseteq Nat
  BY <1>2 DEF TypeOK
<1> QED
  BY <1>2, <1>3, <1>6, <1>7, <1>8, <1>10, <1>11, <1>12

\* What is pushed keeps its place below what it is pushed on.
LEMMA GrowthStaysBelow ==
  ASSUME TypeOK, BelowInv, NEW m \in Nat, Growth(m),
         \A i \in Len(stack)..m - 1 : Below(stack'[i], stack'[i + 1], stack[1].kind)
  PROVE  BelowInv'
<1>1. Len(stack) \in Nat \ {0}
  BY DEF TypeOK
<1>2. /\ Len(stack') = m /\ m > Len(stack) /\ stack'[1] = stack[1]
      /\ \A i \in 1..Len(stack) : stack'[i] = stack[i]
  BY <1>1 DEF Growth
<1>3. ASSUME NEW i \in 1..m - 1
      PROVE  Below(stack'[i], stack'[i + 1], stack[1].kind)
  <2>1. CASE i \in Len(stack)..m - 1
    BY <2>1
  <2>2. CASE i \in 1..Len(stack) - 1
    <3>1. stack'[i] = stack[i] /\ stack'[i + 1] = stack[i + 1]
      BY <1>1, <1>2, <2>2
    <3> QED
      BY <2>2, <3>1 DEF BelowInv
  <2> QED
    BY <1>1, <1>2, <2>1, <2>2
<1> QED
  BY <1>2, <1>3 DEF BelowInv, Below

LEMMA GrowthStaysApart ==
  ASSUME TypeOK, ScreensApart, NEW m \in Nat, Growth(m),
         \A i \in Len(stack)..m - 1 : Apart(stack'[i], stack'[i + 1], updateAlert')
  PROVE  ScreensApart'
<1>1. /\ Len(stack) \in Nat \ {0} /\ DOMAIN stack = 1..Len(stack) /\ updateAlert \in Seq(Nat)
      /\ \A i \in DOMAIN stack : stack[i].number \in 1..Len(updateAlert)
  BY DEF TypeOK
<1>2. /\ Len(stack') = m /\ m > Len(stack)
      /\ \A i \in 1..Len(stack) : stack'[i] = stack[i]
      /\ \A n \in 1..Len(updateAlert) : updateAlert'[n] = updateAlert[n]
  BY <1>1 DEF Growth
<1>3. ASSUME NEW i \in 1..m - 1
      PROVE  Apart(stack'[i], stack'[i + 1], updateAlert')
  <2>1. CASE i \in Len(stack)..m - 1
    BY <2>1
  <2>2. CASE i \in 1..Len(stack) - 1
    <3>1. stack'[i] = stack[i] /\ stack'[i + 1] = stack[i + 1] /\ i \in DOMAIN stack
      BY <1>1, <1>2, <2>2
    <3>2. updateAlert'[stack[i].number] = updateAlert[stack[i].number]
      BY <1>1, <1>2, <3>1
    <3> QED
      BY <2>2, <3>1, <3>2 DEF ScreensApart, Apart
  <2> QED
    BY <1>1, <1>2, <2>1, <2>2
<1> QED
  BY <1>2, <1>3 DEF ScreensApart, Apart

\* The alerts of a grown stack are those of the old one.
LEMMA GrowthAlerts ==
  ASSUME TypeOK, Numbered, AlertInv, NEW m \in Nat, Growth(m), saves' = saves,
         timers' \subseteq timers, alerts' = alerts, presented' \in {0, presented},
         presented' # 0 => currentUser' = currentUser /\ expired' = expired /\ Top'.kind # "Password"
  PROVE  AlertInv'
<1>1. /\ DOMAIN updateAlert \subseteq DOMAIN updateAlert'
      /\ \A n \in DOMAIN updateAlert : updateAlert'[n] = updateAlert[n]
      /\ \A n \in DOMAIN updateAlert' : n \notin DOMAIN updateAlert => updateAlert'[n] = 0
      /\ \A s \in DOMAIN updateAlert : OnStack(s)' <=> OnStack(s)
  BY GrowthKeeps
<1>2. alerts \in Nat /\ presented \in Nat
  BY DEF TypeOK
<1>3. presented' <= alerts' /\ \A s \in DOMAIN updateAlert' : updateAlert'[s] <= alerts'
  BY <1>1, <1>2 DEF AlertInv
<1>4. /\ \A t \in timers' : t.alert \in 1..alerts'
      /\ \A t, u \in timers' : t.alert = u.alert => t = u
  BY DEF AlertInv
<1>5. ASSUME presented' # 0
      PROVE  /\ currentUser' = NoUser
             /\ expired' \/ \A s \in DOMAIN updateAlert' : updateAlert'[s] = presented' => OnStack(s)'
             /\ Top'.kind # "Password"
  BY <1>1, <1>5 DEF AlertInv
<1> QED
  BY <1>3, <1>4, <1>5 DEF AlertInv

\* A screen that is pushed while nothing covers the one on top.
LEMMA QuietPush ==
  ASSUME SessionInv, NEW m \in Nat, Growth(m), presented = 0, leaving = {},
         UNCHANGED <<accounts, saveVars, alertVars>>, call' = NoCall,
         currentUser' \in accounts \cup {NoUser}, expired' \in BOOLEAN,
         taps' \in Nat, asked' \in Nat, launches' \in Nat,
         \A i \in Len(stack)..m - 1 : /\ Below(stack'[i], stack'[i + 1], stack[1].kind)
                                      /\ Apart(stack'[i], stack'[i + 1], updateAlert'),
         Top'.kind \in UserScreens \cup {"Home"} =>
             currentUser' \in {NoUser, Top'.owner} /\ (currentUser' = NoUser => expired')
  PROVE  SessionInv'
<1>1. TypeOK /\ Numbered /\ BelowInv /\ AlertInv /\ (~repeated => OnceInv)
  BY DEF SessionInv
<1>2. /\ saves' = saves /\ timers' = timers /\ alerts' = alerts /\ presented' = 0
      /\ repeated' = repeated /\ leaving' = {}
  BY DEF saveVars, alertVars, Growth
<1>3. /\ stack' \in Seq(Screen) /\ stack' # <<>> /\ updateAlert' \in Seq(Nat) /\ leaving' \subseteq Nat
      /\ \A i \in DOMAIN stack' : stack'[i].number \in DOMAIN updateAlert'
      /\ DOMAIN updateAlert \subseteq DOMAIN updateAlert'
      /\ Numbered'
      /\ \A n \in DOMAIN updateAlert : updateAlert'[n] = updateAlert[n]
      /\ \A s \in DOMAIN updateAlert : OnStack(s)' <=> OnStack(s)
  BY <1>1, <1>2, GrowthKeeps
<1>4. TypeOK'
  BY <1>1, <1>2, <1>3 DEF TypeOK
<1>5. BelowInv'
  BY <1>1, GrowthStaysBelow
<1>6. TopInv' /\ CallInv'
  BY <1>2 DEF TopInv, CallInv, OfUser
<1>7. AlertInv'
  BY <1>1, <1>2, GrowthAlerts
<1>8. ASSUME ~repeated' PROVE OnceInv'
  <2>1. OnceInv
    BY <1>1, <1>2, <1>8
  <2>2. ScreensApart'
    BY <1>1, <2>1, GrowthStaysApart DEF OnceInv
  <2>3. TimersOnce'
    <3>1. ASSUME NEW t \in timers
          PROVE  t.alert = updateAlert'[t.screen] /\ ~OnStack(t.screen)'
      <4>1. t.screen \in DOMAIN updateAlert /\ t.alert \in 1..alerts /\ alerts \in Nat
        BY <1>1 DEF TypeOK, AlertInv
      <4>2. t.alert = updateAlert[t.screen] /\ (OnStack(t.screen) => presented = t.alert)
        BY <2>1 DEF OnceInv, TimersOnce
      <4>3. ~OnStack(t.screen)
        BY <4>1, <4>2
      <4> QED
        BY <1>3, <4>1, <4>2, <4>3
    <3> QED
      BY <1>2, <3>1 DEF TimersOnce
  <2>4. LeavingOnce'
    BY <1>2 DEF LeavingOnce
  <2> QED
    BY <2>2, <2>3, <2>4 DEF OnceInv
<1> QED
  BY <1>3, <1>4, <1>5, <1>6, <1>7, <1>8 DEF SessionInv

-----------------------------------------------------------------------------
(* Every step keeps the invariant.                                         *)

LEMMA PushStep ==
  ASSUME SessionInv,
         \/ OpenSignup \/ SignedIn \/ NameCommitted \/ OpenPassword
         \/ \E kind \in {"Form", "Profile"} : OpenFromHome(kind)
  PROVE  SessionInv'
<1> DEFINE k == Len(stack)
<1>1. TypeOK /\ TopInv /\ CallInv
  BY DEF SessionInv
<1>2. /\ k \in Nat \ {0} /\ stack \in Seq(Screen) /\ Top \in Screen
      /\ currentUser \in accounts \cup {NoUser} /\ accounts \subseteq Users
      /\ taps \in Nat /\ asked \in Nat /\ launches \in Nat /\ expired \in BOOLEAN
  BY <1>1 DEF TypeOK, Top
<1>3. \A i \in k..(k + 1) - 1 : i = k
  BY <1>2
<1>4. k + 1 \in Nat
  BY <1>2
<1>5. CASE OpenSignup
  <2>1. /\ Tap /\ Top.kind = "Login" /\ Push("Signup", currentUser)
        /\ UNCHANGED <<authVars, call, saveVars, alertVars, asked, launches>>
    BY <1>5 DEF OpenSignup
  <2>2. Touch /\ taps' = taps + 1
    BY <2>1 DEF Tap
  <2>3. presented = 0 /\ leaving = {} /\ call' = NoCall
    BY <2>1, <2>2 DEF Touch
  <2>4. /\ Growth(k + 1) /\ Top'.kind = "Signup" /\ stack'[k] = Top /\ stack'[k + 1] = Top'
    BY <1>1, <1>2, <2>1, PushGrows
  <2>5. \A i \in k..(k + 1) - 1 : /\ Below(stack'[i], stack'[i + 1], stack[1].kind)
                                  /\ Apart(stack'[i], stack'[i + 1], updateAlert')
    BY <1>3, <2>1, <2>4 DEF Below, Apart
  <2> HIDE DEF k
  <2> QED
    BY <1>2, <1>4, <2>1, <2>2, <2>3, <2>4, <2>5, QuietPush DEF authVars, UserScreens, k
<1>6. CASE SignedIn
  <2>1. /\ call # NoCall /\ call.user \in accounts /\ currentUser' = call.user /\ expired' = FALSE
        /\ Push("Home", call.user) /\ call' = NoCall
        /\ UNCHANGED <<accounts, saveVars, alertVars, boundVars>>
    BY <1>6 DEF SignedIn
  <2>2. presented = 0 /\ leaving = {} /\ Top.kind \in {"Login", "Signup"}
    BY <1>1, <2>1 DEF CallInv
  <2>3. /\ Growth(k + 1) /\ Top'.kind = "Home" /\ Top'.owner = call.user
        /\ stack'[k] = Top /\ stack'[k + 1] = Top'
    BY <1>1, <1>2, <2>1, PushGrows
  <2>4. \A i \in k..(k + 1) - 1 : /\ Below(stack'[i], stack'[i + 1], stack[1].kind)
                                  /\ Apart(stack'[i], stack'[i + 1], updateAlert')
    BY <1>3, <2>2, <2>3 DEF Below, Apart
  <2>5. call.user # NoUser
    BY <1>2, <2>1, NoUserAssumption
  <2>6. taps' \in Nat /\ asked' \in Nat /\ launches' \in Nat
    BY <1>2, <2>1 DEF boundVars
  <2> HIDE DEF k
  <2> QED
    BY <1>2, <1>4, <2>1, <2>2, <2>3, <2>4, <2>5, <2>6, QuietPush DEF k
<1>7. CASE NameCommitted
  <2>1. /\ call # NoCall /\ call.op = "commitChanges"
        /\ Push("Home", currentUser) /\ call' = NoCall
        /\ UNCHANGED <<authVars, saveVars, alertVars, boundVars>>
    BY <1>7 DEF NameCommitted
  <2>2. /\ presented = 0 /\ leaving = {} /\ Top.kind \in {"Login", "Signup"}
        /\ currentUser = NoUser => expired
    BY <1>1, <2>1 DEF CallInv
  <2>3. /\ Growth(k + 1) /\ Top'.kind = "Home" /\ Top'.owner = currentUser
        /\ stack'[k] = Top /\ stack'[k + 1] = Top'
    BY <1>1, <1>2, <2>1, PushGrows
  <2>4. \A i \in k..(k + 1) - 1 : /\ Below(stack'[i], stack'[i + 1], stack[1].kind)
                                  /\ Apart(stack'[i], stack'[i + 1], updateAlert')
    BY <1>3, <2>2, <2>3 DEF Below, Apart
  <2>5. /\ taps' \in Nat /\ asked' \in Nat /\ launches' \in Nat
        /\ accounts' = accounts /\ currentUser' = currentUser /\ expired' = expired
    BY <1>2, <2>1 DEF boundVars, authVars
  <2> HIDE DEF k
  <2> QED
    BY <1>2, <1>4, <2>1, <2>2, <2>3, <2>4, <2>5, QuietPush DEF k
<1>8. CASE OpenPassword
  <2>1. /\ Tap /\ Top.kind = "Profile" /\ Push("Password", currentUser)
        /\ UNCHANGED <<authVars, call, saveVars, alertVars, asked, launches>>
    BY <1>8 DEF OpenPassword
  <2>2. Touch /\ taps' = taps + 1
    BY <2>1 DEF Tap
  <2>3. presented = 0 /\ leaving = {} /\ call' = NoCall
    BY <2>1, <2>2 DEF Touch
  <2>4. currentUser \in {NoUser, Top.owner} /\ (currentUser = NoUser => expired)
    BY <1>1, <2>1, <2>3 DEF TopInv, OfUser, UserScreens
  <2>5. /\ Growth(k + 1) /\ Top'.kind = "Password" /\ Top'.owner = currentUser
        /\ stack'[k] = Top /\ stack'[k + 1] = Top'
    BY <1>1, <1>2, <2>1, PushGrows DEF UserScreens
  <2>6. \A i \in k..(k + 1) - 1 : /\ Below(stack'[i], stack'[i + 1], stack[1].kind)
                                  /\ Apart(stack'[i], stack'[i + 1], updateAlert')
    BY <1>3, <2>1, <2>4, <2>5 DEF Below, Apart
  <2>7. /\ taps' \in Nat /\ asked' \in Nat /\ launches' \in Nat
        /\ accounts' = accounts /\ currentUser' = currentUser /\ expired' = expired
    BY <1>2, <2>1, <2>2 DEF authVars
  <2> HIDE DEF k
  <2> QED
    BY <1>2, <1>4, <2>1, <2>3, <2>4, <2>5, <2>6, <2>7, QuietPush DEF k
<1>9. ASSUME NEW kind \in {"Form", "Profile"}, OpenFromHome(kind)
      PROVE  SessionInv'
  <2>1. /\ Tap /\ Top.kind = "Home"
        /\ UNCHANGED <<authVars, call, saveVars, alertVars, asked, launches>>
    BY <1>9 DEF OpenFromHome
  <2>2. Touch /\ taps' = taps + 1
    BY <2>1 DEF Tap
  <2>3. presented = 0 /\ leaving = {} /\ call' = NoCall
    BY <2>1, <2>2 DEF Touch
  <2>4. stack[1].kind = "Login" => currentUser \in {NoUser, Top.owner}
    BY <1>1, <2>1 DEF TopInv, OfUser
  <2>5. /\ taps' \in Nat /\ asked' \in Nat /\ launches' \in Nat
        /\ accounts' = accounts /\ currentUser' = currentUser /\ expired' = expired
    BY <1>2, <2>1, <2>2 DEF authVars
  <2>6. CASE currentUser # NoUser
    <3>1. Push(kind, currentUser)
      BY <1>9, <2>6 DEF OpenFromHome
    <3>2. /\ Growth(k + 1) /\ Top'.kind = kind /\ Top'.owner = currentUser
          /\ stack'[k] = Top /\ stack'[k + 1] = Top'
      BY <1>1, <1>2, <3>1, PushGrows DEF UserScreens
    <3>3. \A i \in k..(k + 1) - 1 : /\ Below(stack'[i], stack'[i + 1], stack[1].kind)
                                    /\ Apart(stack'[i], stack'[i + 1], updateAlert')
      BY <1>3, <2>1, <2>4, <3>2 DEF Below, Apart
    <3> HIDE DEF k
    <3> QED
      BY <1>2, <1>4, <2>1, <2>3, <2>5, <2>6, <3>2, <3>3, QuietPush DEF k
  <2>7. CASE currentUser = NoUser
    <3> DEFINE w == Len(updateAlert)
               a == NewScreen(kind, NoUser, w + 1)
               b == NewScreen("Login", NoUser, w + 2)
    <3>1. /\ stack' = stack \o <<a, b>> /\ updateAlert' = updateAlert \o <<0, 0>> /\ leaving' = leaving
      BY <1>9, <2>7 DEF OpenFromHome
    <3>2. w \in Nat /\ updateAlert \in Seq(Nat)
      BY <1>1 DEF TypeOK
    <3>3. /\ a \in Screen /\ b \in Screen /\ a.kind = kind /\ b.kind = "Login" /\ a.owner = NoUser
          /\ a.number = w + 1 /\ b.number = w + 2
      BY <3>2 DEF NewScreen, Screen, UserScreens
    <3> HIDE DEF a, b
    <3>4. /\ stack' \in Seq(Screen) /\ Len(stack') = k + 2 /\ k + 2 \in Nat
          /\ \A i \in 1..k : stack'[i] = stack[i]
          /\ stack'[k + 1] = a /\ stack'[k + 2] = b
      BY <1>2, <3>1, <3>3
    <3>5. /\ updateAlert' \in Seq(Nat) /\ Len(updateAlert') = w + 2
          /\ \A n \in 1..w : updateAlert'[n] = updateAlert[n]
          /\ updateAlert'[w + 1] = 0 /\ updateAlert'[w + 2] = 0
      BY <3>1, <3>2
    <3>6. /\ \A i \in k + 1..k + 2 : i = k + 1 \/ i = k + 2
          /\ \A n \in w + 1..w + 2 : n = w + 1 \/ n = w + 2
          /\ \A i \in k..(k + 2) - 1 : i = k \/ i = k + 1
          /\ (k + 1) - k = 1 /\ (k + 2) - k = 2 /\ (k + 1) + 1 = k + 2 /\ k + 2 > k
      BY <1>2, <3>2
    <3>7. Growth(k + 2)
      <4>1. \A i \in k + 1..k + 2 : stack'[i].number = w + (i - k)
        BY <1>2, <3>2, <3>3, <3>4, <3>6
      <4> QED
        BY <3>1, <3>4, <3>5, <3>6, <4>1 DEF Growth
    <3>8. stack'[k] = Top /\ Top' = b
      BY <1>2, <3>4 DEF Top
    <3>9. \A i \in k..(k + 2) - 1 : /\ Below(stack'[i], stack'[i + 1], stack[1].kind)
                                    /\ Apart(stack'[i], stack'[i + 1], updateAlert')
      <4>1. \A i \in k..(k + 2) - 1 : \/ stack'[i] = Top /\ stack'[i + 1] = a
                                      \/ stack'[i] = a /\ stack'[i + 1] = b
        BY <1>2, <3>4, <3>6, <3>8
      <4> QED
        BY <2>1, <3>3, <4>1 DEF Below, Apart
    <3>10. Top'.kind \notin UserScreens \cup {"Home"}
      BY <3>3, <3>8 DEF UserScreens
    <3> HIDE DEF k
    <3> QED
      BY <1>2, <2>1, <2>3, <2>5, <2>7, <3>4, <3>7, <3>9, <3>10, QuietPush DEF k
  <2> QED
    BY <2>6, <2>7
<1> QED
  BY <1>5, <1>6, <1>7, <1>8, <1>9

\* Calls are started, and answered, over a stack that stays as it is.
LEMMA CallStep ==
  ASSUME SessionInv,
         \/ \E u \in Users : LoginButtonTapped(u) \/ SignupButtonTapped(u)
         \/ AccountCreated \/ CallFailed
  PROVE  SessionInv'
<1>1. /\ TypeOK /\ Numbered /\ BelowInv /\ TopInv /\ CallInv /\ AlertInv /\ (~repeated => OnceInv)
  BY DEF SessionInv
<1>2. UNCHANGED <<screenVars, saveVars, alertVars>>
  BY DEF LoginButtonTapped, SignupButtonTapped, AccountCreated, CallFailed
<1>3. /\ stack' = stack /\ leaving' = leaving /\ updateAlert' = updateAlert
      /\ saves' = saves /\ repeated' = repeated
      /\ presented' = presented /\ timers' = timers /\ alerts' = alerts
  BY <1>2 DEF screenVars, saveVars, alertVars
<1>4. Numbered' /\ BelowInv' /\ (~repeated' => OnceInv')
  BY <1>1, <1>3 DEF Numbered, BelowInv, OnceInv, ScreensApart, TimersOnce, LeavingOnce, MayPush,
                    OnStack, Top
<1>5. CASE \E u \in Users : LoginButtonTapped(u) \/ SignupButtonTapped(u)
  <2>1. /\ Touch /\ taps' = taps + 1 /\ Top.kind \in {"Login", "Signup"}
        /\ call'.op \in {"signIn", "createUser"} /\ call' \in Call
        /\ UNCHANGED <<authVars, asked, launches>>
    BY <1>5 DEF LoginButtonTapped, SignupButtonTapped, Tap, Call
  <2>2. accounts' = accounts /\ currentUser' = currentUser /\ expired' = expired
    BY <2>1 DEF authVars
  <2>3. TypeOK'
    BY <1>1, <1>3, <2>1, <2>2 DEF TypeOK
  <2>4. TopInv'
    BY <1>1, <1>3, <2>2 DEF TopInv, OfUser, Top
  <2>5. CallInv'
    BY <1>3, <2>1, <2>2 DEF CallInv, Top, Touch
  <2>6. AlertInv'
    BY <1>1, <1>3, <2>2 DEF AlertInv, OnStack, Top
  <2> QED
    BY <1>4, <2>3, <2>4, <2>5, <2>6 DEF SessionInv
<1>6. CASE AccountCreated
  <2>1. /\ call # NoCall /\ accounts' = accounts \cup {call.user}
        /\ currentUser' = call.user /\ expired' = FALSE
        /\ call' = [call EXCEPT !.op = "commitChanges"] /\ UNCHANGED boundVars
    BY <1>6 DEF AccountCreated
  <2>2. /\ call \in Call /\ call.user \in Users /\ call' \in Call /\ call'.op = "commitChanges"
        /\ call.user # NoUser
    BY <1>1, <2>1, NoUserAssumption DEF TypeOK, Call
  <2>3. Top.kind \in {"Login", "Signup"} /\ presented = 0 /\ leaving = {}
    BY <1>1, <2>1 DEF CallInv
  <2>4. TypeOK'
    BY <1>1, <1>3, <2>1, <2>2 DEF TypeOK, boundVars
  <2>5. TopInv' /\ CallInv'
    BY <1>3, <2>1, <2>2, <2>3 DEF TopInv, OfUser, CallInv, Top, UserScreens
  <2>6. AlertInv'
    BY <1>1, <1>3, <2>3 DEF AlertInv
  <2> QED
    BY <1>4, <2>4, <2>5, <2>6 DEF SessionInv
<1>7. CASE CallFailed
  <2>1. /\ call' = NoCall /\ accounts' = accounts /\ currentUser' = currentUser
        /\ expired' = expired /\ UNCHANGED boundVars
    BY <1>7 DEF CallFailed, authVars
  <2>2. TypeOK'
    BY <1>1, <1>3, <2>1 DEF TypeOK, boundVars
  <2>3. TopInv' /\ CallInv'
    BY <1>1, <1>3, <2>1 DEF TopInv, OfUser, CallInv, Top
  <2>4. AlertInv'
    BY <1>1, <1>3, <2>1 DEF AlertInv, OnStack, Top
  <2> QED
    BY <1>4, <2>2, <2>3, <2>4 DEF SessionInv
<1> QED
  BY <1>5, <1>6, <1>7

\* Changes of the password are asked for and answered, and pops end: nothing new
\* may push Login from a screen that is leaving.
LEMMA SaveStep ==
  ASSUME SessionInv,
         \/ SaveChangesButtonPressed \/ PopEnds
         \/ \E save \in saves : Reauthenticated(save) \/ SaveFailed(save)
  PROVE  SessionInv'
<1>1. /\ TypeOK /\ Numbered /\ BelowInv /\ TopInv /\ CallInv /\ AlertInv /\ (~repeated => OnceInv)
  BY DEF SessionInv
<1>2. /\ UNCHANGED <<authVars, call, alertVars>>
      /\ stack' = stack /\ updateAlert' = updateAlert /\ repeated' = repeated
      /\ leaving' = leaving \/ leaving' = {}
      /\ launches' = launches
  BY DEF SaveChangesButtonPressed, PopEnds, Reauthenticated, SaveFailed, screenVars, saveVars, boundVars
<1>3. /\ accounts' = accounts /\ currentUser' = currentUser /\ expired' = expired /\ call' = call
      /\ presented' = presented /\ timers' = timers /\ alerts' = alerts
  BY <1>2 DEF authVars, alertVars
<1> DEFINE Fitting == /\ saves' \subseteq Save /\ taps' \in Nat /\ asked' \in Nat
                      /\ \A v \in saves' :
                            \/ \E s \in saves : s.screen = v.screen
                            \/ leaving' = {} /\ v.screen = Top.number /\ Top.kind = "Password"
<1>4. Fitting
  <2>1. CASE SaveChangesButtonPressed
    <3> DEFINE v == [id |-> asked', screen |-> Top.number, step |-> "reauthenticate"]
    <3>1. /\ saves' = saves \cup {v} /\ Top.kind = "Password" /\ asked' = asked + 1
          /\ Touch /\ taps' = taps + 1 /\ leaving' = leaving
      BY <2>1 DEF SaveChangesButtonPressed, Tap, screenVars
    <3>2. Top.number \in Nat /\ asked' \in Nat /\ taps' \in Nat
      BY <1>1, <3>1 DEF TypeOK, Top, Screen
    <3>3. v \in Save /\ v.screen = Top.number
      BY <3>2 DEF Save
    <3> HIDE DEF v
    <3> QED
      BY <1>1, <3>1, <3>2, <3>3 DEF TypeOK, Touch
  <2>2. CASE PopEnds
    BY <1>1, <2>2 DEF PopEnds, saveVars, boundVars, TypeOK
  <2>3. ASSUME NEW save \in saves, Reauthenticated(save) PROVE Fitting
    <3> DEFINE v == [save EXCEPT !.step = "updatePassword"]
    <3>1. /\ saves' \subseteq saves \cup {v} /\ UNCHANGED boundVars
      BY <2>3 DEF Reauthenticated
    <3>2. save \in Save
      BY <1>1 DEF TypeOK
    <3>3. v \in Save /\ v.screen = save.screen
      BY <3>2 DEF Save
    <3> HIDE DEF v
    <3> QED
      BY <1>1, <3>1, <3>3 DEF TypeOK, boundVars
  <2>4. ASSUME NEW save \in saves, SaveFailed(save) PROVE Fitting
    BY <1>1, <2>4 DEF SaveFailed, boundVars, TypeOK
  <2> QED
    BY <2>1, <2>2, <2>3, <2>4
<1>5. Top \in Screen /\ Len(stack) \in DOMAIN stack /\ Top.number \in DOMAIN updateAlert
  BY <1>1 DEF TypeOK, Top
<1>6. TypeOK'
  <2>1. \A v \in saves' : v.screen \in DOMAIN updateAlert
    BY <1>1, <1>4, <1>5 DEF TypeOK
  <2>2. leaving' \subseteq Nat
    BY <1>1, <1>2 DEF TypeOK
  <2> QED
    BY <1>1, <1>2, <1>3, <1>4, <2>1, <2>2 DEF TypeOK
<1>7. Numbered'
  <2>1. \A v \in saves', i \in DOMAIN stack : stack[i].number = v.screen => stack[i].kind = "Password"
    BY <1>1, <1>4, <1>5 DEF Numbered, Top
  <2> QED
    BY <1>1, <1>2, <1>3, <2>1 DEF Numbered
<1>8. BelowInv' /\ TopInv' /\ CallInv'
  BY <1>1, <1>2, <1>3 DEF BelowInv, TopInv, CallInv, OfUser, Top
<1>9. AlertInv'
  BY <1>1, <1>2, <1>3 DEF AlertInv, OnStack, Top
<1>10. ASSUME ~repeated' PROVE OnceInv'
  <2>1. OnceInv
    BY <1>1, <1>2, <1>10
  <2>2. ScreensApart'
    BY <1>2, <2>1 DEF OnceInv, ScreensApart
  <2>3. TimersOnce'
    BY <1>2, <1>3, <2>1 DEF OnceInv, TimersOnce, OnStack, Top
  <2>4. ASSUME NEW s \in leaving', MayPush(s)' PROVE leaving' = {s} /\ Top'.kind # "Login"
    <3>1. leaving' = leaving /\ s \in leaving
      BY <1>2, <2>4
    <3>2. MayPush(s)
      BY <1>2, <1>3, <1>4, <2>4, <3>1 DEF MayPush
    <3> QED
      BY <1>2, <2>1, <3>1, <3>2 DEF OnceInv, LeavingOnce, Top
  <2> QED
    BY <2>2, <2>3, <2>4 DEF OnceInv, LeavingOnce
<1> QED
  BY <1>6, <1>7, <1>8, <1>9, <1>10 DEF SessionInv

\* What a pop leaves is as it was; the screens that are leaving were above it.
LEMMA PopKeeps ==
  ASSUME SessionInv, NEW n \in 1..Len(stack) - 1, PopTo(n), Touch,
         UNCHANGED <<authVars, updateAlert, call, saveVars, alertVars>>,
         taps' \in Nat, asked' = asked, launches' = launches
  PROVE  /\ TypeOK' /\ Numbered' /\ BelowInv' /\ CallInv' /\ AlertInv'
         /\ Top' = stack[n] /\ stack'[1] = stack[1] /\ leaving' # {}
         /\ \A s \in leaving' : \E i \in n + 1..Len(stack) : s = stack[i].number
         /\ ~repeated => ScreensApart' /\ TimersOnce'
<1> DEFINE k == Len(stack)
<1>1. /\ TypeOK /\ Numbered /\ BelowInv /\ AlertInv /\ (~repeated => OnceInv)
      /\ presented = 0 /\ call = NoCall
  BY DEF SessionInv, Touch
<1>2. /\ accounts' = accounts /\ currentUser' = currentUser /\ expired' = expired
      /\ updateAlert' = updateAlert /\ call' = call /\ saves' = saves /\ repeated' = repeated
      /\ presented' = presented /\ timers' = timers /\ alerts' = alerts
  BY DEF authVars, saveVars, alertVars
<1>3. /\ stack \in Seq(Screen) /\ k \in Nat /\ DOMAIN stack = 1..k /\ n \in Nat /\ n >= 1 /\ n < k
      /\ \A i \in DOMAIN stack : stack[i].number \in DOMAIN updateAlert
      /\ updateAlert \in Seq(Nat) /\ DOMAIN updateAlert \subseteq Nat
      /\ alerts \in Nat
  BY <1>1 DEF TypeOK
<1>4. stack' = SubSeq(stack, 1, n)
  BY DEF PopTo
<1> HIDE DEF k
<1>5. /\ stack' \in Seq(Screen) /\ Len(stack') = n /\ DOMAIN stack' = 1..n
      /\ \A i \in 1..n : stack'[i] = stack[i] /\ i \in DOMAIN stack
  BY <1>3, <1>4
<1>6. Top' = stack[n] /\ stack'[1] = stack[1] /\ stack' # <<>>
  BY <1>3, <1>5 DEF Top
<1>7. /\ leaving' # {}
      /\ \A s \in leaving' : \E i \in n + 1..k : s = stack[i].number
  <2>1. k \in n + 1..k /\ Top = stack[k]
    BY <1>3 DEF Top, k
  <2>2. CASE leaving' = {Top.number}
    BY <2>1, <2>2
  <2>3. CASE leaving' = {stack[i].number : i \in n + 1..k}
    BY <2>1, <2>3
  <2> QED
    BY <2>2, <2>3 DEF PopTo, k
<1>8. leaving' \subseteq DOMAIN updateAlert /\ \A i \in 1..n : stack[i].number \notin leaving'
  <2>1. ASSUME NEW s \in leaving'
        PROVE  s \in DOMAIN updateAlert /\ \A i \in 1..n : stack[i].number # s
    <3>1. PICK j \in n + 1..k : s = stack[j].number
      BY <1>7
    <3>2. j \in DOMAIN stack /\ \A i \in 1..n : i # j
      BY <1>3
    <3> QED
      BY <1>1, <1>3, <1>5, <3>1, <3>2 DEF Numbered
  <2> QED
    BY <2>1
<1>9. TypeOK'
  <2>1. \A i \in DOMAIN stack' : stack'[i].number \in DOMAIN updateAlert'
    BY <1>2, <1>3, <1>5
  <2>2. leaving' \subseteq Nat
    BY <1>3, <1>8
  <2> QED
    BY <1>1, <1>2, <1>5, <1>6, <2>1, <2>2 DEF TypeOK
<1>10. Numbered'
  BY <1>1, <1>2, <1>3, <1>5, <1>6, <1>8 DEF Numbered
<1>11. \A i \in 1..n - 1 : i \in 1..k - 1 /\ stack'[i] = stack[i] /\ stack'[i + 1] = stack[i + 1]
  <2>1. \A i \in 1..n - 1 : i \in 1..k - 1 /\ i \in 1..n /\ i + 1 \in 1..n
    BY <1>3
  <2> QED
    BY <1>5, <2>1
<1>12. BelowInv'
  BY <1>1, <1>5, <1>6, <1>11 DEF BelowInv, k
<1>13. CallInv'
  BY <1>1, <1>2 DEF CallInv
<1>14. AlertInv'
  BY <1>1, <1>2 DEF AlertInv
<1>15. ASSUME ~repeated PROVE ScreensApart' /\ TimersOnce'
  <2>1. OnceInv
    BY <1>1, <1>15
  <2>2. ScreensApart'
    BY <1>2, <1>5, <1>11, <2>1 DEF OnceInv, ScreensApart, k
  <2>3. ASSUME NEW t \in timers PROVE t.alert = updateAlert[t.screen] /\ ~OnStack(t.screen)'
    <3>1. t.alert \in 1..alerts
      BY <1>1 DEF AlertInv
    <3>2. t.alert = updateAlert[t.screen] /\ ~OnStack(t.screen)
      BY <1>1, <1>3, <2>1, <3>1 DEF OnceInv, TimersOnce
    <3> QED
      BY <1>5, <3>2 DEF OnStack
  <2> QED
    BY <1>2, <2>2, <2>3 DEF TimersOnce
<1> QED
  BY <1>6, <1>7, <1>9, <1>10, <1>12, <1>13, <1>14, <1>15 DEF k

LEMMA PopStep ==
  ASSUME SessionInv, Back \/ ReturnFromSignup
  PROVE  SessionInv'
<1> DEFINE k == Len(stack)
<1>1. /\ TypeOK /\ Numbered /\ BelowInv /\ TopInv /\ (~repeated => OnceInv)
  BY DEF SessionInv
<1>2. /\ k \in Nat /\ k # 0 /\ DOMAIN stack = 1..k /\ Top = stack[k] /\ taps \in Nat
  BY <1>1 DEF TypeOK, Top
<1>3. stack[1].kind \in {"Login", "Home"}
  BY <1>1 DEF Numbered
<1>4. CASE Back
  <2>1. /\ Touch /\ Top.kind \in UserScreens /\ PopTo(k - 1)
        /\ UNCHANGED <<authVars, updateAlert, call, saveVars, alertVars, boundVars>>
    BY <1>4 DEF Back
  <2>2. k # 1
    BY <1>2, <1>3, <2>1 DEF UserScreens
  <2>3. k - 1 \in 1..k - 1 /\ (k - 1) + 1 = k /\ \A i \in k..k : i = k
    BY <1>2, <2>2
  <2>4. /\ taps' = taps /\ asked' = asked /\ launches' = launches
        /\ currentUser' = currentUser /\ expired' = expired /\ presented' = presented
        /\ repeated' = repeated /\ timers' = timers /\ updateAlert' = updateAlert /\ saves' = saves
    BY <2>1 DEF authVars, boundVars, saveVars, alertVars
  <2>5. /\ TypeOK' /\ Numbered' /\ BelowInv' /\ CallInv' /\ AlertInv'
        /\ Top' = stack[k - 1] /\ stack'[1] = stack[1]
        /\ leaving' # {} /\ \A s \in leaving' : s = Top.number
        /\ ~repeated => ScreensApart' /\ TimersOnce'
    <3> HIDE DEF k
    <3> QED
      BY <1>2, <2>1, <2>3, <2>4, PopKeeps DEF k
  <2>6. Below(Top', Top, stack[1].kind)
    BY <1>1, <1>2, <2>3, <2>5 DEF BelowInv
  <2>7. currentUser \in {NoUser, Top.owner} /\ (currentUser = NoUser => expired)
    BY <1>1, <2>1 DEF TopInv, OfUser, Touch
  <2>8. /\ Top'.kind \in {"Home", "Profile"}
        /\ OfUser' => Top.owner \in {NoUser, Top'.owner}
    BY <2>1, <2>5, <2>6 DEF Below, OfUser, UserScreens
  <2>9. TopInv'
    BY <2>4, <2>7, <2>8 DEF TopInv
  <2>10. LeavingOnce'
    BY <2>5, <2>8 DEF LeavingOnce
  <2> QED
    BY <2>4, <2>5, <2>9, <2>10 DEF SessionInv, OnceInv
<1>5. CASE ReturnFromSignup
  <2>1. /\ Touch /\ taps' = taps + 1 /\ Top.kind = "Signup" /\ PopTo(1)
        /\ UNCHANGED <<authVars, updateAlert, call, saveVars, alertVars, asked, launches>>
    BY <1>5 DEF ReturnFromSignup, Tap
  <2>2. k # 1
    BY <1>2, <1>3, <2>1
  <2>3. 1 \in 1..k - 1 /\ taps' \in Nat
    BY <1>2, <2>1, <2>2
  <2>4. /\ asked' = asked /\ launches' = launches
        /\ currentUser' = currentUser /\ expired' = expired /\ presented' = presented
        /\ repeated' = repeated /\ timers' = timers /\ updateAlert' = updateAlert /\ saves' = saves
    BY <2>1 DEF authVars, saveVars, alertVars
  <2>5. /\ TypeOK' /\ Numbered' /\ BelowInv' /\ CallInv' /\ AlertInv'
        /\ Top' = stack[1] /\ stack'[1] = stack[1]
        /\ \A s \in leaving' : \E i \in 2..k : s = stack[i].number
        /\ ~repeated => ScreensApart' /\ TimersOnce'
    BY <2>1, <2>3, <2>4, PopKeeps
  <2>6. TopInv'
    BY <1>3, <2>5 DEF TopInv, OfUser, UserScreens
  <2>7. ASSUME ~repeated, NEW s \in leaving' PROVE ~MayPush(s)'
    <3>1. PICK i \in 2..k : s = stack[i].number
      BY <2>5
    <3>2. OnceInv /\ i \in DOMAIN stack /\ presented = 0
      BY <1>1, <1>2, <2>1, <2>7 DEF Touch
    <3>3. ASSUME NEW t \in timers PROVE t.screen # s
      <4>1. t.alert # 0
        BY <1>1 DEF SessionInv, AlertInv, TypeOK
      <4> QED
        BY <3>1, <3>2, <4>1 DEF OnceInv, TimersOnce, OnStack
    <3>4. ASSUME NEW v \in saves, v.screen = s PROVE updateAlert[s] # 0
      <4>1. stack[i].kind = "Password"
        BY <1>1, <3>1, <3>2, <3>4 DEF Numbered
      <4>2. i \in 1..k - 1
        BY <1>2, <2>1, <4>1
      <4> QED
        BY <3>1, <3>2, <4>1, <4>2 DEF OnceInv, ScreensApart, Apart
    <3> QED
      BY <2>4, <3>3, <3>4 DEF MayPush
  <2>8. ~repeated => LeavingOnce'
    BY <2>7 DEF LeavingOnce
  <2> QED
    BY <2>4, <2>5, <2>6, <2>8 DEF SessionInv, OnceInv
<1> QED
  BY <1>4, <1>5

\* Screen s makes an alert and signs the user out.  The session has ended late
\* unless s is on top, and if the alert is the only one of its kind it appears.
LEMMA AlertKeeps ==
  ASSUME SessionInv, NEW s \in DOMAIN updateAlert, PresentAlert(s), currentUser' = NoUser,
         accounts' = accounts, stack' = stack, leaving' = leaving, call' = call,
         taps' \in Nat, asked' = asked, launches' = launches, saves' \subseteq saves,
         expired' \in BOOLEAN, repeated' \in BOOLEAN,
         expired \/ Top.number # s => expired',
         \A i \in DOMAIN stack : stack[i].number = s => stack[i].kind \in {"Home", "Password"},
         ~repeated' =>
             /\ OnceInv /\ \A t \in timers : t.screen # s
             /\ OnStack(s) => s = Top.number /\ presented = 0 /\ leaving = {}
             /\ s \in leaving => leaving = {s} /\ Top.kind # "Login"
  PROVE  SessionInv'
<1> DEFINE a == alerts + 1
           new == [screen |-> s, alert |-> a]
<1>1. TypeOK /\ Numbered /\ BelowInv /\ TopInv /\ CallInv /\ AlertInv
  BY DEF SessionInv
<1>2. /\ alerts' = a /\ updateAlert' = [updateAlert EXCEPT ![s] = a]
      /\ timers' = timers \cup {new}
  BY DEF PresentAlert
<1>3. /\ alerts \in Nat /\ a \in Nat /\ presented \in Nat /\ updateAlert \in Seq(Nat) /\ s \in Nat
      /\ timers \subseteq Timer /\ \A t \in timers : t.screen \in DOMAIN updateAlert
      /\ Len(stack) \in DOMAIN stack /\ Top.number \in DOMAIN updateAlert
      /\ accounts \subseteq Users
  BY <1>1 DEF TypeOK, Top
<1>4. /\ a > alerts /\ a # 0 /\ presented <= alerts /\ presented # a
      /\ \A t \in timers : t.alert # a
  BY <1>1, <1>3 DEF AlertInv
<1>5. new \in Timer /\ new.screen = s /\ new.alert = a
  BY <1>3 DEF Timer
<1>6. /\ updateAlert' \in Seq(Nat) /\ DOMAIN updateAlert' = DOMAIN updateAlert
      /\ updateAlert'[s] = a /\ \A x \in DOMAIN updateAlert : x # s => updateAlert'[x] = updateAlert[x]
  BY <1>2, <1>3
<1> HIDE DEF a, new
<1>7. \/ presented = 0 /\ Top.number = s /\ presented' = a
      \/ ~(presented = 0 /\ Top.number = s) /\ presented' = presented
      \/ presented = 0 /\ s \in leaving /\ presented' = a
  BY <1>2 DEF PresentAlert
<1>8. Top' = Top /\ (\A x : OnStack(x)' <=> OnStack(x))
  BY DEF Top, OnStack
<1>9. s \in leaving => Top.number # s
  BY <1>1, <1>3 DEF Numbered, Top
<1>10. TypeOK'
  <2>1. \A t \in timers' : t \in Timer /\ t.screen \in DOMAIN updateAlert
    BY <1>2, <1>3, <1>5
  <2>2. presented' \in Nat
    BY <1>3, <1>7
  <2> QED
    BY <1>1, <1>2, <1>3, <1>6, <2>1, <2>2 DEF TypeOK
<1>11. Numbered'
  <2>1. \A t \in timers', i \in DOMAIN stack :
            stack[i].number = t.screen => stack[i].kind \in {"Home", "Password"}
    BY <1>1, <1>2, <1>5 DEF Numbered
  <2> QED
    BY <1>1, <1>6, <2>1 DEF Numbered
<1>12. BelowInv'
  BY <1>1 DEF BelowInv
<1>13. TopInv'
  BY <1>1, <1>4, <1>7, <1>8 DEF TopInv, OfUser
<1>14. CallInv'
  <2>1. Top.number = s => Top.kind \in {"Home", "Password"}
    BY <1>3 DEF Top
  <2> QED
    BY <1>1, <1>7, <1>8, <2>1 DEF CallInv
<1>15. AlertInv'
  <2>1. presented' <= alerts' /\ \A x \in DOMAIN updateAlert' : updateAlert'[x] <= alerts'
    <3>1. \A x \in DOMAIN updateAlert : updateAlert[x] \in Nat /\ updateAlert[x] <= alerts
      BY <1>1, <1>3 DEF AlertInv
    <3> QED
      BY <1>2, <1>3, <1>4, <1>6, <1>7, <3>1
  <2>2. /\ \A t \in timers' : t.alert \in 1..alerts'
        /\ \A t, u \in timers' : t.alert = u.alert => t = u
    <3>1. \A t \in timers : t.alert \in 1..a
      BY <1>1, <1>3, <1>4 DEF AlertInv
    <3>2. a \in 1..a
      BY <1>3, <1>4
    <3> QED
      BY <1>1, <1>2, <1>4, <1>5, <3>1, <3>2 DEF AlertInv
  <2>3. ASSUME presented' # 0
        PROVE  /\ expired' \/ \A x \in DOMAIN updateAlert : updateAlert'[x] = presented' => OnStack(x)
               /\ Top.kind = "Password" => updateAlert'[Top.number] # 0
    <3>1. \A x \in DOMAIN updateAlert : updateAlert'[x] = a => x = s
      <4>1. \A x \in DOMAIN updateAlert : updateAlert[x] # a
        BY <1>1, <1>3, <1>4 DEF AlertInv
      <4> QED
        BY <1>6, <4>1
    <3>2. CASE presented = 0 /\ Top.number = s /\ presented' = a
      <4>1. OnStack(s)
        BY <1>3, <3>2 DEF OnStack, Top
      <4> QED
        BY <1>4, <1>6, <3>1, <3>2, <4>1
    <3>3. CASE presented' = presented
      <4>1. /\ expired \/ \A x \in DOMAIN updateAlert : updateAlert[x] = presented => OnStack(x)
            /\ Top.kind = "Password" => updateAlert[Top.number] # 0
        BY <1>1, <2>3, <3>3 DEF AlertInv
      <4>2. \A x \in DOMAIN updateAlert : updateAlert'[x] = presented => updateAlert[x] = presented
        BY <1>4, <1>6
      <4> QED
        BY <1>3, <1>4, <1>6, <3>3, <4>1, <4>2
    <3>4. CASE presented = 0 /\ s \in leaving /\ presented' = a
      BY <1>1, <1>9, <3>4 DEF TopInv
    <3> QED
      BY <1>7, <3>2, <3>3, <3>4
  <2> QED
    BY <1>6, <1>8, <2>1, <2>2, <2>3 DEF AlertInv
<1>16. ASSUME ~repeated' PROVE OnceInv'
  <2>1. /\ ScreensApart /\ TimersOnce /\ LeavingOnce
        /\ \A t \in timers : t.screen # s
        /\ OnStack(s) => s = Top.number /\ presented = 0 /\ leaving = {}
        /\ s \in leaving => leaving = {s} /\ Top.kind # "Login"
    BY <1>16 DEF OnceInv
  <2>2. ScreensApart'
    <3>1. \A i \in 1..Len(stack) - 1 : stack[i].number \in DOMAIN updateAlert
      BY <1>1 DEF TypeOK
    <3>2. \A x \in DOMAIN updateAlert : updateAlert[x] # 0 => updateAlert'[x] # 0
      BY <1>4, <1>6
    <3> QED
      BY <2>1, <3>1, <3>2 DEF ScreensApart, Apart
  <2>3. ASSUME NEW t \in timers'
        PROVE  /\ t.alert = updateAlert'[t.screen]
               /\ OnStack(t.screen) => t.screen = Top.number /\ presented' = t.alert /\ leaving = {}
    <3>1. CASE t = new
      BY <1>5, <1>6, <1>7, <2>1, <3>1
    <3>2. CASE t \in timers
      <4>1. t.alert = updateAlert'[t.screen] /\ t.alert # 0
        BY <1>1, <1>3, <1>6, <2>1, <3>2 DEF TimersOnce, AlertInv
      <4>2. OnStack(t.screen) => t.screen = Top.number /\ presented = t.alert /\ leaving = {}
        BY <2>1, <3>2 DEF TimersOnce
      <4> QED
        BY <1>7, <4>1, <4>2
    <3> QED
      BY <1>2, <2>3, <3>1, <3>2
  <2>4. ASSUME NEW x \in leaving, MayPush(x)' PROVE leaving = {x} /\ Top.kind # "Login"
    <3>1. CASE x = s
      BY <2>1, <2>4, <3>1
    <3>2. CASE x # s
      <4>1. x \in DOMAIN updateAlert
        BY <1>1, <2>4 DEF Numbered
      <4>2. MayPush(x)
        BY <1>2, <1>5, <1>6, <2>4, <3>2, <4>1 DEF MayPush
      <4> QED
        BY <2>1, <2>4, <4>2 DEF LeavingOnce
    <3> QED
      BY <3>1, <3>2
  <2>5. TimersOnce'
    BY <1>8, <2>3 DEF TimersOnce
  <2>6. LeavingOnce'
    BY <1>8, <2>4 DEF LeavingOnce
  <2> QED
    BY <2>2, <2>5, <2>6 DEF OnceInv
<1> QED
  BY <1>10, <1>11, <1>12, <1>13, <1>14, <1>15, <1>16 DEF SessionInv

LEMMA AlertStep ==
  ASSUME SessionInv, LogoutButtonTapped \/ \E save \in saves : PasswordUpdated(save)
  PROVE  SessionInv'
<1>1. /\ TypeOK /\ Numbered /\ TopInv /\ CallInv /\ AlertInv /\ (~repeated => OnceInv)
  BY DEF SessionInv
<1>2. /\ Len(stack) \in DOMAIN stack /\ DOMAIN stack = 1..Len(stack) /\ Len(stack) \in Nat
      /\ Top.number \in DOMAIN updateAlert /\ taps \in Nat
      /\ repeated \in BOOLEAN /\ expired \in BOOLEAN
  BY <1>1 DEF TypeOK, Top
<1>3. CASE LogoutButtonTapped
  <2> DEFINE s == Top.number
  <2>1. /\ Touch /\ taps' = taps + 1 /\ Top.kind = "Home" /\ currentUser' = NoUser
        /\ PresentAlert(s)
        /\ UNCHANGED <<accounts, expired, stack, leaving, call, saveVars, asked, launches>>
    BY <1>3 DEF LogoutButtonTapped, Tap
  <2>2. saves' = saves /\ repeated' = repeated /\ presented = 0 /\ leaving = {} /\ taps' \in Nat
    BY <1>2, <2>1 DEF saveVars, Touch
  <2>3. \A i \in DOMAIN stack : stack[i].number = s => stack[i].kind \in {"Home", "Password"}
    BY <1>1, <1>2, <2>1 DEF Numbered, Top
  <2>4. ASSUME ~repeated PROVE \A t \in timers : t.screen # s
    <3>1. OnStack(s)
      BY <1>2 DEF OnStack, Top
    <3>2. \A t \in timers : t.alert # 0
      BY <1>1 DEF AlertInv, TypeOK
    <3> QED
      BY <1>1, <2>2, <2>4, <3>1, <3>2 DEF OnceInv, TimersOnce
  <2> HIDE DEF s
  <2> QED
    BY <1>1, <1>2, <2>1, <2>2, <2>3, <2>4, AlertKeeps DEF s
<1>4. ASSUME NEW save \in saves, PasswordUpdated(save), Alive(save.screen)
      PROVE  SessionInv'
  <2> DEFINE s == save.screen
  <2>1. /\ saves' = saves \ {save} /\ currentUser' = NoUser /\ PresentAlert(s)
        /\ repeated' = (repeated \/ updateAlert[s] # 0)
        /\ expired' = (expired \/ Top.number # s)
        /\ UNCHANGED <<accounts, stack, leaving, call, boundVars>>
    BY <1>4 DEF PasswordUpdated
  <2>2. s \in DOMAIN updateAlert /\ expired' \in BOOLEAN /\ repeated' \in BOOLEAN
    BY <1>1, <1>2, <2>1 DEF TypeOK
  <2>3. \A i \in DOMAIN stack : stack[i].number = s => stack[i].kind = "Password"
    BY <1>1 DEF Numbered
  <2>4. taps' \in Nat /\ asked' = asked /\ launches' = launches
    BY <1>2, <2>1 DEF boundVars
  <2>5. ASSUME ~repeated'
        PROVE  /\ OnceInv /\ \A t \in timers : t.screen # s
               /\ OnStack(s) => s = Top.number /\ presented = 0 /\ leaving = {}
               /\ s \in leaving => leaving = {s} /\ Top.kind # "Login"
    <3>1. OnceInv /\ updateAlert[s] = 0
      BY <1>1, <2>1, <2>5
    <3>2. \A t \in timers : t.screen # s
      <4>1. \A t \in timers : t.alert # 0
        BY <1>1 DEF AlertInv, TypeOK
      <4> QED
        BY <3>1, <4>1 DEF OnceInv, TimersOnce
    <3>3. ASSUME OnStack(s) PROVE s = Top.number /\ presented = 0 /\ leaving = {}
      <4>1. PICK i \in DOMAIN stack : stack[i].number = s
        BY <3>3 DEF OnStack
      <4>2. stack[i].kind = "Password"
        BY <2>3, <4>1
      <4>3. i = Len(stack)
        <5>1. i \in 1..Len(stack) - 1 => updateAlert[s] # 0
          BY <3>1, <4>1, <4>2 DEF OnceInv, ScreensApart, Apart
        <5> QED
          BY <1>2, <3>1, <5>1
      <4>4. s = Top.number /\ Top.kind = "Password"
        BY <4>1, <4>2, <4>3 DEF Top
      <4> QED
        BY <1>1, <3>1, <4>4 DEF AlertInv, TopInv
    <3>4. s \in leaving => leaving = {s} /\ Top.kind # "Login"
      <4>1. MayPush(s)
        BY <3>1 DEF MayPush
      <4> QED
        BY <3>1, <4>1 DEF OnceInv, LeavingOnce
    <3> QED
      BY <3>1, <3>2, <3>3, <3>4
  <2> HIDE DEF s
  <2> QED
    BY <2>1, <2>2, <2>3, <2>4, <2>5, AlertKeeps
<1>5. ASSUME NEW save \in saves, PasswordUpdated(save), ~Alive(save.screen)
      PROVE  SessionInv'
  <2>1. /\ saves' \subseteq saves
        /\ UNCHANGED <<currentUser, updateAlert, repeated, expired, alertVars>>
        /\ UNCHANGED <<accounts, stack, leaving, call, boundVars>>
    BY <1>5 DEF PasswordUpdated
  <2>2. presented' = presented /\ timers' = timers /\ alerts' = alerts
    BY <2>1 DEF alertVars
  <2>3. TypeOK'
    BY <1>1, <2>1, <2>2 DEF TypeOK, boundVars
  <2>4. Numbered' /\ BelowInv' /\ TopInv' /\ CallInv'
    BY <1>1, <2>1, <2>2 DEF SessionInv, Numbered, BelowInv, TopInv, CallInv, OfUser, Top
  <2>5. AlertInv'
    BY <1>1, <2>1, <2>2 DEF AlertInv, OnStack, Top
  <2>6. ~repeated' => OnceInv'
    <3>1. \A x : MayPush(x)' => MayPush(x)
      BY <2>1, <2>2 DEF MayPush
    <3> QED
      BY <1>1, <2>1, <2>2, <3>1 DEF OnceInv, ScreensApart, TimersOnce, LeavingOnce, OnStack, Top
  <2> QED
    BY <2>3, <2>4, <2>5, <2>6 DEF SessionInv
<1> QED
  BY <1>3, <1>4, <1>5

LEMMA TimerStep ==
  ASSUME SessionInv, NEW t \in timers, TimerFired(t)
  PROVE  SessionInv'
<1> DEFINE k == Len(stack)
           dismissed == presented # 0 /\ presented = updateAlert[t.screen]
<1>1. /\ TypeOK /\ Numbered /\ BelowInv /\ TopInv /\ CallInv /\ AlertInv /\ (~repeated => OnceInv)
  BY DEF SessionInv
<1>2. /\ timers' = timers \ {t} /\ presented' = IF dismissed THEN 0 ELSE presented
      /\ \/ /\ OnStack(t.screen) \/ t.screen \in leaving
            /\ Push("Login", currentUser)
         \/ /\ \/ ~OnStack(t.screen)
               \/ ~dismissed /\ \E i \in DOMAIN stack :
                     stack[i].number = t.screen /\ stack[i].kind = "Password"
            /\ UNCHANGED screenVars
      /\ accounts' = accounts /\ currentUser' = currentUser /\ expired' = expired
      /\ call' = call /\ saves' = saves /\ repeated' = repeated /\ alerts' = alerts
      /\ UNCHANGED boundVars
  BY DEF TimerFired, authVars, saveVars
<1>3. /\ k \in Nat /\ k + 1 \in Nat /\ \A i \in k..(k + 1) - 1 : i = k
      /\ t.screen \in DOMAIN updateAlert /\ t.alert \in Nat /\ t.alert # 0
      /\ currentUser \in Users \cup {NoUser} /\ presented \in Nat
      /\ k \in DOMAIN stack /\ Top = stack[k]
  BY <1>1 DEF TypeOK, AlertInv, Top
<1>4. ~repeated => t.alert = updateAlert[t.screen]
  BY <1>1 DEF OnceInv, TimersOnce
<1> HIDE DEF k, dismissed
<1>5. presented' \in {0, presented}
  BY <1>2
<1>6. ASSUME ~repeated, NEW u \in timers', OnStack(u.screen)
      PROVE  /\ u.alert = updateAlert[u.screen] /\ ~OnStack(t.screen) /\ t.screen \notin leaving
             /\ u.screen = Top.number /\ presented' = u.alert /\ leaving = {}
  <2>1. u \in timers /\ u # t
    BY <1>2, <1>6
  <2>2. u.alert # t.alert
    BY <1>1, <2>1 DEF AlertInv
  <2>3. u.alert = updateAlert[u.screen] /\ u.screen = Top.number /\ presented = u.alert /\ leaving = {}
    BY <1>1, <1>6, <2>1 DEF OnceInv, TimersOnce
  <2>4. OnStack(t.screen) => presented = t.alert
    BY <1>1, <1>6 DEF OnceInv, TimersOnce
  <2>5. ~dismissed
    BY <1>4, <1>6, <2>2, <2>3 DEF dismissed
  <2> QED
    BY <1>2, <2>2, <2>3, <2>4, <2>5
<1>7. CASE Push("Login", currentUser) /\ (OnStack(t.screen) \/ t.screen \in leaving)
  <2>1. /\ Growth(k + 1) /\ Top'.kind = "Login" /\ stack'[k] = Top /\ stack'[k + 1] = Top'
    <3>1. "Login" \in {"Login", "Signup", "Home"} \cup UserScreens
      OBVIOUS
    <3> QED
      BY <1>1, <1>3, <1>7, <3>1, PushGrows DEF k
  <2>2. timers' \subseteq timers
    BY <1>2
  <2>3. /\ stack' \in Seq(Screen) /\ stack' # <<>> /\ updateAlert' \in Seq(Nat) /\ leaving' \subseteq Nat
        /\ \A i \in DOMAIN stack' : stack'[i].number \in DOMAIN updateAlert'
        /\ DOMAIN updateAlert \subseteq DOMAIN updateAlert'
        /\ Numbered'
        /\ \A n \in DOMAIN updateAlert : updateAlert'[n] = updateAlert[n]
        /\ \A s \in DOMAIN updateAlert : OnStack(s)' <=> OnStack(s)
    BY <1>1, <1>2, <1>3, <2>1, <2>2, GrowthKeeps
  <2>4. leaving' = leaving
    BY <2>1 DEF Growth
  <2>5. TypeOK'
    <3>1. presented' \in Nat
      BY <1>3, <1>5
    <3> QED
      BY <1>1, <1>2, <2>2, <2>3, <3>1 DEF TypeOK, boundVars
  <2>6. BelowInv'
    <3>1. \A i \in k..(k + 1) - 1 : Below(stack'[i], stack'[i + 1], stack[1].kind)
      BY <1>3, <2>1 DEF Below
    <3> QED
      BY <1>1, <1>3, <2>1, <3>1, GrowthStaysBelow DEF k
  <2>7. TopInv'
    BY <1>1, <2>1, <2>4 DEF TopInv, OfUser, UserScreens
  <2>8. CallInv'
    BY <1>1, <1>2, <1>5, <2>1, <2>4 DEF CallInv
  <2>9. AlertInv'
    BY <1>1, <1>2, <1>3, <1>5, <2>1, <2>2, GrowthAlerts
  <2>10. ASSUME ~repeated' PROVE OnceInv'
    <3>1. OnceInv /\ ~repeated
      BY <1>1, <1>2, <2>10
    <3>2. Top.kind # "Login" /\ (Top.kind = "Password" => updateAlert[Top.number] # 0)
      <4>1. CASE OnStack(t.screen)
        <5>1. t.screen = Top.number
          BY <3>1, <4>1 DEF OnceInv, TimersOnce
        <5>2. Top.kind \in {"Home", "Password"}
          BY <1>1, <1>3, <5>1 DEF Numbered
        <5> QED
          BY <1>3, <1>4, <3>1, <5>1, <5>2
      <4>2. CASE t.screen \in leaving
        <5>1. MayPush(t.screen)
          BY DEF MayPush
        <5> QED
          BY <1>1, <3>1, <4>2, <5>1 DEF OnceInv, LeavingOnce, TopInv
      <4> QED
        BY <1>7, <4>1, <4>2
    <3>3. ScreensApart'
      <4>1. updateAlert'[Top.number] = updateAlert[Top.number]
        BY <1>1, <1>3, <2>3 DEF TypeOK
      <4>2. \A i \in k..(k + 1) - 1 : Apart(stack'[i], stack'[i + 1], updateAlert')
        BY <1>3, <2>1, <3>2, <4>1 DEF Apart
      <4> QED
        BY <1>1, <1>3, <2>1, <3>1, <4>2, GrowthStaysApart DEF OnceInv, k
    <3>4. ASSUME NEW u \in timers'
          PROVE  u.alert = updateAlert'[u.screen] /\ ~OnStack(u.screen)'
      <4>1. u \in timers /\ u.screen \in DOMAIN updateAlert
        BY <1>1, <1>2 DEF TypeOK
      <4>2. u.alert = updateAlert[u.screen]
        BY <3>1, <4>1 DEF OnceInv, TimersOnce
      <4>3. ~OnStack(u.screen)
        BY <1>6, <1>7, <3>1
      <4> QED
        BY <2>3, <4>1, <4>2, <4>3
    <3>5. TimersOnce'
      BY <3>4 DEF TimersOnce
    <3>6. ASSUME NEW s \in leaving PROVE ~MayPush(s)'
      <4>1. t.screen \in leaving
        <5>1. OnStack(t.screen) => leaving = {}
          BY <3>1 DEF OnceInv, TimersOnce
        <5> QED
          BY <1>7, <3>6, <5>1
      <4>2. MayPush(t.screen)
        BY DEF MayPush
      <4>3. s = t.screen
        BY <3>1, <3>6, <4>1, <4>2 DEF OnceInv, LeavingOnce
      <4>4. \A u \in timers' : u.screen # s
        <5>1. ASSUME NEW u \in timers', u.screen = s PROVE FALSE
          <6>1. u \in timers /\ u # t
            BY <1>2, <5>1
          <6>2. u.alert = t.alert
            BY <1>4, <3>1, <4>3, <5>1, <6>1 DEF OnceInv, TimersOnce
          <6> QED
            BY <1>1, <6>1, <6>2 DEF AlertInv
        <5> QED
          BY <5>1
      <4>5. updateAlert'[s] # 0
        BY <1>3, <1>4, <2>3, <3>1, <4>3
      <4> QED
        BY <4>4, <4>5 DEF MayPush
    <3>7. LeavingOnce'
      BY <2>4, <3>6 DEF LeavingOnce
    <3> QED
      BY <3>3, <3>5, <3>7 DEF OnceInv
  <2> QED
    BY <2>3, <2>5, <2>6, <2>7, <2>8, <2>9, <2>10 DEF SessionInv
<1>8. CASE /\ \/ ~OnStack(t.screen)
              \/ ~dismissed /\ \E i \in DOMAIN stack :
                    stack[i].number = t.screen /\ stack[i].kind = "Password"
           /\ UNCHANGED screenVars
  <2>1. stack' = stack /\ leaving' = leaving /\ updateAlert' = updateAlert /\ timers' \subseteq timers
    BY <1>2, <1>8 DEF screenVars
  <2>2. Top' = Top /\ \A s : OnStack(s)' <=> OnStack(s)
    BY <2>1 DEF Top, OnStack
  <2>3. TypeOK'
    <3>1. presented' \in Nat
      BY <1>3, <1>5
    <3> QED
      BY <1>1, <1>2, <2>1, <3>1 DEF TypeOK, boundVars
  <2>4. Numbered' /\ BelowInv' /\ CallInv'
    BY <1>1, <1>2, <1>5, <2>1, <2>2 DEF Numbered, BelowInv, CallInv
  <2>5. TopInv'
    <3>1. dismissed => expired
      <4>1. ~dismissed \/ ~OnStack(t.screen)
        BY <1>8
      <4> QED
        BY <1>1, <1>3, <4>1 DEF AlertInv, dismissed
    <3> QED
      BY <1>1, <1>2, <2>1, <2>2, <3>1 DEF TopInv, OfUser
  <2>6. AlertInv'
    BY <1>1, <1>2, <1>5, <2>1, <2>2 DEF AlertInv, TypeOK
  <2>7. ASSUME ~repeated' PROVE OnceInv'
    <3>1. OnceInv /\ ~repeated
      BY <1>1, <1>2, <2>7
    <3>2. ScreensApart'
      BY <2>1, <3>1 DEF OnceInv, ScreensApart
    <3>3. TimersOnce'
      BY <1>6, <2>1, <2>2, <3>1 DEF OnceInv, TimersOnce
    <3>4. LeavingOnce'
      <4>1. \A s : MayPush(s)' => MayPush(s)
        BY <1>2, <2>1 DEF MayPush
      <4> QED
        BY <2>1, <2>2, <3>1, <4>1 DEF OnceInv, LeavingOnce
    <3> QED
      BY <3>2, <3>3, <3>4 DEF OnceInv
  <2> QED
    BY <2>3, <2>4, <2>5, <2>6, <2>7 DEF SessionInv
<1> QED
  BY <1>2, <1>7, <1>8

\* A launch leaves one screen, Login if nobody is signed in.
Launched ==
    /\ accounts \subseteq Users /\ currentUser \in accounts \cup {NoUser} /\ expired = FALSE
    /\ stack = <<FirstScreen>> /\ leaving = {} /\ updateAlert = <<0>>
    /\ call = NoCall /\ saves = {} /\ repeated = FALSE
    /\ presented = 0 /\ timers = {} /\ alerts = 0
    /\ taps \in Nat /\ asked \in Nat /\ launches \in Nat

LEMMA LaunchedFits == Launched => SessionInv
<1> SUFFICES ASSUME Launched PROVE SessionInv
  OBVIOUS
<1> USE DEF Launched
<1>1. /\ FirstScreen \in Screen /\ FirstScreen.number = 1
      /\ FirstScreen.kind = (IF currentUser = NoUser THEN "Login" ELSE "Home")
      /\ FirstScreen.owner = currentUser
  BY DEF FirstScreen, NewScreen, Screen
<1>2. /\ stack \in Seq(Screen) /\ Len(stack) = 1 /\ DOMAIN stack = {1} /\ stack[1] = FirstScreen
      /\ stack # <<>> /\ Top = FirstScreen
      /\ updateAlert \in Seq(Nat) /\ DOMAIN updateAlert = {1} /\ updateAlert[1] = 0
  BY <1>1 DEF Top
<1>3. \A i \in 1..Len(stack) - 1 : FALSE
  BY <1>2
<1>4. TypeOK
  BY <1>1, <1>2 DEF TypeOK
<1>5. Numbered /\ BelowInv /\ TopInv /\ CallInv
  BY <1>1, <1>2, <1>3 DEF Numbered, BelowInv, TopInv, CallInv, OfUser, UserScreens
<1>6. AlertInv
  BY <1>2 DEF AlertInv
<1>7. OnceInv
  BY <1>3 DEF OnceInv, ScreensApart, TimersOnce, LeavingOnce
<1> QED
  BY <1>4, <1>5, <1>6, <1>7 DEF SessionInv

LEMMA LaunchStep ==
  ASSUME SessionInv, Relaunch
  PROVE  SessionInv'
<1>1. Launched'
  BY DEF Relaunch, SessionInv, TypeOK, Launched, FirstScreen
<1> QED
  BY <1>1, LaunchedFits, PTL

\* The inductive invariant.
THEOREM SessionInvariant == Spec => []SessionInv
<1>1. Init => SessionInv
  BY LaunchedFits DEF Init, Launched
<1>2. ASSUME SessionInv, [Next]_vars PROVE SessionInv'
  <2>1. CASE UNCHANGED vars
    <3>1. UNCHANGED <<accounts, currentUser, expired, stack, leaving, updateAlert, call, saves, repeated,
                      presented, timers, alerts, taps, asked, launches>>
      BY <2>1 DEF vars, authVars, screenVars, saveVars, alertVars, boundVars
    <3> QED
      BY <1>2, <3>1 DEF SessionInv, TypeOK, Numbered, BelowInv, TopInv, CallInv, AlertInv, OnceInv,
                        ScreensApart, TimersOnce, LeavingOnce, MayPush, OfUser, OnStack, Top
  <2>2. CASE Next
    BY <1>2, <2>2, CallStep, PushStep, SaveStep, PopStep, AlertStep, TimerStep, LaunchStep DEF Next
  <2> QED
    BY <1>2, <2>1, <2>2
<1> QED
  BY <1>1, <1>2, PTL DEF Spec

\* Screens are numbered, alerts, timers and password changes belong to screens
\* that were made, through late and second successes too.
THEOREM TypeCorrect == Spec => []TypeOK
<1>1. SessionInv => TypeOK
  BY DEF SessionInv
<1> QED
  BY <1>1, SessionInvariant, PTL

\* In an app launched to Login nobody touches the Home of somebody else, and
\* nobody touches it signed out but after a late success of a password change.
THEOREM HomeIsUsers == Spec => []HomeBelongsToUser
<1>1. SessionInv => HomeBelongsToUser
  BY DEF SessionInv, TopInv, OfUser, Touch, HomeBelongsToUser, TopIsUsers
<1> QED
  BY <1>1, SessionInvariant, PTL

\* The same for a form, Profile and Password, however the app was launched.
THEOREM ScreensAreUsers == Spec => []ScreensBelongToUser
<1>1. SessionInv => ScreensBelongToUser
  BY DEF SessionInv, TopInv, OfUser, Touch, ScreensBelongToUser, TopIsUsers
<1> QED
  BY <1>1, SessionInvariant, PTL

\* No screen lies on one of its own kind, unless a Password has succeeded twice.
THEOREM NoScreenOnItsLike == Spec => []NoScreenTwice
<1>1. SessionInv => NoScreenTwice
  BY DEF SessionInv, OnceInv, ScreensApart, Apart, NoScreenTwice
<1> QED
  BY <1>1, SessionInvariant, PTL
=============================================================================
