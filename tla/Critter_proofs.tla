---------------------------- MODULE Critter_proofs ----------------------------
(***************************************************************************)
(* Proofs about Critter, for any number of fields entered within 100 ms.   *)
(* The closures still pending are tied to the focus by the newest of them: *)
(* it was put there by the field that is edited now.                       *)
(***************************************************************************)
EXTENDS Critter, TLAPS

\* The newest closure pending is the one the focus asked for.
NewestIsFocus ==
    pending # <<>> =>
        /\ focus \in Plain  => pending[Len(pending)] = "turn"
        /\ focus \in Secret => pending[Len(pending)] = "hide"

\* Without hurry at most one closure is pending, that of the field being edited.
OneClosure ==
    ~hurried =>
        /\ Len(pending) <= 1
        /\ pending # <<>> => focus # "none"

\* The button can be seen only by somebody who edits a secret field, or until a
\* pending closure hides it.
ButtonGuarded ==
    ~hidden \/ visible => \/ focus \in Secret
                          \/ \E i \in DOMAIN pending : pending[i] = "turn"
                          \/ hurried

\* Without hurry the head is at rest while a secret field is edited, its closure
\* pending or not.
HeadAtRest == ~hurried /\ focus \in Secret => head = "rest"

CritterInv == /\ TypeOK /\ NewestIsFocus /\ OneClosure /\ ButtonGuarded
              /\ HeadAtRest /\ FocusShown /\ RestUnlessHurried

USE DEF Plain, Secret, Fields

\* Nothing is edited and nothing pending at first.
LEMMA CritterInitial == Init => CritterInv
<1> SUFFICES ASSUME Init PROVE CritterInv
  OBVIOUS
<1>1. TypeOK
  <2>1. pending \in Seq({"turn", "hide"})
    BY DEF Init
  <2>2. /\ screen \in {"Login", "Signup"} /\ focus \in Fields \cup {"none"}
        /\ shy \in BOOLEAN /\ visible \in BOOLEAN /\ hidden \in BOOLEAN /\ hurried \in BOOLEAN
    BY DEF Init
  <2>3. /\ head \in {"rest", "turned"} /\ neutral \in {"none", "active", "done"}
        /\ neutral # "none" => head = "rest"
    BY DEF Init
  <2> QED
    BY <2>1, <2>2, <2>3 DEF TypeOK
<1>2. NewestIsFocus /\ OneClosure /\ HeadAtRest
  BY DEF Init, NewestIsFocus, OneClosure, HeadAtRest
<1>3. ButtonGuarded
  BY DEF Init, ButtonGuarded
<1>4. FocusShown /\ RestUnlessHurried
  BY DEF Init, FocusShown, RestUnlessHurried
<1> QED
  BY <1>1, <1>2, <1>3, <1>4 DEF CritterInv

\* What a new closure does to the queue.
LEMMA Appended ==
  ASSUME NEW q \in Seq({"turn", "hide"}), NEW c \in {"turn", "hide"}
  PROVE  /\ Append(q, c) \in Seq({"turn", "hide"}) /\ Append(q, c) # <<>>
         /\ Len(Append(q, c)) = Len(q) + 1
         /\ Append(q, c)[Len(Append(q, c))] = c
         /\ q = <<>> => Len(Append(q, c)) = 1
         /\ \E i \in DOMAIN Append(q, c) : Append(q, c)[i] = c
         /\ (\E i \in DOMAIN q : q[i] = "turn") => \E i \in DOMAIN Append(q, c) : Append(q, c)[i] = "turn"
  OBVIOUS

\* What running the oldest closure does to the queue.
LEMMA Tailed ==
  ASSUME NEW q \in Seq({"turn", "hide"}), q # <<>>
  PROVE  /\ Tail(q) \in Seq({"turn", "hide"}) /\ Len(Tail(q)) = Len(q) - 1
         /\ Tail(q) = <<>> => Len(q) = 1 /\ q[Len(q)] = Head(q)
         /\ Tail(q) # <<>> => Tail(q)[Len(Tail(q))] = q[Len(q)]
         /\ Len(q) <= 1 => Tail(q) = <<>>
         /\ Head(q) = "hide" /\ (\E i \in DOMAIN q : q[i] = "turn")
              => \E i \in DOMAIN Tail(q) : Tail(q)[i] = "turn"
<1>1. /\ Tail(q) \in Seq({"turn", "hide"}) /\ Len(Tail(q)) = Len(q) - 1
      /\ Len(q) \in Nat /\ Len(q) >= 1
      /\ \A i \in 1..Len(q) - 1 : Tail(q)[i] = q[i + 1]
      /\ Head(q) = q[1]
  OBVIOUS
<1>2. Tail(q) = <<>> => Len(q) = 1 /\ q[Len(q)] = Head(q)
  BY <1>1
<1>3. Tail(q) # <<>> => Tail(q)[Len(Tail(q))] = q[Len(q)]
  <2> SUFFICES ASSUME Tail(q) # <<>> PROVE Tail(q)[Len(q) - 1] = q[Len(q)]
    BY <1>1
  <2>1. Len(Tail(q)) # 0
    BY <1>1
  <2>2. Len(q) - 1 \in 1..Len(q) - 1 /\ (Len(q) - 1) + 1 = Len(q)
    BY <1>1, <2>1
  <2> QED
    BY <1>1, <2>2
<1>4. Len(q) <= 1 => Tail(q) = <<>>
  BY <1>1
<1>5. ASSUME Head(q) = "hide", NEW i \in DOMAIN q, q[i] = "turn"
      PROVE  \E j \in DOMAIN Tail(q) : Tail(q)[j] = "turn"
  <2>1. i \in 1..Len(q) /\ i # 1
    BY <1>1, <1>5
  <2>2. i - 1 \in 1..Len(q) - 1 /\ (i - 1) + 1 = i
    BY <1>1, <2>1
  <2>3. Tail(q)[i - 1] = "turn" /\ i - 1 \in DOMAIN Tail(q)
    BY <1>1, <1>5, <2>2
  <2> QED
    BY <2>3
<1> QED
  BY <1>1, <1>2, <1>3, <1>4, <1>5

\* Entering a field: the head stops if a plain field is left, its closure is new.
LEMMA FocusStep ==
  ASSUME CritterInv, NEW f \in Fields, Focus(f)
  PROVE  CritterInv'
<1> DEFINE c == IF f \in Plain THEN "turn" ELSE "hide"
<1>0. c \in {"turn", "hide"} /\ pending \in Seq({"turn", "hide"})
  BY DEF CritterInv, TypeOK
<1>1. /\ pending' = Append(pending, c) /\ focus' = f /\ hurried' = (hurried \/ pending # <<>>)
      /\ UNCHANGED <<screen, shy, visible, hidden>>
  BY DEF Focus, Hurry
<1>2. /\ pending' \in Seq({"turn", "hide"}) /\ pending' # <<>>
      /\ Len(pending') = Len(pending) + 1 /\ pending'[Len(pending')] = c
      /\ pending = <<>> => Len(pending') = 1
      /\ \E i \in DOMAIN pending' : pending'[i] = c
      /\ (\E i \in DOMAIN pending : pending[i] = "turn") => \E i \in DOMAIN pending' : pending'[i] = "turn"
  BY <1>0, <1>1, Appended
<1>3. TypeOK'
  BY <1>1, <1>2 DEF CritterInv, TypeOK, Focus, StopHeadRotation
<1>4. NewestIsFocus'
  BY <1>1, <1>2 DEF NewestIsFocus, CritterInv, TypeOK
<1>5. OneClosure'
  <2> SUFFICES ASSUME ~hurried' PROVE Len(pending') <= 1 /\ focus' # "none"
    BY DEF OneClosure
  <2>1. pending = <<>>
    BY <1>1
  <2>2. focus' # "none"
    BY <1>1
  <2> QED
    BY <1>2, <2>1, <2>2
<1>6. ButtonGuarded'
  <2>1. f \in Plain => c = "turn"
    OBVIOUS
  <2>2. f \in Secret \/ f \in Plain
    OBVIOUS
  <2>3. CASE f \in Plain
    BY <1>2, <2>1, <2>3 DEF ButtonGuarded
  <2>4. CASE f \in Secret
    BY <1>1, <2>4 DEF ButtonGuarded
  <2> QED
    BY <2>2, <2>3, <2>4
<1>8. HeadAtRest'
  <2> SUFFICES ASSUME ~hurried', focus' \in Secret' PROVE head' = "rest"
    BY DEF HeadAtRest
  <2>1. pending = <<>> /\ ~hurried
    BY <1>1
  <2>2. focus \in Plain \/ focus \in Secret \/ focus = "none"
    BY DEF CritterInv, TypeOK
  <2>3. CASE focus \in Plain
    BY <2>3 DEF CritterInv, TypeOK, Focus, StopHeadRotation
  <2>4. CASE focus \notin Plain
    <3>1. head = "rest"
      BY <2>1, <2>2, <2>4 DEF CritterInv, RestUnlessHurried
    <3> QED
      BY <2>4, <3>1 DEF Focus
  <2> QED
    BY <2>3, <2>4
<1>7. FocusShown' /\ RestUnlessHurried'
  BY <1>2 DEF FocusShown, RestUnlessHurried
<1> QED
  BY <1>3, <1>4, <1>5, <1>6, <1>7, <1>8 DEF CritterInv

\* A closure of a plain field runs.
LEMMA TurnStep == CritterInv /\ TurnClosure => CritterInv'
<1> SUFFICES ASSUME CritterInv, TurnClosure PROVE CritterInv'
  OBVIOUS
<1>1. /\ pending # <<>> /\ Head(pending) = "turn" /\ pending' = Tail(pending)
      /\ head' = "turned" /\ neutral' = "none"
      /\ shy' = FALSE /\ visible' = FALSE /\ hidden' = TRUE
      /\ UNCHANGED <<screen, focus, hurried>>
  BY DEF TurnClosure, StartHeadRotation, PasswordDidResignAsFirstResponder
<1>2. /\ pending' \in Seq({"turn", "hide"}) /\ Len(pending') = Len(pending) - 1
      /\ pending' = <<>> => Len(pending) = 1 /\ pending[Len(pending)] = Head(pending)
      /\ pending' # <<>> => pending'[Len(pending')] = pending[Len(pending)]
      /\ Len(pending) <= 1 => pending' = <<>>
  BY <1>1, Tailed DEF CritterInv, TypeOK
<1>3. TypeOK'
  BY <1>1, <1>2 DEF CritterInv, TypeOK
<1>4. NewestIsFocus'
  BY <1>1, <1>2 DEF NewestIsFocus, CritterInv
<1>5. OneClosure' /\ ButtonGuarded'
  BY <1>1, <1>2 DEF OneClosure, ButtonGuarded, CritterInv, TypeOK
<1>6. FocusShown'
  BY <1>1, <1>2 DEF FocusShown, NewestIsFocus, CritterInv
<1>7. ~hurried => focus # "none" /\ focus \notin Secret
  BY <1>1, <1>2 DEF NewestIsFocus, OneClosure, CritterInv, TypeOK
<1>8. RestUnlessHurried' /\ HeadAtRest'
  BY <1>1, <1>7 DEF RestUnlessHurried, HeadAtRest
<1> QED
  BY <1>3, <1>4, <1>5, <1>6, <1>8 DEF CritterInv

\* A closure of a secret field runs.
LEMMA HideStep == CritterInv /\ HideClosure => CritterInv'
<1> SUFFICES ASSUME CritterInv, HideClosure PROVE CritterInv'
  OBVIOUS
<1>1. /\ pending # <<>> /\ Head(pending) = "hide" /\ pending' = Tail(pending)
      /\ shy' = TRUE /\ hidden' = FALSE
      /\ UNCHANGED <<screen, focus, visible, head, neutral, hurried>>
  BY DEF HideClosure
<1>2. /\ pending' \in Seq({"turn", "hide"}) /\ Len(pending') = Len(pending) - 1
      /\ pending' = <<>> => Len(pending) = 1 /\ pending[Len(pending)] = Head(pending)
      /\ pending' # <<>> => pending'[Len(pending')] = pending[Len(pending)]
      /\ Len(pending) <= 1 => pending' = <<>>
      /\ (\E i \in DOMAIN pending : pending[i] = "turn") => \E i \in DOMAIN pending' : pending'[i] = "turn"
  BY <1>1, Tailed DEF CritterInv, TypeOK
<1>3. TypeOK'
  BY <1>1, <1>2 DEF CritterInv, TypeOK
<1>4. NewestIsFocus'
  BY <1>1, <1>2 DEF NewestIsFocus, CritterInv
<1>5. OneClosure'
  BY <1>1, <1>2 DEF OneClosure, CritterInv, TypeOK
<1>6. focus \in Fields \cup {"none"}
  BY DEF CritterInv, TypeOK
<1>7. ~hurried => focus \in Secret /\ pending' = <<>>
  BY <1>1, <1>2, <1>6 DEF NewestIsFocus, OneClosure, CritterInv
<1>8. ButtonGuarded'
  BY <1>1, <1>2, <1>7 DEF ButtonGuarded, CritterInv
<1>9. FocusShown'
  BY <1>1, <1>2, <1>6 DEF FocusShown, NewestIsFocus, CritterInv, TypeOK
<1>10. RestUnlessHurried' /\ HeadAtRest'
  BY <1>1, <1>7 DEF RestUnlessHurried, HeadAtRest, CritterInv
<1> QED
  BY <1>3, <1>4, <1>5, <1>8, <1>9, <1>10 DEF CritterInv

\* The Return key.
LEMMA ReturnStep == CritterInv /\ TextFieldShouldReturn => CritterInv'
<1> SUFFICES ASSUME CritterInv, TextFieldShouldReturn PROVE CritterInv'
  OBVIOUS
<1>1. CASE focus = "email" /\ Focus("password")
  BY <1>1, FocusStep
<1>2. CASE ~(focus = "email" /\ Focus("password"))
  <2>1. /\ focus \in Fields \ {"email"}
        /\ focus' = IF focus = "password" THEN "none" ELSE focus
        /\ shy' = FALSE /\ visible' = FALSE /\ hidden' = TRUE
        /\ hurried' = (hurried \/ pending # <<>>)
        /\ UNCHANGED <<screen, pending, head, neutral>>
    BY <1>2 DEF TextFieldShouldReturn, PasswordDidResignAsFirstResponder, Hurry
  <2>2. TypeOK'
    BY <2>1 DEF CritterInv, TypeOK
  <2>3. NewestIsFocus'
    BY <2>1 DEF CritterInv, NewestIsFocus
  <2>4. OneClosure'
    BY <2>1 DEF CritterInv, OneClosure
  <2>5. ButtonGuarded'
    BY <2>1 DEF ButtonGuarded
  <2>6. FocusShown'
    BY <2>1 DEF FocusShown
  <2>7. RestUnlessHurried' /\ HeadAtRest'
    BY <2>1 DEF CritterInv, RestUnlessHurried, HeadAtRest
  <2> QED
    BY <2>2, <2>3, <2>4, <2>5, <2>6, <2>7 DEF CritterInv
<1> QED
  BY <1>1, <1>2

\* A tap beside the fields, or the background.
LEMMA TapStep == CritterInv /\ HandleTap => CritterInv'
<1> SUFFICES ASSUME CritterInv, HandleTap PROVE CritterInv'
  OBVIOUS
<1>1. /\ focus' = IF focus \in {"email", "password"} THEN "none" ELSE focus
      /\ shy' = FALSE /\ visible' = FALSE /\ hidden' = TRUE
      /\ hurried' = (pending # <<>>)
      /\ UNCHANGED <<screen, pending>>
  BY DEF HandleTap, PasswordDidResignAsFirstResponder
<1>2. head' = "rest" /\ neutral' \in {"active", "done"}
  BY DEF CritterInv, TypeOK, HandleTap, StopHeadRotation
<1>3. TypeOK'
  BY <1>1, <1>2 DEF CritterInv, TypeOK
<1>4. NewestIsFocus'
  BY <1>1 DEF CritterInv, NewestIsFocus
<1>5. OneClosure'
  <2>1. ~hurried' => pending' = <<>>
    BY <1>1
  <2>2. Len(<<>>) <= 1
    OBVIOUS
  <2> QED
    BY <2>1, <2>2 DEF OneClosure
<1>6. ButtonGuarded'
  BY <1>1 DEF ButtonGuarded
<1>7. FocusShown'
  BY <1>1 DEF FocusShown
<1>8. RestUnlessHurried' /\ HeadAtRest'
  BY <1>1, <1>2 DEF RestUnlessHurried, HeadAtRest
<1> QED
  BY <1>3, <1>4, <1>5, <1>6, <1>7, <1>8 DEF CritterInv

\* The button, the end of the neutral animation and stuttering steps.
LEMMA QuietStep ==
  CritterInv /\ (TogglePasswordVisibility \/ NeutralEnds \/ UNCHANGED vars) => CritterInv'
<1>1. ASSUME CritterInv, TogglePasswordVisibility PROVE CritterInv'
  <2>1. /\ ~hidden /\ visible' = ~visible
        /\ UNCHANGED <<screen, focus, pending, shy, hidden, head, neutral, hurried>>
    BY <1>1 DEF TogglePasswordVisibility, formVars
  <2>2. focus \in Secret \/ (\E i \in DOMAIN pending : pending[i] = "turn") \/ hurried
    BY <1>1, <2>1 DEF CritterInv, ButtonGuarded
  <2>3. TypeOK'
    BY <1>1, <2>1 DEF CritterInv, TypeOK
  <2>4. NewestIsFocus' /\ OneClosure' /\ HeadAtRest'
    BY <1>1, <2>1 DEF CritterInv, NewestIsFocus, OneClosure, HeadAtRest
  <2>5. ButtonGuarded'
    BY <2>1, <2>2 DEF ButtonGuarded
  <2>6. FocusShown' /\ RestUnlessHurried'
    BY <1>1, <2>1 DEF CritterInv, FocusShown, RestUnlessHurried
  <2> QED
    BY <2>3, <2>4, <2>5, <2>6 DEF CritterInv
<1>2. ASSUME CritterInv, NeutralEnds PROVE CritterInv'
  <2>1. /\ neutral = "active" /\ neutral' = "done"
        /\ UNCHANGED <<screen, focus, pending, shy, visible, hidden, head, hurried>>
    BY <1>2 DEF NeutralEnds, formVars
  <2>2. TypeOK'
    BY <1>2, <2>1 DEF CritterInv, TypeOK
  <2>3. NewestIsFocus' /\ OneClosure' /\ HeadAtRest' /\ ButtonGuarded'
    BY <1>2, <2>1 DEF CritterInv, NewestIsFocus, OneClosure, HeadAtRest, ButtonGuarded
  <2>4. FocusShown' /\ RestUnlessHurried'
    BY <1>2, <2>1 DEF CritterInv, FocusShown, RestUnlessHurried
  <2> QED
    BY <2>2, <2>3, <2>4 DEF CritterInv
<1>3. ASSUME CritterInv, UNCHANGED vars PROVE CritterInv'
  <2>1. UNCHANGED <<screen, focus, pending, shy, visible, hidden, head, neutral, hurried>>
    BY <1>3 DEF vars, formVars, critterVars
  <2> QED
    BY <1>3, <2>1 DEF CritterInv, TypeOK, NewestIsFocus, OneClosure, ButtonGuarded,
                      HeadAtRest, FocusShown, RestUnlessHurried
<1> QED
  BY <1>1, <1>2, <1>3

\* The invariant is inductive.
THEOREM CritterInvariant == Spec => []CritterInv
<1>1. CritterInv /\ [Next]_vars => CritterInv'
  BY FocusStep, TurnStep, HideStep, ReturnStep, TapStep, QuietStep DEF Next, Closures
<1> QED
  BY <1>1, CritterInitial, PTL DEF Spec

\* Every variable keeps its values, and a finished neutral animation is about a
\* head at rest (stopHeadRotation relies on it).
THEOREM TypeCorrect == Spec => []TypeOK
<1>1. CritterInv => TypeOK
  BY DEF CritterInv
<1> QED
  BY <1>1, CritterInvariant, PTL

\* With no closure pending the animal does what the edited field asks for,
\* however many fields were entered within 100 ms of each other.
THEOREM FocusIsShown == Spec => []FocusShown
<1>1. CritterInv => FocusShown
  BY DEF CritterInv
<1> QED
  BY <1>1, CritterInvariant, PTL

\* A password is visible only while a secret field is edited, or a closure that
\* hides it is pending, or a field was left in a hurry.
THEOREM PasswordSecret == Spec => []Secrecy
<1>1. CritterInv => Secrecy
  BY DEF CritterInv, ButtonGuarded, Secrecy
<1> QED
  BY <1>1, CritterInvariant, PTL

\* Without hurry the animal rests when nothing, and its head when a password, is
\* edited.
THEOREM RestsUnlessHurried == Spec => []RestUnlessHurried
<1>1. CritterInv => RestUnlessHurried
  BY DEF CritterInv
<1> QED
  BY <1>1, CritterInvariant, PTL
=============================================================================
