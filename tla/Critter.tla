------------------------------- MODULE Critter -------------------------------
(***************************************************************************)
(* The animal over the Login and the Signup form.  It turns its head to a  *)
(* plain field, covers its eyes at a secret one, and rests otherwise; with *)
(* it go the button that shows the password and the password's secrecy.    *)
(* What a field asks for happens 100 ms after it is entered, in a closure  *)
(* that does not look whether the field is still being edited; what        *)
(* leaving a field undoes is undone at once.                               *)
(*                                                                         *)
(* A state is where the animations lead to.  How far the head turns and    *)
(* what the mouth does follow from the text and are left out.              *)
(***************************************************************************)
EXTENDS Naturals, Sequences

CONSTANT MaxPending    \* bound: fields entered within 100 ms

ASSUME MaxPendingAssumption == MaxPending \in Nat

VARIABLES
    screen,     \* "Login" or "Signup"
    focus,      \* the field that is being edited
    pending,    \* the delayed closures, oldest first, by what they do
    shy,        \* critterView.isShy
    visible,    \* the password is not secure, the button selected, the animal peeks
    hidden,     \* showHidePasswordButton.isHidden
    head,       \* where the head is or is going
    neutral,    \* the neutral animation: none, active, or done with
    hurried     \* ghost: a field was left before it had its way

formVars    == <<screen, focus, pending>>
critterVars == <<shy, visible, hidden, head, neutral>>
vars        == <<formVars, critterVars, hurried>>

Plain  == IF screen = "Login" THEN {"email"} ELSE {"name", "email"}
Secret == IF screen = "Login" THEN {"password"} ELSE {"password", "confirm"}
Fields == Plain \cup Secret

Hurry == hurried' = (hurried \/ pending # <<>>)

-----------------------------------------------------------------------------
(* CritterView.                                                            *)

\* Slip: the finished neutral animation is kept.
StartHeadRotationOverNeutral ==
    /\ head' = "turned"
    /\ UNCHANGED neutral

StartHeadRotation ==
    /\ head' = "turned"
    /\ neutral' = "none"

\* A neutral animation that is done makes a second one unnecessary.
StopHeadRotation ==
    IF neutral = "done" THEN UNCHANGED <<head, neutral>>
    ELSE head' = "rest" /\ neutral' = "active"

NeutralEnds ==
    /\ neutral = "active"
    /\ neutral' = "done"
    /\ UNCHANGED <<formVars, shy, visible, hidden, head, hurried>>

-----------------------------------------------------------------------------
(* The form.                                                               *)

\* Slip: the password stays as it was shown.
PasswordDidResignAsFirstResponderShown ==
    /\ shy' = FALSE /\ hidden' = TRUE
    /\ UNCHANGED visible

PasswordDidResignAsFirstResponder == shy' = FALSE /\ visible' = FALSE /\ hidden' = TRUE

\* The field that was edited ends first, which matters only to a plain one.
Focus(f) ==
    /\ f \in Fields \ {focus}
    /\ Len(pending) < MaxPending
    /\ IF focus \in Plain THEN StopHeadRotation ELSE UNCHANGED <<head, neutral>>
    /\ focus' = f
    /\ pending' = Append(pending, IF f \in Plain THEN "turn" ELSE "hide")
    /\ Hurry
    /\ UNCHANGED <<screen, shy, visible, hidden>>

\* Slip: a closure that turns the head leaves the password alone.
TurnClosureOnly ==
    /\ pending # <<>> /\ Head(pending) = "turn"
    /\ StartHeadRotation
    /\ pending' = Tail(pending)
    /\ UNCHANGED <<screen, focus, shy, visible, hidden, hurried>>

TurnClosure ==
    /\ pending # <<>> /\ Head(pending) = "turn"
    /\ StartHeadRotation
    /\ PasswordDidResignAsFirstResponder
    /\ pending' = Tail(pending)
    /\ UNCHANGED <<screen, focus, hurried>>

HideClosure ==
    /\ pending # <<>> /\ Head(pending) = "hide"
    /\ shy' = TRUE /\ hidden' = FALSE
    /\ pending' = Tail(pending)
    /\ UNCHANGED <<screen, focus, visible, head, neutral, hurried>>

\* The Return key resigns the password field and no other.
TextFieldShouldReturn ==
    \/ focus = "email" /\ Focus("password")
    \/ /\ focus \in Fields \ {"email"}
       /\ focus' = IF focus = "password" THEN "none" ELSE focus
       /\ PasswordDidResignAsFirstResponder
       /\ Hurry
       /\ UNCHANGED <<screen, pending, head, neutral>>

\* A tap beside the fields, or the app's going to the background: the email and
\* the password field are resigned, Signup's other two are not.
HandleTap ==
    /\ focus' = IF focus \in {"email", "password"} THEN "none" ELSE focus
    /\ StopHeadRotation
    /\ PasswordDidResignAsFirstResponder
    /\ hurried' = (pending # <<>>)
    /\ UNCHANGED <<screen, pending>>

TogglePasswordVisibility ==
    /\ ~hidden
    /\ visible' = ~visible
    /\ UNCHANGED <<formVars, shy, hidden, head, neutral, hurried>>

-----------------------------------------------------------------------------
Init ==
    /\ screen \in {"Login", "Signup"} /\ focus = "none" /\ pending = <<>>
    /\ shy = FALSE /\ visible = FALSE /\ hidden = TRUE
    /\ head = "rest" /\ neutral = "none" /\ hurried = FALSE

Closures == TurnClosure \/ HideClosure

Next == \/ \E f \in Fields : Focus(f)
        \/ TextFieldShouldReturn \/ HandleTap \/ TogglePasswordVisibility
        \/ Closures \/ NeutralEnds

Spec == Init /\ [][Next]_vars
-----------------------------------------------------------------------------
(* Properties.                                                             *)

\* Every variable keeps its values, and a neutral animation is about a head at
\* rest: the one that is done with is no reason to leave a head turned.
TypeOK ==
    /\ screen \in {"Login", "Signup"} /\ focus \in Fields \cup {"none"}
    /\ pending \in Seq({"turn", "hide"})
    /\ shy \in BOOLEAN /\ visible \in BOOLEAN /\ hidden \in BOOLEAN /\ hurried \in BOOLEAN
    /\ head \in {"rest", "turned"} /\ neutral \in {"none", "active", "done"}
    /\ neutral # "none" => head = "rest"

\* When the closures have run, the animal does what the field being edited asks
\* for, in whatever order fields were entered and left before.  Signup's name
\* and confirmation fields keep the focus through a tap or a Return, and may
\* find the animal at rest.
FocusShown ==
    pending = <<>> =>
        /\ focus = "email"    => head = "turned" /\ ~shy /\ ~visible /\ hidden
        /\ focus = "name"     => ~shy /\ ~visible /\ hidden
        /\ focus = "password" => shy /\ ~hidden

\* A password is visible only while a secret field is edited, or until the
\* closure of the plain field entered since has run, unless a secret field was
\* left before its own closure, which then shows the button to nobody.
Secrecy ==
    visible => \/ focus \in Secret
               \/ \E i \in DOMAIN pending : pending[i] = "turn"
               \/ hurried

\* Without hurry the animal comes to rest: head and eyes when nothing is edited,
\* the head when a password is.
RestUnlessHurried ==
    pending = <<>> /\ ~hurried =>
        /\ focus = "none" => head = "rest" /\ ~shy /\ ~visible /\ hidden
        /\ focus \in Secret => head = "rest"
=============================================================================
