-------------------------- MODULE DownloadBatches --------------------------
(***************************************************************************)
(* What the Concurrency project's two buttons promise, each press by       *)
(* itself: a press asks for every image, the downloads end in any order,   *)
(* and the press is answered once, when none of its own is left.           *)
(***************************************************************************)
EXTENDS Naturals

CONSTANTS
    Slots,        \* the images asked for
    MaxPresses    \* bound: presses of either button

VARIABLES
    remaining,    \* remaining[b]: the images press b still waits for
    answer        \* answer[b]: "none" before the press, then "due", then "given"

Presses == 1..MaxPresses

Init ==
    /\ remaining = [b \in Presses |-> {}]
    /\ answer = [b \in Presses |-> "none"]

Start(b) ==
    /\ answer[b] = "none"
    /\ answer' = [answer EXCEPT ![b] = "due"]
    /\ remaining' = [remaining EXCEPT ![b] = Slots]

End(b, i) ==
    /\ i \in remaining[b]
    /\ remaining' = [remaining EXCEPT ![b] = @ \ {i}]
    /\ UNCHANGED answer

Answer(b) ==
    /\ answer[b] = "due"
    /\ remaining[b] = {}
    /\ answer' = [answer EXCEPT ![b] = "given"]
    /\ UNCHANGED remaining

Next == \E b \in Presses : Start(b) \/ (\E i \in Slots : End(b, i)) \/ Answer(b)

Spec == Init /\ [][Next]_<<remaining, answer>>
=============================================================================
