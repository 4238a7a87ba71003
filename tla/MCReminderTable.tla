--------------------------- MODULE MCReminderTable ---------------------------
(* ReminderTable with three reminders in any order, of which a search may  *)
(* find two, and with eleven reminders in one order.                       *)
EXTENDS ReminderTable
CONSTANTS r1, r2, r3
MCLists == UNION {{s \in [1..n -> {r1, r2, r3}] : Cardinality({s[i] : i \in 1..n}) = n} : n \in 0..3}
MCHits  == {{r1, r3}}
MCEleven == {[i \in 1..n |-> i] : n \in 0..11}
MCNothing == <<>>
=============================================================================
