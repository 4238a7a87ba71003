------------------------------ MODULE Selections ------------------------------
(***************************************************************************)
(* The elements of a sequence that lie in a set, in their order: SelectSeq *)
(* with a set for its test, as a recursive function over the positions,    *)
(* which the provers can unfold.                                           *)
(***************************************************************************)
EXTENDS Naturals, Sequences

ElementsOf(s) == {s[i] : i \in DOMAIN s}

\* t, and x if it is selected.
Extended(t, x, S) == IF x \in S THEN t \o <<x>> ELSE t

\* What is selected among the first i elements.
OnlyUpTo(s, S) ==
    LET f[i \in 0..Len(s)] == IF i = 0 THEN <<>> ELSE Extended(f[i - 1], s[i], S)
    IN  f

\* The elements of s that are in S.
Only(s, S) == OnlyUpTo(s, S)[Len(s)]
=============================================================================
