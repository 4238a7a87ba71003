--------------------------- MODULE Selections_proofs ---------------------------
(***************************************************************************)
(* What a selection is, for every sequence and every set: its type, its    *)
(* length, and how it follows the sequence when that grows or loses its    *)
(* head.  Induction is over sets of naturals and of sequences, because a   *)
(* predicate cannot be instantiated.                                       *)
(***************************************************************************)
EXTENDS Selections, SequenceTheorems, WellFoundedInduction, NaturalsInduction, TLAPS

\* A set that has 0 and with every number the next one has them all.
LEMMA SetInduction ==
    ASSUME NEW S, 0 \in S, \A n \in Nat : n \in S => n + 1 \in S
    PROVE  Nat \subseteq S
<1> DEFINE R == {p \in Nat \X Nat : p[1] < p[2]}
<1> SUFFICES ASSUME Nat \ S # {} PROVE FALSE
  OBVIOUS
<1>1. IsWellFoundedOn(R, Nat)
  BY NatLessThanWellFounded, Zenon DEF OpToRel
<1>2. PICK n \in Nat \ S : \A m \in Nat \ S : ~ (<<m, n>> \in R)
  <2> HIDE DEF R
  <2> QED  BY <1>1, WFMin, Nat \ S \subseteq Nat
<1>3. n # 0 /\ n - 1 \in Nat
  OBVIOUS
<1>4. <<n - 1, n>> \in R
  BY <1>3
<1>5. n - 1 \in S
  BY <1>2, <1>3, <1>4
<1> QED  BY <1>3, <1>5, (n - 1) + 1 = n

\* Naturals, if there are any, have a least one.
LEMMA LeastExists ==
    ASSUME NEW S, S \subseteq Nat, S # {}
    PROVE  \E n \in S : \A m \in S : n <= m
<1> DEFINE R == {p \in Nat \X Nat : p[1] < p[2]}
<1>1. IsWellFoundedOn(R, Nat)
  BY NatLessThanWellFounded, Zenon DEF OpToRel
<1>2. PICK n \in S : \A m \in S : ~ (<<m, n>> \in R)
  <2> HIDE DEF R
  <2> QED  BY <1>1, WFMin
<1>3. ASSUME NEW m \in S PROVE n <= m
  BY <1>2, n \in Nat, m \in Nat, <<m, n>> \in Nat \X Nat
<1> QED  BY <1>3

\* g is the run of the recursion up to n.
Runs(g, n, s, S, T) ==
    /\ g \in [0..n -> Seq(T)]
    /\ g[0] = <<>>
    /\ \A i \in 1..n : g[i] = Extended(g[i - 1], s[i], S)

\* The recursion can be run for as long as there are elements.
LEMMA RunExists ==
    ASSUME NEW S, NEW T, NEW s \in Seq(T), NEW n \in 0..Len(s)
    PROVE  \E g : Runs(g, n, s, S, T)
<1> DEFINE P == {k \in Nat : k <= Len(s) => \E g : Runs(g, k, s, S, T)}
<1>1. 0 \in P
  <2>1. Runs([i \in 0..0 |-> <<>>], 0, s, S, T)
    BY DEF Runs
  <2> QED  BY <2>1
<1>2. ASSUME NEW k \in Nat, k \in P PROVE k + 1 \in P
  <2> SUFFICES ASSUME k + 1 <= Len(s) PROVE \E g : Runs(g, k + 1, s, S, T)
    OBVIOUS
  <2>1. PICK g : Runs(g, k, s, S, T)
    BY <1>2
  <2> DEFINE h == [i \in 0..k + 1 |-> IF i = k + 1 THEN Extended(g[k], s[k + 1], S) ELSE g[i]]
  <2>2. s[k + 1] \in T /\ g[k] \in Seq(T)
    BY <2>1, ElementOfSeq DEF Runs
  <2>3. Extended(g[k], s[k + 1], S) \in Seq(T)
    BY <2>2 DEF Extended
  <2>4. h \in [0..k + 1 -> Seq(T)]
    BY <2>1, <2>3 DEF Runs
  <2>5. ASSUME NEW i \in 1..k + 1 PROVE h[i] = Extended(h[i - 1], s[i], S)
    <3>1. h[i - 1] = g[i - 1] /\ i - 1 \in 0..k
      OBVIOUS
    <3>2. CASE i = k + 1
      <4>1. h[i] = Extended(g[k], s[k + 1], S) /\ i - 1 = k
        BY <3>2
      <4> QED  BY <3>1, <3>2, <4>1
    <3>3. CASE i \in 1..k
      <4>1. h[i] = g[i]
        BY <3>3
      <4> QED  BY <2>1, <3>1, <3>3, <4>1 DEF Runs
    <3> QED  BY <3>2, <3>3
  <2>6. h[0] = <<>>
    BY <2>1 DEF Runs
  <2>7. Runs(h, k + 1, s, S, T)
    BY <2>4, <2>5, <2>6 DEF Runs
  <2> QED  BY <2>7
<1>3. Nat \subseteq P
  <2> HIDE DEF P
  <2> QED  BY <1>1, <1>2, SetInduction
<1> QED  BY <1>3

\* The recursive function is such a run.
LEMMA OnlyUpToRuns ==
    ASSUME NEW S, NEW T, NEW s \in Seq(T)
    PROVE  Runs(OnlyUpTo(s, S), Len(s), s, S, T)
<1> DEFINE Body(f) == [i \in 0..Len(s) |-> IF i = 0 THEN <<>> ELSE Extended(f[i - 1], s[i], S)]
           F == OnlyUpTo(s, S)
<1>1. PICK g : Runs(g, Len(s), s, S, T)
  <2>1. Len(s) \in 0..Len(s)
    OBVIOUS
  <2> QED  BY <2>1, RunExists
<1>2. g = Body(g)
  <2>1. g = [i \in 0..Len(s) |-> g[i]] /\ g[0] = <<>>
    BY <1>1 DEF Runs
  <2>2. ASSUME NEW i \in 0..Len(s), i # 0 PROVE g[i] = Extended(g[i - 1], s[i], S)
    BY <1>1, <2>2 DEF Runs
  <2> QED  BY <2>1, <2>2
<1>3. F = Body(F)
  <2>1. F = CHOOSE f : f = Body(f)
    BY DEF OnlyUpTo
  <2> HIDE DEF F, Body
  <2> QED  BY <1>2, <2>1
<1> HIDE DEF F
<1>4. F[0] = <<>> /\ \A i \in 1..Len(s) : F[i] = Extended(F[i - 1], s[i], S)
  <2>1. ASSUME NEW i \in 0..Len(s) PROVE F[i] = IF i = 0 THEN <<>> ELSE Extended(F[i - 1], s[i], S)
    BY <1>3
  <2> QED  BY <2>1
<1>5. F = [i \in 0..Len(s) |-> F[i]]
  BY <1>3
<1> DEFINE P == {k \in Nat : k <= Len(s) => F[k] \in Seq(T)}
<1>6. 0 \in P
  <2>1. <<>> \in Seq(T)
    OBVIOUS
  <2> QED  BY <1>4, <2>1
<1>7. ASSUME NEW k \in Nat, k \in P PROVE k + 1 \in P
  <2> SUFFICES ASSUME k + 1 <= Len(s) PROVE F[k + 1] \in Seq(T)
    OBVIOUS
  <2>1. s[k + 1] \in T /\ F[k] \in Seq(T) /\ F[k + 1] = Extended(F[k], s[k + 1], S)
    BY <1>4, <1>7, ElementOfSeq
  <2> QED  BY <2>1 DEF Extended
<1>8. Nat \subseteq P
  <2> HIDE DEF P
  <2> QED  BY <1>6, <1>7, SetInduction
<1>9. F \in [0..Len(s) -> Seq(T)]
  BY <1>5, <1>8
<1>10. Runs(F, Len(s), s, S, T)
  BY <1>4, <1>9 DEF Runs
<1> QED  BY <1>10 DEF F

\* What the recursion computes, without the recursion.
LEMMA OnlyUnfolds ==
    ASSUME NEW S, NEW T, NEW s \in Seq(T)
    PROVE  \E g : /\ Runs(g, Len(s), s, S, T)
                  /\ Only(s, S) = g[Len(s)]
BY OnlyUpToRuns DEF Only

\* Two runs agree as far as the sequences do.
LEMMA RunIsUnique ==
    ASSUME NEW S, NEW T, NEW s \in Seq(T), NEW t \in Seq(T), NEW n \in 0..Len(s),
           n <= Len(t), \A i \in 1..n : s[i] = t[i],
           NEW m \in n..Len(s), NEW k \in n..Len(t),
           NEW g, NEW h, Runs(g, m, s, S, T), Runs(h, k, t, S, T)
    PROVE  \A i \in 0..n : g[i] = h[i]
<1> DEFINE P == {i \in Nat : i <= n => g[i] = h[i]}
<1>1. 0 \in P
  BY DEF Runs
<1>2. ASSUME NEW i \in Nat, i \in P PROVE i + 1 \in P
  <2> SUFFICES ASSUME i + 1 <= n PROVE g[i + 1] = h[i + 1]
    OBVIOUS
  <2>1. i + 1 \in 1..m /\ i + 1 \in 1..k /\ i + 1 \in 1..n /\ (i + 1) - 1 = i
    OBVIOUS
  <2>2. g[i + 1] = Extended(g[i], s[i + 1], S) /\ h[i + 1] = Extended(h[i], t[i + 1], S)
    BY <2>1 DEF Runs
  <2> QED  BY <1>2, <2>1, <2>2
<1>3. Nat \subseteq P
  <2> HIDE DEF P
  <2> QED  BY <1>1, <1>2, SetInduction
<1> QED  BY <1>3

\* Nothing comes of nothing.
LEMMA OnlyOfEmpty == ASSUME NEW S PROVE Only(<<>>, S) = <<>>
<1>1. PICK g : Runs(g, 0, <<>>, S, {}) /\ Only(<<>>, S) = g[0]
  BY OnlyUnfolds, <<>> \in Seq({}), Len(<<>>) = 0
<1> QED  BY <1>1 DEF Runs

\* One element more.
LEMMA OnlyOfAppend ==
    ASSUME NEW S, NEW T, NEW s \in Seq(T), NEW x \in T
    PROVE  Only(s \o <<x>>, S) = Extended(Only(s, S), x, S)
<1> DEFINE t == s \o <<x>>
           n == Len(s)
<1>1. t \in Seq(T) /\ Len(t) = n + 1 /\ t[n + 1] = x /\ \A i \in 1..n : s[i] = t[i]
  OBVIOUS
<1>2. n \in Nat
  OBVIOUS
<1> HIDE DEF t, n
<1>3. PICK g : Runs(g, n, s, S, T) /\ Only(s, S) = g[n]
  BY OnlyUnfolds DEF n
<1>4. PICK h : Runs(h, n + 1, t, S, T) /\ Only(t, S) = h[n + 1]
  BY OnlyUnfolds, <1>1
<1>5. \A i \in 0..n : g[i] = h[i]
  <2>1. n \in 0..Len(s) /\ n <= Len(t) /\ n \in n..Len(s) /\ n + 1 \in n..Len(t)
    BY <1>1, <1>2 DEF n
  <2>2. Runs(g, n, s, S, T) /\ Runs(h, n + 1, t, S, T)
    BY <1>3, <1>4
  <2>3. t \in Seq(T) /\ \A i \in 1..n : s[i] = t[i]
    BY <1>1
  <2> QED  BY <2>1, <2>2, <2>3, RunIsUnique
<1>6. h[n + 1] = Extended(h[n], t[n + 1], S)
  <2>1. n + 1 \in 1..n + 1 /\ (n + 1) - 1 = n
    BY <1>2
  <2> QED  BY <1>4, <2>1 DEF Runs
<1>7. h[n] = g[n]
  BY <1>2, <1>5
<1> QED  BY <1>1, <1>3, <1>4, <1>6, <1>7 DEF t

\* Every sequence that is not empty is another one and a last element.
LEMMA LastSplit ==
    ASSUME NEW T, NEW s \in Seq(T), s # <<>>
    PROVE  \E r \in Seq(T), x \in T : s = r \o <<x>> /\ Len(r) + 1 = Len(s)
<1>1. PICK n \in Nat : Len(s) = n
  OBVIOUS
<1>2. n >= 1 /\ \A i \in 1..n : s[i] \in T
  BY <1>1
<1> DEFINE r == SubSeq(s, 1, n - 1)
<1>3. r \in Seq(T) /\ Len(r) = n - 1 /\ \A i \in 1..n - 1 : r[i] = s[i]
  <2>1. \A i \in 1..n - 1 : s[i] \in T
    BY <1>2
  <2>2. /\ r \in Seq(T)
        /\ Len(r) = IF 1 <= n - 1 THEN n - 1 - 1 + 1 ELSE 0
        /\ \A i \in 1..n - 1 - 1 + 1 : r[i] = s[1 + i - 1]
    BY <2>1, SubSeqProperties, 1 \in Int, n - 1 \in Int
  <2> HIDE DEF r
  <2> QED  BY <1>2, <2>2
<1> HIDE DEF r
<1>4. s[n] \in T
  BY <1>2
<1>5. PICK q : q = r \o <<s[n]>>
  OBVIOUS
<1>6. q \in Seq(T) /\ Len(q) = n /\ \A i \in 1..n : q[i] = s[i]
  BY <1>2, <1>3, <1>4, <1>5
<1>7. q = s
  BY <1>1, <1>6, SeqEqual
<1>8. Len(r) + 1 = Len(s)
  BY <1>1, <1>3
<1> QED  BY <1>3, <1>4, <1>5, <1>7, <1>8

\* Induction over sequences, with a set for the hypothesis.
LEMMA SeqInduction ==
    ASSUME NEW T, NEW P, <<>> \in P,
           \A s \in Seq(T), x \in T : s \in P => s \o <<x>> \in P
    PROVE  Seq(T) \subseteq P
<1> DEFINE N == {n \in Nat : \A s \in Seq(T) : Len(s) = n => s \in P}
<1>1. 0 \in N
  OBVIOUS
<1>2. ASSUME NEW n \in Nat, n \in N PROVE n + 1 \in N
  <2> SUFFICES ASSUME NEW s \in Seq(T), Len(s) = n + 1 PROVE s \in P
    OBVIOUS
  <2>1. PICK r \in Seq(T), x \in T : s = r \o <<x>> /\ Len(r) + 1 = Len(s)
    <3>1. s # <<>>
      OBVIOUS
    <3> HIDE DEF N
    <3> QED  BY <3>1, LastSplit
  <2>2. Len(r) = n
    BY <2>1
  <2> QED  BY <1>2, <2>1, <2>2
<1>3. Nat \subseteq N
  <2> HIDE DEF N
  <2> QED  BY <1>1, <1>2, SetInduction
<1> QED  BY <1>3

\* A selection has the elements of the sequence that are in the set.
LEMMA OnlyIsSeq ==
    ASSUME NEW S, NEW T, NEW s \in Seq(T)
    PROVE  Only(s, S) \in Seq(T \cap S) /\ Len(Only(s, S)) <= Len(s)
<1> DEFINE P == {q \in Seq(T) : Only(q, S) \in Seq(T \cap S) /\ Len(Only(q, S)) <= Len(q)}
<1>1. <<>> \in P
  <2>1. Only(<<>>, S) = <<>>
    BY OnlyOfEmpty
  <2>2. <<>> \in Seq(T) /\ <<>> \in Seq(T \cap S) /\ Len(<<>>) <= Len(<<>>)
    OBVIOUS
  <2>3. Only(<<>>, S) \in Seq(T \cap S) /\ Len(Only(<<>>, S)) <= Len(<<>>)
    BY <2>1, <2>2
  <2> QED  BY <2>2, <2>3
<1>2. ASSUME NEW q \in Seq(T), NEW x \in T, q \in P PROVE q \o <<x>> \in P
  <2>1. Only(q \o <<x>>, S) = Extended(Only(q, S), x, S)
    BY OnlyOfAppend
  <2>2. PICK u \in Seq(T \cap S) : u = Only(q, S) /\ Len(u) <= Len(q)
    BY <1>2
  <2>3. q \o <<x>> \in Seq(T) /\ Len(q \o <<x>>) = Len(q) + 1
    OBVIOUS
  <2>4. x \in S => u \o <<x>> \in Seq(T \cap S) /\ Len(u \o <<x>>) = Len(u) + 1
    OBVIOUS
  <2>5. Extended(u, x, S) \in Seq(T \cap S) /\ Len(Extended(u, x, S)) <= Len(q \o <<x>>)
    <3>1. Len(u) \in Nat /\ Len(q) \in Nat
      OBVIOUS
    <3>2. CASE x \in S
      <4>1. Extended(u, x, S) = u \o <<x>>
        BY <3>2 DEF Extended
      <4>2. Len(u) + 1 <= Len(q) + 1
        BY <2>2, <3>1
      <4> QED  BY <2>3, <2>4, <3>2, <4>1, <4>2
    <3>3. CASE x \notin S
      <4>1. Extended(u, x, S) = u
        BY <3>3 DEF Extended
      <4>2. Len(u) <= Len(q) + 1
        BY <2>2, <3>1
      <4> QED  BY <2>3, <4>1, <4>2
    <3> QED  BY <3>2, <3>3
  <2> QED  BY <2>1, <2>2, <2>3, <2>5
<1>3. Seq(T) \subseteq P
  <2> HIDE DEF P
  <2> QED  BY <1>1, <1>2, SeqInduction
<1> QED  BY <1>3

\* A selection of two parts is the two selections.
LEMMA OnlyOfConcat ==
    ASSUME NEW S, NEW T, NEW s \in Seq(T), NEW t \in Seq(T)
    PROVE  Only(s \o t, S) = Only(s, S) \o Only(t, S)
<1> DEFINE P == {q \in Seq(T) : Only(s \o q, S) = Only(s, S) \o Only(q, S)}
<1>1. <<>> \in P
  <2>1. s \o <<>> = s /\ Only(s, S) \o <<>> = Only(s, S)
    BY OnlyIsSeq, ConcatEmptySeq
  <2>2. Only(<<>>, S) = <<>> /\ <<>> \in Seq(T)
    BY OnlyOfEmpty
  <2> QED  BY <2>1, <2>2
<1>2. ASSUME NEW q \in Seq(T), NEW x \in T, q \in P PROVE q \o <<x>> \in P
  <2>1. s \o (q \o <<x>>) = (s \o q) \o <<x>> /\ s \o q \in Seq(T)
    OBVIOUS
  <2>2. Only((s \o q) \o <<x>>, S) = Extended(Only(s \o q, S), x, S)
    BY <2>1, OnlyOfAppend
  <2>3. Only(q \o <<x>>, S) = Extended(Only(q, S), x, S)
    BY OnlyOfAppend
  <2>4. Extended(Only(s, S) \o Only(q, S), x, S) = Only(s, S) \o Extended(Only(q, S), x, S)
    <3>1. Only(s, S) \in Seq(T \cap S) /\ Only(q, S) \in Seq(T \cap S)
      BY OnlyIsSeq
    <3>2. CASE x \in S
      <4>1. <<x>> \in Seq(T \cap S)
        BY <3>2
      <4> QED  BY <3>1, <3>2, <4>1, ConcatAssociative DEF Extended
    <3> QED  BY <3>1, <3>2 DEF Extended
  <2>5. Only(s \o q, S) = Only(s, S) \o Only(q, S) /\ q \o <<x>> \in Seq(T)
    BY <1>2
  <2>6. Only(s \o (q \o <<x>>), S) = Only(s, S) \o Only(q \o <<x>>, S)
    BY <2>1, <2>2, <2>3, <2>4, <2>5
  <2> QED  BY <2>5, <2>6
<1>3. Seq(T) \subseteq P
  <2> HIDE DEF P
  <2> QED  BY <1>1, <1>2, SeqInduction
<1> QED  BY <1>3

\* An element is selected or not.
LEMMA OnlyOfOne ==
    ASSUME NEW S, NEW x
    PROVE  Only(<<x>>, S) = IF x \in S THEN <<x>> ELSE <<>>
<1>1. <<>> \in Seq({x}) /\ <<>> \o <<x>> = <<x>> /\ x \in {x}
  OBVIOUS
<1>2. Only(<<>> \o <<x>>, S) = Extended(Only(<<>>, S), x, S)
  BY <1>1, OnlyOfAppend
<1> QED  BY <1>1, <1>2, OnlyOfEmpty DEF Extended

\* The head goes, and its place in the selection with it.
LEMMA OnlyOfTail ==
    ASSUME NEW S, NEW T, NEW s \in Seq(T), s # <<>>
    PROVE  Only(s, S) = (IF Head(s) \in S THEN <<Head(s)>> ELSE <<>>) \o Only(Tail(s), S)
<1>1. s = <<Head(s)>> \o Tail(s) /\ Head(s) \in T /\ Tail(s) \in Seq(T) /\ <<Head(s)>> \in Seq(T)
  OBVIOUS
<1>2. Only(<<Head(s)>> \o Tail(s), S) = Only(<<Head(s)>>, S) \o Only(Tail(s), S)
  BY <1>1, OnlyOfConcat
<1>3. Only(<<Head(s)>>, S) = IF Head(s) \in S THEN <<Head(s)>> ELSE <<>>
  BY OnlyOfOne
<1> QED  BY <1>1, <1>2, <1>3

\* Nothing is selected where nothing is in the set.
LEMMA OnlyOfNone ==
    ASSUME NEW S, NEW T, NEW s \in Seq(T), T \cap S = {}
    PROVE  Only(s, S) = <<>>
<1>1. Only(s, S) \in Seq({})
  BY OnlyIsSeq
<1> QED  BY <1>1

\* Everything is selected where all is in the set.
LEMMA OnlyOfAll ==
    ASSUME NEW S, NEW T, NEW s \in Seq(T), T \subseteq S
    PROVE  Only(s, S) = s
<1> DEFINE P == {q \in Seq(T) : Only(q, S) = q}
<1>1. <<>> \in P
  BY OnlyOfEmpty
<1>2. ASSUME NEW q \in Seq(T), NEW x \in T, q \in P PROVE q \o <<x>> \in P
  <2>1. Only(q \o <<x>>, S) = Extended(Only(q, S), x, S) /\ q \o <<x>> \in Seq(T)
    BY OnlyOfAppend
  <2> QED  BY <1>2, <2>1 DEF Extended
<1>3. Seq(T) \subseteq P
  <2> HIDE DEF P
  <2> QED  BY <1>1, <1>2, SeqInduction
<1> QED  BY <1>3

\* How many are selected: one element less,
LEMMA OnlyLenTail ==
    ASSUME NEW S, NEW T, NEW s \in Seq(T), s # <<>>
    PROVE  \E n \in Nat : /\ Len(Only(Tail(s), S)) = n
                          /\ Len(Only(s, S)) = IF Head(s) \in S THEN n + 1 ELSE n
<1>1. Tail(s) \in Seq(T) /\ Head(s) \in T
  BY HeadTailProperties
<1>2. PICK r \in Seq(T \cap S) : r = Only(Tail(s), S)
  BY <1>1, OnlyIsSeq
<1>3. PICK n \in Nat : Len(r) = n
  BY LenProperties
<1>4. Only(s, S) = (IF Head(s) \in S THEN <<Head(s)>> ELSE <<>>) \o r
  BY <1>2, OnlyOfTail
<1>5. CASE Head(s) \in S
  <2>1. Only(s, S) = <<Head(s)>> \o r /\ <<Head(s)>> \in Seq(T \cap S) /\ Len(<<Head(s)>>) = 1
    BY <1>1, <1>4, <1>5
  <2>2. Len(Only(s, S)) = 1 + n
    BY <1>3, <2>1, ConcatProperties
  <2> QED  BY <1>2, <1>3, <1>5, <2>2
<1>6. CASE Head(s) \notin S
  <2>1. Only(s, S) = r
    BY <1>4, <1>6, ConcatEmptySeq
  <2> QED  BY <1>2, <1>3, <1>6, <2>1
<1> QED  BY <1>5, <1>6

\* one element more,
LEMMA OnlyLenAppend ==
    ASSUME NEW S, NEW T, NEW s \in Seq(T), NEW x \in T
    PROVE  \E n \in Nat : /\ Len(Only(s, S)) = n
                          /\ Len(Only(Append(s, x), S)) = IF x \in S THEN n + 1 ELSE n
<1>1. PICK r \in Seq(T \cap S) : r = Only(s, S)
  BY OnlyIsSeq
<1>2. PICK n \in Nat : Len(r) = n
  BY LenProperties
<1>3. Append(s, x) = s \o <<x>>
  BY AppendIsConcat
<1>4. Only(Append(s, x), S) = IF x \in S THEN r \o <<x>> ELSE r
  <2>1. Only(s \o <<x>>, S) = Extended(Only(s, S), x, S)
    BY OnlyOfAppend
  <2> QED  BY <1>1, <1>3, <2>1, Zenon DEF Extended
<1>5. x \in S => Len(r \o <<x>>) = n + 1
  <2>1. x \in S => <<x>> \in Seq(T \cap S) /\ Len(<<x>>) = 1
    OBVIOUS
  <2> QED  BY <1>2, <2>1, ConcatProperties
<1> QED  BY <1>1, <1>2, <1>4, <1>5

\* and copies of one that is not selected.
LEMMA OnlyIgnoresCopies ==
    ASSUME NEW S, NEW T, NEW s \in Seq(T), NEW e \in T, e \notin S, NEW n \in Nat
    PROVE  Only(s \o [i \in 1..n |-> e], S) = Only(s, S)
<1> DEFINE t == [i \in 1..n |-> e]
<1>1. t \in Seq({e}) /\ t \in Seq(T) /\ {e} \cap S = {}
  OBVIOUS
<1> HIDE DEF t
<1>2. Only(t, S) = <<>>
  BY <1>1, OnlyOfNone
<1>3. Only(s \o t, S) = Only(s, S) \o Only(t, S)
  BY <1>1, OnlyOfConcat
<1>4. Only(s, S) \in Seq(T \cap S)
  BY OnlyIsSeq
<1> QED  BY <1>2, <1>3, <1>4, ConcatEmptySeq DEF t
=============================================================================
