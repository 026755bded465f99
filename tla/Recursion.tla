------------------------------- MODULE Recursion -------------------------------
(***************************************************************************)
(* Induction over the natural numbers, and functions defined by recursion  *)
(* on an interval, as facts about sets and functions.  They come from the  *)
(* well-founded order of the naturals: what has no least counterexample    *)
(* has none.                                                               *)
(***************************************************************************)
EXTENDS Naturals, Sequences, SequencesExt, SequenceTheorems,
        WellFoundedInduction, TLAPS

\* A set of natural numbers that is not empty has a least member.
LEMMA LeastMember ==
    ASSUME NEW S \in SUBSET Nat, S # {}
    PROVE  \E x \in S : \A y \in S : x <= y
  <1>1. PICK x \in S : \A y \in S : ~(<<y, x>> \in OpToRel(<, Nat))
    BY NatLessThanWellFounded, WFMin, Zenon
  <1>2. \A y \in S : ~(y < x)
    BY <1>1, Zenon DEF OpToRel
  <1> QED BY <1>2

\* A set that has 0, and n + 1 with every n, has every natural number.
LEMMA Induction ==
    ASSUME NEW S, 0 \in S, \A n \in Nat : n \in S => n + 1 \in S
    PROVE  \A n \in Nat : n \in S
  <1> SUFFICES ASSUME Nat \ S # {} PROVE FALSE
    OBVIOUS
  <1>1. PICK x \in Nat \ S : \A y \in Nat \ S : x <= y
    BY LeastMember
  <1>2. x # 0
    OBVIOUS
  <1>3. x - 1 \in Nat /\ ~(x <= x - 1)
    BY <1>2
  <1>4. x - 1 \in S
    BY <1>1, <1>3
  <1>5. (x - 1) + 1 = x
    OBVIOUS
  <1> QED BY <1>3, <1>4, <1>5

\* The same up to a bound.
LEMMA BoundedInduction ==
    ASSUME NEW N \in Nat, NEW S, 0 \in S, \A n \in 1..N : n - 1 \in S => n \in S
    PROVE  \A n \in 0..N : n \in S
  <1> DEFINE T == {n \in Nat : n <= N => n \in S}
  <1>1. 0 \in T
    OBVIOUS
  <1>2. ASSUME NEW n \in Nat, n \in T
        PROVE  n + 1 \in T
    <2> SUFFICES ASSUME n + 1 <= N PROVE n + 1 \in S
      OBVIOUS
    <2>1. n + 1 \in 1..N /\ (n + 1) - 1 = n /\ n <= N
      OBVIOUS
    <2>2. n \in S
      BY <1>2, <2>1
    <2> QED BY <2>1, <2>2
  <1> HIDE DEF T
  <1>3. \A n \in Nat : n \in T
    BY <1>1, <1>2, Induction
  <1> QED BY <1>3 DEF T

\* The function f has the first value a, and G makes each of its next n values
\* from the one before.
Recurses(f, X, a, G, n) ==
    /\ f \in [0..n -> X]
    /\ f[0] = a
    /\ \A k \in 1..n : f[k] = G[<<k, f[k - 1]>>]

\* From a first value and a step, a function.
LEMMA RecursionExists ==
    ASSUME NEW X, NEW a \in X, NEW N \in Nat, NEW G \in [(1..N) \X X -> X]
    PROVE  \E f : Recurses(f, X, a, G, N)
  <1> DEFINE S == {n \in 0..N : \E f : Recurses(f, X, a, G, n)}
  <1>1. 0 \in S
    <2>1. Recurses([i \in 0..0 |-> a], X, a, G, 0)
      BY DEF Recurses
    <2> QED BY <2>1
  <1>2. ASSUME NEW n \in 1..N, n - 1 \in S
        PROVE  n \in S
    <2>1. PICK f : Recurses(f, X, a, G, n - 1)
      BY <1>2
    <2> DEFINE g == [i \in 0..n |-> IF i = n THEN G[<<n, f[n - 1]>>] ELSE f[i]]
    <2>2. n - 1 \in 0..(n - 1) /\ n - 1 \in Nat
      OBVIOUS
    <2>3. f[n - 1] \in X
      BY <2>1, <2>2 DEF Recurses
    <2>4. G[<<n, f[n - 1]>>] \in X
      BY <2>3
    <2>5. g \in [0..n -> X]
      BY <2>1, <2>4 DEF Recurses
    <2>6. g[0] = a
      BY <2>1 DEF Recurses
    <2>7. ASSUME NEW k \in 1..n
          PROVE  g[k] = G[<<k, g[k - 1]>>]
      <3>1. g[k - 1] = f[k - 1]
        OBVIOUS
      <3>2. CASE k = n
        BY <3>1, <3>2
      <3>3. CASE k # n
        <4>1. k \in 1..(n - 1) /\ g[k] = f[k]
          BY <3>3
        <4> QED BY <2>1, <3>1, <4>1 DEF Recurses
      <3> QED BY <3>2, <3>3
    <2>8. Recurses(g, X, a, G, n)
      BY <2>5, <2>6, <2>7 DEF Recurses
    <2> HIDE DEF g
    <2>9. n \in 0..N /\ \E h : Recurses(h, X, a, G, n)
      BY <2>8
    <2> QED BY <2>9
  <1> HIDE DEF S
  <1>3. N \in S
    BY <1>1, <1>2, BoundedInduction
  <1> QED BY <1>3 DEF S

\* What satisfies the recurrence where its values are in X has all of them there.
LEMMA RecurrenceHolds ==
    ASSUME NEW X, NEW a \in X, NEW N \in Nat, NEW G \in [(1..N) \X X -> X], NEW h,
           h = [k \in 0..N |-> h[k]], h[0] = a,
           \A k \in 1..N : h[k - 1] \in X => h[k] = G[<<k, h[k - 1]>>]
    PROVE  Recurses(h, X, a, G, N)
  <1> DEFINE T == {k \in 0..N : h[k] \in X}
  <1>1. 0 \in T
    OBVIOUS
  <1>2. ASSUME NEW k \in 1..N, k - 1 \in T
        PROVE  k \in T
    <2>1. h[k - 1] \in X
      BY <1>2
    <2>2. h[k] = G[<<k, h[k - 1]>>] /\ <<k, h[k - 1]>> \in (1..N) \X X
      BY <2>1
    <2> QED BY <2>2
  <1> HIDE DEF T
  <1>3. \A k \in 0..N : k \in T
    BY <1>1, <1>2, BoundedInduction, Zenon
  <1>4. \A k \in 0..N : h[k] \in X
    BY <1>3 DEF T
  <1>5. h \in [0..N -> X]
    BY <1>4
  <1>6. ASSUME NEW k \in 1..N
        PROVE  h[k] = G[<<k, h[k - 1]>>]
    <2>1. k - 1 \in 0..N
      OBVIOUS
    <2> QED BY <1>4, <2>1
  <1> QED BY <1>5, <1>6 DEF Recurses

-----------------------------------------------------------------------------
(* FlattenSeq *)

\* What FlattenSeq computes: one sequence after the other.
LEMMA Flattens ==
    ASSUME NEW S, NEW s \in Seq(Seq(S))
    PROVE  \E f \in [0..Len(s) -> Seq(S)] :
              /\ f[0] = <<>>
              /\ \A k \in 1..Len(s) : f[k] = f[k - 1] \o s[k]
              /\ FlattenSeq(s) = f[Len(s)]
  <1> DEFINE N == Len(s)
             G == [p \in (1..N) \X Seq(S) |-> p[2] \o s[p[1]]]
             Is(h) == h = [i \in 1..N |-> IF i = 1 THEN s[i] ELSE h[i - 1] \o s[i]]
             flatten == CHOOSE h : Is(h)
  <1>1. N \in Nat /\ \A k \in 1..N : s[k] \in Seq(S)
    OBVIOUS
  <1>2. G \in [(1..N) \X Seq(S) -> Seq(S)]
    BY <1>1
  <1>3. <<>> \in Seq(S)
    OBVIOUS
  <1> HIDE DEF N
  <1>4. PICK f : Recurses(f, Seq(S), <<>>, G, N)
    <2> HIDE DEF G
    <2> QED BY <1>1, <1>2, <1>3, RecursionExists, Zenon
  <1>5. /\ f \in [0..N -> Seq(S)] /\ f[0] = <<>>
        /\ \A k \in 1..N : f[k] = f[k - 1] \o s[k]
    <2>1. /\ f \in [0..N -> Seq(S)] /\ f[0] = <<>>
          /\ \A k \in 1..N : f[k] = G[<<k, f[k - 1]>>]
      <3> HIDE DEF G
      <3> QED BY <1>4 DEF Recurses
    <2>2. ASSUME NEW k \in 1..N
          PROVE  f[k] = f[k - 1] \o s[k]
      <3>1. k - 1 \in 0..N
        BY <1>1
      <3>2. f[k - 1] \in Seq(S)
        BY <2>1, <3>1
      <3>3. <<k, f[k - 1]>> \in (1..N) \X Seq(S)
        BY <3>2
      <3> QED BY <2>1, <3>3
    <2> QED BY <2>1, <2>2
  <1>6. Is([i \in 1..N |-> f[i]])
    <2> DEFINE h == [i \in 1..N |-> f[i]]
    <2>1. ASSUME NEW i \in 1..N
          PROVE  h[i] = IF i = 1 THEN s[i] ELSE h[i - 1] \o s[i]
      <3>1. f[i] = f[i - 1] \o s[i] /\ s[i] \in Seq(S)
        BY <1>1, <1>5
      <3>2. CASE i = 1
        <4>1. f[i - 1] = <<>>
          BY <1>5, <3>2
        <4>2. <<>> \o s[i] = s[i]
          BY <3>1
        <4> QED BY <3>1, <3>2, <4>1, <4>2
      <3>3. CASE i # 1
        <4>1. i - 1 \in 1..N
          BY <1>1, <3>3
        <4> QED BY <3>1, <3>3, <4>1
      <3> QED BY <3>2, <3>3
    <2> QED BY <2>1
  <1> HIDE DEF Is
  <1>7. Is(flatten)
    BY <1>6
  <1> HIDE DEF flatten
  <1>8. flatten = [i \in 1..N |-> IF i = 1 THEN s[i] ELSE flatten[i - 1] \o s[i]]
    BY <1>7 DEF Is
  <1> DEFINE g == [i \in 0..N |-> IF i = 0 THEN <<>> ELSE flatten[i]]
             T == {k \in 0..N : f[k] = g[k]}
  <1>9. \A k \in 0..N : k \in T
    <2>1. 0 \in T
      BY <1>1, <1>5
    <2>2. ASSUME NEW k \in 1..N, k - 1 \in T
          PROVE  k \in T
      <3>1. f[k] = f[k - 1] \o s[k] /\ s[k] \in Seq(S) /\ f[k - 1] = g[k - 1]
        BY <1>1, <1>5, <2>2
      <3>2. g[k] = flatten[k] /\ k \in 0..N
        BY <1>1
      <3>3. CASE k = 1
        <4>1. f[k - 1] = <<>> /\ flatten[k] = s[k]
          BY <1>5, <1>8, <3>3
        <4>2. <<>> \o s[k] = s[k]
          BY <3>1
        <4> QED BY <3>1, <3>2, <4>1, <4>2
      <3>4. CASE k # 1
        <4>1. g[k - 1] = flatten[k - 1]
          BY <1>1, <3>4
        <4>2. flatten[k] = flatten[k - 1] \o s[k]
          BY <1>8, <3>4
        <4> QED BY <3>1, <3>2, <4>1, <4>2
      <3> QED BY <3>3, <3>4
    <2>3. N \in Nat
      BY <1>1
    <2> HIDE DEF T
    <2> QED BY <2>1, <2>2, <2>3, BoundedInduction, Zenon
  <1>10. FlattenSeq(s) = IF N = 0 THEN s ELSE flatten[N]
    BY Zenon DEF FlattenSeq, flatten, Is, N
  <1>11. FlattenSeq(s) = f[N]
    <2>1. CASE N = 0
      <3>1. s = <<>>
        BY <2>1 DEF N
      <3> QED BY <1>5, <1>10, <2>1, <3>1
    <2>2. CASE N # 0
      <3>1. N \in 1..N
        BY <1>1, <2>2
      <3>2. g[N] = flatten[N]
        BY <1>1, <2>2
      <3>3. g[N] = f[N]
        BY <1>1, <1>9
      <3> QED BY <1>10, <2>2, <3>2, <3>3
    <2> QED BY <2>1, <2>2
  <1> QED BY <1>5, <1>11 DEF N

\* So the first sequence can be taken off, ...
LEMMA FlattenHead ==
    ASSUME NEW S
    PROVE  \A d \in Seq(S), n \in Seq(Seq(S)) :
              FlattenSeq(<<d>> \o n) = d \o FlattenSeq(n)
  <1>0. \A x, y, z \in Seq(S) : (x \o y) \o z = x \o (y \o z)
    BY ConcatAssociative
  <1> TAKE d \in Seq(S), n \in Seq(Seq(S))
  <1> DEFINE s == <<d>> \o n
             N == Len(n)
  <1>1. s \in Seq(Seq(S)) /\ N \in Nat /\ Len(s) = N + 1
    OBVIOUS
  <1>2. s[1] = d /\ \A k \in 1..N : s[k + 1] = n[k] /\ n[k] \in Seq(S)
    OBVIOUS
  <1> HIDE DEF s
  <1>3. PICK f \in [0..Len(s) -> Seq(S)] :
              /\ f[0] = <<>>
              /\ \A k \in 1..Len(s) : f[k] = f[k - 1] \o s[k]
              /\ FlattenSeq(s) = f[Len(s)]
    BY <1>1, Flattens
  <1>4. PICK g \in [0..N -> Seq(S)] :
              /\ g[0] = <<>>
              /\ \A k \in 1..N : g[k] = g[k - 1] \o n[k]
              /\ FlattenSeq(n) = g[N]
    BY Flattens
  <1> HIDE DEF N
  <1>5. \A k \in 0..N : f[k + 1] = f[k] \o s[k + 1]
    <2> SUFFICES ASSUME NEW k \in 0..N PROVE f[k + 1] = f[k] \o s[k + 1]
      OBVIOUS
    <2>1. k + 1 \in 1..Len(s) /\ (k + 1) - 1 = k
      BY <1>1
    <2> QED BY <1>3, <2>1
  <1> DEFINE T == {k \in 0..N : f[k + 1] = d \o g[k]}
  <1>6. 0 \in T
    <2>1. <<>> \o d = d /\ d \o <<>> = d
      OBVIOUS
    <2>2. 0 \in 0..N /\ 0 + 1 = 1
      BY <1>1
    <2>3. f[0 + 1] = f[0] \o s[0 + 1]
      BY <1>5, <2>2
    <2> QED BY <1>2, <1>3, <1>4, <2>1, <2>2, <2>3
  <1>7. ASSUME NEW k \in 1..N, k - 1 \in T
        PROVE  k \in T
    <2>1. k \in 0..N /\ k - 1 \in 0..N /\ (k - 1) + 1 = k
      BY <1>1
    <2>2. f[k + 1] = f[k] \o s[k + 1] /\ f[k] = d \o g[k - 1]
      BY <1>5, <1>7, <2>1
    <2>3. s[k + 1] = n[k] /\ n[k] \in Seq(S) /\ g[k] = g[k - 1] \o n[k]
      BY <1>2, <1>4
    <2>4. g[k - 1] \in Seq(S)
      BY <2>1
    <2>5. (d \o g[k - 1]) \o n[k] = d \o (g[k - 1] \o n[k])
      BY <1>0, <2>3, <2>4, Zenon
    <2> QED BY <2>1, <2>2, <2>3, <2>5
  <1> HIDE DEF T
  <1>8. \A k \in 0..N : k \in T
    BY <1>1, <1>6, <1>7, BoundedInduction, Zenon
  <1>9. N \in 0..N
    BY <1>1
  <1>10. f[N + 1] = d \o g[N]
    BY <1>8, <1>9 DEF T
  <1> QED BY <1>1, <1>3, <1>4, <1>10 DEF s

\* ... and what comes out is made of what they have.
LEMMA FlattenType ==
    ASSUME NEW S, NEW s \in Seq(Seq(S))
    PROVE  FlattenSeq(s) \in Seq(S)
  <1>1. PICK f \in [0..Len(s) -> Seq(S)] : FlattenSeq(s) = f[Len(s)]
    BY Flattens
  <1>2. Len(s) \in 0..Len(s)
    OBVIOUS
  <1> QED BY <1>1, <1>2

LEMMA FlattenNothing == FlattenSeq(<<>>) = <<>>
  BY DEF FlattenSeq
=============================================================================
