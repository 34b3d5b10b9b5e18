------------------------------ MODULE Induction ------------------------------
(* Induction over the naturals and recursion along them, in the form the     *)
(* proofs use: what is shown for every number is a set of numbers, and what a *)
(* recursive function does to get to the next value is a function.           *)
EXTENDS Integers, Sequences, TLAPS, WellFoundedInduction, SequenceTheorems

(* Every set of naturals that is not empty has a least element.  *)
LEMMA LeastNat ==
    ASSUME NEW T \in SUBSET Nat, T # {}
    PROVE  \E x \in T : \A y \in T : x <= y
<1>1. IsWellFoundedOn(OpToRel(<, Nat), Nat)
  BY NatLessThanWellFounded
<1>2. PICK x \in T : \A y \in T : ~ (<<y, x>> \in OpToRel(<, Nat))
  BY <1>1, WFMin
<1>3. \A y \in T : ~(y < x)
  BY <1>2 DEF OpToRel
<1> QED
  BY <1>3

(* A set with 0 and with the successor of each of its numbers has them all. *)
LEMMA SetInduction ==
    ASSUME NEW S, 0 \in S, \A n \in Nat : n \in S => n + 1 \in S
    PROVE  Nat \subseteq S
<1> SUFFICES ASSUME ~(Nat \subseteq S) PROVE FALSE
  OBVIOUS
<1> DEFINE T == Nat \ S
<1>1. T # {} /\ T \in SUBSET Nat
  OBVIOUS
<1>2. PICK x \in T : \A y \in T : x <= y
  BY <1>1, LeastNat
<1>3. x # 0 /\ x - 1 \in Nat
  OBVIOUS
<1>4. x - 1 \in S
  BY <1>2, <1>3
<1> QED
  BY <1>3, <1>4

(* The same up to a number. *)
LEMMA BoundedInduction ==
    ASSUME NEW N \in Nat, NEW S, 0 \in S, \A n \in 0..(N - 1) : n \in S => n + 1 \in S
    PROVE  0..N \subseteq S
<1> DEFINE T == {n \in Nat : n <= N => n \in S}
<1>1. 0 \in T
  OBVIOUS
<1>2. ASSUME NEW n \in Nat, n \in T PROVE n + 1 \in T
  BY <1>2
<1>3. Nat \subseteq T
  <2> HIDE DEF T
  <2> QED BY <1>1, <1>2, SetInduction
<1> QED
  BY <1>3

(* F is a step from the n-1st value and n to the nth, and g what comes of    *)
(* taking it N times.                                                        *)
IsStep(F, N, S) == F \in [(1..N) \X S -> S]

IsTable(g, base, F, N, S) ==
    /\ g \in [0..N -> S] /\ g[0] = base
    /\ \A n \in 1..N : g[n] = F[<<n, g[n - 1]>>]

(* A recursive function along 0..N exists: its first value and the step from *)
(* the n-1st value to the nth determine one.                                 *)
LEMMA RecursionExists ==
    ASSUME NEW S, NEW base, NEW N, NEW F, base \in S, N \in Nat, IsStep(F, N, S)
    PROVE  \E g : IsTable(g, base, F, N, S)
<1> USE DEF IsStep, IsTable
<1> DEFINE Good(n, g) == g[0] = base /\ \A i \in 1..n : g[i] = F[<<i, g[i - 1]>>]
           T == {n \in 0..N : \E g \in [0..n -> S] : Good(n, g)}
<1>1. 0 \in T
  <2> DEFINE h == [i \in 0..0 |-> base]
  <2>1. h \in [0..0 -> S] /\ Good(0, h)
    OBVIOUS
  <2>2. 0 \in 0..N
    OBVIOUS
  <2> HIDE DEF h
  <2> QED
    BY <2>1, <2>2
<1>2. ASSUME NEW n \in 0..(N - 1), n \in T PROVE n + 1 \in T
  <2>1. PICK g \in [0..n -> S] : Good(n, g)
    BY <1>2
  <2> DEFINE h == [i \in 0..(n + 1) |-> IF i = n + 1 THEN F[<<n + 1, g[n]>>] ELSE g[i]]
  <2>2. <<n + 1, g[n]>> \in (1..N) \X S
    BY <2>1
  <2>3. h \in [0..(n + 1) -> S]
    BY <2>1, <2>2
  <2>4. Good(n + 1, h)
    <3>1. h[0] = base
      BY <2>1
    <3>2. ASSUME NEW i \in 1..(n + 1) PROVE h[i] = F[<<i, h[i - 1]>>]
      <4>1. CASE i = n + 1
        BY SMTT(30), <4>1
      <4>2. CASE i # n + 1
        <5>1. i \in 1..n /\ i - 1 \in 0..n /\ i - 1 # n + 1 /\ i \in 0..(n + 1) /\ i - 1 \in 0..(n + 1)
          BY <4>2
        <5>2. h[i] = g[i] /\ h[i - 1] = g[i - 1]
          BY <5>1, <4>2
        <5> QED BY <5>1, <5>2, <2>1
      <4> QED BY <4>1, <4>2
    <3> QED BY <3>1, <3>2
  <2> HIDE DEF h
  <2> QED BY <2>3, <2>4
<1>3. 0..N \subseteq T
  <2> HIDE DEF T
  <2> QED BY <1>1, <1>2, BoundedInduction
<1> QED
  BY <1>3

(* Two functions with the same start and the same step agree up to N. *)
LEMMA RecursionUnique ==
    ASSUME NEW N \in Nat, NEW g, NEW h, g[0] = h[0],
           \A n \in 0..(N - 1) : g[n] = h[n] => g[n + 1] = h[n + 1]
    PROVE  \A n \in 0..N : g[n] = h[n]
<1> DEFINE T == {n \in Nat : g[n] = h[n]}
<1>1. 0 \in T /\ \A n \in 0..(N - 1) : n \in T => n + 1 \in T
  OBVIOUS
<1>2. 0..N \subseteq T
  <2> HIDE DEF T
  <2> QED BY <1>1, BoundedInduction
<1> QED
  BY <1>2

(* A set with the empty sequence and with every extension of its sequences  *)
(* by an element of S has all the sequences over S.                          *)
LEMMA SeqInduction ==
    ASSUME NEW S, NEW T, <<>> \in T,
           \A s \in Seq(S) : \A e \in S : s \in T => Append(s, e) \in T
    PROVE  Seq(S) \subseteq T
<1> DEFINE U == {n \in Nat : \A s \in Seq(S) : Len(s) = n => s \in T}
<1>1. 0 \in U
  <2>1. \A s \in Seq(S) : Len(s) = 0 => s = <<>>
    OBVIOUS
  <2> QED
    BY <2>1
<1>2. ASSUME NEW n \in Nat, n \in U PROVE n + 1 \in U
  <2>1. ASSUME NEW s \in Seq(S), Len(s) = n + 1 PROVE s \in T
    <3>1. s # <<>>
      BY <2>1
    <3>2. PICK r \in Seq(S), e \in S : s = Append(r, e)
      BY <3>1, SequenceEmptyOrAppend
    <3>3. Len(r) = n
      BY <2>1, <3>2
    <3> QED
      BY <1>2, <3>2, <3>3
  <2> QED
    BY <2>1
<1>3. Nat \subseteq U
  <2> HIDE DEF U
  <2> QED BY <1>1, <1>2, SetInduction
<1>4. ASSUME NEW s \in Seq(S) PROVE s \in T
  <2>1. Len(s) \in Nat
    OBVIOUS
  <2> QED
    BY <1>3, <2>1
<1> QED
  BY <1>4
=============================================================================
