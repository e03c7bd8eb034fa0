------------------------------- MODULE Basics -------------------------------
(***************************************************************************)
(* What several proofs use of numbers and sequences: least elements,       *)
(* induction over a set of numbers, and sequences that grow.               *)
(***************************************************************************)
EXTENDS Integers, Sequences, TLAPS, WellFoundedInduction

IsSeq(t) == \E S : t \in Seq(S)

\* A set of numbers has a least one.
LEMMA LeastNat ==
  ASSUME NEW T, T \subseteq Nat, T # {}
  PROVE  \E x \in T : \A y \in T : x <= y
<1>1. PICK x \in T : \A y \in T : ~(<<y, x>> \in OpToRel(<, Nat))
  BY NatLessThanWellFounded, WFMin
<1>2. x \in Nat /\ \A y \in T : y \in Nat /\ ~(y < x)
  BY <1>1 DEF OpToRel
<1> QED
  BY <1>2

\* Induction over a set of numbers.
LEMMA Induct ==
  ASSUME NEW S, 0 \in S, \A n \in Nat : n \in S => n + 1 \in S
  PROVE  Nat \subseteq S
<1> SUFFICES ASSUME Nat \ S # {} PROVE FALSE
  OBVIOUS
<1>1. PICK x \in Nat \ S : \A y \in Nat \ S : x <= y
  BY LeastNat
<1>2. x # 0
  BY <1>1
<1>3. x - 1 \in Nat /\ x - 1 \in S
  BY <1>1, <1>2
<1> QED
  BY <1>1, <1>3

\* Induction over the numbers up to n.
LEMMA InductTo ==
  ASSUME NEW n \in Nat, NEW S, 0 \in S, \A i \in 0 .. n - 1 : i \in S => i + 1 \in S
  PROVE  0 .. n \subseteq S
<1> DEFINE T == {i \in Nat : i <= n => i \in S}
<1>1. 0 \in T
  OBVIOUS
<1>2. ASSUME NEW i \in Nat, i \in T
      PROVE  i + 1 \in T
  <2>1. CASE i + 1 <= n
    <3>1. i \in 0 .. n - 1 /\ i \in S
      BY <1>2, <2>1
    <3> QED
      BY <3>1
  <2>2. CASE ~(i + 1 <= n)
    BY <2>2
  <2> QED
    BY <2>1, <2>2
<1>3. Nat \subseteq T
  <2> HIDE DEF T
  <2> QED
    BY <1>1, <1>2, Induct
<1> QED
  BY <1>3

\* A set of numbers up to n has a greatest one.
LEMMA GreatestNat ==
  ASSUME NEW T, NEW n \in Nat, T \subseteq 0 .. n, T # {}
  PROVE  \E x \in T : \A y \in T : y <= x
<1> DEFINE R == {k \in Nat : n - k \in T}
<1>1. PICK t : t \in T
  OBVIOUS
<1>2. n - t \in R
  <2>1. t \in 0 .. n /\ n - (n - t) = t
    BY <1>1
  <2> QED
    BY <1>1, <2>1
<1>3. PICK k \in R : \A j \in R : k <= j
  <2>1. R \subseteq Nat /\ R # {}
    BY <1>2
  <2> HIDE DEF R
  <2> QED
    BY <2>1, LeastNat
<1>4. n - k \in T
  BY <1>3
<1>5. ASSUME NEW y \in T
      PROVE  y <= n - k
  <2>1. y \in 0 .. n /\ n - (n - y) = y
    OBVIOUS
  <2>2. n - y \in R
    BY <2>1
  <2>3. k <= n - y /\ k \in Nat
    BY <1>3, <2>2
  <2> QED
    BY <2>1, <2>3
<1> QED
  BY <1>4, <1>5

\* A sequence stays one when it grows.
LEMMA SeqGrows ==
  ASSUME NEW t, NEW e, IsSeq(t)
  PROVE  /\ IsSeq(Append(t, e)) /\ Len(t) \in Nat /\ Len(Append(t, e)) = Len(t) + 1
         /\ \A k \in 1 .. Len(t) : Append(t, e)[k] = t[k]
         /\ Append(t, e)[Len(t) + 1] = e
<1>1. PICK S : t \in Seq(S)
  BY DEF IsSeq
<1>2. t \in Seq(S \cup {e}) /\ e \in S \cup {e}
  BY <1>1
<1>3. Append(t, e) \in Seq(S \cup {e})
  BY <1>2
<1> QED
  BY <1>2, <1>3 DEF IsSeq

\* Two sequences one behind the other, and a part of one, are sequences.
LEMMA SeqParts ==
  ASSUME NEW t, NEW u, IsSeq(t), IsSeq(u), NEW i \in Nat \ {0}, NEW j \in Int, j <= Len(u)
  PROVE  /\ IsSeq(t \o u) /\ Len(t \o u) = Len(t) + Len(u)
         /\ IsSeq(SubSeq(u, i, j))
         /\ Len(SubSeq(u, i, j)) = IF i <= j THEN j - i + 1 ELSE 0
         /\ Len(t) \in Nat /\ Len(u) \in Nat
<1>1. PICK S, T : t \in Seq(S) /\ u \in Seq(T)
  BY DEF IsSeq
<1>2. t \in Seq(S \cup T) /\ u \in Seq(S \cup T)
  BY <1>1
<1>3. t \o u \in Seq(S \cup T) /\ Len(t \o u) = Len(t) + Len(u)
  BY <1>2
<1>4. SubSeq(u, i, j) \in Seq(S \cup T)
  BY <1>2
<1>5. Len(SubSeq(u, i, j)) = IF i <= j THEN j - i + 1 ELSE 0
  BY <1>2
<1>6. IsSeq(t \o u) /\ IsSeq(SubSeq(u, i, j))
  BY <1>3, <1>4 DEF IsSeq
<1> QED
  BY <1>2, <1>3, <1>5, <1>6
=============================================================================
