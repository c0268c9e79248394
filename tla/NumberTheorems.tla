--------------------------- MODULE NumberTheorems ---------------------------
(* Induction on the natural numbers, as facts about sets of numbers: what the *)
(* proofs about recursive functions and finite sets start from.               *)
EXTENDS Integers, WellFoundedInduction, TLAPS

(* A set of numbers that is not empty has a least one. *)
LEMMA LeastNumber ==
  ASSUME NEW T, T \subseteq Nat, T # {}
  PROVE  \E x \in T : \A y \in T : x <= y
<1> DEFINE R == OpToRel(<, Nat)
<1>1. IsWellFoundedOn(R, Nat)
  BY NatLessThanWellFounded
<1>2. \A x, y \in Nat : y < x => <<y, x>> \in R
  BY DEF OpToRel
<1> HIDE DEF R
<1>3. PICK x \in T : \A y \in T : ~ (<<y, x>> \in R)
  BY <1>1, WFMin
<1>4. \A y \in T : ~ (y < x)
  BY <1>2, <1>3
<1> QED BY <1>4, SMT

(* A bounded set of numbers that is not empty has a greatest one. *)
LEMMA GreatestNumber ==
  ASSUME NEW n \in Nat, NEW T, T \subseteq 0..n, T # {}
  PROVE  \E x \in T : \A y \in T : x >= y
<1> DEFINE Below == {m \in 0..n : n - m \in T}
<1>1. Below \subseteq Nat /\ Below # {}
  <2>1. PICK x \in 0..n : x \in T
    OBVIOUS
  <2>2. n - x \in 0..n /\ n - (n - x) = x
    BY SMT
  <2>3. n - x \in Below
    BY <2>1, <2>2
  <2>4. 0..n \subseteq Nat
    BY SMT
  <2> QED BY <2>3, <2>4
<1>2. PICK m \in Below : \A k \in Below : m <= k
  <2> HIDE DEF Below
  <2> QED BY <1>1, LeastNumber
<1>3. ASSUME NEW y \in T PROVE n - m >= y
  <2>1. y \in 0..n /\ n - y \in 0..n /\ n - (n - y) = y
    BY SMT
  <2>2. n - y \in Below
    BY <2>1
  <2>3. m <= n - y /\ m \in 0..n
    BY <1>2, <2>2
  <2> QED BY <2>1, <2>3, SMT
<1> QED BY <1>3

(* Induction on the numbers, over a set in place of a predicate. *)
LEMMA NumberInduction ==
  ASSUME NEW S, 0 \in S, \A n \in Nat : n \in S => n + 1 \in S
  PROVE  Nat \subseteq S
<1> SUFFICES ASSUME Nat \ S # {} PROVE FALSE
  OBVIOUS
<1>1. PICK x \in Nat \ S : \A y \in Nat \ S : x <= y
  BY LeastNumber
<1>2. x # 0 /\ x - 1 \in Nat
  BY SMT
<1>3. x - 1 \in S
  BY <1>1, <1>2, SMT
<1> QED BY <1>2, <1>3, SMT
=============================================================================
