------------------------------ MODULE Induction ------------------------------
(* Induction over numbers in the form the proofs use it: a set of numbers that
   is not empty has a least one, so a claim that fails somewhere fails somewhere
   first. *)
EXTENDS WellFoundedInduction, TLAPS

LessNat == OpToRel(<, Nat)

LEMMA LessNatIs == \A x, y \in Nat : x < y => <<x, y>> \in LessNat
  BY DEF OpToRel, LessNat

LEMMA LessNatWellFounded == IsWellFoundedOn(LessNat, Nat)
  BY NatLessThanWellFounded DEF LessNat

\* Every set of numbers that is not empty has a least one.
LEMMA LeastNat ==
  ASSUME NEW T, T \subseteq Nat, T # {}
  PROVE  \E n \in T : \A m \in T : n <= m
<1>1. PICK n \in T : \A m \in T : <<m, n>> \notin LessNat
  BY LessNatWellFounded, WFMin
<1>2. ASSUME NEW m \in T PROVE n <= m
  <2>1. m \in Nat /\ n \in Nat /\ <<m, n>> \notin LessNat
    BY <1>1
  <2>2. ~(m < n)
    BY <2>1, LessNatIs
  <2> QED
    BY <2>1, <2>2
<1> QED
  BY <1>2

\* Every set of numbers that is not empty and has a bound has a highest one.
LEMMA HighestNat ==
  ASSUME NEW T, T \subseteq Nat, T # {}, NEW b \in Nat, \A m \in T : m <= b
  PROVE  \E n \in T : \A m \in T : m <= n
<1> DEFINE U == {u \in Nat : \A m \in T : m <= u}
<1>1. PICK u \in U : \A v \in U : u <= v
  BY LeastNat
<1>2. u \in Nat /\ \A m \in T : m \in Nat /\ m <= u
  BY <1>1
<1>3. SUFFICES ASSUME u \notin T PROVE FALSE
  BY <1>2
<1>4. PICK t \in T : TRUE
  OBVIOUS
<1>5. u # 0
  BY <1>2, <1>3, <1>4
<1>6. u - 1 \in U
  BY <1>2, <1>3, <1>5
<1> QED
  BY <1>1, <1>2, <1>6
=============================================================================
