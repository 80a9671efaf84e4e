---------------------------- MODULE LeastNumber ----------------------------
(***************************************************************************)
(* Induction over the naturals in the form the proofs use: on a set of     *)
(* numbers, from the well-foundedness of the order.                        *)
(***************************************************************************)
EXTENDS Integers, WellFoundedInduction, TLAPS

\* The order of the naturals, as a relation.
LEMMA LessThan ==
  \E R : /\ IsWellFoundedOn(R, Nat)
         /\ \A a, b \in Nat : <<a, b>> \in R <=> a < b
<1>1. \A a, b \in Nat : <<a, b>> \in OpToRel(<, Nat) <=> a < b
  BY DEF OpToRel
<1> QED
  BY <1>1, NatLessThanWellFounded

\* The least-number principle.
LEMMA LeastNatural ==
  ASSUME NEW S, S \subseteq Nat, S # {}
  PROVE  \E m \in S : \A k \in S : m <= k
<1>1. PICK R : /\ IsWellFoundedOn(R, Nat)
              /\ \A a, b \in Nat : <<a, b>> \in R <=> a < b
  BY LessThan
<1>2. IsWellFoundedOn(R, Nat)
  BY <1>1
<1>3. \E m \in S : \A k \in S : ~(<<k, m>> \in R)
  BY <1>2, WFMin
<1>4. PICK m \in S : \A k \in S : ~(<<k, m>> \in R)
  BY <1>3
<1>5. ASSUME NEW k \in S PROVE m <= k
  <2>1. ~(<<k, m>> \in R) /\ k \in Nat /\ m \in Nat
    BY <1>4
  <2>2. ~(k < m)
    BY <1>1, <2>1
  <2> QED
    BY <2>1, <2>2
<1> QED
  BY <1>5

\* Induction from lo to hi, on the set of the numbers something holds of.
LEMMA StepByStep ==
  ASSUME NEW S, NEW lo \in Nat, NEW hi \in Nat, lo \in S,
         \A n \in Nat : lo <= n /\ n < hi /\ n \in S => n + 1 \in S
  PROVE  \A n \in lo..hi : n \in S
<1> DEFINE missing == {n \in lo..hi : n \notin S}
<1>1. SUFFICES ASSUME missing # {} PROVE FALSE
  OBVIOUS
<1>2. missing \subseteq Nat
  OBVIOUS
<1> HIDE DEF missing
<1>3. PICK m \in missing : \A k \in missing : m <= k
  BY <1>1, <1>2, LeastNatural
<1>4. m \in lo..hi /\ m \notin S /\ m # lo
  BY DEF missing
<1>5. PICK n \in Nat : m = n + 1 /\ lo <= n /\ n < hi /\ n < m
  BY <1>4
<1>6. n \notin missing
  BY <1>2, <1>3, <1>5
<1>7. n \in S
  BY <1>5, <1>6 DEF missing
<1> QED
  BY <1>4, <1>5, <1>7
=============================================================================
