-------------------------- MODULE ModularArithmetic --------------------------
(***************************************************************************)
(* Facts about \div and % for an arbitrary modulus, which the provers know *)
(* only for literal ones, and the least-number principle.                  *)
(***************************************************************************)
EXTENDS Integers, WellFoundedInduction, TLAPS

\* Euclidean division: quotient and remainder exist and make up the number.
LEMMA DivMod ==
  ASSUME NEW n \in Nat \ {0}, NEW v \in Nat
  PROVE  \E q \in Nat, r \in 0..(n - 1) :
           q = v \div n /\ r = v % n /\ v = n * q + r
<1>1. PICK q \in Nat : q = v \div n  OBVIOUS
<1>2. PICK r \in 0..(n - 1) : r = v % n  OBVIOUS
<1>3. v = n * q + r  BY <1>1, <1>2
<1> QED  BY <1>1, <1>2, <1>3

\* A quotient and a remainder determine each other.
LEMMA DivModUnique ==
  ASSUME NEW n \in Nat \ {0}, NEW q \in Nat, NEW r \in 0..(n - 1)
  PROVE  (n * q + r) \div n = q /\ (n * q + r) % n = r
OBVIOUS

\* Remainders are below the modulus, and small numbers are their own remainder.
LEMMA ModRange ==
  ASSUME NEW n \in Nat \ {0}
  PROVE  /\ \A v \in Nat : v % n \in 0..(n - 1)
         /\ \A v \in 0..(n - 1) : v % n = v
OBVIOUS

\* Adding the modulus does not change the remainder.
LEMMA ModAddModulus ==
  ASSUME NEW n \in Nat \ {0}, NEW v \in 0..(n - 1)
  PROVE  (v + n) % n = v
OBVIOUS

\* The successor of a remainder is the remainder of the successor.
LEMMA ModSucc ==
  ASSUME NEW n \in Nat \ {0}, NEW v \in Nat
  PROVE  ((v % n) + 1) % n = (v + 1) % n
<1>1. PICK q \in Nat, r \in 0..(n - 1) : v = n * q + r /\ r = v % n
  BY DivMod
<1>2. CASE r < n - 1
  <2>1. r + 1 \in 0..(n - 1)  BY <1>2
  <2>2. v + 1 = n * q + (r + 1)  BY <1>1
  <2>3. (n * q + (r + 1)) % n = r + 1  BY <2>1, DivModUnique
  <2>4. (r + 1) % n = r + 1  BY <2>1, ModRange
  <2> QED  BY <1>1, <2>2, <2>3, <2>4
<1>3. CASE r = n - 1
  <2>1. PICK m \in Nat : m = n * q  OBVIOUS
  <2>2. v + 1 = n * (q + 1) + 0
    <3>1. v = m + (n - 1)  BY <1>1, <1>3, <2>1
    <3>2. n * (q + 1) = m + n  BY <2>1
    <3> QED  BY <3>1, <3>2
  <2>3. (n * (q + 1) + 0) % n = 0  BY DivModUnique
  <2>4. n = n * 1 + 0  OBVIOUS
  <2>5. (n * 1 + 0) % n = 0  BY DivModUnique
  <2>6. (r + 1) % n = 0  BY <1>3, <2>4, <2>5
  <2> QED  BY <1>1, <2>2, <2>3, <2>6
<1> QED  BY <1>2, <1>3

\* Different numbers with the same remainder are at least a modulus apart.
LEMMA ModGap ==
  ASSUME NEW n \in Nat \ {0}, NEW v \in Nat, NEW w \in Nat,
         v % n = w % n, v < w
  PROVE  v + n <= w
<1>1. PICK q1 \in Nat, r \in 0..(n - 1) : v = n * q1 + r /\ r = v % n
  BY DivMod
<1>2. PICK q2 \in Nat : w = n * q2 + r
  BY DivMod, <1>1
<1>3. n * q1 < n * q2  BY <1>1, <1>2
<1>4. q1 < q2  BY <1>3
<1>5. n * (q1 + 1) <= n * q2  BY <1>4
<1>6. n * (q1 + 1) = n * q1 + n  OBVIOUS
<1> QED  BY <1>1, <1>2, <1>5, <1>6

\* Every set of natural numbers has a least one.
LEMMA LeastNatural ==
  ASSUME NEW S \in SUBSET Nat, S # {}
  PROVE  \E x \in S : \A y \in S : x <= y
<1> DEFINE R == {ss \in Nat \X Nat : ss[1] < ss[2]}
<1>1. IsWellFoundedOn(R, Nat)
  BY NatLessThanWellFounded, Zenon DEF OpToRel
<1>2. \E x \in S : \A y \in S : ~ (<<y, x>> \in R)
  <2> HIDE DEF R
  <2> QED
    BY <1>1, WFMin
<1>3. PICK x \in S : \A y \in S : ~ (<<y, x>> \in R)
  BY <1>2
<1>4. ASSUME NEW y \in S PROVE x <= y
  <2>1. <<y, x>> \in Nat \X Nat /\ <<y, x>>[1] = y /\ <<y, x>>[2] = x
    OBVIOUS
  <2>2. ~(y < x)
    BY <1>3, <2>1
  <2> QED
    BY <2>2
<1> QED
  BY <1>4
=============================================================================
