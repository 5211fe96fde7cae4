---------------------------- MODULE NumberProofs ----------------------------
(***************************************************************************)
(* Facts about numbers that the proofs of several components rest on:      *)
(* induction on sets of numbers, powers of two, and division by them.      *)
(***************************************************************************)
EXTENDS Integers, FiniteSets, FiniteSetTheorems, WellFoundedInduction, TLAPS

-----------------------------------------------------------------------------
(* Induction.                                                              *)

\* Every set of natural numbers has a least element.
LEMMA LeastNumber ==
    ASSUME NEW T, T \subseteq Nat, T # {}
    PROVE  \E x \in T : \A y \in T : x <= y
<1>1. IsWellFoundedOn(OpToRel(<, Nat), Nat)
  BY NatLessThanWellFounded
<1>2. PICK x \in T : \A y \in T : ~(<<y, x>> \in OpToRel(<, Nat))
  BY <1>1, WFMin
<1>3. \A y \in T : ~(y < x)
  BY <1>2 DEF OpToRel
<1> QED
  BY <1>3

\* Induction up to a bound, for the set of the numbers something holds for.
LEMMA UpTo ==
    ASSUME NEW n \in Nat, NEW S, 0 \in S, \A i \in 1..n : i - 1 \in S => i \in S
    PROVE  0..n \subseteq S
<1> SUFFICES ASSUME (0..n) \ S # {} PROVE FALSE
  OBVIOUS
<1>1. PICK x \in (0..n) \ S : \A y \in (0..n) \ S : x <= y
  <2>1. (0..n) \ S \subseteq Nat
    OBVIOUS
  <2> QED
    BY <2>1, LeastNumber
<1>2. x \in 1..n
  OBVIOUS
<1>3. x - 1 \in S
  <2>1. x - 1 \in 0..n /\ ~(x <= x - 1)
    BY <1>2
  <2> QED
    BY <1>1, <2>1
<1> QED
  BY <1>2, <1>3

-----------------------------------------------------------------------------
(* Powers of two.  The provers know nothing of 2^n; that it doubles with n *)
(* follows from counting the sets of numbers up to n.                      *)

LEMMA PowerPositive == ASSUME NEW n \in Nat PROVE 2^n \in Nat \ {0}
<1>1. IsFiniteSet(1..n) /\ Cardinality(1..n) = n
  BY FS_Interval
<1>2. IsFiniteSet(SUBSET (1..n)) /\ Cardinality(SUBSET (1..n)) = 2^n
  BY <1>1, FS_SUBSET
<1>3. SUBSET (1..n) # {}
  OBVIOUS
<1> QED
  BY <1>2, <1>3, FS_CardinalityType, FS_EmptySet

LEMMA PowerNext == ASSUME NEW n \in Nat PROVE 2^(n + 1) = 2 * 2^n
<1> DEFINE low  == SUBSET (1..n)
           high == {x \union {n + 1} : x \in low}
           all  == SUBSET (1..(n + 1))
<1>1. /\ IsFiniteSet(1..n) /\ Cardinality(1..n) = n
      /\ IsFiniteSet(1..(n+1)) /\ Cardinality(1..(n+1)) = n + 1
  BY FS_Interval
<1>2. /\ IsFiniteSet(low) /\ Cardinality(low) = 2^n
      /\ IsFiniteSet(all) /\ Cardinality(all) = 2^(n+1)
  BY <1>1, FS_SUBSET
<1>3. IsFiniteSet(high) /\ Cardinality(high) = Cardinality(low)
  <2> DEFINE f == [x \in low |-> x \union {n + 1}]
  <2>0. \A x \in low : n + 1 \notin x
    OBVIOUS
  <2>1. f \in Bijection(low, high)
    <3>1. f \in [low -> high]
      OBVIOUS
    <3>2. \A x, y \in low : f[x] = f[y] => x = y
      <4> SUFFICES ASSUME NEW x \in low, NEW y \in low, f[x] = f[y] PROVE x = y
        OBVIOUS
      <4>1. x \union {n + 1} = y \union {n + 1} /\ n + 1 \notin x /\ n + 1 \notin y
        BY <2>0
      <4> QED
        BY <4>1
    <3>3. \A t \in high : \E x \in low : f[x] = t
      OBVIOUS
    <3> QED
      BY <3>1, <3>2, <3>3 DEF Bijection, Injection, Surjection, IsInjective
  <2> QED
    BY <1>2, <2>1, FS_Bijection DEF ExistsBijection
<1>4. all = low \union high
  <2>1. ASSUME NEW x \in all PROVE x \in low \union high
    <3>1. CASE n + 1 \in x
      <4>1. x \ {n + 1} \in low /\ x = (x \ {n + 1}) \union {n + 1}
        BY <3>1
      <4> QED
        BY <4>1
    <3>2. CASE n + 1 \notin x
      BY <3>2
    <3> QED
      BY <3>1, <3>2
  <2>2. \A x \in low : x \in all /\ x \union {n + 1} \in all
    OBVIOUS
  <2>3. \A y \in high : \E x \in low : y = x \union {n + 1}
    OBVIOUS
  <2> HIDE DEF low, high, all
  <2>4. \A y \in high : y \in all
    BY <2>2, <2>3
  <2> QED
    BY <2>1, <2>2, <2>4
<1>5. low \intersect high = {}
  OBVIOUS
<1>6. Cardinality(low \union high) = Cardinality(low) + Cardinality(high) - Cardinality(low \intersect high)
  BY <1>2, <1>3, FS_Union
<1>7. Cardinality(low \intersect high) = 0
  BY <1>5, FS_EmptySet
<1>8. 2^n \in Nat
  BY PowerPositive
<1> HIDE DEF low, high, all
<1> QED
  BY <1>2, <1>3, <1>4, <1>6, <1>7, <1>8

LEMMA PowerSum == ASSUME NEW m \in Nat, NEW n \in Nat PROVE 2^(m + n) = 2^m * 2^n
<1> DEFINE S == {i \in 0..n : 2^(m + i) = 2^m * 2^i}
<1>0. \A i \in Nat : 2^i \in Nat
  BY PowerPositive
<1>1. 0 \in S
  <2>1. 2^0 = 1 /\ m + 0 = m
    OBVIOUS
  <2> QED
    BY <1>0, <2>1
<1>2. ASSUME NEW i \in 1..n, i - 1 \in S PROVE i \in S
  <2> DEFINE j == i - 1
  <2>1. j \in Nat /\ i = j + 1 /\ m + i = (m + j) + 1 /\ m + j \in Nat
    OBVIOUS
  <2>2. 2^i = 2 * 2^j /\ 2^(m + i) = 2 * 2^(m + j) /\ 2^(m + j) = 2^m * 2^j
    BY <1>2, <2>1, PowerNext
  <2>3. 2^m \in Nat /\ 2^j \in Nat
    BY <1>0, <2>1
  <2> HIDE DEF j
  <2>4. 2^(m + i) = 2^m * 2^i
    BY <2>2, <2>3
  <2> QED
    BY <2>4
<1>3. 0..n \subseteq S
  BY <1>1, <1>2, UpTo
<1> QED
  BY <1>3

-----------------------------------------------------------------------------
(* Division.                                                               *)

LEMMA Division ==
    ASSUME NEW a \in Nat, NEW m \in Nat \ {0}
    PROVE  /\ a \div m \in Nat /\ a % m \in 0..(m - 1)
           /\ a = m * (a \div m) + (a % m)
OBVIOUS

\* The quotient is the only number that fits.
LEMMA Quotient ==
    ASSUME NEW a \in Nat, NEW m \in Nat \ {0}, NEW q \in Nat, NEW r \in 0..(m - 1), a = m * q + r
    PROVE  a \div m = q /\ a % m = r
OBVIOUS

LEMMA DivideTwice ==
    ASSUME NEW a \in Nat, NEW m \in Nat \ {0}, NEW k \in Nat \ {0}
    PROVE  a \div (m * k) = (a \div m) \div k
OBVIOUS

LEMMA AddMultiple ==
    ASSUME NEW a \in Nat, NEW m \in Nat \ {0}, NEW z \in Nat
    PROVE  (a + m * z) \div m = (a \div m) + z /\ (a + m * z) % m = a % m
<1> DEFINE q == a \div m
           r == a % m
<1>1. q \in Nat /\ r \in 0..(m - 1) /\ a = m * q + r
  BY Division
<1> HIDE DEF q, r
<1>2. a + m * z = m * (q + z) + r /\ q + z \in Nat /\ a + m * z \in Nat
  BY <1>1
<1>3. (a + m * z) \div m = q + z /\ (a + m * z) % m = r
  BY <1>1, <1>2, Quotient
<1> QED
  BY <1>3 DEF q, r

LEMMA DivideMonotone ==
    ASSUME NEW a \in Nat, NEW b \in Nat, a <= b, NEW m \in Nat \ {0}
    PROVE  a \div m <= b \div m
<1> DEFINE q == a \div m
           r == b \div m
<1>1. /\ q \in Nat /\ r \in Nat /\ m * q <= a /\ b < m * r + m
  BY Division
<1> HIDE DEF q, r
<1>2. m * q < m * r + m
  BY <1>1
<1>3. m * (r + 1 - q) > 0
  BY <1>1, <1>2
<1>4. q <= r
  BY <1>1, <1>3
<1> QED
  BY <1>4 DEF q, r

LEMMA SmallQuotient ==
    ASSUME NEW m \in Nat \ {0}, NEW a \in 0..(m - 1)
    PROVE  a \div m = 0 /\ a % m = a
BY Quotient

\* Adding m to a number whose quotient by m is even changes no higher digit ...
LEMMA NoCarry ==
    ASSUME NEW x \in Nat, NEW m \in Nat \ {0}, (x \div m) % 2 = 0
    PROVE  (x + m) \div (m * 2) = x \div (m * 2)
<1> DEFINE q == x \div m
           r == x % m
           u == q \div 2
<1>1. q \in Nat /\ r \in 0..(m - 1) /\ x = m * q + r
  BY Division
<1>2. u \in Nat /\ q = 2 * u
  BY <1>1
<1> HIDE DEF q, r, u
<1>3. x = (m * 2) * u + r
  BY <1>1, <1>2
<1>4. x + m = (m * 2) * u + (r + m)
  BY <1>1, <1>2, <1>3
<1>5. r \in 0..(m * 2 - 1) /\ r + m \in 0..(m * 2 - 1) /\ m * 2 \in Nat \ {0} /\ x + m \in Nat
  BY <1>1
<1> QED
  BY <1>2, <1>3, <1>4, <1>5, Quotient

\* ... and none within a number of 2 * t digits, whatever stands before it.
LEMMA NoCarryWithin ==
    ASSUME NEW h \in Nat, NEW m \in Nat \ {0}, NEW t \in Nat \ {0}, (h \div m) % 2 = 0,
           NEW Q, Q = m * (2 * t)
    PROVE  ((h % Q) \div m) % 2 = 0 /\ (h + m) % Q = (h % Q) + m
<1> DEFINE b == h % Q
           c == h \div Q
           u == b \div m
           v == b % m
<1>0. Q \in Nat \ {0}
  OBVIOUS
<1>1. b \in 0..(Q - 1) /\ c \in Nat /\ h = Q * c + b
  BY <1>0, Division
<1>2. u \in Nat /\ v \in 0..(m - 1) /\ b = m * u + v
  <2>1. b \in Nat
    BY <1>0, <1>1
  <2> HIDE DEF b
  <2> QED
    BY <2>1, Division
<1> HIDE DEF b, c, u, v
<1>3. h = m * ((2 * t) * c + u) + v
  BY <1>1, <1>2
<1>4. (2 * t) * c + u \in Nat
  BY <1>1, <1>2
<1>5. h \div m = (2 * t) * c + u
  BY <1>2, <1>3, <1>4, Quotient
<1>6. u % 2 = 0
  <2>1. (2 * t) * c = 2 * (t * c) /\ t * c \in Nat
    BY <1>1
  <2>2. (u + 2 * (t * c)) % 2 = u % 2
    <3> DEFINE z == t * c
    <3>1. z \in Nat /\ 2 \in Nat \ {0}
      BY <2>1
    <3> HIDE DEF z
    <3>2. (u + 2 * z) % 2 = u % 2
      BY <1>2, <3>1, AddMultiple
    <3> QED
      BY <3>2 DEF z
  <2> QED
    BY <1>2, <1>5, <2>1, <2>2
<1>7. u < 2 * t
  <2>1. m * u < m * (2 * t)
    BY <1>0, <1>1, <1>2
  <2> QED
    BY <1>2, <2>1
<1>8. u + 2 <= 2 * t
  BY <1>2, <1>6, <1>7
<1>9. b + m < Q
  <2>1. m * (u + 2) <= m * (2 * t)
    BY <1>2, <1>8
  <2> QED
    BY <1>2, <2>1
<1>10. h + m = Q * c + (b + m) /\ b + m \in 0..(Q - 1)
  BY <1>0, <1>1, <1>9
<1>11. (h + m) % Q = b + m
  <2> DEFINE sum == h + m
             rest == b + m
  <2>1. sum \in Nat /\ rest \in 0..(Q - 1) /\ sum = Q * c + rest
    BY <1>10
  <2> HIDE DEF sum, rest
  <2>2. sum % Q = rest
    BY <1>0, <1>1, <2>1, Quotient
  <2> QED
    BY <2>2 DEF sum, rest
<1> QED
  BY <1>6, <1>11 DEF b, u

=============================================================================
