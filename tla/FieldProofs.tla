----------------------------- MODULE FieldProofs -----------------------------
(***************************************************************************)
(* Proofs about DonnaField and the formulas of DonnaGroup and CudaGroup on *)
(* its limbs, for any width of at least 18 bits, any fold up to 19 and     *)
(* words of thirteen bits more, and for all limbs: 51, 19 and 64 in        *)
(* curve25519-donna-64bit.h and cuda_ed25519.cuh.  They say what the sums, *)
(* differences, products, squares and encodings are modulo the prime, that *)
(* no word wraps that must not, and that the formulas of points add them   *)
(* by the law of the curve.                                                *)
(*                                                                         *)
(* The proofs go from the carries up.  Each operation has bounds on limbs  *)
(* it is given and keeps bounds on those it makes: Stands is what products *)
(* leave, Basic a sum or difference of two such, Fits what a product takes.*)
(* The formulas then need no look at limbs: FieldSums and FieldProducts    *)
(* say what they compute, in numbers, and the rest is the law, LawOnCurve. *)
(***************************************************************************)
EXTENDS Integers, FiniteSets, FiniteSetTheorems, WellFoundedInduction, TLAPS
CONSTANTS
    Width, Fold, Word,                             \* as in DonnaField
    zero, one, two, ecd, ec2d, sqrtneg1, eightz,   \* limbs of constants
    SignBit, Scalars, CUDA_BATCH                   \* as in DonnaGroup and CudaGroup
D == INSTANCE DonnaField

Spare == 8192    \* what a word has beyond a limb: thirteen bits
Least == 262144  \* the least base
Most == 8000     \* limbs of so many times the base can be reduced
Slack == 32768   \* what a product leaves above the base

DonnaSizes ==
    /\ Width \in Nat /\ Width >= 18
    /\ Fold \in 1 .. 19
    /\ Word = 2 ^ (Width + 13)

\* At most `most' times the base in each limb.
Within(f, most) == \A i \in 0 .. 4 : f[i] <= most * D!Full
Limbs5 == [0 .. 4 -> Nat]
Value5(f) == f[0] + D!Full * (f[1] + D!Full * (f[2] + D!Full * (f[3] + D!Full * f[4])))
Prime5 == D!Full * D!Full * D!Full * D!Full * D!Full - Fold
Same5(x, y) == \E k \in Int : x = y + k * Prime5
\* What a product leaves
Tight(f) == f \in Limbs5 /\ \A i \in 0 .. 4 : f[i] < D!Full + Slack

-----------------------------------------------------------------------------
(* Induction *)

\* Every set of numbers that is not empty has a least one.
LEMMA LeastNumber ==
    ASSUME NEW S \in SUBSET Nat, S # {}
    PROVE  \E m \in S : \A i \in S : m <= i
<1>. DEFINE upto(i) == 0 .. i
<1>. DEFINE T == {upto(i) : i \in S}
<1>1. T \subseteq FiniteSubsetsOf(Nat) /\ T # {}
  <2>1. \A i \in S : IsFiniteSet(upto(i)) /\ upto(i) \in SUBSET Nat
    BY FS_Interval
  <2>. HIDE DEF upto
  <2>. QED
    BY <2>1 DEF FiniteSubsetsOf
<1>2. PICK x \in T : \A y \in T : <<y, x>> \notin StrictSubsetOrdering(Nat)
  BY ONLY <1>1, FS_StrictSubsetOrderingWellFounded, WFMin
<1>3. PICK m \in S : x = upto(m)
  OBVIOUS
<1>4. ASSUME NEW i \in S, i < m PROVE FALSE
  <2>1. upto(i) \subseteq upto(m) /\ m \in upto(m) /\ m \notin upto(i) /\ m \in Nat
    <3>1. i \in Nat /\ m \in Nat
      OBVIOUS
    <3>. QED
      BY ONLY <1>4, <3>1
  <2>2. upto(i) \in SUBSET Nat /\ upto(m) \in SUBSET Nat /\ upto(i) \in T
    <3>1. \A q \in Nat : upto(q) \in SUBSET Nat
      BY ONLY TRUE
    <3>. QED
      BY <3>1
  <2>3. <<upto(i), upto(m)>> \in StrictSubsetOrdering(Nat)
    BY <2>1, <2>2 DEF StrictSubsetOrdering
  <2>. QED
    BY <1>2, <1>3, <2>2, <2>3
<1>. QED
  BY <1>4

\* What holds of 0, and of k + 1 if of k, holds of all.
LEMMA Upwards ==
    ASSUME NEW n \in Nat, NEW G, 0 \in G, \A k \in Nat : k < n /\ k \in G => k + 1 \in G
    PROVE  \A k \in 0 .. n : k \in G
<1>. DEFINE bad == {k \in 0 .. n : k \notin G}
<1>1. ASSUME bad # {} PROVE FALSE
  <2>1. PICK m \in bad : \A i \in bad : m <= i
    <3>1. bad \in SUBSET Nat
      OBVIOUS
    <3>. HIDE DEF bad
    <3>. QED
      BY ONLY <3>1, <1>1, LeastNumber
  <2>2. m \in Nat /\ m <= n /\ m \notin G /\ m # 0
    OBVIOUS
  <2>3. m - 1 \in Nat /\ m - 1 < n /\ m - 1 + 1 = m /\ m - 1 \in 0 .. n /\ ~(m <= m - 1)
    BY ONLY <2>2, n \in Nat
  <2>4. m - 1 \notin bad
    BY ONLY <2>1, <2>3
  <2>. QED
    BY <2>2, <2>3, <2>4
<1>. QED
  BY <1>1

-----------------------------------------------------------------------------
(* Powers of two *)

\* Powers of two count subsets.
LEMMA Power ==
    ASSUME NEW n \in Nat
    PROVE  2 ^ n = Cardinality(SUBSET (1 .. n)) /\ IsFiniteSet(SUBSET (1 .. n)) /\ 2 ^ n \in Nat
<1>1. IsFiniteSet(1 .. n) /\ Cardinality(1 .. n) = n
  BY FS_Interval
<1>2. IsFiniteSet(SUBSET (1 .. n)) /\ Cardinality(SUBSET (1 .. n)) = 2 ^ Cardinality(1 .. n)
  BY ONLY <1>1, FS_SUBSET
<1>3. Cardinality(SUBSET (1 .. n)) \in Nat
  BY ONLY <1>2, FS_CardinalityType
<1>. QED
  BY ONLY <1>1, <1>2, <1>3

\* One more bit doubles a power of two, since it doubles the subsets.
LEMMA Doubled ==
    ASSUME NEW n \in Nat
    PROVE  2 ^ (n + 1) = 2 * 2 ^ n
<1>. DEFINE low == SUBSET (1 .. n)
<1>. DEFINE with(s) == s \cup {n + 1}
<1>. DEFINE high == {with(s) : s \in low}
<1>1. SUBSET (1 .. n + 1) = low \cup high
  <2>1. ASSUME NEW s \in SUBSET (1 .. n + 1) PROVE s \in low \cup high
    <3>1. s \ {n + 1} \in low
      OBVIOUS
    <3>2. n + 1 \in s => s = with(s \ {n + 1})
      OBVIOUS
    <3>3. n + 1 \notin s => s \in low
      OBVIOUS
    <3>. QED
      BY <3>1, <3>2, <3>3
  <2>2. \A s \in low : s \in SUBSET (1 .. n + 1) /\ with(s) \in SUBSET (1 .. n + 1)
    OBVIOUS
  <2>3. ASSUME NEW s \in low \cup high PROVE s \in SUBSET (1 .. n + 1)
    <3>1. s \in low \/ \E u \in low : s = with(u)
      OBVIOUS
    <3>. QED
      BY <2>2, <3>1
  <2>. HIDE DEF low, high
  <2>. QED
    BY <2>1, <2>3
<1>2. low \cap high = {}
  OBVIOUS
<1>3. IsFiniteSet(low) /\ Cardinality(low) = 2 ^ n /\ 2 ^ n \in Nat
  BY Power
<1>4. IsFiniteSet(high) /\ Cardinality(high) = Cardinality(low)
  <2>. DEFINE f == [s \in low |-> with(s)]
  <2>1. f \in [low -> high]
    OBVIOUS
  <2>2. \A s, t \in low : f[s] = f[t] => s = t
    <3>1. ASSUME NEW s \in low, NEW t \in low, with(s) = with(t) PROVE s = t
      <4>1. s = with(s) \ {n + 1} /\ t = with(t) \ {n + 1}
        OBVIOUS
      <4>. QED
        BY ONLY <3>1, <4>1
    <3>. QED
      BY <3>1
  <2>3. \A t \in high : \E s \in low : f[s] = t
    OBVIOUS
  <2>4. f \in Bijection(low, high)
    BY <2>1, <2>2, <2>3 DEF Bijection, Injection, Surjection, IsInjective
  <2>. QED
    BY <1>3, <2>4, FS_Bijection DEF ExistsBijection
<1>5. Cardinality(low \cup high) = Cardinality(low) + Cardinality(high) - Cardinality(low \cap high)
  BY ONLY <1>3, <1>4, FS_Union
<1>6. Cardinality(SUBSET (1 .. n + 1)) = 2 ^ (n + 1)
  BY Power
<1>7. Cardinality(low \cap high) = 0
  BY ONLY <1>2, FS_EmptySet
<1>8. 2 ^ (n + 1) = 2 ^ n + 2 ^ n - 0
  BY ONLY <1>1, <1>3, <1>4, <1>5, <1>6, <1>7
<1>. QED
  BY ONLY <1>3, <1>8

\* A limb is far below its word: 2^18 and thirteen doublings.
LEMMA FarBelow ==
    ASSUME NEW n \in Nat
    PROVE  2 ^ 0 = 1 /\ 2 ^ (n + 18) >= Least /\ 2 ^ (n + 13) = Spare * 2 ^ n
<1>1. 2 ^ 0 = 1
  <2>1. SUBSET (1 .. 0) = {{}}
    OBVIOUS
  <2>2. Cardinality({{}}) = 1
    BY FS_Singleton
  <2>. QED
    BY ONLY <2>1, <2>2, 0 \in Nat, Power
<1>2. \A m \in Nat : 2 ^ m \in Nat /\ 2 ^ (m + 1) = 2 * 2 ^ m
  BY Power, Doubled
<1>3. ASSUME NEW m \in Nat PROVE 2 ^ (m + 4) = 16 * 2 ^ m
  <2>1. m + 1 \in Nat /\ m + 2 \in Nat /\ m + 3 \in Nat /\ m + 1 + 1 = m + 2 /\ m + 2 + 1 = m + 3
        /\ m + 3 + 1 = m + 4
    OBVIOUS
  <2>2. /\ 2 ^ (m + 1) = 2 * 2 ^ m /\ 2 ^ (m + 2) = 2 * 2 ^ (m + 1)
        /\ 2 ^ (m + 3) = 2 * 2 ^ (m + 2) /\ 2 ^ (m + 4) = 2 * 2 ^ (m + 3) /\ 2 ^ m \in Nat
    BY ONLY <1>2, <2>1
  <2>. QED
    BY ONLY <2>2
<1>4. ASSUME NEW m \in Nat PROVE 2 ^ (m + 13) = Spare * 2 ^ m
  <2>1. m + 4 \in Nat /\ m + 8 \in Nat /\ m + 12 \in Nat /\ m + 4 + 4 = m + 8 /\ m + 8 + 4 = m + 12
        /\ m + 12 + 1 = m + 13
    OBVIOUS
  <2>2. /\ 2 ^ (m + 4) = 16 * 2 ^ m /\ 2 ^ (m + 8) = 16 * 2 ^ (m + 4)
        /\ 2 ^ (m + 12) = 16 * 2 ^ (m + 8) /\ 2 ^ (m + 13) = 2 * 2 ^ (m + 12) /\ 2 ^ m \in Nat
    BY ONLY <1>2, <1>3, <2>1
  <2>. QED
    BY ONLY <2>2, SMT DEF Spare
<1>5. ASSUME NEW m \in Nat PROVE 2 ^ m >= 1
  <2>. DEFINE G == {k \in Nat : 2 ^ k >= 1}
  <2>1. 0 \in G
    BY ONLY <1>1
  <2>2. \A k \in Nat : k < m /\ k \in G => k + 1 \in G
    BY ONLY <1>2
  <2>. HIDE DEF G
  <2>3. \A k \in 0 .. m : k \in G
    BY ONLY <2>1, <2>2, m \in Nat, Upwards
  <2>. QED
    BY <2>3 DEF G
<1>6. 2 ^ (n + 18) >= Least
  <2>1. n + 5 \in Nat /\ n + 4 \in Nat /\ n + 4 + 1 = n + 5 /\ n + 5 + 13 = n + 18
    OBVIOUS
  <2>2. /\ 2 ^ (n + 4) = 16 * 2 ^ n /\ 2 ^ (n + 5) = 2 * 2 ^ (n + 4)
        /\ 2 ^ (n + 18) = Spare * 2 ^ (n + 5)
        /\ 2 ^ n >= 1 /\ 2 ^ n \in Nat
    BY ONLY <1>2, <1>3, <1>4, <1>5, <2>1, n \in Nat
  <2>. QED
    BY ONLY <2>2, SMT DEF Spare, Least
<1>. QED
  BY <1>1, <1>4, <1>6

-----------------------------------------------------------------------------
(* Limbs *)

\* What the sizes are for.
LEMMA Base ==
    ASSUME DonnaSizes
    PROVE  /\ D!Full \in Nat /\ D!Full > 0 /\ D!Full >= Least /\ Most < D!Full
           /\ Word \in Nat /\ Word = Spare * D!Full
           /\ Fold \in 1 .. 19
<1>1. Width \in Nat /\ Width - 18 \in Nat /\ (Width - 18) + 18 = Width /\ Fold \in 1 .. 19
  BY DEF DonnaSizes
<1>2. 2 ^ Width \in Nat /\ 2 ^ Width >= Least /\ Word = Spare * 2 ^ Width
  <2>1. 2 ^ Width \in Nat
    BY ONLY <1>1, Power
  <2>2. 2 ^ ((Width - 18) + 18) >= Least
    BY ONLY <1>1, FarBelow
  <2>3. 2 ^ (Width + 13) = Spare * 2 ^ Width
    BY ONLY <1>1, FarBelow
  <2>. QED
    BY ONLY <1>1, <2>1, <2>2, <2>3, DonnaSizes, Zenon DEF DonnaSizes
<1>. QED
  BY ONLY <1>1, <1>2, SMT DEF D!Full, Spare, Least, Most

\* Division with a remainder.
LEMMA Divided ==
    ASSUME NEW b \in Nat, b > 0, NEW x \in Nat
    PROVE  /\ x = b * (x \div b) + (x % b)
           /\ x % b \in Nat /\ x % b < b
           /\ x \div b \in Nat
<1>1. x = b * (x \div b) + (x % b) /\ x % b \in 0 .. b - 1 /\ x \div b \in Int
  BY SMT
<1>2. x \div b >= 0
  BY <1>1, SMT
<1>. QED
  BY <1>1, <1>2

\* The limbs of a walk of carries, from the lowest on.
LEMMA Carries5 ==
    ASSUME NEW t \in Limbs5, DonnaSizes
    PROVE  LET v == D!Carried(t)
           IN  /\ v = [i \in 0 .. 4 |-> v[i]]
               /\ v[0] = t[0] % Word
               /\ \A i \in 1 .. 4 : v[i] = (t[i] + (v[i - 1] \div D!Full)) % Word
<1>. DEFINE body(f, i) == (t[i] + ((IF i = 0 THEN 0 ELSE f[i - 1]) \div D!Full)) % Word
<1>. DEFINE v == CHOOSE f : f = [i \in 0 .. 4 |-> body(f, i)]
<1>1. \E f : f = [i \in 0 .. 4 |-> body(f, i)]
  <2>. DEFINE f0 == t[0] % Word
              f1 == (t[1] + (f0 \div D!Full)) % Word
              f2 == (t[2] + (f1 \div D!Full)) % Word
              f3 == (t[3] + (f2 \div D!Full)) % Word
              f4 == (t[4] + (f3 \div D!Full)) % Word
              f == [i \in 0 .. 4 |-> IF i = 0 THEN f0 ELSE IF i = 1 THEN f1 ELSE IF i = 2 THEN f2
                  ELSE IF i = 3 THEN f3 ELSE f4]
  <2>1. 0 \div D!Full = 0 /\ t[0] + 0 = t[0]
    BY Base, SMT DEF Limbs5
  <2>2. f[0] = f0 /\ f[1] = f1 /\ f[2] = f2 /\ f[3] = f3 /\ f[4] = f4
    OBVIOUS
  <2>3. body(f, 0) = f0
    BY <2>1
  <2>4. body(f, 1) = f1 /\ body(f, 2) = f2 /\ body(f, 3) = f3 /\ body(f, 4) = f4
    <3>. HIDE DEF f, f0, f1, f2, f3, f4
    <3>1. body(f, 1) = (t[1] + (f[0] \div D!Full)) % Word
          /\ body(f, 2) = (t[2] + (f[1] \div D!Full)) % Word
           /\ body(f, 3) = (t[3] + (f[2] \div D!Full)) % Word
           /\ body(f, 4) = (t[4] + (f[3] \div D!Full)) % Word
      OBVIOUS
    <3>. QED
      BY <2>2, <3>1 DEF f1, f2, f3, f4
  <2>. HIDE DEF body, f0, f1, f2, f3, f4
  <2>5. \A i \in 0 .. 4 : body(f, i) = IF i = 0 THEN f0 ELSE IF i = 1 THEN f1 ELSE IF i = 2 THEN f2
            ELSE IF i = 3 THEN f3 ELSE f4
    BY <2>3, <2>4
  <2>6. f = [i \in 0 .. 4 |-> body(f, i)]
    BY <2>5
  <2>. HIDE DEF f
  <2>. QED
    BY <2>6, Zenon
<1>2. v = [i \in 0 .. 4 |-> body(v, i)]
  BY <1>1, Zenon
<1>3. D!Carried(t) = D!Computed(v)
  BY DEF D!Carried, D!Chain
<1>. HIDE DEF v
<1>4. D!Computed(v) = v
  BY Zenon DEF D!Computed
<1>5. 0 \div D!Full = 0 /\ t[0] + 0 = t[0]
  BY Base, SMT DEF Limbs5
<1>6. v[0] = t[0] % Word
  BY <1>2, <1>5
<1>7. \A i \in 1 .. 4 : v[i] = (t[i] + (v[i - 1] \div D!Full)) % Word
  BY <1>2
<1>. QED
  BY <1>2, <1>3, <1>4, <1>6, <1>7

\* A number of at most `most' times the base and as much again carries `most'.
LEMMA SmallQuotient ==
    ASSUME NEW b \in Nat, b > 0, NEW x \in Nat, NEW most \in Nat, most < b,
           x <= most * b + most
    PROVE  x \div b <= most
<1>. DEFINE q == x \div b
<1>1. q \in Nat /\ x >= b * q
  BY Divided
<1>. HIDE DEF q
<1>2. q > most => b * q >= b * (most + 1)
  BY <1>1, SMT
<1>3. b * (most + 1) > most * b + most
  BY SMT
<1>4. ~(q > most)
  BY <1>1, <1>2, <1>3, SMT
<1>. QED
  BY <1>1, <1>4 DEF q

\* The last limb.
LEMMA FourIs == 5 - 1 = 4
  OBVIOUS

\* Five limbs are five numbers.
LEMMA LimbNumbers ==
    ASSUME NEW f, \A i \in 0 .. 4 : f[i] \in Int
    PROVE  \E f0 \in Int, f1 \in Int, f2 \in Int, f3 \in Int, f4 \in Int :
               f[0] = f0 /\ f[1] = f1 /\ f[2] = f2 /\ f[3] = f3 /\ f[4] = f4
<1>1. f[0] \in Int /\ f[1] \in Int /\ f[2] \in Int /\ f[3] \in Int /\ f[4] \in Int
  OBVIOUS
<1>. QED
  BY ONLY <1>1, Zenon

\* The same for limbs that are natural numbers.
LEMMA LimbNaturals ==
    ASSUME NEW f \in Limbs5
    PROVE  \E f0 \in Nat, f1 \in Nat, f2 \in Nat, f3 \in Nat, f4 \in Nat :
               f[0] = f0 /\ f[1] = f1 /\ f[2] = f2 /\ f[3] = f3 /\ f[4] = f4
<1>1. f[0] \in Nat /\ f[1] \in Nat /\ f[2] \in Nat /\ f[3] \in Nat /\ f[4] \in Nat
  BY DEF Limbs5
<1>. QED
  BY ONLY <1>1, Zenon

\* What limbs were divided into, put together again.
LEMMA Telescoped ==
    ASSUME D!Full \in Int, NEW t, NEW r, NEW q,
           \A i \in 0 .. 4 : t[i] \in Int, \A i \in 0 .. 4 : r[i] \in Int,
           \A i \in 0 .. 4 : q[i] \in Int,
           t[0] = D!Full * q[0] + r[0],
           \A i \in 1 .. 4 : t[i] + q[i - 1] = D!Full * q[i] + r[i]
    PROVE  Value5(t) = Value5(r) + D!Full * D!Full * D!Full * D!Full * D!Full * q[4]
<1>1. PICK t0 \in Int, t1 \in Int, t2 \in Int, t3 \in Int, t4 \in Int :
         t[0] = t0 /\ t[1] = t1 /\ t[2] = t2 /\ t[3] = t3 /\ t[4] = t4
  BY LimbNumbers, Zenon
<1>2. PICK r0 \in Int, r1 \in Int, r2 \in Int, r3 \in Int, r4 \in Int :
         r[0] = r0 /\ r[1] = r1 /\ r[2] = r2 /\ r[3] = r3 /\ r[4] = r4
  BY LimbNumbers, Zenon
<1>3. PICK q0 \in Int, q1 \in Int, q2 \in Int, q3 \in Int, q4 \in Int :
         q[0] = q0 /\ q[1] = q1 /\ q[2] = q2 /\ q[3] = q3 /\ q[4] = q4
  BY LimbNumbers, Zenon
<1>4. PICK B \in Int : B = D!Full
  OBVIOUS
<1>5. /\ t[1] + q[0] = D!Full * q[1] + r[1] /\ t[2] + q[1] = D!Full * q[2] + r[2]
      /\ t[3] + q[2] = D!Full * q[3] + r[3] /\ t[4] + q[3] = D!Full * q[4] + r[4]
  OBVIOUS
<1>6. /\ t0 = B * q0 + r0 /\ t1 + q0 = B * q1 + r1 /\ t2 + q1 = B * q2 + r2
      /\ t3 + q2 = B * q3 + r3 /\ t4 + q3 = B * q4 + r4
  BY <1>1, <1>2, <1>3, <1>4, <1>5, Zenon
<1>7. /\ t0 = B * q0 + r0 /\ t1 = B * q1 + r1 - q0 /\ t2 = B * q2 + r2 - q1
      /\ t3 = B * q3 + r3 - q2 /\ t4 = B * q4 + r4 - q3
  BY ONLY <1>6, SMT
<1>8. (B * q0 + r0) + B * ((B * q1 + r1 - q0) + B * ((B * q2 + r2 - q1)
        + B * ((B * q3 + r3 - q2) + B * (B * q4 + r4 - q3))))
      = (r0 + B * (r1 + B * (r2 + B * (r3 + B * r4)))) + B * B * B * B * B * q4
  BY ONLY SMT
<1>9. t0 + B * (t1 + B * (t2 + B * (t3 + B * t4)))
      = (r0 + B * (r1 + B * (r2 + B * (r3 + B * r4)))) + B * B * B * B * B * q4
  BY ONLY <1>7, <1>8
<1>. QED
  BY ONLY <1>1, <1>2, <1>3, <1>4, <1>9, Zenon DEF Value5

\* One limb of it: nothing wraps, and what is carried on is small.
LEMMA OneCarry ==
    ASSUME DonnaSizes, NEW most \in Nat, 0 < most, most <= Most, NEW t \in Nat, t <= most * D!Full,
           NEW below \in 0 .. most, NEW v, v = (t + below) % Word
    PROVE  /\ v \in Nat /\ v = t + below /\ v <= most * D!Full + most /\ v < Word
           /\ v \div D!Full \in 0 .. most /\ v % D!Full \in 0 .. D!Full - 1
           /\ v = D!Full * (v \div D!Full) + (v % D!Full)
<1>1. D!Full \in Nat /\ D!Full > 0 /\ Word = Spare * D!Full /\ Word \in Nat /\ most < D!Full
  BY Base, Most \in Nat, SMT DEF Most
<1>2. t + below \in Nat /\ t + below <= most * D!Full + most
  BY <1>1, SMT
<1>3. most * D!Full + most < Word
  BY <1>1, SMT DEF Spare, Most
<1>4. v = t + below
  BY <1>1, <1>2, <1>3, SMT
<1>5. v \div D!Full <= most
  BY <1>1, <1>2, <1>4, SmallQuotient
<1>6. /\ v = D!Full * (v \div D!Full) + (v % D!Full)
      /\ v % D!Full \in Nat /\ v % D!Full < D!Full /\ v \div D!Full \in Nat
  BY <1>1, <1>2, <1>4, Divided
<1>7. v \div D!Full \in 0 .. most
  BY ONLY <1>5, <1>6, most \in Nat
<1>8. v % D!Full \in 0 .. D!Full - 1
  BY ONLY <1>1, <1>6
<1>9. v \in Nat /\ v <= most * D!Full + most /\ v < Word
  BY ONLY <1>1, <1>2, <1>3, <1>4, most \in Nat
<1>. QED
  BY ONLY <1>4, <1>6, <1>7, <1>8, <1>9, Zenon

\* A walk of carries over limbs of at most `most' times the base wraps nowhere.
LEMMA CarriedRight ==
    ASSUME DonnaSizes, NEW t \in Limbs5, NEW most \in Nat, 0 < most, most <= Most, Within(t, most),
           NEW v, v = D!Carried(t)
    PROVE  /\ v \in Limbs5
           /\ \A i \in 0 .. 4 : /\ v[i] <= most * D!Full + most /\ v[i] < Word
                                /\ v[i] \div D!Full \in 0 .. most
                                /\ v[i] % D!Full \in 0 .. D!Full - 1
           /\ v[0] = t[0] /\ \A i \in 1 .. 4 : v[i] = t[i] + (v[i - 1] \div D!Full)
           /\ Value5(t) = Value5([i \in 0 .. 4 |-> v[i] % D!Full])
                           + D!Full * D!Full * D!Full * D!Full * D!Full * (v[4] \div D!Full)
<1>1. D!Full \in Nat
  BY Base
<1>2. \A i \in 0 .. 4 : t[i] \in Nat /\ t[i] <= most * D!Full
  BY DEF Limbs5, Within
<1>3. v = [i \in 0 .. 4 |-> v[i]] /\ v[0] = t[0] % Word
      /\ \A i \in 1 .. 4 : v[i] = (t[i] + (v[i - 1] \div D!Full)) % Word
  BY Carries5
<1>4. /\ v[0] \in Nat /\ v[0] = t[0] + 0 /\ v[0] <= most * D!Full + most /\ v[0] < Word
      /\ v[0] \div D!Full \in 0 .. most /\ v[0] % D!Full \in 0 .. D!Full - 1
      /\ v[0] = D!Full * (v[0] \div D!Full) + (v[0] % D!Full)
  <2>1. t[0] \in Nat /\ t[0] <= most * D!Full /\ 0 \in 0 .. most /\ v[0] = (t[0] + 0) % Word
    BY <1>2, <1>3
  <2>. QED
    BY ONLY <2>1, DonnaSizes, most \in Nat, 0 < most, most <= Most, OneCarry
<1>5. ASSUME NEW i \in 1 .. 4, v[i - 1] \div D!Full \in 0 .. most
      PROVE  /\ v[i] \in Nat /\ v[i] = t[i] + (v[i - 1] \div D!Full)
             /\ v[i] <= most * D!Full + most /\ v[i] < Word
             /\ v[i] \div D!Full \in 0 .. most /\ v[i] % D!Full \in 0 .. D!Full - 1
             /\ v[i] = D!Full * (v[i] \div D!Full) + (v[i] % D!Full)
  <2>1. t[i] \in Nat /\ t[i] <= most * D!Full /\ v[i] = (t[i] + (v[i - 1] \div D!Full)) % Word
    BY <1>2, <1>3
  <2>. QED
    BY ONLY <2>1, <1>5, DonnaSizes, most \in Nat, 0 < most, most <= Most, OneCarry
<1>6. \A i \in 1 .. 4 :
             /\ v[i] \in Nat /\ v[i] = t[i] + (v[i - 1] \div D!Full)
             /\ v[i] <= most * D!Full + most /\ v[i] < Word
             /\ v[i] \div D!Full \in 0 .. most /\ v[i] % D!Full \in 0 .. D!Full - 1
             /\ v[i] = D!Full * (v[i] \div D!Full) + (v[i] % D!Full)
  <2>1. v[1] \div D!Full \in 0 .. most
    BY <1>4, <1>5
  <2>2. v[2] \div D!Full \in 0 .. most
    BY <2>1, <1>5
  <2>3. v[3] \div D!Full \in 0 .. most
    BY <2>2, <1>5
  <2>4. \A i \in 1 .. 4 : v[i - 1] \div D!Full \in 0 .. most
    BY <1>4, <2>1, <2>2, <2>3
  <2>. QED
    BY <1>5, <2>4
<1>7. v \in Limbs5
  BY <1>3, <1>4, <1>6 DEF Limbs5
<1>8. \A i \in 0 .. 4 : /\ v[i] <= most * D!Full + most /\ v[i] < Word
                        /\ v[i] \div D!Full \in 0 .. most
                        /\ v[i] % D!Full \in 0 .. D!Full - 1
  BY <1>4, <1>6
<1>9. Value5(t) = Value5([i \in 0 .. 4 |-> v[i] % D!Full])
                    + D!Full * D!Full * D!Full * D!Full * D!Full * (v[4] \div D!Full)
  <2>. DEFINE r == [i \in 0 .. 4 |-> v[i] % D!Full]
              q == [i \in 0 .. 4 |-> v[i] \div D!Full]
  <2>1. \A i \in 0 .. 4 : r[i] = v[i] % D!Full /\ q[i] = v[i] \div D!Full
    OBVIOUS
  <2>. HIDE DEF r, q
  <2>2. /\ \A i \in 0 .. 4 : t[i] \in Int
        /\ \A i \in 0 .. 4 : r[i] \in Int
        /\ \A i \in 0 .. 4 : q[i] \in Int
    <3>1. \A i \in 0 .. 4 : t[i] \in Int
      BY <1>2
    <3>2. \A i \in 0 .. 4 : v[i] % D!Full \in Int /\ v[i] \div D!Full \in Int
      BY ONLY <1>1, <1>8, most \in Nat
    <3>. QED
      BY ONLY <2>1, <3>1, <3>2
  <2>3. t[0] = D!Full * q[0] + r[0]
    BY <1>2, <1>4, <2>1
  <2>4. \A i \in 1 .. 4 : t[i] + q[i - 1] = D!Full * q[i] + r[i]
    <3>1. \A i \in 1 .. 4 : q[i - 1] = v[i - 1] \div D!Full
      BY <2>1
    <3>. QED
      BY <1>6, <2>1, <3>1
  <2>5. Value5(t) = Value5(r) + D!Full * D!Full * D!Full * D!Full * D!Full * q[4]
    BY ONLY <1>1, <2>2, <2>3, <2>4, Telescoped
  <2>. QED
    BY <2>1, <2>5 DEF r
<1>. QED
  BY <1>2, <1>4, <1>6, <1>9, <1>7, <1>8

-----------------------------------------------------------------------------
(* Sums, differences and their reduction *)

\* Limbs that are small and their number.
LEMMA ValueIs ==
    ASSUME DonnaSizes, NEW f \in Limbs5
    PROVE  Value5(f) \in Nat /\ Prime5 \in Nat
<1>1. D!Full \in Nat /\ D!Full >= Least /\ Fold \in 1 .. 19
  BY Base
<1>2. PICK B \in Nat : B = D!Full
  BY <1>1, Zenon
<1>3. /\ f[0] \in Nat /\ f[1] \in Nat /\ f[2] \in Nat /\ f[3] \in Nat /\ f[4] \in Nat
  BY DEF Limbs5
<1>4. B * f[4] \in Nat
  BY ONLY <1>3, B \in Nat
<1>5. B * (f[3] + B * f[4]) \in Nat
  BY ONLY <1>3, <1>4, B \in Nat
<1>6. B * (f[2] + B * (f[3] + B * f[4])) \in Nat
  BY ONLY <1>3, <1>5, B \in Nat
<1>7. B * (f[1] + B * (f[2] + B * (f[3] + B * f[4]))) \in Nat
  BY ONLY <1>3, <1>6, B \in Nat
<1>8. f[0] + B * (f[1] + B * (f[2] + B * (f[3] + B * f[4]))) \in Nat
  BY ONLY <1>3, <1>7
<1>9. B * B * B * B * B - Fold \in Nat
  <2>1. B * B \in Nat /\ B * B >= B
    BY <1>1, <1>2, SMT
  <2>2. B * B * B \in Nat /\ B * B * B >= B
    BY <1>1, <1>2, <2>1, SMT
  <2>3. B * B * B * B \in Nat /\ B * B * B * B >= B
    BY <1>1, <1>2, <2>2, SMT
  <2>4. B * B * B * B * B \in Nat /\ B * B * B * B * B >= B
    BY <1>1, <1>2, <2>3, SMT
  <2>5. B >= 19
    BY <1>1, <1>2, SMT DEF Least
  <2>6. ASSUME NEW x \in Nat, x >= B PROVE x - Fold \in Nat
    BY <1>1, <2>5, <2>6
  <2>. QED
    BY ONLY <2>4, <2>6
<1>. QED
  BY ONLY <1>2, <1>8, <1>9, Zenon DEF Value5, Prime5

\* Numbers that differ by multiples of the prime.
LEMMA SameIs ==
    ASSUME Prime5 \in Int
    PROVE  /\ \A x \in Int : Same5(x, x)
           /\ \A x, y, z \in Int : Same5(x, y) /\ Same5(y, z) => Same5(x, z)
           /\ \A x, y \in Int : Same5(x, y) => Same5(y, x) /\ Same5(-x, -y)
           /\ \A x, y, u, v \in Int :
                 Same5(x, y) /\ Same5(u, v) => Same5(x + u, y + v) /\ Same5(x - u, y - v)
                 /\ Same5(x * u, y * v)
<1>1. PICK P \in Int : P = Prime5
  OBVIOUS
<1>2. ASSUME NEW x \in Int PROVE Same5(x, x)
  <2>1. x = x + 0 * P
    BY SMT
  <2>. QED
    BY ONLY <1>1, <2>1, 0 \in Int DEF Same5
<1>3. ASSUME NEW x \in Int, NEW y \in Int, NEW z \in Int, Same5(x, y), Same5(y, z) PROVE Same5(x, z)
  <2>1. PICK k \in Int : x = y + k * P
    BY <1>1, <1>3, Zenon DEF Same5
  <2>2. PICK l \in Int : y = z + l * P
    BY <1>1, <1>3, Zenon DEF Same5
  <2>3. x = z + (k + l) * P /\ k + l \in Int
    BY <2>1, <2>2, SMT
  <2>. QED
    BY <1>1, <2>3, Zenon DEF Same5
<1>4. ASSUME NEW x \in Int, NEW y \in Int, Same5(x, y) PROVE Same5(y, x) /\ Same5(-x, -y)
  <2>1. PICK k \in Int : x = y + k * P
    BY <1>1, <1>4, Zenon DEF Same5
  <2>2. y = x + (-k) * P /\ -x = -y + (-k) * P /\ -k \in Int
    BY <2>1, SMT
  <2>. QED
    BY <1>1, <2>2, Zenon DEF Same5
<1>5. ASSUME NEW x \in Int, NEW y \in Int, NEW u \in Int, NEW v \in Int, Same5(x, y), Same5(u, v)
      PROVE  Same5(x + u, y + v) /\ Same5(x - u, y - v) /\ Same5(x * u, y * v)
  <2>1. PICK k \in Int : x = y + k * P
    BY <1>1, <1>5, Zenon DEF Same5
  <2>2. PICK l \in Int : u = v + l * P
    BY <1>1, <1>5, Zenon DEF Same5
  <2>3. x + u = y + v + (k + l) * P /\ k + l \in Int
    BY <2>1, <2>2, SMT
  <2>4. x - u = y - v + (k - l) * P /\ k - l \in Int
    BY <2>1, <2>2, SMT
  <2>5. x * u = y * v + (k * v + l * y + k * l * P) * P /\ k * v + l * y + k * l * P \in Int
    BY <2>1, <2>2, SMT
  <2>. QED
    BY <1>1, <2>3, <2>4, <2>5, Zenon DEF Same5
<1>. QED
  BY <1>2, <1>3, <1>4, <1>5

\* A walk of carries and the fold keep the number modulo the prime, and limb 0
\* outgrows the base by what the last limb, of at most `last' times it, carries.
LEMMA ReducedRight ==
    ASSUME DonnaSizes, NEW t \in Limbs5, NEW most \in Nat, 0 < most, most <= Most, Within(t, most),
           NEW last \in Nat, t[4] <= last * D!Full,
           NEW r, r = D!Reduced(t)
    PROVE  /\ r \in Limbs5
           /\ \A i \in 1 .. 4 : r[i] < D!Full
           /\ \E q \in 0 .. last :
                 Value5(t) = Value5(r) + q * Prime5 /\ r[0] <= D!Full - 1 + Fold * q
<1>. DEFINE v == D!Carried(t)
<1>. DEFINE m == [i \in 0 .. 4 |-> v[i] % D!Full]
<1>. DEFINE q == v[4] \div D!Full
<1>1. D!Full \in Nat /\ D!Full > 0 /\ D!Full >= Least /\ Word \in Nat /\ Word = Spare * D!Full
      /\ Fold \in 1 .. 19
  BY Base
<1>2. /\ \A i \in 0 .. 4 : v[i] % D!Full \in 0 .. D!Full - 1
      /\ q \in 0 .. most
      /\ Value5(t) = Value5(m) + D!Full * D!Full * D!Full * D!Full * D!Full * q
  BY CarriedRight
<1>3. q <= last
  <2>1. v[4] = t[4] + (v[3] \div D!Full) /\ v[3] \div D!Full \in 0 .. most /\ v[4] \in Nat
    <3>1. /\ v \in Limbs5
          /\ \A i \in 0 .. 4 : v[i] \div D!Full \in 0 .. most
          /\ \A i \in 1 .. 4 : v[i] = t[i] + (v[i - 1] \div D!Full)
      BY CarriedRight, Zenon DEF v
    <3>. QED
      BY ONLY <3>1 DEF Limbs5
  <2>2. most < D!Full
    BY <1>1, SMT DEF Most, Least
  <2>3. v[4] = D!Full * q + (v[4] % D!Full) /\ v[4] % D!Full \in Nat
    BY ONLY <1>1, <2>1, Divided
  <2>4. PICK x \in Nat, y \in Nat, z \in Nat, k \in Nat, w \in Nat, B \in Nat :
           /\ x = v[4] /\ y = t[4] /\ z = v[3] \div D!Full /\ k = q /\ w = v[4] % D!Full /\ B = D!Full
    <3>1. v[3] \div D!Full \in Nat /\ q \in Nat /\ t[4] \in Nat
      BY <1>2, <2>1 DEF Limbs5
    <3>. QED
      BY ONLY <1>1, <2>1, <2>3, <3>1, Zenon
  <2>5. x = y + z /\ z <= most /\ most < B /\ x = B * k + w /\ y <= last * B
    BY ONLY <2>1, <2>2, <2>3, <2>4, t[4] <= last * D!Full, most \in Nat
  <2>6. k > last => B * k >= B * (last + 1)
    BY ONLY last \in Nat, SMT
  <2>7. ~(k > last)
    BY ONLY <2>5, <2>6, last \in Nat, most \in Nat, SMT
  <2>. QED
    BY ONLY <2>4, <2>7, last \in Nat
<1>4. r = [i \in 0 .. 4 |-> IF i = 0 THEN ((v[0] % D!Full) + Fold * q) % Word ELSE v[i] % D!Full]
  BY FourIs, Zenon DEF D!Reduced, D!Mask, D!Table, D!Computed
<1>. HIDE DEF v, q
<1>5. Fold * q \in Nat /\ Fold * q < D!Full
  <2>1. q \in Nat /\ q <= Most
    BY <1>2 DEF Most
  <2>2. Fold * q \in Nat /\ Fold * q <= 19 * q
    BY <1>1, <2>1, SMT
  <2>. QED
    BY <1>1, <2>1, <2>2, SMT DEF Most, Least
<1>6. ((v[0] % D!Full) + Fold * q) % Word = (v[0] % D!Full) + Fold * q
  <2>1. v[0] % D!Full \in Nat /\ v[0] % D!Full < D!Full
    BY <1>1, <1>2
  <2>2. (v[0] % D!Full) + Fold * q \in Nat /\ (v[0] % D!Full) + Fold * q < Word
    BY <1>1, <1>5, <2>1, SMT DEF Spare
  <2>. QED
    BY ONLY <1>1, <2>2, SMT
<1>7. /\ r[0] = m[0] + Fold * q /\ r[1] = m[1] /\ r[2] = m[2] /\ r[3] = m[3] /\ r[4] = m[4]
  BY <1>4, <1>6
<1>8. \A i \in 0 .. 4 : m[i] \in 0 .. D!Full - 1
  BY <1>2
<1>9. r \in Limbs5 /\ (\A i \in 1 .. 4 : r[i] < D!Full) /\ r[0] <= D!Full - 1 + Fold * q
  <2>1. m[0] + Fold * q \in Nat /\ m[0] + Fold * q <= D!Full - 1 + Fold * q
    BY <1>1, <1>5, <1>8
  <2>2. \A i \in 1 .. 4 : r[i] \in Nat /\ r[i] < D!Full
    BY <1>1, <1>7, <1>8
  <2>. QED
    BY <1>4, <1>7, <2>1, <2>2 DEF Limbs5
<1>. HIDE DEF m
<1>10. Value5(t) = Value5(r) + q * Prime5
  <2>1. PICK B \in Int : B = D!Full
    BY <1>1
  <2>2. PICK m0 \in Int, m1 \in Int, m2 \in Int, m3 \in Int, m4 \in Int :
           m[0] = m0 /\ m[1] = m1 /\ m[2] = m2 /\ m[3] = m3 /\ m[4] = m4
    <3>1. \A i \in 0 .. 4 : m[i] \in Int
      BY <1>1, <1>8
    <3>. QED
      BY <3>1, LimbNumbers, Zenon
  <2>3. PICK k \in Int : k = q
    BY <1>2
  <2>4. Fold \in Int
    BY <1>1
  <2>5. m0 + B * (m1 + B * (m2 + B * (m3 + B * m4))) + B * B * B * B * B * k
          = (m0 + Fold * k) + B * (m1 + B * (m2 + B * (m3 + B * m4))) + k * (B * B * B * B * B - Fold)
    BY ONLY <2>4, SMT
  <2>. QED
    BY <1>2, <1>7, <2>1, <2>2, <2>3, <2>5, Zenon DEF Value5, Prime5
<1>11. q \in 0 .. last
  BY ONLY <1>2, <1>3, most \in Nat, last \in Nat
<1>. QED
  BY <1>9, <1>10, <1>11

\* Limbs that add up stand for numbers that do.
LEMMA ValueSum ==
    ASSUME D!Full \in Int, NEW a, NEW b, NEW f,
           \A i \in 0 .. 4 : a[i] \in Int, \A i \in 0 .. 4 : b[i] \in Int,
           \A i \in 0 .. 4 : f[i] = a[i] + b[i]
    PROVE  Value5(f) = Value5(a) + Value5(b) /\ Value5(a) \in Int /\ Value5(b) \in Int
<1>1. PICK a0 \in Int, a1 \in Int, a2 \in Int, a3 \in Int, a4 \in Int :
         a[0] = a0 /\ a[1] = a1 /\ a[2] = a2 /\ a[3] = a3 /\ a[4] = a4
  BY LimbNumbers, Zenon
<1>2. PICK b0 \in Int, b1 \in Int, b2 \in Int, b3 \in Int, b4 \in Int :
         b[0] = b0 /\ b[1] = b1 /\ b[2] = b2 /\ b[3] = b3 /\ b[4] = b4
  BY LimbNumbers, Zenon
<1>3. PICK B \in Int : B = D!Full
  BY Zenon
<1>4. f[0] = a[0] + b[0] /\ f[1] = a[1] + b[1] /\ f[2] = a[2] + b[2] /\ f[3] = a[3] + b[3]
      /\ f[4] = a[4] + b[4]
  OBVIOUS
<1>5. (a0 + b0) + B * ((a1 + b1) + B * ((a2 + b2) + B * ((a3 + b3) + B * (a4 + b4))))
        = (a0 + B * (a1 + B * (a2 + B * (a3 + B * a4))))
          + (b0 + B * (b1 + B * (b2 + B * (b3 + B * b4))))
  BY ONLY SMT
<1>6. /\ a0 + B * (a1 + B * (a2 + B * (a3 + B * a4))) \in Int
      /\ b0 + B * (b1 + B * (b2 + B * (b3 + B * b4))) \in Int
  BY ONLY SMT
<1>. QED
  BY ONLY <1>1, <1>2, <1>3, <1>4, <1>5, <1>6, Zenon DEF Value5

\* The limbs of a multiple of the prime.
LEMMA ValuePrime ==
    ASSUME D!Full \in Int, Fold \in Int, NEW c \in Int, NEW p,
           p[0] = c * (D!Full - Fold), \A i \in 1 .. 4 : p[i] = c * (D!Full - 1)
    PROVE  Value5(p) = c * Prime5
<1>1. PICK B \in Int : B = D!Full
  BY Zenon
<1>2. p[1] = c * (B - 1) /\ p[2] = c * (B - 1) /\ p[3] = c * (B - 1) /\ p[4] = c * (B - 1)
  BY <1>1
<1>3. c * (B - Fold) + B * (c * (B - 1) + B * (c * (B - 1) + B * (c * (B - 1) + B * (c * (B - 1)))))
        = c * (B * B * B * B * B - Fold)
  BY SMT
<1>. QED
  BY <1>1, <1>2, <1>3, Zenon DEF Value5, Prime5

\* Word arithmetic that stays within the word is arithmetic.
LEMMA NoWrap ==
    ASSUME DonnaSizes, NEW most \in Nat, most < Spare, NEW x \in Nat, x <= most * D!Full
    PROVE  x % Word = x /\ x < Word
<1>1. D!Full \in Nat /\ D!Full > 0 /\ Word \in Nat /\ Word = Spare * D!Full
  BY Base
<1>2. most * D!Full < Spare * D!Full /\ most * D!Full \in Nat
  BY <1>1, SMT DEF Spare
<1>3. x < Word
  BY <1>1, <1>2, SMT DEF Spare
<1>. QED
  BY ONLY <1>1, <1>3, x \in Nat, SMT

\* A sum of limbs that leave room is the sum.
LEMMA SumRight ==
    ASSUME DonnaSizes, NEW a \in Limbs5, NEW b \in Limbs5, NEW m \in Nat, NEW n \in Nat,
           m + n < Spare, Within(a, m), Within(b, n)
    PROVE  LET f == [i \in 0 .. 4 |-> a[i] + b[i]]
           IN  /\ D!curve25519_add(a, b) = f /\ D!curve25519_add_after_basic(a, b) = f
               /\ f \in Limbs5 /\ Within(f, m + n)
               /\ Value5(f) = Value5(a) + Value5(b)
<1>. DEFINE f == [i \in 0 .. 4 |-> a[i] + b[i]]
<1>1. D!Full \in Nat
  BY Base
<1>2. ASSUME NEW i \in 0 .. 4
      PROVE  a[i] \in Nat /\ b[i] \in Nat /\ a[i] + b[i] <= (m + n) * D!Full
             /\ (a[i] + b[i]) % Word = a[i] + b[i]
  <2>1. a[i] \in Nat /\ b[i] \in Nat /\ a[i] <= m * D!Full /\ b[i] <= n * D!Full
    BY DEF Limbs5, Within
  <2>2. a[i] + b[i] \in Nat /\ a[i] + b[i] <= (m + n) * D!Full /\ m + n \in Nat
    BY ONLY <1>1, <2>1, m \in Nat, n \in Nat, SMT
  <2>. QED
    BY <2>1, <2>2, NoWrap
<1>3. [i \in 0 .. 4 |-> (a[i] + b[i]) % Word] = f
  BY <1>2
<1>4. D!curve25519_add(a, b) = f /\ D!curve25519_add_after_basic(a, b) = f
  BY <1>3, FourIs, Zenon
     DEF D!curve25519_add, D!curve25519_add_after_basic, D!Table, D!Computed
<1>5. f \in Limbs5 /\ Within(f, m + n)
  BY <1>2 DEF Limbs5, Within
<1>6. Value5(f) = Value5(a) + Value5(b)
  <2>1. D!Full \in Int /\ (\A i \in 0 .. 4 : a[i] \in Int) /\ (\A i \in 0 .. 4 : b[i] \in Int)
    BY <1>1, <1>2
  <2>2. \A i \in 0 .. 4 : f[i] = a[i] + b[i]
    OBVIOUS
  <2>. HIDE DEF f
  <2>. QED
    BY ONLY <2>1, <2>2, ValueSum, Zenon
<1>. QED
  BY <1>4, <1>5, <1>6, Zenon

\* A difference to which the right multiple of the prime is added is the difference.
LEMMA DifferenceRight5 ==
    ASSUME DonnaSizes, NEW a \in Limbs5, NEW b \in Limbs5, NEW m \in Nat, NEW c \in Nat,
           m + c < Spare, Within(a, m), \A i \in 0 .. 4 : b[i] <= c * (D!Full - Fold),
           NEW p, p[0] = c * (D!Full - Fold), \A i \in 1 .. 4 : p[i] = c * (D!Full - 1),
           NEW f, f = [i \in 0 .. 4 |-> a[i] + p[i] - b[i]]
    PROVE  /\ \A i \in 0 .. 4 : (a[i] + p[i] - b[i]) % Word = f[i]
           /\ f \in Limbs5 /\ Within(f, m + c)
           /\ Same5(Value5(f), Value5(a) - Value5(b))
<1>1. D!Full \in Nat /\ Fold \in Nat /\ Fold >= 1 /\ D!Full - Fold \in Nat
  <2>1. D!Full \in Nat /\ Fold \in 1 .. 19 /\ D!Full >= 19
    BY Base, SMT DEF Least
  <2>. QED
    BY <2>1
<1>2. ASSUME NEW i \in 0 .. 4
      PROVE  a[i] \in Nat /\ b[i] \in Nat /\ p[i] \in Nat
             /\ a[i] + p[i] - b[i] \in Nat /\ a[i] + p[i] - b[i] <= (m + c) * D!Full
             /\ (a[i] + p[i] - b[i]) % Word = a[i] + p[i] - b[i]
  <2>1. a[i] \in Nat /\ b[i] \in Nat /\ a[i] <= m * D!Full /\ b[i] <= c * (D!Full - Fold)
    BY DEF Limbs5, Within
  <2>2. p[i] \in Nat /\ c * (D!Full - Fold) <= p[i] /\ p[i] <= c * D!Full
    <3>1. p[i] = c * (D!Full - Fold) \/ p[i] = c * (D!Full - 1)
      OBVIOUS
    <3>2. c * (D!Full - Fold) \in Nat /\ c * (D!Full - 1) \in Nat
          /\ c * (D!Full - Fold) <= c * (D!Full - 1) /\ c * (D!Full - 1) <= c * D!Full
      BY ONLY <1>1, c \in Nat, SMT
    <3>3. c * D!Full \in Nat
      BY ONLY <1>1, c \in Nat, SMT
    <3>. QED
      BY ONLY <3>1, <3>2, <3>3
  <2>3. (m + c) * D!Full = m * D!Full + c * D!Full /\ m * D!Full \in Nat /\ c * D!Full \in Nat
        /\ c * (D!Full - Fold) \in Nat
    BY ONLY <1>1, m \in Nat, c \in Nat, SMT
  <2>4. a[i] + p[i] - b[i] \in Nat /\ a[i] + p[i] - b[i] <= (m + c) * D!Full /\ m + c \in Nat
    BY ONLY <2>1, <2>2, <2>3, m \in Nat, c \in Nat
  <2>. QED
    BY <2>1, <2>2, <2>4, NoWrap
<1>3. \A i \in 0 .. 4 : f[i] = a[i] + p[i] - b[i]
  OBVIOUS
<1>4. f \in Limbs5 /\ Within(f, m + c)
  BY <1>2 DEF Limbs5, Within
<1>5. Same5(Value5(f), Value5(a) - Value5(b))
  <2>. DEFINE s == [i \in 0 .. 4 |-> a[i] + p[i]]
  <2>1. \A i \in 0 .. 4 : s[i] = a[i] + p[i]
    OBVIOUS
  <2>2. D!Full \in Int /\ Fold \in Int /\ c \in Int
    BY <1>1
  <2>. HIDE DEF s
  <2>3. Value5(s) = Value5(a) + Value5(p) /\ Value5(a) \in Int /\ Value5(p) \in Int
    <3>1. \A i \in 0 .. 4 : a[i] \in Int
      BY <1>2
    <3>2. \A i \in 0 .. 4 : p[i] \in Int
      BY <1>2
    <3>. QED
      BY ONLY <2>1, <2>2, <3>1, <3>2, ValueSum, Zenon
  <2>4. Value5(s) = Value5(f) + Value5(b) /\ Value5(f) \in Int /\ Value5(b) \in Int
    <3>1. \A i \in 0 .. 4 : f[i] \in Int
      BY <1>2, <1>3
    <3>2. \A i \in 0 .. 4 : b[i] \in Int
      BY <1>2
    <3>3. \A i \in 0 .. 4 : s[i] = f[i] + b[i]
      BY <1>2, <1>3, <2>1
    <3>. QED
      BY ONLY <2>2, <3>1, <3>2, <3>3, ValueSum, Zenon
  <2>5. Value5(p) = c * Prime5
    BY <2>2, ValuePrime, Zenon
  <2>6. Value5(f) = (Value5(a) - Value5(b)) + c * Prime5
    BY ONLY <2>3, <2>4, <2>5
  <2>. QED
    BY ONLY <2>2, <2>6, Zenon DEF Same5
<1>. QED
  BY <1>2, <1>3, <1>4, <1>5

\* What may be subtracted with twice and with four times the prime.
Subtrahend(f, c) == \A i \in 0 .. 4 : f[i] <= c * (D!Full - Fold)

\* The multiples of the prime that the code adds.
LEMMA MultiplesOfPrime ==
    ASSUME DonnaSizes, NEW i \in 0 .. 4
    PROVE  /\ D!TwoP(0) = 2 * (D!Full - Fold) /\ (i # 0 => D!TwoP(i) = 2 * (D!Full - 1))
           /\ D!FourP(0) = 4 * (D!Full - Fold) /\ (i # 0 => D!FourP(i) = 4 * (D!Full - 1))
  BY DEF D!TwoP, D!FourP

\* The plain differences.
LEMMA SubRight ==
    ASSUME DonnaSizes, NEW a \in Limbs5, NEW b \in Limbs5, NEW m \in Nat, m + 4 < Spare, Within(a, m)
    PROVE  /\ Subtrahend(b, 2) =>
                 \E f \in Limbs5 : /\ D!curve25519_sub(a, b) = f /\ Within(f, m + 2)
                                   /\ f = [i \in 0 .. 4 |-> a[i] + D!TwoP(i) - b[i]]
                                   /\ Same5(Value5(f), Value5(a) - Value5(b))
           /\ Subtrahend(b, 4) =>
                 \E f \in Limbs5 : /\ D!curve25519_sub_after_basic(a, b) = f /\ Within(f, m + 4)
                                   /\ f = [i \in 0 .. 4 |-> a[i] + D!FourP(i) - b[i]]
                                   /\ Same5(Value5(f), Value5(a) - Value5(b))
<1>1. ASSUME Subtrahend(b, 2)
      PROVE  \E f \in Limbs5 : /\ D!curve25519_sub(a, b) = f /\ Within(f, m + 2)
                               /\ f = [i \in 0 .. 4 |-> a[i] + D!TwoP(i) - b[i]]
                               /\ Same5(Value5(f), Value5(a) - Value5(b))
  <2>. DEFINE p == [i \in 0 .. 4 |-> D!TwoP(i)]
              f == [i \in 0 .. 4 |-> a[i] + p[i] - b[i]]
  <2>1. p[0] = 2 * (D!Full - Fold) /\ \A i \in 1 .. 4 : p[i] = 2 * (D!Full - 1)
    BY MultiplesOfPrime
  <2>2. \A i \in 0 .. 4 : b[i] <= 2 * (D!Full - Fold)
    BY <1>1 DEF Subtrahend
  <2>3. D!curve25519_sub(a, b) = [i \in 0 .. 4 |-> (a[i] + D!TwoP(i) - b[i]) % Word]
    BY FourIs, Zenon DEF D!curve25519_sub, D!Table, D!Computed
  <2>4. \A i \in 0 .. 4 : p[i] = D!TwoP(i)
    OBVIOUS
  <2>. HIDE DEF p
  <2>5. \A i \in 0 .. 4 : f[i] = a[i] + p[i] - b[i]
    OBVIOUS
  <2>6. f = [i \in 0 .. 4 |-> a[i] + p[i] - b[i]]
    OBVIOUS
  <2>. HIDE DEF f
  <2>7. m + 2 < Spare /\ 2 \in Nat
    BY m + 4 < Spare, SMT DEF Spare
  <2>8. /\ \A i \in 0 .. 4 : (a[i] + p[i] - b[i]) % Word = f[i]
        /\ f \in Limbs5 /\ Within(f, m + 2)
        /\ Same5(Value5(f), Value5(a) - Value5(b))
    BY ONLY <2>1, <2>2, <2>6, <2>7, DonnaSizes, a \in Limbs5, b \in Limbs5, m \in Nat, Within(a, m),
            DifferenceRight5
  <2>9. D!curve25519_sub(a, b) = f
    BY <2>3, <2>4, <2>6, <2>8, <2>5
  <2>10. f = [i \in 0 .. 4 |-> a[i] + D!TwoP(i) - b[i]]
    BY <2>4, <2>6
  <2>. QED
    BY <2>8, <2>9, <2>10, Zenon
<1>2. ASSUME Subtrahend(b, 4)
      PROVE  \E f \in Limbs5 : /\ D!curve25519_sub_after_basic(a, b) = f /\ Within(f, m + 4)
                               /\ f = [i \in 0 .. 4 |-> a[i] + D!FourP(i) - b[i]]
                               /\ Same5(Value5(f), Value5(a) - Value5(b))
  <2>. DEFINE p == [i \in 0 .. 4 |-> D!FourP(i)]
              f == [i \in 0 .. 4 |-> a[i] + p[i] - b[i]]
  <2>1. p[0] = 4 * (D!Full - Fold) /\ \A i \in 1 .. 4 : p[i] = 4 * (D!Full - 1)
    BY MultiplesOfPrime
  <2>2. \A i \in 0 .. 4 : b[i] <= 4 * (D!Full - Fold)
    BY <1>2 DEF Subtrahend
  <2>3. D!curve25519_sub_after_basic(a, b) = [i \in 0 .. 4 |-> (a[i] + D!FourP(i) - b[i]) % Word]
    BY FourIs, Zenon DEF D!curve25519_sub_after_basic, D!Table, D!Computed
  <2>4. \A i \in 0 .. 4 : p[i] = D!FourP(i)
    OBVIOUS
  <2>. HIDE DEF p
  <2>5. \A i \in 0 .. 4 : f[i] = a[i] + p[i] - b[i]
    OBVIOUS
  <2>6. f = [i \in 0 .. 4 |-> a[i] + p[i] - b[i]]
    OBVIOUS
  <2>. HIDE DEF f
  <2>7. 4 \in Nat
    OBVIOUS
  <2>8. /\ \A i \in 0 .. 4 : (a[i] + p[i] - b[i]) % Word = f[i]
        /\ f \in Limbs5 /\ Within(f, m + 4)
        /\ Same5(Value5(f), Value5(a) - Value5(b))
    BY ONLY <2>1, <2>2, <2>6, <2>7, DonnaSizes, a \in Limbs5, b \in Limbs5, m \in Nat, Within(a, m),
            m + 4 < Spare, DifferenceRight5
  <2>9. D!curve25519_sub_after_basic(a, b) = f
    BY <2>3, <2>4, <2>6, <2>8, <2>5
  <2>10. f = [i \in 0 .. 4 |-> a[i] + D!FourP(i) - b[i]]
    BY <2>4, <2>6
  <2>. QED
    BY <2>8, <2>9, <2>10, Zenon
<1>. QED
  BY <1>1, <1>2

\* What a reduction leaves is tight and the same number.
LEMMA ReducedTight ==
    ASSUME DonnaSizes, NEW t \in Limbs5, NEW most \in Nat, 0 < most, most <= Most, Within(t, most),
           NEW last \in Nat, 19 * last < Slack, t[4] <= last * D!Full
    PROVE  Tight(D!Reduced(t)) /\ Same5(Value5(D!Reduced(t)), Value5(t))
<1>. DEFINE r == D!Reduced(t)
<1>1. D!Full \in Nat /\ D!Full > 0 /\ Fold \in 1 .. 19
  BY Base
<1>2. /\ r \in Limbs5
      /\ \A i \in 1 .. 4 : r[i] < D!Full
      /\ \E q \in 0 .. last :
            Value5(t) = Value5(r) + q * Prime5 /\ r[0] <= D!Full - 1 + Fold * q
  BY ONLY DonnaSizes, t \in Limbs5, most \in Nat, 0 < most, most <= Most, Within(t, most),
          last \in Nat, t[4] <= last * D!Full, ReducedRight, Zenon
<1>. HIDE DEF r
<1>3. PICK q \in 0 .. last : Value5(t) = Value5(r) + q * Prime5 /\ r[0] <= D!Full - 1 + Fold * q
  BY <1>2
<1>4. Value5(t) \in Nat /\ Value5(r) \in Nat /\ Prime5 \in Nat
  BY <1>2, ValueIs
<1>5. Value5(r) = Value5(t) + (-q) * Prime5 /\ -q \in Int
  BY ONLY <1>3, <1>4, q \in 0 .. last, last \in Nat, SMT
<1>6. Fold * q <= 19 * last /\ Fold * q \in Nat
  <2>1. q \in Nat /\ q <= last
    OBVIOUS
  <2>2. Fold * q <= 19 * q /\ Fold * q \in Nat
    BY ONLY <1>1, <2>1, SMT
  <2>. QED
    BY ONLY <2>1, <2>2, last \in Nat
<1>7. \A i \in 0 .. 4 : r[i] < D!Full + Slack
  <2>1. Slack \in Nat /\ Slack > 0
    BY SMT DEF Slack
  <2>2. r[0] \in Nat /\ \A i \in 1 .. 4 : r[i] \in Nat
    BY <1>2 DEF Limbs5
  <2>3. r[0] < D!Full + Slack
    BY ONLY <1>1, <1>3, <1>6, <2>1, <2>2, 19 * last < Slack, last \in Nat
  <2>. QED
    BY ONLY <1>1, <1>2, <2>1, <2>2, <2>3
<1>. QED
  BY <1>2, <1>5, <1>7, Zenon DEF r, Tight, Same5

-----------------------------------------------------------------------------
(* Products and squares *)

\* The sums of products of limbs of at most eight times the base: sixty-four
\* times its square for each product, and nineteen times as much for one that
\* is folded.
Sums(t) ==
    /\ t \in Limbs5
    /\ \A i \in 0 .. 4 : t[i] <= 4928 * (D!Full * D!Full)
    /\ t[3] <= 1472 * (D!Full * D!Full)
    /\ t[4] <= 320 * (D!Full * D!Full)

\* The carries of a product.
Carried128(t) == D!Chain(LAMBDA i, below : t[i] + ((below \div D!Full) % Word), 5)

\* The 128-bit sums with what is carried into them, from the lowest on.
LEMMA Carries128 ==
    ASSUME NEW t \in Limbs5, DonnaSizes
    PROVE  LET v == Carried128(t)
           IN  /\ v = [i \in 0 .. 4 |-> v[i]]
               /\ v[0] = t[0]
               /\ \A i \in 1 .. 4 : v[i] = t[i] + ((v[i - 1] \div D!Full) % Word)
<1>. DEFINE body(f, i) == t[i] + (((IF i = 0 THEN 0 ELSE f[i - 1]) \div D!Full) % Word)
<1>. DEFINE v == CHOOSE f : f = [i \in 0 .. 4 |-> body(f, i)]
<1>1. (0 \div D!Full) % Word = 0 /\ t[0] + 0 = t[0]
  <2>1. D!Full \in Nat /\ D!Full > 0 /\ Word \in Nat /\ Word > 0
    BY Base, SMT DEF Spare
  <2>2. 0 \div D!Full = 0 /\ 0 % Word = 0
    BY <2>1, SMT
  <2>. QED
    BY <2>2 DEF Limbs5
<1>2. \E f : f = [i \in 0 .. 4 |-> body(f, i)]
  <2>. DEFINE f1 == t[1] + ((t[0] \div D!Full) % Word)
              f2 == t[2] + ((f1 \div D!Full) % Word)
              f3 == t[3] + ((f2 \div D!Full) % Word)
              f4 == t[4] + ((f3 \div D!Full) % Word)
              f == [i \in 0 .. 4 |-> IF i = 0 THEN t[0] ELSE IF i = 1 THEN f1 ELSE IF i = 2 THEN f2
                                     ELSE IF i = 3 THEN f3 ELSE f4]
  <2>1. f[0] = t[0] /\ f[1] = f1 /\ f[2] = f2 /\ f[3] = f3 /\ f[4] = f4
    OBVIOUS
  <2>2. body(f, 0) = t[0]
    BY <1>1
  <2>3. body(f, 1) = f1 /\ body(f, 2) = f2 /\ body(f, 3) = f3 /\ body(f, 4) = f4
    <3>. HIDE DEF f, f1, f2, f3, f4
    <3>1. /\ body(f, 1) = t[1] + ((f[0] \div D!Full) % Word)
          /\ body(f, 2) = t[2] + ((f[1] \div D!Full) % Word)
          /\ body(f, 3) = t[3] + ((f[2] \div D!Full) % Word)
          /\ body(f, 4) = t[4] + ((f[3] \div D!Full) % Word)
      OBVIOUS
    <3>. QED
      BY <2>1, <3>1 DEF f1, f2, f3, f4
  <2>. HIDE DEF body, f1, f2, f3, f4
  <2>4. \A i \in 0 .. 4 : body(f, i) = IF i = 0 THEN t[0] ELSE IF i = 1 THEN f1 ELSE IF i = 2 THEN f2
                                       ELSE IF i = 3 THEN f3 ELSE f4
    BY <2>2, <2>3
  <2>5. f = [i \in 0 .. 4 |-> body(f, i)]
    BY <2>4
  <2>. HIDE DEF f
  <2>. QED
    BY <2>5, Zenon
<1>3. v = [i \in 0 .. 4 |-> body(v, i)]
  BY <1>2, Zenon
<1>4. Carried128(t) = D!Computed(v)
  BY DEF Carried128, D!Chain
<1>. HIDE DEF v
<1>5. D!Computed(v) = v
  BY Zenon DEF D!Computed
<1>6. v[0] = t[0]
  BY <1>1, <1>3
<1>7. \A i \in 1 .. 4 : v[i] = t[i] + ((v[i - 1] \div D!Full) % Word)
  BY <1>3
<1>. QED
  BY <1>3, <1>4, <1>5, <1>6, <1>7

\* One of them: what is carried fits a word.
LEMMA OneCarry128 ==
    ASSUME DonnaSizes, NEW t \in Nat, t <= 4928 * (D!Full * D!Full),
           NEW below \in Nat, below <= 4929 * D!Full,
           NEW u, u = t + (below % Word)
    PROVE  /\ u \in Nat /\ u = t + below /\ u <= 4929 * (D!Full * D!Full) /\ u < Word * Word
           /\ u \div D!Full \in Nat /\ u \div D!Full <= 4929 * D!Full
           /\ u % D!Full \in 0 .. D!Full - 1
           /\ u = D!Full * (u \div D!Full) + (u % D!Full)
           /\ t <= 320 * (D!Full * D!Full) => u \div D!Full <= 321 * D!Full
<1>1. PICK B \in Nat : B = D!Full /\ B > 4929 /\ Word = 8192 * B
  BY Base, SMT DEF Spare, Least
<1>2. below % Word = below
  BY ONLY <1>1, below \in Nat, below <= 4929 * D!Full, SMT
<1>3. B * B \in Nat /\ 4929 * B <= B * B
  BY ONLY <1>1, SMT
<1>4. u \in Nat /\ u = t + below /\ u <= 4929 * (B * B)
      /\ (t <= 320 * (B * B) => u <= 321 * (B * B))
  BY ONLY <1>1, <1>2, <1>3, t \in Nat, t <= 4928 * (D!Full * D!Full), u = t + (below % Word),
          below \in Nat, below <= 4929 * D!Full, SMT
<1>5. u < Word * Word
  <2>1. Word * Word = 67108864 * (B * B)
    BY ONLY <1>1, SMT
  <2>2. 0 < B * B
    BY ONLY <1>1, SMT
  <2>. QED
    BY ONLY <1>3, <1>4, <2>1, <2>2, SMT
<1>6. PICK q \in Nat, r \in Nat : q = u \div B /\ r = u % B /\ u = B * q + r /\ r < B
  <2>1. B > 0
    BY <1>1, SMT
  <2>. QED
    BY ONLY <1>4, <2>1, Divided, B \in Nat
<1>7. q <= 4929 * B
  BY ONLY <1>1, <1>4, <1>6, SMT
<1>8. u <= 321 * (B * B) => q <= 321 * B
  BY ONLY <1>1, <1>4, <1>6, SMT
<1>9. r \in 0 .. B - 1
  BY ONLY <1>1, <1>6
<1>. QED
  BY ONLY <1>1, <1>4, <1>5, <1>6, <1>7, <1>8, <1>9, SMT

\* The carries of a product keep the number modulo the prime and leave it tight;
\* no sum reaches the square of a word, which is what 128 bits hold.
LEMMA MulReducedRight ==
    ASSUME DonnaSizes, NEW t, Sums(t), NEW r, r = D!MulReduced(t)
    PROVE  /\ Tight(r) /\ Same5(Value5(r), Value5(t))
           /\ \A i \in 0 .. 4 : Carried128(t)[i] < Word * Word
<1>. DEFINE u == Carried128(t)
<1>1. /\ D!Full \in Nat /\ D!Full > 0 /\ D!Full >= Least /\ Word \in Nat /\ Word = Spare * D!Full
      /\ Fold \in 1 .. 19
  BY Base
<1>2. /\ t \in Limbs5 /\ t[4] <= 320 * (D!Full * D!Full)
      /\ \A i \in 0 .. 4 : t[i] \in Nat /\ t[i] <= 4928 * (D!Full * D!Full)
  BY DEF Sums, Limbs5
<1>3. u = [i \in 0 .. 4 |-> u[i]] /\ u[0] = t[0]
      /\ \A i \in 1 .. 4 : u[i] = t[i] + ((u[i - 1] \div D!Full) % Word)
  BY <1>2, Carries128
<1>4. r = [[i \in 0 .. 4 |-> u[i] % D!Full] EXCEPT
             ![0] = (((u[0] % D!Full) + Fold * ((u[4] \div D!Full) % Word)) % Word) % D!Full,
             ![1] = @ + ((((u[0] % D!Full) + Fold * ((u[4] \div D!Full) % Word)) % Word) \div D!Full)]
  BY FourIs, Zenon DEF D!MulReduced, D!Table, D!Computed, D!Mask, Carried128
<1>. HIDE DEF u
<1>. DEFINE Good(i) == /\ u[i] \in Nat /\ u[i] < Word * Word
                       /\ u[i] \div D!Full \in Nat /\ u[i] \div D!Full <= 4929 * D!Full
                       /\ u[i] % D!Full \in 0 .. D!Full - 1
                       /\ u[i] = D!Full * (u[i] \div D!Full) + (u[i] % D!Full)
                       /\ t[i] <= 320 * (D!Full * D!Full) => u[i] \div D!Full <= 321 * D!Full
<1>5. Good(0)
  <2>1. 0 % Word = 0 /\ 0 <= 4929 * D!Full /\ 0 \in Nat
    BY <1>1, SMT DEF Spare
  <2>2. u[0] = t[0] + (0 % Word)
    BY <1>2, <1>3, <2>1
  <2>. QED
    BY ONLY <1>2, <2>1, <2>2, DonnaSizes, OneCarry128
<1>6. ASSUME NEW i \in 1 .. 4, u[i - 1] \div D!Full \in Nat, u[i - 1] \div D!Full <= 4929 * D!Full
      PROVE  Good(i) /\ u[i] = t[i] + (u[i - 1] \div D!Full)
  <2>1. t[i] \in Nat /\ t[i] <= 4928 * (D!Full * D!Full)
        /\ u[i] = t[i] + ((u[i - 1] \div D!Full) % Word)
    BY <1>2, <1>3
  <2>. QED
    BY ONLY <1>6, <2>1, DonnaSizes, OneCarry128
<1>7. Good(1) /\ u[1] = t[1] + (u[0] \div D!Full)
  BY <1>5, <1>6
<1>8. Good(2) /\ u[2] = t[2] + (u[1] \div D!Full)
  BY <1>6, <1>7
<1>9. Good(3) /\ u[3] = t[3] + (u[2] \div D!Full)
  BY <1>6, <1>8
<1>10. Good(4) /\ u[4] = t[4] + (u[3] \div D!Full)
  BY <1>6, <1>9
<1>. DEFINE m == [i \in 0 .. 4 |-> u[i] % D!Full]
            q == [i \in 0 .. 4 |-> u[i] \div D!Full]
<1>11. \A i \in 0 .. 4 : m[i] = u[i] % D!Full /\ q[i] = u[i] \div D!Full
  OBVIOUS
<1>. HIDE DEF m, q
<1>12. /\ \A i \in 0 .. 4 : m[i] \in 0 .. D!Full - 1 /\ m[i] \in Nat /\ q[i] \in Nat
       /\ q[4] <= 321 * D!Full
  <2>1. \A i \in 0 .. 4 : Good(i)
    BY <1>5, <1>7, <1>8, <1>9, <1>10
  <2>2. \A i \in 0 .. 4 : u[i] % D!Full \in 0 .. D!Full - 1 /\ u[i] \div D!Full \in Nat
    BY ONLY <2>1, SMT
  <2>3. u[4] \div D!Full <= 321 * D!Full
    BY ONLY <1>2, <1>10, SMT
  <2>. QED
    BY ONLY <1>1, <1>11, <2>2, <2>3
<1>13. Value5(t) = Value5(m) + D!Full * D!Full * D!Full * D!Full * D!Full * q[4]
  <2>1. D!Full \in Int
    BY <1>1
  <2>2. \A i \in 0 .. 4 : t[i] \in Int
    BY <1>2
  <2>3. \A i \in 0 .. 4 : m[i] \in Int
    BY <1>12
  <2>4. \A i \in 0 .. 4 : q[i] \in Int
    BY <1>12
  <2>5. t[0] = D!Full * q[0] + m[0]
    BY <1>3, <1>5, <1>11
  <2>6. \A i \in 1 .. 4 : t[i] + q[i - 1] = D!Full * q[i] + m[i]
    <3>1. /\ t[1] + q[0] = D!Full * q[1] + m[1] /\ t[2] + q[1] = D!Full * q[2] + m[2]
          /\ t[3] + q[2] = D!Full * q[3] + m[3] /\ t[4] + q[3] = D!Full * q[4] + m[4]
      BY <1>7, <1>8, <1>9, <1>10, <1>11
    <3>. QED
      BY <3>1
  <2>. QED
    BY ONLY <2>1, <2>2, <2>3, <2>4, <2>5, <2>6, Telescoped
<1>. DEFINE r0 == m[0] + Fold * q[4]
<1>14. ((u[0] % D!Full) + Fold * ((u[4] \div D!Full) % Word)) % Word = r0
       /\ r0 \in Nat /\ r0 <= 6100 * D!Full
  <2>1. PICK B \in Nat : B = D!Full /\ B > 0 /\ Word = 8192 * B
    BY <1>1, SMT DEF Spare
  <2>2. PICK m0 \in Nat, q4 \in Nat : m[0] = m0 /\ q[4] = q4 /\ m0 < B /\ q4 <= 321 * B
    BY <1>1, <1>12, <2>1
  <2>3. q4 % Word = q4
    BY ONLY <2>1, <2>2, SMT
  <2>4. Fold * q4 \in Nat /\ Fold * q4 <= 6099 * B
    BY ONLY <1>1, <2>1, <2>2, SMT
  <2>5. (m0 + Fold * q4) % Word = m0 + Fold * q4 /\ m0 + Fold * q4 \in Nat /\ m0 + Fold * q4 <= 6100 * B
    BY ONLY <2>1, <2>2, <2>4, SMT
  <2>6. u[0] % D!Full = m0 /\ u[4] \div D!Full = q4
    BY <1>11, <2>2
  <2>. QED
    BY <2>1, <2>2, <2>3, <2>5, <2>6
<1>. HIDE DEF r0
<1>15. /\ r0 = D!Full * (r0 \div D!Full) + (r0 % D!Full) /\ r0 \div D!Full \in Nat
       /\ r0 % D!Full \in Nat /\ r0 % D!Full < D!Full /\ r0 \div D!Full <= 6100
  <2>1. /\ r0 = D!Full * (r0 \div D!Full) + (r0 % D!Full) /\ r0 \div D!Full \in Nat
        /\ r0 % D!Full \in Nat /\ r0 % D!Full < D!Full
    BY <1>1, <1>14, Divided
  <2>2. PICK B \in Nat, x \in Nat, y \in Nat : B = D!Full /\ x = r0 \div D!Full /\ y = r0 % D!Full
    BY <1>1, <2>1, Zenon
  <2>3. B * x + y <= 6100 * B /\ B > 0
    BY <1>1, <1>14, <2>1, <2>2
  <2>4. x <= 6100
    BY ONLY <2>3, SMT
  <2>. QED
    BY <2>1, <2>2, <2>4
<1>16. /\ r[0] = r0 % D!Full /\ r[1] = m[1] + (r0 \div D!Full)
       /\ r[2] = m[2] /\ r[3] = m[3] /\ r[4] = m[4]
  <2>1. ((u[0] % D!Full) + Fold * ((u[4] \div D!Full) % Word)) % Word = r0
    BY <1>14
  <2>2. r = [m EXCEPT ![0] = r0 % D!Full, ![1] = @ + (r0 \div D!Full)]
    BY ONLY <1>4, <2>1, Zenon DEF m
  <2>3. DOMAIN m = 0 .. 4
    BY DEF m
  <2>. QED
    BY ONLY <2>2, <2>3
<1>17. Tight(r)
  <2>1. \A i \in 0 .. 4 : r[i] \in Nat /\ r[i] < D!Full + Slack
    BY <1>1, <1>12, <1>15, <1>16, SMT DEF Slack
  <2>2. r \in Limbs5
    <3>1. DOMAIN r = 0 .. 4 /\ r = [i \in 0 .. 4 |-> r[i]]
      BY ONLY <1>4
    <3>. QED
      BY ONLY <2>1, <3>1 DEF Limbs5
  <2>. QED
    BY <2>1, <2>2 DEF Tight
<1>18. Value5(r) = Value5(t) + (-q[4]) * Prime5
  <2>1. PICK B \in Int, x \in Int, y \in Int, k \in Int :
           B = D!Full /\ x = r0 \div D!Full /\ y = r0 % D!Full /\ k = q[4]
    <3>1. D!Full \in Int /\ r0 \div D!Full \in Int /\ r0 % D!Full \in Int /\ q[4] \in Int
      BY <1>1, <1>12, <1>15
    <3>. QED
      BY ONLY <3>1, Zenon
  <2>2. PICK m0 \in Int, m1 \in Int, m2 \in Int, m3 \in Int, m4 \in Int :
           m[0] = m0 /\ m[1] = m1 /\ m[2] = m2 /\ m[3] = m3 /\ m[4] = m4
    <3>1. \A i \in 0 .. 4 : m[i] \in Int
      BY <1>12
    <3>. QED
      BY <3>1, LimbNumbers, Zenon
  <2>3. m0 + Fold * k = B * x + y
    BY <1>15, <2>1, <2>2 DEF r0
  <2>4. Fold \in Int
    BY <1>1
  <2>5. y + B * ((m1 + x) + B * (m2 + B * (m3 + B * m4)))
          = (m0 + B * (m1 + B * (m2 + B * (m3 + B * m4))) + B * B * B * B * B * k)
            + (-k) * (B * B * B * B * B - Fold)
    <3>1. y = m0 + Fold * k - B * x
      BY ONLY <2>3, <2>4, SMT
    <3>2. (m0 + Fold * k - B * x) + B * ((m1 + x) + B * (m2 + B * (m3 + B * m4)))
          = (m0 + B * (m1 + B * (m2 + B * (m3 + B * m4))) + B * B * B * B * B * k)
            + (-k) * (B * B * B * B * B - Fold)
      BY ONLY <2>4, SMT
    <3>. QED
      BY ONLY <3>1, <3>2
  <2>6. Value5(r) = y + B * ((m1 + x) + B * (m2 + B * (m3 + B * m4)))
    BY <1>16, <2>1, <2>2, Zenon DEF Value5
  <2>7. Value5(m) = m0 + B * (m1 + B * (m2 + B * (m3 + B * m4)))
    BY <2>1, <2>2, Zenon DEF Value5
  <2>. QED
    BY <1>13, <2>1, <2>5, <2>6, <2>7, Zenon DEF Prime5
<1>19. -q[4] \in Int
  BY <1>12
<1>20. \A i \in 0 .. 4 : u[i] < Word * Word
  BY <1>5, <1>7, <1>8, <1>9, <1>10
<1>. QED
  BY <1>17, <1>18, <1>19, <1>20, Zenon DEF Same5, u

\* The limbs of a product before they are carried.
Product5(a, b) ==
    [k \in 0 .. 4 |->
         IF k = 0 THEN b[0] * a[0] + (Fold * b[1]) * a[4] + (Fold * b[2]) * a[3] + (Fold * b[3]) * a[2]
             + (Fold * b[4]) * a[1] ELSE
         IF k = 1 THEN b[0] * a[1] + b[1] * a[0] + (Fold * b[2]) * a[4] + (Fold * b[3]) * a[3]
             + (Fold * b[4]) * a[2] ELSE
         IF k = 2 THEN b[0] * a[2] + b[1] * a[1] + b[2] * a[0] + (Fold * b[3]) * a[4]
             + (Fold * b[4]) * a[3] ELSE
         IF k = 3 THEN b[0] * a[3] + b[1] * a[2] + b[2] * a[1] + b[3] * a[0] + (Fold * b[4]) * a[4] ELSE
         b[0] * a[4] + b[1] * a[3] + b[2] * a[2] + b[3] * a[1] + b[4] * a[0]]

\* Sixty-four squares of the base for each product, nineteen times that if folded.
LEMMA ProductBound ==
    ASSUME DonnaSizes, NEW x \in Nat, NEW y \in Nat, x <= 8 * D!Full, y <= 8 * D!Full
    PROVE  /\ x * y \in Nat /\ x * y <= 64 * (D!Full * D!Full)
           /\ (Fold * x) * y \in Nat /\ (Fold * x) * y <= 1216 * (D!Full * D!Full)
<1>1. PICK B \in Nat : B = D!Full
  BY Base
<1>2. Fold \in Nat /\ Fold <= 19
  BY Base
<1>3. x * y \in Nat /\ x * y <= 64 * (B * B)
  BY ONLY <1>1, x \in Nat, y \in Nat, x <= 8 * D!Full, y <= 8 * D!Full, SMT
<1>4. Fold * x \in Nat /\ Fold * x <= 152 * B
  BY ONLY <1>1, <1>2, x \in Nat, x <= 8 * D!Full, SMT
<1>5. PICK w \in Nat : w = Fold * x
  BY <1>4
<1>6. w * y \in Nat /\ w * y <= 1216 * (B * B)
  BY ONLY <1>1, <1>4, <1>5, y \in Nat, y <= 8 * D!Full, SMT
<1>. QED
  BY ONLY <1>1, <1>3, <1>5, <1>6, SMT

\* The sums of a product have its number, modulo the prime, and room.
LEMMA ProductSums ==
    ASSUME DonnaSizes, NEW a \in Limbs5, NEW b \in Limbs5, Within(a, 8), Within(b, 8)
    PROVE  Sums(Product5(a, b)) /\ Same5(Value5(Product5(a, b)), Value5(a) * Value5(b))
<1>. DEFINE t == Product5(a, b)
<1>1. PICK a0 \in Nat, a1 \in Nat, a2 \in Nat, a3 \in Nat, a4 \in Nat :
         a[0] = a0 /\ a[1] = a1 /\ a[2] = a2 /\ a[3] = a3 /\ a[4] = a4
  BY LimbNaturals, Zenon
<1>2. PICK b0 \in Nat, b1 \in Nat, b2 \in Nat, b3 \in Nat, b4 \in Nat :
         b[0] = b0 /\ b[1] = b1 /\ b[2] = b2 /\ b[3] = b3 /\ b[4] = b4
  BY LimbNaturals, Zenon
<1>3. PICK B \in Nat : B = D!Full
  BY Base
<1>4. Fold \in Nat /\ Fold <= 19
  BY Base
<1>5. /\ t[0] = b0 * a0 + (Fold * b1) * a4 + (Fold * b2) * a3 + (Fold * b3) * a2 + (Fold * b4) * a1
      /\ t[1] = b0 * a1 + b1 * a0 + (Fold * b2) * a4 + (Fold * b3) * a3 + (Fold * b4) * a2
      /\ t[2] = b0 * a2 + b1 * a1 + b2 * a0 + (Fold * b3) * a4 + (Fold * b4) * a3
      /\ t[3] = b0 * a3 + b1 * a2 + b2 * a1 + b3 * a0 + (Fold * b4) * a4
      /\ t[4] = b0 * a4 + b1 * a3 + b2 * a2 + b3 * a1 + b4 * a0
  <2>1. /\ t[0] = b[0] * a[0] + (Fold * b[1]) * a[4] + (Fold * b[2]) * a[3] + (Fold * b[3]) * a[2]
             + (Fold * b[4]) * a[1]
        /\ t[1] = b[0] * a[1] + b[1] * a[0] + (Fold * b[2]) * a[4] + (Fold * b[3]) * a[3]
             + (Fold * b[4]) * a[2]
        /\ t[2] = b[0] * a[2] + b[1] * a[1] + b[2] * a[0] + (Fold * b[3]) * a[4] + (Fold * b[4]) * a[3]
        /\ t[3] = b[0] * a[3] + b[1] * a[2] + b[2] * a[1] + b[3] * a[0] + (Fold * b[4]) * a[4]
        /\ t[4] = b[0] * a[4] + b[1] * a[3] + b[2] * a[2] + b[3] * a[1] + b[4] * a[0]
    BY DEF Product5
  <2>. QED
    BY <1>1, <1>2, <2>1, Zenon
<1>. HIDE DEF t
<1>6. \A x \in {b0, b1, b2, b3, b4}, y \in {a0, a1, a2, a3, a4} :
          /\ x * y \in Nat /\ x * y <= 64 * (B * B)
          /\ (Fold * x) * y \in Nat /\ (Fold * x) * y <= 1216 * (B * B)
  <2>1. \A x \in {b0, b1, b2, b3, b4} : x \in Nat /\ x <= 8 * D!Full
    BY <1>2 DEF Within
  <2>2. \A y \in {a0, a1, a2, a3, a4} : y \in Nat /\ y <= 8 * D!Full
    BY <1>1 DEF Within
  <2>. QED
    BY ONLY <1>3, <2>1, <2>2, DonnaSizes, ProductBound
<1>7. B * B \in Nat
  BY SMT
<1>8. t[0] \in Nat /\ t[0] <= 4928 * (B * B)
  <2>1. /\ b0 * a0 \in Nat /\ b0 * a0 <= 64 * (B * B)
        /\ (Fold * b1) * a4 \in Nat /\ (Fold * b1) * a4 <= 1216 * (B * B)
        /\ (Fold * b2) * a3 \in Nat /\ (Fold * b2) * a3 <= 1216 * (B * B)
        /\ (Fold * b3) * a2 \in Nat /\ (Fold * b3) * a2 <= 1216 * (B * B)
        /\ (Fold * b4) * a1 \in Nat /\ (Fold * b4) * a1 <= 1216 * (B * B)
    BY ONLY <1>6
  <2>. QED
    BY ONLY <1>5, <1>7, <2>1
<1>9. t[1] \in Nat /\ t[1] <= 3776 * (B * B)
  <2>1. /\ b0 * a1 \in Nat /\ b0 * a1 <= 64 * (B * B)
        /\ b1 * a0 \in Nat /\ b1 * a0 <= 64 * (B * B)
        /\ (Fold * b2) * a4 \in Nat /\ (Fold * b2) * a4 <= 1216 * (B * B)
        /\ (Fold * b3) * a3 \in Nat /\ (Fold * b3) * a3 <= 1216 * (B * B)
        /\ (Fold * b4) * a2 \in Nat /\ (Fold * b4) * a2 <= 1216 * (B * B)
    BY ONLY <1>6
  <2>. QED
    BY ONLY <1>5, <1>7, <2>1
<1>10. t[2] \in Nat /\ t[2] <= 2624 * (B * B)
  <2>1. /\ b0 * a2 \in Nat /\ b0 * a2 <= 64 * (B * B)
        /\ b1 * a1 \in Nat /\ b1 * a1 <= 64 * (B * B)
        /\ b2 * a0 \in Nat /\ b2 * a0 <= 64 * (B * B)
        /\ (Fold * b3) * a4 \in Nat /\ (Fold * b3) * a4 <= 1216 * (B * B)
        /\ (Fold * b4) * a3 \in Nat /\ (Fold * b4) * a3 <= 1216 * (B * B)
    BY ONLY <1>6
  <2>. QED
    BY ONLY <1>5, <1>7, <2>1
<1>11. t[3] \in Nat /\ t[3] <= 1472 * (B * B)
  <2>1. /\ b0 * a3 \in Nat /\ b0 * a3 <= 64 * (B * B)
        /\ b1 * a2 \in Nat /\ b1 * a2 <= 64 * (B * B)
        /\ b2 * a1 \in Nat /\ b2 * a1 <= 64 * (B * B)
        /\ b3 * a0 \in Nat /\ b3 * a0 <= 64 * (B * B)
        /\ (Fold * b4) * a4 \in Nat /\ (Fold * b4) * a4 <= 1216 * (B * B)
    BY ONLY <1>6
  <2>. QED
    BY ONLY <1>5, <1>7, <2>1
<1>12. t[4] \in Nat /\ t[4] <= 320 * (B * B)
  <2>1. /\ b0 * a4 \in Nat /\ b0 * a4 <= 64 * (B * B)
        /\ b1 * a3 \in Nat /\ b1 * a3 <= 64 * (B * B)
        /\ b2 * a2 \in Nat /\ b2 * a2 <= 64 * (B * B)
        /\ b3 * a1 \in Nat /\ b3 * a1 <= 64 * (B * B)
        /\ b4 * a0 \in Nat /\ b4 * a0 <= 64 * (B * B)
    BY ONLY <1>6
  <2>. QED
    BY ONLY <1>5, <1>7, <2>1
<1>13. Sums(t)
  <2>1. \A i \in 0 .. 4 : t[i] \in Nat /\ t[i] <= 4928 * (B * B)
    BY ONLY <1>7, <1>8, <1>9, <1>10, <1>11, <1>12
  <2>2. t \in Limbs5
    <3>1. t = [i \in 0 .. 4 |-> t[i]]
      BY DEF t, Product5
    <3>. QED
      BY ONLY <2>1, <3>1 DEF Limbs5
  <2>. QED
    BY ONLY <1>3, <1>11, <1>12, <2>1, <2>2 DEF Sums
<1>. DEFINE d == (b1 * a4 + b2 * a3 + b3 * a2 + b4 * a1)
                + B * ((b2 * a4 + b3 * a3 + b4 * a2) + B * ((b3 * a4 + b4 * a3) + B * (b4 * a4)))
<1>14. ((b0 * a0 + (Fold * b1) * a4 + (Fold * b2) * a3 + (Fold * b3) * a2 + (Fold * b4) * a1))
           + B * (((b0 * a1 + b1 * a0 + (Fold * b2) * a4 + (Fold * b3) * a3 + (Fold * b4) * a2))
               + B * (((b0 * a2 + b1 * a1 + b2 * a0 + (Fold * b3) * a4 + (Fold * b4) * a3))
                   + B * (((b0 * a3 + b1 * a2 + b2 * a1 + b3 * a0 + (Fold * b4) * a4))
                       + B * ((b0 * a4 + b1 * a3 + b2 * a2 + b3 * a1 + b4 * a0)))))
       = (a0 + B * (a1 + B * (a2 + B * (a3 + B * a4)))) * (b0 + B * (b1 + B * (b2 + B * (b3 + B * b4))))
         + (-d) * (B * B * B * B * B - Fold)
  BY ONLY <1>4, SMTT(60)
<1>15. -d \in Int
  BY ONLY SMT
<1>. HIDE DEF d
<1>16. Value5(t) = Value5(a) * Value5(b) + (-d) * Prime5
  BY ONLY <1>1, <1>2, <1>3, <1>5, <1>14, Zenon DEF Value5, Prime5
<1>. QED
  BY <1>13, <1>15, <1>16, Zenon DEF Same5, t

\* What fits nine bits more than a limb, folded or doubled, fits the word.
LEMMA FoldedFits ==
    ASSUME DonnaSizes, NEW x \in Nat, x <= 8 * D!Full
    PROVE  /\ (Fold * x) % Word = Fold * x /\ (2 * x) % Word = 2 * x
           /\ (2 * Fold * x) % Word = 2 * Fold * x /\ (2 * (Fold * x)) % Word = 2 * (Fold * x)
<1>1. PICK B \in Nat : B = D!Full /\ Word = 8192 * B
  BY Base, SMT DEF Spare
<1>2. Fold \in Nat /\ Fold <= 19 /\ B > 0
  BY <1>1, Base
<1>3. PICK w \in Nat : w = Fold * x /\ w <= 152 * B
  BY ONLY <1>1, <1>2, x \in Nat, x <= 8 * D!Full, SMT
<1>4. 2 * Fold * x = 2 * w
  BY ONLY <1>2, <1>3, x \in Nat, SMT
<1>5. w % Word = w /\ (2 * w) % Word = 2 * w /\ (2 * x) % Word = 2 * x
  BY ONLY <1>1, <1>2, <1>3, x \in Nat, x <= 8 * D!Full, SMT
<1>. QED
  BY ONLY <1>3, <1>4, <1>5

\* A product is the product modulo the prime, tight, and no word or sum of 128
\* bits is too small for it.
LEMMA MulRight ==
    ASSUME DonnaSizes, NEW a \in Limbs5, NEW b \in Limbs5, Within(a, 8), Within(b, 8),
           NEW r, r = D!curve25519_mul(a, b)
    PROVE  /\ Tight(r) /\ Same5(Value5(r), Value5(a) * Value5(b))
           /\ \A i \in 0 .. 4 : Carried128(Product5(a, b))[i] < Word * Word
<1>. DEFINE Product(i, k) == IF i <= k THEN b[i] * a[k - i]
                             ELSE ((Fold * b[i]) % Word) * a[k + 5 - i]
            Sum(k) == Product(0, k) + Product(1, k) + Product(2, k) + Product(3, k) + Product(4, k)
<1>1. r = D!MulReduced([k \in 0 .. 4 |-> Sum(k)])
  BY FourIs, Zenon DEF D!curve25519_mul, D!Table, D!Computed
<1>2. \A i \in {0, 1, 2, 3, 4} : (Fold * b[i]) % Word = Fold * b[i]
  <2>1. \A i \in {0, 1, 2, 3, 4} : b[i] \in Nat /\ b[i] <= 8 * D!Full
    BY DEF Limbs5, Within
  <2>. QED
    BY ONLY <2>1, DonnaSizes, FoldedFits
<1>3. Sum(0) = b[0] * a[0] + (Fold * b[1]) * a[4] + (Fold * b[2]) * a[3] + (Fold * b[3]) * a[2]
          + (Fold * b[4]) * a[1]
  BY ONLY <1>2
<1>4. Sum(1) = b[0] * a[1] + b[1] * a[0] + (Fold * b[2]) * a[4] + (Fold * b[3]) * a[3]
          + (Fold * b[4]) * a[2]
  BY ONLY <1>2
<1>5. Sum(2) = b[0] * a[2] + b[1] * a[1] + b[2] * a[0] + (Fold * b[3]) * a[4] + (Fold * b[4]) * a[3]
  BY ONLY <1>2
<1>6. Sum(3) = b[0] * a[3] + b[1] * a[2] + b[2] * a[1] + b[3] * a[0] + (Fold * b[4]) * a[4]
  BY ONLY <1>2
<1>7. Sum(4) = b[0] * a[4] + b[1] * a[3] + b[2] * a[2] + b[3] * a[1] + b[4] * a[0]
  BY ONLY <1>2
<1>. HIDE DEF Sum
<1>8. [k \in 0 .. 4 |-> Sum(k)] = Product5(a, b)
  BY ONLY <1>3, <1>4, <1>5, <1>6, <1>7 DEF Product5
<1>9. Sums(Product5(a, b)) /\ Same5(Value5(Product5(a, b)), Value5(a) * Value5(b))
  BY ProductSums
<1>10. r = D!MulReduced(Product5(a, b))
  BY ONLY <1>1, <1>8
<1>11. /\ Tight(r) /\ Same5(Value5(r), Value5(Product5(a, b)))
       /\ \A i \in 0 .. 4 : Carried128(Product5(a, b))[i] < Word * Word
  BY ONLY <1>9, <1>10, DonnaSizes, MulReducedRight
<1>12. Same5(Value5(r), Value5(a) * Value5(b))
  <2>1. Value5(a) \in Int /\ Value5(b) \in Int /\ Prime5 \in Int /\ Value5(r) \in Int
        /\ Value5(Product5(a, b)) \in Int
    BY <1>9, <1>11, ValueIs DEF Tight, Sums
  <2>2. Value5(a) * Value5(b) \in Int
    BY <2>1
  <2>. QED
    BY <1>9, <1>11, <2>1, <2>2, SameIs
<1>. QED
  BY <1>11, <1>12

\* The sums of a square are those of the product with itself.
LEMMA SquaresAre ==
    ASSUME DonnaSizes, NEW r \in Limbs5, Within(r, 8)
    PROVE  D!Squares(r) = Product5(r, r)
<1>. DEFINE d0 == (2 * r[0]) % Word
            d1 == (2 * r[1]) % Word
            d2 == (2 * Fold * r[2]) % Word
            d419 == (Fold * r[4]) % Word
            d4 == (2 * d419) % Word
            sums == << r[0] * r[0] + d4 * r[1] + d2 * r[3],
                       d0 * r[1] + d4 * r[2] + r[3] * ((Fold * r[3]) % Word),
                       d0 * r[2] + r[1] * r[1] + d4 * r[3],
                       d0 * r[3] + d1 * r[2] + r[4] * d419,
                       d0 * r[4] + d1 * r[3] + r[2] * r[2] >>
<1>1. D!Squares(r) = [k \in 0 .. 4 |-> sums[k + 1]]
  BY FourIs, Zenon DEF D!Squares, D!Table, D!Computed
<1>2. PICK r0 \in Nat, r1 \in Nat, r2 \in Nat, r3 \in Nat, r4 \in Nat :
         r[0] = r0 /\ r[1] = r1 /\ r[2] = r2 /\ r[3] = r3 /\ r[4] = r4
  BY LimbNaturals, Zenon
<1>3. r0 <= 8 * D!Full /\ r1 <= 8 * D!Full /\ r2 <= 8 * D!Full /\ r3 <= 8 * D!Full /\ r4 <= 8 * D!Full
  BY <1>2 DEF Within
<1>4. /\ d0 = 2 * r0 /\ d1 = 2 * r1 /\ d2 = 2 * Fold * r2 /\ d419 = Fold * r4 /\ d4 = 2 * (Fold * r4)
      /\ (Fold * r[3]) % Word = Fold * r3
  <2>1. /\ (2 * r0) % Word = 2 * r0 /\ (2 * r1) % Word = 2 * r1
        /\ (2 * Fold * r2) % Word = 2 * Fold * r2
        /\ (Fold * r4) % Word = Fold * r4 /\ (2 * (Fold * r4)) % Word = 2 * (Fold * r4)
        /\ (Fold * r3) % Word = Fold * r3
    BY ONLY <1>3, DonnaSizes, r0 \in Nat, r1 \in Nat, r2 \in Nat, r3 \in Nat, r4 \in Nat, FoldedFits
  <2>. QED
    BY ONLY <1>2, <2>1, Zenon
<1>. HIDE DEF d0, d1, d2, d419, d4
<1>5. Fold \in Nat
  BY Base
<1>6. sums[1] = r[0] * r[0] + (Fold * r[1]) * r[4] + (Fold * r[2]) * r[3] + (Fold * r[3]) * r[2]
          + (Fold * r[4]) * r[1]
  <2>1. r0 * r0 + (2 * (Fold * r4)) * r1 + (2 * Fold * r2) * r3
          = r0 * r0 + (Fold * r1) * r4 + (Fold * r2) * r3 + (Fold * r3) * r2 + (Fold * r4) * r1
    BY ONLY <1>5, SMT
  <2>2. sums[1] = r0 * r0 + (2 * (Fold * r4)) * r1 + (2 * Fold * r2) * r3
    BY <1>2, <1>4
  <2>. QED
    BY ONLY <1>2, <2>1, <2>2
<1>7. sums[2] = r[0] * r[1] + r[1] * r[0] + (Fold * r[2]) * r[4] + (Fold * r[3]) * r[3]
          + (Fold * r[4]) * r[2]
  <2>1. (2 * r0) * r1 + (2 * (Fold * r4)) * r2 + r3 * (Fold * r3)
          = r0 * r1 + r1 * r0 + (Fold * r2) * r4 + (Fold * r3) * r3 + (Fold * r4) * r2
    BY ONLY <1>5, SMT
  <2>2. sums[2] = (2 * r0) * r1 + (2 * (Fold * r4)) * r2 + r3 * (Fold * r3)
    BY <1>2, <1>4
  <2>. QED
    BY ONLY <1>2, <2>1, <2>2
<1>8. sums[3] = r[0] * r[2] + r[1] * r[1] + r[2] * r[0] + (Fold * r[3]) * r[4] + (Fold * r[4]) * r[3]
  <2>1. (2 * r0) * r2 + r1 * r1 + (2 * (Fold * r4)) * r3
          = r0 * r2 + r1 * r1 + r2 * r0 + (Fold * r3) * r4 + (Fold * r4) * r3
    BY ONLY <1>5, SMT
  <2>2. sums[3] = (2 * r0) * r2 + r1 * r1 + (2 * (Fold * r4)) * r3
    BY <1>2, <1>4
  <2>. QED
    BY ONLY <1>2, <2>1, <2>2
<1>9. sums[4] = r[0] * r[3] + r[1] * r[2] + r[2] * r[1] + r[3] * r[0] + (Fold * r[4]) * r[4]
  <2>1. (2 * r0) * r3 + (2 * r1) * r2 + r4 * (Fold * r4)
          = r0 * r3 + r1 * r2 + r2 * r1 + r3 * r0 + (Fold * r4) * r4
    BY ONLY <1>5, SMT
  <2>2. sums[4] = (2 * r0) * r3 + (2 * r1) * r2 + r4 * (Fold * r4)
    BY <1>2, <1>4
  <2>. QED
    BY ONLY <1>2, <2>1, <2>2
<1>10. sums[5] = r[0] * r[4] + r[1] * r[3] + r[2] * r[2] + r[3] * r[1] + r[4] * r[0]
  <2>1. (2 * r0) * r4 + (2 * r1) * r3 + r2 * r2
          = r0 * r4 + r1 * r3 + r2 * r2 + r3 * r1 + r4 * r0
    BY ONLY <1>5, SMT
  <2>2. sums[5] = (2 * r0) * r4 + (2 * r1) * r3 + r2 * r2
    BY <1>2, <1>4
  <2>. QED
    BY ONLY <1>2, <2>1, <2>2
<1>. HIDE DEF sums
<1>11. [k \in 0 .. 4 |-> sums[k + 1]] = Product5(r, r)
  BY ONLY <1>6, <1>7, <1>8, <1>9, <1>10 DEF Product5
<1>. QED
  BY <1>1, <1>11

\* A square is the square modulo the prime, tight.
LEMMA SquareRight ==
    ASSUME DonnaSizes, NEW a \in Limbs5, Within(a, 8), NEW r, r = D!curve25519_square(a)
    PROVE  Tight(r) /\ Same5(Value5(r), Value5(a) * Value5(a))
<1>1. Sums(Product5(a, a)) /\ Same5(Value5(Product5(a, a)), Value5(a) * Value5(a))
  BY ProductSums
<1>2. r = D!MulReduced(Product5(a, a))
  BY SquaresAre DEF D!curve25519_square
<1>3. Tight(r) /\ Same5(Value5(r), Value5(Product5(a, a)))
  BY ONLY <1>1, <1>2, DonnaSizes, MulReducedRight
<1>4. Value5(a) \in Int /\ Prime5 \in Int /\ Value5(r) \in Int /\ Value5(Product5(a, a)) \in Int
  BY <1>1, <1>3, ValueIs DEF Tight, Sums
<1>5. Value5(a) * Value5(a) \in Int
  BY <1>4
<1>. QED
  BY <1>1, <1>3, <1>4, <1>5, SameIs

\* The carries of curve25519_square_times, of all limbs at once and then one
\* after another, leave the same as those of one square, tight.
LEMMA SquaredOnceRight ==
    ASSUME DonnaSizes, NEW a \in Limbs5, Within(a, 8), NEW r, r = D!SquaredOnce(a)
    PROVE  Tight(r) /\ Same5(Value5(r), Value5(a) * Value5(a))
<1>. DEFINE t == Product5(a, a)
            s == [i \in 0 .. 4 |-> ((t[i] % D!Full)
                     + (IF i = 0 THEN Fold ELSE 1) * ((t[(i + 4) % 5] \div D!Full) % Word)) % Word]
<1>1. Sums(t) /\ Same5(Value5(t), Value5(a) * Value5(a))
  BY ProductSums
<1>2. r = D!Reduced(s)
  <2>1. D!Squares(a) = t
    BY SquaresAre
  <2>. QED
    BY <2>1, FourIs, Zenon DEF D!SquaredOnce, D!Table, D!Computed, D!Mask
<1>3. PICK B \in Nat : B = D!Full /\ B > Most /\ Word = 8192 * B /\ B >= Least
  BY Base, SMT DEF Spare
<1>4. Fold \in Nat /\ Fold <= 19
  BY Base
<1>. HIDE DEF t
<1>5. /\ \A i \in 0 .. 4 : t[i] \in Nat /\ t[i] <= 4928 * (B * B)
      /\ t[3] <= 1472 * (B * B) /\ t[4] <= 320 * (B * B)
  BY ONLY <1>1, <1>3 DEF Sums, Limbs5
<1>. DEFINE Split(x, q, m) == x = B * q + m /\ q \in Nat /\ m \in Nat /\ m < B
<1>6. ASSUME NEW x \in Nat, NEW n \in Nat, n <= Most, x <= n * (B * B)
      PROVE  /\ Split(x, x \div B, x % B) /\ x \div B <= n * B
             /\ (x \div B) % Word = x \div B
  <2>1. B > 0 /\ B > n
    BY ONLY <1>3, <1>6, SMT DEF Most
  <2>2. PICK q \in Nat, m \in Nat : q = x \div B /\ m = x % B /\ x = B * q + m /\ m < B
    BY ONLY <2>1, Divided, B \in Nat, x \in Nat
  <2>3. B * q <= n * (B * B)
    BY ONLY <1>6, <2>2, B * B \in Nat, n * (B * B) \in Nat, B * q \in Nat
  <2>4. q > n * B => B * q > n * (B * B)
    BY ONLY <2>1, SMT
  <2>5. q <= n * B
    BY ONLY <2>3, <2>4, SMT
  <2>6. q % Word = q
    BY ONLY <1>3, <1>6, <2>1, <2>5, SMT DEF Most
  <2>. QED
    BY ONLY <2>2, <2>5, <2>6
<1>7. PICK t0 \in Nat, t1 \in Nat, t2 \in Nat, t3 \in Nat, t4 \in Nat :
         t[0] = t0 /\ t[1] = t1 /\ t[2] = t2 /\ t[3] = t3 /\ t[4] = t4
  <2>1. t \in Limbs5
    BY ONLY <1>1, SMT DEF Sums
  <2>. QED
    BY ONLY <2>1, LimbNaturals, Zenon
<1>8. \A i \in 0 .. 4 : Split(t[i], t[i] \div B, t[i] % B) /\ t[i] \div B <= 4928 * B
                        /\ (t[i] \div B) % Word = t[i] \div B
  <2>. DEFINE n == 4928
  <2>. SUFFICES ASSUME NEW i \in 0 .. 4
                PROVE  Split(t[i], t[i] \div B, t[i] % B) /\ t[i] \div B <= n * B
                       /\ (t[i] \div B) % Word = t[i] \div B
    OBVIOUS
  <2>1. t[i] \in Nat /\ t[i] <= n * (B * B) /\ n \in Nat /\ n <= Most
    BY ONLY <1>5, SMT DEF Most
  <2>. HIDE DEF n, Split
  <2>. QED
    BY ONLY <1>6, <2>1, Zenon
<1>9. t[3] \div B <= 1472 * B /\ t[4] \div B <= 320 * B
  <2>. DEFINE m == 1472  n == 320
  <2>1. t[3] \in Nat /\ t[3] <= m * (B * B) /\ t[4] \in Nat /\ t[4] <= n * (B * B)
        /\ m \in Nat /\ m <= Most /\ n \in Nat /\ n <= Most
    BY ONLY <1>5, SMT DEF Most
  <2>. HIDE DEF m, n, Split
  <2>2. t[3] \div B <= m * B /\ t[4] \div B <= n * B
    BY ONLY <1>6, <2>1, Zenon
  <2>. QED
    BY ONLY <2>2 DEF m, n
<1>10. PICK q0 \in Nat, q1 \in Nat, q2 \in Nat, q3 \in Nat, q4 \in Nat :
         t[0] \div B = q0 /\ t[1] \div B = q1 /\ t[2] \div B = q2 /\ t[3] \div B = q3
         /\ t[4] \div B = q4
  <2>1. /\ t[0] \div B \in Nat /\ t[1] \div B \in Nat /\ t[2] \div B \in Nat /\ t[3] \div B \in Nat
        /\ t[4] \div B \in Nat
    BY ONLY <1>8
  <2>. QED
    BY ONLY <2>1, Zenon
<1>11. PICK m0 \in Nat, m1 \in Nat, m2 \in Nat, m3 \in Nat, m4 \in Nat :
         t[0] % B = m0 /\ t[1] % B = m1 /\ t[2] % B = m2 /\ t[3] % B = m3 /\ t[4] % B = m4
  <2>1. t[0] % B \in Nat /\ t[1] % B \in Nat /\ t[2] % B \in Nat /\ t[3] % B \in Nat /\ t[4] % B \in Nat
    BY ONLY <1>8
  <2>. QED
    BY ONLY <2>1, Zenon
<1>12. \A i \in {0, 1, 2, 3, 4} : t[i] = B * (t[i] \div B) + (t[i] % B)
  BY ONLY <1>8
<1>13. /\ t0 = B * q0 + m0 /\ t1 = B * q1 + m1 /\ t2 = B * q2 + m2 /\ t3 = B * q3 + m3
       /\ t4 = B * q4 + m4
  BY ONLY <1>7, <1>10, <1>11, <1>12, Zenon
<1>14. \A i \in {0, 1, 2, 3, 4} : t[i] % B < B /\ t[i] \div B <= 4928 * B
       /\ (t[i] \div B) % Word = t[i] \div B
  BY ONLY <1>8
<1>15. /\ m0 < B /\ m1 < B /\ m2 < B /\ m3 < B /\ m4 < B
       /\ q0 <= 4928 * B /\ q1 <= 4928 * B /\ q2 <= 4928 * B /\ q3 <= 1472 * B /\ q4 <= 320 * B
       /\ q0 % Word = q0 /\ q1 % Word = q1 /\ q2 % Word = q2 /\ q3 % Word = q3 /\ q4 % Word = q4
  BY ONLY <1>9, <1>10, <1>11, <1>14, SMT
<1>16. /\ s[0] = m0 + Fold * q4 /\ s[1] = m1 + q0 /\ s[2] = m2 + q1 /\ s[3] = m3 + q2 /\ s[4] = m4 + q3
       /\ s[0] \in Nat /\ s[0] <= 6081 * B /\ s[1] <= 6081 * B /\ s[2] <= 6081 * B /\ s[3] <= 6081 * B
       /\ s[4] <= 1473 * B
  <2>1. (m0 + Fold * q4) % Word = m0 + Fold * q4 /\ m0 + Fold * q4 <= 6081 * B /\ m0 + Fold * q4 \in Nat
    <3>1. Fold * q4 \in Nat /\ Fold * q4 <= 6080 * B
      BY ONLY <1>4, <1>15, SMT
    <3>. QED
      BY ONLY <1>3, <1>15, <3>1, SMT DEF Most
  <2>2. (m1 + q0) % Word = m1 + q0 /\ m1 + q0 <= 6081 * B
    BY ONLY <1>3, <1>15, SMT DEF Most
  <2>3. (m2 + q1) % Word = m2 + q1 /\ m2 + q1 <= 6081 * B
    BY ONLY <1>3, <1>15, SMT DEF Most
  <2>4. (m3 + q2) % Word = m3 + q2 /\ m3 + q2 <= 6081 * B
    BY ONLY <1>3, <1>15, SMT DEF Most
  <2>5. (m4 + q3) % Word = m4 + q3 /\ m4 + q3 <= 1473 * B
    BY ONLY <1>3, <1>15, SMT DEF Most
  <2>6. /\ s[0] = ((t[0] % B) + Fold * ((t[4] \div B) % Word)) % Word
        /\ s[1] = ((t[1] % B) + 1 * ((t[0] \div B) % Word)) % Word
        /\ s[2] = ((t[2] % B) + 1 * ((t[1] \div B) % Word)) % Word
        /\ s[3] = ((t[3] % B) + 1 * ((t[2] \div B) % Word)) % Word
        /\ s[4] = ((t[4] % B) + 1 * ((t[3] \div B) % Word)) % Word
    BY ONLY <1>3
  <2>7. 1 * q0 = q0 /\ 1 * q1 = q1 /\ 1 * q2 = q2 /\ 1 * q3 = q3
    OBVIOUS
  <2>8. /\ s[0] = m0 + Fold * q4 /\ s[1] = m1 + q0 /\ s[2] = m2 + q1 /\ s[3] = m3 + q2 /\ s[4] = m4 + q3
    BY ONLY <1>10, <1>11, <1>15, <2>1, <2>2, <2>3, <2>4, <2>5, <2>6, <2>7
  <2>. QED
    BY ONLY <2>1, <2>2, <2>3, <2>4, <2>5, <2>8
<1>17. s = [i \in 0 .. 4 |-> s[i]]
  OBVIOUS
<1>. HIDE DEF s
<1>18. s \in Limbs5 /\ Within(s, 6081) /\ s[4] <= 1473 * D!Full
  <2>1. \A i \in 0 .. 4 : s[i] \in Nat /\ s[i] <= 6081 * B
    BY ONLY <1>16
  <2>. QED
    BY ONLY <1>3, <1>16, <1>17, <2>1 DEF Limbs5, Within
<1>19. Tight(r) /\ Same5(Value5(r), Value5(s))
  <2>1. 0 < 6081 /\ 6081 <= Most /\ 6081 \in Nat /\ 1473 \in Nat /\ 19 * 1473 < Slack
    BY ONLY SMT DEF Most, Slack
  <2>. QED
    BY ONLY <1>2, <1>18, <2>1, DonnaSizes, ReducedTight
<1>20. Value5(s) = Value5(t) + (-q4) * Prime5
  <2>1. (m0 + Fold * q4) + B * ((m1 + q0) + B * ((m2 + q1) + B * ((m3 + q2) + B * (m4 + q3))))
          = (B * q0 + m0) + B * ((B * q1 + m1)
              + B * ((B * q2 + m2) + B * ((B * q3 + m3) + B * (B * q4 + m4))))
            + (-q4) * (B * B * B * B * B - Fold)
    BY ONLY <1>4, SMT
  <2>2. B = D!Full
    BY ONLY <1>3
  <2>3. s[0] = m0 + Fold * q4 /\ s[1] = m1 + q0 /\ s[2] = m2 + q1 /\ s[3] = m3 + q2 /\ s[4] = m4 + q3
    BY ONLY <1>16
  <2>4. Value5(s) = (m0 + Fold * q4)
            + B * ((m1 + q0) + B * ((m2 + q1) + B * ((m3 + q2) + B * (m4 + q3))))
    BY ONLY <2>2, <2>3, Zenon DEF Value5
  <2>5. Value5(t) = (B * q0 + m0) + B * ((B * q1 + m1)
            + B * ((B * q2 + m2) + B * ((B * q3 + m3) + B * (B * q4 + m4))))
    BY ONLY <2>2, <1>7, <1>13, Zenon DEF Value5
  <2>. QED
    BY ONLY <2>1, <2>4, <2>5, <2>2, Zenon DEF Prime5
<1>21. Same5(Value5(s), Value5(t))
  <2>1. -q4 \in Int
    OBVIOUS
  <2>. QED
    BY ONLY <1>20, <2>1, Zenon DEF Same5
<1>22. /\ Value5(a) \in Int /\ Prime5 \in Int /\ Value5(r) \in Int /\ Value5(t) \in Int
       /\ Value5(s) \in Int
  BY <1>1, <1>18, <1>19, ValueIs DEF Tight, Sums
<1>23. Value5(a) * Value5(a) \in Int
  BY <1>22
<1>24. Same5(Value5(r), Value5(t))
  BY ONLY <1>19, <1>21, <1>22, SameIs
<1>. QED
  BY ONLY <1>1, <1>19, <1>22, <1>23, <1>24, SameIs

\* The square of the number before.
Squarings(p, x, n) == p \in [0 .. n -> Int] /\ p[0] = x /\ \A i \in 1 .. n : p[i] = p[i - 1] * p[i - 1]

\* There are such numbers.
LEMMA SquaringsExist ==
    ASSUME NEW x \in Int, NEW count \in Nat
    PROVE  \E p : Squarings(p, x, count)
<1>. DEFINE G == {n \in Nat : \E p : Squarings(p, x, n)}
<1>1. 0 \in G
  <2>1. Squarings([i \in 0 .. 0 |-> x], x, 0)
    BY DEF Squarings
  <2>. QED
    BY <2>1
<1>2. ASSUME NEW n \in Nat, n \in G PROVE n + 1 \in G
  <2>1. PICK p : Squarings(p, x, n)
    BY <1>2
  <2>. DEFINE q == [i \in 0 .. n + 1 |-> IF i = n + 1 THEN p[n] * p[n] ELSE p[i]]
  <2>2. p \in [0 .. n -> Int] /\ p[0] = x /\ \A i \in 1 .. n : p[i] = p[i - 1] * p[i - 1]
    BY <2>1 DEF Squarings
  <2>3. PICK y \in Int : y = p[n] * p[n]
    <3>1. p[n] \in Int
      BY <2>2
    <3>. QED
      BY <3>1, SMT
  <2>4. q = [i \in 0 .. n + 1 |-> IF i = n + 1 THEN y ELSE p[i]]
    BY <2>3
  <2>. HIDE DEF q
  <2>5. q \in [0 .. n + 1 -> Int] /\ q[0] = x
    BY <2>2, <2>4
  <2>6. ASSUME NEW i \in 1 .. n + 1 PROVE q[i] = q[i - 1] * q[i - 1]
    <3>1. CASE i = n + 1
      <4>1. q[i] = y /\ q[i - 1] = p[n]
        BY <2>4, <3>1
      <4>. QED
        BY ONLY <2>3, <4>1
    <3>2. CASE i # n + 1
      <4>1. i \in 1 .. n /\ q[i] = p[i] /\ q[i - 1] = p[i - 1]
        BY <2>4, <3>2
      <4>. QED
        BY ONLY <2>2, <4>1, Zenon
    <3>. QED
      BY <3>1, <3>2
  <2>7. Squarings(q, x, n + 1)
    BY <2>5, <2>6 DEF Squarings
  <2>. QED
    BY <2>7
<1>. HIDE DEF G
<1>3. \A n \in 0 .. count : n \in G
  BY <1>1, <1>2, Upwards
<1>4. count \in G
  BY <1>3
<1>. QED
  BY <1>4 DEF G

\* A limb that is tight leaves room for seven more.
LEMMA TightWithin ==
    ASSUME DonnaSizes, NEW f, Tight(f)
    PROVE  f \in Limbs5 /\ Within(f, 2) /\ Within(f, 8) /\ \A i \in 0 .. 4 : f[i] <= 2 * (D!Full - Fold)
<1>1. D!Full \in Nat /\ D!Full >= Least /\ Fold \in 1 .. 19
  BY Base
<1>2. \A i \in 0 .. 4 : f[i] \in Nat /\ f[i] < D!Full + Slack /\ f \in Limbs5
  BY DEF Tight, Limbs5
<1>3. ASSUME NEW x \in Nat, x < D!Full + Slack
      PROVE  x <= 2 * D!Full /\ x <= 8 * D!Full /\ x <= 2 * (D!Full - Fold)
  BY ONLY <1>1, <1>3, SMT DEF Slack, Least
<1>4. \A i \in 0 .. 4 : f[i] <= 2 * D!Full /\ f[i] <= 8 * D!Full /\ f[i] <= 2 * (D!Full - Fold)
  BY ONLY <1>2, <1>3
<1>. QED
  BY <1>2, <1>4 DEF Within

\* However often a number is squared, it is tight, and the square of the square
\* and so on of the number, modulo the prime.
LEMMA SquareTimesRight ==
    ASSUME DonnaSizes, NEW a \in Limbs5, Within(a, 8), NEW count \in Nat \ {0},
           NEW r, r = D!curve25519_square_times(a, count),
           NEW p, Squarings(p, Value5(a), count)
    PROVE  Tight(r) /\ Same5(Value5(r), p[count])
<1>. DEFINE Solves(f, i) == f = [n \in 0 .. i |-> IF n = 0 THEN a ELSE D!SquaredOnce(f[n - 1])]
<1>1. \A i \in 0 .. count : \E f : Solves(f, i)
  <2>. DEFINE G == {i \in Nat : \E f : Solves(f, i)}
  <2>1. 0 \in G
    <3>1. Solves([n \in 0 .. 0 |-> a], 0)
      OBVIOUS
    <3>. QED
      BY <3>1
  <2>2. ASSUME NEW i \in Nat, i \in G PROVE i + 1 \in G
    <3>1. PICK f : Solves(f, i)
      BY <2>2
    <3>. DEFINE g == [n \in 0 .. i + 1 |-> IF n = i + 1 THEN D!SquaredOnce(f[i]) ELSE f[n]]
    <3>2. \A n \in 0 .. i : g[n] = IF n = 0 THEN a ELSE D!SquaredOnce(g[n - 1])
      <4>1. ASSUME NEW n \in 0 .. i, n # 0
            PROVE  n - 1 \in 0 .. i /\ g[n - 1] = f[n - 1] /\ g[n] = f[n]
            /\ f[n] = D!SquaredOnce(f[n - 1])
        BY <3>1, <4>1
      <4>2. 0 \in 0 .. i /\ g[0] = f[0] /\ f[0] = a
        BY <3>1
      <4>. HIDE DEF g
      <4>. QED
        BY <4>1, <4>2
    <3>3. g[i + 1] = D!SquaredOnce(g[i]) /\ i + 1 # 0 /\ i + 1 - 1 = i
      OBVIOUS
    <3>4. \A n \in 0 .. i + 1 : n \in 0 .. i \/ n = i + 1
      OBVIOUS
    <3>5. \A n \in 0 .. i + 1 : g[n] = IF n = 0 THEN a ELSE D!SquaredOnce(g[n - 1])
      <4>. HIDE DEF g
      <4>. QED
        BY <3>2, <3>3, <3>4
    <3>6. g = [n \in 0 .. i + 1 |-> g[n]]
      OBVIOUS
    <3>7. Solves(g, i + 1)
      <4>. HIDE DEF g
      <4>. QED
        BY <3>5, <3>6
    <3>8. \E h : Solves(h, i + 1)
      <4>. HIDE DEF g, Solves
      <4>. QED
        BY <3>7
    <3>9. i + 1 \in Nat
      OBVIOUS
    <3>. HIDE DEF Solves
    <3>. QED
      BY ONLY <3>8, <3>9 DEF G
  <2>. HIDE DEF G, Solves
  <2>3. \A i \in 0 .. count : i \in G
    BY <2>1, <2>2, Upwards
  <2>. QED
    BY <2>3 DEF G
<1>2. \E f : Solves(f, count)
  <2>1. count \in 0 .. count
    OBVIOUS
  <2>. HIDE DEF Solves
  <2>. QED
    BY ONLY <1>1, <2>1
<1>3. PICK f : Solves(f, count)
  BY ONLY <1>2
<1>. DEFINE squared[n \in 0 .. count] == IF n = 0 THEN a ELSE D!SquaredOnce(squared[n - 1])
<1>4. Solves(squared, count)
  BY <1>3
<1>5. r = squared[count]
  BY Zenon DEF D!curve25519_square_times
<1>. HIDE DEF squared
<1>6. squared[0] = a /\ \A n \in 1 .. count : squared[n] = D!SquaredOnce(squared[n - 1])
  BY <1>4
<1>. DEFINE Kept(n) == /\ squared[n] \in Limbs5 /\ Within(squared[n], 8) /\ (n > 0 => Tight(squared[n]))
                       /\ Same5(Value5(squared[n]), p[n])
<1>7. p \in [0 .. count -> Int] /\ p[0] = Value5(a) /\ \A n \in 1 .. count : p[n] = p[n - 1] * p[n - 1]
  BY DEF Squarings
<1>8. Prime5 \in Int
  BY ValueIs
<1>9. Kept(0)
  <2>1. Same5(Value5(a), Value5(a))
    BY <1>8, ValueIs, SameIs
  <2>. QED
    BY <1>6, <1>7, <2>1
<1>10. ASSUME NEW n \in Nat, n < count, Kept(n) PROVE Kept(n + 1)
  <2>1. n + 1 \in 1 .. count /\ n + 1 - 1 = n /\ n \in 0 .. count /\ n + 1 \in 0 .. count
    BY <1>10
  <2>2. squared[n + 1] = D!SquaredOnce(squared[n]) /\ p[n + 1] = p[n] * p[n] /\ p[n] \in Int
        /\ p[n + 1] \in Int
    BY <1>6, <1>7, <2>1
  <2>3. Tight(squared[n + 1]) /\ Same5(Value5(squared[n + 1]), Value5(squared[n]) * Value5(squared[n]))
    BY ONLY <1>10, <2>2, DonnaSizes, SquaredOnceRight
  <2>4. squared[n + 1] \in Limbs5 /\ Within(squared[n + 1], 8)
    BY ONLY <2>3, DonnaSizes, TightWithin
  <2>5. Value5(squared[n]) \in Int /\ Value5(squared[n + 1]) \in Int
    BY <1>10, <2>4, ValueIs
  <2>6. Value5(squared[n]) * Value5(squared[n]) \in Int
    BY <2>5
  <2>7. Same5(Value5(squared[n]) * Value5(squared[n]), p[n] * p[n])
    BY ONLY <1>8, <1>10, <2>2, <2>5, SameIs
  <2>8. Same5(Value5(squared[n + 1]), p[n + 1])
    <3>1. \A x, y, z \in Int : Same5(x, y) /\ Same5(y, z) => Same5(x, z)
      BY <1>8, SameIs
    <3>2. Same5(Value5(squared[n]) * Value5(squared[n]), p[n + 1])
      BY ONLY <2>2, <2>7, Zenon
    <3>. QED
      BY ONLY <2>2, <2>3, <2>5, <2>6, <3>1, <3>2, Zenon
  <2>. QED
    BY <2>3, <2>4, <2>8
<1>. DEFINE G == {n \in Nat : Kept(n)}
<1>11. 0 \in G
  BY <1>9
<1>12. ASSUME NEW n \in Nat, n < count, n \in G PROVE n + 1 \in G
  BY <1>10, <1>12
<1>. HIDE DEF G
<1>13. \A n \in 0 .. count : n \in G
  BY <1>11, <1>12, Upwards
<1>14. Kept(count) /\ count > 0
  BY <1>13 DEF G
<1>. QED
  BY <1>5, <1>14

\* curve25519_mul and curve25519_square of limbs up to eight times the base: the
\* product modulo the prime, in limbs that can be multiplied again, and no 128-bit
\* sum of it reaches 2^128, though nothing there checks for it.
THEOREM FieldProducts ==
    ASSUME DonnaSizes, NEW a \in Limbs5, NEW b \in Limbs5, Within(a, 8), Within(b, 8)
    PROVE  /\ Tight(D!curve25519_mul(a, b))
           /\ Same5(Value5(D!curve25519_mul(a, b)), Value5(a) * Value5(b))
           /\ Tight(D!curve25519_square(a))
           /\ Same5(Value5(D!curve25519_square(a)), Value5(a) * Value5(a))
           /\ \A i \in 0 .. 4 : Carried128(Product5(a, b))[i] < Word * Word
           /\ \A i \in 0 .. 4 : Carried128(D!Squares(a))[i] < Word * Word
<1>1. /\ Tight(D!curve25519_mul(a, b)) /\ Same5(Value5(D!curve25519_mul(a, b)), Value5(a) * Value5(b))
      /\ \A i \in 0 .. 4 : Carried128(Product5(a, b))[i] < Word * Word
  BY MulRight
<1>2. Tight(D!curve25519_square(a)) /\ Same5(Value5(D!curve25519_square(a)), Value5(a) * Value5(a))
  BY SquareRight
<1>3. \A i \in 0 .. 4 : Carried128(Product5(a, a))[i] < Word * Word
  BY MulRight
<1>4. D!Squares(a) = Product5(a, a)
  BY SquaresAre
<1>. QED
  BY ONLY <1>1, <1>2, <1>3, <1>4, Zenon

\* curve25519_square_times, whose loop keeps its own limbs: after any number of
\* turns the square of the square and so on, ready to be multiplied.
THEOREM FieldSquares ==
    ASSUME DonnaSizes, NEW a \in Limbs5, Within(a, 8), NEW count \in Nat \ {0}
    PROVE  \E p : /\ Squarings(p, Value5(a), count)
                  /\ Tight(D!curve25519_square_times(a, count))
                  /\ Same5(Value5(D!curve25519_square_times(a, count)), p[count])
<1>1. Value5(a) \in Int /\ count \in Nat
  BY ValueIs
<1>2. PICK p : Squarings(p, Value5(a), count)
  BY ONLY <1>1, SquaringsExist
<1>3. Tight(D!curve25519_square_times(a, count))
      /\ Same5(Value5(D!curve25519_square_times(a, count)), p[count])
  BY <1>2, SquareTimesRight
<1>. QED
  BY ONLY <1>2, <1>3, Zenon

-----------------------------------------------------------------------------
(* The one form every number has *)

\* Limbs that are digits.
Digits5(f) == f \in Limbs5 /\ \A i \in 0 .. 4 : f[i] < D!Full

\* A limb below the base and a carry of at most 1 carry at most that.
LEMMA UnitCarry ==
    ASSUME NEW b \in Nat, NEW t \in Nat, t < b, NEW below \in Nat, below <= 1,
           NEW v, v = t + below
    PROVE  v \div b \in Nat /\ v \div b <= below
<1>1. v \in Nat /\ b > 0 /\ v < b + below
  BY SMT
<1>2. PICK q \in Nat, r \in Nat : q = v \div b /\ v = b * q + r
  BY ONLY <1>1, b \in Nat, Divided
<1>3. q > below => b * q >= b * (below + 1)
  BY ONLY b \in Nat, below \in Nat, SMT
<1>4. b * (below + 1) = b * below + b /\ b * below >= below
  BY ONLY b \in Nat, below \in Nat, <1>1, SMT
<1>5. q <= below
  BY ONLY <1>1, <1>2, <1>3, <1>4, b \in Nat, below \in Nat, b * below \in Int, b * q \in Int
<1>. QED
  BY ONLY <1>2, <1>5

\* The forms of the carry in curve25519_contract.
LEMMA CarryFullIs ==
    ASSUME NEW t
    PROVE  D!CarryFull(t) = D!Reduced(t)
<1>. DEFINE v == D!Carried(t)
            c == [i \in 0 .. 4 |-> IF i = 4 THEN v[4] ELSE v[i] % D!Full]
<1>1. D!ContractCarry(t) = c
  BY FourIs, Zenon DEF D!ContractCarry, D!Table, D!Computed, D!Mask
<1>2. D!CarryFull(t) = [c EXCEPT ![0] = (@ + Fold * (c[4] \div D!Full)) % Word, ![4] = @ % D!Full]
  BY ONLY <1>1, Zenon DEF D!CarryFull, D!Mask
<1>3. D!Reduced(t) = [i \in 0 .. 4 |-> IF i = 0 THEN ((v[0] % D!Full)
          + Fold * (v[4] \div D!Full)) % Word ELSE v[i] % D!Full]
  BY FourIs, Zenon DEF D!Reduced, D!Mask, D!Table, D!Computed
<1>. HIDE DEF v
<1>4. c[4] = v[4] /\ c[0] = v[0] % D!Full /\ c[1] = v[1] % D!Full /\ c[2] = v[2] % D!Full
      /\ c[3] = v[3] % D!Full /\ c = [i \in 0 .. 4 |-> c[i]]
  OBVIOUS
<1>. HIDE DEF c
<1>5. [c EXCEPT ![0] = (@ + Fold * (c[4] \div D!Full)) % Word, ![4] = @ % D!Full]
      = [i \in 0 .. 4 |-> IF i = 0 THEN ((v[0] % D!Full) + Fold * (v[4] \div D!Full)) % Word
          ELSE v[i] % D!Full]
  <2>. DEFINE x == (c[0] + Fold * (c[4] \div D!Full)) % Word
              y == c[4] % D!Full
              g == [i \in 0 .. 4 |-> IF i = 0 THEN ((v[0] % D!Full)
                  + Fold * (v[4] \div D!Full)) % Word ELSE v[i] % D!Full]
  <2>1. x = ((v[0] % D!Full) + Fold * (v[4] \div D!Full)) % Word /\ y = v[4] % D!Full
    BY ONLY <1>4
  <2>2. g[0] = x /\ g[4] = y /\ g[1] = c[1] /\ g[2] = c[2] /\ g[3] = c[3] /\ g = [i \in 0 .. 4 |-> g[i]]
    BY ONLY <1>4, <2>1
  <2>. HIDE DEF x, y, g
  <2>3. [[c EXCEPT ![0] = x] EXCEPT ![4] = y] = g
    BY ONLY <1>4, <2>2
  <2>. QED
    BY ONLY <2>3 DEF x, y, g
<1>. QED
  BY ONLY <1>2, <1>3, <1>5

\* A pass over digits, the lowest of which may be a little more than one, leaves digits.
LEMMA PassOverDigits ==
    ASSUME DonnaSizes, NEW t \in Limbs5, NEW extra \in Nat, extra + Fold <= D!Full,
           t[0] < D!Full + extra, \A i \in 1 .. 4 : t[i] < D!Full,
           NEW r, r = D!CarryFull(t)
    PROVE  /\ Digits5(r)
           /\ \/ Value5(r) = Value5(t)
              \/ /\ Value5(r) = Value5(t) - Prime5
                 /\ Value5(t) >= D!Full * D!Full * D!Full * D!Full * D!Full
<1>. DEFINE v == D!Carried(t)
            m == [i \in 0 .. 4 |-> v[i] % D!Full]
<1>1. D!Full \in Nat /\ D!Full > 0 /\ Word \in Nat /\ Word = Spare * D!Full /\ Fold \in Nat /\ Fold > 0
  BY Base
<1>2. Within(t, 2) /\ 2 \in Nat /\ 0 < 2 /\ 2 <= Most
  <2>1. \A i \in 0 .. 4 : t[i] \in Nat /\ t[i] <= 2 * D!Full
    BY <1>1 DEF Limbs5
  <2>. QED
    BY <2>1, SMT DEF Within, Most
<1>3. /\ v \in Limbs5
      /\ v[0] = t[0] /\ \A i \in 1 .. 4 : v[i] = t[i] + (v[i - 1] \div D!Full)
      /\ Value5(t) = Value5(m) + D!Full * D!Full * D!Full * D!Full * D!Full * (v[4] \div D!Full)
  BY ONLY <1>2, DonnaSizes, t \in Limbs5, CarriedRight
<1>4. r = [i \in 0 .. 4 |-> IF i = 0 THEN ((v[0] % D!Full) + Fold * (v[4] \div D!Full)) % Word
          ELSE v[i] % D!Full]
  <2>1. r = D!Reduced(t)
    BY CarryFullIs
  <2>. QED
    BY <2>1, FourIs, Zenon DEF D!Reduced, D!Mask, D!Table, D!Computed
<1>. HIDE DEF v
<1>5. \A i \in 0 .. 4 : /\ v[i] = D!Full * (v[i] \div D!Full) + (v[i] % D!Full)
                        /\ v[i] \div D!Full \in Nat /\ v[i] % D!Full \in Nat /\ v[i] % D!Full < D!Full
  <2>1. \A i \in 0 .. 4 : v[i] \in Nat
    BY <1>3 DEF Limbs5
  <2>. QED
    BY ONLY <1>1, <2>1, Divided
<1>6. v[0] \div D!Full <= 1 /\ (v[0] \div D!Full = 1 => v[0] % D!Full < extra)
  <2>1. PICK b \in Nat, q \in Nat, y \in Nat : b = D!Full /\ q = v[0] \div D!Full /\ y = v[0] % D!Full
    <3>1. v[0] \div D!Full \in Nat /\ v[0] % D!Full \in Nat
      BY <1>5
    <3>. QED
      BY ONLY <1>1, <3>1, Zenon
  <2>2. b * q + y < b + extra /\ extra < b /\ y < b
    BY <1>1, <1>3, <1>5, <2>1
  <2>3. q > 1 => b * q >= b * 2
    BY ONLY SMT
  <2>4. q <= 1 /\ (q = 1 => y < extra)
    BY ONLY <2>2, <2>3
  <2>. QED
    BY <2>1, <2>4
<1>7. ASSUME NEW i \in 1 .. 4, v[i - 1] \div D!Full <= 1
      PROVE  v[i] \div D!Full <= v[i - 1] \div D!Full
  <2>1. t[i] \in Nat /\ t[i] < D!Full /\ v[i - 1] \div D!Full \in Nat
    BY <1>5 DEF Limbs5
  <2>2. v[i] = t[i] + (v[i - 1] \div D!Full)
    BY <1>3
  <2>. QED
    BY ONLY <1>1, <1>7, <2>1, <2>2, UnitCarry
<1>8. v[4] \div D!Full <= 1 /\ (v[4] \div D!Full = 1 => v[0] \div D!Full = 1)
  <2>1. v[1] \div D!Full <= v[0] \div D!Full
    BY <1>6, <1>7
  <2>2. v[2] \div D!Full <= v[1] \div D!Full
    BY <1>5, <1>6, <1>7, <2>1
  <2>3. v[3] \div D!Full <= v[2] \div D!Full
    BY <1>5, <1>6, <1>7, <2>1, <2>2
  <2>4. v[4] \div D!Full <= v[3] \div D!Full
    BY <1>5, <1>6, <1>7, <2>1, <2>2, <2>3
  <2>5. \A i \in 0 .. 4 : v[i] \div D!Full \in Nat
    BY <1>5
  <2>. QED
    BY ONLY <1>6, <2>1, <2>2, <2>3, <2>4, <2>5
<1>9. PICK k \in Nat, y \in Nat : k = v[4] \div D!Full /\ y = v[0] % D!Full
  BY <1>5
<1>10. k \in {0, 1} /\ y + Fold * k \in Nat /\ y + Fold * k < D!Full
  <2>1. y < D!Full /\ k <= 1 /\ (k = 1 => y < extra)
    BY ONLY <1>5, <1>6, <1>8, <1>9
  <2>2. k = 0 \/ k = 1
    BY ONLY <2>1
  <2>3. CASE k = 0
    BY ONLY <1>1, <2>1, <2>3
  <2>4. CASE k = 1
    BY ONLY <1>1, <2>1, <2>4, extra \in Nat, extra + Fold <= D!Full
  <2>. QED
    BY ONLY <2>2, <2>3, <2>4
<1>11. (y + Fold * k) % Word = y + Fold * k
  BY ONLY <1>1, <1>10, SMT DEF Spare
<1>12. r[0] = y + Fold * k /\ (\A i \in 1 .. 4 : r[i] = v[i] % D!Full) /\ r = [i \in 0 .. 4 |-> r[i]]
  BY ONLY <1>4, <1>9, <1>11
<1>13. Digits5(r)
  <2>1. \A i \in 0 .. 4 : r[i] \in Nat /\ r[i] < D!Full
    BY ONLY <1>5, <1>10, <1>12
  <2>. QED
    BY <1>12, <2>1 DEF Digits5, Limbs5
<1>14. m[0] = y /\ \A i \in 1 .. 4 : m[i] = v[i] % D!Full
  BY <1>9
<1>. HIDE DEF m
<1>15. Value5(r) = Value5(m) + Fold * k /\ Value5(m) \in Nat
  <2>1. PICK b \in Int : b = D!Full
    BY <1>1
  <2>2. PICK m1 \in Nat, m2 \in Nat, m3 \in Nat, m4 \in Nat :
           v[1] % D!Full = m1 /\ v[2] % D!Full = m2 /\ v[3] % D!Full = m3 /\ v[4] % D!Full = m4
    <3>1. v[1] % D!Full \in Nat /\ v[2] % D!Full \in Nat /\ v[3] % D!Full \in Nat
          /\ v[4] % D!Full \in Nat
      BY <1>5
    <3>. QED
      BY ONLY <3>1, Zenon
  <2>3. (y + Fold * k) + b * (m1 + b * (m2 + b * (m3 + b * m4)))
          = (y + b * (m1 + b * (m2 + b * (m3 + b * m4)))) + Fold * k
    BY <1>1, SMT
  <2>4. r[1] = v[1] % D!Full /\ r[2] = v[2] % D!Full /\ r[3] = v[3] % D!Full /\ r[4] = v[4] % D!Full
        /\ m[1] = v[1] % D!Full /\ m[2] = v[2] % D!Full /\ m[3] = v[3] % D!Full /\ m[4] = v[4] % D!Full
    BY <1>12, <1>14
  <2>5. Value5(r) = Value5(m) + Fold * k
    BY ONLY <1>12, <1>14, <2>1, <2>2, <2>3, <2>4, Zenon DEF Value5
  <2>6. m \in Limbs5
    <3>1. \A i \in 0 .. 4 : v[i] % D!Full \in Nat
      BY <1>5
    <3>. QED
      BY <3>1 DEF m, Limbs5
  <2>. QED
    BY <2>5, <2>6, ValueIs
<1>16. Value5(r) = Value5(t) \/ /\ Value5(r) = Value5(t) - Prime5
                                /\ Value5(t) >= D!Full * D!Full * D!Full * D!Full * D!Full
  <2>1. PICK p \in Int, x \in Nat, z \in Int, w \in Int, f \in Int :
           /\ p = D!Full * D!Full * D!Full * D!Full * D!Full /\ x = Value5(m)
           /\ z = Value5(r) /\ w = Value5(t) /\ f = Fold
    <3>1. D!Full * D!Full * D!Full * D!Full * D!Full \in Int
      BY ONLY <1>1, SMT
    <3>2. Value5(r) \in Int /\ Value5(t) \in Int
      BY <1>13, ValueIs DEF Digits5
    <3>. QED
      <4>1. Value5(m) \in Nat /\ Fold \in Int
        BY ONLY <1>1, <1>15
      <4>. QED
        BY ONLY <3>1, <3>2, <4>1, Zenon
  <2>2. w = x + p * k /\ z = x + f * k /\ Prime5 = p - f
    BY <1>3, <1>9, <1>15, <2>1, Zenon DEF Prime5
  <2>3. z = w \/ (z = w - (p - f) /\ w >= p)
    BY ONLY <1>10, <2>2
  <2>. QED
    BY <2>1, <2>2, <2>3
<1>. QED
  BY <1>13, <1>16

\* One digit and the digits above it.
LEMMA DigitAndRest ==
    ASSUME NEW b \in Nat, NEW x \in Nat, NEW y \in Nat, x < b, y < b, NEW u \in Int, NEW v \in Int,
           x + b * u = y + b * v
    PROVE  x = y /\ u = v
<1>1. u > v => b * u >= b * (v + 1)
  BY SMT
<1>2. v > u => b * v >= b * (u + 1)
  BY SMT
<1>3. b * (v + 1) = b * v + b /\ b * (u + 1) = b * u + b /\ b * u \in Int /\ b * v \in Int
  BY SMT
<1>4. ~(u > v) /\ ~(v > u)
  BY ONLY <1>1, <1>2, <1>3, b \in Nat, x \in Nat, y \in Nat, x < b, y < b, x + b * u = y + b * v
<1>5. u = v
  BY ONLY <1>4, u \in Int, v \in Int
<1>. QED
  BY ONLY <1>3, <1>5, x \in Nat, y \in Nat, x + b * u = y + b * v

\* Digits are those of one number, and that one is below the fifth power of the base.
LEMMA DigitsOfOne ==
    ASSUME DonnaSizes
    PROVE  /\ \A f, g : Digits5(f) /\ Digits5(g) /\ Value5(f) = Value5(g) => f = g
           /\ \A f : Digits5(f) => Value5(f) \in Nat
              /\ Value5(f) < D!Full * D!Full * D!Full * D!Full * D!Full
<1>1. PICK B \in Nat : B = D!Full /\ B > 0
  BY Base
<1>2. ASSUME NEW f, NEW g, Digits5(f), Digits5(g), Value5(f) = Value5(g) PROVE f = g
  <2>1. PICK f0 \in Nat, f1 \in Nat, f2 \in Nat, f3 \in Nat, f4 \in Nat :
           f[0] = f0 /\ f[1] = f1 /\ f[2] = f2 /\ f[3] = f3 /\ f[4] = f4
    BY <1>2, LimbNaturals, Zenon DEF Digits5
  <2>2. f0 < B /\ f1 < B /\ f2 < B /\ f3 < B /\ f4 < B
    BY ONLY <1>1, <1>2, <2>1 DEF Digits5
  <2>3. Value5(f) = f0 + B * (f1 + B * (f2 + B * (f3 + B * f4)))
    BY ONLY <1>1, <2>1, Zenon DEF Value5
  <2>4. PICK g0 \in Nat, g1 \in Nat, g2 \in Nat, g3 \in Nat, g4 \in Nat :
           g[0] = g0 /\ g[1] = g1 /\ g[2] = g2 /\ g[3] = g3 /\ g[4] = g4
    BY <1>2, LimbNaturals, Zenon DEF Digits5
  <2>5. g0 < B /\ g1 < B /\ g2 < B /\ g3 < B /\ g4 < B
    BY ONLY <1>1, <1>2, <2>4 DEF Digits5
  <2>6. Value5(g) = g0 + B * (g1 + B * (g2 + B * (g3 + B * g4)))
    BY ONLY <1>1, <2>4, Zenon DEF Value5
  <2>7. /\ B * f4 \in Int /\ B * (f3 + B * f4) \in Int /\ B * (f2 + B * (f3 + B * f4)) \in Int
        /\ B * (f1 + B * (f2 + B * (f3 + B * f4))) \in Int
        /\ B * g4 \in Int /\ B * (g3 + B * g4) \in Int /\ B * (g2 + B * (g3 + B * g4)) \in Int
        /\ B * (g1 + B * (g2 + B * (g3 + B * g4))) \in Int
    BY ONLY SMT
  <2>8. f0 + B * (f1 + B * (f2 + B * (f3 + B * f4))) = g0 + B * (g1 + B * (g2 + B * (g3 + B * g4)))
    BY ONLY <1>2, <2>3, <2>6, Zenon
  <2>9. f0 = g0 /\ f1 + B * (f2 + B * (f3 + B * f4)) = g1 + B * (g2 + B * (g3 + B * g4))
    <3>1. f1 + B * (f2 + B * (f3 + B * f4)) \in Int /\ g1 + B * (g2 + B * (g3 + B * g4)) \in Int
      BY ONLY <2>7
    <3>2. f0 < B /\ g0 < B
      BY ONLY <2>2, <2>5
    <3>3. PICK u \in Int, v \in Int : u = f1 + B * (f2 + B * (f3 + B * f4))
          /\ v = g1 + B * (g2 + B * (g3 + B * g4))
      BY ONLY <3>1, Zenon
    <3>4. f0 + B * u = g0 + B * v
      BY ONLY <2>8, <3>3, Zenon
    <3>5. f0 = g0 /\ u = v
      BY ONLY <3>2, <3>4, DigitAndRest
    <3>. QED
      BY ONLY <3>3, <3>5, Zenon
  <2>10. f1 = g1 /\ f2 + B * (f3 + B * f4) = g2 + B * (g3 + B * g4)
    <3>1. f2 + B * (f3 + B * f4) \in Int /\ g2 + B * (g3 + B * g4) \in Int
      BY ONLY <2>7
    <3>2. f1 < B /\ g1 < B
      BY ONLY <2>2, <2>5
    <3>3. PICK u \in Int, v \in Int : u = f2 + B * (f3 + B * f4) /\ v = g2 + B * (g3 + B * g4)
      BY ONLY <3>1, Zenon
    <3>4. f1 + B * u = g1 + B * v
      BY ONLY <2>9, <3>3, Zenon
    <3>5. f1 = g1 /\ u = v
      BY ONLY <3>2, <3>4, DigitAndRest
    <3>. QED
      BY ONLY <3>3, <3>5, Zenon
  <2>11. f2 = g2 /\ f3 + B * f4 = g3 + B * g4
    <3>1. f3 + B * f4 \in Int /\ g3 + B * g4 \in Int
      BY ONLY <2>7
    <3>2. f2 < B /\ g2 < B
      BY ONLY <2>2, <2>5
    <3>3. PICK u \in Int, v \in Int : u = f3 + B * f4 /\ v = g3 + B * g4
      BY ONLY <3>1, Zenon
    <3>4. f2 + B * u = g2 + B * v
      BY ONLY <2>10, <3>3, Zenon
    <3>5. f2 = g2 /\ u = v
      BY ONLY <3>2, <3>4, DigitAndRest
    <3>. QED
      BY ONLY <3>3, <3>5, Zenon
  <2>12. f3 = g3 /\ f4 = g4
    <3>1. f4 \in Int /\ g4 \in Int
      OBVIOUS
    <3>2. f3 < B /\ g3 < B
      BY ONLY <2>2, <2>5
    <3>3. PICK u \in Int, v \in Int : u = f4 /\ v = g4
      BY ONLY <3>1, Zenon
    <3>4. f3 + B * u = g3 + B * v
      BY ONLY <2>11, <3>3, Zenon
    <3>5. f3 = g3 /\ u = v
      BY ONLY <3>2, <3>4, DigitAndRest
    <3>. QED
      BY ONLY <3>3, <3>5, Zenon
  <2>13. f[0] = g[0] /\ f[1] = g[1] /\ f[2] = g[2] /\ f[3] = g[3] /\ f[4] = g[4]
    BY ONLY <2>1, <2>4, <2>9, <2>10, <2>11, <2>12, Zenon
  <2>. QED
    BY <1>2, <2>13 DEF Digits5, Limbs5
<1>3. ASSUME NEW f, Digits5(f)
      PROVE  Value5(f) \in Nat /\ Value5(f) < D!Full * D!Full * D!Full * D!Full * D!Full
  <2>1. PICK f0 \in Nat, f1 \in Nat, f2 \in Nat, f3 \in Nat, f4 \in Nat :
           f[0] = f0 /\ f[1] = f1 /\ f[2] = f2 /\ f[3] = f3 /\ f[4] = f4
    BY <1>3, LimbNaturals, Zenon DEF Digits5
  <2>2. f0 < B /\ f1 < B /\ f2 < B /\ f3 < B /\ f4 < B
    BY ONLY <1>1, <1>3, <2>1 DEF Digits5
  <2>3. Value5(f) = f0 + B * (f1 + B * (f2 + B * (f3 + B * f4)))
    BY ONLY <1>1, <2>1, Zenon DEF Value5
  <2>4. ASSUME NEW x \in Nat, x < B, NEW y \in Nat, NEW z \in Nat, y < z
        PROVE  x + B * y \in Nat /\ x + B * y < B * z /\ B * z \in Nat
    <3>1. B * z >= B * (y + 1) /\ B * (y + 1) = B * y + B /\ B * y \in Nat /\ B * z \in Nat
      BY ONLY <2>4, SMT
    <3>. QED
      BY ONLY <2>4, <3>1
  <2>5. f3 + B * f4 \in Nat /\ f3 + B * f4 < B * B /\ B * B \in Nat
    BY ONLY <2>2, <2>4
  <2>6. f2 + B * (f3 + B * f4) \in Nat /\ f2 + B * (f3 + B * f4) < B * (B * B) /\ B * (B * B) \in Nat
    BY ONLY <2>2, <2>4, <2>5
  <2>7. f1 + B * (f2 + B * (f3 + B * f4)) \in Nat
        /\ f1 + B * (f2 + B * (f3 + B * f4)) < B * (B * (B * B)) /\ B * (B * (B * B)) \in Nat
    BY ONLY <2>2, <2>4, <2>6
  <2>8. f0 + B * (f1 + B * (f2 + B * (f3 + B * f4))) \in Nat
        /\ f0 + B * (f1 + B * (f2 + B * (f3 + B * f4))) < B * (B * (B * (B * B)))
    BY ONLY <2>2, <2>4, <2>7
  <2>9. B * (B * (B * (B * B))) = B * B * B * B * B
    BY ONLY SMT
  <2>10. f0 + B * (f1 + B * (f2 + B * (f3 + B * f4))) < B * B * B * B * B
    BY ONLY <2>8, <2>9
  <2>. QED
    BY ONLY <1>1, <2>3, <2>8, <2>10, Zenon
<1>. QED
  BY <1>2, <1>3

\* What curve25519_contract lays out.
Contracted(input) ==
    LET once == D!CarryFull(D!CarryFull(input))
        above == D!CarryFull([once EXCEPT ![0] = (@ + Fold) % Word])
    IN  D!CarryFinal([i \in 0 .. 4 |->
            (above[i] + D!Full - (IF i = 0 THEN Fold ELSE 1)) % Word])

\* The bits of what is laid out are the bytes.
LEMMA ContractIs ==
    ASSUME NEW input
    PROVE  D!curve25519_contract(input) = D!Bits(Contracted(input), 5, Width)
  BY FourIs, Zenon DEF D!curve25519_contract, Contracted, D!Table, D!Computed

\* The fifth power of the base is the prime and the fold.
LEMMA FifthPower ==
    ASSUME DonnaSizes
    PROVE  \E p \in Nat : /\ p = D!Full * D!Full * D!Full * D!Full * D!Full
                          /\ Prime5 = p - Fold /\ Fold <= p - Fold
<1>1. PICK B \in Nat : B = D!Full /\ B >= Least
  BY Base
<1>2. Fold \in 1 .. 19
  BY Base
<1>3. B >= 38
  BY ONLY <1>1, SMT DEF Least
<1>4. B * B \in Nat /\ B * B >= B
  BY ONLY <1>3, SMT
<1>5. B * B * B \in Nat /\ B * B * B >= B
  BY ONLY <1>3, <1>4, SMT
<1>6. B * B * B * B \in Nat /\ B * B * B * B >= B
  BY ONLY <1>3, <1>5, SMT
<1>7. B * B * B * B * B \in Nat /\ B * B * B * B * B >= B
  BY ONLY <1>3, <1>6, SMT
<1>8. PICK p \in Nat : p = B * B * B * B * B /\ p >= B
  BY <1>7
<1>9. Fold <= p - Fold
  BY ONLY <1>2, <1>3, <1>8
<1>. QED
  BY ONLY <1>1, <1>8, <1>9, Zenon DEF Prime5

\* Two passes leave digits, of the same number modulo the prime.
LEMMA TwoPasses ==
    ASSUME DonnaSizes, NEW t \in Limbs5, Within(t, Most), NEW r, r = D!CarryFull(D!CarryFull(t))
    PROVE  Digits5(r) /\ Same5(Value5(r), Value5(t))
<1>. DEFINE c == D!CarryFull(t)
<1>1. D!Full \in Nat /\ D!Full > 0 /\ D!Full >= Least /\ Fold \in 1 .. 19
  BY Base
<1>2. Most \in Nat /\ 0 < Most /\ Most <= Most
  BY SMT DEF Most
<1>3. c = D!Reduced(t)
  BY CarryFullIs
<1>. HIDE DEF c
<1>4. t[4] <= Most * D!Full
  BY DEF Within
<1>5. /\ c \in Limbs5
      /\ \A i \in 1 .. 4 : c[i] < D!Full
      /\ \E q \in 0 .. Most : Value5(t) = Value5(c) + q * Prime5 /\ c[0] <= D!Full - 1 + Fold * q
  BY ONLY <1>2, <1>3, <1>4, DonnaSizes, t \in Limbs5, Within(t, Most), ReducedRight, Zenon
<1>6. PICK q \in 0 .. Most : Value5(t) = Value5(c) + q * Prime5 /\ c[0] <= D!Full - 1 + Fold * q
  BY <1>5
<1>7. Fold * Most \in Nat /\ Fold * Most + Fold <= D!Full
  BY ONLY <1>1, SMT DEF Most, Least
<1>8. c[0] < D!Full + Fold * Most
  <2>1. q \in Nat /\ q <= Most /\ c[0] \in Nat /\ Fold \in Nat
    BY ONLY <1>1, <1>2, <1>5, q \in 0 .. Most DEF Limbs5
  <2>2. Fold * q <= Fold * Most /\ Fold * q \in Nat
    BY ONLY <1>2, <2>1, SMT
  <2>. QED
    BY ONLY <1>1, <1>6, <1>7, <2>1, <2>2
<1>9. /\ Digits5(r)
      /\ Value5(r) = Value5(c) \/ Value5(r) = Value5(c) - Prime5
  BY ONLY <1>5, <1>7, <1>8, DonnaSizes, r = D!CarryFull(D!CarryFull(t)), PassOverDigits, Zenon DEF c
<1>10. Value5(t) \in Int /\ Value5(c) \in Int /\ Value5(r) \in Int /\ Prime5 \in Int
  BY <1>5, <1>9, ValueIs DEF Digits5
<1>11. -q \in Int /\ -q - 1 \in Int
  BY <1>2
<1>12. Value5(r) = Value5(t) + (-q) * Prime5 \/ Value5(r) = Value5(t) + (-q - 1) * Prime5
  <2>1. PICK x \in Int, y \in Int, z \in Int, p \in Int :
           x = Value5(t) /\ y = Value5(c) /\ z = Value5(r) /\ p = Prime5
    BY <1>10, Zenon
  <2>2. x = y + q * p /\ (z = y \/ z = y - p)
    BY ONLY <1>6, <1>9, <2>1, Zenon
  <2>3. z = x + (-q) * p \/ z = x + (-q - 1) * p
    <3>1. q \in Int
      BY <1>2
    <3>. QED
      BY ONLY <2>2, <3>1, SMT
  <2>. QED
    BY ONLY <2>1, <2>3, Zenon
<1>. QED
  BY ONLY <1>9, <1>11, <1>12, Zenon DEF Same5

\* What curve25519_contract lays out is the one number below the prime that is
\* the same modulo the prime.
LEMMA ContractRight ==
    ASSUME DonnaSizes, NEW a \in Limbs5, Within(a, Most), NEW g, g = Contracted(a)
    PROVE  Digits5(g) /\ Value5(g) < Prime5 /\ Same5(Value5(g), Value5(a))
<1>. DEFINE once == D!CarryFull(D!CarryFull(a))
            plus == [once EXCEPT ![0] = (@ + Fold) % Word]
            above == D!CarryFull(plus)
            t == [i \in 0 .. 4 |-> (above[i] + D!Full - (IF i = 0 THEN Fold ELSE 1)) % Word]
            v == D!Carried(t)
<1>1. D!Full \in Nat /\ D!Full > 0 /\ D!Full >= Least /\ Word \in Nat /\ Word = Spare * D!Full
      /\ Fold \in 1 .. 19
  BY Base
<1>2. PICK p \in Nat : /\ p = D!Full * D!Full * D!Full * D!Full * D!Full
                       /\ Prime5 = p - Fold /\ Fold <= p - Fold
  BY FifthPower
<1>3. Digits5(once) /\ Same5(Value5(once), Value5(a))
  BY TwoPasses
<1>. HIDE DEF once
<1>4. \A i \in 0 .. 4 : once[i] \in Nat /\ once[i] < D!Full
  BY <1>3 DEF Digits5, Limbs5
<1>5. once = [i \in 0 .. 4 |-> once[i]]
  BY <1>3 DEF Digits5, Limbs5
<1>6. (once[0] + Fold) % Word = once[0] + Fold
  BY <1>1, <1>4, SMT DEF Spare, Least
<1>7. plus[0] = once[0] + Fold /\ (\A i \in 1 .. 4 : plus[i] = once[i])
      /\ plus = [i \in 0 .. 4 |-> plus[i]]
  BY ONLY <1>5, <1>6
<1>. HIDE DEF plus
<1>8. plus \in Limbs5 /\ plus[0] < D!Full + Fold /\ (\A i \in 1 .. 4 : plus[i] < D!Full)
  <2>1. \A i \in 0 .. 4 : plus[i] \in Nat
    BY ONLY <1>1, <1>4, <1>7
  <2>. QED
    BY ONLY <1>1, <1>4, <1>7, <2>1 DEF Limbs5
<1>9. Value5(plus) = Value5(once) + Fold
  <2>1. PICK b \in Int, f \in Int : b = D!Full /\ f = Fold
    BY <1>1
  <2>2. PICK o0 \in Nat, o1 \in Nat, o2 \in Nat, o3 \in Nat, o4 \in Nat :
           once[0] = o0 /\ once[1] = o1 /\ once[2] = o2 /\ once[3] = o3 /\ once[4] = o4
    BY <1>3, LimbNaturals, Zenon DEF Digits5
  <2>3. (o0 + f) + b * (o1 + b * (o2 + b * (o3 + b * o4)))
            = (o0 + b * (o1 + b * (o2 + b * (o3 + b * o4)))) + f
    BY ONLY SMT
  <2>4. plus[0] = once[0] + Fold /\ plus[1] = once[1] /\ plus[2] = once[2] /\ plus[3] = once[3]
        /\ plus[4] = once[4]
    BY ONLY <1>7
  <2>. QED
    BY ONLY <2>1, <2>2, <2>3, <2>4, Zenon DEF Value5
<1>10. /\ Digits5(above)
       /\ \/ Value5(above) = Value5(plus)
          \/ /\ Value5(above) = Value5(plus) - Prime5
             /\ Value5(plus) >= D!Full * D!Full * D!Full * D!Full * D!Full
  <2>1. Fold \in Nat /\ Fold + Fold <= D!Full
    BY ONLY <1>1, SMT DEF Least
  <2>. QED
    BY ONLY <1>8, <2>1, DonnaSizes, PassOverDigits, Zenon
<1>. HIDE DEF above
<1>11. /\ Value5(above) - Fold \in Nat /\ Value5(above) - Fold < Prime5
       /\ Same5(Value5(above) - Fold, Value5(a))
  <2>1. /\ Value5(once) \in Nat /\ Value5(once) < D!Full * D!Full * D!Full * D!Full * D!Full
        /\ Value5(above) \in Nat /\ Value5(above) < D!Full * D!Full * D!Full * D!Full * D!Full
    BY <1>3, <1>10, DigitsOfOne
  <2>2. PICK w \in Nat, y \in Nat, z \in Nat, f \in Nat :
           w = Value5(once) /\ y = Value5(above) /\ z = Value5(plus) /\ f = Fold
    <3>1. Value5(once) \in Nat /\ Value5(above) \in Nat /\ Value5(plus) \in Nat /\ Fold \in Nat
      BY ONLY <1>1, <1>9, <2>1
    <3>. QED
      BY ONLY <3>1, Zenon
  <2>3. w < p /\ y < p /\ z = w + f /\ Prime5 = p - f /\ f <= p - f
        /\ (y = z \/ (y = z - (p - f) /\ z >= p))
    BY ONLY <1>2, <1>9, <1>10, <2>1, <2>2, Zenon
  <2>4. y - f \in Nat /\ y - f < p - f /\ (y - f = w \/ y - f = w - (p - f))
    BY ONLY <2>3
  <2>5. y - f = w + 0 * (p - f) \/ y - f = w + (-1) * (p - f)
    BY ONLY <2>4
  <2>6. Value5(above) - Fold = Value5(once) + 0 * Prime5
            \/ Value5(above) - Fold = Value5(once) + (-1) * Prime5
    BY ONLY <2>2, <2>3, <2>5, Zenon
  <2>7. 0 \in Int /\ -1 \in Int
    OBVIOUS
  <2>8. Same5(Value5(above) - Fold, Value5(once))
    BY ONLY <2>6, <2>7, Zenon DEF Same5
  <2>9. Value5(above) - Fold \in Int /\ Value5(once) \in Int /\ Value5(a) \in Int /\ Prime5 \in Int
    BY <2>1, <2>2, <2>4, ValueIs
  <2>10. \A i, j, k \in Int : Same5(i, j) /\ Same5(j, k) => Same5(i, k)
    BY <2>9, SameIs
  <2>11. Same5(Value5(above) - Fold, Value5(a))
    BY ONLY <1>3, <2>8, <2>9, <2>10, Zenon
  <2>. QED
    BY ONLY <2>2, <2>3, <2>4, <2>11, Zenon
<1>12. \A i \in 0 .. 4 : above[i] \in Nat /\ above[i] < D!Full
  BY <1>10 DEF Digits5, Limbs5
<1>13. \A i \in 0 .. 4 : t[i] = above[i] + D!Full - (IF i = 0 THEN Fold ELSE 1) /\ t[i] \in Nat
       /\ t[i] <= 2 * D!Full
  <2>1. ASSUME NEW i \in 0 .. 4 PROVE t[i] = above[i] + D!Full - (IF i = 0 THEN Fold ELSE 1)
        /\ t[i] \in Nat /\ t[i] <= 2 * D!Full
    <3>1. PICK x \in Nat, f \in 1 .. 19 : x = above[i] + D!Full - f /\ f = (IF i = 0 THEN Fold ELSE 1)
          /\ x <= 2 * D!Full
      <4>1. (IF i = 0 THEN Fold ELSE 1) \in 1 .. 19
        BY <1>1
      <4>2. PICK f \in 1 .. 19 : f = (IF i = 0 THEN Fold ELSE 1)
        BY ONLY <4>1, Zenon
      <4>3. above[i] \in Nat /\ above[i] < D!Full
        BY <1>12
      <4>4. D!Full >= 19
        BY ONLY <1>1, SMT DEF Least
      <4>5. above[i] + D!Full - f \in Nat /\ above[i] + D!Full - f <= 2 * D!Full
        BY ONLY <1>1, <4>3, <4>4
      <4>. QED
        BY ONLY <4>2, <4>5
    <3>2. x % Word = x
      BY ONLY <1>1, <3>1, SMT DEF Spare
    <3>3. t[i] = (above[i] + D!Full - (IF i = 0 THEN Fold ELSE 1)) % Word
      OBVIOUS
    <3>. QED
      BY ONLY <3>1, <3>2, <3>3
  <2>. QED
    BY ONLY <2>1
<1>14. t = [i \in 0 .. 4 |-> t[i]]
  OBVIOUS
<1>. HIDE DEF t
<1>15. t \in Limbs5 /\ Within(t, 2)
  BY ONLY <1>13, <1>14 DEF Limbs5, Within
<1>16. Value5(t) = Value5(above) + Prime5
  <2>1. PICK b \in Int, f \in Int : b = D!Full /\ f = Fold
    BY <1>1
  <2>2. PICK o0 \in Nat, o1 \in Nat, o2 \in Nat, o3 \in Nat, o4 \in Nat :
           above[0] = o0 /\ above[1] = o1 /\ above[2] = o2 /\ above[3] = o3 /\ above[4] = o4
    BY <1>10, LimbNaturals, Zenon DEF Digits5
  <2>3. (o0 + b - f) + b * ((o1 + b - 1) + b * ((o2 + b - 1) + b * ((o3 + b - 1) + b * (o4 + b - 1))))
        = (o0 + b * (o1 + b * (o2 + b * (o3 + b * o4)))) + (b * b * b * b * b - f)
    BY ONLY SMT
  <2>4. t[0] = above[0] + D!Full - Fold /\ t[1] = above[1] + D!Full - 1 /\ t[2] = above[2] + D!Full - 1
        /\ t[3] = above[3] + D!Full - 1 /\ t[4] = above[4] + D!Full - 1
    BY ONLY <1>13
  <2>. QED
    BY ONLY <2>1, <2>2, <2>3, <2>4, Zenon DEF Value5, Prime5
<1>17. /\ \A i \in 0 .. 4 : v[i] % D!Full \in 0 .. D!Full - 1
       /\ v[4] \div D!Full \in 0 .. 2
       /\ Value5(t) = Value5([i \in 0 .. 4 |-> v[i] % D!Full])
                       + D!Full * D!Full * D!Full * D!Full * D!Full * (v[4] \div D!Full)
  <2>1. 2 \in Nat /\ 0 < 2 /\ 2 <= Most
    BY ONLY SMT DEF Most
  <2>. QED
    BY ONLY <1>15, <2>1, DonnaSizes, CarriedRight
<1>18. g = [i \in 0 .. 4 |-> v[i] % D!Full]
  <2>. DEFINE c == [i \in 0 .. 4 |-> IF i = 4 THEN v[4] ELSE v[i] % D!Full]
  <2>1. D!ContractCarry(t) = c
    BY ONLY FourIs, Zenon DEF D!ContractCarry, D!Table, D!Computed, D!Mask
  <2>2. g = D!CarryFinal(t)
    BY Zenon DEF Contracted, t, above, plus, once
  <2>3. g = [c EXCEPT ![4] = @ % D!Full]
    BY ONLY <2>1, <2>2, Zenon DEF D!CarryFinal, D!Mask
  <2>. HIDE DEF v
  <2>. QED
    BY ONLY <2>3
<1>. HIDE DEF v
<1>19. Digits5(g)
  <2>1. \A i \in 0 .. 4 : g[i] \in Nat /\ g[i] < D!Full
    BY ONLY <1>1, <1>17, <1>18
  <2>. QED
    BY ONLY <1>18, <2>1 DEF Digits5, Limbs5
<1>20. Value5(g) = Value5(above) - Fold
  <2>1. Value5(g) \in Nat /\ Value5(g) < D!Full * D!Full * D!Full * D!Full * D!Full
    BY <1>19, DigitsOfOne
  <2>2. PICK x \in Nat, y \in Nat, f \in Nat, k \in 0 .. 2 :
           x = Value5(g) /\ y = Value5(above) - Fold /\ f = Fold /\ k = v[4] \div D!Full
    <3>1. Fold \in Nat
      BY ONLY <1>1
    <3>. QED
      BY ONLY <1>11, <1>17, <2>1, <3>1, Zenon
  <2>3. Value5(above) \in Int /\ Fold \in Int
    BY <1>1, <1>10, ValueIs DEF Digits5
  <2>4. Value5(above) + (p - f) = y + p
    BY ONLY <2>2, <2>3
  <2>5. Value5(t) = x + p * k
    BY ONLY <1>2, <1>17, <1>18, <2>2, Zenon
  <2>6. Value5(t) = Value5(above) + (p - f)
    BY ONLY <1>2, <1>16, <2>2, Zenon
  <2>7. y + p = x + p * k
    BY ONLY <2>4, <2>5, <2>6, Zenon
  <2>8. x < p /\ y < p
    BY ONLY <1>2, <1>11, <2>1, <2>2
  <2>9. x = y
    BY ONLY <2>7, <2>8
  <2>. QED
    BY ONLY <2>2, <2>9
<1>. QED
  BY ONLY <1>11, <1>19, <1>20, Zenon

\* Numbers with the same bits are the same.
LEMMA SameBits ==
    ASSUME NEW w \in Nat, NEW x \in Nat, NEW y \in Nat, x < 2 ^ w, y < 2 ^ w,
           \A c \in 0 .. w - 1 : (x \div 2 ^ c) % 2 = 1 <=> (y \div 2 ^ c) % 2 = 1
    PROVE  x = y
<1>1. /\ \A n \in Nat : 2 ^ n \in Nat /\ 2 ^ n > 0 /\ 2 ^ (n + 1) = 2 * 2 ^ n
      /\ 2 ^ 0 = 1
  <2>1. \A n \in Nat : 2 ^ n \in Nat /\ 2 ^ (n + 1) = 2 * 2 ^ n
    BY Power, Doubled
  <2>2. 2 ^ 0 = 1
    BY FarBelow
  <2>. DEFINE P == {n \in Nat : 2 ^ n > 0}
  <2>3. 0 \in P /\ \A n \in Nat : n \in P => n + 1 \in P
    BY ONLY <2>1, <2>2
  <2>. HIDE DEF P
  <2>4. \A n \in Nat : n \in P
    <3>1. ASSUME NEW n \in Nat PROVE n \in 0 .. n
      OBVIOUS
    <3>2. \A n \in Nat : \A k \in 0 .. n : k \in P
      BY <2>3, Upwards
    <3>. QED
      BY <3>1, <3>2
  <2>. QED
    BY <2>1, <2>2, <2>4 DEF P
<1>2. ASSUME NEW z \in Nat, NEW p \in Nat, p > 0
      PROVE  z % (2 * p) = (z % p) + p * ((z \div p) % 2)
  <2>1. PICK q \in Nat, r \in Nat : q = z \div p /\ r = z % p /\ z = p * q + r /\ r < p
    <3>1. z = p * (z \div p) + (z % p) /\ z % p \in Nat /\ z % p < p /\ z \div p \in Nat
      BY ONLY z \in Nat, p \in Nat, p > 0, Divided
    <3>. QED
      BY ONLY <3>1, Zenon
  <2>2. PICK h \in Nat, s \in Nat : s = q % 2 /\ q = 2 * h + s /\ s < 2
    BY Divided
  <2>3. PICK u \in Nat, v \in Nat : v = z % (2 * p) /\ z = (2 * p) * u + v /\ v < 2 * p
    <3>1. 2 * p \in Nat /\ 2 * p > 0
      BY ONLY p > 0, p \in Nat
    <3>. QED
      BY <3>1, Divided
  <2>4. s = 0 \/ s = 1
    BY ONLY <2>2
  <2>5. z = (2 * p) * h + (p * s + r)
    <3>1. p * (2 * h + s) + r = (2 * p) * h + (p * s + r)
      BY ONLY p \in Nat, h \in Nat, s \in Nat, r \in Nat, SMT
    <3>. QED
      BY ONLY <2>1, <2>2, <3>1, Zenon
  <2>6. p * s + r \in Nat /\ p * s + r < 2 * p /\ 2 * p \in Nat
    BY ONLY <2>1, <2>4, p \in Nat
  <2>. DEFINE t == p * s + r  b == 2 * p
  <2>7. z = b * u + v /\ z = b * h + t /\ t \in Nat /\ t < b /\ b \in Nat /\ v < b
    BY ONLY <2>3, <2>5, <2>6
  <2>. HIDE DEF t, b
  <2>8. v + b * u = t + b * h /\ u \in Int /\ h \in Int
    <3>1. b * u \in Int /\ b * h \in Int
      BY ONLY <2>7, u \in Nat, h \in Nat
    <3>. QED
      BY ONLY <2>7, <3>1, u \in Nat, h \in Nat, v \in Nat
  <2>9. v = t /\ u = h
    <3>1. t \in Nat /\ t < b /\ b \in Nat /\ v < b /\ v \in Nat /\ u \in Int /\ h \in Int
      BY ONLY <2>7, <2>8, v \in Nat
    <3>2. v + b * u = t + b * h
      BY ONLY <2>8
    <3>. QED
      BY ONLY <3>1, <3>2, DigitAndRest
  <2>10. p * s + r = r + p * s
    BY ONLY p \in Nat, s \in Nat, r \in Nat
  <2>. QED
    BY ONLY <2>1, <2>2, <2>3, <2>9, <2>10, Zenon DEF t, b
<1>. DEFINE G == {n \in Nat : x % 2 ^ n = y % 2 ^ n}
<1>3. 0 \in G
  BY ONLY <1>1, x \in Nat, y \in Nat
<1>4. ASSUME NEW n \in Nat, n < w, n \in G PROVE n + 1 \in G
  <2>1. PICK p \in Nat : p = 2 ^ n /\ p > 0 /\ 2 ^ (n + 1) = 2 * p
    BY ONLY <1>1, n \in Nat
  <2>2. /\ x % 2 ^ (n + 1) = (x % p) + p * ((x \div p) % 2)
        /\ y % 2 ^ (n + 1) = (y % p) + p * ((y \div p) % 2)
    BY ONLY <1>2, <2>1, x \in Nat, y \in Nat
  <2>3. (x \div p) % 2 = (y \div p) % 2
    <3>1. n \in 0 .. w - 1
      BY ONLY <1>4, w \in Nat
    <3>2. (x \div p) % 2 = 1 <=> (y \div p) % 2 = 1
      BY <2>1, <3>1
    <3>3. \A i \in Nat : i % 2 = 0 \/ i % 2 = 1
      OBVIOUS
    <3>4. x \div p \in Nat /\ y \div p \in Nat
      BY <2>1, Divided
    <3>. QED
      BY ONLY <3>2, <3>3, <3>4
  <2>4. x % p = y % p
    BY <1>4, <2>1
  <2>5. n + 1 \in Nat
    OBVIOUS
  <2>. QED
    BY ONLY <2>2, <2>3, <2>4, <2>5
<1>. HIDE DEF G
<1>5. w \in G
  <2>1. \A n \in 0 .. w : n \in G
    BY ONLY <1>3, <1>4, w \in Nat, Upwards
  <2>2. w \in 0 .. w
    OBVIOUS
  <2>. QED
    BY ONLY <2>1, <2>2
<1>6. PICK p \in Nat : p = 2 ^ w /\ p > 0
  BY <1>1
<1>7. x % p = y % p
  BY <1>5, <1>6 DEF G
<1>. QED
  BY ONLY <1>6, <1>7, x < 2 ^ w, y < 2 ^ w, x \in Nat, y \in Nat

\* Digits laid out as bits can be read again.
LEMMA BitsApart ==
    ASSUME DonnaSizes, NEW f, NEW g, Digits5(f), Digits5(g), D!Bits(f, 5, Width) = D!Bits(g, 5, Width)
    PROVE  f = g
<1>1. Width \in Nat
  BY DEF DonnaSizes
<1>2. ASSUME NEW h, NEW i \in 0 .. 4, NEW c \in 0 .. Width - 1
      PROVE  i * Width + c \in D!Bits(h, 5, Width) <=> (h[i] \div 2 ^ c) % 2 = 1
  <2>1. (h[i] \div 2 ^ c) % 2 = 1 => i * Width + c \in D!Bits(h, 5, Width)
    BY FourIs DEF D!Bits
  <2>2. ASSUME i * Width + c \in D!Bits(h, 5, Width) PROVE (h[i] \div 2 ^ c) % 2 = 1
    <3>1. PICK j \in 0 .. 4, b \in 0 .. Width - 1 : i * Width + c = j * Width + b
          /\ (h[j] \div 2 ^ b) % 2 = 1
      BY ONLY <2>2, FourIs DEF D!Bits
    <3>2. c \in Nat /\ b \in Nat /\ c < Width /\ b < Width /\ i \in Int /\ j \in Int
      BY ONLY <1>1, c \in 0 .. Width - 1, b \in 0 .. Width - 1, i \in 0 .. 4, j \in 0 .. 4
    <3>3. c + Width * i = b + Width * j
      <4>1. i * Width = Width * i /\ j * Width = Width * j /\ i * Width \in Int /\ j * Width \in Int
        BY ONLY <1>1, <3>2, SMT
      <4>. QED
        BY ONLY <3>1, <3>2, <4>1
    <3>4. c = b /\ i = j
      BY ONLY <1>1, <3>2, <3>3, DigitAndRest
    <3>. QED
      BY ONLY <3>1, <3>4
  <2>. QED
    BY <2>1, <2>2
<1>3. ASSUME NEW i \in 0 .. 4 PROVE f[i] = g[i]
  <2>1. f[i] \in Nat /\ f[i] < 2 ^ Width /\ g[i] \in Nat /\ g[i] < 2 ^ Width
    BY DEF Digits5, Limbs5, D!Full
  <2>2. \A c \in 0 .. Width - 1 : (f[i] \div 2 ^ c) % 2 = 1 <=> (g[i] \div 2 ^ c) % 2 = 1
    BY <1>2
  <2>. QED
    BY ONLY <1>1, <2>1, <2>2, SameBits
<1>. QED
  BY <1>3 DEF Digits5, Limbs5

\* Numbers below the prime that are the same modulo the prime are the same.
LEMMA OneBelowPrime ==
    ASSUME NEW x \in Nat, NEW y \in Nat, Prime5 \in Nat, x < Prime5, y < Prime5, Same5(x, y)
    PROVE  x = y
<1>1. PICK p \in Nat : p = Prime5
  OBVIOUS
<1>2. PICK k \in Int : x = y + k * p
  BY <1>1 DEF Same5
<1>3. k >= 1 => k * p >= p
  BY ONLY k \in Int, p \in Nat, SMT
<1>4. k <= -1 => k * p <= -p
  BY ONLY k \in Int, p \in Nat, SMT
<1>5. k = 0 => k * p = 0
  BY ONLY k \in Int, p \in Nat
<1>6. k * p \in Int
  BY ONLY k \in Int, p \in Nat
<1>. QED
  BY ONLY <1>1, <1>2, <1>3, <1>4, <1>5, <1>6, x < Prime5, y < Prime5, x \in Nat, y \in Nat, k \in Int

\* The bytes curve25519_contract writes: those of the digits of a number below
\* the prime, whatever limbs up to 8000 times the base it is given, and the same
\* for two numbers if and only if these are the same modulo the prime.  Keys,
\* which are such bytes, can so be compared byte by byte.
THEOREM FieldEncodings ==
    ASSUME DonnaSizes, NEW a \in Limbs5, NEW b \in Limbs5, Within(a, Most), Within(b, Most)
    PROVE  /\ \E g : /\ Digits5(g) /\ Value5(g) < Prime5 /\ Same5(Value5(g), Value5(a))
                     /\ D!curve25519_contract(a) = D!Bits(g, 5, Width)
           /\ D!curve25519_contract(a) = D!curve25519_contract(b) <=> Same5(Value5(a), Value5(b))
<1>. DEFINE f == Contracted(a)  g == Contracted(b)
<1>1. /\ Digits5(f) /\ Value5(f) < Prime5 /\ Same5(Value5(f), Value5(a))
      /\ Digits5(g) /\ Value5(g) < Prime5 /\ Same5(Value5(g), Value5(b))
  BY ContractRight
<1>2. D!curve25519_contract(a) = D!Bits(f, 5, Width) /\ D!curve25519_contract(b) = D!Bits(g, 5, Width)
  BY ContractIs
<1>. HIDE DEF f, g
<1>3. /\ Value5(f) \in Nat /\ Value5(g) \in Nat /\ Prime5 \in Nat
      /\ Value5(a) \in Int /\ Value5(b) \in Int
  <2>1. Value5(f) \in Nat /\ Value5(g) \in Nat
    BY ONLY <1>1, DonnaSizes, DigitsOfOne
  <2>2. Prime5 \in Nat
    BY ONLY DonnaSizes, FifthPower, Base
  <2>. QED
    BY <2>1, <2>2, ValueIs
<1>4. /\ \A i, j \in Int : Same5(i, j) => Same5(j, i)
      /\ \A i, j, k \in Int : Same5(i, j) /\ Same5(j, k) => Same5(i, k)
  <2>1. Prime5 \in Int
    BY <1>3
  <2>. QED
    BY ONLY <2>1, SameIs
<1>5. Value5(f) \in Int /\ Value5(g) \in Int
  BY <1>3
<1>6. ASSUME Same5(Value5(a), Value5(b)) PROVE f = g
  <2>1. Same5(Value5(f), Value5(b))
    BY ONLY <1>1, <1>3, <1>4, <1>5, <1>6, Zenon
  <2>2. Same5(Value5(b), Value5(g))
    BY ONLY <1>1, <1>3, <1>4, <1>5, Zenon
  <2>3. Same5(Value5(f), Value5(g))
    BY ONLY <1>3, <1>4, <1>5, <2>1, <2>2, Zenon
  <2>4. Value5(f) = Value5(g)
    BY ONLY <1>1, <1>3, <2>3, OneBelowPrime
  <2>. QED
    BY ONLY <1>1, <2>4, DonnaSizes, DigitsOfOne, Zenon
<1>7. ASSUME D!Bits(f, 5, Width) = D!Bits(g, 5, Width) PROVE Same5(Value5(a), Value5(b))
  <2>1. f = g
    BY ONLY <1>1, <1>7, DonnaSizes, BitsApart, Zenon
  <2>2. Same5(Value5(a), Value5(f)) /\ Same5(Value5(f), Value5(b))
    BY ONLY <1>1, <1>3, <1>4, <1>5, <2>1, Zenon
  <2>. QED
    BY ONLY <1>3, <1>4, <1>5, <2>2, Zenon
<1>. QED
  BY ONLY <1>1, <1>2, <1>6, <1>7, Zenon

-----------------------------------------------------------------------------
(* The operations as the formulas of points use them *)

\* A number as a product leaves it, as one sum or difference of such numbers
\* leaves it, and as a product takes it.
Stands(f, x) == x \in Int /\ Tight(f) /\ Same5(Value5(f), x)
Basic(f, x) == x \in Int /\ f \in Limbs5 /\ Within(f, 4) /\ Subtrahend(f, 4) /\ Same5(Value5(f), x)
Fits(f, x) == x \in Int /\ f \in Limbs5 /\ Within(f, 8) /\ Same5(Value5(f), x)

\* What a product leaves can be summed and multiplied, a sum of it multiplied.
LEMMA StandsBasic ==
    ASSUME DonnaSizes
    PROVE  \A f, x : (Stands(f, x) => Basic(f, x) /\ Fits(f, x)) /\ (Basic(f, x) => Fits(f, x))
<1>1. D!Full \in Nat /\ D!Full >= Least /\ Fold \in 1 .. 19
  BY Base
<1>2. D!Full - Fold \in Nat
  BY ONLY <1>1, SMT DEF Least
<1>3. ASSUME NEW f, NEW x, Stands(f, x) PROVE Basic(f, x) /\ Fits(f, x)
  <2>1. /\ f \in Limbs5 /\ Within(f, 2) /\ Within(f, 8)
        /\ \A i \in 0 .. 4 : f[i] <= 2 * (D!Full - Fold) /\ f[i] \in Nat
    BY ONLY <1>3, DonnaSizes, TightWithin DEF Stands, Limbs5
  <2>2. Within(f, 4)
    BY ONLY <1>1, <2>1 DEF Within
  <2>3. Subtrahend(f, 4)
    BY ONLY <1>2, <2>1 DEF Subtrahend
  <2>. QED
    BY ONLY <1>3, <2>1, <2>2, <2>3, Zenon DEF Stands, Basic, Fits
<1>4. ASSUME NEW f, NEW x, Basic(f, x) PROVE Fits(f, x)
  <2>1. \A i \in 0 .. 4 : f[i] \in Nat /\ f[i] <= 4 * D!Full
    BY ONLY <1>4 DEF Basic, Limbs5, Within
  <2>2. Within(f, 8)
    BY ONLY <1>1, <2>1 DEF Within
  <2>. QED
    BY ONLY <1>4, <2>2, Zenon DEF Basic, Fits
<1>. QED
  BY ONLY <1>3, <1>4, Zenon

\* Products of limbs that fit stand for the products of their numbers.
LEMMA FitsProducts ==
    ASSUME DonnaSizes
    PROVE  /\ \A a, b, x, y : Fits(a, x) /\ Fits(b, y) => Stands(D!curve25519_mul(a, b), x * y)
           /\ \A a, x : Fits(a, x) => Stands(D!curve25519_square(a), x * x)
<1>1. Prime5 \in Int
  BY ONLY FifthPower, DonnaSizes, Base
<1>2. ASSUME NEW a, NEW b, NEW x, NEW y, Fits(a, x), Fits(b, y)
      PROVE  x * y \in Int /\ Value5(a) * Value5(b) \in Int /\ Same5(Value5(a) * Value5(b), x * y)
  <2>1. x \in Int /\ y \in Int /\ a \in Limbs5 /\ b \in Limbs5 /\ Same5(Value5(a), x)
        /\ Same5(Value5(b), y)
    BY ONLY <1>2, Zenon DEF Fits
  <2>2. Value5(a) \in Int /\ Value5(b) \in Int
    BY <2>1, ValueIs
  <2>3. x * y \in Int /\ Value5(a) * Value5(b) \in Int
    BY ONLY <2>1, <2>2
  <2>4. \A i, j, k, l \in Int : Same5(i, j) /\ Same5(k, l) => Same5(i * k, j * l)
    BY ONLY <1>1, SameIs
  <2>. QED
    BY ONLY <2>1, <2>2, <2>3, <2>4, Zenon
<1>3. ASSUME NEW r, NEW z, NEW w, Tight(r), z \in Int, w \in Int, Same5(Value5(r), z), Same5(z, w)
      PROVE  Stands(r, w)
  <2>1. Value5(r) \in Int
    BY <1>3, ValueIs DEF Tight
  <2>2. \A i, j, k \in Int : Same5(i, j) /\ Same5(j, k) => Same5(i, k)
    BY ONLY <1>1, SameIs
  <2>3. Same5(Value5(r), w)
    BY ONLY <1>3, <2>1, <2>2, Zenon
  <2>. QED
    BY ONLY <1>3, <2>3, Zenon DEF Stands
<1>4. ASSUME NEW a, NEW b, NEW x, NEW y, Fits(a, x), Fits(b, y)
      PROVE  Stands(D!curve25519_mul(a, b), x * y)
  <2>1. Tight(D!curve25519_mul(a, b)) /\ Same5(Value5(D!curve25519_mul(a, b)), Value5(a) * Value5(b))
    <3>1. a \in Limbs5 /\ b \in Limbs5 /\ Within(a, 8) /\ Within(b, 8)
      BY ONLY <1>4, Zenon DEF Fits
    <3>. QED
      BY ONLY <3>1, DonnaSizes, MulRight, Zenon
  <2>. QED
    BY ONLY <1>2, <1>3, <1>4, <2>1, Zenon
<1>5. ASSUME NEW a, NEW x, Fits(a, x)
      PROVE  Stands(D!curve25519_square(a), x * x)
  <2>1. Tight(D!curve25519_square(a)) /\ Same5(Value5(D!curve25519_square(a)), Value5(a) * Value5(a))
    <3>1. a \in Limbs5 /\ Within(a, 8)
      BY ONLY <1>5, Zenon DEF Fits
    <3>. QED
      BY ONLY <3>1, DonnaSizes, SquareRight, Zenon
  <2>. QED
    BY ONLY <1>2, <1>3, <1>5, <2>1, Zenon
<1>. QED
  BY ONLY <1>4, <1>5, Zenon

\* Numbers that stand for others, added and subtracted.
LEMMA SameSums ==
    ASSUME DonnaSizes, NEW a \in Limbs5, NEW b \in Limbs5, NEW x \in Int, NEW y \in Int,
           Same5(Value5(a), x), Same5(Value5(b), y)
    PROVE  /\ x + y \in Int /\ x - y \in Int
           /\ \A f \in Limbs5 : Value5(f) = Value5(a) + Value5(b) => Same5(Value5(f), x + y)
           /\ \A f \in Limbs5 : Same5(Value5(f), Value5(a) - Value5(b)) => Same5(Value5(f), x - y)
<1>1. Prime5 \in Int
  BY ONLY FifthPower, DonnaSizes, Base
<1>2. Value5(a) \in Int /\ Value5(b) \in Int /\ Value5(a) + Value5(b) \in Int
      /\ Value5(a) - Value5(b) \in Int
  BY ValueIs
<1>3. x + y \in Int /\ x - y \in Int
  OBVIOUS
<1>4. Same5(Value5(a) + Value5(b), x + y) /\ Same5(Value5(a) - Value5(b), x - y)
  BY ONLY <1>1, <1>2, x \in Int, y \in Int, Same5(Value5(a), x), Same5(Value5(b), y), SameIs
<1>5. \A i, j, k \in Int : Same5(i, j) /\ Same5(j, k) => Same5(i, k)
  BY ONLY <1>1, SameIs
<1>6. \A f \in Limbs5 : Value5(f) \in Int
  BY ValueIs
<1>7. \A f \in Limbs5 : Value5(f) = Value5(a) + Value5(b) => Same5(Value5(f), x + y)
  BY ONLY <1>4, Zenon
<1>8. \A f \in Limbs5 : Same5(Value5(f), Value5(a) - Value5(b)) => Same5(Value5(f), x - y)
  BY ONLY <1>2, <1>3, <1>4, <1>5, <1>6, Zenon
<1>. QED
  BY ONLY <1>3, <1>7, <1>8, Zenon

\* Sums and differences of numbers as products leave them.
LEMMA StandsSums ==
    ASSUME DonnaSizes
    PROVE  \A a, b, x, y : Stands(a, x) /\ Stands(b, y) =>
              /\ Basic(D!curve25519_add(a, b), x + y) /\ Basic(D!curve25519_sub(a, b), x - y)
              /\ Stands(D!curve25519_add_reduce(a, b), x + y)
              /\ Stands(D!curve25519_sub_reduce(a, b), x - y)
<1>. SUFFICES ASSUME NEW a, NEW b, NEW x, NEW y, Stands(a, x), Stands(b, y)
              PROVE  /\ Basic(D!curve25519_add(a, b), x + y) /\ Basic(D!curve25519_sub(a, b), x - y)
                     /\ Stands(D!curve25519_add_reduce(a, b), x + y)
                     /\ Stands(D!curve25519_sub_reduce(a, b), x - y)
  BY Zenon
<1>1. D!Full \in Nat /\ D!Full >= Least /\ Fold \in 1 .. 19
  BY Base
<1>2. /\ a \in Limbs5 /\ Within(a, 2) /\ b \in Limbs5 /\ Within(b, 2)
      /\ \A i \in 0 .. 4 : a[i] \in Nat /\ a[i] < D!Full + Slack /\ b[i] \in Nat
         /\ b[i] < D!Full + Slack
      /\ Subtrahend(b, 2)
  <2>1. a \in Limbs5 /\ Within(a, 2) /\ b \in Limbs5 /\ Within(b, 2) /\ Tight(a) /\ Tight(b)
        /\ \A i \in 0 .. 4 : b[i] <= 2 * (D!Full - Fold)
    BY TightWithin DEF Stands
  <2>. QED
    BY ONLY <2>1 DEF Tight, Limbs5, Subtrahend
<1>3. x \in Int /\ y \in Int /\ Same5(Value5(a), x) /\ Same5(Value5(b), y)
  BY Zenon DEF Stands
<1>4. /\ x + y \in Int /\ x - y \in Int
      /\ \A f \in Limbs5 : Value5(f) = Value5(a) + Value5(b) => Same5(Value5(f), x + y)
      /\ \A f \in Limbs5 : Same5(Value5(f), Value5(a) - Value5(b)) => Same5(Value5(f), x - y)
  BY ONLY <1>2, <1>3, DonnaSizes, SameSums
<1>5. 2 \in Nat /\ 4 \in Nat /\ 6 \in Nat /\ 0 < 4 /\ 0 < 6 /\ 4 <= Most /\ 6 <= Most /\ 19 * 4 < Slack
      /\ 19 * 6 < Slack
      /\ 2 + 2 < Spare /\ 2 + 4 < Spare /\ 2 + 2 = 4 /\ 2 + 4 = 6
  BY ONLY SMT DEF Most, Slack, Spare
<1>6. ASSUME NEW f, Tight(f), NEW t \in Limbs5, NEW w \in Int, Same5(Value5(f), Value5(t)),
          Same5(Value5(t), w)
      PROVE  Stands(f, w)
  <2>1. Prime5 \in Int
    BY ONLY FifthPower, DonnaSizes, Base
  <2>2. Value5(f) \in Int /\ Value5(t) \in Int
    BY <1>6, ValueIs DEF Tight
  <2>3. \A i, j, k \in Int : Same5(i, j) /\ Same5(j, k) => Same5(i, k)
    BY ONLY <2>1, SameIs
  <2>4. Same5(Value5(f), w)
    BY ONLY <1>6, <2>2, <2>3, Zenon
  <2>. QED
    BY ONLY <1>6, <2>4, Zenon DEF Stands
<1>7. Basic(D!curve25519_add(a, b), x + y) /\ Stands(D!curve25519_add_reduce(a, b), x + y)
  <2>. DEFINE f == [i \in 0 .. 4 |-> a[i] + b[i]]
  <2>1. /\ D!curve25519_add(a, b) = f /\ f \in Limbs5 /\ Within(f, 2 + 2)
        /\ Value5(f) = Value5(a) + Value5(b)
    BY ONLY <1>2, <1>5, DonnaSizes, SumRight, Zenon
  <2>2. Subtrahend(f, 4)
    <3>1. \A i \in 0 .. 4 : f[i] = a[i] + b[i]
      OBVIOUS
    <3>2. ASSUME NEW u \in Nat, NEW v \in Nat, u < D!Full + Slack, v < D!Full + Slack
          PROVE  u + v <= 4 * (D!Full - Fold)
      BY ONLY <1>1, <3>2, SMT DEF Slack, Least
    <3>. HIDE DEF f
    <3>. QED
      BY ONLY <1>2, <3>1, <3>2 DEF Subtrahend
  <2>3. Same5(Value5(f), x + y)
    BY ONLY <1>4, <2>1, Zenon
  <2>4. D!curve25519_add_reduce(a, b) = D!Reduced(f)
    BY FourIs, Zenon DEF D!curve25519_add_reduce, D!Table, D!Computed
  <2>. HIDE DEF f
  <2>5. Within(f, 4) /\ f[4] <= 4 * D!Full
    BY ONLY <1>5, <2>1 DEF Within
  <2>6. Tight(D!Reduced(f)) /\ Same5(Value5(D!Reduced(f)), Value5(f))
    BY ONLY <1>5, <2>1, <2>5, DonnaSizes, ReducedTight
  <2>7. Stands(D!Reduced(f), x + y)
    BY ONLY <1>4, <1>6, <2>1, <2>3, <2>6, Zenon
  <2>. QED
    BY ONLY <1>4, <2>1, <2>2, <2>3, <2>4, <2>5, <2>7, Zenon DEF Basic
<1>8. Basic(D!curve25519_sub(a, b), x - y)
  <2>1. PICK f \in Limbs5 : /\ D!curve25519_sub(a, b) = f /\ Within(f, 2 + 2)
                            /\ f = [i \in 0 .. 4 |-> a[i] + D!TwoP(i) - b[i]]
                            /\ Same5(Value5(f), Value5(a) - Value5(b))
    BY ONLY <1>2, <1>5, DonnaSizes, SubRight, Zenon
  <2>2. Subtrahend(f, 4)
    <3>1. \A i \in 0 .. 4 : f[i] = a[i] + D!TwoP(i) - b[i]
      BY ONLY <2>1
    <3>2. \A i \in 0 .. 4 : D!TwoP(i) \in {2 * (D!Full - Fold), 2 * (D!Full - 1)}
      BY MultiplesOfPrime
    <3>3. ASSUME NEW u \in Nat, NEW v \in Nat, NEW w \in {2 * (D!Full - Fold), 2 * (D!Full - 1)},
              u < D!Full + Slack
          PROVE  u + w - v <= 4 * (D!Full - Fold)
      BY ONLY <1>1, <3>3, SMT DEF Slack, Least
    <3>. QED
      BY ONLY <1>2, <3>1, <3>2, <3>3 DEF Subtrahend
  <2>3. Same5(Value5(f), x - y)
    BY ONLY <1>4, <2>1, Zenon
  <2>4. Within(f, 4)
    BY ONLY <1>5, <2>1, Zenon
  <2>. QED
    BY ONLY <1>4, <2>1, <2>2, <2>3, <2>4, Zenon DEF Basic
<1>9. Stands(D!curve25519_sub_reduce(a, b), x - y)
  <2>1. Subtrahend(b, 4)
    <3>1. \A i \in 0 .. 4 : b[i] \in Nat /\ b[i] < D!Full + Slack
      BY <1>2
    <3>2. ASSUME NEW u \in Nat, u < D!Full + Slack PROVE u <= 4 * (D!Full - Fold)
      BY ONLY <1>1, <3>2, SMT DEF Slack, Least
    <3>. QED
      BY ONLY <3>1, <3>2 DEF Subtrahend
  <2>2. PICK f \in Limbs5 : /\ D!curve25519_sub_after_basic(a, b) = f /\ Within(f, 2 + 4)
                            /\ f = [i \in 0 .. 4 |-> a[i] + D!FourP(i) - b[i]]
                            /\ Same5(Value5(f), Value5(a) - Value5(b))
    BY ONLY <1>2, <1>5, <2>1, DonnaSizes, SubRight, Zenon
  <2>3. D!curve25519_sub_reduce(a, b) = D!Reduced(f)
    <3>1. D!curve25519_sub_reduce(a, b) = D!Reduced([i \in 0 .. 4 |-> a[i] + D!FourP(i) - b[i]])
      BY FourIs, Zenon DEF D!curve25519_sub_reduce, D!Table, D!Computed
    <3>. QED
      BY ONLY <2>2, <3>1, Zenon
  <2>4. Within(f, 6) /\ f[4] <= 6 * D!Full
    BY ONLY <1>5, <2>2 DEF Within
  <2>5. Tight(D!Reduced(f)) /\ Same5(Value5(D!Reduced(f)), Value5(f))
    BY ONLY <1>5, <2>4, DonnaSizes, ReducedTight, f \in Limbs5
  <2>6. Same5(Value5(f), x - y)
    BY ONLY <1>4, <2>2, Zenon
  <2>. QED
    BY ONLY <1>4, <1>6, <2>3, <2>5, <2>6, f \in Limbs5, Zenon
<1>. QED
  BY ONLY <1>7, <1>8, <1>9, Zenon

\* Sums and differences of such sums and differences.
LEMMA BasicSums ==
    ASSUME DonnaSizes
    PROVE  \A a, b, x, y : Basic(a, x) /\ Basic(b, y) =>
              /\ Fits(D!curve25519_add_after_basic(a, b), x + y)
              /\ Fits(D!curve25519_sub_after_basic(a, b), x - y)
<1>. SUFFICES ASSUME NEW a, NEW b, NEW x, NEW y, Basic(a, x), Basic(b, y)
              PROVE  /\ Fits(D!curve25519_add_after_basic(a, b), x + y)
                     /\ Fits(D!curve25519_sub_after_basic(a, b), x - y)
  BY Zenon
<1>1. a \in Limbs5 /\ b \in Limbs5 /\ Within(a, 4) /\ Within(b, 4) /\ Subtrahend(b, 4)
  BY Zenon DEF Basic
<1>2. x \in Int /\ y \in Int /\ Same5(Value5(a), x) /\ Same5(Value5(b), y)
  BY Zenon DEF Basic
<1>3. /\ x + y \in Int /\ x - y \in Int
      /\ \A f \in Limbs5 : Value5(f) = Value5(a) + Value5(b) => Same5(Value5(f), x + y)
      /\ \A f \in Limbs5 : Same5(Value5(f), Value5(a) - Value5(b)) => Same5(Value5(f), x - y)
  BY ONLY <1>1, <1>2, DonnaSizes, SameSums
<1>4. 4 \in Nat /\ 4 + 4 < Spare /\ 4 + 4 = 8
  BY ONLY SMT DEF Spare
<1>5. Fits(D!curve25519_add_after_basic(a, b), x + y)
  <2>. DEFINE f == [i \in 0 .. 4 |-> a[i] + b[i]]
  <2>1. /\ D!curve25519_add_after_basic(a, b) = f /\ f \in Limbs5 /\ Within(f, 4 + 4)
        /\ Value5(f) = Value5(a) + Value5(b)
    BY ONLY <1>1, <1>4, DonnaSizes, SumRight, Zenon
  <2>. HIDE DEF f
  <2>. QED
    BY ONLY <1>3, <1>4, <2>1, Zenon DEF Fits
<1>6. Fits(D!curve25519_sub_after_basic(a, b), x - y)
  <2>1. PICK f \in Limbs5 : /\ D!curve25519_sub_after_basic(a, b) = f /\ Within(f, 4 + 4)
                            /\ Same5(Value5(f), Value5(a) - Value5(b))
    BY ONLY <1>1, <1>4, DonnaSizes, SubRight, Zenon
  <2>. QED
    BY ONLY <1>3, <1>4, <2>1, f \in Limbs5, Zenon DEF Fits
<1>. QED
  BY ONLY <1>5, <1>6

\* The opposite of a number as a product leaves it.
LEMMA NegRight ==
    ASSUME DonnaSizes
    PROVE  \A a, x : Stands(a, x) => Stands(D!curve25519_neg(a), -x)
<1>. SUFFICES ASSUME NEW a, NEW x, Stands(a, x)
              PROVE  Stands(D!curve25519_neg(a), -x)
  BY Zenon
<1>1. D!Full \in Nat /\ D!Full >= Least /\ Fold \in 1 .. 19
  BY Base
<1>2. /\ a \in Limbs5 /\ (\A i \in 0 .. 4 : a[i] \in Int /\ a[i] <= 2 * (D!Full - Fold))
      /\ x \in Int /\ Same5(Value5(a), x)
  BY TightWithin DEF Stands, Limbs5
<1>. DEFINE z == [i \in 0 .. 4 |-> 0]
            p == [i \in 0 .. 4 |-> D!TwoP(i)]
            f == [i \in 0 .. 4 |-> z[i] + p[i] - a[i]]
<1>3. z \in Limbs5 /\ (\A i \in 0 .. 4 : z[i] = 0) /\ Within(z, 0)
  BY <1>1 DEF Limbs5, Within
<1>4. p[0] = 2 * (D!Full - Fold) /\ (\A i \in 1 .. 4 : p[i] = 2 * (D!Full - 1))
      /\ \A i \in 0 .. 4 : p[i] = D!TwoP(i)
  BY MultiplesOfPrime
<1>5. f = [i \in 0 .. 4 |-> z[i] + p[i] - a[i]] /\ \A i \in 0 .. 4 : f[i] = z[i] + p[i] - a[i]
  OBVIOUS
<1>6. f = [i \in 0 .. 4 |-> D!TwoP(i) - a[i]]
  <2>1. \A i \in 0 .. 4 : D!TwoP(i) \in Int
    <3>1. \A i \in 0 .. 4 : D!TwoP(i) \in {2 * (D!Full - Fold), 2 * (D!Full - 1)}
      BY MultiplesOfPrime
    <3>. QED
      BY ONLY <1>1, <3>1
  <2>. HIDE DEF z, p
  <2>. QED
    BY ONLY <1>2, <1>3, <1>4, <2>1
<1>. HIDE DEF z, p, f
<1>7. 0 \in Nat /\ 2 \in Nat /\ 2 <= Most /\ 0 < 2 /\ 19 * 2 < Slack /\ 0 + 2 < Spare /\ 0 + 2 = 2
  BY ONLY SMT DEF Most, Slack, Spare
<1>8. f \in Limbs5 /\ Within(f, 2) /\ Same5(Value5(f), Value5(z) - Value5(a))
  BY ONLY <1>2, <1>3, <1>4, <1>5, <1>7, DonnaSizes, DifferenceRight5
<1>9. D!curve25519_neg(a) = D!Reduced(f)
  BY <1>6, FourIs, Zenon DEF D!curve25519_neg, D!Table, D!Computed
<1>10. f[4] <= 2 * D!Full
  BY ONLY <1>8 DEF Within
<1>11. Tight(D!Reduced(f)) /\ Same5(Value5(D!Reduced(f)), Value5(f))
  BY ONLY <1>7, <1>8, <1>10, DonnaSizes, ReducedTight
<1>12. Prime5 \in Int
  BY ONLY FifthPower, DonnaSizes, Base
<1>13. Value5(z) = 0 /\ 0 \in Int
  BY ONLY <1>1, <1>3, SMT DEF Value5
<1>14. /\ Value5(a) \in Int /\ Value5(f) \in Int /\ Value5(D!Reduced(f)) \in Int
       /\ Value5(z) - Value5(a) \in Int /\ 0 - x \in Int /\ 0 - x = -x
  <2>1. Value5(a) \in Int /\ Value5(f) \in Int /\ Value5(D!Reduced(f)) \in Int
    BY ONLY <1>2, <1>8, <1>11, DonnaSizes, ValueIs DEF Tight
  <2>. QED
    BY ONLY <1>2, <1>13, <2>1
<1>15. Same5(Value5(z) - Value5(a), -x)
  <2>1. Same5(0, 0)
    <3>1. 0 = 0 + 0 * Prime5
      BY ONLY <1>12
    <3>. QED
      BY ONLY <1>13, <3>1, Zenon DEF Same5
  <2>2. \A i, j, k, l \in Int : Same5(i, j) /\ Same5(k, l) => Same5(i - k, j - l)
    BY ONLY <1>12, SameIs
  <2>3. Same5(Value5(z), 0) /\ Value5(z) \in Int
    BY ONLY <1>13, <2>1
  <2>4. Same5(Value5(z) - Value5(a), 0 - x)
    BY ONLY <1>2, <1>13, <1>14, <2>2, <2>3, Zenon
  <2>. QED
    BY ONLY <1>14, <2>4
<1>16. \A i, j, k \in Int : Same5(i, j) /\ Same5(j, k) => Same5(i, k)
  BY ONLY <1>12, SameIs
<1>17. -x \in Int
  BY ONLY <1>14
<1>18. Same5(Value5(f), -x)
  BY ONLY <1>8, <1>14, <1>15, <1>16, <1>17, Zenon
<1>19. Same5(Value5(D!Reduced(f)), -x)
  BY ONLY <1>11, <1>14, <1>16, <1>17, <1>18, Zenon
<1>. QED
  BY ONLY <1>9, <1>11, <1>17, <1>19, Zenon DEF Stands

\* Sums and differences: of what products leave, reduced or not, and once more of
\* what is not reduced.  No limb of a difference goes below zero, and none of the
\* results is beyond what a product takes.
THEOREM FieldSums ==
    ASSUME DonnaSizes, NEW a, NEW b, NEW x, NEW y
    PROVE  /\ Stands(a, x) /\ Stands(b, y) =>
                 /\ Basic(D!curve25519_add(a, b), x + y) /\ Basic(D!curve25519_sub(a, b), x - y)
                 /\ Stands(D!curve25519_add_reduce(a, b), x + y)
                 /\ Stands(D!curve25519_sub_reduce(a, b), x - y)
                 /\ Stands(D!curve25519_neg(a), -x)
           /\ Basic(a, x) /\ Basic(b, y) =>
                 /\ Fits(D!curve25519_add_after_basic(a, b), x + y)
                 /\ Fits(D!curve25519_sub_after_basic(a, b), x - y)
  BY StandsSums, BasicSums, NegRight, Zenon

-----------------------------------------------------------------------------
(* Points *)

\* The formulas on limbs, and on the integers; nothing is inverted or packed.
Same(x) == x
NoMultiple(n) == <<n, n>>
NoDigits1(s) == <<s>>
NoDigits2(s, w) == <<s, w>>
Plus(x, y) == x + y
Minus(x, y) == x - y
Negative(x) == -x
Times(x, y) == x * y
Squared(x) == x * x

OnLimbs == INSTANCE CudaGroup WITH
    add <- D!curve25519_add, sub <- D!curve25519_sub,
    add_after_basic <- D!curve25519_add_after_basic,
    sub_after_basic <- D!curve25519_sub_after_basic,
    add_reduce <- D!curve25519_add_reduce, sub_reduce <- D!curve25519_sub_reduce,
    neg <- D!curve25519_neg, mul <- D!curve25519_mul, square <- D!curve25519_square,
    recip <- Same, batchrecip <- Same, pow_two252m3 <- Same,
    expand <- D!curve25519_expand, contract <- D!curve25519_contract,
    Multiple <- NoMultiple, contract256_window4_modm <- NoDigits1,
    contract256_slidingwindow_modm <- NoDigits2, expand256_modm <- NoDigits2

OnNumbers == INSTANCE CudaGroup WITH
    zero <- 0, one <- 1, two <- 2,
    ecd <- Value5(ecd), ec2d <- Value5(ec2d), sqrtneg1 <- Value5(sqrtneg1), eightz <- Value5(eightz),
    add <- Plus, sub <- Minus, add_after_basic <- Plus, sub_after_basic <- Minus,
    add_reduce <- Plus, sub_reduce <- Minus, neg <- Negative, mul <- Times, square <- Squared,
    recip <- Same, batchrecip <- Same, pow_two252m3 <- Same, expand <- Same, contract <- Same,
    Multiple <- NoMultiple, contract256_window4_modm <- NoDigits1,
    contract256_slidingwindow_modm <- NoDigits2, expand256_modm <- NoDigits2

\* Points whose coordinates stand for numbers: with and without their T, the
\* pairs of fractions, and points prepared for an addition.
Points(p, v) == Stands(p.x, v.x) /\ Stands(p.y, v.y) /\ Stands(p.z, v.z) /\ Stands(p.t, v.t)
Partials(p, v) == Stands(p.x, v.x) /\ Stands(p.y, v.y) /\ Stands(p.z, v.z)
Pairs(p, v) == Fits(p.x, v.x) /\ Fits(p.y, v.y) /\ Fits(p.z, v.z) /\ Fits(p.t, v.t)
Niels(q, w) == Fits(q.ysubx, w.ysubx) /\ Fits(q.xaddy, w.xaddy) /\ Fits(q.t2d, w.t2d)
Pniels(q, w) == Niels(q, w) /\ Fits(q.z, w.z)

\* All this in the words of the formulas.
LEMMA Rules ==
    ASSUME DonnaSizes
    PROVE  /\ \A a, b, x, y : Fits(a, x) /\ Fits(b, y) => Stands(D!curve25519_mul(a, b), Times(x, y))
           /\ \A a, x : Fits(a, x) => Stands(D!curve25519_square(a), Squared(x))
           /\ \A a, b, x, y : Stands(a, x) /\ Stands(b, y) =>
                 /\ Basic(D!curve25519_add(a, b), Plus(x, y))
                 /\ Basic(D!curve25519_sub(a, b), Minus(x, y))
                 /\ Stands(D!curve25519_add_reduce(a, b), Plus(x, y))
                 /\ Stands(D!curve25519_sub_reduce(a, b), Minus(x, y))
           /\ \A a, b, x, y : Basic(a, x) /\ Basic(b, y) =>
                 /\ Fits(D!curve25519_add_after_basic(a, b), Plus(x, y))
                 /\ Fits(D!curve25519_sub_after_basic(a, b), Minus(x, y))
           /\ \A a, x : (Stands(a, x) => Basic(a, x) /\ Fits(a, x)) /\ (Basic(a, x) => Fits(a, x))
  BY StandsBasic, FitsProducts, StandsSums, BasicSums, Zenon DEF Plus, Minus, Times, Squared

\* A pair of fractions becomes a point.
LEMMA PairsToPoints ==
    ASSUME DonnaSizes
    PROVE  \A p, v : Pairs(p, v) => /\ Points(OnLimbs!p1p1_to_full(p), OnNumbers!p1p1_to_full(v))
                                   /\ Partials(OnLimbs!p1p1_to_partial(p), OnNumbers!p1p1_to_partial(v))
<1>. SUFFICES ASSUME NEW p, NEW v, Pairs(p, v)
              PROVE  /\ Points(OnLimbs!p1p1_to_full(p), OnNumbers!p1p1_to_full(v))
                     /\ Partials(OnLimbs!p1p1_to_partial(p), OnNumbers!p1p1_to_partial(v))
  BY Zenon
<1>1. /\ Stands(D!curve25519_mul(p.x, p.t), Times(v.x, v.t))
      /\ Stands(D!curve25519_mul(p.y, p.z), Times(v.y, v.z))
      /\ Stands(D!curve25519_mul(p.z, p.t), Times(v.z, v.t))
      /\ Stands(D!curve25519_mul(p.x, p.y), Times(v.x, v.y))
  BY Rules, Zenon DEF Pairs
<1>. QED
  BY ONLY <1>1, Zenon DEF Points, Partials, OnLimbs!p1p1_to_full, OnNumbers!p1p1_to_full,
     OnLimbs!p1p1_to_partial, OnNumbers!p1p1_to_partial

\* A doubling.
LEMMA Doublings ==
    ASSUME DonnaSizes
    PROVE  \A p, v : Partials(p, v) => Pairs(OnLimbs!double_p1p1(p), OnNumbers!double_p1p1(v))
<1>. SUFFICES ASSUME NEW p, NEW v, Partials(p, v)
              PROVE  Pairs(OnLimbs!double_p1p1(p), OnNumbers!double_p1p1(v))
  BY Zenon
<1>. DEFINE a == D!curve25519_square(p.x)           va == Squared(v.x)
            b == D!curve25519_square(p.y)           vb == Squared(v.y)
            zz == D!curve25519_square(p.z)          vzz == Squared(v.z)
            y == D!curve25519_add(b, a)             vy == Plus(vb, va)
            z == D!curve25519_sub(b, a)             vz == Minus(vb, va)
            u == D!curve25519_add(p.x, p.y)         vu == Plus(v.x, v.y)
            d == D!curve25519_add_reduce(zz, zz)    vd == Plus(vzz, vzz)
<1>1. Stands(a, va) /\ Stands(b, vb) /\ Stands(zz, vzz) /\ Basic(u, vu)
  BY Rules, Zenon DEF Partials
<1>. HIDE DEF a, b, zz, u, va, vb, vzz, vu
<1>2. Basic(y, vy) /\ Basic(z, vz) /\ Stands(d, vd)
  BY ONLY <1>1, DonnaSizes, Rules, Zenon
<1>. HIDE DEF y, z, d, vy, vz, vd
<1>3. Fits(u, vu)
  BY ONLY <1>1, DonnaSizes, Rules, Zenon
<1>4. Stands(D!curve25519_square(u), Squared(vu))
  BY ONLY <1>3, DonnaSizes, Rules, Zenon
<1>5. Basic(D!curve25519_square(u), Squared(vu)) /\ Basic(d, vd)
  BY ONLY <1>2, <1>4, DonnaSizes, Rules, Zenon
<1>6. /\ Fits(D!curve25519_sub_after_basic(D!curve25519_square(u), y), Minus(Squared(vu), vy))
      /\ Fits(y, vy) /\ Fits(z, vz)
      /\ Fits(D!curve25519_sub_after_basic(d, z), Minus(vd, vz))
  BY ONLY <1>2, <1>5, DonnaSizes, Rules, Zenon
<1>. QED
  BY ONLY <1>6, Zenon DEF Pairs, OnLimbs!double_p1p1, OnNumbers!double_p1p1,
     a, b, zz, u, y, z, d, va, vb, vzz, vu, vy, vz, vd

\* The two products every sum of points begins with, and what is made of them.
LEMMA Halves ==
    ASSUME DonnaSizes, NEW p, NEW v, NEW m, NEW n, NEW vm, NEW vn, Points(p, v), Fits(m, vm),
        Fits(n, vn)
    PROVE  LET a == D!curve25519_mul(D!curve25519_sub(p.y, p.x), m)
               b == D!curve25519_mul(D!curve25519_add(p.y, p.x), n)
               va == Times(Minus(v.y, v.x), vm)
               vb == Times(Plus(v.y, v.x), vn)
           IN  /\ Basic(D!curve25519_sub(b, a), Minus(vb, va))
               /\ Fits(D!curve25519_sub(b, a), Minus(vb, va))
               /\ Basic(D!curve25519_add(b, a), Plus(vb, va))
               /\ Fits(D!curve25519_add(b, a), Plus(vb, va))
<1>. DEFINE s == D!curve25519_sub(p.y, p.x)    vs == Minus(v.y, v.x)
            u == D!curve25519_add(p.y, p.x)    vu == Plus(v.y, v.x)
            a == D!curve25519_mul(s, m)        va == Times(vs, vm)
            b == D!curve25519_mul(u, n)        vb == Times(vu, vn)
<1>1. Basic(s, vs) /\ Basic(u, vu)
  BY Rules, Zenon DEF Points
<1>2. Fits(s, vs) /\ Fits(u, vu)
  BY ONLY <1>1, DonnaSizes, Rules, Zenon
<1>. HIDE DEF s, u, vs, vu
<1>3. Stands(a, va) /\ Stands(b, vb)
  BY ONLY <1>2, Fits(m, vm), Fits(n, vn), DonnaSizes, Rules, Zenon
<1>. HIDE DEF a, b, va, vb
<1>4. Basic(D!curve25519_sub(b, a), Minus(vb, va)) /\ Basic(D!curve25519_add(b, a), Plus(vb, va))
  BY ONLY <1>3, DonnaSizes, Rules, Zenon
<1>5. Fits(D!curve25519_sub(b, a), Minus(vb, va)) /\ Fits(D!curve25519_add(b, a), Plus(vb, va))
  BY ONLY <1>4, DonnaSizes, Rules, Zenon
<1>. QED
  BY ONLY <1>4, <1>5, Zenon DEF s, u, a, b, vs, vu, va, vb

\* Additions of a prepared point, with either sign.
LEMMA Additions ==
    ASSUME DonnaSizes
    PROVE  \A p, q, v, w, signbit : Points(p, v) =>
              /\ Niels(q, w) => Pairs(OnLimbs!nielsadd2_p1p1(p, q, signbit),
                   OnNumbers!nielsadd2_p1p1(v, w, signbit))
              /\ Pniels(q, w) => /\ Pairs(OnLimbs!pnielsadd_p1p1(p, q, signbit),
                                          OnNumbers!pnielsadd_p1p1(v, w, signbit))
                                 /\ Pairs(OnLimbs!ge_pnielsadd_p1p1(p, q, signbit),
                                          OnNumbers!ge_pnielsadd_p1p1(v, w, signbit))
<1>1. ASSUME NEW p, NEW q, NEW v, NEW w, NEW signbit, Points(p, v), Niels(q, w), NEW zz, NEW vzz,
          Stands(zz, vzz)
      PROVE  LET m == IF signbit = 0 THEN q.ysubx ELSE q.xaddy
                 n == IF signbit = 0 THEN q.xaddy ELSE q.ysubx
                 a == D!curve25519_mul(D!curve25519_sub(p.y, p.x), m)
                 b == D!curve25519_mul(D!curve25519_add(p.y, p.x), n)
                 c == D!curve25519_mul(p.t, q.t2d)
                 vm == IF signbit = 0 THEN w.ysubx ELSE w.xaddy
                 vn == IF signbit = 0 THEN w.xaddy ELSE w.ysubx
                 va == Times(Minus(v.y, v.x), vm)
                 vb == Times(Plus(v.y, v.x), vn)
                 vc == Times(v.t, w.t2d)
             IN  /\ Fits(D!curve25519_sub(b, a), Minus(vb, va))
                 /\ Fits(D!curve25519_add(b, a), Plus(vb, va))
                 /\ Fits(D!curve25519_add(zz, c), Plus(vzz, vc))
                 /\ Fits(D!curve25519_sub(zz, c), Minus(vzz, vc))
                 /\ Fits(D!curve25519_add_after_basic(zz, c), Plus(vzz, vc))
                 /\ Fits(D!curve25519_sub_after_basic(zz, c), Minus(vzz, vc))
  <2>. DEFINE m == IF signbit = 0 THEN q.ysubx ELSE q.xaddy
              n == IF signbit = 0 THEN q.xaddy ELSE q.ysubx
              vm == IF signbit = 0 THEN w.ysubx ELSE w.xaddy
              vn == IF signbit = 0 THEN w.xaddy ELSE w.ysubx
              c == D!curve25519_mul(p.t, q.t2d)
              vc == Times(v.t, w.t2d)
  <2>1. Fits(m, vm) /\ Fits(n, vn)
    BY ONLY <1>1, Zenon DEF Niels
  <2>2. Stands(c, vc)
    BY ONLY <1>1, DonnaSizes, Rules, Zenon DEF Niels, Points
  <2>. HIDE DEF m, n, vm, vn
  <2>3. LET a == D!curve25519_mul(D!curve25519_sub(p.y, p.x), m)
            b == D!curve25519_mul(D!curve25519_add(p.y, p.x), n)
            va == Times(Minus(v.y, v.x), vm)
            vb == Times(Plus(v.y, v.x), vn)
        IN  Fits(D!curve25519_sub(b, a), Minus(vb, va)) /\ Fits(D!curve25519_add(b, a), Plus(vb, va))
    BY ONLY <1>1, <2>1, DonnaSizes, Halves, Zenon
  <2>. HIDE DEF c, vc
  <2>4. Basic(D!curve25519_add(zz, c), Plus(vzz, vc)) /\ Basic(D!curve25519_sub(zz, c), Minus(vzz, vc))
        /\ Basic(c, vc) /\ Basic(zz, vzz)
    BY ONLY <1>1, <2>2, DonnaSizes, Rules, Zenon
  <2>5. /\ Fits(D!curve25519_add(zz, c), Plus(vzz, vc)) /\ Fits(D!curve25519_sub(zz, c), Minus(vzz, vc))
        /\ Fits(D!curve25519_add_after_basic(zz, c), Plus(vzz, vc))
        /\ Fits(D!curve25519_sub_after_basic(zz, c), Minus(vzz, vc))
    BY ONLY <2>4, DonnaSizes, Rules, Zenon
  <2>. QED
    BY ONLY <2>3, <2>5, Zenon DEF m, n, vm, vn, c, vc
<1>2. ASSUME NEW p, NEW q, NEW v, NEW w, NEW signbit, Points(p, v), Niels(q, w), NEW zz, NEW vzz,
          Stands(zz, vzz)
      PROVE  Pairs(OnLimbs!WithSign(p, q, signbit, zz), OnNumbers!WithSign(v, w, signbit, vzz))
  BY ONLY <1>1, <1>2, Zenon DEF Pairs, OnLimbs!WithSign, OnNumbers!WithSign
<1>3. ASSUME NEW p, NEW q, NEW v, NEW w, NEW signbit, Points(p, v), Niels(q, w)
      PROVE  Pairs(OnLimbs!nielsadd2_p1p1(p, q, signbit), OnNumbers!nielsadd2_p1p1(v, w, signbit))
  <2>1. Stands(D!curve25519_add_reduce(p.z, p.z), Plus(v.z, v.z))
    BY ONLY <1>3, DonnaSizes, Rules, Zenon DEF Points
  <2>. QED
    BY ONLY <1>2, <1>3, <2>1, Zenon DEF OnLimbs!nielsadd2_p1p1, OnNumbers!nielsadd2_p1p1
<1>4. ASSUME NEW p, NEW q, NEW v, NEW w, Points(p, v), Pniels(q, w)
      PROVE  LET zz == D!curve25519_mul(p.z, q.z)  vzz == Times(v.z, w.z)
             IN  Stands(D!curve25519_add_reduce(zz, zz), Plus(vzz, vzz))
  <2>1. Stands(D!curve25519_mul(p.z, q.z), Times(v.z, w.z))
    BY ONLY <1>4, DonnaSizes, Rules, Zenon DEF Points, Pniels
  <2>. QED
    BY ONLY <2>1, DonnaSizes, Rules, Zenon
<1>5. ASSUME NEW p, NEW q, NEW v, NEW w, NEW signbit, Points(p, v), Pniels(q, w)
      PROVE  Pairs(OnLimbs!pnielsadd_p1p1(p, q, signbit), OnNumbers!pnielsadd_p1p1(v, w, signbit))
  BY ONLY <1>2, <1>4, <1>5, Zenon DEF Pniels, OnLimbs!pnielsadd_p1p1, OnNumbers!pnielsadd_p1p1
<1>6. ASSUME NEW p, NEW q, NEW v, NEW w, NEW signbit, Points(p, v), Pniels(q, w)
      PROVE  Pairs(OnLimbs!ge_pnielsadd_p1p1(p, q, signbit), OnNumbers!ge_pnielsadd_p1p1(v, w, signbit))
  <2>1. Niels(q, w)
    BY ONLY <1>6, Zenon DEF Pniels
  <2>. DEFINE zz == D!curve25519_mul(p.z, q.z)                      vzz == Times(v.z, w.z)
              m == IF signbit = 0 THEN q.ysubx ELSE q.xaddy
              n == IF signbit = 0 THEN q.xaddy ELSE q.ysubx
              vm == IF signbit = 0 THEN w.ysubx ELSE w.xaddy
              vn == IF signbit = 0 THEN w.xaddy ELSE w.ysubx
              a == D!curve25519_mul(D!curve25519_sub(p.y, p.x), m)  va == Times(Minus(v.y, v.x), vm)
              b == D!curve25519_mul(D!curve25519_add(p.y, p.x), n)  vb == Times(Plus(v.y, v.x), vn)
              c == D!curve25519_mul(p.t, q.t2d)                     vc == Times(v.t, w.t2d)
              d == D!curve25519_add_reduce(zz, zz)                  vd == Plus(vzz, vzz)
  <2>2. Stands(d, vd)
    BY ONLY <1>4, <1>6, Zenon
  <2>. HIDE DEF d, vd
  <2>3. /\ Fits(D!curve25519_sub(b, a), Minus(vb, va)) /\ Fits(D!curve25519_add(b, a), Plus(vb, va))
        /\ Fits(D!curve25519_add_after_basic(d, c), Plus(vd, vc))
        /\ Fits(D!curve25519_sub_after_basic(d, c), Minus(vd, vc))
    BY ONLY <1>1, <1>6, <2>1, <2>2, Zenon
  <2>. QED
    BY ONLY <2>3, Zenon DEF Pairs, OnLimbs!ge_pnielsadd_p1p1, OnNumbers!ge_pnielsadd_p1p1, d, vd
<1>. QED
  BY ONLY <1>3, <1>5, <1>6, Zenon

\* Limbs stand for what they are worth.
LEMMA ItsOwnNumber ==
    ASSUME DonnaSizes
    PROVE  \A f : Tight(f) => Stands(f, Value5(f))
<1>. SUFFICES ASSUME NEW f, Tight(f) PROVE Stands(f, Value5(f))
  BY Zenon
<1>1. Value5(f) \in Int /\ Prime5 \in Int
  BY ValueIs, FifthPower, Base DEF Tight
<1>2. Value5(f) = Value5(f) + 0 * Prime5
  BY ONLY <1>1
<1>. QED
  BY ONLY <1>1, <1>2, Tight(f), 0 \in Int, Zenon DEF Stands, Same5

\* A point prepared for an addition.
LEMMA Preparations ==
    ASSUME DonnaSizes, Tight(ec2d)
    PROVE  \A r, v : Points(r, v) => Pniels(OnLimbs!full_to_pniels(r), OnNumbers!full_to_pniels(v))
<1>. SUFFICES ASSUME NEW r, NEW v, Points(r, v)
              PROVE  Pniels(OnLimbs!full_to_pniels(r), OnNumbers!full_to_pniels(v))
  BY Zenon
<1>1. Stands(ec2d, Value5(ec2d))
  BY ItsOwnNumber, Zenon
<1>2. Basic(D!curve25519_sub(r.y, r.x), Minus(v.y, v.x))
      /\ Basic(D!curve25519_add(r.y, r.x), Plus(v.y, v.x))
  BY Rules, Zenon DEF Points
<1>3. Fits(r.t, v.t) /\ Fits(r.z, v.z) /\ Fits(ec2d, Value5(ec2d))
  BY <1>1, Rules, Zenon DEF Points
<1>4. Stands(D!curve25519_mul(r.t, ec2d), Times(v.t, Value5(ec2d)))
  BY ONLY <1>3, DonnaSizes, Rules, Zenon
<1>5. /\ Fits(D!curve25519_sub(r.y, r.x), Minus(v.y, v.x))
      /\ Fits(D!curve25519_add(r.y, r.x), Plus(v.y, v.x))
      /\ Fits(D!curve25519_mul(r.t, ec2d), Times(v.t, Value5(ec2d)))
  BY ONLY <1>2, <1>4, DonnaSizes, Rules, Zenon
<1>. QED
  BY ONLY <1>3, <1>5, Zenon DEF Pniels, Niels, OnLimbs!full_to_pniels, OnNumbers!full_to_pniels

\* The sum of two points.
LEMMA Sums2 ==
    ASSUME DonnaSizes, Tight(ec2d)
    PROVE  \A p, q, v, w : Points(p, v) /\ Points(q, w) =>
              Pairs(OnLimbs!add_p1p1(p, q), OnNumbers!add_p1p1(v, w))
<1>. SUFFICES ASSUME NEW p, NEW q, NEW v, NEW w, Points(p, v), Points(q, w)
              PROVE  Pairs(OnLimbs!add_p1p1(p, q), OnNumbers!add_p1p1(v, w))
  BY Zenon
<1>. DEFINE m == D!curve25519_sub(q.y, q.x)                         vm == Minus(w.y, w.x)
            n == D!curve25519_add(q.y, q.x)                         vn == Plus(w.y, w.x)
            a == D!curve25519_mul(D!curve25519_sub(p.y, p.x), m)    va == Times(Minus(v.y, v.x), vm)
            b == D!curve25519_mul(D!curve25519_add(p.y, p.x), n)    vb == Times(Plus(v.y, v.x), vn)
            tt == D!curve25519_mul(p.t, q.t)                        vtt == Times(v.t, w.t)
            c == D!curve25519_mul(tt, ec2d)                         vc == Times(vtt, Value5(ec2d))
            zz == D!curve25519_mul(p.z, q.z)                        vzz == Times(v.z, w.z)
            d == D!curve25519_add(zz, zz)                           vd == Plus(vzz, vzz)
<1>1. Fits(m, vm) /\ Fits(n, vn)
  <2>1. Basic(m, vm) /\ Basic(n, vn)
    BY Rules, Zenon DEF Points
  <2>. HIDE DEF m, n, vm, vn
  <2>. QED
    BY ONLY <2>1, DonnaSizes, Rules, Zenon
<1>2. Fits(D!curve25519_sub(b, a), Minus(vb, va)) /\ Fits(D!curve25519_add(b, a), Plus(vb, va))
  <2>. HIDE DEF m, n, vm, vn
  <2>. QED
    BY ONLY <1>1, Points(p, v), DonnaSizes, Halves, Zenon
<1>3. Stands(tt, vtt) /\ Stands(zz, vzz) /\ Fits(ec2d, Value5(ec2d))
  <2>1. Fits(p.t, v.t) /\ Fits(q.t, w.t) /\ Fits(p.z, v.z) /\ Fits(q.z, w.z)
    BY Rules, Zenon DEF Points
  <2>2. Stands(ec2d, Value5(ec2d))
    BY ItsOwnNumber, Zenon
  <2>. QED
    BY ONLY <2>1, <2>2, DonnaSizes, Rules, Zenon
<1>. HIDE DEF tt, vtt, zz, vzz
<1>4. Fits(tt, vtt) /\ Basic(d, vd)
  BY ONLY <1>3, DonnaSizes, Rules, Zenon
<1>5. Stands(c, vc)
  BY ONLY <1>3, <1>4, DonnaSizes, Rules, Zenon
<1>. HIDE DEF c, vc, d, vd
<1>6. Basic(c, vc)
  BY ONLY <1>5, DonnaSizes, Rules, Zenon
<1>7. /\ Fits(D!curve25519_add_after_basic(d, c), Plus(vd, vc))
      /\ Fits(D!curve25519_sub_after_basic(d, c), Minus(vd, vc))
  BY ONLY <1>4, <1>6, DonnaSizes, Rules, Zenon
<1>. QED
  BY ONLY <1>2, <1>7, Zenon DEF Pairs, OnLimbs!add_p1p1, OnNumbers!add_p1p1, tt, vtt, zz, vzz, c, vc, d,
      vd

\* The sums that leave a point, or a point prepared for the next.
LEMMA Sums1 ==
    ASSUME DonnaSizes, Tight(ec2d)
    PROVE  \A p, q, v, w : Points(p, v) =>
              /\ Niels(q, w) => Points(OnLimbs!nielsadd2(p, q), OnNumbers!nielsadd2(v, w))
              /\ Pniels(q, w) => Pniels(OnLimbs!pnielsadd(p, q), OnNumbers!pnielsadd(v, w))
<1>1. ASSUME NEW p, NEW q, NEW v, NEW w, Points(p, v), Niels(q, w), NEW zz, NEW vzz, Stands(zz, vzz)
      PROVE  LET a == D!curve25519_mul(D!curve25519_sub(p.y, p.x), q.ysubx)
                 b == D!curve25519_mul(D!curve25519_add(p.y, p.x), q.xaddy)
                 c == D!curve25519_mul(p.t, q.t2d)
                 z2 == D!curve25519_add(zz, zz)
                 va == Times(Minus(v.y, v.x), w.ysubx)
                 vb == Times(Plus(v.y, v.x), w.xaddy)
                 vc == Times(v.t, w.t2d)
                 vz2 == Plus(vzz, vzz)
             IN  /\ Fits(D!curve25519_sub(b, a), Minus(vb, va))
                 /\ Fits(D!curve25519_add(b, a), Plus(vb, va))
                 /\ Fits(D!curve25519_add_after_basic(z2, c), Plus(vz2, vc))
                 /\ Fits(D!curve25519_sub_after_basic(z2, c), Minus(vz2, vc))
  <2>. DEFINE c == D!curve25519_mul(p.t, q.t2d)   vc == Times(v.t, w.t2d)
              z2 == D!curve25519_add(zz, zz)      vz2 == Plus(vzz, vzz)
  <2>1. LET a == D!curve25519_mul(D!curve25519_sub(p.y, p.x), q.ysubx)
            b == D!curve25519_mul(D!curve25519_add(p.y, p.x), q.xaddy)
            va == Times(Minus(v.y, v.x), w.ysubx)
            vb == Times(Plus(v.y, v.x), w.xaddy)
        IN  Fits(D!curve25519_sub(b, a), Minus(vb, va)) /\ Fits(D!curve25519_add(b, a), Plus(vb, va))
    <3>1. Fits(q.ysubx, w.ysubx) /\ Fits(q.xaddy, w.xaddy)
      BY ONLY <1>1, Zenon DEF Niels
    <3>. QED
      BY ONLY <1>1, <3>1, DonnaSizes, Halves, Zenon
  <2>2. Stands(c, vc)
    BY ONLY <1>1, DonnaSizes, Rules, Zenon DEF Niels, Points
  <2>. HIDE DEF c, vc
  <2>3. Basic(c, vc) /\ Basic(z2, vz2)
    BY ONLY <1>1, <2>2, DonnaSizes, Rules, Zenon
  <2>. HIDE DEF z2, vz2
  <2>4. /\ Fits(D!curve25519_add_after_basic(z2, c), Plus(vz2, vc))
        /\ Fits(D!curve25519_sub_after_basic(z2, c), Minus(vz2, vc))
    BY ONLY <2>3, DonnaSizes, Rules, Zenon
  <2>. QED
    BY ONLY <2>1, <2>4, Zenon DEF c, vc, z2, vz2
<1>2. ASSUME NEW p, NEW q, NEW v, NEW w, Points(p, v), Niels(q, w)
      PROVE  Points(OnLimbs!nielsadd2(p, q), OnNumbers!nielsadd2(v, w))
  <2>. DEFINE a == D!curve25519_mul(D!curve25519_sub(p.y, p.x), q.ysubx)
              va == Times(Minus(v.y, v.x), w.ysubx)
              b == D!curve25519_mul(D!curve25519_add(p.y, p.x), q.xaddy)
              vb == Times(Plus(v.y, v.x), w.xaddy)
              c == D!curve25519_mul(p.t, q.t2d)                              vc == Times(v.t, w.t2d)
              f == D!curve25519_sub_after_basic(D!curve25519_add(p.z, p.z), c)
              vf == Minus(Plus(v.z, v.z), vc)
              g == D!curve25519_add_after_basic(D!curve25519_add(p.z, p.z), c)
              vg == Plus(Plus(v.z, v.z), vc)
              e == D!curve25519_sub(b, a)    ve == Minus(vb, va)
              h == D!curve25519_add(b, a)    vh == Plus(vb, va)
  <2>1. Stands(p.z, v.z)
    BY ONLY <1>2, Zenon DEF Points
  <2>2. Fits(e, ve) /\ Fits(h, vh) /\ Fits(f, vf) /\ Fits(g, vg)
    BY ONLY <1>1, <1>2, <2>1, Zenon
  <2>. HIDE DEF e, f, g, h, ve, vf, vg, vh
  <2>3. /\ Stands(D!curve25519_mul(e, f), Times(ve, vf))
        /\ Stands(D!curve25519_mul(h, g), Times(vh, vg))
        /\ Stands(D!curve25519_mul(g, f), Times(vg, vf))
        /\ Stands(D!curve25519_mul(e, h), Times(ve, vh))
    BY ONLY <2>2, DonnaSizes, Rules, Zenon
  <2>. QED
    BY ONLY <2>3, Zenon DEF Points, OnLimbs!nielsadd2, OnNumbers!nielsadd2, e, f, g, h, ve, vf, vg, vh
<1>3. ASSUME NEW p, NEW q, NEW v, NEW w, Points(p, v), Pniels(q, w)
      PROVE  Pniels(OnLimbs!pnielsadd(p, q), OnNumbers!pnielsadd(v, w))
  <2>. DEFINE a == D!curve25519_mul(D!curve25519_sub(p.y, p.x), q.ysubx)
              va == Times(Minus(v.y, v.x), w.ysubx)
              b == D!curve25519_mul(D!curve25519_add(p.y, p.x), q.xaddy)
              vb == Times(Plus(v.y, v.x), w.xaddy)
              c == D!curve25519_mul(p.t, q.t2d)                              vc == Times(v.t, w.t2d)
              zz == D!curve25519_mul(p.z, q.z)                               vzz == Times(v.z, w.z)
              z == D!curve25519_add_after_basic(D!curve25519_add(zz, zz), c)
              vz == Plus(Plus(vzz, vzz), vc)
              t == D!curve25519_sub_after_basic(D!curve25519_add(zz, zz), c)
              vt == Minus(Plus(vzz, vzz), vc)
              e == D!curve25519_sub(b, a)    ve == Minus(vb, va)
              h == D!curve25519_add(b, a)    vh == Plus(vb, va)
              x == D!curve25519_mul(e, t)    vx == Times(ve, vt)
              y == D!curve25519_mul(h, z)    vy == Times(vh, vz)
              u == D!curve25519_mul(e, h)    vu == Times(ve, vh)
  <2>1. Stands(zz, vzz) /\ Niels(q, w)
    BY ONLY <1>3, DonnaSizes, Rules, Zenon DEF Points, Pniels
  <2>2. Fits(e, ve) /\ Fits(h, vh) /\ Fits(z, vz) /\ Fits(t, vt)
    <3>. HIDE DEF zz, vzz
    <3>. QED
      BY ONLY <1>1, <1>3, <2>1, Zenon
  <2>. HIDE DEF e, h, z, t, ve, vh, vz, vt
  <2>3. Stands(x, vx) /\ Stands(y, vy) /\ Stands(u, vu) /\ Stands(D!curve25519_mul(z, t), Times(vz, vt))
    BY ONLY <2>2, DonnaSizes, Rules, Zenon
  <2>. HIDE DEF x, y, u, vx, vy, vu
  <2>4. Fits(ec2d, Value5(ec2d))
    <3>1. Stands(ec2d, Value5(ec2d))
      BY ItsOwnNumber, Zenon
    <3>. QED
      BY ONLY <3>1, DonnaSizes, Rules, Zenon
  <2>5. Basic(D!curve25519_add(x, y), Plus(vx, vy)) /\ Basic(D!curve25519_sub(y, x), Minus(vy, vx))
        /\ Fits(u, vu)
    BY ONLY <2>3, DonnaSizes, Rules, Zenon
  <2>6. Stands(D!curve25519_mul(u, ec2d), Times(vu, Value5(ec2d)))
    BY ONLY <2>4, <2>5, DonnaSizes, Rules, Zenon
  <2>7. /\ Fits(D!curve25519_add(x, y), Plus(vx, vy)) /\ Fits(D!curve25519_sub(y, x), Minus(vy, vx))
        /\ Fits(D!curve25519_mul(z, t), Times(vz, vt))
        /\ Fits(D!curve25519_mul(u, ec2d), Times(vu, Value5(ec2d)))
    BY ONLY <2>3, <2>5, <2>6, DonnaSizes, Rules, Zenon
  <2>. QED
    BY ONLY <2>7, Zenon DEF Pniels, Niels, OnLimbs!pnielsadd, OnNumbers!pnielsadd,
       zz, x, y, u, e, h, z, t, vzz, vx, vy, vu, ve, vh, vz, vt
<1>. QED
  BY ONLY <1>2, <1>3, Zenon

\* The curve -x^2 + y^2 = 1 + d x^2 y^2 in points with T = XY / Z.
Numbers == [x : Int, y : Int, z : Int, t : Int]
curveD == Value5(ecd)
OnCurve(v) ==
    /\ v \in Numbers
    /\ Same5(v.y * v.y - v.x * v.x, v.z * v.z + curveD * (v.t * v.t)) /\ Same5(v.x * v.y, v.z * v.t)

\* The law of addition: the sum has x = E / G and y = H / F.
E(v, u) == v.x * u.y + v.y * u.x
F(v, u) == v.z * u.z - curveD * (v.t * u.t)
G(v, u) == v.z * u.z + curveD * (v.t * u.t)
H(v, u) == v.y * u.y + v.x * u.x

\* w is that sum, up to a factor of all coordinates that is a power of two.
IsSum(w, v, u) ==
    \E k \in {1, 4} :
        /\ Same5(w.x, k * (E(v, u) * F(v, u))) /\ Same5(w.y, k * (G(v, u) * H(v, u)))
        /\ Same5(w.z, k * (F(v, u) * G(v, u))) /\ Same5(w.t, k * (E(v, u) * H(v, u)))
Opposite(u) == [x |-> -u.x, y |-> u.y, z |-> u.z, t |-> -u.t]

\* What the law makes of two points of the curve is on the curve.
LEMMA LawOnCurve ==
    ASSUME Prime5 \in Int, curveD \in Int, NEW v, OnCurve(v), NEW u, OnCurve(u)
    PROVE  LET e == E(v, u)  f == F(v, u)  g == G(v, u)  h == H(v, u)
           IN  Same5((g * h) * (g * h) - (e * f) * (e * f),
               (f * g) * (f * g) + curveD * ((e * h) * (e * h)))
<1>1. v \in Numbers /\ u \in Numbers
  BY DEF OnCurve
<1>2. v.x \in Int /\ v.y \in Int /\ v.z \in Int /\ v.t \in Int /\ u.x \in Int /\ u.y \in Int
      /\ u.z \in Int /\ u.t \in Int
  BY ONLY <1>1 DEF Numbers
<1>3. /\ \E k \in Int : v.y * v.y - v.x * v.x = (v.z * v.z + curveD * (v.t * v.t)) + k * Prime5
      /\ \E k \in Int : u.y * u.y - u.x * u.x = (u.z * u.z + curveD * (u.t * u.t)) + k * Prime5
      /\ \E k \in Int : v.x * v.y = v.z * v.t + k * Prime5
      /\ \E k \in Int : u.x * u.y = u.z * u.t + k * Prime5
  BY Zenon DEF OnCurve, Same5
<1>4. PICK P \in Int, d \in Int, X1 \in Int, Y1 \in Int, Z1 \in Int, T1 \in Int,
           X2 \in Int, Y2 \in Int, Z2 \in Int, T2 \in Int :
         /\ P = Prime5 /\ d = curveD /\ X1 = v.x /\ Y1 = v.y /\ Z1 = v.z /\ T1 = v.t
         /\ X2 = u.x /\ Y2 = u.y /\ Z2 = u.z /\ T2 = u.t
  BY ONLY <1>2, Prime5 \in Int, curveD \in Int, Zenon
<1>5. PICK k1 \in Int : Y1 * Y1 - X1 * X1 = (Z1 * Z1 + d * (T1 * T1)) + k1 * P
  BY ONLY <1>3, <1>4, Zenon
<1>6. PICK k2 \in Int : Y2 * Y2 - X2 * X2 = (Z2 * Z2 + d * (T2 * T2)) + k2 * P
  BY ONLY <1>3, <1>4, Zenon
<1>7. PICK l1 \in Int : X1 * Y1 = Z1 * T1 + l1 * P
  BY ONLY <1>3, <1>4, Zenon
<1>8. PICK l2 \in Int : X2 * Y2 = Z2 * T2 + l2 * P
  BY ONLY <1>3, <1>4, Zenon
<1>9. /\ X1 * Y2 + Y1 * X2 \in Int /\ Y1 * Y2 + X1 * X2 \in Int
      /\ Z1 * Z2 - d * (T1 * T2) \in Int /\ Z1 * Z2 + d * (T1 * T2) \in Int
  OBVIOUS
<1>10. PICK e \in Int, f \in Int, g \in Int, h \in Int :
         /\ e = X1 * Y2 + Y1 * X2 /\ h = Y1 * Y2 + X1 * X2
         /\ f = Z1 * Z2 - d * (T1 * T2) /\ g = Z1 * Z2 + d * (T1 * T2)
  BY ONLY <1>9, Zenon
<1>. DEFINE m1 == Y1 * Y1 - X1 * X1          m2 == Y2 * Y2 - X2 * X2
            s1 == Y1 * Y1 + X1 * X1          s2 == Y2 * Y2 + X2 * X2
            u1 == X1 * Y1                    u2 == X2 * Y2
            n1 == Z1 * Z1 + d * (T1 * T1)    n2 == Z2 * Z2 + d * (T2 * T2)
            w1 == Z1 * T1                    w2 == Z2 * T2
            z == Z1 * Z2                     c == d * (T1 * T2)
            K == k1 * n2 + k2 * n1 + k1 * k2 * P
            N == l1 * w2 + l2 * w1 + l1 * l2 * P
<1>11. /\ m1 \in Int /\ m2 \in Int /\ s1 \in Int /\ s2 \in Int /\ u1 \in Int /\ u2 \in Int
      /\ n1 \in Int /\ n2 \in Int /\ w1 \in Int /\ w2 \in Int /\ z \in Int /\ c \in Int
  BY ONLY d \in Int, X1 \in Int, Y1 \in Int, Z1 \in Int, T1 \in Int, X2 \in Int, Y2 \in Int, Z2 \in Int,
          T2 \in Int, SMT
<1>12. h * h - e * e = m1 * m2 /\ h * h + e * e = s1 * s2 + 4 * (u1 * u2) /\ e * h = u1 * s2 + u2 * s1
  BY ONLY X1 \in Int, Y1 \in Int, X2 \in Int, Y2 \in Int, <1>10, SMT
<1>13. s1 * s1 = m1 * m1 + 4 * (u1 * u1) /\ s2 * s2 = m2 * m2 + 4 * (u2 * u2)
  BY ONLY X1 \in Int, Y1 \in Int, X2 \in Int, Y2 \in Int, SMT
<1>14. f = z - c /\ g = z + c
  BY ONLY <1>10
<1>15. /\ z * c = d * (w1 * w2) /\ z * z = (Z1 * Z1) * (Z2 * Z2)
      /\ (z * z + c * c) * (n1 * n2) + 8 * ((z * c) * (w1 * w2))
            = ((z - c) * (z + c)) * ((z - c) * (z + c))
              + d * ((w1 * w1) * (n2 * n2 + 4 * (w2 * w2)) + (w2 * w2) * (n1 * n1 + 4 * (w1 * w1)))
  BY ONLY d \in Int, Z1 \in Int, T1 \in Int, Z2 \in Int, T2 \in Int, SMT
<1>16. m1 = n1 + k1 * P /\ m2 = n2 + k2 * P /\ u1 = w1 + l1 * P /\ u2 = w2 + l2 * P
  BY ONLY <1>5, <1>6, <1>7, <1>8
<1>. HIDE DEF m1, m2, s1, s2, u1, u2, n1, n2, w1, w2, z, c
<1>17. K \in Int /\ N \in Int
  BY ONLY <1>11, P \in Int, k1 \in Int, k2 \in Int, l1 \in Int, l2 \in Int, SMT
<1>18. K \in Int /\ N \in Int /\ m1 * m2 = n1 * n2 + K * P /\ u1 * u2 = w1 * w2 + N * P
  BY ONLY <1>11, <1>16, P \in Int, k1 \in Int, k2 \in Int, l1 \in Int, l2 \in Int, SMT
<1>. HIDE DEF K, N
<1>19. (g * h) * (g * h) - (e * f) * (e * f)
        = (z * z + c * c) * (h * h - e * e) + 2 * ((z * c) * (h * h + e * e))
  BY ONLY <1>11, <1>14, e \in Int, h \in Int, SMT
<1>20. (g * h) * (g * h) - (e * f) * (e * f)
        = (z * z + c * c) * (n1 * n2) + 2 * ((z * c) * (s1 * s2)) + 8 * ((z * c) * (w1 * w2))
          + ((z * z + c * c) * K + 8 * ((z * c) * N)) * P
  <2>1. (g * h) * (g * h) - (e * f) * (e * f)
          = (z * z + c * c) * (n1 * n2 + K * P) + 2 * ((z * c) * (s1 * s2 + 4 * (w1 * w2 + N * P)))
    BY ONLY <1>12, <1>18, <1>19, Zenon
  <2>2. (z * z + c * c) * (n1 * n2 + K * P) + 2 * ((z * c) * (s1 * s2 + 4 * (w1 * w2 + N * P)))
          = (z * z + c * c) * (n1 * n2) + 2 * ((z * c) * (s1 * s2)) + 8 * ((z * c) * (w1 * w2))
            + ((z * z + c * c) * K + 8 * ((z * c) * N)) * P
    BY ONLY <1>11, <1>17, P \in Int, SMT
  <2>. QED
    BY ONLY <2>1, <2>2, Zenon
<1>. DEFINE q == w1 * s2 + w2 * s1    b == l1 * s2 + l2 * s1
<1>21. e * h = q + b * P
  BY ONLY <1>11, <1>12, <1>16, P \in Int, l1 \in Int, l2 \in Int, SMT
<1>22. /\ q \in Int /\ b \in Int
       /\ q * q = (w1 * w1) * (s2 * s2) + (w2 * w2) * (s1 * s1) + 2 * ((w1 * w2) * (s1 * s2))
  BY ONLY <1>11, l1 \in Int, l2 \in Int, SMT
<1>. HIDE DEF q, b
<1>23. (e * h) * (e * h) = q * q + (2 * (q * b) + b * b * P) * P
  <2>1. (q + b * P) * (q + b * P) = q * q + (2 * (q * b) + b * b * P) * P
    <3>1. q \in Int /\ b \in Int
      BY ONLY <1>22
    <3>. QED
      BY ONLY <3>1, P \in Int, SMT
  <2>. QED
    BY ONLY <1>21, <2>1, Zenon
<1>. DEFINE a1 == 2 * (n1 * k1) + k1 * k1 * P + 4 * (2 * (w1 * l1) + l1 * l1 * P)
            a2 == 2 * (n2 * k2) + k2 * k2 * P + 4 * (2 * (w2 * l2) + l2 * l2 * P)
<1>24. /\ a1 \in Int /\ a2 \in Int
       /\ s1 * s1 = n1 * n1 + 4 * (w1 * w1) + a1 * P /\ s2 * s2 = n2 * n2 + 4 * (w2 * w2) + a2 * P
  BY ONLY <1>11, <1>13, <1>16, P \in Int, k1 \in Int, k2 \in Int, l1 \in Int, l2 \in Int, SMT
<1>. HIDE DEF a1, a2
<1>. DEFINE rest == (w1 * w1) * a2 + (w2 * w2) * a1 + 2 * (q * b) + b * b * P
            above == (z * z + c * c) * K + 8 * ((z * c) * N)
<1>25. rest \in Int /\ above \in Int /\ above - d * rest \in Int
  BY ONLY <1>11, <1>18, <1>22, <1>24, P \in Int, d \in Int, SMT
<1>26. (e * h) * (e * h) = (w1 * w1) * (n2 * n2 + 4 * (w2 * w2)) + (w2 * w2) * (n1 * n1 + 4 * (w1 * w1))
                           + 2 * ((w1 * w2) * (s1 * s2)) + rest * P
  <2>1. (e * h) * (e * h)
          = (w1 * w1) * (n2 * n2 + 4 * (w2 * w2) + a2 * P)
              + (w2 * w2) * (n1 * n1 + 4 * (w1 * w1) + a1 * P)
            + 2 * ((w1 * w2) * (s1 * s2)) + (2 * (q * b) + b * b * P) * P
    BY ONLY <1>22, <1>23, <1>24, Zenon
  <2>2. (w1 * w1) * (n2 * n2 + 4 * (w2 * w2) + a2 * P) + (w2 * w2) * (n1 * n1 + 4 * (w1 * w1) + a1 * P)
            + 2 * ((w1 * w2) * (s1 * s2)) + (2 * (q * b) + b * b * P) * P
          = (w1 * w1) * (n2 * n2 + 4 * (w2 * w2)) + (w2 * w2) * (n1 * n1 + 4 * (w1 * w1))
            + 2 * ((w1 * w2) * (s1 * s2)) + rest * P
    <3>1. a1 \in Int /\ a2 \in Int /\ q \in Int /\ b \in Int
      BY ONLY <1>22, <1>24
    <3>. QED
      BY ONLY <1>11, <3>1, P \in Int, SMT
  <2>. QED
    BY ONLY <2>1, <2>2, Zenon
<1>. HIDE DEF rest, above
<1>27. (f * g) * (f * g) + d * ((e * h) * (e * h))
         = (z * z + c * c) * (n1 * n2) + 8 * ((z * c) * (w1 * w2)) + 2 * ((z * c) * (s1 * s2))
             + d * rest * P
  <2>. DEFINE y == (w1 * w1) * (n2 * n2 + 4 * (w2 * w2)) + (w2 * w2) * (n1 * n1 + 4 * (w1 * w1))
              r == w1 * w2     s == s1 * s2     p == z * c
              x == ((z - c) * (z + c)) * ((z - c) * (z + c))
              m == (z * z + c * c) * (n1 * n2)
  <2>1. y \in Int /\ r \in Int /\ s \in Int /\ p \in Int /\ x \in Int /\ m \in Int
    BY ONLY <1>11, SMT
  <2>2. (e * h) * (e * h) = y + 2 * (r * s) + rest * P
    BY ONLY <1>26
  <2>3. p = d * r /\ m + 8 * (p * r) = x + d * y
    BY ONLY <1>15
  <2>4. (f * g) * (f * g) = x
    BY ONLY <1>14, Zenon
  <2>5. rest \in Int
    BY ONLY <1>25
  <2>. HIDE DEF y, r, s, p, x, m
  <2>6. x + d * (y + 2 * (r * s) + rest * P) = (x + d * y) + 2 * ((d * r) * s) + d * rest * P
    BY ONLY <2>1, <2>5, d \in Int, P \in Int, SMT
  <2>7. (f * g) * (f * g) + d * ((e * h) * (e * h)) = m + 8 * (p * r) + 2 * (p * s) + d * rest * P
    BY ONLY <2>2, <2>3, <2>4, <2>6, Zenon
  <2>. QED
    BY ONLY <2>7, Zenon DEF r, s, p, m
<1>28. (g * h) * (g * h) - (e * f) * (e * f)
         = ((f * g) * (f * g) + d * ((e * h) * (e * h))) + (above - d * rest) * P
  <2>. DEFINE m == (z * z + c * c) * (n1 * n2)
              p == 8 * ((z * c) * (w1 * w2))  s == 2 * ((z * c) * (s1 * s2))
  <2>1. m \in Int /\ p \in Int /\ s \in Int
    BY ONLY <1>11, SMT
  <2>2. (g * h) * (g * h) - (e * f) * (e * f) = m + s + p + above * P
    BY ONLY <1>20, Zenon DEF above
  <2>3. (f * g) * (f * g) + d * ((e * h) * (e * h)) = m + p + s + d * rest * P
    BY ONLY <1>27
  <2>. HIDE DEF m, p, s
  <2>4. m + s + p + above * P = (m + p + s + d * rest * P) + (above - d * rest) * P
    BY ONLY <2>1, <1>25, P \in Int, d \in Int, SMT
  <2>. QED
    BY ONLY <2>2, <2>3, <2>4, Zenon
<1>29. \E k \in Int : (g * h) * (g * h) - (e * f) * (e * f)
                        = ((f * g) * (f * g) + d * ((e * h) * (e * h))) + k * P
  BY ONLY <1>25, <1>28, Zenon
<1>. QED
  BY ONLY <1>4, <1>10, <1>29, Zenon DEF Same5, E, F, G, H

\* Two fractions that are those of the law, or twice them, make a point of the
\* curve, the sum.
LEMMA FullOnCurve ==
    ASSUME Prime5 \in Int, curveD \in Int, NEW v, OnCurve(v), NEW u, OnCurve(u),
           NEW r \in Numbers, NEW k \in {1, 2},
           Same5(r.x, k * E(v, u)), Same5(r.y, k * H(v, u)), Same5(r.z, k * G(v, u)),
               Same5(r.t, k * F(v, u))
    PROVE  OnCurve(OnNumbers!p1p1_to_full(r)) /\ IsSum(OnNumbers!p1p1_to_full(r), v, u)
<1>1. LET e == E(v, u)  f == F(v, u)  g == G(v, u)  h == H(v, u)
      IN  Same5((g * h) * (g * h) - (e * f) * (e * f), (f * g) * (f * g) + curveD * ((e * h) * (e * h)))
  BY LawOnCurve, Zenon
<1>2. /\ v.x \in Int /\ v.y \in Int /\ v.z \in Int /\ v.t \in Int
      /\ u.x \in Int /\ u.y \in Int /\ u.z \in Int /\ u.t \in Int
      /\ r.x \in Int /\ r.y \in Int /\ r.z \in Int /\ r.t \in Int
  BY DEF OnCurve, Numbers
<1>3. E(v, u) \in Int /\ F(v, u) \in Int /\ G(v, u) \in Int /\ H(v, u) \in Int
  BY ONLY <1>2, curveD \in Int DEF E, F, G, H
<1>4. PICK d \in Int : d = curveD
  BY Zenon
<1>5. Prime5 \in Int
  OBVIOUS
<1>6. PICK e \in Int, f \in Int, g \in Int, h \in Int : e = E(v, u) /\ f = F(v, u) /\ g = G(v, u)
      /\ h = H(v, u)
  BY ONLY <1>3, Zenon
<1>7. PICK x \in Int, y \in Int, z \in Int, t \in Int : x = r.x /\ y = r.y /\ z = r.z /\ t = r.t
  BY ONLY <1>2, Zenon
<1>8. Same5(x, k * e) /\ Same5(y, k * h) /\ Same5(z, k * g) /\ Same5(t, k * f)
  BY ONLY <1>6, <1>7, Same5(r.x, k * E(v, u)), Same5(r.y, k * H(v, u)), Same5(r.z, k * G(v, u)),
      Same5(r.t, k * F(v, u)), Zenon
<1>9. k \in {1, 2} /\ k \in Int
  OBVIOUS
<1>. DEFINE kk == k * k  a == e * f  b == g * h  c == f * g  m == e * h
            X == x * t   Y == y * z  Z == z * t  T == x * y
<1>10. /\ kk \in Int /\ a \in Int /\ b \in Int /\ c \in Int /\ m \in Int
      /\ X \in Int /\ Y \in Int /\ Z \in Int /\ T \in Int
      /\ k * e \in Int /\ k * f \in Int /\ k * g \in Int /\ k * h \in Int
  BY ONLY <1>9, e \in Int, f \in Int, g \in Int, h \in Int, x \in Int, y \in Int, z \in Int, t \in Int
<1>11. /\ (k * e) * (k * f) = kk * a /\ (k * h) * (k * g) = kk * b
      /\ (k * g) * (k * f) = kk * c /\ (k * e) * (k * h) = kk * m
      /\ X * Y = Z * T
  BY ONLY <1>9, e \in Int, f \in Int, g \in Int, h \in Int, x \in Int, y \in Int, z \in Int, t \in Int,
      SMT
<1>12. \A i, j, m1, n1 \in Int :
         Same5(i, j) /\ Same5(m1, n1) => Same5(i + m1, j + n1) /\ Same5(i - m1, j - n1) /\ Same5(i * m1, j * n1)
  BY ONLY <1>5, SameIs
<1>13. (\A i \in Int : Same5(i, i)) /\ (\A i, j, m1 \in Int : Same5(i, j) /\ Same5(j, m1) => Same5(i, m1))
      /\ \A i, j \in Int : Same5(i, j) => Same5(j, i)
  BY ONLY <1>5, SameIs
<1>14. Same5(X, kk * a) /\ Same5(Y, kk * b) /\ Same5(Z, kk * c) /\ Same5(T, kk * m)
  <2>1. Same5(X, (k * e) * (k * f)) /\ Same5(Y, (k * h) * (k * g)) /\ Same5(Z, (k * g) * (k * f))
        /\ Same5(T, (k * e) * (k * h))
    BY ONLY <1>10, <1>12, x \in Int, y \in Int, z \in Int, t \in Int, <1>8, Zenon
  <2>. QED
    BY ONLY <1>11, <2>1
<1>15. Same5(b * b - a * a, c * c + d * (m * m))
  BY ONLY <1>1, <1>4, <1>6, Zenon
<1>. HIDE DEF kk, a, b, c, m, X, Y, Z, T
<1>16. /\ kk * a \in Int /\ kk * b \in Int /\ kk * c \in Int /\ kk * m \in Int
      /\ X * X \in Int /\ Y * Y \in Int /\ Z * Z \in Int /\ T * T \in Int /\ X * Y \in Int
      /\ (kk * a) * (kk * a) \in Int /\ (kk * b) * (kk * b) \in Int /\ (kk * c) * (kk * c) \in Int
      /\ (kk * m) * (kk * m) \in Int
  BY ONLY <1>10
<1>17. /\ Same5(X * X, (kk * a) * (kk * a)) /\ Same5(Y * Y, (kk * b) * (kk * b))
      /\ Same5(Z * Z, (kk * c) * (kk * c)) /\ Same5(T * T, (kk * m) * (kk * m))
  BY ONLY <1>10, <1>12, <1>14, <1>16, Zenon
<1>18. /\ d * (T * T) \in Int /\ d * ((kk * m) * (kk * m)) \in Int
      /\ Y * Y - X * X \in Int /\ (kk * b) * (kk * b) - (kk * a) * (kk * a) \in Int
  BY ONLY <1>16, d \in Int
<1>19. Same5(d * (T * T), d * ((kk * m) * (kk * m)))
  BY ONLY <1>12, <1>13, <1>16, <1>17, d \in Int, Zenon
<1>20. /\ Same5(Y * Y - X * X, (kk * b) * (kk * b) - (kk * a) * (kk * a))
       /\ Same5(Z * Z + d * (T * T), (kk * c) * (kk * c) + d * ((kk * m) * (kk * m)))
  BY ONLY <1>12, <1>16, <1>17, <1>18, <1>19, Zenon
<1>21. /\ (kk * b) * (kk * b) - (kk * a) * (kk * a) = (kk * kk) * (b * b - a * a)
       /\ (kk * c) * (kk * c) + d * ((kk * m) * (kk * m)) = (kk * kk) * (c * c + d * (m * m))
       /\ kk * kk \in Int /\ b * b - a * a \in Int /\ c * c + d * (m * m) \in Int
       /\ Z * Z + d * (T * T) \in Int /\ (kk * c) * (kk * c) + d * ((kk * m) * (kk * m)) \in Int
  BY ONLY <1>10, d \in Int, SMT
<1>22. Same5((kk * kk) * (b * b - a * a), (kk * kk) * (c * c + d * (m * m)))
  BY ONLY <1>12, <1>13, <1>15, <1>21, Zenon
<1>23. Same5((kk * b) * (kk * b) - (kk * a) * (kk * a), (kk * c) * (kk * c) + d * ((kk * m) * (kk * m)))
  BY ONLY <1>21, <1>22
<1>24. Same5(Y * Y - X * X, Z * Z + d * (T * T))
  <2>. DEFINE left == Y * Y - X * X
              middle == (kk * b) * (kk * b) - (kk * a) * (kk * a)
              other == (kk * c) * (kk * c) + d * ((kk * m) * (kk * m))
              right == Z * Z + d * (T * T)
  <2>1. left \in Int /\ middle \in Int /\ other \in Int /\ right \in Int
    BY ONLY <1>18, <1>21
  <2>2. Same5(left, middle) /\ Same5(middle, other) /\ Same5(right, other)
    BY ONLY <1>20, <1>23
  <2>. HIDE DEF left, middle, other, right
  <2>3. Same5(left, other) /\ Same5(other, right)
    BY ONLY <1>13, <2>1, <2>2, Zenon
  <2>4. \A i, j, m1 \in Int : Same5(i, j) /\ Same5(j, m1) => Same5(i, m1)
    BY ONLY <1>13, Zenon
  <2>5. Same5(left, right)
    BY ONLY <2>1, <2>3, <2>4, Zenon
  <2>. QED
    BY ONLY <2>5, Zenon DEF left, right
<1>25. Same5(X * Y, Z * T)
  BY ONLY <1>11, <1>13, <1>16, Zenon
<1>. QED
  <2>1. /\ Same5(x * t, k * k * (e * f)) /\ Same5(y * z, k * k * (g * h))
        /\ Same5(z * t, k * k * (f * g)) /\ Same5(x * y, k * k * (e * h))
        /\ Same5((y * z) * (y * z) - (x * t) * (x * t), (z * t) * (z * t) + d * ((x * y) * (x * y)))
        /\ Same5((x * t) * (y * z), (z * t) * (x * y))
    BY ONLY <1>14, <1>24, <1>25, Zenon DEF kk, a, b, c, m, X, Y, Z, T
  <2>. DEFINE w == [x |-> x * t, y |-> y * z, z |-> z * t, t |-> x * y]
  <2>2. OnNumbers!p1p1_to_full(r) = w
    BY ONLY <1>7, Zenon DEF OnNumbers!p1p1_to_full, Times
  <2>3. w \in Numbers
    BY ONLY x \in Int, y \in Int, z \in Int, t \in Int DEF Numbers
  <2>4. k * k \in {1, 4}
    BY ONLY <1>9
  <2>5. OnCurve(w)
    BY ONLY <1>4, <2>1, <2>3, Zenon DEF OnCurve
  <2>6. IsSum(w, v, u)
    BY ONLY <1>6, <2>1, <2>4, Zenon DEF IsSum
  <2>. QED
    BY ONLY <2>2, <2>5, <2>6

\* The fractions the formulas of a sum make, c being 2d times both Ts.
SumPair(v, u, c) ==
    LET a == (v.y - v.x) * (u.y - u.x)
        b == (v.y + v.x) * (u.y + u.x)
        zz == v.z * u.z
    IN  [x |-> b - a, y |-> b + a, z |-> (zz + zz) + c, t |-> (zz + zz) - c]

\* These fractions are the sum's.
LEMMA SumPairRight ==
    ASSUME Prime5 \in Int, curveD \in Int, NEW v, OnCurve(v), NEW u, OnCurve(u),
           NEW c \in Int, Same5(c, 2 * (curveD * (v.t * u.t)))
    PROVE  LET w == OnNumbers!p1p1_to_full(SumPair(v, u, c))
           IN  SumPair(v, u, c) \in Numbers /\ OnCurve(w) /\ IsSum(w, v, u)
<1>. DEFINE r == SumPair(v, u, c)
<1>1. /\ v.x \in Int /\ v.y \in Int /\ v.z \in Int /\ v.t \in Int
      /\ u.x \in Int /\ u.y \in Int /\ u.z \in Int /\ u.t \in Int
  BY DEF OnCurve, Numbers
<1>2. /\ r.x = (v.y + v.x) * (u.y + u.x) - (v.y - v.x) * (u.y - u.x)
      /\ r.y = (v.y + v.x) * (u.y + u.x) + (v.y - v.x) * (u.y - u.x)
      /\ r.z = (v.z * u.z + v.z * u.z) + c /\ r.t = (v.z * u.z + v.z * u.z) - c
      /\ r \in Numbers
  <2>1. /\ (v.y + v.x) * (u.y + u.x) - (v.y - v.x) * (u.y - u.x) \in Int
        /\ (v.y + v.x) * (u.y + u.x) + (v.y - v.x) * (u.y - u.x) \in Int
        /\ (v.z * u.z + v.z * u.z) + c \in Int /\ (v.z * u.z + v.z * u.z) - c \in Int
    BY ONLY <1>1, c \in Int
  <2>. QED
    BY ONLY <2>1 DEF SumPair, Numbers
<1>. HIDE DEF r
<1>3. r.x = 2 * E(v, u) /\ r.y = 2 * H(v, u)
  BY ONLY <1>1, <1>2, SMT DEF E, H
<1>4. E(v, u) \in Int /\ F(v, u) \in Int /\ G(v, u) \in Int /\ H(v, u) \in Int
  BY ONLY <1>1, curveD \in Int DEF E, F, G, H
<1>5. /\ 2 * (curveD * (v.t * u.t)) \in Int /\ v.z * u.z + v.z * u.z \in Int
      /\ (v.z * u.z + v.z * u.z) + 2 * (curveD * (v.t * u.t)) = 2 * G(v, u)
      /\ (v.z * u.z + v.z * u.z) - 2 * (curveD * (v.t * u.t)) = 2 * F(v, u)
      /\ 2 * E(v, u) \in Int /\ 2 * H(v, u) \in Int
  BY ONLY <1>1, <1>4, curveD \in Int, SMT DEF F, G
<1>6. /\ \A i \in Int : Same5(i, i)
      /\ \A i, j, k, l \in Int : Same5(i, j) /\ Same5(k, l) => Same5(i + k, j + l)
         /\ Same5(i - k, j - l)
  BY ONLY Prime5 \in Int, SameIs
<1>7. Same5(r.x, 2 * E(v, u)) /\ Same5(r.y, 2 * H(v, u))
  BY ONLY <1>3, <1>5, <1>6, Zenon
<1>8. Same5(r.z, 2 * G(v, u)) /\ Same5(r.t, 2 * F(v, u))
  <2>. DEFINE zz == v.z * u.z + v.z * u.z  dd == 2 * (curveD * (v.t * u.t))
  <2>1. zz \in Int /\ dd \in Int /\ c \in Int /\ Same5(c, dd)
    BY ONLY <1>5, c \in Int, Same5(c, 2 * (curveD * (v.t * u.t)))
  <2>2. r.z = zz + c /\ r.t = zz - c
    BY ONLY <1>2
  <2>3. 2 * G(v, u) = zz + dd /\ 2 * F(v, u) = zz - dd
    BY ONLY <1>5
  <2>. HIDE DEF zz, dd
  <2>4. Same5(zz + c, zz + dd) /\ Same5(zz - c, zz - dd)
    BY ONLY <1>6, <2>1, Zenon
  <2>. QED
    BY ONLY <2>2, <2>3, <2>4
<1>9. OnCurve(OnNumbers!p1p1_to_full(r)) /\ IsSum(OnNumbers!p1p1_to_full(r), v, u)
  BY ONLY <1>2, <1>7, <1>8, Prime5 \in Int, curveD \in Int, OnCurve(v), OnCurve(u), 2 \in {1, 2},
      FullOnCurve
<1>. QED
  BY ONLY <1>2, <1>9, Zenon DEF r

\* A doubling makes them, too.
LEMMA DoublePairRight ==
    ASSUME Prime5 \in Int, curveD \in Int, NEW v, OnCurve(v)
    PROVE  LET r == OnNumbers!double_p1p1(v)
               w == OnNumbers!p1p1_to_full(r)
           IN  r \in Numbers /\ OnCurve(w) /\ IsSum(w, v, v)
<1>. DEFINE r == OnNumbers!double_p1p1(v)
<1>1. v.x \in Int /\ v.y \in Int /\ v.z \in Int /\ v.t \in Int
  BY DEF OnCurve, Numbers
<1>. DEFINE xx == v.x * v.x  yy == v.y * v.y  zz == v.z * v.z
<1>2. r = [x |-> (v.x + v.y) * (v.x + v.y) - (yy + xx), y |-> yy + xx, z |-> yy - xx,
           t |-> (zz + zz) - (yy - xx)]
  BY Zenon DEF OnNumbers!double_p1p1, Plus, Minus, Squared
<1>3. /\ xx \in Int /\ yy \in Int /\ zz \in Int /\ (v.x + v.y) * (v.x + v.y) - (yy + xx) \in Int
      /\ (v.x + v.y) * (v.x + v.y) - (yy + xx) = 1 * E(v, v) /\ yy + xx = 1 * H(v, v)
  BY ONLY <1>1, SMT DEF E, H
<1>. DEFINE dd == curveD * (v.t * v.t)
<1>4. dd \in Int /\ 1 * G(v, v) = zz + dd /\ 1 * F(v, v) = zz - dd
  BY ONLY <1>1, curveD \in Int, SMT DEF F, G
<1>5. Same5(yy - xx, zz + dd)
  BY Zenon DEF OnCurve
<1>. HIDE DEF r, xx, yy, zz, dd
<1>6. /\ yy - xx \in Int /\ yy + xx \in Int /\ zz + dd \in Int /\ zz + zz \in Int
      /\ (zz + zz) - (yy - xx) \in Int
      /\ (zz + zz) - (zz + dd) = zz - dd
  BY ONLY <1>3, <1>4
<1>7. r \in Numbers /\ r.x = 1 * E(v, v) /\ r.y = 1 * H(v, v) /\ r.z = yy - xx
      /\ r.t = (zz + zz) - (yy - xx)
  BY ONLY <1>2, <1>3, <1>6 DEF Numbers
<1>8. /\ \A i \in Int : Same5(i, i)
      /\ \A i, j, k, l \in Int : Same5(i, j) /\ Same5(k, l) => Same5(i - k, j - l)
  BY ONLY Prime5 \in Int, SameIs
<1>9. r.x \in Int /\ r.y \in Int
  BY ONLY <1>7 DEF Numbers
<1>10. Same5(r.x, 1 * E(v, v)) /\ Same5(r.y, 1 * H(v, v))
  BY ONLY <1>7, <1>8, <1>9, Zenon
<1>11. Same5((zz + zz) - (yy - xx), (zz + zz) - (zz + dd))
  BY ONLY <1>5, <1>6, <1>8, Zenon
<1>12. Same5(r.z, 1 * G(v, v)) /\ Same5(r.t, 1 * F(v, v))
  BY ONLY <1>4, <1>5, <1>6, <1>7, <1>11
<1>13. OnCurve(OnNumbers!p1p1_to_full(r)) /\ IsSum(OnNumbers!p1p1_to_full(r), v, v)
  BY ONLY <1>7, <1>10, <1>12, Prime5 \in Int, curveD \in Int, OnCurve(v), 1 \in {1, 2}, FullOnCurve
<1>. QED
  BY ONLY <1>7, <1>13, Zenon DEF r

\* A point with Z = 1 prepared for an addition, as the tables have it.
NielsOf(u) == [ysubx |-> u.y - u.x, xaddy |-> u.y + u.x, t2d |-> 2 * (curveD * u.t)]

\* The formulas all make the fractions of a sum.
LEMMA Formulas ==
    ASSUME Value5(ec2d) \in Int, curveD \in Int, NEW v \in Numbers, NEW u \in Numbers
    PROVE  LET c == v.t * (u.t * Value5(ec2d))
               n == v.t * (2 * (curveD * u.t))
               o == Opposite(u)
               q == OnNumbers!full_to_pniels(u)
           IN  /\ OnNumbers!add_p1p1(v, u) = SumPair(v, u, (v.t * u.t) * Value5(ec2d))
               /\ OnNumbers!pnielsadd_p1p1(v, q, 0) = SumPair(v, u, c)
               /\ OnNumbers!ge_pnielsadd_p1p1(v, q, 0) = SumPair(v, u, c)
               /\ OnNumbers!pnielsadd_p1p1(v, q, 1) = SumPair(v, o, -c)
               /\ OnNumbers!ge_pnielsadd_p1p1(v, q, 1) = SumPair(v, o, -c)
               /\ OnNumbers!pnielsadd(v, q)
                    = OnNumbers!full_to_pniels(OnNumbers!p1p1_to_full(SumPair(v, u, c)))
               /\ u.z = 1 => /\ OnNumbers!nielsadd2(v, NielsOf(u))
                                  = OnNumbers!p1p1_to_full(SumPair(v, u, n))
                             /\ OnNumbers!nielsadd2_p1p1(v, NielsOf(u), 0) = SumPair(v, u, n)
                             /\ OnNumbers!nielsadd2_p1p1(v, NielsOf(u), 1) = SumPair(v, o, -n)
<1>. DEFINE c == v.t * (u.t * Value5(ec2d))
            n == v.t * (2 * (curveD * u.t))
            o == Opposite(u)
            q == OnNumbers!full_to_pniels(u)
<1>1. /\ v.x \in Int /\ v.y \in Int /\ v.z \in Int /\ v.t \in Int
      /\ u.x \in Int /\ u.y \in Int /\ u.z \in Int /\ u.t \in Int
  BY DEF Numbers
<1>2. o.x = -u.x /\ o.y = u.y /\ o.z = u.z /\ o.t = -u.t
  BY DEF Numbers, Opposite
<1>3. q = [ysubx |-> u.y - u.x, xaddy |-> u.y + u.x, z |-> u.z, t2d |-> u.t * Value5(ec2d)]
  BY Zenon DEF OnNumbers!full_to_pniels, Plus, Minus, Times
<1>4. c \in Int /\ n \in Int
  BY ONLY <1>1, Value5(ec2d) \in Int, curveD \in Int
<1>5. OnNumbers!add_p1p1(v, u) = SumPair(v, u, (v.t * u.t) * Value5(ec2d))
  BY Zenon DEF OnNumbers!add_p1p1, SumPair, Plus, Minus, Times
<1>. DEFINE zz == v.z * u.z
            a == (v.y - v.x) * (u.y - u.x)  b == (v.y + v.x) * (u.y + u.x)
            a1 == (v.y - v.x) * (u.y + u.x)  b1 == (v.y + v.x) * (u.y - u.x)
<1>6. zz \in Int /\ a \in Int /\ b \in Int /\ a1 \in Int /\ b1 \in Int
  BY ONLY <1>1
<1>7. \A e : SumPair(v, u, e) = [x |-> b - a, y |-> b + a, z |-> (zz + zz) + e, t |-> (zz + zz) - e]
  BY Zenon DEF SumPair
<1>8. ASSUME NEW e \in Int
      PROVE  SumPair(v, o, -e) = [x |-> b1 - a1, y |-> b1 + a1, z |-> (zz + zz) - e,
          t |-> (zz + zz) + e]
  <2>1. SumPair(v, o, -e) = [x |-> (v.y + v.x) * (o.y + o.x) - (v.y - v.x) * (o.y - o.x),
                             y |-> (v.y + v.x) * (o.y + o.x) + (v.y - v.x) * (o.y - o.x),
                             z |-> (v.z * o.z + v.z * o.z) + -e, t |-> (v.z * o.z + v.z * o.z) - -e]
    BY Zenon DEF SumPair
  <2>2. o.y + o.x = u.y - u.x /\ o.y - o.x = u.y + u.x
        /\ (zz + zz) + -e = (zz + zz) - e /\ (zz + zz) - -e = (zz + zz) + e
    BY ONLY <1>1, <1>2, <1>6, e \in Int
  <2>. QED
    BY ONLY <1>2, <2>1, <2>2, Zenon
<1>9. ASSUME NEW zz2, NEW w, w.ysubx = u.y - u.x, w.xaddy = u.y + u.x, NEW e, e = v.t * w.t2d
      PROVE  /\ OnNumbers!WithSign(v, w, 0, zz2) = [x |-> b - a, y |-> b + a, z |-> zz2 + e,
                  t |-> zz2 - e]
             /\ OnNumbers!WithSign(v, w, 1, zz2) = [x |-> b1 - a1, y |-> b1 + a1, z |-> zz2 - e,
                  t |-> zz2 + e]
  <2>1. 0 = 0 /\ 1 # 0
    OBVIOUS
  <2>. QED
    BY ONLY <1>9, <2>1, Zenon DEF OnNumbers!WithSign, Plus, Minus, Times
<1>10. q.ysubx = u.y - u.x /\ q.xaddy = u.y + u.x /\ q.z = u.z /\ q.t2d = u.t * Value5(ec2d)
       /\ c = v.t * q.t2d
  BY ONLY <1>3
<1>. HIDE DEF c, n, o, q
<1>11. /\ OnNumbers!pnielsadd_p1p1(v, q, 0) = SumPair(v, u, c)
       /\ OnNumbers!pnielsadd_p1p1(v, q, 1) = SumPair(v, o, -c)
  <2>1. OnNumbers!pnielsadd_p1p1(v, q, 0) = OnNumbers!WithSign(v, q, 0, zz + zz)
        /\ OnNumbers!pnielsadd_p1p1(v, q, 1) = OnNumbers!WithSign(v, q, 1, zz + zz)
    BY ONLY <1>10, Zenon DEF OnNumbers!pnielsadd_p1p1, Plus, Times
  <2>. HIDE DEF zz, a, b, a1, b1
  <2>2. SumPair(v, o, -c) = [x |-> b1 - a1, y |-> b1 + a1, z |-> (zz + zz) - c, t |-> (zz + zz) + c]
    BY ONLY <1>4, <1>8, Zenon
  <2>3. /\ OnNumbers!WithSign(v, q, 0, zz + zz) = [x |-> b - a, y |-> b + a, z |-> (zz + zz) + c,
             t |-> (zz + zz) - c]
        /\ OnNumbers!WithSign(v, q, 1, zz + zz) = [x |-> b1 - a1, y |-> b1 + a1, z |-> (zz + zz) - c,
             t |-> (zz + zz) + c]
    BY ONLY <1>9, <1>10, Zenon
  <2>. QED
    BY ONLY <1>7, <2>1, <2>2, <2>3, Zenon
<1>12. /\ OnNumbers!ge_pnielsadd_p1p1(v, q, 0) = SumPair(v, u, c)
       /\ OnNumbers!ge_pnielsadd_p1p1(v, q, 1) = SumPair(v, o, -c)
  <2>1. 0 = 0 /\ 1 # 0
    OBVIOUS
  <2>2. /\ OnNumbers!ge_pnielsadd_p1p1(v, q, 0) = [x |-> b - a, y |-> b + a, z |-> (zz + zz) + c,
             t |-> (zz + zz) - c]
        /\ OnNumbers!ge_pnielsadd_p1p1(v, q, 1) = [x |-> b1 - a1, y |-> b1 + a1, z |-> (zz + zz) - c,
             t |-> (zz + zz) + c]
    BY ONLY <1>10, <2>1, Zenon DEF OnNumbers!ge_pnielsadd_p1p1, Plus, Minus, Times
  <2>. HIDE DEF zz, a, b, a1, b1
  <2>3. SumPair(v, o, -c) = [x |-> b1 - a1, y |-> b1 + a1, z |-> (zz + zz) - c, t |-> (zz + zz) + c]
    BY ONLY <1>4, <1>8, Zenon
  <2>. QED
    BY ONLY <1>7, <2>2, <2>3, Zenon
<1>13. OnNumbers!pnielsadd(v, q) = OnNumbers!full_to_pniels(OnNumbers!p1p1_to_full(SumPair(v, u, c)))
  <2>. DEFINE x == (b - a) * ((zz + zz) - c)  y == (b + a) * ((zz + zz) + c)
  <2>1. OnNumbers!pnielsadd(v, q) =
          [xaddy |-> x + y, ysubx |-> y - x, z |-> ((zz + zz) + c) * ((zz + zz) - c),
           t2d |-> ((b - a) * (b + a)) * Value5(ec2d)]
    BY ONLY <1>10, Zenon DEF OnNumbers!pnielsadd, Plus, Minus, Times
  <2>2. x + y = y + x
    BY ONLY <1>4, <1>6
  <2>3. OnNumbers!p1p1_to_full(SumPair(v, u, c)) =
          [x |-> x, y |-> y, z |-> ((zz + zz) + c) * ((zz + zz) - c), t |-> (b - a) * (b + a)]
    BY ONLY Zenon DEF OnNumbers!p1p1_to_full, Times, SumPair, zz, a, b
  <2>4. OnNumbers!full_to_pniels(OnNumbers!p1p1_to_full(SumPair(v, u, c))) =
          [ysubx |-> y - x, xaddy |-> y + x, z |-> ((zz + zz) + c) * ((zz + zz) - c),
           t2d |-> ((b - a) * (b + a)) * Value5(ec2d)]
    BY ONLY Zenon DEF OnNumbers!full_to_pniels, OnNumbers!p1p1_to_full, SumPair, Plus, Minus, Times
  <2>. QED
    BY ONLY <2>1, <2>2, <2>4
<1>14. ASSUME u.z = 1
       PROVE  /\ OnNumbers!nielsadd2(v, NielsOf(u)) = OnNumbers!p1p1_to_full(SumPair(v, u, n))
              /\ OnNumbers!nielsadd2_p1p1(v, NielsOf(u), 0) = SumPair(v, u, n)
              /\ OnNumbers!nielsadd2_p1p1(v, NielsOf(u), 1) = SumPair(v, o, -n)
  <2>. DEFINE w == NielsOf(u)
  <2>1. w.ysubx = u.y - u.x /\ w.xaddy = u.y + u.x /\ n = v.t * w.t2d
    BY DEF NielsOf, n
  <2>2. zz = v.z
    BY ONLY <1>1, <1>14
  <2>. HIDE DEF w
  <2>3. OnNumbers!nielsadd2(v, w) =
          [x |-> (b - a) * ((v.z + v.z) - n), y |-> (b + a) * ((v.z + v.z) + n),
           z |-> ((v.z + v.z) + n) * ((v.z + v.z) - n), t |-> (b - a) * (b + a)]
    BY ONLY <2>1, Zenon DEF OnNumbers!nielsadd2, Plus, Minus, Times
  <2>4. OnNumbers!nielsadd2_p1p1(v, w, 0) = OnNumbers!WithSign(v, w, 0, v.z + v.z)
        /\ OnNumbers!nielsadd2_p1p1(v, w, 1) = OnNumbers!WithSign(v, w, 1, v.z + v.z)
    BY ONLY Zenon DEF OnNumbers!nielsadd2_p1p1, Plus
  <2>. HIDE DEF zz, a, b, a1, b1
  <2>5. OnNumbers!p1p1_to_full(SumPair(v, u, n)) =
          [x |-> (b - a) * ((zz + zz) - n), y |-> (b + a) * ((zz + zz) + n),
           z |-> ((zz + zz) + n) * ((zz + zz) - n), t |-> (b - a) * (b + a)]
    BY ONLY Zenon DEF OnNumbers!p1p1_to_full, Times, SumPair, zz, a, b
  <2>6. SumPair(v, o, -n) = [x |-> b1 - a1, y |-> b1 + a1, z |-> (zz + zz) - n, t |-> (zz + zz) + n]
    BY ONLY <1>4, <1>8, Zenon
  <2>7. /\ OnNumbers!WithSign(v, w, 0, v.z + v.z) = [x |-> b - a, y |-> b + a, z |-> (v.z + v.z) + n,
             t |-> (v.z + v.z) - n]
        /\ OnNumbers!WithSign(v, w, 1, v.z + v.z) = [x |-> b1 - a1, y |-> b1 + a1, z |-> (v.z + v.z) - n,
             t |-> (v.z + v.z) + n]
    BY ONLY <1>9, <2>1, Zenon
  <2>. QED
    BY ONLY <1>7, <2>2, <2>3, <2>4, <2>5, <2>6, <2>7, Zenon DEF w
<1>. QED
  BY ONLY <1>5, <1>11, <1>12, <1>13, <1>14, Zenon DEF c, n, o, q

\* The opposite of a point of the curve.
LEMMA OppositeOnCurve ==
    ASSUME Prime5 \in Int, curveD \in Int, NEW u, OnCurve(u)
    PROVE  OnCurve(Opposite(u)) /\ Opposite(u).t = -u.t
<1>. DEFINE o == Opposite(u)
<1>1. u \in Numbers /\ u.x \in Int /\ u.y \in Int /\ u.z \in Int /\ u.t \in Int
  BY DEF OnCurve, Numbers
<1>2. o.x = -u.x /\ o.y = u.y /\ o.z = u.z /\ o.t = -u.t /\ o \in Numbers
  <2>1. -u.x \in Int /\ -u.t \in Int
    BY ONLY <1>1
  <2>. QED
    BY ONLY <1>1, <2>1 DEF Numbers, Opposite
<1>. HIDE DEF o
<1>3. /\ o.y * o.y - o.x * o.x = u.y * u.y - u.x * u.x
      /\ o.z * o.z + curveD * (o.t * o.t) = u.z * u.z + curveD * (u.t * u.t)
      /\ o.x * o.y = -(u.x * u.y) /\ o.z * o.t = -(u.z * u.t)
  <2>1. /\ u.y * u.y - (-u.x) * (-u.x) = u.y * u.y - u.x * u.x /\ (-u.t) * (-u.t) = u.t * u.t
        /\ (-u.x) * u.y = -(u.x * u.y) /\ u.z * (-u.t) = -(u.z * u.t)
    BY ONLY <1>1, SMT
  <2>. QED
    BY ONLY <1>2, <2>1, Zenon
<1>4. Same5(-(u.x * u.y), -(u.z * u.t))
  <2>1. \A i, j \in Int : Same5(i, j) => Same5(-i, -j)
    BY ONLY Prime5 \in Int, SameIs
  <2>2. u.x * u.y \in Int /\ u.z * u.t \in Int
    BY ONLY <1>1
  <2>3. Same5(u.x * u.y, u.z * u.t)
    BY Zenon DEF OnCurve
  <2>. QED
    BY ONLY <2>1, <2>2, <2>3, Zenon
<1>. QED
  BY ONLY <1>2, <1>3, <1>4, OnCurve(u), Zenon DEF OnCurve, o

\* ec2d is twice d, and both are limbs such as a product leaves.
DonnaConstants == Tight(ecd) /\ Tight(ec2d) /\ Same5(Value5(ec2d), 2 * curveD)

\* Limbs r are a point, the sum of v and u; q is prepared for adding u, with its
\* Z or, like the entries of the tables, without one.
SumOf(r, v, u) == \E w : OnCurve(w) /\ IsSum(w, v, u) /\ Points(r, w)
Prepared(q, u) == Pniels(q, OnNumbers!full_to_pniels(u))
Tabled(q, u) == u.z = 1 /\ Niels(q, NielsOf(u))

\* The products with 2d of the formulas.
LEMMA TwiceD ==
    ASSUME DonnaSizes, DonnaConstants, NEW v \in Numbers, NEW u \in Numbers
    PROVE  /\ Prime5 \in Int /\ curveD \in Int /\ Value5(ec2d) \in Int
           /\ LET right == 2 * (curveD * (v.t * u.t))
              IN  /\ right \in Int /\ Same5((v.t * u.t) * Value5(ec2d), right)
                  /\ Same5(v.t * (u.t * Value5(ec2d)), right)
                  /\ Same5(v.t * (2 * (curveD * u.t)), right)
<1>1. Prime5 \in Int
  BY ONLY FifthPower, DonnaSizes, Base
<1>2. curveD \in Int /\ Value5(ec2d) \in Int
  BY DonnaConstants, ValueIs DEF DonnaConstants, Tight, curveD
<1>3. v.t \in Int /\ u.t \in Int
  BY DEF Numbers
<1>4. Same5(Value5(ec2d), 2 * curveD)
  BY Zenon DEF DonnaConstants
<1>5. PICK e \in Int, d \in Int, i \in Int, j \in Int : e = Value5(ec2d) /\ d = curveD /\ i = v.t
      /\ j = u.t
  BY ONLY <1>2, <1>3, Zenon
<1>6. Same5(e, 2 * d) /\ i * j \in Int /\ 2 * d \in Int /\ (i * j) * e \in Int
      /\ 2 * (d * (i * j)) \in Int
  BY ONLY <1>4, <1>5
<1>7. /\ (i * j) * (2 * d) = 2 * (d * (i * j)) /\ i * (j * e) = (i * j) * e
      /\ i * (2 * (d * j)) = 2 * (d * (i * j))
  BY ONLY e \in Int, d \in Int, i \in Int, j \in Int, SMT
<1>8. /\ \A m \in Int : Same5(m, m)
      /\ \A m, n, k, l \in Int : Same5(m, n) /\ Same5(k, l) => Same5(m * k, n * l)
  BY ONLY <1>1, SameIs
<1>9. Same5((i * j) * e, (i * j) * (2 * d))
  BY ONLY <1>6, <1>8, e \in Int, Zenon
<1>10. /\ Same5((i * j) * e, 2 * (d * (i * j))) /\ Same5(i * (j * e), 2 * (d * (i * j)))
       /\ Same5(i * (2 * (d * j)), 2 * (d * (i * j)))
  BY ONLY <1>6, <1>7, <1>8, <1>9, Zenon
<1>. QED
  BY ONLY <1>1, <1>2, <1>5, <1>6, <1>10, Zenon

\* The sum, and the sum with the opposite.
LEMMA SumsRight ==
    ASSUME DonnaSizes, DonnaConstants, NEW v, NEW u, OnCurve(v), OnCurve(u),
           NEW c \in Int, Same5(c, 2 * (curveD * (v.t * u.t)))
    PROVE  \A p : /\ Pairs(p, SumPair(v, u, c)) => SumOf(OnLimbs!p1p1_to_full(p), v, u)
                  /\ Pairs(p, SumPair(v, Opposite(u), -c)) =>
                        SumOf(OnLimbs!p1p1_to_full(p), v, Opposite(u))
<1>1. v \in Numbers /\ u \in Numbers /\ v.t \in Int /\ u.t \in Int
  BY DEF OnCurve, Numbers
<1>2. Prime5 \in Int /\ curveD \in Int
  BY ONLY <1>1, TwiceD, DonnaSizes, DonnaConstants, Zenon
<1>. DEFINE o == Opposite(u)
<1>3. OnCurve(o) /\ o.t = -u.t
  BY ONLY <1>2, OnCurve(u), OppositeOnCurve
<1>. HIDE DEF o
<1>4. /\ 2 * (curveD * (v.t * o.t)) = -(2 * (curveD * (v.t * u.t)))
      /\ 2 * (curveD * (v.t * u.t)) \in Int
  <2>1. PICK d \in Int, i \in Int, j \in Int : d = curveD /\ i = v.t /\ j = u.t
    BY ONLY <1>1, <1>2, Zenon
  <2>2. 2 * (d * (i * (-j))) = -(2 * (d * (i * j))) /\ 2 * (d * (i * j)) \in Int
    BY ONLY d \in Int, i \in Int, j \in Int, SMT
  <2>. QED
    BY ONLY <1>3, <2>1, <2>2, Zenon
<1>5. -c \in Int /\ Same5(-c, 2 * (curveD * (v.t * o.t)))
  <2>1. \A i, j \in Int : Same5(i, j) => Same5(-i, -j)
    BY ONLY <1>2, SameIs
  <2>2. -c \in Int
    BY ONLY c \in Int
  <2>. QED
    BY ONLY <1>4, <2>1, <2>2, c \in Int, Same5(c, 2 * (curveD * (v.t * u.t))), Zenon
<1>6. /\ OnCurve(OnNumbers!p1p1_to_full(SumPair(v, u, c)))
      /\ IsSum(OnNumbers!p1p1_to_full(SumPair(v, u, c)), v, u)
  BY ONLY <1>2, OnCurve(v), OnCurve(u), c \in Int, Same5(c, 2 * (curveD * (v.t * u.t))), SumPairRight
<1>7. /\ OnCurve(OnNumbers!p1p1_to_full(SumPair(v, o, -c)))
      /\ IsSum(OnNumbers!p1p1_to_full(SumPair(v, o, -c)), v, o)
  BY ONLY <1>2, <1>3, <1>5, OnCurve(v), SumPairRight
<1>8. \A p, w : Pairs(p, w) => Points(OnLimbs!p1p1_to_full(p), OnNumbers!p1p1_to_full(w))
  BY ONLY DonnaSizes, PairsToPoints, Zenon
<1>. QED
  BY ONLY <1>6, <1>7, <1>8, Zenon DEF SumOf, o

\* The formulas of points on limbs, as curve25519.h and cuda_ed25519.cuh have
\* them: what comes out of a sum, a doubling or an addition of a prepared point
\* are limbs of a point of the curve, the sum by the law of addition; with sign
\* 1, the sum with the opposite.  No limb outgrows its word on the way.
THEOREM SumsOfPoints ==
    ASSUME DonnaSizes, DonnaConstants, NEW p, NEW q, NEW v, NEW u, OnCurve(v), OnCurve(u)
    PROVE  /\ Partials(p, v) =>
                /\ SumOf(OnLimbs!double(p), v, v)
                /\ \E w : OnCurve(w) /\ IsSum(w, v, v) /\ Partials(OnLimbs!double_partial(p), w)
           /\ Points(p, v) /\ Points(q, u) => SumOf(OnLimbs!ge_add(p, q), v, u)
           /\ Points(p, v) => Prepared(OnLimbs!full_to_pniels(p), v)
           /\ Points(p, v) /\ Prepared(q, u) =>
                /\ SumOf(OnLimbs!p1p1_to_full(OnLimbs!pnielsadd_p1p1(p, q, 0)), v, u)
                /\ SumOf(OnLimbs!p1p1_to_full(OnLimbs!ge_pnielsadd_p1p1(p, q, 0)), v, u)
                /\ SumOf(OnLimbs!p1p1_to_full(OnLimbs!pnielsadd_p1p1(p, q, 1)), v, Opposite(u))
                /\ SumOf(OnLimbs!p1p1_to_full(OnLimbs!ge_pnielsadd_p1p1(p, q, 1)), v, Opposite(u))
                /\ \E w : OnCurve(w) /\ IsSum(w, v, u) /\ Prepared(OnLimbs!pnielsadd(p, q), w)
           /\ Points(p, v) /\ Tabled(q, u) =>
                /\ SumOf(OnLimbs!nielsadd2(p, q), v, u)
                /\ SumOf(OnLimbs!p1p1_to_full(OnLimbs!nielsadd2_p1p1(p, q, 0)), v, u)
                /\ SumOf(OnLimbs!p1p1_to_full(OnLimbs!nielsadd2_p1p1(p, q, 1)), v, Opposite(u))
<1>1. v \in Numbers /\ u \in Numbers
  BY Zenon DEF OnCurve
<1>. DEFINE right == 2 * (curveD * (v.t * u.t))
            two2d == (v.t * u.t) * Value5(ec2d)
            c == v.t * (u.t * Value5(ec2d))
            n == v.t * (2 * (curveD * u.t))
<1>2. /\ Prime5 \in Int /\ curveD \in Int /\ Value5(ec2d) \in Int
      /\ Same5(two2d, right) /\ Same5(c, right) /\ Same5(n, right)
  BY ONLY <1>1, DonnaSizes, DonnaConstants, TwiceD, Zenon
<1>3. two2d \in Int /\ c \in Int /\ n \in Int
  <2>1. v.t \in Int /\ u.t \in Int
    BY ONLY <1>1 DEF Numbers
  <2>. QED
    BY ONLY <1>2, <2>1
<1>4. \A e \in Int : Same5(e, right) =>
         \A r : /\ Pairs(r, SumPair(v, u, e)) => SumOf(OnLimbs!p1p1_to_full(r), v, u)
                /\ Pairs(r, SumPair(v, Opposite(u), -e)) => SumOf(OnLimbs!p1p1_to_full(r), v,
                     Opposite(u))
  BY ONLY DonnaSizes, DonnaConstants, OnCurve(v), OnCurve(u), SumsRight, Zenon
<1>5. Tight(ec2d)
  BY Zenon DEF DonnaConstants
<1>6. ASSUME Partials(p, v)
      PROVE  /\ SumOf(OnLimbs!double(p), v, v)
             /\ \E w : OnCurve(w) /\ IsSum(w, v, v) /\ Partials(OnLimbs!double_partial(p), w)
  <2>. DEFINE r == OnNumbers!double_p1p1(v)  w == OnNumbers!p1p1_to_full(r)
  <2>1. OnCurve(w) /\ IsSum(w, v, v)
    BY ONLY <1>2, OnCurve(v), DoublePairRight, Zenon
  <2>2. Pairs(OnLimbs!double_p1p1(p), r)
    BY ONLY <1>6, DonnaSizes, Doublings, Zenon
  <2>3. /\ Points(OnLimbs!p1p1_to_full(OnLimbs!double_p1p1(p)), w)
        /\ Partials(OnLimbs!p1p1_to_partial(OnLimbs!double_p1p1(p)), OnNumbers!p1p1_to_partial(r))
    BY ONLY <2>2, DonnaSizes, PairsToPoints, Zenon
  <2>4. /\ OnNumbers!p1p1_to_partial(r).x = w.x /\ OnNumbers!p1p1_to_partial(r).y = w.y
        /\ OnNumbers!p1p1_to_partial(r).z = w.z
    BY ONLY DEF OnNumbers!p1p1_to_partial, OnNumbers!p1p1_to_full, Times
  <2>. HIDE DEF r, w
  <2>5. Partials(OnLimbs!p1p1_to_partial(OnLimbs!double_p1p1(p)), w)
    BY ONLY <2>3, <2>4, Zenon DEF Partials
  <2>. QED
    BY ONLY <2>1, <2>3, <2>5, Zenon DEF SumOf, OnLimbs!double, OnLimbs!double_partial
<1>7. ASSUME Points(p, v), Points(q, u) PROVE SumOf(OnLimbs!ge_add(p, q), v, u)
  <2>1. Pairs(OnLimbs!add_p1p1(p, q), OnNumbers!add_p1p1(v, u))
    BY ONLY <1>5, <1>7, DonnaSizes, Sums2, Zenon
  <2>2. OnNumbers!add_p1p1(v, u) = SumPair(v, u, two2d)
    BY ONLY <1>1, <1>2, Formulas, Zenon
  <2>. HIDE DEF two2d, right
  <2>. QED
    BY ONLY <1>2, <1>3, <1>4, <2>1, <2>2, Zenon DEF OnLimbs!ge_add
<1>8. ASSUME Points(p, v) PROVE Prepared(OnLimbs!full_to_pniels(p), v)
  BY ONLY <1>5, <1>8, DonnaSizes, Preparations, Zenon DEF Prepared
<1>9. ASSUME Points(p, v), Prepared(q, u)
      PROVE  /\ SumOf(OnLimbs!p1p1_to_full(OnLimbs!pnielsadd_p1p1(p, q, 0)), v, u)
             /\ SumOf(OnLimbs!p1p1_to_full(OnLimbs!ge_pnielsadd_p1p1(p, q, 0)), v, u)
             /\ SumOf(OnLimbs!p1p1_to_full(OnLimbs!pnielsadd_p1p1(p, q, 1)), v, Opposite(u))
             /\ SumOf(OnLimbs!p1p1_to_full(OnLimbs!ge_pnielsadd_p1p1(p, q, 1)), v, Opposite(u))
             /\ \E w : OnCurve(w) /\ IsSum(w, v, u) /\ Prepared(OnLimbs!pnielsadd(p, q), w)
  <2>. DEFINE m == OnNumbers!full_to_pniels(u)
  <2>1. Pniels(q, m)
    BY ONLY <1>9, Zenon DEF Prepared
  <2>2. /\ OnNumbers!pnielsadd_p1p1(v, m, 0) = SumPair(v, u, c)
        /\ OnNumbers!ge_pnielsadd_p1p1(v, m, 0) = SumPair(v, u, c)
        /\ OnNumbers!pnielsadd_p1p1(v, m, 1) = SumPair(v, Opposite(u), -c)
        /\ OnNumbers!ge_pnielsadd_p1p1(v, m, 1) = SumPair(v, Opposite(u), -c)
        /\ OnNumbers!pnielsadd(v, m)
             = OnNumbers!full_to_pniels(OnNumbers!p1p1_to_full(SumPair(v, u, c)))
    BY ONLY <1>1, <1>2, Formulas, Zenon
  <2>. HIDE DEF m
  <2>3. \A signbit : /\ Pairs(OnLimbs!pnielsadd_p1p1(p, q, signbit),
                          OnNumbers!pnielsadd_p1p1(v, m, signbit))
                     /\ Pairs(OnLimbs!ge_pnielsadd_p1p1(p, q, signbit),
                          OnNumbers!ge_pnielsadd_p1p1(v, m, signbit))
    BY ONLY <1>9, <2>1, DonnaSizes, Additions, Zenon
  <2>4. Pniels(OnLimbs!pnielsadd(p, q), OnNumbers!pnielsadd(v, m))
    BY ONLY <1>5, <1>9, <2>1, DonnaSizes, Sums1, Zenon
  <2>5. /\ OnCurve(OnNumbers!p1p1_to_full(SumPair(v, u, c)))
        /\ IsSum(OnNumbers!p1p1_to_full(SumPair(v, u, c)), v, u)
    BY ONLY <1>2, <1>3, OnCurve(v), OnCurve(u), SumPairRight, Zenon
  <2>. HIDE DEF c, right
  <2>6. /\ Pairs(OnLimbs!pnielsadd_p1p1(p, q, 0), SumPair(v, u, c))
        /\ Pairs(OnLimbs!ge_pnielsadd_p1p1(p, q, 0), SumPair(v, u, c))
        /\ Pairs(OnLimbs!pnielsadd_p1p1(p, q, 1), SumPair(v, Opposite(u), -c))
        /\ Pairs(OnLimbs!ge_pnielsadd_p1p1(p, q, 1), SumPair(v, Opposite(u), -c))
    BY ONLY <2>2, <2>3, Zenon
  <2>7. Prepared(OnLimbs!pnielsadd(p, q), OnNumbers!p1p1_to_full(SumPair(v, u, c)))
    BY ONLY <2>2, <2>4, Zenon DEF Prepared
  <2>. QED
    BY ONLY <1>2, <1>3, <1>4, <2>5, <2>6, <2>7, Zenon
<1>10. ASSUME Points(p, v), Tabled(q, u)
       PROVE  /\ SumOf(OnLimbs!nielsadd2(p, q), v, u)
              /\ SumOf(OnLimbs!p1p1_to_full(OnLimbs!nielsadd2_p1p1(p, q, 0)), v, u)
              /\ SumOf(OnLimbs!p1p1_to_full(OnLimbs!nielsadd2_p1p1(p, q, 1)), v, Opposite(u))
  <2>. DEFINE m == NielsOf(u)
  <2>1. Niels(q, m) /\ u.z = 1
    BY ONLY <1>10, Zenon DEF Tabled
  <2>2. /\ OnNumbers!nielsadd2(v, m) = OnNumbers!p1p1_to_full(SumPair(v, u, n))
        /\ OnNumbers!nielsadd2_p1p1(v, m, 0) = SumPair(v, u, n)
        /\ OnNumbers!nielsadd2_p1p1(v, m, 1) = SumPair(v, Opposite(u), -n)
    BY ONLY <1>1, <1>2, <2>1, Formulas, Zenon
  <2>. HIDE DEF m
  <2>3. \A signbit : Pairs(OnLimbs!nielsadd2_p1p1(p, q, signbit),
            OnNumbers!nielsadd2_p1p1(v, m, signbit))
    BY ONLY <1>10, <2>1, DonnaSizes, Additions, Zenon
  <2>4. Points(OnLimbs!nielsadd2(p, q), OnNumbers!nielsadd2(v, m))
    BY ONLY <1>5, <1>10, <2>1, DonnaSizes, Sums1, Zenon
  <2>5. /\ OnCurve(OnNumbers!p1p1_to_full(SumPair(v, u, n)))
        /\ IsSum(OnNumbers!p1p1_to_full(SumPair(v, u, n)), v, u)
    BY ONLY <1>2, <1>3, OnCurve(v), OnCurve(u), SumPairRight, Zenon
  <2>. HIDE DEF n, right
  <2>6. /\ Pairs(OnLimbs!nielsadd2_p1p1(p, q, 0), SumPair(v, u, n))
        /\ Pairs(OnLimbs!nielsadd2_p1p1(p, q, 1), SumPair(v, Opposite(u), -n))
        /\ Points(OnLimbs!nielsadd2(p, q), OnNumbers!p1p1_to_full(SumPair(v, u, n)))
    BY ONLY <2>2, <2>3, <2>4, Zenon
  <2>. QED
    BY ONLY <1>2, <1>3, <1>4, <2>5, <2>6, Zenon DEF SumOf
<1>. QED
  BY ONLY <1>6, <1>7, <1>8, <1>9, <1>10, Zenon
=============================================================================
