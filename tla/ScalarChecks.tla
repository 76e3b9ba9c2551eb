---------------------------- MODULE ScalarChecks ----------------------------
(***************************************************************************)
(* Scalars modulo the order in both of their forms, with small limbs,      *)
(* compared with residues modulo divisors of the order they stand for, and *)
(* the digits that multiplications take.                                   *)
(*                                                                         *)
(* Ref10Scalar has limbs of 5 bits for 2^60 less a few, Modm bytes of two  *)
(* bits, limbs of seven, in words of 18 for an order of 64 bits; for       *)
(* 32-bit machines seven limbs of ten bits in words of 12, two to spare    *)
(* and two and a half digits to a limb, as 30 bits in words of 32 have     *)
(* seven and a half.  The sliding windows take bytes of one bit.           *)
(***************************************************************************)
EXTENDS Integers, Sequences, FiniteSets, FiniteSetsExt, SequencesExt

S == INSTANCE Ref10Scalar WITH Width <- 5, Digits <- <<10, 6, 9, -15, 2, -10>>
RefDivisors == {1014, 431, 3373, 27043, 28921}

M == INSTANCE Modm WITH
    ByteBits <- 2, Count <- 5, LimbBits <- 14, Word <- 2 ^ 18, CarryWord <- 2 ^ 18, Quad <- 2,
    modm_m <- [i \in 0 .. 4 |-> <<757, 921, 15, 0, 128>>[i + 1]],
    modm_mu <- [i \in 0 .. 4 |-> <<13363, 12699, 16323, 16383, 511>>[i + 1]]
ModmDivisors == {4689, 829, 5039, 10247, 45953}

M32 == INSTANCE Modm WITH
    ByteBits <- 2, Count <- 7, LimbBits <- 10, Word <- 2 ^ 12, CarryWord <- 2 ^ 24, Quad <- 4,
    modm_m <- [i \in 0 .. 6 |-> <<757, 400, 782, 3, 0, 0, 8>>[i + 1]],
    modm_mu <- [i \in 0 .. 6 |-> <<51, 445, 966, 1008, 1023, 1023, 31>>[i + 1]]

Short == INSTANCE Modm WITH
    ByteBits <- 1, Count <- 5, LimbBits <- 7, Word <- 2 ^ 8, CarryWord <- 2 ^ 8, Quad <- 2,
    modm_m <- <<>>, modm_mu <- <<>>

\* The residue of a number in limbs, from the highest down.
LimbResidue(f, count, base, divisor) ==
    FoldLeft(LAMBDA r, i : (f[i] + base * r) % divisor, 0, [n \in 1 .. count |-> count - n])
BitResidue(s, divisor) ==
    LimbResidue([i \in 0 .. 12 |-> M!Part(s, 10 * i, 10)], 13, 1024, divisor)

\* The bits of both orders.
RefOrder ==
    LET digits == [i \in 0 .. 12 |-> CASE i = 12 -> 1
                                       [] i < 6 -> -<<10, 6, 9, -15, 2, -10>>[i + 1]
                                       [] OTHER -> 0]
        carry[i \in 0 .. 12] == IF i = 0 THEN 0 ELSE (digits[i - 1] + carry[i - 1]) \div 32
    IN  M!Bits([i \in 0 .. 12 |-> (digits[i] + carry[i]) % 32], 13, 5)
ModmBits(x) == M!Bits(x, 5, 14)
ModmOrder == ModmBits([i \in 0 .. 4 |-> <<757, 921, 15, 0, 128>>[i + 1]])

Below(s, t) == \E b \in t \ s : \A c \in s \ t : c < b

\* Sample k of n bits: none, all, halves, every other, the highest, and others.
Sample(k, n) ==
    {b \in 0 .. n - 1 :
        CASE k = 0 -> FALSE [] k = 1 -> TRUE
          [] k = 2 -> b > n \div 2 [] k = 3 -> b < n \div 2
          [] k = 4 -> b % 2 = 0 [] k = 5 -> b = n - 1
          [] OTHER -> ((b * 7919 + k * 104729 + ((b * b * 31) % 1009) * k) \div 7) % 3 = 0}

\* What is reduced is below the order and has the residue of what it comes from.
RefReduced(k) ==
    \A s \in {Sample(k, 122)} : \A r \in {S!sc_reduce(s)} :
        /\ Below(r, RefOrder)
        /\ \A D \in RefDivisors : BitResidue(r, D) = BitResidue(s, D)
RefMultiplied(k) ==
    \A j, l \in {1, 4, k, 7} :
    \A x \in {Sample(k, 61)}, y \in {Sample(j, 61)}, z \in {Sample(l, 61)} :
    \A r \in {S!sc_muladd(x, y, z)} :
        /\ Below(r, RefOrder)
        /\ \A D \in RefDivisors :
              BitResidue(r, D) = (BitResidue(x, D) * BitResidue(y, D) + BitResidue(z, D)) % D

\* The bytes the device takes 64 for: those from the 57th to the 60th come one too
\* low, and the 60th in its own place as well.
Misread(s) ==
    {b \in s : b < M!Bytes(56) \/ b >= M!Bytes(59)}
        \cup {b - M!Bytes(1) : b \in s \cap (M!Bytes(56) .. M!Bytes(60) - 1)}

\* From 32 or 64 bytes; the device always reads 64, and takes them for others
\* when the last eight are not zero.
Expanded(k) ==
    /\ \A len \in {32, 64} : \A s \in {Sample(k, 2 * len)} : \A x \in {M!expand256_modm(s, len)} :
          /\ Below(ModmBits(x), ModmOrder)
          /\ M!contract256_modm(x) = ModmBits(x)
          /\ \A D \in ModmDivisors : BitResidue(ModmBits(x), D) = BitResidue(s, D)
    /\ \A n \in {31, 32, 55, 64} : \A s \in {Sample(k, 2 * n)} :
          M!expand256_modm_device(s) = M!expand256_modm(Misread(s), 64)

Value(x, divisor) == LimbResidue(x, 5, 2 ^ 14, divisor)

\* Products, sums, comparisons and differences, and the digits of two bits.
ModmMultiplied(k, partners) ==
    \A j \in partners :
    \A x \in {M!expand256_modm(Sample(k, 128), 64)}, y \in {M!expand256_modm(Sample(j, 128), 64)} :
        /\ \A product \in {M!mul256_modm(x, y)}, sum \in {M!add256_modm(x, y)} :
              /\ Below(ModmBits(product), ModmOrder) /\ Below(ModmBits(sum), ModmOrder)
              /\ \A D \in ModmDivisors :
                    /\ Value(product, D) = (Value(x, D) * Value(y, D)) % D
                    /\ Value(sum, D) = (Value(x, D) + Value(y, D)) % D
        /\ M!lt256_modm_batch(x, y, 4) <=> Below(ModmBits(x), ModmBits(y))
        /\ ~M!lt256_modm_batch(x, y, 4) =>
              \A D \in ModmDivisors :
                  Value(M!sub256_modm_batch(x, y, 4), D) = (Value(x, D) - Value(y, D)) % D
        /\ \A digits \in {M!contract256_window4_modm(x)} :
              /\ \A i \in 0 .. 30 : digits[i] \in -2 .. 1
              /\ \A D \in ModmDivisors : LimbResidue(digits, 32, 4, D) = Value(x, D)

\* What the heap is ordered and cut short by.
Compared(k, lengths) ==
    \A n \in lengths : \A s \in {Sample(k, n)} : \A x \in {M!expand_raw256_modm(s)} :
        /\ ModmBits(x) = s
        /\ M!iszero256_modm_batch(x) <=> s = {}
        /\ M!isone256_modm_batch(x) <=> s = {0}
        /\ M!isatmost128bits256_modm_batch(x) <=> s \subseteq 0 .. 31
        /\ \A m \in lengths : \A y \in {M!expand_raw256_modm(Sample(k + 1, m))} :
              M!lte256_modm_batch(x, y, 4) <=> ~Below(ModmBits(y), s)

\* 32-bit machines make the same scalars, and order them alike.
SameBits(x, x32) == M32!contract256_modm(x32) = ModmBits(x)
Alike(k, partners) ==
    \A j \in partners, len \in {31, 32, 64} :
    \A s \in {Sample(k, 2 * len)}, t \in {Sample(j, 2 * len)} :
    \A x \in {M!expand256_modm(s, len)}, x32 \in {M32!expand256_modm(s, len)},
       y \in {M!expand256_modm(t, len)}, y32 \in {M32!expand256_modm(t, len)} :
        /\ SameBits(x, x32)
        /\ SameBits(M!add256_modm(x, y), M32!add256_modm(x32, y32))
        /\ SameBits(M!mul256_modm(x, y), M32!mul256_modm(x32, y32))
        /\ M32!lt256_modm_batch_32bit(x32, y32, 6) <=> Below(ModmBits(x), ModmBits(y))
        /\ M32!lte256_modm_batch_32bit(x32, y32, 6) <=> ~Below(ModmBits(y), ModmBits(x))
        /\ ~Below(ModmBits(x), ModmBits(y)) =>
              SameBits(M!sub256_modm_batch(x, y, 4), M32!sub256_modm_batch(x32, y32, 6))
        /\ \A digits \in {M32!contract256_window4_modm_32bit(x32)} :
              /\ \A i \in 0 .. 14 : digits[i] \in -8 .. 7
              /\ \A D \in ModmDivisors : LimbResidue(digits, 16, 16, D) = Value(x, D)
Compared32(k, lengths) ==
    \A n \in lengths : \A s \in {Sample(k, n)} : \A x \in {M32!expand_raw256_modm(s)} :
        /\ M32!contract256_modm(x) = s
        /\ M32!iszero256_modm_batch(x) <=> s = {}
        /\ M32!isone256_modm_batch(x) <=> s = {0}
        /\ M32!isatmost128bits256_modm_batch(x) <=> s \subseteq 0 .. 31

\* The windows: odd digits of at most n bits that add up to the number.
Slides(k) ==
    \A n \in {5, 7} :
    \A x \in {[i \in 0 .. 4 |-> (k * 7919 * (i + 3) + k * k * 31) % (IF i = 4 THEN 8 ELSE 128)]} :
    \A digits \in {Short!contract256_slidingwindow_modm(x, n)} :
        /\ \A i \in 0 .. 31 :
              digits[i] # 0 => digits[i] % 2 = 1 /\ digits[i] \in -(2 ^ (n - 1)) .. 2 ^ (n - 1)
        /\ \A D \in {10007, 12345} : LimbResidue(digits, 32, 2, D) = LimbResidue(x, 5, 128, D)

ScalarQuestions == 0 .. 39
ScalarAnswer(k) ==
    /\ RefReduced(k)
    /\ k < 12 => RefMultiplied(k)
    /\ Expanded(k)
    /\ ModmMultiplied(k, {1, 5, (7 * k) % 61, k})
    /\ Compared(k, {1, 31, 32, 33, 64})
    /\ Alike(k, {1, 5, (7 * k) % 61, k})
    /\ Compared32(k, {1, 31, 32, 33, 64})
    /\ Slides(k)
=============================================================================
