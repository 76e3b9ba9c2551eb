----------------------------- MODULE Ref10Field -----------------------------
(***************************************************************************)
(* The field of ed25519/ref10: numbers modulo 2^255 - 19 in ten signed     *)
(* limbs of 26 and 25 bits by turns, with the carries each operation does  *)
(* and no others (fe_*.c).                                                 *)
(*                                                                         *)
(* The widths and the 19 are constants.  A byte string is the set of its   *)
(* bits that are 1, bit b of byte j being j * ByteBits + b.                *)
(***************************************************************************)
EXTENDS Integers, FiniteSets, FiniteSetsExt, SequencesExt

CONSTANTS
    Even, Odd, \* 26, 25
    Fold,      \* 19
    ByteBits   \* 8

Limbs == 0 .. 9
IsOdd(i) == i % 2 = 1
Width(i) == IF IsOdd(i) THEN Odd ELSE Even
Pos(i) == (i \div 2) * (Even + Odd) + (IF IsOdd(i) THEN Even ELSE 0)
BitsOf(n, count) == {b \in 0 .. count - 1 : (n \div 2 ^ b) % 2 = 1}
Number(bits) == SumSet({2 ^ b : b \in bits})

fe_0 == [i \in Limbs |-> 0]
fe_1 == [i \in Limbs |-> IF i = 0 THEN 1 ELSE 0]
fe_copy(f) == [i \in Limbs |-> f[i]]
fe_neg(f) == [i \in Limbs |-> -f[i]]
fe_add(f, g) == [i \in Limbs |-> f[i] + g[i]]
fe_sub(f, g) == [i \in Limbs |-> f[i] - g[i]]

\* f ^ ((f ^ g) & -b)
fe_cmov(f, g, b) == [i \in Limbs |-> IF b = 1 THEN g[i] ELSE f[i]]

\* Mutant of Carry: what leaves the last limb comes back unfolded.
CarryUnfolded(h, i) ==
    LET carry == (h[i] + 2 ^ (Width(i) - 1)) \div 2 ^ Width(i)
    IN  [h EXCEPT ![i] = @ - carry * 2 ^ Width(i), ![(i + 1) % 10] = @ + carry]

\* A carry, rounded to the nearest, into the next limb.
Carry(h, i) ==
    LET carry == (h[i] + 2 ^ (Width(i) - 1)) \div 2 ^ Width(i)
    IN  [h EXCEPT ![i] = @ - carry * 2 ^ Width(i),
                  ![(i + 1) % 10] = @ + (IF i = 9 THEN Fold * carry ELSE carry)]

MulCarries(h) == FoldLeft(Carry, h, <<0, 4, 1, 5, 2, 6, 3, 7, 4, 8, 9, 0>>)

\* The product of limbs i and j lies half a bit above limb i + j when both are
\* odd, and beyond the last limb it is folded.
Factor(i, j) == (IF IsOdd(i) /\ IsOdd(j) THEN 2 ELSE 1) * (IF i + j > 9 THEN Fold ELSE 1)

Products(f, g) ==
    [k \in Limbs |->
        MapThenSumSet(LAMBDA i : f[i] * g[(k - i) % 10] * Factor(i, (k - i) % 10), Limbs)]

fe_mul(f, g) == MulCarries(Products(f, g))

\* Each product of two different limbs is computed once and counted twice.
SquareSums(f, k) ==
    MapThenSumSet(
        LAMBDA i : f[i] * f[(k - i) % 10] * Factor(i, (k - i) % 10)
                     * (IF i = (k - i) % 10 THEN 1 ELSE 2),
        {i \in Limbs : i <= (k - i) % 10})

fe_sq(f) == MulCarries([k \in Limbs |-> SquareSums(f, k)])
fe_sq2(f) == MulCarries([k \in Limbs |-> 2 * SquareSums(f, k)])

\* Mutant of Estimate: the quotient is taken from the top limb alone.
EstimateTop(h) == (h[9] + 2 ^ (Odd - 1)) \div 2 ^ Odd

\* The quotient of h and the prime, from the top limb and the carries it causes.
Estimate(h) ==
    LET q[i \in -1 .. 9] == IF i = -1 THEN (Fold * h[9] + 2 ^ (Odd - 1)) \div 2 ^ Odd
                            ELSE (h[i] + q[i - 1]) \div 2 ^ Width(i)
    IN  q[9]

CarryDown(h, i) ==
    [h EXCEPT ![i] = @ % 2 ^ Width(i), ![i + 1] = @ + (h[i] \div 2 ^ Width(i))]

\* The quotient times the prime is subtracted; carry9 is dropped.
fe_tobytes(h) ==
    LET t == FoldLeft(CarryDown, [h EXCEPT ![0] = @ + Fold * Estimate(h)], [i \in 1 .. 9 |-> i - 1])
    IN  UNION {{Pos(i) + b : b \in BitsOf(t[i], Width(i))} : i \in Limbs}

fe_isnegative(f) == IF 0 \in fe_tobytes(f) THEN 1 ELSE 0
fe_isnonzero(f) == fe_tobytes(f) # {}

\* The byte from which limb i is loaded; the bit above the number is masked.
From(i) == IF i = 10 THEN 5 * (Even + Odd)
           ELSE ((Pos(i) + ByteBits - 1) \div ByteBits) * ByteBits

\* Whole bytes are loaded and shifted, and the odd limbs carry before the even.
fe_frombytes(s) ==
    LET Load(i) == Number({b - Pos(i) : b \in {c \in s : From(i) <= c /\ c < From(i + 1)}})
    IN  FoldLeft(Carry, [i \in Limbs |-> Load(i)], <<9, 1, 3, 5, 7, 0, 2, 4, 6, 8>>)
=============================================================================
