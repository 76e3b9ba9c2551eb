----------------------------- MODULE DonnaField -----------------------------
(***************************************************************************)
(* The field of ed25519-donna on 64-bit machines: numbers modulo           *)
(* 2^255 - 19 in five unsigned limbs of 51 bits, each in a 64-bit word.    *)
(* Sums and differences are mostly left unreduced, so a limb outgrows its  *)
(* 51 bits, and a difference stays above zero only because a multiple of   *)
(* the prime is added (curve25519-donna-64bit.h).  cuda_ed25519.cuh has    *)
(* the same operations, with another carry in fe_square_times.             *)
(*                                                                         *)
(* The width and the 19 are constants.  Words wrap; the 128-bit sums of a   *)
(* product have no need to, which FieldProofs shows.  A byte string is the *)
(* set of its bits that are 1.                                             *)
(***************************************************************************)
EXTENDS Limbs

CONSTANTS
    Width, \* 51
    Fold,  \* 19
    Word   \* 2^64

Full == 2 ^ Width
Mask(x) == x % Full

curve25519_add(a, b) == Table(LAMBDA i : (a[i] + b[i]) % Word, 5)
curve25519_add_after_basic(a, b) == Table(LAMBDA i : (a[i] + b[i]) % Word, 5)

\* The limbs of twice and of four times the prime.
TwoP(i) == IF i = 0 THEN 2 * (Full - Fold) ELSE 2 * (Full - 1)
FourP(i) == IF i = 0 THEN 4 * (Full - Fold) ELSE 4 * (Full - 1)

\* Mutant of curve25519_sub: a difference below zero wraps.
curve25519_subPlain(a, b) == Table(LAMBDA i : (a[i] - b[i]) % Word, 5)

curve25519_sub(a, b) == Table(LAMBDA i : (a[i] + TwoP(i) - b[i]) % Word, 5)
curve25519_sub_after_basic(a, b) == Table(LAMBDA i : (a[i] + FourP(i) - b[i]) % Word, 5)

\* One walk of carries over the limbs.
Carried(t) == Chain(LAMBDA i, below : (t[i] + (below \div Full)) % Word, 5)

\* What the last limb carries comes back, folded, to limb 0.
Reduced(sums) ==
    LET v == Carried(sums)
    IN  Table(LAMBDA i : IF i = 0 THEN (Mask(v[0]) + Fold * (v[4] \div Full)) % Word
                         ELSE Mask(v[i]), 5)

curve25519_add_reduce(a, b) == Reduced(Table(LAMBDA i : a[i] + b[i], 5))
curve25519_sub_reduce(a, b) == Reduced(Table(LAMBDA i : a[i] + FourP(i) - b[i], 5))
curve25519_neg(a) == Reduced(Table(LAMBDA i : TwoP(i) - a[i], 5))

\* The carries of a product: the last comes back folded, and goes on to limb 1.
MulReduced(t) ==
    LET u == Chain(LAMBDA i, below : t[i] + ((below \div Full) % Word), 5)
        r0 == (Mask(u[0]) + Fold * ((u[4] \div Full) % Word)) % Word
    IN  [Table(LAMBDA i : Mask(u[i]), 5) EXCEPT ![0] = Mask(r0), ![1] = @ + (r0 \div Full)]

curve25519_mul(in2, in) ==
    LET Product(i, k) == IF i <= k THEN in[i] * in2[k - i]
                         ELSE ((Fold * in[i]) % Word) * in2[k + 5 - i]
        Sum(k) == Product(0, k) + Product(1, k) + Product(2, k) + Product(3, k) + Product(4, k)
    IN  MulReduced(Table(Sum, 5))

\* The sums of a square, with the doubled and folded limbs d0 .. d4.
Squares(r) ==
    LET d0 == (2 * r[0]) % Word  d1 == (2 * r[1]) % Word  d2 == (2 * Fold * r[2]) % Word
        d419 == (Fold * r[4]) % Word  d4 == (2 * d419) % Word
        sums == << r[0] * r[0] + d4 * r[1] + d2 * r[3],
                   d0 * r[1] + d4 * r[2] + r[3] * ((Fold * r[3]) % Word),
                   d0 * r[2] + r[1] * r[1] + d4 * r[3],
                   d0 * r[3] + d1 * r[2] + r[4] * d419,
                   d0 * r[4] + d1 * r[3] + r[2] * r[2] >>
    IN  Table(LAMBDA k : sums[k + 1], 5)

curve25519_square(in) == MulReduced(Squares(in))

\* The carries of all limbs at once, and then one walk.
SquaredOnce(r) ==
    LET t == Squares(r)
    IN  Reduced(Table(LAMBDA i :
            (Mask(t[i]) + (IF i = 0 THEN Fold ELSE 1) * ((t[(i + 4) % 5] \div Full) % Word)) % Word,
            5))

curve25519_square_times(in, count) ==
    LET squared[n \in 0 .. count] == IF n = 0 THEN in ELSE SquaredOnce(squared[n - 1])
    IN  squared[count]

\* The top bit of the last byte is left out.
curve25519_expand(in) == Table(LAMBDA i : Part(in, i * Width, Width), 5)

\* curve25519_contract_carry and its forms: what leaves the last limb is folded
\* back or, in the end, dropped.
ContractCarry(t) ==
    LET v == Carried(t) IN Table(LAMBDA i : IF i = 4 THEN v[4] ELSE Mask(v[i]), 5)
CarryFull(t) ==
    LET c == ContractCarry(t)
    IN  [c EXCEPT ![0] = (@ + Fold * (c[4] \div Full)) % Word, ![4] = Mask(@)]
CarryFinal(t) == [ContractCarry(t) EXCEPT ![4] = Mask(@)]

\* Mutant of curve25519_contract: only what is beyond the last limb is folded.
curve25519_contractOnce(input) ==
    Bits(CarryFinal(CarryFull(CarryFull(input))), 5, Width)

\* Two walks bring the number below 2^255; adding 19 and taking 2^255 - 19 less
\* than what is then carried out brings it below the prime.
curve25519_contract(input) ==
    LET once == CarryFull(CarryFull(input))
        above == CarryFull([once EXCEPT ![0] = (@ + Fold) % Word])
    IN  Bits(CarryFinal(Table(LAMBDA i :
                 (above[i] + Full - (IF i = 0 THEN Fold ELSE 1)) % Word, 5)),
             5, Width)

curve25519_move_conditional_bytes(out, in, flag) == IF flag = 1 THEN in ELSE out
curve25519_swap_conditional(a, b, iswap) == IF iswap = 1 THEN <<b, a>> ELSE <<a, b>>
=============================================================================
