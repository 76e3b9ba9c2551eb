---------------------------- MODULE Donna32Field ----------------------------
(***************************************************************************)
(* The field of ed25519-donna on 32-bit machines: numbers modulo           *)
(* 2^255 - 19 in ten unsigned limbs of 26 and 25 bits by turns, each in a  *)
(* 32-bit word (curve25519-donna-32bit.h).  Differences are reduced at     *)
(* least in part, since six bits to spare do not hold two of them.         *)
(*                                                                         *)
(* The widths, the 19 and the word are constants; words wrap, and so do    *)
(* the sums of products in words of twice the size.                        *)
(***************************************************************************)
EXTENDS Limbs

CONSTANTS
    Even, Odd, \* 26, 25
    Fold,      \* 19
    Word       \* 2^32

IsOdd(i) == i % 2 = 1
Width(i) == IF IsOdd(i) THEN Odd ELSE Even
Pos(i) == (i \div 2) * (Even + Odd) + (IF IsOdd(i) THEN Even ELSE 0)
Full(i) == 2 ^ Width(i)

\* The limbs of twice and of four times the prime.
TwoP(i) == 2 * (Full(i) - (IF i = 0 THEN Fold ELSE 1))
FourP(i) == 2 * TwoP(i)

\* One walk of carries over the sums; the last comes back, folded, to limb 0.
Reduced(sums) ==
    LET v == Chain(LAMBDA i, below :
                (sums[i] + (IF i = 0 THEN 0 ELSE below \div Full(i - 1))) % Word, 10)
    IN  Table(LAMBDA i : (v[i] % Full(i)) + (IF i = 0 THEN Fold * (v[9] \div Full(9)) ELSE 0), 10)

curve25519_add(a, b) == Table(LAMBDA i : (a[i] + b[i]) % Word, 10)
curve25519_add_after_basic(a, b) == Reduced(Table(LAMBDA i : a[i] + b[i], 10))
curve25519_add_reduce(a, b) == Reduced(Table(LAMBDA i : a[i] + b[i], 10))

\* Mutant of curve25519_sub: the lower limbs are left as wide as the upper ones.
curve25519_subWide(a, b) == Table(LAMBDA i : (TwoP(i) + a[i] - b[i]) % Word, 10)

\* The carries end in limb 4; the limbs above keep twice the prime.
curve25519_sub(a, b) ==
    LET v == Chain(LAMBDA i, below :
                (TwoP(i) + a[i] - b[i]
                    + (IF i \in 1 .. 4 THEN below \div Full(i - 1) ELSE 0)) % Word, 10)
    IN  Table(LAMBDA i : IF i < 4 THEN v[i] % Full(i) ELSE v[i], 10)

curve25519_sub_after_basic(a, b) == Reduced(Table(LAMBDA i : FourP(i) + a[i] - b[i], 10))
curve25519_sub_reduce(a, b) == Reduced(Table(LAMBDA i : FourP(i) + a[i] - b[i], 10))
curve25519_neg(a) == Reduced(Table(LAMBDA i : TwoP(i) - a[i], 10))

\* The carries of a product: the last comes back folded, and goes on to limb 1.
MulReduced(m) ==
    LET u == Chain(LAMBDA i, below :
                (m[i] + (IF i = 0 THEN 0 ELSE below \div Full(i - 1))) % (Word * Word), 10)
        m0 == (u[0] % Full(0)) + Fold * ((u[9] \div Full(9)) % Word)
    IN  Table(LAMBDA i : CASE i = 0 -> m0 % Full(0)
                           [] i = 1 -> (u[1] % Full(1)) + ((m0 \div Full(0)) % Word)
                           [] OTHER -> u[i] % Full(i), 10)

\* Limbs i and k - i of a product meet half a bit above limb k when both are odd.
Half(i, j) == IF IsOdd(i) /\ IsOdd(j) THEN 2 ELSE 1

\* The doubled and folded limbs of b are words again; no limb is near half a
\* word, so that halving one gives back what was doubled.
curve25519_mul(a, b) ==
    LET Product(i, j) == ((b[i] * Half(i, j) * (IF i + j > 9 THEN Fold ELSE 1)) % Word) * a[j]
    IN  MulReduced(Table(LAMBDA k :
            MapThenSumSet(LAMBDA i : Product(i, (k - i) % 10), 0 .. 9) % (Word * Word), 10))

\* Each two different limbs once, counted twice; d6 .. d9 are the folded ones,
\* and d7 and d9 are doubled as well.
Squares(r) ==
    LET Product(i, j) ==
            LET twice == IF i = j THEN 1 ELSE 2
                d == IF IsOdd(j) THEN 2 ELSE 1
            IN  IF i + j > 9
                THEN ((r[j] * d * Fold) % Word) * ((r[i] * ((twice * Half(i, j)) \div d)) % Word)
                ELSE ((r[i] * twice) % Word) * ((r[j] * Half(i, j)) % Word)
    IN  Table(LAMBDA k :
            MapThenSumSet(LAMBDA i : Product(i, (k - i) % 10), {i \in 0 .. 9 : i <= (k - i) % 10})
                % (Word * Word), 10)

curve25519_square(in) == MulReduced(Squares(in))
curve25519_square_times(in, count) ==
    FoldLeft(LAMBDA r, n : MulReduced(Squares(r)), in, UpTo(count))

\* The top bit of the last byte is left out.
curve25519_expand(in) == Table(LAMBDA i : Part(in, Pos(i), Width(i)), 10)

\* carry_pass and its forms: what leaves the last limb is folded back or, in the
\* end, dropped.
CarryPass(f) ==
    LET v == Chain(LAMBDA i, below :
                (f[i] + (IF i = 0 THEN 0 ELSE below \div Full(i - 1))) % Word, 10)
    IN  Table(LAMBDA i : IF i = 9 THEN v[9] ELSE v[i] % Full(i), 10)
CarryPassFull(f) ==
    LET c == CarryPass(f)
    IN  [c EXCEPT ![0] = @ + Fold * (c[9] \div Full(9)), ![9] = @ % Full(9)]
CarryPassFinal(f) == [CarryPass(f) EXCEPT ![9] = @ % Full(9)]

\* Two passes bring the number below 2^255; adding 19 and taking 2^255 - 19 less
\* than what is then carried out brings it below the prime.
curve25519_contract(in) ==
    LET once == CarryPassFull(CarryPassFull(in))
        above == CarryPassFull([once EXCEPT ![0] = @ + Fold])
        f == CarryPassFinal(
                Table(LAMBDA i : above[i] + Full(i) - (IF i = 0 THEN Fold ELSE 1), 10))
    IN  UNION {{Pos(i) + n : n \in {c \in 0 .. Width(i) - 1 : (f[i] \div 2 ^ c) % 2 = 1}} :
                  i \in 0 .. 9}

curve25519_move_conditional_bytes(out, in, flag) == IF flag = 1 THEN in ELSE out
curve25519_swap_conditional(a, b, iswap) == IF iswap = 1 THEN <<b, a>> ELSE <<a, b>>
=============================================================================
