------------------------------- MODULE Powers -------------------------------
(***************************************************************************)
(* Inversion and the power for square roots, as fixed chains of squarings  *)
(* and multiplications (ref10/pow*.h, curve25519-donna-helpers.h,          *)
(* amd64-51-30k/fe25519_invert.c, fe25519_pow2523.c, cuda_ed25519.cuh),    *)
(* and the inversion of many numbers by one.                               *)
(*                                                                         *)
(* The two operations are parameters: the chains can be followed on        *)
(* exponents as well as on numbers.                                        *)
(***************************************************************************)
EXTENDS Integers, Sequences

CONSTANTS sq(_), mul(_, _), one, invert(_)

square_times(x, count) ==
    LET y[n \in 0 .. count] == IF n = 0 THEN x ELSE sq(y[n - 1])
    IN  y[count]

pow22523(z) ==
    LET t0a == sq(z)
        t1a == mul(z, square_times(t0a, 2))
        t0b == mul(t0a, t1a)
        t0c == mul(t1a, sq(t0b))
        t0d == mul(square_times(t0c, 5), t0c)
        t1b == mul(square_times(t0d, 10), t0d)
        t1c == mul(square_times(t1b, 20), t1b)
        t0e == mul(t0d, square_times(t1c, 10))
        t1d == mul(square_times(t0e, 50), t0e)
        t1e == mul(square_times(t1d, 100), t1d)
        t0f == mul(square_times(t1e, 50), t0e)
    IN  mul(square_times(t0f, 2), z)

\* Mutant of pow225521: one squaring too few before the last product.
pow225521Short(z) ==
    LET t0a == sq(z)
        t1a == mul(z, square_times(t0a, 2))
        t0b == mul(t0a, t1a)
        t1b == mul(t1a, sq(t0b))
        t1c == mul(square_times(t1b, 5), t1b)
        t2a == mul(square_times(t1c, 10), t1c)
        t2b == mul(square_times(t2a, 20), t2a)
        t1d == mul(square_times(t2b, 10), t1c)
        t2c == mul(square_times(t1d, 50), t1d)
        t2d == mul(square_times(t2c, 100), t2c)
        t1e == mul(square_times(t2d, 50), t1d)
    IN  mul(square_times(t1e, 4), t0b)

pow225521(z) ==
    LET t0a == sq(z)
        t1a == mul(z, square_times(t0a, 2))
        t0b == mul(t0a, t1a)
        t1b == mul(t1a, sq(t0b))
        t1c == mul(square_times(t1b, 5), t1b)
        t2a == mul(square_times(t1c, 10), t1c)
        t2b == mul(square_times(t2a, 20), t2a)
        t1d == mul(square_times(t2b, 10), t1c)
        t2c == mul(square_times(t1d, 50), t1d)
        t2d == mul(square_times(t2c, 100), t2c)
        t1e == mul(square_times(t2d, 50), t1d)
    IN  mul(square_times(t1e, 5), t0b)

\* From the power 2^5 - 1 to the power 2^250 - 1.
curve25519_pow_two5mtwo0_two250mtwo0(z) ==
    LET b == mul(square_times(z, 5), z)
        c == mul(square_times(b, 10), b)
        d == mul(square_times(c, 20), c)
        e == mul(square_times(d, 10), b)
        f == mul(square_times(e, 50), e)
        g == mul(square_times(f, 100), f)
    IN  mul(square_times(g, 50), e)

\* z^11 and z^31.
First(z) == LET a == sq(z) b == mul(square_times(a, 2), z) IN mul(b, a)
Second(z) == LET a == sq(z) b == mul(square_times(a, 2), z) IN mul(sq(First(z)), b)

curve25519_recip(z) ==
    mul(square_times(curve25519_pow_two5mtwo0_two250mtwo0(Second(z)), 5), First(z))

curve25519_pow_two252m3(z) ==
    mul(square_times(curve25519_pow_two5mtwo0_two250mtwo0(Second(z)), 2), z)

\* The functions of amd64-51-30k keep each power under its name.
z2_50_0(z) ==
    LET z2 == sq(z)
        z9 == mul(square_times(z2, 2), z)
        z2_5_0 == mul(sq(mul(z9, z2)), z9)
        z2_10_0 == mul(square_times(z2_5_0, 5), z2_5_0)
        z2_20_0 == mul(square_times(z2_10_0, 10), z2_10_0)
        z2_40_0 == mul(square_times(z2_20_0, 20), z2_20_0)
    IN  mul(square_times(z2_40_0, 10), z2_10_0)

fe25519_invert(x) ==
    LET z11 == mul(mul(square_times(sq(x), 2), x), sq(x))
        z2_100_0 == mul(square_times(z2_50_0(x), 50), z2_50_0(x))
        z2_200_0 == mul(square_times(z2_100_0, 100), z2_100_0)
        z2_250_0 == mul(square_times(z2_200_0, 50), z2_50_0(x))
    IN  mul(square_times(z2_250_0, 5), z11)

fe25519_pow2523(x) ==
    LET z2_100_0 == mul(square_times(z2_50_0(x), 50), z2_50_0(x))
        z2_200_0 == mul(square_times(z2_100_0, 100), z2_100_0)
        z2_250_0 == mul(square_times(z2_200_0, 50), z2_50_0(x))
    IN  mul(square_times(z2_250_0, 2), x)

\* The products of all numbers before each one are kept; one inversion and a
\* walk back then give every inverse.
fe_batchinvert(in) ==
    LET num == Len(in)
        tmp[i \in 1 .. num + 1] == IF i = 1 THEN one ELSE mul(tmp[i - 1], in[i - 1])
        acc[i \in 0 .. num] == IF i = num THEN invert(tmp[num + 1])
                               ELSE mul(acc[i + 1], in[i + 1])
    IN  [i \in 1 .. num |-> mul(acc[i], tmp[i])]
=============================================================================
