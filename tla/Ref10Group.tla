----------------------------- MODULE Ref10Group -----------------------------
(***************************************************************************)
(* The curve -x^2 + y^2 = 1 + d x^2 y^2 as ed25519/ref10 computes on it:   *)
(* points as fractions X/Z, Y/Z (p2), with T = XY/Z besides (p3), as pairs *)
(* of fractions X/Z, Y/T (p1p1), and prepared for an addition (cached and, *)
(* where Z = 1, precomp); multiples of a point by signed digits; keys and  *)
(* signatures (ge_*.c, ge_*.h, keypair.c, sign.c, open.c).                 *)
(*                                                                         *)
(* The field, SHA-512 and the scalars modulo the order of the base point   *)
(* are parameters.  A byte string is the set of its bits that are 1, and   *)
(* the arguments of the hash are kept apart instead of joined.             *)
(***************************************************************************)
EXTENDS Digits

CONSTANTS
    fe_0, fe_1, d, d2, sqrtm1,
    fe_add(_, _), fe_sub(_, _), fe_neg(_), fe_mul(_, _), fe_sq(_), fe_sq2(_),
    fe_invert(_), fe_pow22523(_), fe_batchinvert(_),
    fe_tobytes(_), fe_frombytes(_), fe_isnegative(_), fe_isnonzero(_),
    sc_reduce(_), sc_muladd(_, _, _),
    Multiple(_), \* a multiple of the base point, as <<x, y>>
    sha512(_),
    Scalars, \* bits of a scalar, 256
    SignBit  \* the last bit of an encoded point, 255

ge_p2_0 == [X |-> fe_0, Y |-> fe_1, Z |-> fe_1]
ge_p3_0 == [X |-> fe_0, Y |-> fe_1, Z |-> fe_1, T |-> fe_0]
ge_precomp_0 == [yplusx |-> fe_1, yminusx |-> fe_1, xy2d |-> fe_0]

ge_p3_to_p2(p) == [X |-> p.X, Y |-> p.Y, Z |-> p.Z]

ge_p1p1_to_p2(p) == [X |-> fe_mul(p.X, p.T), Y |-> fe_mul(p.Y, p.Z), Z |-> fe_mul(p.Z, p.T)]

ge_p1p1_to_p3(p) ==
    [X |-> fe_mul(p.X, p.T), Y |-> fe_mul(p.Y, p.Z), Z |-> fe_mul(p.Z, p.T),
     T |-> fe_mul(p.X, p.Y)]

ge_p3_to_cached(p) ==
    [YplusX |-> fe_add(p.Y, p.X), YminusX |-> fe_sub(p.Y, p.X), Z |-> p.Z,
     T2d |-> fe_mul(p.T, d2)]

\* The end of an addition: z and y are (Y + X) and (Y - X) times those of q, c
\* is the product with T2d, and t0 twice that of the Zs.
Added(z, y, c, t0) ==
    [X |-> fe_sub(z, y), Y |-> fe_add(z, y), Z |-> fe_add(t0, c), T |-> fe_sub(t0, c)]
Subtracted(z, y, c, t0) ==
    [X |-> fe_sub(z, y), Y |-> fe_add(z, y), Z |-> fe_sub(t0, c), T |-> fe_add(t0, c)]

Twice(f) == fe_add(f, f)

ge_add(p, q) ==
    Added(fe_mul(fe_add(p.Y, p.X), q.YplusX), fe_mul(fe_sub(p.Y, p.X), q.YminusX),
          fe_mul(q.T2d, p.T), Twice(fe_mul(p.Z, q.Z)))

ge_sub(p, q) ==
    Subtracted(fe_mul(fe_add(p.Y, p.X), q.YminusX), fe_mul(fe_sub(p.Y, p.X), q.YplusX),
               fe_mul(q.T2d, p.T), Twice(fe_mul(p.Z, q.Z)))

ge_madd(p, q) ==
    Added(fe_mul(fe_add(p.Y, p.X), q.yplusx), fe_mul(fe_sub(p.Y, p.X), q.yminusx),
          fe_mul(q.xy2d, p.T), Twice(p.Z))

\* Mutant of ge_msub: q is added after all, T2d having kept its sign.
ge_msubUnsigned(p, q) ==
    Added(fe_mul(fe_add(p.Y, p.X), q.yminusx), fe_mul(fe_sub(p.Y, p.X), q.yplusx),
          fe_mul(q.xy2d, p.T), Twice(p.Z))

ge_msub(p, q) ==
    Subtracted(fe_mul(fe_add(p.Y, p.X), q.yminusx), fe_mul(fe_sub(p.Y, p.X), q.yplusx),
               fe_mul(q.xy2d, p.T), Twice(p.Z))

ge_p2_dbl(p) ==
    LET xx == fe_sq(p.X)
        yy == fe_sq(p.Y)
        yplus == fe_add(yy, xx)
        yminus == fe_sub(yy, xx)
    IN  [X |-> fe_sub(fe_sq(fe_add(p.X, p.Y)), yplus), Y |-> yplus, Z |-> yminus,
         T |-> fe_sub(fe_sq2(p.Z), yminus)]

ge_p3_dbl(p) == ge_p2_dbl(ge_p3_to_p2(p))

-----------------------------------------------------------------------------
(* Encoding and decoding. *)

\* The parity of x takes the last bit.
Encoded(x, y) == fe_tobytes(y) \cup (IF fe_isnegative(x) = 1 THEN {SignBit} ELSE {})

ge_tobytes(h) ==
    LET recip == fe_invert(h.Z) IN Encoded(fe_mul(h.X, recip), fe_mul(h.Y, recip))
ge_p3_tobytes(h) ==
    LET recip == fe_invert(h.Z) IN Encoded(fe_mul(h.X, recip), fe_mul(h.Y, recip))

\* The Zs are inverted together and kept; out gets y without the sign, which
\* only a point that matched a filter is given.
ge_p3_batchtobytes_destructive_1(in) ==
    LET Z == fe_batchinvert([i \in DOMAIN in |-> in[i].Z])
    IN  [out |-> [i \in DOMAIN in |-> fe_tobytes(fe_mul(in[i].Y, Z[i]))],
         in |-> [i \in DOMAIN in |-> [in[i] EXCEPT !.Z = Z[i]]]]
ge_p3_batchtobytes_destructive_finish(out, unf) ==
    out \cup (IF fe_isnegative(fe_mul(unf.X, unf.Z)) = 1 THEN {SignBit} ELSE {})

\* The point, negated, or ok = FALSE when y belongs to none.
ge_frombytes_negate_vartime(s) ==
    LET y == fe_frombytes(s \ {SignBit})
        u == fe_sub(fe_sq(y), fe_1)
        v == fe_add(fe_mul(fe_sq(y), d), fe_1)
        v3 == fe_mul(fe_sq(v), v)
        uv7 == fe_mul(fe_mul(fe_sq(v3), v), u)
        root == fe_mul(fe_mul(fe_pow22523(uv7), v3), u)
        vxx == fe_mul(fe_sq(root), v)
        isroot == ~fe_isnonzero(fe_sub(vxx, u))
        x == IF isroot THEN root ELSE fe_mul(root, sqrtm1)
        X == IF (fe_isnegative(x) = 1) = (SignBit \in s) THEN fe_neg(x) ELSE x
    IN  [ok |-> isroot \/ ~fe_isnonzero(fe_add(vxx, u)),
         h |-> [X |-> X, Y |-> y, Z |-> fe_1, T |-> fe_mul(X, y)]]

-----------------------------------------------------------------------------
(* Multiples of the base point, by digits of four bits. *)

Precomp(point) ==
    [yplusx |-> fe_add(point[2], point[1]), yminusx |-> fe_sub(point[2], point[1]),
     xy2d |-> fe_mul(fe_mul(point[1], point[2]), d2)]

\* base.h, base2.h
base(pos, j) == Precomp(Multiple((j + 1) * 16 ^ (2 * pos)))
Bi(j) == Precomp(Multiple(2 * j + 1))

\* Every entry is looked at and one is kept; then it is negated or not.
select(pos, b) ==
    LET babs == IF b < 0 THEN -b ELSE b
        t == IF babs = 0 THEN ge_precomp_0 ELSE base(pos, babs - 1)
    IN  IF b < 0
        THEN [yplusx |-> t.yminusx, yminusx |-> t.yplusx, xy2d |-> fe_neg(t.xy2d)]
        ELSE t

\* The digits at odd places, times 16, and those at even ones.
ge_scalarmult_base(a) ==
    LET count == Scalars \div 4
        e == SignedDigits([i \in 0 .. count - 1 |-> (a \div 16 ^ i) % 16], count - 1, 4)
        Sum(h, first) ==
            Turns(LAMBDA s, i : ge_p1p1_to_p3(ge_madd(s, select(i \div 2, e[i]))), h,
                  [n \in 1 .. count \div 2 |-> first + 2 * (n - 1)])
        Dbl(p) == ge_p1p1_to_p2(ge_p2_dbl(p))
        odd == Sum(ge_p3_0, 1)
    IN  Sum(ge_p1p1_to_p3(ge_p2_dbl(Dbl(Dbl(Dbl(ge_p3_to_p2(odd)))))), 0)

-----------------------------------------------------------------------------
(* The sum of two multiples, by sliding windows. *)

slide(a) == Slide({n \in 0 .. Scalars - 1 : (a \div 2 ^ n) % 2 = 1}, Scalars, 15)

\* The odd multiples of a point, up to 15.
OddMultiples(A) ==
    LET A2 == ge_p1p1_to_p3(ge_p3_dbl(A))
        Ai[n \in 0 .. 7] == IF n = 0 THEN ge_p3_to_cached(A)
                            ELSE ge_p3_to_cached(ge_p1p1_to_p3(ge_add(A2, Ai[n - 1])))
    IN  Ai

\* a times A plus b times the base point.
ge_double_scalarmult_vartime(a, A, b) ==
    LET aslide == slide(a)
        bslide == slide(b)
        Ai == OddMultiples(A)
        AddA(t, k) == CASE k = 0 -> t
                        [] k > 0 -> ge_add(ge_p1p1_to_p3(t), Ai[k \div 2])
                        [] k < 0 -> ge_sub(ge_p1p1_to_p3(t), Ai[(-k) \div 2])
        AddB(t, k) == CASE k = 0 -> t
                        [] k > 0 -> ge_madd(ge_p1p1_to_p3(t), Bi(k \div 2))
                        [] k < 0 -> ge_msub(ge_p1p1_to_p3(t), Bi((-k) \div 2))
        top == Max({-1} \cup {i \in DOMAIN aslide : aslide[i] # 0 \/ bslide[i] # 0})
        Turn(r, i) == ge_p1p1_to_p2(AddB(AddA(ge_p2_dbl(r), aslide[i]), bslide[i]))
    IN  Turns(Turn, ge_p2_0, [n \in 1 .. top + 1 |-> top + 1 - n])

-----------------------------------------------------------------------------
(* Keys and signatures. *)

\* Three low bits are cleared, the highest too, and the one below it is set.
crypto_sign_seckey_expand(seed) ==
    LET sk == sha512(<<seed>>)
        scalar == sk.low % 2 ^ (Scalars - 2)
    IN  [sk EXCEPT !.low = scalar - (scalar % 8) + 2 ^ (Scalars - 2)]

crypto_sign_pubkey(sk) == ge_p3_tobytes(ge_scalarmult_base(sk.low))

crypto_sign(m, sk) ==
    LET pk == crypto_sign_pubkey(sk)
        nonce == sc_reduce(sha512(<<sk.high, m>>))
        R == ge_p3_tobytes(ge_scalarmult_base(nonce))
        hram == sc_reduce(sha512(<<R, pk, m>>))
    IN  [R |-> R, S |-> sc_muladd(hram, sk.low, nonce), m |-> m]

\* -1, written here ok = FALSE, for a scalar too large, a key that is no point,
\* or another R than the signature's.
crypto_sign_open(sm, pk) ==
    LET A == ge_frombytes_negate_vartime(pk)
        h == sc_reduce(sha512(<<sm.R, pk, sm.m>>))
    IN  /\ sm.S < 2 ^ (Scalars - 3)
        /\ A.ok
        /\ ge_tobytes(ge_double_scalarmult_vartime(h, A.h, sm.S)) = sm.R
=============================================================================
