----------------------------- MODULE DonnaGroup -----------------------------
(***************************************************************************)
(* The curve of Ref10Group as ed25519-donna computes on it: points with    *)
(* T = XY/Z (or without it, where only doublings follow), pairs of         *)
(* fractions (p1p1), and points prepared for an addition: niels, where     *)
(* Z = 1, and pniels (ed25519-donna-impl-base.h, ed25519.c).               *)
(*                                                                         *)
(* The field and the scalars are parameters.  The point of the operations  *)
(* `after_basic' and `reduce' is that those of the field may leave their   *)
(* limbs too large for one another: which is used where is kept.           *)
(***************************************************************************)
EXTENDS Limbs

CONSTANTS
    zero, one, two, ecd, ec2d, sqrtneg1,
    add(_, _), sub(_, _), add_after_basic(_, _), sub_after_basic(_, _),
    add_reduce(_, _), sub_reduce(_, _), neg(_), mul(_, _), square(_),
    recip(_), batchrecip(_), pow_two252m3(_), expand(_), contract(_),
    Multiple(_),                          \* a multiple of the base point, <<x, y>>
    contract256_window4_modm(_), contract256_slidingwindow_modm(_, _),
    Scalars,  \* bits of a scalar, 256
    SignBit   \* the last bit of a packed point, 255

neutral == [x |-> zero, y |-> one, z |-> one, t |-> zero]

p1p1_to_partial(p) ==
    [x |-> mul(p.x, p.t), y |-> mul(p.y, p.z), z |-> mul(p.z, p.t)]
p1p1_to_full(p) ==
    [x |-> mul(p.x, p.t), y |-> mul(p.y, p.z), z |-> mul(p.z, p.t), t |-> mul(p.x, p.y)]

full_to_pniels(r) ==
    [ysubx |-> sub(r.y, r.x), xaddy |-> add(r.y, r.x), z |-> r.z, t2d |-> mul(r.t, ec2d)]

add_p1p1(p, q) ==
    LET a == mul(sub(p.y, p.x), sub(q.y, q.x))
        b == mul(add(p.y, p.x), add(q.y, q.x))
        c == mul(mul(p.t, q.t), ec2d)
        zz == mul(p.z, q.z)
        d == add(zz, zz)
    IN  [x |-> sub(b, a), y |-> add(b, a), z |-> add_after_basic(d, c),
         t |-> sub_after_basic(d, c)]

double_p1p1(p) ==
    LET a == square(p.x)
        b == square(p.y)
        zz == square(p.z)
        y == add(b, a)
        z == sub(b, a)
    IN  [x |-> sub_after_basic(square(add(p.x, p.y)), y), y |-> y, z |-> z,
         t |-> sub_after_basic(add_reduce(zz, zz), z)]

\* The sum with q, or with -q when signbit is 1: the halves of q change places,
\* and so do the two places where T2d counts.
WithSign(p, q, signbit, zz) ==
    LET a == mul(sub(p.y, p.x), IF signbit = 0 THEN q.ysubx ELSE q.xaddy)
        b == mul(add(p.y, p.x), IF signbit = 0 THEN q.xaddy ELSE q.ysubx)
        c == mul(p.t, q.t2d)
    IN  [x |-> sub(b, a), y |-> add(b, a),
         z |-> IF signbit = 0 THEN add(zz, c) ELSE sub(zz, c),
         t |-> IF signbit = 0 THEN sub(zz, c) ELSE add(zz, c)]

nielsadd2_p1p1(p, q, signbit) == WithSign(p, q, signbit, add_reduce(p.z, p.z))

pnielsadd_p1p1(p, q, signbit) ==
    LET zz == mul(p.z, q.z) IN WithSign(p, q, signbit, add_reduce(zz, zz))

double_partial(p) == p1p1_to_partial(double_p1p1(p))
double(p) == p1p1_to_full(double_p1p1(p))
ge_add(p, q) == p1p1_to_full(add_p1p1(p, q))

\* Mutant of nielsadd2: the sum and the difference of 2Z and T2d change places.
nielsadd2Swapped(r, q) ==
    LET a == mul(sub(r.y, r.x), q.ysubx)
        b == mul(add(r.y, r.x), q.xaddy)
        c == mul(r.t, q.t2d)
        f == sub_after_basic(add(r.z, r.z), c)
        g == add_after_basic(add(r.z, r.z), c)
    IN  [x |-> mul(sub(b, a), g), y |-> mul(add(b, a), f), z |-> mul(g, f),
         t |-> mul(sub(b, a), add(b, a))]

nielsadd2(r, q) ==
    LET a == mul(sub(r.y, r.x), q.ysubx)
        b == mul(add(r.y, r.x), q.xaddy)
        c == mul(r.t, q.t2d)
        f == sub_after_basic(add(r.z, r.z), c)
        g == add_after_basic(add(r.z, r.z), c)
    IN  [x |-> mul(sub(b, a), f), y |-> mul(add(b, a), g), z |-> mul(g, f),
         t |-> mul(sub(b, a), add(b, a))]

pnielsadd(p, q) ==
    LET a == mul(sub(p.y, p.x), q.ysubx)
        b == mul(add(p.y, p.x), q.xaddy)
        c == mul(p.t, q.t2d)
        zz == mul(p.z, q.z)
        z == add_after_basic(add(zz, zz), c)
        t == sub_after_basic(add(zz, zz), c)
        x == mul(sub(b, a), t)
        y == mul(add(b, a), z)
    IN  [xaddy |-> add(x, y), ysubx |-> sub(y, x), z |-> mul(z, t),
         t2d |-> mul(mul(sub(b, a), add(b, a)), ec2d)]

-----------------------------------------------------------------------------
(* Packing and unpacking. *)

Odd(x) == 0 \in contract(x)

pack(p) ==
    LET zi == recip(p.z)
    IN  contract(mul(p.y, zi)) \cup (IF Odd(mul(p.x, zi)) THEN {SignBit} ELSE {})

\* The sign is added by `finish', to a key that matched.
batchpack_destructive_1(in) ==
    LET z == batchrecip([i \in DOMAIN in |-> in[i].z])
    IN  [out |-> [i \in DOMAIN in |-> contract(mul(in[i].y, z[i]))],
         in |-> [i \in DOMAIN in |-> [in[i] EXCEPT !.z = z[i]]]]
batchpack_destructive_finish(out, unf) ==
    out \cup (IF Odd(mul(unf.x, unf.z)) THEN {SignBit} ELSE {})

\* The point, negated; ok = FALSE when no point has this y.
unpack_negative_vartime(p) ==
    LET y == expand(p)
        num == sub_reduce(square(y), one)
        den == add(mul(square(y), ecd), one)
        d3 == mul(square(den), den)
        x7 == mul(mul(square(d3), den), num)
        root == mul(mul(pow_two252m3(x7), d3), num)
        t == mul(square(root), den)
        isroot == contract(sub_reduce(t, num)) = {}
        x == IF isroot THEN root ELSE mul(root, sqrtneg1)
        signed == IF Odd(x) = (SignBit \in p) THEN neg(x) ELSE x
    IN  [ok |-> isroot \/ contract(add_reduce(t, num)) = {},
         r |-> [x |-> signed, y |-> y, z |-> one, t |-> mul(signed, y)]]

-----------------------------------------------------------------------------
(* Multiples of points. *)

Abs(n) == IF n < 0 THEN -n ELSE n

\* p, 3p, 5p and so on.
OddMultiples(p, count) ==
    LET d1 == double(p)
    IN  FoldLeft(LAMBDA pre, n : Append(pre, pnielsadd(d1, pre[n])), <<full_to_pniels(p)>>,
                 [n \in 1 .. count - 1 |-> n])

\* Those of the base point, in a table.
niels_sliding_multiples(n) ==
    LET m == Multiple(2 * n + 1)
    IN  [ysubx |-> sub_reduce(m[2], m[1]), xaddy |-> add_reduce(m[2], m[1]),
         t2d |-> mul(mul(m[1], m[2]), ec2d)]

\* s1 times p1 and s2 times the base point, from the highest digit that is not 0.
double_scalarmult_vartime(p1, s1, s2) ==
    LET slide1 == contract256_slidingwindow_modm(s1, 5)
        slide2 == contract256_slidingwindow_modm(s2, 7)
        pre1 == OddMultiples(p1, 8)
        Sign(digit) == IF digit < 0 THEN 1 ELSE 0
        Add1(t, digit) ==
            IF digit = 0 THEN t
            ELSE pnielsadd_p1p1(p1p1_to_full(t), pre1[(Abs(digit) \div 2) + 1], Sign(digit))
        Add2(t, digit) ==
            IF digit = 0 THEN t
            ELSE nielsadd2_p1p1(p1p1_to_full(t), niels_sliding_multiples(Abs(digit) \div 2),
                                Sign(digit))
        top == Max({-1} \cup {i \in DOMAIN slide1 : slide1[i] # 0 \/ slide2[i] # 0})
        Turn(r, i) == p1p1_to_partial(Add2(Add1(double_p1p1(r), slide1[i]), slide2[i]))
    IN  Turns(Turn, neutral, [n \in 1 .. top + 1 |-> top + 1 - n])

\* ed25519-donna-basepoint-table.h: entry b of row pos, packed.  In row 0 the
\* last part is 2xy, elsewhere 2dxy.
niels_base_multiples(pos, b) ==
    LET m == Multiple(b * 256 ^ pos)
        xy == mul(m[1], m[2])
    IN  [ysubx |-> contract(sub(m[2], m[1])), xaddy |-> contract(add(m[2], m[1])),
         t2d |-> contract(IF pos = 0 THEN add(xy, xy) ELSE mul(xy, ec2d))]

\* Every entry of the row is looked at; the one for b is kept, and negated if b
\* is below zero.
scalarmult_base_choose_niels(pos, b) ==
    LET packed == niels_base_multiples(pos, Abs(b))
        t == IF b = 0 THEN [ysubx |-> one, xaddy |-> one, t2d |-> zero]
             ELSE [ysubx |-> expand(packed.ysubx), xaddy |-> expand(packed.xaddy),
                   t2d |-> expand(packed.t2d)]
    IN  IF b < 0 THEN [ysubx |-> t.xaddy, xaddy |-> t.ysubx, t2d |-> neg(t.t2d)] ELSE t

\* An entry of row 0 as a point with Z = 2, its T being 2xy; when the entry is
\* added instead, d is still to be multiplied in.
FromNiels(t) ==
    [x |-> sub_reduce(t.xaddy, t.ysubx), y |-> add_reduce(t.xaddy, t.ysubx), z |-> two,
     t |-> t.t2d]

\* niels: what each digit of the scalar stands for.  The sum of those at odd
\* places is taken times 16, then those at even ones are added.
Multiplied(niels) ==
    LET Sum(r, first) == Turns(LAMBDA sum, i : nielsadd2(sum, niels[i]), r,
                               [n \in 1 .. (Scalars \div 8) - 1 |-> first + 2 * (n - 1)])
        odd == Sum(FromNiels(niels[1]), 3)
        even0 == [niels[0] EXCEPT !.t2d = mul(@, ecd)]
    IN  Sum(nielsadd2(double(double_partial(double_partial(double_partial(odd)))), even0), 2)

scalarmult_base_niels(s) ==
    LET b == contract256_window4_modm(s)
    IN  Multiplied([i \in DOMAIN b |-> scalarmult_base_choose_niels(i \div 2, b[i])])
=============================================================================
