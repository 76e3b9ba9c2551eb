----------------------------- MODULE CudaGroup ------------------------------
(***************************************************************************)
(* The device's copy of DonnaGroup where it differs from it, and the keys  *)
(* of one batch of mine_kernel: those of the scalar that is made of a0 and *)
(* of what lies behind it, and of the next scalars eight apart             *)
(* (cuda_ed25519.cuh, cuda_worker.cu).                                     *)
(***************************************************************************)
EXTENDS DonnaGroup

CONSTANTS
    eightz,           \* Z of the constant 8B
    expand256_modm(_, _),  \* of a0 and the 32 bytes behind it
    CUDA_BATCH

\* Sum and difference with the product of the Ts are always of the `basic' kind.
ge_pnielsadd_p1p1(p, q, signbit) ==
    LET a == mul(sub(p.y, p.x), IF signbit = 0 THEN q.ysubx ELSE q.xaddy)
        b == mul(add(p.y, p.x), IF signbit = 0 THEN q.xaddy ELSE q.ysubx)
        c == mul(p.t, q.t2d)
        zz == mul(p.z, q.z)
        sum == add_after_basic(add_reduce(zz, zz), c)
        difference == sub_after_basic(add_reduce(zz, zz), c)
    IN  [x |-> sub(b, a), y |-> add(b, a),
         z |-> IF signbit = 0 THEN sum ELSE difference,
         t |-> IF signbit = 0 THEN difference ELSE sum]

\* Only the entry of the row that is needed is read.
ge_scalarmult_base_choose_niels(pos, b) ==
    LET row == niels_base_multiples(pos, Abs(b))
        ysubx == expand(row.ysubx)
        xaddy == expand(row.xaddy)
        t2d == expand(row.t2d)
    IN  CASE b = 0 -> [ysubx |-> one, xaddy |-> one, t2d |-> zero]
          [] b > 0 -> [ysubx |-> ysubx, xaddy |-> xaddy, t2d |-> t2d]
          [] b < 0 -> [ysubx |-> xaddy, xaddy |-> ysubx, t2d |-> neg(t2d)]

ge_scalarmult_base_niels(s) ==
    LET b == contract256_window4_modm(s)
    IN  Multiplied([i \in DOMAIN b |-> ge_scalarmult_base_choose_niels(i \div 2, b[i])])

\* The Zs are inverted in place by one inversion: their products, and back.
ge_batch_invert_z(in) ==
    LET num == Len(in)
        tmp == FoldLeft(LAMBDA t, p : Append(t, mul(t[Len(t)], p.z)), <<one>>, in)
        Back(s, i) ==
            LET at == num + 1 - i
            IN  [acc |-> mul(s.acc, in[at].z),
                 out |-> <<[in[at] EXCEPT !.z = mul(s.acc, tmp[at])]>> \o s.out]
    IN  FoldLeft(Back, [acc |-> recip(tmp[num + 1]), out |-> <<>>], [i \in 1 .. num |-> i]).out

ge_batchpack_destructive_1(in) ==
    LET inverted == ge_batch_invert_z(in)
    IN  [out |-> [i \in DOMAIN in |-> contract(mul(inverted[i].y, inverted[i].z))],
         in |-> inverted]

\* d_ep_ysubx, d_ep_xaddy, d_ep_z, d_ep_t2d: eight times the base point.
ep ==
    LET m == Multiple(8)
        x == mul(m[1], eightz)
        y == mul(m[2], eightz)
    IN  [ysubx |-> sub_reduce(y, x), xaddy |-> add_reduce(y, x), z |-> eightz,
         t2d |-> mul(mul(mul(m[1], m[2]), eightz), ec2d)]

\* The points of a batch, each eight base points from the one before.  a0 has 32
\* bytes, but the scalar is made of 64.
Batch(a0, behind) ==
    FoldLeft(LAMBDA points, n :
                Append(points, p1p1_to_full(ge_pnielsadd_p1p1(points[n], ep, 0))),
             <<ge_scalarmult_base_niels(expand256_modm(a0, behind))>>,
             [n \in 1 .. CUDA_BATCH - 1 |-> n])

\* The keys that the filters are tried on, and what a match makes of them.
Keys(a0, behind) ==
    LET packed == ge_batchpack_destructive_1(Batch(a0, behind))
    IN  [b \in 1 .. CUDA_BATCH |-> batchpack_destructive_finish(packed.out[b], packed.in[b])]
=============================================================================
