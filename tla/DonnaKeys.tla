----------------------------- MODULE DonnaKeys ------------------------------
(***************************************************************************)
(* Keys and signatures of ed25519-donna (ed25519.c,                        *)
(* ed25519-donna-batchverify.h): signatures are checked one by one or many *)
(* at once, when a random combination of them all must give the neutral    *)
(* point.  It is computed by Bos and Coster's method, with the largest     *)
(* scalars at the top of a heap.                                           *)
(***************************************************************************)
EXTENDS DonnaGroup

CONSTANTS
    hash(_),            \* SHA-512; what is joined for it is kept apart here
    expand256_modm(_),  \* reduced modulo the order
    mul256_modm(_, _), add256_modm(_, _),
    isatmost128bits(_),
    finalBits,          \* of the limbs up to limb128bits: 224, or 180
    max_batch_size      \* 64

\* The three low bits and the highest are cleared, the one below it is set.
extsk(sk) ==
    LET h == hash(<<sk>>)
        scalar == h.low % 2 ^ (Scalars - 2)
    IN  [h EXCEPT !.low = scalar - (scalar % 8) + 2 ^ (Scalars - 2)]

hram(R, pk, m) == LET h == hash(<<R, pk, m>>) IN h.low + 2 ^ Scalars * h.high

ed25519_publickey(sk) == pack(scalarmult_base_niels(expand256_modm(extsk(sk).low)))

ed25519_sign(m, sk, pk) ==
    LET hashr == hash(<<extsk(sk).high, m>>)
        r == expand256_modm(hashr.low + 2 ^ Scalars * hashr.high)
        R == pack(scalarmult_base_niels(r))
        a == expand256_modm(extsk(sk).low)
    IN  [R |-> R, S |-> add256_modm(mul256_modm(expand256_modm(hram(R, pk, m)), a), r)]

ed25519_sign_open(m, pk, RS) ==
    LET A == unpack_negative_vartime(pk)
        r == double_scalarmult_vartime(A.r, expand256_modm(hram(RS.R, pk, m)),
                                       expand256_modm(RS.S))
    IN  /\ RS.S < 2 ^ (Scalars - 3)
        /\ A.ok
        /\ pack(r) = RS.R

-----------------------------------------------------------------------------
(* The heap holds places of `scalars', the largest scalar on top. *)

Swap(h, a, b) == [h EXCEPT ![a] = h[b], ![b] = h[a]]
Parent(node) == (node - 1) \div 2

\* A node goes up while its parent's scalar is below its own, or equal to it
\* where the code asks for that too.
Up(orEqual, scalars, h, from) ==
    LET Rise(s, n) ==
            LET parent == Parent(s.node)
                above == scalars[s.h[parent]]
                own == scalars[s.h[s.node]]
            IN  IF s.node > 0 /\ (above < own \/ (orEqual /\ above = own))
                THEN [h |-> Swap(s.h, parent, s.node), node |-> parent] ELSE s
    IN  Turns(Rise, [h |-> h, node |-> from], [n \in 1 .. from |-> n]).h

\* heap_insert_next, until there are `count'.
heap_extend(scalars, h, count) ==
    Turns(LAMBDA heap, n : Up(FALSE, scalars, heap @@ (n :> n), n), h,
          [n \in 1 .. count - Cardinality(DOMAIN h) |-> Cardinality(DOMAIN h) + n - 1])

\* The root changes places with the larger child down to a leaf, and goes up
\* again to its place; a node that has one child only is a leaf here.
heap_updated_root(scalars, h) ==
    LET size == Cardinality(DOMAIN h)
        Sink(s, n) ==
            LET l == 2 * s.node + 1
                larger == IF scalars[s.h[l]] < scalars[s.h[l + 1]] THEN l + 1 ELSE l
            IN  IF l + 1 < size THEN [h |-> Swap(s.h, s.node, larger), node |-> larger] ELSE s
        leaf == Turns(Sink, [h |-> h, node |-> 0], [n \in 1 .. size |-> n])
    IN  Up(TRUE, scalars, leaf.h, leaf.node)

heap_get_top2(scalars, h) ==
    [max1 |-> h[0], max2 |-> IF scalars[h[1]] < scalars[h[2]] THEN h[2] ELSE h[1]]

\* Bit by bit from the highest that is set in the limbs up to limb128bits; one
\* must be, and those above are not looked at.  The sum begins with the point and
\* takes that bit as well: it is 2 ^ (Max(bits) + 1) + scalar times the point.
multi_scalarmult_vartime_final(point, scalar) ==
    LET bits == {n \in 0 .. finalBits - 1 : (scalar \div 2 ^ n) % 2 = 1}
        Turn(r, n) == IF n \in bits THEN ge_add(double(r), point) ELSE double(r)
    IN  CASE scalar = 0 -> neutral
          [] scalar = 1 -> point
          [] OTHER -> Turns(Turn, point, [i \in 1 .. Max(bits) + 1 |-> Max(bits) + 1 - i])

\* Mutant of Round: the point of the largest is not added to the second.
RoundForgetful(s, t) == [s EXCEPT !.scalars[t.max1] = @ - s.scalars[t.max2]]

\* a P + b Q = (a - b) P + b (P + Q)
Round(s, t) ==
    [s EXCEPT !.scalars[t.max1] = @ - s.scalars[t.max2],
              !.points[t.max2] = ge_add(s.points[t.max2], s.points[t.max1])]

\* The heap begins with the first half, which holds the large scalars; the
\* random ones of half the length join it when the largest is as short.
RECURSIVE Reduce(_)
Reduce(s) ==
    LET t == heap_get_top2(s.scalars, s.heap)
        extends == ~s.extended /\ isatmost128bits(s.scalars[t.max1])
        e == IF extends
             THEN [s EXCEPT !.heap = heap_extend(s.scalars, @, Cardinality(DOMAIN s.scalars)),
                            !.extended = TRUE]
             ELSE s
        r == Round(e, heap_get_top2(e.scalars, e.heap))
    IN  IF s.scalars[t.max2] = 0 THEN s
        ELSE Reduce([r EXCEPT !.heap = heap_updated_root(r.scalars, @)])

multi_scalarmult_vartime(scalars, points) ==
    LET first == (Cardinality(DOMAIN scalars) + 1) \div 2
        half == IF first % 2 = 0 THEN first + 1 ELSE first
        s == Reduce([scalars |-> scalars, points |-> points, extended |-> FALSE,
                     heap |-> heap_extend(scalars, 0 :> 0, half)])
    IN  multi_scalarmult_vartime_final(s.points[s.heap[0]], s.scalars[s.heap[0]])

is_neutral_vartime(p) == contract(p.x) = {} /\ contract(p.y) = contract(p.z)

\* Mutant of batchValid: the scalars S are not weighted.
batchValidUnweighted(m, pk, RS, r) ==
    LET num == Len(m)
        A == [i \in 1 .. num |-> unpack_negative_vartime(pk[i])]
        R == [i \in 1 .. num |-> unpack_negative_vartime(RS[i].R)]
        S == FoldLeft(LAMBDA sum, i : add256_modm(sum, expand256_modm(RS[i].S)), 0,
                      [i \in 1 .. num |-> i])
        scalars == [n \in 0 .. 2 * num |->
            CASE n = 0 -> S
              [] n \in 1 .. num ->
                    mul256_modm(expand256_modm(hram(RS[n].R, pk[n], m[n])), r[n])
              [] OTHER -> r[n - num]]
        points == [n \in 0 .. 2 * num |->
            CASE n = 0 -> [x |-> Multiple(1)[1], y |-> Multiple(1)[2], z |-> one,
                           t |-> mul(Multiple(1)[1], Multiple(1)[2])]
              [] n \in 1 .. num -> A[n].r
              [] OTHER -> R[n - num].r]
    IN  /\ \A i \in 1 .. num : A[i].ok /\ R[i].ok
        /\ is_neutral_vartime(multi_scalarmult_vartime(scalars, points))

\* All signatures at once, weighted by the random scalars r.
batchValid(m, pk, RS, r) ==
    LET num == Len(m)
        A == [i \in 1 .. num |-> unpack_negative_vartime(pk[i])]
        R == [i \in 1 .. num |-> unpack_negative_vartime(RS[i].R)]
        S == FoldLeft(LAMBDA sum, i : add256_modm(sum, mul256_modm(expand256_modm(RS[i].S), r[i])),
                      0, [i \in 1 .. num |-> i])
        scalars == [n \in 0 .. 2 * num |->
            CASE n = 0 -> S
              [] n \in 1 .. num ->
                    mul256_modm(expand256_modm(hram(RS[n].R, pk[n], m[n])), r[n])
              [] OTHER -> r[n - num]]
        points == [n \in 0 .. 2 * num |->
            CASE n = 0 -> [x |-> Multiple(1)[1], y |-> Multiple(1)[2], z |-> one,
                           t |-> mul(Multiple(1)[1], Multiple(1)[2])]
              [] n \in 1 .. num -> A[n].r
              [] OTHER -> R[n - num].r]
    IN  /\ \A i \in 1 .. num : A[i].ok /\ R[i].ok
        /\ is_neutral_vartime(multi_scalarmult_vartime(scalars, points))

\* While there are more than three they are checked together, as many as fit,
\* and one by one if that fails; the last one by one.  The bits of the result: 1
\* for a signature that is not valid, 2 for a batch that failed.
ed25519_sign_open_batch(m, pk, RS, r) ==
    LET num == Len(m)
        Start(i) == i - ((i - 1) % max_batch_size)
        Cut(s, from) == SubSeq(s, from, Min({from + max_batch_size - 1, num}))
        starts == {i \in 1 .. num : Start(i) = i}
        together == {i \in starts : num - i + 1 > 3}
        unpacks == {i \in together : \A n \in DOMAIN Cut(m, i) :
                        /\ unpack_negative_vartime(Cut(pk, i)[n]).ok
                        /\ unpack_negative_vartime(Cut(RS, i)[n].R).ok}
        passes == {i \in unpacks : batchValid(Cut(m, i), Cut(pk, i), Cut(RS, i), Cut(r, i))}
        valid == {i \in 1 .. num : Start(i) \in passes \/ ed25519_sign_open(m[i], pk[i], RS[i])}
    IN  [valid |-> valid,
         ret |-> {1 : i \in (1 .. num) \ valid} \cup {2 : i \in unpacks \ passes}]

-----------------------------------------------------------------------------

\* The y of a multiple of the base point as the u of Montgomery's curve.
curved25519_scalarmult_basepoint(e) ==
    LET p == scalarmult_base_niels(e)
    IN  contract(mul(add(p.y, p.z), recip(sub(p.z, p.y))))
=============================================================================
