---------------------------- MODULE GroupChecks ----------------------------
(***************************************************************************)
(* The three implementations of the group over the field of SmallCurve,    *)
(* which has all the structure the formulas use: their sums, encodings,    *)
(* multiples, keys and signatures are those of the law of addition.        *)
(*                                                                         *)
(* A scalar has 16 bits, an encoded point eight.  Scalars are computed     *)
(* with modulo a multiple of the order below 2^13, so that their digits    *)
(* are as long as those of the program's.                                  *)
(***************************************************************************)
EXTENDS SmallCurve, Sequences, FiniteSets, FiniteSetsExt, TLC

scalarOrder == 430 * order

BitsOf(n) == {i \in 0 .. 16 : (n \div 2 ^ i) % 2 = 1}
NumberOf(s) == SumSet({2 ^ i : i \in s})

\* SHA-512: any function will do that is not constant on what is signed.
Hash(s) ==
    LET n == CASE Len(s) = 1 -> s[1]
               [] Len(s) = 2 -> s[1] * 17 + s[2]
               [] Len(s) = 3 -> NumberOf(s[1]) * 3 + NumberOf(s[2]) * 5 + s[3]
    IN  [low |-> (n * 20021 + 4711) % 65536, high |-> (n * 53 + 5) % 4096]

Add(x, y) == (x + y) % prime
Sub(x, y) == (x - y) % prime
Neg(x) == (-x) % prime
Mul(x, y) == (x * y) % prime
Sq(x) == (x * x) % prime
Invert(x) == Inverses[x]
Root(x) == Power(x, (prime - 5) \div 8)
Invs(s) == [i \in DOMAIN s |-> Inverses[s[i]]]
FromBits(s) == NumberOf(s \ {7}) % prime
MulMod(x, y) == (x * y) % scalarOrder
AddMod(x, y) == (x + y) % scalarOrder
Mod(x) == x % scalarOrder
IsShort(x) == x < 64
\* On the device a scalar is made of 32 bytes and of the 32 bytes behind them.
Mod64(x, behind) == (x + 65536 * behind) % scalarOrder

Dg == INSTANCE Digits
Window4(s) == Dg!SignedDigits([i \in 0 .. 3 |-> (s \div 16 ^ i) % 16], 3, 4)
Sliding(s, w) == Dg!Slide(BitsOf(s), 16, 2 ^ (w - 1) - 1)

Ref == INSTANCE Ref10Group WITH
    fe_0 <- 0, fe_1 <- 1, d <- curveD, d2 <- 2 * curveD, sqrtm1 <- rootOfMinus1,
    fe_add <- Add, fe_sub <- Sub, fe_neg <- Neg, fe_mul <- Mul, fe_sq <- Sq,
    fe_sq2 <- LAMBDA x : (2 * x * x) % prime, fe_invert <- Invert, fe_pow22523 <- Root,
    fe_batchinvert <- Invs, fe_tobytes <- BitsOf, fe_frombytes <- FromBits,
    fe_isnegative <- LAMBDA x : x % 2, fe_isnonzero <- LAMBDA x : x # 0,
    sc_reduce <- LAMBDA h : (h.low + 65536 * h.high) % scalarOrder,
    sc_muladd <- LAMBDA x, y, z : (((x % scalarOrder) * (y % scalarOrder)) + z) % scalarOrder,
    Multiple <- BaseMultiple, sha512 <- Hash, Scalars <- 16, SignBit <- 7

Donna == INSTANCE DonnaKeys WITH
    zero <- 0, one <- 1, two <- 2, ecd <- curveD, ec2d <- 2 * curveD, sqrtneg1 <- rootOfMinus1,
    add <- Add, sub <- Sub, add_after_basic <- Add, sub_after_basic <- Sub,
    add_reduce <- Add, sub_reduce <- Sub, neg <- Neg, mul <- Mul, square <- Sq,
    recip <- Invert, batchrecip <- Invs, pow_two252m3 <- Root,
    expand <- FromBits, contract <- BitsOf, Multiple <- BaseMultiple,
    contract256_window4_modm <- Window4, contract256_slidingwindow_modm <- Sliding,
    Scalars <- 16, SignBit <- 7,
    hash <- Hash, expand256_modm <- Mod, mul256_modm <- MulMod, add256_modm <- AddMod,
    isatmost128bits <- IsShort, finalBits <- 11, max_batch_size <- 5

Device == INSTANCE CudaGroup WITH
    zero <- 0, one <- 1, two <- 2, ecd <- curveD, ec2d <- 2 * curveD, sqrtneg1 <- rootOfMinus1,
    add <- Add, sub <- Sub, add_after_basic <- Add, sub_after_basic <- Sub,
    add_reduce <- Add, sub_reduce <- Sub, neg <- Neg, mul <- Mul, square <- Sq,
    recip <- Invert, batchrecip <- Invs, pow_two252m3 <- Root,
    expand <- FromBits, contract <- BitsOf, Multiple <- BaseMultiple,
    contract256_window4_modm <- Window4, contract256_slidingwindow_modm <- Sliding,
    Scalars <- 16, SignBit <- 7,
    eightz <- 5, expand256_modm <- Mod64, CUDA_BATCH <- 3

-----------------------------------------------------------------------------
(* Sums, encodings and multiples. *)

\* A point with that Z, its T and its coordinates as the implementations name
\* them, and the point one stands for.
InRef(u, z) == [X |-> Mul(u[1], z), Y |-> Mul(u[2], z), Z |-> z, T |-> (u[1] * u[2] * z) % prime]
InDonna(u, z) == [x |-> Mul(u[1], z), y |-> Mul(u[2], z), z |-> z, t |-> (u[1] * u[2] * z) % prime]
IsRef(p, u) ==
    /\ p.Z # 0 /\ Mul(p.X, p.Y) = Mul(p.Z, p.T)
    /\ <<Mul(p.X, Inverses[p.Z]), Mul(p.Y, Inverses[p.Z])>> = u
IsDonna(p, u) ==
    /\ p.z # 0 /\ Mul(p.x, p.y) = Mul(p.z, p.t)
    /\ <<Mul(p.x, Inverses[p.z]), Mul(p.y, Inverses[p.z])>> = u
InNiels(v) ==
    [ysubx |-> Sub(v[2], v[1]), xaddy |-> Add(v[2], v[1]), t2d |-> (2 * curveD * Mul(v[1], v[2])) % prime]

RefSums(u, v, z, w) ==
    \A p \in {InRef(u, z)}, q \in {Ref!ge_p3_to_cached(InRef(v, w))}, n \in {Ref!Precomp(v)} :
        /\ IsRef(Ref!ge_p1p1_to_p3(Ref!ge_add(p, q)), PointSum(u, v))
        /\ IsRef(Ref!ge_p1p1_to_p3(Ref!ge_sub(p, q)), PointSum(u, PointMinus(v)))
        /\ IsRef(Ref!ge_p1p1_to_p3(Ref!ge_madd(p, n)), PointSum(u, v))
        /\ IsRef(Ref!ge_p1p1_to_p3(Ref!ge_msub(p, n)), PointSum(u, PointMinus(v)))
        /\ IsRef(Ref!ge_p1p1_to_p3(Ref!ge_p3_dbl(p)), PointSum(u, u))

DonnaSums(u, v, z, w) ==
    \A p \in {InDonna(u, z)}, q \in {InDonna(v, w)}, n \in {InNiels(v)} :
    \A pn \in {Donna!full_to_pniels(q)}, sum \in {PointSum(u, v)},
       difference \in {PointSum(u, PointMinus(v))} :
        /\ IsDonna(Donna!ge_add(p, q), sum)
        /\ IsDonna(Donna!double(p), PointSum(u, u))
        /\ IsDonna(Donna!nielsadd2(p, n), sum)
        /\ IsDonna(Donna!p1p1_to_full(Donna!nielsadd2_p1p1(p, n, 0)), sum)
        /\ IsDonna(Donna!p1p1_to_full(Donna!nielsadd2_p1p1(p, n, 1)), difference)
        /\ IsDonna(Donna!p1p1_to_full(Donna!pnielsadd_p1p1(p, pn, 0)), sum)
        /\ IsDonna(Donna!p1p1_to_full(Donna!pnielsadd_p1p1(p, pn, 1)), difference)
        /\ IsDonna(Device!p1p1_to_full(Device!ge_pnielsadd_p1p1(p, pn, 0)), sum)
        /\ IsDonna(Device!p1p1_to_full(Device!ge_pnielsadd_p1p1(p, pn, 1)), difference)
        /\ \A two \in {Donna!pnielsadd(p, pn)} :
              /\ two.z # 0
              /\ two = Donna!full_to_pniels(InDonna(sum, two.z))

\* An encoding is that of the point whatever its Z, and decodes to it; what no
\* point has for its y does not decode.
Encoding(u) == BitsOf(u[2]) \cup (IF u[1] % 2 = 1 THEN {7} ELSE {})
RefCodes(u) ==
    \A z \in {1, 5} : \A p \in {InRef(u, z)}, f \in {Ref!ge_frombytes_negate_vartime(Encoding(u))},
                         packed \in {Ref!ge_p3_batchtobytes_destructive_1(<<InRef(u, z), InRef(u, 3)>>)} :
        /\ Ref!ge_p3_tobytes(p) = Encoding(u) /\ Ref!ge_tobytes(Ref!ge_p3_to_p2(p)) = Encoding(u)
        /\ f.ok /\ IsRef(f.h, PointMinus(u))
        /\ \A i \in 1 .. 2 :
              Ref!ge_p3_batchtobytes_destructive_finish(packed.out[i], packed.in[i]) = Encoding(u)
DonnaCodes(u) ==
    \A z \in {1, 5} : \A p \in {InDonna(u, z)}, f \in {Donna!unpack_negative_vartime(Encoding(u))},
                         packed \in {Donna!batchpack_destructive_1(<<InDonna(u, z), InDonna(u, 3)>>)} :
        /\ Donna!pack(p) = Encoding(u)
        /\ f.ok /\ IsDonna(f.r, PointMinus(u))
        /\ \A i \in 1 .. 2 :
              Donna!batchpack_destructive_finish(packed.out[i], packed.in[i]) = Encoding(u)
NoPoint(y) ==
    \A sign \in {{}, {7}} :
        /\ ~Ref!ge_frombytes_negate_vartime(BitsOf(y) \cup sign).ok
        /\ ~Donna!unpack_negative_vartime(BitsOf(y) \cup sign).ok

\* The sum of a multiple of any point and one of the base point.
Combined(u) ==
    \A m \in {MultiplesOf(u, 4 * order)} : \A s, t \in {0, 1, 31, 4711, 8169} :
        \A sum \in {PointSum(m[s % (4 * order)], BaseMultiple(t))} :
            /\ Ref!ge_tobytes(Ref!ge_double_scalarmult_vartime(s, InRef(u, 3), t)) = Encoding(sum)
            /\ Donna!pack(Donna!double_scalarmult_vartime(InDonna(u, 3), s, t)) = Encoding(sum)

GroupQuestions == 0 .. prime - 1
GroupAnswer(y) ==
    LET here == {u \in CurvePoints : u[2] = y}
    IN  /\ \A u \in here :
              /\ \A v \in CurvePoints : RefSums(u, v, 1, 7) /\ DonnaSums(u, v, 5, 7)
              /\ RefCodes(u) /\ DonnaCodes(u)
              /\ u[1] % 6 = 1 => Combined(u)
        /\ here = {} => NoPoint(y)

-----------------------------------------------------------------------------
(* Keys. *)

\* The key of a scalar is the multiple of the base point for ref10 and donna.  A
\* batch of the device has the keys, eight apart, of the number that a0 makes
\* with the bytes behind it: those of a0 when these are zero.
KeyOfScalar(n) ==
    /\ Ref!crypto_sign_pubkey([low |-> n]) = Encoding(BaseMultiple(n))
    /\ Donna!pack(Donna!scalarmult_base_niels(Mod(n))) = Encoding(BaseMultiple(n))
    /\ \A behind \in {0, 1, n % 1000} : \A keys \in {Device!Keys(n, behind)} : \A i \in 1 .. 3 :
          keys[i] = Encoding(BaseMultiple(n + 65536 * behind + 8 * (i - 1)))
    /\ n % order # 0 =>
          \A y \in {BaseMultiple(n)[2]} :
              Donna!curved25519_scalarmult_basepoint(Mod(n)) = BitsOf(Mul(Add(1, y), Inverses[Sub(1, y)]))

\* ref10 and donna make the same scalar and the same key of a seed.
KeyOfSeed(seed) ==
    /\ Ref!crypto_sign_seckey_expand(seed) = Donna!extsk(seed)
    /\ Ref!crypto_sign_pubkey(Ref!crypto_sign_seckey_expand(seed)) = Donna!ed25519_publickey(seed)

KeyQuestions == 0 .. 31
KeyAnswer(n) ==
    /\ \A j \in 0 .. 7 : KeyOfScalar((n * 1021 + j * 37) % 32768)
    /\ KeyOfSeed(n)

-----------------------------------------------------------------------------
(* Signatures. *)

\* What one implementation signs the other accepts, and nothing else.
Signed(seed, message) ==
    \A sk \in {Ref!crypto_sign_seckey_expand(seed)}, pk \in {Donna!ed25519_publickey(seed)} :
    \A one \in {Ref!crypto_sign(message, sk)}, two \in {Donna!ed25519_sign(message, seed, pk)} :
        /\ one = [R |-> two.R, S |-> two.S, m |-> message]
        /\ Donna!ed25519_sign_open(message, pk, one) /\ Ref!crypto_sign_open(one, pk)
        /\ \A other \in {[one EXCEPT !.S = (@ + 1) % scalarOrder],
                         [one EXCEPT !.S = @ + 8192], [one EXCEPT !.m = 0]} :
              /\ ~Donna!ed25519_sign_open(other.m, pk, other) /\ ~Ref!crypto_sign_open(other, pk)

\* Of many, with weights that are no multiple of the order, the good ones are
\* found good at once, and a bad one among them is found.
Weight(i, n) == LET w == ((i * i * 5 + n * 11) % 63) + 1 IN IF w % order = 0 THEN w + 1 ELSE w
SignedTogether(n, size) ==
    \A m \in {[i \in 1 .. size |-> i * 3 + n]}, sk \in {[i \in 1 .. size |-> n + i]},
       r \in {[i \in 1 .. size |-> Weight(i, n)]} :
    \A pk \in {[i \in 1 .. size |-> Donna!ed25519_publickey(sk[i])]} :
    \A RS \in {[i \in 1 .. size |-> Donna!ed25519_sign(m[i], sk[i], pk[i])]} :
    \A bad \in {[i \in 1 .. size |->
                    IF i = 2 THEN [RS[i] EXCEPT !.S = (@ + 1) % scalarOrder] ELSE RS[i]]} :
        /\ Donna!ed25519_sign_open_batch(m, pk, RS, r) = [valid |-> 1 .. size, ret |-> {}]
        /\ Donna!ed25519_sign_open_batch(m, pk, bad, r)
              = [valid |-> (1 .. size) \ {2}, ret |-> IF size > 3 THEN {1, 2} ELSE {1}]

\* The point that is left of a batch is multiplied by another number than the
\* scalar that is left, and the result is still neutral exactly when it should
\* be, since both numbers have the same factors of two.  Multiples of the order
\* are left out: the program's is longer than finalBits.
Final(u, s) ==
    LET taken == s + 2 ^ (Max({n \in 0 .. 6 : 2 ^ n <= s}) + 1)
    IN  \A m \in {MultiplesOf(u, 4 * order)}, r \in {Donna!multi_scalarmult_vartime_final(InDonna(u, 3), s)} :
          /\ IsDonna(r, IF s < 2 THEN m[s] ELSE m[taken % (4 * order)])
          /\ s % order # 0 /\ taken % order # 0 =>
                (Donna!is_neutral_vartime(r) <=> m[s] = <<0, 1>>)

SignatureQuestions == 0 .. 23
SignatureAnswer(n) ==
    /\ \A u \in CurvePoints : u[2] % 24 = n => \A s \in 0 .. 63 : Final(u, s)
    /\ \A message \in 1 .. 4 : Signed(n, message)
    /\ SignedTogether(n, 3 + (n % 7))
=============================================================================
