---------------------------- MODULE FieldChecks ----------------------------
(***************************************************************************)
(* The three fields with small limbs, compared with the residues of their  *)
(* numbers modulo a divisor of the prime they stand for; the formulas of   *)
(* the curve on such limbs; and the chains of powers, on exponents.        *)
(*                                                                         *)
(* Ref10Field has ten limbs of 8 and 7 bits for 2^75 - 19.  DonnaField has *)
(* five of 11 bits in words of 24 for 2^55 - 3: thirteen bits to spare, as *)
(* 51 bits have in words of 64.  Donna32Field has ten of 8 and 7 bits in   *)
(* words of 14 for 2^75 - 3: six to spare, as 26 bits have in words of 32. *)
(***************************************************************************)
EXTENDS Integers, Sequences, FiniteSets, FiniteSetsExt, SequencesExt

R == INSTANCE Ref10Field WITH Even <- 8, Odd <- 7, Fold <- 19, ByteBits <- 3
RefDivisor == 2251

F == INSTANCE DonnaField WITH Width <- 11, Fold <- 3, Word <- 2 ^ 24
DonnaDivisor == 2621

T == INSTANCE Donna32Field WITH Even <- 8, Odd <- 7, Fold <- 3, Word <- 2 ^ 14
Donna32Divisor == 3095

\* The number with the digits f[count - 1] ... f[0].
Residue(f, Scale(_), count, divisor) ==
    FoldLeft(LAMBDA r, i : (f[i] + Scale(i) * r) % divisor, 0, [n \in 1 .. count |-> count - n])

RefValue(f) == Residue(f, LAMBDA i : 2 ^ R!Width(i), 10, RefDivisor)
Donna32Value(f) == Residue(f, LAMBDA i : 2 ^ T!Width(i), 10, Donna32Divisor)
DonnaValue(f) == Residue(f, LAMBDA i : 2 ^ 11, 5, DonnaDivisor)

\* The same for a byte string of five parts of `width' bits.
BitsValue(s, width, divisor) ==
    Residue([i \in 0 .. 4 |-> F!Part(s, i * width, width)], LAMBDA i : 2 ^ width, 5, divisor)

\* Sample q: the greatest limbs the operation is made for, the least, none, and
\* others; `most' is the greatest limb i.
Noise(q, i) == (((q % 7) + 3) * (i + 7) * (i + q) * 1009 + q * q * 77) % 30011
RefSample(q) ==
    [i \in 0 .. 9 |->
        LET most == 2 ^ (R!Width(i) - 1) * (1 + (q % 2))
        IN  CASE q < 2 -> most
              [] q \in 2 .. 3 -> -most
              [] q = 4 -> 0
              [] OTHER -> (Noise(q, i) % (2 * most + 1)) - most]
Donna32Sample(q) ==
    [i \in 0 .. 9 |->
        LET most == 2 ^ T!Width(i) * (1 + (q % 2)) - 1
        IN  CASE q < 2 -> most
              [] q = 2 -> 0
              [] q \in 3 .. 6 -> IF i = 0 THEN 2 ^ 8 - q + 1 ELSE 2 ^ T!Width(i) - 1 \* the prime and above
              [] OTHER -> Noise(q, i) % (most + 1)]
DonnaSample(q) ==
    [i \in 0 .. 4 |->
        LET most == 2 ^ 11 * (1 + (q % 2)) - 1
        IN  CASE q < 2 -> most
              [] q = 2 -> 0
              [] q \in 3 .. 6 -> IF i = 0 THEN 2 ^ 11 - q + 1 ELSE 2 ^ 11 - 1 \* the prime and above
              [] OTHER -> Noise(q, i) % (most + 1)]

\* In 0 .. prime - 1, the prime being 2^count less a few below 2^few.
Canonical(s, count, few, fold) ==
    /\ s \subseteq 0 .. count - 1
    /\ few .. count - 1 \subseteq s => F!Number(s \cap (0 .. few - 1)) < 2 ^ few - fold

\* Sums, products, squares and encodings of f and g are those of their numbers.
Ref10Right(f, g) ==
    \A product \in {R!fe_mul(f, g)}, bytes \in {R!fe_tobytes(f)} :
        /\ RefValue(product) = (RefValue(f) * RefValue(g)) % RefDivisor
        /\ R!fe_sq(f) = R!fe_mul(f, f)
        /\ RefValue(R!fe_sq2(f)) = (2 * RefValue(f) * RefValue(f)) % RefDivisor
        /\ BitsValue(bytes, 15, RefDivisor) = RefValue(f)
        /\ Canonical(bytes, 75, 5, 19)
        /\ R!fe_tobytes(R!fe_frombytes(bytes)) = bytes
        /\ ~R!fe_isnonzero(R!fe_sub(f, f))
        /\ R!fe_tobytes(R!fe_add(product, R!fe_neg(R!fe_mul(g, f)))) = {}
        /\ R!fe_isnegative(f) = 1 <=> 0 \in bytes
        /\ R!fe_cmov(f, g, 0) = R!fe_copy(f) /\ R!fe_cmov(f, g, 1) = g

DonnaRight(f, g) ==
    \A vf \in {DonnaValue(f)}, vg \in {DonnaValue(g)}, bytes \in {F!curve25519_contract(f)},
       product \in {F!curve25519_mul(f, g)} :
        /\ DonnaValue(product) = (vf * vg) % DonnaDivisor
        /\ F!curve25519_square(f) = F!curve25519_mul(f, f)
        /\ DonnaValue(F!curve25519_square_times(f, 2)) = (((vf * vf) % DonnaDivisor) ^ 2) % DonnaDivisor
        /\ DonnaValue(F!curve25519_add(f, g)) = (vf + vg) % DonnaDivisor
        /\ DonnaValue(F!curve25519_add_reduce(f, g)) = (vf + vg) % DonnaDivisor
        /\ DonnaValue(F!curve25519_sub_reduce(f, g)) = (vf - vg) % DonnaDivisor
        /\ DonnaValue(F!curve25519_sub_after_basic(f, g)) = (vf - vg) % DonnaDivisor
        /\ DonnaValue(F!curve25519_neg(product)) = (-(vf * vg)) % DonnaDivisor
        /\ BitsValue(bytes, 11, DonnaDivisor) = vf
        /\ Canonical(bytes, 55, 2, 3)
        /\ F!curve25519_contract(F!curve25519_expand(bytes)) = bytes
        /\ \A bit \in 0 .. 1 :
              /\ F!curve25519_move_conditional_bytes(f, g, bit) = <<f, g>>[bit + 1]
              /\ F!curve25519_swap_conditional(f, g, bit) = <<<<f, g>>, <<g, f>>>>[bit + 1]

Donna32Right(f, g) ==
    \A vf \in {Donna32Value(f)}, vg \in {Donna32Value(g)}, bytes \in {T!curve25519_contract(f)},
       product \in {T!curve25519_mul(f, g)} :
        /\ Donna32Value(product) = (vf * vg) % Donna32Divisor
        /\ T!curve25519_square(f) = T!curve25519_mul(f, f)
        /\ T!curve25519_square_times(f, 2) = T!curve25519_square(T!curve25519_square(f))
        /\ Donna32Value(T!curve25519_add(f, g)) = (vf + vg) % Donna32Divisor
        /\ Donna32Value(T!curve25519_add_after_basic(f, g)) = (vf + vg) % Donna32Divisor
        /\ Donna32Value(T!curve25519_add_reduce(f, g)) = (vf + vg) % Donna32Divisor
        /\ Donna32Value(T!curve25519_sub(f, product)) = (vf - vf * vg) % Donna32Divisor
        /\ Donna32Value(T!curve25519_sub_after_basic(f, g)) = (vf - vg) % Donna32Divisor
        /\ Donna32Value(T!curve25519_sub_reduce(f, g)) = (vf - vg) % Donna32Divisor
        /\ Donna32Value(T!curve25519_neg(product)) = (-(vf * vg)) % Donna32Divisor
        /\ BitsValue(bytes, 15, Donna32Divisor) = vf
        /\ Canonical(bytes, 75, 2, 3)
        /\ T!curve25519_contract(T!curve25519_expand(bytes)) = bytes
        /\ \A bit \in 0 .. 1 :
              /\ T!curve25519_move_conditional_bytes(f, g, bit) = <<f, g>>[bit + 1]
              /\ T!curve25519_swap_conditional(f, g, bit) = <<<<f, g>>, <<g, f>>>>[bit + 1]

-----------------------------------------------------------------------------
(* The formulas on limbs, and on residues; nothing is inverted or packed. *)

Same(x) == x
NoMultiple(n) == <<n, n>>
NoDigits1(s) == <<s>>
NoDigits2(s, w) == <<s, w>>

OnLimbs == INSTANCE CudaGroup WITH
    zero <- F!Table(LAMBDA i : 0, 5), one <- F!Table(LAMBDA i : IF i = 0 THEN 1 ELSE 0, 5),
    two <- F!Table(LAMBDA i : IF i = 0 THEN 2 ELSE 0, 5),
    ecd <- DonnaSample(9), ec2d <- DonnaSample(10), sqrtneg1 <- DonnaSample(11),
    add <- F!curve25519_add, sub <- F!curve25519_sub,
    add_after_basic <- F!curve25519_add_after_basic,
    sub_after_basic <- F!curve25519_sub_after_basic,
    add_reduce <- F!curve25519_add_reduce, sub_reduce <- F!curve25519_sub_reduce,
    neg <- F!curve25519_neg, mul <- F!curve25519_mul, square <- F!curve25519_square,
    recip <- Same, batchrecip <- Same, pow_two252m3 <- Same,
    expand <- F!curve25519_expand, contract <- F!curve25519_contract,
    Multiple <- NoMultiple, contract256_window4_modm <- NoDigits1,
    contract256_slidingwindow_modm <- NoDigits2, Scalars <- 16, SignBit <- 55,
    eightz <- DonnaSample(12), expand256_modm <- NoDigits2, CUDA_BATCH <- 1

Plus(x, y) == (x + y) % DonnaDivisor
Minus(x, y) == (x - y) % DonnaDivisor
Negative(x) == (-x) % DonnaDivisor
Times(x, y) == (x * y) % DonnaDivisor
Squared(x) == (x * x) % DonnaDivisor

OnResidues == INSTANCE CudaGroup WITH
    zero <- 0, one <- 1, two <- 2,
    ecd <- DonnaValue(DonnaSample(9)), ec2d <- DonnaValue(DonnaSample(10)),
    sqrtneg1 <- DonnaValue(DonnaSample(11)),
    add <- Plus, sub <- Minus, add_after_basic <- Plus, sub_after_basic <- Minus,
    add_reduce <- Plus, sub_reduce <- Minus, neg <- Negative, mul <- Times, square <- Squared,
    recip <- Same, batchrecip <- Same, pow_two252m3 <- Same, expand <- Same, contract <- Same,
    Multiple <- NoMultiple, contract256_window4_modm <- NoDigits1,
    contract256_slidingwindow_modm <- NoDigits2, Scalars <- 16, SignBit <- 55,
    eightz <- DonnaValue(DonnaSample(12)), expand256_modm <- NoDigits2, CUDA_BATCH <- 1

Values(p) == [c \in DOMAIN p |-> DonnaValue(p[c])]

\* Coordinates as a product leaves them: full limbs, the second above its width.
Coordinate(q) ==
    IF q % 3 = 0 THEN [F!Table(LAMBDA i : 2 ^ 11 - 1, 5) EXCEPT ![1] = 2 ^ 11 + 2 ^ 5]
    ELSE F!curve25519_mul(DonnaSample(q), DonnaSample(q + 1))
Coordinates(q) ==
    [x |-> Coordinate(q), y |-> Coordinate(q \div 2), z |-> Coordinate(q + 2),
     t |-> Coordinate(q \div 3)]

\* No limb of a sum of points wraps: the result is that of the residues.
LimbsSuffice(q) ==
    \A p \in {Coordinates(q)}, r \in {Coordinates(q + 5)} :
    \A vp \in {Values(p)}, vr \in {Values(r)} :
        /\ Values(OnLimbs!ge_add(p, r)) = OnResidues!ge_add(vp, vr)
        /\ Values(OnLimbs!double(p)) = OnResidues!double(vp)
        /\ Values(OnLimbs!double_partial(p)) = OnResidues!double_partial(vp)
        /\ Values(OnLimbs!pnielsadd(p, OnLimbs!full_to_pniels(r)))
              = OnResidues!pnielsadd(vp, OnResidues!full_to_pniels(vr))
        /\ \A niels \in {[ysubx |-> r.x, xaddy |-> r.y, t2d |-> r.t]} :
           \A signbit \in 0 .. 1 :
              /\ Values(OnLimbs!nielsadd2(p, niels)) = OnResidues!nielsadd2(vp, Values(niels))
              /\ Values(OnLimbs!p1p1_to_full(OnLimbs!nielsadd2_p1p1(p, niels, signbit)))
                    = OnResidues!p1p1_to_full(OnResidues!nielsadd2_p1p1(vp, Values(niels), signbit))
              /\ Values(OnLimbs!p1p1_to_full(
                     OnLimbs!pnielsadd_p1p1(p, OnLimbs!full_to_pniels(r), signbit)))
                    = OnResidues!p1p1_to_full(
                         OnResidues!pnielsadd_p1p1(vp, OnResidues!full_to_pniels(vr), signbit))
              /\ Values(OnLimbs!p1p1_to_full(
                     OnLimbs!ge_pnielsadd_p1p1(p, OnLimbs!full_to_pniels(r), signbit)))
                    = OnResidues!p1p1_to_full(
                         OnResidues!ge_pnielsadd_p1p1(vp, OnResidues!full_to_pniels(vr), signbit))

\* The same for the formulas of 32-bit machines, which have less to spare.
OnLimbs32 == INSTANCE DonnaGroup WITH
    zero <- T!Table(LAMBDA i : 0, 10), one <- T!Table(LAMBDA i : IF i = 0 THEN 1 ELSE 0, 10),
    two <- T!Table(LAMBDA i : IF i = 0 THEN 2 ELSE 0, 10),
    ecd <- Donna32Sample(24), ec2d <- Donna32Sample(26), sqrtneg1 <- Donna32Sample(28),
    add <- T!curve25519_add, sub <- T!curve25519_sub,
    add_after_basic <- T!curve25519_add_after_basic,
    sub_after_basic <- T!curve25519_sub_after_basic,
    add_reduce <- T!curve25519_add_reduce, sub_reduce <- T!curve25519_sub_reduce,
    neg <- T!curve25519_neg, mul <- T!curve25519_mul, square <- T!curve25519_square,
    recip <- Same, batchrecip <- Same, pow_two252m3 <- Same,
    expand <- T!curve25519_expand, contract <- T!curve25519_contract,
    Multiple <- NoMultiple, contract256_window4_modm <- NoDigits1,
    contract256_slidingwindow_modm <- NoDigits2, Scalars <- 16, SignBit <- 75

Plus32(x, y) == (x + y) % Donna32Divisor
Minus32(x, y) == (x - y) % Donna32Divisor
Negative32(x) == (-x) % Donna32Divisor
Times32(x, y) == (x * y) % Donna32Divisor
Squared32(x) == (x * x) % Donna32Divisor

OnResidues32 == INSTANCE DonnaGroup WITH
    zero <- 0, one <- 1, two <- 2,
    ecd <- Donna32Value(Donna32Sample(24)), ec2d <- Donna32Value(Donna32Sample(26)),
    sqrtneg1 <- Donna32Value(Donna32Sample(28)),
    add <- Plus32, sub <- Minus32, add_after_basic <- Plus32, sub_after_basic <- Minus32,
    add_reduce <- Plus32, sub_reduce <- Minus32, neg <- Negative32, mul <- Times32,
    square <- Squared32,
    recip <- Same, batchrecip <- Same, pow_two252m3 <- Same, expand <- Same, contract <- Same,
    Multiple <- NoMultiple, contract256_window4_modm <- NoDigits1,
    contract256_slidingwindow_modm <- NoDigits2, Scalars <- 16, SignBit <- 75

Values32(p) == [c \in DOMAIN p |-> Donna32Value(p[c])]

Coordinate32(q) ==
    IF q % 3 = 0 THEN T!Table(LAMBDA i : 2 ^ T!Width(i) + (IF i = 1 THEN 2 ^ 3 ELSE -1), 10)
    ELSE T!curve25519_mul(Donna32Sample(q), Donna32Sample(q + 1))
Coordinates32(q) ==
    [x |-> Coordinate32(q), y |-> Coordinate32(q \div 2), z |-> Coordinate32(q + 2),
     t |-> Coordinate32(q \div 3)]

LimbsSuffice32(q) ==
    \A p \in {Coordinates32(q)}, r \in {Coordinates32(q + 5)} :
    \A vp \in {Values32(p)}, vr \in {Values32(r)} :
    \A niels \in {[ysubx |-> r.x, xaddy |-> r.y, t2d |-> r.t]} :
        /\ Values32(OnLimbs32!ge_add(p, r)) = OnResidues32!ge_add(vp, vr)
        /\ Values32(OnLimbs32!double(p)) = OnResidues32!double(vp)
        /\ Values32(OnLimbs32!double_partial(p)) = OnResidues32!double_partial(vp)
        /\ Values32(OnLimbs32!pnielsadd(p, OnLimbs32!full_to_pniels(r)))
              = OnResidues32!pnielsadd(vp, OnResidues32!full_to_pniels(vr))
        /\ Values32(OnLimbs32!nielsadd2(p, niels)) = OnResidues32!nielsadd2(vp, Values32(niels))
        /\ \A signbit \in 0 .. 1 :
              /\ Values32(OnLimbs32!p1p1_to_full(OnLimbs32!nielsadd2_p1p1(p, niels, signbit)))
                    = OnResidues32!p1p1_to_full(
                         OnResidues32!nielsadd2_p1p1(vp, Values32(niels), signbit))
              /\ Values32(OnLimbs32!p1p1_to_full(
                     OnLimbs32!pnielsadd_p1p1(p, OnLimbs32!full_to_pniels(r), signbit)))
                    = OnResidues32!p1p1_to_full(
                         OnResidues32!pnielsadd_p1p1(vp, OnResidues32!full_to_pniels(vr), signbit))

-----------------------------------------------------------------------------
(* The exponents of the chains of powers, as sets of bits. *)

RECURSIVE BitSum(_, _)
BitSum(s, t) ==
    IF t = {} THEN s ELSE BitSum((s \cup t) \ (s \cap t), {n + 1 : n \in s \cap t})

Exponents == INSTANCE Powers WITH
    sq <- LAMBDA e : {n + 1 : n \in e}, mul <- BitSum, one <- {}, invert <- Same

\* 2^252 - 3 and 2^255 - 21.
PowersRight ==
    /\ Exponents!pow22523({0}) = {0} \cup 2 .. 251
    /\ Exponents!curve25519_pow_two252m3({0}) = {0} \cup 2 .. 251
    /\ Exponents!fe25519_pow2523({0}) = {0} \cup 2 .. 251
    /\ Exponents!pow225521({0}) = {0, 1, 3} \cup 5 .. 254
    /\ Exponents!curve25519_recip({0}) = {0, 1, 3} \cup 5 .. 254
    /\ Exponents!fe25519_invert({0}) = {0, 1, 3} \cup 5 .. 254

-----------------------------------------------------------------------------

\* Samples of ref10, then those of donna, then coordinates, then the powers, and
\* then samples and coordinates of 32-bit machines.
FieldQuestions == 0 .. 162
FieldAnswer(q) ==
    CASE q < 36 -> \A n \in 0 .. 11 : Ref10Right(RefSample(q), RefSample(3 * n))
      [] q \in 36 .. 71 -> \A n \in 0 .. 11 : DonnaRight(DonnaSample(q - 36), DonnaSample(3 * n))
      [] q \in 72 .. 98 -> LimbsSuffice(q - 72)
      [] q = 99 -> PowersRight
      [] q \in 100 .. 135 ->
            \A n \in 0 .. 11 : Donna32Right(Donna32Sample(q - 100), Donna32Sample(3 * n))
      [] q \in 136 .. 162 -> LimbsSuffice32(q - 136)
=============================================================================
