-------------------------------- MODULE Modm --------------------------------
(***************************************************************************)
(* Scalars modulo the order of the base point in limbs, reduced by         *)
(* Barrett's method, and their digits for the multiplication of points:    *)
(* five limbs of 56 bits (modm-donna-64bit.h, and the same code for the    *)
(* device in cuda_ed25519.cuh) or nine of 30 (modm-donna-32bit.h, which    *)
(* has its own comparisons and digits).                                    *)
(*                                                                         *)
(* A number of 256 bits is 32 bytes; the sizes of a byte, of a limb and of *)
(* a word are constants.  Words wrap, sums of products do not.             *)
(***************************************************************************)
EXTENDS Digits

CONSTANTS
    ByteBits,     \* 8
    Count,        \* limbs, 5 or 9
    LimbBits,     \* 56 or 30
    Word,         \* 2^64 or 2^32
    CarryWord,    \* what the carry of a column is kept in, 2^64
    Quad,         \* bits of a digit, 4
    modm_m,       \* limbs of the order
    modm_mu       \* limbs of 2^512 divided by the order

Bytes(n) == n * ByteBits
Full == 2 ^ LimbBits

\* The bits of the last limb that belong to the first `bytes' bytes.
LastBits(bytes) == Bytes(bytes) - (Count - 1) * LimbBits

lt_modm(a, b) == IF (a - b) % Word >= Word \div 2 THEN 1 ELSE 0

\* What limb i of a difference borrows from the next.
Borrows(x, y) == Chain(LAMBDA i, below : lt_modm(x[i], y[i] + below), Count)

\* x - y with borrow b, of which one is worth `last' in the last limb.
Minus(x, y, b, last) ==
    Table(LAMBDA i : (x[i] - y[i] - (IF i = 0 THEN 0 ELSE b[i - 1])
                        + b[i] * (IF i = Count - 1 THEN last ELSE Full)) % Word, Count)

\* Mutant of reduce256_modm: the number is taken for smaller than the order
\* when its last limb is not larger.
reduce256_modmLast(r) ==
    LET b == Borrows(r, modm_m)
    IN  IF r[Count - 1] <= modm_m[Count - 1] THEN r
        ELSE Minus(r, modm_m, b, 2 ^ LastBits(32))

reduce256_modm(r) ==
    LET b == Borrows(r, modm_m)
    IN  IF b[Count - 1] = 1 THEN r ELSE Minus(r, modm_m, b, 2 ^ LastBits(32))

\* The first columns of a product, each with the carry of the one before it;
\* those below `first' are taken for 0.
Columns(x, y, first, count) ==
    Chain(LAMBDA k, below :
             IF k < first THEN 0
             ELSE ((below \div Full) % CarryWord)
                  + MapThenSumSet(LAMBDA i : x[i] * y[k - i],
                                  {i \in 0 .. Count - 1 : k - i \in 0 .. Count - 1}), count)

\* The limbs that begin where the first `bytes' bytes end, from the last of the
\* lower columns on.
Upper(c, bytes) ==
    LET low == LastBits(bytes)
        high == LimbBits - low
    IN  Table(LAMBDA i :
                ((c[i + Count - 1] \div 2 ^ low) % 2 ^ high)
                + 2 ^ high * (IF i < Count - 1 THEN c[i + Count] % 2 ^ low
                              ELSE (c[2 * Count - 2] \div Full) % Word),
              Count)

\* The lowest 33 bytes.
Lower(c) == Table(LAMBDA i : c[i] % (IF i = Count - 1 THEN 2 ^ LastBits(33) ELSE Full), Count)

\* The quotient is estimated without the lowest columns, and is too small by two
\* at most.
barrett_reduce256_modm(q1, r1) ==
    LET q3 == Upper(Columns(modm_mu, q1, Count - 2, 2 * Count - 1), 33)
        r2 == Lower(Columns(modm_m, q3, 0, Count))
    IN  reduce256_modm(reduce256_modm(Minus(r1, r2, Borrows(r1, r2), 2 ^ LastBits(33))))

add256_modm(x, y) ==
    LET c == Chain(LAMBDA i, below : (x[i] + y[i] + (below \div Full)) % Word, Count)
    IN  reduce256_modm(Table(LAMBDA i : IF i = Count - 1 THEN c[i] ELSE c[i] % Full, Count))

mul256_modm(x, y) ==
    LET c == Columns(x, y, 0, 2 * Count - 1) IN barrett_reduce256_modm(Upper(c, 31), Lower(c))

\* Of up to 64 bytes; fewer than 32 are not reduced.
First33(in) ==
    Table(LAMBDA i :
            Part(in, LimbBits * i, IF i = Count - 1 THEN LastBits(33) ELSE LimbBits), Count)
expand256_modm(in, len) ==
    IF len < 32 THEN First33(in)
    ELSE barrett_reduce256_modm(
            Table(LAMBDA i : Part(in, Bytes(31) + LimbBits * i, LimbBits), Count), First33(in))

\* On the device, with seven bytes to a limb, always of 64 bytes, of which those
\* from the 57th on come a byte too low in the fourth limb, where they meet the
\* 56th.
Device(in, i) ==
    IF i # 3 THEN Part(in, Bytes(31 + 7 * i), Bytes(7))
    ELSE Number({b - Bytes(52) : b \in in \cap (Bytes(52) .. Bytes(56) - 1)}
                  \cup {b - Bytes(53) : b \in in \cap (Bytes(56) .. Bytes(60) - 1)})
expand256_modm_device(in) ==
    barrett_reduce256_modm(Table(LAMBDA i : Device(in, i), 5), First33(in))

expand_raw256_modm(in) ==
    Table(LAMBDA i :
            Part(in, LimbBits * i, IF i = Count - 1 THEN LastBits(32) ELSE LimbBits), Count)
contract256_modm(in) == Bits(in, Count, LimbBits) \cap (0 .. Bytes(32) - 1)

\* Digits with a sign: those above the half are lowered, and the next raised.
contract256_window4_modm(in) ==
    LET bits == contract256_modm(in)
        count == Bytes(32) \div Quad
    IN  SignedDigits(Table(LAMBDA i : Part(bits, i * Quad, Quad), count), count - 1, Quad)

contract256_slidingwindow_modm(s, windowsize) ==
    Slide(contract256_modm(s), Bytes(32), 2 ^ (windowsize - 1) - 1)

\* A limb of 30 bits ends amid a digit: of two limbs the second goes on where
\* the first leaves two bits over.
contract256_window4_modm_32bit(in) ==
    LET pair == (2 * LimbBits) \div Quad
        first == LimbBits \div Quad
        Digit(limb, j) == (limb \div 2 ^ (j * Quad)) % 2 ^ Quad
        Joined(i) == (in[i] \div 2 ^ (first * Quad)) + ((in[i + 1] * 2 ^ (LimbBits % Quad)) % Word)
        count == Bytes(32) \div Quad
    IN  SignedDigits(Table(LAMBDA n :
            LET i == 2 * (n \div pair)
                j == n % pair
            IN  IF i = Count - 1 \/ j < first THEN Digit(in[i], j) ELSE Digit(Joined(i), j - first),
            count), count - 1, Quad)

-----------------------------------------------------------------------------
(* For the verification of many signatures: the limbs up to `limbsize'. *)

Differences(a, b, limbsize) ==
    Chain(LAMBDA i, below : (a[i] - b[i] - (IF below >= Word \div 2 THEN 1 ELSE 0)) % Word,
          limbsize + 1)

sub256_modm_batch(a, b, limbsize) ==
    LET t == Differences(a, b, limbsize)
    IN  Table(LAMBDA i : CASE i > limbsize -> a[i]
                           [] i = limbsize -> t[i]
                           [] i < limbsize -> t[i] % Full, Count)

lt256_modm_batch(a, b, limbsize) == Differences(a, b, limbsize)[limbsize] >= Word \div 2
lte256_modm_batch(a, b, limbsize) == ~lt256_modm_batch(b, a, limbsize)

iszero256_modm_batch(a) == \A i \in 0 .. Count - 1 : a[i] = 0
isone256_modm_batch(a) == \A i \in 0 .. Count - 1 : a[i] = (IF i = 0 THEN 1 ELSE 0)
isatmost128bits256_modm_batch(a) ==
    \A i \in 0 .. Count - 1 :
        (i + 1) * LimbBits > Bytes(16) => a[i] < 2 ^ Max({0, Bytes(16) - i * LimbBits})

\* 32-bit machines compare from the highest limb down.
lt256_modm_batch_32bit(a, b, limbsize) ==
    \E i \in 0 .. limbsize : a[i] < b[i] /\ \A j \in i + 1 .. limbsize : a[j] = b[j]
lte256_modm_batch_32bit(a, b, limbsize) == ~lt256_modm_batch_32bit(b, a, limbsize)
=============================================================================
