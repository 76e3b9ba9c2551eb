----------------------------- MODULE Ref10Scalar -----------------------------
(***************************************************************************)
(* Scalars modulo the order of the base point, as ed25519/ref10 reduces    *)
(* them: limbs of 21 bits, of which those beyond the twelfth are folded    *)
(* back, and only as many carries as the sums need (sc_reduce.c,           *)
(* sc_muladd.c).                                                           *)
(*                                                                         *)
(* The width and the digits of 2^252 modulo the order are constants.  A    *)
(* byte string is the set of its bits that are 1.                          *)
(***************************************************************************)
EXTENDS Limbs

CONSTANTS
    Width, \* 21
    Digits \* <<666643, 470296, 654183, -997805, 136657, -683901>>

Places == 0 .. 23
BitsOf(n, count) == {b \in 0 .. count - 1 : (n \div 2 ^ b) % 2 = 1}

\* The limbs of a string of `count' limbs; the last takes all that is left.
Load(s, count) ==
    [i \in Places |->
        IF i >= count THEN 0
        ELSE Number({b - i * Width : b \in {c \in s : i * Width <= c
                                                /\ (i < count - 1 => c < (i + 1) * Width)}})]

\* Mutant of Fold: the limb that was folded stays.
FoldKept(s, n) ==
    [i \in Places |-> IF i \in n - 12 .. n - 7 THEN s[i] + s[n] * Digits[i - n + 13] ELSE s[i]]

\* Limb n stands for its multiple of 2^252 and is added where that begins.
Fold(s, n) ==
    [i \in Places |-> CASE i = n -> 0
                       [] i \in n - 12 .. n - 7 -> s[i] + s[n] * Digits[i - n + 13]
                       [] OTHER -> s[i]]

\* A carry to the nearest, and one downwards.
Round(s, i) ==
    LET carry == (s[i] + 2 ^ (Width - 1)) \div 2 ^ Width
    IN  [s EXCEPT ![i] = @ - carry * 2 ^ Width, ![i + 1] = @ + carry]
Carry(s, i) == [s EXCEPT ![i] = @ % 2 ^ Width, ![i + 1] = @ + (s[i] \div 2 ^ Width)]

\* Every other limb, and then those between.
EveryOther(from, to) == [k \in 1 .. (to - from) \div 2 + 1 |-> from + 2 * (k - 1)]
Rounds(s, from, to) ==
    Turns(Round, Turns(Round, s, EveryOther(from, to)), EveryOther(from + 1, to))
Carries(s, to) == Turns(Carry, s, [k \in 1 .. to + 1 |-> k - 1])

\* From 24 limbs to twelve.
FoldHigh(s) ==
    LET upper == Turns(Fold, s, <<23, 22, 21, 20, 19, 18>>)
        lower == Turns(Fold, Rounds(upper, 6, 16), <<17, 16, 15, 14, 13, 12>>)
    IN  Rounds(lower, 0, 11)

\* The last two folds leave a number below the order.
FoldLast(s) == Carries(Fold(Carries(Fold(s, 12), 11), 12), 10)

Stored(s) == UNION {{i * Width + b : b \in BitsOf(s[i], Width + 4)} : i \in 0 .. 11}

sc_reduce(s) == Stored(FoldLast(FoldHigh(Load(s, 24))))

Products(a, b, c) ==
    [k \in Places |->
        c[k] + MapThenSumSet(LAMBDA i : a[i] * b[k - i], {i \in 0 .. 11 : k - i \in 0 .. 11})]

sc_muladd(a, b, c) ==
    Stored(FoldLast(FoldHigh(Rounds(Products(Load(a, 12), Load(b, 12), Load(c, 12)), 0, 22))))
=============================================================================
