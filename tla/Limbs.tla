-------------------------------- MODULE Limbs --------------------------------
(***************************************************************************)
(* Numbers held in limbs, and byte strings, which are the sets of their    *)
(* bits that are 1.  A number is a function on 0 .. n - 1.                 *)
(***************************************************************************)
EXTENDS Integers, FiniteSets, FiniteSetsExt, Sequences, SequencesExt

UpTo(n) == [i \in 1 .. n |-> i - 1]

\* The number itself; comparing it has TLC compute each limb once.
Computed(f) == IF f = <<>> THEN <<>> ELSE f

\* The limbs F(0), ..., F(n - 1).
Table(F(_), n) == Computed([i \in 0 .. n - 1 |-> F(i)])

\* The same where each is computed from the one before, the first from 0.
Chain(F(_, _), n) ==
    LET f[i \in 0 .. n - 1] == F(i, IF i = 0 THEN 0 ELSE f[i - 1])
    IN  Computed(f)

\* F(v); comparing v has TLC compute it first.
With(v, F(_)) == IF v = <<>> THEN F(<<>>) ELSE F(v)

\* The fold of s, each turn computed before the next.
Turns(Turn(_, _), start, s) ==
    LET r[n \in 0 .. Len(s)] ==
            IF n = 0 THEN start ELSE With(r[n - 1], LAMBDA last : Turn(last, s[n]))
    IN  With(start, LAMBDA first : r[Len(s)])

Number(bits) == SumSet({2 ^ b : b \in bits})

\* The bits of s from `first' on, `count' of them, as a number.
Part(s, first, count) == Number({b - first : b \in s \cap (first .. first + count - 1)})

\* The other way round: the bits of n limbs of `width' bits.
Bits(f, n, width) ==
    UNION {{i * width + b : b \in {c \in 0 .. width - 1 : (f[i] \div 2 ^ c) % 2 = 1}} :
              i \in 0 .. n - 1}
=============================================================================
