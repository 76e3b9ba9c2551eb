------------------------------- MODULE Digits -------------------------------
(***************************************************************************)
(* Numbers as digits with a sign, for multiplying points: of a fixed       *)
(* number of bits, for the multiples of the base point in a table, and in  *)
(* sliding windows, for few additions of odd multiples                     *)
(* (ge_scalarmult_base.c, ge_double_scalarmult.c, sc25519_slide.c and      *)
(* modm-donna-64bit.h).                                                    *)
(***************************************************************************)
EXTENDS Limbs

\* Digits between -half and half for those of `bits' bits; the last digit takes
\* what is left.
SignedDigits(digits, last, bits) ==
    LET Carry(sum) == (sum + 2 ^ (bits - 1)) \div 2 ^ bits
        sums == Chain(LAMBDA i, below : digits[i] + Carry(below), last + 1)
    IN  Table(LAMBDA i : IF i = last THEN sums[i] ELSE sums[i] - 2 ^ bits * Carry(sums[i]),
              last + 1)

\* The first digit at k or above that is 0 becomes 1, those below it 0.
CarryInto(r, k) ==
    LET zeros == {n \in DOMAIN r : n >= k /\ r[n] = 0}
        first == IF zeros = {} THEN k - 1 ELSE Min(zeros)
    IN  Table(LAMBDA n : CASE n < k \/ (zeros # {} /\ n > first) -> r[n]
                           [] n >= k /\ n = first -> 1
                           [] OTHER -> 0, Cardinality(DOMAIN r))

\* Mutant of TakeUp: a digit that is taken up from above is left there too.
TakeUpTwice(r, i, b, most) ==
    LET by == r[i + b] * 2 ^ b
    IN  IF r[i] + by <= most THEN [r EXCEPT ![i] = @ + by]
        ELSE CarryInto([r EXCEPT ![i] = @ - by], i + b)

\* Digit i + b is added to digit i, or subtracted and a one carried on.
TakeUp(r, i, b, most) ==
    LET by == r[i + b] * 2 ^ b
    IN  IF r[i] + by <= most THEN [r EXCEPT ![i] = @ + by, ![i + b] = 0]
        ELSE CarryInto([r EXCEPT ![i] = @ - by], i + b)

\* Digit i takes up those of the next six that leave it within `most' of zero;
\* `on' says that none has stopped the loop.
Window(digits, i, most) ==
    LET Turn(s, b) ==
            LET digit == s.r[i]
                by == s.r[i + b] * 2 ^ b
            IN  IF ~s.on \/ by = 0 THEN s
                ELSE IF digit + by > most /\ digit - by < -most THEN [s EXCEPT !.on = FALSE]
                ELSE [s EXCEPT !.r = TakeUp(s.r, i, b, most)]
        ahead == SelectSeq(<<1, 2, 3, 4, 5, 6>>, LAMBDA b : i + b \in DOMAIN digits)
    IN  IF digits[i] = 0 THEN digits ELSE FoldLeft(Turn, [r |-> digits, on |-> TRUE], ahead).r

\* The windows from the lowest bit up.
Slide(bits, count, most) ==
    Turns(LAMBDA r, i : Window(r, i, most),
          Table(LAMBDA n : IF n \in bits THEN 1 ELSE 0, count), UpTo(count))
=============================================================================
