------------------------------ MODULE BaseCodec ------------------------------
(***************************************************************************)
(* base16, base32 and base64 (base16_*.c, base32_*.c, base64_*.c).         *)
(*                                                                         *)
(* A word is the set of its bits that are 1, and a byte string is one word *)
(* in which bit b of byte j is the bit j * ByteBits + b, so that & | ~ are *)
(* set operations and a shift adds to every bit.  A text is a sequence of  *)
(* digits, words of CharBits bits; a character that is no digit, and the   *)
(* '=' of base64, are words no digit is.  The tables that relate digits    *)
(* and characters are inverse to each other and are left out.              *)
(***************************************************************************)
EXTENDS Integers, Sequences, FiniteSets, SequencesExt

CONSTANTS
    CharBits, \* 4, 5 or 6
    ByteBits  \* 8

Digits == SUBSET (0 .. CharBits - 1)
NoDigit == {-1}
Equals == {-2}

Shift(word, by) == {b + by : b \in word}
Bits(word, lo, hi) == {b \in word : lo <= b /\ b < hi}
\* Byte j of a byte string, and a byte placed there.
Byte(bytes, j) == Shift(Bits(bytes, j * ByteBits, (j + 1) * ByteBits), -(j * ByteBits))
At(byte, j) == Shift(byte, j * ByteBits)
Ones(n) == 0 .. n - 1

\* BASE32_TO_LEN and BASE32_FROM_LEN; the same for base16.
ToLen(l) == (l * ByteBits + CharBits - 1) \div CharBits
FromLen(l) == (l * CharBits + ByteBits - 1) \div ByteBits

-----------------------------------------------------------------------------
(* base32, and base16 where CharBits divides ByteBits *)

\* Mutant of KeptMask: cmask is not cleared when the next byte begins.
KeptMaskAlways(s, k) == s.cmask

\* What stays of cmask when a digit begins in byte k.
KeptMask(s, k) == IF k = s.k THEN s.cmask ELSE {}

\* One digit of base32_from: it is stored from bit l of byte k on, and what
\* does not fit is continued in the next byte.  When it ends before the byte
\* does, the count of the second shift is below zero; nothing is left then.
\* cmask collects the bits that were filled of the last byte.
StoreDigit(s, digit, i) ==
    LET l == i % ByteBits
        k == i \div ByteBits
        Here(w) == Bits(Shift(w, ByteBits - CharBits - l), 0, ByteBits)
        Behind(w) == Bits(Shift(w, 2 * ByteBits - CharBits - l), 0, ByteBits)
        mask == Here(Ones(CharBits))
        spill == Behind(Ones(CharBits))
        dst == (s.dst \ At(mask, k)) \cup At(Here(digit), k)
    IN  IF spill = {}
        THEN [dst |-> dst, k |-> k, cmask |-> mask \cup KeptMask(s, k)]
        ELSE [dst |-> (dst \ At(spill, k + 1)) \cup At(Behind(digit), k + 1),
              k |-> k + 1, cmask |-> spill]

\* base32_from: `junk' is what dst held before.  Returned are dst, the mask of
\* the last byte, and the number of bytes.
base32_from(src, junk) ==
    LET after[n \in 0 .. Len(src)] ==
            IF n = 0 THEN [dst |-> junk, k |-> -1, cmask |-> {}]
            ELSE StoreDigit(after[n - 1], src[n], (n - 1) * CharBits)
        end == after[Len(src)]
    IN  [dst |-> end.dst \ At(Ones(ByteBits) \ end.cmask, end.k),
         mask |-> end.cmask,
         len |-> end.k + 1]

\* base16_from: the same without the part that spills over.
base16_from(src, junk) ==
    LET after[n \in 0 .. Len(src)] ==
          IF n = 0 THEN [dst |-> junk, cmask |-> {}, k |-> -1]
          ELSE LET i == (n - 1) * CharBits
                   s == after[n - 1]
                   k == i \div ByteBits
                   Here(w) == Shift(w, ByteBits - CharBits - (i % ByteBits))
                   mask == Here(Ones(CharBits))
               IN  [dst |-> (s.dst \ At(mask, k)) \cup At(Here(src[n]), k),
                    k |-> k,
                    cmask |-> mask \cup KeptMask(s, k)]
        end == after[Len(src)]
    IN  [dst |-> end.dst \ At(Ones(ByteBits) \ end.cmask, end.k),
         mask |-> end.cmask,
         len |-> end.k + 1]

\* base32_to: digit n is taken from the byte it begins in and, as far as the
\* source has it, the byte behind; the code has a case for each number of
\* bytes that are left over.
base32_to(src, slen) ==
    [n \in 1 .. ToLen(slen) |->
        LET i == ((n - 1) * CharBits) \div ByteBits
            l == ((n - 1) * CharBits) % ByteBits
            behind == IF i + 1 < slen THEN Byte(src, i + 1) ELSE {}
        IN  Bits(Shift(Byte(src, i), l + CharBits - ByteBits)
                   \cup Shift(behind, l + CharBits - 2 * ByteBits), 0, CharBits)]

\* base16_to: the high half of each byte, then the low one.
base16_to(src, slen) ==
    [n \in 1 .. 2 * slen |->
        LET byte == Byte(src, (n - 1) \div 2)
        IN  IF n % 2 = 1 THEN Shift(Bits(byte, CharBits, ByteBits), -CharBits)
            ELSE Bits(byte, 0, CharBits)]

\* The number of digits the text begins with.
Leading(src) ==
    CHOOSE n \in 0 .. Len(src) :
        /\ \A j \in 1 .. n : src[j] \in Digits
        /\ n < Len(src) => src[n + 1] \notin Digits

\* base32_valid, base16_valid: whether there are digits only, and how many
\* are in front of the first other character.
base32_valid(src) == [ok |-> Leading(src) = Len(src), count |-> Leading(src)]
base16_valid(src) == [ok |-> Leading(src) = Len(src), count |-> Leading(src)]

-----------------------------------------------------------------------------
(* base64: groups of three bytes and four digits *)

\* BASE64_TO_LEN and BASE64_FROM_LEN.
Base64ToLen(l) == ((l + 2) \div 3) * 4
Base64FromLen(l) == (l \div 4) * 3

\* base64_to: bytes behind the end count as zero, and `=' then replaces the
\* digits that hold nothing of the source.
base64_to(src, slen) ==
    LET threebytes(g) ==
            UNION {Shift(Byte(src, i), (g * 3 + 2 - i) * ByteBits) :
                       i \in {j \in g * 3 .. g * 3 + 2 : j < slen}}
        Padded == CASE slen % 3 = 0 -> 0 [] slen % 3 = 1 -> 2 [] slen % 3 = 2 -> 1
        length == Base64ToLen(slen)
    IN  [n \in 1 .. length |->
            IF n > length - Padded THEN Equals
            ELSE Bits(Shift(threebytes((n - 1) \div 4), (((n - 1) % 4) - 3) * CharBits),
                      0, CharBits)]

\* base64_from: a length that is no multiple of four is refused with -1; each
\* `=' in one of the last two places makes dst a byte shorter, and counts as
\* zero in the second half of a group.
base64_from(src) ==
    LET srclen == Len(src)
        IsPad(n) == IF src[n] = Equals THEN 1 ELSE 0
        dstlen == Base64FromLen(srclen) - IsPad(srclen) - IsPad(srclen - 1)
        sixbits(n) == IF src[n] = Equals /\ (n - 1) % 4 >= 2 THEN {} ELSE src[n]
        threebytes(g) ==
            UNION {Shift(sixbits(n), (g * 4 + 4 - n) * CharBits) : n \in g * 4 + 1 .. g * 4 + 4}
        byte(j) == Byte(threebytes(j \div 3), 2 - (j % 3))
    IN  IF srclen % 4 # 0 THEN [dst |-> {}, len |-> -1]
        ELSE IF srclen = 0 THEN [dst |-> {}, len |-> 0]
        ELSE [dst |-> UNION {At(byte(j), j) : j \in 0 .. dstlen - 1}, len |-> dstlen]

\* base64_valid: digits, then `=' up to the end of the group, and no more.
base64_valid(src) ==
    LET p == Leading(src)
        q == CHOOSE n \in p .. Len(src) :
                /\ \A j \in p + 1 .. n : (j - 1) % 4 # 0 /\ src[j] = Equals
                /\ n < Len(src) => n % 4 = 0 \/ src[n + 1] # Equals
    IN  [ok |-> q = Len(src) /\ q % 4 = 0, count |-> q]
=============================================================================
