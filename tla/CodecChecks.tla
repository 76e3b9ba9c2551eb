---------------------------- MODULE CodecChecks ----------------------------
(***************************************************************************)
(* base16, base32 and base64 compared with the stream of bits, the highest *)
(* of each byte and of each digit first, that both forms of it spell.      *)
(***************************************************************************)
EXTENDS Integers, Sequences, FiniteSets, SequencesExt

VARIABLES
    part,      \* what the question is about; see Arithmetic
    question,
    asked

Base16 == INSTANCE BaseCodec WITH CharBits <- 4, ByteBits <- 8
Base32 == INSTANCE BaseCodec WITH CharBits <- 5, ByteBits <- 8
Base64 == INSTANCE BaseCodec WITH CharBits <- 6, ByteBits <- 8

\* Where the bits of a byte string, and those of the digits of a text, stand in
\* the stream; `Equals' and other characters have none.
ByteStream(bytes) == {(b \div 8) * 8 + 7 - (b % 8) : b \in bytes}
TextStream(text, charBits) ==
    UNION {{n * charBits - 1 - c : c \in text[n] \cap (0 .. charBits - 1)} : n \in DOMAIN text}
Upto(stream, count) == {s \in stream : s < count}

\* Sample q of `count' bits: none, all, the ends, and others.
CodecSample(q, count) ==
    {b \in 0 .. count - 1 :
        CASE q % 6 = 0 -> TRUE [] q % 6 = 1 -> b % 8 \in {0, 7} [] q % 6 = 2 -> b = count - 1
          [] OTHER -> ((b * 7919 + q * 104729 + ((b * b * 31) % 1009) * q) \div 7) % 3 = 0}
Digits(q, count, charBits) ==
    [n \in 1 .. count |-> {c \in 0 .. charBits - 1 :
                              (n - 1) * charBits + c \in CodecSample(q, count * charBits)}]

\* Of a text all bits come back, the last byte filled up with zeros whatever dst
\* held and nothing changed behind it, and the mask says which bits of that byte the
\* text has.
FromRight(r, text, charBits, junk) ==
    LET count == Len(text) * charBits
    IN  /\ r.len = (count + 7) \div 8
        /\ Upto(ByteStream(r.dst), 8 * r.len) = TextStream(text, charBits)
        /\ r.dst \ (0 .. 8 * r.len - 1) = junk \ (0 .. 8 * r.len - 1)
        /\ ByteStream(r.mask) = {s - 8 * (r.len - 1) : s \in 8 * (r.len - 1) .. count - 1}

FromSpells(q) ==
    \A count \in 1 .. 11 : \A junk \in {{}, 0 .. 95} :
        /\ \A text \in {Digits(q, count, 5)} : FromRight(Base32!base32_from(text, junk), text, 5, junk)
        /\ \A text \in {Digits(q, count, 4)} : FromRight(Base16!base16_from(text, junk), text, 4, junk)

\* Of bytes a text is made that spells them and decodes to them.
ToRight(bytes, slen) ==
    /\ \A text \in {Base32!base32_to(bytes, slen)} :
          /\ TextStream(text, 5) = ByteStream(bytes)
          /\ Len(text) = Base32!ToLen(slen)
          /\ Base32!base32_valid(text).ok
          /\ slen > 0 => Base32!base32_from(text, {}).dst = bytes
          /\ Base32!FromLen(Len(text)) - slen \in 0 .. 1
    /\ \A text \in {Base16!base16_to(bytes, slen)} :
          /\ TextStream(text, 4) = ByteStream(bytes)
          /\ Base16!base16_valid(text).ok
          /\ slen > 0 => Base16!base16_from(text, {}) =
                             [dst |-> bytes, mask |-> 0 .. 7, len |-> slen]
    /\ \A text \in {Base64!base64_to(bytes, slen)} :
          /\ TextStream(text, 6) = ByteStream(bytes)
          /\ Len(text) = Base64!Base64ToLen(slen)
          /\ Base64!base64_valid(text).ok
          /\ Base64!base64_from(text) = [dst |-> bytes, len |-> slen]

ToSpells(q) ==
    \A slen \in 0 .. 7 : \A bytes \in {CodecSample(q, 8 * slen)} : ToRight(bytes, slen)

\* A text is refused from its first character on that does not belong there.
Broken(text, at) == [n \in DOMAIN text |-> IF n = at THEN Base64!NoDigit ELSE text[n]]
RefusedAt(at) == [ok |-> FALSE, count |-> at - 1]

Refused(q) ==
    /\ \A at \in 1 .. 4 :
          /\ Base32!base32_valid(Broken(Digits(q, 4, 5), at)) = RefusedAt(at)
          /\ Base16!base16_valid(Broken(Digits(q, 4, 4), at)) = RefusedAt(at)
          /\ Base64!base64_valid(Broken(Base64!base64_to(CodecSample(q, 8), 1), at)) = RefusedAt(at)
    /\ \A count \in {1, 2, 3, 5} :
          /\ Base64!base64_from(Digits(q, count, 6)).len = -1
          /\ ~Base64!base64_valid(Digits(q, count, 6)).ok

CodecQuestions == 0 .. 17
CodecAnswer(q) == FromSpells(q) /\ ToSpells(q) /\ Refused(q)

\* base16, base32 and base64 spell the bits of their bytes whatever the length,
\* leave nothing of what dst held before, and refuse other texts
\* (base16_*.c, base32_*.c, base64_*.c).
CodesInverse == asked /\ part = "code" => CodecAnswer(question)
=============================================================================
