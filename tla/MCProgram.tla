----------------------------- MODULE MCProgram -----------------------------
(***************************************************************************)
(* Command lines for TLC.                                                  *)
(***************************************************************************)
EXTENDS Program

CONSTANTS w1, w2, k1, k2, t1, t2, F, HandMade

AllBuilds == {[kind |-> "bin", binsearch |-> FALSE], [kind |-> "bin", binsearch |-> TRUE],
              [kind |-> "int", binsearch |-> FALSE], [kind |-> "int", binsearch |-> TRUE],
              [kind |-> "omit", binsearch |-> TRUE]}
BigEndianSort == {[kind |-> "int", binsearch |-> TRUE]}

\* Digits of two bits stand for a, b, c, d.
Digit(n) == {b \in 0 .. CharBits - 1 : (n \div 2 ^ b) % 2 = 1}
Text(digits) == [i \in DOMAIN digits |-> Digit(digits[i])]
abc == Text(<<0, 1, 2>>)

Letters(letters) == <<[dashes |-> 1, text |-> letters]>>
Letter1(letter, value) == <<[dashes |-> 1, text |-> <<letter>>], [dashes |-> 0, text |-> value]>>
Long(text) == <<[dashes |-> 2, text |-> text]>>
Filter(text) == <<[dashes |-> 0, text |-> text]>>
YFrom(file1, host) ==
    <<[dashes |-> 1, text |-> <<"Y">>], [dashes |-> 0, text |-> file1],
      [dashes |-> 0, text |-> host]>>
y == Letters(<<"y">>)
raw == Long("rawyaml")

TwoWriters == {w1, w2}
OneWriter == {w1}
TwoKeys == {k1, k2}
TwoTimes == {t1, t2}

Searches == {
    <<y, Letter1("o", F), Filter(abc)>>,
    <<Letter1("O", F), Letters(<<"x", "y">>), Filter(abc)>>,
    <<y, raw, Letter1("o", F), Filter(abc)>>,
    <<Letters(<<"s">>), Letter1("n", 1)>>,
    <<Letter1("S", 1), Letters(<<"T">>), Filter(abc)>>}

Extractions == {
    <<YFrom(F, "")>>, <<raw, YFrom(F, "")>>, <<YFrom(HandMade, ""), Letters(<<"q">>)>>,
    <<YFrom("", ""), raw>>}
  \cup {<<YFrom(file1, k)>> : file1 \in {F, HandMade}, k \in Keys}

Others == {
    <<>>, <<Letters(<<"h">>)>>, <<Long("version"), y>>, <<Filter(abc), Long("bogus")>>,
    <<y, YFrom(F, "")>>, <<raw, Filter(abc)>>, <<YFrom(F, "short")>>,
    <<Letters(<<"x">>), y, Filter(abc)>>,
    <<Letters(<<"x">>), Letter1("o", "names"), Letter1("d", "keys"), Filter(abc)>>,
    <<Letter1("o", "names"), Letter1("O", "other"), Filter(abc)>>,
    <<Letter1("d", ""), Letter1("t", 2), Letters(<<"D", "F", "v">>), Letter1("f", <<abc, Text(<<1>>)>>)>>,
    <<Letter1("p", "secret"), Long("skipnear"), Letter1("N", 2), Filter(abc)>>,
    <<[Letter1("p", "secret") EXCEPT ![1].dashes = 1],
      <<[dashes |-> 2, text |-> "checkpoint"], [dashes |-> 0, text |-> "file"]>>, Filter(abc)>>,
    <<<<[dashes |-> 2, text |-> "checkpoint"], [dashes |-> 0, text |-> "file"]>>, Filter(abc)>>,
    <<Letters(<<"P">>), Long("cuda"), Filter(abc)>>,
    <<Long("cuda"), Filter(abc), Letter1("j", 0)>>,
    <<Long("cuda"), Letter1("f", <<Text(<<0>>), Text(<<1>>), Text(<<2, 0>>), Text(<<3>>)>>)>>,
    <<Filter(<<>>), Letter1("f", <<<<Hash>>, <<Digit(0), Hash>>>>)>>, <<Filter(<<Caret>>), Letters(<<"s">>)>>,
    <<Long("cuda"), Letter1("N", 2), Filter(abc)>>,
    <<Long("warnnear"), Letters(<<"Z", "z", "B">>), Filter(abc), Filter(Text(<<1>>))>>,
    <<Letter1("o", "names")>>, <<Letters(<<"s", "o">>)>>,
    <<Long(""), Letters(<<"o">>), Filter(abc)>>}

Same == Permutations(Writers) \cup Permutations(Keys) \cup Permutations(Times)

Texts1 == {Text(<<0>>), Text(<<1>>), Text(<<0, 0>>), Text(<<0, 3>>), Text(<<1, 2, 1>>),
           Text(<<1, 2, 1, 3>>), Text(<<3, 0>>), <<Hash, Digit(1)>>, <<Caret, Digit(0), Digit(3)>>, Text(<<1, 2, 1, 3, 0>>)}
Triples == {
    <<Text(<<0>>), Text(<<0, 0>>), Text(<<0, 3>>)>>,
    <<Text(<<1>>), Text(<<1, 2>>), Text(<<1, 3, 1>>)>>,
    <<Text(<<1, 2, 1>>), Text(<<1>>), Text(<<1, 2>>)>>,
    <<Text(<<2>>), Text(<<0, 1>>), Text(<<1, 3, 0>>)>>,
    <<Text(<<2, 0>>), Text(<<2, 1>>), Text(<<3, 3>>)>>,
    <<Text(<<0>>), Text(<<0>>), Text(<<1>>)>>,
    <<Text(<<1, 1>>), Text(<<2, 2>>), Text(<<1, 1>>), Text(<<1, 1, 1>>)>>}
Chosen == {<<t>> : t \in Texts1} \cup {<<s, t>> : s, t \in Texts1} \cup Triples
OfWords == {<<t>> : t \in Texts1} \cup {<<Text(<<0>>), Text(<<1, 2>>)>>, <<Text(<<0, 1>>), Text(<<0>>)>>}
Filtered ==
    {<<Letter1("f", texts)>> : texts \in Chosen}
      \cup {<<Letters(<<"D">>), Letter1("f", texts)>> : texts \in Chosen}
      \cup {<<Letter1("N", 2), Letter1("f", texts)>> : texts \in OfWords}

AllLines == Searches \cup Extractions \cup Others \cup Filtered
=============================================================================
