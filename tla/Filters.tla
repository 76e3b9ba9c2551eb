------------------------------- MODULE Filters -------------------------------
(***************************************************************************)
(* The filters: from text to table (filters_add, loadfilterfile), sorting  *)
(* and deduplication, the search of a key in them (DOFILTER), keys of      *)
(* several words, and the table for the device (filters_*.inc.h, worker.c).*)
(*                                                                         *)
(* A build has one kind of filter:                                         *)
(*   "bin"   byte strings with a mask for the last byte (BINFILTER)        *)
(*   "int"   integers, each with its mask (INTFILTER, and BESORT)          *)
(*   "omit"  integers of one length with one mask (OMITMASK)               *)
(* "omit" comes with binary search, "bin" and "int" with or without it.    *)
(* Filters by regular expression belong to the PCRE2 library.              *)
(*                                                                         *)
(* Keys, filters and masks are words (BaseCodec): sets of bits.  In memory *)
(* order byte 0 counts most, in an integer of a little-endian machine the  *)
(* last byte.                                                              *)
(***************************************************************************)
EXTENDS BaseCodec, TLC, FiniteSetsExt

CONSTANTS
    PublicLen, \* PUBLIC_LEN, the bytes of a key; also BINFILTERLEN
    IntLen,    \* sizeof(IFT)
    LineLen    \* sizeof(buf) - 1 in loadfilterfile: characters read at once

ASSUME FiltersAssumption ==
    /\ {CharBits, ByteBits, PublicLen, IntLen, LineLen} \subseteq Nat \ {0}
    /\ CharBits <= ByteBits \* a digit is stored in two bytes at most
    /\ IntLen <= PublicLen

\* A table: the filters (in C, VEC_BUF(filters, i) is vec[i + 1]), ifiltermask
\* and flattened.  A filter is its text's bits f, the mask m that says which
\* bits count (not with OMITMASK), and len, the whole bytes before the last
\* one (BINFILTER).
EmptyTable == [vec |-> <<>>, mask |-> {}, flattened |-> FALSE]

\* How a comparison of two words comes out: by the highest bit they differ in.
IntLess(a, b) == a # b /\ Max(SymDiff(a, b)) \in b
MemRank(bit) == (bit % ByteBits) - ByteBits * (bit \div ByteBits)
MemLess(a, b) ==
    a # b /\ Max({MemRank(p) : p \in SymDiff(a, b)}) \in {MemRank(p) : p \in b}

-----------------------------------------------------------------------------
(* Adding a filter *)

\* Mutant of NextSubset: the bits outside are not filled, so the carry stops.
NextSubsetNoCarry(y, newbits) ==
    LET carried == Min((0 .. Max(newbits) + 1) \ y)
    IN  ((y \ Ones(carried)) \cup {carried}) \cap newbits

\* y = ((y | notnewbits) + 1) & newbits, the next larger subset of newbits.
NextSubset(y, newbits) ==
    LET full == y \cup ((0 .. Max(newbits) + 1) \ newbits)
        carried == Min((0 .. Max(newbits) + 2) \ full)
    IN  ((full \ Ones(carried)) \cup {carried}) \cap newbits

\* The number of subsets less one (ifilter_bitsum), and the subsets in the
\* order the loops of ifilter_addexpanded and ifilter_expand meet them.
ifilter_bitsum(newbits) == 2 ^ Cardinality(newbits) - 1
Subsets(newbits) ==
    LET y[j \in 0 .. ifilter_bitsum(newbits)] ==
            IF j = 0 THEN {} ELSE NextSubset(y[j - 1], newbits)
    IN  y

\* A filter that is shorter than those in the table is put in once for each
\* way to continue it.
ifilter_addexpanded(vec, filter, newbits) ==
    vec \o [j \in 1 .. ifilter_bitsum(newbits) + 1 |->
                [filter EXCEPT !.f = @ \cup Subsets(newbits)[j - 1]]]

\* All filters of the table are continued in each way, in place and from the
\* last to the first, each into the places it will have in the end.
ExpandFilter(buf, i, esz, ways) ==
    [n \in DOMAIN buf |-> IF (n - 1) \div esz = i
                          THEN [buf[i + 1] EXCEPT !.f = @ \cup ways[(n - 1) % esz]]
                          ELSE buf[n]]
Grown(vec, esz) == vec \o [j \in 1 .. (esz - 1) * Len(vec) |-> vec[1]]
ifilter_expand(vec, newbits) ==
    LET len == Len(vec)
        esz == ifilter_bitsum(newbits) + 1
        buf[i \in 0 .. len] == \* before filters i - 1 down to 0 are expanded
            IF i = len THEN Grown(vec, esz)
            ELSE ExpandFilter(buf[i + 1], i, esz, Subsets(newbits))
    IN  buf[0]

ifilter_addflatten(table, filter, mask) ==
    LET newbits == SymDiff(table.mask, mask)
    IN  IF table.vec = <<>> THEN [table EXCEPT !.vec = <<filter>>, !.mask = mask]
        ELSE IF newbits = {} THEN [table EXCEPT !.vec = Append(@, filter)]
        ELSE IF IntLess(mask, table.mask)
        THEN [table EXCEPT !.vec = ifilter_addexpanded(@, filter, newbits),
                           !.flattened = TRUE]
        ELSE [vec |-> Append(ifilter_expand(table.vec, newbits), filter),
              mask |-> mask, flattened |-> TRUE]

\* A text that is not base32, is empty or too long is refused.
AddText(kind, table, text) ==
    LET valid == base32_valid(text)
        len == FromLen(valid.count)
        bf == base32_from(text, {})
        m == Ones((len - 1) * ByteBits) \cup At(bf.mask, len - 1)
        filter == [f |-> bf.dst \cap m, m |-> IF kind = "omit" THEN {} ELSE m,
                   len |-> IF kind = "bin" THEN len - 1 ELSE 0]
    IN  IF ~valid.ok \/ len = 0 \/ len > (IF kind = "bin" THEN PublicLen ELSE IntLen)
        THEN table
        ELSE IF kind = "omit" THEN ifilter_addflatten(table, filter, m)
        ELSE [table EXCEPT !.vec = Append(@, filter)]

\* filters_add: one leading `Caret' is skipped.
Caret == {-4}
Unanchored(text) == IF text # <<>> /\ text[1] = Caret THEN Tail(text) ELSE text
filters_add(kind, table, text) == AddText(kind, table, Unanchored(text))

\* loadfilterfile.  fgets reads LineLen characters at most, and what is left
\* of a longer line is read as one more line; `Hash' begins a comment.
Hash == {-3}
Pieces(line) ==
    [n \in 1 .. (Len(line) + LineLen - 1) \div LineLen |->
        SubSeq(line, (n - 1) * LineLen + 1, IF n * LineLen < Len(line) THEN n * LineLen ELSE Len(line))]
LoadPiece(kind, table, piece) ==
    IF piece[1] = Hash THEN table ELSE filters_add(kind, table, piece)
LoadLine(kind, table, line) ==
    LET pieces == Pieces(line)
        after[n \in 0 .. Len(pieces)] ==
            IF n = 0 THEN table ELSE LoadPiece(kind, after[n - 1], pieces[n])
    IN  after[Len(pieces)]
loadfilterfile(kind, table, lines) ==
    LET after[n \in 0 .. Len(lines)] ==
            IF n = 0 THEN table ELSE LoadLine(kind, after[n - 1], lines[n])
    IN  after[Len(lines)]

-----------------------------------------------------------------------------
(* Sorting and deduplication *)

Whole(filter) == Ones(filter.len * ByteBits)
LastByte(filter) == At(Ones(ByteBits), filter.len)

\* filter_compare of the three builds, as "is before".
filter_before(kind, a, b) ==
    LET l == IF a.len <= b.len THEN Whole(a) ELSE Whole(b)
        fa == a.f \cap l
        fb == b.f \cap l
        cmask == a.m \cap b.m \cap LastByte(a)
    IN  CASE kind = "omit" -> IntLess(a.f, b.f)
          [] kind = "int" -> MemLess(a.f, b.f) \/ (a.f = b.f /\ MemLess(a.m, b.m))
          [] kind = "bin" ->
               IF fa # fb THEN MemLess(fa, fb)
               ELSE IF a.len # b.len THEN a.len < b.len
               ELSE IF a.f \cap cmask # b.f \cap cmask
                    THEN MemLess(a.f \cap cmask, b.f \cap cmask)
                    ELSE MemLess(a.m, b.m)

\* qsort: a filter's place is the number of those before it.
filter_sort(kind, vec) ==
    LET place == [i \in DOMAIN vec |->
            Cardinality({j \in DOMAIN vec :
                            filter_before(kind, vec[j], vec[i]) \/ (vec[j] = vec[i] /\ j <= i)})]
    IN  [n \in DOMAIN vec |-> vec[CHOOSE i \in DOMAIN vec : place[i] = n]]

\* filters_a_includes_b.  Of byte strings of different length the bits in the
\* last byte of the shorter one are not compared.
filters_a_includes_b(kind, a, b) ==
    CASE kind = "omit" -> a.f = b.f
      [] kind = "int" -> a.f = b.f \cap a.m
      [] kind = "bin" ->
           /\ a.len <= b.len
           /\ a.f \cap Whole(a) = b.f \cap Whole(a)
           /\ a.len = b.len => /\ ~MemLess(b.m, a.m)
                               /\ a.f \cap LastByte(a) = b.f \cap a.m \cap LastByte(a)

\* One round of the loop of filters_dedup: filter i of the table is compared
\* with the one before it, or, in a row of filters that go, with the filter
\* chk that stays.  `last' begins the filters to be moved down to st.
None == -1
Moved(vec, st, last, i) ==
    [n \in DOMAIN vec |-> IF st < n /\ n <= st + i - last THEN vec[n + last - st] ELSE vec[n]]

\* Mutant of DedupRound: in a row of filters that go, each is compared with the
\* one before it.
DedupRoundNeighbour(kind, s, i) ==
    LET vec == s.vec
    IN  IF filters_a_includes_b(kind, vec[i], vec[i + 1])
        THEN IF s.last = None
             THEN [vec |-> vec, st |-> i, chk |-> i - 1, last |-> i + 1]
             ELSE [vec |-> Moved(vec, s.st, s.last, i),
                   st |-> s.st + i - s.last, chk |-> i - 1, last |-> i + 1]
        ELSE s

DedupRound(kind, s, i) ==
    LET vec == s.vec
    IN  IF s.last = i
        THEN IF filters_a_includes_b(kind, vec[s.chk + 1], vec[i + 1])
             THEN [s EXCEPT !.last = i + 1]
             ELSE s
        ELSE IF ~filters_a_includes_b(kind, vec[i], vec[i + 1]) THEN s
        ELSE IF s.last = None
        THEN [vec |-> vec, st |-> i, chk |-> i - 1, last |-> i + 1]
        ELSE [vec |-> Moved(vec, s.st, s.last, i),
              st |-> s.st + i - s.last, chk |-> i - 1, last |-> i + 1]

filters_dedup(kind, vec) ==
    LET len == Len(vec)
        s[i \in 0 .. len - 1] ==
            IF i = 0 THEN [vec |-> vec, st |-> None, chk |-> None, last |-> None]
            ELSE DedupRound(kind, s[i - 1], i)
        end == s[len - 1]
    IN  IF len = 0 \/ end.last = None THEN vec
        ELSE SubSeq(Moved(end.vec, end.st, end.last, len), 1, end.st + len - end.last)

filters_prepare(kind, table, wantdedup) ==
    LET sorted == filter_sort(kind, table.vec)
    IN  [table EXCEPT !.vec = IF wantdedup THEN filters_dedup(kind, sorted) ELSE sorted]

-----------------------------------------------------------------------------
(* Searching a key *)

MaskOf(kind, table, i) == IF kind = "omit" THEN table.mask ELSE table.vec[i].m

\* DOFILTER by sequential search: the first filter the key has; 0 for none.
FirstMatch(kind, table, pk) ==
    LET hits == {i \in DOMAIN table.vec : pk \cap MaskOf(kind, table, i) = table.vec[i].f}
    IN  IF hits = {} THEN 0 ELSE Min(hits)

\* DOFILTER by binary search, between `down' and `up'.  "bin" compares the
\* whole bytes first and then the last one under the mask, which is memory
\* order too.
BinSearch(kind, table, pk) ==
    LET len == Len(table.vec)
        masked(i) == pk \cap MaskOf(kind, table, i)
        Below(a, b) == IF kind = "omit" THEN IntLess(a, b) ELSE MemLess(a, b)
        found[range \in (0 .. len) \X (0 .. len)] ==
            LET down == range[1]
                up == range[2]
                it == (up + down) \div 2
            IN  IF down >= up THEN 0
                ELSE IF Below(masked(it + 1), table.vec[it + 1].f) THEN found[<<down, it>>]
                ELSE IF Below(table.vec[it + 1].f, masked(it + 1)) THEN found[<<it + 1, up>>]
                ELSE it + 1
    IN  found[<<0, len>>]

DOFILTER(kind, binsearch, table, pk) ==
    IF binsearch THEN BinSearch(kind, table, pk) ELSE FirstMatch(kind, table, pk)

\* filter_len: the bits of the mask from the highest of byte 0 on.
filter_len(kind, table, i) ==
    LET m == MaskOf(kind, table, i)
        j == CHOOSE j \in 0 .. PublicLen :
                /\ 0 \notin Byte(m, j)
                /\ \A n \in 0 .. j - 1 : 0 \in Byte(m, n)
        v == Byte(m, j)
    IN  j * ByteBits + IF v = {} THEN 0 ELSE ByteBits - Min(v)

\* shiftpk: the bits of src from sbits on; `behind' is the byte after src.
shiftpk(src, sbits, behind) ==
    LET sbytes == sbits \div ByteBits
        s == sbits % ByteBits
        long == src \cup At(behind, PublicLen)
        byte(i) == Bits(Shift(Byte(long, i + sbytes), s)
                          \cup Shift(Byte(long, i + sbytes + 1), s - ByteBits), 0, ByteBits)
    IN  UNION {At(byte(i), i) : i \in {n \in 0 .. PublicLen - 1 : n + sbytes < PublicLen}}

\* The loop of a worker over the words of a key (-N): each word must begin
\* with some filter, and the next one begins where that filter ended.
WordsMatch(kind, binsearch, table, pk, numwords, behind) ==
    LET word[w \in 1 .. numwords] ==
            IF w = 1 THEN [pk |-> pk, it |-> DOFILTER(kind, binsearch, table, pk)]
            ELSE LET s == word[w - 1]
                     wpk == shiftpk(s.pk, filter_len(kind, table, s.it),
                                    IF w = 2 THEN behind ELSE {})
                 IN  IF s.it = 0 THEN s
                     ELSE [pk |-> wpk, it |-> DOFILTER(kind, binsearch, table, wpk)]
    IN  word[numwords].it # 0

\* cuda_set_filters: value and mask of every filter, as whole keys, and
\* filter_match of the kernel, which tries one after the other.  A table that is
\* too long for the device ends the program (StartSearch of Program).
cuda_set_filters(kind, table) ==
    [i \in DOMAIN table.vec |-> [f |-> table.vec[i].f, m |-> MaskOf(kind, table, i)]]
filter_match(fm, pk) == \E i \in DOMAIN fm : pk \cap fm[i].m = fm[i].f
=============================================================================
