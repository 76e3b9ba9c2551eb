----------------------------- MODULE FiltersProofs -----------------------------
(***************************************************************************)
(* Proofs about Filters, for tables and keys of any size: the comparisons  *)
(* of words and filters are orders, sorting sorts, removing duplicates     *)
(* loses no filter's keys, and every search finds what it is to find.      *)
(***************************************************************************)
EXTENDS Filters, FiniteSetTheorems, TLAPS

-----------------------------------------------------------------------------
(* Induction *)

\* Every set of numbers that is not empty has a least one.
LEMMA LeastNumber ==
    ASSUME NEW S \in SUBSET Nat, S # {}
    PROVE  \E m \in S : \A i \in S : m <= i
<1>. DEFINE upto(i) == 0 .. i
<1>. DEFINE T == {upto(i) : i \in S}
<1>1. T \subseteq FiniteSubsetsOf(Nat) /\ T # {}
  <2>1. \A i \in S : IsFiniteSet(upto(i)) /\ upto(i) \in SUBSET Nat
    BY FS_Interval
  <2>. HIDE DEF upto
  <2>. QED
    BY <2>1 DEF FiniteSubsetsOf
<1>2. PICK x \in T : \A y \in T : <<y, x>> \notin StrictSubsetOrdering(Nat)
  BY ONLY <1>1, FS_StrictSubsetOrderingWellFounded, WFMin
<1>3. PICK m \in S : x = upto(m)
  OBVIOUS
<1>4. ASSUME NEW i \in S, i < m PROVE FALSE
  <2>1. upto(i) \subseteq upto(m) /\ m \in upto(m) /\ m \notin upto(i) /\ m \in Nat
    <3>1. i \in Nat /\ m \in Nat
      OBVIOUS
    <3>. QED
      BY ONLY <1>4, <3>1
  <2>2. upto(i) \in SUBSET Nat /\ upto(m) \in SUBSET Nat /\ upto(i) \in T
    <3>1. \A q \in Nat : upto(q) \in SUBSET Nat
      BY ONLY TRUE
    <3>. QED
      BY <3>1
  <2>3. <<upto(i), upto(m)>> \in StrictSubsetOrdering(Nat)
    BY <2>1, <2>2 DEF StrictSubsetOrdering
  <2>. QED
    BY <1>2, <1>3, <2>2, <2>3
<1>. QED
  BY <1>4

\* What holds of 0, and of k + 1 if of k, holds of all.
LEMMA Upwards ==
    ASSUME NEW n \in Nat, NEW G, 0 \in G, \A k \in Nat : k < n /\ k \in G => k + 1 \in G
    PROVE  \A k \in 0 .. n : k \in G
<1>. DEFINE bad == {k \in 0 .. n : k \notin G}
<1>1. ASSUME bad # {} PROVE FALSE
  <2>1. PICK m \in bad : \A i \in bad : m <= i
    <3>1. bad \in SUBSET Nat
      OBVIOUS
    <3>. HIDE DEF bad
    <3>. QED
      BY ONLY <3>1, <1>1, LeastNumber
  <2>2. m \in Nat /\ m <= n /\ m \notin G /\ m # 0
    OBVIOUS
  <2>3. m - 1 \in Nat /\ m - 1 < n /\ m - 1 + 1 = m /\ m - 1 \in 0 .. n /\ ~(m <= m - 1)
    BY ONLY <2>2, n \in Nat
  <2>4. m - 1 \notin bad
    BY ONLY <2>1, <2>3
  <2>. QED
    BY <2>2, <2>3, <2>4
<1>. QED
  BY <1>1

-----------------------------------------------------------------------------
(* Orders *)

\* What both comparisons of words do: the highest bit they differ in decides.
Ranks(N) ==
    {r \in [0 .. N -> Int] :
        /\ \A p, q \in 0 .. N : r[p] = r[q] => p = q
        /\ \E high \in Int : \A p \in 0 .. N : r[p] <= high}
Above(r, a, b) == \E p \in b \ a : \A q \in SymDiff(a, b) : r[q] <= r[p]

\* The bits as they count in an integer, and in memory.
Value(N) == [p \in 0 .. N |-> p]
Memory(N) == [p \in 0 .. N |-> MemRank(p)]

LEMMA Highest ==
    ASSUME NEW N \in Nat, NEW r \in Ranks(N), NEW S \in SUBSET (0 .. N), S # {}
    PROVE  \E p \in S : \A q \in S : r[q] <= r[p]
<1>1. r \in [0 .. N -> Int] /\ \E high \in Int : \A p \in 0 .. N : r[p] <= high
  BY DEF Ranks
<1>2. PICK high \in Int : \A p \in 0 .. N : r[p] <= high
  BY <1>1
<1>. DEFINE T == {high - r[p] : p \in S}
<1>3. T \in SUBSET Nat /\ T # {}
  <2>1. \A p \in S : high - r[p] \in Nat
    <3>1. \A p \in S : r[p] \in Int /\ r[p] <= high
      BY <1>1, <1>2
    <3>. QED
      BY <3>1
  <2>. QED
    BY <2>1
<1>4. PICK m \in T : \A t \in T : m <= t
  <2>. HIDE DEF T
  <2>. QED
    BY <1>3, LeastNumber
<1>5. PICK p \in S : m = high - r[p]
  BY <1>4
<1>6. ASSUME NEW q \in S PROVE r[q] <= r[p]
  <2>1. r[q] \in Int /\ r[p] \in Int /\ high - r[q] \in T
    BY <1>1
  <2>2. high - r[p] <= high - r[q]
    BY <1>4, <1>5, <2>1
  <2>. QED
    BY <1>2, <2>1, <2>2
<1>. QED
  BY <1>6

LEMMA AboveTotal ==
    ASSUME NEW N \in Nat, NEW r \in Ranks(N), NEW a \in SUBSET (0 .. N), NEW b \in SUBSET (0 .. N), a # b
    PROVE  Above(r, a, b) \/ Above(r, b, a)
<1>1. SymDiff(a, b) \in SUBSET (0 .. N) /\ SymDiff(a, b) # {} /\ SymDiff(b, a) = SymDiff(a, b)
  BY DEF SymDiff
<1>2. PICK p \in SymDiff(a, b) : \A q \in SymDiff(a, b) : r[q] <= r[p]
  BY <1>1, Highest
<1>3. p \in b \ a \/ p \in a \ b
  BY DEF SymDiff
<1>. QED
  BY <1>1, <1>2, <1>3 DEF Above

LEMMA AboveNotBoth ==
    ASSUME NEW N \in Nat, NEW r \in Ranks(N), NEW a \in SUBSET (0 .. N), NEW b \in SUBSET (0 .. N),
           Above(r, a, b)
    PROVE  ~Above(r, b, a) /\ a # b
<1>1. PICK p \in b \ a : \A q \in SymDiff(a, b) : r[q] <= r[p]
  BY DEF Above
<1>2. ASSUME NEW s \in a \ b, \A q \in SymDiff(b, a) : r[q] <= r[s] PROVE FALSE
  <2>1. r[p] <= r[s] /\ r[s] <= r[p]
    BY <1>1, <1>2 DEF SymDiff
  <2>2. r[p] \in Int /\ r[s] \in Int /\ (r[p] = r[s] => p = s)
    BY DEF Ranks
  <2>3. r[p] = r[s]
    BY <2>1, <2>2
  <2>. QED
    BY <2>2, <2>3
<1>. QED
  BY <1>1, <1>2 DEF Above

LEMMA AboveTransitive ==
    ASSUME NEW N \in Nat, NEW r \in Ranks(N), NEW a \in SUBSET (0 .. N), NEW b \in SUBSET (0 .. N),
           NEW d \in SUBSET (0 .. N), Above(r, a, b), Above(r, b, d)
    PROVE  Above(r, a, d)
<1>1. PICK p \in b \ a : \A q \in SymDiff(a, b) : r[q] <= r[p]
  BY DEF Above
<1>2. PICK s \in d \ b : \A q \in SymDiff(b, d) : r[q] <= r[s]
  BY DEF Above
<1>3. /\ \A q \in 0 .. N : r[q] \in Int
      /\ \A q, t \in 0 .. N : r[q] = r[t] => q = t
  BY DEF Ranks
<1>4. p \in 0 .. N /\ s \in 0 .. N /\ p # s
  OBVIOUS
<1>5. \A q \in SymDiff(a, d) : q \in 0 .. N /\ (q \in SymDiff(a, b) \/ q \in SymDiff(b, d))
  BY DEF SymDiff
<1>6. CASE r[s] < r[p]
  <2>1. p \notin SymDiff(b, d)
    BY <1>2, <1>3, <1>4, <1>6
  <2>2. p \in d \ a
    BY <2>1 DEF SymDiff
  <2>3. \A q \in SymDiff(a, d) : r[q] <= r[p]
    BY <1>1, <1>2, <1>3, <1>4, <1>5, <1>6
  <2>. QED
    BY <2>2, <2>3 DEF Above
<1>7. CASE r[p] < r[s]
  <2>1. s \notin SymDiff(a, b)
    BY <1>1, <1>3, <1>4, <1>7
  <2>2. s \in d \ a
    BY <2>1 DEF SymDiff
  <2>3. \A q \in SymDiff(a, d) : r[q] <= r[s]
    BY <1>1, <1>2, <1>3, <1>4, <1>5, <1>7
  <2>. QED
    BY <2>2, <2>3 DEF Above
<1>8. r[s] < r[p] \/ r[p] < r[s]
  <2>1. r[s] # r[p] /\ r[s] \in Int /\ r[p] \in Int
    BY <1>3, <1>4
  <2>. QED
    BY <2>1
<1>. QED
  BY <1>6, <1>7, <1>8

LEMMA RanksOfBits ==
    ASSUME NEW N \in Nat
    PROVE  Value(N) \in Ranks(N) /\ Memory(N) \in Ranks(N)
<1>1. Value(N) \in Ranks(N)
  <2>1. \A p \in 0 .. N : Value(N)[p] = p /\ p \in Int /\ p <= N
    BY DEF Value
  <2>2. Value(N) \in [0 .. N -> Int] /\ N \in Int
    BY DEF Value
  <2>. QED
    BY <2>1, <2>2 DEF Ranks
<1>2. ByteBits \in Nat \ {0}
  BY FiltersAssumption
<1>3. \A p \in 0 .. N : /\ Memory(N)[p] = (p % ByteBits) - ByteBits * (p \div ByteBits)
                        /\ p \in Nat /\ Memory(N)[p] \in Int
  BY <1>2 DEF Memory, MemRank
<1>4. ASSUME NEW p \in 0 .. N PROVE Memory(N)[p] <= ByteBits
  <2>1. p % ByteBits \in 0 .. ByteBits - 1 /\ p \div ByteBits \in Nat
    BY <1>2
  <2>2. ByteBits * (p \div ByteBits) \in Nat
    BY <1>2, <2>1
  <2>. QED
    BY <1>2, <1>3, <2>1, <2>2
<1>5. ASSUME NEW p \in 0 .. N, NEW q \in 0 .. N, Memory(N)[p] = Memory(N)[q] PROVE p = q
  <2>. DEFINE x == p \div ByteBits
  <2>. DEFINE y == q \div ByteBits
  <2>. DEFINE s == p % ByteBits
  <2>. DEFINE t == q % ByteBits
  <2>1. /\ x \in Int /\ y \in Int /\ s \in 0 .. ByteBits - 1 /\ t \in 0 .. ByteBits - 1
        /\ p = ByteBits * x + s /\ q = ByteBits * y + t /\ s - ByteBits * x = t - ByteBits * y
    BY <1>2, <1>3, <1>5
  <2>. HIDE DEF x, y, s, t
  <2>2. ByteBits * (x - y) = s - t
    BY <1>2, <2>1
  <2>3. x - y = 0
    <3>1. x - y >= 1 => ByteBits * (x - y) >= ByteBits
      BY <1>2, <2>1
    <3>2. x - y <= -1 => ByteBits * (x - y) <= -ByteBits
      BY <1>2, <2>1
    <3>. QED
      BY <1>2, <2>1, <2>2, <3>1, <3>2
  <2>4. x = y
    BY <2>1, <2>3
  <2>5. s = t
    BY <1>2, <2>1, <2>4
  <2>. QED
    BY <2>1, <2>4, <2>5
<1>6. Memory(N) \in Ranks(N)
  <2>1. Memory(N) \in [0 .. N -> Int]
    BY <1>3 DEF Memory
  <2>. QED
    BY <1>2, <1>4, <1>5, <2>1 DEF Ranks
<1>. QED
  BY <1>1, <1>6

\* The highest bit by its rank.
LEMMA LessIsAbove ==
    ASSUME NEW N \in Nat, NEW a \in SUBSET (0 .. N), NEW b \in SUBSET (0 .. N)
    PROVE  /\ IntLess(a, b) <=> Above(Value(N), a, b)
           /\ MemLess(a, b) <=> Above(Memory(N), a, b)
<1>. DEFINE S == SymDiff(a, b)
<1>1. S \in SUBSET (0 .. N) /\ (a # b <=> S # {}) /\ \A p \in S : p \in b <=> p \in b \ a
  BY DEF SymDiff
<1>2. Value(N) \in Ranks(N) /\ Memory(N) \in Ranks(N)
  BY RanksOfBits
<1>. HIDE DEF S
<1>3. IntLess(a, b) <=> Above(Value(N), a, b)
  <2>1. CASE S = {}
    BY <1>1, <2>1 DEF IntLess, Above, S
  <2>2. CASE S # {}
    <3>1. PICK p \in S : \A q \in S : Value(N)[q] <= Value(N)[p]
      BY <1>1, <1>2, <2>2, Highest
    <3>0. \A q \in 0 .. N : Value(N)[q] = q /\ q \in Int
      BY DEF Value
    <3>2. \A q \in S : q <= p /\ q \in Int
      BY <1>1, <3>1, <3>0
    <3>3. Max(S) = p
      <4>1. \A x \in S : (\A y \in S : x >= y) => x = p
        BY <3>2
      <4>2. \A y \in S : p >= y
        BY <3>2
      <4>. QED
        BY <4>1, <4>2 DEF Max
    <3>4. IntLess(a, b) <=> p \in b
      BY <1>1, <2>2, <3>3 DEF IntLess, S
    <3>5. Above(Value(N), a, b) <=> p \in b
      <4>1. p \in b => Above(Value(N), a, b)
        BY <1>1, <3>1 DEF Above, S
      <4>2. ASSUME NEW x \in b \ a, \A q \in S : Value(N)[q] <= Value(N)[x] PROVE p \in b
        <5>1. x \in S
          BY DEF S, SymDiff
        <5>2. x \in 0 .. N /\ p \in 0 .. N /\ x <= p /\ p <= x
          BY <1>1, <3>0, <3>1, <3>2, <4>2, <5>1
        <5>4. x = p
          BY <3>0, <5>2
        <5>. QED
          BY <5>4
      <4>. QED
        BY <4>1, <4>2 DEF Above, S
    <3>. QED
      BY <3>4, <3>5
  <2>. QED
    BY <2>1, <2>2
<1>4. MemLess(a, b) <=> Above(Memory(N), a, b)
  <2>1. CASE S = {}
    BY <1>1, <2>1 DEF MemLess, Above, S
  <2>2. CASE S # {}
    <3>1. PICK p \in S : \A q \in S : Memory(N)[q] <= Memory(N)[p]
      BY <1>1, <1>2, <2>2, Highest
    <3>. DEFINE R == {MemRank(q) : q \in S}
    <3>2. \A q \in 0 .. N : Memory(N)[q] = MemRank(q) /\ MemRank(q) \in Int
      BY <1>2 DEF Memory, Ranks
    <3>3. MemRank(p) \in R /\ \A x \in R : x \in Int /\ x <= MemRank(p)
      BY <1>1, <3>1, <3>2
    <3>. HIDE DEF R
    <3>4. Max(R) = MemRank(p)
      <4>1. \A x \in R : (\A y \in R : x >= y) => x = MemRank(p)
        BY <3>3
      <4>2. \A y \in R : MemRank(p) >= y
        BY <3>3
      <4>. QED
        BY <3>3, <4>1, <4>2 DEF Max
    <3>5. \A q \in b : MemRank(q) = MemRank(p) => q = p
      BY <1>1, <1>2, <3>2 DEF Ranks
    <3>6. MemLess(a, b) <=> p \in b
      <4>1. MemLess(a, b) <=> MemRank(p) \in {MemRank(q) : q \in b}
        BY <1>1, <2>2, <3>4 DEF MemLess, S, R
      <4>. QED
        BY <3>5, <4>1
    <3>7. Above(Memory(N), a, b) <=> p \in b
      <4>1. p \in b => Above(Memory(N), a, b)
        BY <1>1, <3>1 DEF Above, S
      <4>2. ASSUME NEW x \in b \ a, \A q \in S : Memory(N)[q] <= Memory(N)[x] PROVE p \in b
        <5>1. x \in S
          BY DEF S, SymDiff
        <5>2. Memory(N)[x] = Memory(N)[p]
          <6>1. x \in 0 .. N /\ p \in 0 .. N /\ Memory(N)[x] <= Memory(N)[p] /\ Memory(N)[p] <= Memory(N)[x]
            BY <1>1, <3>1, <4>2, <5>1
          <6>2. Memory(N)[x] \in Int /\ Memory(N)[p] \in Int
            BY <3>2, <6>1
          <6>. QED
            BY <6>1, <6>2
        <5>3. x = p
          BY <1>1, <1>2, <5>1, <5>2 DEF Ranks
        <5>. QED
          BY <5>3
      <4>. QED
        BY <4>1, <4>2 DEF Above, S
    <3>. QED
      BY <3>6, <3>7
  <2>. QED
    BY <2>1, <2>2
<1>. QED
  BY <1>3, <1>4

-----------------------------------------------------------------------------
(* Sorting *)

\* The filters of a set can be put in order.
Orderly(kind, S) ==
    /\ \A a, b \in S : a = b \/ filter_before(kind, a, b) \/ filter_before(kind, b, a)
    /\ \A a, b \in S : filter_before(kind, a, b) => ~filter_before(kind, b, a)
    /\ \A a, b, d \in S :
          filter_before(kind, a, b) /\ filter_before(kind, b, d) => filter_before(kind, a, d)

StrictOrder(n, R) ==
    /\ \A i, j \in 1 .. n : i # j => <<i, j>> \in R \/ <<j, i>> \in R
    /\ \A i, j \in 1 .. n : <<i, j>> \in R => <<j, i>> \notin R
    /\ \A i, j, k \in 1 .. n : <<i, j>> \in R /\ <<j, k>> \in R => <<i, k>> \in R
Upto(n, R, i) == {j \in 1 .. n : <<j, i>> \in R \/ j = i}

\* Counting those before puts a finite order in its places.
LEMMA Placed ==
    ASSUME NEW n \in Nat, NEW R, StrictOrder(n, R), NEW place,
           place = [i \in 1 .. n |-> Cardinality(Upto(n, R, i))]
    PROVE  /\ place \in Bijection(1 .. n, 1 .. n)
           /\ \A i, j \in 1 .. n : <<i, j>> \in R <=> place[i] < place[j]
<1>. USE DEF StrictOrder
<1>. DEFINE upto(i) == Upto(n, R, i)
<1>1. IsFiniteSet(1 .. n) /\ Cardinality(1 .. n) = n
  BY FS_Interval
<1>2. \A i \in 1 .. n : place[i] = Cardinality(upto(i))
  OBVIOUS
<1>3. ASSUME NEW i \in 1 .. n
      PROVE  IsFiniteSet(upto(i)) /\ place[i] \in 1 .. n
  <2>1. upto(i) \in SUBSET (1 .. n) /\ i \in upto(i)
    BY DEF Upto
  <2>. HIDE DEF upto
  <2>2. IsFiniteSet(upto(i)) /\ Cardinality(upto(i)) <= n
    BY ONLY <1>1, <2>1, FS_Subset
  <2>3. Cardinality(upto(i)) \in Nat /\ Cardinality(upto(i)) # 0
    BY ONLY <2>1, <2>2, FS_CardinalityType, FS_EmptySet
  <2>. QED
    BY ONLY <1>2, <2>2, <2>3, i \in 1 .. n, n \in Nat
<1>4. ASSUME NEW i \in 1 .. n, NEW j \in 1 .. n, <<i, j>> \in R PROVE place[i] < place[j]
  <2>1. upto(i) \in SUBSET upto(j) /\ j \in upto(j) /\ j \notin upto(i)
    BY <1>4 DEF Upto
  <2>. HIDE DEF upto
  <2>2. IsFiniteSet(upto(i)) /\ IsFiniteSet(upto(j))
    BY <1>3
  <2>3. /\ Cardinality(upto(i)) <= Cardinality(upto(j))
        /\ Cardinality(upto(j)) # Cardinality(upto(i))
    BY ONLY <2>1, <2>2, FS_Subset
  <2>4. place[i] \in Int /\ place[j] \in Int
    BY <1>3
  <2>. QED
    BY ONLY <1>2, <2>3, <2>4, i \in 1 .. n, j \in 1 .. n
<1>. HIDE DEF upto
<1>5. ASSUME NEW i \in 1 .. n, NEW j \in 1 .. n PROVE <<i, j>> \in R <=> place[i] < place[j]
  <2>1. place[i] \in Int /\ place[j] \in Int
    BY <1>3
  <2>2. CASE <<i, j>> \in R
    BY <1>4, <2>2
  <2>3. CASE i = j
    BY <2>1, <2>3
  <2>4. CASE <<j, i>> \in R
    <3>1. place[j] < place[i] /\ <<i, j>> \notin R
      BY <1>4, <2>4
    <3>. QED
      BY ONLY <2>1, <3>1
  <2>. QED
    BY <2>2, <2>3, <2>4
<1>6. place \in Injection(1 .. n, 1 .. n)
  <2>1. place \in [1 .. n -> 1 .. n]
    <3>1. place = [i \in 1 .. n |-> place[i]]
      OBVIOUS
    <3>. QED
      BY <1>3, <3>1
  <2>2. ASSUME NEW i \in 1 .. n, NEW j \in 1 .. n, place[i] = place[j] PROVE i = j
    <3>1. ~(place[i] < place[j]) /\ ~(place[j] < place[i])
      BY <1>3, <2>2
    <3>. QED
      BY <1>5, <3>1
  <2>. QED
    BY <2>1, <2>2 DEF Injection, IsInjective
<1>7. place \in Surjection(1 .. n, 1 .. n)
  BY ONLY <1>1, <1>6, FS_Injection
<1>. QED
  BY <1>5, <1>6, <1>7 DEF Bijection

\* A sorted list has the filters of the list, each as often, and none of them
\* belongs before an earlier one.
Sorted(kind, vec) ==
    \A i, j \in DOMAIN vec : i < j => ~filter_before(kind, vec[j], vec[i])

LEMMA SortSorts ==
    ASSUME NEW kind, NEW S, NEW vec \in Seq(S), Orderly(kind, S)
    PROVE  /\ filter_sort(kind, vec) \in Seq(S)
           /\ Len(filter_sort(kind, vec)) = Len(vec)
           /\ Sorted(kind, filter_sort(kind, vec))
           /\ \E p \in Bijection(1 .. Len(vec), 1 .. Len(vec)) :
                 \A n \in 1 .. Len(vec) : filter_sort(kind, vec)[n] = vec[p[n]]
<1>. DEFINE n == Len(vec)
<1>. DEFINE R == {e \in (1 .. n) \X (1 .. n) :
                    \/ filter_before(kind, vec[e[1]], vec[e[2]])
                    \/ vec[e[1]] = vec[e[2]] /\ e[1] < e[2]}
<1>. DEFINE place == [i \in DOMAIN vec |->
            Cardinality({j \in DOMAIN vec : filter_before(kind, vec[j], vec[i]) \/ (vec[j] = vec[i] /\ j <= i)})]
<1>1. n \in Nat /\ DOMAIN vec = 1 .. n /\ \A i \in 1 .. n : vec[i] \in S
  OBVIOUS
<1>2. \A i, j \in 1 .. n :
         <<i, j>> \in R <=> filter_before(kind, vec[i], vec[j]) \/ (vec[i] = vec[j] /\ i < j)
  OBVIOUS
<1>3. R \in SUBSET ((1 .. n) \X (1 .. n))
  OBVIOUS
<1>. HIDE DEF n, R
<1>4. \A a \in S : ~filter_before(kind, a, a)
  BY DEF Orderly
<1>5. \A i, j \in 1 .. n : i # j => <<i, j>> \in R \/ <<j, i>> \in R
  <2>1. \A i, j \in 1 .. n : i # j => i < j \/ j < i
    BY <1>1
  <2>. QED
    BY <1>1, <1>2, <2>1 DEF Orderly
<1>6. \A i, j \in 1 .. n : <<i, j>> \in R => <<j, i>> \notin R
  <2>1. \A i, j \in 1 .. n : i < j => ~(j < i)
    BY <1>1
  <2>. QED
    BY <1>1, <1>2, <1>4, <2>1 DEF Orderly
<1>7. \A i, j, k \in 1 .. n : <<i, j>> \in R /\ <<j, k>> \in R => <<i, k>> \in R
  <2>1. \A i, j, k \in 1 .. n : i < j /\ j < k => i < k
    BY <1>1
  <2>. QED
    BY <1>1, <1>2, <2>1 DEF Orderly
<1>8. ASSUME NEW i \in 1 .. n
      PROVE  {j \in DOMAIN vec : filter_before(kind, vec[j], vec[i]) \/ (vec[j] = vec[i] /\ j <= i)}
               = Upto(n, R, i)
  <2>1. \A j \in 1 .. n : j <= i <=> j < i \/ j = i
    BY <1>1
  <2>2. \A j \in 1 .. n : <<j, i>> \in R <=> filter_before(kind, vec[j], vec[i]) \/ (vec[j] = vec[i] /\ j < i)
    BY <1>2
  <2>3. ASSUME NEW j \in 1 .. n
        PROVE  (filter_before(kind, vec[j], vec[i]) \/ (vec[j] = vec[i] /\ j <= i))
                  <=> (<<j, i>> \in R \/ j = i)
    <3>1. CASE j = i
      BY ONLY <2>1, <3>1, Zenon
    <3>2. CASE j # i
      BY ONLY <2>1, <2>2, <3>2, Zenon
    <3>. QED
      BY <3>1, <3>2
  <2>4. DOMAIN vec = 1 .. n
    BY <1>1
  <2>. QED
    BY ONLY <2>3, <2>4, Zenon DEF Upto
<1>9. /\ place \in Bijection(1 .. n, 1 .. n)
      /\ \A i, j \in 1 .. n : <<i, j>> \in R <=> place[i] < place[j]
  <2>1. place = [i \in 1 .. n |-> Cardinality(Upto(n, R, i))]
    <3>. DEFINE A(i) == {j \in DOMAIN vec : filter_before(kind, vec[j], vec[i]) \/ (vec[j] = vec[i] /\ j <= i)}
    <3>. DEFINE B(i) == Upto(n, R, i)
    <3>1. \A i \in 1 .. n : A(i) = B(i)
      BY <1>8
    <3>2. DOMAIN vec = 1 .. n
      BY <1>1
    <3>. HIDE DEF A, B
    <3>3. [i \in DOMAIN vec |-> Cardinality(A(i))] = [i \in 1 .. n |-> Cardinality(B(i))]
      BY ONLY <3>1, <3>2
    <3>. QED
      BY <3>3 DEF A, B
  <2>2. StrictOrder(n, R)
    BY <1>5, <1>6, <1>7 DEF StrictOrder
  <2>3. n \in Nat
    BY <1>1
  <2>. HIDE DEF place
  <2>. QED
    BY ONLY <2>1, <2>2, <2>3, Placed
<1>10. filter_sort(kind, vec) = [m \in 1 .. n |-> vec[CHOOSE i \in 1 .. n : place[i] = m]]
  <2>1. filter_sort(kind, vec) = [m \in DOMAIN vec |-> vec[CHOOSE i \in DOMAIN vec : place[i] = m]]
    BY Zenon DEF filter_sort
  <2>2. DOMAIN vec = 1 .. n
    BY <1>1
  <2>. HIDE DEF place
  <2>. QED
    BY ONLY <2>1, <2>2
<1>. HIDE DEF place
<1>. DEFINE p == [m \in 1 .. n |-> CHOOSE i \in 1 .. n : place[i] = m]
<1>11. \A m \in 1 .. n : p[m] \in 1 .. n /\ place[p[m]] = m
  <2>1. \A m \in 1 .. n : \E i \in 1 .. n : place[i] = m
    BY <1>9 DEF Bijection, Surjection
  <2>. QED
    BY <2>1
<1>12. p \in Bijection(1 .. n, 1 .. n)
  <2>1. p \in [1 .. n -> 1 .. n]
    BY <1>11
  <2>2. \A i, j \in 1 .. n : place[i] = place[j] => i = j
    BY <1>9 DEF Bijection, Injection, IsInjective
  <2>3. \A i \in 1 .. n : place[i] \in 1 .. n
    BY <1>9 DEF Bijection, Injection
  <2>. HIDE DEF p
  <2>4. \A i, j \in 1 .. n : p[i] = p[j] => i = j
    BY <1>11
  <2>5. \A i \in 1 .. n : p[place[i]] = i
    BY <1>11, <2>2, <2>3
  <2>. QED
    BY <2>1, <2>3, <2>4, <2>5 DEF Bijection, Injection, Surjection, IsInjective
<1>13. filter_sort(kind, vec) = [m \in 1 .. n |-> vec[p[m]]]
  BY <1>10
<1>. HIDE DEF p
<1>14. \A m \in 1 .. n : filter_sort(kind, vec)[m] = vec[p[m]] /\ vec[p[m]] \in S
  BY <1>1, <1>11, <1>13
<1>15. filter_sort(kind, vec) \in Seq(S) /\ Len(filter_sort(kind, vec)) = n
  BY <1>1, <1>13, <1>14
<1>16. ASSUME NEW i \in 1 .. n, NEW j \in 1 .. n, i < j
       PROVE  ~filter_before(kind, vec[p[j]], vec[p[i]])
  <2>1. p[i] \in 1 .. n /\ p[j] \in 1 .. n /\ place[p[i]] = i /\ place[p[j]] = j
    BY <1>11
  <2>2. ~(place[p[j]] < place[p[i]])
    BY <1>1, <1>16, <2>1
  <2>3. <<p[j], p[i]>> \notin R
    BY <1>9, <2>1, <2>2
  <2>. QED
    BY <1>2, <2>1, <2>3
<1>17. Sorted(kind, filter_sort(kind, vec))
  <2>1. DOMAIN filter_sort(kind, vec) = 1 .. n
    BY <1>13
  <2>. QED
    BY <1>14, <1>16, <2>1 DEF Sorted
<1>. QED
  BY <1>12, <1>14, <1>15, <1>17 DEF n

-----------------------------------------------------------------------------
(* Filters of a table *)

\* With a bit, a mask has all that count more.
Leads(r, N, m) == \A p \in m, q \in 0 .. N : r[p] < r[q] => q \in m
Beginning(N, m) == Leads(Memory(N), N, m)

\* How the bits count where filters and keys are compared.
RankOf(kind, N) == IF kind = "omit" THEN Value(N) ELSE Memory(N)
FilterMask(kind, mask, a) == IF kind = "omit" THEN mask ELSE a.m

\* What filters_add puts into one table: no bit is set outside the mask, and a
\* mask is the beginning of a key.
FilterSets(kind, N, mask) ==
    {S \in SUBSET [f : SUBSET (0 .. N), m : SUBSET (0 .. N), len : Nat] :
        /\ \A a \in S : a.f \subseteq FilterMask(kind, mask, a)
        /\ kind = "omit" => \A a \in S : a.m = {} /\ a.len = 0
        /\ kind = "int" => \A a \in S : Beginning(N, a.m) /\ a.len = 0
        /\ kind = "bin" =>
              \A a \in S : /\ Beginning(N, a.m) /\ Whole(a) \subseteq a.m
                           /\ a.m \subseteq Whole(a) \cup LastByte(a)}
\* Byte strings of one length.
Alike(kind, S) == kind = "bin" => \A a, b \in S : a.len = b.len
Kindred == {"omit", "int", "bin"}

\* Filter a begins filter b: what b matches a matches.
Begins(kind, mask, a, b) ==
    /\ FilterMask(kind, mask, a) \subseteq FilterMask(kind, mask, b)
    /\ a.f = b.f \cap FilterMask(kind, mask, a)
Hit(kind, mask, a, pk) == pk \cap FilterMask(kind, mask, a) = a.f

LEMMA LeadingNested ==
    ASSUME NEW N \in Nat, NEW a \in SUBSET (0 .. N), NEW b \in SUBSET (0 .. N),
           Beginning(N, a), Beginning(N, b)
    PROVE  a \subseteq b \/ b \subseteq a
<1>1. ASSUME NEW p \in a \ b, NEW q \in b \ a PROVE FALSE
  <2>1. Memory(N)[p] \in Int /\ Memory(N)[q] \in Int /\ (Memory(N)[p] = Memory(N)[q] => p = q)
    BY RanksOfBits DEF Ranks
  <2>2. Memory(N)[p] < Memory(N)[q] \/ Memory(N)[q] < Memory(N)[p]
    BY <2>1
  <2>. QED
    BY <2>2 DEF Beginning, Leads
<1>. QED
  BY <1>1

\* What differs in the beginning is decided there.
LEMMA AboveLeading ==
    ASSUME NEW N \in Nat, NEW r \in Ranks(N), NEW m \in SUBSET (0 .. N), Leads(r, N, m),
           NEW a \in SUBSET (0 .. N), NEW b \in SUBSET (0 .. N), a \cap m # b \cap m
    PROVE  Above(r, a, b) <=> Above(r, a \cap m, b \cap m)
<1>. DEFINE S == SymDiff(a, b)
<1>0. \A p, q \in 0 .. N : r[p] \in Int /\ (r[p] = r[q] => p = q)
  BY DEF Ranks
<1>1. SymDiff(a \cap m, b \cap m) = S \cap m /\ S \in SUBSET (0 .. N) /\ S \cap m # {}
  BY DEF SymDiff
<1>2. PICK p \in S \cap m : \A q \in S \cap m : r[q] <= r[p]
  BY <1>1, Highest
<1>3. \A q \in S : r[q] <= r[p]
  <2>1. \A q \in S \ m : ~(r[p] < r[q])
    BY <1>1, <1>2 DEF Leads
  <2>. QED
    BY <1>0, <1>1, <1>2, <2>1
<1>4. \A q \in S : (\A s \in S : r[s] <= r[q]) => q = p
  BY <1>0, <1>1, <1>2, <1>3
<1>5. \A q \in S \cap m : (\A s \in S \cap m : r[s] <= r[q]) => q = p
  BY <1>0, <1>1, <1>2
<1>6. \A q : q \in b \ a => q \in S
  BY DEF SymDiff
<1>7. \A q : q \in (b \cap m) \ (a \cap m) => q \in S \cap m
  BY DEF SymDiff
<1>8. Above(r, a, b) <=> p \in b \ a
  BY <1>3, <1>4, <1>6 DEF Above
<1>9. Above(r, a \cap m, b \cap m) <=> p \in b \ a
  BY <1>1, <1>2, <1>5, <1>7 DEF Above
<1>. QED
  BY <1>8, <1>9

LEMMA AboveWider ==
    ASSUME NEW N \in Nat, NEW r \in Ranks(N), NEW a \in SUBSET (0 .. N), NEW b \in SUBSET (0 .. N),
           a \subseteq b
    PROVE  /\ a # b => Above(r, a, b)
           /\ ~Above(r, b, a)
<1>1. ~Above(r, b, a)
  BY DEF Above
<1>2. a # b => Above(r, a, b)
  BY <1>1, AboveTotal
<1>. QED
  BY <1>1, <1>2

LEMMA FiltersOf ==
    ASSUME NEW kind \in Kindred, NEW N \in Nat, NEW mask \in SUBSET (0 .. N),
           NEW S \in FilterSets(kind, N, mask), NEW a \in S
    PROVE  /\ a.f \in SUBSET (0 .. N) /\ a.m \in SUBSET (0 .. N)
           /\ a.f \subseteq FilterMask(kind, mask, a)
           /\ FilterMask(kind, mask, a) \in SUBSET (0 .. N)
           /\ kind = "omit" => FilterMask(kind, mask, a) = mask /\ a.m = {}
           /\ kind # "omit" => FilterMask(kind, mask, a) = a.m /\ Beginning(N, a.m)
<1>1. S \in SUBSET [f : SUBSET (0 .. N), m : SUBSET (0 .. N), len : Nat]
  BY DEF FilterSets
<1>2. a.f \in SUBSET (0 .. N) /\ a.m \in SUBSET (0 .. N)
  BY <1>1
<1>3. kind = "omit" => a.m = {}
  BY DEF FilterSets
<1>4. kind # "omit" => Beginning(N, a.m)
  BY DEF FilterSets, Kindred
<1>7. a.f \subseteq FilterMask(kind, mask, a)
  BY DEF FilterSets
<1>. QED
  BY <1>2, <1>3, <1>4, <1>7 DEF FilterMask

LEMMA SameFilter ==
    ASSUME NEW kind \in Kindred, NEW N \in Nat, NEW mask \in SUBSET (0 .. N),
           NEW S \in FilterSets(kind, N, mask), Alike(kind, S),
           NEW a \in S, NEW b \in S, a.f = b.f, a.m = b.m
    PROVE  a = b
<1>1. S \in SUBSET [f : SUBSET (0 .. N), m : SUBSET (0 .. N), len : Nat]
  BY DEF FilterSets
<1>2. a.len = b.len
  BY DEF FilterSets, Kindred, Alike
<1>. QED
  BY <1>1, <1>2

\* The whole bytes are a beginning.
LEMMA WholeBegins ==
    ASSUME NEW N \in Nat, NEW len \in Nat
    PROVE  Beginning(N, (0 .. len * ByteBits - 1) \cap (0 .. N))
<1>1. ByteBits \in Nat \ {0}
  BY FiltersAssumption
<1>2. ASSUME NEW p \in 0 .. N, NEW q \in 0 .. N, p <= len * ByteBits - 1, ~(q <= len * ByteBits - 1)
      PROVE  MemRank(q) < MemRank(p)
  <2>. DEFINE s == p \div ByteBits
  <2>. DEFINE t == q \div ByteBits
  <2>1. /\ s \in Nat /\ t \in Nat /\ p % ByteBits \in 0 .. ByteBits - 1 /\ q % ByteBits \in 0 .. ByteBits - 1
        /\ p = ByteBits * s + (p % ByteBits) /\ q = ByteBits * t + (q % ByteBits)
    BY <1>1
  <2>2. MemRank(p) = (p % ByteBits) - ByteBits * s /\ MemRank(q) = (q % ByteBits) - ByteBits * t
    BY DEF MemRank
  <2>. HIDE DEF s, t
  <2>3. s < len
    <3>1. s >= len => ByteBits * s >= ByteBits * len
      BY <1>1, <2>1
    <3>. QED
      BY <1>1, <1>2, <2>1, <3>1
  <2>4. t >= len
    <3>1. t + 1 <= len => ByteBits * (t + 1) <= ByteBits * len
      BY <1>1, <2>1
    <3>2. ByteBits * (t + 1) = ByteBits * t + ByteBits
      BY <1>1, <2>1
    <3>. QED
      BY <1>1, <1>2, <2>1, <3>1, <3>2
  <2>5. ByteBits * (t - s) >= ByteBits /\ ByteBits * (t - s) = ByteBits * t - ByteBits * s
    BY <1>1, <2>1, <2>3, <2>4
  <2>. QED
    BY <1>1, <2>1, <2>2, <2>5
<1>3. \A p \in 0 .. N : Memory(N)[p] = MemRank(p) /\ MemRank(p) \in Int
  BY <1>1 DEF Memory, MemRank
<1>4. ASSUME NEW p \in (0 .. len * ByteBits - 1) \cap (0 .. N), NEW q \in 0 .. N,
             Memory(N)[p] < Memory(N)[q]
      PROVE  q \in (0 .. len * ByteBits - 1) \cap (0 .. N)
  <2>0. len * ByteBits \in Nat
    BY <1>1
  <2>1. CASE ~(q <= len * ByteBits - 1)
    <3>1. MemRank(q) < MemRank(p)
      BY <1>2, <2>1
    <3>. QED
      BY <1>3, <1>4, <3>1
  <2>. QED
    BY <2>0, <2>1
<1>. QED
  BY <1>4 DEF Beginning, Leads

\* filter_compare for filters of one length: by the bits, then by the masks.
LEMMA BeforeIsAbove ==
    ASSUME NEW kind \in Kindred, NEW N \in Nat, NEW mask \in SUBSET (0 .. N),
           NEW S \in FilterSets(kind, N, mask), Alike(kind, S), NEW a \in S, NEW b \in S
    PROVE  LET r == RankOf(kind, N)
           IN  filter_before(kind, a, b)
                  <=> Above(r, a.f, b.f) \/ (a.f = b.f /\ Above(r, a.m, b.m))
<1>. DEFINE r == RankOf(kind, N)
<1>1. /\ a.f \in SUBSET (0 .. N) /\ a.m \in SUBSET (0 .. N)
      /\ b.f \in SUBSET (0 .. N) /\ b.m \in SUBSET (0 .. N)
      /\ kind # "omit" => /\ Beginning(N, a.m) /\ Beginning(N, b.m)
                          /\ a.f \subseteq a.m /\ b.f \subseteq b.m
      /\ kind = "omit" => a.m = b.m
  <2>1. ASSUME NEW x \in S
        PROVE  /\ x.f \in SUBSET (0 .. N) /\ x.m \in SUBSET (0 .. N)
               /\ kind = "omit" => x.m = {}
               /\ kind # "omit" => Beginning(N, x.m) /\ x.f \subseteq x.m
    BY FiltersOf DEF FilterMask
  <2>. QED
    BY <2>1
<1>2. r \in Ranks(N)
  BY RanksOfBits DEF RankOf
<1>3. CASE kind = "omit"
  <2>1. filter_before(kind, a, b) <=> IntLess(a.f, b.f)
    BY <1>3 DEF filter_before
  <2>2. ~Above(r, a.m, b.m)
    BY <1>1, <1>2, <1>3, AboveWider
  <2>. QED
    BY <1>1, <1>3, <2>1, <2>2, LessIsAbove DEF RankOf
<1>4. CASE kind = "int"
  <2>1. filter_before(kind, a, b) <=> MemLess(a.f, b.f) \/ (a.f = b.f /\ MemLess(a.m, b.m))
    BY <1>4 DEF filter_before
  <2>. QED
    BY <1>1, <1>4, <2>1, LessIsAbove DEF RankOf
<1>5. CASE kind = "bin"
  <2>. DEFINE W == Whole(a)
  <2>. DEFINE c == a.m \cap b.m
  <2>. DEFINE cm == a.m \cap b.m \cap LastByte(a)
  <2>1. /\ a.len = b.len /\ W \subseteq a.m /\ W \subseteq b.m /\ Beginning(N, W)
        /\ a.m \subseteq W \cup LastByte(a) /\ W = Whole(b)
    <3>1. a.len = b.len /\ a.len \in Nat
      BY <1>5 DEF Alike, FilterSets
    <3>2. W \subseteq a.m /\ W \subseteq b.m /\ a.m \subseteq W \cup LastByte(a) /\ W = Whole(b)
      BY <1>5, <3>1 DEF FilterSets, Whole
    <3>3. W = (0 .. a.len * ByteBits - 1) \cap (0 .. N)
      BY <1>1, <3>2 DEF Whole, Ones
    <3>4. Beginning(N, W)
      BY <3>1, <3>3, WholeBegins
    <3>. HIDE DEF W
    <3>. QED
      BY <3>1, <3>2, <3>4
  <2>2. Beginning(N, c) /\ c \in SUBSET (0 .. N) /\ W \in SUBSET (0 .. N) /\ W \subseteq c
        /\ c \subseteq W \cup cm /\ cm \in SUBSET (0 .. N)
    BY <1>1, <1>5, <2>1 DEF Beginning, Leads
  <2>3. filter_before(kind, a, b) <=>
           IF a.f \cap W # b.f \cap W THEN MemLess(a.f \cap W, b.f \cap W)
           ELSE IF a.f \cap cm # b.f \cap cm THEN MemLess(a.f \cap cm, b.f \cap cm)
           ELSE MemLess(a.m, b.m)
    BY <1>5, <2>1 DEF filter_before
  <2>4. r = Memory(N)
    BY <1>5 DEF RankOf
  <2>5. CASE a.f \cap W # b.f \cap W
    <3>1. MemLess(a.f \cap W, b.f \cap W) <=> Above(r, a.f \cap W, b.f \cap W)
      BY <1>1, <2>2, <2>4, LessIsAbove
    <3>2. Above(r, a.f, b.f) <=> Above(r, a.f \cap W, b.f \cap W)
      BY <1>1, <2>1, <2>2, <1>2, <2>4, <2>5, AboveLeading DEF Beginning
    <3>. QED
      BY <2>3, <2>5, <3>1, <3>2
  <2>6. CASE a.f \cap W = b.f \cap W /\ a.f \cap cm # b.f \cap cm
    <3>1. MemLess(a.f \cap cm, b.f \cap cm) <=> Above(r, a.f \cap cm, b.f \cap cm)
      BY <1>1, <2>2, <2>4, LessIsAbove
    <3>2. a.f \cap c # b.f \cap c
      BY <2>2, <2>6
    <3>3. Above(r, a.f, b.f) <=> Above(r, a.f \cap c, b.f \cap c)
      BY <1>1, <2>2, <1>2, <2>4, <3>2, AboveLeading DEF Beginning
    <3>4. /\ (b.f \cap c) \ (a.f \cap c) = (b.f \cap cm) \ (a.f \cap cm)
          /\ (a.f \cap c) \ (b.f \cap c) = (a.f \cap cm) \ (b.f \cap cm)
      BY <2>2, <2>6
    <3>5. Above(r, a.f \cap c, b.f \cap c) <=> Above(r, a.f \cap cm, b.f \cap cm)
      BY <3>4 DEF Above, SymDiff
    <3>. QED
      BY <2>3, <2>6, <3>1, <3>3, <3>5
  <2>7. CASE a.f \cap W = b.f \cap W /\ a.f \cap cm = b.f \cap cm
    <3>1. filter_before(kind, a, b) <=> Above(r, a.m, b.m)
      BY <1>1, <2>3, <2>4, <2>7, LessIsAbove
    <3>2. a.f \cap c = b.f \cap c
      BY <2>2, <2>7
    <3>3. CASE a.m \subseteq b.m
      <4>1. a.f \subseteq b.f
        BY <1>1, <1>5, <3>2, <3>3
      <4>2. a.m = b.m => a.f = b.f
        BY <1>1, <1>5, <3>2
      <4>3. a.m # b.m => Above(r, a.m, b.m)
        BY <1>1, <1>2, <3>3, AboveWider
      <4>4. a.m = b.m => ~Above(r, a.m, b.m)
        BY <1>1, <1>2, <3>3, AboveWider
      <4>5. a.f # b.f => Above(r, a.f, b.f)
        BY <1>1, <1>2, <4>1, AboveWider
      <4>6. a.f = b.f => ~Above(r, a.f, b.f)
        BY <1>1, <1>2, AboveWider
      <4>. QED
        BY <3>1, <4>2, <4>3, <4>4, <4>5, <4>6
    <3>4. CASE b.m \subseteq a.m
      <4>1. b.f \subseteq a.f
        BY <1>1, <1>5, <3>2, <3>4
      <4>2. ~Above(r, a.m, b.m) /\ ~Above(r, a.f, b.f)
        BY <1>1, <1>2, <3>4, <4>1, AboveWider
      <4>. QED
        BY <3>1, <4>2
    <3>. QED
      BY <1>1, <1>5, <3>3, <3>4, LeadingNested
  <2>. QED
    BY <2>5, <2>6, <2>7
<1>. QED
  BY <1>3, <1>4, <1>5 DEF Kindred

\* Filters of one length can be put in order.
LEMMA AlikeOrderly ==
    ASSUME NEW kind \in Kindred, NEW N \in Nat, NEW mask \in SUBSET (0 .. N),
           NEW S \in FilterSets(kind, N, mask), Alike(kind, S)
    PROVE  Orderly(kind, S)
<1>. DEFINE r == RankOf(kind, N)
<1>. DEFINE lower(a, b) == Above(r, a.f, b.f) \/ (a.f = b.f /\ Above(r, a.m, b.m))
<1>1. \A a, b \in S : filter_before(kind, a, b) <=> lower(a, b)
  BY BeforeIsAbove
<1>2. r \in Ranks(N)
  BY RanksOfBits DEF RankOf
<1>3. \A a \in S : a.f \in SUBSET (0 .. N) /\ a.m \in SUBSET (0 .. N)
  BY FiltersOf
<1>. HIDE DEF r
<1>4. ASSUME NEW a \in S, NEW b \in S PROVE a = b \/ lower(a, b) \/ lower(b, a)
  <2>1. a.f # b.f => Above(r, a.f, b.f) \/ Above(r, b.f, a.f)
    BY <1>2, <1>3, AboveTotal
  <2>2. a.m # b.m => Above(r, a.m, b.m) \/ Above(r, b.m, a.m)
    BY <1>2, <1>3, AboveTotal
  <2>3. a.f = b.f /\ a.m = b.m => a = b
    BY SameFilter
  <2>. QED
    BY <2>1, <2>2, <2>3
<1>5. ASSUME NEW a \in S, NEW b \in S, lower(a, b) PROVE ~lower(b, a)
  <2>1. Above(r, a.f, b.f) => ~Above(r, b.f, a.f) /\ a.f # b.f
    BY <1>2, <1>3, AboveNotBoth
  <2>2. Above(r, a.m, b.m) => ~Above(r, b.m, a.m)
    BY <1>2, <1>3, AboveNotBoth
  <2>3. Above(r, b.f, a.f) => a.f # b.f
    BY <1>2, <1>3, AboveNotBoth
  <2>. QED
    BY <1>5, <2>1, <2>2, <2>3
<1>6. ASSUME NEW a \in S, NEW b \in S, NEW d \in S, lower(a, b), lower(b, d) PROVE lower(a, d)
  <2>1. Above(r, a.f, b.f) /\ Above(r, b.f, d.f) => Above(r, a.f, d.f)
    BY <1>2, <1>3, AboveTransitive
  <2>2. Above(r, a.m, b.m) /\ Above(r, b.m, d.m) => Above(r, a.m, d.m)
    BY <1>2, <1>3, AboveTransitive
  <2>. QED
    BY <1>6, <2>1, <2>2
<1>. QED
  BY <1>1, <1>4, <1>5, <1>6 DEF Orderly


\* Byte strings of any length: the whole bytes as bits, and for each of them a
\* mark that counts more than the bits of its byte and less than those before.
Mark(N, j) == N + 1 + j
Marked(N, a) == (a.f \cap Whole(a)) \cup {Mark(N, j) : j \in 0 .. a.len - 1}
MarkedRank(N) ==
    [p \in 0 .. 2 * N + 1 |-> IF p <= N THEN 2 * MemRank(p)
                              ELSE 2 * (ByteBits - 1 - ByteBits * (p - N - 1)) + 1]

\* A bit counts more than the mark of the byte behind its own.
LEMMA MarkBefore ==
    ASSUME NEW p \in Nat, NEW j \in Nat
    PROVE  /\ MemRank(p) \in Int /\ ByteBits * j \in Nat
           /\ MemRank(p) <= ByteBits - 1
           /\ p < ByteBits * j <=> MemRank(p) > ByteBits - 1 - ByteBits * j
<1>1. ByteBits \in Nat \ {0}
  BY FiltersAssumption
<1>. DEFINE s == p \div ByteBits
<1>. DEFINE t == p % ByteBits
<1>2. s \in Nat /\ t \in 0 .. ByteBits - 1 /\ p = ByteBits * s + t /\ MemRank(p) = t - ByteBits * s
  BY <1>1 DEF MemRank
<1>. HIDE DEF s, t
<1>3. ByteBits * s \in Nat /\ ByteBits * j \in Nat
  BY <1>1, <1>2
<1>4. s < j => ByteBits * s + ByteBits <= ByteBits * j
  <2>1. s < j => ByteBits * (s + 1) <= ByteBits * j
    BY <1>1, <1>2
  <2>2. ByteBits * (s + 1) = ByteBits * s + ByteBits
    BY <1>1, <1>2
  <2>. QED
    BY <2>1, <2>2
<1>5. ~(s < j) => ByteBits * j <= ByteBits * s
  BY <1>1, <1>2
<1>. QED
  BY <1>1, <1>2, <1>3, <1>4, <1>5

LEMMA MarkedRanks ==
    ASSUME NEW N \in Nat
    PROVE  /\ MarkedRank(N) \in Ranks(2 * N + 1)
           /\ \A p \in 0 .. N : MarkedRank(N)[p] = 2 * MemRank(p)
           /\ \A j \in 0 .. N : MarkedRank(N)[Mark(N, j)] = 2 * (ByteBits - 1 - ByteBits * j) + 1
<1>. DEFINE r == MarkedRank(N)
<1>. DEFINE h(j) == 2 * (ByteBits - 1 - ByteBits * j) + 1
<1>1. ByteBits \in Nat \ {0}
  BY FiltersAssumption
<1>2. \A p \in 0 .. N : p \in 0 .. 2 * N + 1 /\ p \in Nat /\ r[p] = 2 * MemRank(p)
  BY DEF MarkedRank
<1>3. \A j \in 0 .. N : Mark(N, j) \in 0 .. 2 * N + 1 /\ j \in Nat /\ r[Mark(N, j)] = h(j)
  <2>. TAKE j \in 0 .. N
  <2>1. Mark(N, j) \in 0 .. 2 * N + 1 /\ ~(Mark(N, j) <= N) /\ Mark(N, j) - N - 1 = j
    BY DEF Mark
  <2>. QED
    BY <2>1 DEF MarkedRank
<1>4. \A p \in 0 .. 2 * N + 1 : p \in 0 .. N \/ \E j \in 0 .. N : p = Mark(N, j)
  <2>. TAKE p \in 0 .. 2 * N + 1
  <2>1. CASE ~(p <= N)
    <3>1. p - N - 1 \in 0 .. N /\ p = Mark(N, p - N - 1)
      BY <2>1 DEF Mark
    <3>. QED
      BY <3>1
  <2>. QED
    BY <2>1
<1>5. \A p \in Nat : MemRank(p) \in Int /\ MemRank(p) <= ByteBits - 1
  <2>. TAKE p \in Nat
  <2>. QED
    BY MarkBefore, 0 \in Nat
<1>6. \A j \in Nat : ByteBits * j \in Nat /\ h(j) \in Int /\ h(j) <= 2 * ByteBits
  BY <1>1
<1>7. \A p \in 0 .. 2 * N + 1 : r[p] \in Int /\ r[p] <= 2 * ByteBits
  <2>1. ASSUME NEW p \in 0 .. N PROVE r[p] \in Int /\ r[p] <= 2 * ByteBits
    <3>1. MemRank(p) \in Int /\ MemRank(p) <= ByteBits - 1
      BY <1>5, <1>2
    <3>. QED
      BY <1>1, <1>2, <3>1
  <2>2. ASSUME NEW j \in 0 .. N PROVE r[Mark(N, j)] \in Int /\ r[Mark(N, j)] <= 2 * ByteBits
    BY <1>3, <1>6
  <2>. HIDE DEF r
  <2>. QED
    BY <1>4, <2>1, <2>2
<1>8. ASSUME NEW p \in 0 .. 2 * N + 1, NEW q \in 0 .. 2 * N + 1, r[p] = r[q] PROVE p = q
  <2>1. CASE p \in 0 .. N /\ q \in 0 .. N
    <3>1. MemRank(p) = MemRank(q)
      <4>1. MemRank(p) \in Int /\ MemRank(q) \in Int
        BY <1>2, <1>5, <2>1
      <4>2. 2 * MemRank(p) = 2 * MemRank(q)
        BY <1>2, <1>8, <2>1
      <4>. QED
        BY <4>1, <4>2
    <3>2. Memory(N)[p] = Memory(N)[q]
      BY <2>1, <3>1 DEF Memory
    <3>. QED
      BY <2>1, <3>2, RanksOfBits DEF Ranks
  <2>2. ASSUME NEW x \in 0 .. N, NEW j \in 0 .. N, r[x] = r[Mark(N, j)] PROVE FALSE
    <3>1. 2 * MemRank(x) = h(j)
      BY <1>2, <1>3, <2>2
    <3>2. MemRank(x) \in Int /\ ByteBits * j \in Nat
      BY <1>2, <1>5, <1>3, <1>6
    <3>. QED
      BY <1>1, <3>1, <3>2
  <2>3. ASSUME NEW i \in 0 .. N, NEW j \in 0 .. N, r[Mark(N, i)] = r[Mark(N, j)] PROVE i = j
    <3>1. h(i) = h(j)
      BY <1>3, <2>3
    <3>2. ByteBits * i \in Nat /\ ByteBits * j \in Nat
      BY <1>3, <1>6
    <3>3. ByteBits * i = ByteBits * j
      BY <1>1, <3>1, <3>2
    <3>4. ByteBits * (i - j) = 0
      BY <1>1, <3>3
    <3>. QED
      BY <1>1, <3>4
  <2>. HIDE DEF r
  <2>4. CASE p \in 0 .. N /\ q \notin 0 .. N
    BY <1>4, <1>8, <2>2, <2>4
  <2>5. CASE p \notin 0 .. N /\ q \in 0 .. N
    BY <1>4, <1>8, <2>2, <2>5
  <2>6. CASE p \notin 0 .. N /\ q \notin 0 .. N
    BY <1>4, <1>8, <2>3, <2>6
  <2>. QED
    BY <2>1, <2>4, <2>5, <2>6
<1>9. r \in Ranks(2 * N + 1)
  <2>1. r = [p \in 0 .. 2 * N + 1 |-> r[p]]
    BY DEF MarkedRank
  <2>. HIDE DEF r
  <2>2. r \in [0 .. 2 * N + 1 -> Int]
    BY <1>7, <2>1
  <2>3. 2 * ByteBits \in Int
    BY <1>1
  <2>. QED
    BY <1>7, <1>8, <2>2, <2>3 DEF Ranks
<1>. QED
  BY <1>2, <1>3, <1>9


\* The bits of the first k bytes, and the marks of k + c of them.
Foremost(N, k, c) ==
    {p \in 0 .. N : p < ByteBits * k} \cup {Mark(N, j) : j \in {i \in 0 .. N : i < k + c}}

LEMMA ForemostLeads ==
    ASSUME NEW N \in Nat, NEW k \in Nat, NEW c \in {0, 1}
    PROVE  /\ Foremost(N, k, c) \in SUBSET (0 .. 2 * N + 1)
           /\ Leads(MarkedRank(N), 2 * N + 1, Foremost(N, k, c))
<1>. DEFINE r == MarkedRank(N)
<1>. DEFINE h(j) == ByteBits - 1 - ByteBits * j
<1>. DEFINE bits == {p \in 0 .. N : p < ByteBits * k}
<1>. DEFINE marks == {i \in 0 .. N : i < k + c}
<1>1. ByteBits \in Nat \ {0}
  BY FiltersAssumption
<1>2. \A i, j \in Nat : i < j <=> ByteBits * i < ByteBits * j
  <2>. TAKE i, j \in Nat
  <2>1. i < j => ByteBits * i + ByteBits <= ByteBits * j
    <3>1. i < j => ByteBits * (i + 1) <= ByteBits * j
      BY <1>1
    <3>2. ByteBits * (i + 1) = ByteBits * i + ByteBits
      BY <1>1
    <3>. QED
      BY <3>1, <3>2
  <2>2. ~(i < j) => ByteBits * j <= ByteBits * i
    BY <1>1
  <2>. QED
    BY <1>1, <2>1, <2>2
<1>3. \A j \in Nat : ByteBits * j \in Nat /\ h(j) \in Int
  BY <1>1
<1>4. \A p \in 0 .. N : /\ p \in Nat /\ r[p] = 2 * MemRank(p) /\ MemRank(p) \in Int
                        /\ p < ByteBits * k <=> MemRank(p) > h(k)
  <2>. TAKE p \in 0 .. N
  <2>. QED
    BY MarkBefore, MarkedRanks
<1>5. \A j \in 0 .. N : j \in Nat /\ r[Mark(N, j)] = 2 * h(j) + 1 /\ h(j) \in Int
  BY <1>3, MarkedRanks
<1>6. \A q \in 0 .. 2 * N + 1 : q \in 0 .. N \/ \E j \in 0 .. N : q = Mark(N, j)
  <2>. TAKE q \in 0 .. 2 * N + 1
  <2>1. CASE ~(q <= N)
    <3>1. q - N - 1 \in 0 .. N /\ q = Mark(N, q - N - 1)
      BY <2>1 DEF Mark
    <3>. QED
      BY <3>1
  <2>. QED
    BY <2>1
<1>7. /\ \A j \in marks : j \in 0 .. N /\ j <= k /\ j < k + c
      /\ \A j \in 0 .. N : j < k => j \in marks
      /\ \A i \in marks, j \in 0 .. N : j < i => j \in marks
  OBVIOUS
<1>8. Foremost(N, k, c) = bits \cup {Mark(N, j) : j \in marks}
  BY DEF Foremost
<1>. HIDE DEF r
<1>9. ASSUME NEW p \in bits, NEW q \in 0 .. N, r[p] < r[q] PROVE q \in bits
  <2>1. MemRank(p) > h(k) /\ MemRank(p) \in Int /\ MemRank(q) \in Int /\ 2 * MemRank(p) < 2 * MemRank(q)
    BY <1>4, <1>9
  <2>2. MemRank(q) > h(k)
    BY <1>3, <2>1
  <2>. QED
    BY <1>4, <2>2
<1>10. ASSUME NEW p \in bits, NEW j \in 0 .. N, r[p] < r[Mark(N, j)] PROVE j \in marks
  <2>1. MemRank(p) > h(k) /\ MemRank(p) \in Int /\ 2 * MemRank(p) < 2 * h(j) + 1 /\ h(j) \in Int
    BY <1>4, <1>5, <1>10
  <2>2. h(j) > h(k)
    BY <1>3, <2>1
  <2>3. j < k
    BY <1>1, <1>2, <1>3, <2>2
  <2>. QED
    BY <1>7, <2>3
<1>11. ASSUME NEW i \in marks, NEW q \in 0 .. N, r[Mark(N, i)] < r[q] PROVE q \in bits
  <2>1. i \in 0 .. N /\ i <= k
    BY <1>7
  <2>2. MemRank(q) \in Int /\ 2 * h(i) + 1 < 2 * MemRank(q) /\ h(i) \in Int
    BY <1>4, <1>5, <1>11, <2>1
  <2>3. h(i) >= h(k)
    <3>1. ~(ByteBits * k < ByteBits * i)
      BY <1>2, <2>1
    <3>. QED
      BY <1>1, <1>3, <2>1, <3>1
  <2>4. MemRank(q) > h(k)
    BY <1>3, <2>2, <2>3
  <2>. QED
    BY <1>4, <2>4
<1>12. ASSUME NEW i \in marks, NEW j \in 0 .. N, r[Mark(N, i)] < r[Mark(N, j)] PROVE j \in marks
  <2>1. 2 * h(i) + 1 < 2 * h(j) + 1 /\ h(i) \in Int /\ h(j) \in Int /\ i \in Nat /\ j \in Nat
    BY <1>5, <1>7, <1>12
  <2>2. ByteBits * j < ByteBits * i
    BY <1>1, <1>3, <2>1
  <2>3. j < i
    BY <1>2, <2>1, <2>2
  <2>. QED
    BY <1>7, <2>3
<1>13. Foremost(N, k, c) \in SUBSET (0 .. 2 * N + 1)
  <2>1. \A j \in 0 .. N : Mark(N, j) \in 0 .. 2 * N + 1
    BY DEF Mark
  <2>2. \A p \in 0 .. N : p \in 0 .. 2 * N + 1
    OBVIOUS
  <2>. QED
    BY <1>7, <1>8, <2>1, <2>2
<1>14. ASSUME NEW p \in Foremost(N, k, c), NEW q \in 0 .. 2 * N + 1, r[p] < r[q] PROVE q \in Foremost(N, k, c)
  <2>. HIDE DEF bits, marks
  <2>1. CASE q \in 0 .. N
    BY <1>8, <1>9, <1>11, <1>14, <2>1
  <2>2. CASE \E j \in 0 .. N : q = Mark(N, j)
    BY <1>8, <1>10, <1>12, <1>14, <2>2
  <2>. QED
    BY <1>6, <2>1, <2>2
<1>. QED
  BY <1>13, <1>14 DEF Leads, r

\* Byte strings as the bits of their whole bytes and marks.
LEMMA MarkedParts ==
    ASSUME NEW N \in Nat, NEW mask \in SUBSET (0 .. N), NEW S \in FilterSets("bin", N, mask),
           NEW a \in S
    PROVE  /\ a.len \in Nat /\ a.f \in SUBSET (0 .. N)
           /\ \A i \in 0 .. a.len - 1 : i \in 0 .. N
           /\ Marked(N, a) \in SUBSET (0 .. 2 * N + 1)
           /\ \A k \in 0 .. a.len : Ones(k * ByteBits) = {p \in 0 .. N : p < ByteBits * k}
           /\ \A p \in 0 .. N : p \in Marked(N, a) <=> p \in a.f \cap Whole(a)
           /\ \A j \in 0 .. N : Mark(N, j) \in Marked(N, a) <=> j < a.len
<1>1. ByteBits \in Nat \ {0}
  BY FiltersAssumption
<1>2. /\ a.len \in Nat /\ a.f \in SUBSET (0 .. N) /\ a.m \in SUBSET (0 .. N)
      /\ Whole(a) \subseteq a.m
  BY DEF FilterSets
<1>3. Whole(a) = 0 .. a.len * ByteBits - 1
  BY DEF Whole, Ones
<1>4. \A j \in 0 .. a.len - 1 : j \in 0 .. N
  <2>. TAKE j \in 0 .. a.len - 1
  <2>1. ByteBits * j \in Nat /\ ByteBits * j + ByteBits <= a.len * ByteBits
    <3>1. ByteBits * (j + 1) <= ByteBits * a.len
      BY <1>1, <1>2
    <3>2. ByteBits * (j + 1) = ByteBits * j + ByteBits /\ ByteBits * a.len = a.len * ByteBits
      BY <1>1, <1>2
    <3>. QED
      BY <1>1, <3>1, <3>2
  <2>2. ByteBits * j \in 0 .. a.len * ByteBits - 1
    <3>1. a.len * ByteBits \in Nat
      BY <1>1, <1>2
    <3>. QED
      BY <1>1, <2>1, <3>1
  <2>3. ByteBits * j \in 0 .. N
    BY <1>2, <1>3, <2>2
  <2>4. j <= ByteBits * j
    BY <1>1
  <2>. QED
    BY <2>3, <2>4
<1>5. \A j \in 0 .. N : Mark(N, j) \in 0 .. 2 * N + 1 /\ Mark(N, j) \notin 0 .. N
  BY DEF Mark
<1>6. \A i, j \in 0 .. N : Mark(N, i) = Mark(N, j) => i = j
  BY DEF Mark
<1>7. \A p \in 0 .. N : p \in 0 .. 2 * N + 1
  OBVIOUS
<1>8. Marked(N, a) \in SUBSET (0 .. 2 * N + 1)
  BY <1>2, <1>4, <1>5, <1>7 DEF Marked
<1>9. ASSUME NEW k \in 0 .. a.len PROVE Ones(k * ByteBits) = {p \in 0 .. N : p < ByteBits * k}
  <2>1. k * ByteBits = ByteBits * k /\ ByteBits * k \in Nat /\ ByteBits * k <= a.len * ByteBits
        /\ a.len * ByteBits \in Nat
    BY <1>1, <1>2
  <2>2. Ones(k * ByteBits) = 0 .. ByteBits * k - 1
    BY <2>1 DEF Ones
  <2>3. 0 .. ByteBits * k - 1 \subseteq Whole(a)
    BY <1>3, <2>1
  <2>4. 0 .. ByteBits * k - 1 \subseteq 0 .. N
    BY <1>2, <2>3
  <2>. QED
    BY <2>1, <2>2, <2>4
<1>10. \A p \in 0 .. N : p \in Marked(N, a) <=> p \in a.f \cap Whole(a)
  BY <1>4, <1>5 DEF Marked
<1>11. ASSUME NEW j \in 0 .. N PROVE Mark(N, j) \in Marked(N, a) <=> j < a.len
  <2>1. Mark(N, j) \notin a.f
    BY <1>2, <1>5
  <2>2. Mark(N, j) \in Marked(N, a) <=> \E i \in 0 .. a.len - 1 : Mark(N, j) = Mark(N, i)
    BY <2>1 DEF Marked
  <2>3. \A i \in 0 .. a.len - 1 : Mark(N, j) = Mark(N, i) => i = j
    BY <1>4, <1>6
  <2>. QED
    BY <1>2, <2>2, <2>3
<1>. QED
  BY <1>2, <1>4, <1>8, <1>9, <1>10, <1>11


\* Of two byte strings that agree in the shorter one, this comes first.
LEMMA ShorterFirst ==
    ASSUME NEW N \in Nat, NEW mask \in SUBSET (0 .. N), NEW S \in FilterSets("bin", N, mask),
           NEW a \in S, NEW b \in S, a.len < b.len, a.f \cap Whole(a) = b.f \cap Whole(a)
    PROVE  Above(MarkedRank(N), Marked(N, a), Marked(N, b))
<1>. DEFINE k == a.len
<1>. DEFINE F == Foremost(N, k, 1)
<1>. DEFINE r == MarkedRank(N)
<1>. DEFINE A == Marked(N, a) \cap F
<1>. DEFINE B == Marked(N, b) \cap F
<1>1. k \in Nat /\ b.len \in Nat /\ k \in 0 .. a.len /\ k \in 0 .. b.len /\ b.len \in 0 .. b.len
  <2>1. a.len \in Nat /\ b.len \in Nat
    BY MarkedParts
  <2>. QED
    BY <2>1
<1>2. /\ Marked(N, a) \in SUBSET (0 .. 2 * N + 1) /\ Marked(N, b) \in SUBSET (0 .. 2 * N + 1)
      /\ k \in 0 .. N
  <2>1. k \in 0 .. b.len - 1
    BY <1>1
  <2>. QED
    BY <2>1, MarkedParts
<1>3. Whole(a) = {p \in 0 .. N : p < ByteBits * k} /\ Whole(a) \subseteq Whole(b)
  <2>1. Whole(a) = Ones(k * ByteBits) /\ Whole(b) = Ones(b.len * ByteBits)
    BY DEF Whole
  <2>2. Ones(k * ByteBits) = {p \in 0 .. N : p < ByteBits * k}
    BY <1>1, MarkedParts
  <2>3. Ones(b.len * ByteBits) = {p \in 0 .. N : p < ByteBits * b.len}
    BY <1>1, MarkedParts
  <2>4. ByteBits * k <= ByteBits * b.len /\ ByteBits * k \in Nat /\ ByteBits * b.len \in Nat
    BY <1>1, FiltersAssumption
  <2>. QED
    BY <2>1, <2>2, <2>3, <2>4
<1>4. /\ F \in SUBSET (0 .. 2 * N + 1) /\ Leads(r, 2 * N + 1, F)
      /\ r \in Ranks(2 * N + 1) /\ 2 * N + 1 \in Nat
  BY <1>1, ForemostLeads, MarkedRanks
<1>5. /\ \A p \in F : (p \in 0 .. N /\ p \in Whole(a)) \/ \E j \in 0 .. N : p = Mark(N, j) /\ j <= k
      /\ Mark(N, k) \in F
  <2>1. \A j \in 0 .. N : j < k + 1 <=> j <= k
    BY <1>1
  <2>. QED
    BY <1>2, <1>3, <2>1 DEF Foremost
<1>6. /\ \A p \in 0 .. N : p \in Marked(N, a) <=> p \in a.f \cap Whole(a)
      /\ \A p \in 0 .. N : p \in Marked(N, b) <=> p \in b.f \cap Whole(b)
      /\ \A j \in 0 .. N : Mark(N, j) \in Marked(N, a) <=> j < a.len
      /\ \A j \in 0 .. N : Mark(N, j) \in Marked(N, b) <=> j < b.len
  BY MarkedParts
<1>7. ASSUME NEW p \in A PROVE p \in B
  <2>0. p \in Marked(N, a) /\ p \in F
    OBVIOUS
  <2>. HIDE DEF F
  <2>1. CASE p \in 0 .. N /\ p \in Whole(a)
    BY <1>3, <1>6, <2>0, <2>1
  <2>2. CASE \E j \in 0 .. N : p = Mark(N, j) /\ j <= k
    BY <1>1, <1>6, <2>0, <2>2
  <2>. QED
    BY <1>5, <2>0, <2>1, <2>2
<1>8. Mark(N, k) \in B /\ Mark(N, k) \notin A
  BY <1>1, <1>2, <1>5, <1>6
<1>9. Above(r, A, B)
  <2>1. A \in SUBSET (0 .. 2 * N + 1) /\ B \in SUBSET (0 .. 2 * N + 1) /\ A # B
    BY <1>2, <1>8
  <2>. HIDE DEF A, B, r
  <2>. QED
    BY ONLY <1>4, <1>7, <2>1, AboveWider
<1>10. A # B
  BY <1>8
<1>. HIDE DEF F, r
<1>. QED
  BY <1>2, <1>4, <1>9, <1>10, AboveLeading DEF A, B, r

\* Where they differ in the whole bytes of both, the bits decide.
LEMMA WholesDiffer ==
    ASSUME NEW N \in Nat, NEW mask \in SUBSET (0 .. N), NEW S \in FilterSets("bin", N, mask),
           NEW a \in S, NEW b \in S, NEW k \in Nat, k <= a.len, k <= b.len,
           a.f \cap Ones(k * ByteBits) # b.f \cap Ones(k * ByteBits)
    PROVE  /\ Marked(N, a) # Marked(N, b)
           /\ Above(MarkedRank(N), Marked(N, a), Marked(N, b))
                 <=> MemLess(a.f \cap Ones(k * ByteBits), b.f \cap Ones(k * ByteBits))
<1>. DEFINE F == Foremost(N, k, 0)
<1>. DEFINE r == MarkedRank(N)
<1>. DEFINE A == Marked(N, a) \cap F
<1>. DEFINE B == Marked(N, b) \cap F
<1>. DEFINE W == Ones(k * ByteBits)
<1>1. /\ a.len \in Nat /\ b.len \in Nat /\ a.f \in SUBSET (0 .. N) /\ b.f \in SUBSET (0 .. N)
      /\ k \in 0 .. a.len /\ k \in 0 .. b.len /\ a.len \in 0 .. a.len /\ b.len \in 0 .. b.len
  BY MarkedParts
<1>2. Marked(N, a) \in SUBSET (0 .. 2 * N + 1) /\ Marked(N, b) \in SUBSET (0 .. 2 * N + 1)
  BY MarkedParts
<1>3. W = {p \in 0 .. N : p < ByteBits * k} /\ W \subseteq Whole(a) /\ W \subseteq Whole(b)
  <2>1. Whole(a) = Ones(a.len * ByteBits) /\ Whole(b) = Ones(b.len * ByteBits)
    BY DEF Whole
  <2>2. W = {p \in 0 .. N : p < ByteBits * k}
    BY <1>1, MarkedParts
  <2>3. /\ Ones(b.len * ByteBits) = {p \in 0 .. N : p < ByteBits * b.len}
        /\ Ones(a.len * ByteBits) = {p \in 0 .. N : p < ByteBits * a.len}
    BY <1>1, MarkedParts
  <2>4. /\ ByteBits * k <= ByteBits * b.len /\ ByteBits * k <= ByteBits * a.len
        /\ ByteBits * k \in Nat /\ ByteBits * b.len \in Nat /\ ByteBits * a.len \in Nat
    BY <1>1, FiltersAssumption
  <2>. QED
    BY <2>1, <2>2, <2>3, <2>4
<1>4. /\ F \in SUBSET (0 .. 2 * N + 1) /\ Leads(r, 2 * N + 1, F)
      /\ r \in Ranks(2 * N + 1) /\ 2 * N + 1 \in Nat
  BY ForemostLeads, MarkedRanks
<1>. DEFINE M == {Mark(N, j) : j \in {i \in 0 .. N : i < k}}
<1>5. F = W \cup M
  <2>1. k + 0 = k
    OBVIOUS
  <2>. QED
    BY <1>3, <2>1 DEF Foremost
<1>6. A = (a.f \cap W) \cup M /\ B = (b.f \cap W) \cup M
  <2>1. /\ \A p \in W : p \in Marked(N, a) <=> p \in a.f
        /\ \A p \in W : p \in Marked(N, b) <=> p \in b.f
    <3>1. \A p \in W : p \in 0 .. N /\ p \in Whole(a) /\ p \in Whole(b)
      BY <1>3
    <3>. HIDE DEF W
    <3>. QED
      BY <3>1, MarkedParts
  <2>2. ASSUME NEW p \in M PROVE p \in Marked(N, a) /\ p \in Marked(N, b)
    <3>1. PICK j \in 0 .. N : p = Mark(N, j) /\ j < k
      OBVIOUS
    <3>2. j < a.len /\ j < b.len
      BY <1>1, <3>1
    <3>. QED
      BY <3>1, <3>2, MarkedParts
  <2>. HIDE DEF W, M, F
  <2>. QED
    BY <1>5, <2>1, <2>2
<1>7. \A p \in M : p \notin 0 .. N
  BY DEF Mark
<1>8. \A p \in 0 .. N : r[p] = 2 * Memory(N)[p] /\ Memory(N)[p] \in Int
  <2>1. \A p \in 0 .. N : r[p] = 2 * MemRank(p) /\ Memory(N)[p] = MemRank(p)
    BY MarkedRanks DEF Memory
  <2>. QED
    BY <2>1, RanksOfBits DEF Ranks
<1>. DEFINE x == a.f \cap W
<1>. DEFINE y == b.f \cap W
<1>9. x \in SUBSET (0 .. N) /\ y \in SUBSET (0 .. N) /\ x # y
  BY <1>1
<1>. HIDE DEF M, F, r, W
<1>10. SymDiff(A, B) = SymDiff(x, y) /\ B \ A = y \ x /\ SymDiff(x, y) \in SUBSET (0 .. N) /\ A # B
  <2>. HIDE DEF x, y, A, B
  <2>1. A = x \cup M /\ B = y \cup M
    BY <1>6 DEF x, y
  <2>2. x \cap M = {} /\ y \cap M = {}
    BY <1>7, <1>9
  <2>. QED
    BY ONLY <1>9, <2>1, <2>2 DEF SymDiff
<1>. HIDE DEF x, y, A, B
<1>11. Above(r, A, B) <=> Above(Memory(N), x, y)
  <2>1. \A p, q \in 0 .. N : r[q] <= r[p] <=> Memory(N)[q] <= Memory(N)[p]
    BY <1>8
  <2>2. y \ x \subseteq 0 .. N
    BY <1>9
  <2>. QED
    BY <1>10, <2>1, <2>2 DEF Above
<1>12. Above(Memory(N), x, y) <=> MemLess(x, y)
  BY <1>9, LessIsAbove
<1>13. Above(r, Marked(N, a), Marked(N, b)) <=> Above(r, A, B)
  BY <1>2, <1>4, <1>10, AboveLeading DEF A, B
<1>14. Marked(N, a) # Marked(N, b)
  BY <1>10 DEF A, B
<1>. QED
  BY <1>11, <1>12, <1>13, <1>14 DEF r, x, y, W

\* filter_compare for byte strings: by whole bytes and length, then as for
\* those of one length.
LEMMA BeforeIsMarked ==
    ASSUME NEW N \in Nat, NEW mask \in SUBSET (0 .. N), NEW S \in FilterSets("bin", N, mask),
           NEW a \in S, NEW b \in S
    PROVE  /\ filter_before("bin", a, b)
                 <=> \/ Above(MarkedRank(N), Marked(N, a), Marked(N, b))
                     \/ /\ Marked(N, a) = Marked(N, b)
                        /\ \/ Above(Memory(N), a.f, b.f)
                           \/ a.f = b.f /\ Above(Memory(N), a.m, b.m)
           /\ Marked(N, a) = Marked(N, b) => a.len = b.len
<1>. DEFINE l == IF a.len <= b.len THEN Whole(a) ELSE Whole(b)
<1>. DEFINE x == a.f \cap l
<1>. DEFINE y == b.f \cap l
<1>. DEFINE r == MarkedRank(N)
<1>. DEFINE A == Marked(N, a)
<1>. DEFINE B == Marked(N, b)
<1>. DEFINE cm == a.m \cap b.m \cap LastByte(a)
<1>. DEFINE rest == IF a.f \cap cm # b.f \cap cm THEN MemLess(a.f \cap cm, b.f \cap cm) ELSE MemLess(a.m, b.m)
<1>1. filter_before("bin", a, b) <=> IF x # y THEN MemLess(x, y)
                                     ELSE IF a.len # b.len THEN a.len < b.len ELSE rest
  BY DEF filter_before
<1>2. /\ a.len \in Nat /\ b.len \in Nat
      /\ A \in SUBSET (0 .. 2 * N + 1) /\ B \in SUBSET (0 .. 2 * N + 1)
      /\ r \in Ranks(2 * N + 1) /\ 2 * N + 1 \in Nat
  BY MarkedParts, MarkedRanks
<1>3. ASSUME x # y
      PROVE  A # B /\ (Above(r, A, B) <=> MemLess(x, y))
  <2>. DEFINE k == IF a.len <= b.len THEN a.len ELSE b.len
  <2>1. k \in Nat /\ k <= a.len /\ k <= b.len /\ l = Ones(k * ByteBits)
    BY <1>2 DEF Whole
  <2>. HIDE DEF k
  <2>2. a.f \cap Ones(k * ByteBits) # b.f \cap Ones(k * ByteBits)
    BY <1>3, <2>1
  <2>. QED
    BY <2>1, <2>2, WholesDiffer
<1>4. ASSUME x = y, a.len < b.len PROVE Above(r, A, B) /\ A # B
  <2>1. a.f \cap Whole(a) = b.f \cap Whole(a)
    BY <1>2, <1>4
  <2>2. Above(r, A, B)
    BY <1>4, <2>1, ShorterFirst
  <2>. QED
    BY <1>2, <2>2, AboveNotBoth
<1>5. ASSUME x = y, b.len < a.len PROVE ~Above(r, A, B) /\ A # B
  <2>1. a.f \cap Whole(b) = b.f \cap Whole(b)
    BY <1>2, <1>5
  <2>2. Above(r, B, A)
    BY <1>5, <2>1, ShorterFirst
  <2>. QED
    BY <1>2, <2>2, AboveNotBoth
<1>6. ASSUME x = y, a.len = b.len
      PROVE  /\ A = B /\ ~Above(r, A, B)
             /\ filter_before("bin", a, b)
                   <=> Above(Memory(N), a.f, b.f) \/ (a.f = b.f /\ Above(Memory(N), a.m, b.m))
  <2>1. A = B
    <3>1. Whole(a) = Whole(b) /\ a.f \cap Whole(a) = b.f \cap Whole(b)
      BY <1>2, <1>6 DEF Whole
    <3>. QED
      BY <1>6, <3>1 DEF Marked
  <2>2. ~Above(r, A, B)
    BY <1>2, <2>1, AboveNotBoth
  <2>3. {a, b} \in FilterSets("bin", N, mask)
    BY DEF FilterSets
  <2>4. Alike("bin", {a, b})
    BY <1>6 DEF Alike
  <2>5. "bin" \in Kindred /\ a \in {a, b} /\ b \in {a, b} /\ RankOf("bin", N) = Memory(N)
    BY DEF Kindred, RankOf
  <2>6. filter_before("bin", a, b)
          <=> Above(Memory(N), a.f, b.f) \/ (a.f = b.f /\ Above(Memory(N), a.m, b.m))
    BY <2>3, <2>4, <2>5, BeforeIsAbove
  <2>. QED
    BY <2>1, <2>2, <2>6
<1>. HIDE DEF x, y, l, A, B, r, rest
<1>7. a.len < b.len \/ b.len < a.len \/ a.len = b.len
  BY <1>2
<1>8. CASE x # y
  BY <1>1, <1>3, <1>8 DEF A, B, r
<1>9. CASE x = y /\ a.len < b.len
  <2>1. a.len # b.len
    BY <1>2, <1>9
  <2>. QED
    BY <1>1, <1>4, <1>9, <2>1 DEF A, B, r
<1>10. CASE x = y /\ b.len < a.len
  <2>1. a.len # b.len /\ ~(a.len < b.len)
    BY <1>2, <1>10
  <2>. QED
    BY <1>1, <1>5, <1>10, <2>1 DEF A, B, r
<1>11. CASE x = y /\ a.len = b.len
  BY <1>6, <1>11 DEF A, B, r
<1>. QED
  BY <1>7, <1>8, <1>9, <1>10, <1>11

\* The filters of a table can be put in order.
LEMMA FiltersOrderly ==
    ASSUME NEW kind \in Kindred, NEW N \in Nat, NEW mask \in SUBSET (0 .. N),
           NEW S \in FilterSets(kind, N, mask)
    PROVE  Orderly(kind, S)
<1>1. CASE kind # "bin"
  <2>1. Alike(kind, S)
    BY <1>1 DEF Alike
  <2>. QED
    BY <2>1, AlikeOrderly
<1>2. CASE kind = "bin"
  <2>. DEFINE r == MarkedRank(N)
  <2>. DEFINE s == Memory(N)
  <2>. DEFINE E(a) == Marked(N, a)
  <2>. DEFINE lower(a, b) == Above(s, a.f, b.f) \/ (a.f = b.f /\ Above(s, a.m, b.m))
  <2>. DEFINE before(a, b) == Above(r, E(a), E(b)) \/ (E(a) = E(b) /\ lower(a, b))
  <2>1. /\ \A a, b \in S : filter_before(kind, a, b) <=> before(a, b)
        /\ \A a, b \in S : E(a) = E(b) => a.len = b.len
    BY <1>2, BeforeIsMarked
  <2>2. r \in Ranks(2 * N + 1) /\ s \in Ranks(N) /\ 2 * N + 1 \in Nat
    BY MarkedRanks, RanksOfBits
  <2>3. \A a \in S : a.f \in SUBSET (0 .. N) /\ a.m \in SUBSET (0 .. N)
    BY FiltersOf
  <2>4. \A a \in S : E(a) \in SUBSET (0 .. 2 * N + 1)
    BY <1>2, MarkedParts
  <2>5. \A a, b \in S : a.f = b.f /\ a.m = b.m /\ a.len = b.len => a = b
    BY DEF FilterSets
  <2>. HIDE DEF r, s, E
  <2>6. ASSUME NEW a \in S, NEW b \in S PROVE a = b \/ before(a, b) \/ before(b, a)
    <3>1. a.f # b.f => Above(s, a.f, b.f) \/ Above(s, b.f, a.f)
      BY <2>2, <2>3, AboveTotal
    <3>2. a.m # b.m => Above(s, a.m, b.m) \/ Above(s, b.m, a.m)
      BY <2>2, <2>3, AboveTotal
    <3>3. E(a) # E(b) => Above(r, E(a), E(b)) \/ Above(r, E(b), E(a))
      BY <2>2, <2>4, AboveTotal
    <3>. QED
      BY <2>1, <2>5, <3>1, <3>2, <3>3
  <2>7. ASSUME NEW a \in S, NEW b \in S, before(a, b) PROVE ~before(b, a)
    <3>1. /\ Above(s, a.f, b.f) => ~Above(s, b.f, a.f) /\ a.f # b.f
          /\ Above(s, b.f, a.f) => a.f # b.f
      BY <2>2, <2>3, AboveNotBoth
    <3>2. Above(s, a.m, b.m) => ~Above(s, b.m, a.m)
      BY <2>2, <2>3, AboveNotBoth
    <3>3. /\ Above(r, E(a), E(b)) => ~Above(r, E(b), E(a)) /\ E(a) # E(b)
          /\ Above(r, E(b), E(a)) => E(a) # E(b)
      BY <2>2, <2>4, AboveNotBoth
    <3>. QED
      BY <2>7, <3>1, <3>2, <3>3
  <2>8. ASSUME NEW a \in S, NEW b \in S, NEW d \in S, before(a, b), before(b, d) PROVE before(a, d)
    <3>1. Above(s, a.f, b.f) /\ Above(s, b.f, d.f) => Above(s, a.f, d.f)
      BY <2>2, <2>3, AboveTransitive
    <3>2. Above(s, a.m, b.m) /\ Above(s, b.m, d.m) => Above(s, a.m, d.m)
      BY <2>2, <2>3, AboveTransitive
    <3>3. Above(r, E(a), E(b)) /\ Above(r, E(b), E(d)) => Above(r, E(a), E(d))
      BY <2>2, <2>4, AboveTransitive
    <3>4. lower(a, b) /\ lower(b, d) => lower(a, d)
      BY <3>1, <3>2
    <3>. HIDE DEF lower
    <3>. QED
      BY <2>8, <3>3, <3>4
  <2>. HIDE DEF before
  <2>. QED
    BY <2>1, <2>6, <2>7, <2>8 DEF Orderly
<1>. QED
  BY <1>1, <1>2

-----------------------------------------------------------------------------
(* Filters that begin others *)

\* A filter is not behind those it begins, and begins all up to any of them.
LEMMA BeginsOrdered ==
    ASSUME NEW kind \in Kindred, NEW N \in Nat, NEW mask \in SUBSET (0 .. N),
           NEW S \in FilterSets(kind, N, mask), Alike(kind, S), NEW a \in S, NEW d \in S,
           Begins(kind, mask, a, d)
    PROVE  /\ ~filter_before(kind, d, a)
           /\ \A b \in S : ~filter_before(kind, b, a) /\ ~filter_before(kind, d, b)
                              => Begins(kind, mask, a, b)
<1>. DEFINE r == RankOf(kind, N)
<1>. DEFINE M(x) == FilterMask(kind, mask, x)
<1>1. \A x \in S : /\ x.f \in SUBSET (0 .. N) /\ x.m \in SUBSET (0 .. N) /\ x.f \subseteq M(x)
                   /\ kind = "omit" => M(x) = mask /\ x.m = {}
                   /\ kind # "omit" => M(x) = x.m /\ Beginning(N, x.m)
  <2>. TAKE x \in S
  <2>. QED
    BY ONLY FiltersOf, x \in S, kind \in Kindred, N \in Nat, mask \in SUBSET (0 .. N),
            S \in FilterSets(kind, N, mask)
<1>2. \A x, y \in S : x.f = y.f /\ x.m = y.m => x = y
  BY SameFilter
<1>3. r \in Ranks(N)
  BY RanksOfBits DEF RankOf
<1>4. \A x, y \in S : filter_before(kind, x, y)
                         <=> Above(r, x.f, y.f) \/ (x.f = y.f /\ Above(r, x.m, y.m))
  BY BeforeIsAbove
<1>5. Orderly(kind, S)
  BY FiltersOrderly
<1>6. M(a) \subseteq M(d) /\ a.f = d.f \cap M(a)
  BY DEF Begins
<1>7. CASE kind = "omit"
  <2>1. a = d
    BY <1>1, <1>2, <1>6, <1>7
  <2>2. ASSUME NEW b \in S, ~filter_before(kind, b, a), ~filter_before(kind, d, b) PROVE b = a
    BY <1>5, <2>1, <2>2 DEF Orderly
  <2>3. ~filter_before(kind, d, a)
    BY <1>5, <2>1 DEF Orderly
  <2>. QED
    BY <2>1, <2>2, <2>3
<1>8. CASE kind # "omit"
  <2>0. r = Memory(N) /\ \A x \in S : M(x) = x.m /\ Beginning(N, x.m) /\ x.f \subseteq x.m
    BY <1>1, <1>8 DEF RankOf
  <2>1. a.m \subseteq d.m /\ a.f = d.f \cap a.m
    BY <1>6, <2>0
  <2>2. ~filter_before(kind, d, a)
    <3>1. a.f \subseteq d.f
      BY <2>1
    <3>2. ~Above(r, d.f, a.f) /\ ~Above(r, d.m, a.m)
      BY <1>1, <1>3, <2>1, <3>1, AboveWider
    <3>. QED
      BY <1>4, <3>2
  <2>3. ASSUME NEW b \in S, ~filter_before(kind, b, a), ~filter_before(kind, d, b)
        PROVE  Begins(kind, mask, a, b)
    <3>1. b.f \cap a.m = a.f
      <4>. SUFFICES ASSUME b.f \cap a.m # a.f PROVE FALSE
        OBVIOUS
      <4>0. a.f \cap a.m = a.f /\ d.f \cap a.m = a.f /\ b # a /\ b # d
        BY <2>0, <2>1
      <4>1. filter_before(kind, a, b) /\ filter_before(kind, b, d)
        BY <1>5, <2>3, <4>0 DEF Orderly
      <4>2. Above(r, a.f, b.f) /\ Above(r, b.f, d.f)
        BY <1>4, <4>0, <4>1
      <4>. DEFINE L == a.m
      <4>5. /\ L \in SUBSET (0 .. N) /\ Leads(r, N, L) /\ a.f \cap L = a.f /\ d.f \cap L = a.f
            /\ b.f \cap L # a.f
            /\ a.f \in SUBSET (0 .. N) /\ b.f \in SUBSET (0 .. N) /\ d.f \in SUBSET (0 .. N)
        BY <1>1, <2>0, <4>0 DEF Beginning
      <4>. HIDE DEF L, r
      <4>6. \A x, y \in SUBSET (0 .. N) :
               x \cap L # y \cap L => (Above(r, x, y) <=> Above(r, x \cap L, y \cap L))
        BY ONLY <1>3, <4>5, AboveLeading, N \in Nat
      <4>3. Above(r, a.f, b.f \cap L)
        BY ONLY <4>2, <4>5, <4>6
      <4>4. Above(r, b.f \cap L, a.f)
        BY ONLY <4>2, <4>5, <4>6
      <4>7. b.f \cap L \in SUBSET (0 .. N)
        BY ONLY <4>5
      <4>. QED
        BY ONLY <1>3, <4>3, <4>4, <4>5, <4>7, AboveNotBoth, N \in Nat
    <3>2. a.m \subseteq b.m
      <4>1. CASE b.m \subseteq a.m
        <5>1. b.f = a.f
          BY <2>0, <3>1, <4>1
        <5>2. ~Above(r, b.m, a.m)
          BY <1>4, <2>3, <5>1
        <5>. QED
          BY <1>1, <1>3, <4>1, <5>2, AboveWider
      <4>. QED
        BY <1>1, <2>0, <4>1, LeadingNested
    <3>. QED
      BY <2>0, <3>1, <3>2 DEF Begins
  <2>. QED
    BY <2>2, <2>3
<1>. QED
  BY <1>7, <1>8

\* filters_a_includes_b, asked of a filter and one behind it.
LEMMA IncludesBegins ==
    ASSUME NEW kind \in Kindred, NEW N \in Nat, NEW mask \in SUBSET (0 .. N),
           NEW S \in FilterSets(kind, N, mask), Alike(kind, S), NEW a \in S, NEW b \in S,
           ~filter_before(kind, b, a)
    PROVE  filters_a_includes_b(kind, a, b) <=> Begins(kind, mask, a, b)
<1>. DEFINE r == RankOf(kind, N)
<1>1. \A x \in S : /\ x.f \in SUBSET (0 .. N) /\ x.m \in SUBSET (0 .. N)
                   /\ x.f \subseteq FilterMask(kind, mask, x)
                   /\ kind = "omit" => FilterMask(kind, mask, x) = mask
                   /\ kind # "omit" => FilterMask(kind, mask, x) = x.m /\ Beginning(N, x.m)
  <2>. TAKE x \in S
  <2>. QED
    BY ONLY FiltersOf, x \in S, kind \in Kindred, N \in Nat, mask \in SUBSET (0 .. N),
            S \in FilterSets(kind, N, mask)
<1>2. r \in Ranks(N)
  BY RanksOfBits DEF RankOf
<1>3. a.f = b.f => ~Above(r, b.m, a.m)
  BY BeforeIsAbove
<1>4. CASE kind = "omit"
  <2>1. filters_a_includes_b(kind, a, b) <=> a.f = b.f
    BY <1>4 DEF filters_a_includes_b
  <2>. QED
    BY <1>1, <1>4, <2>1 DEF Begins
<1>5. CASE kind = "int"
  <2>0. a.f \subseteq a.m /\ b.f \subseteq b.m /\ (a.m \subseteq b.m \/ b.m \subseteq a.m)
    <3>1. \A x \in S : FilterMask(kind, mask, x) = x.m /\ Beginning(N, x.m)
      BY <1>1, <1>5
    <3>. QED
      BY <1>1, <3>1, LeadingNested
  <2>1. filters_a_includes_b(kind, a, b) <=> a.f = b.f \cap a.m
    BY <1>5 DEF filters_a_includes_b
  <2>2. ASSUME a.f = b.f \cap a.m PROVE a.m \subseteq b.m
    <3>1. CASE b.m \subseteq a.m
      <4>1. a.f = b.f
        BY <2>0, <2>2, <3>1
      <4>. QED
        BY <1>1, <1>2, <1>3, <3>1, <4>1, AboveWider
    <3>. QED
      BY <2>0, <3>1
  <2>. QED
    BY <1>5, <2>1, <2>2 DEF Begins, FilterMask
<1>6. CASE kind = "bin"
  <2>0. /\ a.f \subseteq a.m /\ b.f \subseteq b.m /\ (a.m \subseteq b.m \/ b.m \subseteq a.m)
        /\ r = Memory(N)
    <3>1. \A x \in S : FilterMask(kind, mask, x) = x.m /\ Beginning(N, x.m)
      BY <1>1, <1>6
    <3>. QED
      BY <1>1, <1>6, <3>1, LeadingNested DEF RankOf
  <2>1. /\ a.len = b.len /\ Whole(a) \subseteq a.m
        /\ a.m \subseteq Whole(a) \cup LastByte(a)
    BY <1>6 DEF FilterSets, Alike
  <2>2. a.len \in Nat
    BY DEF FilterSets
  <2>3. filters_a_includes_b(kind, a, b) <=>
           /\ a.f \cap Whole(a) = b.f \cap Whole(a) /\ ~MemLess(b.m, a.m)
           /\ a.f \cap LastByte(a) = b.f \cap a.m \cap LastByte(a)
    BY <1>6, <2>1, <2>2 DEF filters_a_includes_b
  <2>4. MemLess(b.m, a.m) <=> Above(r, b.m, a.m)
    BY <1>1, <2>0, LessIsAbove
  <2>5. ~Above(r, b.m, a.m) <=> a.m \subseteq b.m
    BY <1>1, <1>2, <2>0, AboveWider
  <2>6. /\ a.f \cap Whole(a) = b.f \cap Whole(a)
        /\ a.f \cap LastByte(a) = b.f \cap a.m \cap LastByte(a)
        <=> a.f = b.f \cap a.m
    BY <2>0, <2>1
  <2>. QED
    BY <1>6, <2>3, <2>4, <2>5, <2>6 DEF Begins, FilterMask
<1>. QED
  BY <1>4, <1>5, <1>6 DEF Kindred

\* Filters that begin each other are the same.
LEMMA BeginsChain ==
    ASSUME NEW kind \in Kindred, NEW N \in Nat, NEW mask \in SUBSET (0 .. N),
           NEW S \in FilterSets(kind, N, mask)
    PROVE  /\ \A a \in S : Begins(kind, mask, a, a)
           /\ \A a, b, d \in S :
                 Begins(kind, mask, a, b) /\ Begins(kind, mask, b, d) => Begins(kind, mask, a, d)
           /\ \A a, b \in S, pk \in SUBSET (0 .. N) :
                 Begins(kind, mask, a, b) /\ Hit(kind, mask, b, pk) => Hit(kind, mask, a, pk)
<1>1. \A a \in S : a.f \subseteq FilterMask(kind, mask, a)
  BY FiltersOf
<1>. QED
  BY <1>1 DEF Begins, Hit

\* A comparison with a filter that does not match tells on which side of it the
\* one that matches is.
LEMMA KeySide ==
    ASSUME NEW kind \in Kindred, NEW N \in Nat, NEW mask \in SUBSET (0 .. N),
           NEW S \in FilterSets(kind, N, mask), Alike(kind, S), NEW a \in S, NEW b \in S,
           NEW pk \in SUBSET (0 .. N),
           Hit(kind, mask, b, pk), a = b \/ ~Begins(kind, mask, b, a)
    PROVE  LET r == RankOf(kind, N)
               masked == pk \cap FilterMask(kind, mask, a)
           IN  /\ Above(r, masked, a.f) => filter_before(kind, b, a)
               /\ Above(r, a.f, masked) => filter_before(kind, a, b)
<1>. DEFINE r == RankOf(kind, N)
<1>. DEFINE A == FilterMask(kind, mask, a)
<1>. DEFINE B == FilterMask(kind, mask, b)
<1>1. /\ a.f \in SUBSET (0 .. N) /\ a.f \subseteq A /\ A \in SUBSET (0 .. N)
      /\ b.f \in SUBSET (0 .. N) /\ b.f \subseteq B /\ B \in SUBSET (0 .. N)
      /\ kind = "omit" => A = mask /\ B = mask
      /\ kind # "omit" => Beginning(N, A) /\ Beginning(N, B)
  BY FiltersOf DEF FilterMask
<1>2. r \in Ranks(N)
  BY RanksOfBits DEF RankOf
<1>3. /\ Above(r, a.f, b.f) => filter_before(kind, a, b)
      /\ Above(r, b.f, a.f) => filter_before(kind, b, a)
  BY BeforeIsAbove
<1>4. b.f = pk \cap B
  BY DEF Hit
<1>5. kind # "omit" => r = Memory(N) /\ Leads(r, N, A) /\ Leads(r, N, B)
  BY <1>1 DEF RankOf, Beginning
<1>. HIDE DEF r, A, B
<1>6. CASE a = b \/ A = B
  <2>1. pk \cap A = b.f
    BY <1>4, <1>6 DEF A, B
  <2>. QED
    BY <1>3, <2>1 DEF r, A
<1>7. CASE kind # "omit" /\ A \subseteq B
  <2>1. b.f \cap A = pk \cap A /\ a.f \cap A = a.f
    BY <1>1, <1>4, <1>7
  <2>2. CASE pk \cap A = a.f
    <3>1. ~Above(r, pk \cap A, a.f) /\ ~Above(r, a.f, pk \cap A)
      BY <1>1, <1>2, <2>2, AboveWider
    <3>. QED
      BY <3>1 DEF r, A
  <2>3. CASE pk \cap A # a.f
    <3>1. /\ Above(r, b.f, a.f) <=> Above(r, pk \cap A, a.f)
          /\ Above(r, a.f, b.f) <=> Above(r, a.f, pk \cap A)
      BY <1>1, <1>2, <1>5, <1>7, <2>1, <2>3, AboveLeading
    <3>. QED
      BY <1>3, <3>1 DEF r, A
  <2>. QED
    BY <2>2, <2>3
<1>8. CASE kind # "omit" /\ B \subseteq A /\ a # b
  <2>1. ~(b.f = a.f \cap B)
    BY <1>8 DEF Begins, A, B
  <2>2. (pk \cap A) \cap B = b.f /\ b.f \cap B = b.f
    BY <1>1, <1>4, <1>8
  <2>3. /\ Above(r, b.f, a.f) <=> Above(r, b.f, a.f \cap B)
        /\ Above(r, a.f, b.f) <=> Above(r, a.f \cap B, b.f)
    BY <1>1, <1>2, <1>5, <1>8, <2>1, <2>2, AboveLeading, SMTT(30)
  <2>4. pk \cap A \in SUBSET (0 .. N)
    OBVIOUS
  <2>5. /\ Above(r, pk \cap A, a.f) <=> Above(r, b.f, a.f \cap B)
        /\ Above(r, a.f, pk \cap A) <=> Above(r, a.f \cap B, b.f)
    <3>1. \A x, y \in SUBSET (0 .. N) :
             x \cap B # y \cap B => (Above(r, x, y) <=> Above(r, x \cap B, y \cap B))
      BY ONLY <1>1, <1>2, <1>5, <1>8, AboveLeading, N \in Nat
    <3>. DEFINE x == pk \cap A
    <3>. DEFINE y == a.f
    <3>2. x \in SUBSET (0 .. N) /\ y \in SUBSET (0 .. N) /\ x \cap B # y \cap B
      BY ONLY <1>1, <2>1, <2>2, <2>4
    <3>3. x \cap B = b.f
      BY ONLY <2>2
    <3>. HIDE DEF x, y
    <3>4. /\ Above(r, x, y) <=> Above(r, x \cap B, y \cap B)
          /\ Above(r, y, x) <=> Above(r, y \cap B, x \cap B)
      BY ONLY <3>1, <3>2
    <3>5. /\ Above(r, x, y) <=> Above(r, b.f, y \cap B)
          /\ Above(r, y, x) <=> Above(r, y \cap B, b.f)
      BY ONLY <3>3, <3>4
    <3>. QED
      BY ONLY <3>5 DEF x, y
  <2>. QED
    BY <1>3, <2>3, <2>5 DEF r, A
<1>. QED
  BY <1>1, <1>6, <1>7, <1>8, LeadingNested

-----------------------------------------------------------------------------
(* Removing duplicates *)

\* The filters of V[1 .. i + 1] that are kept after round i.
KeptCount(s, i) == IF s.last = None THEN i + 1 ELSE s.st + (i + 1 - s.last)
KeptAt(s, q) == IF s.last = None \/ q <= s.st THEN s.vec[q] ELSE s.vec[q + (s.last - s.st)]
Kept(s, i) == [q \in 1 .. KeptCount(s, i) |-> KeptAt(s, q)]

\* What filters_dedup knows of the sorted list V after round i.
DedupInv(S, V, i, s) ==
    /\ s \in [vec : Seq(S), st : Int, chk : Int, last : Int]
    /\ Len(s.vec) = Len(V)
    /\ s.last = None => s.vec = V
    /\ s.last # None =>
          /\ 1 <= s.st /\ s.st < s.last /\ s.last <= i + 1
          /\ s.st <= s.chk + 1 /\ s.chk + 1 < s.last
          /\ \A q \in 1 .. Len(V) : s.st < q => s.vec[q] = V[q]
          /\ s.vec[s.chk + 1] = s.vec[s.st]

\* Filter v stays, behind the c filters K, unless the last of these includes it.
KeptNext(kind, K, c, v) ==
    IF filters_a_includes_b(kind, K[c], v) THEN K
    ELSE [q \in 1 .. c + 1 |-> IF q = c + 1 THEN v ELSE K[q]]

LEMMA DedupRoundKeeps ==
    ASSUME NEW kind, NEW S, NEW V \in Seq(S), NEW i \in 1 .. Len(V) - 1,
           NEW s, DedupInv(S, V, i - 1, s)
    PROVE  LET t == DedupRound(kind, s, i)
               K == Kept(s, i - 1)
               c == KeptCount(s, i - 1)
           IN  /\ DedupInv(S, V, i, t)
               /\ c \in 1 .. i
               /\ Kept(t, i) = KeptNext(kind, K, c, V[i + 1])
<1>. DEFINE n == Len(V)
<1>. DEFINE t == DedupRound(kind, s, i)
<1>. DEFINE c == KeptCount(s, i - 1)
<1>. DEFINE K == Kept(s, i - 1)
<1>. DEFINE incl(a, b) == filters_a_includes_b(kind, a, b)
<1>1. /\ s \in [vec : Seq(S), st : Int, chk : Int, last : Int]
      /\ Len(s.vec) = n /\ n \in Nat /\ i \in Nat /\ 1 <= i /\ i + 1 <= n
      /\ s.last \in Int /\ s.st \in Int /\ s.chk \in Int
      /\ \A q \in 1 .. n : s.vec[q] \in S /\ V[q] \in S
  BY DEF DedupInv
<1>2. CASE s.last = None
  <2>1. s.vec = V
    BY <1>2 DEF DedupInv
  <2>2. c = i /\ K[c] = V[i] /\ \A q \in 1 .. c : K[q] = V[q]
    BY <1>1, <1>2, <2>1 DEF KeptCount, Kept, KeptAt
  <2>0. K = [q \in 1 .. c |-> V[q]]
    BY <1>1, <1>2, <2>1 DEF KeptCount, Kept, KeptAt
  <2>3. CASE incl(V[i], V[i + 1])
    <3>1. t = [vec |-> V, st |-> i, chk |-> i - 1, last |-> i + 1]
      <4>1. s.last # i
        BY <1>1, <1>2 DEF None
      <4>. QED
        BY <1>2, <2>1, <2>3, <4>1 DEF DedupRound
    <3>2. t.last # None
      BY <1>1, <3>1 DEF None
    <3>3. DedupInv(S, V, i, t)
      <4>1. t \in [vec : Seq(S), st : Int, chk : Int, last : Int]
        BY <1>1, <3>1
      <4>. QED
        BY <1>1, <3>1, <3>2, <4>1 DEF DedupInv
    <3>4. KeptCount(t, i) = i /\ \A q \in 1 .. i : KeptAt(t, q) = V[q]
      BY <1>1, <3>1, <3>2 DEF KeptCount, KeptAt
    <3>5. Kept(t, i) = K
      BY <2>0, <2>2, <3>4 DEF Kept
    <3>. QED
      BY <1>1, <2>2, <2>3, <3>3, <3>5 DEF KeptNext
  <2>4. CASE ~incl(V[i], V[i + 1])
    <3>1. t = s
      <4>1. s.last # i
        BY <1>1, <1>2 DEF None
      <4>. QED
        BY <1>2, <2>1, <2>4, <4>1 DEF DedupRound
    <3>3. DedupInv(S, V, i, t)
      BY <1>1, <1>2, <2>1, <3>1 DEF DedupInv
    <3>4. KeptCount(t, i) = i + 1 /\ \A q \in 1 .. i + 1 : KeptAt(t, q) = V[q]
      BY <1>2, <2>1, <3>1 DEF KeptCount, KeptAt
    <3>5. Kept(t, i) = [q \in 1 .. c + 1 |-> IF q = c + 1 THEN V[i + 1] ELSE K[q]]
      BY <1>1, <2>2, <3>4 DEF Kept
    <3>. QED
      BY <1>1, <2>2, <2>4, <3>3, <3>5 DEF KeptNext
  <2>. QED
    BY <2>3, <2>4
<1>3. CASE s.last # None
  <2>1. /\ 1 <= s.st /\ s.st < s.last /\ s.last <= i
        /\ s.st <= s.chk + 1 /\ s.chk + 1 < s.last
        /\ \A q \in 1 .. n : s.st < q => s.vec[q] = V[q]
        /\ s.vec[s.chk + 1] = s.vec[s.st]
    BY <1>1, <1>3 DEF DedupInv
  <2>2. c = s.st + (i - s.last) /\ c \in 1 .. i
    BY <1>1, <1>3, <2>1 DEF KeptCount
  <2>0. K = [q \in 1 .. c |-> KeptAt(s, q)]
    BY DEF Kept
  <2>3. s.vec[i + 1] = V[i + 1]
    BY <1>1, <2>1
  <2>4. CASE s.last = i
    <3>1. c = s.st /\ K[c] = s.vec[s.chk + 1]
      BY <1>1, <1>3, <2>0, <2>1, <2>2, <2>4 DEF KeptAt
    <3>2. CASE incl(K[c], V[i + 1])
      <4>1. t = [s EXCEPT !.last = i + 1]
        BY <2>3, <2>4, <3>1, <3>2 DEF DedupRound
      <4>2. /\ t.vec = s.vec /\ t.st = s.st /\ t.chk = s.chk /\ t.last = i + 1 /\ t.last # None
            /\ t \in [vec : Seq(S), st : Int, chk : Int, last : Int]
        <5>1. t.vec = s.vec /\ t.st = s.st /\ t.chk = s.chk /\ t.last = i + 1
          BY <1>1, <4>1
        <5>2. t = [vec |-> s.vec, st |-> s.st, chk |-> s.chk, last |-> i + 1]
          BY <1>1, <4>1
        <5>3. i + 1 \in Int /\ i + 1 # -1
          BY <1>1
        <5>. HIDE DEF t
        <5>4. t \in [vec : Seq(S), st : Int, chk : Int, last : Int]
          BY <1>1, <5>2, <5>3
        <5>. QED
          BY <5>1, <5>3, <5>4 DEF None
      <4>3. DedupInv(S, V, i, t)
        BY <1>1, <2>1, <4>2 DEF DedupInv
      <4>4. KeptCount(t, i) = c /\ \A q \in 1 .. c : KeptAt(t, q) = KeptAt(s, q)
        BY <1>1, <1>3, <2>1, <3>1, <4>2 DEF KeptCount, KeptAt
      <4>5. Kept(t, i) = K
        BY <2>0, <4>4 DEF Kept
      <4>. QED
        BY <2>2, <3>2, <4>3, <4>5 DEF KeptNext
    <3>3. CASE ~incl(K[c], V[i + 1])
      <4>1. t = s
        BY <2>3, <2>4, <3>1, <3>3 DEF DedupRound
      <4>3. DedupInv(S, V, i, t)
        BY <1>1, <1>3, <2>1, <4>1 DEF DedupInv
      <4>4. KeptCount(t, i) = c + 1 /\ KeptAt(t, c + 1) = V[i + 1]
        BY <1>1, <1>3, <2>1, <2>2, <2>3, <2>4, <4>1 DEF KeptCount, KeptAt
      <4>5. Kept(t, i) = [q \in 1 .. c + 1 |-> IF q = c + 1 THEN V[i + 1] ELSE K[q]]
        BY <2>0, <2>2, <4>1, <4>4 DEF Kept
      <4>. QED
        BY <2>2, <3>3, <4>3, <4>5 DEF KeptNext
    <3>. QED
      BY <3>2, <3>3
  <2>5. CASE s.last # i
    <3>0. s.last < i
      BY <1>1, <2>1, <2>5
    <3>1. K[c] = V[i] /\ s.vec[i] = V[i]
      <4>1. s.vec[i] = V[i] /\ ~(c <= s.st) /\ c + (s.last - s.st) = i
        <5>1. i \in 1 .. n /\ s.st < i
          BY <1>1, <2>1
        <5>2. s.vec[i] = V[i]
          BY <2>1, <5>1
        <5>3. ~(c <= s.st) /\ c + (s.last - s.st) = i
          BY <1>1, <2>2, <3>0
        <5>. QED
          BY <5>2, <5>3
      <4>. QED
        BY <1>3, <2>0, <2>2, <4>1 DEF KeptAt
    <3>2. CASE incl(V[i], V[i + 1])
      <4>1. t = [vec |-> Moved(s.vec, s.st, s.last, i), st |-> s.st + i - s.last,
                 chk |-> i - 1, last |-> i + 1]
        BY <1>3, <2>3, <2>5, <3>1, <3>2 DEF DedupRound
      <4>2. t.st = c /\ t.chk = i - 1 /\ t.last = i + 1 /\ t.last # None
        BY <1>1, <2>2, <4>1 DEF None
      <4>3. t.vec = [q \in 1 .. n |-> IF s.st < q /\ q <= c THEN s.vec[q + s.last - s.st] ELSE s.vec[q]]
        <5>1. DOMAIN s.vec = 1 .. n /\ s.st + i - s.last = c
          BY <1>1, <2>2
        <5>. QED
          BY <4>1, <5>1 DEF Moved
      <4>4. \A q \in 1 .. c : KeptAt(s, q) = t.vec[q]
        BY <1>1, <1>3, <2>1, <2>2, <4>3, SMTT(30) DEF KeptAt
      <4>5. \A q \in 1 .. n : c < q => t.vec[q] = V[q]
        BY <1>1, <2>1, <2>2, <4>3
      <4>6. c < i /\ t.vec[i] = V[i] /\ t.vec[c] = V[i]
        <5>1. c < i /\ i \in 1 .. n /\ c \in 1 .. c
          BY <1>1, <2>1, <2>2
        <5>2. t.vec[i] = V[i]
          BY <4>5, <5>1
        <5>3. K[c] = KeptAt(s, c)
          BY <2>0, <5>1
        <5>. QED
          BY <3>1, <4>4, <5>1, <5>2, <5>3
      <4>7. t.vec \in Seq(S) /\ Len(t.vec) = n
        <5>1. \A q \in 1 .. n : s.st < q /\ q <= c => q + s.last - s.st \in 1 .. n
          BY <1>1, <2>1, <2>2
        <5>2. \A q \in 1 .. n : t.vec[q] \in S
          BY <1>1, <4>3, <5>1
        <5>. QED
          BY <1>1, <4>3, <5>2
      <4>8. t \in [vec : Seq(S), st : Int, chk : Int, last : Int]
        BY <1>1, <2>2, <4>1, <4>2, <4>7
      <4>9. DedupInv(S, V, i, t)
        <5>1. /\ 1 <= t.st /\ t.st < t.last /\ t.last <= i + 1
              /\ t.st <= t.chk + 1 /\ t.chk + 1 < t.last /\ t.chk + 1 = i
          BY <1>1, <2>2, <4>2, <4>6
        <5>. QED
          BY <4>2, <4>5, <4>6, <4>7, <4>8, <5>1 DEF DedupInv
      <4>10. KeptCount(t, i) = c /\ \A q \in 1 .. c : KeptAt(t, q) = t.vec[q]
        BY <1>1, <2>2, <4>2 DEF KeptCount, KeptAt
      <4>11. Kept(t, i) = K
        BY <2>0, <4>4, <4>10 DEF Kept
      <4>. QED
        BY <2>2, <3>1, <3>2, <4>9, <4>11 DEF KeptNext
    <3>3. CASE ~incl(V[i], V[i + 1])
      <4>1. t = s
        BY <1>3, <2>3, <2>5, <3>1, <3>3, SMTT(30) DEF DedupRound
      <4>3. DedupInv(S, V, i, t)
        BY <1>1, <1>3, <2>1, <4>1 DEF DedupInv
      <4>4. KeptCount(t, i) = c + 1 /\ KeptAt(t, c + 1) = V[i + 1]
        BY <1>1, <1>3, <2>1, <2>2, <2>3, <4>1 DEF KeptCount, KeptAt
      <4>5. Kept(t, i) = [q \in 1 .. c + 1 |-> IF q = c + 1 THEN V[i + 1] ELSE K[q]]
        BY <2>0, <2>2, <4>1, <4>4 DEF Kept
      <4>. QED
        BY <2>2, <3>1, <3>3, <4>3, <4>5 DEF KeptNext
    <3>. QED
      BY <3>2, <3>3
  <2>. QED
    BY <2>4, <2>5
<1>. QED
  BY <1>2, <1>3

\* What the filters K that are kept of the first i + 1 of the list V are, and
\* what they are to be.
KeptFrom(V, i, K) ==
    /\ \E c \in 1 .. i + 1 : DOMAIN K = 1 .. c
    /\ \A q \in DOMAIN K : \E j \in 1 .. i + 1 : K[q] = V[j]
CleanOf(kind, mask, V, i, K) ==
    /\ \A q, p \in DOMAIN K : q < p => ~filter_before(kind, K[p], K[q])
    /\ \A q \in DOMAIN K : q + 1 \in DOMAIN K => ~Begins(kind, mask, K[q], K[q + 1])
    /\ \A j \in 1 .. i + 1 : \E q \in DOMAIN K : Begins(kind, mask, K[q], V[j])

LEMMA KeptFromNext ==
    ASSUME NEW kind, NEW V, NEW i \in Nat \ {0}, NEW c \in 1 .. i, NEW K, DOMAIN K = 1 .. c,
           KeptFrom(V, i - 1, K)
    PROVE  KeptFrom(V, i, KeptNext(kind, K, c, V[i + 1]))
<1>. DEFINE L == [q \in 1 .. c + 1 |-> IF q = c + 1 THEN V[i + 1] ELSE K[q]]
<1>1. /\ i - 1 + 1 = i /\ c \in 1 .. i + 1 /\ c + 1 \in 1 .. i + 1 /\ i + 1 \in 1 .. i + 1
      /\ \A j \in 1 .. i : j \in 1 .. i + 1
      /\ \A q \in 1 .. c + 1 : q # c + 1 => q \in 1 .. c
  OBVIOUS
<1>2. \A q \in 1 .. c : \E j \in 1 .. i : K[q] = V[j]
  BY <1>1 DEF KeptFrom
<1>3. KeptFrom(V, i, K)
  BY <1>1, <1>2 DEF KeptFrom
<1>4. KeptFrom(V, i, L)
  <2>1. DOMAIN L = 1 .. c + 1
    OBVIOUS
  <2>2. \A q \in 1 .. c + 1 : L[q] = IF q = c + 1 THEN V[i + 1] ELSE K[q]
    OBVIOUS
  <2>. HIDE DEF L
  <2>3. ASSUME NEW q \in 1 .. c + 1 PROVE \E j \in 1 .. i + 1 : L[q] = V[j]
    <3>1. CASE q = c + 1
      BY <1>1, <2>2, <3>1
    <3>2. CASE q # c + 1
      BY <1>1, <1>2, <2>2, <3>2
    <3>. QED
      BY <3>1, <3>2
  <2>. QED
    BY <1>1, <2>1, <2>3 DEF KeptFrom
<1>. QED
  BY <1>3, <1>4 DEF KeptNext

LEMMA CleanNext ==
    ASSUME NEW kind \in Kindred, NEW N \in Nat, NEW mask \in SUBSET (0 .. N),
           NEW S \in FilterSets(kind, N, mask), Alike(kind, S), NEW V \in Seq(S), Sorted(kind, V),
           NEW i \in 1 .. Len(V) - 1, NEW c \in 1 .. i, NEW K, DOMAIN K = 1 .. c,
           KeptFrom(V, i - 1, K), CleanOf(kind, mask, V, i - 1, K)
    PROVE  CleanOf(kind, mask, V, i, KeptNext(kind, K, c, V[i + 1]))
<1>. DEFINE v == V[i + 1]
<1>1. /\ i \in Nat /\ 1 <= i /\ i + 1 \in 1 .. Len(V) /\ DOMAIN V = 1 .. Len(V) /\ i - 1 + 1 = i
      /\ \A j \in 1 .. i : j \in 1 .. Len(V) /\ j < i + 1
      /\ \A j \in 1 .. i + 1 : j \in 1 .. i \/ j = i + 1
      /\ \A j \in 1 .. i : j \in 1 .. i + 1
      /\ c \in Nat /\ c \in 1 .. c /\ i + 1 \in 1 .. i + 1
  OBVIOUS
<1>2. /\ \A q \in 1 .. c : \E j \in 1 .. i : K[q] = V[j]
      /\ \A q, p \in 1 .. c : q < p => ~filter_before(kind, K[p], K[q])
      /\ \A q \in 1 .. c : q + 1 \in 1 .. c => ~Begins(kind, mask, K[q], K[q + 1])
      /\ \A j \in 1 .. i : \E q \in 1 .. c : Begins(kind, mask, K[q], V[j])
  BY <1>1 DEF CleanOf, KeptFrom
<1>3. \A j \in 1 .. i : ~filter_before(kind, v, V[j])
  BY <1>1 DEF Sorted
<1>4. \A q \in 1 .. c : K[q] \in S /\ ~filter_before(kind, v, K[q])
  <2>. TAKE q \in 1 .. c
  <2>1. PICK j \in 1 .. i : K[q] = V[j]
    BY <1>2
  <2>. HIDE DEF v
  <2>2. ~filter_before(kind, v, K[q])
    BY <1>3, <2>1
  <2>. QED
    BY <1>1, <2>1, <2>2
<1>5. v \in S
  BY <1>1
<1>6. filters_a_includes_b(kind, K[c], v) <=> Begins(kind, mask, K[c], v)
  BY <1>1, <1>4, <1>5, IncludesBegins
<1>7. CASE filters_a_includes_b(kind, K[c], v)
  <2>1. \A j \in 1 .. i + 1 : \E q \in 1 .. c : Begins(kind, mask, K[q], V[j])
    BY <1>1, <1>2, <1>6, <1>7
  <2>2. CleanOf(kind, mask, V, i, K)
    BY <1>2, <2>1 DEF CleanOf
  <2>. QED
    BY <1>7, <2>2 DEF KeptNext
<1>8. CASE ~filters_a_includes_b(kind, K[c], v)
  <2>. DEFINE L == [q \in 1 .. c + 1 |-> IF q = c + 1 THEN v ELSE K[q]]
  <2>1. /\ DOMAIN L = 1 .. c + 1 /\ c + 1 \in 1 .. i + 1 /\ c + 1 \in 1 .. c + 1 /\ L[c + 1] = v
        /\ \A q \in 1 .. c : q \in 1 .. c + 1 /\ L[q] = K[q]
        /\ \A q \in 1 .. c + 1 : q \in 1 .. c \/ q = c + 1
        /\ \A q \in 1 .. c : q + 1 \in 1 .. c \/ q = c
        /\ \A q \in 1 .. c + 1 : ~(c + 1 < q)
        /\ c + 1 + 1 \notin 1 .. c + 1
    BY <1>1
  <2>. HIDE DEF L, v
  <2>3. ASSUME NEW q \in 1 .. c + 1, NEW p \in 1 .. c + 1, q < p
        PROVE  ~filter_before(kind, L[p], L[q])
    <3>1. q \in 1 .. c
      BY <1>1, <2>3
    <3>2. CASE p = c + 1
      BY <1>4, <2>1, <3>1, <3>2
    <3>3. CASE p \in 1 .. c
      BY <1>2, <2>1, <2>3, <3>1, <3>3
    <3>. QED
      BY <2>1, <3>2, <3>3
  <2>4. ASSUME NEW q \in 1 .. c + 1, q + 1 \in 1 .. c + 1 PROVE ~Begins(kind, mask, L[q], L[q + 1])
    <3>1. q \in 1 .. c
      BY <2>1, <2>4
    <3>2. CASE q = c
      BY <1>6, <1>8, <2>1, <3>1, <3>2
    <3>3. CASE q + 1 \in 1 .. c
      BY <1>2, <2>1, <3>1, <3>3
    <3>. QED
      BY <2>1, <3>1, <3>2, <3>3
  <2>5. ASSUME NEW j \in 1 .. i + 1 PROVE \E q \in 1 .. c + 1 : Begins(kind, mask, L[q], V[j])
    <3>1. CASE j = i + 1
      <4>1. Begins(kind, mask, v, v)
        BY <1>5, BeginsChain
      <4>. QED
        BY <2>1, <3>1, <4>1 DEF v
    <3>2. CASE j \in 1 .. i
      BY <1>2, <2>1, <3>2
    <3>. QED
      BY <1>1, <3>1, <3>2
  <2>6. CleanOf(kind, mask, V, i, L)
    BY <2>1, <2>3, <2>4, <2>5 DEF CleanOf
  <2>. QED
    BY <1>8, <2>6 DEF L, v, KeptNext
<1>. QED
  BY <1>7, <1>8

\* The rounds of filters_dedup are defined, one after the other.
DedupStart(V) == [vec |-> V, st |-> None, chk |-> None, last |-> None]
DedupRounds(kind, V, k, g) ==
    g = [i \in 0 .. k |-> IF i = 0 THEN DedupStart(V) ELSE DedupRound(kind, g[i - 1], i)]

LEMMA DedupDefined ==
    ASSUME NEW kind, NEW V, NEW n \in Nat
    PROVE  \E g : DedupRounds(kind, V, n, g)
<1>. DEFINE G == {k \in 0 .. n : \E g : DedupRounds(kind, V, k, g)}
<1>1. 0 \in G
  <2>. DEFINE g == [i \in 0 .. 0 |-> DedupStart(V)]
  <2>1. g = [i \in 0 .. 0 |-> IF i = 0 THEN DedupStart(V) ELSE DedupRound(kind, g[i - 1], i)]
    OBVIOUS
  <2>. HIDE DEF g
  <2>2. DedupRounds(kind, V, 0, g)
    BY ONLY <2>1 DEF DedupRounds
  <2>. QED
    BY <2>2
<1>2. ASSUME NEW k \in Nat, k < n, k \in G PROVE k + 1 \in G
  <2>1. PICK g : DedupRounds(kind, V, k, g)
    BY <1>2
  <2>. DEFINE body(i) == IF i = 0 THEN DedupStart(V) ELSE DedupRound(kind, g[i - 1], i)
  <2>. DEFINE h == [i \in 0 .. k + 1 |-> body(i)]
  <2>2. g = [i \in 0 .. k |-> body(i)]
    BY <2>1 DEF DedupRounds
  <2>3. \A i \in 0 .. k : i \in 0 .. k + 1 /\ g[i] = body(i)
    BY <2>2
  <2>4. \A i \in 0 .. k : h[i] = g[i]
    BY <2>3
  <2>5. \A i \in 1 .. k + 1 : i - 1 \in 0 .. k
    OBVIOUS
  <2>6. \A i \in 0 .. k + 1 : i # 0 => i \in 1 .. k + 1
    OBVIOUS
  <2>. HIDE DEF h
  <2>7. \A i \in 0 .. k + 1 : body(i) = IF i = 0 THEN DedupStart(V) ELSE DedupRound(kind, h[i - 1], i)
    BY <2>4, <2>5, <2>6
  <2>8. DedupRounds(kind, V, k + 1, h)
    BY <2>7 DEF DedupRounds, h
  <2>. QED
    BY <1>2, <2>8
<1>. HIDE DEF G
<1>3. \A k \in 0 .. n : k \in G
  BY <1>1, <1>2, Upwards
<1>. QED
  BY <1>3 DEF G

\* Removing duplicates adds no filter.  Unless byte strings differ in length,
\* some filter that begins it is kept of each, and none that another one begins.
LEMMA DedupRight ==
    ASSUME NEW kind \in Kindred, NEW N \in Nat, NEW mask \in SUBSET (0 .. N),
           NEW S \in FilterSets(kind, N, mask), NEW V \in Seq(S), Sorted(kind, V)
    PROVE  LET D == filters_dedup(kind, V)
           IN  /\ D \in Seq(S)
               /\ \A q \in DOMAIN D : \E j \in DOMAIN V : D[q] = V[j]
               /\ Alike(kind, S) =>
                     /\ Sorted(kind, D)
                     /\ \A p, q \in DOMAIN D : p # q => ~Begins(kind, mask, D[p], D[q])
                     /\ \A j \in DOMAIN V : \E q \in DOMAIN D : Begins(kind, mask, D[q], V[j])
<1>. DEFINE n == Len(V)
<1>. DEFINE D == filters_dedup(kind, V)
<1>1. n \in Nat /\ DOMAIN V = 1 .. n /\ \A j \in 1 .. n : V[j] \in S
  OBVIOUS
<1>2. CASE n = 0
  <2>1. D = V
    BY <1>2 DEF filters_dedup
  <2>2. DOMAIN V = {}
    BY <1>1, <1>2
  <2>. QED
    BY <2>1, <2>2
<1>3. CASE n # 0
  <2>. DEFINE g == CHOOSE s : s = [i \in 0 .. n - 1 |-> IF i = 0 THEN DedupStart(V)
                                                       ELSE DedupRound(kind, s[i - 1], i)]
  <2>. DEFINE end == g[n - 1]
  <2>1. D = IF end.last = None THEN V
            ELSE SubSeq(Moved(end.vec, end.st, end.last, n), 1, end.st + n - end.last)
    BY <1>3 DEF filters_dedup, DedupStart
  <2>2. g = [i \in 0 .. n - 1 |-> IF i = 0 THEN DedupStart(V) ELSE DedupRound(kind, g[i - 1], i)]
    <3>1. n - 1 \in Nat
      BY <1>1, <1>3
    <3>2. \E s : DedupRounds(kind, V, n - 1, s)
      BY ONLY <3>1, DedupDefined
    <3>3. \E s : s = [i \in 0 .. n - 1 |-> IF i = 0 THEN DedupStart(V) ELSE DedupRound(kind, s[i - 1], i)]
      BY ONLY <3>2 DEF DedupRounds
    <3>. QED
      BY ONLY <3>3
  <2>. HIDE DEF g
  <2>3. /\ g[0] = DedupStart(V)
        /\ \A k \in Nat : k < n - 1 => g[k + 1] = DedupRound(kind, g[k], k + 1)
    BY <1>1, <1>3, <2>2
  <2>. DEFINE G == {k \in 0 .. n - 1 :
                        /\ DedupInv(S, V, k, g[k])
                        /\ KeptFrom(V, k, Kept(g[k], k))
                        /\ Alike(kind, S) => CleanOf(kind, mask, V, k, Kept(g[k], k))}
  <2>4. 0 \in G
    <3>1. DedupInv(S, V, 0, DedupStart(V))
      <4>1. None \in Int
        BY DEF None
      <4>. QED
        BY <4>1 DEF DedupInv, DedupStart
    <3>. DEFINE K == Kept(DedupStart(V), 0)
    <3>2. K = [q \in 1 .. 1 |-> V[q]]
      BY DEF Kept, KeptAt, KeptCount, DedupStart
    <3>3. Begins(kind, mask, V[1], V[1])
      BY <1>1, <1>3, BeginsChain
    <3>4. CleanOf(kind, mask, V, 0, K) /\ KeptFrom(V, 0, K)
      BY <3>2, <3>3 DEF CleanOf, KeptFrom
    <3>. QED
      BY <1>1, <1>3, <2>3, <3>1, <3>4
  <2>5. ASSUME NEW k \in Nat, k < n - 1, k \in G PROVE k + 1 \in G
    <3>. DEFINE i == k + 1
    <3>1. i \in 1 .. Len(V) - 1 /\ i - 1 = k
      BY <1>1, <2>5
    <3>0. /\ DedupInv(S, V, i - 1, g[k]) /\ KeptFrom(V, i - 1, Kept(g[k], i - 1))
          /\ Alike(kind, S) => CleanOf(kind, mask, V, i - 1, Kept(g[k], i - 1))
      BY <2>5, <3>1
    <3>5. g[i] = DedupRound(kind, g[k], i) /\ i \in 0 .. n - 1
      BY <2>3, <2>5
    <3>. HIDE DEF i
    <3>. DEFINE s == g[k]
    <3>. DEFINE t == DedupRound(kind, s, i)
    <3>. DEFINE K == Kept(s, i - 1)
    <3>. DEFINE c == KeptCount(s, i - 1)
    <3>2. /\ DedupInv(S, V, i, t) /\ c \in 1 .. i
          /\ Kept(t, i) = KeptNext(kind, K, c, V[i + 1])
      <4>. HIDE DEF s
      <4>1. DedupInv(S, V, i - 1, s)
        BY <3>0 DEF s
      <4>. QED
        BY ONLY <3>1, <4>1, DedupRoundKeeps, V \in Seq(S)
    <3>3. DOMAIN K = 1 .. c
      BY DEF Kept
    <3>6. KeptFrom(V, i, Kept(t, i))
      <4>1. KeptFrom(V, i - 1, K) /\ c \in 1 .. i /\ i \in Nat \ {0}
        BY <3>0, <3>1, <3>2
      <4>. HIDE DEF K, c, t
      <4>2. KeptFrom(V, i, KeptNext(kind, K, c, V[i + 1]))
        BY ONLY <3>3, <4>1, KeptFromNext
      <4>. QED
        BY ONLY <3>2, <4>2
    <3>4. ASSUME Alike(kind, S) PROVE CleanOf(kind, mask, V, i, Kept(t, i))
      <4>1. CleanOf(kind, mask, V, i - 1, K) /\ KeptFrom(V, i - 1, K)
        BY <3>0, <3>4
      <4>2. c \in 1 .. i
        BY <3>2
      <4>. HIDE DEF K, c, t
      <4>3. CleanOf(kind, mask, V, i, KeptNext(kind, K, c, V[i + 1]))
        BY ONLY <3>1, <3>3, <4>1, <4>2, CleanNext, V \in Seq(S), Sorted(kind, V), kind \in Kindred,
                N \in Nat, mask \in SUBSET (0 .. N), S \in FilterSets(kind, N, mask), <3>4
      <4>. QED
        BY ONLY <3>2, <4>3
    <3>. QED
      BY <3>2, <3>4, <3>5, <3>6 DEF i
  <2>6. n - 1 \in G
    <3>. HIDE DEF G
    <3>1. n - 1 \in Nat /\ n - 1 \in 0 .. n - 1
      BY <1>1, <1>3
    <3>. QED
      BY <2>4, <2>5, <3>1, Upwards
  <2>7. /\ DedupInv(S, V, n - 1, end) /\ KeptFrom(V, n - 1, Kept(end, n - 1))
        /\ Alike(kind, S) => CleanOf(kind, mask, V, n - 1, Kept(end, n - 1))
    BY <2>6
  <2>. HIDE DEF G, end, D
  <2>8. D = Kept(end, n - 1) /\ \E c \in Nat : DOMAIN D = 1 .. c
    <3>1. CASE end.last = None
      <4>1. D = V /\ end.vec = V /\ KeptCount(end, n - 1) = n
        BY <1>1, <2>1, <2>7, <3>1 DEF DedupInv, KeptCount
      <4>2. Kept(end, n - 1) = [q \in 1 .. n |-> V[q]]
        BY <3>1, <4>1 DEF Kept, KeptAt
      <4>. QED
        BY <1>1, <4>1, <4>2
    <3>2. CASE end.last # None
      <4>. DEFINE c == end.st + (n - end.last)
      <4>1. /\ end.st \in Int /\ end.last \in Int /\ 1 <= end.st /\ end.st < end.last /\ end.last <= n
            /\ end.vec \in Seq(S) /\ Len(end.vec) = n
        BY <1>1, <2>7, <3>2 DEF DedupInv
      <4>2. KeptCount(end, n - 1) = c /\ c \in 1 .. n /\ end.st + n - end.last = c
        BY <1>1, <3>2, <4>1 DEF KeptCount
      <4>. DEFINE W == Moved(end.vec, end.st, end.last, n)
      <4>3. W = [q \in 1 .. n |-> IF end.st < q /\ q <= c THEN end.vec[q + end.last - end.st] ELSE end.vec[q]]
        BY <4>1, <4>2 DEF Moved
      <4>4. \A q \in 1 .. c : q \in 1 .. n /\ q <= c /\ q \in Int
        BY <4>2
      <4>5. \A q \in 1 .. c : W[q] = KeptAt(end, q)
        BY <3>2, <4>1, <4>3, <4>4 DEF KeptAt
      <4>6. D = SubSeq(W, 1, c)
        BY <2>1, <3>2, <4>2
      <4>. HIDE DEF W
      <4>7. D = [q \in 1 .. c |-> W[q]]
        BY <4>2, <4>6
      <4>. QED
        BY <4>2, <4>5, <4>7 DEF Kept
    <3>. QED
      BY <3>1, <3>2
  <2>14. n - 1 + 1 = n
    BY <1>1
  <2>15. \A q \in DOMAIN D : \E j \in 1 .. n : D[q] = V[j]
    BY <2>7, <2>8, <2>14 DEF KeptFrom
  <2>10. PICK c \in Nat : DOMAIN D = 1 .. c
    BY <2>8
  <2>11. \A q \in 1 .. c : D[q] \in S
    BY <1>1, <2>10, <2>15
  <2>12. D \in Seq(S)
    <3>1. D = [q \in 1 .. c |-> D[q]]
      BY <2>8, <2>10 DEF Kept
    <3>. QED
      BY <2>11, <3>1
  <2>16. ASSUME Alike(kind, S)
         PROVE  /\ Sorted(kind, D)
                /\ \A p, q \in DOMAIN D : p # q => ~Begins(kind, mask, D[p], D[q])
                /\ \A j \in 1 .. n : \E q \in DOMAIN D : Begins(kind, mask, D[q], V[j])
    <3>9. /\ \A q, p \in DOMAIN D : q < p => ~filter_before(kind, D[p], D[q])
          /\ \A q \in DOMAIN D : q + 1 \in DOMAIN D => ~Begins(kind, mask, D[q], D[q + 1])
          /\ \A j \in 1 .. n : \E q \in DOMAIN D : Begins(kind, mask, D[q], V[j])
      BY <2>7, <2>8, <2>14, <2>16 DEF CleanOf
    <3>13. ASSUME NEW p \in DOMAIN D, NEW q \in DOMAIN D, p # q PROVE ~Begins(kind, mask, D[p], D[q])
      <4>. SUFFICES ASSUME Begins(kind, mask, D[p], D[q]) PROVE FALSE
        OBVIOUS
      <4>1. D[p] \in S /\ D[q] \in S /\ p \in Int /\ q \in Int
        BY <2>10, <2>11
      <4>2. ~filter_before(kind, D[q], D[p])
        BY <4>1, BeginsOrdered, <2>16
      <4>3. ASSUME NEW x \in DOMAIN D, NEW y \in DOMAIN D, x < y, Begins(kind, mask, D[x], D[y]) PROVE FALSE
        <5>1. x + 1 \in DOMAIN D /\ x < x + 1 /\ (x + 1 < y \/ x + 1 = y)
          BY <2>10, <4>3
        <5>2. ~filter_before(kind, D[x + 1], D[x])
          BY <3>9, <5>1
        <5>3. ~filter_before(kind, D[y], D[x + 1])
          <6>1. CASE x + 1 < y
            BY <3>9, <5>1, <6>1
          <6>2. CASE x + 1 = y
            <7>1. D[y] \in S
              BY <2>10, <2>11
            <7>. QED
              BY <6>2, <7>1, FiltersOrderly DEF Orderly
          <6>. QED
            BY <5>1, <6>1, <6>2
        <5>4. D[x] \in S /\ D[y] \in S /\ D[x + 1] \in S
          BY <2>10, <2>11, <5>1
        <5>5. Begins(kind, mask, D[x], D[x + 1])
          BY <4>3, <5>2, <5>3, <5>4, BeginsOrdered, <2>16
        <5>. QED
          BY <3>9, <5>1, <5>5
      <4>4. CASE p < q
        BY <4>3, <4>4
      <4>5. CASE q < p
        <5>1. ~filter_before(kind, D[p], D[q])
          BY <3>9, <4>5
        <5>2. D[p] = D[q]
          BY <4>1, <4>2, <5>1, FiltersOrderly DEF Orderly
        <5>. QED
          BY <4>3, <4>5, <5>2
      <4>6. p < q \/ q < p
        BY ONLY <3>13, <4>1
      <4>. QED
        BY ONLY <4>4, <4>5, <4>6
    <3>. QED
      BY <3>9, <3>13 DEF Sorted
  <2>. QED
    BY <1>1, <2>12, <2>15, <2>16 DEF D
<1>. QED
  BY <1>2, <1>3

-----------------------------------------------------------------------------
(* Searching *)

\* The loop of the binary search over len filters, of which L are above the key
\* and H below: what it returns for each pair of bounds in R.
Pairs(len, k) == {x \in (0 .. len) \X (0 .. len) : x[2] - x[1] <= k}
Halve(L, H, f, x) ==
    LET down == x[1]
        up == x[2]
        it == (up + down) \div 2
    IN  IF down >= up THEN 0
        ELSE IF it + 1 \in L THEN f[<<down, it>>]
        ELSE IF it + 1 \in H THEN f[<<it + 1, up>>]
        ELSE it + 1
Between(len, L, H, j) == \A i \in 1 .. len : (i \in L => j < i) /\ (i \in H => i < j)
Halving(R, L, H, f) == f = [x \in R |-> Halve(L, H, f, x)]

LEMMA Halved ==
    ASSUME NEW len \in Nat, NEW k \in Nat, NEW x \in Pairs(len, k), ~(x[1] >= x[2])
    PROVE  LET it == (x[2] + x[1]) \div 2
           IN  /\ it \in Nat /\ x[1] <= it /\ it < x[2] /\ it + 1 \in 1 .. len
               /\ k - 1 \in Nat
               /\ <<x[1], it>> \in Pairs(len, k - 1) /\ <<it + 1, x[2]>> \in Pairs(len, k - 1)
<1>. DEFINE d == x[1]
<1>. DEFINE u == x[2]
<1>. DEFINE it == (u + d) \div 2
<1>1. d \in 0 .. len /\ u \in 0 .. len /\ u - d <= k /\ d < u
  BY DEF Pairs
<1>. HIDE DEF d, u
<1>2. it \in Nat /\ d <= it /\ it < u /\ it + 1 \in 1 .. len
  BY <1>1
<1>. HIDE DEF it
<1>3. /\ <<d, it>> \in (0 .. len) \X (0 .. len) /\ <<it + 1, u>> \in (0 .. len) \X (0 .. len)
      /\ it - d <= k - 1 /\ u - (it + 1) <= k - 1 /\ k - 1 \in Nat
  BY <1>1, <1>2
<1>4. <<d, it>> \in Pairs(len, k - 1) /\ <<it + 1, u>> \in Pairs(len, k - 1)
  BY <1>3 DEF Pairs
<1>. QED
  BY <1>2, <1>3, <1>4 DEF d, u, it

LEMMA HalvingDefined ==
    ASSUME NEW len \in Nat, NEW L, NEW H
    PROVE  \E f : Halving((0 .. len) \X (0 .. len), L, H, f)
<1>. DEFINE G == {k \in 0 .. len : \E f : Halving(Pairs(len, k), L, H, f)}
<1>1. 0 \in G
  <2>. DEFINE f == [x \in Pairs(len, 0) |-> 0]
  <2>1. \A x \in Pairs(len, 0) : x[1] >= x[2]
    BY DEF Pairs
  <2>. HIDE DEF f
  <2>2. \A x \in Pairs(len, 0) : Halve(L, H, f, x) = 0
    BY <2>1 DEF Halve
  <2>3. Halving(Pairs(len, 0), L, H, f)
    BY <2>2 DEF Halving, f
  <2>. QED
    BY <2>3
<1>2. ASSUME NEW k \in Nat, k < len, k \in G PROVE k + 1 \in G
  <2>1. PICK f : Halving(Pairs(len, k), L, H, f)
    BY <1>2
  <2>. DEFINE h == [x \in Pairs(len, k + 1) |-> Halve(L, H, f, x)]
  <2>2. f = [x \in Pairs(len, k) |-> Halve(L, H, f, x)]
    BY <2>1 DEF Halving
  <2>3. Pairs(len, k) \in SUBSET Pairs(len, k + 1)
    BY DEF Pairs
  <2>4. \A x \in Pairs(len, k) : h[x] = f[x]
    BY <2>2, <2>3
  <2>. HIDE DEF h
  <2>5. ASSUME NEW x \in Pairs(len, k + 1) PROVE Halve(L, H, f, x) = Halve(L, H, h, x)
    <3>. DEFINE it == (x[2] + x[1]) \div 2
    <3>1. CASE x[1] >= x[2]
      BY <3>1 DEF Halve
    <3>2. CASE ~(x[1] >= x[2])
      <4>1. k + 1 \in Nat /\ k + 1 - 1 = k
        BY <1>2
      <4>2. <<x[1], it>> \in Pairs(len, k) /\ <<it + 1, x[2]>> \in Pairs(len, k)
        BY <3>2, <4>1, Halved
      <4>3. h[<<x[1], it>>] = f[<<x[1], it>>] /\ h[<<it + 1, x[2]>>] = f[<<it + 1, x[2]>>]
        BY <2>4, <4>2
      <4>. QED
        BY ONLY <3>2, <4>3 DEF Halve
    <3>. QED
      BY <3>1, <3>2
  <2>6. Halving(Pairs(len, k + 1), L, H, h)
    BY <2>5 DEF Halving, h
  <2>. QED
    BY <1>2, <2>6
<1>3. len \in G
  <2>. HIDE DEF G
  <2>. QED
    BY <1>1, <1>2, Upwards
<1>4. Pairs(len, len) = (0 .. len) \X (0 .. len)
  BY DEF Pairs
<1>. QED
  BY <1>3, <1>4

\* What is returned is neither above nor below the key, and where there is one
\* such that the ones above are behind it and those below before, one is found.
LEMMA HalvingFinds ==
    ASSUME NEW len \in Nat, NEW L, NEW H, NEW f, Halving((0 .. len) \X (0 .. len), L, H, f)
    PROVE  /\ f[<<0, len>>] # 0 => f[<<0, len>>] \in 1 .. len /\ f[<<0, len>>] \notin L \cup H
           /\ \A j \in 1 .. len : Between(len, L, H, j) => f[<<0, len>>] # 0
<1>1. \A x \in (0 .. len) \X (0 .. len) : f[x] = Halve(L, H, f, x)
  BY DEF Halving
<1>. DEFINE sound(y) == y # 0 => y \in 1 .. len /\ y \notin L \cup H
<1>. DEFINE complete(x) == \A j \in 1 .. len : Between(len, L, H, j) /\ x[1] < j /\ j <= x[2] => f[x] # 0
<1>. DEFINE G == {k \in 0 .. len : \A x \in Pairs(len, k) : sound(f[x]) /\ complete(x)}
<1>. HIDE DEF sound, complete
<1>2. ASSUME NEW k \in Nat, NEW x \in Pairs(len, k), x[1] >= x[2] PROVE sound(f[x]) /\ complete(x)
  <2>1. x \in (0 .. len) \X (0 .. len) /\ x[1] \in Int /\ x[2] \in Int
    BY DEF Pairs
  <2>2. f[x] = 0
    BY <1>1, <1>2, <2>1 DEF Halve
  <2>3. \A j \in 1 .. len : ~(x[1] < j /\ j <= x[2])
    BY <1>2, <2>1
  <2>. QED
    BY <2>2, <2>3 DEF sound, complete
<1>3. 0 \in G
  <2>1. \A x \in Pairs(len, 0) : x[1] >= x[2]
    BY DEF Pairs
  <2>. QED
    BY <1>2, <2>1
<1>4. ASSUME NEW k \in Nat, k < len, k \in G PROVE k + 1 \in G
  <2>1. ASSUME NEW x \in Pairs(len, k + 1), ~(x[1] >= x[2]) PROVE sound(f[x]) /\ complete(x)
    <3>. DEFINE it == (x[2] + x[1]) \div 2
    <3>. DEFINE left == <<x[1], it>>
    <3>. DEFINE right == <<it + 1, x[2]>>
    <3>0. k + 1 \in Nat /\ k + 1 - 1 = k
      BY <1>4
    <3>1. /\ it \in Nat /\ x[1] <= it /\ it < x[2] /\ it + 1 \in 1 .. len
          /\ left \in Pairs(len, k) /\ right \in Pairs(len, k)
      BY <2>1, <3>0, Halved
    <3>2. x \in (0 .. len) \X (0 .. len) /\ x[1] \in Int /\ x[2] \in Int
      BY DEF Pairs
    <3>3. f[x] = IF it + 1 \in L THEN f[left] ELSE IF it + 1 \in H THEN f[right] ELSE it + 1
      BY <1>1, <2>1, <3>2 DEF Halve
    <3>4. sound(f[left]) /\ complete(left) /\ sound(f[right]) /\ complete(right)
      BY <1>4, <3>1
    <3>5. left[1] = x[1] /\ left[2] = it /\ right[1] = it + 1 /\ right[2] = x[2]
      OBVIOUS
    <3>. HIDE DEF it, left, right
    <3>6. CASE it + 1 \in L
      <4>1. f[x] = f[left]
        BY <3>3, <3>6
      <4>2. ASSUME NEW j \in 1 .. len, Between(len, L, H, j), x[1] < j, j <= x[2] PROVE f[x] # 0
        <5>1. j < it + 1
          BY <3>1, <3>6, <4>2 DEF Between
        <5>2. j <= it
          BY <3>1, <5>1
        <5>. QED
          BY <3>4, <3>5, <4>1, <4>2, <5>2 DEF complete
      <4>. QED
        BY <3>4, <4>1, <4>2 DEF complete
    <3>7. CASE it + 1 \notin L /\ it + 1 \in H
      <4>1. f[x] = f[right]
        BY <3>3, <3>7
      <4>2. ASSUME NEW j \in 1 .. len, Between(len, L, H, j), x[1] < j, j <= x[2] PROVE f[x] # 0
        <5>1. it + 1 < j
          BY <3>1, <3>7, <4>2 DEF Between
        <5>. QED
          BY <3>4, <3>5, <4>1, <4>2, <5>1 DEF complete
      <4>. QED
        BY <3>4, <4>1, <4>2 DEF complete
    <3>8. CASE it + 1 \notin L /\ it + 1 \notin H
      <4>1. f[x] = it + 1 /\ f[x] # 0
        BY <3>1, <3>3, <3>8
      <4>. QED
        BY <3>1, <3>8, <4>1 DEF complete, sound
    <3>. QED
      BY <3>6, <3>7, <3>8
  <2>2. k + 1 \in Nat /\ k + 1 \in 0 .. len
    BY <1>4
  <2>. QED
    BY <1>2, <2>1, <2>2
<1>5. len \in G
  <2>. HIDE DEF G
  <2>. QED
    BY <1>3, <1>4, Upwards
<1>6. <<0, len>> \in Pairs(len, len) /\ <<0, len>>[1] = 0 /\ <<0, len>>[2] = len
  BY DEF Pairs
<1>7. sound(f[<<0, len>>]) /\ complete(<<0, len>>)
  BY <1>5, <1>6
<1>8. \A j \in 1 .. len : 0 < j /\ j <= len
  OBVIOUS
<1>. QED
  BY <1>6, <1>7, <1>8 DEF sound, complete


\* What the binary search finds the key has; and in a sorted list it finds one
\* if the key has a filter that begins no other one.
LEMMA BinSearchRight ==
    ASSUME NEW kind \in Kindred, NEW N \in Nat, NEW mask \in SUBSET (0 .. N),
           NEW S \in FilterSets(kind, N, mask), NEW table, table.vec \in Seq(S), table.mask = mask,
           NEW pk \in SUBSET (0 .. N)
    PROVE  LET vec == table.vec
               it == BinSearch(kind, table, pk)
           IN  /\ it # 0 => it \in DOMAIN vec /\ Hit(kind, mask, vec[it], pk)
               /\ Alike(kind, S) /\ Sorted(kind, vec) =>
                     \A j \in DOMAIN vec :
                        /\ Hit(kind, mask, vec[j], pk)
                        /\ \A i \in DOMAIN vec : vec[i] = vec[j] \/ ~Begins(kind, mask, vec[j], vec[i])
                        => it # 0
<1>. DEFINE r == RankOf(kind, N)
<1>. DEFINE vec == table.vec
<1>. DEFINE len == Len(vec)
<1>. DEFINE masked(i) == pk \cap MaskOf(kind, table, i)
<1>. DEFINE Below(a, b) == IF kind = "omit" THEN IntLess(a, b) ELSE MemLess(a, b)
<1>. DEFINE L == {i \in 1 .. len : Below(masked(i), vec[i].f)}
<1>. DEFINE H == {i \in 1 .. len : Below(vec[i].f, masked(i))}
<1>. DEFINE R == (0 .. len) \X (0 .. len)
<1>1. len \in Nat /\ DOMAIN vec = 1 .. len /\ \A i \in 1 .. len : vec[i] \in S
  OBVIOUS
<1>2. \A i \in 1 .. len : masked(i) = pk \cap FilterMask(kind, mask, vec[i])
  BY DEF MaskOf, FilterMask
<1>3. \A i \in 1 .. len : vec[i].f \in SUBSET (0 .. N)
  BY <1>1, FiltersOf
<1>4. r \in Ranks(N)
  BY RanksOfBits DEF RankOf
<1>5. \A a, b \in SUBSET (0 .. N) : Below(a, b) <=> Above(r, a, b)
  BY LessIsAbove DEF RankOf
<1>6. \A i \in 1 .. len : masked(i) \in SUBSET (0 .. N)
  OBVIOUS
<1>. DEFINE body(f, x) ==
        LET it == (x[2] + x[1]) \div 2
        IN  IF x[1] >= x[2] THEN 0
            ELSE IF Below(masked(it + 1), vec[it + 1].f) THEN f[<<x[1], it>>]
            ELSE IF Below(vec[it + 1].f, masked(it + 1)) THEN f[<<it + 1, x[2]>>]
            ELSE it + 1
<1>. DEFINE found == CHOOSE f : f = [x \in R |-> body(f, x)]
<1>7. BinSearch(kind, table, pk) = found[<<0, len>>]
  BY Zenon DEF BinSearch
<1>8. \A f : \A x \in R : body(f, x) = Halve(L, H, f, x)
  <2>. TAKE f
  <2>. TAKE x \in R
  <2>. DEFINE it == (x[2] + x[1]) \div 2
  <2>1. CASE x[1] >= x[2]
    BY <2>1 DEF Halve
  <2>2. CASE ~(x[1] >= x[2])
    <3>1. it + 1 \in 1 .. len
      <4>1. x[1] \in 0 .. len /\ x[2] \in 0 .. len
        OBVIOUS
      <4>. QED
        BY ONLY <1>1, <2>2, <4>1
    <3>2. /\ it + 1 \in L <=> Below(masked(it + 1), vec[it + 1].f)
          /\ it + 1 \in H <=> Below(vec[it + 1].f, masked(it + 1))
      <4>. HIDE DEF it
      <4>. QED
        BY <3>1
    <3>. HIDE DEF Below, masked, L, H
    <3>. QED
      BY ONLY <2>2, <3>2 DEF Halve
  <2>. QED
    BY <2>1, <2>2
<1>9. Halving(R, L, H, found)
  <2>. HIDE DEF body, L, H
  <2>1. \A f : f = [x \in R |-> body(f, x)] <=> Halving(R, L, H, f)
    <3>. TAKE f
    <3>1. [x \in R |-> body(f, x)] = [x \in R |-> Halve(L, H, f, x)]
      BY <1>8
    <3>. QED
      BY <3>1 DEF Halving
  <2>2. \E f : Halving(R, L, H, f)
    BY <1>1, HalvingDefined
  <2>3. \E f : f = [x \in R |-> body(f, x)]
    BY ONLY <2>1, <2>2
  <2>4. found = [x \in R |-> body(found, x)]
    BY ONLY <2>3
  <2>. QED
    BY <2>1, <2>4
<1>. DEFINE it == found[<<0, len>>]
<1>. HIDE DEF found
<1>10. /\ it # 0 => it \in 1 .. len /\ it \notin L \cup H
       /\ \A j \in 1 .. len : Between(len, L, H, j) => it # 0
  <2>1. len \in Nat /\ Halving((0 .. len) \X (0 .. len), L, H, found)
    BY <1>1, <1>9
  <2>. HIDE DEF L, H, len
  <2>. DEFINE y == found[<<0, len>>]
  <2>2. y # 0 => y \in 1 .. len /\ y \notin L \cup H
    BY ONLY <2>1, HalvingFinds
  <2>3. \A j \in 1 .. len : Between(len, L, H, j) => y # 0
    BY ONLY <2>1, HalvingFinds
  <2>. QED
    BY ONLY <2>2, <2>3
<1>. HIDE DEF it
<1>11. ASSUME it # 0 PROVE it \in 1 .. len /\ Hit(kind, mask, vec[it], pk)
  <2>1. it \in 1 .. len /\ ~Below(masked(it), vec[it].f) /\ ~Below(vec[it].f, masked(it))
    BY <1>10, <1>11
  <2>. HIDE DEF masked, Below
  <2>2. masked(it) = vec[it].f
    BY <1>3, <1>4, <1>5, <1>6, <2>1, AboveTotal
  <2>. QED
    BY <1>2, <2>1, <2>2 DEF Hit
<1>12. ASSUME Alike(kind, S), Sorted(kind, vec), NEW j \in 1 .. len, Hit(kind, mask, vec[j], pk),
              \A i \in 1 .. len : vec[i] = vec[j] \/ ~Begins(kind, mask, vec[j], vec[i])
       PROVE  it # 0
  <2>1. ASSUME NEW i \in 1 .. len PROVE (i \in L => j < i) /\ (i \in H => i < j)
    <3>. DEFINE a == vec[i]
    <3>. DEFINE b == vec[j]
    <3>. DEFINE m == pk \cap FilterMask(kind, mask, a)
    <3>1. a \in S /\ b \in S /\ (a = b \/ ~Begins(kind, mask, b, a)) /\ Hit(kind, mask, b, pk)
      BY <1>1, <1>12
    <3>2. /\ Above(r, m, a.f) => filter_before(kind, b, a)
          /\ Above(r, a.f, m) => filter_before(kind, a, b)
      <4>. HIDE DEF a, b
      <4>. QED
        BY <1>12, <3>1, KeySide
    <3>3. /\ i \in L <=> Above(r, m, a.f)
          /\ i \in H <=> Above(r, a.f, m)
      BY <1>2, <1>3, <1>5, <1>6
    <3>4. ~filter_before(kind, a, a)
      BY <3>1, FiltersOrderly DEF Orderly
    <3>5. (i < j => ~filter_before(kind, b, a)) /\ (j < i => ~filter_before(kind, a, b))
      BY <1>1, <1>12 DEF Sorted
    <3>6. i < j \/ j < i \/ i = j
      OBVIOUS
    <3>. HIDE DEF a, b, m, L, H
    <3>7. i = j => a = b
      BY DEF a, b
    <3>. QED
      BY ONLY <3>2, <3>3, <3>4, <3>5, <3>6, <3>7
  <2>2. Between(len, L, H, j)
    <3>. HIDE DEF L, H
    <3>. QED
      BY <2>1 DEF Between
  <2>. HIDE DEF L, H
  <2>. QED
    BY <1>10, <2>2
<1>. QED
  BY <1>1, <1>7, <1>11, <1>12 DEF it

\* Sequential search.
LEMMA FirstMatchRight ==
    ASSUME NEW kind, NEW table, NEW S, table.vec \in Seq(S), NEW pk
    PROVE  LET it == FirstMatch(kind, table, pk)
           IN  /\ it # 0 => it \in DOMAIN table.vec /\ Hit(kind, table.mask, table.vec[it], pk)
               /\ it # 0 <=> \E i \in DOMAIN table.vec : Hit(kind, table.mask, table.vec[i], pk)
<1>. DEFINE hits == {i \in DOMAIN table.vec : pk \cap MaskOf(kind, table, i) = table.vec[i].f}
<1>1. \A i \in DOMAIN table.vec : i \in hits <=> Hit(kind, table.mask, table.vec[i], pk)
  BY DEF Hit, MaskOf, FilterMask
<1>2. hits \in SUBSET Nat /\ 0 \notin hits /\ hits \in SUBSET (DOMAIN table.vec)
  OBVIOUS
<1>3. FirstMatch(kind, table, pk) = IF hits = {} THEN 0 ELSE Min(hits)
  BY DEF FirstMatch
<1>. HIDE DEF hits
<1>4. hits # {} => Min(hits) \in hits
  BY <1>2, LeastNumber DEF Min
<1>. QED
  BY <1>1, <1>2, <1>3, <1>4


\* However the filters are sorted, freed of duplicates and searched, what is
\* found is a filter the key has, and if the key has one, one is found: by
\* sequential search of the list as it was; by the others too if no byte strings
\* differ in length and, with binary search, no filter of the list begins
\* another one (filters_main.inc.h:66-330, filters_worker.inc.h:32-158).  The
\* device, which tries filter after filter, agrees.
THEOREM SearchFinds ==
    ASSUME NEW kind \in Kindred, NEW N \in Nat, NEW mask \in SUBSET (0 .. N),
           NEW S \in FilterSets(kind, N, mask),
           NEW table \in [vec : Seq(S), mask : {mask}, flattened : BOOLEAN],
           NEW wantdedup \in BOOLEAN, NEW binsearch \in BOOLEAN, NEW pk \in SUBSET (0 .. N)
    PROVE  LET vec == table.vec
               prepared == filters_prepare(kind, table, wantdedup)
               it == DOFILTER(kind, binsearch, prepared, pk)
               wanted == \E i \in DOMAIN vec : Hit(kind, mask, vec[i], pk)
               onDevice == filter_match(cuda_set_filters(kind, prepared), pk)
           IN  /\ prepared.vec \in Seq(S) /\ prepared.mask = mask
               /\ it # 0 => /\ it \in DOMAIN prepared.vec
                            /\ Hit(kind, mask, prepared.vec[it], pk)
                            /\ wanted
               /\ /\ wanted
                  /\ wantdedup \/ binsearch => Alike(kind, S)
                  /\ binsearch => \/ kind = "omit" \/ wantdedup
                                  \/ \A i, j \in DOMAIN vec :
                                        vec[i] = vec[j] \/ ~Begins(kind, mask, vec[i], vec[j])
                  => it # 0
               /\ onDevice <=> FirstMatch(kind, prepared, pk) # 0
               /\ onDevice => wanted
               /\ wanted /\ (wantdedup => Alike(kind, S)) => onDevice
<1>. DEFINE vec == table.vec
<1>. DEFINE n == Len(vec)
<1>. DEFINE sorted == filter_sort(kind, vec)
<1>. DEFINE prepared == filters_prepare(kind, table, wantdedup)
<1>. DEFINE D == prepared.vec
<1>. DEFINE hit(a) == Hit(kind, mask, a, pk)
<1>. DEFINE wanted == \E i \in DOMAIN vec : hit(vec[i])
<1>. DEFINE unnested(u) == \A i, j \in DOMAIN u : u[i] = u[j] \/ ~Begins(kind, mask, u[i], u[j])
<1>1. vec \in Seq(S) /\ table.mask = mask /\ n \in Nat /\ DOMAIN vec = 1 .. n
  OBVIOUS
<1>2. /\ sorted \in Seq(S) /\ Len(sorted) = n /\ Sorted(kind, sorted)
      /\ \E p \in Bijection(1 .. n, 1 .. n) : \A i \in 1 .. n : sorted[i] = vec[p[i]]
  BY <1>1, FiltersOrderly, SortSorts
<1>3. PICK p \in Bijection(1 .. n, 1 .. n) : \A i \in 1 .. n : sorted[i] = vec[p[i]]
  BY <1>2
<1>4. D = IF wantdedup THEN filters_dedup(kind, sorted) ELSE sorted
  BY DEF filters_prepare
<1>5. prepared.mask = mask
  BY <1>1 DEF filters_prepare
<1>. HIDE DEF sorted, prepared
<1>6. /\ \A i \in 1 .. n : p[i] \in 1 .. n
      /\ \A i \in 1 .. n : \E j \in 1 .. n : p[j] = i
      /\ DOMAIN sorted = 1 .. n
  <2>1. p \in [1 .. n -> 1 .. n] /\ \A i \in 1 .. n : \E j \in 1 .. n : p[j] = i
    BY <1>3 DEF Bijection, Injection, Surjection
  <2>2. DOMAIN sorted = 1 .. n
    BY <1>1, <1>2
  <2>. QED
    BY <2>1, <2>2
<1>7. /\ \A i \in DOMAIN sorted : \E j \in DOMAIN vec : sorted[i] = vec[j]
      /\ \A j \in DOMAIN vec : \E i \in DOMAIN sorted : sorted[i] = vec[j]
  <2>1. \A i \in 1 .. n : \E j \in 1 .. n : sorted[i] = vec[j]
    BY <1>3, <1>6
  <2>2. ASSUME NEW j \in 1 .. n PROVE \E i \in 1 .. n : sorted[i] = vec[j]
    <3>1. PICK i \in 1 .. n : p[i] = j
      BY <1>6
    <3>2. sorted[i] = vec[j]
      BY <1>3, <3>1
    <3>. QED
      BY <3>2
  <2>. QED
    BY ONLY <1>1, <1>6, <2>1, <2>2
<1>8. /\ D \in Seq(S)
      /\ \A q \in DOMAIN D : \E j \in DOMAIN vec : D[q] = vec[j]
      /\ (wantdedup => Alike(kind, S)) =>
            /\ Sorted(kind, D)
            /\ \A j \in DOMAIN vec : \E q \in DOMAIN D : Begins(kind, mask, D[q], vec[j])
            /\ wantdedup => unnested(D)
  <2>1. CASE wantdedup
    <3>. DEFINE E == filters_dedup(kind, sorted)
    <3>1. /\ E \in Seq(S)
          /\ \A q \in DOMAIN E : \E j \in DOMAIN sorted : E[q] = sorted[j]
          /\ Alike(kind, S) =>
                /\ Sorted(kind, E)
                /\ \A i, j \in DOMAIN E : i # j => ~Begins(kind, mask, E[i], E[j])
                /\ \A j \in DOMAIN sorted : \E q \in DOMAIN E : Begins(kind, mask, E[q], sorted[j])
      <4>1. sorted \in Seq(S) /\ Sorted(kind, sorted)
        BY <1>2
      <4>. QED
        BY ONLY <4>1, DedupRight, kind \in Kindred, N \in Nat, mask \in SUBSET (0 .. N),
                S \in FilterSets(kind, N, mask)
    <3>2. D = E
      BY <1>4, <2>1
    <3>. HIDE DEF E
    <3>3. \A q \in DOMAIN E : \E j \in DOMAIN vec : E[q] = vec[j]
      BY <1>7, <3>1
    <3>4. Alike(kind, S) => \A j \in DOMAIN vec : \E q \in DOMAIN E : Begins(kind, mask, E[q], vec[j])
      BY <1>7, <3>1
    <3>. QED
      BY <2>1, <3>1, <3>2, <3>3, <3>4
  <2>2. CASE ~wantdedup
    <3>1. D = sorted
      BY <1>4, <2>2
    <3>2. \A j \in DOMAIN vec : Begins(kind, mask, vec[j], vec[j])
      BY <1>1, BeginsChain
    <3>. QED
      BY <1>2, <1>7, <2>2, <3>1, <3>2
  <2>. QED
    BY <2>1, <2>2
<1>9. \A q \in DOMAIN D : hit(D[q]) => wanted
  BY <1>8
<1>10. wanted /\ (wantdedup => Alike(kind, S)) => \E q \in DOMAIN D : hit(D[q])
  <2>1. \A a, b \in S : Begins(kind, mask, a, b) /\ hit(b) => hit(a)
    BY BeginsChain
  <2>2. (\A i \in DOMAIN vec : vec[i] \in S) /\ \A q \in DOMAIN D : D[q] \in S
    BY <1>1, <1>8
  <2>. HIDE DEF hit, D, vec
  <2>3. (wantdedup => Alike(kind, S))
           => \A j \in DOMAIN vec : \E q \in DOMAIN D : Begins(kind, mask, D[q], vec[j])
    BY <1>8
  <2>. QED
    BY ONLY <2>1, <2>2, <2>3
<1>11. ASSUME kind = "omit" PROVE unnested(D)
  <2>1. \A a, b \in S : Begins(kind, mask, a, b) => a = b
    <3>1. ASSUME NEW a \in S, NEW b \in S, Begins(kind, mask, a, b) PROVE a = b
      <4>1. /\ a.f \subseteq mask /\ b.f \subseteq mask /\ a.f = b.f \cap mask
            /\ a.m = {} /\ b.m = {}
        <5>1. \A x \in S : x.f \subseteq mask /\ x.m = {}
          <6>. TAKE x \in S
          <6>. QED
            BY ONLY <1>11, FiltersOf, x \in S, kind \in Kindred, N \in Nat,
                    mask \in SUBSET (0 .. N), S \in FilterSets(kind, N, mask)
        <5>. QED
          BY <1>11, <3>1, <5>1 DEF Begins, FilterMask
      <4>2. a.f = b.f
        BY <4>1
      <4>3. a.f = b.f /\ a.m = b.m => a = b
        BY <1>11, SameFilter DEF Alike
      <4>. QED
        BY <4>1, <4>2, <4>3
    <3>. QED
      BY <3>1
  <2>. QED
    BY <1>8, <2>1
<1>12. ASSUME unnested(vec) PROVE unnested(D)
  <2>. TAKE i, j \in DOMAIN D
  <2>1. PICK x \in DOMAIN vec : D[i] = vec[x]
    BY <1>8
  <2>2. PICK y \in DOMAIN vec : D[j] = vec[y]
    BY <1>8
  <2>. HIDE DEF D, vec
  <2>3. vec[x] = vec[y] \/ ~Begins(kind, mask, vec[x], vec[y])
    BY <1>12
  <2>. QED
    BY <2>1, <2>2, <2>3
<1>. DEFINE it == DOFILTER(kind, binsearch, prepared, pk)
<1>13. /\ it # 0 => it \in DOMAIN D /\ hit(D[it])
       /\ (\E q \in DOMAIN D : hit(D[q]))
            /\ (binsearch => unnested(D) /\ Alike(kind, S) /\ Sorted(kind, D)) => it # 0
  <2>1. CASE binsearch
    <3>. DEFINE bs == BinSearch(kind, prepared, pk)
    <3>1. it = bs
      BY <2>1 DEF DOFILTER
    <3>2. /\ bs # 0 => bs \in DOMAIN D /\ hit(D[bs])
          /\ Alike(kind, S) /\ Sorted(kind, D) =>
                \A j \in DOMAIN D :
                   /\ hit(D[j])
                   /\ \A i \in DOMAIN D : D[i] = D[j] \/ ~Begins(kind, mask, D[j], D[i])
                   => bs # 0
      BY <1>5, <1>8, BinSearchRight
    <3>. QED
      BY <2>1, <3>1, <3>2
  <2>2. CASE ~binsearch
    <3>. DEFINE fm == FirstMatch(kind, prepared, pk)
    <3>1. it = fm
      BY <2>2 DEF DOFILTER
    <3>2. /\ fm # 0 => fm \in DOMAIN D /\ hit(D[fm])
          /\ fm # 0 <=> \E i \in DOMAIN D : hit(D[i])
      BY <1>5, <1>8, FirstMatchRight
    <3>. QED
      BY <3>1, <3>2
  <2>. QED
    BY <2>1, <2>2
<1>14. filter_match(cuda_set_filters(kind, prepared), pk) <=> \E q \in DOMAIN D : hit(D[q])
  BY <1>5 DEF filter_match, cuda_set_filters, Hit, MaskOf, FilterMask
<1>15. /\ wanted
       /\ wantdedup \/ binsearch => Alike(kind, S)
       /\ binsearch => kind = "omit" \/ wantdedup \/ unnested(vec)
       => it # 0
  <2>. HIDE DEF unnested, D, it, wanted
  <2>. QED
    BY <1>8, <1>10, <1>11, <1>12, <1>13
<1>16. it # 0 => it \in DOMAIN D /\ hit(D[it]) /\ wanted
  BY <1>9, <1>13
<1>17. /\ filter_match(cuda_set_filters(kind, prepared), pk) => wanted
       /\ wanted /\ (wantdedup => Alike(kind, S))
             => filter_match(cuda_set_filters(kind, prepared), pk)
  BY <1>9, <1>10, <1>14
<1>18. filter_match(cuda_set_filters(kind, prepared), pk) <=> FirstMatch(kind, prepared, pk) # 0
  BY <1>5, <1>8, <1>14, FirstMatchRight
<1>. QED
  BY <1>5, <1>8, <1>15, <1>16, <1>17, <1>18 DEF prepared

-----------------------------------------------------------------------------
(* Bits in the order they are written *)

\* Bit j of a byte string, from the highest one of byte 0 on; the place of bit b
\* of digit i of a text; the first n bits.
Nth(j) == ByteBits * (j \div ByteBits) + (ByteBits - 1 - (j % ByteBits))
DigitPos(i, b) == CharBits * (i - 1) + (CharBits - 1 - b)
First(n) == {Nth(j) : j \in 0 .. n - 1}

LEMMA Divided ==
    ASSUME NEW d \in Nat \ {0}, NEW q \in Nat, NEW r \in 0 .. d - 1, NEW x, x = d * q + r
    PROVE  x \in Nat /\ x \div d = q /\ x % d = r
<1>0. d * q \in Nat
  OBVIOUS
<1>1. x \in Nat
  BY <1>0
<1>. DEFINE s == x \div d
<1>. DEFINE t == x % d
<1>2. s \in Nat /\ t \in 0 .. d - 1 /\ x = d * s + t
  BY <1>1
<1>. HIDE DEF s, t
<1>3. d * (s - q) = r - t
  BY <1>1, <1>2
<1>4. s - q = 0
  <2>1. s - q >= 1 => d * (s - q) >= d
    BY <1>2
  <2>2. s - q <= -1 => d * (s - q) <= -d
    BY <1>2
  <2>. QED
    BY <1>2, <1>3, <2>1, <2>2
<1>5. s = q
  BY <1>2, <1>4
<1>6. t = r
  BY <1>1, <1>2, <1>5
<1>. QED
  BY <1>1, <1>5, <1>6 DEF s, t

LEMMA NthInByte ==
    ASSUME NEW k \in Nat, NEW s \in 0 .. ByteBits - 1
    PROVE  Nth(ByteBits * k + s) = ByteBits * k + (ByteBits - 1 - s)
<1>1. ByteBits \in Nat \ {0}
  BY FiltersAssumption
<1>2. (ByteBits * k + s) \div ByteBits = k /\ (ByteBits * k + s) % ByteBits = s
  BY <1>1, Divided
<1>. QED
  BY <1>2 DEF Nth

LEMMA NthBit ==
    ASSUME NEW j \in Nat
    PROVE  /\ Nth(j) \in Nat /\ MemRank(Nth(j)) = ByteBits - 1 - j
           /\ \A len \in Nat : Nth(j) < ByteBits * len <=> j < ByteBits * len
<1>1. ByteBits \in Nat \ {0}
  BY FiltersAssumption
<1>. DEFINE q == j \div ByteBits
<1>. DEFINE s == j % ByteBits
<1>2. q \in Nat /\ s \in 0 .. ByteBits - 1 /\ j = ByteBits * q + s /\ ByteBits * q \in Nat
  BY <1>1
<1>3. Nth(j) = ByteBits * q + (ByteBits - 1 - s)
  BY DEF Nth
<1>. HIDE DEF q, s
<1>4. ByteBits - 1 - s \in 0 .. ByteBits - 1
  BY <1>1, <1>2
<1>5. Nth(j) \in Nat /\ Nth(j) \div ByteBits = q /\ Nth(j) % ByteBits = ByteBits - 1 - s
  <2>. DEFINE x == Nth(j)
  <2>. DEFINE u == ByteBits - 1 - s
  <2>1. u \in 0 .. ByteBits - 1 /\ x = ByteBits * q + u
    BY <1>3, <1>4
  <2>. HIDE DEF x, u
  <2>2. x \in Nat /\ x \div ByteBits = q /\ x % ByteBits = u
    BY ONLY <1>1, <1>2, <2>1, Divided
  <2>. QED
    BY <2>2 DEF x, u
<1>6. MemRank(Nth(j)) = ByteBits - 1 - s - ByteBits * q
  BY <1>5 DEF MemRank
<1>7. ASSUME NEW len \in Nat PROVE Nth(j) < ByteBits * len <=> j < ByteBits * len
  <2>1. ByteBits * len \in Nat
    BY <1>1
  <2>2. q < len => ByteBits * q + ByteBits <= ByteBits * len
    <3>1. q < len => ByteBits * (q + 1) <= ByteBits * len
      BY <1>1, <1>2
    <3>2. ByteBits * (q + 1) = ByteBits * q + ByteBits
      BY <1>1, <1>2
    <3>. QED
      BY <3>1, <3>2
  <2>3. ~(q < len) => ByteBits * len <= ByteBits * q
    BY <1>1, <1>2
  <2>. QED
    BY <1>1, <1>2, <1>3, <1>4, <2>1, <2>2, <2>3
<1>. QED
  BY <1>1, <1>2, <1>5, <1>6, <1>7

LEMMA NthOnto ==
    ASSUME NEW p \in Nat
    PROVE  /\ ByteBits - 1 - MemRank(p) \in Nat
           /\ Nth(ByteBits - 1 - MemRank(p)) = p
<1>1. ByteBits \in Nat \ {0}
  BY FiltersAssumption
<1>. DEFINE q == p \div ByteBits
<1>. DEFINE s == p % ByteBits
<1>2. q \in Nat /\ s \in 0 .. ByteBits - 1 /\ p = ByteBits * q + s /\ ByteBits * q \in Nat
  BY <1>1
<1>3. MemRank(p) = s - ByteBits * q
  BY DEF MemRank
<1>. HIDE DEF q, s
<1>4. ByteBits - 1 - s \in 0 .. ByteBits - 1
  BY <1>1, <1>2
<1>5. ByteBits - 1 - MemRank(p) = ByteBits * q + (ByteBits - 1 - s)
  BY <1>1, <1>2, <1>3
<1>6. Nth(ByteBits * q + (ByteBits - 1 - s)) = ByteBits * q + (ByteBits - 1 - (ByteBits - 1 - s))
  BY <1>2, <1>4, NthInByte
<1>. QED
  BY <1>1, <1>2, <1>4, <1>5, <1>6

LEMMA NthOnce ==
    ASSUME NEW i \in Nat, NEW j \in Nat, Nth(i) = Nth(j)
    PROVE  i = j
<1>1. ByteBits - 1 - i = ByteBits - 1 - j
  BY NthBit
<1>. QED
  BY <1>1, FiltersAssumption

LEMMA FirstBits ==
    ASSUME NEW n \in Nat
    PROVE  /\ First(n) \in SUBSET Nat
           /\ \A j \in Nat : Nth(j) \in First(n) <=> j < n
           /\ \A N \in Nat : Leads(Memory(N), N, First(n) \cap (0 .. N))
           /\ \A len \in Nat : n <= ByteBits * len => First(n) \subseteq Ones(ByteBits * len)
           /\ \A len \in Nat : First(ByteBits * len) = Ones(ByteBits * len)
<1>0. \A j \in 0 .. n - 1 : j \in Nat /\ j < n
  OBVIOUS
<1>1. First(n) \in SUBSET Nat
  BY <1>0, NthBit DEF First
<1>2. ASSUME NEW j \in Nat PROVE Nth(j) \in First(n) <=> j < n
  <2>1. j < n => j \in 0 .. n - 1
    OBVIOUS
  <2>2. ASSUME NEW i \in 0 .. n - 1, Nth(j) = Nth(i) PROVE j = i
    BY <1>0, <2>2, NthOnce
  <2>. QED
    BY <1>0, <2>1, <2>2 DEF First
<1>3. ByteBits \in Nat \ {0}
  BY FiltersAssumption
<1>4. ASSUME NEW N \in Nat, NEW p \in First(n) \cap (0 .. N), NEW q \in 0 .. N,
             Memory(N)[p] < Memory(N)[q]
      PROVE  q \in First(n)
  <2>1. PICK j \in 0 .. n - 1 : p = Nth(j)
    BY DEF First
  <2>2. Memory(N)[p] = ByteBits - 1 - j
    BY <1>0, <2>1, NthBit DEF Memory
  <2>. DEFINE i == ByteBits - 1 - MemRank(q)
  <2>3. i \in Nat /\ Nth(i) = q /\ Memory(N)[q] = MemRank(q)
    BY NthOnto DEF Memory
  <2>4. MemRank(q) \in Int
    BY MarkBefore
  <2>5. i < j
    BY <1>3, <1>4, <2>2, <2>3, <2>4
  <2>. HIDE DEF i
  <2>. QED
    BY <1>0, <1>2, <2>3, <2>5
<1>5. ASSUME NEW len \in Nat, n <= ByteBits * len, NEW p \in First(n) PROVE p \in Ones(ByteBits * len)
  <2>1. PICK j \in 0 .. n - 1 : p = Nth(j)
    BY DEF First
  <2>2. ByteBits * len \in Nat
    BY <1>3
  <2>3. p \in Nat /\ p < ByteBits * len
    BY <1>0, <1>5, <2>1, <2>2, NthBit
  <2>. QED
    BY <2>2, <2>3 DEF Ones
<1>6. ASSUME NEW len \in Nat PROVE First(ByteBits * len) = Ones(ByteBits * len)
  <2>1. ByteBits * len \in Nat
    BY <1>3
  <2>2. ASSUME NEW j \in 0 .. ByteBits * len - 1 PROVE Nth(j) \in 0 .. ByteBits * len - 1
    <3>1. j \in Nat /\ j < ByteBits * len
      BY <2>1
    <3>. QED
      BY <2>1, <3>1, NthBit
  <2>3. ASSUME NEW p \in 0 .. ByteBits * len - 1
        PROVE  \E j \in 0 .. ByteBits * len - 1 : p = Nth(j)
    <3>. DEFINE j == ByteBits - 1 - MemRank(p)
    <3>1. j \in Nat /\ Nth(j) = p
      BY NthOnto
    <3>. HIDE DEF j
    <3>2. p < ByteBits * len
      BY <2>1
    <3>3. j < ByteBits * len
      BY <3>1, <3>2, NthBit
    <3>. QED
      BY <2>1, <3>1, <3>3
  <2>. QED
    BY <2>2, <2>3 DEF First, Ones
<1>. QED
  BY <1>1, <1>2, <1>4, <1>5, <1>6 DEF Leads

LEMMA PosOfDigit ==
    ASSUME NEW i \in Nat \ {0}, NEW b \in 0 .. CharBits - 1
    PROVE  /\ DigitPos(i, b) \in Nat
           /\ \A n \in Nat : DigitPos(i, b) < CharBits * n <=> i <= n
           /\ \A k \in Nat \ {0}, d \in 0 .. CharBits - 1 : DigitPos(i, b) = DigitPos(k, d) => i = k /\ b = d
<1>1. CharBits \in Nat \ {0}
  BY FiltersAssumption
<1>2. \A k \in Nat \ {0}, d \in 0 .. CharBits - 1 :
         /\ DigitPos(k, d) \in Nat /\ DigitPos(k, d) \div CharBits = k - 1
         /\ DigitPos(k, d) % CharBits = CharBits - 1 - d
         /\ CharBits * (k - 1) \in Nat
  <2>. TAKE k \in Nat \ {0}, d \in 0 .. CharBits - 1
  <2>1. k - 1 \in Nat /\ CharBits - 1 - d \in 0 .. CharBits - 1
    BY <1>1
  <2>2. DigitPos(k, d) = CharBits * (k - 1) + (CharBits - 1 - d) /\ CharBits * (k - 1) \in Nat
    BY <1>1, <2>1 DEF DigitPos
  <2>3. /\ DigitPos(k, d) \in Nat /\ DigitPos(k, d) \div CharBits = k - 1
        /\ DigitPos(k, d) % CharBits = CharBits - 1 - d
    <3>. DEFINE x == DigitPos(k, d)
    <3>. DEFINE q == k - 1
    <3>. DEFINE r == CharBits - 1 - d
    <3>1. q \in Nat /\ r \in 0 .. CharBits - 1 /\ x = CharBits * q + r
      BY <2>1, <2>2
    <3>. HIDE DEF x, q, r
    <3>2. x \in Nat /\ x \div CharBits = q /\ x % CharBits = r
      BY ONLY <1>1, <3>1, Divided
    <3>. QED
      BY <3>2 DEF x, q, r
  <2>. QED
    BY <2>2, <2>3
<1>3. ASSUME NEW n \in Nat PROVE DigitPos(i, b) < CharBits * n <=> i <= n
  <2>1. DigitPos(i, b) = CharBits * (i - 1) + (CharBits - 1 - b) /\ CharBits * (i - 1) \in Nat
        /\ CharBits * n \in Nat
    BY <1>1, <1>2 DEF DigitPos
  <2>2. i <= n => CharBits * (i - 1) + CharBits <= CharBits * n
    <3>1. i <= n => CharBits * i <= CharBits * n
      BY <1>1
    <3>2. CharBits * (i - 1) + CharBits = CharBits * i
      BY <1>1
    <3>. QED
      BY <3>1, <3>2
  <2>3. ~(i <= n) => CharBits * n <= CharBits * (i - 1)
    BY <1>1
  <2>. QED
    BY <1>1, <2>1, <2>2, <2>3
<1>4. ASSUME NEW k \in Nat \ {0}, NEW d \in 0 .. CharBits - 1, DigitPos(i, b) = DigitPos(k, d)
      PROVE  i = k /\ b = d
  <2>1. i - 1 = k - 1 /\ CharBits - 1 - b = CharBits - 1 - d
    BY <1>2, <1>4
  <2>. QED
    BY <1>1, <2>1
<1>. QED
  BY <1>2, <1>3, <1>4

LEMMA PosOnto ==
    ASSUME NEW j \in Nat
    PROVE  \E i \in Nat \ {0}, b \in 0 .. CharBits - 1 : j = DigitPos(i, b)
<1>1. CharBits \in Nat \ {0}
  BY FiltersAssumption
<1>. DEFINE i == j \div CharBits + 1
<1>. DEFINE b == CharBits - 1 - (j % CharBits)
<1>2. j \div CharBits \in Nat /\ j % CharBits \in 0 .. CharBits - 1
      /\ j = CharBits * (j \div CharBits) + (j % CharBits)
  BY <1>1
<1>3. i \in Nat \ {0} /\ b \in 0 .. CharBits - 1 /\ i - 1 = j \div CharBits
      /\ CharBits - 1 - b = j % CharBits
  BY <1>1, <1>2
<1>. QED
  BY <1>2, <1>3 DEF DigitPos

-----------------------------------------------------------------------------
(* base32 *)

\* The bits of a stretch of the stream, the bits a digit sets, and the two parts
\* in which it is stored.
Stretch(lo, hi) == {Nth(j) : j \in lo .. hi - 1}
Places(i, digit) == {Nth(DigitPos(i, b)) : b \in digit}
Start(w, l) == Bits(Shift(w, ByteBits - CharBits - l), 0, ByteBits)
Rest(w, l) == Bits(Shift(w, 2 * ByteBits - CharBits - l), 0, ByteBits)

LEMMA StretchBits ==
    ASSUME NEW lo \in Nat, NEW hi \in Nat
    PROVE  /\ \A j \in Nat : Nth(j) \in Stretch(lo, hi) <=> lo <= j /\ j < hi
           /\ \A p \in Stretch(lo, hi) : \E j \in Nat : p = Nth(j) /\ lo <= j /\ j < hi
<1>1. ASSUME NEW p \in Stretch(lo, hi) PROVE \E j \in Nat : p = Nth(j) /\ lo <= j /\ j < hi
  <2>1. PICK j \in lo .. hi - 1 : p = Nth(j)
    BY DEF Stretch
  <2>2. j \in Nat /\ lo <= j /\ j < hi
    OBVIOUS
  <2>. QED
    BY <2>1, <2>2
<1>2. ASSUME NEW j \in Nat PROVE Nth(j) \in Stretch(lo, hi) <=> lo <= j /\ j < hi
  <2>1. lo <= j /\ j < hi => j \in lo .. hi - 1
    OBVIOUS
  <2>2. lo <= j /\ j < hi => Nth(j) \in Stretch(lo, hi)
    BY <2>1 DEF Stretch
  <2>3. ASSUME Nth(j) \in Stretch(lo, hi) PROVE lo <= j /\ j < hi
    <3>1. PICK i \in Nat : Nth(j) = Nth(i) /\ lo <= i /\ i < hi
      BY <1>1, <2>3
    <3>2. i = j
      BY <3>1, NthOnce
    <3>. QED
      BY <3>1, <3>2
  <2>. QED
    BY <2>2, <2>3
<1>. QED
  BY <1>1, <1>2

\* Where one bit of digit n + 1 is stored.
LEMMA DigitBit ==
    ASSUME NEW n \in Nat, NEW k \in Nat, NEW l \in 0 .. ByteBits - 1,
           CharBits * n = ByteBits * k + l, NEW b \in 0 .. CharBits - 1
    PROVE  LET h == b + (ByteBits - CharBits - l)
               r == b + (2 * ByteBits - CharBits - l)
               p == Nth(DigitPos(n + 1, b))
           IN  /\ h \in Int /\ r \in Int
               /\ h >= 0 => /\ h < ByteBits /\ p = h + k * ByteBits /\ ~(r < ByteBits)
                            /\ DigitPos(n + 1, b) < ByteBits * (k + 1)
               /\ h < 0 => /\ 0 <= r /\ r < ByteBits /\ p = r + (k + 1) * ByteBits
                           /\ ByteBits * (k + 1) <= DigitPos(n + 1, b)
<1>1. ByteBits \in Nat \ {0} /\ CharBits \in Nat \ {0} /\ CharBits <= ByteBits
  BY FiltersAssumption
<1>. DEFINE h == b + (ByteBits - CharBits - l)
<1>. DEFINE r == b + (2 * ByteBits - CharBits - l)
<1>. DEFINE x == l + (CharBits - 1 - b)
<1>2. h \in Int /\ r \in Int /\ x \in Nat /\ r = h + ByteBits /\ h < ByteBits /\ x = ByteBits - 1 - h
      /\ x < 2 * ByteBits
  BY <1>1
<1>3. ByteBits * k \in Nat /\ ByteBits * (k + 1) = ByteBits * k + ByteBits
      /\ k * ByteBits = ByteBits * k /\ (k + 1) * ByteBits = ByteBits * k + ByteBits
  BY <1>1
<1>4. DigitPos(n + 1, b) = ByteBits * k + x
  <2>1. n + 1 - 1 = n
    OBVIOUS
  <2>2. DigitPos(n + 1, b) = CharBits * n + (CharBits - 1 - b)
    BY <2>1 DEF DigitPos
  <2>. QED
    BY <1>1, <1>3, <2>2
<1>. HIDE DEF h, r, x
<1>5. CASE h >= 0
  <2>1. x \in 0 .. ByteBits - 1
    BY <1>1, <1>2, <1>5
  <2>2. Nth(ByteBits * k + x) = ByteBits * k + (ByteBits - 1 - x)
    BY <2>1, NthInByte
  <2>. QED
    BY <1>1, <1>2, <1>3, <1>4, <1>5, <2>1, <2>2 DEF h, r
<1>6. CASE h < 0
  <2>. DEFINE y == x - ByteBits
  <2>1. y \in 0 .. ByteBits - 1 /\ ByteBits * (k + 1) + y = ByteBits * k + x
    BY <1>1, <1>2, <1>3, <1>6
  <2>2. Nth(ByteBits * (k + 1) + y) = ByteBits * (k + 1) + (ByteBits - 1 - y)
    BY <2>1, NthInByte
  <2>. QED
    BY <1>1, <1>2, <1>3, <1>4, <1>6, <2>1, <2>2 DEF h, r
<1>. QED
  BY <1>2, <1>5, <1>6 DEF h, r

LEMMA DigitStored ==
    ASSUME NEW n \in Nat, NEW k \in Nat, NEW l \in 0 .. ByteBits - 1,
           CharBits * n = ByteBits * k + l, NEW w \in SUBSET (0 .. CharBits - 1)
    PROVE  /\ At(Start(w, l), k) = {p \in Places(n + 1, w) : p < ByteBits * (k + 1)}
           /\ At(Rest(w, l), k + 1) = {p \in Places(n + 1, w) : ByteBits * (k + 1) <= p}
           /\ At(Start(w, l), k) \cup At(Rest(w, l), k + 1) = Places(n + 1, w)
           /\ Start(w, l) \in SUBSET (0 .. ByteBits - 1)
           /\ Rest(w, l) \in SUBSET (0 .. ByteBits - 1)
<1>1. ByteBits \in Nat \ {0} /\ CharBits \in Nat \ {0} /\ ByteBits * (k + 1) \in Nat
  BY FiltersAssumption
<1>. DEFINE h(b) == b + (ByteBits - CharBits - l)
<1>. DEFINE r(b) == b + (2 * ByteBits - CharBits - l)
<1>. DEFINE p(b) == Nth(DigitPos(n + 1, b))
<1>2. ASSUME NEW b \in 0 .. CharBits - 1
      PROVE  /\ h(b) \in Int /\ r(b) \in Int /\ p(b) \in Nat
             /\ h(b) >= 0 => /\ h(b) < ByteBits /\ p(b) = h(b) + k * ByteBits /\ ~(r(b) < ByteBits)
                             /\ p(b) < ByteBits * (k + 1)
             /\ h(b) < 0 => /\ 0 <= r(b) /\ r(b) < ByteBits /\ p(b) = r(b) + (k + 1) * ByteBits
                            /\ ByteBits * (k + 1) <= p(b)
  <2>1. DigitPos(n + 1, b) \in Nat
    BY PosOfDigit
  <2>2. p(b) \in Nat /\ (p(b) < ByteBits * (k + 1) <=> DigitPos(n + 1, b) < ByteBits * (k + 1))
    BY <2>1, NthBit
  <2>. HIDE DEF p
  <2>3. ByteBits * (k + 1) <= DigitPos(n + 1, b) => ByteBits * (k + 1) <= p(b)
    BY <1>1, <2>1, <2>2
  <2>. QED
    BY <2>2, <2>3, DigitBit DEF p
<1>3. Start(w, l) = {h(b) : b \in {d \in w : h(d) >= 0}}
  <2>1. \A b \in w : h(b) \in Int /\ (h(b) >= 0 => h(b) < ByteBits)
    BY <1>2
  <2>2. Start(w, l) = {x \in {h(b) : b \in w} : 0 <= x /\ x < ByteBits}
    BY DEF Start, Bits, Shift
  <2>. HIDE DEF h
  <2>. QED
    BY <2>1, <2>2
<1>4. Rest(w, l) = {r(b) : b \in {d \in w : h(d) < 0}}
  <2>1. \A b \in w : /\ h(b) \in Int /\ r(b) \in Int
                     /\ h(b) < 0 => 0 <= r(b) /\ r(b) < ByteBits
                     /\ h(b) >= 0 => ~(r(b) < ByteBits)
    BY <1>2
  <2>2. Rest(w, l) = {x \in {r(b) : b \in w} : 0 <= x /\ x < ByteBits}
    BY DEF Rest, Bits, Shift
  <2>. HIDE DEF h, r
  <2>. QED
    BY <2>1, <2>2
<1>5. At(Start(w, l), k) = {p(b) : b \in {d \in w : h(d) >= 0}}
  <2>1. \A b \in w : h(b) >= 0 => p(b) = h(b) + k * ByteBits
    BY <1>2
  <2>2. At(Start(w, l), k) = {x + k * ByteBits : x \in Start(w, l)}
    BY DEF At, Shift
  <2>. HIDE DEF h, p
  <2>. QED
    BY <1>3, <2>1, <2>2
<1>6. At(Rest(w, l), k + 1) = {p(b) : b \in {d \in w : h(d) < 0}}
  <2>1. \A b \in w : h(b) < 0 => p(b) = r(b) + (k + 1) * ByteBits
    BY <1>2
  <2>2. At(Rest(w, l), k + 1) = {x + (k + 1) * ByteBits : x \in Rest(w, l)}
    BY DEF At, Shift
  <2>. HIDE DEF h, p, r
  <2>. QED
    BY <1>4, <2>1, <2>2
<1>7. Places(n + 1, w) = {p(b) : b \in w}
  BY DEF Places
<1>8. \A b \in w : /\ h(b) \in Int /\ p(b) \in Nat /\ r(b) \in Int
                   /\ h(b) >= 0 => p(b) < ByteBits * (k + 1) /\ h(b) < ByteBits
                   /\ h(b) < 0 => ByteBits * (k + 1) <= p(b) /\ 0 <= r(b) /\ r(b) < ByteBits
  BY <1>2
<1>. HIDE DEF h, p, r
<1>9. Start(w, l) \in SUBSET (0 .. ByteBits - 1) /\ Rest(w, l) \in SUBSET (0 .. ByteBits - 1)
  <2>1. \A x \in Int : 0 <= x /\ x < ByteBits => x \in 0 .. ByteBits - 1
    BY <1>1
  <2>. QED
    BY <1>3, <1>4, <1>8, <2>1
<1>10. \A b \in w : /\ p(b) < ByteBits * (k + 1) <=> h(b) >= 0
                    /\ ByteBits * (k + 1) <= p(b) <=> h(b) < 0
                    /\ h(b) >= 0 \/ h(b) < 0
  BY <1>1, <1>8
<1>. QED
  BY <1>5, <1>6, <1>7, <1>9, <1>10


\* What base32_from has stored of the first n digits of a text.
TextBits(text, n) == UNION {Places(i, text[i]) : i \in 1 .. n}
Stored(s, text, n) ==
    /\ s.dst = TextBits(text, n)
    /\ s.cmask \in SUBSET (0 .. ByteBits - 1)
    /\ n = 0 => s.k = -1 /\ s.cmask = {}
    /\ n > 0 => /\ s.k \in Nat
                /\ ByteBits * s.k < CharBits * n /\ CharBits * n <= ByteBits * (s.k + 1)
                /\ At(s.cmask, s.k) = Stretch(ByteBits * s.k, CharBits * n)

LEMMA PlacesStretch ==
    ASSUME NEW n \in Nat
    PROVE  Places(n + 1, Ones(CharBits)) = Stretch(CharBits * n, CharBits * (n + 1))
<1>1. CharBits \in Nat \ {0} /\ CharBits * n \in Nat /\ CharBits * (n + 1) = CharBits * n + CharBits
  BY FiltersAssumption
<1>2. \A b \in 0 .. CharBits - 1 : DigitPos(n + 1, b) = CharBits * n + (CharBits - 1 - b)
  <2>1. n + 1 - 1 = n
    OBVIOUS
  <2>. QED
    BY <2>1 DEF DigitPos
<1>3. ASSUME NEW b \in 0 .. CharBits - 1
      PROVE  Nth(DigitPos(n + 1, b)) \in Stretch(CharBits * n, CharBits * (n + 1))
  <2>1. DigitPos(n + 1, b) \in CharBits * n .. CharBits * (n + 1) - 1
    BY <1>1, <1>2
  <2>. QED
    BY <2>1 DEF Stretch
<1>4. ASSUME NEW j \in CharBits * n .. CharBits * (n + 1) - 1
      PROVE  Nth(j) \in Places(n + 1, Ones(CharBits))
  <2>. DEFINE b == CharBits - 1 - (j - CharBits * n)
  <2>1. b \in 0 .. CharBits - 1 /\ CharBits - 1 - b = j - CharBits * n /\ j \in Int
    BY <1>1
  <2>. HIDE DEF b
  <2>2. DigitPos(n + 1, b) = j
    BY <1>1, <1>2, <2>1
  <2>. QED
    BY <2>1, <2>2 DEF Places, Ones
<1>. QED
  BY <1>3, <1>4 DEF Places, Stretch, Ones

\* A digit's bits come behind those of the digits before.
LEMMA TextBitsNext ==
    ASSUME NEW text, NEW n \in Nat, \A i \in 1 .. n + 1 : text[i] \in Digits
    PROVE  /\ TextBits(text, n + 1) = TextBits(text, n) \cup Places(n + 1, text[n + 1])
           /\ TextBits(text, n) \subseteq First(CharBits * n)
           /\ TextBits(text, n) \cap Places(n + 1, Ones(CharBits)) = {}
<1>1. 1 .. n + 1 = (1 .. n) \cup {n + 1}
  OBVIOUS
<1>2. TextBits(text, n + 1) = TextBits(text, n) \cup Places(n + 1, text[n + 1])
  BY <1>1 DEF TextBits
<1>3. ASSUME NEW p \in TextBits(text, n) PROVE p \in First(CharBits * n)
  <2>1. PICK i \in 1 .. n : \E b \in text[i] : p = Nth(DigitPos(i, b))
    BY DEF TextBits, Places
  <2>2a. PICK b \in text[i] : p = Nth(DigitPos(i, b))
    BY <2>1
  <2>2. i \in Nat \ {0} /\ b \in 0 .. CharBits - 1 /\ i <= n
    <3>1. i \in 1 .. n + 1 /\ i \in Nat \ {0} /\ i <= n
      OBVIOUS
    <3>. QED
      BY <3>1 DEF Digits
  <2>3. DigitPos(i, b) \in Nat /\ DigitPos(i, b) < CharBits * n
    BY <2>2, PosOfDigit
  <2>4. CharBits * n \in Nat
    BY FiltersAssumption
  <2>. QED
    BY <2>2a, <2>3, <2>4, FirstBits
<1>4. ASSUME NEW p \in First(CharBits * n), p \in Places(n + 1, Ones(CharBits)) PROVE FALSE
  <2>1. CharBits * n \in Nat /\ CharBits * (n + 1) \in Nat
    BY FiltersAssumption
  <2>2. p \in Stretch(CharBits * n, CharBits * (n + 1))
    BY <1>4, PlacesStretch
  <2>3. PICK j \in Nat : p = Nth(j) /\ CharBits * n <= j
    BY <2>1, <2>2, StretchBits
  <2>4. j < CharBits * n
    BY <2>1, <2>3, FirstBits
  <2>. QED
    BY <2>1, <2>3, <2>4
<1>. QED
  BY <1>2, <1>3, <1>4

LEMMA StoreDigitKeeps ==
    ASSUME NEW text, NEW n \in Nat, \A i \in 1 .. n + 1 : text[i] \in Digits,
           NEW s, Stored(s, text, n)
    PROVE  Stored(StoreDigit(s, text[n + 1], n * CharBits), text, n + 1)
<1>. DEFINE i == n * CharBits
<1>. DEFINE l == i % ByteBits
<1>. DEFINE k == i \div ByteBits
<1>. DEFINE w == text[n + 1]
<1>. DEFINE full == Ones(CharBits)
<1>. DEFINE mask == Start(full, l)
<1>. DEFINE spill == Rest(full, l)
<1>1. ByteBits \in Nat \ {0} /\ CharBits \in Nat \ {0} /\ CharBits <= ByteBits
  BY FiltersAssumption
<1>2. /\ i \in Nat /\ i = CharBits * n /\ k \in Nat /\ l \in 0 .. ByteBits - 1
      /\ CharBits * n = ByteBits * k + l
  <2>1. n * CharBits \in Nat /\ n * CharBits = CharBits * n
    BY <1>1
  <2>. QED
    BY ONLY <1>1, <2>1
<1>3. CharBits * (n + 1) = CharBits * n + CharBits /\ ByteBits * k \in Nat
      /\ ByteBits * (k + 1) = ByteBits * k + ByteBits /\ CharBits * n \in Nat
      /\ ByteBits * (k + 2) = ByteBits * k + 2 * ByteBits
  BY <1>1, <1>2
<1>4. w \in SUBSET (0 .. CharBits - 1) /\ full \in SUBSET (0 .. CharBits - 1)
  BY DEF Digits, Ones
<1>. DEFINE new == StoreDigit(s, w, i)
<1>5. new = LET dst == (s.dst \ At(mask, k)) \cup At(Start(w, l), k)
            IN  IF spill = {}
                THEN [dst |-> dst, k |-> k, cmask |-> mask \cup KeptMask(s, k)]
                ELSE [dst |-> (dst \ At(spill, k + 1)) \cup At(Rest(w, l), k + 1),
                      k |-> k + 1, cmask |-> spill]
  BY DEF StoreDigit, Start, Rest
<1>. HIDE DEF i, l, k, w, new, full
<1>6. /\ At(Start(w, l), k) = {p \in Places(n + 1, w) : p < ByteBits * (k + 1)}
      /\ At(Rest(w, l), k + 1) = {p \in Places(n + 1, w) : ByteBits * (k + 1) <= p}
      /\ At(Start(w, l), k) \cup At(Rest(w, l), k + 1) = Places(n + 1, w)
  BY <1>2, <1>4, DigitStored
<1>7. /\ At(mask, k) = {p \in Places(n + 1, full) : p < ByteBits * (k + 1)}
      /\ At(spill, k + 1) = {p \in Places(n + 1, full) : ByteBits * (k + 1) <= p}
      /\ At(mask, k) \cup At(spill, k + 1) = Places(n + 1, full)
      /\ mask \in SUBSET (0 .. ByteBits - 1)
      /\ spill \in SUBSET (0 .. ByteBits - 1)
  BY <1>2, <1>4, DigitStored
<1>8. Places(n + 1, full) = Stretch(CharBits * n, CharBits * (n + 1))
  BY PlacesStretch DEF full
<1>9. /\ TextBits(text, n + 1) = TextBits(text, n) \cup Places(n + 1, w)
      /\ TextBits(text, n) \cap Places(n + 1, full) = {}
  BY TextBitsNext DEF w, full
<1>10. s.dst = TextBits(text, n)
  BY DEF Stored
<1>. HIDE DEF mask, spill
<1>11. spill = {} <=> At(spill, k + 1) = {}
  BY DEF At, Shift
<1>12. ASSUME NEW j \in Nat, CharBits * n <= j, j < CharBits * (n + 1)
       PROVE  /\ Nth(j) \in Places(n + 1, full) /\ Nth(j) \in Nat
              /\ Nth(j) < ByteBits * (k + 1) <=> j < ByteBits * (k + 1)
  <2>1. CharBits * (n + 1) \in Nat /\ k + 1 \in Nat
    BY <1>1, <1>2, <1>3
  <2>2. Nth(j) \in Stretch(CharBits * n, CharBits * (n + 1))
    BY <1>3, <1>12, <2>1, StretchBits
  <2>3. Nth(j) \in Nat /\ (Nth(j) < ByteBits * (k + 1) <=> j < ByteBits * (k + 1))
    BY <2>1, NthBit
  <2>. QED
    BY <1>8, <2>2, <2>3
<1>13. ASSUME NEW p \in Places(n + 1, full)
       PROVE  \E j \in Nat : p = Nth(j) /\ CharBits * n <= j /\ j < CharBits * (n + 1)
  BY <1>1, <1>3, <1>8, StretchBits
<1>14. spill = {} <=> CharBits * (n + 1) <= ByteBits * (k + 1)
  <2>1. ASSUME CharBits * (n + 1) <= ByteBits * (k + 1), NEW p \in At(spill, k + 1) PROVE FALSE
    <3>1. p \in Places(n + 1, full) /\ ByteBits * (k + 1) <= p
      BY <1>7
    <3>2. PICK j \in Nat : p = Nth(j) /\ CharBits * n <= j /\ j < CharBits * (n + 1)
      BY <1>13, <3>1
    <3>3. p < ByteBits * (k + 1) /\ p \in Nat
      BY <1>1, <1>3, <1>12, <2>1, <3>2
    <3>. QED
      BY <1>1, <1>3, <3>1, <3>3
  <2>2. ASSUME ~(CharBits * (n + 1) <= ByteBits * (k + 1)), spill = {} PROVE FALSE
    <3>. DEFINE j == CharBits * (n + 1) - 1
    <3>1. j \in Nat /\ CharBits * n <= j /\ j < CharBits * (n + 1) /\ ~(j < ByteBits * (k + 1))
      BY <1>1, <1>3, <2>2
    <3>. HIDE DEF j
    <3>2. Nth(j) \in Places(n + 1, full) /\ ByteBits * (k + 1) <= Nth(j)
      BY <1>1, <1>3, <1>12, <3>1
    <3>. QED
      BY <1>7, <1>11, <2>2, <3>2
  <2>. QED
    BY <1>11, <2>1, <2>2
<1>15. CASE spill = {}
  <2>1. new.dst = (s.dst \ At(mask, k)) \cup At(Start(w, l), k) /\ new.k = k
        /\ new.cmask = mask \cup KeptMask(s, k)
    BY <1>5, <1>15
  <2>2. At(mask, k) = Stretch(CharBits * n, CharBits * (n + 1))
    <3>1. At(spill, k + 1) = {}
      BY <1>11, <1>15
    <3>. QED
      BY <1>7, <1>8, <3>1
  <2>3. At(Rest(w, l), k + 1) = {}
    <3>1. Places(n + 1, w) \subseteq Places(n + 1, full)
      BY <1>4 DEF Places, full, Ones
    <3>2. At(spill, k + 1) = {}
      BY <1>11, <1>15
    <3>. QED
      BY <1>6, <1>7, <3>1, <3>2
  <2>4. new.dst = TextBits(text, n + 1)
    BY <1>6, <1>8, <1>9, <1>10, <2>1, <2>2, <2>3
  <2>5. KeptMask(s, k) \in SUBSET (0 .. ByteBits - 1)
        /\ At(KeptMask(s, k), k) = Stretch(ByteBits * k, CharBits * n)
    <3>1. CASE n > 0 /\ s.k = k
      BY <3>1 DEF Stored, KeptMask
    <3>2. CASE ~(n > 0 /\ s.k = k)
      <4>1. KeptMask(s, k) = {}
        <5>1. n = 0 => s.k = -1
          BY DEF Stored
        <5>2. s.k # k
          BY <1>2, <3>2, <5>1
        <5>. QED
          BY <5>2 DEF KeptMask
      <4>2. CharBits * n = ByteBits * k
        <5>1. CASE n = 0
          BY <1>1, <1>2, <5>1
        <5>2. CASE n > 0
          <6>. DEFINE t == s.k
          <6>1. t \in Nat /\ ByteBits * t < CharBits * n /\ CharBits * n <= ByteBits * (t + 1) /\ t # k
            BY <3>2, <5>2 DEF Stored
          <6>. HIDE DEF t
          <6>2. CASE t < k
            <7>1. ByteBits * (t + 1) <= ByteBits * k
              BY <1>1, <1>2, <6>1, <6>2
            <7>2. ByteBits * (t + 1) \in Nat
              BY <1>1, <6>1
            <7>. QED
              BY <1>1, <1>2, <1>3, <6>1, <7>1, <7>2
          <6>3. CASE k < t
            <7>1. ByteBits * (k + 1) <= ByteBits * t /\ ByteBits * t \in Nat
              BY <1>1, <1>2, <6>1, <6>3
            <7>. QED
              BY <1>1, <1>2, <1>3, <6>1, <7>1
          <6>. QED
            BY <1>2, <6>1, <6>2, <6>3
        <5>. QED
          BY <5>1, <5>2
      <4>3. Stretch(ByteBits * k, CharBits * n) = {}
        BY <1>3, <4>2, StretchBits
      <4>. QED
        BY <4>1, <4>3 DEF At, Shift
    <3>. QED
      BY <3>1, <3>2
  <2>6. At(new.cmask, k) = Stretch(ByteBits * k, CharBits * (n + 1))
    <3>1. At(new.cmask, k) = At(mask, k) \cup At(KeptMask(s, k), k)
      BY <2>1 DEF At, Shift
    <3>2. Stretch(ByteBits * k, CharBits * (n + 1))
            = Stretch(ByteBits * k, CharBits * n) \cup Stretch(CharBits * n, CharBits * (n + 1))
      <4>1. ByteBits * k .. CharBits * (n + 1) - 1
              = (ByteBits * k .. CharBits * n - 1) \cup (CharBits * n .. CharBits * (n + 1) - 1)
        BY <1>1, <1>2, <1>3
      <4>. QED
        BY <4>1 DEF Stretch
    <3>. QED
      BY <2>2, <2>5, <3>1, <3>2
  <2>7. ByteBits * k < CharBits * (n + 1) /\ CharBits * (n + 1) <= ByteBits * (k + 1)
    BY <1>1, <1>2, <1>3, <1>14, <1>15
  <2>8. n + 1 > 0 /\ n + 1 # 0
    OBVIOUS
  <2>9. new.cmask \in SUBSET (0 .. ByteBits - 1)
    BY <1>7, <2>1, <2>5
  <2>. QED
    BY <1>2, <2>1, <2>4, <2>6, <2>7, <2>8, <2>9 DEF Stored, new, w, i
<1>16. CASE spill # {}
  <2>1. new.dst = (((s.dst \ At(mask, k)) \cup At(Start(w, l), k)) \ At(spill, k + 1))
                     \cup At(Rest(w, l), k + 1)
        /\ new.k = k + 1 /\ new.cmask = spill
    BY <1>5, <1>16
  <2>2. At(Start(w, l), k) \cap At(spill, k + 1) = {}
    <3>1. ASSUME NEW p \in At(Start(w, l), k), p \in At(spill, k + 1) PROVE FALSE
      <4>1. p < ByteBits * (k + 1) /\ ByteBits * (k + 1) <= p /\ p \in Places(n + 1, full)
        BY <1>6, <1>7, <3>1
      <4>2. p \in Nat
        BY <1>12, <1>13, <4>1
      <4>. QED
        BY <1>1, <1>3, <4>1, <4>2
    <3>. QED
      BY <3>1
  <2>3. new.dst = TextBits(text, n + 1)
    <3>1. At(mask, k) \subseteq Places(n + 1, full) /\ At(spill, k + 1) \subseteq Places(n + 1, full)
      BY <1>7
    <3>2. s.dst \ At(mask, k) = s.dst /\ s.dst \ At(spill, k + 1) = s.dst
      BY <1>9, <1>10, <3>1
    <3>3. At(Start(w, l), k) \ At(spill, k + 1) = At(Start(w, l), k)
      BY <2>2
    <3>4. new.dst = s.dst \cup At(Start(w, l), k) \cup At(Rest(w, l), k + 1)
      BY <2>1, <3>2, <3>3
    <3>. QED
      BY <1>6, <1>9, <1>10, <3>4
  <2>4. ~(CharBits * (n + 1) <= ByteBits * (k + 1))
    BY <1>14, <1>16
  <2>5. At(spill, k + 1) = Stretch(ByteBits * (k + 1), CharBits * (n + 1))
    <3>0. CharBits * n <= ByteBits * (k + 1) /\ ByteBits * (k + 1) \in Nat /\ CharBits * (n + 1) \in Nat
      BY <1>1, <1>2, <1>3
    <3>1. ASSUME NEW p \in At(spill, k + 1)
          PROVE  p \in Stretch(ByteBits * (k + 1), CharBits * (n + 1))
      <4>1. p \in Places(n + 1, full) /\ ByteBits * (k + 1) <= p
        BY <1>7
      <4>2. PICK j \in Nat : p = Nth(j) /\ CharBits * n <= j /\ j < CharBits * (n + 1)
        BY <1>13, <4>1
      <4>3. ByteBits * (k + 1) <= j
        BY <1>12, <3>0, <4>1, <4>2
      <4>. QED
        BY <3>0, <4>2, <4>3, StretchBits
    <3>2. ASSUME NEW p \in Stretch(ByteBits * (k + 1), CharBits * (n + 1))
          PROVE  p \in At(spill, k + 1)
      <4>1. PICK j \in Nat : p = Nth(j) /\ ByteBits * (k + 1) <= j /\ j < CharBits * (n + 1)
        BY <3>0, StretchBits
      <4>2. CharBits * n <= j
        BY <1>3, <3>0, <4>1
      <4>3. Nth(j) \in Places(n + 1, full) /\ Nth(j) \in Nat /\ ~(Nth(j) < ByteBits * (k + 1))
        BY <1>12, <3>0, <4>1, <4>2
      <4>. QED
        BY <1>7, <3>0, <4>1, <4>3
    <3>. QED
      BY <3>1, <3>2
  <2>6. /\ k + 1 \in Nat /\ ByteBits * (k + 1) < CharBits * (n + 1)
        /\ CharBits * (n + 1) <= ByteBits * (k + 1 + 1)
    <3>1. k + 1 + 1 = k + 2
      BY <1>2
    <3>. QED
      BY <1>1, <1>2, <1>3, <2>4, <3>1
  <2>7. n + 1 > 0 /\ n + 1 # 0
    OBVIOUS
  <2>8. new.cmask \in SUBSET (0 .. ByteBits - 1)
    BY <1>7, <2>1
  <2>. QED
    BY <2>1, <2>3, <2>5, <2>6, <2>7, <2>8 DEF Stored, new, w, i
<1>. QED
  BY <1>15, <1>16


\* The loop of base32_from is defined, digit after digit.
FromStart == [dst |-> {}, k |-> -1, cmask |-> {}]
FromRounds(text, k, g) ==
    g = [n \in 0 .. k |-> IF n = 0 THEN FromStart
                          ELSE StoreDigit(g[n - 1], text[n], (n - 1) * CharBits)]

LEMMA FromDefined ==
    ASSUME NEW text, NEW n \in Nat
    PROVE  \E g : FromRounds(text, n, g)
<1>. DEFINE G == {k \in 0 .. n : \E g : FromRounds(text, k, g)}
<1>1. 0 \in G
  <2>. DEFINE g == [i \in 0 .. 0 |-> FromStart]
  <2>1. g = [i \in 0 .. 0 |-> IF i = 0 THEN FromStart
                              ELSE StoreDigit(g[i - 1], text[i], (i - 1) * CharBits)]
    OBVIOUS
  <2>. HIDE DEF g
  <2>2. FromRounds(text, 0, g)
    BY ONLY <2>1 DEF FromRounds
  <2>. QED
    BY <2>2
<1>2. ASSUME NEW k \in Nat, k < n, k \in G PROVE k + 1 \in G
  <2>1. PICK g : FromRounds(text, k, g)
    BY <1>2
  <2>. DEFINE body(i) == IF i = 0 THEN FromStart
                         ELSE StoreDigit(g[i - 1], text[i], (i - 1) * CharBits)
  <2>. DEFINE h == [i \in 0 .. k + 1 |-> body(i)]
  <2>2. g = [i \in 0 .. k |-> body(i)]
    BY <2>1 DEF FromRounds
  <2>3. \A i \in 0 .. k : i \in 0 .. k + 1 /\ g[i] = body(i)
    BY <2>2
  <2>4. \A i \in 0 .. k : h[i] = g[i]
    BY <2>3
  <2>5. \A i \in 1 .. k + 1 : i - 1 \in 0 .. k
    OBVIOUS
  <2>6. \A i \in 0 .. k + 1 : i # 0 => i \in 1 .. k + 1
    OBVIOUS
  <2>. HIDE DEF h
  <2>7. \A i \in 0 .. k + 1 :
           body(i) = IF i = 0 THEN FromStart
                     ELSE StoreDigit(h[i - 1], text[i], (i - 1) * CharBits)
    BY <2>4, <2>5, <2>6
  <2>8. FromRounds(text, k + 1, h)
    BY <2>7 DEF FromRounds, h
  <2>. QED
    BY <1>2, <2>8
<1>. HIDE DEF G
<1>3. \A k \in 0 .. n : k \in G
  BY <1>1, <1>2, Upwards
<1>. QED
  BY <1>3 DEF G

LEMMA FromLenIs ==
    ASSUME NEW n \in Nat, NEW len \in Nat, CharBits * n <= ByteBits * len,
           ByteBits * len < CharBits * n + ByteBits
    PROVE  FromLen(n) = len
<1>1. ByteBits \in Nat \ {0} /\ n * CharBits = CharBits * n /\ CharBits * n \in Nat
      /\ ByteBits * len \in Nat
  BY FiltersAssumption
<1>. DEFINE r == CharBits * n + ByteBits - 1 - ByteBits * len
<1>. DEFINE x == n * CharBits + ByteBits - 1
<1>2. r \in 0 .. ByteBits - 1 /\ x = ByteBits * len + r
  BY <1>1
<1>. HIDE DEF r, x
<1>3. x \div ByteBits = len
  BY ONLY <1>1, <1>2, len \in Nat, Divided
<1>. QED
  BY <1>3 DEF FromLen, x

\* What base32_from makes of a text: all its bits and no others, the mask of
\* the last byte, and the number of bytes.
LEMMA Base32From ==
    ASSUME NEW text \in Seq(Digits), text # <<>>
    PROVE  LET n == Len(text)
               r == base32_from(text, {})
           IN  /\ r.dst = TextBits(text, n)
               /\ r.len \in Nat \ {0} /\ r.len = FromLen(n)
               /\ CharBits * n <= ByteBits * r.len
               /\ ByteBits * (r.len - 1) < CharBits * n
               /\ r.mask \in SUBSET (0 .. ByteBits - 1)
               /\ At(r.mask, r.len - 1) = Stretch(ByteBits * (r.len - 1), CharBits * n)
<1>. DEFINE n == Len(text)
<1>. DEFINE after == CHOOSE g : FromRounds(text, n, g)
<1>. DEFINE end == after[n]
<1>1. n \in Nat /\ n > 0 /\ \A i \in 1 .. n : text[i] \in Digits
  BY DEF Digits
<1>2. FromRounds(text, n, after)
  <2>1. \E g : FromRounds(text, n, g)
    BY <1>1, FromDefined
  <2>. QED
    BY <2>1
<1>3. base32_from(text, {}) =
        [dst |-> end.dst \ At(Ones(ByteBits) \ end.cmask, end.k), mask |-> end.cmask,
         len |-> end.k + 1]
  BY DEF base32_from, FromRounds, FromStart
<1>. HIDE DEF after, n
<1>4. /\ after[0] = FromStart
      /\ \A i \in Nat : i < n => after[i + 1] = StoreDigit(after[i], text[i + 1], i * CharBits)
  <2>1. \A i \in Nat : i < n => i + 1 \in 0 .. n /\ i + 1 # 0 /\ i + 1 - 1 = i
    BY <1>1
  <2>2. 0 \in 0 .. n
    BY <1>1
  <2>3. after = [i \in 0 .. n |-> IF i = 0 THEN FromStart
                                  ELSE StoreDigit(after[i - 1], text[i], (i - 1) * CharBits)]
    BY <1>2 DEF FromRounds
  <2>4. \A i \in 0 .. n : after[i] = IF i = 0 THEN FromStart
                                     ELSE StoreDigit(after[i - 1], text[i], (i - 1) * CharBits)
    BY <2>3
  <2>. QED
    BY <2>1, <2>2, <2>4
<1>. DEFINE G == {i \in 0 .. n : Stored(after[i], text, i)}
<1>5. 0 \in G
  <2>1. TextBits(text, 0) = {}
    BY DEF TextBits
  <2>2. 0 \in 0 .. n
    BY <1>1
  <2>3. Stored(FromStart, text, 0)
    BY <2>1 DEF Stored, FromStart
  <2>. QED
    BY <1>4, <2>2, <2>3
<1>6. ASSUME NEW i \in Nat, i < n, i \in G PROVE i + 1 \in G
  <2>1. \A j \in 1 .. i + 1 : text[j] \in Digits
    <3>1. \A j \in 1 .. i + 1 : j \in 1 .. n
      BY <1>1, <1>6
    <3>. QED
      BY <1>1, <3>1
  <2>2. Stored(after[i], text, i)
    BY <1>6
  <2>. DEFINE s == after[i]
  <2>. HIDE DEF s
  <2>3. Stored(StoreDigit(s, text[i + 1], i * CharBits), text, i + 1)
    BY <2>1, <2>2, StoreDigitKeeps DEF s
  <2>4. i + 1 \in 0 .. n
    BY <1>1, <1>6
  <2>. QED
    BY <1>4, <1>6, <2>3, <2>4 DEF s
<1>7. n \in G
  <2>. HIDE DEF G
  <2>1. \A i \in 0 .. n : i \in G
    BY <1>1, <1>5, <1>6, Upwards
  <2>. QED
    BY <1>1, <2>1
<1>8. /\ end.dst = TextBits(text, n) /\ end.cmask \in SUBSET (0 .. ByteBits - 1) /\ end.k \in Nat
      /\ ByteBits * end.k < CharBits * n /\ CharBits * n <= ByteBits * (end.k + 1)
      /\ At(end.cmask, end.k) = Stretch(ByteBits * end.k, CharBits * n)
  BY <1>1, <1>7 DEF Stored
<1>. DEFINE dst == end.dst
<1>. DEFINE mask == end.cmask
<1>. DEFINE k == end.k
<1>. HIDE DEF end
<1>9. ByteBits \in Nat \ {0} /\ ByteBits * k \in Nat /\ ByteBits * (k + 1) = ByteBits * k + ByteBits
      /\ CharBits * n \in Nat /\ k * ByteBits = ByteBits * k
  BY <1>1, <1>8, FiltersAssumption
<1>10. ASSUME NEW p \in dst, p \in At(Ones(ByteBits) \ mask, k) PROVE FALSE
  <2>1. PICK q \in Ones(ByteBits) \ mask : p = q + k * ByteBits
    BY <1>10 DEF At, Shift
  <2>2. dst \subseteq First(CharBits * n)
    <3>1. n - 1 \in Nat /\ n - 1 + 1 = n
      BY <1>1
    <3>2. TextBits(text, n) = TextBits(text, n - 1) \cup Places(n, text[n])
          /\ TextBits(text, n - 1) \subseteq First(CharBits * (n - 1))
      BY <1>1, <3>1, TextBitsNext
    <3>3. Places(n, text[n]) \subseteq Stretch(CharBits * (n - 1), CharBits * n)
      <4>1. Places(n, Ones(CharBits)) = Stretch(CharBits * (n - 1), CharBits * n)
        BY <3>1, PlacesStretch
      <4>2. text[n] \subseteq Ones(CharBits)
        BY <1>1 DEF Digits, Ones
      <4>. QED
        BY <4>1, <4>2 DEF Places
    <3>4. CharBits * (n - 1) \in Nat /\ CharBits * (n - 1) <= CharBits * n
      <4>1. CharBits \in Nat \ {0}
        BY FiltersAssumption
      <4>. QED
        BY <1>1, <4>1
    <3>5. First(CharBits * (n - 1)) \subseteq First(CharBits * n)
          /\ Stretch(CharBits * (n - 1), CharBits * n) \subseteq First(CharBits * n)
      <4>1. 0 .. CharBits * (n - 1) - 1 \subseteq 0 .. CharBits * n - 1
            /\ CharBits * (n - 1) .. CharBits * n - 1 \subseteq 0 .. CharBits * n - 1
        BY <1>9, <3>4
      <4>. QED
        BY <4>1 DEF First, Stretch
    <3>. QED
      BY <1>8, <3>2, <3>3, <3>5
  <2>3. PICK j \in 0 .. CharBits * n - 1 : p = Nth(j)
    BY <1>10, <2>2 DEF First
  <2>4. j \in Nat /\ j < CharBits * n
    BY <1>9
  <2>5. q \in Nat /\ q < ByteBits /\ q \notin mask
    BY <1>9, <2>1 DEF Ones
  <2>6. p \in Nat /\ ~(p < ByteBits * k)
    BY <1>9, <2>1, <2>5
  <2>7. ByteBits * k <= j
    <3>1. k \in Nat
      BY <1>8
    <3>2. Nth(j) < ByteBits * k <=> j < ByteBits * k
      BY <2>4, <3>1, NthBit
    <3>. QED
      BY <1>9, <2>3, <2>4, <2>6, <3>2
  <2>8. p \in At(mask, k)
    <3>1. p \in Stretch(ByteBits * k, CharBits * n)
      BY <1>9, <2>3, <2>4, <2>7, StretchBits
    <3>. QED
      BY <1>8, <3>1
  <2>9. PICK o \in mask : p = o + k * ByteBits
    BY <2>8 DEF At, Shift
  <2>10. o = q
    <3>1. o \in Nat
      BY <1>8, <1>9
    <3>. QED
      BY <1>9, <2>1, <2>5, <2>9, <3>1
  <2>. QED
    BY <2>5, <2>9, <2>10
<1>11. FromLen(n) = k + 1
  <2>1. k + 1 \in Nat /\ CharBits * n <= ByteBits * (k + 1) /\ ByteBits * (k + 1) < CharBits * n + ByteBits
    BY <1>8, <1>9
  <2>. QED
    BY <1>1, <2>1, FromLenIs
<1>12. base32_from(text, {}) = [dst |-> dst, mask |-> mask, len |-> k + 1]
  <2>1. dst \ At(Ones(ByteBits) \ mask, k) = dst
    BY <1>10
  <2>. QED
    BY <1>3, <2>1
<1>13. k + 1 - 1 = k /\ k + 1 \in Nat \ {0}
  BY <1>8
<1>. QED
  BY <1>8, <1>11, <1>12, <1>13 DEF n

-----------------------------------------------------------------------------

LEMMA ByteOf ==
    ASSUME NEW bytes \in SUBSET Nat, NEW j \in Nat, NEW q \in Int
    PROVE  q \in Byte(bytes, j) <=> 0 <= q /\ q < ByteBits /\ q + j * ByteBits \in bytes
<1>1. j * ByteBits \in Nat /\ (j + 1) * ByteBits = j * ByteBits + ByteBits /\ ByteBits \in Nat
  BY FiltersAssumption
<1>. DEFINE B == {b \in bytes : j * ByteBits <= b /\ b < (j + 1) * ByteBits}
<1>2. Byte(bytes, j) = {b + (-(j * ByteBits)) : b \in B}
  BY DEF Byte, Shift, Bits
<1>3. ASSUME q \in Byte(bytes, j) PROVE 0 <= q /\ q < ByteBits /\ q + j * ByteBits \in bytes
  <2>1. PICK b \in B : q = b + (-(j * ByteBits))
    BY <1>2, <1>3
  <2>2. q + j * ByteBits = b /\ b \in Nat
    BY <1>1, <2>1
  <2>. QED
    BY <1>1, <2>1, <2>2
<1>4. ASSUME 0 <= q, q < ByteBits, q + j * ByteBits \in bytes PROVE q \in Byte(bytes, j)
  <2>. DEFINE b == q + j * ByteBits
  <2>1. b \in B /\ q = b + (-(j * ByteBits))
    BY <1>1, <1>4
  <2>. QED
    BY <1>2, <2>1
<1>. QED
  BY <1>3, <1>4

\* The digits of base32_to are the bits of the stream, and 0 behind its end.
LEMMA Base32To ==
    ASSUME NEW slen \in Nat, NEW src \in SUBSET Ones(ByteBits * slen), NEW n \in 1 .. ToLen(slen)
    PROVE  base32_to(src, slen)[n] = {b \in 0 .. CharBits - 1 : Nth(DigitPos(n, b)) \in src}
<1>1. ByteBits \in Nat \ {0} /\ CharBits \in Nat \ {0} /\ ByteBits * slen \in Nat
      /\ slen * ByteBits = ByteBits * slen
  BY FiltersAssumption
<1>2. src \in SUBSET Nat
  BY <1>1 DEF Ones
<1>. DEFINE m == n - 1
<1>. DEFINE i == m * CharBits
<1>. DEFINE k == i \div ByteBits
<1>. DEFINE l == i % ByteBits
<1>. DEFINE behind == IF k + 1 < slen THEN Byte(src, k + 1) ELSE {}
<1>3. n \in Int /\ m \in Nat /\ m + 1 = n
  <2>1. ToLen(slen) \in Int
    BY <1>1 DEF ToLen
  <2>. QED
    BY <2>1
<1>4. /\ i \in Nat /\ i = CharBits * m /\ k \in Nat /\ l \in 0 .. ByteBits - 1
      /\ CharBits * m = ByteBits * k + l
  <2>. HIDE DEF m
  <2>1. i \in Nat /\ i = CharBits * m
    BY <1>1, <1>3
  <2>. HIDE DEF i
  <2>2. k \in Nat /\ l \in 0 .. ByteBits - 1 /\ i = ByteBits * k + l
    <3>1. ByteBits \in Nat \ {0} /\ i \in Nat
      BY <1>1, <2>1
    <3>. QED
      BY ONLY <3>1
  <2>. QED
    BY <2>1, <2>2
<1>5. base32_to(src, slen)[n] =
        {b \in Shift(Byte(src, k), l + CharBits - ByteBits)
                 \cup Shift(behind, l + CharBits - 2 * ByteBits) : 0 <= b /\ b < CharBits}
  BY DEF base32_to, Bits
<1>. HIDE DEF m, i, k, l
<1>6. ASSUME NEW q \in Int PROVE q \in behind <=> 0 <= q /\ q < ByteBits /\ q + (k + 1) * ByteBits \in src
  <2>1. k + 1 \in Nat
    BY <1>4
  <2>2. CASE k + 1 < slen
    BY <1>2, <2>1, <2>2, ByteOf
  <2>3. CASE ~(k + 1 < slen)
    <3>1. slen * ByteBits <= (k + 1) * ByteBits /\ (k + 1) * ByteBits \in Nat
      BY <1>1, <2>1, <2>3
    <3>2. 0 <= q /\ q + (k + 1) * ByteBits \in src => FALSE
      BY <1>1, <3>1 DEF Ones
    <3>. QED
      BY <2>3, <3>2
  <2>. QED
    BY <2>2, <2>3
<1>7. \A q \in Int : q \in Byte(src, k) <=> 0 <= q /\ q < ByteBits /\ q + k * ByteBits \in src
  BY <1>2, <1>4, ByteOf
<1>8. behind \subseteq Int /\ Byte(src, k) \subseteq Int
  <2>1. \A j \in Nat : Byte(src, j) \subseteq Int
    <3>1. \A j \in Nat : j * ByteBits \in Int
      BY <1>1
    <3>. QED
      BY <1>2, <3>1 DEF Byte, Shift, Bits
  <2>2. k \in Nat /\ k + 1 \in Nat
    BY <1>4
  <2>. QED
    BY <2>1, <2>2
<1>. HIDE DEF behind
<1>9. ASSUME NEW b \in 0 .. CharBits - 1
      PROVE  b \in base32_to(src, slen)[n] <=> Nth(DigitPos(n, b)) \in src
  <2>. DEFINE h == b + (ByteBits - CharBits - l)
  <2>. DEFINE r == b + (2 * ByteBits - CharBits - l)
  <2>. DEFINE p == Nth(DigitPos(m + 1, b))
  <2>1. /\ h \in Int /\ r \in Int
        /\ h >= 0 => /\ h < ByteBits /\ p = h + k * ByteBits /\ ~(r < ByteBits)
        /\ h < 0 => /\ 0 <= r /\ r < ByteBits /\ p = r + (k + 1) * ByteBits
    BY <1>3, <1>4, DigitBit
  <2>2. b \in base32_to(src, slen)[n] <=> h \in Byte(src, k) \/ r \in behind
    <3>1. b \in Int /\ 0 <= b /\ b < CharBits
      BY <1>1
    <3>2. b \in Shift(Byte(src, k), l + CharBits - ByteBits) <=> h \in Byte(src, k)
      <4>1. \A q \in Int : b = q + (l + CharBits - ByteBits) <=> q = h
        BY <1>1, <1>4, <3>1
      <4>. QED
        BY <1>8, <2>1, <4>1 DEF Shift
    <3>3. b \in Shift(behind, l + CharBits - 2 * ByteBits) <=> r \in behind
      <4>1. \A q \in Int : b = q + (l + CharBits - 2 * ByteBits) <=> q = r
        BY <1>1, <1>4, <3>1
      <4>. QED
        BY <1>8, <2>1, <4>1 DEF Shift
    <3>. QED
      BY <1>5, <3>1, <3>2, <3>3
  <2>3. CASE h >= 0
    BY <1>6, <1>7, <2>1, <2>2, <2>3, <1>3
  <2>4. CASE h < 0
    BY <1>6, <1>7, <2>1, <2>2, <2>4, <1>3
  <2>. QED
    BY <2>1, <2>3, <2>4
<1>10. \A b \in base32_to(src, slen)[n] : b \in 0 .. CharBits - 1
  <2>1. \A b \in Shift(Byte(src, k), l + CharBits - ByteBits)
                 \cup Shift(behind, l + CharBits - 2 * ByteBits) : b \in Int
    <3>1. l + CharBits - ByteBits \in Int /\ l + CharBits - 2 * ByteBits \in Int
      BY <1>1, <1>4
    <3>. QED
      BY <1>8, <3>1 DEF Shift
  <2>. QED
    BY <1>1, <1>5, <2>1
<1>. QED
  BY <1>9, <1>10


LEMMA TextBit ==
    ASSUME NEW text, NEW n \in Nat, \A i \in 1 .. n : text[i] \in Digits
    PROVE  /\ \A i \in 1 .. n, b \in 0 .. CharBits - 1 :
                 Nth(DigitPos(i, b)) \in TextBits(text, n) <=> b \in text[i]
           /\ \A p \in TextBits(text, n) :
                 \E i \in 1 .. n, b \in 0 .. CharBits - 1 : p = Nth(DigitPos(i, b)) /\ b \in text[i]
           /\ TextBits(text, n) \subseteq First(CharBits * n)
<1>0. \A i \in 1 .. n : i \in Nat \ {0} /\ i <= n
  OBVIOUS
<1>1. ASSUME NEW p \in TextBits(text, n)
      PROVE  \E i \in 1 .. n, b \in 0 .. CharBits - 1 : p = Nth(DigitPos(i, b)) /\ b \in text[i]
  <2>1. PICK i \in 1 .. n : \E b \in text[i] : p = Nth(DigitPos(i, b))
    BY DEF TextBits, Places
  <2>2. PICK b \in text[i] : p = Nth(DigitPos(i, b))
    BY <2>1
  <2>3. b \in 0 .. CharBits - 1
    BY DEF Digits
  <2>. QED
    BY <2>2, <2>3
<1>2. ASSUME NEW i \in 1 .. n, NEW b \in 0 .. CharBits - 1, Nth(DigitPos(i, b)) \in TextBits(text, n)
      PROVE  b \in text[i]
  <2>1. PICK j \in 1 .. n, d \in 0 .. CharBits - 1 : Nth(DigitPos(i, b)) = Nth(DigitPos(j, d)) /\ d \in text[j]
    BY <1>1, <1>2
  <2>2. DigitPos(i, b) = DigitPos(j, d)
    BY <1>0, <2>1, NthOnce, PosOfDigit
  <2>3. i = j /\ b = d
    BY <1>0, <2>2, PosOfDigit
  <2>. QED
    BY <2>1, <2>3
<1>3. ASSUME NEW i \in 1 .. n, NEW b \in 0 .. CharBits - 1, b \in text[i]
      PROVE  Nth(DigitPos(i, b)) \in TextBits(text, n)
  BY <1>3 DEF TextBits, Places
<1>4. ASSUME NEW p \in TextBits(text, n) PROVE p \in First(CharBits * n)
  <2>1. PICK i \in 1 .. n, b \in 0 .. CharBits - 1 : p = Nth(DigitPos(i, b))
    BY <1>1
  <2>2. DigitPos(i, b) \in Nat /\ DigitPos(i, b) < CharBits * n /\ CharBits * n \in Nat
    <3>1. CharBits * n \in Nat
      BY FiltersAssumption
    <3>. QED
      BY <1>0, <3>1, PosOfDigit
  <2>. QED
    BY <2>1, <2>2, FirstBits
<1>. QED
  BY <1>1, <1>2, <1>3, <1>4

LEMMA ToLenIs ==
    ASSUME NEW slen \in Nat
    PROVE  /\ ToLen(slen) \in Nat
           /\ ByteBits * slen <= CharBits * ToLen(slen)
           /\ \A n \in Nat : CharBits * n <= ByteBits * slen => n <= ToLen(slen)
<1>1. ByteBits \in Nat \ {0} /\ CharBits \in Nat \ {0} /\ slen * ByteBits = ByteBits * slen
      /\ ByteBits * slen \in Nat
  BY FiltersAssumption
<1>. DEFINE x == slen * ByteBits + CharBits - 1
<1>. DEFINE q == x \div CharBits
<1>. DEFINE r == x % CharBits
<1>2. q \in Nat /\ r \in 0 .. CharBits - 1 /\ x = CharBits * q + r
  <2>1. x \in Nat /\ CharBits \in Nat \ {0}
    BY <1>1
  <2>. HIDE DEF x
  <2>. QED
    BY ONLY <2>1
<1>3. ToLen(slen) = q /\ x = ByteBits * slen + CharBits - 1
  BY <1>1 DEF ToLen
<1>. HIDE DEF x, q, r
<1>4. ByteBits * slen <= CharBits * q /\ CharBits * q \in Nat
  BY <1>1, <1>2, <1>3
<1>5. ASSUME NEW n \in Nat, CharBits * n <= ByteBits * slen PROVE n <= q
  <2>1. q < n => CharBits * q + CharBits <= CharBits * n
    <3>1. q < n => CharBits * (q + 1) <= CharBits * n
      BY <1>1, <1>2
    <3>2. CharBits * (q + 1) = CharBits * q + CharBits
      BY <1>1, <1>2
    <3>. QED
      BY <3>1, <3>2
  <2>2. CharBits * n \in Nat
    BY <1>1
  <2>. QED
    BY <1>1, <1>2, <1>3, <1>4, <1>5, <2>1, <2>2
<1>. QED
  BY <1>2, <1>3, <1>4, <1>5

LEMMA Base32Text ==
    ASSUME NEW slen \in Nat, NEW src \in SUBSET Ones(ByteBits * slen)
    PROVE  base32_to(src, slen) \in Seq(Digits) /\ Len(base32_to(src, slen)) = ToLen(slen)
<1>. DEFINE text == base32_to(src, slen)
<1>1. ToLen(slen) \in Nat
  BY ToLenIs
<1>2. \A n \in 1 .. ToLen(slen) : text[n] \in Digits
  BY Base32To DEF Digits
<1>3. DOMAIN text = 1 .. ToLen(slen) /\ text = [n \in 1 .. ToLen(slen) |-> text[n]]
  BY DEF base32_to
<1>. HIDE DEF text
<1>4. text \in [1 .. ToLen(slen) -> Digits]
  BY <1>2, <1>3
<1>. QED
  BY <1>1, <1>4 DEF text

\* A byte string begins with a text if it has the text's bits where the text
\* has any.
LEMMA TextMatch ==
    ASSUME NEW slen \in Nat, NEW src \in SUBSET Ones(ByteBits * slen),
           NEW text \in Seq(Digits), CharBits * Len(text) <= ByteBits * slen
    PROVE  src \cap First(CharBits * Len(text)) = TextBits(text, Len(text))
             <=> IsPrefix(text, base32_to(src, slen))
<1>. DEFINE n == Len(text)
<1>. DEFINE name == base32_to(src, slen)
<1>1. /\ n \in Nat /\ (\A i \in 1 .. n : text[i] \in Digits) /\ CharBits * n \in Nat
      /\ \A i \in 1 .. n : i \in Nat \ {0} /\ i <= n
  BY FiltersAssumption
<1>2. name \in Seq(Digits) /\ Len(name) = ToLen(slen) /\ n <= ToLen(slen)
  BY <1>1, Base32Text, ToLenIs
<1>3. \A i \in 1 .. n : name[i] = {b \in 0 .. CharBits - 1 : Nth(DigitPos(i, b)) \in src}
  <2>1. \A i \in 1 .. n : i \in 1 .. ToLen(slen)
    BY <1>1, <1>2
  <2>. QED
    BY <2>1, Base32To
<1>4. IsPrefix(text, name) <=> \A i \in 1 .. n : text[i] = name[i]
  <2>. HIDE DEF name
  <2>1. SubSeq(text, 1, n) = [i \in 1 .. n |-> text[i]] /\ SubSeq(name, 1, n) = [i \in 1 .. n |-> name[i]]
    BY <1>1, <1>2
  <2>. QED
    BY <1>1, <1>2, <2>1 DEF IsPrefix
<1>5. /\ \A i \in 1 .. n, b \in 0 .. CharBits - 1 :
            Nth(DigitPos(i, b)) \in TextBits(text, n) <=> b \in text[i]
      /\ \A p \in TextBits(text, n) :
            \E i \in 1 .. n, b \in 0 .. CharBits - 1 : p = Nth(DigitPos(i, b)) /\ b \in text[i]
      /\ TextBits(text, n) \subseteq First(CharBits * n)
  BY <1>1, TextBit
<1>6. \A i \in 1 .. n, b \in 0 .. CharBits - 1 : Nth(DigitPos(i, b)) \in First(CharBits * n)
  <2>. TAKE i \in 1 .. n, b \in 0 .. CharBits - 1
  <2>1. DigitPos(i, b) \in Nat /\ DigitPos(i, b) < CharBits * n
    BY <1>1, PosOfDigit
  <2>. QED
    BY <1>1, <2>1, FirstBits
<1>7. ASSUME NEW p \in First(CharBits * n)
      PROVE  \E i \in 1 .. n, b \in 0 .. CharBits - 1 : p = Nth(DigitPos(i, b))
  <2>1. PICK j \in 0 .. CharBits * n - 1 : p = Nth(j)
    BY DEF First
  <2>2. j \in Nat /\ j < CharBits * n
    BY <1>1
  <2>3. PICK i \in Nat \ {0}, b \in 0 .. CharBits - 1 : j = DigitPos(i, b)
    BY <2>2, PosOnto
  <2>4. i <= n
    BY <1>1, <2>2, <2>3, PosOfDigit
  <2>5. i \in 1 .. n
    BY <1>1, <2>4
  <2>. QED
    BY <2>1, <2>3, <2>5
<1>. HIDE DEF n, name
<1>8. ASSUME src \cap First(CharBits * n) = TextBits(text, n), NEW i \in 1 .. n
      PROVE  text[i] = name[i]
  <2>1. \A b \in 0 .. CharBits - 1 : b \in text[i] <=> b \in name[i]
    BY <1>3, <1>5, <1>6, <1>8
  <2>2. text[i] \subseteq 0 .. CharBits - 1 /\ name[i] \subseteq 0 .. CharBits - 1
    BY <1>1, <1>3 DEF Digits
  <2>. QED
    BY <2>1, <2>2
<1>9. ASSUME \A i \in 1 .. n : text[i] = name[i]
      PROVE  src \cap First(CharBits * n) = TextBits(text, n)
  <2>1. ASSUME NEW p \in First(CharBits * n) PROVE p \in src <=> p \in TextBits(text, n)
    <3>1. PICK i \in 1 .. n, b \in 0 .. CharBits - 1 : p = Nth(DigitPos(i, b))
      BY <1>7
    <3>2. text[i] = name[i]
      BY <1>9
    <3>. QED
      BY <1>3, <1>5, <3>1, <3>2
  <2>. QED
    BY <1>5, <2>1
<1>. QED
  BY <1>4, <1>8, <1>9 DEF n, name

\* The bits that the bytes and the mask of base32_from mean.
LEMMA TextRead ==
    ASSUME NEW text \in Seq(Digits), text # <<>>
    PROVE  LET n == Len(text)
               r == base32_from(text, {})
           IN  /\ r.len \in Nat \ {0} /\ r.len = FromLen(n)
               /\ CharBits * n <= ByteBits * r.len
               /\ Ones((r.len - 1) * ByteBits) \cup At(r.mask, r.len - 1) = First(CharBits * n)
               /\ r.dst = TextBits(text, n) /\ r.dst \subseteq First(CharBits * n)
               /\ First(CharBits * n) \subseteq Ones(ByteBits * r.len)
               /\ Ones((r.len - 1) * ByteBits) \subseteq First(CharBits * n)
<1>. DEFINE n == Len(text)
<1>. DEFINE r == base32_from(text, {})
<1>1. n \in Nat /\ (\A i \in 1 .. n : text[i] \in Digits)
  OBVIOUS
<1>2. /\ r.dst = TextBits(text, n) /\ r.len \in Nat \ {0} /\ r.len = FromLen(n)
      /\ CharBits * n <= ByteBits * r.len /\ ByteBits * (r.len - 1) < CharBits * n
      /\ At(r.mask, r.len - 1) = Stretch(ByteBits * (r.len - 1), CharBits * n)
  BY Base32From
<1>. HIDE DEF n, r
<1>. DEFINE k == r.len - 1
<1>3. k \in Nat /\ r.len = k + 1 /\ r.len \in Nat
  BY <1>2
<1>4. ByteBits * k \in Nat /\ CharBits * n \in Nat /\ k * ByteBits = ByteBits * k
  <2>1. ByteBits \in Nat /\ CharBits \in Nat
    BY FiltersAssumption
  <2>. HIDE DEF k
  <2>. QED
    BY ONLY <1>1, <1>3, <2>1
<1>5. Ones(k * ByteBits) = First(ByteBits * k)
  BY <1>3, <1>4, FirstBits
<1>6. First(CharBits * n) = First(ByteBits * k) \cup Stretch(ByteBits * k, CharBits * n)
  <2>1. 0 .. CharBits * n - 1 = (0 .. ByteBits * k - 1) \cup (ByteBits * k .. CharBits * n - 1)
    BY <1>2, <1>4
  <2>. QED
    BY <2>1 DEF First, Stretch
<1>7. First(CharBits * n) \subseteq Ones(ByteBits * r.len)
  BY <1>2, <1>3, <1>4, FirstBits
<1>8. TextBits(text, n) \subseteq First(CharBits * n)
  BY <1>1, TextBit
<1>. QED
  BY <1>2, <1>5, <1>6, <1>7, <1>8 DEF n, r

\* base32_from and base32_to are inverse to each other: the digits of a text are
\* those its bytes begin with, whose bits are those the mask leaves, and bytes
\* come back from the text that was made of them (base32_from.c:47-83,
\* base32_to.c:19-70).
THEOREM Base32Inverse ==
    /\ \A text \in Seq(Digits) : text # <<>> =>
          LET r == base32_from(text, {})
          IN  /\ r.len = FromLen(Len(text))
              /\ IsPrefix(text, base32_to(r.dst, r.len))
              /\ r.dst \subseteq Ones((r.len - 1) * ByteBits) \cup At(r.mask, r.len - 1)
    /\ \A slen \in Nat \ {0} : \A bytes \in SUBSET Ones(ByteBits * slen) :
          LET text == base32_to(bytes, slen)
          IN  text \in Seq(Digits) /\ base32_from(text, {}).dst = bytes
<1>1. ASSUME NEW text \in Seq(Digits), text # <<>>
      PROVE  LET r == base32_from(text, {})
             IN  /\ r.len = FromLen(Len(text))
                 /\ IsPrefix(text, base32_to(r.dst, r.len))
                 /\ r.dst \subseteq Ones((r.len - 1) * ByteBits) \cup At(r.mask, r.len - 1)
  <2>. DEFINE n == Len(text)
  <2>. DEFINE r == base32_from(text, {})
  <2>1. /\ r.len \in Nat \ {0} /\ r.len = FromLen(n)
        /\ CharBits * n <= ByteBits * r.len
        /\ Ones((r.len - 1) * ByteBits) \cup At(r.mask, r.len - 1) = First(CharBits * n)
        /\ r.dst = TextBits(text, n) /\ r.dst \subseteq First(CharBits * n)
        /\ First(CharBits * n) \subseteq Ones(ByteBits * r.len)
    BY <1>1, TextRead
  <2>. HIDE DEF r
  <2>2. r.dst \in SUBSET Ones(ByteBits * r.len) /\ r.len \in Nat
    BY <2>1
  <2>3. r.dst \cap First(CharBits * n) = TextBits(text, n)
    BY <2>1
  <2>4. IsPrefix(text, base32_to(r.dst, r.len))
    BY <2>1, <2>2, <2>3, TextMatch
  <2>. QED
    BY <2>1, <2>4 DEF r
<1>2. ASSUME NEW slen \in Nat \ {0}, NEW bytes \in SUBSET Ones(ByteBits * slen)
      PROVE  LET text == base32_to(bytes, slen)
             IN  text \in Seq(Digits) /\ base32_from(text, {}).dst = bytes
  <2>. DEFINE text == base32_to(bytes, slen)
  <2>. DEFINE n == ToLen(slen)
  <2>0. ByteBits \in Nat \ {0} /\ CharBits \in Nat \ {0} /\ ByteBits * slen \in Nat /\ ByteBits * slen > 0
    BY FiltersAssumption
  <2>1. text \in Seq(Digits) /\ Len(text) = n
    BY Base32Text
  <2>2. n \in Nat /\ ByteBits * slen <= CharBits * n
    BY ToLenIs
  <2>3. n # 0
    <3>1. CharBits * 0 = 0
      BY <2>0
    <3>. QED
      BY <2>0, <2>2, <3>1
  <2>4. \A i \in 1 .. n : text[i] = {b \in 0 .. CharBits - 1 : Nth(DigitPos(i, b)) \in bytes}
    BY Base32To
  <2>. HIDE DEF text, n
  <2>5. text # <<>>
    BY <2>1, <2>3
  <2>6. base32_from(text, {}).dst = TextBits(text, n)
    BY <2>1, <2>5, TextRead
  <2>7. \A i \in 1 .. n : text[i] \in Digits /\ i \in Nat \ {0}
    BY <2>1
  <2>8. ASSUME NEW p \in TextBits(text, n) PROVE p \in bytes
    <3>1. PICK i \in 1 .. n, b \in 0 .. CharBits - 1 : p = Nth(DigitPos(i, b)) /\ b \in text[i]
      BY <2>2, <2>7, TextBit
    <3>. QED
      BY <2>4, <3>1
  <2>9. ASSUME NEW p \in bytes PROVE p \in TextBits(text, n)
    <3>1. PICK j \in Nat : p = Nth(j) /\ j < ByteBits * slen
      <4>1. p \in First(ByteBits * slen)
        BY FirstBits
      <4>2. PICK j \in 0 .. ByteBits * slen - 1 : p = Nth(j)
        BY <4>1 DEF First
      <4>. QED
        BY <2>0, <4>2
    <3>2. PICK i \in Nat \ {0}, b \in 0 .. CharBits - 1 : j = DigitPos(i, b)
      BY PosOnto
    <3>3. i <= n
      <4>1. j < CharBits * n
        <5>1. CharBits * n \in Nat
          BY <2>0, <2>2
        <5>. QED
          BY <2>0, <2>2, <3>1, <5>1
      <4>. QED
        BY <2>2, <3>2, <4>1, PosOfDigit
    <3>4. i \in 1 .. n
      BY <2>2, <3>3
    <3>5. b \in text[i]
      BY <2>4, <3>1, <3>2, <3>4
    <3>. QED
      BY <2>2, <2>7, <3>1, <3>2, <3>4, <3>5, TextBit
  <2>. QED
    BY <2>1, <2>6, <2>8, <2>9 DEF text
<1>. QED
  BY <1>1, <1>2

-----------------------------------------------------------------------------
(* Each way to continue a filter *)

LEMMA MinMax ==
    ASSUME NEW S \in SUBSET Nat, NEW x \in S
    PROVE  /\ (\A y \in S : x <= y) => Min(S) = x
           /\ (\A y \in S : y <= x) => Max(S) = x
<1>1. ASSUME \A y \in S : x <= y PROVE Min(S) = x
  <2>1. \A z \in S : (\A y \in S : z <= y) => z = x
    BY <1>1
  <2>. QED
    BY <1>1, <2>1 DEF Min
<1>2. ASSUME \A y \in S : y <= x PROVE Max(S) = x
  <2>1. \A z \in S : (\A y \in S : z >= y) => z = x
    BY <1>2
  <2>2. \A y \in S : x >= y
    BY <1>2
  <2>. QED
    BY <2>1, <2>2 DEF Max
<1>. QED
  BY <1>1, <1>2

\* The lowest bit that is not there is set and those below are cleared; after
\* all bits none is left.
LEMMA NextSubsetIs ==
    ASSUME NEW N \in Nat, NEW nb \in SUBSET (0 .. N), nb # {}, NEW y \in SUBSET nb
    PROVE  /\ NextSubset(y, nb) \in SUBSET nb
           /\ y # nb => \E c \in nb \ y : /\ \A q \in nb \ y : c <= q
                                          /\ NextSubset(y, nb) = {c} \cup {p \in y : c < p}
<1>0. nb \in SUBSET Nat
  OBVIOUS
<1>1. PICK M \in nb : \A q \in nb : q <= M
  <2>1. \A q \in 0 .. N : Value(N)[q] = q
    BY DEF Value
  <2>2. \E p \in nb : \A q \in nb : Value(N)[q] <= Value(N)[p]
    BY RanksOfBits, Highest
  <2>. QED
    BY <2>1, <2>2
<1>2. Max(nb) = M /\ M \in Nat
  BY <1>0, <1>1, MinMax
<1>. DEFINE full == y \cup ((0 .. Max(nb) + 1) \ nb)
<1>. DEFINE open == (0 .. Max(nb) + 2) \ full
<1>. DEFINE carried == Min(open)
<1>3. NextSubset(y, nb) = ((full \ Ones(carried)) \cup {carried}) \cap nb
  BY DEF NextSubset
<1>4. NextSubset(y, nb) \in SUBSET nb
  BY <1>3
<1>5. ASSUME y # nb
      PROVE  \E c \in nb \ y : /\ \A q \in nb \ y : c <= q
                               /\ NextSubset(y, nb) = {c} \cup {p \in y : c < p}
  <2>1. PICK c \in nb \ y : \A q \in nb \ y : c <= q
    <3>1. nb \ y \in SUBSET Nat /\ nb \ y # {}
      BY <1>0, <1>5
    <3>. DEFINE D == nb \ y
    <3>. HIDE DEF D
    <3>2. \E m \in D : \A i \in D : m <= i
      BY <3>1, LeastNumber DEF D
    <3>. QED
      BY <3>2 DEF D
  <2>2. c \in Nat /\ c <= M
    BY <1>0, <1>1
  <2>3. c \in open
    BY <1>2, <2>2
  <2>4. ASSUME NEW q \in open PROVE c <= q
    <3>1. q \in Nat /\ (q \in nb => q \notin y)
      BY <1>2
    <3>2. q \notin nb => q = M + 2
      BY <1>2, <3>1
    <3>. QED
      BY <1>2, <2>1, <2>2, <3>1, <3>2
  <2>5. carried = c
    <3>1. open \in SUBSET Nat
      BY <1>2
    <3>. HIDE DEF open
    <3>. QED
      BY <2>3, <2>4, <3>1, MinMax
  <2>6. (full \ Ones(c)) \cap nb = {p \in y : c <= p}
    <3>1. full \cap nb = y
      OBVIOUS
    <3>2. \A p \in y : p \notin Ones(c) <=> c <= p
      BY <1>0, <2>2 DEF Ones
    <3>. HIDE DEF full
    <3>. QED
      BY <3>1, <3>2
  <2>7. {p \in y : c <= p} = {p \in y : c < p}
    <3>1. \A p \in y : p \in Nat /\ p # c
      BY <1>0, <2>1
    <3>2. \A p \in y : c <= p <=> c < p
      BY <2>2, <3>1
    <3>. QED
      BY <3>2
  <2>. HIDE DEF carried, full
  <2>8. NextSubset(y, nb) = {c} \cup {p \in y : c < p}
    BY <1>3, <2>1, <2>5, <2>6, <2>7
  <2>. QED
    BY <2>1, <2>8
<1>. QED
  BY <1>4, <1>5

\* What comes next is the next larger subset.
LEMMA NextSubsetFollows ==
    ASSUME NEW N \in Nat, NEW nb \in SUBSET (0 .. N), nb # {}, NEW y \in SUBSET nb, y # nb
    PROVE  /\ NextSubset(y, nb) \in SUBSET nb
           /\ Above(Value(N), y, NextSubset(y, nb))
           /\ \A z \in SUBSET nb :
                 Above(Value(N), y, z) => z = NextSubset(y, nb) \/ Above(Value(N), NextSubset(y, nb), z)
<1>. DEFINE next == NextSubset(y, nb)
<1>1. PICK c \in nb \ y : /\ \A q \in nb \ y : c <= q
                          /\ next = {c} \cup {p \in y : c < p}
  BY NextSubsetIs
<1>2. next \in SUBSET nb
  BY NextSubsetIs
<1>3. nb \in SUBSET Nat /\ \A q \in nb : Value(N)[q] = q /\ q \in Nat
  BY DEF Value
<1>. HIDE DEF next
<1>4. \A q \in SymDiff(y, next) : q \in nb /\ q <= c
  <2>1. ASSUME NEW q \in SymDiff(y, next) PROVE q \in nb /\ q <= c
    <3>1. (q \in y /\ q \notin next) \/ q = c
      BY <1>1, <2>1 DEF SymDiff
    <3>2. q \in nb
      BY <1>1, <3>1
    <3>. QED
      BY <1>1, <1>3, <3>1, <3>2
  <2>. QED
    BY <2>1
<1>5. Above(Value(N), y, next)
  <2>1. c \in next \ y
    BY <1>1
  <2>2. \A q \in SymDiff(y, next) : Value(N)[q] <= Value(N)[c]
    BY <1>3, <1>4
  <2>. QED
    BY <2>1, <2>2 DEF Above
<1>6. ASSUME NEW z \in SUBSET nb, Above(Value(N), y, z), z # next
      PROVE  Above(Value(N), next, z)
  <2>1. PICK p \in z \ y : \A q \in SymDiff(y, z) : Value(N)[q] <= Value(N)[p]
    BY <1>6 DEF Above
  <2>2. p \in nb /\ p \in Nat /\ c \in Nat /\ c <= p
    BY <1>1, <1>3
  <2>3. \A q \in SymDiff(y, z) : q \in nb /\ q <= p
    BY <1>3, <2>1 DEF SymDiff
  <2>4. CASE c < p
    <3>1. p \in z \ next
      BY <1>1, <2>1, <2>2, <2>4
    <3>2. ASSUME NEW q \in SymDiff(next, z) PROVE Value(N)[q] <= Value(N)[p]
      <4>1. q \in nb
        BY <1>2 DEF SymDiff
      <4>2. q \in SymDiff(y, z) \/ q \in SymDiff(y, next)
        BY DEF SymDiff
      <4>3. q <= p
        BY <1>3, <1>4, <2>2, <2>3, <2>4, <4>1, <4>2
      <4>. QED
        BY <1>3, <2>2, <4>1, <4>3
    <3>. QED
      BY <3>1, <3>2 DEF Above
  <2>5. CASE c = p
    <3>1. \A q \in next : q \in z
      <4>1. ASSUME NEW q \in y, c < q PROVE q \in z
        <5>1. q \in SymDiff(y, z) => q <= p
          BY <2>3
        <5>2. q \in Nat
          BY <1>3
        <5>. QED
          BY <2>2, <2>5, <4>1, <5>1, <5>2 DEF SymDiff
      <4>. QED
        BY <1>1, <2>1, <2>5, <4>1
    <3>2. next \subseteq z /\ next # z /\ next \in SUBSET (0 .. N) /\ z \in SUBSET (0 .. N)
      BY <1>2, <1>6, <3>1
    <3>. QED
      BY <3>2, AboveWider, RanksOfBits
  <2>. QED
    BY <2>2, <2>4, <2>5
<1>. QED
  BY <1>2, <1>5, <1>6 DEF next

SubsetRounds(nb, k, g) ==
    g = [j \in 0 .. k |-> IF j = 0 THEN {} ELSE NextSubset(g[j - 1], nb)]

LEMMA SubsetsDefined ==
    ASSUME NEW nb, NEW n \in Nat
    PROVE  \E g : SubsetRounds(nb, n, g)
<1>. DEFINE G == {k \in 0 .. n : \E g : SubsetRounds(nb, k, g)}
<1>1. 0 \in G
  <2>. DEFINE g == [j \in 0 .. 0 |-> {}]
  <2>1. g = [j \in 0 .. 0 |-> IF j = 0 THEN {} ELSE NextSubset(g[j - 1], nb)]
    OBVIOUS
  <2>. HIDE DEF g
  <2>2. SubsetRounds(nb, 0, g)
    BY ONLY <2>1 DEF SubsetRounds
  <2>. QED
    BY <2>2
<1>2. ASSUME NEW k \in Nat, k < n, k \in G PROVE k + 1 \in G
  <2>1. PICK g : SubsetRounds(nb, k, g)
    BY <1>2
  <2>. DEFINE body(i) == IF i = 0 THEN {} ELSE NextSubset(g[i - 1], nb)
  <2>. DEFINE h == [i \in 0 .. k + 1 |-> body(i)]
  <2>2. g = [i \in 0 .. k |-> body(i)]
    BY <2>1 DEF SubsetRounds
  <2>3. \A i \in 0 .. k : g[i] = body(i)
    <3>. HIDE DEF body
    <3>. QED
      BY <2>2
  <2>4. \A i \in 0 .. k : h[i] = g[i]
    <3>1. \A i \in 0 .. k : i \in 0 .. k + 1
      OBVIOUS
    <3>. HIDE DEF body
    <3>. QED
      BY <2>3, <3>1
  <2>5. \A i \in 1 .. k + 1 : i - 1 \in 0 .. k
    OBVIOUS
  <2>6. \A i \in 0 .. k + 1 : i # 0 => i \in 1 .. k + 1
    OBVIOUS
  <2>. HIDE DEF h
  <2>7. \A i \in 0 .. k + 1 : body(i) = IF i = 0 THEN {} ELSE NextSubset(h[i - 1], nb)
    BY <2>4, <2>5, <2>6
  <2>8. SubsetRounds(nb, k + 1, h)
    BY <2>7 DEF SubsetRounds, h
  <2>. QED
    BY <1>2, <2>8
<1>. HIDE DEF G
<1>3. \A k \in 0 .. n : k \in G
  BY <1>1, <1>2, Upwards
<1>. QED
  BY <1>3 DEF G

\* The loops meet each subset.
LEMMA SubsetsAll ==
    ASSUME NEW N \in Nat, NEW nb \in SUBSET (0 .. N), nb # {}
    PROVE  /\ ifilter_bitsum(nb) \in Nat
           /\ \A j \in 0 .. ifilter_bitsum(nb) : Subsets(nb)[j] \in SUBSET nb
           /\ \A z \in SUBSET nb : \E j \in 0 .. ifilter_bitsum(nb) : Subsets(nb)[j] = z
<1>. DEFINE K == ifilter_bitsum(nb)
<1>. DEFINE y == CHOOSE g : SubsetRounds(nb, K, g)
<1>1. /\ IsFiniteSet(SUBSET nb) /\ Cardinality(SUBSET nb) = K + 1 /\ K \in Nat
  <2>1. IsFiniteSet(nb)
    <3>1. IsFiniteSet(0 .. N)
      BY FS_Interval
    <3>. QED
      BY <3>1, FS_Subset
  <2>2. IsFiniteSet(SUBSET nb) /\ Cardinality(SUBSET nb) = 2 ^ Cardinality(nb)
    BY <2>1, FS_SUBSET
  <2>3. Cardinality(SUBSET nb) \in Nat
    BY <2>2, FS_CardinalityType
  <2>4. Cardinality(SUBSET nb) # 0
    BY <2>2, FS_EmptySet
  <2>. QED
    BY <2>2, <2>3, <2>4 DEF ifilter_bitsum
<1>. HIDE DEF K
<1>2. SubsetRounds(nb, K, y)
  <2>1. \E g : SubsetRounds(nb, K, g)
    BY <1>1, SubsetsDefined
  <2>. QED
    BY <2>1
<1>3. Subsets(nb) = y
  BY DEF Subsets, SubsetRounds, K
<1>. HIDE DEF y
<1>4. y[0] = {} /\ \A j \in Nat : j < K => y[j + 1] = NextSubset(y[j], nb)
  <2>1. y = [j \in 0 .. K |-> IF j = 0 THEN {} ELSE NextSubset(y[j - 1], nb)]
    BY <1>2 DEF SubsetRounds
  <2>2. \A j \in 0 .. K : y[j] = IF j = 0 THEN {} ELSE NextSubset(y[j - 1], nb)
    BY <2>1
  <2>3. \A j \in Nat : j < K => j + 1 \in 0 .. K /\ j + 1 # 0 /\ j + 1 - 1 = j
    BY <1>1
  <2>4. 0 \in 0 .. K
    BY <1>1
  <2>. QED
    BY <2>2, <2>3, <2>4
<1>5. Value(N) \in Ranks(N)
  BY RanksOfBits
\* What is not met before comes behind.
<1>. DEFINE met(k) == \A z \in SUBSET nb : (\E j \in 0 .. k : y[j] = z) \/ Above(Value(N), y[k], z)
<1>. DEFINE G == {k \in 0 .. K : y[k] \in SUBSET nb /\ met(k)}
<1>6. 0 \in G
  <2>1. ASSUME NEW z \in SUBSET nb, z # {} PROVE Above(Value(N), {}, z)
    BY <1>5, <2>1, AboveWider
  <2>2. 0 \in 0 .. 0 /\ 0 \in 0 .. K
    BY <1>1
  <2>3. \A z \in SUBSET nb : (\E j \in 0 .. 0 : y[j] = z) \/ Above(Value(N), y[0], z)
    BY <1>4, <2>1, <2>2
  <2>. QED
    BY <1>4, <2>2, <2>3
<1>7. ASSUME NEW k \in Nat, k < K, k \in G PROVE k + 1 \in G
  <2>1. y[k] \in SUBSET nb /\ met(k) /\ y[k + 1] = NextSubset(y[k], nb) /\ k + 1 \in 0 .. K
    BY <1>1, <1>4, <1>7
  <2>2. y[k + 1] \in SUBSET nb
    <3>. DEFINE u == y[k]
    <3>1. u \in SUBSET nb
      BY <2>1
    <3>. HIDE DEF u
    <3>2. NextSubset(u, nb) \in SUBSET nb
      BY <3>1, NextSubsetIs
    <3>. QED
      BY <2>1, <3>2 DEF u
  <2>3. k + 1 \in 0 .. k + 1 /\ \A j \in 0 .. k : j \in 0 .. k + 1
    OBVIOUS
  <2>4. ASSUME NEW z \in SUBSET nb, ~\E j \in 0 .. k + 1 : y[j] = z
        PROVE  Above(Value(N), y[k + 1], z)
    <3>1. Above(Value(N), y[k], z)
      BY <2>1, <2>3, <2>4
    <3>2. y[k] # nb
      <4>1. ASSUME y[k] = nb PROVE FALSE
        <5>1. ~Above(Value(N), nb, z)
          BY <1>5, AboveWider
        <5>. QED
          BY <3>1, <4>1, <5>1
      <4>. QED
        BY <4>1
    <3>3. z = y[k + 1] \/ Above(Value(N), y[k + 1], z)
      BY <2>1, <3>1, <3>2, NextSubsetFollows
    <3>. QED
      BY <2>3, <2>4, <3>3
  <2>. QED
    BY <2>1, <2>2, <2>4
<1>8. \A k \in 0 .. K : k \in G
  <2>. HIDE DEF G
  <2>. QED
    BY <1>1, <1>6, <1>7, Upwards
<1>9. \A k \in 0 .. K : y[k] \in SUBSET nb /\ met(k)
  BY <1>8
<1>. HIDE DEF G
<1>10. ASSUME NEW k \in 0 .. K, y[k] = nb, NEW z \in SUBSET nb PROVE \E j \in 0 .. K : y[j] = z
  <2>1. ~Above(Value(N), nb, z)
    BY <1>5, AboveWider
  <2>2. \E j \in 0 .. k : y[j] = z
    BY <1>9, <1>10, <2>1
  <2>3. \A j \in 0 .. k : j \in 0 .. K
    BY <1>1
  <2>. QED
    BY <2>2, <2>3
<1>11. ASSUME \A k \in 0 .. K : y[k] # nb, NEW z \in SUBSET nb PROVE \E j \in 0 .. K : y[j] = z
  \* Each is larger than all before, so no two are the same.
  <2>. DEFINE H == {k \in 0 .. K : \A j \in 0 .. k : j = k \/ Above(Value(N), y[j], y[k])}
  <2>1. 0 \in H
    <3>1. \A j \in 0 .. 0 : j = 0
      OBVIOUS
    <3>2. 0 \in 0 .. K
      BY <1>1
    <3>. QED
      BY <3>1, <3>2
  <2>2. ASSUME NEW k \in Nat, k < K, k \in H PROVE k + 1 \in H
    <3>1. k \in 0 .. K /\ k + 1 \in 0 .. K
      BY <1>1, <2>2
    <3>2. Above(Value(N), y[k], y[k + 1])
      BY <1>4, <1>9, <1>11, <2>2, <3>1, NextSubsetFollows
    <3>3. ASSUME NEW j \in 0 .. k + 1, j # k + 1 PROVE Above(Value(N), y[j], y[k + 1])
      <4>1. j \in 0 .. k /\ j \in 0 .. K
        BY <1>1, <2>2, <3>3
      <4>2. j = k \/ Above(Value(N), y[j], y[k])
        BY <2>2, <4>1
      <4>3. y[j] \in SUBSET (0 .. N) /\ y[k] \in SUBSET (0 .. N) /\ y[k + 1] \in SUBSET (0 .. N)
        <5>1. \A i \in 0 .. K : y[i] \in SUBSET (0 .. N)
          BY <1>9
        <5>. QED
          BY <3>1, <4>1, <5>1
      <4>. QED
        BY <1>5, <3>2, <4>2, <4>3, AboveTransitive
    <3>. QED
      BY <3>1, <3>3
  <2>3. \A k \in 0 .. K : k \in H
    <3>. HIDE DEF H
    <3>. QED
      BY <1>1, <2>1, <2>2, Upwards
  <2>4. ASSUME NEW j \in 0 .. K, NEW k \in 0 .. K, y[j] = y[k] PROVE j = k
    <3>1. \A i \in 0 .. K : y[i] \in SUBSET (0 .. N) /\ ~Above(Value(N), y[i], y[i])
      <4>1. \A i \in 0 .. K : y[i] \in SUBSET (0 .. N)
        BY <1>9
      <4>. QED
        BY <1>5, <4>1, AboveNotBoth
    <3>2. j <= k => j \in 0 .. k
      BY <1>1
    <3>3. ~(j <= k) => k \in 0 .. j
      BY <1>1
    <3>. QED
      BY <2>3, <2>4, <3>1, <3>2, <3>3
  <2>. DEFINE f == [j \in 0 .. K |-> y[j]]
  <2>5. f \in [0 .. K -> SUBSET nb]
    BY <1>9
  <2>6. f \in Injection(0 .. K, SUBSET nb)
    <3>1. \A a, b \in 0 .. K : f[a] = f[b] => a = b
      BY <2>4
    <3>. QED
      BY <2>5, <3>1 DEF Injection, IsInjective
  <2>7. Cardinality(0 .. K) = K + 1
    <3>1. Cardinality(0 .. K) = IF 0 > K THEN 0 ELSE K - 0 + 1
      BY <1>1, FS_Interval
    <3>. QED
      BY <1>1, <3>1
  <2>. HIDE DEF f
  <2>8. f \in Surjection(0 .. K, SUBSET nb)
    BY <1>1, <2>6, <2>7, FS_Injection
  <2>9. PICK j \in 0 .. K : f[j] = z
    BY <2>8 DEF Surjection
  <2>10. y[j] = z
    BY <2>9 DEF f
  <2>. QED
    BY <2>10
<1>. QED
  BY <1>1, <1>3, <1>9, <1>10, <1>11 DEF K


LEMMA Concatenated ==
    ASSUME NEW S, NEW s \in Seq(S), NEW t \in Seq(S)
    PROVE  /\ s \o t \in Seq(S) /\ Len(s \o t) = Len(s) + Len(t)
           /\ Len(s) \in Nat /\ Len(t) \in Nat
           /\ \A i \in 1 .. Len(s) : (s \o t)[i] = s[i]
           /\ \A i \in 1 .. Len(t) : (s \o t)[Len(s) + i] = t[i]
OBVIOUS

\* A filter continued in one way, and filters continued in every way.
Continued(filter, z) == [filter EXCEPT !.f = @ \cup z]
Continuations(A, newbits) == UNION {{Continued(a, z) : z \in SUBSET newbits} : a \in A}

LastBit == ByteBits * PublicLen - 1
LEMMA BitsOfKey == LastBit \in Nat /\ ByteBits * PublicLen \in Nat /\ ByteBits * PublicLen = LastBit + 1
<1>1. ByteBits \in Nat \ {0} /\ PublicLen \in Nat \ {0}
  BY FiltersAssumption
<1>2. ByteBits * PublicLen \in Nat /\ ByteBits * PublicLen > 0
  BY <1>1
<1>. QED
  BY <1>2 DEF LastBit

Listing(vec) == vec \in Seq(Range(vec))

LEMMA ListingOf ==
    ASSUME NEW S, NEW vec \in Seq(S)
    PROVE  Listing(vec) /\ Range(vec) \subseteq S
<1>1. Len(vec) \in Nat /\ DOMAIN vec = 1 .. Len(vec) /\ \A i \in 1 .. Len(vec) : vec[i] \in S
  OBVIOUS
<1>2. \A i \in 1 .. Len(vec) : vec[i] \in Range(vec)
  BY <1>1 DEF Range
<1>3. vec \in Seq(Range(vec))
  BY <1>1, <1>2
<1>. QED
  BY <1>1, <1>3 DEF Listing, Range

LEMMA AddExpandedAll ==
    ASSUME NEW vec, Listing(vec), NEW filter, NEW nb \in SUBSET (0 .. LastBit), nb # {}
    PROVE  /\ Listing(ifilter_addexpanded(vec, filter, nb))
           /\ Range(ifilter_addexpanded(vec, filter, nb))
                = Range(vec) \cup Continuations({filter}, nb)
<1>. DEFINE K == ifilter_bitsum(nb)
<1>. DEFINE ways == Subsets(nb)
<1>. DEFINE n == Len(vec)
<1>. DEFINE more == [j \in 1 .. K + 1 |-> Continued(filter, ways[j - 1])]
<1>. DEFINE R == ifilter_addexpanded(vec, filter, nb)
<1>. DEFINE S == Range(vec) \cup Continuations({filter}, nb)
<1>1. /\ K \in Nat
      /\ \A j \in 0 .. K : ways[j] \in SUBSET nb
      /\ \A z \in SUBSET nb : \E j \in 0 .. K : ways[j] = z
  BY BitsOfKey, SubsetsAll
<1>0. vec \in Seq(S) /\ \A z \in SUBSET nb : Continued(filter, z) \in S
  <2>1. Range(vec) \subseteq S /\ \A z \in SUBSET nb : Continued(filter, z) \in S
    BY DEF Continuations
  <2>. HIDE DEF S
  <2>. QED
    BY <2>1 DEF Listing
<1>. HIDE DEF S
<1>2. R = vec \o more
  BY DEF ifilter_addexpanded, Continued
<1>. HIDE DEF R, K, ways
<1>3. \A j \in 1 .. K + 1 : j - 1 \in 0 .. K /\ more[j] = Continued(filter, ways[j - 1])
  BY <1>1
<1>4. \A j \in 1 .. K + 1 : Continued(filter, ways[j - 1]) \in S
  BY <1>0, <1>1, <1>3
<1>5. more \in Seq(S) /\ Len(more) = K + 1
  BY <1>1, <1>4
<1>. HIDE DEF more
<1>6. R \in Seq(S) /\ DOMAIN R = 1 .. n + (K + 1) /\ n \in Nat /\ DOMAIN vec = 1 .. n
  <2>0. vec \o more \in Seq(S) /\ Len(vec \o more) = Len(vec) + Len(more) /\ Len(vec) \in Nat
    BY ONLY <1>0, <1>5, Concatenated
  <2>1. R \in Seq(S) /\ Len(R) = n + (K + 1) /\ n \in Nat
    BY <1>2, <1>5, <2>0
  <2>. QED
    BY <2>1
<1>7. /\ \A i \in 1 .. n : R[i] = vec[i]
      /\ \A j \in 1 .. K + 1 : R[n + j] = more[j]
  <2>1. /\ \A i \in 1 .. Len(vec) : (vec \o more)[i] = vec[i]
        /\ \A i \in 1 .. Len(more) : (vec \o more)[Len(vec) + i] = more[i]
    BY ONLY <1>0, <1>5, Concatenated
  <2>. QED
    BY <1>2, <1>5, <2>1
<1>8. ASSUME NEW i \in DOMAIN R
      PROVE  \/ \E k \in DOMAIN vec : vec[k] = R[i]
             \/ \E z \in SUBSET nb : R[i] = Continued(filter, z)
  <2>1. CASE i <= n
    <3>1. i \in 1 .. n
      BY <1>6, <2>1
    <3>. QED
      BY <1>6, <1>7, <3>1
  <2>2. CASE ~(i <= n)
    <3>1. i - n \in 1 .. K + 1 /\ n + (i - n) = i
      BY <1>1, <1>6, <2>2
    <3>2. R[i] = Continued(filter, ways[i - n - 1]) /\ i - n - 1 \in 0 .. K
      BY <1>3, <1>7, <3>1
    <3>. QED
      BY <1>1, <3>2
  <2>. QED
    BY <2>1, <2>2
<1>9. ASSUME NEW k \in DOMAIN vec PROVE k \in DOMAIN R /\ R[k] = vec[k]
  BY <1>1, <1>6, <1>7
<1>10. ASSUME NEW z \in SUBSET nb PROVE \E i \in DOMAIN R : R[i] = Continued(filter, z)
  <2>1. PICK j \in 0 .. K : ways[j] = z
    BY <1>1
  <2>2. j + 1 \in 1 .. K + 1 /\ j + 1 - 1 = j
    BY <1>1
  <2>3. R[n + (j + 1)] = Continued(filter, z)
    BY <1>3, <1>7, <2>1, <2>2
  <2>4. n + (j + 1) \in DOMAIN R
    BY <1>1, <1>6, <2>2
  <2>. QED
    BY <2>3, <2>4
<1>. QED
  <2>1. \A a : a \in Range(R) <=> a \in Range(vec) \cup Continuations({filter}, nb)
    <3>1. ASSUME NEW i \in DOMAIN R PROVE R[i] \in Range(vec) \cup Continuations({filter}, nb)
      BY ONLY <1>8 DEF Range, Continuations
    <3>2. ASSUME NEW k \in DOMAIN vec PROVE vec[k] \in Range(R)
      BY ONLY <1>9 DEF Range
    <3>3. ASSUME NEW z \in SUBSET nb PROVE Continued(filter, z) \in Range(R)
      BY ONLY <1>10 DEF Range
    <3>. QED
      BY ONLY <3>1, <3>2, <3>3 DEF Range, Continuations
  <2>2. Listing(R)
    BY <1>6, ListingOf
  <2>. QED
    BY <2>1, <2>2 DEF R

LEMMA GrownIs ==
    ASSUME NEW e \in Nat \ {0}, NEW S, NEW vec \in Seq(S), vec # <<>>
    PROVE  /\ Grown(vec, e) \in Seq(S) /\ Len(Grown(vec, e)) = e * Len(vec)
           /\ Len(vec) \in Nat \ {0} /\ Len(vec) <= e * Len(vec) /\ e * Len(vec) \in Nat
           /\ \A i \in 1 .. Len(vec) : Grown(vec, e)[i] = vec[i]
<1>. DEFINE n == Len(vec)
<1>. DEFINE tail == [j \in 1 .. (e - 1) * Len(vec) |-> vec[1]]
<1>1. n \in Nat \ {0} /\ vec[1] \in S
  OBVIOUS
<1>2. Grown(vec, e) = vec \o tail
  BY DEF Grown
<1>3. (e - 1) * n \in Nat /\ e * n \in Nat /\ n + (e - 1) * n = e * n
  <2>. HIDE DEF n
  <2>1. (e - 1) * n = e * n - n /\ e - 1 \in Nat
    BY <1>1
  <2>. QED
    BY <1>1, <2>1
<1>4. tail \in Seq(S) /\ Len(tail) = (e - 1) * n
  BY <1>1, <1>3
<1>. HIDE DEF tail
<1>5. Len(vec \o tail) = e * n /\ vec \o tail \in Seq(S) /\ \A i \in 1 .. n : (vec \o tail)[i] = vec[i]
  <2>1. /\ vec \o tail \in Seq(S) /\ Len(vec \o tail) = Len(vec) + Len(tail)
        /\ \A i \in 1 .. Len(vec) : (vec \o tail)[i] = vec[i]
    <3>1. tail \in Seq(S)
      BY <1>4
    <3>. QED
      BY ONLY <3>1, vec \in Seq(S), Concatenated
  <2>. QED
    BY <1>3, <1>4, <2>1
<1>6. n <= e * n
  BY <1>1, <1>3
<1>. QED
  BY <1>1, <1>2, <1>3, <1>5, <1>6

\* The steps of ifilter_expand, from the last filter to the first.
ExpandStep(vec, e, ways, g, i) ==
    IF i = Len(vec) THEN Grown(vec, e) ELSE ExpandFilter(g[i + 1], i, e, ways)
ExpandRounds(vec, e, ways, g) == g = [i \in 0 .. Len(vec) |-> ExpandStep(vec, e, ways, g, i)]

LEMMA ExpandPlaces ==
    ASSUME NEW N \in Nat, NEW nb \in SUBSET (0 .. N), nb # {}, NEW S, NEW vec \in Seq(S), vec # <<>>
    PROVE  LET R == ifilter_expand(vec, nb)
               e == ifilter_bitsum(nb) + 1
               n == Len(vec)
           IN  /\ DOMAIN R = 1 .. e * n
               /\ \A p \in 1 .. e * n :
                     /\ (p - 1) \div e \in 0 .. n - 1 /\ (p - 1) % e \in 0 .. e - 1
                     /\ p - 1 = e * ((p - 1) \div e) + ((p - 1) % e)
                     /\ R[p] = Continued(vec[(p - 1) \div e + 1], Subsets(nb)[(p - 1) % e])
               /\ R = [p \in 1 .. e * n |-> R[p]]
<1>. DEFINE e == ifilter_bitsum(nb) + 1
<1>. DEFINE n == Len(vec)
<1>. DEFINE ways == Subsets(nb)
<1>. DEFINE grown == Grown(vec, e)
<1>. DEFINE ext(p) == Continued(vec[(p - 1) \div e + 1], ways[(p - 1) % e])
<1>0. e \in Nat \ {0}
  <2>1. ifilter_bitsum(nb) \in Nat
    BY SubsetsAll
  <2>. QED
    BY <2>1
<1>2. ifilter_expand(vec, nb) = (CHOOSE g : ExpandRounds(vec, e, ways, g))[0]
  BY DEF ifilter_expand, ExpandRounds, ExpandStep
<1>. HIDE DEF e, ways
<1>1. n \in Nat /\ n > 0 /\ e \in Nat
  BY <1>0, GrownIs
<1>3. e * n \in Nat /\ n <= e * n
  BY <1>0, GrownIs
<1>4. DOMAIN grown = 1 .. e * n /\ (\A p \in 1 .. n : grown[p] = vec[p])
      /\ grown = [p \in 1 .. e * n |-> grown[p]]
  <2>1. grown \in Seq(S) /\ Len(grown) = e * n /\ \A p \in 1 .. n : grown[p] = vec[p]
    BY <1>0, GrownIs
  <2>. HIDE DEF grown, n
  <2>. QED
    BY <2>1
<1>. HIDE DEF grown, e, n
<1>5. ASSUME NEW p \in 1 .. e * n
      PROVE  /\ (p - 1) \div e \in 0 .. n - 1 /\ (p - 1) % e \in 0 .. e - 1
             /\ p - 1 = e * ((p - 1) \div e) + ((p - 1) % e)
             /\ (p - 1) \div e <= p - 1
  <2>. DEFINE x == p - 1
  <2>. DEFINE q == x \div e
  <2>. DEFINE r == x % e
  <2>0. x \in Nat /\ x < e * n /\ e \in Nat \ {0}
    BY <1>1, <1>3
  <2>. HIDE DEF x
  <2>1. q \in Nat /\ r \in 0 .. e - 1 /\ x = e * q + r
    BY ONLY <2>0
  <2>. HIDE DEF q, r
  <2>2. q < n
    <3>1. n <= q => e * n <= e * q
      BY <1>1, <2>1
    <3>2. e * q \in Nat
      BY <1>1, <2>1
    <3>. QED
      BY <1>1, <1>3, <2>0, <2>1, <3>1, <3>2
  <2>3. q <= x
    <3>1. q <= e * q /\ e * q \in Nat
      BY <1>1, <2>1
    <3>. QED
      BY <1>1, <2>1, <3>1
  <2>. QED
    BY <1>1, <2>1, <2>2, <2>3 DEF x, q, r
<1>. DEFINE at(i, p) == IF i # n /\ (p - 1) \div e >= i THEN ext(p) ELSE grown[p]
<1>. DEFINE h == [i \in 0 .. n |-> [p \in 1 .. e * n |-> at(i, p)]]
\* The buffer before step i, whatever buffer it is.
<1>6. ASSUME NEW b, NEW i \in 0 .. n, i # n, b = [p \in 1 .. e * n |-> at(i + 1, p)]
      PROVE  ExpandFilter(b, i, e, ways) = [p \in 1 .. e * n |-> at(i, p)]
  <2>0. \A p \in 1 .. e * n : b[p] = at(i + 1, p)
    <3>. HIDE DEF at
    <3>. QED
      BY <1>6
  <2>1. b[i + 1] = vec[i + 1] /\ i + 1 \in 1 .. e * n
    <3>1. i + 1 \in 1 .. n /\ i + 1 \in 1 .. e * n /\ i + 1 - 1 = i
      <4>1. i # n
        BY <1>6
      <4>. HIDE DEF n
      <4>. QED
        BY <1>1, <1>3, <4>1
    <3>2. ~(i \div e >= i + 1)
      <4>1. i \div e <= i /\ i \div e \in 0 .. n - 1
        BY <1>5, <3>1
      <4>. QED
        BY <1>1, <4>1
    <3>3. at(i + 1, i + 1) = grown[i + 1]
      BY <3>1, <3>2
    <3>. QED
      BY <1>4, <2>0, <3>1, <3>3
  <2>2. ASSUME NEW p \in 1 .. e * n
        PROVE  (IF (p - 1) \div e = i THEN Continued(b[i + 1], ways[(p - 1) % e]) ELSE b[p]) = at(i, p)
    <3>1. CASE (p - 1) \div e = i
      <4>1. (p - 1) \div e >= i
        BY <1>1, <3>1
      <4>. QED
        BY <1>6, <2>1, <3>1, <4>1
    <3>2. CASE (p - 1) \div e # i
      <4>1. b[p] = at(i + 1, p)
        BY <2>0
      <4>2. (i + 1 # n /\ (p - 1) \div e >= i + 1) <=> (i # n /\ (p - 1) \div e >= i)
        <5>1. (p - 1) \div e \in 0 .. n - 1
          BY <1>5
        <5>. QED
          BY <1>1, <1>6, <3>2, <5>1
      <4>. QED
        BY <3>2, <4>1, <4>2
    <3>. QED
      BY <3>1, <3>2
  <2>3. DOMAIN b = 1 .. e * n
    <3>. HIDE DEF at
    <3>. QED
      BY <1>6
  <2>4. ExpandFilter(b, i, e, ways) =
          [p \in 1 .. e * n |->
             IF (p - 1) \div e = i THEN Continued(b[i + 1], ways[(p - 1) % e]) ELSE b[p]]
    BY <2>3 DEF ExpandFilter, Continued
  <2>. HIDE DEF at
  <2>. QED
    BY <2>2, <2>4
<1>7. ASSUME NEW g PROVE ExpandStep(vec, e, ways, g, n) = [p \in 1 .. e * n |-> at(n, p)]
  <2>1. ExpandStep(vec, e, ways, g, n) = grown
    BY DEF ExpandStep, n, grown
  <2>. QED
    BY <1>4, <2>1
<1>8. ExpandRounds(vec, e, ways, h)
  <2>. DEFINE row(i) == [p \in 1 .. e * n |-> at(i, p)]
  <2>1. \A i \in 0 .. n : h[i] = row(i)
    <3>. HIDE DEF row
    <3>. QED
      BY DEF row
  <2>. HIDE DEF h
  <2>2. \A i \in 0 .. n : ExpandStep(vec, e, ways, h, i) = row(i)
    <3>. TAKE i \in 0 .. n
    <3>1. CASE i = n
      BY <1>7, <3>1
    <3>2. CASE i # n
      <4>1. i + 1 \in 0 .. n
        BY <1>1, <3>2
      <4>2. h[i + 1] = row(i + 1)
        BY <2>1, <4>1
      <4>3. ExpandFilter(h[i + 1], i, e, ways) = row(i)
        BY <1>6, <3>2, <4>2
      <4>. QED
        BY <3>2, <4>3 DEF ExpandStep, n
    <3>. QED
      BY <3>1, <3>2
  <2>3. h = [i \in 0 .. n |-> ExpandStep(vec, e, ways, h, i)]
    <3>1. h = [i \in 0 .. n |-> row(i)]
      BY DEF h
    <3>. HIDE DEF row
    <3>. QED
      BY <2>2, <3>1
  <2>. QED
    BY <2>3 DEF ExpandRounds, n
<1>. DEFINE buf == CHOOSE g : ExpandRounds(vec, e, ways, g)
<1>9. ExpandRounds(vec, e, ways, buf)
  <2>. HIDE DEF h
  <2>. QED
    BY <1>8
<1>. HIDE DEF buf, h
<1>10. \A i \in 0 .. n : buf[i] = ExpandStep(vec, e, ways, buf, i)
  BY <1>9 DEF ExpandRounds, n
<1>. DEFINE G == {k \in 0 .. n : buf[n - k] = [p \in 1 .. e * n |-> at(n - k, p)]}
<1>11. 0 \in G
  <2>1. n - 0 = n /\ n \in 0 .. n /\ 0 \in 0 .. n
    BY <1>1
  <2>2. buf[n] = [p \in 1 .. e * n |-> at(n, p)]
    BY <1>7, <1>10, <2>1
  <2>. HIDE DEF at
  <2>. QED
    BY <2>1, <2>2
<1>12. ASSUME NEW k \in Nat, k < n, k \in G PROVE k + 1 \in G
  <2>. DEFINE i == n - (k + 1)
  <2>1. i \in 0 .. n /\ i # n /\ i + 1 = n - k /\ k + 1 \in 0 .. n
    BY <1>1, <1>12
  <2>2. buf[i + 1] = [p \in 1 .. e * n |-> at(i + 1, p)]
    <3>. HIDE DEF at, i
    <3>. QED
      BY <1>12, <2>1
  <2>. HIDE DEF i
  <2>3. ExpandStep(vec, e, ways, buf, i) = [p \in 1 .. e * n |-> at(i, p)]
    <3>1. ExpandFilter(buf[i + 1], i, e, ways) = [p \in 1 .. e * n |-> at(i, p)]
      BY <1>6, <2>1, <2>2
    <3>. QED
      BY <2>1, <3>1 DEF ExpandStep, n
  <2>. HIDE DEF at
  <2>4. buf[i] = [p \in 1 .. e * n |-> at(i, p)]
    BY <1>10, <2>1, <2>3
  <2>. QED
    BY <2>1, <2>4 DEF i
<1>13. buf[0] = [p \in 1 .. e * n |-> at(0, p)]
  <2>. HIDE DEF G
  <2>1. n \in G
    <3>1. \A k \in 0 .. n : k \in G
      BY <1>1, <1>11, <1>12, Upwards
    <3>. QED
      BY <1>1, <3>1
  <2>2. n - n = 0
    BY <1>1
  <2>. HIDE DEF at
  <2>. QED
    BY <2>1, <2>2 DEF G
<1>14. \A p \in 1 .. e * n : at(0, p) = ext(p)
  <2>. TAKE p \in 1 .. e * n
  <2>1. (p - 1) \div e >= 0
    BY <1>5
  <2>. QED
    BY <1>1, <2>1
<1>. DEFINE R == ifilter_expand(vec, nb)
<1>15. R = [p \in 1 .. e * n |-> at(0, p)]
  BY <1>2, <1>13 DEF buf
<1>. HIDE DEF at, R
<1>16. DOMAIN R = 1 .. e * n /\ (\A p \in 1 .. e * n : R[p] = at(0, p)) /\ R = [p \in 1 .. e * n |-> R[p]]
  BY <1>15
<1>. QED
  BY <1>5, <1>14, <1>16 DEF R, e, n, ways

LEMMA ExpandAll ==
    ASSUME NEW vec, Listing(vec), vec # <<>>, NEW nb \in SUBSET (0 .. LastBit), nb # {}
    PROVE  /\ Listing(ifilter_expand(vec, nb))
           /\ Range(ifilter_expand(vec, nb)) = Continuations(Range(vec), nb)
<1>. DEFINE R == ifilter_expand(vec, nb)
<1>. DEFINE S == Range(vec)
<1>. DEFINE T == Continuations(S, nb)
<1>0. vec \in Seq(S) /\ \A a \in S, z \in SUBSET nb : Continued(a, z) \in T
  BY DEF Listing, Continuations
<1>. HIDE DEF S, T
<1>. DEFINE K == ifilter_bitsum(nb)
<1>. DEFINE e == K + 1
<1>. DEFINE n == Len(vec)
<1>. DEFINE ways == Subsets(nb)
<1>1. /\ K \in Nat
      /\ \A j \in 0 .. K : ways[j] \in SUBSET nb
      /\ \A z \in SUBSET nb : \E j \in 0 .. K : ways[j] = z
  BY BitsOfKey, SubsetsAll
<1>2. /\ DOMAIN R = 1 .. e * n
      /\ \A p \in 1 .. e * n :
            /\ (p - 1) \div e \in 0 .. n - 1 /\ (p - 1) % e \in 0 .. e - 1
            /\ p - 1 = e * ((p - 1) \div e) + ((p - 1) % e)
            /\ R[p] = Continued(vec[(p - 1) \div e + 1], ways[(p - 1) % e])
      /\ R = [p \in 1 .. e * n |-> R[p]]
  BY <1>0, BitsOfKey, ExpandPlaces
<1>. HIDE DEF R, K, ways
<1>3. n \in Nat \ {0} /\ (\A i \in 1 .. n : vec[i] \in S) /\ DOMAIN vec = 1 .. n /\ n \in Nat
  BY <1>0
<1>. HIDE DEF n
<1>4. e \in Nat \ {0} /\ e * n \in Nat /\ e - 1 = K
  <2>1. e \in Nat \ {0} /\ e - 1 = K
    BY <1>1
  <2>. HIDE DEF e
  <2>. QED
    BY <1>3, <2>1
<1>. HIDE DEF e
<1>5. ASSUME NEW p \in 1 .. e * n
      PROVE  \E i \in 1 .. n : \E z \in SUBSET nb : R[p] = Continued(vec[i], z)
  <2>. DEFINE q == (p - 1) \div e
  <2>. DEFINE r == (p - 1) % e
  <2>1. q \in 0 .. n - 1 /\ r \in 0 .. e - 1 /\ R[p] = Continued(vec[q + 1], ways[r])
    BY <1>2
  <2>. HIDE DEF q, r
  <2>2. q + 1 \in 1 .. n /\ r \in 0 .. K
    BY <1>3, <1>4, <2>1
  <2>. QED
    BY <1>1, <2>1, <2>2
<1>6. ASSUME NEW i \in 1 .. n, NEW z \in SUBSET nb
      PROVE  \E p \in 1 .. e * n : R[p] = Continued(vec[i], z)
  <2>1. PICK j \in 0 .. K : ways[j] = z
    BY <1>1
  <2>. DEFINE q == i - 1
  <2>. DEFINE x == e * q + j
  <2>2. q \in Nat /\ q + 1 <= n /\ q + 1 = i /\ j \in 0 .. e - 1
    BY <1>3, <1>4
  <2>. HIDE DEF q
  <2>3. x \in Nat /\ x \div e = q /\ x % e = j
    <3>1. x = e * q + j
      OBVIOUS
    <3>. HIDE DEF x
    <3>. QED
      BY ONLY <1>4, <2>2, <3>1, Divided
  <2>4. x < e * n
    <3>1. e * (q + 1) <= e * n
      BY <1>3, <1>4, <2>2
    <3>2. e * (q + 1) = e * q + e /\ e * q \in Nat
      BY <1>4, <2>2
    <3>. QED
      BY <1>4, <2>2, <3>1, <3>2
  <2>. HIDE DEF x
  <2>5. x + 1 \in 1 .. e * n /\ x + 1 - 1 = x
    BY <1>4, <2>3, <2>4
  <2>6. R[x + 1] = Continued(vec[q + 1], ways[j])
    BY <1>2, <2>3, <2>5
  <2>. QED
    BY <2>1, <2>2, <2>5, <2>6
<1>7. R \in Seq(T)
  <2>1. \A p \in 1 .. e * n : R[p] \in T
    BY <1>0, <1>3, <1>5
  <2>2. R \in [1 .. e * n -> T]
    BY <1>2, <2>1
  <2>. QED
    BY <1>4, <2>2
<1>8. \A a : (\E i \in DOMAIN R : R[i] = a)
               <=> \E i \in DOMAIN vec : \E z \in SUBSET nb : a = Continued(vec[i], z)
  <2>. TAKE a
  <2>1. DOMAIN R = 1 .. e * n
    BY ONLY <1>2
  <2>2. ASSUME NEW p \in DOMAIN R, R[p] = a
        PROVE  \E i \in DOMAIN vec : \E z \in SUBSET nb : a = Continued(vec[i], z)
    BY ONLY <1>3, <1>5, <2>1, <2>2
  <2>3. ASSUME NEW i \in DOMAIN vec, NEW z \in SUBSET nb, a = Continued(vec[i], z)
        PROVE  \E p \in DOMAIN R : R[p] = a
    BY ONLY <1>3, <1>6, <2>1, <2>3
  <2>. QED
    BY ONLY <2>2, <2>3
<1>. QED
  <2>. HIDE DEF R
  <2>1. \A a : a \in Range(R) <=> a \in Continuations(Range(vec), nb)
    BY ONLY <1>8 DEF Range, Continuations
  <2>2. Listing(R)
    BY <1>7, ListingOf
  <2>. QED
    BY <2>1, <2>2 DEF R

-----------------------------------------------------------------------------
(* The table that filters_add makes *)

\* The texts that can be had as filters, the filter that is made of one, and the
\* keys, or first bits of keys, that begin with a text.
Fitting(kind) ==
    {text \in Seq(Digits) :
        /\ text # <<>>
        /\ FromLen(Len(text)) <= IF kind = "bin" THEN PublicLen ELSE IntLen}
TextMask(text) == First(CharBits * Len(text))
TextFilter(kind, text) ==
    [f |-> TextBits(text, Len(text)),
     m |-> IF kind = "omit" THEN {} ELSE TextMask(text),
     len |-> IF kind = "bin" THEN FromLen(Len(text)) - 1 ELSE 0]
Fulfils(text, bits) == bits \cap TextMask(text) = TextBits(text, Len(text))

LEMMA ValidIs ==
    ASSUME NEW X, NEW text \in Seq(X)
    PROVE  /\ base32_valid(text).ok <=> text \in Seq(Digits)
           /\ base32_valid(text).ok => base32_valid(text).count = Len(text)
<1>. DEFINE leads(n) == /\ \A j \in 1 .. n : text[j] \in Digits
                        /\ n < Len(text) => text[n + 1] \notin Digits
<1>. DEFINE S == {n \in 0 .. Len(text) : n < Len(text) => text[n + 1] \notin Digits}
<1>1. Len(text) \in Nat
  OBVIOUS
<1>2. PICK m \in S : \A i \in S : m <= i
  <2>1. S \in SUBSET Nat /\ Len(text) \in S
    BY <1>1
  <2>. HIDE DEF S
  <2>. QED
    BY <2>1, LeastNumber
<1>3. ASSUME NEW j \in 1 .. m PROVE text[j] \in Digits
  <2>1. j - 1 \in 0 .. Len(text) /\ j - 1 < m /\ j - 1 < Len(text) /\ j - 1 + 1 = j /\ j - 1 \in Int
        /\ m \in Int
    BY <1>1
  <2>2. j - 1 \notin S
    BY <1>2, <2>1
  <2>. QED
    BY <2>1, <2>2
<1>4. m \in 0 .. Len(text) /\ leads(m)
  BY <1>3
<1>5. Leading(text) \in 0 .. Len(text) /\ leads(Leading(text))
  <2>1. Leading(text) = CHOOSE n \in 0 .. Len(text) : leads(n)
    BY DEF Leading
  <2>. HIDE DEF leads
  <2>. QED
    BY <1>4, <2>1
<1>6. Leading(text) = Len(text) => text \in Seq(Digits)
  <2>1. ASSUME \A j \in 1 .. Len(text) : text[j] \in Digits PROVE text \in Seq(Digits)
    BY <2>1
  <2>. QED
    BY <1>5, <2>1
<1>7. text \in Seq(Digits) => Leading(text) = Len(text)
  <2>1. ASSUME text \in Seq(Digits), Leading(text) < Len(text) PROVE FALSE
    <3>1. Leading(text) + 1 \in 1 .. Len(text)
      BY <1>1, <1>5, <2>1
    <3>2. text[Leading(text) + 1] \in Digits
      BY <2>1, <3>1
    <3>. QED
      BY <1>5, <2>1, <3>2
  <2>. QED
    BY <1>1, <1>5, <2>1
<1>. QED
  BY <1>6, <1>7 DEF base32_valid

LEMMA FromLenZero == FromLen(0) = 0
<1>1. CharBits * 0 = 0 /\ ByteBits * 0 = 0 /\ ByteBits \in Nat \ {0}
  BY FiltersAssumption
<1>2. CharBits * 0 <= ByteBits * 0 /\ ByteBits * 0 < CharBits * 0 + ByteBits
  BY <1>1
<1>. QED
  BY <1>2, FromLenIs

\* Texts and their bits in a key.
LEMMA FittingText ==
    ASSUME NEW kind \in Kindred, NEW text \in Fitting(kind)
    PROVE  /\ text \in Seq(Digits) /\ Len(text) \in Nat \ {0}
           /\ CharBits * Len(text) \in Nat
           /\ CharBits * Len(text) <= ByteBits * PublicLen
           /\ LastBit \in Nat /\ 0 .. LastBit = Ones(ByteBits * PublicLen)
           /\ TextMask(text) \in SUBSET (0 .. LastBit)
           /\ TextBits(text, Len(text)) \in SUBSET TextMask(text)
           /\ Fulfils(text, TextBits(text, Len(text)))
<1>1. text \in Seq(Digits) /\ text # <<>> /\ Len(text) \in Nat \ {0}
  BY DEF Fitting
<1>. DEFINE len == FromLen(Len(text))
<1>2. len \in Nat \ {0} /\ CharBits * Len(text) <= ByteBits * len
      /\ TextBits(text, Len(text)) \subseteq TextMask(text)
  BY <1>1, TextRead DEF TextMask
<1>3. ByteBits \in Nat \ {0} /\ PublicLen \in Nat \ {0} /\ IntLen <= PublicLen /\ CharBits \in Nat
      /\ IntLen \in Nat
  BY FiltersAssumption
<1>4. len <= PublicLen
  <2>1. len <= IF kind = "bin" THEN PublicLen ELSE IntLen
    BY DEF Fitting
  <2>. HIDE DEF len
  <2>. QED
    BY <1>2, <1>3, <2>1
<1>. HIDE DEF len
<1>5. ByteBits * len <= ByteBits * PublicLen /\ ByteBits * len \in Nat /\ ByteBits * PublicLen \in Nat
      /\ ByteBits * PublicLen > 0 /\ CharBits * Len(text) \in Nat
  <2>1. ByteBits * len <= ByteBits * PublicLen /\ ByteBits * len \in Nat
    BY <1>2, <1>3, <1>4
  <2>2. ByteBits * PublicLen \in Nat /\ ByteBits * PublicLen > 0
    BY <1>3
  <2>3. CharBits * Len(text) \in Nat
    BY <1>1, <1>3
  <2>. QED
    BY <2>1, <2>2, <2>3
<1>6. CharBits * Len(text) <= ByteBits * PublicLen
  BY <1>2, <1>5
<1>7. LastBit \in Nat /\ 0 .. LastBit = Ones(ByteBits * PublicLen)
  BY <1>5 DEF LastBit, Ones
<1>8. TextMask(text) \subseteq Ones(ByteBits * PublicLen)
  BY <1>3, <1>5, <1>6, FirstBits DEF TextMask
<1>. QED
  BY <1>1, <1>2, <1>5, <1>6, <1>7, <1>8 DEF Fulfils

LEMMA MasksNested ==
    ASSUME NEW kind \in Kindred, NEW s \in Fitting(kind), NEW t \in Fitting(kind)
    PROVE  /\ Len(s) <= Len(t) <=> TextMask(s) \subseteq TextMask(t)
           /\ Len(s) = Len(t) <=> TextMask(s) = TextMask(t)
           /\ Len(s) < Len(t) <=> IntLess(TextMask(s), TextMask(t))
<1>1. /\ Len(s) \in Nat /\ Len(t) \in Nat /\ CharBits * Len(s) \in Nat /\ CharBits * Len(t) \in Nat
      /\ TextMask(s) \in SUBSET (0 .. LastBit) /\ TextMask(t) \in SUBSET (0 .. LastBit)
      /\ LastBit \in Nat
  BY FittingText
<1>2. CharBits \in Nat \ {0}
  BY FiltersAssumption
<1>3. \A i, j \in Nat : /\ i <= j => First(CharBits * i) \subseteq First(CharBits * j)
                        /\ i < j => First(CharBits * i) # First(CharBits * j)
  <2>. TAKE i, j \in Nat
  <2>1. CharBits * i \in Nat /\ CharBits * j \in Nat /\ (i <= j => CharBits * i <= CharBits * j)
    BY <1>2
  <2>2. i < j => CharBits * i < CharBits * j
    <3>1. i < j => CharBits * (i + 1) <= CharBits * j
      BY <1>2
    <3>2. CharBits * (i + 1) = CharBits * i + CharBits
      BY <1>2
    <3>. QED
      BY <1>2, <2>1, <3>1, <3>2
  <2>3. CharBits * i <= CharBits * j => First(CharBits * i) \subseteq First(CharBits * j)
    <3>1. CharBits * i <= CharBits * j => 0 .. CharBits * i - 1 \subseteq 0 .. CharBits * j - 1
      BY <2>1
    <3>. QED
      BY <3>1 DEF First
  <2>4. CharBits * i < CharBits * j => First(CharBits * i) # First(CharBits * j)
    <3>1. Nth(CharBits * i) \in First(CharBits * j) <=> CharBits * i < CharBits * j
      BY <2>1, FirstBits
    <3>2. Nth(CharBits * i) \in First(CharBits * i) <=> CharBits * i < CharBits * i
      BY <2>1, FirstBits
    <3>. QED
      BY <2>1, <3>1, <3>2
  <2>. QED
    BY <2>1, <2>2, <2>3, <2>4
<1>4. /\ Len(s) <= Len(t) => TextMask(s) \subseteq TextMask(t)
      /\ Len(t) <= Len(s) => TextMask(t) \subseteq TextMask(s)
      /\ Len(s) < Len(t) => TextMask(s) # TextMask(t)
      /\ Len(t) < Len(s) => TextMask(t) # TextMask(s)
  BY <1>1, <1>3 DEF TextMask
<1>5. Len(s) < Len(t) => IntLess(TextMask(s), TextMask(t))
  BY <1>1, <1>4, AboveWider, RanksOfBits, LessIsAbove
<1>6. Len(t) <= Len(s) => ~IntLess(TextMask(s), TextMask(t))
  BY <1>1, <1>4, AboveWider, RanksOfBits, LessIsAbove
<1>7. (Len(s) <= Len(t) \/ Len(t) < Len(s)) /\ (Len(s) < Len(t) \/ Len(t) <= Len(s))
      /\ (Len(s) = Len(t) <=> Len(s) <= Len(t) /\ Len(t) <= Len(s))
      /\ (Len(t) < Len(s) => Len(t) <= Len(s)) /\ (Len(s) < Len(t) => Len(s) <= Len(t))
      /\ (Len(t) <= Len(s) => ~(Len(s) < Len(t))) /\ (Len(t) < Len(s) => ~(Len(s) <= Len(t)))
  BY <1>1
<1>8. Len(s) <= Len(t) <=> TextMask(s) \subseteq TextMask(t)
  BY ONLY <1>4, <1>7
<1>9. Len(s) = Len(t) <=> TextMask(s) = TextMask(t)
  BY ONLY <1>4, <1>7
<1>10. Len(s) < Len(t) <=> IntLess(TextMask(s), TextMask(t))
  BY ONLY <1>5, <1>6, <1>7
<1>. QED
  BY <1>8, <1>9, <1>10

\* What AddText does with a text.
LEMMA AddedIs ==
    ASSUME NEW kind \in Kindred, NEW table, NEW X, NEW text \in Seq(X)
    PROVE  /\ text \notin Fitting(kind) => AddText(kind, table, text) = table
           /\ text \in Fitting(kind) =>
                 AddText(kind, table, text) =
                    IF kind = "omit" THEN ifilter_addflatten(table, TextFilter(kind, text), TextMask(text))
                    ELSE [table EXCEPT !.vec = Append(@, TextFilter(kind, text))]
<1>. DEFINE valid == base32_valid(text)
<1>. DEFINE len == FromLen(valid.count)
<1>. DEFINE bf == base32_from(text, {})
<1>. DEFINE m == Ones((len - 1) * ByteBits) \cup At(bf.mask, len - 1)
<1>. DEFINE filter == [f |-> bf.dst \cap m, m |-> IF kind = "omit" THEN {} ELSE m,
                       len |-> IF kind = "bin" THEN len - 1 ELSE 0]
<1>1. AddText(kind, table, text) =
        IF ~valid.ok \/ len = 0 \/ len > (IF kind = "bin" THEN PublicLen ELSE IntLen)
        THEN table
        ELSE IF kind = "omit" THEN ifilter_addflatten(table, filter, m)
        ELSE [table EXCEPT !.vec = Append(@, filter)]
  BY DEF AddText
<1>2. valid.ok <=> text \in Seq(Digits)
  BY ValidIs
<1>3. valid.ok => len = FromLen(Len(text))
  BY ValidIs
<1>. HIDE DEF valid, filter, m
<1>4. CASE text \notin Seq(Digits)
  BY <1>1, <1>2, <1>4 DEF Fitting
<1>5. CASE text \in Seq(Digits) /\ text = <<>>
  <2>1. len = 0
    BY <1>2, <1>3, <1>5, FromLenZero
  <2>. QED
    BY <1>1, <1>5, <2>1 DEF Fitting
<1>6. CASE text \in Seq(Digits) /\ text # <<>>
  <2>. DEFINE limit == IF kind = "bin" THEN PublicLen ELSE IntLen
  <2>1. /\ len = bf.len /\ len \in Nat \ {0} /\ m = TextMask(text)
        /\ bf.dst = TextBits(text, Len(text)) /\ bf.dst \subseteq TextMask(text)
    BY <1>2, <1>3, <1>6, TextRead DEF m, TextMask
  <2>2. limit \in Nat /\ (text \in Fitting(kind) <=> len <= limit)
    BY <1>2, <1>3, <1>6, FiltersAssumption DEF Fitting
  <2>3. bf.dst \cap m = TextBits(text, Len(text))
    BY <2>1
  <2>4. filter = TextFilter(kind, text)
    BY <1>2, <1>3, <1>6, <2>1, <2>3 DEF filter, TextFilter
  <2>. HIDE DEF len, bf
  <2>5. CASE len > limit
    BY <1>1, <2>1, <2>2, <2>5
  <2>6. CASE ~(len > limit)
    <3>1. text \in Fitting(kind) /\ len # 0 /\ valid.ok
      BY <1>2, <1>6, <2>1, <2>2, <2>6
    <3>. QED
      BY <1>1, <2>1, <2>4, <2>6, <3>1
  <2>. QED
    BY <2>5, <2>6
<1>. QED
  BY <1>4, <1>5, <1>6


\* The filters that texts ask for.  With OMITMASK all have the mask of the
\* longest, and a shorter one stands there once for each way to continue it.
OmitFilter(x) == [f |-> x, m |-> {}, len |-> 0]
AskedFilters(kind, mask, T) ==
    IF kind = "omit" THEN {OmitFilter(x) : x \in {y \in SUBSET mask : \E t \in T : Fulfils(t, y)}}
    ELSE {TextFilter(kind, t) : t \in T}
OneLength(T) == \A s, t \in T : Len(s) = Len(t)

\* A table with exactly the filters that the texts T ask for.
Loaded(kind, table, T) ==
    /\ T \in SUBSET Fitting(kind)
    /\ table \in [vec : {table.vec}, mask : {table.mask}, flattened : BOOLEAN]
    /\ Listing(table.vec) /\ Range(table.vec) = AskedFilters(kind, table.mask, T)
    /\ IF kind = "omit" /\ T # {}
       THEN \E t \in T : table.mask = TextMask(t) /\ \A s \in T : Len(s) <= Len(t)
       ELSE table.mask = {}
    /\ kind = "omit" /\ ~table.flattened => OneLength(T)

\* A longer mask: what texts ask for under it are the filters they ask for
\* under the shorter one, each continued in every way.
LEMMA AskedLonger ==
    ASSUME NEW T \in SUBSET Fitting("omit"), NEW m, NEW M, m \in SUBSET M,
           \A t \in T : TextMask(t) \subseteq m
    PROVE  AskedFilters("omit", M, T) = Continuations(AskedFilters("omit", m, T), M \ m)
<1>1. ASSUME NEW x, NEW z PROVE Continued(OmitFilter(x), z) = OmitFilter(x \cup z)
  <2>. DEFINE a == OmitFilter(x)
  <2>1. a \in [f : {x}, m : {{}}, len : {0}] /\ a.f = x
    BY DEF OmitFilter
  <2>. HIDE DEF a
  <2>2. [a EXCEPT !.f = @ \cup z] = [f |-> x \cup z, m |-> {}, len |-> 0]
    BY <2>1
  <2>. QED
    BY <2>2 DEF Continued, OmitFilter, a
<1>2. ASSUME NEW x \in SUBSET m, NEW z \in SUBSET (M \ m), NEW t \in T
      PROVE  Fulfils(t, x \cup z) <=> Fulfils(t, x)
  <2>1. (x \cup z) \cap TextMask(t) = x \cap TextMask(t)
    OBVIOUS
  <2>. QED
    BY <2>1 DEF Fulfils
<1>3. ASSUME NEW a \in AskedFilters("omit", m, T), NEW z \in SUBSET (M \ m)
      PROVE  Continued(a, z) \in AskedFilters("omit", M, T)
  <2>1. PICK x \in SUBSET m : a = OmitFilter(x) /\ \E t \in T : Fulfils(t, x)
    BY DEF AskedFilters
  <2>2. x \cup z \in SUBSET M /\ \E t \in T : Fulfils(t, x \cup z)
    BY <1>2, <2>1
  <2>3. Continued(a, z) = OmitFilter(x \cup z)
    BY <1>1, <2>1
  <2>. QED
    BY <2>2, <2>3 DEF AskedFilters
<1>4. ASSUME NEW a \in AskedFilters("omit", M, T)
      PROVE  \E b \in AskedFilters("omit", m, T) : \E z \in SUBSET (M \ m) : a = Continued(b, z)
  <2>1. PICK y \in SUBSET M : a = OmitFilter(y) /\ \E t \in T : Fulfils(t, y)
    BY DEF AskedFilters
  <2>. DEFINE x == y \cap m
  <2>. DEFINE z == y \ m
  <2>2. x \in SUBSET m /\ z \in SUBSET (M \ m) /\ x \cup z = y
    OBVIOUS
  <2>. HIDE DEF x, z
  <2>3. \E t \in T : Fulfils(t, x)
    BY <1>2, <2>1, <2>2
  <2>4. OmitFilter(x) \in AskedFilters("omit", m, T)
    BY <2>2, <2>3 DEF AskedFilters
  <2>5. a = Continued(OmitFilter(x), z)
    BY <1>1, <2>1, <2>2
  <2>. QED
    BY <2>2, <2>4, <2>5
<1>. QED
  BY <1>3, <1>4 DEF Continuations

\* One text asks for its own filter.
LEMMA AskedOne ==
    ASSUME NEW kind \in Kindred, NEW text \in Fitting(kind)
    PROVE  AskedFilters(kind, IF kind = "omit" THEN TextMask(text) ELSE {}, {text})
             = {TextFilter(kind, text)}
<1>1. CASE kind # "omit"
  BY <1>1 DEF AskedFilters
<1>2. CASE kind = "omit"
  <2>1. TextBits(text, Len(text)) \in SUBSET TextMask(text) /\ Fulfils(text, TextBits(text, Len(text)))
    BY FittingText
  <2>2. \A y \in SUBSET TextMask(text) : Fulfils(text, y) => y = TextBits(text, Len(text))
    BY DEF Fulfils
  <2>3. {y \in SUBSET TextMask(text) : \E t \in {text} : Fulfils(t, y)} = {TextBits(text, Len(text))}
    BY <2>1, <2>2
  <2>4. TextFilter(kind, text) = OmitFilter(TextBits(text, Len(text)))
    BY <1>2 DEF TextFilter, OmitFilter
  <2>. QED
    BY <1>2, <2>3, <2>4 DEF AskedFilters
<1>. QED
  BY <1>1, <1>2

LEMMA LoadedAppend ==
    ASSUME NEW vec, Listing(vec), NEW filter
    PROVE  Listing(Append(vec, filter)) /\ Range(Append(vec, filter)) = Range(vec) \cup {filter}
<1>. DEFINE S == Range(vec) \cup {filter}
<1>. DEFINE new == Append(vec, filter)
<1>0. \A i \in DOMAIN vec : vec[i] \in Range(vec)
  BY DEF Range
<1>1. vec \in Seq(S) /\ filter \in S
  <2>1. Range(vec) \subseteq S /\ filter \in S
    OBVIOUS
  <2>. HIDE DEF S
  <2>. QED
    BY <2>1 DEF Listing
<1>. HIDE DEF S
<1>2. Len(vec) \in Nat /\ DOMAIN vec = 1 .. Len(vec) /\ new \in Seq(S) /\ Len(new) = Len(vec) + 1
  BY <1>1
<1>3. (\A i \in 1 .. Len(vec) : new[i] = vec[i]) /\ new[Len(vec) + 1] = filter
  BY <1>1
<1>. HIDE DEF new
<1>4. DOMAIN new = DOMAIN vec \cup {Len(vec) + 1} /\ \A i \in DOMAIN vec : new[i] = vec[i]
  BY <1>2, <1>3
<1>5. Range(new) = Range(vec) \cup {filter}
  <2>1. ASSUME NEW a \in Range(new) PROVE a \in Range(vec) \cup {filter}
    BY <1>3, <1>4 DEF Range
  <2>2. ASSUME NEW a \in Range(vec) \cup {filter} PROVE a \in Range(new)
    <3>1. CASE a = filter
      BY <1>3, <1>4, <3>1 DEF Range
    <3>2. CASE a \in Range(vec)
      BY <1>4, <3>2 DEF Range
    <3>. QED
      BY <3>1, <3>2
  <2>. QED
    BY <2>1, <2>2
<1>6. Listing(new)
  BY <1>2, ListingOf
<1>. QED
  BY <1>5, <1>6 DEF new


LEMMA LoadedEmpty ==
    ASSUME NEW kind \in Kindred
    PROVE  Loaded(kind, EmptyTable, {})
<1>1. AskedFilters(kind, {}, {}) = {}
  BY DEF AskedFilters
<1>2. /\ EmptyTable.vec = <<>> /\ EmptyTable.mask = {}
      /\ EmptyTable \in [vec : {<<>>}, mask : {{}}, flattened : BOOLEAN]
  BY DEF EmptyTable
<1>3. Range(<<>>) = {} /\ <<>> \in Seq({})
  BY DEF Range
<1>. QED
  BY <1>1, <1>2, <1>3 DEF Loaded, Listing, OneLength

\* Nothing was loaded exactly if nothing was asked for.
LEMMA LoadedSome ==
    ASSUME NEW kind \in Kindred, NEW table, NEW T, Loaded(kind, table, T)
    PROVE  table.vec = <<>> <=> T = {}
<1>0. Listing(table.vec) /\ Range(table.vec) = AskedFilters(kind, table.mask, T)
  BY DEF Loaded
<1>1. table.vec \in Seq(AskedFilters(kind, table.mask, T))
  BY <1>0 DEF Listing
<1>2. T = {} => AskedFilters(kind, table.mask, T) = {}
  BY DEF AskedFilters
<1>3. T = {} => table.vec = <<>>
  BY <1>1, <1>2
<1>4. ASSUME NEW t \in T PROVE AskedFilters(kind, table.mask, T) # {}
  <2>1. CASE kind # "omit"
    BY <2>1 DEF AskedFilters
  <2>2. CASE kind = "omit"
    <3>1. t \in Fitting(kind) /\ T \in SUBSET Fitting(kind)
      BY DEF Loaded
    <3>2. TextBits(t, Len(t)) \in SUBSET TextMask(t) /\ Fulfils(t, TextBits(t, Len(t)))
      BY <3>1, FittingText
    <3>3. PICK u \in T : table.mask = TextMask(u) /\ Len(t) <= Len(u)
      BY <2>2 DEF Loaded
    <3>4. TextMask(t) \subseteq TextMask(u)
      BY <3>1, <3>3, MasksNested
    <3>5. TextBits(t, Len(t)) \in SUBSET table.mask
      BY <3>2, <3>3, <3>4
    <3>. QED
      BY <2>2, <3>2, <3>5 DEF AskedFilters
  <2>. QED
    BY <2>1, <2>2
<1>5. T # {} => Range(table.vec) # {}
  BY <1>0, <1>4
<1>6. table.vec = <<>> => Range(table.vec) = {}
  BY DEF Range
<1>. QED
  BY <1>3, <1>5, <1>6

\* A text that fits is added to the table as it is asked for.
LEMMA LoadedPlain ==
    ASSUME NEW kind \in Kindred, kind # "omit", NEW table, NEW T, Loaded(kind, table, T),
           NEW text \in Fitting(kind)
    PROVE  Loaded(kind, [table EXCEPT !.vec = Append(@, TextFilter(kind, text))], T \cup {text})
<1>. DEFINE filter == TextFilter(kind, text)
<1>. DEFINE new == [table EXCEPT !.vec = Append(@, filter)]
<1>1. \A x : AskedFilters(kind, x, T \cup {text}) = AskedFilters(kind, x, T) \cup {filter}
  BY DEF AskedFilters
<1>2. /\ table \in [vec : {table.vec}, mask : {table.mask}, flattened : BOOLEAN]
      /\ Listing(table.vec) /\ Range(table.vec) = AskedFilters(kind, table.mask, T)
      /\ table.mask = {} /\ T \cup {text} \in SUBSET Fitting(kind)
  BY DEF Loaded
<1>. HIDE DEF filter
<1>3. /\ Listing(Append(table.vec, filter))
      /\ Range(Append(table.vec, filter)) = Range(table.vec) \cup {filter}
  BY <1>2, LoadedAppend
<1>4. /\ new.vec = Append(table.vec, filter) /\ new.mask = table.mask
      /\ new \in [vec : {new.vec}, mask : {new.mask}, flattened : BOOLEAN]
  BY <1>2
<1>. HIDE DEF new
<1>5. Range(new.vec) = AskedFilters(kind, new.mask, T \cup {text})
  BY <1>1, <1>2, <1>3, <1>4
<1>6. Loaded(kind, new, T \cup {text})
  BY <1>2, <1>3, <1>4, <1>5 DEF Loaded
<1>. QED
  BY <1>6 DEF new, filter

\* ifilter_addflatten gives every filter of the table the mask of the longest.
LEMMA LoadedFlatten ==
    ASSUME NEW table, NEW T, Loaded("omit", table, T), NEW text \in Fitting("omit")
    PROVE  Loaded("omit", ifilter_addflatten(table, TextFilter("omit", text), TextMask(text)),
                  T \cup {text})
<1>. DEFINE vec == table.vec
<1>. DEFINE m == table.mask
<1>. DEFINE M == TextMask(text)
<1>. DEFINE filter == TextFilter("omit", text)
<1>. DEFINE nb == SymDiff(m, M)
<1>. DEFINE new == ifilter_addflatten(table, filter, M)
<1>. DEFINE both == T \cup {text}
<1>. SUFFICES Loaded("omit", new, both)
  OBVIOUS
<1>0. "omit" \in Kindred
  BY DEF Kindred
<1>1. /\ T \in SUBSET Fitting("omit") /\ both \in SUBSET Fitting("omit")
      /\ Listing(vec) /\ Range(vec) = AskedFilters("omit", m, T)
      /\ table \in [vec : {vec}, mask : {m}, flattened : BOOLEAN]
  BY DEF Loaded
<1>2. T # {} => \E t \in T : m = TextMask(t) /\ \A s \in T : Len(s) <= Len(t)
  BY DEF Loaded
<1>3. AskedFilters("omit", M, {text}) = {filter} /\ M \in SUBSET (0 .. LastBit)
  BY <1>0, AskedOne, FittingText
<1>4. /\ AskedFilters("omit", m, both) = AskedFilters("omit", m, T) \cup AskedFilters("omit", m, {text})
      /\ AskedFilters("omit", M, both) = AskedFilters("omit", M, T) \cup AskedFilters("omit", M, {text})
  <2>. SUFFICES ASSUME NEW x
                PROVE  AskedFilters("omit", x, both)
                         = AskedFilters("omit", x, T) \cup AskedFilters("omit", x, {text})
    OBVIOUS
  <2>. QED
    BY DEF AskedFilters
<1>5. vec = <<>> <=> T = {}
  BY <1>0, LoadedSome
<1>6. new = IF vec = <<>> THEN [table EXCEPT !.vec = <<filter>>, !.mask = M]
            ELSE IF nb = {} THEN [table EXCEPT !.vec = Append(@, filter)]
            ELSE IF IntLess(M, m)
            THEN [table EXCEPT !.vec = ifilter_addexpanded(@, filter, nb), !.flattened = TRUE]
            ELSE [vec |-> Append(ifilter_expand(vec, nb), filter), mask |-> M, flattened |-> TRUE]
  BY DEF ifilter_addflatten
<1>8. Len(text) \in Nat /\ \A t \in both : Len(t) \in Nat
  BY <1>0, <1>1, FittingText
<1>. HIDE DEF new, nb, filter
\* It is enough to look at the filters and the mask.
<1>7. ASSUME new \in [vec : {new.vec}, mask : {new.mask}, flattened : BOOLEAN], Listing(new.vec),
             Range(new.vec) = AskedFilters("omit", new.mask, both),
             \E t \in both : new.mask = TextMask(t) /\ \A s \in both : Len(s) <= Len(t),
             new.flattened \/ OneLength(both)
      PROVE  Loaded("omit", new, both)
  BY <1>1, <1>7 DEF Loaded
<1>. HIDE DEF M
<1>9. CASE vec = <<>>
  <2>1. both = {text} /\ new = [table EXCEPT !.vec = <<filter>>, !.mask = M]
    BY <1>5, <1>6, <1>9
  <2>2. /\ new.vec = <<filter>> /\ new.mask = M
        /\ new \in [vec : {new.vec}, mask : {new.mask}, flattened : BOOLEAN]
    BY <1>1, <2>1
  <2>3. Range(<<filter>>) = {filter} /\ Listing(<<filter>>)
    <3>1. <<filter>> \in Seq({filter}) /\ DOMAIN <<filter>> = {1} /\ <<filter>>[1] = filter
      OBVIOUS
    <3>. QED
      BY <3>1 DEF Range, Listing
  <2>4. \E t \in both : new.mask = TextMask(t) /\ \A s \in both : Len(s) <= Len(t)
    BY <1>8, <2>1, <2>2 DEF M
  <2>5. Range(new.vec) = AskedFilters("omit", new.mask, both) /\ Listing(new.vec)
    BY <1>3, <2>1, <2>2, <2>3
  <2>6. OneLength(both)
    BY <2>1 DEF OneLength
  <2>. QED
    BY ONLY <1>7, <2>2, <2>4, <2>5, <2>6
<1>10. CASE vec # <<>>
  <2>1. PICK u \in T : m = TextMask(u) /\ \A s \in T : Len(s) <= Len(u)
    BY <1>2, <1>5, <1>10
  <2>2. u \in Fitting("omit") /\ u \in both
    BY <1>1
  <2>3. /\ Len(u) <= Len(text) <=> m \subseteq M
        /\ Len(text) <= Len(u) <=> M \subseteq m
        /\ Len(u) = Len(text) <=> m = M
        /\ Len(text) < Len(u) <=> IntLess(M, m)
    <3>1. /\ Len(u) <= Len(text) <=> TextMask(u) \subseteq TextMask(text)
          /\ Len(text) <= Len(u) <=> TextMask(text) \subseteq TextMask(u)
          /\ Len(u) = Len(text) <=> TextMask(u) = TextMask(text)
          /\ Len(text) < Len(u) <=> IntLess(TextMask(text), TextMask(u))
      BY <1>0, <2>2, MasksNested
    <3>. QED
      BY <2>1, <3>1 DEF M
  <2>4. m \in SUBSET (0 .. LastBit) /\ \A t \in T : TextMask(t) \subseteq m
    <3>1. \A t \in T : Len(t) <= Len(u) => TextMask(t) \subseteq TextMask(u)
      BY <1>0, <1>1, <2>2, MasksNested
    <3>2. TextMask(u) \in SUBSET (0 .. LastBit)
      BY <1>0, <2>2, FittingText
    <3>. QED
      BY <2>1, <3>1, <3>2
  <2>5. nb \in SUBSET (0 .. LastBit) /\ (nb = {} <=> m = M)
        /\ (M \subseteq m => nb = m \ M) /\ (m \subseteq M => nb = M \ m)
    BY <1>3, <2>4 DEF SymDiff, nb
  <2>6. Len(u) \in Nat
    BY <1>8, <2>2
  <2>7. CASE Len(text) = Len(u)
    <3>1. m = M /\ new = [table EXCEPT !.vec = Append(@, filter)]
      BY <1>6, <1>8, <1>10, <2>3, <2>5, <2>6, <2>7
    <3>2. AskedFilters("omit", m, both) = Range(vec) \cup {filter}
      BY <1>1, <1>3, <1>4, <3>1
    <3>3. Listing(Append(vec, filter)) /\ Range(Append(vec, filter)) = Range(vec) \cup {filter}
      BY <1>1, LoadedAppend
    <3>4. /\ new.vec = Append(vec, filter) /\ new.mask = m
          /\ new \in [vec : {new.vec}, mask : {new.mask}, flattened : BOOLEAN]
      BY <1>1, <3>1
    <3>5. Range(new.vec) = AskedFilters("omit", new.mask, both) /\ Listing(new.vec)
      BY <3>2, <3>3, <3>4
    <3>6. \A s \in both : Len(s) <= Len(u)
      BY <1>8, <2>1, <2>6, <2>7
    <3>7. \E t \in both : new.mask = TextMask(t) /\ \A s \in both : Len(s) <= Len(t)
      BY <2>1, <2>2, <3>4, <3>6
    <3>8. new.flattened \/ OneLength(both)
      <4>1. new.flattened = table.flattened
        BY <1>1, <3>1
      <4>2. ASSUME ~table.flattened PROVE OneLength(both)
        <5>1. \A s \in T : Len(s) = Len(u)
          BY <4>2 DEF Loaded, OneLength
        <5>. QED
          BY <2>7, <5>1 DEF OneLength
      <4>. QED
        BY <4>1, <4>2
    <3>. QED
      BY ONLY <1>7, <3>4, <3>5, <3>7, <3>8
  <2>8. CASE Len(text) < Len(u)
    <3>1. /\ M \subseteq m /\ nb = m \ M /\ nb # {}
          /\ new = [table EXCEPT !.vec = ifilter_addexpanded(@, filter, nb), !.flattened = TRUE]
      BY <1>6, <1>8, <1>10, <2>3, <2>5, <2>6, <2>8
    <3>2. AskedFilters("omit", m, {text}) = Continuations({filter}, nb)
      <4>1. /\ {text} \in SUBSET Fitting("omit") /\ M \in SUBSET m
            /\ \A t \in {text} : TextMask(t) \subseteq M
        BY <3>1 DEF M
      <4>2. AskedFilters("omit", m, {text}) = Continuations(AskedFilters("omit", M, {text}), m \ M)
        BY ONLY <4>1, AskedLonger
      <4>. QED
        BY <1>3, <3>1, <4>2
    <3>3. /\ Listing(ifilter_addexpanded(vec, filter, nb))
          /\ Range(ifilter_addexpanded(vec, filter, nb)) = Range(vec) \cup Continuations({filter}, nb)
      BY <1>1, <2>5, <3>1, AddExpandedAll
    <3>4. /\ new.vec = ifilter_addexpanded(vec, filter, nb) /\ new.mask = m
          /\ new \in [vec : {new.vec}, mask : {new.mask}, flattened : BOOLEAN]
      BY <1>1, <3>1
    <3>5. Range(new.vec) = AskedFilters("omit", new.mask, both) /\ Listing(new.vec)
      BY <1>1, <1>4, <3>2, <3>3, <3>4
    <3>6. \A s \in both : Len(s) <= Len(u)
      BY <1>8, <2>1, <2>6, <2>8
    <3>7. \E t \in both : new.mask = TextMask(t) /\ \A s \in both : Len(s) <= Len(t)
      BY <2>1, <2>2, <3>4, <3>6
    <3>8. new.flattened
      BY <1>1, <3>1
    <3>. QED
      BY ONLY <1>7, <3>4, <3>5, <3>7, <3>8
  <2>9. CASE Len(u) < Len(text)
    <3>1. /\ m \subseteq M /\ nb = M \ m /\ nb # {}
          /\ new = [vec |-> Append(ifilter_expand(vec, nb), filter), mask |-> M, flattened |-> TRUE]
      BY <1>6, <1>8, <1>10, <2>3, <2>5, <2>6, <2>9
    <3>2. AskedFilters("omit", M, T) = Continuations(Range(vec), nb)
      <4>1. /\ T \in SUBSET Fitting("omit") /\ m \in SUBSET M
            /\ \A t \in T : TextMask(t) \subseteq m
        BY <1>1, <2>4, <3>1
      <4>2. AskedFilters("omit", M, T) = Continuations(AskedFilters("omit", m, T), M \ m)
        BY ONLY <4>1, AskedLonger
      <4>. QED
        BY <1>1, <3>1, <4>2
    <3>3. /\ Listing(ifilter_expand(vec, nb))
          /\ Range(ifilter_expand(vec, nb)) = Continuations(Range(vec), nb)
      BY <1>1, <1>10, <2>5, <3>1, ExpandAll
    <3>. DEFINE R == ifilter_expand(vec, nb)
    <3>4. Listing(Append(R, filter)) /\ Range(Append(R, filter)) = Range(R) \cup {filter}
      BY <3>3, LoadedAppend
    <3>. HIDE DEF R
    <3>5. /\ new.vec = Append(R, filter) /\ new.mask = M
          /\ new \in [vec : {new.vec}, mask : {new.mask}, flattened : BOOLEAN]
      BY <3>1 DEF R
    <3>6. Range(new.vec) = AskedFilters("omit", new.mask, both) /\ Listing(new.vec)
      <4>1. Range(R) = AskedFilters("omit", M, T)
        BY <3>2, <3>3 DEF R
      <4>2. AskedFilters("omit", M, both) = AskedFilters("omit", M, T) \cup {filter}
        BY <1>3, <1>4
      <4>. QED
        BY <3>4, <3>5, <4>1, <4>2
    <3>7. \A s \in both : Len(s) <= Len(text)
      BY <1>8, <2>1, <2>6, <2>9
    <3>8. \E t \in both : new.mask = TextMask(t) /\ \A s \in both : Len(s) <= Len(t)
      BY <3>5, <3>7 DEF M
    <3>9. new.flattened
      BY <3>1
    <3>. QED
      BY ONLY <1>7, <3>5, <3>6, <3>8, <3>9
  <2>. QED
    BY <1>8, <2>6, <2>7, <2>8, <2>9
<1>. QED
  BY <1>9, <1>10

\* The table has the filters that the texts before and this one,
\* if it fits, ask for.
LEMMA LoadedText ==
    ASSUME NEW kind \in Kindred, NEW table, NEW T, Loaded(kind, table, T), NEW X, NEW text \in Seq(X)
    PROVE  Loaded(kind, AddText(kind, table, text), T \cup ({text} \cap Fitting(kind)))
<1>1. CASE text \notin Fitting(kind)
  <2>1. T \cup ({text} \cap Fitting(kind)) = T
    BY <1>1
  <2>2. AddText(kind, table, text) = table
    BY <1>1, AddedIs
  <2>. QED
    BY <2>1, <2>2
<1>2. CASE text \in Fitting(kind)
  <2>1. T \cup ({text} \cap Fitting(kind)) = T \cup {text}
    BY <1>2
  <2>2. AddText(kind, table, text) =
           IF kind = "omit" THEN ifilter_addflatten(table, TextFilter(kind, text), TextMask(text))
           ELSE [table EXCEPT !.vec = Append(@, TextFilter(kind, text))]
    BY <1>2, AddedIs
  <2>3. CASE kind = "omit"
    BY <1>2, <2>1, <2>2, <2>3, LoadedFlatten
  <2>4. CASE kind # "omit"
    <3>1. Loaded(kind, [table EXCEPT !.vec = Append(@, TextFilter(kind, text))], T \cup {text})
      BY ONLY kind \in Kindred, Loaded(kind, table, T), <1>2, <2>4, LoadedPlain
    <3>. QED
      BY <2>1, <2>2, <2>4, <3>1
  <2>. QED
    BY <2>3, <2>4
<1>. QED
  BY <1>1, <1>2

\* filters_add does that with the text behind the caret.
LEMMA LoadedAdd ==
    ASSUME NEW kind \in Kindred, NEW table, NEW T, Loaded(kind, table, T), NEW X, NEW text \in Seq(X)
    PROVE  Loaded(kind, filters_add(kind, table, text), T \cup ({Unanchored(text)} \cap Fitting(kind)))
<1>1. Unanchored(text) \in Seq(X)
  BY DEF Unanchored
<1>. QED
  BY <1>1, LoadedText DEF filters_add

\* The mask of a filter, and the part of it that whole bytes make.
LEMMA FilterParts ==
    ASSUME NEW kind \in Kindred, NEW text \in Fitting(kind)
    PROVE  LET a == TextFilter(kind, text)
           IN  /\ a \in [f : SUBSET (0 .. LastBit), m : SUBSET (0 .. LastBit), len : Nat]
               /\ Beginning(LastBit, TextMask(text))
               /\ a.f = TextBits(text, Len(text))
               /\ kind = "omit" => a.m = {} /\ a.len = 0
               /\ kind # "omit" => a.m = TextMask(text) /\ a.f \subseteq a.m
               /\ kind # "bin" => a.len = 0
               /\ kind = "bin" => /\ a.len = FromLen(Len(text)) - 1
                                  /\ Whole(a) \subseteq a.m
                                  /\ a.m \subseteq Whole(a) \cup LastByte(a)
<1>. DEFINE a == TextFilter(kind, text)
<1>. DEFINE n == CharBits * Len(text)
<1>1. /\ text \in Seq(Digits) /\ text # <<>> /\ n \in Nat /\ LastBit \in Nat
      /\ TextMask(text) \in SUBSET (0 .. LastBit)
      /\ TextBits(text, Len(text)) \in SUBSET TextMask(text)
  <2>1. text # <<>>
    BY DEF Fitting
  <2>. QED
    BY <2>1, FittingText
<1>. HIDE DEF n
<1>2. FromLen(Len(text)) \in Nat \ {0}
  <2>1. LET r == base32_from(text, {}) IN r.len \in Nat \ {0} /\ r.len = FromLen(Len(text))
    BY <1>1, TextRead
  <2>. QED
    BY <2>1
<1>3. /\ a.f = TextBits(text, Len(text)) /\ a.m = (IF kind = "omit" THEN {} ELSE TextMask(text))
      /\ a.len = (IF kind = "bin" THEN FromLen(Len(text)) - 1 ELSE 0)
      /\ a \in [f : {a.f}, m : {a.m}, len : {a.len}]
  BY DEF TextFilter
<1>4. Beginning(LastBit, TextMask(text))
  <2>1. Leads(Memory(LastBit), LastBit, First(n) \cap (0 .. LastBit))
    BY <1>1, FirstBits
  <2>2. First(n) \cap (0 .. LastBit) = TextMask(text)
    BY <1>1 DEF TextMask, n
  <2>. QED
    BY <2>1, <2>2 DEF Beginning
<1>. HIDE DEF a
<1>5. ASSUME kind = "bin"
      PROVE  Whole(a) \subseteq a.m /\ a.m \subseteq Whole(a) \cup LastByte(a)
  <2>. DEFINE r == base32_from(text, {})
  <2>1. /\ r.len = FromLen(Len(text))
        /\ Ones((r.len - 1) * ByteBits) \cup At(r.mask, r.len - 1) = TextMask(text)
    BY <1>1, TextRead DEF TextMask
  <2>2. r.mask \in SUBSET (0 .. ByteBits - 1)
    BY <1>1, Base32From
  <2>. HIDE DEF r
  <2>3. Whole(a) = Ones((r.len - 1) * ByteBits)
    BY <1>3, <1>5, <2>1 DEF Whole
  <2>4. At(r.mask, r.len - 1) \subseteq LastByte(a)
    <3>1. LastByte(a) = At(Ones(ByteBits), r.len - 1)
      BY <1>3, <1>5, <2>1 DEF LastByte
    <3>. QED
      BY <2>2, <3>1 DEF At, Shift, Ones
  <2>. QED
    BY <1>3, <1>5, <2>1, <2>3, <2>4
<1>6. a.len \in Nat /\ a.f \in SUBSET (0 .. LastBit) /\ a.m \in SUBSET (0 .. LastBit)
  BY <1>1, <1>2, <1>3
<1>7. a \in [f : SUBSET (0 .. LastBit), m : SUBSET (0 .. LastBit), len : Nat]
  BY <1>3, <1>6
<1>. QED
  BY <1>1, <1>3, <1>4, <1>5, <1>7 DEF a

\* A table that was loaded is one that the search is made for.
LEMMA LoadedFilterSets ==
    ASSUME NEW kind \in Kindred, NEW table, NEW T, Loaded(kind, table, T)
    PROVE  /\ table.mask \in SUBSET (0 .. LastBit)
           /\ Range(table.vec) \in FilterSets(kind, LastBit, table.mask)
           /\ table \in [vec : Seq(Range(table.vec)), mask : {table.mask}, flattened : BOOLEAN]
<1>. DEFINE mask == table.mask
<1>. DEFINE S == Range(table.vec)
<1>. DEFINE F == [f : SUBSET (0 .. LastBit), m : SUBSET (0 .. LastBit), len : Nat]
<1>1. /\ table \in [vec : {table.vec}, mask : {table.mask}, flattened : BOOLEAN]
      /\ table.vec \in Seq(S) /\ S = AskedFilters(kind, mask, T) /\ T \in SUBSET Fitting(kind)
  BY DEF Loaded, Listing
<1>2. mask \in SUBSET (0 .. LastBit)
  <2>1. CASE kind = "omit" /\ T # {}
    <3>1. PICK t \in T : mask = TextMask(t)
      BY <2>1 DEF Loaded
    <3>. QED
      BY <1>1, <3>1, FittingText
  <2>2. CASE ~(kind = "omit" /\ T # {})
    BY <2>2 DEF Loaded
  <2>. QED
    BY <2>1, <2>2
<1>. HIDE DEF mask, S
<1>3. ASSUME kind = "omit" PROVE S \in FilterSets(kind, LastBit, mask)
  <2>1. ASSUME NEW a \in S PROVE a \in F /\ a.f \subseteq mask /\ a.m = {} /\ a.len = 0
    <3>1. PICK y \in SUBSET mask : a = OmitFilter(y)
      BY <1>1, <1>3 DEF AskedFilters
    <3>2. a.f = y /\ a.m = {} /\ a.len = 0 /\ a \in [f : {y}, m : {{}}, len : {0}]
      BY <3>1 DEF OmitFilter
    <3>3. y \in SUBSET (0 .. LastBit)
      BY <1>2
    <3>4. a \in F
      <4>1. {y} \subseteq SUBSET (0 .. LastBit) /\ {{}} \subseteq SUBSET (0 .. LastBit) /\ {0} \subseteq Nat
        BY <3>3
      <4>. QED
        BY ONLY <3>2, <4>1
    <3>5. a.f \subseteq mask
      BY <3>1, <3>2
    <3>. QED
      BY <3>2, <3>4, <3>5
  <2>. QED
    BY <1>3, <2>1 DEF FilterSets, FilterMask
<1>4. ASSUME kind # "omit" PROVE S \in FilterSets(kind, LastBit, mask)
  <2>1. ASSUME NEW a \in S
        PROVE  /\ a \in F /\ a.f \subseteq a.m /\ Beginning(LastBit, a.m)
               /\ kind # "bin" => a.len = 0
               /\ kind = "bin" => Whole(a) \subseteq a.m /\ a.m \subseteq Whole(a) \cup LastByte(a)
    <3>1. PICK t \in T : a = TextFilter(kind, t)
      BY <1>1, <1>4 DEF AskedFilters
    <3>2. t \in Fitting(kind)
      BY <1>1
    <3>. QED
      BY <1>4, <3>1, <3>2, FilterParts
  <2>. QED
    BY <1>4, <2>1 DEF FilterSets, FilterMask
<1>5. S \in FilterSets(kind, LastBit, mask)
  BY <1>3, <1>4
<1>6. table \in [vec : Seq(S), mask : {table.mask}, flattened : BOOLEAN]
  BY <1>1
<1>. QED
  BY <1>2, <1>5, <1>6 DEF mask, S

\* A key begins with a text exactly if it has the text's bits.
LEMMA FulfilsBegins ==
    ASSUME NEW kind \in Kindred, NEW text \in Fitting(kind), NEW pk \in SUBSET (0 .. LastBit)
    PROVE  Fulfils(text, pk) <=> IsPrefix(text, base32_to(pk, PublicLen))
<1>1. /\ text \in Seq(Digits) /\ CharBits * Len(text) <= ByteBits * PublicLen
      /\ 0 .. LastBit = Ones(ByteBits * PublicLen)
  BY FittingText
<1>2. PublicLen \in Nat /\ pk \in SUBSET Ones(ByteBits * PublicLen)
  BY <1>1, FiltersAssumption
<1>3. pk \cap First(CharBits * Len(text)) = TextBits(text, Len(text))
        <=> IsPrefix(text, base32_to(pk, PublicLen))
  BY <1>1, <1>2, TextMatch
<1>. QED
  BY <1>3 DEF Fulfils, TextMask

\* A key has a filter of the table exactly if it begins with one of the texts.
LEMMA LoadedHit ==
    ASSUME NEW kind \in Kindred, NEW table, NEW T, Loaded(kind, table, T),
           NEW pk \in SUBSET (0 .. LastBit)
    PROVE  (\E i \in DOMAIN table.vec : Hit(kind, table.mask, table.vec[i], pk))
             <=> \E t \in T : IsPrefix(t, base32_to(pk, PublicLen))
<1>1. Range(table.vec) = AskedFilters(kind, table.mask, T) /\ T \in SUBSET Fitting(kind)
  BY DEF Loaded
<1>2. (\E i \in DOMAIN table.vec : Hit(kind, table.mask, table.vec[i], pk))
        <=> \E a \in AskedFilters(kind, table.mask, T) : Hit(kind, table.mask, a, pk)
  BY <1>1 DEF Range
<1>3. \A t \in T : Fulfils(t, pk) <=> IsPrefix(t, base32_to(pk, PublicLen))
  BY <1>1, FulfilsBegins
<1>4. CASE kind # "omit"
  <2>1. ASSUME NEW t \in T PROVE Hit(kind, table.mask, TextFilter(kind, t), pk) <=> Fulfils(t, pk)
    BY <1>4 DEF Hit, FilterMask, TextFilter, Fulfils
  <2>2. (\E a \in AskedFilters(kind, table.mask, T) : Hit(kind, table.mask, a, pk))
          <=> \E t \in T : Hit(kind, table.mask, TextFilter(kind, t), pk)
    BY <1>4 DEF AskedFilters
  <2>. QED
    BY <1>2, <1>3, <2>1, <2>2
<1>5. CASE kind = "omit"
  <2>. DEFINE x == pk \cap table.mask
  <2>1. ASSUME NEW t \in T PROVE Fulfils(t, x) <=> Fulfils(t, pk)
    <3>1. PICK u \in T : table.mask = TextMask(u) /\ Len(t) <= Len(u)
      BY <1>5 DEF Loaded
    <3>2. TextMask(t) \subseteq table.mask
      BY <1>1, <3>1, MasksNested
    <3>3. x \cap TextMask(t) = pk \cap TextMask(t)
      BY <3>2
    <3>. QED
      BY <3>3 DEF Fulfils
  <2>2. \A y \in SUBSET table.mask : Hit(kind, table.mask, OmitFilter(y), pk) <=> y = x
    BY <1>5 DEF Hit, FilterMask, OmitFilter
  <2>3. x \in SUBSET table.mask
    OBVIOUS
  <2>. HIDE DEF x
  <2>4. (\E a \in AskedFilters(kind, table.mask, T) : Hit(kind, table.mask, a, pk))
          <=> \E y \in SUBSET table.mask : (\E t \in T : Fulfils(t, y))
                                              /\ Hit(kind, table.mask, OmitFilter(y), pk)
    BY <1>5 DEF AskedFilters
  <2>. QED
    BY <1>2, <1>3, <2>1, <2>2, <2>3, <2>4
<1>. QED
  BY <1>4, <1>5

LEMMA PrefixIs ==
    ASSUME NEW S, NEW s \in Seq(S), NEW t \in Seq(S)
    PROVE  IsPrefix(s, t) <=> Len(s) <= Len(t) /\ \A i \in 1 .. Len(s) : s[i] = t[i]
<1>1. Len(s) \in Nat /\ Len(t) \in Nat
  OBVIOUS
<1>2. ASSUME Len(s) <= Len(t)
      PROVE  SubSeq(s, 1, Len(s)) = SubSeq(t, 1, Len(s)) <=> \A i \in 1 .. Len(s) : s[i] = t[i]
  <2>1. /\ SubSeq(s, 1, Len(s)) = [i \in 1 .. Len(s) |-> s[i]]
        /\ SubSeq(t, 1, Len(s)) = [i \in 1 .. Len(s) |-> t[i]]
    BY <1>1, <1>2
  <2>. QED
    BY <2>1
<1>. QED
  BY <1>1, <1>2 DEF IsPrefix

LEMMA PrefixesNested ==
    ASSUME NEW S, NEW s \in Seq(S), NEW t \in Seq(S), NEW u \in Seq(S),
           IsPrefix(s, u), IsPrefix(t, u), Len(s) <= Len(t)
    PROVE  IsPrefix(s, t)
<1>1. Len(s) \in Nat /\ Len(t) \in Nat
  OBVIOUS
<1>2. (\A i \in 1 .. Len(s) : s[i] = u[i]) /\ \A i \in 1 .. Len(t) : t[i] = u[i]
  BY PrefixIs
<1>3. \A i \in 1 .. Len(s) : i \in 1 .. Len(t)
  BY <1>1
<1>. QED
  BY <1>2, <1>3, PrefixIs

\* If one filter begins another one, so does its text.
LEMMA FiltersBegin ==
    ASSUME NEW kind \in Kindred, kind # "omit", NEW mask, NEW s \in Fitting(kind), NEW t \in Fitting(kind),
           Begins(kind, mask, TextFilter(kind, s), TextFilter(kind, t))
    PROVE  IsPrefix(s, t)
<1>. DEFINE x == TextBits(t, Len(t))
<1>. DEFINE name == base32_to(x, PublicLen)
<1>1. TextMask(s) \subseteq TextMask(t) /\ TextBits(s, Len(s)) = x \cap TextMask(s)
  BY DEF Begins, FilterMask, TextFilter
<1>2. /\ x \in SUBSET TextMask(t) /\ TextMask(t) \in SUBSET (0 .. LastBit) /\ Fulfils(t, x)
      /\ t \in Seq(Digits) /\ s \in Seq(Digits)
      /\ 0 .. LastBit = Ones(ByteBits * PublicLen) /\ PublicLen \in Nat
  BY FittingText, FiltersAssumption
<1>. HIDE DEF x
<1>3. x \in SUBSET (0 .. LastBit) /\ Fulfils(s, x)
  BY <1>1, <1>2 DEF Fulfils
<1>4. IsPrefix(s, name) /\ IsPrefix(t, name)
  BY <1>2, <1>3, FulfilsBegins
<1>5. Len(s) <= Len(t)
  BY <1>1, MasksNested
<1>6. name \in Seq(Digits)
  BY <1>2, <1>3, Base32Text
<1>. HIDE DEF name
<1>. QED
  BY <1>2, <1>4, <1>5, <1>6, PrefixesNested

\* Where the search and the removal of duplicates can be relied on: where the
\* texts are of one length in bytes, or none begins another one.
Equal(T) == \A s, t \in T : FromLen(Len(s)) = FromLen(Len(t))
Apart(T) == \A s, t \in T : s = t \/ ~IsPrefix(s, t)
Dependable(kind, T, wantdedup, binsearch) ==
    /\ kind = "bin" /\ (binsearch \/ wantdedup) => Equal(T)
    /\ binsearch => kind = "omit" \/ wantdedup \/ Apart(T)

\* What was loaded finds the keys that begin with one of the texts.  For any
\* texts, and any key: what a search of the prepared table finds begins with a
\* text; a key that begins with one is found, where the search can be relied on;
\* and the device agrees with the search that tries filter after filter
\* (filters_main.inc.h:66-330, 452-569, filters_worker.inc.h:32-158,
\* cuda_worker.cu:77-90, 219-244).
THEOREM TextsFound ==
    ASSUME NEW kind \in Kindred, NEW table, NEW T, Loaded(kind, table, T),
           NEW wantdedup \in BOOLEAN, NEW binsearch \in BOOLEAN, NEW pk \in SUBSET (0 .. LastBit)
    PROVE  LET prepared == filters_prepare(kind, table, wantdedup)
               wanted == \E t \in T : IsPrefix(t, base32_to(pk, PublicLen))
           IN  /\ DOFILTER(kind, binsearch, prepared, pk) # 0 => wanted
               /\ wanted /\ Dependable(kind, T, wantdedup, binsearch)
                     => DOFILTER(kind, binsearch, prepared, pk) # 0
               /\ filter_match(cuda_set_filters(kind, prepared), pk)
                     <=> FirstMatch(kind, prepared, pk) # 0
<1>. DEFINE mask == table.mask
<1>. DEFINE vec == table.vec
<1>. DEFINE S == Range(vec)
<1>. DEFINE prepared == filters_prepare(kind, table, wantdedup)
<1>. DEFINE wanted == \E t \in T : IsPrefix(t, base32_to(pk, PublicLen))
<1>. DEFINE hit == \E i \in DOMAIN vec : Hit(kind, mask, vec[i], pk)
<1>. DEFINE onDevice == filter_match(cuda_set_filters(kind, prepared), pk)
<1>0. LastBit \in Nat
  BY BitsOfKey
<1>1. /\ mask \in SUBSET (0 .. LastBit) /\ S \in FilterSets(kind, LastBit, mask)
      /\ table \in [vec : Seq(S), mask : {mask}, flattened : BOOLEAN]
  BY LoadedFilterSets
<1>2. hit <=> wanted
  BY LoadedHit
<1>3. S = AskedFilters(kind, mask, T) /\ T \in SUBSET Fitting(kind)
  BY DEF Loaded
<1>4. kind = "bin" /\ Equal(T) => Alike(kind, S)
  <2>1. ASSUME kind = "bin", Equal(T), NEW a \in S, NEW b \in S PROVE a.len = b.len
    <3>1. PICK s \in T : a = TextFilter(kind, s)
      BY <1>3, <2>1 DEF AskedFilters
    <3>2. PICK t \in T : b = TextFilter(kind, t)
      BY <1>3, <2>1 DEF AskedFilters
    <3>. QED
      BY <2>1, <3>1, <3>2 DEF TextFilter, Equal
  <2>. QED
    BY <2>1 DEF Alike
<1>5. kind # "bin" => Alike(kind, S)
  BY DEF Alike
<1>6. ASSUME kind # "omit", Apart(T), NEW i \in DOMAIN vec, NEW j \in DOMAIN vec
      PROVE  vec[i] = vec[j] \/ ~Begins(kind, mask, vec[i], vec[j])
  <2>1. vec[i] \in S /\ vec[j] \in S
    BY DEF Range
  <2>2. PICK s \in T : vec[i] = TextFilter(kind, s)
    BY <1>3, <1>6, <2>1 DEF AskedFilters
  <2>3. PICK t \in T : vec[j] = TextFilter(kind, t)
    BY <1>3, <1>6, <2>1 DEF AskedFilters
  <2>4. s \in Fitting(kind) /\ t \in Fitting(kind)
    BY <1>3
  <2>5. Begins(kind, mask, vec[i], vec[j]) => IsPrefix(s, t)
    BY <1>6, <2>2, <2>3, <2>4, FiltersBegin
  <2>. QED
    BY <1>6, <2>2, <2>3, <2>5 DEF Apart
<1>7. binsearch /\ Dependable(kind, T, wantdedup, binsearch)
        => \/ kind = "omit" \/ wantdedup
           \/ \A i, j \in DOMAIN vec : vec[i] = vec[j] \/ ~Begins(kind, mask, vec[i], vec[j])
  BY <1>6 DEF Dependable
<1>8. (wantdedup \/ binsearch) /\ Dependable(kind, T, wantdedup, binsearch) => Alike(kind, S)
  BY <1>4, <1>5 DEF Dependable
<1>9. table.mask = mask /\ vec = table.vec
  OBVIOUS
<1>. HIDE DEF S, mask, vec, prepared
<1>10. /\ DOFILTER(kind, binsearch, prepared, pk) # 0 => hit
       /\ onDevice <=> FirstMatch(kind, prepared, pk) # 0
       /\ /\ hit
          /\ wantdedup \/ binsearch => Alike(kind, S)
          /\ binsearch => \/ kind = "omit" \/ wantdedup
                          \/ \A i, j \in DOMAIN vec :
                                vec[i] = vec[j] \/ ~Begins(kind, mask, vec[i], vec[j])
          => DOFILTER(kind, binsearch, prepared, pk) # 0
  BY ONLY <1>0, <1>1, <1>9, kind \in Kindred, wantdedup \in BOOLEAN, binsearch \in BOOLEAN,
          pk \in SUBSET (0 .. LastBit), SearchFinds DEF prepared
<1>. QED
  BY <1>2, <1>7, <1>8, <1>10 DEF prepared

-----------------------------------------------------------------------------
(* Loading a file *)

\* The loop over the pieces of a line, and the one over lines, are defined.
LineRounds(kind, table, items, k, g) ==
    g = [n \in 0 .. k |-> IF n = 0 THEN table ELSE LoadPiece(kind, g[n - 1], items[n])]

LEMMA LineDefined ==
    ASSUME NEW kind, NEW table, NEW items, NEW n \in Nat
    PROVE  \E g : LineRounds(kind, table, items, n, g)
<1>. DEFINE G == {k \in 0 .. n : \E g : LineRounds(kind, table, items, k, g)}
<1>1. 0 \in G
  <2>. DEFINE g == [i \in 0 .. 0 |-> table]
  <2>1. g = [i \in 0 .. 0 |-> IF i = 0 THEN table ELSE LoadPiece(kind, g[i - 1], items[i])]
    OBVIOUS
  <2>. HIDE DEF g
  <2>2. LineRounds(kind, table, items, 0, g)
    BY ONLY <2>1 DEF LineRounds
  <2>. QED
    BY <2>2
<1>2. ASSUME NEW k \in Nat, k < n, k \in G PROVE k + 1 \in G
  <2>1. PICK g : LineRounds(kind, table, items, k, g)
    BY <1>2
  <2>. DEFINE body(i) == IF i = 0 THEN table ELSE LoadPiece(kind, g[i - 1], items[i])
  <2>. DEFINE h == [i \in 0 .. k + 1 |-> body(i)]
  <2>2. g = [i \in 0 .. k |-> body(i)]
    BY <2>1 DEF LineRounds
  <2>3. \A i \in 0 .. k : i \in 0 .. k + 1 /\ g[i] = body(i)
    BY <2>2
  <2>4. \A i \in 0 .. k : h[i] = g[i]
    BY <2>3
  <2>5. \A i \in 1 .. k + 1 : i - 1 \in 0 .. k
    OBVIOUS
  <2>6. \A i \in 0 .. k + 1 : i # 0 => i \in 1 .. k + 1
    OBVIOUS
  <2>. HIDE DEF h
  <2>7. \A i \in 0 .. k + 1 :
           body(i) = IF i = 0 THEN table ELSE LoadPiece(kind, h[i - 1], items[i])
    BY <2>4, <2>5, <2>6
  <2>8. LineRounds(kind, table, items, k + 1, h)
    BY <2>7 DEF LineRounds, h
  <2>. QED
    BY <1>2, <2>8
<1>. HIDE DEF G
<1>3. \A k \in 0 .. n : k \in G
  BY <1>1, <1>2, Upwards
<1>. QED
  BY <1>3 DEF G

FileRounds(kind, table, items, k, g) ==
    g = [n \in 0 .. k |-> IF n = 0 THEN table ELSE LoadLine(kind, g[n - 1], items[n])]

LEMMA FileDefined ==
    ASSUME NEW kind, NEW table, NEW items, NEW n \in Nat
    PROVE  \E g : FileRounds(kind, table, items, n, g)
<1>. DEFINE G == {k \in 0 .. n : \E g : FileRounds(kind, table, items, k, g)}
<1>1. 0 \in G
  <2>. DEFINE g == [i \in 0 .. 0 |-> table]
  <2>1. g = [i \in 0 .. 0 |-> IF i = 0 THEN table ELSE LoadLine(kind, g[i - 1], items[i])]
    OBVIOUS
  <2>. HIDE DEF g
  <2>2. FileRounds(kind, table, items, 0, g)
    BY ONLY <2>1 DEF FileRounds
  <2>. QED
    BY <2>2
<1>2. ASSUME NEW k \in Nat, k < n, k \in G PROVE k + 1 \in G
  <2>1. PICK g : FileRounds(kind, table, items, k, g)
    BY <1>2
  <2>. DEFINE body(i) == IF i = 0 THEN table ELSE LoadLine(kind, g[i - 1], items[i])
  <2>. DEFINE h == [i \in 0 .. k + 1 |-> body(i)]
  <2>2. g = [i \in 0 .. k |-> body(i)]
    BY <2>1 DEF FileRounds
  <2>3. \A i \in 0 .. k : i \in 0 .. k + 1 /\ g[i] = body(i)
    BY <2>2
  <2>4. \A i \in 0 .. k : h[i] = g[i]
    BY <2>3
  <2>5. \A i \in 1 .. k + 1 : i - 1 \in 0 .. k
    OBVIOUS
  <2>6. \A i \in 0 .. k + 1 : i # 0 => i \in 1 .. k + 1
    OBVIOUS
  <2>. HIDE DEF h
  <2>7. \A i \in 0 .. k + 1 :
           body(i) = IF i = 0 THEN table ELSE LoadLine(kind, h[i - 1], items[i])
    BY <2>4, <2>5, <2>6
  <2>8. FileRounds(kind, table, items, k + 1, h)
    BY <2>7 DEF FileRounds, h
  <2>. QED
    BY <1>2, <2>8
<1>. HIDE DEF G
<1>3. \A k \in 0 .. n : k \in G
  BY <1>1, <1>2, Upwards
<1>. QED
  BY <1>3 DEF G

LEMMA PiecesIs ==
    ASSUME NEW X, NEW line \in Seq(X)
    PROVE  Pieces(line) \in Seq(Seq(X))
<1>. DEFINE l == Len(line)
<1>. DEFINE m == (l + LineLen - 1) \div LineLen
<1>. DEFINE piece(n) == SubSeq(line, (n - 1) * LineLen + 1, IF n * LineLen < l THEN n * LineLen ELSE l)
<1>1. l \in Nat /\ LineLen \in Nat \ {0} /\ m \in Nat
  <2>1. l \in Nat /\ LineLen \in Nat \ {0}
    BY FiltersAssumption
  <2>2. \A x \in Nat : x \div LineLen \in Nat
    BY <2>1
  <2>. QED
    BY <2>1, <2>2
<1>2. ASSUME NEW n \in 1 .. m PROVE piece(n) \in Seq(X)
  <2>. DEFINE lo == (n - 1) * LineLen + 1
  <2>. DEFINE hi == IF n * LineLen < l THEN n * LineLen ELSE l
  <2>1. lo \in Nat \ {0} /\ hi \in Nat /\ hi <= l
    <3>1. n - 1 \in Nat /\ n \in Nat
      BY <1>1
    <3>2. (n - 1) * LineLen \in Nat /\ n * LineLen \in Nat
      BY <1>1, <3>1
    <3>. QED
      BY <1>1, <3>2
  <2>. HIDE DEF lo, hi
  <2>2. SubSeq(line, lo, hi) \in Seq(X)
    BY <1>1, <2>1
  <2>. QED
    BY <2>2 DEF lo, hi
<1>3. Pieces(line) = [n \in 1 .. m |-> piece(n)]
  BY DEF Pieces
<1>. HIDE DEF m, piece
<1>4. [n \in 1 .. m |-> piece(n)] \in Seq(Seq(X))
  BY <1>1, <1>2
<1>. QED
  BY <1>3, <1>4

LEMMA LoadedPiece ==
    ASSUME NEW kind \in Kindred, NEW table, NEW T, Loaded(kind, table, T),
           NEW X, NEW piece \in Seq(X)
    PROVE  Loaded(kind, LoadPiece(kind, table, piece), T \cup ({Unanchored(piece)} \cap Fitting(kind)))
<1>1. CASE piece[1] = Hash
  <2>0. Unanchored(piece) = piece
    <3>1. -3 \in Hash /\ -3 \notin Caret
      BY DEF Hash, Caret
    <3>2. Hash # Caret
      BY <3>1
    <3>. QED
      BY <1>1, <3>2 DEF Unanchored
  <2>1. ASSUME piece \in Fitting(kind) PROVE FALSE
    <3>1. piece \in Seq(Digits) /\ piece # <<>>
      BY <2>1 DEF Fitting
    <3>2. piece[1] \in Digits
      BY <3>1
    <3>3. Hash \notin Digits
      BY DEF Hash, Digits
    <3>. QED
      BY <1>1, <3>2, <3>3
  <2>2. T \cup ({Unanchored(piece)} \cap Fitting(kind)) = T
    BY <2>0, <2>1
  <2>. QED
    BY <1>1, <2>2 DEF LoadPiece
<1>2. CASE piece[1] # Hash
  <2>1. Loaded(kind, filters_add(kind, table, piece), T \cup ({Unanchored(piece)} \cap Fitting(kind)))
    BY LoadedAdd
  <2>. QED
    BY <1>2, <2>1 DEF LoadPiece
<1>. QED
  BY <1>1, <1>2

\* The texts of a line.
LineTexts(line) == {Unanchored(piece) : piece \in Range(Pieces(line))}

LEMMA LoadedLine ==
    ASSUME NEW kind \in Kindred, NEW table, NEW T, Loaded(kind, table, T),
           NEW X, NEW line \in Seq(X)
    PROVE  Loaded(kind, LoadLine(kind, table, line), T \cup (LineTexts(line) \cap Fitting(kind)))
<1>. DEFINE items == Pieces(line)
<1>. DEFINE n == Len(items)
<1>. DEFINE upto(k) == T \cup ({Unanchored(items[i]) : i \in 1 .. k} \cap Fitting(kind))
<1>. DEFINE g == CHOOSE h : LineRounds(kind, table, items, n, h)
<1>1. n \in Nat /\ DOMAIN items = 1 .. n /\ \A i \in 1 .. n : items[i] \in Seq(X)
  BY PiecesIs
<1>2. LineRounds(kind, table, items, n, g)
  <2>1. \E h : LineRounds(kind, table, items, n, h)
    BY <1>1, LineDefined
  <2>. QED
    BY <2>1
<1>3. LoadLine(kind, table, line) = g[n]
  BY DEF LoadLine, LineRounds
<1>. HIDE DEF items, n, g
<1>4. g[0] = table /\ \A k \in 1 .. n : g[k] = LoadPiece(kind, g[k - 1], items[k])
  BY <1>1, <1>2 DEF LineRounds
<1>. HIDE DEF upto
<1>. DEFINE G == {k \in 0 .. n : Loaded(kind, g[k], upto(k))}
<1>5. 0 \in G
  <2>1. upto(0) = T
    BY DEF upto
  <2>2. Loaded(kind, g[0], upto(0))
    BY <1>4, <2>1
  <2>. QED
    BY <1>1, <2>2
<1>6. ASSUME NEW k \in Nat, k < n, k \in G PROVE k + 1 \in G
  <2>1. k + 1 \in 1 .. n /\ k + 1 - 1 = k /\ 1 .. k + 1 = (1 .. k) \cup {k + 1}
    BY <1>1, <1>6
  <2>2. upto(k + 1) = upto(k) \cup ({Unanchored(items[k + 1])} \cap Fitting(kind))
    BY <2>1 DEF upto
  <2>3. Loaded(kind, g[k], upto(k)) /\ g[k + 1] = LoadPiece(kind, g[k], items[k + 1])
        /\ items[k + 1] \in Seq(X)
    BY <1>1, <1>4, <1>6, <2>1
  <2>4. Loaded(kind, g[k + 1], upto(k) \cup ({Unanchored(items[k + 1])} \cap Fitting(kind)))
    BY <2>3, LoadedPiece
  <2>5. Loaded(kind, g[k + 1], upto(k + 1))
    BY ONLY <2>2, <2>4
  <2>6. k + 1 \in 0 .. n
    BY <1>1, <2>1
  <2>. QED
    BY <2>5, <2>6
<1>. HIDE DEF G
<1>7. \A k \in 0 .. n : k \in G
  BY <1>1, <1>5, <1>6, Upwards
<1>8. upto(n) = T \cup (LineTexts(line) \cap Fitting(kind))
  <2>1. LineTexts(line) = {Unanchored(items[i]) : i \in 1 .. n}
    BY <1>1 DEF LineTexts, Range, items
  <2>. QED
    BY <2>1 DEF upto
<1>9. Loaded(kind, g[n], upto(n))
  <2>1. n \in G
    BY <1>1, <1>7
  <2>. QED
    BY <2>1 DEF G
<1>. QED
  BY <1>3, <1>8, <1>9 DEF items

\* What loadfilterfile leaves in the table: the filters that the texts before
\* ask for, and those of the lines that fit.
FileTexts(lines) == UNION {LineTexts(lines[i]) : i \in DOMAIN lines}
LEMMA LoadedFile ==
    ASSUME NEW kind \in Kindred, NEW table, NEW T, Loaded(kind, table, T),
           NEW X, NEW lines \in Seq(Seq(X))
    PROVE  Loaded(kind, loadfilterfile(kind, table, lines), T \cup (FileTexts(lines) \cap Fitting(kind)))
<1>. DEFINE n == Len(lines)
<1>. DEFINE upto(k) == T \cup ((UNION {LineTexts(lines[i]) : i \in 1 .. k}) \cap Fitting(kind))
<1>. DEFINE g == CHOOSE h : FileRounds(kind, table, lines, n, h)
<1>1. n \in Nat /\ DOMAIN lines = 1 .. n /\ \A i \in 1 .. n : lines[i] \in Seq(X)
  OBVIOUS
<1>2. FileRounds(kind, table, lines, n, g)
  <2>1. \E h : FileRounds(kind, table, lines, n, h)
    BY <1>1, FileDefined
  <2>. QED
    BY <2>1
<1>3. loadfilterfile(kind, table, lines) = g[n]
  BY DEF loadfilterfile, FileRounds
<1>. HIDE DEF n, g
<1>4. g[0] = table /\ \A k \in 1 .. n : g[k] = LoadLine(kind, g[k - 1], lines[k])
  BY <1>1, <1>2 DEF FileRounds
<1>. HIDE DEF upto
<1>. DEFINE G == {k \in 0 .. n : Loaded(kind, g[k], upto(k))}
<1>5. 0 \in G
  <2>1. upto(0) = T
    BY DEF upto
  <2>2. Loaded(kind, g[0], upto(0))
    BY <1>4, <2>1
  <2>. QED
    BY <1>1, <2>2
<1>6. ASSUME NEW k \in Nat, k < n, k \in G PROVE k + 1 \in G
  <2>1. k + 1 \in 1 .. n /\ k + 1 - 1 = k /\ 1 .. k + 1 = (1 .. k) \cup {k + 1}
    BY <1>1, <1>6
  <2>2. upto(k + 1) = upto(k) \cup (LineTexts(lines[k + 1]) \cap Fitting(kind))
    BY <2>1 DEF upto
  <2>3. Loaded(kind, g[k], upto(k)) /\ g[k + 1] = LoadLine(kind, g[k], lines[k + 1])
        /\ lines[k + 1] \in Seq(X)
    BY <1>1, <1>4, <1>6, <2>1
  <2>4. Loaded(kind, g[k + 1], upto(k) \cup (LineTexts(lines[k + 1]) \cap Fitting(kind)))
    BY <2>3, LoadedLine
  <2>5. Loaded(kind, g[k + 1], upto(k + 1))
    BY ONLY <2>2, <2>4
  <2>6. k + 1 \in 0 .. n
    BY <1>1, <2>1
  <2>. QED
    BY <2>5, <2>6
<1>. HIDE DEF G
<1>7. \A k \in 0 .. n : k \in G
  BY <1>1, <1>5, <1>6, Upwards
<1>8. upto(n) = T \cup (FileTexts(lines) \cap Fitting(kind))
  BY <1>1 DEF FileTexts, upto
<1>9. Loaded(kind, g[n], upto(n))
  <2>1. n \in G
    BY <1>1, <1>7
  <2>. QED
    BY <2>1 DEF G
<1>. QED
  BY <1>3, <1>8, <1>9

-----------------------------------------------------------------------------
(* Words of a key *)

\* Bits of the key shifted by n are those n further on, as far as the key goes.
LEMMA ShiftedBit ==
    ASSUME NEW src \in SUBSET (0 .. LastBit), NEW n \in Nat, NEW behind \in SUBSET Nat,
           NEW j \in Nat, j + n <= LastBit
    PROVE  Nth(j) \in shiftpk(src, n, behind) <=> Nth(j + n) \in src
<1>0. /\ ByteBits \in Nat \ {0} /\ PublicLen \in Nat \ {0}
      /\ ByteBits * PublicLen = LastBit + 1 /\ LastBit \in Nat
  BY FiltersAssumption, BitsOfKey
<1>. DEFINE d == n \div ByteBits
<1>. DEFINE s == n % ByteBits
<1>. DEFINE k == j \div ByteBits
<1>. DEFINE l == j % ByteBits
<1>. DEFINE q == ByteBits - 1 - l
<1>. DEFINE long == src \cup At(behind, PublicLen)
<1>. DEFINE byte(i) == Bits(Shift(Byte(long, i + d), s)
                              \cup Shift(Byte(long, i + d + 1), s - ByteBits), 0, ByteBits)
<1>. DEFINE I == {i \in 0 .. PublicLen - 1 : i + d < PublicLen}
<1>1. shiftpk(src, n, behind) = UNION {At(byte(i), i) : i \in I}
  BY DEF shiftpk
<1>2. d \in Nat /\ s \in 0 .. ByteBits - 1 /\ n = ByteBits * d + s
  BY <1>0
<1>3. k \in Nat /\ l \in 0 .. ByteBits - 1 /\ j = ByteBits * k + l
  BY <1>0
<1>. HIDE DEF d, s, k, l
<1>4. q \in 0 .. ByteBits - 1 /\ Nth(j) = ByteBits * k + q /\ ByteBits * k \in Nat
  <2>1. Nth(ByteBits * k + l) = ByteBits * k + (ByteBits - 1 - l)
    BY <1>3, NthInByte
  <2>. QED
    BY <1>0, <1>3, <2>1
<1>5. k + d < PublicLen /\ k \in I
  <2>1. k + d >= PublicLen => ByteBits * (k + d) >= ByteBits * PublicLen
    BY <1>0, <1>2, <1>3
  <2>2. ByteBits * (k + d) = ByteBits * k + ByteBits * d /\ ByteBits * k \in Nat /\ ByteBits * d \in Nat
    BY <1>0, <1>2, <1>3
  <2>. HIDE DEF I
  <2>3. k + d < PublicLen
    BY <1>0, <1>2, <1>3, <2>1, <2>2
  <2>. QED
    BY <1>0, <1>2, <1>3, <2>3 DEF I
<1>6. long \in SUBSET Nat /\ \A p \in 0 .. LastBit : p \in long <=> p \in src
  <2>1. ASSUME NEW p \in At(behind, PublicLen) PROVE p \in Nat /\ ~(p \in 0 .. LastBit)
    <3>1. PICK b \in behind : p = b + PublicLen * ByteBits
      BY <2>1 DEF At, Shift
    <3>2. PublicLen * ByteBits = LastBit + 1 /\ b \in Nat
      BY <1>0
    <3>. QED
      BY <1>0, <3>1, <3>2
  <2>2. src \subseteq Nat /\ At(behind, PublicLen) \subseteq Nat
    BY <1>0, <2>1
  <2>3. \A p \in 0 .. LastBit : ~(p \in At(behind, PublicLen))
    BY <2>1
  <2>. QED
    BY <2>2, <2>3
<1>. HIDE DEF long
<1>7. /\ \A i \in I : byte(i) \subseteq 0 .. ByteBits - 1 /\ i \in Nat
  <2>1. ASSUME NEW i \in I, NEW b \in byte(i) PROVE b \in 0 .. ByteBits - 1
    <3>1. b \in Int
      <4>1. ASSUME NEW x \in Nat PROVE Byte(long, x) \subseteq Int
        <5>1. x * ByteBits \in Int
          BY <1>0, <4>1
        <5>. QED
          BY <1>6, <5>1 DEF Byte, Shift, Bits
      <4>2. i + d \in Nat /\ i + d + 1 \in Nat /\ s \in Int /\ s - ByteBits \in Int
        BY <1>0, <1>2
      <4>3. Byte(long, i + d) \subseteq Int /\ Byte(long, i + d + 1) \subseteq Int
        BY <4>1, <4>2
      <4>. QED
        BY <4>2, <4>3 DEF Bits, Shift
    <3>. QED
      BY <1>0, <3>1 DEF Bits
  <2>. QED
    BY <1>0, <2>1
<1>8. Nth(j) \in UNION {At(byte(i), i) : i \in I} <=> q \in byte(k)
  <2>. HIDE DEF byte, I
  <2>1. ASSUME q \in byte(k) PROVE Nth(j) \in At(byte(k), k)
    BY <1>0, <1>3, <1>4, <2>1 DEF At, Shift
  <2>2. ASSUME NEW i \in I, Nth(j) \in At(byte(i), i) PROVE q \in byte(k)
    <3>1. PICK b \in byte(i) : Nth(j) = b + i * ByteBits
      BY <2>2 DEF At, Shift
    <3>2. b \in 0 .. ByteBits - 1 /\ i \in Nat /\ Nth(j) = ByteBits * i + b
      BY <1>0, <1>7, <3>1
    <3>3. /\ Nth(j) \div ByteBits = k /\ Nth(j) % ByteBits = q
          /\ Nth(j) \div ByteBits = i /\ Nth(j) % ByteBits = b
      <4>1. /\ Nth(j) = ByteBits * k + q /\ q \in 0 .. ByteBits - 1 /\ k \in Nat
            /\ Nth(j) = ByteBits * i + b /\ b \in 0 .. ByteBits - 1 /\ i \in Nat
        BY <1>3, <1>4, <3>2
      <4>. HIDE DEF q
      <4>2. (ByteBits * k + q) \div ByteBits = k /\ (ByteBits * k + q) % ByteBits = q
        BY <1>0, <4>1, Divided
      <4>3. (ByteBits * i + b) \div ByteBits = i /\ (ByteBits * i + b) % ByteBits = b
        BY <1>0, <4>1, Divided
      <4>. QED
        BY ONLY <4>1, <4>2, <4>3
    <3>. QED
      BY <3>3
  <2>. QED
    BY <1>5, <2>1, <2>2
<1>9. q \in byte(k) <=> q - s \in Byte(long, k + d) \/ q - s + ByteBits \in Byte(long, k + d + 1)
  <2>1. /\ k + d \in Nat /\ k + d + 1 \in Nat /\ s \in Int /\ q \in Int
        /\ \A x \in Int : q = x + s <=> x = q - s
        /\ \A x \in Int : q = x + (s - ByteBits) <=> x = q - s + ByteBits
    BY <1>0, <1>2, <1>3, <1>4
  <2>2. ASSUME NEW x \in Nat PROVE Byte(long, x) \subseteq Int
    <3>1. x * ByteBits \in Int
      BY <1>0, <2>2
    <3>. QED
      BY <1>6, <3>1 DEF Byte, Shift, Bits
  <2>3. Byte(long, k + d) \subseteq Int /\ Byte(long, k + d + 1) \subseteq Int
    BY <2>1, <2>2
  <2>4. q \in Shift(Byte(long, k + d), s) <=> q - s \in Byte(long, k + d)
    BY <2>1, <2>3 DEF Shift
  <2>5. q \in Shift(Byte(long, k + d + 1), s - ByteBits) <=> q - s + ByteBits \in Byte(long, k + d + 1)
    BY <2>1, <2>3 DEF Shift
  <2>6. 0 <= q /\ q < ByteBits
    BY <1>0, <1>4
  <2>. QED
    BY <2>4, <2>5, <2>6 DEF Bits
<1>. HIDE DEF byte, I
<1>10. Nth(j + n) \in 0 .. LastBit
  <2>1. j + n \in Nat /\ j + n < ByteBits * PublicLen
    BY <1>0
  <2>2. Nth(j + n) \in Nat /\ Nth(j + n) < ByteBits * PublicLen
    BY <1>0, <2>1, NthBit
  <2>. QED
    BY <1>0, <2>2
<1>11. /\ q - s \in Int /\ q - s + ByteBits \in Int /\ k + d \in Nat /\ k + d + 1 \in Nat
       /\ (k + d) * ByteBits = ByteBits * (k + d)
       /\ (k + d + 1) * ByteBits = ByteBits * (k + d + 1)
       /\ ByteBits * (k + d + 1) = ByteBits * (k + d) + ByteBits
       /\ ByteBits * (k + d) = ByteBits * k + ByteBits * d
       /\ ByteBits * (k + d) \in Nat /\ ByteBits * k \in Nat /\ ByteBits * d \in Nat
  BY <1>0, <1>2, <1>3, <1>4
<1>12. /\ q - s \in Byte(long, k + d) <=>
             0 <= q - s /\ q - s < ByteBits /\ q - s + ByteBits * (k + d) \in long
       /\ q - s + ByteBits \in Byte(long, k + d + 1) <=>
             /\ 0 <= q - s + ByteBits /\ q - s + ByteBits < ByteBits
             /\ q - s + ByteBits + ByteBits * (k + d + 1) \in long
  BY <1>6, <1>11, ByteOf
<1>13. CASE l + s < ByteBits
  <2>1. l + s \in 0 .. ByteBits - 1 /\ j + n = ByteBits * (k + d) + (l + s) /\ q - s >= 0
    BY <1>0, <1>2, <1>3, <1>11, <1>13
  <2>2. Nth(j + n) = ByteBits * (k + d) + (ByteBits - 1 - (l + s))
    BY <1>11, <2>1, NthInByte
  <2>3. q - s + ByteBits * (k + d) = Nth(j + n) /\ q - s < ByteBits /\ ~(q - s + ByteBits < ByteBits)
    BY <1>0, <1>2, <1>3, <1>4, <1>11, <2>1, <2>2
  <2>. QED
    BY <1>1, <1>6, <1>8, <1>9, <1>10, <1>12, <2>1, <2>3
<1>14. CASE l + s >= ByteBits
  <2>1. /\ l + s - ByteBits \in 0 .. ByteBits - 1
        /\ j + n = ByteBits * (k + d + 1) + (l + s - ByteBits) /\ q - s < 0
    BY <1>0, <1>2, <1>3, <1>11, <1>14
  <2>2. Nth(j + n) = ByteBits * (k + d + 1) + (ByteBits - 1 - (l + s - ByteBits))
    BY <1>11, <2>1, NthInByte
  <2>3. /\ q - s + ByteBits + ByteBits * (k + d + 1) = Nth(j + n)
        /\ q - s + ByteBits < ByteBits /\ 0 <= q - s + ByteBits
    BY <1>0, <1>2, <1>3, <1>4, <1>11, <2>1, <2>2
  <2>4. ~(0 <= q - s)
    BY <1>11, <2>1
  <2>5. q \in byte(k) <=> Nth(j + n) \in long
    BY <1>9, <1>12, <2>3, <2>4
  <2>. QED
    BY <1>1, <1>6, <1>8, <1>10, <2>5
<1>. QED
  BY <1>0, <1>2, <1>3, <1>13, <1>14

LEMMA ShiftedKey ==
    ASSUME NEW src \in SUBSET (0 .. LastBit), NEW n \in Nat, NEW behind \in SUBSET Nat
    PROVE  shiftpk(src, n, behind) \in SUBSET (0 .. LastBit)
<1>0. /\ ByteBits \in Nat \ {0} /\ PublicLen \in Nat \ {0}
      /\ ByteBits * PublicLen = LastBit + 1 /\ LastBit \in Nat
  BY FiltersAssumption, BitsOfKey
<1>. DEFINE d == n \div ByteBits
<1>. DEFINE s == n % ByteBits
<1>. DEFINE long == src \cup At(behind, PublicLen)
<1>. DEFINE byte(i) == Bits(Shift(Byte(long, i + d), s)
                              \cup Shift(Byte(long, i + d + 1), s - ByteBits), 0, ByteBits)
<1>. DEFINE I == {i \in 0 .. PublicLen - 1 : i + d < PublicLen}
<1>1. shiftpk(src, n, behind) = UNION {At(byte(i), i) : i \in I}
  BY DEF shiftpk
<1>2. d \in Nat /\ s \in 0 .. ByteBits - 1
  BY <1>0
<1>. HIDE DEF d, s
<1>3. long \in SUBSET Nat
  <2>1. ASSUME NEW p \in At(behind, PublicLen) PROVE p \in Nat
    <3>1. PICK b \in behind : p = b + PublicLen * ByteBits
      BY <2>1 DEF At, Shift
    <3>. QED
      BY <1>0, <3>1
  <2>2. src \subseteq Nat /\ At(behind, PublicLen) \subseteq Nat
    BY <1>0, <2>1
  <2>. QED
    BY <2>2
<1>. HIDE DEF long
<1>4. ASSUME NEW x \in Nat PROVE Byte(long, x) \subseteq Int
  <2>1. x * ByteBits \in Int
    BY <1>0, <1>4
  <2>. QED
    BY <1>3, <2>1 DEF Byte, Shift, Bits
<1>5. ASSUME NEW i \in I, NEW p \in At(byte(i), i) PROVE p \in 0 .. LastBit
  <2>1. i + d \in Nat /\ i + d + 1 \in Nat /\ s \in Int /\ s - ByteBits \in Int /\ i \in 0 .. PublicLen - 1
    BY <1>0, <1>2
  <2>2. Byte(long, i + d) \subseteq Int /\ Byte(long, i + d + 1) \subseteq Int
    BY <1>4, <2>1
  <2>3. byte(i) \subseteq 0 .. ByteBits - 1
    <3>1. ASSUME NEW b \in byte(i) PROVE b \in 0 .. ByteBits - 1
      <4>1. b \in Int /\ 0 <= b /\ b < ByteBits
        BY <2>1, <2>2 DEF Bits, Shift
      <4>. QED
        BY <1>0, <4>1
    <3>. QED
      BY <3>1
  <2>. HIDE DEF byte
  <2>4. PICK b \in byte(i) : p = b + i * ByteBits
    BY <1>5 DEF At, Shift
  <2>5. b \in 0 .. ByteBits - 1 /\ i * ByteBits \in Nat /\ i * ByteBits + ByteBits <= ByteBits * PublicLen
    <3>1. (i + 1) * ByteBits <= PublicLen * ByteBits
      BY <1>0, <2>1
    <3>. QED
      BY <1>0, <2>1, <2>3, <3>1
  <2>. QED
    BY <1>0, <2>4, <2>5
<1>. QED
  BY <1>1, <1>5


\* The length filter_len reads from a mask is that of the text.
LEMMA FilterLen ==
    ASSUME NEW kind \in Kindred, NEW text \in Fitting(kind), NEW table, NEW it,
           MaskOf(kind, table, it) = TextMask(text)
    PROVE  filter_len(kind, table, it) = CharBits * Len(text)
<1>. DEFINE n == CharBits * Len(text)
<1>. DEFINE m == First(n)
<1>. DEFINE full(j) == 0 \in Byte(m, j)
<1>. DEFINE is(j) == ~full(j) /\ \A i \in 0 .. j - 1 : full(i)
<1>. DEFINE j == CHOOSE x \in 0 .. PublicLen : is(x)
<1>. DEFINE v == Byte(m, j)
<1>1. /\ ByteBits \in Nat \ {0} /\ PublicLen \in Nat \ {0} /\ n \in Nat /\ n <= ByteBits * PublicLen
      /\ m \in SUBSET Nat
  BY FiltersAssumption, FittingText, FirstBits
<1>2. filter_len(kind, table, it) = j * ByteBits + IF v = {} THEN 0 ELSE ByteBits - Min(v)
  BY DEF filter_len, TextMask
<1>. HIDE DEF n
<1>. DEFINE c == n \div ByteBits
<1>. DEFINE s == n % ByteBits
<1>3. c \in Nat /\ s \in 0 .. ByteBits - 1 /\ n = ByteBits * c + s
  BY <1>1
<1>. HIDE DEF c, s
<1>4. c \in 0 .. PublicLen
  <2>1. c >= PublicLen + 1 => ByteBits * c >= ByteBits * (PublicLen + 1)
    BY <1>1, <1>3
  <2>2. ByteBits * (PublicLen + 1) = ByteBits * PublicLen + ByteBits /\ ByteBits * c \in Nat
        /\ ByteBits * PublicLen \in Nat
    BY <1>1, <1>3
  <2>. QED
    BY <1>1, <1>3, <2>1, <2>2
<1>5. ASSUME NEW i \in Nat, NEW q \in 0 .. ByteBits - 1
      PROVE  q \in Byte(m, i) <=> ByteBits * i + (ByteBits - 1 - q) < n
  <2>. DEFINE r == ByteBits - 1 - q
  <2>1. r \in 0 .. ByteBits - 1 /\ ByteBits * i \in Nat /\ i * ByteBits = ByteBits * i
    BY <1>1
  <2>2. Nth(ByteBits * i + r) = ByteBits * i + (ByteBits - 1 - r)
    BY <2>1, NthInByte
  <2>3. ByteBits * i + r \in Nat /\ q + i * ByteBits = Nth(ByteBits * i + r)
    BY <1>1, <2>1, <2>2
  <2>4. q \in Byte(m, i) <=> q + i * ByteBits \in m
    BY <1>1, ByteOf
  <2>5. Nth(ByteBits * i + r) \in m <=> ByteBits * i + r < n
    BY <1>1, <2>3, FirstBits
  <2>. QED
    BY <2>3, <2>4, <2>5
<1>6. \A i \in Nat : full(i) <=> i < c
  <2>. TAKE i \in Nat
  <2>1. full(i) <=> ByteBits * i + (ByteBits - 1) < n
    BY <1>1, <1>5
  <2>2. i < c => ByteBits * (i + 1) <= ByteBits * c
    BY <1>1, <1>3
  <2>3. i >= c => ByteBits * i >= ByteBits * c
    BY <1>1, <1>3
  <2>4. ByteBits * (i + 1) = ByteBits * i + ByteBits /\ ByteBits * i \in Nat /\ ByteBits * c \in Nat
    BY <1>1, <1>3
  <2>. HIDE DEF full
  <2>. QED
    BY <1>1, <1>3, <2>1, <2>2, <2>3, <2>4
<1>. HIDE DEF full
<1>7. j = c
  <2>1. is(c)
    BY <1>3, <1>6
  <2>2. \A x \in 0 .. PublicLen : is(x) => x = c
    BY <1>1, <1>3, <1>6
  <2>. HIDE DEF is
  <2>. QED
    BY <1>4, <2>1, <2>2
<1>. HIDE DEF j
<1>8. v = {q \in 0 .. ByteBits - 1 : ByteBits - s <= q}
  <2>1. v \subseteq 0 .. ByteBits - 1
    <3>1. ASSUME NEW q \in v PROVE q \in 0 .. ByteBits - 1
      <4>1. q \in Int
        <5>1. j * ByteBits \in Int
          BY <1>1, <1>3, <1>7
        <5>. QED
          BY <1>1, <3>1, <5>1 DEF Byte, Shift, Bits
      <4>2. 0 <= q /\ q < ByteBits
        BY <1>1, <1>3, <1>7, <3>1, <4>1, ByteOf
      <4>. QED
        BY <1>1, <4>1, <4>2
    <3>. QED
      BY <3>1
  <2>2. ASSUME NEW q \in 0 .. ByteBits - 1 PROVE q \in v <=> ByteBits - s <= q
    <3>1. q \in v <=> ByteBits * c + (ByteBits - 1 - q) < n
      BY <1>3, <1>5, <1>7
    <3>2. ByteBits * c \in Nat
      BY <1>1, <1>3
    <3>. QED
      BY <1>1, <1>3, <3>1, <3>2
  <2>. QED
    BY <2>1, <2>2
<1>9. CASE s = 0
  <2>1. v = {}
    BY <1>1, <1>8, <1>9
  <2>2. c * ByteBits = ByteBits * c /\ ByteBits * c \in Nat
    BY <1>1, <1>3
  <2>. QED
    BY <1>2, <1>3, <1>7, <1>9, <2>1, <2>2 DEF n
<1>10. CASE s # 0
  <2>1. ByteBits - s \in v /\ v \in SUBSET Nat /\ \A q \in v : ByteBits - s <= q
    BY <1>1, <1>3, <1>8, <1>10
  <2>2. Min(v) = ByteBits - s
    BY <2>1, MinMax
  <2>3. c * ByteBits = ByteBits * c /\ ByteBits * c \in Nat
    BY <1>1, <1>3
  <2>4. v # {}
    BY <2>1
  <2>5. n = c * ByteBits + (ByteBits - Min(v))
    BY <1>1, <1>3, <2>2, <2>3
  <2>. QED
    BY <1>2, <1>7, <2>4, <2>5 DEF n
<1>. QED
  BY <1>9, <1>10

\* A name begins with a text exactly if the bits are those of the digits.
LEMMA PrefixBits ==
    ASSUME NEW pk \in SUBSET (0 .. LastBit), NEW text \in Seq(Digits),
           CharBits * Len(text) <= ByteBits * PublicLen
    PROVE  IsPrefix(text, base32_to(pk, PublicLen))
             <=> \A i \in 1 .. Len(text), b \in 0 .. CharBits - 1 :
                    Nth(DigitPos(i, b)) \in pk <=> b \in text[i]
<1>. DEFINE name == base32_to(pk, PublicLen)
<1>1. PublicLen \in Nat /\ 0 .. LastBit = Ones(ByteBits * PublicLen) /\ Len(text) \in Nat
      /\ \A i \in 1 .. Len(text) : text[i] \in Digits
  BY FiltersAssumption, BitsOfKey DEF Ones
<1>2. name \in Seq(Digits) /\ Len(name) = ToLen(PublicLen)
  BY <1>1, Base32Text
<1>3. Len(text) <= Len(name)
  BY <1>1, <1>2, ToLenIs
<1>4. \A i \in 1 .. Len(text) : name[i] = {b \in 0 .. CharBits - 1 : Nth(DigitPos(i, b)) \in pk}
  <2>. TAKE i \in 1 .. Len(text)
  <2>1. i \in 1 .. ToLen(PublicLen)
    BY <1>1, <1>2, <1>3
  <2>. QED
    BY <1>1, <2>1, Base32To
<1>. HIDE DEF name
<1>5. IsPrefix(text, name) <=> \A i \in 1 .. Len(text) : text[i] = name[i]
  BY <1>2, <1>3, PrefixIs
<1>6. \A i \in 1 .. Len(text) :
         text[i] = name[i] <=> \A b \in 0 .. CharBits - 1 : Nth(DigitPos(i, b)) \in pk <=> b \in text[i]
  <2>. TAKE i \in 1 .. Len(text)
  <2>1. text[i] \subseteq 0 .. CharBits - 1
    BY <1>1 DEF Digits
  <2>. QED
    BY <1>4, <2>1
<1>. QED
  BY <1>5, <1>6 DEF name

\* A name begins with two texts exactly if it begins with the first and the
\* rest of the key with the second, whatever is behind the key.
LEMMA WordBegins ==
    ASSUME NEW pk \in SUBSET (0 .. LastBit), NEW behind \in SUBSET Nat,
           NEW s \in Seq(Digits), NEW t \in Seq(Digits),
           CharBits * (Len(s) + Len(t)) <= ByteBits * PublicLen
    PROVE  IsPrefix(s \o t, base32_to(pk, PublicLen))
             <=> /\ IsPrefix(s, base32_to(pk, PublicLen))
                 /\ IsPrefix(t, base32_to(shiftpk(pk, CharBits * Len(s), behind), PublicLen))
<1>. DEFINE n == CharBits * Len(s)
<1>. DEFINE wpk == shiftpk(pk, n, behind)
<1>1. /\ s \o t \in Seq(Digits) /\ Len(s \o t) = Len(s) + Len(t) /\ Len(s) \in Nat /\ Len(t) \in Nat
      /\ \A i \in 1 .. Len(s) : (s \o t)[i] = s[i]
      /\ \A i \in 1 .. Len(t) : (s \o t)[Len(s) + i] = t[i]
  BY Concatenated
<1>2. /\ CharBits \in Nat \ {0} /\ LastBit \in Nat /\ ByteBits * PublicLen = LastBit + 1
  BY FiltersAssumption, BitsOfKey
<1>3. /\ n \in Nat /\ CharBits * Len(t) \in Nat
      /\ CharBits * (Len(s) + Len(t)) = n + CharBits * Len(t)
  BY <1>1, <1>2
<1>4. /\ n <= ByteBits * PublicLen /\ CharBits * Len(t) <= ByteBits * PublicLen
      /\ CharBits * Len(s \o t) <= ByteBits * PublicLen
  BY <1>1, <1>2, <1>3
<1>5. wpk \in SUBSET (0 .. LastBit)
  BY <1>3, ShiftedKey
<1>6. ASSUME NEW i \in 1 .. Len(t), NEW b \in 0 .. CharBits - 1
      PROVE  (Nth(DigitPos(i, b)) \in wpk <=> b \in t[i])
               <=> (Nth(DigitPos(Len(s) + i, b)) \in pk <=> b \in t[i])
  <2>1. DigitPos(i, b) \in Nat /\ DigitPos(i, b) < CharBits * Len(t)
    <3>1. i \in Nat \ {0} /\ i <= Len(t)
      BY <1>1
    <3>. QED
      BY <1>1, <3>1, PosOfDigit
  <2>2. DigitPos(Len(s) + i, b) = DigitPos(i, b) + n
    BY <1>1, <1>2 DEF DigitPos
  <2>3. DigitPos(i, b) + n <= LastBit
    BY <1>1, <1>2, <1>3, <2>1
  <2>4. Nth(DigitPos(i, b)) \in wpk <=> Nth(DigitPos(i, b) + n) \in pk
    BY <1>3, <2>1, <2>3, ShiftedBit
  <2>. QED
    BY <2>2, <2>4
<1>. HIDE DEF n, wpk
<1>7. IsPrefix(s, base32_to(pk, PublicLen)) <=> \A i \in 1 .. Len(s), b \in 0 .. CharBits - 1 :
         Nth(DigitPos(i, b)) \in pk <=> b \in s[i]
  BY <1>4, PrefixBits DEF n
<1>8. IsPrefix(t, base32_to(wpk, PublicLen)) <=> \A i \in 1 .. Len(t), b \in 0 .. CharBits - 1 :
         Nth(DigitPos(i, b)) \in wpk <=> b \in t[i]
  BY <1>4, <1>5, PrefixBits
<1>9. IsPrefix(s \o t, base32_to(pk, PublicLen))
        <=> \A i \in 1 .. Len(s) + Len(t), b \in 0 .. CharBits - 1 :
               Nth(DigitPos(i, b)) \in pk <=> b \in (s \o t)[i]
  BY <1>1, <1>4, PrefixBits
<1>. DEFINE P(i) == \A b \in 0 .. CharBits - 1 : Nth(DigitPos(i, b)) \in pk <=> b \in (s \o t)[i]
<1>10. (\A i \in 1 .. Len(s) + Len(t) : P(i))
         <=> (\A i \in 1 .. Len(s) : P(i)) /\ \A i \in 1 .. Len(t) : P(Len(s) + i)
  <2>. HIDE DEF P
  <2>1. /\ \A i \in 1 .. Len(s) : i \in 1 .. Len(s) + Len(t)
        /\ \A i \in 1 .. Len(t) : Len(s) + i \in 1 .. Len(s) + Len(t)
        /\ \A i \in 1 .. Len(s) + Len(t) :
              i \in 1 .. Len(s) \/ (i - Len(s) \in 1 .. Len(t) /\ Len(s) + (i - Len(s)) = i)
    BY <1>1
  <2>. QED
    BY ONLY <2>1
<1>11. \A i \in 1 .. Len(s) : P(i) <=> \A b \in 0 .. CharBits - 1 : Nth(DigitPos(i, b)) \in pk <=> b \in s[i]
  BY <1>1
<1>12. \A i \in 1 .. Len(t) :
          P(Len(s) + i) <=> \A b \in 0 .. CharBits - 1 : Nth(DigitPos(i, b)) \in wpk <=> b \in t[i]
  BY <1>1, <1>6
<1>13. IsPrefix(s \o t, base32_to(pk, PublicLen)) <=> \A i \in 1 .. Len(s) + Len(t) : P(i)
  BY <1>9
<1>. HIDE DEF P
<1>14. IsPrefix(s, base32_to(pk, PublicLen)) <=> \A i \in 1 .. Len(s) : P(i)
  BY <1>7, <1>11
<1>15. IsPrefix(t, base32_to(wpk, PublicLen)) <=> \A i \in 1 .. Len(t) : P(Len(s) + i)
  BY <1>8, <1>12
<1>. QED
  BY <1>10, <1>13, <1>14, <1>15 DEF wpk, n


\* The loop over two words, round by round.
LEMMA TwoWords ==
    ASSUME NEW kind, NEW binsearch, NEW table, NEW pk, NEW behind
    PROVE  LET it == DOFILTER(kind, binsearch, table, pk)
               wpk == shiftpk(pk, filter_len(kind, table, it), behind)
           IN  WordsMatch(kind, binsearch, table, pk, 2, behind)
                 <=> it # 0 /\ DOFILTER(kind, binsearch, table, wpk) # 0
<1>. DEFINE found(key) == DOFILTER(kind, binsearch, table, key)
<1>. DEFINE shifted(s, w) == shiftpk(s.pk, filter_len(kind, table, s.it), IF w = 2 THEN behind ELSE {})
<1>. DEFINE body(h, w) ==
        IF w = 1 THEN [pk |-> pk, it |-> found(pk)]
        ELSE IF h[w - 1].it = 0 THEN h[w - 1]
             ELSE [pk |-> shifted(h[w - 1], w), it |-> found(shifted(h[w - 1], w))]
<1>. DEFINE word == CHOOSE h : h = [w \in 1 .. 2 |-> body(h, w)]
<1>. DEFINE wpk == shiftpk(pk, filter_len(kind, table, found(pk)), behind)
<1>1. WordsMatch(kind, binsearch, table, pk, 2, behind) <=> word[2].it # 0
  BY Zenon DEF WordsMatch
<1>. HIDE DEF found
<1>2. word = [w \in 1 .. 2 |-> body(word, w)]
  <2>. DEFINE first == [pk |-> pk, it |-> found(pk)]
  <2>. DEFINE second == IF first.it = 0 THEN first ELSE [pk |-> shifted(first, 2), it |-> found(shifted(first, 2))]
  <2>. DEFINE h == [w \in 1 .. 2 |-> IF w = 1 THEN first ELSE second]
  <2>1. h[1] = first /\ \A w \in 1 .. 2 : w = 1 \/ w = 2
    OBVIOUS
  <2>2. h = [w \in 1 .. 2 |-> body(h, w)]
    <3>. HIDE DEF first, shifted
    <3>1. body(h, 1) = first
      BY DEF first
    <3>2. body(h, 2) = second
      BY <2>1
    <3>. HIDE DEF body
    <3>3. \A w \in 1 .. 2 : body(h, w) = IF w = 1 THEN first ELSE second
      BY <2>1, <3>1, <3>2
    <3>. QED
      BY <3>3
  <2>. QED
    BY <2>2, Zenon
<1>. HIDE DEF word
<1>3. word[1].it = found(pk) /\ word[1].pk = pk
  BY <1>2
<1>4. word[2].it = IF word[1].it = 0 THEN word[1].it ELSE found(shifted(word[1], 2))
  <2>1. word[2] = body(word, 2)
    BY <1>2
  <2>. QED
    BY <2>1
<1>5. shifted(word[1], 2) = wpk
  BY <1>3
<1>. QED
  BY <1>1, <1>3, <1>4, <1>5 DEF found

\* The filter that was found has the mask of a text the key begins with.
LEMMA FoundText ==
    ASSUME NEW kind \in Kindred, NEW table, NEW T, Loaded(kind, table, T), ~table.flattened,
           NEW wantdedup \in BOOLEAN, NEW binsearch \in BOOLEAN, NEW pk \in SUBSET (0 .. LastBit),
           DOFILTER(kind, binsearch, filters_prepare(kind, table, wantdedup), pk) # 0
    PROVE  LET prepared == filters_prepare(kind, table, wantdedup)
               it == DOFILTER(kind, binsearch, prepared, pk)
           IN  \E s \in T : /\ IsPrefix(s, base32_to(pk, PublicLen))
                            /\ filter_len(kind, prepared, it) = CharBits * Len(s)
<1>. DEFINE mask == table.mask
<1>. DEFINE S == Range(table.vec)
<1>. DEFINE prepared == filters_prepare(kind, table, wantdedup)
<1>. DEFINE it == DOFILTER(kind, binsearch, prepared, pk)
<1>0. LastBit \in Nat /\ it # 0
  BY BitsOfKey
<1>1. /\ mask \in SUBSET (0 .. LastBit) /\ S \in FilterSets(kind, LastBit, mask)
      /\ table \in [vec : Seq(S), mask : {mask}, flattened : BOOLEAN]
  BY LoadedFilterSets
<1>2. S = AskedFilters(kind, mask, T) /\ T \in SUBSET Fitting(kind)
  BY DEF Loaded
<1>3. table.mask = mask
  OBVIOUS
<1>. HIDE DEF S, mask, prepared, it
<1>4. /\ prepared.vec \in Seq(S) /\ prepared.mask = mask
      /\ it # 0 => it \in DOMAIN prepared.vec /\ Hit(kind, mask, prepared.vec[it], pk)
  BY ONLY <1>0, <1>1, <1>3, kind \in Kindred, wantdedup \in BOOLEAN, binsearch \in BOOLEAN,
          pk \in SUBSET (0 .. LastBit), SearchFinds DEF prepared, it
<1>. DEFINE a == prepared.vec[it]
<1>5. a \in S /\ Hit(kind, mask, a, pk) /\ MaskOf(kind, prepared, it) = FilterMask(kind, mask, a)
  BY <1>0, <1>4 DEF MaskOf, FilterMask
<1>. HIDE DEF a
<1>6. PICK s \in T : /\ FilterMask(kind, mask, a) = TextMask(s) /\ Fulfils(s, pk)
  <2>1. CASE kind # "omit"
    <3>1. PICK s \in T : a = TextFilter(kind, s)
      BY <1>2, <1>5, <2>1 DEF AskedFilters
    <3>. QED
      BY <1>5, <2>1, <3>1 DEF FilterMask, TextFilter, Hit, Fulfils
  <2>2. CASE kind = "omit"
    <3>1. PICK y \in SUBSET mask : a = OmitFilter(y) /\ \E t \in T : Fulfils(t, y)
      BY <1>2, <1>5, <2>2 DEF AskedFilters
    <3>2. PICK t \in T : Fulfils(t, y)
      BY <3>1
    <3>3. PICK u \in T : mask = TextMask(u)
      BY <2>2, <3>2 DEF Loaded, mask
    <3>4. Len(t) = Len(u)
      BY <2>2 DEF Loaded, OneLength
    <3>5. mask = TextMask(t)
      BY <3>3, <3>4 DEF TextMask
    <3>6. pk \cap mask = y
      BY <1>5, <2>2, <3>1 DEF Hit, FilterMask, OmitFilter
    <3>7. Fulfils(t, pk)
      BY <3>2, <3>5, <3>6 DEF Fulfils
    <3>. QED
      BY <2>2, <3>5, <3>7 DEF FilterMask
  <2>. QED
    BY <2>1, <2>2
<1>7. s \in Fitting(kind)
  BY <1>2
<1>8. IsPrefix(s, base32_to(pk, PublicLen))
  BY <1>6, <1>7, FulfilsBegins
<1>9. filter_len(kind, prepared, it) = CharBits * Len(s)
  BY <1>5, <1>6, <1>7, FilterLen
<1>. QED
  BY <1>8, <1>9 DEF prepared, it

\* The same for two words of a key, where filters were not expanded: what is
\* found begins with two of the texts, one behind the other, whatever byte is
\* behind the key; and a key that does is found, where the search can be relied
\* on and no text begins another one (worker.c:165-176).
THEOREM WordsFound ==
    ASSUME NEW kind \in Kindred, NEW table, NEW T, Loaded(kind, table, T), ~table.flattened,
           \A s, t \in T : CharBits * (Len(s) + Len(t)) <= ByteBits * PublicLen,
           NEW wantdedup \in BOOLEAN, NEW binsearch \in BOOLEAN,
           NEW pk \in SUBSET (0 .. LastBit), NEW behind \in SUBSET Nat
    PROVE  LET prepared == filters_prepare(kind, table, wantdedup)
               found == WordsMatch(kind, binsearch, prepared, pk, 2, behind)
               wanted == \E s, t \in T : IsPrefix(s \o t, base32_to(pk, PublicLen))
           IN  /\ found => wanted
               /\ wanted /\ Dependable(kind, T, wantdedup, binsearch) /\ Apart(T) => found
<1>. DEFINE prepared == filters_prepare(kind, table, wantdedup)
<1>. DEFINE hit(key) == DOFILTER(kind, binsearch, prepared, key)
<1>. DEFINE wpk == shiftpk(pk, filter_len(kind, prepared, hit(pk)), behind)
<1>. DEFINE rest(s) == shiftpk(pk, CharBits * Len(s), behind)
<1>. DEFINE begins(s, key) == IsPrefix(s, base32_to(key, PublicLen))
<1>. DEFINE dependable == Dependable(kind, T, wantdedup, binsearch)
<1>1. WordsMatch(kind, binsearch, prepared, pk, 2, behind) <=> hit(pk) # 0 /\ hit(wpk) # 0
  BY TwoWords
<1>2. \A s \in T : s \in Fitting(kind) /\ s \in Seq(Digits) /\ CharBits * Len(s) \in Nat
  BY FittingText DEF Loaded
<1>3. \A s \in T : rest(s) \in SUBSET (0 .. LastBit)
  BY <1>2, ShiftedKey
<1>4. \A s, t \in T : begins(s \o t, pk) <=> begins(s, pk) /\ begins(t, rest(s))
  BY <1>2, WordBegins
<1>5. \A key \in SUBSET (0 .. LastBit) :
         /\ hit(key) # 0 => \E t \in T : begins(t, key)
         /\ (\E t \in T : begins(t, key)) /\ dependable => hit(key) # 0
  BY TextsFound
<1>6. hit(pk) # 0 => \E s \in T : begins(s, pk) /\ wpk = rest(s)
  <2>. SUFFICES ASSUME hit(pk) # 0 PROVE \E s \in T : begins(s, pk) /\ wpk = rest(s)
    OBVIOUS
  <2>1. PICK s \in T : begins(s, pk) /\ filter_len(kind, prepared, hit(pk)) = CharBits * Len(s)
    BY FoundText
  <2>. QED
    BY <2>1
<1>7. Apart(T) => \A s, u \in T : begins(s, pk) /\ begins(u, pk) => s = u
  <2>. SUFFICES ASSUME Apart(T), NEW s \in T, NEW u \in T, begins(s, pk), begins(u, pk) PROVE s = u
    OBVIOUS
  <2>1. base32_to(pk, PublicLen) \in Seq(Digits)
    <3>1. PublicLen \in Nat /\ pk \in SUBSET Ones(ByteBits * PublicLen)
      BY <1>2, FiltersAssumption, FittingText
    <3>. QED
      BY <3>1, Base32Text
  <2>2. s \in Seq(Digits) /\ u \in Seq(Digits) /\ Len(s) \in Nat /\ Len(u) \in Nat
    BY <1>2
  <2>3. CASE Len(s) <= Len(u)
    <3>1. IsPrefix(s, u)
      BY <2>1, <2>2, <2>3, PrefixesNested
    <3>. QED
      BY <3>1 DEF Apart
  <2>4. CASE Len(u) <= Len(s)
    <3>1. IsPrefix(u, s)
      BY <2>1, <2>2, <2>4, PrefixesNested
    <3>. QED
      BY <3>1 DEF Apart
  <2>. QED
    BY <2>2, <2>3, <2>4
<1>. HIDE DEF prepared, hit, wpk, rest, begins, dependable
<1>8. ASSUME hit(pk) # 0, hit(wpk) # 0 PROVE \E s, t \in T : begins(s \o t, pk)
  <2>1. PICK s \in T : begins(s, pk) /\ wpk = rest(s)
    BY <1>6, <1>8
  <2>2. PICK t \in T : begins(t, rest(s))
    BY <1>3, <1>5, <1>8, <2>1
  <2>. QED
    BY <1>4, <2>1, <2>2
<1>9. ASSUME NEW s \in T, NEW t \in T, begins(s \o t, pk), dependable, Apart(T)
      PROVE  hit(pk) # 0 /\ hit(wpk) # 0
  <2>1. begins(s, pk) /\ begins(t, rest(s))
    BY <1>4, <1>9
  <2>2. hit(pk) # 0
    BY <1>5, <1>9, <2>1
  <2>3. PICK u \in T : begins(u, pk) /\ wpk = rest(u)
    BY <1>6, <2>2
  <2>4. u = s
    BY <1>7, <1>9, <2>1, <2>3
  <2>. QED
    BY <1>3, <1>5, <1>9, <2>1, <2>2, <2>3, <2>4
<1>. QED
  BY <1>1, <1>8, <1>9 DEF prepared, begins, dependable
=============================================================================
