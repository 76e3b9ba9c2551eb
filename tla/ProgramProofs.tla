--------------------------- MODULE ProgramProofs ---------------------------
(***************************************************************************)
(* Proofs about Program and the modules it composes, for any command       *)
(* lines, workers, keys and bounds: the statistics (main.c), the times and *)
(* records of the YAML output and what -Y makes of them (yaml.c), the      *)
(* order of options and what the others need to know of them (main.c), and *)
(* what a search finds.                                                    *)
(***************************************************************************)
EXTENDS Program, FiltersProofs, SequenceTheorems, FiniteSetTheorems, TLAPS

-----------------------------------------------------------------------------
(* Powers of two *)

\* Powers of two count subsets.
LEMMA Power ==
    ASSUME NEW n \in Nat
    PROVE  2 ^ n = Cardinality(SUBSET (1 .. n)) /\ IsFiniteSet(SUBSET (1 .. n)) /\ 2 ^ n \in Nat
<1>1. IsFiniteSet(1 .. n) /\ Cardinality(1 .. n) = n
  BY FS_Interval
<1>2. IsFiniteSet(SUBSET (1 .. n)) /\ Cardinality(SUBSET (1 .. n)) = 2 ^ Cardinality(1 .. n)
  BY ONLY <1>1, FS_SUBSET
<1>3. Cardinality(SUBSET (1 .. n)) \in Nat
  BY ONLY <1>2, FS_CardinalityType
<1>. QED
  BY ONLY <1>1, <1>2, <1>3

\* One more bit doubles a power of two, since it doubles the subsets.
LEMMA Doubled ==
    ASSUME NEW n \in Nat
    PROVE  2 ^ (n + 1) = 2 * 2 ^ n
<1>. DEFINE low == SUBSET (1 .. n)
<1>. DEFINE with(s) == s \cup {n + 1}
<1>. DEFINE high == {with(s) : s \in low}
<1>1. SUBSET (1 .. n + 1) = low \cup high
  <2>1. ASSUME NEW s \in SUBSET (1 .. n + 1) PROVE s \in low \cup high
    <3>1. s \ {n + 1} \in low
      OBVIOUS
    <3>2. n + 1 \in s => s = with(s \ {n + 1})
      OBVIOUS
    <3>3. n + 1 \notin s => s \in low
      OBVIOUS
    <3>. QED
      BY <3>1, <3>2, <3>3
  <2>2. \A s \in low : s \in SUBSET (1 .. n + 1) /\ with(s) \in SUBSET (1 .. n + 1)
    OBVIOUS
  <2>3. ASSUME NEW s \in low \cup high PROVE s \in SUBSET (1 .. n + 1)
    <3>1. s \in low \/ \E u \in low : s = with(u)
      OBVIOUS
    <3>. QED
      BY <2>2, <3>1
  <2>. HIDE DEF low, high
  <2>. QED
    BY <2>1, <2>3
<1>2. low \cap high = {}
  OBVIOUS
<1>3. IsFiniteSet(low) /\ Cardinality(low) = 2 ^ n /\ 2 ^ n \in Nat
  BY Power
<1>4. IsFiniteSet(high) /\ Cardinality(high) = Cardinality(low)
  <2>. DEFINE f == [s \in low |-> with(s)]
  <2>1. f \in [low -> high]
    OBVIOUS
  <2>2. \A s, t \in low : f[s] = f[t] => s = t
    <3>1. ASSUME NEW s \in low, NEW t \in low, with(s) = with(t) PROVE s = t
      <4>1. s = with(s) \ {n + 1} /\ t = with(t) \ {n + 1}
        OBVIOUS
      <4>. QED
        BY ONLY <3>1, <4>1
    <3>. QED
      BY <3>1
  <2>3. \A t \in high : \E s \in low : f[s] = t
    OBVIOUS
  <2>4. f \in Bijection(low, high)
    BY <2>1, <2>2, <2>3 DEF Bijection, Injection, Surjection, IsInjective
  <2>. QED
    BY <1>3, <2>4, FS_Bijection DEF ExistsBijection
<1>5. Cardinality(low \cup high) = Cardinality(low) + Cardinality(high) - Cardinality(low \cap high)
  BY ONLY <1>3, <1>4, FS_Union
<1>6. Cardinality(SUBSET (1 .. n + 1)) = 2 ^ (n + 1)
  BY Power
<1>7. Cardinality(low \cap high) = 0
  BY ONLY <1>2, FS_EmptySet
<1>8. 2 ^ (n + 1) = 2 ^ n + 2 ^ n - 0
  BY ONLY <1>1, <1>3, <1>4, <1>5, <1>6, <1>7
<1>. QED
  BY ONLY <1>3, <1>8

-----------------------------------------------------------------------------
(* Statistics *)

Matrices(S) == [Counting -> [Kinds -> S]]
StatTypes ==
    /\ v \in Matrices(Nat) /\ old \in Matrices(Nat) /\ num \in Matrices(Nat)
    /\ count \in Matrices(Nat) /\ counted \in Matrices(Nat) /\ exact \in Matrices(Nat)
    /\ now \in Int /\ istarttime \in Int /\ elapsedoffset \in Int /\ halved \in Nat

\* The counters are what was counted, but for whole rounds, and without a
\* late look it is less than one round since the last one.
Rounds ==
    \A w \in Counting, k \in Kinds :
        /\ v[w][k] = count[w][k] % Wrap32 /\ old[w][k] = counted[w][k] % Wrap32
        /\ counted[w][k] <= count[w][k]
        /\ ~late => count[w][k] - counted[w][k] < Wrap32

StatInv == StatTypes /\ Rounds /\ StatisticsTrue

\* What a difference in 32 bits finds is what came since, if less than a round.
LEMMA DifferenceRight ==
    ASSUME NEW a \in Nat, NEW b \in Nat, b <= a, a - b < Wrap32
    PROVE  Difference(a % Wrap32, b % Wrap32) = a - b
<1>1. Wrap32 \in Nat \ {0}
  BY StatisticsAssumption
<1>. DEFINE q == a \div Wrap32
<1>. DEFINE p == b \div Wrap32
<1>. DEFINE r == a % Wrap32
<1>. DEFINE s == b % Wrap32
<1>2. /\ q \in Int /\ p \in Int /\ r \in 0 .. Wrap32 - 1 /\ s \in 0 .. Wrap32 - 1
      /\ a = Wrap32 * q + r /\ b = Wrap32 * p + s
  BY <1>1
<1>. HIDE DEF q, p, r, s
<1>3. a - b = Wrap32 * (q - p) + (r - s)
  BY <1>1, <1>2
<1>4. CASE r >= s
  <2>1. q - p = 0
    BY <1>1, <1>2, <1>3, <1>4
  <2>2. r - s + Wrap32 = Wrap32 * 1 + (r - s) /\ r - s \in 0 .. Wrap32 - 1
    BY <1>1, <1>2, <1>4
  <2>3. (r - s + Wrap32) % Wrap32 = r - s
    BY <1>1, <2>2
  <2>. QED
    BY <1>1, <1>2, <1>3, <2>1, <2>3 DEF Difference, r, s
<1>5. CASE r < s
  <2>1. q - p = 1
    BY <1>1, <1>2, <1>3, <1>5
  <2>2. r - s + Wrap32 \in 0 .. Wrap32 - 1
    BY <1>1, <1>2, <1>5
  <2>3. (r - s + Wrap32) % Wrap32 = r - s + Wrap32
    BY <1>1, <2>2
  <2>. QED
    BY <1>1, <1>2, <1>3, <2>1, <2>3 DEF Difference, r, s
<1>. QED
  BY <1>2, <1>4, <1>5

\* What a step may do to the statistics.
LEMMA StatSteps ==
    ASSUME Next
    PROVE  \/ \E realtime : StatStart(realtime)
           \/ \E w \in Counting, k \in Kinds : Count(w, k)
           \/ Tick \/ Look \/ UNCHANGED statVars
<1>1. ASSUME NEW line \in CommandLines, Run(line)
      PROVE  (\E realtime : StatStart(realtime)) \/ UNCHANGED statVars
  BY <1>1 DEF Run, StartSearch
<1>2. ASSUME NEW w \in Writers, Writer(w) PROVE UNCHANGED statVars
  BY <1>2 DEF Writer
<1>3. EndSearch => StatStart(TRUE)
  BY DEF EndSearch
<1>4. Extract \/ EndExtract \/ EndOther => UNCHANGED statVars
  BY DEF Extract, EndExtract, EndOther
<1>. QED
  BY <1>1, <1>2, <1>3, <1>4 DEF Next, Report

\* Statistics start at zero, in main.c and in each run of a search.
LEMMA StatStarts ==
    /\ StatInit => StatInv
    /\ (\E realtime : StatStart(realtime)) => StatInv'
<1>1. Wrap32 \in Nat \ {0} /\ 0 % Wrap32 = 0 /\ 2 ^ 0 = 1
  BY StatisticsAssumption
<1>2. Zero \in Matrices(Nat) /\ \A w \in Counting, k \in Kinds : Zero[w][k] = 0
  BY DEF Zero, Matrices
<1>3. \A w \in Counting, k \in Kinds :
         /\ Zero[w][k] = Zero[w][k] % Wrap32 /\ Zero[w][k] <= Zero[w][k]
         /\ Zero[w][k] - Zero[w][k] < Wrap32
         /\ Zero[w][k] - Zero[w][k] * 2 ^ 0 \in 0 .. 2 ^ 0 - 1
  BY <1>1, <1>2
<1>4. StatInit => StatInv
  <2>. SUFFICES ASSUME StatInit PROVE StatInv
    OBVIOUS
  <2>1. StatTypes
    BY <1>2 DEF StatInit, StatTypes
  <2>2. Rounds
    BY <1>3 DEF StatInit, Rounds
  <2>3. StatisticsTrue
    BY <1>3 DEF StatInit, StatisticsTrue
  <2>. QED
    BY <2>1, <2>2, <2>3 DEF StatInv
<1>5. ASSUME NEW realtime, StatStart(realtime) PROVE StatInv'
  <2>1. StatTypes'
    BY <1>2, <1>5 DEF StatStart, StatTypes, Matrices
  <2>2. Rounds'
    BY <1>3, <1>5 DEF StatStart, Rounds
  <2>3. StatisticsTrue'
    BY <1>3, <1>5 DEF StatStart, StatisticsTrue
  <2>. QED
    BY <2>1, <2>2, <2>3 DEF StatInv
<1>. QED
  BY <1>4, <1>5

\* One more count, in 32 bits.
LEMMA Counted ==
    ASSUME NEW a \in Nat
    PROVE  (a + 1) % Wrap32 = ((a % Wrap32) + 1) % Wrap32
<1>1. Wrap32 \in Nat \ {0}
  BY StatisticsAssumption
<1>. DEFINE q == a \div Wrap32
<1>. DEFINE r == a % Wrap32
<1>2. q \in Int /\ r \in 0 .. Wrap32 - 1 /\ a = Wrap32 * q + r
  BY <1>1
<1>. HIDE DEF q, r
<1>3. CASE r + 1 < Wrap32
  <2>1. a + 1 = Wrap32 * q + (r + 1) /\ r + 1 \in 0 .. Wrap32 - 1
    BY <1>1, <1>2, <1>3
  <2>2. (r + 1) % Wrap32 = r + 1 /\ (a + 1) % Wrap32 = r + 1
    BY <1>1, <1>2, <2>1
  <2>. QED
    BY <2>2 DEF r
<1>4. CASE r + 1 = Wrap32
  <2>1. a + 1 = Wrap32 * (q + 1) + 0 /\ 0 \in 0 .. Wrap32 - 1
    BY <1>1, <1>2, <1>4
  <2>2. (a + 1) % Wrap32 = 0
    BY <1>1, <1>2, <2>1
  <2>3. Wrap32 % Wrap32 = 0
    BY <1>1
  <2>. QED
    BY <1>4, <2>2, <2>3 DEF r
<1>. QED
  BY <1>1, <1>2, <1>3, <1>4

\* A worker counts, which wraps at 32 bits (worker_batch.inc.h:88-106).
LEMMA CountStep ==
    ASSUME StatInv, NEW w \in Counting, NEW k \in Kinds, Count(w, k)
    PROVE  StatInv'
<1>1. /\ v' = [v EXCEPT ![w][k] = (v[w][k] + 1) % Wrap32]
      /\ count' = [count EXCEPT ![w][k] = count[w][k] + 1]
      /\ late' = (late \/ count'[w][k] - counted[w][k] >= Wrap32)
      /\ UNCHANGED <<old, num, now, istarttime, elapsedoffset, counted, exact, halved>>
  BY DEF Count
<1>2. Wrap32 \in Nat \ {0} /\ v \in Matrices(Nat) /\ count \in Matrices(Nat) /\ counted \in Matrices(Nat)
  BY StatisticsAssumption DEF StatInv, StatTypes
<1>3. v' \in Matrices(Nat) /\ count' \in Matrices(Nat)
  <2>1. (v[w][k] + 1) % Wrap32 \in Nat /\ count[w][k] + 1 \in Nat
    BY <1>2 DEF Matrices
  <2>. QED
    BY <1>1, <1>2, <2>1 DEF Matrices
<1>4. StatTypes'
  <2>1. late' \in BOOLEAN
    BY <1>1
  <2>. QED
    BY <1>1, <1>3, <2>1 DEF StatInv, StatTypes, Matrices
<1>5. ASSUME NEW x \in Counting, NEW y \in Kinds
      PROVE  /\ v'[x][y] = count'[x][y] % Wrap32 /\ old'[x][y] = counted'[x][y] % Wrap32
             /\ counted'[x][y] <= count'[x][y]
             /\ ~late' => count'[x][y] - counted'[x][y] < Wrap32
  <2>1. CASE x = w /\ y = k
    <3>1. /\ v'[w][k] = (v[w][k] + 1) % Wrap32 /\ count'[w][k] = count[w][k] + 1
          /\ count[w][k] \in Nat /\ counted[w][k] \in Nat
      BY <1>1, <1>2 DEF Matrices
    <3>2. v'[w][k] = count'[w][k] % Wrap32
      BY <3>1, Counted DEF StatInv, Rounds
    <3>3. /\ old'[w][k] = counted'[w][k] % Wrap32 /\ counted[w][k] <= count[w][k]
          /\ counted'[w][k] = counted[w][k]
      BY <1>1 DEF StatInv, Rounds
    <3>4. ~late' => count'[w][k] - counted'[w][k] < Wrap32
      <4>1. ~late' => ~(count'[w][k] - counted[w][k] >= Wrap32)
        BY ONLY <1>1, Zenon
      <4>2. count'[w][k] \in Int /\ counted[w][k] \in Int /\ Wrap32 \in Int
        BY <1>2, <3>1
      <4>3. ~(count'[w][k] - counted[w][k] >= Wrap32) => count'[w][k] - counted[w][k] < Wrap32
        BY ONLY <4>2
      <4>. QED
        BY <3>3, <4>1, <4>3, Zenon
    <3>. QED
      BY <2>1, <3>1, <3>2, <3>3, <3>4
  <2>2. CASE ~(x = w /\ y = k)
    <3>1. v'[x][y] = v[x][y] /\ count'[x][y] = count[x][y]
      BY <1>1, <1>2, <2>2 DEF Matrices
    <3>. QED
      BY <1>1, <3>1 DEF StatInv, Rounds
  <2>. QED
    BY <2>1, <2>2
<1>6. StatisticsTrue'
  BY <1>1 DEF StatInv, StatisticsTrue
<1>. QED
  BY <1>4, <1>5, <1>6 DEF StatInv, Rounds

\* The loop of main.c adds differences, reports, starts anew and halves (main.c:788-849).
LEMMA LookStep ==
    ASSUME StatInv, Look
    PROVE  StatInv'
<1>. DEFINE report == ireporttime = 0 \/ now - ireporttime >= ReportDelay
<1>. DEFINE anew == report /\ realtimestats
<1>. DEFINE start == IF anew THEN now ELSE istarttime
<1>. DEFINE sums == IF anew THEN Zero ELSE Added
<1>. DEFINE halve == Total(Added, "calc") > MaxSum \div 2
<1>. DEFINE timediff == IF halve THEN (now - start + 1) \div 2 ELSE 0
<1>1. /\ old' = v /\ counted' = count
      /\ num' = [w \in Counting |-> [k \in Kinds |-> IF halve THEN sums[w][k] \div 2 ELSE sums[w][k]]]
      /\ exact' = IF anew THEN Zero
                  ELSE [w \in Counting |-> [k \in Kinds |->
                           exact[w][k] + (count[w][k] - counted[w][k]) * 2 ^ halved]]
      /\ halved' = IF anew THEN 0 ELSE IF halve THEN halved + 1 ELSE halved
      /\ elapsedoffset' = elapsedoffset + start - istarttime + timediff
      /\ istarttime' = start + timediff
      /\ UNCHANGED <<v, now, count, late>>
  BY DEF Look
<1>. HIDE DEF halve
<1>2. Wrap32 \in Nat \ {0} /\ StatTypes /\ Rounds /\ StatisticsTrue
  BY StatisticsAssumption DEF StatInv
<1>3. elapsedoffset' + now' - istarttime' = now' - 1 /\ istarttime' \in Int /\ elapsedoffset' \in Int
  BY <1>1, <1>2 DEF StatTypes, StatisticsTrue
<1>4. halved \in Nat /\ halved' \in Nat /\ 2 ^ halved \in Nat
  <2>1. halved \in Nat
    BY <1>2 DEF StatTypes
  <2>2. halved' = 0 \/ halved' = halved \/ halved' = halved + 1
    BY <1>1
  <2>3. halved' \in Nat
    BY ONLY <2>1, <2>2
  <2>4. 2 ^ halved \in Nat
    BY ONLY <2>1, Power
  <2>. QED
    BY <2>1, <2>3, <2>4
<1>5. ASSUME NEW w \in Counting, NEW k \in Kinds
      PROVE  /\ v[w][k] \in 0 .. Wrap32 - 1 /\ old[w][k] \in 0 .. Wrap32 - 1
             /\ num[w][k] \in Nat /\ exact[w][k] \in Nat
             /\ count[w][k] \in Nat /\ counted[w][k] \in Nat /\ count[w][k] - counted[w][k] \in Nat
             /\ Added[w][k] = num[w][k] + Difference(v[w][k], old[w][k])
             /\ Added[w][k] \in Nat /\ sums[w][k] \in Nat
  <2>1. /\ v[w][k] \in 0 .. Wrap32 - 1 /\ old[w][k] \in 0 .. Wrap32 - 1
        /\ num[w][k] \in Nat /\ exact[w][k] \in Nat
        /\ count[w][k] \in Nat /\ counted[w][k] \in Nat /\ count[w][k] - counted[w][k] \in Nat
    BY <1>2 DEF StatTypes, Rounds, Matrices
  <2>2. Difference(v[w][k], old[w][k]) \in Nat
    BY <1>2, <2>1 DEF Difference
  <2>3. Added[w][k] = num[w][k] + Difference(v[w][k], old[w][k])
    BY DEF Added
  <2>. QED
    BY <2>1, <2>2, <2>3 DEF Zero
<1>6. num' \in Matrices(Nat) /\ exact' \in Matrices(Nat)
  <2>1. ASSUME NEW w \in Counting, NEW k \in Kinds
        PROVE  (IF halve THEN sums[w][k] \div 2 ELSE sums[w][k]) \in Nat
    BY <1>5
  <2>2. ASSUME NEW w \in Counting, NEW k \in Kinds
        PROVE  exact[w][k] + (count[w][k] - counted[w][k]) * 2 ^ halved \in Nat
    BY <1>4, <1>5
  <2>3. Zero \in Matrices(Nat)
    BY DEF Zero, Matrices
  <2>. HIDE DEF sums
  <2>. QED
    BY <1>1, <2>1, <2>2, <2>3 DEF Matrices
<1>7. ASSUME ~late, NEW w \in Counting, NEW k \in Kinds
      PROVE  (exact[w][k] - num[w][k] * 2 ^ halved \in 0 .. 2 ^ halved - 1)'
  <2>1. 2 ^ 0 = 1 /\ 2 ^ (halved + 1) = 2 * 2 ^ halved
    BY <1>4, Doubled
  <2>2. CASE anew
    <3>1. num'[w][k] = 0 /\ exact'[w][k] = 0 /\ halved' = 0
      <4>1. 0 \div 2 = 0
        OBVIOUS
      <4>. QED
        BY <1>1, <2>2, <4>1 DEF Zero
    <3>. QED
      BY <2>1, <3>1
  <2>3. CASE ~anew
    <3>. DEFINE d == count[w][k] - counted[w][k]
    <3>. DEFINE p == 2 ^ halved
    <3>1. Added[w][k] = num[w][k] + d
      BY <1>2, <1>5, <1>7, DifferenceRight DEF Rounds
    <3>2. exact'[w][k] = exact[w][k] + d * p
      BY <1>1, <2>3
    <3>3. exact[w][k] - num[w][k] * p \in 0 .. p - 1
      BY <1>2, <1>7 DEF StatisticsTrue
    <3>4. num'[w][k] = IF halve THEN Added[w][k] \div 2 ELSE Added[w][k]
      BY <1>1, <2>3
    <3>5. d \in Nat /\ p \in Nat /\ num[w][k] \in Nat /\ exact[w][k] \in Nat
      BY <1>4, <1>5
    <3>6. d * p \in Nat /\ num[w][k] * p \in Nat /\ (num[w][k] + d) * p = num[w][k] * p + d * p
      BY ONLY <3>5
    <3>7. CASE ~halve
      BY <1>1, <2>3, <3>1, <3>2, <3>3, <3>4, <3>5, <3>6, <3>7
    <3>8. CASE halve
      <4>. DEFINE q == (num[w][k] + d) \div 2
      <4>. DEFINE r == (num[w][k] + d) % 2
      <4>1. q \in Nat /\ r \in 0 .. 1 /\ num[w][k] + d = 2 * q + r
        BY ONLY <3>5
      <4>2. halved' = halved + 1 /\ num'[w][k] = q /\ 2 ^ halved' = 2 * p
        BY <1>1, <2>1, <2>3, <3>1, <3>4, <3>8
      <4>. HIDE DEF d, p, q, r
      <4>3. q * (2 * p) + r * p = num[w][k] * p + d * p /\ r * p \in 0 .. p /\ q * (2 * p) \in Nat
        <5>1. q * (2 * p) = (2 * q) * p /\ (2 * q) * p + r * p = (2 * q + r) * p
          BY ONLY <3>5, <4>1
        <5>2. r * p \in 0 .. p
          <6>1. r = 0 \/ r = 1
            BY ONLY <4>1
          <6>. QED
            BY ONLY <3>5, <6>1
        <5>. QED
          BY ONLY <3>5, <3>6, <4>1, <5>1, <5>2
      <4>4. exact'[w][k] - num'[w][k] * 2 ^ halved' = (exact[w][k] - num[w][k] * p) + r * p
        <5>1. num'[w][k] * 2 ^ halved' = q * (2 * p)
          BY ONLY <4>2
        <5>2. exact'[w][k] = exact[w][k] + d * p
          BY ONLY <3>2
        <5>3. \A e, x, y, z, t \in Int : y + t = z + x => (e + x) - y = (e - z) + t
          OBVIOUS
        <5>4. /\ exact[w][k] \in Int /\ d * p \in Int /\ q * (2 * p) \in Int
              /\ num[w][k] * p \in Int /\ r * p \in Int
          BY ONLY <3>5, <3>6, <4>3
        <5>. QED
          BY ONLY <4>3, <5>1, <5>2, <5>3, <5>4
      <4>. QED
        BY ONLY <3>3, <3>5, <3>6, <4>2, <4>3, <4>4
    <3>. QED
      BY <3>7, <3>8
  <2>. QED
    BY <2>2, <2>3
<1>8. StatTypes'
  BY <1>1, <1>2, <1>3, <1>4, <1>6 DEF StatTypes, Matrices
<1>9. Rounds'
  BY <1>1, <1>2, <1>5 DEF Rounds
<1>10. StatisticsTrue'
  BY <1>1, <1>3, <1>7 DEF StatisticsTrue
<1>. QED
  BY <1>8, <1>9, <1>10 DEF StatInv

\* No step of the program disturbs the statistics.
LEMMA StatStep ==
    ASSUME StatInv, [Next]_vars
    PROVE  StatInv'
<1>1. UNCHANGED statVars => StatInv'
  BY DEF statVars, StatInv, StatTypes, Rounds, StatisticsTrue, Matrices
<1>2. Tick => StatInv'
  <2>. SUFFICES ASSUME Tick PROVE StatInv'
    OBVIOUS
  <2>1. /\ now' = now + 1
        /\ UNCHANGED <<v, old, num, istarttime, elapsedoffset, count, counted, exact, halved, late>>
    BY DEF Tick
  <2>. QED
    BY <2>1 DEF StatInv, StatTypes, Rounds, StatisticsTrue, Matrices
<1>3. UNCHANGED vars => UNCHANGED statVars
  BY DEF vars
<1>. QED
  BY <1>1, <1>2, <1>3, StatSteps, StatStarts, CountStep, LookStep

\* The elapsed time of the statistics is that of the clock, and without a
\* late look the sums are what the workers counted, but for what the halving
\* drops (main.c:788-849).
THEOREM ProgramStatistics == Spec => []StatisticsTrue
<1>1. Init => StatInv
  BY StatStarts DEF Init
<1>2. StatInv => StatisticsTrue
  BY DEF StatInv
<1>. QED
  BY <1>1, <1>2, StatStep, PTL DEF Spec

-----------------------------------------------------------------------------
(* Times of records *)

\* The buffer of gmtime is in the hands of the one who holds the mutex.
Stamps ==
    /\ wpc \in [Writers -> {"idle", "lock", "strftime", "write"}]
    /\ DOMAIN wtime = Writers /\ DOMAIN wstamp = Writers
    /\ \A w \in Writers :
          /\ wpc[w] = "strftime" => tmLock = w /\ tm = wtime[w]
          /\ wpc[w] = "write" => wstamp[w] = wtime[w]
    /\ StampsTrue

stampVars == <<wpc, wtime, wstamp, tmLock, tm, stampsWrong>>

\* No step comes between gmtime and strftime of a worker.
LEMMA StampStep ==
    ASSUME Stamps, [Next]_vars
    PROVE  Stamps'
<1>0. UNCHANGED stampVars => Stamps'
  BY DEF Stamps, StampsTrue, stampVars
<1>1. ASSUME NEW line \in CommandLines, Run(line) PROVE Stamps'
  BY <1>0, <1>1 DEF Run, stampVars
<1>2. ASSUME NEW w \in Writers, Writer(w) PROVE Stamps'
  <2>1. CASE Begin(w)
    BY <2>1 DEF Begin, Stamps, StampsTrue
  <2>2. CASE Gmtime(w)
    <3>1. tmLock = NoOne /\ tmLock' = w /\ tm' = wtime[w] /\ wpc' = [wpc EXCEPT ![w] = "strftime"]
          /\ UNCHANGED <<wtime, wstamp, stampsWrong>>
      BY <2>2 DEF Gmtime, Lock
    <3>2. \A x \in Writers : wpc[x] # "strftime"
      BY <3>1, YamlAssumption DEF Stamps
    <3>. QED
      BY <3>1, <3>2 DEF Stamps, StampsTrue
  <2>3. CASE Strftime(w)
    BY <2>3 DEF Strftime, Stamps, StampsTrue
  <2>4. ASSUME NEW key, NEW raw, Write(w, key, raw) PROVE Stamps'
    <3>1. wpc[w] = "write" /\ wstamp[w] = wtime[w] /\ stampsWrong = 0
      BY <2>4 DEF Write, Stamps, StampsTrue
    <3>2. stampsWrong' = 0 /\ UNCHANGED <<tmLock, tm>>
      BY <2>4, <3>1 DEF Write, Done
    <3>3. /\ wpc' = [wpc EXCEPT ![w] = "idle"] /\ wtime' = [wtime EXCEPT ![w] = NoKey]
          /\ wstamp' = [wstamp EXCEPT ![w] = NoKey]
      BY <2>4 DEF Write, Done
    <3>. QED
      BY <3>2, <3>3 DEF Stamps, StampsTrue
  <2>5. ASSUME NEW key, NEW raw, WriteCut(w, key, raw) PROVE Stamps'
    <3>1. /\ wpc' = [wpc EXCEPT ![w] = "idle"] /\ wtime' = [wtime EXCEPT ![w] = NoKey]
          /\ wstamp' = [wstamp EXCEPT ![w] = NoKey] /\ UNCHANGED <<tmLock, tm, stampsWrong>>
      BY <2>5 DEF WriteCut, Done
    <3>. QED
      BY <3>1 DEF Stamps, StampsTrue
  <2>. QED
    BY <1>2, <2>1, <2>2, <2>3, <2>4, <2>5 DEF Writer
<1>3. ASSUME EndSearch PROVE Stamps'
  BY <1>3 DEF EndSearch, Stamps, StampsTrue
<1>4. Report \/ Extract \/ EndExtract \/ EndOther \/ UNCHANGED vars => UNCHANGED stampVars
  BY DEF Report, Extract, ReadLine, Create, CreateFails, EndOfInput, ReadError, EndExtract, EndOther,
         vars, yamlVars, outVars, stampVars
<1>. QED
  BY <1>0, <1>1, <1>2, <1>3, <1>4 DEF Next

\* The time in a record is that of its own key, though all workers use the
\* one buffer of gmtime (yaml.c:112-119).
THEOREM ProgramStamps == Spec => []StampsTrue
<1>1. Init => Stamps
  BY DEF Init, YamlInit, Stamps, StampsTrue
<1>2. Stamps => StampsTrue
  BY DEF Stamps
<1>. QED
  BY <1>1, <1>2, StampStep, PTL DEF Spec

-----------------------------------------------------------------------------
(* The order of options *)

\* main's variables, but for the list of filters and the end of the program, and
\* the options that set them.
SetBy == [
    outfile |-> {"o", "O"}, outfileoverwrite |-> {"o", "O"}, fout |-> {"x"},
    infile |-> {"Y"}, onehostname |-> {"Y"}, workdir |-> {"d"},
    dirnameflag |-> {"F"}, numthreads |-> {"t", "j"}, numneedgenerate |-> {"n"}, numwords |-> {"N"},
    wantdedup |-> {"D"}, quietflag |-> {"q"}, verboseflag |-> {"v"},
    reportdelay |-> {"s", "S"}, realtimestats |-> {"T"},
    yamlinput |-> {"Y"}, yamloutput |-> {"y"}, yamlraw |-> {"rawyaml"},
    deterministic |-> {"p", "P"}, checkpointfile |-> {"checkpoint"},
    pw_skipnear |-> {"skipnear", "warnnear"}, pw_warnnear |-> {"skipnear", "warnnear"},
    use_cuda |-> {"cuda"}]
Settings == DOMAIN SetBy

\* A configuration.
Conf(d) ==
    /\ d = [k \in Settings \cup {"filters", "exit"} |-> d[k]]
    /\ \E U : d["filters"] \in Seq(U)
Ready(d) == Conf(d) /\ d["exit"] = "no"

\* An option makes d1 of d as it makes e1 of e.
Parallel(d, d1, e, e1, word) ==
    /\ Conf(d1) /\ Conf(e1) /\ d1["exit"] = e1["exit"]
    /\ \E X : /\ ToSet(d1["filters"]) = ToSet(d["filters"]) \cup X
              /\ ToSet(e1["filters"]) = ToSet(e["filters"]) \cup X
    /\ \A k \in Settings :
          /\ d[k] = e[k] => d1[k] = e1[k]
          /\ word \notin SetBy[k] => d1[k] = d[k] /\ e1[k] = e[k]

LEMMA SettingsAre ==
    /\ Settings = {"outfile", "outfileoverwrite", "fout", "infile", "onehostname", "workdir",
         "dirnameflag",
                 "numthreads", "numneedgenerate", "numwords", "wantdedup", "quietflag", "verboseflag",
                 "reportdelay", "realtimestats", "yamlinput", "yamloutput", "yamlraw", "deterministic",
                 "checkpointfile", "pw_skipnear", "pw_warnnear", "use_cuda"}
    /\ "filters" \notin Settings /\ "exit" \notin Settings
  BY SMT DEF Settings, SetBy

LEMMA DefaultsReady == Ready(Defaults) /\ Defaults["filters"] = <<>>
<1>1. DOMAIN Defaults = Settings \cup {"filters", "exit"}
  BY SettingsAre, SMT DEF Defaults
<1>2. Defaults["filters"] = <<>> /\ Defaults["exit"] = "no"
      /\ Defaults = [k \in DOMAIN Defaults |-> Defaults[k]]
  BY SMT DEF Defaults
<1>3. <<>> \in Seq({})
  BY EmptySeq
<1>. QED
  BY ONLY <1>1, <1>2, <1>3, Zenon DEF Ready, Conf

\* One variable is set.
Put(g, k, z) == [g EXCEPT ![k] = z]

LEMMA PutIs ==
    ASSUME NEW g, Ready(g), NEW k \in Settings, NEW z
    PROVE  /\ Ready(Put(g, k, z)) /\ Put(g, k, z)["filters"] = g["filters"]
           /\ \A i \in Settings : Put(g, k, z)[i] = IF i = k THEN z ELSE g[i]
<1>1. k # "filters" /\ k # "exit"
  BY SettingsAre, Zenon
<1>2. DOMAIN g = Settings \cup {"filters", "exit"}
  BY Zenon DEF Ready, Conf
<1>3. \A i \in Settings \cup {"filters", "exit"} : Put(g, k, z)[i] = IF i = k THEN z ELSE g[i]
  BY ONLY <1>2, Zenon DEF Put
<1>4. Put(g, k, z) = [i \in Settings \cup {"filters", "exit"} |-> Put(g, k, z)[i]]
  <2>1. Put(g, k, z) = [i \in DOMAIN g |-> Put(g, k, z)[i]]
    BY ONLY TRUE, Zenon DEF Put
  <2>. QED
    BY ONLY <1>2, <2>1, Zenon
<1>. QED
  BY <1>1, <1>3, <1>4, Zenon DEF Ready, Conf

\* So two configurations stay alike.
LEMMA PutParallel ==
    ASSUME NEW d, NEW e, Ready(d), Ready(e), NEW k \in Settings, NEW word, word \in SetBy[k],
           NEW x, NEW y, d[k] = e[k] => x = y
    PROVE  Parallel(d, Put(d, k, x), e, Put(e, k, y), word)
<1>. DEFINE d1 == Put(d, k, x)  e1 == Put(e, k, y)
<1>1. /\ Ready(d1) /\ d1["filters"] = d["filters"]
      /\ \A i \in Settings : d1[i] = IF i = k THEN x ELSE d[i]
      /\ Ready(e1) /\ e1["filters"] = e["filters"]
      /\ \A i \in Settings : e1[i] = IF i = k THEN y ELSE e[i]
  <2>1. Ready(d1) /\ d1["filters"] = d["filters"]
        /\ \A i \in Settings : d1[i] = IF i = k THEN x ELSE d[i]
    BY ONLY Ready(d), k \in Settings, PutIs
  <2>2. Ready(e1) /\ e1["filters"] = e["filters"]
        /\ \A i \in Settings : e1[i] = IF i = k THEN y ELSE e[i]
    BY ONLY Ready(e), k \in Settings, PutIs
  <2>. QED
    BY ONLY <2>1, <2>2, Zenon
<1>. HIDE DEF d1, e1
<1>2. /\ ToSet(d1["filters"]) = ToSet(d["filters"]) \cup {}
      /\ ToSet(e1["filters"]) = ToSet(e["filters"]) \cup {}
  BY ONLY <1>1, SMT
<1>3. \A i \in Settings :
          /\ d[i] = e[i] => d1[i] = e1[i]
          /\ word \notin SetBy[i] => d1[i] = d[i] /\ e1[i] = e[i]
  BY ONLY <1>1, d[k] = e[k] => x = y, word \in SetBy[k], Zenon
<1>4. Parallel(d, d1, e, e1, word)
  BY ONLY <1>1, <1>2, <1>3, Zenon DEF Parallel, Ready
<1>. QED
  BY <1>4, Zenon DEF d1, e1

\* One change after the other.
LEMMA ParallelTwice ==
    ASSUME NEW d, NEW d1, NEW d2, NEW e, NEW e1, NEW e2, NEW word,
           Parallel(d, d1, e, e1, word), Parallel(d1, d2, e1, e2, word)
    PROVE  Parallel(d, d2, e, e2, word)
<1>1. PICK X : /\ ToSet(d1["filters"]) = ToSet(d["filters"]) \cup X
               /\ ToSet(e1["filters"]) = ToSet(e["filters"]) \cup X
  BY Zenon DEF Parallel
<1>2. PICK Y : /\ ToSet(d2["filters"]) = ToSet(d1["filters"]) \cup Y
               /\ ToSet(e2["filters"]) = ToSet(e1["filters"]) \cup Y
  BY Zenon DEF Parallel
<1>3. /\ ToSet(d2["filters"]) = ToSet(d["filters"]) \cup (X \cup Y)
      /\ ToSet(e2["filters"]) = ToSet(e["filters"]) \cup (X \cup Y)
  BY ONLY <1>1, <1>2, SMT
<1>. QED
  BY <1>3, Zenon DEF Parallel

\* The end of the program, or nothing at all.
LEMMA ExitParallel ==
    ASSUME NEW d, NEW e, Ready(d), Ready(e), NEW word, NEW status
    PROVE  Parallel(d, Exit(d, status), e, Exit(e, status), word) /\ Parallel(d, d, e, e, word)
<1>1. ASSUME NEW g, Ready(g)
      PROVE  /\ Conf(Exit(g, status)) /\ Exit(g, status)["exit"] = status
             /\ Exit(g, status)["filters"] = g["filters"]
             /\ \A i \in Settings : Exit(g, status)[i] = g[i]
  <2>1. DOMAIN g = Settings \cup {"filters", "exit"}
    BY <1>1, Zenon DEF Ready, Conf
  <2>2. Exit(g, status) = [g EXCEPT !["exit"] = status]
    BY ONLY TRUE, Zenon DEF Exit
  <2>3. \A i \in Settings \cup {"filters", "exit"} : Exit(g, status)[i] = IF i = "exit" THEN status
            ELSE g[i]
    BY ONLY <2>1, <2>2, Zenon
  <2>4. Exit(g, status) = [i \in Settings \cup {"filters", "exit"} |-> Exit(g, status)[i]]
    <3>1. Exit(g, status) = [i \in DOMAIN g |-> Exit(g, status)[i]]
      BY ONLY <2>2, Zenon
    <3>. QED
      BY ONLY <2>1, <3>1, Zenon
  <2>. QED
    BY <1>1, <2>3, <2>4, SettingsAre, Zenon DEF Ready, Conf
<1>. DEFINE d1 == Exit(d, status)  e1 == Exit(e, status)
<1>2. /\ Conf(d1) /\ d1["exit"] = status /\ d1["filters"] = d["filters"]
      /\ \A i \in Settings : d1[i] = d[i]
      /\ Conf(e1) /\ e1["exit"] = status /\ e1["filters"] = e["filters"]
      /\ \A i \in Settings : e1[i] = e[i]
  BY <1>1, Zenon
<1>. HIDE DEF d1, e1
<1>3. /\ ToSet(d1["filters"]) = ToSet(d["filters"]) \cup {}
      /\ ToSet(e1["filters"]) = ToSet(e["filters"]) \cup {}
      /\ ToSet(d["filters"]) = ToSet(d["filters"]) \cup {}
      /\ ToSet(e["filters"]) = ToSet(e["filters"]) \cup {}
  BY ONLY <1>2, SMT
<1>4. Parallel(d, d1, e, e1, word)
  BY ONLY <1>2, <1>3, Zenon DEF Parallel
<1>5. Parallel(d, d, e, e, word)
  BY <1>3, Zenon DEF Parallel, Ready
<1>. QED
  BY <1>4, <1>5, Zenon DEF d1, e1

\* One more filter.
WithFilter(g, z) == [g EXCEPT !.filters = Append(@, z)]
LEMMA FilterParallel ==
    ASSUME NEW d, NEW e, Ready(d), Ready(e), NEW word, NEW z
    PROVE  Parallel(d, WithFilter(d, z), e, WithFilter(e, z), word)
<1>1. ASSUME NEW g, Ready(g)
      PROVE  /\ Ready(WithFilter(g, z)) /\ ToSet(WithFilter(g, z)["filters"])
                  = ToSet(g["filters"]) \cup {z}
             /\ \A i \in Settings : WithFilter(g, z)[i] = g[i]
  <2>1. DOMAIN g = Settings \cup {"filters", "exit"}
    BY <1>1, Zenon DEF Ready, Conf
  <2>. DEFINE t == g["filters"]
  <2>2. WithFilter(g, z) = [g EXCEPT !["filters"] = Append(t, z)]
    BY ONLY TRUE, Zenon DEF WithFilter
  <2>3. PICK U : t \in Seq(U)
    BY <1>1, Zenon DEF Ready, Conf
  <2>. HIDE DEF t
  <2>4. Append(t, z) \in Seq(U \cup {z}) /\ ToSet(Append(t, z)) = ToSet(t) \cup {z}
    <3>1. t \in Seq(U \cup {z}) /\ z \in U \cup {z}
      BY ONLY <2>3, SeqMonotonic
    <3>2. Append(t, z) \in Seq(U \cup {z})
      BY ONLY <3>1
    <3>3. /\ DOMAIN t = 1 .. Len(t) /\ Len(t) \in Nat
          /\ DOMAIN Append(t, z) = 1 .. Len(t) + 1
          /\ \A i \in 1 .. Len(t) : Append(t, z)[i] = t[i]
          /\ Append(t, z)[Len(t) + 1] = z
      BY ONLY <3>1, SMT
    <3>4. ToSet(Append(t, z)) = ToSet(t) \cup {z}
      BY ONLY <3>3, SMT DEF ToSet
    <3>. QED
      BY ONLY <3>2, <3>4, Zenon
  <2>5. \A i \in Settings \cup {"filters", "exit"} :
           WithFilter(g, z)[i] = IF i = "filters" THEN Append(t, z) ELSE g[i]
    BY ONLY <2>1, <2>2, Zenon
  <2>6. WithFilter(g, z) = [i \in Settings \cup {"filters", "exit"} |-> WithFilter(g, z)[i]]
    <3>1. WithFilter(g, z) = [i \in DOMAIN g |-> WithFilter(g, z)[i]]
      BY ONLY <2>2, Zenon
    <3>. QED
      BY ONLY <2>1, <3>1, Zenon
  <2>7. WithFilter(g, z)["filters"] = Append(t, z) /\ WithFilter(g, z)["exit"] = g["exit"]
        /\ \A i \in Settings : WithFilter(g, z)[i] = g[i]
    BY <2>5, SettingsAre, SMT
  <2>. QED
    BY <1>1, <2>4, <2>6, <2>7, Zenon DEF Ready, Conf, t
<1>. DEFINE d1 == WithFilter(d, z)  e1 == WithFilter(e, z)
<1>2. /\ Ready(d1) /\ ToSet(d1["filters"]) = ToSet(d["filters"]) \cup {z}
      /\ \A i \in Settings : d1[i] = d[i]
      /\ Ready(e1) /\ ToSet(e1["filters"]) = ToSet(e["filters"]) \cup {z}
      /\ \A i \in Settings : e1[i] = e[i]
  BY <1>1, Zenon
<1>. HIDE DEF d1, e1
<1>3. Parallel(d, d1, e, e1, word)
  BY ONLY <1>2, Zenon DEF Parallel, Ready
<1>. QED
  BY <1>3, Zenon DEF d1, e1

\* One variable, or two, are set to the same in both.
LEMMA SetParallel ==
    ASSUME NEW d, NEW d1, NEW e, NEW e1, Ready(d), Ready(e), NEW k \in Settings, NEW word,
        word \in SetBy[k],
           NEW x, d1 = Put(d, k, x), e1 = Put(e, k, x)
    PROVE  Parallel(d, d1, e, e1, word)
<1>1. Parallel(d, Put(d, k, x), e, Put(e, k, x), word)
  BY PutParallel
<1>. QED
  BY ONLY <1>1, d1 = Put(d, k, x), e1 = Put(e, k, x), Zenon

LEMMA SetTwiceParallel ==
    ASSUME NEW d, NEW d2, NEW e, NEW e2, Ready(d), Ready(e), NEW word,
           NEW k \in Settings, word \in SetBy[k], NEW l \in Settings, word \in SetBy[l],
           NEW x, NEW y, d2 = Put(Put(d, k, x), l, y), e2 = Put(Put(e, k, x), l, y)
    PROVE  Parallel(d, d2, e, e2, word)
<1>. DEFINE d1 == Put(d, k, x)  e1 == Put(e, k, x)
<1>1. Parallel(d, d1, e, e1, word)
  BY PutParallel
<1>2. Ready(d1) /\ Ready(e1)
  BY PutIs
<1>. HIDE DEF d1, e1
<1>3. Parallel(d1, Put(d1, l, y), e1, Put(e1, l, y), word)
  BY <1>2, PutParallel
<1>4. d2 = Put(d1, l, y) /\ e2 = Put(e1, l, y)
  BY Zenon DEF d1, e1
<1>5. Parallel(d1, d2, e1, e2, word)
  BY ONLY <1>3, <1>4, Zenon
<1>. QED
  BY ONLY <1>1, <1>5, ParallelTwice

\* The names behind two dashes.
LEMMA LongParallel ==
    ASSUME NEW d, NEW e, Ready(d), Ready(e), NEW word
    PROVE  Parallel(d, LongOption(d, word), e, LongOption(e, word), word)
<1>1. CASE word \in {"help", "usage", "version"}
  <2>1. LongOption(d, word) = Exit(d, "0") /\ LongOption(e, word) = Exit(e, "0")
    BY <1>1, SMT DEF LongOption
  <2>. QED
    BY ONLY Ready(d), Ready(e), <2>1, ExitParallel
<1>2. CASE word = "rawyaml"
  <2>1. LongOption(d, word) = [d EXCEPT !.yamlraw = TRUE]
        /\ LongOption(e, word) = [e EXCEPT !.yamlraw = TRUE]
    BY <1>2, SMT DEF LongOption
  <2>2. "yamlraw" \in Settings /\ word \in SetBy["yamlraw"]
    BY <1>2, SMT DEF Settings, SetBy
  <2>3. LongOption(d, word) = Put(d, "yamlraw", TRUE) /\ LongOption(e, word) = Put(e, "yamlraw", TRUE)
    BY ONLY <2>1, Zenon DEF Put
  <2>. QED
    BY ONLY Ready(d), Ready(e), <2>2, <2>3, SetParallel
<1>3. CASE word = "cuda"
  <2>1. LongOption(d, word) = [d EXCEPT !.use_cuda = TRUE]
        /\ LongOption(e, word) = [e EXCEPT !.use_cuda = TRUE]
    BY <1>3, SMT DEF LongOption
  <2>2. "use_cuda" \in Settings /\ word \in SetBy["use_cuda"]
    BY <1>3, SMT DEF Settings, SetBy
  <2>3. LongOption(d, word) = Put(d, "use_cuda", TRUE) /\ LongOption(e, word) = Put(e, "use_cuda", TRUE)
    BY ONLY <2>1, Zenon DEF Put
  <2>. QED
    BY ONLY Ready(d), Ready(e), <2>2, <2>3, SetParallel
<1>4. CASE word = "skipnear"
  <2>1. LongOption(d, word) = [d EXCEPT !.pw_skipnear = TRUE, !.pw_warnnear = FALSE]
        /\ LongOption(e, word) = [e EXCEPT !.pw_skipnear = TRUE, !.pw_warnnear = FALSE]
    BY <1>4, SMT DEF LongOption
  <2>2. "pw_skipnear" \in Settings /\ word \in SetBy["pw_skipnear"] /\ "pw_warnnear" \in Settings
        /\ word \in SetBy["pw_warnnear"]
    BY <1>4, SMT DEF Settings, SetBy
  <2>3. LongOption(d, word) = Put(Put(d, "pw_skipnear", TRUE), "pw_warnnear", FALSE)
        /\ LongOption(e, word) = Put(Put(e, "pw_skipnear", TRUE), "pw_warnnear", FALSE)
    BY ONLY <2>1, Zenon DEF Put
  <2>. QED
    BY ONLY Ready(d), Ready(e), <2>2, <2>3, SetTwiceParallel
<1>5. CASE word = "warnnear"
  <2>1. LongOption(d, word) = [d EXCEPT !.pw_warnnear = TRUE, !.pw_skipnear = FALSE]
        /\ LongOption(e, word) = [e EXCEPT !.pw_warnnear = TRUE, !.pw_skipnear = FALSE]
    BY <1>5, SMT DEF LongOption
  <2>2. "pw_warnnear" \in Settings /\ word \in SetBy["pw_warnnear"] /\ "pw_skipnear" \in Settings
        /\ word \in SetBy["pw_skipnear"]
    BY <1>5, SMT DEF Settings, SetBy
  <2>3. LongOption(d, word) = Put(Put(d, "pw_warnnear", TRUE), "pw_skipnear", FALSE)
        /\ LongOption(e, word) = Put(Put(e, "pw_warnnear", TRUE), "pw_skipnear", FALSE)
    BY ONLY <2>1, Zenon DEF Put
  <2>. QED
    BY ONLY Ready(d), Ready(e), <2>2, <2>3, SetTwiceParallel
<1>6. CASE word \notin {"help", "usage", "version", "rawyaml", "cuda", "skipnear", "warnnear"}
  <2>1. LongOption(d, word) = Exit(d, "1") /\ LongOption(e, word) = Exit(e, "1")
    BY <1>6, SMT DEF LongOption
  <2>. QED
    BY ONLY Ready(d), Ready(e), <2>1, ExitParallel
<1>. QED
  BY <1>1, <1>2, <1>3, <1>4, <1>5, <1>6, SMT

\* The letters without an argument.
LEMMA ShortParallel ==
    ASSUME NEW d, NEW e, Ready(d), Ready(e), NEW word
    PROVE  Parallel(d, ShortOption(d, word), e, ShortOption(e, word), word)
<1>1. CASE word = "h"
  <2>1. ShortOption(d, word) = Exit(d, "0") /\ ShortOption(e, word) = Exit(e, "0")
    BY <1>1, SMT DEF ShortOption
  <2>. QED
    BY ONLY Ready(d), Ready(e), <2>1, ExitParallel
<1>2. CASE word = "V"
  <2>1. ShortOption(d, word) = Exit(d, "0") /\ ShortOption(e, word) = Exit(e, "0")
    BY <1>2, SMT DEF ShortOption
  <2>. QED
    BY ONLY Ready(d), Ready(e), <2>1, ExitParallel
<1>3. CASE word \in {"Z", "z", "B"}
  <2>1. ShortOption(d, word) = d /\ ShortOption(e, word) = e
    BY <1>3, SMT DEF ShortOption
  <2>. QED
    BY ONLY Ready(d), Ready(e), <2>1, ExitParallel
<1>4. CASE word = "D"
  <2>1. ShortOption(d, word) = [d EXCEPT !.wantdedup = TRUE]
        /\ ShortOption(e, word) = [e EXCEPT !.wantdedup = TRUE]
    BY <1>4, SMT DEF ShortOption
  <2>2. "wantdedup" \in Settings /\ word \in SetBy["wantdedup"]
    BY <1>4, SMT DEF Settings, SetBy
  <2>3. ShortOption(d, word) = Put(d, "wantdedup", TRUE)
        /\ ShortOption(e, word) = Put(e, "wantdedup", TRUE)
    BY ONLY <2>1, Zenon DEF Put
  <2>. QED
    BY ONLY Ready(d), Ready(e), <2>2, <2>3, SetParallel
<1>5. CASE word = "x"
  <2>1. ShortOption(d, word) = [d EXCEPT !.fout = FALSE]
        /\ ShortOption(e, word) = [e EXCEPT !.fout = FALSE]
    BY <1>5, SMT DEF ShortOption, Silent
  <2>2. "fout" \in Settings /\ word \in SetBy["fout"]
    BY <1>5, SMT DEF Settings, SetBy
  <2>3. ShortOption(d, word) = Put(d, "fout", FALSE) /\ ShortOption(e, word) = Put(e, "fout", FALSE)
    BY ONLY <2>1, Zenon DEF Put
  <2>. QED
    BY ONLY Ready(d), Ready(e), <2>2, <2>3, SetParallel
<1>6. CASE word = "v"
  <2>1. ShortOption(d, word) = [d EXCEPT !.verboseflag = TRUE]
        /\ ShortOption(e, word) = [e EXCEPT !.verboseflag = TRUE]
    BY <1>6, SMT DEF ShortOption
  <2>2. "verboseflag" \in Settings /\ word \in SetBy["verboseflag"]
    BY <1>6, SMT DEF Settings, SetBy
  <2>3. ShortOption(d, word) = Put(d, "verboseflag", TRUE)
        /\ ShortOption(e, word) = Put(e, "verboseflag", TRUE)
    BY ONLY <2>1, Zenon DEF Put
  <2>. QED
    BY ONLY Ready(d), Ready(e), <2>2, <2>3, SetParallel
<1>7. CASE word = "F"
  <2>1. ShortOption(d, word) = [d EXCEPT !.dirnameflag = TRUE]
        /\ ShortOption(e, word) = [e EXCEPT !.dirnameflag = TRUE]
    BY <1>7, SMT DEF ShortOption
  <2>2. "dirnameflag" \in Settings /\ word \in SetBy["dirnameflag"]
    BY <1>7, SMT DEF Settings, SetBy
  <2>3. ShortOption(d, word) = Put(d, "dirnameflag", TRUE)
        /\ ShortOption(e, word) = Put(e, "dirnameflag", TRUE)
    BY ONLY <2>1, Zenon DEF Put
  <2>. QED
    BY ONLY Ready(d), Ready(e), <2>2, <2>3, SetParallel
<1>8. CASE word = "T"
  <2>1. ShortOption(d, word) = [d EXCEPT !.realtimestats = FALSE]
        /\ ShortOption(e, word) = [e EXCEPT !.realtimestats = FALSE]
    BY <1>8, SMT DEF ShortOption
  <2>2. "realtimestats" \in Settings /\ word \in SetBy["realtimestats"]
    BY <1>8, SMT DEF Settings, SetBy
  <2>3. ShortOption(d, word) = Put(d, "realtimestats", FALSE)
        /\ ShortOption(e, word) = Put(e, "realtimestats", FALSE)
    BY ONLY <2>1, Zenon DEF Put
  <2>. QED
    BY ONLY Ready(d), Ready(e), <2>2, <2>3, SetParallel
<1>9. CASE word = "y"
  <2>1. ShortOption(d, word) = [d EXCEPT !.yamloutput = TRUE]
        /\ ShortOption(e, word) = [e EXCEPT !.yamloutput = TRUE]
    BY <1>9, SMT DEF ShortOption
  <2>2. "yamloutput" \in Settings /\ word \in SetBy["yamloutput"]
    BY <1>9, SMT DEF Settings, SetBy
  <2>3. ShortOption(d, word) = Put(d, "yamloutput", TRUE)
        /\ ShortOption(e, word) = Put(e, "yamloutput", TRUE)
    BY ONLY <2>1, Zenon DEF Put
  <2>. QED
    BY ONLY Ready(d), Ready(e), <2>2, <2>3, SetParallel
<1>10. CASE word = "s"
  <2>. DEFINE x == 10000000
  <2>1. ShortOption(d, word) = [d EXCEPT !.reportdelay = x]
        /\ ShortOption(e, word) = [e EXCEPT !.reportdelay = x]
    BY <1>10, SMT DEF ShortOption
  <2>. HIDE DEF x
  <2>2. "reportdelay" \in Settings /\ word \in SetBy["reportdelay"]
    BY <1>10, SMT DEF Settings, SetBy
  <2>3. ShortOption(d, word) = Put(d, "reportdelay", x)
        /\ ShortOption(e, word) = Put(e, "reportdelay", x)
    BY ONLY <2>1, Zenon DEF Put
  <2>. QED
    BY ONLY Ready(d), Ready(e), <2>2, <2>3, SetParallel
<1>11. CASE word = "q"
  <2>. DEFINE x == d["quietflag"] + 1  x2 == e["quietflag"] + 1
  <2>1. ShortOption(d, word) = [d EXCEPT !.quietflag = x]
        /\ ShortOption(e, word) = [e EXCEPT !.quietflag = x2]
    BY <1>11, SMT DEF ShortOption
  <2>2. d["quietflag"] = e["quietflag"] => x = x2
    BY ONLY TRUE, Zenon
  <2>. HIDE DEF x, x2
  <2>3. "quietflag" \in Settings /\ word \in SetBy["quietflag"]
    BY <1>11, SMT DEF Settings, SetBy
  <2>4. ShortOption(d, word) = Put(d, "quietflag", x) /\ ShortOption(e, word) = Put(e, "quietflag", x2)
    BY ONLY <2>1, Zenon DEF Put
  <2>5. Parallel(d, Put(d, "quietflag", x), e, Put(e, "quietflag", x2), word)
    BY ONLY Ready(d), Ready(e), <2>2, <2>3, PutParallel
  <2>. QED
    BY ONLY <2>4, <2>5, Zenon
<1>12. CASE word = "P" /\ Passphrase = Unset
  <2>1. ShortOption(d, word) = Exit(d, "1") /\ ShortOption(e, word) = Exit(e, "1")
    BY <1>12, SMT DEF ShortOption
  <2>. QED
    BY ONLY Ready(d), Ready(e), <2>1, ExitParallel
<1>13. CASE word = "P" /\ Passphrase # Unset
  <2>1. ShortOption(d, word) = [d EXCEPT !.deterministic = Passphrase]
        /\ ShortOption(e, word) = [e EXCEPT !.deterministic = Passphrase]
    BY <1>13, SMT DEF ShortOption
  <2>2. "deterministic" \in Settings /\ word \in SetBy["deterministic"]
    BY <1>13, SMT DEF Settings, SetBy
  <2>3. ShortOption(d, word) = Put(d, "deterministic", Passphrase)
        /\ ShortOption(e, word) = Put(e, "deterministic", Passphrase)
    BY ONLY <2>1, Zenon DEF Put
  <2>. QED
    BY ONLY Ready(d), Ready(e), <2>2, <2>3, SetParallel
<1>14. CASE word \notin {"h", "V", "D", "q", "x", "v", "F", "Z", "z", "B", "s", "T", "y", "P"}
  <2>1. word # "h" /\ word # "V" /\ word # "D" /\ word # "q" /\ word # "x" /\ word # "v" /\ word # "F"
        /\ word # "Z" /\ word # "z" /\ word # "B" /\ word # "s" /\ word # "T" /\ word # "y"
        /\ word # "P"
    BY <1>14, Zenon
  <2>2. ASSUME NEW g PROVE ShortOption(g, word) = Exit(g, "1")
    BY ONLY <2>1, SMT DEF ShortOption
  <2>3. ShortOption(d, word) = Exit(d, "1") /\ ShortOption(e, word) = Exit(e, "1")
    BY <2>2, Zenon
  <2>. QED
    BY ONLY Ready(d), Ready(e), <2>3, ExitParallel
<1>. QED
  BY <1>1, <1>2, <1>3, <1>4, <1>5, <1>6, <1>7, <1>8, <1>9, <1>10, <1>11, <1>12, <1>13, <1>14, SMT

\* The letters with an argument, and checkpoint.
LEMMA ArgParallel ==
    ASSUME NEW d, NEW e, Ready(d), Ready(e), NEW word \in TakesArgument, NEW z
    PROVE  Parallel(d, ArgOption(d, word, z), e, ArgOption(e, word, z), word)
<1>1. CASE word = "f" /\ z = Unset
  <2>1. ArgOption(d, word, z) = Exit(d, "1") /\ ArgOption(e, word, z) = Exit(e, "1")
    BY <1>1, SMT DEF ArgOption
  <2>. QED
    BY ONLY Ready(d), Ready(e), <2>1, ExitParallel
<1>2. CASE word = "f" /\ z # Unset
  <2>. DEFINE x == [lines |-> z]
  <2>1. ArgOption(d, word, z) = [d EXCEPT !.filters = Append(@, x)]
        /\ ArgOption(e, word, z) = [e EXCEPT !.filters = Append(@, x)]
    BY <1>2, SMT DEF ArgOption
  <2>. HIDE DEF x
  <2>2. ArgOption(d, word, z) = WithFilter(d, x) /\ ArgOption(e, word, z) = WithFilter(e, x)
    BY ONLY <2>1, Zenon DEF WithFilter
  <2>. QED
    BY ONLY Ready(d), Ready(e), <2>2, FilterParallel
<1>3. CASE word = "o"
  <2>1. ArgOption(d, word, z) = [d EXCEPT !.outfile = z, !.outfileoverwrite = FALSE]
        /\ ArgOption(e, word, z) = [e EXCEPT !.outfile = z, !.outfileoverwrite = FALSE]
    BY <1>3, SMT DEF ArgOption
  <2>2. "outfile" \in Settings /\ word \in SetBy["outfile"] /\ "outfileoverwrite" \in Settings
        /\ word \in SetBy["outfileoverwrite"]
    BY <1>3, SMT DEF Settings, SetBy
  <2>3. ArgOption(d, word, z) = Put(Put(d, "outfile", z), "outfileoverwrite", FALSE)
        /\ ArgOption(e, word, z) = Put(Put(e, "outfile", z), "outfileoverwrite", FALSE)
    BY ONLY <2>1, Zenon DEF Put
  <2>. QED
    BY ONLY Ready(d), Ready(e), <2>2, <2>3, SetTwiceParallel
<1>4. CASE word = "O"
  <2>1. ArgOption(d, word, z) = [d EXCEPT !.outfile = z, !.outfileoverwrite = TRUE]
        /\ ArgOption(e, word, z) = [e EXCEPT !.outfile = z, !.outfileoverwrite = TRUE]
    BY <1>4, SMT DEF ArgOption
  <2>2. "outfile" \in Settings /\ word \in SetBy["outfile"] /\ "outfileoverwrite" \in Settings
        /\ word \in SetBy["outfileoverwrite"]
    BY <1>4, SMT DEF Settings, SetBy
  <2>3. ArgOption(d, word, z) = Put(Put(d, "outfile", z), "outfileoverwrite", TRUE)
        /\ ArgOption(e, word, z) = Put(Put(e, "outfile", z), "outfileoverwrite", TRUE)
    BY ONLY <2>1, Zenon DEF Put
  <2>. QED
    BY ONLY Ready(d), Ready(e), <2>2, <2>3, SetTwiceParallel
<1>5. CASE word = "d"
  <2>. DEFINE x == IF z = "" THEN Unset ELSE z
  <2>1. ArgOption(d, word, z) = [d EXCEPT !.workdir = x]
        /\ ArgOption(e, word, z) = [e EXCEPT !.workdir = x]
    BY <1>5, SMT DEF ArgOption
  <2>. HIDE DEF x
  <2>2. "workdir" \in Settings /\ word \in SetBy["workdir"]
    BY <1>5, SMT DEF Settings, SetBy
  <2>3. ArgOption(d, word, z) = Put(d, "workdir", x) /\ ArgOption(e, word, z) = Put(e, "workdir", x)
    BY ONLY <2>1, Zenon DEF Put
  <2>. QED
    BY ONLY Ready(d), Ready(e), <2>2, <2>3, SetParallel
<1>6. CASE word = "t"
  <2>1. ArgOption(d, word, z) = [d EXCEPT !.numthreads = z]
        /\ ArgOption(e, word, z) = [e EXCEPT !.numthreads = z]
    BY <1>6, SMT DEF ArgOption
  <2>2. "numthreads" \in Settings /\ word \in SetBy["numthreads"]
    BY <1>6, SMT DEF Settings, SetBy
  <2>3. ArgOption(d, word, z) = Put(d, "numthreads", z)
        /\ ArgOption(e, word, z) = Put(e, "numthreads", z)
    BY ONLY <2>1, Zenon DEF Put
  <2>. QED
    BY ONLY Ready(d), Ready(e), <2>2, <2>3, SetParallel
<1>7. CASE word = "j"
  <2>1. ArgOption(d, word, z) = [d EXCEPT !.numthreads = z]
        /\ ArgOption(e, word, z) = [e EXCEPT !.numthreads = z]
    BY <1>7, SMT DEF ArgOption
  <2>2. "numthreads" \in Settings /\ word \in SetBy["numthreads"]
    BY <1>7, SMT DEF Settings, SetBy
  <2>3. ArgOption(d, word, z) = Put(d, "numthreads", z)
        /\ ArgOption(e, word, z) = Put(e, "numthreads", z)
    BY ONLY <2>1, Zenon DEF Put
  <2>. QED
    BY ONLY Ready(d), Ready(e), <2>2, <2>3, SetParallel
<1>8. CASE word = "n"
  <2>1. ArgOption(d, word, z) = [d EXCEPT !.numneedgenerate = z]
        /\ ArgOption(e, word, z) = [e EXCEPT !.numneedgenerate = z]
    BY <1>8, SMT DEF ArgOption
  <2>2. "numneedgenerate" \in Settings /\ word \in SetBy["numneedgenerate"]
    BY <1>8, SMT DEF Settings, SetBy
  <2>3. ArgOption(d, word, z) = Put(d, "numneedgenerate", z)
        /\ ArgOption(e, word, z) = Put(e, "numneedgenerate", z)
    BY ONLY <2>1, Zenon DEF Put
  <2>. QED
    BY ONLY Ready(d), Ready(e), <2>2, <2>3, SetParallel
<1>9. CASE word = "N"
  <2>1. ArgOption(d, word, z) = [d EXCEPT !.numwords = z]
        /\ ArgOption(e, word, z) = [e EXCEPT !.numwords = z]
    BY <1>9, SMT DEF ArgOption
  <2>2. "numwords" \in Settings /\ word \in SetBy["numwords"]
    BY <1>9, SMT DEF Settings, SetBy
  <2>3. ArgOption(d, word, z) = Put(d, "numwords", z) /\ ArgOption(e, word, z) = Put(e, "numwords", z)
    BY ONLY <2>1, Zenon DEF Put
  <2>. QED
    BY ONLY Ready(d), Ready(e), <2>2, <2>3, SetParallel
<1>10. CASE word = "S"
  <2>. DEFINE x == z * 1000000
  <2>1. ArgOption(d, word, z) = [d EXCEPT !.reportdelay = x]
        /\ ArgOption(e, word, z) = [e EXCEPT !.reportdelay = x]
    BY <1>10, SMT DEF ArgOption
  <2>. HIDE DEF x
  <2>2. "reportdelay" \in Settings /\ word \in SetBy["reportdelay"]
    BY <1>10, SMT DEF Settings, SetBy
  <2>3. ArgOption(d, word, z) = Put(d, "reportdelay", x)
        /\ ArgOption(e, word, z) = Put(e, "reportdelay", x)
    BY ONLY <2>1, Zenon DEF Put
  <2>. QED
    BY ONLY Ready(d), Ready(e), <2>2, <2>3, SetParallel
<1>11. CASE word = "p"
  <2>1. ArgOption(d, word, z) = [d EXCEPT !.deterministic = z]
        /\ ArgOption(e, word, z) = [e EXCEPT !.deterministic = z]
    BY <1>11, SMT DEF ArgOption
  <2>2. "deterministic" \in Settings /\ word \in SetBy["deterministic"]
    BY <1>11, SMT DEF Settings, SetBy
  <2>3. ArgOption(d, word, z) = Put(d, "deterministic", z)
        /\ ArgOption(e, word, z) = Put(e, "deterministic", z)
    BY ONLY <2>1, Zenon DEF Put
  <2>. QED
    BY ONLY Ready(d), Ready(e), <2>2, <2>3, SetParallel
<1>12. CASE word = "checkpoint"
  <2>1. ArgOption(d, word, z) = [d EXCEPT !.checkpointfile = z]
        /\ ArgOption(e, word, z) = [e EXCEPT !.checkpointfile = z]
    BY <1>12, SMT DEF ArgOption
  <2>2. "checkpointfile" \in Settings /\ word \in SetBy["checkpointfile"]
    BY <1>12, SMT DEF Settings, SetBy
  <2>3. ArgOption(d, word, z) = Put(d, "checkpointfile", z)
        /\ ArgOption(e, word, z) = Put(e, "checkpointfile", z)
    BY ONLY <2>1, Zenon DEF Put
  <2>. QED
    BY ONLY Ready(d), Ready(e), <2>2, <2>3, SetParallel
<1>. QED
  BY <1>1, <1>2, <1>3, <1>4, <1>5, <1>6, <1>7, <1>8, <1>9, <1>10, <1>11, <1>12, SMT DEF TakesArgument

\* -Y, with a file and a hostname behind it.
LEMMA YamlParallel ==
    ASSUME NEW d, NEW e, Ready(d), Ready(e),
           NEW s, NEW t, Len(s) \in Nat, Len(t) \in Nat, Len(s) >= 2, Len(t) >= 2, s[1] = t[1],
               s[2] = t[2]
    PROVE  Parallel(d, YamlInput(d, s), e, YamlInput(e, t), "Y")
<1>. DEFINE x == Given(s[1])  y == Given(s[2])
<1>. DEFINE d1 == Put(Put(d, "yamlinput", TRUE), "infile", x)  d2 == Put(d1, "onehostname", y)
            e1 == Put(Put(e, "yamlinput", TRUE), "infile", x)  e2 == Put(e1, "onehostname", y)
<1>. DEFINE bad == y \notin OnionNames \cup {Unset}
<1>1. /\ "yamlinput" \in Settings /\ "Y" \in SetBy["yamlinput"]
      /\ "infile" \in Settings /\ "Y" \in SetBy["infile"]
      /\ "onehostname" \in Settings /\ "Y" \in SetBy["onehostname"]
  BY SMT DEF Settings, SetBy
<1>2. Ready(d1) /\ Ready(e1)
  <2>. DEFINE d0 == Put(d, "yamlinput", TRUE)  e0 == Put(e, "yamlinput", TRUE)
  <2>1. Ready(d0) /\ Ready(e0)
    BY ONLY Ready(d), Ready(e), <1>1, PutIs
  <2>. HIDE DEF d0, e0, x
  <2>2. Ready(Put(d0, "infile", x)) /\ Ready(Put(e0, "infile", x))
    BY ONLY <1>1, <2>1, PutIs
  <2>. QED
    BY ONLY <2>2, Zenon DEF d0, e0
<1>3. Parallel(d, d1, e, e1, "Y")
  <2>. HIDE DEF x
  <2>1. d1 = Put(Put(d, "yamlinput", TRUE), "infile", x)
        /\ e1 = Put(Put(e, "yamlinput", TRUE), "infile", x)
    OBVIOUS
  <2>. HIDE DEF d1, e1
  <2>. QED
    BY ONLY Ready(d), Ready(e), <1>1, <2>1, SetTwiceParallel
<1>. HIDE DEF d1, e1, y
<1>4. Parallel(d1, d2, e1, e2, "Y")
  BY ONLY <1>1, <1>2, PutParallel
<1>5. Ready(d2) /\ Ready(e2) /\ d2["onehostname"] = y /\ e2["onehostname"] = y
  BY ONLY <1>1, <1>2, PutIs
<1>. HIDE DEF d2, e2
<1>6. Parallel(d, d2, e, e2, "Y")
  BY ONLY <1>3, <1>4, ParallelTwice
<1>7. ASSUME NEW g, NEW q, Len(q) \in Nat, Len(q) >= 2, Given(q[1]) = x, Given(q[2]) = y,
             NEW g2, g2 = Put(Put(Put(g, "yamlinput", TRUE), "infile", x), "onehostname", y),
             g2["onehostname"] = y
      PROVE  YamlInput(g, q) = IF bad THEN Exit(g2, "1") ELSE g2
  <2>1. g2 = [g EXCEPT !.yamlinput = TRUE, !.infile = x, !.onehostname = y]
    BY ONLY <1>7, Zenon DEF Put
  <2>2. Len(q) >= 1
    BY ONLY <1>7
  <2>3. [g EXCEPT !.yamlinput = TRUE,
                  !.infile = IF Len(q) >= 1 THEN Given(q[1]) ELSE @,
                  !.onehostname = IF Len(q) >= 2 THEN Given(q[2]) ELSE @] = g2
    BY ONLY <1>7, <2>1, <2>2, Zenon
  <2>4. g2.onehostname = y
    BY ONLY <1>7, Zenon
  <2>. QED
    BY ONLY <1>7, <2>3, <2>4, Zenon DEF YamlInput
<1>8. d2 = Put(Put(Put(d, "yamlinput", TRUE), "infile", x), "onehostname", y)
      /\ e2 = Put(Put(Put(e, "yamlinput", TRUE), "infile", x), "onehostname", y)
  BY ONLY TRUE, Zenon DEF d1, d2, e1, e2
<1>9. Given(s[1]) = x /\ Given(s[2]) = y /\ Given(t[1]) = x /\ Given(t[2]) = y
  BY Zenon DEF y
<1>10. /\ YamlInput(d, s) = IF bad THEN Exit(d2, "1") ELSE d2
       /\ YamlInput(e, t) = IF bad THEN Exit(e2, "1") ELSE e2
  <2>. HIDE DEF bad, x
  <2>1. YamlInput(d, s) = IF bad THEN Exit(d2, "1") ELSE d2
    BY ONLY <1>5, <1>7, <1>8, <1>9, Len(s) \in Nat, Len(s) >= 2, Zenon
  <2>2. YamlInput(e, t) = IF bad THEN Exit(e2, "1") ELSE e2
    BY ONLY <1>5, <1>7, <1>8, <1>9, Len(t) \in Nat, Len(t) >= 2, Zenon
  <2>. QED
    BY <2>1, <2>2
<1>11. CASE ~bad
  BY ONLY <1>6, <1>10, <1>11, Zenon
<1>12. CASE bad
  <2>. DEFINE d3 == Exit(d2, "1")  e3 == Exit(e2, "1")
  <2>1. Parallel(d2, d3, e2, e3, "Y")
    BY ONLY <1>5, ExitParallel
  <2>2. YamlInput(d, s) = d3 /\ YamlInput(e, t) = e3
    BY ONLY <1>10, <1>12, Zenon
  <2>. HIDE DEF d3, e3
  <2>3. Parallel(d, d3, e, e3, "Y")
    BY ONLY <1>6, <2>1, ParallelTwice
  <2>. QED
    BY ONLY <2>2, <2>3, Zenon
<1>. QED
  BY ONLY <1>11, <1>12, Zenon

\* The state of the loop over the arguments.
Parser(d, rest, group) == [c |-> d, rest |-> rest, group |-> group, ignoreargs |-> FALSE]
BehindTwo(s) == IF Len(s) <= 2 THEN <<>> ELSE SubSeq(s, 3, Len(s))

\* It is the record with these fields, and can be changed in each.
ParserFields == {"c", "rest", "group", "ignoreargs"}
IsParser(p, d, rest, group) ==
    /\ p = [k \in ParserFields |-> p[k]]
    /\ p["c"] = d /\ p["rest"] = rest /\ p["group"] = group /\ p["ignoreargs"] = FALSE

LEMMA ParserIs ==
    ASSUME NEW d, NEW rest, NEW group
    PROVE  IsParser(Parser(d, rest, group), d, rest, group)
  BY SMT DEF Parser, ParserFields, IsParser

LEMMA ParserOnly ==
    ASSUME NEW p, NEW d, NEW rest, NEW group, IsParser(p, d, rest, group)
    PROVE  p = Parser(d, rest, group)
<1>. DEFINE q == Parser(d, rest, group)
<1>1. IsParser(q, d, rest, group)
  BY ONLY ParserIs
<1>. HIDE DEF q
<1>2. \A k \in ParserFields : k = "c" \/ k = "rest" \/ k = "group" \/ k = "ignoreargs"
  BY Zenon DEF ParserFields
<1>3. \A k \in ParserFields : p[k] = q[k]
  BY ONLY IsParser(p, d, rest, group), <1>1, <1>2, Zenon DEF IsParser
<1>4. p = q
  BY ONLY IsParser(p, d, rest, group), <1>1, <1>3, Zenon DEF IsParser
<1>. QED
  BY ONLY <1>4, Zenon DEF q

WithRest(p, x) == [p EXCEPT !.rest = x]
WithGroup(p, x) == [p EXCEPT !.group = x]
WithConf(p, x) == [p EXCEPT !.c = x]
WithBoth(p, x, y) == [p EXCEPT !.c = x, !.rest = y]
LEMMA ParserWith ==
    ASSUME NEW p, NEW d, NEW rest, NEW group, IsParser(p, d, rest, group)
    PROVE  /\ \A x : WithRest(p, x) = Parser(d, x, group)
           /\ \A x : WithGroup(p, x) = Parser(d, rest, x)
           /\ \A x : WithConf(p, x) = Parser(x, rest, group)
           /\ \A x, y : WithBoth(p, x, y) = Parser(x, y, group)
<1>1. "c" \in ParserFields /\ "rest" \in ParserFields /\ "group" \in ParserFields
      /\ "ignoreargs" \in ParserFields
  BY Zenon DEF ParserFields
<1>2. /\ "c" # "rest" /\ "c" # "group" /\ "c" # "ignoreargs" /\ "rest" # "group"
      /\ "rest" # "ignoreargs" /\ "group" # "ignoreargs"
  BY SMT
<1>3. ASSUME NEW x, NEW y
      PROVE  /\ IsParser(WithRest(p, x), d, x, group) /\ IsParser(WithGroup(p, x), d, rest, x)
             /\ IsParser(WithConf(p, x), x, rest, group) /\ IsParser(WithBoth(p, x, y), x, y, group)
  <2>1. IsParser([p EXCEPT !["rest"] = x], d, x, group)
    BY ONLY IsParser(p, d, rest, group), <1>1, <1>2, Zenon DEF IsParser
  <2>2. IsParser([p EXCEPT !["group"] = x], d, rest, x)
    BY ONLY IsParser(p, d, rest, group), <1>1, <1>2, Zenon DEF IsParser
  <2>3. IsParser([p EXCEPT !["c"] = x], x, rest, group)
    BY ONLY IsParser(p, d, rest, group), <1>1, <1>2, Zenon DEF IsParser
  <2>4. IsParser([p EXCEPT !["c"] = x, !["rest"] = y], x, y, group)
    BY ONLY IsParser(p, d, rest, group), <1>1, <1>2, Zenon DEF IsParser
  <2>. QED
    BY ONLY <2>1, <2>2, <2>3, <2>4, Zenon DEF WithRest, WithGroup, WithConf, WithBoth
<1>4. ASSUME NEW x, NEW y
      PROVE  /\ WithRest(p, x) = Parser(d, x, group) /\ WithGroup(p, x) = Parser(d, rest, x)
             /\ WithConf(p, x) = Parser(x, rest, group) /\ WithBoth(p, x, y) = Parser(x, y, group)
  <2>. DEFINE p1 == WithRest(p, x)  p2 == WithGroup(p, x)  p3 == WithConf(p, x)  p4 == WithBoth(p, x, y)
  <2>1. /\ IsParser(p1, d, x, group) /\ IsParser(p2, d, rest, x)
        /\ IsParser(p3, x, rest, group) /\ IsParser(p4, x, y, group)
    BY <1>3, Zenon
  <2>. HIDE DEF p1, p2, p3, p4
  <2>2. p1 = Parser(d, x, group)
    BY ONLY <2>1, ParserOnly
  <2>3. p2 = Parser(d, rest, x)
    BY ONLY <2>1, ParserOnly
  <2>4. p3 = Parser(x, rest, group)
    BY ONLY <2>1, ParserOnly
  <2>5. p4 = Parser(x, y, group)
    BY ONLY <2>1, ParserOnly
  <2>. QED
    BY ONLY <2>2, <2>3, <2>4, <2>5, Zenon DEF p1, p2, p3, p4
<1>. QED
  BY ONLY <1>4, Zenon

\* What one turn does: nothing at the end, or a letter, or an argument.
LEMMA TurnStops ==
    ASSUME NEW d, NEW rest, NEW group, d["exit"] # "no" \/ (rest = <<>> /\ group = <<>>)
    PROVE  Turn(Parser(d, rest, group)) = Parser(d, rest, group)
<1>. DEFINE s == Parser(d, rest, group)
<1>1. s.c = d /\ s.rest = rest /\ s.group = group
  BY SMT DEF Parser
<1>. HIDE DEF s
<1>. QED
  BY <1>1, Zenon DEF Turn, s

LEMMA TurnLetter ==
    ASSUME NEW d, d["exit"] = "no", NEW rest, NEW group, group # <<>>
    PROVE  /\ group[1] \in TakesArgument /\ rest # <<>> =>
                Turn(Parser(d, rest, group))
                  = Parser(ArgOption(d, group[1], rest[1].text), Tail(rest), Tail(group))
           /\ group[1] \notin TakesArgument /\ group[1] # "Y" =>
                Turn(Parser(d, rest, group)) = Parser(ShortOption(d, group[1]), rest, Tail(group))
           /\ group[1] = "Y" =>
                Turn(Parser(d, rest, group)) = Parser(YamlInput(d, rest), BehindTwo(rest), Tail(group))
<1>. DEFINE s == Parser(d, rest, group)  letter == group[1]  g == Tail(group)
<1>0. IsParser(s, d, rest, group)
  BY ONLY ParserIs
<1>1. s.c = d /\ s.rest = rest /\ s.group = group
  BY <1>0, Zenon DEF IsParser
<1>2. Turn(s) = Letter([s EXCEPT !.group = g], letter)
  <2>. HIDE DEF s
  <2>. QED
    BY <1>1, Zenon DEF Turn
<1>3. [s EXCEPT !.group = g] = Parser(d, rest, g)
  <2>. HIDE DEF g, s
  <2>1. WithGroup(s, g) = Parser(d, rest, g)
    BY ONLY <1>0, ParserWith
  <2>. QED
    BY ONLY <2>1, Zenon DEF WithGroup
<1>. HIDE DEF letter, g
<1>4. Turn(s) = Letter(Parser(d, rest, g), letter)
  BY <1>2, <1>3, Zenon
<1>. HIDE DEF s
<1>. DEFINE p == Parser(d, rest, g)
<1>5. IsParser(p, d, rest, g) /\ p.c = d /\ p.rest = rest
  <2>1. IsParser(p, d, rest, g)
    BY ONLY ParserIs
  <2>. QED
    BY <2>1, Zenon DEF IsParser
<1>. HIDE DEF p
<1>6. ASSUME NEW x, NEW y PROVE [p EXCEPT !.c = x, !.rest = y] = Parser(x, y, g)
      /\ [p EXCEPT !.c = x] = Parser(x, rest, g)
  <2>1. WithBoth(p, x, y) = Parser(x, y, g) /\ WithConf(p, x) = Parser(x, rest, g)
    BY ONLY <1>5, ParserWith
  <2>. QED
    BY ONLY <2>1, Zenon DEF WithBoth, WithConf
<1>7. ASSUME letter \in TakesArgument, rest # <<>>
      PROVE  Turn(s) = Parser(ArgOption(d, letter, rest[1].text), Tail(rest), g)
  <2>. DEFINE x == ArgOption(d, letter, rest[1].text)
  <2>1. Turn(s) = TakeArgument(p, letter)
    BY <1>4, <1>7, Zenon DEF Letter, p
  <2>2. TakeArgument(p, letter) = [p EXCEPT !.c = x, !.rest = Tail(rest)]
    BY ONLY <1>5, <1>7, Zenon DEF TakeArgument
  <2>. HIDE DEF x
  <2>3. [p EXCEPT !.c = x, !.rest = Tail(rest)] = Parser(x, Tail(rest), g)
    BY <1>6, Zenon
  <2>. QED
    BY ONLY <2>1, <2>2, <2>3, Zenon DEF x
<1>8. ASSUME letter \notin TakesArgument, letter # "Y"
      PROVE  Turn(s) = Parser(ShortOption(d, letter), rest, g)
  <2>. DEFINE x == ShortOption(d, letter)
  <2>1. Turn(s) = [p EXCEPT !.c = ShortOption(@, letter)]
    BY <1>4, <1>8, Zenon DEF Letter, p
  <2>2. [p EXCEPT !.c = ShortOption(@, letter)] = [p EXCEPT !.c = x]
    BY ONLY <1>5, Zenon
  <2>. HIDE DEF x
  <2>3. [p EXCEPT !.c = x] = Parser(x, rest, g)
    BY <1>6, Zenon
  <2>. QED
    BY ONLY <2>1, <2>2, <2>3, Zenon DEF x
<1>9. ASSUME letter = "Y"
      PROVE  Turn(s) = Parser(YamlInput(d, rest), BehindTwo(rest), g)
  <2>. DEFINE x == YamlInput(d, rest)  y == BehindTwo(rest)
  <2>1. letter \notin TakesArgument
    BY <1>9, SMT DEF TakesArgument
  <2>2. Turn(s) = [p EXCEPT !.c = YamlInput(@, p.rest),
                            !.rest = IF Len(@) <= 2 THEN <<>> ELSE SubSeq(@, 3, Len(@))]
    BY <1>4, <1>9, <2>1, Zenon DEF Letter, p
  <2>3. Turn(s) = [p EXCEPT !.c = x, !.rest = y]
    BY ONLY <1>5, <2>2, Zenon DEF BehindTwo
  <2>. HIDE DEF x, y
  <2>4. [p EXCEPT !.c = x, !.rest = y] = Parser(x, y, g)
    BY <1>6, Zenon
  <2>. QED
    BY ONLY <2>3, <2>4, Zenon DEF x, y
<1>. QED
  BY <1>7, <1>8, <1>9, Zenon DEF s, letter, g

LEMMA TurnArgument ==
    ASSUME NEW d, d["exit"] = "no", NEW rest, rest # <<>>
    PROVE  /\ rest[1].dashes = 0 =>
                Turn(Parser(d, rest, <<>>))
                    = Parser(WithFilter(d, [text |-> rest[1].text]), Tail(rest), <<>>)
           /\ rest[1].dashes = 1 /\ rest[1].text # <<>> =>
                Turn(Parser(d, rest, <<>>)) = Parser(d, Tail(rest), rest[1].text)
           /\ rest[1].dashes = 2 /\ rest[1].text = "checkpoint" /\ Tail(rest) # <<>> =>
                Turn(Parser(d, rest, <<>>))
                  = Parser(ArgOption(d, "checkpoint", Tail(rest)[1].text), Tail(Tail(rest)), <<>>)
           /\ rest[1].dashes = 2 /\ rest[1].text # "checkpoint" /\ rest[1].text # "" =>
                Turn(Parser(d, rest, <<>>)) = Parser(LongOption(d, rest[1].text), Tail(rest), <<>>)
<1>. DEFINE s == Parser(d, rest, <<>>)  arg == rest[1]  t == Tail(rest)  r == Parser(d, t, <<>>)
<1>0. IsParser(s, d, rest, <<>>)
  BY ONLY ParserIs
<1>1. s.c = d /\ s.rest = rest /\ s.group = <<>> /\ s.ignoreargs = FALSE
  BY <1>0, Zenon DEF IsParser
<1>2. [s EXCEPT !.rest = t] = r
  <2>. HIDE DEF t, s
  <2>1. WithRest(s, t) = Parser(d, t, <<>>)
    BY ONLY <1>0, ParserWith
  <2>. QED
    BY ONLY <2>1, Zenon DEF WithRest
<1>. HIDE DEF t
<1>3. IsParser(r, d, t, <<>>) /\ r.c = d /\ r.rest = t
  <2>1. IsParser(r, d, t, <<>>)
    BY ONLY ParserIs
  <2>. QED
    BY <2>1, Zenon DEF IsParser
<1>. HIDE DEF s, r, arg
<1>4. ASSUME NEW x, NEW y
      PROVE  /\ [r EXCEPT !.c = x, !.rest = y] = Parser(x, y, <<>>)
             /\ [r EXCEPT !.c = x] = Parser(x, t, <<>>)
             /\ [r EXCEPT !.group = x] = Parser(d, t, x)
  <2>1. WithBoth(r, x, y) = Parser(x, y, <<>>) /\ WithConf(r, x) = Parser(x, t, <<>>)
        /\ WithGroup(r, x) = Parser(d, t, x)
    BY ONLY <1>3, ParserWith
  <2>. QED
    BY ONLY <2>1, Zenon DEF WithBoth, WithConf, WithGroup
<1>5. ~(s.c.exit # "no") /\ ~(s.group # <<>>) /\ ~(s.rest = <<>>) /\ s.rest[1] = arg
      /\ [s EXCEPT !.rest = Tail(@)] = r
  BY <1>1, <1>2, Zenon DEF t, arg
<1>6. ASSUME arg.dashes = 0
      PROVE  Turn(s) = Parser(WithFilter(d, [text |-> arg.text]), t, <<>>)
  <2>. DEFINE z == [text |-> arg.text]
  <2>1. Turn(s) = [r EXCEPT !.c.filters
            = Append(@, [text |-> IF arg.dashes = 0 THEN arg.text ELSE <<>>])]
    BY ONLY <1>1, <1>5, <1>6, Zenon DEF Turn
  <2>2. Turn(s) = [r EXCEPT !.c.filters = Append(@, z)]
    BY ONLY <1>6, <2>1, Zenon
  <2>. HIDE DEF z
  <2>3. [r EXCEPT !.c.filters = Append(@, z)] = [r EXCEPT !.c = WithFilter(r.c, z)]
    BY ONLY TRUE, Zenon DEF WithFilter
  <2>4. Turn(s) = Parser(WithFilter(d, z), t, <<>>)
    BY ONLY <1>3, <1>4, <2>2, <2>3, Zenon
  <2>. QED
    BY <2>4 DEF z
<1>7. ASSUME arg.dashes = 1, arg.text # <<>> PROVE Turn(s) = Parser(d, t, arg.text)
  <2>. DEFINE z == arg.text
  <2>1. arg.dashes # 0
    BY ONLY <1>7
  <2>2. Turn(s) = [r EXCEPT !.group = z]
    BY ONLY <1>1, <1>5, <1>7, <2>1, Zenon DEF Turn
  <2>. HIDE DEF z
  <2>3. Turn(s) = Parser(d, t, z)
    BY ONLY <1>4, <2>2, Zenon
  <2>. QED
    BY <2>3 DEF z
<1>8. ASSUME arg.dashes = 2, arg.text = "checkpoint", t # <<>>
      PROVE  Turn(s) = Parser(ArgOption(d, "checkpoint", t[1].text), Tail(t), <<>>)
  <2>. DEFINE x == ArgOption(d, "checkpoint", t[1].text)
  <2>1. arg.dashes # 0 /\ arg.dashes # 1 /\ arg.text # ""
    BY ONLY <1>8, SMT
  <2>2. Turn(s) = TakeArgument(r, "checkpoint")
    BY ONLY <1>1, <1>5, <1>8, <2>1, Zenon DEF Turn
  <2>3. TakeArgument(r, "checkpoint") = [r EXCEPT !.c = x, !.rest = Tail(t)]
    BY ONLY <1>3, <1>8, Zenon DEF TakeArgument
  <2>. HIDE DEF x
  <2>4. Turn(s) = Parser(x, Tail(t), <<>>)
    BY ONLY <1>4, <2>2, <2>3, Zenon
  <2>. QED
    BY <2>4 DEF x
<1>9. ASSUME arg.dashes = 2, arg.text # "checkpoint", arg.text # ""
      PROVE  Turn(s) = Parser(LongOption(d, arg.text), t, <<>>)
  <2>. DEFINE x == LongOption(d, arg.text)
  <2>1. arg.dashes # 0 /\ arg.dashes # 1
    <3>1. arg.dashes = 2
      BY ONLY <1>9, Zenon
    <3>. QED
      BY ONLY <3>1
  <2>2. Turn(s) = [r EXCEPT !.c = LongOption(@, arg.text)]
    BY ONLY <1>1, <1>5, <1>9, <2>1, Zenon DEF Turn
  <2>3. Turn(s) = [r EXCEPT !.c = x]
    BY ONLY <1>3, <2>2, Zenon
  <2>. HIDE DEF x
  <2>4. Turn(s) = Parser(x, t, <<>>)
    BY ONLY <1>4, <2>3, Zenon
  <2>. QED
    BY <2>4 DEF x
<1>. QED
  BY <1>6, <1>7, <1>8, <1>9, Zenon DEF s, arg, t

\* Arguments with others behind them.
LEMMA Behind ==
    ASSUME NEW S, NEW s \in Seq(S), NEW r \in Seq(S), s # <<>>
    PROVE  /\ Tail(s) \in Seq(S) /\ Len(s) \in Nat /\ Len(s) >= 1 /\ Len(Tail(s)) = Len(s) - 1
           /\ s \o r # <<>> /\ (s \o r)[1] = s[1] /\ Tail(s \o r) = Tail(s) \o r
           /\ Len(s) >= 2 => Tail(s) # <<>> /\ Tail(s)[1] = s[2]
<1>1. Len(s) \in Nat /\ Len(s) >= 1 /\ Len(r) \in Nat
  <2>1. Len(s) \in Nat /\ Len(r) \in Nat
    BY LenProperties
  <2>2. Len(s) # 0
    BY EmptySeq
  <2>. QED
    BY ONLY <2>1, <2>2
<1>2. /\ Tail(s) \in Seq(S) /\ Len(Tail(s)) = Len(s) - 1
      /\ \A i \in 1 .. Len(Tail(s)) : Tail(s)[i] = s[i + 1]
  BY HeadTailProperties
<1>3. /\ s \o r \in Seq(S) /\ Len(s \o r) = Len(s) + Len(r)
      /\ \A i \in 1 .. Len(s) + Len(r) : (s \o r)[i] = IF i <= Len(s) THEN s[i] ELSE r[i - Len(s)]
  BY ConcatProperties
<1>4. s \o r # <<>> /\ (s \o r)[1] = s[1]
  <2>1. Len(<<>>) = 0
    BY EmptySeq
  <2>2. Len(s \o r) # 0 /\ 1 \in 1 .. Len(s) + Len(r) /\ 1 <= Len(s)
    BY ONLY <1>1, <1>3
  <2>. QED
    BY ONLY <1>3, <2>1, <2>2, Zenon
<1>5. Tail(s \o r) = Tail(s) \o r
  <2>. DEFINE t == s \o r  p == Tail(s)
  <2>1. /\ Tail(t) \in Seq(S) /\ Len(Tail(t)) = Len(t) - 1
        /\ \A i \in 1 .. Len(Tail(t)) : Tail(t)[i] = t[i + 1]
    <3>. HIDE DEF t
    <3>. QED
      BY <1>3, <1>4, HeadTailProperties DEF t
  <2>2. /\ p \o r \in Seq(S) /\ Len(p \o r) = Len(p) + Len(r)
        /\ \A i \in 1 .. Len(p) + Len(r) : (p \o r)[i] = IF i <= Len(p) THEN p[i] ELSE r[i - Len(p)]
    <3>. HIDE DEF p
    <3>. QED
      BY <1>2, ConcatProperties DEF p
  <2>. DEFINE t1 == Tail(t)  t2 == p \o r
  <2>3. /\ t1 \in Seq(S) /\ t2 \in Seq(S) /\ Len(t1) = Len(t2)
        /\ Len(t) = Len(s) + Len(r) /\ Len(p) = Len(s) - 1
        /\ \A i \in 1 .. Len(t1) : t1[i] = t[i + 1]
        /\ \A i \in 1 .. Len(p) + Len(r) : t2[i] = IF i <= Len(p) THEN p[i] ELSE r[i - Len(p)]
        /\ Len(t1) = Len(p) + Len(r)
    BY <1>1, <1>2, <1>3, <2>1, <2>2
  <2>4. /\ \A i \in 1 .. Len(p) : p[i] = s[i + 1]
        /\ \A i \in 1 .. Len(s) + Len(r) : t[i] = IF i <= Len(s) THEN s[i] ELSE r[i - Len(s)]
    BY <1>2, <1>3
  <2>. HIDE DEF t, p, t1, t2
  <2>5. \A i \in 1 .. Len(t1) : t1[i] = t2[i]
    BY ONLY <1>1, <2>3, <2>4
  <2>6. t1 = t2
    BY ONLY <2>3, <2>5, SeqEqual
  <2>. QED
    BY <2>6 DEF t1, t2, t, p
<1>6. Len(s) >= 2 => Tail(s) # <<>> /\ Tail(s)[1] = s[2]
  <2>. HAVE Len(s) >= 2
  <2>. DEFINE t == Tail(s)
  <2>1. t \in Seq(S) /\ Len(t) # 0 /\ 1 \in 1 .. Len(t) /\ \A i \in 1 .. Len(t) : t[i] = s[i + 1]
    BY <1>1, <1>2
  <2>2. 1 + 1 = 2 /\ Len(<<>>) = 0
    BY EmptySeq
  <2>. HIDE DEF t
  <2>3. t # <<>> /\ t[1] = s[2]
    BY ONLY <2>1, <2>2
  <2>. QED
    BY <2>3 DEF t
<1>. QED
  BY <1>1, <1>2, <1>4, <1>5, <1>6

LEMMA TwoBehind ==
    ASSUME NEW S, NEW s \in Seq(S), NEW r \in Seq(S), Len(s) >= 2
    PROVE  /\ BehindTwo(s) \in Seq(S) /\ Len(BehindTwo(s)) = Len(s) - 2
           /\ BehindTwo(s \o r) = BehindTwo(s) \o r
           /\ Len(s) \in Nat /\ Len(s \o r) \in Nat /\ Len(s \o r) >= 2
           /\ (s \o r)[1] = s[1] /\ (s \o r)[2] = s[2]
<1>1. ASSUME NEW t \in Seq(S), Len(t) >= 2
      PROVE  t # <<>> /\ Tail(t) # <<>> /\ BehindTwo(t) = Tail(Tail(t))
  <2>1. Len(t) \in Nat /\ t # <<>>
    <3>1. Len(t) \in Nat /\ Len(<<>>) = 0
      BY LenProperties, EmptySeq
    <3>. QED
      BY ONLY <1>1, <3>1
  <2>2. Tail(t) # <<>> /\ Tail(t) \in Seq(S)
    BY ONLY <1>1, <2>1, Behind
  <2>3. 1 \in 1 .. Len(t) /\ 2 \in 1 .. Len(t) /\ Len(t) \in 2 .. Len(t) /\ 2 + 1 = 3
    BY ONLY <1>1, <2>1
  <2>4. Tail(t) = SubSeq(t, 2, Len(t))
    BY ONLY t \in Seq(S), <2>1, TailIsSubSeq
  <2>5. Tail(SubSeq(t, 2, Len(t))) = SubSeq(t, 3, Len(t))
    BY ONLY t \in Seq(S), <2>3, HeadTailOfSubSeq
  <2>6. CASE Len(t) <= 2
    <3>1. BehindTwo(t) = <<>>
      BY ONLY <2>6, Zenon DEF BehindTwo
    <3>2. SubSeq(t, 3, Len(t)) = <<>>
      <4>1. Len(t) \in Int /\ 3 \in Int /\ Len(t) < 3
        BY ONLY <2>1, <2>6
      <4>. QED
        BY ONLY <4>1, SubSeqEmpty
    <3>. QED
      BY ONLY <2>1, <2>2, <2>4, <2>5, <3>1, <3>2, Zenon
  <2>7. CASE ~(Len(t) <= 2)
    <3>1. BehindTwo(t) = SubSeq(t, 3, Len(t))
      BY ONLY <2>7, Zenon DEF BehindTwo
    <3>. QED
      BY ONLY <2>1, <2>2, <2>4, <2>5, <3>1, Zenon
  <2>. QED
    BY ONLY <2>6, <2>7, Zenon
<1>. DEFINE q == s \o r
<1>2. Len(s) \in Nat /\ q \in Seq(S) /\ Len(q) \in Nat /\ Len(q) >= 2
  <2>1. Len(s) \in Nat /\ Len(r) \in Nat /\ q \in Seq(S) /\ Len(q) = Len(s) + Len(r)
    BY LenProperties, ConcatProperties
  <2>. HIDE DEF q
  <2>. QED
    BY <2>1
<1>3. s # <<>> /\ Tail(s) # <<>> /\ BehindTwo(s) = Tail(Tail(s))
  BY <1>1
<1>4. BehindTwo(q) = Tail(Tail(q))
  <2>. HIDE DEF q
  <2>. QED
    BY <1>1, <1>2
<1>5. /\ Tail(s) \in Seq(S) /\ Len(Tail(s)) = Len(s) - 1 /\ q[1] = s[1] /\ Tail(q) = Tail(s) \o r
      /\ Tail(s)[1] = s[2] /\ q # <<>>
  BY <1>3, Behind
<1>. DEFINE t == Tail(s)
<1>6. Tail(t) \in Seq(S) /\ Len(Tail(t)) = Len(t) - 1 /\ Tail(t \o r) = Tail(t) \o r
      /\ (t \o r)[1] = t[1]
  <2>1. t \in Seq(S) /\ t # <<>>
    BY <1>3, <1>5
  <2>. HIDE DEF t
  <2>. QED
    BY ONLY <2>1, r \in Seq(S), Behind
<1>7. q[2] = s[2]
  <2>1. Tail(q)[1] = q[2]
    <3>. HIDE DEF q
    <3>. QED
      BY <1>2, <1>5, Behind
  <2>. QED
    BY ONLY <1>5, <1>6, <2>1, Zenon
<1>8. Len(s) - 1 - 1 = Len(s) - 2
  BY ONLY <1>2
<1>. QED
  BY ONLY <1>2, <1>3, <1>4, <1>5, <1>6, <1>7, <1>8, Zenon

\* Several options make d1 of d as they make e1 of e.
ParallelBy(d, d1, e, e1, names) ==
    /\ Conf(d1) /\ Conf(e1) /\ d1["exit"] = e1["exit"]
    /\ \E X : /\ ToSet(d1["filters"]) = ToSet(d["filters"]) \cup X
              /\ ToSet(e1["filters"]) = ToSet(e["filters"]) \cup X
    /\ \A k \in Settings :
          /\ d[k] = e[k] => d1[k] = e1[k]
          /\ names \cap SetBy[k] = {} => d1[k] = d[k] /\ e1[k] = e[k]

LEMMA ParallelFirst ==
    ASSUME NEW d, NEW e, Ready(d), Ready(e), NEW names
    PROVE  ParallelBy(d, d, e, e, names)
<1>1. ToSet(d["filters"]) = ToSet(d["filters"]) \cup {}
      /\ ToSet(e["filters"]) = ToSet(e["filters"]) \cup {}
  BY Zenon
<1>. QED
  BY <1>1, Zenon DEF ParallelBy, Ready

LEMMA ParallelNext ==
    ASSUME NEW d, NEW d1, NEW d2, NEW e, NEW e1, NEW e2, NEW names, NEW word,
           word \in names \/ \A k \in Settings : word \notin SetBy[k],
           ParallelBy(d, d1, e, e1, names), Parallel(d1, d2, e1, e2, word)
    PROVE  ParallelBy(d, d2, e, e2, names)
<1>1. PICK X : /\ ToSet(d1["filters"]) = ToSet(d["filters"]) \cup X
               /\ ToSet(e1["filters"]) = ToSet(e["filters"]) \cup X
  BY Zenon DEF ParallelBy
<1>2. PICK Y : /\ ToSet(d2["filters"]) = ToSet(d1["filters"]) \cup Y
               /\ ToSet(e2["filters"]) = ToSet(e1["filters"]) \cup Y
  BY Zenon DEF Parallel
<1>3. /\ ToSet(d2["filters"]) = ToSet(d["filters"]) \cup (X \cup Y)
      /\ ToSet(e2["filters"]) = ToSet(e["filters"]) \cup (X \cup Y)
  BY ONLY <1>1, <1>2, SMT
<1>4. ASSUME NEW k \in Settings
      PROVE  /\ d[k] = e[k] => d2[k] = e2[k]
             /\ names \cap SetBy[k] = {} => d2[k] = d[k] /\ e2[k] = e[k]
  <2>1. names \cap SetBy[k] = {} => word \notin SetBy[k]
    BY Zenon
  <2>. QED
    BY <2>1, Zenon DEF Parallel, ParallelBy
<1>. QED
  BY <1>3, <1>4, Zenon DEF Parallel, ParallelBy

\* Every variable has names that set it, and a filter is no name.
LEMMA NamesGiven == \A k \in Settings : "" \notin SetBy[k]
<1>1. /\ "" \notin SetBy["outfile"] /\ "" \notin SetBy["outfileoverwrite"] /\ "" \notin SetBy["fout"]
      /\ "" \notin SetBy["infile"]
      /\ "" \notin SetBy["onehostname"] /\ "" \notin SetBy["workdir"] /\ "" \notin SetBy["dirnameflag"]
      /\ "" \notin SetBy["numthreads"]
      /\ "" \notin SetBy["numneedgenerate"] /\ "" \notin SetBy["numwords"]
      /\ "" \notin SetBy["wantdedup"] /\ "" \notin SetBy["quietflag"]
      /\ "" \notin SetBy["verboseflag"] /\ "" \notin SetBy["reportdelay"]
      /\ "" \notin SetBy["realtimestats"] /\ "" \notin SetBy["yamlinput"]
      /\ "" \notin SetBy["yamloutput"] /\ "" \notin SetBy["yamlraw"]
      /\ "" \notin SetBy["deterministic"] /\ "" \notin SetBy["checkpointfile"]
      /\ "" \notin SetBy["pw_skipnear"] /\ "" \notin SetBy["pw_warnnear"] /\ "" \notin SetBy["use_cuda"]
  BY SMT DEF SetBy
<1>. QED
  BY <1>1, SettingsAre, Zenon

\* A letter of a group, of an option alone and of one with others behind it.
LEMMA LetterTurn ==
    ASSUME NEW S, NEW r \in Seq(S), NEW rest \in Seq(S), NEW group, group # <<>>,
           NEW d, NEW e, Ready(d), Ready(e), Len(rest) >= Takes(group[1])
    PROVE  \E d1, e1 : \E rest1 \in Seq(S) :
              /\ Parallel(d, d1, e, e1, group[1]) /\ Len(rest1) = Len(rest) - Takes(group[1])
              /\ Turn(Parser(d, rest, group)) = Parser(d1, rest1, Tail(group))
              /\ Turn(Parser(e, rest \o r, group)) = Parser(e1, rest1 \o r, Tail(group))
<1>. DEFINE letter == group[1]  g == Tail(group)
<1>1. d["exit"] = "no" /\ e["exit"] = "no" /\ Len(rest) \in Nat
  BY LenProperties DEF Ready
<1>2. CASE letter \in TakesArgument
  <2>. DEFINE z == rest[1].text  d1 == ArgOption(d, letter, z)  e1 == ArgOption(e, letter, z)
  <2>1. Takes(letter) = 1
    BY <1>2, Zenon DEF Takes
  <2>2. rest # <<>>
    <3>1. Len(rest) >= 1 /\ Len(<<>>) = 0
      BY <2>1, EmptySeq
    <3>. QED
      BY ONLY <3>1
  <2>3. /\ Tail(rest) \in Seq(S) /\ Len(Tail(rest)) = Len(rest) - 1
        /\ rest \o r # <<>> /\ (rest \o r)[1] = rest[1] /\ Tail(rest \o r) = Tail(rest) \o r
    BY ONLY <2>2, rest \in Seq(S), r \in Seq(S), Behind
  <2>4. Turn(Parser(d, rest, group)) = Parser(d1, Tail(rest), g)
    BY ONLY <1>1, <1>2, <2>2, group # <<>>, TurnLetter
  <2>5. Turn(Parser(e, rest \o r, group)) = Parser(e1, Tail(rest) \o r, g)
    <3>. DEFINE q == rest \o r
    <3>1. q # <<>> /\ q[1].text = z /\ Tail(q) = Tail(rest) \o r
      BY ONLY <2>3, Zenon
    <3>. HIDE DEF q
    <3>2. Turn(Parser(e, q, group)) = Parser(ArgOption(e, letter, q[1].text), Tail(q), g)
      BY ONLY <1>1, <1>2, <3>1, group # <<>>, TurnLetter
    <3>. QED
      BY ONLY <3>1, <3>2, Zenon DEF q
  <2>6. Parallel(d, d1, e, e1, letter)
    <3>. HIDE DEF letter, z
    <3>. QED
      BY ONLY Ready(d), Ready(e), <1>2, ArgParallel
  <2>. HIDE DEF d1, e1, letter, g
  <2>7. \E d2, e2 : \E rest1 \in Seq(S) :
              /\ Parallel(d, d2, e, e2, letter) /\ Len(rest1) = Len(rest) - Takes(letter)
              /\ Turn(Parser(d, rest, group)) = Parser(d2, rest1, g)
              /\ Turn(Parser(e, rest \o r, group)) = Parser(e2, rest1 \o r, g)
    BY ONLY <2>1, <2>3, <2>4, <2>5, <2>6, Zenon
  <2>. QED
    BY ONLY <2>7, Zenon DEF letter, g
<1>3. CASE letter \notin TakesArgument /\ letter # "Y"
  <2>. DEFINE d1 == ShortOption(d, letter)  e1 == ShortOption(e, letter)
  <2>1. Takes(letter) = 0 /\ Len(rest) = Len(rest) - 0
    <3>1. Takes(letter) = 0
      BY <1>3, Zenon DEF Takes
    <3>. QED
      BY ONLY <1>1, <3>1
  <2>2. Turn(Parser(d, rest, group)) = Parser(d1, rest, g)
    BY ONLY <1>1, <1>3, group # <<>>, TurnLetter
  <2>3. Turn(Parser(e, rest \o r, group)) = Parser(e1, rest \o r, g)
    <3>. DEFINE q == rest \o r
    <3>. HIDE DEF q
    <3>1. Turn(Parser(e, q, group)) = Parser(e1, q, g)
      BY ONLY <1>1, <1>3, group # <<>>, TurnLetter
    <3>. QED
      BY ONLY <3>1, Zenon DEF q
  <2>4. Parallel(d, d1, e, e1, letter)
    <3>. HIDE DEF letter
    <3>. QED
      BY ONLY Ready(d), Ready(e), ShortParallel
  <2>. HIDE DEF d1, e1, letter, g
  <2>5. \E d2, e2 : \E rest1 \in Seq(S) :
              /\ Parallel(d, d2, e, e2, letter) /\ Len(rest1) = Len(rest) - Takes(letter)
              /\ Turn(Parser(d, rest, group)) = Parser(d2, rest1, g)
              /\ Turn(Parser(e, rest \o r, group)) = Parser(e2, rest1 \o r, g)
    BY ONLY rest \in Seq(S), <2>1, <2>2, <2>3, <2>4, Zenon
  <2>. QED
    BY ONLY <2>5, Zenon DEF letter, g
<1>4. CASE letter = "Y"
  <2>. DEFINE q == rest \o r  d1 == YamlInput(d, rest)  e1 == YamlInput(e, q)
  <2>1. Takes(letter) = 2
    BY <1>4, SMT DEF Takes, TakesArgument
  <2>2. Len(rest) >= 2
    BY <2>1, Zenon
  <2>3. /\ BehindTwo(rest) \in Seq(S) /\ Len(BehindTwo(rest)) = Len(rest) - 2
        /\ BehindTwo(q) = BehindTwo(rest) \o r
        /\ Len(rest) \in Nat /\ Len(q) \in Nat /\ Len(q) >= 2 /\ rest[1] = q[1] /\ rest[2] = q[2]
    BY ONLY <2>2, rest \in Seq(S), r \in Seq(S), TwoBehind
  <2>4. Turn(Parser(d, rest, group)) = Parser(d1, BehindTwo(rest), g)
    BY ONLY <1>1, <1>4, group # <<>>, TurnLetter
  <2>. HIDE DEF q
  <2>5. Turn(Parser(e, q, group)) = Parser(e1, BehindTwo(q), g)
    BY ONLY <1>1, <1>4, group # <<>>, TurnLetter
  <2>6. Parallel(d, d1, e, e1, "Y")
    BY ONLY Ready(d), Ready(e), <2>2, <2>3, YamlParallel
  <2>. HIDE DEF d1, e1, letter, g
  <2>7. \E d2, e2 : \E rest1 \in Seq(S) :
              /\ Parallel(d, d2, e, e2, letter) /\ Len(rest1) = Len(rest) - Takes(letter)
              /\ Turn(Parser(d, rest, group)) = Parser(d2, rest1, g)
              /\ Turn(Parser(e, q, group)) = Parser(e2, rest1 \o r, g)
    BY ONLY <1>4, <2>1, <2>3, <2>4, <2>5, <2>6, Zenon
  <2>. QED
    BY ONLY <2>7, Zenon DEF letter, g, q
<1>. QED
  BY ONLY <1>2, <1>3, <1>4, Zenon

\* A filter, or a name behind two dashes with its argument, likewise.
LEMMA OptionTurn ==
    ASSUME NEW S, NEW r \in Seq(S), NEW u \in Seq(S), Complete(u), u[1].dashes = 0 \/ u[1].dashes = 2,
           NEW d, NEW e, Ready(d), Ready(e)
    PROVE  \E d1, e1 : \E word :
              /\ Parallel(d, d1, e, e1, word)
              /\ (word \in Names(u) \/ \A k \in Settings : word \notin SetBy[k])
              /\ Turn(Parser(d, u, <<>>)) = Parser(d1, <<>>, <<>>)
              /\ Turn(Parser(e, u \o r, <<>>)) = Parser(e1, r, <<>>)
<1>. DEFINE arg == u[1]  q == u \o r
<1>1. d["exit"] = "no" /\ e["exit"] = "no"
  BY Zenon DEF Ready
<1>2. u # <<>> /\ Len(u) \in Nat
  <2>1. Len(u) > 0
    BY Zenon DEF Complete
  <2>2. Len(<<>>) = 0 /\ Len(u) \in Nat
    BY ONLY u \in Seq(S), EmptySeq, LenProperties
  <2>. QED
    BY ONLY <2>1, <2>2
<1>3. /\ Tail(u) \in Seq(S) /\ Len(Tail(u)) = Len(u) - 1 /\ q # <<>> /\ q[1] = arg
      /\ Tail(q) = Tail(u) \o r
  BY ONLY <1>2, u \in Seq(S), r \in Seq(S), Behind
<1>4. <<>> \o r = r
  BY ONLY r \in Seq(S), ConcatEmptySeq
<1>5. ASSUME NEW t \in Seq(S), Len(t) = 0 PROVE t = <<>>
  BY ONLY <1>5, EmptySeq
<1>6. CASE arg.dashes = 0
  <2>. DEFINE z == [text |-> arg.text]  d1 == WithFilter(d, z)  e1 == WithFilter(e, z)
  <2>1. Len(u) = 1
    <3>1. arg.dashes # 1 /\ arg.dashes # 2
      BY ONLY <1>6, SMT
    <3>. QED
      BY ONLY <3>1, Complete(u), Zenon DEF Complete
  <2>2. Tail(u) = <<>> /\ Tail(q) = r
    <3>1. Len(Tail(u)) = 0
      BY ONLY <1>3, <2>1
    <3>2. Tail(u) = <<>>
      BY ONLY <1>3, <1>5, <3>1, Zenon
    <3>. QED
      BY ONLY <1>3, <1>4, <3>2, Zenon
  <2>3. Turn(Parser(d, u, <<>>)) = Parser(d1, <<>>, <<>>)
    <3>1. Turn(Parser(d, u, <<>>)) = Parser(WithFilter(d, [text |-> u[1].text]), Tail(u), <<>>)
      BY ONLY <1>1, <1>2, <1>6, TurnArgument, Zenon
    <3>. QED
      BY ONLY <2>2, <3>1, Zenon
  <2>4. Turn(Parser(e, q, <<>>)) = Parser(e1, r, <<>>)
    <3>1. q # <<>> /\ q[1].dashes = 0 /\ q[1].text = arg.text
      BY ONLY <1>3, <1>6, Zenon
    <3>. HIDE DEF q
    <3>2. Turn(Parser(e, q, <<>>)) = Parser(WithFilter(e, [text |-> q[1].text]), Tail(q), <<>>)
      BY ONLY <1>1, <3>1, TurnArgument, Zenon
    <3>. QED
      BY ONLY <2>2, <3>1, <3>2, Zenon
  <2>. HIDE DEF z
  <2>5. Parallel(d, d1, e, e1, "") /\ \A k \in Settings : "" \notin SetBy[k]
    <3>1. Parallel(d, d1, e, e1, "")
      BY ONLY Ready(d), Ready(e), FilterParallel, Zenon
    <3>2. \A k \in Settings : "" \notin SetBy[k]
      BY ONLY NamesGiven, Zenon
    <3>. QED
      BY ONLY <3>1, <3>2, Zenon
  <2>. HIDE DEF d1, e1
  <2>. QED
    BY ONLY <2>3, <2>4, <2>5, Zenon
<1>7. ASSUME arg.dashes = 2
      PROVE  /\ arg.text # "" /\ Len(u) = (IF arg.text = "checkpoint" THEN 2 ELSE 1)
             /\ arg.text \in Names(u) /\ q[1].dashes = 2 /\ q[1].text = arg.text
  <2>1. arg.dashes # 0 /\ arg.dashes # 1
    BY ONLY <1>7, SMT
  <2>2. arg.text # "" /\ Len(u) = (IF arg.text = "checkpoint" THEN 2 ELSE 1)
    BY ONLY <2>1, Complete(u), Zenon DEF Complete
  <2>3. Names(u) = {arg.text}
    BY ONLY <1>7, <2>1, Zenon DEF Names
  <2>. QED
    BY ONLY <1>3, <1>7, <2>2, <2>3, Zenon
<1>8. CASE arg.dashes = 2 /\ arg.text # "checkpoint"
  <2>. DEFINE d1 == LongOption(d, arg.text)  e1 == LongOption(e, arg.text)
  <2>1. Len(u) = 1
    BY <1>7, <1>8, Zenon
  <2>2. Tail(u) = <<>> /\ Tail(q) = r
    <3>1. Len(Tail(u)) = 0
      BY ONLY <1>3, <2>1
    <3>2. Tail(u) = <<>>
      BY ONLY <1>3, <1>5, <3>1, Zenon
    <3>. QED
      BY ONLY <1>3, <1>4, <3>2, Zenon
  <2>3. Turn(Parser(d, u, <<>>)) = Parser(d1, <<>>, <<>>)
    <3>1. Turn(Parser(d, u, <<>>)) = Parser(LongOption(d, u[1].text), Tail(u), <<>>)
      BY ONLY <1>1, <1>2, <1>7, <1>8, TurnArgument, Zenon
    <3>. QED
      BY ONLY <2>2, <3>1, Zenon
  <2>4. Turn(Parser(e, q, <<>>)) = Parser(e1, r, <<>>)
    <3>1. q # <<>> /\ q[1].dashes = 2 /\ q[1].text = arg.text /\ q[1].text # "checkpoint"
          /\ q[1].text # ""
      BY ONLY <1>3, <1>7, <1>8, Zenon
    <3>. HIDE DEF q
    <3>2. Turn(Parser(e, q, <<>>)) = Parser(LongOption(e, q[1].text), Tail(q), <<>>)
      BY ONLY <1>1, <3>1, TurnArgument, Zenon
    <3>. QED
      BY ONLY <2>2, <3>1, <3>2, Zenon
  <2>5. Parallel(d, d1, e, e1, arg.text)
    <3>. DEFINE z == arg.text
    <3>. HIDE DEF z
    <3>1. Parallel(d, LongOption(d, z), e, LongOption(e, z), z)
      BY ONLY Ready(d), Ready(e), LongParallel
    <3>. QED
      BY ONLY <3>1, Zenon DEF z
  <2>. HIDE DEF d1, e1
  <2>. QED
    BY ONLY <1>7, <1>8, <2>3, <2>4, <2>5, Zenon
<1>9. CASE arg.dashes = 2 /\ arg.text = "checkpoint"
  <2>. DEFINE t == Tail(u)  z == t[1].text
              d1 == ArgOption(d, "checkpoint", z)  e1 == ArgOption(e, "checkpoint", z)
  <2>1. Len(u) = 2
    BY <1>7, <1>9, Zenon
  <2>2. t \in Seq(S) /\ t # <<>> /\ Len(t) = 1
    <3>1. Len(u) >= 2 /\ Len(u) - 1 = 1
      BY ONLY <2>1
    <3>2. Tail(u) # <<>>
      BY ONLY <1>2, <3>1, u \in Seq(S), r \in Seq(S), Behind
    <3>. QED
      BY ONLY <1>3, <3>1, <3>2, Zenon
  <2>. HIDE DEF t
  <2>3. /\ Tail(t) \in Seq(S) /\ Len(Tail(t)) = Len(t) - 1
        /\ t \o r # <<>> /\ (t \o r)[1] = t[1] /\ Tail(t \o r) = Tail(t) \o r
    BY ONLY <2>2, r \in Seq(S), Behind
  <2>4. Tail(t) = <<>> /\ Tail(t \o r) = r
    <3>1. Len(Tail(t)) = 0
      BY ONLY <2>2, <2>3
    <3>2. Tail(t) = <<>>
      BY ONLY <1>5, <2>3, <3>1, Zenon
    <3>. QED
      BY ONLY <1>4, <2>3, <3>2, Zenon
  <2>5. Turn(Parser(d, u, <<>>)) = Parser(d1, <<>>, <<>>)
    <3>1. Tail(u) # <<>>
      BY ONLY <2>2, Zenon DEF t
    <3>2. Turn(Parser(d, u, <<>>)) = Parser(ArgOption(d, "checkpoint", Tail(u)[1].text), Tail(Tail(u)),
              <<>>)
      BY ONLY <1>1, <1>2, <1>9, <3>1, TurnArgument, Zenon
    <3>. QED
      BY ONLY <2>4, <3>2, Zenon DEF t
  <2>6. Turn(Parser(e, q, <<>>)) = Parser(e1, r, <<>>)
    <3>1. q # <<>> /\ q[1].dashes = 2 /\ q[1].text = "checkpoint" /\ Tail(q) # <<>>
          /\ Tail(q)[1].text = z
          /\ Tail(Tail(q)) = r
      BY ONLY <1>3, <1>7, <1>9, <2>3, <2>4, Zenon DEF t
    <3>. HIDE DEF q
    <3>2. Turn(Parser(e, q, <<>>)) = Parser(ArgOption(e, "checkpoint", Tail(q)[1].text), Tail(Tail(q)),
              <<>>)
      BY ONLY <1>1, <3>1, TurnArgument, Zenon
    <3>. QED
      BY ONLY <3>1, <3>2, Zenon
  <2>7. Parallel(d, d1, e, e1, "checkpoint")
    <3>1. "checkpoint" \in TakesArgument
      BY SMT DEF TakesArgument
    <3>. HIDE DEF z
    <3>. QED
      BY ONLY <3>1, Ready(d), Ready(e), ArgParallel
  <2>. HIDE DEF d1, e1
  <2>. QED
    BY ONLY <1>7, <1>9, <2>5, <2>6, <2>7, Zenon
<1>. QED
  BY <1>6, <1>8, <1>9, Zenon

\* Turns of the loop, one after the other.
Turns(f, first, m) == f[0] = first /\ \A i \in 0 .. m - 1 : f[i + 1] = Turn(f[i])

\* The recursion in Parse has a solution.
LEMMA ParseTurns ==
    ASSUME NEW argv, Len(argv) \in Nat
    PROVE  \E f : Turns(f, Parser(Defaults, argv, <<>>), 4 * Len(argv))
    /\ Parse(argv) = f[4 * Len(argv)].c
<1>. DEFINE M == 4 * Len(argv)
<1>. DEFINE first == [c |-> Defaults, rest |-> argv, group |-> <<>>, ignoreargs |-> FALSE]
<1>. DEFINE Solves(f, i) == f = [n \in 0 .. i |-> IF n = 0 THEN first ELSE Turn(f[n - 1])]
<1>1. M \in Nat
  OBVIOUS
<1>2. \A i \in 0 .. M : \E f : Solves(f, i)
  <2>. DEFINE G == {i \in Nat : \E f : Solves(f, i)}
  <2>1. 0 \in G
    <3>1. Solves([n \in 0 .. 0 |-> first], 0)
      OBVIOUS
    <3>. QED
      BY <3>1
  <2>2. ASSUME NEW i \in Nat, i \in G PROVE i + 1 \in G
    <3>1. PICK f : Solves(f, i)
      BY <2>2
    <3>. DEFINE g == [n \in 0 .. i + 1 |-> IF n = i + 1 THEN Turn(f[i]) ELSE f[n]]
    <3>. HIDE DEF first
    <3>2. \A n \in 0 .. i : g[n] = IF n = 0 THEN first ELSE Turn(g[n - 1])
      <4>1. ASSUME NEW n \in 0 .. i, n # 0
            PROVE  n - 1 \in 0 .. i /\ g[n - 1] = f[n - 1] /\ g[n] = f[n] /\ f[n] = Turn(f[n - 1])
        BY <3>1, <4>1
      <4>2. 0 \in 0 .. i /\ g[0] = f[0] /\ f[0] = first
        BY <3>1
      <4>. HIDE DEF g
      <4>. QED
        BY <4>1, <4>2
    <3>3. g[i + 1] = Turn(g[i]) /\ i + 1 # 0 /\ i + 1 - 1 = i
      OBVIOUS
    <3>4. \A n \in 0 .. i + 1 : n \in 0 .. i \/ n = i + 1
      OBVIOUS
    <3>5. \A n \in 0 .. i + 1 : g[n] = IF n = 0 THEN first ELSE Turn(g[n - 1])
      <4>. HIDE DEF g
      <4>. QED
        BY <3>2, <3>3, <3>4
    <3>6. g = [n \in 0 .. i + 1 |-> g[n]]
      OBVIOUS
    <3>7. Solves(g, i + 1)
      <4>. HIDE DEF g
      <4>. QED
        BY <3>5, <3>6
    <3>8. \E h : Solves(h, i + 1)
      <4>. HIDE DEF g, Solves
      <4>. QED
        BY <3>7
    <3>. QED
      BY <3>8
  <2>. HIDE DEF G, Solves
  <2>3. \A i \in 0 .. M : i \in G
    BY <1>1, <2>1, <2>2, Upwards
  <2>. QED
    BY <2>3 DEF G
<1>3. PICK f : Solves(f, M)
  BY <1>1, <1>2
<1>. DEFINE after[n \in 0 .. M] == IF n = 0 THEN first ELSE Turn(after[n - 1])
<1>4. Solves(after, M)
  BY <1>3
<1>5. Parse(argv) = after[M].c
  BY Zenon DEF Parse
<1>6. Turns(after, first, M)
  <2>. HIDE DEF after, first
  <2>1. 0 \in 0 .. M
    BY <1>1
  <2>2. \A i \in 0 .. M - 1 : i + 1 \in 0 .. M /\ i + 1 # 0 /\ i + 1 - 1 = i
    BY <1>1
  <2>3. \A i \in 0 .. M : after[i] = IF i = 0 THEN first ELSE Turn(after[i - 1])
    <3>. HIDE DEF M
    <3>. QED
      BY ONLY <1>4, Zenon
  <2>. HIDE DEF M
  <2>4. after[0] = first
    BY ONLY <2>1, <2>3, Zenon
  <2>5. ASSUME NEW i \in 0 .. M - 1 PROVE after[i + 1] = Turn(after[i])
    <3>. DEFINE k == i + 1
    <3>1. k \in 0 .. M /\ k # 0 /\ k - 1 = i
      BY <2>2
    <3>. HIDE DEF k
    <3>2. after[k] = Turn(after[i])
      BY ONLY <2>3, <3>1, Zenon
    <3>. QED
      BY ONLY <3>2, Zenon DEF k
  <2>. QED
    BY ONLY <2>4, <2>5, Zenon DEF Turns
<1>7. first = Parser(Defaults, argv, <<>>)
  BY Zenon DEF Parser
<1>. HIDE DEF after, first
<1>8. \E h : Turns(h, Parser(Defaults, argv, <<>>), M) /\ Parse(argv) = h[M].c
  BY ONLY <1>5, <1>6, <1>7, Zenon
<1>. QED
  BY <1>8

\* Once a turn changes nothing, no turn does.
LEMMA TurnsStop ==
    ASSUME NEW f, NEW n \in Nat, NEW m \in Nat, n <= m,
           \A i \in n .. m - 1 : f[i + 1] = Turn(f[i]), Turn(f[n]) = f[n]
    PROVE  f[m] = f[n]
<1>. DEFINE G == {k \in Nat : k <= m - n => f[n + k] = f[n]}
<1>1. m - n \in Nat /\ n + 0 = n /\ n + (m - n) = m
  OBVIOUS
<1>2. 0 \in G
  BY <1>1
<1>3. ASSUME NEW k \in Nat, k < m - n, k \in G PROVE k + 1 \in G
  <2>1. n + k \in n .. m - 1 /\ n + (k + 1) = n + k + 1 /\ f[n + k] = f[n]
    BY <1>3
  <2>2. f[n + k + 1] = Turn(f[n + k])
    BY <2>1
  <2>3. f[n + (k + 1)] = f[n]
    BY ONLY <2>1, <2>2, Turn(f[n]) = f[n], Zenon
  <2>. QED
    BY <2>3
<1>. HIDE DEF G
<1>4. \A k \in 0 .. m - n : k \in G
  BY ONLY <1>1, <1>2, <1>3, Upwards
<1>5. m - n \in G /\ m - n <= m - n
  BY <1>1, <1>4
<1>. QED
  BY <1>1, <1>5 DEF G

\* What the letters of a group take, one after the other.
LEMMA TakenParts ==
    ASSUME NEW t, Len(t) \in 1 .. 3
    PROVE  \E q : /\ q[0] = 0 /\ q[Len(t)] = TakenBy(t) /\ TakenBy(t) \in Nat
                  /\ \A i \in 0 .. Len(t) : q[i] \in Nat /\ q[i] <= TakenBy(t)
                  /\ \A i \in 1 .. Len(t) : q[i] = q[i - 1] + Takes(t[i])
<1>. DEFINE n == Len(t)
<1>. DEFINE a == Takes(t[1])  b == Takes(t[2])  g == Takes(t[3])
<1>1. \A x : Takes(x) \in Nat
  BY SMT DEF Takes
<1>2. a \in Nat /\ b \in Nat /\ g \in Nat
  BY <1>1
<1>. DEFINE body(h, i) == IF i = 0 THEN 0 ELSE h[i - 1] + Takes(t[i])
<1>. DEFINE w == [i \in 0 .. n |-> IF i = 0 THEN 0 ELSE IF i = 1 THEN a ELSE IF i = 2 THEN a + b
                ELSE a + b + g]
<1>3. \A i \in 1 .. n : w[i] = w[i - 1] + Takes(t[i])
  <2>1. \A i \in 1 .. n : (i = 1 \/ i = 2 \/ i = 3) /\ i \in 0 .. n /\ i - 1 \in 0 .. n
    <3>1. n \in 1 .. 3
      OBVIOUS
    <3>. HIDE DEF n
    <3>. QED
      BY ONLY <3>1
  <2>2. /\ 1 \in 1 .. n => w[0] = 0 /\ w[1] = a
        /\ 2 \in 1 .. n => w[1] = a /\ w[2] = a + b
        /\ 3 \in 1 .. n => w[2] = a + b /\ w[3] = a + b + g
    OBVIOUS
  <2>. HIDE DEF w, a, b, g
  <2>3. /\ 1 \in 1 .. n => w[1] = w[1 - 1] + a
        /\ 2 \in 1 .. n => w[2] = w[2 - 1] + b
        /\ 3 \in 1 .. n => w[3] = w[3 - 1] + g
    BY <1>2, <2>2
  <2>. HIDE DEF n
  <2>. QED
    BY <2>1, <2>3 DEF a, b, g
<1>4. w = [i \in 0 .. n |-> body(w, i)]
  <2>1. w = [i \in 0 .. n |-> w[i]] /\ w[0] = 0 /\ \A i \in 0 .. n : i = 0 \/ i \in 1 .. n
    OBVIOUS
  <2>2. \A i \in 0 .. n : w[i] = body(w, i)
    <3>. HIDE DEF w
    <3>. QED
      BY <1>3, <2>1
  <2>. HIDE DEF w, body
  <2>. QED
    BY <2>1, <2>2
<1>5. \E h : h = [i \in 0 .. n |-> body(h, i)]
  <2>. HIDE DEF w, body
  <2>. QED
    BY <1>4
<1>. DEFINE q == CHOOSE h : h = [i \in 0 .. n |-> body(h, i)]
<1>6. q = [i \in 0 .. n |-> body(q, i)]
  <2>. HIDE DEF body
  <2>. QED
    BY <1>5
<1>7. TakenBy(t) = q[n]
  BY DEF TakenBy
<1>. HIDE DEF q
<1>8. q[0] = 0 /\ \A i \in 1 .. n : q[i] = q[i - 1] + Takes(t[i])
  <2>1. 0 \in 0 .. n /\ \A i \in 1 .. n : i \in 0 .. n /\ i # 0
    OBVIOUS
  <2>. HIDE DEF n
  <2>. QED
    BY <1>6, <2>1
<1>9. \A i \in 0 .. n : q[i] \in Nat /\ q[i] <= q[n]
  <2>1. /\ q[0] = 0
        /\ 1 \in 1 .. n => q[1] = q[0] + a
        /\ 2 \in 1 .. n => q[2] = q[1] + b
        /\ 3 \in 1 .. n => q[3] = q[2] + g
    BY <1>8
  <2>. HIDE DEF a, b, g
  <2>2. CASE n = 1
    BY <1>2, <2>1, <2>2
  <2>3. CASE n = 2
    BY <1>2, <2>1, <2>3
  <2>4. CASE n = 3
    BY <1>2, <2>1, <2>4
  <2>. QED
    BY <2>2, <2>3, <2>4
<1>10. q[n] \in Nat
  BY <1>9
<1>. QED
  BY <1>7, <1>8, <1>9, <1>10

\* After m turns the loop has made e, and goes on with r unless the program ends.
Halts(g, m, e, r) ==
    /\ g[m].c = e
    /\ e["exit"] = "no" => g[m] = Parser(e, r, <<>>)
    /\ e["exit"] # "no" => Turn(g[m]) = g[m]

\* From d it makes what the option u makes alone.
Makes(g, n, u, r, d) ==
    \E m \in n .. n + 4 * Len(u) : \E e :
        ParallelBy(Defaults, Parse(u), d, e, Names(u)) /\ Halts(g, m, e, r)

\* An option within a line: from the configuration d it makes what it makes alone,
\* and leaves what is behind it.
LEMMA OptionWithin ==
    ASSUME NEW S, NEW u \in Seq(S), NEW r \in Seq(S), Complete(u),
           u[1].dashes \in 0 .. 2, u[1].dashes = 1 => IsList(u[1].text), NEW d, Ready(d),
           NEW g, NEW n \in Nat, NEW M \in Nat, n + 4 * Len(u) <= M,
           \A i \in n .. M - 1 : g[i + 1] = Turn(g[i]), g[n] = Parser(d, u \o r, <<>>)
    PROVE  Makes(g, n, u, r, d)
<1>. SUFFICES \E m \in n .. n + 4 * Len(u) : \E e :
                /\ ParallelBy(Defaults, Parse(u), d, e, Names(u)) /\ g[m].c = e
                /\ e["exit"] = "no" => g[m] = Parser(e, r, <<>>)
                /\ e["exit"] # "no" => Turn(g[m]) = g[m]
  BY Zenon DEF Makes, Halts
<1>. DEFINE K == 4 * Len(u)
<1>1. Len(u) \in Nat /\ Len(u) >= 1 /\ K \in Nat /\ K >= 4 /\ n + K <= M /\ Len(u) > 0
  <2>1. Len(u) \in Nat
    BY LenProperties
  <2>2. Len(u) > 0
    BY Zenon DEF Complete
  <2>. QED
    BY <2>1, <2>2
<1>2. PICK f : Turns(f, Parser(Defaults, u, <<>>), K) /\ Parse(u) = f[K].c
  BY <1>1, ParseTurns
<1>. HIDE DEF K
<1>3. \A i \in 0 .. K - 1 : f[i + 1] = Turn(f[i]) /\ g[n + i + 1] = Turn(g[n + i])
      /\ n + i \in n .. M - 1
  <2>1. \A i \in 0 .. K - 1 : n + i \in n .. M - 1
    BY ONLY <1>1, n \in Nat, M \in Nat
  <2>. QED
    BY <1>2, <2>1 DEF Turns
<1>4. Ready(Defaults) /\ Defaults["exit"] = "no" /\ d["exit"] = "no"
  BY DefaultsReady, Zenon DEF Ready
<1>5. ASSUME NEW j \in 0 .. K, NEW e0, NEW e, NEW rest \in Seq(S), NEW group,
             ParallelBy(Defaults, e0, d, e, Names(u)),
             f[j] = Parser(e0, rest, group), g[n + j] = Parser(e, rest \o r, group),
             e0["exit"] = "no" => rest = <<>> /\ group = <<>>
      PROVE  \E m \in n .. n + K : \E e1 :
                /\ ParallelBy(Defaults, Parse(u), d, e1, Names(u)) /\ g[m].c = e1
                /\ e1["exit"] = "no" => g[m] = Parser(e1, r, <<>>)
                /\ e1["exit"] # "no" => Turn(g[m]) = g[m]
  <2>1. e0["exit"] = e["exit"]
    BY ONLY <1>5, Zenon DEF ParallelBy
  <2>2. Turn(f[j]) = f[j]
    <3>1. Turn(Parser(e0, rest, group)) = Parser(e0, rest, group)
      BY ONLY <1>5, TurnStops, Zenon
    <3>. QED
      BY ONLY <1>5, <3>1, Zenon
  <2>3. f[K] = f[j]
    <3>1. j \in Nat /\ K \in Nat /\ j <= K /\ \A i \in j .. K - 1 : f[i + 1] = Turn(f[i])
      BY <1>1, <1>3
    <3>. QED
      BY ONLY <2>2, <3>1, TurnsStop
  <2>4. Parse(u) = e0 /\ g[n + j].c = e
    <3>. DEFINE p == Parser(e0, rest, group)  q == Parser(e, rest \o r, group)
    <3>1. IsParser(p, e0, rest, group) /\ IsParser(q, e, rest \o r, group)
      BY ONLY ParserIs
    <3>. HIDE DEF p, q
    <3>2. p.c = e0 /\ q.c = e
      BY ONLY <3>1, Zenon DEF IsParser
    <3>3. Parse(u) = p.c /\ g[n + j].c = q.c
      BY ONLY <1>2, <1>5, <2>3, Zenon DEF p, q
    <3>. QED
      BY ONLY <3>2, <3>3, Zenon
  <2>5. e["exit"] = "no" => g[n + j] = Parser(e, r, <<>>)
    <3>1. <<>> \o r = r
      BY ONLY r \in Seq(S), ConcatEmptySeq
    <3>. QED
      BY ONLY <1>5, <2>1, <3>1, Zenon
  <2>6. e["exit"] # "no" => Turn(g[n + j]) = g[n + j]
    <3>. DEFINE q == rest \o r
    <3>. HIDE DEF q
    <3>1. e["exit"] # "no" => Turn(Parser(e, q, group)) = Parser(e, q, group)
      BY ONLY TurnStops, Zenon
    <3>2. g[n + j] = Parser(e, q, group)
      BY ONLY <1>5, Zenon DEF q
    <3>. QED
      BY ONLY <3>1, <3>2, Zenon
  <2>7. n + j \in n .. n + K
    BY ONLY <1>1, <1>5, n \in Nat
  <2>8. ParallelBy(Defaults, Parse(u), d, e, Names(u))
    BY ONLY <1>5, <2>4, Zenon
  <2>. QED
    BY ONLY <2>4, <2>5, <2>6, <2>7, <2>8, Zenon
<1>6. f[0] = Parser(Defaults, u, <<>>) /\ g[n + 0] = Parser(d, u \o r, <<>>)
  <2>1. n + 0 = n
    OBVIOUS
  <2>. QED
    BY <1>2, <2>1, Zenon DEF Turns
<1>7. f[1] = Turn(f[0]) /\ g[n + 1] = Turn(g[n + 0]) /\ 1 \in 0 .. K
  <2>1. 0 \in 0 .. K - 1 /\ 1 \in 0 .. K /\ 0 + 1 = 1 /\ n + 0 + 1 = n + 1
    BY ONLY <1>1, n \in Nat
  <2>. QED
    BY ONLY <1>3, <2>1
<1>8. ParallelBy(Defaults, Defaults, d, d, Names(u))
  BY ONLY Ready(d), <1>4, ParallelFirst
<1>9. CASE u[1].dashes = 0 \/ u[1].dashes = 2
  <2>1. PICK e0, e, word :
              /\ Parallel(Defaults, e0, d, e, word)
              /\ (word \in Names(u) \/ \A k \in Settings : word \notin SetBy[k])
              /\ Turn(Parser(Defaults, u, <<>>)) = Parser(e0, <<>>, <<>>)
              /\ Turn(Parser(d, u \o r, <<>>)) = Parser(e, r, <<>>)
    <3>1. \E e0, e : \E word :
              /\ Parallel(Defaults, e0, d, e, word)
              /\ (word \in Names(u) \/ \A k \in Settings : word \notin SetBy[k])
              /\ Turn(Parser(Defaults, u, <<>>)) = Parser(e0, <<>>, <<>>)
              /\ Turn(Parser(d, u \o r, <<>>)) = Parser(e, r, <<>>)
      BY ONLY u \in Seq(S), r \in Seq(S), Complete(u), Ready(d), <1>4, <1>9, OptionTurn
    <3>. QED
      BY ONLY <3>1, Zenon
  <2>2. ParallelBy(Defaults, e0, d, e, Names(u))
    BY ONLY <1>8, <2>1, ParallelNext, Zenon
  <2>3. <<>> \in Seq(S) /\ <<>> \o r = r
    BY ONLY r \in Seq(S), ConcatEmptySeq, EmptySeq
  <2>4. f[1] = Parser(e0, <<>>, <<>>) /\ g[n + 1] = Parser(e, <<>> \o r, <<>>)
    BY ONLY <1>6, <1>7, <2>1, <2>3, Zenon
  <2>. QED
    BY ONLY <1>5, <1>7, <2>2, <2>3, <2>4, Zenon DEF K
<1>10. CASE u[1].dashes = 1
  <2>. DEFINE t == u[1].text  L == Len(t)
  <2>1. IsList(t) /\ L \in 1 .. 3 /\ Len(u) = 1 + TakenBy(t) /\ Names(u) = ToSet(t)
    <3>1. u[1].dashes # 0 /\ u[1].dashes # 2
      BY ONLY <1>10, SMT
    <3>2. L \in 1 .. 3 /\ Len(u) = 1 + TakenBy(t)
      BY ONLY <1>10, <3>1, Complete(u), Zenon DEF Complete
    <3>3. Names(u) = ToSet(t)
      BY ONLY <1>10, <3>1, Zenon DEF Names
    <3>. QED
      BY <1>10, <3>2, <3>3, Zenon
  <2>. HIDE DEF t
  <2>2. t \in Seq(ToSet(t)) /\ L \in Nat /\ t # <<>> /\ \A i \in 1 .. L : t[i] \in ToSet(t)
    <3>1. t = [i \in 1 .. L |-> t[i]] /\ L \in Nat
      BY <2>1, Zenon DEF IsList
    <3>. HIDE DEF L
    <3>2. \A i \in 1 .. L : t[i] \in ToSet(t)
      BY ONLY <3>1 DEF ToSet
    <3>3. t \in [1 .. L -> ToSet(t)]
      BY ONLY <3>1, <3>2
    <3>4. t \in Seq(ToSet(t))
      BY ONLY <3>1, <3>3, SeqDef, Zenon
    <3>5. L # 0 /\ Len(<<>>) = 0
      BY ONLY <2>1, EmptySeq
    <3>6. t # <<>>
      BY ONLY <3>5, Zenon DEF L
    <3>. QED
      BY ONLY <3>1, <3>2, <3>4, <3>6, Zenon DEF L
  <2>3. PICK q : /\ q[0] = 0 /\ q[L] = TakenBy(t) /\ TakenBy(t) \in Nat
                 /\ \A i \in 0 .. L : q[i] \in Nat /\ q[i] <= TakenBy(t)
                 /\ \A i \in 1 .. L : q[i] = q[i - 1] + Takes(t[i])
    BY ONLY <2>1, TakenParts
  <2>. DEFINE part(j) == SubSeq(t, j + 1, L)
  <2>. DEFINE Left(j, e0, rest, group) ==
                 e0["exit"] = "no" => Len(rest) = q[L] - q[j] /\ group = part(j)
  <2>. DEFINE Reached(j) == \E e0, e, group : \E rest \in Seq(S) :
                 /\ ParallelBy(Defaults, e0, d, e, Names(u))
                 /\ f[j + 1] = Parser(e0, rest, group) /\ g[n + j + 1] = Parser(e, rest \o r, group)
                 /\ Left(j, e0, rest, group)
  <2>4. Reached(0)
    <3>. DEFINE rest == Tail(u)
    <3>1. u # <<>>
      <4>1. Len(u) # 0 /\ Len(<<>>) = 0
        BY <1>1, EmptySeq
      <4>. QED
        BY ONLY <4>1, Zenon
    <3>2. rest \in Seq(S) /\ Len(rest) = Len(u) - 1 /\ u \o r # <<>> /\ (u \o r)[1] = u[1]
          /\ Tail(u \o r) = rest \o r
      BY ONLY <3>1, u \in Seq(S), r \in Seq(S), Behind
    <3>. HIDE DEF rest
    <3>3. f[1] = Parser(Defaults, rest, t)
      <4>1. Turn(Parser(Defaults, u, <<>>)) = Parser(Defaults, Tail(u), u[1].text)
        BY ONLY <1>4, <1>10, <2>2, <3>1, TurnArgument, Zenon DEF t
      <4>. QED
        BY ONLY <1>6, <1>7, <4>1, Zenon DEF rest, t
    <3>4. g[n + 1] = Parser(d, rest \o r, t)
      <4>. DEFINE w == u \o r
      <4>1. w # <<>> /\ w[1].dashes = 1 /\ w[1].text = t /\ w[1].text # <<>> /\ Tail(w) = rest \o r
        BY ONLY <1>10, <2>2, <3>2, Zenon DEF t
      <4>2. g[n + 1] = Turn(Parser(d, w, <<>>))
        BY ONLY <1>6, <1>7, Zenon
      <4>. HIDE DEF w
      <4>3. Turn(Parser(d, w, <<>>)) = Parser(d, Tail(w), w[1].text)
        BY ONLY <1>4, <4>1, TurnArgument, Zenon
      <4>. QED
        BY ONLY <4>1, <4>2, <4>3, Zenon
    <3>5. part(0) = t
      <4>1. SubSeq(t, 1, L) = t /\ 0 + 1 = 1
        BY ONLY <2>2, SubSeqFull
      <4>. QED
        BY ONLY <4>1, Zenon
    <3>6. Len(rest) = q[L] - q[0]
      BY ONLY <1>1, <2>1, <2>3, <3>2
    <3>7. 0 + 1 = 1 /\ n + 0 + 1 = n + 1
      OBVIOUS
    <3>. HIDE DEF part, L
    <3>. QED
      BY ONLY <1>8, <3>2, <3>3, <3>4, <3>5, <3>6, <3>7, Zenon
  <2>5. ASSUME NEW j \in Nat, j < L, Reached(j) PROVE Reached(j + 1)
    <3>1. PICK e0, e, group : \E rest \in Seq(S) :
                 /\ ParallelBy(Defaults, e0, d, e, Names(u))
                 /\ f[j + 1] = Parser(e0, rest, group) /\ g[n + j + 1] = Parser(e, rest \o r, group)
                 /\ Left(j, e0, rest, group)
      <4>. HIDE DEF Left
      <4>. QED
        BY <2>5, Zenon
    <3>2. PICK rest \in Seq(S) :
                 /\ ParallelBy(Defaults, e0, d, e, Names(u))
                 /\ f[j + 1] = Parser(e0, rest, group) /\ g[n + j + 1] = Parser(e, rest \o r, group)
                 /\ Left(j, e0, rest, group)
      <4>. HIDE DEF Left
      <4>. QED
        BY ONLY <3>1, Zenon
    <3>3. /\ f[j + 1 + 1] = Turn(f[j + 1]) /\ g[n + (j + 1) + 1] = Turn(g[n + j + 1])
      <4>1. j + 1 \in 0 .. K - 1 /\ n + (j + 1) = n + j + 1
        <5>1. L \in 1 .. 3 /\ j \in Nat /\ j < L
          BY ONLY <2>1, <2>5
        <5>. HIDE DEF L
        <5>. QED
          BY ONLY <1>1, <5>1, n \in Nat
      <4>2. f[j + 1 + 1] = Turn(f[j + 1]) /\ g[n + (j + 1) + 1] = Turn(g[n + (j + 1)])
        BY ONLY <1>3, <4>1
      <4>. QED
        BY ONLY <4>1, <4>2, Zenon
    <3>4. e0["exit"] = e["exit"] /\ Conf(e0) /\ Conf(e)
      BY ONLY <3>2, Zenon DEF ParallelBy
    <3>5. CASE e0["exit"] # "no"
      <4>1. f[j + 1 + 1] = Parser(e0, rest, group)
        <5>1. Turn(Parser(e0, rest, group)) = Parser(e0, rest, group)
          BY ONLY <3>5, TurnStops, Zenon
        <5>. QED
          BY ONLY <3>2, <3>3, <5>1, Zenon
      <4>2. g[n + (j + 1) + 1] = Parser(e, rest \o r, group)
        <5>. DEFINE w == rest \o r
        <5>1. g[n + j + 1] = Parser(e, w, group)
          BY ONLY <3>2, Zenon
        <5>. HIDE DEF w
        <5>2. Turn(Parser(e, w, group)) = Parser(e, w, group)
          BY ONLY <3>4, <3>5, TurnStops, Zenon
        <5>3. g[n + (j + 1) + 1] = Parser(e, w, group)
          BY ONLY <3>3, <5>1, <5>2, Zenon
        <5>. QED
          BY ONLY <5>3, Zenon DEF w
      <4>3. Left(j + 1, e0, rest, group)
        BY ONLY <3>5, Zenon
      <4>. HIDE DEF Left
      <4>. QED
        BY ONLY <3>2, <4>1, <4>2, <4>3, Zenon
    <3>6. CASE e0["exit"] = "no"
      <4>1. Ready(e0) /\ Ready(e)
        BY ONLY <3>4, <3>6, Zenon DEF Ready
      <4>2. Len(rest) = q[L] - q[j] /\ group = part(j)
        BY ONLY <3>2, <3>6, Zenon
      <4>3. part(j)[1] = t[j + 1] /\ Tail(part(j)) = part(j + 1) /\ part(j) # <<>>
        <5>1. j + 1 \in 1 .. L /\ L \in j + 1 .. L
          BY ONLY <2>2, <2>5
        <5>2. Head(part(j)) = t[j + 1] /\ Tail(part(j)) = SubSeq(t, j + 1 + 1, L)
          BY ONLY <2>2, <5>1, HeadTailOfSubSeq
        <5>3. Len(part(j)) = L - (j + 1) + 1
          <6>1. j + 1 \in Int /\ L \in Int /\ \A i \in j + 1 .. L : t[i] \in ToSet(t)
            BY ONLY <2>2, <5>1
          <6>2. Len(part(j)) = IF j + 1 <= L THEN L - (j + 1) + 1 ELSE 0
            BY ONLY <6>1, SubSeqProperties
          <6>. QED
            BY ONLY <5>1, <6>1, <6>2
        <5>4. Len(part(j)) # 0 /\ Len(<<>>) = 0
          <6>1. L \in Nat /\ j \in Nat /\ j + 1 <= L
            BY ONLY <2>2, <5>1, j \in Nat
          <6>. DEFINE l == Len(part(j))
          <6>. HIDE DEF L, l
          <6>2. l # 0
            BY ONLY <5>3, <6>1 DEF l
          <6>. QED
            BY ONLY <6>2, EmptySeq DEF l
        <5>5. part(j) # <<>>
          BY ONLY <5>4, Zenon
        <5>6. Head(part(j)) = part(j)[1]
          <6>. DEFINE p == part(j)
          <6>. HIDE DEF p
          <6>1. Head(p) = p[1]
            BY ONLY TRUE
          <6>. QED
            BY ONLY <6>1, Zenon DEF p
        <5>. QED
          BY ONLY <5>2, <5>5, <5>6, Zenon
      <4>4. /\ group # <<>> /\ group[1] = t[j + 1] /\ Tail(group) = part(j + 1) /\ group[1] \in Names(u)
        <5>1. j + 1 \in 1 .. L
          BY ONLY <2>2, <2>5
        <5>2. t[j + 1] \in Names(u)
          BY ONLY <2>1, <2>2, <5>1, Zenon
        <5>. QED
          BY ONLY <4>2, <4>3, <5>2, Zenon
      <4>5. /\ q[j + 1] = q[j] + Takes(t[j + 1]) /\ q[j] \in Nat /\ q[j + 1] \in Nat /\ q[L] \in Nat
            /\ q[j + 1] <= q[L]
        <5>1. j + 1 \in 1 .. L /\ j + 1 \in 0 .. L /\ j \in 0 .. L /\ L \in 0 .. L /\ j + 1 - 1 = j
          BY ONLY <2>2, <2>5
        <5>. QED
          BY ONLY <2>3, <5>1
      <4>6. Takes(group[1]) = q[j + 1] - q[j] /\ Len(rest) >= Takes(group[1])
            /\ Len(rest) - Takes(group[1]) = q[L] - q[j + 1]
        <5>1. Takes(t[j + 1]) \in Nat
          BY SMT DEF Takes
        <5>. DEFINE x == Takes(t[j + 1])  a == q[j]  b == q[j + 1]  y == q[L]  l == Len(rest)
        <5>2. x \in Nat /\ a \in Nat /\ b = a + x /\ y \in Nat /\ b <= y /\ l = y - a
          BY ONLY <4>2, <4>5, <5>1
        <5>. HIDE DEF x, a, b, y, l
        <5>3. x = b - a /\ l >= x /\ l - x = y - b
          BY ONLY <5>2
        <5>. QED
          BY ONLY <4>4, <5>3, Zenon DEF x, a, b, y, l
      <4>7. PICK e2, e3 : \E rest1 \in Seq(S) :
              /\ Parallel(e0, e2, e, e3, group[1]) /\ Len(rest1) = Len(rest) - Takes(group[1])
              /\ Turn(Parser(e0, rest, group)) = Parser(e2, rest1, Tail(group))
              /\ Turn(Parser(e, rest \o r, group)) = Parser(e3, rest1 \o r, Tail(group))
        BY ONLY <4>1, <4>4, <4>6, rest \in Seq(S), r \in Seq(S), LetterTurn
      <4>8. PICK rest1 \in Seq(S) :
              /\ Parallel(e0, e2, e, e3, group[1]) /\ Len(rest1) = Len(rest) - Takes(group[1])
              /\ Turn(Parser(e0, rest, group)) = Parser(e2, rest1, Tail(group))
              /\ Turn(Parser(e, rest \o r, group)) = Parser(e3, rest1 \o r, Tail(group))
        BY ONLY <4>7, Zenon
      <4>9. ParallelBy(Defaults, e2, d, e3, Names(u))
        BY ONLY <3>2, <4>4, <4>8, ParallelNext, Zenon
      <4>10. f[j + 1 + 1] = Parser(e2, rest1, part(j + 1))
             /\ g[n + (j + 1) + 1] = Parser(e3, rest1 \o r, part(j + 1))
        <5>. HIDE DEF part
        <5>. QED
          BY ONLY <3>2, <3>3, <4>4, <4>8, Zenon
      <4>11. Left(j + 1, e2, rest1, part(j + 1))
        <5>1. Len(rest1) = q[L] - q[j + 1]
          BY ONLY <4>6, <4>8, Zenon
        <5>. QED
          BY ONLY <5>1, Zenon
      <4>. HIDE DEF Left, part
      <4>. QED
        BY ONLY <4>9, <4>10, <4>11, Zenon
    <3>. QED
      BY ONLY <3>5, <3>6, Zenon
  <2>6. Reached(L)
    <3>. DEFINE G == {j \in Nat : Reached(j)}
    <3>. HIDE DEF Reached, L
    <3>1. 0 \in G
      BY ONLY <2>4
    <3>2. \A j \in Nat : j < L /\ j \in G => j + 1 \in G
      BY ONLY <2>5
    <3>. HIDE DEF G
    <3>3. \A j \in 0 .. L : j \in G
      BY ONLY <2>2, <3>1, <3>2, Upwards
    <3>4. L \in 0 .. L
      BY ONLY <2>2
    <3>. QED
      BY ONLY <3>3, <3>4 DEF G
  <2>7. PICK e0, e, group : \E rest \in Seq(S) :
                 /\ ParallelBy(Defaults, e0, d, e, Names(u))
                 /\ f[L + 1] = Parser(e0, rest, group) /\ g[n + L + 1] = Parser(e, rest \o r, group)
                 /\ Left(L, e0, rest, group)
    <3>. HIDE DEF Left, L
    <3>. QED
      BY ONLY <2>6, Zenon
  <2>8. PICK rest \in Seq(S) :
                 /\ ParallelBy(Defaults, e0, d, e, Names(u))
                 /\ f[L + 1] = Parser(e0, rest, group) /\ g[n + L + 1] = Parser(e, rest \o r, group)
                 /\ Left(L, e0, rest, group)
    <3>. HIDE DEF Left, L
    <3>. QED
      BY ONLY <2>7, Zenon
  <2>9. e0["exit"] = "no" => rest = <<>> /\ group = <<>>
    <3>1. part(L) = <<>>
      <4>1. L + 1 \in Int /\ L \in Int /\ L < L + 1
        BY ONLY <2>2
      <4>. QED
        BY ONLY <4>1, SubSeqEmpty
    <3>2. q[L] \in Nat
      BY ONLY <2>3, Zenon
    <3>3. q[L] - q[L] = 0
      BY ONLY <3>2
    <3>4. Len(rest) = 0 => rest = <<>>
      BY ONLY rest \in Seq(S), EmptySeq
    <3>. HIDE DEF part, L
    <3>. QED
      BY ONLY <2>8, <3>1, <3>3, <3>4, Zenon
  <2>10. L + 1 \in 0 .. K /\ n + L + 1 = n + (L + 1)
    <3>. HIDE DEF L
    <3>. QED
      BY ONLY <1>1, <2>1, n \in Nat
  <2>. DEFINE k == L + 1
  <2>11. k \in 0 .. K /\ f[k] = Parser(e0, rest, group) /\ g[n + k] = Parser(e, rest \o r, group)
    BY ONLY <2>8, <2>10, Zenon
  <2>. HIDE DEF k, L
  <2>. QED
    BY ONLY <1>5, <2>8, <2>9, <2>11, Zenon DEF K
<1>. QED
  <2>1. u[1].dashes = 0 \/ u[1].dashes = 1 \/ u[1].dashes = 2
    BY SMT
  <2>. QED
    BY ONLY <1>9, <1>10, <2>1, Zenon

\* Two options that set one variable exclude each other.
LEMMA SettersExclude ==
    ASSUME NEW k \in Settings, NEW a \in SetBy[k], NEW b \in SetBy[k]
    PROVE  Excludes(a, b)
<1>1. \A x, y : x = y /\ x # "f" => Excludes(x, y)
  BY Zenon DEF Excludes
<1>2. \A s \in Alternatives : \A x, y \in s : Excludes(x, y)
  BY Zenon DEF Excludes
<1>. DEFINE Alone(s) == \E x : s = {x} /\ x # "f"
<1>3. \A s : Alone(s) => \A x, y \in s : Excludes(x, y)
  BY <1>1, Zenon
<1>4. /\ {"o", "O"} \in Alternatives /\ {"t", "j"} \in Alternatives /\ {"s", "S"} \in Alternatives
      /\ {"p", "P"} \in Alternatives /\ {"skipnear", "warnnear"} \in Alternatives
  BY Zenon DEF Alternatives
<1>5. /\ Alone({"x"}) /\ Alone({"Y"}) /\ Alone({"d"}) /\ Alone({"F"}) /\ Alone({"n"}) /\ Alone({"N"})
      /\ Alone({"D"}) /\ Alone({"q"}) /\ Alone({"v"}) /\ Alone({"T"}) /\ Alone({"y"})
      /\ Alone({"rawyaml"})
      /\ Alone({"checkpoint"}) /\ Alone({"cuda"})
  <2>1. \A x : x # "f" => Alone({x})
    BY Zenon
  <2>. HIDE DEF Alone
  <2>2. /\ "x" # "f" /\ "Y" # "f" /\ "d" # "f" /\ "F" # "f" /\ "n" # "f" /\ "N" # "f" /\ "D" # "f"
        /\ "q" # "f"
        /\ "v" # "f" /\ "T" # "f" /\ "y" # "f" /\ "rawyaml" # "f" /\ "checkpoint" # "f" /\ "cuda" # "f"
    BY ONLY TRUE
  <2>. QED
    BY ONLY <2>1, <2>2, Zenon
<1>. HIDE DEF Alone
<1>6. SetBy[k] \in Alternatives \/ Alone(SetBy[k])
  <2>1. /\ SetBy["outfile"] = {"o", "O"} /\ SetBy["outfileoverwrite"] = {"o", "O"}
        /\ SetBy["fout"] = {"x"}
        /\ SetBy["infile"] = {"Y"} /\ SetBy["onehostname"] = {"Y"} /\ SetBy["workdir"] = {"d"}
        /\ SetBy["dirnameflag"] = {"F"} /\ SetBy["numthreads"] = {"t", "j"}
        /\ SetBy["numneedgenerate"] = {"n"}
        /\ SetBy["numwords"] = {"N"} /\ SetBy["wantdedup"] = {"D"} /\ SetBy["quietflag"] = {"q"}
        /\ SetBy["verboseflag"] = {"v"} /\ SetBy["reportdelay"] = {"s", "S"}
        /\ SetBy["realtimestats"] = {"T"}
        /\ SetBy["yamlinput"] = {"Y"} /\ SetBy["yamloutput"] = {"y"} /\ SetBy["yamlraw"] = {"rawyaml"}
        /\ SetBy["deterministic"] = {"p", "P"} /\ SetBy["checkpointfile"] = {"checkpoint"}
        /\ SetBy["pw_skipnear"] = {"skipnear", "warnnear"}
        /\ SetBy["pw_warnnear"] = {"skipnear", "warnnear"}
        /\ SetBy["use_cuda"] = {"cuda"}
    BY SMT DEF SetBy
  <2>. DEFINE Settled(s) == s \in Alternatives \/ Alone(s)
  <2>2. /\ Settled(SetBy["outfile"]) /\ Settled(SetBy["outfileoverwrite"]) /\ Settled(SetBy["fout"])
        /\ Settled(SetBy["infile"]) /\ Settled(SetBy["onehostname"]) /\ Settled(SetBy["workdir"])
        /\ Settled(SetBy["dirnameflag"]) /\ Settled(SetBy["numthreads"])
        /\ Settled(SetBy["numneedgenerate"])
        /\ Settled(SetBy["numwords"]) /\ Settled(SetBy["wantdedup"]) /\ Settled(SetBy["quietflag"])
        /\ Settled(SetBy["verboseflag"]) /\ Settled(SetBy["reportdelay"])
        /\ Settled(SetBy["realtimestats"])
        /\ Settled(SetBy["yamlinput"]) /\ Settled(SetBy["yamloutput"]) /\ Settled(SetBy["yamlraw"])
        /\ Settled(SetBy["deterministic"]) /\ Settled(SetBy["checkpointfile"])
        /\ Settled(SetBy["pw_skipnear"])
        /\ Settled(SetBy["pw_warnnear"]) /\ Settled(SetBy["use_cuda"])
    <3>1. /\ Settled({"o", "O"}) /\ Settled({"t", "j"}) /\ Settled({"s", "S"}) /\ Settled({"p", "P"})
          /\ Settled({"skipnear", "warnnear"})
          /\ Settled({"x"}) /\ Settled({"Y"}) /\ Settled({"d"}) /\ Settled({"F"}) /\ Settled({"n"})
          /\ Settled({"N"})
          /\ Settled({"D"}) /\ Settled({"q"}) /\ Settled({"v"}) /\ Settled({"T"}) /\ Settled({"y"})
          /\ Settled({"rawyaml"})
          /\ Settled({"checkpoint"}) /\ Settled({"cuda"})
      BY ONLY <1>4, <1>5, Zenon
    <3>. HIDE DEF Settled
    <3>2. /\ Settled(SetBy["outfile"]) /\ Settled(SetBy["outfileoverwrite"]) /\ Settled(SetBy["fout"])
      BY ONLY <2>1, <3>1
    <3>3. /\ Settled(SetBy["infile"]) /\ Settled(SetBy["onehostname"]) /\ Settled(SetBy["workdir"])
      BY ONLY <2>1, <3>1
    <3>4. /\ Settled(SetBy["dirnameflag"]) /\ Settled(SetBy["numthreads"])
          /\ Settled(SetBy["numneedgenerate"])
      BY ONLY <2>1, <3>1
    <3>5. /\ Settled(SetBy["numwords"]) /\ Settled(SetBy["wantdedup"]) /\ Settled(SetBy["quietflag"])
      BY ONLY <2>1, <3>1
    <3>6. /\ Settled(SetBy["verboseflag"]) /\ Settled(SetBy["reportdelay"])
          /\ Settled(SetBy["realtimestats"])
      BY ONLY <2>1, <3>1
    <3>7. /\ Settled(SetBy["yamlinput"]) /\ Settled(SetBy["yamloutput"]) /\ Settled(SetBy["yamlraw"])
      BY ONLY <2>1, <3>1
    <3>8. /\ Settled(SetBy["deterministic"]) /\ Settled(SetBy["checkpointfile"])
          /\ Settled(SetBy["pw_skipnear"])
      BY ONLY <2>1, <3>1
    <3>9. /\ Settled(SetBy["pw_warnnear"]) /\ Settled(SetBy["use_cuda"])
      BY ONLY <2>1, <3>1
    <3>. QED
      BY ONLY <3>2, <3>3, <3>4, <3>5, <3>6, <3>7, <3>8, <3>9, Zenon
  <2>. HIDE DEF Settled
  <2>3. Settled(SetBy[k])
    BY ONLY <2>2, k \in Settings, SettingsAre, Zenon
  <2>. QED
    BY ONLY <2>3, Zenon DEF Settled
<1>. QED
  BY ONLY <1>2, <1>3, <1>6, a \in SetBy[k], b \in SetBy[k], Zenon

\* What the first n options of a line make, each as it does alone.
Summed(line, n, d) ==
    /\ Conf(d)
    /\ d["exit"] # "no" => \E j \in 1 .. n : Parse(line[j])["exit"] # "no"
    /\ d["exit"] = "no" =>
          /\ \A j \in 1 .. n : Parse(line[j])["exit"] = "no"
          /\ ToSet(d["filters"]) = UNION {ToSet(Parse(line[j])["filters"]) : j \in 1 .. n}
          /\ \A k \in Settings :
                /\ \A j \in 1 .. n : Names(line[j]) \cap SetBy[k] # {} => d[k] = Parse(line[j])[k]
                /\ (\A j \in 1 .. n : Names(line[j]) \cap SetBy[k] = {}) => d[k] = Defaults[k]

LEMMA SummedFirst == ASSUME NEW line PROVE Summed(line, 0, Defaults)
<1>1. Conf(Defaults) /\ Defaults["exit"] = "no" /\ Defaults["filters"] = <<>>
  BY DefaultsReady, Zenon DEF Ready
<1>2. ToSet(<<>>) = {}
  BY DEF ToSet
<1>3. \A j : j \notin 1 .. 0
  OBVIOUS
<1>4. ToSet(Defaults["filters"]) = {} /\ UNION {ToSet(Parse(line[j])["filters"]) : j \in 1 .. 0} = {}
  BY ONLY <1>1, <1>2, <1>3, Zenon
<1>. QED
  BY ONLY <1>1, <1>3, <1>4, Zenon DEF Summed

LEMMA SummedNext ==
    ASSUME NEW line, NEW n \in Nat, NEW d, NEW e, Summed(line, n, d), d["exit"] = "no",
           ParallelBy(Defaults, Parse(line[n + 1]), d, e, Names(line[n + 1])),
           \A j \in 1 .. n : \A a \in Names(line[j]), b \in Names(line[n + 1]) : ~Excludes(a, b)
    PROVE  Summed(line, n + 1, e)
<1>. DEFINE u == line[n + 1]  alone == Parse(u)
<1>1. \A j : j \in 1 .. n + 1 <=> j \in 1 .. n \/ j = n + 1
  OBVIOUS
<1>2. Conf(e) /\ alone["exit"] = e["exit"]
  BY Zenon DEF ParallelBy
<1>3. CASE e["exit"] # "no"
  BY ONLY <1>1, <1>2, <1>3, Zenon DEF Summed
<1>4. CASE e["exit"] = "no"
  <2>1. \A j \in 1 .. n + 1 : Parse(line[j])["exit"] = "no"
    BY ONLY <1>1, <1>2, <1>4, Summed(line, n, d), d["exit"] = "no", Zenon DEF Summed
  <2>2. ToSet(e["filters"]) = UNION {ToSet(Parse(line[j])["filters"]) : j \in 1 .. n + 1}
    <3>1. ToSet(d["filters"]) = UNION {ToSet(Parse(line[j])["filters"]) : j \in 1 .. n}
      BY ONLY Summed(line, n, d), d["exit"] = "no", Zenon DEF Summed
    <3>2. PICK X : /\ ToSet(alone["filters"]) = ToSet(Defaults["filters"]) \cup X
                   /\ ToSet(e["filters"]) = ToSet(d["filters"]) \cup X
      BY ONLY ParallelBy(Defaults, alone, d, e, Names(u)), Zenon DEF ParallelBy
    <3>3. ToSet(Defaults["filters"]) = {}
      <4>1. Defaults["filters"] = <<>>
        BY DefaultsReady
      <4>2. ToSet(<<>>) = {}
        BY DEF ToSet
      <4>. QED
        BY ONLY <4>1, <4>2, Zenon
    <3>. DEFINE W(j) == ToSet(Parse(line[j])["filters"])
    <3>4. UNION {W(j) : j \in 1 .. n + 1} = (UNION {W(j) : j \in 1 .. n}) \cup W(n + 1)
      <4>. HIDE DEF W
      <4>1. \A x : x \in UNION {W(j) : j \in 1 .. n + 1} <=> \E j \in 1 .. n + 1 : x \in W(j)
        BY ONLY TRUE, Zenon
      <4>2. \A x : x \in UNION {W(j) : j \in 1 .. n} <=> \E j \in 1 .. n : x \in W(j)
        BY ONLY TRUE, Zenon
      <4>3. \A x : (\E j \in 1 .. n + 1 : x \in W(j)) <=> (\E j \in 1 .. n : x \in W(j))
                \/ x \in W(n + 1)
        BY ONLY <1>1, Zenon
      <4>. QED
        BY ONLY <4>1, <4>2, <4>3, Zenon
    <3>5. ToSet(e["filters"]) = (UNION {W(j) : j \in 1 .. n}) \cup W(n + 1)
      <4>1. {} \cup X = X
        BY ONLY TRUE, Zenon
      <4>. QED
        BY ONLY <3>1, <3>2, <3>3, <4>1, Zenon
    <3>. QED
      BY ONLY <3>4, <3>5, Zenon
  <2>3. ASSUME NEW k \in Settings
        PROVE  /\ \A j \in 1 .. n + 1 : Names(line[j]) \cap SetBy[k] # {} => e[k] = Parse(line[j])[k]
               /\ (\A j \in 1 .. n + 1 : Names(line[j]) \cap SetBy[k] = {}) => e[k] = Defaults[k]
    <3>1. /\ \A j \in 1 .. n : Names(line[j]) \cap SetBy[k] # {} => d[k] = Parse(line[j])[k]
          /\ (\A j \in 1 .. n : Names(line[j]) \cap SetBy[k] = {}) => d[k] = Defaults[k]
      BY ONLY k \in Settings, Summed(line, n, d), d["exit"] = "no", Zenon DEF Summed
    <3>2. /\ Defaults[k] = d[k] => alone[k] = e[k]
          /\ Names(u) \cap SetBy[k] = {} => alone[k] = Defaults[k] /\ e[k] = d[k]
      BY ONLY k \in Settings, ParallelBy(Defaults, alone, d, e, Names(u)), Zenon DEF ParallelBy
    <3>3. CASE Names(u) \cap SetBy[k] = {}
      BY ONLY <1>1, <3>1, <3>2, <3>3, Zenon
    <3>4. CASE Names(u) \cap SetBy[k] # {}
      <4>1. PICK b : b \in Names(u) /\ b \in SetBy[k]
        BY ONLY <3>4, Zenon
      <4>2. \A j \in 1 .. n : Names(line[j]) \cap SetBy[k] = {}
        <5>1. ASSUME NEW j \in 1 .. n, NEW a \in Names(line[j]), a \in SetBy[k] PROVE FALSE
          <6>1. Excludes(a, b)
            BY ONLY k \in Settings, <4>1, <5>1, SettersExclude
          <6>. QED
            BY <4>1, <5>1, <6>1, Zenon
        <5>. QED
          BY ONLY <5>1, Zenon
      <4>. QED
        BY ONLY <1>1, <3>1, <3>2, <3>4, <4>2, Zenon
    <3>. QED
      BY ONLY <3>3, <3>4, Zenon
  <2>. QED
    BY ONLY <1>2, <1>4, <2>1, <2>2, <2>3, Zenon DEF Summed
<1>. QED
  BY ONLY <1>3, <1>4, Zenon

\* A list is a sequence.
LEMMA ListIs ==
    ASSUME NEW s, IsList(s)
    PROVE  s \in Seq(ToSet(s)) /\ DOMAIN s = 1 .. Len(s) /\ Len(s) \in Nat
<1>. DEFINE n == Len(s)
<1>1. s = [i \in 1 .. n |-> s[i]] /\ n \in Nat
  BY Zenon DEF IsList
<1>. HIDE DEF n
<1>2. DOMAIN s = 1 .. n
  BY ONLY <1>1, Zenon
<1>3. \A i \in 1 .. n : s[i] \in ToSet(s)
  BY ONLY <1>2 DEF ToSet
<1>4. s \in [1 .. n -> ToSet(s)]
  BY ONLY <1>1, <1>3
<1>5. s \in Seq(ToSet(s))
  BY ONLY <1>1, <1>4, SeqDef, Zenon
<1>. QED
  BY ONLY <1>1, <1>2, <1>5, Zenon DEF n

\* The parts of a line one after the other.
LEMMA FlattenIs ==
    ASSUME NEW S, NEW line, IsList(line), \A i \in 1 .. Len(line) : line[i] \in Seq(S)
    PROVE  \E h : /\ h[0] = <<>> /\ FlattenSeq(line) = h[Len(line)]
                  /\ \A i \in 1 .. Len(line) : h[i] = h[i - 1] \o line[i]
                  /\ \A i \in 0 .. Len(line) : h[i] \in Seq(S)
<1>. DEFINE n == Len(line)
<1>1. n \in Nat
  BY ListIs
<1>. HIDE DEF n
<1>2. CASE n = 0
  <2>1. line = <<>>
    <3>1. line = [i \in 1 .. n |-> line[i]]
      BY Zenon DEF IsList, n
    <3>. QED
      BY ONLY <1>2, <3>1
  <2>2. FlattenSeq(line) = line
    BY <1>2, Zenon DEF FlattenSeq, n
  <2>. DEFINE h == [i \in {0} |-> <<>>]
  <2>3. h[0] = <<>> /\ h[n] = <<>> /\ <<>> \in Seq(S) /\ (\A i \in 0 .. n : h[i] = <<>>)
        /\ \A i \in 1 .. n : FALSE
    BY ONLY <1>2, EmptySeq
  <2>. HIDE DEF h
  <2>. QED
    BY ONLY <2>1, <2>2, <2>3, Zenon DEF n
<1>3. CASE n # 0
  <2>. DEFINE Solves(f, m) == f = [i \in 1 .. m |-> IF i = 1 THEN line[i] ELSE f[i - 1] \o line[i]]
  <2>1. \A k \in 0 .. n - 1 : \E f : Solves(f, k + 1)
    <3>. DEFINE G == {k \in Nat : \E f : Solves(f, k + 1)}
    <3>1. 0 \in G
      <4>1. Solves([i \in 1 .. 1 |-> line[i]], 1)
        OBVIOUS
      <4>2. 0 + 1 = 1 /\ 0 \in Nat
        OBVIOUS
      <4>. HIDE DEF Solves
      <4>. QED
        BY ONLY <4>1, <4>2
    <3>2. ASSUME NEW k \in Nat, k \in G PROVE k + 1 \in G
      <4>1. PICK f : Solves(f, k + 1)
        BY <3>2
      <4>. DEFINE last == f[k + 1] \o line[k + 1 + 1]
      <4>. HIDE DEF last
      <4>. DEFINE f1 == [i \in 1 .. k + 1 + 1 |-> IF i = k + 1 + 1 THEN last ELSE f[i]]
      <4>2. \A i \in 1 .. k + 1 : f1[i] = f[i] /\ i # k + 1 + 1 /\ (i # 1 => i - 1 \in 1 .. k + 1)
        BY ONLY k \in Nat
      <4>3. f1[k + 1 + 1] = last /\ (k + 1 + 1) - 1 = k + 1 /\ k + 1 \in 1 .. k + 1 /\ k + 1 + 1 # 1
        BY ONLY k \in Nat
      <4>4. \A i \in 1 .. k + 1 + 1 : i \in 1 .. k + 1 \/ i = k + 1 + 1
        BY ONLY k \in Nat
      <4>5. \A i \in 1 .. k + 1 : f[i] = IF i = 1 THEN line[i] ELSE f[i - 1] \o line[i]
        BY ONLY <4>1
      <4>6. f1 = [i \in 1 .. k + 1 + 1 |-> f1[i]]
        OBVIOUS
      <4>. HIDE DEF f1
      <4>7. \A i \in 1 .. k + 1 + 1 : f1[i] = IF i = 1 THEN line[i] ELSE f1[i - 1] \o line[i]
        <5>1. ASSUME NEW i \in 1 .. k + 1 PROVE f1[i] = IF i = 1 THEN line[i] ELSE f1[i - 1] \o line[i]
          <6>1. i # 1 => f1[i - 1] = f[i - 1]
            BY ONLY <4>2, i \in 1 .. k + 1, Zenon
          <6>. QED
            BY ONLY <4>2, <4>5, <6>1, i \in 1 .. k + 1, Zenon
        <5>2. f1[k + 1 + 1] = f1[(k + 1 + 1) - 1] \o line[k + 1 + 1]
          BY ONLY <4>2, <4>3, Zenon DEF last
        <5>. QED
          <6>1. \A i \in 1 .. k + 1 : f1[i] = IF i = 1 THEN line[i] ELSE f1[i - 1] \o line[i]
            BY ONLY <5>1
          <6>. DEFINE m == k + 1 + 1
          <6>2. m # 1 /\ \A i \in 1 .. m : i \in 1 .. k + 1 \/ i = m
            BY ONLY <4>3, <4>4, Zenon
          <6>. HIDE DEF m
          <6>3. f1[m] = f1[m - 1] \o line[m]
            BY ONLY <5>2, Zenon DEF m
          <6>4. \A i \in 1 .. m : f1[i] = IF i = 1 THEN line[i] ELSE f1[i - 1] \o line[i]
            BY ONLY <6>1, <6>2, <6>3, Zenon
          <6>. QED
            BY ONLY <6>4, Zenon DEF m
      <4>8. Solves(f1, k + 1 + 1)
        BY ONLY <4>6, <4>7
      <4>. HIDE DEF Solves
      <4>9. k + 1 \in Nat
        BY ONLY k \in Nat
      <4>. QED
        BY ONLY <4>8, <4>9
    <3>. HIDE DEF G
    <3>3. n - 1 \in Nat
      BY ONLY <1>1, <1>3
    <3>4. \A k \in 0 .. n - 1 : k \in G
      BY ONLY <3>1, <3>2, <3>3, Upwards
    <3>. HIDE DEF Solves
    <3>. QED
      BY ONLY <3>4, Zenon DEF G
  <2>2. n - 1 \in 0 .. n - 1 /\ n - 1 + 1 = n
    BY ONLY <1>1, <1>3
  <2>. DEFINE f == CHOOSE f : Solves(f, n)
  <2>3. Solves(f, n)
    <3>1. \E f0 : Solves(f0, n)
      <4>. HIDE DEF Solves
      <4>. QED
        BY ONLY <2>1, <2>2
    <3>. HIDE DEF Solves
    <3>. QED
      BY ONLY <3>1, Zenon
  <2>4. FlattenSeq(line) = f[n]
    BY <1>3, Zenon DEF FlattenSeq, n
  <2>. HIDE DEF f
  <2>5. \A i \in 1 .. n : f[i] = IF i = 1 THEN line[i] ELSE f[i - 1] \o line[i]
    BY ONLY <2>3
  <2>. DEFINE h == [i \in 0 .. n |-> IF i = 0 THEN <<>> ELSE f[i]]
  <2>6. h[0] = <<>> /\ (\A i \in 1 .. n : h[i] = f[i] /\ i \in 0 .. n) /\ n \in 1 .. n /\ 1 \in 1 .. n
        /\ (\A i \in 1 .. n : i # 1 => i - 1 \in 1 .. n)
    BY ONLY <1>1, <1>3
  <2>. HIDE DEF h
  <2>7. \A i \in 1 .. n : h[i] = h[i - 1] \o line[i]
    <3>1. ASSUME NEW i \in 1 .. n PROVE h[i] = h[i - 1] \o line[i]
      <4>1. line[i] \in Seq(S)
        BY <3>1 DEF n
      <4>2. <<>> \o line[i] = line[i]
        BY ONLY <4>1, ConcatEmptySeq
      <4>3. i = 1 => i - 1 = 0
        OBVIOUS
      <4>. QED
        BY ONLY <2>5, <2>6, <4>2, <4>3, i \in 1 .. n, Zenon
    <3>. QED
      BY ONLY <3>1
  <2>8. \A i \in 0 .. n : h[i] \in Seq(S)
    <3>. DEFINE G == {i \in Nat : h[i] \in Seq(S)}
    <3>1. 0 \in G
      BY ONLY <2>6, EmptySeq
    <3>2. ASSUME NEW i \in Nat, i < n, i \in G PROVE i + 1 \in G
      <4>1. i + 1 \in 1 .. n /\ (i + 1) - 1 = i /\ i + 1 \in Nat
        BY ONLY <1>1, <3>2
      <4>2. line[i + 1] \in Seq(S) /\ h[i] \in Seq(S)
        BY <3>2, <4>1 DEF n
      <4>3. h[i] \o line[i + 1] \in Seq(S)
        BY ONLY <4>2, ConcatProperties
      <4>4. h[i + 1] = h[i] \o line[i + 1]
        <5>1. h[i + 1] = h[(i + 1) - 1] \o line[i + 1]
          BY ONLY <2>7, <4>1, Zenon
        <5>. QED
          BY ONLY <4>1, <5>1, Zenon
      <4>. QED
        BY ONLY <4>1, <4>3, <4>4
    <3>. HIDE DEF G
    <3>3. \A i \in 0 .. n : i \in G
      BY ONLY <1>1, <3>1, <3>2, Upwards
    <3>. QED
      BY ONLY <3>3 DEF G
  <2>. QED
    BY ONLY <2>4, <2>6, <2>7, <2>8, Zenon DEF n
<1>. QED
  BY ONLY <1>2, <1>3, Zenon

\* A line is a list of lists.
LEMMA LineIs ==
    ASSUME NEW line, IsCommandLine(line)
    PROVE  /\ IsList(line) /\ Len(line) \in Nat /\ DOMAIN line = 1 .. Len(line)
           /\ \E S : \A i \in 1 .. Len(line) : line[i] \in Seq(S)
<1>. DEFINE n == Len(line)
<1>1. IsList(line) /\ n \in Nat /\ DOMAIN line = 1 .. n
  <2>1. IsList(line)
    BY Zenon DEF IsCommandLine
  <2>. QED
    BY ONLY <2>1, ListIs
<1>. DEFINE S == UNION {ToSet(line[i]) : i \in 1 .. n}
<1>2. \A i \in 1 .. n : line[i] \in Seq(S)
  <2>1. ASSUME NEW i \in 1 .. n PROVE line[i] \in Seq(S)
    <3>. DEFINE T == ToSet(line[i])
    <3>1. i \in DOMAIN line
      BY ONLY <1>1, <2>1, Zenon
    <3>2. IsList(line[i])
      BY ONLY <3>1, IsCommandLine(line), Zenon DEF IsCommandLine
    <3>3. line[i] \in Seq(T)
      BY ONLY <3>2, ListIs
    <3>4. T \in {ToSet(line[j]) : j \in 1 .. n}
      BY ONLY <2>1, Zenon
    <3>5. T \subseteq S
      BY ONLY <3>4, Zenon
    <3>. HIDE DEF T, S
    <3>. QED
      BY ONLY <3>3, <3>5, SeqMonotonic
  <2>. QED
    BY ONLY <2>1
<1>. HIDE DEF S, n
<1>. QED
  BY ONLY <1>1, <1>2, Zenon DEF n

LEMMA LineLength ==
    ASSUME NEW line, IsCommandLine(line)
    PROVE  Len(FlattenSeq(line)) \in Nat
<1>. DEFINE n == Len(line)
<1>1. IsList(line) /\ n \in Nat
  BY LineIs
<1>2. PICK S : \A i \in 1 .. n : line[i] \in Seq(S)
  BY LineIs, Zenon
<1>3. PICK h : FlattenSeq(line) = h[n] /\ \A i \in 0 .. n : h[i] \in Seq(S)
  BY ONLY <1>1, <1>2, FlattenIs
<1>. HIDE DEF n
<1>4. n \in 0 .. n
  BY ONLY <1>1
<1>5. FlattenSeq(line) \in Seq(S)
  BY ONLY <1>3, <1>4, Zenon
<1>. QED
  BY ONLY <1>5, LenProperties

\* A line makes what its options make, each as it does alone.
LEMMA LineParse ==
    ASSUME NEW line, IsCommandLine(line), Independent(line)
    PROVE  Summed(line, Len(line), Parse(FlattenSeq(line)))
<1>. DEFINE n == Len(line)
<1>1. IsList(line) /\ n \in Nat /\ DOMAIN line = 1 .. n
  BY LineIs
<1>2. ASSUME NEW i \in 1 .. n
      PROVE  /\ IsList(line[i]) /\ Complete(line[i]) /\ line[i][1].dashes \in 0 .. 2
             /\ line[i][1].dashes = 1 => IsList(line[i][1].text)
  <2>1. i \in DOMAIN line
    BY <1>1, <1>2, Zenon
  <2>2. IsList(line[i]) /\ Complete(line[i])
    BY <2>1, Zenon DEF IsCommandLine, Independent
  <2>3. DOMAIN line[i] = 1 .. Len(line[i]) /\ Len(line[i]) \in Nat
    BY ONLY <2>2, ListIs
  <2>4. Len(line[i]) > 0
    BY ONLY <2>2, Zenon DEF Complete
  <2>5. 1 \in DOMAIN line[i]
    BY ONLY <2>3, <2>4
  <2>. QED
    BY ONLY <2>1, <2>2, <2>5, IsCommandLine(line), Zenon DEF IsCommandLine
<1>3. PICK S : \A i \in 1 .. n : line[i] \in Seq(S)
  BY LineIs, Zenon
<1>. HIDE DEF n
<1>4. PICK h : /\ h[0] = <<>> /\ FlattenSeq(line) = h[n]
               /\ \A i \in 1 .. n : h[i] = h[i - 1] \o line[i]
               /\ \A i \in 0 .. n : h[i] \in Seq(S)
  BY ONLY <1>1, <1>3, FlattenIs DEF n
<1>. DEFINE F == h[n]  M == 4 * Len(F)
<1>5. F \in Seq(S) /\ Len(F) \in Nat /\ M \in Nat
  <2>1. n \in 0 .. n
    BY ONLY <1>1
  <2>2. F \in Seq(S)
    BY ONLY <1>4, <2>1, Zenon
  <2>. HIDE DEF F
  <2>. QED
    BY ONLY <2>2, LenProperties
<1>. HIDE DEF F
<1>6. PICK g : Turns(g, Parser(Defaults, F, <<>>), M) /\ Parse(F) = g[M].c
  BY ONLY <1>5, ParseTurns
<1>. HIDE DEF M
<1>7. g[0] = Parser(Defaults, F, <<>>) /\ \A i \in 0 .. M - 1 : g[i + 1] = Turn(g[i])
  BY ONLY <1>6, Zenon DEF Turns
<1>. DEFINE Goes(i, r) == \E m \in 0 .. 4 * Len(h[i]) : \E e : Summed(line, i, e) /\ Halts(g, m, e, r)
<1>. DEFINE G == {i \in Nat : \A r \in Seq(S) : F = h[i] \o r => Goes(i, r)}
<1>8. 0 \in G
  <2>1. ASSUME NEW r \in Seq(S), F = h[0] \o r PROVE Goes(0, r)
    <3>1. F = r
      <4>1. <<>> \o r = r
        BY ONLY r \in Seq(S), ConcatEmptySeq
      <4>. QED
        BY ONLY <1>4, <2>1, <4>1, Zenon
    <3>2. 0 \in 0 .. 4 * Len(h[0])
      <4>1. Len(<<>>) = 0
        BY EmptySeq
      <4>. QED
        BY ONLY <1>4, <4>1
    <3>3. Ready(Defaults) /\ Defaults["exit"] = "no" /\ Summed(line, 0, Defaults)
      BY DefaultsReady, SummedFirst, Zenon DEF Ready
    <3>4. g[0].c = Defaults
      <4>1. Parser(Defaults, F, <<>>).c = Defaults
        BY DEF Parser
      <4>. QED
        BY ONLY <1>7, <4>1, Zenon
    <3>5. Halts(g, 0, Defaults, r)
      BY ONLY <1>7, <3>1, <3>3, <3>4, Zenon DEF Halts
    <3>. QED
      BY ONLY <3>2, <3>3, <3>5, Zenon
  <2>. HIDE DEF Goes
  <2>. QED
    BY ONLY <2>1
<1>9. ASSUME NEW i \in Nat, i < n, i \in G PROVE i + 1 \in G
  <2>1. i + 1 \in 1 .. n /\ i \in 0 .. n /\ i + 1 \in 0 .. n /\ (i + 1) - 1 = i
    BY ONLY <1>1, <1>9
  <2>. DEFINE u == line[i + 1]
  <2>2. /\ u \in Seq(S) /\ Complete(u) /\ u[1].dashes \in 0 .. 2
        /\ (u[1].dashes = 1 => IsList(u[1].text))
        /\ h[i + 1] = h[i] \o u /\ h[i] \in Seq(S) /\ h[i + 1] \in Seq(S)
    <3>1. u \in Seq(S) /\ h[i] \in Seq(S) /\ h[i + 1] \in Seq(S)
      BY ONLY <1>3, <1>4, <2>1, Zenon
    <3>2. h[i + 1] = h[(i + 1) - 1] \o u
      BY ONLY <1>4, <2>1, Zenon
    <3>3. h[i + 1] = h[i] \o u
      BY ONLY <2>1, <3>2, Zenon
    <3>4. Complete(u) /\ u[1].dashes \in 0 .. 2 /\ (u[1].dashes = 1 => IsList(u[1].text))
      BY ONLY <1>2, <2>1, Zenon
    <3>. QED
      BY ONLY <3>1, <3>3, <3>4, Zenon
  <2>3. \A j \in 1 .. i : \A a \in Names(line[j]), b \in Names(u) : ~Excludes(a, b)
    <3>1. ASSUME NEW j \in 1 .. i PROVE j \in DOMAIN line /\ i + 1 \in DOMAIN line /\ j # i + 1
      <4>1. j \in 1 .. n /\ j # i + 1
        BY ONLY <1>1, <1>9, <3>1
      <4>. QED
        BY ONLY <1>1, <2>1, <4>1
    <3>. QED
      BY ONLY <3>1, Independent(line), Zenon DEF Independent
  <2>. HIDE DEF u
  <2>4. ASSUME NEW r \in Seq(S), F = h[i + 1] \o r PROVE Goes(i + 1, r)
    <3>. DEFINE w == u \o r  p == h[i]  q == h[i + 1]
    <3>1. w \in Seq(S) /\ F = p \o w /\ Len(q) = Len(p) + Len(u) /\ Len(F) = Len(q) + Len(r)
          /\ Len(p) \in Nat /\ Len(u) \in Nat /\ Len(r) \in Nat
      <4>. HIDE DEF p, q
      <4>1. p \in Seq(S) /\ u \in Seq(S) /\ q \in Seq(S) /\ q = p \o u /\ F = q \o r
        BY ONLY <2>2, <2>4, Zenon DEF p, q
      <4>2. w \in Seq(S)
        BY ONLY <4>1, r \in Seq(S), ConcatProperties
      <4>3. (p \o u) \o r = p \o (u \o r)
        BY ONLY <4>1, r \in Seq(S), ConcatAssociative
      <4>4. F = p \o w
        BY ONLY <4>1, <4>3, Zenon
      <4>5. Len(p \o u) = Len(p) + Len(u) /\ Len(q \o r) = Len(q) + Len(r)
        BY ONLY <4>1, r \in Seq(S), ConcatProperties
      <4>6. Len(p) \in Nat /\ Len(u) \in Nat /\ Len(r) \in Nat
        BY ONLY <4>1, r \in Seq(S), LenProperties
      <4>. QED
        BY ONLY <4>1, <4>2, <4>4, <4>5, <4>6, Zenon
    <3>2. Goes(i, w)
      <4>. HIDE DEF Goes, w
      <4>. QED
        BY ONLY <1>9, <3>1
    <3>3. PICK m \in 0 .. 4 * Len(p) : \E d : Summed(line, i, d) /\ Halts(g, m, d, w)
      <4>. HIDE DEF w
      <4>. QED
        BY ONLY <3>2, Zenon
    <3>4. PICK d : Summed(line, i, d) /\ Halts(g, m, d, w)
      <4>. HIDE DEF w
      <4>. QED
        BY ONLY <3>3, Zenon
    <3>5. /\ m \in Nat /\ m + 4 * Len(u) <= M /\ m \in 0 .. 4 * Len(q)
          /\ \A k \in m .. m + 4 * Len(u) : k \in 0 .. 4 * Len(q)
      <4>. HIDE DEF w
      <4>. DEFINE x == Len(p)  y == Len(u)  z == Len(r)  a == Len(q)  b == Len(F)
      <4>1. a = x + y /\ b = a + z /\ x \in Nat /\ y \in Nat /\ z \in Nat /\ m \in 0 .. 4 * x
            /\ M = 4 * b
        BY ONLY <3>1, m \in 0 .. 4 * Len(p) DEF M
      <4>. HIDE DEF p, q, x, y, z, a, b
      <4>2. m \in Nat /\ m + 4 * y <= M /\ m \in 0 .. 4 * a
            /\ \A k \in m .. m + 4 * y : k \in 0 .. 4 * a
        BY ONLY <4>1
      <4>. QED
        BY ONLY <4>2, Zenon DEF x, y, z, a, b
    <3>6. CASE d["exit"] # "no"
      <4>1. \E j \in 1 .. i : Parse(line[j])["exit"] # "no"
        BY ONLY <3>4, <3>6, Zenon DEF Summed
      <4>2. \A j \in 1 .. i : j \in 1 .. i + 1
        BY ONLY i \in Nat
      <4>3. Summed(line, i + 1, d)
        BY ONLY <3>4, <3>6, <4>1, <4>2, Zenon DEF Summed
      <4>4. Halts(g, m, d, r)
        BY ONLY <3>4, <3>6, Zenon DEF Halts
      <4>. QED
        BY ONLY <3>5, <4>3, <4>4, Zenon
    <3>7. CASE d["exit"] = "no"
      <4>1. Ready(d) /\ g[m] = Parser(d, u \o r, <<>>)
        BY ONLY <3>4, <3>7, Zenon DEF Summed, Ready, Halts
      <4>2. \A k \in m .. M - 1 : g[k + 1] = Turn(g[k])
        <5>1. \A k \in m .. M - 1 : k \in 0 .. M - 1
          BY ONLY <3>5
        <5>. QED
          BY ONLY <1>7, <5>1, Zenon
      <4>3. Makes(g, m, u, r, d)
        <5>. HIDE DEF w, p, q
        <5>1. /\ u \in Seq(S) /\ Complete(u) /\ u[1].dashes \in 0 .. 2
              /\ (u[1].dashes = 1 => IsList(u[1].text))
              /\ Ready(d) /\ m \in Nat /\ M \in Nat /\ m + 4 * Len(u) <= M
              /\ g[m] = Parser(d, u \o r, <<>>)
          BY ONLY <1>5, <2>2, <3>5, <4>1, Zenon
        <5>. QED
          BY ONLY <4>2, <5>1, r \in Seq(S), OptionWithin
      <4>4. PICK m1 \in m .. m + 4 * Len(u) : \E e :
              ParallelBy(Defaults, Parse(u), d, e, Names(u)) /\ Halts(g, m1, e, r)
        BY ONLY <4>3, Zenon DEF Makes
      <4>5. PICK e : ParallelBy(Defaults, Parse(u), d, e, Names(u)) /\ Halts(g, m1, e, r)
        BY ONLY <4>4, Zenon
      <4>6. Summed(line, i + 1, e)
        <5>1. ParallelBy(Defaults, Parse(line[i + 1]), d, e, Names(line[i + 1]))
              /\ \A j \in 1 .. i : \A a \in Names(line[j]), b \in Names(line[i + 1]) : ~Excludes(a, b)
          BY ONLY <2>3, <4>5, Zenon DEF u
        <5>. QED
          BY ONLY <3>4, <3>7, <5>1, i \in Nat, SummedNext
      <4>7. m1 \in 0 .. 4 * Len(h[i + 1])
        BY ONLY <3>5, <4>4, Zenon
      <4>. QED
        BY ONLY <4>5, <4>6, <4>7, Zenon
    <3>. QED
      BY ONLY <3>6, <3>7, Zenon
  <2>5. i + 1 \in Nat
    BY ONLY i \in Nat
  <2>. HIDE DEF Goes
  <2>. QED
    BY ONLY <2>4, <2>5
<1>10. Goes(n, <<>>)
  <2>. HIDE DEF G, Goes
  <2>1. n \in G
    <3>1. \A i \in 0 .. n : i \in G
      BY ONLY <1>1, <1>8, <1>9, Upwards
    <3>. QED
      BY ONLY <1>1, <3>1
  <2>2. <<>> \in Seq(S) /\ F = h[n] \o <<>>
    <3>1. F \o <<>> = F
      BY ONLY <1>5, ConcatEmptySeq
    <3>2. <<>> \in Seq(S)
      BY ONLY EmptySeq
    <3>. QED
      BY ONLY <3>1, <3>2, Zenon DEF F
  <2>. QED
    BY ONLY <2>1, <2>2 DEF G
<1>11. PICK m \in 0 .. M : \E e : Summed(line, n, e) /\ Halts(g, m, e, <<>>)
  BY ONLY <1>10, Zenon DEF M, F
<1>12. PICK e : Summed(line, n, e) /\ Halts(g, m, e, <<>>)
  BY ONLY <1>11, Zenon
<1>13. Turn(g[m]) = g[m]
  <2>1. e["exit"] = "no" => Turn(Parser(e, <<>>, <<>>)) = Parser(e, <<>>, <<>>)
    BY ONLY TurnStops, Zenon
  <2>. QED
    BY ONLY <1>12, <2>1, Zenon DEF Halts
<1>14. g[M] = g[m]
  <2>1. m \in Nat /\ m <= M /\ \A k \in m .. M - 1 : k \in 0 .. M - 1
    BY ONLY <1>5, m \in 0 .. M
  <2>2. \A k \in m .. M - 1 : g[k + 1] = Turn(g[k])
    BY ONLY <1>7, <2>1, Zenon
  <2>. QED
    BY ONLY <1>5, <1>13, <2>1, <2>2, TurnsStop
<1>15. Parse(F) = e
  BY ONLY <1>6, <1>12, <1>14, Zenon DEF Halts
<1>. QED
  BY ONLY <1>4, <1>12, <1>15, Zenon DEF n, F

\* Two configurations that differ in the order of the filters mean the same.
LEMMA SameOutcome ==
    ASSUME NEW d, NEW e, Conf(d), Conf(e), d["exit"] = "no" <=> e["exit"] = "no",
           d["exit"] = "no" =>
              ToSet(d["filters"]) = ToSet(e["filters"]) /\ \A k \in Settings : d[k] = e[k]
    PROVE  Outcome(d) = Outcome(e)
<1>1. CASE d["exit"] # "no"
  <2>1. \A x : x["exit"] # "no" => Mode(x) = "exit"
    BY ONLY TRUE, Zenon DEF Mode
  <2>2. \A x : Mode(x) = "exit" => Outcome(x) = <<"exit">>
    BY ONLY TRUE, Zenon DEF Outcome
  <2>. QED
    <3>1. e["exit"] # "no"
      BY <1>1, Zenon
    <3>2. Mode(d) = "exit" /\ Mode(e) = "exit"
      BY ONLY <1>1, <2>1, <3>1, Zenon
    <3>3. Outcome(d) = <<"exit">> /\ Outcome(e) = <<"exit">>
      BY ONLY <2>2, <3>2, Zenon
    <3>. QED
      BY ONLY <3>3, Zenon
<1>2. CASE d["exit"] = "no"
  <2>1. /\ e["exit"] = "no" /\ ToSet(d["filters"]) = ToSet(e["filters"])
        /\ \A k \in Settings : d[k] = e[k]
    BY <1>2, Zenon
  <2>3. /\ d["outfile"] = e["outfile"] /\ d["outfileoverwrite"] = e["outfileoverwrite"]
        /\ d["fout"] = e["fout"]
        /\ d["yamlinput"] = e["yamlinput"] /\ d["yamloutput"] = e["yamloutput"]
        /\ d["yamlraw"] = e["yamlraw"]
        /\ d["use_cuda"] = e["use_cuda"] /\ d["deterministic"] = e["deterministic"]
        /\ d["numwords"] = e["numwords"] /\ d["checkpointfile"] = e["checkpointfile"]
        /\ d["reportdelay"] = e["reportdelay"]
    BY ONLY <2>1, SettingsAre, Zenon
  <2>4. Refused(d) <=> Refused(e)
    BY ONLY <2>3, Zenon DEF Refused
  <2>5. Mode(d) = Mode(e)
    <3>. DEFINE Others(x) == IF x["yamlinput"] THEN "extract"
                           ELSE IF x["use_cuda"] THEN "device" ELSE "search"
    <3>1. Others(d) = Others(e)
      BY ONLY <2>3, Zenon
    <3>2. \A x : x["exit"] = "no" => Mode(x) = IF Refused(x) THEN "exit" ELSE Others(x)
      BY ONLY TRUE, Zenon DEF Mode
    <3>. HIDE DEF Others
    <3>. QED
      BY ONLY <1>2, <2>1, <2>4, <3>1, <3>2, Zenon
  <2>6. Output(d) = Output(e)
    BY ONLY <2>3, Zenon DEF Output
  <2>. DEFINE Others(x) == [x EXCEPT !.filters = <<>>, !.outfile = Unset, !.outfileoverwrite = FALSE,
                  !.fout = TRUE]
              Space == Settings \cup {"filters", "exit"}
  <2>7. Others(d) = Others(e)
    <3>1. \A x : Conf(x) => DOMAIN x = Space
      BY ONLY TRUE, Zenon DEF Conf
    <3>2. \A x : DOMAIN x = Space => Others(x) = [k \in Space |-> Others(x)[k]]
      BY ONLY TRUE
    <3>3. \A x : \A k : DOMAIN x = Space /\ k \in Space =>
              Others(x)[k] = IF k = "fout" THEN TRUE ELSE IF k = "outfileoverwrite" THEN FALSE
                           ELSE IF k = "outfile" THEN Unset ELSE IF k = "filters" THEN <<>> ELSE x[k]
      BY ONLY TRUE
    <3>4. \A k \in Space : k # "filters" => d[k] = e[k]
      BY ONLY <1>2, <2>1, Zenon
    <3>. HIDE DEF Space, Others
    <3>5. DOMAIN d = Space /\ DOMAIN e = Space
      BY ONLY <3>1, Conf(d), Conf(e), Zenon
    <3>6. \A k \in Space : Others(d)[k] = Others(e)[k]
      BY ONLY <3>3, <3>4, <3>5, Zenon
    <3>. QED
      BY ONLY <3>2, <3>5, <3>6, Zenon
  <2>8. \A x : Outcome(x) = IF Mode(x) = "exit" THEN <<"exit">>
                            ELSE <<Mode(x), Output(x), ToSet(x["filters"]), Others(x)>>
    BY ONLY TRUE, Zenon DEF Outcome
  <2>. HIDE DEF Others, Space
  <2>. QED
    BY ONLY <2>1, <2>5, <2>6, <2>7, <2>8, Zenon
<1>. QED
  BY <1>1, <1>2, Zenon

\* The options of a line in another order.
Reorders(order, n) ==
    /\ order \in [1 .. n -> 1 .. n]
    /\ \A i, j \in 1 .. n : order[i] = order[j] => i = j
    /\ \A j \in 1 .. n : \E i \in 1 .. n : order[i] = j
SameOptions(line1, line2, n) ==
    \E order : Reorders(order, n) /\ \A i \in 1 .. n : line2[i] = line1[order[i]]

LEMMA SummedAgain ==
    ASSUME NEW n \in Nat, NEW line1, NEW line2, SameOptions(line1, line2, n), NEW d, NEW e,
           Summed(line1, n, d), Summed(line2, n, e)
    PROVE  Outcome(d) = Outcome(e)
<1>. PICK order : Reorders(order, n) /\ \A i \in 1 .. n : line2[i] = line1[order[i]]
  BY Zenon DEF SameOptions
<1>1. \A i \in 1 .. n : order[i] \in 1 .. n /\ line2[i] = line1[order[i]]
  BY DEF Reorders
<1>2. \A j \in 1 .. n : \E i \in 1 .. n : order[i] = j /\ line2[i] = line1[j]
  <2>1. ASSUME NEW j \in 1 .. n PROVE \E i \in 1 .. n : order[i] = j /\ line2[i] = line1[j]
    <3>1. PICK i \in 1 .. n : order[i] = j
      BY Zenon DEF Reorders
    <3>2. line2[i] = line1[order[i]]
      BY ONLY <1>1, <3>1, Zenon
    <3>. QED
      BY ONLY <3>1, <3>2, Zenon
  <2>. QED
    BY ONLY <2>1
<1>3. d["exit"] = "no" <=> e["exit"] = "no"
  <2>. DEFINE X(u) == Parse(u)["exit"]
  <2>1. (\E j \in 1 .. n : X(line1[j]) # "no") <=> \E j \in 1 .. n : X(line2[j]) # "no"
    <3>. HIDE DEF X
    <3>1. ASSUME NEW j \in 1 .. n, X(line1[j]) # "no" PROVE \E i \in 1 .. n : X(line2[i]) # "no"
      <4>1. PICK i \in 1 .. n : line2[i] = line1[j]
        BY ONLY <1>2, <3>1, Zenon
      <4>2. X(line2[i]) # "no"
        BY ONLY <3>1, <4>1, Zenon
      <4>. QED
        BY ONLY <4>2, Zenon
    <3>2. ASSUME NEW j \in 1 .. n, X(line2[j]) # "no" PROVE \E i \in 1 .. n : X(line1[i]) # "no"
      <4>1. order[j] \in 1 .. n /\ line2[j] = line1[order[j]]
        BY ONLY <1>1, <3>2, Zenon
      <4>2. X(line1[order[j]]) # "no"
        BY ONLY <3>2, <4>1, Zenon
      <4>. QED
        BY ONLY <4>1, <4>2, Zenon
    <3>. QED
      BY ONLY <3>1, <3>2, Zenon
  <2>2. d["exit"] = "no" <=> ~\E j \in 1 .. n : X(line1[j]) # "no"
    BY ONLY Summed(line1, n, d), Zenon DEF Summed
  <2>3. e["exit"] = "no" <=> ~\E j \in 1 .. n : X(line2[j]) # "no"
    BY ONLY Summed(line2, n, e), Zenon DEF Summed
  <2>. HIDE DEF X
  <2>. QED
    BY ONLY <2>1, <2>2, <2>3, Zenon
<1>4. ASSUME d["exit"] = "no"
      PROVE  ToSet(d["filters"]) = ToSet(e["filters"]) /\ \A k \in Settings : d[k] = e[k]
  <2>. DEFINE W(u) == ToSet(Parse(u)["filters"])
  <2>1. ToSet(d["filters"]) = UNION {W(line1[j]) : j \in 1 .. n}
    BY ONLY <1>4, Summed(line1, n, d), Zenon DEF Summed
  <2>2. ToSet(e["filters"]) = UNION {W(line2[j]) : j \in 1 .. n}
    BY ONLY <1>3, <1>4, Summed(line2, n, e), Zenon DEF Summed
  <2>. HIDE DEF W
  <2>3. {W(line1[j]) : j \in 1 .. n} = {W(line2[j]) : j \in 1 .. n}
    <3>1. \A j \in 1 .. n : W(line1[j]) \in {W(line2[i]) : i \in 1 .. n}
      <4>1. ASSUME NEW j \in 1 .. n PROVE W(line1[j]) \in {W(line2[i]) : i \in 1 .. n}
        <5>1. PICK i \in 1 .. n : line2[i] = line1[j]
          BY ONLY <1>2, <4>1, Zenon
        <5>2. W(line1[j]) = W(line2[i])
          BY ONLY <5>1, Zenon
        <5>. QED
          BY ONLY <5>2, Zenon
      <4>. QED
        BY ONLY <4>1
    <3>2. \A j \in 1 .. n : W(line2[j]) \in {W(line1[i]) : i \in 1 .. n}
      <4>1. ASSUME NEW j \in 1 .. n PROVE W(line2[j]) \in {W(line1[i]) : i \in 1 .. n}
        <5>1. order[j] \in 1 .. n /\ W(line2[j]) = W(line1[order[j]])
          BY ONLY <1>1, <4>1, Zenon
        <5>. QED
          BY ONLY <5>1, Zenon
      <4>. QED
        BY ONLY <4>1
    <3>3. \A x : x \in {W(line1[j]) : j \in 1 .. n} <=> x \in {W(line2[j]) : j \in 1 .. n}
      BY ONLY <3>1, <3>2, Zenon
    <3>. QED
      BY ONLY <3>3, Zenon
  <2>4. ASSUME NEW k \in Settings PROVE d[k] = e[k]
    <3>1. /\ \A j \in 1 .. n : Names(line1[j]) \cap SetBy[k] # {} => d[k] = Parse(line1[j])[k]
          /\ (\A j \in 1 .. n : Names(line1[j]) \cap SetBy[k] = {}) => d[k] = Defaults[k]
      BY ONLY <1>4, <2>4, Summed(line1, n, d), Zenon DEF Summed
    <3>2. /\ \A j \in 1 .. n : Names(line2[j]) \cap SetBy[k] # {} => e[k] = Parse(line2[j])[k]
          /\ (\A j \in 1 .. n : Names(line2[j]) \cap SetBy[k] = {}) => e[k] = Defaults[k]
      BY ONLY <1>3, <1>4, <2>4, Summed(line2, n, e), Zenon DEF Summed
    <3>3. CASE \E j \in 1 .. n : Names(line1[j]) \cap SetBy[k] # {}
      <4>1. PICK j \in 1 .. n : Names(line1[j]) \cap SetBy[k] # {}
        BY ONLY <3>3, Zenon
      <4>2. PICK i \in 1 .. n : line2[i] = line1[j]
        BY ONLY <1>2, Zenon
      <4>3. d[k] = Parse(line1[j])[k]
        BY ONLY <3>1, <4>1, Zenon
      <4>4. e[k] = Parse(line1[j])[k]
        BY ONLY <3>2, <4>1, <4>2, Zenon
      <4>. QED
        BY ONLY <4>3, <4>4, Zenon
    <3>4. CASE \A j \in 1 .. n : Names(line1[j]) \cap SetBy[k] = {}
      <4>1. \A i \in 1 .. n : Names(line2[i]) \cap SetBy[k] = {}
        BY ONLY <1>1, <3>4, Zenon
      <4>. QED
        BY ONLY <3>1, <3>2, <3>4, <4>1, Zenon
    <3>. QED
      BY ONLY <3>3, <3>4, Zenon
  <2>. QED
    BY ONLY <2>1, <2>2, <2>3, <2>4, Zenon
<1>5. Conf(d) /\ Conf(e)
  BY Zenon DEF Summed
<1>. QED
  BY ONLY <1>3, <1>4, <1>5, SameOutcome

\* Each order of a line's options as TLC enumerates them.
LEMMA OrderIs ==
    ASSUME NEW line, NEW n \in Nat, DOMAIN line = 1 .. n,
           NEW p \in SetToSeqs({<<i, line[i]>> : i \in DOMAIN line})
    PROVE  /\ DOMAIN p = 1 .. n
           /\ \E order : Reorders(order, n) /\ \A i \in 1 .. n : p[i][2] = line[order[i]]
<1>. DEFINE I == 1 .. n  P == {<<i, line[i]>> : i \in I}  f == [i \in I |-> <<i, line[i]>>]
<1>1. IsFiniteSet(I) /\ Cardinality(I) = n
  <2>1. 1 \in Int /\ n \in Int /\ IF 1 > n THEN n = 0 ELSE n - 1 + 1 = n
    OBVIOUS
  <2>. QED
    BY <2>1, FS_Interval
<1>2. f \in Bijection(I, P)
  <2>1. f \in [I -> P]
    OBVIOUS
  <2>2. \A i, j \in I : f[i] = f[j] => i = j
    OBVIOUS
  <2>3. \A t \in P : \E i \in I : f[i] = t
    OBVIOUS
  <2>. HIDE DEF f, P, I
  <2>. QED
    BY ONLY <2>1, <2>2, <2>3 DEF Bijection, Injection, IsInjective, Surjection
<1>3. IsFiniteSet(P) /\ Cardinality(P) = n
  <2>. HIDE DEF f, P, I
  <2>1. ExistsBijection(I, P)
    BY ONLY <1>2, Zenon DEF ExistsBijection
  <2>. QED
    BY ONLY <1>1, <2>1, FS_Bijection
<1>4. p \in [I -> P] /\ \A i, j \in I : i # j => p[i] # p[j]
  <2>1. p \in SetToSeqs(P)
    BY Zenon
  <2>. HIDE DEF P
  <2>. QED
    BY ONLY <1>3, <2>1, Zenon DEF SetToSeqs
<1>5. \A t \in P : \E i \in I : p[i] = t
  <2>. HIDE DEF f, P, I
  <2>1. p \in Injection(I, P)
    BY ONLY <1>4 DEF Injection, IsInjective
  <2>2. p \in Surjection(I, P)
    BY ONLY <1>1, <1>3, <2>1, FS_Injection
  <2>. QED
    BY ONLY <2>2, Zenon DEF Surjection
<1>. DEFINE order == [i \in I |-> p[i][1]]
<1>6. \A i \in I : p[i] = <<order[i], line[order[i]]>> /\ order[i] \in I
  <2>1. ASSUME NEW i \in I PROVE p[i] = <<order[i], line[order[i]]>> /\ order[i] \in I
    <3>1. p[i] \in P /\ order[i] = p[i][1]
      BY ONLY <1>4, <2>1
    <3>2. PICK j \in I : p[i] = <<j, line[j]>>
      BY ONLY <3>1, Zenon
    <3>3. p[i][1] = j
      BY ONLY <3>2
    <3>. QED
      BY ONLY <3>1, <3>2, <3>3, Zenon
  <2>. QED
    BY ONLY <2>1
<1>7. order = [i \in I |-> order[i]]
  OBVIOUS
<1>8. DOMAIN p = 1 .. n
  BY ONLY <1>4
<1>9. \A j \in I : <<j, line[j]>> \in P
  OBVIOUS
<1>. HIDE DEF order, P, I
<1>10. order \in [I -> I]
  BY ONLY <1>6, <1>7
<1>11. \A i, j \in I : order[i] = order[j] => i = j
  BY ONLY <1>4, <1>6, Zenon
<1>12. \A j \in I : \E i \in I : order[i] = j
  <2>1. ASSUME NEW j \in I PROVE \E i \in I : order[i] = j
    <3>1. PICK i \in I : p[i] = <<j, line[j]>>
      BY ONLY <1>5, <1>9, <2>1, Zenon
    <3>2. <<j, line[j]>> = <<order[i], line[order[i]]>>
      BY ONLY <1>6, <3>1, Zenon
    <3>3. j = order[i]
      BY ONLY <3>2
    <3>. QED
      BY ONLY <3>3, Zenon
  <2>. QED
    BY ONLY <2>1
<1>13. \A i \in I : p[i][2] = line[order[i]]
  <2>1. ASSUME NEW i \in I PROVE p[i][2] = line[order[i]]
    <3>1. p[i] = <<order[i], line[order[i]]>>
      BY ONLY <1>6, <2>1, Zenon
    <3>. QED
      BY ONLY <3>1
  <2>. QED
    BY ONLY <2>1
<1>. QED
  BY ONLY <1>8, <1>10, <1>11, <1>12, <1>13, Zenon DEF Reorders, I

\* A line of the same options in another order is one that can be typed, and its
\* options are as independent.
LEMMA Reordered ==
    ASSUME NEW line, IsCommandLine(line), Independent(line),
           NEW p \in SetToSeqs({<<i, line[i]>> : i \in DOMAIN line})
    PROVE  Outcome(Parse(FlattenSeq([i \in DOMAIN p |-> p[i][2]]))) = Outcome(Parse(FlattenSeq(line)))
<1>. DEFINE n == Len(line)  line2 == [i \in DOMAIN p |-> p[i][2]]
<1>1. IsList(line) /\ n \in Nat /\ DOMAIN line = 1 .. n
  BY LineIs
<1>. HIDE DEF n
<1>2. DOMAIN p = 1 .. n /\ \E order : Reorders(order, n) /\ \A i \in 1 .. n : p[i][2] = line[order[i]]
  BY <1>1, OrderIs
<1>3. PICK order : Reorders(order, n) /\ \A i \in 1 .. n : p[i][2] = line[order[i]]
  BY ONLY <1>2, Zenon
<1>4. line2 = [i \in 1 .. n |-> line2[i]] /\ \A i \in 1 .. n : line2[i] = line[order[i]]
  BY ONLY <1>2, <1>3
<1>. HIDE DEF line2
<1>5. Len(line2) = n /\ DOMAIN line2 = 1 .. n /\ IsList(line2)
  <2>1. DOMAIN line2 = 1 .. n
    BY ONLY <1>4, Zenon
  <2>2. Len(line2) = n
    <3>1. line2 \in [1 .. n -> {line2[i] : i \in 1 .. n}]
      BY ONLY <1>4
    <3>2. line2 \in Seq({line2[i] : i \in 1 .. n})
      BY ONLY <1>1, <3>1, SeqDef, Zenon
    <3>3. DOMAIN line2 = 1 .. Len(line2) /\ Len(line2) \in Nat
      BY ONLY <3>2, LenProperties
    <3>. QED
      BY ONLY <1>1, <2>1, <3>3
  <2>. QED
    BY ONLY <1>1, <1>4, <2>1, <2>2, Zenon DEF IsList
<1>6. \A i \in 1 .. n : order[i] \in DOMAIN line /\ line2[i] = line[order[i]]
  BY ONLY <1>1, <1>3, <1>4 DEF Reorders
<1>7. IsCommandLine(line2)
  <2>1. \A i \in DOMAIN line :
           /\ IsList(line[i])
           /\ \A j \in DOMAIN line[i] :
                 /\ line[i][j].dashes \in 0 .. 2
                 /\ line[i][j].dashes = 1 => IsList(line[i][j].text)
    BY Zenon DEF IsCommandLine
  <2>2. ASSUME NEW i \in DOMAIN line2
        PROVE  /\ IsList(line2[i])
               /\ \A j \in DOMAIN line2[i] :
                     /\ line2[i][j].dashes \in 0 .. 2
                     /\ line2[i][j].dashes = 1 => IsList(line2[i][j].text)
    <3>1. order[i] \in DOMAIN line /\ line2[i] = line[order[i]]
      BY ONLY <1>5, <1>6, <2>2, Zenon
    <3>. QED
      BY ONLY <2>1, <3>1, Zenon
  <2>. QED
    BY ONLY <1>5, <2>2, Zenon DEF IsCommandLine
<1>8. Independent(line2)
  <2>1. \A i \in DOMAIN line2 : Complete(line2[i])
    <3>1. ASSUME NEW i \in DOMAIN line2 PROVE Complete(line2[i])
      <4>1. order[i] \in DOMAIN line /\ line2[i] = line[order[i]]
        BY ONLY <1>5, <1>6, <3>1, Zenon
      <4>2. Complete(line[order[i]])
        BY ONLY <4>1, Independent(line), Zenon DEF Independent
      <4>. QED
        BY ONLY <4>1, <4>2, Zenon
    <3>. QED
      BY ONLY <3>1
  <2>2. ASSUME NEW i \in DOMAIN line2, NEW j \in DOMAIN line2, i # j
        PROVE  \A name1 \in Names(line2[i]), name2 \in Names(line2[j]) : ~Excludes(name1, name2)
    <3>1. /\ order[i] \in DOMAIN line /\ line2[i] = line[order[i]]
          /\ order[j] \in DOMAIN line /\ line2[j] = line[order[j]]
      BY ONLY <1>5, <1>6, <2>2, Zenon
    <3>2. order[i] # order[j]
      BY ONLY <1>3, <1>5, <2>2, Zenon DEF Reorders
    <3>3. \A name1 \in Names(line[order[i]]), name2 \in Names(line[order[j]]) : ~Excludes(name1, name2)
      BY ONLY <3>1, <3>2, Independent(line), Zenon DEF Independent
    <3>. QED
      BY ONLY <3>1, <3>3, Zenon
  <2>. QED
    BY ONLY <2>1, <2>2, Zenon DEF Independent
<1>. DEFINE d == Parse(FlattenSeq(line))  e == Parse(FlattenSeq(line2))
<1>9. Summed(line, n, d)
  BY LineParse DEF n
<1>10. Summed(line2, n, e)
  <2>1. Summed(line2, Len(line2), e)
    BY ONLY <1>7, <1>8, LineParse
  <2>. QED
    BY ONLY <1>5, <2>1, Zenon
<1>. HIDE DEF d, e
<1>11. Outcome(d) = Outcome(e)
  <2>1. SameOptions(line, line2, n)
    BY ONLY <1>3, <1>4, Zenon DEF SameOptions
  <2>. QED
    BY ONLY <1>1, <1>9, <1>10, <2>1, SummedAgain
<1>. QED
  BY ONLY <1>11, Zenon DEF d, e, line2

\* The configuration is what the line that was typed makes.
Understood ==
    /\ IsCommandLine(typed)
    /\ c = Parse(FlattenSeq(typed))

LEMMA NothingTyped == IsCommandLine(<<>>) /\ Parse(FlattenSeq(<<>>)) = Defaults
<1>1. Len(<<>>) = 0 /\ <<>> = [i \in 1 .. 0 |-> <<>>[i]] /\ DOMAIN <<>> = {}
  OBVIOUS
<1>2. IsCommandLine(<<>>)
  <2>1. IsList(<<>>)
    BY ONLY <1>1, 0 \in Nat DEF IsList
  <2>. QED
    BY ONLY <1>1, <2>1, Zenon DEF IsCommandLine
<1>3. FlattenSeq(<<>>) = <<>>
  BY ONLY <1>1, Zenon DEF FlattenSeq
<1>4. Parse(<<>>) = Defaults
  <2>1. Len(<<>>) \in Nat /\ 4 * Len(<<>>) = 0
    BY ONLY <1>1
  <2>2. PICK f : Turns(f, Parser(Defaults, <<>>, <<>>), 4 * Len(<<>>))
        /\ Parse(<<>>) = f[4 * Len(<<>>)].c
    BY ONLY <2>1, ParseTurns
  <2>3. f[0] = Parser(Defaults, <<>>, <<>>) /\ Parse(<<>>) = f[0].c
    BY ONLY <2>1, <2>2, Zenon DEF Turns
  <2>4. Parser(Defaults, <<>>, <<>>).c = Defaults
    BY DEF Parser
  <2>. QED
    BY ONLY <2>3, <2>4, Zenon
<1>. QED
  BY ONLY <1>2, <1>3, <1>4, Zenon

LEMMA UnderstoodStep ==
    ASSUME Understood, [Next]_vars
    PROVE  Understood'
<1>1. ASSUME NEW line \in CommandLines, Run(line) PROVE Understood'
  <2>1. IsCommandLine(line)
    BY ProgramAssumption
  <2>2. c' = Parse(FlattenSeq(line)) /\ typed' = line
    BY <1>1 DEF Run
  <2>3. typed' = line /\ c' = Parse(FlattenSeq(typed'))
    BY ONLY <2>2, Zenon
  <2>. QED
    BY ONLY <2>1, <2>3 DEF Understood
<1>2. ASSUME Ends PROVE Understood'
  <2>1. c' = Defaults /\ typed' = <<>>
    BY <1>2 DEF Ends
  <2>2. IsCommandLine(typed') /\ c' = Parse(FlattenSeq(typed'))
    BY ONLY <2>1, NothingTyped, Zenon
  <2>. QED
    BY ONLY <2>2 DEF Understood
<1>3. ASSUME UNCHANGED progVars PROVE Understood'
  <2>1. c' = c /\ typed' = typed
    BY <1>3 DEF progVars
  <2>2. IsCommandLine(typed') /\ c' = Parse(FlattenSeq(typed'))
    BY ONLY <2>1, Understood, Zenon DEF Understood
  <2>. QED
    BY ONLY <2>2 DEF Understood
<1>. QED
  BY <1>1, <1>2, <1>3 DEF Next, vars, Writer, Report, EndSearch, Extract, EndExtract, EndOther

\* The order in which complete options are given means nothing, unless they are
\* alternatives of each other, one is given twice, or `--' ends the options
\* (main.c:311-526), for any command line and every order of its options.
THEOREM ProgramOrderIrrelevant == Spec => []OrderIrrelevant
<1>1. Init => Understood
  <2>1. ASSUME Init PROVE Understood
    <3>1. c = Defaults /\ typed = <<>>
      BY <2>1 DEF Init
    <3>. QED
      BY ONLY <3>1, NothingTyped, Zenon DEF Understood
  <2>. QED
    BY <2>1
<1>2. Understood /\ [Next]_vars => Understood'
  BY UnderstoodStep
<1>3. Understood => OrderIrrelevant
  <2>1. ASSUME Understood, Independent(typed),
               NEW p \in SetToSeqs({<<i, typed[i]>> : i \in DOMAIN typed})
        PROVE  Outcome(Parse(FlattenSeq([i \in DOMAIN p |-> p[i][2]]))) = Outcome(c)
    <3>1. IsCommandLine(typed) /\ c = Parse(FlattenSeq(typed))
      BY <2>1, Zenon DEF Understood
    <3>2. Outcome(Parse(FlattenSeq([i \in DOMAIN p |-> p[i][2]]))) = Outcome(Parse(FlattenSeq(typed)))
      BY ONLY <2>1, <3>1, Reordered
    <3>. QED
      BY ONLY <3>1, <3>2, Zenon
  <2>. QED
    BY <2>1, Zenon DEF OrderIrrelevant
<1>. QED
  BY <1>1, <1>2, <1>3, PTL DEF Spec

-----------------------------------------------------------------------------
(* Options *)

\* What a proof about -Y, -y and -D needs to know of a configuration.
Configured(d) == /\ {"yamlraw", "wantdedup"} \subseteq DOMAIN d
                 /\ d.yamlraw \in BOOLEAN /\ d.wantdedup \in BOOLEAN
ParserState(s) == {"c", "rest", "group", "ignoreargs"} \subseteq DOMAIN s /\ Configured(s.c)

\* A short option without an argument keeps or sets the form of keys.
LEMMA ShortOptionKeeps ==
    ASSUME NEW d, Configured(d), NEW letter
    PROVE  Configured(ShortOption(d, letter))
<1>1. "yamlraw" \in DOMAIN ShortOption(d, letter) /\ ShortOption(d, letter).yamlraw \in BOOLEAN
  BY SMTT(60) DEF Configured, ShortOption, Silent, Exit
<1>2. "wantdedup" \in DOMAIN ShortOption(d, letter) /\ ShortOption(d, letter).wantdedup \in BOOLEAN
  <2>1. CASE letter = "D"
    <3>1. ShortOption(d, letter) = [d EXCEPT !.wantdedup = TRUE]
      BY <2>1, SMTT(60) DEF ShortOption
    <3>. QED
      BY <3>1, SMT DEF Configured
  <2>2. CASE letter # "D"
    BY <2>2, SMTT(60) DEF Configured, ShortOption, Silent, Exit
  <2>. QED
    BY <2>1, <2>2
<1>. QED
  BY <1>1, <1>2, SMT DEF Configured

\* So does a long one, of which --rawyaml sets it.
LEMMA LongOptionKeeps ==
    ASSUME NEW d, Configured(d), NEW text
    PROVE  Configured(LongOption(d, text))
<1>1. Configured([d EXCEPT !.yamlraw = TRUE])
  BY SMT DEF Configured
<1>2. Configured([d EXCEPT !.use_cuda = TRUE])
  BY SMT DEF Configured
<1>3. Configured([d EXCEPT !.pw_skipnear = TRUE, !.pw_warnnear = FALSE])
  BY SMT DEF Configured
<1>4. Configured([d EXCEPT !.pw_warnnear = TRUE, !.pw_skipnear = FALSE])
  BY SMT DEF Configured
<1>5. Configured([d EXCEPT !.exit = "0"]) /\ Configured([d EXCEPT !.exit = "1"])
  BY SMT DEF Configured
<1>. QED
  BY <1>1, <1>2, <1>3, <1>4, <1>5, SMT DEF LongOption, Exit

\* So does one with an argument.
LEMMA ArgOptionKeeps ==
    ASSUME NEW d, Configured(d), NEW option \in TakesArgument, NEW value
    PROVE  Configured(ArgOption(d, option, value))
<1>1. "yamlraw" \in DOMAIN ArgOption(d, option, value) /\ ArgOption(d, option, value).yamlraw \in BOOLEAN
  BY SMTT(60) DEF Configured, ArgOption, TakesArgument, Exit
<1>2. "wantdedup" \in DOMAIN ArgOption(d, option, value) /\ ArgOption(d, option, value).wantdedup \in BOOLEAN
  BY SMTT(60) DEF Configured, ArgOption, TakesArgument, Exit
<1>. QED
  BY <1>1, <1>2, SMT DEF Configured

\* So does -Y.
LEMMA YamlInputKeeps ==
    ASSUME NEW d, Configured(d), NEW rest
    PROVE  Configured(YamlInput(d, rest))
  BY SMTT(60) DEF Configured, YamlInput, Exit

\* An option with an argument takes the next word or ends the program.
LEMMA TakeArgumentKeeps ==
    ASSUME NEW s, ParserState(s), NEW option \in TakesArgument
    PROVE  ParserState(TakeArgument(s, option))
<1>1. Configured(Exit(s.c, "1"))
  BY SMT DEF ParserState, Configured, Exit
<1>2. \A value : Configured(ArgOption(s.c, option, value))
  BY ArgOptionKeeps, SMT DEF ParserState
<1>3. CASE s.rest = <<>>
  <2>. DEFINE d == Exit(s.c, "1")
  <2>1. Configured(d)
    BY <1>1
  <2>. HIDE DEF d
  <2>2. ParserState([s EXCEPT !.c = d])
    BY <2>1, SMT DEF ParserState, Configured
  <2>. QED
    BY <1>3, <2>2, SMT DEF TakeArgument, d
<1>4. CASE s.rest # <<>>
  <2>. DEFINE d == ArgOption(s.c, option, s.rest[1].text)
  <2>. DEFINE r == Tail(s.rest)
  <2>1. Configured(d)
    BY <1>2
  <2>. HIDE DEF d, r
  <2>2. ParserState([s EXCEPT !.c = d, !.rest = r])
    BY <2>1, SMT DEF ParserState, Configured
  <2>. QED
    BY <1>4, <2>2, SMT DEF TakeArgument, d, r
<1>. QED
  BY <1>3, <1>4, SMT

\* One letter of a group of short options.
LEMMA LetterKeeps ==
    ASSUME NEW s, ParserState(s), NEW letter
    PROVE  ParserState(Letter(s, letter))
<1>1. CASE letter \in TakesArgument
  BY <1>1, TakeArgumentKeeps, SMT DEF Letter
<1>2. CASE letter \notin TakesArgument /\ letter # "Y"
  <2>. DEFINE d == ShortOption(s.c, letter)
  <2>1. Configured(d)
    BY ShortOptionKeeps, SMT DEF ParserState
  <2>. HIDE DEF d
  <2>2. ParserState([s EXCEPT !.c = d])
    BY <2>1, SMT DEF ParserState, Configured
  <2>. QED
    BY <1>2, <2>2, SMT DEF Letter, d
<1>3. CASE letter \notin TakesArgument /\ letter = "Y"
  <2>. DEFINE d == YamlInput(s.c, s.rest)
  <2>. DEFINE r == IF Len(s.rest) <= 2 THEN <<>> ELSE SubSeq(s.rest, 3, Len(s.rest))
  <2>1. Configured(d)
    BY YamlInputKeeps, SMT DEF ParserState
  <2>. HIDE DEF d, r
  <2>2. ParserState([s EXCEPT !.c = d, !.rest = r])
    BY <2>1, SMT DEF ParserState, Configured
  <2>. QED
    BY <1>3, <2>2, SMT DEF Letter, d, r
<1>. QED
  BY <1>1, <1>2, <1>3, SMT

\* One turn of the loop over the arguments.
LEMMA TurnKeeps ==
    ASSUME NEW s, ParserState(s)
    PROVE  ParserState(Turn(s))
<1>. DEFINE arg == s.rest[1]
<1>. DEFINE t == Tail(s.rest)
<1>. DEFINE r == [s EXCEPT !.rest = t]
<1>1. ParserState(r) /\ r.c = s.c
  BY SMT DEF ParserState, Configured
<1>2. ASSUME NEW x PROVE ParserState([r EXCEPT !.c.filters = x])
  BY <1>1, SMT DEF ParserState, Configured
<1>3. ParserState([r EXCEPT !.ignoreargs = TRUE])
  BY <1>1, SMT DEF ParserState, Configured
<1>4. ASSUME NEW x PROVE ParserState([r EXCEPT !.group = x])
  BY <1>1, SMT DEF ParserState, Configured
<1>5. ParserState(TakeArgument(r, "checkpoint"))
  BY <1>1, TakeArgumentKeeps, SMT DEF TakesArgument
<1>6. ParserState([r EXCEPT !.c = LongOption(r.c, arg.text)])
  <2>. DEFINE d == LongOption(r.c, arg.text)
  <2>1. Configured(d)
    BY <1>1, LongOptionKeeps, SMT DEF ParserState
  <2>. HIDE DEF d, r
  <2>2. ParserState([r EXCEPT !.c = d])
    BY <1>1, <2>1, SMT DEF ParserState, Configured
  <2>. QED
    BY <2>2, SMT DEF d
<1>7. ParserState(Letter([s EXCEPT !.group = Tail(s.group)], s.group[1]))
  <2>. DEFINE g == Tail(s.group)
  <2>. DEFINE u == [s EXCEPT !.group = g]
  <2>1. ParserState(u)
    BY SMT DEF ParserState, Configured
  <2>. HIDE DEF g, u
  <2>2. ParserState(Letter(u, s.group[1]))
    BY <2>1, LetterKeeps, SMT
  <2>. QED
    BY <2>2, SMT DEF g, u
<1>. HIDE DEF arg, t, r
<1>. DEFINE z == IF arg.dashes = 0 THEN arg.text ELSE <<>>
<1>8. ParserState([r EXCEPT !.c.filters = Append(r.c.filters, [text |-> z])])
  <2>. DEFINE x == Append(r.c.filters, [text |-> z])
  <2>. HIDE DEF x
  <2>1. ParserState([r EXCEPT !.c.filters = x])
    BY <1>2
  <2>. QED
    BY <2>1, SMT DEF x
<1>. HIDE DEF z
<1>9. ParserState([r EXCEPT !.group = arg.text])
  <2>. DEFINE x == arg.text
  <2>. HIDE DEF x
  <2>1. ParserState([r EXCEPT !.group = x])
    BY <1>4
  <2>. QED
    BY <2>1, SMT DEF x
<1>10. \/ Turn(s) = s
       \/ Turn(s) = Letter([s EXCEPT !.group = Tail(s.group)], s.group[1])
       \/ Turn(s) = [r EXCEPT !.c.filters = Append(r.c.filters, [text |-> z])]
       \/ Turn(s) = [r EXCEPT !.ignoreargs = TRUE]
       \/ Turn(s) = [r EXCEPT !.group = arg.text]
       \/ Turn(s) = TakeArgument(r, "checkpoint")
       \/ Turn(s) = [r EXCEPT !.c = LongOption(r.c, arg.text)]
  BY Zenon DEF Turn, arg, r, t, z
<1>11. CASE Turn(s) = Letter([s EXCEPT !.group = Tail(s.group)], s.group[1])
  BY ONLY <1>7, <1>11, SMT
<1>12. CASE Turn(s) = [r EXCEPT !.c.filters = Append(r.c.filters, [text |-> z])]
  BY ONLY <1>8, <1>12, SMT
<1>13. CASE Turn(s) = [r EXCEPT !.ignoreargs = TRUE]
  BY ONLY <1>3, <1>13, SMT
<1>14. CASE Turn(s) = [r EXCEPT !.group = arg.text]
  BY ONLY <1>9, <1>14, SMT
<1>15. CASE Turn(s) = TakeArgument(r, "checkpoint")
  BY ONLY <1>5, <1>15, SMT
<1>16. CASE Turn(s) = [r EXCEPT !.c = LongOption(r.c, arg.text)]
  BY ONLY <1>6, <1>16, SMT
<1>17. CASE Turn(s) = s
  BY <1>17, SMT
<1>. QED
  BY ONLY <1>10, <1>11, <1>12, <1>13, <1>14, <1>15, <1>16, <1>17, SMT

\* What is set before any argument is read.
LEMMA DefaultsConfigured == Configured(Defaults)
<1>1. "yamlraw" \in DOMAIN Defaults /\ "wantdedup" \in DOMAIN Defaults
  BY SMT DEF Defaults
<1>2. Defaults.yamlraw = FALSE /\ Defaults.wantdedup = FALSE
  BY SMT DEF Defaults
<1>. QED
  BY <1>1, <1>2, Zenon DEF Configured

\* Every turn keeps what is known.
LEMMA ParseKeeps ==
    ASSUME NEW argv, Len(argv) \in Nat
    PROVE  Configured(Parse(argv))
<1>. DEFINE M == 4 * Len(argv)  first == Parser(Defaults, argv, <<>>)
<1>1. M \in Nat
  OBVIOUS
<1>2. PICK f : Turns(f, first, M) /\ Parse(argv) = f[M].c
  BY ParseTurns
<1>3. ParserState(first)
  <2>1. {"c", "rest", "group", "ignoreargs"} \subseteq DOMAIN first /\ first.c = Defaults
    BY SMT DEF Parser
  <2>. HIDE DEF first
  <2>. QED
    BY <2>1, DefaultsConfigured, SMT DEF ParserState
<1>. DEFINE G == {i \in Nat : ParserState(f[i])}
<1>. HIDE DEF M, first
<1>4. 0 \in G
  BY <1>2, <1>3 DEF Turns
<1>5. ASSUME NEW i \in Nat, i < M, i \in G PROVE i + 1 \in G
  <2>1. f[i + 1] = Turn(f[i])
    BY <1>1, <1>2, <1>5 DEF Turns
  <2>. QED
    BY <1>5, <2>1, TurnKeeps
<1>. HIDE DEF G
<1>6. \A i \in 0 .. M : i \in G
  BY <1>1, <1>4, <1>5, Upwards
<1>7. ParserState(f[M])
  BY <1>1, <1>6 DEF G
<1>. QED
  BY <1>2, <1>7, SMT DEF ParserState

-----------------------------------------------------------------------------
(* Stages of the program *)

\* The reader runs in its own stage, with the options of the run.
Stages ==
    /\ c.yamlraw \in BOOLEAN
    /\ rpc \in {"off", "read", "create", "ended"}
    /\ rpc # "off" => stage = "extract"
    /\ stage = "extract" => rpc # "off"

\* The reader is off in every stage but its own.
LEMMA StagesStep ==
    ASSUME Stages, [Next]_vars
    PROVE  Stages'
<1>1. ASSUME NEW line \in CommandLines, Run(line) PROVE Stages'
  <2>1. Len(FlattenSeq(line)) \in Nat
    BY ProgramAssumption, LineLength
  <2>2. Configured(Parse(FlattenSeq(line)))
    BY ONLY <2>1, ParseKeeps
  <2>3. c' = Parse(FlattenSeq(line))
    BY <1>1 DEF Run
  <2>4. c'.yamlraw \in BOOLEAN
    BY <2>2, <2>3, SMT DEF Configured
  <2>5. rpc = "off"
    BY <1>1 DEF Run, Stages
  <2>6. \/ stage' = "search" /\ rpc' = rpc
        \/ stage' = "extract" /\ rpc' = "read"
        \/ stage' = "exit" /\ rpc' = rpc
    BY <1>1 DEF Run, StartSearch, StartReader, inVars
  <2>. QED
    BY <2>4, <2>5, <2>6 DEF Stages
<1>2. ASSUME Extract PROVE Stages'
  <2>1. UNCHANGED <<c, stage>> /\ stage = "extract"
    BY <1>2 DEF Extract, progVars
  <2>2. rpc' \in {"read", "create", "ended"}
    BY <1>2, <2>1 DEF Extract, Stages, ReadLine, Separator, Hostname, Half, Got, Return, Create, CreateFails,
       EndOfInput, ReadError
  <2>. QED
    BY <2>1, <2>2 DEF Stages
<1>3. ASSUME Ends, rpc' = "off" PROVE Stages'
  BY <1>3, DefaultsConfigured, SMT DEF Ends, Stages, Configured
<1>4. ASSUME EndSearch \/ EndExtract \/ EndOther PROVE Stages'
  <2>1. Ends /\ (stage = "extract" => rpc' = "off")
    BY <1>4 DEF EndSearch, EndExtract, EndOther
  <2>2. stage # "extract" => rpc' = "off"
    BY <1>4 DEF EndSearch, EndExtract, EndOther, Stages, inVars, yamlVars
  <2>. QED
    BY <1>3, <2>1, <2>2
<1>5. ASSUME Report \/ (\E w \in Writers : Writer(w)) \/ UNCHANGED vars PROVE Stages'
  <2>1. UNCHANGED <<c, stage, rpc>>
    BY <1>5 DEF Report, Writer, Begin, Gmtime, Strftime, Write, WriteCut, Done, vars, progVars, yamlVars, inVars
  <2>. QED
    BY <2>1 DEF Stages
<1>. QED
  BY <1>1, <1>2, <1>4, <1>5 DEF Next

-----------------------------------------------------------------------------
(* The YAML file *)

Values == {"hostname", "public", "secret"}
Lines ==
    [field : {"---", "-", "bad", "time"}, value : {NoKey}]
      \cup [field : {"hostname"}, value : Keys \cup {Malformed}]
      \cup [field : {"public", "secret"}, value : (Keys \X BOOLEAN) \cup {Malformed}]

\* A line with a value that can be read.
Good(line) == line.field \in Values /\ line.value # Malformed

\* What stands before a line, in any file that was written: a good value is
\* behind those of the same record, whatever was cut.
Follows(before, line) ==
    /\ Good(line) =>
         CASE line.field = "hostname" -> ~Good(before)
           [] line.field = "public" -> before = LineOf("hostname", line.value[1])
           [] line.field = "secret" -> before = LineOf("public", line.value)
    /\ line.field = "time" => Good(before) /\ before.field = "secret"

Shaped(f) ==
    /\ f \in Seq(Lines)
    /\ f # <<>> => f[1].field \in {"---", "-"}
    /\ \A i \in 1 .. Len(f) - 1 : Follows(f[i], f[i + 1])

\* Without a cut, the file is the records that were written.
Exact ==
    cut = 0 =>
        /\ ~noNewline
        /\ Len(file) = 5 * Len(written)
        /\ \A i \in 1 .. Len(written) : \A j \in 1 .. 5 :
              file[5 * (i - 1) + j] = Record(written[i].key, written[i].raw)[j]

FileInv ==
    /\ Shaped(file)
    /\ noNewline => file # <<>>
    /\ written \in Seq([key : Keys, raw : BOOLEAN])
    /\ cut \in Nat
    /\ Exact

\* All or a part of a record.
Fragment(g) ==
    /\ Shaped(g) /\ g # <<>>
    /\ Len(g) >= 2 => g[2].field \in {"hostname", "bad"}

\* What a record and its parts consist of.
LEMMA RecordLines ==
    ASSUME NEW key \in Keys, NEW raw \in BOOLEAN
    PROVE  /\ Record(key, raw) \in Seq(Lines) /\ Len(Record(key, raw)) = 5
           /\ \A i \in 1 .. 5 : Parts(Record(key, raw)[i]) \subseteq Lines
           /\ \A i \in 1 .. 5 : Record(key, raw)[i] \in Parts(Record(key, raw)[i])
<1>1. /\ LineOf("---", NoKey) \in Lines /\ LineOf("-", NoKey) \in Lines
      /\ LineOf("bad", NoKey) \in Lines /\ LineOf("time", NoKey) \in Lines
  BY DEF LineOf, Lines
<1>2. LineOf("hostname", key) \in Lines /\ LineOf("hostname", Malformed) \in Lines
  BY DEF LineOf, Lines
<1>3. /\ LineOf("public", <<key, raw>>) \in Lines /\ LineOf("secret", <<key, raw>>) \in Lines
      /\ LineOf("public", Malformed) \in Lines /\ LineOf("secret", Malformed) \in Lines
  BY DEF LineOf, Lines
<1>4. /\ Parts(LineOf("---", NoKey)) = {LineOf("-", NoKey), LineOf("---", NoKey)}
      /\ Parts(LineOf("time", NoKey)) = {LineOf("bad", NoKey), LineOf("time", NoKey)}
      /\ \A x : Parts(LineOf("hostname", x)) = {LineOf("bad", NoKey), LineOf("hostname", Malformed), LineOf("hostname", x)}
      /\ \A x : Parts(LineOf("public", x)) = {LineOf("bad", NoKey), LineOf("public", Malformed), LineOf("public", x)}
      /\ \A x : Parts(LineOf("secret", x)) = {LineOf("bad", NoKey), LineOf("secret", Malformed), LineOf("secret", x)}
  BY DEF Parts, LineOf
<1>5. /\ Record(key, raw)[1] = LineOf("---", NoKey) /\ Record(key, raw)[2] = LineOf("hostname", key)
      /\ Record(key, raw)[3] = LineOf("public", <<key, raw>>)
      /\ Record(key, raw)[4] = LineOf("secret", <<key, raw>>)
      /\ Record(key, raw)[5] = LineOf("time", NoKey)
      /\ Len(Record(key, raw)) = 5
  BY DEF Record
<1>6. Record(key, raw) \in Seq(Lines)
  BY <1>1, <1>2, <1>3 DEF Record
<1>7. \A i \in 1 .. 5 : i = 1 \/ i = 2 \/ i = 3 \/ i = 4 \/ i = 5
  OBVIOUS
<1>. QED
  BY <1>1, <1>2, <1>3, <1>4, <1>5, <1>6, <1>7

\* What was written whole up to a line, and of that line a part or all.
LEMMA PartFragment ==
    ASSUME NEW key \in Keys, NEW raw \in BOOLEAN, NEW m \in 1 .. 5, NEW g,
           g \in Seq(Lines), Len(g) = m,
           \A i \in 1 .. m - 1 : g[i] = Record(key, raw)[i],
           g[m] \in Parts(Record(key, raw)[m])
    PROVE  Fragment(g)
<1>. DEFINE R == Record(key, raw)
<1>1. /\ R[1] = LineOf("---", NoKey) /\ R[2] = LineOf("hostname", key)
      /\ R[3] = LineOf("public", <<key, raw>>) /\ R[4] = LineOf("secret", <<key, raw>>)
      /\ R[5] = LineOf("time", NoKey)
  BY DEF Record
<1>2. /\ key # Malformed /\ <<key, raw>> # Malformed /\ <<key, raw>>[1] = key
  BY YamlAssumption
<1>3. /\ ~Good(LineOf("---", NoKey)) /\ ~Good(LineOf("-", NoKey)) /\ ~Good(LineOf("bad", NoKey))
      /\ ~Good(LineOf("time", NoKey)) /\ \A x : ~Good(LineOf(x, Malformed))
      /\ Good(LineOf("hostname", key)) /\ Good(LineOf("public", <<key, raw>>))
      /\ Good(LineOf("secret", <<key, raw>>))
  BY <1>2 DEF Good, LineOf, Values
<1>4. \A x, y : LineOf(x, y).field = x /\ LineOf(x, y).value = y
  BY DEF LineOf
<1>5. /\ \A x \in Parts(R[1]) : x = LineOf("---", NoKey) \/ x = LineOf("-", NoKey)
      /\ \A x \in Parts(R[2]) : x = LineOf("bad", NoKey) \/ x = LineOf("hostname", Malformed) \/ x = R[2]
      /\ \A x \in Parts(R[3]) : x = LineOf("bad", NoKey) \/ x = LineOf("public", Malformed) \/ x = R[3]
      /\ \A x \in Parts(R[4]) : x = LineOf("bad", NoKey) \/ x = LineOf("secret", Malformed) \/ x = R[4]
      /\ \A x \in Parts(R[5]) : x = LineOf("bad", NoKey) \/ x = R[5]
  BY <1>1, <1>4 DEF Parts
<1>6. /\ \A x \in Parts(R[2]) : Follows(R[1], x)
      /\ \A x \in Parts(R[3]) : Follows(R[2], x)
      /\ \A x \in Parts(R[4]) : Follows(R[3], x)
      /\ \A x \in Parts(R[5]) : Follows(R[4], x)
  <2>1. \A b, x : ~Good(x) /\ x.field # "time" => Follows(b, x)
    BY DEF Follows
  <2>a. \A b, x : x.field = "hostname" /\ ~Good(b) => Follows(b, x)
    BY DEF Follows
  <2>b. \A b, x : x.field = "public" /\ b = LineOf("hostname", x.value[1]) => Follows(b, x)
    BY DEF Follows
  <2>c. \A b, x : x.field = "secret" /\ b = LineOf("public", x.value) => Follows(b, x)
    BY DEF Follows
  <2>d. \A b, x : x.field = "time" /\ Good(b) /\ b.field = "secret" => Follows(b, x)
    BY DEF Follows, Good, Values
  <2>2. Follows(R[1], R[2])
    BY <1>1, <1>3, <1>4, <2>a
  <2>3. Follows(R[2], R[3])
    BY <1>1, <1>2, <1>4, <2>b
  <2>4. Follows(R[3], R[4])
    BY <1>1, <1>4, <2>c
  <2>5. Follows(R[4], R[5])
    BY <1>1, <1>3, <1>4, <2>d
  <2>6. /\ ~Good(LineOf("bad", NoKey)) /\ LineOf("bad", NoKey).field # "time"
        /\ \A x \in Values : ~Good(LineOf(x, Malformed)) /\ LineOf(x, Malformed).field # "time"
    BY <1>3, <1>4 DEF Values
  <2>. HIDE DEF R
  <2>. QED
    BY <1>5, <2>1, <2>2, <2>3, <2>4, <2>5, <2>6 DEF Values
<1>7. R[2] \in Parts(R[2]) /\ R[3] \in Parts(R[3]) /\ R[4] \in Parts(R[4]) /\ R[1] \in Parts(R[1])
  <2>1. 1 \in 1 .. 5 /\ 2 \in 1 .. 5 /\ 3 \in 1 .. 5 /\ 4 \in 1 .. 5
    OBVIOUS
  <2>. QED
    BY <2>1, RecordLines
<1>. HIDE DEF R
<1>8. g # <<>> /\ g[1] \in Parts(R[1])
  BY <1>7 DEF R
<1>9. g[1].field \in {"---", "-"}
  BY <1>4, <1>5, <1>8
<1>10. ASSUME NEW i \in 1 .. m - 1 PROVE Follows(g[i], g[i + 1])
  <2>1. g[i] = R[i] /\ (i + 1 < m => g[i + 1] = R[i + 1]) /\ (i + 1 = m => g[i + 1] \in Parts(R[i + 1]))
    BY DEF R
  <2>2. i \in {1, 2, 3, 4}
    OBVIOUS
  <2>3. g[i + 1] \in Parts(R[i + 1]) \/ i + 1 = 5
    BY <1>7, <2>1, <2>2
  <2>4. g[i + 1] \in Parts(R[i + 1])
    BY <1>7, <2>1, <2>2
  <2>. QED
    BY <1>6, <2>1, <2>2, <2>4
<1>11. Len(g) >= 2 => g[2].field \in {"hostname", "bad"}
  <2>1. m >= 2 => g[2] \in Parts(R[2])
    BY <1>7 DEF R
  <2>. QED
    BY <1>1, <1>4, <1>5, <2>1, SMTT(30)
<1>. QED
  BY <1>8, <1>9, <1>10, <1>11 DEF Fragment, Shaped

\* A line that more was written to without a line end has no good value.
LEMMA JoinedLine ==
    ASSUME NEW line \in Lines
    PROVE  /\ Joined(line) \in Lines /\ ~Good(Joined(line))
           /\ line.field \in {"---", "-"} => Joined(line).field = "---"
           /\ \A before : Follows(before, line) => Follows(before, Joined(line))
<1>1. \A x, y : LineOf(x, y).field = x /\ LineOf(x, y).value = y
  BY DEF LineOf
<1>2. Joined(line).field \in Values => Joined(line).value = Malformed
  BY <1>1 DEF Joined, Values
<1>3. Joined(line) \in Lines
  BY DEF Joined, LineOf, Lines
<1>4. ~Good(Joined(line))
  BY <1>2 DEF Good
<1>5. Joined(line).field = "time" => Joined(line) = line
  BY <1>1 DEF Joined
<1>. QED
  BY <1>1, <1>3, <1>4, <1>5 DEF Follows, Joined

\* Two files written one after the other are one.
LEMMA ShapedConcat ==
    ASSUME NEW f, NEW g, Shaped(f), Shaped(g)
    PROVE  Shaped(f \o g)
<1>1. f \in Seq(Lines) /\ g \in Seq(Lines) /\ f \o g \in Seq(Lines) /\ Len(f \o g) = Len(f) + Len(g)
  BY DEF Shaped
<1>2. /\ \A i \in 1 .. Len(f) : (f \o g)[i] = f[i]
      /\ \A i \in 1 .. Len(g) : (f \o g)[Len(f) + i] = g[i]
  BY <1>1
<1>3. f \o g # <<>> => (f \o g)[1].field \in {"---", "-"}
  <2>1. CASE f = <<>>
    BY <1>1, <2>1 DEF Shaped
  <2>2. CASE f # <<>>
    <3>1. (f \o g)[1] = f[1]
      BY <1>1, <1>2, <2>2
    <3>. QED
      BY <2>2, <3>1 DEF Shaped
  <2>. QED
    BY <2>1, <2>2
<1>4. ASSUME NEW i \in 1 .. Len(f \o g) - 1 PROVE Follows((f \o g)[i], (f \o g)[i + 1])
  <2>1. CASE i < Len(f)
    <3>1. i \in 1 .. Len(f) - 1 /\ (f \o g)[i] = f[i] /\ (f \o g)[i + 1] = f[i + 1]
      BY <1>1, <1>2, <2>1
    <3>. QED
      BY <3>1 DEF Shaped
  <2>2. CASE i = Len(f)
    <3>1. g # <<>> /\ (f \o g)[i + 1] = g[1]
      BY <1>1, <1>2, <2>2
    <3>2. g[1].field \in {"---", "-"}
      BY <3>1 DEF Shaped
    <3>. QED
      BY <3>1, <3>2 DEF Follows, Good, Values
  <2>3. CASE i > Len(f)
    <3>1. PICK j \in 1 .. Len(g) - 1 : i = Len(f) + j
      <4>1. i - Len(f) \in 1 .. Len(g) - 1 /\ i = Len(f) + (i - Len(f))
        BY <1>1, <2>3
      <4>. QED
        BY <4>1
    <3>2. (f \o g)[i] = g[j] /\ (f \o g)[i + 1] = g[j + 1]
      <4>1. j \in 1 .. Len(g) /\ j + 1 \in 1 .. Len(g) /\ i + 1 = Len(f) + (j + 1)
        BY <1>1, <3>1
      <4>. QED
        BY <1>2, <3>1, <4>1
    <3>. QED
      BY <3>1, <3>2 DEF Shaped
  <2>. QED
    BY <1>1, <2>1, <2>2, <2>3
<1>. QED
  BY <1>1, <1>3, <1>4 DEF Shaped

\* The file without its last line, and that line joined with the first of g.
LEMMA ShapedJoin ==
    ASSUME NEW f, NEW g, Shaped(f), f # <<>>, Fragment(g)
    PROVE  Shaped(SubSeq(f, 1, Len(f) - 1) \o <<Joined(f[Len(f)])>> \o Tail(g))
<1>. DEFINE n == Len(f)
<1>. DEFINE h == SubSeq(f, 1, n - 1) \o <<Joined(f[n])>> \o Tail(g)
<1>1. f \in Seq(Lines) /\ g \in Seq(Lines) /\ g # <<>> /\ n \in Nat \ {0} /\ Len(g) \in Nat \ {0}
  BY DEF Fragment, Shaped
<1>2. f[n] \in Lines
  BY <1>1
<1>. DEFINE x == Joined(f[n])
<1>3. x \in Lines /\ ~Good(x) /\ (f[n].field \in {"---", "-"} => x.field = "---")
  BY <1>2, JoinedLine
<1>. HIDE DEF x
<1>4. /\ h \in Seq(Lines) /\ Len(h) = n - 1 + Len(g)
      /\ \A i \in 1 .. n - 1 : h[i] = f[i]
      /\ h[n] = x
      /\ \A i \in 2 .. Len(g) : h[n - 1 + i] = g[i]
  <2>1. SubSeq(f, 1, n - 1) \in Seq(Lines) /\ Len(SubSeq(f, 1, n - 1)) = n - 1
        /\ \A i \in 1 .. n - 1 : SubSeq(f, 1, n - 1)[i] = f[i]
    <3>1. 1 \in Int /\ n - 1 \in Int /\ (\A i \in 1 .. n - 1 : f[i] \in Lines)
          /\ (n - 1) - 1 + 1 = n - 1 /\ \A i \in 1 .. n - 1 : 1 + i - 1 = i
      BY <1>1
    <3>2. /\ SubSeq(f, 1, n - 1) \in Seq(Lines)
          /\ Len(SubSeq(f, 1, n - 1)) = IF 1 <= n - 1 THEN (n - 1) - 1 + 1 ELSE 0
          /\ \A i \in 1 .. (n - 1) - 1 + 1 : SubSeq(f, 1, n - 1)[i] = f[1 + i - 1]
      BY ONLY <3>1, SubSeqProperties
    <3>. QED
      BY <1>1, <3>1, <3>2
  <2>2. Tail(g) \in Seq(Lines) /\ Len(Tail(g)) = Len(g) - 1 /\ \A i \in 2 .. Len(g) : Tail(g)[i - 1] = g[i]
    BY <1>1
  <2>. DEFINE p == SubSeq(f, 1, n - 1)
  <2>. DEFINE t == Tail(g)
  <2>. HIDE DEF p, t, n
  <2>3. /\ p \o <<x>> \o t \in Seq(Lines) /\ Len(p \o <<x>> \o t) = Len(p) + 1 + Len(t)
        /\ \A i \in 1 .. Len(p) : (p \o <<x>> \o t)[i] = p[i]
        /\ (p \o <<x>> \o t)[Len(p) + 1] = x
        /\ \A i \in 1 .. Len(t) : (p \o <<x>> \o t)[Len(p) + 1 + i] = t[i]
    <3>1. p \in Seq(Lines) /\ t \in Seq(Lines)
      BY <2>1, <2>2 DEF p, t
    <3>. DEFINE q == p \o <<x>>
    <3>2. q \in Seq(Lines) /\ Len(q) = Len(p) + 1 /\ q[Len(p) + 1] = x /\ \A i \in 1 .. Len(p) : q[i] = p[i]
      BY <1>3, <3>1
    <3>. HIDE DEF q
    <3>3. /\ q \o t \in Seq(Lines) /\ Len(q \o t) = Len(q) + Len(t)
          /\ \A i \in 1 .. Len(q) : (q \o t)[i] = q[i]
          /\ \A i \in 1 .. Len(t) : (q \o t)[Len(q) + i] = t[i]
      BY <3>1, <3>2
    <3>. QED
      BY <3>1, <3>2, <3>3 DEF q
  <2>. QED
    BY <1>1, <2>1, <2>2, <2>3 DEF p, t, x
<1>. HIDE DEF h, n
<1>5. h # <<>> /\ h[1].field \in {"---", "-"}
  <2>1. CASE n = 1
    BY <1>1, <1>3, <1>4, <2>1 DEF Shaped, n
  <2>2. CASE n > 1
    BY <1>1, <1>4, <2>2 DEF Shaped
  <2>. QED
    BY <1>1, <2>1, <2>2
<1>6. ASSUME NEW i \in 1 .. Len(h) - 1 PROVE Follows(h[i], h[i + 1])
  <2>1. CASE i < n - 1
    <3>1. h[i] = f[i] /\ h[i + 1] = f[i + 1] /\ i \in 1 .. Len(f) - 1
      BY <1>1, <1>4, <2>1 DEF n
    <3>. QED
      BY <3>1 DEF Shaped
  <2>2. CASE i = n - 1
    <3>1. h[i] = f[i] /\ h[i + 1] = x /\ i \in 1 .. Len(f) - 1 /\ f[i + 1] = f[n]
      BY <1>1, <1>4, <2>2 DEF n
    <3>2. Follows(f[i], f[n])
      BY <3>1 DEF Shaped
    <3>. QED
      BY <1>2, <3>1, <3>2, JoinedLine DEF x
  <2>3. CASE i = n
    <3>1. Len(g) >= 2 /\ h[i] = x /\ h[i + 1] = g[2]
      BY <1>1, <1>4, <2>3
    <3>2. g[2].field \in {"hostname", "bad"}
      BY <3>1 DEF Fragment
    <3>. QED
      BY <1>3, <3>1, <3>2 DEF Follows, Good, Values
  <2>4. CASE i > n
    <3>1. PICK j \in 2 .. Len(g) - 1 : i = n - 1 + j
      <4>1. i - n + 1 \in 2 .. Len(g) - 1 /\ i = n - 1 + (i - n + 1)
        BY <1>1, <1>4, <2>4
      <4>. QED
        BY <4>1
    <3>2. h[i] = g[j] /\ h[i + 1] = g[j + 1] /\ j \in 1 .. Len(g) - 1
      <4>1. j \in 2 .. Len(g) /\ j + 1 \in 2 .. Len(g) /\ i + 1 = n - 1 + (j + 1)
        BY <1>1, <3>1
      <4>. QED
        BY <1>1, <1>4, <3>1, <4>1
    <3>. QED
      BY <3>2 DEF Fragment, Shaped
  <2>. QED
    BY <1>1, <1>4, <2>1, <2>2, <2>3, <2>4
<1>. QED
  BY <1>4, <1>5, <1>6 DEF Shaped, h, n

\* The file after a write, whole or cut, behind whatever was cut before.
LEMMA AppendedShaped ==
    ASSUME Shaped(file), noNewline => file # <<>>, NEW g, Fragment(g)
    PROVE  Shaped(Appended(g)) /\ Appended(g) # <<>>
<1>1. Shaped(Appended(g))
  BY ShapedConcat, ShapedJoin DEF Appended, Fragment
<1>2. g \in Seq(Lines) /\ g # <<>> /\ file \in Seq(Lines)
  BY DEF Fragment, Shaped
<1>3. Appended(g) # <<>>
  <2>1. CASE noNewline
    <3>. DEFINE p == SubSeq(file, 1, Len(file) - 1)
    <3>. DEFINE x == Joined(file[Len(file)])
    <3>. DEFINE t == Tail(g)
    <3>1. file[Len(file)] \in Lines
      BY <1>2, <2>1
    <3>2. p \in Seq(Lines) /\ x \in Lines /\ t \in Seq(Lines)
      BY <1>2, <2>1, <3>1, JoinedLine
    <3>. HIDE DEF p, x, t
    <3>3. p \o <<x>> \o t # <<>>
      BY <3>2
    <3>. QED
      BY <1>2, <2>1, <3>3 DEF Appended, p, x, t
  <2>2. CASE ~noNewline
    BY <1>2, <2>2 DEF Appended
  <2>. QED
    BY <2>1, <2>2
<1>. QED
  BY <1>1, <1>3

fileVars == <<file, noNewline, written, cut>>

\* A record is written (yaml.c:61-133).
LEMMA WriteKeeps ==
    ASSUME FileInv, NEW w \in Writers, NEW key \in Keys, NEW raw \in BOOLEAN, Write(w, key, raw)
    PROVE  FileInv'
<1>. DEFINE R == Record(key, raw)
<1>1. /\ file' = Appended(R) /\ noNewline' = FALSE /\ cut' = cut
      /\ written' = Append(written, [key |-> key, raw |-> raw])
  BY DEF Write
<1>2. /\ R \in Seq(Lines) /\ Len(R) = 5
      /\ \A i \in 1 .. 5 : R[i] \in Parts(R[i])
  BY RecordLines
<1>3. Fragment(R)
  <2>. HIDE DEF R
  <2>1. 5 \in 1 .. 5 /\ R[5] \in Parts(R[5])
    BY <1>2
  <2>. QED
    BY <1>2, <2>1, PartFragment DEF R
<1>. HIDE DEF R
<1>4. Shaped(file') /\ file' # <<>>
  BY <1>1, <1>3, AppendedShaped DEF FileInv
<1>5. written \in Seq([key : Keys, raw : BOOLEAN]) /\ [key |-> key, raw |-> raw] \in [key : Keys, raw : BOOLEAN]
  BY DEF FileInv
<1>6. /\ written' \in Seq([key : Keys, raw : BOOLEAN]) /\ Len(written') = Len(written) + 1
      /\ \A i \in 1 .. Len(written) : written'[i] = written[i]
      /\ written'[Len(written) + 1] = [key |-> key, raw |-> raw]
  BY <1>1, <1>5, AppendProperties
<1>7. ASSUME cut = 0 PROVE Exact'
  <2>1. ~noNewline /\ Len(file) = 5 * Len(written) /\ Len(written) \in Nat
    BY <1>5, <1>7 DEF FileInv, Exact
  <2>2. file' = file \o R /\ file \in Seq(Lines)
    BY <1>1, <2>1 DEF Appended, FileInv, Shaped
  <2>3. /\ Len(file') = Len(file) + 5 /\ \A i \in 1 .. Len(file) : file'[i] = file[i]
        /\ \A j \in 1 .. 5 : file'[Len(file) + j] = R[j]
    <3>1. /\ Len(file \o R) = Len(file) + Len(R)
          /\ \A i \in 1 .. Len(file) + Len(R) :
                (file \o R)[i] = IF i <= Len(file) THEN file[i] ELSE R[i - Len(file)]
      BY ONLY <1>2, <2>2, ConcatProperties
    <3>2. Len(file) \in Nat
      BY <2>2
    <3>3. \A i \in 1 .. Len(file) : i \in 1 .. Len(file) + Len(R) /\ i <= Len(file)
      BY <1>2, <3>2
    <3>4. \A j \in 1 .. 5 : /\ Len(file) + j \in 1 .. Len(file) + Len(R) /\ ~(Len(file) + j <= Len(file))
                            /\ Len(file) + j - Len(file) = j
      BY <1>2, <3>2
    <3>. QED
      BY <1>2, <2>2, <3>1, <3>3, <3>4
  <2>4. ASSUME NEW i \in 1 .. Len(written'), NEW j \in 1 .. 5
        PROVE  file'[5 * (i - 1) + j] = Record(written'[i].key, written'[i].raw)[j]
    <3>1. CASE i <= Len(written)
      <4>1. i \in 1 .. Len(written) /\ 5 * (i - 1) + j \in 1 .. Len(file)
        BY <1>6, <2>1, <3>1
      <4>2. file[5 * (i - 1) + j] = Record(written[i].key, written[i].raw)[j]
        BY <1>7, <4>1 DEF FileInv, Exact
      <4>. QED
        BY <1>6, <2>3, <4>1, <4>2
    <3>2. CASE i = Len(written) + 1
      <4>1. 5 * (i - 1) + j = Len(file) + j
        BY <2>1, <3>2
      <4>2. written'[i].key = key /\ written'[i].raw = raw
        BY <1>6, <3>2
      <4>. QED
        BY <2>3, <4>1, <4>2 DEF R
    <3>. QED
      BY <1>6, <2>1, <3>1, <3>2
  <2>. QED
    BY <1>1, <1>6, <2>1, <2>3, <2>4, SMTT(30) DEF Exact
<1>8. Exact'
  BY <1>1, <1>7 DEF Exact
<1>. QED
  BY <1>1, <1>4, <1>6, <1>8 DEF FileInv

\* A write fails after a part of the record.
LEMMA WriteCutKeeps ==
    ASSUME FileInv, NEW w \in Writers, NEW key \in Keys, NEW raw \in BOOLEAN, WriteCut(w, key, raw)
    PROVE  FileInv'
<1>. DEFINE R == Record(key, raw)
<1>1. cut' = cut + 1 /\ written' = written
  BY DEF WriteCut
<1>2. /\ R \in Seq(Lines) /\ Len(R) = 5
      /\ \A i \in 1 .. 5 : R[i] \in Parts(R[i]) /\ Parts(R[i]) \subseteq Lines
  BY RecordLines
<1>3. ASSUME NEW n \in 1 .. 4 PROVE Fragment(SubSeq(R, 1, n))
  <2>. DEFINE g == SubSeq(R, 1, n)
  <2>. HIDE DEF R
  <2>1. 1 \in Int /\ n \in Int /\ (\A i \in 1 .. n : R[i] \in Lines) /\ n \in 1 .. 5
        /\ n - 1 + 1 = n /\ \A i \in 1 .. n : 1 + i - 1 = i
    BY <1>2
  <2>2. /\ g \in Seq(Lines) /\ Len(g) = IF 1 <= n THEN n - 1 + 1 ELSE 0
        /\ \A i \in 1 .. n - 1 + 1 : g[i] = R[1 + i - 1]
    BY ONLY <2>1, SubSeqProperties
  <2>. HIDE DEF g
  <2>3. /\ g \in Seq(Lines) /\ Len(g) = n /\ \A i \in 1 .. n : g[i] = R[i]
    BY <2>1, <2>2
  <2>4. g[n] \in Parts(R[n])
    BY <1>2, <2>1, <2>3
  <2>. QED
    <3>1. /\ n \in 1 .. 5 /\ g \in Seq(Lines) /\ Len(g) = n
          /\ (\A i \in 1 .. n - 1 : g[i] = Record(key, raw)[i]) /\ g[n] \in Parts(Record(key, raw)[n])
      BY <2>1, <2>3, <2>4 DEF R
    <3>2. Fragment(g)
      BY ONLY <3>1, PartFragment, key \in Keys, raw \in BOOLEAN
    <3>. QED
      BY <3>2 DEF g
<1>4. ASSUME NEW n \in 0 .. 4, NEW part \in Parts(R[n + 1])
      PROVE  Fragment(Append(SubSeq(R, 1, n), part))
  <2>. DEFINE p == SubSeq(R, 1, n)
  <2>. DEFINE g == Append(p, part)
  <2>. HIDE DEF R
  <2>1. 1 \in Int /\ n \in Int /\ (\A i \in 1 .. n : R[i] \in Lines) /\ n + 1 \in 1 .. 5
        /\ n - 1 + 1 = n /\ \A i \in 1 .. n : 1 + i - 1 = i
    BY <1>2
  <2>2. /\ p \in Seq(Lines) /\ Len(p) = IF 1 <= n THEN n - 1 + 1 ELSE 0
        /\ \A i \in 1 .. n - 1 + 1 : p[i] = R[1 + i - 1]
    BY ONLY <2>1, SubSeqProperties
  <2>. HIDE DEF p
  <2>3. /\ p \in Seq(Lines) /\ Len(p) = n /\ \A i \in 1 .. n : p[i] = R[i]
    BY <2>1, <2>2
  <2>4. part \in Lines
    BY <1>2, <1>4, <2>1
  <2>5. /\ g \in Seq(Lines) /\ Len(g) = n + 1 /\ g[n + 1] = part
        /\ \A i \in 1 .. n : g[i] = p[i]
    BY <2>3, <2>4
  <2>. HIDE DEF g
  <2>6. \A i \in 1 .. n + 1 - 1 : g[i] = R[i]
    BY <2>3, <2>5
  <2>. QED
    <3>1. /\ n + 1 \in 1 .. 5 /\ g \in Seq(Lines) /\ Len(g) = n + 1
          /\ (\A i \in 1 .. n + 1 - 1 : g[i] = Record(key, raw)[i])
          /\ g[n + 1] \in Parts(Record(key, raw)[n + 1])
      BY <1>4, <2>1, <2>5, <2>6 DEF R
    <3>2. PICK m : m = n + 1
      OBVIOUS
    <3>3. /\ m \in 1 .. 5 /\ g \in Seq(Lines) /\ Len(g) = m
          /\ (\A i \in 1 .. m - 1 : g[i] = Record(key, raw)[i]) /\ g[m] \in Parts(Record(key, raw)[m])
      BY ONLY <3>1, <3>2
    <3>4. Fragment(g)
      BY ONLY <3>3, PartFragment, key \in Keys, raw \in BOOLEAN
    <3>. QED
      BY <3>4 DEF g, p
<1>5. \/ UNCHANGED <<file, noNewline>>
      \/ \E g : Fragment(g) /\ file' = Appended(g)
  <2>1. PICK n \in 0 .. Len(R) - 1 :
             \/ n > 0 /\ file' = Appended(SubSeq(R, 1, n)) /\ noNewline' = FALSE
             \/ \E part \in Parts(R[n + 1]) :
                    /\ file' = Appended(Append(SubSeq(R, 1, n), part))
                    /\ noNewline' = TRUE
             \/ n = 0 /\ UNCHANGED <<file, noNewline>>
    BY DEF WriteCut
  <2>. HIDE DEF R
  <2>2. n \in 0 .. 4 /\ (n > 0 => n \in 1 .. 4)
    BY <1>2
  <2>. QED
    BY <1>3, <1>4, <2>1, <2>2
<1>6. cut' # 0 /\ cut' \in Nat
  BY <1>1 DEF FileInv
<1>7. CASE UNCHANGED <<file, noNewline>>
  BY <1>1, <1>6, <1>7 DEF FileInv, Exact
<1>8. ASSUME NEW g, Fragment(g), file' = Appended(g) PROVE FileInv'
  <2>1. Shaped(file') /\ file' # <<>>
    BY <1>8, AppendedShaped DEF FileInv
  <2>. QED
    BY <1>1, <1>6, <2>1 DEF FileInv, Exact
<1>. QED
  BY <1>5, <1>7, <1>8

\* No step of the program makes a file of another shape.
LEMMA FileStep ==
    ASSUME FileInv, Stages, [Next]_vars
    PROVE  FileInv'
<1>1. UNCHANGED fileVars => FileInv'
  BY DEF fileVars, FileInv, Exact
<1>2. ASSUME NEW line \in CommandLines, Run(line) PROVE FileInv'
  <2>1. UNCHANGED fileVars \/ (file' = <<>> /\ noNewline' = FALSE /\ written' = <<>> /\ cut' = 0)
    BY <1>2 DEF Run, OpenOutput, fileVars
  <2>2. CASE file' = <<>> /\ noNewline' = FALSE /\ written' = <<>> /\ cut' = 0
    <3>1. Shaped(file')
      BY <2>2 DEF Shaped
    <3>2. Exact'
      BY <2>2 DEF Exact
    <3>. QED
      BY <2>2, <3>1, <3>2 DEF FileInv
  <2>. QED
    BY <1>1, <2>1, <2>2
<1>3. ASSUME NEW w \in Writers, Writer(w) PROVE FileInv'
  <2>1. c.yamlraw \in BOOLEAN
    BY DEF Stages
  <2>2. Begin(w) \/ Gmtime(w) \/ Strftime(w) => UNCHANGED fileVars
    BY DEF Begin, Gmtime, Strftime, fileVars
  <2>. QED
    BY <1>1, <1>3, <2>1, <2>2, WriteKeeps, WriteCutKeeps DEF Writer
<1>4. Report \/ EndSearch \/ Extract \/ EndExtract \/ EndOther \/ UNCHANGED vars => UNCHANGED fileVars
  BY DEF Report, EndSearch, Extract, ReadLine, Create, CreateFails, EndOfInput, ReadError, EndExtract, EndOther,
         vars, yamlVars, outVars, fileVars
<1>. QED
  BY <1>1, <1>2, <1>3, <1>4 DEF Next

-----------------------------------------------------------------------------
(* The reader of -Y *)

\* What the flags stand for was read since the last separator.
Active == rpc \in {"read", "create"}
Seen ==
    /\ flags \subseteq Values /\ skipthis \in BOOLEAN /\ failed \in BOOLEAN
    /\ Active =>
        /\ "hostname" \in flags => /\ LineOf("hostname", name) \in seen
                                   /\ OneHostname \in {NoKey, name}
        /\ "public" \in flags => LineOf("public", <<pub, c.yamlraw>>) \in seen
        /\ "secret" \in flags => LineOf("secret", <<sec, c.yamlraw>>) \in seen
    /\ rpc = "create" => flags = Values

\* The lines of the file that were read, when it is not made by hand.
Pos == Len(file) - Len(unread)
FromFile == rpc # "off" /\ unread # Hand
Place ==
    FromFile =>
        /\ unread \in Seq(Lines) /\ Pos \in Nat
        /\ \A i \in 1 .. Len(unread) : unread[i] = file[Pos + i]

\* The reader is where it would be in a whole record.
Midst ==
    /\ FromFile /\ rpc = "read" /\ ~skipthis =>
         \/ flags = {} /\ (Pos = 0 \/ file[Pos].field = "---")
         \/ flags = {"hostname"} /\ Pos > 0 /\ Good(file[Pos]) /\ file[Pos] = LineOf("hostname", name)
         \/ /\ flags = {"hostname", "public"} /\ Pos > 0 /\ Good(file[Pos])
            /\ file[Pos] = LineOf("public", <<pub, c.yamlraw>>) /\ name = pub
    /\ FromFile /\ rpc = "create" =>
         Pos > 0 /\ file[Pos] = LineOf("secret", <<sec, c.yamlraw>>) /\ name = pub /\ pub = sec
    /\ \A m \in made : m[1] = m[2] /\ m[2] = m[3]

ReadInv == Seen /\ Place /\ Midst

\* What ReadLine makes of a line.
Read(line) ==
    \/ Separator(line)
    \/ /\ line.field # "---" /\ skipthis
       /\ UNCHANGED <<rpc, flags, skipthis, name, pub, sec, ret, seen>>
    \/ /\ ~skipthis
       /\ seen' = IF line.value \in {NoKey, Malformed} THEN seen ELSE seen \cup {line}
       /\ \/ Hostname(line, OneHostname)
          \/ Half(line, c.yamlraw)
          \/ /\ line.field \in {"bad", "-"} /\ Return(1)
             /\ UNCHANGED <<flags, skipthis, name, pub, sec>>
          \/ /\ line.field \in {"time", "other"}
             /\ UNCHANGED <<rpc, flags, skipthis, name, pub, sec, ret>>

\* A line that is read stands in the file, or is one of those made by hand.
LEMMA NextLines ==
    ASSUME FileInv, Stages, Place, ReadLine(c.yamlraw, OneHostname), UNCHANGED progVars
    PROVE  \E line \in Lines \cup ByHand(c.yamlraw) :
              /\ Read(line)
              /\ Place'
              /\ FromFile' => /\ FromFile /\ line \in Lines /\ Pos + 1 \in 1 .. Len(file)
                              /\ line = file[Pos + 1] /\ Pos' = Pos + 1 /\ file' = file
                              /\ Pos \in Nat /\ (Pos = 0 => line.field \in {"---", "-"})
                              /\ Pos > 0 => file[Pos] \in Lines /\ Follows(file[Pos], line)
<1>1. PICK line \in ByHand(c.yamlraw) \cup (IF unread \in {Hand, <<>>} THEN {} ELSE {Head(unread)}) :
          NextLine(line, c.yamlraw) /\ Read(line)
  BY DEF ReadLine, Read
<1>2. file' = file /\ rpc = "read"
  BY DEF ReadLine, outVars
<1>3. CASE unread = Hand
  <2>1. line \in ByHand(c.yamlraw) /\ unread' = unread
    BY <1>1, <1>3 DEF NextLine
  <2>2. ~FromFile'
    BY <1>3, <2>1 DEF FromFile
  <2>. QED
    BY <1>1, <2>1, <2>2 DEF Place
<1>4. CASE unread # Hand
  <2>1. unread # <<>> /\ line = Head(unread) /\ unread' = Tail(unread)
    BY <1>1, <1>4 DEF NextLine
  <2>2. /\ unread \in Seq(Lines) /\ Pos \in Nat
        /\ \A i \in 1 .. Len(unread) : unread[i] = file[Pos + i]
    BY <1>2, <1>4 DEF Place, FromFile
  <2>3. file \in Seq(Lines)
    BY DEF FileInv, Shaped
  <2>4. Len(unread) \in Nat \ {0} /\ Len(file) \in Nat /\ Pos = Len(file) - Len(unread)
    BY <2>1, <2>2, <2>3 DEF Pos
  <2>5. /\ line \in Lines /\ line = unread[1] /\ unread' \in Seq(Lines) /\ Len(unread') = Len(unread) - 1
        /\ \A i \in 1 .. Len(unread') : unread'[i] = unread[i + 1]
    BY <2>1, <2>2
  <2>6. Pos' = Pos + 1
    BY <1>2, <2>4, <2>5 DEF Pos
  <2>. HIDE DEF Pos
  <2>7. Pos + 1 \in 1 .. Len(file) /\ line = file[Pos + 1]
    BY <2>2, <2>4, <2>5
  <2>8. ASSUME NEW i \in 1 .. Len(unread') PROVE unread'[i] = file'[Pos' + i]
    <3>1. i + 1 \in 1 .. Len(unread) /\ Pos + (i + 1) = Pos' + i
      BY <2>2, <2>4, <2>5, <2>6
    <3>. QED
      BY <1>2, <2>2, <2>5, <3>1
  <2>9. Place'
    BY <2>2, <2>5, <2>6, <2>8 DEF Place
  <2>10. Pos = 0 => line.field \in {"---", "-"}
    BY <2>2, <2>4, <2>7 DEF FileInv, Shaped
  <2>11. Pos > 0 => file[Pos] \in Lines /\ Follows(file[Pos], line)
    <3>1. Pos > 0 => Pos \in 1 .. Len(file) - 1 /\ Pos \in 1 .. Len(file)
      BY <2>2, <2>4, <2>7
    <3>. QED
      BY <2>3, <2>7, <3>1 DEF FileInv, Shaped
  <2>. QED
    BY <1>1, <1>2, <1>4, <2>2, <2>5, <2>6, <2>7, <2>9, <2>10, <2>11 DEF FromFile
<1>. QED
  BY <1>3, <1>4

\* The lines that are read carry what their fields say.
LEMMA LineValues ==
    ASSUME Stages, NEW line \in Lines \cup ByHand(c.yamlraw)
    PROVE  /\ line.field = "hostname" =>
                 line.value \in Keys \cup {Malformed} /\ line = LineOf("hostname", line.value)
           /\ line.field \in {"public", "secret"} /\ line.value # Malformed =>
                 /\ line.value \in Keys \X BOOLEAN /\ line.value = <<line.value[1], line.value[2]>>
                 /\ line = LineOf(line.field, line.value) /\ line.value # NoKey
           /\ line.field = "hostname" /\ line.value # Malformed => line.value # NoKey
<1>1. c.yamlraw \in BOOLEAN
  BY DEF Stages
<1>2. CASE line \in Lines
  BY <1>2, YamlAssumption DEF Lines, LineOf
<1>3. CASE line \in ByHand(c.yamlraw)
  BY <1>1, <1>3, YamlAssumption DEF ByHand, LineOf
<1>. QED
  BY <1>2, <1>3

\* A value the reader holds was read since the last separator.
LEMMA ReadSeen ==
    ASSUME Stages, Seen, rpc = "read", UNCHANGED progVars,
           NEW line \in Lines \cup ByHand(c.yamlraw), Read(line), failed' = failed
    PROVE  Seen'
<1>0. c' = c /\ OneHostname' = OneHostname
  BY DEF progVars, OneHostname
<1>1. CASE Separator(line)
  BY <1>0, <1>1 DEF Separator, Return, Reset, SkipEnds, Seen, Active
<1>2. CASE UNCHANGED <<rpc, flags, skipthis, name, pub, sec, ret, seen>>
  BY <1>0, <1>2 DEF Seen, Active
<1>3. CASE seen' = IF line.value \in {NoKey, Malformed} THEN seen ELSE seen \cup {line}
  <2>1. seen \subseteq seen'
    BY <1>3
  <2>2. ASSUME Hostname(line, OneHostname) PROVE Seen'
    <3>1. CASE line.value = Malformed
      BY <1>0, <2>2, <3>1 DEF Hostname, Return, Seen, Active
    <3>2. CASE line.value # Malformed /\ OneHostname \in {NoKey, line.value}
      <4>1. line = LineOf("hostname", line.value) /\ line \in seen'
        BY <1>3, <2>2, <3>2, LineValues DEF Hostname
      <4>2. /\ flags' = flags \cup {"hostname"} /\ name' = line.value /\ UNCHANGED <<pub, sec, skipthis>>
            /\ rpc' = IF flags' = Values THEN "create" ELSE rpc
        BY <2>2, <3>2 DEF Hostname, Got, Values
      <4>3. /\ flags' \subseteq Values /\ (rpc' = "create" => flags' = Values)
        BY <4>2 DEF Seen, Values
      <4>4. LineOf("hostname", name') \in seen'
        BY <4>1, <4>2
      <4>5. \A x \in {"public", "secret"} : x \in flags' => x \in flags
        BY <4>2
      <4>. QED
        BY <1>0, <2>1, <3>2, <4>2, <4>3, <4>4, <4>5 DEF Seen, Active
    <3>3. CASE line.value # Malformed /\ OneHostname \notin {NoKey, line.value}
      <4>1. UNCHANGED <<rpc, flags, name, pub, sec>> /\ skipthis' = TRUE
        BY <2>2, <3>3 DEF Hostname
      <4>. QED
        BY <1>0, <2>1, <4>1 DEF Seen, Active
    <3>. QED
      BY <3>1, <3>2, <3>3
  <2>3. ASSUME Half(line, c.yamlraw) PROVE Seen'
    <3>1. CASE line.value = Malformed \/ (line.value # Malformed /\ line.value[2] # c.yamlraw)
      BY <1>0, <2>3, <3>1 DEF Half, Return, Seen, Active
    <3>2. CASE line.value # Malformed /\ line.value[2] = c.yamlraw
      <4>1. /\ line = LineOf(line.field, <<line.value[1], c.yamlraw>>) /\ line \in seen'
            /\ line.field \in {"public", "secret"}
        BY <1>3, <2>3, <3>2, LineValues DEF Half
      <4>2. /\ flags' = flags \cup {line.field} /\ UNCHANGED <<name, skipthis>>
            /\ pub' = IF line.field = "public" THEN line.value[1] ELSE pub
            /\ sec' = IF line.field = "secret" THEN line.value[1] ELSE sec
            /\ rpc' = IF flags' = Values THEN "create" ELSE rpc
        BY <2>3, <3>2 DEF Half, Got, Values
      <4>3. flags' \subseteq Values /\ (rpc' = "create" => flags' = Values)
        BY <4>1, <4>2 DEF Seen, Values
      <4>4. "public" \in flags' => LineOf("public", <<pub', c.yamlraw>>) \in seen'
        BY <2>1, <4>1, <4>2 DEF Seen, Active
      <4>5. "secret" \in flags' => LineOf("secret", <<sec', c.yamlraw>>) \in seen'
        BY <2>1, <4>1, <4>2 DEF Seen, Active
      <4>6. "hostname" \in flags' => "hostname" \in flags
        BY <4>1, <4>2
      <4>. QED
        BY <1>0, <2>1, <4>2, <4>3, <4>4, <4>5, <4>6 DEF Seen, Active
    <3>. QED
      BY <3>1, <3>2
  <2>4. ASSUME Return(1), UNCHANGED <<flags, skipthis, name, pub, sec>> PROVE Seen'
    BY <1>0, <2>4 DEF Return, Seen, Active
  <2>5. ASSUME UNCHANGED <<rpc, flags, skipthis, name, pub, sec, ret>> PROVE Seen'
    BY <1>0, <2>1, <2>5 DEF Seen, Active
  <2>. QED
    BY <1>2, <1>1, <2>2, <2>3, <2>4, <2>5 DEF Read
<1>. QED
  BY <1>1, <1>2, <1>3 DEF Read

\* Where the reader is in a file, and what it has, go together.
LEMMA ReadMidst ==
    ASSUME Stages, Seen, Midst, rpc = "read", UNCHANGED progVars, made' = made,
           NEW line \in Lines \cup ByHand(c.yamlraw), Read(line),
           FromFile' => /\ FromFile /\ line \in Lines /\ Pos + 1 \in 1 .. Len(file)
                        /\ line = file[Pos + 1] /\ Pos' = Pos + 1 /\ file' = file
                        /\ Pos \in Nat /\ (Pos = 0 => line.field \in {"---", "-"})
                        /\ Pos > 0 => file[Pos] \in Lines /\ Follows(file[Pos], line)
    PROVE  Midst'
<1>0. c' = c /\ OneHostname' = OneHostname
  BY DEF progVars, OneHostname
<1>1. ASSUME ~FromFile' PROVE Midst'
  BY <1>1 DEF Midst
<1>. SUFFICES ASSUME FromFile' PROVE Midst'
  BY <1>1
<1>2. /\ Pos \in Nat /\ Pos' > 0 /\ file'[Pos'] = line /\ FromFile
      /\ Pos = 0 => line.field \in {"---", "-"}
      /\ Pos > 0 => Follows(file[Pos], line)
  OBVIOUS
<1>. HIDE DEF Pos, FromFile
<1>3. CASE Separator(line)
  <2>1. line.field = "---"
    BY <1>3 DEF Separator
  <2>2. rpc' = "ended" \/ (rpc' = "read" /\ flags' = {})
    BY <1>3 DEF Separator, Return, Reset
  <2>. QED
    BY <1>2, <2>1, <2>2 DEF Midst
<1>4. CASE skipthis /\ UNCHANGED <<rpc, flags, skipthis, name, pub, sec, ret, seen>>
  BY <1>4 DEF Midst
<1>5. CASE ~skipthis
  <2>1. \/ flags = {} /\ (Pos = 0 \/ file[Pos].field = "---")
        \/ flags = {"hostname"} /\ Pos > 0 /\ Good(file[Pos]) /\ file[Pos] = LineOf("hostname", name)
        \/ /\ flags = {"hostname", "public"} /\ Pos > 0 /\ Good(file[Pos])
           /\ file[Pos] = LineOf("public", <<pub, c.yamlraw>>) /\ name = pub
    BY <1>2, <1>5 DEF Midst
  <2>2. \A x, y : LineOf(x, y).field = x /\ LineOf(x, y).value = y
    BY DEF LineOf
  <2>3. ASSUME rpc' = "ended" PROVE Midst'
    BY <2>3 DEF Midst
  <2>4. ASSUME Hostname(line, OneHostname), rpc' # "ended" PROVE Midst'
    <3>1. line.value # Malformed /\ line.field = "hostname"
      BY <2>4 DEF Hostname, Return
    <3>2. CASE OneHostname \in {NoKey, line.value}
      <4>1. /\ flags' = flags \cup {"hostname"} /\ name' = line.value
            /\ rpc' = IF flags' = Values THEN "create" ELSE rpc
        BY <2>4, <3>1, <3>2 DEF Hostname, Got, Values
      <4>2. Good(line) /\ line = LineOf("hostname", line.value)
        BY <3>1, LineValues DEF Good, Values
      <4>3. ~(Pos > 0 /\ Good(file[Pos]))
        BY <1>2, <3>1, <4>2 DEF Follows
      <4>4. flags = {}
        BY <2>1, <4>3
      <4>5. flags' = {"hostname"} /\ rpc' = "read"
        BY <4>1, <4>4 DEF Values
      <4>. QED
        BY <1>2, <4>1, <4>2, <4>5 DEF Midst
    <3>3. CASE OneHostname \notin {NoKey, line.value}
      BY <2>4, <3>1, <3>3 DEF Hostname, Midst
    <3>. QED
      BY <3>2, <3>3
  <2>5. ASSUME Half(line, c.yamlraw), rpc' # "ended" PROVE Midst'
    <3>1. /\ line.value # Malformed /\ line.value[2] = c.yamlraw /\ line.field \in {"public", "secret"}
          /\ flags' = flags \cup {line.field} /\ name' = name
          /\ pub' = IF line.field = "public" THEN line.value[1] ELSE pub
          /\ sec' = IF line.field = "secret" THEN line.value[1] ELSE sec
          /\ rpc' = IF flags' = Values THEN "create" ELSE rpc
      BY <2>5 DEF Half, Return, Got, Values
    <3>2. Good(line) /\ line = LineOf(line.field, <<line.value[1], c.yamlraw>>)
      BY <3>1, LineValues DEF Good, Values
    <3>3. Pos > 0 /\ Follows(file[Pos], line)
      BY <1>2, <3>1
    <3>4. CASE line.field = "public"
      <4>1. file[Pos] = LineOf("hostname", line.value[1])
        BY <3>2, <3>3, <3>4 DEF Follows
      <4>2. flags = {"hostname"} /\ name = line.value[1]
        BY <2>1, <2>2, <3>3, <4>1
      <4>3. flags' = {"hostname", "public"} /\ rpc' = "read" /\ pub' = line.value[1] /\ name' = pub'
        BY <3>1, <3>4, <4>2 DEF Values
      <4>. QED
        BY <1>0, <1>2, <3>2, <3>4, <4>3 DEF Midst
    <3>5. CASE line.field = "secret"
      <4>1. file[Pos] = LineOf("public", line.value)
        BY <3>2, <3>3, <3>5 DEF Follows
      <4>2. flags = {"hostname", "public"} /\ line.value = <<pub, c.yamlraw>> /\ name = pub
        BY <2>1, <2>2, <3>3, <4>1
      <4>3. rpc' = "create" /\ sec' = pub /\ pub' = pub /\ name' = pub'
        BY <3>1, <3>5, <4>2 DEF Values
      <4>4. line = LineOf("secret", <<sec', c.yamlraw>>)
        BY <3>2, <3>5, <4>2, <4>3
      <4>. QED
        BY <1>0, <1>2, <4>3, <4>4 DEF Midst
    <3>. QED
      BY <3>1, <3>4, <3>5
  <2>6. line.field # "time"
    <3>0. \A b, x : Follows(b, x) /\ x.field = "time" => Good(b) /\ b.field = "secret"
      BY DEF Follows
    <3>1. line.field = "time" => Pos > 0 /\ Good(file[Pos]) /\ file[Pos].field = "secret"
      BY <1>2, <3>0
    <3>. QED
      BY <2>1, <2>2, <3>1
  <2>7. line.field # "other"
    BY DEF Lines
  <2>. QED
    BY <1>3, <1>5, <2>3, <2>4, <2>5, <2>6, <2>7 DEF Read, Return
<1>. QED
  BY <1>3, <1>4, <1>5 DEF Read

\* No step of the program lets the reader mix records.
LEMMA ReadStep ==
    ASSUME FileInv, FileInv', Stages, Stages', ReadInv, [Next]_vars
    PROVE  ReadInv'
<1>. USE DEF ReadInv
<1>1. ASSUME UNCHANGED <<inVars, c, file>> PROVE ReadInv'
  <2>1. OneHostname' = OneHostname
    BY <1>1 DEF OneHostname
  <2>. QED
    BY <1>1, <2>1 DEF inVars, Seen, Active, Place, Pos, FromFile, Midst
<1>2. ASSUME rpc' = "off", flags' = {}, skipthis' = FALSE, failed' \in BOOLEAN, made' = {} PROVE ReadInv'
  BY <1>2 DEF Seen, Active, Place, FromFile, Midst
<1>3. ASSUME rpc = "off", UNCHANGED inVars PROVE ReadInv'
  <2>1. rpc' = "off" /\ UNCHANGED <<flags, skipthis, failed, made>>
    BY <1>3 DEF inVars
  <2>. QED
    BY <1>3, <2>1 DEF Seen, Active, Place, FromFile, Midst
<1>4. ASSUME NEW line \in CommandLines, Run(line) PROVE ReadInv'
  <2>1. rpc = "off"
    BY <1>4 DEF Run, Stages
  <2>2. UNCHANGED inVars \/ \E d : StartReader(d)
    BY <1>4 DEF Run, StartSearch
  <2>3. ASSUME NEW d, StartReader(d) PROVE ReadInv'
    <3>1. /\ rpc' = "read" /\ flags' = {} /\ skipthis' = FALSE /\ made' = {} /\ failed' = FALSE
          /\ unread' = file' \/ unread' = Hand
      BY <2>3 DEF StartReader
    <3>2. Seen'
      BY <3>1 DEF Seen, Active
    <3>3. file' \in Seq(Lines) /\ Len(file') \in Nat
      BY DEF FileInv, Shaped
    <3>4. unread' = file' => Pos' = 0
      BY <3>3 DEF Pos
    <3>5. Place'
      BY <3>1, <3>3, <3>4 DEF Place, FromFile
    <3>6. Midst'
      BY <3>1, <3>4 DEF Midst, FromFile
    <3>. QED
      BY <3>2, <3>5, <3>6
  <2>. QED
    BY <1>3, <2>1, <2>2, <2>3
<1>5. ASSUME Extract PROVE ReadInv'
  <2>1. UNCHANGED progVars /\ c' = c /\ OneHostname' = OneHostname
    BY <1>5 DEF Extract, progVars, OneHostname
  <2>2. CASE ReadLine(c.yamlraw, OneHostname)
    <3>1. PICK line \in Lines \cup ByHand(c.yamlraw) :
              /\ Read(line)
              /\ Place'
              /\ FromFile' => /\ FromFile /\ line \in Lines /\ Pos + 1 \in 1 .. Len(file)
                              /\ line = file[Pos + 1] /\ Pos' = Pos + 1 /\ file' = file
                              /\ Pos \in Nat /\ (Pos = 0 => line.field \in {"---", "-"})
                              /\ Pos > 0 => file[Pos] \in Lines /\ Follows(file[Pos], line)
      BY <2>1, <2>2, NextLines
    <3>2. rpc = "read" /\ failed' = failed /\ made' = made
      BY <2>2 DEF ReadLine
    <3>3. Seen'
      BY <2>1, <3>1, <3>2, ReadSeen
    <3>4. Midst'
      BY <2>1, <3>1, <3>2, ReadMidst
    <3>. QED
      BY <3>1, <3>3, <3>4
  <2>3. CASE Create(OneHostname)
    <3>1. /\ UNCHANGED <<file, unread, flags, name, pub, sec, seen>> /\ rpc = "create"
          /\ made' = made \/ (unread # Hand /\ made' = made \cup {<<name, pub, sec>>}) \/ made' = {}
          /\ failed' \in BOOLEAN /\ skipthis' \in BOOLEAN
          /\ rpc' = "ended" \/ (rpc' = "read" /\ skipthis' = TRUE)
      BY <2>3 DEF Create, Return, outVars, Seen
    <3>2. Seen'
      BY <2>1, <3>1 DEF Seen, Active
    <3>3. Pos' = Pos
      BY <3>1 DEF Pos
    <3>4. Place'
      BY <3>1, <3>3 DEF Place, FromFile
    <3>5. unread # Hand => name = pub /\ pub = sec
      BY <3>1 DEF Midst, FromFile
    <3>6. \A m \in made' : m[1] = m[2] /\ m[2] = m[3]
      <4>1. \A m \in made : m[1] = m[2] /\ m[2] = m[3]
        BY DEF Midst
      <4>2. <<name, pub, sec>>[1] = name /\ <<name, pub, sec>>[2] = pub /\ <<name, pub, sec>>[3] = sec
        OBVIOUS
      <4>. QED
        BY <3>1, <3>5, <4>1, <4>2
    <3>7. Midst'
      BY <3>1, <3>6 DEF Midst
    <3>. QED
      BY <3>2, <3>4, <3>7
  <2>4. CASE CreateFails \/ EndOfInput(OneHostname) \/ ReadError
    <3>1. /\ UNCHANGED <<file, unread, flags, skipthis, made>> /\ rpc' = "ended" /\ failed' \in BOOLEAN
          /\ rpc # "off"
      BY <2>4 DEF CreateFails, EndOfInput, ReadError, Return, outVars, Seen
    <3>2. Pos' = Pos
      BY <3>1 DEF Pos
    <3>. QED
      BY <3>1, <3>2 DEF Seen, Active, Place, FromFile, Midst
  <2>. QED
    BY <1>5, <2>2, <2>3, <2>4 DEF Extract
<1>6. ASSUME NEW w \in Writers, Writer(w) PROVE ReadInv'
  <2>1. rpc = "off"
    BY <1>6 DEF Writer, Searching, Stages
  <2>2. UNCHANGED inVars
    BY <1>6 DEF Writer, Begin, Gmtime, Strftime, Write, WriteCut, Done
  <2>. QED
    BY <1>3, <2>1, <2>2
<1>7. CASE EndExtract
  BY <1>2, <1>7 DEF EndExtract
<1>8. CASE EndSearch
  BY <1>3, <1>8 DEF EndSearch, Stages
<1>9. CASE EndOther
  BY <1>3, <1>9 DEF EndOther, Stages, yamlVars
<1>10. CASE Report \/ UNCHANGED vars
  BY <1>1, <1>10 DEF Report, vars, progVars, yamlVars, outVars
<1>. QED
  BY <1>4, <1>5, <1>6, <1>7, <1>8, <1>9, <1>10 DEF Next

\* Before the program starts.
LEMMA WholeInit == Init => FileInv /\ Stages /\ ReadInv
<1>. SUFFICES ASSUME Init PROVE FileInv /\ Stages /\ ReadInv
  OBVIOUS
<1>1. /\ file = <<>> /\ noNewline = FALSE /\ written = <<>> /\ cut = 0 /\ rpc = "off" /\ flags = {}
      /\ skipthis = FALSE /\ made = {} /\ failed = FALSE /\ c = Defaults /\ stage = "shell"
  BY DEF Init, YamlInit
<1>2. FileInv
  <2>1. Shaped(file)
    BY <1>1 DEF Shaped
  <2>2. Exact
    BY <1>1 DEF Exact
  <2>. QED
    BY <1>1, <2>1, <2>2 DEF FileInv
<1>3. Stages
  BY <1>1, DefaultsConfigured, SMT DEF Stages, Configured
<1>4. ReadInv
  BY <1>1 DEF ReadInv, Seen, Active, Place, FromFile, Midst
<1>. QED
  BY <1>2, <1>3, <1>4

\* A key made from a file is of one record: host name, public and secret
\* key agree, though a write may have failed within it, and what followed was
\* joined to its last line (yaml.c:136-288).
THEOREM ProgramRecordsWhole == Spec => []RecordsWhole
<1>. DEFINE Inv == FileInv /\ Stages /\ ReadInv
<1>1. Inv /\ [Next]_vars => Inv'
  BY FileStep, StagesStep, ReadStep
<1>2. Inv => RecordsWhole
  <2>. SUFFICES ASSUME Inv PROVE RecordsWhole
    OBVIOUS
  <2>1. c.yamlraw \in BOOLEAN
    BY DEF Stages
  <2>2. rpc = "create" => /\ LineOf("hostname", name) \in seen
                          /\ LineOf("public", <<pub, c.yamlraw>>) \in seen
                          /\ LineOf("secret", <<sec, c.yamlraw>>) \in seen
    BY DEF ReadInv, Seen, Active, Values
  <2>. QED
    BY <2>1, <2>2 DEF RecordsWhole, ReadInv, Midst
<1>. QED
  BY <1>1, <1>2, WholeInit, PTL DEF Spec

-----------------------------------------------------------------------------
(* What is extracted *)

\* Records whose three values are behind the reader.
Passed == {written[i].key : i \in {n \in DOMAIN written : 5 * n - 1 <= Pos}}
Hosts == {m[1] : m \in made}
Whole5 == FromFile /\ cut = 0 /\ ~failed /\ OneForm(c.yamlraw)
Progress ==
    Whole5 =>
        /\ rpc = "read" =>
             /\ IF OneHostname = NoKey THEN Hosts = Passed ELSE Hosts = {} /\ OneHostname \notin Passed
             /\ skipthis =>
                  /\ Pos > 0 /\ Pos % 5 # 1
                  /\ Pos % 5 \in {2, 3} =>
                        OneHostname # NoKey /\ written[Pos \div 5 + 1].key # OneHostname
        /\ rpc = "create" =>
             IF OneHostname = NoKey THEN Hosts \cup {name} = Passed ELSE Hosts = {}
        /\ ExtractedAll(c.yamlraw, OneHostname)

\* A line of a file without cuts is one of a record.
LEMMA RecordAt ==
    ASSUME FileInv, Whole5, NEW p \in 1 .. Len(file)
    PROVE  \E i \in 1 .. Len(written) : \E j \in 1 .. 5 :
              /\ p = 5 * (i - 1) + j /\ written[i].key \in Keys
              /\ file[p] = Record(written[i].key, c.yamlraw)[j]
<1>1. /\ Len(file) = 5 * Len(written) /\ Len(written) \in Nat
      /\ \A i \in 1 .. Len(written) : \A j \in 1 .. 5 :
              file[5 * (i - 1) + j] = Record(written[i].key, written[i].raw)[j]
      /\ \A i \in 1 .. Len(written) : written[i].key \in Keys /\ written[i].raw = c.yamlraw
  <2>1. /\ Len(file) = 5 * Len(written)
        /\ \A i \in 1 .. Len(written) : \A j \in 1 .. 5 :
              file[5 * (i - 1) + j] = Record(written[i].key, written[i].raw)[j]
    BY DEF FileInv, Exact, Whole5
  <2>2. written \in Seq([key : Keys, raw : BOOLEAN]) /\ \A i \in DOMAIN written : written[i].raw = c.yamlraw
    BY DEF FileInv, Whole5, OneForm
  <2>3. /\ Len(written) \in Nat /\ DOMAIN written = 1 .. Len(written)
        /\ \A i \in 1 .. Len(written) : written[i] \in [key : Keys, raw : BOOLEAN]
    <3>. DEFINE S == [key : Keys, raw : BOOLEAN]
    <3>1. written \in Seq(S)
      BY <2>2
    <3>. HIDE DEF S
    <3>2. /\ Len(written) \in Nat /\ DOMAIN written = 1 .. Len(written)
          /\ \A i \in 1 .. Len(written) : written[i] \in S
      BY ONLY <3>1
    <3>. QED
      BY ONLY <3>2 DEF S
  <2>4. \A i \in 1 .. Len(written) : written[i].key \in Keys
    BY <2>3
  <2>. QED
    BY <2>1, <2>2, <2>3, <2>4
<1>. DEFINE i == (p - 1) \div 5 + 1
<1>. DEFINE j == ((p - 1) % 5) + 1
<1>2. i \in Int /\ j \in 1 .. 5 /\ p = 5 * (i - 1) + j
  OBVIOUS
<1>3. i \in 1 .. Len(written)
  <2>. HIDE DEF i, j
  <2>. QED
    BY <1>1, <1>2
<1>. HIDE DEF i, j
<1>. QED
  BY <1>1, <1>2, <1>3

Fields == <<"---", "hostname", "public", "secret", "time">>

\* The fields of a record.
LEMMA RecordFields ==
    \A key, raw : \A k \in 1 .. 5 : Record(key, raw)[k].field = Fields[k]
<1>. SUFFICES ASSUME NEW key, NEW raw, NEW k \in 1 .. 5
              PROVE  Record(key, raw)[k].field = Fields[k]
  OBVIOUS
<1>1. /\ Record(key, raw)[1].field = "---" /\ Record(key, raw)[2].field = "hostname"
      /\ Record(key, raw)[3].field = "public" /\ Record(key, raw)[4].field = "secret"
      /\ Record(key, raw)[5].field = "time"
  BY DEF Record, LineOf
<1>2. /\ Fields[1] = "---" /\ Fields[2] = "hostname" /\ Fields[3] = "public" /\ Fields[4] = "secret"
      /\ Fields[5] = "time"
  BY DEF Fields
<1>3. k = 1 \/ k = 2 \/ k = 3 \/ k = 4 \/ k = 5
  OBVIOUS
<1>. QED
  BY ONLY <1>1, <1>2, <1>3

\* Where line p + 1 stands in its record.
LEMMA Fives ==
    ASSUME NEW i \in Int, NEW j \in 1 .. 5, NEW p \in Nat, p + 1 = 5 * (i - 1) + j
    PROVE  /\ p % 5 = j - 1 /\ p \div 5 + 1 = i
           /\ (p + 1) % 5 = IF j = 5 THEN 0 ELSE j
           /\ j # 5 => (p + 1) \div 5 + 1 = i
  OBVIOUS

\* The fourth line of a record is what lets its key be passed.
LEMMA PassedNext ==
    ASSUME FileInv, Whole5, Pos \in Nat, NEW i \in 1 .. Len(written), NEW j \in 1 .. 5,
           Pos' = 5 * (i - 1) + j, Pos' = Pos + 1, written' = written
    PROVE  Passed' = IF j = 4 THEN Passed \cup {written[i].key} ELSE Passed
<1>. DEFINE PassedAt(q) == {n \in DOMAIN written : 5 * n - 1 <= q}
<1>1. DOMAIN written = 1 .. Len(written) /\ Len(written) \in Nat
  BY DEF FileInv
<1>2. PassedAt(Pos') = IF j = 4 THEN PassedAt(Pos) \cup {i} ELSE PassedAt(Pos)
  <2>. HIDE DEF Pos
  <2>1. \A n \in 1 .. Len(written) : 5 * n - 1 <= Pos' <=> 5 * n - 1 <= Pos \/ (j = 4 /\ n = i)
    BY <1>1
  <2>. QED
    BY <1>1, <2>1
<1>3. Passed = {written[n].key : n \in PassedAt(Pos)} /\ Passed' = {written[n].key : n \in PassedAt(Pos')}
  BY DEF Passed
<1>. HIDE DEF PassedAt
<1>. QED
  BY <1>2, <1>3

\* The reader reads a line of a file without cuts.
LEMMA ProgressRead ==
    ASSUME FileInv, Stages, ReadInv, ReadInv', Progress, UNCHANGED progVars,
           ReadLine(c.yamlraw, OneHostname)
    PROVE  Progress'
<1>0. /\ c' = c /\ OneHostname' = OneHostname /\ rpc = "read"
      /\ UNCHANGED <<made, failed, file, written, cut>> /\ Hosts' = Hosts
  BY DEF progVars, OneHostname, ReadLine, outVars, Hosts
<1>. SUFFICES ASSUME Whole5' PROVE Progress'
  BY DEF Progress
<1>1. PICK line \in Lines \cup ByHand(c.yamlraw) :
           /\ Read(line) /\ FromFile /\ line = file[Pos + 1] /\ Pos + 1 \in 1 .. Len(file)
           /\ Pos' = Pos + 1 /\ Pos \in Nat
  BY NextLines DEF ReadInv, Whole5
<1>. HIDE DEF Pos, FromFile
<1>2. Whole5
  BY <1>0, <1>1 DEF Whole5, OneForm
<1>3. /\ IF OneHostname = NoKey THEN Hosts = Passed ELSE Hosts = {} /\ OneHostname \notin Passed
      /\ skipthis =>
           /\ Pos > 0 /\ Pos % 5 # 1
           /\ Pos % 5 \in {2, 3} =>
                 OneHostname # NoKey /\ written[Pos \div 5 + 1].key # OneHostname
  BY <1>0, <1>2 DEF Progress
<1>4. PICK i \in 1 .. Len(written), j \in 1 .. 5 :
           /\ Pos + 1 = 5 * (i - 1) + j /\ written[i].key \in Keys
           /\ line = Record(written[i].key, c.yamlraw)[j]
  BY <1>1, <1>2, RecordAt
<1>. DEFINE key == written[i].key
<1>15. LET R == Record(key, c.yamlraw)
       IN  /\ R[1].field = "---" /\ R[2].field = "hostname" /\ R[3].field = "public"
           /\ R[4].field = "secret" /\ R[5].field = "time"
           /\ R[2] = LineOf("hostname", key) /\ R[3] = LineOf("public", <<key, c.yamlraw>>)
           /\ R[4] = LineOf("secret", <<key, c.yamlraw>>)
           /\ R[2].value = key /\ R[3].value = <<key, c.yamlraw>> /\ R[4].value = <<key, c.yamlraw>>
  BY DEF Record, LineOf
<1>5. Passed' = IF j = 4 THEN Passed \cup {key} ELSE Passed
  BY <1>0, <1>1, <1>2, <1>4, PassedNext
<1>16. \A x, y : LineOf(x, y).field = x
  BY DEF LineOf
<1>6. /\ ~skipthis =>
         \/ flags = {} /\ (Pos = 0 \/ file[Pos].field = "---")
         \/ flags = {"hostname"} /\ Pos > 0 /\ file[Pos].field = "hostname"
         \/ flags = {"hostname", "public"} /\ Pos > 0 /\ file[Pos].field = "public"
  BY <1>0, <1>1, <1>16 DEF ReadInv, Midst
<1>7. Pos > 0 => file[Pos].field = Fields[IF j = 1 THEN 5 ELSE j - 1]
  <2>1. ASSUME Pos > 0
        PROVE  \E h \in 1 .. Len(written) : \E k \in 1 .. 5 :
                 Pos = 5 * (h - 1) + k /\ file[Pos] = Record(written[h].key, c.yamlraw)[k]
    <3>1. Pos \in 1 .. Len(file)
      <4>1. Len(file) \in Nat
        BY DEF FileInv, Shaped
      <4>. QED
        BY <1>1, <2>1, <4>1
    <3>. QED
      BY <1>2, <3>1, RecordAt
  <2>2. ASSUME NEW h \in 1 .. Len(written), NEW k \in 1 .. 5, Pos = 5 * (h - 1) + k
        PROVE  k = IF j = 1 THEN 5 ELSE j - 1
    <3>1. i \in Int /\ h \in Int
      BY DEF FileInv
    <3>. QED
      BY <1>4, <2>2, <3>1
  <2>3. \A x, raw : \A k \in 1 .. 5 : Record(x, raw)[k].field = Fields[k]
    BY ONLY RecordFields
  <2>4. ASSUME Pos > 0 PROVE file[Pos].field = Fields[IF j = 1 THEN 5 ELSE j - 1]
    <3>1. PICK h \in 1 .. Len(written), k \in 1 .. 5 :
                 Pos = 5 * (h - 1) + k /\ file[Pos] = Record(written[h].key, c.yamlraw)[k]
      BY <2>1, <2>4
    <3>2. k = IF j = 1 THEN 5 ELSE j - 1
      BY <2>2, <3>1
    <3>3. file[Pos].field = Fields[k]
      BY <2>3, <3>1
    <3>. QED
      BY ONLY <3>2, <3>3
  <2>. QED
    BY <2>4
<1>14. /\ Pos % 5 = j - 1 /\ Pos \div 5 + 1 = i /\ Pos' % 5 = IF j = 5 THEN 0 ELSE j
       /\ (j # 5 => Pos' \div 5 + 1 = i) /\ Pos' > 0 /\ Pos \div 5 \in Int /\ Pos' \div 5 \in Int /\ i \in Int
  <2>1. i \in Int
    OBVIOUS
  <2>2. /\ Pos % 5 = j - 1 /\ Pos \div 5 + 1 = i
        /\ (Pos + 1) % 5 = IF j = 5 THEN 0 ELSE j
        /\ j # 5 => (Pos + 1) \div 5 + 1 = i
    BY <1>1, <1>4, <2>1, Fives
  <2>. QED
    BY <1>1, <2>1, <2>2
<1>8. \A x : ~(x \in Keys \cup (Keys \X BOOLEAN) /\ x = Malformed)
  BY YamlAssumption
<1>9. CASE j = 1
  <2>1. line.field = "---"
    BY ONLY <1>4, <1>9, <1>15
  <2>2. Separator(line)
    BY <1>1, <2>1 DEF Read, Hostname, Half
  <2>3. ~skipthis => flags = {}
    BY <1>6, <1>7, <1>9 DEF Fields
  <2>4. rpc' = "read" /\ skipthis' = FALSE
    BY <1>0, <2>2, <2>3 DEF Separator, Reset, SkipEnds
  <2>. QED
    BY <1>0, <1>3, <1>5, <1>9, <2>4 DEF Progress, ExtractedAll
<1>10. CASE j = 2
  <2>1. line = LineOf("hostname", key) /\ line.field = "hostname" /\ line.value = key
    BY ONLY <1>4, <1>10, <1>15
  <2>2. Pos % 5 = 1 /\ Pos' % 5 = 2 /\ Pos' \div 5 + 1 = i /\ Pos' > 0
    BY <1>1, <1>14, <1>10
  <2>3. Pos > 0 /\ ~skipthis
    BY <1>1, <1>3, <2>2
  <2>4. flags = {}
    BY <1>6, <1>7, <1>10, <2>3 DEF Fields
  <2>5. Hostname(line, OneHostname)
    BY <1>1, <2>1, <2>3 DEF Read, Separator, Half
  <2>6. line.value # Malformed
    BY <1>4, <1>8, <2>1
  <2>7. CASE OneHostname \in {NoKey, key}
    <3>1. rpc' = "read" /\ skipthis' = FALSE
      BY <1>0, <2>1, <2>3, <2>4, <2>5, <2>6, <2>7 DEF Hostname, Got
    <3>. QED
      BY <1>0, <1>3, <1>5, <1>10, <3>1 DEF Progress, ExtractedAll
  <2>8. CASE OneHostname \notin {NoKey, key}
    <3>1. rpc' = "read"
      BY <1>0, <2>1, <2>5, <2>6, <2>8 DEF Hostname
    <3>2. written'[Pos' \div 5 + 1].key # OneHostname' /\ OneHostname' # NoKey
      BY <1>0, <2>2, <2>8
    <3>. QED
      BY <1>0, <1>3, <1>5, <1>10, <2>2, <3>1, <3>2 DEF Progress, ExtractedAll
  <2>. QED
    BY <2>7, <2>8
<1>11. CASE j = 3
  <2>1. /\ line = LineOf("public", <<key, c.yamlraw>>) /\ line.field = "public"
        /\ line.value = <<key, c.yamlraw>> /\ c.yamlraw \in BOOLEAN
    BY <1>4, <1>11, <1>15 DEF Stages
  <2>2. Pos % 5 = 2 /\ Pos' % 5 = 3 /\ Pos' \div 5 = Pos \div 5 /\ Pos' > 0
    BY <1>1, <1>14, <1>11
  <2>3. CASE skipthis
    <3>1. rpc' = "read" /\ skipthis'
      BY <1>0, <1>1, <2>1, <2>3 DEF Read, Separator
    <3>2. OneHostname # NoKey /\ written[Pos' \div 5 + 1].key # OneHostname
      BY <1>3, <2>2, <2>3
    <3>. QED
      BY <1>0, <1>3, <1>5, <1>11, <2>2, <3>1, <3>2 DEF Progress, ExtractedAll
  <2>4. CASE ~skipthis
    <3>1. Half(line, c.yamlraw)
      BY <1>1, <2>1, <2>4 DEF Read, Separator, Hostname
    <3>2. line.value # Malformed /\ line.value[2] = c.yamlraw
      BY <1>4, <1>8, <2>1
    <3>3. flags = {"hostname"}
      BY <1>1, <1>6, <1>7, <1>11, <2>2, <2>4 DEF Fields
    <3>4. Got("public")
      BY <2>1, <3>1, <3>2 DEF Half
    <3>5. flags' = {"hostname", "public"} /\ rpc' = "read" /\ skipthis' = FALSE
      BY <1>0, <2>4, <3>3, <3>4 DEF Got
    <3>. QED
      BY <1>0, <1>3, <1>5, <1>11, <3>5 DEF Progress, ExtractedAll
  <2>. QED
    BY <2>3, <2>4 DEF ReadInv, Seen
<1>12. CASE j = 4
  <2>1. /\ line = LineOf("secret", <<key, c.yamlraw>>) /\ line.field = "secret"
        /\ line.value = <<key, c.yamlraw>> /\ c.yamlraw \in BOOLEAN
    BY <1>4, <1>12, <1>15 DEF Stages
  <2>2. Pos % 5 = 3 /\ Pos' % 5 = 4 /\ Pos \div 5 + 1 = i /\ Pos' > 0
    BY <1>1, <1>14, <1>12
  <2>3. CASE skipthis
    <3>1. rpc' = "read" /\ skipthis'
      BY <1>0, <1>1, <2>1, <2>3 DEF Read, Separator
    <3>2. OneHostname # NoKey /\ key # OneHostname
      BY <1>3, <2>2, <2>3
    <3>. QED
      BY <1>0, <1>3, <1>5, <1>12, <2>2, <3>1, <3>2 DEF Progress, ExtractedAll
  <2>4. CASE ~skipthis
    <3>1. Half(line, c.yamlraw)
      BY <1>1, <2>1, <2>4 DEF Read, Separator, Hostname
    <3>2. line.value # Malformed /\ line.value[2] = c.yamlraw
      BY <1>4, <1>8, <2>1
    <3>3. flags = {"hostname", "public"}
      BY <1>1, <1>6, <1>7, <1>12, <2>2, <2>4 DEF Fields
    <3>4. Got("secret") /\ sec' = key
      BY <2>1, <3>1, <3>2 DEF Half
    <3>5. rpc' = "create"
      BY <3>3, <3>4 DEF Got
    <3>6. name' = key
      BY <3>4, <3>5 DEF ReadInv, Midst, Whole5
    <3>. QED
      BY <1>0, <1>3, <1>5, <1>12, <3>5, <3>6 DEF Progress, ExtractedAll
  <2>. QED
    BY <2>3, <2>4 DEF ReadInv, Seen
<1>13. CASE j = 5
  <2>1. line.field = "time"
    BY ONLY <1>4, <1>13, <1>15
  <2>2. Pos % 5 = 4 /\ Pos' % 5 = 0 /\ Pos' > 0
    BY <1>1, <1>14, <1>13
  <2>3. skipthis
    BY <1>1, <1>6, <1>7, <1>13, <2>2 DEF Fields
  <2>4. rpc' = "read" /\ skipthis'
    BY <1>0, <1>1, <2>1, <2>3 DEF Read, Separator
  <2>. QED
    BY <1>0, <1>3, <1>5, <1>13, <2>2, <2>4 DEF Progress, ExtractedAll
<1>. QED
  BY <1>9, <1>10, <1>11, <1>12, <1>13

\* The reader makes a key.
LEMMA ProgressCreate ==
    ASSUME FileInv, Stages, ReadInv, Progress, UNCHANGED progVars, Create(OneHostname)
    PROVE  Progress'
<1>0. /\ c' = c /\ OneHostname' = OneHostname /\ rpc = "create"
      /\ UNCHANGED <<file, unread, written, cut, name>>
  BY DEF progVars, OneHostname, Create, outVars
<1>. SUFFICES ASSUME Whole5' PROVE Progress'
  BY DEF Progress
<1>1. Whole5 /\ failed' = failed /\ unread # Hand
  BY <1>0 DEF Whole5, FromFile, OneForm, Create, Seen, ReadInv
<1>2. made' = made \cup {<<name, pub, sec>>}
  BY <1>0, <1>1 DEF Create, Whole5
<1>3. Hosts' = Hosts \cup {name}
  <2>1. <<name, pub, sec>>[1] = name
    OBVIOUS
  <2>. QED
    BY <1>2, <2>1 DEF Hosts
<1>4. /\ Pos > 0 /\ file[Pos] = LineOf("secret", <<sec, c.yamlraw>>) /\ name = sec
      /\ Pos' = Pos /\ Passed' = Passed
  BY <1>0, <1>1 DEF ReadInv, Midst, FromFile, Pos, Passed
<1>5. Pos \in 1 .. Len(file)
  <2>1. Pos \in Nat /\ unread \in Seq(Lines) /\ file \in Seq(Lines)
    BY <1>0, <1>1 DEF ReadInv, Place, FromFile, FileInv, Shaped
  <2>2. Len(unread) \in Nat /\ Len(file) \in Nat
    BY <2>1
  <2>. QED
    BY <1>4, <2>1, <2>2 DEF Pos
<1>. HIDE DEF Pos
<1>6. PICK i \in 1 .. Len(written), j \in 1 .. 5 :
           /\ Pos = 5 * (i - 1) + j /\ written[i].key \in Keys
           /\ file[Pos] = Record(written[i].key, c.yamlraw)[j]
  BY <1>1, <1>5, RecordAt
<1>. DEFINE key == written[i].key
<1>7. LET R == Record(key, c.yamlraw)
      IN  /\ R[1].field = "---" /\ R[2].field = "hostname" /\ R[3].field = "public"
          /\ R[4].field = "secret" /\ R[5].field = "time" /\ R[4].value = <<key, c.yamlraw>>
  BY DEF Record, LineOf
<1>8. LineOf("secret", <<sec, c.yamlraw>>).field = "secret"
      /\ LineOf("secret", <<sec, c.yamlraw>>).value = <<sec, c.yamlraw>>
  BY DEF LineOf
<1>9. j = 4
  BY ONLY <1>4, <1>6, <1>7, <1>8, j \in 1 .. 5
<1>10. key = name
  <2>1. <<key, c.yamlraw>> = <<sec, c.yamlraw>>
    BY ONLY <1>4, <1>6, <1>7, <1>8, <1>9
  <2>. QED
    BY <1>4, <2>1
<1>11. Pos % 5 = 4
  <2>1. Len(written) \in Nat
    BY DEF FileInv
  <2>. QED
    BY <1>6, <1>9, <2>1
<1>12. CASE OneHostname = NoKey
  <2>1. rpc' = "read" /\ Hosts' = Passed'
    BY <1>0, <1>1, <1>3, <1>4, <1>12 DEF Create, Progress
  <2>. QED
    BY <1>0, <1>4, <1>11, <1>12, <2>1 DEF Progress, ExtractedAll
<1>13. CASE OneHostname # NoKey
  <2>1. rpc' = "ended" /\ ret' = 0
    BY <1>0, <1>13 DEF Create, Return
  <2>2. Hosts = {}
    BY <1>0, <1>1, <1>13 DEF Progress
  <2>3. OneHostname = name
    BY <1>0, <1>13 DEF ReadInv, Seen, Active, Values
  <2>4. Hosts' = {OneHostname} /\ OneHostname \in Written
    <3>1. i \in DOMAIN written
      BY DEF FileInv
    <3>. QED
      BY <1>3, <1>10, <2>2, <2>3, <3>1 DEF Written
  <2>5. Written' = Written
    BY <1>0 DEF Written
  <2>. QED
    BY <1>0, <1>13, <2>1, <2>4, <2>5 DEF Progress, ExtractedAll, Hosts
<1>. QED
  BY <1>12, <1>13

\* The reader comes to the end of the file.
LEMMA ProgressEnd ==
    ASSUME FileInv, Stages, ReadInv, Progress, UNCHANGED progVars, EndOfInput(OneHostname)
    PROVE  Progress'
<1>0. /\ c' = c /\ OneHostname' = OneHostname /\ rpc = "read" /\ rpc' = "ended"
      /\ ret' = IF OneHostname # NoKey THEN 1 ELSE 0
      /\ unread \in {Hand, <<>>}
      /\ UNCHANGED <<file, unread, written, cut, failed, made>>
  BY DEF progVars, OneHostname, EndOfInput, Return, outVars
<1>. SUFFICES ASSUME Whole5' PROVE Progress'
  BY DEF Progress
<1>1. Whole5 /\ unread = <<>>
  BY <1>0 DEF Whole5, FromFile, OneForm
<1>2. IF OneHostname = NoKey THEN Hosts = Passed ELSE Hosts = {} /\ OneHostname \notin Passed
  BY <1>0, <1>1 DEF Progress
<1>3. Passed = Written
  <2>1. /\ Len(file) = 5 * Len(written) /\ written \in Seq([key : Keys, raw : BOOLEAN])
        /\ file \in Seq(Lines)
    BY <1>1 DEF FileInv, Exact, Shaped, Whole5
  <2>2. Len(written) \in Nat /\ DOMAIN written = 1 .. Len(written) /\ Len(file) \in Nat
    BY <2>1
  <2>3. Pos = Len(file)
    BY <1>1, <2>2 DEF Pos
  <2>4. \A n \in DOMAIN written : 5 * n - 1 <= Pos
    BY <2>1, <2>2, <2>3
  <2>5. {n \in DOMAIN written : 5 * n - 1 <= Pos} = DOMAIN written
    BY ONLY <2>4
  <2>. QED
    BY <2>5 DEF Passed, Written
<1>4. Written' = Written /\ Hosts' = Hosts
  BY <1>0 DEF Written, Hosts
<1>5. {m[1] : m \in made'} = Hosts
  BY <1>0 DEF Hosts
<1>6. CASE OneHostname = NoKey
  <2>1. ret' = 0 /\ {m[1] : m \in made'} = Written'
    BY <1>0, <1>2, <1>3, <1>4, <1>5, <1>6
  <2>. QED
    BY <1>0, <1>6, <2>1 DEF Progress, ExtractedAll
<1>7. CASE OneHostname # NoKey
  <2>1. ret' = 1 /\ {m[1] : m \in made'} = {} /\ OneHostname \notin Written'
    BY <1>0, <1>2, <1>3, <1>4, <1>5, <1>7
  <2>. QED
    BY <1>0, <1>7, <2>1 DEF Progress, ExtractedAll
<1>. QED
  BY <1>6, <1>7

\* No step of the program loses track of what was extracted.
LEMMA ProgressStep ==
    ASSUME FileInv, FileInv', Stages, Stages', ReadInv, ReadInv', Progress, [Next]_vars
    PROVE  Progress'
<1>1. ASSUME UNCHANGED <<inVars, c, file, written, cut>> PROVE Progress'
  <2>1. OneHostname' = OneHostname /\ Pos' = Pos /\ Passed' = Passed /\ Hosts' = Hosts /\ Written' = Written
    BY <1>1 DEF OneHostname, Pos, Passed, Hosts, Written, inVars
  <2>2. Whole5' <=> Whole5
    BY <1>1 DEF Whole5, FromFile, OneForm, inVars
  <2>3. ExtractedAll(c.yamlraw, OneHostname)' <=> ExtractedAll(c.yamlraw, OneHostname)
    BY <1>1, <2>1 DEF ExtractedAll, OneForm, inVars
  <2>. HIDE DEF OneHostname, Pos, Passed, Hosts, Written, Whole5
  <2>. QED
    BY <1>1, <2>1, <2>2, <2>3 DEF Progress, inVars
<1>2. ASSUME rpc' = "off" PROVE Progress'
  BY <1>2 DEF Progress, Whole5, FromFile
<1>3. ASSUME failed' = TRUE PROVE Progress'
  BY <1>3 DEF Progress, Whole5
<1>4. ASSUME NEW line \in CommandLines, Run(line) PROVE Progress'
  <2>1. rpc = "off"
    BY <1>4 DEF Run, Stages
  <2>2. UNCHANGED inVars => rpc' = "off"
    BY <2>1 DEF inVars
  <2>3. UNCHANGED inVars \/ \E d : StartReader(d)
    BY <1>4 DEF Run, StartSearch
  <2>4. ASSUME NEW d, StartReader(d), unread' # Hand PROVE Progress'
    <3>1. rpc' = "read" /\ unread' = file' /\ skipthis' = FALSE /\ made' = {}
      BY <2>4 DEF StartReader
    <3>2. file' \in Seq(Lines) /\ Len(file') \in Nat
      BY DEF FileInv, Shaped
    <3>3. Pos' = 0
      BY <3>1, <3>2 DEF Pos
    <3>4. Hosts' = {}
      BY <3>1 DEF Hosts
    <3>5. Passed' = {}
      <4>1. \A n \in DOMAIN written' : n \in Nat \ {0}
        BY DEF FileInv
      <4>2. \A n \in DOMAIN written' : ~(5 * n - 1 <= Pos')
        BY ONLY <3>3, <4>1
      <4>. QED
        BY <4>2 DEF Passed
    <3>. HIDE DEF Pos, Hosts, Passed, OneHostname
    <3>. QED
      BY <3>1, <3>4, <3>5 DEF Progress, ExtractedAll
  <2>5. unread' = Hand => Progress'
    BY DEF Progress, Whole5, FromFile
  <2>. QED
    BY <1>2, <2>2, <2>3, <2>4, <2>5
<1>5. ASSUME Extract PROVE Progress'
  <2>1. UNCHANGED progVars
    BY <1>5 DEF Extract
  <2>2. CreateFails \/ ReadError => failed' = TRUE
    BY DEF CreateFails, ReadError
  <2>. QED
    BY <1>3, <1>5, <2>1, <2>2, ProgressRead, ProgressCreate, ProgressEnd DEF Extract
<1>6. ASSUME NEW w \in Writers, Writer(w) PROVE Progress'
  <2>1. rpc = "off" /\ UNCHANGED inVars
    BY <1>6 DEF Writer, Searching, Stages, Begin, Gmtime, Strftime, Write, WriteCut, Done
  <2>. QED
    BY <1>2, <2>1 DEF inVars
<1>7. EndExtract => rpc' = "off"
  BY DEF EndExtract
<1>8. EndSearch \/ EndOther => rpc' = "off"
  BY DEF EndSearch, EndOther, Stages, yamlVars, inVars
<1>9. Report \/ UNCHANGED vars => UNCHANGED <<inVars, c, file, written, cut>>
  BY DEF Report, vars, progVars, yamlVars, outVars
<1>. QED
  BY <1>1, <1>2, <1>4, <1>5, <1>6, <1>7, <1>8, <1>9 DEF Next

\* From a file that was written without failures -Y makes every key, or
\* the one that -y names and its exit code says whether it is there
\* (yaml.c:136-311).
THEOREM ProgramKeysExtracted == Spec => []KeysExtracted
<1>. DEFINE Inv == FileInv /\ Stages /\ ReadInv /\ Progress
<1>1. Init => Inv
  <2>1. Init => Progress
    BY DEF Init, YamlInit, Progress, Whole5, FromFile
  <2>. QED
    BY <2>1, WholeInit
<1>2. Inv /\ [Next]_vars => Inv'
  BY FileStep, StagesStep, ReadStep, ProgressStep
<1>3. Inv => KeysExtracted
  <2>. SUFFICES ASSUME Inv, ~KeysExtracted PROVE FALSE
    OBVIOUS
  <2>1. rpc = "ended" /\ unread # Hand /\ cut = 0 /\ ~failed /\ OneForm(c.yamlraw)
        /\ ~ExtractedAll(c.yamlraw, OneHostname)
    BY DEF KeysExtracted, ExtractedAll
  <2>2. Whole5
    BY <2>1 DEF Whole5, FromFile
  <2>. QED
    BY <2>1, <2>2 DEF Progress
<1>. QED
  BY <1>1, <1>2, <1>3, PTL DEF Spec

-----------------------------------------------------------------------------
(* The filters of a search *)

\* The texts an argument stands for, the table behind it, and the loop over the
\* arguments.
ArgumentTexts(f) == IF "lines" \in DOMAIN f THEN FileTexts(f.lines) ELSE {Unanchored(f.text)}
LoadArgument(kind, t, f) ==
    IF "lines" \in DOMAIN f THEN loadfilterfile(kind, t, f.lines) ELSE filters_add(kind, t, f.text)
ArgumentRounds(kind, items, k, g) ==
    g = [n \in 0 .. k |-> IF n = 0 THEN EmptyTable ELSE LoadArgument(kind, g[n - 1], items[n])]
Asked(items) == UNION {ArgumentTexts(items[i]) : i \in DOMAIN items}

\* The loop over the arguments is defined.
LEMMA ArgumentsDefined ==
    ASSUME NEW kind, NEW items, NEW n \in Nat
    PROVE  \E g : ArgumentRounds(kind, items, n, g)
<1>. DEFINE G == {k \in 0 .. n : \E g : ArgumentRounds(kind, items, k, g)}
<1>1. 0 \in G
  <2>. DEFINE g == [i \in 0 .. 0 |-> EmptyTable]
  <2>1. g = [i \in 0 .. 0 |-> IF i = 0 THEN EmptyTable ELSE LoadArgument(kind, g[i - 1], items[i])]
    OBVIOUS
  <2>. HIDE DEF g
  <2>2. ArgumentRounds(kind, items, 0, g)
    BY ONLY <2>1 DEF ArgumentRounds
  <2>. QED
    BY <2>2
<1>2. ASSUME NEW k \in Nat, k < n, k \in G PROVE k + 1 \in G
  <2>1. PICK g : ArgumentRounds(kind, items, k, g)
    BY <1>2
  <2>. DEFINE body(i) == IF i = 0 THEN EmptyTable ELSE LoadArgument(kind, g[i - 1], items[i])
  <2>. DEFINE h == [i \in 0 .. k + 1 |-> body(i)]
  <2>2. g = [i \in 0 .. k |-> body(i)]
    BY <2>1 DEF ArgumentRounds
  <2>3. \A i \in 0 .. k : i \in 0 .. k + 1 /\ g[i] = body(i)
    BY <2>2
  <2>4. \A i \in 0 .. k : h[i] = g[i]
    BY <2>3
  <2>5. \A i \in 1 .. k + 1 : i - 1 \in 0 .. k
    OBVIOUS
  <2>6. \A i \in 0 .. k + 1 : i # 0 => i \in 1 .. k + 1
    OBVIOUS
  <2>. HIDE DEF h
  <2>7. \A i \in 0 .. k + 1 :
           body(i) = IF i = 0 THEN EmptyTable ELSE LoadArgument(kind, h[i - 1], items[i])
    BY <2>4, <2>5, <2>6
  <2>8. ArgumentRounds(kind, items, k + 1, h)
    BY <2>7 DEF ArgumentRounds, h
  <2>. QED
    BY <1>2, <2>8
<1>. HIDE DEF G
<1>3. \A k \in 0 .. n : k \in G
  BY <1>1, <1>2, Upwards
<1>. QED
  BY <1>3 DEF G

\* One argument, and with it all of them.
LEMMA LoadedArgument ==
    ASSUME NEW kind \in Kindred, NEW t, NEW T, Loaded(kind, t, T), NEW f \in TextArguments
    PROVE  Loaded(kind, LoadArgument(kind, t, f), T \cup (ArgumentTexts(f) \cap Fitting(kind)))
<1>1. CASE f \in [lines : Seq(Seq(SUBSET Int))]
  <2>1. "lines" \in DOMAIN f /\ f.lines \in Seq(Seq(SUBSET Int))
    BY <1>1
  <2>2. Loaded(kind, loadfilterfile(kind, t, f.lines), T \cup (FileTexts(f.lines) \cap Fitting(kind)))
    BY <2>1, LoadedFile
  <2>. QED
    BY <2>1, <2>2 DEF LoadArgument, ArgumentTexts
<1>2. CASE f \in [text : Seq(SUBSET Int)]
  <2>1. "lines" \notin DOMAIN f /\ f.text \in Seq(SUBSET Int)
    BY <1>2
  <2>2. Loaded(kind, filters_add(kind, t, f.text), T \cup ({Unanchored(f.text)} \cap Fitting(kind)))
    BY <2>1, LoadedAdd
  <2>. QED
    BY <2>1, <2>2 DEF LoadArgument, ArgumentTexts
<1>. QED
  BY <1>1, <1>2 DEF TextArguments

LEMMA LoadedArguments ==
    ASSUME NEW kind \in Kindred, NEW items \in Seq(TextArguments),
           NEW g, ArgumentRounds(kind, items, Len(items), g)
    PROVE  Loaded(kind, g[Len(items)], Asked(items) \cap Fitting(kind))
<1>. DEFINE n == Len(items)
<1>. DEFINE upto(k) == (UNION {ArgumentTexts(items[i]) : i \in 1 .. k}) \cap Fitting(kind)
<1>1. n \in Nat /\ DOMAIN items = 1 .. n /\ \A i \in 1 .. n : items[i] \in TextArguments
  OBVIOUS
<1>. HIDE DEF n
<1>2. g[0] = EmptyTable /\ \A k \in 1 .. n : g[k] = LoadArgument(kind, g[k - 1], items[k])
  BY <1>1 DEF ArgumentRounds, n
<1>. HIDE DEF upto
<1>. DEFINE G == {k \in 0 .. n : Loaded(kind, g[k], upto(k))}
<1>3. 0 \in G
  <2>1. upto(0) = {}
    BY DEF upto
  <2>2. Loaded(kind, g[0], upto(0))
    BY <1>2, <2>1, LoadedEmpty
  <2>. QED
    BY <1>1, <2>2
<1>4. ASSUME NEW k \in Nat, k < n, k \in G PROVE k + 1 \in G
  <2>1. k + 1 \in 1 .. n /\ k + 1 - 1 = k /\ 1 .. k + 1 = (1 .. k) \cup {k + 1}
    BY <1>1, <1>4
  <2>2. upto(k + 1) = upto(k) \cup (ArgumentTexts(items[k + 1]) \cap Fitting(kind))
    BY <2>1 DEF upto
  <2>3. Loaded(kind, g[k], upto(k)) /\ g[k + 1] = LoadArgument(kind, g[k], items[k + 1])
        /\ items[k + 1] \in TextArguments
    BY <1>1, <1>2, <1>4, <2>1
  <2>4. Loaded(kind, g[k + 1], upto(k) \cup (ArgumentTexts(items[k + 1]) \cap Fitting(kind)))
    BY <2>3, LoadedArgument
  <2>5. Loaded(kind, g[k + 1], upto(k + 1))
    BY ONLY <2>2, <2>4
  <2>6. k + 1 \in 0 .. n
    BY <1>1, <2>1
  <2>. QED
    BY <2>5, <2>6
<1>. HIDE DEF G
<1>5. \A k \in 0 .. n : k \in G
  BY <1>1, <1>3, <1>4, Upwards
<1>6. upto(n) = Asked(items) \cap Fitting(kind)
  BY <1>1 DEF Asked, upto
<1>7. Loaded(kind, g[n], upto(n))
  <2>1. n \in G
    BY <1>1, <1>5
  <2>. QED
    BY <2>1 DEF G
<1>. QED
  BY <1>6, <1>7 DEF n

\* The table of a search is one that was loaded, prepared.
LEMMA PreparedIs ==
    ASSUME NEW b \in Builds, NEW d, d.filters \in Seq(TextArguments)
    PROVE  \E t : /\ Loaded(b.kind, t, Asked(d.filters) \cap Fitting(b.kind))
                  /\ Prepared(b, d) = filters_prepare(b.kind, t, d.wantdedup)
                  /\ Prepared(b, d).flattened = t.flattened
<1>. DEFINE items == d.filters
<1>. DEFINE n == Len(items)
<1>. DEFINE g == CHOOSE h : ArgumentRounds(b.kind, items, n, h)
<1>1. b.kind \in Kindred /\ n \in Nat
  BY ProgramAssumption DEF Kindred
<1>2. ArgumentRounds(b.kind, items, n, g)
  <2>1. \E h : ArgumentRounds(b.kind, items, n, h)
    BY <1>1, ArgumentsDefined
  <2>. QED
    BY <2>1
<1>3. Prepared(b, d) = filters_prepare(b.kind, g[n], d.wantdedup)
  BY DEF Prepared, ArgumentRounds, LoadArgument
<1>. HIDE DEF g
<1>4. Loaded(b.kind, g[n], Asked(items) \cap Fitting(b.kind))
  BY <1>1, <1>2, LoadedArguments
<1>5. filters_prepare(b.kind, g[n], d.wantdedup).flattened = g[n].flattened
  <2>1. "flattened" \in DOMAIN g[n]
    BY <1>4 DEF Loaded
  <2>. QED
    BY <1>4 DEF filters_prepare, Loaded
<1>. QED
  BY <1>3, <1>4, <1>5

\* The texts that were asked for and can be had are those that fit.
LEMMA TextsAre ==
    ASSUME build \in Builds, c.filters \in Seq(TextArguments)
    PROVE  Texts = Asked(c.filters) \cap Fitting(build.kind)
<1>. DEFINE lines(f) == IF "lines" \in DOMAIN f THEN UNION {ToSet(Pieces(l)) : l \in ToSet(f.lines)}
                        ELSE {f.text}
<1>. DEFINE bare(f) == {Unanchored(s) : s \in lines(f)}
<1>. HIDE DEF lines, bare
<1>1. \A i \in DOMAIN c.filters : c.filters[i] \in TextArguments
  OBVIOUS
<1>2. ASSUME NEW f \in TextArguments
      PROVE  bare(f) = ArgumentTexts(f) /\ bare(f) \subseteq Seq(SUBSET Int)
  <2>0. \A s \in Seq(SUBSET Int) : Unanchored(s) \in Seq(SUBSET Int)
    BY DEF Unanchored
  <2>1. CASE f \in [lines : Seq(Seq(SUBSET Int))]
    <3>1. "lines" \in DOMAIN f /\ f.lines \in Seq(Seq(SUBSET Int))
      BY <2>1
    <3>2. \A t : t \in lines(f) <=> \E i \in DOMAIN f.lines : t \in Range(Pieces(f.lines[i]))
      <4>1. \A s : ToSet(s) = Range(s)
        BY DEF ToSet, Range
      <4>2. lines(f) = UNION {Range(Pieces(l)) : l \in Range(f.lines)}
        BY <3>1, <4>1 DEF lines
      <4>3. \A l : l \in Range(f.lines) <=> \E i \in DOMAIN f.lines : l = f.lines[i]
        BY DEF Range
      <4>4. \A t : t \in lines(f) <=> \E l \in Range(f.lines) : t \in Range(Pieces(l))
        BY ONLY <4>2
      <4>. QED
        BY ONLY <4>3, <4>4
    <3>3. bare(f) = FileTexts(f.lines)
      <4>1. \A t : t \in bare(f) <=> \E s \in lines(f) : t = Unanchored(s)
        BY DEF bare
      <4>2. \A t : t \in FileTexts(f.lines) <=>
               \E i \in DOMAIN f.lines : \E s \in Range(Pieces(f.lines[i])) : t = Unanchored(s)
        BY DEF FileTexts, LineTexts
      <4>. QED
        BY ONLY <3>2, <4>1, <4>2
    <3>4. ASSUME NEW t \in lines(f) PROVE t \in Seq(SUBSET Int)
      <4>1. PICK i \in DOMAIN f.lines : t \in Range(Pieces(f.lines[i]))
        BY <3>2, <3>4
      <4>2. Pieces(f.lines[i]) \in Seq(Seq(SUBSET Int))
        BY <3>1, PiecesIs
      <4>. QED
        BY <4>1, <4>2 DEF Range
    <3>5. bare(f) \subseteq Seq(SUBSET Int)
      BY <2>0, <3>4 DEF bare
    <3>. QED
      BY <3>1, <3>3, <3>5 DEF ArgumentTexts
  <2>2. CASE f \in [text : Seq(SUBSET Int)]
    BY <2>0, <2>2 DEF ArgumentTexts, lines, bare
  <2>. QED
    BY <2>1, <2>2 DEF TextArguments
<1>3. UNION {bare(c.filters[i]) : i \in DOMAIN c.filters} = Asked(c.filters)
  BY <1>1, <1>2 DEF Asked
<1>4. ASSUME NEW t \in Asked(c.filters)
      PROVE  /\ t # <<>> /\ base32_valid(t).ok
             /\ FromLen(Len(t)) <= IF build.kind = "bin" THEN PublicLen ELSE IntLen
             <=> t \in Fitting(build.kind)
  <2>1. t \in Seq(SUBSET Int)
    BY <1>1, <1>2, <1>4 DEF Asked
  <2>2. base32_valid(t).ok <=> t \in Seq(Digits)
    BY <2>1, ValidIs
  <2>. QED
    BY <2>2 DEF Fitting
<1>. QED
  BY <1>3, <1>4 DEF Texts, lines, bare

-----------------------------------------------------------------------------
(* What a search finds *)

\* A search has the table of its own filters.
Searches ==
    stage = "search" =>
        /\ c.filters \in Seq(TextArguments) /\ c.wantdedup \in BOOLEAN
        /\ build \in Builds /\ table = Prepared(build, c)

LEMMA SearchesStep ==
    ASSUME Searches, [Next]_vars
    PROVE  Searches'
<1>1. ASSUME NEW line \in CommandLines, Run(line) PROVE Searches'
  <2>1. Len(FlattenSeq(line)) \in Nat /\ Parse(FlattenSeq(line)).filters \in Seq(TextArguments)
    BY ProgramAssumption, LineLength
  <2>2. Configured(Parse(FlattenSeq(line)))
    BY ONLY <2>1, ParseKeeps
  <2>3. c' = Parse(FlattenSeq(line))
    BY <1>1 DEF Run
  <2>4. c'.wantdedup \in BOOLEAN
    BY <2>2, <2>3, SMT DEF Configured
  <2>5. stage' # "search" \/ StartSearch(c')
    BY <1>1, <2>3 DEF Run
  <2>6. StartSearch(c') => build' \in Builds /\ table' = Prepared(build', c')
    BY DEF StartSearch
  <2>7. Prepared(build, c)' = Prepared(build', c')
    BY DEF Prepared
  <2>. QED
    BY <2>1, <2>3, <2>4, <2>5, <2>6, <2>7 DEF Searches
<1>2. ASSUME Ends PROVE Searches'
  BY <1>2 DEF Ends, Searches
<1>3. ASSUME UNCHANGED progVars PROVE Searches'
  <2>1. Prepared(build, c)' = Prepared(build, c)
    BY <1>3 DEF Prepared, progVars
  <2>. QED
    BY <1>3, <2>1 DEF Searches, progVars
<1>. QED
  BY <1>1, <1>2, <1>3 DEF Next, vars, Writer, Report, EndSearch, Extract, EndExtract, EndOther

\* With the table of its filters a search finds the keys that were asked for.
LEMMA SearchesFind ==
    ASSUME Searches
    PROVE  KeysFound
<1>. SUFFICES ASSUME stage = "search", NEW pk \in AllKeys
              PROVE  /\ Found(pk) => Wanted(pk)
                     /\ Reliable /\ Wanted(pk) => Found(pk)
                     /\ filter_match(cuda_set_filters(build.kind, table), pk)
                          <=> FirstMatch(build.kind, table, pk) # 0
                     /\ ~table.flattened /\ WordsFit =>
                          \A behind \in {{}, Ones(ByteBits)} :
                             /\ FoundWords(pk, behind) => WantedWords(pk)
                             /\ Reliable /\ ~Nested /\ WantedWords(pk) => FoundWords(pk, behind)
  BY DEF KeysFound
<1>1. /\ c.filters \in Seq(TextArguments) /\ c.wantdedup \in BOOLEAN
      /\ build \in Builds /\ table = Prepared(build, c)
  BY DEF Searches
<1>2. build.kind \in Kindred /\ build.binsearch \in BOOLEAN
  BY <1>1, ProgramAssumption DEF Kindred
<1>3. Texts = Asked(c.filters) \cap Fitting(build.kind)
  BY <1>1, TextsAre
<1>4. PICK t : /\ Loaded(build.kind, t, Texts)
               /\ table = filters_prepare(build.kind, t, c.wantdedup)
               /\ table.flattened = t.flattened
  BY <1>1, <1>3, PreparedIs
<1>5. pk \in SUBSET (0 .. LastBit)
  <2>1. PublicLen * ByteBits = LastBit + 1 /\ LastBit \in Nat
    BY BitsOfKey, FiltersAssumption
  <2>2. PublicLen * ByteBits - 1 = LastBit
    BY <2>1
  <2>. QED
    BY <2>2 DEF AllKeys
<1>6. Nested <=> ~Apart(Texts)
  BY DEF Nested, Apart
<1>7. Reliable <=> Dependable(build.kind, Texts, c.wantdedup, build.binsearch)
  BY <1>6 DEF Reliable, Dependable, SameLength, Equal
<1>8. /\ Found(pk) => Wanted(pk)
      /\ Wanted(pk) /\ Dependable(build.kind, Texts, c.wantdedup, build.binsearch) => Found(pk)
      /\ filter_match(cuda_set_filters(build.kind, table), pk)
           <=> FirstMatch(build.kind, table, pk) # 0
  BY <1>1, <1>2, <1>4, <1>5, TextsFound DEF Found, Wanted
<1>9. ASSUME ~table.flattened, WordsFit, NEW behind \in {{}, Ones(ByteBits)}
      PROVE  /\ FoundWords(pk, behind) => WantedWords(pk)
             /\ Reliable /\ ~Nested /\ WantedWords(pk) => FoundWords(pk, behind)
  <2>1. behind \in SUBSET Nat
    BY <1>9, FiltersAssumption DEF Ones
  <2>2. \A s \in Texts : Len(s) \in Nat
    BY <1>2, <1>3, FittingText
  <2>3. \A s, u \in Texts : CharBits * (Len(s) + Len(u)) <= ByteBits * PublicLen
    <3>. TAKE s, u \in Texts
    <3>1. (Len(s) + Len(u)) * CharBits <= PublicLen * ByteBits
      BY <1>9 DEF WordsFit
    <3>2. {CharBits, ByteBits, PublicLen} \subseteq Nat /\ Len(s) + Len(u) \in Nat
      BY <2>2, FiltersAssumption
    <3>. QED
      BY ONLY <3>1, <3>2
  <2>4. ~t.flattened
    BY <1>4, <1>9
  <2>. DEFINE kind == build.kind
  <2>. DEFINE T == Texts
  <2>. DEFINE dedup == c.wantdedup
  <2>. DEFINE bin == build.binsearch
  <2>. HIDE DEF kind, T, dedup, bin
  <2>5. LET found == WordsMatch(kind, bin, filters_prepare(kind, t, dedup), pk, 2, behind)
            wanted == \E s, u \in T : IsPrefix(s \o u, base32_to(pk, PublicLen))
        IN  /\ found => wanted
            /\ wanted /\ Dependable(kind, T, dedup, bin) /\ Apart(T) => found
    <3>1. /\ kind \in Kindred /\ bin \in BOOLEAN /\ dedup \in BOOLEAN /\ Loaded(kind, t, T)
          /\ \A s, u \in T : CharBits * (Len(s) + Len(u)) <= ByteBits * PublicLen
      BY <1>1, <1>2, <1>4, <2>3 DEF kind, T, dedup, bin
    <3>. QED
      BY ONLY <1>5, <2>1, <2>4, <3>1, WordsFound
  <2>6. FoundWords(pk, behind) <=> WordsMatch(kind, bin, filters_prepare(kind, t, dedup), pk, 2, behind)
    BY <1>4 DEF FoundWords, kind, dedup, bin
  <2>7. WantedWords(pk) <=> \E s, u \in T : IsPrefix(s \o u, base32_to(pk, PublicLen))
    BY DEF WantedWords, T
  <2>. QED
    BY <1>6, <1>7, <2>5, <2>6, <2>7 DEF kind, T, dedup, bin
<1>. QED
  BY <1>7, <1>8, <1>9

\* KeysFound, for any command line, build, filters and keys: however the filters
\* were given, sorted, expanded, freed of duplicates and searched, a key is
\* found exactly if its name begins with one of them, where the search can be
\* relied on; likewise for two words; and the device finds the same keys.
THEOREM ProgramKeysFound == Spec => []KeysFound
<1>1. Init => Searches
  BY DEF Init, Searches
<1>. QED
  BY <1>1, SearchesStep, SearchesFind, PTL DEF Spec
=============================================================================
