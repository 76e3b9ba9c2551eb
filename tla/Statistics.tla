----------------------------- MODULE Statistics -----------------------------
(***************************************************************************)
(* The statistics of -s and -S (main.c:760-851).  Each worker counts in 32 *)
(* bits and without a lock; main looks at the counters every tenth of a    *)
(* second, adds what came since to sums of 64 bits, prints them over the   *)
(* time they stand for, and starts anew (realtimestats) or, near the end   *)
(* of 64 bits, halves sums and time.                                       *)
(***************************************************************************)
EXTENDS Integers, FiniteSets, FiniteSetsExt

CONSTANTS
    Counting,      \* worker threads
    Kinds,         \* numcalc, numsuccess, numrestart
    Wrap32,        \* 2^32
    MaxSum,        \* U64_MAX
    ReportDelay,   \* reportdelay
    MaxCount,      \* bound: keys a worker looks at
    MaxTime        \* bound: the clock

ASSUME StatisticsAssumption ==
    /\ "calc" \in Kinds
    /\ Wrap32 \in Nat \ {0} /\ MaxSum \in Nat /\ ReportDelay \in Nat
    /\ MaxCount \in Nat /\ MaxTime \in Nat

VARIABLES
    v,             \* stats: the counters of the workers
    old, num,      \* tstats: their last value, and the sums
    now,           \* inowtime
    istarttime, ireporttime, elapsedoffset,
    realtimestats,
    count,         \* history: what each worker counted
    counted,       \* history: count when main last looked
    exact,         \* history: what num stands for, times 2^halved
    halved,        \* history: how often the sums were halved
    late           \* history: a counter went round between two looks

statVars == <<v, old, num, now, istarttime, ireporttime, elapsedoffset, realtimestats,
              count, counted, exact, halved, late>>

Zero == [w \in Counting |-> [k \in Kinds |-> 0]]

StatInit ==
    /\ v = Zero /\ old = Zero /\ num = Zero
    /\ now = 1 /\ istarttime = 1 /\ ireporttime = 0 /\ elapsedoffset = 0
    /\ realtimestats = TRUE
    /\ count = Zero /\ counted = Zero /\ exact = Zero
    /\ halved = 0 /\ late = FALSE

\* A run of the program begins.
StatStart(realtime) ==
    /\ v' = Zero /\ old' = Zero /\ num' = Zero
    /\ now' = 1 /\ istarttime' = 1 /\ ireporttime' = 0 /\ elapsedoffset' = 0
    /\ realtimestats' = realtime
    /\ count' = Zero /\ counted' = Zero /\ exact' = Zero
    /\ halved' = 0 /\ late' = FALSE

\* A worker counts: a batch of keys, a success, a restart.
Count(w, k) ==
    /\ count[w][k] < MaxCount
    /\ v' = [v EXCEPT ![w][k] = (@ + 1) % Wrap32]
    /\ count' = [count EXCEPT ![w][k] = @ + 1]
    /\ late' = (late \/ count'[w][k] - counted[w][k] >= Wrap32)
    /\ UNCHANGED <<old, num, now, istarttime, ireporttime, elapsedoffset, realtimestats,
                   counted, exact, halved>>

Tick ==
    /\ now < MaxTime
    /\ now' = now + 1
    /\ UNCHANGED <<v, old, num, istarttime, ireporttime, elapsedoffset, realtimestats,
                   count, counted, exact, halved, late>>

\* Mutant of Difference: the counter is taken for smaller than it was.
DifferenceFromZero(new, before) == IF new >= before THEN new - before ELSE 0

\* tdiff = newt - oldnum, in 32 bits.
Difference(new, before) == (new - before + Wrap32) % Wrap32

Added == [w \in Counting |-> [k \in Kinds |-> num[w][k] + Difference(v[w][k], old[w][k])]]

Total(sums, k) == MapThenSumSet(LAMBDA w : sums[w][k], Counting)

\* One turn of the loop, after nanosleep.
Look ==
    LET report == ireporttime = 0 \/ now - ireporttime >= ReportDelay
        anew == report /\ realtimestats
        start == IF anew THEN now ELSE istarttime
        offset == elapsedoffset + start - istarttime
        sums == IF anew THEN Zero ELSE Added
        halve == Total(Added, "calc") > MaxSum \div 2
        timediff == IF halve THEN (now - start + 1) \div 2 ELSE 0
    IN  /\ old' = v
        /\ counted' = count
        /\ num' = [w \in Counting |-> [k \in Kinds |->
                      IF halve THEN sums[w][k] \div 2 ELSE sums[w][k]]]
        /\ exact' = IF anew THEN Zero
                    ELSE [w \in Counting |-> [k \in Kinds |->
                            exact[w][k] + (count[w][k] - counted[w][k]) * 2 ^ halved]]
        /\ halved' = IF anew THEN 0 ELSE IF halve THEN halved + 1 ELSE halved
        /\ ireporttime' = IF ~report THEN ireporttime
                          ELSE IF ireporttime = 0 THEN now ELSE ireporttime + ReportDelay
        /\ elapsedoffset' = offset + timediff
        /\ istarttime' = start + timediff
        /\ UNCHANGED <<v, now, realtimestats, count, late>>

\* The sums are what the workers counted, less what halving rounds off, unless
\* a counter went round between two looks of main; and no time is lost or
\* counted twice by starting anew and by halving (main.c:797-848).
StatisticsTrue ==
    /\ ~late => \A w \in Counting, k \in Kinds :
           exact[w][k] - num[w][k] * 2 ^ halved \in 0 .. 2 ^ halved - 1
    /\ elapsedoffset + now - istarttime = now - 1
=============================================================================
