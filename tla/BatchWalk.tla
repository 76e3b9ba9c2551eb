----------------------------- MODULE BatchWalk -----------------------------
(***************************************************************************)
(* The walk of one worker from a seed: the scalar the seed expands to, the *)
(* points eight apart that a batch holds, and the secret scalar made for a *)
(* point that matches (worker_batch.inc.h, worker_batch_pass.inc.h, and    *)
(* mine_kernel with worker_finish_match for --cuda).                       *)
(*                                                                         *)
(* Points are the multiples of the base point, written as the multiplier,  *)
(* so ge_scalarmult_base is the identity and adding ge_eightpoint is + 8.  *)
(* Whether a point passes the filters is left open.  The mode is fixed     *)
(* when the run begins.                                                    *)
(***************************************************************************)
EXTENDS Integers, FiniteSets

CONSTANTS
    Modes,     \* modes to look at, of "random", "passphrase" and "cuda"
    BatchNum,  \* BATCHNUM, CUDA_BATCH
    Loop,      \* DETERMINISTIC_LOOP_COUNT
    SizeWrap,  \* SIZE_MAX + 1
    Top,       \* 2^254: a scalar is stored in 0 .. 4 * Top - 1
    Order,     \* of the base point
    Stray,     \* what the 32 bytes behind a0 may hold on the device
    MaxSeeds   \* bound: seeds of a run

ASSUME WalkAssumption ==
    /\ Modes \subseteq {"random", "passphrase", "cuda"}
    /\ BatchNum \in Nat \ {0} /\ Loop \in Nat /\ Loop % 8 = 0
    /\ Top \in Nat /\ Top % 8 = 0 /\ Order \in Nat \ {0}
    /\ SizeWrap \in Nat /\ SizeWrap <= 2 * Top /\ 8 * BatchNum + Loop < SizeWrap
    /\ Stray \subseteq Nat
    /\ MaxSeeds \in Nat

VARIABLES
    mode, skipnear, warnnear,  \* the options
    pc,
    sk,           \* the secret scalar
    pub,          \* ge_public (P on the device)
    counter, oldcounter,
    batch,        \* pk_batch
    width, b,     \* points in the batch, the one looked at
    seednear,
    endwork,
    seeds,        \* history: seeds taken
    looked,       \* history: points of this seed looked at
    outputs       \* history: keys handed to onionready

optionVars == <<mode, skipnear, warnnear>>
walkVars == <<sk, pub, counter, oldcounter>>
batchVars == <<batch, width, b>>
vars == <<optionVars, pc, walkVars, batchVars, seednear, endwork, seeds, looked, outputs>>

Scalar == 0 .. 4 * Top - 1

\* The bits the code tests after every addition, and ed25519_seckey_expand sets.
Clamped(s) == s % 8 = 0 /\ Top <= s /\ s < 2 * Top

\* addsztoscalar32: a sum of 32 bytes, the last carry is dropped.
AddSz(s, v) == IF s + v < 4 * Top THEN s + v ELSE s + v - 4 * Top

AddSize(x, y) == IF x + y < SizeWrap THEN x + y ELSE x + y - SizeWrap

\* Mutant of Advance: the counter of the last match is not subtracted.
AdvanceFromStart == AddSz(sk, counter + b * 8)

\* The scalar of the point at b, from that of the last match of this seed.
Advance == AddSz(sk, counter + b * 8 - oldcounter)

\* Points of b0, b0 + 8, ... as the additions of ge_eightpoint give them.
Points(p, count) == [i \in 0 .. count - 1 |-> p + 8 * i]

\* Mutant of Limit: the loops leave no room for the last batch.
LimitTooHigh == IF mode = "random" THEN SizeWrap - 1 ELSE Loop

\* The loop goes on below this: a size_t in both modes (an int that is
\* negative becomes large); the kernel looks at one batch of a seed.
Limit == CASE mode = "random" -> SizeWrap - 1 - 8 * BatchNum
           [] mode = "passphrase" ->
                LET l == Loop - (BatchNum - 1) * 8 IN IF l < 0 THEN l + SizeWrap ELSE l
           [] mode = "cuda" -> 1

Init ==
    /\ mode \in Modes
    /\ skipnear \in BOOLEAN /\ warnnear \in BOOLEAN
    /\ ~(skipnear /\ warnnear)
    /\ mode # "passphrase" => ~skipnear /\ ~warnnear
    /\ pc = "initseed"
    /\ sk = 0 /\ pub = 0 /\ counter = 0 /\ oldcounter = 0
    /\ batch = Points(0, 0) /\ width = 0 /\ b = 0
    /\ seednear = FALSE
    /\ endwork = FALSE
    /\ seeds = 0 /\ looked = 0 /\ outputs = {}

\* The multiple of the base point a scalar is expanded to.  On the device
\* expand256_modm reads 64 bytes of the 32 of a0.
Multiples(a) == IF mode = "cuda" THEN {a + 4 * Top * x : x \in Stray} ELSE {a}

\* A seed, from randombytes, determseed or the device's generator.
InitSeed ==
    /\ pc = "initseed" /\ seeds < MaxSeeds
    /\ mode = "cuda" => ~endwork
    /\ seednear' = FALSE
    /\ \E a \in Scalar :
          /\ Clamped(a)
          /\ sk' = a
          /\ pub' \in Multiples(a)
    /\ counter' = 0 /\ oldcounter' = 0
    /\ seeds' = seeds + 1
    /\ looked' = 0
    /\ pc' = "head"
    /\ UNCHANGED <<optionVars, batchVars, endwork, outputs>>

Fill(count) ==
    /\ batch' = Points(pub, count)
    /\ pub' = pub + 8 * count
    /\ width' = count
    /\ b' = 0
    /\ pc' = "filter"
    /\ UNCHANGED <<optionVars, sk, counter, oldcounter, seednear, endwork, seeds, looked,
                   outputs>>

StartBatch ==
    /\ pc = "head" /\ counter < Limit
    /\ mode # "cuda" => ~endwork
    /\ Fill(BatchNum)

Remaining == (Loop - counter) \div 8

\* The last points of a seed, where BATCHNUM does not divide their number.
StartRest ==
    /\ pc = "head" /\ counter >= Limit
    /\ mode = "passphrase" /\ counter < Loop /\ ~endwork
    /\ Fill(Remaining)

\* The end of the thread, looked for before each batch (by the kernel, before
\* each seed).
Stop ==
    /\ endwork
    /\ \/ pc = "head" /\ mode # "cuda" /\ counter < Limit
       \/ pc = "head" /\ mode = "passphrase" /\ counter < Loop
       \/ pc = "initseed" /\ mode = "cuda"
    /\ pc' = "end"
    /\ UNCHANGED <<optionVars, walkVars, batchVars, seednear, endwork, seeds, looked, outputs>>

LeaveLoop ==
    /\ pc = "head" /\ counter >= Limit
    /\ mode = "passphrase" => counter >= Loop
    /\ pc' = "exhausted"
    /\ UNCHANGED <<optionVars, walkVars, batchVars, seednear, endwork, seeds, looked, outputs>>

\* The goto behind the loops.
NextSeed ==
    /\ pc = "exhausted"
    /\ pc' = "initseed"
    /\ UNCHANGED <<optionVars, walkVars, batchVars, seednear, endwork, seeds, looked, outputs>>

\* The next point of the batch, or the next batch; the last, short batch is
\* followed by the goto.
Step ==
    /\ looked' = looked + 1
    /\ IF b + 1 < width
          THEN b' = b + 1 /\ UNCHANGED <<pc, counter>>
          ELSE /\ b' = 0
               /\ IF counter < Limit
                     THEN pc' = "head" /\ counter' = AddSize(counter, 8 * BatchNum)
                     ELSE pc' = "exhausted" /\ UNCHANGED counter

NoMatch ==
    /\ pc = "filter"
    /\ Step
    /\ UNCHANGED <<optionVars, sk, pub, oldcounter, batch, width, seednear, endwork, seeds,
                   outputs>>

\* The sum is no clamped scalar any more: the seed is given up.
Overflow ==
    /\ pc = "filter"
    /\ ~Clamped(Advance)
    /\ sk' = Advance
    /\ oldcounter' = counter + b * 8
    /\ pc' = "initseed"
    /\ UNCHANGED <<optionVars, pub, counter, batchVars, seednear, endwork, seeds, looked,
                   outputs>>

\* Mutant of Match: seednear is not set.
MatchNotNear ==
    /\ pc = "filter"
    /\ Clamped(Advance)
    /\ sk' = Advance
    /\ oldcounter' = counter + b * 8
    /\ outputs' = outputs \cup {[seed |-> seeds, at |-> b * 8 + counter, sk |-> Advance,
                                 pk |-> batch[b], warn |-> seednear /\ warnnear]}
    /\ IF mode = "passphrase" /\ ~skipnear
          THEN Step
          ELSE pc' = "initseed" /\ UNCHANGED <<looked, b, counter>>
    /\ UNCHANGED <<optionVars, pub, batch, width, seednear, endwork, seeds>>

\* The key is made and handed to onionready, in passphrase mode with the flag
\* that it is near another.
Match ==
    /\ pc = "filter"
    /\ Clamped(Advance)
    /\ sk' = Advance
    /\ oldcounter' = counter + b * 8
    /\ outputs' = outputs \cup {[seed |-> seeds, at |-> b * 8 + counter, sk |-> Advance,
                                 pk |-> batch[b], warn |-> seednear /\ warnnear]}
    /\ IF mode = "passphrase" /\ ~skipnear
          THEN seednear' = TRUE /\ Step
          ELSE pc' = "initseed" /\ UNCHANGED <<seednear, looked, b, counter>>
    /\ UNCHANGED <<optionVars, pub, batch, width, endwork, seeds>>

EndWork ==
    /\ ~endwork
    /\ endwork' = TRUE
    /\ UNCHANGED <<optionVars, pc, walkVars, batchVars, seednear, seeds, looked, outputs>>

Terminated == (pc = "end" \/ (pc = "initseed" /\ seeds = MaxSeeds)) /\ UNCHANGED vars

Next ==
    \/ InitSeed \/ StartBatch \/ StartRest \/ Stop \/ LeaveLoop \/ NextSeed
    \/ NoMatch \/ Overflow \/ Match
    \/ EndWork
    \/ Terminated

Spec == Init /\ [][Next]_vars

Output == [seed : Nat, at : Nat, sk : Scalar, pk : Nat, warn : BOOLEAN]

\* Every variable has its type.
TypeOK ==
    /\ mode \in Modes
    /\ skipnear \in BOOLEAN /\ warnnear \in BOOLEAN
    /\ seednear \in BOOLEAN /\ endwork \in BOOLEAN
    /\ pc \in {"initseed", "head", "filter", "exhausted", "end"}
    /\ sk \in Scalar /\ pub \in Nat
    /\ counter \in 0 .. SizeWrap - 1 /\ oldcounter \in 0 .. SizeWrap - 1
    /\ width \in 0 .. BatchNum
    /\ batch \in [0 .. width - 1 -> Nat]
    /\ b \in 0 .. BatchNum - 1
    /\ seeds \in Nat /\ looked \in Nat
    /\ outputs \subseteq Output

\* The secret key handed out is the one of the public key that matched, after
\* any number of batches and of earlier matches of the same seed, and a scalar
\* that the network's implementations accept (worker_batch_pass.inc.h:96-104).
KeyPairMatches ==
    \A o \in outputs : (o.pk - o.sk) % Order = 0 /\ Clamped(o.sk)

\* A seed is left for the next only when each of its points was looked at once,
\* also where batches do not divide their number, and no counter wrapped on the
\* way: a run that resumes behind it misses nothing
\* (worker_batch_pass.inc.h:62-203, worker_batch.inc.h:52-113).
EachPointOnce ==
    /\ pc = "filter" => counter + 8 * b = 8 * looked
    /\ pc = "exhausted" /\ mode = "passphrase" => 8 * looked = Loop

\* Two keys made from the same seed give each other away: it happens only to
\* passphrases without --skipnear, and with --warnnear only one of such keys is
\* written without a warning (main.c:134-138, worker_batch_pass.inc.h:49-123).
KeysApart ==
    \A o, p \in outputs :
        o # p /\ o.seed = p.seed =>
            /\ mode = "passphrase" /\ ~skipnear
            /\ warnnear => o.warn \/ p.warn
=============================================================================
