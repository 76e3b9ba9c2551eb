-------------------------- MODULE WalkCodecProofs --------------------------
(***************************************************************************)
(* Proofs about what a key, a checkpoint and a text are computed with: the *)
(* walk of a worker from its seed, for any sizes of batch, seed, size_t    *)
(* and scalar such that one batch fits a seed; the bytes of a checkpoint,  *)
(* for any base and any length; and base16, base32 and base64, for any     *)
(* length.                                                                 *)
(***************************************************************************)
EXTENDS BatchWalk, CheckpointCodec, CodecChecks, WellFoundedInduction, FiniteSetTheorems, TLAPS

(* The walk on the CPU. *)

\* On the CPU nothing strays into the scalar, and the int behind Limit is not
\* negative.
OnCpu == "cuda" \notin Modes /\ (BatchNum - 1) * 8 <= Loop

\* Where the walk is: the points of the batch are those of the scalar that the
\* secret was when counter was oldcounter.
AtHead ==
    pc = "head" =>
        /\ Clamped(sk)
        /\ oldcounter <= counter
        /\ pub + oldcounter = sk + counter
        /\ counter = 8 * looked
        /\ mode = "passphrase" => counter <= Loop
AtFilter ==
    pc = "filter" =>
        /\ Clamped(sk)
        /\ b < width
        /\ oldcounter <= counter + 8 * b
        /\ counter + 8 * width < SizeWrap
        /\ pub + oldcounter = sk + counter + 8 * width
        /\ \A i \in 0 .. width - 1 : batch[i] + oldcounter = sk + counter + 8 * i
        /\ counter + 8 * b = 8 * looked
        /\ counter < Limit => width = BatchNum
        /\ counter >= Limit => mode = "passphrase"
        /\ mode = "passphrase" =>
              /\ counter + 8 * width <= Loop
              /\ counter >= Limit => counter + 8 * width = Loop
AtEnd == pc = "exhausted" /\ mode = "passphrase" => 8 * looked = Loop
KeysMatch == \A o \in outputs : o.pk = o.sk /\ Clamped(o.sk)

\* The inductive invariant.
IInv ==
    /\ TypeOK
    /\ AtHead
    /\ AtFilter
    /\ AtEnd
    /\ KeysMatch

\* Where the loop of batches ends, in the two modes of the CPU.
LEMMA LimitValue ==
    ASSUME OnCpu, mode \in Modes
    PROVE  \/ mode = "random" /\ Limit = SizeWrap - 1 - 8 * BatchNum
           \/ mode = "passphrase" /\ Limit = Loop - 8 * BatchNum + 8
BY WalkAssumption DEF OnCpu, Limit

LEMMA LimitSame == ASSUME mode' = mode PROVE Limit' = Limit
BY DEF Limit

\* The secret made for the point at b is the multiplier of that point: no sum
\* of a clamped scalar and a size_t loses a carry.
LEMMA AdvanceIsPoint ==
    ASSUME TypeOK, AtFilter, pc = "filter"
    PROVE  Advance = batch[b] /\ Advance \in Scalar
<1>1. /\ b \in 0 .. width - 1 /\ width \in Nat
      /\ sk \in Nat /\ counter \in Nat /\ oldcounter \in Nat /\ Top \in Nat
      /\ sk < 2 * Top /\ SizeWrap <= 2 * Top /\ SizeWrap \in Nat
  BY WalkAssumption DEF TypeOK, AtFilter, Clamped, Scalar
<1>2. batch[b] + oldcounter = sk + counter + 8 * b /\ batch[b] \in Nat
  BY <1>1 DEF TypeOK, AtFilter
<1>3. oldcounter <= counter + 8 * b /\ counter + 8 * width < SizeWrap
  BY DEF AtFilter
<1>4. counter + 8 * b < SizeWrap
  BY <1>1, <1>3
<1>5. sk + (counter + b * 8 - oldcounter) = batch[b] /\ batch[b] < 4 * Top
  BY <1>1, <1>2, <1>3, <1>4
<1>. QED
  BY <1>1, <1>2, <1>5 DEF Advance, AddSz, Scalar

\* Looking at a point leads to the next one, to the next batch or to the end.
LEMMA StepKeeps ==
    ASSUME OnCpu, IInv, pc = "filter", Step,
           Clamped(sk'), sk' + oldcounter = sk + oldcounter', sk' \in Scalar,
           oldcounter' \in {oldcounter, counter + b * 8},
           UNCHANGED <<optionVars, pub, batch, width>>
    PROVE  /\ b' \in 0 .. BatchNum - 1 /\ counter' \in 0 .. SizeWrap - 1
           /\ oldcounter' \in 0 .. SizeWrap - 1 /\ looked' \in Nat
           /\ pc' \in {"head", "filter", "exhausted"}
           /\ AtHead' /\ AtFilter' /\ AtEnd'
<1>. USE WalkAssumption DEF OnCpu, IInv, TypeOK, optionVars
<1>1. CASE b + 1 < width
  <2>1. b' = b + 1 /\ pc' = "filter" /\ counter' = counter /\ looked' = looked + 1
    BY <1>1 DEF Step
  <2>2. Limit' = Limit
    BY LimitSame
  <2>3. sk \in Int /\ sk' \in Int /\ oldcounter \in Int /\ oldcounter' \in Int /\ counter \in Int
        /\ pub \in Int /\ width \in Int /\ b \in Int /\ sk' + oldcounter = sk + oldcounter'
        /\ batch \in [0 .. width - 1 -> Nat]
    BY DEF Scalar
  <2>4. oldcounter' \in 0 .. SizeWrap - 1 /\ oldcounter' <= counter' + 8 * b'
    BY <1>1, <2>1, <2>3 DEF AtFilter
  <2>. PICK s1 \in Int, o1 \in Int : s1 = sk' /\ o1 = oldcounter'
    BY <2>3
  <2>5. s1 + oldcounter = sk + o1 /\ oldcounter \in Int /\ sk \in Int
    BY <2>3
  <2>6. pub' + oldcounter' = sk' + counter' + 8 * width'
    <3>. DEFINE e == counter + 8 * width
    <3>1. pub + oldcounter = sk + e /\ e \in Int /\ pub \in Int
      BY <2>3 DEF AtFilter
    <3>. HIDE DEF e
    <3>2. pub + o1 = s1 + e
      BY ONLY <2>5, <3>1
    <3>. USE DEF e
    <3>. QED
      BY <2>1, <2>3, <3>2
  <2>7. \A i \in 0 .. width' - 1 : batch'[i] + oldcounter' = sk' + counter' + 8 * i
    <3>1. ASSUME NEW i \in 0 .. width - 1 PROVE batch[i] + o1 = s1 + counter + 8 * i
      <4>. DEFINE e == counter + 8 * i
                  p == batch[i]
      <4>1. p + oldcounter = sk + e /\ e \in Int /\ p \in Int
        BY <2>3 DEF AtFilter
      <4>. HIDE DEF e, p
      <4>2. p + o1 = s1 + e
        BY ONLY <2>5, <4>1
      <4>. USE DEF e, p
      <4>. QED
        BY <2>3, <4>2
    <3>. QED
      BY <2>1, <3>1
  <2>8. counter' + 8 * b' = 8 * looked' /\ b' < width' /\ b' \in 0 .. BatchNum - 1
    BY <1>1, <2>1 DEF AtFilter
  <2>. QED
    BY <2>1, <2>2, <2>4, <2>6, <2>7, <2>8 DEF AtFilter, AtHead, AtEnd
<1>2. CASE ~(b + 1 < width) /\ counter < Limit
  <2>1. /\ b + 1 = width /\ width = BatchNum
        /\ counter + 8 * BatchNum < SizeWrap
    BY <1>2 DEF AtFilter
  <2>2. /\ b' = 0 /\ pc' = "head" /\ looked' = looked + 1
        /\ counter' = counter + 8 * BatchNum
    BY <1>2, <2>1 DEF Step, AddSize
  <2>3. pub + oldcounter = sk + counter + 8 * BatchNum /\ counter + 8 * b = 8 * looked
        /\ oldcounter <= counter + 8 * b
        /\ (mode = "passphrase" => counter + 8 * BatchNum <= Loop)
    BY <2>1 DEF AtFilter
  <2>4. sk \in Int /\ sk' \in Int
    BY DEF Scalar
  <2>5. counter' = 8 * looked' /\ (mode' = "passphrase" => counter' <= Loop)
    BY <2>1, <2>2, <2>3
  <2>6. oldcounter' \in Int /\ oldcounter' <= counter' /\ oldcounter' \in 0 .. SizeWrap - 1
    <3>1. oldcounter \in 0 .. SizeWrap - 1 /\ counter \in Nat /\ b \in Nat
      OBVIOUS
    <3>2. BatchNum \in Nat /\ SizeWrap \in Nat /\ oldcounter' \in {oldcounter, counter + b * 8}
      OBVIOUS
    <3>. HIDE WalkAssumption DEF IInv, TypeOK, OnCpu
    <3>3. b * 8 <= 8 * BatchNum
      BY <2>1, <3>1, <3>2
    <3>. QED
      BY <2>1, <2>2, <2>3, <3>1, <3>2, <3>3
  <2>7. pub' + oldcounter' = sk' + counter'
    <3>. PICK s1 \in Int, o1 \in Int : s1 = sk' /\ o1 = oldcounter'
      BY <2>4, <2>6
    <3>. DEFINE e == counter + 8 * BatchNum
    <3>1. /\ s1 + oldcounter = sk + o1 /\ oldcounter \in Int /\ sk \in Int
          /\ pub + oldcounter = sk + e /\ e \in Int /\ pub \in Int /\ pub' = pub
      BY <2>3, <2>4
    <3>. HIDE DEF e
    <3>2. pub + o1 = s1 + e
      BY ONLY <3>1
    <3>. USE DEF e
    <3>. QED
      BY <2>2, <3>1, <3>2
  <2>8. b' \in 0 .. BatchNum - 1 /\ counter' \in 0 .. SizeWrap - 1 /\ looked' \in Nat
    BY <2>1, <2>2
  <2>9. Clamped(sk') /\ pc' = "head"
    BY <2>2
  <2>. HIDE WalkAssumption DEF IInv, TypeOK, OnCpu
  <2>. QED
    BY <2>5, <2>6, <2>7, <2>8, <2>9 DEF AtFilter, AtHead, AtEnd
<1>3. CASE ~(b + 1 < width) /\ ~(counter < Limit)
  <2>1. Limit \in Int
    BY LimitValue
  <2>2. b + 1 = width /\ (mode = "passphrase" => counter + 8 * width = Loop)
    BY <1>3, <2>1 DEF AtFilter
  <2>3. b' = 0 /\ pc' = "exhausted" /\ looked' = looked + 1 /\ counter' = counter
    BY <1>3 DEF Step
  <2>4. oldcounter' \in 0 .. SizeWrap - 1
    BY DEF AtFilter
  <2>5. mode' = "passphrase" => 8 * looked' = Loop
    BY <2>2, <2>3 DEF AtFilter
  <2>. QED
    BY <2>3, <2>4, <2>5 DEF AtFilter, AtHead, AtEnd
<1>. QED
  BY <1>1, <1>2, <1>3

LEMMA WalkInit == Init => IInv
<1>. SUFFICES ASSUME Init PROVE IInv
  OBVIOUS
<1>1. batch \in [0 .. width - 1 -> Nat]
  BY DEF Init, Points
<1>2. mode \in Modes /\ skipnear \in BOOLEAN /\ warnnear \in BOOLEAN
  BY DEF Init
<1>3. /\ sk \in Scalar /\ pub \in Nat /\ counter \in 0 .. SizeWrap - 1
      /\ oldcounter \in 0 .. SizeWrap - 1 /\ width \in 0 .. BatchNum
      /\ b \in 0 .. BatchNum - 1 /\ seeds \in Nat /\ looked \in Nat
  <2>1. 0 < 4 * Top /\ 0 < SizeWrap /\ 0 < BatchNum
    BY WalkAssumption
  <2>. QED
    BY WalkAssumption, <2>1 DEF Init, Scalar
<1>4. TypeOK
  BY <1>1, <1>2, <1>3 DEF Init, TypeOK
<1>. QED
  BY <1>4 DEF Init, IInv, AtHead, AtFilter, AtEnd, KeysMatch

\* Every step of the walk keeps the invariant.
LEMMA WalkStep ==
    ASSUME OnCpu, IInv, [Next]_vars
    PROVE  IInv'
<1>. USE WalkAssumption DEF optionVars, walkVars, batchVars, vars
<1>1. CASE InitSeed
  <2>1. PICK a \in Scalar : Clamped(a) /\ sk' = a /\ pub' \in Multiples(a)
    BY <1>1 DEF InitSeed
  <2>2. pub' = a
    BY <2>1 DEF Multiples, OnCpu, IInv, TypeOK
  <2>3. TypeOK'
    <3>1. sk' \in Scalar /\ pub' \in Nat /\ counter' \in 0 .. SizeWrap - 1
          /\ oldcounter' \in 0 .. SizeWrap - 1 /\ seeds' \in Nat /\ looked' \in Nat
      BY <1>1, <2>1, <2>2 DEF InitSeed, IInv, TypeOK, Scalar
    <3>. QED
      BY <1>1, <3>1 DEF InitSeed, IInv, TypeOK
  <2>4. AtHead'
    BY <1>1, <2>1, <2>2 DEF InitSeed, AtHead, Scalar
  <2>. QED
    BY <1>1, <2>3, <2>4 DEF InitSeed, IInv, AtFilter, AtEnd, KeysMatch
<1>2. CASE StartBatch
  <2>1. counter + 8 * BatchNum < SizeWrap /\ (mode = "passphrase" => counter + 8 * BatchNum <= Loop)
    BY <1>2, LimitValue, LimitSame DEF StartBatch, OnCpu, IInv, TypeOK, AtHead
  <2>. QED
    BY <1>2, <2>1, LimitValue, LimitSame DEF StartBatch, Fill, Points, IInv, TypeOK, AtHead, AtFilter,
        AtEnd,
       KeysMatch, Clamped, Scalar
<1>3. CASE StartRest
  <2>1. /\ Remaining \in 1 .. BatchNum
        /\ counter + 8 * Remaining = Loop
    BY <1>3, LimitValue, LimitSame DEF StartRest, Remaining, OnCpu, IInv, TypeOK, AtHead
  <2>. QED
    BY <1>3, <2>1, LimitValue, LimitSame DEF StartRest, Fill, Points, OnCpu, IInv, TypeOK, AtHead,
        AtFilter, AtEnd,
       KeysMatch, Clamped, Scalar
<1>4. CASE Stop \/ NextSeed
  BY <1>4, LimitSame DEF Stop, NextSeed, IInv, TypeOK, AtHead, AtFilter, AtEnd, KeysMatch
<1>5. CASE LeaveLoop
  BY <1>5, LimitSame, LimitValue DEF OnCpu, LeaveLoop, IInv, TypeOK, AtHead, AtFilter, AtEnd, KeysMatch
<1>6. CASE NoMatch
  <2>1. /\ b' \in 0 .. BatchNum - 1 /\ counter' \in 0 .. SizeWrap - 1 /\ looked' \in Nat
        /\ pc' \in {"head", "filter", "exhausted"}
        /\ AtHead' /\ AtFilter' /\ AtEnd'
    BY <1>6, StepKeeps DEF NoMatch, IInv, AtFilter, TypeOK, Scalar, Clamped
  <2>. QED
    BY <1>6, <2>1 DEF NoMatch, IInv, TypeOK, KeysMatch
<1>7. CASE Overflow
  <2>1. Advance \in Scalar /\ counter + b * 8 \in 0 .. SizeWrap - 1
    BY <1>7, AdvanceIsPoint DEF Overflow, IInv, AtFilter, TypeOK
  <2>. QED
    BY <1>7, <2>1 DEF Overflow, IInv, TypeOK, AtHead, AtFilter, AtEnd, KeysMatch
<1>8. CASE Match
  <2>1. Advance = batch[b] /\ Advance \in Scalar /\ counter + b * 8 \in 0 .. SizeWrap - 1
    BY <1>8, AdvanceIsPoint DEF Match, IInv, AtFilter, TypeOK
  <2>2. /\ Advance \in Nat /\ Clamped(Advance) /\ b * 8 + counter \in Nat /\ seeds \in Nat
        /\ (seednear /\ warnnear) \in BOOLEAN
    BY <1>8, <2>1 DEF Match, Scalar, IInv, TypeOK
  <2>3. outputs' \subseteq Output /\ KeysMatch'
    <3>. DEFINE near == seednear /\ warnnear
                o == [seed |-> seeds, at |-> b * 8 + counter, sk |-> Advance,
                      pk |-> batch[b], warn |-> near]
    <3>1. near \in BOOLEAN
      BY <2>2
    <3>2. outputs' = outputs \cup {o}
      BY <1>8 DEF Match
    <3>. HIDE DEF near
    <3>3. o \in Output /\ o.pk = Advance /\ o.sk = Advance
      BY <2>1, <2>2, <3>1 DEF Output
    <3>. HIDE DEF o
    <3>. QED
      BY <2>2, <3>2, <3>3 DEF IInv, TypeOK, KeysMatch
  <2>4. CASE mode = "passphrase" /\ ~skipnear
    <3>1. sk' + oldcounter = sk + oldcounter'
      BY <1>8, <2>1 DEF Match, IInv, AtFilter, TypeOK, Scalar
    <3>2. /\ b' \in 0 .. BatchNum - 1 /\ counter' \in 0 .. SizeWrap - 1
          /\ oldcounter' \in 0 .. SizeWrap - 1 /\ looked' \in Nat
          /\ pc' \in {"head", "filter", "exhausted"}
          /\ AtHead' /\ AtFilter' /\ AtEnd'
      BY <1>8, <2>1, <2>4, <3>1, StepKeeps DEF Match
    <3>. QED
      BY <1>8, <2>1, <2>3, <2>4, <3>2 DEF Match, IInv, TypeOK
  <2>5. CASE ~(mode = "passphrase" /\ ~skipnear)
    BY <1>8, <2>1, <2>3, <2>5 DEF Match, IInv, TypeOK, AtHead, AtFilter, AtEnd
  <2>. QED
    BY <2>4, <2>5
<1>9. CASE EndWork
  BY <1>9, LimitValue, LimitSame DEF EndWork, IInv, TypeOK, AtHead, AtFilter, AtEnd, KeysMatch
<1>10. CASE UNCHANGED vars
  BY <1>10, LimitValue, LimitSame DEF IInv, TypeOK, AtHead, AtFilter, AtEnd, KeysMatch
<1>. QED
  BY <1>1, <1>2, <1>3, <1>4, <1>5, <1>6, <1>7, <1>8, <1>9, <1>10 DEF Next, Terminated

THEOREM WalkInvariant == ASSUME OnCpu PROVE Spec => []IInv
<1>1. IInv /\ [Next]_vars => IInv'
  BY WalkStep
<1>. QED
  BY <1>1, WalkInit, PTL DEF Spec

\* Every variable of the walk has its type; no index leaves the batch.
THEOREM WalkTypes == ASSUME OnCpu PROVE Spec => []TypeOK
<1>1. IInv => TypeOK
  BY DEF IInv
<1>. QED
  BY <1>1, WalkInvariant, PTL

\* The secret key belongs to the public key that matched, however many matches
\* and batches came before it (worker_batch_pass.inc.h:96-104).
THEOREM WalkKeyPairMatches == ASSUME OnCpu PROVE Spec => []KeyPairMatches
<1>1. ASSUME IInv PROVE KeyPairMatches
  <2>1. ASSUME NEW o \in outputs PROVE o.pk - o.sk = 0 /\ Clamped(o.sk)
    BY <1>1, <2>1 DEF IInv, TypeOK, Output, KeysMatch
  <2>2. 0 % Order = 0
    BY WalkAssumption
  <2>. QED
    BY <2>1, <2>2 DEF KeyPairMatches
<1>. QED
  BY <1>1, WalkInvariant, PTL

\* Each point of a seed is looked at once before the next seed is taken
\* (worker_batch_pass.inc.h:62-203, worker_batch.inc.h:52-113).
THEOREM WalkEachPointOnce == ASSUME OnCpu PROVE Spec => []EachPointOnce
<1>1. IInv => EachPointOnce
  BY DEF IInv, AtFilter, AtEnd, EachPointOnce
<1>. QED
  BY <1>1, WalkInvariant, PTL
-----------------------------------------------------------------------------
(* Keys of the same seed, on the CPU and on the device, for any constants. *)

\* A walk that is still going on has handed out no key of its seed, or it may
\* hand out another and says so.
SeedInv ==
    /\ seeds \in Nat
    /\ \A o \in outputs : o.seed \in Nat /\ o.seed <= seeds
    /\ pc \in {"head", "filter", "exhausted"} =>
          \A o \in outputs : o.seed = seeds => mode = "passphrase" /\ ~skipnear /\ seednear
    /\ KeysApart

\* A key is not handed out near another unless the options allow it, and then
\* not without the warning that is due (worker_batch_pass.inc.h:49-123).
THEOREM WalkKeysApart == Spec => []KeysApart
<1>1. Init => SeedInv
  BY DEF Init, SeedInv, KeysApart
<1>2. SeedInv /\ [Next]_vars => SeedInv'
  <2>. SUFFICES ASSUME SeedInv, [Next]_vars PROVE SeedInv'
    OBVIOUS
  <2>1. CASE Match
    <3>. DEFINE new == [seed |-> seeds, at |-> b * 8 + counter, sk |-> Advance,
                        pk |-> batch[b], warn |-> seednear /\ warnnear]
    <3>1. outputs' = outputs \cup {new} /\ pc = "filter" /\ UNCHANGED <<seeds, optionVars>>
      BY <2>1 DEF Match
    <3>2. new.seed = seeds /\ new.warn = (seednear /\ warnnear)
      OBVIOUS
    <3>. HIDE DEF new
    <3>3. \A p \in outputs : p.seed = seeds =>
              mode = "passphrase" /\ ~skipnear /\ (warnnear => new.warn)
      BY <3>1, <3>2 DEF SeedInv
    <3>4. KeysApart'
      BY <3>1, <3>2, <3>3 DEF SeedInv, KeysApart, optionVars
    <3>5. pc' # "initseed" => mode = "passphrase" /\ ~skipnear /\ seednear'
      BY <2>1 DEF Match
    <3>. QED
      BY <3>1, <3>2, <3>4, <3>5 DEF SeedInv, optionVars
  <2>2. CASE InitSeed
    BY <2>2 DEF InitSeed, SeedInv, KeysApart, optionVars
  <2>3. CASE NoMatch
    BY <2>3 DEF NoMatch, Step, SeedInv, KeysApart, optionVars
  <2>4. CASE Overflow
    BY <2>4 DEF Overflow, SeedInv, KeysApart, optionVars
  <2>5. CASE StartBatch \/ StartRest
    BY <2>5 DEF StartBatch, StartRest, Fill, SeedInv, KeysApart, optionVars
  <2>6. CASE Stop \/ LeaveLoop \/ NextSeed \/ EndWork
    BY <2>6 DEF Stop, LeaveLoop, NextSeed, EndWork, SeedInv, KeysApart, optionVars
  <2>7. CASE Terminated \/ UNCHANGED vars
    BY <2>7 DEF Terminated, vars, SeedInv, KeysApart, optionVars
  <2>. QED
    BY <2>1, <2>2, <2>3, <2>4, <2>5, <2>6, <2>7 DEF Next
<1>3. SeedInv => KeysApart
  BY DEF SeedInv
<1>. QED
  BY <1>1, <1>2, <1>3, PTL DEF Spec
-----------------------------------------------------------------------------
(* The round trip of a checkpoint. *)

\* The borrow into index j of a saved seed: both loops find the same one,
\* because the load loop compares the seed that came back.
Borrow(c, d, j) == IF j = 0 THEN 0 ELSE Bit(c[j - 1] > d[j - 1])

\* What one turn of the save loop leaves at index j.
Saved(c, d, o, j) == c[j] = Byte(d[j] - o[j] - Borrow(c, d, j))

\* The inductive invariant: what is behind the loop variable is saved (loaded),
\* and carry is the borrow into the next index in both loops.
CodecInv ==
    /\ CodecTypeOK
    /\ phase = "save" =>
          /\ loaded = orig
          /\ \A j \in Index : j < pos => Saved(cp, det, orig, j)
          /\ carry = Borrow(cp, det, pos)
    /\ phase # "save" => \A j \in Index : Saved(cp, det, orig, j)
    /\ phase = "load" =>
          /\ \A j \in Index : loaded[j] = IF j < pos THEN det[j] ELSE orig[j]
          /\ carry = Borrow(cp, det, pos)
    /\ phase = "done" => loaded = det

\* The bytes the two loops compute are bytes.
LEMMA ByteRange ==
    ASSUME NEW x \in Digit, NEW y \in Digit, NEW k \in 0 .. 1
    PROVE  Byte(x - y - k) \in Digit /\ Byte(x + y + k) \in Digit
BY CodecAssumption DEF Digit, Byte

\* Adding what was subtracted, with the same carry, gives the byte back.
LEMMA ByteInverse ==
    ASSUME NEW x \in Digit, NEW y \in Digit, NEW k \in 0 .. 1
    PROVE  Byte(y + Byte(x - y - k) + k) = x
BY CodecAssumption DEF Digit, Byte

LEMMA BorrowRange ==
    ASSUME NEW c, NEW d, NEW j PROVE Borrow(c, d, j) \in 0 .. 1
BY DEF Borrow, Bit

LEMMA CodecBegins == CodecInit => CodecInv
<1> SUFFICES ASSUME CodecInit PROVE CodecInv
    OBVIOUS
<1>1. CodecTypeOK
  BY CodecAssumption DEF CodecInit, CodecTypeOK, Seed, Index, Digit
<1>2. \A j \in Index : ~(j < pos)
  BY DEF CodecInit, Index
<1>. QED
  BY <1>1, <1>2 DEF CodecInit, CodecInv, Borrow

LEMMA CodecGoesOn == CodecInv /\ [CodecNext]_codecVars => CodecInv'
<1> SUFFICES ASSUME CodecInv, [CodecNext]_codecVars PROVE CodecInv'
    OBVIOUS
<1>. USE CodecAssumption
<1>1. CASE SaveByte
  <2>1. pos \in Index /\ det[pos] \in Digit /\ orig[pos] \in Digit /\ carry \in 0 .. 1
    BY <1>1 DEF SaveByte, CodecInv, CodecTypeOK, Seed, Index
  <2>2. Byte(det[pos] - orig[pos] - carry) \in Digit
    BY <2>1, ByteRange
  <2>3. CodecTypeOK'
    BY <1>1, <2>1, <2>2 DEF SaveByte, CodecInv, CodecTypeOK, Seed, Index, Bit
  <2>4. \A j \in Index : cp'[j] = IF j = pos THEN Byte(det[pos] - orig[pos] - carry) ELSE cp[j]
    BY <1>1 DEF SaveByte, CodecInv, CodecTypeOK, Seed
  <2>5. \A j \in Index : j <= pos => Borrow(cp', det, j) = Borrow(cp, det, j)
    BY <2>1, <2>4 DEF Borrow, Index
  <2>6. \A j \in Index : j < pos + 1 => Saved(cp', det, orig, j)
    <3>1. ASSUME NEW j \in Index, j < pos PROVE Saved(cp', det, orig, j)
      <4>1. cp'[j] = cp[j] /\ Borrow(cp', det, j) = Borrow(cp, det, j)
        BY <2>1, <2>4, <2>5, <3>1 DEF Index
      <4>2. Saved(cp, det, orig, j)
        BY <1>1, <3>1 DEF SaveByte, CodecInv
      <4>. QED
        BY <4>1, <4>2 DEF Saved
    <3>2. Saved(cp', det, orig, pos)
      <4>1. carry = Borrow(cp, det, pos)
        BY <1>1 DEF SaveByte, CodecInv
      <4>2. Borrow(cp', det, pos) = Borrow(cp, det, pos)
        BY <2>1, <2>5 DEF Index
      <4>3. cp'[pos] = Byte(det[pos] - orig[pos] - carry)
        BY <2>1, <2>4
      <4>. QED
        BY <4>1, <4>2, <4>3 DEF Saved
    <3>. QED
      BY <2>1, <3>1, <3>2 DEF Index
  <2>7. carry' = Borrow(cp', det, pos + 1)
    BY <1>1, <2>1 DEF SaveByte, Borrow, Index
  <2>. QED
    BY <1>1, <2>3, <2>6, <2>7 DEF SaveByte, CodecInv
<1>2. CASE Restart
  <2>1. \A j \in Index : j < SeedLen /\ ~(j < 0)
    BY DEF Index
  <2>. QED
    BY <1>2, <2>1 DEF Restart, CodecInv, CodecTypeOK, Index, Borrow
<1>3. CASE LoadByte
  <2>1. pos \in Index /\ carry = Borrow(cp, det, pos) /\ carry \in 0 .. 1
    BY <1>3 DEF LoadByte, CodecInv, CodecTypeOK, Index
  <2>2. det[pos] \in Digit /\ orig[pos] \in Digit /\ loaded[pos] = orig[pos]
    BY <1>3, <2>1 DEF LoadByte, CodecInv, CodecTypeOK, Seed, Index
  <2>3. cp[pos] = Byte(det[pos] - orig[pos] - carry)
    BY <1>3, <2>1 DEF LoadByte, CodecInv, Saved
  <2>4. Byte(loaded[pos] + cp[pos] + carry) = det[pos]
    BY <2>1, <2>2, <2>3, ByteInverse
  <2>5. loaded' = [loaded EXCEPT ![pos] = det[pos]]
    BY <1>3, <2>4 DEF LoadByte
  <2>6. CodecTypeOK'
    BY <1>3, <2>1, <2>2, <2>5 DEF LoadByte, CodecInv, CodecTypeOK, Seed, Index, Bit
  <2>7. \A j \in Index : loaded'[j] = IF j < pos + 1 THEN det[j] ELSE orig[j]
    BY <1>3, <2>1, <2>5 DEF LoadByte, CodecInv, CodecTypeOK, Seed, Index
  <2>8. loaded'[pos] < cp[pos] <=> cp[pos] > det[pos]
    <3>1. loaded'[pos] = det[pos]
      BY <2>1, <2>7 DEF Index
    <3>2. cp[pos] \in Digit
      BY <2>1 DEF CodecInv, CodecTypeOK, Seed
    <3>. QED
      BY <2>2, <3>1, <3>2 DEF Digit
  <2>9. carry' = Borrow(cp, det, pos + 1)
    BY <1>3, <2>1, <2>8 DEF LoadByte, Borrow, Index, Bit
  <2>. QED
    BY <1>3, <2>6, <2>7, <2>9 DEF LoadByte, CodecInv
<1>4. CASE Loaded
  <2>1. \A j \in Index : loaded[j] = det[j]
    BY <1>4 DEF Loaded, CodecInv, Index
  <2>2. loaded = det
    BY <2>1 DEF CodecInv, CodecTypeOK, Seed
  <2>. QED
    BY <1>4, <2>2 DEF Loaded, CodecInv, CodecTypeOK
<1>5. CASE UNCHANGED codecVars
  BY <1>5 DEF codecVars, CodecInv, CodecTypeOK
<1>. QED
  BY <1>1, <1>2, <1>3, <1>4, <1>5 DEF CodecNext, CodecTerminated

\* Loading a checkpoint resumes at exactly the saved seed, for every pair of
\* seeds of any length to any base (main.c:221-224 against 670-673).
THEOREM CodecRoundTrip == CodecSpec => []RoundTrip
<1>1. CodecInv => RoundTrip
  BY DEF CodecInv, RoundTrip
<1>. QED
  BY <1>1, CodecBegins, CodecGoesOn, PTL DEF CodecSpec

\* Every byte the loops store is a byte.
THEOREM CodecTypes == CodecSpec => []CodecTypeOK
<1>1. CodecInv => CodecTypeOK
  BY DEF CodecInv
<1>. QED
  BY <1>1, CodecBegins, CodecGoesOn, PTL DEF CodecSpec


-----------------------------------------------------------------------------
(* Bits in the order of the stream *)

\* The bit of a byte string at a place of the stream, and the place of a bit.
Flip(s) == (s \div 8) * 8 + 7 - (s % 8)
\* The bit of a text at a place of the stream.
DigitBit(text, charBits, s) == charBits - 1 - (s % charBits) \in text[s \div charBits + 1]

LEMMA FlipTwice ==
    ASSUME NEW s \in Int
    PROVE  /\ Flip(s) \in Int /\ Flip(Flip(s)) = s
           /\ Flip(s) \div 8 = s \div 8 /\ Flip(s) % 8 = 7 - (s % 8)
<1>. DEFINE j == s \div 8  bit == s % 8
<1>1. j \in Int /\ bit \in 0 .. 7 /\ s = 8 * j + bit
  OBVIOUS
<1>2. Flip(s) = 8 * j + (7 - bit)
  BY <1>1 DEF Flip
<1>. HIDE DEF j, bit
<1>3. Flip(s) \div 8 = j /\ Flip(s) % 8 = 7 - bit
  BY <1>1, <1>2
<1>4. s \div 8 = j /\ s % 8 = bit
  BY <1>1
<1>5. Flip(Flip(s)) = j * 8 + 7 - (7 - bit)
  BY ONLY <1>3 DEF Flip
<1>. QED
  BY ONLY <1>1, <1>2, <1>3, <1>4, <1>5

LEMMA FlipWithin ==
    ASSUME NEW s \in Int, NEW n \in Int
    PROVE  (Flip(s) < 8 * n <=> s < 8 * n) /\ (0 <= Flip(s) <=> 0 <= s)
<1>. DEFINE j == s \div 8  bit == s % 8
<1>1. j \in Int /\ bit \in 0 .. 7 /\ s = 8 * j + bit
  OBVIOUS
<1>2. Flip(s) = 8 * j + (7 - bit)
  BY <1>1 DEF Flip
<1>. HIDE DEF j, bit
<1>. QED
  BY <1>1, <1>2

LEMMA Streams ==
    ASSUME NEW bytes \in SUBSET Int
    PROVE  \A s : s \in ByteStream(bytes) <=> s \in Int /\ Flip(s) \in bytes
<1>1. \A bit \in bytes : bit \in Int /\ Flip(bit) \in Int /\ Flip(Flip(bit)) = bit
  BY FlipTwice
<1>2. ByteStream(bytes) = {Flip(bit) : bit \in bytes}
  BY DEF ByteStream, Flip
<1>3. ASSUME NEW s \in Int, Flip(s) \in bytes PROVE s \in {Flip(bit) : bit \in bytes}
  <2>1. s = Flip(Flip(s))
    BY FlipTwice
  <2>. QED
    BY <1>3, <2>1
<1>. QED
  BY <1>1, <1>2, <1>3

\* Each place of a text is a bit of one digit.
LEMMA Places ==
    ASSUME NEW charBits \in {4, 5, 6}, NEW n \in Nat, NEW s \in 0 .. charBits * n - 1
    PROVE  /\ s \div charBits \in 0 .. n - 1 /\ s % charBits \in 0 .. charBits - 1
           /\ s = (s \div charBits) * charBits + (s % charBits)
<1>1. CASE charBits = 4
  BY <1>1
<1>2. CASE charBits = 5
  BY <1>2
<1>3. CASE charBits = 6
  BY <1>3
<1>. QED
  BY <1>1, <1>2, <1>3

LEMMA PlaceOf ==
    ASSUME NEW charBits \in {4, 5, 6}, NEW n \in Int, NEW c \in 0 .. charBits - 1
    PROVE  LET s == n * charBits - 1 - c
           IN  s \in Int /\ s \div charBits = n - 1 /\ s % charBits = charBits - 1 - c
<1>1. CASE charBits = 4
  BY <1>1
<1>2. CASE charBits = 5
  BY <1>2
<1>3. CASE charBits = 6
  BY <1>3
<1>. QED
  BY <1>1, <1>2, <1>3

LEMMA TextStreams ==
    ASSUME NEW charBits \in {4, 5, 6}, NEW n \in Nat, NEW text, DOMAIN text = 1 .. n
    PROVE  \A s : s \in TextStream(text, charBits)
                      <=> s \in 0 .. charBits * n - 1 /\ DigitBit(text, charBits, s)
<1>1. ASSUME NEW m \in 1 .. n, NEW c \in text[m] \cap (0 .. charBits - 1)
      PROVE  LET s == m * charBits - 1 - c
             IN  s \in 0 .. charBits * n - 1 /\ DigitBit(text, charBits, s)
  <2>. DEFINE s == m * charBits - 1 - c
  <2>0. m \in Int /\ c \in 0 .. charBits - 1
    OBVIOUS
  <2>1. s \in Int /\ s \div charBits = m - 1 /\ s % charBits = charBits - 1 - c
    BY ONLY <2>0, charBits \in {4, 5, 6}, PlaceOf
  <2>2. s \in 0 .. charBits * n - 1
    <3>1. CASE charBits = 4
      BY <3>1
    <3>2. CASE charBits = 5
      BY <3>2
    <3>3. CASE charBits = 6
      BY <3>3
    <3>. QED
      BY ONLY <3>1, <3>2, <3>3, charBits \in {4, 5, 6}
  <2>. HIDE DEF s
  <2>3. charBits - 1 - (s % charBits) = c /\ s \div charBits + 1 = m
    BY ONLY <2>0, <2>1, charBits \in {4, 5, 6}
  <2>4. DigitBit(text, charBits, s)
    BY <2>3 DEF DigitBit
  <2>. QED
    BY <2>2, <2>4 DEF s
<1>2. ASSUME NEW s \in 0 .. charBits * n - 1, DigitBit(text, charBits, s)
      PROVE  \E m \in 1 .. n : \E c \in text[m] \cap (0 .. charBits - 1) : s = m * charBits - 1 - c
  <2>. DEFINE m == s \div charBits + 1  c == charBits - 1 - (s % charBits)
  <2>1. /\ s \div charBits \in 0 .. n - 1 /\ s % charBits \in 0 .. charBits - 1
        /\ s = (s \div charBits) * charBits + (s % charBits)
    BY Places
  <2>2. m \in 1 .. n /\ c \in 0 .. charBits - 1
    BY <2>1
  <2>3. s = m * charBits - 1 - c
    <3>1. CASE charBits = 4
      BY <2>1, <3>1
    <3>2. CASE charBits = 5
      BY <2>1, <3>2
    <3>3. CASE charBits = 6
      BY <2>1, <3>3
    <3>. QED
      BY ONLY <3>1, <3>2, <3>3, charBits \in {4, 5, 6}
  <2>4. c \in text[m]
    BY <1>2 DEF DigitBit
  <2>. HIDE DEF m, c
  <2>. QED
    BY <2>2, <2>3, <2>4
<1>3. \A s : s \in TextStream(text, charBits)
                <=> \E m \in 1 .. n : \E c \in text[m] \cap (0 .. charBits - 1) : s = m * charBits - 1 - c
  <2>. DEFINE places(m) == {m * charBits - 1 - c : c \in text[m] \cap (0 .. charBits - 1)}
  <2>1. TextStream(text, charBits) = UNION {places(m) : m \in 1 .. n}
    BY ONLY DOMAIN text = 1 .. n DEF TextStream
  <2>2. \A m, s : s \in places(m)
                    <=> \E c \in text[m] \cap (0 .. charBits - 1) : s = m * charBits - 1 - c
    BY ONLY Zenon
  <2>. HIDE DEF places
  <2>3. \A s : s \in UNION {places(m) : m \in 1 .. n} <=> \E m \in 1 .. n : s \in places(m)
    BY ONLY SMT
  <2>. QED
    BY ONLY <2>1, <2>2, <2>3
<1>4. ASSUME NEW s \in TextStream(text, charBits)
      PROVE  s \in 0 .. charBits * n - 1 /\ DigitBit(text, charBits, s)
  <2>1. PICK m \in 1 .. n : \E c \in text[m] \cap (0 .. charBits - 1) : s = m * charBits - 1 - c
    BY ONLY <1>3, <1>4
  <2>2. PICK c \in text[m] \cap (0 .. charBits - 1) : s = m * charBits - 1 - c
    BY ONLY <2>1
  <2>. QED
    BY ONLY <1>1, <2>2
<1>. QED
  BY ONLY <1>2, <1>3, <1>4

\* A text spells bytes if it has their bits and no others.
LEMMA Spelt ==
    ASSUME NEW charBits \in {4, 5, 6}, NEW n \in Nat, NEW text, DOMAIN text = 1 .. n,
           NEW slen \in Nat, 8 * slen <= charBits * n, NEW bytes \in SUBSET (0 .. 8 * slen - 1),
           \A s \in 0 .. charBits * n - 1 : DigitBit(text, charBits, s) <=> Flip(s) \in bytes
    PROVE  TextStream(text, charBits) = ByteStream(bytes)
<1>1. \A s : s \in ByteStream(bytes) <=> s \in Int /\ Flip(s) \in bytes
  BY Streams
<1>2. \A s : s \in TextStream(text, charBits)
                 <=> s \in 0 .. charBits * n - 1 /\ DigitBit(text, charBits, s)
  BY TextStreams
<1>3. ASSUME NEW s \in Int, Flip(s) \in bytes PROVE s \in 0 .. charBits * n - 1
  <2>1. Flip(s) < 8 * slen /\ 0 <= Flip(s)
    <3>1. \A bit \in bytes : bit < 8 * slen /\ 0 <= bit
      BY ONLY bytes \in SUBSET (0 .. 8 * slen - 1), slen \in Nat
    <3>. QED
      BY <1>3, <3>1
  <2>2. s < 8 * slen /\ 0 <= s
    BY <2>1, FlipWithin
  <2>3. charBits * n \in Int /\ 8 * slen \in Int
    OBVIOUS
  <2>. QED
    BY <2>2, <2>3
<1>4. \A s : s \in TextStream(text, charBits) <=> s \in ByteStream(bytes)
  BY <1>1, <1>2, <1>3
<1>. QED
  BY ONLY <1>4

-----------------------------------------------------------------------------
(* What is made of bytes *)

LEMMA ShiftBits ==
    ASSUME NEW word \in SUBSET Int, NEW by \in Int
    PROVE  /\ \A x : x \in Base32!Shift(word, by) <=> x \in Int /\ x - by \in word
           /\ Base32!Shift(word, by) \in SUBSET Int
           /\ Base16!Shift(word, by) = Base32!Shift(word, by)
           /\ Base64!Shift(word, by) = Base32!Shift(word, by)
<1>1. Base32!Shift(word, by) = {bit + by : bit \in word}
  BY DEF Base32!Shift
<1>2. Base16!Shift(word, by) = {bit + by : bit \in word} /\ Base64!Shift(word, by) = {bit + by : bit \in word}
  BY DEF Base16!Shift, Base64!Shift
<1>3. \A bit \in word : bit + by \in Int /\ bit + by - by = bit
  OBVIOUS
<1>4. ASSUME NEW x \in Int, x - by \in word PROVE x \in {bit + by : bit \in word}
  <2>1. x = (x - by) + by
    OBVIOUS
  <2>. QED
    BY <1>4, <2>1
<1>. QED
  BY <1>1, <1>2, <1>3, <1>4

LEMMA ByteBits ==
    ASSUME NEW bytes \in SUBSET Int, NEW j \in Int
    PROVE  /\ \A x : x \in Base32!Byte(bytes, j) <=> x \in 0 .. 7 /\ x + 8 * j \in bytes
           /\ Base32!Byte(bytes, j) \in SUBSET (0 .. 7)
           /\ Base16!Byte(bytes, j) = Base32!Byte(bytes, j)
           /\ Base64!Byte(bytes, j) = Base32!Byte(bytes, j)
<1>. DEFINE word == {bit \in bytes : j * 8 <= bit /\ bit < (j + 1) * 8}
<1>1. /\ Base32!Byte(bytes, j) = Base32!Shift(word, -(j * 8))
      /\ Base16!Byte(bytes, j) = Base16!Shift(word, -(j * 8))
      /\ Base64!Byte(bytes, j) = Base64!Shift(word, -(j * 8))
  BY DEF Base32!Byte, Base16!Byte, Base64!Byte, Base32!Bits, Base16!Bits, Base64!Bits
<1>2. word \in SUBSET Int /\ -(j * 8) \in Int
  <2>1. word \in SUBSET Int
    BY ONLY bytes \in SUBSET Int
  <2>2. -(j * 8) \in Int
    BY ONLY j \in Int
  <2>. QED
    BY ONLY <2>1, <2>2
<1>3. \A x \in Int : x - (-(j * 8)) = x + 8 * j /\ x + 8 * j \in Int
  OBVIOUS
<1>4. \A x \in Int : x + 8 * j \in word <=> x \in 0 .. 7 /\ x + 8 * j \in bytes
  OBVIOUS
<1>. HIDE DEF word
<1>5. \A x : x \in Base32!Byte(bytes, j) <=> x \in Int /\ x - (-(j * 8)) \in word
  BY ONLY <1>1, <1>2, ShiftBits
<1>6. \A x : x \in Base32!Byte(bytes, j) <=> x \in 0 .. 7 /\ x + 8 * j \in bytes
  BY <1>3, <1>4, <1>5
<1>7. /\ Base16!Byte(bytes, j) = Base32!Byte(bytes, j)
      /\ Base64!Byte(bytes, j) = Base32!Byte(bytes, j)
  BY ONLY <1>1, <1>2, ShiftBits
<1>. QED
  BY ONLY <1>6, <1>7

\* base32: each digit has five bits of the byte it begins in or the one behind.
LEMMA Base32Spells ==
    ASSUME NEW slen \in Nat, NEW bytes \in SUBSET (0 .. 8 * slen - 1)
    PROVE  LET text == Base32!base32_to(bytes, slen)
               n == Base32!ToLen(slen)
           IN  /\ n \in Nat /\ 8 * slen <= 5 * n /\ 5 * n < 8 * slen + 5
               /\ text \in Seq(SUBSET (0 .. 4)) /\ Len(text) = n /\ DOMAIN text = 1 .. n
               /\ \A s \in 0 .. 5 * n - 1 : DigitBit(text, 5, s) <=> Flip(s) \in bytes
<1>. DEFINE text == Base32!base32_to(bytes, slen)  n == Base32!ToLen(slen)
<1>. DEFINE at(m) == ((m - 1) * 5) \div 8  l(m) == ((m - 1) * 5) % 8
<1>. DEFINE behind(m) == IF at(m) + 1 < slen THEN Base32!Byte(bytes, at(m) + 1) ELSE {}
<1>. DEFINE both(m) == Base32!Shift(Base32!Byte(bytes, at(m)), l(m) + 5 - 8)
                         \cup Base32!Shift(behind(m), l(m) + 5 - 2 * 8)
<1>. DEFINE digit(m) == {bit \in both(m) : 0 <= bit /\ bit < 5}
<1>1. n \in Nat /\ 8 * slen <= 5 * n /\ 5 * n < 8 * slen + 5
  BY DEF Base32!ToLen
<1>2. text = [m \in 1 .. n |-> digit(m)]
  BY DEF Base32!base32_to, Base32!Bits
<1>0. bytes \in SUBSET Int
  OBVIOUS
<1>3. ASSUME NEW m \in 1 .. n, NEW c
      PROVE  c \in digit(m) <=> c \in 0 .. 4 /\ Flip(m * 5 - 1 - c) \in bytes
  <2>. DEFINE a == at(m)  p == l(m)
  <2>1. a \in Nat /\ p \in 0 .. 7 /\ (m - 1) * 5 = 8 * a + p
    OBVIOUS
  <2>2. \A x : x \in Base32!Byte(bytes, a) <=> x \in 0 .. 7 /\ x + 8 * a \in bytes
    BY ONLY <1>0, <2>1, ByteBits
  <2>3. \A x : x \in behind(m) <=> x \in 0 .. 7 /\ x + 8 * (a + 1) \in bytes
    <3>1. \A x : x \in Base32!Byte(bytes, a + 1) <=> x \in 0 .. 7 /\ x + 8 * (a + 1) \in bytes
      <4>1. a + 1 \in Int
        BY ONLY <2>1
      <4>. QED
        BY ONLY <1>0, <4>1, ByteBits
    <3>2. CASE a + 1 < slen
      BY ONLY <3>1, <3>2
    <3>3. CASE ~(a + 1 < slen)
      <4>1. \A x \in 0 .. 7 : x + 8 * (a + 1) \notin 0 .. 8 * slen - 1
        BY ONLY <2>1, <3>3, slen \in Nat
      <4>. QED
        BY ONLY <3>3, <4>1, bytes \in SUBSET (0 .. 8 * slen - 1)
    <3>. QED
      BY ONLY <3>2, <3>3
  <2>4. Base32!Byte(bytes, a) \in SUBSET Int /\ behind(m) \in SUBSET Int
        /\ p + 5 - 8 \in Int /\ p + 5 - 2 * 8 \in Int
    BY ONLY <2>1, <2>2, <2>3
  <2>5. \A x : x \in both(m) <=> \/ x \in Int /\ x - (p + 5 - 8) \in Base32!Byte(bytes, a)
                                 \/ x \in Int /\ x - (p + 5 - 2 * 8) \in behind(m)
    <3>1. \A x : x \in Base32!Shift(Base32!Byte(bytes, a), p + 5 - 8)
                   <=> x \in Int /\ x - (p + 5 - 8) \in Base32!Byte(bytes, a)
      BY ONLY <2>4, ShiftBits
    <3>2. \A x : x \in Base32!Shift(behind(m), p + 5 - 2 * 8)
                   <=> x \in Int /\ x - (p + 5 - 2 * 8) \in behind(m)
      BY ONLY <2>4, ShiftBits
    <3>. QED
      BY ONLY <3>1, <3>2
  <2>. HIDE DEF a, p, behind, both
  <2>6. c \in digit(m) <=> /\ c \in 0 .. 4
                           /\ \/ c - (p - 3) \in 0 .. 7 /\ c - (p - 3) + 8 * a \in bytes
                              \/ c - (p - 11) \in 0 .. 7 /\ c - (p - 11) + 8 * (a + 1) \in bytes
    <3>1. \A x \in Int : x - (p + 5 - 8) = x - (p - 3) /\ x - (p + 5 - 2 * 8) = x - (p - 11)
      BY ONLY <2>1
    <3>2. c \in digit(m) <=> c \in both(m) /\ 0 <= c /\ c < 5
      OBVIOUS
    <3>. QED
      BY ONLY <2>2, <2>3, <2>5, <3>1, <3>2
  <2>7. ASSUME c \in 0 .. 4
        PROVE  Flip(m * 5 - 1 - c) = IF c >= p - 3 THEN c - (p - 3) + 8 * a
                                     ELSE c - (p - 11) + 8 * (a + 1)
    <3>. DEFINE s == m * 5 - 1 - c
    <3>1. s = 8 * a + (p + 4 - c) /\ s \in Int
      BY ONLY <2>1, <2>7, m \in 1 .. n, <1>1
    <3>. HIDE DEF s
    <3>2. CASE c >= p - 3
      <4>1. s \div 8 = a /\ s % 8 = p + 4 - c
        BY ONLY <2>1, <2>7, <3>1, <3>2
      <4>. QED
        BY ONLY <2>1, <2>7, <3>1, <3>2, <4>1 DEF Flip, s
    <3>3. CASE ~(c >= p - 3)
      <4>1. s \div 8 = a + 1 /\ s % 8 = p + 4 - c - 8
        BY ONLY <2>1, <2>7, <3>1, <3>3
      <4>. QED
        BY ONLY <2>1, <2>7, <3>1, <3>3, <4>1 DEF Flip, s
    <3>. QED
      BY ONLY <3>2, <3>3
  <2>8. c \in 0 .. 4 => (c - (p - 3) \in 0 .. 7 <=> c >= p - 3) /\ (c - (p - 11) \in 0 .. 7 <=> ~(c >= p - 3))
    BY ONLY <2>1
  <2>. QED
    BY ONLY <2>6, <2>7, <2>8
<1>. HIDE DEF digit, text, n
<1>4. \A m \in 1 .. n : digit(m) \in SUBSET (0 .. 4)
  BY <1>3
<1>5. text \in Seq(SUBSET (0 .. 4)) /\ Len(text) = n /\ DOMAIN text = 1 .. n
  BY <1>1, <1>2, <1>4
<1>6. ASSUME NEW s \in 0 .. 5 * n - 1 PROVE DigitBit(text, 5, s) <=> Flip(s) \in bytes
  <2>. DEFINE m == s \div 5 + 1  c == 5 - 1 - (s % 5)
  <2>1. m \in 1 .. n /\ c \in 0 .. 4 /\ s = m * 5 - 1 - c
    BY <1>1
  <2>. HIDE DEF m, c
  <2>2. c \in text[m] <=> Flip(s) \in bytes
    BY ONLY <1>2, <1>3, <2>1
  <2>. QED
    BY ONLY <2>2 DEF DigitBit, m, c
<1>. QED
  BY <1>1, <1>5, <1>6 DEF text, n

\* base16: the high half of each byte, then the low one.
LEMMA Base16Spells ==
    ASSUME NEW slen \in Nat, NEW bytes \in SUBSET (0 .. 8 * slen - 1)
    PROVE  LET text == Base16!base16_to(bytes, slen)
               n == 2 * slen
           IN  /\ text \in Seq(SUBSET (0 .. 3)) /\ Len(text) = n /\ DOMAIN text = 1 .. n
               /\ \A s \in 0 .. 4 * n - 1 : DigitBit(text, 4, s) <=> Flip(s) \in bytes
<1>. DEFINE text == Base16!base16_to(bytes, slen)  n == 2 * slen
<1>. DEFINE byte(m) == Base16!Byte(bytes, (m - 1) \div 2)
<1>. DEFINE high(m) == {bit \in byte(m) : 4 <= bit /\ bit < 8}
<1>. DEFINE digit(m) == IF m % 2 = 1 THEN Base16!Shift(high(m), -4)
                        ELSE {bit \in byte(m) : 0 <= bit /\ bit < 4}
<1>1. text = [m \in 1 .. n |-> digit(m)]
  BY DEF Base16!base16_to, Base16!Bits
<1>2. bytes \in SUBSET Int
  OBVIOUS
<1>3. ASSUME NEW m \in 1 .. n, NEW c
      PROVE  c \in digit(m) <=> c \in 0 .. 3 /\ Flip(m * 4 - 1 - c) \in bytes
  <2>. DEFINE a == (m - 1) \div 2
  <2>1. m \in Nat /\ a \in Nat /\ (m % 2 = 1 => m = 2 * a + 1) /\ (m % 2 # 1 => m = 2 * a + 2)
    OBVIOUS
  <2>2. \A x : x \in byte(m) <=> x \in 0 .. 7 /\ x + 8 * a \in bytes
    BY ONLY <1>2, <2>1, ByteBits
  <2>. HIDE DEF a, byte
  <2>3. CASE m % 2 = 1
    <3>1. high(m) \in SUBSET Int /\ -4 \in Int
      BY ONLY <2>2
    <3>2. \A x : x \in Base16!Shift(high(m), -4) <=> x \in Int /\ x - (-4) \in high(m)
      BY ONLY <3>1, ShiftBits
    <3>3. c \in digit(m) <=> c \in Int /\ c + 4 \in high(m)
      <4>1. \A x \in Int : x - (-4) = x + 4
        OBVIOUS
      <4>. QED
        BY ONLY <2>3, <3>2, <4>1
    <3>4. c \in digit(m) <=> c \in 0 .. 3 /\ c + 4 + 8 * a \in bytes
      BY ONLY <2>1, <2>2, <3>3
    <3>5. ASSUME c \in 0 .. 3 PROVE Flip(m * 4 - 1 - c) = c + 4 + 8 * a
      <4>. DEFINE s == m * 4 - 1 - c
      <4>1. s = 8 * a + (3 - c) /\ s \in Int
        BY ONLY <2>1, <2>3, <3>5
      <4>. HIDE DEF s
      <4>2. s \div 8 = a /\ s % 8 = 3 - c
        BY ONLY <2>1, <3>5, <4>1
      <4>. QED
        BY ONLY <2>1, <3>5, <4>1, <4>2 DEF Flip, s
    <3>. QED
      BY ONLY <3>4, <3>5
  <2>4. CASE m % 2 # 1
    <3>1. c \in digit(m) <=> c \in 0 .. 3 /\ c + 8 * a \in bytes
      BY ONLY <2>1, <2>2, <2>4
    <3>2. ASSUME c \in 0 .. 3 PROVE Flip(m * 4 - 1 - c) = c + 8 * a
      <4>. DEFINE s == m * 4 - 1 - c
      <4>1. s = 8 * a + (7 - c) /\ s \in Int
        BY ONLY <2>1, <2>4, <3>2
      <4>. HIDE DEF s
      <4>2. s \div 8 = a /\ s % 8 = 7 - c
        BY ONLY <2>1, <3>2, <4>1
      <4>. QED
        BY ONLY <2>1, <3>2, <4>1, <4>2 DEF Flip, s
    <3>. QED
      BY ONLY <3>1, <3>2
  <2>. QED
    BY ONLY <2>3, <2>4
<1>. HIDE DEF digit, text, n
<1>4. \A m \in 1 .. n : digit(m) \in SUBSET (0 .. 3)
  BY <1>3
<1>5. text \in Seq(SUBSET (0 .. 3)) /\ Len(text) = n /\ DOMAIN text = 1 .. n
  <2>1. n \in Nat
    BY DEF n
  <2>. QED
    BY <1>1, <1>4, <2>1
<1>6. ASSUME NEW s \in 0 .. 4 * n - 1 PROVE DigitBit(text, 4, s) <=> Flip(s) \in bytes
  <2>. DEFINE m == s \div 4 + 1  c == 4 - 1 - (s % 4)
  <2>1. m \in 1 .. n /\ c \in 0 .. 3 /\ s = m * 4 - 1 - c
    BY DEF n
  <2>. HIDE DEF m, c
  <2>2. c \in text[m] <=> Flip(s) \in bytes
    BY ONLY <1>1, <1>3, <2>1
  <2>. QED
    BY ONLY <2>2 DEF DigitBit, m, c
<1>. QED
  BY <1>5, <1>6 DEF text, n

\* The twenty-four bits of a group, the first byte highest, are those of the
\* stream behind the groups before it.
LEMMA Group64 ==
    ASSUME NEW slen \in Nat, NEW bytes \in SUBSET (0 .. 8 * slen - 1), NEW g \in Nat
    PROVE  LET threebytes == UNION {Base64!Shift(Base64!Byte(bytes, i), (g * 3 + 2 - i) * 8) :
                                        i \in {j \in g * 3 .. g * 3 + 2 : j < slen}}
           IN  \A x : x \in threebytes <=> x \in 0 .. 23 /\ Flip(24 * g + 23 - x) \in bytes
<1>. DEFINE word(i) == Base64!Shift(Base64!Byte(bytes, i), (g * 3 + 2 - i) * 8)
<1>0. bytes \in SUBSET Int
  OBVIOUS
<1>1. ASSUME NEW i \in 3 * g .. 3 * g + 2, NEW x
      PROVE  x \in word(i) <=> x \in Int /\ x - (g * 3 + 2 - i) * 8 \in 0 .. 7
                               /\ x - (g * 3 + 2 - i) * 8 + 8 * i \in bytes
  <2>1. i \in Int /\ (g * 3 + 2 - i) * 8 \in Int
    OBVIOUS
  <2>2. /\ \A y : y \in Base64!Byte(bytes, i) <=> y \in 0 .. 7 /\ y + 8 * i \in bytes
        /\ Base64!Byte(bytes, i) \in SUBSET Int
    <3>1. \A y : y \in Base64!Byte(bytes, i) <=> y \in 0 .. 7 /\ y + 8 * i \in bytes
      BY ONLY <1>0, <2>1, ByteBits
    <3>. QED
      BY ONLY <3>1
  <2>3. \A y : y \in word(i) <=> y \in Int /\ y - (g * 3 + 2 - i) * 8 \in Base64!Byte(bytes, i)
    BY ONLY <2>1, <2>2, ShiftBits
  <2>. QED
    BY ONLY <2>2, <2>3
<1>2. ASSUME NEW x \in 0 .. 23
      PROVE  LET i == 3 * g + 2 - x \div 8
             IN  /\ i \in 3 * g .. 3 * g + 2
                 /\ Flip(24 * g + 23 - x) = x - (g * 3 + 2 - i) * 8 + 8 * i
                 /\ x - (g * 3 + 2 - i) * 8 \in 0 .. 7
                 /\ \A j \in 3 * g .. 3 * g + 2 : x - (g * 3 + 2 - j) * 8 \in 0 .. 7 => j = i
  <2>. DEFINE d == x \div 8  bit == x % 8  s == 24 * g + 23 - x
  <2>1. d \in 0 .. 2 /\ bit \in 0 .. 7 /\ x = 8 * d + bit
    OBVIOUS
  <2>2. s = 8 * (3 * g + 2 - d) + (7 - bit) /\ s \in Int
    BY ONLY <2>1, g \in Nat
  <2>. HIDE DEF d, bit, s
  <2>3. s \div 8 = 3 * g + 2 - d /\ s % 8 = 7 - bit
    BY ONLY <2>1, <2>2, g \in Nat
  <2>4. Flip(s) = 8 * (3 * g + 2 - d) + bit
    BY ONLY <2>1, <2>3, g \in Nat DEF Flip
  <2>5. \A j \in 3 * g .. 3 * g + 2 : x - (g * 3 + 2 - j) * 8 \in 0 .. 7 => j = 3 * g + 2 - d
    BY ONLY <2>1, g \in Nat
  <2>. QED
    BY ONLY <2>1, <2>4, <2>5, g \in Nat DEF d, s
<1>3. \A i \in 3 * g .. 3 * g + 2 : \A y \in 0 .. 7 : y + 8 * i \in bytes => i < slen
  OBVIOUS
<1>. DEFINE js == {j \in g * 3 .. g * 3 + 2 : j < slen}
<1>4. ASSUME NEW x, NEW i \in js, x \in word(i)
      PROVE  x \in 0 .. 23 /\ Flip(24 * g + 23 - x) \in bytes
  <2>1. i \in 3 * g .. 3 * g + 2
    OBVIOUS
  <2>2. x \in Int /\ x - (g * 3 + 2 - i) * 8 \in 0 .. 7 /\ x - (g * 3 + 2 - i) * 8 + 8 * i \in bytes
    BY ONLY <1>1, <1>4, <2>1
  <2>3. x \in 0 .. 23
    BY ONLY <2>1, <2>2, g \in Nat
  <2>4. i = 3 * g + 2 - x \div 8
    BY ONLY <1>2, <2>1, <2>2, <2>3
  <2>. QED
    BY ONLY <1>2, <2>2, <2>3, <2>4
<1>5. ASSUME NEW x \in 0 .. 23, Flip(24 * g + 23 - x) \in bytes
      PROVE  \E i \in js : x \in word(i)
  <2>. DEFINE i == 3 * g + 2 - x \div 8  y == x - (g * 3 + 2 - i) * 8
  <2>1. i \in 3 * g .. 3 * g + 2 /\ y \in 0 .. 7 /\ y + 8 * i \in bytes
    BY ONLY <1>2, <1>5
  <2>2. i < slen
    BY ONLY <1>3, <2>1
  <2>. HIDE DEF i, word
  <2>3. i \in js
    BY <2>1, <2>2
  <2>4. x \in Int
    OBVIOUS
  <2>5. x \in word(i)
    BY ONLY <1>1, <2>1, <2>4
  <2>. QED
    BY ONLY <2>3, <2>5
<1>. HIDE DEF word, js
<1>6. \A x : x \in UNION {word(i) : i \in js} <=> \E i \in js : x \in word(i)
  OBVIOUS
<1>7. \A x : x \in UNION {word(i) : i \in js} <=> x \in 0 .. 23 /\ Flip(24 * g + 23 - x) \in bytes
  BY ONLY <1>4, <1>5, <1>6
<1>. QED
  BY ONLY <1>7 DEF word, js

\* base64: four digits of each three bytes, and `=' for those without a bit.
LEMMA Base64Spells ==
    ASSUME NEW slen \in Nat, NEW bytes \in SUBSET (0 .. 8 * slen - 1)
    PROVE  LET text == Base64!base64_to(bytes, slen)
               n == Base64!Base64ToLen(slen)
               padded == CASE slen % 3 = 0 -> 0 [] slen % 3 = 1 -> 2 [] slen % 3 = 2 -> 1
           IN  /\ n \in Nat /\ n = 4 * ((slen + 2) \div 3) /\ 8 * slen <= 6 * n
               /\ padded \in 0 .. 2 /\ (n \div 4) * 3 - padded = slen
               /\ text \in Seq(SUBSET Int) /\ Len(text) = n /\ DOMAIN text = 1 .. n
               /\ \A m \in 1 .. n : m <= n - padded => text[m] \in SUBSET (0 .. 5)
               /\ \A m \in 1 .. n : m > n - padded => text[m] = {-2}
               /\ \A s \in 0 .. 6 * n - 1 : DigitBit(text, 6, s) <=> Flip(s) \in bytes
<1>. DEFINE text == Base64!base64_to(bytes, slen)
<1>. DEFINE n == Base64!Base64ToLen(slen)
<1>. DEFINE padded == CASE slen % 3 = 0 -> 0 [] slen % 3 = 1 -> 2 [] slen % 3 = 2 -> 1
<1>. DEFINE threebytes(g) == UNION {Base64!Shift(Base64!Byte(bytes, i), (g * 3 + 2 - i) * 8) :
                                        i \in {j \in g * 3 .. g * 3 + 2 : j < slen}}
<1>. DEFINE digit(m) == {bit \in Base64!Shift(threebytes((m - 1) \div 4), (((m - 1) % 4) - 3) * 6) :
                            0 <= bit /\ bit < 6}
<1>1. text = [m \in 1 .. n |-> IF m > n - padded THEN {-2} ELSE digit(m)]
  BY Zenon DEF Base64!base64_to, Base64!Bits, Base64!Equals
<1>2. n \in Nat /\ n = 4 * ((slen + 2) \div 3)
  BY DEF Base64!Base64ToLen
<1>3. /\ padded \in 0 .. 2 /\ (n \div 4) * 3 - padded = slen /\ 8 * slen <= 6 * n
      /\ \A m \in 1 .. n : m > n - padded => 6 * (m - 1) >= 8 * slen
  <2>. DEFINE g == slen \div 3
  <2>1. g \in Nat
    OBVIOUS
  <2>2. CASE slen % 3 = 0
    <3>1. slen = 3 * g /\ padded = 0
      BY <2>2
    <3>2. n = 4 * g
      BY <1>2, <2>1, <3>1
    <3>. HIDE DEF padded, g, n
    <3>. QED
      BY ONLY <2>1, <3>1, <3>2
  <2>3. CASE slen % 3 = 1
    <3>1. slen = 3 * g + 1 /\ padded = 2
      BY <2>3
    <3>2. n = 4 * g + 4
      BY <1>2, <2>1, <3>1
    <3>. HIDE DEF padded, g, n
    <3>. QED
      BY ONLY <2>1, <3>1, <3>2
  <2>4. CASE slen % 3 = 2
    <3>1. slen = 3 * g + 2 /\ padded = 1
      BY <2>4
    <3>. HIDE DEF g, n
    <3>2. n = 4 * g + 4
      <4>1. slen + 2 = 3 * (g + 1) + 1
        BY ONLY <2>1, <3>1
      <4>2. (slen + 2) \div 3 = g + 1
        BY ONLY <2>1, <4>1
      <4>. QED
        BY ONLY <1>2, <2>1, <4>2
    <3>. HIDE DEF padded, g, n
    <3>. QED
      BY ONLY <2>1, <3>1, <3>2
  <2>. QED
    BY <2>2, <2>3, <2>4
<1>4. ASSUME NEW m \in 1 .. n, NEW c
      PROVE  c \in digit(m) <=> c \in 0 .. 5 /\ Flip(m * 6 - 1 - c) \in bytes
  <2>. DEFINE g == (m - 1) \div 4  r == (m - 1) % 4
  <2>1. m \in Nat /\ g \in Nat /\ r \in 0 .. 3 /\ m = 4 * g + r + 1
    BY <1>2
  <2>2. \A x : x \in threebytes(g) <=> x \in 0 .. 23 /\ Flip(24 * g + 23 - x) \in bytes
    BY ONLY <2>1, slen \in Nat, bytes \in SUBSET (0 .. 8 * slen - 1), Group64
  <2>. HIDE DEF g, r, threebytes
  <2>3. threebytes(g) \in SUBSET Int /\ (r - 3) * 6 \in Int
    BY ONLY <2>1, <2>2
  <2>4. \A x : x \in Base64!Shift(threebytes(g), (r - 3) * 6)
                 <=> x \in Int /\ x - (r - 3) * 6 \in threebytes(g)
    BY ONLY <2>3, ShiftBits
  <2>5. c \in digit(m) <=> c \in 0 .. 5 /\ c - (r - 3) * 6 \in threebytes(g)
    <3>1. c \in digit(m) <=> c \in Base64!Shift(threebytes(g), (r - 3) * 6) /\ 0 <= c /\ c < 6
      BY DEF g, r
    <3>. HIDE DEF digit
    <3>. QED
      BY ONLY <2>4, <3>1
  <2>6. ASSUME c \in 0 .. 5
        PROVE  /\ c - (r - 3) * 6 \in 0 .. 23
               /\ 24 * g + 23 - (c - (r - 3) * 6) = m * 6 - 1 - c
    BY ONLY <2>1, <2>6
  <2>. HIDE DEF digit
  <2>. QED
    BY ONLY <2>2, <2>5, <2>6
<1>. HIDE DEF digit, text, n, padded
<1>5. \A m \in 1 .. n : digit(m) \in SUBSET (0 .. 5)
  BY <1>4
<1>6. \A m \in 1 .. n : /\ m <= n - padded => text[m] = digit(m)
                        /\ m > n - padded => text[m] = {-2}
  BY <1>1, <1>2, <1>3
<1>7. text \in Seq(SUBSET Int) /\ Len(text) = n /\ DOMAIN text = 1 .. n
  <2>1. \A m \in 1 .. n : text[m] \in SUBSET Int
    <3>1. {-2} \in SUBSET Int /\ \A m \in 1 .. n : digit(m) \in SUBSET Int
      BY <1>5
    <3>. QED
      BY <1>1, <3>1
  <2>2. DOMAIN text = 1 .. n /\ text = [m \in 1 .. n |-> text[m]]
    BY <1>1
  <2>3. text \in [1 .. n -> SUBSET Int] /\ n \in Nat
    BY ONLY <1>2, <2>1, <2>2
  <2>. QED
    BY ONLY <2>2, <2>3
<1>8. ASSUME NEW s \in 0 .. 6 * n - 1 PROVE DigitBit(text, 6, s) <=> Flip(s) \in bytes
  <2>. DEFINE m == s \div 6 + 1  c == 6 - 1 - (s % 6)
  <2>1. m \in 1 .. n /\ c \in 0 .. 5 /\ s = m * 6 - 1 - c
    BY <1>2
  <2>. HIDE DEF m, c
  <2>2. c \in text[m] <=> Flip(s) \in bytes
    <3>1. CASE m <= n - padded
      BY ONLY <1>4, <1>6, <2>1, <3>1
    <3>2. CASE m > n - padded
      <4>1. s >= 8 * slen
        BY ONLY <1>2, <1>3, <2>1, <3>2, slen \in Nat
      <4>2. ~(Flip(s) < 8 * slen)
        <5>1. s \in Int /\ slen \in Int
          OBVIOUS
        <5>. QED
          BY ONLY <4>1, <5>1, FlipWithin
      <4>3. \A bit \in bytes : bit < 8 * slen
        OBVIOUS
      <4>4. c \notin text[m]
        BY ONLY <1>6, <2>1, <3>2
      <4>. QED
        BY ONLY <4>2, <4>3, <4>4
    <3>. QED
      BY ONLY <1>2, <1>3, <2>1, <3>1, <3>2
  <2>. QED
    BY ONLY <2>2 DEF DigitBit, m, c
<1>9. \A m \in 1 .. n : m <= n - padded => text[m] \in SUBSET (0 .. 5)
  BY <1>5, <1>6
<1>. QED
  BY ONLY <1>2, <1>3, <1>6, <1>7, <1>8, <1>9 DEF text, n, padded

-----------------------------------------------------------------------------
(* What is made of a text *)

\* base64: the bytes of a text with padding at its end.
Ends64(text, n, padded) ==
    /\ Len(text) = n
    /\ \A m \in 1 .. n : m <= n - padded => text[m] \in SUBSET (0 .. 5)
    /\ \A m \in 1 .. n : m > n - padded => text[m] = {-2}

LEMMA Base64Reads ==
    ASSUME NEW n \in Nat, n % 4 = 0, NEW padded \in 0 .. 2, NEW slen \in Nat,
           (n \div 4) * 3 - padded = slen, NEW text, Ends64(text, n, padded)
    PROVE  LET r == Base64!base64_from(text)
           IN  /\ r.len = slen
               /\ \A bit : bit \in r.dst <=> bit \in 0 .. 8 * slen - 1 /\ DigitBit(text, 6, Flip(bit))
               /\ r = [dst |-> r.dst, len |-> r.len]
<1>0. /\ Len(text) = n
      /\ \A m \in 1 .. n : m <= n - padded => text[m] \in SUBSET (0 .. 5)
      /\ \A m \in 1 .. n : m > n - padded => text[m] = {-2}
  BY DEF Ends64
<1>. USE <1>0
<1>. DEFINE r == Base64!base64_from(text)
<1>. DEFINE IsPad(m) == IF text[m] = {-2} THEN 1 ELSE 0
<1>. DEFINE dstlen == (n \div 4) * 3 - IsPad(n) - IsPad(n - 1)
<1>. DEFINE sixbits(m) == IF text[m] = {-2} /\ (m - 1) % 4 >= 2 THEN {} ELSE text[m]
<1>. DEFINE word(g, m) == Base64!Shift(sixbits(m), (g * 4 + 4 - m) * 6)
<1>. DEFINE threebytes(g) == UNION {word(g, m) : m \in g * 4 + 1 .. g * 4 + 4}
<1>. DEFINE byte(j) == Base64!Byte(threebytes(j \div 3), 2 - (j % 3))
<1>. DEFINE at(j) == Base64!Shift(byte(j), j * 8)
<1>1. r = IF n % 4 # 0 THEN [dst |-> {}, len |-> -1]
          ELSE IF n = 0 THEN [dst |-> {}, len |-> 0]
          ELSE [dst |-> UNION {at(j) : j \in 0 .. dstlen - 1}, len |-> dstlen]
  BY DEF Base64!base64_from, Base64!At, Base64!Equals, Base64!Base64FromLen
<1>2. CASE n = 0
  <2>1. r = [dst |-> {}, len |-> 0]
    BY <1>1, <1>2
  <2>2. slen = 0
    BY <1>2
  <2>. HIDE DEF r
  <2>3. r.len = 0 /\ r.dst = {} /\ 0 .. 8 * slen - 1 = {} /\ r = [dst |-> r.dst, len |-> r.len]
    BY ONLY <2>1, <2>2
  <2>. QED
    BY ONLY <2>2, <2>3 DEF r
<1>3. CASE n # 0
  <2>0. PICK q \in Nat : n = 4 * q /\ q > 0 /\ slen = 3 * q - padded
    <3>1. n = 4 * (n \div 4) /\ n \div 4 \in Nat /\ n \div 4 > 0
      BY <1>3
    <3>. QED
      BY <3>1
  <2>1. \A m \in 1 .. n : text[m] = {-2} <=> m > n - padded
    <3>1. {-2} \notin SUBSET (0 .. 5)
      OBVIOUS
    <3>2. \A m \in 1 .. n : m <= n - padded \/ m > n - padded
      BY ONLY n \in Nat, padded \in 0 .. 2
    <3>3. \A m \in 1 .. n : ~(m <= n - padded /\ m > n - padded)
      BY ONLY n \in Nat, padded \in 0 .. 2
    <3>. QED
      BY <3>1, <3>2, <3>3, Zenon
  <2>2. dstlen = slen
    <3>1. n - 1 \in 1 .. n /\ n \in 1 .. n
      BY <2>0
    <3>2. IsPad(n) = (IF padded > 0 THEN 1 ELSE 0) /\ IsPad(n - 1) = (IF padded > 1 THEN 1 ELSE 0)
      BY <2>1, <3>1
    <3>. HIDE DEF IsPad
    <3>. QED
      BY <2>0, <3>2
  <2>3. r = [dst |-> UNION {at(j) : j \in 0 .. slen - 1}, len |-> slen]
    BY <1>1, <1>3, <2>2
  <2>4. ASSUME NEW m \in 1 .. n, NEW c PROVE c \in sixbits(m) <=> c \in 0 .. 5 /\ c \in text[m]
    <3>1. CASE m <= n - padded
      BY <2>1, <3>1
    <3>2. CASE m > n - padded
      <4>1. (m - 1) % 4 >= 2
        BY <2>0, <3>2
      <4>. QED
        BY <2>1, <3>2, <4>1
    <3>. QED
      BY <2>0, <3>1, <3>2
  <2>. HIDE DEF sixbits, r, dstlen
  <2>5. ASSUME NEW g \in 0 .. q - 1, NEW x
        PROVE  x \in threebytes(g) <=> x \in 0 .. 23 /\ DigitBit(text, 6, 24 * g + 23 - x)
    <3>1. ASSUME NEW m \in g * 4 + 1 .. g * 4 + 4
          PROVE  x \in word(g, m) <=> /\ x \in Int /\ x - (g * 4 + 4 - m) * 6 \in 0 .. 5
                                      /\ x - (g * 4 + 4 - m) * 6 \in text[m]
      <4>1. m \in 1 .. n
        BY <2>0
      <4>2. sixbits(m) \in SUBSET Int /\ (g * 4 + 4 - m) * 6 \in Int
        <5>1. sixbits(m) \in SUBSET Int
          BY ONLY <2>4, <4>1
        <5>2. (g * 4 + 4 - m) * 6 \in Int
          OBVIOUS
        <5>. QED
          BY ONLY <5>1, <5>2
      <4>3. x \in word(g, m) <=> x \in Int /\ x - (g * 4 + 4 - m) * 6 \in sixbits(m)
        BY ONLY <4>2, ShiftBits
      <4>. QED
        BY ONLY <2>4, <4>1, <4>3
    <3>2. ASSUME x \in 0 .. 23
          PROVE  LET m == 4 * g + 4 - x \div 6
                 IN  /\ m \in g * 4 + 1 .. g * 4 + 4
                     /\ x - (g * 4 + 4 - m) * 6 \in 0 .. 5
                     /\ DigitBit(text, 6, 24 * g + 23 - x) <=> x - (g * 4 + 4 - m) * 6 \in text[m]
      <4>. DEFINE d == x \div 6  c == x % 6  s == 24 * g + 23 - x  m == 4 * g + 4 - d
      <4>1. d \in 0 .. 3 /\ c \in 0 .. 5 /\ x = 6 * d + c /\ g \in Nat
        BY <3>2
      <4>2. s = 6 * (4 * g + 3 - d) + (5 - c) /\ s \in Int
        BY ONLY <4>1
      <4>3. x - (g * 4 + 4 - m) * 6 = c /\ m \in g * 4 + 1 .. g * 4 + 4
        BY ONLY <4>1
      <4>. HIDE DEF d, c, s
      <4>4. s \div 6 = 4 * g + 3 - d /\ s % 6 = 5 - c
        BY ONLY <4>1, <4>2
      <4>5. 6 - 1 - (s % 6) = c /\ s \div 6 + 1 = m
        BY ONLY <4>1, <4>4
      <4>6. DigitBit(text, 6, s) <=> c \in text[m]
        BY ONLY <4>5 DEF DigitBit
      <4>. QED
        BY ONLY <4>1, <4>3, <4>6 DEF d, s
    <3>3. ASSUME NEW m \in g * 4 + 1 .. g * 4 + 4, x \in Int, x - (g * 4 + 4 - m) * 6 \in 0 .. 5
          PROVE  x \in 0 .. 23 /\ m = 4 * g + 4 - x \div 6
      BY <3>3
    <3>. HIDE DEF word
    <3>4. x \in threebytes(g) <=> \E m \in g * 4 + 1 .. g * 4 + 4 : x \in word(g, m)
      OBVIOUS
    <3>5. ASSUME x \in threebytes(g) PROVE x \in 0 .. 23 /\ DigitBit(text, 6, 24 * g + 23 - x)
      <4>1. PICK m \in g * 4 + 1 .. g * 4 + 4 : x \in word(g, m)
        BY ONLY <3>4, <3>5
      <4>2. /\ x \in Int /\ x - (g * 4 + 4 - m) * 6 \in 0 .. 5
            /\ x - (g * 4 + 4 - m) * 6 \in text[m]
        BY ONLY <3>1, <4>1
      <4>3. x \in 0 .. 23 /\ m = 4 * g + 4 - x \div 6
        BY ONLY <3>3, <4>2
      <4>. QED
        BY ONLY <3>2, <4>2, <4>3
    <3>6. ASSUME x \in 0 .. 23, DigitBit(text, 6, 24 * g + 23 - x) PROVE x \in threebytes(g)
      <4>. DEFINE m == 4 * g + 4 - x \div 6
      <4>1. /\ m \in g * 4 + 1 .. g * 4 + 4
            /\ x - (g * 4 + 4 - m) * 6 \in 0 .. 5 /\ x - (g * 4 + 4 - m) * 6 \in text[m]
        BY ONLY <3>2, <3>6
      <4>2. x \in Int
        BY ONLY <3>6
      <4>. HIDE DEF m
      <4>. QED
        BY ONLY <3>1, <3>4, <4>1, <4>2
    <3>. QED
      BY ONLY <3>5, <3>6
  <2>. HIDE DEF word, threebytes
  <2>6. ASSUME NEW j \in 0 .. slen - 1, NEW bit
        PROVE  bit \in at(j) <=> bit \in Int /\ bit - 8 * j \in 0 .. 7 /\ DigitBit(text, 6, Flip(bit))
    <3>. DEFINE g == j \div 3  i == j % 3
    <3>1. g \in 0 .. q - 1 /\ i \in 0 .. 2 /\ j = 3 * g + i
      BY <2>0
    <3>. HIDE DEF g, i
    <3>2. threebytes(g) \in SUBSET Int /\ 2 - i \in Int
      BY ONLY <2>5, <3>1
    <3>3. \A y : y \in byte(j) <=> y \in 0 .. 7 /\ y + 8 * (2 - i) \in threebytes(g)
      BY ONLY <3>2, ByteBits DEF g, i
    <3>. HIDE DEF byte
    <3>4. byte(j) \in SUBSET Int /\ j * 8 \in Int
      BY ONLY <3>3, j \in 0 .. slen - 1
    <3>5. bit \in at(j) <=> bit \in Int /\ bit - j * 8 \in byte(j)
      BY ONLY <3>4, ShiftBits
    <3>. HIDE DEF at
    <3>6. ASSUME bit \in Int, bit - 8 * j \in 0 .. 7
          PROVE  LET x == bit - 8 * j + 8 * (2 - i)
                 IN  x \in 0 .. 23 /\ 24 * g + 23 - x = Flip(bit)
      <4>1. bit = 8 * j + (bit - 8 * j) /\ j \in Int
        BY ONLY <3>6, j \in 0 .. slen - 1
      <4>2. bit \div 8 = j /\ bit % 8 = bit - 8 * j
        BY ONLY <3>6, <4>1
      <4>3. Flip(bit) = j * 8 + 7 - (bit - 8 * j)
        BY ONLY <4>2 DEF Flip
      <4>4. g \in Int
        BY ONLY <3>1
      <4>. QED
        BY ONLY <3>1, <3>6, <4>1, <4>3, <4>4
    <3>7. \A y : y = bit - j * 8 <=> y = bit - 8 * j
      BY ONLY j \in 0 .. slen - 1
    <3>8. bit \in at(j) <=> /\ bit \in Int /\ bit - 8 * j \in 0 .. 7
                          /\ bit - 8 * j + 8 * (2 - i) \in threebytes(g)
      BY ONLY <3>3, <3>5, <3>7
    <3>9. \A x : x \in threebytes(g) <=> x \in 0 .. 23 /\ DigitBit(text, 6, 24 * g + 23 - x)
      BY ONLY <2>5, <3>1
    <3>. QED
      BY ONLY <3>6, <3>8, <3>9
  <2>. HIDE DEF at
  <2>7. r.len = slen /\ r.dst = UNION {at(j) : j \in 0 .. slen - 1}
        /\ r = [dst |-> r.dst, len |-> r.len]
    BY ONLY <2>3
  <2>8. ASSUME NEW bit, bit \in 0 .. 8 * slen - 1 PROVE bit \div 8 \in 0 .. slen - 1 /\ bit - 8 * (bit \div 8) \in 0 .. 7
    BY ONLY <2>8, slen \in Nat
  <2>9. \A bit : \A j \in 0 .. slen - 1 : bit \in Int /\ bit - 8 * j \in 0 .. 7 => bit \in 0 .. 8 * slen - 1
    BY ONLY slen \in Nat
  <2>10. ASSUME NEW bit PROVE bit \in r.dst <=> bit \in 0 .. 8 * slen - 1 /\ DigitBit(text, 6, Flip(bit))
    <3>1. bit \in r.dst <=> \E j \in 0 .. slen - 1 : bit \in at(j)
      BY ONLY <2>7
    <3>2. bit \in 0 .. 8 * slen - 1 => bit \in Int
      OBVIOUS
    <3>. QED
      BY ONLY <2>6, <2>8, <2>9, <3>1, <3>2
  <2>. QED
    BY ONLY <2>7, <2>10 DEF r
<1>. QED
  BY ONLY <1>2, <1>3

\* What the loops of base32_from and base16_from hold after some digits, of as
\* many bits as `count': the bits of the digits, in the last byte begun those
\* that cmask has, and behind it what dst held before.
Filled(k, count) == {bit \in 0 .. 7 : 8 * k + 7 - bit < count}
Holds(dst, text, charBits, count) ==
    /\ dst \in SUBSET Nat
    /\ \A p \in 0 .. count - 1 : Flip(p) \in dst <=> DigitBit(text, charBits, p)
Untouched(dst, junk, k) == \A y \in Int : y >= 8 * (k + 1) => (y \in dst <=> y \in junk)
Stored(s, text, charBits, count, junk) ==
    /\ Holds(s.dst, text, charBits, count)
    /\ Untouched(s.dst, junk, s.k)
    /\ s.k \in Int
    /\ count = 0 => s.k = -1
    /\ count > 0 => s.k = (count - 1) \div 8 /\ s.cmask = Filled(s.k, count)

\* Of the byte a digit begins in, cmask has what is filled of it.
LEMMA KeptFilled ==
    ASSUME NEW text, NEW charBits, NEW count \in Nat, NEW junk, NEW s, Stored(s, text, charBits, count, junk)
    PROVE  /\ Base32!KeptMask(s, count \div 8) = Filled(count \div 8, count)
           /\ Base16!KeptMask(s, count \div 8) = Filled(count \div 8, count)
<1>. DEFINE k == count \div 8  l == count % 8
<1>1. k \in Nat /\ l \in 0 .. 7 /\ count = 8 * k + l
  OBVIOUS
<1>. HIDE DEF k, l
<1>2. CASE l = 0
  <2>1. Filled(k, count) = {}
    <3>1. \A bit \in 0 .. 7 : ~(8 * k + 7 - bit < count)
      BY ONLY <1>1, <1>2
    <3>. QED
      BY ONLY <3>1 DEF Filled
  <2>2. s.k # k
    <3>1. CASE count = 0
      BY <1>1, <3>1 DEF Stored
    <3>2. CASE count > 0
      <4>1. count - 1 = 8 * (k - 1) + 7
        BY ONLY <1>1, <1>2
      <4>2. (count - 1) \div 8 = k - 1
        BY ONLY <1>1, <4>1
      <4>. QED
        BY <1>1, <3>2, <4>2 DEF Stored
    <3>. QED
      BY <3>1, <3>2
  <2>. QED
    BY ONLY <2>1, <2>2 DEF Base32!KeptMask, Base16!KeptMask, k
<1>3. CASE l # 0
  <2>1. (count - 1) \div 8 = k /\ count > 0
    BY ONLY <1>1, <1>3
  <2>2. s.k = k /\ s.cmask = Filled(k, count)
    BY <2>1 DEF Stored
  <2>. QED
    BY ONLY <2>2 DEF Base32!KeptMask, Base16!KeptMask, k
<1>. QED
  BY ONLY <1>2, <1>3

\* What the loops leave alone, from the byte on the next digit begins in.
LEMMA UntouchedHence ==
    ASSUME NEW text, NEW charBits, NEW count \in Nat, NEW junk, NEW s,
           Stored(s, text, charBits, count, junk)
    PROVE  Untouched(s.dst, junk, count \div 8)
<1>1. s.k \in Int /\ s.k <= count \div 8
  <2>1. CASE count = 0
    BY <2>1 DEF Stored
  <2>2. CASE count > 0
    <3>1. (count - 1) \div 8 \in Int /\ (count - 1) \div 8 <= count \div 8
      BY <2>2
    <3>. QED
      BY <2>2, <3>1 DEF Stored
  <2>. QED
    BY <2>1, <2>2
<1>2. count \div 8 \in Int
  OBVIOUS
<1>3. \A y \in Int : y >= 8 * (count \div 8 + 1) => y >= 8 * (s.k + 1)
  <2>. DEFINE k == count \div 8
  <2>. HIDE DEF k
  <2>1. \A y \in Int : y >= 8 * (k + 1) => y >= 8 * (s.k + 1)
    BY ONLY <1>1, <1>2 DEF k
  <2>. QED
    BY ONLY <2>1 DEF k
<1>. QED
  BY <1>3 DEF Stored, Untouched

\* A word put in place of the bits a mask has of one byte.
Put(dst, mask, word, k) == (dst \ Base32!Shift(mask, k * 8)) \cup Base32!Shift(word, k * 8)

LEMMA Placed ==
    ASSUME NEW dst \in SUBSET Nat, NEW mask \in SUBSET Nat, NEW word \in SUBSET mask, NEW k \in Nat
    PROVE  LET new == Put(dst, mask, word, k)
           IN  /\ new \in SUBSET Nat
               /\ \A y \in Int : y \in new <=> IF y - 8 * k \in mask THEN y - 8 * k \in word
                                               ELSE y \in dst
<1>1. word \in SUBSET Int /\ k * 8 \in Int
  <2>1. word \in SUBSET Int
    OBVIOUS
  <2>. QED
    BY ONLY <2>1, k \in Nat
<1>2. \A y : y \in Base32!Shift(mask, k * 8) <=> y \in Int /\ y - k * 8 \in mask
  <2>1. mask \in SUBSET Int
    OBVIOUS
  <2>. QED
    BY ONLY <1>1, <2>1, ShiftBits
<1>3. \A y : y \in Base32!Shift(word, k * 8) <=> y \in Int /\ y - k * 8 \in word
  BY ONLY <1>1, ShiftBits
<1>4. \A y \in Int : y - k * 8 = y - 8 * k
  OBVIOUS
<1>5. \A y \in Int : y - 8 * k \in Nat => y \in Nat
  OBVIOUS
<1>. QED
  BY <1>2, <1>3, <1>4, <1>5 DEF Put

\* A digit shifted, of which the bits of one byte are taken.
LEMMA Cut ==
    ASSUME NEW word \in SUBSET Int, NEW by \in Int
    PROVE  /\ \A x : x \in Base32!Bits(Base32!Shift(word, by), 0, 8) <=> x \in 0 .. 7 /\ x - by \in word
           /\ Base32!Bits(Base32!Shift(word, by), 0, 8) \in SUBSET Int
<1>1. \A x : x \in Base32!Shift(word, by) <=> x \in Int /\ x - by \in word
  BY ONLY word \in SUBSET Int, by \in Int, ShiftBits
<1>. QED
  BY <1>1 DEF Base32!Bits

\* Where the bits of the next digit stand.
LEMMA NextBits ==
    ASSUME NEW charBits \in {4, 5}, NEW n \in Nat, NEW p \in n * charBits .. (n + 1) * charBits - 1,
           NEW text
    PROVE  DigitBit(text, charBits, p) <=> (n + 1) * charBits - 1 - p \in text[n + 1]
<1>1. p \div charBits = n /\ charBits - 1 - (p % charBits) = (n + 1) * charBits - 1 - p
  <2>1. CASE charBits = 4
    BY <2>1
  <2>2. CASE charBits = 5
    BY <2>2
  <2>. QED
    BY <2>1, <2>2
<1>. QED
  BY ONLY <1>1 DEF DigitBit

LEMMA StoreDigit32 ==
    ASSUME NEW text, NEW n \in Nat, NEW junk, NEW s, Stored(s, text, 5, n * 5, junk), text[n + 1] \in SUBSET (0 .. 4)
    PROVE  Stored(Base32!StoreDigit(s, text[n + 1], n * 5), text, 5, (n + 1) * 5, junk)
<1>. DEFINE digit == text[n + 1]  k == (n * 5) \div 8  l == (n * 5) % 8
<1>. DEFINE Here(w) == Base32!Bits(Base32!Shift(w, 8 - 5 - l), 0, 8)
<1>. DEFINE Behind(w) == Base32!Bits(Base32!Shift(w, 2 * 8 - 5 - l), 0, 8)
<1>. DEFINE mask == Here(0 .. 4)  spill == Behind(0 .. 4)
<1>. DEFINE dst == Put(s.dst, mask, Here(digit), k)
<1>. DEFINE dst2 == Put(dst, spill, Behind(digit), k + 1)
<1>. DEFINE kept == Base32!KeptMask(s, k)
<1>. DEFINE new == IF spill = {} THEN [dst |-> dst, k |-> k, cmask |-> mask \cup kept]
                   ELSE [dst |-> dst2, k |-> k + 1, cmask |-> spill]
<1>1. Base32!StoreDigit(s, digit, n * 5) = new
  <2>1. Base32!Ones(5) = 0 .. 4
    BY DEF Base32!Ones
  <2>. QED
    BY ONLY <2>1, Zenon DEF Base32!StoreDigit, Base32!At, Put
<1>2. k \in Nat /\ l \in 0 .. 7 /\ n * 5 = 8 * k + l
  OBVIOUS
<1>3. kept = Filled(k, n * 5)
  BY KeptFilled
<1>. HIDE DEF k, l, kept
<1>4. 8 - 5 - l \in Int /\ 2 * 8 - 5 - l \in Int /\ 0 .. 4 \in SUBSET Int /\ digit \in SUBSET Int
      /\ digit \in SUBSET (0 .. 4)
  <2>1. digit \in SUBSET (0 .. 4)
    OBVIOUS
  <2>. HIDE DEF digit
  <2>. QED
    BY ONLY <1>2, <2>1
<1>5. /\ \A x : x \in mask <=> x \in 0 .. 7 /\ x - (8 - 5 - l) \in 0 .. 4
      /\ \A x : x \in Here(digit) <=> x \in 0 .. 7 /\ x - (8 - 5 - l) \in digit
  BY ONLY <1>4, Cut
<1>6. /\ \A x : x \in spill <=> x \in 0 .. 7 /\ x - (2 * 8 - 5 - l) \in 0 .. 4
      /\ \A x : x \in Behind(digit) <=> x \in 0 .. 7 /\ x - (2 * 8 - 5 - l) \in digit
  BY ONLY <1>4, Cut
<1>. HIDE DEF Here, Behind
<1>7. /\ mask \in SUBSET Nat /\ spill \in SUBSET Nat
      /\ Here(digit) \in SUBSET mask /\ Behind(digit) \in SUBSET spill
  BY ONLY <1>4, <1>5, <1>6
<1>. HIDE DEF mask, spill, digit
<1>8. s.dst \in SUBSET Nat /\ \A p \in 0 .. n * 5 - 1 : Flip(p) \in s.dst <=> DigitBit(text, 5, p)
  BY DEF Stored, Holds
<1>17. Untouched(s.dst, junk, k)
  <2>1. n * 5 \in Nat
    OBVIOUS
  <2>. QED
    BY ONLY <2>1, Stored(s, text, 5, n * 5, junk), UntouchedHence DEF k
<1>9. /\ dst \in SUBSET Nat
      /\ \A y \in Int : y \in dst <=> IF y - 8 * k \in mask THEN y - 8 * k \in Here(digit)
                                      ELSE y \in s.dst
  <2>1. k \in Nat
    BY <1>2
  <2>2. s.dst \in SUBSET Nat /\ mask \in SUBSET Nat /\ Here(digit) \in SUBSET mask
    BY ONLY <1>7, <1>8
  <2>. QED
    BY ONLY <2>1, <2>2, Placed
<1>. HIDE DEF dst
<1>10. /\ dst2 \in SUBSET Nat
       /\ \A y \in Int : y \in dst2 <=> IF y - 8 * (k + 1) \in spill
                                        THEN y - 8 * (k + 1) \in Behind(digit) ELSE y \in dst
  <2>1. k + 1 \in Nat
    BY <1>2
  <2>2. dst \in SUBSET Nat /\ spill \in SUBSET Nat /\ Behind(digit) \in SUBSET spill
    BY ONLY <1>7, <1>9
  <2>. QED
    BY ONLY <2>1, <2>2, Placed
<1>. HIDE DEF dst2
\* What a place of the old digits and of the new one means.
<1>11. ASSUME NEW p \in 0 .. n * 5 - 1
       PROVE  /\ Flip(p) \in Int /\ Flip(p) - 8 * k \notin mask /\ Flip(p) - 8 * (k + 1) \notin spill
  <2>1. p \in Int /\ p < 8 * k + l
    BY <1>2
  <2>2. PICK j \in Int, bit \in 0 .. 7 : p = 8 * j + bit /\ Flip(p) = 8 * j + (7 - bit)
    <3>1. p \div 8 \in Int /\ p % 8 \in 0 .. 7 /\ p = 8 * (p \div 8) + (p % 8)
      BY <2>1
    <3>2. Flip(p) = 8 * (p \div 8) + (7 - (p % 8))
      BY <2>1, <3>1 DEF Flip
    <3>. QED
      BY ONLY <3>1, <3>2
  <2>3. j < k \/ (j = k /\ bit < l)
    BY ONLY <1>2, <2>1, <2>2
  <2>4. Flip(p) - 8 * k \notin mask
    BY ONLY <1>2, <1>5, <2>2, <2>3
  <2>5. Flip(p) - 8 * (k + 1) \notin spill
    BY ONLY <1>2, <1>6, <2>2, <2>3
  <2>. QED
    BY ONLY <2>2, <2>4, <2>5
<1>12. ASSUME NEW p \in n * 5 .. (n + 1) * 5 - 1
       PROVE  LET c == (n + 1) * 5 - 1 - p
              IN  /\ c \in 0 .. 4 /\ DigitBit(text, 5, p) <=> c \in digit
                  /\ c >= l - 3 => /\ Flip(p) - 8 * k \in mask
                                   /\ Flip(p) - 8 * k - (8 - 5 - l) = c
                  /\ c < l - 3 => /\ Flip(p) - 8 * k \notin mask
                                  /\ Flip(p) - 8 * (k + 1) \in spill
                                  /\ Flip(p) - 8 * (k + 1) - (2 * 8 - 5 - l) = c
                  /\ c >= l - 3 => Flip(p) - 8 * (k + 1) \notin spill
  <2>. DEFINE c == (n + 1) * 5 - 1 - p
  <2>1. c \in 0 .. 4 /\ p \in Int /\ p = 8 * k + (l + 4 - c)
    BY <1>2
  <2>2. DigitBit(text, 5, p) <=> c \in digit
    BY ONLY p \in n * 5 .. (n + 1) * 5 - 1, n \in Nat, NextBits DEF digit
  <2>. HIDE DEF c
  <2>3. ASSUME c >= l - 3
        PROVE  /\ Flip(p) - 8 * k \in mask /\ Flip(p) - 8 * k - (8 - 5 - l) = c
               /\ Flip(p) - 8 * (k + 1) \notin spill
    <3>1. p \div 8 = k /\ p % 8 = l + 4 - c
      BY ONLY <1>2, <2>1, <2>3
    <3>2. Flip(p) = 8 * k + 7 - (l + 4 - c)
      BY ONLY <1>2, <2>1, <3>1 DEF Flip
    <3>. QED
      BY ONLY <1>2, <1>5, <1>6, <2>1, <2>3, <3>2
  <2>4. ASSUME c < l - 3
        PROVE  /\ Flip(p) - 8 * k \notin mask /\ Flip(p) - 8 * (k + 1) \in spill
               /\ Flip(p) - 8 * (k + 1) - (2 * 8 - 5 - l) = c
    <3>1. p \div 8 = k + 1 /\ p % 8 = l + 4 - c - 8
      BY ONLY <1>2, <2>1, <2>4
    <3>2. Flip(p) = 8 * (k + 1) + 7 - (l + 4 - c - 8)
      BY ONLY <1>2, <2>1, <3>1 DEF Flip
    <3>. QED
      BY ONLY <1>2, <1>5, <1>6, <2>1, <2>4, <3>2
  <2>. QED
    BY ONLY <2>1, <2>2, <2>3, <2>4 DEF c
<1>13. \A p \in 0 .. (n + 1) * 5 - 1 : p \in 0 .. n * 5 - 1 \/ p \in n * 5 .. (n + 1) * 5 - 1
  OBVIOUS
<1>14. \A p \in 0 .. (n + 1) * 5 - 1 : Flip(p) \in Int
  BY FlipTwice
<1>15. CASE l < 4
  <2>1. spill = {}
    BY ONLY <1>6, <1>15, <1>2
  <2>2. \A p \in 0 .. (n + 1) * 5 - 1 : Flip(p) \in dst <=> DigitBit(text, 5, p)
    <3>1. ASSUME NEW p \in n * 5 .. (n + 1) * 5 - 1, Flip(p) \in Int
          PROVE  Flip(p) \in dst <=> DigitBit(text, 5, p)
      <4>. DEFINE c == (n + 1) * 5 - 1 - p
      <4>1. c \in 0 .. 4 /\ (DigitBit(text, 5, p) <=> c \in digit)
        BY ONLY <1>12
      <4>2. c >= l - 3
        BY ONLY <1>2, <1>15, <4>1
      <4>3. Flip(p) - 8 * k \in mask /\ Flip(p) - 8 * k - (8 - 5 - l) = c
        BY ONLY <1>12, <4>2
      <4>. HIDE DEF c
      <4>4. Flip(p) \in dst <=> Flip(p) - 8 * k \in Here(digit)
        BY ONLY <1>9, <3>1, <4>3
      <4>. QED
        BY ONLY <1>5, <4>1, <4>3, <4>4
    <3>. QED
      BY ONLY <1>8, <1>9, <1>11, <1>13, <1>14, <3>1
  <2>3. ((n + 1) * 5 - 1) \div 8 = k /\ (n + 1) * 5 > 0
    <3>1. (n + 1) * 5 - 1 = 8 * k + (l + 4)
      BY <1>2
    <3>. QED
      BY ONLY <1>2, <1>15, <3>1, n \in Nat
  <2>4. mask \cup kept = Filled(k, (n + 1) * 5)
    <3>1. (n + 1) * 5 = 8 * k + l + 5
      BY <1>2
    <3>2. ASSUME NEW bit PROVE bit \in mask \cup kept <=> bit \in Filled(k, (n + 1) * 5)
      <4>1. bit \in kept <=> bit \in 0 .. 7 /\ 7 - bit < l
        BY ONLY <1>2, <1>3 DEF Filled
      <4>2. bit \in Filled(k, (n + 1) * 5) <=> bit \in 0 .. 7 /\ 7 - bit < l + 5
        BY ONLY <1>2, <3>1 DEF Filled
      <4>3. bit \in mask <=> bit \in 0 .. 7 /\ 3 - l <= bit /\ bit <= 7 - l
        BY ONLY <1>2, <1>5
      <4>. QED
        BY ONLY <1>2, <1>15, <4>1, <4>2, <4>3
    <3>. QED
      BY ONLY <3>2
  <2>5. new = [dst |-> dst, k |-> k, cmask |-> mask \cup kept]
    BY <2>1
  <2>. HIDE DEF new
  <2>6. new.dst = dst /\ new.k = k /\ new.cmask = mask \cup kept
    BY ONLY <2>5
  <2>8. Untouched(dst, junk, k)
    <3>1. \A y \in Int : y >= 8 * (k + 1) => y - 8 * k \notin mask
      BY ONLY <1>2, <1>5
    <3>. QED
      BY ONLY <1>9, <1>17, <3>1 DEF Untouched
  <2>7. Stored(new, text, 5, (n + 1) * 5, junk)
    <3>1. Holds(new.dst, text, 5, (n + 1) * 5)
      BY ONLY <1>9, <2>2, <2>6 DEF Holds
    <3>2. Untouched(new.dst, junk, new.k) /\ new.k \in Int /\ (n + 1) * 5 # 0
      BY ONLY <1>2, <2>3, <2>6, <2>8, n \in Nat
    <3>3. new.k = ((n + 1) * 5 - 1) \div 8 /\ new.cmask = Filled(new.k, (n + 1) * 5)
      BY ONLY <2>3, <2>4, <2>6
    <3>. QED
      BY ONLY <3>1, <3>2, <3>3, Zenon DEF Stored
  <2>. QED
    BY ONLY <1>1, <2>7 DEF digit
<1>16. CASE l >= 4
  <2>1. spill # {}
    <3>1. 7 \in spill
      BY ONLY <1>6, <1>16, <1>2
    <3>. QED
      BY ONLY <3>1
  <2>2. \A p \in 0 .. (n + 1) * 5 - 1 : Flip(p) \in dst2 <=> DigitBit(text, 5, p)
    <3>1. ASSUME NEW p \in n * 5 .. (n + 1) * 5 - 1, Flip(p) \in Int
          PROVE  Flip(p) \in dst2 <=> DigitBit(text, 5, p)
      <4>. DEFINE c == (n + 1) * 5 - 1 - p
      <4>1. c \in 0 .. 4 /\ (DigitBit(text, 5, p) <=> c \in digit)
        BY ONLY <1>12
      <4>2. CASE c >= l - 3
        <5>1. /\ Flip(p) - 8 * k \in mask /\ Flip(p) - 8 * k - (8 - 5 - l) = c
              /\ Flip(p) - 8 * (k + 1) \notin spill
          BY ONLY <1>12, <4>2
        <5>. HIDE DEF c
        <5>2. Flip(p) \in dst2 <=> Flip(p) - 8 * k \in Here(digit)
          BY ONLY <1>9, <1>10, <3>1, <5>1
        <5>. QED
          BY ONLY <1>5, <4>1, <5>1, <5>2
      <4>3. CASE c < l - 3
        <5>1. Flip(p) - 8 * (k + 1) \in spill /\ Flip(p) - 8 * (k + 1) - (2 * 8 - 5 - l) = c
          BY ONLY <1>12, <4>3
        <5>. HIDE DEF c
        <5>2. Flip(p) \in dst2 <=> Flip(p) - 8 * (k + 1) \in Behind(digit)
          BY ONLY <1>10, <3>1, <5>1
        <5>. QED
          BY ONLY <1>6, <4>1, <5>1, <5>2
      <4>. QED
        BY ONLY <1>2, <4>1, <4>2, <4>3
    <3>. QED
      BY ONLY <1>8, <1>9, <1>10, <1>11, <1>13, <1>14, <3>1
  <2>3. ((n + 1) * 5 - 1) \div 8 = k + 1 /\ (n + 1) * 5 > 0
    <3>1. (n + 1) * 5 - 1 = 8 * (k + 1) + (l - 4)
      BY <1>2
    <3>. QED
      BY ONLY <1>2, <1>16, <3>1, n \in Nat
  <2>4. spill = Filled(k + 1, (n + 1) * 5)
    <3>1. (n + 1) * 5 = 8 * k + l + 5
      BY <1>2
    <3>2. ASSUME NEW bit PROVE bit \in spill <=> bit \in Filled(k + 1, (n + 1) * 5)
      <4>1. bit \in Filled(k + 1, (n + 1) * 5) <=> bit \in 0 .. 7 /\ 7 - bit < l - 3
        BY ONLY <1>2, <3>1 DEF Filled
      <4>2. bit \in spill <=> bit \in 0 .. 7 /\ 11 - l <= bit
        BY ONLY <1>2, <1>6
      <4>. QED
        BY ONLY <1>2, <4>1, <4>2
    <3>. QED
      BY ONLY <3>2
  <2>5. new = [dst |-> dst2, k |-> k + 1, cmask |-> spill]
    BY <2>1
  <2>. HIDE DEF new
  <2>6. new.dst = dst2 /\ new.k = k + 1 /\ new.cmask = spill
    BY ONLY <2>5
  <2>8. Untouched(dst2, junk, k + 1)
    <3>1. \A y \in Int : y >= 8 * (k + 1 + 1) =>
              y - 8 * k \notin mask /\ y - 8 * (k + 1) \notin spill /\ y >= 8 * (k + 1)
      BY ONLY <1>2, <1>5, <1>6
    <3>. QED
      BY ONLY <1>9, <1>10, <1>17, <3>1 DEF Untouched
  <2>7. Stored(new, text, 5, (n + 1) * 5, junk)
    BY ONLY <1>2, <1>10, <2>2, <2>3, <2>4, <2>6, <2>8 DEF Stored, Holds
  <2>. QED
    BY ONLY <1>1, <2>7 DEF digit
<1>. QED
  BY ONLY <1>2, <1>15, <1>16

\* One digit of base16_from.
StoreDigit16(s, digit, i) ==
    LET k == i \div 8
        Here(w) == Base16!Shift(w, 8 - 4 - (i % 8))
        mask == Here(Base16!Ones(4))
    IN  [dst |-> (s.dst \ Base16!At(mask, k)) \cup Base16!At(Here(digit), k),
         k |-> k,
         cmask |-> mask \cup Base16!KeptMask(s, k)]

LEMMA Digit16Stored ==
    ASSUME NEW text, NEW n \in Nat, NEW junk, NEW s, Stored(s, text, 4, n * 4, junk), text[n + 1] \in SUBSET (0 .. 3)
    PROVE  Stored(StoreDigit16(s, text[n + 1], n * 4), text, 4, (n + 1) * 4, junk)
<1>. DEFINE digit == text[n + 1]  k == (n * 4) \div 8  l == (n * 4) % 8
<1>. DEFINE mask == Base32!Shift(0 .. 3, 8 - 4 - l)  word == Base32!Shift(digit, 8 - 4 - l)
<1>. DEFINE dst == Put(s.dst, mask, word, k)
<1>. DEFINE kept == Base16!KeptMask(s, k)
<1>. DEFINE new == [dst |-> dst, k |-> k, cmask |-> mask \cup kept]
<1>2. k \in Nat /\ l \in {0, 4} /\ n * 4 = 8 * k + l
  OBVIOUS
<1>3. kept = Filled(k, n * 4)
  BY KeptFilled
<1>4. digit \in SUBSET (0 .. 3)
  OBVIOUS
<1>. HIDE DEF k, l, kept, digit
<1>5. 8 - 4 - l \in Int /\ 0 .. 3 \in SUBSET Int /\ digit \in SUBSET Int /\ k * 8 \in Int
  BY ONLY <1>2, <1>4
<1>6. /\ \A x : x \in mask <=> x \in Int /\ x - (8 - 4 - l) \in 0 .. 3
      /\ \A x : x \in word <=> x \in Int /\ x - (8 - 4 - l) \in digit
  BY ONLY <1>5, ShiftBits
<1>7. mask \in SUBSET Nat /\ word \in SUBSET mask /\ mask \in SUBSET Int /\ word \in SUBSET Int
  BY ONLY <1>2, <1>4, <1>6
<1>1. StoreDigit16(s, digit, n * 4) = new
  <2>1. Base16!Ones(4) = 0 .. 3
    BY DEF Base16!Ones
  <2>2. Base16!Shift(0 .. 3, 8 - 4 - l) = mask /\ Base16!Shift(digit, 8 - 4 - l) = word
    BY ONLY <1>5, ShiftBits
  <2>. HIDE DEF mask, word
  <2>3. Base16!At(mask, k) = Base32!Shift(mask, k * 8) /\ Base16!At(word, k) = Base32!Shift(word, k * 8)
    BY ONLY <1>5, <1>7, ShiftBits DEF Base16!At
  <2>4. StoreDigit16(s, digit, n * 4) =
           [dst |-> (s.dst \ Base16!At(mask, k)) \cup Base16!At(word, k), k |-> k,
            cmask |-> mask \cup kept]
    BY ONLY <2>1, <2>2 DEF StoreDigit16, k, l, kept
  <2>. QED
    BY ONLY <2>3, <2>4 DEF Put
<1>. HIDE DEF mask, word
<1>8. s.dst \in SUBSET Nat /\ \A p \in 0 .. n * 4 - 1 : Flip(p) \in s.dst <=> DigitBit(text, 4, p)
  BY DEF Stored, Holds
<1>17. Untouched(s.dst, junk, k)
  <2>1. n * 4 \in Nat
    OBVIOUS
  <2>. QED
    BY ONLY <2>1, Stored(s, text, 4, n * 4, junk), UntouchedHence DEF k
<1>9. /\ dst \in SUBSET Nat
      /\ \A y \in Int : y \in dst <=> IF y - 8 * k \in mask THEN y - 8 * k \in word ELSE y \in s.dst
  <2>1. k \in Nat /\ s.dst \in SUBSET Nat /\ mask \in SUBSET Nat /\ word \in SUBSET mask
    BY ONLY <1>2, <1>7, <1>8
  <2>. QED
    BY ONLY <2>1, Placed
<1>. HIDE DEF dst
<1>10. ASSUME NEW p \in 0 .. n * 4 - 1 PROVE Flip(p) - 8 * k \notin mask
  <2>1. p \in Int /\ p < 8 * k + l
    BY <1>2
  <2>2. PICK j \in Int, bit \in 0 .. 7 : p = 8 * j + bit /\ Flip(p) = 8 * j + (7 - bit)
    <3>1. p \div 8 \in Int /\ p % 8 \in 0 .. 7 /\ p = 8 * (p \div 8) + (p % 8)
      BY <2>1
    <3>2. Flip(p) = 8 * (p \div 8) + (7 - (p % 8))
      BY <2>1, <3>1 DEF Flip
    <3>. QED
      BY ONLY <3>1, <3>2
  <2>3. j < k \/ (j = k /\ bit < l)
    BY ONLY <1>2, <2>1, <2>2
  <2>. QED
    BY ONLY <1>2, <1>6, <2>2, <2>3
<1>11. ASSUME NEW p \in n * 4 .. (n + 1) * 4 - 1
       PROVE  LET c == (n + 1) * 4 - 1 - p
              IN  /\ DigitBit(text, 4, p) <=> c \in digit
                  /\ Flip(p) - 8 * k \in mask /\ Flip(p) - 8 * k - (8 - 4 - l) = c
  <2>. DEFINE c == (n + 1) * 4 - 1 - p
  <2>1. c \in 0 .. 3 /\ p \in Int /\ p = 8 * k + (l + 3 - c)
    BY <1>2
  <2>2. DigitBit(text, 4, p) <=> c \in digit
    BY ONLY p \in n * 4 .. (n + 1) * 4 - 1, n \in Nat, NextBits DEF digit
  <2>. HIDE DEF c
  <2>3. p \div 8 = k /\ p % 8 = l + 3 - c
    BY ONLY <1>2, <2>1
  <2>4. Flip(p) = 8 * k + 7 - (l + 3 - c)
    BY ONLY <1>2, <2>1, <2>3 DEF Flip
  <2>5. Flip(p) - 8 * k \in mask /\ Flip(p) - 8 * k - (8 - 4 - l) = c
    BY ONLY <1>2, <1>6, <2>1, <2>4
  <2>. QED
    BY ONLY <2>2, <2>5 DEF c
<1>12. \A p \in 0 .. (n + 1) * 4 - 1 : Flip(p) \in dst <=> DigitBit(text, 4, p)
  <2>1. \A p \in 0 .. (n + 1) * 4 - 1 : p \in 0 .. n * 4 - 1 \/ p \in n * 4 .. (n + 1) * 4 - 1
    OBVIOUS
  <2>2. \A p \in 0 .. (n + 1) * 4 - 1 : Flip(p) \in Int
    BY FlipTwice
  <2>3. ASSUME NEW p \in n * 4 .. (n + 1) * 4 - 1, Flip(p) \in Int
        PROVE  Flip(p) \in dst <=> DigitBit(text, 4, p)
    <3>. DEFINE c == (n + 1) * 4 - 1 - p
    <3>1. /\ DigitBit(text, 4, p) <=> c \in digit
          /\ Flip(p) - 8 * k \in mask /\ Flip(p) - 8 * k - (8 - 4 - l) = c
      BY ONLY <1>11
    <3>. HIDE DEF c
    <3>2. Flip(p) \in dst <=> Flip(p) - 8 * k \in word
      BY ONLY <1>9, <2>3, <3>1
    <3>3. Flip(p) - 8 * k \in Int
      BY ONLY <1>7, <3>1
    <3>. QED
      BY ONLY <1>6, <3>1, <3>2, <3>3
  <2>. QED
    BY ONLY <1>8, <1>9, <1>10, <2>1, <2>2, <2>3
<1>13. ((n + 1) * 4 - 1) \div 8 = k /\ (n + 1) * 4 > 0
  <2>1. (n + 1) * 4 - 1 = 8 * k + (l + 3)
    BY <1>2
  <2>. QED
    BY ONLY <1>2, <2>1, n \in Nat
<1>14. mask \cup kept = Filled(k, (n + 1) * 4)
  <2>1. (n + 1) * 4 = 8 * k + l + 4
    BY <1>2
  <2>2. ASSUME NEW bit PROVE bit \in mask \cup kept <=> bit \in Filled(k, (n + 1) * 4)
    <3>1. bit \in kept <=> bit \in 0 .. 7 /\ 7 - bit < l
      BY ONLY <1>2, <1>3 DEF Filled
    <3>2. bit \in Filled(k, (n + 1) * 4) <=> bit \in 0 .. 7 /\ 7 - bit < l + 4
      BY ONLY <1>2, <2>1 DEF Filled
    <3>3. bit \in mask <=> bit \in 0 .. 7 /\ 4 - l <= bit /\ bit <= 7 - l
      BY ONLY <1>2, <1>6
    <3>. QED
      BY ONLY <1>2, <3>1, <3>2, <3>3
  <2>. QED
    BY ONLY <2>2
<1>15. new.dst = dst /\ new.k = k /\ new.cmask = mask \cup kept
  OBVIOUS
<1>. HIDE DEF new
<1>18. Untouched(dst, junk, k)
  <2>1. \A y \in Int : y >= 8 * (k + 1) => y - 8 * k \notin mask
    BY ONLY <1>2, <1>6
  <2>. QED
    BY ONLY <1>9, <1>17, <2>1 DEF Untouched
<1>16. Stored(new, text, 4, (n + 1) * 4, junk)
  BY ONLY <1>2, <1>9, <1>12, <1>13, <1>14, <1>15, <1>18 DEF Stored, Holds
<1>. QED
  BY ONLY <1>1, <1>16 DEF digit

-----------------------------------------------------------------------------
(* Induction *)

\* Every set of numbers that is not empty has a least one.
LEMMA LeastNumber ==
    ASSUME NEW S \in SUBSET Nat, S # {}
    PROVE  \E m \in S : \A i \in S : m <= i
<1>. DEFINE upto(i) == 0 .. i
<1>. DEFINE T == {upto(i) : i \in S}
<1>1. T \subseteq FiniteSubsetsOf(Nat) /\ T # {}
  <2>1. \A i \in S : IsFiniteSet(upto(i)) /\ upto(i) \in SUBSET Nat
    BY FS_Interval
  <2>. HIDE DEF upto
  <2>. QED
    BY <2>1 DEF FiniteSubsetsOf
<1>2. PICK x \in T : \A y \in T : <<y, x>> \notin StrictSubsetOrdering(Nat)
  BY ONLY <1>1, FS_StrictSubsetOrderingWellFounded, WFMin
<1>3. PICK m \in S : x = upto(m)
  OBVIOUS
<1>4. ASSUME NEW i \in S, i < m PROVE FALSE
  <2>1. upto(i) \subseteq upto(m) /\ m \in upto(m) /\ m \notin upto(i) /\ m \in Nat
    <3>1. i \in Nat /\ m \in Nat
      OBVIOUS
    <3>. QED
      BY ONLY <1>4, <3>1
  <2>2. upto(i) \in SUBSET Nat /\ upto(m) \in SUBSET Nat /\ upto(i) \in T
    <3>1. \A q \in Nat : upto(q) \in SUBSET Nat
      BY ONLY TRUE
    <3>. QED
      BY <3>1
  <2>3. <<upto(i), upto(m)>> \in StrictSubsetOrdering(Nat)
    BY <2>1, <2>2 DEF StrictSubsetOrdering
  <2>. QED
    BY <1>2, <1>3, <2>2, <2>3
<1>. QED
  BY <1>4

\* What holds of 0, and of k + 1 if of k, holds of all.
LEMMA Upwards ==
    ASSUME NEW n \in Nat, NEW G, 0 \in G, \A k \in Nat : k < n /\ k \in G => k + 1 \in G
    PROVE  \A k \in 0 .. n : k \in G
<1>. DEFINE bad == {k \in 0 .. n : k \notin G}
<1>1. ASSUME bad # {} PROVE FALSE
  <2>1. PICK m \in bad : \A i \in bad : m <= i
    <3>1. bad \in SUBSET Nat
      OBVIOUS
    <3>. HIDE DEF bad
    <3>. QED
      BY ONLY <3>1, <1>1, LeastNumber
  <2>2. m \in Nat /\ m <= n /\ m \notin G /\ m # 0
    OBVIOUS
  <2>3. m - 1 \in Nat /\ m - 1 < n /\ m - 1 + 1 = m /\ m - 1 \in 0 .. n /\ ~(m <= m - 1)
    BY ONLY <2>2, n \in Nat
  <2>4. m - 1 \notin bad
    BY ONLY <2>1, <2>3
  <2>. QED
    BY <2>2, <2>3, <2>4
<1>. QED
  BY <1>1

-----------------------------------------------------------------------------
(* The loops *)

StoreDigit(charBits, s, digit, i) ==
    IF charBits = 5 THEN Base32!StoreDigit(s, digit, i) ELSE StoreDigit16(s, digit, i)
Start(junk) == [dst |-> junk, k |-> -1, cmask |-> {}]
Reading(charBits, text, junk, n, g) ==
    g = [m \in 0 .. n |-> IF m = 0 THEN Start(junk)
                          ELSE StoreDigit(charBits, g[m - 1], text[m], (m - 1) * charBits)]

LEMMA LoopDefined ==
    ASSUME NEW charBits, NEW text, NEW junk, NEW n \in Nat
    PROVE  \E g : Reading(charBits, text, junk, n, g)
<1>. DEFINE G == {k \in 0 .. n : \E g : Reading(charBits, text, junk, k, g)}
<1>1. 0 \in G
  <2>. DEFINE g == [i \in 0 .. 0 |-> Start(junk)]
  <2>1. g = [i \in 0 .. 0 |->
               IF i = 0 THEN Start(junk)
               ELSE StoreDigit(charBits, g[i - 1], text[i], (i - 1) * charBits)]
    OBVIOUS
  <2>. HIDE DEF g
  <2>2. Reading(charBits, text, junk, 0, g)
    BY ONLY <2>1 DEF Reading
  <2>. QED
    BY <2>2
<1>2. ASSUME NEW k \in Nat, k < n, k \in G PROVE k + 1 \in G
  <2>1. PICK g : Reading(charBits, text, junk, k, g)
    BY <1>2
  <2>. DEFINE body(i) == IF i = 0 THEN Start(junk)
                         ELSE StoreDigit(charBits, g[i - 1], text[i], (i - 1) * charBits)
  <2>. DEFINE h == [i \in 0 .. k + 1 |-> body(i)]
  <2>2. g = [i \in 0 .. k |-> body(i)]
    BY <2>1 DEF Reading
  <2>3. \A i \in 0 .. k : i \in 0 .. k + 1 /\ g[i] = body(i)
    BY <2>2
  <2>4. \A i \in 0 .. k : h[i] = g[i]
    BY <2>3
  <2>5. \A i \in 1 .. k + 1 : i - 1 \in 0 .. k
    OBVIOUS
  <2>6. \A i \in 0 .. k + 1 : i # 0 => i \in 1 .. k + 1
    OBVIOUS
  <2>. HIDE DEF h
  <2>7. \A i \in 0 .. k + 1 :
           body(i) = IF i = 0 THEN Start(junk)
                     ELSE StoreDigit(charBits, h[i - 1], text[i], (i - 1) * charBits)
    BY <2>4, <2>5, <2>6
  <2>8. Reading(charBits, text, junk, k + 1, h)
    BY <2>7 DEF Reading, h
  <2>. QED
    BY <1>2, <2>8
<1>. HIDE DEF G
<1>3. \A k \in 0 .. n : k \in G
  BY <1>1, <1>2, Upwards
<1>. QED
  BY <1>3 DEF G

LEMMA LoopStored ==
    ASSUME NEW charBits \in {4, 5}, NEW text, NEW junk \in SUBSET Nat, NEW n \in Nat,
           \A m \in 1 .. n : text[m] \in SUBSET (0 .. charBits - 1),
           NEW g, Reading(charBits, text, junk, n, g)
    PROVE  Stored(g[n], text, charBits, n * charBits, junk)
<1>. DEFINE G == {k \in Nat : Stored(g[k], text, charBits, k * charBits, junk)}
<1>0. \A k \in 0 .. n : g[k] = IF k = 0 THEN Start(junk)
                               ELSE StoreDigit(charBits, g[k - 1], text[k], (k - 1) * charBits)
  BY DEF Reading
<1>1. 0 \in G
  <2>1. 0 * charBits = 0 /\ 0 .. 0 * charBits - 1 = {}
    OBVIOUS
  <2>2. g[0].dst = junk /\ g[0].k = -1
    <3>1. g[0] = Start(junk)
      BY <1>0
    <3>. QED
      BY ONLY <3>1 DEF Start
  <2>3. Stored(g[0], text, charBits, 0, junk)
    <3>1. \A p : p \notin 0 .. 0 - 1
      OBVIOUS
    <3>2. Holds(g[0].dst, text, charBits, 0)
      BY ONLY <2>2, <3>1, junk \in SUBSET Nat DEF Holds
    <3>3. -1 \in Int /\ ~(0 > 0)
      OBVIOUS
    <3>. QED
      BY ONLY <2>2, <3>2, <3>3 DEF Stored, Untouched
  <2>. QED
    BY ONLY <2>1, <2>3
<1>2. ASSUME NEW k \in Nat, k < n, k \in G PROVE k + 1 \in G
  <2>1. k + 1 \in 0 .. n /\ k + 1 # 0 /\ k + 1 - 1 = k /\ k + 1 \in 1 .. n
    BY <1>2
  <2>2. g[k + 1] = StoreDigit(charBits, g[k], text[k + 1], k * charBits)
    BY ONLY <1>0, <2>1
  <2>3. Stored(g[k], text, charBits, k * charBits, junk) /\ text[k + 1] \in SUBSET (0 .. charBits - 1)
    BY <1>2, <2>1
  <2>4. Stored(g[k + 1], text, charBits, (k + 1) * charBits, junk)
    <3>1. CASE charBits = 5
      <4>1. text[k + 1] \in SUBSET (0 .. 4)
        BY ONLY <2>3, <3>1
      <4>2. Stored(Base32!StoreDigit(g[k], text[k + 1], k * 5), text, 5, (k + 1) * 5, junk)
        BY ONLY <2>3, <3>1, <4>1, k \in Nat, StoreDigit32
      <4>. QED
        BY ONLY <2>2, <3>1, <4>2 DEF StoreDigit
    <3>2. CASE charBits = 4
      <4>1. text[k + 1] \in SUBSET (0 .. 3)
        BY ONLY <2>3, <3>2
      <4>2. Stored(StoreDigit16(g[k], text[k + 1], k * 4), text, 4, (k + 1) * 4, junk)
        BY ONLY <2>3, <3>2, <4>1, k \in Nat, Digit16Stored
      <4>. QED
        BY ONLY <2>2, <3>2, <4>2 DEF StoreDigit
    <3>. QED
      BY ONLY <3>1, <3>2, charBits \in {4, 5}
  <2>. QED
    BY ONLY <2>4, k \in Nat
<1>. HIDE DEF G
<1>3. n \in G
  <2>1. \A k \in 0 .. n : k \in G
    BY ONLY <1>1, <1>2, n \in Nat, Upwards
  <2>. QED
    BY ONLY <2>1, n \in Nat
<1>. QED
  BY ONLY <1>3 DEF G

\* Behind the last digit the rest of its byte is cleared.
Ended(s) == [dst |-> s.dst \ Base32!Shift(0 .. 7 \ s.cmask, s.k * 8),
             mask |-> s.cmask, len |-> s.k + 1]

LEMMA Finished ==
    ASSUME NEW charBits \in {4, 5}, NEW text, NEW n \in Nat, n > 0, Len(text) = n, DOMAIN text = 1 .. n,
           NEW junk \in SUBSET Nat, NEW s, Stored(s, text, charBits, n * charBits, junk)
    PROVE  LET r == Ended(s)
           IN  FromRight(r, text, charBits, junk) /\ r.dst \in SUBSET Nat /\ r.mask \in SUBSET (0 .. 7)
<1>. DEFINE count == n * charBits  len == s.k + 1
<1>. DEFINE dst == s.dst \ Base32!Shift(0 .. 7 \ s.cmask, s.k * 8)
<1>. DEFINE r == [dst |-> dst, mask |-> s.cmask, len |-> len]
<1>1. count \in Nat /\ count > 0 /\ count = charBits * n
  BY charBits \in {4, 5}
<1>2. /\ s.dst \in SUBSET Nat /\ \A p \in 0 .. count - 1 : Flip(p) \in s.dst <=> DigitBit(text, charBits, p)
      /\ s.k = (count - 1) \div 8 /\ s.cmask = Filled(s.k, count) /\ Untouched(s.dst, junk, s.k)
  BY <1>1 DEF Stored, Holds
<1>. HIDE DEF count
<1>3. s.k \in Nat /\ 8 * s.k < count /\ count <= 8 * s.k + 8
  BY ONLY <1>1, <1>2
<1>4. len = (count + 7) \div 8 /\ len \in Nat
  <2>1. s.k \in Nat /\ 8 * s.k < count /\ count <= 8 * s.k + 8 /\ count \in Nat
    BY ONLY <1>1, <1>3
  <2>. QED
    BY ONLY <2>1
<1>5. \A y : y \in dst <=> y \in s.dst /\ ~(y - 8 * s.k \in 0 .. 7 /\ y - 8 * s.k \notin s.cmask)
  <2>1. 0 .. 7 \ s.cmask \in SUBSET Int /\ s.k * 8 \in Int
    BY ONLY <1>3
  <2>2. \A y : y \in Base32!Shift(0 .. 7 \ s.cmask, s.k * 8)
                  <=> y \in Int /\ y - s.k * 8 \in 0 .. 7 \ s.cmask
    BY ONLY <2>1, ShiftBits
  <2>3. \A y \in Int : y - s.k * 8 = y - 8 * s.k
    BY ONLY <1>3
  <2>4. \A y \in s.dst : y \in Int
    BY ONLY <1>2
  <2>5. ASSUME NEW y \in s.dst
        PROVE  y \in dst <=> ~(y - 8 * s.k \in 0 .. 7 /\ y - 8 * s.k \notin s.cmask)
    BY ONLY <2>2, <2>3, <2>4, y \in s.dst
  <2>6. \A y \in dst : y \in s.dst
    BY ONLY TRUE
  <2>. HIDE DEF dst
  <2>. QED
    BY ONLY <2>5, <2>6
<1>. HIDE DEF dst
<1>6. ASSUME NEW p \in 0 .. 8 * len - 1
      PROVE  Flip(p) \in dst <=> p < count /\ DigitBit(text, charBits, p)
  <2>1. p \in Nat /\ p < 8 * s.k + 8
    BY ONLY <1>3, p \in 0 .. 8 * len - 1
  <2>2. PICK j \in Nat, bit \in 0 .. 7 : p = 8 * j + bit /\ Flip(p) = 8 * j + (7 - bit)
    <3>1. p \div 8 \in Nat /\ p % 8 \in 0 .. 7 /\ p = 8 * (p \div 8) + (p % 8)
      BY ONLY <2>1
    <3>2. Flip(p) = 8 * (p \div 8) + (7 - (p % 8))
      BY ONLY <2>1, <3>1 DEF Flip
    <3>. QED
      BY ONLY <3>1, <3>2
  <2>3. CASE p < count
    <3>1. ~(Flip(p) - 8 * s.k \in 0 .. 7 /\ Flip(p) - 8 * s.k \notin s.cmask)
      BY ONLY <1>1, <1>2, <1>3, <2>2, <2>3 DEF Filled
    <3>2. p \in 0 .. count - 1
      BY ONLY <1>1, <2>1, <2>3
    <3>. QED
      BY ONLY <1>2, <1>5, <2>3, <3>1, <3>2
  <2>4. CASE ~(p < count)
    <3>1. j = s.k
      BY ONLY <1>1, <1>3, <2>1, <2>2, <2>4
    <3>2. Flip(p) - 8 * s.k \in 0 .. 7 /\ Flip(p) - 8 * s.k \notin s.cmask
      BY ONLY <1>1, <1>2, <1>3, <2>2, <2>4, <3>1 DEF Filled
    <3>. QED
      BY ONLY <1>5, <2>4, <3>2
  <2>. QED
    BY ONLY <2>3, <2>4
<1>7. Upto(ByteStream(dst), 8 * len) = TextStream(text, charBits)
  <2>1. dst \in SUBSET Int /\ \A y \in dst : y >= 0
    BY ONLY <1>2, <1>5
  <2>2. \A p : p \in ByteStream(dst) <=> p \in Int /\ Flip(p) \in dst
    BY ONLY <2>1, Streams
  <2>3. \A p : p \in TextStream(text, charBits) <=> p \in 0 .. charBits * n - 1 /\ DigitBit(text, charBits, p)
    BY ONLY charBits \in {4, 5}, n \in Nat, DOMAIN text = 1 .. n, TextStreams
  <2>4. ASSUME NEW p \in Int, Flip(p) \in dst PROVE 0 <= p
    <3>1. 0 <= Flip(p)
      BY <2>1, <2>4
    <3>2. 0 \in Int
      OBVIOUS
    <3>. QED
      BY ONLY <3>1, <3>2, p \in Int, FlipWithin
  <2>5. ASSUME NEW p PROVE p \in Upto(ByteStream(dst), 8 * len) <=> p \in TextStream(text, charBits)
    <3>1. p \in Upto(ByteStream(dst), 8 * len) <=> p \in Int /\ Flip(p) \in dst /\ p < 8 * len
      BY ONLY <2>2 DEF Upto
    <3>2. p \in TextStream(text, charBits) <=> p \in 0 .. count - 1 /\ DigitBit(text, charBits, p)
      BY ONLY <1>1, <2>3
    <3>3. count <= 8 * len
      BY ONLY <1>3
    <3>4. p \in 0 .. count - 1 => p \in 0 .. 8 * len - 1 /\ p \in Int /\ p < count /\ p < 8 * len
      BY ONLY <1>1, <1>4, <3>3
    <3>5. p \in Int /\ Flip(p) \in dst /\ p < 8 * len => p \in 0 .. 8 * len - 1
      BY ONLY <1>4, <2>4
    <3>6. p \in 0 .. 8 * len - 1 /\ p < count => p \in 0 .. count - 1
      BY ONLY <1>1, <1>4
    <3>. QED
      BY ONLY <1>6, <3>1, <3>2, <3>4, <3>5, <3>6
  <2>. QED
    BY ONLY <2>5
<1>8. ByteStream(s.cmask) = {p - 8 * (len - 1) : p \in 8 * (len - 1) .. count - 1}
  <2>1. s.cmask \in SUBSET Int /\ s.cmask \in SUBSET (0 .. 7)
    BY ONLY <1>2 DEF Filled
  <2>2. \A p : p \in ByteStream(s.cmask) <=> p \in Int /\ Flip(p) \in s.cmask
    BY ONLY <2>1, Streams
  <2>3. ASSUME NEW p \in Int PROVE Flip(p) \in s.cmask <=> p \in 0 .. 7 /\ 8 * s.k + p < count
    <3>1. CASE p \in 0 .. 7
      <4>1. Flip(p) = 7 - p
        <5>1. p \div 8 = 0 /\ p % 8 = p
          BY ONLY <3>1
        <5>. QED
          BY ONLY <3>1, <5>1 DEF Flip
      <4>. QED
        BY ONLY <1>1, <1>2, <1>3, <3>1, <4>1 DEF Filled
    <3>2. CASE p \notin 0 .. 7
      <4>1. 1 \in Int /\ 8 * 1 = 8
        OBVIOUS
      <4>2. (Flip(p) < 8 <=> p < 8) /\ (0 <= Flip(p) <=> 0 <= p)
        BY ONLY <4>1, p \in Int, FlipWithin
      <4>3. Flip(p) \notin 0 .. 7
        BY ONLY <3>2, <4>2, p \in Int
      <4>. QED
        BY ONLY <2>1, <3>2, <4>3
    <3>. QED
      BY ONLY <3>1, <3>2
  <2>4. \A p \in Int : p + 8 * s.k \in Int /\ p + 8 * s.k - 8 * (len - 1) = p
    BY ONLY <1>3
  <2>5. ASSUME NEW p PROVE p \in ByteStream(s.cmask)
                             <=> p \in {q - 8 * (len - 1) : q \in 8 * (len - 1) .. count - 1}
    <3>1. ASSUME p \in Int, p \in 0 .. 7 /\ 8 * s.k + p < count
          PROVE  p \in {q - 8 * (len - 1) : q \in 8 * (len - 1) .. count - 1}
      <4>. DEFINE q == p + 8 * s.k
      <4>1. q \in 8 * (len - 1) .. count - 1 /\ p = q - 8 * (len - 1)
        BY ONLY <1>1, <1>3, <3>1
      <4>. HIDE DEF q, len
      <4>. QED
        BY ONLY <4>1
    <3>2. ASSUME NEW q \in 8 * (len - 1) .. count - 1, p = q - 8 * (len - 1)
          PROVE  p \in Int /\ p \in 0 .. 7 /\ 8 * s.k + p < count
      <4>1. 8 * (len - 1) = 8 * s.k
        BY ONLY <1>3
      <4>. HIDE DEF len
      <4>2. q \in 8 * s.k .. count - 1 /\ p = q - 8 * s.k
        BY ONLY <3>2, <4>1, q \in 8 * (len - 1) .. count - 1
      <4>3. s.k \in Nat /\ count \in Nat /\ count <= 8 * s.k + 8
        BY ONLY <1>1, <1>3
      <4>4. 8 * s.k \in Int /\ q \in Int /\ 8 * s.k <= q /\ q <= count - 1
        BY ONLY <4>2, <4>3
      <4>5. p \in Int /\ p >= 0 /\ 8 * s.k + p = q
        BY ONLY <4>2, <4>4
      <4>. QED
        BY ONLY <4>3, <4>4, <4>5
    <3>. HIDE DEF len
    <3>. QED
      BY ONLY <2>2, <2>3, <3>1, <3>2
  <2>. QED
    BY ONLY <2>5
<1>11. dst \ (0 .. 8 * len - 1) = junk \ (0 .. 8 * len - 1)
  <2>1. \A y \in Nat : y \notin 0 .. 8 * len - 1 <=> y >= 8 * (s.k + 1)
    BY ONLY <1>3
  <2>2. \A y \in Nat : y >= 8 * (s.k + 1) => y \in Int /\ ~(y - 8 * s.k \in 0 .. 7)
    BY ONLY <1>3
  <2>3. \A y \in Nat : y >= 8 * (s.k + 1) => (y \in dst <=> y \in junk)
    BY ONLY <1>2, <1>5, <2>2 DEF Untouched
  <2>. HIDE DEF len
  <2>4. dst \in SUBSET Nat
    BY ONLY <1>2, <1>5
  <2>. QED
    BY ONLY <2>1, <2>3, <2>4, junk \in SUBSET Nat
<1>9. r.dst = dst /\ r.mask = s.cmask /\ r.len = len
  OBVIOUS
<1>. HIDE DEF r, len
<1>10. FromRight(r, text, charBits, junk)
  BY ONLY <1>4, <1>7, <1>8, <1>9, <1>11, Len(text) = n DEF FromRight, count
<1>12. r.dst \in SUBSET Nat /\ r.mask \in SUBSET (0 .. 7)
  BY ONLY <1>2, <1>5, <1>9 DEF Filled
<1>. QED
  BY ONLY <1>10, <1>12 DEF Ended, r, dst, len

\* base32_from and base16_from read all bits of a text and no others, whatever
\* dst held.
LEMMA Base32Reads ==
    ASSUME NEW text \in Seq(SUBSET (0 .. 4)), text # <<>>, NEW junk \in SUBSET Nat
    PROVE  LET r == Base32!base32_from(text, junk)
           IN  /\ FromRight(r, text, 5, junk) /\ r.dst \in SUBSET Nat /\ r.mask \in SUBSET (0 .. 7)
               /\ r = [dst |-> r.dst, mask |-> r.mask, len |-> r.len]
<1>. DEFINE n == Len(text)  g == CHOOSE f : Reading(5, text, junk, n, f)  s == g[n]
<1>1. n \in Nat /\ n > 0 /\ DOMAIN text = 1 .. n /\ \A m \in 1 .. n : text[m] \in SUBSET (0 .. 4)
  OBVIOUS
<1>2. Reading(5, text, junk, n, g)
  <2>1. \E f : Reading(5, text, junk, n, f)
    BY ONLY <1>1, LoopDefined
  <2>. QED
    BY ONLY <2>1
<1>3. Base32!base32_from(text, junk) = Ended(s)
  <2>1. Base32!Ones(8) = 0 .. 7
    BY DEF Base32!Ones
  <2>2. g = CHOOSE f : f = [m \in 0 .. n |->
                               IF m = 0 THEN [dst |-> junk, k |-> -1, cmask |-> {}]
                               ELSE Base32!StoreDigit(f[m - 1], text[m], (m - 1) * 5)]
    BY ONLY TRUE DEF Reading, Start, StoreDigit
  <2>. QED
    BY ONLY <2>1, <2>2, Zenon DEF Base32!base32_from, Base32!At, Ended
<1>. HIDE DEF n, g
<1>4. Stored(s, text, 5, n * 5, junk)
  <2>1. 5 \in {4, 5} /\ \A m \in 1 .. n : text[m] \in SUBSET (0 .. 5 - 1)
    BY ONLY <1>1
  <2>. QED
    BY ONLY <1>1, <1>2, <2>1, junk \in SUBSET Nat, LoopStored
<1>. HIDE DEF s
<1>5. 5 \in {4, 5} /\ Len(text) = n
  BY DEF n
<1>6. FromRight(Ended(s), text, 5, junk) /\ Ended(s).dst \in SUBSET Nat /\ Ended(s).mask \in SUBSET (0 .. 7)
  BY ONLY <1>1, <1>4, <1>5, junk \in SUBSET Nat, Finished
<1>7. Ended(s) = [dst |-> Ended(s).dst, mask |-> Ended(s).mask, len |-> Ended(s).len]
  BY ONLY SMT DEF Ended
<1>. QED
  BY ONLY <1>3, <1>6, <1>7, Zenon

LEMMA Base16Reads ==
    ASSUME NEW text \in Seq(SUBSET (0 .. 3)), text # <<>>, NEW junk \in SUBSET Nat
    PROVE  LET r == Base16!base16_from(text, junk)
           IN  /\ FromRight(r, text, 4, junk) /\ r.dst \in SUBSET Nat /\ r.mask \in SUBSET (0 .. 7)
               /\ r = [dst |-> r.dst, mask |-> r.mask, len |-> r.len]
<1>. DEFINE n == Len(text)
<1>. DEFINE IsLoop(f) == f = [m \in 0 .. n |->
                                 IF m = 0 THEN [dst |-> junk, cmask |-> {}, k |-> -1]
                                 ELSE StoreDigit16(f[m - 1], text[m], (m - 1) * 4)]
<1>. DEFINE g == CHOOSE f : IsLoop(f)  s == g[n]
<1>1. n \in Nat /\ n > 0 /\ DOMAIN text = 1 .. n /\ \A m \in 1 .. n : text[m] \in SUBSET (0 .. 3)
  OBVIOUS
<1>2. Reading(4, text, junk, n, g)
  <2>1. [dst |-> junk, cmask |-> {}, k |-> -1] = Start(junk)
    BY DEF Start
  <2>2. ASSUME NEW f PROVE Reading(4, text, junk, n, f) <=> IsLoop(f)
    <3>1. \A m : StoreDigit(4, f[m - 1], text[m], (m - 1) * 4) =
                    StoreDigit16(f[m - 1], text[m], (m - 1) * 4)
      <4>1. 4 # 5
        OBVIOUS
      <4>. QED
        BY ONLY <4>1 DEF StoreDigit
    <3>2. [m \in 0 .. n |-> IF m = 0 THEN Start(junk)
                            ELSE StoreDigit(4, f[m - 1], text[m], (m - 1) * 4)] =
          [m \in 0 .. n |-> IF m = 0 THEN Start(junk)
                            ELSE StoreDigit16(f[m - 1], text[m], (m - 1) * 4)]
      BY ONLY <3>1, SMT
    <3>. QED
      BY ONLY <2>1, <3>2, Zenon DEF Reading
  <2>3. \E f : IsLoop(f)
    <3>1. \E f : Reading(4, text, junk, n, f)
      BY ONLY <1>1, LoopDefined
    <3>. HIDE DEF IsLoop
    <3>. QED
      BY ONLY <2>2, <3>1
  <2>4. IsLoop(g)
    <3>. HIDE DEF IsLoop
    <3>. QED
      BY ONLY <2>3, Zenon
  <2>. HIDE DEF IsLoop
  <2>. QED
    BY ONLY <2>2, <2>4, Zenon
<1>3. Base16!base16_from(text, junk) =
         [dst |-> s.dst \ Base16!At(0 .. 7 \ s.cmask, s.k), mask |-> s.cmask, len |-> s.k + 1]
  <2>1. Base16!Ones(8) = 0 .. 7
    BY DEF Base16!Ones
  <2>. QED
    BY ONLY <2>1, Zenon DEF Base16!base16_from, StoreDigit16
<1>. HIDE DEF n, g
<1>4. Stored(s, text, 4, n * 4, junk)
  <2>1. 4 \in {4, 5} /\ \A m \in 1 .. n : text[m] \in SUBSET (0 .. 4 - 1)
    BY ONLY <1>1
  <2>. QED
    BY ONLY <1>1, <1>2, <2>1, junk \in SUBSET Nat, LoopStored
<1>. HIDE DEF s
<1>5. 4 \in {4, 5} /\ Len(text) = n
  BY DEF n
<1>6. Base16!At(0 .. 7 \ s.cmask, s.k) = Base32!Shift(0 .. 7 \ s.cmask, s.k * 8)
  <2>1. s.k * 8 \in Int /\ 0 .. 7 \ s.cmask \in SUBSET Int
    BY <1>4 DEF Stored
  <2>. QED
    BY ONLY <2>1, ShiftBits DEF Base16!At
<1>7. FromRight(Ended(s), text, 4, junk) /\ Ended(s).dst \in SUBSET Nat /\ Ended(s).mask \in SUBSET (0 .. 7)
  BY ONLY <1>1, <1>4, <1>5, junk \in SUBSET Nat, Finished
<1>8. Ended(s) = [dst |-> Ended(s).dst, mask |-> Ended(s).mask, len |-> Ended(s).len]
  BY ONLY SMT DEF Ended
<1>9. Base16!base16_from(text, junk) = Ended(s)
  BY ONLY <1>3, <1>6, Zenon DEF Ended
<1>. QED
  BY ONLY <1>7, <1>8, <1>9, Zenon

-----------------------------------------------------------------------------
(* There and back *)

\* The first place of a text with another than a digit is one place.
LEMMA FirstOther ==
    ASSUME NEW D, NEW src, NEW len \in Nat, NEW n \in 0 .. len,
           \A j \in 1 .. n : src[j] \in D, n < len => src[n + 1] \notin D
    PROVE  \A m \in 0 .. len :
              (\A j \in 1 .. m : src[j] \in D) /\ (m < len => src[m + 1] \notin D) <=> m = n
<1>1. ASSUME NEW m \in 0 .. len, \A j \in 1 .. m : src[j] \in D, m < len => src[m + 1] \notin D, m # n
      PROVE  FALSE
  <2>1. CASE m < n
    <3>1. m + 1 \in 1 .. n /\ m < len
      BY <2>1
    <3>. QED
      BY <3>1, <1>1
  <2>2. CASE m > n
    <3>1. n + 1 \in 1 .. m /\ n < len
      BY <2>2
    <3>. QED
      BY <3>1, <1>1
  <2>. QED
    BY <1>1, <2>1, <2>2
<1>. QED
  BY <1>1

Verdict(n, len) == [ok |-> n = len, count |-> n]

LEMMA OkOf ==
    ASSUME NEW c \in BOOLEAN, NEW count
    PROVE  [ok |-> c, count |-> count].ok <=> c
  OBVIOUS

LEMMA Verdicts ==
    /\ \A n : Verdict(n, n).ok
    /\ \A n \in Nat : \A at \in 1 .. n : Verdict(at - 1, n) = RefusedAt(at)
<1>1. ASSUME NEW n PROVE Verdict(n, n).ok
  BY ONLY OkOf DEF Verdict
<1>2. ASSUME NEW n \in Nat, NEW at \in 1 .. n PROVE Verdict(at - 1, n) = RefusedAt(at)
  <2>1. (at - 1 = n) = FALSE
    BY ONLY <1>2
  <2>. QED
    BY ONLY <2>1 DEF Verdict, RefusedAt
<1>. QED
  BY ONLY <1>1, <1>2

\* So many digits a text begins with, and it is valid if there are no others.
LEMMA LeadingIs ==
    ASSUME NEW src, NEW len \in Nat, Len(src) = len, NEW n \in 0 .. len
    PROVE  /\ (\A j \in 1 .. n : src[j] \in SUBSET (0 .. 4)) /\ (n < len => src[n + 1] \notin SUBSET (0 .. 4))
                  => Base32!base32_valid(src) = Verdict(n, len)
           /\ (\A j \in 1 .. n : src[j] \in SUBSET (0 .. 3)) /\ (n < len => src[n + 1] \notin SUBSET (0 .. 3))
                  => Base16!base16_valid(src) = Verdict(n, len)
           /\ (\A j \in 1 .. n : src[j] \in SUBSET (0 .. 5)) /\ (n < len => src[n + 1] \notin SUBSET (0 .. 5))
                  => Base64!Leading(src) = n
<1>1. Base32!Digits = SUBSET (0 .. 4) /\ Base16!Digits = SUBSET (0 .. 3) /\ Base64!Digits = SUBSET (0 .. 5)
  BY DEF Base32!Digits, Base16!Digits, Base64!Digits
<1>2. ASSUME NEW D, \A j \in 1 .. n : src[j] \in D, n < len => src[n + 1] \notin D
      PROVE  (CHOOSE m \in 0 .. len : (\A j \in 1 .. m : src[j] \in D)
                                      /\ (m < len => src[m + 1] \notin D)) = n
  <2>. DEFINE P(m) == (\A j \in 1 .. m : src[j] \in D) /\ (m < len => src[m + 1] \notin D)
  <2>1. \A m \in 0 .. len : P(m) <=> m = n
    BY ONLY <1>2, len \in Nat, n \in 0 .. len, FirstOther
  <2>. HIDE DEF P
  <2>2. (CHOOSE m \in 0 .. len : P(m)) = n
    BY ONLY <2>1, n \in 0 .. len
  <2>. QED
    BY ONLY <2>2 DEF P
<1>3. ASSUME \A j \in 1 .. n : src[j] \in Base32!Digits, n < len => src[n + 1] \notin Base32!Digits
      PROVE  Base32!base32_valid(src) = Verdict(n, len)
  <2>1. Base32!Leading(src) = n
    BY ONLY <1>2, <1>3, Len(src) = len DEF Base32!Leading
  <2>. QED
    BY ONLY <2>1, Len(src) = len DEF Base32!base32_valid, Verdict
<1>4. ASSUME \A j \in 1 .. n : src[j] \in Base16!Digits, n < len => src[n + 1] \notin Base16!Digits
      PROVE  Base16!base16_valid(src) = Verdict(n, len)
  <2>1. Base16!Leading(src) = n
    BY ONLY <1>2, <1>4, Len(src) = len DEF Base16!Leading
  <2>. QED
    BY ONLY <2>1, Len(src) = len DEF Base16!base16_valid, Verdict
<1>5. ASSUME \A j \in 1 .. n : src[j] \in Base64!Digits, n < len => src[n + 1] \notin Base64!Digits
      PROVE  Base64!Leading(src) = n
  BY ONLY <1>2, <1>5, Len(src) = len DEF Base64!Leading
<1>. QED
  BY ONLY <1>1, <1>3, <1>4, <1>5

\* Decoded is what the text spells.
LEMMA ReadBack ==
    ASSUME NEW charBits, NEW text, NEW r, FromRight(r, text, charBits, {}), r.dst \in SUBSET Nat,
           NEW slen \in Nat, r.len \in Nat, slen <= r.len,
           NEW bytes \in SUBSET (0 .. 8 * slen - 1), TextStream(text, charBits) = ByteStream(bytes)
    PROVE  r.dst = bytes
<1>1. Upto(ByteStream(r.dst), 8 * r.len) = ByteStream(bytes) /\ r.dst \ (0 .. 8 * r.len - 1) = {}
  BY DEF FromRight
<1>2. r.dst \in SUBSET Int /\ bytes \in SUBSET Int
  OBVIOUS
<1>3. \A s : s \in ByteStream(r.dst) <=> s \in Int /\ Flip(s) \in r.dst
  BY ONLY <1>2, Streams
<1>4. \A s : s \in ByteStream(bytes) <=> s \in Int /\ Flip(s) \in bytes
  BY ONLY <1>2, Streams
<1>5. ASSUME NEW y \in 0 .. 8 * r.len - 1 PROVE y \in r.dst <=> y \in bytes
  <2>1. Flip(y) \in Int /\ Flip(Flip(y)) = y
    BY ONLY <1>5, r.len \in Nat, FlipTwice
  <2>2. Flip(y) < 8 * r.len
    BY ONLY <1>5, r.len \in Nat, FlipWithin
  <2>3. Flip(y) \in ByteStream(r.dst) <=> Flip(y) \in ByteStream(bytes)
    BY ONLY <1>1, <2>2 DEF Upto
  <2>. QED
    BY ONLY <1>3, <1>4, <2>1, <2>3
<1>6. r.dst \subseteq 0 .. 8 * r.len - 1 /\ bytes \subseteq 0 .. 8 * r.len - 1
  <2>1. 0 .. 8 * slen - 1 \subseteq 0 .. 8 * r.len - 1
    BY ONLY slen \in Nat, r.len \in Nat, slen <= r.len
  <2>. QED
    BY ONLY <1>1, <2>1, bytes \in SUBSET (0 .. 8 * slen - 1)
<1>. QED
  BY ONLY <1>5, <1>6

LEMMA Base32Back ==
    ASSUME NEW slen \in Nat, NEW bytes \in SUBSET (0 .. 8 * slen - 1)
    PROVE  LET text == Base32!base32_to(bytes, slen)
           IN  /\ TextStream(text, 5) = ByteStream(bytes)
               /\ Len(text) = Base32!ToLen(slen)
               /\ Base32!base32_valid(text).ok
               /\ slen > 0 => Base32!base32_from(text, {}).dst = bytes
               /\ Base32!FromLen(Len(text)) - slen \in 0 .. 1
<1>. DEFINE text == Base32!base32_to(bytes, slen)
<1>. DEFINE n == Base32!ToLen(slen)
<1>1. /\ n \in Nat /\ 8 * slen <= 5 * n /\ 5 * n < 8 * slen + 5
      /\ text \in Seq(SUBSET (0 .. 4)) /\ Len(text) = n /\ DOMAIN text = 1 .. n
      /\ \A s \in 0 .. 5 * n - 1 : DigitBit(text, 5, s) <=> Flip(s) \in bytes
  BY ONLY slen \in Nat, bytes \in SUBSET (0 .. 8 * slen - 1), Base32Spells
<1>2. Base32!FromLen(n) = (n * 5 + 7) \div 8
  BY ONLY <1>1 DEF Base32!FromLen
<1>. HIDE DEF text, n
<1>3. TextStream(text, 5) = ByteStream(bytes)
  BY ONLY <1>1, slen \in Nat, bytes \in SUBSET (0 .. 8 * slen - 1), Spelt
<1>4. Base32!base32_valid(text).ok
  <2>1. n \in 0 .. n /\ ~(n < n) /\ \A j \in 1 .. n : text[j] \in SUBSET (0 .. 4)
    BY <1>1
  <2>2. Base32!base32_valid(text) = Verdict(n, n)
    BY ONLY <1>1, <1>2, <2>1, LeadingIs
  <2>. QED
    BY ONLY <2>2, Verdicts
<1>5. (n * 5 + 7) \div 8 \in Nat /\ slen <= (n * 5 + 7) \div 8 /\ (n * 5 + 7) \div 8 <= slen + 1
  BY ONLY <1>1, slen \in Nat, Z3
<1>6. ASSUME slen > 0 PROVE Base32!base32_from(text, {}).dst = bytes
  <2>. DEFINE r == Base32!base32_from(text, {})
  <2>1. text # <<>>
    <3>1. n > 0
      BY ONLY <1>1, <1>6, slen \in Nat
    <3>. QED
      BY ONLY <3>1, <1>1
  <2>2. FromRight(r, text, 5, {}) /\ r.dst \in SUBSET Nat
    <3>1. {} \in SUBSET Nat
      OBVIOUS
    <3>. QED
      BY ONLY <1>1, <2>1, <3>1, Base32Reads
  <2>. HIDE DEF r
  <2>3. r.len = (n * 5 + 7) \div 8
    BY ONLY <2>2, <1>1 DEF FromRight
  <2>4. r.len \in Nat /\ slen <= r.len
    BY ONLY <1>5, <2>3
  <2>5. r.dst = bytes
    BY ONLY <1>3, <2>2, <2>4, slen \in Nat, bytes \in SUBSET (0 .. 8 * slen - 1), ReadBack
  <2>. QED
    BY ONLY <2>5 DEF r
<1>7. Base32!FromLen(Len(text)) - slen \in 0 .. 1
  BY ONLY <1>1, <1>2, <1>5, slen \in Nat
<1>8. Len(text) = n
  BY ONLY <1>1
<1>. QED
  BY ONLY <1>3, <1>4, <1>6, <1>7, <1>8 DEF text, n

LEMMA Base16Back ==
    ASSUME NEW slen \in Nat, NEW bytes \in SUBSET (0 .. 8 * slen - 1)
    PROVE  LET text == Base16!base16_to(bytes, slen)
           IN  /\ TextStream(text, 4) = ByteStream(bytes)
               /\ Base16!base16_valid(text).ok
               /\ slen > 0 => Base16!base16_from(text, {}) = [dst |-> bytes, mask |-> 0 .. 7, len |-> slen]
<1>. DEFINE text == Base16!base16_to(bytes, slen)
<1>. DEFINE n == 2 * slen
<1>1. /\ text \in Seq(SUBSET (0 .. 3)) /\ Len(text) = n /\ DOMAIN text = 1 .. n
      /\ \A s \in 0 .. 4 * n - 1 : DigitBit(text, 4, s) <=> Flip(s) \in bytes
  BY ONLY slen \in Nat, bytes \in SUBSET (0 .. 8 * slen - 1), Base16Spells
<1>2. n \in Nat /\ 8 * slen <= 4 * n /\ (n * 4 + 7) \div 8 = slen /\ n * 4 = 8 * slen
  BY ONLY slen \in Nat
<1>. HIDE DEF text, n
<1>3. TextStream(text, 4) = ByteStream(bytes)
  BY ONLY <1>1, <1>2, slen \in Nat, bytes \in SUBSET (0 .. 8 * slen - 1), Spelt
<1>4. Base16!base16_valid(text).ok
  <2>1. n \in 0 .. n /\ ~(n < n) /\ \A j \in 1 .. n : text[j] \in SUBSET (0 .. 3)
    BY <1>1, <1>2
  <2>2. Base16!base16_valid(text) = Verdict(n, n)
    BY ONLY <1>1, <1>2, <2>1, LeadingIs
  <2>. QED
    BY ONLY <2>2, Verdicts
<1>6. ASSUME slen > 0 PROVE Base16!base16_from(text, {}) = [dst |-> bytes, mask |-> 0 .. 7, len |-> slen]
  <2>. DEFINE r == Base16!base16_from(text, {})
  <2>1. text # <<>>
    <3>1. n > 0
      BY ONLY <1>6, slen \in Nat DEF n
    <3>. QED
      BY ONLY <3>1, <1>1
  <2>2. /\ FromRight(r, text, 4, {}) /\ r.dst \in SUBSET Nat /\ r.mask \in SUBSET (0 .. 7)
        /\ r = [dst |-> r.dst, mask |-> r.mask, len |-> r.len]
    <3>1. {} \in SUBSET Nat
      OBVIOUS
    <3>. QED
      BY ONLY <1>1, <2>1, <3>1, Base16Reads
  <2>. HIDE DEF r
  <2>3. r.len = slen
    BY ONLY <2>2, <1>1, <1>2 DEF FromRight
  <2>4. r.len \in Nat /\ slen <= r.len
    BY ONLY <2>3, slen \in Nat
  <2>5. r.dst = bytes
    BY ONLY <1>3, <2>2, <2>4, slen \in Nat, bytes \in SUBSET (0 .. 8 * slen - 1), ReadBack
  <2>6. r.mask = 0 .. 7
    <3>1. ByteStream(r.mask) = {s - 8 * (slen - 1) : s \in 8 * (slen - 1) .. 8 * slen - 1}
      BY ONLY <2>2, <2>3, <1>1, <1>2 DEF FromRight
    <3>2. r.mask \in SUBSET Int
      BY ONLY <2>2
    <3>3. \A s : s \in ByteStream(r.mask) <=> s \in Int /\ Flip(s) \in r.mask
      BY ONLY <3>2, Streams
    <3>4. ASSUME NEW y \in 0 .. 7 PROVE y \in r.mask
      <4>1. Flip(y) \in 0 .. 7 /\ Flip(Flip(y)) = y
        BY ONLY FlipTwice, y \in 0 .. 7 DEF Flip
      <4>2. Flip(y) + 8 * (slen - 1) \in 8 * (slen - 1) .. 8 * slen - 1
            /\ Flip(y) = (Flip(y) + 8 * (slen - 1)) - 8 * (slen - 1)
        BY ONLY <4>1, slen \in Nat
      <4>3. Flip(y) \in ByteStream(r.mask)
        BY ONLY <4>2, <3>1
      <4>. QED
        BY ONLY <4>1, <4>3, <3>3
    <3>. QED
      BY ONLY <3>4, <2>2
  <2>. QED
    BY ONLY <2>2, <2>3, <2>5, <2>6 DEF r
<1>. QED
  BY ONLY <1>3, <1>4, <1>6 DEF text

\* A text of base64 is valid as far as its digits and what `=' fills of the last
\* group go, and not behind a character that does not belong there.
LEMMA Base64Valid ==
    ASSUME NEW n \in Nat, n % 4 = 0, NEW p \in 0 .. n, n - p <= 2, NEW end \in 0 .. n, NEW src, Len(src) = n,
           \A j \in 1 .. end : IF j <= p THEN src[j] \in SUBSET (0 .. 5) ELSE src[j] = {-2},
           end < n => src[end + 1] = {-1}
    PROVE  Base64!base64_valid(src) = Verdict(end, n)
<1>. DEFINE lead == IF end < p THEN end ELSE p
<1>0. -1 \notin 0 .. 5 /\ -2 \notin 0 .. 5 /\ {-1} # {-2}
  OBVIOUS
<1>1. Base64!Leading(src) = lead
  <2>1. lead \in 0 .. n /\ \A j \in 1 .. lead : src[j] \in SUBSET (0 .. 5)
    OBVIOUS
  <2>2. ASSUME lead < n PROVE src[lead + 1] \notin SUBSET (0 .. 5)
    <3>1. CASE end <= p
      <4>1. lead = end
        BY <3>1
      <4>. QED
        BY <4>1, <2>2, <1>0
    <3>2. CASE end > p
      <4>1. lead = p /\ p + 1 \in 1 .. end /\ ~(p + 1 <= p)
        BY <3>2
      <4>2. src[p + 1] = {-2}
        BY <4>1
      <4>. QED
        BY <4>1, <4>2, <1>0
    <3>. QED
      BY <3>1, <3>2
  <2>. HIDE DEF lead
  <2>. QED
    BY ONLY <2>1, <2>2, n \in Nat, Len(src) = n, LeadingIs
<1>. DEFINE P(q) == /\ \A j \in lead + 1 .. q : (j - 1) % 4 # 0 /\ src[j] = {-2}
                    /\ q < n => q % 4 = 0 \/ src[q + 1] # {-2}
<1>2. end \in lead .. n /\ P(end)
  <2>1. ASSUME NEW j \in lead + 1 .. end PROVE (j - 1) % 4 # 0 /\ src[j] = {-2}
    <3>1. j \in 1 .. end /\ j > p
      OBVIOUS
    <3>2. j \in Int /\ n - j <= 1 /\ j <= n
      BY ONLY <3>1, n \in Nat, p \in 0 .. n, end \in 0 .. n, n - p <= 2
    <3>3. (j - 1) % 4 # 0
      BY ONLY <3>2, n \in Nat, n % 4 = 0
    <3>. QED
      BY <3>1, <3>3
  <2>2. end < n => src[end + 1] # {-2}
    BY <1>0
  <2>3. end \in lead .. n
    OBVIOUS
  <2>. QED
    BY ONLY <2>1, <2>2, <2>3
<1>3. ASSUME NEW q \in lead .. n, P(q), q # end PROVE FALSE
  <2>1. CASE q > end
    <3>1. end + 1 \in lead + 1 .. q /\ end < n
      BY <2>1, <1>2
    <3>. QED
      BY ONLY <3>1, <1>3, <1>0, end < n => src[end + 1] = {-1}
  <2>2. CASE q < end
    <3>1. lead = p /\ q >= p /\ q + 1 \in 1 .. end /\ ~(q + 1 <= p) /\ q < n
      BY <2>2
    <3>2. src[q + 1] = {-2}
      BY <3>1
    <3>3. q % 4 # 0
      <4>1. q \in Int /\ n - q <= 2 /\ q < n
        BY ONLY <3>1, q \in lead .. n, n \in Nat, p \in 0 .. n, n - p <= 2
      <4>. QED
        BY ONLY <4>1, n \in Nat, n % 4 = 0
    <3>. QED
      BY ONLY <3>1, <3>2, <3>3, <1>3
  <2>. QED
    BY <1>3, <2>1, <2>2
<1>4. (CHOOSE q \in lead .. n : P(q)) = end
  <2>. HIDE DEF P, lead
  <2>. QED
    BY ONLY <1>2, <1>3
<1>5. Base64!base64_valid(src) = [ok |-> end = n /\ end % 4 = 0, count |-> end]
  <2>. HIDE DEF lead
  <2>. QED
    BY ONLY <1>1, <1>4, Len(src) = n DEF Base64!base64_valid, Base64!Equals
<1>6. (end = n /\ end % 4 = 0) = (end = n)
  BY n % 4 = 0
<1>. QED
  BY ONLY <1>5, <1>6 DEF Verdict

LEMMA Base64Back ==
    ASSUME NEW slen \in Nat, NEW bytes \in SUBSET (0 .. 8 * slen - 1)
    PROVE  LET text == Base64!base64_to(bytes, slen)
           IN  /\ TextStream(text, 6) = ByteStream(bytes)
               /\ Len(text) = Base64!Base64ToLen(slen)
               /\ Base64!base64_valid(text).ok
               /\ Base64!base64_from(text) = [dst |-> bytes, len |-> slen]
               /\ \A at \in 1 .. Len(text) : Base64!base64_valid(Broken(text, at)) = RefusedAt(at)
<1>. DEFINE text == Base64!base64_to(bytes, slen)
<1>. DEFINE n == Base64!Base64ToLen(slen)
<1>. DEFINE padded == CASE slen % 3 = 0 -> 0 [] slen % 3 = 1 -> 2 [] slen % 3 = 2 -> 1
<1>1. /\ n \in Nat /\ n = 4 * ((slen + 2) \div 3) /\ 8 * slen <= 6 * n
      /\ padded \in 0 .. 2 /\ (n \div 4) * 3 - padded = slen
      /\ text \in Seq(SUBSET Int) /\ Len(text) = n /\ DOMAIN text = 1 .. n
      /\ \A m \in 1 .. n : m <= n - padded => text[m] \in SUBSET (0 .. 5)
      /\ \A m \in 1 .. n : m > n - padded => text[m] = {-2}
      /\ \A s \in 0 .. 6 * n - 1 : DigitBit(text, 6, s) <=> Flip(s) \in bytes
  BY ONLY slen \in Nat, bytes \in SUBSET (0 .. 8 * slen - 1), Base64Spells
<1>. HIDE DEF text, n, padded
<1>2. n % 4 = 0 /\ n - padded \in 0 .. n /\ n - (n - padded) <= 2
  <2>1. (slen + 2) \div 3 \in Nat
    BY ONLY slen \in Nat
  <2>. DEFINE g == (slen + 2) \div 3
  <2>2. g \in Nat /\ n = 4 * g /\ padded \in 0 .. 2 /\ slen = g * 3 - padded
    <3>1. n \div 4 = g
      BY ONLY <1>1, <2>1
    <3>. QED
      BY ONLY <1>1, <2>1, <3>1
  <2>. HIDE DEF g
  <2>. QED
    BY ONLY <2>2, slen \in Nat
<1>3. TextStream(text, 6) = ByteStream(bytes)
  <2>1. /\ 6 \in {4, 5, 6} /\ n \in Nat /\ DOMAIN text = 1 .. n /\ 8 * slen <= 6 * n
        /\ \A s \in 0 .. 6 * n - 1 : DigitBit(text, 6, s) <=> Flip(s) \in bytes
    BY ONLY <1>1
  <2>. QED
    BY ONLY <2>1, slen \in Nat, bytes \in SUBSET (0 .. 8 * slen - 1), Spelt
<1>. DEFINE p == n - padded
<1>4. Base64!base64_valid(text).ok
  <2>1. n \in 0 .. n /\ ~(n < n) /\ \A j \in 1 .. n : IF j <= p THEN text[j] \in SUBSET (0 .. 5) ELSE text[j] = {-2}
    BY <1>1
  <2>. HIDE DEF p
  <2>2. p \in 0 .. n /\ n - p <= 2
    BY <1>2 DEF p
  <2>3. n \in Nat /\ Len(text) = n /\ n % 4 = 0
    BY ONLY <1>1, <1>2
  <2>4. n < n => text[n + 1] = {-1}
    BY ONLY <2>1
  <2>5. Base64!base64_valid(text) = Verdict(n, n)
    BY ONLY <2>1, <2>2, <2>3, <2>4, Base64Valid
  <2>. QED
    BY ONLY <2>5, Verdicts
<1>5. Base64!base64_from(text) = [dst |-> bytes, len |-> slen]
  <2>. DEFINE r == Base64!base64_from(text)
  <2>1. /\ r.len = slen
        /\ \A x : x \in r.dst <=> x \in 0 .. 8 * slen - 1 /\ DigitBit(text, 6, Flip(x))
        /\ r = [dst |-> r.dst, len |-> r.len]
    <3>1. n \in Nat /\ n % 4 = 0 /\ padded \in 0 .. 2 /\ (n \div 4) * 3 - padded = slen
      BY ONLY <1>1, <1>2
    <3>2. Ends64(text, n, padded)
      BY ONLY <1>1 DEF Ends64
    <3>. QED
      BY ONLY <3>1, <3>2, slen \in Nat, Base64Reads
  <2>. HIDE DEF r
  <2>2. ASSUME NEW x \in 0 .. 8 * slen - 1 PROVE DigitBit(text, 6, Flip(x)) <=> x \in bytes
    <3>1. Flip(x) \in Int /\ Flip(Flip(x)) = x
      BY ONLY slen \in Nat, x \in 0 .. 8 * slen - 1, FlipTwice
    <3>2. Flip(x) < 8 * slen /\ 0 <= Flip(x)
      BY ONLY slen \in Nat, x \in 0 .. 8 * slen - 1, FlipWithin
    <3>3. Flip(x) \in 0 .. 6 * n - 1
      BY ONLY <1>1, <3>1, <3>2, slen \in Nat
    <3>. QED
      BY ONLY <1>1, <3>1, <3>3
  <2>3. r.dst = bytes
    BY ONLY <2>1, <2>2, bytes \in SUBSET (0 .. 8 * slen - 1)
  <2>. QED
    BY ONLY <2>1, <2>3 DEF r
<1>6. ASSUME NEW at \in 1 .. n PROVE Base64!base64_valid(Broken(text, at)) = RefusedAt(at)
  <2>. DEFINE src == Broken(text, at)
  <2>1. src = [j \in 1 .. n |-> IF j = at THEN {-1} ELSE text[j]]
    BY ONLY <1>1 DEF Broken, Base64!NoDigit
  <2>. HIDE DEF src
  <2>2. Len(src) = n
    BY ONLY <2>1, <1>1
  <2>3. at - 1 \in 0 .. n /\ at - 1 + 1 = at
    BY ONLY <1>1, at \in 1 .. n
  <2>4. ASSUME NEW j \in 1 .. at - 1
        PROVE  IF j <= p THEN src[j] \in SUBSET (0 .. 5) ELSE src[j] = {-2}
    <3>1. j \in 1 .. n /\ j # at
      BY ONLY <1>1, at \in 1 .. n, j \in 1 .. at - 1
    <3>2. src[j] = text[j]
      BY ONLY <2>1, <3>1
    <3>. QED
      BY <1>1, <3>1, <3>2
  <2>5. src[(at - 1) + 1] = {-1}
    BY ONLY <2>1, <2>3, at \in 1 .. n
  <2>. HIDE DEF p
  <2>6. p \in 0 .. n /\ n - p <= 2
    BY <1>2 DEF p
  <2>7. Base64!base64_valid(src) = Verdict(at - 1, n)
    <3>. DEFINE end == at - 1
    <3>1. end \in 0 .. n /\ src[end + 1] = {-1}
      BY ONLY <2>3, <2>5
    <3>2. \A j \in 1 .. end : IF j <= p THEN src[j] \in SUBSET (0 .. 5) ELSE src[j] = {-2}
      BY ONLY <2>4
    <3>. HIDE DEF end
    <3>3. Base64!base64_valid(src) = Verdict(end, n)
      <4>1. n \in Nat /\ n % 4 = 0
        BY ONLY <1>1, <1>2
      <4>2. end < n => src[end + 1] = {-1}
        BY ONLY <3>1
      <4>3. end \in 0 .. n
        BY ONLY <3>1
      <4>. QED
        BY ONLY <4>1, <2>2, <2>6, <4>2, <4>3, <3>2, Base64Valid
    <3>. QED
      BY ONLY <3>3 DEF end
  <2>. QED
    BY ONLY <1>1, <2>7, Verdicts, at \in 1 .. n DEF src
<1>7. Len(text) = n
  BY ONLY <1>1
<1>. QED
  BY ONLY <1>3, <1>4, <1>5, <1>6, <1>7 DEF text, n

\* A text of base32 or base16 is refused where it is broken.
LEMMA BrokenRefused ==
    ASSUME NEW charBits \in {4, 5}, NEW text \in Seq(SUBSET (0 .. charBits - 1)), NEW at \in 1 .. Len(text)
    PROVE  /\ charBits = 5 => Base32!base32_valid(Broken(text, at)) = RefusedAt(at)
           /\ charBits = 4 => Base16!base16_valid(Broken(text, at)) = RefusedAt(at)
<1>. DEFINE src == Broken(text, at)  n == Len(text)  end == at - 1
<1>1. n \in Nat /\ DOMAIN text = 1 .. n /\ \A j \in 1 .. n : text[j] \in SUBSET (0 .. charBits - 1)
  OBVIOUS
<1>2. at \in 1 .. n
  OBVIOUS
<1>. HIDE DEF n
<1>3. src = [j \in 1 .. n |-> IF j = at THEN {-1} ELSE text[j]]
  BY ONLY <1>1 DEF Broken, Base64!NoDigit
<1>. HIDE DEF src
<1>4. Len(src) = n
  BY ONLY <1>3, <1>1
<1>5. end \in 0 .. n /\ end + 1 = at /\ (end = n) = FALSE
  BY ONLY <1>1, <1>2
<1>6. \A j \in 1 .. end : src[j] \in SUBSET (0 .. charBits - 1)
  BY ONLY <1>1, <1>2, <1>3
<1>7. src[end + 1] = {-1}
  BY ONLY <1>2, <1>3, <1>5
<1>. HIDE DEF end
<1>8. src[end + 1] \notin SUBSET (0 .. 4) /\ src[end + 1] \notin SUBSET (0 .. 3)
  <2>1. -1 \notin 0 .. 4 /\ -1 \notin 0 .. 3
    OBVIOUS
  <2>. QED
    BY ONLY <1>7, <2>1
<1>9. RefusedAt(at) = Verdict(end, n)
  BY ONLY <1>1, <1>2, Verdicts DEF end
<1>10. ASSUME charBits = 5 PROVE Base32!base32_valid(src) = RefusedAt(at)
  <2>1. \A j \in 1 .. end : src[j] \in SUBSET (0 .. 4)
    <3>1. charBits - 1 = 4
      BY ONLY <1>10
    <3>. QED
      BY ONLY <1>6, <3>1
  <2>2. Base32!base32_valid(src) = Verdict(end, n)
    <3>1. n \in Nat /\ end \in 0 .. n /\ src[end + 1] \notin SUBSET (0 .. 4)
      BY ONLY <1>1, <1>5, <1>8
    <3>. QED
      BY ONLY <1>4, <2>1, <3>1, LeadingIs
  <2>. QED
    BY ONLY <1>9, <2>2
<1>11. ASSUME charBits = 4 PROVE Base16!base16_valid(src) = RefusedAt(at)
  <2>1. \A j \in 1 .. end : src[j] \in SUBSET (0 .. 3)
    <3>1. charBits - 1 = 3
      BY ONLY <1>11
    <3>. QED
      BY ONLY <1>6, <3>1
  <2>2. Base16!base16_valid(src) = Verdict(end, n)
    <3>1. n \in Nat /\ end \in 0 .. n /\ src[end + 1] \notin SUBSET (0 .. 3)
      BY ONLY <1>1, <1>5, <1>8
    <3>. QED
      BY ONLY <1>4, <2>1, <3>1, LeadingIs
  <2>. QED
    BY ONLY <1>9, <2>2
<1>. QED
  BY ONLY <1>10, <1>11 DEF src

-----------------------------------------------------------------------------
(* The theorems *)

\* Whatever bytes and texts are given, of any length: the text of bytes spells
\* their bits, is valid and decodes to them, and of any digits base32_from and
\* base16_from store the bits and no others, the bits of the last byte behind
\* them zero, whatever dst held (base16_*.c, base32_*.c, base64_*.c).
THEOREM CodesSpell ==
    /\ \A junk \in SUBSET Nat :
          /\ \A text \in Seq(SUBSET (0 .. 4)) \ {<<>>} : FromRight(Base32!base32_from(text, junk), text, 5, junk)
          /\ \A text \in Seq(SUBSET (0 .. 3)) \ {<<>>} : FromRight(Base16!base16_from(text, junk), text, 4, junk)
    /\ \A slen \in Nat : \A bytes \in SUBSET (0 .. 8 * slen - 1) : ToRight(bytes, slen)
<1>1. ASSUME NEW junk \in SUBSET Nat, NEW text \in Seq(SUBSET (0 .. 4)) \ {<<>>}
      PROVE  FromRight(Base32!base32_from(text, junk), text, 5, junk)
  <2>1. text \in Seq(SUBSET (0 .. 4)) /\ text # <<>>
    OBVIOUS
  <2>. QED
    BY ONLY <2>1, junk \in SUBSET Nat, Base32Reads
<1>2. ASSUME NEW junk \in SUBSET Nat, NEW text \in Seq(SUBSET (0 .. 3)) \ {<<>>}
      PROVE  FromRight(Base16!base16_from(text, junk), text, 4, junk)
  <2>1. text \in Seq(SUBSET (0 .. 3)) /\ text # <<>>
    OBVIOUS
  <2>. QED
    BY ONLY <2>1, junk \in SUBSET Nat, Base16Reads
<1>3. ASSUME NEW slen \in Nat, NEW bytes \in SUBSET (0 .. 8 * slen - 1) PROVE ToRight(bytes, slen)
  BY ONLY <1>3, Base32Back, Base16Back, Base64Back, Zenon DEF ToRight
<1>. QED
  BY ONLY <1>1, <1>2, <1>3, Zenon

\* A character that does not belong in a text makes it invalid and is where the
\* check stops, be it a digit's place or one of the `=' of base64, and base64
\* has no texts whose length is no multiple of four (base16_from.c, base32_from.c,
\* base64_from.c).
THEOREM CodesRefuse ==
    /\ \A text \in Seq(SUBSET (0 .. 4)) : \A at \in 1 .. Len(text) :
          Base32!base32_valid(Broken(text, at)) = RefusedAt(at)
    /\ \A text \in Seq(SUBSET (0 .. 3)) : \A at \in 1 .. Len(text) :
          Base16!base16_valid(Broken(text, at)) = RefusedAt(at)
    /\ \A slen \in Nat : \A bytes \in SUBSET (0 .. 8 * slen - 1) :
          \A at \in 1 .. Base64!Base64ToLen(slen) :
              Base64!base64_valid(Broken(Base64!base64_to(bytes, slen), at)) = RefusedAt(at)
    /\ \A text \in Seq(SUBSET Int) :
          Len(text) % 4 # 0 => Base64!base64_from(text).len = -1 /\ ~Base64!base64_valid(text).ok
<1>1. 5 \in {4, 5} /\ 4 \in {4, 5} /\ 5 - 1 = 4 /\ 4 - 1 = 3
  OBVIOUS
<1>2. ASSUME NEW text \in Seq(SUBSET (0 .. 4)), NEW at \in 1 .. Len(text)
      PROVE  Base32!base32_valid(Broken(text, at)) = RefusedAt(at)
  BY ONLY <1>1, <1>2, BrokenRefused
<1>3. ASSUME NEW text \in Seq(SUBSET (0 .. 3)), NEW at \in 1 .. Len(text)
      PROVE  Base16!base16_valid(Broken(text, at)) = RefusedAt(at)
  BY ONLY <1>1, <1>3, BrokenRefused
<1>4. ASSUME NEW slen \in Nat, NEW bytes \in SUBSET (0 .. 8 * slen - 1),
             NEW at \in 1 .. Base64!Base64ToLen(slen)
      PROVE  Base64!base64_valid(Broken(Base64!base64_to(bytes, slen), at)) = RefusedAt(at)
  BY ONLY <1>4, Base64Back, Zenon
<1>5. ASSUME NEW text \in Seq(SUBSET Int), Len(text) % 4 # 0
      PROVE  Base64!base64_from(text).len = -1 /\ ~Base64!base64_valid(text).ok
  <2>1. Base64!base64_from(text) = [dst |-> {}, len |-> -1]
    BY ONLY Len(text) % 4 # 0 DEF Base64!base64_from
  <2>2. ASSUME Base64!base64_valid(text).ok PROVE FALSE
    <3>. DEFINE p == Base64!Leading(text)
    <3>. DEFINE P(q) == /\ \A j \in p + 1 .. q : (j - 1) % 4 # 0 /\ text[j] = Base64!Equals
                        /\ q < Len(text) => q % 4 = 0 \/ text[q + 1] # Base64!Equals
    <3>. DEFINE end == CHOOSE q \in p .. Len(text) : P(q)
    <3>1. Base64!base64_valid(text) = [ok |-> end = Len(text) /\ end % 4 = 0, count |-> end]
      BY ONLY Zenon DEF Base64!base64_valid
    <3>. HIDE DEF end
    <3>2. end = Len(text) /\ end % 4 = 0
      BY ONLY <3>1, <2>2, OkOf
    <3>. QED
      BY ONLY <3>2, Len(text) % 4 # 0
  <2>. QED
    BY ONLY <2>1, <2>2
<1>. QED
  BY ONLY <1>2, <1>3, <1>4, <1>5, Zenon

\* The samples are bytes and digits.
LEMMA Samples ==
    ASSUME NEW q, NEW count \in Nat, NEW charBits \in Nat
    PROVE  /\ CodecSample(q, count) \in SUBSET (0 .. count - 1)
           /\ Digits(q, count, charBits) \in Seq(SUBSET (0 .. charBits - 1))
           /\ Len(Digits(q, count, charBits)) = count
<1>1. CodecSample(q, count) \in SUBSET (0 .. count - 1)
  BY ONLY SMT DEF CodecSample
<1>. DEFINE digit(n) == {c \in 0 .. charBits - 1 : (n - 1) * charBits + c \in CodecSample(q, count * charBits)}
<1>2. Digits(q, count, charBits) = [n \in 1 .. count |-> digit(n)]
  BY ONLY Zenon DEF Digits
<1>3. \A n : digit(n) \in SUBSET (0 .. charBits - 1)
  BY ONLY Zenon
<1>. HIDE DEF digit
<1>. QED
  BY ONLY <1>1, <1>2, <1>3, count \in Nat

\* Every question about the codes is answered, so CodesInverse holds of every state
\* (base16_*.c, base32_*.c, base64_*.c).
THEOREM CodesAlwaysInverse == []CodesInverse
<1>1. ASSUME NEW q PROVE FromSpells(q)
  <2>1. SUFFICES ASSUME NEW count \in 1 .. 11, NEW junk \in {{}, 0 .. 95}
                 PROVE  /\ FromRight(Base32!base32_from(Digits(q, count, 5), junk), Digits(q, count, 5), 5, junk)
                        /\ FromRight(Base16!base16_from(Digits(q, count, 4), junk), Digits(q, count, 4), 4, junk)
    BY ONLY <2>1 DEF FromSpells
  <2>2. junk \in SUBSET Nat /\ count \in Nat /\ count > 0 /\ 4 \in Nat /\ 5 \in Nat /\ 5 - 1 = 4 /\ 4 - 1 = 3
    BY ONLY <2>1
  <2>3. /\ Digits(q, count, 5) \in Seq(SUBSET (0 .. 4)) /\ Len(Digits(q, count, 5)) = count
        /\ Digits(q, count, 4) \in Seq(SUBSET (0 .. 3)) /\ Len(Digits(q, count, 4)) = count
    BY ONLY <2>2, Samples
  <2>4. Digits(q, count, 5) # <<>> /\ Digits(q, count, 4) # <<>>
    BY ONLY <2>2, <2>3
  <2>5. /\ Digits(q, count, 5) \in Seq(SUBSET (0 .. 4)) \ {<<>>}
        /\ Digits(q, count, 4) \in Seq(SUBSET (0 .. 3)) \ {<<>>}
    BY ONLY <2>3, <2>4
  <2>. QED
    BY ONLY <2>2, <2>5, CodesSpell
<1>2. ASSUME NEW q PROVE ToSpells(q)
  <2>1. ASSUME NEW slen \in 0 .. 7 PROVE ToRight(CodecSample(q, 8 * slen), slen)
    <3>1. slen \in Nat /\ 8 * slen \in Nat /\ 0 \in Nat
      BY ONLY <2>1
    <3>2. CodecSample(q, 8 * slen) \in SUBSET (0 .. 8 * slen - 1)
      BY ONLY <3>1, Samples
    <3>. QED
      BY ONLY <3>1, <3>2, CodesSpell
  <2>. QED
    BY ONLY <2>1 DEF ToSpells
<1>3. ASSUME NEW q PROVE Refused(q)
  <2>1. ASSUME NEW at \in 1 .. 4
        PROVE  /\ Base32!base32_valid(Broken(Digits(q, 4, 5), at)) = RefusedAt(at)
               /\ Base16!base16_valid(Broken(Digits(q, 4, 4), at)) = RefusedAt(at)
               /\ Base64!base64_valid(Broken(Base64!base64_to(CodecSample(q, 8), 1), at)) = RefusedAt(at)
    <3>1. 4 \in Nat /\ 5 \in Nat /\ 8 \in Nat /\ 1 \in Nat /\ 5 - 1 = 4 /\ 4 - 1 = 3 /\ 8 * 1 - 1 = 8 - 1
      OBVIOUS
    <3>2. /\ Digits(q, 4, 5) \in Seq(SUBSET (0 .. 4)) /\ Len(Digits(q, 4, 5)) = 4
          /\ Digits(q, 4, 4) \in Seq(SUBSET (0 .. 3)) /\ Len(Digits(q, 4, 4)) = 4
          /\ CodecSample(q, 8) \in SUBSET (0 .. 8 - 1)
      BY ONLY <3>1, Samples
    <3>3. CodecSample(q, 8) \in SUBSET (0 .. 8 * 1 - 1)
      BY ONLY <3>1, <3>2
    <3>4. Base64!Base64ToLen(1) = 4
      BY ONLY SMT DEF Base64!Base64ToLen
    <3>5. Base32!base32_valid(Broken(Digits(q, 4, 5), at)) = RefusedAt(at)
      BY ONLY <3>2, at \in 1 .. 4, CodesRefuse
    <3>6. Base16!base16_valid(Broken(Digits(q, 4, 4), at)) = RefusedAt(at)
      BY ONLY <3>2, at \in 1 .. 4, CodesRefuse
    <3>7. Base64!base64_valid(Broken(Base64!base64_to(CodecSample(q, 8), 1), at)) = RefusedAt(at)
      BY ONLY <3>1, <3>3, <3>4, at \in 1 .. 4, CodesRefuse
    <3>. QED
      BY ONLY <3>5, <3>6, <3>7
  <2>2. ASSUME NEW count \in {1, 2, 3, 5}
        PROVE  Base64!base64_from(Digits(q, count, 6)).len = -1 /\ ~Base64!base64_valid(Digits(q, count, 6)).ok
    <3>1. count \in Nat /\ 6 \in Nat /\ count % 4 # 0 /\ 6 - 1 = 5
      BY ONLY <2>2
    <3>2. Digits(q, count, 6) \in Seq(SUBSET (0 .. 5)) /\ Len(Digits(q, count, 6)) = count
      BY ONLY <3>1, Samples
    <3>3. Digits(q, count, 6) \in Seq(SUBSET Int)
      BY ONLY <3>2
    <3>. QED
      BY ONLY <3>1, <3>2, <3>3, CodesRefuse
  <2>. QED
    BY ONLY <2>1, <2>2 DEF Refused
<1>4. CodesInverse
  BY ONLY <1>1, <1>2, <1>3 DEF CodesInverse, CodecAnswer
<1>. QED
  BY <1>4, PTL
=============================================================================
