----------------------------- MODULE Arithmetic -----------------------------
(***************************************************************************)
(* The parts of the program that compute one thing from another and share  *)
(* no state: the walk from a seed (BatchWalk), the checkpoint              *)
(* (CheckpointCodec), and the functions behind them, each of which is      *)
(* asked questions and compared with what it stands for.  A behaviour is   *)
(* about one part only.                                                    *)
(***************************************************************************)
EXTENDS BatchWalk, CheckpointCodec, FieldChecks, ScalarChecks, GroupChecks, CodecChecks

\* part is "walk", "checkpoint" or what the question is about.
partVars == <<part, question, asked>>

Questions == [
    field |-> FieldQuestions, scalar |-> ScalarQuestions, group |-> GroupQuestions,
    key |-> KeyQuestions, signature |-> SignatureQuestions, code |-> CodecQuestions]

\* The other parts when a behaviour is not about them.
WalkIdle ==
    /\ mode = CHOOSE m \in Modes : TRUE
    /\ skipnear = FALSE /\ warnnear = FALSE
    /\ pc = "end"
    /\ sk = 0 /\ pub = 0 /\ counter = 0 /\ oldcounter = 0
    /\ batch = Points(0, 0) /\ width = 0 /\ b = 0
    /\ seednear = FALSE /\ endwork = TRUE
    /\ seeds = 0 /\ looked = 0 /\ outputs = {}
CodecIdle ==
    /\ phase = "done" /\ pos = 0 /\ carry = 0
    /\ orig = [j \in Index |-> 0]
    /\ det = orig /\ cp = orig /\ loaded = orig

PartsInit ==
    /\ asked = FALSE
    /\ \/ part = "walk" /\ question = 0 /\ Init /\ CodecIdle
       \/ part = "checkpoint" /\ question = 0 /\ WalkIdle /\ CodecInit
       \/ /\ part \in DOMAIN Questions /\ question \in Questions[part]
          /\ WalkIdle /\ CodecIdle

Walk == part = "walk" /\ Next /\ UNCHANGED <<codecVars, partVars>>
Checkpoint == part = "checkpoint" /\ CodecNext /\ UNCHANGED <<vars, partVars>>
Ask ==
    /\ part \in DOMAIN Questions /\ ~asked
    /\ asked' = TRUE
    /\ UNCHANGED <<part, question, vars, codecVars>>
Answered == asked /\ UNCHANGED <<vars, codecVars, partVars>>

PartsNext == Walk \/ Checkpoint \/ Ask \/ Answered

PartsSpec == PartsInit /\ [][PartsNext]_<<vars, codecVars, partVars>>

\* The fields give the sum, the product, the square and the encoding of the
\* numbers their limbs stand for, with the carries they do and no others; no
\* limb wraps where the formulas of the curve leave sums and differences
\* unreduced; and the fixed chains of powers are the inverse and the root
\* (ref10/fe_*.c, curve25519-donna-64bit.h, curve25519-donna-32bit.h,
\* curve25519-donna-helpers.h, amd64-51-30k/fe25519_*.c, cuda_ed25519.cuh).
FieldsRight == asked /\ part = "field" => FieldAnswer(question)

\* Both forms of the scalars reduce, multiply and add modulo the order, with
\* the last conditional subtractions being enough, and the digits a
\* multiplication takes add up to the scalar; machines of 32 and of 64 bits
\* make the same scalars, and the device that of the bytes it takes its 64 for
\* (ref10/sc_*.c, modm-donna-64bit.h,
\* modm-donna-32bit.h, cuda_ed25519.cuh:288-389).
ScalarsRight == asked /\ part = "scalar" => ScalarAnswer(question)

\* The formulas of ref10, ed25519-donna and the device follow the law of
\* addition on every pair of points and its encoding on every point; a seed and
\* a scalar have the same keys in ref10 and donna; and a batch of the device has
\* the keys of its scalar and the next, eight apart.  That this scalar is not
\* the one of the secret key is what KeyPairMatches finds (ref10/ge_*,
\* ed25519-donna-impl-base.h, cuda_ed25519.cuh:395-570, cuda_worker.cu:121-138).
KeysAgree ==
    /\ asked /\ part = "group" => GroupAnswer(question)
    /\ asked /\ part = "key" => KeyAnswer(question)

\* A signature of one implementation is accepted by the other, what was not
\* signed by neither, and many signatures at once like one by one, although the
\* point that is left is not multiplied by the scalar that is left with it
\* (ref10/sign.c, ref10/open.c, ed25519.c:38-106,
\* ed25519-donna-batchverify.h:17-261).
SignaturesVerify == asked /\ part = "signature" => SignatureAnswer(question)
=============================================================================
