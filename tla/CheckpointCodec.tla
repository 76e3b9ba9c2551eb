--------------------------- MODULE CheckpointCodec ---------------------------
(***************************************************************************)
(* What a checkpoint file holds, and what loading it gives back.           *)
(*                                                                         *)
(* savecheckpoint (main.c:216-225) subtracts the first seed from the       *)
(* present one byte by byte with a borrow; main (main.c:669-673) adds the  *)
(* file to the first seed byte by byte with a carry.  Both take the carry  *)
(* from one comparison, which is wrong when the subtracted (added) byte is *)
(* Base - 1 and the carry is 1: the file is then not the number of seeds.  *)
(* The two loops err alike, though, and the seed comes back exactly.       *)
(*                                                                         *)
(* One step is one turn of a loop.  Base is 256 and SeedLen 32 in the      *)
(* code.                                                                   *)
(***************************************************************************)
EXTENDS Integers

CONSTANTS Base,    \* values of a u8
          SeedLen    \* SEED_LEN

ASSUME CodecAssumption == Base \in Nat /\ Base >= 2 /\ SeedLen \in Nat

Index == 0 .. SeedLen - 1
Digit == 0 .. Base - 1
Seed == [Index -> Digit]

VARIABLES phase,  \* "save", "load" or "done"
          pos,    \* the loop variable
          carry,  \* bool carry
          det,    \* determseed when it is saved
          orig,   \* orig_determseed: what the passphrase expands to
          cp,     \* the checkpoint
          loaded  \* determseed of the run that loads it

codecVars == <<phase, pos, carry, det, orig, cp, loaded>>

\* An int stored in a u8; the sums here lie between -Base and 2 * Base - 1.
Byte(x) == IF x < 0 THEN x + Base ELSE IF x >= Base THEN x - Base ELSE x

Bit(b) == IF b THEN 1 ELSE 0

CodecInit ==
    /\ phase = "save"
    /\ pos = 0
    /\ carry = 0
    /\ det \in Seed
    /\ orig \in Seed
    /\ cp = [j \in Index |-> 0]
    /\ loaded = orig

SaveByte ==
    /\ phase = "save" /\ pos < SeedLen
    /\ cp' = [cp EXCEPT ![pos] = Byte(det[pos] - orig[pos] - carry)]
    /\ carry' = Bit(cp'[pos] > det[pos])
    /\ pos' = pos + 1
    /\ UNCHANGED <<phase, det, orig, loaded>>

\* The file is written, and read by a run with the same passphrase.
Restart ==
    /\ phase = "save" /\ pos = SeedLen
    /\ phase' = "load"
    /\ pos' = 0
    /\ carry' = 0
    /\ UNCHANGED <<det, orig, cp, loaded>>

\* Mutant of LoadByte: the carry comes from comparing with the other summand.
LoadByteOtherCarry ==
    /\ phase = "load" /\ pos < SeedLen
    /\ loaded' = [loaded EXCEPT ![pos] = Byte(loaded[pos] + cp[pos] + carry)]
    /\ carry' = Bit(loaded'[pos] < loaded[pos])
    /\ pos' = pos + 1
    /\ UNCHANGED <<phase, det, orig, cp>>

LoadByte ==
    /\ phase = "load" /\ pos < SeedLen
    /\ loaded' = [loaded EXCEPT ![pos] = Byte(loaded[pos] + cp[pos] + carry)]
    /\ carry' = Bit(loaded'[pos] < cp[pos])
    /\ pos' = pos + 1
    /\ UNCHANGED <<phase, det, orig, cp>>

Loaded ==
    /\ phase = "load" /\ pos = SeedLen
    /\ phase' = "done"
    /\ UNCHANGED <<pos, carry, det, orig, cp, loaded>>

CodecTerminated == phase = "done" /\ UNCHANGED codecVars

CodecNext == SaveByte \/ Restart \/ LoadByte \/ Loaded \/ CodecTerminated

CodecSpec == CodecInit /\ [][CodecNext]_codecVars

\* Every variable has its type: in particular each byte stays one.
CodecTypeOK ==
    /\ phase \in {"save", "load", "done"}
    /\ pos \in 0 .. SeedLen
    /\ carry \in 0 .. 1
    /\ det \in Seed
    /\ orig \in Seed
    /\ cp \in Seed
    /\ loaded \in Seed

\* A run that loads a checkpoint goes on at exactly the seed where it was
\* saved, whatever the two seeds are (main.c:221-224 against 670-673).
RoundTrip == phase = "done" => loaded = det
=============================================================================
