---------------------------- MODULE MCArithmetic ----------------------------
(***************************************************************************)
(* Five points of a seed in batches of three and eight clamped scalars;    *)
(* all pairs of seeds of three digits to base 3; and all questions.        *)
(***************************************************************************)
EXTENDS Arithmetic

CpuModes == {"random", "passphrase"}
Anything == 0 .. 2
=============================================================================
