-------------------------- MODULE MCSeedCheckpoint --------------------------
(***************************************************************************)
(* Seeds of three bits, so that carries of two bytes occur; two workers.   *)
(***************************************************************************)
EXTENDS SeedCheckpoint

CONSTANTS w1, w2

TwoWorkers == {w1, w2}
=============================================================================
