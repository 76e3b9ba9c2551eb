---------------------------- MODULE MCCudaWorker ----------------------------
(***************************************************************************)
(* Two or three threads and a buffer of one or two matches: it overflows.  *)
(***************************************************************************)
EXTENDS CudaWorker, TLC

CONSTANTS t1, t2, t3

OneThread == {t1}
TwoThreads == {t1, t2}
ThreeThreads == {t1, t2, t3}
Symmetry == Permutations(Threads)
=============================================================================
