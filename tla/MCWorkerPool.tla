---------------------------- MODULE MCWorkerPool ----------------------------
(***************************************************************************)
(* Small pools for TLC: two or three workers, two to four keys.            *)
(***************************************************************************)
EXTENDS WorkerPool, TLC

CONSTANTS w1, w2, w3, k1, k2, k3, k4

TwoWorkers == {w1, w2}
ThreeWorkers == {w1, w2, w3}
TwoKeys == {k1, k2}
ThreeKeys == {k1, k2, k3}
FourKeys == {k1, k2, k3, k4}
OneOldDir == {k1}
NoDirs == {}
NoFaults == {}
Crashes == {"spawn", "kill"}
DiskFaults == {"disk"}
AllFaults == {"disk", "spawn", "kill"}

WorkerSymmetry == Permutations(Workers)
=============================================================================
