----------------------------- MODULE MCSyncWrite -----------------------------
(***************************************************************************)
(* Three contents are written again and again, with crashes in between.      *)
(***************************************************************************)
EXTENDS SyncWrite

CONSTANTS v1, v2, v3

ThreeValues == {v1, v2, v3}
=============================================================================
