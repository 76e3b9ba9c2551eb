------------------------------ MODULE KeySearch ------------------------------
(***************************************************************************)
(* What a run of mkp224o promises, with no threads, locks or files in it.  *)
(*                                                                         *)
(* A crew of finders accepts matching keys for output.  Every accepted key *)
(* is settled: stored and announced, or reported as failed.  A limited run *)
(* (-n NUMKEYS, NumNeed # 0) accepts at most NumNeed keys.  Once the end   *)
(* was requested each finder accepts at most one more key, the one it had  *)
(* in hand, and an orderly end leaves no accepted key unsettled.           *)
(***************************************************************************)
EXTENDS Naturals, FiniteSets

CONSTANTS Workers,   \* the finders
          Keys,      \* the keys that can match
          NumNeed    \* keys asked for; 0 means no limit

VARIABLES accepted,  \* keys accepted for output
          settled,   \* accepted keys whose output was attempted to its end
          closing,   \* the end of the run was requested
          late,      \* keys each finder accepted after that request
          phase      \* "running", "finished" in order, or "dead"

svars == <<accepted, settled, closing, late, phase>>

Limited == NumNeed # 0

Init ==
    /\ accepted = {}
    /\ settled = {}
    /\ closing = FALSE
    /\ late = [w \in Workers |-> 0]
    /\ phase = "running"

\* Finder w accepts k; after the end was requested, only once more.
Accept(w, k) ==
    /\ phase = "running"
    /\ k \notin accepted
    /\ Limited => Cardinality(accepted) < NumNeed
    /\ closing => late[w] = 0
    /\ accepted' = accepted \cup {k}
    /\ late' = IF closing THEN [late EXCEPT ![w] = @ + 1] ELSE late
    /\ UNCHANGED <<settled, closing, phase>>

Settle(k) ==
    /\ phase = "running"
    /\ k \in accepted \ settled
    /\ settled' = settled \cup {k}
    /\ UNCHANGED <<accepted, closing, late, phase>>

RequestEnd ==
    /\ phase = "running"
    /\ closing' = TRUE
    /\ UNCHANGED <<accepted, settled, late, phase>>

Finish ==
    /\ phase = "running"
    /\ closing
    /\ settled = accepted
    /\ phase' = "finished"
    /\ UNCHANGED <<accepted, settled, closing, late>>

\* The process is killed, or gives up.
Die ==
    /\ phase = "running"
    /\ phase' = "dead"
    /\ UNCHANGED <<accepted, settled, closing, late>>

Next ==
    \/ \E w \in Workers, k \in Keys : Accept(w, k)
    \/ \E k \in Keys : Settle(k)
    \/ RequestEnd
    \/ Finish
    \/ Die

Spec == Init /\ [][Next]_svars
=============================================================================
