-------------------------- MODULE CudaWorkerProofs --------------------------
(***************************************************************************)
(* Proofs about CudaWorker, for any threads, buffer, limit and kernels.    *)
(***************************************************************************)
EXTENDS CudaWorker, FiniteSetTheorems, TLAPS

ThreadPCs == {"head", "batch", "claim", "store", "count", "last", "full", "off"}
Draining == {"finish", "ready", "quota", "output"}
AfterKernel == {"read", "report", "test", "cleanup", "exited"} \cup Draining
HostPCs == {"sleep", "decide", "setend", "synchronize"} \cup AfterKernel

\* The parts of TypeOK the invariants need.
Types ==
    /\ tpc \in [Threads -> ThreadPCs]
    /\ tkey \in [Threads -> Candidates \cup {Unwritten}]
    /\ tidx \in [Threads -> Nat]
    /\ n \in [Threads -> 0 .. MatchesEach]
    /\ ordered \in BOOLEAN /\ dEnd \in BOOLEAN /\ devEnd \in BOOLEAN /\ endwork \in BOOLEAN
    /\ again \in BOOLEAN /\ interrupted \in BOOLEAN
    /\ nmatches \in Nat /\ keysgenerated \in Nat
    /\ remaining \in 0 .. Wrap - 1
    /\ slots \in [Slots -> Candidates \cup {Unwritten}]
    /\ copy \in [Slots -> Candidates \cup {Unwritten}]
    /\ kernel \in Kernels
    /\ hpc \in HostPCs
    /\ nm \in 0 .. MaxMatches /\ hi \in 0 .. MaxMatches
    /\ hpc \in Draining => hi < nm
    /\ found \in SUBSET Candidates
    /\ handled \in SUBSET (Candidates \cup {Unwritten})
    /\ accepted \in SUBSET (Candidates \cup {Unwritten})
    /\ settled \in SUBSET (Candidates \cup {Unwritten})
    /\ late = [h \in {Host} |-> 0]

\* Behind cudaDeviceSynchronize nothing runs on the device.
Quiet == hpc \in AfterKernel => KernelEnded

\* A thread counts its matches, so what it finds next was not found before.
Fresh ==
    /\ ~again
    /\ \A c \in found : c[1] <= kernel /\ (c[1] = kernel => c[3] < n[c[2]])

\* A match that has no slot yet, or one it is not written to.
Holding(t) == tpc[t] \in {"claim", "store"}
Hands ==
    \A t \in Threads : Holding(t) => tkey[t] \in found /\ tkey[t][1] = kernel /\ tkey[t][2] = t

\* Slots are claimed once, and those behind a store hold different matches of
\* this kernel, none of which a thread still has in hand.
Written(i) == i < nmatches /\ \A t \in Threads : tpc[t] = "store" => tidx[t] # i
SlotsKept ==
    /\ \A t \in Threads : tpc[t] = "store" => tidx[t] < nmatches
    /\ \A t, u \in Threads : t # u /\ tpc[t] = "store" /\ tpc[u] = "store" => tidx[t] # tidx[u]
    /\ \A i \in Slots : Written(i) => slots[i] \in found /\ slots[i][1] = kernel
    /\ \A i, j \in Slots : i # j /\ Written(i) /\ Written(j) => slots[i] # slots[j]
    /\ \A t \in Threads, i \in Slots : Holding(t) /\ Written(i) => tkey[t] # slots[i]

\* The host works on a copy of the slots taken when the kernel had ended.
CopyKept == hpc \in Draining \cup {"report", "test"} => copy = slots /\ nm = Drained

\* What it handled of this kernel is what the loop over the copy has passed.
Passed(c, k) == \E j \in Slots : j < k /\ c = copy[j]
HandledAre(k) == \A c \in Candidates : c[1] = kernel => (c \in handled <=> Passed(c, k))
InOrder ==
    /\ handled \subseteq found
    /\ hpc \in {"sleep", "decide", "setend", "synchronize", "read"} =>
          \A c \in handled : c[1] # kernel
    /\ hpc = "finish" => HandledAre(hi)
    /\ hpc \in {"ready", "quota", "output"} => HandledAre(hi + 1)
    /\ hpc \in {"report", "test"} => HandledAre(nm)

\* Every match of this kernel has claimed a slot or is about to.
OfKernel == {c \in found : c[1] = kernel}
Claiming == {t \in Threads : tpc[t] = "claim"}
Counted ==
    /\ IsFiniteSet(found)
    /\ hpc # "exited" => Cardinality(OfKernel) = nmatches + Cardinality(Claiming)

\* A thread that got no slot ends the kernel before it matches again.
Over == {t \in Threads : n[t] > 0 /\ tidx[t] >= MaxMatches /\ tpc[t] \notin {"batch", "claim"}}
Bounded ==
    /\ nmatches <= MaxMatches + Cardinality(Over)
    /\ \A t \in Over : tpc[t] = "head" => dEnd
    /\ \A t \in Threads : tpc[t] = "claim" => n[t] > 0
    /\ \A t \in Threads : tpc[t] = "batch" /\ n[t] > 0 => tidx[t] < MaxMatches

\* The end is requested for one of two reasons, and the loop is left for no other.
EndKnown ==
    /\ endwork => interrupted \/ (NumNeed # 0 /\ keysgenerated = NumNeed)
    /\ hpc \in {"cleanup", "exited"} => endwork

\* Keys are counted when they are accepted and settled before the next match is
\* looked at; none is accepted twice.
Accepting ==
    /\ IsFiniteSet(accepted)
    /\ accepted \subseteq handled
    /\ NumNeed # 0 => keysgenerated = Cardinality(accepted)
    /\ accepted = IF hpc \in {"quota", "output"} THEN settled \cup {copy[hi]} ELSE settled
    /\ hpc \in {"quota", "output"} => copy[hi] \notin settled
    /\ hpc \in {"finish", "ready"} => \A c \in accepted : c[1] = kernel => Passed(c, hi)
    /\ hpc \in {"quota", "output"} => \A c \in accepted : c[1] = kernel => Passed(c, hi + 1)
    /\ hpc \in {"ready", "quota", "output"} => copy[hi] \in handled

\* The inductive invariant.
IInv ==
    /\ Types
    /\ Quiet
    /\ Fresh
    /\ Hands
    /\ SlotsKept
    /\ CopyKept
    /\ InOrder
    /\ Counted
    /\ Bounded
    /\ EndKnown
    /\ Accepting

LEMMA TypesStep ==
    ASSUME Types, [Next]_vars
    PROVE  Types'
<1>. USE DEF At, Goto, threadVars, deviceVars, hostVars, mainVars, searchVars,
     histVars, HostPCs, Draining, AfterKernel, Types, Slots
<1>0. MaxMatches \in Nat \ {0} /\ LastKernel \in Nat /\ MatchesEach \in Nat
  BY CudaAssumption
<1>1. ASSUME NEW t \in Threads, ThreadStep(t) PROVE Types'
  <2>1. CASE Match(t)
    <3>1. <<kernel, t, n[t]>> \in Candidates
      BY <1>0, <2>1 DEF Match, Candidates, Kernels
    <3>2. n[t] + 1 \in 0 .. MatchesEach
      BY <1>0, <2>1 DEF Match
    <3>. QED
      BY <2>1, <3>1, <3>2 DEF Match, ThreadPCs
  <2>2. CASE Count(t)
    <3>1. (remaining + Wrap - 1) % Wrap \in 0 .. Wrap - 1
      BY CudaAssumption
    <3>. QED
      BY <2>2, <3>1 DEF Count, ThreadPCs
  <2>3. CASE Claim(t)
    BY <2>3 DEF Claim, ThreadPCs
  <2>4. CASE Store(t)
    BY <2>4 DEF Store, ThreadPCs
  <2>5. CASE Head(t) \/ NoMatch(t)
    <3>1. CASE Head(t)
      BY <3>1 DEF Head, ThreadPCs
    <3>2. CASE NoMatch(t)
      BY <3>2 DEF NoMatch, ThreadPCs
    <3>. QED
      BY <2>5, <3>1, <3>2
  <2>6. CASE LastOne(t)
    BY <2>6 DEF LastOne, ThreadPCs
  <2>7. CASE BufferFull(t)
    BY <2>7 DEF BufferFull, ThreadPCs
  <2>. QED
    BY ONLY <1>1, <2>1, <2>2, <2>3, <2>4, <2>5, <2>6, <2>7 DEF ThreadStep
<1>2. CASE Poll \/ SleepOn \/ Flush \/ DeviceEnded \/ SetEnd \/ Synchronize
  <2>1. CASE Poll \/ SleepOn \/ Flush
    BY <2>1 DEF Poll, SleepOn, Flush
  <2>2. CASE DeviceEnded \/ SetEnd \/ Synchronize
    BY <2>2 DEF DeviceEnded, SetEnd, Synchronize
  <2>. QED
    BY ONLY <1>2, <2>1, <2>2
<1>3. CASE ReadMatches
  BY <1>3, CudaAssumption DEF ReadMatches, Drained
<1>4. CASE Drain
  <2>1. hi < nm /\ copy[hi] \in Candidates \cup {Unwritten}
    BY <1>0, <1>4 DEF Drain, DropMatch, RejectMatch, OutputMatch, FinishMatch, AcceptMatch,
       CheckQuota
  <2>2. CASE DropMatch
    BY <1>0, <2>1, <2>2 DEF DropMatch, NextMatch
  <2>3. CASE RejectMatch
    BY <1>0, <2>1, <2>3 DEF RejectMatch, NextMatch
  <2>4. CASE OutputMatch
    BY <1>0, <2>1, <2>4 DEF OutputMatch, NextMatch
  <2>5. CASE FinishMatch
    BY <2>1, <2>5 DEF FinishMatch
  <2>6. CASE AcceptMatch
    BY <2>1, <2>6 DEF AcceptMatch
  <2>7. CASE CheckQuota
    BY <2>7 DEF CheckQuota
  <2>. QED
    BY ONLY <1>4, <2>2, <2>3, <2>4, <2>5, <2>6, <2>7 DEF Drain
<1>5. CASE Report \/ LeaveLoop \/ CleanUp \/ TermHandler
  <2>1. CASE Report \/ LeaveLoop
    BY <2>1 DEF Report, LeaveLoop
  <2>2. CASE CleanUp
    BY <2>2 DEF CleanUp
  <2>3. CASE TermHandler
    BY <2>3 DEF TermHandler
  <2>. QED
    BY ONLY <1>5, <2>1, <2>2, <2>3
<1>6. CASE Relaunch
  <2>1. NextKernel \in Kernels
    BY <1>0 DEF NextKernel, Kernels
  <2>2. tpc' \in [Threads -> ThreadPCs] /\ n' \in [Threads -> 0 .. MatchesEach]
    BY <1>0, <1>6 DEF Relaunch, ThreadPCs
  <2>. QED
    BY <1>6, <2>1, <2>2 DEF Relaunch
<1>7. CASE Terminated \/ UNCHANGED vars
  BY <1>7 DEF Terminated, vars
<1> HIDE DEF At, Goto, threadVars, deviceVars, hostVars, mainVars, searchVars, histVars,
     HostPCs, Draining, AfterKernel, Types, Slots
<1>. QED
  BY ONLY <1>1, <1>2, <1>3, <1>4, <1>5, <1>6, <1>7, [Next]_vars DEF Next, HostStep

\* A thread that is off stays off until the next launch.
LEMMA QuietStep ==
    ASSUME Types, Quiet, [Next]_vars
    PROVE  Quiet'
<1>. USE DEF At, Goto, threadVars, deviceVars, hostVars, Types, HostPCs, Draining, AfterKernel,
     Quiet, KernelEnded
<1>1. ASSUME NEW t \in Threads, ThreadStep(t) PROVE Quiet'
  BY <1>1 DEF ThreadStep, Head, NoMatch, Match, Claim, Store, Count, LastOne, BufferFull
<1>2. CASE Poll \/ SleepOn \/ Flush \/ DeviceEnded \/ SetEnd \/ Synchronize
  BY <1>2 DEF Poll, SleepOn, Flush, DeviceEnded, SetEnd, Synchronize
<1>3. CASE ReadMatches \/ Drain
  BY <1>3 DEF ReadMatches, Drain, DropMatch, RejectMatch, OutputMatch, NextMatch,
     FinishMatch, AcceptMatch, CheckQuota
<1>4. CASE Report \/ LeaveLoop \/ CleanUp \/ TermHandler \/ Relaunch
  BY <1>4 DEF Report, LeaveLoop, CleanUp, TermHandler, Relaunch
<1>5. CASE Terminated \/ UNCHANGED vars
  BY <1>5 DEF Terminated, vars
<1>. QED
  BY <1>1, <1>2, <1>3, <1>4, <1>5 DEF Next, HostStep

\* The next match of a thread has a number of its own; a new kernel has one too,
\* except the last, which finds nothing.
LEMMA FreshStep ==
    ASSUME Types, Fresh, [Next]_vars
    PROVE  Fresh'
<1>. USE DEF threadVars, deviceVars, searchVars
<1>1. /\ kernel \in Nat /\ LastKernel \in Nat /\ n \in [Threads -> Nat]
      /\ \A c \in found : c[1] \in Nat /\ c[2] \in Threads /\ c[3] \in Nat /\ c[1] < LastKernel
  BY CudaAssumption DEF Types, Candidates, Kernels
<1>2. ASSUME NEW t \in Threads, Match(t) PROVE Fresh'
  <2>1. <<kernel, t, n[t]>> \notin found
    BY <1>1 DEF Fresh
  <2>2. /\ found' = found \cup {<<kernel, t, n[t]>>} /\ ~again'
        /\ n' = [n EXCEPT ![t] = @ + 1] /\ kernel' = kernel
    BY <1>2, <2>1 DEF Match, Fresh
  <2>. QED
    BY <1>1, <2>2 DEF Fresh
<1>3. CASE Relaunch
  <2>1. kernel' = (IF kernel < LastKernel THEN kernel + 1 ELSE kernel) /\ found' = found /\ ~again'
    BY <1>3 DEF Relaunch, NextKernel, Fresh
  <2>2. \A c \in found : c[1] <= kernel' /\ c[1] # kernel'
    BY <1>1, <2>1 DEF Fresh
  <2>. QED
    BY <2>1, <2>2 DEF Fresh
<1>4. CASE UNCHANGED <<n, kernel, found, again>>
  BY <1>4 DEF Fresh
<1>5. ASSUME NEW t \in Threads, ThreadStep(t), ~Match(t) PROVE UNCHANGED <<n, kernel, found, again>>
  BY <1>5 DEF ThreadStep, Head, NoMatch, Claim, Store, Count, LastOne, BufferFull
<1>6. CASE HostStep \/ TermHandler
  BY <1>3, <1>4, <1>6 DEF HostStep, Poll, SleepOn, Flush, DeviceEnded, SetEnd, Synchronize,
     ReadMatches, Drain, DropMatch, RejectMatch, OutputMatch, NextMatch, FinishMatch,
     AcceptMatch, CheckQuota, Report, LeaveLoop, CleanUp, TermHandler
<1>7. CASE Terminated \/ UNCHANGED vars
  BY <1>4, <1>7 DEF Terminated, vars
<1>. QED
  BY ONLY <1>2, <1>4, <1>5, <1>6, <1>7, [Next]_vars DEF Next

LEMMA HandsStep ==
    ASSUME Types, Hands, [Next]_vars
    PROVE  Hands'
<1>. USE DEF threadVars, deviceVars, searchVars, Holding, Goto
<1>1. tpc \in [Threads -> ThreadPCs] /\ tkey \in [Threads -> Candidates \cup {Unwritten}]
  BY DEF Types
<1>2. ASSUME NEW t \in Threads, Match(t) PROVE Hands'
  <2>. DEFINE c == <<kernel, t, n[t]>>
  <2>1. c[1] = kernel /\ c[2] = t
    OBVIOUS
  <2>2. tkey' = [tkey EXCEPT ![t] = c] /\ found' = found \cup {c} /\ kernel' = kernel
    BY <1>2 DEF Match
  <2>3. \A u \in Threads : u # t => tpc'[u] = tpc[u]
    BY <1>1, <1>2 DEF Match
  <2>. HIDE DEF c
  <2>. QED
    BY <1>1, <2>1, <2>2, <2>3 DEF Hands
<1>3. ASSUME NEW t \in Threads, ThreadStep(t), ~Match(t) PROVE Hands'
  <2>1. /\ UNCHANGED <<tkey, kernel, found>>
        /\ \A u \in Threads : tpc'[u] \in {"claim", "store"} => tpc[u] \in {"claim", "store"}
    BY <1>1, <1>3 DEF ThreadStep, Head, NoMatch, Claim, Store, Count, LastOne, BufferFull, At
  <2>. QED
    BY <2>1 DEF Hands
<1>4. CASE Relaunch
  BY <1>4 DEF Relaunch, Hands
<1>5. CASE UNCHANGED <<tpc, tkey, kernel, found>>
  BY <1>5 DEF Hands
<1>6. CASE HostStep \/ TermHandler
  BY <1>4, <1>5, <1>6 DEF HostStep, Poll, SleepOn, Flush, DeviceEnded, SetEnd, Synchronize,
     ReadMatches, Drain, DropMatch, RejectMatch, OutputMatch, NextMatch, FinishMatch,
     AcceptMatch, CheckQuota, Report, LeaveLoop, CleanUp, TermHandler
<1>7. CASE Terminated \/ UNCHANGED vars
  BY <1>5, <1>7 DEF Terminated, vars
<1>. QED
  BY ONLY <1>2, <1>3, <1>6, <1>7, [Next]_vars DEF Next

\* Between two launches the host changes nothing the threads work with.
LEMMA HostLeaves ==
    ASSUME [Next]_vars, ~Relaunch, ~CleanUp, \A t \in Threads : ~ThreadStep(t)
    PROVE  UNCHANGED <<tpc, tkey, tidx, n, nmatches, slots, kernel, found>>
<1>1. CASE HostStep \/ TermHandler
  BY <1>1 DEF HostStep, Poll, SleepOn, Flush, DeviceEnded, SetEnd, Synchronize, ReadMatches,
     Drain, DropMatch, RejectMatch, OutputMatch, NextMatch, FinishMatch, AcceptMatch,
     CheckQuota, Report, LeaveLoop, TermHandler, threadVars, deviceVars, searchVars
<1>2. CASE Terminated \/ UNCHANGED vars
  BY <1>2 DEF Terminated, vars, threadVars, deviceVars, searchVars
<1>. QED
  BY <1>1, <1>2 DEF Next

\* A slot is claimed by one thread, which writes it once.
LEMMA SlotsStep ==
    ASSUME Types, Hands, Fresh, SlotsKept, [Next]_vars
    PROVE  SlotsKept'
<1>. USE DEF threadVars, deviceVars, searchVars, Holding, Goto
<1>1. /\ tpc \in [Threads -> ThreadPCs] /\ tkey \in [Threads -> Candidates \cup {Unwritten}]
      /\ tidx \in [Threads -> Nat] /\ nmatches \in Nat
      /\ slots \in [Slots -> Candidates \cup {Unwritten}] /\ \A i \in Slots : i \in Nat
  BY CudaAssumption DEF Types, Slots
<1>2. ASSUME NEW t \in Threads, Match(t) PROVE SlotsKept'
  <2>. DEFINE c == <<kernel, t, n[t]>>
  <2>1. c \notin found
    <3>1. n[t] \in Nat
      BY CudaAssumption DEF Types
    <3>. QED
      BY <3>1 DEF Fresh
  <2>2. /\ tkey' = [tkey EXCEPT ![t] = c] /\ found' = found \cup {c}
        /\ tpc[t] = "batch" /\ tpc' = [tpc EXCEPT ![t] = "claim"]
        /\ UNCHANGED <<tidx, nmatches, slots, kernel>>
    BY <1>2 DEF Match, At
  <2>. HIDE DEF c
  <2>3. \A u \in Threads : tpc'[u] = "store" <=> tpc[u] = "store"
    BY <1>1, <2>2
  <2>4. \A i \in Slots : Written(i)' <=> Written(i)
    BY <2>2, <2>3 DEF Written
  <2>5. \A u \in Threads, i \in Slots : Holding(u)' /\ Written(i) => tkey'[u] # slots[i]
    <3>. TAKE u \in Threads, i \in Slots
    <3>1. CASE u = t
      BY <1>1, <2>1, <2>2, <3>1 DEF SlotsKept
    <3>2. CASE u # t
      BY <1>1, <2>2, <3>2 DEF SlotsKept
    <3>. QED
      BY <3>1, <3>2
  <2>. QED
    BY <2>2, <2>3, <2>4, <2>5 DEF SlotsKept
<1>3. ASSUME NEW t \in Threads, Claim(t) PROVE SlotsKept'
  <2>1. /\ tpc[t] = "claim" /\ tpc' = [tpc EXCEPT ![t] = "store"]
        /\ tidx' = [tidx EXCEPT ![t] = nmatches] /\ nmatches' = nmatches + 1
        /\ UNCHANGED <<tkey, slots, kernel, found>>
    BY <1>3 DEF Claim, At
  <2>2. \A i \in Slots : Written(i)' <=> Written(i)
    <3>. TAKE i \in Slots
    <3>1. tpc'[t] = "store" /\ tidx'[t] = nmatches
      BY <1>1, <2>1
    <3>2. \A u \in Threads : u # t => tpc'[u] = tpc[u] /\ tidx'[u] = tidx[u]
      BY <1>1, <2>1
    <3>3. i < nmatches + 1 /\ i # nmatches <=> i < nmatches
      BY <1>1
    <3>. QED
      BY <2>1, <3>1, <3>2, <3>3 DEF Written
  <2>3. \A u \in Threads : tpc'[u] = "store" => tidx'[u] < nmatches'
    BY <1>1, <2>1 DEF SlotsKept
  <2>4. \A u, v \in Threads :
            u # v /\ tpc'[u] = "store" /\ tpc'[v] = "store" => tidx'[u] # tidx'[v]
    BY <1>1, <2>1 DEF SlotsKept
  <2>5. \A u \in Threads : Holding(u)' <=> Holding(u)
    BY <1>1, <2>1
  <2>. QED
    BY <2>1, <2>2, <2>3, <2>4, <2>5 DEF SlotsKept
<1>4. ASSUME NEW t \in Threads, Store(t) PROVE SlotsKept'
  <2>. DEFINE s == tidx[t]
  <2>1. /\ tpc[t] = "store" /\ tpc' = [tpc EXCEPT ![t] = "count"]
        /\ slots' = IF s < MaxMatches THEN [slots EXCEPT ![s] = tkey[t]] ELSE slots
        /\ UNCHANGED <<tkey, tidx, nmatches, kernel, found>>
    BY <1>4 DEF Store, At
  <2>2. s \in Nat /\ s < nmatches
    BY <1>1, <2>1 DEF SlotsKept
  <2>3. s < MaxMatches <=> s \in Slots
    BY <2>2, CudaAssumption DEF Slots
  <2>4. \A u \in Threads : tpc'[u] = "store" => tpc[u] = "store" /\ u # t /\ tidx[u] # s
    BY <1>1, <2>1 DEF SlotsKept
  <2>. HIDE DEF s
  <2>5. \A i \in Slots : Written(i)' => (i = s \/ Written(i))
    <3>. TAKE i \in Slots
    <3>. SUFFICES ASSUME Written(i)', i # s PROVE Written(i)
      OBVIOUS
    <3>1. i < nmatches /\ \A u \in Threads : u # t /\ tpc[u] = "store" => tidx[u] # i
      BY <1>1, <2>1 DEF Written
    <3>. QED
      BY <3>1 DEF Written, s
  <2>6. \A i \in Slots : slots'[i] = IF i = s THEN tkey[t] ELSE slots[i]
    BY <1>1, <2>1, <2>3
  <2>7. tkey[t] \in found /\ tkey[t][1] = kernel /\ tkey[t][2] = t
    BY <2>1 DEF Hands
  <2>8. \A i \in Slots : Written(i) => slots[i] # tkey[t]
    BY <2>1 DEF SlotsKept
  <2>9. \A i \in Slots : Written(i)' => slots'[i] \in found' /\ slots'[i][1] = kernel'
    BY <2>1, <2>5, <2>6, <2>7 DEF SlotsKept
  <2>10. \A i, j \in Slots : i # j /\ Written(i)' /\ Written(j)' => slots'[i] # slots'[j]
    BY <2>5, <2>6, <2>8 DEF SlotsKept
  <2>11. \A u \in Threads, i \in Slots : Holding(u)' /\ Written(i)' => tkey'[u] # slots'[i]
    <3>. TAKE u \in Threads, i \in Slots
    <3>1. Holding(u)' => Holding(u) /\ u # t /\ tkey[u][2] = u
      BY <1>1, <2>1 DEF Hands
    <3>. QED
      BY <2>1, <2>5, <2>6, <2>7, <3>1 DEF SlotsKept
  <2>. QED
    BY <2>1, <2>2, <2>4, <2>9, <2>10, <2>11 DEF SlotsKept, s
<1>5. ASSUME NEW t \in Threads, ThreadStep(t), ~Match(t), ~Claim(t), ~Store(t) PROVE SlotsKept'
  <2>1. /\ UNCHANGED <<tkey, tidx, nmatches, slots, kernel, found>>
        /\ \A u \in Threads : /\ tpc'[u] = "store" <=> tpc[u] = "store"
                              /\ tpc'[u] = "claim" <=> tpc[u] = "claim"
    BY <1>1, <1>5 DEF ThreadStep, Head, NoMatch, Count, LastOne, BufferFull, At
  <2>. QED
    BY <2>1 DEF SlotsKept, Written
<1>6. CASE Relaunch \/ CleanUp
  <2>1. nmatches' = 0 /\ \A t \in Threads : ~Holding(t)'
    BY <1>6 DEF Relaunch, CleanUp, KernelEnded
  <2>. QED
    BY <1>1, <2>1 DEF SlotsKept, Written
<1>7. CASE UNCHANGED <<tpc, tkey, tidx, n, nmatches, slots, kernel, found>>
  BY <1>7 DEF SlotsKept, Written
<1>. QED
  BY ONLY <1>2, <1>3, <1>4, <1>5, <1>6, <1>7, HostLeaves, [Next]_vars

LEMMA CopyStep ==
    ASSUME Types, Quiet, CopyKept, [Next]_vars
    PROVE  CopyKept'
<1>. USE DEF threadVars, deviceVars, hostVars, CopyKept, Draining
<1>1. ASSUME NEW t \in Threads, ThreadStep(t) PROVE CopyKept'
  <2>1. hpc \notin Draining \cup {"report", "test"} /\ hpc' = hpc
    BY <1>1 DEF Quiet, KernelEnded, AfterKernel, ThreadStep, Head, NoMatch, Match, Claim, Store,
       Count, LastOne, BufferFull, At
  <2>. QED
    BY <2>1
<1>2. CASE Relaunch \/ CleanUp
  BY <1>2 DEF Relaunch, CleanUp
<1>3. CASE ReadMatches
  BY <1>3 DEF ReadMatches, Drained
<1>4. ASSUME HostStep \/ TermHandler, ~Relaunch, ~CleanUp, ~ReadMatches PROVE CopyKept'
  BY <1>4 DEF HostStep, Poll, SleepOn, Flush, DeviceEnded, SetEnd, Synchronize, Drain,
     DropMatch, RejectMatch, OutputMatch, NextMatch, FinishMatch, AcceptMatch, CheckQuota,
     Report, LeaveLoop, TermHandler, Drained
<1>5. CASE Terminated \/ UNCHANGED vars
  BY <1>5 DEF Terminated, vars, Drained
<1>. QED
  BY ONLY <1>1, <1>2, <1>3, <1>4, <1>5, [Next]_vars DEF Next, HostStep

\* Every slot the host looks at was written by this kernel.
LEMMA WholeCopy ==
    ASSUME Types, Quiet, SlotsKept, CopyKept, hpc \in Draining \cup {"report", "test"}
    PROVE  /\ copy = slots /\ nm = Drained /\ nm <= MaxMatches /\ nm <= nmatches /\ nm \in Nat
           /\ \A i \in Slots : i < nm => Written(i) /\ copy[i] \in found /\ copy[i][1] = kernel
           /\ \A i, j \in Slots : i < nm /\ j < nm /\ i # j => copy[i] # copy[j]
<1>1. copy = slots /\ nm = Drained
  BY DEF CopyKept
<1>2. nmatches \in Nat /\ MaxMatches \in Nat
  BY CudaAssumption DEF Types
<1>3. nm <= MaxMatches /\ nm <= nmatches /\ nm \in Nat
  BY <1>1, <1>2 DEF Drained
<1>4. \A t \in Threads : tpc[t] = "off"
  BY DEF Quiet, AfterKernel, KernelEnded
<1>5. \A i \in Slots : i < nm => Written(i)
  BY <1>2, <1>3, <1>4 DEF Written, Slots
<1>. QED
  BY <1>1, <1>3, <1>5 DEF SlotsKept

LEMMA OrderStep ==
    ASSUME Types, Quiet, Fresh, SlotsKept, CopyKept, InOrder, [Next]_vars
    PROVE  InOrder'
<1>. USE DEF threadVars, deviceVars, hostVars
<1>1. /\ \A i \in Slots : i \in Nat
      /\ hi \in Nat /\ nm \in Nat
      /\ \A c \in found : c \in Candidates
      /\ hpc \in Draining => hi \in Slots /\ hi < nm
  BY CudaAssumption DEF Types, Slots
<1>2. ASSUME NEW t \in Threads, ThreadStep(t) PROVE InOrder'
  <2>1. hpc \notin Draining \cup {"report", "test"}
    BY <1>2 DEF Quiet, KernelEnded, AfterKernel, ThreadStep, Head, NoMatch, Match, Claim, Store,
       Count, LastOne, BufferFull, At
  <2>2. UNCHANGED <<hpc, handled, kernel>> /\ found \subseteq found'
    BY <1>2 DEF ThreadStep, Head, NoMatch, Match, Claim, Store, Count, LastOne, BufferFull,
       histVars, searchVars
  <2>. QED
    BY <2>1, <2>2 DEF InOrder, Draining
<1>3. CASE Relaunch
  <2>1. \A c \in handled : c[1] # kernel'
    <3>1. kernel \in Nat /\ LastKernel \in Nat
          /\ \A c \in found : c[1] \in Nat /\ c[1] < LastKernel
      BY CudaAssumption DEF Types, Candidates, Kernels
    <3>2. kernel' = IF kernel < LastKernel THEN kernel + 1 ELSE kernel
      BY <1>3 DEF Relaunch, NextKernel
    <3>. QED
      BY <3>1, <3>2 DEF Fresh, InOrder
  <2>2. hpc' = "sleep" /\ UNCHANGED <<handled, found>>
    BY <1>3 DEF Relaunch, histVars, searchVars
  <2>. QED
    BY <2>1, <2>2 DEF InOrder
<1>4. CASE ReadMatches
  <2>1. /\ hpc = "read" /\ hi' = 0 /\ nm' = Drained /\ UNCHANGED <<handled, found, kernel>>
        /\ hpc' = IF Drained = 0 THEN "report" ELSE "finish"
    BY <1>4 DEF ReadMatches, histVars, searchVars
  <2>2. \A c \in Candidates : c[1] = kernel => c \notin handled
    BY <2>1 DEF InOrder
  <2>3. HandledAre(hi)' /\ (hpc' = "report" => HandledAre(nm)')
    BY <1>1, <2>1, <2>2 DEF HandledAre, Passed
  <2>. QED
    BY <2>1, <2>3 DEF InOrder
<1>5. CASE NextMatch /\ hpc \in {"ready", "output"} /\ handled' = handled
  <2>1. HandledAre(hi + 1) /\ hi \in Slots /\ hi < nm
    BY <1>1, <1>5 DEF InOrder, Draining
  <2>2. /\ hi' = hi + 1 /\ UNCHANGED <<nm, copy, kernel, found, handled>>
        /\ hpc' = IF hi + 1 < nm THEN "finish" ELSE "report"
    BY <1>5 DEF NextMatch, searchVars
  <2>3. HandledAre(hi)'
    BY <2>1, <2>2 DEF HandledAre, Passed
  <2>4. hpc' = "report" => HandledAre(nm)'
    <3>1. hpc' = "report" => hi + 1 = nm
      BY <1>1, <2>1, <2>2
    <3>. QED
      BY <2>1, <2>2, <3>1 DEF HandledAre, Passed
  <2>. QED
    BY <2>2, <2>3, <2>4 DEF InOrder
<1>6. ASSUME hpc = "finish", handled' = handled \cup {copy[hi]}, UNCHANGED <<copy, kernel, found>>
      PROVE  handled' \subseteq found' /\ \A c \in Candidates :
                c[1] = kernel => (c \in handled' <=> Passed(c, hi + 1))
  <2>1. HandledAre(hi) /\ hi \in Slots /\ hi < nm
    BY <1>1, <1>6 DEF InOrder, Draining
  <2>2. copy[hi] \in found
    BY <1>6, <2>1, WholeCopy DEF Draining
  <2>3. \A c : Passed(c, hi + 1) <=> Passed(c, hi) \/ c = copy[hi]
    BY <1>1, <2>1 DEF Passed
  <2>. QED
    BY <1>6, <2>1, <2>2, <2>3 DEF InOrder, HandledAre
<1>7. CASE FinishMatch
  <2>1. /\ hpc = "finish" /\ handled' = handled \cup {copy[hi]} /\ hpc' = "ready"
        /\ UNCHANGED <<copy, kernel, found, hi, nm>>
    BY <1>7 DEF FinishMatch, searchVars
  <2>. QED
    BY <1>6, <2>1 DEF InOrder, HandledAre, Passed
<1>8. CASE DropMatch
  <2>1. /\ hpc = "finish" /\ handled' = handled \cup {copy[hi]} /\ hi' = hi + 1
        /\ UNCHANGED <<copy, kernel, found, nm>>
        /\ hpc' = IF hi + 1 < nm THEN "finish" ELSE "report"
    BY <1>8 DEF DropMatch, NextMatch, searchVars
  <2>2. handled' \subseteq found' /\ HandledAre(hi)'
    BY <1>6, <2>1 DEF HandledAre, Passed
  <2>3. hpc' = "report" => hi + 1 = nm
    BY <1>1, <2>1 DEF Draining
  <2>4. hpc' = "report" => HandledAre(nm)'
    BY <2>1, <2>2, <2>3 DEF HandledAre, Passed
  <2>. QED
    BY <2>1, <2>2, <2>4 DEF InOrder
<1>9. CASE AcceptMatch \/ CheckQuota
  BY <1>9 DEF AcceptMatch, CheckQuota, histVars, searchVars, InOrder, HandledAre, Passed
<1>10. CASE RejectMatch
  <2>1. NextMatch /\ hpc = "ready" /\ handled' = handled
    BY <1>10 DEF RejectMatch, histVars
  <2>. QED
    BY ONLY <1>5, <2>1
<1>11. CASE OutputMatch
  <2>1. NextMatch /\ hpc = "output" /\ handled' = handled
    BY <1>11 DEF OutputMatch, histVars
  <2>. QED
    BY ONLY <1>5, <2>1
<1>12. CASE Poll \/ SleepOn \/ Flush \/ DeviceEnded \/ SetEnd \/ Synchronize
  BY <1>12 DEF Poll, SleepOn, Flush, DeviceEnded, SetEnd, Synchronize, histVars, searchVars,
     InOrder
<1>13. CASE Report \/ LeaveLoop \/ CleanUp \/ TermHandler
  BY <1>13 DEF Report, LeaveLoop, CleanUp, TermHandler, histVars, searchVars, InOrder,
     HandledAre, Passed
<1>14. CASE Terminated \/ UNCHANGED vars
  BY <1>14 DEF Terminated, vars, histVars, searchVars, InOrder, HandledAre, Passed
<1>. QED
  BY ONLY <1>2, <1>3, <1>4, <1>7, <1>8, <1>9, <1>10, <1>11, <1>12, <1>13, <1>14, [Next]_vars
     DEF Next, HostStep, Drain

LEMMA CountedStep ==
    ASSUME Types, Fresh, Counted, [Next]_vars
    PROVE  Counted'
<1>. USE DEF threadVars, deviceVars, searchVars, Goto
<1>1. /\ tpc \in [Threads -> ThreadPCs] /\ nmatches \in Nat
      /\ IsFiniteSet(Claiming) /\ IsFiniteSet(OfKernel)
      /\ Cardinality(Claiming) \in Nat /\ Cardinality(OfKernel) \in Nat
  <2>1. IsFiniteSet(Claiming) /\ IsFiniteSet(OfKernel)
    BY FS_Subset, CudaAssumption DEF Claiming, OfKernel, Counted
  <2>. QED
    BY <2>1, FS_CardinalityType DEF Types
<1>2. ASSUME NEW t \in Threads, Match(t) PROVE Counted'
  <2>. DEFINE c == <<kernel, t, n[t]>>
  <2>1. c \notin found /\ c[1] = kernel
    <3>1. n[t] \in Nat
      BY CudaAssumption DEF Types
    <3>. QED
      BY <3>1 DEF Fresh
  <2>2. /\ found' = found \cup {c} /\ UNCHANGED <<nmatches, kernel, hpc>> /\ hpc # "exited"
        /\ tpc[t] = "batch" /\ tpc' = [tpc EXCEPT ![t] = "claim"]
    BY <1>2 DEF Match, At, Running
  <2>. HIDE DEF c
  <2>3. OfKernel' = OfKernel \cup {c} /\ c \notin OfKernel
    BY <2>1, <2>2 DEF OfKernel
  <2>4. Claiming' = Claiming \cup {t} /\ t \notin Claiming
    BY <1>1, <2>2 DEF Claiming
  <2>5. IsFiniteSet(found')
    BY <2>2, FS_AddElement DEF Counted
  <2>6. Cardinality(OfKernel') = Cardinality(OfKernel) + 1
    BY <1>1, <2>3, FS_AddElement
  <2>7. Cardinality(Claiming') = Cardinality(Claiming) + 1
    BY <1>1, <2>4, FS_AddElement
  <2>. QED
    BY <1>1, <2>2, <2>5, <2>6, <2>7 DEF Counted
<1>3. ASSUME NEW t \in Threads, Claim(t) PROVE Counted'
  <2>1. /\ nmatches' = nmatches + 1 /\ UNCHANGED <<found, kernel, hpc>> /\ hpc # "exited"
        /\ tpc[t] = "claim" /\ tpc' = [tpc EXCEPT ![t] = "store"]
    BY <1>3 DEF Claim, At, Running
  <2>2. Claiming' = Claiming \ {t} /\ t \in Claiming
    BY <1>1, <2>1 DEF Claiming
  <2>3. Cardinality(Claiming') = Cardinality(Claiming) - 1
    BY <1>1, <2>2, FS_RemoveElement
  <2>4. OfKernel' = OfKernel
    BY <2>1 DEF OfKernel
  <2>. QED
    BY <1>1, <2>1, <2>3, <2>4 DEF Counted
<1>4. ASSUME NEW t \in Threads, ThreadStep(t), ~Match(t), ~Claim(t) PROVE Counted'
  <2>1. /\ UNCHANGED <<found, kernel, hpc, nmatches>>
        /\ \A u \in Threads : tpc'[u] = "claim" <=> tpc[u] = "claim"
    BY <1>1, <1>4 DEF ThreadStep, Head, NoMatch, Store, Count, LastOne, BufferFull, At
  <2>2. Claiming' = Claiming /\ OfKernel' = OfKernel
    BY <2>1 DEF Claiming, OfKernel
  <2>. QED
    BY <2>1, <2>2 DEF Counted
<1>5. CASE Relaunch
  <2>1. /\ nmatches' = 0 /\ found' = found /\ \A t \in Threads : tpc'[t] = "head"
        /\ kernel' = IF kernel < LastKernel THEN kernel + 1 ELSE kernel
    BY <1>5 DEF Relaunch, NextKernel
  <2>2. kernel \in Nat /\ LastKernel \in Nat /\ \A c \in found : c[1] \in Nat /\ c[1] < LastKernel
    BY CudaAssumption DEF Types, Candidates, Kernels
  <2>3. OfKernel' = {}
    BY <2>1, <2>2 DEF OfKernel, Fresh
  <2>4. Claiming' = {}
    BY <2>1 DEF Claiming
  <2>. QED
    BY <2>1, <2>3, <2>4, FS_EmptySet DEF Counted
<1>6. CASE CleanUp
  BY <1>6 DEF CleanUp, Counted
<1>7. CASE UNCHANGED <<tpc, found, kernel, nmatches>> /\ (hpc = "exited" => hpc' = "exited")
  <2>1. Claiming' = Claiming /\ OfKernel' = OfKernel
    BY <1>7 DEF Claiming, OfKernel
  <2>. QED
    BY <1>7, <2>1 DEF Counted
<1>8. ASSUME ~Relaunch, ~CleanUp, \A t \in Threads : ~ThreadStep(t)
      PROVE  hpc = "exited" => hpc' = "exited"
  BY <1>8, [Next]_vars DEF Next, HostStep, Poll, SleepOn, Flush, DeviceEnded, SetEnd, Synchronize,
     ReadMatches, Drain, DropMatch, RejectMatch, OutputMatch, FinishMatch, AcceptMatch,
     CheckQuota, Report, LeaveLoop, TermHandler, Terminated, vars
<1>. QED
  BY ONLY <1>2, <1>3, <1>4, <1>5, <1>6, <1>7, <1>8, HostLeaves, [Next]_vars

LEMMA BoundedStep ==
    ASSUME Types, Quiet, Bounded, [Next]_vars
    PROVE  Bounded'
<1>. USE DEF threadVars, deviceVars, searchVars, Goto
<1>1. /\ tpc \in [Threads -> ThreadPCs] /\ nmatches \in Nat /\ MaxMatches \in Nat \ {0}
      /\ tidx \in [Threads -> Nat] /\ n \in [Threads -> Nat] /\ dEnd \in BOOLEAN
      /\ IsFiniteSet(Over) /\ Cardinality(Over) \in Nat
  <2>1. IsFiniteSet(Over)
    BY FS_Subset, CudaAssumption DEF Over
  <2>. QED
    BY <2>1, FS_CardinalityType, CudaAssumption DEF Types
<1>2. ASSUME NEW t \in Threads, Match(t) PROVE Bounded'
  <2>1. /\ tpc[t] = "batch" /\ tpc' = [tpc EXCEPT ![t] = "claim"] /\ n' = [n EXCEPT ![t] = @ + 1]
        /\ UNCHANGED <<tidx, nmatches, dEnd>>
    BY <1>2 DEF Match, At
  <2>2. Over' = Over
    BY <1>1, <2>1 DEF Over
  <2>3. \A u \in Threads : /\ tpc'[u] = "head" => tpc[u] = "head"
                           /\ tpc'[u] = "claim" => n'[u] > 0
                           /\ tpc'[u] = "batch" => tpc[u] = "batch" /\ n'[u] = n[u]
    BY <1>1, <2>1 DEF Bounded
  <2>. QED
    BY <2>1, <2>2, <2>3 DEF Bounded, Over
<1>3. ASSUME NEW t \in Threads, Claim(t) PROVE Bounded'
  <2>1. /\ tpc[t] = "claim" /\ tpc' = [tpc EXCEPT ![t] = "store"] /\ n[t] > 0
        /\ tidx' = [tidx EXCEPT ![t] = nmatches] /\ nmatches' = nmatches + 1
        /\ UNCHANGED <<n, dEnd>>
    BY <1>3 DEF Claim, At, Bounded
  <2>2. Over' = IF nmatches >= MaxMatches THEN Over \cup {t} ELSE Over
    BY <1>1, <2>1 DEF Over
  <2>3. t \notin Over
    BY <2>1 DEF Over
  <2>4. nmatches + 1 <= MaxMatches + Cardinality(Over')
    <3>1. CASE nmatches >= MaxMatches
      <4>1. Cardinality(Over') = Cardinality(Over) + 1
        BY <1>1, <2>2, <2>3, <3>1, FS_AddElement
      <4>. QED
        BY <1>1, <4>1 DEF Bounded
    <3>2. CASE nmatches < MaxMatches
      <4>1. Over' = Over
        BY <1>1, <2>2, <3>2
      <4>. QED
        BY <1>1, <3>2, <4>1
    <3>. QED
      BY <1>1, <3>1, <3>2
  <2>5. \A u \in Threads : /\ tpc'[u] = "head" => tpc[u] = "head" /\ u # t
                           /\ tpc'[u] = "claim" => tpc[u] = "claim"
                           /\ tpc'[u] = "batch" => tpc[u] = "batch" /\ tidx'[u] = tidx[u]
    BY <1>1, <2>1
  <2>6. \A u \in Over' : tpc'[u] = "head" => dEnd'
    BY <2>1, <2>2, <2>5 DEF Bounded, Over
  <2>. QED
    BY <2>1, <2>4, <2>5, <2>6 DEF Bounded
<1>4. ASSUME NEW t \in Threads, Head(t) PROVE Bounded'
  <2>1. /\ tpc[t] = "head" /\ tpc' = [tpc EXCEPT ![t] = IF dEnd THEN "off" ELSE "batch"]
        /\ UNCHANGED <<n, tidx, nmatches, dEnd>>
    BY <1>4 DEF Head, At
  <2>2. Over' = Over
    BY <1>1, <2>1 DEF Over, Bounded
  <2>3. \A u \in Threads : /\ tpc'[u] = "head" => tpc[u] = "head"
                           /\ tpc'[u] = "claim" => tpc[u] = "claim"
                           /\ tpc'[u] = "batch" => tpc[u] = "batch" \/ u = t
    BY <1>1, <2>1
  <2>4. tpc'[t] = "batch" /\ n[t] > 0 => tidx[t] < MaxMatches
    <3>1. tpc'[t] = "batch" => ~dEnd
      BY <1>1, <2>1
    <3>2. tpc'[t] = "batch" => t \notin Over
      BY <2>1, <3>1 DEF Bounded
    <3>. QED
      BY <1>1, <2>1, <3>2 DEF Over
  <2>. QED
    BY <2>1, <2>2, <2>3, <2>4 DEF Bounded, Over
<1>5. ASSUME NEW t \in Threads, BufferFull(t) PROVE Bounded'
  <2>1. /\ tpc[t] = "full" /\ tpc' = [tpc EXCEPT ![t] = "head"]
        /\ dEnd \/ tidx[t] >= MaxMatches - 1 => dEnd'
        /\ UNCHANGED <<n, tidx, nmatches>>
    BY <1>5 DEF BufferFull, At
  <2>2. Over' = Over
    BY <1>1, <2>1 DEF Over
  <2>3. \A u \in Threads : /\ tpc'[u] = "head" => tpc[u] = "head" \/ u = t
                           /\ tpc'[u] = "claim" => tpc[u] = "claim"
                           /\ tpc'[u] = "batch" => tpc[u] = "batch"
    BY <1>1, <2>1
  <2>4. t \in Over => dEnd'
    <3>1. t \in Over => tidx[t] >= MaxMatches - 1
      BY <1>1 DEF Over
    <3>. QED
      BY <2>1, <3>1
  <2>. QED
    BY <2>1, <2>2, <2>3, <2>4 DEF Bounded, Over
<1>6. ASSUME NEW t \in Threads, NoMatch(t) PROVE Bounded'
  <2>1. /\ tpc[t] = "batch" /\ tpc' = [tpc EXCEPT ![t] = "head"]
        /\ UNCHANGED <<n, tidx, nmatches, dEnd>>
    BY <1>6 DEF NoMatch, At
  <2>2. n[t] > 0 => tidx[t] < MaxMatches
    BY <2>1 DEF Bounded
  <2>3. Over' = Over
    BY <1>1, <2>1, <2>2 DEF Over
  <2>4. \A u \in Threads : /\ tpc'[u] = "head" => tpc[u] = "head" \/ u = t
                           /\ tpc'[u] = "claim" => tpc[u] = "claim"
                           /\ tpc'[u] = "batch" => tpc[u] = "batch"
    BY <1>1, <2>1
  <2>5. t \notin Over
    BY <2>1 DEF Over
  <2>. QED
    BY <2>1, <2>3, <2>4, <2>5 DEF Bounded, Over
<1>7. ASSUME NEW t \in Threads, Store(t) \/ Count(t) \/ LastOne(t) PROVE Bounded'
  <2>1. /\ UNCHANGED <<n, tidx, nmatches>> /\ (dEnd => dEnd')
        /\ \A u \in Threads : /\ tpc'[u] = "claim" <=> tpc[u] = "claim"
                              /\ tpc'[u] = "batch" <=> tpc[u] = "batch"
                              /\ tpc'[u] = "head" <=> tpc[u] = "head"
    BY <1>1, <1>7 DEF Store, Count, LastOne, At
  <2>2. Over' = Over
    BY <2>1 DEF Over
  <2>. QED
    BY <2>1, <2>2 DEF Bounded, Over
<1>8. CASE Relaunch \/ CleanUp
  <2>1. /\ nmatches' = 0 /\ Over' \subseteq Threads
        /\ \A t \in Threads : (tpc'[t] = "head" => n'[t] = 0) /\ tpc'[t] \notin {"claim", "batch"}
    BY <1>8 DEF Relaunch, CleanUp, KernelEnded, Over
  <2>2. Cardinality(Over') \in Nat
    BY <2>1, FS_Subset, FS_CardinalityType, CudaAssumption
  <2>. QED
    BY <1>1, <2>1, <2>2 DEF Bounded, Over
<1>9. CASE UNCHANGED <<tpc, tidx, n, nmatches>> /\ (dEnd => dEnd')
  <2>1. Over' = Over
    BY <1>9 DEF Over
  <2>. QED
    BY <1>9, <2>1 DEF Bounded, Over
<1>10. ASSUME ~Relaunch, ~CleanUp, \A t \in Threads : ~ThreadStep(t) PROVE dEnd => dEnd'
  BY <1>10, [Next]_vars DEF Next, HostStep, Poll, SleepOn, Flush, DeviceEnded, SetEnd, Synchronize,
     ReadMatches, Drain, DropMatch, RejectMatch, OutputMatch, NextMatch, FinishMatch,
     AcceptMatch, CheckQuota, Report, LeaveLoop, TermHandler, Terminated, vars
<1>. QED
  BY ONLY <1>2, <1>3, <1>4, <1>5, <1>6, <1>7, <1>8, <1>9, <1>10, HostLeaves, [Next]_vars
     DEF ThreadStep

LEMMA EndStep ==
    ASSUME Types, EndKnown, [Next]_vars
    PROVE  EndKnown'
<1>. USE DEF EndKnown, mainVars, histVars
<1>1. ASSUME NEW t \in Threads, ThreadStep(t) PROVE EndKnown'
  BY <1>1 DEF ThreadStep, Head, NoMatch, Match, Claim, Store, Count, LastOne, BufferFull
<1>2. CASE CheckQuota
  <2>1. keysgenerated' = keysgenerated /\ interrupted' = interrupted /\ hpc' = "output"
    BY <1>2 DEF CheckQuota
  <2>2. endwork' => endwork \/ (NumNeed # 0 /\ keysgenerated = NumNeed)
    BY <1>2 DEF CheckQuota
  <2>. QED
    BY <2>1, <2>2
<1>3. CASE DropMatch \/ FinishMatch \/ RejectMatch \/ AcceptMatch \/ OutputMatch
  BY <1>3 DEF DropMatch, FinishMatch, RejectMatch, AcceptMatch, OutputMatch, NextMatch
<1>4. CASE Poll \/ SleepOn \/ Flush \/ DeviceEnded \/ SetEnd \/ Synchronize \/ ReadMatches
  BY <1>4 DEF Poll, SleepOn, Flush, DeviceEnded, SetEnd, Synchronize, ReadMatches
<1>5. CASE Report \/ LeaveLoop \/ Relaunch \/ CleanUp
  BY <1>5 DEF Report, LeaveLoop, Relaunch, CleanUp
<1>6. CASE TermHandler
  BY <1>6 DEF TermHandler
<1>7. CASE Terminated \/ UNCHANGED vars
  BY <1>7 DEF Terminated, vars
<1>. QED
  BY ONLY <1>1, <1>2, <1>3, <1>4, <1>5, <1>6, <1>7, [Next]_vars DEF Next, HostStep, Drain

\* What the host does with its matches in each step.
LEMMA AcceptingStep ==
    ASSUME Types, Quiet, SlotsKept, CopyKept, InOrder, Accepting, [Next]_vars
    PROVE  Accepting'
<1>. USE DEF mainVars, histVars, hostVars, deviceVars, Accepting
<1>1. /\ \A i \in Slots : i \in Nat
      /\ hi \in Nat /\ nm \in Nat /\ keysgenerated \in Nat
      /\ hpc \in Draining => hi \in Slots /\ hi < nm
  BY CudaAssumption DEF Types, Slots
<1>2. ASSUME NEW t \in Threads, ThreadStep(t) PROVE Accepting'
  <2>1. UNCHANGED <<hpc, hostVars, mainVars, histVars, kernel>>
    BY <1>2 DEF ThreadStep, Head, NoMatch, Match, Claim, Store, Count, LastOne, BufferFull
  <2>. QED
    BY <2>1 DEF Passed
<1>3. CASE AcceptMatch
  <2>. DEFINE c == copy[hi]
  <2>1. /\ hpc = "ready" /\ hpc' = "quota" /\ accepted' = accepted \cup {c}
        /\ keysgenerated' = IF NumNeed # 0 THEN keysgenerated + 1 ELSE keysgenerated
        /\ UNCHANGED <<hostVars, kernel, handled, settled>>
    BY <1>3 DEF AcceptMatch
  <2>2. hi \in Slots /\ hi < nm /\ hpc \in Draining
    BY <1>1, <2>1 DEF Draining
  <2>3. c[1] = kernel /\ \A j \in Slots : j < hi => copy[j] # c
    BY <1>1, <2>2, WholeCopy
  <2>4. c \notin accepted
    BY <2>1, <2>3 DEF Passed
  <2>5. IsFiniteSet(accepted') /\ Cardinality(accepted') = Cardinality(accepted) + 1
    BY <2>1, <2>4, FS_AddElement
  <2>6. \A d \in accepted' : d[1] = kernel' => Passed(d, hi + 1)'
    <3>1. \A d : Passed(d, hi) \/ d = c => Passed(d, hi + 1)
      BY <1>1, <2>2 DEF Passed
    <3>. QED
      BY <2>1, <3>1 DEF Passed
  <2>. QED
    BY <2>1, <2>4, <2>5, <2>6
<1>4. CASE OutputMatch
  <2>1. /\ hpc = "output" /\ settled' = settled \cup {copy[hi]} /\ hi' = hi + 1
        /\ hpc' = IF hi + 1 < nm THEN "finish" ELSE "report"
        /\ UNCHANGED <<nm, copy, kernel, accepted, handled, keysgenerated>>
    BY <1>4 DEF OutputMatch, NextMatch
  <2>. QED
    BY <2>1 DEF Passed
<1>5. CASE RejectMatch
  <2>1. /\ hpc = "ready" /\ hi' = hi + 1
        /\ hpc' = IF hi + 1 < nm THEN "finish" ELSE "report"
        /\ UNCHANGED <<nm, copy, kernel, accepted, settled, handled, keysgenerated>>
    BY <1>5 DEF RejectMatch, NextMatch
  <2>2. \A c : Passed(c, hi) => Passed(c, hi + 1)
    BY <1>1 DEF Passed
  <2>. QED
    BY <2>1, <2>2 DEF Passed
<1>6. CASE DropMatch
  <2>1. /\ hpc = "finish" /\ hi' = hi + 1 /\ handled' = handled \cup {copy[hi]}
        /\ hpc' = IF hi + 1 < nm THEN "finish" ELSE "report"
        /\ UNCHANGED <<nm, copy, kernel, accepted, settled, keysgenerated>>
    BY <1>6 DEF DropMatch, NextMatch
  <2>2. \A c : Passed(c, hi) => Passed(c, hi + 1)
    BY <1>1 DEF Passed
  <2>. QED
    BY <2>1, <2>2 DEF Passed
<1>7. CASE FinishMatch
  BY <1>7 DEF FinishMatch, Passed
<1>8. CASE CheckQuota
  BY <1>8 DEF CheckQuota, Passed
<1>9. CASE ReadMatches
  <2>1. /\ hpc = "read" /\ hpc' \in {"finish", "report"}
        /\ UNCHANGED <<kernel, accepted, settled, handled, keysgenerated>>
    BY <1>9 DEF ReadMatches
  <2>2. \A c \in accepted : c[1] # kernel
    BY <2>1 DEF InOrder
  <2>. QED
    BY <2>1, <2>2
<1>10. CASE Poll \/ SleepOn \/ Flush \/ DeviceEnded \/ SetEnd \/ Synchronize
  BY <1>10 DEF Poll, SleepOn, Flush, DeviceEnded, SetEnd, Synchronize
<1>11. CASE Report \/ LeaveLoop \/ Relaunch \/ CleanUp
  BY <1>11 DEF Report, LeaveLoop, Relaunch, CleanUp
<1>12. CASE TermHandler
  BY <1>12 DEF TermHandler, Passed
<1>13. CASE Terminated \/ UNCHANGED vars
  BY <1>13 DEF Terminated, vars, Passed
<1>. QED
  BY ONLY <1>2, <1>3, <1>4, <1>5, <1>6, <1>7, <1>8, <1>9, <1>10, <1>11, <1>12, <1>13, [Next]_vars
     DEF Next, HostStep, Drain

LEMMA InvInit == Init => IInv
<1> SUFFICES ASSUME Init PROVE IInv
    OBVIOUS
<1>. USE CudaAssumption DEF Init
<1>1. Types
  <2>1. remaining \in 0 .. Wrap - 1 /\ kernel \in Kernels /\ nm \in 0 .. MaxMatches /\ hi \in 0 .. MaxMatches
    BY DEF Kernels
  <2>2. /\ tpc \in [Threads -> ThreadPCs] /\ tkey \in [Threads -> Candidates \cup {Unwritten}]
        /\ tidx \in [Threads -> Nat] /\ n \in [Threads -> 0 .. MatchesEach]
        /\ slots \in [Slots -> Candidates \cup {Unwritten}] /\ copy = slots
    BY DEF ThreadPCs
  <2>3. hpc \in HostPCs /\ hpc \notin Draining
    BY DEF HostPCs, Draining
  <2>. QED
    BY <2>1, <2>2, <2>3 DEF Types
<1>2. Quiet /\ Fresh /\ Hands /\ CopyKept /\ InOrder /\ EndKnown
  BY DEF Quiet, AfterKernel, Draining, Fresh, Hands, Holding, CopyKept, InOrder, EndKnown
<1>3. SlotsKept
  BY DEF SlotsKept, Written, Slots, Holding
<1>4. Counted /\ Accepting
  <2>1. OfKernel = {} /\ Claiming = {}
    BY DEF OfKernel, Claiming
  <2>. QED
    BY <2>1, FS_EmptySet DEF Counted, Accepting
<1>5. Bounded
  <2>1. Over = {}
    BY DEF Over
  <2>. QED
    BY <2>1, FS_EmptySet DEF Bounded
<1>. QED
  BY ONLY <1>1, <1>2, <1>3, <1>4, <1>5 DEF IInv

LEMMA InvStep == IInv /\ [Next]_vars => IInv'
<1> SUFFICES ASSUME IInv, [Next]_vars PROVE IInv'
    OBVIOUS
<1>1. /\ Types /\ Quiet /\ Fresh /\ Hands /\ SlotsKept /\ CopyKept /\ InOrder
      /\ Counted /\ Bounded /\ EndKnown /\ Accepting
  BY DEF IInv
<1>2. Types' /\ Quiet' /\ Fresh' /\ Hands' /\ SlotsKept'
  BY <1>1, TypesStep, QuietStep, FreshStep, HandsStep, SlotsStep
<1>3. CopyKept' /\ InOrder' /\ Counted' /\ Bounded' /\ EndKnown' /\ Accepting'
  BY <1>1, CopyStep, OrderStep, CountedStep, BoundedStep, EndStep, AcceptingStep
<1>. QED
  BY <1>2, <1>3 DEF IInv

THEOREM CudaInvariant == Spec => []IInv
BY InvInit, InvStep, PTL DEF Spec

\* Every variable has its type.
THEOREM CudaTypes == Spec => []TypeOK
<1>1. IInv => TypeOK
  BY DEF IInv, Types, TypeOK, ThreadPCs, HostPCs, AfterKernel, Draining
<1>. QED
  BY <1>1, CudaInvariant, PTL

\* No kernel searches again what an earlier one did (cuda_worker.cu:341).
THEOREM CudaSearchedOnce == Spec => []SearchedOnce
<1>1. IInv => SearchedOnce
  BY DEF IInv, Fresh, SearchedOnce
<1>. QED
  BY <1>1, CudaInvariant, PTL

\* No slot is taken before it is written (cuda_worker.cu:139-146, 305-313).
THEOREM CudaDrainedWhole == Spec => []DrainedWhole
<1>1. IInv => DrainedWhole
  <2>1. SUFFICES ASSUME IInv, hpc \in Draining, NEW i \in 0 .. nm - 1
                 PROVE  copy[i] \in found /\ copy[i][1] = kernel
    BY DEF DrainedWhole, Draining
  <2>2. nm <= MaxMatches /\ nm \in Nat
    BY <2>1, WholeCopy DEF IInv
  <2>3. i \in Slots /\ i < nm
    BY <2>2, CudaAssumption DEF Slots
  <2>. QED
    BY <2>1, <2>3, WholeCopy DEF IInv
<1>. QED
  BY <1>1, CudaInvariant, PTL

\* Only matches without a slot are lost (cuda_worker.cu:139-146, 311-341).
THEOREM CudaNothingForgotten == Spec => []NothingForgotten
<1>1. IInv => NothingForgotten
  <2>1. SUFFICES ASSUME IInv, hpc = "test"
                 PROVE  Cardinality(OfKernel \ handled) = nmatches - Drained
    BY DEF NothingForgotten, OfKernel
  <2>. DEFINE taken == {copy[i] : i \in 0 .. nm - 1}
  <2>2. /\ nm = Drained /\ nm <= MaxMatches /\ nm <= nmatches /\ nm \in Nat
        /\ \A i \in Slots : i < nm => copy[i] \in found /\ copy[i][1] = kernel
        /\ \A i, j \in Slots : i < nm /\ j < nm /\ i # j => copy[i] # copy[j]
    BY <2>1, WholeCopy DEF IInv
  <2>3. 0 .. nm - 1 \subseteq Slots /\ \A i \in Slots : i < nm <=> i \in 0 .. nm - 1
    BY <2>2, CudaAssumption DEF Slots
  <2>4. Cardinality(taken) = nm
    <3>. DEFINE f == [i \in 0 .. nm - 1 |-> copy[i]]
    <3>1. f \in Bijection(0 .. nm - 1, taken)
      <4>1. f \in Injection(0 .. nm - 1, taken)
        BY <2>2, <2>3 DEF Injection, IsInjective
      <4>2. f \in Surjection(0 .. nm - 1, taken)
        BY DEF Surjection
      <4>. QED
        BY <4>1, <4>2 DEF Bijection
    <3>2. ExistsBijection(0 .. nm - 1, taken)
      BY <3>1 DEF ExistsBijection
    <3>3. IsFiniteSet(0 .. nm - 1) /\ Cardinality(0 .. nm - 1) = nm
      BY <2>2, FS_Interval
    <3>. QED
      BY ONLY <3>2, <3>3, FS_Bijection
  <2>5. OfKernel \cap handled = taken
    <3>1. \A c \in OfKernel : c \in handled <=> Passed(c, nm)
      BY <2>1 DEF IInv, InOrder, HandledAre, OfKernel, Types
    <3>2. \A c : Passed(c, nm) <=> c \in taken
      BY <2>3 DEF Passed
    <3>3. taken \subseteq OfKernel
      BY <2>2, <2>3 DEF OfKernel
    <3>. QED
      BY <3>1, <3>2, <3>3
  <2>6. IsFiniteSet(OfKernel) /\ Cardinality(OfKernel) = nmatches
    <3>1. Claiming = {}
      BY <2>1 DEF IInv, Quiet, AfterKernel, KernelEnded, Claiming
    <3>2. Cardinality(Claiming) = 0
      BY <3>1, FS_EmptySet
    <3>3. IsFiniteSet(OfKernel)
      BY <2>1, FS_Subset DEF IInv, Counted, OfKernel
    <3>4. nmatches \in Nat
      BY <2>1 DEF IInv, Types
    <3>. QED
      BY <2>1, <3>2, <3>3, <3>4 DEF IInv, Counted
  <2>. HIDE DEF taken
  <2>. QED
    BY <2>2, <2>4, <2>5, <2>6, FS_Difference
<1>. QED
  BY <1>1, CudaInvariant, PTL

\* A full buffer ends the kernel before a thread matches once more
\* (cuda_worker.cu:140, 151).
THEOREM CudaFewMatchesLost == Spec => []FewMatchesLost
<1>1. IInv => FewMatchesLost
  <2>1. SUFFICES ASSUME IInv PROVE nmatches <= MaxMatches + Cardinality(Threads)
    BY DEF FewMatchesLost
  <2>2. Cardinality(Over) <= Cardinality(Threads)
    BY FS_Subset, CudaAssumption DEF Over
  <2>3. IsFiniteSet(Over)
    BY FS_Subset, CudaAssumption DEF Over
  <2>4. Cardinality(Over) \in Nat /\ Cardinality(Threads) \in Nat
    BY <2>3, FS_CardinalityType, CudaAssumption
  <2>5. nmatches \in Nat /\ MaxMatches \in Nat /\ nmatches <= MaxMatches + Cardinality(Over)
    BY <2>1, CudaAssumption DEF IInv, Types, Bounded
  <2>. QED
    BY <2>2, <2>4, <2>5
<1>. QED
  BY <1>1, CudaInvariant, PTL

\* The run ends because it was told to, or has its keys (cuda_worker.cu:148, 336).
THEOREM CudaEndsOnlyWhenDone == Spec => []EndsOnlyWhenDone
<1>1. IInv => EndsOnlyWhenDone
  BY DEF IInv, EndKnown, EndsOnlyWhenDone
<1>. QED
  BY <1>1, CudaInvariant, PTL

(***************************************************************************)
(* The CUDA mode implements KeySearch.                                     *)
(***************************************************************************)

LEMMA PromiseCardinality == ASSUME NEW S PROVE Promise!Cardinality(S) = Cardinality(S)
BY DEF Promise!Cardinality, Cardinality

LEMMA PromiseStep ==
    ASSUME IInv, [Next]_vars
    PROVE  [Promise!Next]_(Promise!svars)
<1>. USE DEF Promise!svars, Phase, Running, mainVars, histVars, hostVars
<1>1. ASSUME NEW t \in Threads, ThreadStep(t) PROVE UNCHANGED Promise!svars
  BY <1>1 DEF ThreadStep, Head, NoMatch, Match, Claim, Store, Count, LastOne, BufferFull
<1>2. CASE AcceptMatch
  <2>1. /\ hpc = "ready" /\ ~endwork /\ accepted' = accepted \cup {copy[hi]}
        /\ NumNeed # 0 => keysgenerated < NumNeed
        /\ UNCHANGED <<settled, endwork, late, Phase>> /\ Phase = "running"
    BY <1>2 DEF AcceptMatch
  <2>2. hi \in Slots /\ hi < nm /\ hpc \in Draining
    BY <2>1, CudaAssumption DEF IInv, Types, Draining, Slots
  <2>3. copy[hi] \in Candidates /\ copy[hi][1] = kernel
        /\ \A j \in Slots : j < nm /\ j # hi => copy[j] # copy[hi]
    BY <2>2, WholeCopy DEF IInv, Types
  <2>4. copy[hi] \notin accepted
    <3>1. hi \in Nat /\ nm \in Nat /\ \A j \in Slots : j \in Nat
      BY CudaAssumption DEF IInv, Types, Slots
    <3>2. ~Passed(copy[hi], hi)
      BY <2>2, <2>3, <3>1 DEF Passed
    <3>. QED
      BY <2>1, <2>3, <3>2 DEF IInv, Accepting
  <2>5. NumNeed # 0 => Cardinality(accepted) < NumNeed
    BY <2>1 DEF IInv, Accepting
  <2>6. Promise!Accept(Host, copy[hi])
    BY <2>1, <2>4, <2>5, PromiseCardinality DEF Promise!Accept, Promise!Limited
  <2>. QED
    BY <2>3, <2>6 DEF Promise!Next
<1>3. CASE OutputMatch
  <2>1. /\ hpc = "output" /\ hpc' # "exited" /\ settled' = settled \cup {copy[hi]}
        /\ UNCHANGED <<accepted, endwork, late>>
    BY <1>3 DEF OutputMatch, NextMatch
  <2>2. copy[hi] \in accepted \ settled
    BY <2>1 DEF IInv, Accepting
  <2>3. copy[hi] \in Candidates
    BY <2>1, <2>2 DEF IInv, Accepting, InOrder, Types
  <2>4. Promise!Settle(copy[hi])
    BY <2>1, <2>2 DEF Promise!Settle
  <2>. QED
    BY <2>3, <2>4 DEF Promise!Next
<1>4. CASE CheckQuota \/ TermHandler
  <2>1. endwork \in BOOLEAN /\ endwork' \in BOOLEAN /\ (endwork => endwork')
    BY <1>4 DEF CheckQuota, TermHandler, IInv, Types
  <2>2. Phase = "running" /\ UNCHANGED <<accepted, settled, late, Phase>>
    BY <1>4 DEF CheckQuota, TermHandler
  <2>3. CASE endwork'
    <3>1. endwork' = TRUE
      BY <2>1, <2>3
    <3>. QED
      BY <2>2, <3>1 DEF Promise!RequestEnd, Promise!Next
  <2>4. CASE ~endwork'
    BY <2>1, <2>2, <2>4
  <2>. QED
    BY <2>3, <2>4
<1>5. CASE CleanUp
  <2>1. endwork /\ settled = accepted
    BY <1>5 DEF CleanUp, IInv, EndKnown, Accepting
  <2>2. hpc = "cleanup" /\ hpc' = "exited" /\ UNCHANGED <<accepted, settled, endwork, late>>
    BY <1>5 DEF CleanUp
  <2>. QED
    BY <2>1, <2>2 DEF Promise!Finish, Promise!Next
<1>6. CASE DropMatch \/ FinishMatch \/ RejectMatch
  BY <1>6 DEF DropMatch, FinishMatch, RejectMatch, NextMatch
<1>7. CASE Poll \/ SleepOn \/ Flush \/ DeviceEnded \/ SetEnd \/ Synchronize \/ ReadMatches
  BY <1>7 DEF Poll, SleepOn, Flush, DeviceEnded, SetEnd, Synchronize, ReadMatches
<1>8. CASE Report \/ LeaveLoop \/ Relaunch
  BY <1>8 DEF Report, LeaveLoop, Relaunch
<1>9. CASE Terminated \/ UNCHANGED vars
  BY <1>9 DEF Terminated, vars
<1>. QED
  BY ONLY <1>1, <1>2, <1>3, <1>4, <1>5, <1>6, <1>7, <1>8, <1>9, [Next]_vars
     DEF Next, HostStep, Drain

\* Kernel, match buffer and host loop together implement the abstract search
\* (cuda_worker.cu:110-151, 260-350 and worker.c:76-143 against KeySearch).
THEOREM CudaKeepsPromise == Spec => KeepsPromise
<1>1. Init => Promise!Init
  BY DEF Init, Promise!Init, Phase, Running
<1>2. IInv /\ [Next]_vars => [Promise!Next]_(Promise!svars)
  BY PromiseStep
<1>. QED
  BY <1>1, <1>2, CudaInvariant, PTL DEF Spec, KeepsPromise, Promise!Spec
=============================================================================
