----------------------------- MODULE CudaWorker -----------------------------
(***************************************************************************)
(* The --cuda mode: the threads of mine_kernel on the device, and the host *)
(* loop of cuda_worker_run that launches the kernel, waits for it, takes   *)
(* its matches through worker_finish_match to onionready and launches it   *)
(* again (cuda_worker.cu, worker.c:267-308, 76-143).                       *)
(*                                                                         *)
(* CUDA is external.  Atomics are atomic, a kernel has ended when all its  *)
(* threads have, and a copy or memset in the default stream only begins    *)
(* then: that is how the program is built (ordered).  The polling of the   *)
(* host loop supposes that they run beside the kernel (~ordered).  A       *)
(* behaviour has one of the two, as the build of CUDA has.                 *)
(*                                                                         *)
(* A candidate is <<kernel, thread, n>>, the n-th match of a thread whose  *)
(* generator was seeded for that kernel: the same seed gives it again.     *)
(***************************************************************************)
EXTENDS Integers, FiniteSets

CONSTANTS
    Threads,       \* threads of the kernel
    NumNeed,       \* numneedgenerate; 0 is unlimited
    MaxMatches,    \* CUDA_MAX_MATCHES, the size of the match buffer
    Wrap,          \* 2^64: *d_remaining is counted modulo it
    Orders,        \* the values of ordered to look at
    MatchesEach,   \* bound: matches of a thread in one kernel
    LastKernel,    \* bound: this kernel and later ones match nothing
    Host, Unwritten

Kernels == 0 .. LastKernel
Candidates == (0 .. LastKernel - 1) \X Threads \X (0 .. MatchesEach - 1)
Slots == 0 .. MaxMatches - 1

ASSUME CudaAssumption ==
    /\ IsFiniteSet(Threads)
    /\ NumNeed \in Nat /\ MaxMatches \in Nat \ {0}
    /\ MatchesEach \in Nat /\ LastKernel \in Nat
    /\ Wrap \in Nat /\ Wrap > NumNeed + 1
    /\ Orders \subseteq BOOLEAN
    /\ Unwritten \notin Candidates

VARIABLES
    ordered,             \* copies wait for the kernel; never changes
    tpc, tkey, tidx, n,  \* each thread: where it is, its match, slot, count
    dEnd,          \* *d_endwork
    nmatches,      \* *d_nmatches
    remaining,     \* *d_remaining
    slots,         \* d_matches
    kernel,        \* g_seedoff, counted from the first launch
    hpc,           \* where the host is
    devEnd,        \* dev_end
    nm, copy, hi,  \* matches to drain, g_hmatches, the loop over them
    endwork,
    keysgenerated,
    found,         \* history: candidates that matched
    again,         \* history: one of them matched a second time
    handled,       \* history: candidates worker_finish_match was called for
    accepted, settled, late, interrupted  \* history, as in WorkerPool

threadVars == <<tpc, tkey, tidx, n>>
deviceVars == <<dEnd, nmatches, remaining, slots, kernel>>
hostVars == <<devEnd, nm, copy, hi>>
mainVars == <<endwork, keysgenerated>>
searchVars == <<ordered, found, again>>
histVars == <<handled, accepted, settled, late, interrupted>>
vars == <<threadVars, deviceVars, hpc, hostVars, mainVars, searchVars, histVars>>

Init ==
    /\ ordered \in Orders
    /\ tpc = [t \in Threads |-> "head"]
    /\ tkey = [t \in Threads |-> Unwritten]
    /\ tidx = [t \in Threads |-> 0]
    /\ n = [t \in Threads |-> 0]
    /\ dEnd = FALSE
    /\ nmatches = 0
    /\ remaining = IF NumNeed # 0 THEN NumNeed ELSE Wrap - 1
    /\ slots = [i \in Slots |-> Unwritten]
    /\ kernel = 0
    /\ hpc = "sleep"
    /\ devEnd = FALSE
    /\ nm = 0 /\ copy = slots /\ hi = 0
    /\ endwork = FALSE
    /\ keysgenerated = 0
    /\ found = {} /\ again = FALSE
    /\ handled = {} /\ accepted = {} /\ settled = {}
    /\ late = [h \in {Host} |-> 0]
    /\ interrupted = FALSE

Running == hpc # "exited"
KernelEnded == \A t \in Threads : tpc[t] = "off"
MayCopy == ordered => KernelEnded

(***************************************************************************)
(* mine_kernel.                                                            *)
(***************************************************************************)

At(t, l) == Running /\ tpc[t] = l
Goto(t, l) == tpc' = [tpc EXCEPT ![t] = l]


\* The head of the loop: *d_endwork is read once per seed.
Head(t) ==
    /\ At(t, "head")
    /\ Goto(t, IF dEnd THEN "off" ELSE "batch")
    /\ UNCHANGED <<tkey, tidx, n, deviceVars, hpc, hostVars, mainVars, searchVars, histVars>>

NoMatch(t) ==
    /\ At(t, "batch")
    /\ Goto(t, "head")
    /\ UNCHANGED <<tkey, tidx, n, deviceVars, hpc, hostVars, mainVars, searchVars, histVars>>

\* A key of the batch passes the filters; the rest of the batch is skipped.
Match(t) ==
    /\ At(t, "batch")
    /\ n[t] < MatchesEach /\ kernel < LastKernel
    /\ LET c == <<kernel, t, n[t]>> IN
          /\ tkey' = [tkey EXCEPT ![t] = c]
          /\ found' = found \cup {c}
          /\ again' = (again \/ c \in found)
    /\ n' = [n EXCEPT ![t] = @ + 1]
    /\ Goto(t, "claim")
    /\ UNCHANGED <<ordered, tidx, deviceVars, hpc, hostVars, mainVars, histVars>>

\* Mutant of Claim: the slot is read and then counted, without an atomic.
ClaimShared(t) ==
    /\ At(t, "claim")
    /\ tidx' = [tidx EXCEPT ![t] = nmatches]
    /\ nmatches' \in {nmatches, nmatches + 1}
    /\ Goto(t, "store")
    /\ UNCHANGED <<tkey, n, dEnd, remaining, slots, kernel, hpc, hostVars, mainVars,
                   searchVars, histVars>>

\* atomicAdd(d_nmatches, 1)
Claim(t) ==
    /\ At(t, "claim")
    /\ tidx' = [tidx EXCEPT ![t] = nmatches]
    /\ nmatches' = nmatches + 1
    /\ Goto(t, "store")
    /\ UNCHANGED <<tkey, n, dEnd, remaining, slots, kernel, hpc, hostVars, mainVars,
                   searchVars, histVars>>

\* A match that has no slot is lost.
Store(t) ==
    /\ At(t, "store")
    /\ slots' = IF tidx[t] < MaxMatches THEN [slots EXCEPT ![tidx[t]] = tkey[t]] ELSE slots
    /\ Goto(t, "count")
    /\ UNCHANGED <<tkey, tidx, n, dEnd, nmatches, remaining, kernel, hpc, hostVars,
                   mainVars, searchVars, histVars>>

\* atomicAdd(d_remaining, -1) gives the old value.
Count(t) ==
    /\ At(t, "count")
    /\ remaining' = (remaining + Wrap - 1) % Wrap
    /\ Goto(t, IF remaining <= 1 THEN "last" ELSE "full")
    /\ UNCHANGED <<tkey, tidx, n, dEnd, nmatches, slots, kernel, hpc, hostVars, mainVars,
                   searchVars, histVars>>

LastOne(t) ==
    /\ At(t, "last")
    /\ dEnd' = TRUE
    /\ Goto(t, "full")
    /\ UNCHANGED <<tkey, tidx, n, nmatches, remaining, slots, kernel, hpc, hostVars,
                   mainVars, searchVars, histVars>>

\* Mutant of BufferFull: the kernel does not end when the buffer is full.
BufferFullIgnored(t) ==
    /\ At(t, "full")
    /\ Goto(t, "head")
    /\ UNCHANGED <<tkey, tidx, n, deviceVars, hpc, hostVars, mainVars, searchVars, histVars>>

BufferFull(t) ==
    /\ At(t, "full")
    /\ dEnd' = (dEnd \/ tidx[t] >= MaxMatches - 1)
    /\ Goto(t, "head")
    /\ UNCHANGED <<tkey, tidx, n, nmatches, remaining, slots, kernel, hpc, hostVars,
                   mainVars, searchVars, histVars>>

ThreadStep(t) ==
    \/ Head(t) \/ NoMatch(t) \/ Match(t)
    \/ Claim(t) \/ Store(t) \/ Count(t) \/ LastOne(t) \/ BufferFull(t)

(***************************************************************************)
(* cuda_worker_run.                                                        *)
(***************************************************************************)

Poll ==
    /\ hpc = "sleep"
    /\ MayCopy
    /\ devEnd' = dEnd
    /\ hpc' = "decide"
    /\ UNCHANGED <<threadVars, deviceVars, nm, copy, hi, mainVars, searchVars, histVars>>

\* Less than half a second since the launch and nothing else to do.
SleepOn ==
    /\ hpc = "decide"
    /\ ~devEnd /\ ~endwork
    /\ hpc' = "sleep"
    /\ UNCHANGED <<threadVars, deviceVars, hostVars, mainVars, searchVars, histVars>>

\* The half second is over, or endwork is set: the kernel is told to end.
Flush ==
    /\ hpc = "decide"
    /\ ~devEnd
    /\ hpc' = "setend"
    /\ UNCHANGED <<threadVars, deviceVars, hostVars, mainVars, searchVars, histVars>>

DeviceEnded ==
    /\ hpc = "decide"
    /\ devEnd
    /\ hpc' = "synchronize"
    /\ UNCHANGED <<threadVars, deviceVars, hostVars, mainVars, searchVars, histVars>>

SetEnd ==
    /\ hpc = "setend"
    /\ MayCopy
    /\ dEnd' = TRUE
    /\ hpc' = "synchronize"
    /\ UNCHANGED <<threadVars, nmatches, remaining, slots, kernel, hostVars, mainVars,
                   searchVars, histVars>>

\* Mutant of Synchronize: the end of the kernel is not waited for.
SynchronizeNot ==
    /\ hpc = "synchronize"
    /\ hpc' = "read"
    /\ UNCHANGED <<threadVars, deviceVars, hostVars, mainVars, searchVars, histVars>>

Synchronize ==
    /\ hpc = "synchronize"
    /\ KernelEnded
    /\ hpc' = "read"
    /\ UNCHANGED <<threadVars, deviceVars, hostVars, mainVars, searchVars, histVars>>

\* Mutant of Drained: the last slot of a full buffer is left out.
DrainedShort == IF nmatches >= MaxMatches THEN MaxMatches - 1 ELSE nmatches

\* nm is clamped to the buffer.
Drained == IF nmatches > MaxMatches THEN MaxMatches ELSE nmatches

ReadMatches ==
    /\ hpc = "read"
    /\ MayCopy
    /\ nm' = Drained
    /\ copy' = slots
    /\ hi' = 0
    /\ hpc' = IF Drained = 0 THEN "report" ELSE "finish"
    /\ UNCHANGED <<threadVars, deviceVars, devEnd, mainVars, searchVars, histVars>>

\* The next turn of the loop of drain_matches.
NextMatch ==
    /\ hi' = hi + 1
    /\ hpc' = IF hi + 1 < nm THEN "finish" ELSE "report"
    /\ UNCHANGED <<threadVars, deviceVars, devEnd, nm, copy, searchVars>>

\* worker_finish_match drops the match: endwork is set, or the scalar is not
\* clamped any more once the batch offset is added.
DropMatch ==
    /\ hpc = "finish"
    /\ handled' = handled \cup {copy[hi]}
    /\ NextMatch
    /\ UNCHANGED <<mainVars, accepted, settled, late, interrupted>>

FinishMatch ==
    /\ hpc = "finish" /\ ~endwork
    /\ handled' = handled \cup {copy[hi]}
    /\ hpc' = "ready"
    /\ UNCHANGED <<threadVars, deviceVars, hostVars, mainVars, searchVars, accepted,
                   settled, late, interrupted>>

\* onionready drops the match: endwork was set, or the limit is reached.
RejectMatch ==
    /\ hpc = "ready"
    /\ endwork \/ (NumNeed # 0 /\ keysgenerated >= NumNeed)
    /\ NextMatch
    /\ UNCHANGED <<mainVars, histVars>>

\* Mutant of AcceptMatch: the limit is left to the counter of the device.
AcceptMatchUncounted ==
    /\ hpc = "ready" /\ ~endwork
    /\ accepted' = accepted \cup {copy[hi]}
    /\ hpc' = "quota"
    /\ UNCHANGED <<threadVars, deviceVars, hostVars, mainVars, searchVars, handled,
                   settled, late, interrupted>>

\* Counted under keysgenerated_mutex, which no other thread locks in this mode.
AcceptMatch ==
    /\ hpc = "ready" /\ ~endwork
    /\ NumNeed # 0 => keysgenerated < NumNeed
    /\ keysgenerated' = IF NumNeed # 0 THEN keysgenerated + 1 ELSE keysgenerated
    /\ accepted' = accepted \cup {copy[hi]}
    /\ hpc' = "quota"
    /\ UNCHANGED <<threadVars, deviceVars, hostVars, endwork, searchVars, handled, settled,
                   late, interrupted>>

CheckQuota ==
    /\ hpc = "quota"
    /\ endwork' = (endwork \/ (NumNeed # 0 /\ keysgenerated = NumNeed))
    /\ hpc' = "output"
    /\ UNCHANGED <<threadVars, deviceVars, hostVars, keysgenerated, searchVars, histVars>>

\* The rest of onionready: the files of the key, or the error.
OutputMatch ==
    /\ hpc = "output"
    /\ settled' = settled \cup {copy[hi]}
    /\ NextMatch
    /\ UNCHANGED <<mainVars, handled, accepted, late, interrupted>>

\* Statistics are due or not; a copy of *d_numcalc if they are.
Report ==
    /\ hpc = "report"
    /\ MayCopy
    /\ hpc' = "test"
    /\ UNCHANGED <<threadVars, deviceVars, hostVars, mainVars, searchVars, histVars>>

\* Mutant of LeaveLoop: the end of the kernel is taken for the end of the run.
LeaveLoopEarly ==
    /\ hpc = "test" /\ (endwork \/ devEnd)
    /\ hpc' = "cleanup"
    /\ UNCHANGED <<threadVars, deviceVars, hostVars, mainVars, searchVars, histVars>>

LeaveLoop ==
    /\ hpc = "test" /\ endwork
    /\ hpc' = "cleanup"
    /\ UNCHANGED <<threadVars, deviceVars, hostVars, mainVars, searchVars, histVars>>

\* Mutant of NextKernel: g_seedoff is not advanced.
NextKernelSame == kernel

NextKernel == IF kernel < LastKernel THEN kernel + 1 ELSE kernel

\* Two memsets and the launch; *d_remaining keeps its count.
Relaunch ==
    /\ hpc = "test" /\ ~endwork
    /\ MayCopy
    /\ nmatches' = 0
    /\ dEnd' = FALSE
    /\ kernel' = NextKernel
    /\ tpc' = [t \in Threads |-> "head"]
    /\ n' = [t \in Threads |-> 0]
    /\ hpc' = "sleep"
    /\ UNCHANGED <<tkey, tidx, remaining, slots, hostVars, mainVars, searchVars, histVars>>

CleanUp ==
    /\ hpc = "cleanup"
    /\ KernelEnded
    /\ dEnd' = FALSE
    /\ nmatches' = 0
    /\ hpc' = "exited"
    /\ UNCHANGED <<threadVars, remaining, slots, kernel, hostVars, mainVars, searchVars,
                   histVars>>

TermHandler ==
    /\ Running
    /\ endwork' = TRUE
    /\ interrupted' = TRUE
    /\ UNCHANGED <<threadVars, deviceVars, hpc, hostVars, keysgenerated, searchVars, handled,
                   accepted, settled, late>>

Terminated == ~Running /\ UNCHANGED vars

Drain == DropMatch \/ FinishMatch \/ RejectMatch \/ AcceptMatch \/ CheckQuota \/ OutputMatch

HostStep ==
    \/ Poll \/ SleepOn \/ Flush \/ DeviceEnded \/ SetEnd \/ Synchronize \/ ReadMatches
    \/ Drain
    \/ Report \/ LeaveLoop \/ Relaunch \/ CleanUp

Next ==
    \/ \E t \in Threads : ThreadStep(t)
    \/ HostStep
    \/ TermHandler
    \/ Terminated

Spec == Init /\ [][Next]_vars

\* The device runs every thread of a kernel (the grid is no larger than what is
\* resident at once), the host runs, and a half second ends.
Fairness ==
    /\ \A t \in Threads : WF_vars(ThreadStep(t))
    /\ WF_vars(HostStep)
    /\ SF_vars(Flush)

FairSpec == Spec /\ Fairness

(***************************************************************************)
(* Properties.                                                             *)
(***************************************************************************)

\* Every variable has its type.
TypeOK ==
    /\ tpc \in [Threads -> {"head", "batch", "claim", "store", "count", "last", "full", "off"}]
    /\ tkey \in [Threads -> Candidates \cup {Unwritten}]
    /\ tidx \in [Threads -> Nat]
    /\ n \in [Threads -> 0 .. MatchesEach]
    /\ {ordered, dEnd, devEnd, endwork, again, interrupted} \subseteq BOOLEAN
    /\ nmatches \in Nat /\ keysgenerated \in Nat
    /\ remaining \in 0 .. Wrap - 1
    /\ {slots, copy} \subseteq [Slots -> Candidates \cup {Unwritten}]
    /\ kernel \in Kernels
    /\ hpc \in {"sleep", "decide", "setend", "synchronize", "read", "finish", "ready",
                "quota", "output", "report", "test", "cleanup", "exited"}
    /\ nm \in 0 .. MaxMatches /\ hi \in 0 .. MaxMatches
    /\ found \in SUBSET Candidates
    /\ {handled, accepted, settled} \subseteq SUBSET (Candidates \cup {Unwritten})
    /\ late \in [{Host} -> Nat]

\* The host never takes a slot that was claimed but not written yet, nor one
\* left by an earlier kernel (cuda_worker.cu:139-146, 305-313).
DrainedWhole ==
    hpc \in {"finish", "ready", "quota", "output"} =>
        \A i \in 0 .. nm - 1 : copy[i] \in found /\ copy[i][1] = kernel

\* Of what the kernel found only the matches that got no slot are not handed to
\* worker_finish_match before the buffer is used again, so no two threads shared
\* a slot and none was left out (cuda_worker.cu:139-146, 260-268, 311-341).
NothingForgotten ==
    hpc = "test" =>
        Cardinality({c \in found : c[1] = kernel} \ handled) = nmatches - Drained

\* The kernel ends soon after the buffer is full: what it loses is at most the
\* one match each thread had in hand (cuda_worker.cu:140, 151).
FewMatchesLost == nmatches <= MaxMatches + Cardinality(Threads)

\* A kernel never searches again what an earlier one did (cuda_worker.cu:341).
SearchedOnce == ~again

\* The run ends of itself only when the keys asked for were counted, although the
\* device ends earlier when the host drops a match (cuda_worker.cu:148, 336).
EndsOnlyWhenDone ==
    hpc = "exited" => interrupted \/ (NumNeed # 0 /\ keysgenerated = NumNeed)

Phase == IF Running THEN "running" ELSE "finished"

Promise == INSTANCE KeySearch
    WITH Workers <- {Host}, Keys <- Candidates, closing <- endwork, phase <- Phase

\* The CUDA mode promises what the CPU mode does: the limit, no key after the
\* end was requested but the one in hand, nothing unsettled at the end.
KeepsPromise == Promise!Spec


\* The match of kernel k in slot i, and that it was handed on before the next.
InSlot(k, i) == kernel = k /\ slots[i] # Unwritten /\ slots[i][1] = k
Delivered(k, i) == kernel = k /\ slots[i] \in handled

\* Once the kernel was told to end, by itself or by the host, every match in its
\* slots is handed on before the next kernel uses them (cuda_worker.cu:260-268,
\* 305-313, 339-342).
EndedKeysDelivered ==
    \A k \in 0 .. LastKernel - 1, i \in Slots : (InSlot(k, i) /\ dEnd) ~> Delivered(k, i)

\* A key found on the device is handed on though no other is ever found: the loop
\* means to flush the kernel every half second (cuda_worker.cu:294-313).  It does
\* not as the program is built.
KeysDelivered ==
    \A k \in 0 .. LastKernel - 1, i \in Slots : InSlot(k, i) ~> Delivered(k, i)
=============================================================================
