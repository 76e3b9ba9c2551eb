-------------------------- MODULE WorkerPoolProofs --------------------------
(***************************************************************************)
(* Proofs about WorkerPool, for any workers, keys, limit, mode and faults. *)
(***************************************************************************)
EXTENDS WorkerPool, FiniteSetTheorems, TLAPS

Deciding == {"ready", "lockgen", "check", "count"}
Committed == Outputting \cup {"quota"}

\* A worker that handles a match has a key of its own in hand.
KeyInHand == \A w \in Workers : pc[w] \in HasKey => cur[w] \in found
OwnKeys == \A v, w \in Workers :
               v # w /\ pc[v] \in HasKey /\ pc[w] \in HasKey => cur[v] # cur[w]

\* Who is inside a critical section holds its mutex, and nobody else does.
GenMutex == \A w \in Workers : pc[w] \in HoldsGen <=> genLock = w
OutMutex == \A w \in Workers : pc[w] \in HoldsOut <=> outLock = w

\* Where the keys are: in the hand of a worker that decides on it or is
\* committed to it, or settled.
Places ==
    /\ settled \subseteq accepted
    /\ accepted \subseteq found
    /\ \A w \in Workers : pc[w] \in Deciding => cur[w] \notin accepted
    /\ \A w \in Workers : pc[w] \in Committed => cur[w] \in accepted \ settled
    /\ \A k \in accepted \ settled : \E w \in Workers : pc[w] \in Committed /\ cur[w] = k

\* keysgenerated counts the accepted keys, and who may count has room to.
Counting ==
    /\ IsFiniteSet(accepted)
    /\ Limited => keysgenerated = Cardinality(accepted) /\ keysgenerated <= NumNeed
    /\ \A w \in Workers : pc[w] \in HoldsGen \cup {"lockgen"} => Limited
    /\ \A w \in Workers : pc[w] = "count" => keysgenerated < NumNeed

QuotaKnown ==
    Limited /\ keysgenerated >= NumNeed => endwork \/ \E w \in Workers : pc[w] = "quota"

\* After a late key there is no way back to the counter.
LateOnce ==
    \A w \in Workers : late[w] # 0 =>
        late[w] = 1 /\ endwork /\ pc[w] \notin {"lockgen", "check", "count"}

\* main has passed pthread_join only after every worker was done.
Joined ==
    /\ ~mutexes \/ mpc \in {"destroy", "close", "exited"} => \A w \in Workers : pc[w] = "done"
    /\ mpc \in {"join", "destroy", "close", "exited"} => endwork

\* The inductive invariant.
IInv ==
    /\ TypeOK
    /\ KeyInHand
    /\ OwnKeys
    /\ GenMutex
    /\ OutMutex
    /\ Places
    /\ Counting
    /\ QuotaKnown
    /\ LateOnce
    /\ Joined

(***************************************************************************)
(* Each part of the invariant is kept by every step.                       *)
(***************************************************************************)

\* The types are kept; that a matching worker has a key in hand is what makes
\* the directories and files be those of keys.
LEMMA TypeStep ==
    ASSUME TypeOK, KeyInHand, [Next]_vars
    PROVE  TypeOK'
<1> USE DEF At, Goto, poolVars, flagVars, diskVars, mainVars, histVars, WorkerPCs,
   HasKey, Outputting, HoldsGen, HoldsOut, Files, TypeOK, KeyInHand, MainPCs
<1>1. ASSUME NEW w \in Workers, Search(w) PROVE TypeOK'
  BY <1>1 DEF Search, StartBatch, NoMatch, Match
<1>2. ASSUME NEW w \in Workers, Decide(w) PROVE TypeOK'
  <2>1. CASE CountKey(w)
    BY <2>1 DEF CountKey, Accept
  <2>2. CASE CheckQuota(w)
    BY <2>2 DEF CheckQuota, Output
  <2>3. CASE ReadyEnded(w) \/ ReadyUnlimited(w) \/ ReadyLimited(w) \/ LockGenerated(w)
     \/ CheckFull(w) \/ CheckRoom(w)
    BY <2>3 DEF ReadyEnded, ReadyUnlimited, ReadyLimited, LockGenerated, CheckFull,
       CheckRoom, Reject, Resume, Accept, Output, Acquire
  <2>. QED
    BY <1>2, <2>1, <2>2, <2>3 DEF Decide
<1>3. ASSUME NEW w \in Workers, Store(w) PROVE TypeOK'
  BY <1>3 DEF Store, CreateDir, LockError, ReportError, WriteFile, Acquire, Resume,
     After
<1>4. ASSUME NEW w \in Workers, Announce(w) PROVE TypeOK'
  BY <1>4 DEF Announce, ReturnQuiet, LockOut, WriteName, FlushName, Settle, Resume,
     Acquire
<1>5. ASSUME MainStep PROVE TypeOK'
  BY <1>5 DEF MainStep, Spawn, SpawnFail, PollEndwork, PollCount, JoinWorkers,
     DestroyMutexes, CloseOut
<1>6. ASSUME Environment PROVE TypeOK'
  BY <1>6 DEF Environment, TermHandler, Kill
<1>7. ASSUME UNCHANGED vars PROVE TypeOK'
  BY <1>7 DEF vars
<1> HIDE DEF At, Goto, poolVars, flagVars, diskVars, mainVars, histVars, WorkerPCs,
   HasKey, Outputting, HoldsGen, HoldsOut, Files, TypeOK, KeyInHand, MainPCs
<1>. QED
  BY <1>1, <1>2, <1>3, <1>4, <1>5, <1>6, <1>7 DEF Next, WorkerStep, Terminated

\* A worker that handles a match keeps its key until onionready returns.
LEMMA HandStep ==
    ASSUME TypeOK, KeyInHand, [Next]_vars
    PROVE  KeyInHand'
<1> USE DEF At, Goto, poolVars, flagVars, diskVars, mainVars, histVars, WorkerPCs,
   HasKey, Outputting, HoldsGen, HoldsOut, Files, TypeOK, KeyInHand, MainPCs
<1>1. ASSUME NEW w \in Workers, Search(w) PROVE KeyInHand'
  BY <1>1 DEF Search, StartBatch, NoMatch, Match
<1>2. ASSUME NEW w \in Workers, Decide(w) PROVE KeyInHand'
  BY <1>2 DEF Decide, ReadyEnded, ReadyUnlimited, ReadyLimited, LockGenerated,
     CheckFull, CheckRoom, CountKey, CheckQuota, Reject, Resume, Accept, Output,
     Acquire
<1>3. ASSUME NEW w \in Workers, Store(w) PROVE KeyInHand'
  BY <1>3 DEF Store, CreateDir, LockError, ReportError, WriteFile, Acquire, Resume,
     After
<1>4. ASSUME NEW w \in Workers, Announce(w) PROVE KeyInHand'
  BY <1>4 DEF Announce, ReturnQuiet, LockOut, WriteName, FlushName, Settle, Resume,
     Acquire
<1>5. ASSUME MainStep PROVE KeyInHand'
  BY <1>5 DEF MainStep, Spawn, SpawnFail, PollEndwork, PollCount, JoinWorkers,
     DestroyMutexes, CloseOut
<1>6. ASSUME Environment PROVE KeyInHand'
  BY <1>6 DEF Environment, TermHandler, Kill
<1>7. ASSUME UNCHANGED vars PROVE KeyInHand'
  BY <1>7 DEF vars
<1> HIDE DEF At, Goto, poolVars, flagVars, diskVars, mainVars, histVars, WorkerPCs,
   HasKey, Outputting, HoldsGen, HoldsOut, Files, TypeOK, KeyInHand, MainPCs
<1>. QED
  BY <1>1, <1>2, <1>3, <1>4, <1>5, <1>6, <1>7 DEF Next, WorkerStep, Terminated

\* No key comes into two hands: a match is a new key.
LEMMA OwnStep ==
    ASSUME TypeOK, KeyInHand, OwnKeys, [Next]_vars
    PROVE  OwnKeys'
<1> USE DEF At, Goto, poolVars, flagVars, diskVars, mainVars, histVars, WorkerPCs,
   HasKey, Outputting, HoldsGen, HoldsOut, Files, TypeOK, KeyInHand, OwnKeys, MainPCs
<1>1. ASSUME NEW w \in Workers, Search(w) PROVE OwnKeys'
  BY <1>1 DEF Search, StartBatch, NoMatch, Match
<1>2. ASSUME NEW w \in Workers, Decide(w) PROVE OwnKeys'
  BY <1>2 DEF Decide, ReadyEnded, ReadyUnlimited, ReadyLimited, LockGenerated,
     CheckFull, CheckRoom, CountKey, CheckQuota, Reject, Resume, Accept, Output,
     Acquire
<1>3. ASSUME NEW w \in Workers, Store(w) PROVE OwnKeys'
  BY <1>3 DEF Store, CreateDir, LockError, ReportError, WriteFile, Acquire, Resume,
     After
<1>4. ASSUME NEW w \in Workers, Announce(w) PROVE OwnKeys'
  BY <1>4 DEF Announce, ReturnQuiet, LockOut, WriteName, FlushName, Settle, Resume,
     Acquire
<1>5. ASSUME MainStep PROVE OwnKeys'
  BY <1>5 DEF MainStep, Spawn, SpawnFail, PollEndwork, PollCount, JoinWorkers,
     DestroyMutexes, CloseOut
<1>6. ASSUME Environment PROVE OwnKeys'
  BY <1>6 DEF Environment, TermHandler, Kill
<1>7. ASSUME UNCHANGED vars PROVE OwnKeys'
  BY <1>7 DEF vars
<1> HIDE DEF At, Goto, poolVars, flagVars, diskVars, mainVars, histVars, WorkerPCs,
   HasKey, Outputting, HoldsGen, HoldsOut, Files, TypeOK, KeyInHand, OwnKeys, MainPCs
<1>. QED
  BY <1>1, <1>2, <1>3, <1>4, <1>5, <1>6, <1>7 DEF Next, WorkerStep, Terminated

\* Mutual exclusion of the counter's critical section.
LEMMA GenStep ==
    ASSUME TypeOK, KeyInHand, GenMutex, [Next]_vars
    PROVE  GenMutex'
<1> USE DEF At, Goto, poolVars, flagVars, diskVars, mainVars, histVars, WorkerPCs,
   HasKey, Outputting, HoldsGen, HoldsOut, Files, TypeOK, KeyInHand, GenMutex, MainPCs
<1>1. ASSUME NEW w \in Workers, Search(w) PROVE GenMutex'
  BY <1>1 DEF Search, StartBatch, NoMatch, Match
<1>2. ASSUME NEW w \in Workers, Decide(w) PROVE GenMutex'
  BY <1>2, PoolAssumption DEF Decide, ReadyEnded, ReadyUnlimited, ReadyLimited,
     LockGenerated, CheckFull, CheckRoom, CountKey, CheckQuota, Reject, Resume,
     Accept, Output, Acquire
<1>3. ASSUME NEW w \in Workers, Store(w) PROVE GenMutex'
  BY <1>3 DEF Store, CreateDir, LockError, ReportError, WriteFile, Acquire, Resume,
     After
<1>4. ASSUME NEW w \in Workers, Announce(w) PROVE GenMutex'
  BY <1>4 DEF Announce, ReturnQuiet, LockOut, WriteName, FlushName, Settle, Resume,
     Acquire
<1>5. ASSUME MainStep PROVE GenMutex'
  BY <1>5 DEF MainStep, Spawn, SpawnFail, PollEndwork, PollCount, JoinWorkers,
     DestroyMutexes, CloseOut
<1>6. ASSUME Environment PROVE GenMutex'
  BY <1>6 DEF Environment, TermHandler, Kill
<1>7. ASSUME UNCHANGED vars PROVE GenMutex'
  BY <1>7 DEF vars
<1> HIDE DEF At, Goto, poolVars, flagVars, diskVars, mainVars, histVars, WorkerPCs,
   HasKey, Outputting, HoldsGen, HoldsOut, Files, TypeOK, KeyInHand, GenMutex, MainPCs
<1>. QED
  BY <1>1, <1>2, <1>3, <1>4, <1>5, <1>6, <1>7 DEF Next, WorkerStep, Terminated

\* Mutual exclusion of the output's critical section.
LEMMA OutStep ==
    ASSUME TypeOK, KeyInHand, OutMutex, [Next]_vars
    PROVE  OutMutex'
<1> USE DEF At, Goto, poolVars, flagVars, diskVars, mainVars, histVars, WorkerPCs,
   HasKey, Outputting, HoldsGen, HoldsOut, Files, TypeOK, KeyInHand, OutMutex, MainPCs
<1>1. ASSUME NEW w \in Workers, Search(w) PROVE OutMutex'
  BY <1>1 DEF Search, StartBatch, NoMatch, Match
<1>2. ASSUME NEW w \in Workers, Decide(w) PROVE OutMutex'
  BY <1>2 DEF Decide, ReadyEnded, ReadyUnlimited, ReadyLimited, LockGenerated,
     CheckFull, CheckRoom, CountKey, CheckQuota, Reject, Resume, Accept, Output,
     Acquire
<1>3. ASSUME NEW w \in Workers, Store(w) PROVE OutMutex'
  BY <1>3, PoolAssumption DEF Store, CreateDir, LockError, ReportError, WriteFile,
     Acquire, Resume, After
<1>4. ASSUME NEW w \in Workers, Announce(w) PROVE OutMutex'
  BY <1>4, PoolAssumption DEF Announce, ReturnQuiet, LockOut, WriteName, FlushName,
     Settle, Resume, Acquire
<1>5. ASSUME MainStep PROVE OutMutex'
  BY <1>5 DEF MainStep, Spawn, SpawnFail, PollEndwork, PollCount, JoinWorkers,
     DestroyMutexes, CloseOut
<1>6. ASSUME Environment PROVE OutMutex'
  BY <1>6 DEF Environment, TermHandler, Kill
<1>7. ASSUME UNCHANGED vars PROVE OutMutex'
  BY <1>7 DEF vars
<1> HIDE DEF At, Goto, poolVars, flagVars, diskVars, mainVars, histVars, WorkerPCs,
   HasKey, Outputting, HoldsGen, HoldsOut, Files, TypeOK, KeyInHand, OutMutex, MainPCs
<1>. QED
  BY <1>1, <1>2, <1>3, <1>4, <1>5, <1>6, <1>7 DEF Next, WorkerStep, Terminated

\* Accepting moves a key from deciding to committed, settling out of the hand.
LEMMA PlacesStep ==
    ASSUME TypeOK, KeyInHand, OwnKeys, Places, [Next]_vars
    PROVE  Places'
<1> USE DEF At, Goto, poolVars, flagVars, diskVars, mainVars, histVars, WorkerPCs,
   HasKey, Outputting, HoldsGen, HoldsOut, Files, TypeOK, KeyInHand, OwnKeys, Places,
   Deciding, Committed, MainPCs
<1>1. ASSUME NEW w \in Workers, Search(w) PROVE Places'
  BY <1>1 DEF Search, StartBatch, NoMatch, Match
<1>2. ASSUME NEW w \in Workers, Decide(w) PROVE Places'
  BY <1>2 DEF Decide, ReadyEnded, ReadyUnlimited, ReadyLimited, LockGenerated,
     CheckFull, CheckRoom, CountKey, CheckQuota, Reject, Resume, Accept, Output,
     Acquire
<1>3. ASSUME NEW w \in Workers, Store(w) PROVE Places'
  BY <1>3 DEF Store, CreateDir, LockError, ReportError, WriteFile, Acquire, Resume,
     After
<1>4. ASSUME NEW w \in Workers, Announce(w) PROVE Places'
  BY <1>4 DEF Announce, ReturnQuiet, LockOut, WriteName, FlushName, Settle, Resume,
     Acquire
<1>5. ASSUME MainStep PROVE Places'
  BY <1>5 DEF MainStep, Spawn, SpawnFail, PollEndwork, PollCount, JoinWorkers,
     DestroyMutexes, CloseOut
<1>6. ASSUME Environment PROVE Places'
  BY <1>6 DEF Environment, TermHandler, Kill
<1>7. ASSUME UNCHANGED vars PROVE Places'
  BY <1>7 DEF vars
<1> HIDE DEF At, Goto, poolVars, flagVars, diskVars, mainVars, histVars, WorkerPCs,
   HasKey, Outputting, HoldsGen, HoldsOut, Files, TypeOK, KeyInHand, OwnKeys, Places,
   Deciding, Committed, MainPCs
<1>. QED
  BY <1>1, <1>2, <1>3, <1>4, <1>5, <1>6, <1>7 DEF Next, WorkerStep, Terminated

\* The counter and the set of accepted keys grow together; only the holder of
\* the mutex stands at "count", so there is still room when it gets there.
LEMMA CountStep ==
    ASSUME TypeOK, KeyInHand, GenMutex, Places, Counting, [Next]_vars
    PROVE  Counting'
<1> USE DEF At, Goto, poolVars, flagVars, diskVars, mainVars, histVars, WorkerPCs,
   HasKey, Outputting, HoldsGen, HoldsOut, Files, TypeOK, KeyInHand, GenMutex, Places,
   Deciding, Counting, Limited, MainPCs
<1>1. ASSUME NEW w \in Workers, Search(w) PROVE Counting'
  BY <1>1 DEF Search, StartBatch, NoMatch, Match
<1>2. ASSUME NEW w \in Workers, Decide(w) PROVE Counting'
  <2>1. CASE ReadyUnlimited(w)
    BY <2>1, FS_AddElement DEF ReadyUnlimited, Accept, Output
  <2>2. CASE CountKey(w)
    <3>1. accepted' = accepted \cup {cur[w]} /\ cur[w] \notin accepted
      BY <2>2 DEF CountKey, Accept
    <3>2. IsFiniteSet(accepted') /\ Cardinality(accepted') = Cardinality(accepted) + 1
      BY <3>1, FS_AddElement
    <3>3. Limited /\ keysgenerated < NumNeed
      BY <2>2 DEF CountKey
    <3>4. keysgenerated' = Cardinality(accepted') /\ keysgenerated' <= NumNeed
      BY <2>2, <3>2, <3>3, PoolAssumption DEF CountKey
    <3>5. \A v \in Workers : pc'[v] # "count"
      BY <2>2, PoolAssumption DEF CountKey
    <3>. QED
      BY <3>2, <3>3, <3>4, <3>5
  <2>3. CASE ReadyEnded(w) \/ ReadyLimited(w) \/ LockGenerated(w) \/ CheckFull(w) \/
     CheckRoom(w) \/ CheckQuota(w)
    BY <2>3 DEF ReadyEnded, ReadyLimited, LockGenerated, CheckFull, CheckRoom,
       CheckQuota, Reject, Resume, Acquire, Output
  <2>. QED
    BY <1>2, <2>1, <2>2, <2>3 DEF Decide
<1>3. ASSUME NEW w \in Workers, Store(w) PROVE Counting'
  BY <1>3 DEF Store, CreateDir, LockError, ReportError, WriteFile, Acquire, Resume,
     After
<1>4. ASSUME NEW w \in Workers, Announce(w) PROVE Counting'
  BY <1>4 DEF Announce, ReturnQuiet, LockOut, WriteName, FlushName, Settle, Resume,
     Acquire
<1>5. ASSUME MainStep PROVE Counting'
  BY <1>5 DEF MainStep, Spawn, SpawnFail, PollEndwork, PollCount, JoinWorkers,
     DestroyMutexes, CloseOut
<1>6. ASSUME Environment PROVE Counting'
  BY <1>6 DEF Environment, TermHandler, Kill
<1>7. ASSUME UNCHANGED vars PROVE Counting'
  BY <1>7 DEF vars
<1> HIDE DEF At, Goto, poolVars, flagVars, diskVars, mainVars, histVars, WorkerPCs,
   HasKey, Outputting, HoldsGen, HoldsOut, Files, TypeOK, KeyInHand, GenMutex, Places,
   Deciding, Counting, Limited, MainPCs
<1>. QED
  BY <1>1, <1>2, <1>3, <1>4, <1>5, <1>6, <1>7 DEF Next, WorkerStep, Terminated

\* The count reaches the quota at "quota", which is left only by setting endwork.
LEMMA QuotaStep ==
    ASSUME TypeOK, KeyInHand, GenMutex, Counting, QuotaKnown, [Next]_vars
    PROVE  QuotaKnown'
<1> USE DEF At, Goto, poolVars, flagVars, diskVars, mainVars, histVars, WorkerPCs,
   HasKey, Outputting, HoldsGen, HoldsOut, Files, TypeOK, KeyInHand, GenMutex,
   Counting, QuotaKnown, Limited, MainPCs
<1>1. ASSUME NEW w \in Workers, Search(w) PROVE QuotaKnown'
  BY <1>1 DEF Search, StartBatch, NoMatch, Match
<1>2. ASSUME NEW w \in Workers, Decide(w) PROVE QuotaKnown'
  <2>1. CASE CheckQuota(w)
    <3>1. Limited /\ keysgenerated <= NumNeed /\ keysgenerated' = keysgenerated
      BY <2>1 DEF CheckQuota
    <3>2. keysgenerated >= NumNeed => keysgenerated = NumNeed
      BY <3>1, PoolAssumption
    <3>3. keysgenerated = NumNeed => endwork'
      BY <2>1 DEF CheckQuota
    <3>. QED
      BY <3>1, <3>2, <3>3
  <2>2. CASE ReadyEnded(w) \/ ReadyUnlimited(w) \/ ReadyLimited(w) \/ LockGenerated(w)
     \/ CheckFull(w) \/ CheckRoom(w) \/ CountKey(w)
    BY <2>2 DEF ReadyEnded, ReadyUnlimited, ReadyLimited, LockGenerated, CheckFull,
       CheckRoom, CountKey, Reject, Resume, Accept, Output, Acquire
  <2>. QED
    BY <1>2, <2>1, <2>2 DEF Decide
<1>3. ASSUME NEW w \in Workers, Store(w) PROVE QuotaKnown'
  BY <1>3 DEF Store, CreateDir, LockError, ReportError, WriteFile, Acquire, Resume,
     After
<1>4. ASSUME NEW w \in Workers, Announce(w) PROVE QuotaKnown'
  BY <1>4 DEF Announce, ReturnQuiet, LockOut, WriteName, FlushName, Settle, Resume,
     Acquire
<1>5. ASSUME MainStep PROVE QuotaKnown'
  BY <1>5 DEF MainStep, Spawn, SpawnFail, PollEndwork, PollCount, JoinWorkers,
     DestroyMutexes, CloseOut
<1>6. ASSUME Environment PROVE QuotaKnown'
  BY <1>6 DEF Environment, TermHandler, Kill
<1>7. ASSUME UNCHANGED vars PROVE QuotaKnown'
  BY <1>7 DEF vars
<1> HIDE DEF At, Goto, poolVars, flagVars, diskVars, mainVars, histVars, WorkerPCs,
   HasKey, Outputting, HoldsGen, HoldsOut, Files, TypeOK, KeyInHand, GenMutex,
   Counting, QuotaKnown, Limited, MainPCs
<1>. QED
  BY <1>1, <1>2, <1>3, <1>4, <1>5, <1>6, <1>7 DEF Next, WorkerStep, Terminated

\* endwork, once seen, closes the way to the counter.
LEMMA LateStep ==
    ASSUME TypeOK, KeyInHand, LateOnce, [Next]_vars
    PROVE  LateOnce'
<1> USE DEF At, Goto, poolVars, flagVars, diskVars, mainVars, histVars, WorkerPCs,
   HasKey, Outputting, HoldsGen, HoldsOut, Files, TypeOK, KeyInHand, LateOnce, MainPCs
<1>1. ASSUME NEW w \in Workers, Search(w) PROVE LateOnce'
  BY <1>1 DEF Search, StartBatch, NoMatch, Match
<1>2. ASSUME NEW w \in Workers, Decide(w) PROVE LateOnce'
  BY <1>2 DEF Decide, ReadyEnded, ReadyUnlimited, ReadyLimited, LockGenerated,
     CheckFull, CheckRoom, CountKey, CheckQuota, Reject, Resume, Accept, Output,
     Acquire
<1>3. ASSUME NEW w \in Workers, Store(w) PROVE LateOnce'
  BY <1>3 DEF Store, CreateDir, LockError, ReportError, WriteFile, Acquire, Resume,
     After
<1>4. ASSUME NEW w \in Workers, Announce(w) PROVE LateOnce'
  BY <1>4 DEF Announce, ReturnQuiet, LockOut, WriteName, FlushName, Settle, Resume,
     Acquire
<1>5. ASSUME MainStep PROVE LateOnce'
  BY <1>5 DEF MainStep, Spawn, SpawnFail, PollEndwork, PollCount, JoinWorkers,
     DestroyMutexes, CloseOut
<1>6. ASSUME Environment PROVE LateOnce'
  BY <1>6 DEF Environment, TermHandler, Kill
<1>7. ASSUME UNCHANGED vars PROVE LateOnce'
  BY <1>7 DEF vars
<1> HIDE DEF At, Goto, poolVars, flagVars, diskVars, mainVars, histVars, WorkerPCs,
   HasKey, Outputting, HoldsGen, HoldsOut, Files, TypeOK, KeyInHand, LateOnce, MainPCs
<1>. QED
  BY <1>1, <1>2, <1>3, <1>4, <1>5, <1>6, <1>7 DEF Next, WorkerStep, Terminated

\* A worker that is done stays done.
LEMMA JoinStep ==
    ASSUME TypeOK, KeyInHand, Joined, [Next]_vars
    PROVE  Joined'
<1> USE DEF At, Goto, poolVars, flagVars, diskVars, mainVars, histVars, WorkerPCs,
   HasKey, Outputting, HoldsGen, HoldsOut, Files, TypeOK, KeyInHand, Joined, MainPCs
<1>1. ASSUME NEW w \in Workers, Search(w) PROVE Joined'
  BY <1>1 DEF Search, StartBatch, NoMatch, Match
<1>2. ASSUME NEW w \in Workers, Decide(w) PROVE Joined'
  BY <1>2 DEF Decide, ReadyEnded, ReadyUnlimited, ReadyLimited, LockGenerated,
     CheckFull, CheckRoom, CountKey, CheckQuota, Reject, Resume, Accept, Output,
     Acquire
<1>3. ASSUME NEW w \in Workers, Store(w) PROVE Joined'
  BY <1>3 DEF Store, CreateDir, LockError, ReportError, WriteFile, Acquire, Resume,
     After
<1>4. ASSUME NEW w \in Workers, Announce(w) PROVE Joined'
  BY <1>4 DEF Announce, ReturnQuiet, LockOut, WriteName, FlushName, Settle, Resume,
     Acquire
<1>5. ASSUME MainStep PROVE Joined'
  BY <1>5 DEF MainStep, Spawn, SpawnFail, PollEndwork, PollCount, JoinWorkers,
     DestroyMutexes, CloseOut
<1>6. ASSUME Environment PROVE Joined'
  BY <1>6 DEF Environment, TermHandler, Kill
<1>7. ASSUME UNCHANGED vars PROVE Joined'
  BY <1>7 DEF vars
<1> HIDE DEF At, Goto, poolVars, flagVars, diskVars, mainVars, histVars, WorkerPCs,
   HasKey, Outputting, HoldsGen, HoldsOut, Files, TypeOK, KeyInHand, Joined, MainPCs
<1>. QED
  BY <1>1, <1>2, <1>3, <1>4, <1>5, <1>6, <1>7 DEF Next, WorkerStep, Terminated

(***************************************************************************)
(* The inductive invariant and the safety properties that follow from it.  *)
(***************************************************************************)

\* The inductive invariant holds at the start.
LEMMA InvInit == Init => IInv
<1> SUFFICES ASSUME Init PROVE IInv
    OBVIOUS
<1> USE DEF Init, HasKey, Outputting, HoldsGen, HoldsOut, Files
<1>1. TypeOK
  BY PoolAssumption DEF TypeOK, WorkerPCs, MainPCs
<1>2. KeyInHand /\ OwnKeys
  BY DEF KeyInHand, OwnKeys
<1>3. GenMutex /\ OutMutex
  BY PoolAssumption DEF GenMutex, OutMutex
<1>4. Places
  BY DEF Places, Deciding, Committed
<1>5. Counting
  <2>1. IsFiniteSet(accepted) /\ Cardinality(accepted) = 0
    BY FS_EmptySet
  <2>. QED
    BY <2>1, PoolAssumption DEF Counting
<1>6. QuotaKnown /\ LateOnce /\ Joined
  BY PoolAssumption DEF QuotaKnown, LateOnce, Joined, Limited
<1>. QED
  BY <1>1, <1>2, <1>3, <1>4, <1>5, <1>6 DEF IInv

\* Every step keeps it, part by part.
LEMMA InvStep == IInv /\ [Next]_vars => IInv'
<1> SUFFICES ASSUME IInv, [Next]_vars PROVE IInv'
    OBVIOUS
<1>1. TypeOK' /\ KeyInHand' /\ OwnKeys'
  BY TypeStep, HandStep, OwnStep DEF IInv
<1>2. GenMutex' /\ OutMutex'
  BY GenStep, OutStep DEF IInv
<1>3. Places' /\ Counting' /\ QuotaKnown'
  BY PlacesStep, CountStep, QuotaStep DEF IInv
<1>4. LateOnce' /\ Joined'
  BY LateStep, JoinStep DEF IInv
<1>. QED
  BY <1>1, <1>2, <1>3, <1>4 DEF IInv

\* The inductive invariant holds of every run.
THEOREM PoolInvariant == Spec => []IInv
BY InvInit, InvStep, PTL DEF Spec

\* Every variable of the pool has its type, in every mode and with every fault.
THEOREM PoolTypes == Spec => []TypeOK
<1>1. IInv => TypeOK
  BY DEF IInv
<1>. QED
  BY <1>1, PoolInvariant, PTL

\* A run with -n NUMKEYS accepts at most that many keys, for any number of
\* workers (worker.c:81-91).
THEOREM PoolQuota == Spec => []QuotaRespected
<1>1. IInv => QuotaRespected
  BY DEF IInv, Counting, QuotaRespected
<1>. QED
  BY <1>1, PoolInvariant, PTL

\* When the quota is full and the mutex free, endwork is set (worker.c:88-90).
THEOREM PoolQuotaEndsRun == Spec => []QuotaEndsRun
<1>1. ASSUME IInv PROVE QuotaEndsRun
  <2>1. \A w \in Workers : pc[w] = "quota" => genLock # NoOne
    BY <1>1, PoolAssumption DEF IInv, GenMutex, HoldsGen
  <2>. QED
    BY <1>1, <2>1 DEF IInv, QuotaKnown, QuotaEndsRun
<1>. QED
  BY <1>1, PoolInvariant, PTL

\* Each worker outputs at most one key after the end was asked for, whatever
\* else is in its batch (worker.c:78).
THEOREM PoolOneLateKey == Spec => []OneLateKey
<1>1. IInv => OneLateKey
  BY DEF IInv, TypeOK, LateOnce, OneLateKey
<1>. QED
  BY <1>1, PoolInvariant, PTL

\* The mutexes and the output outlive their last use (main.c:856-881).
THEOREM PoolTeardown == Spec => []QuietTeardown
<1>1. ASSUME IInv PROVE QuietTeardown
  <2>1. (\A w \in Workers : pc[w] = "done") => genLock \notin Workers /\ outLock \notin Workers
    BY <1>1 DEF IInv, GenMutex, OutMutex, HoldsGen, HoldsOut
  <2>2. genLock \in Workers \cup {NoOne} /\ outLock \in Workers \cup {NoOne}
    BY <1>1 DEF IInv, TypeOK
  <2>. QED
    BY <1>1, <2>1, <2>2 DEF IInv, Joined, QuietTeardown
<1>. QED
  BY <1>1, PoolInvariant, PTL

\* An orderly end leaves no accepted key behind (main.c:856).
THEOREM PoolNothingLost == Spec => []NothingLostAtExit
<1>1. ASSUME IInv PROVE NothingLostAtExit
  BY <1>1 DEF IInv, Joined, Places, Committed, Outputting, HoldsOut, Files, NothingLostAtExit
<1>. QED
  BY <1>1, PoolInvariant, PTL

(***************************************************************************)
(* What is on disk.                                                        *)
(***************************************************************************)

\* A directory that this run writes into is one it made.
Fresh ==
    /\ OldDirs \subseteq dirs
    /\ \A w \in Workers : pc[w] \in Files => cur[w] \notin OldDirs
    /\ OldKeysKept

\* How far the files of a key are written at each place of onionready.
Stored ==
    "disk" \notin Faults /\ ~Yaml =>
        /\ AnnouncedOnDisk
        /\ \A w \in Workers :
              /\ pc[w] \in {"hs_ed25519_public_key", "hostname", "lockout", "fwrite", "fflush"}
                    => <<cur[w], "hs_ed25519_secret_key">> \in written
              /\ pc[w] \in {"hostname", "lockout", "fwrite", "fflush"}
                    => <<cur[w], "hs_ed25519_public_key">> \in written
              /\ pc[w] \in {"lockout", "fwrite", "fflush"}
                    => <<cur[w], "hostname">> \in written

\* A settled key that was not reported has its name in the file.
Flushed ==
    HasFout =>
        /\ NoNameLostByKill
        /\ \A w \in Workers :
              /\ pc[w] # "return"
              /\ pc[w] = "fflush" => cur[w] \in outbuf \cup out

\* mkdir gives out only directories that were not there.
LEMMA FreshStep ==
    ASSUME TypeOK, KeyInHand, Fresh, [Next]_vars
    PROVE  Fresh'
<1> USE DEF At, Goto, poolVars, flagVars, diskVars, mainVars, histVars, WorkerPCs,
   HasKey, Outputting, HoldsGen, HoldsOut, Files, TypeOK, KeyInHand, Fresh,
   OldKeysKept, MainPCs
<1>1. ASSUME NEW w \in Workers, Search(w) PROVE Fresh'
  BY <1>1 DEF Search, StartBatch, NoMatch, Match
<1>2. ASSUME NEW w \in Workers, Decide(w) PROVE Fresh'
  BY <1>2 DEF Decide, ReadyEnded, ReadyUnlimited, ReadyLimited, LockGenerated,
     CheckFull, CheckRoom, CountKey, CheckQuota, Reject, Resume, Accept, Output,
     Acquire
<1>3. ASSUME NEW w \in Workers, Store(w) PROVE Fresh'
  BY <1>3, PoolAssumption DEF Store, CreateDir, LockError, ReportError, WriteFile,
     Acquire, Resume, After
<1>4. ASSUME NEW w \in Workers, Announce(w) PROVE Fresh'
  BY <1>4 DEF Announce, ReturnQuiet, LockOut, WriteName, FlushName, Settle, Resume,
     Acquire
<1>5. ASSUME MainStep PROVE Fresh'
  BY <1>5 DEF MainStep, Spawn, SpawnFail, PollEndwork, PollCount, JoinWorkers,
     DestroyMutexes, CloseOut
<1>6. ASSUME Environment PROVE Fresh'
  BY <1>6 DEF Environment, TermHandler, Kill
<1>7. ASSUME UNCHANGED vars PROVE Fresh'
  BY <1>7 DEF vars
<1> HIDE DEF At, Goto, poolVars, flagVars, diskVars, mainVars, histVars, WorkerPCs,
   HasKey, Outputting, HoldsGen, HoldsOut, Files, TypeOK, KeyInHand, Fresh,
   OldKeysKept, MainPCs
<1>. QED
  BY <1>1, <1>2, <1>3, <1>4, <1>5, <1>6, <1>7 DEF Next, WorkerStep, Terminated

\* The files are written one after the other, the name comes last.
LEMMA StoredStep ==
    ASSUME TypeOK, KeyInHand, Stored, [Next]_vars
    PROVE  Stored'
<1> USE DEF At, Goto, poolVars, flagVars, diskVars, mainVars, histVars, WorkerPCs,
   HasKey, Outputting, HoldsGen, HoldsOut, Files, TypeOK, KeyInHand, Stored,
   AnnouncedOnDisk, MainPCs
<1>1. ASSUME NEW w \in Workers, Search(w) PROVE Stored'
  BY <1>1 DEF Search, StartBatch, NoMatch, Match
<1>2. ASSUME NEW w \in Workers, Decide(w) PROVE Stored'
  BY <1>2 DEF Decide, ReadyEnded, ReadyUnlimited, ReadyLimited, LockGenerated,
     CheckFull, CheckRoom, CountKey, CheckQuota, Reject, Resume, Accept, Output,
     Acquire
<1>3. ASSUME NEW w \in Workers, Store(w) PROVE Stored'
  BY <1>3 DEF Store, CreateDir, LockError, ReportError, WriteFile, Acquire, Resume,
     After
<1>4. ASSUME NEW w \in Workers, Announce(w) PROVE Stored'
  BY <1>4 DEF Announce, ReturnQuiet, LockOut, WriteName, FlushName, Settle, Resume,
     Acquire
<1>5. ASSUME MainStep PROVE Stored'
  BY <1>5 DEF MainStep, Spawn, SpawnFail, PollEndwork, PollCount, JoinWorkers,
     DestroyMutexes, CloseOut
<1>6. ASSUME Environment PROVE Stored'
  BY <1>6 DEF Environment, TermHandler, Kill
<1>7. ASSUME UNCHANGED vars PROVE Stored'
  BY <1>7 DEF vars
<1> HIDE DEF At, Goto, poolVars, flagVars, diskVars, mainVars, histVars, WorkerPCs,
   HasKey, Outputting, HoldsGen, HoldsOut, Files, TypeOK, KeyInHand, Stored,
   AnnouncedOnDisk, MainPCs
<1>. QED
  BY <1>1, <1>2, <1>3, <1>4, <1>5, <1>6, <1>7 DEF Next, WorkerStep, Terminated

\* A key is settled by the step that flushes its name, or by an error.
LEMMA FlushedStep ==
    ASSUME TypeOK, KeyInHand, Flushed, [Next]_vars
    PROVE  Flushed'
<1> USE DEF At, Goto, poolVars, flagVars, diskVars, mainVars, histVars, WorkerPCs,
   HasKey, Outputting, HoldsGen, HoldsOut, Files, TypeOK, KeyInHand, Flushed,
   NoNameLostByKill, MainPCs
<1>1. ASSUME NEW w \in Workers, Search(w) PROVE Flushed'
  BY <1>1 DEF Search, StartBatch, NoMatch, Match
<1>2. ASSUME NEW w \in Workers, Decide(w) PROVE Flushed'
  BY <1>2 DEF Decide, ReadyEnded, ReadyUnlimited, ReadyLimited, LockGenerated,
     CheckFull, CheckRoom, CountKey, CheckQuota, Reject, Resume, Accept, Output,
     Acquire
<1>3. ASSUME NEW w \in Workers, Store(w) PROVE Flushed'
  BY <1>3 DEF Store, CreateDir, LockError, ReportError, WriteFile, Acquire, Resume,
     After
<1>4. ASSUME NEW w \in Workers, Announce(w) PROVE Flushed'
  BY <1>4 DEF Announce, ReturnQuiet, LockOut, WriteName, FlushName, Settle, Resume,
     Acquire
<1>5. ASSUME MainStep PROVE Flushed'
  BY <1>5 DEF MainStep, Spawn, SpawnFail, PollEndwork, PollCount, JoinWorkers,
     DestroyMutexes, CloseOut
<1>6. ASSUME Environment PROVE Flushed'
  BY <1>6 DEF Environment, TermHandler, Kill
<1>7. ASSUME UNCHANGED vars PROVE Flushed'
  BY <1>7 DEF vars
<1> HIDE DEF At, Goto, poolVars, flagVars, diskVars, mainVars, histVars, WorkerPCs,
   HasKey, Outputting, HoldsGen, HoldsOut, Files, TypeOK, KeyInHand, Flushed,
   NoNameLostByKill, MainPCs
<1>. QED
  BY <1>1, <1>2, <1>3, <1>4, <1>5, <1>6, <1>7 DEF Next, WorkerStep, Terminated

\* No file of a key that an earlier run left is written to (ioutil.c:60-63).
THEOREM PoolOldKeysKept == Spec => []OldKeysKept
<1>1. Init => Fresh
  BY DEF Init, Fresh, OldKeysKept, Files
<1>2. IInv /\ Fresh /\ [Next]_vars => Fresh'
  BY FreshStep DEF IInv
<1>3. Fresh => OldKeysKept
  BY DEF Fresh
<1>. QED
  BY <1>1, <1>2, <1>3, PoolInvariant, PTL DEF Spec

\* As long as the disk does not fail, a printed name has all its files
\* (worker.c:112-137); the run pool_diskfault shows why the condition is needed.
THEOREM PoolAnnouncedOnDisk ==
    ASSUME "disk" \notin Faults
    PROVE  Spec => []AnnouncedOnDisk
<1>1. Init => Stored
  BY DEF Init, Stored, AnnouncedOnDisk
<1>2. IInv /\ Stored /\ [Next]_vars => Stored'
  BY StoredStep DEF IInv
<1>3. Stored => AnnouncedOnDisk
  BY DEF Stored, AnnouncedOnDisk
<1>. QED
  BY <1>1, <1>2, <1>3, PoolInvariant, PTL DEF Spec

\* Being killed loses no name of a settled key (worker.c:136-138, yaml.c:127-129).
THEOREM PoolNoNameLost == Spec => []NoNameLostByKill
<1>1. Init => Flushed
  BY DEF Init, Flushed, NoNameLostByKill
<1>2. IInv /\ Flushed /\ [Next]_vars => Flushed'
  BY FlushedStep DEF IInv
<1>3. Flushed => NoNameLostByKill
  BY DEF Flushed, NoNameLostByKill
<1>. QED
  BY <1>1, <1>2, <1>3, PoolInvariant, PTL DEF Spec

(***************************************************************************)
(* The pool implements KeySearch.                                          *)
(***************************************************************************)

\* KeySearch, as instantiated here, counts as this module does.
LEMMA PromiseCardinality == ASSUME NEW S PROVE Promise!Cardinality(S) = Cardinality(S)
BY DEF Promise!Cardinality, Cardinality

\* Every step of the pool is a step of the abstract search or leaves it alone.
LEMMA PromiseStep ==
    ASSUME IInv, [Next]_vars
    PROVE  [Promise!Next]_(Promise!svars)
<1> USE DEF At, Goto, poolVars, flagVars, diskVars, mainVars, histVars, WorkerPCs,
   HasKey, Outputting, HoldsGen, HoldsOut, Files, IInv, TypeOK, MainPCs, KeyInHand,
   Places, Committed, Deciding, Counting, LateOnce, Joined, Phase, Alive, Limited,
   Promise!svars, Promise!Limited
<1>1. ASSUME NEW w \in Workers, Search(w) PROVE [Promise!Next]_(Promise!svars)
  BY <1>1 DEF Search, StartBatch, NoMatch, Match
<1>2. ASSUME NEW w \in Workers, Decide(w) PROVE [Promise!Next]_(Promise!svars)
  <2>1. CASE ReadyUnlimited(w)
    <3>1. Promise!Accept(w, cur[w])
      BY <2>1, PoolAssumption DEF ReadyUnlimited, Accept, Promise!Accept
    <3>. QED
      BY <3>1, <2>1 DEF ReadyUnlimited, Promise!Next
  <2>2. CASE CountKey(w)
    <3>1. Limited /\ keysgenerated < NumNeed /\ keysgenerated = Cardinality(accepted)
      BY <2>2 DEF CountKey
    <3>2. late[w] = 0
      BY <2>2 DEF CountKey
    <3>3. cur[w] \in Keys \ accepted /\ accepted' = accepted \cup {cur[w]}
      BY <2>2 DEF CountKey, Accept
    <3>4. late' = IF endwork THEN [late EXCEPT ![w] = @ + 1] ELSE late
      BY <2>2 DEF CountKey, Accept
    <3>5. Phase = "running" /\ UNCHANGED <<settled, endwork, Phase>>
      BY <2>2 DEF CountKey, Accept
    <3>6. Promise!Accept(w, cur[w])
      BY <3>1, <3>2, <3>3, <3>4, <3>5, PromiseCardinality DEF Promise!Accept
    <3>. QED
      BY <3>3, <3>6 DEF Promise!Next
  <2>3. CASE CheckQuota(w)
    <3>1. endwork' \in BOOLEAN /\ (endwork => endwork')
      BY <2>3 DEF CheckQuota
    <3>2. Promise!RequestEnd \/ UNCHANGED Promise!svars
      BY <2>3, <3>1 DEF CheckQuota, Output, Promise!RequestEnd
    <3>. QED
      BY <3>2 DEF Promise!Next
  <2>4. CASE ReadyEnded(w) \/ ReadyLimited(w) \/ LockGenerated(w) \/ CheckFull(w) \/
     CheckRoom(w)
    BY <2>4 DEF ReadyEnded, ReadyLimited, LockGenerated, CheckFull, CheckRoom, Reject,
       Resume, Acquire
  <2>. QED
    BY <1>2, <2>1, <2>2, <2>3, <2>4 DEF Decide
<1>3. ASSUME NEW w \in Workers, Store(w) PROVE [Promise!Next]_(Promise!svars)
  <2>1. CASE ReportError(w)
    <3>1. Promise!Settle(cur[w])
      BY <2>1 DEF ReportError, Resume, Promise!Settle
    <3>. QED
      BY <3>1, <2>1 DEF ReportError, Promise!Next
  <2>2. CASE CreateDir(w) \/ LockError(w) \/ (\E f \in Files : WriteFile(w, f))
    BY <2>2 DEF CreateDir, LockError, WriteFile, Acquire, After
  <2>. QED
    BY <1>3, <2>1, <2>2 DEF Store
<1>4. ASSUME NEW w \in Workers, Announce(w) PROVE [Promise!Next]_(Promise!svars)
  <2>1. CASE ReturnQuiet(w)
    <3>1. Promise!Settle(cur[w])
      BY <2>1 DEF ReturnQuiet, Settle, Resume, Promise!Settle
    <3>. QED
      BY <3>1, <2>1 DEF ReturnQuiet, Promise!Next
  <2>2. CASE FlushName(w)
    <3>1. Promise!Settle(cur[w])
      BY <2>2 DEF FlushName, Settle, Resume, Promise!Settle
    <3>. QED
      BY <3>1, <2>2 DEF FlushName, Promise!Next
  <2>3. CASE LockOut(w) \/ WriteName(w)
    BY <2>3 DEF LockOut, WriteName, Acquire
  <2>. QED
    BY <1>4, <2>1, <2>2, <2>3 DEF Announce
<1>5. ASSUME MainStep PROVE [Promise!Next]_(Promise!svars)
  <2>1. CASE SpawnFail
    BY <2>1 DEF SpawnFail, Promise!Die, Promise!Next
  <2>2. CASE PollCount
    <3>1. endwork' \in BOOLEAN /\ (endwork => endwork')
      BY <2>2 DEF PollCount
    <3>2. Promise!RequestEnd \/ UNCHANGED Promise!svars
      BY <2>2, <3>1 DEF PollCount, Promise!RequestEnd
    <3>. QED
      BY <3>2 DEF Promise!Next
  <2>3. CASE CloseOut
    <3>1. settled = accepted
      BY <2>3 DEF CloseOut
    <3>. QED
      BY <2>3, <3>1 DEF CloseOut, Promise!Finish, Promise!Next
  <2>4. CASE (\E w \in Workers : Spawn(w)) \/ PollEndwork \/ JoinWorkers \/
     DestroyMutexes
    BY <2>4 DEF Spawn, PollEndwork, JoinWorkers, DestroyMutexes
  <2>. QED
    BY <1>5, <2>1, <2>2, <2>3, <2>4 DEF MainStep
<1>6. ASSUME Environment PROVE [Promise!Next]_(Promise!svars)
  <2>1. CASE TermHandler
    <3>1. endwork' \in BOOLEAN /\ (endwork => endwork')
      BY <2>1 DEF TermHandler
    <3>2. Promise!RequestEnd \/ UNCHANGED Promise!svars
      BY <2>1, <3>1 DEF TermHandler, Promise!RequestEnd
    <3>. QED
      BY <3>2 DEF Promise!Next
  <2>2. CASE Kill
    BY <2>2 DEF Kill, Promise!Die, Promise!Next
  <2>. QED
    BY <1>6, <2>1, <2>2 DEF Environment
<1>7. ASSUME UNCHANGED vars PROVE [Promise!Next]_(Promise!svars)
  BY <1>7 DEF vars
<1> HIDE DEF At, Goto, poolVars, flagVars, diskVars, mainVars, histVars, WorkerPCs,
   HasKey, Outputting, HoldsGen, HoldsOut, Files, IInv, TypeOK, MainPCs, KeyInHand,
   Places, Committed, Deciding, Counting, LateOnce, Joined, Phase, Alive, Limited,
   Promise!svars, Promise!Limited
<1>. QED
  BY <1>1, <1>2, <1>3, <1>4, <1>5, <1>6, <1>7 DEF Next, WorkerStep, Terminated

\* The detailed pool implements the abstract search: every run of WorkerPool is
\* a run of KeySearch under Phase and endwork (worker.c:76-143, main.c:730-883).
THEOREM PoolKeepsPromise == Spec => KeepsPromise
<1>1. Init => Promise!Init
  BY DEF Init, Promise!Init, Phase
<1>2. IInv /\ [Next]_vars => [Promise!Next]_(Promise!svars)
  BY PromiseStep
<1>. QED
  BY <1>1, <1>2, PoolInvariant, PTL DEF Spec, KeepsPromise, Promise!Spec
=============================================================================
