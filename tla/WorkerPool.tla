----------------------------- MODULE WorkerPool -----------------------------
(***************************************************************************)
(* The CPU mode of mkp224o: the main thread (main.c), the worker threads   *)
(* (worker_batch.inc.h, worker_batch_pass.inc.h) and the output of a match *)
(* (onionready in worker.c, yamlout_writekeys in yaml.c), with the signal  *)
(* handler and the failures of the file system they meet.                  *)
(*                                                                         *)
(* One step is one access to shared state: a read or write of endwork or   *)
(* keysgenerated, a lock or an unlock, one file or stdio call.  What is    *)
(* searched is abstracted: a batch has no (further) match or has one, and  *)
(* each match is a different key.  Keys is finite, which bounds a run.     *)
(***************************************************************************)
EXTENDS Naturals, FiniteSets

CONSTANTS
    Workers,    \* worker threads
    Keys,       \* keys the search can come upon (the bound of a run)
    NumNeed,    \* numneedgenerate: -n NUMKEYS, 0 is unlimited
    Yaml,       \* yamloutput: -y instead of directories
    HasFout,    \* fout # 0: onion names go to stdout or to -o
    KeepSeed,   \* passphrase mode without --skipnear goes on in the same batch
    OldDirs,    \* keys whose directory an earlier run left behind
    Faults,     \* subset of {"disk", "spawn", "kill"}: what may go wrong
    NoKey, NoOne

ASSUME PoolAssumption ==
    /\ Workers # {} /\ NoOne \notin Workers /\ NoKey \notin Keys
    /\ NumNeed \in Nat
    /\ {Yaml, HasFout, KeepSeed} \subseteq BOOLEAN
    /\ OldDirs \subseteq Keys
    /\ Yaml => HasFout
    /\ Faults \subseteq {"disk", "spawn", "kill"}

VARIABLES
    pc,            \* where each worker is
    cur,           \* the key each worker has matched
    endwork,       \* volatile int endwork
    keysgenerated, \* volatile size_t keysgenerated
    genLock,       \* holder of keysgenerated_mutex
    outLock,       \* holder of fout_mutex
    mutexes,       \* FALSE once main has destroyed them
    dirs,          \* key directories that exist
    written,       \* <<key, file>> this run has written completely
    outbuf,        \* names (or records) in fout's stdio buffer
    out,           \* names (or records) that have reached the file
    mpc,           \* where main is; "exited" and "dead" end the process
    found, accepted, settled, reported, late, interrupted  \* history

poolVars == <<pc, cur, genLock, outLock>>
flagVars == <<endwork, keysgenerated>>
diskVars == <<dirs, written, outbuf, out>>
mainVars == <<mpc, mutexes>>
histVars == <<found, accepted, settled, reported, late, interrupted>>
vars == <<poolVars, flagVars, diskVars, mainVars, histVars>>

Files == {"hs_ed25519_secret_key", "hs_ed25519_public_key", "hostname"}

Limited == NumNeed # 0
Alive == mpc \notin {"exited", "dead"}

\* Where a worker goes when onionready returns: to the rest of its batch when
\* it keeps its seed, to a new seed (and the check of endwork) otherwise.
Resume == IF KeepSeed THEN "filter" ELSE "batch"

Init ==
    /\ pc = [w \in Workers |-> "unborn"]
    /\ cur = [w \in Workers |-> NoKey]
    /\ endwork = FALSE
    /\ keysgenerated = 0
    /\ genLock = NoOne
    /\ outLock = NoOne
    /\ mutexes = TRUE
    /\ dirs = OldDirs
    /\ written = {}
    /\ outbuf = {}
    /\ out = {}
    /\ mpc = "spawn"
    /\ found = {} /\ accepted = {} /\ settled = {} /\ reported = {}
    /\ late = [w \in Workers |-> 0]
    /\ interrupted = FALSE

At(w, l) == Alive /\ pc[w] = l
Goto(w, l) == pc' = [pc EXCEPT ![w] = l]

\* onionready returns: the output of the key in hand has come to its end.
Settle(w) ==
    /\ Goto(w, Resume)
    /\ cur' = [cur EXCEPT ![w] = NoKey]
    /\ settled' = settled \cup {cur[w]}
    /\ UNCHANGED <<found, accepted, reported, late, interrupted>>

Reject(w) ==
    /\ Goto(w, Resume)
    /\ cur' = [cur EXCEPT ![w] = NoKey]
    /\ UNCHANGED histVars

Accept(w) ==
    /\ accepted' = accepted \cup {cur[w]}
    /\ late' = IF endwork THEN [late EXCEPT ![w] = @ + 1] ELSE late
    /\ UNCHANGED <<found, settled, reported, interrupted>>

\* Mutant of Acquire: the mutex is not waited for.
AcquireFreely(lock, w) == lock' = w

Acquire(lock, w) == lock = NoOne /\ lock' = w

(***************************************************************************)
(* The search loop.                                                        *)
(***************************************************************************)

\* The head of the batch loop: endwork is looked at once per batch.
\* Mutant of StartBatch: the batch loop does not look at endwork.
StartBatchBlind(w) ==
    /\ At(w, "batch")
    /\ Goto(w, "filter")
    /\ UNCHANGED <<cur, genLock, outLock, flagVars, diskVars, mainVars, histVars>>

StartBatch(w) ==
    /\ At(w, "batch")
    /\ Goto(w, IF endwork THEN "done" ELSE "filter")
    /\ UNCHANGED <<cur, genLock, outLock, flagVars, diskVars, mainVars, histVars>>

\* No (further) key of the batch matches, or the one that does has a secret
\* that is no longer clamped and is dropped.
NoMatch(w) ==
    /\ At(w, "filter")
    /\ Goto(w, "batch")
    /\ UNCHANGED <<cur, genLock, outLock, flagVars, diskVars, mainVars, histVars>>

Match(w) ==
    /\ At(w, "filter")
    /\ \E k \in Keys \ found :
          /\ cur' = [cur EXCEPT ![w] = k]
          /\ found' = found \cup {k}
    /\ Goto(w, "ready")
    /\ UNCHANGED <<genLock, outLock, flagVars, diskVars, mainVars, accepted, settled,
                   reported, late, interrupted>>

(***************************************************************************)
(* onionready: is the key still wanted?                                    *)
(***************************************************************************)

Output == IF Yaml THEN "lockout" ELSE "createdir"

ReadyEnded(w) ==
    /\ At(w, "ready") /\ endwork
    /\ Reject(w)
    /\ UNCHANGED <<genLock, outLock, flagVars, diskVars, mainVars>>

ReadyUnlimited(w) ==
    /\ At(w, "ready") /\ ~endwork /\ ~Limited
    /\ Accept(w)
    /\ Goto(w, Output)
    /\ UNCHANGED <<cur, genLock, outLock, flagVars, diskVars, mainVars>>

\* Mutant of ReadyLimited: onionready does not look at endwork.
ReadyLimitedBlind(w) ==
    /\ At(w, "ready") /\ Limited
    /\ Goto(w, "lockgen")
    /\ UNCHANGED <<cur, genLock, outLock, flagVars, diskVars, mainVars, histVars>>

ReadyLimited(w) ==
    /\ At(w, "ready") /\ ~endwork /\ Limited
    /\ Goto(w, "lockgen")
    /\ UNCHANGED <<cur, genLock, outLock, flagVars, diskVars, mainVars, histVars>>

LockGenerated(w) ==
    /\ At(w, "lockgen")
    /\ Acquire(genLock, w)
    /\ Goto(w, "check")
    /\ UNCHANGED <<cur, outLock, flagVars, diskVars, mainVars, histVars>>

\* The second look, under the mutex: another worker took the last place.
CheckFull(w) ==
    /\ At(w, "check") /\ keysgenerated >= NumNeed
    /\ genLock' = NoOne
    /\ Reject(w)
    /\ UNCHANGED <<outLock, flagVars, diskVars, mainVars>>

\* Mutant of CheckRoom: one key too many.
CheckRoomOffByOne(w) ==
    /\ At(w, "check") /\ keysgenerated <= NumNeed
    /\ Goto(w, "count")
    /\ UNCHANGED <<cur, genLock, outLock, flagVars, diskVars, mainVars, histVars>>

CheckRoom(w) ==
    /\ At(w, "check") /\ keysgenerated < NumNeed
    /\ Goto(w, "count")
    /\ UNCHANGED <<cur, genLock, outLock, flagVars, diskVars, mainVars, histVars>>

CountKey(w) ==
    /\ At(w, "count")
    /\ keysgenerated' = keysgenerated + 1
    /\ Accept(w)
    /\ Goto(w, "quota")
    /\ UNCHANGED <<cur, genLock, outLock, endwork, diskVars, mainVars>>

\* Mutant of CheckQuota: the pool is told one key too late.
CheckQuotaLate(w) ==
    /\ At(w, "quota")
    /\ endwork' = (endwork \/ keysgenerated > NumNeed)
    /\ genLock' = NoOne
    /\ Goto(w, Output)
    /\ UNCHANGED <<cur, outLock, keysgenerated, diskVars, mainVars, histVars>>

\* The last place was taken: tell everybody; then unlock.
CheckQuota(w) ==
    /\ At(w, "quota")
    /\ endwork' = (endwork \/ keysgenerated = NumNeed)
    /\ genLock' = NoOne
    /\ Goto(w, Output)
    /\ UNCHANGED <<cur, outLock, keysgenerated, diskVars, mainVars, histVars>>

(***************************************************************************)
(* onionready: the output of the key.                                      *)
(***************************************************************************)

\* Mutant of CreateDir: a directory that is there already will do.
CreateDirOrReuse(w) ==
    /\ At(w, "createdir")
    /\ dirs' = dirs \cup {cur[w]}
    /\ Goto(w, "hs_ed25519_secret_key")
    /\ UNCHANGED <<cur, genLock, outLock, flagVars, written, outbuf, out, mainVars, histVars>>

CreateDir(w) ==
    /\ At(w, "createdir")
    /\ \/ /\ cur[w] \notin dirs
          /\ dirs' = dirs \cup {cur[w]}
          /\ Goto(w, "hs_ed25519_secret_key")
       \/ /\ cur[w] \in dirs \/ "disk" \in Faults   \* EEXIST, or any other failure
          /\ dirs' = dirs
          /\ Goto(w, "lockerr")
    /\ UNCHANGED <<cur, genLock, outLock, flagVars, written, outbuf, out, mainVars, histVars>>

LockError(w) ==
    /\ At(w, "lockerr")
    /\ Acquire(outLock, w)
    /\ Goto(w, "report")
    /\ UNCHANGED <<cur, genLock, flagVars, diskVars, mainVars, histVars>>

\* Mutant of ReportError: the error path forgets to unlock.
ReportErrorKeepsLock(w) ==
    /\ At(w, "report")
    /\ reported' = reported \cup {cur[w]}
    /\ settled' = settled \cup {cur[w]}
    /\ Goto(w, Resume)
    /\ cur' = [cur EXCEPT ![w] = NoKey]
    /\ UNCHANGED <<genLock, outLock, flagVars, diskVars, mainVars, found, accepted, late,
                   interrupted>>

\* The error is printed and onionready returns; keysgenerated keeps its count.
ReportError(w) ==
    /\ At(w, "report")
    /\ reported' = reported \cup {cur[w]}
    /\ settled' = settled \cup {cur[w]}
    /\ outLock' = NoOne
    /\ Goto(w, Resume)
    /\ cur' = [cur EXCEPT ![w] = NoKey]
    /\ UNCHANGED <<genLock, flagVars, diskVars, mainVars, found, accepted, late, interrupted>>

\* Mutant of After: the name is announced before hostname is written.
AfterEager(f) == IF f = "hs_ed25519_secret_key" THEN "hs_ed25519_public_key"
                 ELSE IF HasFout THEN "lockout" ELSE "return"

After(f) == CASE f = "hs_ed25519_secret_key" -> "hs_ed25519_public_key"
              [] f = "hs_ed25519_public_key" -> "hostname"
              [] f = "hostname" -> IF HasFout THEN "lockout" ELSE "return"

\* writetofile twice, then fopen and fwrite: no result is looked at.
WriteFile(w, f) ==
    /\ At(w, f)
    /\ \/ written' = written \cup {<<cur[w], f>>}
       \/ "disk" \in Faults /\ written' = written
    /\ Goto(w, After(f))
    /\ UNCHANGED <<cur, genLock, outLock, flagVars, dirs, outbuf, out, mainVars, histVars>>

ReturnQuiet(w) ==
    /\ At(w, "return")
    /\ Settle(w)
    /\ UNCHANGED <<genLock, outLock, flagVars, diskVars, mainVars>>

LockOut(w) ==
    /\ At(w, "lockout")
    /\ Acquire(outLock, w)
    /\ Goto(w, "fwrite")
    /\ UNCHANGED <<cur, genLock, flagVars, diskVars, mainVars, histVars>>

WriteName(w) ==
    /\ At(w, "fwrite")
    /\ outbuf' = outbuf \cup {cur[w]}
    /\ Goto(w, "fflush")
    /\ UNCHANGED <<cur, genLock, outLock, flagVars, dirs, written, out, mainVars, histVars>>

\* Mutant of FlushName: no fflush.
FlushNameNever(w) ==
    /\ At(w, "fflush")
    /\ outLock' = NoOne
    /\ Settle(w)
    /\ UNCHANGED <<genLock, flagVars, diskVars, mainVars>>

\* fflush and unlock.
FlushName(w) ==
    /\ At(w, "fflush")
    /\ out' = out \cup outbuf
    /\ outbuf' = {}
    /\ outLock' = NoOne
    /\ Settle(w)
    /\ UNCHANGED <<genLock, flagVars, dirs, written, mainVars>>

(***************************************************************************)
(* The main thread.                                                        *)
(***************************************************************************)

Spawn(w) ==
    /\ mpc = "spawn"
    /\ pc[w] = "unborn"
    /\ Goto(w, "batch")
    /\ mpc' = IF \A v \in Workers \ {w} : pc[v] # "unborn" THEN "poll" ELSE "spawn"
    /\ UNCHANGED <<cur, genLock, outLock, flagVars, diskVars, mutexes, histVars>>

\* pthread_create failed: exit(1), whatever the threads made before are doing.
SpawnFail ==
    /\ mpc = "spawn" /\ "spawn" \in Faults
    /\ mpc' = "dead"
    /\ out' = out \cup outbuf
    /\ outbuf' = {}
    /\ UNCHANGED <<poolVars, flagVars, dirs, written, mutexes, histVars>>

PollEndwork ==
    /\ mpc = "poll"
    /\ mpc' = IF endwork THEN "join" ELSE "count"
    /\ UNCHANGED <<poolVars, flagVars, diskVars, mutexes, histVars>>

\* The other exit of the loop; without it main sleeps and polls again.
PollCount ==
    /\ mpc = "count"
    /\ IF Limited /\ keysgenerated >= NumNeed
          THEN endwork' = TRUE /\ mpc' = "join"
          ELSE endwork' = endwork /\ mpc' = "poll"
    /\ UNCHANGED <<poolVars, keysgenerated, diskVars, mutexes, histVars>>

\* Mutant of JoinWorkers: the threads are not waited for.
JoinNobody ==
    /\ mpc = "join"
    /\ mpc' = "destroy"
    /\ UNCHANGED <<poolVars, flagVars, diskVars, mutexes, histVars>>

JoinWorkers ==
    /\ mpc = "join"
    /\ \A w \in Workers : pc[w] = "done"
    /\ mpc' = "destroy"
    /\ UNCHANGED <<poolVars, flagVars, diskVars, mutexes, histVars>>

DestroyMutexes ==
    /\ mpc = "destroy"
    /\ mutexes' = FALSE
    /\ mpc' = "close"
    /\ UNCHANGED <<poolVars, flagVars, diskVars, histVars>>

\* fclose(fout), or the end of main for stdout.
CloseOut ==
    /\ mpc = "close"
    /\ out' = out \cup outbuf
    /\ outbuf' = {}
    /\ mpc' = "exited"
    /\ UNCHANGED <<poolVars, flagVars, dirs, written, mutexes, histVars>>

(***************************************************************************)
(* The environment.                                                        *)
(***************************************************************************)

\* SIGINT or SIGTERM, at any time after the handlers were installed.
TermHandler ==
    /\ Alive
    /\ endwork' = TRUE
    /\ interrupted' = TRUE
    /\ UNCHANGED <<poolVars, keysgenerated, diskVars, mainVars, found, accepted, settled,
                   reported, late>>

\* SIGKILL, or the same signal again: -std=c99 gives signal() the System V
\* semantics, which restores the default action when the handler is entered.
Kill ==
    /\ Alive /\ "kill" \in Faults
    /\ mpc' = "dead"
    /\ UNCHANGED <<poolVars, flagVars, diskVars, mutexes, histVars>>

Environment == TermHandler \/ Kill

Terminated == ~Alive /\ UNCHANGED vars

Search(w) == StartBatch(w) \/ NoMatch(w) \/ Match(w)

Decide(w) ==
    \/ ReadyEnded(w) \/ ReadyUnlimited(w) \/ ReadyLimited(w)
    \/ LockGenerated(w) \/ CheckFull(w) \/ CheckRoom(w) \/ CountKey(w) \/ CheckQuota(w)

Store(w) ==
    \/ CreateDir(w) \/ LockError(w) \/ ReportError(w)
    \/ \E f \in Files : WriteFile(w, f)

Announce(w) == ReturnQuiet(w) \/ LockOut(w) \/ WriteName(w) \/ FlushName(w)

WorkerStep(w) == Search(w) \/ Decide(w) \/ Store(w) \/ Announce(w)

MainStep ==
    \/ \E w \in Workers : Spawn(w)
    \/ SpawnFail
    \/ PollEndwork \/ PollCount
    \/ JoinWorkers \/ DestroyMutexes \/ CloseOut

Next ==
    \/ \E w \in Workers : WorkerStep(w)
    \/ MainStep
    \/ Environment
    \/ Terminated

Spec == Init /\ [][Next]_vars

\* Threads that can run do run: the scheduler starves none of them.
Fairness ==
    /\ \A w \in Workers : WF_vars(WorkerStep(w))
    /\ WF_vars(MainStep)

FairSpec == Spec /\ Fairness

(***************************************************************************)
(* Types.                                                                  *)
(***************************************************************************)

HoldsGen == {"check", "count", "quota"}
HoldsOut == {"report", "fwrite", "fflush"}
Outputting == Files \cup HoldsOut \cup {"createdir", "lockerr", "return", "lockout"}
HasKey == Outputting \cup HoldsGen \cup {"ready", "lockgen"}
WorkerPCs == HasKey \cup {"unborn", "batch", "filter", "done"}
MainPCs == {"spawn", "poll", "count", "join", "destroy", "close", "exited", "dead"}

\* Every variable has its type.
TypeOK ==
    /\ pc \in [Workers -> WorkerPCs]
    /\ cur \in [Workers -> Keys \cup {NoKey}]
    /\ endwork \in BOOLEAN
    /\ keysgenerated \in Nat
    /\ genLock \in Workers \cup {NoOne}
    /\ outLock \in Workers \cup {NoOne}
    /\ mutexes \in BOOLEAN
    /\ dirs \in SUBSET Keys
    /\ written \in SUBSET (Keys \X Files)
    /\ outbuf \in SUBSET Keys
    /\ out \in SUBSET Keys
    /\ mpc \in MainPCs
    /\ found \in SUBSET Keys
    /\ accepted \in SUBSET Keys
    /\ settled \in SUBSET Keys
    /\ reported \in SUBSET Keys
    /\ late \in [Workers -> Nat]
    /\ interrupted \in BOOLEAN

(***************************************************************************)
(* Safety.                                                                 *)
(***************************************************************************)

\* A run with -n NUMKEYS never outputs more keys than asked for, however the
\* workers that found one at the same time interleave (worker.c:81-91).
QuotaRespected == Limited => Cardinality(accepted) <= NumNeed

\* A full quota is never a secret of the worker that filled it: the moment it
\* lets go of the mutex the whole pool has been told to stop (worker.c:88-90).
QuotaEndsRun ==
    Limited /\ keysgenerated >= NumNeed => endwork \/ genLock # NoOne

\* After ^C, SIGTERM or the last key each worker outputs at most the key it had
\* in hand, even when its batch holds more (worker.c:78, worker_batch_pass).
OneLateKey == \A w \in Workers : late[w] <= 1

\* main destroys the mutexes and closes the output only when no worker can
\* still lock one or write to it (main.c:856-881).
QuietTeardown ==
    ~mutexes \/ mpc = "close" =>
        /\ genLock = NoOne /\ outLock = NoOne
        /\ \A w \in Workers : pc[w] = "done"

\* No accepted key is lost by an orderly end: its output was carried through or
\* its failure reported before the program returns (main.c:856).
NothingLostAtExit == mpc = "exited" => settled = accepted

\* A name is printed only when the key's three files are complete, so a name
\* in the list can be used even if the process died right after (worker.c:112-137).
AnnouncedOnDisk ==
    ~Yaml => \A k \in out \cup outbuf, f \in Files : <<k, f>> \in written

\* Nothing is left in the stdio buffer once fout_mutex is free, so being killed
\* loses no name of a key that was settled (worker.c:136-138, yaml.c:127-129).
NoNameLostByKill ==
    HasFout => settled \ reported \subseteq out

\* The directory of a key found by an earlier run is never written into
\* (createdir is mkdir, which fails for it: ioutil.c:60-63, worker.c:105).
OldKeysKept == \A k \in OldDirs, f \in Files : <<k, f>> \notin written

(***************************************************************************)
(* Liveness.                                                               *)
(***************************************************************************)

\* Being told to end, or having found the keys asked for, ends the program,
\* whatever the workers were doing (main.c:783-857, worker.c:78-91).
Shutdown ==
    (endwork \/ (Limited /\ keysgenerated >= NumNeed)) ~> ~Alive

\* A key that was accepted does not get stuck between two mutexes: its output
\* is carried to its end unless the process dies (worker.c:104-142).
EveryKeySettled ==
    \A k \in Keys : k \in accepted ~> (k \in settled \/ mpc = "dead")

(***************************************************************************)
(* The pool keeps the promise of KeySearch.                                *)
(***************************************************************************)

Phase == IF mpc = "exited" THEN "finished" ELSE IF mpc = "dead" THEN "dead" ELSE "running"

Promise == INSTANCE KeySearch WITH closing <- endwork, phase <- Phase

\* Every step of the pool is a step of the abstract search, or none of its
\* business: worker.c:76-143 and main.c:730-883 against KeySearch.
KeepsPromise == Promise!Spec
=============================================================================
