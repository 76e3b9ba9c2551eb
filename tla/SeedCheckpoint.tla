--------------------------- MODULE SeedCheckpoint ---------------------------
(***************************************************************************)
(* Passphrase mode: the seeds handed out to the workers from determseed,   *)
(* the thread that saves how far they got, and the runs that resume from   *)
(* the file after an orderly end, a kill or a loss of power                *)
(* (worker_batch_pass.inc.h, main.c:216-263, 656-675, 853-863).            *)
(*                                                                         *)
(* Seeds are counted from the one the passphrase expands to.  The file is  *)
(* an AtomicFile (SyncWrite implements it) and holds the seed it stands    *)
(* for (CheckpointCodec: saving and loading give the same seed back).  One *)
(* step is one byte of determseed where two threads may meet in it.        *)
(***************************************************************************)
EXTENDS Naturals, FiniteSets

CONSTANTS
    Workers,   \* worker threads
    Saver,     \* the thread of checkpointworker
    NoOne,
    Base,      \* values of a byte
    Len,       \* bytes of a seed
    LastSeed,  \* bound: no seed after this one is started in place of another
    MaxRuns    \* bound: runs of the program, one after the other

ASSUME SeedAssumption ==
    /\ IsFiniteSet(Workers) /\ Saver \notin Workers
    /\ NoOne \notin Workers \cup {Saver}
    /\ Base \in Nat \ {0, 1} /\ Len \in Nat \ {0}
    /\ LastSeed \in Nat /\ MaxRuns \in Nat

Index == 0 .. Len - 1
Seed == [Index -> 0 .. Base - 1]
Zero == [j \in Index |-> 0]

\* The number of a seed, its first byte being the least significant one: that
\* of the bytes from j on is Above(s)[j].
Above(s) ==
    LET above[j \in 0 .. Len] == IF j = Len THEN 0 ELSE s[j] + Base * above[j + 1]
    IN  above
Number(s) == Above(s)[0]

VARIABLES
    det,          \* determseed
    lock,         \* holder of determseed_mutex
    wpc, seed, k, \* each worker: where it is, its seed, its byte loop
    spc, cp, sk,  \* the saver: where it is, the seed it read, its byte loop
    mpc,          \* the main thread
    endwork,
    checkpointer_endwork,
    content, survivors,  \* the checkpoint file
    handed,       \* history: seeds handed out in this run
    searched,     \* history: seeds searched to their end in any run
    runs,         \* history: runs so far
    saveFailed    \* history: a save of this run failed

workerVars == <<wpc, seed, k>>
saverVars == <<spc, cp, sk>>
fileVars == <<content, survivors>>
vars == <<det, lock, workerVars, saverVars, mpc, endwork, checkpointer_endwork,
          fileVars, handed, searched, runs, saveFailed>>

\* An absent file and one of zeros both mean the passphrase's own seed.
File == INSTANCE AtomicFile WITH Contents <- Seed

Boot ==
    /\ lock = NoOne
    /\ wpc = [w \in Workers |-> "initseed"]
    /\ seed = [w \in Workers |-> Zero]
    /\ k = [w \in Workers |-> 0]
    /\ spc = "wait" /\ cp = Zero /\ sk = 0
    /\ mpc = "poll"
    /\ endwork = FALSE /\ checkpointer_endwork = FALSE
    /\ handed = {} /\ saveFailed = FALSE

Init ==
    /\ Boot
    /\ det = Zero
    /\ content = Zero /\ survivors = {Zero}
    /\ searched = {} /\ runs = 1

\* The same of the next state.
Rebooted ==
    /\ lock' = NoOne
    /\ wpc' = [w \in Workers |-> "initseed"]
    /\ seed' = [w \in Workers |-> Zero]
    /\ k' = [w \in Workers |-> 0]
    /\ spc' = "wait" /\ cp' = Zero /\ sk' = 0
    /\ mpc' = "poll"
    /\ endwork' = FALSE /\ checkpointer_endwork' = FALSE
    /\ handed' = {} /\ saveFailed' = FALSE

Up == mpc \notin {"exited", "down"}
Goto(w, l) == wpc' = [wpc EXCEPT ![w] = l]

(***************************************************************************)
(* The workers: take the next seed, search it.                             *)
(***************************************************************************)

\* Mutant of LockSeed: the mutex is not waited for.
LockSeedFreely(w) ==
    /\ Up /\ wpc[w] = "initseed"
    /\ lock' = w
    /\ k' = [k EXCEPT ![w] = 0]
    /\ Goto(w, "increment")
    /\ UNCHANGED <<det, seed, saverVars, mpc, endwork, checkpointer_endwork, fileVars,
                   handed, searched, runs, saveFailed>>

LockSeed(w) ==
    /\ Up /\ wpc[w] = "initseed"
    /\ lock = NoOne
    /\ lock' = w
    /\ k' = [k EXCEPT ![w] = 0]
    /\ Goto(w, "increment")
    /\ UNCHANGED <<det, seed, saverVars, mpc, endwork, checkpointer_endwork, fileVars,
                   handed, searched, runs, saveFailed>>

Successor(d) == (d + 1) % Base

\* One turn of the loop: the next byte is the carry's if this one became zero.
IncrementByte(w) ==
    /\ Up /\ wpc[w] = "increment"
    /\ det' = [det EXCEPT ![k[w]] = Successor(@)]
    /\ k' = [k EXCEPT ![w] = @ + 1]
    /\ IF det'[k[w]] # 0 \/ k[w] = Len - 1
          THEN Goto(w, "copy")
          ELSE UNCHANGED wpc
    /\ UNCHANGED <<lock, seed, saverVars, mpc, endwork, checkpointer_endwork, fileVars,
                   handed, searched, runs, saveFailed>>

\* Mutant of CopySeed: the mutex is not unlocked.
CopySeedKeepsLock(w) ==
    /\ Up /\ wpc[w] = "copy"
    /\ seed' = [seed EXCEPT ![w] = det]
    /\ handed' = handed \cup {Number(det)}
    /\ Goto(w, "head")
    /\ UNCHANGED <<det, lock, k, saverVars, mpc, endwork, checkpointer_endwork, fileVars,
                   searched, runs, saveFailed>>

\* memcpy and unlock.
CopySeed(w) ==
    /\ Up /\ wpc[w] = "copy"
    /\ seed' = [seed EXCEPT ![w] = det]
    /\ lock' = NoOne
    /\ handed' = handed \cup {Number(det)}
    /\ Goto(w, "head")
    /\ UNCHANGED <<det, k, saverVars, mpc, endwork, checkpointer_endwork, fileVars,
                   searched, runs, saveFailed>>

\* The head of the batch loop: endwork ends the thread and its seed.
StartBatch(w) ==
    /\ Up /\ wpc[w] = "head"
    /\ Goto(w, IF endwork THEN "done" ELSE "search")
    /\ UNCHANGED <<det, lock, seed, k, saverVars, mpc, endwork, checkpointer_endwork,
                   fileVars, handed, searched, runs, saveFailed>>

NextBatch(w) ==
    /\ Up /\ wpc[w] = "search"
    /\ Goto(w, "head")
    /\ UNCHANGED <<det, lock, seed, k, saverVars, mpc, endwork, checkpointer_endwork,
                   fileVars, handed, searched, runs, saveFailed>>

\* That was the last batch of the seed (or --skipnear, or an overflow of the
\* scalar, says to leave it).
FinishSeed(w) ==
    /\ Up /\ wpc[w] = "search"
    /\ Number(det) < LastSeed
    /\ searched' = searched \cup {Number(seed[w])}
    /\ Goto(w, "initseed")
    /\ UNCHANGED <<det, lock, seed, k, saverVars, mpc, endwork, checkpointer_endwork,
                   fileVars, handed, runs, saveFailed>>

(***************************************************************************)
(* The saver.                                                              *)
(***************************************************************************)

\* Mutant of LockSave: determseed is read without its mutex.
LockSaveFreely ==
    /\ Up /\ spc = "wait"
    /\ lock' = lock
    /\ spc' = IF checkpointer_endwork THEN "readlast" ELSE "read"
    /\ sk' = 0
    /\ UNCHANGED <<det, workerVars, cp, mpc, endwork, checkpointer_endwork, fileVars,
                   handed, searched, runs, saveFailed>>

\* Five minutes have passed, or the thread was told to end: the last save.
LockSave ==
    /\ Up /\ spc = "wait"
    /\ lock = NoOne
    /\ lock' = Saver
    /\ spc' = IF checkpointer_endwork THEN "readlast" ELSE "read"
    /\ sk' = 0
    /\ UNCHANGED <<det, workerVars, cp, mpc, endwork, checkpointer_endwork, fileVars,
                   handed, searched, runs, saveFailed>>

Last(l) == CASE l = "read" -> "write" [] l = "readlast" -> "writelast"
             [] l = "write" -> "sync" [] l = "writelast" -> "synclast"
             [] l = "sync" -> "wait"  [] l = "synclast" -> "stopped"

\* One turn of the loop of savecheckpoint; the last one unlocks.
ReadByte ==
    /\ Up /\ spc \in {"read", "readlast"}
    /\ cp' = [cp EXCEPT ![sk] = det[sk]]
    /\ sk' = sk + 1
    /\ IF sk = Len - 1
          THEN spc' = Last(spc) /\ lock' = (IF lock = Saver THEN NoOne ELSE lock)
          ELSE UNCHANGED <<spc, lock>>
    /\ UNCHANGED <<det, workerVars, mpc, endwork, checkpointer_endwork, fileVars, handed,
                   searched, runs, saveFailed>>

\* syncwrite up to its rename; an error is printed and the old file stays.
WriteFile ==
    /\ Up /\ spc \in {"write", "writelast"}
    /\ \/ File!Replace(cp) /\ UNCHANGED saveFailed
       \/ UNCHANGED fileVars /\ saveFailed' = TRUE
    /\ spc' = Last(spc)
    /\ UNCHANGED <<det, lock, workerVars, cp, sk, mpc, endwork, checkpointer_endwork,
                   handed, searched, runs>>

\* fsync of the directory, whose failure is ignored.
SyncDir ==
    /\ Up /\ spc \in {"sync", "synclast"}
    /\ File!Commit \/ UNCHANGED fileVars
    /\ spc' = Last(spc)
    /\ UNCHANGED <<det, lock, workerVars, cp, sk, mpc, endwork, checkpointer_endwork,
                   handed, searched, runs, saveFailed>>

(***************************************************************************)
(* The main thread and the outside.                                        *)
(***************************************************************************)

EndWork ==
    /\ Up
    /\ endwork' = TRUE
    /\ UNCHANGED <<det, lock, workerVars, saverVars, mpc, checkpointer_endwork, fileVars,
                   handed, searched, runs, saveFailed>>

\* Mutant of StopSaver: the saver is told to end before the workers have.
StopSaverEarly ==
    /\ mpc = "poll" /\ endwork
    /\ checkpointer_endwork' = TRUE
    /\ mpc' = "joinsaver"
    /\ UNCHANGED <<det, lock, workerVars, saverVars, endwork, fileVars, handed, searched,
                   runs, saveFailed>>

\* The polling loop ends, the workers are joined, then the saver is told.
StopSaver ==
    /\ mpc = "poll" /\ endwork
    /\ \A w \in Workers : wpc[w] = "done"
    /\ checkpointer_endwork' = TRUE
    /\ mpc' = "joinsaver"
    /\ UNCHANGED <<det, lock, workerVars, saverVars, endwork, fileVars, handed, searched,
                   runs, saveFailed>>

JoinSaver ==
    /\ mpc = "joinsaver" /\ spc = "stopped"
    /\ mpc' = "exited"
    /\ UNCHANGED <<det, lock, workerVars, saverVars, endwork, checkpointer_endwork,
                   fileVars, handed, searched, runs, saveFailed>>

\* The process is killed; the file stays as it is seen.
Kill ==
    /\ Up
    /\ mpc' = "down"
    /\ UNCHANGED <<det, lock, workerVars, saverVars, endwork, checkpointer_endwork,
                   fileVars, handed, searched, runs, saveFailed>>

\* Power is lost, during the run or after it.
PowerLoss ==
    /\ mpc # "down"
    /\ File!Crash
    /\ mpc' = "down"
    /\ UNCHANGED <<det, lock, workerVars, saverVars, endwork, checkpointer_endwork,
                   handed, searched, runs, saveFailed>>

\* Mutant of Restart: the file is not loaded.
RestartFromZero ==
    /\ ~Up /\ runs < MaxRuns
    /\ Rebooted
    /\ det' = Zero
    /\ runs' = runs + 1
    /\ UNCHANGED <<fileVars, searched>>

\* Another run with the same passphrase and checkpoint file.
Restart ==
    /\ ~Up /\ runs < MaxRuns
    /\ Rebooted
    /\ det' = content
    /\ runs' = runs + 1
    /\ UNCHANGED <<fileVars, searched>>

Terminated == ~Up /\ runs = MaxRuns /\ UNCHANGED vars

WorkerStep(w) ==
    \/ LockSeed(w) \/ IncrementByte(w) \/ CopySeed(w)
    \/ StartBatch(w) \/ NextBatch(w) \/ FinishSeed(w)

SaverStep == LockSave \/ ReadByte \/ WriteFile \/ SyncDir
MainStep == StopSaver \/ JoinSaver

Next ==
    \/ \E w \in Workers : WorkerStep(w)
    \/ SaverStep
    \/ MainStep
    \/ EndWork \/ Kill \/ PowerLoss \/ Restart
    \/ Terminated

Spec == Init /\ [][Next]_vars

\* The threads run, and the saver leaves the mutex alone for five minutes
\* between two saves, so a worker that waits for it gets it.
Fairness ==
    /\ \A w \in Workers : WF_vars(WorkerStep(w)) /\ SF_vars(LockSeed(w))
    /\ WF_vars(SaverStep)
    /\ WF_vars(MainStep)

FairSpec == Spec /\ Fairness

(***************************************************************************)
(* Properties.                                                             *)
(***************************************************************************)

\* Every variable has its type.
TypeOK ==
    /\ det \in Seed /\ cp \in Seed /\ content \in Seed
    /\ seed \in [Workers -> Seed]
    /\ survivors \in SUBSET Seed
    /\ lock \in Workers \cup {Saver, NoOne}
    /\ wpc \in [Workers -> {"initseed", "increment", "copy", "head", "search", "done"}]
    /\ k \in [Workers -> 0 .. Len] /\ sk \in 0 .. Len
    /\ spc \in {"wait", "read", "readlast", "write", "writelast", "sync", "synclast",
                "stopped"}
    /\ mpc \in {"poll", "joinsaver", "exited", "down"}
    /\ {endwork, checkpointer_endwork, saveFailed} \subseteq BOOLEAN
    /\ handed \in SUBSET Nat /\ searched \in SUBSET Nat /\ runs \in Nat

\* Two workers never search the same seed at the same time, though a carry may
\* run through several bytes (worker_batch_pass.inc.h:51-56).
DistinctSeeds ==
    \A v, w \in Workers :
        v # w /\ {wpc[v], wpc[w]} \subseteq {"head", "search"} => seed[v] # seed[w]

\* The file never stands for a seed that was not handed out: no loss of power,
\* kill or torn read makes a run skip seeds nobody took, beyond the ones given
\* up, at most one for each worker of each run (main.c:220-225, 669-673).
FewSeedsSkipped ==
    Cardinality((1 .. Number(content)) \ searched) <= Cardinality(Workers) * runs

\* An orderly end whose saves succeeded leaves a file that stands for the last
\* seed handed out: the next run repeats none (main.c:856-862, 260).
NothingRepeatedAfterEnd ==
    mpc = "exited" /\ ~saveFailed => \A s \in handed : s <= Number(content)

\* Only a loss of power takes the checkpoint back; neither a save nor a new run
\* does (main.c:656-675, 216-232).
OnlyForward == [][Number(content') < Number(content) => mpc' = "down"]_vars

\* Being told to end ends the workers and then the saver, though all of them
\* keep asking for the same mutex (main.c:853-862).
EndsWhenTold == endwork /\ Up ~> ~Up
=============================================================================
