--------------------------- MODULE SyncWriteProofs ---------------------------
(***************************************************************************)
(* syncwrite is atomic, for any contents, unless fsync is interrupted.     *)
(***************************************************************************)
EXTENDS SyncWrite, TLAPS

Complete == Values \cup {Absent}
WholeFile(f) == f.cached \in Complete /\ f.stable = f.cached

\* The inductive invariant: only whole files bear (or may come to bear) the
\* name, and a temporary file is whole on the disk before it is renamed.
IInv ==
    /\ TypeOK
    /\ \A f \in names : WholeFile(f)
    /\ dst \in names
    /\ pc # "idle" => data \in Values
    /\ pc = "fsync" => tmp.cached = data
    /\ pc \in {"close", "rename"} => tmp.cached = data /\ tmp.stable = data

\* The names and results of the file calls are these under IInv.
LEMMA SyncInit == Init => IInv
BY SyncAssumption DEF Init, IInv, TypeOK, File, Same, WholeFile, Complete

\* Without interruptions fsync either forces the file to the disk or fails, so
\* every step keeps the invariant.
LEMMA SyncStep ==
    ASSUME ~Interrupted, IInv, [Next]_vars
    PROVE  IInv'
<1>. USE SyncAssumption DEF IInv, TypeOK, File, Same, WholeFile, Complete, Return
<1>1. ASSUME NEW v \in Values, Call(v) PROVE IInv'
  BY <1>1 DEF Call
<1>2. CASE Open
  BY <1>2 DEF Open
<1>3. CASE Write
  BY <1>3 DEF Write
<1>4. CASE Fsync
  BY <1>4 DEF Fsync, Fsynced
<1>5. CASE Close
  BY <1>5 DEF Close
<1>6. CASE Rename
  BY <1>6 DEF Rename
<1>7. CASE Remove
  BY <1>7 DEF Remove
<1>8. CASE OpenDir
  BY <1>8 DEF OpenDir
<1>9. CASE FsyncDir
  BY <1>9 DEF FsyncDir
<1>10. CASE Crash
  BY <1>10 DEF Crash
<1>11. CASE UNCHANGED vars
  BY <1>11 DEF vars
<1> HIDE DEF IInv, TypeOK, File, Same, WholeFile, Complete, Return
<1>. QED
  BY <1>1, <1>2, <1>3, <1>4, <1>5, <1>6, <1>7, <1>8, <1>9, <1>10, <1>11 DEF Next

THEOREM SyncInvariant == ASSUME ~Interrupted PROVE Spec => []IInv
<1>1. IInv /\ [Next]_vars => IInv'
  BY SyncStep
<1>. QED
  BY <1>1, SyncInit, PTL DEF Spec

\* A crash at any point leaves a whole file (ioutil.c:65-102).
THEOREM SyncNeverTorn == ASSUME ~Interrupted PROVE Spec => []NeverTorn
<1>1. IInv => NeverTorn
  BY SyncAssumption DEF IInv, WholeFile, Complete, NeverTorn
<1>. QED
  BY <1>1, SyncInvariant, PTL

\* Each step replaces, commits, crashes or leaves the abstract file alone.
LEMMA AtomicStep ==
    ASSUME IInv, [Next]_vars
    PROVE  [Atomic!Next]_(Atomic!avars)
<1>. USE DEF Atomic!avars
<1>1. CASE Rename
  <2>1. CASE UNCHANGED <<tmp, dst, names>>
    BY <2>1 DEF Survivors
  <2>2. CASE dst' = tmp /\ names' = names \cup {tmp}
    <3>1. pc = "rename" /\ tmp.cached = data /\ tmp.stable = data /\ data \in Values
      BY <1>1 DEF Rename, IInv
    <3>2. dst'.cached = data
      BY <2>2, <3>1
    <3>3. Survivors' = Survivors \cup {data}
      BY <2>2, <3>1 DEF Survivors
    <3>. QED
      BY <3>1, <3>2, <3>3 DEF Atomic!Next, Atomic!Replace
  <2>. QED
    BY <1>1, <2>1, <2>2 DEF Rename
<1>2. CASE FsyncDir
  <2>1. CASE names' = names
    BY <1>2, <2>1 DEF FsyncDir, Survivors
  <2>2. CASE names' = {dst}
    BY <1>2, <2>2 DEF FsyncDir, Survivors, IInv, WholeFile, Atomic!Next, Atomic!Commit
  <2>. QED
    BY <1>2, <2>1, <2>2 DEF FsyncDir
<1>3. CASE Crash
  <2>1. PICK f \in names :
            \E v \in {f.cached, f.stable} : dst' = Same(v) /\ names' = {Same(v)}
    BY <1>3 DEF Crash
  <2>2. PICK v \in {f.cached, f.stable} : dst' = Same(v) /\ names' = {Same(v)}
    BY <2>1
  <2>3. dst'.cached = v /\ v \in Survivors /\ Survivors' = {v}
    BY <2>2 DEF Survivors, Same
  <2>. QED
    BY <2>3 DEF Atomic!Next, Atomic!Crash
<1>4. CASE \/ \E v \in Values : Call(v)
           \/ Open \/ Write \/ Fsync \/ Close \/ Remove \/ OpenDir \/ UNCHANGED vars
  <2>1. UNCHANGED <<dst, names>>
    BY <1>4 DEF Call, Open, Write, Fsync, Close, Remove, OpenDir, vars
  <2>. QED
    BY <2>1 DEF Survivors
<1>. QED
  BY <1>1, <1>2, <1>3, <1>4 DEF Next

\* syncwrite implements the atomic file (ioutil.c:104-179 against AtomicFile).
THEOREM SyncReplacesAtomically == ASSUME ~Interrupted PROVE Spec => ReplacesAtomically
<1>1. Init => Atomic!Init
  <2>1. SUFFICES ASSUME Init PROVE Atomic!Init
    OBVIOUS
  <2>2. PICK v \in Values \cup {Absent} : dst = Same(v) /\ names = {Same(v)}
    BY <2>1 DEF Init
  <2>3. dst.cached = v /\ Survivors = {v}
    BY <2>2 DEF Same, Survivors
  <2>. QED
    BY <2>3 DEF Atomic!Init
<1>2. IInv /\ [Next]_vars => [Atomic!Next]_(Atomic!avars)
  BY AtomicStep
<1>. QED
  BY <1>1, <1>2, SyncInvariant, PTL DEF Spec, ReplacesAtomically, Atomic!Spec
-----------------------------------------------------------------------------
(* What syncwrite keeps whether fsync can be interrupted or not. *)

\* Every variable of syncwrite has its type, whatever fails, loses power or is
\* interrupted, fsync included (ioutil.c:65-179).
THEOREM SyncTypes == Spec => []TypeOK
<1>1. Init => TypeOK
  BY DEF Init, TypeOK, File, Same
<1>2. TypeOK /\ [Next]_vars => TypeOK'
  <2>. SUFFICES ASSUME TypeOK, [Next]_vars PROVE TypeOK'
    OBVIOUS
  <2>. USE DEF TypeOK, File, Same, Return
  <2>1. ASSUME NEW v \in Values, Call(v) PROVE TypeOK'
    BY <2>1 DEF Call
  <2>2. CASE Open
    BY <2>2 DEF Open
  <2>3. CASE Write
    BY <2>3 DEF Write
  <2>4. CASE Fsync
    BY <2>4 DEF Fsync, Fsynced
  <2>5. CASE Close
    BY <2>5 DEF Close
  <2>6. CASE Rename
    BY <2>6 DEF Rename
  <2>7. CASE Remove
    BY <2>7 DEF Remove
  <2>8. CASE OpenDir
    BY <2>8 DEF OpenDir
  <2>9. CASE FsyncDir
    BY <2>9 DEF FsyncDir
  <2>10. CASE Crash
    BY <2>10 DEF Crash
  <2>11. CASE UNCHANGED vars
    BY <2>11 DEF vars
  <2> HIDE DEF TypeOK, File, Same, Return
  <2>. QED
    BY <2>1, <2>2, <2>3, <2>4, <2>5, <2>6, <2>7, <2>8, <2>9, <2>10, <2>11 DEF Next
<1>. QED
  BY <1>1, <1>2, PTL DEF Spec

\* Until the rename the file is the one from before the call, afterwards the one
\* asked for; the temporary file holds the latter once it is written.
ResultInv ==
    /\ tmp \in File
    /\ pc \in {"open", "write", "fsync", "close", "rename", "remove"} => dst = before
    /\ pc \in {"fsync", "close", "rename"} => tmp.cached = data
    /\ pc \in {"opendir", "fsyncdir"} => dst.cached = data
    /\ HonestResult
    /\ data \in Values \cup {Partial}

\* syncwrite never reports a file as replaced that is not, nor the reverse
\* (ioutil.c:119-124).
THEOREM SyncHonestResult == Spec => []HonestResult
<1>. USE DEF File, Same, HonestResult
<1>1. Init => ResultInv
  BY DEF Init, ResultInv
<1>2. ResultInv /\ [Next]_vars => ResultInv'
  <2>. SUFFICES ASSUME ResultInv, [Next]_vars PROVE ResultInv'
    OBVIOUS
  <2>. USE DEF ResultInv, Return
  <2>1. ASSUME NEW v \in Values, Call(v) PROVE ResultInv'
    BY <2>1 DEF Call
  <2>2. CASE Open
    BY <2>2 DEF Open
  <2>3. CASE Write
    BY <2>3 DEF Write
  <2>4. CASE Fsync
    BY <2>4 DEF Fsync, Fsynced
  <2>5. CASE Close
    BY <2>5 DEF Close
  <2>6. CASE Rename
    BY <2>6 DEF Rename
  <2>7. CASE Remove
    BY <2>7 DEF Remove
  <2>8. CASE OpenDir
    BY <2>8 DEF OpenDir
  <2>9. CASE FsyncDir
    BY <2>9 DEF FsyncDir
  <2>10. CASE Crash
    BY <2>10 DEF Crash
  <2>11. CASE UNCHANGED vars
    BY <2>11 DEF vars
  <2> HIDE DEF ResultInv, Return
  <2>. QED
    BY <2>1, <2>2, <2>3, <2>4, <2>5, <2>6, <2>7, <2>8, <2>9, <2>10, <2>11 DEF Next
<1>3. ResultInv => HonestResult
  BY DEF ResultInv
<1>. QED
  BY <1>1, <1>2, <1>3, PTL DEF Spec
=============================================================================
