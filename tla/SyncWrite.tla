------------------------------ MODULE SyncWrite ------------------------------
(***************************************************************************)
(* syncwrite of ioutil.c (the POSIX variant): a file is replaced by        *)
(* writing a temporary one, fsync, rename and fsync of the directory.      *)
(*                                                                         *)
(* The file system is external and modelled as the code uses it: a write   *)
(* is in the cache until an fsync, a rename is seen at once but survives a *)
(* crash for sure only after an fsync of the directory, and every call may *)
(* fail.  A call that a signal interrupts fails with EINTR; the code says  *)
(* `continue', but in do { } while (0) that leaves the loop: open then     *)
(* fails, while fsync and close are taken to have succeeded.               *)
(***************************************************************************)
EXTENDS Naturals

CONSTANTS
    Values,     \* complete contents a caller writes
    Absent,     \* there is no such file
    Partial,    \* any incomplete content
    Interrupted \* fsync of the file may fail with EINTR

ASSUME SyncAssumption ==
    /\ Absent \notin Values /\ Partial \notin Values /\ Absent # Partial
    /\ Interrupted \in BOOLEAN

\* A file: its content in the cache, and the one on the disk.
File == [cached : Values \cup {Absent, Partial}, stable : Values \cup {Absent, Partial}]
Same(v) == [cached |-> v, stable |-> v]

VARIABLES
    pc,     \* the call syncwrite makes next; "idle" between two of them
    data,   \* what is to be written
    tmp,    \* the file under tmpname
    dst,    \* the file under filename
    names,  \* the files that filename may name after a crash
    result, \* what syncwrite returned last: 0 or -1, "none" before
    before  \* history: the file when syncwrite was called

vars == <<pc, data, tmp, dst, names, result, before>>

Init ==
    /\ pc = "idle"
    /\ data = Partial
    /\ tmp = Same(Absent)
    /\ dst \in {Same(v) : v \in Values \cup {Absent}}
    /\ names = {dst}
    /\ result = "none"
    /\ before = dst

Call(v) ==
    /\ pc = "idle"
    /\ pc' = "open"
    /\ data' = v
    /\ before' = dst
    /\ UNCHANGED <<tmp, dst, names, result>>

Return(r) == pc' = "idle" /\ result' = r

\* createfile with O_CREAT | O_TRUNC, over what a crash may have left there.
Open ==
    /\ pc = "open"
    /\ \/ /\ tmp' = Same(Partial)
          /\ pc' = "write"
          /\ UNCHANGED result
       \/ /\ Return("-1")
          /\ UNCHANGED tmp
    /\ UNCHANGED <<data, dst, names, before>>

\* writeall repeats short and interrupted writes; it ends complete or failing.
Write ==
    /\ pc = "write"
    /\ \/ /\ tmp' = [tmp EXCEPT !.cached = data]
          /\ pc' = "fsync"
       \/ /\ pc' = "remove"
          /\ UNCHANGED tmp
    /\ UNCHANGED <<data, dst, names, result, before>>

\* A call that is interrupted leaves the disk as it was and is taken for
\* success.
Fsynced == {tmp.cached} \cup IF Interrupted THEN {tmp.stable} ELSE {}

\* Mutant of Fsync: the data is not forced to the disk.
FsyncSkipped ==
    /\ pc = "fsync"
    /\ pc' = "close"
    /\ UNCHANGED <<data, tmp, dst, names, result, before>>

Fsync ==
    /\ pc = "fsync"
    /\ \/ /\ \E v \in Fsynced : tmp' = [tmp EXCEPT !.stable = v]
          /\ pc' = "close"
       \/ /\ pc' = "remove"
          /\ UNCHANGED tmp
    /\ UNCHANGED <<data, dst, names, result, before>>

Close ==
    /\ pc = "close"
    /\ pc' \in {"rename", "remove"}
    /\ UNCHANGED <<data, tmp, dst, names, result, before>>

\* Mutant of Rename: an error of rename is taken for success.
RenameUnchecked ==
    /\ pc = "rename"
    /\ pc' = "opendir"
    /\ \/ /\ dst' = tmp
          /\ names' = names \cup {tmp}
          /\ tmp' = Same(Absent)
       \/ UNCHANGED <<tmp, dst, names>>
    /\ UNCHANGED <<data, result, before>>

Rename ==
    /\ pc = "rename"
    /\ \/ /\ dst' = tmp
          /\ names' = names \cup {tmp}
          /\ tmp' = Same(Absent)
          /\ pc' = "opendir"
       \/ /\ pc' = "remove"
          /\ UNCHANGED <<tmp, dst, names>>
    /\ UNCHANGED <<data, result, before>>

\* failrm: the temporary file is removed if it can be.
Remove ==
    /\ pc = "remove"
    /\ tmp' \in {tmp, Same(Absent)}
    /\ Return("-1")
    /\ UNCHANGED <<data, dst, names, before>>

\* The directory cannot be opened: syncwrite returns 0 without forcing the
\* rename to the disk.  (Interrupted, open leaves -1, on which fsync fails.)
OpenDir ==
    /\ pc = "opendir"
    /\ \/ pc' = "fsyncdir" /\ UNCHANGED result
       \/ Return("0")
    /\ UNCHANGED <<data, tmp, dst, names, before>>

\* An error or an interruption is ignored here.
FsyncDir ==
    /\ pc = "fsyncdir"
    /\ names' \in {names, {dst}}
    /\ Return("0")
    /\ UNCHANGED <<data, tmp, dst, before>>

\* Power is lost: the name is one of those the disk may hold, the content the
\* cached one if it happened to be written out, else the one on the disk.
Crash ==
    /\ \E f \in names : \E v \in {f.cached, f.stable} :
          /\ dst' = Same(v)
          /\ names' = {Same(v)}
    /\ tmp' \in {Same(tmp.cached), Same(tmp.stable), Same(Absent)}
    /\ pc' = "idle"
    /\ result' = "none"
    /\ UNCHANGED <<data, before>>

Next ==
    \/ \E v \in Values : Call(v)
    \/ Open \/ Write \/ Fsync \/ Close \/ Rename \/ Remove
    \/ OpenDir \/ FsyncDir
    \/ Crash

Spec == Init /\ [][Next]_vars

\* Every variable has its type.
TypeOK ==
    /\ pc \in {"idle", "open", "write", "fsync", "close", "rename", "remove",
               "opendir", "fsyncdir"}
    /\ data \in Values \cup {Partial}
    /\ tmp \in File
    /\ dst \in File
    /\ names \in SUBSET File
    /\ result \in {"none", "0", "-1"}
    /\ before \in File

\* A reader never finds a part of a file, whenever the power was lost, so a
\* checkpoint is always one that can be loaded (ioutil.c:65-102).
NeverTorn == dst.cached # Partial

\* The value returned tells what happened: after 0 the file is the one asked
\* for, after -1 it is the one from before the call (ioutil.c:119-124).
HonestResult ==
    pc = "idle" =>
        /\ result = "0" => dst.cached = data
        /\ result = "-1" => dst = before

Survivors == UNION {{f.cached, f.stable} : f \in names}

Atomic == INSTANCE AtomicFile
    WITH Contents <- Values \cup {Absent}, content <- dst.cached, survivors <- Survivors

\* With every call failing or the power lost at any point, syncwrite is an
\* atomic replacement of the file (ioutil.c:104-179 against AtomicFile).
ReplacesAtomically == Atomic!Spec
=============================================================================
