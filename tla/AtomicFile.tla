----------------------------- MODULE AtomicFile -----------------------------
(***************************************************************************)
(* A file that is only ever replaced as a whole: what syncwrite (ioutil.c) *)
(* promises the checkpoint.  A crash may bring back an earlier content     *)
(* until the last replacement is committed, but never a part of one.       *)
(***************************************************************************)
CONSTANT Contents     \* complete contents, and the absence of the file

VARIABLES content,    \* what a reader of the file finds
          survivors   \* what a reader may find after a crash

avars == <<content, survivors>>

Init ==
    /\ content \in Contents
    /\ survivors = {content}

Replace(v) ==
    /\ content' = v
    /\ survivors' = survivors \cup {v}

Commit ==
    /\ survivors' = {content}
    /\ UNCHANGED content

Crash ==
    /\ content' \in survivors
    /\ survivors' = {content'}

Next == (\E v \in Contents : Replace(v)) \/ Commit \/ Crash

Spec == Init /\ [][Next]_avars
=============================================================================
