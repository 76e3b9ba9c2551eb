------------------------ MODULE SeedCheckpointProofs ------------------------
(***************************************************************************)
(* Proofs about SeedCheckpoint, for any workers, any base and length of a  *)
(* seed, and any number of runs.                                           *)
(***************************************************************************)
EXTENDS SeedCheckpoint, FiniteSetTheorems, TLAPS

(***************************************************************************)
(* Numbers of seeds.  What the recursion in Above computes is shown by the *)
(* least-number principle, here a consequence of finite sets being well    *)
(* founded under inclusion.                                                *)
(***************************************************************************)

LEMMA LeastNumber ==
    ASSUME NEW S \in SUBSET Nat, S # {}
    PROVE  \E m \in S : \A i \in S : m <= i
<1>. DEFINE upto(i) == 0 .. i
<1>. DEFINE T == {upto(i) : i \in S}
<1>1. T \subseteq FiniteSubsetsOf(Nat) /\ T # {}
  <2>1. \A i \in S : IsFiniteSet(upto(i)) /\ upto(i) \in SUBSET Nat
    BY FS_Interval
  <2>. HIDE DEF upto
  <2>. QED
    BY <2>1 DEF FiniteSubsetsOf
<1>2. PICK x \in T : \A y \in T : <<y, x>> \notin StrictSubsetOrdering(Nat)
  BY ONLY <1>1, FS_StrictSubsetOrderingWellFounded, WFMin
<1>3. PICK m \in S : x = upto(m)
  OBVIOUS
<1>4. ASSUME NEW i \in S, i < m PROVE FALSE
  <2>1. upto(i) \subseteq upto(m) /\ m \in upto(m) /\ m \notin upto(i) /\ m \in Nat
    <3>1. i \in Nat /\ m \in Nat
      OBVIOUS
    <3>. QED
      BY ONLY <1>4, <3>1
  <2>2. upto(i) \in SUBSET Nat /\ upto(m) \in SUBSET Nat /\ upto(i) \in T
    <3>1. \A q \in Nat : upto(q) \in SUBSET Nat
      BY ONLY TRUE
    <3>. QED
      BY <3>1
  <2>3. <<upto(i), upto(m)>> \in StrictSubsetOrdering(Nat)
    BY <2>1, <2>2 DEF StrictSubsetOrdering
  <2>. QED
    BY <1>2, <1>3, <2>2, <2>3
<1>. QED
  BY <1>4

\* A set of indexes that has Len, and with each index the one below, has all.
LEMMA Downwards ==
    ASSUME NEW G, Len \in G, \A j \in Index : j + 1 \in G => j \in G
    PROVE  \A j \in 0 .. Len : j \in G
<1>. DEFINE bad == {m \in 0 .. Len : Len - m \notin G}
<1>1. Len \in Nat
  BY SeedAssumption
<1>2. ASSUME bad # {} PROVE FALSE
  <2>1. PICK m \in bad : \A i \in bad : m <= i
    <3>1. bad \in SUBSET Nat
      BY <1>1
    <3>. HIDE DEF bad
    <3>. QED
      BY ONLY <3>1, <1>2, LeastNumber
  <2>2. m # 0
    BY <1>1
  <2>3. m - 1 \in 0 .. Len /\ m - 1 \notin bad
    BY <1>1, <2>1, <2>2
  <2>4. Len - (m - 1) \in G
    BY <2>3
  <2>5. Len - m \in Index /\ (Len - m) + 1 = Len - (m - 1)
    BY <1>1, <2>1, <2>2 DEF Index
  <2>. QED
    BY <2>4, <2>5
<1>3. \A j \in 0 .. Len : Len - j \in 0 .. Len /\ Len - (Len - j) = j
  BY <1>1
<1>. QED
  BY <1>2, <1>3

\* The recursion has a solution, and it is made of natural numbers.
LEMMA AboveEquation ==
    ASSUME NEW s \in Seed
    PROVE  /\ Above(s) = [j \in 0 .. Len |-> IF j = Len THEN 0 ELSE s[j] + Base * Above(s)[j + 1]]
           /\ Above(s) \in [0 .. Len -> Nat]
<1>. DEFINE Solves(f, i) ==
        /\ f \in [i .. Len -> Nat]
        /\ \A j \in i .. Len : f[j] = IF j = Len THEN 0 ELSE s[j] + Base * f[j + 1]
<1>. DEFINE G == {i \in 0 .. Len : \E f : Solves(f, i)}
<1>1. Len \in Nat \ {0} /\ Base \in Nat \ {0, 1} /\ \A j \in Index : s[j] \in Nat
  BY SeedAssumption DEF Seed
<1>2. Len \in G
  <2>1. PICK f : f = [j \in Len .. Len |-> 0]
    OBVIOUS
  <2>2. f \in [Len .. Len -> Nat] /\ \A j \in Len .. Len : j = Len /\ f[j] = 0
    BY <1>1, <2>1
  <2>3. Solves(f, Len)
    BY <2>2
  <2>. QED
    BY <1>1, <2>3
<1>3. ASSUME NEW i \in Index, i + 1 \in G PROVE i \in G
  <2>1. PICK f : Solves(f, i + 1)
    BY <1>3
  <2>. DEFINE g == [j \in i .. Len |-> IF j = i THEN s[i] + Base * f[i + 1] ELSE f[j]]
  <2>2. i \in Nat /\ i < Len /\ i \in 0 .. Len /\ i + 1 \in i + 1 .. Len
    BY <1>1 DEF Index
  <2>3. f[i + 1] \in Nat /\ s[i] \in Nat
    BY <1>1, <2>1, <2>2
  <2>4. s[i] + Base * f[i + 1] \in Nat
    BY <1>1, <2>3
  <2>5. g \in [i .. Len -> Nat]
    BY <2>1, <2>2, <2>4
  <2>6. ASSUME NEW j \in i .. Len PROVE g[j] = IF j = Len THEN 0 ELSE s[j] + Base * g[j + 1]
    <3>1. CASE j = i
      <4>1. g[i + 1] = f[i + 1]
        BY <1>1, <2>2
      <4>. QED
        BY <1>1, <2>2, <3>1, <4>1
    <3>2. CASE j # i
      <4>1. j \in i + 1 .. Len /\ g[j] = f[j]
        BY <1>1, <2>2, <3>2
      <4>2. j # Len => j + 1 \in i .. Len /\ j + 1 # i
        BY <1>1, <2>2, <3>2
      <4>3. j # Len => g[j + 1] = f[j + 1]
        BY <4>2
      <4>. QED
        BY <2>1, <4>1, <4>3
    <3>. QED
      BY <3>1, <3>2
  <2>7. Solves(g, i)
    BY <2>5, <2>6
  <2>. QED
    BY <2>2, <2>7
<1>4. 0 \in G
  <2>. HIDE DEF G
  <2>1. \A j \in 0 .. Len : j \in G
    BY <1>2, <1>3, Downwards
  <2>. QED
    BY <1>1, <2>1
<1>5. PICK f : Solves(f, 0)
  BY <1>4
<1>6. f = [j \in 0 .. Len |-> IF j = Len THEN 0 ELSE s[j] + Base * f[j + 1]]
  BY <1>5
<1>7. Above(s) = [j \in 0 .. Len |-> IF j = Len THEN 0 ELSE s[j] + Base * Above(s)[j + 1]]
  BY <1>6 DEF Above
<1>8. \A j \in 0 .. Len : Above(s)[j] \in Nat
  <2>. DEFINE H == {j \in 0 .. Len : Above(s)[j] \in Nat}
  <2>1. Above(s)[Len] = 0
    BY <1>1, <1>7
  <2>2. ASSUME NEW j \in Index, j + 1 \in H PROVE j \in H
    <3>1. j \in 0 .. Len /\ j # Len
      BY <1>1 DEF Index
    <3>2. Above(s)[j] = s[j] + Base * Above(s)[j + 1]
      BY <1>7, <3>1
    <3>3. Above(s)[j + 1] \in Nat /\ s[j] \in Nat
      BY <1>1, <2>2
    <3>. QED
      BY <1>1, <3>1, <3>2, <3>3
  <2>3. Len \in H
    BY <1>1, <2>1
  <2>. HIDE DEF H
  <2>4. \A j \in 0 .. Len : j \in H
    BY <2>2, <2>3, Downwards
  <2>. QED
    BY <2>4 DEF H
<1>. QED
  BY <1>7, <1>8

LEMMA NumberIsNat == ASSUME NEW s \in Seed PROVE Number(s) \in Nat
<1>1. 0 \in 0 .. Len
  BY SeedAssumption
<1>. QED
  BY <1>1, AboveEquation DEF Number

LEMMA ZeroNumber == Zero \in Seed /\ Number(Zero) = 0
<1>1. Len \in Nat \ {0} /\ Base \in Nat \ {0, 1} /\ Zero \in Seed /\ \A j \in Index : Zero[j] = 0
  BY SeedAssumption DEF Zero, Seed
<1>. DEFINE G == {j \in 0 .. Len : Above(Zero)[j] = 0}
<1>2. Len \in G
  <2>1. Len \in 0 .. Len
    BY <1>1
  <2>. QED
    BY <1>1, <2>1, AboveEquation
<1>3. ASSUME NEW j \in Index, j + 1 \in G PROVE j \in G
  <2>1. j \in 0 .. Len /\ j # Len /\ Above(Zero)[j + 1] = 0
    BY <1>1, <1>3 DEF Index
  <2>2. Above(Zero)[j] = Zero[j] + Base * Above(Zero)[j + 1]
    BY <1>1, <2>1, AboveEquation
  <2>3. Zero[j] = 0 /\ Base * 0 = 0
    BY <1>1
  <2>. QED
    BY <2>1, <2>2, <2>3
<1>4. \A j \in 0 .. Len : j \in G
  <2>. HIDE DEF G
  <2>. QED
    BY <1>2, <1>3, Downwards
<1>. QED
  BY <1>1, <1>4 DEF Number

\* Adding one: the bytes before i pass the carry on, the one at i takes it.
LEMMA NextNumber ==
    ASSUME NEW s \in Seed, NEW t \in Seed, NEW i \in Index,
           \A j \in Index : j < i => s[j] = Base - 1 /\ t[j] = 0,
           t[i] = s[i] + 1,
           \A j \in Index : j > i => t[j] = s[j]
    PROVE  Number(t) = Number(s) + 1
<1>. DEFINE G == {j \in 0 .. Len : Above(t)[j] = Above(s)[j] + (IF j <= i THEN 1 ELSE 0)}
<1>1. /\ Len \in Nat \ {0} /\ Base \in Nat \ {0, 1} /\ i \in Nat /\ i < Len
      /\ \A j \in Index : s[j] \in Nat /\ t[j] \in Nat
  BY SeedAssumption DEF Seed, Index
<1>2. /\ \A j \in 0 .. Len : Above(s)[j] \in Nat /\ Above(t)[j] \in Nat
      /\ Above(s)[Len] = 0 /\ Above(t)[Len] = 0
      /\ \A j \in Index : /\ Above(s)[j] = s[j] + Base * Above(s)[j + 1]
                          /\ Above(t)[j] = t[j] + Base * Above(t)[j + 1]
  <2>1. \A j \in Index : j \in 0 .. Len /\ j # Len
    BY <1>1 DEF Index
  <2>2. Len \in 0 .. Len
    BY <1>1
  <2>. QED
    BY <2>1, <2>2, AboveEquation
<1>3. Len \in G
  BY <1>1, <1>2
<1>4. ASSUME NEW j \in Index, j + 1 \in G PROVE j \in G
  <2>1. j \in 0 .. Len /\ j + 1 \in 0 .. Len /\ j \in Nat
    BY <1>1 DEF Index
  <2>2. Above(t)[j + 1] = Above(s)[j + 1] + (IF j + 1 <= i THEN 1 ELSE 0)
    BY <1>4
  <2>3. PICK a \in Nat : a = Above(s)[j + 1]
    BY <1>2, <2>1
  <2>4. Above(s)[j] = s[j] + Base * a
    BY <1>2, <2>3
  <2>5. CASE j > i
    <3>1. Above(t)[j] = s[j] + Base * a
      BY <1>1, <1>2, <2>1, <2>2, <2>3, <2>5
    <3>. QED
      BY <1>1, <1>2, <2>1, <2>4, <2>5, <3>1
  <2>6. CASE j = i
    <3>1. Above(t)[j] = s[j] + 1 + Base * a
      BY <1>1, <1>2, <2>1, <2>2, <2>3, <2>6
    <3>2. Base * a \in Nat
      BY <1>1
    <3>. QED
      BY <1>1, <2>1, <2>4, <2>6, <3>1, <3>2
  <2>7. CASE j < i
    <3>1. Above(t)[j] = 0 + Base * (a + 1)
      BY <1>1, <1>2, <2>1, <2>2, <2>3, <2>7
    <3>2. Base * (a + 1) = Base * a + Base /\ Base * a \in Nat
      BY <1>1
    <3>3. s[j] = Base - 1
      BY <2>7
    <3>. QED
      BY <1>1, <2>1, <2>4, <2>7, <3>1, <3>2, <3>3
  <2>. QED
    BY <1>1, <2>1, <2>5, <2>6, <2>7
<1>5. 0 \in G
  <2>. HIDE DEF G
  <2>1. \A j \in 0 .. Len : j \in G
    BY <1>3, <1>4, Downwards
  <2>. QED
    BY <1>1, <2>1
<1>. QED
  BY <1>1, <1>5 DEF Number

(***************************************************************************)
(* The parts of the invariant.                                             *)
(***************************************************************************)

WorkerPCs == {"initseed", "increment", "copy", "head", "search", "done"}
SaverPCs == {"wait", "read", "readlast", "write", "writelast", "sync", "synclast", "stopped"}

Types ==
    /\ det \in Seed /\ cp \in Seed /\ content \in Seed
    /\ seed \in [Workers -> Seed]
    /\ survivors \in SUBSET Seed
    /\ lock \in Workers \cup {Saver, NoOne}
    /\ wpc \in [Workers -> WorkerPCs]
    /\ k \in [Workers -> 0 .. Len] /\ sk \in 0 .. Len
    /\ \A w \in Workers : wpc[w] = "increment" => k[w] \in Index
    /\ spc \in SaverPCs
    /\ spc \in {"read", "readlast"} => sk \in Index
    /\ mpc \in {"poll", "joinsaver", "exited", "down"}
    /\ endwork \in BOOLEAN /\ checkpointer_endwork \in BOOLEAN /\ saveFailed \in BOOLEAN
    /\ handed \in SUBSET Nat /\ searched \in SUBSET Nat /\ runs \in Nat

\* determseed_mutex is held by the one that works on determseed.
Changing(w) == wpc[w] \in {"increment", "copy"}
Locks ==
    /\ \A w \in Workers : Changing(w) => lock = w
    /\ spc \in {"read", "readlast"} => lock = Saver

\* What the saver has read so far is determseed, which rests meanwhile.
Reading ==
    spc \in {"read", "readlast"} => \A j \in Index : j < sk => cp[j] = det[j]

\* f is determseed as it was before the carry went into it.
Before(f) ==
    /\ f \in Seed
    /\ (\A w \in Workers : wpc[w] # "increment") => f = det
    /\ \A w \in Workers : wpc[w] = "increment" =>
          /\ \A j \in Index : IF j < k[w] THEN f[j] = Base - 1 /\ det[j] = 0 ELSE det[j] = f[j]
          /\ \E j \in Index : f[j] # Base - 1

\* Nothing is ahead of it: neither a seed in use nor the checkpoint.
Holds(w) == wpc[w] \in {"head", "search"}
Ahead(f) ==
    /\ Number(content) <= Number(f)
    /\ \A v \in survivors : Number(v) <= Number(content)
    /\ \A h \in handed : h <= Number(f)
    /\ \A w \in Workers : Holds(w) => Number(seed[w]) <= Number(f)
    /\ \A v, w \in Workers : wpc[v] = "copy" /\ Holds(w) => Number(seed[w]) # Number(f)
    /\ spc \in {"write", "writelast"} => Number(content) <= Number(cp) /\ Number(cp) <= Number(f)

\* The seed a worker is to search or has left: f when it is about to copy it.
Owed(w, f) == IF wpc[w] = "copy" THEN Number(f) ELSE Number(seed[w])

\* All seeds up to f are searched, but those of L, given up in earlier runs,
\* and at most one for each worker of this one.
Covered(f) ==
    /\ \A w \in Workers : wpc[w] \in {"initseed", "increment"} => Number(seed[w]) \in searched \cup {0}
    /\ \E r \in Nat : \E L \in SUBSET Nat :
          /\ runs = r + 1
          /\ IsFiniteSet(L) /\ Cardinality(L) <= Cardinality(Workers) * r
          /\ \A n \in 1 .. Number(f) :
                n \in searched \/ n \in L \/ \E w \in Workers : n = Owed(w, f)

\* The last save is of the seed that was handed out last.
Ending ==
    /\ mpc \in {"joinsaver", "exited"} => \A w \in Workers : wpc[w] = "done"
    /\ spc \in {"readlast", "writelast", "synclast", "stopped"} => checkpointer_endwork
    /\ checkpointer_endwork => mpc # "poll"
    /\ mpc = "exited" => spc = "stopped"
    /\ spc = "writelast" /\ mpc = "joinsaver" => cp = det
    /\ spc \in {"synclast", "stopped"} /\ ~saveFailed /\ mpc # "down" => content = det

\* The inductive invariant.
IInv ==
    /\ Types
    /\ Locks
    /\ Reading
    /\ \E f : Before(f) /\ Ahead(f) /\ Covered(f)
    /\ DistinctSeeds
    /\ Ending

\* The end of all seeds is not reached; 2^256 of them are never taken.
SeedsLeft == \E j \in Index : det[j] # Base - 1

LEMMA TypesStep ==
    ASSUME Types, [Next]_vars
    PROVE  Types'
<1>. USE DEF workerVars, saverVars, fileVars, Goto, Types, WorkerPCs, SaverPCs
<1>0. Len \in Nat \ {0} /\ Base \in Nat \ {0, 1} /\ Index = 0 .. Len - 1
  BY SeedAssumption DEF Index
<1>1. ASSUME NEW w \in Workers, LockSeed(w) PROVE Types'
  BY <1>0, <1>1 DEF LockSeed
<1>2. ASSUME NEW w \in Workers, IncrementByte(w) PROVE Types'
  <2>1. /\ wpc[w] = "increment" /\ k[w] \in Index
        /\ det' = [det EXCEPT ![k[w]] = Successor(@)]
        /\ k' = [k EXCEPT ![w] = @ + 1]
        /\ IF det'[k[w]] # 0 \/ k[w] = Len - 1 THEN Goto(w, "copy") ELSE UNCHANGED wpc
        /\ UNCHANGED <<lock, seed, saverVars, mpc, endwork, checkpointer_endwork, fileVars,
                       handed, searched, runs, saveFailed>>
    BY <1>2 DEF IncrementByte
  <2>2. det' \in Seed
    <3>1. det[k[w]] \in 0 .. Base - 1
      BY <2>1 DEF Seed
    <3>2. Successor(det[k[w]]) \in 0 .. Base - 1
      BY <1>0, <3>1 DEF Successor
    <3>. QED
      BY <2>1, <3>2 DEF Seed
  <2>3. k' \in [Workers -> 0 .. Len]
    BY <1>0, <2>1
  <2>4. wpc' \in [Workers -> WorkerPCs]
    BY <2>1
  <2>5. \A v \in Workers : wpc'[v] = "increment" => k'[v] \in Index
    BY <1>0, <2>1
  <2>. QED
    BY <2>1, <2>2, <2>3, <2>4, <2>5
<1>3. ASSUME NEW w \in Workers, CopySeed(w) PROVE Types'
  BY <1>3, NumberIsNat DEF CopySeed
<1>4. ASSUME NEW w \in Workers, StartBatch(w) \/ NextBatch(w) PROVE Types'
  <2>1. CASE StartBatch(w)
    BY <2>1 DEF StartBatch
  <2>2. CASE NextBatch(w)
    BY <2>2 DEF NextBatch
  <2>. QED
    BY <1>4, <2>1, <2>2
<1>5. ASSUME NEW w \in Workers, FinishSeed(w) PROVE Types'
  <2>1. Number(seed[w]) \in Nat
    BY NumberIsNat
  <2>. QED
    BY <1>5, <2>1 DEF FinishSeed
<1>6. CASE LockSave
  BY <1>0, <1>6 DEF LockSave
<1>7. CASE ReadByte
  <2>1. sk \in Index /\ cp' \in Seed
    BY <1>7 DEF ReadByte, Seed
  <2>. QED
    BY <1>0, <1>7, <2>1 DEF ReadByte, Last
<1>8. CASE WriteFile
  BY <1>8 DEF WriteFile, Last, File!Replace
<1>9. CASE SyncDir
  BY <1>9 DEF SyncDir, Last, File!Commit
<1>10. CASE EndWork \/ StopSaver \/ JoinSaver \/ Kill
  BY <1>10 DEF EndWork, StopSaver, JoinSaver, Kill
<1>11. CASE PowerLoss
  BY <1>11 DEF PowerLoss, File!Crash
<1>12. CASE Restart
  <2>1. Zero \in Seed
    BY <1>0 DEF Zero, Seed
  <2>2. /\ det' \in Seed /\ cp' \in Seed /\ UNCHANGED <<content, survivors, searched>>
        /\ lock' = NoOne /\ seed' \in [Workers -> Seed] /\ handed' = {} /\ runs' \in Nat
    BY <1>12, <2>1 DEF Restart, Rebooted
  <2>3. /\ wpc' \in [Workers -> WorkerPCs] /\ k' \in [Workers -> 0 .. Len] /\ sk' \in 0 .. Len
        /\ \A w \in Workers : wpc'[w] # "increment"
    BY <1>0, <1>12 DEF Restart, Rebooted
  <2>4. /\ spc' = "wait" /\ mpc' = "poll"
        /\ endwork' = FALSE /\ checkpointer_endwork' = FALSE /\ saveFailed' = FALSE
    BY <1>12 DEF Restart, Rebooted
  <2>. QED
    BY <2>2, <2>3, <2>4
<1>13. CASE Terminated \/ UNCHANGED vars
  BY <1>13 DEF Terminated, vars
<1>. HIDE DEF workerVars, saverVars, fileVars, Goto, Types, WorkerPCs, SaverPCs
<1>. QED
  BY ONLY <1>1, <1>2, <1>3, <1>4, <1>5, <1>6, <1>7, <1>8, <1>9, <1>10, <1>11, <1>12, <1>13, [Next]_vars
     DEF Next, WorkerStep, SaverStep, MainStep

LEMMA LocksStep ==
    ASSUME Types, Locks, [Next]_vars
    PROVE  Locks'
<1>. USE SeedAssumption DEF workerVars, saverVars, fileVars, Goto, Locks, Changing
<1>0. wpc \in [Workers -> WorkerPCs]
  BY DEF Types
<1>1. ASSUME NEW w \in Workers, LockSeed(w) PROVE Locks'
  BY <1>0, <1>1 DEF LockSeed
<1>2. ASSUME NEW w \in Workers, IncrementByte(w) PROVE Locks'
  <2>1. /\ wpc[w] = "increment" /\ UNCHANGED <<lock, spc>>
        /\ \A v \in Workers : v # w => wpc'[v] = wpc[v]
    BY <1>0, <1>2 DEF IncrementByte
  <2>. QED
    BY <2>1
<1>3. ASSUME NEW w \in Workers, CopySeed(w) PROVE Locks'
  BY <1>0, <1>3 DEF CopySeed
<1>4. ASSUME NEW w \in Workers, StartBatch(w) \/ NextBatch(w) \/ FinishSeed(w) PROVE Locks'
  BY <1>0, <1>4 DEF StartBatch, NextBatch, FinishSeed
<1>5. CASE LockSave
  BY <1>0, <1>5 DEF LockSave
<1>6. CASE ReadByte
  <2>1. spc \in {"read", "readlast"} /\ lock = Saver /\ wpc' = wpc
    BY <1>6 DEF ReadByte
  <2>2. \A w \in Workers : ~Changing(w)
    BY <2>1
  <2>3. (lock' = lock /\ spc' = spc) \/ spc' \in {"write", "writelast"}
    BY <1>6 DEF ReadByte, Last
  <2>. QED
    BY <2>1, <2>2, <2>3
<1>7. CASE WriteFile
  BY <1>7 DEF WriteFile, Last
<1>8. CASE SyncDir
  BY <1>8 DEF SyncDir, Last
<1>9. CASE EndWork \/ StopSaver \/ JoinSaver \/ Kill \/ PowerLoss
  BY <1>9 DEF EndWork, StopSaver, JoinSaver, Kill, PowerLoss
<1>10. CASE Restart
  BY <1>10 DEF Restart, Rebooted
<1>11. CASE Terminated \/ UNCHANGED vars
  BY <1>11 DEF Terminated, vars
<1>. QED
  BY ONLY <1>1, <1>2, <1>3, <1>4, <1>5, <1>6, <1>7, <1>8, <1>9, <1>10, <1>11, [Next]_vars
     DEF Next, WorkerStep, SaverStep, MainStep

LEMMA ReadingStep ==
    ASSUME Types, Locks, Reading, [Next]_vars
    PROVE  Reading'
<1>. USE DEF workerVars, saverVars, fileVars, Reading
<1>0. Saver \notin Workers /\ Len \in Nat /\ Index = 0 .. Len - 1 /\ sk \in 0 .. Len
      /\ cp \in Seed /\ det \in Seed
  BY SeedAssumption DEF Index, Types
<1>1. ASSUME NEW w \in Workers, IncrementByte(w) PROVE Reading'
  <2>1. lock = w
    BY <1>1 DEF IncrementByte, Locks, Changing
  <2>2. spc \notin {"read", "readlast"}
    BY <1>0, <2>1 DEF Locks
  <2>. QED
    BY <1>1, <2>2 DEF IncrementByte
<1>2. ASSUME NEW w \in Workers, LockSeed(w) \/ CopySeed(w) \/ StartBatch(w) \/ NextBatch(w) \/ FinishSeed(w)
      PROVE  Reading'
  BY <1>2 DEF LockSeed, CopySeed, StartBatch, NextBatch, FinishSeed
<1>3. CASE LockSave
  BY <1>0, <1>3 DEF LockSave
<1>4. CASE ReadByte
  <2>1. /\ sk' = sk + 1 /\ det' = det /\ cp' = [cp EXCEPT ![sk] = det[sk]]
        /\ spc \in {"read", "readlast"} /\ sk \in Index
    BY <1>4 DEF ReadByte, Types
  <2>2. \A j \in Index : cp'[j] = IF j = sk THEN det[j] ELSE cp[j]
    BY <2>1, <1>0 DEF Seed
  <2>3. \A j \in Index : j < sk + 1 => j < sk \/ j = sk
    BY <1>0
  <2>. QED
    BY <2>1, <2>2, <2>3
<1>5. CASE WriteFile \/ SyncDir
  BY <1>5 DEF WriteFile, SyncDir, Last
<1>6. CASE EndWork \/ StopSaver \/ JoinSaver \/ Kill \/ PowerLoss
  BY <1>6 DEF EndWork, StopSaver, JoinSaver, Kill, PowerLoss
<1>7. CASE Restart
  BY <1>7 DEF Restart, Rebooted
<1>8. CASE Terminated \/ UNCHANGED vars
  BY <1>8 DEF Terminated, vars
<1>. QED
  BY ONLY <1>1, <1>2, <1>3, <1>4, <1>5, <1>6, <1>7, <1>8, [Next]_vars
     DEF Next, WorkerStep, SaverStep, MainStep

\* With the mutex free or in the saver's hands determseed is complete.
LEMMA AtRest ==
    ASSUME Locks, NEW f, Before(f), lock \in {NoOne, Saver}
    PROVE  f = det /\ \A w \in Workers : ~Changing(w)
<1>1. \A w \in Workers : ~Changing(w)
  BY SeedAssumption DEF Locks
<1>. QED
  BY <1>1 DEF Before, Changing

\* The last byte is read: the saver has the whole of determseed.
LEMMA WholeRead ==
    ASSUME Types, Reading, ReadByte, sk = Len - 1
    PROVE  cp' = det
<1>1. /\ cp' = [cp EXCEPT ![sk] = det[sk]] /\ sk \in Index /\ cp \in Seed /\ det \in Seed
      /\ spc \in {"read", "readlast"}
  BY DEF ReadByte, Types
<1>2. \A j \in Index : j = sk \/ j < sk
  BY SeedAssumption DEF Index
<1>3. \A j \in Index : cp'[j] = det[j]
  BY <1>1, <1>2 DEF Reading, Seed
<1>. QED
  BY <1>1, <1>3 DEF Seed

\* One byte of the increment: the carry goes on, or determseed is complete and
\* its number is one more.
LEMMA CarryStep ==
    ASSUME Types, Locks, NEW f, Before(f), Ahead(f), Covered(f), NEW w \in Workers, IncrementByte(w)
    PROVE  \E g : Before(g)' /\ Ahead(g)' /\ Covered(g)'
<1>. DEFINE i == k[w]
<1>1. /\ wpc[w] = "increment" /\ i \in Index
      /\ det' = [det EXCEPT ![i] = Successor(@)]
      /\ k' = [k EXCEPT ![w] = i + 1]
      /\ IF det'[i] # 0 \/ i = Len - 1 THEN wpc' = [wpc EXCEPT ![w] = "copy"] ELSE wpc' = wpc
      /\ UNCHANGED <<seed, spc, cp, content, survivors, handed, searched, runs>>
      /\ wpc \in [Workers -> WorkerPCs] /\ k \in [Workers -> 0 .. Len] /\ det \in Seed
      /\ cp \in Seed /\ content \in Seed /\ seed \in [Workers -> Seed] /\ handed \in SUBSET Nat
  BY DEF IncrementByte, Types, Goto, saverVars, fileVars
<1>2. \A v \in Workers : wpc[v] = "increment" \/ wpc[v] = "copy" => v = w
  BY <1>1, SeedAssumption DEF Locks, Changing
<1>3. /\ f \in Seed
      /\ \A j \in Index : IF j < i THEN f[j] = Base - 1 /\ det[j] = 0 ELSE det[j] = f[j]
      /\ \E j \in Index : f[j] # Base - 1
  BY <1>1 DEF Before
<1>4. /\ Len \in Nat \ {0} /\ Base \in Nat \ {0, 1} /\ Index = 0 .. Len - 1
      /\ \A j \in Index : det[j] \in 0 .. Base - 1 /\ f[j] \in 0 .. Base - 1
  BY <1>1, <1>3, SeedAssumption DEF Index, Seed
<1>5. det[i] = f[i] /\ i \in Nat
  BY <1>1, <1>3, <1>4
<1>6. /\ f[i] = Base - 1 => det'[i] = 0
      /\ f[i] # Base - 1 => det'[i] = f[i] + 1 /\ det'[i] # 0
      /\ \A j \in Index : j # i => det'[j] = det[j]
      /\ det' \in Seed
  <2>1. det'[i] = Successor(f[i])
    BY <1>1, <1>5 DEF Seed
  <2>2. /\ f[i] = Base - 1 => Successor(f[i]) = 0
        /\ f[i] # Base - 1 => Successor(f[i]) = f[i] + 1 /\ f[i] + 1 # 0 /\ f[i] + 1 \in 0 .. Base - 1
        /\ Successor(f[i]) \in 0 .. Base - 1
    <3>1. PICK d \in 0 .. Base - 1, b \in Nat \ {0, 1} : d = f[i] /\ b = Base
      BY <1>1, <1>4
    <3>2. d = b - 1 => (d + 1) % b = 0
      BY <3>1
    <3>3. d # b - 1 => (d + 1) % b = d + 1 /\ d + 1 # 0 /\ d + 1 \in 0 .. b - 1
      BY <3>1
    <3>4. 0 \in 0 .. b - 1
      BY <3>1
    <3>. QED
      BY <3>1, <3>2, <3>3, <3>4 DEF Successor
  <2>3. det' = [det EXCEPT ![i] = Successor(f[i])]
    BY <1>1, <1>5
  <2>. HIDE DEF i
  <2>4. det' \in Seed
    BY <1>1, <2>2, <2>3 DEF Seed
  <2>. QED
    BY <1>1, <2>1, <2>2, <2>3, <2>4 DEF Seed
<1>. HIDE DEF i
<1>7. CASE f[i] = Base - 1
  <2>1. i # Len - 1
    <3>1. SUFFICES ASSUME i = Len - 1 PROVE FALSE
      OBVIOUS
    <3>2. \A j \in Index : j = i \/ j < i
      BY <1>4, <3>1
    <3>. QED
      BY <1>3, <1>7, <3>2
  <2>2. wpc' = wpc
    BY <1>1, <1>6, <1>7, <2>1
  <2>3. k'[w] = i + 1
    BY <1>1
  <2>4. \A j \in Index : IF j < i + 1 THEN f[j] = Base - 1 /\ det'[j] = 0 ELSE det'[j] = f[j]
    <3>1. \A j \in Index : j \in Nat /\ (j < i + 1 <=> j < i \/ j = i)
      BY <1>4, <1>5
    <3>. QED
      BY <1>3, <1>6, <1>7, <3>1
  <2>5. Before(f)'
    BY <1>1, <1>2, <1>3, <2>2, <2>3, <2>4 DEF Before
  <2>6. Ahead(f)'
    BY <1>1, <2>2 DEF Ahead, Holds
  <2>7. Covered(f)'
    BY <1>1, <2>2 DEF Covered, Owed
  <2>. QED
    BY <2>5, <2>6, <2>7
<1>8. CASE f[i] # Base - 1
  <2>1. PICK g : g = det'
    OBVIOUS
  <2>2. wpc' = [wpc EXCEPT ![w] = "copy"]
    BY <1>1, <1>6, <1>8
  <2>3. Number(g) = Number(f) + 1
    <3>1. \A j \in Index : j < i => f[j] = Base - 1 /\ g[j] = 0
      BY <1>1, <1>3, <1>4, <1>5, <1>6, <2>1
    <3>2. \A j \in Index : j > i => g[j] = f[j]
      BY <1>1, <1>3, <1>4, <1>5, <1>6, <2>1
    <3>. QED
      BY <1>1, <1>3, <1>6, <1>8, <2>1, <3>1, <3>2, NextNumber
  <2>4. PICK a \in Nat, b \in Nat : a = Number(f) /\ b = Number(g) /\ b = a + 1
    BY <1>3, <2>3, NumberIsNat
  <2>5. PICK c \in Nat, p \in Nat : c = Number(content) /\ p = Number(cp)
    BY <1>1, NumberIsNat
  <2>6. \A v \in Workers : Number(seed[v]) \in Nat
    BY <1>1, NumberIsNat
  <2>7. Before(g)'
    <3>1. \A v \in Workers : wpc'[v] # "increment"
      BY <1>1, <1>2, <2>2
    <3>. QED
      BY <1>6, <2>1, <3>1 DEF Before
  <2>8. /\ Number(content) <= Number(g)
        /\ \A h \in handed : h <= Number(g)
        /\ spc \in {"write", "writelast"} => Number(content) <= Number(cp) /\ Number(cp) <= Number(g)
    <3>1. c <= a /\ (\A h \in handed : h <= a) /\ (spc \in {"write", "writelast"} => c <= p /\ p <= a)
      BY <2>4, <2>5 DEF Ahead
    <3>2. c <= b /\ (\A h \in handed : h <= b) /\ (spc \in {"write", "writelast"} => c <= p /\ p <= b)
      BY <1>1, <2>4, <3>1
    <3>. QED
      BY <2>4, <2>5, <3>2
  <2>9. \A v \in Workers : Holds(v) => Number(seed[v]) <= Number(g) /\ Number(seed[v]) # Number(g)
    <3>1. \A v \in Workers : Holds(v) => Number(seed[v]) <= a
      BY <2>4 DEF Ahead
    <3>2. \A v \in Workers : Holds(v) => Number(seed[v]) <= b /\ Number(seed[v]) # b
      BY <2>4, <2>6, <3>1
    <3>. QED
      BY <2>4, <3>2
  <2>10. \A v \in Workers : Holds(v)' => Holds(v)
    BY <1>1, <2>2 DEF Holds
  <2>11. Ahead(g)'
    BY <1>1, <2>8, <2>9, <2>10 DEF Ahead
  <2>12. Covered(g)'
    <3>1. PICK r \in Nat, L \in SUBSET Nat :
              /\ runs = r + 1
              /\ IsFiniteSet(L) /\ Cardinality(L) <= Cardinality(Workers) * r
              /\ \A n \in 1 .. a : n \in searched \/ n \in L \/ \E v \in Workers : n = Owed(v, f)
      BY <2>4 DEF Covered
    <3>2. Number(seed[w]) \in searched \cup {0}
      BY <1>1 DEF Covered
    <3>3. /\ \A v \in Workers : v # w => wpc'[v] = wpc[v] /\ wpc[v] # "copy"
          /\ wpc[w] # "copy" /\ wpc'[w] = "copy"
      BY <1>1, <1>2, <2>2
    <3>4. \A v \in Workers : Owed(v, f) = Number(seed[v])
      BY <3>3 DEF Owed
    <3>5. \A v \in Workers : Owed(v, g)' = IF v = w THEN b ELSE Number(seed[v])
      BY <1>1, <2>4, <3>3 DEF Owed
    <3>6. ASSUME NEW n \in 1 .. b
          PROVE  n \in searched' \/ n \in L \/ \E v \in Workers : n = Owed(v, g)'
      <4>1. n = b \/ n \in 1 .. a
        BY <2>4
      <4>2. n # 0
        BY <2>4
      <4>. QED
        BY <1>1, <3>1, <3>2, <3>4, <3>5, <4>1, <4>2
    <3>7. \A v \in Workers : wpc'[v] \in {"initseed", "increment"} => Number(seed'[v]) \in searched' \cup {0}
      BY <1>1, <3>3 DEF Covered
    <3>8. runs' = runs /\ Number(g) = b
      BY <1>1, <2>4
    <3>. QED
      BY <3>1, <3>6, <3>7, <3>8 DEF Covered
  <2>. QED
    BY <2>7, <2>11, <2>12
<1>. QED
  BY <1>7, <1>8

\* Seeds are handed out in order, and the checkpoint follows.
LEMMA QuietStep ==
    ASSUME Types, Locks, Reading, NEW f, Before(f), Ahead(f), SeedsLeft, [Next]_vars,
           ~Restart, \A w \in Workers : ~IncrementByte(w)
    PROVE  Before(f)' /\ Ahead(f)'
<1>. USE DEF workerVars, saverVars, fileVars, Goto
<1>0. /\ wpc \in [Workers -> WorkerPCs] /\ k \in [Workers -> 0 .. Len] /\ det \in Seed
      /\ seed \in [Workers -> Seed] /\ content \in Seed /\ cp \in Seed /\ f \in Seed
      /\ survivors \in SUBSET Seed
  BY DEF Types, Before
<1>1. ASSUME NEW w \in Workers, LockSeed(w) PROVE Before(f)' /\ Ahead(f)'
  <2>1. /\ lock = NoOne /\ wpc[w] = "initseed" /\ wpc' = [wpc EXCEPT ![w] = "increment"]
        /\ k' = [k EXCEPT ![w] = 0]
        /\ UNCHANGED <<det, seed, spc, cp, content, survivors, handed>>
    BY <1>1 DEF LockSeed
  <2>2. f = det /\ \A v \in Workers : ~Changing(v)
    BY <2>1, AtRest
  <2>3. \A v \in Workers : wpc'[v] = "increment" => v = w
    BY <1>0, <2>1, <2>2 DEF Changing
  <2>4. \A j \in Index : ~(j < 0)
    BY DEF Index
  <2>5. Before(f)'
    BY <1>0, <2>1, <2>2, <2>3, <2>4 DEF Before, SeedsLeft
  <2>6. \A v \in Workers : /\ Holds(v)' <=> Holds(v)
                           /\ wpc'[v] # "copy"
    BY <1>0, <2>1, <2>2 DEF Holds, Changing
  <2>. QED
    BY <2>1, <2>5, <2>6 DEF Ahead
<1>2. ASSUME NEW w \in Workers, CopySeed(w) PROVE Before(f)' /\ Ahead(f)'
  <2>1. /\ wpc[w] = "copy" /\ wpc' = [wpc EXCEPT ![w] = "head"]
        /\ seed' = [seed EXCEPT ![w] = det] /\ handed' = handed \cup {Number(det)}
        /\ UNCHANGED <<det, k, spc, cp, content, survivors>>
    BY <1>2 DEF CopySeed
  <2>2. \A v \in Workers : Changing(v) => v = w
    BY <2>1, SeedAssumption DEF Locks, Changing
  <2>3. f = det /\ \A v \in Workers : wpc'[v] \notin {"increment", "copy"}
    BY <1>0, <2>1, <2>2 DEF Before, Changing
  <2>4. Before(f)'
    BY <1>0, <2>1, <2>3 DEF Before
  <2>5. Number(det) <= Number(f)
    BY <1>0, <2>3, NumberIsNat
  <2>6. \A v \in Workers : Holds(v)' => v = w \/ Holds(v)
    BY <1>0, <2>1 DEF Holds
  <2>7. \A v \in Workers : seed'[v] = IF v = w THEN det ELSE seed[v]
    BY <1>0, <2>1
  <2>. QED
    BY <2>1, <2>3, <2>4, <2>5, <2>6, <2>7 DEF Ahead
<1>3. ASSUME NEW w \in Workers, StartBatch(w) \/ NextBatch(w) \/ FinishSeed(w)
      PROVE  Before(f)' /\ Ahead(f)'
  <2>1. /\ UNCHANGED <<det, k, seed, spc, cp, content, survivors, handed>>
        /\ \A v \in Workers : /\ wpc'[v] = "increment" <=> wpc[v] = "increment"
                              /\ wpc'[v] = "copy" <=> wpc[v] = "copy"
                              /\ Holds(v)' => Holds(v)
    BY <1>0, <1>3 DEF StartBatch, NextBatch, FinishSeed, Holds
  <2>. QED
    BY <2>1 DEF Before, Ahead
<1>4. ASSUME UNCHANGED <<det, k, wpc, seed, cp, content, survivors, handed>>,
             spc' \in {"write", "writelast"} => spc \in {"write", "writelast"}
      PROVE  Before(f)' /\ Ahead(f)'
  BY <1>4 DEF Before, Ahead, Holds
<1>5. CASE LockSave
  BY <1>4, <1>5 DEF LockSave
<1>6. CASE ReadByte
  <2>1. f = det /\ \A w \in Workers : ~Changing(w)
    BY <1>6, AtRest DEF ReadByte, Locks
  <2>2. /\ UNCHANGED <<det, k, wpc, seed, content, survivors, handed>>
        /\ spc \in {"read", "readlast"}
        /\ spc' \in {"write", "writelast"} => sk = Len - 1
    BY <1>6 DEF ReadByte
  <2>3. spc' \in {"write", "writelast"} => cp' = det
    BY <1>6, <2>2, WholeRead
  <2>4. Number(det) <= Number(det) /\ Number(content) <= Number(det)
    BY <1>0, <2>1, NumberIsNat DEF Ahead
  <2>5. Before(f)'
    BY <2>2 DEF Before
  <2>. QED
    BY <2>1, <2>2, <2>3, <2>4, <2>5 DEF Ahead, Holds
<1>7. CASE WriteFile
  <2>1. /\ UNCHANGED <<det, k, wpc, seed, cp, handed>>
        /\ spc \in {"write", "writelast"} /\ spc' \in {"sync", "synclast"}
        /\ \/ content' = cp /\ survivors' = survivors \cup {cp}
           \/ UNCHANGED <<content, survivors>>
    BY <1>7 DEF WriteFile, Last, File!Replace
  <2>2. Number(content) <= Number(cp) /\ Number(cp) <= Number(f)
    BY <2>1 DEF Ahead
  <2>3. \A v \in survivors : Number(v) <= Number(content) /\ Number(v) <= Number(cp)
    <3>1. \A v \in survivors : Number(v) <= Number(content)
      BY DEF Ahead
    <3>2. /\ Number(content) \in Nat /\ Number(cp) \in Nat
          /\ \A v \in survivors : Number(v) \in Nat
      BY <1>0, NumberIsNat
    <3>. QED
      BY <2>2, <3>1, <3>2
  <2>4. Number(cp) <= Number(cp)
    BY <1>0, NumberIsNat
  <2>5. Before(f)'
    BY <2>1 DEF Before
  <2>. QED
    BY <2>1, <2>2, <2>3, <2>4, <2>5 DEF Ahead, Holds
<1>8. CASE SyncDir
  <2>1. /\ UNCHANGED <<det, k, wpc, seed, cp, content, handed>> /\ spc' \in {"wait", "stopped"}
        /\ survivors' = {content} \/ survivors' = survivors
    BY <1>8 DEF SyncDir, Last, File!Commit
  <2>2. Number(content) <= Number(content)
    BY <1>0, NumberIsNat
  <2>3. Before(f)'
    BY <2>1 DEF Before
  <2>. QED
    BY <2>1, <2>2, <2>3 DEF Ahead, Holds
<1>9. CASE EndWork \/ StopSaver \/ JoinSaver \/ Kill
  BY <1>4, <1>9 DEF EndWork, StopSaver, JoinSaver, Kill
<1>10. CASE PowerLoss
  <2>1. /\ UNCHANGED <<det, k, wpc, seed, cp, handed, spc>>
        /\ content' \in survivors /\ survivors' = {content'}
    BY <1>10 DEF PowerLoss, File!Crash
  <2>2. PICK c \in survivors : c = content'
    BY <2>1
  <2>3. Number(c) <= Number(content) /\ Number(c) \in Nat
    BY <1>0, NumberIsNat DEF Ahead
  <2>4. /\ Number(content) \in Nat /\ Number(f) \in Nat /\ Number(cp) \in Nat
    BY <1>0, NumberIsNat
  <2>5. Number(c) <= Number(f) /\ Number(c) <= Number(c)
        /\ (Number(content) <= Number(cp) => Number(c) <= Number(cp))
    BY <2>3, <2>4 DEF Ahead
  <2>6. Before(f)'
    BY <2>1 DEF Before
  <2>. QED
    BY <2>1, <2>2, <2>5, <2>6 DEF Ahead, Holds
<1>11. CASE Terminated \/ UNCHANGED vars
  BY <1>4, <1>11 DEF Terminated, vars
<1>. QED
  BY ONLY <1>1, <1>2, <1>3, <1>5, <1>6, <1>7, <1>8, <1>9, <1>10, <1>11, [Next]_vars, ~Restart,
          \A w \in Workers : ~IncrementByte(w)
     DEF Next, WorkerStep, SaverStep, MainStep

\* No step but a carry or a new run makes a seed be missed.
LEMMA QuietCovered ==
    ASSUME Types, Locks, NEW f, Before(f), Covered(f), [Next]_vars,
           ~Restart, \A w \in Workers : ~IncrementByte(w)
    PROVE  Covered(f)'
<1>. USE DEF workerVars, saverVars, fileVars, Goto
<1>0. /\ wpc \in [Workers -> WorkerPCs] /\ seed \in [Workers -> Seed]
  BY DEF Types
<1>1. ASSUME /\ runs' = runs /\ searched \subseteq searched'
             /\ \A v \in Workers : Owed(v, f)' = Owed(v, f)
             /\ \A v \in Workers : wpc'[v] \in {"initseed", "increment"} =>
                    /\ seed'[v] = seed[v]
                    /\ wpc[v] \in {"initseed", "increment"} \/ Number(seed[v]) \in searched'
      PROVE  Covered(f)'
  <2>1. PICK r \in Nat, L \in SUBSET Nat :
            /\ runs = r + 1
            /\ IsFiniteSet(L) /\ Cardinality(L) <= Cardinality(Workers) * r
            /\ \A n \in 1 .. Number(f) : n \in searched \/ n \in L \/ \E v \in Workers : n = Owed(v, f)
    BY DEF Covered
  <2>2. \A n \in 1 .. Number(f) : n \in searched' \/ n \in L \/ \E v \in Workers : n = Owed(v, f)'
    BY <1>1, <2>1
  <2>3. \A v \in Workers : wpc'[v] \in {"initseed", "increment"} => Number(seed'[v]) \in searched' \cup {0}
    BY <1>1 DEF Covered
  <2>. QED
    BY <1>1, <2>1, <2>2, <2>3 DEF Covered
<1>2. ASSUME NEW w \in Workers, LockSeed(w) PROVE Covered(f)'
  BY <1>0, <1>1, <1>2 DEF LockSeed, Owed
<1>3. ASSUME NEW w \in Workers, CopySeed(w) PROVE Covered(f)'
  <2>1. /\ wpc[w] = "copy" /\ wpc' = [wpc EXCEPT ![w] = "head"]
        /\ seed' = [seed EXCEPT ![w] = det] /\ UNCHANGED <<searched, runs>>
    BY <1>3 DEF CopySeed
  <2>2. \A v \in Workers : wpc[v] # "increment"
    BY <2>1, SeedAssumption DEF Locks, Changing
  <2>3. f = det
    BY <2>2 DEF Before
  <2>. QED
    BY <1>0, <1>1, <2>1, <2>3 DEF Owed
<1>4. ASSUME NEW w \in Workers, StartBatch(w) \/ NextBatch(w) \/ FinishSeed(w) PROVE Covered(f)'
  BY <1>0, <1>1, <1>4 DEF StartBatch, NextBatch, FinishSeed, Owed
<1>5. CASE SaverStep \/ MainStep \/ EndWork \/ Kill \/ PowerLoss \/ Terminated \/ UNCHANGED vars
  <2>1. UNCHANGED <<wpc, seed, searched, runs>>
    BY <1>5 DEF SaverStep, MainStep, LockSave, ReadByte, WriteFile, SyncDir, StopSaver,
                JoinSaver, EndWork, Kill, PowerLoss, Terminated, vars
  <2>. QED
    BY <1>1, <2>1 DEF Owed
<1>. QED
  BY ONLY <1>2, <1>3, <1>4, <1>5, [Next]_vars, ~Restart, \A w \in Workers : ~IncrementByte(w)
     DEF Next, WorkerStep

\* The seeds up to the file's that were not searched: those given up before,
\* and one for each worker.
LEMMA CoveredSkipsFew ==
    ASSUME Types, NEW f \in Seed, Ahead(f), Covered(f)
    PROVE  /\ IsFiniteSet((1 .. Number(content)) \ searched)
           /\ FewSeedsSkipped
<1>1. PICK r \in Nat, L \in SUBSET Nat :
          /\ runs = r + 1
          /\ IsFiniteSet(L) /\ Cardinality(L) <= Cardinality(Workers) * r
          /\ \A n \in 1 .. Number(f) : n \in searched \/ n \in L \/ \E v \in Workers : n = Owed(v, f)
  BY DEF Covered
<1>2. PICK a \in Nat, c \in Nat : a = Number(f) /\ c = Number(content) /\ c <= a
  BY NumberIsNat DEF Types, Ahead
<1>. DEFINE own == {Owed(v, f) : v \in Workers}
<1>. DEFINE missed == (1 .. c) \ searched
<1>3. missed \subseteq L \cup own
  BY <1>1, <1>2
<1>4. IsFiniteSet(Workers) /\ IsFiniteSet(own) /\ Cardinality(own) <= Cardinality(Workers)
  <2>1. PICK h : h = [v \in Workers |-> Owed(v, f)]
    OBVIOUS
  <2>2. h \in Surjection(Workers, own)
    BY <2>1 DEF Surjection
  <2>. QED
    BY <2>2, SeedAssumption, FS_Surjection
<1>. HIDE DEF own, missed
<1>5. /\ IsFiniteSet(L \cup own)
      /\ Cardinality(L \cup own) <= Cardinality(L) + Cardinality(own)
  <2>1. /\ IsFiniteSet(L \cup own)
        /\ Cardinality(L \cup own) = Cardinality(L) + Cardinality(own) - Cardinality(L \cap own)
    BY <1>1, <1>4, FS_Union
  <2>2. Cardinality(L \cap own) \in Nat
    BY <1>1, FS_Intersection, FS_CardinalityType
  <2>3. Cardinality(L) \in Nat /\ Cardinality(own) \in Nat
    BY <1>1, <1>4, FS_CardinalityType
  <2>. QED
    BY <2>1, <2>2, <2>3
<1>6. IsFiniteSet(missed) /\ Cardinality(missed) <= Cardinality(L \cup own)
  BY <1>3, <1>5, FS_Subset
<1>7. PICK s \in Nat, x \in Nat, y \in Nat, z \in Nat, u \in Nat :
          /\ s = Cardinality(Workers) /\ x = Cardinality(L) /\ y = Cardinality(own)
          /\ z = Cardinality(L \cup own) /\ u = Cardinality(missed)
  BY <1>1, <1>4, <1>5, <1>6, FS_CardinalityType
<1>8. x <= s * r /\ y <= s /\ z <= x + y /\ u <= z
  BY <1>1, <1>4, <1>5, <1>6, <1>7
<1>9. s * (r + 1) = s * r + s /\ s * r \in Nat
  BY TRUE
<1>10. u <= s * (r + 1)
  BY ONLY <1>8, <1>9
<1>. QED
  BY <1>1, <1>2, <1>6, <1>7, <1>10 DEF FewSeedsSkipped, missed

\* A new run goes on from the file.
LEMMA RestartStep ==
    ASSUME Types, NEW f \in Seed, Ahead(f), Covered(f), Restart
    PROVE  Before(content)' /\ Ahead(content)' /\ Covered(content)'
<1>0. content \in Seed /\ Number(Zero) = 0 /\ IsFiniteSet(Workers)
  BY ZeroNumber, SeedAssumption DEF Types
<1>1. /\ det' = content /\ UNCHANGED <<content, survivors, searched>> /\ spc' = "wait"
      /\ handed' = {} /\ runs' = runs + 1
      /\ \A w \in Workers : wpc'[w] = "initseed" /\ seed'[w] = Zero
  BY DEF Restart, Rebooted, fileVars
<1>2. PICK g : g = content
  OBVIOUS
<1>3. Number(g) <= Number(g)
  BY <1>0, <1>2, NumberIsNat
<1>4. Before(g)' /\ Ahead(g)'
  BY <1>0, <1>1, <1>2, <1>3 DEF Before, Ahead, Holds
<1>5. Covered(g)'
  <2>1. PICK L \in SUBSET Nat : L = (1 .. Number(content)) \ searched
    <3>1. (1 .. Number(content)) \ searched \in SUBSET Nat
      BY <1>0, NumberIsNat
    <3>. QED
      BY <3>1
  <2>2. IsFiniteSet(L) /\ Cardinality(L) <= Cardinality(Workers) * runs /\ runs \in Nat
    BY <2>1, CoveredSkipsFew DEF FewSeedsSkipped, Types
  <2>3. \A n \in 1 .. Number(g) : n \in searched' \/ n \in L
    BY <1>1, <1>2, <2>1
  <2>4. \A w \in Workers : Number(seed'[w]) = 0
    BY <1>0, <1>1
  <2>. QED
    BY <1>1, <2>2, <2>3, <2>4 DEF Covered
<1>. QED
  BY <1>1, <1>2, <1>4, <1>5

LEMMA ProgressStep ==
    ASSUME Types, Locks, Reading, NEW f, Before(f), Ahead(f), Covered(f), SeedsLeft, [Next]_vars
    PROVE  \E g : Before(g)' /\ Ahead(g)' /\ Covered(g)'
<1>1. CASE Restart
  <2>1. f \in Seed
    BY DEF Before
  <2>2. PICK g : g = content
    OBVIOUS
  <2>3. content' = content
    BY <1>1 DEF Restart, fileVars
  <2>4. Before(g)' /\ Ahead(g)' /\ Covered(g)'
    BY <1>1, <2>1, <2>2, <2>3, RestartStep
  <2>. QED
    BY <2>4
<1>2. ASSUME NEW w \in Workers, IncrementByte(w) PROVE \E g : Before(g)' /\ Ahead(g)' /\ Covered(g)'
  BY <1>2, CarryStep
<1>3. CASE ~Restart /\ \A w \in Workers : ~IncrementByte(w)
  BY <1>3, QuietStep, QuietCovered
<1>. QED
  BY <1>1, <1>2, <1>3

\* Only a seed that is handed out can come to be like another, and it is new.
LEMMA DistinctStep ==
    ASSUME Types, Locks, NEW f, Before(f), Ahead(f), DistinctSeeds, [Next]_vars
    PROVE  DistinctSeeds'
<1>. USE DEF workerVars, saverVars, fileVars, Goto
<1>0. wpc \in [Workers -> WorkerPCs] /\ seed \in [Workers -> Seed]
  BY DEF Types
<1>1. ASSUME UNCHANGED seed, \A v \in Workers : Holds(v)' => Holds(v)
      PROVE  DistinctSeeds'
  BY <1>1 DEF DistinctSeeds, Holds
<1>2. ASSUME NEW w \in Workers, CopySeed(w) PROVE DistinctSeeds'
  <2>1. wpc[w] = "copy" /\ wpc' = [wpc EXCEPT ![w] = "head"] /\ seed' = [seed EXCEPT ![w] = det]
    BY <1>2 DEF CopySeed
  <2>2. \A v \in Workers : wpc[v] # "increment"
    BY <2>1, SeedAssumption DEF Locks, Changing
  <2>3. f = det
    BY <2>2 DEF Before
  <2>4. \A v \in Workers : Holds(v) => seed[v] # det
    BY <2>1, <2>3 DEF Ahead
  <2>5. \A v \in Workers : v # w => (Holds(v)' <=> Holds(v)) /\ seed'[v] = seed[v]
    BY <1>0, <2>1 DEF Holds
  <2>6. seed'[w] = det
    BY <1>0, <2>1
  <2>7. ASSUME NEW v \in Workers, NEW u \in Workers, v # u, Holds(v)', Holds(u)'
        PROVE  seed'[v] # seed'[u]
    <3>1. CASE v = w
      BY <2>4, <2>5, <2>6, <2>7, <3>1
    <3>2. CASE u = w
      BY <2>4, <2>5, <2>6, <2>7, <3>2
    <3>3. CASE v # w /\ u # w
      BY <2>5, <2>7, <3>3 DEF DistinctSeeds, Holds
    <3>. QED
      BY <3>1, <3>2, <3>3
  <2>. QED
    BY <2>7 DEF DistinctSeeds, Holds
<1>3. ASSUME NEW w \in Workers, LockSeed(w) \/ IncrementByte(w) PROVE DistinctSeeds'
  BY <1>0, <1>1, <1>3 DEF LockSeed, IncrementByte, Holds
<1>4. ASSUME NEW w \in Workers, StartBatch(w) \/ NextBatch(w) \/ FinishSeed(w) PROVE DistinctSeeds'
  BY <1>0, <1>1, <1>4 DEF StartBatch, NextBatch, FinishSeed, Holds
<1>5. CASE SaverStep \/ MainStep \/ EndWork \/ Kill \/ PowerLoss
  <2>1. UNCHANGED <<wpc, seed>>
    BY <1>5 DEF SaverStep, MainStep, LockSave, ReadByte, WriteFile, SyncDir, StopSaver,
                JoinSaver, EndWork, Kill, PowerLoss
  <2>. QED
    BY <1>1, <2>1 DEF Holds
<1>6. CASE Restart
  BY <1>6 DEF Restart, Rebooted, DistinctSeeds
<1>7. CASE Terminated \/ UNCHANGED vars
  BY <1>1, <1>7 DEF Terminated, vars, Holds
<1>. QED
  BY ONLY <1>2, <1>3, <1>4, <1>5, <1>6, <1>7, [Next]_vars DEF Next, WorkerStep

\* The workers have ended before the saver is told, and its last save is whole.
LEMMA EndingStep ==
    ASSUME Types, Locks, Reading, Ending, [Next]_vars
    PROVE  Ending'
<1>. USE DEF workerVars, saverVars, fileVars, Goto
<1>0. wpc \in [Workers -> WorkerPCs] /\ mpc \in {"poll", "joinsaver", "exited", "down"}
  BY DEF Types
<1>1. ASSUME NEW w \in Workers, WorkerStep(w) PROVE Ending'
  <2>1. /\ Up /\ wpc[w] # "done"
        /\ UNCHANGED <<spc, cp, mpc, checkpointer_endwork, content, saveFailed>>
    BY <1>1 DEF WorkerStep, LockSeed, IncrementByte, CopySeed, StartBatch, NextBatch, FinishSeed
  <2>2. mpc = "poll"
    BY <1>0, <2>1 DEF Ending, Up
  <2>3. ~checkpointer_endwork
    BY <2>2 DEF Ending
  <2>. QED
    BY <2>1, <2>2, <2>3 DEF Ending
<1>2. CASE LockSave
  <2>1. /\ spc' \in {"read", "readlast"}
        /\ spc' = "readlast" => checkpointer_endwork
        /\ spc = "wait" /\ UNCHANGED <<wpc, mpc, checkpointer_endwork>>
    BY <1>2 DEF LockSave
  <2>. QED
    BY <2>1 DEF Ending
<1>3. CASE ReadByte
  <2>1. /\ spc \in {"read", "readlast"}
        /\ UNCHANGED <<det, wpc, mpc, checkpointer_endwork, content, saveFailed>>
        /\ \/ spc' = spc
           \/ spc = "read" /\ spc' = "write"
           \/ spc = "readlast" /\ spc' = "writelast" /\ sk = Len - 1
    BY <1>3 DEF ReadByte, Last
  <2>2. spc' = "writelast" => cp' = det
    BY <1>3, <2>1, WholeRead
  <2>. QED
    BY <2>1, <2>2 DEF Ending
<1>4. CASE WriteFile
  <2>1. /\ Up /\ UNCHANGED <<det, wpc, cp, mpc, checkpointer_endwork>>
        /\ \/ spc = "write" /\ spc' = "sync"
           \/ spc = "writelast" /\ spc' = "synclast"
        /\ content' = cp \/ saveFailed' = TRUE
    BY <1>4 DEF WriteFile, Last, File!Replace
  <2>2. spc = "writelast" => mpc = "joinsaver"
    BY <1>0, <2>1 DEF Ending, Up
  <2>3. spc = "writelast" => cp = det
    BY <2>2 DEF Ending
  <2>. QED
    BY <2>1, <2>2, <2>3 DEF Ending
<1>5. CASE SyncDir
  <2>1. /\ Up /\ UNCHANGED <<det, wpc, cp, mpc, checkpointer_endwork, content, saveFailed>>
        /\ \/ spc = "sync" /\ spc' = "wait"
           \/ spc = "synclast" /\ spc' = "stopped"
    BY <1>5 DEF SyncDir, Last, File!Commit
  <2>2. mpc # "exited"
    BY <2>1 DEF Up
  <2>. QED
    BY <2>1, <2>2 DEF Ending
<1>6. CASE StopSaver
  <2>1. /\ mpc = "poll" /\ mpc' = "joinsaver" /\ checkpointer_endwork' = TRUE
        /\ \A w \in Workers : wpc'[w] = "done"
        /\ UNCHANGED <<det, wpc, spc, cp, content, saveFailed>>
    BY <1>6 DEF StopSaver
  <2>2. spc \notin {"readlast", "writelast", "synclast", "stopped"}
    BY <2>1 DEF Ending
  <2>. QED
    BY <2>1, <2>2 DEF Ending
<1>7. CASE JoinSaver
  BY <1>7 DEF JoinSaver, Ending
<1>8. CASE EndWork
  BY <1>8 DEF EndWork, Ending
<1>9. CASE Kill \/ PowerLoss
  BY <1>9 DEF Kill, PowerLoss, Ending
<1>10. CASE Restart
  BY <1>10 DEF Restart, Rebooted, Ending
<1>11. CASE Terminated \/ UNCHANGED vars
  BY <1>11 DEF Terminated, vars, Ending
<1>. QED
  BY ONLY <1>1, <1>2, <1>3, <1>4, <1>5, <1>6, <1>7, <1>8, <1>9, <1>10, <1>11, [Next]_vars
     DEF Next, SaverStep, MainStep

LEMMA InitInv ==
    ASSUME Init
    PROVE  IInv
<1>1. Zero \in Seed /\ Number(Zero) = 0
  BY ZeroNumber
<1>2. /\ det = Zero /\ content = Zero /\ survivors = {Zero} /\ searched = {} /\ runs = 1
      /\ lock = NoOne /\ wpc = [w \in Workers |-> "initseed"]
      /\ seed = [w \in Workers |-> Zero] /\ k = [w \in Workers |-> 0]
      /\ spc = "wait" /\ cp = Zero /\ sk = 0 /\ mpc = "poll"
      /\ endwork = FALSE /\ checkpointer_endwork = FALSE /\ handed = {} /\ saveFailed = FALSE
  BY DEF Init, Boot
<1>3. Types
  <2>1. /\ det \in Seed /\ cp \in Seed /\ content \in Seed /\ seed \in [Workers -> Seed]
        /\ survivors \in SUBSET Seed /\ lock \in Workers \cup {Saver, NoOne}
    BY <1>1, <1>2
  <2>2. /\ wpc \in [Workers -> WorkerPCs] /\ k \in [Workers -> 0 .. Len] /\ sk \in 0 .. Len
        /\ \A w \in Workers : wpc[w] # "increment"
    BY <1>2, SeedAssumption DEF WorkerPCs
  <2>. QED
    BY <1>2, <2>1, <2>2 DEF Types, SaverPCs
<1>4. Locks /\ Reading /\ DistinctSeeds /\ Ending
  BY <1>2 DEF Locks, Changing, Reading, DistinctSeeds, Ending
<1>5. Before(Zero)
  BY <1>1, <1>2 DEF Before
<1>6. Number(Zero) <= Number(Zero)
  BY <1>1
<1>7. Ahead(Zero)
  BY <1>2, <1>6 DEF Ahead, Holds
<1>8. Covered(Zero)
  <2>1. IsFiniteSet({}) /\ Cardinality({}) = 0 /\ Cardinality(Workers) \in Nat
    BY SeedAssumption, FS_EmptySet, FS_CardinalityType
  <2>2. Cardinality({}) <= Cardinality(Workers) * 0 /\ runs = 0 + 1
    BY <1>2, <2>1
  <2>3. 1 .. Number(Zero) = {}
    BY <1>1
  <2>4. \A w \in Workers : Number(seed[w]) = 0
    BY <1>1, <1>2
  <2>. QED
    BY <2>1, <2>2, <2>3, <2>4 DEF Covered
<1>. QED
  BY <1>3, <1>4, <1>5, <1>7, <1>8 DEF IInv

LEMMA InvStep ==
    ASSUME IInv, SeedsLeft, [Next]_vars
    PROVE  IInv'
<1>1. Types /\ Locks /\ Reading /\ DistinctSeeds /\ Ending
  BY DEF IInv
<1>2. PICK f : Before(f) /\ Ahead(f) /\ Covered(f)
  BY DEF IInv
<1>3. Types' /\ Locks' /\ Reading' /\ DistinctSeeds' /\ Ending'
  BY <1>1, <1>2, TypesStep, LocksStep, ReadingStep, DistinctStep, EndingStep
<1>4. \E g : Before(g)' /\ Ahead(g)' /\ Covered(g)'
  BY <1>1, <1>2, ProgressStep
<1>. QED
  BY <1>3, <1>4 DEF IInv

(***************************************************************************)
(* The theorems.                                                           *)
(***************************************************************************)

\* Every variable keeps its type, in every run and through every end of one.
THEOREM SeedTypes == Spec => []TypeOK
<1>1. Init => Types
  BY InitInv DEF IInv
<1>2. Types /\ [Next]_vars => Types'
  BY TypesStep
<1>3. Types => TypeOK
  BY DEF Types, TypeOK, WorkerPCs, SaverPCs
<1>. QED
  BY <1>1, <1>2, <1>3, PTL DEF Spec

\* The inductive invariant, of behaviours that do not run out of seeds.
LEMMA SeedInv == Spec /\ []SeedsLeft => []IInv
<1>1. Init => IInv
  BY InitInv
<1>2. IInv /\ SeedsLeft /\ [Next]_vars => IInv'
  BY InvStep
<1>. QED
  BY <1>1, <1>2, PTL DEF Spec

\* Two workers never search the same seed at the same time: the carry of the
\* increment is done under the mutex the copy is taken under.
THEOREM SeedDistinct == Spec /\ []SeedsLeft => []DistinctSeeds
<1>1. IInv => DistinctSeeds
  BY DEF IInv
<1>. QED
  BY <1>1, SeedInv, PTL

\* No run skips seeds nobody took: of those up to the file's at most one for
\* each worker of each run was not searched.
THEOREM SeedFewSkipped == Spec /\ []SeedsLeft => []FewSeedsSkipped
<1>1. ASSUME IInv PROVE FewSeedsSkipped
  <2>1. PICK f : Before(f) /\ Ahead(f) /\ Covered(f)
    BY <1>1 DEF IInv
  <2>2. Types /\ f \in Seed
    BY <1>1, <2>1 DEF IInv, Before
  <2>. QED
    BY <2>1, <2>2, CoveredSkipsFew
<1>. QED
  BY <1>1, SeedInv, PTL

\* After an orderly end whose saves succeeded the file stands for a seed no
\* smaller than any handed out.
THEOREM SeedNothingRepeated == Spec /\ []SeedsLeft => []NothingRepeatedAfterEnd
<1>1. ASSUME IInv PROVE NothingRepeatedAfterEnd
  <2>1. PICK f : Before(f) /\ Ahead(f)
    BY <1>1 DEF IInv
  <2>2. SUFFICES ASSUME mpc = "exited", ~saveFailed
                 PROVE  \A s \in handed : s <= Number(content)
    BY DEF NothingRepeatedAfterEnd
  <2>3. content = det /\ \A w \in Workers : wpc[w] = "done"
    BY <1>1, <2>2 DEF IInv, Ending
  <2>4. f = det
    BY <2>1, <2>3 DEF Before
  <2>. QED
    BY <2>1, <2>3, <2>4 DEF Ahead
<1>. QED
  BY <1>1, SeedInv, PTL

\* Only a loss of power takes the checkpoint back.
THEOREM SeedOnlyForward == Spec /\ []SeedsLeft => OnlyForward
<1>1. ASSUME IInv, [Next]_vars
      PROVE  [Number(content') < Number(content) => mpc' = "down"]_vars
  <2>. USE DEF workerVars, saverVars, fileVars
  <2>1. Types /\ Types' /\ \E f : Before(f) /\ Ahead(f)
    BY <1>1, TypesStep DEF IInv
  <2>2. content \in Seed /\ content' \in Seed
    BY <2>1 DEF Types
  <2>3. PICK a \in Nat, b \in Nat : a = Number(content) /\ b = Number(content')
    BY <2>2, NumberIsNat
  <2>4. CASE content' = content
    BY <2>3, <2>4
  <2>5. CASE PowerLoss
    BY <2>5 DEF PowerLoss
  <2>6. CASE WriteFile
    <3>1. spc \in {"write", "writelast"} /\ content' \in {content, cp}
      BY <2>6 DEF WriteFile, File!Replace
    <3>2. Number(content) <= Number(cp)
      BY <2>1, <3>1 DEF Ahead
    <3>3. a <= b
      BY <2>3, <3>1, <3>2
    <3>. QED
      BY <2>3, <3>3
  <2>7. content' = content \/ PowerLoss \/ WriteFile
    BY <1>1 DEF Next, WorkerStep, SaverStep, MainStep, vars, LockSeed, IncrementByte, CopySeed,
                StartBatch, NextBatch, FinishSeed, LockSave, ReadByte, SyncDir, StopSaver,
                JoinSaver, EndWork, Kill, Restart, Terminated, File!Commit
  <2>. QED
    BY <2>4, <2>5, <2>6, <2>7
<1>. QED
  BY <1>1, SeedInv, PTL DEF Spec, OnlyForward
=============================================================================
