---------------------------- MODULE DownloadProofs ----------------------------
(***************************************************************************)
(* Theorems about the download, for every list of sizes, every threshold   *)
(* and size of a range, and every history of the objects; and the instance *)
(* on which TLC checks it: a small object, one of two ranges of which the  *)
(* second is short, and one of two whole ranges, each replaced once by an  *)
(* object that ends in the middle of the first range, or by a longer one.  *)
(***************************************************************************)
EXTENDS Download, SequenceTheorems, WellFoundedInduction, TLAPS

MCSizes == <<1, 3, 4>>
MCNewSizes == {1, 5}

-----------------------------------------------------------------------------
(* Items, ranges and jobs. *)

LEMMA ItemFacts ==
  /\ Items \subseteq Nat
  /\ Large \subseteq Items /\ Small \subseteq Items
  /\ Large \cap Small = {} /\ Items = Large \cup Small
  /\ \A i \in Items : Sizes[i] \in Nat
<1>1. Sizes \in Seq(Nat)
  BY DownloadAssumption
<1>2. Items = 1 .. Len(Sizes) /\ Len(Sizes) \in Nat
  BY <1>1 DEF Items
<1>3. \A i \in Items : Sizes[i] \in Nat
  BY <1>1, <1>2
<1>4. QED
  BY <1>2, <1>3 DEF Large, Small

LEMMA JobFacts ==
  ASSUME NEW j \in Jobs
  PROVE  /\ j = Job(j.item, j.range)
         /\ j.range = 0 <=> j.item \in Small
         /\ j.range # 0 <=> j.item \in Large
         /\ j.item \in Items
<1>1. CASE j \in {Job(i, 0) : i \in Small}
  BY <1>1, ItemFacts DEF Job
<1>2. CASE j \in UNION {{Job(i, n) : n \in Ranges(i)} : i \in Large}
  <2>1. PICK i \in Large : j \in {Job(i, n) : n \in Ranges(i)}
    BY <1>2
  <2>2. PICK n \in Ranges(i) : j = Job(i, n)
    BY <2>1
  <2>3. j.item = i /\ j.range = n
    BY <2>2 DEF Job
  <2>4. n # 0
    BY <2>2 DEF Ranges
  <2>5. QED
    BY <2>2, <2>3, <2>4, ItemFacts
<1>3. QED
  BY <1>1, <1>2 DEF Jobs

LEMMA SmallOnesAreJobs ==
  ASSUME NEW i \in Small
  PROVE  Job(i, 0) \in Jobs /\ Job(i, 0).item = i /\ Job(i, 0).range = 0
BY DEF Jobs, Job

LEMMA DivBounds ==
  ASSUME NEW a \in Nat, NEW c \in Nat \ {0}
  PROVE  /\ a \div c \in Nat
         /\ (a \div c) * c <= a
         /\ a < (a \div c) * c + c
BY SMT

LEMMA DivLargest ==
  ASSUME NEW a \in Nat, NEW c \in Nat \ {0}, NEW k \in Nat, k * c <= a
  PROVE  k <= a \div c
<1> DEFINE q == a \div c
<1>1. q \in Nat /\ a < q * c + c
  BY DivBounds
<1> HIDE DEF q
<1>2. k * c < (q + 1) * c
  BY <1>1
<1>3. k < q + 1
  BY <1>1, <1>2
<1>4. QED
  BY <1>1, <1>3 DEF q

(* The ranges of a large item leave no gap: each unit is in one of them.   *)
LEMMA RangesCover ==
  ASSUME NEW i \in Large, NEW u \in 1 .. Sizes[i]
  PROVE  \E j \in Jobs : j.item = i /\ j.range # 0 /\ u \in Units(j)
<1> DEFINE q == (u - 1) \div Chunk
           j == Job(i, q + 1)
<1>1. Chunk \in Nat \ {0} /\ u - 1 \in Nat /\ Sizes[i] \in Nat /\ u \in Nat
  BY DownloadAssumption, ItemFacts
<1>2. q \in Nat /\ q * Chunk <= u - 1 /\ u - 1 < q * Chunk + Chunk
  BY <1>1, DivBounds
<1> HIDE DEF q
<1>3. (q + 1) * Chunk <= Sizes[i] + Chunk - 1 /\ Sizes[i] + Chunk - 1 \in Nat
  BY <1>1, <1>2
<1>4. q + 1 <= (Sizes[i] + Chunk - 1) \div Chunk
  <2>1. q + 1 \in Nat
    BY <1>2
  <2> DEFINE last == Sizes[i] + Chunk - 1
             c == Chunk
  <2>2. last \in Nat /\ c \in Nat \ {0} /\ (q + 1) * c <= last
    BY <1>1, <1>3
  <2> HIDE DEF last, c
  <2>3. q + 1 <= last \div c
    BY <2>1, <2>2, DivLargest
  <2>4. QED
    BY <2>3 DEF last, c
<1>5. q + 1 \in Ranges(i)
  <2>1. (Sizes[i] + Chunk - 1) \div Chunk \in Nat
    BY <1>1, <1>3, DivBounds
  <2>2. QED
    BY <1>2, <1>4, <2>1 DEF Ranges
<1>6. j \in Jobs /\ j.item = i /\ j.range = q + 1
  BY <1>5 DEF Jobs, Job
<1> HIDE DEF j
<1>7. Start(j) = q * Chunk
  BY <1>1, <1>2, <1>6 DEF Start
<1>8. u \in (Start(j) + 1) .. (Start(j) + Chunk) /\ u <= Sizes[i]
  <2>1. q * Chunk \in Nat
    BY <1>1, <1>2
  <2>2. QED
    BY <1>1, <1>2, <1>7, <2>1
<1>9. QED
  BY <1>2, <1>6, <1>8 DEF Units

(* The loops before and after the pool take the first item that is left.   *)
LEMMA SmallestIsThere ==
  ASSUME NEW S, S \subseteq Nat, S # {}
  PROVE  Smallest(S) \in S
<1> DEFINE Less == OpToRel(<, Nat)
<1>1. IsWellFoundedOn(Less, Nat)
  BY NatLessThanWellFounded, Zenon
<1>2. Less = {ss \in Nat \X Nat : ss[1] < ss[2]}
  BY Zenon DEF OpToRel
<1> HIDE DEF Less
<1>3. PICK x \in S : \A y \in S : ~ (<<y, x>> \in Less)
  BY <1>1, WFMin
<1>4. ASSUME NEW y \in S
      PROVE  x <= y
  <2>1. x \in Nat /\ y \in Nat
    OBVIOUS
  <2>2. <<y, x>> \notin Less /\ <<y, x>> \in Nat \X Nat
    BY <1>3, <2>1
  <2>3. ~ (y < x)
    BY <1>2, <2>2
  <2>4. QED
    BY <2>1, <2>3
<1>5. QED
  BY <1>4 DEF Smallest

LEMMA FirstLeft ==
  ASSUME NEW S, S \subseteq Large, Large \ S # {}
  PROVE  Smallest(Large \ S) \in Large /\ Smallest(Large \ S) \notin S
<1>1. Large \ S \subseteq Nat
  BY ItemFacts
<1>2. QED
  BY <1>1, SmallestIsThere

-----------------------------------------------------------------------------
(* Files. *)

Data == Seq(0 .. MaxVersions)

LEMMA BlankIsData ==
  ASSUME NEW n \in Nat
  PROVE  Blank(n) \in Data /\ DOMAIN Blank(n) = 1 .. n
<1>1. Blank(n) \in [1 .. n -> 0 .. MaxVersions]
  BY DownloadAssumption DEF Blank, Zero
<1>2. QED
  BY <1>1, SeqDef DEF Blank, Data

LEMMA FilledIsData ==
  ASSUME NEW n \in Nat, NEW v \in 1 .. MaxVersions
  PROVE  /\ Filled(n, v) \in Data
         /\ \A u \in DOMAIN Filled(n, v) : Filled(n, v)[u] # Zero
<1>1. Filled(n, v) \in [1 .. n -> 0 .. MaxVersions]
  BY DownloadAssumption DEF Filled
<1>2. QED
  BY <1>1, SeqDef DEF Filled, Data, Zero

-----------------------------------------------------------------------------
(* The inductive invariant.  What the runs check says nothing of the jobs  *)
(* under way, of what a range that ended has left in the file, nor of why  *)
(* a file may be gone.                                                     *)

Fresh == todo = {} /\ active = {} /\ finished = {}

(* The pool: it runs in one phase, and then each job is to do, under way,  *)
(* or finished, and only one of them.                                      *)
PoolInv ==
  /\ phase \in {"open", "error"} => call = 1 /\ ~running /\ Fresh
  /\ phase = "pool" =>
       /\ call = 1 /\ running
       /\ todo \cup active \cup finished = Jobs
       /\ todo \cap active = {} /\ (todo \cup active) \cap finished = {}
  /\ phase \in {"settle", "done"} => call = 2 /\ ~running /\ Fresh

(* The large items, phase by phase. *)
PhaseInv ==
  /\ phase \in {"pool", "settle", "done"} => opened = Large
  /\ phase \notin {"settle", "done"} => settled = {}
  /\ phase = "done" => settled = Large

Ran(j) == phase \in {"settle", "done"} \/ (phase = "pool" /\ j \in finished)

(* A unit of a file was written, or lies behind the end of a version of    *)
(* the object.                                                             *)
Covered(i, u) == file[i][u] # Zero \/ \E v \in 1 .. Len(versions[i]) : versions[i][v] < u

(* A job that ran: a small item was reported; a range left no unit of its  *)
(* own unwritten, or its item has failed.  A job that is skipped is a      *)
(* range whose item had.                                                   *)
JobInv(j) ==
  /\ j \in active \ sending => j.range # 0 /\ j.item \in failures
  /\ j.range = 0 => (reported[j.item] = "none" <=> ~Ran(j))
  /\ j.range # 0 /\ Ran(j) /\ j.item \notin failures => \A u \in Units(j) : Covered(j.item, u)

(* A large item is reported when it is settled, as failed if it is.  Its   *)
(* file has the listed length from the moment it is open until it is       *)
(* removed, which is only when a failed item is settled.                   *)
LargeInv(i) ==
  /\ reported[i] = "none" <=> i \notin settled
  /\ i \in settled => (reported[i] = "failed" <=> i \in failures)
  /\ i \in opened =>
       \/ made[i] = "ours" /\ DOMAIN file[i] = 1 .. Sizes[i]
       \/ made[i] = "removed" /\ i \in settled /\ i \in failures
  /\ i \in settled /\ i \in failures => made[i] = "removed" \/ i \in stuck

SmallInv(i) ==
  reported[i] = "ok" => made[i] = "ours" /\ \A u \in DOMAIN file[i] : file[i][u] # Zero

DataInv ==
  /\ versions \in [Items -> Seq(Nat)]
  /\ \A i \in Items : Len(versions[i]) \in 1 .. MaxVersions
  /\ file \in [Items -> Data]

SetsInv ==
  /\ todo \subseteq Jobs /\ active \subseteq Jobs /\ finished \subseteq Jobs
  /\ phase \in {"open", "pool", "settle", "done", "error"}
  /\ opened \subseteq Large /\ failures \subseteq Large /\ settled \subseteq Large
  /\ sending \subseteq active /\ stuck \subseteq failures
  /\ reported \in [Items -> {"none", "ok", "failed"}]
  /\ made \in [Items -> {"before", "ours", "removed"}]

Inv ==
  /\ SetsInv /\ DataInv /\ PoolInv /\ PhaseInv
  /\ \A j \in Jobs : JobInv(j)
  /\ \A i \in Large : LargeInv(i)
  /\ \A i \in Small : SmallInv(i)

LEMMA InvImpliesType == Inv => TypeOK
<1> SUFFICES ASSUME Inv
             PROVE  TypeOK
  OBVIOUS
<1>1. call \in 1 .. 2 /\ running \in BOOLEAN
  <2>1. (call = 1 \/ call = 2) /\ (running = TRUE \/ running = FALSE)
    BY DEF Inv, SetsInv, PoolInv
  <2>2. call \in 1 .. 2
    BY <2>1
  <2>3. QED
    BY <2>1, <2>2
<1>2. \A i \in Items :
        /\ Len(versions[i]) \in 1 .. MaxVersions
        /\ versions[i] \in Seq(Nat)
        /\ file[i] \in Seq(0 .. MaxVersions)
  BY DEF Inv, DataInv, Data
<1>3. QED
  BY <1>1, <1>2 DEF Inv, SetsInv, TypeOK

LEMMA InitInv == Init => Inv
<1> SUFFICES ASSUME Init
             PROVE  Inv
  OBVIOUS
<1> USE DEF Init, Pool!AbsInit
<1>1. SetsInv
  <2>1. /\ reported \in [Items -> {"none", "ok", "failed"}]
        /\ made \in [Items -> {"before", "ours", "removed"}]
    OBVIOUS
  <2>2. /\ todo = {} /\ active = {} /\ finished = {} /\ opened = {} /\ failures = {}
        /\ settled = {} /\ sending = {} /\ stuck = {} /\ phase = "open"
    OBVIOUS
  <2> HIDE DEF Init, Pool!AbsInit
  <2>3. QED
    BY <2>1, <2>2 DEF SetsInv
<1>2. DataInv
  <2>1. \A i \in Items : <<Sizes[i]>> \in Seq(Nat) /\ Len(<<Sizes[i]>>) = 1
    BY ItemFacts
  <2>2. 1 \in 1 .. MaxVersions
    BY DownloadAssumption
  <2>3. Blank(0) \in Data
    BY BlankIsData
  <2>4. versions = [i \in Items |-> <<Sizes[i]>>] /\ file = [i \in Items |-> Blank(0)]
    OBVIOUS
  <2> HIDE DEF Init, Pool!AbsInit
  <2>5. versions \in [Items -> Seq(Nat)] /\ \A i \in Items : Len(versions[i]) = 1
    BY <2>1, <2>4
  <2>6. QED
    BY <2>2, <2>3, <2>4, <2>5 DEF DataInv
<1>3. PoolInv /\ PhaseInv
  BY DEF PoolInv, PhaseInv, Fresh
<1>4. \A j \in Jobs : JobInv(j)
  BY JobFacts DEF JobInv, Ran
<1>5. \A i \in Large : LargeInv(i)
  BY ItemFacts DEF LargeInv
<1>6. \A i \in Small : SmallInv(i)
  BY ItemFacts DEF SmallInv
<1>7. QED
  BY <1>1, <1>2, <1>3, <1>4, <1>5, <1>6 DEF Inv

-----------------------------------------------------------------------------
(* What a step does to the files.  Writing to one leaves the rest alone,   *)
(* and a unit that is covered stays so: what is written is a version, and  *)
(* the versions of an object only become more.                             *)

LEMMA PutFacts ==
  ASSUME DataInv, SetsInv, NEW i \in Items, NEW f \in Data, Put(i, f)
  PROVE  /\ file' \in [Items -> Data] /\ made' \in [Items -> {"before", "ours", "removed"}]
         /\ file'[i] = f /\ made'[i] = "ours"
         /\ \A k \in Items : k # i => UNCHANGED <<file[k], made[k]>>
BY DEF DataInv, SetsInv, Put

LEMMA CoveredStays ==
  ASSUME NEW i, NEW u,
         Covered(i, u),
         file'[i][u] = file[i][u] \/ file'[i][u] # Zero,
         Len(versions[i]) \in Nat, Len(versions'[i]) \in Nat,
         Len(versions[i]) <= Len(versions'[i]),
         \A v \in 1 .. Len(versions[i]) : versions'[i][v] = versions[i][v]
  PROVE  Covered(i, u)'
<1>1. CASE file[i][u] # Zero
  BY <1>1 DEF Covered
<1>2. CASE \E v \in 1 .. Len(versions[i]) : versions[i][v] < u
  <2>1. PICK v \in 1 .. Len(versions[i]) : versions[i][v] < u
    BY <1>2
  <2>2. v \in 1 .. Len(versions'[i]) /\ versions'[i][v] < u
    BY <2>1
  <2>3. QED
    BY <2>2 DEF Covered
<1>3. QED
  BY <1>1, <1>2 DEF Covered

(* A step that does not touch the files nor the objects.                   *)
LEMMA QuietData ==
  ASSUME DataInv, UNCHANGED <<versions, file>>
  PROVE  DataInv' /\ \A i \in Items : \A u : Covered(i, u)' <=> Covered(i, u)
BY DEF DataInv, Covered

(* What each way to complete a job does to the pool. *)
LEMMA CompleteStep ==
  ASSUME Inv, NEW j \in Jobs, Pool!Complete(j), phase' = phase
  PROVE  /\ phase = "pool" /\ PoolInv' /\ Ran(j)' /\ ~Ran(j)
         /\ j \notin active' /\ active' = active \ {j}
         /\ todo' \subseteq Jobs /\ active' \subseteq Jobs /\ finished' \subseteq Jobs
         /\ \A k \in Jobs : k # j => (Ran(k)' <=> Ran(k))
<1>1. /\ j \in active /\ j \notin finished
      /\ active' = active \ {j} /\ finished' = finished \cup {j}
      /\ UNCHANGED <<call, running, todo>>
  BY DEF Pool!Complete
<1>2. phase = "pool"
  BY <1>1 DEF Inv, SetsInv, PoolInv, Fresh
<1>3. PoolInv'
  BY <1>1, <1>2 DEF Inv, PoolInv
<1>4. QED
  BY <1>1, <1>2, <1>3 DEF Inv, SetsInv, Ran

-----------------------------------------------------------------------------
(* The steps outside the pool's jobs. *)

LEMMA OpenStep == Inv /\ OpenFile => Inv'
<1> SUFFICES ASSUME Inv, OpenFile
             PROVE  Inv'
  OBVIOUS
<1> DEFINE n == Next1
<1>1. n \in Large /\ n \in Items /\ n \notin opened /\ Sizes[n] \in Nat
  BY FirstLeft, ItemFacts DEF OpenFile, Next1, Inv, SetsInv
<1>2. /\ phase = "open" /\ opened' = opened \cup {n}
      /\ Put(n, Blank(Sizes[n]))
      /\ UNCHANGED <<poolVars, phase, sending, failures, settled, reported, stuck, versions>>
  BY DEF OpenFile
<1> HIDE DEF n
<1>3. Blank(Sizes[n]) \in Data /\ DOMAIN Blank(Sizes[n]) = 1 .. Sizes[n]
  BY <1>1, BlankIsData
<1>4. /\ file' \in [Items -> Data] /\ made' \in [Items -> {"before", "ours", "removed"}]
      /\ file'[n] = Blank(Sizes[n]) /\ made'[n] = "ours"
      /\ \A k \in Items : k # n => UNCHANGED <<file[k], made[k]>>
  BY <1>1, <1>2, <1>3, PutFacts DEF Inv
<1>5. SetsInv'
  BY <1>1, <1>2, <1>4 DEF Inv, SetsInv, poolVars
<1>6. DataInv'
  BY <1>2, <1>4 DEF Inv, DataInv
<1>7. PoolInv' /\ PhaseInv'
  BY <1>2 DEF Inv, PoolInv, PhaseInv, Fresh, poolVars
<1>8. ASSUME NEW j \in Jobs
      PROVE  JobInv(j)'
  BY <1>2 DEF Inv, JobInv, Ran, poolVars
<1>9. ASSUME NEW i \in Large
      PROVE  LargeInv(i)'
  <2>1. CASE i = n
    BY <1>1, <1>2, <1>3, <1>4, <2>1 DEF Inv, LargeInv, PhaseInv
  <2>2. CASE i # n
    BY <1>2, <1>4, <2>2, ItemFacts DEF Inv, LargeInv
  <2>3. QED
    BY <2>1, <2>2
<1>10. ASSUME NEW i \in Small
       PROVE  SmallInv(i)'
  <2>1. i # n /\ i \in Items
    BY <1>1, ItemFacts
  <2>2. QED
    BY <1>2, <1>4, <2>1 DEF Inv, SmallInv
<1>11. QED
  BY <1>5, <1>6, <1>7, <1>8, <1>9, <1>10 DEF Inv

LEMMA OpenFailsStep == Inv /\ OpenFails => Inv'
<1> SUFFICES ASSUME Inv, OpenFails
             PROVE  Inv'
  OBVIOUS
<1> DEFINE n == Next1
<1>1. n \in Large /\ n \in Items /\ n \notin opened
  BY FirstLeft, ItemFacts DEF OpenFails, Next1, Inv, SetsInv
<1>2. /\ phase = "open" /\ phase' = "error"
      /\ UNCHANGED fileVars \/ Put(n, Blank(0))
      /\ UNCHANGED <<poolVars, clientVars, sending, versions>>
  BY DEF OpenFails
<1> HIDE DEF n
<1>3. Blank(0) \in Data
  BY BlankIsData
<1>4. /\ file' \in [Items -> Data] /\ made' \in [Items -> {"before", "ours", "removed"}]
      /\ \A k \in Items : k # n => UNCHANGED <<file[k], made[k]>>
  <2>1. CASE UNCHANGED fileVars
    BY <2>1 DEF Inv, SetsInv, DataInv, fileVars
  <2>2. CASE Put(n, Blank(0))
    BY <1>1, <1>3, <2>2, PutFacts DEF Inv
  <2>3. QED
    BY <1>2, <2>1, <2>2
<1>5. SetsInv'
  BY <1>2, <1>4 DEF Inv, SetsInv, poolVars, clientVars
<1>6. DataInv'
  BY <1>2, <1>4 DEF Inv, DataInv
<1>7. PoolInv' /\ PhaseInv'
  BY <1>2 DEF Inv, PoolInv, PhaseInv, Fresh, poolVars, clientVars
<1>8. ASSUME NEW j \in Jobs
      PROVE  JobInv(j)'
  BY <1>2 DEF Inv, JobInv, Ran, poolVars, clientVars
<1>9. ASSUME NEW i \in Large
      PROVE  LargeInv(i)'
  <2>1. i \notin settled
    BY <1>2 DEF Inv, PhaseInv
  <2>2. i \in opened => UNCHANGED <<file[i], made[i]>>
    BY <1>1, <1>4, ItemFacts
  <2>3. QED
    BY <1>2, <2>1, <2>2 DEF Inv, LargeInv, clientVars
<1>10. ASSUME NEW i \in Small
       PROVE  SmallInv(i)'
  <2>1. i # n /\ i \in Items
    BY <1>1, ItemFacts
  <2>2. QED
    BY <1>2, <1>4, <2>1 DEF Inv, SmallInv, clientVars
<1>11. QED
  BY <1>5, <1>6, <1>7, <1>8, <1>9, <1>10 DEF Inv

LEMMA StartStep == Inv /\ StartPool => Inv'
<1> SUFFICES ASSUME Inv, StartPool
             PROVE  Inv'
  OBVIOUS
<1>1. /\ phase = "open" /\ phase' = "pool" /\ opened = Large
      /\ running' = TRUE /\ call' = call
      /\ UNCHANGED <<active, finished, clientVars, sending, fileVars, versions>>
  BY DEF StartPool, Pool!StartCall
<1>2. call = 1 /\ Fresh
  BY <1>1 DEF Inv, PoolInv
<1>3. todo' = Jobs
  BY <1>2 DEF StartPool, Pool!StartCall
<1>4. SetsInv'
  BY <1>1, <1>3 DEF Inv, SetsInv, clientVars, fileVars
<1>5. PoolInv' /\ PhaseInv'
  BY <1>1, <1>2, <1>3 DEF Inv, PoolInv, PhaseInv, Fresh, clientVars
<1>6. DataInv' /\ \A i \in Items : \A u : Covered(i, u)' <=> Covered(i, u)
  BY <1>1, QuietData DEF Inv, fileVars
<1>7. ASSUME NEW j \in Jobs
      PROVE  JobInv(j)'
  BY <1>1, <1>2 DEF Inv, JobInv, Ran, Fresh, clientVars
<1>8. ASSUME NEW i \in Large
      PROVE  LargeInv(i)'
  BY <1>1 DEF Inv, LargeInv, clientVars, fileVars
<1>9. ASSUME NEW i \in Small
      PROVE  SmallInv(i)'
  BY <1>1 DEF Inv, SmallInv, clientVars, fileVars
<1>10. QED
  BY <1>4, <1>5, <1>6, <1>7, <1>8, <1>9 DEF Inv

(* The pool has returned: every job ran. *)
LEMMA EndStep == Inv /\ EndPool => Inv'
<1> SUFFICES ASSUME Inv, EndPool
             PROVE  Inv'
  OBVIOUS
<1>1. /\ phase = "pool" /\ phase' = "settle"
      /\ running' = FALSE /\ call' = call + 1 /\ finished' = {}
      /\ todo = {} /\ active = {}
      /\ UNCHANGED <<todo, active, clientVars, sending, fileVars, versions>>
  BY DEF EndPool, Pool!ReturnCall
<1>2. call = 1 /\ finished = Jobs
  BY <1>1 DEF Inv, PoolInv
<1>3. SetsInv'
  BY <1>1 DEF Inv, SetsInv, clientVars, fileVars
<1>4. PoolInv' /\ PhaseInv'
  BY <1>1, <1>2 DEF Inv, PoolInv, PhaseInv, Fresh, clientVars
<1>5. DataInv' /\ \A i \in Items : \A u : Covered(i, u)' <=> Covered(i, u)
  BY <1>1, QuietData DEF Inv, fileVars
<1>6. ASSUME NEW j \in Jobs
      PROVE  JobInv(j)'
  <2>1. Ran(j) /\ Ran(j)' /\ JobInv(j) /\ j.item \in Items
    BY <1>1, <1>2, JobFacts DEF Inv, Ran
  <2>2. QED
    BY <1>1, <1>5, <2>1 DEF JobInv, clientVars
<1>7. ASSUME NEW i \in Large
      PROVE  LargeInv(i)'
  BY <1>1 DEF Inv, LargeInv, clientVars, fileVars
<1>8. ASSUME NEW i \in Small
      PROVE  SmallInv(i)'
  BY <1>1 DEF Inv, SmallInv, clientVars, fileVars
<1>9. QED
  BY <1>3, <1>4, <1>5, <1>6, <1>7, <1>8 DEF Inv

LEMMA FinishStep == Inv /\ Finish => Inv'
<1> SUFFICES ASSUME Inv, Finish
             PROVE  Inv'
  OBVIOUS
<1>1. /\ phase = "settle" /\ phase' = "done" /\ settled = Large
      /\ UNCHANGED <<poolVars, clientVars, sending, fileVars, versions>>
  BY DEF Finish
<1>2. SetsInv'
  BY <1>1 DEF Inv, SetsInv, poolVars, clientVars, fileVars
<1>3. PoolInv' /\ PhaseInv'
  BY <1>1 DEF Inv, PoolInv, PhaseInv, Fresh, poolVars, clientVars
<1>4. DataInv' /\ \A i \in Items : \A u : Covered(i, u)' <=> Covered(i, u)
  BY <1>1, QuietData DEF Inv, fileVars
<1>5. ASSUME NEW j \in Jobs
      PROVE  JobInv(j)'
  <2>1. Ran(j) /\ Ran(j)' /\ JobInv(j) /\ j.item \in Items
    BY <1>1, JobFacts DEF Inv, Ran
  <2>2. QED
    BY <1>1, <1>4, <2>1 DEF JobInv, clientVars, poolVars
<1>6. ASSUME NEW i \in Large
      PROVE  LargeInv(i)'
  BY <1>1 DEF Inv, LargeInv, clientVars, fileVars
<1>7. ASSUME NEW i \in Small
      PROVE  SmallInv(i)'
  BY <1>1 DEF Inv, SmallInv, clientVars, fileVars
<1>8. QED
  BY <1>2, <1>3, <1>4, <1>5, <1>6, <1>7 DEF Inv

(* Keeping and removing: the item in hand is settled and reported, as      *)
(* failed exactly if it is, and only then is its file taken away.          *)
LEMMA SettleStep == Inv /\ (Keep \/ Remove) => Inv'
<1> SUFFICES ASSUME Inv, Keep \/ Remove
             PROVE  Inv'
  OBVIOUS
<1>0. PICK c \in Large : c = InHand /\ c \notin settled
  BY FirstLeft DEF Inv, SetsInv, InHand, Keep, Remove, Settling
<1>1. /\ phase = "settle" /\ settled' = settled \cup {c}
      /\ UNCHANGED <<poolVars, phase, opened, sending, failures, versions>>
      /\ \E r \in {"ok", "failed"} :
           reported' = [reported EXCEPT ![c] = r] /\ (r = "failed" <=> c \in failures)
      /\ \/ UNCHANGED fileVars /\ stuck' = stuck /\ c \notin failures
         \/ Unlink(c) /\ stuck' = stuck /\ c \in failures
         \/ UNCHANGED fileVars /\ stuck' = stuck \cup {c} /\ c \in failures
  BY <1>0 DEF Keep, Remove, Settling, Report
<1>2. c \in Large /\ c \notin settled /\ c \in Items
  BY <1>0, ItemFacts
<1>3. /\ reported' \in [Items -> {"none", "ok", "failed"}]
      /\ reported'[c] # "none" /\ (reported'[c] = "failed" <=> c \in failures)
      /\ \A i \in Items : i # c => reported'[i] = reported[i]
  BY <1>1, <1>2 DEF Inv, SetsInv
<1>4. /\ file' \in [Items -> Data] /\ made' \in [Items -> {"before", "ours", "removed"}]
      /\ \A i \in Items : i # c => UNCHANGED <<file[i], made[i]>>
      /\ \/ UNCHANGED <<file[c], made[c]>>
         \/ made'[c] = "removed" /\ c \in failures
      /\ c \in failures => made'[c] = "removed" \/ c \in stuck'
  <2>1. Blank(0) \in Data
    BY BlankIsData
  <2>2. CASE UNCHANGED fileVars
    <3>1. c \in failures => c \in stuck' \/ Unlink(c)
      BY <1>1
    <3>2. Unlink(c) => made'[c] = "removed"
      BY <1>2 DEF Inv, SetsInv, Unlink
    <3>3. QED
      BY <2>2, <3>1, <3>2 DEF Inv, SetsInv, DataInv, fileVars
  <2>3. CASE Unlink(c) /\ c \in failures
    BY <1>2, <2>1, <2>3 DEF Inv, SetsInv, DataInv, Unlink
  <2>4. QED
    BY <1>1, <2>2, <2>3
<1>5. stuck' \subseteq failures /\ stuck \subseteq stuck'
  BY <1>1 DEF Inv, SetsInv
<1>6. SetsInv'
  BY <1>1, <1>2, <1>3, <1>4, <1>5 DEF Inv, SetsInv, poolVars
<1>7. DataInv'
  BY <1>1, <1>4 DEF Inv, DataInv
<1>8. PoolInv' /\ PhaseInv'
  BY <1>1 DEF Inv, PoolInv, PhaseInv, Fresh, poolVars
<1>9. ASSUME NEW j \in Jobs
      PROVE  JobInv(j)'
  <2>1. Ran(j) /\ Ran(j)' /\ JobInv(j) /\ j.item \in Items /\ active' = active /\ sending' = sending
    BY <1>1, JobFacts DEF Inv, Ran, poolVars
  <2>2. CASE j.item = c
    <3>1. j.range # 0
      BY <1>2, <2>2, JobFacts
    <3>2. c \notin failures => \A u : Covered(c, u)' <=> Covered(c, u)
      BY <1>1, <1>4 DEF Covered
    <3>3. QED
      BY <1>1, <2>1, <2>2, <3>1, <3>2 DEF JobInv
  <2>3. CASE j.item # c
    <3>1. \A u : Covered(j.item, u)' <=> Covered(j.item, u)
      BY <1>1, <1>4, <2>1, <2>3 DEF Covered
    <3>2. reported'[j.item] = reported[j.item]
      BY <1>3, <2>1, <2>3
    <3>3. QED
      BY <1>1, <2>1, <3>1, <3>2 DEF JobInv
  <2>4. QED
    BY <2>2, <2>3
<1>10. ASSUME NEW i \in Large
       PROVE  LargeInv(i)'
  <2>1. i \in Items /\ LargeInv(i)
    BY ItemFacts DEF Inv
  <2>2. CASE i = c
    BY <1>1, <1>2, <1>3, <1>4, <2>1, <2>2 DEF LargeInv
  <2>3. CASE i # c
    BY <1>1, <1>3, <1>4, <1>5, <2>1, <2>3 DEF LargeInv
  <2>4. QED
    BY <2>2, <2>3
<1>11. ASSUME NEW i \in Small
       PROVE  SmallInv(i)'
  <2>1. i # c /\ i \in Items
    BY <1>2, ItemFacts
  <2>2. QED
    BY <1>3, <1>4, <2>1 DEF Inv, SmallInv
<1>12. QED
  BY <1>6, <1>7, <1>8, <1>9, <1>10, <1>11 DEF Inv

-----------------------------------------------------------------------------
(* The jobs. *)

LEMMA TakeStep == ASSUME Inv, NEW j \in Jobs, TakeJob(j) PROVE Inv'
<1>1. /\ phase = "pool" /\ j \in todo
      /\ todo' = todo \ {j} /\ active' = active \cup {j}
      /\ sending' = IF j.range # 0 /\ j.item \in failures THEN sending ELSE sending \cup {j}
      /\ UNCHANGED <<call, running, finished, clientVars, phase, fileVars, versions>>
  BY DEF TakeJob, Pool!Take
<1>2. SetsInv'
  BY <1>1 DEF Inv, SetsInv, clientVars, fileVars
<1>3. PoolInv' /\ PhaseInv'
  BY <1>1 DEF Inv, PoolInv, PhaseInv, clientVars
<1>4. DataInv' /\ \A i \in Items : \A u : Covered(i, u)' <=> Covered(i, u)
  BY <1>1, QuietData DEF Inv, fileVars
<1>5. ASSUME NEW k \in Jobs
      PROVE  JobInv(k)'
  <2>1. j \notin sending /\ j \notin active
    BY <1>1 DEF Inv, SetsInv, PoolInv
  <2>2. k \in active' \ sending' => k.range # 0 /\ k.item \in failures
    BY <1>1, <2>1 DEF Inv, JobInv
  <2>3. (Ran(k)' <=> Ran(k)) /\ JobInv(k) /\ k.item \in Items
    BY <1>1, JobFacts DEF Ran, Inv
  <2>4. QED
    BY <1>1, <1>4, <2>2, <2>3 DEF JobInv, clientVars
<1>6. ASSUME NEW i \in Large
      PROVE  LargeInv(i)'
  BY <1>1 DEF Inv, LargeInv, clientVars, fileVars
<1>7. ASSUME NEW i \in Small
      PROVE  SmallInv(i)'
  BY <1>1 DEF Inv, SmallInv, clientVars, fileVars
<1>8. QED
  BY <1>2, <1>3, <1>4, <1>5, <1>6, <1>7 DEF Inv

LEMMA SkipStep == ASSUME Inv, NEW j \in Jobs, SkipRange(j) PROVE Inv'
<1>1. /\ j \in active /\ j \notin sending
      /\ Pool!Complete(j) /\ phase' = phase
      /\ UNCHANGED <<clientVars, sending, fileVars, versions>>
  BY DEF SkipRange
<1>2. j.range # 0 /\ j.item \in failures
  BY <1>1 DEF Inv, JobInv
<1>3. SetsInv'
  BY <1>1, CompleteStep DEF Inv, SetsInv, clientVars, fileVars
<1>4. PoolInv' /\ PhaseInv'
  BY <1>1, CompleteStep DEF Inv, PhaseInv, clientVars
<1>5. DataInv' /\ \A i \in Items : \A u : Covered(i, u)' <=> Covered(i, u)
  BY <1>1, QuietData DEF Inv, fileVars
<1>6. ASSUME NEW k \in Jobs
      PROVE  JobInv(k)'
  <2>1. k.item \in Items /\ JobInv(k) /\ active' = active \ {j} /\ UNCHANGED <<failures, reported>>
    BY <1>1, CompleteStep, JobFacts DEF Inv, clientVars
  <2>2. CASE k = j
    BY <1>1, <1>2, <2>1, <2>2 DEF JobInv
  <2>3. CASE k # j
    <3>1. Ran(k)' <=> Ran(k)
      BY <1>1, <2>3, CompleteStep
    <3>2. QED
      BY <1>1, <1>5, <2>1, <3>1 DEF JobInv
  <2>4. QED
    BY <2>2, <2>3
<1>7. ASSUME NEW i \in Large
      PROVE  LargeInv(i)'
  BY <1>1 DEF Inv, LargeInv, clientVars, fileVars
<1>8. ASSUME NEW i \in Small
      PROVE  SmallInv(i)'
  BY <1>1 DEF Inv, SmallInv, clientVars, fileVars
<1>9. QED
  BY <1>3, <1>4, <1>5, <1>6, <1>7, <1>8 DEF Inv

(* The version a request meets, and its size. *)
LEMMA VersionFacts ==
  ASSUME DataInv, NEW i \in Items
  PROVE  /\ Current(i) \in 1 .. MaxVersions /\ Current(i) = Len(versions[i])
         /\ SizeNow(i) \in Nat
<1>1. versions[i] \in Seq(Nat) /\ Len(versions[i]) \in 1 .. MaxVersions
  BY DEF DataInv
<1>2. versions[i][Len(versions[i])] \in Nat
  BY <1>1
<1>3. QED
  BY <1>1, <1>2 DEF Current, SizeNow

LEMMA WholeStep == ASSUME Inv, NEW j \in Jobs, GetWhole(j) PROVE Inv'
<1> DEFINE s == j.item
<1>1. /\ j \in sending /\ j.range = 0
      /\ Pool!Complete(j) /\ phase' = phase
      /\ sending' = sending \ {j}
      /\ UNCHANGED <<opened, failures, settled, stuck, versions>>
  BY DEF GetWhole
<1>2. s \in Small /\ s \in Items /\ s \notin Large
  BY <1>1, JobFacts, ItemFacts
<1>3. Current(s) \in 1 .. MaxVersions /\ SizeNow(s) \in Nat
  BY <1>2, VersionFacts DEF Inv
<1>4. \/ Put(s, Filled(SizeNow(s), Current(s))) /\ Report(s, "ok")
      \/ UNCHANGED fileVars /\ Report(s, "failed")
      \/ /\ \E cut \in 0 .. SizeNow(s) : Put(s, Filled(cut, Current(s)))
         /\ Report(s, "failed")
  BY DEF GetWhole
<1>5. \A k \in Jobs : k.range = 0 /\ k.item = s => k = j
  BY <1>1, JobFacts
<1> HIDE DEF s
<1>6. \/ UNCHANGED fileVars /\ Report(s, "failed")
      \/ \E n \in Nat, r \in {"ok", "failed"} :
           Put(s, Filled(n, Current(s))) /\ Report(s, r)
  BY <1>3, <1>4
<1>7. /\ reported' \in [Items -> {"none", "ok", "failed"}]
      /\ reported'[s] # "none"
      /\ \A i \in Items : i # s => reported'[i] = reported[i]
  BY <1>2, <1>4 DEF Inv, SetsInv, Report
<1>8. /\ file' \in [Items -> Data] /\ made' \in [Items -> {"before", "ours", "removed"}]
      /\ \A i \in Items : i # s => UNCHANGED <<file[i], made[i]>>
      /\ reported'[s] = "ok" => made'[s] = "ours" /\ \A u \in DOMAIN file'[s] : file'[s][u] # Zero
  <2>1. CASE UNCHANGED fileVars /\ Report(s, "failed")
    BY <1>2, <2>1 DEF Inv, SetsInv, DataInv, fileVars, Report
  <2>2. CASE \E n \in Nat, r \in {"ok", "failed"} : Put(s, Filled(n, Current(s))) /\ Report(s, r)
    <3>1. PICK n \in Nat : Put(s, Filled(n, Current(s)))
      BY <2>2
    <3>2. /\ Filled(n, Current(s)) \in Data
          /\ \A u \in DOMAIN Filled(n, Current(s)) : Filled(n, Current(s))[u] # Zero
      BY <1>3, FilledIsData
    <3>3. /\ file' \in [Items -> Data] /\ made' \in [Items -> {"before", "ours", "removed"}]
          /\ file'[s] = Filled(n, Current(s)) /\ made'[s] = "ours"
          /\ \A k \in Items : k # s => UNCHANGED <<file[k], made[k]>>
      BY <1>2, <3>1, <3>2, PutFacts DEF Inv
    <3>4. QED
      BY <3>2, <3>3
  <2>3. QED
    BY <1>6, <2>1, <2>2
<1>9. SetsInv'
  BY <1>1, <1>7, <1>8, CompleteStep DEF Inv, SetsInv
<1>10. DataInv'
  BY <1>1, <1>8 DEF Inv, DataInv
<1>11. PoolInv' /\ PhaseInv'
  BY <1>1, CompleteStep DEF Inv, PhaseInv
<1>12. ASSUME NEW k \in Jobs
       PROVE  JobInv(k)'
  <2>1. k.item \in Items /\ JobInv(k) /\ active' = active \ {j}
    BY <1>1, CompleteStep, JobFacts DEF Inv
  <2>2. CASE k = j
    <3>1. reported'[k.item] # "none" /\ Ran(k)' /\ k \notin active'
      BY <1>1, <1>7, <2>2, CompleteStep DEF s
    <3>2. QED
      BY <1>1, <2>2, <3>1 DEF JobInv
  <2>3. CASE k # j
    <3>1. Ran(k)' <=> Ran(k)
      BY <1>1, <2>3, CompleteStep
    <3>2. k.range = 0 => reported'[k.item] = reported[k.item]
      BY <1>5, <1>7, <2>1, <2>3
    <3>3. k.range # 0 => \A u : Covered(k.item, u)' <=> Covered(k.item, u)
      <4>1. k.range # 0 => k.item # s
        BY <1>2, JobFacts
      <4>2. QED
        BY <1>1, <1>8, <2>1, <4>1 DEF Covered
    <3>4. k \in active' \ sending' => k \in active \ sending
      BY <1>1, <2>1, <2>3
    <3>5. QED
      BY <1>1, <2>1, <3>1, <3>2, <3>3, <3>4 DEF JobInv
  <2>4. QED
    BY <2>2, <2>3
<1>13. ASSUME NEW i \in Large
       PROVE  LargeInv(i)'
  <2>1. i # s /\ i \in Items
    BY <1>2, ItemFacts
  <2>2. QED
    BY <1>1, <1>7, <1>8, <2>1 DEF Inv, LargeInv
<1>14. ASSUME NEW i \in Small
       PROVE  SmallInv(i)'
  <2>1. i \in Items
    BY ItemFacts
  <2>2. QED
    BY <1>7, <1>8, <2>1 DEF Inv, SmallInv
<1>15. QED
  BY <1>9, <1>10, <1>11, <1>12, <1>13, <1>14 DEF Inv

(* What fetching a range does to its file: its length stays, no unit that  *)
(* was written becomes zero, and the range's own units are written or lie  *)
(* behind the end of the object.                                           *)
LEMMA FetchFacts ==
  ASSUME Inv, NEW j \in Jobs, Fetched(j)
  PROVE  /\ file' \in [Items -> Data] /\ made' \in [Items -> {"before", "ours", "removed"}]
         /\ \A i \in Items : i # j.item => UNCHANGED <<file[i], made[i]>>
         /\ made'[j.item] = "ours"
         /\ DOMAIN file'[j.item] = DOMAIN file[j.item]
         /\ \A u \in DOMAIN file[j.item] :
              file'[j.item][u] = file[j.item][u] \/ file'[j.item][u] # Zero
         /\ \A u \in Units(j) \cap DOMAIN file[j.item] :
              file'[j.item][u] # Zero \/ SizeNow(j.item) < u
<1>1. j.item \in Items
  BY JobFacts
<1>2. /\ Current(j.item) \in 1 .. MaxVersions
      /\ SizeNow(j.item) \in Nat /\ file[j.item] \in Data
  BY <1>1, VersionFacts DEF Inv, DataInv
<1>3. PICK n \in Nat : file[j.item] \in [1 .. n -> 0 .. MaxVersions]
  <2>1. file[j.item] \in UNION {[1 .. n -> 0 .. MaxVersions] : n \in Nat}
    BY <1>2, SeqDef, Zenon DEF Data
  <2>2. QED
    BY <2>1, Zenon
<1>4. /\ Written(j) \in [1 .. n -> 0 .. MaxVersions]
      /\ DOMAIN Written(j) = DOMAIN file[j.item]
      /\ \A u \in DOMAIN file[j.item] :
           Written(j)[u] = IF u \in Got(j) THEN Current(j.item) ELSE file[j.item][u]
  BY <1>2, <1>3 DEF Written
<1>5. Written(j) \in Data
  BY <1>4, SeqDef DEF Data
<1>6. /\ file' \in [Items -> Data] /\ made' \in [Items -> {"before", "ours", "removed"}]
      /\ file'[j.item] = Written(j) /\ made'[j.item] = "ours"
      /\ \A k \in Items : k # j.item => UNCHANGED <<file[k], made[k]>>
  BY <1>1, <1>5, PutFacts DEF Inv, Fetched
<1>7. Current(j.item) # Zero
  BY <1>2 DEF Zero
<1>8. \A u \in Units(j) \ Got(j) : SizeNow(j.item) < u
  <2>1. \A u \in Units(j) : u \in Int
    BY DEF Units
  <2>2. QED
    BY <1>2, <2>1 DEF Got
<1>9. \A u \in DOMAIN file[j.item] :
        file'[j.item][u] = file[j.item][u] \/ file'[j.item][u] # Zero
  BY <1>4, <1>6, <1>7
<1>10. \A u \in Units(j) \cap DOMAIN file[j.item] :
         file'[j.item][u] # Zero \/ SizeNow(j.item) < u
  BY <1>4, <1>6, <1>7, <1>8
<1>11. QED
  BY <1>4, <1>6, <1>9, <1>10

(* The units of a range are units of its item. *)
LEMMA UnitsOfItem ==
  ASSUME NEW j \in Jobs, j.range # 0
  PROVE  Units(j) \subseteq 1 .. Sizes[j.item]
<1>1. j \in UNION {{Job(i, n) : n \in Ranges(i)} : i \in Large}
  BY JobFacts DEF Jobs, Job
<1>2. PICK i \in Large : j \in {Job(i, n) : n \in Ranges(i)}
  BY <1>1
<1>3. PICK n \in Ranges(i) : j = Job(i, n)
  BY <1>2
<1>4. j.range = n /\ n \in Nat \ {0}
  BY <1>3 DEF Ranges, Job
<1>5. n - 1 \in Nat /\ Chunk \in Nat /\ Sizes[j.item] \in Nat
  <2>1. j.item \in Items
    BY JobFacts
  <2>2. Sizes[j.item] \in Nat
    BY <2>1, ItemFacts
  <2>3. QED
    BY <1>4, <2>2, DownloadAssumption
<1>6. (n - 1) * Chunk \in Nat
  BY <1>5
<1>7. Start(j) \in Nat
  BY <1>4, <1>6 DEF Start
<1>8. QED
  BY <1>5, <1>7 DEF Units

LEMMA RangeStep == ASSUME Inv, NEW j \in Jobs, FetchRange(j) PROVE Inv'
<1> DEFINE l == j.item
<1>1. /\ j \in sending /\ j.range # 0
      /\ Pool!Complete(j) /\ phase' = phase
      /\ sending' = sending \ {j}
      /\ UNCHANGED <<opened, settled, reported, stuck, versions>>
      /\ failures' = failures \/ failures' = failures \cup {l}
      /\ Fetched(j) \/ (UNCHANGED fileVars /\ failures' = failures \cup {l})
  BY DEF FetchRange
<1>2. l \in Large /\ l \in Items
  BY <1>1, JobFacts, ItemFacts
<1>3. phase = "pool" /\ l \in opened /\ l \notin settled
  BY <1>1, <1>2, CompleteStep DEF Inv, PhaseInv
<1>4. made[l] = "ours" /\ DOMAIN file[l] = 1 .. Sizes[l]
  BY <1>2, <1>3 DEF Inv, LargeInv
<1>5. Units(j) \subseteq 1 .. Sizes[l]
  BY <1>1, UnitsOfItem
<1>6. Current(l) = Len(versions[l]) /\ Len(versions[l]) \in 1 .. MaxVersions
  BY <1>2, VersionFacts DEF Inv
<1> HIDE DEF l
<1>7. /\ file' \in [Items -> Data] /\ made' \in [Items -> {"before", "ours", "removed"}]
      /\ \A i \in Items : i # l => UNCHANGED <<file[i], made[i]>>
      /\ made'[l] = "ours" /\ DOMAIN file'[l] = 1 .. Sizes[l]
      /\ \A u \in 1 .. Sizes[l] : file'[l][u] = file[l][u] \/ file'[l][u] # Zero
  <2>1. CASE Fetched(j)
    BY <1>4, <2>1, FetchFacts DEF l
  <2>2. CASE UNCHANGED fileVars
    BY <1>4, <2>2 DEF Inv, SetsInv, DataInv, fileVars
  <2>3. QED
    BY <1>1, <2>1, <2>2
<1>8. l \in failures' \/ \A u \in Units(j) : Covered(l, u)'
  <2>1. CASE Fetched(j)
    <3>1. ASSUME NEW u \in Units(j)
          PROVE  Covered(l, u)'
      <4>1. file'[l][u] # Zero \/ SizeNow(l) < u
        BY <1>4, <1>5, <2>1, FetchFacts DEF l
      <4>2. SizeNow(l) < u => \E v \in 1 .. Len(versions[l]) : versions[l][v] < u
        BY <1>6 DEF SizeNow
      <4>3. QED
        BY <1>1, <4>1, <4>2 DEF Covered
    <3>2. QED
      BY <3>1
  <2>2. CASE failures' = failures \cup {l}
    BY <2>2
  <2>3. QED
    BY <1>1, <2>1, <2>2
<1>9. ASSUME NEW i \in Items, NEW u, i = l => u \in 1 .. Sizes[l], Covered(i, u)
      PROVE  Covered(i, u)'
  <2>1. file'[i][u] = file[i][u] \/ file'[i][u] # Zero
    BY <1>7, <1>9
  <2>2. Len(versions[i]) \in Nat /\ versions' = versions
    BY <1>1 DEF Inv, DataInv
  <2>3. QED
    BY <1>9, <2>1, <2>2, CoveredStays
<1>10. SetsInv'
  BY <1>1, <1>2, <1>7, CompleteStep DEF Inv, SetsInv
<1>11. DataInv'
  BY <1>1, <1>7 DEF Inv, DataInv
<1>12. PoolInv' /\ PhaseInv'
  BY <1>1, CompleteStep DEF Inv, PhaseInv
<1>13. ASSUME NEW k \in Jobs
       PROVE  JobInv(k)'
  <2>1. k.item \in Items /\ JobInv(k) /\ active' = active \ {j}
    BY <1>1, CompleteStep, JobFacts DEF Inv
  <2>2. CASE k = j
    <3>1. k \notin active'
      BY <2>1, <2>2
    <3>2. QED
      BY <1>1, <1>8, <2>2, <3>1 DEF JobInv, l
  <2>3. CASE k # j
    <3>1. Ran(k)' <=> Ran(k)
      BY <1>1, <2>3, CompleteStep
    <3>2. k.range # 0 /\ k.item = l => Units(k) \subseteq 1 .. Sizes[l]
      BY UnitsOfItem DEF l
    <3>3. k \in active' \ sending' => k \in active \ sending
      BY <1>1, <2>1, <2>3
    <3>4. k.range # 0 /\ Ran(k)' /\ k.item \notin failures' => \A u \in Units(k) : Covered(k.item, u)'
      BY <1>1, <1>9, <2>1, <3>1, <3>2 DEF JobInv
    <3>5. QED
      BY <1>1, <2>1, <3>1, <3>3, <3>4 DEF JobInv
  <2>4. QED
    BY <2>2, <2>3
<1>14. ASSUME NEW i \in Large
       PROVE  LargeInv(i)'
  <2>1. i \in Items /\ LargeInv(i) /\ i \notin settled
    BY <1>3, ItemFacts DEF Inv, PhaseInv
  <2>2. CASE i = l
    BY <1>1, <1>7, <2>1, <2>2 DEF LargeInv
  <2>3. CASE i # l
    BY <1>1, <1>7, <2>1, <2>3 DEF LargeInv
  <2>4. QED
    BY <2>2, <2>3
<1>15. ASSUME NEW i \in Small
       PROVE  SmallInv(i)'
  <2>1. i # l /\ i \in Items
    BY <1>2, ItemFacts
  <2>2. QED
    BY <1>1, <1>7, <2>1 DEF Inv, SmallInv
<1>16. QED
  BY <1>10, <1>11, <1>12, <1>13, <1>14, <1>15 DEF Inv

(* Another client replaces an object: its versions become more. *)
LEMMA ReplaceStep == ASSUME Inv, NEW r \in Items, Replace(r) PROVE Inv'
<1>1. PICK size \in NewSizes : versions' = [versions EXCEPT ![r] = Append(versions[r], size)]
  BY DEF Replace
<1>2. /\ Current(r) < MaxVersions
      /\ UNCHANGED <<poolVars, clientVars, phase, sending, fileVars>>
  BY DEF Replace
<1>3. size \in Nat
  BY DownloadAssumption
<1>4. /\ versions[r] \in Seq(Nat) /\ Len(versions[r]) \in 1 .. MaxVersions
      /\ Len(versions[r]) < MaxVersions
  BY <1>2 DEF Inv, DataInv, Current
<1>5. /\ Append(versions[r], size) \in Seq(Nat)
      /\ Len(Append(versions[r], size)) = Len(versions[r]) + 1
      /\ \A v \in 1 .. Len(versions[r]) : Append(versions[r], size)[v] = versions[r][v]
  BY <1>3, <1>4
<1>6. /\ versions' \in [Items -> Seq(Nat)]
      /\ \A i \in Items :
           /\ Len(versions'[i]) \in 1 .. MaxVersions
           /\ Len(versions[i]) <= Len(versions'[i])
           /\ \A v \in 1 .. Len(versions[i]) : versions'[i][v] = versions[i][v]
  <2>1. versions \in [Items -> Seq(Nat)] /\ \A i \in Items : Len(versions[i]) \in 1 .. MaxVersions
    BY DEF Inv, DataInv
  <2>2. versions' \in [Items -> Seq(Nat)] /\ versions'[r] = Append(versions[r], size)
    BY <1>1, <1>5, <2>1
  <2>3. ASSUME NEW i \in Items
        PROVE  /\ Len(versions'[i]) \in 1 .. MaxVersions
               /\ Len(versions[i]) <= Len(versions'[i])
               /\ \A v \in 1 .. Len(versions[i]) : versions'[i][v] = versions[i][v]
    <3>1. CASE i = r
      <4>1. Len(versions[r]) + 1 \in 1 .. MaxVersions /\ Len(versions[r]) <= Len(versions[r]) + 1
        BY <1>4, DownloadAssumption
      <4>2. QED
        BY <1>5, <2>2, <3>1, <4>1
    <3>2. CASE i # r
      <4>1. versions'[i] = versions[i] /\ Len(versions[i]) \in 1 .. MaxVersions
        BY <1>1, <2>1, <3>2
      <4>2. QED
        BY <4>1
    <3>3. QED
      BY <3>1, <3>2
  <2>4. QED
    BY <2>2, <2>3
<1>7. ASSUME NEW i \in Items, NEW u, Covered(i, u)
      PROVE  Covered(i, u)'
  <2>1. Len(versions[i]) \in Nat /\ Len(versions'[i]) \in Nat
    BY <1>6 DEF Inv, DataInv
  <2>2. file' = file
    BY <1>2 DEF fileVars
  <2>3. QED
    BY <1>6, <1>7, <2>1, <2>2, CoveredStays
<1>8. SetsInv'
  BY <1>2 DEF Inv, SetsInv, poolVars, clientVars, fileVars
<1>9. DataInv'
  BY <1>2, <1>6 DEF Inv, DataInv, fileVars
<1>10. PoolInv' /\ PhaseInv'
  BY <1>2 DEF Inv, PoolInv, PhaseInv, Fresh, poolVars, clientVars
<1>11. ASSUME NEW j \in Jobs
       PROVE  JobInv(j)'
  <2>1. j.item \in Items /\ JobInv(j) /\ (Ran(j)' <=> Ran(j))
    BY <1>2, JobFacts DEF Inv, Ran, poolVars
  <2>2. QED
    BY <1>2, <1>7, <2>1 DEF JobInv, poolVars, clientVars
<1>12. ASSUME NEW i \in Large
       PROVE  LargeInv(i)'
  BY <1>2 DEF Inv, LargeInv, clientVars, fileVars
<1>13. ASSUME NEW i \in Small
       PROVE  SmallInv(i)'
  BY <1>2 DEF Inv, SmallInv, clientVars, fileVars
<1>14. QED
  BY <1>8, <1>9, <1>10, <1>11, <1>12, <1>13 DEF Inv

-----------------------------------------------------------------------------
LEMMA NextInv == Inv /\ [Next]_vars => Inv'
<1> SUFFICES ASSUME Inv, [Next]_vars
             PROVE  Inv'
  OBVIOUS
<1>1. CASE OpenFile \/ OpenFails \/ StartPool \/ EndPool \/ Finish
  BY <1>1, OpenStep, OpenFailsStep, StartStep, EndStep, FinishStep
<1>2. CASE Keep \/ Remove
  BY <1>2, SettleStep
<1>3. ASSUME NEW j \in Jobs, TakeJob(j) \/ SkipRange(j) \/ GetWhole(j) \/ FetchRange(j)
      PROVE  Inv'
  BY <1>3, TakeStep, SkipStep, WholeStep, RangeStep
<1>4. ASSUME NEW i \in Items, Replace(i)
      PROVE  Inv'
  BY <1>4, ReplaceStep
<1>5. CASE UNCHANGED vars
  <2>1. /\ UNCHANGED <<call, running, todo, active, finished, phase, sending>>
        /\ UNCHANGED <<opened, failures, settled, reported, stuck, made, file, versions>>
    BY <1>5 DEF vars, poolVars, clientVars, fileVars
  <2>2. SetsInv' /\ DataInv' /\ PoolInv' /\ PhaseInv'
    BY <2>1 DEF Inv, SetsInv, DataInv, PoolInv, PhaseInv, Fresh
  <2>3. \A j \in Jobs : JobInv(j)'
    BY <2>1 DEF Inv, JobInv, Ran, Covered
  <2>4. (\A i \in Large : LargeInv(i)') /\ (\A i \in Small : SmallInv(i)')
    BY <2>1 DEF Inv, LargeInv, SmallInv
  <2>5. QED
    BY <2>2, <2>3, <2>4 DEF Inv
<1>6. QED
  BY <1>1, <1>2, <1>3, <1>4, <1>5 DEF Next, Command

LEMMA InvHolds == Spec => []Inv
BY InitInv, NextInv, PTL DEF Spec

(* Every variable of `download` keeps its type. *)
THEOREM TypeCorrect == Spec => []TypeOK
BY InvHolds, InvImpliesType, PTL

(* A file reported as downloaded is there and has no hole, unless the      *)
(* object was replaced by one that ends before it: the ranges cover the    *)
(* listed size, and a range that was not written fails its item.           *)
THEOREM FilesHaveNoHoles == Spec => []NoHoleUnlessShrunk
<1>1. Inv => NoHoleUnlessShrunk
  <2> SUFFICES ASSUME Inv, NEW i \in Items, reported[i] = "ok"
               PROVE  /\ made[i] = "ours"
                      /\ \A u \in DOMAIN file[i] :
                           file[i][u] = Zero => \E v \in 1 .. Current(i) : versions[i][v] < u
    BY DEF NoHoleUnlessShrunk
  <2>1. CASE i \in Small
    BY <2>1 DEF Inv, SmallInv
  <2>2. CASE i \in Large
    <3>1. i \in settled /\ i \notin failures
      BY <2>2 DEF Inv, LargeInv
    <3>2. phase \in {"settle", "done"} /\ i \in opened
      BY <2>2, <3>1 DEF Inv, PhaseInv, SetsInv
    <3>3. made[i] = "ours" /\ DOMAIN file[i] = 1 .. Sizes[i]
      BY <2>2, <3>1, <3>2 DEF Inv, LargeInv
    <3>4. ASSUME NEW u \in 1 .. Sizes[i]
          PROVE  Covered(i, u)
      <4>1. PICK j \in Jobs : j.item = i /\ j.range # 0 /\ u \in Units(j)
        BY <2>2, RangesCover
      <4>2. JobInv(j) /\ Ran(j)
        BY <3>2 DEF Inv, Ran
      <4>3. QED
        BY <3>1, <4>1, <4>2 DEF JobInv
    <3>5. QED
      BY <3>3, <3>4 DEF Covered, Current
  <2>3. QED
    BY <2>1, <2>2, ItemFacts
<1>2. QED
  BY <1>1, InvHolds, PTL

(* A large item that failed leaves no file behind, unless the system       *)
(* refused to remove it: no range still under way brings it back.          *)
THEOREM FailedFilesAreRemoved == Spec => []FailedLeavesNothing
<1>1. Inv => FailedLeavesNothing
  BY DEF Inv, PhaseInv, LargeInv, FailedLeavesNothing
<1>2. QED
  BY <1>1, InvHolds, PTL

(* The report of an item comes after the last of its writes. *)
THEOREM ReportComesLast == Spec => []NoWriteAfterReport
<1>1. Inv => NoWriteAfterReport
  <2> SUFFICES ASSUME Inv, NEW j \in Jobs, reported[j.item] # "none"
               PROVE  j \notin todo \cup active
    BY DEF NoWriteAfterReport
  <2>1. Ran(j)
    <3>1. CASE j.range = 0
      BY <3>1 DEF Inv, JobInv
    <3>2. CASE j.range # 0
      <4>1. j.item \in settled
        BY <3>2, JobFacts DEF Inv, LargeInv
      <4>2. QED
        BY <4>1 DEF Inv, PhaseInv, Ran
    <3>3. QED
      BY <3>1, <3>2
  <2>2. QED
    BY <2>1 DEF Ran, Inv, PoolInv, Fresh
<1>2. QED
  BY <1>1, InvHolds, PTL
===============================================================================
