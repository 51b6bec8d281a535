------------------------ MODULE MultipartUploadProofs ------------------------
(***************************************************************************)
(* Theorems about the upload, for every list of files and every number of  *)
(* parts, and the instance on which TLC checks it: one small object, one   *)
(* object of two parts and one of three.                                   *)
(***************************************************************************)
EXTENDS MultipartUpload, WellFoundedInduction, TLAPS

MCPartsOf == <<2, 0, 3>>

-----------------------------------------------------------------------------
(* Items and jobs. *)

LEMMA ItemFacts ==
  /\ Items \subseteq Nat
  /\ Large \subseteq Items /\ Small \subseteq Items
  /\ Large \cap Small = {} /\ Items = Large \cup Small
  /\ \A i \in Items : PartsOf[i] \in Nat
  /\ \A i \in Large : 0 \notin 1 .. PartsOf[i] /\ Whole(i) = 1 .. PartsOf[i]
  /\ \A i \in Small : Whole(i) = {0}
  /\ \A i \in Items : Whole(i) \subseteq Nat
<1>1. PartsOf \in Seq(Nat)
  BY UploadAssumption
<1>2. Items = 1 .. Len(PartsOf) /\ Len(PartsOf) \in Nat
  BY <1>1 DEF Items
<1>3. \A i \in Items : PartsOf[i] \in Nat
  BY <1>1, <1>2
<1>4. QED
  BY <1>2, <1>3 DEF Large, Small, Whole

LEMMA JobFacts ==
  ASSUME NEW j \in Jobs
  PROVE  /\ j = Job(j.item, j.part)
         /\ j.part = 0 <=> j.item \in Small
         /\ j.part # 0 <=> j.item \in Large
         /\ j.part \in Whole(j.item)
         /\ j.item \in Items
<1>1. CASE j \in {Job(i, 0) : i \in Small}
  BY <1>1, ItemFacts DEF Job
<1>2. CASE j \in UNION {{Job(i, p) : p \in 1 .. PartsOf[i]} : i \in Large}
  <2>1. PICK i \in Large : j \in {Job(i, p) : p \in 1 .. PartsOf[i]}
    BY <1>2
  <2>2. PICK p \in 1 .. PartsOf[i] : j = Job(i, p)
    BY <2>1
  <2>3. j.item = i /\ j.part = p
    BY <2>2 DEF Job
  <2>4. QED
    BY <2>2, <2>3, ItemFacts
<1>3. QED
  BY <1>1, <1>2 DEF Jobs

LEMMA PartsAreJobs ==
  ASSUME NEW i \in Large, NEW p \in 1 .. PartsOf[i]
  PROVE  Job(i, p) \in Jobs /\ Job(i, p).item = i /\ Job(i, p).part = p
BY DEF Jobs, Job

LEMMA SmallOnesAreJobs ==
  ASSUME NEW i \in Small
  PROVE  Job(i, 0) \in Jobs
BY DEF Jobs

(* The loops before and after the pool take the first item that is left.   *)
LEMMA SmallestIsThere ==
  ASSUME NEW S, S \subseteq Nat, S # {}
  PROVE  Smallest(S) \in S
<1> DEFINE Less == OpToRel(<, Nat)
<1>1. IsWellFoundedOn(Less, Nat)
  BY NatLessThanWellFounded, Zenon
<1>2. Less = {ss \in Nat \X Nat : ss[1] < ss[2]}
  BY Zenon DEF OpToRel
<1> HIDE DEF Less
<1>3. PICK x \in S : \A y \in S : ~ (<<y, x>> \in Less)
  BY <1>1, WFMin
<1>4. ASSUME NEW y \in S
      PROVE  x <= y
  <2>1. x \in Nat /\ y \in Nat
    OBVIOUS
  <2>2. <<y, x>> \notin Less /\ <<y, x>> \in Nat \X Nat
    BY <1>3, <2>1
  <2>3. ~ (y < x)
    BY <1>2, <2>2
  <2>4. QED
    BY <2>1, <2>3
<1>5. QED
  BY <1>4 DEF Smallest

LEMMA CurrentIsOpen ==
  ASSUME settled \subseteq Large, settled # Large
  PROVE  Current \in Large /\ Current \notin settled
<1>1. Large \ settled \subseteq Nat /\ Large \ settled # {}
  BY ItemFacts
<1>2. Smallest(Large \ settled) \in Large \ settled
  BY <1>1, SmallestIsThere
<1>3. QED
  BY <1>2 DEF Current

-----------------------------------------------------------------------------
(* The inductive invariant.  What the runs check says nothing of the jobs  *)
(* under way, nor of what a job that ended has left behind.                *)

Fresh == todo = {} /\ active = {} /\ finished = {}

(* The pool: it runs in one phase, and then each job is to do, under way,  *)
(* or finished, and only one of them.                                      *)
PoolInv ==
  /\ phase \in {"begin", "error"} => call = 1 /\ ~running /\ Fresh
  /\ phase = "pool" =>
       /\ call = 1 /\ running
       /\ todo \cup active \cup finished = Jobs
       /\ todo \cap active = {} /\ (todo \cup active) \cap finished = {}
  /\ phase \in {"settle", "done"} => call = 2 /\ ~running /\ Fresh

Ran(j) == phase \in {"settle", "done"} \/ (phase = "pool" /\ j \in finished)

(* A job that ran: a small object was reported; a part has its ETag, or    *)
(* its item has failed.  A job that is skipped is a part whose item had.   *)
JobInv(j) ==
  /\ j \in active \ sending => j.part # 0 /\ j.item \in failures
  /\ j.part = 0 => (reported[j.item] = "none" <=> ~Ran(j))
  /\ j.part # 0 /\ Ran(j) /\ j.item \notin failures => j \in etags

(* An item: a large one is reported when it is settled, and its upload is  *)
(* open until then; nothing is at the destination before the report.       *)
ItemInv(i) ==
  /\ i \in Large => (reported[i] = "none" <=> i \notin settled)
  /\ upload[i] \in {"aborted", "completed"} => i \in settled
  /\ reported[i] = "none" => object[i] = {}
  /\ object[i] \in {{}, Whole(i)}
  /\ i \in failures => object[i] = {}

Inv ==
  /\ TypeOK
  /\ PoolInv
  /\ phase \notin {"settle", "done"} => settled = {}
  /\ \A j \in Jobs : JobInv(j)
  /\ \A i \in Items : ItemInv(i)

LEMMA InitInv == Init => Inv
<1> SUFFICES ASSUME Init
             PROVE  Inv
  OBVIOUS
<1> USE DEF Init, Pool!AbsInit
<1>1. TypeOK
  <2>1. call \in 1 .. 2
    OBVIOUS
  <2>2. running \in BOOLEAN
    OBVIOUS
  <2>3. todo \subseteq Jobs /\ active \subseteq Jobs /\ finished \subseteq Jobs
    OBVIOUS
  <2>4. /\ phase \in {"begin", "pool", "settle", "done", "error"}
        /\ begun \subseteq Large /\ sending \subseteq active /\ failures \subseteq Large
        /\ etags \subseteq Jobs /\ settled \subseteq Large
    OBVIOUS
  <2>5. /\ reported \in [Items -> {"none", "ok", "failed"}]
        /\ upload \in [Items -> {"none", "open", "aborted", "completed"}]
    OBVIOUS
  <2>6. stored \in [Items -> SUBSET Nat] /\ object \in [Items -> SUBSET Nat] /\ hollow \subseteq Items
    OBVIOUS
  <2> HIDE DEF Init, Pool!AbsInit
  <2>7. QED
    BY <2>1, <2>2, <2>3, <2>4, <2>5, <2>6 DEF TypeOK
<1>2. PoolInv
  BY DEF PoolInv, Fresh
<1>3. \A j \in Jobs : JobInv(j)
  BY JobFacts DEF JobInv, Ran
<1>4. \A i \in Items : ItemInv(i)
  BY ItemFacts DEF ItemInv
<1>5. QED
  BY <1>1, <1>2, <1>3, <1>4 DEF Inv

-----------------------------------------------------------------------------
(* The steps outside the pool's jobs. *)

(* A step that leaves jobs and items as they are. *)
LEMMA BeginStep == Inv /\ BeginUpload => Inv'
<1> SUFFICES ASSUME Inv, BeginUpload
             PROVE  Inv'
  OBVIOUS
<1> DEFINE i == Smallest(Large \ begun)
<1>1. i \in Large /\ i \in Items
  <2>1. begun # Large /\ begun \subseteq Large
    BY DEF BeginUpload, Inv, TypeOK
  <2>2. Large \ begun \subseteq Nat /\ Large \ begun # {}
    BY <2>1, ItemFacts
  <2>3. i \in Large \ begun
    BY <2>2, SmallestIsThere
  <2>4. QED
    BY <2>3, ItemFacts
<1>2. /\ phase = "begin" /\ phase' \in {"begin", "error"}
      /\ begun' \subseteq Large
      /\ upload' \in {upload, [upload EXCEPT ![i] = "open"]}
      /\ UNCHANGED <<poolVars, sending, failures, etags, settled, reported, stored, object, hollow>>
  BY <1>1 DEF BeginUpload, Inv, TypeOK
<1> HIDE DEF i
<1>3. TypeOK'
  BY <1>1, <1>2 DEF Inv, TypeOK, poolVars
<1>4. PoolInv' /\ (phase \notin {"settle", "done"} => settled = {})'
  BY <1>2 DEF Inv, PoolInv, Fresh, poolVars
<1>5. ASSUME NEW j \in Jobs
      PROVE  JobInv(j)'
  BY <1>2, <1>5 DEF Inv, JobInv, Ran, poolVars
<1>6. ASSUME NEW k \in Items
      PROVE  ItemInv(k)'
  <2>1. upload'[k] \in {upload[k], "open"}
    BY <1>2 DEF Inv, TypeOK
  <2>2. QED
    BY <1>2, <2>1 DEF Inv, ItemInv
<1>7. QED
  BY <1>3, <1>4, <1>5, <1>6 DEF Inv

LEMMA StartStep == Inv /\ StartPool => Inv'
<1> SUFFICES ASSUME Inv, StartPool
             PROVE  Inv'
  OBVIOUS
<1>1. /\ phase = "begin" /\ phase' = "pool"
      /\ running' = TRUE /\ call' = call
      /\ UNCHANGED <<active, finished, begun, sending, failures, etags, settled, reported, s3Vars>>
  BY DEF StartPool, Pool!StartCall
<1>2. call = 1 /\ Fresh
  BY <1>1 DEF Inv, PoolInv
<1>3. todo' = Jobs
  BY <1>2 DEF StartPool, Pool!StartCall
<1>4. TypeOK'
  BY <1>1, <1>3 DEF Inv, TypeOK, s3Vars
<1>5. PoolInv' /\ (phase \notin {"settle", "done"} => settled = {})'
  BY <1>1, <1>2, <1>3 DEF Inv, PoolInv, Fresh
<1>6. ASSUME NEW j \in Jobs
      PROVE  JobInv(j)'
  BY <1>1, <1>2 DEF Inv, JobInv, Ran, Fresh
<1>7. ASSUME NEW i \in Items
      PROVE  ItemInv(i)'
  BY <1>1 DEF Inv, ItemInv, s3Vars
<1>8. QED
  BY <1>4, <1>5, <1>6, <1>7 DEF Inv

(* The pool has returned: every job ran. *)
LEMMA EndStep == Inv /\ EndPool => Inv'
<1> SUFFICES ASSUME Inv, EndPool
             PROVE  Inv'
  OBVIOUS
<1>1. /\ phase = "pool" /\ phase' = "settle"
      /\ running' = FALSE /\ call' = call + 1 /\ finished' = {}
      /\ todo = {} /\ active = {}
      /\ UNCHANGED <<todo, active, begun, sending, failures, etags, settled, reported, s3Vars>>
  BY DEF EndPool, Pool!ReturnCall
<1>2. call = 1 /\ finished = Jobs
  BY <1>1 DEF Inv, PoolInv
<1>3. TypeOK'
  <2>1. call' \in 1 .. 2
    BY <1>1, <1>2
  <2>2. todo' \subseteq Jobs /\ active' \subseteq Jobs /\ finished' \subseteq Jobs
    BY <1>1
  <2>3. QED
    BY <1>1, <2>1, <2>2 DEF Inv, TypeOK, s3Vars
<1>4. PoolInv' /\ (phase \notin {"settle", "done"} => settled = {})'
  BY <1>1, <1>2 DEF PoolInv, Fresh
<1>5. ASSUME NEW j \in Jobs
      PROVE  JobInv(j)'
  BY <1>1, <1>2 DEF Inv, JobInv, Ran
<1>6. ASSUME NEW i \in Items
      PROVE  ItemInv(i)'
  BY <1>1 DEF Inv, ItemInv, s3Vars
<1>7. QED
  BY <1>3, <1>4, <1>5, <1>6 DEF Inv

LEMMA FinishStep == Inv /\ Finish => Inv'
<1> SUFFICES ASSUME Inv, Finish
             PROVE  Inv'
  OBVIOUS
<1>1. /\ phase = "settle" /\ phase' = "done"
      /\ UNCHANGED <<poolVars, begun, sending, failures, etags, settled, reported, s3Vars>>
  BY DEF Finish
<1>2. TypeOK'
  BY <1>1 DEF Inv, TypeOK, poolVars, s3Vars
<1>3. PoolInv'
  BY <1>1 DEF Inv, PoolInv, Fresh, poolVars
<1>4. ASSUME NEW j \in Jobs
      PROVE  JobInv(j)'
  BY <1>1 DEF Inv, JobInv, Ran, poolVars
<1>5. ASSUME NEW i \in Items
      PROVE  ItemInv(i)'
  BY <1>1 DEF Inv, ItemInv, s3Vars
<1>6. QED
  BY <1>1, <1>2, <1>3, <1>4, <1>5 DEF Inv

(* Once every job ran, each part of an item that has not failed has its    *)
(* ETag: the list CompleteMultipartUpload is sent has no gap.              *)
LEMMA AllCollected ==
  ASSUME Inv, phase = "settle", NEW i \in Large, i \notin failures
  PROVE  Collected(i) = Whole(i)
<1>1. ASSUME NEW p \in 1 .. PartsOf[i]
      PROVE  Job(i, p) \in etags
  <2>1. Job(i, p) \in Jobs /\ Job(i, p).item = i /\ Job(i, p).part = p
    BY PartsAreJobs
  <2>2. p # 0 /\ Ran(Job(i, p))
    BY ItemFacts DEF Ran
  <2>3. QED
    BY <2>1, <2>2 DEF Inv, JobInv
<1>2. QED
  BY <1>1, ItemFacts DEF Collected

(* Aborting and completing: the item in hand is settled and reported, and  *)
(* its object, if there is one, has all its parts.                         *)
LEMMA SettleStep == Inv /\ (AbortUpload \/ CompleteUpload) => Inv'
<1> SUFFICES ASSUME Inv, AbortUpload \/ CompleteUpload
             PROVE  Inv'
  OBVIOUS
<1>1. /\ phase = "settle" /\ settled # Large
      /\ settled' = settled \cup {Current}
      /\ UNCHANGED <<poolVars, phase, begun, sending, failures, etags>>
  BY DEF AbortUpload, CompleteUpload
<1>2. Current \in Large /\ Current \notin settled /\ Current \in Items /\ Current \notin Small
  BY <1>1, CurrentIsOpen, ItemFacts DEF Inv, TypeOK
<1> DEFINE c == Current
<1>3. c \notin failures => Collected(c) = Whole(c)
  BY <1>1, <1>2, AllCollected
<1>4. \E r \in {"ok", "failed"} : reported' = [reported EXCEPT ![c] = r]
  BY DEF AbortUpload, CompleteUpload, Report
<1>5. \/ object' = object
      \/ c \notin failures /\ object' = [object EXCEPT ![c] = Whole(c)]
  BY <1>3 DEF AbortUpload, CompleteUpload, s3Vars
<1>6. \/ upload' = upload
      \/ \E u \in {"aborted", "completed"} : upload' = [upload EXCEPT ![c] = u]
  BY DEF AbortUpload, CompleteUpload, s3Vars
<1>7. /\ stored' = stored \/ stored' = [stored EXCEPT ![c] = {}]
      /\ hollow' = hollow \/ hollow' = hollow \cup {c}
  BY DEF AbortUpload, CompleteUpload, s3Vars
<1>8. c \in Large /\ c \notin settled /\ c \in Items /\ settled' = settled \cup {c}
  BY <1>1, <1>2
<1> HIDE DEF c
<1>9. TypeOK'
  <2>1. reported' \in [Items -> {"none", "ok", "failed"}]
    BY <1>4, <1>8 DEF Inv, TypeOK
  <2>2. object' \in [Items -> SUBSET Nat]
    BY <1>5, <1>8, ItemFacts DEF Inv, TypeOK
  <2>3. upload' \in [Items -> {"none", "open", "aborted", "completed"}]
    BY <1>6, <1>8 DEF Inv, TypeOK
  <2>4. stored' \in [Items -> SUBSET Nat] /\ hollow' \subseteq Items
    BY <1>7, <1>8 DEF Inv, TypeOK
  <2>5. QED
    BY <1>1, <1>8, <2>1, <2>2, <2>3, <2>4 DEF Inv, TypeOK, poolVars
<1>10. PoolInv' /\ (phase \notin {"settle", "done"} => settled = {})'
  BY <1>1 DEF Inv, PoolInv, Fresh, poolVars
<1>11. ASSUME NEW j \in Jobs
       PROVE  JobInv(j)'
  <2>1. j.part = 0 => j.item # c
    BY <1>8, JobFacts, ItemFacts
  <2>2. j.part = 0 => reported'[j.item] = reported[j.item]
    BY <1>4, <2>1, JobFacts DEF Inv, TypeOK
  <2>3. QED
    BY <1>1, <2>2 DEF Inv, JobInv, Ran, poolVars
<1>12. ASSUME NEW i \in Items
       PROVE  ItemInv(i)'
  <2>1. CASE i = c
    <3>1. reported'[i] # "none" /\ i \in settled'
      BY <1>4, <1>8, <2>1 DEF Inv, TypeOK
    <3>2. object'[i] = object[i] \/ (i \notin failures /\ object'[i] = Whole(i))
      BY <1>5, <1>8, <2>1 DEF Inv, TypeOK
    <3>3. QED
      BY <1>1, <3>1, <3>2 DEF Inv, ItemInv
  <2>2. CASE i # c
    <3>1. UNCHANGED <<reported[i], object[i], upload[i]>> /\ (i \in settled' <=> i \in settled)
      BY <1>4, <1>5, <1>6, <1>8, <2>2 DEF Inv, TypeOK
    <3>2. QED
      BY <1>1, <3>1 DEF Inv, ItemInv
  <2>3. QED
    BY <2>1, <2>2
<1>13. QED
  BY <1>9, <1>10, <1>11, <1>12 DEF Inv

-----------------------------------------------------------------------------
(* The jobs. *)

LEMMA TakeStep == ASSUME Inv, NEW j \in Jobs, TakeJob(j) PROVE Inv'
<1>1. /\ phase = "pool" /\ j \in todo
      /\ todo' = todo \ {j} /\ active' = active \cup {j}
      /\ sending' = IF j.part # 0 /\ j.item \in failures THEN sending ELSE sending \cup {j}
      /\ UNCHANGED <<call, running, finished, phase, begun, failures, etags, settled, reported, s3Vars>>
  BY DEF TakeJob, Pool!Take
<1>2. TypeOK'
  BY <1>1 DEF Inv, TypeOK, s3Vars
<1>3. PoolInv' /\ (phase \notin {"settle", "done"} => settled = {})'
  BY <1>1 DEF Inv, PoolInv
<1>4. ASSUME NEW k \in Jobs
      PROVE  JobInv(k)'
  <2>1. j \notin sending /\ j \notin active
    BY <1>1 DEF Inv, TypeOK, PoolInv
  <2>2. j.part = 0 => j \in sending'
    BY <1>1
  <2>3. k \in active' \ sending' => k.part # 0 /\ k.item \in failures
    BY <1>1, <2>2 DEF Inv, JobInv
  <2>4. Ran(k)' <=> Ran(k)
    BY <1>1 DEF Ran
  <2>5. QED
    BY <1>1, <2>3, <2>4 DEF Inv, JobInv
<1>5. ASSUME NEW i \in Items
      PROVE  ItemInv(i)'
  BY <1>1 DEF Inv, ItemInv, s3Vars
<1>6. QED
  BY <1>2, <1>3, <1>4, <1>5 DEF Inv

(* Only the pool has jobs under way. *)
LEMMA UnderWay == ASSUME Inv, NEW j \in active PROVE phase = "pool"
BY DEF Inv, TypeOK, PoolInv, Fresh

(* What each way to complete a job does to the pool. *)
LEMMA CompleteStep ==
  ASSUME Inv, NEW j \in Jobs, Pool!Complete(j), phase' = phase
  PROVE  /\ phase = "pool" /\ PoolInv' /\ Ran(j)'
         /\ call' \in 1 .. 2 /\ running' \in BOOLEAN
         /\ todo' \subseteq Jobs /\ active' \subseteq Jobs /\ finished' \subseteq Jobs
         /\ ~Ran(j)
         /\ \A k \in Jobs : k # j => (Ran(k)' <=> Ran(k))
<1>1. /\ j \in active /\ j \notin finished
      /\ active' = active \ {j} /\ finished' = finished \cup {j}
      /\ UNCHANGED <<call, running, todo>>
  BY DEF Pool!Complete
<1>2. phase = "pool"
  BY <1>1, UnderWay
<1>3. PoolInv'
  BY <1>1, <1>2 DEF Inv, TypeOK, PoolInv
<1>4. QED
  BY <1>1, <1>2, <1>3 DEF Inv, TypeOK, Ran

LEMMA SkipStep == ASSUME Inv, NEW j \in Jobs, SkipPart(j) PROVE Inv'
<1>1. /\ j \in active /\ j \notin sending
      /\ active' = active \ {j}
      /\ UNCHANGED <<clientVars, s3Vars>>
  BY DEF SkipPart, Pool!Complete
<1>2. Pool!Complete(j) /\ phase' = phase
  BY DEF SkipPart, clientVars
<1>3. j.part # 0 /\ j.item \in failures
  BY <1>1 DEF Inv, JobInv
<1>4. TypeOK'
  BY <1>1, <1>2, CompleteStep DEF Inv, TypeOK, clientVars, s3Vars
<1>5. ASSUME NEW k \in Jobs
      PROVE  JobInv(k)'
  BY <1>1, <1>2, <1>3, CompleteStep DEF Inv, JobInv, clientVars
<1>6. ASSUME NEW i \in Items
      PROVE  ItemInv(i)'
  BY <1>1 DEF Inv, ItemInv, clientVars, s3Vars
<1>7. (phase \notin {"settle", "done"} => settled = {})'
  BY <1>1 DEF Inv, clientVars
<1>8. QED
  BY <1>2, <1>4, <1>5, <1>6, <1>7, CompleteStep DEF Inv

LEMMA PutStep == ASSUME Inv, NEW j \in Jobs, PutObject(j) PROVE Inv'
<1>1. /\ j \in sending /\ j.part = 0
      /\ sending' = sending \ {j} /\ active' = active \ {j}
      /\ UNCHANGED <<phase, begun, failures, etags, settled, upload, stored>>
  BY DEF PutObject, Pool!Complete
<1>2. Pool!Complete(j)
  BY DEF PutObject
<1> DEFINE s == j.item
<1>3. s \in Small /\ s \in Items /\ s \notin Large /\ s \notin failures /\ Whole(s) = {0}
  BY <1>1, JobFacts, ItemFacts DEF Inv, TypeOK
<1>4. /\ \E r \in {"ok", "failed"} : reported' = [reported EXCEPT ![s] = r]
      /\ object' = object \/ object' = [object EXCEPT ![s] = Whole(s)]
      /\ hollow' = hollow \/ hollow' = hollow \cup {s}
  BY <1>3 DEF PutObject, Report
<1>5. \A k \in Jobs : k.part = 0 /\ k.item = s => k = j
  BY <1>1, JobFacts
<1> HIDE DEF s
<1>6. TypeOK'
  <2>1. reported' \in [Items -> {"none", "ok", "failed"}]
    BY <1>3, <1>4 DEF Inv, TypeOK
  <2>2. object' \in [Items -> SUBSET Nat]
    BY <1>3, <1>4, ItemFacts DEF Inv, TypeOK
  <2>3. hollow' \subseteq Items
    BY <1>3, <1>4 DEF Inv, TypeOK
  <2>4. QED
    BY <1>1, <1>2, <2>1, <2>2, <2>3, CompleteStep DEF Inv, TypeOK
<1>7. ASSUME NEW k \in Jobs
      PROVE  JobInv(k)'
  <2>1. CASE k = j
    <3>1. reported'[k.item] # "none" /\ Ran(k)' /\ k \notin active'
      BY <1>1, <1>2, <1>3, <1>4, <2>1, CompleteStep DEF Inv, TypeOK, s
    <3>2. QED
      BY <1>1, <2>1, <3>1 DEF JobInv
  <2>2. CASE k # j
    <3>1. k.part = 0 => reported'[k.item] = reported[k.item]
      BY <1>3, <1>4, <1>5, <2>2, JobFacts DEF Inv, TypeOK
    <3>2. (Ran(k)' <=> Ran(k)) /\ JobInv(k)
      BY <1>1, <1>2, <2>2, CompleteStep DEF Inv
    <3>3. QED
      BY <1>1, <2>2, <3>1, <3>2 DEF JobInv
  <2>3. QED
    BY <2>1, <2>2
<1>8. ASSUME NEW i \in Items
      PROVE  ItemInv(i)'
  <2>1. CASE i = s
    <3>1. reported'[i] # "none" /\ object'[i] \in {object[i], Whole(i)}
      BY <1>3, <1>4, <2>1 DEF Inv, TypeOK
    <3>2. QED
      BY <1>1, <1>3, <2>1, <3>1 DEF Inv, ItemInv
  <2>2. CASE i # s
    <3>1. UNCHANGED <<reported[i], object[i], upload[i]>>
      BY <1>1, <1>3, <1>4, <2>2 DEF Inv, TypeOK
    <3>2. QED
      BY <1>1, <3>1 DEF Inv, ItemInv
  <2>3. QED
    BY <2>1, <2>2
<1>9. (phase \notin {"settle", "done"} => settled = {})'
  BY <1>1 DEF Inv
<1>10. QED
  BY <1>1, <1>2, <1>6, <1>7, <1>8, <1>9, CompleteStep DEF Inv

LEMMA PartStep == ASSUME Inv, NEW j \in Jobs, UploadPart(j) PROVE Inv'
<1>1. /\ j \in sending /\ j.part # 0
      /\ sending' = sending \ {j} /\ active' = active \ {j}
      /\ UNCHANGED <<phase, begun, settled, reported, upload, object, hollow>>
  BY DEF UploadPart, Pool!Complete
<1>2. Pool!Complete(j)
  BY DEF UploadPart
<1> DEFINE l == j.item
<1>3. l \in Large /\ l \in Items /\ j.part \in Nat
  BY <1>1, JobFacts, ItemFacts
<1>4. /\ stored' = stored \/ stored' = [stored EXCEPT ![l] = stored[l] \cup {j.part}]
      /\ \/ etags' = etags \cup {j} /\ failures' = failures
         \/ etags' = etags /\ failures' = failures \cup {l}
  BY DEF UploadPart
<1>5. phase = "pool"
  BY <1>1, <1>2, CompleteStep
<1>6. object[l] = {}
  BY <1>3, <1>5 DEF Inv, ItemInv
<1> HIDE DEF l
<1>7. TypeOK'
  <2>1. stored' \in [Items -> SUBSET Nat]
    BY <1>3, <1>4 DEF Inv, TypeOK
  <2>2. QED
    BY <1>1, <1>2, <1>3, <1>4, <2>1, CompleteStep DEF Inv, TypeOK
<1>8. ASSUME NEW k \in Jobs
      PROVE  JobInv(k)'
  <2>1. k = j => k \in etags' \/ k.item \in failures'
    BY <1>4 DEF l
  <2>2. k # j => (Ran(k)' <=> Ran(k)) /\ JobInv(k)
    BY <1>1, <1>2, CompleteStep DEF Inv
  <2>3. QED
    BY <1>1, <1>4, <2>1, <2>2 DEF JobInv
<1>9. ASSUME NEW i \in Items
      PROVE  ItemInv(i)'
  BY <1>1, <1>4, <1>6 DEF Inv, ItemInv
<1>10. (phase \notin {"settle", "done"} => settled = {})'
  BY <1>1 DEF Inv
<1>11. QED
  BY <1>1, <1>2, <1>7, <1>8, <1>9, <1>10, CompleteStep DEF Inv

-----------------------------------------------------------------------------
LEMMA NextInv == Inv /\ [Next]_vars => Inv'
<1> SUFFICES ASSUME Inv, [Next]_vars
             PROVE  Inv'
  OBVIOUS
<1>1. CASE BeginUpload \/ StartPool \/ EndPool \/ Finish
  BY <1>1, BeginStep, StartStep, EndStep, FinishStep
<1>2. CASE AbortUpload \/ CompleteUpload
  BY <1>2, SettleStep
<1>3. ASSUME NEW j \in Jobs, TakeJob(j) \/ SkipPart(j) \/ PutObject(j) \/ UploadPart(j)
      PROVE  Inv'
  BY <1>3, TakeStep, SkipStep, PutStep, PartStep
<1>4. CASE UNCHANGED vars
  BY <1>4 DEF vars, poolVars, clientVars, s3Vars, Inv, TypeOK, PoolInv, Fresh, JobInv, Ran, ItemInv
<1>5. QED
  BY <1>1, <1>2, <1>3, <1>4 DEF Next

LEMMA InvHolds == Spec => []Inv
BY InitInv, NextInv, PTL DEF Spec

(* Every variable of execute_uploads keeps its type. *)
THEOREM TypeCorrect == Spec => []TypeOK
<1>1. Inv => TypeOK
  BY DEF Inv
<1>2. QED
  BY <1>1, InvHolds, PTL

(* Whatever fails and in whatever order the parts end, no destination ever *)
(* holds an object with a part missing, and an item one of whose parts     *)
(* failed leaves its destination alone: complete_upload is reached with    *)
(* the ETag of every part.                                                 *)
THEOREM UploadsAreWhole == Spec => []ObjectsAreWhole
<1>1. Inv => ObjectsAreWhole
  BY DEF Inv, ItemInv, ObjectsAreWhole
<1>2. QED
  BY <1>1, InvHolds, PTL

(* No request of a part is under way, or still to come, when its upload is *)
(* completed or aborted.                                                   *)
THEOREM PartsEndFirst == Spec => []NoPartOutlivesUpload
<1>1. Inv => NoPartOutlivesUpload
  <2> SUFFICES ASSUME Inv, NEW j \in Jobs,
                      j.item \in settled \/ upload[j.item] \in {"aborted", "completed"}
               PROVE  j \notin todo \cup active
    BY DEF NoPartOutlivesUpload
  <2>1. j.item \in settled
    BY JobFacts DEF Inv, ItemInv
  <2>2. phase \in {"settle", "done"}
    BY <2>1 DEF Inv
  <2>3. QED
    BY <2>2 DEF Inv, PoolInv, Fresh
<1>2. QED
  BY <1>1, InvHolds, PTL

-----------------------------------------------------------------------------
(* Refinement.  A job of a small item that ends, and a large item that is  *)
(* settled, settle the item of the atomic transfer; every other step is    *)
(* one in which nothing that AtomicTransfer tells of changes.              *)

LEMMA SettlesOne ==
  ASSUME Inv, AbortUpload \/ CompleteUpload
  PROVE  Atomic!Settle(Current)
<1>1. phase = "settle" /\ settled # Large
  BY DEF AbortUpload, CompleteUpload
<1>2. Current \in Large /\ Current \notin settled /\ Current \in Items
  BY <1>1, CurrentIsOpen, ItemFacts DEF Inv, TypeOK
<1>3. reported[Current] = "none"
  BY <1>2 DEF Inv, ItemInv
<1>4. Current \notin failures => Collected(Current) = Whole(Current)
  BY <1>1, <1>2, AllCollected
<1>5. QED
  BY <1>3, <1>4 DEF AbortUpload, CompleteUpload, Report, s3Vars, Atomic!Settle

LEMMA RefStep == Inv /\ [Next]_vars => [Atomic!AtomicNext]_(Atomic!atomicVars)
<1> SUFFICES ASSUME Inv, [Next]_vars
             PROVE  [Atomic!AtomicNext]_(Atomic!atomicVars)
  OBVIOUS
<1>1. CASE BeginUpload \/ StartPool \/ EndPool \/ Finish \/ UNCHANGED vars
  BY <1>1 DEF BeginUpload, StartPool, EndPool, Finish, vars, clientVars, s3Vars, Atomic!atomicVars
<1>2. CASE AbortUpload \/ CompleteUpload
  <2>1. Current \in Items
    BY <1>2, CurrentIsOpen, ItemFacts DEF Inv, TypeOK, AbortUpload, CompleteUpload
  <2>2. QED
    BY <1>2, <2>1, SettlesOne DEF Atomic!AtomicNext
<1>3. ASSUME NEW j \in Jobs, TakeJob(j) \/ SkipPart(j) \/ UploadPart(j)
      PROVE  UNCHANGED Atomic!atomicVars
  BY <1>3 DEF TakeJob, SkipPart, UploadPart, clientVars, s3Vars, Atomic!atomicVars
<1>4. ASSUME NEW j \in Jobs, PutObject(j)
      PROVE  Atomic!AtomicNext
  <2>1. j.part = 0 /\ Pool!Complete(j) /\ phase' = phase
    BY <1>4 DEF PutObject
  <2>2. j.item \in Items /\ Whole(j.item) = {0}
    BY <2>1, JobFacts, ItemFacts
  <2>3. reported[j.item] = "none"
    BY <2>1, CompleteStep DEF Inv, JobInv
  <2>4. Atomic!Settle(j.item)
    BY <1>4, <2>2, <2>3 DEF PutObject, Report, Atomic!Settle
  <2>5. QED
    BY <2>2, <2>4 DEF Atomic!AtomicNext
<1>5. QED
  BY <1>1, <1>2, <1>3, <1>4 DEF Next

(* Seen at the destinations, the upload is atomic: each object appears in  *)
(* one step, whole, and is reported once; an item is reported as uploaded  *)
(* without being there only if its PutObject, or its completing request,   *)
(* was answered below 400 by a service that had done nothing.              *)
THEOREM UploadIsAtomic == Spec => ImplementsAtomic
<1>1. Init => Atomic!AtomicInit
  BY DEF Init, Atomic!AtomicInit
<1>2. QED
  BY <1>1, RefStep, InvHolds, PTL DEF Spec, ImplementsAtomic, Atomic!AtomicSpec
===============================================================================
