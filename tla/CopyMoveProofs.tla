---------------------------- MODULE CopyMoveProofs ----------------------------
(***************************************************************************)
(* Theorems about copying and moving, for every list of sizes, every size  *)
(* of a delete batch and every history of the sources; and the instance on *)
(* which TLC checks it: an object of two parts, one of a single part and a *)
(* small one, each replaced once, by an object of one part or, in the runs *)
(* that look for a violation, by a longer one, too; two keys to a delete   *)
(* batch, so that three moved objects need two batches.                    *)
(***************************************************************************)
EXTENDS CopyMove, FiniteSetTheorems, TLAPS

MCPartsOf == <<2, 1>>
MCNewSizes == {1}
MCAnySizes == {1, 3}

-----------------------------------------------------------------------------
(* Items, jobs, and calls of the pool. *)

N == Len(PartsOf)

LEMMA ItemFacts ==
  /\ N \in Nat /\ Smalls \in Nat /\ Large = 1 .. N
  /\ Items = 1 .. (N + Smalls)
  /\ Large \cap Small = {} /\ Items = Large \cup Small
  /\ \A i \in Large : PartsOf[i] \in Nat \ {0}
<1>1. PartsOf \in Seq(Nat \ {0}) /\ Smalls \in Nat
  BY CopyAssumption
<1>2. N \in Nat /\ \A i \in 1 .. N : PartsOf[i] \in Nat \ {0}
  BY <1>1 DEF N
<1>3. QED
  BY <1>1, <1>2 DEF N, Large, Small, Items

LEMMA CallFacts ==
  /\ Len(Calls) = N + 1
  /\ \A n \in Large : Calls[n] = PartJobs(n) /\ n <= Len(Calls)
  /\ Calls[N + 1] = SmallJobs
<1>1. Len(Calls) = N + 1 /\ Calls = [n \in 1 .. (N + 1) |-> IF n \in Large THEN PartJobs(n) ELSE SmallJobs]
  BY ItemFacts DEF Calls, N
<1>2. QED
  BY <1>1, ItemFacts

LEMMA PartJobFacts ==
  ASSUME NEW i \in Large
  PROVE  /\ PartJobs(i) \subseteq Jobs /\ PartJobs(i) # {}
         /\ \A j \in PartJobs(i) : j.item = i /\ j.part # 0 /\ j.part \in 1 .. PartsOf[i] /\ j = Job(i, j.part)
         /\ \A p \in 1 .. PartsOf[i] : Job(i, p) \in PartJobs(i) /\ Job(i, p).part = p
<1>1. PartJobs(i) \subseteq Jobs
  BY DEF Jobs
<1>2. PartsOf[i] \in Nat \ {0}
  BY ItemFacts
<1>3. Job(i, 1) \in PartJobs(i)
  BY <1>2 DEF PartJobs
<1>4. QED
  BY <1>1, <1>2, <1>3 DEF PartJobs, Job

LEMMA SmallJobFacts ==
  /\ SmallJobs \subseteq Jobs
  /\ \A j \in SmallJobs : j.item \in Small /\ j.part = 0 /\ j = Job(j.item, 0)
  /\ \A i \in Small : Job(i, 0) \in SmallJobs /\ Job(i, 0).item = i /\ Job(i, 0).part = 0
BY DEF SmallJobs, Jobs, Job

-----------------------------------------------------------------------------
(* The inductive invariant.  What the runs check says nothing of the jobs  *)
(* under way, of the parts stored so far, nor of the keys still to delete. *)

Idle == running = FALSE /\ todo = {} /\ active = {} /\ finished = {}

(* The pool is at a set of jobs: each is to do, under way, or finished.    *)
At(jobs) ==
  /\ running
  /\ todo \cup active \cup finished = jobs
  /\ todo \cap active = {} /\ (todo \cup active) \cap finished = {}

PoolInv ==
  /\ step \in {"head", "create"} => call \in Large /\ Idle
  /\ step = "pool" => call \in Large /\ At(PartJobs(call))
  /\ step = "settle" => call - 1 \in Large /\ Idle
  /\ step = "small" => call = N + 1 /\ (Idle \/ At(SmallJobs))
  /\ step \in {"delete", "done"} => call = N + 2 /\ Idle
  /\ \A j \in active \ sending : j.part # 0 /\ failure

(* The large item in hand.  Nothing is stored for it before its upload is  *)
(* created; what is stored then comes from the pinned version, if one is   *)
(* pinned; and unless a part failed, each part that ran has its ETag.      *)
InHandInv ==
  /\ step \in {"create", "pool", "settle"} =>
       pin \in 1 .. Current(Item) \/ "head" \in hollow[Item]
  /\ \A i \in Large : i > Item \/ (i = Item /\ step \in {"head", "create"}) => stored[i] = {}
  /\ step \in {"pool", "settle"} =>
       /\ \/ stored[Item] \subseteq {Piece(pin, p) : p \in 1 .. PartsOf[Item]}
          \/ "head" \in hollow[Item]
       /\ etags \subseteq 1 .. PartsOf[Item]
       /\ failure \/ \A p \in 1 .. PartsOf[Item] :
            step = "settle" \/ Job(Item, p) \in finished => p \in etags

(* The items whose copy has ended: the large ones before the one in hand,  *)
(* the small ones whose job ran.                                           *)
Ended(i) ==
  IF i \in Large THEN i < Item
  ELSE step \in {"delete", "done"} \/ (step = "small" /\ Job(i, 0) \in finished)

ItemInv(i) ==
  /\ Len(versions[i]) \in 1 .. MaxVersions
  /\ reported[i] = "none" <=> ~Ended(i)
  /\ reported[i] = "none" => object[i] = {}
  /\ reported[i] = "ok" => object[i] # {} \/ "copy" \in hollow[i]
  /\ object[i] # {} /\ "head" \notin hollow[i] =>
       \E v \in 1 .. Current(i) : object[i] = ListedPart(i, v)
  /\ i \in moved <=> Move /\ reported[i] = "ok"
  /\ ~present[i] => i \in moved

(* The keys to delete: each is in a batch still to be sent, was reported   *)
(* as not deleted, or is gone, unless its deletion was answered hollowly.  *)
DeleteInv ==
  /\ step \notin {"delete", "done"} =>
       pending = {} /\ notDeleted = {} /\ \A i \in Items : present[i]
  /\ pending \subseteq SUBSET moved
  /\ step \in {"delete", "done"} =>
       \A i \in moved : i \in UNION pending \/ i \in notDeleted \/ ~present[i] \/ "delete" \in hollow[i]
  /\ step = "done" => pending = {}

Inv ==
  /\ TypeOK /\ PoolInv /\ InHandInv /\ DeleteInv
  /\ \A i \in Items : ItemInv(i)

LEMMA InitInv == Init => Inv
<1> SUFFICES ASSUME Init
             PROVE  Inv
  OBVIOUS
<1>1. /\ call = 1 /\ running = FALSE /\ todo = {} /\ active = {} /\ finished = {}
      /\ step = NextStep(1) /\ pin = 0 /\ sending = {} /\ failure = FALSE /\ etags = {}
      /\ moved = {} /\ pending = {} /\ notDeleted = {}
  BY DEF Init, Pool!AbsInit
<1>2. /\ reported = [i \in Items |-> "none"]
      /\ versions = [i \in Items |-> <<ListedSize(i)>>]
      /\ present = [i \in Items |-> TRUE]
      /\ upload = [i \in Large |-> "none"]
      /\ stored = [i \in Large |-> {}]
      /\ object = [i \in Items |-> {}]
      /\ hollow = [i \in Items |-> {}]
  BY DEF Init
<1>3. (step = "head" /\ 1 \in Large) \/ (step = "small" /\ 1 \notin Large /\ N = 0)
  <2>1. N \in Nat /\ Large = 1 .. N
    BY ItemFacts
  <2>2. 1 \notin Large => N = 0
    BY <2>1
  <2>3. step = IF 1 \in Large THEN "head" ELSE "small"
    BY <1>1 DEF NextStep
  <2>4. CASE 1 \in Large
    BY <2>3, <2>4
  <2>5. CASE 1 \notin Large
    BY <2>2, <2>3, <2>5
  <2>6. QED
    BY <2>4, <2>5
<1>4. \A i \in Items : ListedSize(i) \in Nat /\ <<ListedSize(i)>> \in Seq(Nat) /\ Len(<<ListedSize(i)>>) = 1
  BY ItemFacts DEF ListedSize
<1>5. TypeOK
  <2>1. call \in 1 .. (Len(PartsOf) + 2) /\ pin \in 0 .. MaxVersions
    BY <1>1, ItemFacts, CopyAssumption DEF N
  <2>2. running \in BOOLEAN /\ failure \in BOOLEAN
    BY <1>1
  <2>3. step \in {"head", "create", "pool", "settle", "small", "delete", "done"}
    BY <1>3
  <2>4. /\ reported \in [Items -> {"none", "ok", "failed"}] /\ present \in [Items -> BOOLEAN]
        /\ upload \in [Large -> {"none", "open", "aborted", "completed"}]
    BY <1>2
  <2>5. /\ stored \in [Large -> SUBSET Stored] /\ object \in [Items -> SUBSET Stored]
        /\ hollow \in [Items -> SUBSET {"head", "copy", "delete"}]
    BY <1>2
  <2>6. versions \in [Items -> Seq(Nat)]
    BY <1>2, <1>4
  <2>7. QED
    BY <1>1, <2>1, <2>2, <2>3, <2>4, <2>5, <2>6 DEF TypeOK
<1>6. PoolInv
  BY <1>1, <1>3 DEF PoolInv, Idle
<1>7. InHandInv
  BY <1>1, <1>2, <1>3 DEF InHandInv
<1>8. DeleteInv
  BY <1>1, <1>2, <1>3 DEF DeleteInv
<1>9. ASSUME NEW i \in Items
      PROVE  ItemInv(i)
  <2>1. ~Ended(i)
    BY <1>1, <1>3, ItemFacts DEF Ended, Item
  <2>2. Len(versions[i]) \in 1 .. MaxVersions
    BY <1>2, <1>4, CopyAssumption
  <2>3. QED
    BY <1>1, <1>2, <2>1, <2>2 DEF ItemInv
<1>10. QED
  BY <1>5, <1>6, <1>7, <1>8, <1>9 DEF Inv

-----------------------------------------------------------------------------
(* What the steps have in common. *)

(* A hollow answer is remembered of one item, and none is forgotten. *)
LEMMA MisledOnce ==
  ASSUME Inv, NEW i \in Items, NEW request \in {"head", "copy", "delete"},
         hollow' = [hollow EXCEPT ![i] = @ \cup {request}]
  PROVE  /\ hollow' \in [Items -> SUBSET {"head", "copy", "delete"}]
         /\ \A k \in Items : hollow[k] \subseteq hollow'[k]
         /\ \A k \in Items : k # i => hollow'[k] = hollow[k]
         /\ request \in hollow'[i]
<1>1. hollow \in [Items -> SUBSET {"head", "copy", "delete"}]
  BY DEF Inv, TypeOK
<1>2. /\ hollow'[i] = hollow[i] \cup {request}
      /\ \A k \in Items : k # i => hollow'[k] = hollow[k]
  BY <1>1
<1>3. hollow' \in [Items -> SUBSET {"head", "copy", "delete"}]
  BY <1>1
<1>4. QED
  BY <1>2, <1>3

(* An item that a step leaves alone. *)
LEMMA SameItem ==
  ASSUME NEW i \in Items, ItemInv(i),
         versions' = versions, object'[i] = object[i], reported'[i] = reported[i],
         present'[i] = present[i], i \in moved' <=> i \in moved,
         hollow[i] \subseteq hollow'[i],
         Ended(i)' <=> Ended(i)
  PROVE  ItemInv(i)'
<1>1. \A v : ListedPart(i, v)' = ListedPart(i, v)
  BY DEF ListedPart, CopyOf
<1>2. Current(i)' = Current(i)
  BY DEF Current
<1>3. QED
  BY <1>1, <1>2 DEF ItemInv

(* The copy of one item ends. *)
LEMMA EndOfCopy ==
  ASSUME Inv, NEW i \in Items, NEW ok \in BOOLEAN, Copied(i, ok),
         reported[i] = "none", Ended(i)',
         versions' = versions, present' = present,
         ok => object'[i] # {} \/ "copy" \in hollow'[i],
         object'[i] # {} /\ "head" \notin hollow'[i] =>
           \E v \in 1 .. Current(i) : object'[i] = ListedPart(i, v),
         \A k \in Items : k # i =>
           object'[k] = object[k] /\ hollow'[k] = hollow[k] /\ (Ended(k)' <=> Ended(k))
  PROVE  /\ reported' \in [Items -> {"none", "ok", "failed"}]
         /\ moved' \subseteq Items /\ moved \subseteq moved'
         /\ \A k \in Items : ItemInv(k)'
<1>1. /\ reported' = [reported EXCEPT ![i] = IF ok THEN "ok" ELSE "failed"]
      /\ moved' = IF Move /\ ok THEN moved \cup {i} ELSE moved
  BY DEF Copied, Report
<1>2. reported \in [Items -> {"none", "ok", "failed"}] /\ moved \subseteq Items
  BY DEF Inv, TypeOK
<1>3. reported' \in [Items -> {"none", "ok", "failed"}]
  BY <1>1, <1>2
<1>4. ItemInv(i)'
  <2>1. \A v : ListedPart(i, v)' = ListedPart(i, v)
    BY DEF ListedPart, CopyOf
  <2>2. Current(i)' = Current(i)
    BY DEF Current
  <2>3. ItemInv(i) /\ i \notin moved
    BY DEF Inv, ItemInv
  <2>4. reported'[i] = IF ok THEN "ok" ELSE "failed"
    BY <1>1, <1>2
  <2>5. i \in moved' <=> Move /\ ok
    BY <1>1, <2>3
  <2>6. present'[i]
    BY <2>3 DEF ItemInv
  <2>7. QED
    BY <2>1, <2>2, <2>3, <2>4, <2>5, <2>6 DEF ItemInv
<1>5. ASSUME NEW k \in Items, k # i
      PROVE  ItemInv(k)'
  <2>1. reported'[k] = reported[k] /\ (k \in moved' <=> k \in moved)
    BY <1>1, <1>2, <1>5
  <2>2. QED
    BY <1>5, <2>1, SameItem DEF Inv
<1>6. QED
  BY <1>1, <1>2, <1>3, <1>4, <1>5

(* The loop over the large items goes on after item n. *)
LEMMA GoOn ==
  ASSUME NEW n \in Large, step' = NextStep(n + 1), call' = n + 1, Idle',
         (active \ sending)' = {},
         \A i \in Large : i > n => stored'[i] = {}
  PROVE  /\ step' \in {"head", "small"} /\ call' \in 1 .. (Len(PartsOf) + 2) /\ running' \in BOOLEAN
         /\ PoolInv' /\ InHandInv' /\ Ended(n)' /\ Item' = n + 1
         /\ \A i \in Items : Ended(i)' <=> (i \in Large /\ i <= n)
<1>1. (step' = "head" /\ n + 1 \in Large) \/ (step' = "small" /\ n + 1 = N + 1)
  <2>1. N \in Nat /\ Large = 1 .. N
    BY ItemFacts
  <2>2. n + 1 \notin Large => n + 1 = N + 1
    BY <2>1
  <2>3. step' = IF n + 1 \in Large THEN "head" ELSE "small"
    BY DEF NextStep
  <2>4. CASE n + 1 \in Large
    BY <2>3, <2>4
  <2>5. CASE n + 1 \notin Large
    BY <2>2, <2>3, <2>5
  <2>6. QED
    BY <2>4, <2>5
<1>2. call' \in 1 .. (Len(PartsOf) + 2)
  BY ItemFacts DEF N
<1>3. Item' = n + 1
  BY <1>1 DEF Item
<1>4. PoolInv'
  BY <1>1 DEF PoolInv
<1>5. InHandInv'
  BY <1>1, <1>3, ItemFacts DEF InHandInv
<1>6. \A i \in Items : Ended(i)' <=> (i \in Large /\ i <= n)
  <2>1. finished' = {}
    BY DEF Idle
  <2>2. QED
    BY <1>1, <1>3, <2>1, ItemFacts DEF Ended
<1>7. running' \in BOOLEAN
  <2>1. running' = FALSE
    BY DEF Idle
  <2>2. QED
    BY <2>1
<1>8. step' \in {"head", "small"}
  BY <1>1
<1>9. n \in Items /\ n \in Nat
  BY ItemFacts
<1>10. Ended(n)'
  <2>1. n <= n
    BY <1>9
  <2>2. QED
    BY <1>6, <1>9, <2>1, Zenon
<1>11. QED
  BY <1>2, <1>3, <1>4, <1>5, <1>6, <1>7, <1>8, <1>10, Zenon

(* The deletion has not begun, and does not. *)
LEMMA NoDeletionYet ==
  ASSUME Inv, step \notin {"delete", "done"}, step' \notin {"delete", "done"},
         UNCHANGED <<pending, notDeleted, present>>, moved \subseteq moved'
  PROVE  DeleteInv'
BY DEF Inv, DeleteInv

(* Only jobs of the item in hand, or of small items, are under way. *)
LEMMA UnderWay ==
  ASSUME Inv, NEW j \in todo \cup active
  PROVE  \/ step = "pool" /\ call \in Large /\ Item = call /\ j \in PartJobs(call) /\ At(PartJobs(call))
         \/ step = "small" /\ call = N + 1 /\ j \in SmallJobs /\ At(SmallJobs)
<1>1. ~Idle
  BY DEF Idle
<1>2. step = "pool" \/ step = "small"
  BY <1>1 DEF Inv, TypeOK, PoolInv
<1>3. CASE step = "pool"
  BY <1>3 DEF Inv, PoolInv, At, Item
<1>4. CASE step = "small"
  BY <1>1, <1>4 DEF Inv, PoolInv, At
<1>5. QED
  BY <1>2, <1>3, <1>4

(* What each way to complete a job does to the pool. *)
LEMMA CompleteStep ==
  ASSUME Inv, NEW j \in Jobs, Pool!Complete(j), step' = step
  PROVE  /\ j \in active /\ active' = active \ {j} /\ finished' = finished \cup {j}
         /\ call' = call /\ running' = running /\ todo' = todo
         /\ todo' \subseteq Jobs /\ active' \subseteq Jobs /\ finished' \subseteq Jobs
         /\ step = "pool" => At(PartJobs(call))' /\ call \in Large /\ j \in PartJobs(call)
         /\ step = "small" => At(SmallJobs)' /\ call = N + 1 /\ j \in SmallJobs
         /\ step \in {"pool", "small"}
         /\ j \notin finished
<1>1. /\ j \in active /\ j \notin finished
      /\ active' = active \ {j} /\ finished' = finished \cup {j}
      /\ UNCHANGED <<call, running, todo>>
  BY DEF Pool!Complete
<1>2. CASE step = "pool" /\ call \in Large /\ j \in PartJobs(call) /\ At(PartJobs(call))
  <2>1. At(PartJobs(call))'
    <3>1. PartJobs(call)' = PartJobs(call)
      BY <1>1 DEF PartJobs
    <3>2. QED
      BY <1>1, <1>2, <3>1 DEF At
  <2>2. QED
    BY <1>1, <1>2, <2>1 DEF Inv, TypeOK
<1>3. CASE step = "small" /\ call = N + 1 /\ j \in SmallJobs /\ At(SmallJobs)
  <2>1. At(SmallJobs)'
    BY <1>1, <1>3 DEF At
  <2>2. QED
    BY <1>1, <1>3, <2>1 DEF Inv, TypeOK
<1>4. QED
  BY <1>1, <1>2, <1>3, UnderWay

-----------------------------------------------------------------------------
(* The copies of the large items. *)

(* The item in hand was not reported. *)
LEMMA InHand ==
  ASSUME Inv, step \in {"head", "create", "pool", "settle"}
  PROVE  /\ Item \in Large /\ Item \in Items /\ reported[Item] = "none" /\ object[Item] = {}
         /\ Item = IF step = "settle" THEN call - 1 ELSE call
         /\ step # "pool" => Idle
<1>1. Item \in Large /\ Item = IF step = "settle" THEN call - 1 ELSE call
  BY DEF Inv, PoolInv, Item
<1>2. Item \in Items /\ Item \in Int
  BY <1>1, ItemFacts
<1>3. ~Ended(Item)
  BY <1>1, <1>2 DEF Ended
<1>4. QED
  BY <1>1, <1>2, <1>3 DEF Inv, ItemInv, PoolInv

LEMMA GiveUpStep ==
  ASSUME Inv, step \in {"head", "create"}, GiveUp,
         UNCHANGED <<running, todo, active, finished, sending, failure, etags, pending,
                     notDeleted, sourceVars, stored, object, hollow>>,
         pin' \in 0 .. MaxVersions, upload' \in [Large -> {"none", "open", "aborted", "completed"}]
  PROVE  Inv'
<1>1. PICK c \in Large : c = call /\ c = Item /\ c \in Items /\ reported[c] = "none" /\ object[c] = {} /\ Idle
  BY InHand
<1>2. Copied(c, FALSE) /\ call' = c + 1 /\ step' = NextStep(c + 1)
  BY <1>1 DEF GiveUp
<1>3. Idle' /\ (active \ sending)' = {} /\ \A i \in Large : i > c => stored'[i] = {}
  BY <1>1 DEF Idle, Inv, InHandInv
<1>4. /\ step' \in {"head", "small"} /\ call' \in 1 .. (Len(PartsOf) + 2) /\ running' \in BOOLEAN
      /\ PoolInv' /\ InHandInv' /\ Ended(c)'
      /\ \A i \in Items : Ended(i)' <=> (i \in Large /\ i <= c)
  BY <1>2, <1>3, GoOn
<1>5. \A k \in Items : k # c => (Ended(k)' <=> Ended(k))
  <2>1. \A k \in Items : Ended(k) <=> (k \in Large /\ k < c)
    BY <1>1 DEF Ended
  <2>2. \A k \in Large : k \in Int
    BY ItemFacts
  <2>3. QED
    BY <1>4, <2>1, <2>2
<1>6. /\ reported' \in [Items -> {"none", "ok", "failed"}]
      /\ moved' \subseteq Items /\ moved \subseteq moved'
      /\ \A k \in Items : ItemInv(k)'
  BY <1>1, <1>2, <1>4, <1>5, EndOfCopy DEF sourceVars
<1>7. TypeOK'
  BY <1>4, <1>6 DEF Inv, TypeOK, sourceVars
<1>8. DeleteInv'
  BY <1>4, <1>6, NoDeletionYet DEF sourceVars
<1>9. QED
  BY <1>4, <1>6, <1>7, <1>8 DEF Inv

LEMMA HeadStep == Inv /\ HeadSource => Inv'
<1> SUFFICES ASSUME Inv, HeadSource
             PROVE  Inv'
  OBVIOUS
<1>1. PICK c \in Large : c = call /\ c = Item /\ c \in Items /\ reported[c] = "none" /\ object[c] = {} /\ Idle
  BY InHand DEF HeadSource
<1>2. /\ Current(c) \in 1 .. MaxVersions /\ MaxVersions \in Nat
      /\ step = "head"
      /\ UNCHANGED <<running, todo, active, finished, sending, failure, etags, pending, notDeleted,
                     sourceVars, upload, stored, object>>
  BY <1>1, CopyAssumption DEF HeadSource, Inv, ItemInv, Current
<1>3. CASE /\ step' = "create" /\ UNCHANGED <<call, moved, reported>>
           /\ \/ pin' = Current(c) /\ hollow' = hollow
              \/ pin' = 0 /\ hollow' = [hollow EXCEPT ![c] = @ \cup {"head"}]
  <2>0. /\ hollow' \in [Items -> SUBSET {"head", "copy", "delete"}]
        /\ \A i \in Items : hollow[i] \subseteq hollow'[i]
        /\ pin' = Current(c) \/ "head" \in hollow'[c]
    BY <1>1, <1>3, MisledOnce DEF Inv, TypeOK
  <2>1. TypeOK'
    BY <1>2, <1>3, <2>0 DEF Inv, TypeOK, sourceVars
  <2>2. PoolInv'
    BY <1>1, <1>2, <1>3 DEF Inv, PoolInv, Idle
  <2>3. Item' = c
    BY <1>1, <1>3 DEF Item
  <2>4. InHandInv'
    <3>1. Current(Item)' = Current(c)
      BY <1>2, <2>3 DEF Current, sourceVars
    <3>2. stored' = stored /\ \A i \in Large : i > c \/ i = c => stored[i] = {}
      BY <1>1, <1>2 DEF Inv, InHandInv
    <3>3. QED
      BY <1>2, <1>3, <2>0, <2>3, <3>1, <3>2 DEF InHandInv
  <2>5. \A i \in Items : ItemInv(i)'
    <3>1. \A i \in Items : Ended(i)' <=> Ended(i)
      BY <1>1, <1>2, <1>3, <2>3 DEF Ended
    <3>2. QED
      BY <1>2, <1>3, <2>0, <3>1, SameItem DEF Inv, sourceVars
  <2>6. DeleteInv'
    BY <1>2, <1>3, NoDeletionYet DEF sourceVars
  <2>7. QED
    BY <2>1, <2>2, <2>4, <2>5, <2>6 DEF Inv
<1>4. CASE GiveUp /\ UNCHANGED <<pin, hollow>>
  BY <1>2, <1>4, GiveUpStep DEF Inv, TypeOK
<1>5. QED
  BY <1>1, <1>3, <1>4 DEF HeadSource, Hollow

LEMMA CreateFailsStep == Inv /\ CreateFails => Inv'
<1> SUFFICES ASSUME Inv, CreateFails
             PROVE  Inv'
  OBVIOUS
<1>1. upload' \in [Large -> {"none", "open", "aborted", "completed"}]
  BY DEF CreateFails, Inv, TypeOK
<1>2. pin' \in 0 .. MaxVersions
  BY DEF CreateFails, Inv, TypeOK
<1>3. QED
  BY <1>1, <1>2, GiveUpStep DEF CreateFails

LEMMA CreateStep == Inv /\ CreateUpload => Inv'
<1> SUFFICES ASSUME Inv, CreateUpload
             PROVE  Inv'
  OBVIOUS
<1>1. PICK c \in Large : c = call /\ c = Item /\ c \in Items /\ reported[c] = "none" /\ object[c] = {} /\ Idle
  BY InHand DEF CreateUpload
<1>2. /\ step = "create" /\ step' = "pool" /\ failure' = FALSE /\ etags' = {}
      /\ running' = TRUE /\ todo' = PartJobs(c)
      /\ upload' \in {upload, [upload EXCEPT ![c] = "open"]}
      /\ UNCHANGED <<call, active, finished, pin, sending, outcomeVars, sourceVars, stored, object,
                     hollow>>
  BY <1>1, CallFacts DEF CreateUpload, Pool!StartCall
<1>3. PartJobs(c) \subseteq Jobs
  BY PartJobFacts
<1>4. TypeOK'
  <2>1. upload' \in [Large -> {"none", "open", "aborted", "completed"}]
    BY <1>2 DEF Inv, TypeOK
  <2>2. running' \in BOOLEAN /\ failure' \in BOOLEAN /\ etags' \subseteq Nat
    BY <1>2
  <2>3. QED
    BY <1>2, <1>3, <2>1, <2>2 DEF Inv, TypeOK, outcomeVars, sourceVars
<1>5. Item' = c /\ PartJobs(call)' = PartJobs(c)
  BY <1>1, <1>2 DEF Item, PartJobs
<1>6. PoolInv'
  BY <1>1, <1>2, <1>5 DEF PoolInv, Idle, At
<1>7. InHandInv'
  <2>1. /\ pin' = pin /\ hollow' = hollow /\ Current(Item)' = Current(c)
        /\ pin \in 1 .. Current(c) \/ "head" \in hollow[c]
    BY <1>1, <1>2, <1>5 DEF Inv, InHandInv, Current, sourceVars
  <2>2. stored' = stored /\ stored[c] = {} /\ \A i \in Large : i > c => stored[i] = {}
    BY <1>1, <1>2 DEF Inv, InHandInv
  <2>3. finished' = {}
    BY <1>1, <1>2 DEF Idle
  <2>4. QED
    BY <1>2, <1>5, <2>1, <2>2, <2>3 DEF InHandInv
<1>8. \A i \in Items : ItemInv(i)'
  <2>1. \A i \in Items : Ended(i)' <=> Ended(i)
    BY <1>1, <1>2, <1>5 DEF Ended
  <2>2. QED
    BY <1>2, <2>1, SameItem DEF Inv, sourceVars, outcomeVars
<1>9. DeleteInv'
  BY <1>2, NoDeletionYet DEF sourceVars, outcomeVars
<1>10. QED
  BY <1>4, <1>6, <1>7, <1>8, <1>9 DEF Inv

(* A part, sent or skipped: the job leaves the pool with its ETag, or with *)
(* the failure set.                                                        *)
LEMMA PartStep == ASSUME Inv, NEW j \in Jobs, CopyPart(j) PROVE Inv'
<1>1. /\ j \in sending /\ j.part # 0
      /\ Pool!Complete(j) /\ step' = step
      /\ sending' = sending \ {j}
      /\ UNCHANGED <<pin, outcomeVars, sourceVars, upload, object, hollow>>
  BY DEF CopyPart
<1>2. PICK c \in Large : c = call /\ j \in PartJobs(c) /\ step = "pool"
  BY <1>1, CompleteStep, SmallJobFacts
<1>3. c = Item /\ j.item = c /\ j = Job(c, j.part) /\ j.part \in 1 .. PartsOf[c] /\ j.part \in Nat
  <2>1. j.item = c /\ j = Job(c, j.part) /\ j.part \in 1 .. PartsOf[c]
    BY <1>2, PartJobFacts
  <2>2. PartsOf[c] \in Nat
    BY ItemFacts
  <2>3. QED
    BY <1>2, <2>1, <2>2 DEF Item
<1>4. /\ \/ stored' = stored
         \/ /\ pin \in {0, Current(c)}
            /\ stored' = [stored EXCEPT ![c] = stored[c] \cup {Piece(Current(c), j.part)}]
      /\ \/ etags' = etags \cup {j.part} /\ failure' = failure
         \/ etags' = etags /\ failure' = TRUE
  BY <1>3 DEF CopyPart
<1>5. /\ active' = active \ {j} /\ finished' = finished \cup {j}
      /\ call' = call /\ running' = running /\ At(PartJobs(call))'
      /\ todo' \subseteq Jobs /\ active' \subseteq Jobs /\ finished' \subseteq Jobs
  BY <1>1, <1>2, CompleteStep
<1>6. Item' = c
  BY <1>1, <1>2, <1>5 DEF Item
<1>7. TypeOK'
  <2>1. stored' \in [Large -> SUBSET Stored]
    <3>1. Current(c) \in Nat
      BY ItemFacts, CopyAssumption DEF Inv, ItemInv, Current
    <3>2. Piece(Current(c), j.part) \in Stored
      BY <1>3, <3>1 DEF Piece, Stored
    <3>3. QED
      BY <1>4, <3>2 DEF Inv, TypeOK
  <2>2. failure' \in BOOLEAN /\ etags' \subseteq Nat
    BY <1>3, <1>4 DEF Inv, TypeOK
  <2>3. QED
    BY <1>1, <1>5, <2>1, <2>2 DEF Inv, TypeOK, outcomeVars, sourceVars
<1>8. PoolInv'
  <2>1. \A k \in active' \ sending' : k.part # 0 /\ failure'
    BY <1>1, <1>4, <1>5 DEF Inv, PoolInv
  <2>2. QED
    BY <1>1, <1>2, <1>5, <2>1 DEF PoolInv
<1>9. InHandInv'
  <2>1. /\ pin' = pin /\ hollow' = hollow /\ Current(Item)' = Current(c)
        /\ pin \in 1 .. Current(c) \/ "head" \in hollow[c]
    BY <1>1, <1>2, <1>3, <1>6 DEF Inv, InHandInv, Current, sourceVars
  <2>2. \A i \in Large : i > c => stored'[i] = {}
    <3>1. \A i \in Large : i > c => stored[i] = {}
      BY <1>2, <1>3 DEF Inv, InHandInv
    <3>2. \A i \in Large : i > c => stored'[i] = stored[i]
      <4>1. \A i \in Large : i > c => i # c
        BY ItemFacts
      <4>2. \A i \in Large : i # c => stored'[i] = stored[i]
        BY <1>4 DEF Inv, TypeOK
      <4>3. QED
        BY <4>1, <4>2
    <3>3. QED
      BY <3>1, <3>2
  <2>3. \/ stored'[c] \subseteq {Piece(pin, p) : p \in 1 .. PartsOf[c]}
        \/ "head" \in hollow[c]
    <3>1. CASE "head" \notin hollow[c]
      <4>1. stored[c] \subseteq {Piece(pin, p) : p \in 1 .. PartsOf[c]}
        BY <1>2, <1>3, <3>1 DEF Inv, InHandInv
      <4>2. Piece(pin, j.part) \in {Piece(pin, p) : p \in 1 .. PartsOf[c]}
        BY <1>3
      <4>3. pin # 0
        BY <2>1, <3>1
      <4>4. stored'[c] \subseteq stored[c] \cup {Piece(pin, j.part)}
        BY <1>4, <4>3 DEF Inv, TypeOK
      <4>5. QED
        BY <4>1, <4>2, <4>4
    <3>2. QED
      BY <3>1
  <2>4. etags' \subseteq 1 .. PartsOf[c]
    BY <1>2, <1>3, <1>4 DEF Inv, InHandInv
  <2>5. failure' \/ \A p \in 1 .. PartsOf[c] : Job(c, p) \in finished' => p \in etags'
    <3>1. \A p \in 1 .. PartsOf[c] : Job(c, p) = j => p = j.part
      BY DEF Job
    <3>2. failure \/ \A p \in 1 .. PartsOf[c] : Job(c, p) \in finished => p \in etags
      BY <1>2, <1>3 DEF Inv, InHandInv
    <3>3. QED
      BY <1>4, <1>5, <3>1, <3>2
  <2>6. QED
    BY <1>1, <1>2, <1>6, <2>1, <2>2, <2>3, <2>4, <2>5 DEF InHandInv
<1>10. \A i \in Items : ItemInv(i)'
  <2>1. \A i \in Items : Ended(i)' <=> Ended(i)
    BY <1>1, <1>2, <1>3, <1>6 DEF Ended
  <2>2. QED
    BY <1>1, <2>1, SameItem DEF Inv, sourceVars, outcomeVars
<1>11. DeleteInv'
  BY <1>1, <1>2, NoDeletionYet DEF sourceVars, outcomeVars
<1>12. QED
  BY <1>7, <1>8, <1>9, <1>10, <1>11 DEF Inv

LEMMA SkipStep == ASSUME Inv, NEW j \in Jobs, SkipPart(j) PROVE Inv'
<1>1. /\ j \in active /\ j \notin sending
      /\ Pool!Complete(j) /\ step' = step
      /\ UNCHANGED <<copyVars, outcomeVars, sourceVars, destVars>>
  BY DEF SkipPart, copyVars
<1>2. j.part # 0 /\ failure
  BY <1>1 DEF Inv, PoolInv
<1>3. PICK c \in Large : c = call /\ step = "pool"
  BY <1>1, <1>2, CompleteStep, SmallJobFacts
<1>4. /\ active' = active \ {j}
      /\ call' = call /\ running' = running /\ At(PartJobs(call))'
      /\ todo' \subseteq Jobs /\ active' \subseteq Jobs /\ finished' \subseteq Jobs
  BY <1>1, <1>3, CompleteStep
<1>5. Item' = c /\ Item = c
  BY <1>1, <1>3, <1>4 DEF Item
<1>6. TypeOK'
  BY <1>1, <1>4 DEF Inv, TypeOK, copyVars, outcomeVars, sourceVars, destVars
<1>7. PoolInv'
  BY <1>1, <1>3, <1>4 DEF Inv, PoolInv, copyVars
<1>8. InHandInv'
  <2>1. Current(Item)' = Current(c)
    BY <1>1, <1>5 DEF Current, sourceVars
  <2>2. QED
    BY <1>1, <1>2, <1>3, <1>5, <2>1 DEF Inv, InHandInv, copyVars, destVars
<1>9. \A i \in Items : ItemInv(i)'
  <2>1. \A i \in Items : Ended(i)' <=> Ended(i)
    BY <1>1, <1>3, <1>5 DEF Ended
  <2>2. QED
    BY <1>1, <2>1, SameItem DEF Inv, sourceVars, outcomeVars, destVars
<1>10. DeleteInv'
  BY <1>1, <1>3, NoDeletionYet DEF sourceVars, outcomeVars
<1>11. QED
  BY <1>6, <1>7, <1>8, <1>9, <1>10 DEF Inv

(* The pool has returned: every part ran. *)
LEMMA EndPartsStep == Inv /\ EndParts => Inv'
<1> SUFFICES ASSUME Inv, EndParts
             PROVE  Inv'
  OBVIOUS
<1>1. PICK c \in Large : c = call /\ c = Item
  BY InHand DEF EndParts
<1>2. /\ step = "pool" /\ step' = "settle"
      /\ todo = {} /\ active = {} /\ finished = PartJobs(c)
      /\ running' = FALSE /\ call' = c + 1 /\ finished' = {}
      /\ UNCHANGED <<todo, active, pin, sending, failure, etags, outcomeVars, sourceVars, destVars>>
  BY <1>1, CallFacts DEF EndParts, Pool!ReturnCall
<1>3. c \in Nat /\ c + 1 - 1 = c /\ c + 1 \in 1 .. (Len(PartsOf) + 2)
  BY ItemFacts DEF N
<1>4. Item' = c
  BY <1>2, <1>3 DEF Item
<1>5. TypeOK'
  <2>1. call' \in 1 .. (Len(PartsOf) + 2) /\ running' \in BOOLEAN
    BY <1>2, <1>3
  <2>2. QED
    BY <1>2, <2>1 DEF Inv, TypeOK, outcomeVars, sourceVars, destVars
<1>6. PoolInv'
  BY <1>2, <1>3 DEF Inv, PoolInv, Idle
<1>7. InHandInv'
  <2>1. /\ pin' = pin /\ hollow' = hollow /\ Current(Item)' = Current(c)
        /\ pin \in 1 .. Current(c) \/ "head" \in hollow[c]
    BY <1>1, <1>2, <1>4 DEF Inv, InHandInv, Current, sourceVars, destVars
  <2>2. \A p \in 1 .. PartsOf[c] : Job(c, p) \in finished
    BY <1>2, PartJobFacts
  <2>3. /\ stored' = stored /\ \A i \in Large : i > c => stored[i] = {}
        /\ stored[c] \subseteq {Piece(pin, p) : p \in 1 .. PartsOf[c]} \/ "head" \in hollow[c]
        /\ etags' = etags /\ etags \subseteq 1 .. PartsOf[c]
        /\ failure' = failure /\ (failure \/ \A p \in 1 .. PartsOf[c] : p \in etags)
    BY <1>1, <1>2, <2>2 DEF Inv, InHandInv, destVars
  <2>4. QED
    BY <1>2, <1>4, <2>1, <2>3 DEF InHandInv
<1>8. \A i \in Items : ItemInv(i)'
  <2>1. \A i \in Items : Ended(i)' <=> Ended(i)
    BY <1>1, <1>2, <1>4 DEF Ended
  <2>2. QED
    BY <1>2, <2>1, SameItem DEF Inv, sourceVars, outcomeVars, destVars
<1>9. DeleteInv'
  BY <1>2, NoDeletionYet DEF sourceVars, outcomeVars
<1>10. QED
  BY <1>5, <1>6, <1>7, <1>8, <1>9 DEF Inv

(* What CompleteMultipartUpload makes of the parts is not empty; and if a  *)
(* version is pinned it is the listed parts of that version, all of them.  *)
LEMMA Assembled ==
  ASSUME Inv, step = "settle", ~failure, etags \subseteq {s.part : s \in stored[Item]}
  PROVE  /\ {s \in stored[Item] : s.part \in etags} # {}
         /\ {s \in stored[Item] : s.part \in etags} \subseteq Stored
         /\ "head" \notin hollow[Item] =>
              /\ {s \in stored[Item] : s.part \in etags} = ListedPart(Item, pin)
              /\ pin \in 1 .. Current(Item)
<1>1. PICK c \in Large : c = Item
  BY InHand
<1>2. PartsOf[c] \in Nat \ {0}
  BY ItemFacts
<1>3. etags = 1 .. PartsOf[c]
  BY <1>1 DEF Inv, InHandInv
<1>4. {s \in stored[c] : s.part \in etags} # {}
  <2>1. 1 \in etags
    BY <1>2, <1>3
  <2>2. QED
    BY <1>1, <2>1
<1>5. stored[c] \subseteq Stored
  BY DEF Inv, TypeOK
<1>6. ASSUME "head" \notin hollow[c]
      PROVE  {s \in stored[c] : s.part \in etags} = ListedPart(c, pin) /\ pin \in 1 .. Current(c)
  <2>1. /\ pin \in 1 .. Current(c)
        /\ stored[c] \subseteq {Piece(pin, p) : p \in 1 .. PartsOf[c]}
    BY <1>1, <1>6 DEF Inv, InHandInv
  <2>2. ListedPart(c, pin) = {Piece(pin, p) : p \in 1 .. PartsOf[c]}
    BY <1>2 DEF ListedPart, Pieces
  <2>3. ASSUME NEW p \in 1 .. PartsOf[c]
        PROVE  Piece(pin, p) \in stored[c]
    <3>1. PICK s \in stored[c] : s.part = p
      BY <1>1, <1>3
    <3>2. PICK q \in 1 .. PartsOf[c] : s = Piece(pin, q)
      BY <2>1
    <3>3. q = p
      BY <3>1, <3>2 DEF Piece
    <3>4. QED
      BY <3>2, <3>3
  <2>4. \A s \in stored[c] : s.part \in etags
    BY <1>3, <2>1 DEF Piece
  <2>5. stored[c] = ListedPart(c, pin)
    BY <2>1, <2>2, <2>3
  <2>6. QED
    BY <2>1, <2>4, <2>5
<1>7. QED
  BY <1>1, <1>4, <1>5, <1>6

LEMMA SettleStep == Inv /\ (AbortCopy \/ CompleteCopy) => Inv'
<1> SUFFICES ASSUME Inv, AbortCopy \/ CompleteCopy
             PROVE  Inv'
  OBVIOUS
<1>1. step = "settle"
  BY DEF AbortCopy, CompleteCopy
<1>2. PICK c \in Large : c = Item /\ c = call - 1 /\ c \in Items /\ reported[c] = "none" /\ object[c] = {} /\ Idle
  BY <1>1, InHand
<1>3. call = c + 1
  BY <1>2, ItemFacts DEF Inv, TypeOK
<1>4. /\ step' = NextStep(c + 1)
      /\ UNCHANGED <<poolVars, pin, sending, failure, etags, pending, notDeleted, sourceVars>>
      /\ stored' = stored \/ stored' = [stored EXCEPT ![c] = {}]
      /\ upload' = upload \/ \E u \in {"aborted", "completed"} : upload' = [upload EXCEPT ![c] = u]
  BY <1>2, <1>3 DEF AbortCopy, CompleteCopy, destVars
<1>5. PICK ok \in BOOLEAN :
        /\ Copied(c, ok)
        /\ \/ object' = object /\ ok = FALSE /\ hollow' = hollow
           \/ object' = object /\ hollow' = [hollow EXCEPT ![c] = @ \cup {"copy"}]
           \/ /\ ~failure /\ etags \subseteq {s.part : s \in stored[c]}
              /\ object' = [object EXCEPT ![c] = {s \in stored[c] : s.part \in etags}]
              /\ hollow' = hollow
  BY <1>2 DEF AbortCopy, CompleteCopy, Hollow, destVars
<1>6. /\ object' \in [Items -> SUBSET Stored]
      /\ hollow' \in [Items -> SUBSET {"head", "copy", "delete"}]
      /\ ok => object'[c] # {} \/ "copy" \in hollow'[c]
      /\ object'[c] # {} /\ "head" \notin hollow'[c] =>
           \E v \in 1 .. Current(c) : object'[c] = ListedPart(c, v)
      /\ \A k \in Items : k # c => object'[k] = object[k] /\ hollow'[k] = hollow[k]
  <2>1. CASE \/ object' = object /\ ok = FALSE /\ hollow' = hollow
             \/ object' = object /\ hollow' = [hollow EXCEPT ![c] = @ \cup {"copy"}]
    BY <1>2, <2>1 DEF Inv, TypeOK
  <2>2. CASE /\ ~failure /\ etags \subseteq {s.part : s \in stored[c]}
             /\ object' = [object EXCEPT ![c] = {s \in stored[c] : s.part \in etags}]
             /\ hollow' = hollow
    <3>1. PICK S \in SUBSET Stored :
            /\ S = {s \in stored[c] : s.part \in etags}
            /\ S # {}
            /\ "head" \notin hollow[c] => S = ListedPart(c, pin) /\ pin \in 1 .. Current(c)
      BY <1>1, <1>2, <2>2, Assembled
    <3>2. object' = [object EXCEPT ![c] = S]
      BY <2>2, <3>1
    <3>3. object' \in [Items -> SUBSET Stored] /\ object'[c] = S
      BY <1>2, <3>1, <3>2 DEF Inv, TypeOK
    <3>4. QED
      BY <2>2, <3>1, <3>2, <3>3 DEF Inv, TypeOK
  <2>3. QED
    BY <1>5, <2>1, <2>2
<1>7. /\ Idle' /\ (active \ sending)' = {} /\ call' = c + 1
      /\ \A i \in Large : i > c => stored'[i] = {}
  <2>1. \A i \in Large : i > c => stored[i] = {}
    BY <1>2 DEF Inv, InHandInv
  <2>2. \A i \in Large : i > c => stored'[i] = {}
    BY <1>4, <2>1 DEF Inv, TypeOK
  <2>3. QED
    BY <1>2, <1>3, <1>4, <2>2 DEF Idle, poolVars
<1>8. /\ step' \in {"head", "small"} /\ call' \in 1 .. (Len(PartsOf) + 2) /\ running' \in BOOLEAN
      /\ PoolInv' /\ InHandInv' /\ Ended(c)'
      /\ \A i \in Items : Ended(i)' <=> (i \in Large /\ i <= c)
  BY <1>4, <1>7, GoOn
<1>9. \A k \in Items : k # c => (Ended(k)' <=> Ended(k))
  <2>1. \A k \in Items : Ended(k) <=> (k \in Large /\ k < c)
    BY <1>1, <1>2 DEF Ended
  <2>2. \A k \in Large : k \in Int
    BY ItemFacts
  <2>3. QED
    BY <1>8, <2>1, <2>2
<1>10. /\ reported' \in [Items -> {"none", "ok", "failed"}]
       /\ moved' \subseteq Items /\ moved \subseteq moved'
       /\ \A k \in Items : ItemInv(k)'
  BY <1>2, <1>4, <1>5, <1>6, <1>8, <1>9, EndOfCopy DEF sourceVars
<1>11. TypeOK'
  <2>1. /\ stored' \in [Large -> SUBSET Stored]
        /\ upload' \in [Large -> {"none", "open", "aborted", "completed"}]
    BY <1>4 DEF Inv, TypeOK
  <2>2. QED
    BY <1>4, <1>6, <1>8, <1>10, <2>1 DEF Inv, TypeOK, poolVars, sourceVars
<1>12. DeleteInv'
  BY <1>1, <1>4, <1>8, <1>10, NoDeletionYet DEF sourceVars
<1>13. QED
  BY <1>8, <1>10, <1>11, <1>12 DEF Inv

-----------------------------------------------------------------------------
(* The workers, the small items, and the removal of the sources. *)

LEMMA TakeStep == ASSUME Inv, NEW j \in Jobs, TakeJob(j) PROVE Inv'
<1>1. /\ j \in todo /\ todo' = todo \ {j} /\ active' = active \cup {j}
      /\ step \in {"pool", "small"} /\ step' = step
      /\ UNCHANGED <<call, running, finished, pin, failure, etags, outcomeVars, sourceVars, destVars>>
      /\ sending' = IF j.part # 0 /\ failure THEN sending ELSE sending \cup {j}
  BY DEF TakeJob, Pool!Take
<1>2. Item' = Item
  BY <1>1 DEF Item
<1>3. TypeOK'
  <2>1. todo' \subseteq Jobs /\ active' \subseteq Jobs /\ sending' \subseteq active'
    BY <1>1 DEF Inv, TypeOK
  <2>2. QED
    BY <1>1, <2>1 DEF Inv, TypeOK, outcomeVars, sourceVars, destVars
<1>4. PoolInv'
  <2>1. \A k \in active' \ sending' : k.part # 0 /\ failure'
    BY <1>1 DEF Inv, PoolInv
  <2>2. CASE step = "pool" /\ call \in Large /\ At(PartJobs(call))
    <3>1. PartJobs(call)' = PartJobs(call)
      BY <1>1 DEF PartJobs
    <3>2. At(PartJobs(call))'
      BY <1>1, <2>2, <3>1 DEF At
    <3>3. QED
      BY <1>1, <2>1, <2>2, <3>2 DEF PoolInv
  <2>3. CASE step = "small" /\ call = N + 1 /\ At(SmallJobs)
    <3>1. At(SmallJobs)'
      BY <1>1, <2>3 DEF At
    <3>2. QED
      BY <1>1, <2>1, <2>3, <3>1 DEF PoolInv
  <2>4. QED
    BY <1>1, <2>2, <2>3, UnderWay
<1>5. InHandInv'
  <2>1. Current(Item)' = Current(Item)
    BY <1>1, <1>2 DEF Current, sourceVars
  <2>2. QED
    BY <1>1, <1>2, <2>1 DEF Inv, InHandInv, destVars
<1>6. \A i \in Items : ItemInv(i)'
  <2>1. \A i \in Items : Ended(i)' <=> Ended(i)
    BY <1>1, <1>2 DEF Ended
  <2>2. QED
    BY <1>1, <2>1, SameItem DEF Inv, sourceVars, outcomeVars, destVars
<1>7. DeleteInv'
  BY <1>1, NoDeletionYet DEF sourceVars, outcomeVars
<1>8. QED
  BY <1>3, <1>4, <1>5, <1>6, <1>7 DEF Inv

LEMMA StartSmallStep == Inv /\ StartSmall => Inv'
<1> SUFFICES ASSUME Inv, StartSmall
             PROVE  Inv'
  OBVIOUS
<1>1. /\ step = "small" /\ call = N + 1 /\ running = FALSE
  BY DEF StartSmall, Pool!StartCall, Inv, PoolInv, TypeOK
<1>2. Idle
  BY <1>1 DEF Inv, PoolInv, At
<1>3. /\ running' = TRUE /\ todo' = SmallJobs
      /\ UNCHANGED <<call, active, finished, copyVars, outcomeVars, sourceVars, destVars>>
  BY <1>1, CallFacts DEF StartSmall, Pool!StartCall
<1>4. step' = step /\ Item' = Item
  BY <1>3 DEF Item, copyVars
<1>5. TypeOK'
  <2>1. running' \in BOOLEAN
    BY <1>3
  <2>2. QED
    BY <1>3, <2>1, SmallJobFacts DEF Inv, TypeOK, copyVars, outcomeVars, sourceVars, destVars
<1>6. PoolInv'
  BY <1>1, <1>2, <1>3, <1>4 DEF PoolInv, Idle, At
<1>7. InHandInv'
  <2>1. Current(Item)' = Current(Item)
    BY <1>3, <1>4 DEF Current, sourceVars
  <2>2. QED
    BY <1>1, <1>3, <1>4, <2>1 DEF Inv, InHandInv, copyVars, destVars
<1>8. \A i \in Items : ItemInv(i)'
  <2>1. \A i \in Items : Ended(i)' <=> Ended(i)
    BY <1>3, <1>4 DEF Ended
  <2>2. QED
    BY <1>3, <2>1, SameItem DEF Inv, sourceVars, outcomeVars, destVars
<1>9. DeleteInv'
  BY <1>1, <1>3, <1>4, NoDeletionYet DEF sourceVars, outcomeVars
<1>10. QED
  BY <1>5, <1>6, <1>7, <1>8, <1>9 DEF Inv

LEMMA CopySmallStep == ASSUME Inv, NEW j \in Jobs, CopySmall(j) PROVE Inv'
<1>1. /\ j \in sending /\ j.part = 0 /\ Pool!Complete(j) /\ step' = step
      /\ sending' = sending \ {j}
      /\ UNCHANGED <<pin, failure, etags, pending, notDeleted, sourceVars, upload, stored>>
  BY DEF CopySmall
<1>2. /\ active' = active \ {j} /\ finished' = finished \cup {j} /\ j \notin finished
      /\ call' = call /\ running' = running
      /\ todo' \subseteq Jobs /\ active' \subseteq Jobs /\ finished' \subseteq Jobs
      /\ step = "small" /\ At(SmallJobs)' /\ call = N + 1 /\ j \in SmallJobs
  <2>1. step # "pool"
    BY <1>1, CompleteStep, PartJobFacts
  <2>2. QED
    BY <1>1, <2>1, CompleteStep
<1>3. PICK i \in Small : i = j.item /\ j = Job(i, 0) /\ i \in Items /\ i \notin Large
  BY <1>2, SmallJobFacts, ItemFacts
<1>4. /\ reported[i] = "none" /\ Ended(i)' /\ object[i] = {}
      /\ \A k \in Items : k # i => (Ended(k)' <=> Ended(k))
  <2>1. ~Ended(i)
    BY <1>2, <1>3 DEF Ended
  <2>2. Ended(i)'
    BY <1>1, <1>2, <1>3 DEF Ended
  <2>3. \A k \in Items : k # i => Job(k, 0) # j
    BY <1>3 DEF Job
  <2>4. Item' = Item
    BY <1>1, <1>2 DEF Item
  <2>5. \A k \in Items : k # i => (Ended(k)' <=> Ended(k))
    BY <1>1, <1>2, <2>3, <2>4 DEF Ended
  <2>6. QED
    BY <1>3, <2>1, <2>2, <2>5 DEF Inv, ItemInv
<1>5. PICK n \in Nat \ {0}, size \in Nat : n = Current(i) /\ size = versions[i][n]
  <2>1. versions[i] \in Seq(Nat) /\ Len(versions[i]) \in 1 .. MaxVersions
    BY <1>3 DEF Inv, TypeOK, ItemInv
  <2>2. QED
    BY <2>1, CopyAssumption DEF Current
<1>6. PICK S \in SUBSET Stored :
        S = {Piece(n, p) : p \in Pieces(size)} /\ S # {}
  <2> DEFINE T == {Piece(n, p) : p \in Pieces(size)}
  <2>1. Pieces(size) \subseteq Nat /\ Pieces(size) # {}
    BY <1>5 DEF Pieces
  <2>2. \A p \in Nat : Piece(n, p) \in Stored
    BY DEF Piece, Stored
  <2>3. T \in SUBSET Stored /\ T # {}
    BY <2>1, <2>2
  <2>4. QED
    BY <2>3
<1>7. S = ListedPart(i, n) /\ n \in 1 .. Current(i)
  <2>1. n \in 1 .. Current(i)
    BY <1>5
  <2>2. S = ListedPart(i, n)
    BY <1>3, <1>5, <1>6 DEF ListedPart, CopyOf
  <2>3. QED
    BY <2>1, <2>2
<1>8. PICK ok \in BOOLEAN :
        /\ Copied(i, ok)
        /\ \/ object' = object /\ ok = FALSE /\ hollow' = hollow
           \/ object' = object /\ hollow' = [hollow EXCEPT ![i] = @ \cup {"copy"}]
           \/ object' = [object EXCEPT ![i] = S] /\ hollow' = hollow
  <2>1. S = {Piece(Current(i), p) : p \in Pieces(versions[i][Current(i)])}
    BY <1>5, <1>6
  <2> DEFINE T == {Piece(Current(i), p) : p \in Pieces(versions[i][Current(i)])}
  <2>2. CASE Copied(i, FALSE) /\ UNCHANGED <<object, hollow>>
    BY <2>2
  <2>3. CASE /\ object' = [object EXCEPT ![i] = T] /\ \E ok \in BOOLEAN : Copied(i, ok)
             /\ UNCHANGED hollow
    BY <2>1, <2>3
  <2>4. CASE Copied(i, TRUE) /\ Hollow(i, "copy") /\ UNCHANGED object
    BY <2>4 DEF Hollow
  <2>5. \/ /\ object' = [object EXCEPT ![i] = T] /\ \E ok \in BOOLEAN : Copied(i, ok)
           /\ UNCHANGED hollow
        \/ Copied(i, FALSE) /\ UNCHANGED <<object, hollow>>
        \/ Copied(i, TRUE) /\ Hollow(i, "copy") /\ UNCHANGED object
    <3> DEFINE Copies(k) ==
          \/ /\ object' = [object EXCEPT ![k] =
                  {Piece(Current(k), p) : p \in Pieces(versions[k][Current(k)])}]
             /\ \E ok \in BOOLEAN : Copied(k, ok)
             /\ UNCHANGED hollow
          \/ Copied(k, FALSE) /\ UNCHANGED <<object, hollow>>
          \/ Copied(k, TRUE) /\ Hollow(k, "copy") /\ UNCHANGED object
    <3>1. Copies(j.item)
      BY Zenon DEF CopySmall
    <3> HIDE DEF Copies
    <3>2. Copies(i)
      BY <1>3, <3>1, Zenon
    <3>3. QED
      BY <3>2, Zenon DEF Copies
  <2>6. QED
    BY <2>2, <2>3, <2>4, <2>5
<1>9. /\ object' \in [Items -> SUBSET Stored]
      /\ hollow' \in [Items -> SUBSET {"head", "copy", "delete"}]
      /\ ok => object'[i] # {} \/ "copy" \in hollow'[i]
      /\ object'[i] # {} => \E v \in 1 .. Current(i) : object'[i] = ListedPart(i, v)
      /\ \A k \in Items : k # i => object'[k] = object[k] /\ hollow'[k] = hollow[k]
      /\ \A k \in Items : hollow[k] \subseteq hollow'[k]
  <2>1. CASE \/ object' = object /\ ok = FALSE /\ hollow' = hollow
             \/ object' = object /\ hollow' = [hollow EXCEPT ![i] = @ \cup {"copy"}]
    <3>1. /\ hollow' \in [Items -> SUBSET {"head", "copy", "delete"}]
          /\ \A k \in Items : hollow[k] \subseteq hollow'[k]
          /\ \A k \in Items : k # i => hollow'[k] = hollow[k]
      <4>1. CASE hollow' = hollow
        BY <4>1 DEF Inv, TypeOK
      <4>2. CASE hollow' = [hollow EXCEPT ![i] = @ \cup {"copy"}]
        BY <1>3, <4>2, MisledOnce
      <4>3. QED
        BY <2>1, <4>1, <4>2
    <3>2. ok => "copy" \in hollow'[i]
      <4>1. CASE ok = FALSE
        BY <4>1
      <4>2. CASE hollow' = [hollow EXCEPT ![i] = @ \cup {"copy"}]
        <5>1. "copy" \in hollow'[i]
          BY <1>3, <4>2, MisledOnce
        <5>2. QED
          BY <5>1
      <4>3. QED
        BY <2>1, <4>1, <4>2
    <3>3. object' = object /\ object' \in [Items -> SUBSET Stored] /\ object'[i] = {}
      BY <1>4, <2>1 DEF Inv, TypeOK
    <3>4. QED
      BY <3>1, <3>2, <3>3
  <2>2. CASE object' = [object EXCEPT ![i] = S] /\ hollow' = hollow
    <3>1. object'[i] = S /\ object' \in [Items -> SUBSET Stored]
      BY <1>3, <2>2 DEF Inv, TypeOK
    <3>2. QED
      BY <1>6, <1>7, <2>2, <3>1 DEF Inv, TypeOK
  <2>3. QED
    BY <1>8, <2>1, <2>2
<1>10. /\ reported' \in [Items -> {"none", "ok", "failed"}]
       /\ moved' \subseteq Items /\ moved \subseteq moved'
       /\ \A k \in Items : ItemInv(k)'
  BY <1>1, <1>3, <1>4, <1>8, <1>9, EndOfCopy DEF sourceVars
<1>11. TypeOK'
  <2>1. sending' \subseteq active'
    BY <1>1, <1>2 DEF Inv, TypeOK
  <2>2. QED
    BY <1>1, <1>2, <1>9, <1>10, <2>1 DEF Inv, TypeOK, sourceVars
<1>12. PoolInv'
  <2>1. \A k \in active' \ sending' : k.part # 0 /\ failure'
    BY <1>1, <1>2 DEF Inv, PoolInv
  <2>2. QED
    BY <1>1, <1>2, <2>1 DEF PoolInv
<1>13. InHandInv'
  <2>1. Item' = Item
    BY <1>1, <1>2 DEF Item
  <2>2. QED
    BY <1>1, <1>2, <2>1 DEF Inv, InHandInv
<1>14. DeleteInv'
  BY <1>1, <1>2, <1>10, NoDeletionYet DEF sourceVars
<1>15. QED
  BY <1>10, <1>11, <1>12, <1>13, <1>14 DEF Inv

(* The batches cover the keys to delete: there are enough numbers. *)
LEMMA BatchesCover ==
  ASSUME Inv, NEW i \in moved
  PROVE  /\ \E n \in 0 .. (N + Smalls) : i \in Batch(n)
         /\ \A n \in Nat : Batch(n) \subseteq moved
<1>1. /\ N \in Nat /\ Smalls \in Nat /\ moved \subseteq 1 .. (N + Smalls) /\ MaxKeys \in Nat \ {0}
  BY ItemFacts, CopyAssumption DEF Inv, TypeOK
<1>2. IsFiniteSet(1 .. (N + Smalls)) /\ Cardinality(1 .. (N + Smalls)) = N + Smalls
  BY <1>1, FS_Interval
<1>3. {k \in moved : k < i} \in SUBSET (1 .. (N + Smalls))
  BY <1>1
<1>4. Rank(i) \in Nat /\ Rank(i) <= N + Smalls
  <2>1. IsFiniteSet({k \in moved : k < i}) /\ Rank(i) <= N + Smalls
    BY <1>2, <1>3, FS_Subset DEF Rank
  <2>2. Rank(i) \in Nat
    BY <2>1, FS_CardinalityType DEF Rank
  <2>3. QED
    BY <2>1, <2>2
<1>5. PICK r \in Nat : r = Rank(i) /\ r <= N + Smalls
  BY <1>4
<1>6. PICK q \in Nat : q = r \div MaxKeys /\ q * MaxKeys <= r
  BY <1>1
<1>7. q <= q * MaxKeys
  BY <1>1
<1>8. q \in 0 .. (N + Smalls)
  <2>1. q * MaxKeys \in Nat
    BY <1>1
  <2>2. QED
    BY <1>1, <1>5, <1>6, <1>7, <2>1
<1>9. i \in Batch(q)
  BY <1>5, <1>6 DEF Batch
<1>10. QED
  BY <1>8, <1>9 DEF Batch

LEMMA EndSmallStep == Inv /\ EndSmall => Inv'
<1> SUFFICES ASSUME Inv, EndSmall
             PROVE  Inv'
  OBVIOUS
<1>1. /\ step = "small" /\ step' = "delete" /\ call = N + 1
      /\ pending' = {Batch(n) : n \in 0 .. (N + Smalls)} \ {{}}
      /\ UNCHANGED <<pin, sending, failure, etags, moved, reported, notDeleted, sourceVars, destVars>>
  BY DEF EndSmall, Inv, PoolInv, N
<1>2. N \in Nat /\ Smalls \in Nat
  BY ItemFacts
<1>3. call' = N + 2 /\ Idle' /\ (finished = SmallJobs \/ (SmallJobs = {} /\ ~running))
  <2>1. CASE Pool!ReturnCall
    BY <1>1, <1>2, <2>1, CallFacts DEF Pool!ReturnCall, Idle
  <2>2. CASE Pool!SkipEmpty
    <3>1. Calls[N + 1] = {} /\ ~running
      BY <1>1, <2>2 DEF Pool!SkipEmpty
    <3>2. Idle
      BY <1>1, <3>1 DEF Inv, PoolInv, At
    <3>3. call' = N + 2 /\ UNCHANGED <<running, todo, active, finished>>
      BY <1>1, <1>2, <2>2 DEF Pool!SkipEmpty
    <3>4. QED
      BY <3>1, <3>2, <3>3, CallFacts DEF Idle
  <2>3. QED
    BY <2>1, <2>2 DEF EndSmall
<1>4. pending' \subseteq SUBSET moved
  BY <1>1 DEF Batch
<1>5. TypeOK'
  <2>1. call' \in 1 .. (Len(PartsOf) + 2)
    BY <1>2, <1>3 DEF N
  <2>2. /\ running' \in BOOLEAN /\ todo' \subseteq Jobs /\ active' \subseteq Jobs /\ finished' \subseteq Jobs
        /\ sending' \subseteq active'
    <3>1. running' = FALSE /\ todo' = {} /\ active' = {} /\ finished' = {}
      BY <1>3 DEF Idle
    <3>2. active = {}
      BY <1>1 DEF EndSmall, Pool!ReturnCall, Pool!SkipEmpty, Inv, PoolInv, Idle, At
    <3>3. QED
      BY <1>1, <3>1, <3>2 DEF Inv, TypeOK
  <2>3. pending' \subseteq SUBSET Items
    BY <1>4 DEF Inv, TypeOK
  <2>4. QED
    BY <1>1, <2>1, <2>2, <2>3 DEF Inv, TypeOK, sourceVars, destVars
<1>6. PoolInv'
  BY <1>1, <1>3 DEF PoolInv, Idle
<1>7. Item' = N + 2
  BY <1>1, <1>3 DEF Item
<1>8. InHandInv'
  BY <1>1, <1>2, <1>7, ItemFacts DEF InHandInv
<1>9. ASSUME NEW i \in Items
      PROVE  ItemInv(i)'
  <2>1. Ended(i)
    <3>1. CASE i \in Large
      BY <1>1, <1>2, <3>1, ItemFacts DEF Ended, Item
    <3>2. CASE i \in Small
      <4>1. Job(i, 0) \in SmallJobs
        BY <3>2, SmallJobFacts
      <4>2. i \notin Large
        BY <3>2, ItemFacts
      <4>3. QED
        BY <1>1, <1>3, <4>1, <4>2 DEF Ended
    <3>3. QED
      BY <3>1, <3>2, ItemFacts
  <2>2. Ended(i)'
    BY <1>1, <1>2, <1>7, ItemFacts DEF Ended
  <2>3. QED
    BY <1>1, <2>1, <2>2, SameItem DEF Inv, sourceVars, destVars
<1>10. DeleteInv'
  <2>1. \A i \in moved : i \in UNION pending'
    <3>1. ASSUME NEW i \in moved
          PROVE  i \in UNION pending'
      <4>1. PICK n \in 0 .. (N + Smalls) : i \in Batch(n)
        BY BatchesCover
      <4>2. Batch(n) \in pending'
        BY <1>1, <4>1
      <4>3. QED
        BY <4>1, <4>2
    <3>2. QED
      BY <3>1
  <2>2. QED
    BY <1>1, <1>4, <2>1 DEF DeleteInv
<1>11. QED
  BY <1>5, <1>6, <1>8, <1>9, <1>10 DEF Inv

LEMMA DeleteStep == ASSUME Inv, NEW keys \in pending, DeleteBatch(keys) PROVE Inv'
<1>1. /\ step = "delete"
      /\ pending' = pending \ {keys}
      /\ UNCHANGED <<poolVars, copyVars, moved, reported, versions, upload, stored, object>>
      /\ step' = step
  BY DEF DeleteBatch, copyVars
<1>2. keys \subseteq moved /\ keys \subseteq Items
  BY DEF Inv, TypeOK, DeleteInv
<1>3. PICK gone \in SUBSET keys :
        /\ \A i \in Items : present'[i] = (present[i] /\ i \notin gone)
        /\ present' \in [Items -> BOOLEAN]
        /\ notDeleted \subseteq notDeleted' /\ notDeleted' \subseteq notDeleted \cup keys
        /\ hollow' \in [Items -> SUBSET {"head", "copy", "delete"}]
        /\ \A i \in Items : hollow[i] \subseteq hollow'[i]
        /\ \A i \in keys : i \in gone \/ i \in notDeleted' \/ "delete" \in hollow'[i]
  <2>1. CASE /\ \E gone \in SUBSET keys : \E confirmed \in SUBSET gone :
                  /\ present' = [i \in Items |-> present[i] /\ i \notin gone]
                  /\ notDeleted' = notDeleted \cup (keys \ confirmed)
             /\ UNCHANGED hollow
    <3>1. PICK gone \in SUBSET keys, confirmed \in SUBSET keys :
            /\ confirmed \subseteq gone
            /\ present' = [i \in Items |-> present[i] /\ i \notin gone]
            /\ notDeleted' = notDeleted \cup (keys \ confirmed)
            /\ hollow' = hollow
      BY <2>1
    <3>2. /\ \A i \in Items : present'[i] = (present[i] /\ i \notin gone)
          /\ present' \in [Items -> BOOLEAN]
      BY <3>1
    <3>3. \A i \in keys : i \in gone \/ i \in notDeleted'
      BY <3>1
    <3>4. QED
      BY <3>1, <3>2, <3>3 DEF Inv, TypeOK
  <2>2. CASE /\ Cardinality(moved) = 1
             /\ \E i \in keys : Hollow(i, "delete")
             /\ UNCHANGED <<present, notDeleted>>
    <3>1. PICK i \in keys : hollow' = [hollow EXCEPT ![i] = @ \cup {"delete"}]
      BY <2>2 DEF Hollow
    <3>2. keys = {i}
      <4>1. PICK m : moved = {m}
        <5>1. IsFiniteSet(moved)
          <6>1. IsFiniteSet(Items)
            BY ItemFacts, FS_Interval
          <6>2. QED
            BY <6>1, FS_Subset DEF Inv, TypeOK
        <5>2. QED
          BY <2>2, <5>1, FS_Singleton
      <4>2. QED
        BY <1>2, <3>1, <4>1
    <3>3. i \in Items
      BY <1>2, <3>1
    <3>4. /\ hollow' \in [Items -> SUBSET {"head", "copy", "delete"}]
          /\ \A k \in Items : hollow[k] \subseteq hollow'[k]
          /\ "delete" \in hollow'[i]
      BY <3>1, <3>3, MisledOnce
    <3>5. /\ \A k \in Items : present'[k] = (present[k] /\ k \notin {})
          /\ present' \in [Items -> BOOLEAN]
      BY <2>2 DEF Inv, TypeOK
    <3>6. /\ notDeleted \subseteq notDeleted' /\ notDeleted' \subseteq notDeleted \cup keys
          /\ \A k \in keys : k \in {} \/ k \in notDeleted' \/ "delete" \in hollow'[k]
          /\ {} \in SUBSET keys
      BY <2>2, <3>2, <3>4
    <3>7. QED
      BY <3>4, <3>5, <3>6, Zenon
  <2>3. \/ /\ \E gone \in SUBSET keys : \E confirmed \in SUBSET gone :
                /\ present' = [i \in Items |-> present[i] /\ i \notin gone]
                /\ notDeleted' = notDeleted \cup (keys \ confirmed)
           /\ UNCHANGED hollow
        \/ /\ Cardinality(moved) = 1
           /\ \E i \in keys : Hollow(i, "delete")
           /\ UNCHANGED <<present, notDeleted>>
    BY Zenon DEF DeleteBatch
  <2>4. QED
    BY <2>1, <2>2, <2>3, Zenon
<1>4. Item' = Item
  BY <1>1 DEF Item, poolVars
<1>6. TypeOK'
  <2>1. notDeleted' \subseteq moved'
    BY <1>1, <1>2, <1>3 DEF Inv, TypeOK
  <2>2. QED
    BY <1>1, <1>3, <2>1 DEF Inv, TypeOK, poolVars, copyVars
<1>7. PoolInv'
  BY <1>1 DEF Inv, PoolInv, Idle, poolVars, copyVars
<1>8. InHandInv'
  BY <1>1, <1>4 DEF Inv, InHandInv, copyVars
<1>9. ASSUME NEW i \in Items
      PROVE  ItemInv(i)'
  <2>1. Ended(i)' <=> Ended(i)
    BY <1>1, <1>4 DEF Ended, poolVars
  <2>2. \A v : ListedPart(i, v)' = ListedPart(i, v)
    BY <1>1 DEF ListedPart, CopyOf
  <2>3. Current(i)' = Current(i)
    BY <1>1 DEF Current
  <2>4. ~present'[i] => i \in moved'
    BY <1>1, <1>2, <1>3 DEF Inv, ItemInv
  <2>5. QED
    BY <1>1, <1>3, <2>1, <2>2, <2>3, <2>4 DEF Inv, ItemInv
<1>10. DeleteInv'
  <2>1. ASSUME NEW i \in moved
        PROVE  i \in UNION pending' \/ i \in notDeleted' \/ ~present'[i] \/ "delete" \in hollow'[i]
    <3>1. i \in Items
      BY DEF Inv, TypeOK
    <3>2. CASE i \in keys
      BY <1>3, <3>1, <3>2
    <3>3. CASE i \notin keys
      <4>1. i \in UNION pending \/ i \in notDeleted \/ ~present[i] \/ "delete" \in hollow[i]
        BY <1>1 DEF Inv, DeleteInv
      <4>2. i \in UNION pending => i \in UNION pending'
        BY <1>1, <3>3
      <4>3. QED
        BY <1>3, <3>1, <4>1, <4>2
    <3>4. QED
      BY <3>2, <3>3
  <2>2. QED
    BY <1>1, <2>1 DEF Inv, DeleteInv
<1>11. QED
  BY <1>6, <1>7, <1>8, <1>9, <1>10 DEF Inv

LEMMA FinishStep == Inv /\ Finish => Inv'
<1> SUFFICES ASSUME Inv, Finish
             PROVE  Inv'
  OBVIOUS
<1>1. /\ step = "delete" /\ step' = "done" /\ pending = {}
      /\ UNCHANGED <<poolVars, pin, sending, failure, etags, outcomeVars, sourceVars, destVars>>
  BY DEF Finish
<1>2. Item = call /\ Item' = call
  BY <1>1 DEF Item, poolVars
<1>3. TypeOK'
  BY <1>1 DEF Inv, TypeOK, poolVars, outcomeVars, sourceVars, destVars
<1>4. PoolInv'
  BY <1>1 DEF Inv, PoolInv, Idle, poolVars
<1>5. InHandInv'
  BY <1>1, <1>2 DEF Inv, InHandInv, destVars
<1>6. \A i \in Items : ItemInv(i)'
  <2>1. \A i \in Items : Ended(i)' <=> Ended(i)
    BY <1>1, <1>2 DEF Ended, poolVars
  <2>2. QED
    BY <1>1, <2>1, SameItem DEF Inv, sourceVars, outcomeVars, destVars
<1>7. DeleteInv'
  BY <1>1 DEF Inv, DeleteInv, outcomeVars, sourceVars, destVars
<1>8. QED
  BY <1>3, <1>4, <1>5, <1>6, <1>7 DEF Inv

(* A replaced source keeps its earlier versions, the pinned one included. *)
LEMMA ReplaceStep == ASSUME Inv, NEW r \in Items, Replace(r) PROVE Inv'
<1>1. PICK size \in NewSizes : versions' = [versions EXCEPT ![r] = Append(@, size)]
  BY DEF Replace
<1>2. /\ step # "done" /\ present[r] /\ Current(r) < MaxVersions
      /\ UNCHANGED <<poolVars, copyVars, outcomeVars, present, destVars>>
      /\ size \in Nat /\ MaxVersions \in Nat
      /\ step' = step /\ Item' = Item
  BY CopyAssumption DEF Replace, Item, poolVars, copyVars
<1>3. ASSUME NEW i \in Items
      PROVE  /\ versions'[i] \in Seq(Nat)
             /\ Current(i) \in Nat /\ Current(i)' \in 1 .. MaxVersions /\ Current(i) <= Current(i)'
             /\ \A v \in 1 .. Current(i) : versions'[i][v] = versions[i][v]
  <2>1. PICK s \in Seq(Nat) : s = versions[i] /\ Len(s) \in 1 .. MaxVersions
    BY DEF Inv, TypeOK, ItemInv
  <2>2. CASE i = r
    <3>1. versions'[i] = Append(s, size) /\ Len(s) < MaxVersions
      BY <1>1, <1>2, <2>1, <2>2 DEF Inv, TypeOK, Current
    <3>2. /\ Append(s, size) \in Seq(Nat) /\ Len(Append(s, size)) = Len(s) + 1
          /\ \A v \in 1 .. Len(s) : Append(s, size)[v] = s[v]
      BY <1>2
    <3>3. QED
      BY <1>2, <2>1, <3>1, <3>2 DEF Current
  <2>3. CASE i # r
    <3>1. versions'[i] = s
      BY <1>1, <2>1, <2>3 DEF Inv, TypeOK
    <3>2. QED
      BY <1>2, <2>1, <3>1 DEF Current
  <2>4. QED
    BY <2>2, <2>3
<1>4. ASSUME NEW i \in Items, NEW v \in 1 .. Current(i)
      PROVE  ListedPart(i, v)' = ListedPart(i, v) /\ v \in 1 .. Current(i)'
  <2>1. versions'[i][v] = versions[i][v]
    BY <1>3
  <2>2. CopyOf(i, v)' = CopyOf(i, v)
    BY <2>1 DEF CopyOf
  <2>3. v \in 1 .. Current(i)'
    BY <1>3
  <2>4. QED
    BY <2>2, <2>3 DEF ListedPart
<1>5. TypeOK'
  <2>1. versions' \in [Items -> Seq(Nat)]
    BY <1>1, <1>3 DEF Inv, TypeOK
  <2>2. QED
    BY <1>2, <2>1 DEF Inv, TypeOK, poolVars, copyVars, outcomeVars, destVars
<1>6. PoolInv'
  <2>1. At(PartJobs(call))' <=> At(PartJobs(call))
    BY <1>2 DEF At, PartJobs, poolVars
  <2>2. At(SmallJobs)' <=> At(SmallJobs)
    BY <1>2 DEF At, poolVars
  <2>3. Idle' <=> Idle
    BY <1>2 DEF Idle, poolVars
  <2>4. QED
    BY <1>2, <2>1, <2>2, <2>3 DEF Inv, PoolInv, poolVars, copyVars
<1>7. InHandInv'
  <2>1. step \in {"create", "pool", "settle"} => pin \in 1 .. Current(Item)' \/ "head" \in hollow[Item]
    <3>1. ASSUME step \in {"create", "pool", "settle"}
          PROVE  pin \in 1 .. Current(Item)' \/ "head" \in hollow[Item]
      <4>1. PICK c \in Items : c = Item /\ c = Item'
        BY <1>2, <3>1, InHand
      <4>2. pin \in 1 .. Current(c) \/ "head" \in hollow[Item]
        BY <3>1, <4>1 DEF Inv, InHandInv
      <4>3. pin \in 1 .. Current(c)' \/ "head" \in hollow[Item]
        BY <1>4, <4>2
      <4>4. QED
        BY <4>1, <4>3 DEF Current
    <3>2. QED
      BY <3>1
  <2>2. QED
    BY <1>2, <2>1 DEF Inv, InHandInv, destVars, copyVars, poolVars
<1>8. ASSUME NEW i \in Items
      PROVE  ItemInv(i)'
  <2>1. Ended(i)' <=> Ended(i)
    BY <1>2 DEF Ended, poolVars
  <2>2. ItemInv(i)
    BY DEF Inv
  <2>3. object[i] # {} /\ "head" \notin hollow[i] =>
          \E v \in 1 .. Current(i)' : object[i] = ListedPart(i, v)'
    BY <1>4, <2>2 DEF ItemInv
  <2>4. Len(versions[i])' \in 1 .. MaxVersions
    BY <1>3 DEF Current
  <2>5. QED
    BY <1>2, <2>1, <2>2, <2>3, <2>4 DEF ItemInv, outcomeVars, destVars
<1>9. DeleteInv'
  BY <1>2 DEF Inv, DeleteInv, outcomeVars, destVars
<1>10. QED
  BY <1>5, <1>6, <1>7, <1>8, <1>9 DEF Inv

-----------------------------------------------------------------------------
(* The theorems. *)

LEMMA NextInv == Inv /\ [Next]_vars => Inv'
<1> SUFFICES ASSUME Inv, [Next]_vars
             PROVE  Inv'
  OBVIOUS
<1>1. CASE HeadSource
  BY <1>1, HeadStep
<1>2. CASE CreateUpload \/ CreateFails
  BY <1>2, CreateStep, CreateFailsStep
<1>3. CASE \E j \in Jobs : TakeJob(j) \/ SkipPart(j) \/ CopyPart(j) \/ CopySmall(j)
  BY <1>3, TakeStep, SkipStep, PartStep, CopySmallStep
<1>4. CASE EndParts
  BY <1>4, EndPartsStep
<1>5. CASE AbortCopy \/ CompleteCopy
  BY <1>5, SettleStep
<1>6. CASE StartSmall \/ EndSmall
  BY <1>6, StartSmallStep, EndSmallStep
<1>7. CASE \E keys \in pending : DeleteBatch(keys)
  BY <1>7, DeleteStep
<1>8. CASE Finish
  BY <1>8, FinishStep
<1>9. CASE \E i \in Items : Replace(i)
  BY <1>9, ReplaceStep
<1>10. CASE UNCHANGED vars
  <2>1. UNCHANGED <<poolVars, copyVars, outcomeVars, sourceVars, destVars>>
    BY <1>10 DEF vars
  <2>2. Item' = Item
    BY <2>1 DEF Item, poolVars, copyVars
  <2>3. TypeOK'
    BY <2>1 DEF Inv, TypeOK, poolVars, copyVars, outcomeVars, sourceVars, destVars
  <2>4. PoolInv'
    <3>1. At(PartJobs(call))' <=> At(PartJobs(call))
      BY <2>1 DEF At, PartJobs, poolVars
    <3>2. At(SmallJobs)' <=> At(SmallJobs)
      BY <2>1 DEF At, poolVars
    <3>3. Idle' <=> Idle
      BY <2>1 DEF Idle, poolVars
    <3>4. QED
      BY <2>1, <3>1, <3>2, <3>3 DEF Inv, PoolInv, poolVars, copyVars
  <2>5. InHandInv'
    <3>1. Current(Item)' = Current(Item)
      BY <2>1, <2>2 DEF Current, sourceVars
    <3>2. QED
      BY <2>1, <2>2, <3>1 DEF Inv, InHandInv, destVars, copyVars, poolVars
  <2>6. \A i \in Items : ItemInv(i)'
    <3>1. \A i \in Items : Ended(i)' <=> Ended(i)
      BY <2>1, <2>2 DEF Ended, poolVars, copyVars
    <3>2. QED
      BY <2>1, <3>1, SameItem DEF Inv, sourceVars, outcomeVars, destVars
  <2>7. DeleteInv'
    BY <2>1 DEF Inv, DeleteInv, copyVars, outcomeVars, sourceVars, destVars
  <2>8. QED
    BY <2>3, <2>4, <2>5, <2>6, <2>7 DEF Inv
<1>11. QED
  BY <1>1, <1>2, <1>3, <1>4, <1>5, <1>6, <1>7, <1>8, <1>9, <1>10 DEF Next, Command

LEMMA InvHolds == Spec => []Inv
BY InitInv, NextInv, PTL DEF Spec

(* Every variable keeps its type: no part is copied for an item that is    *)
(* not large, no source is reported as kept that was not to be removed.    *)
THEOREM TypeCorrect == Spec => []TypeOK
<1>1. Inv => TypeOK
  BY DEF Inv
<1>2. QED
  BY <1>1, InvHolds, PTL

(* No destination is stitched together from two versions of its source,    *)
(* nor left with a hole, however often and whenever sources are replaced,  *)
(* unless the HEAD that pins the version had no ETag in its answer.        *)
THEOREM DestinationsAreOneVersion == Spec => []NeverStitched
<1>1. Inv => NeverStitched
  BY DEF Inv, ItemInv, NeverStitched
<1>2. QED
  BY <1>1, InvHolds, PTL

(* A move never loses an object: what it removed was copied before, unless *)
(* the request that decides the copy was answered below 400 by a service   *)
(* that had copied nothing; no other failure on the way loses one.         *)
THEOREM MovesLoseNothing == Spec => []RemovedWasCopied
<1>1. Inv => RemovedWasCopied
  BY DEF Inv, ItemInv, RemovedWasCopied
<1>2. QED
  BY <1>1, InvHolds, PTL

(* When the command ends and counted no failure, every copy was made and   *)
(* every source of a move is gone, whatever number of batches that took,   *)
(* except where the deciding request was answered hollowly.                *)
THEOREM ExitIsTruthful == Spec => []ExitTellsTruth
<1>1. Inv => ExitTellsTruth
  <2> SUFFICES ASSUME Inv, step = "done", NoFailure, NEW i \in Items
               PROVE  /\ object[i] # {} \/ "copy" \in hollow[i]
                      /\ Move => ~present[i] \/ "delete" \in hollow[i]
    BY DEF ExitTellsTruth
  <2>1. Ended(i)
    BY ItemFacts DEF Inv, PoolInv, Ended, Item
  <2>2. reported[i] = "ok"
    BY <2>1 DEF Inv, TypeOK, ItemInv, NoFailure
  <2>3. (object[i] # {} \/ "copy" \in hollow[i]) /\ (Move => i \in moved)
    BY <2>2 DEF Inv, ItemInv
  <2>4. i \in moved => ~present[i] \/ "delete" \in hollow[i]
    BY DEF Inv, DeleteInv, NoFailure
  <2>5. QED
    BY <2>3, <2>4
<1>2. QED
  BY <1>1, InvHolds, PTL
===============================================================================
