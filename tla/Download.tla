------------------------------- MODULE Download -------------------------------
(***************************************************************************)
(* `download` of s3/transfer.rs, for cp and mv from S3 to local files.     *)
(*                                                                         *)
(* The items were listed with their sizes.  Each large one gets its file   *)
(* first, created and stretched to the listed size.  Then one pool runs a  *)
(* job per small item, which reads the object and writes the file, and per *)
(* range of a large one, which reads the range and writes it in its place; *)
(* a range of an item that already failed is skipped.  When the pool has   *)
(* returned, the file of each large item that failed is removed, and the   *)
(* item is reported.  Meanwhile other clients replace the objects; nothing *)
(* ties the requests for the ranges of one object together.                *)
(*                                                                         *)
(* A file is a function from its units of data to the version they came    *)
(* from, Zero where nothing was written; a range is Chunk units.           *)
(***************************************************************************)
EXTENDS Naturals, Sequences

CONSTANTS
  Sizes,              (* the listed size of each item, in units            *)
  Threshold,          (* multipart_threshold                               *)
  Chunk,              (* the units of a range                              *)
  NewSizes,           (* the sizes of an object that is replaced           *)
  MaxVersions         (* bound: versions of an object                      *)

ASSUME DownloadAssumption ==
  /\ Sizes \in Seq(Nat) /\ Sizes # <<>>
  /\ Threshold \in Nat \ {0}
  /\ Chunk \in Nat \ {0}
  /\ NewSizes \subseteq Nat
  /\ MaxVersions \in Nat \ {0}

Items == DOMAIN Sizes
Large == {i \in Items : Sizes[i] >= Threshold}
Small == Items \ Large

(* The jobs: range 0 stands for a whole small object. *)
Job(i, n) == [item |-> i, range |-> n]
Ranges(i) == 1 .. ((Sizes[i] + Chunk - 1) \div Chunk)
Jobs == {Job(i, 0) : i \in Small} \cup UNION {{Job(i, n) : n \in Ranges(i)} : i \in Large}

Start(j) == (j.range - 1) * Chunk
Units(j) == {u \in (Start(j) + 1) .. (Start(j) + Chunk) : u <= Sizes[j.item]}

Zero == 0
Blank(size) == [u \in 1 .. size |-> Zero]
Filled(size, v) == [u \in 1 .. size |-> v]

VARIABLES
  call, running, todo, active, finished,   (* the pool, see JobBatch       *)
  phase,              (* "open", "pool", "settle", "done", or "error"      *)
  opened,             (* large items whose file is open                    *)
  sending,            (* active jobs that passed the failure check         *)
  failures,           (* large items one of whose ranges failed            *)
  settled,            (* large items that were settled                     *)
  reported,           (* what the user was told about each item            *)
  made,               (* what is at each destination: "before" (what was   *)
                      (* there), "ours" (this command's file), "removed"   *)
  file,               (* the content of that file                          *)
  stuck,              (* history: files that could not be removed          *)
  versions            (* S3: the sizes of each object's versions, so far   *)

poolVars == <<call, running, todo, active, finished>>
clientVars == <<opened, failures, settled, reported, stuck>>
fileVars == <<made, file>>
vars == <<poolVars, clientVars, phase, sending, fileVars, versions>>

Pool == INSTANCE JobBatch WITH Batches <- <<Jobs>>

Smallest(S) == CHOOSE i \in S : \A k \in S : i <= k
Current(i) == Len(versions[i])
SizeNow(i) == versions[i][Current(i)]
Report(i, r) == reported' = [reported EXCEPT ![i] = r]
Put(i, f) ==
  /\ file' = [file EXCEPT ![i] = f]
  /\ made' = [made EXCEPT ![i] = "ours"]
(* remove_file succeeds. *)
Unlink(i) ==
  /\ file' = [file EXCEPT ![i] = Blank(0)]
  /\ made' = [made EXCEPT ![i] = "removed"]

Init ==
  /\ Pool!AbsInit
  /\ phase = "open"
  /\ opened = {}
  /\ sending = {}
  /\ failures = {}
  /\ settled = {}
  /\ reported = [i \in Items |-> "none"]
  /\ made = [i \in Items |-> "before"]
  /\ file = [i \in Items |-> Blank(0)]
  /\ stuck = {}
  /\ versions = [i \in Items |-> <<Sizes[i]>>]

-----------------------------------------------------------------------------
(* The files of the large items, one after another. *)
Next1 == Smallest(Large \ opened)

OpenFile ==
  /\ phase = "open"
  /\ Large \ opened # {}
  /\ opened' = opened \cup {Next1}
  /\ Put(Next1, Blank(Sizes[Next1]))
  /\ UNCHANGED <<poolVars, phase, sending, failures, settled, reported, stuck, versions>>

(* The parent or the file cannot be created, or not be stretched: `?`. *)
OpenFails ==
  /\ phase = "open"
  /\ Large \ opened # {}
  /\ phase' = "error"
  /\ UNCHANGED fileVars \/ Put(Next1, Blank(0))
  /\ UNCHANGED <<poolVars, clientVars, sending, versions>>

StartPool ==
  /\ phase = "open"
  /\ opened = Large
  /\ Pool!StartCall
  /\ phase' = "pool"
  /\ UNCHANGED <<clientVars, sending, fileVars, versions>>

-----------------------------------------------------------------------------
(* The jobs. *)

(* A worker takes a job; a range looks at the failures first. *)
TakeJob(j) ==
  /\ phase = "pool"
  /\ Pool!Take(j)
  /\ sending' = IF j.range # 0 /\ j.item \in failures THEN sending ELSE sending \cup {j}
  /\ UNCHANGED <<clientVars, phase, fileVars, versions>>

SkipRange(j) ==
  /\ j \in active \ sending
  /\ Pool!Complete(j)
  /\ UNCHANGED <<clientVars, phase, sending, fileVars, versions>>

(* get_object: the object as it is then, and std::fs::write, which may     *)
(* leave the file as it was or cut short.                                  *)
GetWhole(j) ==
  /\ j \in sending
  /\ j.range = 0
  /\ Pool!Complete(j)
  /\ sending' = sending \ {j}
  /\ \/ Put(j.item, Filled(SizeNow(j.item), Current(j.item))) /\ Report(j.item, "ok")
     \/ /\ \/ UNCHANGED fileVars
           \/ \E cut \in 0 .. SizeNow(j.item) : Put(j.item, Filled(cut, Current(j.item)))
        /\ Report(j.item, "failed")
  /\ UNCHANGED <<phase, opened, failures, settled, stuck, versions>>

(* The answer holds as much of the range as the object has, and what it    *)
(* holds is written; how much that is, is not looked at.                   *)
Got(j) == {u \in Units(j) : u <= SizeNow(j.item)}
Written(j) ==
  [u \in DOMAIN file[j.item] |-> IF u \in Got(j) THEN Current(j.item) ELSE file[j.item][u]]
Fetched(j) == Got(j) # {} /\ Put(j.item, Written(j))

(* A mutant: a range that could not be written is not remembered. *)
FetchRangeForgetful(j) ==
  /\ j \in sending
  /\ j.range # 0
  /\ Pool!Complete(j)
  /\ sending' = sending \ {j}
  /\ Fetched(j) \/ UNCHANGED fileVars
  /\ UNCHANGED <<phase, clientVars, versions>>

(* A mutant: the range forgets that it was sent. *)
FetchRangeTwice(j) ==
  /\ j \in sending
  /\ j.range # 0
  /\ Pool!Complete(j)
  /\ Fetched(j)
  /\ UNCHANGED <<phase, clientVars, sending, versions>>

(* A range beyond the end is refused.  A failed write may have written. *)
FetchRange(j) ==
  /\ j \in sending
  /\ j.range # 0
  /\ Pool!Complete(j)
  /\ sending' = sending \ {j}
  /\ \/ Fetched(j) /\ UNCHANGED failures
     \/ (Fetched(j) \/ UNCHANGED fileVars) /\ failures' = failures \cup {j.item}
  /\ UNCHANGED <<phase, opened, settled, reported, stuck, versions>>

(* A mutant: the failures are judged while ranges are still under way. *)
EndPoolEarly ==
  /\ phase = "pool"
  /\ todo = {}
  /\ phase' = "settle"
  /\ UNCHANGED <<poolVars, clientVars, sending, fileVars, versions>>

EndPool ==
  /\ phase = "pool"
  /\ Pool!ReturnCall
  /\ phase' = "settle"
  /\ UNCHANGED <<clientVars, sending, fileVars, versions>>

-----------------------------------------------------------------------------
(* The large items are settled in order. *)
InHand == Smallest(Large \ settled)
Settling == phase = "settle" /\ Large \ settled # {} /\ settled' = settled \cup {InHand}

Keep ==
  /\ Settling
  /\ InHand \notin failures
  /\ Report(InHand, "ok")
  /\ UNCHANGED <<poolVars, phase, opened, sending, failures, stuck, fileVars, versions>>

(* A mutant: the file of a failed item stays. *)
RemoveNothing ==
  /\ Settling
  /\ InHand \in failures
  /\ Report(InHand, "failed")
  /\ UNCHANGED <<poolVars, phase, opened, sending, failures, stuck, fileVars, versions>>

(* A mutant: the file of a failed item is removed and the item passed over. *)
RemoveQuietly ==
  /\ Settling
  /\ InHand \in failures
  /\ Unlink(InHand)
  /\ UNCHANGED <<poolVars, phase, opened, sending, failures, reported, stuck, versions>>

(* The result of remove_file is ignored. *)
Remove ==
  /\ Settling
  /\ InHand \in failures
  /\ Report(InHand, "failed")
  /\ \/ Unlink(InHand) /\ UNCHANGED stuck
     \/ stuck' = stuck \cup {InHand} /\ UNCHANGED fileVars
  /\ UNCHANGED <<poolVars, phase, opened, sending, failures, versions>>

Finish ==
  /\ phase = "settle"
  /\ settled = Large
  /\ phase' = "done"
  /\ UNCHANGED <<poolVars, clientVars, sending, fileVars, versions>>

(* External: another client replaces an object. *)
Replace(i) ==
  /\ phase \in {"open", "pool"}
  /\ Current(i) < MaxVersions
  /\ \E size \in NewSizes : versions' = [versions EXCEPT ![i] = Append(@, size)]
  /\ UNCHANGED <<poolVars, clientVars, phase, sending, fileVars>>

Command ==
  \/ OpenFile \/ OpenFails \/ StartPool
  \/ \E j \in Jobs : TakeJob(j) \/ SkipRange(j) \/ GetWhole(j) \/ FetchRange(j)
  \/ EndPool
  \/ Keep \/ Remove
  \/ Finish

Next == Command \/ \E i \in Items : Replace(i)

Spec == Init /\ [][Next]_vars

(* The command goes on: its threads run and its requests end. *)
FairSpec == Spec /\ WF_vars(Command)

-----------------------------------------------------------------------------
(* The type invariant. *)
TypeOK ==
  /\ call \in 1 .. 2
  /\ running \in BOOLEAN
  /\ todo \subseteq Jobs
  /\ active \subseteq Jobs
  /\ finished \subseteq Jobs
  /\ phase \in {"open", "pool", "settle", "done", "error"}
  /\ opened \subseteq Large
  /\ sending \subseteq active
  /\ failures \subseteq Large
  /\ settled \subseteq Large
  /\ reported \in [Items -> {"none", "ok", "failed"}]
  /\ \A i \in Items :
       /\ Len(versions[i]) \in 1 .. MaxVersions
       /\ versions[i] \in Seq(Nat)
       /\ file[i] \in Seq(0 .. MaxVersions)
  /\ made \in [Items -> {"before", "ours", "removed"}]
  /\ stuck \subseteq failures

(* A file that is reported as downloaded is there, and was written from    *)
(* its first unit to its last: where it still holds a zero of the preallocation, the      *)
(* object was replaced by one that ends before ("a large sparse file of    *)
(* zeroes that looks like a successful download").                         *)
NoHoleUnlessShrunk ==
  \A i \in Items : reported[i] = "ok" =>
    /\ made[i] = "ours"
    /\ \A u \in DOMAIN file[i] :
         file[i][u] = Zero => \E v \in 1 .. Current(i) : versions[i][v] < u

(* A large item that failed leaves no file, unless the system refused to   *)
(* remove it: no range that was under way brings it back.                  *)
FailedLeavesNothing ==
  phase = "done" =>
    \A i \in Large : reported[i] = "failed" => made[i] = "removed" \/ i \in stuck

(* A file is not written to once its item was reported: the report, and    *)
(* the removal of a failed file, come after the last of its writes.        *)
NoWriteAfterReport ==
  \A j \in Jobs : reported[j.item] # "none" => j \notin todo \cup active

(* The command ends, and unless a file could not be opened it has told the *)
(* user about every item.                                                  *)
EveryItemReported ==
  <>(\/ phase = "error"
     \/ phase = "done" /\ \A i \in Items : reported[i] # "none")
===============================================================================
