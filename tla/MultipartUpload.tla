--------------------------- MODULE MultipartUpload ---------------------------
(***************************************************************************)
(* `execute_uploads` of s3/transfer.rs, which uploads a planned list of    *)
(* files for cp, mv and sync, and the part of S3 it talks to.              *)
(*                                                                         *)
(* Every large item first gets a multipart upload (CreateMultipartUpload,  *)
(* one after another).  Then one pool runs a job per small item            *)
(* (PutObject) and per part (UploadPart); a part of an item that already   *)
(* failed is skipped.  When the pool has returned, each multipart upload   *)
(* is aborted if one of its parts failed and completed otherwise.  The     *)
(* pool is its abstract specification, JobBatch.                           *)
(*                                                                         *)
(* A request ends in one of four ways once its retries are used up: "ok",  *)
(* "refused" (the service did nothing), "lost" (the service did it, but    *)
(* the caller sees an error), or "hollow": the service did nothing and     *)
(* answered below 400, with a redirect nobody follows or with an <Error>   *)
(* document under a 200.  send_checked looks at the status only, so a      *)
(* hollow answer is a success to the caller.                               *)
(***************************************************************************)
EXTENDS Naturals, Sequences

CONSTANT
  PartsOf             (* the number of parts of each item, 0 for an item   *)
                      (* below the multipart threshold                     *)

ASSUME UploadAssumption == PartsOf \in Seq(Nat) /\ PartsOf # <<>>

Items == DOMAIN PartsOf
Large == {i \in Items : PartsOf[i] > 0}
Small == Items \ Large

(* The jobs: part 0 stands for a whole small object. *)
Job(i, p) == [item |-> i, part |-> p]
Jobs == {Job(i, 0) : i \in Small} \cup UNION {{Job(i, p) : p \in 1 .. PartsOf[i]} : i \in Large}
Whole(i) == IF i \in Small THEN {0} ELSE 1 .. PartsOf[i]

VARIABLES
  call, running, todo, active, finished,   (* the pool, see JobBatch       *)
  phase,              (* "begin", "pool", "settle", "done", or "error"     *)
  begun,              (* large items whose upload id is known              *)
  sending,            (* active jobs that passed the failure check         *)
  failures,           (* items one of whose parts failed                   *)
  etags,              (* the parts whose ETag was collected                *)
  settled,            (* large items completed or aborted                  *)
  reported,           (* what the user was told about each item            *)
  upload,             (* S3: each item's multipart upload                  *)
  stored,             (* S3: the parts stored for that upload              *)
  object,             (* S3: the parts the destination object is made of   *)
  hollow              (* history: the items whose PutObject, or whose       *)
                      (* completing request, was answered hollowly          *)

poolVars == <<call, running, todo, active, finished>>
s3Vars == <<upload, stored, object, hollow>>
clientVars == <<phase, begun, sending, failures, etags, settled, reported>>
vars == <<poolVars, clientVars, s3Vars>>

Pool == INSTANCE JobBatch WITH Batches <- <<Jobs>>

Smallest(S) == CHOOSE i \in S : \A k \in S : i <= k
Report(i, r) == reported' = [reported EXCEPT ![i] = r]

Init ==
  /\ Pool!AbsInit
  /\ phase = "begin"
  /\ begun = {}
  /\ sending = {}
  /\ failures = {}
  /\ etags = {}
  /\ settled = {}
  /\ reported = [i \in Items |-> "none"]
  /\ upload = [i \in Items |-> "none"]
  /\ stored = [i \in Items |-> {}]
  /\ object = [i \in Items |-> {}]
  /\ hollow = {}

-----------------------------------------------------------------------------
(* begin_upload for the next large item.  An error ends the whole call     *)
(* with `?`; a lost answer leaves an upload whose id nobody knows, and a   *)
(* hollow one has no UploadId in it, which counts as the empty id of an    *)
(* upload that does not exist.                                             *)
BeginUpload ==
  /\ phase = "begin"
  /\ begun # Large
  /\ LET i == Smallest(Large \ begun) IN
     \/ /\ begun' = begun \cup {i}
        /\ upload' \in {upload, [upload EXCEPT ![i] = "open"]}
        /\ UNCHANGED phase
     \/ /\ phase' = "error"
        /\ upload' \in {upload, [upload EXCEPT ![i] = "open"]}
        /\ UNCHANGED begun
  /\ UNCHANGED <<poolVars, sending, failures, etags, settled, reported, stored, object, hollow>>

StartPool ==
  /\ phase = "begin"
  /\ begun = Large
  /\ Pool!StartCall
  /\ phase' = "pool"
  /\ UNCHANGED <<begun, sending, failures, etags, settled, reported, s3Vars>>

(* A worker takes a job; a part job looks at the failures first. *)
TakeJob(j) ==
  /\ phase = "pool"
  /\ Pool!Take(j)
  /\ sending' = IF j.part # 0 /\ j.item \in failures THEN sending ELSE sending \cup {j}
  /\ UNCHANGED <<phase, begun, failures, etags, settled, reported, s3Vars>>

(* The part's item had failed: nothing is sent. *)
SkipPart(j) ==
  /\ j \in active \ sending
  /\ Pool!Complete(j)
  /\ UNCHANGED <<clientVars, s3Vars>>

(* A mutant: a small object that failed joins the failed uploads, and the  *)
(* user is never told.                                                     *)
PutObjectSilently(j) ==
  /\ j \in sending
  /\ j.part = 0
  /\ Pool!Complete(j)
  /\ sending' = sending \ {j}
  /\ \/ object' = [object EXCEPT ![j.item] = {0}] /\ Report(j.item, "ok") /\ UNCHANGED failures
     \/ failures' = failures \cup {j.item} /\ UNCHANGED <<object, reported>>
  /\ UNCHANGED <<phase, begun, etags, settled, upload, stored, hollow>>

PutObject(j) ==
  /\ j \in sending
  /\ j.part = 0
  /\ Pool!Complete(j)
  /\ sending' = sending \ {j}
  /\ \/ /\ object' = [object EXCEPT ![j.item] = {0}]
        /\ \E r \in {"ok", "failed"} : Report(j.item, r)
        /\ UNCHANGED hollow
     \/ UNCHANGED <<object, hollow>> /\ Report(j.item, "failed")
     \/ UNCHANGED object /\ hollow' = hollow \cup {j.item} /\ Report(j.item, "ok")
  /\ UNCHANGED <<phase, begun, failures, etags, settled, upload, stored>>

(* A mutant: a part that failed is not remembered. *)
UploadPartForgetful(j) ==
  /\ j \in sending
  /\ j.part # 0
  /\ Pool!Complete(j)
  /\ sending' = sending \ {j}
  /\ \/ /\ stored' = [stored EXCEPT ![j.item] = @ \cup {j.part}]
        /\ etags' = etags \cup {j}
     \/ UNCHANGED <<stored, etags>>
  /\ UNCHANGED <<phase, begun, failures, settled, reported, upload, object, hollow>>

(* upload_part: S3 stores the part if it knows the upload.  A hollow       *)
(* answer has no ETag header, and the empty ETag is collected.             *)
UploadPart(j) ==
  /\ j \in sending
  /\ j.part # 0
  /\ Pool!Complete(j)
  /\ sending' = sending \ {j}
  /\ \/ /\ upload[j.item] = "open"
        /\ stored' = [stored EXCEPT ![j.item] = @ \cup {j.part}]
     \/ UNCHANGED stored
  /\ \/ etags' = etags \cup {j} /\ UNCHANGED failures
     \/ failures' = failures \cup {j.item} /\ UNCHANGED etags
  /\ UNCHANGED <<phase, begun, settled, reported, upload, object, hollow>>

(* A mutant: the settling loop does not wait for the pool. *)
EndPoolEarly ==
  /\ phase = "pool"
  /\ todo = {}
  /\ phase' = "settle"
  /\ UNCHANGED <<poolVars, begun, sending, failures, etags, settled, reported, s3Vars>>

EndPool ==
  /\ phase = "pool"
  /\ Pool!ReturnCall
  /\ phase' = "settle"
  /\ UNCHANGED <<begun, sending, failures, etags, settled, reported, s3Vars>>

-----------------------------------------------------------------------------
(* The loop after the pool, over the uploads in order. *)

Current == Smallest(Large \ settled)
Collected(i) == {p \in 1 .. PartsOf[i] : Job(i, p) \in etags}

(* A mutant: aborting is taken for telling. *)
AbortQuietly ==
  /\ phase = "settle"
  /\ settled # Large
  /\ Current \in failures
  /\ upload' = [upload EXCEPT ![Current] = "aborted"]
  /\ stored' = [stored EXCEPT ![Current] = {}]
  /\ settled' = settled \cup {Current}
  /\ UNCHANGED <<poolVars, phase, begun, sending, failures, etags, reported, object, hollow>>

(* abort_upload: its answer is ignored. *)
AbortUpload ==
  /\ phase = "settle"
  /\ settled # Large
  /\ Current \in failures
  /\ \/ /\ upload[Current] = "open"
        /\ upload' = [upload EXCEPT ![Current] = "aborted"]
        /\ stored' = [stored EXCEPT ![Current] = {}]
     \/ UNCHANGED <<upload, stored>>
  /\ settled' = settled \cup {Current}
  /\ Report(Current, "failed")
  /\ UNCHANGED <<poolVars, phase, begun, sending, failures, etags, object, hollow>>

(* A mutant: the answer of CompleteMultipartUpload is ignored, too. *)
CompleteUploadBlindly ==
  /\ phase = "settle"
  /\ settled # Large
  /\ Current \notin failures
  /\ \/ /\ Collected(Current) \subseteq stored[Current]
        /\ object' = [object EXCEPT ![Current] = Collected(Current)]
        /\ upload' = [upload EXCEPT ![Current] = "completed"]
        /\ stored' = [stored EXCEPT ![Current] = {}]
        /\ UNCHANGED hollow
     \/ UNCHANGED s3Vars
  /\ Report(Current, "ok")
  /\ settled' = settled \cup {Current}
  /\ UNCHANGED <<poolVars, phase, begun, sending, failures, etags>>

(* complete_upload: S3 assembles the object from the listed parts, if it   *)
(* has them all; the answer is believed below 400, whatever it says.       *)
CompleteUpload ==
  /\ phase = "settle"
  /\ settled # Large
  /\ Current \notin failures
  /\ \/ /\ Collected(Current) \subseteq stored[Current]
        /\ object' = [object EXCEPT ![Current] = Collected(Current)]
        /\ upload' = [upload EXCEPT ![Current] = "completed"]
        /\ stored' = [stored EXCEPT ![Current] = {}]
        /\ \E r \in {"ok", "failed"} : Report(Current, r)
        /\ UNCHANGED hollow
     \/ Report(Current, "failed") /\ UNCHANGED s3Vars
     \/ /\ Report(Current, "ok")
        /\ hollow' = hollow \cup {Current}
        /\ UNCHANGED <<upload, stored, object>>
  /\ settled' = settled \cup {Current}
  /\ UNCHANGED <<poolVars, phase, begun, sending, failures, etags>>

Finish ==
  /\ phase = "settle"
  /\ settled = Large
  /\ phase' = "done"
  /\ UNCHANGED <<poolVars, begun, sending, failures, etags, settled, reported, s3Vars>>

Next ==
  \/ BeginUpload
  \/ StartPool
  \/ \E j \in Jobs : TakeJob(j) \/ SkipPart(j) \/ PutObject(j) \/ UploadPart(j)
  \/ EndPool
  \/ AbortUpload
  \/ CompleteUpload
  \/ Finish

Spec == Init /\ [][Next]_vars

(* The caller and every worker run, and every request ends: the transport  *)
(* gives up on a connection that is idle.                                  *)
FairSpec == Spec /\ WF_vars(Next)

-----------------------------------------------------------------------------
(* The type invariant. *)
TypeOK ==
  /\ call \in 1 .. 2
  /\ running \in BOOLEAN
  /\ todo \subseteq Jobs
  /\ active \subseteq Jobs
  /\ finished \subseteq Jobs
  /\ phase \in {"begin", "pool", "settle", "done", "error"}
  /\ begun \subseteq Large
  /\ sending \subseteq active
  /\ failures \subseteq Large
  /\ etags \subseteq Jobs
  /\ settled \subseteq Large
  /\ reported \in [Items -> {"none", "ok", "failed"}]
  /\ upload \in [Items -> {"none", "open", "aborted", "completed"}]
  /\ stored \in [Items -> SUBSET Nat]
  /\ object \in [Items -> SUBSET Nat]
  /\ hollow \subseteq Items

(* The object at a destination is whole: CompleteMultipartUpload is never  *)
(* sent with a part missing, so no destination ever holds an object with a *)
(* hole in it, and an item one of whose parts failed leaves the            *)
(* destination as it was.                                                  *)
ObjectsAreWhole ==
  \A i \in Items :
    /\ object[i] \in {{}, Whole(i)}
    /\ i \in failures => object[i] = {}

(* No part outlives its upload: when an upload is completed or aborted, no *)
(* request of one of its parts is under way or still to come, so none can  *)
(* arrive at an upload id that is gone (or be stored after the abort).     *)
NoPartOutlivesUpload ==
  \A j \in Jobs :
    j.part # 0 /\ (j.item \in settled \/ upload[j.item] \in {"aborted", "completed"})
      => j \notin todo \cup active

(* The upload implements the atomic transfer of its items: what it reports *)
(* as uploaded is there, whole, unless the request that decided it was     *)
(* answered hollowly, and no other answer or failure misleads it.          *)
Atomic == INSTANCE AtomicTransfer
ImplementsAtomic == Atomic!AtomicSpec

(* The call ends, and unless it could not open an upload it has told the   *)
(* user about every item.                                                  *)
EveryItemReported ==
  <>(\/ phase = "error"
     \/ phase = "done" /\ \A i \in Items : reported[i] # "none")
===============================================================================
