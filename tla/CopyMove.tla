------------------------------- MODULE CopyMove -------------------------------
(***************************************************************************)
(* Copying and moving objects inside S3: `copy` of s3/transfer.rs with     *)
(* `multipart_copy`, and `delete::batched`, which removes the sources of a *)
(* move.                                                                   *)
(*                                                                         *)
(* The items were listed with their sizes before.  The large ones are      *)
(* copied one after another: a HEAD pins the source's ETag, and the ranges *)
(* the listed size asks for are copied over the pool, each conditional on  *)
(* the pin.  The small ones follow, one CopyObject each, over the same     *)
(* pool.  The sources of the copies that succeeded are then deleted in     *)
(* batches.  Meanwhile other clients of the bucket replace sources.        *)
(*                                                                         *)
(* Requests end as in MultipartUpload, hollow answers included: S3 did     *)
(* nothing and answered below 400, which send_checked takes for a success. *)
(* Sizes are counted in parts; size 0 stands for an object below the       *)
(* multipart threshold.                                                    *)
(***************************************************************************)
EXTENDS Naturals, Sequences, FiniteSets

CONSTANTS
  PartsOf,            (* the listed sizes of the large items               *)
  Smalls,             (* the number of small items                         *)
  Move,               (* whether sources are removed: mv, not cp           *)
  MaxKeys,            (* MAX_KEYS of one DeleteObjects                     *)
  NewSizes,           (* the sizes of a source that is replaced            *)
  MaxVersions         (* bound: versions of a source                       *)

ASSUME CopyAssumption ==
  /\ PartsOf \in Seq(Nat \ {0})
  /\ Smalls \in Nat
  /\ Move \in BOOLEAN
  /\ MaxKeys \in Nat \ {0}
  /\ NewSizes \subseteq Nat
  /\ MaxVersions \in Nat \ {0}

Large == 1 .. Len(PartsOf)
Small == (Len(PartsOf) + 1) .. (Len(PartsOf) + Smalls)
Items == Large \cup Small
ListedSize(i) == IF i \in Large THEN PartsOf[i] ELSE 0

Pieces(size) == IF size = 0 THEN {0} ELSE 1 .. size
Job(i, p) == [item |-> i, part |-> p]
PartJobs(i) == {Job(i, p) : p \in 1 .. PartsOf[i]}
SmallJobs == {Job(i, 0) : i \in Small}
Jobs == SmallJobs \cup UNION {PartJobs(i) : i \in Large}
(* The calls of run: one for each large item, then one for the small ones. *)
Calls == [n \in 1 .. (Len(PartsOf) + 1) |-> IF n \in Large THEN PartJobs(n) ELSE SmallJobs]

VARIABLES
  call, running, todo, active, finished,   (* the pool, see JobBatch       *)
  step,               (* "head", "create", "pool", "settle", "small",      *)
                      (* "delete", or "done"                               *)
  pin,                (* the version whose ETag the HEAD returned, 0 if    *)
                      (* the answer had none                               *)
  sending,            (* active jobs that passed the failure check         *)
  failure,            (* a part of the item in hand failed                 *)
  etags,              (* its parts whose ETag was collected                *)
  moved,              (* the sources to delete                             *)
  pending,            (* the batches of keys still to delete               *)
  reported,           (* what the user was told about each item            *)
  notDeleted,         (* the sources reported as not deleted               *)
  versions,           (* S3: the sizes of each source's versions, so far   *)
  present,            (* S3: whether the source is there                   *)
  upload,             (* S3: the multipart upload of each destination      *)
  stored,             (* S3: the pieces stored for it                      *)
  object,             (* S3: the pieces each destination is made of        *)
  hollow              (* history: which requests about an item were        *)
                      (* answered hollowly: its HEAD, the one that decides *)
                      (* its copy, the one that deletes its source         *)

poolVars == <<call, running, todo, active, finished>>
copyVars == <<step, pin, sending, failure, etags>>
outcomeVars == <<moved, pending, reported, notDeleted>>
sourceVars == <<versions, present>>
destVars == <<upload, stored, object, hollow>>
vars == <<poolVars, copyVars, outcomeVars, sourceVars, destVars>>

Pool == INSTANCE JobBatch WITH Batches <- Calls

(* The large item in hand: run has been left when its copy is settled. *)
Item == IF step = "settle" THEN call - 1 ELSE call

Current(i) == Len(versions[i])
Piece(v, p) == [version |-> v, part |-> p]
Report(i, r) == reported' = [reported EXCEPT ![i] = r]
NextStep(n) == IF n \in Large THEN "head" ELSE "small"
Hollow(i, request) == hollow' = [hollow EXCEPT ![i] = @ \cup {request}]

(* The copy of an item ended: it is reported, and a source whose copy      *)
(* succeeded will be removed.                                              *)
Copied(i, ok) ==
  /\ Report(i, IF ok THEN "ok" ELSE "failed")
  /\ moved' = IF Move /\ ok THEN moved \cup {i} ELSE moved

Init ==
  /\ Pool!AbsInit
  /\ step = NextStep(1)
  /\ pin = 0
  /\ sending = {}
  /\ failure = FALSE
  /\ etags = {}
  /\ moved = {}
  /\ pending = {}
  /\ reported = [i \in Items |-> "none"]
  /\ notDeleted = {}
  /\ versions = [i \in Items |-> <<ListedSize(i)>>]
  /\ present = [i \in Items |-> TRUE]
  /\ upload = [i \in Large |-> "none"]
  /\ stored = [i \in Large |-> {}]
  /\ object = [i \in Items |-> {}]
  /\ hollow = [i \in Items |-> {}]

-----------------------------------------------------------------------------
(* multipart_copy, for one large item after another. *)

GiveUp ==
  /\ Copied(call, FALSE)
  /\ call' = call + 1
  /\ step' = NextStep(call + 1)

(* HeadObject: without an ETag in the answer, nothing is pinned. *)
HeadSource ==
  /\ step = "head"
  /\ \/ /\ step' = "create"
        /\ \/ pin' = Current(call) /\ UNCHANGED hollow
           \/ pin' = 0 /\ Hollow(call, "head")
        /\ UNCHANGED <<call, moved, reported>>
     \/ GiveUp /\ UNCHANGED <<pin, hollow>>
  /\ UNCHANGED <<running, todo, active, finished, sending, failure, etags, pending, notDeleted,
                 sourceVars, upload, stored, object>>

(* CreateMultipartUpload: an answer without an UploadId counts as the      *)
(* empty id, of an upload that does not exist.                             *)
CreateUpload ==
  /\ step = "create"
  /\ Pool!StartCall
  /\ step' = "pool"
  /\ failure' = FALSE
  /\ etags' = {}
  /\ upload' \in {upload, [upload EXCEPT ![call] = "open"]}
  /\ UNCHANGED <<pin, sending, outcomeVars, sourceVars, stored, object, hollow>>

CreateFails ==
  /\ step = "create"
  /\ GiveUp
  /\ upload' \in {upload, [upload EXCEPT ![call] = "open"]}
  /\ UNCHANGED <<running, todo, active, finished, pin, sending, failure, etags, pending,
                 notDeleted, sourceVars, stored, object, hollow>>

(* A worker takes a job; a part looks at the failure first. *)
TakeJob(j) ==
  /\ step \in {"pool", "small"}
  /\ Pool!Take(j)
  /\ sending' = IF j.part # 0 /\ failure THEN sending ELSE sending \cup {j}
  /\ UNCHANGED <<step, pin, failure, etags, outcomeVars, sourceVars, destVars>>

SkipPart(j) ==
  /\ j \in active \ sending
  /\ Pool!Complete(j)
  /\ UNCHANGED <<copyVars, outcomeVars, sourceVars, destVars>>

(* A mutant: the part forgets that it was sent. *)
CopyPartTwice(j) ==
  /\ j \in sending
  /\ j.part # 0
  /\ Pool!Complete(j)
  /\ etags' = etags \cup {j.part}
  /\ stored' = [stored EXCEPT ![j.item] = @ \cup {Piece(pin, j.part)}]
  /\ UNCHANGED <<step, pin, sending, failure, outcomeVars, sourceVars, upload, object, hollow>>

(* A mutant: UploadPartCopy is not conditional on the ETag. *)
CopyPartUnpinned(j) ==
  /\ j \in sending
  /\ j.part # 0
  /\ Pool!Complete(j)
  /\ sending' = sending \ {j}
  /\ \/ /\ j.part <= versions[j.item][Current(j.item)]
        /\ stored' = [stored EXCEPT ![j.item] = @ \cup {Piece(Current(j.item), j.part)}]
        /\ etags' = etags \cup {j.part} /\ UNCHANGED failure
     \/ failure' = TRUE /\ UNCHANGED <<stored, etags>>
  /\ UNCHANGED <<step, pin, outcomeVars, sourceVars, upload, object, hollow>>

(* UploadPartCopy copies a range of the source as it is then: only of the  *)
(* pinned version, if one is pinned, only a range that lies within it, and *)
(* only to an upload that exists.  An answer without an ETag in its        *)
(* document is collected with the empty one.                               *)
CopyPart(j) ==
  /\ j \in sending
  /\ j.part # 0
  /\ Pool!Complete(j)
  /\ sending' = sending \ {j}
  /\ \/ /\ upload[j.item] = "open"
        /\ pin \in {0, Current(j.item)}
        /\ j.part <= versions[j.item][Current(j.item)]
        /\ stored' = [stored EXCEPT ![j.item] = @ \cup {Piece(Current(j.item), j.part)}]
     \/ UNCHANGED stored
  /\ \/ etags' = etags \cup {j.part} /\ UNCHANGED failure
     \/ failure' = TRUE /\ UNCHANGED etags
  /\ UNCHANGED <<step, pin, outcomeVars, sourceVars, upload, object, hollow>>

EndParts ==
  /\ step = "pool"
  /\ Pool!ReturnCall
  /\ step' = "settle"
  /\ UNCHANGED <<pin, sending, failure, etags, outcomeVars, sourceVars, destVars>>

(* A mutant: an aborted copy is not reported. *)
AbortQuietly ==
  /\ step = "settle"
  /\ failure
  /\ step' = NextStep(call)
  /\ upload' = [upload EXCEPT ![Item] = "aborted"]
  /\ stored' = [stored EXCEPT ![Item] = {}]
  /\ UNCHANGED <<poolVars, pin, sending, failure, etags, outcomeVars, sourceVars, object, hollow>>

(* The answer of the abort is ignored. *)
AbortCopy ==
  /\ step = "settle"
  /\ failure
  /\ step' = NextStep(call)
  /\ \/ /\ upload[Item] = "open"
        /\ upload' = [upload EXCEPT ![Item] = "aborted"]
        /\ stored' = [stored EXCEPT ![Item] = {}]
     \/ UNCHANGED <<upload, stored>>
  /\ Copied(Item, FALSE)
  /\ UNCHANGED <<poolVars, pin, sending, failure, etags, pending, notDeleted, sourceVars, object,
                 hollow>>

(* A mutant: the item moves on whatever CompleteMultipartUpload answered. *)
CompleteBlindly ==
  /\ step = "settle"
  /\ ~failure
  /\ step' = NextStep(call)
  /\ moved' = IF Move THEN moved \cup {Item} ELSE moved
  /\ \/ /\ object' = [object EXCEPT ![Item] = {Piece(pin, p) : p \in etags}]
        /\ upload' = [upload EXCEPT ![Item] = "completed"]
        /\ stored' = [stored EXCEPT ![Item] = {}]
        /\ Report(Item, "ok")
        /\ UNCHANGED hollow
     \/ Report(Item, "failed") /\ UNCHANGED destVars
  /\ UNCHANGED <<poolVars, pin, sending, failure, etags, pending, notDeleted, sourceVars>>

(* The completing request: its answer is believed below 400. *)
CompleteCopy ==
  /\ step = "settle"
  /\ ~failure
  /\ step' = NextStep(call)
  /\ \/ /\ etags \subseteq {s.part : s \in stored[Item]}
        /\ object' = [object EXCEPT ![Item] = {s \in stored[Item] : s.part \in etags}]
        /\ upload' = [upload EXCEPT ![Item] = "completed"]
        /\ stored' = [stored EXCEPT ![Item] = {}]
        /\ \E ok \in BOOLEAN : Copied(Item, ok)
        /\ UNCHANGED hollow
     \/ Copied(Item, FALSE) /\ UNCHANGED destVars
     \/ Copied(Item, TRUE) /\ Hollow(Item, "copy") /\ UNCHANGED <<upload, stored, object>>
  /\ UNCHANGED <<poolVars, pin, sending, failure, etags, pending, notDeleted, sourceVars>>

-----------------------------------------------------------------------------
(* The small items, and the removal of the sources. *)

StartSmall ==
  /\ step = "small"
  /\ Pool!StartCall
  /\ UNCHANGED <<copyVars, outcomeVars, sourceVars, destVars>>

(* CopyObject copies the source as it is then, whole; its answer is        *)
(* believed below 400.                                                     *)
CopySmall(j) ==
  /\ j \in sending
  /\ j.part = 0
  /\ Pool!Complete(j)
  /\ sending' = sending \ {j}
  /\ \/ /\ object' = [object EXCEPT ![j.item] =
             {Piece(Current(j.item), p) : p \in Pieces(versions[j.item][Current(j.item)])}]
        /\ \E ok \in BOOLEAN : Copied(j.item, ok)
        /\ UNCHANGED hollow
     \/ Copied(j.item, FALSE) /\ UNCHANGED <<object, hollow>>
     \/ Copied(j.item, TRUE) /\ Hollow(j.item, "copy") /\ UNCHANGED object
  /\ UNCHANGED <<step, pin, failure, etags, pending, notDeleted, sourceVars, upload, stored>>

(* The keys to delete, in order, MaxKeys to a batch. *)
Rank(i) == Cardinality({k \in moved : k < i})
Batch(n) == {i \in moved : Rank(i) \div MaxKeys = n}

EndSmall ==
  /\ step = "small"
  /\ Pool!ReturnCall \/ Pool!SkipEmpty
  /\ step' = "delete"
  /\ pending' = {Batch(n) : n \in 0 .. Len(PartsOf) + Smalls} \ {{}}
  /\ UNCHANGED <<pin, sending, failure, etags, moved, reported, notDeleted, sourceVars, destVars>>

(* A mutant: a batch whose request succeeded counts as deleted, whatever   *)
(* the answer says of its keys.                                            *)
DeleteBatchByStatus(keys) ==
  /\ step = "delete"
  /\ pending' = pending \ {keys}
  /\ \E gone \in SUBSET keys :
       present' = [i \in Items |-> present[i] /\ i \notin gone]
  /\ UNCHANGED <<poolVars, copyVars, moved, reported, notDeleted, versions, destVars>>

(* One DeleteObjects: some of its keys are gone, and the answer, if it     *)
(* came, confirms some of those; every other key is reported.  A single    *)
(* key has a DeleteObject of its own, whose answer is believed below 400.  *)
DeleteBatch(keys) ==
  /\ step = "delete"
  /\ pending' = pending \ {keys}
  /\ \/ /\ \E gone \in SUBSET keys : \E confirmed \in SUBSET gone :
             /\ present' = [i \in Items |-> present[i] /\ i \notin gone]
             /\ notDeleted' = notDeleted \cup (keys \ confirmed)
        /\ UNCHANGED hollow
     \/ /\ Cardinality(moved) = 1
        /\ \E i \in keys : Hollow(i, "delete")
        /\ UNCHANGED <<present, notDeleted>>
  /\ UNCHANGED <<poolVars, copyVars, moved, reported, versions, upload, stored, object>>

Finish ==
  /\ step = "delete"
  /\ pending = {}
  /\ step' = "done"
  /\ UNCHANGED <<poolVars, pin, sending, failure, etags, outcomeVars, sourceVars, destVars>>

(* External: another client replaces a source. *)
Replace(i) ==
  /\ step # "done"
  /\ present[i]
  /\ Current(i) < MaxVersions
  /\ \E size \in NewSizes : versions' = [versions EXCEPT ![i] = Append(@, size)]
  /\ UNCHANGED <<poolVars, copyVars, outcomeVars, present, destVars>>

Command ==
  \/ HeadSource
  \/ CreateUpload \/ CreateFails
  \/ \E j \in Jobs : TakeJob(j) \/ SkipPart(j) \/ CopyPart(j) \/ CopySmall(j)
  \/ EndParts
  \/ AbortCopy
  \/ CompleteCopy
  \/ StartSmall \/ EndSmall
  \/ \E keys \in pending : DeleteBatch(keys)
  \/ Finish

Next == Command \/ \E i \in Items : Replace(i)

Spec == Init /\ [][Next]_vars

(* The command goes on: its threads run and its requests end. *)
FairSpec == Spec /\ WF_vars(Command)

-----------------------------------------------------------------------------
Stored == [version : Nat, part : Nat]

(* The type invariant. *)
TypeOK ==
  /\ call \in 1 .. (Len(PartsOf) + 2)
  /\ running \in BOOLEAN
  /\ todo \subseteq Jobs
  /\ active \subseteq Jobs
  /\ finished \subseteq Jobs
  /\ step \in {"head", "create", "pool", "settle", "small", "delete", "done"}
  /\ pin \in 0 .. MaxVersions
  /\ sending \subseteq active
  /\ failure \in BOOLEAN
  /\ etags \subseteq Nat
  /\ moved \subseteq Items
  /\ pending \subseteq SUBSET Items
  /\ reported \in [Items -> {"none", "ok", "failed"}]
  /\ notDeleted \subseteq moved
  /\ versions \in [Items -> Seq(Nat)]
  /\ present \in [Items -> BOOLEAN]
  /\ upload \in [Large -> {"none", "open", "aborted", "completed"}]
  /\ stored \in [Large -> SUBSET Stored]
  /\ object \in [Items -> SUBSET Stored]
  /\ hollow \in [Items -> SUBSET {"head", "copy", "delete"}]

CopyOf(i, v) == {Piece(v, p) : p \in Pieces(versions[i][v])}
(* What a multipart copy asks for is cut by the listed size. *)
ListedPart(i, v) ==
  IF i \in Large THEN {Piece(v, p) : p \in Pieces(PartsOf[i])} ELSE CopyOf(i, v)

(* A destination is never stitched together from two versions of its       *)
(* source, and never has a hole: it holds the listed parts of one version  *)
(* ("a source replaced mid-copy fails the transfer rather than silently    *)
(* stitching together two different objects").  Only a HEAD whose answer   *)
(* has no ETag, and so pins nothing, is the code's exception.              *)
NeverStitched ==
  \A i \in Items :
    object[i] # {} /\ "head" \notin hollow[i] =>
      \E v \in 1 .. Current(i) : object[i] = ListedPart(i, v)

(* A move removes a source only after a copy it was told succeeded, and    *)
(* which is there, whatever failed, was refused or lost on the way; unless *)
(* the very request that decides the copy was answered below 400 by a      *)
(* service that had done nothing (see MovedIsCopied).                      *)
RemovedWasCopied ==
  \A i \in Items :
    ~present[i] => /\ Move /\ reported[i] = "ok"
                   /\ object[i] # {} \/ "copy" \in hollow[i]

(* The exit code tells the truth: when the command counted no failure,     *)
(* every destination is there and, for a move, every source is gone ("a    *)
(* move that copied and then failed to remove the source still printed     *)
(* `move:` and exited 0" was the bug), except where the deciding request   *)
(* was answered hollowly.                                                  *)
NoFailure == notDeleted = {} /\ \A i \in Items : reported[i] # "failed"
ExitTellsTruth ==
  step = "done" /\ NoFailure =>
    \A i \in Items : /\ object[i] # {} \/ "copy" \in hollow[i]
                     /\ Move => ~present[i] \/ "delete" \in hollow[i]

(* The command ends, and it has told the user about every item. *)
EveryItemReported == <>(step = "done" /\ \A i \in Items : reported[i] # "none")

(* A copy that is reported as done is a copy of the whole of one version   *)
(* of the source: a source replaced while it is being copied fails the     *)
(* transfer ("The source is pinned").                                      *)
CopiesAreWhole ==
  \A i \in Items :
    reported[i] = "ok" /\ hollow[i] = {} => \E v \in 1 .. Current(i) : object[i] = CopyOf(i, v)

(* A move never loses an object: a source that is gone has a copy.  Any    *)
(* answer that is not a 2xx is to be an error ("Send, and turn any non-2xx *)
(* into the reference's error wording"), so a redirect that nobody follows *)
(* is no success of the copy.                                              *)
MovedIsCopied == \A i \in Items : ~present[i] => object[i] # {}
===============================================================================
