---------------------------- MODULE AtomicTransfer ----------------------------
(***************************************************************************)
(* What a transfer promises, whatever it is made of: each destination      *)
(* changes at most once, in one step, from what it was to the whole new    *)
(* object; an item reported as transferred is there, unless the service    *)
(* itself answered as if it were; every item is reported once.  The number *)
(* of requests, their order and their retries are not visible.             *)
(***************************************************************************)
CONSTANTS
  Items,              (* the objects to transfer                           *)
  Whole(_)            (* the complete content of an item                   *)

VARIABLES
  object,             (* what is stored at each destination                *)
  reported,           (* "none", "ok" or "failed" for each item            *)
  hollow              (* the items whose deciding request did nothing and  *)
                      (* was answered as a success                         *)

atomicVars == <<object, reported, hollow>>

(* Before the transfer the destination holds something else: {}. *)
AtomicInit ==
  /\ object = [i \in Items |-> {}]
  /\ reported = [i \in Items |-> "none"]
  /\ hollow = {}

(* An item is settled: stored or not, and reported.  Success is reported   *)
(* of a stored object, and of one that is not only after a hollow answer;  *)
(* a failure may hide an object that was stored after all, when only the   *)
(* answer was lost.                                                        *)
Settle(i) ==
  /\ reported[i] = "none"
  /\ \/ /\ object' = [object EXCEPT ![i] = Whole(i)]
        /\ \E r \in {"ok", "failed"} : reported' = [reported EXCEPT ![i] = r]
        /\ hollow' = hollow
     \/ /\ object' = object
        /\ reported' = [reported EXCEPT ![i] = "failed"]
        /\ hollow' = hollow
     \/ /\ object' = object
        /\ reported' = [reported EXCEPT ![i] = "ok"]
        /\ hollow' = hollow \cup {i}

AtomicNext == \E i \in Items : Settle(i)

AtomicSpec == AtomicInit /\ [][AtomicNext]_atomicVars
===============================================================================
