------------------------------- MODULE JobBatch -------------------------------
(***************************************************************************)
(* What `Pool::run` promises its callers: a list of jobs goes in, every    *)
(* job is taken by some worker and completed, each exactly once, and the   *)
(* call returns when none is left.  Nothing is said about how many workers *)
(* there are or which job is taken first.  The same pool serves a series   *)
(* of such calls (`copy` in s3/transfer.rs reuses one pool): Batches are   *)
(* their sets of jobs.  WorkerPool implements this specification, and the  *)
(* transfers are built on it.                                              *)
(***************************************************************************)
EXTENDS Naturals, Sequences

CONSTANT Batches      (* the set of jobs of each successive call of run     *)

VARIABLES
  call,               (* the call of run that is next, or in progress      *)
  running,            (* whether that call is in progress                  *)
  todo,               (* its jobs that no worker has taken                 *)
  active,             (* its jobs that a worker is executing               *)
  finished            (* its jobs that have been executed                  *)

absVars == <<call, running, todo, active, finished>>

AbsInit ==
  /\ call = 1
  /\ running = FALSE
  /\ todo = {}
  /\ active = {}
  /\ finished = {}

(* An empty job list returns at once. *)
SkipEmpty ==
  /\ ~running
  /\ call <= Len(Batches)
  /\ Batches[call] = {}
  /\ call' = call + 1
  /\ UNCHANGED <<running, todo, active, finished>>

StartCall ==
  /\ ~running
  /\ call <= Len(Batches)
  /\ Batches[call] # {}
  /\ running' = TRUE
  /\ todo' = Batches[call]
  /\ UNCHANGED <<call, active, finished>>

Take(j) ==
  /\ j \in todo
  /\ todo' = todo \ {j}
  /\ active' = active \cup {j}
  /\ UNCHANGED <<call, running, finished>>

Complete(j) ==
  /\ j \in active
  /\ j \notin finished
  /\ active' = active \ {j}
  /\ finished' = finished \cup {j}
  /\ UNCHANGED <<call, running, todo>>

ReturnCall ==
  /\ running
  /\ todo = {}
  /\ active = {}
  /\ finished = Batches[call]
  /\ running' = FALSE
  /\ call' = call + 1
  /\ finished' = {}
  /\ UNCHANGED <<todo, active>>

AbsNext ==
  \/ SkipEmpty
  \/ StartCall
  \/ \E j \in todo : Take(j)
  \/ \E j \in active : Complete(j)
  \/ ReturnCall

AbsSpec == AbsInit /\ [][AbsNext]_absVars
===============================================================================
