------------------------------ MODULE WorkerPool ------------------------------
(***************************************************************************)
(* The adaptive worker pool of s3/pool.rs.                                 *)
(*                                                                         *)
(* `Pool::run` spawns min(max, jobs) threads and, unless the worker count  *)
(* is pinned, a supervisor.  A thread whose id is below `target` claims    *)
(* jobs with one fetch_add on `next`; a thread at or above it parks on a   *)
(* condition variable until the supervisor raises the target, a thread     *)
(* that found the jobs gone wakes it, or a backstop timeout fires.  The    *)
(* supervisor samples completed jobs per interval and steers the target    *)
(* with `decide`.  The pool outlives one call: target, units and throttled *)
(* carry over from a call to the next.                                     *)
(*                                                                         *)
(* Each action is one access to shared state, so the window between a      *)
(* thread reading `target` and parking, which the mutex does not close, is *)
(* there for a wakeup to be lost in.  Rates are abstracted to a small set  *)
(* of numbers; a sample measures zero exactly when no job completed.       *)
(***************************************************************************)
EXTENDS Integers, Sequences

CONSTANTS
  MaxWorkers,         (* Pool::max: the hard ceiling                       *)
  Start,              (* the first target: Tuning::start, or the pin       *)
  BaseFloor,          (* DEFAULT_WORKERS                                   *)
  Growth,             (* Tuning::growth_percent                            *)
  Patience,           (* Tuning::patience                                  *)
  Adaptive,           (* FALSE when --concurrency pins the worker count    *)
  Rates,              (* the throughputs a sample can measure              *)
  Batches,            (* the number of jobs of each successive call of run *)
  MaxJobs             (* no batch is larger                                *)

ASSUME PoolAssumption ==
  /\ MaxWorkers \in Nat \ {0}
  /\ Start \in 1 .. MaxWorkers
  /\ BaseFloor \in Nat \ {0}
  /\ Growth \in Nat \ {0}
  /\ Patience \in Nat \ {0}
  /\ Adaptive \in BOOLEAN
  /\ Rates \subseteq Nat
  /\ MaxJobs \in Nat
  /\ Batches \in Seq(0 .. MaxJobs)

VARIABLES
  call,               (* the call of run that is next, or in progress      *)
  phase,              (* "idle", "running", or "joined" (workers joined)   *)
  next,               (* the shared job index                              *)
  target,             (* how many workers may run now                      *)
  throttled,          (* set when a request came back SlowDown             *)
  done,               (* tells the supervisor to stop                      *)
  units,              (* jobs completed since the pool was made            *)
  pc,                 (* where each worker is                              *)
  job,                (* the index each worker claimed last                *)
  sup,                (* where the supervisor is                           *)
  control,            (* its locals best_rate, floor, degrading            *)
  lastUnits,          (* its local last_units                              *)
  ran,                (* history: how often each job of this call ran      *)
  slowed              (* history: note_throttle has been called            *)

callVars == <<call, phase>>
workVars == <<pc, job, ran>>
supVars == <<sup, control, lastUnits>>
vars == <<callVars, next, target, throttled, done, units, workVars, supVars, slowed>>

Workers == 0 .. (MaxWorkers - 1)
JobIds == 0 .. (MaxJobs - 1)
Smaller(a, b) == IF a < b THEN a ELSE b
Larger(a, b) == IF a > b THEN a ELSE b

NJobs == Batches[call]
Ceiling == Smaller(MaxWorkers, NJobs)
Spawned == 0 .. (Ceiling - 1)

-----------------------------------------------------------------------------
(* The controller: one decision of `decide`, a function of the state the   *)
(* supervisor carries and one sample.                                      *)

Grown(current, ceiling) ==
  LET step == Larger((current * Larger(Growth - 100, 0)) \div 100, 2)
  IN  Smaller(current + step, ceiling)

(* A mutant: a proportional back-off that forgets the floor. *)
ShrunkBelowFloor(current, floor) == Larger(current \div 2, 1)

Shrunk(current, floor) == Larger(current - 1, floor)

(* A mutant: halving a single worker leaves none. *)
HalvedToNone(current) == current \div 2

Halved(current) == Larger(current \div 2, 1)

Decide(state, rate, ceiling, slowDown) ==
  CASE slowDown ->
         [target |-> Halved(state.target), best |-> 0, floor |-> 1, degrading |-> 0]
    [] ~slowDown /\ 100 * rate > 105 * state.best ->
         [state EXCEPT !.target = IF @ < ceiling THEN Grown(@, ceiling) ELSE @,
                       !.best = Larger(rate, @),
                       !.degrading = 0]
    [] ~slowDown /\ 100 * rate < 90 * state.best /\ state.target > state.floor ->
         IF state.degrading + 1 < Patience
           THEN [state EXCEPT !.degrading = @ + 1]
           ELSE [state EXCEPT !.target = Shrunk(@, state.floor), !.best = rate, !.degrading = 0]
    [] OTHER -> [state EXCEPT !.degrading = 0]

-----------------------------------------------------------------------------
(* The caller's thread: run, from its entry to its return. *)

Init ==
  /\ call = 1
  /\ phase = "idle"
  /\ next = 0
  /\ target = Start
  /\ throttled = FALSE
  /\ done = FALSE
  /\ units = 0
  /\ pc = [w \in Workers |-> "none"]
  /\ job = [w \in Workers |-> 0]
  /\ sup = "exit"
  /\ control = [best |-> 0, floor |-> 1, degrading |-> 0]
  /\ lastUnits = 0
  /\ ran = [j \in JobIds |-> 0]
  /\ slowed = FALSE

RunEmpty ==
  /\ phase = "idle"
  /\ call <= Len(Batches)
  /\ NJobs = 0
  /\ call' = call + 1
  /\ UNCHANGED <<phase, next, target, throttled, done, units, workVars, supVars, slowed>>

Run ==
  /\ phase = "idle"
  /\ call <= Len(Batches)
  /\ NJobs > 0
  /\ phase' = "running"
  /\ next' = 0
  /\ done' = FALSE
  /\ pc' = [w \in Workers |-> IF w \in Spawned THEN "top" ELSE "none"]
  /\ sup' = IF Adaptive THEN "loop" ELSE "exit"
  /\ control' = [best |-> 0, floor |-> Smaller(BaseFloor, Ceiling), degrading |-> 0]
  /\ lastUnits' = 0
  /\ ran' = [j \in JobIds |-> 0]
  /\ UNCHANGED <<call, target, throttled, units, job, slowed>>

(* A mutant: the first worker to leave ends the call. *)
JoinAnyWorker ==
  /\ phase = "running"
  /\ \E w \in Spawned : pc[w] = "exit"
  /\ phase' = "joined"
  /\ done' = TRUE
  /\ UNCHANGED <<call, next, target, throttled, units, workVars, supVars, slowed>>

JoinWorkers ==
  /\ phase = "running"
  /\ \A w \in Spawned : pc[w] = "exit"
  /\ phase' = "joined"
  /\ done' = TRUE
  /\ UNCHANGED <<call, next, target, throttled, units, workVars, supVars, slowed>>

Return ==
  /\ phase = "joined"
  /\ sup = "exit"
  /\ phase' = "idle"
  /\ call' = call + 1
  /\ UNCHANGED <<next, target, throttled, done, units, workVars, supVars, slowed>>

-----------------------------------------------------------------------------
(* A worker thread. *)

At(w, here) == phase = "running" /\ pc[w] = here
GoTo(w, there) == pc' = [pc EXCEPT ![w] = there]

(* notify_all: whoever is on the condition variable re-checks the target.  *)
(* A thread still on its way to it ("park") is not woken.                  *)
Woken == [w \in Workers |-> IF pc[w] = "waiting" THEN "top" ELSE pc[w]]

ReadTarget(w) ==
  /\ At(w, "top")
  /\ GoTo(w, IF w >= target THEN "above" ELSE "claim")
  /\ UNCHANGED <<callVars, next, target, throttled, done, units, job, ran, supVars, slowed>>

ReadNext(w) ==
  /\ At(w, "above")
  /\ GoTo(w, IF next >= NJobs THEN "exit" ELSE "park")
  /\ UNCHANGED <<callVars, next, target, throttled, done, units, job, ran, supVars, slowed>>

Park(w) ==
  /\ At(w, "park")
  /\ GoTo(w, "waiting")
  /\ UNCHANGED <<callVars, next, target, throttled, done, units, job, ran, supVars, slowed>>

(* A mutant: a plain wait, with no timeout behind it. *)
NoBackstop(w) == At(w, "none") /\ UNCHANGED vars

(* The wait gave up after IDLE_BACKSTOP, or woke spuriously. *)
Backstop(w) ==
  /\ At(w, "waiting")
  /\ GoTo(w, "top")
  /\ UNCHANGED <<callVars, next, target, throttled, done, units, job, ran, supVars, slowed>>

(* A mutant: the index is read and written back in two unguarded halves,   *)
(* so that a claim may leave it as another claim found it.                 *)
TornClaim(w) ==
  /\ At(w, "claim")
  /\ next' \in {next, next + 1}
  /\ IF next < NJobs
       THEN GoTo(w, "work") /\ job' = [job EXCEPT ![w] = next]
       ELSE GoTo(w, "wake") /\ UNCHANGED job
  /\ UNCHANGED <<callVars, target, throttled, done, units, ran, supVars, slowed>>

Claim(w) ==
  /\ At(w, "claim")
  /\ next' = next + 1
  /\ IF next < NJobs
       THEN GoTo(w, "work") /\ job' = [job EXCEPT ![w] = next]
       ELSE GoTo(w, "wake") /\ UNCHANGED job
  /\ UNCHANGED <<callVars, target, throttled, done, units, ran, supVars, slowed>>

(* The job in hand got a SlowDown from the service: note_throttle. *)
NoteThrottle(w) ==
  /\ At(w, "work")
  /\ throttled' = TRUE
  /\ slowed' = TRUE
  /\ UNCHANGED <<callVars, next, target, done, units, workVars, supVars>>

Finish(w) ==
  /\ At(w, "work")
  /\ ran' = [ran EXCEPT ![job[w]] = @ + 1]
  /\ units' = units + 1
  /\ GoTo(w, "top")
  /\ UNCHANGED <<callVars, next, target, throttled, done, job, supVars, slowed>>

WakeIdle(w) ==
  /\ At(w, "wake")
  /\ pc' = [Woken EXCEPT ![w] = "exit"]
  /\ UNCHANGED <<callVars, next, target, throttled, done, units, job, ran, supVars, slowed>>

Worker(w) ==
  \/ ReadTarget(w)
  \/ ReadNext(w)
  \/ Park(w)
  \/ Backstop(w)
  \/ Claim(w)
  \/ Finish(w)
  \/ WakeIdle(w)

-----------------------------------------------------------------------------
(* The supervisor thread. *)

SupLoop ==
  /\ sup = "loop"
  /\ sup' = IF done THEN "exit" ELSE "sleep"
  /\ UNCHANGED <<callVars, next, target, throttled, done, units, workVars, control, lastUnits, slowed>>

SupWake ==
  /\ sup = "sleep"
  /\ sup' = IF done THEN "exit" ELSE "sample"
  /\ UNCHANGED <<callVars, next, target, throttled, done, units, workVars, control, lastUnits, slowed>>

SupSample ==
  /\ sup = "sample"
  /\ \E rate \in Rates :
       /\ (rate = 0) <=> (units = lastUnits)
       /\ LET state == [target |-> target, best |-> control.best,
                        floor |-> control.floor, degrading |-> control.degrading]
              now == Decide(state, rate, Ceiling, throttled)
          IN  /\ target' = now.target
              /\ control' = [best |-> now.best, floor |-> now.floor, degrading |-> now.degrading]
              /\ sup' = IF now.target > target THEN "notify" ELSE "loop"
  /\ lastUnits' = units
  /\ throttled' = FALSE
  /\ UNCHANGED <<callVars, next, done, units, workVars, slowed>>

SupNotify ==
  /\ sup = "notify"
  /\ sup' = "loop"
  /\ pc' = Woken
  /\ UNCHANGED <<callVars, next, target, throttled, done, units, job, ran, control, lastUnits, slowed>>

Supervisor == SupLoop \/ SupWake \/ SupSample \/ SupNotify

Caller == RunEmpty \/ Run \/ JoinWorkers \/ Return

Next ==
  \/ Caller
  \/ Supervisor
  \/ \E w \in Workers : Worker(w) \/ NoteThrottle(w)

(* Every thread is scheduled, and a job's request ends: the transport      *)
(* gives up on an idle connection.  Nothing is assumed of the service's    *)
(* throttling.                                                             *)
Fairness ==
  /\ WF_vars(Caller)
  /\ WF_vars(Supervisor)
  /\ \A w \in Workers : WF_vars(Worker(w))

Spec == Init /\ [][Next]_vars
FairSpec == Spec /\ Fairness

-----------------------------------------------------------------------------
Places == {"none", "top", "above", "park", "waiting", "claim", "work", "wake", "exit"}
Control == [best : Nat, floor : Nat \ {0}, degrading : Nat]

(* The type invariant. *)
TypeOK ==
  /\ call \in 1 .. (Len(Batches) + 1)
  /\ phase \in {"idle", "running", "joined"}
  /\ phase # "idle" => call <= Len(Batches) /\ NJobs > 0
  /\ next \in Nat
  /\ target \in 1 .. MaxWorkers
  /\ throttled \in BOOLEAN
  /\ done \in BOOLEAN
  /\ units \in Nat
  /\ pc \in [Workers -> Places]
  /\ job \in [Workers -> Nat]
  /\ sup \in {"loop", "sleep", "sample", "notify", "exit"}
  /\ control \in Control
  /\ lastUnits \in Nat
  /\ ran \in [JobIds -> Nat]
  /\ slowed \in BOOLEAN

Working(w) == phase # "idle" /\ w \in Spawned /\ pc[w] = "work"

(* Every job runs exactly once: none runs twice, and when the workers have *)
(* been joined all of them have run (pool.rs, test runs_every_job_once),   *)
(* whatever the target did meanwhile.                                      *)
EachJobOnce ==
  /\ \A j \in JobIds : ran[j] <= 1
  /\ phase = "joined" => \A j \in 0 .. (NJobs - 1) : ran[j] = 1

(* Steering stays in its band: a growing target never passes the ceiling   *)
(* of the call, and as long as the service has never asked to slow down a  *)
(* shrinking one never passes the reference's fixed worker count           *)
(* ("Never drop below the reference's fixed count unless the service has   *)
(* actually asked us to slow down").                                       *)
InBand ==
  /\ target' > target => target' <= Ceiling
  /\ target' < target /\ ~slowed => target' >= Smaller(BaseFloor, Ceiling)
SteeringStaysInBand == [][InBand]_vars

(* The calls all return: no wakeup the workers miss strands one of them,   *)
(* and the supervisor sees the end of its own call.                        *)
PoolReturns == <>(call = Len(Batches) + 1)

(* The pool implements the abstract batch of jobs: those at or above the   *)
(* index are to do, those in the workers' hands are active, those that ran *)
(* are finished.                                                           *)
JobSets == [b \in DOMAIN Batches |-> 0 .. (Batches[b] - 1)]
AbsTodo == IF phase = "idle" THEN {} ELSE {j \in 0 .. (NJobs - 1) : j >= next}
AbsActive == {job[w] : w \in {v \in Workers : Working(v)}}
AbsFinished == IF phase = "idle" THEN {} ELSE {j \in 0 .. (NJobs - 1) : ran[j] > 0}

Batch == INSTANCE JobBatch WITH
  Batches <- JobSets,
  running <- phase # "idle",
  todo <- AbsTodo,
  active <- AbsActive,
  finished <- AbsFinished

ImplementsBatch == Batch!AbsSpec
===============================================================================
