--------------------------- MODULE WorkerPoolProofs ---------------------------
(***************************************************************************)
(* Theorems about the worker pool, for every number of workers, every      *)
(* tuning and every series of calls; and the instance on which TLC checks  *)
(* it: three calls of one pool, the second with nothing to do, and rates   *)
(* that stall, rise and fall.                                              *)
(***************************************************************************)
EXTENDS WorkerPool, SequenceTheorems, TLAPS

MCBatches == <<2, 0, 3>>
MCRates == {0, 1, 2}

-----------------------------------------------------------------------------
(* Sizes and the controller. *)

(* A call's ceiling is at most the pool's, and its jobs fit the bound. *)
LEMMA CallSizes ==
  ASSUME NEW c \in 1 .. Len(Batches)
  PROVE  Batches[c] \in 0 .. MaxJobs
BY PoolAssumption, ElementOfSeq

LEMMA CeilingType ==
  ASSUME call \in 1 .. Len(Batches)
  PROVE  /\ NJobs \in 0 .. MaxJobs
         /\ NJobs > 0 => Ceiling \in 1 .. MaxWorkers
         /\ NJobs > 0 => Spawned \subseteq Workers /\ 0 \in Spawned
<1>1. NJobs \in 0 .. MaxJobs
  BY CallSizes DEF NJobs
<1>2. NJobs > 0 => Ceiling \in 1 .. MaxWorkers
  BY <1>1, PoolAssumption DEF Ceiling, Smaller
<1>3. NJobs > 0 => Spawned \subseteq Workers /\ 0 \in Spawned
  BY <1>2, PoolAssumption DEF Spawned, Workers
<1>4. QED
  BY <1>1, <1>2, <1>3

(* Growing raises the target and stops at the ceiling. *)
LEMMA GrownBounds ==
  ASSUME NEW t \in Nat \ {0}, NEW c \in Nat \ {0}, t < c
  PROVE  Grown(t, c) \in t .. c
<1> DEFINE step == Larger((t * Larger(Growth - 100, 0)) \div 100, 2)
<1>1. Larger(Growth - 100, 0) \in Nat
  BY PoolAssumption DEF Larger
<1>2. t * Larger(Growth - 100, 0) \in Int
  BY <1>1
<1>3. (t * Larger(Growth - 100, 0)) \div 100 \in Int
  BY <1>2
<1>4. step \in Nat /\ step >= 2
  BY <1>3 DEF Larger
<1>5. Grown(t, c) = Smaller(t + step, c)
  BY DEF Grown
<1> HIDE DEF step
<1>6. QED
  BY <1>4, <1>5 DEF Smaller

(* What a decision d, taken in state s, never does: the new target is one  *)
(* the pool may have, it grows no further than the ceiling, and unless the *)
(* service asked to slow down it shrinks no further than the floor, which  *)
(* then stays what it was.                                                 *)
Bounded(d, s, ceiling, slowDown) ==
  /\ d.target \in 1 .. MaxWorkers
  /\ d.best \in Nat
  /\ d.floor \in Nat \ {0}
  /\ d.degrading \in Nat
  /\ d.target > s.target => d.target <= ceiling
  /\ ~slowDown => d.floor = s.floor
  /\ ~slowDown /\ d.target < s.target => d.target >= s.floor

ControlState == [target : 1 .. MaxWorkers, best : Nat, floor : Nat \ {0}, degrading : Nat]

(* Of three conditions that exclude one another the second holds. *)
LEMMA SecondCase ==
  ASSUME NEW slow \in BOOLEAN, NEW up \in BOOLEAN, NEW down \in BOOLEAN,
         NEW a, NEW b, NEW c, NEW d, ~slow, up, ~down
  PROVE  (CASE slow -> a [] ~slow /\ up -> b [] ~slow /\ down -> c [] OTHER -> d) = b
OBVIOUS

LEMMA DecideBounds ==
  ASSUME NEW s \in ControlState,
         NEW rate \in Nat, NEW c \in 1 .. MaxWorkers, NEW slow \in BOOLEAN
  PROVE  Bounded(Decide(s, rate, c, slow), s, c, slow)
<1> SUFFICES ASSUME NEW d, d = Decide(s, rate, c, slow)
             PROVE  Bounded(d, s, c, slow)
  OBVIOUS
<1> USE PoolAssumption DEF ControlState, Bounded
<1>1. CASE slow
  <2>1. d = [target |-> Halved(s.target), best |-> 0, floor |-> 1, degrading |-> 0]
    BY <1>1 DEF Decide
  <2>2. Halved(s.target) \in 1 .. s.target
    BY DEF Halved, Larger
  <2>3. /\ d.target \in 1 .. MaxWorkers
        /\ d.best \in Nat
        /\ d.floor \in Nat \ {0}
        /\ d.degrading \in Nat
        /\ ~(d.target > s.target)
    BY <2>1, <2>2
  <2>4. QED
    BY <1>1, <2>3, Zenon
<1>2. CASE ~slow /\ 100 * rate > 105 * s.best
  <2>1. d = [s EXCEPT !.target = IF s.target < c THEN Grown(s.target, c) ELSE s.target,
                      !.best = Larger(rate, s.best),
                      !.degrading = 0]
    <3> DEFINE up == 100 * rate > 105 * s.best
               down == 100 * rate < 90 * s.best /\ s.target > s.floor
               grown == [s EXCEPT !.target = IF @ < c THEN Grown(@, c) ELSE @,
                                  !.best = Larger(rate, @), !.degrading = 0]
               shrunk == IF s.degrading + 1 < Patience
                         THEN [s EXCEPT !.degrading = @ + 1]
                         ELSE [s EXCEPT !.target = Shrunk(@, s.floor), !.best = rate, !.degrading = 0]
               reset == [target |-> Halved(s.target), best |-> 0, floor |-> 1, degrading |-> 0]
               same == [s EXCEPT !.degrading = 0]
    <3>1. d = CASE slow -> reset [] ~slow /\ up -> grown
                [] ~slow /\ down -> shrunk [] OTHER -> same
      BY Zenon DEF Decide
    <3>2. up /\ ~down /\ up \in BOOLEAN /\ down \in BOOLEAN
      BY <1>2
    <3> HIDE DEF up, down, grown, shrunk, reset, same
    <3>3. d = grown
      BY <1>2, <3>1, <3>2, SecondCase, Zenon
    <3>4. QED
      BY <3>3, Zenon DEF grown
  <2>2. s.target < c => Grown(s.target, c) \in s.target .. c
    BY GrownBounds
  <2>3. Larger(rate, s.best) \in Nat
    BY DEF Larger
  <2>4. /\ d.target = IF s.target < c THEN Grown(s.target, c) ELSE s.target
        /\ d.best = Larger(rate, s.best) /\ d.floor = s.floor /\ d.degrading = 0
    BY <2>1
  <2>5. d.target \in 1 .. MaxWorkers /\ d.target >= s.target /\ (d.target > s.target => d.target <= c)
    <3>1. CASE s.target < c
      BY <2>2, <2>4, <3>1
    <3>2. CASE ~(s.target < c)
      BY <2>4, <3>2
    <3>3. QED
      BY <3>1, <3>2
  <2>6. d.best \in Nat /\ d.floor \in Nat \ {0} /\ d.degrading \in Nat
    BY <2>3, <2>4
  <2>7. ~(d.target < s.target)
    BY <2>5
  <2>8. QED
    BY <2>4, <2>5, <2>6, <2>7, Zenon
<1>3. CASE ~slow /\ ~(100 * rate > 105 * s.best)
               /\ 100 * rate < 90 * s.best /\ s.target > s.floor
  <2>1. Shrunk(s.target, s.floor) \in s.floor .. (s.target - 1)
    BY <1>3 DEF Shrunk, Larger
  <2>2. d = IF s.degrading + 1 < Patience
              THEN [s EXCEPT !.degrading = s.degrading + 1]
              ELSE [s EXCEPT !.target = Shrunk(s.target, s.floor), !.best = rate, !.degrading = 0]
    BY <1>3 DEF Decide
  <2>3. CASE s.degrading + 1 < Patience
    <3>1. d = [s EXCEPT !.degrading = s.degrading + 1]
      BY <2>2, <2>3
    <3>2. QED
      BY <3>1
  <2>4. CASE ~(s.degrading + 1 < Patience)
    <3>1. d = [s EXCEPT !.target = Shrunk(s.target, s.floor), !.best = rate, !.degrading = 0]
      BY <2>2, <2>4
    <3>2. /\ d.target = Shrunk(s.target, s.floor)
          /\ d.best = rate
          /\ d.floor = s.floor
          /\ d.degrading = 0
      BY <3>1
    <3>3. d.target \in 1 .. MaxWorkers /\ d.target < s.target /\ d.target >= s.floor
      BY <1>3, <2>1, <3>2
    <3>4. QED
      BY <3>2, <3>3
  <2>5. QED
    BY <2>3, <2>4
<1>4. CASE ~slow /\ ~(100 * rate > 105 * s.best)
               /\ ~(100 * rate < 90 * s.best /\ s.target > s.floor)
  <2>1. d = [s EXCEPT !.degrading = 0]
    BY <1>4 DEF Decide
  <2>2. d.target = s.target /\ d.best = s.best /\ d.floor = s.floor /\ d.degrading = 0
    BY <2>1
  <2>3. QED
    BY <1>4, <2>2
<1>5. QED
  BY <1>1, <1>2, <1>3, <1>4

-----------------------------------------------------------------------------
(* The type invariant. *)

LEMMA InitType == Init => TypeOK
<1> SUFFICES ASSUME Init
             PROVE  TypeOK
  OBVIOUS
<1>1. Len(Batches) \in Nat /\ target \in 1 .. MaxWorkers
  BY PoolAssumption DEF Init
<1>2. control \in Control /\ 1 \in 1 .. (Len(Batches) + 1)
  BY <1>1 DEF Init, Control
<1>3. QED
  BY <1>1, <1>2 DEF Init, TypeOK, Places

LEMMA CallerType == TypeOK /\ Caller => TypeOK'
<1> SUFFICES ASSUME TypeOK, Caller
             PROVE  TypeOK'
  OBVIOUS
<1> USE DEF TypeOK, Places
<1> Len(Batches) \in Nat
  BY PoolAssumption
<1>1. CASE RunEmpty
  BY <1>1 DEF RunEmpty, workVars, supVars
<1>2. CASE Run
  <2>1. call \in 1 .. Len(Batches)
    BY <1>2 DEF Run
  <2>2. Ceiling \in 1 .. MaxWorkers
    BY <1>2, <2>1, CeilingType DEF Run
  <2>3. control' \in Control
    BY <1>2, <2>2, PoolAssumption DEF Run, Control, Smaller
  <2>4. call' = call /\ NJobs' = NJobs
    BY <1>2 DEF Run, NJobs
  <2>5. QED
    BY <1>2, <2>1, <2>3, <2>4 DEF Run
<1>3. CASE JoinWorkers
  BY <1>3 DEF JoinWorkers, workVars, supVars, NJobs
<1>4. CASE Return
  BY <1>4 DEF Return, workVars, supVars
<1>5. QED
  BY <1>1, <1>2, <1>3, <1>4 DEF Caller

LEMMA WorkerType ==
  ASSUME TypeOK, NEW w \in Workers, Worker(w) \/ NoteThrottle(w)
  PROVE  TypeOK'
<1> USE DEF TypeOK, Places, At, GoTo, callVars, workVars, supVars
<1>0. (NJobs' = NJobs) \/ call' # call
  BY DEF NJobs
<1>1. CASE ReadTarget(w)
  BY <1>0, <1>1 DEF ReadTarget
<1>2. CASE ReadNext(w)
  BY <1>0, <1>2 DEF ReadNext
<1>3. CASE Park(w)
  BY <1>0, <1>3 DEF Park
<1>4. CASE Backstop(w)
  BY <1>0, <1>4 DEF Backstop
<1>5. CASE Claim(w)
  BY <1>0, <1>5 DEF Claim
<1>6. CASE Finish(w)
  <2>1. ran' \in [JobIds -> Nat]
    <3>1. ran' = [j \in JobIds |-> IF j = job[w] THEN ran[j] + 1 ELSE ran[j]]
      BY <1>6 DEF Finish
    <3>2. QED
      BY <3>1
  <2>2. units' \in Nat
    BY <1>6 DEF Finish
  <2>3. QED
    BY <1>0, <1>6, <2>1, <2>2 DEF Finish
<1>7. CASE WakeIdle(w)
  <2>1. Woken \in [Workers -> Places]
    BY DEF Woken, Places
  <2>2. QED
    BY <1>0, <1>7, <2>1 DEF WakeIdle
<1>8. CASE NoteThrottle(w)
  BY <1>0, <1>8 DEF NoteThrottle
<1>9. QED
  BY <1>1, <1>2, <1>3, <1>4, <1>5, <1>6, <1>7, <1>8 DEF Worker

(* The supervisor runs only while a call does. *)
SupervisorInCall == sup # "exit" => phase # "idle"

(* The state decide is handed by the supervisor. *)
Carried == [target |-> target, best |-> control.best,
            floor |-> control.floor, degrading |-> control.degrading]

(* A sample is one decision. *)
LEMMA SampleBounds ==
  ASSUME TypeOK, SupervisorInCall, SupSample
  PROVE  /\ target' \in 1 .. MaxWorkers
         /\ control' \in Control
         /\ sup' \in {"loop", "notify"}
         /\ target' > target => target' <= Ceiling
         /\ ~throttled => control'.floor = control.floor
         /\ ~throttled /\ target' < target => target' >= control.floor
<1>1. phase # "idle" /\ call \in 1 .. Len(Batches) /\ NJobs > 0
  BY PoolAssumption DEF SupSample, SupervisorInCall, TypeOK
<1>2. Ceiling \in 1 .. MaxWorkers
  BY <1>1, CeilingType
<1>3. PICK rate \in Rates :
        LET now == Decide(Carried, rate, Ceiling, throttled)
        IN  /\ target' = now.target
            /\ control' = [best |-> now.best, floor |-> now.floor, degrading |-> now.degrading]
            /\ sup' = IF now.target > target THEN "notify" ELSE "loop"
  BY DEF SupSample, Carried
<1> DEFINE now == Decide(Carried, rate, Ceiling, throttled)
<1>4. Carried \in ControlState
  BY DEF TypeOK, Control, Carried, ControlState
<1>5. rate \in Nat
  BY PoolAssumption
<1>6. Bounded(now, Carried, Ceiling, throttled)
  BY <1>2, <1>4, <1>5, DecideBounds DEF TypeOK
<1>7. /\ target' = now.target
      /\ control' = [best |-> now.best, floor |-> now.floor, degrading |-> now.degrading]
      /\ sup' = IF now.target > target THEN "notify" ELSE "loop"
  BY <1>3
<1>8. Carried.target = target /\ Carried.floor = control.floor
  BY DEF Carried
<1> HIDE DEF now
<1>9. QED
  BY <1>6, <1>7, <1>8 DEF Bounded, Control

LEMMA SupervisorType == TypeOK /\ SupervisorInCall /\ Supervisor => TypeOK'
<1> SUFFICES ASSUME TypeOK, SupervisorInCall, Supervisor
             PROVE  TypeOK'
  OBVIOUS
<1> USE DEF TypeOK, callVars, workVars
<1>1. CASE SupLoop
  BY <1>1 DEF SupLoop, NJobs
<1>2. CASE SupWake
  BY <1>2 DEF SupWake, NJobs
<1>3. CASE SupSample
  <2>1. target' \in 1 .. MaxWorkers /\ control' \in Control /\ sup' \in {"loop", "notify"}
    BY <1>3, SampleBounds
  <2>2. QED
    BY <1>3, <2>1 DEF SupSample, NJobs
<1>4. CASE SupNotify
  BY <1>4 DEF SupNotify, Woken, NJobs, Places
<1>5. QED
  BY <1>1, <1>2, <1>3, <1>4 DEF Supervisor

LEMMA SupervisorStaysInCall ==
  TypeOK /\ SupervisorInCall /\ [Next]_vars => SupervisorInCall'
<1> SUFFICES ASSUME TypeOK, SupervisorInCall, [Next]_vars
             PROVE  SupervisorInCall'
  OBVIOUS
<1> USE DEF SupervisorInCall, callVars, workVars, supVars
<1>1. CASE Caller
  BY <1>1 DEF Caller, RunEmpty, Run, JoinWorkers, Return
<1>2. CASE Supervisor
  BY <1>2 DEF Supervisor, SupLoop, SupWake, SupSample, SupNotify
<1>3. ASSUME NEW w \in Workers, Worker(w) \/ NoteThrottle(w)
      PROVE  SupervisorInCall'
  BY <1>3 DEF Worker, ReadTarget, ReadNext, Park, Backstop, Claim, Finish, WakeIdle, NoteThrottle
<1>4. CASE UNCHANGED vars
  BY <1>4 DEF vars
<1>5. QED
  BY <1>1, <1>2, <1>3, <1>4 DEF Next

LEMMA TypeStep == TypeOK /\ SupervisorInCall /\ [Next]_vars => TypeOK'
<1> SUFFICES ASSUME TypeOK, SupervisorInCall, [Next]_vars
             PROVE  TypeOK'
  OBVIOUS
<1>1. CASE Caller
  BY <1>1, CallerType
<1>2. CASE Supervisor
  BY <1>2, SupervisorType
<1>3. ASSUME NEW w \in Workers, Worker(w) \/ NoteThrottle(w)
      PROVE  TypeOK'
  BY <1>3, WorkerType
<1>4. CASE UNCHANGED vars
  BY <1>4 DEF vars, callVars, workVars, supVars, TypeOK, NJobs
<1>5. QED
  BY <1>1, <1>2, <1>3, <1>4 DEF Next

(* In every behaviour of the pool its variables keep their types: the      *)
(* target stays between one worker and the hard ceiling, through every     *)
(* decision of `decide`, and the supervisor's floor stays positive.        *)
THEOREM TypeCorrect == Spec => []TypeOK
<1>1. Init => TypeOK /\ SupervisorInCall
  BY InitType DEF Init, SupervisorInCall
<1>2. TypeOK /\ SupervisorInCall /\ [Next]_vars => (TypeOK /\ SupervisorInCall)'
  BY TypeStep, SupervisorStaysInCall
<1>3. QED
  BY <1>1, <1>2, PTL DEF Spec

-----------------------------------------------------------------------------
(* Each job runs once.  EachJobOnce is not inductive: it says nothing of   *)
(* the jobs in hand, nor of why a worker may leave.  While a call is in    *)
(* progress, the jobs below `next` are exactly those in some worker's hand *)
(* and those that ran; and a worker leaves only when no job is unclaimed.  *)

InHand(j) == \E w \in Workers : pc[w] = "work" /\ job[w] = j

OnlySpawned == \A w \in Workers \ Spawned : pc[w] = "none"
Claimed == \A w \in Workers : pc[w] = "work" => job[w] < next /\ job[w] < NJobs
Apart == \A v, w \in Workers : pc[v] = "work" /\ pc[w] = "work" /\ job[v] = job[w] => v = w
Counted == \A j \in JobIds : ran[j] = IF j < next /\ j < NJobs /\ ~InHand(j) THEN 1 ELSE 0
Drained == \A w \in Workers : pc[w] \in {"wake", "exit"} => next >= NJobs
AllLeft == phase = "joined" => \A w \in Spawned : pc[w] = "exit"

CallInv == OnlySpawned /\ Claimed /\ Apart /\ Counted /\ Drained /\ AllLeft

IInv ==
  /\ TypeOK
  /\ SupervisorInCall
  /\ \A j \in JobIds : ran[j] <= 1
  /\ phase # "idle" => CallInv

(* The sizes of a call in progress. *)
LEMMA InCall ==
  ASSUME TypeOK, phase # "idle"
  PROVE  /\ NJobs \in 1 .. MaxJobs
         /\ Ceiling \in 1 .. MaxWorkers
         /\ Spawned \subseteq Workers /\ 0 \in Spawned
<1>1. call \in 1 .. Len(Batches) /\ NJobs > 0
  BY PoolAssumption DEF TypeOK
<1>2. QED
  BY <1>1, CeilingType

LEMMA InvImplies == IInv => EachJobOnce
<1> SUFFICES ASSUME IInv
             PROVE  EachJobOnce
  OBVIOUS
<1>1. ASSUME phase = "joined", NEW j \in 0 .. (NJobs - 1)
      PROVE  ran[j] = 1
  <2>1. CallInv /\ NJobs \in 1 .. MaxJobs /\ Spawned \subseteq Workers /\ 0 \in Spawned
    BY <1>1, InCall DEF IInv
  <2>2. next >= NJobs
    BY <1>1, <2>1 DEF CallInv, AllLeft, Drained
  <2>3. ~InHand(j)
    BY <1>1, <2>1 DEF CallInv, AllLeft, OnlySpawned, InHand
  <2>4. j \in JobIds /\ j < NJobs /\ j < next
    BY <2>1, <2>2, PoolAssumption DEF JobIds, IInv, TypeOK
  <2>5. QED
    BY <2>1, <2>3, <2>4 DEF CallInv, Counted
<1>2. QED
  BY <1>1 DEF EachJobOnce, IInv

(* A step that takes up no job and completes none keeps the account, if    *)
(* nobody leaves early.                                                    *)
LEMMA QuietStep ==
  ASSUME CallInv,
         UNCHANGED <<call, phase, next, job, ran>>,
         \A w \in Workers :
           /\ pc'[w] = "work" <=> pc[w] = "work"
           /\ pc[w] = "none" => pc'[w] = "none"
           /\ pc[w] = "exit" => pc'[w] = "exit"
           /\ pc'[w] \in {"wake", "exit"} => pc[w] \in {"wake", "exit"} \/ next >= NJobs,
         Spawned \subseteq Workers
  PROVE  CallInv'
<1>1. NJobs' = NJobs /\ Spawned' = Spawned
  BY DEF NJobs, Spawned, Ceiling
<1>2. \A j : InHand(j)' <=> InHand(j)
  BY DEF InHand
<1>3. OnlySpawned' /\ Drained' /\ AllLeft'
  BY <1>1 DEF CallInv, OnlySpawned, Drained, AllLeft
<1>4. Claimed' /\ Apart'
  BY <1>1 DEF CallInv, Claimed, Apart
<1>5. Counted'
  BY <1>1, <1>2 DEF CallInv, Counted
<1>6. QED
  BY <1>3, <1>4, <1>5 DEF CallInv

LEMMA WorkerStep ==
  ASSUME IInv, NEW w \in Workers, Worker(w) \/ NoteThrottle(w)
  PROVE  (phase # "idle" => CallInv)' /\ (\A j \in JobIds : ran[j] <= 1)'
<1>1. /\ phase = "running" /\ call' = call /\ phase' = phase
      /\ pc[w] \in {"top", "above", "park", "waiting", "claim", "work", "wake"}
  BY DEF Worker, ReadTarget, ReadNext, Park, Backstop, Claim, Finish, WakeIdle, NoteThrottle, At, callVars
<1>2. CallInv /\ NJobs \in 1 .. MaxJobs /\ Spawned \subseteq Workers
  BY <1>1, InCall DEF IInv
<1>3. NJobs' = NJobs /\ Spawned' = Spawned
  BY <1>1 DEF NJobs, Spawned, Ceiling
<1>4. w \in Spawned
  BY <1>1, <1>2 DEF CallInv, OnlySpawned
<1> USE DEF At, GoTo, callVars, workVars
<1>5. CASE ReadTarget(w) \/ ReadNext(w) \/ Park(w) \/ Backstop(w) \/ WakeIdle(w) \/ NoteThrottle(w)
  <2>1. UNCHANGED <<next, job, ran>>
    BY <1>5 DEF ReadTarget, ReadNext, Park, Backstop, WakeIdle, NoteThrottle
  <2>2. \A v \in Workers :
           /\ pc'[v] = "work" <=> pc[v] = "work"
           /\ pc[v] = "none" => pc'[v] = "none"
           /\ pc[v] = "exit" => pc'[v] = "exit"
           /\ pc'[v] \in {"wake", "exit"} => pc[v] \in {"wake", "exit"} \/ next >= NJobs
    BY <1>5 DEF ReadTarget, ReadNext, Park, Backstop, WakeIdle, NoteThrottle, Woken, IInv, TypeOK
  <2>3. QED
    BY <1>1, <1>2, <2>1, <2>2, QuietStep DEF IInv
<1>6. CASE Claim(w) /\ next < NJobs
  <2>1. /\ next \in Nat /\ next' = next + 1 /\ ran' = ran
        /\ pc' = [pc EXCEPT ![w] = "work"] /\ job' = [job EXCEPT ![w] = next]
        /\ pc \in [Workers -> Places] /\ job \in [Workers -> Nat]
    BY <1>6 DEF Claim, IInv, TypeOK
  <2>2. \A v \in Workers : pc'[v] = "work" /\ v # w => pc[v] = "work" /\ job'[v] = job[v] /\ job[v] < next
    BY <1>2, <2>1 DEF CallInv, Claimed
  <2>3. pc[w] # "work" /\ pc'[w] = "work" /\ job'[w] = next
    BY <1>6, <2>1 DEF Claim
  <2>4. Claimed' /\ Apart'
    BY <1>2, <1>3, <1>6, <2>1, <2>2, <2>3 DEF CallInv, Claimed, Apart
  <2>5. OnlySpawned' /\ Drained' /\ AllLeft'
    BY <1>1, <1>2, <1>3, <1>4, <1>6, <2>1 DEF CallInv, OnlySpawned, Drained, AllLeft
  <2>6. \A j \in JobIds : InHand(j)' <=> InHand(j) \/ j = next
    BY <2>1, <2>2, <2>3 DEF InHand
  <2>7. Counted'
    BY <1>2, <1>3, <1>6, <2>1, <2>6 DEF CallInv, Counted, JobIds
  <2>8. QED
    BY <2>1, <2>4, <2>5, <2>7 DEF CallInv, IInv
<1>7. CASE Claim(w) /\ ~(next < NJobs)
  <2>1. /\ next \in Nat /\ next' = next + 1 /\ ran' = ran /\ job' = job /\ next >= NJobs
        /\ pc' = [pc EXCEPT ![w] = "wake"]
        /\ pc \in [Workers -> Places] /\ job \in [Workers -> Nat]
    BY <1>2, <1>7 DEF Claim, IInv, TypeOK
  <2>2. \A v \in Workers : pc'[v] = "work" <=> pc[v] = "work"
    BY <1>7, <2>1 DEF Claim
  <2>3. Claimed' /\ Apart'
    BY <1>2, <1>3, <2>1, <2>2 DEF CallInv, Claimed, Apart
  <2>4. OnlySpawned' /\ Drained' /\ AllLeft'
    BY <1>1, <1>2, <1>3, <1>4, <2>1 DEF CallInv, OnlySpawned, Drained, AllLeft
  <2>5. \A j \in JobIds : InHand(j)' <=> InHand(j)
    BY <2>1, <2>2 DEF InHand
  <2>6. Counted'
    BY <1>2, <1>3, <2>1, <2>5 DEF CallInv, Counted, JobIds
  <2>7. QED
    BY <2>1, <2>3, <2>4, <2>6 DEF CallInv, IInv
<1>8. CASE Finish(w)
  <2>1. /\ next' = next /\ job' = job /\ pc[w] = "work"
        /\ ran' = [ran EXCEPT ![job[w]] = ran[job[w]] + 1]
        /\ pc' = [pc EXCEPT ![w] = "top"]
        /\ pc \in [Workers -> Places] /\ job \in [Workers -> Nat] /\ ran \in [JobIds -> Nat]
        /\ next \in Nat
    BY <1>8 DEF Finish, IInv, TypeOK
  <2>2. \A v \in Workers : pc'[v] = "work" <=> pc[v] = "work" /\ v # w
    BY <2>1
  <2>3. Claimed' /\ Apart'
    BY <1>2, <1>3, <2>1, <2>2 DEF CallInv, Claimed, Apart
  <2>4. OnlySpawned' /\ Drained' /\ AllLeft'
    BY <1>1, <1>2, <1>3, <1>4, <2>1 DEF CallInv, OnlySpawned, Drained, AllLeft
  <2>5. \A j \in JobIds : InHand(j)' <=> InHand(j) /\ j # job[w]
    BY <1>2, <2>1, <2>2 DEF InHand, CallInv, Apart
  <2>6. job[w] < next /\ job[w] < NJobs /\ InHand(job[w])
    BY <1>2, <2>1 DEF CallInv, Claimed, InHand
  <2>7. \A j \in JobIds : ran'[j] = IF j = job[w] THEN ran[j] + 1 ELSE ran[j]
    BY <2>1
  <2>8. Counted'
    BY <1>2, <1>3, <2>1, <2>5, <2>6, <2>7 DEF CallInv, Counted
  <2>9. (\A j \in JobIds : ran[j] <= 1)'
    BY <2>8 DEF Counted
  <2>10. QED
    BY <2>3, <2>4, <2>8, <2>9 DEF CallInv
<1>9. QED
  BY <1>5, <1>6, <1>7, <1>8 DEF Worker

LEMMA CallerStep ==
  ASSUME IInv, Caller
  PROVE  (phase # "idle" => CallInv)' /\ (\A j \in JobIds : ran[j] <= 1)'
<1> USE DEF callVars, workVars, supVars
<1>1. CASE RunEmpty
  BY <1>1 DEF RunEmpty, IInv
<1>2. CASE Run
  <2>1. call \in 1 .. Len(Batches) /\ NJobs > 0
    BY <1>2, PoolAssumption DEF Run, IInv, TypeOK
  <2>2. NJobs \in 1 .. MaxJobs /\ Spawned \subseteq Workers
    BY <2>1, CeilingType
  <2>3. /\ NJobs' = NJobs /\ Spawned' = Spawned /\ next' = 0 /\ phase' = "running"
        /\ pc' = [w \in Workers |-> IF w \in Spawned THEN "top" ELSE "none"]
        /\ ran' = [j \in JobIds |-> 0]
    BY <1>2 DEF Run, NJobs, Spawned, Ceiling
  <2>4. OnlySpawned' /\ Claimed' /\ Apart' /\ Drained' /\ AllLeft'
    BY <2>2, <2>3 DEF OnlySpawned, Claimed, Apart, Drained, AllLeft
  <2>5. Counted'
    BY <2>2, <2>3 DEF Counted, JobIds
  <2>6. QED
    BY <2>3, <2>4, <2>5 DEF CallInv
<1>3. CASE JoinWorkers
  <2>1. /\ CallInv /\ phase' = "joined" /\ UNCHANGED <<call, next, pc, job, ran>>
        /\ \A w \in Spawned : pc[w] = "exit"
    BY <1>3 DEF JoinWorkers, IInv
  <2>2. NJobs' = NJobs /\ Spawned' = Spawned
    BY <2>1 DEF NJobs, Spawned, Ceiling
  <2>3. CallInv'
    BY <2>1, <2>2 DEF CallInv, OnlySpawned, Claimed, Apart, Counted, InHand, Drained, AllLeft
  <2>4. QED
    BY <2>1, <2>3 DEF IInv
<1>4. CASE Return
  BY <1>4 DEF Return, IInv
<1>5. QED
  BY <1>1, <1>2, <1>3, <1>4 DEF Caller

LEMMA SupervisorStep ==
  ASSUME IInv, Supervisor
  PROVE  (phase # "idle" => CallInv)' /\ (\A j \in JobIds : ran[j] <= 1)'
<1>1. UNCHANGED <<call, phase, next, job, ran>>
  BY DEF Supervisor, SupLoop, SupWake, SupSample, SupNotify, callVars, workVars
<1>2. ASSUME phase # "idle"
      PROVE  CallInv'
  <2>1. CallInv /\ Spawned \subseteq Workers
    BY <1>2, InCall DEF IInv
  <2>2. pc' = pc \/ pc' = Woken
    BY DEF Supervisor, SupLoop, SupWake, SupSample, SupNotify, workVars
  <2>3. \A w \in Workers : pc'[w] = pc[w] \/ (pc[w] = "waiting" /\ pc'[w] = "top")
    BY <2>2 DEF Woken
  <2>4. \A w \in Workers :
           /\ pc'[w] = "work" <=> pc[w] = "work"
           /\ pc[w] = "none" => pc'[w] = "none"
           /\ pc[w] = "exit" => pc'[w] = "exit"
           /\ pc'[w] \in {"wake", "exit"} => pc[w] \in {"wake", "exit"} \/ next >= NJobs
    BY <2>3
  <2>5. QED
    BY <1>1, <2>1, <2>4, QuietStep
<1>3. QED
  BY <1>1, <1>2 DEF IInv

LEMMA InvInit == Init => IInv
BY InitType DEF Init, IInv, SupervisorInCall

LEMMA InvStep == IInv /\ [Next]_vars => IInv'
<1> SUFFICES ASSUME IInv, [Next]_vars
             PROVE  IInv'
  OBVIOUS
<1>1. TypeOK' /\ SupervisorInCall'
  BY TypeStep, SupervisorStaysInCall DEF IInv
<1>2. (phase # "idle" => CallInv)' /\ (\A j \in JobIds : ran[j] <= 1)'
  <2>1. CASE Caller
    BY <2>1, CallerStep
  <2>2. CASE Supervisor
    BY <2>2, SupervisorStep
  <2>3. ASSUME NEW w \in Workers, Worker(w) \/ NoteThrottle(w)
        PROVE  (phase # "idle" => CallInv)' /\ (\A j \in JobIds : ran[j] <= 1)'
    BY <2>3, WorkerStep
  <2>4. CASE UNCHANGED vars
    BY <2>4 DEF vars, callVars, workVars, IInv, CallInv, OnlySpawned, Claimed, Apart, Counted,
                InHand, Drained, AllLeft, NJobs, Spawned, Ceiling
  <2>5. QED
    BY <2>1, <2>2, <2>3, <2>4 DEF Next
<1>3. QED
  BY <1>1, <1>2 DEF IInv

LEMMA Invariance == Spec => []IInv
<1>1. QED
  BY InvInit, InvStep, PTL DEF Spec

(* Each job of each call runs exactly once before the call's workers are   *)
(* joined, whatever the supervisor does to the target meanwhile and        *)
(* however many workers and calls there are.                               *)
THEOREM JobsRunOnce == Spec => []EachJobOnce
<1>1. QED
  BY Invariance, InvImplies, PTL

-----------------------------------------------------------------------------
(* The pool implements the abstract batch of jobs. *)

LEMMA JobSetsFacts ==
  /\ Len(JobSets) = Len(Batches) /\ Len(Batches) \in Nat
  /\ \A c \in 1 .. Len(Batches) : JobSets[c] = 0 .. (Batches[c] - 1)
<1>1. Len(Batches) \in Nat /\ DOMAIN Batches = 1 .. Len(Batches)
  BY PoolAssumption, LenProperties
<1>2. JobSets \in [1 .. Len(Batches) -> SUBSET Int]
  BY <1>1, CallSizes DEF JobSets
<1>3. JobSets \in Seq(SUBSET Int)
  BY <1>1, <1>2, SeqDef
<1>4. Len(JobSets) \in Nat /\ 1 .. Len(JobSets) = 1 .. Len(Batches)
  BY <1>2, <1>3, LenProperties
<1>5. Len(JobSets) = Len(Batches)
  BY <1>1, <1>4
<1>6. QED
  BY <1>1, <1>5 DEF JobSets

(* In a call, the workers at work are spawned ones, and the abstract state *)
(* is read off the index and the account.                                  *)
LEMMA ActiveInCall ==
  ASSUME IInv, phase # "idle"
  PROVE  /\ \A j : j \in AbsActive <=> InHand(j)
         /\ IInv' /\ UNCHANGED <<call, phase>> => \A j : j \in AbsActive' <=> InHand(j)'
<1>1. CallInv /\ Spawned \subseteq Workers
  BY InCall DEF IInv
<1>2. \A j : j \in AbsActive <=> InHand(j)
  BY <1>1 DEF CallInv, OnlySpawned, AbsActive, Working, InHand
<1>3. ASSUME IInv', UNCHANGED <<call, phase>>
      PROVE  \A j : j \in AbsActive' <=> InHand(j)'
  <2>1. Spawned' = Spawned /\ phase' # "idle"
    BY <1>3 DEF Spawned, Ceiling, NJobs
  <2>2. CallInv'
    BY <1>3, <2>1 DEF IInv
  <2>3. QED
    BY <1>1, <2>1, <2>2 DEF CallInv, OnlySpawned, AbsActive, Working, InHand
<1>4. QED
  BY <1>2, <1>3

LEMMA IdleIsEmpty ==
  /\ phase = "idle" => AbsTodo = {} /\ AbsActive = {} /\ AbsFinished = {}
  /\ phase' = "idle" => AbsTodo' = {} /\ AbsActive' = {} /\ AbsFinished' = {}
BY DEF AbsTodo, AbsActive, AbsFinished, Working

LEMMA RefInit == Init => Batch!AbsInit
BY IdleIsEmpty DEF Init, Batch!AbsInit

(* A step that changes neither the call, the index, the account nor who is *)
(* at work on what is not visible.                                         *)
LEMMA Invisible ==
  ASSUME UNCHANGED <<call, next, job, ran>>,
         (phase # "idle") = (phase' # "idle"),
         \A w \in Workers : pc'[w] = "work" <=> pc[w] = "work"
  PROVE  UNCHANGED Batch!absVars
<1>1. NJobs' = NJobs /\ Spawned' = Spawned
  BY DEF NJobs, Spawned, Ceiling
<1>2. AbsTodo' = AbsTodo /\ AbsFinished' = AbsFinished
  BY <1>1 DEF AbsTodo, AbsFinished
<1>3. \A w \in Workers : Working(w)' <=> Working(w)
  BY <1>1 DEF Working
<1>4. AbsActive' = AbsActive
  BY <1>3 DEF AbsActive
<1>5. QED
  BY <1>2, <1>4 DEF Batch!absVars

LEMMA RefCaller == IInv /\ IInv' /\ Caller => [Batch!AbsNext]_(Batch!absVars)
<1> SUFFICES ASSUME IInv, IInv', Caller
             PROVE  [Batch!AbsNext]_(Batch!absVars)
  OBVIOUS
<1> USE DEF callVars, workVars, supVars
<1>0. call \in Nat \ {0}
  BY DEF IInv, TypeOK
<1>1. CASE RunEmpty
  <2>1. call \in 1 .. Len(Batches) /\ JobSets[call] = {} /\ call <= Len(JobSets)
    BY <1>0, <1>1, JobSetsFacts DEF RunEmpty, NJobs
  <2>2. phase = "idle" /\ phase' = "idle" /\ call' = call + 1
    BY <1>1 DEF RunEmpty
  <2>3. UNCHANGED <<AbsTodo, AbsActive, AbsFinished>>
    BY <2>2, IdleIsEmpty DEF RunEmpty
  <2>4. Batch!SkipEmpty
    BY <2>1, <2>2, <2>3 DEF Batch!SkipEmpty
  <2>5. QED
    BY <2>4 DEF Batch!AbsNext
<1>2. CASE Run
  <2>1. /\ call \in 1 .. Len(Batches) /\ call <= Len(JobSets)
        /\ JobSets[call] = 0 .. (NJobs - 1) /\ NJobs > 0 /\ NJobs \in Nat
    BY <1>0, <1>2, JobSetsFacts, CallSizes, PoolAssumption DEF Run, NJobs
  <2>2. phase = "idle" /\ phase' = "running" /\ call' = call /\ next' = 0
    BY <1>2 DEF Run
  <2>3. NJobs' = NJobs
    BY <2>2 DEF NJobs
  <2>4. AbsTodo' = 0 .. (NJobs - 1)
    BY <2>1, <2>2, <2>3 DEF AbsTodo
  <2>5. \A w \in Workers : pc'[w] # "work"
    BY <1>2 DEF Run
  <2>6. AbsActive' = {}
    BY <2>5 DEF AbsActive, Working
  <2>7. \A j \in JobIds : ran'[j] = 0
    BY <1>2 DEF Run
  <2>8. 0 .. (NJobs - 1) \subseteq JobIds
    BY <2>1, CeilingType, PoolAssumption DEF JobIds
  <2>9. AbsFinished' = {}
    BY <2>2, <2>3, <2>7, <2>8 DEF AbsFinished
  <2>10. AbsTodo' = JobSets[call] /\ JobSets[call] # {}
    BY <2>1, <2>4
  <2>11. AbsActive' = AbsActive /\ AbsFinished' = AbsFinished
    BY <2>2, <2>6, <2>9, IdleIsEmpty
  <2>12. Batch!StartCall
    BY <2>1, <2>2, <2>10, <2>11 DEF Batch!StartCall
  <2>13. QED
    BY <2>12 DEF Batch!AbsNext
<1>3. CASE JoinWorkers
  BY <1>3, Invisible DEF JoinWorkers
<1>4. CASE Return
  <2>1. phase = "joined" /\ phase' = "idle" /\ call' = call + 1
    BY <1>4 DEF Return
  <2>2. /\ CallInv /\ NJobs \in 1 .. MaxJobs /\ Spawned \subseteq Workers /\ 0 \in Spawned
        /\ next \in Nat
    BY <2>1, InCall DEF IInv, TypeOK
  <2>3. next >= NJobs /\ \A j : ~InHand(j)
    BY <2>1, <2>2 DEF CallInv, AllLeft, Drained, OnlySpawned, InHand
  <2>4. AbsTodo = {}
    BY <2>2, <2>3 DEF AbsTodo
  <2>5. AbsActive = {}
    BY <2>1, <2>3, ActiveInCall
  <2>6. \A j \in 0 .. (NJobs - 1) : ran[j] = 1
    BY <2>1, InvImplies DEF EachJobOnce
  <2>7. JobSets[call] = 0 .. (NJobs - 1)
    BY <1>0, <2>1, JobSetsFacts DEF IInv, TypeOK, NJobs
  <2>8. AbsFinished = JobSets[call]
    BY <2>1, <2>6, <2>7 DEF AbsFinished
  <2>9. AbsTodo' = {} /\ AbsActive' = {} /\ AbsFinished' = {}
    BY <2>1, IdleIsEmpty
  <2>10. Batch!ReturnCall
    BY <2>1, <2>4, <2>5, <2>8, <2>9 DEF Batch!ReturnCall
  <2>11. QED
    BY <2>10 DEF Batch!AbsNext
<1>5. QED
  BY <1>1, <1>2, <1>3, <1>4 DEF Caller

LEMMA RefWorker ==
  ASSUME IInv, IInv', NEW w \in Workers, Worker(w) \/ NoteThrottle(w)
  PROVE  [Batch!AbsNext]_(Batch!absVars)
<1>1. /\ phase = "running" /\ call' = call /\ phase' = phase
  BY DEF Worker, ReadTarget, ReadNext, Park, Backstop, Claim, Finish, WakeIdle, NoteThrottle, At, callVars
<1>2. CallInv /\ NJobs \in 1 .. MaxJobs /\ next \in Nat /\ ran \in [JobIds -> Nat]
  BY <1>1, InCall DEF IInv, TypeOK
<1>3. NJobs' = NJobs
  BY <1>1 DEF NJobs
<1>4. /\ \A j : j \in AbsActive <=> InHand(j)
      /\ \A j : j \in AbsActive' <=> InHand(j)'
  BY <1>1, ActiveInCall
<1>5. /\ pc \in [Workers -> Places] /\ job \in [Workers -> Nat]
  BY DEF IInv, TypeOK
<1> USE DEF At, GoTo, callVars, workVars
<1>6. CASE ReadTarget(w) \/ ReadNext(w) \/ Park(w) \/ Backstop(w) \/ WakeIdle(w) \/ NoteThrottle(w)
  <2>1. UNCHANGED <<next, job, ran>>
    BY <1>6 DEF ReadTarget, ReadNext, Park, Backstop, WakeIdle, NoteThrottle
  <2>2. \A v \in Workers : pc'[v] = "work" <=> pc[v] = "work"
    BY <1>5, <1>6 DEF ReadTarget, ReadNext, Park, Backstop, WakeIdle, NoteThrottle, Woken
  <2>3. QED
    BY <1>1, <2>1, <2>2, Invisible
<1>7. CASE Claim(w) /\ next < NJobs
  <2>1. /\ next' = next + 1 /\ ran' = ran /\ pc[w] = "claim"
        /\ pc' = [pc EXCEPT ![w] = "work"] /\ job' = [job EXCEPT ![w] = next]
    BY <1>7 DEF Claim
  <2>2. next \in AbsTodo /\ AbsTodo' = AbsTodo \ {next}
    BY <1>1, <1>2, <1>3, <1>7, <2>1 DEF AbsTodo
  <2>3. \A j : InHand(j)' <=> InHand(j) \/ j = next
    BY <1>5, <2>1 DEF InHand
  <2>4. AbsActive' = AbsActive \cup {next}
    BY <1>4, <2>3
  <2>5. AbsFinished' = AbsFinished
    BY <1>1, <1>3, <2>1 DEF AbsFinished
  <2>6. Batch!Take(next)
    BY <1>1, <2>2, <2>4, <2>5 DEF Batch!Take
  <2>7. QED
    BY <2>2, <2>6 DEF Batch!AbsNext
<1>8. CASE Claim(w) /\ ~(next < NJobs)
  <2>1. /\ next' = next + 1 /\ ran' = ran /\ job' = job /\ pc[w] = "claim"
        /\ pc' = [pc EXCEPT ![w] = "wake"]
    BY <1>2, <1>8 DEF Claim
  <2>2. AbsTodo = {} /\ AbsTodo' = {}
    BY <1>1, <1>2, <1>3, <1>8, <2>1 DEF AbsTodo
  <2>3. \A j : InHand(j)' <=> InHand(j)
    BY <1>5, <2>1 DEF InHand
  <2>4. AbsActive' = AbsActive
    BY <1>4, <2>3
  <2>5. AbsFinished' = AbsFinished
    BY <1>1, <1>3, <2>1 DEF AbsFinished
  <2>6. QED
    BY <1>1, <2>2, <2>4, <2>5 DEF Batch!absVars
<1>9. CASE Finish(w)
  <2>1. /\ next' = next /\ job' = job /\ pc[w] = "work"
        /\ ran' = [ran EXCEPT ![job[w]] = ran[job[w]] + 1]
        /\ pc' = [pc EXCEPT ![w] = "top"]
    BY <1>9 DEF Finish
  <2>2. job[w] < next /\ job[w] < NJobs /\ InHand(job[w]) /\ job[w] \in Nat
    BY <1>2, <1>5, <2>1 DEF CallInv, Claimed, InHand
  <2>3. job[w] \in JobIds /\ 0 .. (NJobs - 1) \subseteq JobIds
    BY <1>2, <2>2, PoolAssumption DEF JobIds
  <2>4. ran[job[w]] = 0 /\ ran'[job[w]] = 1
    BY <1>2, <2>1, <2>2, <2>3 DEF CallInv, Counted
  <2>5. \A j \in JobIds : j # job[w] => ran'[j] = ran[j]
    BY <1>2, <2>1
  <2>6. job[w] \notin AbsFinished /\ AbsFinished' = AbsFinished \cup {job[w]}
    BY <1>1, <1>2, <1>3, <2>2, <2>3, <2>4, <2>5 DEF AbsFinished
  <2>7. \A j : InHand(j)' <=> InHand(j) /\ j # job[w]
    BY <1>2, <1>5, <2>1 DEF InHand, CallInv, Apart
  <2>8. job[w] \in AbsActive /\ AbsActive' = AbsActive \ {job[w]}
    BY <1>4, <2>2, <2>7
  <2>9. AbsTodo' = AbsTodo
    BY <1>1, <1>3, <2>1 DEF AbsTodo
  <2>10. Batch!Complete(job[w])
    BY <1>1, <2>6, <2>8, <2>9 DEF Batch!Complete
  <2>11. QED
    BY <2>8, <2>10 DEF Batch!AbsNext
<1>10. QED
  BY <1>6, <1>7, <1>8, <1>9 DEF Worker

LEMMA RefSupervisor == Supervisor => [Batch!AbsNext]_(Batch!absVars)
<1> SUFFICES ASSUME Supervisor
             PROVE  UNCHANGED Batch!absVars
  OBVIOUS
<1>1. UNCHANGED <<call, phase, next, job, ran>>
  BY DEF Supervisor, SupLoop, SupWake, SupSample, SupNotify, callVars, workVars
<1>2. pc' = pc \/ pc' = Woken
  BY DEF Supervisor, SupLoop, SupWake, SupSample, SupNotify, workVars
<1>3. \A w \in Workers : pc'[w] = "work" <=> pc[w] = "work"
  BY <1>2 DEF Woken
<1>4. QED
  BY <1>1, <1>3, Invisible

LEMMA RefStep == IInv /\ IInv' /\ [Next]_vars => [Batch!AbsNext]_(Batch!absVars)
<1> SUFFICES ASSUME IInv, IInv', [Next]_vars
             PROVE  [Batch!AbsNext]_(Batch!absVars)
  OBVIOUS
<1>1. CASE Caller
  BY <1>1, RefCaller
<1>2. CASE Supervisor
  BY <1>2, RefSupervisor
<1>3. ASSUME NEW w \in Workers, Worker(w) \/ NoteThrottle(w)
      PROVE  [Batch!AbsNext]_(Batch!absVars)
  BY <1>3, RefWorker
<1>4. CASE UNCHANGED vars
  BY <1>4, Invisible DEF vars, callVars, workVars
<1>5. QED
  BY <1>1, <1>2, <1>3, <1>4 DEF Next

(* Seen from its callers, the pool is a batch of jobs: each is taken once, *)
(* completed once, and the call returns when all are.                      *)
THEOREM PoolImplementsBatch == Spec => ImplementsBatch
<1>1. QED
  BY RefInit, RefStep, Invariance, PTL DEF Spec, ImplementsBatch, Batch!AbsSpec

-----------------------------------------------------------------------------
(* Steering stays in its band.  What it takes to see it: as long as the    *)
(* service never throttled, the floor of a call is the reference's count.  *)

FloorInv ==
  /\ throttled => slowed
  /\ phase # "idle" /\ ~slowed => control.floor >= Smaller(BaseFloor, Ceiling)

LEMMA FloorStep == TypeOK /\ SupervisorInCall /\ FloorInv /\ [Next]_vars => FloorInv'
<1> SUFFICES ASSUME TypeOK, SupervisorInCall, FloorInv, [Next]_vars
             PROVE  FloorInv'
  OBVIOUS
<1> USE DEF FloorInv, callVars, workVars, supVars
<1>1. CASE Caller
  <2>1. CASE Run
    <3>1. call \in 1 .. Len(Batches) /\ NJobs > 0
      BY <2>1, PoolAssumption DEF Run, TypeOK
    <3>2. Smaller(BaseFloor, Ceiling) \in Nat
      BY <3>1, CeilingType, PoolAssumption DEF Smaller
    <3>3. Ceiling' = Ceiling /\ control'.floor = Smaller(BaseFloor, Ceiling)
      BY <2>1 DEF Run, Ceiling, NJobs
    <3>4. QED
      BY <2>1, <3>2, <3>3 DEF Run
  <2>2. CASE RunEmpty \/ JoinWorkers \/ Return
    BY <2>2 DEF RunEmpty, JoinWorkers, Return, Ceiling, NJobs
  <2>3. QED
    BY <1>1, <2>1, <2>2 DEF Caller
<1>2. CASE Supervisor
  <2>1. Ceiling' = Ceiling /\ UNCHANGED <<call, phase, slowed>>
    BY <1>2 DEF Supervisor, SupLoop, SupWake, SupSample, SupNotify, Ceiling, NJobs
  <2>2. CASE SupSample
    <3>1. ~throttled => control'.floor = control.floor
      BY <2>2, SampleBounds
    <3>2. QED
      BY <2>1, <2>2, <3>1 DEF SupSample
  <2>3. CASE SupLoop \/ SupWake \/ SupNotify
    BY <2>1, <2>3 DEF SupLoop, SupWake, SupNotify
  <2>4. QED
    BY <1>2, <2>2, <2>3 DEF Supervisor
<1>3. ASSUME NEW w \in Workers, Worker(w) \/ NoteThrottle(w)
      PROVE  FloorInv'
  BY <1>3 DEF Worker, ReadTarget, ReadNext, Park, Backstop, Claim, Finish, WakeIdle, NoteThrottle,
              Ceiling, NJobs
<1>4. CASE UNCHANGED vars
  BY <1>4 DEF vars, Ceiling, NJobs
<1>5. QED
  BY <1>1, <1>2, <1>3, <1>4 DEF Next

LEMMA SteeringStep ==
  TypeOK /\ SupervisorInCall /\ FloorInv /\ [Next]_vars => InBand
<1> SUFFICES ASSUME TypeOK, SupervisorInCall, FloorInv, [Next]_vars
             PROVE  InBand
  OBVIOUS
<1> USE DEF InBand
<1>1. CASE SupSample
  <2>1. phase # "idle" /\ call \in 1 .. Len(Batches) /\ NJobs > 0
    BY <1>1, PoolAssumption DEF SupSample, SupervisorInCall, TypeOK
  <2>2. Smaller(BaseFloor, Ceiling) \in Nat
    BY <2>1, CeilingType, PoolAssumption DEF Smaller
  <2>3. control.floor \in Nat /\ target' \in Nat
    BY <1>1, SampleBounds DEF TypeOK, Control
  <2>4. target' > target => target' <= Ceiling
    BY <1>1, SampleBounds
  <2>5. target' < target /\ ~slowed => target' >= control.floor
    BY <1>1, SampleBounds DEF FloorInv
  <2>6. ~slowed => control.floor >= Smaller(BaseFloor, Ceiling)
    BY <2>1 DEF FloorInv
  <2>7. QED
    BY <2>2, <2>3, <2>4, <2>5, <2>6
<1>2. CASE target' = target
  BY <1>2 DEF TypeOK
<1>3. QED
  BY <1>1, <1>2 DEF Next, Caller, RunEmpty, Run, JoinWorkers, Return, Supervisor, SupLoop, SupWake,
     SupNotify, Worker, ReadTarget, ReadNext, Park, Backstop, Claim, Finish, WakeIdle,
     NoteThrottle, vars

(* Steering never pushes the target past the ceiling of the call it steers *)
(* and, until the service first asks to slow down, never takes it below    *)
(* the reference's fixed count.                                            *)
THEOREM SteeringInBand == Spec => SteeringStaysInBand
<1> DEFINE Inv == TypeOK /\ SupervisorInCall /\ FloorInv
<1>1. Init => Inv
  BY InitType DEF Init, SupervisorInCall, FloorInv
<1>2. Inv /\ [Next]_vars => Inv'
  BY TypeStep, SupervisorStaysInCall, FloorStep
<1>3. Inv /\ [Next]_vars => [InBand]_vars
  BY SteeringStep
<1> HIDE DEF Inv
<1>4. QED
  BY <1>1, <1>2, <1>3, PTL DEF Spec, SteeringStaysInBand

===============================================================================
