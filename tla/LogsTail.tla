------------------------------- MODULE LogsTail -------------------------------
(***************************************************************************)
(* `aws logs tail`: the loops of logs_tail.rs.                             *)
(*                                                                         *)
(* The log group (external) is a set of events, each with a timestamp in   *)
(* milliseconds.  An answer holds the next events at or after startTime,   *)
(* in the order of their timestamps, and within a millisecond of their     *)
(* arrival, and a token if there are more.                                 *)
(* Streams write events while the command runs, some of them late: with a  *)
(* timestamp older than what was printed.                                  *)
(***************************************************************************)
EXTENDS Naturals, FiniteSets

CONSTANTS
  Events,             (* the events that may be written: [ts, id]          *)
  LogPageSize         (* how many events an answer holds at most           *)

VARIABLES
  tailAt,             (* "call", "print", "sleep", "done" or "failed"      *)
  follow,             (* --follow                                          *)
  log,                (* the events in the group                           *)
  startTime,          (* the request's startTime                           *)
  nextToken,          (* the last event before the page the token asks     *)
                      (* for: what the service keeps behind it             *)
  answer,             (* the events of the answer in hand                  *)
  more,               (* whether it has a nextToken                        *)
  seen,               (* the events `seen` still holds                     *)
  shown,              (* history: how often each event was printed         *)
  late                (* history: the events that came too late            *)

tailVars == <<tailAt, follow, log, startTime, nextToken, answer, more, seen,
              shown, late>>

NoEvent == [ts |-> 0, id |-> 0]
Before(d, e) == d.ts < e.ts \/ (d.ts = e.ts /\ d.id < e.id)
Newest(s) == CHOOSE e \in s : \A d \in s : d = e \/ Before(d, e)

(* The ids number the events of a millisecond in the order they arrive. *)
Arrived(s) ==
  \A d \in Events, e \in s : d.ts = e.ts /\ d.id < e.id => d \in s

TailInit ==
  /\ tailAt = "call"
  /\ follow \in BOOLEAN
  /\ log \in {s \in SUBSET Events : Arrived(s)}
  /\ startTime = 1
  /\ nextToken = NoEvent
  /\ answer = {} /\ more = FALSE
  /\ seen = {}
  /\ shown = [e \in Events |-> 0]
  /\ late = {}

-----------------------------------------------------------------------------
(* The service's answer to the request: the first LogPageSize events from  *)
(* startTime that follow the token.                                        *)
Due == {e \in log : e.ts >= startTime /\ Before(nextToken, e)}
FirstOf(s) == {e \in s : Cardinality({d \in s : Before(d, e)}) < LogPageSize}

FilterLogEvents ==
  /\ tailAt = "call"
  /\ tailAt' = "print"
  /\ answer' = FirstOf(Due)
  /\ more' = (Due # FirstOf(Due))
  /\ UNCHANGED <<follow, log, startTime, nextToken, seen, shown, late>>

CallFails ==
  /\ tailAt = "call"
  /\ tailAt' = "failed"
  /\ UNCHANGED <<follow, log, startTime, nextToken, answer, more, seen, shown, late>>

(* The plain command prints whatever the pages hold, the following one     *)
(* what it has not seen.                                                   *)
Show(es) == shown' = [e \in Events |-> shown[e] + IF e \in es THEN 1 ELSE 0]

(* A mutant: nothing is kept of an answer. *)
ForgetAll(s) == {}

(* Keep only the newest timestamp's ids. *)
Prune(s) == {e \in s : e.ts = Newest(s).ts}

(* The answer is printed, and the request for the next is made. *)
PrintPlain ==
  /\ tailAt = "print"
  /\ ~follow
  /\ Show(answer)
  /\ IF more THEN nextToken' = Newest(answer) /\ tailAt' = "call"
             ELSE tailAt' = "done" /\ UNCHANGED nextToken
  /\ UNCHANGED <<follow, log, startTime, answer, more, seen, late>>

(* A mutant: the next scan starts after the newest event. *)
StartAfter(s) == Newest(s).ts + 1

StartAt(s) == Newest(s).ts

PrintNew ==
  /\ tailAt = "print"
  /\ follow
  /\ Show(answer \ seen)
  /\ seen' = IF seen \cup answer = {} THEN {} ELSE Prune(seen \cup answer)
  /\ IF more
     THEN /\ tailAt' = "call"
          /\ nextToken' = Newest(answer)
          /\ UNCHANGED startTime
     ELSE /\ tailAt' = "sleep"
          /\ nextToken' = NoEvent
          /\ startTime' = IF seen' = {} THEN startTime ELSE StartAt(seen')
  /\ UNCHANGED <<follow, log, answer, more, late>>

Wake ==
  /\ tailAt = "sleep"
  /\ tailAt' = "call"
  /\ UNCHANGED <<follow, log, startTime, nextToken, answer, more, seen, shown, late>>

(* A stream writes an event.  One older than an event that was answered is *)
(* late: no scan from the newest event on finds it.                        *)
Write(e) ==
  /\ e \notin log
  /\ tailAt \in {"call", "print", "sleep"}
  /\ log' = log \cup {e}
  /\ Arrived(log')
  /\ late' = IF \E d \in seen \cup answer : e.ts < d.ts THEN late \cup {e} ELSE late
  /\ UNCHANGED <<tailAt, follow, startTime, nextToken, answer, more, seen, shown>>

TailStep == FilterLogEvents \/ CallFails \/ PrintPlain \/ PrintNew \/ Wake
TailNext == TailStep \/ \E e \in Events : Write(e)

TailSpec == TailInit /\ [][TailNext]_tailVars

(* Every call is answered or fails, and every sleep ends. *)
TailFairSpec == TailSpec /\ WF_tailVars(TailStep)

-----------------------------------------------------------------------------
(* An event is printed once, although every scan asks again for the        *)
(* millisecond the last one ended in.                                      *)
TailOnce == \A e \in Events : shown[e] <= 1

(* The following command comes again and again to have printed every event *)
(* that is not late, also one written later in the millisecond it has      *)
(* already printed, unless a call fails.                                   *)
TailUpToDate ==
  follow => tailAt = "failed" \/ \A e \in log \ late : shown[e] = 1
===============================================================================
