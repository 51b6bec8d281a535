-------------------------------- MODULE Waiter --------------------------------
(***************************************************************************)
(* `aws <service> wait <name>`: the polling loop of wait.rs.               *)
(*                                                                         *)
(* An answer of the service is a record: a response, of which the waiter's *)
(* expression selects a list of statuses or a single value, or an error,   *)
(* with its code and status; or the call is broken before there is any     *)
(* answer.  What is waited for changes between two polls as it likes.      *)
(***************************************************************************)
EXTENDS Naturals, Sequences, SequencesExt

CONSTANTS
  Waiters,            (* [acceptors, good, bad]: the acceptors in order,   *)
                      (* and the answers that mean success and failure     *)
  Answers,            (* what a poll may bring                             *)
  MaxAttempts         (* the waiter's maxAttempts                          *)

(* The records of the model data and of the service. *)
Answer(kind, selected, value, code, status) ==
  [kind |-> kind, selected |-> selected, value |-> value, code |-> code, status |-> status]
Response(selected) == Answer("response", selected, "", "", 200)
ValueOf(value) == Answer("response", <<>>, value, "", 200)
ServiceError(code, status) == Answer("error", <<>>, "", code, status)
Broken == Answer("broken", <<>>, "", "", 0)
Acceptor(state, matcher, expected) ==
  [state |-> state, matcher |-> matcher, expected |-> expected]

AnyError == "any"
NoError == "none"

VARIABLES
  waitAt,             (* "start", "poll", "sleep", or "over"               *)
  waiter,             (* the waiter in use                                 *)
  polls,              (* history: the answers so far                       *)
  waitEnd             (* how the command ended                             *)

waitVars == <<waitAt, waiter, polls, waitEnd>>

WaitInit ==
  /\ waitAt = "start"
  /\ waiter \in Waiters
  /\ polls = <<>>
  /\ waitEnd = "none"

-----------------------------------------------------------------------------
(* A mutant: `all` over nothing is true, as in Rust. *)
MatchesVacuously(a, answer) ==
  \/ /\ a.matcher = "error" /\ answer.kind = "error"
     /\ a.expected \in {AnyError, answer.code}
  \/ a.matcher = "error" /\ answer.kind = "response" /\ a.expected = NoError
  \/ a.matcher = "status" /\ a.expected = answer.status
  \/ a.matcher = "path" /\ answer.kind = "response" /\ answer.value = a.expected
  \/ /\ a.matcher = "pathAll" /\ answer.kind = "response"
     /\ \A k \in DOMAIN answer.selected : answer.selected[k] = a.expected
  \/ /\ a.matcher = "pathAny" /\ answer.kind = "response"
     /\ \E k \in DOMAIN answer.selected : answer.selected[k] = a.expected

Matches(a, answer) ==
  \/ /\ a.matcher = "error" /\ answer.kind = "error"
     /\ a.expected \in {AnyError, answer.code}
  \/ a.matcher = "error" /\ answer.kind = "response" /\ a.expected = NoError
  \/ a.matcher = "status" /\ a.expected = answer.status
  \/ a.matcher = "path" /\ answer.kind = "response" /\ answer.value = a.expected
  \/ /\ a.matcher = "pathAll" /\ answer.kind = "response"
     /\ answer.selected # <<>>
     /\ \A k \in DOMAIN answer.selected : answer.selected[k] = a.expected
  \/ /\ a.matcher = "pathAny" /\ answer.kind = "response"
     /\ \E k \in DOMAIN answer.selected : answer.selected[k] = a.expected

(* The first acceptor that matches wins. *)
Decide(answer) ==
  LET fits == SelectSeq(waiter.acceptors, LAMBDA a : Matches(a, answer))
  IN  IF fits = <<>> THEN "none" ELSE fits[1].state

End(v) == waitAt' = "over" /\ waitEnd' = v

(* The answer has been judged, and it is neither success nor failure. *)
Undecided(answer) ==
  IF answer.kind = "error" THEN End("error")
  ELSE IF Len(polls') >= MaxAttempts THEN End("exhausted")
  ELSE waitAt' = "sleep" /\ UNCHANGED waitEnd

Poll(answer) ==
  /\ waitAt = "poll"
  /\ polls' = Append(polls, answer)
  /\ CASE answer.kind = "broken" -> End("error")
       [] answer.kind # "broken" /\ Decide(answer) = "success" -> End("success")
       [] answer.kind # "broken" /\ Decide(answer) = "failure" -> End("failure")
       [] OTHER -> Undecided(answer)
  /\ UNCHANGED waiter

(* The first attempt is immediate; the delay is paid between two. *)
StartWait ==
  /\ waitAt = "start"
  /\ waitAt' = "poll"
  /\ UNCHANGED <<waiter, polls, waitEnd>>

Sleep ==
  /\ waitAt = "sleep"
  /\ waitAt' = "poll"
  /\ UNCHANGED <<waiter, polls, waitEnd>>

WaitNext == StartWait \/ Sleep \/ \E answer \in Answers : Poll(answer)

Spec == WaitInit /\ [][WaitNext]_waitVars

-----------------------------------------------------------------------------
Told(answer) == answer \in waiter.good \cup waiter.bad

(* How it ended is the meaning of the answers and not of the acceptors'     *)
(* order or of an empty list: success is reported for an answer that means *)
(* success, failure for one that means failure, exhaustion only after as   *)
(* many polls as the waiter has, and no poll is made after an answer that  *)
(* settled the question.                                                   *)
WaitTells ==
  /\ waitEnd = "success" => Last(polls) \in waiter.good
  /\ waitEnd = "failure" => Last(polls) \in waiter.bad
  /\ waitEnd = "exhausted" => Len(polls) = MaxAttempts
  /\ \A k \in DOMAIN polls : Told(polls[k]) =>
       k = Len(polls) /\ waitEnd \in {"success", "failure"}

(* An error that a `retry` acceptor claims is waited out ("`error`         *)
(* acceptors turn a specific error code into `retry` or `success`; an      *)
(* error matching nothing is what actually fails").                        *)
ClaimedErrorsRetried ==
  waitEnd = "error" => Last(polls).kind = "broken" \/ Decide(Last(polls)) = "none"
===============================================================================
