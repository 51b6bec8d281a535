-------------------------------- MODULE Request --------------------------------
(***************************************************************************)
(* The requests of a transfer: `Conn::send_watched` of s3/conn.rs with the *)
(* retry policy of retry.rs, the redirect cache of s3/redirect.rs and the  *)
(* byte counters of s3/progress.rs.                                        *)
(*                                                                         *)
(* Requests run on threads of their own.  Each attempt asks the shared     *)
(* cache which region to send to, counts the bytes of its body as they     *)
(* leave and those of its answer as they arrive, and ends with the answer. *)
(* A redirect that names the region is followed once, without being        *)
(* counted as an attempt; a transient failure is retried while attempts    *)
(* and quota last; before either the bytes of the attempt are taken back.  *)
(*                                                                         *)
(* The bucket lives in the region Home, and the service is external: it    *)
(* may answer before it has read the whole body, and a redirect need not   *)
(* name the region ("bare").  A GET sends nothing, and its answer is the   *)
(* object; any other good answer has no body, and one that is not good     *)
(* carries a document.                                                     *)
(***************************************************************************)
EXTENDS Integers, FiniteSets

CONSTANTS
  Count,              (* the number of requests of the transfer            *)
  Gets,               (* the requests that are GETs                        *)
  Size,               (* the chunks of a body, and of an object            *)
  Document,           (* the chunks of the document of an answer, at most  *)
  Configured,         (* the region the client was configured for          *)
  Home,               (* the region the bucket lives in                    *)
  MaxAttempts,        (* RetryPolicy::max_attempts                         *)
  Quota,              (* INITIAL_QUOTA                                     *)
  RetryCost,          (* RETRY_COST                                        *)
  TimeoutCost         (* TIMEOUT_RETRY_COST                                *)

ASSUME RequestAssumption ==
  /\ Count \in Nat
  /\ Gets \subseteq 1 .. Count
  /\ Size \in Nat /\ Document \in Nat
  /\ MaxAttempts \in Nat
  /\ Quota \in Nat /\ RetryCost \in Nat /\ TimeoutCost \in Nat

Requests == 1 .. Count

VARIABLES
  at,                 (* where each request is                             *)
  region,             (* where its attempt was sent                        *)
  attempt,            (* the number of its attempt                         *)
  followed,           (* whether it has followed a redirect                *)
  quota,              (* what its retry policy has left                    *)
  body,               (* the chunks its attempt has sent                   *)
  heard,              (* the chunks of its answer that have arrived        *)
  counted,            (* SlotWatch::attempt: the chunks its attempt counts *)
  answer,             (* how its last attempt ended                        *)
  bytes,              (* Inner::bytes_done                                 *)
  learned,            (* the redirect cache: regions learned, {} or {Home} *)
  stored,             (* S3: the requests that took effect                 *)
  sends,              (* history: attempts sent, redirected ones included  *)
  late                (* history: those begun after the region was learned *)

policyVars == <<attempt, followed, quota>>
countVars == <<body, heard, counted, bytes>>
history == <<sends, late>>
vars == <<at, region, policyVars, countVars, answer, learned, stored, history>>

Set(f, r, v) == [f EXCEPT ![r] = v]
Goto(r, place) == at' = Set(at, r, place)

Init ==
  /\ at = [r \in Requests |-> "queued"]
  /\ region = [r \in Requests |-> Configured]
  /\ attempt = [r \in Requests |-> 1]
  /\ followed = [r \in Requests |-> FALSE]
  /\ quota = [r \in Requests |-> Quota]
  /\ body = [r \in Requests |-> 0]
  /\ heard = [r \in Requests |-> 0]
  /\ counted = [r \in Requests |-> 0]
  /\ answer = [r \in Requests |-> "none"]
  /\ bytes = 0
  /\ learned = {}
  /\ stored = {}
  /\ sends = [r \in Requests |-> 0]
  /\ late = {}

-----------------------------------------------------------------------------
(* A thread takes the request, whenever there is one to take it. *)
Start(r) ==
  /\ at[r] = "queued"
  /\ Goto(r, "prepare")
  /\ late' = IF learned # {} THEN late \cup {r} ELSE late
  /\ UNCHANGED <<region, policyVars, countVars, answer, learned, stored, sends>>

(* A mutant: an attempt is sent to the region of the request's first one.  *)
PrepareUnlearned(r) ==
  /\ at[r] = "prepare"
  /\ region' = Set(region, r, IF followed[r] THEN Home ELSE Configured)
  /\ answer' = Set(answer, r, "none")
  /\ sends' = Set(sends, r, sends[r] + 1)
  /\ Goto(r, "sending")
  /\ UNCHANGED <<policyVars, countVars, learned, stored, late>>

Prepare(r) ==
  /\ at[r] = "prepare"
  /\ region' = Set(region, r, IF learned # {} THEN Home ELSE Configured)
  /\ answer' = Set(answer, r, "none")
  /\ sends' = Set(sends, r, sends[r] + 1)
  /\ Goto(r, "sending")
  /\ UNCHANGED <<policyVars, countVars, learned, stored, late>>

(* The watcher of the request is told of a chunk. *)
Tell(r) ==
  /\ counted' = Set(counted, r, counted[r] + 1)
  /\ bytes' = bytes + 1

BodyOf(r) == IF r \in Gets THEN 0 ELSE Size

(* A chunk of the body leaves, which it may while an answer arrives. *)
Advance(r) ==
  /\ at[r] \in {"sending", "hearing"}
  /\ body[r] < BodyOf(r)
  /\ body' = Set(body, r, body[r] + 1)
  /\ Tell(r)
  /\ UNCHANGED <<at, region, policyVars, heard, answer, learned, stored, history>>

(* External: the service answers, or the connection fails.  A request that *)
(* was sent whole may have taken effect although its answer is lost.       *)
Answers(r) ==
  {"timeout", "broken"} \cup
    IF region[r] # Home THEN {"redirect", "bare"}
    ELSE {"throttled", "refused"} \cup IF body[r] = BodyOf(r) THEN {"ok"} ELSE {}

Answer(r) ==
  /\ at[r] = "sending"
  /\ \E a \in Answers(r) :
       /\ answer' = Set(answer, r, a)
       /\ \/ a = "ok" /\ stored' = stored \cup {r}
          \/ a \in {"timeout", "broken"} /\ body[r] = BodyOf(r) /\ region[r] = Home
               /\ stored' = stored \cup {r}
          \/ a # "ok" /\ UNCHANGED stored
       /\ Goto(r, IF a \in {"timeout", "broken"} THEN "judge" ELSE "hearing")
  /\ UNCHANGED <<region, policyVars, countVars, learned, history>>

(* What the answer carries at most: a GET its object, and no answer that   *)
(* is not good more than its document.                                     *)
Carries(r) ==
  IF answer[r] # "ok" THEN Document ELSE IF r \in Gets THEN Size ELSE 0

(* A mutant: the chunks of an answer count for the file, not the attempt. *)
HearUncounted(r) ==
  /\ at[r] = "hearing"
  /\ heard[r] < Carries(r)
  /\ heard' = Set(heard, r, heard[r] + 1)
  /\ bytes' = bytes + 1
  /\ UNCHANGED <<at, region, policyVars, body, counted, answer, learned, stored, history>>

(* The loop over the frames of the answer tells the same watcher. *)
Hear(r) ==
  /\ at[r] = "hearing"
  /\ heard[r] < Carries(r)
  /\ heard' = Set(heard, r, heard[r] + 1)
  /\ Tell(r)
  /\ UNCHANGED <<at, region, policyVars, body, answer, learned, stored, history>>

(* The answer is whole, or the connection fails under it. *)
Heard(r) ==
  /\ at[r] = "hearing"
  /\ \/ (answer[r] = "ok" => heard[r] = Carries(r)) /\ UNCHANGED answer
     \/ \E a \in {"timeout", "broken"} : answer' = Set(answer, r, a)
  /\ Goto(r, "judge")
  /\ UNCHANGED <<region, policyVars, countVars, learned, stored, history>>

(* The body is read from its start again.  SlotWatch::restart takes back   *)
(* what this attempt counted, saturating.                                  *)
Restart(r) ==
  /\ body' = Set(body, r, 0)
  /\ heard' = Set(heard, r, 0)
  /\ bytes' = IF counted[r] > bytes THEN 0 ELSE bytes - counted[r]
  /\ counted' = Set(counted, r, 0)

Redirected(r) == at[r] = "judge" /\ ~followed[r] /\ answer[r] = "redirect"

(* A mutant: the bytes of the redirected attempt stay counted. *)
FollowWithoutRestart(r) ==
  /\ Redirected(r)
  /\ learned' = {Home}
  /\ followed' = Set(followed, r, TRUE)
  /\ Goto(r, "prepare")
  /\ body' = Set(body, r, 0)
  /\ heard' = Set(heard, r, 0)
  /\ UNCHANGED <<region, attempt, quota, counted, bytes, answer, stored, history>>

(* redirect::note and what follows it. *)
Follow(r) ==
  /\ Redirected(r)
  /\ learned' = {Home}
  /\ Restart(r)
  /\ followed' = Set(followed, r, TRUE)
  /\ Goto(r, "prepare")
  /\ UNCHANGED <<region, attempt, quota, answer, stored, history>>

Cost(r) == IF answer[r] = "timeout" THEN TimeoutCost ELSE RetryCost

(* A mutant: max_attempts counts retries. *)
MayRetryOnceMore(r) ==
  /\ attempt[r] <= MaxAttempts
  /\ answer[r] \in {"timeout", "broken", "throttled"}
  /\ quota[r] >= Cost(r)

(* RetryPolicy::next_delay: attempts, then retryability, then the quota. *)
MayRetry(r) ==
  /\ attempt[r] < MaxAttempts
  /\ answer[r] \in {"timeout", "broken", "throttled"}
  /\ quota[r] >= Cost(r)

(* A mutant: the quota is spent without being looked at. *)
RetryOnCredit(r) ==
  /\ at[r] = "judge" /\ ~Redirected(r)
  /\ attempt[r] < MaxAttempts /\ answer[r] \in {"timeout", "broken", "throttled"}
  /\ quota' = Set(quota, r, quota[r] - Cost(r))
  /\ Goto(r, "backoff")
  /\ UNCHANGED <<region, attempt, followed, countVars, answer, learned, stored, history>>

Retry(r) ==
  /\ at[r] = "judge"
  /\ ~Redirected(r)
  /\ MayRetry(r)
  /\ quota' = Set(quota, r, quota[r] - Cost(r))
  /\ Goto(r, "backoff")
  /\ UNCHANGED <<region, attempt, followed, countVars, answer, learned, stored, history>>

(* The delay is over. *)
Resume(r) ==
  /\ at[r] = "backoff"
  /\ Restart(r)
  /\ attempt' = Set(attempt, r, attempt[r] + 1)
  /\ Goto(r, "prepare")
  /\ UNCHANGED <<region, followed, quota, answer, learned, stored, history>>

(* A mutant: only a good answer ends the request. *)
EndIfOk(r) ==
  /\ at[r] = "judge" /\ answer[r] = "ok"
  /\ Goto(r, "done")
  /\ UNCHANGED <<region, policyVars, countVars, answer, learned, stored, history>>

(* The request ends with its last answer, and its retry policy with it:   *)
(* what record_success gives back is of no use to any other request.       *)
(* Nothing reads the region again.                                         *)
End(r) ==
  /\ at[r] = "judge"
  /\ ~Redirected(r)
  /\ ~MayRetry(r)
  /\ Goto(r, "done")
  /\ region' = Set(region, r, Configured)
  /\ UNCHANGED <<policyVars, countVars, answer, learned, stored, history>>

Step(r) ==
  \/ Start(r) \/ Prepare(r) \/ Advance(r)
  \/ Answer(r) \/ Hear(r) \/ Heard(r)
  \/ Follow(r) \/ Retry(r) \/ Resume(r) \/ End(r)

Next == \E r \in Requests : Step(r)

Spec == Init /\ [][Next]_vars

(* Every thread runs, and every attempt ends: a connection that is idle    *)
(* for longer than the read timeout is given up.                           *)
FairSpec == Spec /\ \A r \in Requests : WF_vars(Step(r))

-----------------------------------------------------------------------------
(* The type invariant; no policy spends more than its quota. *)
TypeOK ==
  /\ at \in [Requests -> {"queued", "prepare", "sending", "hearing", "judge", "backoff", "done"}]
  /\ region \in [Requests -> {Configured, Home}]
  /\ attempt \in [Requests -> Nat \ {0}]
  /\ followed \in [Requests -> BOOLEAN]
  /\ quota \in [Requests -> 0 .. Quota]
  /\ body \in [Requests -> 0 .. Size]
  /\ heard \in [Requests -> Nat]
  /\ counted \in [Requests -> Nat]
  /\ answer \in [Requests -> {"none", "ok", "timeout", "broken", "redirect", "bare",
                              "throttled", "refused"}]
  /\ bytes \in Nat
  /\ learned \subseteq {Home}
  /\ stored \subseteq Requests
  /\ sends \in [Requests -> Nat]
  /\ late \subseteq Requests

(* The chunks that the attempts count, each with its request.             *)
CountedChunks == {c \in Requests \X (1 .. Size + Document) : c[2] <= counted[c[1]]}

(* The total is exact, however retries, redirects, answers and the         *)
(* threads' counts interleave: it is what the attempts under way and the   *)
(* last ones of the requests that ended have moved, either way, and a      *)
(* request that succeeded counts its body or its object once.  The bar     *)
(* passes the total ("counting both would push the total past the file     *)
(* size") only by the documents of answers, which count like a body.       *)
ProgressExact ==
  /\ bytes = Cardinality(CountedChunks)
  /\ \A r \in Requests :
       /\ counted[r] = body[r] + heard[r]
       /\ at[r] = "done" /\ answer[r] = "ok" => counted[r] = Size
  /\ bytes > Size * Cardinality(Requests) =>
       \E r \in Requests : answer[r] # "ok" /\ heard[r] > 0

(* A request is sent max_attempts times at most, and once more if it was   *)
(* redirected ("`max_attempts` is a total attempt count, not a retry       *)
(* count"; "One redirect per request is the caller's bound").              *)
SendsBounded ==
  \A r \in Requests :
    sends[r] <= (IF MaxAttempts = 0 THEN 1 ELSE MaxAttempts) + (IF followed[r] THEN 1 ELSE 0)

(* A redirect is paid for by the requests that were under way when the     *)
(* region was learned, and by none that began after ("paying the redirect  *)
(* on every one of them would double the round trips").                    *)
RedirectsPaidOnce == \A r \in late : ~followed[r]

(* Every request ends. *)
EveryRequestEnds == <>(\A r \in Requests : at[r] = "done")
===============================================================================
