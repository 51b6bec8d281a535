------------------------------ MODULE ServiceCall ------------------------------
(***************************************************************************)
(* One command that calls a service: client.rs with the transport beneath  *)
(* it and the decoder of event streams.  A command makes a series of calls *)
(* over one client: its retry policy, with one quota, and the region that  *)
(* a redirect taught outlive the call.  Of its three ways to call,         *)
(* "document" reads the answer whole, "file" writes it to a file, "events" *)
(* hands each event on as it arrives, and is never sent twice.             *)
(*                                                                         *)
(* The service and the connection are external: a request may take effect  *)
(* and its answer be lost, a stream arrives in pieces that have nothing to *)
(* do with its frames, a piece may be damaged, and the peer may fall       *)
(* silent.  A service knows a request it has served by its token.          *)
(***************************************************************************)
EXTENDS Naturals, Sequences

CONSTANTS
  Forms,        (* [way |-> ..., tokened, redirectable, patient |-> BOOLEAN] *)
  Streams,      (* sequences of [length, damage, says]                       *)
  MaxCalls,     (* calls of a command                                        *)
  CallAttempts, (* RetryPolicy::max_attempts                                 *)
  CallQuota, CallCost, TimeoutPrice   (* INITIAL_QUOTA and the two costs     *)

VARIABLES
  form,         (* how the command calls *)
  callAt,       (* where it is *)
  calls,        (* the calls begun *)
  opToken,      (* the idempotency token in the request; 0 if it has none *)
  attempt, followed,
  allowance, lastCost,    (* RetryPolicy: the quota and last_acquired, 0 if none *)
  homeKnown,    (* the region of the bucket is in the redirect cache *)
  atHome,       (* the attempt goes to it *)
  reply,        (* how the attempt was answered *)
  frames, arrived, taken, (* the stream; what came of it and was decoded *)
  handed, streamError,    (* events given to the caller; an exception among them *)
  outfile,      (* the file: "none", "torn", "whole" or "other" *)
  sentTimes, effects,     (* history: of this call, requests sent and effects *)
  served,       (* the tokens the service knows *)
  callSaid      (* of the last call: "none", "success", "failure" *)

policyVars == <<attempt, followed, allowance, lastCost>>
streamVars == <<frames, arrived, taken, handed, streamError>>
serviceVars == <<sentTimes, effects, served>>
callVars == <<form, callAt, calls, opToken, policyVars, homeKnown, atHome, reply,
              streamVars, outfile, serviceVars, callSaid>>

Going(place) == callAt' = place

CallInit ==
  /\ form \in Forms /\ callAt = "begin" /\ calls = 0 /\ opToken = 0
  /\ attempt = 1 /\ followed = FALSE /\ allowance = CallQuota /\ lastCost = 0
  /\ homeKnown = FALSE /\ atHome = FALSE /\ reply = "none"
  /\ frames = <<>> /\ arrived = 0 /\ taken = 0 /\ handed = <<>> /\ streamError = FALSE
  /\ outfile = "none" /\ sentTimes = 0 /\ effects = 0 /\ served = {} /\ callSaid = "none"

-----------------------------------------------------------------------------
(* The document is serialised once for all attempts, with a token of the   *)
(* call if the caller gave none.                                           *)
Begin ==
  /\ callAt = "begin" /\ calls < MaxCalls
  /\ calls' = calls + 1 /\ Going("prepare")
  /\ opToken' = IF form.tokened THEN calls + 1 ELSE 0
  /\ attempt' = 1 /\ followed' = FALSE /\ sentTimes' = 0 /\ effects' = 0
  /\ callSaid' = "none"
  /\ UNCHANGED <<form, allowance, lastCost, homeKnown, atHome, reply, streamVars,
                 outfile, served>>

(* A mutant: the token is made when the request is.                        *)
PrepareAfresh ==
  /\ callAt = "prepare" /\ Going("sent")
  /\ opToken' = IF form.tokened THEN 10 * calls + attempt ELSE 0
  /\ atHome' = (homeKnown \/ ~form.redirectable) /\ sentTimes' = sentTimes + 1
  /\ UNCHANGED <<form, calls, policyVars, homeKnown, reply, streamVars, outfile,
                 effects, served, callSaid>>
(* Signed anew for each attempt, and for the region known by now.          *)
Prepare ==
  /\ callAt = "prepare" /\ Going("sent")
  /\ atHome' = (homeKnown \/ ~form.redirectable) /\ sentTimes' = sentTimes + 1
  /\ UNCHANGED <<form, calls, opToken, policyVars, homeKnown, reply, streamVars, outfile,
                 effects, served, callSaid>>

(* External: the request takes effect, unless its token is known.          *)
Effect ==
  IF opToken # 0 /\ opToken \in served THEN UNCHANGED <<effects, served>>
  ELSE effects' = effects + 1 /\ served' = served \cup {opToken}

(* External: an answer begins, or nothing comes but the request may have   *)
(* been served.  A body that is no stream is damaged from its first byte.  *)
NoStream == <<[length |-> 1, damage |-> "prelude", says |-> "event"]>>
Serve ==
  /\ callAt = "sent"
  /\ \/ \E r \in {"timeout", "broken"} :
          /\ reply' = r /\ Going("judge")
          /\ (atHome /\ Effect) \/ UNCHANGED <<effects, served>>
          /\ UNCHANGED frames
     \/ /\ atHome /\ reply' = "ok" /\ Effect
        /\ Going(IF form.way = "events" THEN "streaming" ELSE "reading")
        /\ IF form.way = "events" THEN frames' \in Streams ELSE UNCHANGED frames
     \/ /\ reply' \in (IF atHome THEN {"throttled", "refused"} ELSE {"redirect", "bare"})
        /\ Going(IF form.way = "events" /\ reply' \in {"redirect", "bare"}
                THEN "streaming" ELSE "reading")
        /\ frames' = IF form.way = "events" /\ ~atHome THEN NoStream ELSE frames
        /\ UNCHANGED <<effects, served>>
  /\ UNCHANGED <<form, calls, opToken, policyVars, homeKnown, atHome, arrived, taken,
                 handed, streamError, outfile, sentTimes, callSaid>>

(* The body is read to its end before the answer is looked at; a silence   *)
(* ends it, but for the error document of a stream, which has no limit.    *)
ReadBody ==
  /\ callAt = "reading" /\ Going("judge") /\ UNCHANGED reply
  /\ UNCHANGED <<form, calls, opToken, policyVars, homeKnown, atHome, streamVars, outfile,
                 serviceVars, callSaid>>
LoseBody ==
  /\ callAt = "reading" /\ Going("judge")
  /\ reply' \in (IF form.way = "events" THEN {"broken"} ELSE {"timeout", "broken"})
  /\ UNCHANGED <<form, calls, opToken, policyVars, homeKnown, atHome, streamVars, outfile,
                 serviceVars, callSaid>>

-----------------------------------------------------------------------------
(* A redirect that names the region is followed once, and is no attempt.   *)
Redirected == form.way # "events" /\ form.redirectable /\ ~followed /\ reply = "redirect"
Follow ==
  /\ callAt = "judge" /\ Redirected
  /\ homeKnown' = TRUE /\ followed' = TRUE /\ Going("prepare")
  /\ UNCHANGED <<form, calls, opToken, attempt, allowance, lastCost, atHome, reply,
                 streamVars, outfile, serviceVars, callSaid>>

(* RetryPolicy::next_delay: attempts, then the kind of failure, then the   *)
(* quota, which the calls of a client share.                               *)
Price == IF reply = "timeout" THEN TimeoutPrice ELSE CallCost
RetriedAgain ==
  /\ form.way # "events" /\ attempt < CallAttempts
  /\ reply \in {"timeout", "broken", "throttled"}
  /\ allowance >= Price
Retry ==
  /\ callAt = "judge" /\ ~Redirected /\ RetriedAgain
  /\ allowance' = allowance - Price /\ lastCost' = Price
  /\ attempt' = attempt + 1 /\ Going("prepare")
  /\ UNCHANGED <<form, calls, opToken, followed, homeKnown, atHome, reply, streamVars,
                 outfile, serviceVars, callSaid>>

(* RetryPolicy::record_success: what the last retry cost, or one.          *)
Refund ==
  IF reply = "ok"
  THEN LET back == IF lastCost = 0 THEN 1 ELSE lastCost
       IN /\ allowance' = IF allowance + back > CallQuota THEN CallQuota ELSE allowance + back
          /\ lastCost' = 0
  ELSE UNCHANGED <<allowance, lastCost>>

(* The last answer stands: below 400 it is the document, or the content of *)
(* the file.  A redirect need not parse as the document.  A caller that    *)
(* can do without the call goes on after an error of the service.          *)
Good == reply \in {"ok", "redirect", "bare"}
Unreadable == form.way = "document" /\ reply \in {"redirect", "bare"}
Settle ==
  /\ callAt = "judge" /\ ~Redirected /\ ~RetriedAgain
  /\ IF form.way = "events" THEN UNCHANGED <<allowance, lastCost>> ELSE Refund
  /\ \/ /\ Good /\ form.way = "file" /\ Going("writing") /\ UNCHANGED callSaid
     \/ /\ Good /\ form.way = "document" /\ callSaid' = "success" /\ Going("begin")
     \/ /\ Unreadable /\ callSaid' = "failure" /\ Going("ended")
     \/ /\ ~Good /\ callSaid' = "failure"
        /\ Going(IF form.patient /\ reply \in {"throttled", "refused"} THEN "begin" ELSE "ended")
  /\ UNCHANGED <<form, calls, opToken, attempt, followed, homeKnown, atHome, reply,
                 streamVars, outfile, serviceVars>>

WriteFile ==
  /\ callAt = "writing" /\ Going("ended")
  /\ \/ callSaid' = "success" /\ outfile' = IF reply = "ok" THEN "whole" ELSE "other"
     \/ callSaid' = "failure" /\ outfile' = "torn"
  /\ UNCHANGED <<form, calls, opToken, policyVars, homeKnown, atHome, reply, streamVars,
                 serviceVars>>

-----------------------------------------------------------------------------
(* The length of a frame is known from its first byte, the prelude.        *)
Before(n) == LET f[i \in 0 .. n] == IF i = 0 THEN 0 ELSE f[i - 1] + frames[i].length IN f[n]
Buffered == arrived - Before(taken)
InHand == frames[taken + 1]

(* A piece of any size arrives.                                            *)
Arrive ==
  /\ callAt = "streaming" /\ Going("decoding")
  /\ arrived' \in arrived + 1 .. Before(Len(frames))
  /\ UNCHANGED <<form, calls, opToken, policyVars, homeKnown, atHome, reply, frames, taken,
                 handed, streamError, outfile, serviceVars, callSaid>>

(* Decoder::next_frame, until it has no whole frame.                       *)
Incomplete ==
  IF Buffered = 0 THEN TRUE ELSE InHand.damage # "prelude" /\ Buffered < InHand.length
NeedMore ==
  /\ callAt = "decoding" /\ Incomplete /\ Going("streaming")
  /\ UNCHANGED <<form, calls, opToken, policyVars, homeKnown, atHome, reply, streamVars,
                 outfile, serviceVars, callSaid>>
Refuse ==
  /\ callAt = "decoding" /\ Buffered > 0
  /\ \/ InHand.damage = "prelude"
     \/ InHand.damage = "message" /\ Buffered >= InHand.length
  /\ callSaid' = "failure" /\ Going("ended")
  /\ UNCHANGED <<form, calls, opToken, policyVars, homeKnown, atHome, reply, streamVars,
                 outfile, serviceVars>>

(* An event is printed, unless that fails; an exception is remembered and  *)
(* the stream read on; what is not known is skipped.                       *)
Interpret ==
  /\ callAt = "decoding" /\ Buffered > 0 /\ InHand.damage = "none"
  /\ Buffered >= InHand.length
  /\ taken' = taken + 1
  /\ \/ /\ InHand.says = "event" /\ handed' = Append(handed, taken + 1)
        /\ UNCHANGED <<callAt, streamError, callSaid>>
     \/ /\ InHand.says = "event" /\ callSaid' = "failure" /\ Going("ended")
        /\ UNCHANGED <<handed, streamError>>
     \/ /\ InHand.says # "event" /\ UNCHANGED <<callAt, handed, callSaid>>
        /\ streamError' = (streamError \/ InHand.says = "exception")
  /\ UNCHANGED <<form, calls, opToken, policyVars, homeKnown, atHome, reply, frames, arrived,
                 outfile, serviceVars>>

(* A mutant: a stream that ends is taken for whole.                        *)
EndStreamAnywhere ==
  /\ callAt = "streaming" /\ Going("ended")
  /\ callSaid' = IF streamError THEN "failure" ELSE "success"
  /\ UNCHANGED <<form, calls, opToken, policyVars, homeKnown, atHome, reply, streamVars,
                 outfile, serviceVars>>
(* The service ends the stream, anywhere; or it breaks or falls silent.    *)
EndStream ==
  /\ callAt = "streaming" /\ Going("ended")
  /\ callSaid' = IF Buffered > 0 \/ streamError THEN "failure" ELSE "success"
  /\ UNCHANGED <<form, calls, opToken, policyVars, homeKnown, atHome, reply, streamVars,
                 outfile, serviceVars>>
BreakStream ==
  /\ callAt = "streaming" /\ callSaid' = "failure" /\ Going("ended")
  /\ UNCHANGED <<form, calls, opToken, policyVars, homeKnown, atHome, reply, streamVars,
                 outfile, serviceVars>>

CallNext ==
  \/ Begin \/ Prepare \/ Serve \/ ReadBody \/ LoseBody \/ Follow \/ Retry \/ Settle
  \/ WriteFile \/ Arrive \/ NeedMore \/ Refuse \/ Interpret \/ EndStream \/ BreakStream

(* A silence is given up, and the error document of a stream arrives: its  *)
(* reading is the one that has no limit.                                   *)
CallSpec == CallInit /\ [][CallNext]_callVars /\ WF_callVars(CallNext)

-----------------------------------------------------------------------------
(* A call with a token takes effect once at most, however many answers are *)
(* lost, and a success means that it did ("One token for the whole call,   *)
(* including its retries").  Nothing is claimed of a success whose answer  *)
(* is below 400 and did nothing: a redirect that is not followed, and an   *)
(* answer that is bare.                                                    *)
EffectOnce ==
  /\ opToken # 0 => effects <= 1
  /\ callSaid = "success" /\ reply \notin {"bare", "redirect"} => effects > 0

(* max_attempts counts the attempts of a call, a redirect comes on top,    *)
(* and a stream is sent once: an event handed on is never handed on again. *)
SentAtMost ==
  sentTimes <= IF form.way = "events" THEN 1 ELSE CallAttempts + (IF followed THEN 1 ELSE 0)

(* A stream comes out as it went in, each event once, and a success has    *)
(* all of it: no damaged frame, no fragment, no exception on the way.  A   *)
(* prelude that is wrong is seen before it is waited for ("caught before   *)
(* it is used to wait for bytes that will never come").                    *)
StreamExact ==
  form.way = "events" =>
    /\ callSaid # "failure" =>
         handed = SelectSeq([i \in 1 .. taken |-> i], LAMBDA i : frames[i].says = "event")
    /\ \A i \in 1 .. taken : frames[i].damage = "none"
    /\ callSaid = "success" =>
         arrived = Before(taken) /\ \A i \in 1 .. taken : frames[i].says # "exception"
    /\ callAt = "streaming" /\ Buffered > 0 => InHand.damage # "prelude"

(* The file of a success holds the whole object, if it was an object that  *)
(* was answered; of a bare answer and a redirect nothing is claimed.       *)
FileWhole == form.way = "file" /\ callSaid = "success" /\ reply = "ok" => outfile = "whole"

CallTells == EffectOnce /\ SentAtMost /\ StreamExact /\ FileWhole

(* Every command ends, with its last call answered.                        *)
CallOver == callAt = "ended" \/ (callAt = "begin" /\ calls = MaxCalls)
CallEnds == <>CallOver
===============================================================================
