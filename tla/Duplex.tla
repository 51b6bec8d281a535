------------------------------- MODULE Duplex --------------------------------
(***************************************************************************)
(* A duplex event stream: `call_operation_duplex` and `pump_duplex` of     *)
(* client.rs over `send_duplex` of transport/client.rs.                    *)
(*                                                                         *)
(* Four threads.  The reader turns input lines into messages; the HTTP     *)
(* thread turns response bytes into messages, and reports the end of the   *)
(* call; both send them to the main thread over one unbounded channel,     *)
(* `wake`.  The main thread runs an event loop over it: it signs a frame   *)
(* per line, each over the signature before it, and sends it over the      *)
(* unbounded channel `frames` to the producer, which feeds the request     *)
(* body, a channel of BodyQueue chunks.  The HTTP thread joins the         *)
(* producer before it reports that the response ended, and the main        *)
(* thread joins the reader and the HTTP thread before the call returns.    *)
(*                                                                         *)
(* The body is drained by the HTTP connection and read by the service,     *)
(* which are external.  An event comes back in two pieces, so a chunk may  *)
(* end in the middle of a frame.  A signature is the number of frames      *)
(* signed before it; frame 0 is the empty one that ends the input.         *)
(***************************************************************************)
EXTENDS Naturals, Sequences

CONSTANTS
  MaxLines,           (* bound: lines of input                             *)
  MaxEvents,          (* bound: events of the response                     *)
  BodyQueue           (* BODY_QUEUE, the capacity of the request body      *)

ASSUME DuplexAssumption ==
  MaxLines \in Nat /\ MaxEvents \in Nat /\ BodyQueue \in Nat \ {0}

VARIABLES
  reader,             (* "reading", or "done"                              *)
  lines,              (* lines read so far                                 *)
  wake,               (* messages for the event loop                       *)
  main,               (* "pump", "joinReader", "joinCaller", "returned"    *)
  outcome,            (* "none", then the result of pump_duplex            *)
  signed,             (* frames signed: the position in the chain          *)
  partial,            (* whether the decoder holds half an event           *)
  printed,            (* events handed to on_event                         *)
  framesOpen,         (* whether the event loop holds the frame sender     *)
  frames,             (* frames on their way to the producer               *)
  producer,           (* "recv", "sending", or "done"                      *)
  hand,               (* the frame the producer is sending                 *)
  body,               (* chunks in the request body's channel              *)
  bodyOpen,           (* whether the connection still takes the body       *)
  http,               (* "head", "refused", "reading", "joining",          *)
                      (* "report", "done"                                  *)
  failed,             (* whether the HTTP call failed                      *)
  service,            (* external: "open", then "ended"                    *)
  sent,               (* external: pieces of response events sent          *)
  response,           (* external: how many of them are not read yet       *)
  received,           (* external: request frames the service has seen     *)
  sawClose            (* external: the service saw the request body end    *)

readerVars == <<reader, lines>>
mainVars == <<main, outcome, signed, partial, printed, framesOpen>>
producerVars == <<producer, hand>>
httpVars == <<http, failed>>
serviceVars == <<service, sent, response, received, sawClose>>
vars == <<readerVars, wake, mainVars, frames, producerVars, body, bodyOpen, httpVars, serviceVars>>

Texts == {"event", "blank", "bad"}
Line(n, text) == [kind |-> "line", no |-> n, text |-> text]
Msg(kind) == [kind |-> kind]
Frame(n, prior) == [line |-> n, prior |-> prior]
NoFrame == Frame(0, 0)

Init ==
  /\ reader = "reading" /\ lines = 0
  /\ wake = <<>>
  /\ main = "pump" /\ outcome = "none" /\ signed = 0
  /\ partial = FALSE /\ printed = 0
  /\ framesOpen = TRUE /\ frames = <<>>
  /\ producer = "recv" /\ hand = NoFrame
  /\ body = <<>> /\ bodyOpen = TRUE
  /\ http = "head" /\ failed = FALSE
  /\ service = "open" /\ sent = 0 /\ response = 0
  /\ received = <<>> /\ sawClose = FALSE

-----------------------------------------------------------------------------
(* The reader thread.  The receiver of its messages lives until the reader *)
(* has been joined, so its sends never fail.                               *)

ReadLine ==
  /\ reader = "reading"
  /\ lines < MaxLines
  /\ lines' = lines + 1
  /\ \E text \in Texts : wake' = Append(wake, Line(lines + 1, text))
  /\ UNCHANGED <<reader, mainVars, frames, producerVars, body, bodyOpen, httpVars, serviceVars>>

ReadEnd ==
  /\ reader = "reading"
  /\ reader' = "done"
  /\ \E kind \in {"inputDone", "inputFailed"} : wake' = Append(wake, Msg(kind))
  /\ UNCHANGED <<lines, mainVars, frames, producerVars, body, bodyOpen, httpVars, serviceVars>>

Reader == ReadLine \/ ReadEnd

-----------------------------------------------------------------------------
(* The event loop. *)

NextIs(kind) ==
  /\ main = "pump"
  /\ wake # <<>>
  /\ Head(wake).kind = kind
  /\ wake' = Tail(wake)
  /\ UNCHANGED <<readerVars, producerVars, body, bodyOpen, httpVars, serviceVars>>

(* pump_duplex returns; the frame sender goes with it. *)
Leave(result) ==
  /\ main' = "joinReader"
  /\ outcome' = result
  /\ framesOpen' = FALSE

Stay == UNCHANGED <<main, outcome>>

(* Send a frame, if the sender is there and the producer still listens. *)
Send(frame) ==
  frames' = IF framesOpen /\ producer # "done" THEN Append(frames, frame) ELSE frames

SkipBlank ==
  /\ NextIs("line")
  /\ Head(wake).text = "blank"
  /\ UNCHANGED <<mainVars, frames>>

RejectLine ==
  /\ NextIs("line")
  /\ Head(wake).text = "bad"
  /\ Leave("error")
  /\ UNCHANGED <<signed, partial, printed, frames>>

SendLine ==
  /\ NextIs("line")
  /\ Head(wake).text = "event"
  /\ Stay
  /\ signed' = signed + 1
  /\ Send(Frame(Head(wake).no, signed))
  /\ framesOpen' = (framesOpen /\ producer # "done")
  /\ UNCHANGED <<partial, printed>>

(* Mutants: the end frame starts a chain of its own; the body is closed    *)
(* without it; the body is never closed.                                   *)
EndOverSeed ==
  /\ NextIs("inputDone") /\ Stay /\ signed' = signed + 1
  /\ Send(Frame(0, 0)) /\ framesOpen' = FALSE
  /\ UNCHANGED <<partial, printed>>
EndWithoutFrame ==
  /\ NextIs("inputDone") /\ Stay /\ framesOpen' = FALSE
  /\ UNCHANGED <<signed, partial, printed, frames>>
EndKeepsSender ==
  /\ NextIs("inputDone") /\ Stay /\ signed' = signed + 1
  /\ Send(Frame(0, signed))
  /\ UNCHANGED <<partial, printed, framesOpen>>

EndInput ==
  /\ NextIs("inputDone")
  /\ Stay
  /\ signed' = signed + 1
  /\ Send(Frame(0, signed))
  /\ framesOpen' = FALSE
  /\ UNCHANGED <<partial, printed>>

FailInput ==
  /\ NextIs("inputFailed")
  /\ Leave("error")
  /\ UNCHANGED <<signed, partial, printed, frames>>

(* A piece of the response: half an event is kept, a whole one handed on;  *)
(* decoding it or writing it out may fail.                                 *)
TakeResponse ==
  /\ NextIs("response")
  /\ \/ /\ partial' = ~partial
        /\ printed' = IF partial THEN printed + 1 ELSE printed
        /\ Stay /\ UNCHANGED framesOpen
     \/ /\ partial
        /\ Leave("error")
        /\ UNCHANGED <<partial, printed>>
  /\ UNCHANGED <<signed, frames>>

TakeFinished ==
  /\ NextIs("finished")
  /\ Leave(IF failed \/ partial THEN "error" ELSE "ok")
  /\ UNCHANGED <<signed, partial, printed, frames>>

JoinReader ==
  /\ main = "joinReader"
  /\ reader = "done"
  /\ main' = "joinCaller"
  /\ UNCHANGED <<readerVars, wake, outcome, signed, partial, printed, framesOpen, frames,
                 producerVars, body, bodyOpen, httpVars, serviceVars>>

JoinCaller ==
  /\ main = "joinCaller"
  /\ http = "done"
  /\ main' = "returned"
  /\ UNCHANGED <<readerVars, wake, outcome, signed, partial, printed, framesOpen, frames,
                 producerVars, body, bodyOpen, httpVars, serviceVars>>

Main ==
  \/ SkipBlank \/ RejectLine \/ SendLine \/ EndInput \/ FailInput
  \/ TakeResponse \/ TakeFinished
  \/ JoinReader \/ JoinCaller

-----------------------------------------------------------------------------
(* The producer thread. *)

Receive ==
  /\ producer = "recv"
  /\ frames # <<>>
  /\ hand' = Head(frames)
  /\ frames' = Tail(frames)
  /\ producer' = "sending"
  /\ UNCHANGED <<readerVars, wake, mainVars, body, bodyOpen, httpVars, serviceVars>>

(* The event loop dropped its sender. *)
Disconnected ==
  /\ producer = "recv"
  /\ frames = <<>>
  /\ ~framesOpen
  /\ producer' = "done"
  /\ UNCHANGED <<readerVars, wake, mainVars, frames, hand, body, bodyOpen, httpVars, serviceVars>>

(* A mutant: an unbounded body. *)
PushUnbounded ==
  /\ producer = "sending" /\ bodyOpen
  /\ body' = Append(body, hand) /\ producer' = "recv"
  /\ UNCHANGED <<readerVars, wake, mainVars, frames, hand, bodyOpen, httpVars, serviceVars>>

(* blocking_send: waits while the channel is full. *)
Push ==
  /\ producer = "sending"
  /\ bodyOpen
  /\ Len(body) < BodyQueue
  /\ body' = Append(body, hand)
  /\ producer' = "recv"
  /\ UNCHANGED <<readerVars, wake, mainVars, frames, hand, bodyOpen, httpVars, serviceVars>>

(* blocking_send: the request is over. *)
PushFails ==
  /\ producer = "sending"
  /\ ~bodyOpen
  /\ producer' = "done"
  /\ UNCHANGED <<readerVars, wake, mainVars, frames, hand, body, bodyOpen, httpVars, serviceVars>>

Producer == Receive \/ Disconnected \/ Push \/ PushFails

-----------------------------------------------------------------------------
(* The HTTP thread. *)

HttpHead ==
  /\ http = "head"
  /\ http' = "reading"
  /\ UNCHANGED <<readerVars, wake, mainVars, frames, producerVars, body, bodyOpen, failed, serviceVars>>

(* An error status: its document is collected, however long it takes.      *)
HttpRefuse ==
  /\ http = "head"
  /\ http' = "refused"
  /\ failed' = TRUE
  /\ UNCHANGED <<readerVars, wake, mainVars, frames, producerVars, body, bodyOpen, serviceVars>>

(* The document ends, or breaks off: the producer is not joined. *)
HttpCollect ==
  /\ http = "refused"
  /\ service = "ended"
  /\ http' = "report"
  /\ UNCHANGED <<readerVars, wake, mainVars, frames, producerVars, body, bodyOpen, failed, serviceVars>>

(* A broken connection, or no head or frame within the read timeout: the   *)
(* producer is not joined either.                                          *)
HttpFail ==
  /\ http \in {"head", "reading"}
  /\ http' = "report"
  /\ failed' = TRUE
  /\ UNCHANGED <<readerVars, wake, mainVars, frames, producerVars, body, bodyOpen, serviceVars>>

HttpRead ==
  /\ http = "reading"
  /\ response > 0
  /\ response' = response - 1
  /\ wake' = Append(wake, Msg("response"))
  /\ UNCHANGED <<readerVars, mainVars, frames, producerVars, body, bodyOpen, httpVars,
                 service, sent, received, sawClose>>

(* A mutant: the end of the stream overtakes what is still to be read. *)
HttpEndEarly ==
  /\ http = "reading" /\ service = "ended"
  /\ http' = "joining"
  /\ UNCHANGED <<readerVars, wake, mainVars, frames, producerVars, body, bodyOpen, failed, serviceVars>>

HttpEnd ==
  /\ http = "reading"
  /\ response = 0
  /\ service = "ended"
  /\ http' = "joining"
  /\ UNCHANGED <<readerVars, wake, mainVars, frames, producerVars, body, bodyOpen, failed, serviceVars>>

HttpJoin ==
  /\ http = "joining"
  /\ producer = "done"
  /\ http' = "report"
  /\ UNCHANGED <<readerVars, wake, mainVars, frames, producerVars, body, bodyOpen, failed, serviceVars>>

HttpReport ==
  /\ http = "report"
  /\ http' = "done"
  /\ wake' = Append(wake, Msg("finished"))
  /\ UNCHANGED <<readerVars, mainVars, frames, producerVars, body, bodyOpen, failed, serviceVars>>

Http == HttpHead \/ HttpRefuse \/ HttpCollect \/ HttpFail \/ HttpRead \/ HttpEnd \/ HttpJoin \/ HttpReport

-----------------------------------------------------------------------------
(* External: the connection, which drains the body until the call is over, *)
(* and the service, which answers when it likes and reads no event after a *)
(* refusal.                                                                *)

CallOver == http \notin {"head", "reading"} \/ service # "open"

TakeChunk ==
  /\ bodyOpen
  /\ body # <<>>
  /\ body' = Tail(body)
  /\ received' = IF CallOver THEN received ELSE Append(received, Head(body))
  /\ UNCHANGED <<readerVars, wake, mainVars, frames, producerVars, bodyOpen, httpVars,
                 service, sent, response, sawClose>>

CloseBody ==
  /\ bodyOpen
  /\ body = <<>>
  /\ producer = "done"
  /\ bodyOpen' = FALSE
  /\ sawClose' = ~CallOver
  /\ UNCHANGED <<readerVars, wake, mainVars, frames, producerVars, body, httpVars,
                 service, sent, response, received>>

DropBody ==
  /\ bodyOpen
  /\ CallOver
  /\ bodyOpen' = FALSE
  /\ body' = <<>>
  /\ UNCHANGED <<readerVars, wake, mainVars, frames, producerVars, httpVars, serviceVars>>

Connection == TakeChunk \/ CloseBody \/ DropBody

Answer ==
  /\ service = "open"
  /\ http = "reading"
  /\ sent < 2 * MaxEvents
  /\ sent' = sent + 1
  /\ response' = response + 1
  /\ UNCHANGED <<readerVars, wake, mainVars, frames, producerVars, body, bodyOpen, httpVars,
                 service, received, sawClose>>

(* The stream of events ends, or the document of a refusal does. *)
EndResponse ==
  /\ service = "open"
  /\ http \in {"reading", "refused"}
  /\ service' = "ended"
  /\ UNCHANGED <<readerVars, wake, mainVars, frames, producerVars, body, bodyOpen, httpVars,
                 sent, response, received, sawClose>>

Next == Reader \/ Main \/ Producer \/ Http \/ Connection \/ Answer \/ EndResponse

Spec == Init /\ [][Next]_vars

(* The threads are scheduled, a read of the head and of the events ends    *)
(* (the read timeout), and the connection takes the body.  Nothing is      *)
(* assumed of the service: it need not end the document of a refusal.      *)
ThreadFairness == WF_vars(Main) /\ WF_vars(Producer) /\ WF_vars(Http) /\ WF_vars(Connection)

(* With input that goes on or ends, as a file's does ... *)
FairSpec == Spec /\ ThreadFairness /\ WF_vars(Reader)
(* ... and with input that may fall silent, as a terminal's does. *)
SilentSpec == Spec /\ ThreadFairness

-----------------------------------------------------------------------------
Frames == [line : 0 .. MaxLines, prior : Nat]
Wakes == [kind : {"line"}, no : 1 .. MaxLines, text : Texts]
           \cup [kind : {"inputDone", "inputFailed", "response", "finished"}]

(* The type invariant. *)
TypeOK ==
  /\ reader \in {"reading", "done"}
  /\ lines \in 0 .. MaxLines
  /\ wake \in Seq(Wakes)
  /\ main \in {"pump", "joinReader", "joinCaller", "returned"}
  /\ outcome \in {"none", "ok", "error"}
  /\ (main = "pump") <=> (outcome = "none")
  /\ signed \in 0 .. (MaxLines + 1)
  /\ partial \in BOOLEAN
  /\ printed \in 0 .. MaxEvents
  /\ framesOpen \in BOOLEAN
  /\ frames \in Seq(Frames)
  /\ producer \in {"recv", "sending", "done"}
  /\ hand \in Frames
  /\ body \in Seq(Frames) /\ Len(body) <= BodyQueue
  /\ bodyOpen \in BOOLEAN
  /\ http \in {"head", "refused", "reading", "joining", "report", "done"}
  /\ failed \in BOOLEAN
  /\ service \in {"open", "ended"}
  /\ sent \in 0 .. (2 * MaxEvents)
  /\ response \in 0 .. sent
  /\ received \in Seq(Frames)
  /\ sawClose \in BOOLEAN

(* The service sees one chain of signatures: each frame is signed over the *)
(* one before it, the lines come in the order they were read, and nothing  *)
(* follows the frame that ends the input ("signing two frames concurrently *)
(* would produce a pair the service rejects").                             *)
ChainIntact ==
  \A k \in 1 .. Len(received) :
    /\ received[k].prior = k - 1
    /\ received[k].line = 0 => k = Len(received)
    /\ k < Len(received) /\ received[k + 1].line # 0 => received[k].line < received[k + 1].line

(* Success means the service ended the stream and every event it sent was  *)
(* handed on: the end of the call does not overtake an event on its way    *)
(* through the two threads.                                                *)
NothingLost == outcome = "ok" => service = "ended" /\ 2 * printed = sent

(* A service that sees the request body close has been told that the input *)
(* ended, by the empty signed frame, unless the call is failing ("Without  *)
(* it the service waits for more rather than finishing").                  *)
EndIsAnnounced ==
  sawClose => \/ received # <<>> /\ received[Len(received)].line = 0
              \/ outcome = "error"

(* Once the input ends the call returns, whatever the service does, but    *)
(* for one thing: a refusal whose document never ends is waited for for    *)
(* ever, because collect has no timeout ("The read timeout applies per     *)
(* response frame" is true of the events only).                            *)
CallReturns ==
  \/ <>(main = "returned")
  \/ <>[](http = "refused" /\ service = "open")

(* Joining the producer ends it: no thread is left over, writing into a    *)
(* request that has already ended, and none waits for another for ever.    *)
ProducerEndsWithRequest == http = "joining" ~> producer = "done"
===============================================================================
