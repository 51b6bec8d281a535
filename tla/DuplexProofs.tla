----------------------------- MODULE DuplexProofs -----------------------------
(***************************************************************************)
(* Theorems about the duplex event stream, for every number of lines and   *)
(* events, and every capacity of the request body.                         *)
(***************************************************************************)
EXTENDS Duplex, FiniteSetTheorems, SequenceTheorems, TLAPS

-----------------------------------------------------------------------------
(* The inductive invariant. *)

(* Messages in the channel to the event loop, by what they are. *)
Lines == {k \in 1 .. Len(wake) : wake[k].kind = "line"}
InputEnds == {k \in 1 .. Len(wake) : wake[k].kind \in {"inputDone", "inputFailed"}}
CallEnds == {k \in 1 .. Len(wake) : wake[k].kind = "finished"}
Responses(w) == {k \in 1 .. Len(w) : w[k].kind = "response"}

(* The channel keeps the order of each of its senders: lines are taken in  *)
(* the order they were read and the end of the input after all of them,    *)
(* pieces of the response in their order and the end of the call after     *)
(* all of them.  No more frames are signed than lines were taken, but for  *)
(* the last.                                                               *)
WakeInv ==
  /\ \A k \in Lines : signed < wake[k].no /\ wake[k].no <= lines
  /\ \A k, l \in Lines : k < l => wake[k].no < wake[l].no
  /\ \A k \in InputEnds : reader = "done" /\ \A l \in Lines \cup InputEnds : l <= k
  /\ \A k \in CallEnds : http = "done" /\ \A l \in Responses(wake) : l < k
  /\ signed <= lines + 1
  /\ reader = "reading" \/ InputEnds # {} => signed <= lines

(* Every piece of the response that was sent is unread, in the channel,    *)
(* kept by the decoder, or handed on with its event.                       *)
Held(b) == IF b THEN 1 ELSE 0
Accounted == 2 * printed + Held(partial) + Cardinality(Responses(wake)) + response
CountInv ==
  /\ Accounted <= sent
  /\ main = "pump" => Accounted = sent
  /\ http \in {"refused", "joining", "report", "done"} /\ ~failed => service = "ended" /\ response = 0
  /\ outcome = "ok" => service = "ended" /\ 2 * printed = sent

(* The frames from the service back to the event loop.                     *)
InHand == IF producer = "sending" THEN <<hand>> ELSE <<>>
Chain == received \o (body \o (InHand \o frames))
Linked(s) ==
  \A k \in 1 .. Len(s) :
    /\ s[k].prior = k - 1
    /\ s[k].line = 0 => k = Len(s)
    /\ k < Len(s) /\ s[k + 1].line # 0 => s[k].line < s[k + 1].line
Ends(s) == s # <<>> /\ s[Len(s)].line = 0

Seen ==
  /\ Linked(received)
  /\ sawClose => ~bodyOpen /\ (Ends(received) \/ outcome = "error")

(* Lines of the chain are behind those not taken from the channel yet.     *)
Behind(s) ==
  \A k \in 1 .. Len(s) :
    /\ s[k].line # 0 /\ s[k].line <= lines
    /\ \A l \in Lines : s[k].line < wake[l].no

(* Until the call is over no frame is dropped, so what the event loop      *)
(* signs next continues the chain that the service will see.  After that   *)
(* the service sees no more.                                               *)
Coming ==
  /\ Linked(Chain)
  /\ framesOpen => signed = Len(Chain) /\ Behind(Chain)
  /\ ~framesOpen => Ends(Chain) \/ outcome = "error"
  /\ producer = "done" => frames = <<>> /\ ~framesOpen
  /\ ~bodyOpen => producer = "done"

ChainInv == Seen /\ (~CallOver => Coming)

Inv == TypeOK /\ WakeInv /\ CountInv /\ ChainInv

-----------------------------------------------------------------------------
(* The channel to the event loop. *)

LEMMA Message ==
  ASSUME NEW m \in Wakes
  PROVE  /\ m.kind \in {"line", "inputDone", "inputFailed", "response", "finished"}
         /\ m.kind = "line" => m.no \in 1 .. MaxLines /\ m.text \in Texts
BY DEF Wakes

LEMMA LineIsMessage ==
  ASSUME NEW n \in 1 .. MaxLines, NEW text \in Texts
  PROVE  /\ Line(n, text) \in Wakes /\ Line(n, text).kind = "line" /\ Line(n, text).no = n
         /\ Line(n, text).text = text
BY DEF Line, Wakes

LEMMA MsgIsMessage ==
  ASSUME NEW kind \in {"inputDone", "inputFailed", "response", "finished"}
  PROVE  Msg(kind) \in Wakes /\ Msg(kind).kind = kind
BY DEF Msg, Wakes

LEMMA ResponsesFinite ==
  ASSUME NEW w \in Seq(Wakes)
  PROVE  IsFiniteSet(Responses(w)) /\ Cardinality(Responses(w)) \in Nat
<1>1. Len(w) \in Nat /\ IsFiniteSet(1 .. Len(w))
  BY FS_Interval
<1>2. Responses(w) \in SUBSET (1 .. Len(w))
  BY DEF Responses
<1>3. QED
  BY <1>1, <1>2, FS_Subset, FS_CardinalityType

(* A message is sent. *)
LEMMA Pushed ==
  ASSUME NEW w \in Seq(Wakes), NEW m \in Wakes, NEW v, v = Append(w, m)
  PROVE  /\ v \in Seq(Wakes) /\ Len(w) \in Nat /\ Len(v) = Len(w) + 1
         /\ v[Len(w) + 1] = m /\ \A k \in 1 .. Len(w) : v[k] = w[k]
         /\ Cardinality(Responses(v)) =
              Cardinality(Responses(w)) + (IF m.kind = "response" THEN 1 ELSE 0)
<1>1. /\ v \in Seq(Wakes) /\ Len(w) \in Nat /\ Len(v) = Len(w) + 1
      /\ v[Len(w) + 1] = m /\ \A k \in 1 .. Len(w) : v[k] = w[k]
  BY AppendProperties, LenProperties
<1>2. CASE m.kind = "response"
  <2>1. Responses(v) = Responses(w) \cup {Len(w) + 1}
    BY <1>1, <1>2 DEF Responses
  <2>2. Len(w) + 1 \notin Responses(w)
    BY <1>1 DEF Responses
  <2>3. Cardinality(Responses(v)) = Cardinality(Responses(w)) + 1
    BY <2>1, <2>2, ResponsesFinite, FS_AddElement
  <2>4. QED
    BY <1>1, <1>2, <2>3
<1>3. CASE m.kind # "response"
  <2>1. Responses(v) = Responses(w)
    BY <1>1, <1>3 DEF Responses
  <2>2. QED
    BY <1>1, <1>3, <2>1, ResponsesFinite
<1>4. QED
  BY <1>2, <1>3

(* A message is taken: the others move one place up. *)
LEMMA Popped ==
  ASSUME NEW w \in Seq(Wakes), w # <<>>, NEW v, v = Tail(w)
  PROVE  /\ v \in Seq(Wakes) /\ Len(w) \in Nat \ {0} /\ Len(v) = Len(w) - 1
         /\ Head(w) = w[1] /\ Head(w) \in Wakes
         /\ \A k \in 1 .. Len(v) : v[k] = w[k + 1]
         /\ Cardinality(Responses(w)) =
              Cardinality(Responses(v)) + (IF Head(w).kind = "response" THEN 1 ELSE 0)
<1>1. /\ v \in Seq(Wakes) /\ Len(w) \in Nat \ {0} /\ Len(v) = Len(w) - 1
      /\ Head(w) = w[1] /\ Head(w) \in Wakes
      /\ \A k \in 1 .. Len(v) : v[k] = w[k + 1]
  BY HeadTailProperties, EmptySeq
<1> DEFINE Rest == Responses(w) \ {1}
<1>2. IsFiniteSet(Rest) /\ Cardinality(Rest) =
        IF 1 \in Responses(w) THEN Cardinality(Responses(w)) - 1 ELSE Cardinality(Responses(w))
  BY ResponsesFinite, FS_RemoveElement
<1>3. 1 \in Responses(w) <=> Head(w).kind = "response"
  BY <1>1 DEF Responses
<1>4. Cardinality(Responses(v)) = Cardinality(Rest)
  <2> DEFINE f == [k \in Rest |-> k - 1]
  <2>1. \A k \in Rest : k - 1 \in Responses(v)
    BY <1>1 DEF Responses
  <2>2. \A k \in Responses(v) : k + 1 \in Rest /\ k \in Int
    BY <1>1 DEF Responses
  <2>3. f \in Bijection(Rest, Responses(v))
    <3>1. f \in [Rest -> Responses(v)]
      BY <2>1
    <3>2. \A a, b \in Rest : f[a] = f[b] => a = b
      BY DEF Responses
    <3>3. \A k \in Responses(v) : \E a \in Rest : f[a] = k
      <4> TAKE k \in Responses(v)
      <4>1. k + 1 \in Rest /\ (k + 1) - 1 = k
        BY <2>2
      <4>2. f[k + 1] = k
        BY <4>1
      <4>3. QED
        BY <4>1, <4>2
    <3>4. QED
      BY <3>1, <3>2, <3>3 DEF Bijection, Injection, Surjection, IsInjective
  <2>4. ExistsBijection(Rest, Responses(v))
    BY <2>3 DEF ExistsBijection
  <2>5. QED
    BY <1>2, <2>4, FS_Bijection
<1>5. QED
  BY <1>1, <1>2, <1>3, <1>4, ResponsesFinite

-----------------------------------------------------------------------------
(* The order of the messages, and the number of frames signed. *)

LEMMA PushKeepsOrder ==
  ASSUME TypeOK, WakeInv, NEW m \in Wakes, wake' = Append(wake, m),
         signed' = signed, lines <= lines', lines' \in Nat,
         m.kind = "line" =>
           reader = "reading" /\ reader' = "reading" /\ m.no = lines + 1 /\ lines' = lines + 1,
         m.kind # "line" => lines' = lines,
         m.kind \in {"inputDone", "inputFailed"} => reader = "reading" /\ reader' = "done",
         m.kind \notin {"inputDone", "inputFailed"} => reader' = reader,
         m.kind = "finished" => http' = "done",
         m.kind = "response" => http # "done" /\ http' # "done",
         m.kind \notin {"finished", "response"} => http' = http,
         http = "done" => http' = "done"
  PROVE  WakeInv'
<1>1. /\ wake' \in Seq(Wakes) /\ Len(wake) \in Nat /\ Len(wake') = Len(wake) + 1
      /\ wake'[Len(wake) + 1] = m /\ \A k \in 1 .. Len(wake) : wake'[k] = wake[k]
      /\ signed \in Nat /\ lines \in Nat
  BY Pushed DEF TypeOK
<1>2. PICK n \in Nat : n = Len(wake)
  BY <1>1
<1>3. Lines' = IF m.kind = "line" THEN Lines \cup {n + 1} ELSE Lines
  BY <1>1, <1>2 DEF Lines
<1>4. InputEnds' = IF m.kind \in {"inputDone", "inputFailed"} THEN InputEnds \cup {n + 1} ELSE InputEnds
  BY <1>1, <1>2 DEF InputEnds
<1>5. CallEnds' = IF m.kind = "finished" THEN CallEnds \cup {n + 1} ELSE CallEnds
  BY <1>1, <1>2 DEF CallEnds
<1>6. Responses(wake)' = IF m.kind = "response" THEN Responses(wake) \cup {n + 1} ELSE Responses(wake)
  BY <1>1, <1>2 DEF Responses
<1>7. /\ Lines \subseteq 1 .. n /\ InputEnds \subseteq 1 .. n
      /\ CallEnds \subseteq 1 .. n /\ Responses(wake) \subseteq 1 .. n
  BY <1>2 DEF Lines, InputEnds, CallEnds, Responses
<1>8. /\ \A k \in Lines : wake[k].no \in Nat
  BY <1>2, <1>7, Message, ElementOfSeq DEF TypeOK, Lines
<1>9. \A k \in Lines' : signed' < wake'[k].no /\ wake'[k].no <= lines'
  BY <1>1, <1>2, <1>3, <1>7, <1>8 DEF WakeInv
<1>10. \A k, l \in Lines' : k < l => wake'[k].no < wake'[l].no
  BY <1>1, <1>2, <1>3, <1>7, <1>8 DEF WakeInv
<1>11. \A k \in InputEnds' : reader' = "done" /\ \A l \in (Lines \cup InputEnds)' : l <= k
  <2>1. reader = "reading" => InputEnds = {}
    BY DEF WakeInv
  <2>2. CASE m.kind = "line"
    BY <1>4, <2>1, <2>2
  <2>3. CASE m.kind \in {"inputDone", "inputFailed"}
    BY <1>2, <1>3, <1>4, <1>7, <2>1, <2>3
  <2>4. CASE m.kind \notin {"line", "inputDone", "inputFailed"}
    BY <1>3, <1>4, <2>4 DEF WakeInv
  <2>5. QED
    BY <2>2, <2>3, <2>4
<1>12. \A k \in CallEnds' : http' = "done" /\ \A l \in Responses(wake)' : l < k
  BY <1>2, <1>5, <1>6, <1>7 DEF WakeInv
<1>13. signed' <= lines' + 1 /\ (reader' = "reading" \/ InputEnds' # {} => signed' <= lines')
  <2>1. signed <= lines + 1 /\ (reader = "reading" \/ InputEnds # {} => signed <= lines)
    BY DEF WakeInv
  <2>2. reader' = "reading" \/ InputEnds' # {} => reader = "reading" \/ InputEnds # {}
    BY <1>4
  <2>3. signed' = signed /\ signed \in Nat /\ lines \in Nat /\ lines' \in Nat /\ lines <= lines'
    BY <1>1
  <2>4. signed' <= lines' + 1 /\ (signed <= lines => signed' <= lines')
    <3>1. \A a, b, c \in Nat : b <= c => (a <= b + 1 => a <= c + 1) /\ (a <= b => a <= c)
      OBVIOUS
    <3>2. (signed <= lines + 1 => signed <= lines' + 1) /\ (signed <= lines => signed <= lines')
      BY <2>3, <3>1, Zenon
    <3>3. QED
      BY <2>1, <2>3, <3>2, Zenon
  <2>5. QED
    BY <2>1, <2>2, <2>4
<1>14. QED
  BY <1>9, <1>10, <1>11, <1>12, <1>13 DEF WakeInv

(* What is left in the channel when a message is taken. *)
LEMMA PopKeepsOrder ==
  ASSUME TypeOK, WakeInv, wake # <<>>, wake' = Tail(wake),
         UNCHANGED <<lines, reader, http>>,
         signed' = signed + 1 => Head(wake).kind \in {"line", "inputDone"},
         signed' \in {signed, signed + 1}
  PROVE  WakeInv' /\ signed' \in Nat
<1>1. /\ wake' \in Seq(Wakes) /\ Len(wake) \in Nat \ {0} /\ Len(wake') = Len(wake) - 1
      /\ Head(wake) = wake[1] /\ Head(wake) \in Wakes
      /\ \A k \in 1 .. Len(wake') : wake'[k] = wake[k + 1]
      /\ signed \in Nat /\ lines \in Nat
  BY Popped DEF TypeOK
<1>2. \A k \in Lines' : k \in Nat /\ k + 1 \in Lines /\ wake'[k] = wake[k + 1]
  BY <1>1 DEF Lines
<1>3. \A k \in InputEnds' : k \in Nat /\ k + 1 \in InputEnds
  BY <1>1 DEF InputEnds
<1>4. \A k \in CallEnds' : k \in Nat /\ k + 1 \in CallEnds
  BY <1>1 DEF CallEnds
<1>5. \A k \in Responses(wake)' : k \in Nat /\ k + 1 \in Responses(wake)
  BY <1>1 DEF Responses
<1>6. \A k \in Lines : wake[k].no \in Nat
  BY <1>1, Message, ElementOfSeq DEF TypeOK, Lines
<1>7. Head(wake).kind = "line" => 1 \in Lines /\ signed < wake[1].no /\ wake[1].no <= lines
  BY <1>1 DEF WakeInv, Lines
<1>8. Head(wake).kind = "inputDone" => Lines' = {} /\ InputEnds' = {} /\ signed <= lines
  <2>1. Head(wake).kind = "inputDone" => 1 \in InputEnds
    BY <1>1 DEF InputEnds
  <2>2. 1 \in InputEnds => signed <= lines /\ \A l \in Lines \cup InputEnds : l <= 1
    BY DEF WakeInv
  <2>3. \A k \in Lines' \cup InputEnds' : k >= 1
    BY <1>1 DEF Lines, InputEnds
  <2>4. QED
    BY <1>2, <1>3, <2>1, <2>2, <2>3
<1>9. signed' \in Nat
  BY <1>1
<1>10. \A k \in Lines' : signed' < wake'[k].no /\ wake'[k].no <= lines'
  <2> TAKE k \in Lines'
  <2>1. k + 1 \in Lines /\ k \in Nat /\ k >= 1 /\ wake'[k] = wake[k + 1]
    BY <1>1, <1>2 DEF Lines
  <2>2. signed < wake[k + 1].no /\ wake[k + 1].no <= lines /\ wake[k + 1].no \in Nat
    BY <1>6, <2>1 DEF WakeInv
  <2>3. Head(wake).kind = "line" => wake[1].no < wake[k + 1].no /\ wake[1].no \in Nat
    BY <1>6, <1>7, <2>1 DEF WakeInv
  <2>4. CASE signed' = signed
    BY <2>1, <2>2, <2>4
  <2>5. CASE signed' = signed + 1
    <3>1. Head(wake).kind = "line"
      BY <1>8, <2>5
    <3>2. signed + 1 < wake[k + 1].no
      BY <1>1, <1>7, <2>2, <2>3, <3>1
    <3>3. QED
      BY <2>1, <2>2, <2>5, <3>2
  <2>6. QED
    BY <2>4, <2>5
<1>11. \A k, l \in Lines' : k < l => wake'[k].no < wake'[l].no
  <2> TAKE k, l \in Lines'
  <2>1. /\ k \in Nat /\ k + 1 \in Lines /\ wake'[k] = wake[k + 1]
        /\ l \in Nat /\ l + 1 \in Lines /\ wake'[l] = wake[l + 1]
    BY <1>2
  <2>2. k < l => k + 1 < l + 1
    BY <2>1
  <2>3. QED
    BY <2>1, <2>2 DEF WakeInv
<1>12. \A k \in InputEnds' : reader' = "done" /\ \A l \in (Lines \cup InputEnds)' : l <= k
  BY <1>2, <1>3 DEF WakeInv
<1>13. \A k \in CallEnds' : http' = "done" /\ \A l \in Responses(wake)' : l < k
  BY <1>4, <1>5 DEF WakeInv
<1>14. signed' <= lines' + 1 /\ (reader' = "reading" \/ InputEnds' # {} => signed' <= lines')
  <2>1. InputEnds' # {} => InputEnds # {}
    BY <1>3
  <2>2. Head(wake).kind = "inputDone" => reader = "done"
    BY <1>1 DEF WakeInv, InputEnds
  <2>3. CASE signed' = signed
    BY <2>1, <2>3 DEF WakeInv
  <2>4. CASE signed' = signed + 1 /\ Head(wake).kind = "line"
    BY <1>1, <1>6, <1>7, <2>4
  <2>5. CASE signed' = signed + 1 /\ Head(wake).kind = "inputDone"
    BY <1>1, <1>8, <2>2, <2>5
  <2>6. QED
    BY <2>3, <2>4, <2>5
<1>15. QED
  BY <1>9, <1>10, <1>11, <1>12, <1>13, <1>14 DEF WakeInv

(* What a step of each kind does to the channel. *)
Rest == UNCHANGED <<wake, signed, lines, reader>> /\ (http' = "done" <=> http = "done")

LEMMA WakeStep == TypeOK /\ WakeInv /\ [Next]_vars => WakeInv' /\ signed' \in Nat
<1> SUFFICES ASSUME TypeOK, WakeInv, [Next]_vars
             PROVE  WakeInv' /\ signed' \in Nat
  OBVIOUS
<1>1. signed \in Nat /\ lines \in Nat
  BY DEF TypeOK
<1>2. CASE ReadLine
  <2>1. PICK text \in Texts : wake' = Append(wake, Line(lines + 1, text))
    BY <1>2 DEF ReadLine
  <2>2. /\ reader = "reading" /\ lines' = lines + 1 /\ lines + 1 \in 1 .. MaxLines
        /\ reader' = reader /\ signed' = signed /\ http' = http
    BY <1>1, <1>2, DuplexAssumption DEF ReadLine, mainVars, httpVars, TypeOK
  <2>3. Line(lines + 1, text) \in Wakes /\ Line(lines + 1, text).kind = "line"
        /\ Line(lines + 1, text).no = lines + 1
    BY <2>2, LineIsMessage
  <2>4. QED
    BY <1>1, <2>1, <2>2, <2>3, PushKeepsOrder
<1>3. CASE ReadEnd
  <2>1. PICK kind \in {"inputDone", "inputFailed"} : wake' = Append(wake, Msg(kind))
    BY <1>3 DEF ReadEnd
  <2>2. /\ reader = "reading" /\ reader' = "done" /\ lines' = lines /\ signed' = signed /\ http' = http
    BY <1>3 DEF ReadEnd, mainVars, httpVars
  <2>3. Msg(kind) \in Wakes /\ Msg(kind).kind = kind
    BY MsgIsMessage
  <2>4. QED
    BY <1>1, <2>1, <2>2, <2>3, PushKeepsOrder
<1>4. CASE SkipBlank \/ RejectLine \/ FailInput \/ TakeResponse \/ TakeFinished
  <2>1. wake # <<>> /\ wake' = Tail(wake) /\ UNCHANGED <<lines, reader, http, signed>>
    BY <1>4 DEF SkipBlank, RejectLine, FailInput, TakeResponse, TakeFinished, NextIs,
                readerVars, httpVars, mainVars
  <2>2. signed' # signed + 1
    BY <1>1, <2>1
  <2>3. QED
    BY <2>1, <2>2, PopKeepsOrder
<1>5. CASE SendLine \/ EndInput
  <2>1. /\ wake # <<>> /\ wake' = Tail(wake) /\ UNCHANGED <<lines, reader, http>>
        /\ signed' = signed + 1 /\ Head(wake).kind \in {"line", "inputDone"}
    BY <1>5 DEF SendLine, EndInput, NextIs, readerVars, httpVars
  <2>2. QED
    BY <2>1, PopKeepsOrder
<1>6. CASE HttpRead
  <2>1. /\ wake' = Append(wake, Msg("response")) /\ UNCHANGED <<lines, reader, signed, http>>
        /\ http # "done"
    BY <1>6 DEF HttpRead, readerVars, httpVars, mainVars
  <2>2. Msg("response") \in Wakes /\ Msg("response").kind = "response"
    BY MsgIsMessage
  <2>3. QED
    BY <1>1, <2>1, <2>2, PushKeepsOrder
<1>7. CASE HttpReport
  <2>1. /\ wake' = Append(wake, Msg("finished")) /\ UNCHANGED <<lines, reader, signed>>
        /\ http' = "done"
    BY <1>7 DEF HttpReport, readerVars, mainVars
  <2>2. Msg("finished") \in Wakes /\ Msg("finished").kind = "finished"
    BY MsgIsMessage
  <2>3. QED
    BY <1>1, <2>1, <2>2, PushKeepsOrder
<1>8. CASE Rest
  <2>1. /\ Lines' = Lines /\ InputEnds' = InputEnds /\ CallEnds' = CallEnds
        /\ Responses(wake)' = Responses(wake)
    BY <1>8 DEF Rest, Lines, InputEnds, CallEnds, Responses
  <2>2. WakeInv'
    BY <1>8, <2>1 DEF Rest, WakeInv
  <2>3. QED
    BY <1>1, <1>8, <2>2 DEF Rest
<1>9. CASE UNCHANGED vars \/ JoinReader \/ JoinCaller
  BY <1>8, <1>9 DEF Rest, vars, JoinReader, JoinCaller, readerVars, mainVars, httpVars
<1>10. CASE Producer
  BY <1>8, <1>10 DEF Rest, Producer, Receive, Disconnected, Push, PushFails, readerVars, mainVars, httpVars
<1>11. CASE HttpHead \/ HttpRefuse \/ HttpCollect \/ HttpFail \/ HttpEnd \/ HttpJoin
  BY <1>8, <1>11 DEF Rest, HttpHead, HttpRefuse, HttpCollect, HttpFail, HttpEnd, HttpJoin, readerVars, mainVars
<1>12. CASE Connection
  BY <1>8, <1>12 DEF Rest, Connection, TakeChunk, CloseBody, DropBody, readerVars, mainVars, httpVars
<1>13. CASE Answer \/ EndResponse
  BY <1>8, <1>13 DEF Rest, Answer, EndResponse, readerVars, mainVars, httpVars
<1>14. QED
  BY <1>2, <1>3, <1>4, <1>5, <1>6, <1>7, <1>9, <1>10, <1>11, <1>12, <1>13 DEF Next, Reader, Main, Http

-----------------------------------------------------------------------------
(* The pieces of the response. *)

LEMMA CountStep == TypeOK /\ WakeInv /\ CountInv /\ [Next]_vars => CountInv'
<1> SUFFICES ASSUME TypeOK, WakeInv, CountInv, [Next]_vars
             PROVE  CountInv'
  OBVIOUS
<1> DEFINE waiting == Cardinality(Responses(wake))
<1>1. /\ printed \in Nat /\ response \in Nat /\ sent \in Nat /\ waiting \in Nat
      /\ partial \in BOOLEAN /\ wake \in Seq(Wakes)
      /\ (main = "pump") <=> (outcome = "none")
  BY ResponsesFinite, DuplexAssumption DEF TypeOK
<1>2. /\ Held(partial) \in {0, 1} /\ (~partial => Held(partial) = 0) /\ (partial => Held(partial) = 1)
  BY DEF Held
<1>3. /\ Accounted = 2 * printed + Held(partial) + waiting + response
      /\ Accounted' = 2 * printed' + Held(partial') + waiting' + response'
  BY DEF Accounted
<1>4. ASSUME NEW m \in Wakes, wake' = Append(wake, m)
      PROVE  waiting' = waiting + (IF m.kind = "response" THEN 1 ELSE 0)
  BY <1>1, <1>4, Pushed
<1>5. ASSUME wake # <<>>, wake' = Tail(wake)
      PROVE  /\ waiting = waiting' + (IF Head(wake).kind = "response" THEN 1 ELSE 0)
             /\ waiting' \in Nat /\ Head(wake) = wake[1] /\ 1 \in 1 .. Len(wake)
  <2>1. wake' \in Seq(Wakes) /\ Head(wake) = wake[1] /\ Len(wake) \in Nat \ {0}
    BY <1>1, <1>5, Popped
  <2>2. waiting = waiting' + (IF Head(wake).kind = "response" THEN 1 ELSE 0)
    BY <1>1, <1>5, Popped
  <2>3. QED
    BY <2>1, <2>2, ResponsesFinite
<1> HIDE DEF waiting
<1>6. /\ Accounted <= sent /\ (main = "pump" => Accounted = sent)
      /\ (http \in {"refused", "joining", "report", "done"} /\ ~failed => service = "ended" /\ response = 0)
      /\ (outcome = "ok" => service = "ended" /\ 2 * printed = sent)
  BY DEF CountInv
<1>7. CASE ReadLine
  <2>1. PICK text \in Texts : wake' = Append(wake, Line(lines + 1, text))
    BY <1>7 DEF ReadLine
  <2>2. lines + 1 \in 1 .. MaxLines /\ UNCHANGED <<mainVars, httpVars, serviceVars>>
    BY <1>7, DuplexAssumption DEF ReadLine, TypeOK
  <2>3. waiting' = waiting
    BY <1>1, <1>4, <2>1, <2>2, LineIsMessage
  <2>4. QED
    BY <1>3, <1>6, <2>2, <2>3 DEF CountInv, mainVars, httpVars, serviceVars
<1>8. CASE ReadEnd
  <2>1. PICK kind \in {"inputDone", "inputFailed"} : wake' = Append(wake, Msg(kind))
    BY <1>8 DEF ReadEnd
  <2>2. UNCHANGED <<mainVars, httpVars, serviceVars>>
    BY <1>8 DEF ReadEnd
  <2>3. waiting' = waiting
    BY <1>1, <1>4, <2>1, MsgIsMessage
  <2>4. QED
    BY <1>3, <1>6, <2>2, <2>3 DEF CountInv, mainVars, httpVars, serviceVars
<1>9. CASE SkipBlank \/ RejectLine \/ SendLine \/ EndInput \/ FailInput
  <2>1. /\ wake # <<>> /\ wake' = Tail(wake) /\ Head(wake).kind # "response"
        /\ UNCHANGED <<partial, printed, httpVars, serviceVars>>
        /\ main = "pump" /\ ((main' = "pump" /\ outcome' = outcome) \/ outcome' = "error")
    BY <1>9 DEF SkipBlank, RejectLine, SendLine, EndInput, FailInput, NextIs, Leave, Stay, mainVars
  <2>2. waiting' = waiting
    BY <1>1, <1>5, <2>1
  <2>3. QED
    BY <1>1, <1>3, <1>6, <2>1, <2>2 DEF CountInv, httpVars, serviceVars
<1>10. CASE TakeResponse
  <2>1. /\ wake # <<>> /\ wake' = Tail(wake) /\ Head(wake).kind = "response"
        /\ main = "pump" /\ UNCHANGED <<httpVars, serviceVars>>
    BY <1>10 DEF TakeResponse, NextIs
  <2>2. waiting = waiting' + 1 /\ waiting' \in Nat
    BY <1>5, <2>1
  <2>3. CASE /\ partial' = ~partial /\ printed' = IF partial THEN printed + 1 ELSE printed
             /\ Stay
    <3>1. 2 * printed' + Held(partial') = 2 * printed + Held(partial) + 1
      <4>1. CASE partial
        <5>1. printed' = printed + 1 /\ Held(partial') = 0 /\ Held(partial) = 1
          BY <1>2, <2>3, <4>1 DEF Held
        <5>2. QED
          BY <1>1, <5>1
      <4>2. CASE ~partial
        <5>1. printed' = printed /\ Held(partial') = 1 /\ Held(partial) = 0
          BY <1>2, <2>3, <4>2 DEF Held
        <5>2. QED
          BY <1>1, <5>1
      <4>3. QED
        BY <4>1, <4>2
    <3>2. printed' \in Nat /\ Held(partial') \in {0, 1}
      BY <1>1, <2>3 DEF Held
    <3>3. Accounted' = Accounted
      <4>1. \A a, b, c, d, w, v, r \in Int : a + b = c + d + 1 /\ w = v + 1 => a + b + v + r = c + d + w + r
        OBVIOUS
      <4>2. /\ 2 * printed' \in Int /\ Held(partial') \in Int /\ 2 * printed \in Int
            /\ Held(partial) \in Int /\ waiting \in Int /\ waiting' \in Int /\ response \in Int
        BY <1>1, <1>2, <2>2, <3>2
      <4>3. response' = response
        BY <2>1 DEF serviceVars
      <4>4. 2 * printed' + Held(partial') + waiting' + response
              = 2 * printed + Held(partial) + waiting + response
        BY <2>2, <3>1, <4>1, <4>2
      <4>5. Accounted' = 2 * printed' + Held(partial') + waiting' + response
        BY <1>3, <4>3, Zenon
      <4>6. QED
        BY <1>3, <4>4, <4>5, Zenon
    <3>4. outcome' = "none" /\ main' = "pump"
      BY <1>1, <2>1, <2>3 DEF Stay
    <3>5. QED
      BY <1>6, <2>1, <3>3, <3>4 DEF CountInv, httpVars, serviceVars
  <2>4. CASE Leave("error") /\ UNCHANGED <<partial, printed>>
    <3>1. Accounted' <= Accounted /\ Accounted' \in Nat /\ Accounted \in Nat
      <4>1. printed' = printed /\ Held(partial') = Held(partial) /\ response' = response
        BY <2>1, <2>4 DEF serviceVars
      <4>2. 2 * printed \in Nat /\ Held(partial) \in Nat
        BY <1>1, <1>2
      <4>3. \A p, h, w, r \in Nat : /\ p + h + w + r <= p + h + (w + 1) + r
                                   /\ p + h + w + r \in Nat /\ p + h + (w + 1) + r \in Nat
        OBVIOUS
      <4>4. /\ Accounted' = 2 * printed + Held(partial) + waiting' + response
            /\ Accounted = 2 * printed + Held(partial) + (waiting' + 1) + response
        BY <1>3, <2>2, <4>1, Zenon
      <4>5. QED
        BY <1>1, <2>2, <4>2, <4>3, <4>4, Zenon
    <3>2. QED
      BY <1>1, <1>6, <2>1, <2>4, <3>1 DEF CountInv, Leave, httpVars, serviceVars
  <2>5. QED
    BY <1>10, <2>3, <2>4 DEF TakeResponse
<1>11. CASE TakeFinished
  <2>1. /\ wake # <<>> /\ wake' = Tail(wake) /\ Head(wake).kind = "finished"
        /\ main = "pump" /\ UNCHANGED <<partial, printed, httpVars, serviceVars>>
        /\ main' # "pump" /\ outcome' = IF failed \/ partial THEN "error" ELSE "ok"
    BY <1>11 DEF TakeFinished, NextIs, Leave
  <2>2. waiting = waiting' /\ 1 \in 1 .. Len(wake) /\ wake[1].kind = "finished"
    BY <1>1, <1>5, <2>1
  <2>3. http = "done" /\ Responses(wake) = {}
    <3>1. 1 \in CallEnds
      BY <2>2 DEF CallEnds
    <3>2. http = "done" /\ \A l \in Responses(wake) : l < 1
      BY <3>1 DEF WakeInv
    <3>3. \A l \in Responses(wake) : l \in Int /\ l >= 1
      BY DEF Responses
    <3>4. QED
      BY <3>2, <3>3
  <2>4. waiting = 0
    BY <2>3, FS_EmptySet DEF waiting
  <2>5. ~failed /\ ~partial => service = "ended" /\ 2 * printed = sent
    BY <1>1, <1>2, <1>3, <1>6, <2>1, <2>3, <2>4
  <2>6. QED
    BY <1>3, <1>6, <2>1, <2>2, <2>5 DEF CountInv, httpVars, serviceVars
<1>12. CASE HttpRead
  <2>1. /\ response > 0 /\ response' = response - 1 /\ http = "reading"
        /\ wake' = Append(wake, Msg("response"))
        /\ UNCHANGED <<mainVars, httpVars, service, sent>>
    BY <1>12 DEF HttpRead
  <2>2. waiting' = waiting + 1
    BY <1>1, <1>4, <2>1, MsgIsMessage
  <2>3. Accounted' = Accounted
    BY <1>1, <1>2, <1>3, <2>1, <2>2 DEF mainVars
  <2>4. QED
    BY <1>6, <2>1, <2>3 DEF CountInv, mainVars, httpVars
<1>13. CASE HttpReport
  <2>1. /\ wake' = Append(wake, Msg("finished")) /\ http = "report"
        /\ UNCHANGED <<mainVars, failed, serviceVars>>
    BY <1>13 DEF HttpReport
  <2>2. waiting' = waiting
    BY <1>1, <1>4, <2>1, MsgIsMessage
  <2>3. Accounted' = Accounted
    BY <1>3, <2>1, <2>2 DEF mainVars, serviceVars
  <2>4. QED
    BY <1>6, <2>1, <2>3 DEF CountInv, mainVars, serviceVars
<1>14. CASE HttpHead \/ HttpRefuse \/ HttpCollect \/ HttpFail \/ HttpEnd \/ HttpJoin
  <2>1. UNCHANGED <<wake, mainVars, serviceVars>>
    BY <1>14 DEF HttpHead, HttpRefuse, HttpCollect, HttpFail, HttpEnd, HttpJoin
  <2>2. Accounted' = Accounted
    BY <1>3, <2>1 DEF mainVars, serviceVars, waiting
  <2>3. http' \in {"refused", "joining", "report", "done"} /\ ~failed' => service = "ended" /\ response = 0
    BY <1>6, <1>14 DEF HttpHead, HttpRefuse, HttpCollect, HttpFail, HttpEnd, HttpJoin
  <2>4. QED
    BY <1>6, <2>1, <2>2, <2>3 DEF CountInv, mainVars, serviceVars
<1>15. CASE Answer
  <2>1. /\ service = "open" /\ http = "reading" /\ sent' = sent + 1 /\ response' = response + 1
        /\ UNCHANGED <<wake, mainVars, httpVars, service>>
    BY <1>15 DEF Answer
  <2>2. Accounted' = Accounted + 1 /\ Accounted \in Nat
    BY <1>1, <1>2, <1>3, <2>1 DEF mainVars, waiting
  <2>3. QED
    BY <1>1, <1>6, <2>1, <2>2 DEF CountInv, mainVars, httpVars
<1>16. CASE EndResponse
  <2>1. /\ service' = "ended" /\ UNCHANGED <<wake, mainVars, httpVars, sent, response>>
    BY <1>16 DEF EndResponse
  <2>2. Accounted' = Accounted
    BY <1>3, <2>1 DEF mainVars, waiting
  <2>3. QED
    BY <1>6, <2>1, <2>2 DEF CountInv, mainVars, httpVars
<1>17. CASE /\ UNCHANGED <<wake, printed, partial, outcome, response, sent, service, http, failed>>
            /\ (main' = "pump" <=> main = "pump")
  <2>1. Accounted' = Accounted
    BY <1>3, <1>17 DEF waiting
  <2>2. QED
    BY <1>6, <1>17, <2>1 DEF CountInv
<1>18. CASE UNCHANGED vars
  BY <1>17, <1>18 DEF vars, mainVars, httpVars, serviceVars
<1>19. CASE JoinReader \/ JoinCaller
  BY <1>17, <1>19 DEF JoinReader, JoinCaller, httpVars, serviceVars
<1>20. CASE Producer
  BY <1>17, <1>20 DEF Producer, Receive, Disconnected, Push, PushFails, mainVars, httpVars, serviceVars
<1>21. CASE Connection
  BY <1>17, <1>21 DEF Connection, TakeChunk, CloseBody, DropBody, mainVars, httpVars, serviceVars
<1>22. QED
  BY <1>7, <1>8, <1>9, <1>10, <1>11, <1>12, <1>13, <1>14, <1>15, <1>16, <1>18, <1>19, <1>20, <1>21
     DEF Next, Reader, Main, Http

-----------------------------------------------------------------------------
(* Types.  The bounds of what was signed and printed are those of the two  *)
(* parts above.                                                            *)

LEMMA TypeStep == TypeOK /\ [Next]_vars /\ WakeInv' /\ CountInv' /\ signed' \in Nat => TypeOK'
<1> SUFFICES ASSUME TypeOK, [Next]_vars, WakeInv', CountInv', signed' \in Nat
             PROVE  TypeOK'
  OBVIOUS
<1>1. ASSUME lines' \in 0 .. MaxLines PROVE signed' \in 0 .. (MaxLines + 1)
  <2>1. signed' <= lines' + 1
    BY DEF WakeInv
  <2>2. lines' \in Nat /\ lines' <= MaxLines /\ MaxLines \in Nat
    BY <1>1, DuplexAssumption
  <2>3. \A a, b, c \in Nat : a <= b + 1 /\ b <= c => a \in 0 .. (c + 1)
    OBVIOUS
  <2>4. QED
    BY <2>1, <2>2, <2>3
<1>2. ASSUME wake' \in Seq(Wakes), printed' \in Nat, partial' \in BOOLEAN, response' \in Nat,
             sent' \in 0 .. (2 * MaxEvents)
      PROVE  printed' \in 0 .. MaxEvents /\ response' \in 0 .. sent'
  <2>1. Held(partial') \in Nat
    BY DEF Held
  <2>2. Cardinality(Responses(wake'))  \in Nat
    BY <1>2, ResponsesFinite
  <2>3. 2 * printed' + Held(partial') + Cardinality(Responses(wake')) + response' <= sent'
    BY DEF CountInv, Accounted
  <2>4. MaxEvents \in Nat /\ sent' \in Nat /\ sent' <= 2 * MaxEvents
    BY <1>2, DuplexAssumption
  <2>5. \A a, b, c, d, e, f \in Nat : 2 * a + b + c + d <= e /\ e <= 2 * f => a <= f /\ d <= e
    OBVIOUS
  <2>6. printed' <= MaxEvents /\ response' <= sent'
    BY <1>2, <2>1, <2>2, <2>3, <2>4, <2>5
  <2>7. QED
    BY <1>2, <2>4, <2>6
<1>3. lines \in Nat /\ printed \in Nat /\ response \in Nat /\ sent \in Nat /\ MaxLines \in Nat /\ MaxEvents \in Nat
  BY DuplexAssumption DEF TypeOK
<1>4. CASE ReadLine
  <2>1. PICK text \in Texts : wake' = Append(wake, Line(lines + 1, text))
    BY <1>4 DEF ReadLine
  <2>2. lines' = lines + 1 /\ lines' \in 0 .. MaxLines /\ lines + 1 \in 1 .. MaxLines
    BY <1>3, <1>4 DEF ReadLine
  <2>3. wake' \in Seq(Wakes)
    BY <2>1, <2>2, LineIsMessage, Pushed DEF TypeOK
  <2>4. QED
    BY <1>4, <2>2, <2>3 DEF ReadLine, TypeOK, mainVars, producerVars, httpVars, serviceVars
<1>5. CASE ReadEnd
  <2>1. wake' \in Seq(Wakes)
    BY <1>5, MsgIsMessage, Pushed DEF TypeOK, ReadEnd
  <2>2. QED
    BY <1>5, <2>1 DEF ReadEnd, TypeOK, mainVars, producerVars, httpVars, serviceVars
<1>6. ASSUME wake # <<>>, wake' = Tail(wake) PROVE wake' \in Seq(Wakes)
  BY <1>6, Popped DEF TypeOK
<1>7. CASE SkipBlank \/ RejectLine \/ FailInput \/ TakeFinished
  <2>1. /\ wake' \in Seq(Wakes)
        /\ UNCHANGED <<readerVars, signed, partial, printed, frames, producerVars, body, bodyOpen,
                       httpVars, serviceVars>>
    BY <1>6, <1>7 DEF SkipBlank, RejectLine, FailInput, TakeFinished, NextIs, mainVars
  <2>2. /\ main' \in {"pump", "joinReader", "joinCaller", "returned"}
        /\ outcome' \in {"none", "ok", "error"} /\ ((main' = "pump") <=> (outcome' = "none"))
        /\ framesOpen' \in BOOLEAN
    BY <1>7 DEF SkipBlank, RejectLine, FailInput, TakeFinished, Leave, mainVars, TypeOK
  <2>3. QED
    BY <2>1, <2>2 DEF TypeOK, readerVars, producerVars, httpVars, serviceVars
<1>8. CASE SendLine \/ EndInput
  <2>1. PICK n \in 0 .. MaxLines : Send(Frame(n, signed))
    <3>1. CASE EndInput
      BY <1>3, <3>1 DEF EndInput
    <3>2. CASE SendLine
      <4>1. Head(wake) \in Wakes /\ Head(wake).kind = "line"
        BY <3>2, Popped DEF SendLine, NextIs, TypeOK
      <4>2. Head(wake).no \in 0 .. MaxLines
        BY <1>3, <4>1, Message
      <4>3. QED
        BY <3>2, <4>2 DEF SendLine
    <3>3. QED
      BY <1>8, <3>1, <3>2
  <2>2. Frame(n, signed) \in Frames
    BY DEF Frame, Frames, TypeOK
  <2>3. frames' \in Seq(Frames)
    BY <2>1, <2>2, AppendProperties DEF Send, TypeOK
  <2>4. /\ wake' \in Seq(Wakes)
        /\ UNCHANGED <<readerVars, main, outcome, partial, printed, producerVars, body, bodyOpen,
                       httpVars, serviceVars>>
        /\ framesOpen' \in BOOLEAN
    BY <1>6, <1>8 DEF SendLine, EndInput, NextIs, Stay, TypeOK
  <2>5. signed' \in 0 .. (MaxLines + 1)
    BY <1>1, <2>4 DEF TypeOK, readerVars
  <2>6. QED
    BY <2>3, <2>4, <2>5 DEF TypeOK, readerVars, producerVars, httpVars, serviceVars
<1>9. CASE TakeResponse
  <2>1. /\ wake' \in Seq(Wakes)
        /\ UNCHANGED <<readerVars, signed, frames, producerVars, body, bodyOpen, httpVars, serviceVars>>
    BY <1>6, <1>9 DEF TakeResponse, NextIs
  <2>2. /\ main' \in {"pump", "joinReader", "joinCaller", "returned"}
        /\ outcome' \in {"none", "ok", "error"} /\ ((main' = "pump") <=> (outcome' = "none"))
        /\ framesOpen' \in BOOLEAN /\ partial' \in BOOLEAN /\ printed' \in Nat
    <3>1. CASE /\ partial' = ~partial /\ printed' = IF partial THEN printed + 1 ELSE printed
               /\ Stay /\ UNCHANGED framesOpen
      <4>1. main' = main /\ outcome' = outcome /\ framesOpen' = framesOpen
        BY <3>1 DEF Stay
      <4>2. partial' \in BOOLEAN /\ printed' \in Nat
        BY <1>3, <3>1
      <4>3. QED
        BY <4>1, <4>2 DEF TypeOK
    <3>2. CASE Leave("error") /\ UNCHANGED <<partial, printed>>
      BY <1>3, <3>2 DEF Leave, TypeOK
    <3>3. QED
      BY <1>9, <3>1, <3>2 DEF TakeResponse
  <2>3. printed' \in 0 .. MaxEvents
    BY <1>2, <1>3, <2>1, <2>2 DEF TypeOK, serviceVars
  <2>4. QED
    BY <2>1, <2>2, <2>3 DEF TypeOK, readerVars, producerVars, httpVars, serviceVars
<1>10. CASE JoinReader \/ JoinCaller
  BY <1>10 DEF JoinReader, JoinCaller, TypeOK, readerVars, producerVars, httpVars, serviceVars
<1>11. CASE Receive
  <2>1. hand' \in Frames /\ frames' \in Seq(Frames)
    BY <1>11, HeadTailProperties DEF Receive, TypeOK
  <2>2. QED
    BY <1>11, <2>1 DEF Receive, TypeOK, readerVars, mainVars, httpVars, serviceVars
<1>12. CASE Push
  <2>1. body' \in Seq(Frames) /\ Len(body') <= BodyQueue
    <3>1. body' \in Seq(Frames) /\ Len(body') = Len(body) + 1 /\ Len(body) \in Nat
      BY <1>12, AppendProperties, LenProperties DEF Push, TypeOK
    <3>2. QED
      BY <1>12, <3>1, DuplexAssumption DEF Push
  <2>2. QED
    BY <1>12, <2>1 DEF Push, TypeOK, readerVars, mainVars, httpVars, serviceVars
<1>13. CASE Disconnected \/ PushFails
  BY <1>13 DEF Disconnected, PushFails, TypeOK, readerVars, mainVars, httpVars, serviceVars
<1>14. CASE HttpHead \/ HttpRefuse \/ HttpCollect \/ HttpFail \/ HttpEnd \/ HttpJoin
  <2>1. UNCHANGED <<readerVars, wake, mainVars, frames, producerVars, body, bodyOpen, serviceVars>>
    BY <1>14 DEF HttpHead, HttpRefuse, HttpCollect, HttpFail, HttpEnd, HttpJoin
  <2>2. http' \in {"refused", "reading", "joining", "report"}
    BY <1>14 DEF HttpHead, HttpRefuse, HttpCollect, HttpFail, HttpEnd, HttpJoin
  <2>3. failed' = failed \/ failed' = TRUE
    BY <1>14 DEF HttpHead, HttpRefuse, HttpCollect, HttpFail, HttpEnd, HttpJoin
  <2>4. failed' \in BOOLEAN
    BY <2>3 DEF TypeOK
  <2>5. QED
    BY <2>1, <2>2, <2>4 DEF TypeOK, readerVars, mainVars, producerVars, serviceVars
<1>15. CASE HttpRead
  <2>1. wake' \in Seq(Wakes)
    BY <1>15, MsgIsMessage, Pushed DEF HttpRead, TypeOK
  <2>2. response' \in 0 .. sent'
    BY <1>3, <1>15 DEF HttpRead, TypeOK
  <2>3. QED
    BY <1>15, <2>1, <2>2 DEF HttpRead, TypeOK, readerVars, mainVars, producerVars, httpVars
<1>16. CASE HttpReport
  <2>1. wake' \in Seq(Wakes)
    BY <1>16, MsgIsMessage, Pushed DEF HttpReport, TypeOK
  <2>2. QED
    BY <1>16, <2>1 DEF HttpReport, TypeOK, readerVars, mainVars, producerVars, serviceVars
<1>17. CASE TakeChunk
  <2>1. body' \in Seq(Frames) /\ Head(body) \in Frames /\ Len(body') <= BodyQueue
    <3>1. body' \in Seq(Frames) /\ Head(body) \in Frames /\ Len(body') = Len(body) - 1 /\ Len(body) \in Nat
      BY <1>17, HeadTailProperties, LenProperties DEF TakeChunk, TypeOK
    <3>2. QED
      BY <3>1, DuplexAssumption DEF TypeOK
  <2>2. received' \in Seq(Frames)
    BY <1>17, <2>1, AppendProperties DEF TakeChunk, TypeOK
  <2>3. QED
    BY <1>17, <2>1, <2>2 DEF TakeChunk, TypeOK, readerVars, mainVars, producerVars, httpVars
<1>18. CASE CloseBody
  <2>1. /\ bodyOpen' = FALSE /\ sawClose' = ~CallOver
        /\ UNCHANGED <<readerVars, wake, mainVars, frames, producerVars, body, httpVars>>
        /\ UNCHANGED <<service, sent, response, received>>
    BY <1>18 DEF CloseBody
  <2>2. bodyOpen' \in BOOLEAN /\ sawClose' \in BOOLEAN
    BY <2>1
  <2>3. QED
    BY <2>1, <2>2 DEF TypeOK, readerVars, mainVars, producerVars, httpVars
<1>19. CASE DropBody
  <2>1. body' \in Seq(Frames) /\ Len(body') <= BodyQueue
    BY <1>19, EmptySeq, DuplexAssumption DEF DropBody
  <2>2. /\ bodyOpen' = FALSE
        /\ UNCHANGED <<readerVars, wake, mainVars, frames, producerVars, httpVars, serviceVars>>
    BY <1>19 DEF DropBody
  <2>3. bodyOpen' \in BOOLEAN
    BY <2>2
  <2>4. QED
    BY <2>1, <2>2, <2>3 DEF TypeOK, readerVars, mainVars, producerVars, httpVars, serviceVars
<1>20. CASE Answer
  <2>1. sent' \in 0 .. (2 * MaxEvents) /\ response' \in 0 .. sent'
    BY <1>3, <1>20 DEF Answer, TypeOK
  <2>2. QED
    BY <1>20, <2>1 DEF Answer, TypeOK, readerVars, mainVars, producerVars, httpVars
<1>21. CASE EndResponse
  BY <1>21 DEF EndResponse, TypeOK, readerVars, mainVars, producerVars, httpVars
<1>22. CASE UNCHANGED vars
  BY <1>22 DEF TypeOK, vars, readerVars, mainVars, producerVars, httpVars, serviceVars
<1>23. QED
  BY <1>4, <1>5, <1>7, <1>8, <1>9, <1>10, <1>11, <1>12, <1>13, <1>14, <1>15, <1>16, <1>17, <1>18,
     <1>19, <1>20, <1>21, <1>22
     DEF Next, Reader, Main, Producer, Http, Connection

-----------------------------------------------------------------------------
(* Sequences of frames. *)

LEMMA FrameIsFrame ==
  ASSUME NEW n \in 0 .. MaxLines, NEW p \in Nat
  PROVE  Frame(n, p) \in Frames /\ Frame(n, p).line = n /\ Frame(n, p).prior = p
BY DEF Frame, Frames

LEMMA Singleton ==
  ASSUME NEW f \in Frames
  PROVE  <<f>> \in Seq(Frames) /\ Len(<<f>>) = 1 /\ <<f>>[1] = f
OBVIOUS

LEMMA FirstAndRest ==
  ASSUME NEW s \in Seq(Frames), s # <<>>
  PROVE  s = <<Head(s)>> \o Tail(s) /\ Head(s) \in Frames /\ Tail(s) \in Seq(Frames)
<1>1. /\ Head(s) \in Frames /\ Tail(s) \in Seq(Frames) /\ Len(Tail(s)) = Len(s) - 1
      /\ \A k \in 1 .. Len(Tail(s)) : Tail(s)[k] = s[k + 1]
      /\ Head(s) = s[1] /\ Len(s) \in Nat \ {0}
  BY HeadTailProperties, EmptySeq
<1>2. /\ <<Head(s)>> \in Seq(Frames) /\ Len(<<Head(s)>>) = 1 /\ <<Head(s)>>[1] = Head(s)
  BY <1>1, Singleton
<1>3. PICK t : t = <<Head(s)>> \o Tail(s)
  OBVIOUS
<1>4. /\ t \in Seq(Frames) /\ Len(t) = 1 + Len(Tail(s))
      /\ \A k \in 1 .. 1 + Len(Tail(s)) : t[k] = IF k <= 1 THEN <<Head(s)>>[k] ELSE Tail(s)[k - 1]
  BY <1>1, <1>2, <1>3, ConcatProperties
<1>5. \A k \in 1 .. Len(s) : s[k] = t[k]
  <2> TAKE k \in 1 .. Len(s)
  <2>1. CASE k = 1
    BY <1>1, <1>2, <1>4, <2>1
  <2>2. CASE k # 1
    <3>1. k - 1 \in 1 .. Len(Tail(s)) /\ (k - 1) + 1 = k /\ ~(k <= 1) /\ k \in 1 .. 1 + Len(Tail(s))
      BY <1>1, <2>2
    <3>2. t[k] = Tail(s)[k - 1] /\ Tail(s)[k - 1] = s[(k - 1) + 1]
      BY <1>1, <1>4, <3>1
    <3>3. QED
      BY <3>1, <3>2
  <2>3. QED
    BY <2>1, <2>2
<1>6. s = t
  BY <1>1, <1>4, <1>5, SeqEqual
<1>7. QED
  BY <1>1, <1>3, <1>6

(* Moving the first element of one sequence to the end of the one before. *)
LEMMA MoveFirst ==
  ASSUME NEW s \in Seq(Frames), NEW t \in Seq(Frames), NEW z \in Seq(Frames), t # <<>>
  PROVE  Append(s, Head(t)) \o (Tail(t) \o z) = s \o (t \o z)
<1>1. PICK f \in Frames : f = Head(t)
  BY FirstAndRest
<1>2. PICK r \in Seq(Frames) : r = Tail(t)
  BY FirstAndRest
<1>3. t = <<f>> \o r /\ <<f>> \in Seq(Frames)
  BY <1>1, <1>2, FirstAndRest, Singleton
<1>4. r \o z \in Seq(Frames)
  BY ConcatProperties
<1>5. Append(s, f) = s \o <<f>>
  BY AppendIsConcat
<1>6. (s \o <<f>>) \o (r \o z) = s \o (<<f>> \o (r \o z))
  BY <1>3, <1>4, ConcatAssociative
<1>7. <<f>> \o (r \o z) = (<<f>> \o r) \o z
  BY <1>3, ConcatAssociative
<1>8. QED
  BY <1>1, <1>2, <1>3, <1>5, <1>6, <1>7, Zenon

(* A frame at the end of the last of two sequences. *)
LEMMA AppendInside ==
  ASSUME NEW s \in Seq(Frames), NEW t \in Seq(Frames), NEW f \in Frames
  PROVE  s \o Append(t, f) = Append(s \o t, f)
<1>1. <<f>> \in Seq(Frames) /\ s \o t \in Seq(Frames)
  BY Singleton, ConcatProperties
<1>2. Append(t, f) = t \o <<f>> /\ Append(s \o t, f) = (s \o t) \o <<f>>
  BY <1>1, AppendIsConcat
<1>3. (s \o t) \o <<f>> = s \o (t \o <<f>>)
  BY <1>1, ConcatAssociative
<1>4. QED
  BY <1>2, <1>3, Zenon

LEMMA LinkedStart ==
  ASSUME NEW s \in Seq(Frames), NEW t \in Seq(Frames), Linked(s \o t)
  PROVE  Linked(s)
<1>1. PICK u : u = s \o t
  OBVIOUS
<1>2. /\ Len(u) = Len(s) + Len(t) /\ Len(s) \in Nat /\ Len(t) \in Nat
      /\ \A k \in 1 .. Len(s) + Len(t) : u[k] = IF k <= Len(s) THEN s[k] ELSE t[k - Len(s)]
  BY <1>1, ConcatProperties, LenProperties
<1>3. \A k \in 1 .. Len(s) : k \in 1 .. Len(u) /\ u[k] = s[k]
  BY <1>2
<1>4. \A k \in 1 .. Len(u) :
        /\ u[k].prior = k - 1
        /\ u[k].line = 0 => k = Len(u)
        /\ k < Len(u) /\ u[k + 1].line # 0 => u[k].line < u[k + 1].line
  BY <1>1 DEF Linked
<1>5. ASSUME NEW k \in 1 .. Len(s)
      PROVE  /\ s[k].prior = k - 1
             /\ s[k].line = 0 => k = Len(s)
             /\ k < Len(s) /\ s[k + 1].line # 0 => s[k].line < s[k + 1].line
  <2>1. s[k].prior = k - 1
    BY <1>3, <1>4
  <2>2. s[k].line = 0 => k = Len(s)
    <3>1. k \in 1 .. Len(u) /\ (u[k].line = 0 => k = Len(u)) /\ u[k] = s[k]
      BY <1>3, <1>4
    <3>2. k = Len(u) => k = Len(s)
      BY <1>2
    <3>3. QED
      BY <3>1, <3>2
  <2>3. k < Len(s) /\ s[k + 1].line # 0 => s[k].line < s[k + 1].line
    <3>1. k < Len(s) => k + 1 \in 1 .. Len(s) /\ k < Len(u)
      BY <1>2
    <3>2. k < Len(s) => u[k + 1] = s[k + 1] /\ u[k] = s[k] /\ k \in 1 .. Len(u)
      BY <1>3, <3>1
    <3>3. QED
      BY <1>4, <3>1, <3>2
  <2>4. QED
    BY <2>1, <2>2, <2>3
<1>6. QED
  BY <1>5 DEF Linked

(* A frame signed over the last one, for a later line or for the end. *)
LEMMA LinkedLonger ==
  ASSUME NEW s \in Seq(Frames), Linked(s), NEW f \in Frames, f.prior = Len(s),
         \A k \in 1 .. Len(s) : s[k].line # 0 /\ (f.line # 0 => s[k].line < f.line)
  PROVE  Linked(Append(s, f))
<1>1. PICK u : u = Append(s, f)
  OBVIOUS
<1>2. /\ Len(u) = Len(s) + 1 /\ Len(s) \in Nat /\ u[Len(s) + 1] = f
      /\ \A k \in 1 .. Len(s) : u[k] = s[k]
  BY <1>1, AppendProperties, LenProperties
<1>3. \A k \in 1 .. Len(s) :
        /\ s[k].prior = k - 1
        /\ k < Len(s) /\ s[k + 1].line # 0 => s[k].line < s[k + 1].line
  BY DEF Linked
<1>4. ASSUME NEW k \in 1 .. Len(u)
      PROVE  /\ u[k].prior = k - 1
             /\ u[k].line = 0 => k = Len(u)
             /\ k < Len(u) /\ u[k + 1].line # 0 => u[k].line < u[k + 1].line
  <2>1. CASE k = Len(s) + 1
    <3>1. u[k] = f /\ k = Len(u) /\ k - 1 = Len(s) /\ ~(k < Len(u))
      BY <1>2, <2>1
    <3>2. QED
      BY <3>1
  <2>2. CASE k # Len(s) + 1
    <3>1. k \in 1 .. Len(s) /\ u[k] = s[k]
      BY <1>2, <2>2
    <3>2. s[k].line # 0 /\ s[k].prior = k - 1
      BY <1>3, <3>1
    <3>3. u[k + 1].line # 0 => s[k].line < u[k + 1].line
      <4>1. CASE k = Len(s)
        <5>1. u[k + 1] = f
          BY <1>2, <4>1
        <5>2. QED
          BY <3>1, <5>1
      <4>2. CASE k # Len(s)
        <5>1. k < Len(s) /\ k + 1 \in 1 .. Len(s)
          BY <1>2, <3>1, <4>2
        <5>2. u[k + 1] = s[k + 1]
          BY <1>2, <5>1
        <5>3. QED
          BY <1>3, <3>1, <5>1, <5>2
      <4>3. QED
        BY <4>1, <4>2
    <3>4. QED
      BY <3>1, <3>2, <3>3
  <2>3. QED
    BY <2>1, <2>2
<1>5. QED
  BY <1>1, <1>4 DEF Linked

-----------------------------------------------------------------------------
(* The chain of frames. *)

LEMMA ChainType ==
  ASSUME TypeOK
  PROVE  /\ InHand \in Seq(Frames) /\ InHand \o frames \in Seq(Frames)
         /\ body \o (InHand \o frames) \in Seq(Frames) /\ Chain \in Seq(Frames)
         /\ Len(Chain) \in Nat
<1>1. InHand \in Seq(Frames) /\ frames \in Seq(Frames) /\ body \in Seq(Frames) /\ received \in Seq(Frames)
  BY Singleton, EmptySeq DEF InHand, TypeOK
<1>2. InHand \o frames \in Seq(Frames)
  BY <1>1, ConcatProperties
<1>3. body \o (InHand \o frames) \in Seq(Frames)
  BY <1>1, <1>2, ConcatProperties
<1>4. Chain \in Seq(Frames)
  BY <1>1, <1>3, ConcatProperties DEF Chain
<1>5. QED
  BY <1>1, <1>2, <1>3, <1>4, LenProperties

(* What does not come back. *)
LEMMA Stays ==
  ASSUME TypeOK, [Next]_vars
  PROVE  /\ CallOver => CallOver'
         /\ outcome = "error" => outcome' = "error"
         /\ ~bodyOpen => ~bodyOpen'
<1>1. CASE UNCHANGED vars
  BY <1>1 DEF CallOver, vars, mainVars, httpVars, serviceVars
<1>2. CASE Reader
  BY <1>2 DEF Reader, ReadLine, ReadEnd, CallOver, mainVars, httpVars, serviceVars
<1>3. CASE SkipBlank \/ RejectLine \/ SendLine \/ EndInput \/ FailInput \/ TakeResponse \/ TakeFinished
  <2>1. main = "pump" /\ UNCHANGED <<bodyOpen, httpVars, serviceVars>>
    BY <1>3 DEF SkipBlank, RejectLine, SendLine, EndInput, FailInput, TakeResponse, TakeFinished, NextIs
  <2>2. outcome # "error"
    BY <2>1 DEF TypeOK
  <2>3. QED
    BY <2>1, <2>2 DEF CallOver, httpVars, serviceVars
<1>4. CASE JoinReader \/ JoinCaller
  BY <1>4 DEF JoinReader, JoinCaller, CallOver, httpVars, serviceVars
<1>5. CASE Producer
  BY <1>5 DEF Producer, Receive, Disconnected, Push, PushFails, CallOver, mainVars, httpVars, serviceVars
<1>6. CASE Http
  BY <1>6 DEF Http, HttpHead, HttpRefuse, HttpCollect, HttpFail, HttpRead, HttpEnd, HttpJoin, HttpReport, CallOver, mainVars,
              httpVars, serviceVars
<1>7. CASE Connection
  BY <1>7 DEF Connection, TakeChunk, CloseBody, DropBody, CallOver, mainVars, httpVars, serviceVars
<1>8. CASE Answer \/ EndResponse
  BY <1>8 DEF Answer, EndResponse, CallOver, mainVars, httpVars
<1>9. QED
  BY <1>1, <1>2, <1>3, <1>4, <1>5, <1>6, <1>7, <1>8 DEF Next, Main

(* A line in the channel was there before, or has just been read. *)
LEMMA LinesStep ==
  ASSUME TypeOK, [Next]_vars
  PROVE  /\ lines \in Nat /\ lines' \in Nat /\ lines <= lines'
         /\ \A l \in Lines' : \/ \E m \in Lines : wake'[l] = wake[m]
                              \/ wake'[l].no \in Nat /\ lines < wake'[l].no
<1>1. lines \in Nat /\ wake \in Seq(Wakes) /\ Len(wake) \in Nat
  BY LenProperties DEF TypeOK
<1>2. CASE ReadLine
  <2>1. PICK text \in Texts : wake' = Append(wake, Line(lines + 1, text))
    BY <1>2 DEF ReadLine
  <2>2. lines' = lines + 1 /\ lines + 1 \in 1 .. MaxLines
    BY <1>1, <1>2, DuplexAssumption DEF ReadLine
  <2>3. PICK m \in Wakes : m = Line(lines + 1, text) /\ m.no = lines + 1
    BY <2>2, LineIsMessage
  <2>4. Len(wake') = Len(wake) + 1 /\ wake'[Len(wake) + 1] = m /\ \A k \in 1 .. Len(wake) : wake'[k] = wake[k]
    BY <1>1, <2>1, <2>3, Pushed
  <2>5. \A l \in Lines' : l \in Lines \/ l = Len(wake) + 1
    BY <1>1, <2>4 DEF Lines
  <2>6. \A l \in Lines : wake'[l] = wake[l]
    BY <2>4 DEF Lines
  <2>7. QED
    BY <1>1, <2>2, <2>3, <2>4, <2>5, <2>6
<1>3. ASSUME lines' = lines, NEW m \in Wakes, wake' = Append(wake, m), m.kind # "line"
      PROVE  \A l \in Lines' : \E k \in Lines : wake'[l] = wake[k]
  <2>1. Len(wake') = Len(wake) + 1 /\ wake'[Len(wake) + 1] = m /\ \A k \in 1 .. Len(wake) : wake'[k] = wake[k]
    BY <1>1, <1>3, Pushed
  <2>2. \A l \in Lines' : l \in Lines
    BY <1>1, <1>3, <2>1 DEF Lines
  <2>3. QED
    BY <2>1, <2>2 DEF Lines
<1>4. CASE ReadEnd \/ HttpRead \/ HttpReport
  <2>1. lines' = lines
    BY <1>4 DEF ReadEnd, HttpRead, HttpReport, readerVars
  <2>2. PICK kind \in {"inputDone", "inputFailed", "response", "finished"} : wake' = Append(wake, Msg(kind))
    BY <1>4 DEF ReadEnd, HttpRead, HttpReport
  <2>3. PICK m \in Wakes : m = Msg(kind) /\ m.kind # "line"
    BY MsgIsMessage
  <2>4. wake' = Append(wake, m)
    BY <2>2, <2>3
  <2>5. \A l \in Lines' : \E k \in Lines : wake'[l] = wake[k]
    BY <1>3, <2>1, <2>3, <2>4
  <2>6. QED
    BY <1>1, <2>1, <2>5
<1>5. CASE SkipBlank \/ RejectLine \/ SendLine \/ EndInput \/ FailInput \/ TakeResponse \/ TakeFinished
  <2>1. lines' = lines /\ wake # <<>> /\ wake' = Tail(wake)
    BY <1>5 DEF SkipBlank, RejectLine, SendLine, EndInput, FailInput, TakeResponse, TakeFinished, NextIs,
                readerVars
  <2>2. Len(wake') = Len(wake) - 1 /\ \A k \in 1 .. Len(wake') : wake'[k] = wake[k + 1]
    BY <1>1, <2>1, Popped
  <2>3. \A l \in Lines' : l + 1 \in Lines /\ wake'[l] = wake[l + 1]
    BY <1>1, <2>2 DEF Lines
  <2>4. \A l \in Lines' : \E k \in Lines : wake'[l] = wake[k]
    BY <2>3
  <2>5. lines' = lines
    BY <2>1
  <2>6. QED
    BY <1>1, <2>4, <2>5
<1>6. CASE UNCHANGED <<lines, wake>>
  BY <1>1, <1>6 DEF Lines
<1>7. CASE UNCHANGED vars \/ JoinReader \/ JoinCaller
  BY <1>6, <1>7 DEF vars, JoinReader, JoinCaller, readerVars
<1>8. CASE Producer \/ HttpHead \/ HttpRefuse \/ HttpCollect \/ HttpFail \/ HttpEnd \/ HttpJoin
  BY <1>6, <1>8 DEF Producer, Receive, Disconnected, Push, PushFails, HttpHead, HttpRefuse, HttpCollect, HttpFail, HttpEnd, HttpJoin,
                    readerVars
<1>9. CASE Connection \/ Answer \/ EndResponse
  BY <1>6, <1>9 DEF Connection, TakeChunk, CloseBody, DropBody, Answer, EndResponse, readerVars
<1>10. QED
  BY <1>2, <1>4, <1>5, <1>7, <1>8, <1>9 DEF Next, Reader, Main, Http

(* No step but those of the event loop puts a frame into the chain, and    *)
(* none takes one out of it before the call is over.                       *)
LEMMA ChainStep ==
  ASSUME TypeOK, Coming, ~CallOver, ~CallOver', [Next]_vars, ~SendLine, ~EndInput
  PROVE  Chain' = Chain
<1>1. /\ InHand \in Seq(Frames) /\ frames \in Seq(Frames) /\ body \in Seq(Frames)
      /\ received \in Seq(Frames) /\ hand \in Frames /\ InHand \o frames \in Seq(Frames)
  BY ChainType DEF TypeOK
<1>2. CASE TakeChunk
  <2>1. body # <<>> /\ body' = Tail(body) /\ received' = Append(received, Head(body))
    BY <1>2 DEF TakeChunk
  <2>2. InHand' = InHand /\ frames' = frames
    BY <1>2 DEF TakeChunk, InHand, producerVars
  <2>3. Append(received, Head(body)) \o (Tail(body) \o (InHand \o frames)) = Chain
    BY <1>1, <2>1, MoveFirst DEF Chain
  <2>4. QED
    BY <2>1, <2>2, <2>3, Zenon DEF Chain
<1>3. CASE Push
  <2>1. body' = Append(body, hand) /\ producer = "sending" /\ producer' = "recv"
        /\ UNCHANGED <<received, frames>>
    BY <1>3 DEF Push, serviceVars
  <2>2. InHand = <<hand>> /\ InHand' = <<>>
    BY <2>1 DEF InHand
  <2>3. Append(body, hand) = body \o <<hand>> /\ <<>> \o frames = frames /\ <<hand>> \in Seq(Frames)
    BY <1>1, AppendIsConcat, ConcatEmptySeq, Singleton
  <2>4. (body \o <<hand>>) \o frames = body \o (<<hand>> \o frames)
    BY <1>1, <2>3, ConcatAssociative
  <2>5. body' \o (InHand' \o frames') = body \o (InHand \o frames)
    BY <2>1, <2>2, <2>3, <2>4
  <2>6. QED
    BY <2>1, <2>5 DEF Chain
<1>4. CASE Receive
  <2>1. frames # <<>> /\ hand' = Head(frames) /\ frames' = Tail(frames) /\ producer = "recv"
        /\ producer' = "sending" /\ UNCHANGED <<received, body>>
    BY <1>4 DEF Receive, serviceVars
  <2>2. InHand = <<>> /\ InHand' = <<Head(frames)>>
    BY <2>1 DEF InHand
  <2>3. frames = <<Head(frames)>> \o Tail(frames) /\ <<>> \o frames = frames
    BY <1>1, <2>1, FirstAndRest, ConcatEmptySeq
  <2>4. InHand' \o frames' = InHand \o frames
    BY <2>1, <2>2, <2>3
  <2>5. QED
    BY <2>1, <2>4 DEF Chain
<1>5. CASE UNCHANGED <<received, body, producer, hand, frames>>
  BY <1>5 DEF Chain, InHand
<1>6. CASE UNCHANGED <<received, body, frames>> /\ producer # "sending" /\ producer' # "sending"
  BY <1>6 DEF Chain, InHand
<1>7. CASE UNCHANGED vars \/ Reader
  BY <1>5, <1>7 DEF vars, Reader, ReadLine, ReadEnd, producerVars, serviceVars
<1>8. CASE SkipBlank \/ RejectLine \/ FailInput \/ TakeResponse \/ TakeFinished \/ JoinReader \/ JoinCaller
  BY <1>5, <1>8 DEF SkipBlank, RejectLine, FailInput, TakeResponse, TakeFinished, JoinReader, JoinCaller,
                    NextIs, producerVars, serviceVars
<1>9. CASE Disconnected
  BY <1>6, <1>9 DEF Disconnected, serviceVars
<1>10. CASE PushFails
  BY <1>10 DEF PushFails, Coming
<1>11. CASE HttpHead \/ HttpRefuse \/ HttpCollect \/ HttpFail \/ HttpEnd \/ HttpJoin \/ HttpReport \/ EndResponse
  BY <1>5, <1>11 DEF HttpHead, HttpRefuse, HttpCollect, HttpFail, HttpEnd, HttpJoin, HttpReport, EndResponse, producerVars, serviceVars
<1>12. CASE HttpRead \/ Answer
  BY <1>5, <1>12 DEF HttpRead, Answer, producerVars
<1>13. CASE CloseBody
  BY <1>5, <1>13 DEF CloseBody, producerVars
<1>14. CASE DropBody
  BY <1>14 DEF DropBody
<1>15. QED
  BY <1>2, <1>3, <1>4, <1>7, <1>8, <1>9, <1>10, <1>11, <1>12, <1>13, <1>14
     DEF Next, Main, Producer, Http, Connection

(* Signing a frame puts it at the end of the chain. *)
LEMMA ChainGrows ==
  ASSUME TypeOK, NEW f \in Frames, frames' = Append(frames, f), UNCHANGED <<received, body, producer, hand>>
  PROVE  Chain' = Append(Chain, f)
<1>1. /\ InHand \in Seq(Frames) /\ frames \in Seq(Frames) /\ body \in Seq(Frames)
      /\ received \in Seq(Frames) /\ InHand \o frames \in Seq(Frames)
      /\ body \o (InHand \o frames) \in Seq(Frames)
  BY ChainType DEF TypeOK
<1>2. InHand' = InHand
  BY DEF InHand
<1>3. InHand \o Append(frames, f) = Append(InHand \o frames, f)
  BY <1>1, AppendInside
<1>4. body \o Append(InHand \o frames, f) = Append(body \o (InHand \o frames), f)
  BY <1>1, AppendInside
<1>5. received \o Append(body \o (InHand \o frames), f) = Append(Chain, f)
  BY <1>1, AppendInside DEF Chain
<1>6. QED
  BY <1>2, <1>3, <1>4, <1>5, Zenon DEF Chain

(* The producer ends, and the body closes, only after the chain is whole. *)
LEMMA EndsInOrder ==
  ASSUME TypeOK, Coming, ~CallOver, [Next]_vars
  PROVE  /\ producer' = "done" => frames' = <<>> /\ ~framesOpen'
         /\ ~bodyOpen' => producer' = "done"
         /\ framesOpen' => framesOpen
<1>1. /\ producer = "done" => frames = <<>> /\ ~framesOpen
      /\ ~bodyOpen => producer = "done"
  BY DEF Coming
<1>2. CASE UNCHANGED <<producer, frames, framesOpen, bodyOpen>>
  BY <1>1, <1>2
<1>3. CASE UNCHANGED vars \/ Reader \/ JoinReader \/ JoinCaller
  BY <1>2, <1>3 DEF vars, Reader, ReadLine, ReadEnd, JoinReader, JoinCaller, mainVars, producerVars
<1>4. CASE SkipBlank \/ RejectLine \/ FailInput \/ TakeResponse \/ TakeFinished
  <2>1. UNCHANGED <<producer, frames, bodyOpen>> /\ (framesOpen' = framesOpen \/ framesOpen' = FALSE)
    BY <1>4 DEF SkipBlank, RejectLine, FailInput, TakeResponse, TakeFinished, NextIs, Leave, mainVars, producerVars
  <2>2. QED
    BY <1>1, <2>1
<1>5. CASE SendLine \/ EndInput
  <2>1. /\ UNCHANGED <<producer, bodyOpen>>
        /\ framesOpen' = FALSE \/ framesOpen' = (framesOpen /\ producer # "done")
        /\ producer = "done" => frames' = frames
    BY <1>5 DEF SendLine, EndInput, NextIs, Send, producerVars
  <2>2. QED
    BY <1>1, <2>1
<1>6. CASE Producer
  BY <1>1, <1>6 DEF Producer, Receive, Disconnected, Push, PushFails, mainVars
<1>7. CASE Http
  BY <1>2, <1>7 DEF Http, HttpHead, HttpRefuse, HttpCollect, HttpFail, HttpRead, HttpEnd, HttpJoin, HttpReport, mainVars, producerVars
<1>8. CASE Connection
  BY <1>1, <1>8 DEF Connection, TakeChunk, CloseBody, DropBody, mainVars, producerVars
<1>9. CASE Answer \/ EndResponse
  BY <1>2, <1>9 DEF Answer, EndResponse, mainVars, producerVars
<1>10. QED
  BY <1>3, <1>4, <1>5, <1>6, <1>7, <1>8, <1>9 DEF Next, Main

LEMMA ComingStep ==
  ASSUME TypeOK, WakeInv, Coming, ~CallOver, ~CallOver', [Next]_vars, signed' \in Nat
  PROVE  Coming'
<1>1. PICK c \in Seq(Frames) : c = Chain
  BY ChainType
<1>2. Len(c) \in Nat /\ \A k \in 1 .. Len(c) : c[k] \in Frames /\ c[k].line \in Nat
  <2>1. \A k \in 1 .. Len(c) : c[k] \in Frames
    BY ElementOfSeq
  <2>2. \A f \in Frames : f.line \in Nat
    BY DuplexAssumption DEF Frames
  <2>3. QED
    BY <2>1, <2>2, LenProperties
<1>3. /\ Linked(c)
      /\ framesOpen => signed = Len(c) /\ Behind(c)
      /\ ~framesOpen => Ends(c) \/ outcome = "error"
  BY <1>1 DEF Coming
<1>4. /\ producer' = "done" => frames' = <<>> /\ ~framesOpen'
      /\ ~bodyOpen' => producer' = "done"
      /\ framesOpen' => framesOpen
  BY EndsInOrder
<1>5. /\ lines \in Nat /\ lines' \in Nat /\ lines <= lines'
      /\ \A l \in Lines' : \/ \E m \in Lines : wake'[l] = wake[m]
                           \/ wake'[l].no \in Nat /\ lines < wake'[l].no
  BY LinesStep
<1>6. ASSUME Chain' = c, signed' = signed,
             framesOpen' = framesOpen \/ outcome' = "error"
      PROVE  Coming'
  <2>1. Linked(Chain)'
    BY <1>3, <1>6 DEF Linked
  <2>2. framesOpen' => signed' = Len(Chain')
    BY <1>3, <1>4, <1>6
  <2>3. framesOpen' => Behind(Chain)'
    <3> SUFFICES ASSUME framesOpen', NEW k \in 1 .. Len(c)
                 PROVE  /\ c[k].line # 0 /\ c[k].line <= lines'
                        /\ \A l \in Lines' : c[k].line < wake'[l].no
      BY <1>6 DEF Behind
    <3>1. /\ c[k].line # 0 /\ c[k].line <= lines /\ c[k].line \in Nat
          /\ \A m \in Lines : c[k].line < wake[m].no
      BY <1>2, <1>3, <1>4 DEF Behind
    <3>2. c[k].line <= lines'
      BY <1>5, <3>1
    <3>3. ASSUME NEW l \in Lines' PROVE c[k].line < wake'[l].no
      <4>1. CASE \E m \in Lines : wake'[l] = wake[m]
        BY <3>1, <4>1
      <4>2. CASE wake'[l].no \in Nat /\ lines < wake'[l].no
        BY <1>5, <3>1, <4>2
      <4>3. QED
        BY <1>5, <4>1, <4>2
    <3>4. QED
      BY <3>1, <3>2, <3>3
  <2>4. ~framesOpen' => Ends(Chain)' \/ outcome' = "error"
    <3>1. outcome = "error" => outcome' = "error"
      BY Stays
    <3>2. Ends(c) => Ends(Chain)'
      BY <1>6 DEF Ends
    <3>3. QED
      BY <1>3, <1>6, <3>1, <3>2
  <2>5. QED
    BY <1>4, <2>1, <2>2, <2>3, <2>4 DEF Coming
<1>7. CASE SendLine \/ EndInput
  <2>1. /\ wake # <<>> /\ wake' = Tail(wake) /\ lines' = lines /\ signed' = signed + 1
        /\ UNCHANGED <<received, body, producer, hand, outcome>> /\ Head(wake).kind \in {"line", "inputDone"}
    BY <1>7 DEF SendLine, EndInput, NextIs, Stay, readerVars, producerVars, serviceVars
  <2>2. /\ Head(wake) = wake[1] /\ Len(wake) \in Nat \ {0} /\ Head(wake) \in Wakes
        /\ Len(wake') = Len(wake) - 1 /\ \A k \in 1 .. Len(wake') : wake'[k] = wake[k + 1]
    BY <2>1, Popped DEF TypeOK
  <2>3. CASE ~framesOpen
    <3>1. frames' = frames /\ framesOpen' = FALSE
      BY <1>7, <2>3 DEF SendLine, EndInput, Send
    <3>2. Chain' = c
      BY <1>1, <2>1, <3>1 DEF Chain, InHand
    <3>3. Linked(Chain)' /\ (Ends(Chain)' \/ outcome' = "error")
      BY <1>3, <2>1, <2>3, <3>2 DEF Linked, Ends
    <3>4. QED
      BY <1>4, <3>1, <3>3 DEF Coming
  <2>4. CASE framesOpen
    <3>1. producer # "done" /\ signed = Len(c) /\ Behind(c)
      BY <1>3, <2>4 DEF Coming
    <3>2. CASE EndInput
      <4>1. PICK f \in Frames : f = Frame(0, signed) /\ f.line = 0 /\ f.prior = signed
        <5>1. 0 \in 0 .. MaxLines /\ signed \in Nat
          BY DuplexAssumption DEF TypeOK
        <5>2. QED
          BY <5>1, FrameIsFrame
      <4>2. frames' = Append(frames, f) /\ framesOpen' = FALSE
        BY <2>4, <3>1, <3>2, <4>1 DEF EndInput, Send
      <4>3. Chain' = Append(c, f)
        BY <1>1, <2>1, <4>2, ChainGrows
      <4>4. PICK d : d = Append(c, f)
        OBVIOUS
      <4>5. Linked(d)
        <5>1. \A k \in 1 .. Len(c) : c[k].line # 0 /\ (f.line # 0 => c[k].line < f.line)
          BY <3>1, <4>1 DEF Behind
        <5>2. QED
          BY <1>3, <3>1, <4>1, <4>4, <5>1, LinkedLonger
      <4>6. Ends(d)
        <5>1. d # <<>> /\ Len(d) = Len(c) + 1 /\ d[Len(c) + 1] = f
          BY <4>4, AppendProperties
        <5>2. QED
          BY <4>1, <5>1 DEF Ends
      <4>7. Linked(Chain)' /\ Ends(Chain)'
        BY <4>3, <4>4, <4>5, <4>6 DEF Linked, Ends
      <4>8. QED
        BY <1>4, <4>2, <4>7 DEF Coming
    <3>3. CASE SendLine
      <4>1. PICK n \in 1 .. MaxLines : n = wake[1].no
        BY <2>1, <2>2, <3>3, Message DEF SendLine, NextIs
      <4>2. PICK f \in Frames : f = Frame(n, signed) /\ f.line = n /\ f.prior = signed
        <5>1. n \in 0 .. MaxLines /\ signed \in Nat
          BY DuplexAssumption DEF TypeOK
        <5>2. QED
          BY <5>1, FrameIsFrame
      <4>3. frames' = Append(frames, f) /\ framesOpen' = TRUE
        BY <2>2, <2>4, <3>1, <3>3, <4>1, <4>2 DEF SendLine, Send
      <4>4. Chain' = Append(c, f)
        BY <1>1, <2>1, <4>3, ChainGrows
      <4>5. PICK d : d = Append(c, f)
        OBVIOUS
      <4>6. Len(d) = Len(c) + 1 /\ d[Len(c) + 1] = f /\ \A k \in 1 .. Len(c) : d[k] = c[k]
        BY <4>5, AppendProperties
      <4>7. 1 \in Lines /\ n \in Nat /\ n # 0 /\ n <= lines
        <5>1. 1 \in Lines
          BY <2>2, <3>3 DEF SendLine, NextIs, Lines
        <5>2. wake[1].no <= lines
          BY <5>1 DEF WakeInv
        <5>3. QED
          BY <4>1, <5>1, <5>2
      <4>8. \A k \in 1 .. Len(c) : c[k].line # 0 /\ c[k].line < n /\ c[k].line <= lines
        BY <3>1, <4>1, <4>7 DEF Behind
      <4>9. Linked(d)
        <5>1. \A k \in 1 .. Len(c) : c[k].line # 0 /\ (f.line # 0 => c[k].line < f.line)
          BY <4>2, <4>8
        <5>2. QED
          BY <1>3, <3>1, <4>2, <4>5, <5>1, LinkedLonger
      <4>10. \A l \in Lines' : n < wake'[l].no /\ wake'[l].no \in Nat
        <5> TAKE l \in Lines'
        <5>1. l \in Nat /\ l >= 1 /\ l + 1 \in Lines /\ wake'[l] = wake[l + 1]
          BY <2>2 DEF Lines
        <5>2. 1 < l + 1 => wake[1].no < wake[l + 1].no
          BY <4>7, <5>1 DEF WakeInv
        <5>3. wake[l + 1] \in Wakes /\ wake[l + 1].kind = "line"
          BY <2>2, <5>1, ElementOfSeq DEF Lines, TypeOK
        <5>4. wake[l + 1].no \in Nat
          BY <5>3, Message
        <5>5. QED
          BY <4>1, <5>1, <5>2, <5>4
      <4>11. ASSUME NEW k \in 1 .. Len(d)
             PROVE  /\ d[k].line # 0 /\ d[k].line <= lines'
                    /\ \A l \in Lines' : d[k].line < wake'[l].no
        <5>1. CASE k = Len(c) + 1
          <6>1. d[k].line = n
            BY <4>2, <4>6, <5>1
          <6>2. QED
            BY <2>1, <4>7, <4>10, <6>1
        <5>2. CASE k # Len(c) + 1
          <6>1. k \in 1 .. Len(c) /\ d[k] = c[k]
            BY <1>2, <4>6, <5>2
          <6>2. d[k].line # 0 /\ d[k].line < n /\ d[k].line <= lines /\ d[k].line \in Nat
            BY <1>2, <4>8, <6>1
          <6>3. \A l \in Lines' : d[k].line < wake'[l].no
            BY <4>7, <4>10, <6>2
          <6>4. QED
            BY <2>1, <6>2, <6>3
        <5>3. QED
          BY <5>1, <5>2
      <4>12. Linked(Chain)' /\ signed' = Len(Chain') /\ Behind(Chain)'
        <5>1. Chain' = d
          BY <4>4, <4>5
        <5>2. Linked(Chain)'
          BY <4>9, <5>1 DEF Linked
        <5>3. signed' = Len(Chain')
          BY <2>1, <3>1, <4>6, <5>1
        <5>4. Behind(Chain)'
          BY <4>11, <5>1 DEF Behind
        <5>5. QED
          BY <5>2, <5>3, <5>4
      <4>13. QED
        BY <1>4, <4>3, <4>12 DEF Coming
    <3>4. QED
      BY <1>7, <3>2, <3>3
  <2>5. QED
    BY <2>3, <2>4
<1>8. CASE ~SendLine /\ ~EndInput
  <2>1. Chain' = c
    BY <1>1, <1>8, ChainStep
  <2>2. signed' = signed /\ (framesOpen' = framesOpen \/ outcome' = "error")
    <3>1. CASE UNCHANGED <<signed, framesOpen>>
      BY <3>1
    <3>2. CASE UNCHANGED vars \/ Reader \/ SkipBlank \/ JoinReader \/ JoinCaller
      BY <3>1, <3>2 DEF vars, Reader, ReadLine, ReadEnd, SkipBlank, JoinReader, JoinCaller, mainVars
    <3>3. CASE RejectLine \/ FailInput \/ TakeResponse
      BY <3>3 DEF RejectLine, FailInput, TakeResponse, Leave
    <3>4. CASE TakeFinished
      <4>1. wake # <<>> /\ Head(wake).kind = "finished"
        BY <3>4 DEF TakeFinished, NextIs
      <4>2. Head(wake) = wake[1] /\ Len(wake) \in Nat \ {0}
        BY <4>1, Popped DEF TypeOK
      <4>3. 1 \in CallEnds
        BY <4>1, <4>2 DEF CallEnds
      <4>4. http = "done"
        BY <4>3 DEF WakeInv
      <4>5. QED
        BY <4>4 DEF CallOver
    <3>5. CASE Producer \/ Connection
      BY <3>1, <3>5 DEF Producer, Receive, Disconnected, Push, PushFails, Connection, TakeChunk, CloseBody,
                        DropBody, mainVars
    <3>6. CASE Http \/ Answer \/ EndResponse
      BY <3>1, <3>6 DEF Http, HttpHead, HttpRefuse, HttpCollect, HttpFail, HttpRead, HttpEnd, HttpJoin, HttpReport, Answer, EndResponse,
                        mainVars
    <3>7. QED
      BY <1>8, <3>2, <3>3, <3>4, <3>5, <3>6 DEF Next, Main
  <2>3. QED
    BY <1>6, <2>1, <2>2
<1>9. QED
  BY <1>7, <1>8

(* What the service sees. *)
LEMMA SeenStep ==
  ASSUME TypeOK, Seen, ~CallOver => Coming, [Next]_vars
  PROVE  Seen'
<1>1. /\ Linked(received)
      /\ sawClose => ~bodyOpen /\ (Ends(received) \/ outcome = "error")
      /\ ~bodyOpen => ~bodyOpen'
      /\ outcome = "error" => outcome' = "error"
  BY Stays DEF Seen
<1>2. CASE UNCHANGED <<received, sawClose>>
  BY <1>1, <1>2 DEF Seen, Linked, Ends
<1>3. CASE TakeChunk
  <2>1. CASE CallOver
    BY <1>2, <1>3, <2>1 DEF TakeChunk
  <2>2. CASE ~CallOver
    <3>1. ~CallOver'
      BY <1>3, <2>2 DEF TakeChunk, CallOver, httpVars
    <3>2. ~SendLine /\ ~EndInput
      <4>1. body' # body
        <5>1. body \in Seq(Frames) /\ body # <<>> /\ body' = Tail(body)
          BY <1>3 DEF TakeChunk, TypeOK
        <5>2. Len(body') = Len(body) - 1 /\ Len(body) \in Nat
          BY <5>1, HeadTailProperties, LenProperties
        <5>3. QED
          BY <5>2
      <4>2. QED
        BY <4>1 DEF SendLine, EndInput, NextIs
    <3>3. Chain' = Chain
      BY <2>2, <3>1, <3>2, ChainStep
    <3>4. Linked(Chain')
      BY <2>2, <3>3 DEF Coming
    <3>5. /\ received' = Append(received, Head(body)) /\ body' = Tail(body) /\ body # <<>> /\ sawClose' = sawClose
          /\ bodyOpen /\ UNCHANGED <<frames, producer, hand>>
      BY <1>3, <2>2 DEF TakeChunk, producerVars
    <3>6. /\ received \in Seq(Frames) /\ Head(body) \in Frames /\ Tail(body) \in Seq(Frames)
          /\ InHand \o frames \in Seq(Frames)
      BY <3>5, ChainType, HeadTailProperties DEF TypeOK
    <3>7. received' \in Seq(Frames) /\ body' \o (InHand \o frames) \in Seq(Frames)
      BY <3>5, <3>6, AppendProperties, ConcatProperties
    <3>8. Chain' = received' \o (body' \o (InHand \o frames))
      BY <3>5 DEF Chain, InHand
    <3>9. PICK r \in Seq(Frames) : r = received'
      BY <3>7
    <3>10. Linked(r)
      BY <3>4, <3>7, <3>8, <3>9, LinkedStart
    <3>11. QED
      BY <1>1, <3>5, <3>9, <3>10 DEF Seen, Linked
  <2>3. QED
    BY <2>1, <2>2
<1>4. CASE CloseBody
  <2>1. /\ bodyOpen' = FALSE /\ sawClose' = ~CallOver /\ body = <<>> /\ producer = "done"
        /\ UNCHANGED <<received, outcome>>
    BY <1>4 DEF CloseBody, mainVars
  <2>2. ASSUME ~CallOver PROVE Ends(received) \/ outcome = "error"
    <3>1. frames = <<>> /\ (Ends(Chain) \/ outcome = "error")
      BY <2>1, <2>2 DEF Coming
    <3>2. InHand = <<>>
      BY <2>1 DEF InHand
    <3>3. Chain = received
      <4>1. <<>> \o <<>> = <<>> /\ received \o <<>> = received
        BY EmptySeq, ConcatEmptySeq DEF TypeOK
      <4>2. QED
        BY <2>1, <3>1, <3>2, <4>1 DEF Chain
    <3>4. QED
      BY <3>1, <3>3
  <2>3. Linked(received)' /\ (Ends(received) => Ends(received)')
    BY <1>1, <2>1 DEF Linked, Ends
  <2>4. QED
    BY <2>1, <2>2, <2>3 DEF Seen
<1>5. CASE UNCHANGED vars \/ Reader
  BY <1>2, <1>5 DEF vars, Reader, ReadLine, ReadEnd, serviceVars
<1>6. CASE Main
  BY <1>2, <1>6 DEF Main, SkipBlank, RejectLine, SendLine, EndInput, FailInput, TakeResponse, TakeFinished,
                    JoinReader, JoinCaller, NextIs, serviceVars
<1>7. CASE Producer \/ DropBody
  BY <1>2, <1>7 DEF Producer, Receive, Disconnected, Push, PushFails, DropBody, serviceVars
<1>8. CASE Http \/ Answer \/ EndResponse
  BY <1>2, <1>8 DEF Http, HttpHead, HttpRefuse, HttpCollect, HttpFail, HttpRead, HttpEnd, HttpJoin, HttpReport, Answer, EndResponse,
                    serviceVars
<1>9. QED
  BY <1>3, <1>4, <1>5, <1>6, <1>7, <1>8 DEF Next, Connection

-----------------------------------------------------------------------------
LEMMA InitInv == Init => Inv
<1> SUFFICES ASSUME Init PROVE Inv
  OBVIOUS
<1>1. wake = <<>> /\ Len(wake) = 0
  BY DEF Init
<1>2. Lines = {} /\ InputEnds = {} /\ CallEnds = {} /\ Responses(wake) = {}
  BY <1>1 DEF Lines, InputEnds, CallEnds, Responses
<1>3. TypeOK
  <2>1. NoFrame \in Frames
    BY FrameIsFrame, DuplexAssumption DEF NoFrame
  <2>2. <<>> \in Seq(Frames) /\ <<>> \in Seq(Wakes) /\ Len(<<>>) = 0
    BY EmptySeq
  <2>3. /\ lines \in 0 .. MaxLines /\ signed \in 0 .. (MaxLines + 1) /\ printed \in 0 .. MaxEvents
        /\ sent \in 0 .. (2 * MaxEvents) /\ response \in 0 .. sent /\ 0 <= BodyQueue
    BY DuplexAssumption DEF Init
  <2>4. /\ wake \in Seq(Wakes) /\ frames \in Seq(Frames) /\ received \in Seq(Frames)
        /\ hand \in Frames /\ body \in Seq(Frames) /\ Len(body) <= BodyQueue
    BY <2>1, <2>2, <2>3 DEF Init
  <2>5. /\ partial \in BOOLEAN /\ framesOpen \in BOOLEAN /\ bodyOpen \in BOOLEAN
        /\ failed \in BOOLEAN /\ sawClose \in BOOLEAN
    BY DEF Init
  <2>6. QED
    BY <2>3, <2>4, <2>5 DEF Init, TypeOK
<1>4. WakeInv
  BY <1>2 DEF Init, WakeInv
<1>5. CountInv
  <2>1. Cardinality(Responses(wake)) = 0
    BY <1>2, FS_EmptySet
  <2>2. Accounted = 0
    BY <2>1 DEF Init, Accounted, Held
  <2>3. QED
    BY <2>2 DEF Init, CountInv
<1>6. Chain = <<>>
  <2>1. <<>> \o <<>> = <<>>
    BY EmptySeq, ConcatEmptySeq
  <2>2. received = <<>> /\ body = <<>> /\ InHand = <<>> /\ frames = <<>>
    BY DEF Init, InHand
  <2>3. QED
    BY <2>1, <2>2 DEF Chain
<1>7. Seen
  BY DEF Init, Seen, Linked
<1>8. Coming
  <2>1. Linked(Chain) /\ Behind(Chain) /\ Len(Chain) = 0
    BY <1>6 DEF Linked, Behind
  <2>2. QED
    BY <2>1 DEF Init, Coming
<1>9. QED
  BY <1>3, <1>4, <1>5, <1>7, <1>8 DEF Inv, ChainInv

LEMMA NextInv == Inv /\ [Next]_vars => Inv'
<1> SUFFICES ASSUME Inv, [Next]_vars PROVE Inv'
  OBVIOUS
<1>1. TypeOK /\ WakeInv /\ CountInv /\ Seen /\ (~CallOver => Coming)
  BY DEF Inv, ChainInv
<1>2. WakeInv' /\ signed' \in Nat
  BY <1>1, WakeStep
<1>3. CountInv'
  BY <1>1, CountStep
<1>4. TypeOK'
  BY <1>1, <1>2, <1>3, TypeStep
<1>5. Seen'
  BY <1>1, SeenStep
<1>6. ~CallOver' => Coming'
  <2>1. ~CallOver' => ~CallOver
    BY <1>1, Stays
  <2>2. QED
    BY <1>1, <1>2, <2>1, ComingStep
<1>7. QED
  BY <1>2, <1>3, <1>4, <1>5, <1>6 DEF Inv, ChainInv

LEMMA InvHolds == Spec => []Inv
  BY InitInv, NextInv, PTL DEF Spec

(* The type invariant, for every number of lines and events and every      *)
(* capacity: the body's channel never holds more than BodyQueue chunks,    *)
(* at most one frame more is signed than there are lines, and no more      *)
(* events are handed on than the service can send.                         *)
THEOREM TypeCorrect == Spec => []TypeOK
<1>1. Inv => TypeOK
  BY DEF Inv
<1>2. QED
  BY <1>1, InvHolds, PTL

(* The frames the service sees form one chain of signatures, in the order  *)
(* of the input, with nothing after the frame that ends it, however the    *)
(* four threads, the connection and the service interleave: pump_duplex    *)
(* signs, the producer hands on, the connection drains.                    *)
THEOREM ServiceSeesOneChain == Spec => []ChainIntact
<1>1. Inv => ChainIntact
  BY DEF Inv, ChainInv, Seen, Linked, ChainIntact
<1>2. QED
  BY <1>1, InvHolds, PTL

(* When pump_duplex succeeds, the service has ended the response and every *)
(* event it sent was handed to on_event.                                   *)
THEOREM NothingIsLost == Spec => []NothingLost
<1>1. Inv => NothingLost
  BY DEF Inv, CountInv, NothingLost
<1>2. QED
  BY <1>1, InvHolds, PTL

(* A service that sees the request body close has seen the frame that ends *)
(* the input, or the call is failing.                                      *)
THEOREM EndIsAlwaysAnnounced == Spec => []EndIsAnnounced
<1>1. Inv => EndIsAnnounced
  BY DEF Inv, ChainInv, Seen, Ends, EndIsAnnounced
<1>2. QED
  BY <1>1, InvHolds, PTL
===============================================================================
