--------------------------------- MODULE Wire ---------------------------------
(***************************************************************************)
(* The three binary formats of the client, byte for byte: the frames of an *)
(* event stream and the events they carry (eventstream.rs), the frames of  *)
(* a WebSocket and its handshake (websocket.rs), and CBOR (cbor.rs).       *)
(*                                                                         *)
(* What was encoded arrives in pieces of any size, it may end early, and   *)
(* one byte of an event stream may be wrong.  A text is a sequence of      *)
(* bytes, and a name one of a byte or two.  A checksum is a number that    *)
(* tells one wrong byte, as CRC-32 does.  What is read is a sequence of    *)
(* one, and of none where there is nothing that can be read.               *)
(***************************************************************************)
EXTENDS Naturals, Sequences, SequencesExt, Bitwise, TLC

CONSTANTS
  Dialogs,      (* [format, head, says, events]: "frames", "events", "socket", *)
                (* "cbor"; the head of an answer, what is said, and the        *)
                (* events that the model has                                   *)
  Pieces,       (* how many bytes arrive at once                               *)
  Wrongs        (* which byte may be wrong, or the first that is missing       *)

VARIABLES
  talk,         (* what is said, and how *)
  wire,         (* the bytes under way *)
  whole,        (* history: nothing of them was lost or wrong *)
  buffer,       (* those that arrived and were not read *)
  wireAt,       (* "begin", "head", "reading", "decoding", "ended" *)
  readOff,      (* what was read of them *)
  wireSaid      (* "none", "clean", "cut", "refused" *)

wireVars == <<talk, wire, whole, buffer, wireAt, readOff, wireSaid>>

WireInit ==
  /\ talk \in Dialogs /\ wire = <<>> /\ whole = TRUE /\ buffer = <<>> /\ wireAt = "begin"
  /\ readOff = <<>> /\ wireSaid = "none"

-----------------------------------------------------------------------------
(* Numbers, the high byte first; what no limit allows is one number.       *)
Big(n, width) == [k \in 1 .. width |-> IF width - k > 2 THEN 0 ELSE (n \div 256 ^ (width - k)) % 256]
NumberIn(bytes) ==
  FoldLeft(LAMBDA n, byte : IF n > 2 ^ 22 THEN 2 ^ 30 ELSE n * 256 + byte, 0, bytes)
Slice(bytes, at, n) == SubSeq(bytes, at, at + n - 1)
From(bytes, at) == SubSeq(bytes, at, Len(bytes))
Checksum(bytes) == Big(FoldLeft(LAMBDA c, byte : (c * 31 + byte + 1) % 65521, 0, bytes), 4)

-----------------------------------------------------------------------------
(* The frame of an event stream: lengths and their checksum, headers, the  *)
(* payload and the checksum of it all.                                     *)
Prelude == 12
Trailer == 4
MaxFrame == 16 * 1024 * 1024

(* The types of a header: the two truths, five fixed widths, a UUID, and   *)
(* bytes or a text after their length.                                     *)
WidthOf(kind) == <<0, 0, 1, 2, 4, 8, 0, 0, 8, 16>>[kind + 1]
EncodeHeader(h) ==
  <<Len(h.name)>> \o h.name \o <<h.kind>>
  \o (IF h.kind \in {6, 7} THEN Big(Len(h.value), 2) ELSE <<>>) \o h.value
EncodeHeaders(headers) == FlattenSeq([k \in DOMAIN headers |-> EncodeHeader(headers[k])])
Encode(frame) ==
  LET headers == EncodeHeaders(frame.headers)
      lengths == Big(Prelude + Len(headers) + Len(frame.payload) + Trailer, 4) \o Big(Len(headers), 4)
      all == lengths \o Checksum(lengths) \o headers \o frame.payload
  IN all \o Checksum(all)

(* frame_length: that of the frame which begins here, 0 where too little   *)
(* is there to tell.                                                       *)
FrameLength(bytes) ==
  IF Len(bytes) < Prelude THEN <<0>>
  ELSE LET total == NumberIn(Slice(bytes, 1, 4))
       IN IF total \in Prelude + Trailer .. MaxFrame /\ Checksum(Slice(bytes, 1, 8)) = Slice(bytes, 9, 4)
          THEN <<total>> ELSE <<>>

(* A header, if all of it is there, and where the next begins.             *)
HeaderAt(bytes, at) ==
  LET type == at + bytes[at] + 1
      kind == bytes[type]
      value == IF kind \in {6, 7} THEN type + 3 ELSE type + 1
      width == IF kind \in {6, 7} THEN NumberIn(Slice(bytes, type + 1, 2)) ELSE WidthOf(kind)
  IN IF type > Len(bytes) \/ bytes[type] > 9 \/ value > Len(bytes) + 1
     THEN <<>>
     ELSE IF value + width > Len(bytes) + 1 THEN <<>>
     ELSE <<[header |-> [name |-> Slice(bytes, at + 1, bytes[at]), kind |-> kind,
                         value |-> Slice(bytes, value, width)],
             next |-> value + width]>>
DecodeHeaders(bytes) ==
  LET from[at \in 1 .. Len(bytes) + 1] ==
        IF at > Len(bytes) THEN <<<<>>>>
        ELSE LET here == HeaderAt(bytes, at)
             IN IF here = <<>> THEN <<>>
                ELSE LET rest == from[here[1].next]
                     IN IF rest = <<>> THEN <<>> ELSE <<<<here[1].header>> \o rest[1]>>
  IN from[1]

Decode(bytes) ==
  LET last == Len(bytes) - Trailer
      headersEnd == Prelude + NumberIn(Slice(bytes, 5, 4))
      headers == DecodeHeaders(Slice(bytes, Prelude + 1, headersEnd - Prelude))
  IN IF Checksum(Slice(bytes, 1, last)) # From(bytes, last + 1) \/ headersEnd > last \/ headers = <<>>
     THEN <<>>
     ELSE <<[headers |-> headers[1], payload |-> Slice(bytes, headersEnd + 1, last - headersEnd)]>>

(* Decoder::next_frame: [is |-> "frame", "more", "bad"], what was read and *)
(* how much of the buffer that was.                                        *)
Outcome(is, read, taken) == [is |-> is, read |-> read, taken |-> taken]
NextFrame(bytes) ==
  LET length == FrameLength(bytes)
  IN IF length = <<>> THEN Outcome("bad", <<>>, 0)
     ELSE IF length[1] = 0 \/ Len(bytes) < length[1] THEN Outcome("more", <<>>, 0)
     ELSE LET frame == Decode(Slice(bytes, 1, length[1]))
          IN IF frame = <<>> THEN Outcome("bad", <<>>, 0) ELSE Outcome("frame", frame, length[1])

-----------------------------------------------------------------------------
(* The events that frames carry.  A value is [as, of]: "text", "base64",   *)
(* "number", "truth" with bytes, an "object" with a function from names,   *)
(* "other" for what the format cannot carry.  An event of the model is a   *)
(* sequence of its members, [name, role, type], with the role "header",    *)
(* "payload" or "body", and the type "blob", "structure" or another.       *)
MessageType == <<58, 1>>
EventType == <<58, 2>>
ExceptionType == <<58, 3>>
ErrorCode == <<58, 4>>
ContentType == <<58, 5>>
Event == <<101>>
Exception == <<120>>
Fault == <<114>>
Header(name, kind, value) == [name |-> name, kind |-> kind, value |-> value]
Valued(as, of) == [as |-> as, of |-> of]
Bytes(v) == IF v.as = "text" THEN v.of ELSE <<>>

(* The JSON of a structure, which Body is about: its members, one after    *)
(* the other.  What is no document has no members.                         *)
Forms == <<"text", "base64", "number", "truth", "other">>
FormOf(as) == CHOOSE k \in DOMAIN Forms : Forms[k] = as
Pack(object) ==
  FlattenSeq(SetToSeq({<<Len(n), FormOf(object[n].as), Len(object[n].of)>> \o n \o object[n].of :
                         n \in DOMAIN object}))
Unpack(bytes) ==
  LET from[at \in 1 .. Len(bytes) + 1] ==
        IF at > Len(bytes) THEN <<>>
        ELSE (Slice(bytes, at + 3, bytes[at])
                :> Valued(Forms[bytes[at + 1]], Slice(bytes, at + 3 + bytes[at], bytes[at + 2])))
             @@ from[at + 3 + bytes[at] + bytes[at + 2]]
  IN from[1]

(* encode_event: what is given of the members that the event has.  A blob  *)
(* is given as it is printed, and one that is none is sent as nothing.     *)
OfRole(members, role) == {members[k] : k \in {j \in DOMAIN members : members[j].role = role}}
Names(ms) == {m.name : m \in ms}
Part(value, names) == [n \in names \cap DOMAIN value |-> value[n]]
JsonHeader(name, v) ==
  CASE v.as = "truth" -> <<Header(name, 1 - v.of[1], <<>>)>>
    [] v.as = "number" -> <<Header(name, 5, Big(NumberIn(v.of), 8))>>
    [] v.as \in {"text", "base64"} -> <<Header(name, 7, v.of)>>
    [] OTHER -> <<>>
PayloadOf(m, v) ==
  CASE m.type = "blob" -> IF v.as = "base64" THEN v.of ELSE <<>>
    [] m.type = "structure" -> IF v.as = "object" THEN Pack(v.of) ELSE <<>>
    [] OTHER -> Bytes(v)
EncodeEvent(events, name, value) ==
  LET members == events[name]
      headers == {m \in OfRole(members, "header") : m.name \in DOMAIN value}
      payload == {m \in OfRole(members, "payload") : m.name \in DOMAIN value}
      body == Part(value, Names(OfRole(members, "body")))
  IN [headers |->
        <<Header(MessageType, 7, Event), Header(EventType, 7, name)>>
        \o FlattenSeq(SetToSeq({JsonHeader(m.name, value[m.name]) : m \in headers}))
        \o <<Header(ContentType, 7, <<>>)>>,
      payload |->
        IF payload # {} THEN LET m == CHOOSE p \in payload : TRUE IN PayloadOf(m, value[m.name])
        ELSE Pack(body)]

(* External: what only a service sends, and an event that no model has.    *)
ServiceEvent(kind, name, value) ==
  [headers |->
     CASE kind = "exception" -> <<Header(ExceptionType, 7, name), Header(MessageType, 7, Exception)>>
       [] kind = "error" -> <<Header(MessageType, 7, Fault), Header(ErrorCode, 7, name)>>
       [] kind = "unknown" -> <<Header(EventType, 7, name)>>,
   payload |-> Pack(value)]

(* interpret: an event of the model, an exception that says so, an error   *)
(* that is all in its headers, and what is skipped.                        *)
HeaderStr(frame, name) ==
  {frame.headers[k].value : k \in {j \in DOMAIN frame.headers :
     /\ frame.headers[j].name = name /\ frame.headers[j].kind = 7
     /\ \A i \in 1 .. j - 1 : frame.headers[i].name # name}}
HeaderJson(h) ==
  CASE h.kind \in {0, 1} -> Valued("truth", <<1 - h.kind>>)
    [] h.kind \in 2 .. 5 -> Valued("number", <<NumberIn(h.value)>>)
    [] h.kind = 6 -> Valued("base64", h.value)
    [] OTHER -> Valued("text", h.value)
FromHeaders(frame, names) ==
  [n \in names \cap {frame.headers[k].name : k \in DOMAIN frame.headers} |->
     HeaderJson(SelectSeq(frame.headers, LAMBDA h : h.name = n)[1])]
PayloadJson(m, bytes) ==
  CASE m.type = "blob" -> Valued("base64", bytes)
    [] m.type = "structure" -> Valued("object", Unpack(bytes))
    [] OTHER -> Valued("text", bytes)
DecodeEvent(members, frame) ==
  LET payload == OfRole(members, "payload")
      body == OfRole(members, "body")
  IN FromHeaders(frame, Names(OfRole(members, "header")))
     @@ IF payload # {} THEN [n \in Names(payload) |->
                               PayloadJson(CHOOSE m \in payload : m.name = n, frame.payload)]
        ELSE IF body # {} THEN Part(Unpack(frame.payload), Names(body)) ELSE <<>>
Meant(kind, name, value) == [kind |-> kind, name |-> name, value |-> value]
Known(events, frame, name) == IF name \in DOMAIN events THEN DecodeEvent(events[name], frame) ELSE <<>>
Interpret(events, frame) ==
  LET type == IF HeaderStr(frame, MessageType) = {} THEN {Event} ELSE HeaderStr(frame, MessageType)
      named(header) == IF HeaderStr(frame, header) = {} THEN <<>> ELSE CHOOSE n \in HeaderStr(frame, header) : TRUE
  IN CASE type = {Event} /\ named(EventType) \in DOMAIN events ->
            Meant("event", named(EventType), DecodeEvent(events[named(EventType)], frame))
       [] type = {Exception} ->
            Meant("exception", named(ExceptionType), Known(events, frame, named(ExceptionType)))
       [] type = {Fault} -> Meant("error", named(ErrorCode), <<>>)
       [] OTHER -> Meant("unknown", named(EventType), <<>>)

-----------------------------------------------------------------------------
(* A WebSocket: the head of the answer up to its blank line, and frames,   *)
(* with a mask or without, whose length has three forms.                   *)
Blank == <<13, 10, 13, 10>>
Masked(payload, mask) == [k \in DOMAIN payload |-> payload[k] ^^ mask[((k - 1) % 4) + 1]]
LengthForm(n) == IF n < 126 THEN <<n>> ELSE IF n < 2 ^ 16 THEN <<126>> \o Big(n, 2) ELSE <<127>> \o Big(n, 8)
EncodeFrame(frame) ==
  LET form == LengthForm(Len(frame.payload))
  IN <<128 + frame.opcode, 128 + form[1]>> \o Tail(form) \o frame.mask
     \o Masked(frame.payload, frame.mask)

(* External: a server, which masks nothing, and may use a longer form.     *)
ServerFrame(frame) ==
  <<128 + frame.opcode>>
  \o (CASE frame.form = "short" -> <<Len(frame.payload)>>
        [] frame.form = "word" -> <<126>> \o Big(Len(frame.payload), 2)
        [] frame.form = "long" -> <<127>> \o Big(Len(frame.payload), 8))
  \o frame.payload

DecodeFrame(bytes) ==
  IF Len(bytes) < 2 THEN Outcome("more", <<>>, 0)
  ELSE LET short == bytes[2] % 128
           extra == CASE short = 126 -> 2 [] short = 127 -> 8 [] OTHER -> 0
           length == IF extra = 0 THEN short ELSE NumberIn(Slice(bytes, 3, extra))
           start == 2 + extra + (IF bytes[2] >= 128 THEN 4 ELSE 0)
           sent == Slice(bytes, start + 1, length)
       IN IF Len(bytes) < start \/ Len(bytes) < start + length THEN Outcome("more", <<>>, 0)
          ELSE Outcome("frame",
                 <<[opcode |-> bytes[1] % 16,
                    payload |-> IF bytes[2] < 128 THEN sent ELSE Masked(sent, Slice(bytes, start - 3, 4))]>>,
                 start + length)

(* Where the head of the answer ends; its first byte stands for the        *)
(* status, its last for Sec-WebSocket-Accept.                              *)
HeadEnds(bytes) == {k \in 0 .. Len(bytes) - 4 : Slice(bytes, k + 1, 4) = Blank}
FirstEnd(bytes) == CHOOSE k \in HeadEnds(bytes) : \A j \in HeadEnds(bytes) : k <= j
Upgraded(head) == head[1] = 101 /\ Last(head) = 1

-----------------------------------------------------------------------------
(* CBOR: a head with the shortest argument that fits, then the content.    *)
(* An item is [is |-> "uint", "nint", "tag", "simple", n], "bytes", "text",*)
(* "float" with raw, "array", "map" with items; a tag has one item, a map  *)
(* keys and values in turn.                                                *)
WriteHead(major, n) ==
  CASE n < 24 -> <<32 * major + n>>
    [] n \in 24 .. 255 -> <<32 * major + 24, n>>
    [] n \in 256 .. 2 ^ 16 - 1 -> <<32 * major + 25>> \o Big(n, 2)
    [] OTHER -> <<32 * major + 26>> \o Big(n, 4)
MajorOf(is) ==
  CHOOSE m \in 0 .. 7 :
    <<"uint", "nint", "bytes", "text", "array", "map", "tag", "simple">>[m + 1] = (IF is = "float" THEN "simple" ELSE is)
RECURSIVE Write(_)
Write(item) ==
  LET within == FlattenSeq([k \in DOMAIN item.items |-> Write(item.items[k])])
  IN CASE item.is \in {"uint", "nint", "simple"} -> WriteHead(MajorOf(item.is), item.n)
       [] item.is = "float" -> <<224 + 27>> \o item.raw
       [] item.is \in {"bytes", "text"} -> WriteHead(MajorOf(item.is), Len(item.raw)) \o item.raw
       [] item.is = "array" -> WriteHead(4, Len(item.items)) \o within
       [] item.is = "map" -> WriteHead(5, Len(item.items) \div 2) \o within
       [] item.is = "tag" -> WriteHead(6, item.n) \o within

(* External: a service need not use the shortest argument, and may leave a *)
(* length open: a break ends it, and a string comes in chunks.             *)
WideHead(major, n) == <<32 * major + 27>> \o Big(n, 8)
RECURSIVE ServiceWrites(_, _)
ServiceWrites(item, style) ==
  LET major == MajorOf(item.is)
      within == FlattenSeq([k \in DOMAIN item.items |-> ServiceWrites(item.items[k], style)])
      count == IF item.is = "map" THEN Len(item.items) \div 2 ELSE Len(item.items)
  IN CASE item.is \in {"simple", "float"} -> Write(item)
       [] item.is \in {"uint", "nint"} -> WideHead(major, item.n)
       [] item.is = "tag" -> WideHead(6, item.n) \o within
       [] item.is \in {"bytes", "text"} ->
            IF style = "wide" THEN WideHead(major, Len(item.raw)) \o item.raw
            ELSE <<32 * major + 31>>
                 \o FlattenSeq([k \in DOMAIN item.raw |-> WriteHead(major, 1) \o <<item.raw[k]>>])
                 \o <<255>>
       [] OTHER -> IF style = "wide" THEN WideHead(major, count) \o within
                   ELSE <<32 * major + 31>> \o within \o <<255>>

(* Reader: an item and where it ends; none where something is missing.     *)
(* The argument of a head, -1 where it is left open, and where it ends.    *)
ArgumentAt(bytes, at) ==
  LET info == bytes[at] % 32
      width == CASE info < 24 \/ info = 31 -> 0 [] info \in 24 .. 27 -> 2 ^ (info - 24) [] OTHER -> 99
  IN IF at + width > Len(bytes) THEN <<>>
     ELSE <<[n |-> IF width > 0 THEN NumberIn(Slice(bytes, at + 1, width)) ELSE info,
             open |-> info = 31, next |-> at + 1 + width]>>
IsBreak(bytes, at) == at <= Len(bytes) /\ bytes[at] = 255
Took(item, next) == <<[item |-> item, next |-> next]>>
Item(is, n, raw, items) == [is |-> is, n |-> n, raw |-> raw, items |-> items]

(* One function reads the item at a place (left is "one"), the items that  *)
(* are left of a number of them, and those up to a break (-1); chunks are  *)
(* items whose bytes are joined.                                           *)
Closed == 99
ReadFrom(bytes) ==
  LET Reading == [what : {"one", "items", "chunks"}, at : Nat, left : Nat]
      One(at) == [what |-> "one", at |-> at, left |-> 0]
      Many(what, at, left) == [what |-> what, at |-> at, left |-> left]
      read[r \in Reading] ==
        IF r.what # "one"
        THEN IF r.left = 0 THEN Took(<<>>, r.at)
             ELSE IF r.left = Closed /\ IsBreak(bytes, r.at) THEN Took(<<>>, r.at + 1)
             ELSE LET head == read[One(r.at)]
                      rest == read[Many(r.what, head[1].next,
                                        IF r.left = Closed THEN Closed ELSE r.left - 1)]
                  IN IF head = <<>> THEN <<>>
                     ELSE IF rest = <<>> THEN <<>>
                     ELSE Took(<<head[1].item>> \o rest[1].item, rest[1].next)
        ELSE IF r.at > Len(bytes) THEN <<>>
        ELSE LET major == bytes[r.at] \div 32
                 head == ArgumentAt(bytes, r.at)
                 n == head[1].n
                 next == head[1].next
                 left(each) == IF head[1].open THEN Closed ELSE each * n
             IN IF head = <<>> THEN <<>>
                ELSE CASE major = 7 /\ n \in 20 .. 23 -> Took(Item("simple", n, <<>>, <<>>), next)
                       [] major = 7 /\ bytes[r.at] = 224 + 27 ->
                            Took(Item("float", 0, Slice(bytes, r.at + 1, 8), <<>>), next)
                       [] head[1].open /\ major \in {0, 1, 6, 7} -> <<>>
                       [] major \in {0, 1} -> Took(Item(<<"uint", "nint">>[major + 1], n, <<>>, <<>>), next)
                       [] major \in {2, 3} /\ ~head[1].open ->
                            IF next + n > Len(bytes) + 1 THEN <<>>
                            ELSE Took(Item(<<"bytes", "text">>[major - 1], 0, Slice(bytes, next, n), <<>>),
                                      next + n)
                       [] major \in {2, 3} ->
                            LET chunks == read[Many("chunks", next, Closed)]
                            IN IF chunks = <<>> THEN <<>>
                               ELSE Took(Item(<<"bytes", "text">>[major - 1], 0,
                                              FlattenSeq([k \in DOMAIN chunks[1].item |->
                                                            chunks[1].item[k].raw]), <<>>),
                                         chunks[1].next)
                       [] major \in {4, 5} ->
                            LET items == read[Many("items", next, left(major - 3))]
                            IN IF items = <<>> THEN <<>>
                               ELSE Took(Item(<<"array", "map">>[major - 3], 0, <<>>, items[1].item),
                                         items[1].next)
                       [] major = 6 ->
                            LET inner == read[One(next)]
                            IN IF inner = <<>> THEN <<>>
                               ELSE Took(Item("tag", n, <<>>, <<inner[1].item>>), inner[1].next)
                       [] OTHER -> <<>>
  IN read[One(1)]
DecodeCbor(bytes) ==
  LET item == ReadFrom(bytes) IN IF item = <<>> THEN <<>> ELSE <<item[1].item>>

-----------------------------------------------------------------------------
(* What a dialog puts on the wire.                                         *)
Written ==
  LET says == talk.says
  IN CASE talk.format = "frames" -> FlattenSeq([k \in DOMAIN says |-> Encode(says[k])])
       [] talk.format = "events" ->
            FlattenSeq([k \in DOMAIN says |->
                 Encode(IF says[k].kind = "event"
                        THEN EncodeEvent(talk.events, says[k].name, says[k].value)
                        ELSE ServiceEvent(says[k].kind, says[k].name, says[k].value))])
       [] talk.format = "socket" ->
            talk.head \o Blank
            \o FlattenSeq([k \in DOMAIN says |->
                 IF says[k].form = "client" THEN EncodeFrame(says[k]) ELSE ServerFrame(says[k])])
       [] talk.format = "cbor" ->
            IF says[1].style = "client" THEN Write(says[1].item)
            ELSE ServiceWrites(says[1].item, says[1].style)

(* External: it is sent, cut short, or an event stream with a wrong byte.  *)
Begins(bytes) ==
  /\ wire' = bytes /\ wireAt' = IF talk.format = "socket" THEN "head" ELSE "reading"
Send ==
  /\ wireAt = "begin"
  /\ \E bytes \in {Written} :
       \/ Begins(bytes) /\ UNCHANGED whole
       \/ \E k \in Wrongs :
            /\ k <= Len(bytes) /\ whole' = FALSE
            /\ \/ Begins(SubSeq(bytes, 1, k - 1))
               \/ talk.format \in {"frames", "events"}
                  /\ Begins([bytes EXCEPT ![k] = (@ + 1) % 256])
  /\ UNCHANGED <<talk, buffer, readOff, wireSaid>>

(* A piece arrives: Decoder::push, the read of read_headers or read_frame. *)
Lesser(a, b) == IF a < b THEN a ELSE b
Arrive ==
  /\ wireAt \in {"head", "reading"} /\ wire # <<>>
  /\ \E n \in Pieces :
       /\ buffer' = buffer \o SubSeq(wire, 1, Lesser(n, Len(wire)))
       /\ wire' = From(wire, n + 1)
  /\ wireAt' = CASE wireAt = "head" -> "handshake" [] talk.format = "cbor" -> "reading" [] OTHER -> "decoding"
  /\ UNCHANGED <<talk, whole, readOff, wireSaid>>

Ends(said) == wireAt' = "ended" /\ wireSaid' = said
(* A mutant: what came with the head is thrown away. *)
HandshakeAlone ==
  /\ wireAt = "handshake"
  /\ IF HeadEnds(buffer) = {} THEN wireAt' = "head" /\ UNCHANGED <<buffer, wireSaid>>
     ELSE /\ IF Upgraded(SubSeq(buffer, 1, FirstEnd(buffer)))
             THEN wireAt' = "decoding" /\ UNCHANGED wireSaid ELSE Ends("refused")
          /\ buffer' = <<>>
  /\ UNCHANGED <<talk, wire, whole, readOff>>
(* What follows the head may have come with it, and stays in the buffer.   *)
Handshake ==
  /\ wireAt = "handshake"
  /\ IF HeadEnds(buffer) = {} THEN wireAt' = "head" /\ UNCHANGED <<buffer, wireSaid>>
     ELSE /\ IF Upgraded(SubSeq(buffer, 1, FirstEnd(buffer)))
             THEN wireAt' = "decoding" /\ UNCHANGED wireSaid ELSE Ends("refused")
          /\ buffer' = From(buffer, FirstEnd(buffer) + 5)
  /\ UNCHANGED <<talk, wire, whole, readOff>>

(* Frames are taken off the front until too little is left of the next.    *)
Shown(read) ==
  IF talk.format = "events" THEN <<Interpret(talk.events, read[1])>> ELSE read
Take ==
  /\ wireAt = "decoding"
  /\ \E next \in {IF talk.format = "socket" THEN DecodeFrame(buffer) ELSE NextFrame(buffer)} :
       /\ readOff' = readOff \o (IF next.is = "frame" THEN Shown(next.read) ELSE <<>>)
       /\ buffer' = From(buffer, next.taken + 1)
       /\ CASE next.is = "frame" -> UNCHANGED <<wireAt, wireSaid>>
            [] next.is = "more" -> wireAt' = "reading" /\ UNCHANGED wireSaid
            [] next.is = "bad" -> Ends("refused")
  /\ UNCHANGED <<talk, wire, whole>>

(* The end of what arrives: between two frames it is the end of an event   *)
(* stream; a WebSocket is cut wherever it has no close frame; the body of  *)
(* an answer is read whole.                                                *)
End ==
  /\ wireAt \in {"head", "reading"} /\ wire = <<>>
  /\ CASE talk.format = "cbor" ->
            \E read \in {DecodeCbor(buffer)} :
              readOff' = read /\ Ends(IF read = <<>> THEN "refused" ELSE "clean")
       [] talk.format = "socket" -> Ends("cut") /\ UNCHANGED readOff
       [] OTHER -> Ends(IF buffer = <<>> THEN "clean" ELSE "cut") /\ UNCHANGED readOff
  /\ UNCHANGED <<talk, wire, whole, buffer>>

WireNext == Send \/ Arrive \/ Handshake \/ Take \/ End

-----------------------------------------------------------------------------
(* What was said, as it should be read.  Of an event: a header that the    *)
(* format cannot carry is left out, one member that is the payload is      *)
(* there however little came, and text in the place of a blob is nothing.  *)
Misplaced(m, v) ==
  /\ m.role = "payload"
  /\ v.as # (CASE m.type = "blob" -> "base64" [] m.type = "structure" -> "object" [] OTHER -> "text")
Lost(members, value) ==
  {m.name : m \in {n \in ToSet(members) :
     /\ n.name \in DOMAIN value
     /\ Misplaced(n, value[n.name]) \/ (n.role = "header" /\ value[n.name].as = "other")}}
Carried(members, value) ==
  [n \in (DOMAIN value \cap Names(ToSet(members))) \ Lost(members, value) |->
     IF n \in Names(OfRole(members, "header")) /\ value[n].as = "base64"
     THEN Valued("text", value[n].of) ELSE value[n]]
Nothings(members) ==
  [n \in Names(OfRole(members, "payload")) |->
     PayloadJson(CHOOSE m \in OfRole(members, "payload") : m.name = n, <<>>)]
Said(k) ==
  CASE talk.format = "events" ->
         LET said == talk.says[k]
             members == IF said.name \in DOMAIN talk.events THEN talk.events[said.name] ELSE <<>>
         IN Meant(said.kind, said.name, Carried(members, said.value) @@ Nothings(members))
    [] talk.format = "socket" -> [opcode |-> talk.says[k].opcode, payload |-> talk.says[k].payload]
    [] talk.format = "cbor" -> talk.says[k].item
    [] OTHER -> talk.says[k]

(* However it was cut into pieces, what is read is what was said, in its   *)
(* order, and nothing else: a byte that is wrong, or a length that is, is  *)
(* refused and never read as another message, and an end in the middle is  *)
(* no clean end ("a stream that silently decodes into plausible nonsense").*)
(* What a stream prints for an event, it accepts for one.                  *)
WireExact ==
  /\ Len(readOff) <= Len(talk.says) /\ \A k \in DOMAIN readOff : readOff[k] = Said(k)
  /\ wireAt = "ended" /\ whole =>
       IF talk.format = "socket"
       THEN wireSaid = "refused" <=> ~Upgraded(talk.head)
       ELSE wireSaid = "clean"
  /\ wireAt = "ended" /\ whole /\ wireSaid # "refused" => Len(readOff) = Len(talk.says)
  /\ wireSaid = "clean" /\ talk.format # "cbor" =>
       buffer = <<>> /\ wire = <<>>
  /\ wireSaid = "clean" /\ talk.format = "cbor" => whole
===============================================================================
