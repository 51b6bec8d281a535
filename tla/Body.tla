---------------------------------- MODULE Body ----------------------------------
(***************************************************************************)
(* What one call sends and prints (crates/awsc-protocol, dispatch.rs): the *)
(* input is checked against the model, completed, bound to the parts of a  *)
(* request and written in the protocol of the service; the answer is read  *)
(* back by the model.                                                      *)
(*                                                                         *)
(* A document is the set of its leaves, each at its path of member names,  *)
(* indexes and keys; an empty collection is a leaf.  What is on the wire   *)
(* is such a set too, at the places where a protocol puts it.  A leaf is a *)
(* pair of a form and a content: a timestamp has the content of its second *)
(* and the form of a format.  Escapes and the order of members are left    *)
(* out.                                                                    *)
(***************************************************************************)
EXTENDS Naturals, Sequences, SequencesExt, FiniteSets, TLC

CONSTANTS
  Schemas,            (* models: for each path, the member that is there   *)
  Upper,              (* a name, with its first letter raised              *)
  Calls               (* protocol, schema, what is given, what is answered *)

VARIABLES
  bodyAt,
  exchange,           (* the call made                                     *)
  given,              (* the document, as it is completed                  *)
  onWire, inReply,    (* the request and the answer                        *)
  bodyShown, bodySaid (* the output, and "ok", "refused" or an error's code *)

bodyVars == <<bodyAt, exchange, given, onWire, inReply, bodyShown, bodySaid>>

Leaf(at, is) == [at |-> at, is |-> is]
Empty == <<"empty", "">>
Null == <<"null", "">>
TextIs(text) == <<"text", text>>

BodyInit ==
  /\ bodyAt = "given" /\ exchange \in Calls
  /\ given = exchange.input /\ onWire = {} /\ inReply = {} /\ bodyShown = {} /\ bodySaid = "none"

-----------------------------------------------------------------------------
(***************************************************************************)
(* The model.  A generic path has "*" for each index and each key.         *)
(***************************************************************************)
Model == Schemas[exchange.schema]
Item == "*"
Order == <<"1", "2">>
Collections == {"list", "map"}

(* The generic path of a path, if the model has one. *)
Matches(g, p) == Len(g) = Len(p) /\ \A i \in DOMAIN p : g[i] = p[i] \/ g[i] = Item
Known(p) == \E g \in DOMAIN Model : Matches(g, p)
Generic(p) == CHOOSE g \in DOMAIN Model : Matches(g, p)
Kind(p) == Model[Generic(p)].kind
Parent(p) == Front(p)
InStructure(p) == Kind(Parent(p)) = "structure"

(* The paths a document of this model can have, to the bound of Order. *)
Paths ==
  UNION {{[i \in DOMAIN g |-> IF g[i] = Item THEN s[i] ELSE g[i]] :
            s \in [DOMAIN g -> Range(Order)]} : g \in DOMAIN Model \ {<<>>}}

Below(doc, p) == {l \in doc : Len(l.at) > Len(p) /\ IsPrefix(p, l.at)}
KeysAt(doc, p) == {l.at[Len(p) + 1] : l \in Below(doc, p)}
Tops(doc) == KeysAt(doc, <<>>)
Position(doc, p, key) ==
  ToString(Cardinality({i \in DOMAIN Order :
     Order[i] \in KeysAt(doc, p) /\ \E j \in i .. Len(Order) : Order[j] = key}))

(* Every structure, list and map that a document holds. *)
Nodes(doc) ==
  {<<>>} \cup UNION {{SubSeq(l.at, 1, n) : n \in 1 .. Len(l.at)} : l \in doc}

-----------------------------------------------------------------------------
(***************************************************************************)
(* validate: types, members that lack or are unknown, and the least.       *)
(***************************************************************************)
Forms ==
  [string |-> {"text", "encoded"}, number |-> {"number"}, boolean |-> {"bool"},
   structure |-> {"empty"}, list |-> {"empty"}, map |-> {"empty"}]
Accepts(kind, form) == kind \in DOMAIN Forms => form \in Forms[kind]
Inner(p, doc) == Below(doc, p) # {}

BadType(doc) ==
  \E l \in doc : Known(l.at) /\ ~Accepts(Kind(l.at), l.is[1])
BadShape(doc) ==
  \E p \in Nodes(doc) \ {<<>>} :
    Known(p) /\ Inner(p, doc) /\ Kind(p) \notin {"structure", "list", "map"}
Lacks(doc) ==
  \E p \in Nodes(doc) :
    /\ Known(p) /\ Kind(p) = "structure"
    /\ \E g \in DOMAIN Model :
         /\ Len(g) = Len(p) + 1 /\ Parent(g) = Generic(p) /\ Model[g].required
         /\ g[Len(g)] \notin KeysAt(doc, p)
Unknown(doc) == \E p \in Nodes(doc) : p # <<>> /\ Known(Parent(p)) /\ ~Known(p)
                   /\ Kind(Parent(p)) = "structure"
TooSmall(doc) ==
  \/ \E l \in doc :
       /\ Known(l.at)
       /\ \/ l.is[1] = "text" /\ Len(l.is[2]) < Model[Generic(l.at)].min
          \/ l.is[1] = "number" /\ l.is[2] < Model[Generic(l.at)].min
  \/ \E p \in Nodes(doc) :
       /\ Known(p) /\ Kind(p) = "list"
       /\ Cardinality(KeysAt(doc, p)) < Model[Generic(p)].min
Invalid(doc) ==
  BadType(doc) \/ BadShape(doc) \/ Lacks(doc) \/ Unknown(doc) \/ TooSmall(doc)

Validate ==
  /\ bodyAt = "given"
  /\ IF Invalid(given) THEN bodyAt' = "end" /\ bodySaid' = "refused"
     ELSE bodyAt' = "checked" /\ UNCHANGED bodySaid
  /\ UNCHANGED <<exchange, given, onWire, inReply, bodyShown>>

(* A listing of S3 asks for encoded keys; then the tokens are filled in,   *)
(* once for the exchange.                                                  *)
Inject(doc) ==
  IF exchange.listing /\ "EncodingType" \notin Tops(doc)
  THEN doc \cup {Leaf(<<"EncodingType">>, TextIs("url"))} ELSE doc
Tokens == {g \in DOMAIN Model : Len(g) = 1 /\ Model[g].token}
FillTokens(doc) ==
  doc \cup {Leaf(g, TextIs("uuid")) : g \in {t \in Tokens : t[1] \notin Tops(doc)}}

Fill ==
  /\ bodyAt = "checked"
  /\ given' = FillTokens(Inject(given)) /\ bodyAt' = "filled"
  /\ UNCHANGED <<exchange, onWire, inReply, bodyShown, bodySaid>>

-----------------------------------------------------------------------------
(***************************************************************************)
(* Forms of values on the wire.                                            *)
(***************************************************************************)
Json == {"json", "restJson"}
Understood == {"epoch", "fraction", "iso", "date-time"}
Stamp(v, format) == IF v[1] \in {"epoch", "iso"} THEN <<format, v[2]>> ELSE v
Format(g, default) == IF Model[g].format = "" THEN default ELSE Model[g].format
Text(v) ==
  CASE v[1] = "number" -> TextIs(ToString(v[2]))
    [] v[1] = "bool" -> TextIs(v[2])
    [] v[1] = "null" -> TextIs("")
    [] OTHER -> v
IsStamp(g) == Model[g].kind = "timestamp"

JsonValue(g, v) == IF IsStamp(g) THEN Stamp(v, Format(g, "epoch")) ELSE v
CborValue(g, v) ==
  IF IsStamp(g) THEN Stamp(v, "epoch") ELSE IF v[1] = "base64" THEN <<"bytes", v[2]>> ELSE v
XmlValue(g, v) == Text(IF IsStamp(g) THEN Stamp(v, Format(g, "date-time")) ELSE v)
Ec2Value(g, v) == Text(IF IsStamp(g) THEN Stamp(v, Format(g, "date-time")) ELSE v)
QueryValue(v) == Text(v)
Encoded(protocol, g, v) ==
  CASE protocol \in Json -> JsonValue(g, v)
    [] protocol = "cbor" -> CborValue(g, v)
    [] protocol = "restXml" -> XmlValue(g, v)
    [] protocol = "ec2" -> Ec2Value(g, v)
    [] OTHER -> QueryValue(v)

(* Under which names: a name that a trait gives, or the member's own. *)
Named(g, name) == IF name = "" THEN Last(g) ELSE name
JsonName(g) == Named(g, Model[g].json)
XmlName(g) == Named(g, Model[g].xml)
ItemName(g) == IF Model[g].xml = "" THEN "member" ELSE Model[g].xml
Ec2Name(g) ==
  IF Model[g].ec2 # "" THEN Model[g].ec2
  ELSE IF Model[g].xml # "" THEN Upper[Model[g].xml] ELSE Last(g)
(* The trait that flattens is on the member, or on the list it is. *)
Flattened(g) == Model[g].flat \/ Model[g].flatShape

(* The steps on the wire for the last of a path, in what has `own` kind,   *)
(* at the path `in`; `nth` is the place of a key among those there are.    *)
JsonStep(own, g, step) == IF own = "structure" THEN <<JsonName(g)>> ELSE <<step>>
QueryStep(own, in, g, step, nth) ==
  CASE own = "structure" -> <<XmlName(g)>>
    [] own = "list" -> IF Model[in].flatShape THEN <<step>> ELSE <<ItemName(g), step>>
    [] OTHER -> (IF Model[in].flatShape THEN <<nth>> ELSE <<"entry", nth>>) \o <<"value">>
Ec2Step(own, g, step, nth) ==
  CASE own = "structure" -> <<Ec2Name(g)>>
    [] own = "list" -> <<step>>
    [] OTHER -> <<"entry", nth, "value">>
XmlStep(own, in, g, step, nth) ==
  CASE own = "structure" -> (IF Model[g].attribute THEN <<"@">> ELSE <<>>) \o <<XmlName(g)>>
    [] own = "list" -> IF Flattened(in) THEN <<step>> ELSE <<ItemName(g), step>>
    [] OTHER -> (IF Flattened(in) THEN <<nth>> ELSE <<"entry", nth>>)
                \o <<IF Model[g].xml = "" THEN "value" ELSE Model[g].xml>>
Steps(protocol, doc, p, i) ==
  LET in == Generic(SubSeq(p, 1, i - 1))
      g == Generic(SubSeq(p, 1, i))
      own == Model[in].kind
      nth == Position(doc, SubSeq(p, 1, i - 1), p[i])
  IN CASE protocol = "cbor" -> <<p[i]>>
       [] protocol \in Json -> JsonStep(own, g, p[i])
       [] protocol = "query" -> QueryStep(own, in, g, p[i], nth)
       [] protocol = "ec2" -> Ec2Step(own, g, p[i], nth)
       [] OTHER -> XmlStep(own, in, g, p[i], nth)
PlaceOf(protocol, doc, p) ==
  FlattenSeq([i \in DOMAIN p |-> Steps(protocol, doc, p, i)])

(* A null of a structure is passed over, and an empty collection leaves no *)
(* trace in a form, nor in XML when it is flattened.                       *)
Written(protocol, l) ==
  /\ l.is = Null =>
       CASE protocol = "query" -> TRUE [] protocol = "ec2" -> Len(l.at) > 1
         [] OTHER -> ~InStructure(l.at)
  /\ l.is = Empty =>
       \/ protocol \in {"json", "restJson", "cbor"}
       \/ protocol = "restXml" /\ ~(Kind(l.at) \in Collections /\ Flattened(Generic(l.at)))

(* The keys of maps are leaves of their own, but in JSON and CBOR. *)
MapKeys(protocol, doc) ==
  IF protocol \in {"json", "restJson", "cbor"} THEN {}
  ELSE UNION {
    {Leaf(PlaceOf(protocol, doc, m) \o Front(Steps(protocol, doc, Append(m, k), Len(m) + 1))
            \o <<IF protocol = "restXml" /\ Model[Generic(m)].key # ""
                 THEN Model[Generic(m)].key ELSE "key">>, TextIs(k)) : k \in KeysAt(doc, m)} :
    m \in {m \in Nodes(doc) : Kind(m) = "map"}}

Write(protocol, doc) ==
  {Leaf(PlaceOf(protocol, doc, l.at), Encoded(protocol, Generic(l.at), l.is)) :
     l \in {l \in doc : Written(protocol, l)}}
  \cup MapKeys(protocol, doc)
InBody(leaves) == {Leaf(<<"body">> \o l.at, l.is) : l \in leaves}

-----------------------------------------------------------------------------
(***************************************************************************)
(* The request: what is bound to its path, query and headers, and what is  *)
(* left for the body.                                                      *)
(***************************************************************************)
Rest == exchange.protocol \in {"restJson", "restXml"}
Binding(top) == Model[<<top>>].bind
Members(doc, how) == {l \in doc : Binding(l.at[1])[1] = how}

Spot(l) ==
  LET b == Binding(l.at[1]) IN
  CASE b[1] = "label" -> <<"path", l.at[1]>>
    [] b[1] \in {"query", "header"} -> b \o Tail(l.at)
    [] b[1] = "params" -> <<"query">> \o Tail(l.at)
    [] OTHER -> <<"header", b[2] \o Last(l.at)>>
BoundValue(l) ==
  LET b == Binding(l.at[1])
      format == Format(<<l.at[1]>>, IF b[1] = "header" THEN "http-date" ELSE "date-time")
  IN IF b[1] \in {"label", "query", "header"} /\ IsStamp(Generic(l.at))
     THEN Text(Stamp(l.is, format)) ELSE Text(l.is)

(* bind: all but the payload and the body, as long as it has a value. *)
Bound(doc) ==
  {Leaf(Spot(l), BoundValue(l)) :
     l \in {l \in doc : Binding(l.at[1])[1] \notin {"body", "payload"} /\ l.is # Empty}}

(* A payload takes the whole body: a file or bytes as they are. *)
Whole(payload) ==
  {IF l.is[1] = "base64" THEN <<"bytes", l.is[2]>> ELSE l.is :
     l \in {l \in payload : Len(l.at) = 1 /\ l.is[1] \in {"base64", "file"}}}
XmlBody(payload) == {Leaf(Tail(w.at), w.is) : w \in Write("restXml", payload)}
RestBody(doc) ==
  LET payload == Members(doc, "payload") IN
  CASE payload = {} -> Write(exchange.protocol, Members(doc, "body"))
    [] Whole(payload) # {} -> {Leaf(<<>>, is) : is \in Whole(payload)}
    [] exchange.protocol = "restJson" -> {Leaf(Tail(l.at), l.is) : l \in payload}
    [] OTHER -> XmlBody(payload)

Serialize ==
  /\ bodyAt = "filled"
  /\ onWire' = IF Rest THEN Bound(given) \cup InBody(RestBody(given)) ELSE InBody(Write(exchange.protocol, given))
  /\ bodyAt' = "sent"
  /\ UNCHANGED <<exchange, given, inReply, bodyShown, bodySaid>>

-----------------------------------------------------------------------------
(***************************************************************************)
(* Reading by the model: each member is looked up under its name.          *)
(***************************************************************************)
(* A mutant: the trait is looked for on the list alone. *)
ReadFlatShape(in, holder) == Model[in].flatShape

(* A list is flattened where it is the member of a structure. *)
ReadFlat(in, holder) == Model[holder].kind = "structure" /\ Flattened(in)

Entry(wire, at, key) ==
  LET with == {n \in Range(Order) : Leaf(at \o <<"entry", n, "key">>, TextIs(key)) \in wire}
  IN IF with = {} THEN <<"absent">> ELSE <<"entry", CHOOSE n \in with : TRUE, "value">>

(* Where the last step of a path is looked for, from where the others led. *)
XmlRead(wire, at, in, g, step) ==
  CASE Model[in].kind = "structure" -> <<XmlName(g)>>
    [] Model[in].kind = "list" ->
         IF ReadFlat(in, Parent(in)) THEN <<step>> ELSE <<ItemName(g), step>>
    [] OTHER -> Entry(wire, at, step)
ReadStep(protocol, wire, at, p) ==
  LET in == Generic(Parent(p))
      g == Generic(p)
  IN at \o
     CASE protocol = "cbor" -> <<Last(p)>>
       [] protocol \in Json -> JsonStep(Model[in].kind, g, Last(p))
       [] OTHER -> XmlRead(wire, at, in, g, Last(p))
ReadPlace(protocol, wire, root, p) ==
  FoldLeftDomain(LAMBDA at, i : ReadStep(protocol, wire, at, SubSeq(p, 1, i)), root, p)

NumberIn(text) == CHOOSE n \in 0 .. 9 : ToString(n) = text
JsonTyped(kind, v) ==
  IF kind = "timestamp" /\ v[1] \in Understood \ {"fraction"} THEN <<"iso", v[2]>> ELSE v
CborTyped(kind, v) ==
  CASE kind = "timestamp" /\ v[1] \in {"epoch", "fraction"} -> <<"iso", v[2]>>
    [] kind = "blob" /\ v[1] = "bytes" -> <<"base64", v[2]>>
    [] OTHER -> v
XmlTyped(kind, v) ==
  CASE kind = "timestamp" /\ v[1] \in Understood -> <<"iso", v[2]>>
    [] kind = "number" -> <<"number", NumberIn(v[2])>>
    [] kind = "boolean" -> <<"bool", IF v[2] = "true" THEN "true" ELSE "false">>
    [] OTHER -> v
Typed(protocol, kind, v) ==
  CASE protocol \in Json -> JsonTyped(kind, v)
    [] protocol = "cbor" -> CborTyped(kind, v)
    [] OTHER -> XmlTyped(kind, v)

Found(protocol, wire, root, p) ==
  {w \in wire : w.at = ReadPlace(protocol, wire, root, p)
     /\ ~(w.is = Null /\ InStructure(p))}
Holds(protocol, wire, root, p) ==
  \E w \in wire : IsPrefix(ReadPlace(protocol, wire, root, p), w.at)

(* A structure or a collection of which no member is known is empty. *)
Filled(leaves, held) ==
  {l \in leaves : Below(leaves, l.at) = {}} \cup
  {Leaf(p, Empty) : p \in {p \in held : Below(leaves, p) = {}}}
Read(protocol, wire, root) ==
  Filled(UNION {{Leaf(p, Typed(protocol, Kind(p), w.is)) :
                   w \in Found(protocol, wire, root, p)} : p \in Paths},
         {p \in Paths : Kind(p) \in Collections \cup {"structure"} /\ Holds(protocol, wire, root, p)})

(* A document whose root is the only member of the output. *)
Bare(wire) == Cardinality({g \in DOMAIN Model : Len(g) = 1}) = 1 /\ \E w \in wire : w.at = <<"body">>
ReadBare(wire) ==
  {Leaf(g, IF w.is = TextIs("") THEN Null ELSE XmlTyped(Model[g].kind, w.is)) :
     w \in {w \in wire : w.at = <<"body">>}, g \in {g \in DOMAIN Model : Len(g) = 1}}
ResultAt(wire) ==
  IF \E w \in wire : IsPrefix(<<"body", "Result">>, w.at) THEN <<"body", "Result">> ELSE <<"body">>
ReadBody(wire) ==
  IF exchange.protocol \notin Json \cup {"cbor"} /\ Bare(wire) THEN ReadBare(wire)
  ELSE Read(exchange.protocol, wire,
            IF exchange.protocol \in Json \cup {"cbor"} THEN <<"body">> ELSE ResultAt(wire))

(* bind_output_headers: a header's text becomes what the shape says; a map *)
(* of prefixed headers is always there.                                    *)
FromHeader(g, v) ==
  IF IsStamp(g) THEN IF v[1] = "http-date" THEN <<"iso", v[2]>> ELSE v
  ELSE CASE v[1] # "text" -> v
         [] Model[g].kind \in {"number", "boolean"} -> XmlTyped(Model[g].kind, v)
         [] OTHER -> v
InHeader(p) == Binding(p[1])[1] = (IF Len(p) = 1 THEN "header" ELSE "prefix")
ReadHeaders(wire) ==
  LET found == UNION {{Leaf(p, FromHeader(Generic(p), w.is)) :
                         w \in {w \in wire : w.at = Spot(Leaf(p, Null))}} :
                      p \in {p \in Paths : Len(p) <= 2 /\ InHeader(p)}}
      prefixed == {g \in DOMAIN Model : Len(g) = 1 /\ Model[g].bind[1] = "prefix"}
  IN found \cup {Leaf(g, Empty) : g \in {g \in prefixed : Below(found, g) = {}}}

(* merge_in_model_order: a header is taken before the body. *)
Merge(headers, body) == headers \cup {l \in body : l.at[1] \notin Tops(headers)}

(* decode_policy_documents, and decode_encoded_keys of a listing. *)
Policies(leaves) ==
  {Leaf(l.at, IF Model[Generic(l.at)].policy /\ l.is[1] = "encoded" THEN <<"json", l.is[2]>>
              ELSE l.is) : l \in leaves}
EncodedFields == {"Key", "Prefix"}
DecodedKeys(leaves) ==
  {Leaf(l.at, IF exchange.listing /\ Last(l.at) \in EncodedFields /\ l.is[1] = "quoted"
              THEN TextIs(l.is[2]) ELSE l.is) : l \in leaves}

(* The code of an error, as each protocol has it: a JSON body that names   *)
(* none and an XML one that nests deeper than it is looked for is unknown. *)
CodeAt(wire, at) == {w.is[2] : w \in {w \in wire : w.at = at}}
JsonCode(wire) == CodeAt(wire, <<"body", "__type">>)
XmlCode(wire) ==
  IF \E w \in wire : IsPrefix(<<"body", "Error">>, w.at)
  THEN CodeAt(wire, <<"body", "Error", "Code">>) ELSE CodeAt(wire, <<"body", "Code">>)
ErrorCode(wire) ==
  LET header == CodeAt(wire, <<"header", "errortype">>)
      named == CASE exchange.protocol \in {"json", "cbor"} -> JsonCode(wire)
                 [] exchange.protocol = "restJson" -> IF header # {} THEN header ELSE JsonCode(wire)
                 [] OTHER -> XmlCode(wire)
  IN IF named # {} THEN CHOOSE c \in named : TRUE
     ELSE IF \A w \in wire : w.at[1] # "body" THEN "status" ELSE "Unknown"

Report ==
  /\ bodyAt = "answered" /\ bodyAt' = "end"
  /\ IF bodySaid = "fault" THEN bodySaid' = ErrorCode(inReply) /\ UNCHANGED bodyShown
     ELSE /\ bodySaid' = "ok"
          /\ bodyShown' = DecodedKeys(Merge(IF Rest THEN ReadHeaders(inReply) ELSE {},
                                            Policies(ReadBody(inReply))))
  /\ UNCHANGED <<exchange, given, onWire, inReply>>

-----------------------------------------------------------------------------
(***************************************************************************)
(* The service, by the specification of its protocol.                      *)
(***************************************************************************)
ServiceStep(wire, at, p) ==
  LET in == Generic(Parent(p))
      g == Generic(p)
      step == Last(p)
      own == Model[in].kind
      flat == Flattened(in)
      key == IF Model[in].key = "" THEN "key" ELSE Model[in].key
      entry == IF flat THEN at ELSE Append(at, "entry")
      with == {n \in Range(Order) : Leaf(entry \o <<n, key>>, TextIs(step)) \in wire}
      nth == IF with = {} THEN "absent" ELSE CHOOSE n \in with : TRUE
  IN CASE exchange.protocol = "cbor" -> Append(at, step)
       [] exchange.protocol \in {"json", "restJson"} ->
            Append(at, IF own = "structure" THEN JsonName(g) ELSE step)
       [] own = "structure" ->
            at \o (CASE exchange.protocol = "ec2" -> <<Ec2Name(g)>>
                     [] exchange.protocol = "restXml" /\ Model[g].attribute -> <<"@", XmlName(g)>>
                     [] OTHER -> <<XmlName(g)>>)
       [] own = "list" ->
            at \o (IF exchange.protocol = "ec2" \/ flat THEN <<step>> ELSE <<ItemName(g), step>>)
       [] OTHER ->
            entry \o <<nth, IF Model[g].xml = "" THEN "value" ELSE Model[g].xml>>
ServicePlace(wire, p) ==
  LET bind == Binding(p[1])[1]
      Step(at, i) ==
        IF Rest /\ i = 1 /\ bind = "payload" THEN at
        ELSE ServiceStep(wire, at, SubSeq(p, 1, i))
  IN IF Rest /\ bind \notin {"body", "payload"} THEN Spot(Leaf(p, Null))
     ELSE FoldLeftDomain(Step, <<"body">>, p)

(* What a value says where it is, if it has the form that is asked there.  *)
Due(p) ==
  LET bind == IF Rest THEN Binding(p[1])[1] ELSE "body"
      format == IF exchange.protocol = "cbor" THEN "epoch"
                ELSE Format(Generic(p), CASE bind = "header" -> "http-date"
                  [] bind = "body" /\ exchange.protocol \in {"json", "restJson"} -> "epoch"
                  [] OTHER -> "date-time")
  IN CASE Kind(p) = "timestamp" -> {format} \cup (IF format = "date-time" THEN {"iso"} ELSE {})
       [] Kind(p) = "blob" ->
            IF bind = "payload" THEN {"bytes", "file"}
            ELSE IF exchange.protocol = "cbor" THEN {"bytes"} ELSE {"base64"}
       [] OTHER -> {"text", "number", "bool", "null", "empty", "encoded", "json"}
Says(kind, v) ==
  CASE kind \in {"timestamp", "blob"} -> v[2]
    [] kind = "number" -> IF v[1] = "text" THEN NumberIn(v[2]) ELSE v[2]
    [] OTHER -> v[2]
ServiceReads(wire) ==
  UNION {{<<p, Says(Kind(p), w.is)>> :
            w \in {w \in wire : w.at = ServicePlace(wire, p) /\ w.is[1] \in Due(p)
                              /\ (w.is = Empty => exchange.protocol \in {"json", "cbor"})}} :
         p \in Paths}

(* Its answer, a document of the same model. *)
Sent(doc) == IF exchange.protocol \in {"query", "ec2"} THEN "restXml" ELSE exchange.protocol
ServiceForm(p, v) ==
  IF Last(p) \in EncodedFields /\ Leaf(<<"query", "encoding-type">>, TextIs("url")) \in onWire
  THEN <<"quoted", v[2]>> ELSE v
ServiceWrites(doc) ==
  LET told == {Leaf(l.at, ServiceForm(l.at, l.is)) : l \in doc}
      bound == {l \in told : Rest /\ InHeader(l.at)}
      root == IF exchange.protocol = "query" THEN <<"body", "Result">> ELSE <<"body">>
  IN {Leaf(Spot(l), BoundValue(l)) : l \in bound} \cup
     IF exchange.bare THEN {Leaf(<<"body">>, Text(l.is)) : l \in doc}
     ELSE {Leaf(root \o w.at, w.is) : w \in Write(Sent(doc), told \ bound)}

(* Where a service puts the code of an error, if it says one. *)
Faults ==
  {{}} \cup
  {{Leaf(at, TextIs("Slow"))} : at \in
     CASE exchange.protocol \in {"json", "cbor"} -> {<<"body", "__type">>}
       [] exchange.protocol = "restJson" -> {<<"body", "__type">>, <<"header", "errortype">>}
       [] exchange.protocol = "ec2" -> {<<"body", "Errors", "Error", "Code">>}
       [] OTHER -> {<<"body", "Error", "Code">>, <<"body", "Code">>}}

Answer ==
  /\ bodyAt = "sent" /\ bodyAt' = "answered"
  /\ \/ inReply' = ServiceWrites(exchange.answer) /\ UNCHANGED bodySaid
     \/ inReply' \in Faults /\ bodySaid' = "fault"
  /\ UNCHANGED <<exchange, given, onWire, bodyShown>>

BodyOver == bodyAt \in {"end", "parked"}
BodyNext == Validate \/ Fill \/ Serialize \/ Answer \/ Report

-----------------------------------------------------------------------------
(***************************************************************************)
(* PROPERTIES                                                              *)
(***************************************************************************)
(* What says something: of JSON and CBOR all, of the others what is not    *)
(* empty.  Nothing is claimed of an empty collection there: ec2_query.rs:  *)
(* 6-7 says that awsQuery sends `Name=` for one, and query.rs sends        *)
(* nothing.                                                                *)
Substance(doc) ==
  {<<l.at, Says(Kind(l.at), l.is)>> : l \in
     {l \in doc : l.is # Null /\ (l.is = Empty => exchange.protocol \in {"json", "cbor"})}}

(* What was asked is what the service reads, each member once, in the form *)
(* its place asks for; what is printed is what the service answered, in    *)
(* the forms of the output; an error has the name the service gave it.     *)
(* What does not hold of the code is left out by name: the error of ec2 is *)
(* not found where it nests; attributes and payloads of an answer are not  *)
(* read (the answers hold none); a timestamp with a fraction in a JSON     *)
(* answer is printed as it came, though json.rs:181-185 says that every    *)
(* one is printed in one form (the answers in JSON hold none); and an      *)
(* empty collection in a form (Substance).                                 *)
BodyAsModelled ==
  /\ bodyAt \in {"sent", "answered"} => ServiceReads(onWire) = Substance(given)
  /\ bodyAt = "end" /\ bodySaid = "ok" =>
       /\ Substance(bodyShown) = Substance(exchange.answer)
       /\ \A l \in bodyShown : Kind(l.at) = "timestamp" => l.is[1] = "iso"
       /\ \A l \in bodyShown : l.is[1] \notin {"quoted", "encoded"}
  /\ bodyAt = "end" /\ bodySaid \notin {"ok", "refused"} =>
       \/ exchange.protocol = "ec2"
       \/ bodySaid = IF inReply = {} THEN "status" ELSE "Slow"
=============================================================================
