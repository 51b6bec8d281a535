------------------------------ MODULE Attributes ------------------------------
(***************************************************************************)
(* The options of cp, mv and sync and the headers they become              *)
(* (s3/transfer.rs): which request of a transfer carries which of them, so *)
(* that an object is the same whether it went whole, in parts or from      *)
(* standard input, and a copy has what its source had.                     *)
(*                                                                         *)
(* A line is a sequence of [flag, inline], of [word] where no flag is, and *)
(* a value is a sequence of one, or of none.  Sizes are in KiB.  A key is  *)
(* what lies between its dots, and a header <<kind, name, value>>, its     *)
(* kind "head", "meta" or "grant".  All the parts of an object are sent    *)
(* alike: one of them stands for them all, here.                           *)
(***************************************************************************)
EXTENDS Naturals, Sequences, SequencesExt, FiniteSets, TLC

CONSTANTS
  Hauls               (* [verb, line, way, size, key, from]: the way is    *)
                      (* "put", "stdin", "get" or "copy", from the object  *)
                      (* at the source, [attrs, key]                       *)

VARIABLES
  haul,               (* what is to be transferred                         *)
  haulAt,             (* "flags", "begin", "head", "create", "parts",      *)
                      (* "complete", "abort", "over"                       *)
  flagsLeft, opts,    (* Options::parse                                    *)
  creating,           (* the headers of a multipart upload                 *)
  kept,               (* what S3 has of it: [attrs, key], in a sequence    *)
  landed,             (* the object at the destination, likewise           *)
  haulCode            (* what the command ends with                        *)

attributeVars == <<haul, haulAt, flagsLeft, opts, creating, kept, landed, haulCode>>

Threshold == 8 * 1024
ChunkSize == 8 * 1024
MinChunk == 5 * 1024
MaxParts == 10000

(* The flags that take a value, and those that have one of their own.      *)
Carried == {"storage-class", "acl", "sse", "sse-kms-key-id", "cache-control", "content-disposition",
            "content-encoding", "content-language", "expires", "website-redirect", "metadata-directive"}
Single == Carried \cup {"content-type", "sse-c", "sse-c-key"}
Usual == [flag \in Single |-> IF flag \in {"sse", "sse-c"} THEN <<"AES256">> ELSE <<>>]
Switches == {"recursive", "dryrun", "quiet", "only-show-errors", "no-progress", "delete"}
SyncOnly == {"delete", "size-only", "exact-timestamps"}

NoOptions ==
  [given |-> [flag \in Single |-> <<>>], on |-> {}, links |-> TRUE, strategy |-> "default",
   metadata |-> {}, grants |-> <<>>, rules |-> <<>>, workers |-> "adapt",
   threshold |-> Threshold, chunk |-> ChunkSize]

AttributesInit ==
  /\ haul \in Hauls /\ haulAt = "flags" /\ flagsLeft = haul.line /\ opts = NoOptions
  /\ creating = {} /\ kept = <<>> /\ landed = <<>> /\ haulCode = 0

-----------------------------------------------------------------------------
(* The value of the first flag: its own, or the word after it; and what is *)
(* left then.                                                              *)
IsWord(k) == k <= Len(flagsLeft) /\ flagsLeft[k].flag = "word"
Value ==
  IF flagsLeft[1].inline # <<>> THEN flagsLeft[1].inline
  ELSE IF IsWord(2) THEN <<flagsLeft[2].word>> ELSE <<>>
Rest == SubSeq(flagsLeft, IF flagsLeft[1].inline = <<>> /\ IsWord(2) THEN 3 ELSE 2, Len(flagsLeft))
WordsAfter == Cardinality({k \in 2 .. Len(flagsLeft) : \A j \in 2 .. k : IsWord(j)})

(* A size is [n, unit], and none where that is no unit or nothing.         *)
ParseSize(text) ==
  CASE text = <<>> -> <<>>
    [] text # <<>> ->
         LET scale == ("K" :> 1 @@ "M" :> 1024 @@ "G" :> 1024 * 1024)
         IN IF text[1].unit \in DOMAIN scale /\ text[1].n > 0
            THEN <<text[1].n * scale[text[1].unit]>> ELSE <<>>

(* Metadata is a document or pairs, of which one may have no value.        *)
Pairs(text) == IF text = <<>> THEN <<>> ELSE text[1].pairs
ParsesMetadata(text) ==
  IF text # <<>> /\ text[1].form = "json" THEN text[1].valid
  ELSE \A k \in DOMAIN Pairs(text) : Len(Pairs(text)[k]) = 2
OrElse(value, default) == IF value = <<>> THEN default ELSE value[1]

Settled(left, changed) == flagsLeft' = left /\ opts' = changed /\ UNCHANGED <<haulAt, haulCode>>
Refused(code) == haulAt' = "over" /\ haulCode' = code /\ UNCHANGED <<flagsLeft, opts>>
UsageCode == 252

(* Options::parse, one flag after the other. *)
ParseFlag ==
  /\ haulAt = "flags" /\ flagsLeft # <<>>
  /\ LET flag == flagsLeft[1].flag
     IN \/ flag \in Single /\ Settled(Rest, [opts EXCEPT !.given[flag] =
                                        IF Value = <<>> THEN Usual[flag] ELSE Value])
        \/ flag \in Switches /\ Settled(Tail(flagsLeft), [opts EXCEPT !.on = @ \cup {flag}])
        \/ flag = "follow-symlinks" /\ Settled(Tail(flagsLeft), [opts EXCEPT !.links = TRUE])
        \/ flag = "no-follow-symlinks" /\ Settled(Tail(flagsLeft), [opts EXCEPT !.links = FALSE])
        \/ /\ flag = "concurrency"
           /\ Settled(Rest, [opts EXCEPT !.workers =
                IF OrElse(Value, "none") \in {"none", "zero", "text"} THEN "ten" ELSE Value[1]])
        \/ /\ flag = "multipart-threshold"
           /\ Settled(Rest, [opts EXCEPT !.threshold = OrElse(ParseSize(Value), @)])
        \/ /\ flag = "multipart-chunksize"
           /\ Settled(Rest, [opts EXCEPT !.chunk = OrElse(ParseSize(Value), @)])
        \/ /\ flag = "grants"
           /\ Settled(SubSeq(flagsLeft, WordsAfter + 2, Len(flagsLeft)),
                [opts EXCEPT !.grants = @ \o flagsLeft[1].inline
                   \o [k \in 1 .. WordsAfter |-> flagsLeft[k + 1].word]])
        \/ flag = "metadata" /\ ~ParsesMetadata(Value) /\ Refused(UsageCode)
        \/ /\ flag = "metadata" /\ ParsesMetadata(Value)
           /\ Settled(Rest, [opts EXCEPT !.metadata = ToSet(Pairs(Value))])
        \/ /\ flag \in {"exclude", "include"}
           /\ Settled(Rest, [opts EXCEPT !.rules = Append(@, <<flag, OrElse(Value, "")>>)])
        \/ /\ flag = "size-only"
           /\ Settled(Tail(flagsLeft),
                [opts EXCEPT !.strategy = IF @ = "exact" THEN @ ELSE "size"])
        \/ flag = "exact-timestamps" /\ Settled(Tail(flagsLeft), [opts EXCEPT !.strategy = "exact"])
        \/ flag \in {"word", "unknown"} /\ Refused(UsageCode)
  /\ UNCHANGED <<haul, creating, kept, landed>>

(* run: what only sync understands, and a dry run, which sends nothing.    *)
EndFlags ==
  /\ haulAt = "flags" /\ flagsLeft = <<>>
  /\ \/ /\ haul.verb # "sync" /\ \E k \in DOMAIN haul.line : haul.line[k].flag \in SyncOnly
        /\ Refused(UsageCode)
     \/ /\ haul.verb = "sync" \/ \A k \in DOMAIN haul.line : haul.line[k].flag \notin SyncOnly
        /\ haulAt' = IF "dryrun" \in opts.on /\ haul.way # "stdin" THEN "over" ELSE "begin"
        /\ UNCHANGED <<flagsLeft, opts, haulCode>>
  /\ UNCHANGED <<haul, creating, kept, landed>>

-----------------------------------------------------------------------------
(* The headers. *)
Headed(name, value) == <<"head", name, value>>
SseHeaders ==
  IF opts.given["sse-c"] = <<>> \/ opts.given["sse-c-key"] = <<>> THEN {}
  ELSE {Headed("sse-c-algorithm", opts.given["sse-c"][1]), Headed("sse-c-key", opts.given["sse-c-key"][1])}

MimeTypes == "txt" :> "text/plain" @@ "html" :> "text/html" @@ "htm" :> "text/html"
             @@ "json" :> "application/json"
GuessContentType(key) ==
  IF Last(key) \in DOMAIN MimeTypes THEN <<MimeTypes[Last(key)]>> ELSE <<>>
ContentType(key) ==
  IF opts.given["content-type"] # <<>> THEN opts.given["content-type"] ELSE GuessContentType(key)

(* A grant is <<permission, kind, id>>: another, or a shorter one, is      *)
(* skipped.                                                                *)
GrantHeaders ==
  {<<"grant", g[1], <<g[2], g[3]>>>> :
     g \in {h \in ToSet(opts.grants) : Len(h) = 3 /\ h[1] \in {"read", "readacl", "writeacl", "full"}}}
ObjectHeaders ==
  {Headed(flag, opts.given[flag][1]) : flag \in {f \in Carried : opts.given[f] # <<>>}}
  \cup SseHeaders
  \cup {<<"meta", pair[1], pair[2]>> : pair \in opts.metadata}
  \cup GrantHeaders
  \cup {Headed("content-type", type) : type \in ToSet(ContentType(haul.key))}

Named(headers, name) == {h \in headers : h[1] = "head" /\ h[2] = name}
Inherited == {"cache-control", "content-disposition", "content-encoding", "content-language", "expires"}

(* What a copy in parts says of the source, which it asked for.            *)
CopyHeaders(asked, source) ==
  LET own == asked \ Named(asked, "metadata-directive")
      missing == {n \in Inherited : Named(own, n) = {}}
      more == IF opts.metadata # {} THEN {}
              ELSE UNION {Named(source, n) : n \in missing} \cup {h \in source : h[1] = "meta"}
  IN IF opts.given["content-type"] = <<>> /\ Named(source, "content-type") # {}
     THEN (own \ Named(own, "content-type")) \cup more \cup Named(source, "content-type")
     ELSE own \cup more

-----------------------------------------------------------------------------
(* External: S3.  An object is described by what it came with; the key it  *)
(* is encrypted with is the customer's, who must show it to read it and to *)
(* add to it.  A copy in one request is described as its source is, unless *)
(* it is told to replace that.                                             *)
KeyOf(headers) == {h[3] : h \in Named(headers, "sse-c-key")}
Described(h) == h[1] = "meta" \/ h[2] \in Inherited \cup {"content-type"}
Describes(headers) ==
  LET attrs == {h \in headers : h[2] \notin {"sse-c-key", "sse-c-algorithm", "metadata-directive"}}
  IN attrs \cup IF Named(attrs, "content-type") = {}
                THEN {Headed("content-type", "binary/octet-stream")} ELSE {}
Object(headers) == [attrs |-> Describes(headers), key |-> KeyOf(headers)]
Replaces(headers) == Headed("metadata-directive", "REPLACE") \in headers
CopiedObject(headers) ==
  IF Replaces(headers) THEN Object(headers)
  ELSE [attrs |-> {h \in Describes(headers) : ~Described(h)} \cup {h \in haul.from.attrs : Described(h)},
        key |-> KeyOf(headers)]
Reads(headers) == KeyOf(headers) = haul.from.key

-----------------------------------------------------------------------------
(* chunk_size_for, and the parts it makes. *)
DivCeil(a, b) == (a + b - 1) \div b
ChunkSizeFor(total, base) ==
  LET from == IF base < MinChunk THEN MinChunk ELSE base
      doubled == {from * 2 ^ k : k \in 0 .. 6}
  IN CHOOSE c \in doubled : /\ DivCeil(total, c) <= MaxParts
                            /\ \A d \in doubled : d < c => DivCeil(total, d) > MaxParts
Chunk == ChunkSizeFor(haul.size, opts.chunk)
Parts == DivCeil(haul.size, Chunk)
InParts == haul.size >= opts.threshold

Over(code) == haulAt' = "over" /\ haulCode' = code
Fails == Over(1) /\ UNCHANGED <<creating, kept, landed>>
Begins(way) == haulAt = "begin" /\ haul.way = way

(* put_object, and `cp - s3://...`: one request. *)
PutObject ==
  /\ (Begins("put") /\ ~InParts) \/ Begins("stdin")
  /\ \/ Fails
     \/ landed' = <<Object(ObjectHeaders)>> /\ Over(0) /\ UNCHANGED <<creating, kept>>
  /\ UNCHANGED <<haul, flagsLeft, opts>>

(* A mutant: what describes an object goes with the parts. *)
BeginUploadBare ==
  /\ Begins("put") /\ InParts
  /\ \/ Fails
     \/ kept' = <<Object(SseHeaders)>> /\ haulAt' = "parts" /\ UNCHANGED <<creating, landed, haulCode>>
  /\ UNCHANGED <<haul, flagsLeft, opts>>
BeginUpload ==
  /\ Begins("put") /\ InParts
  /\ \/ Fails
     \/ kept' = <<Object(ObjectHeaders)>> /\ haulAt' = "parts" /\ UNCHANGED <<creating, landed, haulCode>>
  /\ UNCHANGED <<haul, flagsLeft, opts>>

(* get_object, and a range of one. *)
GetObject ==
  /\ Begins("get")
  /\ \/ Fails
     \/ Reads(SseHeaders) /\ landed' = <<haul.from>> /\ Over(0) /\ UNCHANGED <<creating, kept>>
  /\ UNCHANGED <<haul, flagsLeft, opts>>

(* copy_object: also what sync copies, however large that is. *)
CopyObject ==
  /\ Begins("copy") /\ (~InParts \/ haul.verb = "sync")
  /\ \/ Fails
     \/ /\ haul.from.key = {}
        /\ landed' = <<CopiedObject(ObjectHeaders)>> /\ Over(0) /\ UNCHANGED <<creating, kept>>
  /\ UNCHANGED <<haul, flagsLeft, opts>>

(* multipart_copy: what the source is described by, then the upload.       *)
HeadSource ==
  /\ Begins("copy") /\ InParts /\ haul.verb # "sync"
  /\ \/ Fails
     \/ /\ Reads(SseHeaders)
        /\ creating' = CopyHeaders(ObjectHeaders, haul.from.attrs) /\ haulAt' = "create"
        /\ UNCHANGED <<kept, landed, haulCode>>
  /\ UNCHANGED <<haul, flagsLeft, opts>>
CreateCopy ==
  /\ haulAt = "create"
  /\ \/ Fails
     \/ kept' = <<Object(creating)>> /\ haulAt' = "parts" /\ UNCHANGED <<creating, landed, haulCode>>
  /\ UNCHANGED <<haul, flagsLeft, opts>>

(* upload_part sends no header; a part that is copied has the customer's   *)
(* key for the destination, and none to read the source with.              *)
PartAccepted ==
  IF haul.way = "put" THEN kept[1].key = {}
  ELSE KeyOf(SseHeaders) = kept[1].key /\ haul.from.key = {}
SendParts ==
  /\ haulAt = "parts"
  /\ \/ haulAt' = "abort"
     \/ PartAccepted /\ haulAt' = "complete"
  /\ UNCHANGED <<haul, flagsLeft, opts, creating, kept, landed, haulCode>>

CompleteUpload ==
  /\ haulAt = "complete"
  /\ \/ Fails
     \/ landed' = kept /\ kept' = <<>> /\ Over(0) /\ UNCHANGED creating
  /\ UNCHANGED <<haul, flagsLeft, opts>>
AbortUpload ==
  /\ haulAt = "abort"
  /\ kept' \in {kept, <<>>} /\ Over(1)
  /\ UNCHANGED <<haul, flagsLeft, opts, creating, landed>>

AttributesNext ==
  \/ ParseFlag \/ EndFlags \/ PutObject \/ BeginUpload \/ GetObject \/ CopyObject
  \/ HeadSource \/ CreateCopy \/ SendParts \/ CompleteUpload \/ AbortUpload
AttributesOver == haulAt = "over"

-----------------------------------------------------------------------------
(* The last word of the line on an option that takes a value.              *)
LastOf(flag) == {k \in DOMAIN haul.line : /\ haul.line[k].flag = flag
                                          /\ \A j \in k + 1 .. Len(haul.line) : haul.line[j].flag # flag}
SaidOf(flag) ==
  {LET next == IF k < Len(haul.line) /\ haul.line[k].inline = <<>>
               THEN {haul.line[j].word : j \in {i \in {k + 1} : haul.line[i].flag = "word"}}
               ELSE ToSet(haul.line[k].inline)
   IN IF next = {} THEN ToSet(Usual[flag]) ELSE next : k \in LastOf(flag)}
Said(flag) == UNION SaidOf(flag)
SealedAs(object) ==
  IF Said("sse-c") # {} THEN Said("sse-c-key") # {} => object.key = Said("sse-c-key")
  ELSE object.key = {}

(* An object that was uploaded is described as the line says, the last     *)
(* word on each option counting, whether it went whole, in parts or from   *)
(* standard input; it never lies there without the key that was asked for. *)
(* A copy that is told nothing is described as its source, whatever its    *)
(* size.  Parts are no more than S3 takes, none of them empty, and a pool  *)
(* has workers.                                                            *)
(*                                                                         *)
(* Two things that docs/divergences.md:1840-1858 has as done are not       *)
(* claimed, as the code does not do them.  An upload in parts with a       *)
(* customer's key is not said to succeed: no part carries the key, so S3   *)
(* refuses each (PartAccepted) and no object of that kind ever lands.  Of  *)
(* --sse-c without --sse-c-key nothing is said of the key: the flag is     *)
(* ignored and the object lands without one.                               *)
AttributesHold ==
  /\ landed # <<>> /\ haul.way \in {"put", "stdin"} =>
       /\ SealedAs(landed[1])
       /\ \A flag \in Carried \ {"metadata-directive"} :
            {h[3] : h \in Named(landed[1].attrs, flag)} = Said(flag)
       /\ {h[3] : h \in Named(landed[1].attrs, "content-type")} =
            (CASE Said("content-type") # {} -> Said("content-type")
               [] Said("content-type") = {} /\ Last(haul.key) \in DOMAIN MimeTypes ->
                    {MimeTypes[Last(haul.key)]}
               [] OTHER -> {"binary/octet-stream"})
       /\ {<<h[2], h[3]>> : h \in {x \in landed[1].attrs : x[1] = "meta"}} = opts.metadata
  /\ landed # <<>> /\ haul.way = "copy" =>
       /\ SealedAs(landed[1])
       /\ opts.metadata = {} /\ (\A flag \in Inherited \cup {"content-type", "metadata-directive"} :
                                   Said(flag) = {}) =>
            {h \in landed[1].attrs : Described(h)} = {h \in haul.from.attrs : Described(h)}
  /\ haulAt = "over" => (haulCode = 0 <=> landed # <<>> \/ ("dryrun" \in opts.on /\ haul.way # "stdin"))
  /\ haulAt = "parts" => /\ Parts \in 1 .. MaxParts /\ Chunk >= MinChunk
                         /\ (Parts - 1) * Chunk < haul.size /\ haul.size <= Parts * Chunk
  /\ opts.workers # "zero"
===============================================================================
