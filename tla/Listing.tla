------------------------------- MODULE Listing -------------------------------
(***************************************************************************)
(* Listing the keys under a prefix: `shallow`, `sequential`, `deep` and    *)
(* `deep_streaming` of s3/list.rs, and the command that shows a listing,   *)
(* s3/ls.rs.                                                               *)
(*                                                                         *)
(* Keys are numbers in key order.  Place[k] is the sub-prefix key k is     *)
(* under, 0 for one directly under the prefix; the keys of one sub-prefix  *)
(* are not interrupted by those of another.  The service (external)        *)
(* answers a page at a time, from the last key of the page before, as the  *)
(* bucket is at that moment.  Other clients put and delete keys meanwhile. *)
(* A call that is answered is answered with a page: an answer below 400    *)
(* that is none, which the code takes for the end of the listing (a bare   *)
(* 301, or an <Error>: conn.rs:237, list.rs:79-92, 103-114), is left out,  *)
(* and nothing said here holds of it.                                      *)
(***************************************************************************)
EXTENDS Integers, Sequences, FiniteSets, SequencesExt, FiniteSetsExt

CONSTANTS
  Place,              (* the sub-prefix of each key                        *)
  Buckets,            (* the keys there may be to begin with               *)
  LsLines,            (* the command lines: [verb, paths, tokens]; "plan"  *)
                      (* is a transfer's own listing, and has neither      *)
  ListPageSize,       (* entries in a page                                 *)
  Workers,            (* shards listed at a time                           *)
  MaxChanges          (* bound: changes of the bucket while it is listed   *)

Keys == DOMAIN Place
Top == 0
Shards == {Place[k] : k \in Keys} \ {Top}
MinShards == 2        (* MIN_SHARDS                                        *)
All == 99             (* the shard of a listing that is not split          *)

VARIABLES
  listAt,             (* "begin", "refused", "buckets", "level",           *)
                      (* "shallow", "chunk", "whole", "listed", "failed"   *)
  lsLine,             (* the command line                                  *)
  bucket,             (* the keys there are; the buckets, for ls without   *)
                      (* a path                                            *)
  cursor,             (* how far each walk has come                        *)
  direct,             (* the keys directly under the prefix                *)
  prefixes,           (* the shards not yet begun                          *)
  walking,            (* the shards of the chunk in hand still walked      *)
  found,              (* what each of their walks has collected            *)
  listed,             (* `results`: the entries of the walks that ended    *)
  listFailure,        (* the first failure of a walk                       *)
  emitted,            (* what the caller was given                         *)
  lsDirs,             (* the sub-prefixes shown                            *)
  lsNothing,          (* empty_first_page                                  *)
  changes,            (* bound: changes so far                             *)
  ever,               (* history: the keys that were there at some moment  *)
  always              (* history: the keys that were there all the time    *)

shownVars == <<emitted, lsDirs, lsNothing>>
topVars == <<listAt, lsLine, direct, prefixes, shownVars>>
walkVars == <<cursor, walking, found, listed, listFailure>>
bucketVars == <<bucket, changes, ever, always>>
listVars == <<topVars, walkVars, bucketVars>>

(* A set of keys in key order. *)
Smaller(x, s) == {y \in s : y < x}
Sorted(s) ==
  [i \in 1 .. Cardinality(s) |-> CHOOSE x \in s : Cardinality(Smaller(x, s)) = i - 1]
FirstOnes(s, n) == {x \in s : Cardinality(Smaller(x, s)) < n}

ListInit ==
  /\ lsLine \in LsLines
  /\ listAt = IF lsLine.verb = "plan" THEN "shallow" ELSE "begin"
  /\ bucket \in Buckets
  /\ cursor = [s \in Shards \cup {Top, All} |-> 0]
  /\ direct = {}
  /\ prefixes = {}
  /\ walking = {}
  /\ found = [s \in Shards \cup {All} |-> {}]
  /\ listed = {}
  /\ listFailure = FALSE
  /\ emitted = <<>> /\ lsDirs = <<>> /\ lsNothing = FALSE
  /\ changes = 0
  /\ ever = bucket
  /\ always = bucket

-----------------------------------------------------------------------------
(* Options::parse.  A token is a flag, with or without a value of its own, *)
(* or a word; a flag that takes a value takes the word that follows it.    *)
Valued == {"page-size", "request-payer", "bucket-name-prefix", "bucket-region"}
Switches == {"recursive", "human-readable", "summarize"}
Token(i) == lsLine.tokens[i]
Spoken == DOMAIN lsLine.tokens
IsWord(i) == i \in Spoken /\ Token(i).flag = "none"
Taken(i) ==                     (* the word belongs to the flag before it  *)
  IsWord(i) /\ i > 1 /\ Token(i - 1).flag \in Valued /\ Token(i - 1).value = "none"
ValueOf(i) ==
  IF Token(i).value # "none" THEN Token(i).value
  ELSE IF IsWord(i + 1) THEN Token(i + 1).value ELSE "none"
Given(flag) == {i \in Spoken : Token(i).flag = flag}
Numbers == {"1", "3"}
NumberOf(word) == IF word = "1" THEN 1 ELSE 3

UsageCode == 252
GeneralCode == 255
LsRefusal ==
  CASE Len(lsLine.paths) > 1 -> UsageCode
    [] \E i \in Given("page-size") : ValueOf(i) \notin Numbers -> GeneralCode
    [] \E i \in Spoken : Token(i).flag \notin Valued \cup Switches /\ ~Taken(i) -> UsageCode
    [] OTHER -> 0

(* A call of the service returns a thousand entries, but where --page-size *)
(* is passed on.                                                           *)
PageSize ==
  LET given == Given("page-size")
  IN  IF listAt \in {"buckets", "level"} /\ given # {}
      THEN NumberOf(ValueOf(Max(given))) ELSE ListPageSize

Path == IF lsLine.paths = <<>> THEN "none" ELSE lsLine.paths[1]

LsBegin ==
  /\ listAt = "begin"
  /\ listAt' = IF LsRefusal # 0 THEN "refused"
               ELSE IF Path = "none" THEN "buckets"
               ELSE IF Given("recursive") # {} THEN "shallow" ELSE "level"
  /\ UNCHANGED <<lsLine, direct, prefixes, shownVars, walkVars, bucketVars>>

-----------------------------------------------------------------------------
(* A page of rows after a walk's cursor, and whether more follow. *)
Remain(rows, walk) == {r \in rows : r > cursor[walk]}
PageAfter(rows, walk) == FirstOnes(Remain(rows, walk), PageSize)
IsLast(rows, walk, page) == page = Remain(rows, walk)
Advance(walk, page) ==
  cursor' = [cursor EXCEPT ![walk] = Max(page \cup {@})]

(* A row of a listing with a delimiter: a key directly under the prefix,   *)
(* or a sub-prefix, which stands where the last of its keys would.         *)
RowOf(k) == IF Place[k] = Top THEN k ELSE Max({j \in Keys : Place[j] = Place[k]})

(* A mutant: a level that holds nothing but sub-prefixes counts as empty. *)
FoundNothingDirect(tops, subs) == tops = {}
FoundNothing(tops, subs) == tops = {} /\ subs = {}

(* list_buckets and list_objects: a page is shown as it comes.  Only the   *)
(* first page of a bucket can be the one that found nothing.               *)
LevelPage ==
  LET rows == IF listAt = "buckets" THEN bucket ELSE {RowOf(k) : k \in bucket}
      page == PageAfter(rows, Top)
      tops == {r \in page : listAt = "buckets" \/ Place[r] = Top}
      subs == Sorted({Place[r] : r \in page \ tops})
  IN  /\ listAt \in {"buckets", "level"}
      /\ emitted' = emitted \o Sorted(tops)
      /\ lsDirs' = lsDirs \o subs
      /\ lsNothing' = (lsNothing \/ (/\ listAt = "level" /\ cursor[Top] = 0
                                    /\ FoundNothing(tops, Range(subs))))
      /\ Advance(Top, page)
      /\ listAt' = IF IsLast(rows, Top, page) THEN "listed" ELSE listAt
      /\ UNCHANGED <<lsLine, direct, prefixes, walking, found, listed, listFailure, bucketVars>>

Chunk(s) == FirstOnes(s, Workers)

(* The walks of the next chunk of shards begin. *)
BeginChunk(left) ==
  /\ walking' = Chunk(left)
  /\ prefixes' = left \ Chunk(left)
  /\ listAt' = "chunk"

ShallowPage ==
  LET rows == {RowOf(k) : k \in bucket}
      page == PageAfter(rows, Top)
      tops == {p \in page : Place[p] = Top}
      subs == {Place[p] : p \in page \ tops} \cup prefixes
  IN  /\ listAt = "shallow"
      /\ Advance(Top, page)
      /\ IF ~IsLast(rows, Top, page)
         THEN /\ direct' = direct \cup tops
              /\ prefixes' = subs
              /\ UNCHANGED <<listAt, walking>>
         ELSE IF Cardinality(subs) < MinShards
         THEN /\ walking' = {All}
              /\ direct' = {} /\ prefixes' = {}
              /\ listAt' = "whole"
         ELSE /\ direct' = direct \cup tops
              /\ BeginChunk(subs)
      /\ UNCHANGED <<lsLine, found, listed, listFailure, shownVars, bucketVars>>

(* A failing call of a listing in one place is the listing's failure.      *)
ShallowFails ==
  /\ listAt \in {"shallow", "level", "buckets"}
  /\ listAt' = "failed"
  /\ UNCHANGED <<lsLine, direct, prefixes, shownVars, walkVars, bucketVars>>

(* One page of a walk; after the last its entries join the others'. *)
WalkPage(s) ==
  LET rows == {k \in bucket : s = All \/ Place[k] = s}
      page == PageAfter(rows, s)
  IN  /\ s \in walking
      /\ Advance(s, page)
      /\ found' = [found EXCEPT ![s] = @ \cup page]
      /\ IF IsLast(rows, s, page)
         THEN /\ listed' = listed \cup found'[s]
              /\ walking' = walking \ {s}
         ELSE UNCHANGED <<listed, walking>>
      /\ UNCHANGED <<topVars, listFailure, bucketVars>>

WalkFails(s) ==
  /\ s \in walking
  /\ listFailure' = TRUE
  /\ walking' = walking \ {s}
  /\ UNCHANGED <<topVars, cursor, found, listed, bucketVars>>

(* A mutant: only the children before the whole chunk are taken along. *)
WithinBefore(batch) ==
  {d \in direct : batch # {} /\ d < Min(batch \cup {Len(Place)})}

(* The held-aside children within the range of a chunk.  An empty chunk    *)
(* consumes none.                                                          *)
Within(batch) == {d \in direct : batch # {} /\ d <= Max(batch \cup {0})}

(* A chunk's walks have ended and been joined.  The stream gives it away   *)
(* at once, merged with the children in its range; deep keeps everything   *)
(* to the end, and what sorts after the last shard comes last in both.     *)
(* The walk that is not split is given away even if it found nothing.      *)
Streaming == lsLine.verb = "ls"
JoinChunk ==
  /\ listAt \in {"chunk", "whole"}
  /\ walking = {}
  /\ IF listFailure THEN /\ listAt' = "failed"
                         /\ UNCHANGED <<walking, prefixes, direct, listed, emitted>>
     ELSE LET batch == IF Streaming THEN Sorted(listed \cup Within(listed)) ELSE <<>>
              kept == IF Streaming THEN {} ELSE listed
              aside == IF Streaming THEN direct \ Within(listed) ELSE direct
          IN  IF prefixes # {}
              THEN /\ emitted' = emitted \o batch
                   /\ listed' = kept
                   /\ direct' = aside
                   /\ BeginChunk(prefixes)
              ELSE /\ emitted' = emitted \o batch \o Sorted(kept \cup aside)
                   /\ listed' = {} /\ direct' = {}
                   /\ listAt' = "listed"
                   /\ UNCHANGED <<walking, prefixes>>
  /\ lsNothing' = (listAt = "whole" /\ ~listFailure /\ listed = {})
  /\ UNCHANGED <<lsLine, lsDirs, cursor, found, listFailure, bucketVars>>

(* Another client puts or deletes a key. *)
Change(k) ==
  /\ listAt \in {"buckets", "level", "shallow", "chunk", "whole"}
  /\ changes < MaxChanges
  /\ changes' = changes + 1
  /\ bucket' = IF k \in bucket THEN bucket \ {k} ELSE bucket \cup {k}
  /\ ever' = ever \cup bucket'
  /\ always' = always \cap bucket'
  /\ UNCHANGED <<topVars, walkVars>>

Walk == \E s \in Shards \cup {All} : WalkPage(s) \/ WalkFails(s)
ListStep == LsBegin \/ LevelPage \/ ShallowPage \/ ShallowFails \/ Walk \/ JoinChunk
ListNext == ListStep \/ \E k \in Keys : Change(k)

ListSpec == ListInit /\ [][ListNext]_listVars

(* Every call of the service is answered or fails. *)
ListFairSpec == ListSpec /\ WF_listVars(ListStep)

-----------------------------------------------------------------------------
(* The code ls ends with: 1, silently, where a key was given and nothing   *)
(* was found on the first page.                                            *)
ServiceCode == 254
LsCode ==
  CASE listAt = "refused" -> LsRefusal
    [] listAt = "failed" -> ServiceCode
    [] listAt = "listed" -> IF Path = "key" /\ lsNothing THEN 1 ELSE 0
    [] OTHER -> -1

(* However the walks of the shards interleave, and whatever other clients  *)
(* do meanwhile: the caller is given keys in key order, each once, that    *)
(* were there at some moment of the listing; and one that ends without an  *)
(* error gave every key that was there all along, or, of one level, the    *)
(* sub-prefix it is under.  ls is used to ask whether a prefix holds       *)
(* anything: 1 means that nothing was there all along, and 0 that there    *)
(* was something at some moment.                                           *)
ListedInOrder ==
  /\ \A i, j \in DOMAIN emitted : i < j => emitted[i] < emitted[j]
  /\ \A i, j \in DOMAIN lsDirs : i < j => lsDirs[i] < lsDirs[j]
  /\ Range(emitted) \subseteq ever /\ Range(lsDirs) \subseteq {Place[k] : k \in ever}
  /\ listAt = "listed" =>
       \A k \in always : k \in Range(emitted) \/ Place[k] \in Range(lsDirs)
  /\ LsCode = 1 => always = {}
  /\ (LsCode = 0 /\ Streaming /\ Path = "key") => ever # {}

(* The listing ends, although the bucket changes under its pages. *)
ListOver == listAt \in {"refused", "listed", "failed"}
===============================================================================
