------------------------------- MODULE Transfer -------------------------------
(***************************************************************************)
(* cp, mv and rm of the s3 tree, mb and rb (transfer.rs, bucket.rs): what  *)
(* is found at the source, what it is called at the destination, what is   *)
(* left there when some of it fails, and the code the command ends with.   *)
(*                                                                         *)
(* A name is what lies between slashes, so that "p/" is <<"p", "">> and    *)
(* the name of a bucket's root is <<"">>.  An object is <<bucket, key>>.   *)
(* The objects are small: parts, ranges and retries are the subject of     *)
(* MultipartUpload, Download and CopyMove.  As there, an answer below 400  *)
(* counts as a success, and one that did nothing (a redirect that was not  *)
(* followed, an error sent as 200) is called hollow.                       *)
(***************************************************************************)
EXTENDS Integers, Sequences, SequencesExt, FiniteSets, TLC

CONSTANTS
  Scripts,            (* commands to be run one after another              *)
  Disks, Stores,      (* what they may find, locally and in S3             *)
  Buckets,            (* the buckets that exist                            *)
  MaxLinks,           (* links the system follows in one path              *)
  MaxHollow           (* bound: of a command's items, hollow answers to    *)

VARIABLES
  xferAt,             (* "begin", "scan", "move", "remove", "bucket"       *)
  script,             (* the commands that are left                        *)
  disk,               (* local paths: [kind, holds]                        *)
  store,              (* objects, and what they hold                       *)
  owned,              (* the buckets there are                             *)
  scanning,           (* directories yet to be listed                      *)
  pairs,              (* sources and destinations yet to be transferred    *)
  lost,               (* the pairs that failed, and sources not removed    *)
  shifted,            (* the sources of a move that were copied            *)
  skips,              (* how many warnings the walk gave                   *)
  hollow,             (* history: hollow answers, by request and source    *)
  atStart,            (* disk, store and owned when the command began      *)
  endings             (* the commands that are over                        *)

xferVars == <<xferAt, script, disk, store, owned, scanning, pairs, lost, shifted,
              skips, hollow, atStart, endings>>

Order == Head(script)
Empty == <<"">>
Marker == "marker"              (* the contents of a folder's own object   *)

XferInit ==
  /\ xferAt = "begin" /\ script \in Scripts
  /\ disk \in Disks /\ store \in Stores /\ owned = Buckets
  /\ scanning = <<>> /\ pairs = {} /\ lost = {} /\ shifted = {} /\ skips = 0 /\ hollow = {}
  /\ atStart = <<disk, store, owned>> /\ endings = <<>>

-----------------------------------------------------------------------------
(* Names. *)
Trimmed(name) ==                (* without the slashes at the end          *)
  LET n == Cardinality({i \in DOMAIN name : \E k \in i .. Len(name) : name[k] # ""})
  IN  IF n = 0 THEN Empty ELSE SubSeq(name, 1, n)
FromFirst(name) ==              (* without the slashes at the beginning    *)
  LET n == Cardinality({i \in DOMAIN name : \A k \in 1 .. i : name[k] = ""})
  IN  IF n = Len(name) THEN Empty ELSE SubSeq(name, n + 1, Len(name))

DirPrefix(key) == IF key = Empty \/ Last(key) = "" THEN key ELSE Append(key, "")
(* A mutant: a prefix that ends in a slash gets another. *)
JoinKeyTwice(prefix, relative) ==
  IF relative = Empty THEN prefix
  ELSE IF prefix = Empty THEN relative ELSE prefix \o relative
JoinKey(prefix, relative) ==
  IF relative = Empty THEN prefix
  ELSE IF prefix = Empty THEN relative ELSE Trimmed(prefix) \o relative
Under(key, prefix) ==
  prefix = Empty \/ (Len(key) >= Len(prefix) /\ SubSeq(key, 1, Len(prefix) - 1) = Front(prefix))
Beyond(key, prefix) == IF prefix = Empty THEN key ELSE SubSeq(key, Len(prefix), Len(key))

(* The file system sees no empty names. *)
Local(name) == SelectSeq(name, LAMBDA part : part # "")

-----------------------------------------------------------------------------
(* Where a path leads, through so many links at most: <<"">> is nowhere.   *)
RECURSIVE Follow(_, _)
Follow(path, links) ==
  LET at == {n \in DOMAIN path : /\ SubSeq(path, 1, n) \in DOMAIN disk
                                 /\ disk[SubSeq(path, 1, n)].kind = "link"}
  IN  IF at = {} THEN path
      ELSE IF links = 0 THEN Empty
      ELSE Follow(disk[SubSeq(path, 1, Min(at))].holds \o SubSeq(path, Min(at) + 1, Len(path)),
                  links - 1)
Real(path) == Follow(path, MaxLinks)
Exists(path) == Real(path) \in DOMAIN disk
KindOf(path) == disk[Real(path)].kind
HeldBy(path) == disk[Real(path)].holds
Children(dir) ==
  LET real == Real(dir)
  IN  {Append(dir, Last(p)) : p \in {q \in DOMAIN disk : q # <<>> /\ Front(q) = real}}
IsLink(entry) == disk[Append(Real(Front(entry)), Last(entry))].kind = "link"

IsDir(path) == Exists(path) /\ KindOf(path) \in {"dir", "sealed"}

(* is_readable_file opens it, which works for a directory too. *)
Opens(path) == KindOf(path) \in {"file", "dir"}

-----------------------------------------------------------------------------
(* The end of a command, and the beginning of the next one. *)
EndedAfter(code, answer) ==
  /\ endings' = Append(endings, [order |-> Order, code |-> code, lost |-> lost, skips |-> skips,
                             hollow |-> hollow \cup answer, disk |-> atStart[1],
                             store |-> atStart[2], owned |-> atStart[3]])
  /\ script' = Tail(script) /\ xferAt' = "begin" /\ scanning' = <<>> /\ pairs' = {}
  /\ lost' = {} /\ shifted' = {} /\ skips' = 0 /\ hollow' = {}
  /\ atStart' = <<disk', store', owned'>>
Ended(code) == EndedAfter(code, {})
End(code) == UNCHANGED <<disk, store, owned>> /\ Ended(code)
OnTo(step) ==
  /\ xferAt' = step
  /\ UNCHANGED <<script, disk, store, owned, scanning, lost, shifted, skips, atStart, endings>>
Onwards(step) == OnTo(step) /\ UNCHANGED hollow

(* The one request of the command, answered hollowly: it ends well. *)
Hollow(request) == {<<request, <<>>>>}
EndsHollow(request) == UNCHANGED <<disk, store, owned>> /\ EndedAfter(0, Hollow(request))

UsageCode == 252
PanicCode == 101
Code == IF lost # {} THEN 1 ELSE IF skips > 0 THEN 2 ELSE 0

(* With everything planned, a dry run says so and is over. *)
Deletes == Order.verb \in {"rm", "rb"}
PlannedAfter(found, answer) ==
  IF Order.dryrun THEN UNCHANGED <<disk, store, owned>> /\ EndedAfter(Code, answer)
  ELSE pairs' = found /\ hollow' = answer /\ OnTo(IF Deletes THEN "remove" ELSE "move")
Planned(found) == PlannedAfter(found, {})

Included(name) == name \notin Order.excludes

(* run: which of the two sides is where, and whether what is to be sent    *)
(* exists.                                                                 *)
Sides == <<Order.from.at, Order.to.at>>
Path == Order.from.name
Key == Order.to.name
Starts(verbs) == xferAt = "begin" /\ script # <<>> /\ Order.verb \in verbs

Refused ==
  /\ Starts({"cp", "mv", "rm"})
  /\ \/ Order.from.at = "local" /\ ~Exists(Path) /\ End(255)
     \/ /\ Order.from.at = "local" => Exists(Path)
        /\ \/ Sides \in {<<"local", "local">>, <<"local", "stream">>, <<"stream", "local">>,
                          <<"stream", "stream">>}
           \/ Order.recursive /\ Sides \in {<<"stream", "s3">>, <<"s3", "stream">>}
        /\ End(UsageCode)

(* What a key of a bucket answers, and what the bucket does: its listing.  *)
Answers(object) == object \in DOMAIN store \/ object[2] = Empty
Holds(object) == IF object[2] = Empty THEN "listing" ELSE store[object]
(* A bucket that is put again is as it was. *)
Stored(object, contents) ==
  IF object[2] = Empty THEN store ELSE (object :> contents) @@ store

(* `cp - s3://...` and `cp s3://... -`: one request, also in a dry run.    *)
Stream ==
  /\ Starts({"cp", "mv"}) /\ ~Order.recursive
  /\ \/ Sides = <<"stream", "s3">> /\ End(1)
     \/ /\ Sides = <<"stream", "s3">>
        /\ store' = Stored(<<Order.to.bucket, Key>>, "input")
        /\ UNCHANGED <<disk, owned>> /\ Ended(0)
     \/ Sides = <<"s3", "stream">> /\ End(1)
     \/ Sides = <<"s3", "stream">> /\ Answers(<<Order.from.bucket, Path>>) /\ End(0)
     \/ Sides \in {<<"stream", "s3">>, <<"s3", "stream">>} /\ EndsHollow("stream")

-----------------------------------------------------------------------------
Uploads == Sides = <<"local", "s3">>

(* scan_local of one file. What cannot be opened leaves no item, and       *)
(* upload takes the first.                                                 *)
UploadOne ==
  /\ Starts({"cp", "mv"}) /\ Uploads /\ ~Order.recursive /\ Exists(Path)
  /\ IF ~Opens(Path) THEN End(PanicCode)
     ELSE Planned({<<Path, <<Order.to.bucket,
                     IF Last(Key) = "" THEN JoinKey(Key, <<Last(Path)>>) ELSE Key>>>>})

BeginScan ==
  /\ Starts({"cp", "mv"}) /\ Uploads /\ Order.recursive /\ Exists(Path)
  /\ xferAt' = "scan" /\ scanning' = <<Path>>
  /\ UNCHANGED <<script, disk, store, owned, pairs, lost, shifted, skips, hollow, atStart,
                 endings>>

(* One directory of the walk: what is a directory is walked later, what is *)
(* readable is found, and the rest is warned of, but for links that lead   *)
(* nowhere.                                                                *)
ScanDir ==
  LET dir == Last(scanning)
      seen == {e \in Children(dir) : (IsLink(e) => Order.follow) /\ Exists(e)}
      of(kinds) == {e \in seen : KindOf(e) \in kinds}
      listed == Exists(dir) /\ KindOf(dir) = "dir"
      inside == SubSeq(Last(scanning), Len(Path) + 1, Len(Last(scanning)))
  IN  /\ xferAt = "scan" /\ scanning # <<>>
      /\ IF listed
         THEN /\ scanning' = Front(scanning) \o SetToSeq(of({"dir", "sealed"}))
              /\ pairs' = pairs \cup
                   {<<e, <<Order.to.bucket, JoinKey(Key, Append(inside, Last(e)))>>>> : e \in of({"file"})}
              /\ skips' = skips + Cardinality(of({"locked", "fifo"}))
         ELSE scanning' = Front(scanning) /\ skips' = skips + 1 /\ UNCHANGED pairs
      /\ UNCHANGED <<xferAt, script, disk, store, owned, lost, shifted, hollow, atStart, endings>>

EndScan ==
  /\ xferAt = "scan" /\ scanning = <<>>
  /\ Planned({pair \in pairs : Included(pair[1])})

-----------------------------------------------------------------------------
(* scan_s3: the objects under a prefix, but for the folders' own.          *)
Relative(key, prefix) == FromFirst(Beyond(key, prefix))
Found(bucket, prefix) ==
  {key \in {o[2] : o \in {q \in DOMAIN store : q[1] = bucket}} :
     /\ Under(key, prefix) /\ Included(key)
     /\ ~(Last(key) = "" /\ store[<<bucket, key>>] = Marker)}

(* Where an object goes: to a local path, or to a key.                     *)
Target(key) ==
  LET relative == Relative(key, DirPrefix(Path))
      named == Last(Key) = "" \/ IsDir(Local(Key))
  IN  CASE Order.to.at = "s3" /\ Order.recursive -> <<Order.to.bucket, JoinKey(Key, relative)>>
        [] Order.to.at = "s3" -> <<Order.to.bucket, Key>>
        [] Order.recursive -> Trimmed(Key) \o relative
        [] named -> Append(Trimmed(Key), Last(key))
        [] OTHER -> Key

(* download, copy and remove: a recursive one lists, and one of a single   *)
(* object asks for its size, but for rm.  A copy passes over keys that end *)
(* in a slash.  A hollow listing lists nothing, and a hollow HEAD says a   *)
(* size of nothing.                                                        *)
Keys ==
  IF Order.recursive THEN Found(Order.from.bucket, DirPrefix(Path)) ELSE {Path}
Moves ==
  {<<<<Order.from.bucket, k>>, Target(k)>> : k \in {q \in Keys : Order.to.at = "s3" => Last(q) # ""}}
Removes == {<<<<Order.from.bucket, k>>, <<>>>> : k \in Keys}

Look ==
  /\ Starts({"cp", "mv"}) /\ Sides \in {<<"s3", "local">>, <<"s3", "s3">>}
  /\ \/ IF Order.recursive \/ Answers(<<Order.from.bucket, Path>>) THEN Planned(Moves) ELSE End(1)
     \/ IF Order.recursive THEN PlannedAfter({}, Hollow("list")) ELSE PlannedAfter(Moves, Hollow("head"))
LookToRemove ==
  /\ Starts({"rm"}) /\ Order.from.at = "s3"
  /\ Planned(Removes) \/ (Order.recursive /\ PlannedAfter({}, Hollow("list")))
ListingFails ==
  Starts({"cp", "mv", "rm"}) /\ Order.recursive /\ Order.from.at = "s3" /\ Sides[2] # "stream" /\ End(1)

-----------------------------------------------------------------------------
Settled(pair) == pairs' = pairs \ {pair}
Fail(pair) ==
  /\ lost' = lost \cup {pair}
  /\ UNCHANGED <<disk, store, shifted, hollow>>
Answered(request, source) ==
  /\ Cardinality(hollow \ Hollow("head")) < MaxHollow
  /\ hollow' = hollow \cup {<<request, source>>}

(* put_object, or the parts of it. *)
Put(pair) ==
  /\ Uploads /\ Exists(pair[1]) /\ KindOf(pair[1]) = "file"
  /\ \/ store' = (pair[2] :> HeldBy(pair[1])) @@ store /\ UNCHANGED hollow
     \/ Answered("send", pair[1]) /\ UNCHANGED store
  /\ UNCHANGED <<disk, lost, shifted>>

(* get_object: directories are created down to the file, unless a file is  *)
(* in the way.  The file gets the document of a hollow answer.             *)
Parents(path) == {SubSeq(path, 1, n) : n \in 1 .. Len(path) - 1}
MakeDirs(path) ==
  [p \in {q \in Parents(path) : ~Exists(q)} |-> [kind |-> "dir", holds |-> <<>>]] @@ disk
Document == "an answer"
Fetched(pair, contents) ==
  LET path == Local(pair[2])
  IN  /\ \A p \in Parents(path) : Exists(p) => KindOf(p) = "dir"
      /\ IF Last(pair[2]) = "" \/ IsDir(path)
         THEN disk' = MakeDirs(path) /\ lost' = lost \cup {pair}
         ELSE /\ disk' = (path :> [kind |-> "file", holds |-> contents]) @@ MakeDirs(path)
              /\ UNCHANGED lost
Get(pair) ==
  /\ Sides = <<"s3", "local">>
  /\ \/ Answers(pair[1]) /\ Fetched(pair, Holds(pair[1])) /\ UNCHANGED hollow
     \/ Fetched(pair, Document) /\ Answered("fetch", pair[1])
  /\ UNCHANGED <<store, shifted>>

(* copy: an object is not copied to itself.  What is sent to a bucket's    *)
(* root makes the bucket, which is there.                                  *)
CopyOver(pair) ==
  /\ Sides = <<"s3", "s3">> /\ pair[1] # pair[2]
  /\ \/ /\ pair[1] \in DOMAIN store /\ store' = Stored(pair[2], store[pair[1]])
        /\ UNCHANGED hollow
     \/ Answered("copy", pair[1]) /\ UNCHANGED store
  /\ shifted' = IF Order.verb = "mv" THEN shifted \cup {pair[1]} ELSE shifted
  /\ UNCHANGED <<disk, lost>>

Item ==
  /\ xferAt = "move"
  /\ \E pair \in pairs :
       Settled(pair) /\ (Put(pair) \/ Get(pair) \/ CopyOver(pair) \/ Fail(pair))
  /\ UNCHANGED <<xferAt, script, owned, scanning, skips, atStart, endings>>

(* With nothing left, a move removes what it copied. *)
Transferred ==
  /\ xferAt = "move" /\ pairs = {}
  /\ IF shifted # {} THEN pairs' = {<<o, <<>>>> : o \in shifted} /\ Onwards("remove")
     ELSE End(Code)

(* delete::batched: each key is removed or reported.  The request for the  *)
(* empty key is the one that removes the bucket.  The answer to a batch is *)
(* read for each key; that to a request of its own may be hollow.          *)
EmptyBucket(bucket) == \A o \in DOMAIN store : o[1] # bucket
Gone(object) ==
  IF object[2] = Empty
  THEN /\ EmptyBucket(object[1]) /\ owned' = owned \ {object[1]} /\ UNCHANGED store
  ELSE store' = [o \in DOMAIN store \ {object} |-> store[o]] /\ UNCHANGED owned
OnItsOwn ==
  IF Order.verb = "mv" THEN Cardinality(shifted) = 1
  ELSE Cardinality(pairs) = 1 /\ lost = {} /\ store = atStart[2]
RemoveOne ==
  /\ xferAt = "remove"
  /\ \E pair \in pairs :
       /\ Settled(pair)
       /\ \/ Gone(pair[1]) /\ UNCHANGED <<lost, hollow>>
          \/ lost' = lost \cup {pair} /\ UNCHANGED <<store, owned, hollow>>
          \/ OnItsOwn /\ Answered("delete", pair[1]) /\ UNCHANGED <<lost, store, owned>>
  /\ UNCHANGED <<xferAt, script, disk, scanning, shifted, skips, atStart, endings>>

Removed ==
  /\ xferAt = "remove" /\ pairs = {}
  /\ IF Order.verb # "rb" THEN End(Code)
     ELSE IF lost # {} THEN End(255) ELSE UNCHANGED pairs /\ Onwards("bucket")

(* rb: with --force the objects go first. *)
BeginRb ==
  /\ Starts({"rb"})
  /\ \/ (Path # Empty \/ Order.from.at # "s3") /\ End(UsageCode)
     \/ /\ Path = Empty /\ Order.recursive
        /\ End(255) \/ Planned(Removes) \/ PlannedAfter({}, Hollow("list"))
     \/ Path = Empty /\ ~Order.recursive /\ UNCHANGED pairs /\ Onwards("bucket")

DeleteBucket ==
  /\ xferAt = "bucket"
  /\ \/ End(1)
     \/ /\ EmptyBucket(Order.from.bucket) /\ owned' = owned \ {Order.from.bucket}
        /\ UNCHANGED <<disk, store>> /\ Ended(0)
     \/ EndsHollow("bucket")

(* mb: the bucket is made where it was asked for or not at all, as this    *)
(* client follows no redirect.  A key is passed over.                      *)
Directory == "x--x-s3"
MakeBucket ==
  /\ Starts({"mb"})
  /\ IF Order.from.at # "s3" \/ Order.from.bucket = Directory THEN End(UsageCode)
     ELSE \/ End(1)
          \/ /\ owned' = owned \cup {Order.from.bucket}
             /\ UNCHANGED <<disk, store>> /\ Ended(0)
          \/ EndsHollow("bucket")

XferNext ==
  Refused \/ Stream \/ UploadOne \/ BeginScan \/ ScanDir \/ EndScan \/ Look \/ LookToRemove
  \/ ListingFails \/ Item \/ Transferred \/ RemoveOne \/ Removed \/ BeginRb \/ DeleteBucket
  \/ MakeBucket

Spec == XferInit /\ [][XferNext]_xferVars /\ WF_xferVars(XferNext)

-----------------------------------------------------------------------------
(***************************************************************************)
(* What a command is to do, with names as paths.                           *)
(***************************************************************************)
RECURSIVE FilesIn(_, _)
FilesIn(path, follow) ==
  IF ~Exists(path) THEN {}
  ELSE IF KindOf(path) = "file" THEN {path}
  ELSE IF KindOf(path) # "dir" THEN {}
  ELSE UNION {FilesIn(e, follow) : e \in {c \in Children(path) : follow \/ ~IsLink(c)}}

Rest(name, n) == SubSeq(name, n + 1, Len(name))
KeysIn(h) ==
  LET dir == Trimmed(h.order.from.name)
  IN  {o \in DOMAIN h.store :
         /\ o[1] = h.order.from.bucket
         /\ dir = Empty \/ (Len(o[2]) > Len(dir) /\ SubSeq(o[2], 1, Len(dir)) = dir)
         /\ ~(Last(o[2]) = "" /\ (h.store[o] = Marker \/ h.order.to.at = "s3"))}

(* What is to be where. *)
Wanted(h) ==
  LET to == Local(h.order.to.name)
      from == h.order.from
      want(source, place, contents) == [source |-> source, at |-> place, holds |-> contents]
      below == Len(Local(Trimmed(from.name)))
  IN  {w \in
       (CASE h.order.verb \in {"rm", "rb", "mb"} \/ "stream" \in {from.at, h.order.to.at} -> {}
          [] from.at = "local" /\ h.order.recursive ->
               {want(f, to \o Rest(f, Len(from.name)), HeldBy(f)) :
                f \in FilesIn(from.name, h.order.follow)}
          [] from.at = "local" ->
               {want(f, IF Last(h.order.to.name) = "" THEN Append(to, Last(f)) ELSE to,
                     HeldBy(f)) :
                f \in {from.name} \cap FilesIn(from.name, TRUE)}
          [] h.order.recursive ->
               {want(o, to \o Rest(Local(o[2]), below), h.store[o]) : o \in KeysIn(h)}
          [] OTHER ->
               {want(o, IF h.order.to.at = "local" /\ (Last(h.order.to.name) = "" \/
                             (to \in DOMAIN h.disk /\ h.disk[to].kind \in {"dir", "sealed"}))
                        THEN Append(to, Last(o[2])) ELSE to, h.store[o]) :
                o \in {<<from.bucket, from.name>>} \cap DOMAIN h.store}) :
       h.order.recursive =>
         IF from.at = "local" THEN w.source \notin h.order.excludes
         ELSE w.source[2] \notin h.order.excludes}

Doubled(name) == \E i \in 1 .. Len(name) - 1 : name[i] = ""

(* Are contents at a place?  What is there that was not? *)
ThereLocally(place, contents) == Exists(place) /\ HeldBy(place) = contents
ThereInS3(bucket, place, contents) ==
  \E o \in DOMAIN store : o[1] = bucket /\ Local(o[2]) = place /\ store[o] = contents
There(h, w) ==
  IF h.order.to.at = "local" THEN ThereLocally(w.at, w.holds)
  ELSE ThereInS3(h.order.to.bucket, w.at, w.holds)

Changed(was, is) ==
  {x \in DOMAIN was \cup DOMAIN is :
     ~(x \in DOMAIN was /\ x \in DOMAIN is /\ was[x] = is[x])}
NewFiles(h) == {p \in Changed(h.disk, disk) : disk[p].kind # "dir"}
NewObjects(h) == Changed(h.store, store) \cap DOMAIN store
OldObjects(h) == DOMAIN h.store \ DOMAIN store

(* A move of some objects over others of its sources; a request for a bucket where an object is   *)
(* meant; standard input, which a dry run sends as well.                   *)
Overlapping(h) ==
  \E o \in DOMAIN h.store, w \in Wanted(h) :
    /\ o # w.source /\ h.order.from.at = "s3" /\ h.order.to.at = "s3" /\ h.order.from.bucket = h.order.to.bucket
    /\ o[1] = h.order.from.bucket /\ Local(o[2]) = w.at /\ \E v \in Wanted(h) : v.source = o
BucketMeant(h) ==
  /\ ~h.order.recursive /\ h.order.verb \notin {"rb", "mb"}
  /\ \/ h.order.from.at = "s3" /\ h.order.from.name = Empty
     \/ h.order.from.at \in {"s3", "stream"} /\ h.order.to.at = "s3" /\ h.order.to.name = Empty
FromInput(h) == h.order.from.at = "stream"

LostSources(h) == {pair[1] : pair \in {q \in h.lost : q[2] # <<>>}}
NotRemoved(h) == {pair[1] : pair \in {q \in h.lost : q[2] = <<>>}}
(* The sources of some requests that were answered hollowly. *)
HollowOf(h, requests) == {answer[2] : answer \in {a \in h.hollow : a[1] \in requests}}
Sent == {"send", "fetch", "copy"}

(* Two names that differ in empty parts only have one place. *)
Taken(h, w) ==
  \E v \in Wanted(h) : v.at = w.at /\ (There(h, v) \/ v.source \in HollowOf(h, Sent))
NotListed(h) == HollowOf(h, {"list"}) # {}
Went(h) == ~h.order.dryrun /\ (h.code \in {0, 2} \/ h.lost # {})

(* Everything wanted is at its place, unless it failed or shares its place *)
(* with something else that is; nothing else has changed.                  *)
Arrived(h) ==
  /\ Went(h) /\ ~NotListed(h) => \A w \in Wanted(h) :
       \/ w.source \in LostSources(h)
       \/ Taken(h, w)
  /\ \A p \in NewFiles(h) : (disk[p].holds = Document /\ HollowOf(h, {"fetch"}) # {}) \/
       \E w \in Wanted(h) : h.order.to.at = "local" /\ Local(w.at) = p /\ disk[p].holds = w.holds
  /\ \A o \in NewObjects(h) :
       \/ FromInput(h)
       \/ \E w \in Wanted(h) :
            /\ h.order.to.at = "s3" /\ Local(o[2]) = w.at /\ store[o] = w.holds
            /\ Doubled(o[2]) => h.order.from.at = "s3" /\ Doubled(w.source[2])

(* What is gone was asked for, and was copied if it was to move.           *)
Departed(h) ==
  /\ \A o \in OldObjects(h) :
       \/ h.order.verb \in {"rm", "rb"} /\ (o \in KeysIn(h) \/ o[2] = h.order.from.name)
       \/ /\ h.order.verb = "mv"
          /\ o \in HollowOf(h, {"copy"}) \/ \E w \in Wanted(h) : w.source = o /\ Taken(h, w)
  /\ (Went(h) /\ ~NotListed(h) /\ h.order.from.at = "s3" /\
        (h.order.verb = "rm" \/ (h.order.verb = "mv" /\ h.order.to.at = "s3"))) =>
       \A o \in IF h.order.verb = "mv" THEN {w.source : w \in Wanted(h)}
                ELSE IF h.order.recursive
                     THEN {q \in KeysIn(h) : q[2] \notin h.order.excludes}
                     ELSE {<<h.order.from.bucket, h.order.from.name>>} :
         o \in DOMAIN store => o \in LostSources(h) \cup NotRemoved(h) \cup HollowOf(h, {"delete"})

(* A bucket goes only when it is empty, and comes when mb says so.         *)
BucketKept(h) ==
  CASE HollowOf(h, {"bucket"}) # {} -> owned = h.owned
    [] h.order.verb = "rb" /\ h.code = 0 ->
         owned = h.owned \ {h.order.from.bucket} /\ EmptyBucket(h.order.from.bucket)
    [] h.order.verb = "mb" /\ h.code = 0 -> owned = h.owned \cup {h.order.from.bucket}
    [] OTHER -> owned = h.owned

(* What was sent to an empty place and fetched from there is what it was.  *)
RoundTrip ==
  LET n == Len(endings)
  IN  (/\ n = 2 /\ endings[1].code \in {0, 2} /\ endings[2].code = 0
       /\ \A i \in {1, 2} : /\ endings[i].hollow = {} /\ endings[i].order.recursive /\ ~endings[i].order.dryrun
                            /\ endings[i].order.verb = "cp" /\ endings[i].order.excludes = {}
       /\ endings[1].order.from.at = "local" /\ endings[2].order.to.at = "local"
       /\ endings[1].order.to = endings[2].order.from
       /\ \A o \in DOMAIN endings[1].store : o[1] # endings[1].order.to.bucket
       /\ ~\E p \in DOMAIN endings[1].disk : Head(p) = Head(endings[2].order.to.name)) =>
        LET source == endings[1].order.from.name
            copy == Local(endings[2].order.to.name)
        IN  {<<Rest(f, Len(copy)), disk[f].holds>> : f \in FilesIn(copy, TRUE)}
            = {<<Rest(f, Len(source)), HeldBy(f)>> :
               f \in FilesIn(source, endings[1].order.follow)}

(***************************************************************************)
(* cp, mv and rm do what they say and nothing else.  What is at the source *)
(* is found whatever it is called, and arrives under its own name or is    *)
(* reported; what moves is removed only once it has arrived; a dry run     *)
(* changes nothing; a bucket goes only when it is empty; the code is 0     *)
(* only if nothing failed and nothing was passed over.                     *)
(* All but the last are claimed of what was not answered hollowly: since   *)
(* send_checked takes any answer below 400 for a success, an object of     *)
(* which the one request was answered so is reported done and is not where *)
(* it was sent, or not removed, and a listing answered so is taken for one *)
(* of nothing.                                                             *)
(***************************************************************************)
TransferTells ==
  (xferAt = "begin" /\ endings # <<>> /\ ~BucketMeant(Last(endings))) =>
    LET h == Last(endings)
    IN  /\ Overlapping(h) \/ (Arrived(h) /\ Departed(h))
        /\ BucketKept(h)
        /\ (h.order.dryrun /\ ~FromInput(h)) => disk = h.disk /\ store = h.store
        /\ (h.code = 0 => h.lost = {} /\ h.skips = 0) /\ (h.lost # {} => h.code \in {1, 255})
        /\ RoundTrip

(* Every command ends. *)
TransferOver == script = <<>>
TransferEnds == <>TransferOver
===============================================================================
