------------------------------ MODULE DigestWalk ------------------------------
(***************************************************************************)
(* `aws cloudtrail validate-logs` (cloudtrail_validate.rs): whose digests a*)
(* line asks for, the walk from the newest of a window backwards, first    *)
(* over the digests of each hour and then over those written later for     *)
(* hours that were missed, the check of each and of the logs it lists, and *)
(* the summary.                                                            *)
(*                                                                         *)
(* Digests are numbered by the hour they end and start an hour before.     *)
(* The trail (external) wrote one every hour it was on, linked to the one  *)
(* before unless there is none of its kind, and at some point moved from   *)
(* bucket 1 to bucket 2.  Since then digests and logs have been lost or    *)
(* altered.  One digest more lies in bucket 2: another trail's.            *)
(***************************************************************************)
EXTENDS Naturals, Sequences, SequencesExt, FiniteSetsExt

CONSTANTS
  Hours,              (* the last hour of the trail, which is now          *)
  Inquiries           (* what may be asked, of which trail: a record of    *)
                      (* the line, the configured region, what CloudTrail  *)
                      (* knows and the buckets hold                        *)

Stranger == Hours + 1

VARIABLES
  inquiry,
  walkAt,             (* "args", "trail", "list", "digest", "logs",        *)
                      (* "summary", "done" or "failed"                     *)
  naming,             (* KeyNaming, with the prefix                        *)
  backfill,           (* whether the backfill digests are being walked     *)
  inBucket,           (* the bucket being walked                           *)
  digests,            (* the digests of its listing not yet popped         *)
  digest,             (* the key in hand                                   *)
  lastStart,          (* last_start                                        *)
  publicKeys,         (* the fingerprints of public_keys                   *)
  covered,            (* found_start and found_end, or none                *)
  counts,             (* valid_digests, invalid_digests and so on          *)
  digestSaid,         (* what was reported of each digest                  *)
  logsSaid,           (* what was reported of the logs of each             *)
  walkTold,           (* the summary: counts and range                     *)
  walkCode            (* the exit code                                     *)

digestVars == <<inquiry, walkAt, naming, backfill, inBucket, digests, digest, lastStart,
                publicKeys, covered, counts, digestSaid, logsSaid, walkTold, walkCode>>

Line == inquiry.line
Unreadable == 0

DigestInit ==
  /\ inquiry \in Inquiries
  /\ walkAt = "args" /\ naming = "none" /\ backfill = FALSE /\ inBucket = 0
  /\ digests = {} /\ digest = 0 /\ lastStart = 0
  /\ publicKeys = {} /\ covered = <<>>
  /\ counts = [kind \in {"digest", "backfill", "log"} |-> [valid |-> 0, invalid |-> 0]]
  /\ digestSaid = [d \in 1 .. Stranger |-> <<>>]
  /\ logsSaid = [d \in 1 .. Stranger |-> <<>>]
  /\ walkTold = <<>> /\ walkCode = 0

-----------------------------------------------------------------------------
(* The line, a value that may not be given being a sequence of it or of    *)
(* none.                                                                   *)
Region == IF Line.region # <<>> THEN Line.region ELSE inquiry.configured
StartTime == Line.start[1]
EndTime == IF Line.end = <<>> THEN Hours ELSE Line.end[1]
UsageError ==
  IF Line.arn = <<>> \/ Line.start = <<>> THEN TRUE
  ELSE Unreadable \in {StartTime, EndTime} \/ StartTime > EndTime \/ ~Line.arn[1].valid

Fails(code) == walkAt' = "failed" /\ walkCode' = code
WalkUntouched == UNCHANGED <<inquiry, digests, digest, lastStart, publicKeys, covered, counts,
                             digestSaid, logsSaid, walkTold>>

ParseLine ==
  /\ walkAt = "args"
  /\ \/ UsageError /\ Fails(252)
     \/ ~UsageError /\ Region = <<>> /\ Fails(253)
     \/ ~UsageError /\ Region # <<>> /\ walkAt' = "trail" /\ UNCHANGED walkCode
  /\ UNCHANGED <<naming, backfill, inBucket>> /\ WalkUntouched

(* What names a digest in a bucket: the account from the trail's ARN and   *)
(* the region, too, unless the line names others. *)
Naming(org, prefix) ==
  LET arn == Line.arn[1]
  IN [prefix |-> prefix, org |-> org, trail |-> arn.trail, home |-> arn.region,
      account |-> IF Line.account = <<>> THEN arn.account ELSE Line.account[1],
      source |-> IF Line.region = <<>> THEN arn.region ELSE Line.region[1]]

WalkFrom(bucket, org, prefix) ==
  /\ inBucket' = bucket /\ naming' = Naming(org, prefix)
  /\ walkAt' = "list" /\ UNCHANGED <<backfill, walkCode>>

(* The trail is looked up only where the line does not name its bucket.    *)
FindTrail ==
  /\ walkAt = "trail"
  /\ \/ Line.bucket # <<>> /\ WalkFrom(Line.bucket[1], <<>>, Line.prefix)
     \/ Line.bucket = <<>> /\ Fails(254) /\ UNCHANGED <<naming, backfill, inBucket>>
     \/ /\ Line.bucket = <<>> /\ inquiry.trails = <<>>
        /\ Fails(255) /\ UNCHANGED <<naming, backfill, inBucket>>
     \/ /\ Line.bucket = <<>> /\ inquiry.trails # <<>>
        /\ LET trail == inquiry.trails[1]
               prefix == IF trail.prefix # <<>> THEN trail.prefix ELSE Line.prefix
           IN \/ ~trail.shared /\ WalkFrom(trail.bucket, <<>>, prefix)
              \/ trail.shared /\ Line.account # <<>> /\ WalkFrom(trail.bucket, inquiry.org, prefix)
              \/ /\ trail.shared /\ Line.account = <<>>
                 /\ Fails(252) /\ UNCHANGED <<naming, backfill, inBucket>>
  /\ WalkUntouched

-----------------------------------------------------------------------------
(* External: the trail's digests.  Where each lies, the link it was written*)
(* with (0 is none), and what has become of it.                            *)
Written == (1 .. Hours) \ inquiry.off
Backfill(d) == d \in inquiry.caught
Date(d) == IF d = Stranger THEN 2 ELSE d
Start(d) == Date(d) - 1
InBucket(d) == IF d >= inquiry.moved THEN 2 ELSE 1
SameKind(d) == {e \in Written \cup inquiry.caught : Backfill(e) = Backfill(d)}
Previous(d) == IF d \in 1 .. Hours /\ d - 1 \in SameKind(d) THEN d - 1 ELSE 0
NamedBy(d) == IF d = Stranger THEN [inquiry.names EXCEPT !.trail = <<"other">>] ELSE inquiry.names
StateOf(d) == IF d = Stranger THEN "good" ELSE inquiry.digestIs[d]

(* The key of a digest: the folder, and the words of its file's name.      *)
Folder(n) == n.prefix \o <<"AWSLogs">> \o n.org \o <<n.account, "CloudTrail-Digest", n.source>>
FileName(n) == <<n.account, "CloudTrail-Digest", n.source>> \o n.trail \o <<n.home>>
PlaceOf(d) == [bucket |-> InBucket(d), folder |-> Folder(NamedBy(d)),
               file |-> Append(FileName(NamedBy(d)), Date(d)), backfill |-> Backfill(d)]

Original(d) == [end |-> Date(d), start |-> Start(d), place |-> PlaceOf(d), body |-> "logs",
                previous |-> Previous(d)]
(* What lies there now, where there is something that can be read, and the *)
(* digest it was signed as.                                                *)
Signed(d) ==
  IF StateOf(d) = "copied" THEN Original(CHOOSE e \in Written : e # d) ELSE Original(d)
Content(d) == IF StateOf(d) = "altered" THEN [Original(d) EXCEPT !.body = "other"] ELSE Signed(d)
Fingerprint(d) ==
  CASE StateOf(d) = "keyless" -> "lost"
    [] StateOf(d) # "keyless" -> IF Backfill(d) THEN "after" ELSE "then"

-----------------------------------------------------------------------------
(* A file of another trail is none of this one's: it is named otherwise,   *)
(* word for word up to the hour.                                           *)
Matches(key) ==
  /\ key.folder = Folder(naming)
  /\ IsStrictPrefix(FileName(naming), key.file)

(* The digests of a bucket from the window's start to an hour past its     *)
(* end; those before the bucket's marker are not even listed.              *)
Listed(b) ==
  {d \in 1 .. Stranger :
     /\ StateOf(d) # "missing" /\ InBucket(d) = b /\ Matches(PlaceOf(d)) /\ Backfill(d) = backfill
     /\ StartTime <= Date(d) /\ Date(d) <= EndTime + 1}

(* A mutant: the newest that is not newer. *)
OlderOrSame(s, d) == {e \in s : Date(e) <= Date(d)}

Older(s, d) == {e \in s : Date(e) < Date(d)}
Newest(s) == CHOOSE d \in s : \A e \in s : Date(e) <= Date(d)

(* The end of a walk: of the first, and the second begins; of that.        *)
FirstBucket == IF Line.bucket # <<>> THEN Line.bucket[1] ELSE inquiry.trails[1].bucket
EndTraverse ==
  /\ IF backfill THEN walkAt' = "summary" /\ UNCHANGED <<backfill, inBucket>>
     ELSE walkAt' = "list" /\ backfill' = TRUE /\ inBucket' = FirstBucket
  /\ UNCHANGED <<digests, digest, lastStart>>

(* The loop goes on while the window has not been left. *)
GoesOn(last) ==
  IF StartTime <= last THEN walkAt' = "digest" /\ UNCHANGED backfill
  ELSE IF backfill THEN walkAt' = "summary" /\ UNCHANGED backfill
  ELSE walkAt' = "list" /\ backfill' = TRUE
Returns(last, bucket) == IF StartTime > last /\ ~backfill THEN FirstBucket ELSE bucket

(* pop_latest: the newest digest older than the one in hand, or the end. *)
PopBefore(s, d) ==
  IF Older(s, d) = {} THEN EndTraverse
  ELSE LET key == Newest(Older(s, d))
       IN  /\ digest' = key /\ lastStart' = Date(key)
           /\ digests' = Older(s, key)
           /\ GoesOn(Date(key)) /\ inBucket' = Returns(Date(key), inBucket)

(* load_public_keys: those published in a time are known from then on.     *)
Published(time) == inquiry.published \cap {time}
LoadKeys(time) == publicKeys' = publicKeys \cup Published(time)
NoKeys(time) == Published(time) = {} /\ publicKeys = {}

ListDigests ==
  /\ walkAt = "list" /\ (backfill \/ ~NoKeys("then"))
  /\ IF backfill THEN UNCHANGED publicKeys ELSE LoadKeys("then")
  /\ IF Listed(inBucket) = {} THEN EndTraverse
     ELSE LET key == Newest(Listed(inBucket))
          IN /\ digest' = key /\ lastStart' = Date(key)
             /\ digests' = Listed(inBucket) \ {key}
             /\ GoesOn(Date(key)) /\ inBucket' = Returns(Date(key), inBucket)
  /\ UNCHANGED <<inquiry, naming, covered, counts, digestSaid, logsSaid, walkTold, walkCode>>

(* A call that fails with anything but NoSuchKey ends the command, and so  *)
(* does a trail without a public key.                                      *)
WalkFatal ==
  /\ \/ walkAt \in {"list", "digest", "logs"} /\ Fails(254)
     \/ walkAt = "list" /\ ~backfill /\ NoKeys("then") /\ Fails(255)
  /\ UNCHANGED <<naming, backfill, inBucket>> /\ WalkUntouched

-----------------------------------------------------------------------------
(* fetch_digest: the object, inflated and parsed, and the signature, which *)
(* is in its metadata. *)
Fetch(d) ==
  CASE StateOf(d) = "missing" -> "not found"
    [] StateOf(d) = "garbled" -> "invalid format"
    [] StateOf(d) = "unsigned" -> "signature verification failed"
    [] StateOf(d) = "undated" /\ Backfill(d) -> "invalid format"
    [] OTHER -> "fetched"

(* What a signature covers: the digest, and the signature of the one       *)
(* before.                                                                 *)
StringToSign(content) ==
  <<content.end, content.place.bucket, content.place.file, content.body, content.previous>>
VerifyDigest(d) == StringToSign(Content(d)) = StringToSign(Signed(d))

(* The keys of a digest written late are published when it is written.     *)
AsksForKeys(d) ==
  /\ Fetch(d) = "fetched" /\ StateOf(d) # "lacking" /\ Content(d).place = PlaceOf(d)
  /\ Backfill(d) /\ Fingerprint(d) \notin publicKeys
KeysFor(d) == IF AsksForKeys(d) THEN publicKeys \cup Published("after") ELSE publicKeys

LoadAndValidate(d) ==
  /\ Fetch(d) = "fetched"
  /\ StateOf(d) # "lacking"
  /\ Content(d).place = PlaceOf(d)
  /\ Fingerprint(d) \in KeysFor(d)
  /\ VerifyDigest(d)

SayDigest(found) == digestSaid' = [digestSaid EXCEPT ![digest] = Append(@, found)]
Count(kind, found) == counts' = [counts EXCEPT ![kind][found] = @ + 1]
Kind == IF backfill THEN "backfill" ELSE "digest"

(* track_found_times: what has been covered, within the window. *)
Later(a, b) == IF a > b THEN a ELSE b
Earlier(a, b) == IF a < b THEN a ELSE b
TrackFoundTimes(d) ==
  LET from == Later(Start(d), StartTime)
      to == Earlier(Date(d), EndTime)
  IN covered' = IF covered = <<>> THEN <<from, to>>
                ELSE <<Earlier(covered[1], from), Later(covered[2], to)>>

(* The digest is good: its logs come next. *)
ValidDigest ==
  /\ walkAt = "digest" /\ LoadAndValidate(digest)
  /\ publicKeys' = KeysFor(digest)
  /\ TrackFoundTimes(digest) /\ Count(Kind, "valid") /\ SayDigest("valid")
  /\ lastStart' = Start(digest)
  /\ walkAt' = "logs"
  /\ UNCHANGED <<inquiry, naming, backfill, inBucket, digests, digest, logsSaid, walkTold, walkCode>>

(* It is missing or it does not verify: the walk goes on with what the     *)
(* listing has before it.                                                  *)
InvalidDigest ==
  /\ walkAt = "digest" /\ ~LoadAndValidate(digest)
  /\ publicKeys' = KeysFor(digest)
  /\ Count(Kind, "invalid") /\ SayDigest("invalid")
  /\ PopBefore(digests, digest)
  /\ UNCHANGED <<inquiry, naming, covered, logsSaid, walkTold, walkCode>>

(* The chain is followed to the digest it names as long as the window has  *)
(* not been left.                                                          *)
FollowLink(p) ==
  /\ digest' = p
  /\ digests' = IF InBucket(p) # inBucket THEN Listed(InBucket(p)) ELSE digests
  /\ GoesOn(lastStart) /\ inBucket' = Returns(lastStart, InBucket(p))
  /\ UNCHANGED lastStart

(* check_log: the logs of a digest are there, can be inflated to the last  *)
(* byte, and have the hash that the digest has.                            *)
CheckLog(d) ==
  /\ inquiry.logsAre # "missing"
  /\ inquiry.logsAre # "garbled"
  /\ inquiry.logsAre # "longer"
  /\ inquiry.logsAre # "altered"

CheckLogs ==
  /\ walkAt = "logs"
  /\ LET found == IF CheckLog(digest) THEN "valid" ELSE "invalid"
     IN /\ Count("log", found)
        /\ logsSaid' = [logsSaid EXCEPT ![digest] = Append(@, found)]
  /\ IF Previous(digest) # 0 THEN FollowLink(Previous(digest)) ELSE PopBefore(digests, digest)
  /\ UNCHANGED <<inquiry, naming, publicKeys, covered, digestSaid, walkTold, walkCode>>

(* write_ratio, for what there is any of. *)
Ratio(kind) ==
  LET total == counts[kind].valid + counts[kind].invalid
  IN IF total = 0 THEN <<>> ELSE <<[kind |-> kind, valid |-> counts[kind].valid, of |-> total]>>

NoDigests == Ratio("digest") = <<>> /\ Ratio("backfill") = <<>>
WriteSummary ==
  walkTold' = IF NoDigests THEN <<"No digests found">>
              ELSE <<covered>> \o Ratio("digest") \o Ratio("backfill") \o Ratio("log")

Finish ==
  /\ walkAt = "summary" /\ WriteSummary
  /\ walkCode' = IF \E kind \in DOMAIN counts : counts[kind].invalid > 0 THEN 1 ELSE 0
  /\ walkAt' = "done"
  /\ UNCHANGED <<inquiry, naming, backfill, inBucket, digests, digest, lastStart, publicKeys, covered,
                 counts, digestSaid, logsSaid>>

DigestNext ==
  \/ ParseLine \/ FindTrail \/ ListDigests \/ WalkFatal
  \/ ValidDigest \/ InvalidDigest \/ CheckLogs \/ Finish

Spec == DigestInit /\ [][DigestNext]_digestVars
FairSpec == Spec /\ WF_digestVars(DigestNext)

-----------------------------------------------------------------------------
Said(d) == digestSaid[d]
Sound(d) ==
  /\ StateOf(d) = "good" \/ (StateOf(d) = "undated" /\ ~Backfill(d))
  /\ Fingerprint(d) \in inquiry.published
LogsSound == inquiry.logsAre = "good"
InWindow(d) == StartTime <= d /\ d <= EndTime + 1
Judged(good) == <<IF good THEN "valid" ELSE "invalid">>
(* The line means the digests as the trail writes them. *)
MeansTrail ==
  /\ Folder(naming) = Folder(inquiry.names) /\ FileName(naming) = FileName(inquiry.names)
Left(b) == {d \in 1 .. Hours : StateOf(d) # "missing" /\ InBucket(d) = b /\ InWindow(d)}
HowMany(said, found) == Cardinality({d \in 1 .. Stranger : said[d] = <<found>>})

(* What was said of a digest and of its logs is true and was said once,    *)
(* and nothing was said of another trail's.  A walk that ended had a look  *)
(* at every digest of the window that is still in a bucket it came to, if  *)
(* the line meant this trail, and at every digest a good one links to: one *)
(* that was deleted is found by the link of the next.  The summary counts  *)
(* what was said and the range of what was valid, and the command succeeds *)
(* if nothing was found wrong.                                             *)
WalkFindsDamage ==
  /\ walkAt \notin {"args", "failed"} =>
       \A d \in 1 .. Hours :
         /\ Said(d) \in {<<>>, Judged(Sound(d))}
         /\ logsSaid[d] \in {<<>>, Judged(LogsSound)}
         /\ logsSaid[d] # <<>> => Said(d) = <<"valid">>
         /\ Said(d) # <<>> => MeansTrail
  /\ Said(Stranger) = <<>>
  /\ walkAt = "done" =>
       /\ MeansTrail => \A d \in Left(FirstBucket) : Said(d) # <<>>
       /\ \A d \in 1 .. Hours :
            Said(d) = <<"valid">> /\ Previous(d) # 0 /\ StartTime <= Start(d) =>
              Said(Previous(d)) # <<>> /\ \A e \in Left(InBucket(Previous(d))) :
                                            e < d /\ Backfill(e) = Backfill(d) => Said(e) # <<>>
       /\ walkCode = 0 <=> HowMany(digestSaid, "invalid") + HowMany(logsSaid, "invalid") = 0
       /\ walkTold = <<"No digests found">> <=> \A d \in 1 .. Hours : Said(d) = <<>>
       /\ covered = <<>> <=> HowMany(digestSaid, "valid") = 0
       /\ covered # <<>> =>
            LET valid == {d \in 1 .. Hours : Said(d) = <<"valid">>}
            IN covered = <<Later(StartTime, Start(Min(valid))), Earlier(EndTime, Max(valid))>>
       /\ \A kind \in {"digest", "backfill"} :
            LET of == {d \in 1 .. Hours : Said(d) # <<>> /\ (Backfill(d) <=> kind = "backfill")}
            IN of # {} => \E j \in 2 .. Len(walkTold) :
                 walkTold[j] = [kind |-> kind, of |-> Cardinality(of),
                                valid |-> Cardinality({d \in of : Said(d) = <<"valid">>})]

(* The walk ends: a chain that comes back finds nothing left. *)
WalkOver == walkAt \in {"done", "failed"}
WalkEnds == <>WalkOver
===============================================================================
