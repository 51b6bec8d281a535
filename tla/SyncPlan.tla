------------------------------- MODULE SyncPlan -------------------------------
(***************************************************************************)
(* `aws s3 sync`: the scans, the merge of the two listings (s3/sync.rs),   *)
(* and the execution of the plan (sync_upload, sync_download and sync_copy *)
(* of s3/transfer.rs), over several runs of the command with edits of the  *)
(* source before and between.                                              *)
(*                                                                         *)
(* Names are numbers in the order of the names relative to the two roots.  *)
(* A listing of S3 comes in the order of its keys, ScanOrder, which differs *)
(* where a key has a doubled slash after the prefix.  Time runs in ticks,  *)
(* Second of them a second: a file's time is exact, an object's            *)
(* LastModified is a whole second.                                         *)
(*                                                                         *)
(* A call that is answered is answered by S3: answers below 400 that did   *)
(* nothing (conn.rs:237) are of MultipartUpload, CopyMove and Transfer,    *)
(* where they are marked hollow.  Here they are left out, of the scans and *)
(* of the transfers, and nothing said here holds of them.                  *)
(***************************************************************************)
EXTENDS Naturals, Sequences, FiniteSets

CONSTANTS
  ScanOrder,          (* the place of each name in what scan_s3 lists      *)
  SizeOf,             (* the size of each content; content 1 is a torn     *)
                      (* file                                              *)
  Sources, Dests,     (* what the two sides may hold to begin with         *)
  Hows,               (* the command lines: [way, strategy, delete,        *)
                      (* excluded, dryrun]                                 *)
  Second,             (* ticks in a second                                 *)
  MaxTime, MaxSyncs, MaxEdits   (* bounds                                  *)

Names == DOMAIN ScanOrder
Torn == 1
NoFile == [data |-> 0, time |-> 0]
File(data, time) == [data |-> data, time |-> time]
WholeSecond(t) == t - (t % Second)

VARIABLES
  syncAt,             (* "idle", "source", "dest", "plan", "transfer",     *)
                      (* "delete", or "over"                               *)
  how,                (* the command line                                  *)
  source, dest,       (* the two sides                                     *)
  unreadable,         (* local files of the source that cannot be read     *)
  left, right,        (* what is left of the two listings: [name, file]    *)
  transfers,          (* the planned transfers: [name, file]               *)
  deletes,            (* the planned deletes: names                        *)
  failed, warned,     (* Outcome                                           *)
  clock,              (* the time                                          *)
  before,             (* history: the two sides as this run scanned them,  *)
                      (* and how many edits there had been                 *)
  began,              (* history: when this run scanned its source         *)
  edits, syncs,       (* bounds: edits of the source, runs                 *)
  steady              (* history: no edit since the last run scanned, and  *)
                      (* the runs since have exited with 0                 *)

planVars == <<left, right, transfers, deletes>>
sideVars == <<source, dest, unreadable>>
outcomeVars == <<failed, warned>>
timeVars == <<clock, before, began, edits, syncs, steady>>
syncVars == <<syncAt, how, planVars, sideVars, outcomeVars, timeVars>>

FromS3 == how.way \in {"download", "copy"}
ToS3 == how.way \in {"upload", "copy"}

SyncInit ==
  /\ syncAt = "idle"
  /\ how \in Hows
  /\ source \in Sources /\ dest \in Dests
  /\ FromS3 => \A n \in Names : source[n].time = WholeSecond(source[n].time)
  /\ unreadable \in {{}, IF FromS3 THEN {} ELSE {1}}
  /\ left = <<>> /\ right = <<>>
  /\ transfers = {} /\ deletes = {}
  /\ failed = FALSE /\ warned = FALSE
  /\ clock = Second
  /\ before = [source |-> source, dest |-> dest, edits |-> 0] /\ began = 0
  /\ edits = 0 /\ syncs = 0
  /\ steady = FALSE

-----------------------------------------------------------------------------
(* The scans.  scan_s3 lists in the order of the keys, scan_local sorts by *)
(* name and skips what it cannot read; the filter takes entries out.       *)
ByPlace(names, order) ==
  [k \in 1 .. Cardinality(names) |->
     CHOOSE n \in names : Cardinality({m \in names : order[m] < order[n]}) = k - 1]
Listed(side, names, order) ==
  LET there == ByPlace({n \in names : side[n] # NoFile}, order)
  IN  [k \in DOMAIN there |-> [name |-> there[k], file |-> side[there[k]]]]
ScanS3(side, names) == Listed(side, names, ScanOrder)
ScanLocal(side, names) == Listed(side, names, [n \in Names |-> n])

Included(names) == names \ how.excluded

(* The source is scanned and filtered.  A local file that cannot be read   *)
(* is skipped with a warning.                                              *)
ScanSource ==
  /\ syncAt = "idle"
  /\ syncs < MaxSyncs
  /\ syncs' = syncs + 1
  /\ left' = IF FromS3 THEN ScanS3(source, Included(Names))
             ELSE ScanLocal(source, Included(Names \ unreadable))
  /\ warned' = (\E n \in unreadable : source[n] # NoFile)
  /\ failed' = FALSE
  /\ before' = [source |-> source, dest |-> dest, edits |-> edits]
  /\ began' = clock
  /\ syncAt' = "dest"
  /\ UNCHANGED <<how, sideVars, right, transfers, deletes, clock, edits, steady>>

ScanDest ==
  /\ syncAt = "dest"
  /\ right' = IF ToS3 THEN ScanS3(dest, Names) ELSE ScanLocal(dest, Names)
  /\ syncAt' = "plan"
  /\ UNCHANGED <<how, sideVars, left, transfers, deletes, outcomeVars, timeVars>>

(* A scan fails, or execute_uploads cannot begin: the command ends there.  *)
Fatal ==
  /\ syncAt \in {"dest"} \cup IF how.way = "upload" THEN {"transfer"} ELSE {}
  /\ syncAt' = "idle"
  /\ left' = <<>> /\ transfers' = {} /\ deletes' = {}
  /\ steady' = FALSE
  /\ UNCHANGED <<how, sideVars, right, outcomeVars, clock, before, began,
                 edits, syncs>>

-----------------------------------------------------------------------------
(* The merge: one step of the loop of plan() for each name. *)

(* The asymmetric time test. *)
SameTime(s, d) ==
  IF how.way # "download" THEN d.time >= s.time
  ELSE IF how.strategy = "exact" THEN d.time = s.time
  ELSE d.time <= s.time

ShouldSync(s, d) ==
  \/ SizeOf[s.data] # SizeOf[d.data]
  \/ how.strategy # "size" /\ ~SameTime(s, d)

(* A mutant: names are taken in pairs. *)
NextSidePaired ==
  IF left # <<>> /\ right # <<>> THEN "both"
  ELSE IF left # <<>> THEN "source" ELSE "dest"

NextSide ==
  IF left = <<>> THEN "dest"
  ELSE IF right = <<>> THEN "source"
  ELSE IF left[1].name = right[1].name THEN "both"
  ELSE IF left[1].name < right[1].name THEN "source" ELSE "dest"

PlanTransfer(item) == transfers' = transfers \cup {item}

SourceOnly ==
  /\ NextSide = "source"
  /\ PlanTransfer(left[1])
  /\ left' = Tail(left)
  /\ UNCHANGED <<right, deletes>>

OnBothSides ==
  /\ NextSide = "both"
  /\ IF ShouldSync(left[1].file, right[1].file) THEN PlanTransfer(left[1])
     ELSE UNCHANGED transfers
  /\ left' = Tail(left) /\ right' = Tail(right)
  /\ UNCHANGED deletes

DestOnly ==
  /\ NextSide = "dest"
  /\ deletes' = IF how.delete THEN deletes \cup {right[1].name} ELSE deletes
  /\ right' = Tail(right)
  /\ UNCHANGED <<left, transfers>>

MergeStep ==
  /\ syncAt = "plan"
  /\ left # <<>> \/ right # <<>>
  /\ SourceOnly \/ OnBothSides \/ DestOnly
  /\ UNCHANGED <<syncAt, how, sideVars, outcomeVars, timeVars>>

(* Of a dry run the plan is printed, and no more. *)
EndPlan ==
  /\ syncAt = "plan"
  /\ left = <<>> /\ right = <<>>
  /\ IF how.dryrun THEN syncAt' = "over" /\ steady' = FALSE
     ELSE syncAt' = "transfer" /\ UNCHANGED steady
  /\ UNCHANGED <<how, planVars, sideVars, outcomeVars, clock, before, began, edits, syncs>>

-----------------------------------------------------------------------------
(* Nobody edited the source since this run scanned it.  One that is edited *)
(* back again was, and a transfer may have met what it was meanwhile.      *)
Quiet == edits = before.edits

(* The execution: the transfers over the pool, in any order, and then the  *)
(* deletes.                                                                *)

(* A mutant: a download keeps the time it was written at. *)
StampNow(item) == File(source[item.name].data, clock)

(* What a transfer leaves: the source as it is by then; a download is      *)
(* stamped with the time the listing gave, an object with the second it    *)
(* was written in.                                                         *)
Stored(item) ==
  File(source[item.name].data,
       IF ToS3 THEN WholeSecond(clock) ELSE item.file.time)

Took(item) ==
  /\ syncAt = "transfer"
  /\ item \in transfers
  /\ transfers' = transfers \ {item}
  /\ UNCHANGED <<syncAt, how, source, unreadable, left, right, deletes, warned, timeVars>>

(* A file or an object that is sent, or fetched: one gone is a failure.    *)
Arrives(item) ==
  /\ Took(item)
  /\ source[item.name] # NoFile
  /\ dest' = [dest EXCEPT ![item.name] = Stored(item)]
  /\ UNCHANGED failed
Upload(item) == how.way = "upload" /\ Arrives(item)
Download(item) == how.way = "download" /\ Arrives(item)
CopyObject(item) == how.way = "copy" /\ Arrives(item)
Transfer(item) == Upload(item) \/ Download(item) \/ CopyObject(item)

(* The transfer failed before anything changed, or after the service did   *)
(* it; or the file was only partly written.                                *)
TransferFails(item) ==
  /\ Took(item)
  /\ \/ UNCHANGED dest
     \/ ~ToS3 /\ dest' = [dest EXCEPT ![item.name] = File(Torn, clock)]
     \/ /\ ToS3 /\ source[item.name] # NoFile
        /\ dest' = [dest EXCEPT ![item.name] = Stored(item)]
  /\ failed' = TRUE

EndTransfers ==
  /\ syncAt = "transfer"
  /\ transfers = {}
  /\ syncAt' = "delete"
  /\ UNCHANGED <<how, planVars, sideVars, outcomeVars, timeVars>>

(* A file is removed or it is not; a service may have removed an object    *)
(* whose delete is reported to have failed.                                *)
Without(n) == [dest EXCEPT ![n] = NoFile]
Removes(n, leftovers) ==
  /\ syncAt = "delete"
  /\ n \in deletes
  /\ deletes' = deletes \ {n}
  /\ \/ dest' = Without(n) /\ UNCHANGED failed
     \/ dest' \in leftovers /\ failed' = TRUE
  /\ UNCHANGED <<syncAt, how, source, unreadable, left, right, transfers, warned,
                 timeVars>>
DeleteFile(n) == ~ToS3 /\ Removes(n, {dest})
DeleteObject(n) == ToS3 /\ Removes(n, {dest, Without(n)})
Delete(n) == DeleteFile(n) \/ DeleteObject(n)

(* Outcome::code. *)
ExitCode == IF failed THEN 1 ELSE IF warned THEN 2 ELSE 0

(* Every file of the source is older than the second of the scan.  One     *)
(* that is not may be newer than the object made of it.                    *)
Aged == \A n \in Names : source[n].time <= WholeSecond(began)

EndSync ==
  /\ syncAt = "delete"
  /\ deletes = {}
  /\ syncAt' = "over"
  /\ steady' = (Quiet /\ ExitCode = 0 /\ Aged)
  /\ UNCHANGED <<how, planVars, sideVars, outcomeVars, clock, before, began, edits, syncs>>

Again ==
  /\ syncAt = "over"
  /\ syncAt' = "idle"
  /\ UNCHANGED <<how, planVars, sideVars, outcomeVars, timeVars>>

(* Others: the source is edited, and time goes by.  Both matter only where *)
(* the command reads them next, at the scan and at the transfers.          *)
Edit(n, data) ==
  /\ syncAt \in {"idle", "transfer"}
  /\ data # Torn
  /\ edits < MaxEdits
  /\ edits' = edits + 1
  /\ source' = [source EXCEPT ![n] =
       IF data = 0 THEN NoFile
       ELSE File(data, IF FromS3 THEN WholeSecond(clock) ELSE clock)]
  /\ source' # source
  /\ steady' = FALSE
  /\ UNCHANGED <<syncAt, how, dest, unreadable, planVars, outcomeVars, clock, before, began,
                 syncs>>

Tick ==
  /\ syncAt \in {"idle", "transfer"}
  /\ clock < MaxTime
  /\ clock' = clock + 1
  /\ UNCHANGED <<syncAt, how, planVars, sideVars, outcomeVars, before, began, edits, syncs,
                 steady>>

SyncStep ==
  \/ ScanSource \/ ScanDest \/ Fatal \/ MergeStep \/ EndPlan
  \/ EndTransfers \/ EndSync \/ Again
  \/ \E item \in transfers : Transfer(item) \/ TransferFails(item)
  \/ \E n \in deletes : Delete(n)
SyncNext ==
  SyncStep \/ Tick \/ \E n \in Names, data \in {0} \cup DOMAIN SizeOf : Edit(n, data)

SyncSpec == SyncInit /\ [][SyncNext]_syncVars

-----------------------------------------------------------------------------
(* What the two sides said of a name when they were scanned: the source's  *)
(* content, unless the comparison found the destination up to date;        *)
(* nothing, if only the destination had it and --delete was given; and     *)
(* otherwise what it had.  An entry of the source that is excluded counts  *)
(* as none.                                                                *)
Mirrored(n) ==
  LET s == IF n \in how.excluded THEN NoFile ELSE before.source[n]
      d == before.dest[n]
  IN  IF s # NoFile
      THEN dest[n].data = s.data \/ (dest[n] = d /\ d # NoFile /\ ~ShouldSync(s, d))
      ELSE dest[n] = IF how.delete THEN NoFile ELSE d

(* A sync that exits with 0, of a source nobody edited meanwhile, leaves   *)
(* that for every name.  And syncing again what was synced does nothing    *)
(* ("Without it a clean download leaves the local file newer than the      *)
(* object and the next sync repeats the whole transfer"), so long as no    *)
(* file was modified in the second it was synced in.  A dry run leaves the *)
(* destination as it was.                                                  *)
SyncConverges ==
  /\ syncAt = "over" /\ ExitCode = 0 /\ Quiet /\ ~how.dryrun => \A n \in Names : Mirrored(n)
  /\ syncAt = "over" /\ how.dryrun => dest = before.dest
  /\ steady => transfers = {} /\ deletes = {}

(* --delete removes nothing the user excluded ("only for entries that      *)
(* survived the filters").                                                 *)
ExcludedIsKept == \A n \in how.excluded : dest[n] = before.dest[n]
===============================================================================
