----------------------------- MODULE CommandProofs ------------------------------
(***************************************************************************)
(* Theorems about commands and what runs beside them: an archive that      *)
(* leaves the machine can be read, whatever the widths of the format, the  *)
(* lengths of the files and what deflate makes of them; the model          *)
(* catalogue stays whole however many processes fetch it and die; `logs    *)
(* tail` prints no event twice; a call to a service takes effect once and  *)
(* hands each event of a stream on once; an SSO session is kept by all who *)
(* share its token; a tunnel loses nothing that it was given; a list that  *)
(* is printed in several runs is printed once; a listing of a bucket that  *)
(* changes is in order and complete; and a sync that succeeds mirrors its  *)
(* source and leaves the next one nothing to do.                           *)
(***************************************************************************)
EXTENDS Bundle, LogsTail, Tunnel, Paginate, Listing, SyncPlan, SequenceTheorems,
        FiniteSetTheorems, WellFoundedInduction, TLAPS

(* The entries lie one after another in the body, and what is recorded of  *)
(* each is so but for its compressed length, which is cut.                 *)
InPlace ==
  /\ Len(entries) = Len(real)
  /\ \A i \in 1 .. Len(real) :
       /\ real[i].offset + LocalHeader + real[i].packed <= body
       /\ entries[i].file = real[i].file /\ entries[i].size = real[i].size
       /\ entries[i].packed = Low(real[i].packed)
       /\ entries[i].offset = real[i].offset
  /\ \A i, j \in 1 .. Len(real) :
       i < j => real[i].offset + LocalHeader + real[i].packed <= real[j].offset

(* Nothing is uploaded or stored before the end of the archive was checked.*)
Sent ==
  /\ bundleAt \in {"upload", "parts", "register", "done"} => Readable
  /\ stored => Readable /\ bundleAt \in {"register", "done", "failed"}
BundleInv == BundleTypeOK /\ InPlace /\ Sent

(* A length below the width is not changed by the cut.                     *)
LEMMA LowBelow == ASSUME NEW n \in Nat, n < Width PROVE Low(n) = n
  BY DEF Low
LEMMA LowNat == ASSUME NEW n \in Nat PROVE Low(n) \in Nat
  BY BundleAssumption DEF Low

(* The types of the state.                                                 *)
LEMMA TypeInit == BundleInit => BundleTypeOK
<1>. SUFFICES ASSUME BundleInit PROVE BundleTypeOK
  OBVIOUS
<1>1. entries \in Seq(EntryRecords) /\ real \in Seq(EntryRecords)
  BY DEF BundleInit
<1>2. footer \in [count : Nat, size : Nat, offset : Nat]
  BY DEF BundleInit, NoFooter
<1>. QED BY <1>1, <1>2 DEF BundleInit, BundleTypeOK

(* What a step of Archive::add may be.                                     *)
Added(f, c) ==
  /\ tree[f] # Absent /\ tree[f] < Width /\ body < Width
  /\ entries' = Append(entries, [file |-> f, size |-> Low(tree[f]),
                       packed |-> Low(c), offset |-> Low(body)])
  /\ real' = Append(real, [file |-> f, size |-> tree[f], packed |-> c,
                           offset |-> body])
  /\ body' = body + LocalHeader + c
  /\ files' = files \ {f} /\ UNCHANGED bundleAt
Stopped == UNCHANGED <<files, entries, real, body>> /\ bundleAt' \in {"failed", "refused"}

LEMMA AddCases ==
  ASSUME BundleTypeOK, AddFile
  PROVE  /\ bundleAt = "add" /\ UNCHANGED <<treeVars, footer, stored>>
         /\ \/ Stopped
            \/ \E f \in AllFiles, c \in Nat : tree[f] \in Nat /\ Added(f, c)
<1>1. PICK f \in files :
        LET n == tree[f]
            Stop(why) == bundleAt' = why /\ UNCHANGED <<files, entries, real, body>>
        IN \/ n = Absent /\ Stop("failed")
           \/ n # Absent /\ (n >= Width \/ body >= Width) /\ Stop("refused")
           \/ /\ n # Absent /\ n < Width /\ body < Width
              /\ \E c \in Compressed(n) :
                   /\ entries' = Append(entries, [file |-> f, size |-> Low(n),
                                        packed |-> Low(c), offset |-> Low(body)])
                   /\ real' = Append(real, [file |-> f, size |-> n, packed |-> c,
                                            offset |-> body])
                   /\ body' = body + LocalHeader + c
              /\ files' = files \ {f} /\ UNCHANGED bundleAt
  BY Zenon DEF AddFile
<1>2. bundleAt = "add" /\ UNCHANGED <<treeVars, footer, stored>>
  BY DEF AddFile, sentVars
<1>3. Stopped \/ \E c \in Compressed(tree[f]) : Added(f, c)
  BY <1>1 DEF Stopped, Added
<1>4. CASE \E c \in Compressed(tree[f]) : Added(f, c)
  <2>1. PICK c \in Compressed(tree[f]) : Added(f, c)
    BY <1>4
  <2>2. f \in AllFiles /\ tree[f] \in Nat
    BY <2>1, BundleAssumption DEF BundleTypeOK, Added
  <2>3. c \in Nat
    BY <2>2, BundleAssumption DEF Compressed
  <2>. QED BY <1>2, <2>1, <2>2, <2>3
<1>. QED BY <1>2, <1>3, <1>4

LEMMA TypeAdd == ASSUME BundleTypeOK, AddFile PROVE BundleTypeOK'
<1>1. UNCHANGED <<treeVars, footer, stored>>
  BY AddCases
<1>2. CASE Stopped
  BY <1>1, <1>2 DEF Stopped, BundleTypeOK, treeVars
<1>3. ASSUME NEW f \in AllFiles, NEW c \in Nat, tree[f] \in Nat, Added(f, c)
      PROVE  BundleTypeOK'
  <2>1. Low(c) \in Nat /\ Low(tree[f]) \in Nat /\ Low(body) \in Nat
    BY <1>3, LowNat DEF BundleTypeOK
  <2>2. /\ [file |-> f, size |-> tree[f], packed |-> c, offset |-> body] \in EntryRecords
        /\ [file |-> f, size |-> Low(tree[f]), packed |-> Low(c), offset |-> Low(body)]
             \in EntryRecords
    BY <1>3, <2>1 DEF EntryRecords, BundleTypeOK
  <2>3. entries' \in Seq(EntryRecords) /\ real' \in Seq(EntryRecords)
    BY <1>3, <2>2, AppendProperties DEF Added, BundleTypeOK
  <2>4. body' \in Nat
    BY <1>3, BundleAssumption DEF Added, BundleTypeOK
  <2>. QED BY <1>1, <1>3, <2>3, <2>4 DEF Added, BundleTypeOK, treeVars
<1>. QED BY <1>2, <1>3, AddCases

LEMMA TypeStep == ASSUME BundleTypeOK, [BundleNext]_bundleVars PROVE BundleTypeOK'
<1>1. CASE HasAnyFile \/ CreateBuild \/ GrantUpload \/ Register \/ UnreadableDir \/ Walked
  BY <1>1 DEF HasAnyFile, CreateBuild, GrantUpload, Register, UnreadableDir, Walked, Passes,
     BundleTypeOK, treeVars, archiveVars, sentVars
<1>2. CASE ListDir
  BY <1>2 DEF ListDir, Here, BundleTypeOK, treeVars, archiveVars, sentVars
<1>3. CASE AddFile
  BY <1>3, TypeAdd
<1>4. CASE Finish
  <2>1. Len(entries) \in Nat /\ DirectoryLength \in Nat
    BY BundleAssumption, LenProperties DEF BundleTypeOK, DirectoryLength
  <2>2. footer' \in [count : Nat, size : Nat, offset : Nat]
    BY <1>4, <2>1 DEF Finish, BundleTypeOK
  <2>. QED BY <1>4, <2>2 DEF Finish, BundleTypeOK, treeVars, sentVars
<1>5. CASE PutObject \/ CreateUpload \/ UploadPart \/ AbortUpload \/ CompleteUpload
  BY <1>5 DEF PutObject, CreateUpload, UploadPart, AbortUpload, CompleteUpload, Uploaded,
     Passes, BundleTypeOK, treeVars, archiveVars
<1>6. CASE EditFile
  BY <1>6 DEF EditFile, BundleTypeOK, archiveVars, sentVars
<1>7. CASE UNCHANGED bundleVars
  BY <1>7 DEF bundleVars, BundleTypeOK, treeVars, archiveVars, sentVars
<1>. QED BY <1>1, <1>2, <1>3, <1>4, <1>5, <1>6, <1>7 DEF BundleNext, BundleStep

-----------------------------------------------------------------------------
(* The records of the entries.                                             *)
LEMMA RecordsTyped ==
  ASSUME BundleTypeOK
  PROVE  /\ \A i \in 1 .. Len(real) : /\ real[i] \in EntryRecords
                                      /\ real[i].offset \in Nat /\ real[i].packed \in Nat
         /\ \A i \in 1 .. Len(entries) : entries[i] \in EntryRecords
<1>1. \A i \in 1 .. Len(real) : real[i] \in EntryRecords
  BY ElementOfSeq DEF BundleTypeOK
<1>2. \A i \in 1 .. Len(entries) : entries[i] \in EntryRecords
  BY ElementOfSeq DEF BundleTypeOK
<1>. QED BY <1>1, <1>2 DEF EntryRecords

(* One more entry is placed behind the others.                             *)
LEMMA InPlaceAdd ==
  ASSUME BundleTypeOK, InPlace, NEW f \in AllFiles, NEW c \in Nat, tree[f] \in Nat,
         Added(f, c)
  PROVE  InPlace'
<1>. DEFINE n == Len(real)
            e == [file |-> f, size |-> Low(tree[f]), packed |-> Low(c), offset |-> Low(body)]
            r == [file |-> f, size |-> tree[f], packed |-> c, offset |-> body]
<1>1. entries' = Append(entries, e) /\ real' = Append(real, r)
      /\ body' = body + LocalHeader + c
  BY DEF Added
<1>2. Len(entries) = n /\ n \in Nat
  BY LenProperties DEF InPlace, BundleTypeOK
<1>3. e.size = r.size /\ e.offset = r.offset
  BY LowBelow DEF Added, BundleTypeOK
<1>. HIDE DEF e, r
<1>4. /\ Len(real') = n + 1 /\ Len(entries') = n + 1
      /\ \A i \in 1 .. n : real'[i] = real[i] /\ entries'[i] = entries[i]
      /\ real'[n + 1] = r /\ entries'[n + 1] = e
  BY <1>1, <1>2 DEF BundleTypeOK
<1>5. /\ r.offset = body /\ r.packed = c /\ e.file = r.file /\ e.packed = Low(r.packed)
  BY DEF e, r
<1>6. \A i \in 1 .. n : real[i].offset \in Nat /\ real[i].packed \in Nat
  BY RecordsTyped
<1>7. body \in Nat /\ LocalHeader \in Nat
  BY BundleAssumption DEF BundleTypeOK
<1>8. \A i \in 1 .. n + 1 :
        /\ real'[i].offset + LocalHeader + real'[i].packed <= body'
        /\ entries'[i].file = real'[i].file /\ entries'[i].size = real'[i].size
        /\ entries'[i].packed = Low(real'[i].packed)
        /\ entries'[i].offset = real'[i].offset
  <2>1. \A i \in 1 .. n : real[i].offset + LocalHeader + real[i].packed <= body
    BY DEF InPlace
  <2>2. ASSUME NEW i \in 1 .. n
        PROVE  /\ real'[i].offset + LocalHeader + real'[i].packed <= body'
               /\ entries'[i].file = real'[i].file /\ entries'[i].size = real'[i].size
               /\ entries'[i].packed = Low(real'[i].packed)
               /\ entries'[i].offset = real'[i].offset
    <3>1. real[i].offset + LocalHeader + real[i].packed <= body + LocalHeader + c
      BY <2>1, <1>6, <1>7
    <3>. QED BY <3>1, <1>1, <1>4 DEF InPlace
  <2>3. r.offset + LocalHeader + r.packed <= body'
    BY <1>1, <1>5, <1>7
  <2>. QED BY <2>2, <2>3, <1>2, <1>3, <1>4, <1>5
<1>9. \A i, j \in 1 .. n + 1 :
        i < j => real'[i].offset + LocalHeader + real'[i].packed <= real'[j].offset
  BY <1>2, <1>4, <1>5 DEF InPlace
<1>. QED BY <1>4, <1>8, <1>9 DEF InPlace, Low

LEMMA InPlaceStep ==
  ASSUME BundleTypeOK, InPlace, [BundleNext]_bundleVars
  PROVE  InPlace'
<1>1. CASE AddFile
  BY <1>1, AddCases, InPlaceAdd DEF InPlace, Stopped, Low
<1>2. CASE UNCHANGED <<entries, real, body>>
  BY <1>2 DEF InPlace, Low
<1>3. ASSUME ~AddFile PROVE UNCHANGED <<entries, real, body>>
  BY <1>3 DEF BundleNext, BundleStep, HasAnyFile, CreateBuild, GrantUpload, Register, ListDir,
     UnreadableDir, Walked, Finish, PutObject, CreateUpload, UploadPart, AbortUpload,
     CompleteUpload, EditFile, Passes, bundleVars, archiveVars
<1>. QED BY <1>1, <1>2, <1>3
-----------------------------------------------------------------------------
(* At the end of the archive, a body below the width leaves no length that *)
(* was cut.                                                                *)
LEMMA FinishReadable ==
  ASSUME BundleTypeOK, InPlace, Finish, bundleAt' = "upload"
  PROVE  Readable'
<1>1. /\ body < Width /\ UNCHANGED <<entries, real, body>>
      /\ footer' = [count |-> Len(entries), size |-> DirectoryLength, offset |-> body]
  BY DEF Finish, Fits
<1>. DEFINE n == Len(real)
<1>2. n \in Nat /\ Len(entries) = n /\ body \in Nat /\ LocalHeader \in Nat /\ Width \in Nat
  BY BundleAssumption, LenProperties DEF BundleTypeOK, InPlace
<1>3. \A i \in 1 .. n : entries[i] = real[i]
  <2>. SUFFICES ASSUME NEW i \in 1 .. n PROVE entries[i] = real[i]
    OBVIOUS
  <2>1. entries[i] \in EntryRecords /\ real[i] \in EntryRecords
        /\ real[i].offset \in Nat /\ real[i].packed \in Nat
    BY <1>2, RecordsTyped
  <2>2. real[i].packed < Width
    BY <1>1, <1>2, <2>1 DEF InPlace
  <2>3. entries[i].packed = real[i].packed
    BY <2>1, <2>2, LowBelow DEF InPlace
  <2>. QED BY <2>1, <2>3 DEF InPlace, EntryRecords
<1>4. entries = real
  BY <1>2, <1>3, SeqEqual DEF BundleTypeOK
<1>5. DOMAIN real = 1 .. n
  BY LenProperties DEF BundleTypeOK
<1>. QED BY <1>1, <1>2, <1>4, <1>5 DEF Readable, InPlace

LEMMA SentStep ==
  ASSUME BundleInv, [BundleNext]_bundleVars
  PROVE  Sent'
<1>. USE DEF BundleInv
<1>1. CASE Finish
  <2>1. bundleAt = "add" /\ UNCHANGED stored /\ bundleAt' \in {"upload", "failed", "refused"}
    BY <1>1 DEF Finish, sentVars
  <2>. QED BY <1>1, <2>1, FinishReadable DEF Sent
<1>2. CASE AddFile
  <2>1. bundleAt = "add" /\ UNCHANGED stored /\ bundleAt' \in {"add", "failed", "refused"}
    BY <1>2, AddCases DEF Stopped, Added
  <2>. QED BY <2>1 DEF Sent
<1>3. CASE HasAnyFile \/ CreateBuild \/ GrantUpload \/ ListDir \/ UnreadableDir \/ Walked
  <2>1. /\ UNCHANGED stored /\ bundleAt \in {"check", "create", "grant", "walk"}
        /\ bundleAt' \in {"create", "grant", "walk", "add", "failed"}
    BY <1>3 DEF HasAnyFile, CreateBuild, GrantUpload, ListDir, UnreadableDir, Walked, Passes,
       sentVars
  <2>. QED BY <2>1 DEF Sent
<1>4. CASE PutObject \/ CreateUpload \/ UploadPart \/ CompleteUpload \/ Register
  <2>1. Readable /\ UNCHANGED archiveVars
    BY <1>4 DEF PutObject, CreateUpload, UploadPart, CompleteUpload, Register, Passes, Sent
  <2>2. Readable'
    BY <2>1 DEF Readable, archiveVars
  <2>3. CASE PutObject \/ CompleteUpload \/ Register
    BY <2>2, <2>3 DEF PutObject, CompleteUpload, Register, Uploaded, Passes, Sent
  <2>4. CASE CreateUpload \/ UploadPart
    <3>1. /\ UNCHANGED stored /\ bundleAt \in {"upload", "parts"}
          /\ bundleAt' \in {"parts", "abort", "failed"}
      BY <2>4 DEF CreateUpload, UploadPart, Passes
    <3>. QED BY <2>2, <3>1 DEF Sent
  <2>. QED BY <1>4, <2>3, <2>4
<1>6. CASE AbortUpload
  <2>1. bundleAt = "abort" /\ bundleAt' = "failed" /\ UNCHANGED stored
    BY <1>6 DEF AbortUpload, Passes
  <2>. QED BY <2>1 DEF Sent
<1>5. CASE EditFile \/ UNCHANGED bundleVars
  <2>1. UNCHANGED <<bundleAt, archiveVars, stored>>
    BY <1>5 DEF EditFile, bundleVars, sentVars
  <2>. QED BY <2>1 DEF Sent, Readable, archiveVars
<1>. QED BY <1>1, <1>2, <1>3, <1>4, <1>5, <1>6 DEF BundleNext, BundleStep

(* What leaves the machine can be read: no record of an archive that is at *)
(* its destination was cut.                                                *)
THEOREM ArchivesReadable == BundleSpec => []ArchiveReadable
<1>1. BundleInit => BundleInv
  <2>. SUFFICES ASSUME BundleInit PROVE BundleInv
    OBVIOUS
  <2>1. InPlace
    BY DEF BundleInit, InPlace
  <2>2. Sent
    BY DEF BundleInit, Sent
  <2>. QED BY <2>1, <2>2, TypeInit DEF BundleInv
<1>2. BundleInv /\ [BundleNext]_bundleVars => BundleInv'
  BY TypeStep, InPlaceStep, SentStep DEF BundleInv
<1>3. BundleInv => ArchiveReadable
  BY DEF BundleInv, Sent, ArchiveReadable
<1>. QED BY <1>1, <1>2, <1>3, PTL DEF BundleSpec

(* And the types of its state.                                             *)
THEOREM BundleTypeCorrect == BundleSpec => []BundleTypeOK
<1>1. BundleTypeOK /\ [BundleNext]_bundleVars => BundleTypeOK'
  BY TypeStep
<1>. QED BY <1>1, TypeInit, PTL DEF BundleSpec

-----------------------------------------------------------------------------
(* The catalogue that processes fetch. *)

CONSTANTS Fetchers, MaxCrashes
VARIABLES job, fetchAt, asset, handle, partial, installed, crashes, shared

Fetch == INSTANCE Catalogue

Opened(p) == fetchAt[p] \in {"write", "rename", "use", "failed", "killed"}

(* Of a file: somebody truncated it, and has written it unless it is still *)
(* at it or has given up.                                                  *)
Truncated(file) ==
  /\ file \in [by : Fetchers, whole : BOOLEAN]
  /\ ~file.whole => fetchAt[file.by] \in {"write", "failed", "killed"}

(* Who is to write a file has it open under the name it has by now, and    *)
(* while one process has it in hand that another truncated the two have    *)
(* shared it.                                                              *)
FetchInv ==
  /\ job \in [Fetchers -> {"command", "update"}]
  /\ fetchAt \in [Fetchers -> {"look", "fetch", "check", "open", "write", "rename", "use",
                               "failed", "killed"}]
  /\ asset \in [Fetchers -> {"whole", "damaged"}]
  /\ handle \in [Fetchers -> {"none", "partial", "installed"}]
  /\ partial # Fetch!NoFile =>
       /\ Truncated(partial)
       /\ fetchAt[partial.by] = "write" => handle[partial.by] = "partial"
       /\ \A p \in Fetchers : p # partial.by /\ fetchAt[p] \in {"write", "rename"} => shared
  /\ installed # Fetch!NoFile =>
       /\ Truncated(installed)
       /\ ~installed.whole => shared
       /\ ~installed.whole /\ fetchAt[installed.by] = "write" => handle[installed.by] = "installed"
  /\ \A p \in Fetchers : fetchAt[p] = "use" => installed # Fetch!NoFile
  /\ \A p \in Fetchers : asset[p] = "damaged" => fetchAt[p] \in {"check", "failed"}


(* Processes go from one place to the next; none comes back. *)
LEMMA Moved ==
  ASSUME FetchInv, NEW p \in Fetchers, NEW from, NEW to, Fetch!Moves(p, from, to)
  PROVE  fetchAt[p] = from /\ fetchAt'[p] = to /\ \A q \in Fetchers \ {p} : fetchAt'[q] = fetchAt[q]
BY DEF FetchInv, Fetch!Moves

LEMMA FetchTypes ==
  ASSUME FetchInv, NEW p \in Fetchers, Fetch!CatStep(p) \/ Fetch!Killed(p)
  PROVE  /\ job' \in [Fetchers -> {"command", "update"}]
         /\ fetchAt' \in [Fetchers -> {"look", "fetch", "check", "open", "write", "rename", "use",
                                       "failed", "killed"}]
         /\ asset' \in [Fetchers -> {"whole", "damaged"}]
         /\ handle' \in [Fetchers -> {"none", "partial", "installed"}]
<1>1. job' \in [Fetchers -> {"command", "update"}]
  BY DEF FetchInv, Fetch!CatStep, Fetch!Look, Fetch!FetchAsset, Fetch!CheckAsset, Fetch!OpenPartial,
         Fetch!WritePartial, Fetch!Rename, Fetch!Killed
<1>2. fetchAt' \in [Fetchers -> {"look", "fetch", "check", "open", "write", "rename", "use",
                                 "failed", "killed"}]
  BY DEF FetchInv, Fetch!CatStep, Fetch!Look, Fetch!FetchAsset, Fetch!CheckAsset, Fetch!OpenPartial,
         Fetch!WritePartial, Fetch!Rename, Fetch!Killed, Fetch!Moves
<1>3. asset' \in [Fetchers -> {"whole", "damaged"}]
  BY DEF FetchInv, Fetch!CatStep, Fetch!Look, Fetch!FetchAsset, Fetch!CheckAsset, Fetch!OpenPartial,
         Fetch!WritePartial, Fetch!Rename, Fetch!Killed
<1>4. handle' \in [Fetchers -> {"none", "partial", "installed"}]
  BY DEF FetchInv, Fetch!CatStep, Fetch!Look, Fetch!FetchAsset, Fetch!CheckAsset, Fetch!OpenPartial,
         Fetch!WritePartial, Fetch!Rename, Fetch!Killed
<1>5. QED
  BY <1>1, <1>2, <1>3, <1>4

LEMMA MadeWhole ==
  ASSUME NEW file \in [by : Fetchers, whole : BOOLEAN], NEW g, g = [file EXCEPT !.whole = TRUE]
  PROVE  g \in [by : Fetchers, whole : BOOLEAN] /\ g.by = file.by /\ g.whole = TRUE
OBVIOUS

LEMMA FetchStep ==
  ASSUME FetchInv, 0 \notin Fetchers, NEW p \in Fetchers, Fetch!CatStep(p) \/ Fetch!Killed(p)
  PROVE  FetchInv'
<1> USE DEF Fetch!NoFile
<1>1. /\ fetchAt \in [Fetchers -> {"look", "fetch", "check", "open", "write", "rename", "use", "failed", "killed"}]
      /\ asset \in [Fetchers -> {"whole", "damaged"}]
      /\ handle \in [Fetchers -> {"none", "partial", "installed"}]
      /\ partial # Fetch!NoFile =>
           /\ Truncated(partial)
           /\ fetchAt[partial.by] = "write" => handle[partial.by] = "partial"
           /\ \A q \in Fetchers : q # partial.by /\ fetchAt[q] \in {"write", "rename"} => shared
      /\ installed # Fetch!NoFile =>
           /\ Truncated(installed)
           /\ ~installed.whole => shared
           /\ ~installed.whole /\ fetchAt[installed.by] = "write" => handle[installed.by] = "installed"
      /\ \A q \in Fetchers : fetchAt[q] = "use" => installed # Fetch!NoFile
      /\ \A q \in Fetchers : asset[q] = "damaged" => fetchAt[q] \in {"check", "failed"}
  BY DEF FetchInv
<1> DEFINE PartialOk ==
      partial # Fetch!NoFile =>
        /\ Truncated(partial)
        /\ fetchAt[partial.by] = "write" => handle[partial.by] = "partial"
        /\ \A q \in Fetchers : q # partial.by /\ fetchAt[q] \in {"write", "rename"} => shared
    InstalledOk ==
      installed # Fetch!NoFile =>
        /\ Truncated(installed)
        /\ ~installed.whole => shared
        /\ ~installed.whole /\ fetchAt[installed.by] = "write" => handle[installed.by] = "installed"
    UsedOk ==
      /\ \A q \in Fetchers : fetchAt[q] = "use" => installed # Fetch!NoFile
      /\ \A q \in Fetchers : asset[q] = "damaged" => fetchAt[q] \in {"check", "failed"}
<1>2. PartialOk' /\ InstalledOk' /\ UsedOk' => FetchInv'
  BY FetchTypes DEF FetchInv
<1>3. CASE Fetch!Look(p) \/ Fetch!FetchAsset(p) \/ Fetch!CheckAsset(p)
  <2>1. /\ fetchAt[p] \in {"look", "fetch", "check"}
        /\ fetchAt'[p] \in {"fetch", "use", "check", "open", "failed"}
        /\ \A q \in Fetchers \ {p} : fetchAt'[q] = fetchAt[q]
        /\ UNCHANGED <<handle, partial, installed, shared>>
    BY <1>1, <1>3 DEF Fetch!Look, Fetch!FetchAsset, Fetch!CheckAsset, Fetch!Moves
  <2>2. fetchAt'[p] = "use" => installed # Fetch!NoFile
    BY <1>1, <1>3 DEF Fetch!Look, Fetch!FetchAsset, Fetch!CheckAsset, Fetch!Moves
  <2>3. \A q \in Fetchers : asset'[q] = "damaged" => fetchAt'[q] \in {"check", "failed"}
    <3>1. CASE Fetch!Look(p)
      BY <1>1, <3>1 DEF Fetch!Look, Fetch!Moves
    <3>2. CASE Fetch!FetchAsset(p)
      BY <1>1, <3>2 DEF Fetch!FetchAsset, Fetch!Moves
    <3>3. CASE Fetch!CheckAsset(p)
      BY <1>1, <3>3 DEF Fetch!CheckAsset, Fetch!Moves
    <3>4. QED
      BY <1>3, <3>1, <3>2, <3>3
  <2>4. PartialOk' /\ InstalledOk'
    BY <1>1, <2>1 DEF Truncated
  <2>5. UsedOk'
    BY <1>1, <2>1, <2>2, <2>3
  <2>6. QED
    BY <1>2, <2>4, <2>5
<1>4. CASE Fetch!OpenPartial(p)
  <2>1. /\ fetchAt[p] = "open" /\ fetchAt'[p] = "write" /\ \A q \in Fetchers \ {p} : fetchAt'[q] = fetchAt[q]
        /\ partial' = [by |-> p, whole |-> FALSE]
        /\ handle'[p] = "partial" /\ \A q \in Fetchers \ {p} : handle'[q] = handle[q]
        /\ shared' = (shared \/ \E q \in Fetchers \ {p} : fetchAt[q] \in {"write", "rename"})
        /\ UNCHANGED <<asset, installed>>
    BY <1>1, <1>4 DEF Fetch!OpenPartial, Fetch!Moves, Fetch!Begun
  <2>2. PartialOk'
    BY <1>1, <2>1 DEF Truncated
  <2>3. InstalledOk'
    BY <1>1, <2>1 DEF Truncated
  <2>4. UsedOk'
    BY <1>1, <2>1
  <2>5. QED
    BY <1>2, <2>2, <2>3, <2>4
<1>5. CASE Fetch!WritePartial(p)
  <2>1. /\ fetchAt[p] = "write" /\ fetchAt'[p] \in {"rename", "failed"}
        /\ \A q \in Fetchers \ {p} : fetchAt'[q] = fetchAt[q]
        /\ handle'[p] = "none" /\ \A q \in Fetchers \ {p} : handle'[q] = handle[q]
        /\ UNCHANGED <<asset, shared>>
    BY <1>1, <1>5 DEF Fetch!WritePartial, Fetch!Moves
  <2>2. /\ partial = Fetch!NoFile => partial' = partial
        /\ partial # Fetch!NoFile =>
             /\ partial' \in [by : Fetchers, whole : BOOLEAN] /\ partial'.by = partial.by
             /\ partial.whole => partial'.whole
             /\ fetchAt'[p] = "rename" /\ partial.by = p => partial'.whole
    <3>1. partial = Fetch!NoFile => partial' = partial
      BY <1>1, <1>5 DEF Fetch!WritePartial, Fetch!Moves, Fetch!Fill
    <3>2. ASSUME partial # Fetch!NoFile
          PROVE  /\ partial' \in [by : Fetchers, whole : BOOLEAN] /\ partial'.by = partial.by
                 /\ partial.whole => partial'.whole
                 /\ fetchAt'[p] = "rename" /\ partial.by = p => partial'.whole
      <4>1. partial \in [by : Fetchers, whole : BOOLEAN]
        BY <1>1, <3>2 DEF Truncated
      <4>2. CASE partial' = partial /\ (fetchAt'[p] = "rename" /\ partial.by = p => partial.whole)
        BY <4>1, <4>2
      <4>3. CASE partial' = [partial EXCEPT !.whole = TRUE]
        <5>1. partial' \in [by : Fetchers, whole : BOOLEAN] /\ partial'.by = partial.by /\ partial'.whole = TRUE
          BY <4>1, <4>3, MadeWhole
        <5>2. QED
          BY <5>1
      <4>4. \/ partial' = partial /\ (fetchAt'[p] = "rename" /\ partial.by = p => partial.whole)
            \/ partial' = [partial EXCEPT !.whole = TRUE]
        BY <1>1, <1>5, <3>2 DEF Fetch!WritePartial, Fetch!Moves, Fetch!Fill
      <4>5. QED
        BY <4>2, <4>3, <4>4
    <3>3. QED
      BY <3>1, <3>2
  <2>3. /\ installed = Fetch!NoFile => installed' = installed
        /\ installed # Fetch!NoFile =>
             /\ installed' \in [by : Fetchers, whole : BOOLEAN] /\ installed'.by = installed.by
             /\ installed.whole => installed'.whole
             /\ fetchAt'[p] = "rename" /\ installed.by = p => installed'.whole
    <3>1. installed = Fetch!NoFile => installed' = installed
      BY <1>1, <1>5 DEF Fetch!WritePartial, Fetch!Moves, Fetch!Fill
    <3>2. ASSUME installed # Fetch!NoFile
          PROVE  /\ installed' \in [by : Fetchers, whole : BOOLEAN] /\ installed'.by = installed.by
                 /\ installed.whole => installed'.whole
                 /\ fetchAt'[p] = "rename" /\ installed.by = p => installed'.whole
      <4>1. installed \in [by : Fetchers, whole : BOOLEAN]
        BY <1>1, <3>2 DEF Truncated
      <4>2. CASE installed' = installed /\ (fetchAt'[p] = "rename" /\ installed.by = p => installed.whole)
        BY <4>1, <4>2
      <4>3. CASE installed' = [installed EXCEPT !.whole = TRUE]
        <5>1. installed' \in [by : Fetchers, whole : BOOLEAN] /\ installed'.by = installed.by /\ installed'.whole = TRUE
          BY <4>1, <4>3, MadeWhole
        <5>2. QED
          BY <5>1
      <4>4. \/ installed' = installed /\ (fetchAt'[p] = "rename" /\ installed.by = p => installed.whole)
            \/ installed' = [installed EXCEPT !.whole = TRUE]
        BY <1>1, <1>5, <3>2 DEF Fetch!WritePartial, Fetch!Moves, Fetch!Fill
      <4>5. QED
        BY <4>2, <4>3, <4>4
    <3>3. QED
      BY <3>1, <3>2
  <2>4. PartialOk'
    BY <1>1, <2>1, <2>2 DEF Truncated
  <2>5. InstalledOk'
    BY <1>1, <2>1, <2>3 DEF Truncated
  <2>6. UsedOk'
    BY <1>1, <2>1, <2>3 DEF Truncated
  <2>7. QED
    BY <1>2, <2>4, <2>5, <2>6
<1>6. CASE Fetch!Rename(p)
  <2>1. CASE partial = Fetch!NoFile
    <3>1. /\ fetchAt[p] = "rename" /\ fetchAt'[p] = "failed"
          /\ \A q \in Fetchers \ {p} : fetchAt'[q] = fetchAt[q]
          /\ UNCHANGED <<asset, handle, partial, installed, shared>>
      BY <1>1, <1>6, <2>1 DEF Fetch!Rename, Fetch!Moves
    <3>2. PartialOk' /\ InstalledOk' /\ UsedOk'
      BY <1>1, <3>1 DEF Truncated
    <3>3. QED
      BY <1>2, <3>2
  <2>2. CASE partial # Fetch!NoFile
    <3>1. /\ fetchAt[p] = "rename" /\ fetchAt'[p] = "use"
          /\ \A q \in Fetchers \ {p} : fetchAt'[q] = fetchAt[q]
          /\ installed' = partial /\ partial' = Fetch!NoFile
          /\ \A q \in Fetchers : handle[q] = "partial" => handle'[q] = "installed"
          /\ UNCHANGED <<asset, shared>>
      BY <1>1, <1>6, <2>2 DEF Fetch!Rename, Fetch!Moves
    <3>2. ~partial.whole => partial.by # p /\ shared
      BY <1>1, <2>2, <3>1 DEF Truncated
    <3>3. PartialOk' /\ UsedOk'
      BY <1>1, <2>2, <3>1
    <3>4. InstalledOk'
      BY <1>1, <2>2, <3>1, <3>2 DEF Truncated
    <3>5. QED
      BY <1>2, <3>3, <3>4
  <2>3. QED
    BY <2>1, <2>2
<1>7. CASE Fetch!Killed(p)
  <2>1. /\ fetchAt[p] \in {"write", "rename"} /\ fetchAt'[p] = "killed"
        /\ \A q \in Fetchers \ {p} : fetchAt'[q] = fetchAt[q] /\ handle'[q] = handle[q]
        /\ UNCHANGED <<asset, partial, installed, shared>>
    BY <1>1, <1>7 DEF Fetch!Killed
  <2>2. PartialOk' /\ InstalledOk' /\ UsedOk'
    BY <1>1, <2>1 DEF Truncated
  <2>3. QED
    BY <1>2, <2>2
<1>8. QED
  BY <1>3, <1>4, <1>5, <1>6, <1>7 DEF Fetch!CatStep

(* What is in place is a whole catalogue, however many processes fetch it  *)
(* at once and whenever they are killed, but for two that shared the       *)
(* temporary file (`fetch` of catalogue.rs).  Nobody has the number of the *)
(* file that is not there.                                                 *)
THEOREM CatalogueStaysWhole ==
  ASSUME 0 \notin Fetchers
  PROVE  Fetch!Spec => []Fetch!CatalogueWhole
<1>1. Fetch!CatInit => FetchInv
  BY DEF Fetch!CatInit, FetchInv, Fetch!NoFile
<1>2. FetchInv /\ [Fetch!CatNext]_(Fetch!catVars) => FetchInv'
  <2> SUFFICES ASSUME FetchInv, [Fetch!CatNext]_(Fetch!catVars) PROVE FetchInv'
    OBVIOUS
  <2>1. CASE UNCHANGED Fetch!catVars
    BY <2>1 DEF FetchInv, Truncated, Fetch!catVars, Fetch!NoFile
  <2>2. CASE Fetch!CatNext
    BY <2>2, FetchStep DEF Fetch!CatNext
  <2>3. QED
    BY <2>1, <2>2
<1>3. FetchInv => Fetch!CatalogueWhole
  BY DEF FetchInv, Truncated, Fetch!CatalogueWhole, Fetch!NoFile
<1>4. QED
  BY <1>1, <1>2, <1>3, PTL DEF Fetch!Spec

-----------------------------------------------------------------------------
(* The events that `logs tail` prints. *)

(* Events are dated after the epoch, there are finitely many, and an       *)
(* answer may hold one.                                                    *)
TailConstants ==
  /\ Events \subseteq [ts : Nat \ {0}, id : Nat \ {0}] /\ IsFiniteSet(Events)
  /\ LogPageSize \in Nat \ {0}

(* The millisecond the scan has come to. *)
Reached == IF nextToken = NoEvent THEN startTime ELSE nextToken.ts

(* What was printed is behind the scan: for the following command, in an   *)
(* earlier millisecond or among the ids that are kept of this one; for the *)
(* plain one, at or before the last event of the page.                     *)
TailInv ==
  /\ tailAt \in {"call", "print", "sleep", "done", "failed"} /\ follow \in BOOLEAN
  /\ log \subseteq Events /\ seen \subseteq Events /\ answer \subseteq Events
  /\ startTime \in Nat /\ nextToken \in Events \cup {NoEvent}
  /\ \A e \in Events : shown[e] \in {0, 1}
  /\ tailAt = "sleep" => follow
  /\ tailAt = "print" => /\ \A e \in answer : e.ts >= startTime /\ Before(nextToken, e)
                         /\ more => answer # {}
  /\ follow => /\ \A e \in seen : e.ts = Reached
               /\ nextToken # NoEvent => nextToken \in seen /\ nextToken.ts >= startTime
               /\ \A e \in Events : shown[e] = 1 => e \in seen \/ e.ts < Reached
  /\ ~follow /\ tailAt \in {"call", "print"} =>
       \A e \in Events : shown[e] = 1 => ~Before(nextToken, e)

LEMMA SmallestIsThere ==
  ASSUME NEW S, S \subseteq Nat, S # {}
  PROVE  \E x \in S : \A y \in S : x <= y
<1> DEFINE Less == OpToRel(<, Nat)
<1>1. IsWellFoundedOn(Less, Nat)
  BY NatLessThanWellFounded, Zenon
<1>2. Less = {ss \in Nat \X Nat : ss[1] < ss[2]}
  BY Zenon DEF OpToRel
<1> HIDE DEF Less
<1>3. PICK x \in S : \A y \in S : ~ (<<y, x>> \in Less)
  BY <1>1, WFMin
<1>4. ASSUME NEW y \in S PROVE x <= y
  <2>1. x \in Nat /\ y \in Nat
    OBVIOUS
  <2>2. <<y, x>> \notin Less /\ <<y, x>> \in Nat \X Nat
    BY <1>3, <2>1
  <2>3. ~ (y < x)
    BY <1>2, <2>2
  <2>4. QED
    BY <2>1, <2>3
<1>5. QED
  BY <1>4

(* A finite set has an element with none of the others before it.          *)
LEMMA ExtremeIsThere ==
  ASSUME NEW S, IsFiniteSet(S), S # {}, NEW R,
         \A x \in S : <<x, x>> \notin R,
         \A x, y, z \in S : <<x, y>> \in R /\ <<y, z>> \in R => <<x, z>> \in R
  PROVE  \E x \in S : \A y \in S : <<y, x>> \notin R
<1> DEFINE Under(x) == {y \in S : <<y, x>> \in R}
           Size(x) == Cardinality(Under(x))
           Least == {Size(x) : x \in S}
<1>1. \A x \in S : IsFiniteSet(Under(x))
  <2> TAKE x \in S
  <2>1. Under(x) \subseteq S
    OBVIOUS
  <2>2. QED
    BY <2>1, FS_Subset
<1>2. \A x \in S : Size(x) \in Nat
  <2> TAKE x \in S
  <2>1. IsFiniteSet(Under(x))
    BY <1>1
  <2>2. QED
    BY <2>1, FS_CardinalityType
<1>3. ASSUME NEW x \in S, NEW y \in S, <<y, x>> \in R
      PROVE  Size(y) < Size(x)
  <2>1. Under(y) \subseteq Under(x) /\ y \in Under(x) /\ y \notin Under(y)
    BY <1>3
  <2>2. IsFiniteSet(Under(x))
    BY <1>1
  <2> HIDE DEF Under
  <2>3. Under(y) # Under(x)
    BY <2>1, Zenon
  <2>4. /\ Cardinality(Under(y)) <= Cardinality(Under(x))
        /\ Cardinality(Under(y)) = Cardinality(Under(x)) => Under(y) = Under(x)
    BY <2>1, <2>2, FS_Subset
  <2>5. Size(x) \in Nat /\ Size(y) \in Nat
    BY <1>2
  <2>6. Size(y) <= Size(x) /\ Size(y) # Size(x)
    BY <2>3, <2>4, Zenon
  <2>7. QED
    BY <2>5, <2>6
<1> HIDE DEF Size
<1>4. Least \subseteq Nat
  BY <1>2
<1>5. Least # {}
  OBVIOUS
<1>6. PICK n \in Least : \A m \in Least : n <= m
  BY <1>4, <1>5, SmallestIsThere
<1>7. PICK x \in S : n = Size(x)
  BY <1>6
<1>8. ASSUME NEW y \in S, <<y, x>> \in R
      PROVE  FALSE
  <2>1. Size(y) < Size(x)
    BY <1>3, <1>8
  <2>2. Size(x) <= Size(y)
    BY <1>6, <1>7
  <2>3. Size(x) \in Nat /\ Size(y) \in Nat
    BY <1>2
  <2>4. QED
    BY <2>1, <2>2, <2>3
<1>9. QED
  BY <1>8

LEMMA EventFacts ==
  ASSUME TailConstants, NEW d \in Events \cup {NoEvent}
  PROVE  /\ d.ts \in Nat /\ d.id \in Nat /\ (d \in Events => d.ts >= 1)
         /\ d \in Events => d # NoEvent /\ Before(NoEvent, d)
BY DEF TailConstants, NoEvent, Before

LEMMA BeforeIsOrder ==
  ASSUME TailConstants, NEW d \in Events \cup {NoEvent}, NEW e \in Events \cup {NoEvent},
         NEW f \in Events \cup {NoEvent}
  PROVE  /\ ~Before(d, d)
         /\ Before(d, e) /\ Before(e, f) => Before(d, f)
         /\ Before(d, e) => d.ts <= e.ts
         /\ d.ts < e.ts => Before(d, e)
<1>1. d.ts \in Nat /\ d.id \in Nat /\ e.ts \in Nat /\ e.id \in Nat /\ f.ts \in Nat /\ f.id \in Nat
  BY EventFacts
<1>2. QED
  BY <1>1 DEF Before

LEMMA BeforeIsTotal ==
  ASSUME TailConstants, NEW d \in Events, NEW e \in Events
  PROVE  d = e \/ Before(d, e) \/ Before(e, d)
BY DEF TailConstants, Before

LEMMA NewestIsLast ==
  ASSUME TailConstants, NEW S, S \subseteq Events, S # {}
  PROVE  /\ Newest(S) \in S
         /\ \A d \in S : d = Newest(S) \/ Before(d, Newest(S))
<1>1. IsFiniteSet(S)
  BY FS_Subset DEF TailConstants
<1> DEFINE R == {ss \in S \X S : Before(ss[2], ss[1])}
<1>2. \A x \in S : <<x, x>> \notin R
  BY BeforeIsOrder
<1>3. \A x, y, z \in S : <<x, y>> \in R /\ <<y, z>> \in R => <<x, z>> \in R
  BY BeforeIsOrder
<1>4. \A x, y \in S : Before(x, y) => <<y, x>> \in R
  OBVIOUS
<1> HIDE DEF R
<1>5. PICK e \in S : \A d \in S : <<d, e>> \notin R
  BY <1>1, <1>2, <1>3, ExtremeIsThere
<1>6. \A d \in S : d = e \/ Before(d, e)
  BY <1>4, <1>5, BeforeIsTotal
<1>7. QED
  BY <1>6 DEF Newest

LEMMA SameCount == ASSUME NEW S PROVE Cardinality(S) = Cardinality(S)
BY Zenon DEF Cardinality, Cardinality

(* A page of what is due is not empty, if anything is.                     *)
LEMMA PageIsThere ==
  ASSUME TailConstants, NEW S, S \subseteq Events, S # {}
  PROVE  FirstOf(S) # {}
<1>1. IsFiniteSet(S)
  BY FS_Subset DEF TailConstants
<1> DEFINE R == {ss \in S \X S : Before(ss[1], ss[2])}
<1>2. \A x \in S : <<x, x>> \notin R
  BY BeforeIsOrder
<1>3. \A x, y, z \in S : <<x, y>> \in R /\ <<y, z>> \in R => <<x, z>> \in R
  BY BeforeIsOrder
<1>4. \A x, y \in S : Before(x, y) => <<x, y>> \in R
  OBVIOUS
<1> HIDE DEF R
<1>5. PICK e \in S : \A d \in S : <<d, e>> \notin R
  BY <1>1, <1>2, <1>3, ExtremeIsThere
<1>6. {d \in S : Before(d, e)} = {}
  BY <1>4, <1>5
<1>7. Cardinality({d \in S : Before(d, e)}) < LogPageSize
  BY <1>6, FS_EmptySet DEF TailConstants
<1>8. e \in FirstOf(S)
  BY <1>7, SameCount, Zenon DEF FirstOf
<1>9. QED
  BY <1>8


(* What both kinds of printing have in hand.                               *)
LEMMA AnswerIsAhead ==
  ASSUME TailConstants, TailInv, tailAt = "print", NEW e \in answer
  PROVE  /\ e \in Events /\ e.ts \in Nat /\ Reached \in Nat
         /\ follow => e.ts >= Reached
         /\ Before(nextToken, e)
<1>1. e \in Events /\ nextToken \in Events \cup {NoEvent} /\ startTime \in Nat
  BY DEF TailInv
<1>2. e.ts \in Nat /\ nextToken.ts \in Nat
  BY <1>1, EventFacts
<1>3. e.ts >= startTime /\ Before(nextToken, e)
  BY DEF TailInv
<1>4. nextToken.ts <= e.ts
  BY <1>1, <1>3, BeforeIsOrder
<1>5. QED
  BY <1>1, <1>2, <1>3, <1>4 DEF Reached

(* The newest of what is kept and what came is at or after the point that  *)
(* was reached, and none of the two is newer.                              *)
LEMMA NewestIsAhead ==
  ASSUME TailConstants, TailInv, tailAt = "print", follow, seen \cup answer # {}
  PROVE  LET m == Newest(seen \cup answer)
         IN  /\ m \in seen \cup answer /\ m.ts \in Nat /\ Reached \in Nat
             /\ m.ts >= Reached
             /\ \A d \in seen \cup answer : d.ts \in Nat /\ d.ts >= Reached /\ d.ts <= m.ts
<1>1. seen \cup answer \subseteq Events
  BY DEF TailInv
<1>2. PICK m \in seen \cup answer :
        /\ m = Newest(seen \cup answer)
        /\ \A d \in seen \cup answer : d = m \/ Before(d, m)
  BY <1>1, NewestIsLast
<1>3. \A d \in seen \cup answer : d.ts \in Nat /\ d.ts >= Reached /\ Reached \in Nat
  <2> TAKE d \in seen \cup answer
  <2>1. d.ts \in Nat
    BY <1>1, EventFacts
  <2>2. CASE d \in answer
    BY <2>2, AnswerIsAhead
  <2>3. CASE d \in seen
    BY <2>1, <2>3 DEF TailInv
  <2>4. QED
    BY <2>2, <2>3
<1>4. \A d \in seen \cup answer : d.ts <= m.ts
  <2> TAKE d \in seen \cup answer
  <2>1. d.ts \in Nat /\ m.ts \in Nat
    BY <1>3
  <2>2. d = m \/ Before(d, m)
    BY <1>2
  <2>3. Before(d, m) => d.ts <= m.ts
    BY <1>1, BeforeIsOrder
  <2>4. QED
    BY <2>1, <2>2, <2>3
<1>5. QED
  BY <1>2, <1>3, <1>4

LEMMA PlainPrinting ==
  ASSUME TailConstants, TailInv, PrintPlain
  PROVE  TailInv'
<1> USE DEF PrintPlain, Show
<1>1. /\ log' \subseteq Events /\ seen' \subseteq Events /\ answer' \subseteq Events
      /\ startTime' \in Nat /\ follow' = FALSE /\ follow' \in BOOLEAN
      /\ tailAt' \in {"call", "done"}
  BY DEF TailInv
<1>2. \A e \in answer : shown[e] = 0
  <2> TAKE e \in answer
  <2>1. e \in Events /\ Before(nextToken, e)
    BY AnswerIsAhead
  <2>2. shown[e] \in {0, 1} /\ (shown[e] = 1 => ~Before(nextToken, e))
    BY <2>1 DEF TailInv
  <2>3. QED
    BY <2>1, <2>2
<1>3. \A e \in Events : /\ shown'[e] \in {0, 1}
                        /\ shown'[e] = 1 => e \in answer \/ shown[e] = 1
  <2> TAKE e \in Events
  <2>1. shown[e] \in {0, 1}
    BY DEF TailInv
  <2>2. shown'[e] = shown[e] + IF e \in answer THEN 1 ELSE 0
    OBVIOUS
  <2>3. QED
    BY <1>2, <2>1, <2>2
<1>4. CASE more
  <2>1. answer # {} /\ answer \subseteq Events
    BY <1>4 DEF TailInv
  <2>2. PICK n \in answer : /\ n = Newest(answer)
                            /\ \A d \in answer : d = n \/ Before(d, n)
    BY <2>1, NewestIsLast
  <2>3. nextToken' = n /\ n \in Events
    BY <1>4, <2>1, <2>2
  <2>4. \A e \in Events : shown'[e] = 1 => ~Before(nextToken', e)
    <3> SUFFICES ASSUME NEW e \in Events, shown'[e] = 1, Before(n, e) PROVE FALSE
      BY <2>3 DEF Before
    <3>1. nextToken \in Events \cup {NoEvent}
      BY DEF TailInv
    <3>2. CASE e \in answer
      <4>1. ~Before(n, n) /\ (Before(e, n) => ~Before(n, e))
        BY <2>3, BeforeIsOrder
      <4>2. QED
        BY <2>2, <3>2, <4>1
    <3>3. CASE shown[e] = 1
      <4>1. ~Before(nextToken, e)
        BY <3>3 DEF TailInv
      <4>2. Before(nextToken, n)
        BY AnswerIsAhead
      <4>3. QED
        BY <2>3, <3>1, <4>1, <4>2, BeforeIsOrder
    <3>4. QED
      BY <1>3, <3>2, <3>3
  <2>5. tailAt' = "call"
    BY <1>4
  <2>6. QED
    BY <1>1, <1>3, <2>3, <2>4, <2>5 DEF TailInv
<1>5. CASE ~more
  <2>1. tailAt' = "done" /\ nextToken' = nextToken
    BY <1>5
  <2>2. nextToken' \in Events \cup {NoEvent}
    BY <2>1 DEF TailInv
  <2>3. QED
    BY <1>1, <1>3, <2>1, <2>2 DEF TailInv
<1>6. QED
  BY <1>4, <1>5


LEMMA NewPrinting ==
  ASSUME TailConstants, TailInv, PrintNew
  PROVE  TailInv'
<1> USE DEF PrintNew, Show
<1>1. /\ log' \subseteq Events /\ answer' \subseteq Events /\ seen \cup answer \subseteq Events
      /\ follow' = TRUE /\ follow' \in BOOLEAN
      /\ tailAt' \in {"call", "sleep"} /\ tailAt = "print" /\ follow /\ startTime \in Nat
  BY DEF TailInv
<1>2. \A e \in answer : e \notin seen => shown[e] = 0
  <2> TAKE e \in answer
  <2>1. e \in Events /\ e.ts \in Nat /\ Reached \in Nat /\ e.ts >= Reached
    BY <1>1, AnswerIsAhead
  <2>2. shown[e] \in {0, 1} /\ (shown[e] = 1 => e \in seen \/ e.ts < Reached)
    BY <1>1, <2>1 DEF TailInv
  <2>3. QED
    BY <2>1, <2>2
<1>3. \A e \in Events : /\ shown'[e] \in {0, 1}
                        /\ shown'[e] = 1 => e \in answer \/ e \in seen \/ e.ts < Reached
  <2> TAKE e \in Events
  <2>1. shown[e] \in {0, 1} /\ (shown[e] = 1 => e \in seen \/ e.ts < Reached)
    BY <1>1 DEF TailInv
  <2>2. shown'[e] = shown[e] + IF e \in answer \ seen THEN 1 ELSE 0
    OBVIOUS
  <2>3. QED
    BY <1>2, <2>1, <2>2
<1>4. CASE seen \cup answer = {}
  <2>1. seen' = {} /\ ~more
    BY <1>1, <1>4 DEF TailInv
  <2>2. nextToken = NoEvent
    BY <1>1, <1>4 DEF TailInv
  <2>3. nextToken' = NoEvent /\ startTime' = startTime /\ tailAt' = "sleep"
    BY <2>1
  <2>4. Reached' = Reached
    BY <2>2, <2>3 DEF Reached
  <2>5. \A e \in Events : shown'[e] = 1 => e.ts < Reached'
    BY <1>3, <1>4, <2>4
  <2>6. QED
    BY <1>1, <1>3, <2>1, <2>3, <2>5 DEF TailInv
<1>5. CASE seen \cup answer # {}
  <2>1. PICK m \in seen \cup answer :
          /\ m = Newest(seen \cup answer) /\ m.ts \in Nat /\ Reached \in Nat
          /\ m.ts >= Reached
          /\ \A d \in seen \cup answer : d.ts \in Nat /\ d.ts >= Reached /\ d.ts <= m.ts
    BY <1>1, <1>5, NewestIsAhead
  <2>2. seen' = {e \in seen \cup answer : e.ts = m.ts}
    BY <1>5, <2>1 DEF Prune
  <2>3. seen' \subseteq Events /\ m \in seen'
    BY <1>1, <2>1, <2>2
  <2>4. SUFFICES /\ Reached' = m.ts /\ startTime' \in Nat
                 /\ nextToken' \in Events \cup {NoEvent}
                 /\ nextToken' # NoEvent =>
                      nextToken' \in seen' /\ nextToken'.ts >= startTime'
    <3>1. \A e \in seen' : e.ts = Reached'
      BY <2>2, <2>4
    <3>2. \A e \in Events : shown'[e] = 1 => e \in seen' \/ e.ts < Reached'
      <4> SUFFICES ASSUME NEW e \in Events, shown'[e] = 1 PROVE e \in seen' \/ e.ts < m.ts
        BY <2>4
      <4>1. CASE e \in seen \cup answer
        <5>1. e.ts \in Nat /\ e.ts <= m.ts
          BY <2>1, <4>1
        <5>2. CASE e.ts = m.ts
          BY <2>2, <4>1, <5>2
        <5>3. CASE e.ts # m.ts
          <6>1. \A a, b \in Nat : a <= b /\ a # b => a < b
            OBVIOUS
          <6>2. e.ts < m.ts
            BY <2>1, <5>1, <5>3, <6>1, Zenon
          <6>3. QED
            BY <6>2
        <5>4. QED
          BY <5>2, <5>3
      <4>2. CASE e.ts < Reached
        <5>1. e.ts \in Nat
          BY EventFacts
        <5>2. QED
          BY <2>1, <4>2, <5>1
      <4>3. QED
        BY <1>3, <4>1, <4>2
    <3>3. QED
      BY <1>1, <1>3, <2>3, <2>4, <3>1, <3>2 DEF TailInv
  <2>5. CASE more
    <3>1. answer # {} /\ answer \subseteq Events /\ nextToken \in Events \cup {NoEvent}
      BY <1>1, <2>5 DEF TailInv
    <3>2. PICK n \in answer : /\ n = Newest(answer)
                              /\ \A d \in answer : d = n \/ Before(d, n)
      BY <3>1, NewestIsLast
    <3>3. nextToken' = n /\ startTime' = startTime
      BY <2>5, <3>2
    <3>4. n \in Events /\ n # NoEvent /\ n.ts \in Nat
      BY <3>1, EventFacts
    <3>5. n.ts <= m.ts /\ n.ts >= Reached
      BY <2>1
    <3>6. m.ts <= n.ts
      <4>1. CASE m \in answer
        <5>1. m = n \/ Before(m, n)
          BY <3>2, <4>1
        <5>2. Before(m, n) => m.ts <= n.ts
          BY <1>1, <3>4, BeforeIsOrder
        <5>3. QED
          BY <3>4, <5>1, <5>2
      <4>2. CASE m \in seen
        <5>1. m.ts = Reached
          BY <1>1, <4>2 DEF TailInv
        <5>2. QED
          BY <3>5, <5>1
      <4>3. QED
        BY <4>1, <4>2
    <3>7. n.ts = m.ts
      BY <2>1, <3>4, <3>5, <3>6
    <3>8. n \in seen'
      BY <2>2, <3>7
    <3>9. n.ts >= startTime
      BY <1>1 DEF TailInv
    <3>10. Reached' = m.ts
      BY <3>3, <3>4, <3>7 DEF Reached, NoEvent
    <3>11. QED
      BY <1>1, <3>3, <3>4, <3>8, <3>9, <3>10
  <2>6. CASE ~more
    <3>1. PICK n \in seen' : n = Newest(seen')
      BY <2>3, NewestIsLast
    <3>2. n.ts = m.ts
      BY <2>2
    <3>3. nextToken' = NoEvent /\ startTime' = n.ts
      BY <2>3, <2>6, <3>1 DEF StartAt
    <3>4. QED
      BY <2>1, <3>2, <3>3 DEF Reached, NoEvent
  <2>7. QED
    BY <2>5, <2>6
<1>6. QED
  BY <1>4, <1>5

LEMMA LogStep ==
  ASSUME TailConstants, TailInv, [TailNext]_tailVars
  PROVE  TailInv'
<1>1. CASE FilterLogEvents
  <2> USE <1>1 DEF FilterLogEvents
  <2>1. Due \subseteq Events
    BY DEF TailInv, Due
  <2>2. answer' \subseteq Due
    BY DEF FirstOf
  <2>3. \A e \in answer' : e.ts >= startTime /\ Before(nextToken, e)
    BY <2>2 DEF Due
  <2>4. more' => answer' # {}
    BY <2>1, PageIsThere DEF FirstOf
  <2>5. answer' \subseteq Events
    BY <2>1, <2>2
  <2>6. QED
    BY <2>3, <2>4, <2>5 DEF TailInv, Reached, NoEvent, Before
<1>2. CASE CallFails
  BY <1>2 DEF CallFails, TailInv, Reached, NoEvent, Before
<1>3. CASE PrintPlain
  BY <1>3, PlainPrinting
<1>4. CASE PrintNew
  BY <1>4, NewPrinting
<1>5. CASE Wake
  BY <1>5 DEF Wake, TailInv, Reached, NoEvent, Before
<1>6. ASSUME NEW e \in Events, Write(e)
      PROVE  TailInv'
  BY <1>6 DEF Write, TailInv, Reached, NoEvent, Before
<1>7. CASE UNCHANGED tailVars
  BY <1>7 DEF tailVars, TailInv, Reached, NoEvent, Before
<1>8. QED
  BY <1>1, <1>2, <1>3, <1>4, <1>5, <1>6, <1>7 DEF TailNext, TailStep

(* `logs tail` prints no event twice: the scans overlap by a millisecond,  *)
(* and the ids kept of it tell what was printed, for any events, however   *)
(* they are dated, late or not, and for pages of any length.               *)
THEOREM EventsPrintedOnce ==
  ASSUME TailConstants
  PROVE  TailSpec => []TailOnce
<1>1. TailInit => TailInv
  BY DEF TailInit, TailInv, Reached, NoEvent
<1>2. TailInv /\ [TailNext]_tailVars => TailInv'
  BY LogStep
<1>3. TailInv => TailOnce
  BY DEF TailInv, TailOnce
<1>4. QED
  BY <1>1, <1>2, <1>3, PTL DEF TailSpec


-----------------------------------------------------------------------------
(* One command that calls a service. *)

CONSTANTS Forms, Streams, MaxCalls, CallAttempts, CallQuota, CallCost, TimeoutPrice
VARIABLES form, callAt, calls, opToken, attempt, followed, allowance, lastCost, homeKnown,
          atHome, reply, frames, arrived, taken, handed, streamError, outfile, sentTimes,
          effects, served, callSaid

Call == INSTANCE ServiceCall

Answered == {"reading", "judge", "writing", "streaming", "decoding"}
Extra == IF followed THEN 1 ELSE 0

CallTypeOK ==
  /\ calls \in Nat /\ attempt \in 1 .. CallAttempts /\ followed \in BOOLEAN
  /\ sentTimes \in Nat /\ effects \in Nat /\ taken \in Nat
  /\ callAt \in {"begin", "prepare", "sent", "ended"} \cup Answered

(* The service knows the tokens of calls that were begun: that of the call *)
(* in hand if it took effect.                                              *)
TokenInv ==
  /\ served \subseteq 0 .. calls /\ opToken \in {0, calls}
  /\ opToken # 0 => effects \in {0, 1} /\ (opToken \in served <=> effects = 1)

(* An answer of the service is of a request that took effect, and the call *)
(* says nothing before it is over.                                         *)
AnswerInv ==
  /\ callAt \in Answered /\ reply = "ok" => effects > 0
  /\ callAt \notin {"begin", "ended"} => callSaid = "none"
  /\ callSaid = "success" => Call!Good /\ (reply = "ok" => effects > 0)
  /\ callAt = "writing" => form.way = "file" /\ Call!Good
  /\ callAt \in {"streaming", "decoding"} => form.way = "events" /\ Call!Good
  /\ form.way = "file" /\ callSaid = "success" =>
       callAt = "ended" /\ (reply = "ok" => outfile = "whole")

(* Each request but those that follow a redirect is an attempt.            *)
SentInv ==
  /\ sentTimes + (IF callAt = "prepare" THEN 1 ELSE 0) <= attempt + Extra
  /\ form.way = "events" => attempt = 1 /\ followed = FALSE

CallInv == CallTypeOK /\ TokenInv /\ AnswerInv /\ SentInv

LEMMA CallTypeStep ==
  ASSUME CallAttempts \in Nat \ {0}, CallInv, Call!CallNext
  PROVE  CallTypeOK'
<1>. USE DEF CallInv, CallTypeOK, Answered, Call!policyVars, Call!streamVars, Call!serviceVars,
             Call!Going
<1>1. CASE Call!Begin
  <2>1. calls' = calls + 1 /\ attempt' = 1 /\ followed' = FALSE /\ sentTimes' = 0 /\ effects' = 0
        /\ callAt' = "prepare" /\ taken' = taken
    BY <1>1 DEF Call!Begin
  <2>2. 1 \in 1 .. CallAttempts
    OBVIOUS
  <2>3. attempt' \in 1 .. CallAttempts /\ followed' \in BOOLEAN
    BY <2>1, <2>2, Zenon
  <2>4. calls' \in Nat /\ sentTimes' \in Nat /\ effects' \in Nat /\ taken' \in Nat
    BY <2>1
  <2>. QED BY <2>1, <2>3, <2>4
<1>2. CASE Call!Prepare
  BY <1>2 DEF Call!Prepare
<1>3. CASE Call!Serve
  <2>1. callAt' \in {"judge", "streaming", "reading"}
    BY <1>3 DEF Call!Serve
  <2>2. effects' \in Nat
    BY <1>3 DEF Call!Serve, Call!Effect
  <2>. QED BY <1>3, <2>1, <2>2 DEF Call!Serve
<1>4. CASE Call!ReadBody \/ Call!LoseBody \/ Call!Follow
  BY <1>4 DEF Call!ReadBody, Call!LoseBody, Call!Follow
<1>5. CASE Call!Retry
  BY <1>5 DEF Call!Retry, Call!RetriedAgain
<1>6. CASE Call!Settle
  <2>1. callAt' \in {"writing", "begin", "ended"}
    BY <1>6 DEF Call!Settle
  <2>. QED BY <1>6, <2>1 DEF Call!Settle
<1>7. CASE Call!WriteFile \/ Call!Arrive \/ Call!NeedMore \/ Call!Refuse
  BY <1>7 DEF Call!WriteFile, Call!Arrive, Call!NeedMore, Call!Refuse
<1>8. CASE Call!Interpret
  BY <1>8 DEF Call!Interpret
<1>9. CASE Call!EndStream \/ Call!BreakStream
  BY <1>9 DEF Call!EndStream, Call!BreakStream
<1>. QED
  BY <1>1, <1>2, <1>3, <1>4, <1>5, <1>6, <1>7, <1>8, <1>9, Zenon DEF Call!CallNext

(* What a request does at the service.                                     *)
LEMMA EffectToken ==
  ASSUME CallInv, Call!Effect, UNCHANGED <<calls, opToken>>
  PROVE  TokenInv' /\ effects' > 0
<1>. USE DEF CallInv, CallTypeOK, TokenInv
<1>1. CASE opToken # 0 /\ opToken \in served
  <2>1. UNCHANGED <<effects, served>>
    BY <1>1 DEF Call!Effect
  <2>2. effects = 1
    BY <1>1
  <2>. QED BY <2>1, <2>2
<1>2. CASE ~(opToken # 0 /\ opToken \in served)
  <2>1. effects' = effects + 1 /\ served' = served \cup {opToken}
    BY <1>2 DEF Call!Effect
  <2>2. opToken # 0 => effects = 0
    BY <1>2
  <2>. QED BY <2>1, <2>2
<1>. QED BY <1>1, <1>2

LEMMA TokenStep ==
  ASSUME CallInv, Call!CallNext
  PROVE  TokenInv'
<1>1. CASE Call!Begin
  <2>1. calls' = calls + 1 /\ opToken' \in {0, calls + 1} /\ effects' = 0 /\ served' = served
    BY <1>1 DEF Call!Begin
  <2>2. calls \in Nat /\ served \subseteq 0 .. calls
    BY DEF CallInv, CallTypeOK, TokenInv
  <2>. QED BY <2>1, <2>2 DEF TokenInv
<1>2. CASE Call!Serve
  <2>1. UNCHANGED <<calls, opToken>>
    BY <1>2 DEF Call!Serve
  <2>2. Call!Effect \/ UNCHANGED <<effects, served>>
    BY <1>2 DEF Call!Serve
  <2>. QED BY <2>1, <2>2, EffectToken DEF CallInv, TokenInv
<1>3. CASE UNCHANGED <<calls, opToken, effects, served>>
  BY <1>3 DEF CallInv, TokenInv
<1>4. CASE ~Call!Begin /\ ~Call!Serve
  <2>1. UNCHANGED <<calls, opToken, effects, served>>
    BY <1>4 DEF Call!CallNext, Call!Prepare, Call!ReadBody, Call!LoseBody, Call!Follow, Call!Retry,
       Call!Settle, Call!WriteFile, Call!Arrive, Call!NeedMore, Call!Refuse, Call!Interpret,
       Call!EndStream, Call!BreakStream, Call!serviceVars
  <2>. QED BY <1>3, <2>1
<1>. QED BY <1>1, <1>2, <1>4

LEMMA AnswerStep ==
  ASSUME CallInv, Call!CallNext
  PROVE  AnswerInv'
<1>. USE DEF CallInv, CallTypeOK, Answered, AnswerInv, Call!Good, Call!Going, Call!policyVars,
             Call!streamVars, Call!serviceVars
<1>1. CASE Call!Begin
  BY <1>1 DEF Call!Begin
<1>2. CASE Call!Prepare
  BY <1>2 DEF Call!Prepare
<1>3. CASE Call!Serve
  <2>1. UNCHANGED <<form, calls, opToken, callSaid, outfile>> /\ callAt = "sent"
    BY <1>3 DEF Call!Serve
  <2>2. callSaid' = "none"
    BY <2>1
  <2>3. callAt' \in {"judge", "streaming", "reading"}
    BY <1>3 DEF Call!Serve
  <2>4. callAt' = "streaming" => form.way = "events" /\ reply' \in {"ok", "redirect", "bare"}
    BY <1>3 DEF Call!Serve
  <2>5. reply' = "ok" => effects' > 0
    <3>1. reply' = "ok" => Call!Effect
      BY <1>3 DEF Call!Serve
    <3>. QED BY <2>1, <3>1, EffectToken
  <2>. QED BY <2>1, <2>2, <2>3, <2>4, <2>5
<1>4. CASE Call!ReadBody
  BY <1>4 DEF Call!ReadBody
<1>5. CASE Call!LoseBody
  BY <1>5 DEF Call!LoseBody
<1>6. CASE Call!Follow \/ Call!Retry
  BY <1>6 DEF Call!Follow, Call!Retry
<1>7. CASE Call!Settle
  <2>1. UNCHANGED <<form, reply, effects, outfile>> /\ callAt = "judge" /\ callSaid = "none"
    BY <1>7 DEF Call!Settle
  <2>2. \/ callAt' = "writing" /\ form.way = "file" /\ Call!Good /\ callSaid' = "none"
        \/ callAt' = "begin" /\ form.way = "document" /\ Call!Good /\ callSaid' = "success"
        \/ callAt' \in {"begin", "ended"} /\ callSaid' = "failure"
    BY <1>7, <2>1 DEF Call!Settle
  <2>. QED BY <2>1, <2>2
<1>8. CASE Call!WriteFile
  BY <1>8 DEF Call!WriteFile
<1>9. CASE Call!Arrive \/ Call!NeedMore
  BY <1>9 DEF Call!Arrive, Call!NeedMore
<1>10. CASE Call!Refuse \/ Call!BreakStream
  BY <1>10 DEF Call!Refuse, Call!BreakStream
<1>11. CASE Call!Interpret
  BY <1>11 DEF Call!Interpret
<1>12. CASE Call!EndStream
  BY <1>12 DEF Call!EndStream
<1>. QED
  BY <1>1, <1>2, <1>3, <1>4, <1>5, <1>6, <1>7, <1>8, <1>9, <1>10, <1>11, <1>12, Zenon
     DEF Call!CallNext

LEMMA SentTimesStep ==
  ASSUME CallAttempts \in Nat \ {0}, CallInv, Call!CallNext
  PROVE  SentInv'
<1>. USE DEF CallInv, CallTypeOK, Answered, SentInv, Extra, Call!Going, Call!policyVars,
             Call!streamVars, Call!serviceVars
<1>1. CASE Call!Begin
  BY <1>1 DEF Call!Begin
<1>2. CASE Call!Prepare
  BY <1>2 DEF Call!Prepare
<1>3. CASE Call!Serve
  <2>1. UNCHANGED <<form, attempt, followed, sentTimes>> /\ callAt = "sent"
    BY <1>3 DEF Call!Serve
  <2>2. callAt' # "prepare"
    BY <1>3 DEF Call!Serve
  <2>. QED BY <2>1, <2>2
<1>4. CASE Call!ReadBody \/ Call!LoseBody
  BY <1>4 DEF Call!ReadBody, Call!LoseBody
<1>5. CASE Call!Follow
  BY <1>5 DEF Call!Follow, Call!Redirected
<1>6. CASE Call!Retry
  BY <1>6 DEF Call!Retry, Call!RetriedAgain
<1>7. CASE Call!Settle
  <2>1. UNCHANGED <<form, attempt, followed, sentTimes>> /\ callAt = "judge"
    BY <1>7 DEF Call!Settle
  <2>2. callAt' # "prepare"
    BY <1>7 DEF Call!Settle
  <2>. QED BY <2>1, <2>2
<1>8. CASE Call!WriteFile \/ Call!Arrive \/ Call!NeedMore \/ Call!Refuse
  BY <1>8 DEF Call!WriteFile, Call!Arrive, Call!NeedMore, Call!Refuse
<1>9. CASE Call!Interpret
  BY <1>9 DEF Call!Interpret
<1>10. CASE Call!EndStream \/ Call!BreakStream
  BY <1>10 DEF Call!EndStream, Call!BreakStream
<1>. QED
  BY <1>1, <1>2, <1>3, <1>4, <1>5, <1>6, <1>7, <1>8, <1>9, <1>10, Zenon DEF Call!CallNext

LEMMA CallInvHolds ==
  ASSUME CallAttempts \in Nat \ {0}
  PROVE  Call!CallSpec => []CallInv
<1>1. Call!CallInit => CallInv
  <2>1. 1 \in 1 .. CallAttempts
    OBVIOUS
  <2>2. ASSUME Call!CallInit PROVE CallTypeOK
    <3>1. attempt = 1 /\ followed = FALSE /\ calls = 0 /\ sentTimes = 0 /\ effects = 0 /\ taken = 0
          /\ callAt = "begin"
      BY <2>2 DEF Call!CallInit
    <3>2. attempt \in 1 .. CallAttempts /\ followed \in BOOLEAN
      BY <2>1, <3>1, Zenon
    <3>. QED BY <3>1, <3>2 DEF CallTypeOK
  <2>4. Call!CallInit => TokenInv
    BY DEF Call!CallInit, TokenInv
  <2>3. Call!CallInit => AnswerInv /\ SentInv
    BY DEF Call!CallInit, AnswerInv, SentInv, Extra, Answered
  <2>. QED BY <2>2, <2>3, <2>4 DEF CallInv
<1>2. CallInv /\ [Call!CallNext]_(Call!callVars) => CallInv'
  <2> SUFFICES ASSUME CallInv, [Call!CallNext]_(Call!callVars) PROVE CallInv'
    OBVIOUS
  <2>1. CASE Call!CallNext
    BY <2>1, CallTypeStep, TokenStep, AnswerStep, SentTimesStep DEF CallInv
  <2>2. CASE UNCHANGED Call!callVars
    BY <2>2 DEF Call!callVars, Call!policyVars, Call!streamVars, Call!serviceVars, CallInv,
       CallTypeOK, TokenInv, AnswerInv, SentInv, Extra, Answered, Call!Good
  <2>3. QED
    BY <2>1, <2>2
<1>. QED BY <1>1, <1>2, PTL DEF Call!CallSpec

(* A call with a token takes effect at most once however many answers are  *)
(* lost and requests repeated, a success is of a request that took effect, *)
(* a stream is asked for once, a document as often as there are attempts   *)
(* and once more for a redirect, and the file of a success is whole        *)
(* (client.rs, with retry.rs): for any forms of call, streams, numbers of  *)
(* calls and attempts, quota and prices.  A success is claimed to be one   *)
(* only of answers that did something: the code also takes for a success   *)
(* an answer below 400 that did not (bare, or a redirect not followed).    *)
(* AWS_MAX_ATTEMPTS is taken to be positive; 0 does as 1 does.             *)
THEOREM CallsTakeEffectOnce ==
  ASSUME CallAttempts \in Nat \ {0}
  PROVE  Call!CallSpec => [](Call!EffectOnce /\ Call!SentAtMost /\ Call!FileWhole)
<1>1. CallInv => Call!EffectOnce /\ Call!SentAtMost /\ Call!FileWhole
  <2>1. CallInv => Call!EffectOnce
    BY DEF CallInv, CallTypeOK, TokenInv, AnswerInv, Call!Good, Call!EffectOnce
  <2>2. CallInv => Call!SentAtMost
    BY DEF CallInv, CallTypeOK, SentInv, Extra, Call!SentAtMost
  <2>3. CallInv => Call!FileWhole
    BY DEF CallInv, AnswerInv, Call!FileWhole
  <2>. QED BY <2>1, <2>2, <2>3
<1>2. QED
  BY <1>1, CallInvHolds, PTL


-----------------------------------------------------------------------------
(* The events of a stream. *)

Ahead == {"begin", "prepare", "sent", "reading", "judge", "writing"}

(* As SelectSeq has it, told without it: the numbers of the frames handed  *)
(* on ascend, and are those of the events among the frames that were taken.*)
HandedExactly ==
  /\ \A i \in 1 .. Len(handed) : handed[i] \in 1 .. taken /\ frames[handed[i]].says = "event"
  /\ \A i \in 1 .. taken : frames[i].says = "event" => \E k \in 1 .. Len(handed) : handed[k] = i
  /\ \A k, l \in 1 .. Len(handed) : k < l => handed[k] < handed[l]

StreamWhole ==
  form.way = "events" =>
    /\ callSaid # "failure" => HandedExactly
    /\ \A i \in 1 .. taken : frames[i].damage = "none"
    /\ callSaid = "success" => \A i \in 1 .. taken : frames[i].says # "exception"

(* What was met on the way is remembered; and a stream is not begun before *)
(* its answer is.                                                          *)
StreamInv ==
  form.way = "events" =>
    /\ handed \in Seq(Nat)
    /\ callAt \in Ahead => taken = 0 /\ handed = <<>> /\ streamError = FALSE
    /\ callSaid # "failure" => HandedExactly
    /\ \A i \in 1 .. taken : frames[i].damage = "none"
    /\ ~streamError => \A i \in 1 .. taken : frames[i].says # "exception"
    /\ callSaid = "success" => callAt = "ended" /\ ~streamError

(* One more frame, handed on or not.                                       *)
LEMMA OneMoreFrame ==
  ASSUME taken \in Nat, handed \in Seq(Nat), HandedExactly, taken' = taken + 1, UNCHANGED frames,
         \/ frames[taken + 1].says = "event" /\ handed' = Append(handed, taken + 1)
         \/ frames[taken + 1].says # "event" /\ UNCHANGED handed
  PROVE  HandedExactly'
<1>1. CASE frames[taken + 1].says = "event" /\ handed' = Append(handed, taken + 1)
  <2>1. /\ Len(handed) \in Nat /\ Len(handed') = Len(handed) + 1
        /\ \A i \in 1 .. Len(handed) : handed'[i] = handed[i]
        /\ handed'[Len(handed) + 1] = taken + 1
    BY <1>1
  <2>2. ASSUME NEW i \in 1 .. Len(handed')
        PROVE  handed'[i] \in 1 .. taken' /\ frames'[handed'[i]].says = "event"
    <3>1. CASE i = Len(handed) + 1
      BY <1>1, <2>1, <3>1
    <3>2. CASE i \in 1 .. Len(handed)
      BY <2>1, <3>2 DEF HandedExactly
    <3>. QED BY <2>1, <3>1, <3>2
  <2>3. ASSUME NEW i \in 1 .. taken', frames'[i].says = "event"
        PROVE  \E k \in 1 .. Len(handed') : handed'[k] = i
    <3>1. CASE i = taken + 1
      BY <2>1, <3>1
    <3>2. CASE i \in 1 .. taken
      <4>1. PICK k \in 1 .. Len(handed) : handed[k] = i
        BY <2>3, <3>2 DEF HandedExactly
      <4>. QED BY <2>1, <4>1
    <3>. QED BY <3>1, <3>2
  <2>4. ASSUME NEW k \in 1 .. Len(handed'), NEW l \in 1 .. Len(handed'), k < l
        PROVE  handed'[k] < handed'[l]
    <3>1. PICK n \in Nat : n = Len(handed)
      BY <2>1
    <3>2. /\ k \in 1 .. n /\ (l = n + 1 \/ l \in 1 .. n)
      BY <2>1, <2>4, <3>1
    <3>3. handed'[k] = handed[k] /\ handed[k] \in 1 .. taken
      BY <2>1, <3>1, <3>2 DEF HandedExactly
    <3>4. CASE l = n + 1
      BY <2>1, <3>1, <3>3, <3>4
    <3>5. CASE l \in 1 .. n
      <4>1. handed'[l] = handed[l]
        BY <2>1, <3>1, <3>5
      <4>. QED BY <2>4, <3>1, <3>2, <3>3, <3>5, <4>1 DEF HandedExactly
    <3>. QED BY <3>2, <3>4, <3>5
  <2>. QED BY <2>2, <2>3, <2>4 DEF HandedExactly
<1>2. CASE frames[taken + 1].says # "event" /\ UNCHANGED handed
  BY <1>2 DEF HandedExactly
<1>. QED BY <1>1, <1>2

LEMMA StreamStep ==
  ASSUME CallInv, StreamInv, Call!CallNext
  PROVE  StreamInv'
<1>. USE DEF Call!Going, Call!policyVars, Call!streamVars, Call!serviceVars
<1>1. SUFFICES ASSUME form.way = "events", UNCHANGED form
      PROVE  StreamInv'
  BY DEF StreamInv, Call!CallNext, Call!Begin, Call!Serve, Call!Prepare, Call!ReadBody,
     Call!LoseBody, Call!Follow, Call!Retry, Call!Settle, Call!WriteFile, Call!Arrive,
     Call!NeedMore, Call!Refuse, Call!Interpret, Call!EndStream, Call!BreakStream
<1>2. /\ taken \in Nat /\ handed \in Seq(Nat)
      /\ callAt \in Ahead \cup {"streaming", "decoding", "ended"}
      /\ callAt \notin {"begin", "ended"} => callSaid = "none"
  BY <1>1 DEF StreamInv, CallInv, CallTypeOK, AnswerInv, Answered, Ahead
<1>3. ASSUME callAt \in Ahead, UNCHANGED <<taken, handed, streamError>>, callSaid' # "success"
      PROVE  StreamInv'
  <2>1. taken' = 0 /\ handed' = <<>> /\ streamError' = FALSE
    BY <1>1, <1>3 DEF StreamInv
  <2>. QED BY <1>3, <2>1 DEF StreamInv, HandedExactly
<1>4. CASE Call!Begin \/ Call!Prepare \/ Call!Serve \/ Call!ReadBody \/ Call!LoseBody \/ Call!Follow
           \/ Call!Retry \/ Call!Settle \/ Call!WriteFile
  <2>1. callAt \in Ahead /\ UNCHANGED <<taken, handed, streamError>>
    BY <1>4 DEF Ahead, Call!Begin, Call!Serve, Call!Prepare, Call!ReadBody, Call!LoseBody,
       Call!Follow, Call!Retry, Call!Settle, Call!WriteFile
  <2>2. callAt # "writing" /\ callSaid # "success"
    BY <1>1, <2>1 DEF StreamInv, CallInv, AnswerInv, Ahead
  <2>3. CASE Call!Settle
    <3>1. callSaid' # "success"
      BY <1>1, <2>2, <2>3 DEF Call!Settle
    <3>. QED BY <1>3, <2>1, <3>1
  <2>4. CASE ~Call!Settle
    <3>1. callSaid' # "success"
      BY <1>4, <2>2, <2>4 DEF Call!Begin, Call!Serve, Call!Prepare, Call!ReadBody, Call!LoseBody,
         Call!Follow, Call!Retry, Call!WriteFile
    <3>. QED BY <1>3, <2>1, <3>1
  <2>. QED BY <2>3, <2>4
<1>5. CASE Call!Arrive \/ Call!NeedMore \/ Call!Refuse \/ Call!EndStream \/ Call!BreakStream
  <2>1. /\ callAt \in {"streaming", "decoding"} /\ callAt' \in {"streaming", "decoding", "ended"}
        /\ UNCHANGED <<frames, taken, handed, streamError>>
    BY <1>5 DEF Call!Arrive, Call!NeedMore, Call!Refuse, Call!EndStream, Call!BreakStream
  <2>2. callSaid' = "success" => callAt' = "ended" /\ ~streamError
    BY <1>2, <1>5, <2>1 DEF Call!Arrive, Call!NeedMore, Call!Refuse, Call!EndStream, Call!BreakStream
  <2>3. callSaid # "failure" /\ callAt' \notin Ahead
    BY <1>2, <2>1 DEF Ahead
  <2>4. handed' \in Seq(Nat) /\ HandedExactly'
    <3>1. handed \in Seq(Nat) /\ HandedExactly
      BY <1>1, <2>3 DEF StreamInv
    <3>. QED BY <2>1, <3>1 DEF HandedExactly
  <2>5. \A i \in 1 .. taken' : frames'[i].damage = "none"
    BY <1>1, <2>1 DEF StreamInv
  <2>6. ~streamError' => \A i \in 1 .. taken' : frames'[i].says # "exception"
    BY <1>1, <2>1 DEF StreamInv
  <2>. QED BY <2>1, <2>2, <2>3, <2>4, <2>5, <2>6, Zenon DEF StreamInv
<1>6. CASE Call!Interpret
  <2>1. /\ callAt = "decoding" /\ taken' = taken + 1 /\ UNCHANGED frames
        /\ frames[taken + 1].damage = "none"
    BY <1>6 DEF Call!Interpret, Call!InHand
  <2>2. callSaid = "none"
    BY <1>2, <2>1
  <2>3. /\ callAt' \in {"decoding", "ended"} /\ callSaid' \in {"none", "failure"}
        /\ handed' \in {handed, Append(handed, taken + 1)}
        /\ ~streamError' => ~streamError /\ frames[taken + 1].says # "exception"
    <3>1. CASE frames[taken + 1].says = "event"
      BY <1>6, <2>1, <2>2, <3>1 DEF Call!Interpret, Call!InHand
    <3>2. CASE frames[taken + 1].says # "event"
      BY <1>6, <2>1, <2>2, <3>2 DEF Call!Interpret, Call!InHand
    <3>. QED BY <3>1, <3>2
  <2>4. handed' \in Seq(Nat)
    BY <1>2, <2>3
  <2>5. callSaid' # "failure" => HandedExactly'
    <3>1. callSaid' # "failure" =>
            \/ frames[taken + 1].says = "event" /\ handed' = Append(handed, taken + 1)
            \/ frames[taken + 1].says # "event" /\ UNCHANGED handed
      BY <1>6 DEF Call!Interpret, Call!InHand
    <3>2. HandedExactly
      BY <1>1, <2>2 DEF StreamInv
    <3>. QED BY <1>2, <2>1, <3>1, <3>2, OneMoreFrame
  <2>6. \A i \in 1 .. taken' : frames'[i].damage = "none"
    BY <1>1, <1>2, <2>1 DEF StreamInv
  <2>7. ~streamError' => \A i \in 1 .. taken' : frames'[i].says # "exception"
    BY <1>1, <1>2, <2>1, <2>3 DEF StreamInv
  <2>8. callAt' \notin Ahead /\ callSaid' # "success"
    BY <2>3 DEF Ahead
  <2>. QED BY <2>4, <2>5, <2>6, <2>7, <2>8 DEF StreamInv
<1>. QED BY <1>4, <1>5, <1>6, Zenon DEF Call!CallNext


(* Each event of a stream is handed on once and in order, nothing is made  *)
(* of a damaged frame, and a success has met no exception (`next_frame` of *)
(* eventstream.rs and its caller in client.rs): for any streams, however   *)
(* their pieces arrive.                                                    *)
THEOREM EventsHandedOnce ==
  ASSUME CallAttempts \in Nat \ {0}
  PROVE  Call!CallSpec => []StreamWhole
<1>1. Call!CallInit => StreamInv
  BY DEF Call!CallInit, StreamInv, HandedExactly
<1>2. CallInv /\ StreamInv /\ [Call!CallNext]_(Call!callVars) => StreamInv'
  <2>1. ASSUME StreamInv, UNCHANGED Call!callVars
        PROVE  StreamInv'
    BY <2>1 DEF Call!callVars, Call!streamVars, StreamInv, HandedExactly
  <2>2. QED
    BY <2>1, StreamStep
<1>3. StreamInv => StreamWhole
  BY DEF StreamInv, StreamWhole
<1>4. QED
  BY <1>1, <1>2, <1>3, CallInvHolds, PTL DEF Call!CallSpec


-----------------------------------------------------------------------------
(* One SSO session and the processes that share its cached token. *)

CONSTANTS Casts, MaxIssued, MaxPolls
VARIABLES cast, ssoAt, held, spent, opened, tokenFile, roleFile, issued, rotates, refreshOf,
          ended, expiry, code, mishap, crowded

Sso == INSTANCE SsoSession

(* Any number of processes, each a command, a login or a logout. *)
SsoConstants ==
  /\ \A c \in Casts : c \in [DOMAIN c -> {"command", "login", "logout"}]
  /\ MaxIssued \in Nat \ {0}

LogoutPlaces == {"sweep", "invalidate", "remove", "sweepRole", "removeRole"}
OtherPlaces == {"role", "token", "refresh", "open", "write", "fetch", "openRole", "writeRole",
                "authorize", "poll", "asleep"}

(* What a file or a process may hold: of the tokens, those issued by now. *)
TokenOf(n) == [kind : {"token"}, session : 1 .. n, access : 1 .. n, refresh : 1 .. n]
Content(n) == {Sso!Missing, Sso!Torn} \cup TokenOf(n)

PlacesOK ==
  /\ cast \in [Sso!Procs -> {"command", "login", "logout"}]
  /\ ssoAt \in [Sso!Procs -> LogoutPlaces \cup OtherPlaces \cup Sso!Over]
  /\ \A p \in Sso!Procs :
       /\ cast[p] = "logout" => ssoAt[p] \in LogoutPlaces \cup {"done"}
       /\ cast[p] # "logout" => ssoAt[p] \notin LogoutPlaces

ContentsOK ==
  /\ issued \in 1 .. MaxIssued /\ refreshOf \in [1 .. MaxIssued -> Nat] /\ rotates \in BOOLEAN
  /\ tokenFile \in Content(issued) /\ held \in [Sso!Procs -> Content(issued)]
  /\ \A p \in Sso!Procs : ssoAt[p] \in {"refresh", "open", "write"} => held[p].kind = "token"
  /\ opened \subseteq {p \in Sso!Procs : ssoAt[p] = "write"}

(* Without a mishap one process at a time has the file open, and the file  *)
(* is torn just while it has.                                              *)
FileInv ==
  ~mishap => /\ \A p, q \in opened : p = q
             /\ (opened # {}) <=> (tokenFile = Sso!Torn)

(* A token whose refresh token is the one the service takes. *)
InForce(t) == refreshOf[t.session] = t.refresh

(* Nobody else has the refresh token of a process on its way to the file,  *)
(* which the service takes; the one in the file may be outdated only while *)
(* a newer one is on its way there.                                        *)
RefreshInv ==
  /\ ~rotates => /\ \A p \in Sso!Procs : held[p].kind = "token" => InForce(held[p])
                 /\ tokenFile.kind = "token" => InForce(tokenFile)
  /\ \A p \in Sso!Procs : Sso!Between(p) =>
       /\ InForce(held[p])
       /\ rotates => /\ tokenFile.refresh # held[p].refresh
                     /\ \A q \in Sso!Procs \ {p} : held[q].refresh # held[p].refresh
  /\ ~mishap /\ tokenFile.kind = "token" /\ ~InForce(tokenFile) =>
       \E p \in Sso!Procs : ssoAt[p] = "open"

(* A logout that nobody overlaps has the files to itself. *)
Clean == tokenFile.kind # "token" /\ roleFile \in {"missing", "torn"}
Alone(p) ==
  /\ cast[p] = "logout" /\ ssoAt[p] # "sweep"
  /\ \A q \in Sso!Procs \ {p} : ssoAt[q] \in {Sso!First(cast[q])} \cup Sso!Over
  /\ ssoAt[p] \in {"sweepRole", "removeRole", "done"} => tokenFile.kind # "token"
LogoutInv ==
  ~crowded /\ Sso!LoggedOut =>
    /\ \E p \in Sso!Procs : Alone(p)
    /\ \A q \in Sso!Procs : cast[q] = "logout" /\ ssoAt[q] = "done" => Clean

SsoInv == PlacesOK /\ ContentsOK /\ FileInv /\ RefreshInv /\ LogoutInv

(* A step takes a process from one place to another, and those of a logout *)
(* are its own.                                                            *)
Walks(p) ==
  /\ UNCHANGED cast /\ ssoAt[p] \notin Sso!Over
  /\ \E to : /\ ssoAt' = [ssoAt EXCEPT ![p] = to]
             /\ ssoAt[p] \in LogoutPlaces => to \in LogoutPlaces \cup {"done"}
             /\ ssoAt[p] \notin LogoutPlaces => to \in OtherPlaces \cup Sso!Over

(* Steps that touch neither the tokens nor who is writing one. *)
Aside(p) ==
  /\ UNCHANGED <<held, opened, tokenFile, issued, rotates, refreshOf, mishap>>
  /\ ssoAt[p] \notin {"open", "write"} /\ ssoAt'[p] \notin {"refresh", "open", "write"}
AsideStep(p) ==
  \/ Sso!ReadRole(p) \/ Sso!RefreshFails(p) \/ Sso!Fetch(p) \/ Sso!OpenRole(p) \/ Sso!WriteRole(p)
  \/ Sso!Authorize(p) \/ Sso!PollPending(p) \/ Sso!WakeUp(p) \/ Sso!PollFails(p)
  \/ Sso!Invalidate(p) \/ Sso!SweepRole(p) \/ Sso!RemoveRole(p)

LEMMA OtherStays ==
  ASSUME PlacesOK, NEW p \in Sso!Procs, Walks(p)
  PROVE  /\ Sso!Procs' = Sso!Procs
         /\ \A q \in Sso!Procs \ {p} : ssoAt'[q] = ssoAt[q]
BY DEF PlacesOK, Walks, Sso!Procs

LEMMA StepWalks ==
  ASSUME PlacesOK, ContentsOK, NEW p \in Sso!Procs, Sso!SsoStep(p) \/ Sso!Crash(p)
  PROVE  Walks(p)
<1>. USE DEF Walks, Sso!Goes, LogoutPlaces, OtherPlaces, Sso!Over
<1>1. CASE Sso!ReadRole(p)
  BY <1>1 DEF Sso!ReadRole
<1>2. CASE Sso!ReadToken(p)
  <2>1. tokenFile.kind \in {"missing", "torn", "token"}
    BY DEF ContentsOK, Content, TokenOf, Sso!Missing, Sso!Torn, Sso!Blank
  <2>. QED BY <1>2, <2>1 DEF Sso!ReadToken
<1>3. CASE Sso!Refresh(p)
  BY <1>3 DEF Sso!Refresh, Sso!FallBack
<1>4. CASE Sso!RefreshFails(p)
  BY <1>4 DEF Sso!RefreshFails, Sso!FallBack
<1>5. CASE Sso!Fetch(p)
  BY <1>5 DEF Sso!Fetch
<1>6. CASE Sso!OpenRole(p) \/ Sso!WriteRole(p)
  BY <1>6 DEF Sso!OpenRole, Sso!WriteRole
<1>7. CASE Sso!Authorize(p) \/ Sso!PollPending(p) \/ Sso!WakeUp(p) \/ Sso!PollFails(p)
  BY <1>7 DEF Sso!Authorize, Sso!PollPending, Sso!WakeUp, Sso!PollFails
<1>8. CASE Sso!PollToken(p)
  BY <1>8 DEF Sso!PollToken
<1>9. CASE Sso!SweepToken(p)
  BY <1>9 DEF Sso!SweepToken
<1>10. CASE Sso!Invalidate(p) \/ Sso!RemoveToken(p) \/ Sso!RemoveRole(p)
  BY <1>10 DEF Sso!Invalidate, Sso!RemoveToken, Sso!RemoveRole
<1>11. CASE Sso!SweepRole(p)
  BY <1>11 DEF Sso!SweepRole
<1>12. CASE Sso!OpenToken(p)
  BY <1>12 DEF Sso!OpenToken
<1>13. CASE Sso!WriteToken(p)
  BY <1>13 DEF Sso!WriteToken, Sso!Written
<1>14. CASE Sso!OpenFails(p)
  BY <1>14 DEF Sso!OpenFails
<1>15. CASE Sso!Crash(p)
  BY <1>15 DEF Sso!Crash
<1>. QED
  BY <1>1, <1>2, <1>3, <1>4, <1>5, <1>6, <1>7, <1>8, <1>9, <1>10, <1>11, <1>12, <1>13, <1>14,
     <1>15, Zenon DEF Sso!SsoStep, Sso!Command, Sso!Login, Sso!Logout

LEMMA PlacesStep ==
  ASSUME PlacesOK, NEW p \in Sso!Procs, Walks(p)
  PROVE  PlacesOK'
<1>1. PICK to : /\ ssoAt' = [ssoAt EXCEPT ![p] = to]
                /\ ssoAt[p] \in LogoutPlaces => to \in LogoutPlaces \cup {"done"}
                /\ ssoAt[p] \notin LogoutPlaces => to \in OtherPlaces \cup Sso!Over
  BY DEF Walks
<1>2. UNCHANGED cast /\ Sso!Procs' = Sso!Procs /\ ssoAt[p] \notin Sso!Over
  BY OtherStays DEF Walks
<1>3. to \in LogoutPlaces \cup OtherPlaces \cup Sso!Over /\ ssoAt'[p] = to
  BY <1>1 DEF PlacesOK, Sso!Over
<1>4. cast[p] = "logout" => ssoAt[p] \in LogoutPlaces
  BY <1>2 DEF PlacesOK, Sso!Over
<1>5. cast[p] # "logout" => ssoAt[p] \notin LogoutPlaces
  BY DEF PlacesOK
<1>6. (OtherPlaces \cup Sso!Over) \cap LogoutPlaces = {}
  BY DEF OtherPlaces, LogoutPlaces, Sso!Over
<1>7. ASSUME NEW q \in Sso!Procs
      PROVE  /\ cast[q] = "logout" => ssoAt'[q] \in LogoutPlaces \cup {"done"}
             /\ cast[q] # "logout" => ssoAt'[q] \notin LogoutPlaces
  <2>1. CASE q = p
    BY <1>1, <1>3, <1>4, <1>5, <1>6, <2>1
  <2>2. CASE q # p
    BY <2>2, OtherStays DEF PlacesOK
  <2>. QED BY <2>1, <2>2
<1>8. ssoAt' \in [Sso!Procs -> LogoutPlaces \cup OtherPlaces \cup Sso!Over]
  BY <1>1, <1>3 DEF PlacesOK
<1>. QED BY <1>2, <1>7, <1>8 DEF PlacesOK

LEMMA AsideSteps ==
  ASSUME PlacesOK, NEW p \in Sso!Procs, AsideStep(p)
  PROVE  Aside(p)
<1>. USE DEF Aside, Sso!Goes, Sso!serviceVars, Sso!historyVars, PlacesOK
<1>1. CASE Sso!ReadRole(p)
  BY <1>1 DEF Sso!ReadRole
<1>2. CASE Sso!RefreshFails(p)
  BY <1>2 DEF Sso!RefreshFails, Sso!FallBack
<1>3. CASE Sso!Fetch(p)
  BY <1>3 DEF Sso!Fetch
<1>4. CASE Sso!OpenRole(p) \/ Sso!WriteRole(p)
  BY <1>4 DEF Sso!OpenRole, Sso!WriteRole
<1>5. CASE Sso!Authorize(p)
  BY <1>5 DEF Sso!Authorize
<1>6. CASE Sso!PollPending(p) \/ Sso!WakeUp(p) \/ Sso!PollFails(p)
  BY <1>6 DEF Sso!PollPending, Sso!WakeUp, Sso!PollFails
<1>7. CASE Sso!Invalidate(p) \/ Sso!RemoveRole(p)
  BY <1>7 DEF Sso!Invalidate, Sso!RemoveRole
<1>8. CASE Sso!SweepRole(p)
  BY <1>8 DEF Sso!SweepRole
<1>. QED
  BY <1>1, <1>2, <1>3, <1>4, <1>5, <1>6, <1>7, <1>8, Zenon DEF AsideStep

LEMMA AsideKeeps ==
  ASSUME PlacesOK, ContentsOK, FileInv, RefreshInv, NEW p \in Sso!Procs, Walks(p), Aside(p)
  PROVE  ContentsOK' /\ FileInv' /\ RefreshInv'
<1>1. Sso!Procs' = Sso!Procs /\ \A q \in Sso!Procs \ {p} : ssoAt'[q] = ssoAt[q]
  BY OtherStays
<1>2. UNCHANGED <<held, opened, tokenFile, issued, rotates, refreshOf, mishap>>
  BY DEF Aside
<1>3. /\ ssoAt[p] \notin {"open", "write"} /\ ssoAt'[p] \notin {"refresh", "open", "write"}
      /\ \A q \in Sso!Procs : (ssoAt'[q] = "open" <=> ssoAt[q] = "open")
                              /\ (ssoAt'[q] = "write" <=> ssoAt[q] = "write")
  BY <1>1 DEF Aside
<1>4. ContentsOK'
  <2>1. \A q \in Sso!Procs : ssoAt'[q] \in {"refresh", "open", "write"} => held[q].kind = "token"
    BY <1>1, <1>3 DEF ContentsOK
  <2>2. opened \subseteq {q \in Sso!Procs : ssoAt'[q] = "write"}
    BY <1>3 DEF ContentsOK
  <2>. QED BY <1>1, <1>2, <2>1, <2>2 DEF ContentsOK
<1>5. FileInv'
  BY <1>2 DEF FileInv, Sso!Torn, Sso!Blank
<1>6. RefreshInv'
  <2>1. \A q \in Sso!Procs : Sso!Between(q)' <=> Sso!Between(q)
    BY <1>3 DEF Sso!Between
  <2>. QED BY <1>1, <1>2, <1>3, <2>1 DEF RefreshInv, InForce
<1>. QED BY <1>4, <1>5, <1>6


(* Tokens by their numbers. *)
LEMMA ContentFacts ==
  ASSUME NEW n \in Nat, NEW t \in Content(n)
  PROVE  /\ t \in Content(n + 1) /\ t.refresh \in 0 .. n
         /\ t.kind = "token" => t \in TokenOf(n) /\ t.session \in 1 .. n /\ t.refresh \in 1 .. n
         /\ t # Sso!Torn /\ t # Sso!Missing => t.kind = "token"
         /\ t = Sso!Torn \/ t = Sso!Missing => t.kind # "token" /\ t.refresh = 0
BY DEF Content, TokenOf, Sso!Torn, Sso!Missing, Sso!Blank

(* A process reads the token: a command before it uses it, a logout before *)
(* it ends the session.                                                    *)
LEMMA ReadingKeeps ==
  ASSUME PlacesOK, ContentsOK, FileInv, RefreshInv, NEW p \in Sso!Procs, Walks(p),
         UNCHANGED <<opened, tokenFile, issued, rotates, refreshOf, mishap>>,
         Sso!Holds(p, tokenFile), ssoAt[p] \notin {"open", "write"},
         ssoAt'[p] \notin {"open", "write"},
         ssoAt'[p] = "refresh" => tokenFile.kind = "token"
  PROVE  ContentsOK' /\ FileInv' /\ RefreshInv'
<1>1. Sso!Procs' = Sso!Procs /\ \A q \in Sso!Procs \ {p} : ssoAt'[q] = ssoAt[q]
  BY OtherStays
<1>2. \A q \in Sso!Procs : held'[q] = IF q = p THEN tokenFile ELSE held[q]
  BY DEF Sso!Holds, ContentsOK
<1>3. \A q \in Sso!Procs : (ssoAt'[q] = "open" <=> ssoAt[q] = "open")
                           /\ (ssoAt'[q] = "write" <=> ssoAt[q] = "write")
  BY <1>1
<1>4. ContentsOK'
  <2>1. \A q \in Sso!Procs : ssoAt'[q] \in {"refresh", "open", "write"} => held'[q].kind = "token"
    BY <1>1, <1>2 DEF ContentsOK
  <2>2. opened \subseteq {q \in Sso!Procs : ssoAt'[q] = "write"}
    BY <1>3 DEF ContentsOK
  <2>3. held' \in [Sso!Procs -> Content(issued)]
    BY DEF Sso!Holds, ContentsOK
  <2>. QED BY <1>1, <2>1, <2>2, <2>3 DEF ContentsOK
<1>5. FileInv'
  BY DEF FileInv, Sso!Torn, Sso!Blank
<1>6. RefreshInv'
  <2>1. \A q \in Sso!Procs : Sso!Between(q)' <=> Sso!Between(q)
    BY <1>3 DEF Sso!Between
  <2>2. ~Sso!Between(p)
    BY DEF Sso!Between
  <2>3. ~rotates => \A q \in Sso!Procs : held'[q].kind = "token" => InForce(held[q])'
    BY <1>2 DEF RefreshInv, InForce
  <2>4. ASSUME NEW q \in Sso!Procs, Sso!Between(q)
        PROVE  /\ InForce(held[q])'
               /\ rotates => /\ tokenFile.refresh # held'[q].refresh
                             /\ \A r \in Sso!Procs \ {q} : held'[r].refresh # held'[q].refresh
    <3>1. q # p /\ held'[q] = held[q]
      BY <1>2, <2>2, <2>4
    <3>2. InForce(held[q]) /\ (rotates => tokenFile.refresh # held[q].refresh)
      BY <2>4 DEF RefreshInv
    <3>3. rotates => \A r \in Sso!Procs \ {q} : held'[r].refresh # held[q].refresh
      BY <1>2, <2>4, <3>2 DEF RefreshInv
    <3>. QED BY <3>1, <3>2, <3>3 DEF InForce
  <2>5. ~mishap /\ tokenFile.kind = "token" /\ ~InForce(tokenFile) =>
          \E q \in Sso!Procs : ssoAt'[q] = "open"
    BY <1>3 DEF RefreshInv
  <2>6. ~rotates => (tokenFile.kind = "token" => InForce(tokenFile))
    BY DEF RefreshInv
  <2>. QED BY <1>1, <2>1, <2>3, <2>4, <2>5, <2>6 DEF RefreshInv, InForce
<1>. QED BY <1>4, <1>5, <1>6

(* The service has issued another token: what there was is as good as it   *)
(* was.                                                                    *)
LEMMA IssueTypes ==
  ASSUME SsoConstants, PlacesOK, ContentsOK, NEW session \in 1 .. issued + 1, NEW refresh \in Nat,
         Sso!Issue(session, refresh)
  PROVE  /\ issued' \in 1 .. MaxIssued /\ issued' = issued + 1 /\ issued \in Nat
         /\ refreshOf' \in [1 .. MaxIssued -> Nat] /\ refreshOf'[session] = refresh
         /\ \A s \in 1 .. issued : s # session => refreshOf'[s] = refreshOf[s]
         /\ tokenFile \in Content(issued') /\ held \in [Sso!Procs -> Content(issued')]
<1>1. issued \in 1 .. MaxIssued /\ issued < MaxIssued /\ issued' = issued + 1
  BY DEF Sso!Issue, ContentsOK
<1>2. issued \in Nat /\ issued' \in 1 .. MaxIssued
  BY <1>1 DEF SsoConstants
<1>3. session \in 1 .. MaxIssued
  BY <1>1 DEF SsoConstants
<1>4. refreshOf' = [refreshOf EXCEPT ![session] = refresh] /\ refreshOf \in [1 .. MaxIssued -> Nat]
  BY DEF Sso!Issue, ContentsOK
<1>5. refreshOf' \in [1 .. MaxIssued -> Nat] /\ refreshOf'[session] = refresh
  BY <1>3, <1>4
<1>6. \A s \in 1 .. issued : s # session => refreshOf'[s] = refreshOf[s]
  BY <1>1, <1>4
<1>7. tokenFile \in Content(issued')
  BY <1>1, <1>2, ContentFacts DEF ContentsOK
<1>8. held \in [Sso!Procs -> Content(issued')]
  <2>1. \A q \in Sso!Procs : held[q] \in Content(issued + 1)
    BY <1>2, ContentFacts DEF ContentsOK
  <2>. QED BY <1>1, <2>1 DEF ContentsOK
<1>. QED BY <1>1, <1>2, <1>5, <1>6, <1>7, <1>8

LEMMA RefreshTypes ==
  ASSUME PlacesOK, ContentsOK, NEW p \in Sso!Procs, Sso!Refresh(p)
  PROVE  /\ held[p].session \in 1 .. issued /\ held[p].refresh \in 1 .. issued
         /\ Sso!NewRefresh(p) \in 1 .. issued + 1
         /\ Sso!Issue(held[p].session, Sso!NewRefresh(p)) /\ InForce(held[p])
         /\ UNCHANGED <<opened, tokenFile, rotates>>
<1>1. held[p].kind = "token" /\ held[p] \in Content(issued) /\ issued \in Nat
  BY DEF ContentsOK, Sso!Refresh
<1>2. held[p].session \in 1 .. issued /\ held[p].refresh \in 1 .. issued
  BY <1>1, ContentFacts
<1>3. Sso!NewRefresh(p) \in 1 .. issued + 1
  BY <1>1, <1>2 DEF Sso!NewRefresh
<1>4. Sso!Issue(held[p].session, Sso!NewRefresh(p))
  BY DEF Sso!Refresh, Sso!NewRefresh
<1>. QED BY <1>2, <1>3, <1>4 DEF Sso!Refresh, Sso!Live, InForce, Sso!Issue

(* A token that was in force still is, unless it is of the session that    *)
(* was refreshed and the service rotates.                                  *)
LEMMA StillInForce ==
  ASSUME SsoConstants, PlacesOK, ContentsOK, NEW p \in Sso!Procs, Sso!Refresh(p), NEW t \in Content(issued),
         t.kind = "token", InForce(t), rotates => t.refresh # held[p].refresh
  PROVE  refreshOf'[t.session] = t.refresh
<1>1. /\ held[p].session \in 1 .. issued /\ Sso!NewRefresh(p) \in 1 .. issued + 1
      /\ Sso!Issue(held[p].session, Sso!NewRefresh(p)) /\ InForce(held[p])
  BY RefreshTypes
<1>2. t.session \in 1 .. issued /\ issued \in Nat
  BY ContentFacts DEF ContentsOK
<1>3. held[p].session \in 1 .. issued + 1 /\ Sso!NewRefresh(p) \in Nat
  BY <1>1, <1>2
<1>4. /\ refreshOf'[held[p].session] = Sso!NewRefresh(p)
      /\ \A s \in 1 .. issued : s # held[p].session => refreshOf'[s] = refreshOf[s]
  BY <1>1, <1>3, IssueTypes
<1>5. CASE t.session # held[p].session
  BY <1>2, <1>4, <1>5 DEF InForce
<1>6. CASE t.session = held[p].session
  <2>1. t.refresh = held[p].refresh
    BY <1>1, <1>6 DEF InForce
  <2>2. ~rotates
    BY <2>1
  <2>. QED BY <1>4, <1>6, <2>1, <2>2 DEF Sso!NewRefresh
<1>. QED BY <1>5, <1>6

LEMMA RefreshKeeps ==
  ASSUME SsoConstants, PlacesOK, ContentsOK, FileInv, RefreshInv, NEW p \in Sso!Procs, Walks(p), Sso!Refresh(p)
  PROVE  ContentsOK' /\ FileInv' /\ RefreshInv'
<1>1. Sso!Procs' = Sso!Procs /\ \A q \in Sso!Procs \ {p} : ssoAt'[q] = ssoAt[q]
  BY OtherStays
<1>2. /\ held[p].session \in 1 .. issued /\ held[p].refresh \in 1 .. issued
      /\ Sso!NewRefresh(p) \in 1 .. issued + 1
      /\ Sso!Issue(held[p].session, Sso!NewRefresh(p)) /\ InForce(held[p])
      /\ UNCHANGED <<opened, tokenFile, rotates>>
  BY RefreshTypes
<1>3. issued \in Nat /\ held[p].session \in 1 .. issued + 1 /\ Sso!NewRefresh(p) \in Nat
  BY <1>2 DEF ContentsOK
<1>4. /\ issued' \in 1 .. MaxIssued /\ issued' = issued + 1
      /\ refreshOf' \in [1 .. MaxIssued -> Nat] /\ refreshOf'[held[p].session] = Sso!NewRefresh(p)
      /\ tokenFile \in Content(issued') /\ held \in [Sso!Procs -> Content(issued')]
  BY <1>2, <1>3, IssueTypes
<1>5. /\ held[p].kind = "token" /\ ssoAt[p] = "refresh" /\ tokenFile \in Content(issued)
      /\ \A q \in Sso!Procs : held[q] \in Content(issued)
      /\ \A q \in Sso!Procs : Sso!Between(q) => held[q].kind = "token"
  BY DEF ContentsOK, Sso!Refresh, Sso!Between
<1>6. tokenFile.refresh \in 0 .. issued /\ \A q \in Sso!Procs : held[q].refresh \in 0 .. issued
  BY <1>3, <1>5, ContentFacts
<1>7. \A q \in Sso!Procs : Sso!Between(q) =>
        /\ q # p /\ InForce(held[q]) /\ refreshOf'[held[q].session] = held[q].refresh
        /\ rotates => tokenFile.refresh # held[q].refresh
        /\ rotates => \A r \in Sso!Procs \ {q} : held[r].refresh # held[q].refresh
  <2>1. SUFFICES ASSUME NEW q \in Sso!Procs, Sso!Between(q)
        PROVE  /\ q # p /\ InForce(held[q]) /\ refreshOf'[held[q].session] = held[q].refresh
               /\ rotates => tokenFile.refresh # held[q].refresh
               /\ rotates => \A r \in Sso!Procs \ {q} : held[r].refresh # held[q].refresh
    OBVIOUS
  <2>2. q # p
    BY <1>5, <2>1 DEF Sso!Between
  <2>3. /\ InForce(held[q])
        /\ rotates => tokenFile.refresh # held[q].refresh
        /\ rotates => \A r \in Sso!Procs \ {q} : held[r].refresh # held[q].refresh
    BY <2>1 DEF RefreshInv
  <2>4. rotates => held[q].refresh # held[p].refresh
    BY <2>2, <2>3
  <2>. QED BY <1>5, <2>1, <2>2, <2>3, <2>4, StillInForce
<1>8. ~rotates => /\ \A q \in Sso!Procs : held[q].kind = "token" =>
                                            refreshOf'[held[q].session] = held[q].refresh
                  /\ tokenFile.kind = "token" => refreshOf'[tokenFile.session] = tokenFile.refresh
  BY <1>5, StillInForce DEF RefreshInv
<1>9. CASE ssoAt'[p] = "open" /\ UNCHANGED mishap
           /\ Sso!Holds(p, Sso!Token(held[p].session, issued + 1, Sso!NewRefresh(p)))
  <2>1. PICK t : t = Sso!Token(held[p].session, issued + 1, Sso!NewRefresh(p))
    OBVIOUS
  <2>2. t.kind = "token" /\ t.session = held[p].session /\ t.refresh = Sso!NewRefresh(p)
        /\ t \in Content(issued')
    BY <1>2, <1>3, <1>4, <2>1 DEF Sso!Token, Content, TokenOf
  <2>3. held' = [held EXCEPT ![p] = t]
    BY <1>9, <2>1 DEF Sso!Holds
  <2>4. held'[p] = t /\ \A q \in Sso!Procs \ {p} : held'[q] = held[q]
    BY <1>4, <2>3
  <2>5. ContentsOK'
    <3>1. held' \in [Sso!Procs -> Content(issued')]
      BY <1>4, <2>2, <2>3
    <3>2. \A q \in Sso!Procs : ssoAt'[q] \in {"refresh", "open", "write"} => held'[q].kind = "token"
      BY <1>1, <2>2, <2>4 DEF ContentsOK
    <3>3. opened' \subseteq {q \in Sso!Procs : ssoAt'[q] = "write"}
      BY <1>1, <1>2, <1>5 DEF ContentsOK
    <3>4. rotates' \in BOOLEAN
      BY <1>2 DEF ContentsOK
    <3>. QED BY <1>1, <1>2, <1>4, <3>1, <3>2, <3>3, <3>4 DEF ContentsOK
  <2>6. FileInv'
    BY <1>2, <1>9 DEF FileInv, Sso!Torn, Sso!Blank
  <2>7. \A q \in Sso!Procs \ {p} : Sso!Between(q)' => Sso!Between(q)
    BY <1>1 DEF Sso!Between
  <2>8. InForce(held[p])'
    BY <1>4, <2>2, <2>4 DEF InForce
  <2>9. rotates => t.refresh = issued + 1
    BY <2>2 DEF Sso!NewRefresh
  <2>10. rotates => /\ tokenFile.refresh # t.refresh
                    /\ \A q \in Sso!Procs : held[q].refresh # t.refresh
    BY <1>3, <1>6, <2>9
  <2>11. ASSUME NEW q \in Sso!Procs, Sso!Between(q)'
         PROVE  /\ InForce(held[q])'
                /\ rotates => /\ tokenFile.refresh # held'[q].refresh
                              /\ \A r \in Sso!Procs \ {q} : held'[r].refresh # held'[q].refresh
    <3>1. CASE q = p
      BY <2>4, <2>8, <2>10, <3>1
    <3>2. CASE q # p
      <4>1. Sso!Between(q) /\ held'[q] = held[q]
        BY <2>4, <2>7, <2>11, <3>2
      <4>2. InForce(held[q])'
        BY <1>7, <4>1 DEF InForce
      <4>3. rotates => /\ tokenFile.refresh # held[q].refresh
                       /\ \A r \in Sso!Procs \ {q} : held[r].refresh # held[q].refresh
        BY <1>7, <4>1
      <4>4. rotates => \A r \in Sso!Procs \ {q} : held'[r].refresh # held[q].refresh
        BY <2>4, <2>10, <4>3
      <4>. QED BY <4>1, <4>2, <4>3, <4>4
    <3>. QED BY <3>1, <3>2
  <2>12. ~rotates => /\ \A q \in Sso!Procs : held'[q].kind = "token" => InForce(held[q])'
                     /\ tokenFile.kind = "token" => InForce(tokenFile)'
    BY <1>2, <1>8, <2>4, <2>8 DEF InForce
  <2>13. RefreshInv'
    BY <1>1, <1>2, <1>9, <2>11, <2>12, Zenon DEF RefreshInv
  <2>. QED BY <2>5, <2>6, <2>13
<1>10. CASE Sso!FallBack(p) /\ mishap' = TRUE /\ UNCHANGED held
  <2>1. ssoAt'[p] \in {"expired", "fetch"}
    BY <1>10 DEF Sso!FallBack, Sso!Goes, PlacesOK
  <2>2. ContentsOK'
    <3>1. \A q \in Sso!Procs : ssoAt'[q] \in {"refresh", "open", "write"} => held'[q].kind = "token"
      BY <1>1, <1>10, <2>1 DEF ContentsOK
    <3>2. opened' \subseteq {q \in Sso!Procs : ssoAt'[q] = "write"}
      BY <1>1, <1>2, <1>5 DEF ContentsOK
    <3>3. rotates' \in BOOLEAN
      BY <1>2 DEF ContentsOK
    <3>. QED BY <1>1, <1>2, <1>4, <1>10, <3>1, <3>2, <3>3 DEF ContentsOK
  <2>3. FileInv'
    BY <1>10 DEF FileInv
  <2>4. \A q \in Sso!Procs : Sso!Between(q)' => Sso!Between(q)
    BY <1>1, <2>1 DEF Sso!Between
  <2>5. RefreshInv'
    BY <1>1, <1>2, <1>7, <1>8, <1>10, <2>4 DEF RefreshInv, InForce
  <2>. QED BY <2>2, <2>3, <2>5
<1>11. \/ /\ Sso!FallBack(p) /\ mishap' = TRUE /\ UNCHANGED held
       \/ /\ ssoAt'[p] = "open" /\ UNCHANGED mishap
          /\ Sso!Holds(p, Sso!Token(held[p].session, issued + 1, Sso!NewRefresh(p)))
  BY DEF Sso!Refresh, Sso!Goes, PlacesOK
<1>. QED BY <1>9, <1>10, <1>11


(* A login is given the token of a new session. *)
LEMMA PollKeeps ==
  ASSUME SsoConstants, PlacesOK, ContentsOK, FileInv, RefreshInv, NEW p \in Sso!Procs, Walks(p),
         Sso!PollToken(p)
  PROVE  ContentsOK' /\ FileInv' /\ RefreshInv'
<1>1. Sso!Procs' = Sso!Procs /\ \A q \in Sso!Procs \ {p} : ssoAt'[q] = ssoAt[q]
  BY OtherStays
<1>2. ssoAt[p] = "poll" /\ ssoAt'[p] = "open" /\ UNCHANGED <<opened, tokenFile, rotates, mishap>>
      /\ Sso!Issue(issued + 1, issued + 1)
      /\ Sso!Holds(p, Sso!Token(issued + 1, issued + 1, issued + 1))
  BY DEF Sso!PollToken, Sso!Goes, Sso!Issue, PlacesOK
<1>3. issued \in Nat /\ issued + 1 \in Nat /\ issued + 1 \in 1 .. issued + 1
  BY DEF ContentsOK
<1>4. /\ issued' \in 1 .. MaxIssued /\ issued' = issued + 1
      /\ refreshOf' \in [1 .. MaxIssued -> Nat] /\ refreshOf'[issued + 1] = issued + 1
      /\ \A s \in 1 .. issued : s # issued + 1 => refreshOf'[s] = refreshOf[s]
      /\ tokenFile \in Content(issued') /\ held \in [Sso!Procs -> Content(issued')]
  BY <1>2, <1>3, IssueTypes
<1>5. tokenFile \in Content(issued) /\ \A q \in Sso!Procs : held[q] \in Content(issued)
  BY DEF ContentsOK
<1>6. tokenFile.refresh \in 0 .. issued /\ \A q \in Sso!Procs : held[q].refresh \in 0 .. issued
  BY <1>3, <1>5, ContentFacts
<1>7. \A t \in Content(issued) : t.kind = "token" => refreshOf'[t.session] = refreshOf[t.session]
  <2>1. SUFFICES ASSUME NEW t \in Content(issued), t.kind = "token"
        PROVE  refreshOf'[t.session] = refreshOf[t.session]
    OBVIOUS
  <2>2. t.session \in 1 .. issued
    BY <1>3, <2>1, ContentFacts
  <2>3. t.session # issued + 1
    BY <1>3, <2>2
  <2>. QED BY <1>4, <2>2, <2>3
<1>8. PICK t : t = Sso!Token(issued + 1, issued + 1, issued + 1)
  OBVIOUS
<1>9. t.kind = "token" /\ t.session = issued + 1 /\ t.refresh = issued + 1 /\ t \in Content(issued')
  BY <1>3, <1>4, <1>8 DEF Sso!Token, Content, TokenOf
<1>10. held' = [held EXCEPT ![p] = t]
  BY <1>2, <1>8 DEF Sso!Holds
<1>11. held'[p] = t /\ \A q \in Sso!Procs \ {p} : held'[q] = held[q]
  BY <1>4, <1>10
<1>12. ContentsOK'
  <2>1. held' \in [Sso!Procs -> Content(issued')]
    BY <1>4, <1>9, <1>10
  <2>2. \A q \in Sso!Procs : ssoAt'[q] \in {"refresh", "open", "write"} => held'[q].kind = "token"
    BY <1>1, <1>9, <1>11 DEF ContentsOK
  <2>3. opened' \subseteq {q \in Sso!Procs : ssoAt'[q] = "write"}
    BY <1>1, <1>2 DEF ContentsOK
  <2>4. rotates' \in BOOLEAN
    BY <1>2 DEF ContentsOK
  <2>. QED BY <1>1, <1>2, <1>4, <2>1, <2>2, <2>3, <2>4 DEF ContentsOK
<1>13. FileInv'
  BY <1>2 DEF FileInv, Sso!Torn, Sso!Blank
<1>14. \A q \in Sso!Procs \ {p} : Sso!Between(q)' => Sso!Between(q) /\ held[q].kind = "token"
  BY <1>1 DEF Sso!Between, ContentsOK
<1>15. InForce(held[p])'
  BY <1>4, <1>9, <1>11 DEF InForce
<1>16. tokenFile.refresh # t.refresh /\ \A q \in Sso!Procs : held[q].refresh # t.refresh
  BY <1>3, <1>6, <1>9
<1>17. ASSUME NEW q \in Sso!Procs, Sso!Between(q)'
       PROVE  /\ InForce(held[q])'
              /\ rotates => /\ tokenFile.refresh # held'[q].refresh
                            /\ \A r \in Sso!Procs \ {q} : held'[r].refresh # held'[q].refresh
  <2>1. CASE q = p
    BY <1>11, <1>15, <1>16, <2>1
  <2>2. CASE q # p
    <3>1. Sso!Between(q) /\ held'[q] = held[q] /\ held[q].kind = "token"
      BY <1>11, <1>14, <1>17, <2>2
    <3>2. /\ InForce(held[q])
          /\ rotates => /\ tokenFile.refresh # held[q].refresh
                        /\ \A r \in Sso!Procs \ {q} : held[r].refresh # held[q].refresh
      BY <3>1 DEF RefreshInv
    <3>3. InForce(held[q])'
      BY <1>5, <1>7, <3>1, <3>2 DEF InForce
    <3>4. rotates => \A r \in Sso!Procs \ {q} : held'[r].refresh # held[q].refresh
      BY <1>11, <1>16, <3>2
    <3>. QED BY <3>1, <3>2, <3>3, <3>4
  <2>. QED BY <2>1, <2>2
<1>18. ~rotates => /\ \A q \in Sso!Procs : held'[q].kind = "token" => InForce(held[q])'
                   /\ tokenFile.kind = "token" => InForce(tokenFile)'
  <2>1. ASSUME ~rotates, NEW q \in Sso!Procs, held'[q].kind = "token"
        PROVE  InForce(held[q])'
    <3>1. CASE q = p
      BY <1>15, <3>1
    <3>2. CASE q # p
      BY <1>5, <1>7, <1>11, <2>1, <3>2 DEF RefreshInv, InForce
    <3>. QED BY <3>1, <3>2
  <2>2. ~rotates /\ tokenFile.kind = "token" => InForce(tokenFile)'
    BY <1>2, <1>5, <1>7 DEF RefreshInv, InForce
  <2>. QED BY <2>1, <2>2
<1>19. RefreshInv'
  BY <1>1, <1>2, <1>17, <1>18, Zenon DEF RefreshInv
<1>. QED BY <1>12, <1>13, <1>19

(* Opening the file empties it. *)
LEMMA OpenKeeps ==
  ASSUME PlacesOK, ContentsOK, FileInv, RefreshInv, NEW p \in Sso!Procs, Walks(p),
         Sso!OpenToken(p)
  PROVE  ContentsOK' /\ FileInv' /\ RefreshInv'
<1>1. Sso!Procs' = Sso!Procs /\ \A q \in Sso!Procs \ {p} : ssoAt'[q] = ssoAt[q]
  BY OtherStays
<1>2. /\ ssoAt[p] = "open" /\ ssoAt'[p] = "write" /\ tokenFile' = Sso!Torn
      /\ opened' = opened \cup {p} /\ mishap' = (mishap \/ opened # {})
      /\ UNCHANGED <<held, issued, rotates, refreshOf>>
  BY DEF Sso!OpenToken, Sso!Goes, Sso!serviceVars, PlacesOK
<1>3. tokenFile' \in Content(issued) /\ tokenFile'.kind = "torn" /\ tokenFile'.refresh = 0
  BY <1>2 DEF Content, Sso!Torn, Sso!Blank
<1>4. ContentsOK'
  <2>1. \A q \in Sso!Procs : ssoAt'[q] \in {"refresh", "open", "write"} => held[q].kind = "token"
    BY <1>1, <1>2 DEF ContentsOK
  <2>2. opened' \subseteq {q \in Sso!Procs : ssoAt'[q] = "write"}
    BY <1>1, <1>2 DEF ContentsOK
  <2>. QED BY <1>1, <1>2, <1>3, <2>1, <2>2 DEF ContentsOK
<1>5. FileInv'
  BY <1>2 DEF FileInv, Sso!Torn, Sso!Blank
<1>6. \A q \in Sso!Procs : Sso!Between(q)' => Sso!Between(q)
  BY <1>1, <1>2 DEF Sso!Between
<1>7. \A q \in Sso!Procs : Sso!Between(q) => held[q].refresh # 0
  <2>1. SUFFICES ASSUME NEW q \in Sso!Procs, Sso!Between(q) PROVE held[q].refresh # 0
    OBVIOUS
  <2>2. held[q].kind = "token" /\ held[q] \in Content(issued) /\ issued \in Nat
    BY <2>1 DEF ContentsOK, Sso!Between
  <2>3. held[q].refresh \in 1 .. issued
    BY <2>2, ContentFacts
  <2>. QED BY <2>2, <2>3
<1>8. ASSUME NEW q \in Sso!Procs, Sso!Between(q)'
      PROVE  /\ InForce(held[q])'
             /\ rotates => /\ tokenFile'.refresh # held[q].refresh
                           /\ \A r \in Sso!Procs \ {q} : held[r].refresh # held[q].refresh
  BY <1>2, <1>3, <1>6, <1>7, <1>8 DEF RefreshInv, InForce
<1>9. ~rotates => \A q \in Sso!Procs : held[q].kind = "token" => InForce(held[q])'
  BY <1>2 DEF RefreshInv, InForce
<1>10. RefreshInv'
  BY <1>1, <1>2, <1>3, <1>8, <1>9 DEF RefreshInv
<1>. QED BY <1>4, <1>5, <1>10

(* What is written is the token in hand, unless the file was deleted; two  *)
(* writers at once are a mishap.                                           *)
LEMMA WriteKeeps ==
  ASSUME PlacesOK, ContentsOK, FileInv, RefreshInv, NEW p \in Sso!Procs, Walks(p),
         Sso!WriteToken(p)
  PROVE  ContentsOK' /\ FileInv' /\ RefreshInv'
<1>1. Sso!Procs' = Sso!Procs /\ \A q \in Sso!Procs \ {p} : ssoAt'[q] = ssoAt[q]
  BY OtherStays
<1>2. /\ ssoAt[p] = "write" /\ ssoAt'[p] \in {"done", "fetch"} /\ opened' = opened \ {p}
      /\ tokenFile' \in IF p \notin opened THEN {tokenFile}
                        ELSE IF tokenFile = Sso!Torn THEN {held[p]} ELSE {held[p], Sso!Torn}
      /\ UNCHANGED <<held, issued, rotates, refreshOf, mishap>>
  BY DEF Sso!WriteToken, Sso!Written, Sso!Goes, Sso!serviceVars, PlacesOK
<1>3. /\ held[p] \in Content(issued) /\ held[p].kind = "token" /\ held[p] # Sso!Torn
      /\ tokenFile \in Content(issued) /\ issued \in Nat
  <2>1. /\ held[p] \in Content(issued) /\ held[p].kind = "token"
        /\ tokenFile \in Content(issued) /\ issued \in Nat
    BY <1>2 DEF ContentsOK
  <2>. QED BY <2>1, ContentFacts
<1>4. tokenFile' \in Content(issued)
  <2>1. Sso!Torn \in Content(issued)
    BY DEF Content
  <2>. QED BY <1>2, <1>3, <2>1
<1>5. ContentsOK'
  <2>1. \A q \in Sso!Procs : ssoAt'[q] \in {"refresh", "open", "write"} => held[q].kind = "token"
    BY <1>1, <1>2 DEF ContentsOK
  <2>2. opened' \subseteq {q \in Sso!Procs : ssoAt'[q] = "write"}
    BY <1>1, <1>2 DEF ContentsOK
  <2>. QED BY <1>1, <1>2, <1>4, <2>1, <2>2 DEF ContentsOK
<1>6. FileInv'
  <2>1. SUFFICES ASSUME ~mishap
        PROVE  (\A q, r \in opened' : q = r) /\ (opened' # {} <=> tokenFile' = Sso!Torn)
    BY <1>2 DEF FileInv, Sso!Torn, Sso!Blank
  <2>2. (\A q, r \in opened : q = r) /\ (opened # {} <=> tokenFile = Sso!Torn)
    BY <2>1 DEF FileInv
  <2>3. CASE p \in opened
    <3>1. opened' = {} /\ tokenFile' = held[p]
      BY <1>2, <2>2, <2>3
    <3>. QED BY <1>3, <3>1
  <2>4. CASE p \notin opened
    <3>1. opened' = opened /\ tokenFile' = tokenFile
      BY <1>2, <2>4
    <3>. QED BY <2>2, <3>1
  <2>. QED BY <2>3, <2>4
<1>7. \A q \in Sso!Procs : Sso!Between(q)' => Sso!Between(q) /\ q # p
  BY <1>1, <1>2 DEF Sso!Between
<1>8. Sso!Between(p) /\ InForce(held[p])
  BY <1>2 DEF Sso!Between, RefreshInv
<1>9. tokenFile' = tokenFile \/ tokenFile' = held[p] \/ tokenFile' = Sso!Torn
  BY <1>2
<1>10. \A q \in Sso!Procs : Sso!Between(q) => held[q].refresh # 0
  <2>1. SUFFICES ASSUME NEW q \in Sso!Procs, Sso!Between(q) PROVE held[q].refresh # 0
    OBVIOUS
  <2>2. held[q].kind = "token" /\ held[q] \in Content(issued)
    BY <2>1 DEF ContentsOK, Sso!Between
  <2>3. held[q].refresh \in 1 .. issued
    BY <1>3, <2>2, ContentFacts
  <2>. QED BY <1>3, <2>3
<1>11. Sso!Torn.refresh = 0 /\ Sso!Torn.kind = "torn"
  BY DEF Sso!Torn, Sso!Blank
<1>12. ASSUME NEW q \in Sso!Procs, Sso!Between(q)'
       PROVE  /\ InForce(held[q])'
              /\ rotates => /\ tokenFile'.refresh # held[q].refresh
                            /\ \A r \in Sso!Procs \ {q} : held[r].refresh # held[q].refresh
  <2>1. Sso!Between(q) /\ q # p
    BY <1>7, <1>12
  <2>2. /\ InForce(held[q])
        /\ rotates => /\ tokenFile.refresh # held[q].refresh
                      /\ \A r \in Sso!Procs \ {q} : held[r].refresh # held[q].refresh
    BY <2>1 DEF RefreshInv
  <2>3. rotates => tokenFile'.refresh # held[q].refresh
    BY <1>9, <1>10, <1>11, <2>1, <2>2
  <2>. QED BY <1>2, <2>2, <2>3 DEF InForce
<1>13. ~rotates => /\ \A q \in Sso!Procs : held[q].kind = "token" => InForce(held[q])'
                   /\ tokenFile'.kind = "token" => InForce(tokenFile)'
  <2>1. ~rotates => \A q \in Sso!Procs : held[q].kind = "token" => InForce(held[q])'
    BY <1>2 DEF RefreshInv, InForce
  <2>2. ~rotates /\ tokenFile'.kind = "token" => InForce(tokenFile)'
    BY <1>2, <1>8, <1>9, <1>11 DEF RefreshInv, InForce
  <2>. QED BY <2>1, <2>2
<1>14. ~mishap /\ tokenFile'.kind = "token" /\ ~InForce(tokenFile)' =>
         \E q \in Sso!Procs : ssoAt'[q] = "open"
  <2>1. SUFFICES ASSUME ~mishap, tokenFile'.kind = "token", ~InForce(tokenFile)'
        PROVE  \E q \in Sso!Procs : ssoAt'[q] = "open"
    OBVIOUS
  <2>2. tokenFile' = tokenFile
    BY <1>2, <1>8, <1>9, <1>11, <2>1 DEF InForce
  <2>3. PICK q \in Sso!Procs : ssoAt[q] = "open"
    BY <1>2, <2>1, <2>2 DEF RefreshInv, InForce
  <2>. QED BY <1>1, <1>2, <2>3
<1>15. RefreshInv'
  BY <1>1, <1>2, <1>12, <1>13, <1>14, Zenon DEF RefreshInv
<1>. QED BY <1>5, <1>6, <1>15

(* The file is deleted. *)
LEMMA RemoveKeeps ==
  ASSUME PlacesOK, ContentsOK, FileInv, RefreshInv, NEW p \in Sso!Procs, Walks(p),
         Sso!RemoveToken(p)
  PROVE  ContentsOK' /\ FileInv' /\ RefreshInv'
<1>1. Sso!Procs' = Sso!Procs /\ \A q \in Sso!Procs \ {p} : ssoAt'[q] = ssoAt[q]
  BY OtherStays
<1>2. /\ ssoAt[p] = "remove" /\ ssoAt'[p] = "sweepRole" /\ tokenFile' = Sso!Missing
      /\ opened' = {} /\ UNCHANGED <<held, issued, rotates, refreshOf, mishap>>
  BY DEF Sso!RemoveToken, Sso!Goes, Sso!serviceVars, Sso!historyVars, PlacesOK
<1>3. tokenFile' \in Content(issued) /\ tokenFile'.kind = "missing" /\ tokenFile'.refresh = 0
      /\ tokenFile' # Sso!Torn
  BY <1>2 DEF Content, Sso!Torn, Sso!Missing, Sso!Blank
<1>4. ContentsOK'
  <2>1. \A q \in Sso!Procs : ssoAt'[q] \in {"refresh", "open", "write"} => held[q].kind = "token"
    BY <1>1, <1>2 DEF ContentsOK
  <2>. QED BY <1>1, <1>2, <1>3, <2>1 DEF ContentsOK
<1>5. FileInv'
  BY <1>2, <1>3 DEF FileInv, Sso!Torn, Sso!Blank
<1>6. \A q \in Sso!Procs : Sso!Between(q)' => Sso!Between(q)
  BY <1>1, <1>2 DEF Sso!Between
<1>7. ASSUME NEW q \in Sso!Procs, Sso!Between(q)'
      PROVE  /\ InForce(held[q])'
             /\ rotates => /\ tokenFile'.refresh # held[q].refresh
                           /\ \A r \in Sso!Procs \ {q} : held[r].refresh # held[q].refresh
  <2>1. Sso!Between(q)
    BY <1>6, <1>7
  <2>2. held[q].kind = "token" /\ held[q] \in Content(issued) /\ issued \in Nat
    BY <2>1 DEF ContentsOK, Sso!Between
  <2>3. held[q].refresh \in 1 .. issued
    BY <2>2, ContentFacts
  <2>. QED BY <1>2, <1>3, <2>1, <2>2, <2>3 DEF RefreshInv, InForce
<1>8. ~rotates => \A q \in Sso!Procs : held[q].kind = "token" => InForce(held[q])'
  BY <1>2 DEF RefreshInv, InForce
<1>9. RefreshInv'
  BY <1>1, <1>2, <1>3, <1>7, <1>8 DEF RefreshInv
<1>. QED BY <1>4, <1>5, <1>9

(* It could not be opened, or the process was killed. *)
LEMMA MishapKeeps ==
  ASSUME PlacesOK, ContentsOK, FileInv, RefreshInv, NEW p \in Sso!Procs, Walks(p),
         Sso!OpenFails(p) \/ Sso!Crash(p)
  PROVE  ContentsOK' /\ FileInv' /\ RefreshInv'
<1>1. Sso!Procs' = Sso!Procs /\ \A q \in Sso!Procs \ {p} : ssoAt'[q] = ssoAt[q]
  BY OtherStays
<1>2. /\ ssoAt'[p] \in {"failed", "fetch", "crashed"} /\ mishap' = TRUE
      /\ UNCHANGED <<held, tokenFile, issued, rotates, refreshOf>>
      /\ opened' \subseteq opened \ {p}
  <2>1. CASE Sso!OpenFails(p)
    <3>1. ssoAt[p] = "open" /\ opened' = opened
      BY <2>1 DEF Sso!OpenFails, Sso!Goes
    <3>2. p \notin opened
      BY <3>1 DEF ContentsOK
    <3>. QED BY <2>1, <3>1, <3>2 DEF Sso!OpenFails, Sso!Goes, Sso!serviceVars, PlacesOK
  <2>2. CASE Sso!Crash(p)
    BY <2>2 DEF Sso!Crash, Sso!serviceVars, PlacesOK
  <2>. QED BY <2>1, <2>2
<1>3. ContentsOK'
  <2>1. \A q \in Sso!Procs : ssoAt'[q] \in {"refresh", "open", "write"} => held[q].kind = "token"
    BY <1>1, <1>2 DEF ContentsOK
  <2>2. opened' \subseteq {q \in Sso!Procs : ssoAt'[q] = "write"}
    BY <1>1, <1>2 DEF ContentsOK
  <2>. QED BY <1>1, <1>2, <2>1, <2>2 DEF ContentsOK
<1>4. FileInv'
  BY <1>2 DEF FileInv
<1>5. \A q \in Sso!Procs : Sso!Between(q)' => Sso!Between(q)
  BY <1>1, <1>2 DEF Sso!Between
<1>6. RefreshInv'
  BY <1>1, <1>2, <1>5 DEF RefreshInv, InForce
<1>. QED BY <1>3, <1>4, <1>6


(* A step of a command or a login is noticed by every logout under way, or *)
(* over.                                                                   *)
LEMMA NoticedKeeps ==
  ASSUME PlacesOK, LogoutInv, NEW p \in Sso!Procs, Walks(p), Sso!Notice(p),
         ssoAt[p] \notin LogoutPlaces
  PROVE  LogoutInv'
<1>1. Sso!Procs' = Sso!Procs /\ \A q \in Sso!Procs \ {p} : ssoAt'[q] = ssoAt[q]
  BY OtherStays
<1>2. cast[p] # "logout" /\ UNCHANGED cast
  BY DEF PlacesOK, Walks, Sso!Over
<1>3. Sso!LoggedOut' => crowded'
  <2>1. SUFFICES ASSUME Sso!LoggedOut' PROVE crowded'
    OBVIOUS
  <2>2. PICK q \in Sso!Procs : cast[q] = "logout" /\ ssoAt'[q] # "sweep"
    BY <1>1, <1>2, <2>1 DEF Sso!LoggedOut
  <2>3. q \in Sso!Procs \ {p} /\ ssoAt[q] # "sweep"
    BY <1>1, <1>2, <2>2
  <2>. QED BY <2>2, <2>3 DEF Sso!Notice
<1>. QED BY <1>3 DEF LogoutInv

LEMMA NoticedSteps ==
  ASSUME NEW p \in Sso!Procs,
         Sso!Command(p) \/ Sso!Login(p) \/ Sso!OpenToken(p) \/ Sso!WriteToken(p) \/ Sso!OpenFails(p)
  PROVE  Sso!Notice(p) /\ ssoAt[p] \notin LogoutPlaces
<1>. USE DEF Sso!Goes, LogoutPlaces
<1>1. CASE Sso!ReadRole(p) \/ Sso!ReadToken(p) \/ Sso!Fetch(p)
  BY <1>1 DEF Sso!ReadRole, Sso!ReadToken, Sso!Fetch
<1>2. CASE Sso!Refresh(p) \/ Sso!RefreshFails(p)
  BY <1>2 DEF Sso!Refresh, Sso!RefreshFails, Sso!FallBack
<1>3. CASE Sso!OpenRole(p) \/ Sso!WriteRole(p)
  BY <1>3 DEF Sso!OpenRole, Sso!WriteRole
<1>4. CASE Sso!Login(p)
  BY <1>4 DEF Sso!Login, Sso!Authorize, Sso!PollPending, Sso!WakeUp, Sso!PollToken, Sso!PollFails
<1>5. CASE Sso!OpenToken(p) \/ Sso!WriteToken(p) \/ Sso!OpenFails(p)
  BY <1>5 DEF Sso!OpenToken, Sso!WriteToken, Sso!OpenFails
<1>. QED BY <1>1, <1>2, <1>3, <1>4, <1>5 DEF Sso!Command

(* Nobody who has begun and not ended is at work beside a logout that was  *)
(* not noticed.                                                            *)
LEMMA AloneAtWork ==
  ASSUME PlacesOK, LogoutInv, ~crowded, Sso!LoggedOut, NEW p \in Sso!Procs,
         ssoAt[p] \notin Sso!Over, ssoAt[p] # Sso!First(cast[p])
  PROVE  Alone(p)
<1>1. PICK w \in Sso!Procs : Alone(w)
  BY DEF LogoutInv
<1>2. w = p
  BY <1>1 DEF Alone
<1>. QED BY <1>1, <1>2

LEMMA CrashKeeps ==
  ASSUME PlacesOK, LogoutInv, NEW p \in Sso!Procs, Walks(p), Sso!Crash(p)
  PROVE  LogoutInv'
<1>1. Sso!Procs' = Sso!Procs /\ \A q \in Sso!Procs \ {p} : ssoAt'[q] = ssoAt[q]
  BY OtherStays
<1>2. ssoAt[p] \in {"open", "write", "writeRole"} /\ UNCHANGED <<cast, tokenFile, roleFile, crowded>>
  BY DEF Sso!Crash
<1>3. cast[p] # "logout" /\ ssoAt[p] \notin Sso!Over /\ cast[p] \in {"command", "login"}
  BY <1>2 DEF PlacesOK, LogoutPlaces, Sso!Over
<1>4. ssoAt[p] # Sso!First(cast[p])
  BY <1>2, <1>3 DEF Sso!First
<1>5. Sso!LoggedOut' => Sso!LoggedOut
  BY <1>1, <1>2, <1>3 DEF Sso!LoggedOut
<1>6. ~(~crowded /\ Sso!LoggedOut)
  BY <1>3, <1>4, AloneAtWork DEF Alone
<1>. QED BY <1>2, <1>5, <1>6 DEF LogoutInv

(* A logout begins while the others have yet to begin, or are done.        *)
LEMMA SweepKeeps ==
  ASSUME PlacesOK, LogoutInv, NEW p \in Sso!Procs, Walks(p), Sso!SweepToken(p)
  PROVE  LogoutInv'
<1>1. Sso!Procs' = Sso!Procs /\ \A q \in Sso!Procs \ {p} : ssoAt'[q] = ssoAt[q]
  BY OtherStays
<1>2. /\ ssoAt[p] = "sweep" /\ UNCHANGED <<cast, tokenFile, roleFile>>
      /\ ssoAt'[p] = IF tokenFile.kind = "token" THEN "invalidate" ELSE "sweepRole"
      /\ ~crowded' => /\ ~crowded
                      /\ \A q \in Sso!Procs \ {p} : ssoAt[q] \in {Sso!First(cast[q])} \cup Sso!Over
  BY DEF Sso!SweepToken, Sso!Goes, PlacesOK
<1>3. cast[p] = "logout"
  BY <1>2 DEF PlacesOK, LogoutPlaces
<1>4. SUFFICES ASSUME ~crowded'
      PROVE  /\ Alone(p)'
             /\ \A q \in Sso!Procs : cast[q] = "logout" /\ ssoAt'[q] = "done" => Clean
  BY <1>1, <1>2 DEF LogoutInv, Clean
<1>5. Alone(p)'
  BY <1>1, <1>2, <1>3, <1>4 DEF Alone, Sso!First, Sso!Over
<1>6. ASSUME NEW q \in Sso!Procs, cast[q] = "logout", ssoAt'[q] = "done"
      PROVE  Clean
  <2>1. ssoAt[q] = "done"
    BY <1>1, <1>2, <1>6
  <2>2. Sso!LoggedOut
    BY <1>6, <2>1 DEF Sso!LoggedOut
  <2>. QED BY <1>2, <1>4, <1>6, <2>1, <2>2 DEF LogoutInv
<1>. QED BY <1>5, <1>6

(* The rest of a logout.                                                   *)
LEMMA LogoutKeeps ==
  ASSUME PlacesOK, LogoutInv, NEW p \in Sso!Procs, Walks(p),
         Sso!Invalidate(p) \/ Sso!RemoveToken(p) \/ Sso!SweepRole(p) \/ Sso!RemoveRole(p)
  PROVE  LogoutInv'
<1>1. Sso!Procs' = Sso!Procs /\ \A q \in Sso!Procs \ {p} : ssoAt'[q] = ssoAt[q]
  BY OtherStays
<1>2. /\ ssoAt[p] \in {"invalidate", "remove", "sweepRole", "removeRole"}
      /\ UNCHANGED <<cast, crowded>>
      /\ tokenFile' \in {tokenFile, Sso!Missing} /\ roleFile' \in {roleFile, "missing"}
  BY DEF Sso!Invalidate, Sso!RemoveToken, Sso!SweepRole, Sso!RemoveRole, Sso!Goes, Sso!historyVars
<1>3. cast[p] = "logout" /\ ssoAt[p] \notin Sso!Over /\ ssoAt[p] # Sso!First(cast[p])
  BY <1>2 DEF PlacesOK, LogoutPlaces, Sso!Over, Sso!First
<1>4. Sso!LoggedOut
  BY <1>2, <1>3 DEF Sso!LoggedOut
<1>6. SUFFICES ASSUME ~crowded
      PROVE  /\ Alone(p)'
             /\ \A q \in Sso!Procs : cast[q] = "logout" /\ ssoAt'[q] = "done" => Clean'
  BY <1>1, <1>2 DEF LogoutInv
<1>7. Alone(p) /\ \A q \in Sso!Procs : cast[q] = "logout" /\ ssoAt[q] = "done" => Clean
  BY <1>3, <1>4, <1>6, AloneAtWork DEF LogoutInv
<1>8. Sso!Missing.kind = "missing"
  BY DEF Sso!Missing, Sso!Blank
<1>9. Clean => Clean'
  BY <1>2, <1>8 DEF Clean
<1>10. ssoAt'[p] # "sweep" /\ (ssoAt'[p] \in {"sweepRole", "removeRole", "done"} => tokenFile'.kind # "token")
       /\ (ssoAt'[p] = "done" => Clean')
  <2>1. CASE Sso!Invalidate(p)
    BY <2>1 DEF Sso!Invalidate, Sso!Goes, PlacesOK
  <2>2. CASE Sso!RemoveToken(p)
    BY <1>8, <2>2 DEF Sso!RemoveToken, Sso!Goes, PlacesOK
  <2>3. CASE Sso!SweepRole(p)
    <3>1. tokenFile.kind # "token" /\ UNCHANGED <<tokenFile, roleFile>>
      BY <1>7, <2>3 DEF Sso!SweepRole, Sso!Goes, Alone
    <3>2. ssoAt'[p] = IF Sso!Derived THEN "removeRole" ELSE "done"
      BY <2>3 DEF Sso!SweepRole, Sso!Goes, PlacesOK
    <3>3. ssoAt'[p] = "done" => roleFile \in {"missing", "torn"}
      BY <3>2 DEF Sso!Derived
    <3>. QED BY <3>1, <3>2, <3>3 DEF Clean
  <2>4. CASE Sso!RemoveRole(p)
    <3>1. tokenFile.kind # "token" /\ UNCHANGED tokenFile /\ roleFile' = "missing"
      BY <1>7, <2>4 DEF Sso!RemoveRole, Sso!Goes, Alone
    <3>2. ssoAt'[p] = "done"
      BY <2>4 DEF Sso!RemoveRole, Sso!Goes, PlacesOK
    <3>. QED BY <3>1, <3>2 DEF Clean
  <2>. QED BY <2>1, <2>2, <2>3, <2>4
<1>11. Alone(p)'
  BY <1>1, <1>2, <1>3, <1>7, <1>10 DEF Alone, Sso!First, Sso!Over
<1>12. ASSUME NEW q \in Sso!Procs, cast[q] = "logout", ssoAt'[q] = "done"
       PROVE  Clean'
  <2>1. CASE q = p
    BY <1>10, <1>12, <2>1
  <2>2. CASE q # p
    BY <1>1, <1>7, <1>9, <1>12, <2>2
  <2>. QED BY <2>1, <2>2
<1>. QED BY <1>11, <1>12

LEMMA ReadingSteps ==
  ASSUME PlacesOK, NEW p \in Sso!Procs, Sso!ReadToken(p) \/ Sso!SweepToken(p)
  PROVE  /\ UNCHANGED <<opened, tokenFile, issued, rotates, refreshOf, mishap>>
         /\ Sso!Holds(p, tokenFile) /\ ssoAt[p] \notin {"open", "write"}
         /\ tokenFile.kind \in {"missing", "torn", "token"} =>
              /\ ssoAt'[p] \notin {"open", "write"}
              /\ ssoAt'[p] = "refresh" => tokenFile.kind = "token"
<1>1. CASE Sso!ReadToken(p)
  BY <1>1 DEF Sso!ReadToken, Sso!Goes, Sso!serviceVars, PlacesOK
<1>2. CASE Sso!SweepToken(p)
  BY <1>2 DEF Sso!SweepToken, Sso!Goes, Sso!serviceVars, PlacesOK
<1>. QED BY <1>1, <1>2

LEMMA SsoStepKeeps ==
  ASSUME SsoConstants, SsoInv, NEW p \in Sso!Procs, Sso!SsoStep(p) \/ Sso!Crash(p)
  PROVE  SsoInv'
<1>1. PlacesOK /\ ContentsOK /\ FileInv /\ RefreshInv /\ LogoutInv
  BY DEF SsoInv
<1>2. Walks(p)
  BY <1>1, StepWalks
<1>3. PlacesOK'
  BY <1>1, <1>2, PlacesStep
<1>4. ContentsOK' /\ FileInv' /\ RefreshInv'
  <2>1. CASE AsideStep(p)
    BY <1>1, <1>2, <2>1, AsideSteps, AsideKeeps
  <2>2. CASE Sso!ReadToken(p) \/ Sso!SweepToken(p)
    <3>1. tokenFile.kind \in {"missing", "torn", "token"}
      BY <1>1 DEF ContentsOK, Content, TokenOf, Sso!Missing, Sso!Torn, Sso!Blank
    <3>. QED BY <1>1, <1>2, <2>2, <3>1, ReadingSteps, ReadingKeeps
  <2>3. CASE Sso!Refresh(p)
    BY <1>1, <1>2, <2>3, RefreshKeeps
  <2>4. CASE Sso!PollToken(p)
    BY <1>1, <1>2, <2>4, PollKeeps
  <2>5. CASE Sso!OpenToken(p)
    BY <1>1, <1>2, <2>5, OpenKeeps
  <2>6. CASE Sso!WriteToken(p)
    BY <1>1, <1>2, <2>6, WriteKeeps
  <2>7. CASE Sso!RemoveToken(p)
    BY <1>1, <1>2, <2>7, RemoveKeeps
  <2>8. CASE Sso!OpenFails(p) \/ Sso!Crash(p)
    BY <1>1, <1>2, <2>8, MishapKeeps
  <2>. QED
    BY <2>1, <2>2, <2>3, <2>4, <2>5, <2>6, <2>7, <2>8, Zenon
       DEF AsideStep, Sso!SsoStep, Sso!Command, Sso!Login, Sso!Logout
<1>5. LogoutInv'
  <2>1. CASE Sso!Command(p) \/ Sso!Login(p) \/ Sso!OpenToken(p) \/ Sso!WriteToken(p) \/ Sso!OpenFails(p)
    BY <1>1, <1>2, <2>1, NoticedSteps, NoticedKeeps
  <2>2. CASE Sso!Crash(p)
    BY <1>1, <1>2, <2>2, CrashKeeps
  <2>3. CASE Sso!SweepToken(p)
    BY <1>1, <1>2, <2>3, SweepKeeps
  <2>4. CASE Sso!Invalidate(p) \/ Sso!RemoveToken(p) \/ Sso!SweepRole(p) \/ Sso!RemoveRole(p)
    BY <1>1, <1>2, <2>4, LogoutKeeps
  <2>. QED
    BY <2>1, <2>2, <2>3, <2>4, Zenon DEF Sso!SsoStep, Sso!Logout
<1>. QED BY <1>3, <1>4, <1>5 DEF SsoInv

LEMMA SsoStarts ==
  ASSUME SsoConstants, Sso!SsoInit
  PROVE  SsoInv
<1>1. cast \in [Sso!Procs -> {"command", "login", "logout"}]
  BY DEF SsoConstants, Sso!SsoInit, Sso!Procs
<1>2. \A p \in Sso!Procs : ssoAt[p] = Sso!First(cast[p]) /\ held[p] = Sso!Missing
  BY DEF Sso!SsoInit
<1>3. \A p \in Sso!Procs : /\ cast[p] = "logout" => ssoAt[p] = "sweep"
                           /\ cast[p] # "logout" => ssoAt[p] \in {"role", "authorize"}
  BY <1>1, <1>2 DEF Sso!First
<1>4. PlacesOK
  <2>1. \A p \in Sso!Procs : Sso!First(cast[p]) \in LogoutPlaces \cup OtherPlaces
    BY <1>1 DEF Sso!First, LogoutPlaces, OtherPlaces
  <2>2. ssoAt \in [Sso!Procs -> LogoutPlaces \cup OtherPlaces \cup Sso!Over]
    BY <2>1 DEF Sso!SsoInit
  <2>. QED BY <1>1, <1>3, <2>2 DEF PlacesOK, LogoutPlaces
<1>5. tokenFile = Sso!Missing \/ tokenFile = Sso!Token(1, 1, 1)
  BY DEF Sso!SsoInit
<1>6. 1 \in 1 .. MaxIssued /\ refreshOf[1] = 1 /\ refreshOf \in [1 .. MaxIssued -> Nat]
  <2>1. 1 \in 1 .. MaxIssued
    BY DEF SsoConstants
  <2>. QED BY <2>1 DEF Sso!SsoInit
<1>7. /\ issued = 1 /\ rotates \in BOOLEAN /\ opened = {} /\ mishap = FALSE
      /\ held = [p \in Sso!Procs |-> Sso!Missing]
  BY DEF Sso!SsoInit
<1>8. tokenFile \in Content(1) /\ tokenFile # Sso!Torn /\ Sso!Missing \in Content(1)
  BY <1>5 DEF Content, TokenOf, Sso!Missing, Sso!Torn, Sso!Token, Sso!Blank
<1>9. ContentsOK
  <2>1. held \in [Sso!Procs -> Content(1)]
    BY <1>7, <1>8
  <2>2. \A p \in Sso!Procs : ssoAt[p] \notin {"refresh", "open", "write"}
    BY <1>1, <1>3
  <2>. QED BY <1>6, <1>7, <1>8, <2>1, <2>2, Zenon DEF ContentsOK
<1>10. FileInv
  BY <1>7, <1>8 DEF FileInv
<1>11. tokenFile.kind = "token" => InForce(tokenFile)
  BY <1>5, <1>6 DEF Sso!Missing, Sso!Token, Sso!Blank, InForce
<1>12. RefreshInv
  <2>1. \A p \in Sso!Procs : held[p].kind # "token"
    BY <1>2 DEF Sso!Missing, Sso!Blank
  <2>2. \A p \in Sso!Procs : ~Sso!Between(p)
    BY <1>1, <1>3 DEF Sso!Between
  <2>. QED BY <1>11, <2>1, <2>2 DEF RefreshInv
<1>13. LogoutInv
  BY <1>3 DEF Sso!LoggedOut, LogoutInv
<1>. QED BY <1>4, <1>9, <1>10, <1>12, <1>13 DEF SsoInv

(* Overlap alone does not lock the user out: until a crash, a lost answer, *)
(* a failed write or two writers at once (mishap), the cached token is     *)
(* whole and its refresh token in force.  A logout that nobody overlapped  *)
(* (crowded) leaves nothing behind (write_token, refresh and logout of     *)
(* sso_login.rs and sso.rs).  For any number of commands, logins and       *)
(* logouts that share the cached token, whether or not the service rotates *)
(* refresh tokens.                                                         *)
THEOREM SessionIsKept ==
  ASSUME SsoConstants
  PROVE  Sso!Spec => []Sso!SessionKept
<1>1. Sso!SsoInit => SsoInv
  BY SsoStarts
<1>2. SsoInv /\ [Sso!SsoNext]_(Sso!ssoVars) => SsoInv'
  <2> SUFFICES ASSUME SsoInv, [Sso!SsoNext]_(Sso!ssoVars) PROVE SsoInv'
    OBVIOUS
  <2>1. ASSUME NEW p \in Sso!Procs, Sso!SsoStep(p) \/ Sso!Crash(p)
        PROVE  SsoInv'
    BY <2>1, SsoStepKeeps
  <2>2. ASSUME UNCHANGED <<cast, ssoAt, held, opened, tokenFile, issued, rotates,
                           refreshOf, mishap, crowded>>,
               roleFile \in {"missing", "torn"} => UNCHANGED roleFile
        PROVE  SsoInv'
    <3>1. UNCHANGED Sso!Procs
      BY <2>2 DEF Sso!Procs
    <3>2. PlacesOK' /\ ContentsOK'
      BY <2>2, <3>1 DEF SsoInv, PlacesOK, ContentsOK
    <3>3. FileInv' /\ RefreshInv'
      BY <2>2, <3>1 DEF SsoInv, FileInv, RefreshInv, InForce, Sso!Between, Sso!Torn, Sso!Blank
    <3>4. LogoutInv'
      <4>1. \A p \in Sso!Procs : Alone(p) => Alone(p)'
        BY <2>2, <3>1 DEF Alone, Sso!First, Sso!Over
      <4>2. Sso!LoggedOut' => Sso!LoggedOut
        BY <2>2, <3>1 DEF Sso!LoggedOut
      <4>3. Clean => Clean'
        BY <2>2 DEF Clean
      <4>. QED BY <2>2, <3>1, <4>1, <4>2, <4>3 DEF SsoInv, LogoutInv
    <3>. QED BY <3>2, <3>3, <3>4 DEF SsoInv
  <2>3. ASSUME NEW t \in 1 .. MaxIssued, Sso!Age(t)
        PROVE  SsoInv'
    BY <2>2, <2>3 DEF Sso!Age, Sso!serviceVars, Sso!historyVars
  <2>4. CASE UNCHANGED Sso!ssoVars
    BY <2>2, <2>4 DEF Sso!ssoVars, Sso!serviceVars, Sso!historyVars
  <2>5. CASE Sso!AgeRole
    BY <2>2, <2>5 DEF Sso!AgeRole, Sso!serviceVars, Sso!historyVars
  <2>. QED BY <2>1, <2>3, <2>4, <2>5 DEF Sso!SsoNext
<1>3. SsoInv => Sso!SessionKept
  <2> SUFFICES ASSUME SsoInv PROVE Sso!SessionKept
    OBVIOUS
  <2>1. ~mishap /\ opened = {} => tokenFile # Sso!Torn
    BY DEF SsoInv, FileInv
  <2>2. ~mishap /\ (\A p \in Sso!Procs : ~Sso!Between(p)) /\ tokenFile.kind = "token" =>
          tokenFile.session \in ended \/ Sso!Live(tokenFile)
    BY DEF SsoInv, RefreshInv, InForce, Sso!Between, Sso!Live
  <2>3. ~crowded /\ (\E p \in Sso!Procs : cast[p] = "logout" /\ ssoAt[p] = "done") =>
          tokenFile.kind # "token" /\ roleFile \in {"missing", "torn"}
    BY DEF SsoInv, LogoutInv, Clean, Sso!LoggedOut
  <2>. QED BY <2>1, <2>2, <2>3 DEF Sso!SessionKept
<1>4. QED
  BY <1>1, <1>2, <1>3, PTL DEF Sso!Spec


-----------------------------------------------------------------------------
(* The connections of a tunnel. *)

(* The chunks are numbered apart from the frames that are not data. *)
TunnelConstants == IsFiniteSet(Conns) /\ MaxLive \in Nat /\ Chunks \in 0 .. 100
Data == 1 .. Chunks

LEMMA OtherFrames ==
  ASSUME TunnelConstants
  PROVE  /\ Chunks \in Nat /\ Data \subseteq Nat /\ \A n \in Nat : n \in Data <=> 1 <= n /\ n <= Chunks
         /\ {Close, Refusal, Text, Ping, Pong, Farewell} \subseteq Nat \ Data
         /\ Close \notin {Refusal, Text, Ping, Pong, Farewell}
         /\ Farewell \notin {Refusal, Text, Ping, Pong}
<1>1. Chunks \in Nat /\ Chunks <= 100
  BY DEF TunnelConstants
<1>2. PICK m \in Nat : m = Chunks /\ m <= 100
  BY <1>1
<1>3. Data = 1 .. m
  BY <1>2 DEF Data
<1>4. /\ Close = 101 /\ Refusal = 102 /\ Text = 103 /\ Ping = 104
      /\ Pong = 105 /\ Farewell = 106
  BY DEF Close, Refusal, Text, Ping, Pong, Farewell
<1>5. \A n \in Nat : n > 100 => n \notin 1 .. m
  BY <1>2
<1>6. /\ 101 \notin 1 .. m /\ 102 \notin 1 .. m /\ 103 \notin 1 .. m /\ 104 \notin 1 .. m
      /\ 105 \notin 1 .. m /\ 106 \notin 1 .. m
  BY <1>5
<1>7. \A n \in Nat : n \in Data <=> 1 <= n /\ n <= Chunks
  BY <1>2, <1>3
<1>8. Data \subseteq Nat
  BY <1>3
<1>9. /\ {Close, Refusal, Text, Ping, Pong, Farewell} \subseteq Nat \ Data
      /\ Close \notin {Refusal, Text, Ping, Pong, Farewell}
      /\ Farewell \notin {Refusal, Text, Ping, Pong}
  BY <1>3, <1>4, <1>6
<1>. QED BY <1>1, <1>7, <1>8, <1>9

(* The data among the frames of s are the chunks of V, in their order, and *)
(* each once.                                                              *)
Carries(s, V) ==
  /\ \A i \in 1 .. Len(s) : s[i] \in Data => s[i] \in V
  /\ \A v \in V : \E i \in 1 .. Len(s) : s[i] = v
  /\ \A i, j \in 1 .. Len(s) : i < j /\ s[i] \in Data /\ s[j] \in Data => s[i] < s[j]

LEMMA AppendFacts ==
  ASSUME NEW s \in Seq(Nat), NEW f \in Nat
  PROVE  /\ Append(s, f) \in Seq(Nat) /\ Len(s) \in Nat /\ Len(Append(s, f)) = Len(s) + 1
         /\ \A i \in 1 .. Len(s) : Append(s, f)[i] = s[i]
         /\ Append(s, f)[Len(s) + 1] = f
OBVIOUS

LEMMA TailFacts ==
  ASSUME NEW s \in Seq(Nat), s # <<>>
  PROVE  /\ Tail(s) \in Seq(Nat) /\ Len(s) \in Nat \ {0} /\ Len(Tail(s)) = Len(s) - 1
         /\ \A i \in 1 .. Len(s) - 1 : Tail(s)[i] = s[i + 1]
         /\ Head(s) = s[1] /\ Head(s) \in Nat
OBVIOUS

LEMMA SameFrames ==
  ASSUME NEW s \in Seq(Nat), NEW t \in Seq(Nat), Len(s) = Len(t), \A i \in 1 .. Len(s) : s[i] = t[i]
  PROVE  s = t
OBVIOUS

LEMMA PrefixOf ==
  ASSUME NEW s \in Seq(Nat), NEW t \in Seq(Nat), Len(s) <= Len(t),
         \A i \in 1 .. Len(s) : s[i] = t[i]
  PROVE  IsPrefix(s, t)
<1>1. PICK p : p = SubSeq(s, 1, Len(s))
  OBVIOUS
<1>2. PICK q : q = SubSeq(t, 1, Len(s))
  OBVIOUS
<1>3. Len(s) \in Nat /\ Len(t) \in Nat
  OBVIOUS
<1>4. p \in Seq(Nat) /\ Len(p) = Len(s) /\ \A i \in 1 .. Len(s) : p[i] = s[i]
  BY <1>1, <1>3
<1>5. q \in Seq(Nat) /\ Len(q) = Len(s) /\ \A i \in 1 .. Len(s) : q[i] = t[i]
  BY <1>2, <1>3
<1>6. p = q
  BY <1>4, <1>5, SameFrames
<1>. QED BY <1>1, <1>2, <1>6 DEF IsPrefix

LEMMA PutData ==
  ASSUME TunnelConstants, NEW s \in Seq(Nat), NEW V, V \subseteq Data, Carries(s, V), NEW n \in Data,
         \A v \in V : v < n
  PROVE  Carries(Append(s, n), V \cup {n})
<1>1. PICK t : t = Append(s, n)
  OBVIOUS
<1>2. n \in Nat
  BY OtherFrames
<1>3. /\ Len(s) \in Nat /\ Len(t) = Len(s) + 1
      /\ \A i \in 1 .. Len(s) : t[i] = s[i]
      /\ t[Len(s) + 1] = n
  BY <1>1, <1>2, AppendFacts
<1>4. ASSUME NEW i \in 1 .. Len(t), t[i] \in Data
      PROVE  t[i] \in V \cup {n}
  <2>1. CASE i = Len(s) + 1
    BY <1>3, <2>1
  <2>2. CASE i \in 1 .. Len(s)
    BY <1>3, <1>4, <2>2 DEF Carries
  <2>. QED BY <1>3, <2>1, <2>2
<1>5. ASSUME NEW v \in V \cup {n}
      PROVE  \E i \in 1 .. Len(t) : t[i] = v
  <2>1. CASE v = n
    BY <1>3, <2>1
  <2>2. CASE v \in V
    <3>1. PICK i \in 1 .. Len(s) : s[i] = v
      BY <2>2 DEF Carries
    <3>. QED BY <1>3, <3>1
  <2>. QED BY <2>1, <2>2
<1>6. ASSUME NEW i \in 1 .. Len(t), NEW j \in 1 .. Len(t), i < j, t[i] \in Data, t[j] \in Data
      PROVE  t[i] < t[j]
  <2>1. i \in 1 .. Len(s) /\ t[i] = s[i]
    BY <1>3, <1>6
  <2>2. CASE j = Len(s) + 1
    BY <1>3, <1>6, <2>1, <2>2 DEF Carries
  <2>3. CASE j \in 1 .. Len(s)
    BY <1>3, <1>6, <2>1, <2>3 DEF Carries
  <2>. QED BY <1>3, <2>2, <2>3
<1>7. Carries(t, V \cup {n})
  BY <1>4, <1>5, <1>6 DEF Carries
<1>. QED BY <1>1, <1>7

LEMMA PutOther ==
  ASSUME NEW s \in Seq(Nat), NEW V, V \subseteq Data, Carries(s, V), NEW f \in Nat \ Data
  PROVE  Carries(Append(s, f), V)
<1>1. PICK t : t = Append(s, f)
  OBVIOUS
<1>2. /\ Len(s) \in Nat /\ Len(t) = Len(s) + 1
      /\ \A i \in 1 .. Len(s) : t[i] = s[i]
      /\ t[Len(s) + 1] = f
  BY <1>1, AppendFacts
<1>3. \A i \in 1 .. Len(t) : t[i] \in Data => i \in 1 .. Len(s)
  BY <1>2
<1>4. ASSUME NEW v \in V
      PROVE  \E i \in 1 .. Len(t) : t[i] = v
  <2>1. PICK i \in 1 .. Len(s) : s[i] = v
    BY DEF Carries
  <2>. QED BY <1>2, <2>1
<1>5. Carries(t, V)
  BY <1>2, <1>3, <1>4 DEF Carries
<1>. QED BY <1>1, <1>5

LEMMA TakeOther ==
  ASSUME NEW s \in Seq(Nat), s # <<>>, NEW V, V \subseteq Data, Carries(s, V), Head(s) \notin Data
  PROVE  Carries(Tail(s), V)
<1>1. PICK t : t = Tail(s)
  OBVIOUS
<1>2. /\ Len(s) \in Nat \ {0} /\ Len(t) = Len(s) - 1
      /\ \A i \in 1 .. Len(s) - 1 : t[i] = s[i + 1]
      /\ s[1] \notin Data
  BY <1>1, TailFacts
<1>3. \A i \in 1 .. Len(t) : i + 1 \in 1 .. Len(s) /\ t[i] = s[i + 1]
  BY <1>2
<1>4. ASSUME NEW v \in V
      PROVE  \E i \in 1 .. Len(t) : t[i] = v
  <2>1. PICK i \in 1 .. Len(s) : s[i] = v
    BY DEF Carries
  <2>2. i # 1
    BY <1>2, <2>1
  <2>3. i - 1 \in 1 .. Len(t) /\ t[i - 1] = v
    BY <1>2, <2>1, <2>2
  <2>. QED BY <2>3
<1>5. \A i \in 1 .. Len(t) : t[i] \in Data => t[i] \in V
  BY <1>3 DEF Carries
<1>6. ASSUME NEW i \in 1 .. Len(t), NEW j \in 1 .. Len(t), i < j, t[i] \in Data, t[j] \in Data
      PROVE  t[i] < t[j]
  <2>1. i + 1 < j + 1 /\ i + 1 \in 1 .. Len(s) /\ j + 1 \in 1 .. Len(s)
        /\ t[i] = s[i + 1] /\ t[j] = s[j + 1]
    BY <1>2, <1>3, <1>6
  <2>. QED BY <1>6, <2>1 DEF Carries
<1>7. Carries(t, V)
  BY <1>4, <1>5, <1>6 DEF Carries
<1>. QED BY <1>1, <1>7

(* The first chunk to come out is the smallest. *)
LEMMA TakeData ==
  ASSUME TunnelConstants, NEW s \in Seq(Nat), s # <<>>, NEW V, V \subseteq Data, Carries(s, V),
         Head(s) \in Data
  PROVE  /\ Carries(Tail(s), V \ {Head(s)}) /\ Head(s) \in V
         /\ \A v \in V \ {Head(s)} : Head(s) < v
<1>1. PICK t : t = Tail(s)
  OBVIOUS
<1>2. PICK n : n = Head(s)
  OBVIOUS
<1>3. /\ Len(s) \in Nat \ {0} /\ Len(t) = Len(s) - 1
      /\ \A i \in 1 .. Len(s) - 1 : t[i] = s[i + 1]
      /\ s[1] = n /\ n \in Data
  BY <1>1, <1>2, TailFacts
<1>4. \A i \in 1 .. Len(t) : i + 1 \in 1 .. Len(s) /\ t[i] = s[i + 1] /\ 1 < i + 1
  BY <1>3
<1>5. 1 \in 1 .. Len(s) /\ n \in V
  BY <1>3 DEF Carries
<1>6. ASSUME NEW v \in V, v # n
      PROVE  (\E i \in 1 .. Len(t) : t[i] = v) /\ n < v
  <2>1. PICK i \in 1 .. Len(s) : s[i] = v
    BY DEF Carries
  <2>2. i # 1 /\ 1 < i
    BY <1>3, <1>6, <2>1
  <2>3. i - 1 \in 1 .. Len(t) /\ t[i - 1] = v
    BY <1>3, <2>1, <2>2
  <2>4. v \in Data
    OBVIOUS
  <2>5. n < v
    BY <1>3, <1>5, <2>1, <2>2, <2>4 DEF Carries
  <2>. QED BY <2>3, <2>5
<1>7. ASSUME NEW i \in 1 .. Len(t), t[i] \in Data
      PROVE  t[i] \in V \ {n}
  <2>1. t[i] = s[i + 1] /\ i + 1 \in 1 .. Len(s) /\ 1 < i + 1
    BY <1>4
  <2>2. t[i] \in V
    BY <1>7, <2>1 DEF Carries
  <2>3. n < t[i]
    BY <1>3, <1>5, <1>7, <2>1 DEF Carries
  <2>4. t[i] # n
    <3>1. Data \subseteq Nat
      BY OtherFrames
    <3>2. n \in Nat /\ t[i] \in Nat
      BY <1>3, <1>7, <3>1
    <3>. QED BY <2>3, <3>2
  <2>. QED BY <2>2, <2>4
<1>8. ASSUME NEW i \in 1 .. Len(t), NEW j \in 1 .. Len(t), i < j, t[i] \in Data, t[j] \in Data
      PROVE  t[i] < t[j]
  <2>1. i + 1 < j + 1 /\ i + 1 \in 1 .. Len(s) /\ j + 1 \in 1 .. Len(s)
        /\ t[i] = s[i + 1] /\ t[j] = s[j + 1]
    BY <1>3, <1>4, <1>8
  <2>. QED BY <1>8, <2>1 DEF Carries
<1>9. Carries(t, V \ {n})
  BY <1>6, <1>7, <1>8 DEF Carries
<1>. QED BY <1>1, <1>2, <1>5, <1>6, <1>9


(* Of n chunks, those after the first u are in the channel and then before *)
(* the reader.                                                             *)
Linked(n, u, waiting, unread) ==
  /\ n = u + Len(waiting) + Len(unread)
  /\ \A i \in 1 .. Len(waiting) : waiting[i] = u + i
  /\ \A i \in 1 .. Len(unread) : unread[i] = u + Len(waiting) + i

LEMMA LinkedRead ==
  ASSUME NEW n \in Nat, NEW u \in Nat, NEW w \in Seq(Nat), NEW r \in Seq(Nat), r # <<>>,
         Linked(n, u, w, r)
  PROVE  Linked(n, u, Append(w, Head(r)), Tail(r))
<1>1. PICK v : v = Append(w, Head(r))
  OBVIOUS
<1>2. PICK s : s = Tail(r)
  OBVIOUS
<1>3. /\ Len(r) \in Nat \ {0} /\ Len(s) = Len(r) - 1
      /\ \A i \in 1 .. Len(r) - 1 : s[i] = r[i + 1]
      /\ Head(r) = r[1] /\ Head(r) \in Nat
  BY <1>2, TailFacts
<1>4. /\ Len(w) \in Nat /\ Len(v) = Len(w) + 1
      /\ \A i \in 1 .. Len(w) : v[i] = w[i]
      /\ v[Len(w) + 1] = Head(r)
  BY <1>1, <1>3, AppendFacts
<1>5. PICK k \in Nat : k = Len(w)
  BY <1>4
<1>6. PICK m \in Nat \ {0} : m = Len(r)
  BY <1>3
<1>7. n = u + (k + 1) + (m - 1)
  BY <1>5, <1>6 DEF Linked
<1>8. Head(r) = u + k + 1
  <2>1. 1 \in 1 .. Len(r)
    BY <1>3
  <2>. QED BY <1>3, <1>5, <2>1 DEF Linked
<1>9. ASSUME NEW i \in 1 .. Len(v) PROVE v[i] = u + i
  <2>1. CASE i = k + 1
    BY <1>4, <1>5, <1>8, <2>1
  <2>2. CASE i \in 1 .. k
    BY <1>4, <1>5, <2>2 DEF Linked
  <2>3. i \in 1 .. k + 1
    BY <1>4, <1>5
  <2>. QED BY <2>1, <2>2, <2>3
<1>10. ASSUME NEW i \in 1 .. Len(s) PROVE s[i] = u + (k + 1) + i
  <2>1. i + 1 \in 1 .. Len(r) /\ s[i] = r[i + 1]
    BY <1>3
  <2>2. r[i + 1] = u + k + (i + 1)
    BY <1>5, <2>1 DEF Linked
  <2>3. i \in Nat
    BY <1>3
  <2>. QED BY <2>1, <2>2, <2>3
<1>11. Len(v) = k + 1 /\ Len(s) = m - 1
  BY <1>3, <1>4, <1>5, <1>6
<1>12. Linked(n, u, v, s)
  BY <1>7, <1>9, <1>10, <1>11 DEF Linked
<1>. QED BY <1>1, <1>2, <1>12

LEMMA LinkedSend ==
  ASSUME NEW n \in Nat, NEW u \in Nat, NEW w \in Seq(Nat), NEW r \in Seq(Nat), w # <<>>,
         Linked(n, u, w, r)
  PROVE  Head(w) = u + 1 /\ u + 1 <= n /\ Linked(n, u + 1, Tail(w), r)
<1>1. PICK v : v = Tail(w)
  OBVIOUS
<1>2. /\ Len(w) \in Nat \ {0} /\ Len(v) = Len(w) - 1
      /\ \A i \in 1 .. Len(w) - 1 : v[i] = w[i + 1]
      /\ Head(w) = w[1]
  BY <1>1, TailFacts
<1>3. PICK k \in Nat \ {0} : k = Len(w)
  BY <1>2
<1>4. PICK m \in Nat : m = Len(r)
  OBVIOUS
<1>5. n = u + k + m
  BY <1>3, <1>4 DEF Linked
<1>6. n = (u + 1) + (k - 1) + m /\ u + 1 <= n
  BY <1>5
<1>7. Head(w) = u + 1
  <2>1. 1 \in 1 .. Len(w)
    BY <1>2
  <2>. QED BY <1>2, <2>1 DEF Linked
<1>8. ASSUME NEW i \in 1 .. Len(v) PROVE v[i] = (u + 1) + i
  <2>1. i + 1 \in 1 .. Len(w) /\ v[i] = w[i + 1]
    BY <1>2
  <2>2. w[i + 1] = u + (i + 1)
    BY <2>1 DEF Linked
  <2>. QED BY <2>1, <2>2
<1>9. ASSUME NEW i \in 1 .. Len(r) PROVE r[i] = (u + 1) + (k - 1) + i
  <2>1. r[i] = u + k + i
    BY <1>3 DEF Linked
  <2>. QED BY <2>1
<1>10. Linked(n, u + 1, v, r)
  BY <1>2, <1>3, <1>4, <1>6, <1>8, <1>9 DEF Linked
<1>. QED BY <1>1, <1>6, <1>7, <1>10

LEMMA LinkedMore ==
  ASSUME NEW n \in Nat, NEW u \in Nat, NEW w \in Seq(Nat), NEW r \in Seq(Nat), Linked(n, u, w, r)
  PROVE  Linked(n + 1, u, w, Append(r, n + 1))
<1>1. PICK s : s = Append(r, n + 1)
  OBVIOUS
<1>2. /\ Len(r) \in Nat /\ Len(s) = Len(r) + 1
      /\ \A i \in 1 .. Len(r) : s[i] = r[i]
      /\ s[Len(r) + 1] = n + 1
  BY <1>1, AppendFacts
<1>3. PICK k \in Nat : k = Len(w)
  OBVIOUS
<1>4. PICK m \in Nat : m = Len(r)
  BY <1>2
<1>5. n = u + k + m
  BY <1>3, <1>4 DEF Linked
<1>6. ASSUME NEW i \in 1 .. Len(s) PROVE s[i] = u + k + i
  <2>1. CASE i = m + 1
    BY <1>2, <1>4, <1>5, <2>1
  <2>2. CASE i \in 1 .. m
    BY <1>2, <1>3, <1>4, <2>2 DEF Linked
  <2>3. i \in 1 .. m + 1
    BY <1>2, <1>4
  <2>. QED BY <2>1, <2>2, <2>3
<1>7. n + 1 = u + k + (m + 1)
  BY <1>5
<1>8. \A i \in 1 .. Len(w) : w[i] = u + i
  BY DEF Linked
<1>9. Linked(n + 1, u, w, s)
  BY <1>2, <1>3, <1>4, <1>6, <1>7, <1>8 DEF Linked
<1>. QED BY <1>1, <1>9

TunTypeOK ==
  /\ tunnel \in [Conns -> {"none", "connecting", "drain", "read", "ok", "error", "refused"}]
  /\ sent \in [Conns -> 0 .. Chunks]
  /\ eof \in [Conns -> BOOLEAN] /\ reading \in [Conns -> BOOLEAN] /\ inputOpen \in [Conns -> BOOLEAN]
  /\ local \in [Conns -> Seq(Nat)] /\ channel \in [Conns -> Seq(Nat)]
  /\ up \in [Conns -> Seq(Nat)] /\ down \in [Conns -> Seq(Nat)]
  /\ got \in [Conns -> Seq(Nat)] /\ replied \in [Conns -> Seq(Nat)]
  /\ delivered \in [Conns -> Seq(Nat)]
  /\ peer \in [Conns -> {"open", "closed", "gone"}]

Early(c) == tunnel[c] \in {"none", "connecting"}
Working(c) == Early(c) \/ Pumping(c)

(* The chunks up to u are on their way or there; those after it wait, in   *)
(* the channel and before the reader.                                      *)
Chain(c, u) == Linked(sent[c], u, channel[c], local[c])
SentUpTo(c, u) ==
  /\ Len(got[c]) <= u /\ u <= sent[c] /\ Carries(up[c], Len(got[c]) + 1 .. u)
  /\ Working(c) => Chain(c, u)
  /\ ~inputOpen[c] => u = sent[c]
UpInv(c) ==
  /\ \A k \in 1 .. Len(got[c]) : got[c][k] = k
  /\ \E u \in Nat : SentUpTo(c, u)
  /\ Early(c) => ~reading[c]
  /\ Pumping(c) /\ ~reading[c] => local[c] = <<>> /\ eof[c]
  /\ ~inputOpen[c] => eof[c]
  /\ \A i, j \in 1 .. Len(up[c]) : i < j /\ up[c][i] = Close => up[c][j] \notin Data
  /\ \A i \in 1 .. Len(up[c]) : up[c][i] = Close => ~inputOpen[c]

(* What was replied and is not delivered is on the wire; a close frame is  *)
(* the last there, and if it is an answer, to one that came after every    *)
(* chunk.                                                                  *)
Closings == {Close, Farewell}
Owed(c) == {replied[c][k] : k \in Len(delivered[c]) + 1 .. Len(replied[c])}
DownInv(c) ==
  /\ \A i \in 1 .. Len(down[c]) : down[c][i] \in Closings => i = Len(down[c]) /\ peer[c] = "closed"
  /\ \A i \in 1 .. Len(down[c]) : down[c][i] = Close => ~inputOpen[c] /\ Len(got[c]) = sent[c]
  /\ \A k \in 1 .. Len(replied[c]) : replied[c][k] \in 1 .. Len(got[c])
  /\ \A k, l \in 1 .. Len(replied[c]) : k < l => replied[c][k] < replied[c][l]
  /\ Len(delivered[c]) <= Len(replied[c])
  /\ \A k \in 1 .. Len(delivered[c]) : delivered[c][k] = replied[c][k]
  /\ Working(c) => Carries(down[c], Owed(c))
  /\ tunnel[c] = "ok" /\ peer[c] # "gone" => peer[c] = "closed" /\ delivered[c] = replied[c]

(* The rest of the connections stay as they are. *)
RestStays(c) ==
  \A d \in Conns \ {c} :
    /\ tunnel'[d] = tunnel[d] /\ sent'[d] = sent[d] /\ eof'[d] = eof[d] /\ reading'[d] = reading[d]
    /\ inputOpen'[d] = inputOpen[d] /\ local'[d] = local[d] /\ channel'[d] = channel[d]
    /\ up'[d] = up[d] /\ down'[d] = down[d] /\ got'[d] = got[d] /\ replied'[d] = replied[d]
    /\ delivered'[d] = delivered[d] /\ peer'[d] = peer[d]

TunStep(c) ==
  Accept(c) \/ ReaderStep(c) \/ PumpStep(c) \/ PeerTakes(c) \/ Outside(c)

LEMMA TunTypes ==
  ASSUME TunnelConstants, TunTypeOK, NEW c \in Conns, TunStep(c)
  PROVE  TunTypeOK' /\ RestStays(c)
<1>. USE DEF TunTypeOK, RestStays, To, Leave, Put, Drop, pumpVars, localVars,
             wireVars, peerVars
<1>0. /\ up \in [Conns -> Seq(Nat)] /\ down \in [Conns -> Seq(Nat)]
      /\ got \in [Conns -> Seq(Nat)] /\ replied \in [Conns -> Seq(Nat)]
      /\ delivered \in [Conns -> Seq(Nat)]
  OBVIOUS
<1>1. CASE Accept(c)
  BY <1>1 DEF Accept
<1>2. CASE Connect(c)
  BY <1>2 DEF Connect
<1>3. CASE Read(c)
  <2>1. Head(local[c]) \in Nat /\ Tail(local[c]) \in Seq(Nat) /\ channel[c] \in Seq(Nat)
    BY <1>3, TailFacts DEF Read
  <2>2. Append(channel[c], Head(local[c])) \in Seq(Nat)
    BY <2>1, AppendFacts
  <2>. QED BY <1>3, <2>1, <2>2 DEF Read
<1>4. CASE ReadEnd(c)
  BY <1>4 DEF ReadEnd
<1>5. CASE SendChunk(c)
  <2>1. Head(channel[c]) \in Nat /\ Tail(channel[c]) \in Seq(Nat) /\ up[c] \in Seq(Nat)
    BY <1>5, TailFacts DEF SendChunk
  <2>2. Append(up[c], Head(channel[c])) \in Seq(Nat)
    BY <2>1, AppendFacts
  <2>3. up' \in [Conns -> Seq(Nat)] /\ channel' \in [Conns -> Seq(Nat)]
    BY <1>5, <2>1, <2>2 DEF SendChunk
  <2>. QED BY <1>5, <2>3 DEF SendChunk
<1>6. CASE Drained(c)
  <2>1. Append(up[c], Close) \in Seq(Nat)
    BY AppendFacts DEF Close
  <2>. QED BY <1>6, <2>1 DEF Drained
<1>7. CASE PollTimeout(c) \/ ReadEof(c)
  BY <1>7 DEF PollTimeout, ReadEof
<1>8. CASE ReadFrame(c)
  <2>1. Head(down[c]) \in Nat /\ Tail(down[c]) \in Seq(Nat)
    BY <1>8, TailFacts DEF ReadFrame
  <2>2. Append(delivered[c], Head(down[c])) \in Seq(Nat) /\ Append(up[c], Pong) \in Seq(Nat)
    BY <2>1, AppendFacts DEF Pong
  <2>3. /\ down' = [down EXCEPT ![c] = Tail(@)]
        /\ delivered' = delivered \/ delivered' = [delivered EXCEPT ![c] = Append(delivered[c], Head(down[c]))]
        /\ up' = up \/ up' = [up EXCEPT ![c] = Append(up[c], Pong)]
        /\ tunnel' \in {[tunnel EXCEPT ![c] = "drain"], [tunnel EXCEPT ![c] = "ok"],
                        [tunnel EXCEPT ![c] = "error"]}
        /\ UNCHANGED <<sent, eof, local, reading, channel, peer, got, replied, inputOpen>>
    BY <1>8 DEF ReadFrame
  <2>4. down' \in [Conns -> Seq(Nat)] /\ \A d \in Conns \ {c} : down'[d] = down[d]
    BY <2>1, <2>3
  <2>5. delivered' \in [Conns -> Seq(Nat)] /\ \A d \in Conns \ {c} : delivered'[d] = delivered[d]
    <3>1. CASE delivered' = delivered
      BY <1>0, <3>1
    <3>2. CASE delivered' = [delivered EXCEPT ![c] = Append(delivered[c], Head(down[c]))]
      BY <1>0, <2>2, <3>2
    <3>. QED BY <2>3, <3>1, <3>2, Zenon
  <2>6. up' \in [Conns -> Seq(Nat)] /\ \A d \in Conns \ {c} : up'[d] = up[d]
    <3>1. CASE up' = up
      BY <1>0, <3>1
    <3>2. CASE up' = [up EXCEPT ![c] = Append(up[c], Pong)]
      BY <1>0, <2>2, <3>2
    <3>. QED BY <2>3, <3>1, <3>2, Zenon
  <2>7. /\ tunnel' \in [Conns -> {"none", "connecting", "drain", "read", "ok", "error", "refused"}]
        /\ \A d \in Conns \ {c} : tunnel'[d] = tunnel[d]
    BY <2>3
  <2>. QED BY <2>3, <2>4, <2>5, <2>6, <2>7
<1>9. CASE PeerTakes(c)
  <2>1. Head(up[c]) \in Nat /\ Tail(up[c]) \in Seq(Nat)
    BY <1>9, TailFacts DEF PeerTakes
  <2>2. /\ Append(got[c], Head(up[c])) \in Seq(Nat) /\ Append(replied[c], Head(up[c])) \in Seq(Nat)
        /\ Append(down[c], Head(up[c])) \in Seq(Nat) /\ Append(down[c], Close) \in Seq(Nat)
    BY <2>1, AppendFacts DEF Close
  <2>3. /\ up' = [up EXCEPT ![c] = Tail(@)]
        /\ got' = got \/ got' = [got EXCEPT ![c] = Append(got[c], Head(up[c]))]
        /\ replied' = replied \/ replied' = [replied EXCEPT ![c] = Append(replied[c], Head(up[c]))]
        /\ \/ down' = down
           \/ down' = [down EXCEPT ![c] = Append(down[c], Head(up[c]))]
           \/ down' = [down EXCEPT ![c] = Append(down[c], Close)]
        /\ peer' \in {peer, [peer EXCEPT ![c] = "closed"]}
        /\ UNCHANGED <<tunnel, inputOpen, sent, eof, local, reading, channel, delivered>>
    BY <1>9 DEF PeerTakes
  <2>4. up' \in [Conns -> Seq(Nat)] /\ \A d \in Conns \ {c} : up'[d] = up[d]
    BY <2>1, <2>3
  <2>5. got' \in [Conns -> Seq(Nat)] /\ \A d \in Conns \ {c} : got'[d] = got[d]
    <3>1. CASE got' = got
      BY <1>0, <3>1
    <3>2. CASE got' = [got EXCEPT ![c] = Append(got[c], Head(up[c]))]
      BY <1>0, <2>2, <3>2
    <3>. QED BY <2>3, <3>1, <3>2, Zenon
  <2>6. replied' \in [Conns -> Seq(Nat)] /\ \A d \in Conns \ {c} : replied'[d] = replied[d]
    <3>1. CASE replied' = replied
      BY <1>0, <3>1
    <3>2. CASE replied' = [replied EXCEPT ![c] = Append(replied[c], Head(up[c]))]
      BY <1>0, <2>2, <3>2
    <3>. QED BY <2>3, <3>1, <3>2, Zenon
  <2>7. down' \in [Conns -> Seq(Nat)] /\ \A d \in Conns \ {c} : down'[d] = down[d]
    <3>1. CASE down' = down
      BY <1>0, <3>1
    <3>2. CASE down' = [down EXCEPT ![c] = Append(down[c], Head(up[c]))]
      BY <1>0, <2>2, <3>2
    <3>3. CASE down' = [down EXCEPT ![c] = Append(down[c], Close)]
      BY <1>0, <2>2, <3>3
    <3>. QED BY <2>3, <3>1, <3>2, <3>3, Zenon
  <2>8. peer' \in [Conns -> {"open", "closed", "gone"}] /\ \A d \in Conns \ {c} : peer'[d] = peer[d]
    <3>1. peer \in [Conns -> {"open", "closed", "gone"}]
      OBVIOUS
    <3>2. CASE peer' = peer
      BY <3>1, <3>2
    <3>3. CASE peer' = [peer EXCEPT ![c] = "closed"]
      BY <3>1, <3>3
    <3>. QED BY <2>3, <3>2, <3>3
  <2>. QED BY <2>3, <2>4, <2>5, <2>6, <2>7, <2>8
<1>10. CASE SendLocal(c)
  <2>1. sent[c] + 1 \in 0 .. Chunks /\ sent[c] + 1 \in Nat
    BY <1>10 DEF SendLocal, TunnelConstants
  <2>2. Append(local[c], sent[c] + 1) \in Seq(Nat)
    BY <2>1, AppendFacts
  <2>. QED BY <1>10, <2>1, <2>2 DEF SendLocal
<1>11. CASE CloseLocal(c) \/ PeerVanishes(c)
  BY <1>11 DEF CloseLocal, PeerVanishes
<1>12. ASSUME NEW frame \in {Text, Ping, Refusal, Farewell}, PeerSays(c, frame)
       PROVE  TunTypeOK' /\ RestStays(c)
  <2>1. Append(down[c], frame) \in Seq(Nat)
    BY AppendFacts DEF Text, Ping, Refusal, Farewell
  <2>2. down' = [down EXCEPT ![c] = Append(@, frame)] /\ peer' \in {peer, [peer EXCEPT ![c] = "closed"]}
        /\ UNCHANGED <<tunnel, inputOpen, sent, eof, local, reading, channel, up, got, replied, delivered>>
    BY <1>12 DEF PeerSays
  <2>. QED BY <2>1, <2>2
<1>. QED
  BY <1>1, <1>2, <1>3, <1>4, <1>5, <1>6, <1>7, <1>8, <1>9, <1>10, <1>11, <1>12, Zenon
     DEF TunStep, ReaderStep, PumpStep, Outside

(* A connection that nothing happens to. *)
LEMMA RestKeeps ==
  ASSUME NEW c \in Conns, RestStays(c), NEW d \in Conns \ {c}, UpInv(d), DownInv(d)
  PROVE  UpInv(d)' /\ DownInv(d)'
<1>1. /\ tunnel'[d] = tunnel[d] /\ sent'[d] = sent[d] /\ eof'[d] = eof[d] /\ reading'[d] = reading[d]
      /\ inputOpen'[d] = inputOpen[d] /\ local'[d] = local[d] /\ channel'[d] = channel[d]
      /\ up'[d] = up[d] /\ down'[d] = down[d] /\ got'[d] = got[d] /\ replied'[d] = replied[d]
      /\ delivered'[d] = delivered[d] /\ peer'[d] = peer[d]
  BY DEF RestStays
<1>2. (Working(d)' <=> Working(d)) /\ (Early(d)' <=> Early(d)) /\ (Pumping(d)' <=> Pumping(d))
  BY <1>1 DEF Working, Early, Pumping
<1>3. \A u \in Nat : SentUpTo(d, u) => SentUpTo(d, u)'
  BY <1>1, <1>2 DEF SentUpTo, Chain
<1>4. UpInv(d)'
  BY <1>1, <1>2, <1>3 DEF UpInv, Close
<1>5. Owed(d)' = Owed(d)
  BY <1>1 DEF Owed
<1>6. DownInv(d)'
  BY <1>1, <1>2, <1>5 DEF DownInv, Closings, Close, Farewell
<1>. QED BY <1>4, <1>6


(* Steps that leave the way up, or the way down, as it is. *)
UpStays(c) ==
  /\ sent'[c] = sent[c] /\ got'[c] = got[c] /\ up'[c] = up[c] /\ channel'[c] = channel[c]
  /\ local'[c] = local[c] /\ inputOpen'[c] = inputOpen[c] /\ reading'[c] = reading[c]
  /\ eof[c] => eof'[c]
  /\ tunnel'[c] \in {"none", "connecting"} => Early(c)
  /\ tunnel'[c] \in {"drain", "read"} => Pumping(c)
DownStays(c) ==
  /\ sent'[c] = sent[c] /\ got'[c] = got[c] /\ peer'[c] = peer[c]
  /\ down'[c] = down[c] /\ replied'[c] = replied[c] /\ delivered'[c] = delivered[c]
  /\ ~inputOpen[c] => ~inputOpen'[c]
  /\ tunnel'[c] \in {"none", "connecting", "drain", "read"} => Working(c)
  /\ tunnel'[c] = "ok" => tunnel[c] = "ok" \/ peer[c] = "gone"

LEMMA Stays ==
  ASSUME NEW c \in Conns, UpInv(c), DownInv(c)
  PROVE  (UpStays(c) => UpInv(c)') /\ (DownStays(c) => DownInv(c)')
<1>1. ASSUME UpStays(c)
      PROVE  UpInv(c)'
  <2>1. (Working(c)' => Working(c)) /\ (Early(c)' => Early(c)) /\ (Pumping(c)' => Pumping(c))
    BY <1>1 DEF Working, Early, Pumping, UpStays
  <2>2. \A u \in Nat : SentUpTo(c, u) => SentUpTo(c, u)'
    BY <1>1, <2>1 DEF SentUpTo, Chain, UpStays
  <2>. QED BY <1>1, <2>1, <2>2 DEF UpInv, UpStays, Close
<1>2. ASSUME DownStays(c)
      PROVE  DownInv(c)'
  <2>1. Working(c)' => Working(c)
    BY <1>2 DEF Working, Early, Pumping, DownStays
  <2>2. Owed(c)' = Owed(c)
    BY <1>2 DEF Owed, DownStays
  <2>. QED BY <1>2, <2>1, <2>2 DEF DownInv, DownStays, Closings, Close, Farewell
<1>. QED BY <1>1, <1>2

(* Which steps these are. *)
LEMMA StayingSteps ==
  ASSUME TunTypeOK, NEW c \in Conns
  PROVE  /\ Accept(c) \/ PollTimeout(c) \/ ReadEof(c) => UpStays(c) /\ DownStays(c)
         /\ CloseLocal(c) => UpStays(c) /\ DownStays(c)
         /\ Connect(c) \/ Read(c) \/ ReadEnd(c) \/ SendChunk(c) \/ Drained(c) =>
              DownStays(c)
         /\ PeerVanishes(c) => UpStays(c)
         /\ \A frame : PeerSays(c, frame) => UpStays(c)
<1>. USE DEF TunTypeOK, UpStays, DownStays, Working, Early, Pumping, To, Leave,
             Put, Drop, pumpVars, localVars, wireVars, peerVars
<1>1. Accept(c) => UpStays(c) /\ DownStays(c)
  BY DEF Accept
<1>2. PollTimeout(c) \/ ReadEof(c) => UpStays(c) /\ DownStays(c)
  BY DEF PollTimeout, ReadEof
<1>3. CloseLocal(c) => UpStays(c) /\ DownStays(c)
  BY DEF CloseLocal
<1>4. Connect(c) => DownStays(c)
  BY DEF Connect
<1>5. Read(c) \/ ReadEnd(c) => DownStays(c)
  BY DEF Read, ReadEnd
<1>6. SendChunk(c) => DownStays(c)
  BY DEF SendChunk
<1>7. Drained(c) => DownStays(c)
  BY DEF Drained
<1>8. PeerVanishes(c) => UpStays(c)
  BY DEF PeerVanishes
<1>9. ASSUME NEW frame PROVE PeerSays(c, frame) => UpStays(c)
  BY DEF PeerSays
<1>. QED BY <1>1, <1>2, <1>3, <1>4, <1>5, <1>6, <1>7, <1>8, <1>9

(* The number of the last chunk on the wire. *)
LEMMA UpFacts ==
  ASSUME TunnelConstants, TunTypeOK, NEW c \in Conns, NEW u \in Nat, SentUpTo(c, u)
  PROVE  /\ Len(got[c]) \in Nat /\ Len(got[c]) <= u /\ u <= sent[c] /\ sent[c] \in Nat
         /\ sent[c] <= Chunks /\ Chunks \in 0 .. 100
         /\ Len(got[c]) + 1 .. u \subseteq Data /\ Len(channel[c]) \in Nat /\ Len(local[c]) \in Nat
         /\ up[c] \in Seq(Nat) /\ Carries(up[c], Len(got[c]) + 1 .. u)
<1>1. /\ got[c] \in Seq(Nat) /\ channel[c] \in Seq(Nat) /\ local[c] \in Seq(Nat)
      /\ up[c] \in Seq(Nat) /\ sent[c] \in 0 .. Chunks
  BY DEF TunTypeOK
<1>2. Len(got[c]) \in Nat /\ Len(channel[c]) \in Nat /\ Len(local[c]) \in Nat
  BY <1>1
<1>3. Len(got[c]) <= u /\ u <= sent[c] /\ Carries(up[c], Len(got[c]) + 1 .. u)
  BY DEF SentUpTo
<1>4. Chunks \in 0 .. 100 /\ sent[c] \in Nat /\ sent[c] <= Chunks
  BY <1>1 DEF TunnelConstants
<1>5. Len(got[c]) + 1 .. u \subseteq Data
  <2>1. PICK g \in Nat : g = Len(got[c])
    BY <1>2
  <2>2. u <= Chunks
    <3>1. PICK n \in Nat : n = sent[c]
      BY <1>4
    <3>2. u <= n /\ n <= Chunks /\ Chunks \in Nat
      BY <1>3, <1>4, <3>1
    <3>. QED BY <3>2
  <2>3. \A n \in g + 1 .. u : n \in Nat /\ 1 <= n /\ n <= Chunks
    BY <1>4, <2>2
  <2>. QED BY <2>1, <2>3, OtherFrames
<1>. QED BY <1>1, <1>2, <1>3, <1>4, <1>5

LEMMA ConnectUp ==
  ASSUME TunTypeOK, NEW c \in Conns, UpInv(c), DownInv(c), Connect(c)
  PROVE  UpInv(c)'
<1>1. /\ tunnel[c] = "connecting" /\ sent'[c] = sent[c] /\ got'[c] = got[c] /\ up'[c] = up[c]
      /\ channel'[c] = channel[c] /\ local'[c] = local[c] /\ inputOpen'[c] = inputOpen[c]
      /\ eof'[c] = eof[c]
  BY DEF Connect, localVars, wireVars, peerVars
<1>2. \/ tunnel'[c] = "drain" /\ reading'[c] = TRUE
      \/ tunnel'[c] = "error" /\ reading'[c] = reading[c]
  BY DEF Connect, To, TunTypeOK
<1>3. Working(c) /\ ~Early(c)' /\ (Pumping(c)' => reading'[c])
  BY <1>1, <1>2 DEF Working, Early, Pumping
<1>4. \A u \in Nat : SentUpTo(c, u) => SentUpTo(c, u)'
  BY <1>1, <1>3 DEF SentUpTo, Chain
<1>. QED BY <1>1, <1>3, <1>4 DEF UpInv, Close

(* The reader takes the next chunk, and hands it on while there is a pump. *)
LEMMA ReadUp ==
  ASSUME TunnelConstants, TunTypeOK, NEW c \in Conns, UpInv(c), Read(c)
  PROVE  UpInv(c)'
<1>1. /\ reading[c] /\ local[c] # <<>> /\ sent'[c] = sent[c] /\ got'[c] = got[c] /\ up'[c] = up[c]
      /\ inputOpen'[c] = inputOpen[c] /\ eof'[c] = eof[c] /\ tunnel'[c] = tunnel[c]
      /\ local'[c] = Tail(local[c])
  BY DEF Read, Drop, pumpVars, wireVars, peerVars, TunTypeOK
<1>2. /\ Pumping(c) => /\ channel'[c] = Append(channel[c], Head(local[c]))
                           /\ reading'[c] = reading[c]
      /\ ~Pumping(c) => channel'[c] = channel[c] /\ reading'[c] = FALSE
  BY DEF Read, Put, TunTypeOK
<1>3. ~Early(c) /\ ~Early(c)' /\ (Pumping(c)' <=> Pumping(c))
      /\ (Working(c)' <=> Pumping(c))
  BY <1>1 DEF UpInv, Early, Working, Pumping
<1>4. ASSUME NEW u \in Nat, SentUpTo(c, u)
      PROVE  SentUpTo(c, u)'
  <2>1. ASSUME Pumping(c)
        PROVE  Chain(c, u)'
    <3>1. local[c] \in Seq(Nat) /\ channel[c] \in Seq(Nat) /\ sent[c] \in Nat
      BY <1>4, UpFacts DEF TunTypeOK
    <3>2. Linked(sent[c], u, channel[c], local[c])
      BY <1>4, <2>1 DEF SentUpTo, Working, Chain
    <3>3. Linked(sent[c], u, Append(channel[c], Head(local[c])), Tail(local[c]))
      BY <1>1, <3>1, <3>2, LinkedRead
    <3>4. channel'[c] = Append(channel[c], Head(local[c]))
      BY <1>2, <2>1
    <3>. QED BY <1>1, <3>3, <3>4 DEF Chain
  <2>. QED BY <1>1, <1>3, <1>4, <2>1 DEF SentUpTo
<1>5. Pumping(c)' => reading'[c]
  BY <1>1, <1>2, <1>3
<1>. QED BY <1>1, <1>3, <1>4, <1>5 DEF UpInv, Close

LEMMA ReadEndUp ==
  ASSUME TunTypeOK, NEW c \in Conns, UpInv(c), ReadEnd(c)
  PROVE  UpInv(c)'
<1>1. /\ reading[c] /\ local[c] = <<>> /\ eof[c] /\ sent'[c] = sent[c] /\ got'[c] = got[c]
      /\ up'[c] = up[c] /\ inputOpen'[c] = inputOpen[c] /\ eof'[c] = eof[c] /\ tunnel'[c] = tunnel[c]
      /\ local'[c] = local[c] /\ channel'[c] = channel[c]
  BY DEF ReadEnd, pumpVars, wireVars, peerVars
<1>2. ~Early(c)' /\ (Working(c)' => Working(c))
  BY <1>1 DEF UpInv, Early, Working, Pumping
<1>3. \A u \in Nat : SentUpTo(c, u) => SentUpTo(c, u)'
  BY <1>1, <1>2 DEF SentUpTo, Chain
<1>. QED BY <1>1, <1>2, <1>3 DEF UpInv, Close

(* The pump sends the next chunk. *)
LEMMA SendUp ==
  ASSUME TunnelConstants, TunTypeOK, NEW c \in Conns, UpInv(c), SendChunk(c)
  PROVE  UpInv(c)'
<1>1. /\ tunnel[c] = "drain" /\ channel[c] # <<>> /\ channel'[c] = Tail(channel[c])
      /\ sent'[c] = sent[c] /\ got'[c] = got[c] /\ local'[c] = local[c] /\ eof'[c] = eof[c]
      /\ reading'[c] = reading[c] /\ inputOpen'[c] = inputOpen[c]
  BY DEF SendChunk, Drop, Leave, pumpVars, localVars, peerVars, TunTypeOK
<1>2. \/ tunnel'[c] = "error" /\ up'[c] = up[c]
      \/ tunnel'[c] = tunnel[c] /\ up'[c] = Append(up[c], Head(channel[c]))
  BY DEF SendChunk, Put, To, Leave, pumpVars, TunTypeOK
<1>3. Pumping(c) /\ Working(c) /\ ~Early(c)'
  BY <1>1, <1>2 DEF Pumping, Working, Early
<1>4. PICK u \in Nat : SentUpTo(c, u)
  BY DEF UpInv
<1>5. CASE tunnel'[c] = "error" /\ up'[c] = up[c]
  <2>1. ~Working(c)' /\ ~Pumping(c)'
    BY <1>5 DEF Working, Early, Pumping
  <2>2. SentUpTo(c, u)'
    BY <1>1, <1>4, <1>5, <2>1 DEF SentUpTo
  <2>. QED BY <1>1, <1>3, <1>5, <2>1, <2>2 DEF UpInv, Close
<1>6. CASE tunnel'[c] = tunnel[c] /\ up'[c] = Append(up[c], Head(channel[c]))
  <2>1. /\ Len(got[c]) \in Nat /\ Len(got[c]) <= u /\ u <= sent[c] /\ sent[c] \in Nat
        /\ sent[c] <= Chunks /\ Chunks \in 0 .. 100
        /\ Len(got[c]) + 1 .. u \subseteq Data /\ Len(channel[c]) \in Nat /\ Len(local[c]) \in Nat
        /\ up[c] \in Seq(Nat) /\ Carries(up[c], Len(got[c]) + 1 .. u)
    BY <1>4, UpFacts
  <2>2. Linked(sent[c], u, channel[c], local[c])
    BY <1>3, <1>4 DEF SentUpTo, Chain
  <2>3. channel[c] \in Seq(Nat) /\ local[c] \in Seq(Nat)
    BY DEF TunTypeOK
  <2>4. /\ Head(channel[c]) = u + 1 /\ u + 1 <= sent[c]
        /\ Linked(sent[c], u + 1, Tail(channel[c]), local[c])
    BY <1>1, <2>1, <2>2, <2>3, LinkedSend
  <2>5. Head(channel[c]) = u + 1
    BY <2>4
  <2>6. u + 1 \in Data /\ u + 1 <= sent[c] /\ u + 1 \in Nat
    <3>1. u + 1 <= sent[c] /\ u + 1 \in Nat /\ u + 1 <= Chunks /\ 1 <= u + 1
      BY <2>1, <2>4
    <3>. QED BY <3>1, OtherFrames
  <2>7. inputOpen[c]
    <3>1. ~inputOpen[c] => u = sent[c]
      BY <1>4 DEF SentUpTo
    <3>. QED BY <2>1, <2>6, <3>1
  <2>8. Carries(up'[c], Len(got[c]) + 1 .. u + 1)
    <3>0. \A v \in Len(got[c]) + 1 .. u : v < u + 1
      BY <2>1
    <3>1. Carries(Append(up[c], u + 1), (Len(got[c]) + 1 .. u) \cup {u + 1})
      BY <2>1, <2>6, <3>0, PutData
    <3>2. (Len(got[c]) + 1 .. u) \cup {u + 1} = Len(got[c]) + 1 .. u + 1
      BY <2>1
    <3>. QED BY <1>6, <2>5, <3>1, <3>2
  <2>9. Chain(c, u + 1)'
    BY <1>1, <2>4 DEF Chain
  <2>10. SentUpTo(c, u + 1)'
    BY <1>1, <2>1, <2>6, <2>7, <2>8, <2>9 DEF SentUpTo
  <2>11. \A i \in 1 .. Len(up'[c]) : up'[c][i] # Close
    <3>1. SUFFICES ASSUME NEW i \in 1 .. Len(up'[c]), up'[c][i] = Close PROVE FALSE
      OBVIOUS
    <3>2. /\ Len(up[c]) \in Nat /\ Len(up'[c]) = Len(up[c]) + 1
          /\ \A j \in 1 .. Len(up[c]) : up'[c][j] = up[c][j]
          /\ up'[c][Len(up[c]) + 1] = u + 1
      BY <1>6, <2>1, <2>5, <2>6, AppendFacts
    <3>3. CASE i = Len(up[c]) + 1
      <4>1. u + 1 # Close
        BY <2>6, OtherFrames
      <4>. QED BY <3>1, <3>2, <3>3, <4>1
    <3>4. CASE i \in 1 .. Len(up[c])
      BY <2>7, <3>1, <3>2, <3>4 DEF UpInv
    <3>. QED BY <3>2, <3>3, <3>4
  <2>12. Pumping(c)' => Pumping(c)
    BY <1>6 DEF Pumping
  <2>. QED BY <1>1, <1>3, <2>6, <2>10, <2>11, <2>12 DEF UpInv, Close
<1>. QED BY <1>2, <1>5, <1>6


(* Nothing is left to send: the close frame comes after every chunk. *)
LEMMA DrainedUp ==
  ASSUME TunnelConstants, TunTypeOK, NEW c \in Conns, UpInv(c), DownInv(c), Drained(c)
  PROVE  UpInv(c)'
<1>1. /\ tunnel[c] = "drain" /\ channel[c] = <<>> /\ channel'[c] = channel[c] /\ tunnel'[c] = "read"
      /\ sent'[c] = sent[c] /\ got'[c] = got[c] /\ local'[c] = local[c] /\ eof'[c] = eof[c]
      /\ reading'[c] = reading[c]
  BY DEF Drained, To, localVars, peerVars, TunTypeOK
<1>2. CASE up'[c] = up[c] /\ inputOpen'[c] = inputOpen[c]
  BY <1>1, <1>2, Stays DEF UpStays, Pumping
<1>3. CASE /\ ~reading[c] /\ inputOpen[c] /\ inputOpen'[c] = FALSE
           /\ up'[c] = Append(up[c], Close)
  <2>1. Pumping(c) /\ Working(c) /\ ~Early(c)' /\ Working(c)' /\ Pumping(c)'
    BY <1>1 DEF Pumping, Working, Early
  <2>2. local[c] = <<>> /\ eof[c]
    BY <1>3, <2>1 DEF UpInv
  <2>3. PICK u \in Nat : SentUpTo(c, u)
    BY DEF UpInv
  <2>4. Chain(c, u)
    BY <2>1, <2>3 DEF SentUpTo
  <2>5. u = sent[c]
    <3>1. Len(channel[c]) = 0 /\ Len(local[c]) = 0
      BY <1>1, <2>2
    <3>. QED BY <2>4, <3>1 DEF Chain, Linked
  <2>6. Close \in Nat \ Data
    BY OtherFrames
  <2>7. Carries(up'[c], Len(got[c]) + 1 .. u)
    <3>1. /\ Len(got[c]) + 1 .. u \subseteq Data /\ up[c] \in Seq(Nat)
          /\ Carries(up[c], Len(got[c]) + 1 .. u)
      BY <2>3, UpFacts
    <3>. QED BY <1>3, <2>6, <3>1, PutOther
  <2>8. SentUpTo(c, u)'
    BY <1>1, <2>3, <2>4, <2>5, <2>7 DEF SentUpTo, Chain
  <2>9. /\ up[c] \in Seq(Nat) /\ Len(up[c]) \in Nat /\ Len(up'[c]) = Len(up[c]) + 1
        /\ \A j \in 1 .. Len(up[c]) : up'[c][j] = up[c][j]
    BY <1>3, <2>6, AppendFacts DEF TunTypeOK
  <2>10. \A i \in 1 .. Len(up[c]) : up[c][i] # Close
    BY <1>3 DEF UpInv
  <2>11. \A i, j \in 1 .. Len(up'[c]) : i < j => up'[c][i] # Close
    BY <2>9, <2>10
  <2>. QED BY <1>1, <1>3, <2>1, <2>2, <2>8, <2>11 DEF UpInv, Close
<1>. QED BY <1>2, <1>3 DEF Drained, Put, TunTypeOK

(* The pump answers a ping; anything else it reads leaves the way up. *)
LEMMA ReadFrameUp ==
  ASSUME TunnelConstants, TunTypeOK, NEW c \in Conns, UpInv(c), DownInv(c), ReadFrame(c)
  PROVE  UpInv(c)'
<1>1. /\ tunnel[c] = "read" /\ channel'[c] = channel[c] /\ tunnel'[c] \in {"drain", "ok", "error"}
      /\ sent'[c] = sent[c] /\ got'[c] = got[c] /\ local'[c] = local[c] /\ eof'[c] = eof[c]
      /\ reading'[c] = reading[c] /\ inputOpen'[c] = inputOpen[c]
  BY DEF ReadFrame, To, Leave, localVars, peerVars, TunTypeOK
<1>2. CASE up'[c] = up[c]
  BY <1>1, <1>2, Stays DEF UpStays, Pumping
<1>3. CASE up'[c] = Append(up[c], Pong)
  <2>1. /\ Pumping(c) /\ Working(c) /\ ~Early(c)'
    BY <1>1 DEF Pumping, Working, Early
  <2>2. PICK u \in Nat : SentUpTo(c, u)
    BY DEF UpInv
  <2>3. Pong \in Nat \ Data /\ Pong # Close
    BY OtherFrames
  <2>4. Carries(up'[c], Len(got[c]) + 1 .. u)
    <3>1. /\ Len(got[c]) + 1 .. u \subseteq Data /\ up[c] \in Seq(Nat)
          /\ Carries(up[c], Len(got[c]) + 1 .. u)
      BY <2>2, UpFacts
    <3>. QED BY <1>3, <2>3, <3>1, PutOther
  <2>5. SentUpTo(c, u)'
    BY <1>1, <2>1, <2>2, <2>4 DEF SentUpTo, Chain
  <2>6. /\ up[c] \in Seq(Nat) /\ Len(up[c]) \in Nat /\ Len(up'[c]) = Len(up[c]) + 1
        /\ \A j \in 1 .. Len(up[c]) : up'[c][j] = up[c][j]
        /\ up'[c][Len(up[c]) + 1] = Pong
    BY <1>3, <2>3, AppendFacts DEF TunTypeOK
  <2>7. ASSUME NEW i \in 1 .. Len(up'[c]), up'[c][i] = Close
        PROVE  i \in 1 .. Len(up[c]) /\ up[c][i] = Close
    BY <2>3, <2>6, <2>7
  <2>8. ASSUME NEW i \in 1 .. Len(up'[c]), NEW j \in 1 .. Len(up'[c]), i < j, up'[c][i] = Close
        PROVE  up'[c][j] \notin Data
    <3>1. i \in 1 .. Len(up[c]) /\ up[c][i] = Close
      BY <2>7, <2>8
    <3>2. CASE j = Len(up[c]) + 1
      BY <2>3, <2>6, <3>2
    <3>3. CASE j \in 1 .. Len(up[c])
      BY <2>6, <2>8, <3>1, <3>3 DEF UpInv
    <3>. QED BY <2>6, <3>2, <3>3
  <2>9. \A i \in 1 .. Len(up'[c]) : up'[c][i] = Close => ~inputOpen[c]
    BY <2>7 DEF UpInv
  <2>10. Pumping(c)' => Pumping(c)
    BY <2>1
  <2>11. \A i, j \in 1 .. Len(up'[c]) : i < j /\ up'[c][i] = Close => up'[c][j] \notin Data
    BY <2>8
  <2>. QED BY <1>1, <2>1, <2>5, <2>9, <2>11 DEF UpInv, Close
<1>. QED BY <1>2, <1>3 DEF ReadFrame, Put, TunTypeOK

(* A local end that still sends keeps the input open. *)
LEMMA SendLocalUp ==
  ASSUME TunnelConstants, TunTypeOK, NEW c \in Conns, UpInv(c), SendLocal(c)
  PROVE  UpInv(c)'
<1>1. /\ ~eof[c] /\ tunnel'[c] = tunnel[c] /\ channel'[c] = channel[c]
      /\ sent'[c] = sent[c] + 1 /\ got'[c] = got[c] /\ local'[c] = Append(local[c], sent[c] + 1)
      /\ eof'[c] = eof[c] /\ up'[c] = up[c] /\ reading'[c] = reading[c] /\ inputOpen'[c] = inputOpen[c]
  BY DEF SendLocal, Put, pumpVars, wireVars, peerVars, TunTypeOK
<1>2. inputOpen[c] /\ (Pumping(c) => reading[c])
  BY <1>1 DEF UpInv, TunTypeOK
<1>3. /\ (Working(c)' <=> Working(c)) /\ (Early(c)' <=> Early(c))
      /\ (Pumping(c)' <=> Pumping(c))
  BY <1>1 DEF Working, Early, Pumping
<1>4. PICK u \in Nat : SentUpTo(c, u)
  BY DEF UpInv
<1>5. /\ Len(got[c]) \in Nat /\ u <= sent[c] /\ sent[c] \in Nat
      /\ channel[c] \in Seq(Nat) /\ local[c] \in Seq(Nat)
  BY <1>4, UpFacts DEF TunTypeOK
<1>6. Working(c)' => Chain(c, u)'
  <2>1. SUFFICES ASSUME Working(c)' PROVE Chain(c, u)'
    OBVIOUS
  <2>2. Linked(sent[c], u, channel[c], local[c])
    BY <1>3, <1>4, <2>1 DEF SentUpTo, Chain
  <2>3. Linked(sent[c] + 1, u, channel[c], Append(local[c], sent[c] + 1))
    BY <1>5, <2>2, LinkedMore
  <2>. QED BY <1>1, <2>3 DEF Chain
<1>7. u <= sent[c] + 1
  BY <1>5
<1>8. SentUpTo(c, u)'
  BY <1>1, <1>2, <1>4, <1>6, <1>7 DEF SentUpTo
<1>. QED BY <1>1, <1>2, <1>3, <1>8 DEF UpInv, Close


(* What the far end finds: the chunk after those it has, or a close frame  *)
(* that comes after all of them.                                           *)
LEMMA PeerFinds ==
  ASSUME TunnelConstants, TunTypeOK, NEW c \in Conns, UpInv(c), up[c] # <<>>
  PROVE  /\ Head(up[c]) \in Data => Head(up[c]) = Len(got[c]) + 1
         /\ Head(up[c]) = Close => Len(got[c]) = sent[c] /\ ~inputOpen[c]
<1>1. PICK u \in Nat : SentUpTo(c, u)
  BY DEF UpInv
<1>2. /\ Len(got[c]) \in Nat /\ Len(got[c]) <= u /\ u <= sent[c] /\ sent[c] \in Nat
      /\ Len(got[c]) + 1 .. u \subseteq Data /\ up[c] \in Seq(Nat)
      /\ Carries(up[c], Len(got[c]) + 1 .. u)
  BY <1>1, UpFacts
<1>3. PICK g \in Nat : g = Len(got[c])
  BY <1>2
<1>4. ASSUME Head(up[c]) \in Data
      PROVE  Head(up[c]) = g + 1
  <2>1. /\ Head(up[c]) \in g + 1 .. u
        /\ \A v \in (g + 1 .. u) \ {Head(up[c])} : Head(up[c]) < v
    BY <1>2, <1>3, <1>4, TakeData
  <2>2. PICK n \in Nat : n = Head(up[c])
    BY <1>2, <1>3, <2>1
  <2>3. n \in g + 1 .. u /\ \A v \in (g + 1 .. u) \ {n} : n < v
    BY <2>1, <2>2
  <2>4. g + 1 \in g + 1 .. u
    BY <1>3, <2>3
  <2>5. n = g + 1
    BY <1>3, <2>3, <2>4
  <2>. QED BY <2>2, <2>5
<1>5. ASSUME Head(up[c]) = Close
      PROVE  g = sent[c] /\ ~inputOpen[c]
  <2>1. Len(up[c]) \in Nat \ {0} /\ up[c][1] = Close /\ 1 \in 1 .. Len(up[c])
    BY <1>2, <1>5, TailFacts
  <2>2. ~inputOpen[c]
    BY <2>1 DEF UpInv
  <2>3. u = sent[c]
    BY <1>1, <2>2 DEF SentUpTo
  <2>4. Close \notin Data
    BY OtherFrames
  <2>5. \A i \in 1 .. Len(up[c]) : up[c][i] \notin Data
    <3>1. SUFFICES ASSUME NEW i \in 1 .. Len(up[c]) PROVE up[c][i] \notin Data
      OBVIOUS
    <3>2. CASE i = 1
      BY <2>1, <2>4, <3>2
    <3>3. CASE 1 < i
      BY <2>1, <3>3 DEF UpInv
    <3>. QED BY <3>2, <3>3
  <2>6. \A v \in g + 1 .. u : FALSE
    BY <1>2, <1>3, <2>5 DEF Carries
  <2>7. g = u
    <3>1. u \notin g + 1 .. u
      BY <2>6
    <3>. QED BY <1>2, <1>3, <3>1
  <2>. QED BY <2>2, <2>3, <2>7
<1>. QED BY <1>3, <1>4, <1>5

LEMMA PeerTakesUp ==
  ASSUME TunnelConstants, TunTypeOK, NEW c \in Conns, UpInv(c), PeerTakes(c)
  PROVE  UpInv(c)'
<1>1. /\ up[c] # <<>> /\ up'[c] = Tail(up[c]) /\ tunnel'[c] = tunnel[c] /\ channel'[c] = channel[c]
      /\ sent'[c] = sent[c] /\ local'[c] = local[c] /\ eof'[c] = eof[c]
      /\ reading'[c] = reading[c] /\ inputOpen'[c] = inputOpen[c]
  BY DEF PeerTakes, Drop, pumpVars, localVars, TunTypeOK
<1>2. \/ Head(up[c]) \in Data /\ got'[c] = Append(got[c], Head(up[c]))
      \/ Head(up[c]) \notin Data /\ got'[c] = got[c]
  <2>1. \/ Head(up[c]) \in Data /\ got' = [got EXCEPT ![c] = Append(got[c], Head(up[c]))]
        \/ Head(up[c]) \in {Close, Pong} /\ got' = got
    BY DEF PeerTakes, Put, Data
  <2>2. Close \notin Data /\ Pong \notin Data
    BY OtherFrames
  <2>3. got \in [Conns -> Seq(Nat)]
    BY DEF TunTypeOK
  <2>. QED BY <2>1, <2>2, <2>3
<1>3. /\ (Working(c)' <=> Working(c)) /\ (Early(c)' <=> Early(c))
      /\ (Pumping(c)' <=> Pumping(c))
  BY <1>1 DEF Working, Early, Pumping
<1>4. PICK u \in Nat : SentUpTo(c, u)
  BY DEF UpInv
<1>5. /\ Len(got[c]) \in Nat /\ Len(got[c]) <= u /\ u <= sent[c] /\ sent[c] \in Nat
      /\ Len(got[c]) + 1 .. u \subseteq Data /\ up[c] \in Seq(Nat)
      /\ Carries(up[c], Len(got[c]) + 1 .. u) /\ got[c] \in Seq(Nat)
  BY <1>4, UpFacts DEF TunTypeOK
<1>6. PICK g \in Nat : g = Len(got[c])
  BY <1>5
<1>7. SentUpTo(c, u)' /\ \A k \in 1 .. Len(got'[c]) : got'[c][k] = k
  <2>1. CASE Head(up[c]) \notin Data /\ got'[c] = got[c]
    <3>1. Carries(Tail(up[c]), Len(got[c]) + 1 .. u)
      BY <1>1, <1>5, <2>1, TakeOther
    <3>. QED BY <1>1, <1>3, <1>4, <2>1, <3>1 DEF SentUpTo, Chain, UpInv
  <2>2. CASE Head(up[c]) \in Data /\ got'[c] = Append(got[c], Head(up[c]))
    <3>1. Head(up[c]) = g + 1
      BY <1>1, <1>6, <2>2, PeerFinds
    <3>0. PICK V : V = g + 1 .. u
      OBVIOUS
    <3>8. V \subseteq Data /\ Carries(up[c], V)
      BY <1>5, <1>6, <3>0
    <3>9. Carries(Tail(up[c]), V \ {Head(up[c])}) /\ Head(up[c]) \in V
      BY <1>1, <1>5, <2>2, <3>8, TakeData
    <3>2. Carries(Tail(up[c]), (g + 1 .. u) \ {g + 1}) /\ g + 1 \in g + 1 .. u
      BY <3>0, <3>1, <3>9
    <3>3. (g + 1 .. u) \ {g + 1} = (g + 1) + 1 .. u /\ g + 1 <= u
      BY <1>6, <3>2
    <3>4. /\ Len(got'[c]) = g + 1 /\ \A k \in 1 .. g : got'[c][k] = got[c][k]
          /\ got'[c][g + 1] = g + 1
      BY <1>5, <1>6, <2>2, <3>1, AppendFacts
    <3>5. SentUpTo(c, u)'
      BY <1>1, <1>3, <1>4, <3>2, <3>3, <3>4 DEF SentUpTo, Chain
    <3>6. ASSUME NEW k \in 1 .. g + 1 PROVE got'[c][k] = k
      <4>1. CASE k = g + 1
        BY <3>4, <4>1
      <4>2. CASE k \in 1 .. g
        BY <1>6, <3>4, <4>2 DEF UpInv
      <4>. QED BY <1>6, <4>1, <4>2
    <3>. QED BY <3>4, <3>5, <3>6
  <2>. QED BY <1>2, <2>1, <2>2
<1>8. /\ Len(up[c]) \in Nat \ {0} /\ Len(up'[c]) = Len(up[c]) - 1
      /\ \A i \in 1 .. Len(up[c]) - 1 : up'[c][i] = up[c][i + 1]
  BY <1>1, <1>5, TailFacts
<1>9. \A i \in 1 .. Len(up'[c]) : i \in Nat /\ i + 1 \in 1 .. Len(up[c]) /\ up'[c][i] = up[c][i + 1]
  BY <1>8
<1>10. ASSUME NEW i \in 1 .. Len(up'[c]), NEW j \in 1 .. Len(up'[c]), i < j, up'[c][i] = Close
       PROVE  up'[c][j] \notin Data
  <2>1. /\ i + 1 < j + 1 /\ i + 1 \in 1 .. Len(up[c]) /\ j + 1 \in 1 .. Len(up[c])
        /\ up[c][i + 1] = Close /\ up'[c][j] = up[c][j + 1]
    BY <1>9, <1>10
  <2>. QED BY <2>1 DEF UpInv
<1>11. \A i \in 1 .. Len(up'[c]) : up'[c][i] = Close => ~inputOpen[c]
  BY <1>9 DEF UpInv
<1>12. \A i, j \in 1 .. Len(up'[c]) : i < j /\ up'[c][i] = Close => up'[c][j] \notin Data
  BY <1>10
<1>. QED BY <1>1, <1>3, <1>7, <1>11, <1>12 DEF UpInv, Close

(* Whatever happens to a connection, the way up is kept. *)
LEMMA UpStep ==
  ASSUME TunnelConstants, TunTypeOK, NEW c \in Conns, UpInv(c), DownInv(c), TunStep(c)
  PROVE  UpInv(c)'
<1>1. Accept(c) \/ PollTimeout(c) \/ ReadEof(c) \/ CloseLocal(c)
        \/ PeerVanishes(c) => UpInv(c)'
  BY Stays, StayingSteps
<1>2. ASSUME NEW frame, PeerSays(c, frame) PROVE UpInv(c)'
  BY <1>2, Stays, StayingSteps
<1>3. Connect(c) => UpInv(c)'
  BY ConnectUp
<1>4. Read(c) => UpInv(c)'
  BY ReadUp
<1>5. ReadEnd(c) => UpInv(c)'
  BY ReadEndUp
<1>6. SendChunk(c) => UpInv(c)'
  BY SendUp
<1>7. Drained(c) => UpInv(c)'
  BY DrainedUp
<1>8. ReadFrame(c) => UpInv(c)'
  BY ReadFrameUp
<1>9. SendLocal(c) => UpInv(c)'
  BY SendLocalUp
<1>10. PeerTakes(c) => UpInv(c)'
  BY PeerTakesUp
<1>. QED
  BY <1>1, <1>2, <1>3, <1>4, <1>5, <1>6, <1>7, <1>8, <1>9, <1>10, Zenon
     DEF TunStep, ReaderStep, PumpStep, Outside


(* What is owed is data, and each chunk of it was received. *)
LEMMA DownFacts ==
  ASSUME TunnelConstants, TunTypeOK, NEW c \in Conns, UpInv(c), DownInv(c)
  PROVE  /\ Len(got[c]) \in Nat /\ Len(replied[c]) \in Nat /\ Len(delivered[c]) \in Nat
         /\ Len(down[c]) \in Nat /\ down[c] \in Seq(Nat) /\ replied[c] \in Seq(Nat)
         /\ delivered[c] \in Seq(Nat) /\ got[c] \in Seq(Nat)
         /\ Owed(c) \subseteq Data /\ \A v \in Owed(c) : v < Len(got[c]) + 1
         /\ peer[c] = "open" => \A i \in 1 .. Len(down[c]) : down[c][i] \notin Closings
         /\ peer[c] = "open" => tunnel[c] # "ok"
<1>1. PICK u \in Nat : SentUpTo(c, u)
  BY DEF UpInv
<1>2. Len(got[c]) \in Nat /\ Len(got[c]) <= Chunks /\ Chunks \in Nat
  <2>1. /\ Len(got[c]) \in Nat /\ Len(got[c]) <= u /\ u <= sent[c] /\ sent[c] \in Nat
        /\ sent[c] <= Chunks /\ Chunks \in 0 .. 100
    BY <1>1, UpFacts
  <2>. QED BY <2>1
<1>3. /\ down[c] \in Seq(Nat) /\ replied[c] \in Seq(Nat) /\ delivered[c] \in Seq(Nat)
      /\ got[c] \in Seq(Nat)
  BY DEF TunTypeOK
<1>4. Len(replied[c]) \in Nat /\ Len(delivered[c]) \in Nat /\ Len(down[c]) \in Nat
  BY <1>3
<1>5. ASSUME NEW v \in Owed(c)
      PROVE  v \in Data /\ v < Len(got[c]) + 1
  <2>1. PICK k \in Len(delivered[c]) + 1 .. Len(replied[c]) : v = replied[c][k]
    BY DEF Owed
  <2>2. k \in 1 .. Len(replied[c])
    BY <1>4, <2>1
  <2>3. v \in 1 .. Len(got[c])
    BY <2>1, <2>2 DEF DownInv
  <2>4. PICK g \in Nat : g = Len(got[c]) /\ g <= Chunks
    BY <1>2
  <2>5. v \in Nat /\ 1 <= v /\ v <= g
    BY <2>3, <2>4
  <2>6. v <= Chunks /\ v < g + 1
    BY <1>2, <2>4, <2>5
  <2>. QED BY <2>4, <2>5, <2>6, OtherFrames
<1>6. peer[c] = "open" => \A i \in 1 .. Len(down[c]) : down[c][i] \notin Closings
  BY DEF DownInv
<1>7. peer[c] = "open" => tunnel[c] # "ok"
  BY DEF DownInv
<1>. QED BY <1>2, <1>3, <1>4, <1>5, <1>6, <1>7

(* A local end that still sends has not closed its side, so that no answer *)
(* to a close frame is on its way to it.                                   *)
LEMMA SendLocalDown ==
  ASSUME TunTypeOK, NEW c \in Conns, UpInv(c), DownInv(c), SendLocal(c)
  PROVE  DownInv(c)'
<1>1. /\ ~eof[c] /\ tunnel'[c] = tunnel[c] /\ got'[c] = got[c] /\ peer'[c] = peer[c]
      /\ down'[c] = down[c] /\ replied'[c] = replied[c] /\ delivered'[c] = delivered[c]
  BY DEF SendLocal, pumpVars, wireVars, peerVars
<1>2. inputOpen[c]
  BY <1>1 DEF UpInv
<1>3. \A i \in 1 .. Len(down[c]) : down[c][i] # Close
  BY <1>2 DEF DownInv
<1>4. (Working(c)' <=> Working(c)) /\ Owed(c)' = Owed(c)
  BY <1>1 DEF Working, Early, Pumping, Owed
<1>. QED BY <1>1, <1>3, <1>4 DEF DownInv, Closings, Close, Farewell

(* A frame of the far end's own, after which it may have closed. *)
LEMMA PeerSaysDown ==
  ASSUME TunnelConstants, TunTypeOK, NEW c \in Conns, UpInv(c), DownInv(c),
         NEW frame \in {Text, Ping, Refusal, Farewell}, PeerSays(c, frame)
  PROVE  DownInv(c)'
<1>1. /\ peer[c] = "open" /\ tunnel'[c] = tunnel[c] /\ got'[c] = got[c] /\ sent'[c] = sent[c]
      /\ down'[c] = Append(down[c], frame) /\ replied'[c] = replied[c] /\ delivered'[c] = delivered[c]
      /\ frame = Farewell => peer'[c] = "closed"
  BY DEF PeerSays, Put, pumpVars, localVars, TunTypeOK
<1>2. frame \in Nat \ Data /\ frame # Close /\ (frame \in Closings => frame = Farewell)
  BY OtherFrames DEF Closings
<1>3. /\ Owed(c) \subseteq Data /\ down[c] \in Seq(Nat) /\ tunnel[c] # "ok"
      /\ \A i \in 1 .. Len(down[c]) : down[c][i] \notin Closings
  BY <1>1, DownFacts
<1>4. (Working(c)' <=> Working(c)) /\ Owed(c)' = Owed(c)
  BY <1>1 DEF Working, Early, Pumping, Owed
<1>5. Working(c)' => Carries(down'[c], Owed(c))
  BY <1>1, <1>2, <1>3, <1>4, PutOther DEF DownInv
<1>6. /\ Len(down[c]) \in Nat /\ Len(down'[c]) = Len(down[c]) + 1
      /\ \A j \in 1 .. Len(down[c]) : down'[c][j] = down[c][j]
      /\ down'[c][Len(down[c]) + 1] = frame
  BY <1>1, <1>2, <1>3, AppendFacts
<1>7. ASSUME NEW i \in 1 .. Len(down'[c]), down'[c][i] \in Closings
      PROVE  i = Len(down'[c]) /\ peer'[c] = "closed" /\ down'[c][i] # Close
  <2>1. i = Len(down[c]) + 1
    BY <1>3, <1>6, <1>7
  <2>. QED BY <1>1, <1>2, <1>6, <1>7, <2>1
<1>8. /\ \A i \in 1 .. Len(down'[c]) : down'[c][i] \in Closings => i = Len(down'[c]) /\ peer'[c] = "closed"
      /\ \A i \in 1 .. Len(down'[c]) : down'[c][i] # Close
  BY <1>7 DEF Closings
<1>. QED BY <1>1, <1>3, <1>4, <1>5, <1>8 DEF DownInv, Closings, Close, Farewell

LEMMA PeerVanishesDown ==
  ASSUME TunnelConstants, TunTypeOK, NEW c \in Conns, UpInv(c), DownInv(c), PeerVanishes(c)
  PROVE  DownInv(c)'
<1>1. /\ peer[c] = "open" /\ peer'[c] = "gone" /\ tunnel'[c] = tunnel[c] /\ got'[c] = got[c]
      /\ sent'[c] = sent[c] /\ down'[c] = down[c] /\ replied'[c] = replied[c]
      /\ delivered'[c] = delivered[c]
  BY DEF PeerVanishes, pumpVars, localVars, wireVars, TunTypeOK
<1>2. \A i \in 1 .. Len(down[c]) : down[c][i] \notin Closings
  BY <1>1, DownFacts
<1>3. (Working(c)' <=> Working(c)) /\ Owed(c)' = Owed(c)
  BY <1>1 DEF Working, Early, Pumping, Owed
<1>. QED BY <1>1, <1>2, <1>3 DEF DownInv, Closings, Close, Farewell

(* The far end answers: a chunk with the same chunk, and the close frame,  *)
(* which it reaches after every chunk, with its own.                       *)
LEMMA PeerTakesDown ==
  ASSUME TunnelConstants, TunTypeOK, NEW c \in Conns, UpInv(c), DownInv(c), PeerTakes(c)
  PROVE  DownInv(c)'
<1>1. /\ peer[c] = "open" /\ up[c] # <<>> /\ tunnel'[c] = tunnel[c] /\ sent'[c] = sent[c]
      /\ delivered'[c] = delivered[c] /\ inputOpen'[c] = inputOpen[c]
  BY DEF PeerTakes, pumpVars, localVars
<1>2. /\ Len(got[c]) \in Nat /\ Len(replied[c]) \in Nat /\ Len(delivered[c]) \in Nat
      /\ Len(down[c]) \in Nat /\ down[c] \in Seq(Nat) /\ replied[c] \in Seq(Nat)
      /\ got[c] \in Seq(Nat) /\ Owed(c) \subseteq Data /\ \A v \in Owed(c) : v < Len(got[c]) + 1
      /\ tunnel[c] # "ok" /\ \A i \in 1 .. Len(down[c]) : down[c][i] \notin Closings
  BY <1>1, DownFacts
<1>3. Working(c)' <=> Working(c)
  BY <1>1 DEF Working, Early, Pumping
<1>4. /\ got \in [Conns -> Seq(Nat)] /\ replied \in [Conns -> Seq(Nat)]
      /\ down \in [Conns -> Seq(Nat)] /\ peer \in [Conns -> {"open", "closed", "gone"}]
  BY DEF TunTypeOK
<1>5. CASE Head(up[c]) = Pong /\ UNCHANGED <<peer, got, replied, down>>
  <2>1. Owed(c)' = Owed(c)
    BY <1>1, <1>5 DEF Owed
  <2>. QED BY <1>1, <1>2, <1>3, <1>5, <2>1 DEF DownInv, Closings, Close, Farewell
<1>6. CASE /\ Head(up[c]) = Close /\ down' = [down EXCEPT ![c] = Append(down[c], Close)]
           /\ peer' = [peer EXCEPT ![c] = "closed"] /\ UNCHANGED <<got, replied>>
  <2>1. down'[c] = Append(down[c], Close) /\ peer'[c] = "closed"
    BY <1>4, <1>6
  <2>2. Len(got[c]) = sent[c] /\ ~inputOpen[c]
    BY <1>1, <1>6, PeerFinds
  <2>3. Close \in Nat \ Data
    BY OtherFrames
  <2>4. Owed(c)' = Owed(c)
    BY <1>1, <1>6 DEF Owed
  <2>5. Working(c)' => Carries(down'[c], Owed(c)')
    BY <1>2, <1>3, <2>1, <2>3, <2>4, PutOther DEF DownInv
  <2>6. /\ Len(down'[c]) = Len(down[c]) + 1
        /\ \A j \in 1 .. Len(down[c]) : down'[c][j] = down[c][j]
    BY <1>2, <2>1, <2>3, AppendFacts
  <2>7. ASSUME NEW i \in 1 .. Len(down'[c]), down'[c][i] \in Closings
        PROVE  i = Len(down'[c])
    <3>1. i \in 1 .. Len(down[c]) => FALSE
      BY <1>2, <2>6, <2>7
    <3>. QED BY <1>2, <2>6, <3>1
  <2>8. /\ got'[c] = got[c] /\ replied'[c] = replied[c] /\ delivered'[c] = delivered[c]
        /\ tunnel'[c] # "ok" /\ ~inputOpen'[c] /\ Len(got'[c]) = sent'[c]
    BY <1>1, <1>2, <1>6, <2>2
  <2>9. \A i \in 1 .. Len(down'[c]) : down'[c][i] \in Closings => i = Len(down'[c]) /\ peer'[c] = "closed"
    BY <2>1, <2>7
  <2>. QED BY <2>5, <2>8, <2>9 DEF DownInv, Closings, Close, Farewell
<1>7. CASE /\ Head(up[c]) \in Data /\ got' = [got EXCEPT ![c] = Append(got[c], Head(up[c]))]
           /\ UNCHANGED <<peer, replied, down>>
  <2>1. Head(up[c]) \in Nat /\ got'[c] = Append(got[c], Head(up[c]))
    BY <1>4, <1>7, OtherFrames
  <2>2. Len(got'[c]) = Len(got[c]) + 1
    BY <1>2, <2>1, AppendFacts
  <2>3. \A k \in 1 .. Len(replied[c]) : replied[c][k] \in 1 .. Len(got'[c])
    <3>1. \A x \in 1 .. Len(got[c]) : x \in 1 .. Len(got'[c])
      BY <1>2, <2>2
    <3>. QED BY <3>1 DEF DownInv
  <2>4. Owed(c)' = Owed(c)
    BY <1>1, <1>7 DEF Owed
  <2>. QED BY <1>1, <1>2, <1>3, <1>7, <2>3, <2>4 DEF DownInv, Closings, Close, Farewell
<1>8. CASE /\ Head(up[c]) \in Data /\ got' = [got EXCEPT ![c] = Append(got[c], Head(up[c]))]
           /\ replied' = [replied EXCEPT ![c] = Append(replied[c], Head(up[c]))]
           /\ down' = [down EXCEPT ![c] = Append(down[c], Head(up[c]))]
           /\ UNCHANGED peer
  <2>1. PICK n \in Nat : n = Head(up[c])
    BY <1>8, OtherFrames
  <2>2. /\ got'[c] = Append(got[c], n) /\ replied'[c] = Append(replied[c], n)
        /\ down'[c] = Append(down[c], n) /\ n \in Data
    BY <1>4, <1>8, <2>1
  <2>3. n = Len(got[c]) + 1
    BY <1>1, <1>8, <2>1, PeerFinds
  <2>4. Len(got'[c]) = Len(got[c]) + 1
    BY <1>2, <2>2, AppendFacts
  <2>5. /\ Len(replied'[c]) = Len(replied[c]) + 1
        /\ \A k \in 1 .. Len(replied[c]) : replied'[c][k] = replied[c][k]
        /\ replied'[c][Len(replied[c]) + 1] = n
    BY <1>2, <2>2, AppendFacts
  <2>6. /\ Len(down'[c]) = Len(down[c]) + 1
        /\ \A k \in 1 .. Len(down[c]) : down'[c][k] = down[c][k]
        /\ down'[c][Len(down[c]) + 1] = n
    BY <1>2, <2>2, AppendFacts
  <2>7. \A i \in 1 .. Len(down'[c]) : down'[c][i] \notin Closings
    <3>1. n \notin Closings
      <4>1. Close \notin Data /\ Farewell \notin Data
        BY OtherFrames
      <4>. QED BY <2>2, <4>1 DEF Closings
    <3>2. SUFFICES ASSUME NEW i \in 1 .. Len(down'[c]) PROVE down'[c][i] \notin Closings
      BY DEF Closings, Close, Farewell
    <3>3. CASE i = Len(down[c]) + 1
      BY <2>6, <3>1, <3>3
    <3>4. CASE i \in 1 .. Len(down[c])
      BY <1>2, <2>6, <3>4
    <3>. QED BY <1>2, <2>6, <3>3, <3>4
  <2>8. Len(delivered[c]) <= Len(replied[c])
    BY DEF DownInv
  <2>9. \A k \in 1 .. Len(delivered[c]) : delivered[c][k] = replied'[c][k]
    <3>1. \A k \in 1 .. Len(delivered[c]) : k \in 1 .. Len(replied[c])
      BY <1>2, <2>8
    <3>. QED BY <2>5, <3>1 DEF DownInv
  <2>10. \A k \in 1 .. Len(replied'[c]) : replied'[c][k] \in 1 .. Len(got'[c])
    <3>1. SUFFICES ASSUME NEW k \in 1 .. Len(replied'[c]) PROVE replied'[c][k] \in 1 .. Len(got'[c])
      OBVIOUS
    <3>2. CASE k = Len(replied[c]) + 1
      BY <1>2, <2>3, <2>4, <2>5, <3>2
    <3>3. CASE k \in 1 .. Len(replied[c])
      <4>1. replied[c][k] \in 1 .. Len(got[c])
        BY <3>3 DEF DownInv
      <4>2. \A x \in 1 .. Len(got[c]) : x \in 1 .. Len(got'[c])
        BY <1>2, <2>4
      <4>. QED BY <2>5, <3>3, <4>1, <4>2
    <3>. QED BY <1>2, <2>5, <3>2, <3>3
  <2>11. ASSUME NEW k \in 1 .. Len(replied'[c]), NEW l \in 1 .. Len(replied'[c]), k < l
         PROVE  replied'[c][k] < replied'[c][l]
    <3>1. k \in 1 .. Len(replied[c])
      BY <1>2, <2>5, <2>11
    <3>2. CASE l = Len(replied[c]) + 1
      <4>1. replied[c][k] \in 1 .. Len(got[c])
        BY <3>1 DEF DownInv
      <4>2. replied[c][k] < n
        BY <1>2, <2>3, <4>1
      <4>. QED BY <2>5, <3>1, <3>2, <4>2
    <3>3. CASE l \in 1 .. Len(replied[c])
      BY <2>5, <2>11, <3>1, <3>3 DEF DownInv
    <3>. QED BY <1>2, <2>5, <3>2, <3>3
  <2>12. Owed(c)' = Owed(c) \cup {n}
    <3>1. PICK a \in Nat : a = Len(delivered[c])
      BY <1>2
    <3>2. PICK b \in Nat : b = Len(replied[c])
      BY <1>2
    <3>3. a <= b
      BY <2>8, <3>1, <3>2
    <3>4. a + 1 .. b + 1 = (a + 1 .. b) \cup {b + 1}
      BY <3>3
    <3>5. Owed(c)' = {replied'[c][k] : k \in a + 1 .. b + 1}
      BY <1>1, <2>5, <3>1, <3>2 DEF Owed
    <3>6. \A k \in a + 1 .. b : replied'[c][k] = replied[c][k]
      BY <2>5, <3>2, <3>1
    <3>7. Owed(c) = {replied[c][k] : k \in a + 1 .. b}
      BY <3>1, <3>2 DEF Owed
    <3>8. replied'[c][b + 1] = n
      BY <2>5, <3>2
    <3>. QED BY <3>4, <3>5, <3>6, <3>7, <3>8
  <2>13. Working(c)' => Carries(down'[c], Owed(c)')
    <3>1. \A v \in Owed(c) : v < n
      BY <1>2, <2>3
    <3>2. SUFFICES ASSUME Working(c)' PROVE Carries(down'[c], Owed(c)')
      OBVIOUS
    <3>3. Carries(down[c], Owed(c)) /\ down[c] \in Seq(Nat) /\ Owed(c) \subseteq Data
      BY <1>2, <1>3, <3>2 DEF DownInv
    <3>4. Carries(Append(down[c], n), Owed(c) \cup {n})
      BY <2>2, <3>1, <3>3, PutData
    <3>. QED BY <2>2, <2>12, <3>4
  <2>14. Len(delivered[c]) <= Len(replied'[c])
    BY <1>2, <2>5, <2>8
  <2>. QED BY <1>1, <1>2, <2>7, <2>9, <2>10, <2>11, <2>13, <2>14 DEF DownInv, Closings, Close, Farewell
<1>. QED
  BY <1>5, <1>6, <1>7, <1>8 DEF PeerTakes, Put, Data


(* The first chunk on the wire is the first one owed. *)
LEMMA PumpFinds ==
  ASSUME TunnelConstants, TunTypeOK, NEW c \in Conns, UpInv(c), DownInv(c), Working(c),
         down[c] # <<>>, NEW n \in Data, Head(down[c]) = n
  PROVE  /\ Len(delivered[c]) + 1 <= Len(replied[c]) /\ replied[c][Len(delivered[c]) + 1] = n
         /\ Carries(Tail(down[c]), {replied[c][k] : k \in Len(delivered[c]) + 2 .. Len(replied[c])})
<1>1. /\ Len(replied[c]) \in Nat /\ Len(delivered[c]) \in Nat /\ down[c] \in Seq(Nat)
      /\ replied[c] \in Seq(Nat) /\ Owed(c) \subseteq Data
  BY DownFacts
<1>2. PICK a \in Nat : a = Len(delivered[c])
  BY <1>1
<1>3. PICK b \in Nat : b = Len(replied[c])
  BY <1>1
<1>4. Owed(c) = {replied[c][k] : k \in a + 1 .. b}
  BY <1>2, <1>3 DEF Owed
<1>5. Carries(down[c], Owed(c))
  BY DEF DownInv
<1>6. /\ Carries(Tail(down[c]), Owed(c) \ {n}) /\ n \in Owed(c)
      /\ \A v \in Owed(c) \ {n} : n < v
  BY <1>1, <1>5, TakeData
<1>7. PICK k \in a + 1 .. b : n = replied[c][k]
  BY <1>4, <1>6
<1>8. /\ a + 1 \in a + 1 .. b /\ a + 1 \in 1 .. Len(replied[c]) /\ k \in 1 .. Len(replied[c])
      /\ a + 1 <= b
  BY <1>3, <1>7
<1>9. ASSUME NEW i \in 1 .. b PROVE replied[c][i] \in Nat
  <2>1. replied[c] \in Seq(Nat) /\ i \in 1 .. Len(replied[c])
    BY <1>1, <1>3
  <2>. QED BY <2>1
<1>10. \A i, j \in 1 .. b : i < j => replied[c][i] < replied[c][j]
  BY <1>3 DEF DownInv
<1>11. k = a + 1
  <2>1. SUFFICES ASSUME a + 1 < k PROVE FALSE
    BY <1>7
  <2>2. replied[c][a + 1] < n
    BY <1>3, <1>7, <1>8, <1>10, <2>1
  <2>3. replied[c][a + 1] \in Nat /\ n \in Nat
    BY <1>3, <1>7, <1>8, <1>9
  <2>4. replied[c][a + 1] \in Owed(c) \ {n}
    BY <1>4, <1>8, <2>2, <2>3
  <2>5. n < replied[c][a + 1]
    BY <1>6, <2>4
  <2>. QED BY <2>2, <2>3, <2>5
<1>12. Owed(c) \ {n} = {replied[c][i] : i \in a + 2 .. b}
  <2>1. ASSUME NEW v \in Owed(c) \ {n} PROVE v \in {replied[c][i] : i \in a + 2 .. b}
    <3>1. PICK i \in a + 1 .. b : v = replied[c][i]
      BY <1>4, <2>1
    <3>2. i # a + 1
      BY <1>7, <1>11, <2>1, <3>1
    <3>3. i \in a + 2 .. b
      BY <3>1, <3>2
    <3>. QED BY <3>1, <3>3
  <2>2. ASSUME NEW i \in a + 2 .. b PROVE replied[c][i] \in Owed(c) \ {n}
    <3>1. i \in a + 1 .. b /\ i \in 1 .. b /\ a + 1 \in 1 .. b /\ a + 1 < i
      BY <1>3, <1>8, <2>2
    <3>2. replied[c][a + 1] < replied[c][i]
      BY <1>10, <3>1
    <3>3. replied[c][a + 1] \in Nat /\ replied[c][i] \in Nat /\ replied[c][a + 1] = n
      BY <1>7, <1>9, <1>11, <3>1
    <3>4. replied[c][i] # n
      BY <3>2, <3>3
    <3>. QED BY <1>4, <3>1, <3>4
  <2>. QED BY <2>1, <2>2
<1>. QED BY <1>2, <1>3, <1>6, <1>7, <1>8, <1>11, <1>12

(* A close frame is the last: when the pump reads one, nothing is owed.    *)
LEMMA PumpEnds ==
  ASSUME TunnelConstants, TunTypeOK, NEW c \in Conns, UpInv(c), DownInv(c), Working(c),
         down[c] # <<>>, Head(down[c]) \in Closings
  PROVE  peer[c] = "closed" /\ delivered[c] = replied[c]
<1>1. /\ Len(replied[c]) \in Nat /\ Len(delivered[c]) \in Nat /\ down[c] \in Seq(Nat)
      /\ replied[c] \in Seq(Nat) /\ delivered[c] \in Seq(Nat) /\ Owed(c) \subseteq Data
  BY DownFacts
<1>2. Len(down[c]) \in Nat \ {0} /\ down[c][1] \in Closings /\ 1 \in 1 .. Len(down[c])
  BY <1>1, TailFacts
<1>3. 1 = Len(down[c]) /\ peer[c] = "closed"
  BY <1>2 DEF DownInv
<1>4. Close \notin Data /\ Farewell \notin Data
  BY OtherFrames
<1>5. ASSUME NEW v \in Owed(c) PROVE FALSE
  <2>1. PICK i \in 1 .. Len(down[c]) : down[c][i] = v
    BY DEF DownInv, Carries
  <2>2. i = 1
    BY <1>3, <2>1
  <2>. QED BY <1>1, <1>2, <1>4, <2>1, <2>2 DEF Closings
<1>6. Len(delivered[c]) <= Len(replied[c])
  BY DEF DownInv
<1>7. Len(delivered[c]) = Len(replied[c])
  <2>1. SUFFICES ASSUME Len(delivered[c]) < Len(replied[c]) PROVE FALSE
    BY <1>1, <1>6
  <2>2. Len(replied[c]) \in Len(delivered[c]) + 1 .. Len(replied[c])
    BY <1>1, <2>1
  <2>. QED BY <1>5, <2>2 DEF Owed
<1>8. \A i \in 1 .. Len(delivered[c]) : delivered[c][i] = replied[c][i]
  BY DEF DownInv
<1>9. delivered[c] = replied[c]
  BY <1>1, <1>7, <1>8, SameFrames
<1>. QED BY <1>3, <1>9

LEMMA ReadFrameDown ==
  ASSUME TunnelConstants, TunTypeOK, NEW c \in Conns, UpInv(c), DownInv(c), ReadFrame(c)
  PROVE  DownInv(c)'
<1>1. /\ tunnel[c] = "read" /\ down[c] # <<>> /\ down'[c] = Tail(down[c]) /\ sent'[c] = sent[c]
      /\ got'[c] = got[c] /\ replied'[c] = replied[c] /\ peer'[c] = peer[c]
      /\ inputOpen'[c] = inputOpen[c]
  BY DEF ReadFrame, Drop, Leave, localVars, peerVars, TunTypeOK
<1>2. Working(c)
  BY <1>1 DEF Working, Pumping
<1>3. /\ Len(replied[c]) \in Nat /\ Len(delivered[c]) \in Nat /\ Len(down[c]) \in Nat
      /\ down[c] \in Seq(Nat) /\ replied[c] \in Seq(Nat) /\ delivered[c] \in Seq(Nat)
      /\ Owed(c) \subseteq Data
  BY DownFacts
<1>4. \A i \in 1 .. Len(down'[c]) :
        /\ down'[c][i] \in Closings => i = Len(down'[c]) /\ peer'[c] = "closed"
        /\ down'[c][i] = Close => ~inputOpen'[c] /\ Len(got'[c]) = sent'[c]
  <2>1. SUFFICES ASSUME NEW i \in 1 .. Len(down'[c]), down'[c][i] \in Closings
        PROVE  /\ i = Len(down'[c]) /\ peer'[c] = "closed"
               /\ down'[c][i] = Close => ~inputOpen'[c] /\ Len(got'[c]) = sent'[c]
    BY DEF Closings
  <2>2. /\ Len(down[c]) \in Nat \ {0} /\ Len(down'[c]) = Len(down[c]) - 1
        /\ \A j \in 1 .. Len(down[c]) - 1 : down'[c][j] = down[c][j + 1]
    BY <1>1, <1>3, TailFacts
  <2>3. i + 1 \in 1 .. Len(down[c]) /\ down[c][i + 1] = down'[c][i]
    BY <2>1, <2>2
  <2>4. /\ i + 1 = Len(down[c]) /\ peer[c] = "closed"
        /\ down[c][i + 1] = Close => ~inputOpen[c] /\ Len(got[c]) = sent[c]
    BY <2>1, <2>3 DEF DownInv
  <2>. QED BY <1>1, <2>2, <2>3, <2>4
<1>5. CASE delivered'[c] = delivered[c] /\ tunnel'[c] = "error"
  <2>1. ~Working(c)'
    BY <1>5 DEF Working, Early, Pumping
  <2>. QED BY <1>1, <1>4, <1>5, <2>1 DEF DownInv, Closings, Close, Farewell
<1>6. CASE Head(down[c]) = Ping /\ delivered'[c] = delivered[c] /\ tunnel'[c] = "drain"
  <2>1. Ping \notin Data
    BY OtherFrames
  <2>2. Carries(Tail(down[c]), Owed(c))
    BY <1>1, <1>2, <1>3, <1>6, <2>1, TakeOther DEF DownInv
  <2>3. Owed(c)' = Owed(c)
    BY <1>1, <1>6 DEF Owed
  <2>. QED BY <1>1, <1>4, <1>6, <2>2, <2>3 DEF DownInv, Closings, Close, Farewell
<1>7. CASE Head(down[c]) \in Closings /\ delivered'[c] = delivered[c] /\ tunnel'[c] = "ok"
  <2>1. peer[c] = "closed" /\ delivered[c] = replied[c]
    BY <1>1, <1>2, <1>7, PumpEnds
  <2>2. ~Working(c)'
    BY <1>7 DEF Working, Early, Pumping
  <2>. QED BY <1>1, <1>4, <1>7, <2>1, <2>2 DEF DownInv, Closings, Close, Farewell
<1>8. CASE /\ Head(down[c]) \in Data /\ delivered'[c] = Append(delivered[c], Head(down[c]))
           /\ tunnel'[c] = "drain"
  <2>1. PICK n \in Nat : n = Head(down[c])
    BY <1>8, OtherFrames
  <2>2. /\ Len(delivered[c]) + 1 <= Len(replied[c]) /\ replied[c][Len(delivered[c]) + 1] = n
        /\ Carries(Tail(down[c]), {replied[c][k] : k \in Len(delivered[c]) + 2 .. Len(replied[c])})
    BY <1>1, <1>2, <1>8, <2>1, PumpFinds
  <2>3. /\ Len(delivered'[c]) = Len(delivered[c]) + 1
        /\ \A k \in 1 .. Len(delivered[c]) : delivered'[c][k] = delivered[c][k]
        /\ delivered'[c][Len(delivered[c]) + 1] = n
    BY <1>3, <1>8, <2>1, AppendFacts
  <2>4. Len(delivered'[c]) <= Len(replied'[c])
    BY <1>1, <2>2, <2>3
  <2>5. \A k \in 1 .. Len(delivered'[c]) : delivered'[c][k] = replied'[c][k]
    <3>1. SUFFICES ASSUME NEW k \in 1 .. Len(delivered'[c]) PROVE delivered'[c][k] = replied'[c][k]
      OBVIOUS
    <3>2. CASE k = Len(delivered[c]) + 1
      BY <1>1, <2>2, <2>3, <3>2
    <3>3. CASE k \in 1 .. Len(delivered[c])
      BY <1>1, <2>3, <3>3 DEF DownInv
    <3>. QED BY <1>3, <2>3, <3>2, <3>3
  <2>6. Len(delivered'[c]) + 1 = Len(delivered[c]) + 2
    BY <1>3, <2>3
  <2>7. Carries(down'[c], Owed(c)')
    BY <1>1, <2>2, <2>6 DEF Owed
  <2>. QED BY <1>1, <1>4, <1>8, <2>4, <2>5, <2>7 DEF DownInv, Closings, Close, Farewell
<1>9. delivered \in [Conns -> Seq(Nat)] /\ tunnel \in
        [Conns -> {"none", "connecting", "drain", "read", "ok", "error", "refused"}]
  BY DEF TunTypeOK
<1>10. \/ /\ Head(down[c]) \in Data
          /\ \/ delivered' = [delivered EXCEPT ![c] = Append(delivered[c], Head(down[c]))]
                /\ tunnel' = [tunnel EXCEPT ![c] = "drain"]
             \/ delivered' = delivered /\ tunnel' = [tunnel EXCEPT ![c] = "error"]
       \/ Head(down[c]) = Ping /\ delivered' = delivered /\ tunnel' = [tunnel EXCEPT ![c] = "drain"]
       \/ Head(down[c]) \in Closings /\ delivered' = delivered /\ tunnel' = [tunnel EXCEPT ![c] = "ok"]
       \/ delivered' = delivered /\ tunnel' = [tunnel EXCEPT ![c] = "error"]
  BY DEF ReadFrame, Put, To, Leave, Data, Closings
<1>. QED BY <1>5, <1>6, <1>7, <1>8, <1>9, <1>10

(* Whatever happens to a connection, the way down is kept. *)
LEMMA DownStep ==
  ASSUME TunnelConstants, TunTypeOK, NEW c \in Conns, UpInv(c), DownInv(c), TunStep(c)
  PROVE  DownInv(c)'
<1>1. Accept(c) \/ PollTimeout(c) \/ ReadEof(c) \/ CloseLocal(c) \/ Connect(c)
        \/ Read(c) \/ ReadEnd(c) \/ SendChunk(c) \/ Drained(c) => DownInv(c)'
  BY Stays, StayingSteps
<1>2. ASSUME NEW frame \in {Text, Ping, Refusal, Farewell}, PeerSays(c, frame)
      PROVE  DownInv(c)'
  BY <1>2, PeerSaysDown
<1>3. SendLocal(c) => DownInv(c)'
  BY SendLocalDown
<1>4. PeerVanishes(c) => DownInv(c)'
  BY PeerVanishesDown
<1>5. PeerTakes(c) => DownInv(c)'
  BY PeerTakesDown
<1>6. ReadFrame(c) => DownInv(c)'
  BY ReadFrameDown
<1>. QED
  BY <1>1, <1>2, <1>3, <1>4, <1>5, <1>6, Zenon
     DEF TunStep, ReaderStep, PumpStep, Outside


LEMMA SameSize == ASSUME NEW S PROVE Cardinality(S) = Cardinality(S)
BY Zenon DEF Cardinality, Cardinality

(* A tunnel becomes live only when it is accepted, below the limit. *)
LEMMA LiveBounded ==
  ASSUME TunnelConstants, TunTypeOK, NEW c \in Conns, TunStep(c), Cardinality(Live) <= MaxLive
  PROVE  Cardinality(Live)' <= MaxLive
<1>1. RestStays(c) /\ TunTypeOK'
  BY TunTypes
<1>2. Live \subseteq Conns /\ IsFiniteSet(Live) /\ MaxLive \in Nat
  <2>1. Live \subseteq Conns
    BY DEF Live
  <2>. QED BY <2>1, FS_Subset DEF TunnelConstants
<1>3. Cardinality(Live) \in Nat
  BY <1>2, FS_CardinalityType
<1>4. CASE tunnel'[c] \in {"connecting", "drain", "read"} => c \in Live
  <2>1. Live' \subseteq Live
    BY <1>1, <1>4 DEF Live, RestStays
  <2>2. Cardinality(Live') <= Cardinality(Live) /\ Cardinality(Live') \in Nat
    BY <1>2, <2>1, FS_Subset, FS_CardinalityType
  <2>. QED BY <1>2, <1>3, <2>2
<1>5. CASE Cardinality(Live) < MaxLive
  <2>1. Live' \subseteq Live \cup {c}
    BY <1>1 DEF Live, RestStays
  <2>2. IsFiniteSet(Live \cup {c}) /\ Cardinality(Live \cup {c}) <= Cardinality(Live) + 1
    BY <1>2, <1>3, FS_AddElement
  <2>3. /\ Cardinality(Live') <= Cardinality(Live \cup {c}) /\ Cardinality(Live') \in Nat
        /\ Cardinality(Live \cup {c}) \in Nat
    BY <2>1, <2>2, FS_Subset, FS_CardinalityType
  <2>. QED BY <1>2, <1>3, <1>5, <2>2, <2>3
<1>6. \/ tunnel'[c] \in {"connecting", "drain", "read"} => c \in Live
      \/ Cardinality(Live) < MaxLive
  <2>. USE DEF TunTypeOK, Live, Pumping, To, Leave, pumpVars
  <2>1. CASE Accept(c)
    <3>1. \/ tunnel' = [tunnel EXCEPT ![c] = "refused"]
          \/ ~(Cardinality(Live) >= MaxLive)
      BY <2>1 DEF Accept
    <3>2. tunnel' = [tunnel EXCEPT ![c] = "refused"] => tunnel'[c] = "refused"
      OBVIOUS
    <3>3. Cardinality(Live) = Cardinality(Live)
      BY SameSize
    <3>4. ~(Cardinality(Live) >= MaxLive) => Cardinality(Live) < MaxLive
      BY <1>2, <1>3
    <3>. QED BY <3>1, <3>2, <3>3, <3>4
  <2>2. CASE Connect(c)
    BY <2>2 DEF Connect
  <2>3. CASE ReaderStep(c)
    BY <2>3 DEF ReaderStep, Read, ReadEnd
  <2>4. CASE SendChunk(c) \/ Drained(c)
    BY <2>4 DEF SendChunk, Drained
  <2>5. CASE PollTimeout(c) \/ ReadEof(c) \/ ReadFrame(c)
    BY <2>5 DEF PollTimeout, ReadEof, ReadFrame
  <2>6. CASE PeerTakes(c)
    BY <2>6 DEF PeerTakes
  <2>7. CASE SendLocal(c) \/ CloseLocal(c) \/ PeerVanishes(c)
    BY <2>7 DEF SendLocal, CloseLocal, PeerVanishes
  <2>8. ASSUME NEW frame, PeerSays(c, frame)
        PROVE  tunnel'[c] \in {"connecting", "drain", "read"} => c \in Live
    BY <2>8 DEF PeerSays
  <2>. QED
    BY <2>1, <2>2, <2>3, <2>4, <2>5, <2>6, <2>7, <2>8 DEF TunStep, PumpStep, Outside
<1>. QED BY <1>4, <1>5, <1>6

TunInv ==
  /\ TunTypeOK /\ Cardinality(Live) <= MaxLive
  /\ \A c \in Conns : UpInv(c) /\ DownInv(c)

LEMMA TunStart ==
  ASSUME TunnelConstants, TunnelInit
  PROVE  TunInv
<1>. USE DEF TunnelInit, Each
<1>1. TunTypeOK
  BY DEF TunTypeOK, TunnelConstants
<1>2. Cardinality(Live) <= MaxLive
  <2>1. Live = {}
    BY DEF Live
  <2>. QED BY <2>1, FS_EmptySet DEF TunnelConstants
<1>3. ASSUME NEW c \in Conns PROVE UpInv(c) /\ DownInv(c)
  <2>1. /\ tunnel[c] = "none" /\ sent[c] = 0 /\ local[c] = <<>> /\ reading[c] = FALSE
        /\ channel[c] = <<>> /\ inputOpen[c] = TRUE /\ up[c] = <<>> /\ down[c] = <<>>
        /\ got[c] = <<>> /\ replied[c] = <<>> /\ delivered[c] = <<>> /\ peer[c] = "open"
    OBVIOUS
  <2>2. ~Pumping(c)
    BY <2>1 DEF Pumping
  <2>3. Chain(c, 0)
    BY <2>1 DEF Chain, Linked
  <2>4. SentUpTo(c, 0)
    <3>1. Carries(<<>>, {})
      BY DEF Carries
    <3>2. Len(got[c]) + 1 .. 0 = {}
      BY <2>1
    <3>. QED BY <2>1, <2>3, <3>1, <3>2 DEF SentUpTo
  <2>5. UpInv(c)
    BY <2>1, <2>2, <2>4 DEF UpInv
  <2>6. Owed(c) = {}
    BY <2>1 DEF Owed
  <2>7. Carries(down[c], Owed(c))
    BY <2>1, <2>6 DEF Carries
  <2>8. DownInv(c)
    BY <2>1, <2>7 DEF DownInv
  <2>. QED BY <2>5, <2>8
<1>. QED BY <1>1, <1>2, <1>3 DEF TunInv

LEMMA TunSteps ==
  ASSUME TunnelConstants, TunInv, [TunnelNext]_tunnelVars
  PROVE  TunInv'
<1>1. CASE TunnelNext
  <2>1. PICK c \in Conns : TunStep(c)
    BY <1>1 DEF TunnelNext, TunStep
  <2>2. TunTypeOK' /\ RestStays(c)
    BY <2>1, TunTypes DEF TunInv
  <2>3. Cardinality(Live)' <= MaxLive
    BY <2>1, LiveBounded DEF TunInv
  <2>4. UpInv(c)' /\ DownInv(c)'
    BY <2>1, UpStep, DownStep DEF TunInv
  <2>5. ASSUME NEW d \in Conns, d # c PROVE UpInv(d)' /\ DownInv(d)'
    BY <2>2, <2>5, RestKeeps DEF TunInv
  <2>. QED BY <2>2, <2>3, <2>4, <2>5 DEF TunInv
<1>2. CASE UNCHANGED tunnelVars
  <2>1. UNCHANGED <<tunnel, sent, eof, local, reading, channel, inputOpen, up, down, peer, got, replied,
                    delivered>>
    BY <1>2 DEF tunnelVars, pumpVars, localVars, wireVars, peerVars
  <2>2. TunTypeOK' /\ Cardinality(Live)' <= MaxLive
    BY <2>1 DEF TunInv, TunTypeOK, Live
  <2>3. ASSUME NEW c \in Conns PROVE UpInv(c)' /\ DownInv(c)'
    <3>1. UpInv(c) /\ DownInv(c)
      BY DEF TunInv
    <3>2. UpStays(c) /\ DownStays(c)
      BY <2>1 DEF UpStays, DownStays, Working, Early, Pumping
    <3>. QED BY <3>1, <3>2, Stays
  <2>. QED BY <2>2, <2>3 DEF TunInv
<1>. QED BY <1>1, <1>2

LEMMA TunMeans ==
  ASSUME TunnelConstants, TunInv
  PROVE  LastReplyDelivered
<1>1. Cardinality(Live) <= MaxLive
  BY SameSize DEF TunInv
<1>2. ASSUME NEW c \in Conns
      PROVE  /\ \A k \in DOMAIN got[c] : got[c][k] = k
             /\ IsPrefix(delivered[c], replied[c])
             /\ ~inputOpen[c] /\ peer[c] = "closed" /\ Close \in Range(down[c]) =>
                  Len(got[c]) = sent[c]
             /\ tunnel[c] = "ok" /\ peer[c] # "gone" => delivered[c] = replied[c]
  <2>1. UpInv(c) /\ DownInv(c) /\ TunTypeOK
    BY DEF TunInv
  <2>2. /\ got[c] \in Seq(Nat) /\ down[c] \in Seq(Nat) /\ delivered[c] \in Seq(Nat)
        /\ replied[c] \in Seq(Nat)
    BY <2>1 DEF TunTypeOK
  <2>3. DOMAIN got[c] = 1 .. Len(got[c]) /\ DOMAIN down[c] = 1 .. Len(down[c])
    BY <2>2
  <2>4. \A k \in DOMAIN got[c] : got[c][k] = k
    BY <2>1, <2>3 DEF UpInv
  <2>5. IsPrefix(delivered[c], replied[c])
    <3>1. Len(delivered[c]) <= Len(replied[c])
          /\ \A i \in 1 .. Len(delivered[c]) : delivered[c][i] = replied[c][i]
      BY <2>1 DEF DownInv
    <3>. QED BY <2>2, <3>1, PrefixOf
  <2>6. Close \in Range(down[c]) => Len(got[c]) = sent[c]
    <3>1. SUFFICES ASSUME Close \in Range(down[c]) PROVE Len(got[c]) = sent[c]
      OBVIOUS
    <3>2. PICK i \in DOMAIN down[c] : down[c][i] = Close
      BY <3>1 DEF Range
    <3>. QED BY <2>1, <2>3, <3>2 DEF DownInv
  <2>7. tunnel[c] = "ok" /\ peer[c] # "gone" => delivered[c] = replied[c]
    BY <2>1 DEF DownInv
  <2>. QED BY <2>4, <2>5, <2>6, <2>7
<1>. QED BY <1>1, <1>2 DEF LastReplyDelivered

(* Whatever the far end and the two threads of each connection do, and in  *)
(* whatever order, chunks arrive in order at both ends, a half-close comes *)
(* after every chunk, a tunnel that ends well has delivered the last reply *)
(* of its session, and no more of them are open than the limit allows.     *)
THEOREM TunnelLosesNothing ==
  ASSUME TunnelConstants
  PROVE  TunnelSpec => []LastReplyDelivered
<1>1. TunnelInit => TunInv
  BY TunStart
<1>2. TunInv /\ [TunnelNext]_tunnelVars => TunInv'
  BY TunSteps
<1>3. TunInv => LastReplyDelivered
  BY TunMeans
<1>. QED BY <1>1, <1>2, <1>3, PTL DEF TunnelSpec

-----------------------------------------------------------------------------
(* The pages of a list. *)

(* A list has a page, which may be empty.                                  *)
PageConstants == PageLists \subseteq Seq(Nat) \ {<<>>} /\ Limits \subseteq Nat

(* What was printed and collected is what lies up to a place of the list:  *)
(* items of it, in order, and every one of them.                           *)
UpToHere(n, i, p, j) == n < p \/ (n = p /\ i <= j)
Below(list, s, p, j) ==
  /\ \A k \in 1 .. Len(s) :
       /\ s[k][1] \in 1 .. Len(list) /\ s[k][2] \in 1 .. list[s[k][1]]
       /\ UpToHere(s[k][1], s[k][2], p, j)
  /\ \A k, l \in 1 .. Len(s) : k < l => Precedes(s[k], s[l])
  /\ \A n \in 1 .. Len(list) : \A i \in 1 .. list[n] :
       UpToHere(n, i, p, j) => \E k \in 1 .. Len(s) : s[k] = <<n, i>>

ListPlace == Nat \X Nat

(* More of the page, from where it was left.                               *)
LEMMA MoreOfPage ==
  ASSUME NEW list \in Seq(Nat), NEW s \in Seq(ListPlace), NEW t \in Seq(ListPlace),
         NEW p \in 1 .. Len(list), NEW j \in Nat, NEW m \in Nat, j + m <= list[p],
         Len(t) = m, \A k \in 1 .. m : t[k] = <<p, j + k>>,
         Below(list, s, p, j)
  PROVE  Below(list, s \o t, p, j + m)
<1>1. PICK n \in Nat : n = Len(s)
  OBVIOUS
<1>2. /\ Len(s \o t) = n + m
      /\ \A k \in 1 .. n : (s \o t)[k] = s[k]
      /\ \A k \in 1 .. m : (s \o t)[n + k] = <<p, j + k>>
  <2>1. /\ Len(s \o t) = n + m
        /\ \A k \in 1 .. n + m : (s \o t)[k] = IF k <= n THEN s[k] ELSE t[k - n]
    BY <1>1, ConcatProperties
  <2>2. ASSUME NEW k \in 1 .. m PROVE (s \o t)[n + k] = <<p, j + k>>
    <3>1. n + k \in 1 .. n + m /\ ~(n + k <= n) /\ (n + k) - n = k
      BY <1>1, <2>2
    <3>. QED BY <2>1, <2>2, <3>1
  <2>3. ASSUME NEW k \in 1 .. n PROVE (s \o t)[k] = s[k]
    <3>1. k \in 1 .. n + m /\ k <= n
      BY <2>3
    <3>. QED BY <2>1, <3>1
  <2>. QED BY <2>1, <2>2, <2>3
<1>3. list[p] \in Nat /\ p \in Nat
  OBVIOUS
<1>4. ASSUME NEW k \in 1 .. n + m, k \notin 1 .. n
      PROVE  \E h \in 1 .. m : k = n + h
  <2>1. k - n \in 1 .. m /\ k = n + (k - n)
    BY <1>1, <1>4
  <2>. QED BY <2>1
<1>. DEFINE At(x) == /\ x[1] \in 1 .. Len(list) /\ x[2] \in 1 .. list[x[1]]
                     /\ UpToHere(x[1], x[2], p, j + m)
<1>5. ASSUME NEW k \in 1 .. n + m
      PROVE  At((s \o t)[k])
  <2>1. CASE k \in 1 .. n
    <3>1. /\ s[k][1] \in 1 .. Len(list) /\ s[k][2] \in 1 .. list[s[k][1]]
          /\ UpToHere(s[k][1], s[k][2], p, j)
      BY <1>1, <2>1 DEF Below
    <3>2. s[k][2] \in Nat
      <4>1. s[k] \in ListPlace
        BY <1>1, <2>1
      <4>. QED BY <4>1 DEF ListPlace
    <3>3. s[k][2] <= j => s[k][2] <= j + m
      BY <3>2
    <3>4. At(s[k])
      BY <3>1, <3>3 DEF UpToHere
    <3>. QED BY <1>2, <2>1, <3>4
  <2>2. CASE k \notin 1 .. n
    <3>1. PICK h \in 1 .. m : k = n + h
      BY <1>4, <2>2
    <3>2. (s \o t)[k] = <<p, j + h>>
      BY <1>2, <3>1
    <3>3. j + h \in 1 .. list[p] /\ j + h <= j + m
      BY <1>3, <3>1
    <3>4. UpToHere(p, j + h, p, j + m)
      BY <3>3 DEF UpToHere
    <3>5. <<p, j + h>>[1] = p /\ <<p, j + h>>[2] = j + h
      OBVIOUS
    <3>6. At(<<p, j + h>>)
      BY <3>3, <3>4, <3>5
    <3>. QED BY <3>2, <3>6
  <2>. QED BY <2>1, <2>2
<1>6. ASSUME NEW k \in 1 .. n + m, NEW l \in 1 .. n + m, k < l
      PROVE  Precedes((s \o t)[k], (s \o t)[l])
  <2>1. CASE l \in 1 .. n
    <3>1. k \in 1 .. n
      BY <1>1, <1>6, <2>1
    <3>2. Precedes(s[k], s[l])
      BY <1>1, <1>6, <2>1, <3>1 DEF Below
    <3>. QED BY <1>2, <2>1, <3>1, <3>2
  <2>2. CASE l \notin 1 .. n
    <3>1. PICK h \in 1 .. m : l = n + h
      BY <1>4, <2>2
    <3>2. (s \o t)[l] = <<p, j + h>>
      BY <1>2, <3>1
    <3>3. CASE k \in 1 .. n
      <4>1. /\ s[k][2] \in 1 .. list[s[k][1]] /\ s[k][1] \in 1 .. Len(list)
            /\ UpToHere(s[k][1], s[k][2], p, j)
        BY <1>1, <3>3 DEF Below
      <4>2. s[k][2] \in Nat /\ s[k][1] \in Nat
        <5>1. s[k] \in ListPlace
          BY <1>1, <3>3
        <5>. QED BY <5>1 DEF ListPlace
      <4>3. (s \o t)[k] = s[k]
        BY <1>2, <3>3
      <4>4. j < j + h
        BY <3>1
      <4>5. CASE s[k][1] < p
        BY <3>2, <4>3, <4>5 DEF Precedes
      <4>6. CASE s[k][1] = p /\ s[k][2] <= j
        <5>1. s[k][2] < j + h
          BY <4>2, <4>4, <4>6
        <5>. QED BY <3>2, <4>3, <4>6, <5>1 DEF Precedes
      <4>. QED BY <4>1, <4>5, <4>6 DEF UpToHere
    <3>4. CASE k \notin 1 .. n
      <4>1. PICK g \in 1 .. m : k = n + g
        BY <1>4, <3>4
      <4>2. (s \o t)[k] = <<p, j + g>>
        BY <1>2, <4>1
      <4>3. j + g < j + h
        BY <1>1, <1>6, <3>1, <4>1
      <4>. QED BY <3>2, <4>2, <4>3 DEF Precedes
    <3>. QED BY <3>3, <3>4
  <2>. QED BY <2>1, <2>2
<1>7. ASSUME NEW q \in 1 .. Len(list), NEW i \in 1 .. list[q], UpToHere(q, i, p, j + m)
      PROVE  \E k \in 1 .. n + m : (s \o t)[k] = <<q, i>>
  <2>1. CASE UpToHere(q, i, p, j)
    <3>1. PICK k \in 1 .. n : s[k] = <<q, i>>
      BY <1>1, <2>1 DEF Below
    <3>2. k \in 1 .. n + m
      BY <1>1
    <3>. QED BY <1>2, <3>1, <3>2
  <2>2. CASE ~UpToHere(q, i, p, j)
    <3>1. q = p /\ i \in Nat /\ j < i /\ i <= j + m
      BY <1>3, <1>7, <2>2 DEF UpToHere
    <3>2. i - j \in 1 .. m /\ j + (i - j) = i
      BY <3>1
    <3>3. n + (i - j) \in 1 .. n + m
      BY <1>1, <3>2
    <3>. QED BY <1>2, <3>1, <3>2, <3>3
  <2>. QED BY <2>1, <2>2
<1>8. \A k \in 1 .. Len(s \o t) : At((s \o t)[k])
  BY <1>2, <1>5
<1>9. \A k, l \in 1 .. Len(s \o t) : k < l => Precedes((s \o t)[k], (s \o t)[l])
  BY <1>2, <1>6
<1>10. \A q \in 1 .. Len(list) : \A i \in 1 .. list[q] :
         UpToHere(q, i, p, j + m) => \E k \in 1 .. Len(s \o t) : (s \o t)[k] = <<q, i>>
  BY <1>2, <1>7
<1>. QED BY <1>8, <1>9, <1>10 DEF Below

(* The end of a page is the beginning of the next.                         *)
LEMMA NextOfList ==
  ASSUME NEW list \in Seq(Nat), NEW s, NEW p \in 1 .. Len(list), p < Len(list),
         Below(list, s, p, list[p])
  PROVE  Below(list, s, p + 1, 0)
<1>1. ASSUME NEW n \in 1 .. Len(list), NEW i \in 1 .. list[n]
      PROVE  UpToHere(n, i, p, list[p]) <=> UpToHere(n, i, p + 1, 0)
  <2>1. list[p] \in Nat /\ list[n] \in Nat
    OBVIOUS
  <2>2. CASE n = p
    BY <2>1, <2>2 DEF UpToHere
  <2>3. CASE n # p
    BY <2>1, <2>3 DEF UpToHere
  <2>. QED BY <2>2, <2>3
<1>2. ASSUME NEW k \in 1 .. Len(s)
      PROVE  /\ s[k][1] \in 1 .. Len(list) /\ s[k][2] \in 1 .. list[s[k][1]]
             /\ UpToHere(s[k][1], s[k][2], p + 1, 0)
  <2>1. /\ s[k][1] \in 1 .. Len(list) /\ s[k][2] \in 1 .. list[s[k][1]]
        /\ UpToHere(s[k][1], s[k][2], p, list[p])
    BY <1>2 DEF Below
  <2>. QED BY <1>1, <2>1
<1>3. ASSUME NEW n \in 1 .. Len(list), NEW i \in 1 .. list[n], UpToHere(n, i, p + 1, 0)
      PROVE  \E k \in 1 .. Len(s) : s[k] = <<n, i>>
  BY <1>1, <1>3 DEF Below
<1>4. \A k, l \in 1 .. Len(s) : k < l => Precedes(s[k], s[l])
  BY DEF Below
<1>. QED BY <1>2, <1>3, <1>4 DEF Below

LEMMA JoinThree ==
  ASSUME NEW a \in Seq(ListPlace), NEW b \in Seq(ListPlace), NEW c \in Seq(ListPlace)
  PROVE  (a \o b) \o c = a \o (b \o c)
OBVIOUS

(* What the next page gives: nothing of it is left out before what is kept.*)
Skip == IF pagesSeen = 0 THEN token.skip ELSE 0
Collected == printed \o results

OnPage ==
  /\ request \in 1 .. Len(pages) /\ Skip \in Nat /\ Skip <= pages[request]
  /\ limit \in Nat /\ pagesSeen \in Nat /\ results \in Seq(ListPlace)
  /\ IF pagesSeen = 0 THEN request = token.page /\ current = 1 /\ results = <<>>
                      ELSE current = request
  /\ Below(pages, Collected, request, Skip)

(* While no run was cut inside the page it resumed from: the token of the  *)
(* next run is where what was printed ends, and a run is where what it     *)
(* collected ends.                                                         *)
PageInv ==
  ~rewound =>
    /\ pageAt \in {"idle", "page", "over"}
    /\ pages \in Seq(Nat) /\ Len(pages) > 0 /\ printed \in Seq(ListPlace)
    /\ pageAt # "over" =>
         /\ token.page \in 1 .. Len(pages) /\ token.skip \in Nat
         /\ token.skip <= pages[token.page]
         /\ Below(pages, printed, token.page, token.skip)
    /\ pageAt = "over" => Below(pages, printed, Len(pages), pages[Len(pages)])
    /\ pageAt = "page" => OnPage

LEMMA KeptIs ==
  ASSUME pages \in Seq(Nat), OnPage
  PROVE  \E m \in Nat :
           /\ Kept \in Seq(ListPlace) /\ Len(Kept) = m /\ Skip + m <= pages[request]
           /\ \A k \in 1 .. m : Kept[k] = <<request, Skip + k>>
           /\ Cut => m = Remaining
           /\ ~Cut => Skip + m = pages[request]
<1>. DEFINE j == Skip
            top == pages[request]
<1>1. j \in Nat /\ top \in Nat /\ j <= top /\ request \in Nat
  BY DEF OnPage
<1>2. PICK w \in Nat : j + w = top
  <2>1. top - j \in Nat /\ j + (top - j) = top
    BY <1>1
  <2>. QED BY <2>1
<1>3. \A i \in 1 .. top : Items(request)[i] = <<request, i>>
  BY DEF Items
<1>4. Fresh = SubSeq(Items(request), j + 1, top)
  BY DEF Fresh, Skip
<1>5. \A i \in j + 1 .. top : Items(request)[i] \in ListPlace
  <2>1. ASSUME NEW i \in j + 1 .. top PROVE i \in 1 .. top /\ i \in Nat
    BY <1>1
  <2>2. ASSUME NEW i \in j + 1 .. top PROVE Items(request)[i] \in ListPlace
    <3>1. Items(request)[i] = <<request, i>> /\ i \in Nat
      BY <1>3, <2>1
    <3>. QED BY <1>1, <3>1 DEF ListPlace
  <2>. QED BY <2>2
<1>6. Fresh \in Seq(ListPlace) /\ Len(Fresh) = w /\ \A k \in 1 .. w : Fresh[k] = <<request, j + k>>
  <2>1. j + 1 \in Int /\ top \in Int /\ top - (j + 1) + 1 = w
    BY <1>1, <1>2
  <2>2. /\ Fresh \in Seq(ListPlace)
        /\ Len(Fresh) = IF j + 1 <= top THEN top - (j + 1) + 1 ELSE 0
        /\ \A k \in 1 .. top - (j + 1) + 1 : Fresh[k] = Items(request)[j + 1 + k - 1]
    <3>. DEFINE f == Items(request)
    <3>1. \A i \in j + 1 .. top : f[i] \in ListPlace
      BY <1>5
    <3>. HIDE DEF f, j, top
    <3>2. /\ SubSeq(f, j + 1, top) \in Seq(ListPlace)
          /\ Len(SubSeq(f, j + 1, top)) = IF j + 1 <= top THEN top - (j + 1) + 1 ELSE 0
          /\ \A k \in 1 .. top - (j + 1) + 1 : SubSeq(f, j + 1, top)[k] = f[j + 1 + k - 1]
      BY <2>1, <3>1, SubSeqProperties
    <3>. QED BY <1>4, <3>2 DEF f
  <2>3. Len(Fresh) = w
    BY <1>1, <1>2, <2>1, <2>2
  <2>4. ASSUME NEW k \in 1 .. w PROVE Fresh[k] = <<request, j + k>>
    <3>1. j + 1 + k - 1 = j + k /\ j + k \in 1 .. top
      BY <1>1, <1>2, <2>4
    <3>. QED BY <1>3, <2>1, <2>2, <3>1
  <2>. QED BY <2>2, <2>3, <2>4
<1>7. Remaining \in Nat
  <2>1. Len(results) \in Nat /\ limit \in Nat
    BY DEF OnPage
  <2>. QED BY <2>1 DEF Remaining
<1>8. CASE Cut
  <2>1. Remaining < w /\ Kept = SubSeq(Fresh, 1, Remaining)
    BY <1>6, <1>7, <1>8 DEF Cut, Kept
  <2>2. /\ Kept \in Seq(ListPlace) /\ Len(Kept) = Remaining
        /\ \A k \in 1 .. Remaining : Kept[k] = Fresh[k]
    BY <1>6, <1>7, <2>1
  <2>3. j + Remaining <= top
    BY <1>1, <1>2, <1>7, <2>1
  <2>4. \A k \in 1 .. Remaining : k \in 1 .. w
    BY <1>7, <2>1
  <2>. QED BY <1>6, <1>7, <1>8, <2>2, <2>3, <2>4
<1>9. CASE ~Cut
  <2>1. Kept = Fresh
    BY <1>9 DEF Kept
  <2>2. /\ Kept \in Seq(ListPlace) /\ Len(Kept) = w /\ Skip + w <= pages[request]
        /\ \A k \in 1 .. w : Kept[k] = <<request, Skip + k>>
        /\ Skip + w = pages[request]
    BY <1>1, <1>2, <1>6, <2>1
  <2>. QED BY <1>9, <2>2
<1>. QED BY <1>8, <1>9

(* The page in hand is collected, up to the limit. *)
LEMMA PageCollected ==
  ASSUME pages \in Seq(Nat), printed \in Seq(ListPlace), OnPage
  PROVE  /\ Collected \o Kept \in Seq(ListPlace)
         /\ Collected \o Kept = printed \o (results \o Kept)
         /\ results \o Kept \in Seq(ListPlace)
         /\ Cut => /\ Below(pages, Collected \o Kept, request, Skip + Remaining)
                   /\ Skip + Remaining \in Nat /\ Skip + Remaining <= pages[request]
         /\ ~Cut => Below(pages, Collected \o Kept, request, pages[request])
<1>1. PICK m \in Nat :
           /\ Kept \in Seq(ListPlace) /\ Len(Kept) = m /\ Skip + m <= pages[request]
           /\ \A k \in 1 .. m : Kept[k] = <<request, Skip + k>>
           /\ Cut => m = Remaining
           /\ ~Cut => Skip + m = pages[request]
  BY KeptIs
<1>2. /\ results \in Seq(ListPlace) /\ Collected \in Seq(ListPlace)
      /\ Skip \in Nat /\ request \in 1 .. Len(pages)
      /\ Below(pages, Collected, request, Skip)
  BY DEF OnPage, Collected
<1>3. Collected \o Kept \in Seq(ListPlace) /\ results \o Kept \in Seq(ListPlace)
  BY <1>1, <1>2
<1>4. Collected \o Kept = printed \o (results \o Kept)
  BY <1>1, <1>2, JoinThree DEF Collected
<1>5. Below(pages, Collected \o Kept, request, Skip + m)
  BY <1>1, <1>2, MoreOfPage
<1>6. Skip + m \in Nat
  BY <1>1, <1>2
<1>. QED BY <1>1, <1>3, <1>4, <1>5, <1>6

LEMMA PageStep ==
  ASSUME PageConstants, PageInv, PageNext
  PROVE  PageInv'
<1>. SUFFICES ASSUME ~rewound' PROVE PageInv'
  BY DEF PageInv
<1>1. ~rewound
  BY DEF PageNext, Begin, Loop, CutPage, LastPage, MorePages, FailPage
<1>2. /\ pageAt \in {"idle", "page", "over"}
      /\ pages \in Seq(Nat) /\ Len(pages) > 0 /\ printed \in Seq(ListPlace)
      /\ pageAt # "over" =>
           /\ token.page \in 1 .. Len(pages) /\ token.skip \in Nat
           /\ token.skip <= pages[token.page]
           /\ Below(pages, printed, token.page, token.skip)
      /\ pageAt = "page" => OnPage
  BY <1>1 DEF PageInv
<1>3. pages' = pages
  BY DEF PageNext, Begin, Loop, CutPage, LastPage, MorePages, FailPage, Page, FinishRun
<1>4. ASSUME Begin PROVE PageInv'
  <2>1. /\ pageAt' = "page" /\ printed' = printed /\ token' = token /\ results' = <<>>
        /\ pagesSeen' = 0 /\ current' = 1 /\ request' = token.page /\ limit' \in Nat
        /\ pageAt = "idle"
    BY <1>4 DEF Begin, PageConstants
  <2>2. Skip' = token.skip
    BY <2>1 DEF Skip
  <2>3. Collected' = printed
    BY <1>2, <2>1 DEF Collected
  <2>4. results' \in Seq(ListPlace)
    BY <2>1
  <2>5. OnPage'
    BY <1>2, <1>3, <2>1, <2>2, <2>3, <2>4 DEF OnPage
  <2>. QED BY <1>2, <1>3, <2>1, <2>5 DEF PageInv
<1>5. CASE pageAt = "page"
  <2>1. OnPage /\ request \in 1 .. Len(pages)
    BY <1>2, <1>5 DEF OnPage
  <2>2. /\ Collected \o Kept \in Seq(ListPlace)
        /\ Collected \o Kept = printed \o (results \o Kept)
        /\ results \o Kept \in Seq(ListPlace)
        /\ Cut => /\ Below(pages, Collected \o Kept, request, Skip + Remaining)
                  /\ Skip + Remaining \in Nat /\ Skip + Remaining <= pages[request]
        /\ ~Cut => Below(pages, Collected \o Kept, request, pages[request])
    BY <1>2, <2>1, PageCollected
  <2>3. PICK n \in Nat : n = Len(pages)
    BY <1>2
  <2>4. request < n => /\ request + 1 \in 1 .. n /\ pages[request + 1] \in Nat
                       /\ (~Cut => Below(pages, Collected \o Kept, request + 1, 0))
    <3>1. ASSUME request < n PROVE request + 1 \in 1 .. n
      BY <2>1, <2>3, <3>1
    <3>2. ASSUME request < n PROVE pages[request + 1] \in Nat
      BY <1>2, <2>3, <3>1, <3>2
    <3>3. ASSUME request < n, ~Cut PROVE Below(pages, Collected \o Kept, request + 1, 0)
      BY <1>2, <2>1, <2>2, <2>3, <3>3, NextOfList
    <3>. QED BY <3>1, <3>2, <3>3
  <2>5. NextPage = IF request < n THEN [page |-> request + 1, skip |-> 0] ELSE NoToken
    BY <2>3 DEF NextPage
  <2>6. CASE CutPage
    <3>1. current = request /\ Offset = Skip + Remaining
      <4>1. Offset = Remaining + Skip /\ Skip \in Nat
        BY <2>1 DEF Offset, Skip, OnPage
      <4>2. Remaining \in Nat
        BY <2>1 DEF OnPage, Remaining
      <4>3. pagesSeen = 0 => request = 1
        BY <2>6 DEF CutPage
      <4>. QED BY <2>1, <4>1, <4>2, <4>3 DEF OnPage
    <3>2. /\ token' = [page |-> request, skip |-> Skip + Remaining]
          /\ printed' = Collected \o Kept /\ Cut
          /\ pageAt' = IF token' = NoToken THEN "over" ELSE "idle"
      BY <2>6, <3>1 DEF CutPage, FinishRun, Collected
    <3>3. token' # NoToken
      <4>1. request # 0
        BY <2>1
      <4>. QED BY <3>2, <4>1 DEF NoToken
    <3>. QED BY <1>2, <1>3, <2>1, <2>2, <3>2, <3>3 DEF PageInv
  <2>7. CASE LastPage
    <3>1. /\ token' = NextPage /\ printed' = Collected \o Kept /\ ~Cut
          /\ pageAt' = IF NextPage = NoToken THEN "over" ELSE "idle"
      BY <2>7 DEF LastPage, FinishRun, Collected
    <3>2. CASE request < n
      <4>1. NextPage # NoToken
        <5>1. request + 1 # 0
          BY <2>1
        <5>. QED BY <2>5, <3>2, <5>1 DEF NoToken
      <4>2. token'.page = request + 1 /\ token'.skip = 0
        BY <2>5, <3>1, <3>2
      <4>. QED BY <1>2, <1>3, <2>2, <2>3, <2>4, <3>1, <3>2, <4>1, <4>2 DEF PageInv
    <3>3. CASE ~(request < n)
      <4>1. request = Len(pages)
        BY <2>1, <2>3, <3>3
      <4>2. pageAt' = "over"
        BY <2>5, <3>1, <3>3
      <4>. QED BY <1>2, <1>3, <2>2, <3>1, <4>1, <4>2 DEF PageInv
    <3>. QED BY <3>2, <3>3
  <2>8. CASE MorePages
    <3>1. /\ results' = results \o Kept /\ pagesSeen' = pagesSeen + 1 /\ ~Cut /\ NextPage # NoToken
          /\ request' = NextPage.page /\ current' = NextPage.page
          /\ UNCHANGED <<pageAt, token, limit, printed>>
      BY <2>8 DEF MorePages, Page
    <3>2. request < n /\ request' = request + 1 /\ current' = request + 1
      BY <2>5, <3>1
    <3>3. pagesSeen' \in Nat /\ pagesSeen' # 0
      BY <2>1, <3>1 DEF OnPage
    <3>4. Skip' = 0
      BY <3>3 DEF Skip
    <3>5. Collected' = Collected \o Kept
      BY <2>2, <3>1 DEF Collected
    <3>6. limit' \in Nat
      BY <2>1, <3>1 DEF OnPage
    <3>7. OnPage'
      BY <1>3, <2>2, <2>3, <2>4, <3>1, <3>2, <3>3, <3>4, <3>5, <3>6 DEF OnPage
    <3>. QED BY <1>2, <1>3, <1>5, <3>1, <3>7 DEF PageInv
  <2>9. CASE FailPage
    BY <1>2, <1>3, <1>5, <2>9 DEF FailPage, PageInv
  <2>. QED
    BY <1>4, <2>6, <2>7, <2>8, <2>9 DEF PageNext, Loop
<1>. QED BY <1>4, <1>5 DEF PageNext, Loop, CutPage, LastPage, MorePages, FailPage, Page

(* What lies up to a place of the list is a beginning of it. *)
LEMMA PageMeans ==
  ASSUME PageInv
  PROVE  ResumeExact
<1>. SUFFICES ASSUME ~rewound PROVE Exact
  BY DEF ResumeExact
<1>1. /\ pageAt \in {"idle", "page", "over"}
      /\ pages \in Seq(Nat) /\ Len(pages) > 0 /\ printed \in Seq(ListPlace)
  BY DEF PageInv
<1>2. PICK p \in Nat, j \in Nat : /\ Below(pages, printed, p, j)
                                  /\ pageAt = "over" => p = Len(pages) /\ j = pages[p]
  <2>1. CASE pageAt # "over"
    <3>1. /\ token.page \in 1 .. Len(pages) /\ token.skip \in Nat
          /\ Below(pages, printed, token.page, token.skip)
      BY <2>1 DEF PageInv
    <3>. QED BY <2>1, <3>1
  <2>2. CASE pageAt = "over"
    <3>1. Below(pages, printed, Len(pages), pages[Len(pages)])
      BY <2>2 DEF PageInv
    <3>2. Len(pages) \in Nat /\ pages[Len(pages)] \in Nat
      BY <1>1
    <3>. QED BY <2>2, <3>1, <3>2
  <2>. QED BY <2>1, <2>2
<1>3. ASSUME NEW k \in 1 .. Len(printed) PROVE IsItem(printed[k][1], printed[k][2])
  BY <1>2 DEF Below, IsItem
<1>4. \A k, l \in 1 .. Len(printed) : k < l => Precedes(printed[k], printed[l])
  BY <1>2 DEF Below
<1>5. ASSUME NEW n \in 1 .. Len(pages), NEW i \in 1 .. pages[n],
             pageAt = "over" \/ \E k \in 1 .. Len(printed) : Precedes(<<n, i>>, printed[k])
      PROVE  Printed(n, i)
  <2>1. n \in Nat /\ i \in Nat /\ pages[n] \in Nat
    BY <1>1
  <2>2. UpToHere(n, i, p, j)
    <3>1. CASE pageAt = "over"
      <4>1. p = Len(pages) /\ j = pages[p]
        BY <1>2, <3>1
      <4>2. n < p \/ n = p
        BY <1>1, <4>1
      <4>3. n = p => i <= j
        BY <4>1
      <4>. QED BY <4>2, <4>3 DEF UpToHere
    <3>2. CASE \E k \in 1 .. Len(printed) : Precedes(<<n, i>>, printed[k])
      <4>1. PICK k \in 1 .. Len(printed) : Precedes(<<n, i>>, printed[k])
        BY <3>2
      <4>2. UpToHere(printed[k][1], printed[k][2], p, j)
        BY <1>2 DEF Below
      <4>3. PICK a \in Nat, b \in Nat : printed[k] = <<a, b>>
        <5>1. printed[k] \in ListPlace
          BY <1>1
        <5>. QED BY <5>1 DEF ListPlace
      <4>4. n < a \/ (n = a /\ i < b)
        BY <4>1, <4>3 DEF Precedes
      <4>5. a < p \/ (a = p /\ b <= j)
        BY <4>2, <4>3 DEF UpToHere
      <4>. QED BY <2>1, <1>2, <4>4, <4>5 DEF UpToHere
    <3>. QED BY <1>5, <3>1, <3>2
  <2>. QED BY <1>2, <2>2 DEF Below, Printed
<1>. QED BY <1>3, <1>4, <1>5 DEF Exact

(* The runs of a chain print the list once, in order and without a gap,    *)
(* wherever their limits cut it and whichever calls fail (`run` of         *)
(* paginate.rs): for any list, limits and number of runs, so long as no    *)
(* run is cut inside the page it resumed from, the first page excepted.    *)
THEOREM ListIsResumed ==
  ASSUME PageConstants
  PROVE  PageSpec => []ResumeExact
<1>1. PageInit => PageInv
  <2>. SUFFICES ASSUME PageInit PROVE PageInv
    OBVIOUS
  <2>1. pages \in Seq(Nat) /\ pages # <<>> /\ printed = <<>> /\ pageAt = "idle"
        /\ token.page = 1 /\ token.skip = 0
    BY DEF PageInit, PageConstants
  <2>2. Len(pages) \in Nat /\ Len(pages) > 0 /\ 1 \in 1 .. Len(pages) /\ 0 <= pages[1]
    BY <2>1
  <2>3. printed \in Seq(ListPlace) /\ Len(printed) = 0
    BY <2>1
  <2>4. ASSUME NEW n \in 1 .. Len(pages), NEW i \in 1 .. pages[n] PROVE ~UpToHere(n, i, 1, 0)
    BY <2>1 DEF UpToHere
  <2>5. Below(pages, printed, 1, 0)
    BY <2>3, <2>4 DEF Below
  <2>. QED BY <2>1, <2>2, <2>3, <2>5 DEF PageInv
<1>2. PageInv /\ [PageNext]_pageVars => PageInv'
  <2>. SUFFICES ASSUME PageInv, [PageNext]_pageVars PROVE PageInv'
    OBVIOUS
  <2>1. CASE UNCHANGED pageVars
    BY <2>1 DEF pageVars, PageInv, OnPage, Skip, Collected
  <2>. QED BY <2>1, PageStep
<1>3. PageInv => ResumeExact
  BY PageMeans
<1>. QED BY <1>1, <1>2, <1>3, PTL DEF PageSpec

-----------------------------------------------------------------------------
(* The sequence has its entries in ascending order.                        *)
Rising(q) == \A i, j \in DOMAIN q : i < j => q[i] < q[j]

(* A finite set of numbers that is not empty has a greatest.               *)
LEMMA GreatestIsThere ==
  ASSUME NEW s, s \subseteq Nat, IsFiniteSet(s), s # {}
  PROVE  Max(s) \in s /\ \A y \in s : y <= Max(s)
<1> DEFINE R == {p \in Nat \X Nat : p[1] > p[2]}
<1>1. \A x, y \in s : <<x, y>> \in R <=> x > y
  OBVIOUS
<1>2. /\ \A x \in s : <<x, x>> \notin R
      /\ \A x, y, z \in s : <<x, y>> \in R /\ <<y, z>> \in R => <<x, z>> \in R
  BY <1>1
<1> HIDE DEF R
<1>3. \E x \in s : \A y \in s : <<y, x>> \notin R
  BY <1>2, ExtremeIsThere
<1>4. \E x \in s : \A y \in s : x >= y
  <2>1. PICK x \in s : \A y \in s : <<y, x>> \notin R
    BY <1>3
  <2>2. \A y \in s : x \in Nat /\ y \in Nat /\ ~ (y > x)
    BY <1>1, <2>1
  <2>3. \A y \in s : x >= y
    BY <2>2
  <2>4. QED
    BY <2>3
<1>. QED BY <1>4 DEF Max

(* The members of a finite set of numbers have as many smaller ones as     *)
(* their places in the ascending order say, each place taken once.         *)
LEMMA PlacesOfOrder ==
  ASSUME NEW s, s \subseteq Nat, IsFiniteSet(s)
  PROVE  /\ Cardinality(s) \in Nat
         /\ \A x \in s : Cardinality(Smaller(x, s)) \in 0 .. Cardinality(s) - 1
         /\ \A x, y \in s : x < y <=> Cardinality(Smaller(x, s)) < Cardinality(Smaller(y, s))
         /\ \A n \in 0 .. Cardinality(s) - 1 : \E x \in s : Cardinality(Smaller(x, s)) = n
<1> DEFINE Rank(x) == Cardinality(Smaller(x, s))
<1>1. Cardinality(s) \in Nat
  BY FS_CardinalityType
<1>2. \A x \in s : IsFiniteSet(Smaller(x, s)) /\ Rank(x) \in 0 .. Cardinality(s) - 1
  <2> TAKE x \in s
  <2>1. Smaller(x, s) \subseteq s /\ x \notin Smaller(x, s)
    BY DEF Smaller
  <2>2. /\ IsFiniteSet(Smaller(x, s))
        /\ Cardinality(Smaller(x, s)) <= Cardinality(s)
        /\ Cardinality(s) = Cardinality(Smaller(x, s)) => s = Smaller(x, s)
    BY <2>1, FS_Subset
  <2>3. s # Smaller(x, s)
    BY <2>1
  <2>4. Rank(x) \in Nat
    BY <2>2, FS_CardinalityType
  <2>5. QED
    BY <1>1, <2>2, <2>3, <2>4
<1>3. ASSUME NEW x \in s, NEW y \in s, x < y PROVE Rank(x) < Rank(y)
  <2>1. /\ Smaller(x, s) \subseteq Smaller(y, s)
        /\ x \in Smaller(y, s) /\ x \notin Smaller(x, s)
    <3>1. x \in Nat /\ y \in Nat /\ \A z \in s : z \in Nat
      OBVIOUS
    <3>2. ~ (x < x) /\ \A z \in s : z < x => z < y
      BY <1>3, <3>1
    <3>3. QED
      BY <1>3, <3>2 DEF Smaller
  <2>2. IsFiniteSet(Smaller(y, s))
    BY <1>2
  <2>3. /\ Cardinality(Smaller(x, s)) <= Cardinality(Smaller(y, s))
        /\ Cardinality(Smaller(y, s)) = Cardinality(Smaller(x, s))
             => Smaller(y, s) = Smaller(x, s)
    BY <2>1, <2>2, FS_Subset
  <2>4. Smaller(y, s) # Smaller(x, s)
    BY <2>1, Zenon
  <2>5. Rank(x) \in Nat /\ Rank(y) \in Nat
    BY <1>1, <1>2
  <2>6. QED
    BY <2>3, <2>4, <2>5
<1>4. \A x, y \in s : x < y <=> Rank(x) < Rank(y)
  <2> TAKE x, y \in s
  <2>1. Rank(x) \in Nat /\ Rank(y) \in Nat /\ x \in Nat /\ y \in Nat
    BY <1>1, <1>2
  <2>2. CASE x < y
    BY <1>3, <2>1, <2>2
  <2>3. CASE y < x
    BY <1>3, <2>1, <2>3
  <2>4. CASE x = y
    BY <2>1, <2>4
  <2>5. QED
    BY <2>1, <2>2, <2>3, <2>4
<1>5. ASSUME NEW n \in 0 .. Cardinality(s) - 1 PROVE \E x \in s : Rank(x) = n
  <2> DEFINE T == 0 .. Cardinality(s) - 1
             f == [x \in s |-> Rank(x)]
  <2>1. IsFiniteSet(T) /\ Cardinality(T) = Cardinality(s)
    <3>1. PICK c \in Nat : c = Cardinality(s)
      BY <1>1
    <3>2. 0 \in Int /\ c - 1 \in Int
      OBVIOUS
    <3>3. /\ IsFiniteSet(0 .. (c - 1))
          /\ Cardinality(0 .. (c - 1)) = IF 0 > c - 1 THEN 0 ELSE (c - 1) - 0 + 1
      BY <3>2, FS_Interval
    <3>4. QED
      BY <3>1, <3>3
  <2>2. f \in [s -> T]
    BY <1>2
  <2>3. \A x, y \in s : f[x] = f[y] => x = y
    <3> TAKE x, y \in s
    <3>1. Rank(x) \in Nat /\ Rank(y) \in Nat
      BY <1>1, <1>2
    <3>2. x \in Nat /\ y \in Nat /\ (x < y <=> Rank(x) < Rank(y)) /\ (y < x <=> Rank(y) < Rank(x))
      BY <1>4
    <3>3. f[x] = Rank(x) /\ f[y] = Rank(y)
      OBVIOUS
    <3>4. QED
      BY <3>1, <3>2, <3>3
  <2>4. f \in Injection(s, T)
    BY <2>2, <2>3 DEF Injection, IsInjective
  <2> HIDE DEF f, T
  <2>5. Cardinality(s) = Cardinality(T) <=> f \in Surjection(s, T)
    BY <2>1, <2>4, FS_Injection
  <2>6. f \in Surjection(s, T)
    BY <2>1, <2>5
  <2>7. \E x \in s : f[x] = n
    BY <2>6 DEF Surjection, T
  <2>8. QED
    BY <2>7 DEF f
<1>. QED BY <1>1, <1>2, <1>4, <1>5

(* The ascending sequence of a finite set of numbers is that: it has all   *)
(* of them, each once.                                                     *)
LEMMA SortedIs ==
  ASSUME NEW s, s \subseteq Nat, IsFiniteSet(s)
  PROVE  Sorted(s) \in Seq(Nat) /\ Range(Sorted(s)) = s /\ Rising(Sorted(s))
<1> DEFINE Rank(x) == Cardinality(Smaller(x, s))
           n == Cardinality(s)
           At(i) == CHOOSE x \in s : Rank(x) = i - 1
<1>1. n \in Nat /\ (\A x \in s : Rank(x) \in 0 .. n - 1)
  BY PlacesOfOrder
<1>2. \A x, y \in s : x < y <=> Rank(x) < Rank(y)
  BY PlacesOfOrder
<1>3. \A i \in 0 .. n - 1 : \E x \in s : Rank(x) = i
  BY PlacesOfOrder
<1>4. Sorted(s) = [i \in 1 .. n |-> At(i)]
  BY DEF Sorted
<1> HIDE DEF Rank, n
<1>5. \A i \in 1 .. n : At(i) \in s /\ Rank(At(i)) = i - 1
  <2> TAKE i \in 1 .. n
  <2>1. i - 1 \in 0 .. n - 1
    BY <1>1
  <2>2. \E x \in s : Rank(x) = i - 1
    BY <1>3, <2>1
  <2>3. QED
    BY <2>2
<1> HIDE DEF At
<1>6. DOMAIN Sorted(s) = 1 .. n /\ \A i \in 1 .. n : Sorted(s)[i] = At(i)
  BY <1>4
<1>7. Sorted(s) \in Seq(Nat)
  <2>1. \A i \in 1 .. n : At(i) \in Nat
    BY <1>5
  <2>2. QED
    BY <1>1, <1>4, <2>1
<1>8. Rising(Sorted(s))
  <2> SUFFICES ASSUME NEW i \in 1 .. n, NEW j \in 1 .. n, i < j
               PROVE  At(i) < At(j)
    BY <1>6 DEF Rising
  <2>1. At(i) \in s /\ At(j) \in s /\ Rank(At(i)) = i - 1 /\ Rank(At(j)) = j - 1
    BY <1>5
  <2>2. i - 1 < j - 1
    BY <1>1
  <2>3. QED
    BY <1>2, <2>1, <2>2
<1>9. ASSUME NEW x \in s PROVE x \in Range(Sorted(s))
  <2>1. PICK r \in 0 .. n - 1 : r = Rank(x)
    BY <1>1
  <2>2. r + 1 \in 1 .. n /\ (r + 1) - 1 = r
    BY <1>1
  <2>3. At(r + 1) \in s /\ Rank(At(r + 1)) = r
    BY <1>5, <2>2
  <2>4. At(r + 1) = x
    <3>1. ~ (Rank(At(r + 1)) < Rank(x)) /\ ~ (Rank(x) < Rank(At(r + 1)))
      BY <1>1, <2>1, <2>3
    <3>2. ~ (At(r + 1) < x) /\ ~ (x < At(r + 1))
      BY <1>2, <2>3, <3>1
    <3>3. At(r + 1) \in Nat /\ x \in Nat
      BY <2>3
    <3>4. QED
      BY <3>2, <3>3
  <2>5. QED
    BY <1>6, <2>2, <2>4 DEF Range
<1>10. \A x \in Range(Sorted(s)) : x \in s
  BY <1>5, <1>6 DEF Range
<1>. QED BY <1>7, <1>8, <1>9, <1>10

(* The first of a finite set of numbers come before the others, and there  *)
(* are some where the set has any.                                         *)
LEMMA FirstOnesAre ==
  ASSUME NEW s, s \subseteq Nat, IsFiniteSet(s), NEW n \in Nat \ {0}
  PROVE  /\ FirstOnes(s, n) \subseteq s
         /\ \A x \in FirstOnes(s, n), y \in s \ FirstOnes(s, n) : x < y
         /\ s # {} => FirstOnes(s, n) # {}
<1> DEFINE Rank(x) == Cardinality(Smaller(x, s))
<1>1. \A x \in s : Rank(x) \in Nat
  <2>1. /\ Cardinality(s) \in Nat
        /\ \A x \in s : Rank(x) \in 0 .. Cardinality(s) - 1
    BY PlacesOfOrder
  <2>2. QED
    BY <2>1
<1>2. \A x, y \in s : x < y <=> Rank(x) < Rank(y)
  BY PlacesOfOrder
<1>3. \A i \in 0 .. Cardinality(s) - 1 : \E x \in s : Rank(x) = i
  BY PlacesOfOrder
<1>4. FirstOnes(s, n) = {x \in s : Rank(x) < n}
  BY DEF FirstOnes
<1> HIDE DEF Rank
<1>5. \A x \in FirstOnes(s, n), y \in s \ FirstOnes(s, n) : x < y
  <2> TAKE x \in FirstOnes(s, n), y \in s \ FirstOnes(s, n)
  <2>1. x \in s /\ y \in s /\ Rank(x) < n /\ ~ (Rank(y) < n)
    BY <1>4
  <2>2. Rank(x) < Rank(y)
    BY <1>1, <2>1
  <2>3. QED
    BY <1>2, <2>1, <2>2
<1>6. ASSUME s # {} PROVE FirstOnes(s, n) # {}
  <2>1. Cardinality(s) \in Nat /\ Cardinality(s) # 0
    BY <1>6, FS_EmptySet, FS_CardinalityType
  <2>2. 0 \in 0 .. Cardinality(s) - 1
    BY <2>1
  <2>3. PICK x \in s : Rank(x) = 0
    BY <1>3, <2>2
  <2>4. QED
    BY <1>4, <2>3
<1>. QED BY <1>4, <1>5, <1>6

(* Ascending sequences of which one is before the other follow one another *)
(* in ascending order.                                                     *)
LEMMA RisingOn ==
  ASSUME NEW s \in Seq(Nat), NEW t \in Seq(Nat), Rising(s), Rising(t),
         \A x \in Range(s), y \in Range(t) : x < y
  PROVE  /\ s \o t \in Seq(Nat) /\ Rising(s \o t)
         /\ Range(s \o t) = Range(s) \cup Range(t)
<1>1. /\ s \o t \in Seq(Nat)
      /\ Len(s \o t) = Len(s) + Len(t)
      /\ \A i \in 1 .. Len(s) + Len(t) :
           (s \o t)[i] = IF i <= Len(s) THEN s[i] ELSE t[i - Len(s)]
  BY ConcatProperties
<1>2. PICK m \in Nat, n \in Nat : m = Len(s) /\ n = Len(t)
  OBVIOUS
<1>3. /\ DOMAIN s = 1 .. m /\ DOMAIN t = 1 .. n /\ DOMAIN (s \o t) = 1 .. m + n
      /\ \A i \in 1 .. m : (s \o t)[i] = s[i]
      /\ \A i \in 1 .. n : (s \o t)[m + i] = t[i]
  <2>1. DOMAIN s = 1 .. m /\ DOMAIN t = 1 .. n /\ DOMAIN (s \o t) = 1 .. m + n
    BY <1>1, <1>2
  <2>2. \A i \in 1 .. m + n : (s \o t)[i] = IF i <= m THEN s[i] ELSE t[i - m]
    BY <1>1, <1>2
  <2>3. ASSUME NEW i \in 1 .. m PROVE (s \o t)[i] = s[i]
    <3>1. i \in 1 .. m + n /\ i <= m
      OBVIOUS
    <3>2. QED
      BY <2>2, <3>1
  <2>4. ASSUME NEW i \in 1 .. n PROVE (s \o t)[m + i] = t[i]
    <3>1. m + i \in 1 .. m + n /\ ~ (m + i <= m) /\ (m + i) - m = i
      OBVIOUS
    <3>2. QED
      BY <2>2, <3>1
  <2>5. QED
    BY <2>1, <2>3, <2>4
<1>4. \A i \in 1 .. m + n : i \in 1 .. m \/ \E j \in 1 .. n : i = m + j
  <2> TAKE i \in 1 .. m + n
  <2>1. CASE i <= m
    BY <2>1
  <2>2. CASE ~ (i <= m)
    <3>1. i - m \in 1 .. n /\ i = m + (i - m)
      BY <2>2
    <3>2. QED
      BY <3>1
  <2>3. QED
    BY <2>1, <2>2
<1>5. Range(s \o t) = Range(s) \cup Range(t)
  <2>1. ASSUME NEW x \in Range(s \o t) PROVE x \in Range(s) \cup Range(t)
    BY <1>3, <1>4 DEF Range
  <2>2. ASSUME NEW x \in Range(s) PROVE x \in Range(s \o t)
    <3>1. PICK i \in 1 .. m : x = s[i]
      BY <1>3 DEF Range
    <3>2. i \in 1 .. m + n
      OBVIOUS
    <3>3. QED
      BY <1>3, <3>1, <3>2 DEF Range
  <2>3. ASSUME NEW x \in Range(t) PROVE x \in Range(s \o t)
    <3>1. PICK i \in 1 .. n : x = t[i]
      BY <1>3 DEF Range
    <3>2. m + i \in 1 .. m + n
      OBVIOUS
    <3>3. QED
      BY <1>3, <3>1, <3>2 DEF Range
  <2>4. QED
    BY <2>1, <2>2, <2>3
<1>6. ASSUME NEW i \in 1 .. m + n, NEW j \in 1 .. m + n, i < j
      PROVE  (s \o t)[i] < (s \o t)[j]
  <2>1. CASE i \in 1 .. m /\ j \in 1 .. m
    <3>1. s[i] < s[j]
      BY <1>3, <1>6, <2>1 DEF Rising
    <3>2. QED
      BY <1>3, <2>1, <3>1
  <2>2. ASSUME i \in 1 .. m, NEW b \in 1 .. n, j = m + b PROVE (s \o t)[i] < (s \o t)[j]
    <3>1. s[i] \in Range(s) /\ t[b] \in Range(t)
      BY <1>3, <2>2 DEF Range
    <3>2. (s \o t)[i] = s[i] /\ (s \o t)[j] = t[b]
      BY <1>3, <2>2
    <3>3. QED
      BY <3>1, <3>2
  <2>3. ASSUME NEW a \in 1 .. n, i = m + a, NEW b \in 1 .. n, j = m + b
        PROVE  (s \o t)[i] < (s \o t)[j]
    <3>1. a < b
      BY <1>6, <2>3
    <3>2. t[a] < t[b]
      BY <1>3, <3>1 DEF Rising
    <3>3. (s \o t)[i] = t[a] /\ (s \o t)[j] = t[b]
      BY <1>3, <2>3
    <3>4. QED
      BY <3>2, <3>3
  <2>4. ASSUME NEW a \in 1 .. n, i = m + a, j \in 1 .. m PROVE FALSE
    BY <1>6, <2>4
  <2>5. QED
    BY <1>4, <2>1, <2>2, <2>3, <2>4
<1>. QED BY <1>1, <1>3, <1>5, <1>6 DEF Rising

(* What is known of the keys and of the limits: no sub-prefix has the mark *)
(* of a walk that is not split, and the keys of a sub-prefix are not       *)
(* interrupted by those of another.                                        *)
ListConstants ==
  /\ Place \in Seq(Nat \ {All})
  /\ \A j, k \in Keys :
       Place[j] # Top /\ Place[k] # Top /\ Place[j] < Place[k] => j < k
  /\ Buckets \subseteq SUBSET Keys
  /\ ListPageSize \in Nat \ {0} /\ Workers \in Nat \ {0}

(* Keys are positive numbers, and there are finitely many of them and of   *)
(* their sub-prefixes.                                                     *)
LEMMA KeysAreFinite ==
  ASSUME ListConstants
  PROVE  /\ Keys \subseteq Nat \ {0} /\ IsFiniteSet(Keys)
         /\ \A k \in Keys : Place[k] \in Nat /\ Place[k] # All
         /\ IsFiniteSet({Place[k] : k \in Keys})
         /\ Shards \subseteq Nat /\ Top \notin Shards /\ All \notin Shards /\ All # Top
         /\ IsFiniteSet(Shards)
<1>1. PICK n \in Nat : n = Len(Place)
  BY DEF ListConstants
<1>2. Keys = 1 .. n
  BY <1>1 DEF ListConstants, Keys
<1>3. IsFiniteSet(Keys)
  <2>1. 1 \in Int /\ n \in Int
    OBVIOUS
  <2>2. IsFiniteSet(1 .. n)
    BY <2>1, FS_Interval
  <2>3. QED
    BY <1>2, <2>2
<1>4. Keys \subseteq Nat \ {0}
  BY <1>2
<1>5. \A k \in Keys : Place[k] \in Nat \ {All}
  BY <1>1, <1>2 DEF ListConstants
<1> DEFINE places == {Place[k] : k \in Keys}
           f == [k \in Keys |-> Place[k]]
<1>6. f \in Surjection(Keys, places)
  BY DEF Surjection
<1>7. IsFiniteSet(places)
  <2> HIDE DEF f, places
  <2>1. QED
    BY <1>3, <1>6, FS_Surjection
<1>8. Shards \subseteq places /\ Top \notin Shards /\ All \notin Shards
  BY <1>5 DEF Shards
<1>9. IsFiniteSet(Shards)
  BY <1>7, <1>8, FS_Subset
<1>10. Shards \subseteq Nat
  BY <1>5 DEF Shards
<1>. QED BY <1>3, <1>4, <1>5, <1>7, <1>8, <1>9, <1>10 DEF All, Top

(* The row of a listing with a delimiter that stands for a key: itself, or *)
(* the last key of its sub-prefix.  Rows of sub-prefixes are in the order  *)
(* of these.                                                               *)
LEMMA RowsOfKeys ==
  ASSUME ListConstants
  PROVE  /\ \A k \in Keys : /\ RowOf(k) \in Keys /\ Place[RowOf(k)] = Place[k]
                            /\ k <= RowOf(k)
                            /\ Place[k] = Top => RowOf(k) = k
                            /\ RowOf(RowOf(k)) = RowOf(k)
         /\ \A j, k \in Keys :
              Place[j] # Top /\ Place[k] # Top /\ RowOf(j) < RowOf(k)
                => Place[j] < Place[k]
<1>1. ASSUME NEW k \in Keys
      PROVE  /\ RowOf(k) \in Keys /\ Place[RowOf(k)] = Place[k]
             /\ k <= RowOf(k)
             /\ Place[k] = Top => RowOf(k) = k
  <2>1. CASE Place[k] = Top
    <3>1. k \in Nat
      BY KeysAreFinite
    <3>2. RowOf(k) = k
      BY <2>1 DEF RowOf
    <3>3. QED
      BY <3>1, <3>2
  <2>2. CASE Place[k] # Top
    <3> DEFINE own == {j \in Keys : Place[j] = Place[k]}
    <3>1. own \subseteq Nat /\ IsFiniteSet(own) /\ k \in own
      <4>1. own \subseteq Keys
        OBVIOUS
      <4>2. QED
        BY <4>1, KeysAreFinite, FS_Subset
    <3>2. RowOf(k) = Max(own)
      BY <2>2 DEF RowOf
    <3>3. Max(own) \in own /\ \A y \in own : y <= Max(own)
      <4> HIDE DEF own
      <4>1. QED
        BY <3>1, GreatestIsThere
    <3>4. QED
      BY <2>2, <3>1, <3>2, <3>3
  <2>3. QED
    BY <2>1, <2>2
<1>2. ASSUME NEW j \in Keys, NEW k \in Keys, Place[j] # Top, Place[k] # Top,
             RowOf(j) < RowOf(k)
      PROVE  Place[j] < Place[k]
  <2>1. /\ RowOf(j) \in Keys /\ Place[RowOf(j)] = Place[j]
        /\ RowOf(k) \in Keys /\ Place[RowOf(k)] = Place[k]
    BY <1>1
  <2>2. RowOf(j) \in Nat /\ RowOf(k) \in Nat /\ Place[j] \in Nat /\ Place[k] \in Nat
    BY <2>1, KeysAreFinite
  <2>3. ~ (Place[k] < Place[j])
    <3>1. Place[k] < Place[j] => RowOf(k) < RowOf(j)
      BY <1>2, <2>1 DEF ListConstants
    <3>2. QED
      BY <1>2, <2>2, <3>1
  <2>4. Place[j] # Place[k]
    <3>1. Place[j] = Place[k] => RowOf(j) = RowOf(k)
      BY <1>2 DEF RowOf
    <3>2. QED
      BY <1>2, <2>2, <3>1
  <2>5. QED
    BY <2>2, <2>3, <2>4
<1>3. ASSUME NEW k \in Keys PROVE RowOf(RowOf(k)) = RowOf(k)
  <2>1. Place[RowOf(k)] = Place[k]
    BY <1>1
  <2>2. CASE Place[k] = Top
    BY <1>1, <2>2
  <2>3. CASE Place[k] # Top
    BY <2>1, <2>3 DEF RowOf
  <2>4. QED
    BY <2>2, <2>3
<1>. QED BY <1>1, <1>2, <1>3

(* A page of the rows after a place, and the place it leads to: nothing    *)
(* between the two is left out.                                            *)
RowsFrom(rows, from) == {r \in rows : r > from}
PageFrom(rows, from, n) == FirstOnes(RowsFrom(rows, from), n)
PageTo(rows, from, n) == Max(PageFrom(rows, from, n) \cup {from})

LEMMA PageOfRows ==
  ASSUME NEW rows, rows \subseteq Nat, IsFiniteSet(rows),
         NEW from \in Nat, NEW n \in Nat \ {0}
  PROVE  /\ PageTo(rows, from, n) \in Nat /\ from <= PageTo(rows, from, n)
         /\ \A r \in PageFrom(rows, from, n) :
              r \in rows /\ from < r /\ r <= PageTo(rows, from, n)
         /\ \A r \in rows :
              r <= PageTo(rows, from, n) => r <= from \/ r \in PageFrom(rows, from, n)
         /\ PageFrom(rows, from, n) = {} =>
              PageTo(rows, from, n) = from /\ \A r \in rows : r <= from
         /\ PageFrom(rows, from, n) = RowsFrom(rows, from) =>
              \A r \in rows : r <= from \/ r \in PageFrom(rows, from, n)
<1> DEFINE rest == RowsFrom(rows, from)
           page == PageFrom(rows, from, n)
           to == PageTo(rows, from, n)
<1>0. rest = {r \in rows : r > from} /\ page = FirstOnes(rest, n) /\ to = Max(page \cup {from})
  BY DEF RowsFrom, PageFrom, PageTo
<1> HIDE DEF rest, page, to
<1>1. rest \subseteq rows /\ IsFiniteSet(rest)
  <2>1. rest \subseteq rows
    BY <1>0
  <2>2. QED
    BY <2>1, FS_Subset
<1>2. rest \subseteq Nat /\ \A r \in rows : r \in rest <=> from < r
  BY <1>0
<1>3. /\ page \subseteq rest
      /\ \A x \in page, y \in rest \ page : x < y
      /\ rest # {} => page # {}
  BY <1>0, <1>1, <1>2, FirstOnesAre
<1>4. IsFiniteSet(page)
  BY <1>1, <1>3, FS_Subset
<1>5. /\ page \cup {from} \subseteq Nat
      /\ IsFiniteSet(page \cup {from})
  BY <1>2, <1>3, <1>4, FS_AddElement
<1>6. to \in page \cup {from} /\ \A y \in page \cup {from} : y <= to
  BY <1>0, <1>5, GreatestIsThere
<1>7. to \in Nat /\ from <= to /\ \A r \in page : r <= to
  BY <1>5, <1>6
<1>8. page \subseteq rows /\ \A r \in page : from < r
  BY <1>1, <1>2, <1>3
<1>9. ASSUME NEW r \in rows, r <= to, r \notin page PROVE r <= from
  <2>1. r \in Nat
    OBVIOUS
  <2>2. SUFFICES ASSUME from < r PROVE FALSE
    BY <2>1
  <2>3. r \in rest \ page
    BY <1>2, <1>9, <2>2
  <2>4. to < r
    BY <1>3, <1>6, <2>2, <2>3
  <2>5. QED
    BY <1>7, <1>9, <2>1, <2>4
<1>10. ASSUME page = {} PROVE to = from /\ \A r \in rows : r <= from
  <2>1. to = from
    BY <1>6, <1>10
  <2>2. \A r \in rows : r \in Nat /\ ~ (from < r)
    BY <1>2, <1>3, <1>10
  <2>3. QED
    BY <2>1, <2>2
<1>11. ASSUME page = rest, NEW r \in rows PROVE r <= from \/ r \in page
  <2>1. r \in Nat
    OBVIOUS
  <2>2. QED
    BY <1>2, <1>11, <2>1
<1>. QED BY <1>7, <1>8, <1>9, <1>10, <1>11 DEF rest, page, to

(* A page of a walk is such a page, from the walk's cursor.                *)
LEMMA PageOfWalk ==
  ASSUME NEW rows, NEW walk
  PROVE  /\ PageAfter(rows, walk) = PageFrom(rows, cursor[walk], PageSize)
         /\ Max(PageAfter(rows, walk) \cup {cursor[walk]})
              = PageTo(rows, cursor[walk], PageSize)
         /\ IsLast(rows, walk, PageAfter(rows, walk)) <=>
              PageFrom(rows, cursor[walk], PageSize) = RowsFrom(rows, cursor[walk])
  BY DEF PageAfter, Remain, PageFrom, PageTo, RowsFrom, IsLast

SubsOf(ks) == {Place[k] : k \in ks} \ {Top}
OfShard(s, ks) == {k \in ks : s = All \/ Place[k] = s}
Split == listAt \in {"chunk", "whole"}

(* What the collections of a listing hold were keys at some moment.        *)
ListTypes ==
  /\ ever \subseteq Keys /\ bucket \subseteq ever /\ always \subseteq bucket
  /\ cursor \in [Shards \cup {Top, All} -> Nat]
  /\ found \in [Shards \cup {All} -> SUBSET ever]
  /\ direct \subseteq ever /\ listed \subseteq ever
  /\ \A d \in direct : Place[d] = Top
  /\ prefixes \subseteq SubsOf(ever)
  /\ walking \subseteq Shards \cup {All}
  /\ emitted \in Seq(Nat) /\ Range(emitted) \subseteq ever
  /\ lsDirs \in Seq(Nat) /\ Range(lsDirs) \subseteq {Place[k] : k \in ever}
  /\ listAt \in {"begin", "refused", "buckets", "level", "shallow", "chunk",
                 "whole", "listed", "failed"}

(* What is shown is in order.                                              *)
InOrder == Rising(emitted) /\ Rising(lsDirs)

(* Nothing is collected before its time.                                   *)
NothingYet ==
  /\ listAt \in {"begin", "shallow", "whole"} => emitted = <<>> /\ lsDirs = <<>>
  /\ listAt \in {"begin", "shallow"} => listed = {} /\ ~listFailure
  /\ listAt = "begin" => cursor[Top] = 0 /\ direct = {} /\ prefixes = {}
  /\ ~Split => walking = {}
  /\ listAt = "whole" => walking \subseteq {All} /\ direct = {} /\ prefixes = {}
  /\ listAt = "chunk" => walking \subseteq Shards

(* A level is shown up to its cursor.                                      *)
LevelShown ==
  /\ listAt \in {"buckets", "level"} =>
       /\ \A e \in Range(emitted) : e <= cursor[Top]
       /\ \A p \in Range(lsDirs) :
            \E k \in Keys : Place[k] = p /\ p # Top /\ RowOf(k) <= cursor[Top]
       /\ cursor[Top] # 0 => ever # {}
  /\ listAt = "buckets" =>
       Path = "none" /\ \A k \in always : k <= cursor[Top] => k \in Range(emitted)
  /\ listAt = "level" =>
       \A k \in always : RowOf(k) <= cursor[Top]
                           => k \in Range(emitted) \/ Place[k] \in Range(lsDirs)
  /\ listAt = "shallow" =>
       \A k \in always : RowOf(k) <= cursor[Top]
                           => k \in direct \/ Place[k] \in prefixes
  /\ listAt = "listed" =>
       \A k \in always : k \in Range(emitted) \/ Place[k] \in Range(lsDirs)

(* A walk has found what is before its cursor, and of its shard only.      *)
WalksFind ==
  \A s \in Shards \cup {All} :
    /\ found[s] \subseteq OfShard(s, ever)
    /\ \A k \in OfShard(s, always) : k <= cursor[s] => k \in found[s]

(* A key that was there all along is where a walk, a chunk to come or the  *)
(* caller has it, unless a walk failed.                                    *)
NoneIsLost ==
  Split => \A k \in always :
             \/ listFailure \/ All \in walking \/ Place[k] \in prefixes \cup walking
             \/ k \in direct \cup listed \cup Range(emitted)

(* What the caller has is before all that is still to come, and the chunk  *)
(* in hand before the chunks to come.                                      *)
ChunksInOrder ==
  listAt = "chunk" =>
    /\ ever # {}
    /\ \A e \in Range(emitted) :
         /\ \A d \in direct \cup listed : e < d
         /\ \A k \in Keys : Place[k] \in prefixes \cup walking => e < k
    /\ \A p \in prefixes :
         /\ \A s \in walking : s < p
         /\ \A k \in listed : Place[k] # Top /\ Place[k] < p

(* Nothing was found where nothing was there all along, and something      *)
(* where there was something.                                              *)
LsAnswers ==
  /\ lsNothing => always = {}
  /\ listAt = "listed" /\ Path = "key" /\ ~lsNothing => ever # {}
  /\ listAt = "refused" => LsRefusal # 0

ListInv ==
  /\ ListTypes /\ InOrder /\ NothingYet /\ LevelShown
  /\ WalksFind /\ NoneIsLost /\ ChunksInOrder /\ LsAnswers

LEMMA SortedKeys ==
  ASSUME ListConstants, NEW s, s \subseteq Keys
  PROVE  /\ s \subseteq Nat /\ IsFiniteSet(s)
         /\ Sorted(s) \in Seq(Nat) /\ Range(Sorted(s)) = s /\ Rising(Sorted(s))
<1>1. s \subseteq Nat /\ IsFiniteSet(s)
  BY KeysAreFinite, FS_Subset
<1>. QED BY <1>1, SortedIs

LEMMA SortedSubs ==
  ASSUME ListConstants, NEW s, s \subseteq {Place[k] : k \in Keys}
  PROVE  /\ s \subseteq Nat /\ IsFiniteSet(s)
         /\ Sorted(s) \in Seq(Nat) /\ Range(Sorted(s)) = s /\ Rising(Sorted(s))
<1>1. {Place[k] : k \in Keys} \subseteq Nat
  BY KeysAreFinite
<1>2. s \subseteq Nat /\ IsFiniteSet(s)
  BY <1>1, KeysAreFinite, FS_Subset
<1>. QED BY <1>2, SortedIs

LEMMA EmptyShown == Range(<<>>) = {} /\ Rising(<<>>) /\ <<>> \in Seq(Nat)
  BY DEF Range, Rising

LEMMA PageSizeIs == ASSUME ListConstants PROVE PageSize \in Nat \ {0}
  BY DEF PageSize, NumberOf, ListConstants

(* The command line decides what a listing refuses and what it was given.  *)
LEMMA SameLine ==
  ASSUME lsLine' = lsLine
  PROVE  Path' = Path /\ LsRefusal' = LsRefusal
  BY DEF Path, LsRefusal, UsageCode, GeneralCode, Given, ValueOf, Numbers, Valued,
         Switches, Taken, IsWord, Token, Spoken

LEMMA ListStart == ASSUME ListConstants, ListInit PROVE ListInv
<1>1. ever \subseteq Keys /\ bucket \subseteq ever /\ always \subseteq bucket
  BY DEF ListInit, ListConstants
<1>2. ListTypes
  BY <1>1, EmptyShown DEF ListInit, ListTypes
<1>3. InOrder
  BY EmptyShown DEF ListInit, InOrder
<1>4. NothingYet
  BY DEF ListInit, NothingYet, Split
<1>5. listAt \in {"begin", "shallow"}
  BY DEF ListInit
<1>6. \A k \in always : RowOf(k) \in Nat \ {0} /\ k \in Nat \ {0}
  BY <1>1, KeysAreFinite, RowsOfKeys
<1>7. cursor = [s \in Shards \cup {Top, All} |-> 0] /\ found = [s \in Shards \cup {All} |-> {}]
  BY DEF ListInit
<1>8. LevelShown
  <2>1. cursor[Top] = 0
    BY <1>7
  <2>2. \A k \in always : ~ (RowOf(k) <= cursor[Top])
    BY <1>6, <2>1
  <2>3. QED
    BY <1>5, <2>2 DEF LevelShown
<1>9. WalksFind
  <2> SUFFICES ASSUME NEW s \in Shards \cup {All}
               PROVE  /\ found[s] \subseteq OfShard(s, ever)
                      /\ \A k \in OfShard(s, always) : k <= cursor[s] => k \in found[s]
    BY DEF WalksFind
  <2>1. cursor[s] = 0 /\ found[s] = {}
    BY <1>7
  <2>2. \A k \in OfShard(s, always) : ~ (k <= cursor[s])
    BY <1>6, <2>1 DEF OfShard
  <2>3. QED
    BY <2>1, <2>2
<1>10. NoneIsLost /\ ChunksInOrder
  BY <1>5 DEF NoneIsLost, ChunksInOrder, Split
<1>11. LsAnswers
  BY <1>5 DEF ListInit, LsAnswers
<1>. QED BY <1>2, <1>3, <1>4, <1>8, <1>9, <1>10, <1>11 DEF ListInv

LEMMA BeginKeeps == ASSUME ListConstants, ListInv, LsBegin PROVE ListInv'
<1>1. /\ listAt = "begin" /\ listAt' \in {"refused", "buckets", "shallow", "level"}
      /\ listAt' = "refused" <=> LsRefusal # 0
      /\ listAt' = "buckets" => Path = "none"
      /\ UNCHANGED <<lsLine, direct, prefixes, emitted, lsDirs, lsNothing, cursor, walking,
                     found, listed, listFailure, bucket, ever, always>>
  BY DEF LsBegin, shownVars, walkVars, bucketVars
<1>2. Path' = Path /\ LsRefusal' = LsRefusal
  BY <1>1, SameLine
<1>3. /\ emitted = <<>> /\ lsDirs = <<>> /\ listed = {} /\ ~listFailure /\ walking = {}
      /\ cursor[Top] = 0 /\ direct = {} /\ prefixes = {}
  BY <1>1 DEF ListInv, NothingYet, Split
<1>4. \A k \in always : ~ (RowOf(k) <= 0) /\ ~ (k <= 0)
  BY KeysAreFinite, RowsOfKeys DEF ListInv, ListTypes
<1>5. ListTypes'
  BY <1>1 DEF ListInv, ListTypes
<1>6. InOrder'
  BY <1>1 DEF ListInv, InOrder
<1>7. NothingYet'
  BY <1>1, <1>3 DEF NothingYet, Split
<1>8. LevelShown'
  BY <1>1, <1>2, <1>3, <1>4, EmptyShown DEF LevelShown
<1>9. WalksFind'
  BY <1>1 DEF ListInv, WalksFind, OfShard
<1>10. NoneIsLost' /\ ChunksInOrder'
  BY <1>1 DEF NoneIsLost, ChunksInOrder, Split
<1>11. LsAnswers'
  BY <1>1, <1>2 DEF ListInv, LsAnswers
<1>. QED BY <1>5, <1>6, <1>7, <1>8, <1>9, <1>10, <1>11 DEF ListInv

LEMMA FailKeeps == ASSUME ListConstants, ListInv, ShallowFails PROVE ListInv'
<1>1. /\ listAt \in {"shallow", "level", "buckets"} /\ listAt' = "failed"
      /\ UNCHANGED <<lsLine, direct, prefixes, emitted, lsDirs, lsNothing, cursor, walking,
                     found, listed, listFailure, bucket, ever, always>>
  BY DEF ShallowFails, shownVars, walkVars, bucketVars
<1>2. ListTypes' /\ InOrder' /\ WalksFind'
  BY <1>1 DEF ListInv, ListTypes, InOrder, WalksFind, OfShard
<1>3. NothingYet' /\ LevelShown' /\ NoneIsLost' /\ ChunksInOrder' /\ LsAnswers'
  BY <1>1 DEF ListInv, NothingYet, LevelShown, NoneIsLost, ChunksInOrder, LsAnswers, Split
<1>. QED BY <1>2, <1>3 DEF ListInv

LEMMA ChangeKeeps ==
  ASSUME ListConstants, ListInv, NEW k \in Keys, Change(k) PROVE ListInv'
<1>1. /\ UNCHANGED <<listAt, lsLine, direct, prefixes, emitted, lsDirs, lsNothing, cursor,
                     walking, found, listed, listFailure>>
      /\ bucket' \subseteq bucket \cup {k}
      /\ ever' = ever \cup bucket' /\ always' = always \cap bucket'
  BY DEF Change, topVars, shownVars, walkVars
<1>2. Path' = Path /\ LsRefusal' = LsRefusal
  BY <1>1, SameLine
<1>3. /\ ever \subseteq ever' /\ always' \subseteq always
      /\ ever' \subseteq Keys /\ bucket' \subseteq ever' /\ always' \subseteq bucket'
  BY <1>1 DEF ListInv, ListTypes
<1>4. ListTypes'
  <2>1. ListTypes
    BY DEF ListInv
  <2>2. found' \in [Shards \cup {All} -> SUBSET ever']
    <3>1. found \in [Shards \cup {All} -> SUBSET ever]
      BY <2>1 DEF ListTypes
    <3>2. QED
      BY <1>1, <1>3, <3>1
  <2>3. prefixes' \subseteq SubsOf(ever') /\ Range(lsDirs') \subseteq {Place[j] : j \in ever'}
    BY <1>1, <1>3, <2>1 DEF ListTypes, SubsOf
  <2>4. /\ direct' \subseteq ever' /\ listed' \subseteq ever' /\ Range(emitted') \subseteq ever'
        /\ \A d \in direct' : Place[d] = Top
    BY <1>1, <1>3, <2>1 DEF ListTypes
  <2>5. QED
    BY <1>1, <1>3, <2>1, <2>2, <2>3, <2>4 DEF ListTypes
<1>5. InOrder' /\ NothingYet'
  BY <1>1 DEF ListInv, InOrder, NothingYet, Split
<1>6. LevelShown'
  BY <1>1, <1>2, <1>3 DEF ListInv, LevelShown
<1>7. WalksFind'
  BY <1>1, <1>3 DEF ListInv, WalksFind, OfShard
<1>8. NoneIsLost' /\ ChunksInOrder' /\ LsAnswers'
  BY <1>1, <1>2, <1>3 DEF ListInv, NoneIsLost, ChunksInOrder, LsAnswers, Split
<1>. QED BY <1>4, <1>5, <1>6, <1>7, <1>8 DEF ListInv

LEMMA WalkFailKeeps ==
  ASSUME ListConstants, ListInv, NEW s \in Shards \cup {All}, WalkFails(s)
  PROVE  ListInv'
<1>1. /\ s \in walking /\ walking' = walking \ {s} /\ listFailure'
      /\ UNCHANGED <<listAt, lsLine, direct, prefixes, emitted, lsDirs, lsNothing, cursor,
                     found, listed, bucket, ever, always>>
  BY DEF WalkFails, topVars, shownVars, bucketVars
<1>2. Path' = Path /\ LsRefusal' = LsRefusal
  BY <1>1, SameLine
<1>3. Split
  BY <1>1 DEF ListInv, NothingYet
<1>4. ListTypes' /\ InOrder' /\ WalksFind'
  BY <1>1 DEF ListInv, ListTypes, InOrder, WalksFind, OfShard
<1>5. NothingYet' /\ NoneIsLost' /\ LevelShown' /\ LsAnswers'
  BY <1>1, <1>2, <1>3 DEF ListInv, NothingYet, NoneIsLost, LevelShown, LsAnswers, Split
<1>6. ChunksInOrder'
  BY <1>1 DEF ListInv, ChunksInOrder
<1>. QED BY <1>4, <1>5, <1>6 DEF ListInv

(* A page of a walk: what is between its two cursors it has found, and     *)
(* after its last page nothing of its shard is left.                       *)
LEMMA WalkPageFinds ==
  ASSUME ListConstants, ListInv, NEW s \in Shards \cup {All}, WalkPage(s)
  PROVE  /\ s \in walking /\ s # Top /\ Split
         /\ UNCHANGED <<listAt, lsLine, direct, prefixes, emitted, lsDirs, lsNothing,
                        listFailure, bucket, ever, always>>
         /\ \E page, to :
              /\ cursor' = [cursor EXCEPT ![s] = to]
              /\ found' = [found EXCEPT ![s] = @ \cup page]
              /\ to \in Nat /\ page \subseteq OfShard(s, bucket)
              /\ \A k \in OfShard(s, always) : k <= to => k \in found[s] \cup page
              /\ \/ UNCHANGED <<listed, walking>>
                 \/ /\ \A k \in OfShard(s, always) : k \in found[s] \cup page
                    /\ listed' = listed \cup found[s] \cup page
                    /\ walking' = walking \ {s}
<1> DEFINE rows == {k \in bucket : s = All \/ Place[k] = s}
           page == PageFrom(rows, cursor[s], PageSize)
           to == PageTo(rows, cursor[s], PageSize)
<1>1. ListTypes
  BY DEF ListInv
<1>2. /\ s \in walking /\ s # Top /\ Split
      /\ UNCHANGED <<listAt, lsLine, direct, prefixes, emitted, lsDirs, lsNothing,
                     listFailure, bucket, ever, always>>
  <2>1. s \in walking
    BY DEF WalkPage
  <2>2. Split
    BY <2>1 DEF ListInv, NothingYet
  <2>3. QED
    BY <2>1, <2>2, KeysAreFinite DEF WalkPage, topVars, shownVars, bucketVars
<1>3. /\ cursor' = [cursor EXCEPT ![s] = to]
      /\ found' = [found EXCEPT ![s] = @ \cup page]
      /\ \/ UNCHANGED <<listed, walking>>
         \/ /\ page = RowsFrom(rows, cursor[s])
            /\ listed' = listed \cup found'[s]
            /\ walking' = walking \ {s}
  BY PageOfWalk DEF WalkPage, Advance
<1>4. found'[s] = found[s] \cup page
  BY <1>1, <1>3 DEF ListTypes
<1>5. /\ rows \subseteq Keys /\ rows = OfShard(s, bucket) /\ cursor[s] \in Nat
      /\ OfShard(s, always) \subseteq rows
  BY <1>1 DEF ListTypes, OfShard
<1>6. rows \subseteq Nat /\ IsFiniteSet(rows)
  <2> HIDE DEF rows
  <2>1. QED
    BY <1>5, SortedKeys
<1>7. PageSize \in Nat \ {0}
  BY PageSizeIs
<1> HIDE DEF rows
<1>8. /\ to \in Nat /\ page \subseteq rows
      /\ \A r \in rows : r <= to => r <= cursor[s] \/ r \in page
      /\ page = RowsFrom(rows, cursor[s]) => \A r \in rows : r <= cursor[s] \/ r \in page
  BY <1>5, <1>6, <1>7, PageOfRows
<1> HIDE DEF page, to
<1>9. \A k \in OfShard(s, always) : k <= cursor[s] => k \in found[s]
  BY DEF ListInv, WalksFind
<1>10. \A k \in OfShard(s, always) : k <= to => k \in found[s] \cup page
  BY <1>5, <1>8, <1>9
<1>11. page = RowsFrom(rows, cursor[s]) => \A k \in OfShard(s, always) : k \in found[s] \cup page
  BY <1>5, <1>8, <1>9
<1>12. /\ cursor' = [cursor EXCEPT ![s] = to]
       /\ found' = [found EXCEPT ![s] = @ \cup page]
       /\ to \in Nat /\ page \subseteq OfShard(s, bucket)
       /\ \A k \in OfShard(s, always) : k <= to => k \in found[s] \cup page
       /\ \/ UNCHANGED <<listed, walking>>
          \/ /\ \A k \in OfShard(s, always) : k \in found[s] \cup page
             /\ listed' = listed \cup found[s] \cup page
             /\ walking' = walking \ {s}
  BY <1>3, <1>4, <1>5, <1>8, <1>10, <1>11
<1>. QED BY <1>2, <1>12

LEMMA WalkKeeps ==
  ASSUME ListConstants, ListInv, NEW s \in Shards \cup {All}, WalkPage(s)
  PROVE  ListInv'
<1>1. /\ s \in walking /\ s # Top /\ Split
      /\ UNCHANGED <<listAt, lsLine, direct, prefixes, emitted, lsDirs, lsNothing,
                     listFailure, bucket, ever, always>>
  BY WalkPageFinds
<1>2. PICK page, to :
        /\ cursor' = [cursor EXCEPT ![s] = to]
        /\ found' = [found EXCEPT ![s] = @ \cup page]
        /\ to \in Nat /\ page \subseteq OfShard(s, bucket)
        /\ \A k \in OfShard(s, always) : k <= to => k \in found[s] \cup page
        /\ \/ UNCHANGED <<listed, walking>>
           \/ /\ \A k \in OfShard(s, always) : k \in found[s] \cup page
              /\ listed' = listed \cup found[s] \cup page
              /\ walking' = walking \ {s}
  BY WalkPageFinds
<1>3. Path' = Path /\ LsRefusal' = LsRefusal
  BY <1>1, SameLine
<1>4. ListTypes /\ WalksFind /\ NothingYet /\ NoneIsLost /\ ChunksInOrder
  BY DEF ListInv
<1>5. found[s] \cup page \subseteq OfShard(s, ever)
  BY <1>2, <1>4 DEF ListTypes, WalksFind, OfShard
<1>6. ListTypes'
  <2>1. cursor' \in [Shards \cup {Top, All} -> Nat]
    BY <1>2, <1>4 DEF ListTypes
  <2>2. found' \in [Shards \cup {All} -> SUBSET ever]
    <3>1. found[s] \cup page \subseteq ever
      BY <1>5 DEF OfShard
    <3>2. QED
      BY <1>2, <1>4, <3>1 DEF ListTypes
  <2>3. listed' \subseteq ever /\ walking' \subseteq Shards \cup {All}
    BY <1>2, <1>4, <1>5 DEF ListTypes, OfShard
  <2>4. QED
    BY <1>1, <1>4, <2>1, <2>2, <2>3 DEF ListTypes
<1>7. InOrder'
  BY <1>1 DEF ListInv, InOrder
<1>8. listed' \subseteq listed \cup OfShard(s, ever) /\ walking' \subseteq walking
  BY <1>2, <1>5
<1>9. NothingYet'
  BY <1>1, <1>4, <1>8 DEF NothingYet, Split
<1>10. LevelShown' /\ LsAnswers'
  BY <1>1, <1>3 DEF ListInv, LevelShown, LsAnswers, Split
<1>11. WalksFind'
  <2> SUFFICES ASSUME NEW t \in Shards \cup {All}
               PROVE  /\ found'[t] \subseteq OfShard(t, ever)
                      /\ \A k \in OfShard(t, always) : k <= cursor'[t] => k \in found'[t]
    BY <1>1 DEF WalksFind, OfShard
  <2>1. CASE t = s
    <3>1. found'[t] = found[s] \cup page /\ cursor'[t] = to
      BY <1>2, <1>4, <2>1 DEF ListTypes
    <3>2. QED
      BY <1>2, <1>5, <2>1, <3>1
  <2>2. CASE t # s
    <3>1. found'[t] = found[t] /\ cursor'[t] = cursor[t]
      BY <1>2, <1>4, <2>2 DEF ListTypes
    <3>2. QED
      BY <1>4, <3>1 DEF WalksFind
  <2>3. QED
    BY <2>1, <2>2
<1>12. NoneIsLost'
  <2> SUFFICES ASSUME NEW k \in always
               PROVE  \/ listFailure \/ All \in walking' \/ Place[k] \in prefixes \cup walking'
                      \/ k \in direct \cup listed' \cup Range(emitted)
    BY <1>1 DEF NoneIsLost
  <2>1. \/ listFailure \/ All \in walking \/ Place[k] \in prefixes \cup walking
        \/ k \in direct \cup listed \cup Range(emitted)
    BY <1>1, <1>4 DEF NoneIsLost
  <2>2. CASE UNCHANGED <<listed, walking>>
    BY <2>1, <2>2
  <2>3. CASE /\ \A j \in OfShard(s, always) : j \in found[s] \cup page
             /\ listed' = listed \cup found[s] \cup page
             /\ walking' = walking \ {s}
    <3>1. CASE s = All \/ Place[k] = s
      <4>1. k \in OfShard(s, always)
        BY <3>1 DEF OfShard
      <4>2. QED
        BY <2>3, <4>1
    <3>2. CASE ~ (s = All \/ Place[k] = s)
      BY <2>1, <2>3, <3>2
    <3>3. QED
      BY <3>1, <3>2
  <2>4. QED
    BY <1>2, <2>2, <2>3
<1>13. ChunksInOrder'
  <2> SUFFICES ASSUME listAt = "chunk" PROVE ChunksInOrder'
    BY <1>1 DEF ChunksInOrder
  <2>1. s # All
    BY <1>1, <1>4, KeysAreFinite DEF NothingYet
  <2>2. \A k \in OfShard(s, ever) : k \in Keys /\ Place[k] = s
    BY <1>4, <2>1 DEF OfShard, ListTypes
  <2>3. \A k \in listed' : k \in listed \/ (k \in Keys /\ Place[k] = s)
    BY <1>8, <2>2
  <2>4. \A p \in prefixes : s < p
    BY <1>1, <1>4 DEF ChunksInOrder
  <2>5. \A e \in Range(emitted), k \in Keys : Place[k] = s => e < k
    BY <1>1, <1>4 DEF ChunksInOrder
  <2>6. QED
    BY <1>1, <1>4, <1>8, <2>3, <2>4, <2>5 DEF ChunksInOrder
<1>. QED BY <1>6, <1>7, <1>9, <1>10, <1>11, <1>12, <1>13 DEF ListInv

(* A page of a level, where a sub-prefix has one row.                      *)
LevelRows == {RowOf(k) : k \in bucket}
LevelNow(rows) == PageFrom(rows, cursor[Top], PageSize)
LevelTo(rows) == PageTo(rows, cursor[Top], PageSize)

LEMMA PageOfLevel ==
  ASSUME ListConstants, ListInv
  PROVE  /\ LevelTo(LevelRows) \in Nat /\ cursor[Top] <= LevelTo(LevelRows)
         /\ \A r \in LevelNow(LevelRows) :
              /\ r \in Keys /\ cursor[Top] < r /\ r <= LevelTo(LevelRows) /\ RowOf(r) = r
              /\ Place[r] \in {Place[k] : k \in ever} /\ (Place[r] = Top => r \in ever)
         /\ \A k \in always : RowOf(k) <= LevelTo(LevelRows)
                                => RowOf(k) <= cursor[Top] \/ RowOf(k) \in LevelNow(LevelRows)
         /\ LevelNow(LevelRows) = RowsFrom(LevelRows, cursor[Top]) =>
              \A k \in always : RowOf(k) <= cursor[Top] \/ RowOf(k) \in LevelNow(LevelRows)
         /\ LevelNow(LevelRows) = {} =>
              LevelTo(LevelRows) = cursor[Top] /\ \A k \in always : RowOf(k) <= cursor[Top]
         /\ LevelNow(LevelRows) # {} => ever # {}
<1> DEFINE page == LevelNow(LevelRows)
           to == LevelTo(LevelRows)
<1>1. /\ ever \subseteq Keys /\ bucket \subseteq ever /\ always \subseteq bucket
      /\ cursor[Top] \in Nat
  BY DEF ListInv, ListTypes
<1>2. LevelRows \subseteq Keys
  BY <1>1, RowsOfKeys DEF LevelRows
<1>3. LevelRows \subseteq Nat /\ IsFiniteSet(LevelRows)
  BY <1>2, SortedKeys
<1>4. PageSize \in Nat \ {0}
  BY PageSizeIs
<1>5. /\ to \in Nat /\ cursor[Top] <= to
      /\ \A r \in page : r \in LevelRows /\ cursor[Top] < r /\ r <= to
      /\ \A r \in LevelRows : r <= to => r <= cursor[Top] \/ r \in page
      /\ page = {} => to = cursor[Top] /\ \A r \in LevelRows : r <= cursor[Top]
      /\ page = RowsFrom(LevelRows, cursor[Top]) =>
           \A r \in LevelRows : r <= cursor[Top] \/ r \in page
  BY <1>1, <1>3, <1>4, PageOfRows DEF LevelNow, LevelTo
<1>6. \A k \in always : RowOf(k) \in LevelRows
  BY <1>1 DEF LevelRows
<1> HIDE DEF page, to
<1>7. ASSUME NEW r \in page
      PROVE  /\ RowOf(r) = r /\ r \in Keys
             /\ Place[r] \in {Place[k] : k \in ever} /\ (Place[r] = Top => r \in ever)
  <2>1. PICK k \in bucket : r = RowOf(k)
    BY <1>5 DEF LevelRows
  <2>2. k \in Keys /\ k \in ever
    BY <1>1
  <2>3. Place[r] = Place[k] /\ RowOf(r) = r /\ r \in Keys /\ (Place[k] = Top => r = k)
    BY <2>1, <2>2, RowsOfKeys
  <2>4. QED
    BY <2>2, <2>3
<1>8. page # {} => ever # {}
  BY <1>1, <1>5 DEF LevelRows
<1>. QED BY <1>5, <1>6, <1>7, <1>8 DEF page, to

(* A page of the buckets, where every bucket has one.                      *)
LEMMA PageOfBuckets ==
  ASSUME ListConstants, ListInv
  PROVE  /\ LevelTo(bucket) \in Nat /\ cursor[Top] <= LevelTo(bucket)
         /\ \A r \in LevelNow(bucket) :
              r \in ever /\ cursor[Top] < r /\ r <= LevelTo(bucket)
         /\ \A k \in always : k <= LevelTo(bucket)
                                => k <= cursor[Top] \/ k \in LevelNow(bucket)
         /\ LevelNow(bucket) = RowsFrom(bucket, cursor[Top]) =>
              \A k \in always : k <= cursor[Top] \/ k \in LevelNow(bucket)
         /\ LevelNow(bucket) = {} => LevelTo(bucket) = cursor[Top]
<1> DEFINE page == LevelNow(bucket)
           to == LevelTo(bucket)
<1>1. /\ ever \subseteq Keys /\ bucket \subseteq ever /\ always \subseteq bucket
      /\ cursor[Top] \in Nat
  BY DEF ListInv, ListTypes
<1>2. bucket \subseteq Nat /\ IsFiniteSet(bucket)
  BY <1>1, SortedKeys
<1>3. PageSize \in Nat \ {0}
  BY PageSizeIs
<1>4. /\ to \in Nat /\ cursor[Top] <= to
      /\ \A r \in page : r \in bucket /\ cursor[Top] < r /\ r <= to
      /\ \A r \in bucket : r <= to => r <= cursor[Top] \/ r \in page
      /\ page = {} => to = cursor[Top]
      /\ page = RowsFrom(bucket, cursor[Top]) => \A r \in bucket : r <= cursor[Top] \/ r \in page
  BY <1>1, <1>2, <1>3, PageOfRows DEF LevelNow, LevelTo
<1> HIDE DEF page, to
<1>. QED BY <1>1, <1>4 DEF page, to

(* What a page of the buckets, and one of a level, changes.                *)
LEMMA BucketsPageIs ==
  ASSUME LevelPage, listAt = "buckets"
  PROVE  /\ emitted' = emitted \o Sorted(LevelNow(bucket)) /\ lsDirs' = lsDirs \o Sorted({})
         /\ cursor' = [cursor EXCEPT ![Top] = LevelTo(bucket)]
         /\ (lsNothing' <=> lsNothing)
         /\ \/ listAt' = "buckets"
            \/ listAt' = "listed" /\ LevelNow(bucket) = RowsFrom(bucket, cursor[Top])
         /\ UNCHANGED <<lsLine, direct, prefixes, walking, found, listed, listFailure,
                        bucket, ever, always>>
<1> DEFINE page == LevelNow(bucket)
           to == LevelTo(bucket)
<1>1. /\ page = PageAfter(bucket, Top) /\ to = Max(page \cup {cursor[Top]})
      /\ IsLast(bucket, Top, page) <=> LevelNow(bucket) = RowsFrom(bucket, cursor[Top])
  BY PageOfWalk DEF LevelNow, LevelTo
<1>2. {r \in page : TRUE} = page /\ {Place[r] : r \in page \ page} = {}
  OBVIOUS
<1> DEFINE tops == {r \in page : listAt = "buckets" \/ Place[r] = Top}
           subs == Sorted({Place[r] : r \in page \ tops})
<1>3. tops = page /\ subs = Sorted({})
  BY <1>2
<1>4. /\ emitted' = emitted \o Sorted(tops) /\ lsDirs' = lsDirs \o subs
      /\ cursor' = [cursor EXCEPT ![Top] = Max(page \cup {@})]
      /\ lsNothing' = (lsNothing \/ (listAt = "level" /\ cursor[Top] = 0
                                     /\ FoundNothing(tops, Range(subs))))
      /\ listAt' = IF IsLast(bucket, Top, page) THEN "listed" ELSE listAt
      /\ UNCHANGED <<lsLine, direct, prefixes, walking, found, listed, listFailure,
                     bucket, ever, always>>
  BY <1>1 DEF LevelPage, Advance, bucketVars
<1> HIDE DEF tops, subs, page, to
<1>5. lsNothing' <=> lsNothing
  BY <1>4, Zenon
<1>. QED BY <1>1, <1>3, <1>4, <1>5 DEF page, to

LEMMA LevelPageIs ==
  ASSUME LevelPage, listAt = "level",
         NEW page, page = LevelNow(LevelRows), NEW to, to = LevelTo(LevelRows),
         NEW tops, tops = {r \in page : Place[r] = Top},
         NEW subs, subs = {Place[r] : r \in page \ tops}
  PROVE  /\ emitted' = emitted \o Sorted(tops) /\ lsDirs' = lsDirs \o Sorted(subs)
         /\ cursor' = [cursor EXCEPT ![Top] = to]
         /\ lsNothing' = (lsNothing \/ (cursor[Top] = 0 /\ tops = {} /\ Range(Sorted(subs)) = {}))
         /\ \/ listAt' = "level"
            \/ listAt' = "listed" /\ LevelNow(LevelRows) = RowsFrom(LevelRows, cursor[Top])
         /\ UNCHANGED <<lsLine, direct, prefixes, walking, found, listed, listFailure,
                        bucket, ever, always>>
<1>1. /\ page = PageAfter(LevelRows, Top) /\ to = Max(page \cup {cursor[Top]})
      /\ IsLast(LevelRows, Top, page) <=> LevelNow(LevelRows) = RowsFrom(LevelRows, cursor[Top])
  BY PageOfWalk DEF LevelNow, LevelTo
<1> DEFINE tops_ == {r \in page : listAt = "buckets" \/ Place[r] = Top}
           subs_ == Sorted({Place[r] : r \in page \ tops_})
<1>2. tops_ = tops
  OBVIOUS
<1>3. subs_ = Sorted(subs)
  BY <1>2
<1>4. /\ emitted' = emitted \o Sorted(tops_) /\ lsDirs' = lsDirs \o subs_
      /\ cursor' = [cursor EXCEPT ![Top] = Max(page \cup {@})]
      /\ lsNothing' = (lsNothing \/ (listAt = "level" /\ cursor[Top] = 0
                                     /\ FoundNothing(tops_, Range(subs_))))
      /\ listAt' = IF IsLast(LevelRows, Top, page) THEN "listed" ELSE listAt
      /\ UNCHANGED <<lsLine, direct, prefixes, walking, found, listed, listFailure,
                     bucket, ever, always>>
  BY <1>1 DEF LevelPage, Advance, bucketVars, LevelRows
<1> HIDE DEF tops_, subs_
<1>. QED BY <1>1, <1>2, <1>3, <1>4 DEF FoundNothing

LEMMA BucketsKeep ==
  ASSUME ListConstants, ListInv, LevelPage, listAt = "buckets" PROVE ListInv'
<1> DEFINE page == LevelNow(bucket)
           to == LevelTo(bucket)
<1>1. /\ emitted' = emitted \o Sorted(page) /\ lsDirs' = lsDirs \o Sorted({})
      /\ cursor' = [cursor EXCEPT ![Top] = to]
      /\ (lsNothing' <=> lsNothing)
      /\ \/ listAt' = "buckets"
         \/ listAt' = "listed" /\ LevelNow(bucket) = RowsFrom(bucket, cursor[Top])
      /\ UNCHANGED <<lsLine, direct, prefixes, walking, found, listed, listFailure,
                     bucket, ever, always>>
  BY BucketsPageIs
<1>2. /\ to \in Nat /\ cursor[Top] <= to
      /\ \A r \in page : r \in ever /\ cursor[Top] < r /\ r <= to
      /\ \A k \in always : k <= to => k <= cursor[Top] \/ k \in page
      /\ page = RowsFrom(bucket, cursor[Top]) => \A k \in always : k <= cursor[Top] \/ k \in page
      /\ page = {} => to = cursor[Top]
  BY PageOfBuckets
<1>3. listAt' = "listed" => page = RowsFrom(bucket, cursor[Top])
  BY <1>1
<1> HIDE DEF page, to
<1>4. ListTypes /\ InOrder /\ NothingYet /\ LevelShown /\ WalksFind /\ LsAnswers
  BY DEF ListInv
<1>5. /\ ever \subseteq Keys /\ cursor \in [Shards \cup {Top, All} -> Nat]
      /\ emitted \in Seq(Nat) /\ lsDirs \in Seq(Nat)
      /\ Rising(emitted) /\ Rising(lsDirs) /\ cursor[Top] \in Nat
  BY <1>4 DEF ListTypes, InOrder
<1>6. cursor'[Top] = to /\ \A s \in Shards \cup {All} : cursor'[s] = cursor[s]
  BY <1>1, <1>5, KeysAreFinite
<1>7. page \subseteq Keys
  BY <1>2, <1>5
<1>8. Sorted(page) \in Seq(Nat) /\ Range(Sorted(page)) = page /\ Rising(Sorted(page))
  BY <1>7, SortedKeys
<1>9. Sorted({}) \in Seq(Nat) /\ Range(Sorted({})) = {} /\ Rising(Sorted({}))
  BY SortedKeys
<1>10. \A e \in Range(emitted) : e <= cursor[Top] /\ e \in Nat
  BY <1>4, <1>5, KeysAreFinite DEF LevelShown, ListTypes
<1>11. /\ emitted' \in Seq(Nat) /\ Rising(emitted')
       /\ Range(emitted') = Range(emitted) \cup page
  <2>1. \A x \in Range(emitted), y \in Range(Sorted(page)) : x < y
    <3> TAKE x \in Range(emitted), y \in Range(Sorted(page))
    <3>1. x <= cursor[Top] /\ x \in Nat /\ cursor[Top] < y /\ y \in Nat
      BY <1>2, <1>7, <1>8, <1>10, KeysAreFinite
    <3>2. QED
      BY <1>5, <3>1
  <2>2. QED
    BY <1>1, <1>5, <1>8, <2>1, RisingOn
<1>12. /\ lsDirs' \in Seq(Nat) /\ Rising(lsDirs') /\ Range(lsDirs') = Range(lsDirs)
  <2>1. \A x \in Range(lsDirs), y \in Range(Sorted({})) : x < y
    BY <1>9
  <2>2. Range(lsDirs) \cup Range(Sorted({})) = Range(lsDirs)
    BY <1>9
  <2>3. QED
    BY <1>1, <1>5, <1>9, <2>1, <2>2, RisingOn
<1>13. Path = "none" /\ Path' = Path /\ LsRefusal' = LsRefusal
  BY <1>1, <1>4, SameLine DEF LevelShown
<1>14. ListTypes'
  <2>1. cursor' \in [Shards \cup {Top, All} -> Nat]
    BY <1>1, <1>2, <1>5
  <2>2. Range(emitted') \subseteq ever
    BY <1>2, <1>4, <1>11 DEF ListTypes
  <2>3. QED
    BY <1>1, <1>4, <1>11, <1>12, <2>1, <2>2 DEF ListTypes
<1>15. InOrder'
  BY <1>11, <1>12 DEF InOrder
<1>16. NothingYet'
  BY <1>1, <1>4 DEF NothingYet, Split
<1>17. LevelShown'
  <2>1. \A e \in Range(emitted') : e <= to
    BY <1>2, <1>5, <1>10, <1>11
  <2>2. \A p \in Range(lsDirs') : \E k \in Keys : Place[k] = p /\ p # Top /\ RowOf(k) <= to
    <3> TAKE p \in Range(lsDirs')
    <3>1. PICK k \in Keys : Place[k] = p /\ p # Top /\ RowOf(k) <= cursor[Top]
      BY <1>4, <1>12 DEF LevelShown
    <3>2. RowOf(k) \in Nat
      BY KeysAreFinite, RowsOfKeys
    <3>3. QED
      BY <1>2, <1>5, <3>1, <3>2
  <2>3. to # 0 => ever # {}
    BY <1>2, <1>4 DEF LevelShown
  <2>4. \A k \in always : k <= cursor[Top] => k \in Range(emitted)
    BY <1>4 DEF LevelShown
  <2>5. \A k \in always : k <= to => k \in Range(emitted')
    BY <1>2, <1>11, <2>4
  <2>6. listAt' = "listed" => \A k \in always : k \in Range(emitted')
    BY <1>2, <1>3, <1>11, <2>4
  <2>7. QED
    BY <1>1, <1>6, <1>13, <2>1, <2>2, <2>3, <2>5, <2>6 DEF LevelShown
<1>18. WalksFind'
  BY <1>1, <1>4, <1>6 DEF WalksFind, OfShard
<1>19. NoneIsLost' /\ ChunksInOrder'
  BY <1>1 DEF NoneIsLost, ChunksInOrder, Split
<1>20. LsAnswers'
  BY <1>1, <1>4, <1>13 DEF LsAnswers
<1>. QED BY <1>14, <1>15, <1>16, <1>17, <1>18, <1>19, <1>20 DEF ListInv

LEMMA LevelKeeps ==
  ASSUME ListConstants, ListInv, LevelPage, listAt = "level" PROVE ListInv'
<1> DEFINE page == LevelNow(LevelRows)
           to == LevelTo(LevelRows)
           tops == {r \in page : Place[r] = Top}
           subs == {Place[r] : r \in page \ tops}
<1>1. /\ emitted' = emitted \o Sorted(tops) /\ lsDirs' = lsDirs \o Sorted(subs)
      /\ cursor' = [cursor EXCEPT ![Top] = to]
      /\ lsNothing' = (lsNothing \/ (cursor[Top] = 0 /\ tops = {} /\ Range(Sorted(subs)) = {}))
      /\ \/ listAt' = "level"
         \/ listAt' = "listed" /\ LevelNow(LevelRows) = RowsFrom(LevelRows, cursor[Top])
      /\ UNCHANGED <<lsLine, direct, prefixes, walking, found, listed, listFailure,
                     bucket, ever, always>>
  BY LevelPageIs
<1>2. /\ to \in Nat /\ cursor[Top] <= to
      /\ \A r \in page :
           /\ r \in Keys /\ cursor[Top] < r /\ r <= to /\ RowOf(r) = r
           /\ Place[r] \in {Place[k] : k \in ever} /\ (Place[r] = Top => r \in ever)
      /\ \A k \in always : RowOf(k) <= to => RowOf(k) <= cursor[Top] \/ RowOf(k) \in page
      /\ page = {} => to = cursor[Top] /\ \A k \in always : RowOf(k) <= cursor[Top]
      /\ page # {} => ever # {}
  BY PageOfLevel
<1>3. listAt' = "listed" =>
        \A k \in always : RowOf(k) <= cursor[Top] \/ RowOf(k) \in page
  BY <1>1, PageOfLevel
<1> HIDE DEF page, to
<1>4. /\ \A r \in tops : r \in page /\ r \in ever
      /\ \A p \in subs : \E r \in page : p = Place[r] /\ p # Top
      /\ \A r \in page : r \in tops \/ Place[r] \in subs
      /\ tops = {} /\ subs = {} => page = {}
  BY <1>2
<1> HIDE DEF tops, subs
<1>5. ListTypes /\ InOrder /\ NothingYet /\ LevelShown /\ WalksFind /\ LsAnswers
  BY DEF ListInv
<1>6. /\ ever \subseteq Keys /\ always \subseteq Keys
      /\ cursor \in [Shards \cup {Top, All} -> Nat]
      /\ emitted \in Seq(Nat) /\ lsDirs \in Seq(Nat)
      /\ Rising(emitted) /\ Rising(lsDirs) /\ cursor[Top] \in Nat
  BY <1>5 DEF ListTypes, InOrder
<1>7. cursor'[Top] = to /\ \A s \in Shards \cup {All} : cursor'[s] = cursor[s]
  BY <1>1, <1>6, KeysAreFinite
<1>8. tops \subseteq Keys /\ subs \subseteq {Place[k] : k \in Keys}
  BY <1>2, <1>4, <1>6
<1>9. /\ Sorted(tops) \in Seq(Nat) /\ Range(Sorted(tops)) = tops /\ Rising(Sorted(tops))
      /\ Sorted(subs) \in Seq(Nat) /\ Range(Sorted(subs)) = subs /\ Rising(Sorted(subs))
  BY <1>8, SortedKeys, SortedSubs
<1>10. \A e \in Range(emitted) : e <= cursor[Top] /\ e \in Nat
  BY <1>5, <1>6, KeysAreFinite DEF LevelShown, ListTypes
<1>11. \A p \in Range(lsDirs) :
         \E k \in Keys : Place[k] = p /\ p # Top /\ RowOf(k) <= cursor[Top]
  BY <1>5 DEF LevelShown
<1>12. /\ emitted' \in Seq(Nat) /\ Rising(emitted')
       /\ Range(emitted') = Range(emitted) \cup tops
  <2>1. \A x \in Range(emitted), y \in Range(Sorted(tops)) : x < y
    <3> TAKE x \in Range(emitted), y \in Range(Sorted(tops))
    <3>1. x <= cursor[Top] /\ x \in Nat /\ cursor[Top] < y /\ y \in Nat
      BY <1>2, <1>4, <1>8, <1>9, <1>10, KeysAreFinite
    <3>2. QED
      BY <1>6, <3>1
  <2>2. QED
    BY <1>1, <1>6, <1>9, <2>1, RisingOn
<1>13. /\ lsDirs' \in Seq(Nat) /\ Rising(lsDirs')
       /\ Range(lsDirs') = Range(lsDirs) \cup subs
  <2>1. \A x \in Range(lsDirs), y \in Range(Sorted(subs)) : x < y
    <3> TAKE x \in Range(lsDirs), y \in Range(Sorted(subs))
    <3>1. PICK k \in Keys : Place[k] = x /\ x # Top /\ RowOf(k) <= cursor[Top]
      BY <1>11
    <3>2. PICK r \in page : y = Place[r] /\ y # Top
      BY <1>4, <1>9
    <3>3. r \in Keys /\ cursor[Top] < r /\ RowOf(r) = r
      BY <1>2
    <3>4. RowOf(k) \in Nat /\ r \in Nat
      BY <3>3, KeysAreFinite, RowsOfKeys
    <3>5. RowOf(k) < RowOf(r)
      BY <1>6, <3>1, <3>3, <3>4
    <3>6. QED
      BY <3>1, <3>2, <3>3, <3>5, RowsOfKeys
  <2>2. QED
    BY <1>1, <1>6, <1>9, <2>1, RisingOn
<1>14. Path' = Path /\ LsRefusal' = LsRefusal
  BY <1>1, SameLine
<1>15. ListTypes'
  <2>1. cursor' \in [Shards \cup {Top, All} -> Nat]
    BY <1>1, <1>2, <1>6
  <2>2. Range(emitted') \subseteq ever
    BY <1>4, <1>5, <1>12 DEF ListTypes
  <2>3. Range(lsDirs') \subseteq {Place[k] : k \in ever}
    <3>1. subs \subseteq {Place[k] : k \in ever}
      BY <1>2, <1>4
    <3>2. QED
      BY <1>5, <1>13, <3>1 DEF ListTypes
  <2>4. QED
    BY <1>1, <1>5, <1>12, <1>13, <2>1, <2>2, <2>3 DEF ListTypes
<1>16. InOrder'
  BY <1>12, <1>13 DEF InOrder
<1>17. NothingYet'
  BY <1>1, <1>5 DEF NothingYet, Split
<1>18. \A k \in always :
         RowOf(k) \in page => k \in Range(emitted') \/ Place[k] \in Range(lsDirs')
  <2> SUFFICES ASSUME NEW k \in always, RowOf(k) \in page
               PROVE  k \in Range(emitted') \/ Place[k] \in Range(lsDirs')
    OBVIOUS
  <2>1. Place[RowOf(k)] = Place[k] /\ (Place[k] = Top => RowOf(k) = k)
    BY <1>6, RowsOfKeys
  <2>2. CASE RowOf(k) \in tops
    <3>1. RowOf(k) \in Keys
      BY <1>2
    <3>2. Place[k] = Top
      BY <2>1, <2>2 DEF tops
    <3>3. QED
      BY <1>12, <2>1, <2>2, <3>2
  <2>3. CASE Place[RowOf(k)] \in subs
    BY <1>13, <2>1, <2>3
  <2>4. QED
    BY <1>4, <2>2, <2>3
<1>19. LevelShown'
  <2>1. \A e \in Range(emitted') : e <= to
    BY <1>2, <1>4, <1>6, <1>10, <1>12
  <2>2. \A p \in Range(lsDirs') : \E k \in Keys : Place[k] = p /\ p # Top /\ RowOf(k) <= to
    <3> TAKE p \in Range(lsDirs')
    <3>1. CASE p \in Range(lsDirs)
      <4>1. PICK k \in Keys : Place[k] = p /\ p # Top /\ RowOf(k) <= cursor[Top]
        BY <1>11, <3>1
      <4>2. RowOf(k) \in Nat
        BY KeysAreFinite, RowsOfKeys
      <4>3. QED
        BY <1>2, <1>6, <4>1, <4>2
    <3>2. CASE p \in subs
      <4>1. PICK r \in page : p = Place[r] /\ p # Top
        BY <1>4, <3>2
      <4>2. r \in Keys /\ RowOf(r) <= to
        BY <1>2
      <4>3. QED
        BY <4>1, <4>2
    <3>3. QED
      BY <1>13, <3>1, <3>2
  <2>3. to # 0 => ever # {}
    BY <1>2, <1>5 DEF LevelShown
  <2>4. \A k \in always : RowOf(k) <= cursor[Top]
                            => k \in Range(emitted) \/ Place[k] \in Range(lsDirs)
    BY <1>5 DEF LevelShown
  <2>5. \A k \in always : RowOf(k) <= to
                            => k \in Range(emitted') \/ Place[k] \in Range(lsDirs')
    BY <1>2, <1>12, <1>13, <1>18, <2>4
  <2>6. listAt' = "listed" =>
          \A k \in always : k \in Range(emitted') \/ Place[k] \in Range(lsDirs')
    BY <1>3, <1>12, <1>13, <1>18, <2>4
  <2>7. QED
    BY <1>1, <1>7, <2>1, <2>2, <2>3, <2>5, <2>6 DEF LevelShown
<1>20. WalksFind'
  BY <1>1, <1>5, <1>7 DEF WalksFind, OfShard
<1>21. NoneIsLost' /\ ChunksInOrder'
  BY <1>1 DEF NoneIsLost, ChunksInOrder, Split
<1>22. LsAnswers'
  <2>1. lsNothing' => always = {}
    <3>1. CASE lsNothing
      BY <1>5, <3>1 DEF LsAnswers
    <3>2. CASE cursor[Top] = 0 /\ tops = {} /\ Range(Sorted(subs)) = {}
      <4>1. page = {}
        BY <1>4, <1>9, <3>2
      <4>2. \A k \in always : RowOf(k) <= 0 /\ RowOf(k) \in Nat \ {0}
        BY <1>2, <1>6, <3>2, <4>1, KeysAreFinite, RowsOfKeys
      <4>3. QED
        BY <4>2
    <3>3. QED
      BY <1>1, <3>1, <3>2
  <2>2. ~ lsNothing' => ever # {}
    <3>1. CASE cursor[Top] = 0
      <4>1. ~ lsNothing' => page # {}
        <5>1. page = {} => tops = {} /\ subs = {}
          BY <1>4
        <5>2. QED
          BY <1>1, <1>9, <3>1, <5>1
      <4>2. QED
        BY <1>2, <4>1
    <3>2. CASE cursor[Top] # 0
      BY <1>5, <3>2 DEF LevelShown
    <3>3. QED
      BY <3>1, <3>2
  <2>3. QED
    BY <1>1, <1>14, <2>1, <2>2 DEF LsAnswers
<1>. QED BY <1>15, <1>16, <1>17, <1>19, <1>20, <1>21, <1>22 DEF ListInv

(* What a page of the first, undivided level changes: more of it is to     *)
(* come, or all is listed in one walk, or shards are walked in chunks.     *)
LEMMA ShallowPageIs ==
  ASSUME ListConstants, ListInv, ShallowPage,
         NEW page, page = LevelNow(LevelRows), NEW to, to = LevelTo(LevelRows),
         NEW tops, tops = {r \in page : Place[r] = Top},
         NEW subs, subs = {Place[r] : r \in page \ tops} \cup prefixes
  PROVE  /\ listAt = "shallow" /\ cursor' = [cursor EXCEPT ![Top] = to]
         /\ UNCHANGED <<lsLine, emitted, lsDirs, lsNothing, found, listed, listFailure,
                        bucket, ever, always>>
         /\ \/ /\ direct' = direct \cup tops /\ prefixes' = subs
               /\ UNCHANGED <<listAt, walking>>
            \/ /\ walking' = {All} /\ direct' = {} /\ prefixes' = {} /\ listAt' = "whole"
            \/ /\ direct' = direct \cup tops /\ listAt' = "chunk" /\ subs # {}
               /\ walking' = FirstOnes(subs, Workers)
               /\ prefixes' = subs \ FirstOnes(subs, Workers)
               /\ page = RowsFrom(LevelRows, cursor[Top])
<1>1. /\ page = PageAfter(LevelRows, Top) /\ to = Max(page \cup {cursor[Top]})
      /\ IsLast(LevelRows, Top, page) <=> page = RowsFrom(LevelRows, cursor[Top])
  BY PageOfWalk DEF LevelNow, LevelTo
<1>2. /\ listAt = "shallow" /\ cursor' = [cursor EXCEPT ![Top] = Max(page \cup {@})]
      /\ UNCHANGED <<lsLine, emitted, lsDirs, lsNothing, found, listed, listFailure,
                     bucket, ever, always>>
      /\ IF ~IsLast(LevelRows, Top, page)
         THEN /\ direct' = direct \cup tops
              /\ prefixes' = subs
              /\ UNCHANGED <<listAt, walking>>
         ELSE IF Cardinality(subs) < MinShards
         THEN /\ walking' = {All}
              /\ direct' = {} /\ prefixes' = {}
              /\ listAt' = "whole"
         ELSE /\ direct' = direct \cup tops
              /\ BeginChunk(subs)
  BY <1>1 DEF ShallowPage, Advance, bucketVars, shownVars, LevelRows
<1>3. subs = {} => Cardinality(subs) < MinShards
  BY FS_EmptySet DEF MinShards
<1>. QED BY <1>1, <1>2, <1>3 DEF BeginChunk, Chunk

(* The shards of a chunk come before those of the chunks to come.          *)
LEMMA ChunkIsFirst ==
  ASSUME ListConstants, NEW subs, subs \subseteq Shards
  PROVE  /\ FirstOnes(subs, Workers) \subseteq subs
         /\ \A s \in FirstOnes(subs, Workers), p \in subs \ FirstOnes(subs, Workers) : s < p
<1>1. subs \subseteq Nat /\ IsFiniteSet(subs)
  BY KeysAreFinite, FS_Subset
<1>. QED BY <1>1, FirstOnesAre DEF ListConstants

LEMMA ShallowKeeps ==
  ASSUME ListConstants, ListInv, ShallowPage PROVE ListInv'
<1> DEFINE page == LevelNow(LevelRows)
           to == LevelTo(LevelRows)
           tops == {r \in page : Place[r] = Top}
           subs == {Place[r] : r \in page \ tops} \cup prefixes
<1>1. /\ listAt = "shallow" /\ cursor' = [cursor EXCEPT ![Top] = to]
      /\ UNCHANGED <<lsLine, emitted, lsDirs, lsNothing, found, listed, listFailure,
                     bucket, ever, always>>
      /\ \/ /\ direct' = direct \cup tops /\ prefixes' = subs
            /\ UNCHANGED <<listAt, walking>>
         \/ /\ walking' = {All} /\ direct' = {} /\ prefixes' = {} /\ listAt' = "whole"
         \/ /\ direct' = direct \cup tops /\ listAt' = "chunk" /\ subs # {}
            /\ walking' = FirstOnes(subs, Workers)
            /\ prefixes' = subs \ FirstOnes(subs, Workers)
            /\ page = RowsFrom(LevelRows, cursor[Top])
  BY ShallowPageIs
<1>2. /\ to \in Nat /\ cursor[Top] <= to
      /\ \A r \in page :
           /\ r \in Keys /\ cursor[Top] < r /\ r <= to /\ RowOf(r) = r
           /\ Place[r] \in {Place[k] : k \in ever} /\ (Place[r] = Top => r \in ever)
      /\ \A k \in always : RowOf(k) <= to => RowOf(k) <= cursor[Top] \/ RowOf(k) \in page
  BY PageOfLevel
<1>3. page = RowsFrom(LevelRows, cursor[Top]) =>
        \A k \in always : RowOf(k) <= cursor[Top] \/ RowOf(k) \in page
  BY PageOfLevel
<1> HIDE DEF page, to
<1>4. /\ \A r \in tops : r \in page /\ r \in ever /\ Place[r] = Top
      /\ \A p \in subs : p \in prefixes \/ \E r \in page : p = Place[r] /\ p # Top
      /\ \A r \in page : r \in tops \/ Place[r] \in subs
      /\ \A r \in page : Place[r] = Top => r \in tops
      /\ prefixes \subseteq subs
  BY <1>2
<1> HIDE DEF tops, subs
<1>5. ListTypes /\ InOrder /\ NothingYet /\ LevelShown /\ WalksFind /\ LsAnswers
  BY DEF ListInv
<1>6. /\ ever \subseteq Keys /\ always \subseteq ever
      /\ cursor \in [Shards \cup {Top, All} -> Nat] /\ cursor[Top] \in Nat
      /\ prefixes \subseteq SubsOf(ever)
  BY <1>5 DEF ListTypes
<1>7. cursor'[Top] = to /\ \A s \in Shards \cup {All} : cursor'[s] = cursor[s]
  BY <1>1, <1>6, KeysAreFinite
<1>8. /\ emitted = <<>> /\ lsDirs = <<>> /\ listed = {} /\ ~listFailure /\ walking = {}
  BY <1>1, <1>5 DEF NothingYet, Split
<1>9. subs \subseteq SubsOf(ever)
  BY <1>2, <1>4, <1>6 DEF SubsOf
<1>10. subs \subseteq Shards /\ SubsOf(ever) \subseteq Shards
  BY <1>6, <1>9 DEF SubsOf, Shards
<1>11. /\ FirstOnes(subs, Workers) \subseteq subs
       /\ \A s \in FirstOnes(subs, Workers), p \in subs \ FirstOnes(subs, Workers) : s < p
  BY <1>10, ChunkIsFirst
<1>12. Path' = Path /\ LsRefusal' = LsRefusal
  BY <1>1, SameLine
<1>13. \A k \in always : RowOf(k) \in page => k \in tops \/ Place[k] \in subs
  <2> SUFFICES ASSUME NEW k \in always, RowOf(k) \in page
               PROVE  k \in tops \/ Place[k] \in subs
    OBVIOUS
  <2>1. Place[RowOf(k)] = Place[k] /\ (Place[k] = Top => RowOf(k) = k)
    BY <1>6, RowsOfKeys
  <2>2. CASE RowOf(k) \in tops
    BY <1>4, <2>1, <2>2
  <2>3. CASE Place[RowOf(k)] \in subs
    BY <2>1, <2>3
  <2>4. QED
    BY <1>4, <2>2, <2>3
<1>14. \A k \in always : RowOf(k) <= cursor[Top] => k \in direct \/ Place[k] \in prefixes
  BY <1>1, <1>5 DEF LevelShown
<1>15. ListTypes'
  <2>1. cursor' \in [Shards \cup {Top, All} -> Nat]
    BY <1>1, <1>2, <1>6
  <2>2. direct' \subseteq ever /\ (\A d \in direct' : Place[d] = Top)
    BY <1>1, <1>4, <1>5 DEF ListTypes
  <2>3. prefixes' \subseteq SubsOf(ever)
    BY <1>1, <1>9
  <2>4. walking' \subseteq Shards \cup {All}
    BY <1>1, <1>8, <1>10, <1>11
  <2>5. QED
    BY <1>1, <1>5, <2>1, <2>2, <2>3, <2>4 DEF ListTypes
<1>16. InOrder' /\ WalksFind' /\ LsAnswers'
  BY <1>1, <1>5, <1>7, <1>12 DEF InOrder, WalksFind, OfShard, LsAnswers
<1>17. NothingYet'
  BY <1>1, <1>8, <1>10, <1>11 DEF NothingYet, Split
<1>18. CASE /\ direct' = direct \cup tops /\ prefixes' = subs
            /\ UNCHANGED <<listAt, walking>>
  <2>1. \A k \in always : RowOf(k) <= to => k \in direct' \/ Place[k] \in prefixes'
    BY <1>2, <1>4, <1>13, <1>14, <1>18
  <2>2. LevelShown'
    BY <1>1, <1>7, <1>18, <2>1 DEF LevelShown
  <2>3. NoneIsLost' /\ ChunksInOrder'
    BY <1>1, <1>18 DEF NoneIsLost, ChunksInOrder, Split
  <2>4. QED
    BY <1>15, <1>16, <1>17, <2>2, <2>3 DEF ListInv
<1>19. CASE walking' = {All} /\ direct' = {} /\ prefixes' = {} /\ listAt' = "whole"
  <2>1. LevelShown' /\ NoneIsLost' /\ ChunksInOrder'
    BY <1>19 DEF LevelShown, NoneIsLost, ChunksInOrder, Split
  <2>2. QED
    BY <1>15, <1>16, <1>17, <2>1 DEF ListInv
<1>20. CASE /\ direct' = direct \cup tops /\ listAt' = "chunk" /\ subs # {}
            /\ walking' = FirstOnes(subs, Workers)
            /\ prefixes' = subs \ FirstOnes(subs, Workers)
            /\ page = RowsFrom(LevelRows, cursor[Top])
  <2>1. LevelShown'
    BY <1>20 DEF LevelShown
  <2>2. \A k \in always : k \in direct' \/ Place[k] \in prefixes' \cup walking'
    BY <1>3, <1>4, <1>13, <1>14, <1>20
  <2>3. NoneIsLost'
    BY <1>1, <2>2 DEF NoneIsLost
  <2>4. ever # {}
    BY <1>9, <1>20 DEF SubsOf
  <2>5. Range(emitted') = {} /\ listed' = {} /\ ever' = ever
    BY <1>1, <1>8, EmptyShown
  <2>6. \A p \in prefixes' : \A s \in walking' : s < p
    BY <1>11, <1>20
  <2>7. ChunksInOrder'
    BY <2>4, <2>5, <2>6 DEF ChunksInOrder
  <2>8. QED
    BY <1>15, <1>16, <1>17, <2>1, <2>3, <2>7 DEF ListInv
<1>. QED BY <1>1, <1>18, <1>19, <1>20

(* What a chunk whose walks have ended gives away comes before what it     *)
(* keeps and before the keys of the chunks to come.                        *)
Gives(batch, kept, aside) ==
  /\ batch \in Seq(Nat) /\ Rising(batch)
  /\ kept \subseteq listed /\ aside \subseteq direct
  /\ Range(batch) \cup kept \cup aside = listed \cup direct
  /\ \A b \in Range(batch), x \in kept \cup aside : b < x
  /\ listAt = "chunk" =>
       \A b \in Range(batch), k \in Keys : Place[k] \in prefixes => b < k

LEMMA KeysOfChunks ==
  ASSUME ListConstants, ListInv, listAt = "chunk",
         NEW l \in listed, NEW k \in Keys, Place[k] \in prefixes
  PROVE  l < k
<1>1. l \in Keys /\ Place[l] # Top /\ Place[l] < Place[k]
  BY DEF ListInv, ListTypes, ChunksInOrder
<1>2. Place[k] # Top
  BY DEF ListInv, ListTypes, SubsOf
<1>. QED BY <1>1, <1>2 DEF ListConstants

LEMMA StreamGives ==
  ASSUME ListConstants, ListInv
  PROVE  Gives(Sorted(listed \cup Within(listed)), {}, direct \ Within(listed))
<1> DEFINE within == Within(listed)
<1>1. listed \subseteq Keys /\ direct \subseteq Keys
  BY DEF ListInv, ListTypes
<1>2. within \subseteq direct
  BY DEF Within
<1>3. listed \cup within \subseteq Keys
  BY <1>1, <1>2
<1>4. /\ Sorted(listed \cup within) \in Seq(Nat)
      /\ Range(Sorted(listed \cup within)) = listed \cup within
      /\ Rising(Sorted(listed \cup within))
  <2> HIDE DEF within
  <2>1. QED
    BY <1>3, SortedKeys
<1>5. CASE listed = {}
  <2>1. within = {}
    BY <1>5 DEF Within
  <2>2. Range(Sorted(listed \cup within)) = {}
    BY <1>4, <1>5, <2>1
  <2>3. QED
    BY <1>4, <1>5, <2>1, <2>2 DEF Gives
<1>6. CASE listed # {}
  <2> DEFINE last == Max(listed \cup {0})
  <2>1. last \in listed /\ \A l \in listed : l <= last
    <3>1. listed \cup {0} \subseteq Nat /\ IsFiniteSet(listed \cup {0})
      <4>1. listed \subseteq Nat /\ IsFiniteSet(listed)
        BY <1>1, SortedKeys
      <4>2. QED
        BY <4>1, FS_AddElement
    <3>2. last \in listed \cup {0} /\ \A y \in listed \cup {0} : y <= last
      BY <3>1, GreatestIsThere
    <3>3. \A l \in listed : l \in Nat \ {0}
      BY <1>1, KeysAreFinite
    <3> HIDE DEF last
    <3>4. last # 0
      BY <1>6, <3>2, <3>3
    <3>5. QED
      BY <3>2, <3>4
  <2>2. within = {d \in direct : d <= last}
    BY <1>6 DEF Within
  <2> HIDE DEF last, within
  <2>3. last \in Nat /\ \A d \in direct : d \in Nat
    BY <1>1, <2>1, KeysAreFinite
  <2>4. \A b \in listed \cup within : b \in Nat /\ b <= last
    BY <1>3, <2>1, <2>2, KeysAreFinite
  <2>5. \A b \in listed \cup within, d \in direct \ within : b < d
    <3> TAKE b \in listed \cup within, d \in direct \ within
    <3>1. d \in Nat /\ ~ (d <= last)
      BY <2>2, <2>3
    <3>2. QED
      BY <2>3, <2>4, <3>1
  <2>6. ASSUME listAt = "chunk", NEW b \in listed \cup within, NEW k \in Keys,
               Place[k] \in prefixes
        PROVE  b < k
    <3>1. last < k /\ k \in Nat
      BY <2>1, <2>6, KeysOfChunks, KeysAreFinite
    <3>2. QED
      BY <2>3, <2>4, <3>1
  <2>7. (listed \cup within) \cup {} \cup (direct \ within) = listed \cup direct
    BY <1>2
  <2>8. Gives(Sorted(listed \cup within), {}, direct \ within)
    BY <1>2, <1>4, <2>5, <2>6, <2>7 DEF Gives
  <2>9. QED
    BY <2>8 DEF within
<1>. QED BY <1>5, <1>6 DEF within

LEMMA DeepGives == ASSUME ListInv PROVE Gives(<<>>, listed, direct)
  BY EmptyShown DEF Gives

LEMMA JoinIs ==
  ASSUME ListConstants, ListInv, JoinChunk
  PROVE  /\ Split /\ walking = {}
         /\ lsNothing' = (listAt = "whole" /\ ~listFailure /\ listed = {})
         /\ UNCHANGED <<lsLine, lsDirs, cursor, found, listFailure, bucket, ever, always>>
         /\ \/ /\ listFailure /\ listAt' = "failed"
               /\ UNCHANGED <<walking, prefixes, direct, listed, emitted>>
            \/ /\ ~listFailure
               /\ \E batch, kept, aside :
                    /\ Gives(batch, kept, aside)
                    /\ \/ /\ prefixes # {}
                          /\ emitted' = emitted \o batch
                          /\ listed' = kept /\ direct' = aside
                          /\ walking' = FirstOnes(prefixes, Workers)
                          /\ prefixes' = prefixes \ FirstOnes(prefixes, Workers)
                          /\ listAt' = "chunk"
                       \/ /\ prefixes = {}
                          /\ emitted' = (emitted \o batch) \o Sorted(kept \cup aside)
                          /\ listed' = {} /\ direct' = {} /\ listAt' = "listed"
                          /\ UNCHANGED <<walking, prefixes>>
<1>1. /\ Split /\ walking = {}
      /\ lsNothing' = (listAt = "whole" /\ ~listFailure /\ listed = {})
      /\ UNCHANGED <<lsLine, lsDirs, cursor, found, listFailure, bucket, ever, always>>
  BY DEF JoinChunk, Split, bucketVars
<1>2. CASE listFailure
  BY <1>1, <1>2 DEF JoinChunk
<1>3. CASE ~listFailure /\ Streaming
  <2> DEFINE batch == Sorted(listed \cup Within(listed))
             aside == direct \ Within(listed)
  <2>1. IF prefixes # {}
        THEN /\ emitted' = emitted \o batch
             /\ listed' = {} /\ direct' = aside
             /\ BeginChunk(prefixes)
        ELSE /\ emitted' = emitted \o batch \o Sorted({} \cup aside)
             /\ listed' = {} /\ direct' = {}
             /\ listAt' = "listed"
             /\ UNCHANGED <<walking, prefixes>>
    BY <1>3 DEF JoinChunk
  <2>2. Gives(batch, {}, aside)
    BY StreamGives
  <2> HIDE DEF batch, aside
  <2>3. QED
    BY <1>1, <1>3, <2>1, <2>2 DEF BeginChunk, Chunk
<1>4. CASE ~listFailure /\ ~Streaming
  <2>1. IF prefixes # {}
        THEN /\ emitted' = emitted \o <<>>
             /\ listed' = listed /\ direct' = direct
             /\ BeginChunk(prefixes)
        ELSE /\ emitted' = emitted \o <<>> \o Sorted(listed \cup direct)
             /\ listed' = {} /\ direct' = {}
             /\ listAt' = "listed"
             /\ UNCHANGED <<walking, prefixes>>
    BY <1>4 DEF JoinChunk
  <2>2. Gives(<<>>, listed, direct)
    BY DeepGives
  <2>3. PICK batch : batch = <<>>
    OBVIOUS
  <2>4. QED
    BY <1>1, <1>4, <2>1, <2>2, <2>3 DEF BeginChunk, Chunk
<1>. QED BY <1>2, <1>3, <1>4

LEMMA JoinKeeps == ASSUME ListConstants, ListInv, JoinChunk PROVE ListInv'
<1>1. /\ Split /\ walking = {}
      /\ lsNothing' = (listAt = "whole" /\ ~listFailure /\ listed = {})
      /\ UNCHANGED <<lsLine, lsDirs, cursor, found, listFailure, bucket, ever, always>>
  BY JoinIs
<1>2. ListTypes /\ InOrder /\ NothingYet /\ WalksFind /\ NoneIsLost /\ ChunksInOrder
  BY DEF ListInv
<1>3. Path' = Path /\ LsRefusal' = LsRefusal
  BY <1>1, SameLine
<1>4. WalksFind'
  BY <1>1, <1>2 DEF WalksFind, OfShard
<1>5. lsNothing' => always = {}
  <2> SUFFICES ASSUME lsNothing', NEW k \in always PROVE FALSE
    OBVIOUS
  <2>1. listAt = "whole" /\ ~listFailure /\ listed = {}
    BY <1>1
  <2>2. direct = {} /\ prefixes = {} /\ emitted = <<>>
    BY <1>2, <2>1 DEF NothingYet
  <2>3. Range(emitted) = {}
    BY <2>2, EmptyShown
  <2>4. QED
    BY <1>1, <1>2, <2>1, <2>2, <2>3 DEF NoneIsLost
<1>6. CASE /\ listFailure /\ listAt' = "failed"
           /\ UNCHANGED <<walking, prefixes, direct, listed, emitted>>
  <2>1. ListTypes' /\ InOrder' /\ NothingYet'
    BY <1>1, <1>2, <1>6 DEF ListTypes, InOrder, NothingYet, Split
  <2>2. LevelShown' /\ NoneIsLost' /\ ChunksInOrder' /\ LsAnswers'
    BY <1>1, <1>5, <1>6 DEF LevelShown, NoneIsLost, ChunksInOrder, LsAnswers, Split
  <2>3. QED
    BY <1>4, <2>1, <2>2 DEF ListInv
<1>7. ASSUME ~listFailure, NEW batch, NEW kept, NEW aside, Gives(batch, kept, aside),
             prefixes # {}, emitted' = emitted \o batch, listed' = kept, direct' = aside,
             walking' = FirstOnes(prefixes, Workers),
             prefixes' = prefixes \ FirstOnes(prefixes, Workers), listAt' = "chunk"
      PROVE  ListInv'
  <2>1. listAt = "chunk"
    BY <1>1, <1>2, <1>7 DEF NothingYet, Split
  <2>2. /\ batch \in Seq(Nat) /\ Rising(batch)
        /\ kept \subseteq listed /\ aside \subseteq direct
        /\ Range(batch) \cup kept \cup aside = listed \cup direct
        /\ \A b \in Range(batch), x \in kept \cup aside : b < x
        /\ \A b \in Range(batch), k \in Keys : Place[k] \in prefixes => b < k
    BY <1>7, <2>1 DEF Gives
  <2>3. /\ prefixes \subseteq SubsOf(ever) /\ prefixes \subseteq Shards
        /\ emitted \in Seq(Nat) /\ Rising(emitted) /\ Range(emitted) \subseteq ever
        /\ listed \subseteq ever /\ direct \subseteq ever /\ ever # {}
    BY <1>2, <2>1 DEF ListTypes, InOrder, SubsOf, Shards, ChunksInOrder
  <2>4. /\ FirstOnes(prefixes, Workers) \subseteq prefixes
        /\ \A s \in walking', p \in prefixes' : s < p
    BY <1>7, <2>3, ChunkIsFirst
  <2>5. /\ emitted' \in Seq(Nat) /\ Rising(emitted')
        /\ Range(emitted') = Range(emitted) \cup Range(batch)
    <3>1. \A x \in Range(emitted), y \in Range(batch) : x < y
      BY <1>2, <2>1, <2>2 DEF ChunksInOrder
    <3>2. QED
      BY <1>7, <2>2, <2>3, <3>1, RisingOn
  <2>6. ListTypes'
    <3>1. Range(emitted') \subseteq ever
      BY <2>2, <2>3, <2>5
    <3>2. direct' \subseteq ever /\ listed' \subseteq ever /\ \A d \in direct' : Place[d] = Top
      BY <1>2, <1>7, <2>2, <2>3 DEF ListTypes
    <3>3. prefixes' \subseteq SubsOf(ever) /\ walking' \subseteq Shards \cup {All}
      BY <1>7, <2>3, <2>4
    <3>4. QED
      BY <1>1, <1>2, <1>7, <2>5, <3>1, <3>2, <3>3 DEF ListTypes
  <2>7. InOrder'
    BY <1>1, <1>2, <2>5 DEF InOrder
  <2>8. NothingYet' /\ LevelShown'
    BY <1>7, <2>3, <2>4 DEF NothingYet, LevelShown, Split
  <2>9. NoneIsLost'
    <3> SUFFICES ASSUME NEW k \in always
                 PROVE  \/ Place[k] \in prefixes' \cup walking'
                        \/ k \in direct' \cup listed' \cup Range(emitted')
      BY <1>1 DEF NoneIsLost
    <3>1. Place[k] \in prefixes \/ k \in direct \cup listed \cup Range(emitted)
      BY <1>1, <1>2, <1>7 DEF NoneIsLost
    <3>2. QED
      BY <1>7, <2>2, <2>5, <3>1
  <2>10. ChunksInOrder'
    <3>1. \A e \in Range(emitted') : \A d \in direct' \cup listed' : e < d
      BY <1>2, <1>7, <2>1, <2>2, <2>5 DEF ChunksInOrder
    <3>2. \A e \in Range(emitted'), k \in Keys :
            Place[k] \in prefixes' \cup walking' => e < k
      BY <1>2, <1>7, <2>1, <2>2, <2>4, <2>5 DEF ChunksInOrder
    <3>3. \A p \in prefixes', k \in listed' : Place[k] # Top /\ Place[k] < p
      BY <1>2, <1>7, <2>1, <2>2 DEF ChunksInOrder
    <3>4. QED
      BY <1>1, <2>3, <2>4, <3>1, <3>2, <3>3 DEF ChunksInOrder
  <2>11. LsAnswers'
    BY <1>1, <1>5, <1>7 DEF LsAnswers
  <2>12. QED
    BY <1>4, <2>6, <2>7, <2>8, <2>9, <2>10, <2>11 DEF ListInv
<1>8. ASSUME ~listFailure, NEW batch, NEW kept, NEW aside, Gives(batch, kept, aside),
             prefixes = {}, emitted' = (emitted \o batch) \o Sorted(kept \cup aside),
             listed' = {}, direct' = {}, listAt' = "listed",
             UNCHANGED <<walking, prefixes>>
      PROVE  ListInv'
  <2>1. /\ batch \in Seq(Nat) /\ Rising(batch)
        /\ kept \subseteq listed /\ aside \subseteq direct
        /\ Range(batch) \cup kept \cup aside = listed \cup direct
        /\ \A b \in Range(batch), x \in kept \cup aside : b < x
    BY <1>8 DEF Gives
  <2>2. /\ emitted \in Seq(Nat) /\ Rising(emitted) /\ Range(emitted) \subseteq ever
        /\ listed \subseteq ever /\ direct \subseteq ever /\ ever \subseteq Keys
    BY <1>2 DEF ListTypes, InOrder
  <2>3. \A e \in Range(emitted), d \in direct \cup listed : e < d
    <3>1. CASE listAt = "chunk"
      BY <1>2, <3>1 DEF ChunksInOrder
    <3>2. CASE listAt = "whole"
      BY <1>2, <3>2, EmptyShown DEF NothingYet
    <3>3. QED
      BY <1>1, <3>1, <3>2 DEF Split
  <2>4. /\ emitted \o batch \in Seq(Nat) /\ Rising(emitted \o batch)
        /\ Range(emitted \o batch) = Range(emitted) \cup Range(batch)
    <3>1. \A x \in Range(emitted), y \in Range(batch) : x < y
      BY <2>1, <2>3
    <3>2. QED
      BY <2>1, <2>2, <3>1, RisingOn
  <2>5. /\ Sorted(kept \cup aside) \in Seq(Nat) /\ Rising(Sorted(kept \cup aside))
        /\ Range(Sorted(kept \cup aside)) = kept \cup aside
    <3>1. kept \cup aside \subseteq Keys
      BY <2>1, <2>2
    <3>2. QED
      BY <3>1, SortedKeys
  <2>6. /\ emitted' \in Seq(Nat) /\ Rising(emitted')
        /\ Range(emitted') = Range(emitted) \cup listed \cup direct
    <3>1. \A x \in Range(emitted \o batch), y \in Range(Sorted(kept \cup aside)) : x < y
      BY <2>1, <2>3, <2>4, <2>5
    <3>2. /\ emitted' \in Seq(Nat) /\ Rising(emitted')
          /\ Range(emitted') = Range(emitted \o batch) \cup Range(Sorted(kept \cup aside))
      BY <1>8, <2>4, <2>5, <3>1, RisingOn
    <3>3. QED
      BY <2>1, <2>4, <2>5, <3>2
  <2>7. ListTypes'
    BY <1>1, <1>2, <1>8, <2>2, <2>6 DEF ListTypes
  <2>8. InOrder'
    BY <1>1, <1>2, <2>6 DEF InOrder
  <2>9. NothingYet' /\ NoneIsLost' /\ ChunksInOrder'
    BY <1>1, <1>8 DEF NothingYet, NoneIsLost, ChunksInOrder, Split
  <2>10. \A k \in always : k \in Range(emitted')
    BY <1>1, <1>2, <1>8, <2>6 DEF NoneIsLost
  <2>11. LevelShown'
    BY <1>1, <1>8, <2>10 DEF LevelShown
  <2>12. ~ lsNothing' => ever # {}
    BY <1>1, <1>2, <1>8, <2>2 DEF ChunksInOrder, Split
  <2>13. LsAnswers'
    BY <1>1, <1>5, <1>8, <2>12 DEF LsAnswers
  <2>14. QED
    BY <1>4, <2>7, <2>8, <2>9, <2>11, <2>13 DEF ListInv
<1>. QED BY <1>6, <1>7, <1>8, JoinIs

LEMMA ListSteps ==
  ASSUME ListConstants, ListInv, [ListNext]_listVars PROVE ListInv'
<1>1. CASE LsBegin
  BY <1>1, BeginKeeps
<1>2. CASE LevelPage
  <2>1. listAt \in {"buckets", "level"}
    BY <1>2 DEF LevelPage
  <2>2. QED
    BY <1>2, <2>1, BucketsKeep, LevelKeeps
<1>3. CASE ShallowPage
  BY <1>3, ShallowKeeps
<1>4. CASE ShallowFails
  BY <1>4, FailKeeps
<1>5. CASE Walk
  BY <1>5, WalkKeeps, WalkFailKeeps DEF Walk
<1>6. CASE JoinChunk
  BY <1>6, JoinKeeps
<1>7. CASE \E k \in Keys : Change(k)
  BY <1>7, ChangeKeeps
<1>8. CASE UNCHANGED listVars
  <2>1. UNCHANGED <<listAt, lsLine, direct, prefixes, emitted, lsDirs, lsNothing, cursor,
                    walking, found, listed, listFailure, bucket, ever, always>>
    BY <1>8 DEF listVars, topVars, shownVars, walkVars, bucketVars
  <2>2. Path' = Path /\ LsRefusal' = LsRefusal
    BY <2>1, SameLine
  <2>3. ListTypes' /\ InOrder' /\ NothingYet' /\ WalksFind'
    BY <2>1 DEF ListInv, ListTypes, InOrder, NothingYet, WalksFind, OfShard, Split
  <2>4. LevelShown' /\ NoneIsLost' /\ ChunksInOrder' /\ LsAnswers'
    BY <2>1, <2>2 DEF ListInv, LevelShown, NoneIsLost, ChunksInOrder, LsAnswers, Split
  <2>5. QED
    BY <2>3, <2>4 DEF ListInv
<1>. QED BY <1>1, <1>2, <1>3, <1>4, <1>5, <1>6, <1>7, <1>8 DEF ListNext, ListStep

LEMMA ListMeans == ASSUME ListInv PROVE ListedInOrder
<1>1. ListTypes /\ InOrder /\ LevelShown /\ LsAnswers
  BY DEF ListInv
<1>2. /\ \A i, j \in DOMAIN emitted : i < j => emitted[i] < emitted[j]
      /\ \A i, j \in DOMAIN lsDirs : i < j => lsDirs[i] < lsDirs[j]
  BY <1>1 DEF InOrder, Rising
<1>3. Range(emitted) \subseteq ever /\ Range(lsDirs) \subseteq {Place[k] : k \in ever}
  BY <1>1 DEF ListTypes
<1>4. listAt = "listed" =>
        \A k \in always : k \in Range(emitted) \/ Place[k] \in Range(lsDirs)
  BY <1>1 DEF LevelShown
<1>5. LsRefusal \in {252, 255, 0}
  BY DEF LsRefusal, UsageCode, GeneralCode
<1>6. LsCode = 1 => always = {}
  BY <1>1, <1>5 DEF LsCode, LsAnswers, ServiceCode
<1>7. LsCode = 0 /\ Path = "key" => ever # {}
  BY <1>1, <1>5 DEF LsCode, LsAnswers, ServiceCode
<1>. QED BY <1>2, <1>3, <1>4, <1>6, <1>7 DEF ListedInOrder

(* However the walks of the shards interleave and fail, and whatever other *)
(* clients put and delete meanwhile, of any keys, with pages and chunks of *)
(* any size: a listing gives keys in key order, each once, that were there *)
(* at some moment; one that ends without an error gave every key that was  *)
(* there all along, or the sub-prefix it is under; and the code of `ls'    *)
(* tells whether there was something.  (Of a service that answers with     *)
(* pages: see the head of Listing.)                                        *)
THEOREM ListingIsComplete ==
  ASSUME ListConstants PROVE ListSpec => []ListedInOrder
<1>1. ListInit => ListInv
  BY ListStart
<1>2. ListInv /\ [ListNext]_listVars => ListInv'
  BY ListSteps
<1>3. ListInv => ListedInOrder
  BY ListMeans
<1>. QED BY <1>1, <1>2, <1>3, PTL DEF ListSpec

-----------------------------------------------------------------------------
(* `aws s3 sync`, run after run, of a source that is edited meanwhile.     *)

SyncFile == [data : DOMAIN SizeOf, time : Nat]
SyncSide == [Names -> {NoFile} \cup SyncFile]
Entry == [name : Names, file : SyncFile]

(* S3 lists the names in their own order: where a key has a doubled slash  *)
(* it does not, and the merge goes wrong.                                  *)
SyncConstants ==
  /\ ScanOrder \in Seq(Nat)
  /\ \A m, n \in Names : m < n => ScanOrder[m] < ScanOrder[n]
  /\ SizeOf \in Seq(Nat) \ {<<>>}
  /\ Sources \subseteq SyncSide /\ Dests \subseteq SyncSide
  /\ \A h \in Hows : /\ h.way \in {"upload", "download", "copy"}
                     /\ h.delete \in BOOLEAN /\ h.dryrun \in BOOLEAN
  /\ Second \in Nat \ {0}

(* What the source was taken to hold.                                      *)
Sought(n) == IF n \in how.excluded THEN NoFile ELSE before.source[n]

Lists(items, n) == \E i \in DOMAIN items : items[i].name = n
ListsOf(items, side) ==
  /\ items \in Seq(Entry)
  /\ \A i \in DOMAIN items : items[i].file = side[items[i].name]
  /\ \A i, j \in DOMAIN items : i < j => items[i].name < items[j].name

SyncTypes ==
  /\ how \in Hows
  /\ syncAt \in {"idle", "dest", "plan", "transfer", "delete", "over"}
  /\ source \in SyncSide /\ dest \in SyncSide
  /\ before.source \in SyncSide /\ before.dest \in SyncSide
  /\ edits \in Nat /\ before.edits \in Nat /\ before.edits <= edits
  /\ Quiet => source = before.source
  /\ clock \in Nat /\ began \in Nat /\ began <= clock
  /\ failed \in BOOLEAN /\ warned \in BOOLEAN /\ steady \in BOOLEAN
  /\ transfers \subseteq Entry /\ deletes \subseteq Names

(* A dry run changes nothing.  What is planned is done before the end.     *)
NothingLeft ==
  /\ how.dryrun => /\ ~steady /\ syncAt \notin {"transfer", "delete"}
                   /\ dest = before.dest
  /\ ~how.dryrun /\ syncAt \in {"idle", "dest", "over"} => transfers = {} /\ deletes = {}
  /\ syncAt = "delete" => transfers = {}

(* What is left of the listings while they are merged.                     *)
Scanned ==
  /\ syncAt \in {"dest", "plan"} =>
       /\ Quiet /\ dest = before.dest
       /\ ListsOf(left, before.source)
       /\ \A n \in Names : Lists(left, n) => n \notin how.excluded
  /\ syncAt = "dest" /\ ~warned =>
       \A n \in Names : Sought(n) # NoFile => Lists(left, n)
  /\ syncAt = "plan" => ListsOf(right, before.dest)
  /\ syncAt # "idle" /\ ~warned =>
       \A n \in unreadable : before.source[n] = NoFile

(* Without a warning, a name that is not yet merged is in both listings if *)
(* both sides have it; of one that is, what the two sides said is planned. *)
MergedName(n) ==
  /\ Sought(n) # NoFile =>
       /\ before.dest[n] # NoFile => (Lists(left, n) <=> Lists(right, n))
       /\ Lists(right, n) => Lists(left, n)
       /\ \/ Lists(left, n)
          \/ [name |-> n, file |-> Sought(n)] \in transfers
          \/ before.dest[n] # NoFile /\ ~ShouldSync(Sought(n), before.dest[n])
  /\ Sought(n) = NoFile /\ how.delete =>
       before.dest[n] = NoFile \/ Lists(right, n) \/ n \in deletes
Merged ==
  ~how.dryrun /\ syncAt = "plan" /\ ~warned => \A n \in Names : MergedName(n)

Planned ==
  ~how.dryrun /\ syncAt \in {"plan", "transfer", "delete"} /\ ~warned =>
    /\ \A item \in transfers : /\ Sought(item.name) # NoFile
                               /\ item.file = Sought(item.name)
    /\ \A n \in deletes : how.delete /\ Sought(n) = NoFile

(* What a transfer of a source that nobody edited leaves.                  *)
Written(n) ==
  /\ dest[n] # NoFile
  /\ dest[n].data = Sought(n).data
  /\ IF how.way = "download" THEN dest[n].time = Sought(n).time
     ELSE WholeSecond(began) <= dest[n].time
UpToDate(n) ==
  /\ dest[n] = before.dest[n] /\ dest[n] # NoFile
  /\ ~ShouldSync(Sought(n), dest[n])
Brought(n) ==
  IF Sought(n) # NoFile
  THEN [name |-> n, file |-> Sought(n)] \in transfers \/ Written(n) \/ UpToDate(n)
  ELSE IF how.delete THEN n \in deletes \/ dest[n] = NoFile ELSE dest[n] = before.dest[n]
Executed ==
  ~how.dryrun /\ syncAt \in {"transfer", "delete", "over"} /\ ~failed /\ ~warned /\ Quiet =>
    \A n \in Names : Brought(n)

(* What has been synced and is not edited needs no sync.                   *)
Settled(n) ==
  IF n \notin how.excluded /\ source[n] # NoFile
  THEN dest[n] # NoFile /\ ~ShouldSync(source[n], dest[n])
  ELSE how.delete => dest[n] = NoFile
Steady ==
  steady => /\ transfers = {} /\ deletes = {} /\ ~warned
            /\ \A n \in unreadable : source[n] = NoFile
            /\ \A n \in Names : Settled(n)

SyncInv == SyncTypes /\ NothingLeft /\ Scanned /\ Merged /\ Planned /\ Executed /\ Steady

LEMMA NamesAreFinite ==
  ASSUME SyncConstants
  PROVE  Names \subseteq Nat /\ IsFiniteSet(Names)
<1>1. Names = 1 .. Len(ScanOrder) /\ Len(ScanOrder) \in Nat
  BY DEF SyncConstants, Names
<1>. QED BY <1>1, FS_Interval

(* A scan lists what is there, in the order of the names, each once.       *)
LEMMA ListedIs ==
  ASSUME SyncConstants, NEW side \in SyncSide, NEW names, names \subseteq Names,
         NEW order, order = ScanOrder \/ order = [n \in Names |-> n]
  PROVE  /\ ListsOf(Listed(side, names, order), side)
         /\ \A n \in Names :
              Lists(Listed(side, names, order), n) <=> n \in names /\ side[n] # NoFile
<1> DEFINE there == {n \in names : side[n] # NoFile}
           rank == ByPlace(there, order)
           items == Listed(side, names, order)
           num == Cardinality(there)
<1>1. there \subseteq Nat /\ IsFiniteSet(there) /\ there \subseteq Names
  BY NamesAreFinite, FS_Subset
<1>2. num \in Nat
  BY <1>1, FS_CardinalityType
<1>3. \A m, n \in Names : order[m] < order[n] <=> m < n
  <2>1. CASE order = [n \in Names |-> n]
    BY <2>1
  <2>2. CASE order = ScanOrder
    <3>1. \A m \in Names : order[m] \in Nat /\ m \in Nat
      BY <2>2 DEF SyncConstants, Names
    <3>2. \A m, n \in Names : m < n => order[m] < order[n]
      BY <2>2 DEF SyncConstants
    <3>3. QED BY <3>1, <3>2
  <2>3. QED BY <2>1, <2>2
<1>4. \A n \in there : {m \in there : order[m] < order[n]} = Smaller(n, there)
  BY <1>1, <1>3 DEF Smaller
<1>5. rank = Sorted(there)
  <2> DEFINE ByOrder(k) ==
               CHOOSE n \in there : Cardinality({m \in there : order[m] < order[n]}) = k - 1
             BySize(k) == CHOOSE n \in there : Cardinality(Smaller(n, there)) = k - 1
  <2>1. \A k : ByOrder(k) = BySize(k)
    BY <1>4
  <2>2. Sorted(there) = [k \in 1 .. num |-> BySize(k)]
    BY DEF Sorted
  <2>3. rank = [k \in 1 .. num |-> ByOrder(k)]
    BY DEF ByPlace
  <2> HIDE DEF there, rank, num, ByOrder, BySize
  <2>4. QED BY <2>1, <2>2, <2>3
<1>6. rank \in Seq(Nat) /\ Range(rank) = there /\ Rising(rank)
  BY <1>1, <1>5, SortedIs
<1>7. DOMAIN rank = 1 .. num
  BY <1>5 DEF Sorted
<1>8. items = [k \in DOMAIN rank |-> [name |-> rank[k], file |-> side[rank[k]]]]
  BY DEF Listed
<1>9. \A n \in there : side[n] \in SyncFile
  BY <1>1 DEF SyncSide
<1> HIDE DEF items, rank, num, there
<1>10. DOMAIN items = 1 .. num
       /\ \A k \in 1 .. num : items[k] = [name |-> rank[k], file |-> side[rank[k]]]
  BY <1>7, <1>8
<1>11. \A k \in 1 .. num : rank[k] \in there
  BY <1>6, <1>7 DEF Range
<1>12. items \in Seq(Entry)
  <2>1. \A k \in 1 .. num : [name |-> rank[k], file |-> side[rank[k]]] \in Entry
    BY <1>1, <1>9, <1>11 DEF Entry
  <2>2. QED BY <1>2, <1>7, <1>8, <2>1
<1>13. ListsOf(items, side)
  <2>1. \A i \in DOMAIN items : items[i].file = side[items[i].name]
    BY <1>10
  <2>2. \A i, j \in DOMAIN items : i < j => items[i].name < items[j].name
    BY <1>6, <1>7, <1>10 DEF Rising
  <2>3. QED BY <1>12, <2>1, <2>2 DEF ListsOf
<1>14. ASSUME NEW n \in there PROVE Lists(items, n)
  <2>1. PICK k \in 1 .. num : rank[k] = n
    BY <1>6, <1>7 DEF Range
  <2>2. QED BY <1>10, <2>1 DEF Lists
<1>15. ASSUME NEW n \in Names, Lists(items, n) PROVE n \in there
  <2>1. PICK k \in 1 .. num : items[k].name = n
    BY <1>10, <1>15 DEF Lists
  <2>2. QED BY <1>10, <1>11, <2>1
<1>16. \A n \in Names : Lists(items, n) <=> n \in there
  BY <1>14, <1>15
<1>. QED BY <1>13, <1>16 DEF items, there

(* The head of a listing, and what is left after it.                       *)
LEMMA ListHead ==
  ASSUME SyncConstants, NEW side, NEW items, ListsOf(items, side), items # <<>>
  PROVE  /\ items[1] \in Entry /\ items[1].file = side[items[1].name]
         /\ Lists(items, items[1].name)
         /\ ListsOf(Tail(items), side)
         /\ \A n \in Names : /\ Lists(Tail(items), n) <=> Lists(items, n) /\ n # items[1].name
                             /\ Lists(items, n) => items[1].name <= n
<1> DEFINE num == Len(items)
<1>1. items \in Seq(Entry) /\ num \in Nat \ {0} /\ DOMAIN items = 1 .. num
  BY DEF ListsOf
<1>2. \A i \in 1 .. num : items[i] \in Entry
  BY <1>1
<1>3. Tail(items) \in Seq(Entry) /\ DOMAIN Tail(items) = 1 .. num - 1
      /\ \A i \in 1 .. num - 1 : Tail(items)[i] = items[i + 1]
  BY <1>1
<1>4. 1 \in 1 .. num /\ \A i \in 1 .. num - 1 : i + 1 \in 1 .. num
  BY <1>1
<1>5. \A i \in 1 .. num : i = 1 \/ \E j \in 1 .. num - 1 : i = j + 1
  <2> TAKE i \in 1 .. num
  <2>1. CASE i = 1 BY <2>1
  <2>2. CASE i # 1
    <3>1. i - 1 \in 1 .. num - 1 /\ i = (i - 1) + 1
      BY <1>1, <2>2
    <3>2. QED BY <3>1
  <2>3. QED BY <2>1, <2>2
<1>6. \A i \in 1 .. num : items[i].name \in Nat
  BY <1>2, NamesAreFinite DEF Entry
<1>7. \A i, j \in 1 .. num : i < j => items[i].name < items[j].name
  BY <1>1 DEF ListsOf
<1>8. \A i \in 1 .. num - 1 : items[1].name < Tail(items)[i].name
  <2> TAKE i \in 1 .. num - 1
  <2>1. 1 < i + 1
    OBVIOUS
  <2>2. QED BY <1>3, <1>4, <1>7, <2>1
<1>9. items[1] \in Entry /\ items[1].file = side[items[1].name] /\ Lists(items, items[1].name)
  BY <1>1, <1>2, <1>4 DEF ListsOf, Lists
<1>10. ListsOf(Tail(items), side)
  <2>1. \A i \in 1 .. num - 1 : Tail(items)[i].file = side[Tail(items)[i].name]
    BY <1>1, <1>3, <1>4 DEF ListsOf
  <2>2. ASSUME NEW i \in 1 .. num - 1, NEW j \in 1 .. num - 1, i < j
        PROVE  Tail(items)[i].name < Tail(items)[j].name
    <3>1. i + 1 < j + 1
      BY <2>2
    <3>2. QED BY <1>3, <1>4, <1>7, <3>1
  <2>3. QED BY <1>3, <2>1, <2>2 DEF ListsOf
<1>11. ASSUME NEW n \in Names, Lists(items, n)
       PROVE  items[1].name <= n /\ (n # items[1].name => Lists(Tail(items), n))
  <2>1. PICK i \in 1 .. num : items[i].name = n
    BY <1>1, <1>11 DEF Lists
  <2>2. CASE i = 1
    BY <1>6, <2>1, <2>2
  <2>3. CASE i # 1
    <3>1. PICK j \in 1 .. num - 1 : i = j + 1
      BY <1>5, <2>3
    <3>2. Tail(items)[j].name = n
      BY <1>3, <2>1, <3>1
    <3>3. items[1].name < n
      BY <1>8, <3>2
    <3>4. n \in Nat /\ items[1].name \in Nat
      BY <1>4, <1>6, <2>1
    <3>5. Lists(Tail(items), n)
      BY <1>3, <3>2 DEF Lists
    <3>6. QED BY <3>3, <3>4, <3>5
  <2>4. QED BY <2>2, <2>3
<1>12. ASSUME NEW n \in Names, Lists(Tail(items), n)
       PROVE  Lists(items, n) /\ n # items[1].name
  <2>1. PICK j \in 1 .. num - 1 : Tail(items)[j].name = n
    BY <1>3, <1>12 DEF Lists
  <2>2. items[j + 1].name = n /\ j + 1 \in 1 .. num
    BY <1>3, <1>4, <2>1
  <2>3. items[1].name < n /\ n \in Nat /\ items[1].name \in Nat
    BY <1>4, <1>6, <1>8, <2>1, <2>2
  <2>4. QED BY <1>1, <2>2, <2>3 DEF Lists
<1>13. \A n \in Names : /\ Lists(Tail(items), n) <=> Lists(items, n) /\ n # items[1].name
                        /\ Lists(items, n) => items[1].name <= n
  BY <1>11, <1>12
<1>. QED BY <1>9, <1>10, <1>13

(* What the merge takes is in one listing only, or the head of both.       *)
LEMMA MergeSides ==
  ASSUME SyncConstants, NEW sideL, NEW sideR, ListsOf(left, sideL), ListsOf(right, sideR)
  PROVE  /\ NextSide = "source" => left # <<>> /\ ~Lists(right, left[1].name)
         /\ NextSide = "both" => left # <<>> /\ right # <<>> /\ left[1].name = right[1].name
         /\ NextSide = "dest" /\ (left # <<>> \/ right # <<>>) =>
              right # <<>> /\ ~Lists(left, right[1].name)
<1>1. \A n : ~Lists(<<>>, n)
  BY DEF Lists
<1>2. left # <<>> => left[1].name \in Names /\ left[1].name \in Nat
  BY ListHead, NamesAreFinite DEF Entry
<1>3. right # <<>> => right[1].name \in Names /\ right[1].name \in Nat
  BY ListHead, NamesAreFinite DEF Entry
<1>4. ASSUME left # <<>>, NEW n \in Names, Lists(left, n) PROVE left[1].name <= n
  BY <1>4, ListHead
<1>5. ASSUME right # <<>>, NEW n \in Names, Lists(right, n) PROVE right[1].name <= n
  BY <1>5, ListHead
<1>6. CASE left = <<>>
  BY <1>1, <1>6 DEF NextSide
<1>7. CASE left # <<>> /\ right = <<>>
  BY <1>1, <1>7 DEF NextSide
<1>8. CASE left # <<>> /\ right # <<>>
  <2>1. CASE left[1].name = right[1].name
    BY <1>8, <2>1 DEF NextSide
  <2>2. CASE left[1].name < right[1].name
    <3>1. NextSide = "source"
      BY <1>2, <1>3, <1>8, <2>2 DEF NextSide
    <3>2. ~Lists(right, left[1].name)
      BY <1>2, <1>3, <1>5, <1>8, <2>2
    <3>3. QED BY <1>8, <3>1, <3>2
  <2>3. CASE right[1].name < left[1].name
    <3>1. NextSide = "dest"
      BY <1>2, <1>3, <1>8, <2>3 DEF NextSide
    <3>2. ~Lists(left, right[1].name)
      BY <1>2, <1>3, <1>4, <1>8, <2>3
    <3>3. QED BY <1>8, <3>1, <3>2
  <2>4. QED BY <1>2, <1>3, <1>8, <2>1, <2>2, <2>3
<1>. QED BY <1>6, <1>7, <1>8

(* Whole seconds keep the order of times.                                  *)
LEMMA WholeSeconds ==
  ASSUME SyncConstants, NEW s \in Nat, NEW t \in Nat, s <= t
  PROVE  /\ WholeSecond(s) \in Nat /\ WholeSecond(s) <= s
         /\ WholeSecond(s) <= WholeSecond(t)
<1>1. Second \in Nat \ {0}
  BY DEF SyncConstants
<1> DEFINE q(x) == x \div Second
           r(x) == x % Second
<1>2. \A x \in Nat : q(x) \in Nat /\ r(x) \in 0 .. Second - 1 /\ x = Second * q(x) + r(x)
  BY <1>1
<1>3. q(s) \in Nat /\ r(s) \in 0 .. Second - 1 /\ s = Second * q(s) + r(s)
  BY <1>2
<1>4. q(t) \in Nat /\ r(t) \in 0 .. Second - 1 /\ t = Second * q(t) + r(t)
  BY <1>2
<1>5. WholeSecond(s) = s - r(s) /\ WholeSecond(t) = t - r(t)
  BY DEF WholeSecond
<1> HIDE DEF q, r
<1>6. q(s) <= q(t)
  <2>1. SUFFICES ASSUME q(t) + 1 <= q(s) PROVE FALSE
    BY <1>3, <1>4
  <2>2. Second * (q(t) + 1) <= Second * q(s)
    BY <1>1, <1>3, <1>4, <2>1
  <2>3. Second * (q(t) + 1) = Second * q(t) + Second
    BY <1>1, <1>4
  <2>4. QED BY <1>1, <1>3, <1>4, <2>2, <2>3
<1>7. Second * q(s) <= Second * q(t) /\ Second * q(s) \in Nat
  BY <1>1, <1>3, <1>4, <1>6
<1>. QED BY <1>1, <1>3, <1>4, <1>5, <1>7

(* Something is there if it has a content, whose number is a positive one. *)
LEMMA FileOrNone ==
  ASSUME SyncConstants, NEW side \in SyncSide, NEW n \in Names
  PROVE  /\ side[n] = NoFile \/ side[n] \in SyncFile
         /\ NoFile \notin SyncFile
<1>1. 0 \notin DOMAIN SizeOf
  BY DEF SyncConstants
<1>. QED BY <1>1 DEF SyncSide, SyncFile, NoFile

LEMMA SyncBegins ==
  ASSUME SyncConstants, SyncInit
  PROVE  SyncInv
<1>1. SyncTypes
  <2>1. source \in SyncSide /\ dest \in SyncSide /\ Second \in Nat
    BY DEF SyncInit, SyncConstants
  <2>2. before.source = source /\ before.dest = dest /\ before.edits = 0
    BY DEF SyncInit
  <2>3. /\ how \in Hows
        /\ syncAt \in {"idle", "dest", "plan", "transfer", "delete", "over"}
        /\ edits \in Nat /\ before.edits \in Nat /\ before.edits <= edits
    BY <2>2 DEF SyncInit
  <2>4. clock \in Nat /\ began \in Nat /\ began <= clock
    BY <2>1 DEF SyncInit
  <2>5. /\ failed \in BOOLEAN /\ warned \in BOOLEAN /\ steady \in BOOLEAN
        /\ transfers \subseteq Entry /\ deletes \subseteq Names
    BY DEF SyncInit
  <2>6. QED BY <2>1, <2>2, <2>3, <2>4, <2>5 DEF SyncTypes
<1>2. NothingLeft /\ Scanned /\ Merged /\ Planned /\ Executed /\ Steady
  BY DEF SyncInit, NothingLeft, Scanned, Merged, Planned, Executed, Steady
<1>. QED BY <1>1, <1>2 DEF SyncInv

LEMMA ScanSourceStep ==
  ASSUME SyncConstants, SyncInv, ScanSource
  PROVE  SyncInv'
<1> DEFINE names == IF FromS3 THEN Included(Names) ELSE Included(Names \ unreadable)
<1>1. source \in SyncSide /\ dest \in SyncSide
  BY DEF SyncInv, SyncTypes
<1>2. names \subseteq Names
  BY DEF Included
<1>3. /\ ListsOf(left', source)
      /\ \A n \in Names : Lists(left', n) <=> n \in names /\ source[n] # NoFile
  <2>1. CASE FromS3
    <3>1. left' = Listed(source, names, ScanOrder)
      BY <2>1 DEF ScanSource, ScanS3
    <3>2. QED BY <1>1, <1>2, <3>1, ListedIs
  <2>2. CASE ~FromS3
    <3>1. left' = Listed(source, names, [n \in Names |-> n])
      BY <2>2 DEF ScanSource, ScanLocal
    <3>2. QED BY <1>1, <1>2, <3>1, ListedIs
  <2>3. QED BY <2>1, <2>2
<1>4. before'.source = source /\ before'.dest = dest /\ before'.edits = edits
  BY DEF ScanSource
<1>5. /\ syncAt' = "dest" /\ how' = how /\ source' = source /\ dest' = dest
      /\ unreadable' = unreadable /\ transfers' = transfers /\ deletes' = deletes
      /\ edits' = edits /\ clock' = clock /\ began' = clock /\ steady' = steady
      /\ failed' = FALSE /\ warned' = (\E n \in unreadable : source[n] # NoFile)
  BY DEF ScanSource, sideVars
<1>6. SyncTypes'
  <2>1. warned' \in BOOLEAN
    BY <1>5
  <2>2. /\ before'.source \in SyncSide /\ before'.dest \in SyncSide
        /\ before'.edits \in Nat /\ before'.edits <= edits' /\ source' = before'.source
    BY <1>1, <1>4, <1>5 DEF SyncInv, SyncTypes
  <2>3. began' \in Nat /\ began' <= clock'
    BY <1>5 DEF SyncInv, SyncTypes
  <2>4. failed' \in BOOLEAN /\ steady' \in BOOLEAN
    BY <1>5 DEF SyncInv, SyncTypes
  <2>5. QED BY <1>5, <2>1, <2>2, <2>3, <2>4 DEF SyncInv, SyncTypes
<1>7. NothingLeft'
  BY <1>4, <1>5 DEF SyncInv, NothingLeft, ScanSource
<1>8. Scanned'
  <2>1. Quiet' /\ dest' = before'.dest /\ ListsOf(left', before'.source)
    BY <1>3, <1>4, <1>5 DEF Quiet
  <2>2. ~warned' => \A n \in unreadable : source[n] = NoFile
    BY <1>5
  <2>3. \A n \in Names : Lists(left', n) => n \notin how.excluded
    BY <1>3 DEF Included
  <2>4. ASSUME ~warned', NEW n \in Names, Sought(n)' # NoFile
        PROVE  Lists(left', n)
    <3>1. n \notin how.excluded /\ source[n] # NoFile
      BY <1>4, <1>5, <2>4 DEF Sought
    <3>2. n \notin unreadable
      BY <2>2, <2>4, <3>1
    <3>3. QED BY <1>3, <3>1, <3>2 DEF Included
  <2>5. QED BY <1>4, <1>5, <2>1, <2>2, <2>3, <2>4 DEF Scanned, Lists
<1>9. Merged' /\ Planned' /\ Executed'
  BY <1>5 DEF Merged, Planned, Executed
<1>10. Steady'
  BY <1>4, <1>5 DEF SyncInv, Steady, Settled, ShouldSync, SameTime
<1>. QED BY <1>6, <1>7, <1>8, <1>9, <1>10 DEF SyncInv

LEMMA ScanDestStep ==
  ASSUME SyncConstants, SyncInv, ScanDest
  PROVE  SyncInv'
<1>1. dest \in SyncSide
  BY DEF SyncInv, SyncTypes
<1>2. /\ syncAt = "dest" /\ syncAt' = "plan"
      /\ UNCHANGED <<how, source, dest, unreadable, left, transfers, deletes, failed, warned,
                     clock, before, began, edits, syncs, steady>>
  BY DEF ScanDest, sideVars, outcomeVars, timeVars
<1>3. /\ ListsOf(right', dest)
      /\ \A n \in Names : Lists(right', n) <=> dest[n] # NoFile
  <2>1. right' = Listed(dest, Names, ScanOrder)
        \/ right' = Listed(dest, Names, [n \in Names |-> n])
    BY DEF ScanDest, ScanS3, ScanLocal
  <2>2. QED BY <1>1, <2>1, ListedIs
<1>4. Quiet /\ dest = before.dest /\ ListsOf(left, before.source)
      /\ \A n \in Names : Lists(left, n) => n \notin how.excluded
  BY <1>2 DEF SyncInv, Scanned
<1>5. ~warned => /\ \A n \in Names : Sought(n) # NoFile => Lists(left, n)
                 /\ \A n \in unreadable : before.source[n] = NoFile
  BY <1>2 DEF SyncInv, Scanned
<1>6. SyncTypes'
  BY <1>2 DEF SyncInv, SyncTypes, Quiet
<1>7. NothingLeft'
  BY <1>2 DEF SyncInv, NothingLeft
<1>8. Scanned'
  BY <1>2, <1>3, <1>4, <1>5 DEF Scanned, Quiet, ListsOf, Lists
<1>9. Merged'
  <2> SUFFICES ASSUME ~warned
               PROVE  Merged'
    BY <1>2 DEF Merged
  <2>1. \A n \in Names : Sought(n)' = Sought(n)
    BY <1>2 DEF Sought
  <2>2. \A n \in Names : Lists(left, n)' <=> Lists(left, n)
    BY <1>2
  <2>3. \A n \in Names : Lists(right, n)' <=> before.dest[n] # NoFile
    BY <1>3, <1>4
  <2>4. QED BY <1>2, <1>5, <2>1, <2>2, <2>3 DEF Merged, MergedName
<1>10. Planned' /\ Executed'
  BY <1>2 DEF SyncInv, NothingLeft, Planned, Executed
<1>11. Steady'
  BY <1>2 DEF SyncInv, Steady, Settled, ShouldSync, SameTime
<1>. QED BY <1>6, <1>7, <1>8, <1>9, <1>10, <1>11 DEF SyncInv

LEMMA FatalStep ==
  ASSUME SyncConstants, SyncInv, Fatal
  PROVE  SyncInv'
<1>1. /\ syncAt' = "idle" /\ transfers' = {} /\ deletes' = {} /\ steady' = FALSE
      /\ UNCHANGED <<how, source, dest, unreadable, failed, warned, clock, before, began, edits>>
  BY DEF Fatal, sideVars, outcomeVars
<1>2. SyncTypes'
  BY <1>1 DEF SyncInv, SyncTypes, Quiet
<1>3. NothingLeft' /\ Scanned' /\ Merged' /\ Planned' /\ Executed' /\ Steady'
  BY <1>1 DEF SyncInv, NothingLeft, Scanned, Merged, Planned, Executed, Steady
<1>. QED BY <1>2, <1>3 DEF SyncInv

(* One step of the merge: the head of the source's listing is h, that of   *)
(* the destination's is g.                                                 *)
LEMMA SourceHead ==
  ASSUME SyncConstants, SyncInv, syncAt = "plan", left # <<>>
  PROVE  /\ left[1] \in Entry /\ left[1].name \in Names
         /\ left[1].name \notin how.excluded
         /\ Sought(left[1].name) = left[1].file /\ source[left[1].name] = left[1].file
         /\ left[1].file # NoFile
         /\ left[1] = [name |-> left[1].name, file |-> Sought(left[1].name)]
         /\ Lists(left, left[1].name) /\ ListsOf(Tail(left), before.source)
         /\ \A n \in Names : Lists(Tail(left), n) <=> Lists(left, n) /\ n # left[1].name
<1>1. ListsOf(left, before.source) /\ Quiet
      /\ \A n \in Names : Lists(left, n) => n \notin how.excluded
  BY DEF SyncInv, Scanned
<1>2. /\ left[1] \in Entry /\ left[1].file = before.source[left[1].name]
      /\ Lists(left, left[1].name) /\ ListsOf(Tail(left), before.source)
      /\ \A n \in Names : Lists(Tail(left), n) <=> Lists(left, n) /\ n # left[1].name
  BY <1>1, ListHead
<1>3. /\ left[1].name \in Names /\ left[1].file \in SyncFile
      /\ left[1] = [name |-> left[1].name, file |-> left[1].file]
  BY <1>2 DEF Entry
<1>4. source = before.source
  BY <1>1 DEF SyncInv, SyncTypes
<1>5. left[1].file # NoFile
  <2>1. source \in SyncSide
    BY DEF SyncInv, SyncTypes
  <2>2. QED BY <1>3, <2>1, FileOrNone
<1>6. left[1].name \notin how.excluded
  BY <1>1, <1>2, <1>3
<1>7. Sought(left[1].name) = left[1].file
  BY <1>2, <1>6 DEF Sought
<1>. QED BY <1>2, <1>3, <1>4, <1>5, <1>6, <1>7

LEMMA DestHead ==
  ASSUME SyncConstants, SyncInv, syncAt = "plan", right # <<>>
  PROVE  /\ right[1] \in Entry /\ right[1].name \in Names
         /\ before.dest[right[1].name] = right[1].file /\ dest[right[1].name] = right[1].file
         /\ right[1].file # NoFile
         /\ Lists(right, right[1].name) /\ ListsOf(Tail(right), before.dest)
         /\ \A n \in Names : Lists(Tail(right), n) <=> Lists(right, n) /\ n # right[1].name
<1>1. ListsOf(right, before.dest) /\ dest = before.dest
  BY DEF SyncInv, Scanned
<1>2. /\ right[1] \in Entry /\ right[1].file = before.dest[right[1].name]
      /\ Lists(right, right[1].name) /\ ListsOf(Tail(right), before.dest)
      /\ \A n \in Names : Lists(Tail(right), n) <=> Lists(right, n) /\ n # right[1].name
  BY <1>1, ListHead
<1>3. right[1].name \in Names /\ right[1].file \in SyncFile
  BY <1>2 DEF Entry
<1>4. right[1].file # NoFile
  <2>1. source \in SyncSide
    BY DEF SyncInv, SyncTypes
  <2>2. QED BY <1>3, <2>1, FileOrNone
<1>. QED BY <1>1, <1>2, <1>3, <1>4

(* What no step of the merge changes; what is left for each of them to say. *)
MergeKeeps ==
  /\ syncAt = "plan" /\ syncAt' = "plan"
  /\ UNCHANGED <<how, source, dest, unreadable, failed, warned, clock, before, began, edits,
                 syncs, steady>>

LEMMA MergeFrame ==
  ASSUME SyncConstants, SyncInv, MergeKeeps,
         transfers' \subseteq Entry, deletes' \subseteq Names,
         ListsOf(left', before.source), ListsOf(right', before.dest),
         \A n \in Names : Lists(left', n) => Lists(left, n)
  PROVE  SyncTypes' /\ NothingLeft' /\ Scanned' /\ Executed'
<1>1. SyncTypes'
  BY DEF SyncInv, SyncTypes, MergeKeeps, Quiet
<1>2. NothingLeft'
  BY DEF SyncInv, NothingLeft, MergeKeeps
<1>3. Scanned'
  <2>1. /\ Quiet /\ dest = before.dest
        /\ \A n \in Names : Lists(left, n) => n \notin how.excluded
        /\ ~warned => \A n \in unreadable : before.source[n] = NoFile
    BY DEF SyncInv, Scanned, MergeKeeps
  <2>2. Quiet' /\ dest' = before'.dest /\ how' = how /\ warned' = warned
        /\ before' = before /\ unreadable' = unreadable /\ syncAt' = "plan"
    BY <2>1 DEF MergeKeeps, Quiet
  <2>3. \A n \in Names : Lists(left', n) => n \notin how.excluded
    BY <2>1
  <2>4. QED BY <2>1, <2>2, <2>3 DEF Scanned, Lists, ListsOf
<1>4. Executed'
  BY DEF MergeKeeps, Executed
<1>. QED BY <1>1, <1>2, <1>3, <1>4

(* A step that plans nothing keeps a settled source settled.               *)
LEMMA MergeSteady ==
  ASSUME SyncConstants, SyncInv, MergeKeeps,
         steady => transfers' = {} /\ deletes' = {}
  PROVE  Steady'
BY DEF SyncInv, Steady, MergeKeeps, Settled, ShouldSync, SameTime

LEMMA SourceOnlyStep ==
  ASSUME SyncConstants, SyncInv, MergeKeeps, left # <<>> \/ right # <<>>, SourceOnly
  PROVE  SyncInv'
<1>0. PICK h : h = left[1]
  OBVIOUS
<1>1. /\ left' = Tail(left) /\ right' = right /\ transfers' = transfers \cup {h}
      /\ deletes' = deletes /\ NextSide = "source"
  BY <1>0 DEF SourceOnly, PlanTransfer
<1>2. ListsOf(left, before.source) /\ ListsOf(right, before.dest)
  BY DEF SyncInv, Scanned, MergeKeeps
<1>3. left # <<>> /\ ~Lists(right, h.name)
  BY <1>0, <1>1, <1>2, MergeSides
<1>4. /\ h \in Entry /\ h.name \in Names /\ h.name \notin how.excluded
      /\ Sought(h.name) = h.file /\ source[h.name] = h.file /\ h.file # NoFile
      /\ h = [name |-> h.name, file |-> Sought(h.name)]
      /\ Lists(left, h.name) /\ ListsOf(Tail(left), before.source)
      /\ \A n \in Names : Lists(Tail(left), n) <=> Lists(left, n) /\ n # h.name
  BY <1>0, <1>3, SourceHead DEF MergeKeeps
<1>5. SyncTypes' /\ NothingLeft' /\ Scanned' /\ Executed'
  <2>1. transfers' \subseteq Entry /\ deletes' \subseteq Names
    BY <1>1, <1>4 DEF SyncInv, SyncTypes
  <2>2. ListsOf(left', before.source) /\ ListsOf(right', before.dest)
        /\ \A n \in Names : Lists(left', n) => Lists(left, n)
    BY <1>1, <1>2, <1>4
  <2>3. QED BY <2>1, <2>2, MergeFrame
<1>6. ~how.dryrun /\ ~warned => before.dest[h.name] = NoFile
  BY <1>3, <1>4 DEF SyncInv, Merged, MergedName, MergeKeeps
<1>7. Merged'
  <2> SUFFICES ASSUME ~how.dryrun, ~warned
               PROVE  Merged'
    BY DEF Merged, MergeKeeps
  <2>1. \A n \in Names : Sought(n)' = Sought(n) /\ (Lists(right, n)' <=> Lists(right, n))
                         /\ (Lists(left, n)' <=> Lists(left, n) /\ n # h.name)
    BY <1>1, <1>4 DEF Sought, MergeKeeps, Lists
  <2>2. \A n \in Names : ShouldSync(Sought(n), before.dest[n])'
                         <=> ShouldSync(Sought(n), before.dest[n])
    BY DEF Sought, ShouldSync, SameTime, MergeKeeps
  <2>3. ASSUME NEW n \in Names, n # h.name
        PROVE  MergedName(n)'
    BY <1>1, <2>1, <2>2, <2>3 DEF SyncInv, Merged, MergedName, MergeKeeps
  <2>4. MergedName(h.name)'
    BY <1>1, <1>3, <1>4, <1>6, <2>1 DEF MergedName, MergeKeeps
  <2>5. QED BY <2>3, <2>4 DEF Merged
<1>8. Planned'
  BY <1>1, <1>4 DEF SyncInv, Planned, Sought, MergeKeeps
<1>9. Steady'
  <2>1. ~steady
    <3>1. SUFFICES ASSUME steady PROVE FALSE
      OBVIOUS
    <3>2. ~how.dryrun /\ ~warned /\ Settled(h.name)
      BY <1>4, <3>1 DEF SyncInv, NothingLeft, Steady
    <3>3. dest[h.name] # NoFile
      BY <1>4, <3>2 DEF Settled
    <3>4. dest = before.dest
      BY DEF SyncInv, Scanned, MergeKeeps
    <3>5. QED BY <1>6, <3>2, <3>3, <3>4
  <2>2. QED BY <2>1, MergeSteady
<1>. QED BY <1>5, <1>7, <1>8, <1>9 DEF SyncInv

LEMMA BothStep ==
  ASSUME SyncConstants, SyncInv, MergeKeeps, OnBothSides
  PROVE  SyncInv'
<1>0. PICK h, g : h = left[1] /\ g = right[1]
  OBVIOUS
<1>1. /\ left' = Tail(left) /\ right' = Tail(right) /\ deletes' = deletes /\ NextSide = "both"
      /\ transfers' = IF ShouldSync(h.file, g.file) THEN transfers \cup {h} ELSE transfers
  BY <1>0 DEF OnBothSides, PlanTransfer
<1>2. ListsOf(left, before.source) /\ ListsOf(right, before.dest)
  BY DEF SyncInv, Scanned, MergeKeeps
<1>3. left # <<>> /\ right # <<>> /\ h.name = g.name
  BY <1>0, <1>1, <1>2, MergeSides
<1>4. /\ h \in Entry /\ h.name \in Names /\ h.name \notin how.excluded
      /\ Sought(h.name) = h.file /\ source[h.name] = h.file /\ h.file # NoFile
      /\ h = [name |-> h.name, file |-> Sought(h.name)]
      /\ ListsOf(Tail(left), before.source)
      /\ \A n \in Names : Lists(Tail(left), n) <=> Lists(left, n) /\ n # h.name
  BY <1>0, <1>3, SourceHead DEF MergeKeeps
<1>5. /\ before.dest[h.name] = g.file /\ dest[h.name] = g.file /\ g.file # NoFile
      /\ ListsOf(Tail(right), before.dest)
      /\ \A n \in Names : Lists(Tail(right), n) <=> Lists(right, n) /\ n # h.name
  BY <1>0, <1>3, DestHead DEF MergeKeeps
<1>6. SyncTypes' /\ NothingLeft' /\ Scanned' /\ Executed'
  <2>1. transfers' \subseteq Entry /\ deletes' \subseteq Names
    BY <1>1, <1>4 DEF SyncInv, SyncTypes
  <2>2. ListsOf(left', before.source) /\ ListsOf(right', before.dest)
        /\ \A n \in Names : Lists(left', n) => Lists(left, n)
    BY <1>1, <1>4, <1>5
  <2>3. QED BY <2>1, <2>2, MergeFrame
<1>7. Merged'
  <2> SUFFICES ASSUME ~how.dryrun, ~warned
               PROVE  Merged'
    BY DEF Merged, MergeKeeps
  <2>1. \A n \in Names : /\ Sought(n)' = Sought(n)
                         /\ Lists(right, n)' <=> Lists(right, n) /\ n # h.name
                         /\ Lists(left, n)' <=> Lists(left, n) /\ n # h.name
    BY <1>1, <1>4, <1>5 DEF Sought, MergeKeeps, Lists
  <2>2. \A n \in Names : ShouldSync(Sought(n), before.dest[n])'
                         <=> ShouldSync(Sought(n), before.dest[n])
    BY DEF Sought, ShouldSync, SameTime, MergeKeeps
  <2>3. ASSUME NEW n \in Names, n # h.name
        PROVE  MergedName(n)'
    <3>1. transfers \subseteq transfers'
      BY <1>1
    <3>2. QED BY <1>1, <2>1, <2>2, <2>3, <3>1 DEF SyncInv, Merged, MergedName, MergeKeeps
  <2>4. MergedName(h.name)'
    BY <1>1, <1>4, <1>5, <2>1, <2>2 DEF MergedName, MergeKeeps
  <2>5. QED BY <2>3, <2>4 DEF Merged
<1>8. Planned'
  BY <1>1, <1>4 DEF SyncInv, Planned, Sought, MergeKeeps
<1>9. Steady'
  <2>1. ASSUME steady PROVE ~ShouldSync(h.file, g.file)
    BY <1>4, <1>5, <2>1 DEF SyncInv, Steady, Settled
  <2>2. steady => transfers' = {} /\ deletes' = {}
    BY <1>1, <2>1 DEF SyncInv, Steady
  <2>3. QED BY <2>2, MergeSteady
<1>. QED BY <1>6, <1>7, <1>8, <1>9 DEF SyncInv

LEMMA DestOnlyStep ==
  ASSUME SyncConstants, SyncInv, MergeKeeps, left # <<>> \/ right # <<>>, DestOnly
  PROVE  SyncInv'
<1>0. PICK g : g = right[1]
  OBVIOUS
<1>1. /\ left' = left /\ right' = Tail(right) /\ transfers' = transfers /\ NextSide = "dest"
      /\ deletes' = IF how.delete THEN deletes \cup {g.name} ELSE deletes
  BY <1>0 DEF DestOnly
<1>2. ListsOf(left, before.source) /\ ListsOf(right, before.dest)
  BY DEF SyncInv, Scanned, MergeKeeps
<1>3. right # <<>> /\ ~Lists(left, g.name)
  BY <1>0, <1>1, <1>2, MergeSides
<1>4. /\ g.name \in Names /\ Lists(right, g.name)
      /\ before.dest[g.name] = g.file /\ dest[g.name] = g.file /\ g.file # NoFile
      /\ ListsOf(Tail(right), before.dest)
      /\ \A n \in Names : Lists(Tail(right), n) <=> Lists(right, n) /\ n # g.name
  BY <1>0, <1>3, DestHead DEF MergeKeeps
<1>5. SyncTypes' /\ NothingLeft' /\ Scanned' /\ Executed'
  <2>1. transfers' \subseteq Entry /\ deletes' \subseteq Names
    BY <1>1, <1>4 DEF SyncInv, SyncTypes
  <2>2. ListsOf(left', before.source) /\ ListsOf(right', before.dest)
        /\ \A n \in Names : Lists(left', n) => Lists(left, n)
    BY <1>1, <1>2, <1>4
  <2>3. QED BY <2>1, <2>2, MergeFrame
<1>6. ~how.dryrun /\ ~warned => Sought(g.name) = NoFile
  BY <1>3, <1>4 DEF SyncInv, Merged, MergedName, MergeKeeps
<1>7. Merged'
  <2> SUFFICES ASSUME ~how.dryrun, ~warned
               PROVE  Merged'
    BY DEF Merged, MergeKeeps
  <2>1. \A n \in Names : /\ Sought(n)' = Sought(n)
                         /\ Lists(right, n)' <=> Lists(right, n) /\ n # g.name
                         /\ Lists(left, n)' <=> Lists(left, n)
    BY <1>1, <1>4 DEF Sought, MergeKeeps, Lists
  <2>2. \A n \in Names : ShouldSync(Sought(n), before.dest[n])'
                         <=> ShouldSync(Sought(n), before.dest[n])
    BY DEF Sought, ShouldSync, SameTime, MergeKeeps
  <2>3. ASSUME NEW n \in Names, n # g.name
        PROVE  MergedName(n)'
    <3>1. deletes \subseteq deletes'
      BY <1>1
    <3>2. QED BY <1>1, <2>1, <2>2, <2>3, <3>1 DEF SyncInv, Merged, MergedName, MergeKeeps
  <2>4. MergedName(g.name)'
    BY <1>1, <1>4, <1>6, <2>1 DEF MergedName, MergeKeeps
  <2>5. QED BY <2>3, <2>4 DEF Merged
<1>8. Planned'
  <2> SUFFICES ASSUME ~how.dryrun, ~warned
               PROVE  Planned'
    BY DEF Planned, MergeKeeps
  <2>1. \A n \in Names : Sought(n)' = Sought(n)
    BY DEF Sought, MergeKeeps
  <2>2. deletes' \subseteq Names /\ transfers \subseteq Entry
    BY <1>1, <1>4 DEF SyncInv, SyncTypes
  <2>3. \A n \in deletes' : how.delete /\ Sought(n) = NoFile
    BY <1>1, <1>6 DEF SyncInv, Planned, MergeKeeps
  <2>4. \A item \in transfers : Sought(item.name) # NoFile /\ item.file = Sought(item.name)
    BY DEF SyncInv, Planned, MergeKeeps
  <2>5. QED BY <1>1, <2>1, <2>2, <2>3, <2>4 DEF Planned, Entry, MergeKeeps
<1>9. Steady'
  <2>1. ASSUME steady, how.delete PROVE FALSE
    <3>1. ~how.dryrun /\ ~warned /\ Settled(g.name)
      BY <1>4, <2>1 DEF SyncInv, NothingLeft, Steady
    <3>2. source = before.source
      BY DEF SyncInv, Scanned, SyncTypes, MergeKeeps
    <3>3. g.name \in how.excluded \/ source[g.name] = NoFile
      BY <1>6, <3>1, <3>2 DEF Sought
    <3>4. QED BY <1>4, <2>1, <3>1, <3>3 DEF Settled
  <2>2. steady => transfers' = {} /\ deletes' = {}
    BY <1>1, <2>1 DEF SyncInv, Steady
  <2>3. QED BY <2>2, MergeSteady
<1>. QED BY <1>5, <1>7, <1>8, <1>9 DEF SyncInv

LEMMA MergeKeepsAll ==
  ASSUME SyncConstants, SyncInv, MergeStep
  PROVE  SyncInv'
<1>1. MergeKeeps /\ (left # <<>> \/ right # <<>>)
  BY DEF MergeStep, MergeKeeps, sideVars, outcomeVars, timeVars
<1>2. CASE SourceOnly
  BY <1>1, <1>2, SourceOnlyStep
<1>3. CASE OnBothSides
  BY <1>1, <1>3, BothStep
<1>4. CASE DestOnly
  BY <1>1, <1>4, DestOnlyStep
<1>. QED BY <1>2, <1>3, <1>4 DEF MergeStep

(* When the merge is over, everything is planned that is to be done.       *)
LEMMA EndPlanStep ==
  ASSUME SyncConstants, SyncInv, EndPlan
  PROVE  SyncInv'
<1>1. /\ syncAt = "plan" /\ left = <<>> /\ right = <<>>
      /\ UNCHANGED <<how, source, dest, unreadable, transfers, deletes, failed, warned,
                     clock, before, began, edits>>
      /\ IF how.dryrun THEN syncAt' = "over" /\ steady' = FALSE
         ELSE syncAt' = "transfer" /\ steady' = steady
  BY DEF EndPlan, planVars, sideVars, outcomeVars
<1>2. how.dryrun \in BOOLEAN
  BY DEF SyncInv, SyncTypes, SyncConstants
<1>3. syncAt' \in {"transfer", "over"} /\ steady' \in BOOLEAN
  BY <1>1, <1>2 DEF SyncInv, SyncTypes
<1>4. SyncTypes'
  BY <1>1, <1>3 DEF SyncInv, SyncTypes, Quiet
<1>5. NothingLeft'
  BY <1>1, <1>2 DEF SyncInv, NothingLeft
<1>6. Scanned'
  BY <1>1, <1>3 DEF SyncInv, Scanned
<1>7. Merged'
  BY <1>3 DEF Merged
<1>8. Planned'
  BY <1>1, <1>2, <1>3 DEF SyncInv, Planned, Sought
<1>9. Executed'
  <2> SUFFICES ASSUME ~how.dryrun, ~warned
               PROVE  Executed'
    BY <1>1 DEF Executed
  <2>1. \A n : ~Lists(left, n) /\ ~Lists(right, n)
    BY <1>1 DEF Lists
  <2>2. dest = before.dest
    BY <1>1 DEF SyncInv, Scanned
  <2>3. \A n \in Names : Brought(n)
    <3> TAKE n \in Names
    <3>1. MergedName(n)
      BY <1>1 DEF SyncInv, Merged
    <3>2. QED BY <2>1, <2>2, <3>1 DEF MergedName, Brought, UpToDate
  <2>4. \A n \in Names : Brought(n)' <=> Brought(n)
    BY <1>1 DEF Brought, Sought, Written, UpToDate, ShouldSync, SameTime
  <2>5. QED BY <2>3, <2>4 DEF Executed
<1>10. Steady'
  BY <1>1, <1>2 DEF SyncInv, Steady, Settled, ShouldSync, SameTime
<1>. QED BY <1>4, <1>5, <1>6, <1>7, <1>8, <1>9, <1>10 DEF SyncInv

(* A transfer or a delete: how it came out is left for each to say.        *)
ExecutionKeeps ==
  /\ syncAt \in {"transfer", "delete"} /\ syncAt' = syncAt
  /\ transfers' \subseteq transfers /\ deletes' \subseteq deletes
  /\ ~(transfers = {} /\ deletes = {})
  /\ UNCHANGED <<how, source, unreadable, warned, clock, before, began, edits, steady>>

LEMMA ExecutionFrame ==
  ASSUME SyncConstants, SyncInv, ExecutionKeeps, dest' \in SyncSide, failed' \in BOOLEAN
  PROVE  SyncTypes' /\ NothingLeft' /\ Scanned' /\ Merged' /\ Planned' /\ Steady'
<1>1. SyncTypes'
  BY DEF SyncInv, SyncTypes, ExecutionKeeps, Quiet
<1>2. NothingLeft'
  BY DEF SyncInv, NothingLeft, ExecutionKeeps
<1>3. Scanned' /\ Merged'
  BY DEF SyncInv, Scanned, Merged, ExecutionKeeps
<1>4. Planned'
  BY DEF SyncInv, Planned, Sought, ExecutionKeeps
<1>5. Steady'
  BY DEF SyncInv, Steady, ExecutionKeeps
<1>. QED BY <1>1, <1>2, <1>3, <1>4, <1>5

LEMMA StoredIs ==
  ASSUME SyncConstants, SyncInv, NEW item \in transfers, source[item.name] # NoFile
  PROVE  Stored(item) \in SyncFile /\ item.name \in Names
<1>1. item \in Entry /\ item.name \in Names /\ item.file.time \in Nat
  BY DEF SyncInv, SyncTypes, Entry, SyncFile
<1>2. source[item.name] \in SyncFile
  BY <1>1, FileOrNone DEF SyncInv, SyncTypes
<1>3. WholeSecond(clock) \in Nat
  BY WholeSeconds DEF SyncInv, SyncTypes
<1>. QED BY <1>1, <1>2, <1>3 DEF Stored, File, SyncFile

LEMMA SideWith ==
  ASSUME SyncConstants, NEW side \in SyncSide, NEW n, NEW f \in {NoFile} \cup SyncFile
  PROVE  [side EXCEPT ![n] = f] \in SyncSide
BY DEF SyncSide

LEMMA TransferStep ==
  ASSUME SyncConstants, SyncInv, NEW item \in transfers, Transfer(item)
  PROVE  SyncInv'
<1>1. /\ syncAt = "transfer" /\ syncAt' = "transfer" /\ transfers' = transfers \ {item}
      /\ source[item.name] # NoFile /\ dest' = [dest EXCEPT ![item.name] = Stored(item)]
      /\ UNCHANGED <<how, source, unreadable, deletes, failed, warned, clock, before, began,
                     edits, steady>>
  BY DEF Transfer, Upload, Download, CopyObject, Arrives, Took, timeVars
<1>2. dest \in SyncSide /\ source \in SyncSide /\ failed \in BOOLEAN
  BY DEF SyncInv, SyncTypes
<1>3. item \in Entry /\ item.name \in Names
      /\ item = [name |-> item.name, file |-> item.file]
  BY DEF SyncInv, SyncTypes, Entry
<1>4. Stored(item) \in SyncFile
  BY <1>1, StoredIs
<1>5. /\ dest' \in SyncSide /\ dest'[item.name] = Stored(item)
      /\ \A n \in Names : n # item.name => dest'[n] = dest[n]
  <2>1. [dest EXCEPT ![item.name] = Stored(item)] \in SyncSide
    BY <1>2, <1>4, SideWith
  <2>2. \A n \in Names : [dest EXCEPT ![item.name] = Stored(item)][n]
                         = IF n = item.name THEN Stored(item) ELSE dest[n]
    BY <1>2 DEF SyncSide
  <2>3. QED BY <1>1, <1>3, <2>1, <2>2
<1>6. SyncTypes' /\ NothingLeft' /\ Scanned' /\ Merged' /\ Planned' /\ Steady'
  BY <1>1, <1>2, <1>5, ExecutionFrame DEF ExecutionKeeps
<1>7. Executed'
  <2> SUFFICES ASSUME ~how.dryrun, ~failed, ~warned, Quiet
               PROVE  \A n \in Names : Brought(n)'
    BY <1>1 DEF Executed, Quiet
  <2>1. \A n \in Names : Brought(n)
    BY <1>1 DEF SyncInv, Executed
  <2>2. \A n \in Names : Sought(n)' = Sought(n)
    BY <1>1 DEF Sought
  <2>3. ASSUME NEW n \in Names, n # item.name PROVE Brought(n)'
    <3>1. dest'[n] = dest[n]
      BY <1>5, <2>3
    <3>2. [name |-> n, file |-> Sought(n)] # item
      BY <1>3, <2>3
    <3>3. Brought(n)
      BY <2>1
    <3>4. QED
      BY <1>1, <2>2, <3>1, <3>2, <3>3
      DEF Brought, Written, UpToDate, ShouldSync, SameTime
  <2>4. Sought(item.name) # NoFile /\ item.file = Sought(item.name)
    BY <1>1 DEF SyncInv, Planned
  <2>5. Sought(item.name) = source[item.name]
    <3>1. source = before.source
      BY DEF SyncInv, SyncTypes
    <3>2. QED BY <2>4, <3>1 DEF Sought
  <2>6. WholeSecond(began) <= WholeSecond(clock)
    BY WholeSeconds DEF SyncInv, SyncTypes
  <2>7. Stored(item).data = Sought(item.name).data
    BY <2>5 DEF Stored, File
  <2>8. IF how.way = "download" THEN Stored(item).time = Sought(item.name).time
        ELSE WholeSecond(began) <= Stored(item).time
    <3>1. how.way \in {"upload", "download", "copy"}
      BY DEF SyncInv, SyncTypes, SyncConstants
    <3>2. Stored(item).time = IF ToS3 THEN WholeSecond(clock) ELSE item.file.time
      BY DEF Stored, File
    <3>3. QED BY <2>4, <2>6, <3>1, <3>2 DEF ToS3
  <2>9. Stored(item) # NoFile
    BY <1>2, <1>3, <1>4, FileOrNone
  <2>10. Written(item.name)'
    BY <1>1, <1>3, <1>5, <2>2, <2>7, <2>8, <2>9 DEF Written
  <2>11. Brought(item.name)'
    BY <1>3, <2>2, <2>4, <2>10 DEF Brought
  <2>12. QED BY <2>3, <2>11
<1>. QED BY <1>6, <1>7 DEF SyncInv

LEMMA TransferFailsStep ==
  ASSUME SyncConstants, SyncInv, NEW item \in transfers, TransferFails(item)
  PROVE  SyncInv'
<1>1. /\ syncAt = "transfer" /\ syncAt' = "transfer" /\ transfers' = transfers \ {item}
      /\ failed' = TRUE
      /\ UNCHANGED <<how, source, unreadable, deletes, warned, clock, before, began, edits,
                     steady>>
  BY DEF TransferFails, Took, timeVars
<1>2. dest \in SyncSide /\ clock \in Nat
  BY DEF SyncInv, SyncTypes
<1>3. File(Torn, clock) \in SyncFile
  BY <1>2 DEF SyncConstants, File, Torn, SyncFile
<1>4. dest' \in SyncSide
  <2>1. CASE dest' = dest
    BY <1>2, <2>1
  <2>2. CASE dest' = [dest EXCEPT ![item.name] = File(Torn, clock)]
    BY <1>2, <1>3, <2>2, SideWith
  <2>3. CASE source[item.name] # NoFile /\ dest' = [dest EXCEPT ![item.name] = Stored(item)]
    BY <1>2, <2>3, StoredIs, SideWith
  <2>4. QED BY <2>1, <2>2, <2>3 DEF TransferFails
<1>5. SyncTypes' /\ NothingLeft' /\ Scanned' /\ Merged' /\ Planned' /\ Steady'
  BY <1>1, <1>4, ExecutionFrame DEF ExecutionKeeps
<1>6. Executed'
  BY <1>1 DEF Executed
<1>. QED BY <1>5, <1>6 DEF SyncInv

LEMMA EndTransfersStep ==
  ASSUME SyncConstants, SyncInv, EndTransfers
  PROVE  SyncInv'
<1>1. /\ syncAt = "transfer" /\ transfers = {} /\ syncAt' = "delete"
      /\ UNCHANGED <<how, source, dest, unreadable, left, right, transfers, deletes, failed,
                     warned, clock, before, began, edits, syncs, steady>>
  BY DEF EndTransfers, planVars, sideVars, outcomeVars, timeVars
<1>2. SyncTypes'
  BY <1>1 DEF SyncInv, SyncTypes, Quiet
<1>3. NothingLeft' /\ Scanned' /\ Merged'
  BY <1>1 DEF SyncInv, NothingLeft, Scanned, Merged
<1>4. Planned'
  BY <1>1 DEF SyncInv, Planned, Sought
<1>5. Executed'
  BY <1>1 DEF SyncInv, Executed, Quiet, Brought, Sought, Written, UpToDate, ShouldSync, SameTime
<1>6. Steady'
  BY <1>1 DEF SyncInv, Steady, Settled, ShouldSync, SameTime
<1>. QED BY <1>2, <1>3, <1>4, <1>5, <1>6 DEF SyncInv

LEMMA DeleteStep ==
  ASSUME SyncConstants, SyncInv, NEW n \in deletes, Delete(n)
  PROVE  SyncInv'
<1>1. /\ syncAt = "delete" /\ syncAt' = "delete" /\ deletes' = deletes \ {n}
      /\ UNCHANGED <<how, source, unreadable, transfers, warned, clock, before, began, edits,
                     steady>>
      /\ \/ dest' = Without(n) /\ failed' = failed
         \/ dest' \in {dest, Without(n)} /\ failed' = TRUE
  BY DEF Delete, DeleteFile, DeleteObject, Removes, timeVars
<1>2. dest \in SyncSide /\ failed \in BOOLEAN /\ n \in Names
  BY DEF SyncInv, SyncTypes
<1>3. Without(n) \in SyncSide
      /\ \A m \in Names : Without(n)[m] = IF m = n THEN NoFile ELSE dest[m]
  <2>1. [dest EXCEPT ![n] = NoFile] \in SyncSide
    BY <1>2, SideWith
  <2>2. \A m \in Names : [dest EXCEPT ![n] = NoFile][m] = IF m = n THEN NoFile ELSE dest[m]
    BY <1>2 DEF SyncSide
  <2>3. QED BY <2>1, <2>2 DEF Without
<1>4. dest' \in SyncSide
  BY <1>1, <1>2, <1>3
<1>5. failed' \in BOOLEAN
  BY <1>1, <1>2
<1>6. SyncTypes' /\ NothingLeft' /\ Scanned' /\ Merged' /\ Planned' /\ Steady'
  BY <1>1, <1>4, <1>5, ExecutionFrame DEF ExecutionKeeps
<1>7. Executed'
  <2> SUFFICES ASSUME ~how.dryrun, ~failed, ~warned, Quiet, dest' = Without(n)
               PROVE  \A m \in Names : Brought(m)'
    BY <1>1 DEF Executed, Quiet
  <2>1. \A m \in Names : Brought(m)
    BY <1>1 DEF SyncInv, Executed
  <2>2. \A m \in Names : Sought(m)' = Sought(m)
    BY <1>1 DEF Sought
  <2>3. how.delete /\ Sought(n) = NoFile
    BY <1>1 DEF SyncInv, Planned
  <2>4. Brought(n)'
    BY <1>1, <1>2, <1>3, <2>2, <2>3 DEF Brought
  <2>5. ASSUME NEW m \in Names, m # n PROVE Brought(m)'
    <3>1. dest'[m] = dest[m]
      BY <1>3, <2>5
    <3>2. Brought(m)
      BY <2>1
    <3>3. QED
      BY <1>1, <2>2, <2>5, <3>1, <3>2
      DEF Brought, Written, UpToDate, ShouldSync, SameTime
  <2>6. QED BY <2>4, <2>5
<1>. QED BY <1>6, <1>7 DEF SyncInv

(* What was brought is settled, if no file is newer than the second the    *)
(* source was scanned in.                                                  *)
LEMMA EndSyncStep ==
  ASSUME SyncConstants, SyncInv, EndSync
  PROVE  SyncInv'
<1>1. /\ syncAt = "delete" /\ deletes = {} /\ syncAt' = "over"
      /\ steady' = (Quiet /\ ExitCode = 0 /\ Aged)
      /\ UNCHANGED <<how, source, dest, unreadable, transfers, deletes, failed, warned, clock,
                     before, began, edits>>
  BY DEF EndSync, planVars, sideVars, outcomeVars
<1>2. transfers = {} /\ ~how.dryrun
  BY <1>1 DEF SyncInv, NothingLeft
<1>3. steady' \in BOOLEAN
  BY <1>1
<1>4. SyncTypes'
  BY <1>1, <1>3 DEF SyncInv, SyncTypes, Quiet
<1>5. NothingLeft'
  BY <1>1, <1>2 DEF NothingLeft
<1>6. Scanned' /\ Merged' /\ Planned'
  BY <1>1 DEF SyncInv, Scanned, Merged, Planned
<1>7. Executed'
  BY <1>1 DEF SyncInv, Executed, Quiet, Brought, Sought, Written, UpToDate, ShouldSync, SameTime
<1>8. Steady'
  <2>. ExitCode = 0 => ~failed /\ ~warned
    BY DEF ExitCode
  <2>. steady' => Quiet /\ ExitCode = 0 /\ Aged
    BY <1>1
  <2> SUFFICES ASSUME Quiet, ~failed, ~warned, Aged
               PROVE  Steady'
    BY DEF Steady
  <2>1. source = before.source /\ source \in SyncSide /\ dest \in SyncSide
    BY DEF SyncInv, SyncTypes
  <2>2. \A n \in unreadable : source[n] = NoFile
    BY <1>1, <2>1 DEF SyncInv, Scanned
  <2>3. ASSUME NEW n \in Names PROVE Settled(n)
    <3>1. Brought(n)
      BY <1>1, <1>2 DEF SyncInv, Executed
    <3>2. CASE n \in how.excluded \/ source[n] = NoFile
      BY <1>1, <2>1, <3>1, <3>2 DEF Settled, Brought, Sought
    <3>3. CASE n \notin how.excluded /\ source[n] # NoFile
      <4>1. Sought(n) = source[n]
        BY <2>1, <3>3 DEF Sought
      <4>2. Written(n) \/ UpToDate(n)
        BY <1>2, <3>1, <3>3, <4>1 DEF Brought
      <4>3. CASE UpToDate(n)
        BY <3>3, <4>1, <4>3 DEF Settled, UpToDate
      <4>4. CASE Written(n)
        <5>1. source[n].time \in Nat /\ dest[n].time \in Nat
          BY <2>1, <3>3, <4>4, FileOrNone DEF Written, SyncFile
        <5>2. source[n].time <= WholeSecond(began) /\ WholeSecond(began) \in Nat
          BY WholeSeconds DEF Aged, SyncInv, SyncTypes
        <5>3. SameTime(source[n], dest[n])
          BY <4>1, <4>4, <5>1, <5>2 DEF SameTime, Written
        <5>4. QED BY <3>3, <4>1, <4>4, <5>3 DEF Settled, ShouldSync, Written
      <4>5. QED BY <4>2, <4>3, <4>4
    <3>4. QED BY <3>2, <3>3
  <2>4. \A n \in Names : Settled(n)' <=> Settled(n)
    BY <1>1 DEF Settled, ShouldSync, SameTime
  <2>5. QED BY <1>1, <1>2, <2>2, <2>3, <2>4 DEF Steady
<1>. QED BY <1>4, <1>5, <1>6, <1>7, <1>8 DEF SyncInv

LEMMA AgainStep ==
  ASSUME SyncConstants, SyncInv, Again
  PROVE  SyncInv'
<1>1. /\ syncAt = "over" /\ syncAt' = "idle"
      /\ UNCHANGED <<how, source, dest, unreadable, transfers, deletes, failed, warned, clock,
                     before, began, edits, steady>>
  BY DEF Again, planVars, sideVars, outcomeVars, timeVars
<1>2. SyncTypes'
  BY <1>1 DEF SyncInv, SyncTypes, Quiet
<1>3. NothingLeft' /\ Scanned' /\ Merged' /\ Planned' /\ Executed'
  BY <1>1 DEF SyncInv, NothingLeft, Scanned, Merged, Planned, Executed
<1>4. Steady'
  BY <1>1 DEF SyncInv, Steady, Settled, ShouldSync, SameTime
<1>. QED BY <1>2, <1>3, <1>4 DEF SyncInv

LEMMA EditStep ==
  ASSUME SyncConstants, SyncInv, NEW n \in Names, NEW data \in {0} \cup DOMAIN SizeOf,
         Edit(n, data)
  PROVE  SyncInv'
<1> DEFINE f == IF data = 0 THEN NoFile
                ELSE File(data, IF FromS3 THEN WholeSecond(clock) ELSE clock)
<1>1. /\ syncAt \in {"idle", "transfer"} /\ syncAt' = syncAt
      /\ source' = [source EXCEPT ![n] = f] /\ edits' = edits + 1 /\ steady' = FALSE
      /\ UNCHANGED <<how, dest, unreadable, transfers, deletes, failed, warned, clock, before,
                     began>>
  BY DEF Edit, planVars, outcomeVars
<1>2. clock \in Nat /\ WholeSecond(clock) \in Nat
  BY WholeSeconds DEF SyncInv, SyncTypes
<1>3. f \in {NoFile} \cup SyncFile
  BY <1>2 DEF File, SyncFile
<1>4. source' \in SyncSide
  BY <1>1, <1>3, SideWith DEF SyncInv, SyncTypes
<1>5. edits' \in Nat /\ before.edits \in Nat /\ before.edits < edits'
  BY <1>1 DEF SyncInv, SyncTypes
<1>6. ~Quiet'
  BY <1>1, <1>5 DEF Quiet
<1>7. SyncTypes'
  <2>1. steady' \in BOOLEAN
    BY <1>1
  <2>2. began' <= clock' /\ before'.edits \in Nat /\ before'.edits <= edits'
    BY <1>1, <1>5 DEF SyncInv, SyncTypes
  <2>3. QED BY <1>1, <1>4, <1>5, <1>6, <2>1, <2>2 DEF SyncInv, SyncTypes
<1>8. NothingLeft' /\ Scanned' /\ Merged' /\ Steady'
  BY <1>1 DEF SyncInv, NothingLeft, Scanned, Merged, Steady
<1>9. Planned'
  BY <1>1 DEF SyncInv, Planned, Sought
<1>10. Executed'
  BY <1>6 DEF Executed
<1>. QED BY <1>7, <1>8, <1>9, <1>10 DEF SyncInv

(* A tick, or a step of something else.                                    *)
LEMMA TickStep ==
  ASSUME SyncConstants, SyncInv, Tick \/ UNCHANGED syncVars
  PROVE  SyncInv'
<1>1. /\ UNCHANGED <<syncAt, how, source, dest, unreadable, left, right, transfers, deletes,
                     failed, warned, before, began, edits, syncs, steady>>
      /\ clock' \in {clock, clock + 1}
  BY DEF Tick, syncVars, planVars, sideVars, outcomeVars, timeVars
<1>2. clock' \in Nat /\ began' <= clock'
  BY <1>1 DEF SyncInv, SyncTypes
<1>3. SyncTypes'
  BY <1>1, <1>2 DEF SyncInv, SyncTypes, Quiet
<1>4. NothingLeft'
  BY <1>1 DEF SyncInv, NothingLeft
<1>5. Scanned'
  BY <1>1 DEF SyncInv, Scanned, Quiet, Sought, ListsOf, Lists
<1>6. Merged'
  BY <1>1 DEF SyncInv, Merged, MergedName, Sought, Lists, ShouldSync, SameTime
<1>7. Planned'
  BY <1>1 DEF SyncInv, Planned, Sought
<1>8. Executed'
  BY <1>1 DEF SyncInv, Executed, Quiet, Brought, Sought, Written, UpToDate, ShouldSync, SameTime
<1>9. Steady'
  BY <1>1 DEF SyncInv, Steady, Settled, ShouldSync, SameTime
<1>. QED BY <1>3, <1>4, <1>5, <1>6, <1>7, <1>8, <1>9 DEF SyncInv

LEMMA SyncInvShows ==
  ASSUME SyncConstants, SyncInv
  PROVE  SyncConverges
<1>1. ASSUME syncAt = "over", ExitCode = 0, Quiet, ~how.dryrun, NEW n \in Names
      PROVE  Mirrored(n)
  <2>1. ~failed /\ ~warned
    BY <1>1 DEF ExitCode
  <2>2. Brought(n) /\ transfers = {} /\ deletes = {}
    BY <1>1, <2>1 DEF SyncInv, Executed, NothingLeft
  <2>3. QED BY <2>2 DEF Brought, Written, UpToDate, Sought, Mirrored
<1>2. syncAt = "over" /\ how.dryrun => dest = before.dest
  BY DEF SyncInv, NothingLeft
<1>3. steady => transfers = {} /\ deletes = {}
  BY DEF SyncInv, Steady
<1>. QED BY <1>1, <1>2, <1>3 DEF SyncConverges

(* A sync that says it succeeded mirrors the source, and one that follows  *)
(* has nothing to do: for any names, contents, options, runs and edits,    *)
(* whatever order the transfers end in and however they fail.  (Of answers *)
(* that did what was asked: see the head of SyncPlan.)                     *)
THEOREM SyncIsComplete ==
  ASSUME SyncConstants
  PROVE  SyncSpec => []SyncConverges
<1>1. SyncInit => SyncInv
  BY SyncBegins
<1>2. SyncInv /\ [SyncNext]_syncVars => SyncInv'
  <2> SUFFICES ASSUME SyncInv, [SyncNext]_syncVars
               PROVE  SyncInv'
    OBVIOUS
  <2>1. CASE ScanSource \/ ScanDest \/ Fatal
    BY <2>1, ScanSourceStep, ScanDestStep, FatalStep
  <2>2. CASE MergeStep \/ EndPlan
    BY <2>2, MergeKeepsAll, EndPlanStep
  <2>3. CASE EndTransfers \/ EndSync \/ Again
    BY <2>3, EndTransfersStep, EndSyncStep, AgainStep
  <2>4. CASE \E item \in transfers : Transfer(item) \/ TransferFails(item)
    BY <2>4, TransferStep, TransferFailsStep
  <2>5. CASE \E n \in deletes : Delete(n)
    BY <2>5, DeleteStep
  <2>6. CASE \E n \in Names, data \in {0} \cup DOMAIN SizeOf : Edit(n, data)
    BY <2>6, EditStep
  <2>7. CASE Tick \/ UNCHANGED syncVars
    BY <2>7, TickStep
  <2>8. QED BY <2>1, <2>2, <2>3, <2>4, <2>5, <2>6, <2>7 DEF SyncNext, SyncStep
<1>3. SyncInv => SyncConverges
  BY SyncInvShows
<1>. QED BY <1>1, <1>2, <1>3, PTL DEF SyncSpec
===============================================================================
