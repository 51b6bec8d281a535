-------------------------------- MODULE Bundle --------------------------------
(***************************************************************************)
(* `deploy push` and `gamelift upload-build`: a directory is walked, its   *)
(* files are put into a zip archive (zip.rs) and the archive is uploaded,  *)
(* while somebody edits the directory.  Lengths are of any size, what the  *)
(* archive records of them is cut to its width; `real` keeps them whole.   *)
(* Names, times and checksums are left out, and a directory that can be    *)
(* read is read to its end.                                                *)
(***************************************************************************)
EXTENDS Integers, Sequences, FiniteSets

CONSTANTS
  DirOf,        (* the directory of each file and directory, in order of name *)
  Subdirs,      (* those that are directories; the root is 0 *)
  Hidden,       (* those whose name begins with a dot *)
  Appspec,      (* the file that a push must hold *)
  Lengths,      (* contents a file may have, by length *)
  Overhead,     (* what deflate may add to a content *)
  LocalHeader, CentralHeader, EndRecord,  (* lengths of headers *)
  Width,        (* one more than the largest length on record, 2^32 *)
  MaxCount,     (* one more than the largest number of entries, 2^16 *)
  PartSize,     (* uploads of this length and more are in parts, 6 MiB *)
  MaxFileEdits

ASSUME BundleAssumption ==
  /\ Lengths \subseteq Nat /\ Overhead \in Nat
  /\ LocalHeader \in Nat \ {0} /\ CentralHeader \in Nat \ {0} /\ EndRecord \in Nat
  /\ Width \in Nat \ {0} /\ MaxCount \in Nat \ {0} /\ MaxFileEdits \in Nat
  /\ PartSize \in Nat \ {0}

Nodes == DOMAIN DirOf
AllFiles == Nodes \ Subdirs
Absent == -1

VARIABLES
  bundleAt,    (* "check", "create", "grant", "walk", "add", "upload",       *)
               (* "parts", "abort", "register", "done", "failed", "refused"  *)
  bundler,     (* "push" or "build" *)
  skipHidden,  (* --ignore-hidden-files *)
  tree,        (* the length of each file, or Absent *)
  dirs, files, (* directories yet to be listed, and files yet to be added *)
  entries, real,  (* what the archive records of its entries, and what is so *)
  body,        (* the length of the archive so far *)
  footer,      (* the record at its end *)
  stored,      (* is the archive at its destination *)
  multipart,   (* its upload: "none", "open", or "orphan" if it stayed open  *)
               (* although somebody tried to end it                          *)
  partsSent,
  constant,    (* files that were there and not edited all the time *)
  fileEdits

treeVars == <<tree, constant, fileEdits>>
archiveVars == <<entries, real, body, footer>>
sentVars == <<stored, multipart, partsSent>>
bundleVars == <<bundleAt, bundler, skipHidden, treeVars, dirs, files,
                archiveVars, sentVars>>

NoFooter == [count |-> 0, size |-> 0, offset |-> 0]
Here == {f \in AllFiles : tree[f] # Absent}
Low(n) == IF n < Width THEN n ELSE n % Width

BundleInit ==
  /\ bundler \in {"push", "build"} /\ skipHidden \in BOOLEAN
  /\ bundler = "build" => ~skipHidden
  /\ bundleAt = IF bundler = "push" THEN "walk" ELSE "check"
  /\ tree \in [AllFiles -> Lengths \cup {Absent}]
  /\ dirs = <<0>> /\ files = {}
  /\ entries = <<>> /\ real = <<>> /\ body = 0 /\ footer = NoFooter
  /\ stored = FALSE /\ multipart = "none" /\ partsSent = 0
  /\ constant = Here /\ fileEdits = 0

-----------------------------------------------------------------------------
(* upload-build: nothing is created for a directory without files.         *)
HasAnyFile ==
  /\ bundleAt = "check"
  /\ bundleAt' = IF Here = {} THEN "failed" ELSE "create"
  /\ UNCHANGED <<bundler, skipHidden, treeVars, dirs, files, archiveVars, sentVars>>

(* A call that the program stops at if it fails.                           *)
Passes(from, to) ==
  /\ bundleAt = from
  /\ bundleAt' \in {to, "failed"}
  /\ UNCHANGED <<bundler, skipHidden, treeVars, dirs, files, archiveVars>>
CreateBuild == Passes("create", "grant") /\ UNCHANGED sentVars
GrantUpload == Passes("grant", "walk") /\ UNCHANGED sentVars
Register == Passes("register", "done") /\ UNCHANGED sentVars

(* A whole directory is listed; a directory that cannot be ends it all.    *)
Wanted(n) == ~(skipHidden /\ n \in Hidden)
In(d) == {n \in Nodes : DirOf[n] = d /\ Wanted(n)}
Pushed(d) == CHOOSE s \in [1 .. Cardinality(In(d) \cap Subdirs) -> In(d) \cap Subdirs] :
               \A i, j \in DOMAIN s : i < j => s[i] < s[j]
ListDir ==
  /\ bundleAt = "walk" /\ dirs # <<>>
  /\ LET d == dirs[Len(dirs)]
     IN /\ dirs' = SubSeq(dirs, 1, Len(dirs) - 1) \o Pushed(d)
        /\ files' = files \cup (In(d) \cap Here)
  /\ UNCHANGED <<bundleAt, bundler, skipHidden, treeVars, archiveVars, sentVars>>
(* A mutant: the directories found replace those that wait.                *)
ListDirDeep ==
  /\ bundleAt = "walk" /\ dirs # <<>>
  /\ LET d == dirs[Len(dirs)]
     IN /\ dirs' = IF Pushed(d) # <<>> THEN Pushed(d) ELSE SubSeq(dirs, 1, Len(dirs) - 1)
        /\ files' = files \cup (In(d) \cap Here)
  /\ UNCHANGED <<bundleAt, bundler, skipHidden, treeVars, archiveVars, sentVars>>
UnreadableDir ==
  /\ bundleAt = "walk" /\ dirs # <<>>
  /\ bundleAt' = "failed"
  /\ UNCHANGED <<bundler, skipHidden, treeVars, dirs, files, archiveVars, sentVars>>
Walked ==
  /\ bundleAt = "walk" /\ dirs = <<>>
  /\ bundleAt' = "add"
  /\ UNCHANGED <<bundler, skipHidden, treeVars, dirs, files, archiveVars, sentVars>>

(* Archive::add.  The length of a content is looked at, that of what it    *)
(* was compressed to is not; the place is, before the entry is written.    *)
Compressed(n) == {1, n + Overhead}
AddFile ==
  /\ bundleAt = "add"
  /\ \E f \in files :
       LET n == tree[f]
           Stop(why) == bundleAt' = why /\ UNCHANGED <<files, entries, real, body>>
       IN /\ \A g \in files : f <= g
          /\ \/ n = Absent /\ Stop("failed")
             \/ n # Absent /\ (n >= Width \/ body >= Width) /\ Stop("refused")
             \/ /\ n # Absent /\ n < Width /\ body < Width
                /\ \E c \in Compressed(n) :
                     /\ entries' = Append(entries, [file |-> f, size |-> Low(n),
                                          packed |-> Low(c), offset |-> Low(body)])
                     /\ real' = Append(real, [file |-> f, size |-> n, packed |-> c,
                                              offset |-> body])
                     /\ body' = body + LocalHeader + c
                /\ files' = files \ {f} /\ UNCHANGED bundleAt
  /\ UNCHANGED <<bundler, skipHidden, treeVars, dirs, footer, sentVars>>

(* Archive::finish: the directory follows the body, and the last record    *)
(* tells where it begins, how long it is and what it counts.               *)
DirectoryLength == CentralHeader * Len(entries)
Complete == bundler = "push" => \E i \in DOMAIN entries : entries[i].file = Appspec
(* A mutant: the length of the body is not looked at.                      *)
FitsUnchecked == DirectoryLength < Width /\ Len(entries) < MaxCount
Fits == body < Width /\ DirectoryLength < Width /\ Len(entries) < MaxCount
Finish ==
  /\ bundleAt = "add" /\ files = {}
  /\ \/ ~Complete /\ bundleAt' = "failed" /\ UNCHANGED footer
     \/ Complete /\ ~Fits /\ bundleAt' = "refused" /\ UNCHANGED footer
     \/ /\ Complete /\ Fits /\ bundleAt' = "upload"
        /\ footer' = [count |-> Len(entries), size |-> DirectoryLength, offset |-> body]
  /\ UNCHANGED <<bundler, skipHidden, treeVars, dirs, files, entries, real, body,
                 sentVars>>

(* upload_to_s3: one request for a small archive, else an upload in parts. *)
(* The archive is at its destination if the last request succeeds, and may *)
(* be if its answer is lost.  A push registers it then.                    *)
Total == body + footer.size + EndRecord
PartCount == (Total + PartSize - 1) \div PartSize
Uploaded == IF bundler = "push" THEN "register" ELSE "done"
PutObject ==
  /\ Total < PartSize /\ Passes("upload", Uploaded)
  /\ stored' \in IF bundleAt' = "failed" THEN BOOLEAN ELSE {TRUE}
  /\ UNCHANGED <<multipart, partsSent>>
CreateUpload ==
  /\ Total >= PartSize /\ Passes("upload", "parts")
  /\ multipart' \in IF bundleAt' = "failed" THEN {"none", "orphan"} ELSE {"open"}
  /\ UNCHANGED <<stored, partsSent>>
UploadPart ==
  /\ bundleAt = "parts" /\ partsSent < PartCount
  /\ \/ partsSent' = partsSent + 1 /\ UNCHANGED bundleAt
     \/ bundleAt' = "abort" /\ UNCHANGED partsSent
  /\ UNCHANGED <<bundler, skipHidden, treeVars, dirs, files, archiveVars, stored,
                 multipart>>
(* A mutant: a part that fails ends the command.                           *)
UploadPartOrFail ==
  /\ bundleAt = "parts" /\ partsSent < PartCount
  /\ \/ partsSent' = partsSent + 1 /\ UNCHANGED bundleAt
     \/ bundleAt' = "failed" /\ UNCHANGED partsSent
  /\ UNCHANGED <<bundler, skipHidden, treeVars, dirs, files, archiveVars, stored,
                 multipart>>
AbortUpload ==
  /\ Passes("abort", "failed") /\ multipart' \in {"none", "orphan"}
  /\ UNCHANGED <<stored, partsSent>>
CompleteUpload ==
  /\ partsSent = PartCount /\ Passes("parts", Uploaded)
  /\ stored' \in IF bundleAt' = "failed" THEN BOOLEAN ELSE {TRUE}
  /\ multipart' = IF stored' THEN "none" ELSE "orphan"
  /\ UNCHANGED partsSent

(* Somebody writes, creates or removes a file.                             *)
EditFile ==
  /\ fileEdits < MaxFileEdits /\ bundleAt \in {"create", "grant", "walk", "add"}
  /\ \E f \in AllFiles, n \in Lengths \cup {Absent} :
       /\ n # tree[f]
       /\ tree' = [tree EXCEPT ![f] = n] /\ constant' = constant \ {f}
  /\ fileEdits' = fileEdits + 1
  /\ UNCHANGED <<bundleAt, bundler, skipHidden, dirs, files, archiveVars, sentVars>>

BundleStep ==
  \/ HasAnyFile \/ CreateBuild \/ GrantUpload
  \/ ListDir \/ UnreadableDir \/ Walked
  \/ AddFile \/ Finish \/ PutObject \/ CreateUpload \/ UploadPart
  \/ AbortUpload \/ CompleteUpload \/ Register
BundleNext == BundleStep \/ EditFile
BundleSpec == BundleInit /\ [][BundleNext]_bundleVars

-----------------------------------------------------------------------------
EntryRecords == [file : AllFiles, size : Nat, packed : Nat, offset : Nat]
BundleTypeOK ==
  /\ bundleAt \in {"check", "create", "grant", "walk", "add", "upload", "parts", "abort",
                   "register", "done", "failed", "refused"}
  /\ tree \in [AllFiles -> Lengths \cup {Absent}] /\ files \subseteq AllFiles
  /\ entries \in Seq(EntryRecords) /\ real \in Seq(EntryRecords)
  /\ body \in Nat /\ footer \in [count : Nat, size : Nat, offset : Nat]
  /\ stored \in BOOLEAN

(* An archive that leaves the machine can be read: what it records of each *)
(* entry is so, although lengths are cut to the width of the format and    *)
(* one of them is looked at only after the last entry, and its entries lie *)
(* one after another up to the directory.                                  *)
Readable ==
  /\ entries = real
  /\ \A i \in DOMAIN real :
       /\ real[i].offset + LocalHeader + real[i].packed <= footer.offset
       /\ \A j \in DOMAIN real :
            i < j => real[i].offset + LocalHeader + real[i].packed <= real[j].offset
  /\ footer.count = Len(entries) /\ footer.offset = body
ArchiveReadable == stored => Readable

(* It holds every file that nobody touched and that was asked for, no file *)
(* twice, and is never without the appspec of a push.                      *)
WantedThroughout == {f \in constant : Wanted(f) /\ (DirOf[f] # 0 => Wanted(DirOf[f]))}
ArchiveComplete ==
  stored => /\ WantedThroughout \subseteq {entries[i].file : i \in DOMAIN entries}
            /\ \A i, j \in DOMAIN entries : entries[i].file = entries[j].file => i = j
            /\ Complete

(* No upload stays open that nobody tried to complete or to abort.         *)
UploadEnded == bundleAt \in {"register", "done", "failed"} => multipart # "open"

BundleKept == ArchiveReadable /\ ArchiveComplete /\ UploadEnded
===============================================================================
