------------------------------ MODULE Catalogue ------------------------------
(***************************************************************************)
(* The downloaded service catalogue (catalogue.rs) and the processes that  *)
(* fetch it into the cache they share: commands that find none, and        *)
(* `update-models`.                                                        *)
(*                                                                         *)
(* A file on disk is who truncated it last and whether that process has    *)
(* written all of it since: every fetch of a version writes the same       *)
(* bytes, so nobody else's write completes or spoils it.                   *)
(***************************************************************************)
EXTENDS Naturals, FiniteSets

CONSTANTS
  Fetchers,           (* the processes                                     *)
  MaxCrashes          (* bound: processes killed                           *)

VARIABLES
  job,                (* what each process runs: "command" or "update"     *)
  fetchAt,            (* where it is                                       *)
  asset,              (* what it downloaded: "whole" or "damaged"          *)
  handle,             (* which file its open handle is: "partial",         *)
                      (* "installed" or "none"                             *)
  partial,            (* models.bin.partial                                *)
  installed,          (* models.bin                                        *)
  crashes,            (* bound: processes killed so far                    *)
  shared              (* history: two were between opening and renaming    *)

catVars == <<job, fetchAt, asset, handle, partial, installed, crashes, shared>>

NoFile == [by |-> 0, whole |-> FALSE]
Begun(p) == [by |-> p, whole |-> FALSE]

CatInit ==
  /\ job \in [Fetchers -> {"command", "update"}]
  /\ fetchAt = [p \in Fetchers |-> "look"]
  /\ asset = [p \in Fetchers |-> "whole"]
  /\ handle = [p \in Fetchers |-> "none"]
  /\ partial = NoFile /\ installed = NoFile
  /\ crashes = 0
  /\ shared = FALSE

-----------------------------------------------------------------------------
Moves(p, from, to) == fetchAt[p] = from /\ fetchAt' = [fetchAt EXCEPT ![p] = to]

(* models_dir_or_fetch: a catalogue is used if the file is there. *)
Look(p) ==
  /\ Moves(p, "look", IF job[p] = "command" /\ installed # NoFile THEN "use" ELSE "fetch")
  /\ UNCHANGED <<job, asset, handle, partial, installed, crashes, shared>>

(* The digest and the asset are downloaded, or a download fails. *)
FetchAsset(p) ==
  /\ \/ Moves(p, "fetch", "check") /\ asset' \in {asset, [asset EXCEPT ![p] = "damaged"]}
     \/ Moves(p, "fetch", "failed") /\ UNCHANGED asset
  /\ UNCHANGED <<job, handle, partial, installed, crashes, shared>>

(* Not what the release published: refused. *)
CheckAsset(p) ==
  /\ Moves(p, "check", IF asset[p] = "whole" THEN "open" ELSE "failed")
  /\ UNCHANGED <<job, asset, handle, partial, installed, crashes, shared>>

(* A mutant: the catalogue is written under its own name. *)
OpenInstalled(p) ==
  /\ Moves(p, "open", "write")
  /\ installed' = Begun(p)
  /\ handle' = [handle EXCEPT ![p] = "installed"]
  /\ UNCHANGED <<job, asset, partial, crashes, shared>>

(* The temporary file is opened, which truncates it. *)
OpenPartial(p) ==
  /\ Moves(p, "open", "write")
  /\ partial' = Begun(p)
  /\ handle' = [handle EXCEPT ![p] = "partial"]
  /\ shared' = (shared \/ \E q \in Fetchers \ {p} : fetchAt[q] \in {"write", "rename"})
  /\ UNCHANGED <<job, asset, installed, crashes>>

(* It is written, or the disk is full.  Where another renamed it           *)
(* meanwhile, the handle is the installed file's, or a file's that has no  *)
(* name any more.                                                          *)
Fill(p, file) == IF file.by = p THEN [file EXCEPT !.whole = TRUE] ELSE file
WritePartial(p) ==
  /\ \/ /\ Moves(p, "write", "rename")
        /\ partial' = IF handle[p] = "partial" THEN Fill(p, partial) ELSE partial
        /\ installed' = IF handle[p] = "installed" THEN Fill(p, installed) ELSE installed
     \/ Moves(p, "write", "failed") /\ UNCHANGED <<partial, installed>>
  /\ handle' = [handle EXCEPT ![p] = "none"]
  /\ UNCHANGED <<job, asset, crashes, shared>>

(* Renamed into place, whoever wrote what is now under that name. *)
Rename(p) ==
  /\ IF partial = NoFile
     THEN Moves(p, "rename", "failed") /\ UNCHANGED <<partial, installed, handle>>
     ELSE /\ Moves(p, "rename", "use")
          /\ installed' = partial
          /\ partial' = NoFile
          /\ handle' = [q \in Fetchers |-> CASE handle[q] = "partial" -> "installed"
                                             [] OTHER -> "none"]
  /\ UNCHANGED <<job, asset, crashes, shared>>

Killed(p) ==
  /\ fetchAt[p] \in {"write", "rename"}
  /\ crashes < MaxCrashes
  /\ crashes' = crashes + 1
  /\ fetchAt' = [fetchAt EXCEPT ![p] = "killed"]
  /\ handle' = [handle EXCEPT ![p] = "none"]
  /\ UNCHANGED <<job, asset, partial, installed, shared>>

CatStep(p) ==
  \/ Look(p) \/ FetchAsset(p) \/ CheckAsset(p)
  \/ OpenPartial(p) \/ WritePartial(p) \/ Rename(p)
CatNext == \E p \in Fetchers : CatStep(p) \/ Killed(p)

Spec == CatInit /\ [][CatNext]_catVars

-----------------------------------------------------------------------------
(* What there is of catalogue.rs:110-112 (the temporary name and the       *)
(* rename, so that a download that fails or is interrupted can never leave *)
(* half a catalogue that later looks complete).  It holds of a fetch with  *)
(* the temporary file to itself, which is the first conjunct; it does not  *)
(* hold of two that share it, and nothing is claimed there but whose file  *)
(* it is: of one that is still writing, or that failed or was killed, and  *)
(* half a catalogue of the last two does stay in place.  Whatever the      *)
(* fetches do, one that succeeded has left a catalogue there, and none     *)
(* goes on with an asset that does not match its checksum.                 *)
CatalogueWhole ==
  /\ installed # NoFile /\ ~installed.whole =>
       shared /\ fetchAt[installed.by] \in {"write", "failed", "killed"}
  /\ \A p \in Fetchers : fetchAt[p] = "use" => installed # NoFile
  /\ \A p \in Fetchers : asset[p] = "damaged" => fetchAt[p] \in {"check", "failed"}
===============================================================================
