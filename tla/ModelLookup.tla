------------------------------ MODULE ModelLookup -----------------------------
(***************************************************************************)
(* Where the model of a service is found: the directory of the models, the *)
(* compiled container in it, and for a directory that has only JSON the    *)
(* index of which file has which service (main.rs: models_dir_or_fetch,    *)
(* load_model).  The commands that run at once share the directories and   *)
(* write the index in place; the files may be fetched anew meanwhile.      *)
(*                                                                         *)
(* A directory is what it holds: a container, JSON files, an index, each   *)
(* of them maybe.  How the catalogue is fetched is of Catalogue.           *)
(***************************************************************************)
EXTENDS Naturals, FiniteSets, TLC

CONSTANTS
  Readers,      (* the commands *)
  Layouts,      (* [env, installed, cached, source]: what is in each place;  *)
                (* [container, json, index] with container a set of services *)
                (* or {}, json a function from files to the services in them *)
                (* and index [is, map], such a function turned round         *)
  Services,     (* the names that may be typed *)
  Fetched,      (* the services in a catalogue that is fetched *)
  Updates       (* the JSON files as an update leaves them *)

VARIABLES
  layout,       (* the directories, by place *)
  earlier,      (* history: the source tree before the update; <<>> until then *)
  reader        (* each command: [at, service, place, map, left, loaded] *)

lookupVars == <<layout, earlier, reader>>

LookupInit ==
  /\ layout \in Layouts /\ earlier = <<>>
  /\ reader \in [Readers -> {[at |-> "begin", service |-> s, place |-> "source", map |-> <<>>,
                              left |-> {}, loaded |-> "none"] : s \in Services}]

(* What a command sees of the world, and what becomes of it.               *)
Dir(r) == layout[reader[r].place]
Wanted(r) == reader[r].service
Turn(r, from, changes) == reader[r].at = from /\ reader' = [reader EXCEPT ![r] = changes @@ @]
At(at) == [at |-> at]
Loaded(r, from, service) == Turn(r, from, [at |-> "done", loaded |-> service])

-----------------------------------------------------------------------------
(* models_dir: what the environment names, whatever is in it; beside the   *)
(* program, then in the cache, where there is a container; the source tree.*)
HasContainer(d) == d.container # {}
Models(dirs) ==
  IF "env" \in DOMAIN dirs THEN "env"
  ELSE IF HasContainer(dirs.installed) THEN "installed"
  ELSE IF HasContainer(dirs.cached) THEN "cached" ELSE "source"
IsPopulated(d) == HasContainer(d) \/ d.index.is # "none" \/ DOMAIN d.json # {}

(* It is kept for the rest of the command.                                 *)
Choose(r) ==
  /\ \/ /\ IsPopulated(layout[Models(layout)])
        /\ Turn(r, "begin", [at |-> "container", place |-> Models(layout)])
     \/ /\ ~IsPopulated(layout[Models(layout)]) /\ HasContainer(layout.cached)
        /\ Turn(r, "begin", [at |-> "container", place |-> "cached"])
     \/ /\ ~IsPopulated(layout[Models(layout)]) /\ ~HasContainer(layout.cached)
        /\ Turn(r, "begin", [at |-> "fetch", place |-> "cached"])
  /\ UNCHANGED <<layout, earlier>>

Fetch(r) ==
  /\ \/ /\ Turn(r, "fetch", At("container"))
        /\ layout' = [layout EXCEPT !.cached.container = Fetched]
     \/ Turn(r, "fetch", [at |-> "done", loaded |-> "unavailable"]) /\ UNCHANGED layout
  /\ UNCHANGED earlier

OpenContainer(r) ==
  /\ IF Wanted(r) \in Dir(r).container THEN Loaded(r, "container", Wanted(r))
     ELSE Turn(r, "container", At("direct"))
  /\ UNCHANGED <<layout, earlier>>

-----------------------------------------------------------------------------
(* A mutant: it is taken at its name. *)
TryAny(d, file, service) == file \in DOMAIN d.json
(* A file is taken only for the service that it has.                       *)
TryLoad(d, file, service) == file \in DOMAIN d.json /\ d.json[file] = service

(* The obvious file: a file is named here for the service that its name    *)
(* says, though it may have another.                                       *)
Direct(r) ==
  /\ IF TryLoad(Dir(r), Wanted(r), Wanted(r))
     THEN Loaded(r, "direct", Dir(r).json[Wanted(r)])
     ELSE Turn(r, "direct", At("index"))
  /\ UNCHANGED <<layout, earlier>>

(* The index, if all of it is there, and then the file that it names.      *)
IndexLookup(r) ==
  /\ LET index == Dir(r).index
     IN IF index.is = "whole" /\ Wanted(r) \in DOMAIN index.map
        THEN Turn(r, "index", [at |-> "named", map |-> index.map])
        ELSE Turn(r, "index", At("list"))
  /\ UNCHANGED <<layout, earlier>>
LoadNamed(r) ==
  /\ reader[r].at = "named"
  /\ LET file == reader[r].map[Wanted(r)]
     IN IF TryLoad(Dir(r), file, Wanted(r)) THEN Loaded(r, "named", Dir(r).json[file])
        ELSE Turn(r, "named", At("list"))
  /\ UNCHANGED <<layout, earlier>>

(* A miss: every file is parsed, one after the other, in any order, and    *)
(* what is no model is passed over.                                        *)
List(r) ==
  /\ Turn(r, "list", [at |-> "scan", map |-> <<>>, left |-> DOMAIN Dir(r).json])
  /\ UNCHANGED <<layout, earlier>>
Scan(r) ==
  /\ \E file \in reader[r].left :
       Turn(r, "scan",
            [left |-> reader[r].left \ {file},
             map |-> IF Dir(r).json[file] = "damaged" THEN reader[r].map
                     ELSE (Dir(r).json[file] :> file) @@ reader[r].map])
  /\ UNCHANGED <<layout, earlier>>
Answer(r) ==
  /\ reader[r].left = {}
  /\ LET map == reader[r].map
     IN IF Wanted(r) \in DOMAIN map /\ TryLoad(Dir(r), map[Wanted(r)], Wanted(r))
        THEN Turn(r, "scan", [at |-> "open", loaded |-> Dir(r).json[map[Wanted(r)]]])
        ELSE Turn(r, "scan", [at |-> "open", loaded |-> "unknown"])
  /\ UNCHANGED <<layout, earlier>>

(* Best effort, in place: it is empty first, and stays so if it cannot be  *)
(* written; what is written over another's that came between is torn where *)
(* it is the shorter.                                                      *)
Torn == [is |-> "torn", map |-> <<>>]
Whole(map) == [is |-> "whole", map |-> map]
WithIndex(r, index) == layout' = [layout EXCEPT ![reader[r].place].index = index]
OpenIndex(r) ==
  /\ \/ Turn(r, "open", At("write")) /\ WithIndex(r, Torn)
     \/ Turn(r, "open", At("done")) /\ UNCHANGED layout
  /\ UNCHANGED earlier
WriteIndex(r) ==
  /\ Turn(r, "write", At("done"))
  /\ \/ WithIndex(r, Whole(reader[r].map))
     \/ Dir(r).index \notin {Torn, Whole(reader[r].map)} /\ WithIndex(r, Torn)
     \/ UNCHANGED layout
  /\ UNCHANGED earlier

(* External: the models are fetched anew, once.                            *)
Update ==
  /\ earlier = <<>> /\ DOMAIN layout.source.json # {} /\ earlier' = layout.source.json
  /\ \E json \in Updates : layout' = [layout EXCEPT !.source.json = json]
  /\ UNCHANGED reader

ReaderStep(r) ==
  \/ Choose(r) \/ Fetch(r) \/ OpenContainer(r) \/ Direct(r) \/ IndexLookup(r) \/ LoadNamed(r)
  \/ List(r) \/ Scan(r) \/ Answer(r) \/ OpenIndex(r) \/ WriteIndex(r)
LookupNext == Update \/ \E r \in Readers : ReaderStep(r)

-----------------------------------------------------------------------------
(* No command goes on with the model of another service, whatever the      *)
(* index says, or said before the files were fetched anew.  A service of   *)
(* which the directory has the model all the while is found, though the    *)
(* index is torn or stale.  A name is called unknown only where there are  *)
(* models that it could have been one of ("make sure there IS a catalogue  *)
(* before blaming the user") or else an index that outlived them.          *)
Steady(place, file, service) ==
  /\ file \in DOMAIN layout[place].json /\ layout[place].json[file] = service
  /\ place = "source" /\ earlier # <<>> =>
       file \in DOMAIN earlier /\ earlier[file] = service
ModelFound ==
  \A r \in Readers :
    /\ reader[r].loaded \in {"none", "unknown", "unavailable", Wanted(r)}
    /\ reader[r].loaded = "unknown" =>
         /\ Wanted(r) \notin Dir(r).container
         /\ \A file \in DOMAIN Dir(r).json : ~Steady(reader[r].place, file, Wanted(r))
         /\ IsPopulated(Dir(r)) \/ earlier # <<>>
LookupOver == (reader = <<>>) \/ \A r \in Readers : reader[r].at = "done"
=============================================================================
