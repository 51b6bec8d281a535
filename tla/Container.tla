------------------------------- MODULE Container ------------------------------
(***************************************************************************)
(* The service models: the container they are compiled into and read back  *)
(* from by offset (compile-models.rs and db.rs), the shapes that a command *)
(* reaches (model.rs), and the names under which the operations of a       *)
(* service are commands (command_table.rs and customizations.rs).          *)
(*                                                                         *)
(* A string is a sequence of letters, which are numbers, and so is the     *)
(* JSON of a shape, whose first letter is the shape that it is.  A file is *)
(* a sequence of bytes; it may end early, where a copy of it was cut.      *)
(***************************************************************************)
EXTENDS Naturals, Sequences, SequencesExt, FiniteSets, TLC

CONSTANTS
  Libraries,    (* sequences of source models: [name, id, shapes]; a shape   *)
                (* is <<its id, its JSON>>                                   *)
  Decode,       (* what a JSON says: [kind, operations, resources], the      *)
                (* lifecycle slots of a resource among its operations        *)
  Prelude,      (* the ids that every model has, and their shapes            *)
  CliName,      (* the command name of an operation: naming.rs               *)
  Rules,        (* [removed, streams, replaced, allowed, renamed, aliased,   *)
                (*  proxies], by service                                     *)
  Cuts          (* how many bytes may be missing at the end                  *)

VARIABLES
  library,      (* the source models *)
  image,        (* models.bin *)
  cut,          (* bytes that it lost *)
  consulted,    (* what a command asked: <<service, its typed name>> *)
  shelfAt       (* "compiled", "cut", "asked" *)

shelfVars == <<library, image, cut, consulted, shelfAt>>

-----------------------------------------------------------------------------
(* A model whole: JSON that does not decode, or no service in it, is no    *)
(* model, and neither is one whose operations are not all there.           *)
Source(m) == [id \in {s[1] : s \in ToSet(m.shapes)} |->
                (CHOOSE s \in ToSet(m.shapes) : s[1] = id)[2]]
ShapeOf(m, id) ==
  IF id \in DOMAIN Source(m) THEN <<Decode[Source(m)[id]]>>
  ELSE IF id \in DOMAIN Prelude THEN <<Prelude[id]>> ELSE <<>>

(* Resources nest, and a few models have cycles of them: a resource that   *)
(* was seen is not walked again, and what is no resource is passed over.   *)
IsResource(m, id) == ShapeOf(m, id) # <<>> /\ ShapeOf(m, id)[1].kind = "resource"
ResourcesOf(m, ids) ==
  UNION {ToSet(ShapeOf(m, id)[1].resources) : id \in {i \in ids : IsResource(m, i)}}
Walked(m, service) ==
  LET within[n \in 0 .. Cardinality(DOMAIN Source(m))] ==
        IF n = 0 THEN ToSet(service.resources)
        ELSE within[n - 1] \cup ResourcesOf(m, within[n - 1])
  IN {id \in within[Cardinality(DOMAIN Source(m))] : IsResource(m, id)}
OperationsOf(m) ==
  LET service == ShapeOf(m, m.id)[1]
  IN ToSet(service.operations)
     \cup UNION {ToSet(ShapeOf(m, id)[1].operations) : id \in Walked(m, service)}
IsModel(m) ==
  /\ \A s \in ToSet(m.shapes) : s[2] \in DOMAIN Decode
  /\ {s[1] : s \in {t \in ToSet(m.shapes) : Decode[t[2]].kind = "service"}} = {m.id}
  /\ \A op \in OperationsOf(m) : ShapeOf(m, op) # <<>>
Index(m) == [name \in {CliName[op] : op \in OperationsOf(m)} |->
               CHOOSE op \in OperationsOf(m) : CliName[op] = name]

-----------------------------------------------------------------------------
(* The bytes of the container: a directory of services, for each of them a *)
(* directory of its shapes and one of its operations, all sorted and with  *)
(* entries of the same form, and the strings they name.                    *)
Magic == <<65, 87, 83, 67, 77, 68, 76, 49>>
Word(n) == <<n % 256, (n \div 256) % 256, 0, 0>>
EntrySize == 16
Before(a, b) ==
  \E n \in 0 .. Len(b) - 1 :
     /\ n <= Len(a) /\ SubSeq(a, 1, n) = SubSeq(b, 1, n)
     /\ n < Len(a) => a[n + 1] < b[n + 1]
(* A mutant: they stay in the order of the model. *)
FirstUnsorted(entries) == entries
FirstSorted(entries) == SortSeq(entries, LAMBDA a, b : Before(a[1], b[1]))

(* What the compiler adds: the shapes as the document has them, and the    *)
(* operations under their command names.                                   *)
Added(m) ==
  [name |-> m.name, id |-> m.id, shapes |-> FirstSorted(m.shapes),
   operations |-> FirstSorted(SetToSeq({<<n, Index(m)[n]>> : n \in DOMAIN Index(m)}))]
Services(models) ==
  SortSeq([k \in DOMAIN SelectSeq(models, IsModel) |-> Added(SelectSeq(models, IsModel)[k])],
          LAMBDA a, b : Before(a.name, b.name))

(* A string is put in the arena once, wherever it is named again.          *)
StringsOf(s) == <<s.name, s.id>> \o FlattenSeq(s.shapes) \o FlattenSeq(s.operations)
Arena(strings) ==
  [k \in DOMAIN strings |->
     IF \E j \in 1 .. k - 1 : strings[j] = strings[k] THEN <<>> ELSE strings[k]]
Offset(arena, s) ==
  Len(FlattenSeq(SubSeq(arena, 1, (CHOOSE n \in DOMAIN arena : arena[n] = s) - 1)))

BlobSize(s) == 16 + EntrySize * (Len(s.shapes) + Len(s.operations))
Ref(arena, base, s) == Word(base + Offset(arena, s)) \o Word(Len(s))
Entries(arena, base, pairs) ==
  FlattenSeq([k \in DOMAIN pairs |->
                Ref(arena, base, pairs[k][1]) \o Ref(arena, base, pairs[k][2])])
Blob(arena, base, s) ==
  Ref(arena, base, s.id) \o Word(Len(s.shapes)) \o Word(Len(s.operations))
  \o Entries(arena, base, s.shapes) \o Entries(arena, base, s.operations)
Blobs(services, n) ==
  FlattenSeq([k \in 1 .. n |-> [i \in 1 .. BlobSize(services[k]) |-> 0]])
Assemble(services, arena, start, base) ==
  Magic \o Word(Len(services))
  \o FlattenSeq([k \in DOMAIN services |->
       Ref(arena, base, services[k].name) \o Word(start + Len(Blobs(services, k - 1)))
       \o Word(BlobSize(services[k]))])
  \o FlattenSeq([k \in DOMAIN services |-> Blob(arena, base, services[k])])
  \o FlattenSeq(arena)
Finish(services, arena) ==
  LET start == 12 + EntrySize * Len(services)
  IN Assemble(services, arena, start, start + Len(Blobs(services, Len(services))))

-----------------------------------------------------------------------------
(* Reading it: what lies beyond the end is not there.  Options are         *)
(* sequences of none or one.                                               *)
WordAt(file, at) ==
  IF at + 4 <= Len(file) THEN <<file[at + 1] + 256 * file[at + 2]>> ELSE <<>>
StringAt(file, at) ==
  IF WordAt(file, at) = <<>> \/ WordAt(file, at + 4) = <<>> THEN <<>>
  ELSE IF WordAt(file, at)[1] + WordAt(file, at + 4)[1] <= Len(file)
  THEN <<SubSeq(file, WordAt(file, at)[1] + 1, WordAt(file, at)[1] + WordAt(file, at + 4)[1])>>
  ELSE <<>>

(* The one search, of any of the directories: where the entry is.          *)
Found(file, directory, count, wanted) ==
  LET search[lo \in 0 .. count, hi \in 0 .. count] ==
        IF lo >= hi THEN <<>>
        ELSE LET mid == (lo + hi) \div 2
                 name == StringAt(file, directory + EntrySize * mid)
             IN IF name = <<>> THEN <<>>
                ELSE IF name[1] = wanted THEN <<directory + EntrySize * mid>>
                ELSE IF Before(name[1], wanted) THEN search[mid + 1, hi] ELSE search[lo, mid]
  IN search[0, count]
Count(file, at) == IF WordAt(file, at) = <<>> THEN 0 ELSE WordAt(file, at)[1]

IsContainer(file) == Len(file) >= 8 /\ SubSeq(file, 1, 8) = Magic
ServiceEntry(file, name) ==
  IF IsContainer(file) THEN Found(file, 12, Count(file, 8), name) ELSE <<>>
View(file, name) ==
  IF ServiceEntry(file, name) = <<>> THEN <<>> ELSE WordAt(file, ServiceEntry(file, name)[1] + 8)
ShapeEntry(file, blob, id) == Found(file, blob + 16, Count(file, blob + 8), id)
ShapeJson(file, blob, id) ==
  IF ShapeEntry(file, blob, id) = <<>> THEN <<>> ELSE StringAt(file, ShapeEntry(file, blob, id)[1] + 8)
OperationDirectory(file, blob) == blob + 16 + EntrySize * Count(file, blob + 8)

OperationId(file, blob, name) ==
  LET entry == Found(file, OperationDirectory(file, blob), Count(file, blob + 12), name)
  IN IF entry = <<>> THEN <<>> ELSE StringAt(file, entry[1] + 8)

(* Model::from_container: the names that are there, of which the search    *)
(* then finds the operation.                                               *)
OperationNames(file, blob) ==
  {n \in {StringAt(file, OperationDirectory(file, blob) + EntrySize * k) :
             k \in 0 .. Count(file, blob + 12) - 1} \ {<<>>} :
     OperationId(file, blob, n[1]) # <<>>}

(* Store::get: of the container, and what it does not have of the prelude. *)
StoreGet(file, blob, id) ==
  LET json == ShapeJson(file, blob, id)
  IN IF json # <<>> THEN (IF json[1] \in DOMAIN Decode THEN <<Decode[json[1]]>> ELSE <<>>)
     ELSE IF id \in DOMAIN Prelude THEN <<Prelude[id]>> ELSE <<>>

-----------------------------------------------------------------------------
(* Which operations are commands: one that was removed is none, unless it  *)
(* was only for its event stream, nor is one replaced by others, or one    *)
(* that a service with a list of those it allows does not allow.           *)
IsRemoved(rules, name) ==
  /\ name \notin rules.streams
  /\ name \in rules.removed \/ (rules.allowed # {} /\ name \notin rules.allowed)
IsReplaced(rules, name) == name \in rules.replaced

Names(rules, name) ==
  IF name \in DOMAIN rules.renamed THEN {rules.renamed[name]}
  ELSE IF name \in DOMAIN rules.aliased THEN {name, rules.aliased[name]} ELSE {name}

(* The command table: a typed name, and the operation it was derived from. *)
Table(rules, derived) ==
  UNION {Names(rules, n) \X {n} :
           n \in {d \in derived : ~IsRemoved(rules, d) /\ ~IsReplaced(rules, d)}}
  \cup {p \in rules.proxies : p[2] \in derived}
Resolve(rules, derived, typed) == {p[2] : p \in {q \in Table(rules, derived) : q[1] = typed}}

-----------------------------------------------------------------------------
(* compile-models: the whole catalogue is parsed here, and only here; the  *)
(* file is renamed into place when it is whole.                            *)
Compile(models) ==
  LET services == Services(models)
  IN Finish(services, Arena(FlattenSeq([k \in DOMAIN services |-> StringsOf(services[k])])))
ShelfInit ==
  /\ library \in Libraries /\ image = Compile(library) /\ cut = 0 /\ consulted = <<>>
  /\ shelfAt = "compiled"

(* External: the file that a command maps, or the beginning of it.         *)
Copy ==
  /\ shelfAt = "compiled" /\ shelfAt' = "cut"
  /\ \E n \in Cuts :
       /\ n <= Len(image)
       /\ cut' = n /\ image' = SubSeq(image, 1, Len(image) - n)
  /\ UNCHANGED <<library, consulted>>

(* A command names a service and an operation of it.                       *)
Consult ==
  /\ shelfAt = "cut" /\ shelfAt' = "asked"
  /\ \E service \in DOMAIN Rules : consulted' = <<service>>
  /\ UNCHANGED <<library, image, cut>>

ShelfNext == Copy \/ Consult

-----------------------------------------------------------------------------
(* What a command is told of a service.                                    *)
Wholes(service) == {m \in ToSet(SelectSeq(library, IsModel)) : m.name = service}
Ids == UNION {{s[1] : s \in ToSet(m.shapes)} : m \in ToSet(library)} \cup DOMAIN Prelude
Commands(blob) == {n[1] : n \in OperationNames(image, blob)}
ReadsAs(blob, m) ==
  /\ StringAt(image, blob) = <<m.id>>
  /\ Commands(blob) = DOMAIN Index(m)
  /\ \A n \in DOMAIN Index(m) : OperationId(image, blob, n) = <<Index(m)[n]>>
  /\ \A id \in Ids : StoreGet(image, blob, id) = ShapeOf(m, id)
Agrees(rules, derived) ==
  /\ \A n \in derived : ~IsRemoved(rules, n) /\ ~IsReplaced(rules, n) =>
       \E p \in Table(rules, derived) : p[2] = n
  /\ \A p \in Table(rules, derived) :
       /\ Resolve(rules, derived, p[1]) = {p[2]}
       /\ p[1] = p[2] => ~IsRemoved(rules, p[2]) /\ ~IsReplaced(rules, p[2])
                         /\ p[2] \notin DOMAIN rules.renamed

(* What a command reads by offsets is what the models say: which services  *)
(* there are, their operations and those of the resources within them, and *)
(* each shape; a container that was cut short lacks some of it, and never  *)
(* has another in its place ("a drifted offset table does not fail         *)
(* loudly").  Every operation that was not taken away is a command, under  *)
(* its new name only where it was renamed, and no name means two of them.  *)
ContainerReads ==
  shelfAt = "asked" =>
    LET service == consulted[1]
        blob == View(image, service)
        derived == IF blob = <<>> THEN {} ELSE Commands(blob[1])
    IN /\ Agrees(Rules[service], derived)
       /\ cut = 0 =>
            IF Wholes(service) = {} THEN blob = <<>>
            ELSE \E m \in Wholes(service) : blob # <<>> /\ ReadsAs(blob[1], m)
       /\ blob # <<>> =>
            \E m \in Wholes(service) :
               /\ derived \subseteq DOMAIN Index(m)
               /\ \A n \in derived : OperationId(image, blob[1], n) = <<Index(m)[n]>>
               /\ \A id \in Ids : StoreGet(image, blob[1], id) \in {<<>>, ShapeOf(m, id)}
ShelfOver == shelfAt \in {"asked", "parked"}
=============================================================================
