------------------------------- MODULE YamlBlock -------------------------------
(***************************************************************************)
(* The reader of `--cli-input-yaml` (yaml.rs): mappings and sequences are  *)
(* told by the columns of their lines, scalars run over lines, anchors     *)
(* name values and merge keys copy them.                                   *)
(*                                                                         *)
(* A line is its indentation, the dashes it begins with, a key and a rest: *)
(* perhaps an anchor, and then nothing, a plain scalar, an alias or the    *)
(* head of a block scalar.  A dash and the blank after it take two columns.*)
(* What a plain scalar means, quotes and flow collections are left out; a  *)
(* scalar is known by the lines it stands on.                              *)
(***************************************************************************)
EXTENDS Integers, Sequences, SequencesExt, FiniteSetsExt, TLC

CONSTANTS
  Pages               (* the documents, each a sequence of lines           *)

VARIABLES
  yamlAt,             (* "read", "done", "refused"                         *)
  page, rows,         (* the document, and what remains to be read of it   *)
  row,                (* the line in hand                                  *)
  nest,               (* the collections under way, inside one another     *)
  anchors             (* the values that have names                        *)

yamlVars == <<yamlAt, page, rows, row, nest, anchors>>

Null == <<"null">>
Text(on) == <<"text", on>>
List(items) == <<"list", items>>
Map(fields) == <<"map", fields>>

(* A collection under way, at the column of its entries, with the names    *)
(* its value is to have.                                                   *)
Frame(kind, indent, names) ==
  [kind |-> kind, indent |-> indent, names |-> names, items |-> <<>>, fields |-> <<>>,
   merges |-> <<>>, key |-> <<>>]

YamlInit ==
  /\ yamlAt = "read"
  /\ page \in Pages /\ rows = page /\ row = 1
  /\ nest = <<Frame("root", -1, {})>>
  /\ anchors = <<>>

-----------------------------------------------------------------------------
Blank(line) == line.shape = "blank"
Ignorable(line) == line.shape \in {"blank", "remark"}
HasKey(line) == line.key # "none"
Bare(line) == ~Ignorable(line) /\ line.dashes = 0 /\ ~HasKey(line)

(* skip_ignorable *)
NextRow(p) == Min({q \in p .. Len(rows) : ~Ignorable(rows[q])} \cup {Len(rows) + 1})
Has(p) == p <= Len(rows)

(* gather_plain: lines that are deeper and have no key carry on a scalar,  *)
(* also over blank lines.                                                  *)
Carries(line, parent) == line.shape = "line" /\ ~HasKey(line) /\ line.indent > parent
PlainEnd(text, p, parent) ==
  Max({p} \cup {q \in p + 1 .. Len(text) :
    /\ Carries(text[q], parent)
    /\ \A k \in p + 1 .. q : Blank(text[k]) \/ Carries(text[k], parent)})

(* block_scalar: the first line that is not blank sets the column.         *)
FirstOf(text, p) == Min({q \in p + 1 .. Len(text) : ~Blank(text[q])} \cup {Len(text) + 1})
Column(text, p, parent) ==
  IF FirstOf(text, p) <= Len(text) /\ text[FirstOf(text, p)].indent > parent
  THEN text[FirstOf(text, p)].indent
  ELSE parent + 1
BlockEnd(text, p, parent) ==
  Max({q \in p .. Len(text) :
         \A k \in p + 1 .. q : Blank(text[k]) \/ text[k].indent >= Column(text, p, parent)})

(* The lines of the scalar that begins on line p. *)
End(text, p, parent) ==
  CASE text[p].rest.kind = "plain" -> PlainEnd(text, p, parent)
    [] text[p].rest.kind = "block" -> BlockEnd(text, p, parent)
    [] OTHER -> p
Scalar(text, p, parent) ==
  Text({k \in p .. End(text, p, parent) : ~Blank(text[k])})

-----------------------------------------------------------------------------
Refuse == yamlAt' = "refused" /\ UNCHANGED <<nest, anchors>>

(* A value is read: it gets its names and its place in what is around it.  *)
(* A key that is there already is an error.                                *)
Received(frame, value) ==
  CASE frame.kind = "map" /\ frame.key = <<0, "<<">> -> [frame EXCEPT !.merges = Append(@, value)]
    [] frame.kind = "map" -> [frame EXCEPT !.fields = (frame.key :> value) @@ @]
    [] OTHER -> [frame EXCEPT !.items = Append(@, value)]
Hand(value, around, names) ==
  IF Last(around).kind = "map" /\ Last(around).key \in DOMAIN Last(around).fields THEN Refuse
  ELSE /\ anchors' = [n \in names |-> value] @@ anchors
       /\ nest' = Front(around) \o <<Received(Last(around), value)>>
       /\ UNCHANGED yamlAt

(* inline: what is on the line of its parent, or begins there.             *)
RECURSIVE Inline(_, _, _, _)
(* node: a sequence, a mapping or a scalar on a line of its own.           *)
Node(p, around, names) ==
  IF Bare(rows[p]) THEN Inline(p, rows[p].indent, around, names)
  ELSE /\ row' = p
       /\ nest' = Append(around, Frame(IF rows[p].dashes > 0 THEN "list" ELSE "map",
                                       rows[p].indent, names))
       /\ UNCHANGED <<yamlAt, rows, anchors>>
Inline(p, parent, around, outer) ==
  LET rest == rows[p].rest
      names == outer \cup ({rest.anchor} \ {"none"})
      below == NextRow(p + 1)
  IN  IF rest.kind = "none" /\ Has(below) /\ rows[below].indent > parent
      THEN Node(below, around, names)
      ELSE /\ row' = End(rows, p, parent) + 1 /\ UNCHANGED rows
           /\ CASE rest.kind = "none" -> Hand(Null, around, names)
                [] rest.kind = "alias" ->
                     IF rest.name \in DOMAIN anchors THEN Hand(anchors[rest.name], around, names)
                     ELSE Refuse
                [] OTHER -> Hand(Scalar(rows, p, parent), around, names)

-----------------------------------------------------------------------------
Inner == Last(nest)
Here == NextRow(row)
Reads(kind) == yamlAt = "read" /\ Inner.kind = kind /\ UNCHANGED page

(* document: one node, and nothing after it. *)
Document ==
  /\ Reads("root")
  /\ IF Inner.items # <<>>
     THEN /\ yamlAt' = IF Has(Here) THEN "refused" ELSE "done"
          /\ UNCHANGED <<rows, row, nest, anchors>>
     ELSE IF Has(Here) THEN Node(Here, nest, {})
     ELSE row' = Here /\ UNCHANGED rows /\ Hand(Null, nest, {})

(* What merge keys name, a mapping or a sequence of them, fills in what    *)
(* the mapping does not have.                                              *)
MergedFrom(merges) ==
  FoldLeft(LAMBDA all, m : all \o (IF m[1] = "list" THEN m[2] ELSE <<m>>), <<>>, merges)
Filled(fields, merges) ==
  FoldLeft(LAMBDA sofar, source : sofar @@ source[2], fields, MergedFrom(merges))
Mergeable(merges) == \A k \in DOMAIN MergedFrom(merges) : MergedFrom(merges)[k][1] = "map"

(* The end of a collection, at the first line that is no entry of it.      *)
Close(value) ==
  row' = Here /\ UNCHANGED rows /\ Hand(value, Front(nest), Inner.names)
CloseMap ==
  IF Mergeable(Inner.merges) THEN Close(Map(Filled(Inner.fields, Inner.merges)))
  ELSE row' = Here /\ UNCHANGED rows /\ Refuse

(* A mutant: a deeper line is left to whoever comes next. *)
MappingLoosely ==
  /\ Reads("map")
  /\ IF ~Has(Here) \/ rows[Here].indent < Inner.indent \/ ~HasKey(rows[Here])
     THEN CloseMap
     ELSE LET line == rows[Here]
              around == Front(nest) \o <<[Inner EXCEPT !.key = <<line.dashes, line.key>>]>>
              below == NextRow(Here + 1)
          IN  IF /\ line.rest.kind = "none" /\ line.rest.anchor = "none"
                 /\ Has(below) /\ rows[below].indent = Inner.indent /\ rows[below].dashes > 0
              THEN Node(below, around, {})
              ELSE Inline(Here, Inner.indent, around, {})

(* mapping: an entry, whose value is on its line or below it; a sequence   *)
(* may stand in the column of its key.  A line that begins with a dash and *)
(* has a key is taken for an entry whose key begins with the dash.         *)
Mapping ==
  /\ Reads("map")
  /\ IF ~Has(Here) \/ rows[Here].indent < Inner.indent THEN CloseMap
     ELSE IF rows[Here].indent > Inner.indent THEN UNCHANGED <<rows, row>> /\ Refuse
     ELSE IF ~HasKey(rows[Here]) THEN CloseMap
     ELSE LET line == rows[Here]
              around == Front(nest) \o <<[Inner EXCEPT !.key = <<line.dashes, line.key>>]>>
              below == NextRow(Here + 1)
          IN  IF /\ line.rest.kind = "none" /\ line.rest.anchor = "none"
                 /\ Has(below) /\ rows[below].indent = Inner.indent /\ rows[below].dashes > 0
              THEN Node(below, around, {})
              ELSE Inline(Here, Inner.indent, around, {})

(* sequence: what follows a dash on its line is read as if it stood on its *)
(* own, at the column where it is.                                         *)
Sequence ==
  /\ Reads("list")
  /\ IF ~Has(Here) \/ rows[Here].indent # Inner.indent \/ rows[Here].dashes = 0
     THEN Close(List(Inner.items))
     ELSE LET line == rows[Here]
          IN  IF line.dashes = 1 /\ ~HasKey(line) THEN Inline(Here, Inner.indent, nest, {})
              ELSE /\ rows' = [rows EXCEPT ![Here].indent = @ + 2, ![Here].dashes = @ - 1]
                   /\ row' = Here
                   /\ nest' = Append(nest, Frame(IF line.dashes > 1 THEN "list" ELSE "map",
                                                 line.indent + 2, {}))
                   /\ UNCHANGED <<yamlAt, anchors>>

YamlNext == Document \/ Mapping \/ Sequence

Spec == YamlInit /\ [][YamlNext]_yamlVars /\ WF_yamlVars(YamlNext)

-----------------------------------------------------------------------------
(***************************************************************************)
(* What a document says, told by columns alone.  The elements of a line    *)
(* are its dashes, its key, or the scalar that stands on its own.          *)
(***************************************************************************)
Elements(p) ==
  1 .. page[p].dashes + (IF HasKey(page[p]) \/ Bare(page[p]) THEN 1 ELSE 0)
Kind(e) ==
  CASE e[2] <= page[e[1]].dashes -> "dash" [] HasKey(page[e[1]]) -> "key" [] OTHER -> "text"
Col(e) == page[e[1]].indent + 2 * (e[2] - 1)
LastOf(p) == <<p, Max(Elements(p))>>

(* The lines that no earlier scalar runs over.                             *)
Kept ==
  LET kept[p \in 0 .. Len(page)] ==
        IF p = 0 THEN {}
        ELSE kept[p - 1] \cup
             (IF Ignorable(page[p]) \/ \E q \in kept[p - 1] : p <= End(page, q, Col(LastOf(q)))
              THEN {} ELSE {p})
  IN  kept[Len(page)]
Before(e, f) == e[1] < f[1] \/ (e[1] = f[1] /\ e[2] < f[2])
LatestOf(set) == CHOOSE e \in set : \A f \in set \ {e} : Before(f, e)
Root == <<0, 0>>

(* The tree of a document, as the parent of each of its elements.  An      *)
(* element belongs to the latest one before it that is further left; a     *)
(* dash also to a key in its own column.                                   *)
Tree ==
  LET all == UNION {{p} \X Elements(p) : p \in Kept}
  IN  [e \in all |->
        IF e[2] > 1 THEN <<e[1], e[2] - 1>>
        ELSE LatestOf({Root} \cup {f \in all :
               /\ f[1] < e[1] /\ Kind(f) # "text"
               /\ \/ Col(f) < Col(e)
                  \/ Col(f) = Col(e) /\ Kind(f) = "key" /\ Kind(e) = "dash"})]
Children(tree, e) == {f \in DOMAIN tree : tree[f] = e}
InOrder(set) == SetToSortSeq(set, Before)
RECURSIVE Within(_, _)
Within(tree, e) == IF e = Root THEN {Root} ELSE {e} \cup Within(tree, tree[e])

RestOf(e) ==
  IF e # Root /\ e = LastOf(e[1]) THEN page[e[1]].rest
  ELSE [kind |-> "none", anchor |-> "none", name |-> "none"]

(* What an alias stands for: the value with its name that was complete     *)
(* last.                                                                   *)
Named(tree, e) ==
  {f \in DOMAIN tree :
     f[1] < e[1] /\ RestOf(f).anchor = RestOf(e).name /\ f \notin Within(tree, e)}
Meant(tree, e) ==
  CHOOSE f \in Named(tree, e) :
    \A g \in Named(tree, e) \ {f} :
      g \notin Within(tree, f) /\ (Before(g, f) \/ f \in Within(tree, g))

RECURSIVE Val(_, _)
Val(tree, e) ==
  LET inside == InOrder(Children(tree, e))
      merges == InOrder({f \in Children(tree, e) : page[f[1]].key = "<<"})
      own == Children(tree, e) \ ToSet(merges)
  IN  CASE RestOf(e).kind \in {"plain", "block"} -> Scalar(page, e[1], Col(e))
        [] RestOf(e).kind = "alias" -> Val(tree, Meant(tree, e))
        [] inside = <<>> -> Null
        [] Kind(Head(inside)) = "text" -> Val(tree, Head(inside))
        [] Kind(Head(inside)) = "dash" -> List([i \in DOMAIN inside |-> Val(tree, inside[i])])
        [] OTHER ->
             Map(Filled([k \in {<<0, page[f[1]].key>> : f \in own} |->
                           Val(tree, CHOOSE f \in own : page[f[1]].key = k[2])],
                        [i \in DOMAIN merges |-> Val(tree, merges[i])]))

(* What is wrong with a document: entries of one collection that differ in *)
(* kind or column, a key twice, entries under a value, a sequence in the   *)
(* column of a key with an anchor, a name nobody has, or a merge of what   *)
(* is no mapping.                                                          *)
Faulty(tree) ==
  \/ \E e \in DOMAIN tree : \E f \in Children(tree, tree[e]) \ {e} :
       \/ Col(e) # Col(f) \/ Kind(e) # Kind(f) \/ Kind(e) = "text"
       \/ Kind(e) = "key" /\ page[e[1]].key = page[f[1]].key /\ page[e[1]].key # "<<"
  \/ \E e \in DOMAIN tree :
       \/ RestOf(e).kind # "none" /\ Children(tree, e) # {}
       \/ RestOf(e).anchor # "none" /\ \E f \in Children(tree, e) : Col(f) = Col(e)
       \/ RestOf(e).kind = "alias" /\ Named(tree, e) = {}
BadMerge(tree) ==
  \E e \in DOMAIN tree :
    Kind(e) = "key" /\ page[e[1]].key = "<<" /\ ~Mergeable(<<Val(tree, e)>>)

(* A key that was read with its dash.                                      *)
RECURSIVE HasDashedKey(_)
HasDashedKey(value) ==
  CASE value[1] = "list" -> \E i \in DOMAIN value[2] : HasDashedKey(value[2][i])
    [] value[1] = "map" -> \E k \in DOMAIN value[2] : k[1] > 0 \/ HasDashedKey(value[2][k])
    [] OTHER -> FALSE

(***************************************************************************)
(* A document is refused exactly when something is wrong with it, and      *)
(* what is read is what its columns say: no line is lost, none ends up     *)
(* under another parent, an alias is the value that has the name, and a    *)
(* merge never overrides a mapping's own keys.  A line `- b: 2` in the     *)
(* column of a mapping's keys is the exception: it is taken for a key.     *)
(***************************************************************************)
ReadByColumns ==
  yamlAt \in {"done", "refused"} =>
    LET tree == Tree
        bad == Faulty(tree) \/ BadMerge(tree)
        value == nest[1].items[1]
    IN  IF yamlAt = "refused" THEN bad
        ELSE HasDashedKey(value) \/ (~bad /\ value = Val(tree, Root))

(* Every document comes to an end. *)
YamlOver == yamlAt # "read"
YamlEnds == <>YamlOver
===============================================================================
