-------------------------------- MODULE Monitor --------------------------------
(***************************************************************************)
(* `ecs monitor-express-gateway-service` (ecs_express/): a service is      *)
(* polled, each poll a series of calls that make a tree of its resources,  *)
(* and shown until a timeout, an interruption, a failure or its end.       *)
(*                                                                         *)
(* The service is external: it changes between any two calls, and a        *)
(* revision is missing for a while after it was named.  The order in which *)
(* a tree is drawn, its colours and the scrolling are left out: a group is *)
(* a set of nodes, and a resource occurs once in a tree.                   *)
(***************************************************************************)
EXTENDS Naturals, Sequences, FiniteSets

CONSTANTS
  TreeOf,       (* of each revision, a set of nodes at each epoch *)
  Known,        (* sets of revisions that may be known at first *)
  Deployments,  (* one after another: [target, sources, configs] *)
  MaxMoves,     (* changes of the service *)
  MaxRefreshes  (* polls before the timeout *)

VARIABLES
  monAt, view, display,
  epoch, appeared, latest, inactive, moves,  (* the service *)
  refreshes, interrupted,
  named, sources,    (* revisions the poll was told of, in order *)
  trees, origins,    (* what they were when they were described *)
  managed,      (* what the poll made of them: [is, nodes] *)
  cached,       (* Collector::cached: [is, nodes, info] *)
  previous,     (* text: what was there at the last poll, by type and identifier *)
  announced     (* history: how each resource was last printed *)
serviceIs == <<epoch, appeared, latest, inactive, moves>>
pollVars == <<named, sources, trees, origins, managed>>
monVars == <<monAt, view, display, serviceIs, refreshes, interrupted, pollVars, cached,
             previous, announced>>

Nothing == [is |-> FALSE, nodes |-> {}]
MonInit ==
  /\ monAt = "top" /\ view \in {"resource", "deployment"} /\ display \in {"text", "screen"}
  /\ epoch \in {1, 2} /\ latest \in 0 .. Len(Deployments) /\ appeared \in Known
  /\ inactive = FALSE /\ moves = 0
  /\ refreshes = 0 /\ interrupted = FALSE /\ named = <<>> /\ sources = <<>>
  /\ trees = <<>> /\ origins = <<>> /\ managed = Nothing
  /\ cached = [is |-> FALSE, nodes |-> {}, info |-> "initial"]
  /\ previous = {} /\ announced = {}

-----------------------------------------------------------------------------
(* A node is a resource, with the time it was updated (0 if unknown), or a *)
(* group; "none" is the identifier of what does not exist yet.             *)
Key(n) == <<n.type, n.id>>
Keys(nodes) == {Key(n) : n \in nodes}
Described(revisions) == [i \in DOMAIN revisions |-> TreeOf[revisions[i]][epoch]]

(* Resource::combine: an absent time loses.                                *)
Newer(m, n) == IF n.at = 0 \/ (m.at # 0 /\ m.at >= n.at) THEN m ELSE n

(* Group::combine: what both have is merged; a placeholder goes when there *)
(* is a resource of its type.                                              *)
Placeholder(n, all) == n.id = "none" /\ \E o \in all : o.type = n.type /\ o.id # "none"
(* A mutant: the later tree wins.                                          *)
NewerLast(m, n) == n
RECURSIVE Combine(_, _)
Merged(m, n) == IF m.leaf THEN Newer(m, n) ELSE [m EXCEPT !.nodes = Combine(m.nodes, n.nodes)]
Combine(a, b) ==
  LET kept(nodes) == {n \in nodes : ~Placeholder(n, a \cup b)}
  IN {n \in kept(a) : Key(n) \notin Keys(b)} \cup {n \in kept(b) : Key(n) \notin Keys(a)} \cup
     {Merged(p[1], p[2]) : p \in {q \in kept(a) \X kept(b) : Key(q[1]) = Key(q[2])}}

(* reduce: of one tree, it is that tree.                                   *)
Combined(all) ==
  LET f[i \in 1 .. Len(all)] == IF i = 1 THEN all[1] ELSE Combine(f[i - 1], all[i])
  IN IF all = <<>> THEN {} ELSE f[Len(all)]

(* Group::compare_sets: what comes and what goes.  Of a type that is not   *)
(* resolved yet nothing is said to go.                                     *)
SharedGroups(a, b) == {p \in a \X b : Key(p[1]) = Key(p[2]) /\ ~p[1].leaf}
RECURSIVE Coming(_, _)
Coming(mine, theirs) ==
  {n \in mine : Key(n) \notin Keys(theirs)} \cup
  {[p[1] EXCEPT !.nodes = Coming(p[1].nodes, p[2].nodes)] : p \in SharedGroups(mine, theirs)}
RECURSIVE Leaving(_, _)
Leaving(mine, theirs) ==
  {n \in theirs : Key(n) \notin Keys(mine) /\ <<n.type, "none">> \notin Keys(mine)} \cup
  {[p[2] EXCEPT !.nodes = Leaving(p[1].nodes, p[2].nodes)] : p \in SharedGroups(mine, theirs)}

-----------------------------------------------------------------------------
(* External: a deployment starts, what it names appears, resources change, *)
(* the service ends; and the user presses Ctrl-C.                          *)
Change ==
  /\ moves < MaxMoves /\ moves' = moves + 1 /\ ~inactive /\ monAt # "ended"
  /\ \/ /\ latest < Len(Deployments) /\ latest' = latest + 1
        /\ UNCHANGED <<epoch, appeared, inactive>>
     \/ /\ \E r \in DOMAIN TreeOf \ appeared : appeared' = appeared \cup {r}
        /\ UNCHANGED <<epoch, latest, inactive>>
     \/ /\ epoch = 1 /\ epoch' = 2 /\ UNCHANGED <<appeared, latest, inactive>>
     \/ /\ inactive' = TRUE /\ UNCHANGED <<epoch, appeared, latest>>
  /\ UNCHANGED <<monAt, view, display, refreshes, interrupted, pollVars, cached, previous,
                 announced>>
Interrupt ==
  /\ display = "text" /\ monAt # "ended" /\ ~interrupted /\ interrupted' = TRUE
  /\ UNCHANGED <<monAt, view, display, serviceIs, refreshes, pollVars, cached, previous,
                 announced>>

Goes(place) ==
  /\ monAt' = place
  /\ UNCHANGED <<view, display, serviceIs, interrupted>>
Stops == Goes("ended") /\ UNCHANGED <<refreshes, pollVars, cached, previous, announced>>

(* The loop ends at the timeout, or when the user interrupts or quits.     *)
Top ==
  /\ monAt = "top"
  /\ \/ Stops
     \/ /\ ~interrupted /\ refreshes < MaxRefreshes /\ Goes("describe")
        /\ refreshes' = refreshes + 1 /\ managed' = Nothing /\ named' = <<>> /\ sources' = <<>>
        /\ trees' = <<>> /\ origins' = <<>> /\ UNCHANGED <<cached, previous, announced>>

(* A tree that could not be built keeps the last one.                      *)
Remember(nodes, is, info) ==
  cached' = [is |-> is \/ cached.is, nodes |-> IF is THEN nodes ELSE cached.nodes, info |-> info]

Describe ==
  /\ monAt = "describe"
  /\ \/ /\ inactive /\ Goes("show") /\ Remember({}, TRUE, "inactive")
        /\ UNCHANGED <<refreshes, pollVars, previous, announced>>
     \/ /\ ~inactive /\ Goes("show") /\ Remember({}, FALSE, "trying")
        /\ UNCHANGED <<refreshes, pollVars, previous, announced>>
     \/ /\ ~inactive
        /\ IF view = "resource"
           THEN /\ Goes("revisions")
                /\ named' = IF latest = 0 THEN <<>> ELSE Deployments[latest].configs
           ELSE Goes("deployments") /\ UNCHANGED named
        /\ UNCHANGED <<refreshes, sources, trees, origins, managed, cached, previous,
                       announced>>

(* The deployment view asks for the latest deployment, then for its        *)
(* content; either may not be there yet.                                   *)
LatestDeployment ==
  /\ monAt = "deployments"
  /\ \/ Goes("service") /\ UNCHANGED <<named, sources>>
     \/ /\ latest # 0 /\ Goes("revisions")
        /\ named' = <<Deployments[latest].target>> /\ sources' = Deployments[latest].sources
  /\ UNCHANGED <<refreshes, trees, origins, managed, cached, previous, announced>>

(* A revision that is missing is no failure, but then there is no tree of  *)
(* resources.                                                              *)
There(revisions) == \A i \in DOMAIN revisions : revisions[i] \in appeared
Revisions ==
  /\ monAt = "revisions"
  /\ IF named = <<>> \/ ~There(named) THEN Goes("service") /\ UNCHANGED <<trees, managed>>
     ELSE /\ trees' = Described(named)
          /\ IF view = "resource"
             THEN Goes("service") /\ managed' = [is |-> TRUE, nodes |-> Combined(trees')]
             ELSE Goes("sources") /\ UNCHANGED managed
  /\ UNCHANGED <<refreshes, named, sources, origins, cached, previous, announced>>

Group(type, nodes) == [type |-> type, id |-> "none", leaf |-> FALSE, at |-> 0, nodes |-> nodes]
SourceRevisions ==
  /\ monAt = "sources" /\ Goes("service")
  /\ IF ~There(sources) THEN UNCHANGED <<origins, managed>>
     ELSE /\ origins' = Described(sources)
          /\ managed' = [is |-> TRUE,
               nodes |-> {Group("Updating", Coming(trees[1], Combined(origins'))),
                          Group("Disassociating", Leaving(trees[1], Combined(origins')))}]
  /\ UNCHANGED <<refreshes, named, sources, trees, cached, previous, announced>>

(* The service itself, with its last event, stands beside what was found.  *)
ServiceLeaf == [type |-> "Service", id |-> "arn", leaf |-> TRUE, at |-> epoch, nodes |-> {}]
Service ==
  /\ monAt = "service" /\ Goes("show")
  /\ Remember({ServiceLeaf} \cup managed.nodes, TRUE, IF managed.is THEN "none" ELSE "waiting")
  /\ UNCHANGED <<refreshes, pollVars, previous, announced>>

(* Any call of a poll may fail; the end of the service is told only by the *)
(* first one.                                                              *)
CallFails == monAt \in {"describe", "deployments", "revisions", "sources", "service"} /\ Stops

RECURSIVE Leaves(_)
Leaves(nodes) == UNION {IF n.leaf THEN {n} ELSE Leaves(n.nodes) : n \in nodes}

(* Text prints what is not as it was at the last poll; the screen has the  *)
(* whole tree.                                                             *)
Changed(nodes) == {n \in Leaves(nodes) : n \notin previous}
(* A mutant: what was seen stays seen.                                     *)
ShowOnce ==
  /\ monAt = "show" /\ UNCHANGED <<refreshes, pollVars, cached>>
  /\ IF display = "text" /\ cached.is
     THEN /\ announced' = {a \in announced : Key(a) \notin Keys(Changed(cached.nodes))} \cup
                          Changed(cached.nodes)
          /\ previous' = previous \cup Leaves(cached.nodes)
     ELSE UNCHANGED <<previous, announced>>
  /\ Goes(IF display = "text" /\ cached.info = "inactive" THEN "ended" ELSE "sleep")
Show ==
  /\ monAt = "show" /\ UNCHANGED <<refreshes, pollVars, cached>>
  /\ IF display = "text" /\ cached.is
     THEN /\ announced' = {a \in announced : Key(a) \notin Keys(Changed(cached.nodes))} \cup
                          Changed(cached.nodes)
          /\ previous' = Leaves(cached.nodes)
     ELSE UNCHANGED <<previous, announced>>
  /\ Goes(IF display = "text" /\ cached.info = "inactive" THEN "ended" ELSE "sleep")
Sleep ==
  /\ monAt = "sleep" /\ Goes(IF interrupted THEN "ended" ELSE "top")
  /\ UNCHANGED <<refreshes, pollVars, cached, previous, announced>>

MonStep ==
  \/ Top \/ Describe \/ LatestDeployment \/ Revisions \/ SourceRevisions \/ Service
  \/ CallFails \/ Show \/ Sleep
MonNext == MonStep \/ Change \/ Interrupt
MonSpec == MonInit /\ [][MonNext]_monVars /\ WF_monVars(MonStep)

-----------------------------------------------------------------------------
(* What is at the end of a way of keys, over all trees at once.            *)
RECURSIVE Ends(_)
Ends(nodes) ==
  UNION {IF n.leaf THEN {[way |-> <<Key(n)>>, at |-> n.at]}
         ELSE {[way |-> <<Key(n)>> \o e.way, at |-> e.at] : e \in Ends(n.nodes)} : n \in nodes}
At(tree_, way) ==   (* {the nodes of the group}, or {} if there is none *)
  LET f[i \in 0 .. Len(way)] ==
        IF i = 0 THEN {tree_} ELSE {n.nodes : n \in {m \in UNION f[i - 1] : Key(m) = way[i]}}
  IN f[Len(way)]

(* A placeholder has no place beside a resource of its type, in a group of *)
(* several trees.                                                          *)
Superseded(way) ==
  \E i \in DOMAIN way :
    LET having == {k \in DOMAIN trees : At(trees[k], SubSeq(way, 1, i - 1)) # {}}
    IN /\ way[i][2] = "none" /\ Cardinality(having) > 1
       /\ \E k \in having : \E n \in UNION At(trees[k], SubSeq(way, 1, i - 1)) :
            n.type = way[i][1] /\ n.id # "none"

(* The resource view has every resource of every configuration that is     *)
(* active, as it was updated last, whatever the order of the revisions.    *)
ViewIsWhole ==
  view = "resource" /\ managed.is =>
    LET all == UNION {Ends(trees[k]) : k \in DOMAIN trees}
    IN Ends(managed.nodes) =
         {e \in all : ~Superseded(e.way) /\ \A o \in all : o.way = e.way => o.at <= e.at}

(* The deployment view has what only the target has, and what only the     *)
(* sources have unless its type is not resolved in the target.             *)
Ways(nodes) == {e.way : e \in Ends(nodes)}
Under(type) == UNION {n.nodes : n \in {m \in managed.nodes : m.type = type}}
Unresolved(way) ==
  \E i \in DOMAIN way : LET group == UNION At(trees[1], SubSeq(way, 1, i - 1)) IN
    way[i] \notin Keys(group) /\ <<way[i][1], "none">> \in Keys(group)
ViewIsDifference ==
  view = "deployment" /\ managed.is =>
    LET before == Ways(Combined(origins)) IN
    /\ Ways(Under("Updating")) = Ways(trees[1]) \ before
    /\ Ways(Under("Disassociating")) =
         {w \in before \ Ways(trees[1]) : ~Unresolved(w)}

(* Of every resource on show, what was printed last is how it is ("one     *)
(* timestamped line per resource that *changed* since the last poll"),     *)
(* after a poll that found a tree.  Nothing is claimed of a poll without   *)
(* one: collector.rs:12-15 says that it replaces only the prose, and the   *)
(* code replaces the tree by the service alone (Service, where managed is  *)
(* Nothing), so that the text tells all resources again at the next poll.  *)
PrintedIsCurrent ==
  monAt = "sleep" /\ display = "text" /\ managed.is => Leaves(cached.nodes) \subseteq announced

MonitorShows == ViewIsWhole /\ ViewIsDifference /\ PrintedIsCurrent

(* The monitor comes to an end, whatever the service does.                 *)
MonitorOver == monAt = "ended"
MonitorEnds == <>MonitorOver
===============================================================================
