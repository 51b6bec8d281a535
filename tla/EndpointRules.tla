----------------------------- MODULE EndpointRules -----------------------------
(***************************************************************************)
(* Where a service is: endpoint.rs and the interpreter of the decision     *)
(* tree a service model carries (rules/mod.rs), as a stack of the lists of *)
(* rules that are being tried, each with its scope.                        *)
(*                                                                         *)
(* A value is a string; "none" is no value, "true" and "false" are the     *)
(* booleans, a record goes by a name and `Attributes` has its fields.  The *)
(* functions over texts (substring, ARNs, URLs, labels) are left out: they *)
(* are total, and a condition tests them as it tests the others.           *)
(***************************************************************************)
EXTENDS Naturals, Sequences

CONSTANTS
  Rulesets,     (* of services: [pseudo, parameters, rules]; pseudo is the     *)
                (* region that stands for none, or "none" *)
  Requests,     (* what is asked: [region, bucket, url, fips, statics] *)
  Partitions,   (* [name, regions, pattern]: those listed, those of its form *)
  Attributes    (* [record -> [field -> value]] *)

VARIABLES
  rulesAt,      (* "region", "bind", "rules" or "done" *)
  asked, ruleset, regionFor,
  levels,       (* lists of rules within each other: [rules, next, scope] *)
  tested,       (* conditions of the rule in hand that passed *)
  bindings,     (* the scope they extended *)
  place         (* what came out *)
rulesVars == <<rulesAt, asked, ruleset, regionFor, levels, tested, bindings, place>>

Nowhere == [kind |-> "none", says |-> <<>>, signs |-> "none"]
RulesInit ==
  /\ rulesAt = "region" /\ asked \in Requests /\ ruleset \in Rulesets /\ regionFor = ""
  /\ levels = <<>> /\ tested = 0 /\ bindings = <<>> /\ place = Nowhere

Told(kind) == rulesAt' = "done" /\ place' = [Nowhere EXCEPT !.kind = kind]

(* The pseudo-region of a global service stands in for a missing region.   *)
Region ==
  /\ rulesAt = "region"
  /\ regionFor' = IF asked.region = "" THEN ruleset.pseudo ELSE asked.region
  /\ IF regionFor' = "none" THEN Told("noRegion") ELSE rulesAt' = "bind" /\ UNCHANGED place
  /\ UNCHANGED <<asked, ruleset, levels, tested, bindings>>

(* A parameter is known by what is built in, the bucket by its name, then  *)
(* come those of the operation; what is not set takes its default.         *)
Supplied(p) ==
  CASE p.builtIn = "AWS::Region" -> regionFor
    [] p.builtIn = "AWS::UseFIPS" -> asked.fips
    [] p.builtIn = "SDK::Endpoint" -> asked.url
    [] OTHER -> IF p.name = "Bucket" THEN asked.bucket
                ELSE IF p.name \in DOMAIN asked.statics THEN asked.statics[p.name] ELSE "none"
Parameter(p) == IF Supplied(p) = "none" THEN p.default ELSE Supplied(p)
Parameters == {ruleset.parameters[i] : i \in DOMAIN ruleset.parameters}
Outermost ==
  [n \in {p.name : p \in Parameters} |-> Parameter(CHOOSE p \in Parameters : p.name = n)]
Bind ==
  /\ rulesAt = "bind"
  /\ IF \E p \in Parameters : p.required /\ Parameter(p) = "none"
     THEN Told("malformed") /\ UNCHANGED <<levels, bindings>>
     ELSE /\ levels' = <<[rules |-> ruleset.rules, next |-> 1, scope |-> Outermost]>>
          /\ bindings' = Outermost /\ rulesAt' = "rules" /\ UNCHANGED place
  /\ UNCHANGED <<asked, ruleset, regionFor, tested>>

-----------------------------------------------------------------------------
Truthy(v) == v \notin {"none", "false"}
Bool(b) == IF b THEN "true" ELSE "false"
IsBool(v) == v \in {"true", "false"}
IsText(v) == v # "none" /\ ~IsBool(v) /\ v \notin DOMAIN Attributes

(* Partitions::resolve: who lists the region, else the first of its form,  *)
(* else the first of all, which is aws.                                    *)
PartitionOf(region) ==
  LET First(S) == Partitions[CHOOSE i \in S : \A j \in S : i <= j].name
      Listing == {i \in DOMAIN Partitions : region \in Partitions[i].regions}
      Alike == {i \in DOMAIN Partitions : region \in Partitions[i].pattern}
  IN IF Listing # {} THEN First(Listing) ELSE IF Alike # {} THEN First(Alike) ELSE First({1})

Field(v, name) ==
  IF v \notin DOMAIN Attributes THEN "none"
  ELSE IF name \in DOMAIN Attributes[v] THEN Attributes[v][name] ELSE "none"

(* Every function answers, with no value for an argument it does not take. *)
Apply(name, a, b) ==
  CASE name = "isSet" -> Bool(a # "none")
    [] name = "not" -> Bool(~Truthy(a))
    [] name = "booleanEquals" -> Bool(IsBool(a) /\ IsBool(b) /\ a = b)
    [] name = "stringEquals" -> Bool(IsText(a) /\ a = b)
    [] name = "getAttr" -> Field(a, b)
    [] name = "aws.partition" -> IF IsText(a) THEN PartitionOf(a) ELSE "none"
    [] OTHER -> "none"

(* An argument is a reference, a literal, or a function of such.           *)
Bound(name, scope) == IF name \in DOMAIN scope THEN scope[name] ELSE "none"
Simple(arg, scope) ==
  CASE arg.kind = "ref" -> Bound(arg.name, scope) [] arg.kind = "literal" -> arg.name
Value(arg, scope) ==
  IF arg.kind = "fn" THEN Apply(arg.name, Simple(arg.of, scope), "none")
  ELSE Simple(arg, scope)
Result(c, scope) == Apply(c.fn, Value(c.a, scope), Value(c.b, scope))

With(scope, c) ==
  IF c.assign = "none" THEN scope
  ELSE [n \in DOMAIN scope \cup {c.assign} |->
          IF n = c.assign THEN Result(c, scope) ELSE scope[n]]

-----------------------------------------------------------------------------
Top == levels[Len(levels)]
InHandRule == Top.rules[Top.next]
Trying == rulesAt = "rules" /\ Top.next <= Len(Top.rules)
More == Trying /\ tested < Len(InHandRule.conditions)
Condition == InHandRule.conditions[tested + 1]

(* A condition that passes binds for the ones after it.                    *)
Pass ==
  /\ More /\ Truthy(Result(Condition, bindings))
  /\ tested' = tested + 1 /\ bindings' = With(bindings, Condition)
  /\ UNCHANGED <<rulesAt, asked, ruleset, regionFor, levels, place>>

(* The next sibling, in the scope of its list.                             *)
Sibling(ls) == [ls EXCEPT ![Len(ls)].next = @ + 1]

(* A mutant: what a failed rule bound stays.                               *)
FailLeaking ==
  /\ More /\ ~Truthy(Result(Condition, bindings))
  /\ levels' = Sibling(levels) /\ tested' = 0
  /\ UNCHANGED <<rulesAt, asked, ruleset, regionFor, bindings, place>>
Fail ==
  /\ More /\ ~Truthy(Result(Condition, bindings))
  /\ levels' = Sibling(levels) /\ tested' = 0 /\ bindings' = Top.scope
  /\ UNCHANGED <<rulesAt, asked, ruleset, regionFor, place>>

Enter ==
  /\ Trying /\ ~More /\ InHandRule.kind = "tree"
  /\ levels' = Append(levels, [rules |-> InHandRule.rules, next |-> 1, scope |-> bindings])
  /\ tested' = 0
  /\ UNCHANGED <<rulesAt, asked, ruleset, regionFor, bindings, place>>

(* A leaf says where, and for which region to sign if it is not the one    *)
(* asked for; or that there is no such place.                              *)
Outcome(rule, scope) ==
  [kind |-> rule.kind, says |-> [i \in DOMAIN rule.says |-> Value(rule.says[i], scope)],
   signs |-> IF Value(rule.signs, scope) = "none" THEN regionFor ELSE Value(rule.signs, scope)]
Leaf ==
  /\ Trying /\ ~More /\ InHandRule.kind # "tree"
  /\ rulesAt' = "done" /\ place' = Outcome(InHandRule, bindings)
  /\ UNCHANGED <<asked, ruleset, regionFor, levels, tested, bindings>>

(* A list in which no rule matched falls through to what follows it.       *)
Exhausted ==
  /\ rulesAt = "rules" /\ Top.next > Len(Top.rules) /\ tested' = 0
  /\ IF Len(levels) = 1 THEN Told("noMatch") /\ UNCHANGED <<levels, bindings>>
     ELSE /\ levels' = Sibling(SubSeq(levels, 1, Len(levels) - 1))
          /\ bindings' = levels[Len(levels) - 1].scope /\ UNCHANGED <<rulesAt, place>>
  /\ UNCHANGED <<asked, ruleset, regionFor>>

RulesNext == Region \/ Bind \/ Pass \/ Fail \/ Enter \/ Leaf \/ Exhausted
RulesSpec == RulesInit /\ [][RulesNext]_rulesVars /\ WF_rulesVars(RulesNext)

-----------------------------------------------------------------------------
(* What the rules mean, without a walk: of the leaves whose conditions all *)
(* hold, from the outermost list down, each in the scope that those before *)
(* it on the way made, the first one in the order of the document.         *)
Holds(conditions, scope) ==
  LET f[i \in 0 .. Len(conditions)] ==
        IF i = 0 THEN [all |-> TRUE, scope |-> scope]
        ELSE [all |-> f[i - 1].all /\ Truthy(Result(conditions[i], f[i - 1].scope)),
              scope |-> With(f[i - 1].scope, conditions[i])]
  IN f[Len(conditions)]

RuleOn(way) ==
  LET f[i \in 1 .. Len(way)] == IF i = 1 THEN ruleset.rules[way[1]] ELSE f[i - 1].rules[way[i]]
  IN f[Len(way)]
Below(ways) ==
  UNION {{Append(w, i) : i \in DOMAIN RuleOn(w).rules} :
         w \in {v \in ways : RuleOn(v).kind = "tree"}}
Ways ==  (* no tree of a service is deeper than the lists that were tried *)
  LET f[d \in 1 .. 4] ==
        IF d = 1 THEN {<<i>> : i \in DOMAIN ruleset.rules} ELSE f[d - 1] \cup Below(f[d - 1])
  IN f[4]
OnTheWay(way) ==
  LET f[i \in 0 .. Len(way)] ==
        IF i = 0 THEN <<>> ELSE f[i - 1] \o RuleOn(SubSeq(way, 1, i)).conditions
  IN f[Len(way)]
Earlier(v, w) ==
  \E i \in DOMAIN v \cap DOMAIN w : v[i] < w[i] /\ \A j \in 1 .. i - 1 : v[j] = w[j]
Matching ==
  {w \in Ways : RuleOn(w).kind # "tree" /\ Holds(OnTheWay(w), Outermost).all}

(* The walk finds the endpoint, or the refusal, that the rules define      *)
(* ("assignments are visible to later conditions in the same rule and to   *)
(* everything nested beneath it, but must not leak to sibling rules").     *)
RulesAgree ==
  rulesAt = "done" /\ place.kind \notin {"noRegion", "malformed"} =>
    IF Matching = {} THEN place.kind = "noMatch"
    ELSE LET w == CHOOSE v \in Matching : \A u \in Matching \ {v} : Earlier(v, u)
         IN place = Outcome(RuleOn(w), Holds(OnTheWay(w), Outermost).scope)

(* Every evaluation comes to an answer.                                    *)
RulesOver == rulesAt = "done"
RulesEnd == <>RulesOver
===============================================================================
