--------------------------------- MODULE Setup ---------------------------------
(***************************************************************************)
(* Commands that set something up by a series of calls of which each may   *)
(* fail, and that are run again when one did: `emr` and `datapipeline      *)
(* create-default-roles`, `dlm create-default-role`, `configservice        *)
(* subscribe`, `deploy register` and `deregister`, and `emr-containers     *)
(* update-role-trust-policy`.                                              *)
(*                                                                         *)
(* A process is the sequence of the calls it has still to make.  The       *)
(* services (external) are the set of the things that are there.  A call   *)
(* is answered, refused, or takes effect while its answer is lost.  The    *)
(* client tries the last again, which ends the same way: the thing is      *)
(* there, and the caller has an error.                                     *)
(***************************************************************************)
EXTENDS Naturals, Sequences, SequencesExt

CONSTANTS
  Teams,              (* the command each process runs                     *)
  Roles,              (* the roles a command creates, in order: the first  *)
                      (* goes into an instance profile                     *)
  MaxRetries          (* bound: how often a command is run again           *)

VARIABLES
  team,               (* which command each process runs                   *)
  todo,               (* the calls its run has still to make               *)
  gone,               (* its run has failed                                *)
  heldDoc,            (* the trust policy it has read                      *)
  there,              (* the things that are there                         *)
  reports,            (* history: how many runs reported each role         *)
  undone,             (* history: what failed runs did not come to         *)
  hit,                (* history: the service failed a call of the run     *)
  alone,              (* history: no other process stepped since it began  *)
  overlap,            (* history: two held the trust policy at a time      *)
  retries             (* bound: how often one was run again so far         *)

setupVars == <<team, todo, gone, heldDoc, there, reports, undone, hit, alone, overlap,
               retries>>

Clients == DOMAIN team

-----------------------------------------------------------------------------
(* Things, each named by what it is and of what. *)
Sole(name) == <<name, "">>
Role(r) == <<"role", r>>
Policy(r) == <<"policy", r>>
Box(r) == <<"profile", r>>
Member(r) == <<"member", r>>
Statement(s) == <<"statement", s>>
Doc == {thing \in there : thing[1] = "statement"}

(* A call needs some things to be there, or for a drop not to be. *)
Call(op, thing, needs, steps) ==
  [op |-> op, thing |-> thing, needs |-> needs, steps |-> steps]
Unless(thing, steps) == Call("unless", thing, {}, steps)
When(thing, needs, steps) == Call("when", thing, needs, steps)
Make(thing, needs) == Call("make", thing, needs, <<>>)
Put(thing, needs) == Call("put", thing, needs, <<>>)
Erase(thing, bars) == Call("erase", thing, bars, <<>>)
Report(r) == Call("report", Role(r), {}, <<>>)

(* create_emr_role and create_role_if_absent: the document of the policy   *)
(* is read last, and makes the report.                                     *)
RoleIfAbsent(r) ==
  <<Unless(Role(r), <<Make(Role(r), {}), Put(Policy(r), {Role(r)}), Report(r)>>)>>
BoxIfAbsent(r) ==
  <<Unless(Box(r), <<Make(Box(r), {}), Put(Member(r), {Role(r), Box(r)})>>)>>

(* emr create-default-roles: the profile comes straight after its role,    *)
(* and the configuration last.                                             *)
EmrRoles ==
  RoleIfAbsent(Roles[1]) \o BoxIfAbsent(Roles[1])
  \o FlattenSeq([k \in 1 .. Len(Roles) - 1 |-> RoleIfAbsent(Roles[k + 1])])
  \o <<Unless(Sole("config"), <<Put(Sole("config"), {})>>)>>

(* datapipeline create-default-roles: the profile's role is the last. *)
PipelineRoles ==
  FlattenSeq([k \in 1 .. Len(Roles) |-> RoleIfAbsent(Roles[Len(Roles) + 1 - k])])
  \o BoxIfAbsent(Roles[1])

(* dlm create-default-role: nothing is done, and nothing printed, where    *)
(* the partition has no such policy.                                       *)
DlmRole ==
  <<Unless(Role(Roles[1]),
      <<When(Sole("managed"), {}, <<Make(Role(Roles[1]), {}),
          Put(Policy(Roles[1]), {Role(Roles[1])}), Report(Roles[1])>>)>>)>>

(* configservice subscribe. *)
Subscribe ==
  <<Call("head", Sole("bucket"), {}, <<Make(Sole("bucket"), {})>>),
    Put(Sole("topic"), {}), Put(Sole("recorder"), {}),
    Put(Sole("channel"), {Sole("recorder"), Sole("bucket"), Sole("topic")}),
    Put(Sole("started"), {Sole("recorder"), Sole("channel")})>>

(* deploy register, with a user of its own. *)
Register ==
  <<Make(Sole("user"), {}), Put(Sole("key"), {Sole("user")}),
    Put(Sole("userPolicy"), {Sole("user")}), Put(Sole("file"), {}),
    Make(Sole("instance"), {}), Put(Sole("tags"), {Sole("instance")})>>

(* A mutant: the user is deleted before its keys. *)
DeregisterUserFirst ==
  <<When(Sole("tags"), {Sole("record")}, <<Erase(Sole("tags"), {})>>),
    Erase(Sole("instance"), {}),
    When(Sole("userPolicy"), {}, <<Erase(Sole("userPolicy"), {})>>),
    Erase(Sole("user"), {Sole("key"), Sole("userPolicy")}),
    When(Sole("key"), {}, <<Erase(Sole("key"), {})>>)>>

(* deploy deregister: policies and keys are listed and then deleted, and   *)
(* the user, who must have none left, comes last.  What is already gone is *)
(* no failure.                                                             *)
Deregister ==
  <<When(Sole("tags"), {Sole("record")}, <<Erase(Sole("tags"), {})>>),
    Erase(Sole("instance"), {}),
    When(Sole("userPolicy"), {}, <<Erase(Sole("userPolicy"), {})>>),
    When(Sole("key"), {}, <<Erase(Sole("key"), {})>>),
    Erase(Sole("user"), {Sole("key"), Sole("userPolicy")})>>

(* emr-containers update-role-trust-policy, with a statement of its own    *)
(* for each process.                                                       *)
TrustPolicy(p) ==
  <<Call("hold", Statement(p), {}, <<>>), Call("amend", Statement(p), {}, <<>>)>>

Calls(p) ==
  CASE team[p] = "emr" -> EmrRoles
    [] team[p] = "pipeline" -> PipelineRoles
    [] team[p] = "dlm" -> DlmRole
    [] team[p] = "subscribe" -> Subscribe
    [] team[p] = "register" -> Register
    [] team[p] = "deregister" -> Deregister
    [] team[p] = "trust" -> TrustPolicy(p)

SetupInit ==
  /\ team \in Teams
  /\ todo = [p \in Clients |-> Calls(p)]
  /\ gone = [p \in Clients |-> FALSE]
  /\ heldDoc = [p \in Clients |-> {}]
  /\ there \in {{Statement("other")}, {Statement("other"), Sole("managed")}}
  /\ reports = [k \in DOMAIN Roles |-> 0]
  /\ undone = {}
  /\ hit = [p \in Clients |-> FALSE]
  /\ alone = [p \in Clients |-> TRUE]
  /\ overlap = FALSE
  /\ retries = 0

-----------------------------------------------------------------------------
This(p) == Head(todo[p])
Rest(p) == Tail(todo[p])
Makes(p, op) == ~gone[p] /\ todo[p] # <<>> /\ This(p).op = op

(* Whoever steps disturbs the others. *)
Disturb(p) == alone' = [q \in Clients |-> alone[q] /\ q = p]

Goes(p, calls) ==
  /\ todo' = [todo EXCEPT ![p] = calls]
  /\ Disturb(p)
  /\ UNCHANGED <<team, gone, undone, retries>>

(* `?`: the run ends where it is. *)
Stops(p) ==
  /\ gone' = [gone EXCEPT ![p] = TRUE]
  /\ undone' = undone \cup {call.thing : call \in ToSet(todo[p])}
  /\ Disturb(p)
  /\ UNCHANGED <<team, todo, retries>>
Unhit == UNCHANGED hit
Refused(p) == Stops(p) /\ hit' = [hit EXCEPT ![p] = TRUE] /\ UNCHANGED there

(* A change: answered, without an answer, or refused. *)
Changes(p, things) ==
  \/ there' = things /\ Goes(p, Rest(p)) /\ Unhit
  \/ there' = things /\ Stops(p) /\ hit' = [hit EXCEPT ![p] = TRUE]
  \/ Refused(p)
Rejected(p) == Stops(p) /\ UNCHANGED <<there, hit>>

(* exists: only NoSuchEntity means absent. *)
Exists(p) ==
  /\ Makes(p, "unless")
  /\ \/ /\ Goes(p, IF This(p).thing \in there THEN Rest(p) ELSE This(p).steps \o Rest(p))
        /\ UNCHANGED <<there, hit>>
     \/ Refused(p)
  /\ UNCHANGED <<heldDoc, reports, overlap>>

(* A bucket that the caller may not see counts as one that is there. *)
HeadBucket(p) ==
  /\ Makes(p, "head")
  /\ \/ /\ Goes(p, IF This(p).thing \in there THEN Rest(p) ELSE This(p).steps \o Rest(p))
        /\ UNCHANGED <<there, hit>>
     \/ Goes(p, Rest(p)) /\ UNCHANGED <<there, hit>>
     \/ Refused(p)
  /\ UNCHANGED <<heldDoc, reports, overlap>>

(* What is listed, if anything, is worked on. *)
Lists(p) ==
  /\ Makes(p, "when")
  /\ \/ /\ This(p).needs \subseteq there
        /\ Goes(p, IF This(p).thing \in there THEN This(p).steps \o Rest(p) ELSE Rest(p))
        /\ UNCHANGED <<there, hit>>
     \/ ~This(p).needs \subseteq there /\ Rejected(p)
     \/ Refused(p)
  /\ UNCHANGED <<heldDoc, reports, overlap>>

(* A creation, which what is there already makes fail. *)
Brings(thing) == IF thing = Sole("instance") THEN {thing, Sole("record")} ELSE {thing}
Creates(p) ==
  /\ Makes(p, "make")
  /\ IF This(p).thing \in there \/ ~This(p).needs \subseteq there
     THEN Rejected(p)
     ELSE Changes(p, there \cup Brings(This(p).thing))
  /\ UNCHANGED <<heldDoc, reports, overlap>>

(* A call that may as well be made twice. *)
Puts(p) ==
  /\ Makes(p, "put")
  /\ IF This(p).needs \subseteq there
     THEN Changes(p, there \cup {This(p).thing})
     ELSE Rejected(p)
  /\ UNCHANGED <<heldDoc, reports, overlap>>

Erases(p) ==
  /\ Makes(p, "erase")
  /\ IF This(p).needs \cap there = {}
     THEN Changes(p, there \ {This(p).thing})
     ELSE Rejected(p)
  /\ UNCHANGED <<heldDoc, reports, overlap>>

(* The role is in the list that the command prints. *)
Reports(p) ==
  /\ Makes(p, "report")
  /\ \/ /\ reports' = [k \in DOMAIN Roles |->
                         reports[k] + IF Role(Roles[k]) = This(p).thing THEN 1 ELSE 0]
        /\ Goes(p, Rest(p))
        /\ UNCHANGED <<there, hit>>
     \/ Refused(p) /\ UNCHANGED reports
  /\ UNCHANGED <<heldDoc, overlap>>

(* The document is read; nothing is done where it has the statement. *)
Holds(p) ==
  /\ Makes(p, "hold")
  /\ \/ /\ heldDoc' = [heldDoc EXCEPT ![p] = Doc]
        /\ overlap' = (overlap \/ \E q \in Clients \ {p} : Makes(q, "amend"))
        /\ Goes(p, IF Statement(p) \in Doc THEN <<>> ELSE Rest(p))
        /\ UNCHANGED <<there, hit>>
     \/ Refused(p) /\ UNCHANGED <<heldDoc, overlap>>
  /\ UNCHANGED reports

(* A mutant: the document is replaced by the statement. *)
AmendsAlone(p) ==
  /\ Makes(p, "amend")
  /\ Changes(p, (there \ Doc) \cup {Statement(p)})
  /\ UNCHANGED <<heldDoc, reports, overlap>>

(* The document as it was read replaces what is there. *)
Amends(p) ==
  /\ Makes(p, "amend")
  /\ Changes(p, (there \ Doc) \cup heldDoc[p] \cup {Statement(p)})
  /\ UNCHANGED <<heldDoc, reports, overlap>>

(* The command is run again. *)
Retry(p) ==
  /\ gone[p] \/ todo[p] = <<>>
  /\ retries < MaxRetries
  /\ retries' = retries + 1
  /\ todo' = [todo EXCEPT ![p] = Calls(p)]
  /\ gone' = [gone EXCEPT ![p] = FALSE]
  /\ hit' = [hit EXCEPT ![p] = FALSE]
  /\ alone' = [q \in Clients |-> q = p]
  /\ UNCHANGED <<team, heldDoc, there, reports, undone, overlap>>

SetupStep(p) ==
  \/ Exists(p) \/ HeadBucket(p) \/ Lists(p) \/ Creates(p) \/ Puts(p) \/ Erases(p)
  \/ Reports(p) \/ Holds(p) \/ Amends(p)
SetupNext == \E p \in Clients : SetupStep(p) \/ Retry(p)

Spec == SetupInit /\ [][SetupNext]_setupVars

-----------------------------------------------------------------------------
Succeeded(p, command) == team[p] = command /\ ~gone[p] /\ todo[p] = <<>>
There(names) == {Sole(name) : name \in names} \subseteq there

(* What a run lists it has created alone, and whole. *)
ListedIsCreated ==
  \A k \in DOMAIN Roles :
    /\ reports[k] <= 1
    /\ reports[k] = 1 => {Role(Roles[k]), Policy(Roles[k])} \subseteq there

(* A run that succeeds leaves no role, profile or configuration out,       *)
(* whichever were there before.                                            *)
RolesAreThere ==
  \A p \in Clients :
    /\ Succeeded(p, "emr") \/ Succeeded(p, "pipeline") =>
         {Role(Roles[k]) : k \in DOMAIN Roles} \cup {Box(Roles[1])} \subseteq there
    /\ Succeeded(p, "emr") => There({"config"})
    /\ Succeeded(p, "dlm") /\ There({"managed"}) => Role(Roles[1]) \in there

(* A role without its policy, or a profile without its role, is there only *)
(* if a run has failed or another is about to complete it: a first run     *)
(* that succeeds, with no other at work, leaves none.  One that a failed   *)
(* run left stays, since a role that is there is taken for finished; a     *)
(* later run that succeeds says nothing of it, and nothing is claimed.     *)
Pending(thing) ==
  thing \in undone \/ \E p \in Clients : \E call \in ToSet(todo[p]) : call.thing = thing
HalfMadeIsKnown ==
  \A k \in DOMAIN Roles :
    /\ Role(Roles[k]) \in there => Policy(Roles[k]) \in there \/ Pending(Policy(Roles[k]))
    /\ Box(Roles[k]) \in there => Member(Roles[k]) \in there \/ Pending(Member(Roles[k]))

(* Subscribing again after any failure ends with all of it there. *)
SubscribedIsWhole ==
  \A p \in Clients : Succeeded(p, "subscribe") =>
    There({"bucket", "topic", "recorder", "channel", "started"})

(* A registration left alone is whole; a deregistration left alone leaves  *)
(* nothing of the user, and finishes what one that failed had begun ("a    *)
(* partially cleaned-up user finishes cleaning up rather than failing on   *)
(* the first thing that is already gone").                                 *)
RegisteredIsWhole ==
  \A p \in Clients : Succeeded(p, "register") /\ alone[p] =>
    There({"user", "key", "userPolicy", "instance", "tags"})
DeregisteredIsGone ==
  \A p \in Clients : team[p] = "deregister" /\ alone[p] =>
    /\ todo[p] = <<>> =>
         there \cap {Sole(n) : n \in {"user", "key", "userPolicy", "instance"}} = {}
    /\ gone[p] => hit[p] \/ ~There({"record"})

(* No statement of a trust policy is lost, but to a run that read it       *)
(* before the statement was written.                                       *)
StatementsKept ==
  /\ Statement("other") \in there
  /\ \A p \in Clients : Succeeded(p, "trust") => Statement(p) \in there \/ overlap

(* What may be taken to be done.  A role that a run lists it made alone    *)
(* and whole, and a subscription that succeeds is whole, whatever failed   *)
(* before.  A success of the commands for roles means that the roles and   *)
(* the profile are there, but not that each is whole: see HalfMadeIsKnown. *)
(* A registration or deregistration has done its work if no other process  *)
(* stepped meanwhile, and a statement of a trust policy is lost to an      *)
(* overlapping update only.                                                *)
SetupTells ==
  /\ ListedIsCreated /\ RolesAreThere /\ HalfMadeIsKnown
  /\ SubscribedIsWhole /\ RegisteredIsWhole /\ DeregisteredIsGone /\ StatementsKept
===============================================================================
