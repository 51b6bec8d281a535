-------------------------------- MODULE Deploy --------------------------------
(***************************************************************************)
(* `aws ecs deploy` (ecs.rs): the files are read, the service, the         *)
(* application and the deployment group are described and checked against  *)
(* each other, the task definition is registered, its name is written into *)
(* the appspec, the deployment is created and waited for.                  *)
(*                                                                         *)
(* A revision of the task definition is a number, in the order the service *)
(* registers them; 0 is what the file had.  A call that is not answered is *)
(* made again by the client, although it may have taken effect.            *)
(***************************************************************************)
EXTENDS Integers, Sequences

CONSTANTS
  Targets,            (* [there, platforms, services, ready, terminate]:   *)
                      (* the service and the group that the command finds  *)
  Appspecs,           (* [form, listed, resources]: what the file holds    *)
  Least, Most,        (* the minutes that are waited for at least, at most *)
  Headroom,           (* the minutes added to those of the group           *)
  PerMinute,          (* polls in a minute                                 *)
  MaxRepeats          (* bound: how often a call is made again             *)

Unset == -1

VARIABLES
  deployAt,           (* the call or the step that comes next              *)
  target, appspec,    (* what the command finds, and the file              *)
  revisions,          (* how many the service has registered               *)
  revision,           (* the one the command was told                      *)
  deployment,         (* the last one created: its content, how it will    *)
                      (* end and after how many polls                      *)
  polled,             (* polls so far                                      *)
  repeats             (* bound: calls made again so far                    *)

deployVars == <<deployAt, target, appspec, revisions, revision, deployment, polled, repeats>>

NoDeployment == [content |-> <<>>, outcome |-> "none", lasts |-> 0]

DeployInit ==
  /\ deployAt = "load"
  /\ target \in Targets
  /\ appspec \in Appspecs
  /\ revisions = 0 /\ revision = 0
  /\ deployment = NoDeployment
  /\ polled = 0 /\ repeats = 0

-----------------------------------------------------------------------------
Ends(how) == deployAt' = how

(* JSON is tried first, then YAML. *)
Load ==
  /\ deployAt = "load"
  /\ Ends(IF appspec.form \in {"json", "yaml"} THEN "describe" ELSE "failed")
  /\ UNCHANGED <<target, appspec, revisions, revision, deployment, polled, repeats>>

Describe ==
  /\ deployAt = "describe"
  /\ \/ Ends(IF target.there THEN "group" ELSE "failed")
     \/ Ends("failed")
  /\ UNCHANGED <<target, appspec, revisions, revision, deployment, polled, repeats>>

(* A mutant: it is enough that one target of the group is the service. *)
ValidAtAll ==
  /\ target.platforms = <<"ECS", "ECS">>
  /\ \E t \in DOMAIN target.services : target.services[t] \in {"name", "arn"} \X {"name", "arn"}

(* validate: application and group are for ECS, and each target of the     *)
(* group names the service and the cluster, or their ARNs.                 *)
Valid ==
  /\ target.platforms = <<"ECS", "ECS">>
  /\ \A t \in DOMAIN target.services : target.services[t] \in {"name", "arn"} \X {"name", "arn"}

DescribeGroup ==
  /\ deployAt = "group"
  /\ \/ Ends(IF Valid THEN "register" ELSE "failed")
     \/ Ends("failed")
  /\ UNCHANGED <<target, appspec, revisions, revision, deployment, polled, repeats>>

Repeated == repeats < MaxRepeats /\ repeats' = repeats + 1 /\ UNCHANGED deployAt

(* The name of what was registered is in the answer. *)
Register ==
  /\ deployAt = "register"
  /\ \/ /\ revisions' = revisions + 1 /\ revision' = revisions'
        /\ Ends("splice") /\ UNCHANGED repeats
     \/ /\ revisions' \in {revisions, revisions + 1}
        /\ Repeated /\ UNCHANGED revision
     \/ Ends("failed") /\ UNCHANGED <<revisions, revision, repeats>>
  /\ UNCHANGED <<target, appspec, deployment, polled>>

-----------------------------------------------------------------------------
(* What a resource is named has the definitions under each spelling of     *)
(* `taskDefinition`, in order; the first is written.                       *)
SpliceFirst(content) == [content EXCEPT !.definitions[1] = revision]
Complete(resources) ==
  \A r \in DOMAIN resources : \A c \in DOMAIN resources[r] :
    resources[r][c].properties /\ resources[r][c].definitions # <<>>

(* A mutant: only the first resource is written. *)
SpliceOne ==
  [appspec EXCEPT !.resources =
     [r \in DOMAIN @ |-> IF r = 1 THEN [c \in DOMAIN @[r] |-> SpliceFirst(@[r][c])]
                         ELSE @[r]]]

(* update_task_def_arn *)
Spliced ==
  [appspec EXCEPT !.resources =
     [r \in DOMAIN @ |-> [c \in DOMAIN @[r] |-> SpliceFirst(@[r][c])]]]

Splice ==
  /\ deployAt = "splice"
  /\ IF appspec.listed /\ Complete(appspec.resources)
     THEN Ends("create") /\ appspec' = Spliced
     ELSE Ends("failed") /\ UNCHANGED appspec
  /\ UNCHANGED <<target, revisions, revision, deployment, polled, repeats>>

(* The group has its own waits, and the deployment may take a little more, *)
(* or never end.                                                           *)
Own == PerMinute * (target.ready + target.terminate)
Told == target.ready # Unset /\ target.terminate # Unset
Durations == IF Told THEN {0, Own, Own + 1} ELSE {0, PerMinute * Most}

Created == {[content |-> appspec.resources, outcome |-> outcome, lasts |-> lasts] :
             outcome \in {"succeeded", "failed"}, lasts \in Durations}

(* While one goes on in the group there is no other. *)
Create ==
  /\ deployAt = "create"
  /\ \/ /\ deployment = NoDeployment
        /\ deployment' \in Created
        /\ Ends("wait") /\ UNCHANGED repeats
     \/ /\ deployment' \in {deployment} \cup IF deployment = NoDeployment THEN Created ELSE {}
        /\ Repeated
     \/ Ends("failed") /\ UNCHANGED <<deployment, repeats>>
  /\ UNCHANGED <<target, appspec, revisions, revision, polled>>

-----------------------------------------------------------------------------
(* A mutant: the waits of the group, without the headroom. *)
MinutesBare ==
  IF ~Told THEN Least
  ELSE LET own == target.ready + target.terminate
       IN  IF own > Most THEN Most ELSE IF own >= Least THEN own ELSE Least

(* configured_wait and clamp_wait *)
Minutes ==
  IF ~Told THEN Least
  ELSE LET own == target.ready + target.terminate + Headroom
       IN  IF own > Most THEN Most ELSE IF own >= Least THEN own ELSE Least
Polls == Minutes * PerMinute

(* The first poll is immediate; a status that says nothing is polled again *)
(* after a delay, as often as there are polls.                             *)
Poll ==
  /\ deployAt = "wait"
  /\ polled' = polled + 1
  /\ \/ Ends(IF polled >= deployment.lasts THEN deployment.outcome
             ELSE IF polled' >= Polls THEN "gave up" ELSE "wait")
     \/ Ends("failed")
  /\ UNCHANGED <<target, appspec, revisions, revision, deployment, repeats>>

DeployNext ==
  Load \/ Describe \/ DescribeGroup \/ Register \/ Splice \/ Create \/ Poll

Spec == DeployInit /\ [][DeployNext]_deployVars

-----------------------------------------------------------------------------
DeployOver == deployAt \in {"succeeded", "failed", "gave up"}

(* A deployment that was created runs the revision the command reported in *)
(* each resource ("Write the new task definition ARN into every resource"),*)
(* and it is of a group that has no target but the service.                *)
DeploysTheRevision ==
  deployment # NoDeployment =>
    /\ revision # 0 /\ target.there
    /\ \A t \in DOMAIN target.services : target.services[t] \notin
         {"other"} \X {"name", "arn", "other"}
    /\ \A r \in DOMAIN deployment.content : \A c \in DOMAIN deployment.content[r] :
         deployment.content[r][c].definitions[1] = revision

(* Success is that of the deployment, after it ended; and a deployment that*)
(* takes as long as its group said is not given up ("so a group configured *)
(* to wait an hour gets an hour plus headroom").                           *)
SuccessOfDeployment ==
  deployAt = "succeeded" => deployment.outcome = "succeeded" /\ polled > deployment.lasts
PatientEnough ==
  deployAt = "gave up" =>
    \/ ~Told
    \/ deployment.lasts > Own + 1
    \/ target.ready + target.terminate + Headroom > Most

(* A rollout reports what the service came to, and nothing is registered   *)
(* for a group that is for something else.                                 *)
DeployTells ==
  /\ DeploysTheRevision /\ SuccessOfDeployment /\ PatientEnough
  /\ revisions > 0 => Valid
===============================================================================
