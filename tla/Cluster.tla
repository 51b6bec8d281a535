-------------------------------- MODULE Cluster --------------------------------
(***************************************************************************)
(* The commands of emr that make a cluster and change one (emr_create.rs,  *)
(* emr.rs): create-cluster, add-steps, install-applications, the commands  *)
(* of HBase, modify-cluster-attributes, terminate-clusters, ssh and scp.   *)
(*                                                                         *)
(* A cluster is of the era of release labels or of that of AMI versions,   *)
(* and half of the flags mean something else in the other.  A command is a *)
(* record of what was given.  A step is its name, the jar it runs through  *)
(* and what its failure does; of a bootstrap action the name is kept.      *)
(*                                                                         *)
(* Commands run one after another, while the service starts and ends the   *)
(* cluster; a call is refused, or answered, or takes effect and is lost.   *)
(***************************************************************************)
EXTENDS Integers, Sequences, SequencesExt, FiniteSets, TLC

CONSTANTS
  Sessions,           (* the commands, one after another                   *)
  MaxBoots            (* bootstrap actions of a cluster (16)               *)

VARIABLES
  emrAt,              (* "begin", "described", "wait", "send", "connect"   *)
  session,            (* the commands that are left                        *)
  cluster,            (* what the service holds                            *)
  heard,              (* the cluster as it was described, or as the last   *)
                      (* command left it                                   *)
  sending,            (* the calls that are left, each [op, value]         *)
  emrDone             (* the commands that are over: [ask, code, was, saw] *)

emrVars == <<emrAt, session, cluster, heard, sending, emrDone>>

Switches == {"visible", "protected", "alive", "replace"}
NoCluster == [phase |-> "none", era |-> "none", steps |-> <<>>, boots |-> <<>>,
              request |-> {}, switches |-> [s \in Switches |-> FALSE], groups |-> <<>>,
              emrfs |-> {}]

EmrInit ==
  /\ emrAt = "begin" /\ session \in Sessions /\ cluster = NoCluster /\ heard = NoCluster
  /\ sending = <<>> /\ emrDone = <<>>

Ask == Head(session)
Given(flag) == flag \in Ask.flags

-----------------------------------------------------------------------------
(***************************************************************************)
(* Steps.                                                                  *)
(***************************************************************************)
Step(name, jar, failure) == [name |-> name, jar |-> jar, failure |-> failure]
Runner(era) == IF era = "release" THEN "command-runner" ELSE "script-runner"

(* build_step: what a step of a type needs, and what it runs through. *)
StepTypes == {"custom_jar", "streaming", "hive", "pig", "impala", "spark"}
BadStep(step, era) ==
  \/ step.type \notin StepTypes \/ ~step.whole
  \/ step.type = "impala" /\ era = "release"
JarOf(type, era) ==
  CASE type = "custom_jar" -> "own"
    [] type = "streaming" /\ era = "ami" -> "streaming"
    [] type = "streaming" -> "command-runner"
    [] type = "impala" -> "script-runner"
    [] OTHER -> Runner(era)
BuildStep(step, era) == Step(step.type, JarOf(step.type, era), step.failure)
BuildSteps(steps, era) == [i \in DOMAIN steps |-> BuildStep(steps[i], era)]

(* An application of the AMI era: its bootstrap action, and its steps.     *)
AppBoots(app) ==
  CASE app = "ganglia" -> <<"Install Ganglia">> [] app = "hbase" -> <<"Install HBase">>
    [] app = "impala" -> <<"Install Impala">> [] OTHER -> <<>>
Install(name) == Step(name, "script-runner", "TERMINATE_CLUSTER")
AppSteps(app) ==
  CASE app = "hive" -> <<Install("Install Hive")>>
    [] app = "hive with a site" ->
         <<Install("Install Hive"),
           Step("Install Hive Site Configuration", "script-runner", "CANCEL_AND_WAIT")>>
    [] app = "pig" -> <<Install("Install Pig")>>
    [] app = "hbase" -> <<Step("Start HBase", "hbase", "TERMINATE_CLUSTER")>>
    [] OTHER -> <<>>
Installing(apps) == FlattenSeq([i \in DOMAIN apps |-> AppSteps(apps[i])])

(* What an application is called, with or without a site. *)
Called(app) == IF app = "hive with a site" THEN "hive" ELSE app
NamesIn(apps) == {Called(apps[i]) : i \in DOMAIN apps}

-----------------------------------------------------------------------------
(***************************************************************************)
(* create-cluster: what is refused.                                        *)
(***************************************************************************)
Pairs ==
  {<<"protected", "no-protected">>, <<"replace", "no-replace">>, <<"visible", "no-visible">>,
   <<"auto-terminate", "no-auto-terminate">>, <<"debugging", "no-debugging">>}
Contradicts == \E pair \in Pairs : Given(pair[1]) /\ Given(pair[2])

Era == IF \E l \in Ask.labels : l = "release" THEN "release" ELSE "ami"
BadEra == Cardinality(Ask.labels) # 1 \/ Ask.labels = {"odd"}
BadRoles ==
  Given("default-roles") /\ (Given("service-role") \/ "InstanceProfile" \in Ask.ec2)
Has(what) == what \in Ask.capacity
BadCapacity ==
  \/ Has("groups") /\ (Has("fleets") \/ Has("type") \/ Has("count"))
  \/ ~Has("groups") /\ ~Has("type") /\ ~Has("fleets")
BadPolicy == Has("groups") /\ Given("policy") /\ ~Given("scaling-role")
Subnets == {"SubnetId", "SubnetIds"} \cap Ask.ec2
Zones == {"AvailabilityZone", "AvailabilityZones"} \cap Ask.ec2
BadPlacement == Cardinality(Subnets) > 1 \/ Cardinality(Zones) > 1 \/ (Subnets # {} /\ Zones # {})
BadDebugging == Given("debugging") /\ ~Given("log-uri")
BadApps == Era = "ami" /\ "hbase" \in NamesIn(Ask.apps) /\ Ask.labels = {"ami1"}

AmiBoots ==
  IF Era = "ami" THEN FlattenSeq([i \in DOMAIN Ask.apps |-> AppBoots(Ask.apps[i])]) ELSE <<>>
(* A mutant: only the user's own actions count. *)
BadBootsOwn == Ask.boots > MaxBoots
BadBoots == Ask.boots > 0 /\ Len(AmiBoots) + Ask.boots > MaxBoots

(* verify_emrfs: a setting and what it hangs from. *)
Emrfs == Ask.emrfs
Set(key) == key \in DOMAIN Emrfs
Client == Set("Encryption") /\ Emrfs["Encryption"] = "client"
By(provider) == Client /\ Set("ProviderType") /\ Emrfs["ProviderType"] = provider
Custom == {"CustomProviderLocation", "CustomProviderClass"}
BadEmrfs ==
  \/ Set("Encryption") /\ (Emrfs["Encryption"] \notin {"server", "client"} \/ Set("SSE"))
  \/ Client /\ (Set("ProviderType") => Emrfs["ProviderType"] \notin {"kms", "custom"})
  \/ By("kms") /\ ~Set("KMSKeyId")
  \/ By("custom") /\ \E key \in Custom : ~Set(key)
  \/ ~Set("Consistent") /\ (Set("RetryCount") \/ Set("RetryPeriod"))
  \/ ~By("kms") /\ Set("KMSKeyId")
  \/ ~By("custom") /\ \E key \in Custom : Set(key)
BadSite == Era = "release" /\ DOMAIN Emrfs # {} /\ Ask.config = "site"

BadSteps == \E i \in DOMAIN Ask.steps : BadStep(Ask.steps[i], Era)

(* validate_s3_logging: the kinds of logs, their policies and --log-uri.   *)
Kept == {"emr-managed", "on-customer-s3only"}
Policy(type) == Ask.logs[type]
Main == {"system-logs", "application-logs"} \cap DOMAIN Ask.logs
NeedsUri == \E t \in Main : Policy(t) \in Kept
BadLogs ==
  /\ DOMAIN Ask.logs # {}
  /\ \/ \E t \in DOMAIN Ask.logs :
          \/ t \notin {"system-logs", "application-logs", "persistent-ui-logs"}
          \/ Policy(t) \notin Kept \cup {"disabled"}
          \/ t = "persistent-ui-logs" /\ Policy(t) = "on-customer-s3only"
     \/ NeedsUri /\ ~Given("log-uri")
     \/ ~NeedsUri /\ Given("log-uri")

(* validate_required_applications *)
Needs ==
  ({Ask.steps[i].type : i \in DOMAIN Ask.steps} \cap {"hive", "pig", "impala"})
    \cup (IF Given("restore") THEN {"hbase"} ELSE {})
BadNeeds == ~(Needs \subseteq NamesIn(Ask.apps))

Refused ==
  BadEra \/ BadRoles \/ BadCapacity \/ BadPolicy \/ Contradicts \/ BadPlacement \/ BadDebugging
  \/ BadApps \/ BadBoots \/ (DOMAIN Emrfs # {} /\ BadEmrfs) \/ BadSite \/ BadSteps \/ BadLogs
  \/ BadNeeds

-----------------------------------------------------------------------------
(***************************************************************************)
(* create-cluster: what is sent.                                           *)
(***************************************************************************)
Group(role, count, market, bid) == [role |-> role, count |-> count, market |-> market, bid |-> bid]
Shortcut ==
  <<Group("MASTER", 1, "ON_DEMAND", FALSE)>>
  \o IF Has("count") /\ Ask.count > 1
     THEN <<Group("CORE", Ask.count - 1, "ON_DEMAND", FALSE)>> ELSE <<>>
(* A bid of the on-demand price is a spot group without one. *)
GroupOf(g) ==
  Group(g.role, g.count, IF g.bid = "none" THEN "ON_DEMAND" ELSE "SPOT", g.bid = "price")
Groups ==
  IF Has("fleets") THEN <<>>
  ELSE IF Has("groups") THEN [i \in DOMAIN Ask.groups |-> GroupOf(Ask.groups[i])] ELSE Shortcut

(* build_emrfs_properties, and the location of a provider of one's own. *)
Properties ==
  {p \in {"consistent", "retryCount", "retryPeriod", "sse", "cse", "provider", "kmsKey", "location"} :
     \/ p = "consistent" /\ Set("Consistent")
     \/ p = "retryCount" /\ Set("Consistent") /\ Set("RetryCount")
     \/ p = "retryPeriod" /\ Set("Consistent") /\ Set("RetryPeriod")
     \/ p = "sse" /\ (Set("SSE") \/ (Set("Encryption") /\ Emrfs["Encryption"] = "server"))
     \/ p \in {"cse", "provider"} /\ (By("kms") \/ By("custom"))
     \/ p = "kmsKey" /\ By("kms")
     \/ p = "location" /\ By("custom")}
EmrfsBoots ==
  IF DOMAIN Emrfs = {} \/ Era = "release" THEN <<>>
  ELSE (IF By("custom") THEN <<"S3 get">> ELSE <<>>) \o <<"Setup EMRFS">>

OfEmrfs == {"S3 get", "Setup EMRFS"}
Boots == AmiBoots \o [i \in 1 .. Ask.boots |-> "own"] \o EmrfsBoots

Debugging ==
  IF Given("debugging") THEN <<Step("Setup Hadoop Debugging", Runner(Era), "TERMINATE_CLUSTER")>>
  ELSE <<>>
Installs == IF Era = "ami" THEN Installing(Ask.apps) ELSE <<>>
Restore ==
  IF Given("restore") THEN <<Step("Restore HBase", "hbase", "CANCEL_AND_WAIT")>> ELSE <<>>
Steps == Debugging \o Installs \o Restore \o BuildSteps(Ask.steps, Era)

(* Values that are sent as they are: an empty one and a zero are not.      *)
Plain == {"log-uri", "scaling-role", "ebs-size", "step-concurrency", "zero-concurrency"}
Request ==
  (Ask.flags \cap Plain)
  \cup (IF Given("default-roles") \/ Given("service-role") THEN {"service-role"} ELSE {})
  \cup (IF Given("default-roles") \/ "InstanceProfile" \in Ask.ec2 THEN {"JobFlowRole"} ELSE {})
  \cup (Ask.ec2 \ {"InstanceProfile"})
  \cup (IF Has("fleets") THEN {"fleets"} ELSE {})
  \cup (IF Era = "release" /\ Ask.config # "none" THEN {"configurations"} ELSE {})
  \cup (IF Era = "release" /\ Ask.apps # <<>> THEN {"applications"} ELSE {})
  \cup (IF Era = "ami" /\ \E a \in NamesIn(Ask.apps) :
                             a \notin {"hive", "pig", "ganglia", "hbase", "impala"}
        THEN {"products"} ELSE {})
  \cup (IF DOMAIN Ask.logs # {} THEN {"monitoring"} ELSE {})
Made ==
  [phase |-> "starting", era |-> Era, steps |-> Steps, boots |-> Boots, groups |-> Groups,
   request |-> Request, emrfs |-> Properties,
   switches |-> [s \in Switches |->
     CASE s = "visible" -> Given("visible") \/ ~Given("no-visible")
       [] s = "alive" -> Given("no-auto-terminate") \/ ~Given("auto-terminate")
       [] OTHER -> Given(s)]]

-----------------------------------------------------------------------------
(* The end of a command, and its calls. *)
Refusal == 252
Ended(code) ==
  /\ emrDone' = Append(emrDone, [ask |-> Ask, code |-> code, was |-> heard, saw |-> heard.era])
  /\ session' = Tail(session) /\ emrAt' = "begin" /\ sending' = <<>> /\ heard' = cluster'
End(code) == UNCHANGED cluster /\ Ended(code)
Starts(verbs) == emrAt = "begin" /\ session # <<>> /\ Ask.verb \in verbs
Call(op, value) == [op |-> op, value |-> value]
Sends(list) ==
  /\ emrAt' = "send" /\ sending' = list /\ UNCHANGED <<session, cluster, heard, emrDone>>

Create ==
  /\ Starts({"create"})
  /\ IF Refused THEN End(Refusal) ELSE Sends(<<Call("run", Made)>>)

(* describe-cluster comes first where the era matters, after what can be   *)
(* refused without it.                                                     *)
BadInstall == \E i \in DOMAIN Ask.apps : Called(Ask.apps[i]) \notin {"hive", "pig"}
BadHbase ==
  CASE Ask.op \in {"backup", "restore"} -> ~Given("dir")
    [] Ask.op = "schedule" ->
         ~({"type", "dir", "interval", "unit"} \subseteq Ask.flags)
         \/ Ask.type \notin {"full", "incremental"} \/ Ask.unit \notin {"minutes", "hours", "days"}
    [] OTHER -> ~Given("full") /\ ~Given("incremental")
Unready ==
  CASE Ask.verb = "add" -> Ask.steps = <<>>
    [] Ask.verb = "install" -> Ask.apps = <<>> \/ BadInstall
    [] Ask.verb = "hbase" -> BadHbase
    [] OTHER -> ~({"cluster-id", "key"} \subseteq Ask.flags)
                \/ (Ask.op \in {"get", "put"} /\ ~Given("src"))
Describe ==
  /\ Starts({"add", "install", "hbase", "remote"})
  /\ \/ Unready /\ End(Refusal)
     \/ ~Unready /\ End(255)
     \/ /\ ~Unready /\ cluster.phase # "none"
        /\ emrAt' = "described" /\ heard' = cluster
        /\ UNCHANGED <<session, cluster, sending, emrDone>>

HbaseStep ==
  Step(CASE Ask.op = "backup" -> "Backup HBase" [] Ask.op = "restore" -> "Restore HBase"
         [] OTHER -> "Modify Backup Schedule", "hbase", "CANCEL_AND_WAIT")
(* A mutant: the era is not looked at. *)
AddAnyway ==
  /\ emrAt = "described" /\ Ask.verb \in {"add", "install", "hbase"}
  /\ IF Ask.verb = "add"
     THEN Sends(<<Call("steps", BuildSteps(Ask.steps, heard.era))>>)
     ELSE Sends(<<Call("steps", IF Ask.verb = "hbase" THEN <<HbaseStep>>
                                ELSE Installing(Ask.apps))>>)
Add ==
  /\ emrAt = "described" /\ Ask.verb \in {"add", "install", "hbase"}
  /\ IF Ask.verb = "add"
     THEN IF \E i \in DOMAIN Ask.steps : BadStep(Ask.steps[i], heard.era) THEN End(Refusal)
          ELSE Sends(<<Call("steps", BuildSteps(Ask.steps, heard.era))>>)
     ELSE IF heard.era = "release" THEN End(Refusal)
     ELSE Sends(<<Call("steps", IF Ask.verb = "hbase" THEN <<HbaseStep>>
                                ELSE Installing(Ask.apps))>>)

(* modify-cluster-attributes: a call for each, in this order.  The flag of *)
(* "alive" says the opposite.                                              *)
Order == <<"visible", "protected", "alive", "replace">>
Flag(switch) == IF switch = "alive" THEN "auto-terminate" ELSE switch
NoFlag(switch) ==
  CASE switch = "visible" -> "no-visible" [] switch = "protected" -> "no-protected"
    [] switch = "alive" -> "no-auto-terminate" [] OTHER -> "no-replace"
Asked(switch) == Given(Flag(switch)) \/ Given(NoFlag(switch))
Value(switch) == IF switch = "alive" THEN Given("no-auto-terminate") ELSE Given(switch)
Modify ==
  /\ Starts({"modify"})
  /\ LET asked == SelectSeq(Order, Asked)
     IN  IF Contradicts \/ asked = <<>> THEN End(Refusal)
         ELSE Sends([i \in DOMAIN asked |-> Call(asked[i], Value(asked[i]))])

Terminate == Starts({"terminate"}) /\ Sends(<<Call("terminate", "now")>>)

(* What the service makes of a call. *)
Done(call) ==
  CASE call.op = "run" -> call.value
    [] call.op = "steps" -> [cluster EXCEPT !.steps = @ \o call.value]
    [] call.op = "terminate" -> [cluster EXCEPT !.phase = "gone"]
    [] OTHER -> [cluster EXCEPT !.switches[call.op] = call.value]
Taken(call) ==
  /\ call.op = "run" \/ cluster.phase \notin {"none", "gone"}
  /\ call.op = "terminate" => ~cluster.switches["protected"]
Send ==
  /\ emrAt = "send" /\ sending # <<>>
  /\ \/ End(255)
     \/ /\ Taken(Head(sending)) /\ cluster' = Done(Head(sending))
        /\ \/ Ended(255)
           \/ Len(sending) = 1 /\ Ended(0)
           \/ /\ Len(sending) > 1 /\ sending' = Tail(sending)
              /\ UNCHANGED <<emrAt, session, heard, emrDone>>

-----------------------------------------------------------------------------
(***************************************************************************)
(* ssh, socks, get and put: wait for a cluster that starts, ask for its    *)
(* name again, and hand over to the program, whose code is the command's.  *)
(***************************************************************************)
Reach ==
  /\ emrAt = "described" /\ Ask.verb = "remote"
  /\ IF heard.phase = "gone" THEN End(Refusal)
     ELSE /\ emrAt' = IF heard.phase = "starting" THEN "wait" ELSE "connect"
          /\ UNCHANGED <<session, cluster, heard, sending, emrDone>>
Waited ==
  /\ emrAt = "wait"
  /\ \/ End(255)
     \/ /\ cluster.phase = "running" /\ emrAt' = "connect"
        /\ UNCHANGED <<session, cluster, heard, sending, emrDone>>
Connect ==
  /\ emrAt = "connect"
  /\ \/ End(255)
     \/ emrDone' = Append(emrDone, [ask |-> Ask, code |-> 0, was |-> heard, saw |-> cluster.phase])
        /\ session' = Tail(session) /\ emrAt' = "begin" /\ heard' = cluster
        /\ UNCHANGED <<cluster, sending>>

(* The service. *)
Evolve ==
  /\ \/ cluster.phase = "starting" /\ cluster' = [cluster EXCEPT !.phase = "running"]
     \/ cluster.phase = "running" /\ cluster' = [cluster EXCEPT !.phase = "gone"]
  /\ UNCHANGED <<emrAt, session, heard, sending, emrDone>>

Command ==
  Create \/ Describe \/ Add \/ Modify \/ Terminate \/ Send \/ Reach \/ Waited \/ Connect
EmrNext == Command \/ Evolve

-----------------------------------------------------------------------------
(***************************************************************************)
(* What is asked for.                                                      *)
(***************************************************************************)
(* Which era a jar belongs to; one of the user's own belongs to both.      *)
EraOf == [jar \in {"script-runner", "streaming", "hbase"} |-> "ami"] @@ ("command-runner" :> "release")
Runs(step, era) == step.jar \in DOMAIN EraOf => EraOf[step.jar] = era

(* What a step of a type finds on the cluster when it comes to it. *)
Installed(c, i) ==
  {CASE c.steps[k].name = "Install Hive" -> "hive" [] c.steps[k].name = "Install Pig" -> "pig"
     [] OTHER -> "other" : k \in 1 .. i - 1}
  \cup {IF c.boots[k] = "Install Impala" THEN "impala" ELSE "other" : k \in DOMAIN c.boots}

(* A setting of EMRFS for everything that was given, and for nothing else. *)
Effect == [Consistent |-> "consistent", RetryCount |-> "retryCount", RetryPeriod |-> "retryPeriod",
           SSE |-> "sse", KMSKeyId |-> "kmsKey", CustomProviderLocation |-> "location",
           CustomProviderClass |-> "provider"]
EmrfsAsAsked(ask, c) ==
  LET e == ask.emrfs
      named == {Effect[k] : k \in DOMAIN e \cap DOMAIN Effect}
      encrypted == IF "Encryption" \notin DOMAIN e THEN {}
                   ELSE IF e["Encryption"] = "server" THEN {"sse"} ELSE {"cse", "provider"}
  IN  c.emrfs = named \cup encrypted

RECURSIVE Total(_, _)
Total(groups, n) == IF n = 0 THEN 0 ELSE groups[n].count + Total(groups, n - 1)
CapacityAsAsked(ask, c) ==
  \/ "fleets" \in ask.capacity /\ c.groups = <<>> /\ "fleets" \in c.request
  \/ /\ "fleets" \notin ask.capacity /\ c.groups # <<>>
     /\ "type" \in ask.capacity =>
          Total(c.groups, Len(c.groups)) = IF "count" \in ask.capacity /\ ask.count > 1 THEN ask.count ELSE 1
     /\ \A i \in DOMAIN c.groups : c.groups[i].bid => c.groups[i].market = "SPOT"

(* A new cluster is what was asked for: everything given is in the         *)
(* request, the steps run in its era and after what they need, and its     *)
(* bootstrap actions are not too many.  Nothing is claimed of their number *)
(* where EMRFS has some: emr_create.rs:755 says that the cap counts those, *)
(* and they are added after it was looked at.  (A configuration given to   *)
(* an AMI cluster is passed over.)                                         *)
ClusterAsAsked(ask, c) ==
  /\ \A i \in DOMAIN c.steps :
       /\ Runs(c.steps[i], c.era)
       /\ (c.steps[i].name \in {"hive", "pig", "impala"} /\ c.era = "ami") =>
            (c.steps[i].name \in Installed(c, i))
  /\ c.era = "ami" => \A a \in NamesIn(ask.apps) :
       \/ "products" \in c.request
       \/ \E k \in DOMAIN c.boots : c.boots[k] \in Range(AppBoots(a))
       \/ \E n \in DOMAIN c.steps : c.steps[n] \in Range(AppSteps(a))
  /\ Cardinality({k \in DOMAIN c.boots : c.boots[k] = "own"}) = ask.boots
  /\ ask.boots > 0 /\ OfEmrfs \cap Range(c.boots) = {} => Len(c.boots) <= MaxBoots
  /\ EmrfsAsAsked(ask, c) /\ CapacityAsAsked(ask, c)
  /\ (ask.emrfs # << >> /\ c.era = "ami") => Last(c.boots) = "Setup EMRFS"
  /\ (ask.config # "none" /\ c.era = "release") => "configurations" \in c.request
  /\ ask.ec2 \ {"InstanceProfile"} \subseteq c.request
  /\ ("InstanceProfile" \in ask.ec2 \/ "default-roles" \in ask.flags) => "JobFlowRole" \in c.request
  /\ "debugging" \in ask.flags => "log-uri" \in c.request
  /\ c.switches["alive"] = ("auto-terminate" \notin ask.flags)
  /\ c.switches["visible"] = ("no-visible" \notin ask.flags)
  /\ \A s \in {"protected", "replace"} : c.switches[s] = (s \in ask.flags)

(* What was added is what was asked for, at the end, and runs on this      *)
(* cluster.                                                                *)
AddedAsAsked(d) ==
  LET c == cluster
      was == d.was.steps
      new == SubSeq(c.steps, Len(was) + 1, Len(c.steps))
  IN  /\ SubSeq(c.steps, 1, Len(was)) = was
      /\ d.code = Refusal => new = <<>>
      /\ d.code = 0 => new # <<>>
      /\ \A i \in DOMAIN new : Runs(new[i], c.era)
      /\ (d.code = 0 /\ d.ask.verb = "add") => [i \in DOMAIN new |-> new[i].name]
                                               = [i \in DOMAIN d.ask.steps |-> d.ask.steps[i].type]

(* A switch is set as asked or left as it was; a series that fails has set *)
(* those at its beginning.                                                 *)
SwitchedAsAsked(d) ==
  LET wants(s) == IF Flag(s) \in d.ask.flags THEN s # "alive" ELSE s = "alive"
      asked == SelectSeq(Order, LAMBDA s : {Flag(s), NoFlag(s)} \cap d.ask.flags # {})
      now == cluster.switches
  IN  \E n \in 0 .. Len(asked) :
        /\ \A s \in Switches :
             now[s] = IF \E i \in 1 .. n : asked[i] = s THEN wants(s) ELSE d.was.switches[s]
        /\ d.code = 0 => n = Len(asked)
        /\ d.code = Refusal => n = 0

(***************************************************************************)
(* Each command of emr leaves the cluster as it was asked to, or as it was *)
(* when it is refused; ssh is given the name of a cluster that runs, or of *)
(* one that went since.                                                    *)
(***************************************************************************)
EmrAsAsked ==
  (emrAt = "begin" /\ emrDone # <<>>) =>
    LET d == Last(emrDone)
        same == [cluster EXCEPT !.phase = d.was.phase]
    IN  CASE d.ask.verb = "create" ->
               /\ d.code = 0 => cluster.phase # "none"
               /\ d.code = Refusal => same = d.was
               /\ same # d.was => ClusterAsAsked(d.ask, cluster)
          [] d.ask.verb = "modify" -> SwitchedAsAsked(d)
          [] d.ask.verb = "terminate" ->
               (d.code = 0 => cluster.phase = "gone" /\ ~cluster.switches["protected"])
               /\ same = d.was
          [] d.ask.verb = "remote" ->
               d.code = 0 => d.saw \in {"running", "gone"} /\ d.was.phase # "gone"
          [] OTHER -> AddedAsAsked(d)

EmrOver == session = <<>>
===============================================================================
