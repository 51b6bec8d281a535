----------------------------- MODULE ProfileChain -----------------------------
(***************************************************************************)
(* The credential chain of awsc-runtime's credentials/mod.rs: `resolve`,   *)
(* `from_profile` and `resolve_assume_role`, whose recursion over source   *)
(* profiles is the stack of roles still to be assumed.  What the other     *)
(* providers do inside (SSO, credential_process, the metadata services,    *)
(* STS) is external here: they give credentials, have none, or fail.       *)
(***************************************************************************)
EXTENDS Naturals, Sequences, SequencesExt, FiniteSets

CONSTANTS
  Configs,            (* the files: a section for each profile             *)
  Default             (* the profile used when none is named               *)

(* A section: who its role is assumed with, and what else it declares.     *)
(* role: "none", "web", "profile" (source_profile), "source"               *)
(* (credential_source = Environment), "both" or "neither"; from: the       *)
(* source profile; has: the other mechanisms, of Mechanisms; exists.       *)
Mechanisms == <<"sso", "keys", "process", "configKeys">>
Section(role, from, has) == [exists |-> TRUE, role |-> role, from |-> from, has |-> has]
NoSection == [exists |-> FALSE, role |-> "none", from |-> 0, has |-> {}]

VARIABLES
  chainAt,            (* "start", "profile", "assume", "resolved" or       *)
                      (* "error"                                           *)
  config,             (* the two files                                     *)
  env,                (* AWS_ACCESS_KEY_ID and its secret are set          *)
  ambient,            (* a container or instance has credentials           *)
  explicit,           (* a profile was named                               *)
  profile,            (* the profile in hand                               *)
  visited,            (* `visited`                                         *)
  stack,              (* the profiles whose roles are to be assumed        *)
  creds               (* the credentials: [method, of, roles]; roles are   *)
                      (* the profiles whose roles were assumed, in order   *)

chainVars == <<chainAt, config, env, ambient, explicit, profile, visited, stack, creds>>

NoCreds == [method |-> "none", of |-> 0, roles |-> <<>>]
Creds(method, of) == [method |-> method, of |-> of, roles |-> <<>>]

ChainInit ==
  /\ chainAt = "start"
  /\ config \in Configs
  /\ env \in BOOLEAN /\ ambient \in BOOLEAN
  /\ explicit \in BOOLEAN
  /\ profile = Default
  /\ visited = {} /\ stack = <<>>
  /\ creds = NoCreds

-----------------------------------------------------------------------------
ChainFails ==
  /\ chainAt' = "error"
  /\ UNCHANGED <<creds, profile, visited, stack>>

(* A source of credentials: they serve the roles on the stack, if any. *)
Found(method, of) ==
  /\ creds' = Creds(method, of)
  /\ chainAt' = IF stack = <<>> THEN "resolved" ELSE "assume"
  /\ UNCHANGED <<profile, visited, stack>>

FromAmbient == IF ambient THEN Found("ambient", 0) ELSE ChainFails

(* A mutant: the environment comes first, whatever was named. *)
StartWithEnv ==
  /\ chainAt = "start"
  /\ IF env THEN Found("env", 0)
     ELSE IF config[profile].exists
     THEN chainAt' = "profile" /\ UNCHANGED <<creds, profile, visited, stack>>
     ELSE IF explicit THEN ChainFails ELSE FromAmbient
  /\ UNCHANGED <<config, env, ambient, explicit>>

(* resolve: a named profile takes the environment out of the chain. *)
StartChain ==
  /\ chainAt = "start"
  /\ IF ~explicit /\ env THEN Found("env", 0)
     ELSE IF config[profile].exists
     THEN chainAt' = "profile" /\ UNCHANGED <<creds, profile, visited, stack>>
     ELSE IF explicit THEN ChainFails ELSE FromAmbient
  /\ UNCHANGED <<config, env, ambient, explicit>>

(* from_profile, for a section without a role: the first mechanism, in the *)
(* chain's order, that it declares.  SSO and a process may fail.           *)
FromSection ==
  LET section == config[profile]
      declared == SelectSeq(Mechanisms, LAMBDA m : m \in section.has)
  IN  /\ chainAt = "profile"
      /\ section.role = "none"
      /\ IF declared = <<>> THEN FromAmbient
         ELSE \/ Found(declared[1], profile)
              \/ declared[1] \in {"sso", "process"} /\ ChainFails
      /\ UNCHANGED <<config, env, ambient, explicit>>

(* resolve_assume_role, down to the source of the role's credentials. *)
Revisits == profile \in visited

FromRole ==
  LET section == config[profile]
  IN  /\ chainAt = "profile"
      /\ section.role # "none"
      /\ \/ section.role \in {"both", "neither"} /\ ChainFails
         \/ Revisits /\ ChainFails
         \/ /\ ~Revisits
            /\ section.role = "web"
            /\ Found("web", profile) \/ ChainFails
         \/ /\ ~Revisits
            /\ section.role = "source"
            /\ visited' = visited \cup {profile}
            /\ IF env THEN /\ creds' = Creds("env", profile)
                           /\ stack' = Append(stack, profile)
                           /\ chainAt' = "assume"
                      ELSE chainAt' = "error" /\ UNCHANGED <<creds, stack>>
            /\ UNCHANGED profile
         \/ /\ ~Revisits
            /\ section.role = "profile"
            /\ visited' = visited \cup {profile}
            /\ IF config[section.from].exists
               THEN /\ profile' = section.from
                    /\ stack' = Append(stack, profile)
                    /\ UNCHANGED chainAt
               ELSE chainAt' = "error" /\ UNCHANGED <<profile, stack>>
            /\ UNCHANGED creds
      /\ UNCHANGED <<config, env, ambient, explicit>>

(* assume_role for the innermost role still open, with the credentials of  *)
(* its source.                                                             *)
AssumeRole ==
  /\ chainAt = "assume"
  /\ \/ /\ creds' = [creds EXCEPT !.roles = Append(@, Last(stack))]
        /\ stack' = Front(stack)
        /\ chainAt' = IF stack' = <<>> THEN "resolved" ELSE "assume"
        /\ UNCHANGED <<profile, visited>>
     \/ ChainFails
  /\ UNCHANGED <<config, env, ambient, explicit>>

ChainNext == StartChain \/ FromSection \/ FromRole \/ AssumeRole

Spec == ChainInit /\ [][ChainNext]_chainVars
FairSpec == Spec /\ WF_chainVars(ChainNext)

-----------------------------------------------------------------------------
(* The command works as whom the user named: its credentials come from     *)
(* that profile, through the roles its source profiles chain, each assumed *)
(* with the credentials of the one it names and the last its own; the      *)
(* environment's keys serve only a user who named no profile, or a role    *)
(* that asks for them; and a chain that comes back to itself is refused.   *)
RightCredentials ==
  /\ Len(stack) <= Cardinality(DOMAIN config)
  /\ chainAt = "resolved" /\ creds.roles # <<>> =>
       /\ Last(creds.roles) = Default
       /\ \A k \in 2 .. Len(creds.roles) :
            config[creds.roles[k]].from = creds.roles[k - 1]
       /\ creds.method \notin {"ambient", "env"} =>
            config[creds.roles[1]].from = creds.of
  /\ chainAt = "resolved" /\ creds.method = "env" =>
       \/ ~explicit /\ creds.roles = <<>>
       \/ creds.roles # <<>> /\ config[creds.roles[1]].role = "source"
  /\ chainAt = "resolved" /\ creds.method \in {"keys", "sso", "configKeys", "process"} =>
       config[creds.of].role = "none"

(* However the profiles name each other, the chain ends. *)
ChainOver == chainAt \in {"resolved", "error"}
ChainEnds == <>ChainOver
===============================================================================
