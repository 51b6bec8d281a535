-------------------------------- MODULE Invoke --------------------------------
(***************************************************************************)
(* One command of a service from its line to its exit (main.rs: run, main):*)
(* the checks and their order, the request, what is shown of the answer,   *)
(* and how an error is reported.  What each step does within is of other   *)
(* modules; here it succeeds, or fails as it can, and a fault that a step  *)
(* meets is one that the line or the world had all along.                  *)
(***************************************************************************)
EXTENDS Naturals, Sequences

CONSTANTS
  Kinds,        (* of operations: "custom", "plain", "file", "events",       *)
                (* "duplex", "wait"                                          *)
  Skeletons,    (* --generate-cli-skeleton: "none", "input", "output",       *)
                (* "yaml-input", "bogus"                                     *)
  ErrorFormats, (* --cli-error-format: "enhanced", "legacy", "json"          *)
  MaxEvents     (* bound: events that a stream brings                        *)

VARIABLES
  invoked,      (* the line: [kind, skeleton, format]                        *)
  invokeAt,     (* where it is; "done"                                       *)
  faults,       (* history: what was met wrong                               *)
  errorFormat,  (* ERROR_FORMAT: "unset" until the line was parsed           *)
  requests,     (* history: calls made                                       *)
  stdout,       (* what was printed: "skeleton", "event", "document", ...    *)
  wrote,        (* the output file was written                               *)
  failure,      (* [code, blamed, service], code 0 where there is none       *)
  stderr        (* how the failure was shown: "none", "plain", "record",     *)
                (* "message", "bare"                                         *)

invokeVars == <<invoked, invokeAt, faults, errorFormat, requests, stdout, wrote, failure,
                stderr>>

Fine == [code |-> 0, blamed |-> "none", service |-> FALSE]
InvokeInit ==
  /\ invoked \in [kind : Kinds, skeleton : Skeletons, format : ErrorFormats]
  /\ invokeAt = "parse" /\ faults = {} /\ errorFormat = "unset" /\ requests = 0
  /\ stdout = <<>> /\ wrote = FALSE /\ failure = Fine /\ stderr = "none"

-----------------------------------------------------------------------------
On(to) == invokeAt' = to /\ UNCHANGED <<faults, failure>>
Fails(code, fault) ==
  /\ invokeAt' = "report" /\ faults' = faults \cup {fault}
  /\ failure' = [code |-> code, blamed |-> fault, service |-> FALSE]
ServiceFails ==
  /\ invokeAt' = "report" /\ faults' = faults \cup {"service"}
  /\ failure' = [code |-> 254, blamed |-> "service", service |-> TRUE]
Ends == invokeAt' = "done" /\ UNCHANGED <<faults, failure>>
Quiet == UNCHANGED <<invoked, errorFormat, requests, stdout, wrote, stderr>>
Prints(what) == stdout' = Append(stdout, what)

(* The line: help, the version and a bare `awsc` end it.                   *)
Parse ==
  /\ invokeAt = "parse"
  /\ \/ /\ On("custom") /\ errorFormat' = invoked.format
        /\ UNCHANGED <<requests, stdout, wrote>>
     \/ Ends /\ Prints("help") /\ UNCHANGED <<errorFormat, requests, wrote>>
     \/ Fails(252, "line") /\ UNCHANGED <<errorFormat, requests, stdout, wrote>>
  /\ UNCHANGED <<invoked, stderr>>

(* Commands that no model describes come first: the rest is theirs.        *)
Dispatch ==
  /\ invokeAt = "custom"
  /\ IF invoked.kind = "custom"
     THEN Ends \/ ServiceFails \/ \E code \in {1, 252, 253, 255} : Fails(code, "custom")
     ELSE On("models")
  /\ Quiet

(* That there are models at all, then that the service is one of them: a   *)
(* container that has not it is asked before the JSON.                     *)
FindService ==
  /\ invokeAt = "models"
  /\ \/ On(IF invoked.kind = "wait" THEN "waiter" ELSE "operation")
     \/ Fails(255, "catalogue") \/ Fails(252, "unknown service")
  /\ Quiet
FindWaiter ==
  /\ invokeAt = "waiter"
  /\ On("operation") \/ Fails(252, "no waiter") \/ Fails(252, "unknown waiter")
  /\ Quiet
(* A command that was not ported is told from a name that is none.         *)
FindOperation ==
  /\ invokeAt = "operation"
  /\ \/ On(IF invoked.skeleton = "none" THEN "line" ELSE "skeleton")
     \/ Fails(252, "unported") \/ Fails(252, "unknown operation")
  /\ Quiet

(* A skeleton is printed without a client; that of the output checks the   *)
(* line's parameters, and then itself against the shape.                   *)
Skeleton ==
  /\ invokeAt = "skeleton"
  /\ \/ /\ invoked.skeleton = "yaml-input" /\ Fails(255, "yaml skeleton") /\ UNCHANGED stdout
     \/ /\ invoked.skeleton = "bogus" /\ Fails(252, "skeleton") /\ UNCHANGED stdout
     \/ /\ invoked.skeleton = "output"
        /\ Fails(252, "value") \/ Fails(255, "base64") \/ Fails(252, "shape") \/ Fails(252, "stub")
        /\ UNCHANGED stdout
     \/ /\ invoked.skeleton \in {"input", "output"}
        /\ \/ Ends /\ Prints("skeleton")
           \/ Fails(255, "render") /\ UNCHANGED stdout
  /\ UNCHANGED <<invoked, errorFormat, requests, wrote, stderr>>

-----------------------------------------------------------------------------
(* What the line lacks.  An argument that only the reference knows is      *)
(* blamed before those that it would have stood for.                       *)
Complete ==
  /\ invokeAt = "line"
  /\ \E outfile, inert, missing \in BOOLEAN :
       /\ invoked.kind # "file" => outfile
       /\ IF ~outfile THEN Fails(252, "outfile")
          ELSE IF inert
          THEN /\ invokeAt' = "report"
               /\ faults' = faults \cup {"inert"} \cup (IF missing THEN {"missing"} ELSE {})
               /\ failure' = [code |-> 252, blamed |-> "inert", service |-> FALSE]
          ELSE IF missing THEN Fails(252, "missing") ELSE On("bind")
  /\ Quiet

(* The parameters, then the document that fills in what they leave.        *)
Bind ==
  /\ invokeAt = "bind"
  /\ \/ On("connect") \/ Fails(252, "value") \/ Fails(255, "base64")
     \/ Fails(252, "paramfile") \/ Fails(252, "document") \/ Fails(252, "merge")
  /\ Quiet

(* Client::for_operation: the region and the endpoint, then credentials,   *)
(* which may be those of a role or a session and ask another service.      *)
(* A missing region ends with 253 (client.rs:285).  exit.rs:10,13-15 says  *)
(* that it is 254 and not 253: no property here depends on which it is.    *)
Connect ==
  /\ invokeAt = "connect"
  /\ \/ On("validate") \/ Fails(253, "region") \/ Fails(255, "endpoint")
     \/ \E code \in {253, 254, 255} : Fails(code, "credentials")
  /\ Quiet

(* A mutant: the request goes out and the service is left to refuse it. *)
ValidateLate == invokeAt = "validate" /\ (On("call") \/ Fails(252, "shape")) /\ requests' = requests + 1
                /\ UNCHANGED <<invoked, errorFormat, stdout, wrote, stderr>>
(* Before any network work.                                                *)
Validate ==
  /\ invokeAt = "validate"
  /\ On("call") \/ Fails(252, "shape")
  /\ Quiet

-----------------------------------------------------------------------------
Streaming == invoked.kind \in {"events", "duplex"}
(* The call, and all its pages or polls: an error of the service, or of    *)
(* the way to it, ends it.                                                 *)
Call ==
  /\ invokeAt = "call" /\ requests' = requests + 1
  /\ \/ On(CASE invoked.kind = "file" -> "file" [] Streaming -> "stream"
             [] invoked.kind = "wait" -> "polled" [] OTHER -> "query")
     \/ ServiceFails
     \/ Fails(255, "connection")
  /\ UNCHANGED <<invoked, errorFormat, stdout, wrote, stderr>>

(* The body goes to the file, and the headers are the document.            *)
ToFile ==
  /\ invokeAt = "file"
  /\ \/ On("show") /\ wrote' = TRUE
     \/ Fails(255, "disk") /\ wrote' \in BOOLEAN
  /\ UNCHANGED <<invoked, errorFormat, requests, stdout, stderr>>

(* Events are printed as they land; one that says an error is kept for the *)
(* end, and a kind nobody knows is warned of and passed over.              *)
Stream ==
  /\ invokeAt = "stream"
  /\ \/ Len(stdout) < MaxEvents /\ Prints("event") /\ On("stream")
     \/ /\ faults' = faults \cup {"exception"} /\ UNCHANGED <<invokeAt, failure, stdout>>
     \/ Fails(255, "connection") /\ UNCHANGED stdout
     \/ /\ "exception" \in faults /\ invokeAt' = "report" /\ UNCHANGED <<faults, stdout>>
        /\ failure' = [code |-> 254, blamed |-> "exception", service |-> TRUE]
     \/ "exception" \notin faults /\ Ends /\ UNCHANGED stdout
  /\ UNCHANGED <<invoked, errorFormat, requests, wrote, stderr>>

(* A waiter prints nothing: its exit says how it ended.                    *)
Polled ==
  /\ invokeAt = "polled"
  /\ Ends \/ Fails(255, "waiter")
  /\ Quiet

(* --query sees what the pages made together, and comes after them.        *)
Query ==
  /\ invokeAt = "query"
  /\ On("show") \/ Fails(252, "query")
  /\ Quiet
Show ==
  /\ invokeAt = "show"
  /\ \/ Ends /\ stdout' \in {stdout, Append(stdout, "document")}
     \/ Fails(255, "render") /\ UNCHANGED stdout
  /\ UNCHANGED <<invoked, errorFormat, requests, wrote, stderr>>

-----------------------------------------------------------------------------
(* main: the record of a failure goes by its code, and an error of the     *)
(* service by the code of the service.                                     *)
ErrorRecord ==
  CASE failure.code = 252 -> "ParamValidation"
    [] failure.code = 253 -> "Configuration"
    [] failure.code = 254 /\ failure.service -> "service"
    [] OTHER -> "none"
Format == IF errorFormat = "unset" THEN "enhanced" ELSE errorFormat
Rendered ==
  CASE ErrorRecord = "none" -> "plain"
    [] Format = "json" -> "record"
    [] Format = "legacy" -> "message"
    [] OTHER -> "plain"
Report ==
  /\ invokeAt = "report" /\ Ends
  /\ stderr' = IF failure.blamed = "custom" /\ failure.code = 1 THEN "bare" ELSE Rendered
  /\ UNCHANGED <<invoked, errorFormat, requests, stdout, wrote>>

InvokeStep ==
  \/ Parse \/ Dispatch \/ FindService \/ FindWaiter \/ FindOperation \/ Skeleton \/ Complete
  \/ Bind \/ Connect \/ Validate \/ Call \/ ToFile \/ Stream \/ Polled \/ Query \/ Show \/ Report
InvokeNext == InvokeStep

-----------------------------------------------------------------------------
(* A command exits 0 only if nothing was wrong, an error that a stream     *)
(* brought among its events included, and otherwise says one thing that    *)
(* was.  A line that is refused as such sends nothing ("before any network *)
(* work, exactly as the reference does"), but for a query, which is looked *)
(* at after the operation took effect.  A skeleton asks nobody, with or    *)
(* without credentials.  What was printed before an error is events and    *)
(* stays.  Only a failure that is the line's, the configuration's or the   *)
(* service's has a record, and one that the parser raised has the default  *)
(* format.  Which of 253 and 254 a missing region ends with is not claimed *)
(* (Connect).                                                              *)
InvokeTells ==
  /\ invokeAt = "done" =>
       /\ failure.code = 0 <=> faults = {}
       /\ failure.code = 0 <=> stderr = "none"
       /\ failure.blamed \in faults \cup {"none"}
       /\ "inert" \in faults => failure.blamed = "inert"
  /\ failure.code = 252 /\ invoked.kind # "custom" =>
       requests = 0 \/ (failure.blamed = "query" /\ invoked.kind = "plain")
  /\ invoked.skeleton # "none" /\ invoked.kind # "custom" =>
       requests = 0 /\ faults \cap {"region", "endpoint", "credentials", "missing"} = {}
  /\ failure.code # 0 => \A n \in DOMAIN stdout : stdout[n] = "event"
  /\ wrote => requests = 1 /\ invoked.kind = "file"
  /\ stderr = "record" => failure.code \in {252, 253, 254} /\ errorFormat = "json"
  /\ faults = {"line"} /\ invokeAt = "done" => stderr = "plain"
InvokeOver == invokeAt \in {"done", "parked"}
===============================================================================
