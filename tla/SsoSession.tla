------------------------------ MODULE SsoSession ------------------------------
(***************************************************************************)
(* One SSO session and the processes that share its cached token: commands *)
(* that resolve credentials (credentials/sso.rs, and cache.rs for the role *)
(* credentials derived from it), `sso login` and `sso logout`              *)
(* (credentials/sso_login.rs).                                             *)
(*                                                                         *)
(* Files are written in place: opening truncates, and writing is a step of *)
(* its own.  Tokens are numbered as the service (external) issues them; it *)
(* keeps one valid refresh token for a session, a new one with every       *)
(* refresh where it rotates them.                                          *)
(***************************************************************************)
EXTENDS Naturals, FiniteSets

CONSTANTS
  Casts,              (* who runs: of processes 1 and 2, "command",        *)
                      (* "login" or "logout"                               *)
  MaxIssued,          (* bound: tokens the service issues                  *)
  MaxPolls            (* bound: polls of a login before the code expires   *)

VARIABLES
  cast,               (* what each process runs                            *)
  ssoAt,              (* where each process is                             *)
  held,               (* the token a process has read or been issued       *)
  spent,              (* whether the token it read had expired             *)
  opened,             (* the processes whose open handle is the file's     *)
  tokenFile,          (* the cached token                                  *)
  roleFile,           (* the cached role credentials: "missing", "torn",   *)
                      (* "stale" (whole, but not taken), "dated" or        *)
                      (* "lasting" (without an expiry)                     *)
  issued,             (* the service: tokens issued                        *)
  rotates,            (* whether it rotates refresh tokens                 *)
  refreshOf,          (* the valid refresh token of each session           *)
  ended,              (* the sessions that were logged out                 *)
  expiry,             (* each token: "fresh", "near" its expiry, or "past" *)
  code,               (* polls left before the device code expires         *)
  mishap,             (* history: a crash, a lost answer or a failed write *)
                      (* kept a refreshed token from the file, or two      *)
                      (* wrote it at once                                  *)
  crowded             (* history: others were at work during a logout, or  *)
                      (* after it                                          *)

serviceVars == <<issued, rotates, refreshOf, ended>>
historyVars == <<mishap, crowded>>
ssoVars == <<cast, ssoAt, held, spent, opened, tokenFile, roleFile, serviceVars,
             expiry, code, historyVars>>

Procs == DOMAIN cast
Token(session, access, refresh) ==
  [kind |-> "token", session |-> session, access |-> access, refresh |-> refresh]
Blank(kind) == [kind |-> kind, session |-> 0, access |-> 0, refresh |-> 0]
Missing == Blank("missing")
Torn == Blank("torn")

First(role) == CASE role = "command" -> "role" [] role = "login" -> "authorize"
                 [] role = "logout" -> "sweep"

SsoInit ==
  /\ cast \in Casts
  /\ ssoAt = [p \in Procs |-> First(cast[p])]
  /\ held = [p \in Procs |-> Missing]
  /\ spent = [p \in Procs |-> FALSE]
  /\ opened = {}
  /\ tokenFile \in {Missing, Token(1, 1, 1)}
  /\ roleFile \in IF tokenFile = Missing THEN {"missing"} ELSE {"stale", "dated"}
  /\ issued = 1
  /\ rotates \in BOOLEAN
  /\ refreshOf = [s \in 1 .. MaxIssued |-> IF s = 1 THEN 1 ELSE 0]
  /\ ended = {}
  /\ expiry = [t \in 1 .. MaxIssued |-> IF t = 1 THEN "near" ELSE "fresh"]
  /\ code = MaxPolls
  /\ mishap = FALSE /\ crowded = FALSE

-----------------------------------------------------------------------------
(* How a process may end. *)
Over == {"done", "failed", "crashed", "missing", "torn", "expired", "unauthorized"}

Goes(p, from, to) == ssoAt[p] = from /\ ssoAt' = [ssoAt EXCEPT ![p] = to]
Holds(p, token) == held' = [held EXCEPT ![p] = token]

(* A step of p while somebody else's logout is under way, or after it. *)
Notice(p) ==
  crowded' = (crowded \/ \E q \in Procs \ {p} : cast[q] = "logout" /\ ssoAt[q] # "sweep")

(* resolve: cached role credentials serve if they are whole and either     *)
(* have an expiry that reads as a time well ahead, which only other        *)
(* programs sharing the cache write, or have none at all.                  *)
Serving == roleFile \in {"dated", "lasting"}

ReadRole(p) ==
  /\ Goes(p, "role", IF Serving THEN "done" ELSE "token")
  /\ Notice(p)
  /\ UNCHANGED <<cast, held, spent, opened, tokenFile, roleFile, serviceVars, expiry,
                 code, mishap>>

(* load_token: a missing file asks for a login, a torn one is an error; a  *)
(* token inside the refresh window is refreshed first.                     *)
ReadToken(p) ==
  /\ Goes(p, "token",
          IF tokenFile.kind # "token" THEN tokenFile.kind
          ELSE IF expiry[tokenFile.access] = "fresh" THEN "fetch" ELSE "refresh")
  /\ Holds(p, tokenFile)
  /\ spent' = [spent EXCEPT ![p] =
                 tokenFile.kind = "token" /\ expiry[tokenFile.access] = "past"]
  /\ Notice(p)
  /\ UNCHANGED <<cast, opened, tokenFile, roleFile, serviceVars, expiry, code, mishap>>

(* The service issues the next token of a session. *)
Live(token) == token.session \notin ended /\ token.refresh = refreshOf[token.session]
Issue(session, refresh) ==
  /\ issued < MaxIssued
  /\ issued' = issued + 1
  /\ refreshOf' = [refreshOf EXCEPT ![session] = refresh]
  /\ UNCHANGED <<rotates, ended>>

(* Without a refreshed token, one that has not expired will do. *)
FallBack(p) == Goes(p, "refresh", IF spent[p] THEN "expired" ELSE "fetch")

(* A mutant: the answer's refresh token is dropped. *)
KeepRefresh(p) == held[p].refresh

(* The refresh token to keep: the answer's, if it brings one. *)
NewRefresh(p) == IF rotates THEN issued + 1 ELSE held[p].refresh

Refresh(p) ==
  /\ ssoAt[p] = "refresh"
  /\ Live(held[p])
  /\ Issue(held[p].session, IF rotates THEN issued + 1 ELSE held[p].refresh)
  /\ \/ /\ Goes(p, "refresh", "open")
        /\ Holds(p, Token(held[p].session, issued + 1, NewRefresh(p)))
        /\ UNCHANGED mishap
     \/ FallBack(p) /\ mishap' = TRUE /\ UNCHANGED held      \* the answer is lost
  /\ Notice(p)
  /\ UNCHANGED <<cast, spent, opened, tokenFile, roleFile, expiry, code>>

RefreshFails(p) ==
  /\ FallBack(p)
  /\ Notice(p)
  /\ UNCHANGED <<cast, held, spent, opened, tokenFile, roleFile, serviceVars, expiry,
                 code, mishap>>

-----------------------------------------------------------------------------
(* write_token, of a refresh and of a login: opening truncates the file.   *)
OpenToken(p) ==
  /\ Goes(p, "open", "write")
  /\ tokenFile' = Torn
  /\ opened' = opened \cup {p}
  /\ mishap' = (mishap \/ opened # {})
  /\ Notice(p)
  /\ UNCHANGED <<cast, held, spent, roleFile, serviceVars, expiry, code>>

Written(p) == IF cast[p] = "login" THEN "done" ELSE "fetch"

(* A file that was deleted meanwhile takes the write with it. *)
WriteToken(p) ==
  /\ Goes(p, "write", Written(p))
  /\ tokenFile' \in IF p \notin opened THEN {tokenFile}
                    ELSE IF tokenFile = Torn THEN {held[p]} ELSE {held[p], Torn}
  /\ opened' = opened \ {p}
  /\ Notice(p)
  /\ UNCHANGED <<cast, held, spent, roleFile, serviceVars, expiry, code, mishap>>

(* It cannot be opened: a refresh goes on all the same, a login fails. *)
OpenFails(p) ==
  /\ Goes(p, "open", IF cast[p] = "login" THEN "failed" ELSE "fetch")
  /\ mishap' = TRUE
  /\ Notice(p)
  /\ UNCHANGED <<cast, held, spent, opened, tokenFile, roleFile, serviceVars, expiry, code>>

(* The token is exchanged for role credentials, which are cached. *)
Accepted(token) == token.session \notin ended /\ expiry[token.access] # "past"
Fetch(p) ==
  /\ \/ Goes(p, "fetch", IF Accepted(held[p]) THEN "openRole" ELSE "unauthorized")
     \/ Goes(p, "fetch", "failed")
  /\ Notice(p)
  /\ UNCHANGED <<cast, held, spent, opened, tokenFile, roleFile, serviceVars, expiry,
                 code, mishap>>

OpenRole(p) ==
  /\ Goes(p, "openRole", "writeRole")
  /\ roleFile' = "torn"
  /\ Notice(p)
  /\ UNCHANGED <<cast, held, spent, opened, tokenFile, serviceVars, expiry, code, mishap>>

(* The expiry of the portal's answer is written as a compact timestamp,    *)
(* which cache::read cannot parse: an entry that has one is never taken.   *)
(* The portal (external) may leave it out.                                 *)
Cached == {"stale", "lasting"}

WriteRole(p) ==
  /\ Goes(p, "writeRole", "done")
  /\ roleFile' \in IF roleFile = "torn" THEN Cached
                   ELSE IF roleFile = "missing" THEN {"missing"} ELSE Cached \cup {"torn"}
  /\ Notice(p)
  /\ UNCHANGED <<cast, held, spent, opened, tokenFile, serviceVars, expiry, code, mishap>>

Command(p) ==
  \/ ReadRole(p) \/ ReadToken(p) \/ Refresh(p) \/ RefreshFails(p)
  \/ Fetch(p) \/ OpenRole(p) \/ WriteRole(p)

-----------------------------------------------------------------------------
(* device_login.  The client is registered, or was; a code is obtained,    *)
(* and the token is asked for once before anything is announced.           *)
Authorize(p) ==
  /\ Goes(p, "authorize", "poll") \/ Goes(p, "authorize", "failed")
  /\ Notice(p)
  /\ UNCHANGED <<cast, held, spent, opened, tokenFile, roleFile, serviceVars, expiry,
                 code, mishap>>

(* authorization_pending and slow_down: the loop sleeps and asks again.    *)
PollPending(p) ==
  /\ code > 0
  /\ Goes(p, "poll", "asleep")
  /\ code' = code - 1
  /\ Notice(p)
  /\ UNCHANGED <<cast, held, spent, opened, tokenFile, roleFile, serviceVars, expiry, mishap>>

WakeUp(p) ==
  /\ Goes(p, "asleep", "poll")
  /\ Notice(p)
  /\ UNCHANGED <<cast, held, spent, opened, tokenFile, roleFile, serviceVars, expiry,
                 code, mishap>>

(* The user has approved: a token of a new session. *)
PollToken(p) ==
  /\ code > 0
  /\ Goes(p, "poll", "open")
  /\ Issue(issued + 1, issued + 1)
  /\ Holds(p, Token(issued + 1, issued + 1, issued + 1))
  /\ Notice(p)
  /\ UNCHANGED <<cast, spent, opened, tokenFile, roleFile, expiry, code, mishap>>

(* expired_token, or any other error. *)
PollFails(p) ==
  /\ Goes(p, "poll", "failed")
  /\ Notice(p)
  /\ UNCHANGED <<cast, held, spent, opened, tokenFile, roleFile, serviceVars, expiry,
                 code, mishap>>

Login(p) == Authorize(p) \/ PollPending(p) \/ WakeUp(p) \/ PollToken(p) \/ PollFails(p)

-----------------------------------------------------------------------------
(* logout sweeps the token cache: a file that holds a token is invalidated *)
(* at the service, whose failure is ignored, and deleted; one that does    *)
(* not parse is left alone.                                                *)
SweepToken(p) ==
  /\ Goes(p, "sweep", IF tokenFile.kind = "token" THEN "invalidate" ELSE "sweepRole")
  /\ Holds(p, tokenFile)
  /\ crowded' = (crowded \/ \E q \in Procs \ {p} : ssoAt[q] \notin {First(cast[q])} \cup Over)
  /\ UNCHANGED <<cast, spent, opened, tokenFile, roleFile, serviceVars, expiry, code, mishap>>

Invalidate(p) ==
  /\ Goes(p, "invalidate", "remove")
  /\ ended' \in {ended, ended \cup IF Accepted(held[p]) THEN {held[p].session} ELSE {}}
  /\ UNCHANGED <<cast, held, spent, opened, tokenFile, roleFile, issued, rotates,
                 refreshOf, expiry, code, historyVars>>

(* Whatever the path names by now is deleted. *)
RemoveToken(p) ==
  /\ Goes(p, "remove", "sweepRole")
  /\ tokenFile' = Missing
  /\ opened' = {}
  /\ UNCHANGED <<cast, held, spent, roleFile, serviceVars, expiry, code, historyVars>>

(* A mutant: only credentials that are still good are dropped. *)
DerivedServing == Serving

(* ProviderType is "sso". *)
Derived == roleFile \notin {"missing", "torn"}

SweepRole(p) ==
  /\ Goes(p, "sweepRole", IF Derived THEN "removeRole" ELSE "done")
  /\ UNCHANGED <<cast, held, spent, opened, tokenFile, roleFile, serviceVars, expiry, code,
                 historyVars>>

RemoveRole(p) ==
  /\ Goes(p, "removeRole", "done")
  /\ roleFile' = "missing"
  /\ UNCHANGED <<cast, held, spent, opened, tokenFile, serviceVars, expiry, code, historyVars>>

Logout(p) ==
  SweepToken(p) \/ Invalidate(p) \/ RemoveToken(p) \/ SweepRole(p) \/ RemoveRole(p)

-----------------------------------------------------------------------------
(* A process is killed between two of the steps that belong together. *)
Crash(p) ==
  /\ ssoAt[p] \in {"open", "write", "writeRole"}
  /\ ssoAt' = [ssoAt EXCEPT ![p] = "crashed"]
  /\ opened' = opened \ {p}
  /\ mishap' = TRUE
  /\ UNCHANGED <<cast, held, spent, tokenFile, roleFile, serviceVars, expiry, code, crowded>>

(* Time goes by. *)
Age(t) ==
  /\ t <= issued
  /\ expiry[t] # "past"
  /\ expiry' = [expiry EXCEPT ![t] = IF @ = "fresh" THEN "near" ELSE "past"]
  /\ UNCHANGED <<cast, ssoAt, held, spent, opened, tokenFile, roleFile, serviceVars, code,
                 historyVars>>

AgeRole ==
  /\ roleFile = "dated"
  /\ roleFile' = "stale"
  /\ UNCHANGED <<cast, ssoAt, held, spent, opened, tokenFile, serviceVars, expiry, code,
                 historyVars>>

SsoStep(p) ==
  \/ Command(p) \/ Login(p) \/ Logout(p)
  \/ OpenToken(p) \/ WriteToken(p) \/ OpenFails(p)
SsoNext ==
  \/ \E p \in Procs : SsoStep(p) \/ Crash(p)
  \/ \E t \in 1 .. MaxIssued : Age(t)
  \/ AgeRole

Spec == SsoInit /\ [][SsoNext]_ssoVars

(* Every call is answered or fails. *)
SsoFairness == \A p \in {1, 2} : WF_ssoVars(SsoStep(p))
FairSpec == Spec /\ SsoFairness

-----------------------------------------------------------------------------
LoggedOut == \E p \in Procs : cast[p] = "logout" /\ ssoAt[p] # "sweep"
Between(p) == ssoAt[p] \in {"open", "write"}

(* Overlap alone does not lock the user out: so long as there was no       *)
(* mishap, the cached token is whole whenever nobody is writing it, and    *)
(* once no refresh is on its way to it, the refresh token in it is one the *)
(* service still takes, however commands and logins that share the file    *)
(* interleave.  Nothing is claimed after a mishap: a process killed        *)
(* between refreshing and the end of its write, an answer lost, a write    *)
(* that failed, or two writers at once may each leave a torn file or a     *)
(* refresh token that was used up, and the user has to log in again.       *)
(* And a logout that nobody overlapped leaves neither the token nor        *)
(* credentials derived from it; one that was overlapped may leave both.    *)
SessionKept ==
  /\ ~mishap /\ opened = {} => tokenFile # Torn
  /\ ~mishap /\ (\A p \in Procs : ~Between(p)) /\ tokenFile.kind = "token" =>
       tokenFile.session \in ended \/ Live(tokenFile)
  /\ ~crowded /\ (\E p \in Procs : cast[p] = "logout" /\ ssoAt[p] = "done") =>
       tokenFile.kind # "token" /\ roleFile \in {"missing", "torn"}

(* A command, a login or a logout ends: a device code that is never        *)
(* approved expires, and stops the polling.                                *)
SsoOver == \A p \in Procs : ssoAt[p] \in Over
SsoEnds == <>SsoOver
===============================================================================
