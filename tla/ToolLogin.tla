------------------------------ MODULE ToolLogin -------------------------------
(***************************************************************************)
(* `codeartifact login` (codeartifact.rs): two calls for a token and an    *)
(* endpoint, an edit of the file in which npm, swift or twine keeps its    *)
(* credentials, and the tool's own commands.  Two processes of one user    *)
(* share the file.  A file is a sequence of lines: an entry of a key (a    *)
(* line of .npmrc or .netrc, a section of .pypirc), a line in which the    *)
(* marker of that entry occurs but not at its start, or another.  nuget,   *)
(* dotnet and pip run commands and edit no file.                           *)
(***************************************************************************)
EXTENDS Naturals, Sequences

CONSTANTS
  Tools,         (* the tools both processes may be run for, of npm, swift and twine *)
  Keys,          (* the endpoint of the repository of each process *)
  ToolFiles      (* contents the file may begin with *)

VARIABLES
  tool,
  loginAt,       (* process -> "token", "endpoint", "read", "truncate", *)
                 (* "fill", "run", "done", "failed", "killed"           *)
  secret,        (* the token each process holds, 0 if none *)
  granted,       (* tokens the service has issued *)
  toolFile,      (* the lines of the file *)
  legible,       (* is it readable, and text *)
  edited,        (* the lines each process is going to write *)
  first,         (* the lines the file had when the process read it *)
  blind,         (* processes that could not read it *)
  collided       (* processes during whose edit another wrote *)

loginVars == <<tool, loginAt, secret, granted, toolFile, legible, edited, first,
               blind, collided>>

Logins == DOMAIN Keys
Entry(k, token) == [kind |-> "entry", key |-> k, token |-> token]
Mention(k) == [kind |-> "mention", key |-> k, token |-> 0]
Other(kind) == [kind |-> kind, key |-> "", token |-> 0]
IsEntry(line, k) == line.kind = "entry" /\ line.key = k
Has(file, k) == \E i \in DOMAIN file : IsEntry(file[i], k)
Mentions(file, k) == \E i \in DOMAIN file : file[i].kind = "mention" /\ file[i].key = k

-----------------------------------------------------------------------------
(* The line replaced wherever it begins with the key, or else appended.    *)
Replaced(file, k, token) ==
  [i \in DOMAIN file |-> IF IsEntry(file[i], k) THEN Entry(k, token) ELSE file[i]]
(* A mutant: the line is always appended.                                  *)
NpmrcAppended(file, k, token) == Append(file, Entry(k, token))
Npmrc(file, k, token) ==
  IF Has(file, k) THEN Replaced(file, k, token) ELSE Append(file, Entry(k, token))

(* Here the marker is looked for anywhere, and replaced at the start of a  *)
(* line.                                                                   *)
Netrc(file, k, token) ==
  IF Has(file, k) \/ Mentions(file, k) THEN Replaced(file, k, token)
  ELSE Append(file, Entry(k, token))

(* .pypirc is parsed and rendered again, without its remarks; its section  *)
(* has one name whatever the repository.                                   *)
Pypirc(file, token) ==
  LET kept == SelectSeq(file, LAMBDA line : line.kind # "remark")
      at == {i \in DOMAIN kept : IsEntry(kept[i], "codeartifact")}
      entry == Entry("codeartifact", token)
  IN IF at = {} THEN Append(kept, entry)
     ELSE [kept EXCEPT ![CHOOSE i \in at : \A j \in at : i <= j] = entry]

KeyOf(p) == IF tool = "twine" THEN "codeartifact" ELSE Keys[p]
WithLogin(p, file) ==
  CASE tool = "npm" -> Npmrc(file, KeyOf(p), secret[p])
    [] tool = "swift" -> Netrc(file, KeyOf(p), secret[p])
    [] tool = "twine" -> Pypirc(file, secret[p])

-----------------------------------------------------------------------------
LoginInit ==
  /\ tool \in Tools
  /\ loginAt = [p \in Logins |-> "token"] /\ secret = [p \in Logins |-> 0]
  /\ granted = 0 /\ toolFile \in ToolFiles /\ legible \in BOOLEAN
  /\ edited = [p \in Logins |-> <<>>] /\ first = [p \in Logins |-> <<>>]
  /\ blind = {} /\ collided = {}

Moves(p, from, to) ==
  /\ loginAt[p] = from /\ loginAt' = [loginAt EXCEPT ![p] = to]

GetToken(p) ==
  /\ \/ /\ Moves(p, "token", "endpoint")
        /\ granted' = granted + 1 /\ secret' = [secret EXCEPT ![p] = granted + 1]
     \/ Moves(p, "token", "failed") /\ UNCHANGED <<granted, secret>>
  /\ UNCHANGED <<tool, toolFile, legible, edited, first, blind,
                 collided>>
GetEndpoint(p) ==
  /\ \E to \in {"read", "failed"} : Moves(p, "endpoint", to)
  /\ UNCHANGED <<tool, secret, granted, toolFile, legible, edited, first, blind,
                 collided>>

(* A file that cannot be read is taken for an empty one.                   *)
ReadOrEmpty(p) ==
  /\ Moves(p, "read", "truncate")
  /\ edited' = [edited EXCEPT ![p] = WithLogin(p, IF legible THEN toolFile ELSE <<>>)]
  /\ first' = [first EXCEPT ![p] = toolFile] /\ collided' = collided \ {p}
  /\ blind' = IF legible THEN blind ELSE blind \cup {p}
  /\ UNCHANGED <<tool, secret, granted, toolFile, legible>>

(* The file is opened, which empties it, and written; each may fail.       *)
Collides(p) ==
  collided \cup {q \in Logins \ {p} : loginAt[q] \in {"truncate", "fill", "run", "done"}}
TruncateFile(p) ==
  /\ \/ /\ Moves(p, "truncate", "fill")
        /\ toolFile' = <<>> /\ legible' = TRUE /\ collided' = Collides(p)
     \/ Moves(p, "truncate", "failed") /\ UNCHANGED <<toolFile, legible, collided>>
  /\ UNCHANGED <<tool, secret, granted, edited, first, blind>>
FillFile(p) ==
  /\ \/ /\ Moves(p, "fill", IF tool = "twine" THEN "done" ELSE "run")
        /\ toolFile' = edited[p] /\ collided' = Collides(p)
     \/ Moves(p, "fill", "failed") /\ UNCHANGED <<toolFile, collided>>
  /\ UNCHANGED <<tool, secret, granted, legible, edited, first, blind>>

(* The tool's commands, of which each may fail.                            *)
RunTool(p) ==
  /\ \E to \in {"done", "failed"} : Moves(p, "run", to)
  /\ UNCHANGED <<tool, secret, granted, toolFile, legible, edited, first, blind,
                 collided>>

KilledLogin(p) ==
  /\ \E from \in {"truncate", "fill", "run"} : Moves(p, from, "killed")
  /\ UNCHANGED <<tool, secret, granted, toolFile, legible, edited, first, blind,
                 collided>>

LoginStep(p) ==
  \/ GetToken(p) \/ GetEndpoint(p) \/ ReadOrEmpty(p)
  \/ TruncateFile(p) \/ FillFile(p) \/ RunTool(p) \/ KilledLogin(p)
LoginNext == \E p \in Logins : LoginStep(p)
LoginSpec == LoginInit /\ [][LoginNext]_loginVars

-----------------------------------------------------------------------------
(* The lines that are not of a key.                                        *)
Others(file, k) ==
  SelectSeq(file, LAMBDA line : ~IsEntry(line, k) /\ (tool = "twine" => line.kind # "remark"))

(* A login that reports success, and that no other writer came across, has *)
(* left a file in which the tool finds this token and no older one, and    *)
(* every other line as it was.                                             *)
(*                                                                         *)
(* codeartifact.rs:320-321 says that everything else in the file is left   *)
(* alone, without an exception.  The code has two, of which nothing is     *)
(* claimed: a file that could not be read is taken for an empty one and    *)
(* loses all its lines (blind); and of two logins at once, the one that    *)
(* writes last takes back what the other wrote (collided).  Of .netrc,     *)
(* nothing is claimed either where the marker stands within a line.        *)
LoginKept ==
  \A p \in Logins :
    (loginAt[p] = "done" /\ p \notin collided) =>
      /\ \/ tool = "swift" /\ Mentions(first[p], KeyOf(p))
         \/ /\ Has(toolFile, KeyOf(p))
            /\ \A i \in DOMAIN toolFile :
                 IsEntry(toolFile[i], KeyOf(p)) => toolFile[i].token = secret[p]
      /\ p \in blind \/ Others(toolFile, KeyOf(p)) = Others(first[p], KeyOf(p))
===============================================================================
