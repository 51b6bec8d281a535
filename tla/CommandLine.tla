------------------------------ MODULE CommandLine ------------------------------
(***************************************************************************)
(* What a command makes of its arguments (args.rs, and `run` in main.rs):  *)
(* argv is split before the model is known, so that every flag takes all   *)
(* the words after it; then the model says which words it may keep, the    *)
(* flags are bound to the members of the input, and a document fills in    *)
(* what they left.                                                         *)
(*                                                                         *)
(* A token is a flag, perhaps with its value in it, or a word; a value is  *)
(* a sequence of atoms, as one word may hold blanks.  Some trees of        *)
(* commands know their flags beforehand ("owned"), others take what they   *)
(* declare ("custom"), the rest is modelled.                               *)
(***************************************************************************)
EXTENDS Naturals, Sequences, SequencesExt, FiniteSetsExt, TLC

CONSTANTS
  Lines,              (* [tree, argv, streams]: the command lines          *)
  Member,             (* the kind of each flag a command has: "scalar",    *)
                      (* "list" or "boolean"                               *)
  Required,           (* the flags it requires                             *)
  Negates,            (* the flag that a `--no-` flag negates              *)
  FileHolds,          (* the atoms in the file that `@file` names          *)
  Document            (* what `--cli-input-json` has for the flags' members*)

None == <<>>
Help == <<"help">>
True == <<"true">>
False == <<"false">>

VARIABLES
  lineAt,             (* the stage, or how the command line ended          *)
  line,               (* the command line                                  *)
  next,               (* the token that is next                            *)
  parameters,         (* the flags and what they took                      *)
  surplus,            (* flag_extras: the words of flags that took several *)
  positionals,        (* the words that no flag took                       *)
  document,           (* a document was given                              *)
  input               (* the input of the operation                        *)

lineVars == <<lineAt, line, next, parameters, surplus, positionals, document, input>>

LineInit ==
  /\ lineAt = "parse" /\ line \in Lines /\ next = 1
  /\ parameters = <<>> /\ surplus = <<>> /\ positionals = <<>>
  /\ document = FALSE /\ input = <<>>

-----------------------------------------------------------------------------
Argv == line.argv
Token == Argv[next]
IsWord(k) == k \in DOMAIN Argv /\ Argv[k].flag = "none"
Ends(how) == lineAt' = how
Takes(count) == next' = next + 1 + count

(* How many values a flag keeps: `--no-x` is known by x. *)
Lookup(flag) == IF flag \in DOMAIN Negates THEN Negates[flag] ELSE flag
Most(flag) ==
  IF Lookup(flag) \notin DOMAIN Member THEN 1
  ELSE CASE Member[Lookup(flag)] = "boolean" -> 0
         [] Member[Lookup(flag)] = "scalar" -> 1
         [] Member[Lookup(flag)] = "list" -> Len(Argv)

Limit(flag) == IF line.tree = "owned" THEN Most(flag) ELSE Len(Argv)
Following(flag) ==
  LET run == {n \in 0 .. Limit(flag) : \A k \in next + 1 .. next + n : IsWord(k)}
  IN  [n \in 1 .. Max(run) |-> next + n]
Joined(places) == FlattenSeq([n \in DOMAIN places |-> Argv[places[n]].words])

(* A word is held back, as a command may have a place for it. *)
Word ==
  /\ Token.flag = "none"
  /\ IF Token.words = Help /\ positionals = <<>> /\ line.tree # "owned"
     THEN Ends("help") /\ UNCHANGED <<next, positionals>>
     ELSE /\ positionals' = Append(positionals, Token.words)
          /\ Takes(0) /\ UNCHANGED lineAt
  /\ UNCHANGED <<parameters, surplus, document>>

(* Flags that every command has: of one value, of none, the document, and  *)
(* the skeleton, whose value may be left out.                              *)
CommonFlags == {"region", "debug", "cli-input", "skeleton"}
Lacks == ~Token.inline /\ next = Len(Argv)
Common ==
  /\ Token.flag \in CommonFlags
  /\ IF \/ Token.flag \in {"region", "cli-input"} /\ Lacks
        \/ Token.flag = "cli-input" /\ document
     THEN Ends("usage") /\ UNCHANGED <<next, document>>
     ELSE /\ document' = (document \/ Token.flag = "cli-input")
          /\ Takes(CASE Token.flag = "debug" \/ Token.inline -> 0
                     [] Token.flag \in {"region", "cli-input"} /\ ~Token.inline -> 1
                     [] Token.flag = "skeleton" /\ ~Token.inline ->
                          IF IsWord(next + 1) /\ Argv[next + 1].words = <<"input">> THEN 1 ELSE 0)
          /\ Ends(IF Token.flag = "skeleton" THEN "skeleton" ELSE lineAt)
  /\ UNCHANGED <<parameters, surplus, positionals>>

(* A flag of the operation takes the words that follow. *)
Own ==
  /\ Token.flag \notin CommonFlags \cup {"none"}
  /\ LET places == IF Token.inline THEN <<>> ELSE Following(Token.flag)
     IN  /\ parameters' = (Token.flag :> IF Token.inline THEN Token.words ELSE Joined(places))
                          @@ parameters
         /\ surplus' = IF Len(places) > 1 THEN (Token.flag :> places) @@ surplus ELSE surplus
         /\ Takes(Len(places))
  /\ UNCHANGED <<lineAt, positionals, document>>

Parse ==
  /\ lineAt = "parse"
  /\ IF next <= Len(Argv) THEN Word \/ Common \/ Own
     ELSE /\ Ends(CASE line.tree = "modelled" -> "balance" [] line.tree = "custom" -> "take"
                    [] line.tree = "owned" -> "run")
          /\ UNCHANGED <<next, parameters, surplus, positionals, document>>
  /\ UNCHANGED <<line, input>>

(* take_args: what is not declared is an error. *)
TakeArgs ==
  /\ lineAt = "take"
  /\ Ends(IF DOMAIN parameters \subseteq DOMAIN Member THEN "run" ELSE "usage")
  /\ UNCHANGED <<line, next, parameters, surplus, positionals, document, input>>

-----------------------------------------------------------------------------
(* A mutant: what a flag may not keep is dropped. *)
RebalanceAway ==
  /\ lineAt = "balance" /\ Ends("check")
  /\ parameters' =
       [f \in DOMAIN parameters |->
          IF f \in DOMAIN surplus /\ Most(f) < Len(surplus[f])
          THEN Joined(SubSeq(surplus[f], 1, Most(f))) ELSE parameters[f]]
  /\ surplus' = <<>>
  /\ UNCHANGED <<line, next, positionals, document, input>>

(* rebalance: the words a flag may not keep go back among the positionals, *)
(* in the order of argv.                                                   *)
Returned ==
  UNION {{surplus[f][n] : n \in Most(f) + 1 .. Len(surplus[f])} : f \in DOMAIN surplus}
Rebalance ==
  /\ lineAt = "balance" /\ Ends("check")
  /\ parameters' =
       [f \in DOMAIN parameters |->
          IF f \in DOMAIN surplus /\ Most(f) < Len(surplus[f])
          THEN Joined(SubSeq(surplus[f], 1, Most(f))) ELSE parameters[f]]
  /\ positionals' = positionals \o [n \in 1 .. Cardinality(Returned) |->
                      Argv[SetToSortSeq(Returned, <)[n]].words]
  /\ surplus' = <<>>
  /\ UNCHANGED <<line, next, document, input>>

(* The outfile, and the flags that are required, unless a document may     *)
(* have them.                                                              *)
Missing == {f \in Required : ~document /\ f \notin DOMAIN parameters}
Check ==
  /\ lineAt = "check"
  /\ Ends(IF (line.streams /\ positionals = <<>>) \/ Missing # {} THEN "usage" ELSE "build")
  /\ UNCHANGED <<line, next, parameters, surplus, positionals, document, input>>

(* A file is read before the value is split or coerced; a name that goes   *)
(* on after a blank is no file.                                            *)
IsFile(value) == value # <<>> /\ value[1] = "@file"
Bad(f) ==
  \/ Lookup(f) \notin DOMAIN Member
  \/ /\ Member[Lookup(f)] # "boolean"
     /\ parameters[f] = None \/ (IsFile(parameters[f]) /\ Len(parameters[f]) > 1)
Bound(f) ==
  IF Member[Lookup(f)] = "boolean" THEN IF f \in DOMAIN Negates THEN False ELSE True
  ELSE IF IsFile(parameters[f]) THEN FileHolds ELSE parameters[f]

(* build_input_named: flags in their order, of which a negation comes      *)
(* after what it negates.                                                  *)
Names(m) == {f \in DOMAIN parameters : Lookup(f) = m}
BindLast(m) == IF m \in Names(m) /\ Cardinality(Names(m)) = 1 THEN Bound(m)
               ELSE Bound(CHOOSE f \in Names(m) : f # m)
Build ==
  /\ lineAt = "build"
  /\ IF \E f \in DOMAIN parameters : Bad(f) THEN Ends("usage") /\ UNCHANGED input
     ELSE /\ input' = [m \in {Lookup(f) : f \in DOMAIN parameters} |-> BindLast(m)]
          /\ Ends("merge")
  /\ UNCHANGED <<line, next, parameters, surplus, positionals, document>>

(* A mutant: the document wins. *)
MergeOver ==
  /\ lineAt = "merge" /\ Ends("run")
  /\ input' = IF document THEN Document @@ input ELSE input
  /\ UNCHANGED <<line, next, parameters, surplus, positionals, document>>

(* merge_cli_input: the document fills in what is not there. *)
Merge ==
  /\ lineAt = "merge" /\ Ends("run")
  /\ input' = IF document THEN input @@ Document ELSE input
  /\ UNCHANGED <<line, next, parameters, surplus, positionals, document>>

LineNext == Parse \/ TakeArgs \/ Rebalance \/ Check \/ Build \/ Merge

Spec == LineInit /\ [][LineNext]_lineVars /\ WF_lineVars(LineNext)

-----------------------------------------------------------------------------
(* What argv means to one who knows the command: a flag has the words that *)
(* follow it, as many as it takes; the last of several counts; the other   *)
(* words have a place of their own.                                        *)
Flags(f) == {k \in DOMAIN Argv : Argv[k].flag = f}
Given == {Argv[k].flag : k \in DOMAIN Argv} \ (CommonFlags \cup {"none"})
Span(k, most) == {p \in k + 1 .. k + most : \A q \in k + 1 .. p : IsWord(q)}
Owned(k) ==
  CASE IsWord(k) \/ Argv[k].inline -> {}
    [] Argv[k].flag \in {"region", "cli-input"} /\ ~Argv[k].inline -> Span(k, 1)
    [] Argv[k].flag \in {"debug", "skeleton"} /\ ~Argv[k].inline -> {}
    [] OTHER -> Span(k, Most(Argv[k].flag))
Meant(f) ==
  LET k == Max(Flags(f))
  IN  IF Argv[k].inline THEN Argv[k].words
      ELSE FlattenSeq([n \in 1 .. Cardinality(Owned(k)) |-> Argv[k + n].words])
Alone == {k \in DOMAIN Argv : IsWord(k) /\ \A q \in DOMAIN Argv : k \notin Owned(q)}

(* What the definition leaves out: a common flag whose value looks like a  *)
(* flag, a flag given twice of which the first took too much, both a flag  *)
(* and its negation, the negation of what is no boolean, and one word      *)
(* after a boolean, which the boolean keeps although the doc of rebalance  *)
(* (args.rs:675-676) says that it keeps none.                              *)
Swallows(k) ==
  /\ Argv[k].flag \in Given /\ ~Argv[k].inline /\ line.tree = "modelled"
  /\ Most(Argv[k].flag) = 0 /\ IsWord(k + 1) /\ ~IsWord(k + 2)
Plain ==
  /\ \A k \in DOMAIN Argv : ~Swallows(k)
  /\ \A k \in DOMAIN Argv : Argv[k].flag \in {"region", "cli-input"} /\ ~Argv[k].inline =>
       k = Len(Argv) \/ IsWord(k + 1)
  /\ \A f \in Given : Cardinality(Flags(f)) = 1
  /\ \A f \in Given : f \in DOMAIN Negates => Member[Negates[f]] = "boolean" /\ Negates[f] \notin Given

(* A command that runs has what argv says for each flag, and what the      *)
(* document says for the others ("command-line arguments win"); and a word *)
(* after the value of a flag is the outfile, not a part of the value.      *)
(* Nothing is claimed of a line with more words of their own than the      *)
(* command has places: args.rs:235-236 says that the modelled path rejects *)
(* what is left over, and it runs without a look at them.                  *)
LeftOver == Cardinality(Alone) > IF line.streams THEN 1 ELSE 0
Value(f) == IF Member[f] = "boolean" THEN True ELSE IF IsFile(Meant(f)) THEN FileHolds ELSE Meant(f)
RunsWhatWasMeant ==
  lineAt = "run" /\ line.tree = "modelled" /\ Plain /\ ~LeftOver =>
    /\ {Lookup(f) : f \in Given} \subseteq DOMAIN Member
    /\ \A m \in DOMAIN Member :
         CASE m \in Given -> input[m] = Value(m)
           [] m \notin Given /\ (\E f \in Given : Lookup(f) = m) -> input[m] = False
           [] OTHER -> IF document /\ m \in DOMAIN Document THEN input[m] = Document[m]
                       ELSE m \notin DOMAIN input
    /\ positionals = IF line.streams THEN <<Argv[CHOOSE k \in Alone : TRUE].words>> ELSE <<>>
    /\ line.streams => Alone # {}
    /\ Required \subseteq DOMAIN input \/ document

(* A command line is refused for a fault of its own.                       *)
Faulty ==
  \/ \E f \in Given : \/ Lookup(f) \notin DOMAIN Member
                      \/ Member[Lookup(f)] # "boolean" /\ Meant(f) = None
                      \/ IsFile(Meant(f)) /\ Len(Meant(f)) > 1
  \/ Last(Argv).flag \in {"region", "cli-input"} /\ ~Last(Argv).inline
  \/ Cardinality(Flags("cli-input")) > 1
  \/ Flags("cli-input") = {} /\ ~Required \subseteq Given
  \/ line.streams /\ Alone = {}
RefusedForAFault == lineAt = "usage" /\ line.tree = "modelled" /\ Plain => Faulty

(* A command that declares its flags takes them whole, and one that knows  *)
(* their number takes as many.                                             *)
DeclaredAreTaken ==
  lineAt = "run" /\ line.tree # "modelled" /\ Plain =>
    /\ line.tree = "custom" => Given \subseteq DOMAIN Member
    /\ line.tree = "owned" =>
         /\ \A f \in Given : parameters[f] = Meant(f)
         /\ positionals = [n \in 1 .. Cardinality(Alone) |->
                             Argv[SetToSortSeq(Alone, <)[n]].words]

(* A command line is understood: what runs is what was meant, and what is  *)
(* refused has a fault.                                                    *)
LineMeans == RunsWhatWasMeant /\ RefusedForAFault /\ DeclaredAreTaken

LineOver == lineAt \in {"run", "usage", "help", "skeleton"}
===============================================================================
