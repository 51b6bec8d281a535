-------------------------------- MODULE Filter --------------------------------
(***************************************************************************)
(* Which entries the --exclude and --include of an s3 command leave:       *)
(* `included` and `glob_match` of s3/transfer.rs.  A rule is matched with  *)
(* two positions, and one position of the last star to come back to.  A    *)
(* path is a sequence of characters; a pattern a sequence of wildcards,    *)
(* characters and classes, where a class is the set of characters that it  *)
(* takes, and an unterminated bracket a character.                         *)
(***************************************************************************)
EXTENDS Naturals, Sequences

CONSTANTS
  Root,       (* the root of the source, a path *)
  Paths,      (* full paths of entries *)
  RuleLists   (* lists of [keep |-> include or exclude, pattern |-> as given] *)

VARIABLES
  filterAt,   (* "rule", "match", "done" *)
  path, rules,
  rule,       (* the rule in hand *)
  include,    (* what the rules so far say *)
  pi, ti,     (* places in the pattern and in the path *)
  star, mark  (* the last star, 0 if none, and the place it stands for so far *)

filterVars == <<filterAt, path, rules, rule, include, pi, ti, star, mark>>

Char(c) == [kind |-> "char", chars |-> {c}]
Class(s) == [kind |-> "class", chars |-> s]
Star == Char("*")
Any == Char("?")

-----------------------------------------------------------------------------
(* What fnmatch answers, by its definition: of a star, any stretch.        *)
Takes(element, c) == element = Any \/ c \in element.chars
Fnmatch(pattern, text) ==
  LET m == Len(pattern)
      n == Len(text)
      f[i \in 1 .. m + 1, j \in 1 .. n + 1] ==
        IF i > m THEN j > n
        ELSE IF pattern[i] = Star THEN \E k \in j .. n + 1 : f[i + 1, k]
        ELSE j <= n /\ Takes(pattern[i], text[j]) /\ f[i + 1, j + 1]
  IN f[1, 1]

(* A pattern is tied to the root of the source, unless it is absolute.     *)
Slash == Char("/")
Trimmed ==
  LET ends == {n \in 0 .. Len(Root) : \A i \in n + 1 .. Len(Root) : Root[i] = "/"}
  IN [i \in 1 .. CHOOSE n \in ends : \A e \in ends : n <= e |-> Char(Root[i])]
Anchor(pattern) ==
  IF Root = <<>> \/ (pattern # <<>> /\ pattern[1] = Slash) THEN pattern
  ELSE Trimmed \o <<Slash>> \o pattern

-----------------------------------------------------------------------------
FilterInit ==
  /\ filterAt = "rule" /\ rule = 1 /\ include = TRUE
  /\ path \in Paths /\ rules \in RuleLists
  /\ pi = 1 /\ ti = 1 /\ star = 0 /\ mark = 1

Pattern == Anchor(rules[rule].pattern)

(* A mutant: the first rule that matches decides.                          *)
DecideFirst(matched) ==
  /\ include' = IF matched THEN rules[rule].keep ELSE include
  /\ rule' = (IF matched THEN Len(rules) ELSE rule) + 1 /\ filterAt' = "rule"
  /\ UNCHANGED <<path, rules, pi, ti, star, mark>>
(* The last rule that matches decides.                                     *)
Decide(matched) ==
  /\ include' = IF matched THEN rules[rule].keep ELSE include
  /\ rule' = rule + 1 /\ filterAt' = "rule"
  /\ UNCHANGED <<path, rules, pi, ti, star, mark>>

NextRule ==
  /\ filterAt = "rule"
  /\ IF rule > Len(rules)
     THEN filterAt' = "done" /\ UNCHANGED <<pi, ti, star, mark>>
     ELSE filterAt' = "match" /\ pi' = 1 /\ ti' = 1 /\ star' = 0 /\ mark' = 1
  /\ UNCHANGED <<path, rules, rule, include>>

(* Back to the last star, which takes one character more.                  *)
Backtrack ==
  IF star = 0 THEN Decide(FALSE)
  ELSE /\ pi' = star + 1 /\ mark' = mark + 1 /\ ti' = mark + 1
       /\ UNCHANGED <<filterAt, path, rules, rule, include, star>>

Advance ==
  /\ pi' = pi + 1 /\ ti' = ti + 1
  /\ UNCHANGED <<filterAt, path, rules, rule, include, star, mark>>

(* One round of the loop: a class is taken or not and nothing else; then a *)
(* character or `?`; only then a star.                                     *)
IsClass == pi <= Len(Pattern) /\ Pattern[pi].kind = "class"
MatchClass ==
  /\ filterAt = "match" /\ ti <= Len(path) /\ IsClass
  /\ IF path[ti] \in Pattern[pi].chars THEN Advance ELSE Backtrack
IsTaken == pi <= Len(Pattern) /\ Pattern[pi] \in {Any, Char(path[ti])}
MatchChar ==
  /\ filterAt = "match" /\ ti <= Len(path) /\ ~IsClass /\ IsTaken
  /\ Advance
MatchStar ==
  /\ filterAt = "match" /\ ti <= Len(path) /\ ~IsClass /\ ~IsTaken
  /\ IF pi <= Len(Pattern) /\ Pattern[pi] = Star
     THEN /\ star' = pi /\ mark' = ti /\ pi' = pi + 1
          /\ UNCHANGED <<filterAt, path, rules, rule, include, ti>>
     ELSE Backtrack

(* The path is used up: only stars may be left of the pattern.             *)
MatchEnd ==
  /\ filterAt = "match" /\ ti > Len(path)
  /\ Decide(\A i \in pi .. Len(Pattern) : Pattern[i] = Star)

FilterNext == NextRule \/ MatchClass \/ MatchChar \/ MatchStar \/ MatchEnd
FilterSpec == FilterInit /\ [][FilterNext]_filterVars /\ WF_filterVars(FilterNext)

-----------------------------------------------------------------------------
(* What fnmatch makes of the rules: the last that matches, if any.         *)
Ruling ==
  LET matching == {r \in 1 .. Len(rules) : Fnmatch(Anchor(rules[r].pattern), path)}
  IN matching # {} =>
       rules[CHOOSE r \in matching : \A s \in matching : s <= r].keep

(* An entry is transferred if and only if the last of the rules whose      *)
(* pattern fnmatch finds in its path includes it, or none is found: one    *)
(* star to come back to is enough, whatever stars, classes and characters  *)
(* come before it.  Nothing is claimed of a path that holds a star and a   *)
(* rule that has one: there the code departs from fnmatch, as the star of  *)
(* a pattern that meets one is taken for that character (transfer.rs:614). *)
StarMeetsStar ==
  /\ \E i \in DOMAIN path : path[i] = "*"
  /\ \E r \in DOMAIN rules : \E i \in DOMAIN rules[r].pattern : rules[r].pattern[i] = Star
FilterAgrees == filterAt = "done" /\ ~StarMeetsStar => include = Ruling

(* The filter decides: backtracking comes to an end.                       *)
FilterOver == filterAt = "done"
FilterEnds == <>FilterOver
===============================================================================
