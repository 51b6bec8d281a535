------------------------------- MODULE ConfigFile -------------------------------
(***************************************************************************)
(* `aws configure set` (configure/mod.rs) on the shared configuration      *)
(* file, which configure/writer.rs edits as lines and profile.rs reads as  *)
(* settings.                                                               *)
(*                                                                         *)
(* A line is a section header, an option, or a remark (a comment or a      *)
(* blank line).  An option is deep if it is indented: deep options under   *)
(* an option without a value are its sub-settings.  A section and a key    *)
(* occur once each, which is what the format allows.                       *)
(***************************************************************************)
EXTENDS Naturals, Sequences, FiniteSetsExt

CONSTANTS
  Files,              (* the files that may be there: sequences of lines   *)
  Updates             (* what may be set: [section, key, sub, value]; sub  *)
                      (* is "" for `key`, and a name for `key.sub`         *)

Setters == {1, 2}
Absent == <<[kind |-> "absent"]>>

VARIABLES
  update,             (* what each process sets                            *)
  setAt,              (* "read", "truncate", "fill", "done" or "killed"    *)
  lines,              (* the file                                          *)
  text,               (* the new text each has in hand                     *)
  was,                (* history: the file as it read it                   *)
  filler,             (* history: who wrote the file last                  *)
  between             (* history: one read or wrote between another's read *)
                      (* and the end of its write                          *)

configVars == <<update, setAt, lines, text, was, filler, between>>

Header(name) == [kind |-> "section", name |-> name, value |-> "", deep |-> FALSE]
Option(name, value) == [kind |-> "option", name |-> name, value |-> value, deep |-> FALSE]
Deep(name, value) == [kind |-> "option", name |-> name, value |-> value, deep |-> TRUE]

-----------------------------------------------------------------------------
(* Where a section begins and ends, and the options within. *)
LastOf(s) == IF s = {} THEN 0 ELSE Max(s)
FirstOf(s, otherwise) == IF s = {} THEN otherwise ELSE Min(s)
HeaderAt(ls, i) == LastOf({j \in 1 .. i : ls[j].kind = "section"})
StartOf(ls, section) ==
  FirstOf({j \in DOMAIN ls : ls[j].kind = "section" /\ ls[j].name = section}, 0)
EndOf(ls, start) ==
  FirstOf({j \in DOMAIN ls : j > start /\ ls[j].kind = "section"}, Len(ls) + 1)
OptionsOf(ls, start) ==
  {j \in start + 1 .. EndOf(ls, start) - 1 : ls[j].kind = "option"}

(* update_section compares an option's name without its indentation. *)
Hit(ls, u) ==
  LET start == StartOf(ls, u.section)
  IN  FirstOf({j \in OptionsOf(ls, start) : ls[j].name = u.key}, 0)

Insert(ls, i, new) == SubSeq(ls, 1, i) \o new \o SubSeq(ls, i + 1, Len(ls))

(* render_values *)
Rendered(u) ==
  IF u.sub = "" THEN <<Option(u.key, u.value)>>
  ELSE <<Option(u.key, ""), Deep(u.sub, u.value)>>

(* A mutant: a new key goes after the last option that is not indented. *)
AddKeyShallow(ls, u) ==
  LET start == StartOf(ls, u.section)
      shallow == {j \in OptionsOf(ls, start) : ~ls[j].deep}
  IN  Insert(ls, LastOf({start} \cup shallow), Rendered(u))

(* A new key goes after the last option of the section. *)
AddKey(ls, u) ==
  LET start == StartOf(ls, u.section)
  IN  Insert(ls, LastOf({start} \cup OptionsOf(ls, start)), Rendered(u))

(* update_subattributes: the block is the deeper options that follow the   *)
(* key, up to the first line that is none.                                 *)
BlockEnd(ls, hit) ==
  FirstOf({j \in DOMAIN ls : /\ j > hit
                             /\ ~(ls[j].kind = "option" /\ ls[j].deep /\ ~ls[hit].deep)},
          Len(ls) + 1)
SetSub(ls, u, hit) ==
  LET opened == [ls EXCEPT ![hit] = [@ EXCEPT !.value = ""]]
      at == FirstOf({j \in hit + 1 .. BlockEnd(ls, hit) - 1 : ls[j].name = u.sub}, 0)
  IN  IF at # 0 THEN [opened EXCEPT ![at] = Deep(u.sub, u.value)]
      ELSE Insert(opened, BlockEnd(ls, hit) - 1, <<Deep(u.sub, u.value)>>)

(* update_section, and update_config where there is no such section. *)
Edited(ls, u) ==
  LET hit == Hit(ls, u)
  IN  IF ls = Absent \/ ls = <<>> THEN <<Header(u.section)>> \o Rendered(u)
      ELSE IF StartOf(ls, u.section) = 0 THEN ls \o <<Header(u.section)>> \o Rendered(u)
      ELSE IF hit = 0 THEN AddKey(ls, u)
      ELSE IF u.sub = "" THEN [ls EXCEPT ![hit] = Option(u.key, u.value)]
      ELSE SetSub(ls, u, hit)

ConfigInit ==
  /\ update \in [Setters -> Updates]
  /\ setAt = [p \in Setters |-> "read"]
  /\ lines \in Files \cup {Absent}
  /\ text = [p \in Setters |-> <<>>]
  /\ was = [p \in Setters |-> <<>>]
  /\ filler = 0
  /\ between = FALSE

-----------------------------------------------------------------------------
Passes(p, from, to) == setAt[p] = from /\ setAt' = [setAt EXCEPT ![p] = to]

(* Another is between its read and the end of its write, or never ended. *)
Crowded(p) == \E q \in Setters \ {p} : setAt[q] \in {"truncate", "fill", "killed"}

ReadConfig(p) ==
  /\ Passes(p, "read", "truncate")
  /\ text' = [text EXCEPT ![p] = Edited(lines, update[p])]
  /\ was' = [was EXCEPT ![p] = lines]
  /\ between' = (between \/ Crowded(p))
  /\ UNCHANGED <<update, lines, filler>>

(* The file is opened, which truncates it, ... *)
Truncate(p) ==
  /\ Passes(p, "truncate", "fill")
  /\ lines' = <<>>
  /\ UNCHANGED <<update, text, was, filler, between>>

(* ... and then written, over what another may have written since. *)
FillConfig(p) ==
  /\ Passes(p, "fill", "done")
  /\ lines' = text[p] \o SubSeq(lines, Len(text[p]) + 1, Len(lines))
  /\ filler' = p
  /\ UNCHANGED <<update, text, was, between>>

(* The process is killed, or the disk is full. *)
KilledSetting(p) ==
  /\ Passes(p, "fill", "killed")
  /\ UNCHANGED <<update, lines, text, was, filler, between>>

SetStep(p) == ReadConfig(p) \/ Truncate(p) \/ FillConfig(p)
ConfigNext == \E p \in Setters : SetStep(p) \/ KilledSetting(p)

Spec == ConfigInit /\ [][ConfigNext]_configVars

-----------------------------------------------------------------------------
(* parse_ini: what a file says.  A deep option counts if the option it is  *)
(* under has no value, and of a name that occurs twice the later one does. *)
Opener(ls, i) ==
  LastOf({j \in HeaderAt(ls, i) + 1 .. i - 1 : ls[j].kind = "option" /\ ~ls[j].deep})
Counts(ls, i) ==
  /\ ls[i].kind = "option"
  /\ HeaderAt(ls, i) # 0
  /\ ls[i].deep => Opener(ls, i) # 0 /\ ls[Opener(ls, i)].value = ""
NameAt(ls, i) ==
  <<ls[HeaderAt(ls, i)].name, IF ls[i].deep THEN ls[Opener(ls, i)].name ELSE "",
    ls[i].name>>
Settings(ls) ==
  LET counted == IF ls = Absent THEN {} ELSE {i \in DOMAIN ls : Counts(ls, i)}
      Named(name) == {i \in counted : NameAt(ls, i) = name}
  IN  [name \in {NameAt(ls, i) : i \in counted} |-> ls[Max(Named(name))].value]

(* What setting u means: its name has the value, and nothing else changes, *)
(* but that a key is either a value or the head of sub-settings.           *)
NamesOf(u) ==
  IF u.sub = "" THEN {<<u.section, "", u.key>>}
  ELSE {<<u.section, "", u.key>>, <<u.section, u.key, u.sub>>}
After(settings, u) ==
  LET kept == {n \in DOMAIN settings : u.sub = "" => ~(n[1] = u.section /\ n[2] = u.key)}
  IN  [n \in kept \cup NamesOf(u) |->
         IF n = <<u.section, "", u.key>> THEN IF u.sub = "" THEN u.value ELSE ""
         ELSE IF n \in NamesOf(u) THEN u.value
         ELSE settings[n]]

(* Layouts of which writer.rs:3-7 (all that it was not asked to change     *)
(* survives, with one line different) does not hold, and nothing is        *)
(* claimed of the settings.  The writer and the reader understand them     *)
(* differently, and an edit changes or hides another setting: a sub-       *)
(* setting with the name of the key comes first (the edit leaves the key   *)
(* twice), a remark stands in the block before the sub-setting, or         *)
(* sub-settings are left under a key that has a value.                     *)
Misread(ls, u) ==
  LET hit == Hit(ls, u)
  IN  /\ ls # Absent /\ StartOf(ls, u.section) # 0 /\ hit # 0
      /\ \/ ls[hit].deep
         \/ \E j \in OptionsOf(ls, StartOf(ls, u.section)) \ {hit} :
              ~ls[j].deep /\ ls[j].name = u.key
         \/ /\ u.sub # ""
            /\ \/ \E j \in BlockEnd(ls, hit) + 1 .. EndOf(ls, hit) - 1 :
                    ls[j].kind = "option" /\ ls[j].deep /\ Opener(ls, j) = hit
               \/ ls[hit].value # "" /\ BlockEnd(ls, hit) > hit + 1

(* Every line of the other sections and every remark survives. *)
Foreign(ls, u) ==
  IF ls = Absent THEN <<>>
  ELSE LET Other(i) == \/ ls[i].kind = "remark"
                       \/ HeaderAt(ls, i) # StartOf(ls, u.section)
           others == {i \in DOMAIN ls : Other(i)}
       IN  [k \in 1 .. Cardinality(others) |->
              ls[CHOOSE i \in others : Cardinality({j \in others : j < i}) = k - 1]]

(* No line of another section and no remark is lost by a setting, whatever *)
(* the layout; and in a layout that is not misread, what was set is read   *)
(* back and no other setting is changed.  It is claimed of a writer that   *)
(* was alone: the file is read, truncated and written in place without a   *)
(* lock, so of two that overlap one loses what the other set, and one that *)
(* is killed in its write leaves a part of the file.                       *)
SettingsKept ==
  (filler # 0 /\ ~between /\ \A p \in Setters : setAt[p] \in {"read", "truncate", "done"}) =>
    LET u == update[filler] IN
      /\ Foreign(lines, u) = Foreign(was[filler], u)
      /\ ~Misread(was[filler], u) => Settings(lines) = After(Settings(was[filler]), u)
===============================================================================
