------------------------------ MODULE Hunspell ------------------------------
(***************************************************************************)
(* internal/hunspell and internal/fold: the word forms a dictionary pair   *)
(* stands for.  Lines are given as the records their fields are split      *)
(* into: the tokens of an .aff line, a .dic line's word and set of flags.  *)
(* A word is a sequence of characters, a condition a sequence of classes.  *)
(***************************************************************************)
EXTENDS Keymap, SequencesExt

NoFlag == "none"

(* ParseAff.  Line kinds: a directive naming a flag, the header of a group  *)
(* of rules, a rule; valid tells whether the rule's condition compiles.    *)
EmptyAff == [pfx |-> {}, sfx |-> {}, crossing |-> {},
             needAffix |-> NoFlag, forbidden |-> NoFlag, onlyCompound |-> NoFlag]

CompileRule(aff, line) ==
  [flag |-> line.flag, strip |-> line.strip, affix |-> line.affix, cond |-> line.cond,
   cross |-> line.flag \in aff.crossing]

ParseAffLine(aff, line) ==
  CASE line.kind = "NEEDAFFIX"      -> [aff EXCEPT !.needAffix = line.flag]
    [] line.kind = "FORBIDDENWORD"  -> [aff EXCEPT !.forbidden = line.flag]
    [] line.kind = "ONLYINCOMPOUND" -> [aff EXCEPT !.onlyCompound = line.flag]
    [] line.kind = "header" ->
         [aff EXCEPT !.crossing = IF line.cross THEN @ \cup {line.flag} ELSE @ \ {line.flag}]
    [] line.kind = "PFX" /\ line.valid -> [aff EXCEPT !.pfx = @ \cup {CompileRule(aff, line)}]
    [] line.kind = "SFX" /\ line.valid -> [aff EXCEPT !.sfx = @ \cup {CompileRule(aff, line)}]
    [] OTHER -> aff

ParseAff(lines) == FoldLeft(ParseAffLine, EmptyAff, lines)

(* One class of a condition: a literal is a class of one, "." is [^].      *)
InClass(class, c) == (c \in class.chars) # class.negated

PfxMatches(rule, word) ==
  /\ Len(rule.cond) <= Len(word)
  /\ \A i \in DOMAIN rule.cond : InClass(rule.cond[i], word[i])
SfxMatches(rule, word) ==
  LET n == Len(word) - Len(rule.cond) IN
  n >= 0 /\ \A i \in DOMAIN rule.cond : InClass(rule.cond[i], word[n + i])

(* The one form, or none, an affix makes of a word that fits its condition. *)
ApplyPfx(rule, word) ==
  IF IsPrefix(rule.strip, word)
  THEN { rule.affix \o SubSeq(word, Len(rule.strip) + 1, Len(word)) } ELSE {}
ApplySfx(rule, word) ==
  IF IsSuffix(rule.strip, word)
  THEN { SubSeq(word, 1, Len(word) - Len(rule.strip)) \o rule.affix } ELSE {}

PrefixRules(aff, e) ==
  { p \in aff.pfx : p.flag \in e.flags /\ PfxMatches(p, e.word) /\ ApplyPfx(p, e.word) # {} }
SuffixRules(aff, e) ==
  { s \in aff.sfx : s.flag \in e.flags /\ SfxMatches(s, e.word) }

(* Prefixes combine with the suffixed forms when both groups say so.       *)
AnyPrefix(aff, e, s) == PrefixRules(aff, e)
CrossPrefixes(aff, e, s) == IF s.cross THEN { p \in PrefixRules(aff, e) : p.cross } ELSE {}

Expand(aff, e) ==
  IF {aff.forbidden, aff.onlyCompound} \cap e.flags # {} THEN {}
  ELSE (IF aff.needAffix \in e.flags THEN {} ELSE { e.word })
       \cup UNION { ApplyPfx(p, e.word) : p \in PrefixRules(aff, e) }
       \cup UNION { LET forms == ApplySfx(s, e.word) IN
                    forms \cup UNION { ApplyPfx(p, f) : p \in CrossPrefixes(aff, e, s), f \in forms }
                    : s \in SuffixRules(aff, e) }

-----------------------------------------------------------------------------
(* internal/fold. *)
PolishToASCII == [zdot |-> "z", oacute |-> "o", Zdot |-> "Z", Oacute |-> "O"]
Fold(word) == [i \in DOMAIN word |-> IF word[i] \in DOMAIN PolishToASCII
                                     THEN PolishToASCII[word[i]] ELSE word[i]]
HasDiacritics(word)   == Range(word) \cap DOMAIN PolishToASCII # {}
IsPolishLetters(word) == word # <<>> /\ Range(word) \subseteq Letters
IsASCIILetters(word)  == IsPolishLetters(word) /\ ~HasDiacritics(word)
=============================================================================
