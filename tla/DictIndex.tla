------------------------------ MODULE DictIndex ------------------------------
(***************************************************************************)
(* internal/dict: the word index.  Build sorts the forms of a dictionary   *)
(* into two tables without duplicates, the plain words and the pairs of a  *)
(* folded key and a spelling with diacritics; IsWord and Candidates find   *)
(* their place in a table by bisection and read on from there.  Each probe *)
(* of the bisection is a step.                                             *)
(***************************************************************************)
EXTENDS Hunspell

CONSTANTS
  AffFiles,   \* .aff files: sequences of lines
  DicFiles,   \* .dic files: sequences of [word, flags]
  Queries     \* lower-case ASCII words that are asked for

Words == Seq(Letters)
ASSUME QueriesAssumption == \A w \in Queries : w \in Words /\ ~HasDiacritics(w)

VARIABLES
  rules, entries,   \* the parsed dictionary pair
  ascii,      \* table of plain words
  pairs,      \* table of [key, val]: candKeys and candVals, which run in parallel
  asked,      \* what is asked: [op, word], op "IsWord" or "Candidates"
  phase,      \* idle, search, read, answered
  lo, hi,     \* the bounds of the bisection: places lo+1..hi are still open
  buf,        \* the candidates read so far
  answer

indexVars == <<rules, entries, ascii, pairs, asked, phase, lo, hi, buf, answer>>

(* Byte order of the UTF-8 encodings. *)
CodePoint ==
  [c \in Letters \cup {"1", "eacute"} |->
     CASE c = "1" -> 49        [] c = "O" -> 79       [] c = "Z" -> 90
       [] c = "o" -> 111       [] c = "z" -> 122      [] c = "Oacute" -> 211
       [] c = "eacute" -> 233  [] c = "oacute" -> 243 [] c = "Zdot" -> 379
       [] c = "zdot" -> 380]
Before(s, t) ==
  \E n \in 0..Len(s) :
    /\ n <= Len(t) /\ SubSeq(s, 1, n) = SubSeq(t, 1, n)
    /\ \/ n = Len(s) /\ n < Len(t)
       \/ n < Len(s) /\ n < Len(t) /\ CodePoint[s[n + 1]] < CodePoint[t[n + 1]]

-----------------------------------------------------------------------------
(* Build. *)

HasUpper(form) == Range(form) \cap UpperLetters # {}
Lowered(form)  == IF HasUpper(form) THEN LowerWord(form) ELSE form

(* Every form of every entry, a form as often as it is emitted. *)
Emit(forms, form) == Append(forms, Lowered(form))
Emitted(a, d) ==
  FoldLeft(LAMBDA forms, e : FoldSet(LAMBDA f, fs : Emit(fs, f), forms, Expand(a, e)), <<>>, d)

IsPair(form) == IsPolishLetters(form) /\ HasDiacritics(form)
PairOf(form) == [key |-> Fold(form), val |-> form]
PairBefore(p, q) == Before(p.key, q.key) \/ (p.key = q.key /\ Before(p.val, q.val))

(* Sorted, and of neighbours that are equal only the first is kept. *)
KeepNew(s, x) == IF s # <<>> /\ Last(s) = x THEN s ELSE Append(s, x)
Dedupe(sorted) == FoldLeft(KeepNew, <<>>, sorted)
AsciiTable(forms) == Dedupe(SortSeq(SelectSeq(forms, IsASCIILetters), Before))
PairTable(forms) ==
  LET spelled == SelectSeq(forms, IsPair) IN
  Dedupe(SortSeq([i \in DOMAIN spelled |-> PairOf(spelled[i])], PairBefore))

IndexInit ==
  /\ rules \in { ParseAff(lines) : lines \in AffFiles } /\ entries \in DicFiles
  /\ LET forms == Emitted(rules, entries) IN ascii = AsciiTable(forms) /\ pairs = PairTable(forms)
  /\ asked = [op |-> "IsWord", word |-> <<>>] /\ phase = "idle"
  /\ lo = 0 /\ hi = 0 /\ buf = <<>> /\ answer = <<>>

-----------------------------------------------------------------------------
(* Queries. *)

Table == IF asked.op = "IsWord" THEN ascii ELSE [i \in DOMAIN pairs |-> pairs[i].key]
Length(op) == IF op = "IsWord" THEN Len(ascii) ELSE Len(pairs)

Ask(op, word) ==
  /\ phase = "idle"
  /\ asked' = [op |-> op, word |-> word]
  /\ lo' = 0 /\ hi' = Length(op)
  /\ phase' = "search"
  /\ UNCHANGED <<rules, entries, ascii, pairs, buf, answer>>

(* search: sort.Search narrows to the first entry that is not smaller.      *)
Probe ==
  /\ phase = "search" /\ lo < hi
  /\ LET middle == (lo + hi) \div 2 IN
     IF Before(Table[middle + 1], asked.word)
     THEN lo' = middle + 1 /\ UNCHANGED hi
     ELSE hi' = middle /\ UNCHANGED lo
  /\ UNCHANGED <<rules, entries, ascii, pairs, asked, phase, buf, answer>>

Found == lo < Len(Table) /\ Table[lo + 1] = asked.word

AnswerIsWord ==
  /\ phase = "search" /\ lo = hi /\ asked.op = "IsWord"
  /\ answer' = Found /\ phase' = "answered"
  /\ UNCHANGED <<rules, entries, ascii, pairs, asked, lo, hi, buf>>

(* Candidates reads on while the key is the one asked for.                  *)
OnlyFirst == buf = <<>>
ReadsOn == TRUE
ReadCandidate ==
  /\ phase = "search" /\ lo = hi /\ asked.op = "Candidates"
  /\ Found /\ ReadsOn
  /\ LET v == pairs[lo + 1].val IN
     buf' = IF buf # <<>> /\ Last(buf) = v THEN buf ELSE Append(buf, v)
  /\ lo' = lo + 1 /\ hi' = hi + 1
  /\ UNCHANGED <<rules, entries, ascii, pairs, asked, phase, answer>>

AnswerCandidates ==
  /\ phase = "search" /\ lo = hi /\ asked.op = "Candidates"
  /\ ~(Found /\ ReadsOn)
  /\ answer' = buf /\ buf' = <<>> /\ phase' = "answered"
  /\ UNCHANGED <<rules, entries, ascii, pairs, asked, lo, hi>>

NextQuestion == phase = "answered" /\ phase' = "idle"
                /\ UNCHANGED <<rules, entries, ascii, pairs, asked, lo, hi, buf, answer>>

IndexNext ==
  \/ \E op \in {"IsWord", "Candidates"}, word \in Queries : Ask(op, word)
  \/ Probe \/ AnswerIsWord \/ ReadCandidate \/ AnswerCandidates \/ NextQuestion

IndexSpec == IndexInit /\ [][IndexNext]_indexVars

-----------------------------------------------------------------------------
(* The forms of an entry as the format defines them: an optional prefix and *)
(* an optional suffix of the entry's flags, whose conditions the stem fits, *)
(* each cutting its end of the stem and adding to it, both only if both    *)
(* groups are cross products.                                              *)
NoAffix == [flag |-> NoFlag, strip |-> <<>>, affix |-> <<>>, cond |-> <<>>, cross |-> TRUE]
Derived(a, e) ==
  { r[1].affix \o SubSeq(e.word, Len(r[1].strip) + 1, Len(e.word) - Len(r[2].strip)) \o r[2].affix :
    r \in { t \in ({NoAffix} \cup a.pfx) \X ({NoAffix} \cup a.sfx) :
              /\ {t[1].flag, t[2].flag} \subseteq e.flags \cup {NoFlag}
              /\ PfxMatches(t[1], e.word) /\ IsPrefix(t[1].strip, e.word)
              /\ SfxMatches(t[2], e.word) /\ IsSuffix(t[2].strip, e.word)
              /\ NoAffix \in {t[1], t[2]} \/ (t[1].cross /\ t[2].cross)
              /\ t[1] = NoAffix /\ t[2] = NoAffix => a.needAffix \notin e.flags } }
Language == UNION { Derived(rules, e) : e \in
                    { x \in Range(entries) : x.flags \cap {rules.forbidden, rules.onlyCompound} = {} } }

(* What the bisection relies on: the tables are sorted and without         *)
(* duplicates, words with diacritics in one and all others in the other.   *)
TablesInOrder ==
  /\ ascii \in Seq(Words) /\ \A i, j \in DOMAIN ascii : i < j => Before(ascii[i], ascii[j])
  /\ pairs \in Seq([key : Words, val : Words])
  /\ \A i, j \in DOMAIN pairs : i < j => PairBefore(pairs[i], pairs[j])
  /\ \A w \in Range(ascii) : ~HasDiacritics(w)
  /\ \A p \in Range(pairs) : HasDiacritics(p.val) /\ p.key = Fold(p.val)

(* Every form the dictionary stands for is in one of the tables if it is    *)
(* made of Polish letters, and nothing else is, and each table has its own *)
(* in order and once: cross products of prefix and suffix, stems that need *)
(* an affix, forbidden and compound-only entries, capitals and the split   *)
(* by diacritics each could lose or invent a form.                         *)
TablesHoldLanguage ==
  /\ TablesInOrder
  /\ Range(ascii) \cup { p.val : p \in Range(pairs) }
       = { LowerWord(f) : f \in { g \in Language : IsPolishLetters(g) } }

(* IsWord answers by membership, Candidates with every spelling of the key  *)
(* and each of them once - a spelling missing or told twice decides        *)
(* whether a word has one candidate, and only then it is corrected.        *)
AnswersAreTrue ==
  phase = "answered" =>
    LET forms == { LowerWord(f) : f \in { g \in Language : IsPolishLetters(g) } } IN
    IF asked.op = "IsWord" THEN answer = (asked.word \in forms)
    ELSE /\ Range(answer) = { f \in forms : HasDiacritics(f) /\ Fold(f) = asked.word }
         /\ IsInjective(answer)
=============================================================================
