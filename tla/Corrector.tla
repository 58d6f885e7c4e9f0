----------------------------- MODULE Corrector -----------------------------
(***************************************************************************)
(* internal/correct: the autocorrection state machine.  It sees every key  *)
(* event after the text has reached the application and keeps buf, its     *)
(* picture of the word being typed; at a word boundary it may answer with  *)
(* a plan that rewrites the word, and the next Backspace may answer with   *)
(* the plan that takes the rewrite back.                                   *)
(*                                                                         *)
(* One action per branch of HandleEvent, in the order of the code: an      *)
(* action's guard repeats the early returns that come before it.  A Go     *)
(* Result becomes the variable result, read by the main loop and cleared   *)
(* when the next event is read.                                            *)
(***************************************************************************)
EXTENDS Keymap, SequencesExt

CONSTANTS
  BufCap,         \* capacity of the word buffer (64 in the code)
  MinWordLength,  \* shorter words are never corrected
  MaxWordLength,  \* longer words are never corrected (32 in the code)
  ValidWords,     \* lower-case words the dictionary knows
  CandidatesOf,   \* a function: folded word -> set of diacritic spellings
  Apps,           \* applications that can have the focus
  ExcludedApps    \* those in which nothing is corrected

ASSUME CorrectorAssumption ==
  /\ BufCap \in Nat /\ MinWordLength \in Nat /\ MaxWordLength \in Nat
  /\ ValidWords \subseteq Seq(LowerLetters)
  /\ \A w \in DOMAIN CandidatesOf : \A cand \in CandidatesOf[w] :
       cand \in Seq(LowerLetters) /\ Len(cand) = Len(w)      \* they fold to w

VARIABLES
  enabled,     \* autocorrection is on; written by the D-Bus goroutine too
  lookup,      \* a dictionary is attached
  opts,        \* options in force: separators that correct, undo, toggle shortcut
  activeApp,   \* class of the active window, as last reported
  buf, impure, overflow,
  suppressed,  \* buf is not a reliable picture of the current word
  undo,        \* the last correction while it can be taken back, or NoUndo
  pending,     \* a correction waiting for Shift and AltGr to go up, or NoPending
  result       \* what handling the last event produced

correctorVars ==
  <<enabled, lookup, opts, activeApp, buf, impure, overflow, suppressed, undo, pending, result>>

NoPlan    == [backspaces |-> 0, type |-> <<>>, restore |-> <<>>]
NoUndo    == [typed |-> <<>>, emitted |-> <<>>, outRunes |-> 0]
NoPending == [plan |-> NoPlan, undo |-> NoUndo]
NoResult  == [plan |-> NoPlan, toggled |-> FALSE, undo |-> FALSE]

Correction(plan) == [plan |-> plan, toggled |-> FALSE, undo |-> FALSE]

CorrectorInit(on, attached, options) ==
  /\ enabled = on /\ lookup = attached /\ opts = options
  /\ activeApp \in Apps \ ExcludedApps
  /\ buf = <<>> /\ impure = FALSE /\ overflow = FALSE
  /\ suppressed = FALSE
  /\ undo = NoUndo /\ pending = NoPending /\ result = NoResult

ClearWord  == buf' = <<>> /\ impure' = FALSE /\ overflow' = FALSE
KeepWord   == UNCHANGED <<buf, impure, overflow>>
Environs   == UNCHANGED <<enabled, lookup, opts, activeApp>>

ShouldCorrect == activeApp \notin ExcludedApps

-----------------------------------------------------------------------------
(* Case and dictionary: what a typed word becomes.                         *)

UpperCount(w) == Cardinality({ i \in DOMAIN w : w[i] \in UpperLetters })

(* applyCase: the case patterns that are carried over to the candidate.    *)
Capitalised(w) == UpperCount(w) = 1 /\ w[1] \in UpperLetters
AllUpper(w)    == UpperCount(w) = Len(w) /\ Len(w) >= 2
CasePattern(w) == UpperCount(w) = 0 \/ Capitalised(w) \/ AllUpper(w)
ApplyCase(w, cand) ==
  IF UpperCount(w) = 0 THEN cand
  ELSE IF Capitalised(w) THEN <<Upper(cand[1])>> \o Tail(cand)
  ELSE UpperWord(cand)

Candidates(w) == IF w \in DOMAIN CandidatesOf THEN CandidatesOf[w] ELSE {}

(* Exactly one candidate, for a word that is not a word already.           *)
OnlyCandidate(w) == w \notin ValidWords /\ Cardinality(Candidates(w)) = 1
CandidateFor(w)  == CHOOSE cand \in Candidates(w) : TRUE

CorrectHere(sep) == \E g \in DOMAIN SeparatorGroups : sep \in SeparatorGroups[g] /\ opts[g]

(* A picture of the word that nothing has made unreliable or too long.     *)
ReliableWord == ~suppressed /\ ~impure /\ ~overflow

(* The rules of commitWord for rewriting the word before separator sep.    *)
Correctable(sep) ==
  /\ CorrectHere(sep)
  /\ ReliableWord
  /\ Len(buf) \in MinWordLength..MaxWordLength
  /\ lookup
  /\ ShouldCorrect
  /\ \A i \in DOMAIN buf : buf[i] \in Letters \ Diacritics
  /\ OnlyCandidate(LowerWord(buf))
  /\ CandidateFor(LowerWord(buf)) # LowerWord(buf)
  /\ CasePattern(buf)

Corrected == ApplyCase(buf, CandidateFor(LowerWord(buf)))

(* The plan covers the word and the separator the application has shown.   *)
PlanWithoutSeparator(sep) ==
  [backspaces |-> Len(buf), type |-> Corrected, restore |-> buf]
PlanFor(sep) ==
  [backspaces |-> Len(buf) + 1, type |-> Append(Corrected, sep), restore |-> Append(buf, sep)]
UndoToLowerCase ==
  IF opts.undo
  THEN [typed |-> LowerWord(buf), emitted |-> Corrected, outRunes |-> Len(Corrected)]
  ELSE NoUndo
UndoFor ==
  IF opts.undo
  THEN [typed |-> buf, emitted |-> Corrected, outRunes |-> Len(Corrected)]
  ELSE NoUndo

-----------------------------------------------------------------------------
(* Guards shared by the branches.                                          *)

PlainKey(key, value) == key \notin ModifierKeys /\ value # 0

IsToggle(key, value, mods) ==
  value = 1 /\ key = opts.toggle.key /\ mods \ {"AltGr"} = opts.toggle.mods

Active == enabled

(* A key event the enabled corrector interprets: the branches after the    *)
(* test of the enabled flag.                                               *)
Interpreted(key, value, mods) ==
  PlainKey(key, value) /\ key # "KEY_CAPSLOCK" /\ ~IsToggle(key, value, mods) /\ Active

(* ... and that is not a shortcut.                                         *)
Typed(key, value, mods) ==
  Interpreted(key, value, mods) /\ mods \cap ChordModifiers = {}

(* Every plain key-down drops a deferred correction.                       *)
HoldPending == pending' = pending
DropPending == pending' = NoPending

(* Any key but Backspace makes the last correction final.                  *)
KeepUndo   == undo' = undo
CommitUndo == undo' = NoUndo

Invalidate ==
  ClearWord /\ suppressed' = TRUE /\ undo' = NoUndo /\ pending' = NoPending

ResetCorrector ==
  ClearWord /\ suppressed' = FALSE /\ undo' = NoUndo /\ pending' = NoPending

-----------------------------------------------------------------------------
(* The branches of HandleEvent.                                            *)

(* Shift or AltGr moved: a deferred correction fires once neither is held. *)
OutputModifiersUp(mods) == mods \cap OutputModifiers = {}

OutputModifierKey(key, value, mods) ==
  /\ key \in ShiftKeys \cup AltGrKeys
  /\ IF pending # NoPending /\ OutputModifiersUp(mods)
     THEN /\ result' = Correction(pending.plan)
          /\ undo' = pending.undo
          /\ pending' = NoPending
     ELSE result' = NoResult /\ UNCHANGED <<undo, pending>>
  /\ KeepWord /\ UNCHANGED suppressed

(* Ctrl, Alt and Meta themselves, and every release, change nothing.       *)
IgnoredKey(key, value, mods) ==
  /\ \/ key \in ModifierKeys \ (ShiftKeys \cup AltGrKeys)
     \/ key \notin ModifierKeys /\ value = 0
  /\ result' = NoResult
  /\ KeepWord /\ UNCHANGED <<suppressed, undo, pending>>

CapsLockKey(key, value, mods) ==
  /\ PlainKey(key, value) /\ key = "KEY_CAPSLOCK"
  /\ DropPending
  /\ result' = NoResult
  /\ KeepWord /\ UNCHANGED <<suppressed, undo>>

ToggleKey(key, value, mods) ==
  /\ PlainKey(key, value) /\ IsToggle(key, value, mods)
  /\ Invalidate
  /\ result' = [NoResult EXCEPT !.toggled = TRUE]

DisabledKey(key, value, mods) ==
  /\ PlainKey(key, value) /\ key # "KEY_CAPSLOCK" /\ ~IsToggle(key, value, mods)
  /\ ~Active
  /\ DropPending
  /\ IF buf # <<>> \/ suppressed \/ undo # NoUndo
     THEN ClearWord /\ suppressed' = FALSE /\ undo' = NoUndo
     ELSE KeepWord /\ UNCHANGED <<suppressed, undo>>
  /\ result' = NoResult

(* A shortcut may have done anything to the text.                          *)
ChordKey(key, value, mods) ==
  /\ Interpreted(key, value, mods) /\ mods \cap ChordModifiers # {}
  /\ Invalidate
  /\ result' = NoResult

(* Backspace right after a correction takes it back: the key itself has    *)
(* deleted the separator, the plan replaces the word.                      *)
Undoable(value) == undo # NoUndo /\ value = 1
CorrectAgain   == suppressed' = FALSE
DoNotRecorrect == suppressed' = TRUE
UndoKey(key, value, mods) ==
  /\ Typed(key, value, mods) /\ key = "KEY_BACKSPACE" /\ Undoable(value)
  /\ result' = [plan |-> [backspaces |-> undo.outRunes, type |-> undo.typed, restore |-> undo.emitted],
                toggled |-> FALSE, undo |-> TRUE]
  /\ buf' = undo.typed /\ impure' = FALSE /\ overflow' = FALSE
  /\ DoNotRecorrect
  /\ undo' = NoUndo /\ DropPending

(* Any other Backspace shortens the word, or eats text never observed.     *)
TrustNextWord == UNCHANGED suppressed
DistrustWord  == suppressed' = TRUE
BackspaceKey(key, value, mods) ==
  /\ Typed(key, value, mods) /\ key = "KEY_BACKSPACE" /\ ~Undoable(value)
  /\ undo' = NoUndo /\ DropPending
  /\ IF buf # <<>> THEN buf' = Front(buf) /\ UNCHANGED suppressed
                   ELSE DistrustWord /\ UNCHANGED buf
  /\ UNCHANGED <<impure, overflow>>
  /\ result' = NoResult

(* The character the corrector believes the key printed.                   *)
Char(key, mods) == IF "Shift" \in mods THEN Chars[key].shifted ELSE Chars[key].normal
SeparatorOf(key, mods) ==
  IF key = "KEY_ENTER" THEN "nl"
  ELSE IF key \in PrintingKeys THEN Char(key, mods) ELSE "none"
IsSeparator(key, mods) == SeparatorOf(key, mods) \in Separators

(* A word boundary: rewrite the word, now or when Shift and AltGr are up.  *)
NeverDeferred(mods) == FALSE
Deferred(mods)      == mods \cap OutputModifiers # {}
SeparatorKey(key, value, mods) ==
  /\ Typed(key, value, mods) /\ IsSeparator(key, mods)
  /\ LET sep == SeparatorOf(key, mods) IN
     \/ /\ Correctable(sep) /\ ~Deferred(mods)
        /\ result' = Correction(PlanFor(sep)) /\ undo' = UndoFor /\ DropPending
     \/ /\ Correctable(sep) /\ Deferred(mods)
        /\ pending' = [plan |-> PlanFor(sep), undo |-> UndoFor]
        /\ result' = NoResult /\ undo' = NoUndo
     \/ /\ ~Correctable(sep)
        /\ result' = NoResult /\ undo' = NoUndo /\ DropPending
  /\ ClearWord /\ suppressed' = FALSE

(* appendRune: past its capacity the buffer stops growing.                 *)
NeverFull  == FALSE
BufferFull == Len(buf) >= BufCap
OverflowUnnoticed == UNCHANGED overflow
MarkOverflow      == overflow' = TRUE
AppendRune(ch, pure) ==
  /\ impure' = (impure \/ ~pure)
  /\ IF BufferFull THEN MarkOverflow /\ UNCHANGED buf
                   ELSE buf' = Append(buf, ch) /\ UNCHANGED overflow

TypedChar(key, value, mods) ==
  Typed(key, value, mods) /\ key # "KEY_BACKSPACE" /\ ~IsSeparator(key, mods)

(* A diacritic typed directly joins the word.                              *)
DiacriticKey(key, value, mods, capsOn) ==
  /\ TypedChar(key, value, mods) /\ "AltGr" \in mods /\ key \in DOMAIN AltGr
  /\ AppendRune(IF ("Shift" \in mods) # capsOn THEN Upper(AltGr[key]) ELSE AltGr[key], TRUE)
  /\ CommitUndo /\ DropPending /\ UNCHANGED suppressed
  /\ result' = NoResult

LetterKey(key, value, mods, capsOn) ==
  /\ TypedChar(key, value, mods) /\ "AltGr" \notin mods
  /\ key \in PrintingKeys /\ Char(key, mods) \in Letters
  /\ AppendRune(IF ("Shift" \in mods) # capsOn THEN Upper(Char(key, mods)) ELSE Lower(Char(key, mods)), TRUE)
  /\ CommitUndo /\ DropPending /\ UNCHANGED suppressed
  /\ result' = NoResult

(* An opening bracket starts a fresh word.                                 *)
OpenerKey(key, value, mods) ==
  /\ TypedChar(key, value, mods) /\ "AltGr" \notin mods
  /\ key \in PrintingKeys /\ Char(key, mods) \in Openers
  /\ ClearWord /\ suppressed' = FALSE
  /\ CommitUndo /\ DropPending
  /\ result' = NoResult

(* Digits, hyphens and the like join the word and make it uncorrectable.   *)
ImpureKey(key, value, mods) ==
  /\ TypedChar(key, value, mods) /\ "AltGr" \notin mods
  /\ key \in PrintingKeys /\ Char(key, mods) \notin Letters \cup Openers
  /\ AppendRune(Char(key, mods), FALSE)
  /\ CommitUndo /\ DropPending /\ UNCHANGED suppressed
  /\ result' = NoResult

(* A cursor key, an unknown key or an unknown AltGr combination.           *)
UnknownKey(key, value, mods) ==
  /\ TypedChar(key, value, mods)
  /\ key \notin (IF "AltGr" \in mods THEN DOMAIN AltGr ELSE PrintingKeys)
  /\ ClearWord /\ suppressed' = TRUE
  /\ CommitUndo /\ DropPending
  /\ result' = NoResult

CorrectorHandleEvent(key, value, mods, capsOn) ==
  /\ \/ OutputModifierKey(key, value, mods)
     \/ IgnoredKey(key, value, mods)
     \/ CapsLockKey(key, value, mods)
     \/ ToggleKey(key, value, mods)
     \/ DisabledKey(key, value, mods)
     \/ ChordKey(key, value, mods)
     \/ UndoKey(key, value, mods)
     \/ BackspaceKey(key, value, mods)
     \/ SeparatorKey(key, value, mods)
     \/ DiacriticKey(key, value, mods, capsOn)
     \/ LetterKey(key, value, mods, capsOn)
     \/ OpenerKey(key, value, mods)
     \/ ImpureKey(key, value, mods)
     \/ UnknownKey(key, value, mods)
  /\ Environs

-----------------------------------------------------------------------------
(* Calls from outside the key path.                                        *)

(* SetOptions: a reloaded configuration invalidates the current word.      *)
SetOptions(options) ==
  opts' = options /\ Invalidate /\ UNCHANGED <<activeApp, result>>

SetEnabled(v) == enabled' = v

PlanOK(plan) ==
  /\ plan.type \in Seq(Runes) /\ plan.restore \in Seq(Runes)
  /\ plan.backspaces = Len(plan.restore)
UndoOK(u) ==
  /\ u.typed \in Seq(Runes) /\ u.emitted \in Seq(Runes)
  /\ u.outRunes = Len(u.emitted)

(* Types, and the shape every edit must have before it reaches the output  *)
(* writer: it deletes exactly as many characters as it can put back.       *)
CorrectorTypeOK ==
  /\ enabled \in BOOLEAN /\ lookup \in BOOLEAN
  /\ impure \in BOOLEAN /\ overflow \in BOOLEAN /\ suppressed \in BOOLEAN
  /\ buf \in Seq(Runes) /\ Len(buf) <= BufCap
  /\ UndoOK(undo) /\ UndoOK(pending.undo)
  /\ PlanOK(pending.plan) /\ PlanOK(result.plan)
=============================================================================
