---------------------------- MODULE OutputProofs ----------------------------
(***************************************************************************)
(* Proofs about the backends of internal/output, for any settings, any     *)
(* edits, any number of failing operations and of copies by the user.      *)
(*                                                                         *)
(* The clipboard.  Two parties give it back, the paste that fails and the  *)
(* goroutine of the paste that went well, and the invariant says which of  *)
(* them is due: a paste at work owns the clipboard, and no goroutine that  *)
(* sleeps has its generation, so none can give it back underneath it.      *)
(*                                                                         *)
(* The outcome.  An operation of a stage tells by itself which keys are     *)
(* down when its turn comes and how many strokes are done, if one knows    *)
(* the plan of strokes it is taken from; a list in which every operation    *)
(* begins where the one before it ends stays such a list when its head is  *)
(* done.  The invariant says for every stage that the keys and the text    *)
(* are what the operation due next tells, until something fails; after     *)
(* that nothing is pressed any more and the text stays where it was.       *)
(***************************************************************************)
EXTENDS Output, SequenceTheorems, FiniteSetTheorems, TLAPS

Pasting == stage \in {"copy", "paste", "abort"}

ClipboardInv ==
  /\ generation \in Nat
  /\ \A g \in timers : g \in Nat /\ g <= generation
  /\ Pasting => active /\ generation \notin timers
  /\ active => Pasting \/ generation \in timers
  /\ ClipboardGivenBack

(* The ways into and out of a stage.                                       *)
LEMMA StageFacts ==
  /\ \A st, o : Enter(st, o) => stage' = st
  /\ \A r : Return(r) => stage' = "idle"
  /\ \A text : WithRestore(text) => stage' \in {"idle", "restore"}
BY DEF Enter, Return, WithRestore

LEMMA ClipboardInit == OutInit => ClipboardInv
BY DEF OutInit, ClipboardInv, ClipboardGivenBack, Pasting

(* The steps outside of the clipboard backend.                             *)
LEMMA ClipboardUntouched ==
  ASSUME ClipboardInv, UNCHANGED clipVars, Pasting' = Pasting
  PROVE  ClipboardInv'
BY DEF ClipboardInv, ClipboardGivenBack, clipVars

LEMMA OtherStepsKeepClipboard ==
  ASSUME ClipboardInv,
         \/ KeySucceeds \/ KeyFails \/ DeleteDone \/ TypeDone \/ RestoreDone \/ RunWtype
         \/ \E w \in {"expander", "corrector"}, e \in Edits : Apply(w, e)
         \/ \E s \in Settings : ReloadSettings(s)
         \/ UNCHANGED outVars
  PROVE  ClipboardInv'
<1>1. CASE KeySucceeds \/ KeyFails \/ UNCHANGED outVars \/ \E s \in Settings : ReloadSettings(s)
  <2>1. UNCHANGED <<clipVars, stage>>
    BY <1>1 DEF KeySucceeds, KeyFails, outVars, ReloadSettings
  <2> QED
    BY <2>1, ClipboardUntouched DEF Pasting
<1>2. CASE DeleteDone \/ TypeDone \/ RestoreDone \/ RunWtype
  <2>1. UNCHANGED clipVars
    BY <1>2 DEF DeleteDone, TypeDone, RestoreDone, RunWtype
  <2>2. stage \in {"delete", "type", "restore", "wtype"}
    BY <1>2 DEF DeleteDone, TypeDone, RestoreDone, RunWtype, StageEnds
  <2>3. stage' \in {"idle", "restore", "type", "wtype", "begin"}
    BY <1>2, StageFacts DEF DeleteDone, TypeDone, RestoreDone, RunWtype
  <2> QED
    BY <2>1, <2>2, <2>3, ClipboardUntouched DEF Pasting
<1>3. CASE \E w \in {"expander", "corrector"}, e \in Edits : Apply(w, e)
  <2>1. PICK w \in {"expander", "corrector"}, e \in Edits : Apply(w, e)
    BY <1>3
  <2>2. UNCHANGED clipVars /\ stage = "idle" /\ stage' \in {"idle", "delete"}
    BY <2>1, StageFacts DEF Apply
  <2> QED
    BY <2>2, ClipboardUntouched DEF Pasting
<1> QED
  BY <1>1, <1>2, <1>3

LEMMA BeginKeepsClipboard ==
  ASSUME ClipboardInv, BeginPaste
  PROVE  ClipboardInv'
<1>0. stage = "begin" /\ UNCHANGED <<clip, timers, userClip>>
  BY DEF BeginPaste
<1>1. CASE PasteBegins(IF TakesSnapshot THEN clip ELSE original) /\ UNCHANGED unsaved
  <2>1. /\ generation' = generation + 1 /\ active' = TRUE /\ stage' = "copy"
        /\ original' = IF TakesSnapshot THEN clip ELSE original
    BY <1>1, StageFacts DEF PasteBegins
  <2> QED
    BY <1>0, <1>1, <2>1 DEF ClipboardInv, ClipboardGivenBack, Pasting, TakesSnapshot
<1>2. CASE ~active /\ PasteBegins(<<>>) /\ unsaved' = (unsaved \/ clip # <<>>)
  <2>1. generation' = generation + 1 /\ active' = TRUE /\ original' = <<>> /\ stage' = "copy"
    BY <1>2, StageFacts DEF PasteBegins
  <2>2. (clip # <<>> => unsaved') /\ (unsaved => unsaved')
    BY <1>2
  <2>3. ClipboardGivenBack'
    BY <1>0, <1>2, <2>1, <2>2 DEF ClipboardInv, ClipboardGivenBack
  <2> QED
    BY <1>0, <2>1, <2>3 DEF ClipboardInv, Pasting
<1>3. CASE UNCHANGED <<generation, active, original, unsaved>> /\ stage' \in {"idle", "restore"}
  BY <1>0, <1>3 DEF ClipboardInv, ClipboardGivenBack, Pasting
<1> QED
  BY <1>1, <1>2, <1>3, StageFacts DEF BeginPaste

LEMMA CopyKeepsClipboard ==
  ASSUME ClipboardInv, CopyText
  PROVE  ClipboardInv'
<1>1. stage = "copy" /\ stage' \in {"paste", "abort"}
  BY StageFacts DEF CopyText
<1>2. UNCHANGED <<generation, active, original, timers, userClip, unsaved>>
  BY DEF CopyText
<1> QED
  BY <1>1, <1>2 DEF ClipboardInv, ClipboardGivenBack, Pasting

(* Giving back what was kept, or failing to.                               *)
LEMMA GiveBackFacts ==
  ASSUME GiveBack, active, ClipboardGivenBack, UNCHANGED userClip
  PROVE  active' = FALSE /\ ClipboardGivenBack'
BY DEF GiveBack, ClipboardGivenBack

LEMMA AbortKeepsClipboard ==
  ASSUME ClipboardInv, Abort
  PROVE  ClipboardInv'
<1>1. Pasting /\ stage' \in {"idle", "restore"}
  BY StageFacts DEF Abort, StageEnds, Pasting
<1>2. GiveBack /\ UNCHANGED <<generation, timers, userClip>>
  BY DEF Abort
<1>3. active' = FALSE /\ ClipboardGivenBack'
  BY <1>1, <1>2, GiveBackFacts DEF ClipboardInv
<1> QED
  BY <1>1, <1>2, <1>3 DEF ClipboardInv, Pasting

LEMMA PasteDoneKeepsClipboard ==
  ASSUME ClipboardInv, PasteDone
  PROVE  ClipboardInv'
<1>1. stage = "paste" /\ stage' = "idle" /\ timers' = timers \cup {generation}
  BY StageFacts DEF PasteDone, StageEnds, ScheduledAfter
<1>2. UNCHANGED <<clip, generation, active, original, userClip, unsaved>>
  BY DEF PasteDone
<1> QED
  BY <1>1, <1>2 DEF ClipboardInv, ClipboardGivenBack, Pasting

LEMMA RestoreKeepsClipboard ==
  ASSUME ClipboardInv, NEW g, RestoreClipboard(g)
  PROVE  ClipboardInv'
<1>1. g \in timers /\ timers' = timers \ {g} /\ UNCHANGED <<stage, generation, original, userClip>>
  BY DEF RestoreClipboard
<1>2. CASE active /\ generation = g
  <2>1. active' = FALSE /\ ClipboardGivenBack'
    BY <1>1, <1>2, GiveBackFacts DEF RestoreClipboard, ClipboardInv
  <2>2. ~Pasting
    BY <1>1, <1>2 DEF ClipboardInv
  <2> QED
    BY <1>1, <2>1, <2>2 DEF ClipboardInv, Pasting
<1>3. CASE ~(active /\ generation = g)
  <2>1. UNCHANGED <<active, clip, unsaved>>
    BY <1>3 DEF RestoreClipboard
  <2> QED
    BY <1>1, <1>3, <2>1 DEF ClipboardInv, ClipboardGivenBack, Pasting
<1> QED
  BY <1>2, <1>3

LEMMA CopyingKeepsClipboard ==
  ASSUME ClipboardInv, UserCopies
  PROVE  ClipboardInv'
<1>1. /\ clip' = userClip' /\ unsaved' = active
      /\ UNCHANGED <<stage, generation, active, timers>>
  BY DEF UserCopies
<1> QED
  BY <1>1 DEF ClipboardInv, ClipboardGivenBack, Pasting

THEOREM ClipboardInvariant == OutSpec => []ClipboardInv
<1>1. ASSUME ClipboardInv, [OutNext]_outVars
      PROVE  ClipboardInv'
  BY <1>1, OtherStepsKeepClipboard, BeginKeepsClipboard, CopyKeepsClipboard, AbortKeepsClipboard,
     PasteDoneKeepsClipboard, RestoreKeepsClipboard, CopyingKeepsClipboard DEF OutNext, Step
<1> QED
  BY <1>1, ClipboardInit, PTL DEF OutSpec

(* While pastes overlap, whatever fails on the way, the text kept for the   *)
(* user is his and none of texpand's own, and once the last paste is over  *)
(* it is on the clipboard again (Clipboard.Type, abortClipboardPaste,      *)
(* restoreClipboard) - unless he copied meanwhile, giving back failed, or  *)
(* readClipboard took his text for an empty clipboard, as it does whenever *)
(* wl-paste ends with exit status 1.  A clipboard he left empty, and one   *)
(* read right, are covered.                                                *)
THEOREM ClipboardComesBack == OutSpec => []ClipboardGivenBack
<1>1. ClipboardInv => ClipboardGivenBack
  BY DEF ClipboardInv
<1> QED
  BY <1>1, ClipboardInvariant, PTL

(* No failure leaves the clipboard state active with nobody to reset it:    *)
(* a paste is at work or the goroutine of the latest one will wake up.     *)
SomebodyGivesBack == active => Pasting \/ generation \in timers
THEOREM ClipboardHasAGuardian == OutSpec => []SomebodyGivesBack
<1>1. ClipboardInv => SomebodyGivesBack
  BY DEF ClipboardInv, SomebodyGivesBack
<1> QED
  BY <1>1, ClipboardInvariant, PTL

-----------------------------------------------------------------------------
(* The proofs about the key tables, taken from those about the keyboard     *)
(* state, with no keyboard: the tables do not depend on it.                *)
K == INSTANCE InputStateProofs WITH Devices <- {}, pressed <- {}, counts <- {}

LEMMA NoDevices == K!IsFiniteSet({})
<1>1. IsFiniteSet({})
  BY FS_EmptySet
<1> QED
  BY <1>1 DEF K!IsFiniteSet, IsFiniteSet

LEMMA SameTables ==
  /\ K!ReverseKey = ReverseKey /\ K!Strokes = Strokes /\ K!Letters = Letters
  /\ \A k, m, on : K!Glyph(k, m, on) = Glyph(k, m, on)
<1>1. \A S : K!Cardinality(S) = Cardinality(S)
  BY DEF K!Cardinality, Cardinality
<1>2. \A k, m, on : K!Glyph(k, m, on) = Glyph(k, m, on)
  BY DEF K!Glyph, Glyph, K!ShiftLevel, ShiftLevel, K!Upper, Upper, K!CasePairs, CasePairs,
         K!LowerLetters, LowerLetters, K!Chars, Chars, K!AltGr, AltGr
<1>3. K!Strokes = Strokes
  BY DEF K!Strokes, Strokes, K!Chars, Chars, K!PrintingKeys, PrintingKeys
<1>4. \A s, c : K!Types(s, c) = Types(s, c)
  BY <1>2 DEF K!Types, Types
<1>5. K!ReverseKey = ReverseKey
  BY DEF K!ReverseKey, ReverseKey, K!Strokes, Strokes, K!Types, Types, K!Glyph, Glyph, K!ShiftLevel, ShiftLevel,
         K!Upper, Upper, K!CasePairs, CasePairs, K!LowerLetters, LowerLetters, K!Chars, Chars, K!AltGr, AltGr,
         K!PrintingKeys, PrintingKeys, K!Cardinality, Cardinality
<1>6. K!Letters = Letters
  BY DEF K!Letters, Letters, K!LowerLetters, LowerLetters, K!UpperLetters, UpperLetters, K!CasePairs, CasePairs
<1> QED
  BY <1>2, <1>3, <1>5, <1>6

LEMMA Least ==
  ASSUME NEW T, T \subseteq Nat, T # {}
  PROVE  \E x \in T : \A y \in T : x <= y
BY K!LeastNatural, NoDevices

(* The table gives a printing key and the modifiers that go with it; held   *)
(* down, Shift turned round for a letter under Caps Lock, it shows the     *)
(* character.                                                              *)
LEMMA TableStroke ==
  ASSUME NEW c \in DOMAIN ReverseKey
  PROVE  ReverseKey[c].key \in PrintingKeys \cup {"KEY_ENTER"} /\ ReverseKey[c].mods \subseteq ModifierClasses
<1> HIDE DEF ReverseKey
<1>1. ReverseKey[c] \in Strokes
  BY SameTables, K!ReverseTypes, NoDevices
<1> QED
  BY <1>1 DEF Strokes, ModifierClasses

LEMMA TableShows ==
  ASSUME NEW c \in DOMAIN ReverseKey, NEW all, NEW led \in BOOLEAN,
         "AltGr" \in all <=> "AltGr" \in ReverseKey[c].mods,
         "Shift" \in all <=> ("Shift" \in ReverseKey[c].mods) # (led /\ c \in Letters)
  PROVE  Glyph(ReverseKey[c].key, all, led) = c
<1> HIDE DEF ReverseKey
<1> QED
  BY SameTables, K!StrokeShows, NoDevices

-----------------------------------------------------------------------------
(* Flattened sequences.                                                    *)

(* Induction up to n, over a set.                                          *)
LEMMA UpTo ==
  ASSUME NEW n \in Nat, NEW Good, 0 \in Good, \A k \in 1..n : k - 1 \in Good => k \in Good
  PROVE  \A k \in 0..n : k \in Good
<1> SUFFICES ASSUME (0..n) \ Good # {} PROVE FALSE
  OBVIOUS
<1> DEFINE Bad == (0..n) \ Good
<1>1. Bad \subseteq Nat /\ Bad # {}
  OBVIOUS
<1> HIDE DEF Bad
<1>2. PICK k \in Bad : \A y \in Bad : k <= y
  BY <1>1, Least
<1>3. k \in 0..n /\ k \notin Good
  BY DEF Bad
<1>4. k \in 1..n
  BY <1>3
<1>5. k - 1 \in 0..n /\ ~(k <= k - 1)
  BY <1>4
<1>6. k - 1 \in Good
  BY <1>2, <1>5 DEF Bad
<1> QED
  BY <1>3, <1>4, <1>6

(* A flattened sequence is built up part by part,                          *)
LEMMA FlattenedPrefixes ==
  ASSUME NEW S, NEW s \in Seq(Seq(S)), s # <<>>
  PROVE  \E f \in [1..Len(s) -> Seq(S)] :
           /\ f[1] = s[1]
           /\ \A i \in 2..Len(s) : f[i] = f[i-1] \o s[i]
           /\ FlattenSeq(s) = f[Len(s)]
<1> DEFINE n == Len(s)
           Fits(k, f) == f = [i \in 1..k |-> IF i = 1 THEN s[i] ELSE f[i-1] \o s[i]]
           Built == { k \in 0..n : \E f : Fits(k, f) }
<1>1. n \in Nat /\ n # 0 /\ \A i \in 1..n : s[i] \in Seq(S)
  OBVIOUS
<1>2. ASSUME NEW k \in 1..n, k - 1 \in Built
      PROVE  k \in Built
  <2>1. PICK f : Fits(k - 1, f)
    BY <1>2
  <2> DEFINE g == [i \in 1..k |-> IF i = k THEN IF k = 1 THEN s[k] ELSE f[k-1] \o s[k] ELSE f[i]]
  <2>2. ASSUME NEW i \in 1..k
        PROVE  g[i] = IF i = 1 THEN s[i] ELSE g[i-1] \o s[i]
    <3>1. CASE i = k
      <4>1. i # 1 => i - 1 \in 1..k /\ i - 1 # k
        BY <1>1
      <4> QED
        BY <3>1, <4>1
    <3>2. CASE i # k
      <4>1. i \in 1..(k-1)
        BY <3>2, <1>1
      <4>2. f[i] = IF i = 1 THEN s[i] ELSE f[i-1] \o s[i]
        BY <4>1, <2>1
      <4>3. i # 1 => i - 1 \in 1..k /\ i - 1 # k
        BY <4>1
      <4> QED
        BY <3>2, <4>2, <4>3
    <3> QED
      BY <3>1, <3>2
  <2>3. g = [i \in 1..k |-> g[i]]
    OBVIOUS
  <2> HIDE DEF g
  <2>4. Fits(k, g)
    BY <2>2, <2>3
  <2>5. k \in 0..n
    BY <1>1
  <2> QED
    BY <2>4, <2>5
<1>3. 0 \in Built
  <2> DEFINE g == [i \in 1..0 |-> 0]
  <2>1. Fits(0, g) /\ 0 \in 0..n
    BY <1>1
  <2> HIDE DEF g, Fits
  <2> QED
    BY <2>1
<1>4. \E f : Fits(n, f)
  <2>1. n \in 0..n
    BY <1>1
  <2> HIDE DEF Built, n
  <2>2. \A k \in 0..n : k \in Built
    BY <1>1, <1>2, <1>3, UpTo
  <2> QED
    BY <2>1, <2>2 DEF Built
<1> DEFINE f == CHOOSE f : Fits(n, f)
<1>5. Fits(n, f)
  BY <1>4
<1>6. FlattenSeq(s) = f[n]
  BY <1>1 DEF FlattenSeq
<1> HIDE DEF f
<1>7. \A i \in 1..n : f[i] = IF i = 1 THEN s[i] ELSE f[i-1] \o s[i]
  BY <1>5
<1>8. f[1] = s[1] /\ \A i \in 2..n : f[i] = f[i-1] \o s[i]
  <2>1. 1 \in 1..n /\ \A i \in 2..n : i \in 1..n /\ i # 1
    BY <1>1
  <2> QED
    BY <1>7, <2>1
<1>9. \A i \in 1..n : f[i] \in Seq(S)
  <2> DEFINE Typed == {0} \cup { i \in 1..n : f[i] \in Seq(S) }
  <2>1. ASSUME NEW k \in 1..n, k - 1 \in Typed
        PROVE  k \in Typed
    <3>1. CASE k = 1
      BY <3>1, <1>1, <1>8
    <3>2. CASE k # 1
      <4>1. f[k-1] \in Seq(S) /\ k \in 2..n /\ s[k] \in Seq(S)
        BY <3>2, <2>1, <1>1
      <4>2. f[k] = f[k-1] \o s[k]
        BY <4>1, <1>8
      <4>3. f[k] \in Seq(S)
        BY <4>1, <4>2, ConcatProperties
      <4> QED
        BY <4>3
    <3> QED
      BY <3>1, <3>2
  <2>2. 0 \in Typed
    OBVIOUS
  <2>3. \A k \in 0..n : k \in Typed
    <3> HIDE DEF Typed, n
    <3> QED
      BY <1>1, <2>1, <2>2, UpTo
  <2> QED
    BY <2>3
<1>10. f \in [1..n -> Seq(S)]
  BY <1>5, <1>9
<1> QED
  BY <1>6, <1>8, <1>10

-----------------------------------------------------------------------------
(* The operations of a stage.  A plan says stroke by stroke which key is    *)
(* pressed under which modifiers; from an operation alone one can tell the *)
(* keys that are down when its turn comes, and how many strokes are done.  *)

PressedKeys == ModifierKeys \cup PrintingKeys \cup {"KEY_ENTER", "KEY_BACKSPACE", "KEY_V"}
Planned == [key : PressedKeys \ ModifierKeys, mods : SUBSET ModifierClasses]
Operation == [key : PressedKeys, down : BOOLEAN, at : Nat]

StrokeOps(s, i) ==
  LET shift == Around("KEY_LEFTSHIFT", "Shift" \in s.mods, i)
      altgr == Around("KEY_RIGHTALT", "AltGr" \in s.mods, i)
  IN shift[1] \o altgr[1] \o Press(s.key, i) \o altgr[2] \o shift[2]

ShiftOf(s) == IF "Shift" \in s.mods THEN {"KEY_LEFTSHIFT"} ELSE {}
AltGrOf(s) == IF "AltGr" \in s.mods THEN {"KEY_RIGHTALT"} ELSE {}
Itself(o) == IF o.down THEN {} ELSE {o.key}
HeldAt(p, o) ==
  IF o.key = "KEY_LEFTSHIFT" THEN Itself(o)
  ELSE IF o.key = "KEY_RIGHTALT" THEN ShiftOf(p[o.at]) \cup Itself(o)
  ELSE ShiftOf(p[o.at]) \cup AltGrOf(p[o.at]) \cup Itself(o)
HeldPast(p, o) == IF o.down THEN HeldAt(p, o) \cup {o.key} ELSE HeldAt(p, o) \ {o.key}
TypedAt(o) == IF o.down THEN o.at - 1 ELSE o.at
TypedPast(o) == IF o.down /\ o.key \notin ModifierKeys THEN o.at ELSE TypedAt(o)

OfPlan(p, o) ==
  /\ o.at \in 1..Len(p)
  /\ \/ o.key = p[o.at].key
     \/ o.key = "KEY_LEFTSHIFT" /\ "Shift" \in p[o.at].mods
     \/ o.key = "KEY_RIGHTALT" /\ "AltGr" \in p[o.at].mods
Follows(p, o, next) == HeldAt(p, next) = HeldPast(p, o) /\ TypedAt(next) = TypedPast(o)
InPlan(p, q) ==
  /\ q \in Seq(Operation)
  /\ \A x \in 1..Len(q) : OfPlan(p, q[x])
  /\ \A x \in 1..(Len(q) - 1) : Follows(p, q[x], q[x+1])

(* Operations that begin with the keys of h down and i strokes done, and    *)
(* end with the keys of g down and j done.                                 *)
Leads(p, q, h, i, g, j) ==
  /\ InPlan(p, q)
  /\ q = <<>> => h = g /\ i = j
  /\ q # <<>> => /\ HeldAt(p, q[1]) = h /\ TypedAt(q[1]) = i
                 /\ HeldPast(p, q[Len(q)]) = g /\ TypedPast(q[Len(q)]) = j

LEMMA TwoParts ==
  ASSUME NEW p, NEW a, NEW b, NEW h, NEW i, NEW g, NEW j, NEW f, NEW k,
         Leads(p, a, h, i, g, j), Leads(p, b, g, j, f, k)
  PROVE  Leads(p, a \o b, h, i, f, k)
<1>1. a \in Seq(Operation) /\ b \in Seq(Operation)
  BY DEF Leads, InPlan
<1>2. CASE a = <<>>
  <2>1. a \o b = b
    BY <1>1, <1>2, ConcatEmptySeq
  <2> QED
    BY <2>1, <1>2 DEF Leads
<1>3. CASE b = <<>>
  <2>1. a \o b = a
    BY <1>1, <1>3, ConcatEmptySeq
  <2> QED
    BY <2>1, <1>3 DEF Leads
<1>4. CASE a # <<>> /\ b # <<>>
  <2> DEFINE q == a \o b
             m == Len(a)
  <2>1. /\ q \in Seq(Operation) /\ Len(q) = m + Len(b) /\ m \in Nat \ {0} /\ Len(b) \in Nat \ {0}
        /\ \A x \in 1..m : q[x] = a[x]
        /\ \A x \in 1..Len(b) : q[m + x] = b[x]
    BY <1>1, <1>4
  <2> HIDE DEF q, m
  <2>2. ASSUME NEW x \in 1..Len(q) PROVE OfPlan(p, q[x])
    <3>1. CASE x <= m
      <4>1. x \in 1..m /\ q[x] = a[x]
        BY <2>1, <3>1
      <4> QED
        BY <4>1 DEF Leads, InPlan, m
    <3>2. CASE x > m
      <4>1. x - m \in 1..Len(b) /\ x = m + (x - m)
        BY <2>1, <3>2
      <4>2. q[x] = b[x - m]
        BY <2>1, <4>1
      <4> QED
        BY <4>1, <4>2 DEF Leads, InPlan
    <3> QED
      BY <3>1, <3>2, <2>1
  <2>3. Follows(p, q[m], q[m + 1])
    <3>1. q[m] = a[m] /\ q[m + 1] = b[1]
      BY <2>1
    <3> QED
      BY <3>1, <1>4 DEF Leads, Follows, m
  <2>4. ASSUME NEW x \in 1..(Len(q) - 1) PROVE Follows(p, q[x], q[x+1])
    <3>1. CASE x < m
      <4>1. x \in 1..(m - 1) /\ q[x] = a[x] /\ q[x+1] = a[x+1]
        BY <2>1, <3>1
      <4> QED
        BY <4>1 DEF Leads, InPlan, m
    <3>2. CASE x > m
      <4> DEFINE y == x - m
      <4>1. y \in 1..(Len(b) - 1) /\ y + 1 \in 1..Len(b) /\ x = m + y /\ x + 1 = m + (y + 1)
        BY <2>1, <3>2
      <4>2. q[x] = b[y] /\ q[x+1] = b[y+1]
        BY <2>1, <4>1
      <4> QED
        BY <4>1, <4>2 DEF Leads, InPlan
    <3> QED
      BY <3>1, <3>2, <2>1, <2>3
  <2>5. q[1] = a[1] /\ q[Len(q)] = b[Len(b)] /\ q # <<>>
    BY <2>1
  <2>6. InPlan(p, q)
    BY <2>1, <2>2, <2>4 DEF InPlan
  <2>7. Leads(p, q, h, i, f, k)
    BY <2>5, <2>6, <1>4 DEF Leads
  <2> QED
    BY <2>7 DEF q
<1> QED
  BY <1>2, <1>3, <1>4

LEMMA Pair == \A d, u : <<d, u>> = <<d>> \o <<u>>
<1> TAKE d, u
<1> DEFINE S == {d, u}
           a == <<d>>
           b == <<u>>
           c == <<d, u>>
<1>1. a \in Seq(S) /\ b \in Seq(S) /\ c \in Seq(S) /\ Len(a) = 1 /\ Len(b) = 1 /\ Len(c) = 2
  OBVIOUS
<1>2. a[1] = d /\ b[1] = u /\ c[1] = d /\ c[2] = u
  OBVIOUS
<1> HIDE DEF S, a, b, c
<1>3. /\ a \o b \in Seq(S) /\ Len(a \o b) = Len(a) + Len(b)
      /\ \A x \in 1..(Len(a) + Len(b)) : (a \o b)[x] = IF x <= Len(a) THEN a[x] ELSE b[x - Len(a)]
  BY <1>1, ConcatProperties, Zenon
<1>4. Len(a \o b) = 2 /\ 1 \in 1..(Len(a) + Len(b)) /\ 2 \in 1..(Len(a) + Len(b))
  BY <1>1, <1>3
<1>5. (a \o b)[1] = d /\ (a \o b)[2] = u
  <2>1. (a \o b)[1] = IF 1 <= Len(a) THEN a[1] ELSE b[1 - Len(a)]
    BY <1>3, <1>4
  <2>2. (a \o b)[2] = IF 2 <= Len(a) THEN a[2] ELSE b[2 - Len(a)]
    BY <1>3, <1>4
  <2>3. 1 <= 1 /\ ~(2 <= 1) /\ 2 - 1 = 1
    OBVIOUS
  <2> QED
    BY <1>1, <1>2, <2>1, <2>2, <2>3
<1>6. a \o b = c
  BY <1>1, <1>2, <1>3, <1>4, <1>5, SeqEqual
<1> QED
  BY <1>6 DEF a, b, c

LEMMA NoOperation ==
  ASSUME NEW p, NEW h, NEW i
  PROVE  Leads(p, <<>>, h, i, h, i)
BY DEF Leads, InPlan

LEMMA OneOperation ==
  ASSUME NEW p, NEW o \in Operation, OfPlan(p, o)
  PROVE  Leads(p, <<o>>, HeldAt(p, o), TypedAt(o), HeldPast(p, o), TypedPast(o))
<1> DEFINE q == <<o>>
<1>1. q \in Seq(Operation) /\ Len(q) = 1 /\ q[1] = o /\ q # <<>>
  OBVIOUS
<1> HIDE DEF q
<1>2. InPlan(p, q)
  BY <1>1 DEF InPlan
<1>3. Leads(p, q, HeldAt(p, o), TypedAt(o), HeldPast(p, o), TypedPast(o))
  BY <1>1, <1>2 DEF Leads
<1> QED
  BY <1>3 DEF q

LEMMA OneKey ==
  ASSUME NEW p \in Seq(Planned), NEW i \in 1..Len(p), NEW key, NEW h,
         \/ key = p[i].key /\ h = ShiftOf(p[i]) \cup AltGrOf(p[i])
         \/ key = "KEY_LEFTSHIFT" /\ "Shift" \in p[i].mods /\ h = {}
         \/ key = "KEY_RIGHTALT" /\ "AltGr" \in p[i].mods /\ h = ShiftOf(p[i])
  PROVE  /\ Leads(p, <<Down(key, i)>>, h, i - 1, h \cup {key}, IF key \in ModifierKeys THEN i - 1 ELSE i)
         /\ Leads(p, <<Up(key, i)>>, h \cup {key}, i, h, i)
<1> DEFINE s == p[i]
           d == Down(key, i)
           u == Up(key, i)
<1>1. s \in Planned /\ i \in Nat
  OBVIOUS
<1>2. s.key \in PressedKeys /\ s.key \notin ModifierKeys
  BY <1>1 DEF Planned
<1>3. {"KEY_LEFTSHIFT", "KEY_RIGHTALT"} \subseteq ModifierKeys
  BY DEF ModifierKeys, ModifierClass
<1>4. key \in PressedKeys /\ key \notin h
  <2>1. "KEY_LEFTSHIFT" # "KEY_RIGHTALT" /\ ShiftOf(s) \subseteq {"KEY_LEFTSHIFT"} /\ AltGrOf(s) \subseteq {"KEY_RIGHTALT"}
    BY DEF ShiftOf, AltGrOf
  <2>2. s.key # "KEY_LEFTSHIFT" /\ s.key # "KEY_RIGHTALT"
    BY <1>2, <1>3
  <2>3. h \subseteq {"KEY_LEFTSHIFT", "KEY_RIGHTALT"}
    BY <2>1
  <2>4. key \in PressedKeys
    BY <1>2, <1>3 DEF PressedKeys
  <2>5. CASE key = s.key
    BY <2>2, <2>3, <2>4, <2>5
  <2>6. CASE h = {} \/ (key = "KEY_RIGHTALT" /\ h = ShiftOf(s))
    BY <2>1, <2>4, <2>6
  <2> QED
    BY <2>4, <2>5, <2>6
<1>5. /\ d \in Operation /\ d.key = key /\ d.at = i /\ d.down = TRUE
      /\ u \in Operation /\ u.key = key /\ u.at = i /\ u.down = FALSE
  BY <1>1, <1>4 DEF Operation, Down, Up
<1> HIDE DEF d, u
<1>6. OfPlan(p, d) /\ OfPlan(p, u)
  BY <1>5 DEF OfPlan
<1>7. Itself(d) = {} /\ Itself(u) = {key}
  BY <1>5 DEF Itself
<1>8. HeldAt(p, d) = h /\ HeldAt(p, u) = h \cup {key}
  <2>1. CASE key = s.key /\ h = ShiftOf(s) \cup AltGrOf(s)
    BY <1>2, <1>3, <1>5, <1>7, <2>1 DEF HeldAt
  <2>2. CASE key = "KEY_LEFTSHIFT" /\ h = {}
    BY <1>5, <1>7, <2>2 DEF HeldAt
  <2>3. CASE key = "KEY_RIGHTALT" /\ h = ShiftOf(s)
    BY <1>5, <1>7, <2>3 DEF HeldAt
  <2> QED
    BY <2>1, <2>2, <2>3
<1>9. HeldPast(p, d) = h \cup {key} /\ HeldPast(p, u) = h
  BY <1>4, <1>5, <1>8 DEF HeldPast
<1>10. /\ TypedAt(d) = i - 1 /\ TypedPast(d) = (IF key \in ModifierKeys THEN i - 1 ELSE i)
       /\ TypedAt(u) = i /\ TypedPast(u) = i
  BY <1>5 DEF TypedAt, TypedPast
<1>11. Leads(p, <<d>>, HeldAt(p, d), TypedAt(d), HeldPast(p, d), TypedPast(d))
  BY <1>5, <1>6, OneOperation
<1>12. Leads(p, <<u>>, HeldAt(p, u), TypedAt(u), HeldPast(p, u), TypedPast(u))
  BY <1>5, <1>6, OneOperation
<1>13. /\ Leads(p, <<d>>, h, i - 1, h \cup {key}, IF key \in ModifierKeys THEN i - 1 ELSE i)
       /\ Leads(p, <<u>>, h \cup {key}, i, h, i)
  BY <1>8, <1>9, <1>10, <1>11, <1>12
<1> QED
  BY <1>13 DEF d, u

LEMMA OneStroke ==
  ASSUME NEW p \in Seq(Planned), NEW i \in 1..Len(p)
  PROVE  Leads(p, StrokeOps(p[i], i), {}, i - 1, {}, i)
<1> DEFINE s == p[i]
           k == s.key
           LS == "KEY_LEFTSHIFT"
           RA == "KEY_RIGHTALT"
           h == ShiftOf(s)
           g == ShiftOf(s) \cup AltGrOf(s)
           shift == Around(LS, "Shift" \in s.mods, i)
           altgr == Around(RA, "AltGr" \in s.mods, i)
<1>1. k \notin ModifierKeys /\ LS \in ModifierKeys /\ RA \in ModifierKeys
  <2>1. s \in Planned
    OBVIOUS
  <2> QED
    BY <2>1 DEF Planned, ModifierKeys, ModifierClass
<1>2. Leads(p, Press(k, i), g, i - 1, g, i)
  <2>1. Leads(p, <<Down(k, i)>>, g, i - 1, g \cup {k}, i) /\ Leads(p, <<Up(k, i)>>, g \cup {k}, i, g, i)
    BY <1>1, OneKey
  <2>2. Press(k, i) = <<Down(k, i)>> \o <<Up(k, i)>>
    BY Pair DEF Press
  <2>3. Leads(p, <<Down(k, i)>> \o <<Up(k, i)>>, g, i - 1, g, i)
    <3> HIDE DEF g, k
    <3> QED
      BY <2>1, TwoParts
  <2> QED
    BY <2>2, <2>3
<1>3. Leads(p, shift[1], {}, i - 1, h, i - 1) /\ Leads(p, shift[2], h, i, {}, i)
  <2>1. CASE "Shift" \notin s.mods
    <3>1. shift[1] = <<>> /\ shift[2] = <<>> /\ h = {}
      BY <2>1 DEF Around, ShiftOf
    <3> QED
      BY <3>1, NoOperation
  <2>2. CASE "Shift" \in s.mods
    <3>1. shift[1] = <<Down(LS, i)>> /\ shift[2] = <<Up(LS, i)>> /\ h = {} \cup {LS}
      BY <2>2 DEF Around, ShiftOf
    <3>2. Leads(p, <<Down(LS, i)>>, {}, i - 1, {} \cup {LS}, i - 1) /\ Leads(p, <<Up(LS, i)>>, {} \cup {LS}, i, {}, i)
      BY <1>1, <2>2, OneKey
    <3> QED
      BY <3>1, <3>2
  <2> QED
    BY <2>1, <2>2
<1>4. Leads(p, altgr[1], h, i - 1, g, i - 1) /\ Leads(p, altgr[2], g, i, h, i)
  <2>1. CASE "AltGr" \notin s.mods
    <3>1. altgr[1] = <<>> /\ altgr[2] = <<>> /\ h = g
      BY <2>1 DEF Around, AltGrOf
    <3> QED
      BY <3>1, NoOperation
  <2>2. CASE "AltGr" \in s.mods
    <3>1. altgr[1] = <<Down(RA, i)>> /\ altgr[2] = <<Up(RA, i)>> /\ g = h \cup {RA}
      BY <2>2 DEF Around, AltGrOf
    <3>2. Leads(p, <<Down(RA, i)>>, h, i - 1, h \cup {RA}, i - 1) /\ Leads(p, <<Up(RA, i)>>, h \cup {RA}, i, h, i)
      BY <1>1, <2>2, OneKey
    <3> QED
      BY <3>1, <3>2
  <2> QED
    BY <2>1, <2>2
<1>5. StrokeOps(s, i) = shift[1] \o altgr[1] \o Press(k, i) \o altgr[2] \o shift[2]
  BY DEF StrokeOps
<1> HIDE DEF shift, altgr, g, h, k, s
<1>6. Leads(p, shift[1] \o altgr[1], {}, i - 1, g, i - 1)
  BY <1>3, <1>4, TwoParts
<1>7. Leads(p, shift[1] \o altgr[1] \o Press(k, i), {}, i - 1, g, i)
  BY <1>2, <1>6, TwoParts
<1>8. Leads(p, shift[1] \o altgr[1] \o Press(k, i) \o altgr[2], {}, i - 1, h, i)
  BY <1>4, <1>7, TwoParts
<1>9. Leads(p, shift[1] \o altgr[1] \o Press(k, i) \o altgr[2] \o shift[2], {}, i - 1, {}, i)
  BY <1>3, <1>8, TwoParts
<1>10. Leads(p, StrokeOps(s, i), {}, i - 1, {}, i)
  BY <1>5, <1>9
<1> QED
  BY <1>10 DEF s

(* A plan, carried out.                                                    *)
LEMMA WholePlan ==
  ASSUME NEW p \in Seq(Planned), NEW s, s = [i \in 1..Len(p) |-> StrokeOps(p[i], i)]
  PROVE  Leads(p, FlattenSeq(s), {}, 0, {}, Len(p))
<1> DEFINE n == Len(p)
<1>1. n \in Nat /\ \A i \in 1..n : s[i] = StrokeOps(p[i], i)
  OBVIOUS
<1>2. s \in Seq(Seq(Operation)) /\ Len(s) = n
  <2>1. \A i \in 1..n : s[i] \in Seq(Operation)
    BY <1>1, OneStroke DEF Leads, InPlan
  <2> QED
    BY <1>1, <2>1
<1>3. CASE s = <<>>
  <2>1. n = 0 /\ FlattenSeq(s) = <<>>
    BY <1>2, <1>3 DEF FlattenSeq
  <2> QED
    BY <2>1, NoOperation
<1>4. CASE s # <<>>
  <2>1. PICK f \in [1..n -> Seq(Operation)] :
           /\ f[1] = s[1]
           /\ \A i \in 2..n : f[i] = f[i-1] \o s[i]
           /\ FlattenSeq(s) = f[n]
    <3>1. s \in Seq(Seq(Operation)) /\ Len(s) = n
      BY <1>2
    <3> HIDE DEF n
    <3> QED
      BY <3>1, <1>4, FlattenedPrefixes
  <2> DEFINE Reached == {0} \cup { i \in 1..n : Leads(p, f[i], {}, 0, {}, i) }
  <2>2. ASSUME NEW i \in 1..n, i - 1 \in Reached
        PROVE  i \in Reached
    <3>1. Leads(p, s[i], {}, i - 1, {}, i)
      BY <1>1, OneStroke
    <3>2. CASE i = 1
      BY <2>1, <3>1, <3>2
    <3>3. CASE i # 1
      <4>1. i \in 2..n /\ Leads(p, f[i-1], {}, 0, {}, i - 1)
        BY <2>2, <3>3
      <4>2. Leads(p, f[i-1] \o s[i], {}, 0, {}, i)
        BY <3>1, <4>1, TwoParts
      <4> QED
        BY <2>1, <4>1, <4>2
    <3> QED
      BY <3>2, <3>3
  <2>3. 0 \in Reached
    OBVIOUS
  <2>4. n \in 1..n /\ n # 0
    BY <1>1, <1>2, <1>4
  <2>5. \A i \in 0..n : i \in Reached
    <3> HIDE DEF Reached, n
    <3> QED
      BY <1>1, <2>2, <2>3, UpTo
  <2> QED
    BY <2>1, <2>4, <2>5
<1> QED
  BY <1>3, <1>4

-----------------------------------------------------------------------------
(* What is true of every stage.                                            *)

Backends == {"uinput", "wtype", "clipboard"}
Ground ==
  /\ edit.restore \in Seq(STRING) /\ edit.text \in Seq(STRING) /\ caps \in BOOLEAN
  /\ backends \in [{"expander", "corrector"} -> Seq(Backends)]

TypePlan(text) == [i \in 1..Len(text) |-> [key |-> ReverseKey[text[i]].key, mods |-> Mods(text[i])]]
DeletePlan(n)  == [i \in 1..n |-> [key |-> "KEY_BACKSPACE", mods |-> {}]]

Releases(q) == q \in Seq(Operation) /\ \A x \in 1..Len(q) : ~q[x].down /\ q[x].key \in ModifierKeys

(* The stage carries out the plan p: until something fails what is left     *)
(* leads to the plan's end, and after that only modifiers are released.    *)
DueKeys(p) == IF ops = <<>> THEN {} ELSE HeldAt(p, ops[1])
Working(p) ==
  /\ p \in Seq(Planned) /\ emitted \in 0..Len(p)
  /\ IF failed = "no"
     THEN /\ Leads(p, ops, DueKeys(p), emitted, {}, Len(p))
          /\ clean => held = DueKeys(p)
     ELSE Releases(ops)

Shows(text) == clean => screen = Before \o text
Upto(text, n) == SubSeq(text, 1, n)

Deleting ==
  stage = "delete" =>
    /\ Working(DeletePlan(Len(edit.restore)))
    /\ Shows(Upto(edit.restore, Len(edit.restore) - emitted))
    /\ selected \in Backends
    /\ selected = "uinput" => Typeable(edit.text)
TypingText ==
  stage = "type" =>
    /\ selected = "uinput" /\ Typeable(edit.text)
    /\ Working(TypePlan(edit.text))
    /\ failed = "safe" => emitted = 0
    /\ Shows(Upto(edit.text, emitted))
PuttingBack ==
  stage = "restore" =>
    \E k \in 0..Len(edit.restore) :
      /\ Typeable(LastRunes(edit.restore, k))
      /\ Working(TypePlan(LastRunes(edit.restore, k)))
      /\ selected # "wtype" => Shows(Upto(edit.restore, Len(edit.restore) - k + emitted))
Waiting ==
  stage \in {"wtype", "begin", "copy", "abort"} =>
    /\ selected = IF stage = "wtype" THEN "wtype" ELSE "clipboard"
    /\ ops = <<>> /\ Shows(<<>>)
    /\ clean /\ stage # "abort" => held = {}
PasteKeys ==
  stage = "paste" =>
    /\ selected = "clipboard"
    /\ ~supplanted => clip = edit.text
    /\ \/ /\ failed = "no" /\ ops = PasteOps
          /\ Shows(<<>>) /\ (clean => held = {})
       \/ /\ failed = "no" /\ ops = Tail(PasteOps)
          /\ Shows(<<>>) /\ (clean => held = {"KEY_LEFTCTRL"})
       \/ /\ failed = "no" /\ ops = Tail(Tail(PasteOps))
          /\ ~supplanted => Shows(edit.text)
          /\ clean => held = {"KEY_LEFTCTRL", "KEY_V"}
       \/ /\ failed = "no" /\ ops = Tail(Tail(Tail(PasteOps)))
          /\ ~supplanted => Shows(edit.text)
          /\ clean => held = {"KEY_LEFTCTRL"}
       \/ /\ failed = "no" /\ ops = <<>>
          /\ ~supplanted => Shows(edit.text)
          /\ clean => held = {}
       \/ /\ failed = "safe" /\ Releases(ops) /\ Shows(<<>>)
       \/ /\ failed = "partial" /\ Releases(ops)
          /\ ~supplanted => Shows(<<>>) \/ Shows(edit.text)
Resting == stage = "idle" => ops = <<>> /\ OutcomeIsTrue

Stages == {"idle", "delete", "type", "wtype", "begin", "copy", "paste", "abort", "restore"}
OutputInv ==
  /\ Ground /\ stage \in Stages /\ failed \in {"no", "safe", "partial"}
  /\ Deleting /\ TypingText /\ PuttingBack /\ Waiting /\ PasteKeys /\ Resting

(* Of one failing operation: the keys that are not modifiers.              *)
TextHeld == held \ (ModifierKeys \cup {"KEY_V"})
KeyInv ==
  /\ faults \in 0..MaxFaults
  /\ retried \/ failed # "no" => faults < MaxFaults
  /\ MaxFaults - faults <= 1 =>
       TextHeld \subseteq IF ops # <<>> /\ ~ops[1].down THEN {ops[1].key} ELSE {}

-----------------------------------------------------------------------------
(* Plans.                                                                  *)

LEMMA TailLeads ==
  ASSUME NEW p, NEW q, NEW h, NEW i, NEW g, NEW j, Leads(p, q, h, i, g, j), q # <<>>
  PROVE  /\ HeldAt(p, q[1]) = h /\ TypedAt(q[1]) = i /\ OfPlan(p, q[1]) /\ q[1] \in Operation
         /\ Leads(p, Tail(q), HeldPast(p, q[1]), TypedPast(q[1]), g, j)
         /\ Tail(q) # <<>> => Follows(p, q[1], Tail(q)[1])
<1> DEFINE r == Tail(q)
<1>1. q \in Seq(Operation) /\ Len(q) \in Nat \ {0}
  BY DEF Leads, InPlan
<1>2. /\ r \in Seq(Operation) /\ Len(r) = Len(q) - 1
      /\ \A x \in 1..Len(r) : r[x] = q[x+1]
  BY <1>1, HeadTailProperties
<1> HIDE DEF r
<1>3. InPlan(p, r)
  <2>1. ASSUME NEW x \in 1..Len(r) PROVE OfPlan(p, r[x])
    <3>1. x + 1 \in 1..Len(q) /\ r[x] = q[x+1]
      BY <1>1, <1>2
    <3> QED
      BY <3>1 DEF Leads, InPlan
  <2>2. ASSUME NEW x \in 1..(Len(r) - 1) PROVE Follows(p, r[x], r[x+1])
    <3>1. x + 1 \in 1..(Len(q) - 1) /\ r[x] = q[x+1] /\ r[x+1] = q[x+1+1]
      BY <1>1, <1>2
    <3> QED
      BY <3>1 DEF Leads, InPlan
  <2> QED
    BY <1>2, <2>1, <2>2 DEF InPlan
<1>4. OfPlan(p, q[1]) /\ q[1] \in Operation /\ HeldAt(p, q[1]) = h /\ TypedAt(q[1]) = i
  BY <1>1 DEF Leads, InPlan
<1>5. CASE r = <<>>
  <2>1. Len(q) = 1
    BY <1>1, <1>2, <1>5
  <2>2. HeldPast(p, q[1]) = g /\ TypedPast(q[1]) = j
    BY <2>1 DEF Leads
  <2> QED
    BY <1>3, <1>4, <1>5, <2>2 DEF Leads, r
<1>6. CASE r # <<>>
  <2>1. Len(r) \in Nat \ {0} /\ 1 \in 1..(Len(q) - 1)
    BY <1>1, <1>2, <1>6
  <2>2. r[1] = q[2] /\ r[Len(r)] = q[Len(q)] /\ 1 + 1 = 2
    BY <1>1, <1>2, <2>1
  <2>3. Follows(p, q[1], r[1])
    BY <2>1, <2>2 DEF Leads, InPlan
  <2>4. Leads(p, r, HeldPast(p, q[1]), TypedPast(q[1]), g, j)
    BY <1>3, <1>6, <2>2, <2>3 DEF Leads, Follows
  <2> QED
    BY <1>4, <2>3, <2>4 DEF r
<1> QED
  BY <1>5, <1>6

LEMMA TextMembers ==
  ASSUME NEW text \in Seq(STRING), Typeable(text)
  PROVE  \A i \in 1..Len(text) : text[i] \in DOMAIN ReverseKey
<1> HIDE DEF ReverseKey
<1> QED
  BY DEF Typeable, Range

LEMMA MainKeys == \A k \in PrintingKeys \cup {"KEY_ENTER", "KEY_BACKSPACE", "KEY_V"} : k \notin ModifierKeys
BY DEF PrintingKeys, Chars, ModifierKeys, ModifierClass

LEMMA TypePlanned ==
  ASSUME NEW text \in Seq(STRING), Typeable(text)
  PROVE  /\ TypePlan(text) \in Seq(Planned) /\ Len(TypePlan(text)) = Len(text)
         /\ Leads(TypePlan(text), TypeOps(text), {}, 0, {}, Len(text))
<1> DEFINE p == TypePlan(text)
<1>1. \A i \in 1..Len(text) : [key |-> ReverseKey[text[i]].key, mods |-> Mods(text[i]) \cap ModifierClasses] \in Planned
  <2> TAKE i \in 1..Len(text)
  <2>1. ReverseKey[text[i]].key \in PrintingKeys \cup {"KEY_ENTER"}
    BY TextMembers, TableStroke
  <2> QED
    BY <2>1, MainKeys DEF Planned, PressedKeys
<1>2. \A i \in 1..Len(text) : Mods(text[i]) \subseteq ModifierClasses
  <2> TAKE i \in 1..Len(text)
  <2>1. ReverseKey[text[i]].mods \subseteq ModifierClasses
    BY TextMembers, TableStroke
  <2>2. {"Shift"} \subseteq ModifierClasses
    BY DEF ModifierClasses
  <2> HIDE DEF ReverseKey
  <2> QED
    BY <2>1, <2>2 DEF Mods, SymDiff
<1>3. \A i \in 1..Len(text) : [key |-> ReverseKey[text[i]].key, mods |-> Mods(text[i])] \in Planned
  <2> TAKE i \in 1..Len(text)
  <2>1. Mods(text[i]) \cap ModifierClasses = Mods(text[i])
    BY <1>2
  <2> QED
    BY <1>1, <2>1
<1>4. p \in Seq(Planned) /\ Len(p) = Len(text) /\ Len(text) \in Nat
  BY <1>3 DEF TypePlan
<1>5. TypeOps(text) = FlattenSeq([i \in 1..Len(p) |-> StrokeOps(p[i], i)])
  <2>1. \A i \in 1..Len(text) : Stroke(text[i], i) = StrokeOps(p[i], i)
    BY DEF Stroke, StrokeOps, TypePlan
  <2>2. DOMAIN text = 1..Len(p)
    BY <1>4
  <2>3. [i \in DOMAIN text |-> Stroke(text[i], i)] = [i \in 1..Len(p) |-> StrokeOps(p[i], i)]
    BY <1>4, <2>1, <2>2
  <2> QED
    BY <2>3 DEF TypeOps
<1> HIDE DEF p
<1>6. Leads(p, TypeOps(text), {}, 0, {}, Len(p))
  BY <1>4, <1>5, WholePlan
<1> QED
  BY <1>4, <1>6 DEF p

LEMMA DeletePlanned ==
  ASSUME NEW n \in Nat
  PROVE  /\ DeletePlan(n) \in Seq(Planned) /\ Len(DeletePlan(n)) = n
         /\ Leads(DeletePlan(n), DeleteOps(n), {}, 0, {}, n)
<1> DEFINE p == DeletePlan(n)
           s == [key |-> "KEY_BACKSPACE", mods |-> {}]
<1>1. s \in Planned
  BY MainKeys DEF Planned, PressedKeys
<1>2. p \in Seq(Planned) /\ Len(p) = n /\ \A i \in 1..n : p[i] = s
  BY <1>1 DEF DeletePlan
<1>3. ASSUME NEW i \in 1..n
      PROVE  StrokeOps(s, i) = Press("KEY_BACKSPACE", i)
  <2> DEFINE k == "KEY_BACKSPACE"
  <2>1. StrokeOps(s, i) = <<>> \o <<>> \o Press(k, i) \o <<>> \o <<>>
    BY DEF StrokeOps, Around
  <2>2. Press(k, i) \in Seq({Down(k, i), Up(k, i)})
    BY DEF Press
  <2> HIDE DEF k, s
  <2>3. <<>> \o <<>> \o Press(k, i) \o <<>> \o <<>> = Press(k, i)
    BY <2>2, ConcatEmptySeq
  <2> QED
    BY <2>1, <2>3 DEF k
<1>4. DeleteOps(n) = FlattenSeq([i \in 1..Len(p) |-> StrokeOps(p[i], i)])
  <2>1. [i \in 1..n |-> Press("KEY_BACKSPACE", i)] = [i \in 1..Len(p) |-> StrokeOps(p[i], i)]
    BY <1>2, <1>3
  <2> QED
    BY <2>1 DEF DeleteOps
<1> HIDE DEF p
<1>5. Leads(p, DeleteOps(n), {}, 0, {}, Len(p))
  BY <1>2, <1>4, WholePlan
<1> QED
  BY <1>2, <1>5 DEF p

(* What a failed operation leaves to do.                                   *)
LEMMA CleanupReleases ==
  ASSUME NEW o \in Operation, NEW rest
  PROVE  Releases(Cleanup(o, rest))
<1> DEFINE Release(key) == IF /\ key # o.key /\ Up(key, o.at) \in Range(rest)
                              /\ Down(key, o.at) \notin Range(rest) THEN << Up(key, o.at) >> ELSE <<>>
<1>1. ASSUME NEW key \in {"KEY_RIGHTALT", "KEY_LEFTSHIFT", "KEY_LEFTCTRL"}
      PROVE  Releases(Release(key))
  <2>1. key \in ModifierKeys
    BY DEF ModifierKeys, ModifierClass
  <2> DEFINE u == Up(key, o.at)
  <2>2. u \in Operation /\ u.key = key /\ u.down = FALSE
    BY <2>1 DEF Up, Operation, PressedKeys
  <2> HIDE DEF u
  <2>3. Releases(<<u>>) /\ Releases(<<>>)
    BY <2>1, <2>2 DEF Releases
  <2> QED
    BY <2>3 DEF u
<1>2. ASSUME NEW a, NEW b, Releases(a), Releases(b)
      PROVE  Releases(a \o b)
  <2>1. a \in Seq(Operation) /\ b \in Seq(Operation)
    BY <1>2 DEF Releases
  <2>2. /\ a \o b \in Seq(Operation) /\ Len(a \o b) = Len(a) + Len(b)
        /\ \A x \in 1..(Len(a) + Len(b)) : (a \o b)[x] = IF x <= Len(a) THEN a[x] ELSE b[x - Len(a)]
    BY <2>1, ConcatProperties
  <2>3. ASSUME NEW x \in 1..Len(a \o b)
        PROVE  ~(a \o b)[x].down /\ (a \o b)[x].key \in ModifierKeys
    <3>1. Len(a) \in Nat /\ Len(b) \in Nat
      BY <2>1
    <3>2. CASE x <= Len(a)
      <4>1. x \in 1..Len(a) /\ (a \o b)[x] = a[x]
        BY <2>2, <3>1, <3>2
      <4> QED
        BY <1>2, <4>1 DEF Releases
    <3>3. CASE ~(x <= Len(a))
      <4>1. x - Len(a) \in 1..Len(b) /\ (a \o b)[x] = b[x - Len(a)]
        BY <2>2, <3>1, <3>3
      <4> QED
        BY <1>2, <4>1 DEF Releases
    <3> QED
      BY <3>2, <3>3
  <2> QED
    BY <2>2, <2>3 DEF Releases
<1>3. Cleanup(o, rest) = Release("KEY_RIGHTALT") \o Release("KEY_LEFTSHIFT") \o Release("KEY_LEFTCTRL")
  BY DEF Cleanup
<1> HIDE DEF Release
<1>4. Releases(Release("KEY_RIGHTALT") \o Release("KEY_LEFTSHIFT"))
  BY <1>1, <1>2
<1> QED
  BY <1>1, <1>2, <1>3, <1>4

(* A stage at its start, and what an operation does to it.                 *)
LEMMA StageStarts ==
  ASSUME NEW p \in Seq(Planned), NEW q, Leads(p, q, {}, 0, {}, Len(p)),
         ops' = q, emitted' = 0, failed' = "no", clean' => held' = {}
  PROVE  Working(p)'
<1>1. Len(p) \in Nat
  OBVIOUS
<1>2. DueKeys(p)' = {}
  BY DEF DueKeys, Leads
<1>3. Leads(p, ops', DueKeys(p)', emitted', {}, Len(p))
  BY <1>2
<1> QED
  BY <1>1, <1>2, <1>3 DEF Working

PressesNext(p) ==
  /\ failed = "no" /\ ops # <<>> /\ emitted + 1 \in 1..Len(p)
  /\ ops[1].key = p[emitted + 1].key /\ ops[1].down
  /\ emitted' = emitted + 1 /\ screen' = Effect(p[emitted + 1].key)
  /\ clean => held = ShiftOf(p[emitted + 1]) \cup AltGrOf(p[emitted + 1])

LEMMA KeyWorks ==
  ASSUME NEW p, Working(p), KeySucceeds
  PROVE  Working(p)' /\ (PressesNext(p) \/ UNCHANGED <<emitted, screen>>)
<1> DEFINE o == Head(ops)
           n == Len(p)
<1>1. /\ ops # <<>> /\ ops' = Tail(ops) /\ UNCHANGED <<failed, clean, caps, clip>>
      /\ held' = (IF o.down THEN held \cup {o.key} ELSE held \ {o.key})
      /\ screen' = (IF o.down THEN Effect(o.key) ELSE screen)
      /\ emitted' = emitted + (IF o.down /\ o.key \notin ModifierKeys THEN 1 ELSE 0)
  BY DEF KeySucceeds, clipVars
<1>2. p \in Seq(Planned) /\ emitted \in 0..n /\ n \in Nat
  BY DEF Working
<1>3. o.key \in ModifierKeys => screen' = screen /\ emitted' = emitted
  BY <1>1, <1>2 DEF Effect
<1>4. ~o.down => screen' = screen /\ emitted' = emitted
  BY <1>1, <1>2
<1>5. CASE failed = "no"
  <2>1. Leads(p, ops, DueKeys(p), emitted, {}, n) /\ (clean => held = DueKeys(p))
    BY <1>5 DEF Working
  <2>2. o = ops[1] /\ DueKeys(p) = HeldAt(p, o)
    <3>1. ops \in Seq(Operation)
      BY <2>1 DEF Leads, InPlan
    <3> QED
      BY <1>1, <3>1 DEF DueKeys
  <2> HIDE DEF o
  <2>3. /\ HeldAt(p, o) = DueKeys(p) /\ TypedAt(o) = emitted /\ OfPlan(p, o) /\ o \in Operation
        /\ Leads(p, ops', HeldPast(p, o), TypedPast(o), {}, n)
        /\ ops' # <<>> => Follows(p, o, ops'[1])
    BY <1>1, <2>1, <2>2, TailLeads
  <2>4. emitted' = TypedPast(o) /\ o.at \in 1..n
    <3>1. o.at \in 1..n /\ o.down \in BOOLEAN
      BY <2>3 DEF OfPlan, Operation
    <3> QED
      BY <1>1, <1>2, <2>3, <3>1 DEF TypedAt, TypedPast
  <2>5. emitted' \in 0..n
    BY <1>2, <2>4 DEF TypedPast, TypedAt
  <2>6. DueKeys(p)' = HeldPast(p, o)
    <3>1. CASE ops' = <<>>
      BY <2>3, <3>1 DEF DueKeys, Leads
    <3>2. CASE ops' # <<>>
      BY <2>3, <3>2 DEF DueKeys, Follows
    <3> QED
      BY <3>1, <3>2
  <2>7. clean' => held' = DueKeys(p)'
    BY <1>1, <2>1, <2>2, <2>6 DEF HeldPast
  <2>8. Working(p)'
    <3>1. Leads(p, ops', DueKeys(p)', emitted', {}, n)
      BY <2>3, <2>4, <2>6
    <3> QED
      BY <1>1, <1>2, <1>5, <2>5, <2>7, <3>1 DEF Working
  <2>9. CASE o.down /\ o.key \notin ModifierKeys
    <3>1. emitted + 1 = o.at /\ emitted' = emitted + 1
      BY <1>1, <1>2, <2>3, <2>4, <2>9 DEF TypedAt
    <3>2. o.key = p[o.at].key /\ o.key # "KEY_LEFTSHIFT" /\ o.key # "KEY_RIGHTALT"
      BY <2>3, <2>9 DEF OfPlan, ModifierKeys, ModifierClass
    <3>3. HeldAt(p, o) = ShiftOf(p[o.at]) \cup AltGrOf(p[o.at])
      BY <2>9, <3>2 DEF HeldAt, Itself
    <3>4. PressesNext(p)
      BY <1>1, <1>5, <2>1, <2>2, <2>4, <2>9, <3>1, <3>2, <3>3 DEF PressesNext
    <3> QED
      BY <2>8, <3>4
  <2> QED
    BY <1>3, <1>4, <2>8, <2>9 DEF o
<1>6. CASE failed # "no"
  <2>1. Releases(ops) /\ ops \in Seq(Operation)
    BY <1>6 DEF Working, Releases
  <2>2. o = ops[1] /\ 1 \in 1..Len(ops)
    BY <1>1, <2>1
  <2>3. ~o.down
    BY <2>1, <2>2 DEF Releases
  <2>4. Releases(ops')
    <3>1. ops' \in Seq(Operation) /\ \A x \in 1..Len(ops') : x + 1 \in 1..Len(ops) /\ ops'[x] = ops[x+1]
      BY <1>1, <2>1, HeadTailProperties
    <3> QED
      BY <2>1, <3>1 DEF Releases
  <2> QED
    BY <1>1, <1>2, <1>4, <1>6, <2>3, <2>4 DEF Working
<1> QED
  BY <1>5, <1>6

LEMMA KeyFailsWorks ==
  ASSUME NEW p, Working(p), KeyFails, failed \in {"no", "safe", "partial"},
         stage \in {"delete", "type", "restore"}
  PROVE  /\ Working(p)' /\ UNCHANGED <<emitted, screen>> /\ failed' \in {"no", "safe", "partial"}
         /\ failed' = "safe" => failed = "safe" \/ stage = "delete" \/ emitted = 0
<1> DEFINE o == Head(ops)
<1>1. ops # <<>> /\ UNCHANGED <<emitted, screen, held, clean, stage>>
  BY DEF KeyFails
<1>2. p \in Seq(Planned) /\ emitted \in 0..Len(p)
  BY DEF Working
<1>3. ops \in Seq(Operation)
  BY DEF Working, Leads, InPlan, Releases
<1>4. CASE failed # "no"
  <2>1. failed' = failed /\ ops' = Tail(ops)
    BY <1>4 DEF KeyFails
  <2>2. Releases(ops)
    BY <1>4 DEF Working
  <2>3. Releases(ops')
    <3>1. ops' \in Seq(Operation) /\ \A x \in 1..Len(ops') : x + 1 \in 1..Len(ops) /\ ops'[x] = ops[x+1]
      BY <1>1, <1>3, <2>1, HeadTailProperties
    <3> QED
      BY <2>2, <3>1 DEF Releases
  <2> QED
    BY <1>1, <1>2, <1>4, <2>1, <2>3 DEF Working
<1>5. CASE failed = "no" /\ Retries(o)
  <2>1. UNCHANGED <<failed, ops>>
    BY <1>5 DEF KeyFails
  <2> QED
    BY <1>1, <1>5, <2>1 DEF Working, DueKeys
<1>6. CASE failed = "no" /\ ~Retries(o)
  <2>1. failed' = FailureClass(o) /\ ops' = IF stage = "delete" THEN <<>> ELSE Cleanup(o, Tail(ops))
    BY <1>6 DEF KeyFails
  <2>2. Releases(ops')
    <3>1. o \in Operation
      BY <1>1, <1>3
    <3>2. Releases(<<>>)
      BY DEF Releases
    <3> HIDE DEF o
    <3> QED
      BY <2>1, <3>1, <3>2, CleanupReleases
  <2>3. failed' \in {"safe", "partial"} /\ (failed' = "safe" => stage = "delete" \/ emitted = 0)
    BY <2>1 DEF FailureClass
  <2> QED
    BY <1>1, <1>2, <2>2, <2>3 DEF Working
<1> QED
  BY <1>4, <1>5, <1>6

(* What the application shows.                                             *)
Signs == STRING \cup {"1"}

LEMMA BeforeSigns == Before \in Seq(Signs) /\ \A t \in Seq(STRING) : t \in Seq(Signs)
BY DEF Before, Signs

LEMMA UptoFacts ==
  ASSUME NEW t \in Seq(STRING)
  PROVE  /\ Upto(t, 0) = <<>> /\ Upto(t, Len(t)) = t
         /\ \A n \in 0..Len(t) : /\ Upto(t, n) \in Seq(STRING) /\ Len(Upto(t, n)) = n
                                 /\ \A i \in 1..n : Upto(t, n)[i] = t[i]
BY DEF Upto

LEMMA OneMore ==
  ASSUME NEW t \in Seq(STRING), NEW n \in 0..Len(t), n < Len(t)
  PROVE  Append(Before \o Upto(t, n), t[n + 1]) = Before \o Upto(t, n + 1)
<1> DEFINE a == Upto(t, n)
           b == Upto(t, n + 1)
<1>1. Len(t) \in Nat /\ n + 1 \in 0..Len(t) /\ n + 1 \in 1..Len(t)
  OBVIOUS
<1>2. /\ a \in Seq(STRING) /\ Len(a) = n /\ \A i \in 1..n : a[i] = t[i]
      /\ b \in Seq(STRING) /\ Len(b) = n + 1 /\ \A i \in 1..(n + 1) : b[i] = t[i]
  BY <1>1, UptoFacts
<1> HIDE DEF a, b
<1>3. /\ Before \o a \in Seq(Signs) /\ Before \o b \in Seq(Signs)
      /\ Before \in Seq(Signs) /\ Len(Before) = 1 /\ a \in Seq(Signs) /\ b \in Seq(Signs)
  <2>1. Len(Before) = 1
    BY DEF Before
  <2> QED
    BY <1>2, <2>1, BeforeSigns, ConcatProperties
<1> DEFINE c == Before \o a
           d == Before \o b
<1>4. /\ Len(c) = 1 + n /\ Len(d) = 1 + (n + 1)
      /\ \A i \in 1..(1 + n) : c[i] = IF i <= 1 THEN Before[i] ELSE a[i - 1]
      /\ \A i \in 1..(1 + (n + 1)) : d[i] = IF i <= 1 THEN Before[i] ELSE b[i - 1]
  <2>1. /\ Len(c) = Len(Before) + Len(a) /\ Len(d) = Len(Before) + Len(b)
        /\ \A i \in 1..(Len(Before) + Len(a)) : c[i] = IF i <= Len(Before) THEN Before[i] ELSE a[i - Len(Before)]
        /\ \A i \in 1..(Len(Before) + Len(b)) : d[i] = IF i <= Len(Before) THEN Before[i] ELSE b[i - Len(Before)]
    <3>1. Before \in Seq(Signs) /\ a \in Seq(Signs) /\ b \in Seq(Signs)
      BY <1>3
    <3> QED
      BY <3>1, ConcatProperties, Zenon
  <2> HIDE DEF c, d
  <2> QED
    BY <1>2, <1>3, <2>1
<1>5. c \in Seq(Signs) /\ d \in Seq(Signs) /\ t[n + 1] \in Signs
  BY <1>1, <1>3 DEF Signs
<1> HIDE DEF c, d
<1> DEFINE e == Append(c, t[n + 1])
<1>6. e \in Seq(Signs) /\ Len(e) = 2 + n
  BY <1>4, <1>5
<1>7. ASSUME NEW i \in 1..(2 + n) PROVE e[i] = d[i]
  <2>1. CASE i = 1
    BY <1>4, <1>5, <2>1
  <2>2. CASE i \in 2..(1 + n)
    <3>1. /\ i - 1 \in 1..n /\ i - 1 \in 1..(n + 1) /\ ~(i <= 1)
          /\ i \in 1..(1 + n) /\ i \in 1..(1 + (n + 1))
      BY <1>1, <2>2
    <3>2. e[i] = c[i]
      BY <1>4, <1>5, <3>1
    <3>3. c[i] = a[i - 1] /\ d[i] = b[i - 1]
      BY <1>4, <3>1
    <3>4. a[i - 1] = t[i - 1] /\ b[i - 1] = t[i - 1]
      BY <1>2, <3>1
    <3> HIDE DEF e
    <3> QED
      BY <3>2, <3>3, <3>4
  <2>3. CASE i = 2 + n
    <3>1. e[i] = t[n + 1]
      BY <1>4, <1>5, <2>3
    <3>2. ~(i <= 1) /\ i - 1 = n + 1 /\ n + 1 \in 1..(n + 1) /\ i \in 1..(1 + (n + 1))
      BY <2>3, <1>1
    <3>3. d[i] = b[n + 1]
      BY <1>4, <3>2
    <3> QED
      BY <1>2, <3>1, <3>2, <3>3
  <2>4. i = 1 \/ i \in 2..(1 + n) \/ i = 2 + n
    OBVIOUS
  <2> QED
    BY <2>1, <2>2, <2>3, <2>4
<1>8. e = d
  BY <1>4, <1>5, <1>6, <1>7, SeqEqual
<1> QED
  BY <1>8 DEF a, b, c, d

LEMMA OneLess ==
  ASSUME NEW t \in Seq(STRING), NEW n \in 0..Len(t), n < Len(t)
  PROVE  LET s == Before \o Upto(t, n + 1) IN SubSeq(s, 1, Len(s) - 1) = Before \o Upto(t, n)
<1> DEFINE a == Before \o Upto(t, n)
           e == t[n + 1]
<1>1. Len(t) \in Nat /\ n + 1 \in 1..Len(t)
  OBVIOUS
<1>2. a \in Seq(Signs) /\ e \in Signs
  BY <1>1, BeforeSigns, UptoFacts, ConcatProperties DEF Signs
<1>3. Append(a, e) = Before \o Upto(t, n + 1)
  BY OneMore
<1> HIDE DEF a, e
<1>4. Len(Append(a, e)) - 1 = Len(a) /\ Len(a) \in Nat
  BY <1>2
<1>5. SubSeq(Append(a, e), 1, Len(a)) = a
  BY <1>2
<1> QED
  BY <1>3, <1>4, <1>5 DEF a

LEMMA TypedKey ==
  ASSUME NEW c \in DOMAIN ReverseKey, NEW s, s.mods = Mods(c), caps \in BOOLEAN,
         held = ShiftOf(s) \cup AltGrOf(s)
  PROVE  Effect(ReverseKey[c].key) = Append(screen, c)
<1> DEFINE key == ReverseKey[c].key
           m == ReverseKey[c].mods
<1>1. key \in PrintingKeys \cup {"KEY_ENTER"}
  BY TableStroke
<1>2. key \notin ModifierKeys /\ key # "KEY_V" /\ key # "KEY_BACKSPACE"
  <2>1. "KEY_V" \notin PrintingKeys \cup {"KEY_ENTER"} /\ "KEY_BACKSPACE" \notin PrintingKeys \cup {"KEY_ENTER"}
    BY DEF PrintingKeys, Chars
  <2> QED
    BY <1>1, <2>1, MainKeys
<1>3. /\ {"KEY_LEFTSHIFT", "KEY_RIGHTALT"} \subseteq ModifierKeys
      /\ ModifierClass["KEY_LEFTSHIFT"] = "Shift" /\ ModifierClass["KEY_RIGHTALT"] = "AltGr"
  BY DEF ModifierKeys, ModifierClass
<1>4. held \subseteq {"KEY_LEFTSHIFT", "KEY_RIGHTALT"}
  BY DEF ShiftOf, AltGrOf
<1>5. /\ "KEY_LEFTSHIFT" \in held <=> "Shift" \in Mods(c)
      /\ "KEY_RIGHTALT" \in held <=> "AltGr" \in Mods(c)
  BY DEF ShiftOf, AltGrOf
<1>6. /\ "Shift" \in HeldClasses <=> "KEY_LEFTSHIFT" \in held
      /\ "AltGr" \in HeldClasses <=> "KEY_RIGHTALT" \in held
      /\ "Ctrl" \notin HeldClasses
  BY <1>3, <1>4 DEF HeldClasses
<1> HIDE DEF ReverseKey
<1>7. /\ "AltGr" \in Mods(c) <=> "AltGr" \in m
      /\ "Shift" \in Mods(c) <=> ("Shift" \in m) # (caps /\ c \in Letters)
  BY DEF Mods, SymDiff
<1>8. Glyph(key, HeldClasses, caps) = c
  <2>1. "AltGr" \in HeldClasses <=> "AltGr" \in ReverseKey[c].mods
    BY <1>5, <1>6, <1>7
  <2>2. "Shift" \in HeldClasses <=> ("Shift" \in ReverseKey[c].mods) # (caps /\ c \in Letters)
    BY <1>5, <1>6, <1>7
  <2> QED
    BY <2>1, <2>2, TableShows
<1>9. key \notin held \cup ModifierKeys
  BY <1>2, <1>3, <1>4
<1> HIDE DEF key
<1>10. Effect(key) = Append(screen, c)
  BY <1>2, <1>6, <1>8, <1>9 DEF Effect
<1> QED
  BY <1>10 DEF key

LEMMA BackspaceKey ==
  ASSUME held = {}
  PROVE  Effect("KEY_BACKSPACE") = SubSeq(screen, 1, Len(screen) - 1)
<1>1. HeldClasses = {} /\ "KEY_BACKSPACE" \notin ModifierKeys
  BY MainKeys DEF HeldClasses
<1> QED
  BY <1>1 DEF Effect

(* Of the stages' conjuncts only that of the stage at hand says anything.   *)
LEMMA Elsewhere ==
  /\ stage' # "delete" => Deleting'
  /\ stage' # "type" => TypingText'
  /\ stage' # "restore" => PuttingBack'
  /\ stage' \notin {"wtype", "begin", "copy", "abort"} => Waiting'
  /\ stage' # "paste" => PasteKeys'
  /\ stage' # "idle" => Resting'
BY DEF Deleting, TypingText, PuttingBack, Waiting, PasteKeys, Resting

LEMMA PasteList ==
  LET p == PasteOps IN
  /\ p # <<>> /\ Head(p) = Down("KEY_LEFTCTRL", 1)
  /\ Tail(p) # <<>> /\ Head(Tail(p)) = Down("KEY_V", 1)
  /\ Tail(Tail(p)) # <<>> /\ Head(Tail(Tail(p))) = Up("KEY_V", 1)
  /\ Tail(Tail(Tail(p))) # <<>> /\ Head(Tail(Tail(Tail(p)))) = Up("KEY_LEFTCTRL", 1)
  /\ Tail(Tail(Tail(Tail(p)))) = <<>>
<1> DEFINE a == Down("KEY_LEFTCTRL", 1)
           b == Down("KEY_V", 1)
           c == Up("KEY_V", 1)
           d == Up("KEY_LEFTCTRL", 1)
           S == {a, b, c, d}
           l == <<a>>
           m == <<b, c>>
           r == <<d>>
           p == (l \o m) \o r
<1>1. PasteOps = p
  BY DEF PasteOps, Press
<1>2. /\ l \in Seq(S) /\ m \in Seq(S) /\ r \in Seq(S) /\ Len(l) = 1 /\ Len(m) = 2 /\ Len(r) = 1
      /\ l[1] = a /\ m[1] = b /\ m[2] = c /\ r[1] = d
  OBVIOUS
<1> HIDE DEF a, b, c, d, S, l, m, r
<1> DEFINE k == l \o m
<1>3. /\ k \in Seq(S) /\ Len(k) = Len(l) + Len(m)
      /\ \A i \in 1..(Len(l) + Len(m)) : k[i] = IF i <= Len(l) THEN l[i] ELSE m[i - Len(l)]
  BY <1>2, ConcatProperties, Zenon
<1> HIDE DEF k
<1>4. Len(k) = 3 /\ k[1] = a /\ k[2] = b /\ k[3] = c
  BY <1>2, <1>3
<1> DEFINE q == k \o r
<1>5. /\ q \in Seq(S) /\ Len(q) = Len(k) + Len(r)
      /\ \A i \in 1..(Len(k) + Len(r)) : q[i] = IF i <= Len(k) THEN k[i] ELSE r[i - Len(k)]
  <2>1. k \in Seq(S) /\ r \in Seq(S)
    BY <1>2, <1>3
  <2> QED
    BY <2>1, ConcatProperties, Zenon
<1> HIDE DEF q
<1>6. Len(q) = 4 /\ q[1] = a /\ q[2] = b /\ q[3] = c /\ q[4] = d
  BY <1>2, <1>4, <1>5
<1> DEFINE q1 == Tail(q)
<1>7. q # <<>> /\ Head(q) = a /\ q1 \in Seq(S) /\ Len(q1) = 3 /\ q1[1] = b /\ q1[2] = c /\ q1[3] = d
  <2>1. q \in Seq(S) /\ q # <<>> /\ Head(q) = a
    BY <1>5, <1>6
  <2>2. q1 \in Seq(S) /\ Len(q1) = 3 /\ \A i \in 1..Len(q1) : q1[i] = q[i + 1]
    BY <1>6, <2>1, HeadTailProperties
  <2> QED
    BY <1>6, <2>1, <2>2
<1> HIDE DEF q1
<1> DEFINE q2 == Tail(q1)
<1>8. q1 # <<>> /\ Head(q1) = b /\ q2 \in Seq(S) /\ Len(q2) = 2 /\ q2[1] = c /\ q2[2] = d
  BY <1>7
<1> HIDE DEF q2
<1> DEFINE q3 == Tail(q2)
<1>9. q2 # <<>> /\ Head(q2) = c /\ q3 \in Seq(S) /\ Len(q3) = 1 /\ q3[1] = d
  BY <1>8
<1> HIDE DEF q3
<1>10. q3 # <<>> /\ Head(q3) = d /\ Tail(q3) = <<>>
  <2>1. q3 # <<>> /\ Head(q3) = d
    BY <1>9
  <2>2. Tail(q3) \in Seq(S) /\ Len(Tail(q3)) = 0
    BY <1>9, <2>1, HeadTailProperties
  <2> QED
    BY <2>1, <2>2, EmptySeq
<1>11. /\ q # <<>> /\ Head(q) = a /\ Tail(q) # <<>> /\ Head(Tail(q)) = b
       /\ Tail(Tail(q)) # <<>> /\ Head(Tail(Tail(q))) = c
       /\ Tail(Tail(Tail(q))) # <<>> /\ Head(Tail(Tail(Tail(q)))) = d
       /\ Tail(Tail(Tail(Tail(q)))) = <<>>
  BY <1>7, <1>8, <1>9, <1>10 DEF q1, q2, q3
<1>12. PasteOps = q
  BY <1>1 DEF q, k
<1> QED
  BY <1>11, <1>12 DEF a, b, c, d

(* The steps of the virtual keyboard.                                      *)
KeyStep == KeySucceeds \/ KeyFails
LEMMA KeyFrame ==
  ASSUME KeyStep
  PROVE  /\ ops # <<>>
         /\ UNCHANGED <<stage, edit, caps, selected, clean, backends, clip, supplanted, outcome>>
BY DEF KeyStep, KeySucceeds, KeyFails, chainVars, clipVars

LEMMA KeyPlan ==
  ASSUME NEW p, Working(p), KeyStep, failed \in {"no", "safe", "partial"},
         stage \in {"delete", "type", "restore"}
  PROVE  /\ Working(p)' /\ (PressesNext(p) \/ UNCHANGED <<emitted, screen>>)
         /\ failed' \in {"no", "safe", "partial"}
         /\ failed' = "safe" => failed = "safe" \/ stage = "delete" \/ (failed = "no" /\ emitted = 0)
         /\ PressesNext(p) => failed' = "no"
<1>1. CASE KeySucceeds
  <2>1. failed' = failed
    BY <1>1 DEF KeySucceeds
  <2> QED
    BY <1>1, <2>1, KeyWorks DEF PressesNext
<1>2. CASE KeyFails
  <2>1. Working(p)' /\ UNCHANGED <<emitted, screen>> /\ failed' \in {"no", "safe", "partial"}
    BY <1>2, KeyFailsWorks
  <2>2. failed' = "safe" => failed = "safe" \/ stage = "delete" \/ (failed = "no" /\ emitted = 0)
    BY <1>2, KeyFailsWorks DEF KeyFails
  <2>3. ~PressesNext(p)
    <3>1. emitted \in 0..Len(p) /\ p \in Seq(Planned)
      BY DEF Working
    <3> QED
      BY <2>1, <3>1 DEF PressesNext
  <2> QED
    BY <2>1, <2>2, <2>3
<1> QED
  BY <1>1, <1>2 DEF KeyStep

LEMMA KeyDeleting ==
  ASSUME OutputInv, KeyStep, stage = "delete"
  PROVE  Deleting' /\ failed' \in {"no", "safe", "partial"}
<1> DEFINE t == edit.restore
           n == Len(t)
<1>1. /\ UNCHANGED <<stage, edit, selected, clean>> /\ t \in Seq(STRING) /\ n \in Nat
      /\ failed \in {"no", "safe", "partial"}
  BY KeyFrame DEF OutputInv, Ground
<1>2. PICK p : p = DeletePlan(n)
  OBVIOUS
<1>3. /\ Working(p) /\ (clean => screen = Before \o Upto(t, n - emitted))
      /\ selected \in Backends /\ (selected = "uinput" => Typeable(edit.text))
  BY <1>2 DEF OutputInv, Deleting, Shows
<1>4. /\ Working(p)' /\ (PressesNext(p) \/ UNCHANGED <<emitted, screen>>)
      /\ failed' \in {"no", "safe", "partial"}
  BY <1>1, <1>3, KeyPlan
<1>5. Len(p) = n /\ emitted \in 0..n /\ \A i \in 1..n : p[i] = [key |-> "KEY_BACKSPACE", mods |-> {}]
  BY <1>1, <1>2, <1>3 DEF DeletePlan, Working
<1>6. clean' => screen' = Before \o Upto(t, n - emitted')
  <2>1. CASE UNCHANGED <<emitted, screen>>
    BY <1>1, <1>3, <2>1
  <2>2. CASE PressesNext(p) /\ clean
    <3>1. emitted + 1 \in 1..n /\ emitted' = emitted + 1
      BY <1>5, <2>2 DEF PressesNext
    <3>2. p[emitted + 1].key = "KEY_BACKSPACE" /\ p[emitted + 1].mods = {}
      BY <1>5, <3>1
    <3>3. held = {} /\ screen' = Effect("KEY_BACKSPACE")
      BY <2>2, <3>2 DEF PressesNext, ShiftOf, AltGrOf
    <3> DEFINE j == n - (emitted + 1)
    <3>4. j \in 0..n /\ j < n /\ j + 1 = n - emitted /\ j = n - emitted'
      BY <1>1, <1>5, <3>1
    <3> HIDE DEF j
    <3>5. screen = Before \o Upto(t, j + 1)
      BY <1>3, <2>2, <3>4
    <3>6. screen' = Before \o Upto(t, j)
      BY <1>1, <3>3, <3>4, <3>5, BackspaceKey, OneLess
    <3> QED
      BY <3>4, <3>6
  <2> QED
    BY <1>1, <1>4, <2>1, <2>2
<1>7. Deleting'
  <2>1. Working(DeletePlan(Len(edit.restore)))' /\ (selected' = "uinput" => Typeable(edit.text)')
    BY <1>1, <1>2, <1>3, <1>4 DEF Working, DueKeys, Typeable
  <2> QED
    BY <1>1, <1>3, <1>6, <2>1 DEF Deleting, Shows
<1> QED
  BY <1>4, <1>7

LEMMA KeyTyping ==
  ASSUME OutputInv, KeyStep, stage = "type"
  PROVE  TypingText' /\ failed' \in {"no", "safe", "partial"}
<1> DEFINE t == edit.text
<1>1. /\ UNCHANGED <<stage, edit, selected, clean, caps>> /\ t \in Seq(STRING) /\ caps \in BOOLEAN
      /\ failed \in {"no", "safe", "partial"}
  BY KeyFrame DEF OutputInv, Ground
<1>2. PICK p : p = TypePlan(t)
  OBVIOUS
<1>3. /\ selected = "uinput" /\ Typeable(t) /\ Working(p)
      /\ (failed = "safe" => emitted = 0) /\ (clean => screen = Before \o Upto(t, emitted))
  BY <1>1, <1>2 DEF OutputInv, TypingText, Shows
<1>4. /\ Working(p)' /\ (PressesNext(p) \/ UNCHANGED <<emitted, screen>>)
      /\ failed' \in {"no", "safe", "partial"}
      /\ failed' = "safe" => failed = "safe" \/ stage = "delete" \/ (failed = "no" /\ emitted = 0)
      /\ PressesNext(p) => failed' = "no"
  BY <1>1, <1>3, KeyPlan
<1>5. /\ Len(p) = Len(t) /\ Len(t) \in Nat /\ emitted \in 0..Len(t)
      /\ \A i \in 1..Len(t) : p[i] = [key |-> ReverseKey[t[i]].key, mods |-> Mods(t[i])]
  <2>1. \A i \in 1..Len(t) : TypePlan(t)[i] = [key |-> ReverseKey[t[i]].key, mods |-> Mods(t[i])]
    BY <1>1 DEF TypePlan
  <2>2. Len(p) = Len(t)
    BY <1>1, <1>2, <1>3, TypePlanned
  <2> QED
    BY <1>1, <1>2, <1>3, <2>1, <2>2 DEF Working
<1>6. clean' => screen' = Before \o Upto(t, emitted')
  <2>1. CASE UNCHANGED <<emitted, screen>>
    BY <1>1, <1>3, <2>1
  <2>2. CASE PressesNext(p) /\ clean
    <3>1. emitted + 1 \in 1..Len(t) /\ emitted' = emitted + 1 /\ emitted < Len(t)
      BY <1>5, <2>2 DEF PressesNext
    <3> DEFINE c == t[emitted + 1]
    <3>2. c \in DOMAIN ReverseKey
      BY <1>1, <1>3, <3>1, TextMembers
    <3>3. p[emitted + 1].key = ReverseKey[c].key /\ p[emitted + 1].mods = Mods(c)
      <4> HIDE DEF ReverseKey
      <4>1. p[emitted + 1] = [key |-> ReverseKey[c].key, mods |-> Mods(c)]
        BY <1>5, <3>1
      <4> QED
        BY <4>1
    <3>4. screen' = Effect(ReverseKey[c].key) /\ held = ShiftOf(p[emitted + 1]) \cup AltGrOf(p[emitted + 1])
      BY <2>2, <3>3 DEF PressesNext
    <3>5. screen' = Append(screen, c)
      <4> HIDE DEF c
      <4> QED
        BY <1>1, <3>2, <3>3, <3>4, TypedKey
    <3> QED
      BY <1>1, <1>3, <1>5, <2>2, <3>1, <3>5, OneMore
  <2> QED
    BY <1>1, <1>4, <2>1, <2>2
<1>7. failed' = "safe" => emitted' = 0
  BY <1>1, <1>3, <1>4
<1>8. Working(TypePlan(edit.text))'
  <2>1. TypePlan(edit.text)' = p
    BY <1>1, <1>2 DEF TypePlan, Mods
  <2> QED
    BY <1>4, <2>1 DEF Working, DueKeys
<1>9. TypingText'
  <2>1. Typeable(edit.text)' /\ selected' = "uinput"
    BY <1>1, <1>3 DEF Typeable
  <2> QED
    BY <1>1, <1>6, <1>7, <1>8, <2>1 DEF TypingText, Shows
<1> QED
  BY <1>4, <1>9

LEMMA LastRunesFacts ==
  ASSUME NEW t \in Seq(STRING), NEW k \in 0..Len(t)
  PROVE  /\ LastRunes(t, k) \in Seq(STRING) /\ Len(LastRunes(t, k)) = k
         /\ \A i \in 1..k : LastRunes(t, k)[i] = t[Len(t) - k + i]
         /\ LastRunes(t, Len(t)) = t
<1>1. Len(t) \in Nat /\ k \in Nat /\ Len(t) - k + 1 \in 1..(Len(t) + 1)
  OBVIOUS
<1>2. \A i \in (Len(t) - k + 1)..Len(t) : t[i] \in STRING
  BY <1>1
<1>3. LastRunes(t, k) \in Seq(STRING) /\ Len(LastRunes(t, k)) = k
  BY <1>1, <1>2 DEF LastRunes
<1>4. ASSUME NEW i \in 1..k PROVE LastRunes(t, k)[i] = t[Len(t) - k + i]
  BY <1>1 DEF LastRunes
<1>5. LastRunes(t, Len(t)) = t
  BY <1>1 DEF LastRunes
<1> QED
  BY <1>3, <1>4, <1>5

LEMMA KeyRestoring ==
  ASSUME OutputInv, KeyStep, stage = "restore"
  PROVE  PuttingBack' /\ failed' \in {"no", "safe", "partial"}
<1> DEFINE r == edit.restore
           n == Len(r)
<1>1. /\ UNCHANGED <<stage, edit, selected, clean, caps>> /\ r \in Seq(STRING) /\ caps \in BOOLEAN
      /\ failed \in {"no", "safe", "partial"} /\ n \in Nat
  BY KeyFrame DEF OutputInv, Ground
<1>2. PICK k \in 0..n :
        /\ Typeable(LastRunes(r, k)) /\ Working(TypePlan(LastRunes(r, k)))
        /\ selected # "wtype" => (clean => screen = Before \o Upto(r, n - k + emitted))
  BY DEF OutputInv, PuttingBack, Shows
<1>3. PICK t : t = LastRunes(r, k)
  OBVIOUS
<1>4. t \in Seq(STRING) /\ Len(t) = k /\ \A i \in 1..k : t[i] = r[n - k + i]
  BY <1>1, <1>3, LastRunesFacts
<1>5. PICK p : p = TypePlan(t)
  OBVIOUS
<1>6. Working(p) /\ Typeable(t)
  BY <1>2, <1>3, <1>5
<1>7. /\ Working(p)' /\ (PressesNext(p) \/ UNCHANGED <<emitted, screen>>)
      /\ failed' \in {"no", "safe", "partial"}
  BY <1>1, <1>6, KeyPlan
<1>8. /\ Len(p) = k /\ emitted \in 0..k /\ k \in Nat
      /\ \A i \in 1..k : p[i] = [key |-> ReverseKey[t[i]].key, mods |-> Mods(t[i])]
  <2>1. \A i \in 1..Len(t) : TypePlan(t)[i] = [key |-> ReverseKey[t[i]].key, mods |-> Mods(t[i])]
    BY <1>4 DEF TypePlan
  <2>2. Len(p) = Len(t)
    BY <1>4, <1>5, <1>6, TypePlanned
  <2> QED
    BY <1>4, <1>5, <1>6, <2>1, <2>2 DEF Working
<1>9. selected # "wtype" => (clean' => screen' = Before \o Upto(r, n - k + emitted'))
  <2>1. CASE UNCHANGED <<emitted, screen>>
    BY <1>1, <1>2, <2>1
  <2>2. CASE PressesNext(p) /\ clean /\ selected # "wtype"
    <3>1. emitted + 1 \in 1..k /\ emitted' = emitted + 1
      BY <1>8, <2>2 DEF PressesNext
    <3> DEFINE c == t[emitted + 1]
               m == n - k + emitted
    <3>2. c \in DOMAIN ReverseKey
      BY <1>4, <1>6, <3>1, TextMembers
    <3>3. p[emitted + 1].key = ReverseKey[c].key /\ p[emitted + 1].mods = Mods(c)
      BY <1>8, <3>1
    <3>4. screen' = Effect(ReverseKey[c].key) /\ held = ShiftOf(p[emitted + 1]) \cup AltGrOf(p[emitted + 1])
      BY <2>2, <3>3 DEF PressesNext
    <3>5. screen' = Append(screen, c)
      <4> HIDE DEF c
      <4> QED
        BY <1>1, <3>2, <3>3, <3>4, TypedKey
    <3>6. m \in 0..n /\ m < n /\ m + 1 = n - k + emitted' /\ c = r[m + 1]
      <4> HIDE DEF n
      <4>1. /\ n - k + (emitted + 1) = m + 1 /\ m \in 0..n /\ m < n
            /\ m + 1 = n - k + (emitted + 1)
        BY <1>1, <1>2, <1>8, <3>1
      <4>2. c = r[n - k + (emitted + 1)]
        BY <1>4, <3>1
      <4> QED
        BY <3>1, <4>1, <4>2
    <3>7. screen = Before \o Upto(r, m)
      BY <1>2, <2>2
    <3> HIDE DEF m
    <3>8. Append(Before \o Upto(r, m), r[m + 1]) = Before \o Upto(r, m + 1)
      BY <1>1, <3>6, OneMore
    <3> QED
      BY <3>5, <3>6, <3>7, <3>8
  <2> QED
    BY <1>1, <1>7, <2>1, <2>2
<1>10. Working(TypePlan(LastRunes(edit.restore, k)))' /\ Typeable(LastRunes(edit.restore, k))'
  <2>1. TypePlan(LastRunes(edit.restore, k))' = p
    BY <1>1, <1>3, <1>5 DEF TypePlan, Mods
  <2>2. LastRunes(edit.restore, k)' = t
    BY <1>1, <1>3
  <2> QED
    BY <1>6, <1>7, <2>1, <2>2 DEF Working, DueKeys, Typeable
<1>11. PuttingBack'
  <2>1. edit'.restore = r /\ selected' = selected
    BY <1>1
  <2> QED
    BY <1>1, <1>9, <1>10, <2>1 DEF PuttingBack, Shows
<1> QED
  BY <1>7, <1>11

LEMMA ReleasesStep ==
  ASSUME Releases(ops), ops # <<>>
  PROVE  /\ Releases(Tail(ops)) /\ Head(ops) \in Operation
         /\ ~Head(ops).down /\ Head(ops).key \in ModifierKeys
<1>1. ops \in Seq(Operation) /\ \A x \in 1..Len(ops) : ~ops[x].down /\ ops[x].key \in ModifierKeys
  BY DEF Releases
<1>2. Head(ops) = ops[1] /\ 1 \in 1..Len(ops) /\ ops[1] \in Operation
  BY <1>1
<1>3. /\ Tail(ops) \in Seq(Operation) /\ Len(Tail(ops)) = Len(ops) - 1 /\ Len(ops) \in Nat
      /\ \A x \in 1..Len(Tail(ops)) : Tail(ops)[x] = ops[x+1]
  BY <1>1, HeadTailProperties
<1>4. \A x \in 1..Len(Tail(ops)) : x + 1 \in 1..Len(ops)
  BY <1>3
<1>5. Releases(Tail(ops))
  BY <1>1, <1>3, <1>4 DEF Releases
<1> QED
  BY <1>1, <1>2, <1>5

LEMMA PasteKey ==
  ASSUME held = {"KEY_LEFTCTRL"}
  PROVE  Effect("KEY_V") = screen \o clip
<1>1. "KEY_V" \notin ModifierKeys /\ "KEY_LEFTCTRL" \in ModifierKeys /\ ModifierClass["KEY_LEFTCTRL"] = "Ctrl"
  BY MainKeys DEF ModifierKeys, ModifierClass
<1>2. "Ctrl" \in HeldClasses
  BY <1>1 DEF HeldClasses
<1> QED
  BY <1>1, <1>2 DEF Effect

LEMMA KeyPasting ==
  ASSUME OutputInv, KeyStep, stage = "paste"
  PROVE  PasteKeys' /\ failed' \in {"no", "safe", "partial"}
<1> DEFINE t == edit.text
           o == Head(ops)
           C == "KEY_LEFTCTRL"
           V == "KEY_V"
           p0 == PasteOps
           p1 == Tail(PasteOps)
           p2 == Tail(Tail(PasteOps))
           p3 == Tail(Tail(Tail(PasteOps)))
           none == clean => screen = Before
           all == clean => screen = Before \o t
           At(q, h) == failed = "no" /\ ops = q /\ (clean => held = h)
<1>1. /\ UNCHANGED <<stage, edit, selected, clean, clip, supplanted>> /\ ops # <<>>
      /\ selected = "clipboard" /\ (~supplanted => clip = t)
      /\ t \in Seq(STRING) /\ Before \o <<>> = Before
  BY KeyFrame, BeforeSigns, ConcatEmptySeq DEF OutputInv, PasteKeys, Ground
<1>2. \/ At(p0, {}) /\ none
      \/ At(p1, {C}) /\ none
      \/ At(p2, {C, V}) /\ (~supplanted => all)
      \/ At(p3, {C}) /\ (~supplanted => all)
      \/ failed = "safe" /\ Releases(ops) /\ none
      \/ failed = "partial" /\ Releases(ops) /\ (~supplanted => none \/ all)
  BY <1>1 DEF OutputInv, PasteKeys, Shows
<1>3. SUFFICES /\ failed' \in {"no", "safe", "partial"}
               /\ \/ At(p1, {C})' /\ none'
                  \/ At(p2, {C, V})' /\ (~supplanted => all')
                  \/ At(p3, {C})' /\ (~supplanted => all')
                  \/ At(<<>>, {})' /\ (~supplanted => all')
                  \/ failed' = "safe" /\ Releases(ops') /\ none'
                  \/ failed' = "partial" /\ Releases(ops') /\ (~supplanted => none' \/ all')
  <2>1. edit'.text = t /\ selected' = "clipboard" /\ (~supplanted' => clip' = t) /\ p1' = p1 /\ p2' = p2 /\ p3' = p3
    BY <1>1 DEF PasteOps, Down, Up, Press
  <2> HIDE DEF p1, p2, p3
  <2> QED
    BY <1>1, <2>1 DEF PasteKeys, Shows, p1, p2, p3
<1>4. /\ p0 # <<>> /\ Head(p0) = Down(C, 1) /\ Tail(p0) = p1
      /\ p1 # <<>> /\ Head(p1) = Down(V, 1) /\ Tail(p1) = p2
      /\ p2 # <<>> /\ Head(p2) = Up(V, 1) /\ Tail(p2) = p3
      /\ p3 # <<>> /\ Head(p3) = Up(C, 1) /\ Tail(p3) = <<>>
  BY PasteList
<1>5. C \in ModifierKeys /\ V \notin ModifierKeys /\ C # V
  BY MainKeys DEF ModifierKeys, ModifierClass
<1>6. /\ Down(C, 1).key = C /\ Down(C, 1).down = TRUE /\ Down(V, 1).key = V /\ Down(V, 1).down = TRUE
      /\ Up(C, 1).key = C /\ Up(C, 1).down = FALSE /\ Up(V, 1).key = V /\ Up(V, 1).down = FALSE
      /\ {Down(C, 1), Up(C, 1), Down(V, 1), Up(V, 1)} \subseteq Operation
  BY <1>5 DEF Down, Up, Operation, PressedKeys
<1> HIDE DEF p0, p1, p2, p3
<1>7. CASE KeySucceeds
  <2>1. /\ ops' = Tail(ops) /\ failed' = failed
        /\ held' = (IF o.down THEN held \cup {o.key} ELSE held \ {o.key})
        /\ screen' = (IF o.down THEN Effect(o.key) ELSE screen)
    BY <1>7 DEF KeySucceeds
  <2>2. o.key \in ModifierKeys \/ ~o.down => screen' = screen
    BY <2>1 DEF Effect
  <2>3. CASE At(p0, {}) /\ none
    <3>1. o = Down(C, 1) /\ ops' = p1
      BY <1>4, <2>1, <2>3
    <3>2. screen' = screen /\ held' = held \cup {C}
      BY <1>5, <1>6, <2>1, <2>2, <3>1
    <3> QED
      BY <1>1, <2>1, <2>3, <3>1, <3>2
  <2>4. CASE At(p1, {C}) /\ none
    <3>1. o = Down(V, 1) /\ ops' = p2
      BY <1>4, <2>1, <2>4
    <3>2. screen' = Effect(V) /\ held' = held \cup {V}
      BY <1>6, <2>1, <3>1
    <3>3. clean => screen' = screen \o clip
      BY <2>4, <3>2, PasteKey
    <3>4. ~supplanted => all'
      BY <1>1, <2>4, <3>3
    <3> QED
      BY <1>1, <2>1, <2>4, <3>1, <3>2, <3>4
  <2>5. CASE At(p2, {C, V}) /\ (~supplanted => all)
    <3>1. o = Up(V, 1) /\ ops' = p3
      BY <1>4, <2>1, <2>5
    <3>2. screen' = screen /\ held' = held \ {V}
      BY <1>6, <2>1, <2>2, <3>1
    <3> QED
      BY <1>1, <1>5, <2>1, <2>5, <3>1, <3>2
  <2>6. CASE At(p3, {C}) /\ (~supplanted => all)
    <3>1. o = Up(C, 1) /\ ops' = <<>>
      BY <1>4, <2>1, <2>6
    <3>2. screen' = screen /\ held' = held \ {C}
      BY <1>6, <2>1, <2>2, <3>1
    <3> QED
      BY <1>1, <2>1, <2>6, <3>1, <3>2
  <2>7. CASE Releases(ops) /\ failed \in {"safe", "partial"}
    <3>1. Releases(ops') /\ screen' = screen
      BY <1>1, <2>1, <2>2, <2>7, ReleasesStep
    <3> QED
      BY <1>1, <1>2, <2>1, <2>7, <3>1
  <2> QED
    BY <1>2, <2>3, <2>4, <2>5, <2>6, <2>7
<1>8. CASE KeyFails
  <2>1. /\ UNCHANGED <<screen, held>> /\ ~Retries(o)
        /\ failed # "no" => ops' = Tail(ops) /\ failed' = failed
        /\ failed = "no" => failed' = FailureClass(o) /\ ops' = Cleanup(o, Tail(ops))
    BY <1>8 DEF KeyFails, Retries
  <2>2. FailureClass(o) = IF o.down /\ o.key = C THEN "safe" ELSE "partial"
    BY DEF FailureClass
  <2>3. CASE Releases(ops) /\ failed \in {"safe", "partial"}
    <3>1. Releases(ops')
      BY <1>1, <2>1, <2>3, ReleasesStep
    <3> QED
      BY <1>1, <1>2, <2>1, <2>3, <3>1
  <2>4. CASE At(p0, {}) /\ none
    <3>1. o = Down(C, 1) /\ failed' = "safe"
      BY <1>4, <1>6, <2>1, <2>2, <2>4
    <3>2. Releases(ops')
      BY <1>6, <2>1, <2>4, <3>1, CleanupReleases
    <3> QED
      BY <1>1, <2>1, <2>4, <3>1, <3>2
  <2>5. CASE /\ failed = "no" /\ ops \in {p1, p2, p3} /\ (~supplanted => none \/ all)
    <3>1. o \in {Down(V, 1), Up(V, 1), Up(C, 1)}
      BY <1>4, <2>5
    <3>2. failed' = "partial"
      BY <1>5, <1>6, <2>1, <2>2, <2>5, <3>1
    <3>3. Releases(ops')
      <4>1. o \in Operation
        BY <1>6, <3>1
      <4> QED
        BY <2>1, <2>5, <4>1, CleanupReleases
    <3> QED
      BY <1>1, <2>1, <2>5, <3>2, <3>3
  <2> QED
    BY <1>2, <2>3, <2>4, <2>5
<1> QED
  BY <1>7, <1>8 DEF KeyStep

LEMMA KeyKeeps ==
  ASSUME OutputInv, KeyStep
  PROVE  OutputInv'
<1>1. /\ UNCHANGED <<stage, edit, caps, backends>> /\ ops # <<>> /\ stage \in Stages
  BY KeyFrame DEF OutputInv
<1>2. stage \in {"delete", "type", "restore", "paste"}
  BY <1>1 DEF OutputInv, Stages, Waiting, Resting
<1>3. Ground' /\ stage' \in Stages
  BY <1>1 DEF OutputInv, Ground
<1>4. CASE stage = "delete"
  BY <1>1, <1>3, <1>4, KeyDeleting, Elsewhere DEF OutputInv
<1>5. CASE stage = "type"
  BY <1>1, <1>3, <1>5, KeyTyping, Elsewhere DEF OutputInv
<1>6. CASE stage = "restore"
  BY <1>1, <1>3, <1>6, KeyRestoring, Elsewhere DEF OutputInv
<1>7. CASE stage = "paste"
  BY <1>1, <1>3, <1>7, KeyPasting, Elsewhere DEF OutputInv
<1> QED
  BY <1>2, <1>4, <1>5, <1>6, <1>7

-----------------------------------------------------------------------------
(* Into a stage and out of it.                                             *)

(* Putting back the last k characters, which were deleted and of which      *)
(* nothing was put back yet.                                               *)
LEMMA PutBack ==
  ASSUME Ground, UNCHANGED <<edit, caps, backends, selected, held>>,
         NEW k \in 0..Len(edit.restore), WithRestore(LastRunes(edit.restore, k)),
         selected # "wtype" => (clean => screen' = Before \o Upto(edit.restore, Len(edit.restore) - k)),
         failed \in {"no", "safe", "partial"}
  PROVE  OutputInv'
<1> DEFINE r == edit.restore
           n == Len(r)
           t == LastRunes(r, k)
<1>1. /\ r \in Seq(STRING) /\ n \in Nat /\ k \in Nat /\ edit'.restore = r /\ caps' = caps
      /\ Ground'
  BY DEF Ground
<1>2. t \in Seq(STRING) /\ Len(t) = k
  BY <1>1, LastRunesFacts
<1>3. clean' => clean
  BY DEF WithRestore, Return
<1>4. CASE t = <<>> \/ ~Typeable(t)
  <2>1. /\ stage' = "idle" /\ ops' = <<>> /\ clean' = clean /\ failed' = failed
        /\ outcome' = IF t = <<>> THEN "restored" ELSE "unrestored"
    BY <1>4 DEF WithRestore, Return
  <2>2. t = <<>> => Upto(r, n - k) = r
    BY <1>1, <1>2, UptoFacts
  <2>3. OutcomeIsTrue'
    <3>1. CASE selected = "wtype"
      BY <2>1, <3>1 DEF OutcomeIsTrue
    <3>2. CASE selected # "wtype" /\ t = <<>>
      BY <1>1, <2>1, <2>2, <3>2 DEF OutcomeIsTrue
    <3>3. CASE selected # "wtype" /\ t # <<>>
      <4>1. n - k \in 0..n
        BY <1>1
      <4>2. clean' => screen' = Before \o SubSeq(r, 1, n - k)
        BY <2>1, <3>3 DEF Upto
      <4>3. SubSeq(r, 1, n - k) \in UNION { { SubSeq(u, 1, m) : m \in 0..Len(u) } : u \in {edit'.restore, edit'.text} }
        BY <1>1, <4>1
      <4> QED
        BY <2>1, <3>3, <4>2, <4>3 DEF OutcomeIsTrue
    <3> QED
      BY <3>1, <3>2, <3>3
  <2> QED
    BY <1>1, <2>1, <2>3, Elsewhere DEF OutputInv, Stages, Resting
<1>5. CASE t # <<>> /\ Typeable(t)
  <2>1. /\ stage' = "restore" /\ ops' = TypeOps(t) /\ emitted' = 0 /\ failed' = "no"
        /\ clean' = (clean /\ held = {})
    BY <1>5 DEF WithRestore, Enter
  <2>2. PICK p : p = TypePlan(t)
    OBVIOUS
  <2>3. p \in Seq(Planned) /\ Len(p) = k /\ Leads(p, TypeOps(t), {}, 0, {}, k)
    BY <1>2, <1>5, <2>2, TypePlanned
  <2>4. Working(p)'
    BY <2>1, <2>3, StageStarts
  <2>5. LastRunes(edit.restore, k)' = t /\ TypePlan(LastRunes(edit.restore, k))' = p
    BY <1>1, <2>2 DEF TypePlan, Mods
  <2>6. Working(TypePlan(LastRunes(edit.restore, k)))' /\ Typeable(LastRunes(edit.restore, k))'
    BY <1>5, <2>4, <2>5 DEF Working, DueKeys, Typeable
  <2>7. selected' # "wtype" => Shows(Upto(edit.restore, Len(edit.restore) - k + emitted))'
    <3>1. n - k + 0 = n - k
      BY <1>1
    <3> QED
      BY <1>1, <1>3, <2>1, <3>1 DEF Shows
  <2>8. PuttingBack'
    BY <1>1, <2>6, <2>7 DEF PuttingBack
  <2> QED
    BY <1>1, <2>1, <2>8, Elsewhere DEF OutputInv, Stages
<1> QED
  BY <1>4, <1>5

(* The plan of a stage that ends: all of it done unless something failed.   *)
LEMMA PlanDone ==
  ASSUME NEW p, Working(p), ops = <<>>
  PROVE  /\ emitted \in 0..Len(p)
         /\ failed = "no" => emitted = Len(p) /\ (clean => held = {})
BY DEF Working, Leads, DueKeys

(* An outcome that need not be more than some way between the two texts.    *)
LEMMA Between ==
  ASSUME Ground, UNCHANGED <<edit, caps, backends, selected, held, screen>>, Return("partial") \/ Return("unrestored"),
         failed \in {"no", "safe", "partial"},
         NEW t \in {edit.restore, edit.text}, NEW n \in 0..Len(t),
         selected \notin {"wtype"} \/ outcome' = "partial" => (clean => screen = Before \o Upto(t, n))
  PROVE  OutputInv'
<1>1. /\ stage' = "idle" /\ ops' = <<>> /\ clean' = clean /\ failed' = failed
      /\ outcome' \in {"partial", "unrestored"}
  BY DEF Return
<1>2. SubSeq(t, 1, n) \in UNION { { SubSeq(u, 1, m) : m \in 0..Len(u) } : u \in {edit'.restore, edit'.text} }
  OBVIOUS
<1>3. OutcomeIsTrue'
  <2>1. CASE selected = "wtype" /\ outcome' # "partial"
    BY <1>1, <2>1 DEF OutcomeIsTrue
  <2>2. CASE selected # "wtype" \/ outcome' = "partial"
    BY <1>1, <1>2, <2>2 DEF OutcomeIsTrue, Upto
  <2> QED
    BY <2>1, <2>2
<1>4. Ground'
  BY DEF Ground
<1> QED
  BY <1>1, <1>3, <1>4, Elsewhere DEF OutputInv, Stages, Resting

LEMMA Done ==
  ASSUME Ground, UNCHANGED <<edit, caps, backends, selected, held, supplanted>>, Return("done"),
         failed \in {"no", "safe", "partial"},
         clean => held = {} /\ (screen' = Before \o edit.text \/ (selected = "clipboard" /\ supplanted))
  PROVE  OutputInv'
<1>1. /\ stage' = "idle" /\ ops' = <<>> /\ clean' = clean /\ failed' = failed /\ outcome' = "done"
  BY DEF Return
<1>2. OutcomeIsTrue'
  BY <1>1 DEF OutcomeIsTrue
<1>3. Ground'
  BY DEF Ground
<1> QED
  BY <1>1, <1>2, <1>3, Elsewhere DEF OutputInv, Stages, Resting

LEMMA SameFrame == Same => UNCHANGED <<backends, edit, caps, selected, held, supplanted>>
BY DEF Same, chainVars

LEMMA DeleteDoneKeeps ==
  ASSUME OutputInv, DeleteDone
  PROVE  OutputInv'
<1> DEFINE r == edit.restore
           n == Len(r)
<1>1. /\ Ground /\ r \in Seq(STRING) /\ edit.text \in Seq(STRING) /\ n \in Nat /\ caps \in BOOLEAN
      /\ stage = "delete" /\ ops = <<>> /\ failed \in {"no", "safe", "partial"}
      /\ UNCHANGED <<backends, edit, caps, selected, held, supplanted, screen>>
  BY SameFrame DEF DeleteDone, StageEnds, OutputInv, Ground
<1>2. PICK p : p = DeletePlan(n)
  OBVIOUS
<1>3. /\ Working(p) /\ (clean => screen = Before \o Upto(r, n - emitted))
      /\ selected \in Backends /\ (selected = "uinput" => Typeable(edit.text))
  BY <1>1, <1>2 DEF OutputInv, Deleting, Shows
<1>4. /\ Len(p) = n /\ emitted \in 0..n
      /\ failed = "no" => emitted = n /\ (clean => held = {})
  BY <1>1, <1>2, <1>3, PlanDone, DeletePlanned
<1>5. CASE failed = "partial"
  <2>1. Return("partial") /\ n - emitted \in 0..n
    BY <1>1, <1>4, <1>5 DEF DeleteDone
  <2> QED
    BY <1>1, <1>3, <2>1, Between
<1>6. CASE failed = "safe"
  <2>1. WithRestore(LastRunes(r, emitted))
    BY <1>6 DEF DeleteDone
  <2> QED
    BY <1>1, <1>3, <1>4, <2>1, PutBack
<1>7. CASE failed = "no"
  <2>1. /\ Enter(CASE selected = "uinput" -> "type" [] selected = "wtype" -> "wtype" [] OTHER -> "begin",
                 IF selected = "uinput" THEN TypeOps(edit.text) ELSE <<>>)
        /\ clean' = clean
    BY <1>7 DEF DeleteDone
  <2>2. clean => screen = Before \o <<>>
    <3>1. n - emitted = 0
      BY <1>1, <1>4, <1>7
    <3> QED
      BY <1>1, <1>3, <3>1, UptoFacts
  <2>3. Ground'
    BY <1>1 DEF Ground
  <2>4. CASE selected = "uinput"
    <3>1. stage' = "type" /\ ops' = TypeOps(edit.text) /\ emitted' = 0 /\ failed' = "no"
      BY <2>1, <2>4 DEF Enter
    <3>2. PICK q : q = TypePlan(edit.text)
      OBVIOUS
    <3>3. q \in Seq(Planned) /\ Leads(q, TypeOps(edit.text), {}, 0, {}, Len(q))
      BY <1>1, <1>3, <2>4, <3>2, TypePlanned
    <3>4. Working(q)'
      BY <1>1, <1>4, <1>7, <2>1, <3>1, <3>3, StageStarts
    <3>5. TypePlan(edit.text)' = q
      BY <1>1, <3>2 DEF TypePlan, Mods
    <3>6. Working(TypePlan(edit.text))' /\ Typeable(edit.text)' /\ selected' = "uinput"
      BY <1>1, <1>3, <2>4, <3>4, <3>5 DEF Working, DueKeys, Typeable
    <3>7. Shows(Upto(edit.text, emitted))'
      BY <1>1, <2>1, <2>2, <3>1, UptoFacts DEF Shows
    <3>8. TypingText'
      BY <3>1, <3>6, <3>7 DEF TypingText
    <3> QED
      BY <2>3, <3>1, <3>8, Elsewhere DEF OutputInv, Stages
  <2>5. CASE selected # "uinput"
    <3>1. /\ stage' = (IF selected = "wtype" THEN "wtype" ELSE "begin") /\ ops' = <<>> /\ failed' = "no"
      BY <2>1, <2>5 DEF Enter
    <3>2. selected' = IF stage' = "wtype" THEN "wtype" ELSE "clipboard"
      BY <1>1, <1>3, <2>5, <3>1 DEF Backends
    <3>3. Waiting'
      BY <1>1, <1>4, <1>7, <2>1, <2>2, <3>1, <3>2 DEF Waiting, Shows
    <3> QED
      BY <2>3, <3>1, <3>3, Elsewhere DEF OutputInv, Stages
  <2> QED
    BY <2>4, <2>5
<1> QED
  BY <1>1, <1>5, <1>6, <1>7

LEMMA TypeDoneKeeps ==
  ASSUME OutputInv, TypeDone
  PROVE  OutputInv'
<1> DEFINE r == edit.restore
           t == edit.text
<1>1. /\ Ground /\ r \in Seq(STRING) /\ t \in Seq(STRING) /\ Len(r) \in Nat /\ Len(t) \in Nat
      /\ stage = "type" /\ ops = <<>> /\ failed \in {"no", "safe", "partial"}
      /\ UNCHANGED <<backends, edit, caps, selected, held, supplanted, screen>>
  BY SameFrame DEF TypeDone, StageEnds, OutputInv, Ground
<1>2. PICK p : p = TypePlan(t)
  OBVIOUS
<1>3. /\ Working(p) /\ Typeable(t) /\ (failed = "safe" => emitted = 0)
      /\ clean => screen = Before \o Upto(t, emitted)
  BY <1>1, <1>2 DEF OutputInv, TypingText, Shows
<1>4. /\ emitted \in 0..Len(t)
      /\ failed = "no" => emitted = Len(t) /\ (clean => held = {})
  BY <1>1, <1>2, <1>3, PlanDone, TypePlanned
<1>5. CASE failed = "no"
  <2>1. Return("done") /\ Upto(t, emitted) = t
    BY <1>1, <1>4, <1>5, UptoFacts DEF TypeDone
  <2>2. clean => held = {} /\ screen' = Before \o edit.text
    BY <1>1, <1>3, <1>4, <1>5, <2>1
  <2>3. clean => held = {} /\ (screen' = Before \o edit.text \/ (selected = "clipboard" /\ supplanted))
    BY <2>2
  <2>4. UNCHANGED <<edit, caps, backends, selected, held, supplanted>>
    BY <1>1
  <2> QED
    BY <1>1, <2>1, <2>3, <2>4, Done
<1>6. CASE failed = "safe"
  <2>1. WithRestore(LastRunes(r, Len(r))) /\ Len(r) \in 0..Len(r)
    <3>1. WithRestore(r)
      BY <1>6 DEF TypeDone
    <3> QED
      BY <1>1, <3>1, LastRunesFacts
  <2>2. Upto(t, 0) = <<>> /\ Upto(r, Len(r) - Len(r)) = <<>>
    <3>1. Len(r) - Len(r) = 0
      BY <1>1
    <3> QED
      BY <1>1, <3>1, UptoFacts
  <2> QED
    BY <1>1, <1>3, <1>6, <2>1, <2>2, PutBack
<1>7. CASE failed = "partial"
  <2>1. Return("partial")
    BY <1>7 DEF TypeDone
  <2> QED
    BY <1>1, <1>3, <1>4, <2>1, Between
<1> QED
  BY <1>1, <1>5, <1>6, <1>7

LEMMA RestoreDoneKeeps ==
  ASSUME OutputInv, RestoreDone
  PROVE  OutputInv'
<1> DEFINE r == edit.restore
           n == Len(r)
<1>1. /\ Ground /\ r \in Seq(STRING) /\ n \in Nat
      /\ stage = "restore" /\ ops = <<>> /\ failed \in {"no", "safe", "partial"}
      /\ UNCHANGED <<backends, edit, caps, selected, held, supplanted, screen>>
  BY SameFrame DEF RestoreDone, StageEnds, OutputInv, Ground
<1>2. PICK k \in 0..n :
        /\ Typeable(LastRunes(r, k)) /\ Working(TypePlan(LastRunes(r, k)))
        /\ selected # "wtype" => (clean => screen = Before \o Upto(r, n - k + emitted))
  BY <1>1 DEF OutputInv, PuttingBack, Shows
<1>3. emitted \in 0..k /\ (failed = "no" => emitted = k)
  BY <1>1, <1>2, PlanDone, TypePlanned, LastRunesFacts
<1>4. n - k + emitted \in 0..n /\ (emitted = k => n - k + emitted = n)
  <2>1. k \in 0..n /\ emitted \in 0..k /\ n \in Nat
    BY <1>1, <1>2, <1>3
  <2> HIDE DEF n
  <2> QED
    BY <2>1
<1>5. CASE failed = "no"
  <2>1. /\ stage' = "idle" /\ ops' = <<>> /\ clean' = clean /\ failed' = failed /\ outcome' = "restored"
    BY <1>5 DEF RestoreDone, Return
  <2>2. Upto(r, n - k + emitted) = r
    <3>1. n - k + emitted = n
      BY <1>3, <1>4, <1>5
    <3> QED
      BY <1>1, <3>1, UptoFacts
  <2>3. OutcomeIsTrue'
    BY <1>1, <1>2, <2>1, <2>2 DEF OutcomeIsTrue
  <2>4. Ground'
    BY <1>1 DEF Ground
  <2> QED
    BY <1>1, <2>1, <2>3, <2>4, Elsewhere DEF OutputInv, Stages, Resting
<1>6. CASE failed # "no"
  <2>1. Return("unrestored") /\ outcome' = "unrestored"
    BY <1>6 DEF RestoreDone, Return
  <2> QED
    BY <1>1, <1>2, <1>4, <2>1, Between
<1> QED
  BY <1>5, <1>6

LEMMA PutAllBack ==
  ASSUME Ground, UNCHANGED <<edit, caps, backends, selected, held>>, WithRestore(edit.restore),
         selected # "wtype" => (clean => screen' = Before \o <<>>),
         failed \in {"no", "safe", "partial"}
  PROVE  OutputInv'
<1> DEFINE r == edit.restore
<1>1. r \in Seq(STRING) /\ Len(r) \in Nat /\ Len(r) \in 0..Len(r) /\ Len(r) - Len(r) = 0
  BY DEF Ground
<1>2. LastRunes(r, Len(r)) = r /\ Upto(r, Len(r) - Len(r)) = <<>>
  BY <1>1, LastRunesFacts, UptoFacts
<1>3. WithRestore(LastRunes(r, Len(r)))
  BY <1>2
<1>4. selected # "wtype" => (clean => screen' = Before \o Upto(r, Len(r) - Len(r)))
  BY <1>2
<1> HIDE DEF r
<1> QED
  BY <1>1, <1>3, <1>4, PutBack DEF r

(* Between the stages that press keys.                                     *)
LEMMA Waits ==
  ASSUME OutputInv, UNCHANGED <<edit, caps, backends, selected, held, screen>>, selected = "clipboard",
         NEW st \in {"copy", "abort"}, Enter(st, <<>>),
         clean' => clean, clean => screen = Before \o <<>>, clean => held = {}
  PROVE  OutputInv'
<1>1. stage' = st /\ ops' = <<>> /\ failed' = "no"
  BY DEF Enter
<1>2. Waiting'
  BY <1>1 DEF Waiting, Shows
<1>3. Ground'
  BY DEF OutputInv, Ground
<1> QED
  BY <1>1, <1>2, <1>3, Elsewhere DEF OutputInv, Stages

LEMMA RunWtypeKeeps ==
  ASSUME OutputInv, RunWtype
  PROVE  OutputInv'
<1>1. /\ Ground /\ failed \in {"no", "safe", "partial"} /\ selected = "wtype"
      /\ clean => screen = Before \o <<>> /\ held = {}
      /\ UNCHANGED <<backends, edit, caps, selected, held, supplanted>>
  BY SameFrame DEF RunWtype, OutputInv, Waiting, Shows
<1>2. Before \o <<>> = Before
  BY BeforeSigns, ConcatEmptySeq
<1>3. CASE screen' = screen \o edit.text /\ Return("done")
  <2>1. clean => held = {} /\ screen' = Before \o edit.text
    BY <1>1, <1>2, <1>3
  <2>2. clean => held = {} /\ (screen' = Before \o edit.text \/ (selected = "clipboard" /\ supplanted))
    BY <2>1
  <2> QED
    BY <1>1, <1>3, <2>2, Done
<1>4. CASE WithRestore(edit.restore)
  BY <1>1, <1>4, PutAllBack
<1> QED
  BY <1>3, <1>4 DEF RunWtype

LEMMA BeginPasteKeeps ==
  ASSUME OutputInv, BeginPaste
  PROVE  OutputInv'
<1>1. /\ Ground /\ failed \in {"no", "safe", "partial"} /\ selected = "clipboard"
      /\ clean => screen = Before \o <<>> /\ held = {}
      /\ UNCHANGED <<backends, edit, caps, selected, held, screen>>
  BY SameFrame DEF BeginPaste, OutputInv, Waiting, Shows
<1>2. CASE Enter("copy", <<>>) /\ UNCHANGED clean
  BY <1>1, <1>2, Waits
<1>3. CASE WithRestore(edit.restore)
  BY <1>1, <1>3, PutAllBack
<1> QED
  BY <1>2, <1>3 DEF BeginPaste, PasteBegins

LEMMA CopyTextKeeps ==
  ASSUME OutputInv, CopyText
  PROVE  OutputInv'
<1>1. /\ Ground /\ selected = "clipboard"
      /\ clean => screen = Before \o <<>> /\ held = {}
      /\ UNCHANGED <<backends, edit, caps, selected, held, screen, clean>>
  BY SameFrame DEF CopyText, OutputInv, Waiting, Shows
<1>2. CASE clip' = edit.text /\ Enter("paste", PasteOps)
  <2>1. stage' = "paste" /\ ops' = PasteOps /\ failed' = "no"
    BY <1>2 DEF Enter
  <2>2. PasteOps' = PasteOps
    BY DEF PasteOps, Down, Up, Press
  <2>3. PasteKeys'
    BY <1>1, <1>2, <2>1, <2>2 DEF PasteKeys, Shows
  <2>4. Ground'
    BY <1>1 DEF Ground
  <2> QED
    BY <2>1, <2>3, <2>4, Elsewhere DEF OutputInv, Stages
<1>3. CASE Enter("abort", <<>>)
  BY <1>1, <1>3, Waits
<1> QED
  BY <1>2, <1>3 DEF CopyText

LEMMA AbortKeeps ==
  ASSUME OutputInv, Abort
  PROVE  OutputInv'
<1>1. /\ Ground /\ failed \in {"no", "safe", "partial"} /\ WithRestore(edit.restore)
      /\ UNCHANGED <<backends, edit, caps, selected, held, screen>>
  BY SameFrame DEF Abort, OutputInv
<1>2. CASE stage = "abort"
  <2>1. clean => screen = Before \o <<>>
    BY <1>2 DEF OutputInv, Waiting, Shows
  <2> QED
    BY <1>1, <2>1, PutAllBack
<1>3. CASE stage = "paste" /\ failed = "safe"
  <2>1. clean => screen = Before \o <<>>
    BY <1>3 DEF OutputInv, PasteKeys, Shows
  <2> QED
    BY <1>1, <2>1, PutAllBack
<1> QED
  BY <1>2, <1>3 DEF Abort, StageEnds

LEMMA PasteDoneKeeps ==
  ASSUME OutputInv, PasteDone
  PROVE  OutputInv'
<1> DEFINE t == edit.text
<1>1. /\ Ground /\ t \in Seq(STRING) /\ stage = "paste" /\ ops = <<>> /\ selected = "clipboard"
      /\ failed \in {"no", "partial"}
      /\ Return(IF failed = "no" THEN "done" ELSE "partial")
      /\ UNCHANGED <<backends, edit, caps, selected, held, supplanted, screen>>
  BY SameFrame DEF PasteDone, StageEnds, OutputInv, PasteKeys, Ground
<1>2. \/ failed = "no" /\ (~supplanted => Shows(t)) /\ (clean => held = {})
      \/ failed = "partial" /\ (~supplanted => Shows(<<>>) \/ Shows(t))
  <2>1. /\ PasteOps # <<>> /\ Tail(PasteOps) # <<>> /\ Tail(Tail(PasteOps)) # <<>>
        /\ Tail(Tail(Tail(PasteOps))) # <<>>
    BY PasteList
  <2> QED
    BY <1>1, <2>1 DEF OutputInv, PasteKeys
<1>3. CASE failed = "no"
  <2>1. clean => held = {} /\ (screen' = Before \o edit.text \/ (selected = "clipboard" /\ supplanted))
    BY <1>1, <1>2, <1>3 DEF Shows
  <2> QED
    BY <1>1, <1>3, <2>1, Done
<1>4. CASE failed = "partial" /\ ~supplanted
  <2>1. Len(t) \in 0..Len(t) /\ 0 \in 0..Len(t) /\ Return("partial")
    BY <1>1, <1>4
  <2>2. Upto(t, 0) = <<>> /\ Upto(t, Len(t)) = t
    BY <1>1, UptoFacts
  <2>3. PICK n \in 0..Len(t) : clean => screen = Before \o Upto(t, n)
    BY <1>2, <1>4, <2>1, <2>2 DEF Shows
  <2> QED
    BY <1>1, <2>1, <2>3, Between
<1>5. CASE failed = "partial" /\ supplanted
  <2>1. stage' = "idle" /\ ops' = <<>> /\ failed' = failed
    BY <1>1 DEF Return
  <2>2. OutcomeIsTrue'
    BY <1>1, <1>5 DEF OutcomeIsTrue
  <2>3. Ground'
    BY <1>1 DEF Ground
  <2> QED
    BY <1>1, <2>1, <2>2, <2>3, Elsewhere DEF OutputInv, Stages, Resting
<1> QED
  BY <1>1, <1>3, <1>4, <1>5

-----------------------------------------------------------------------------
(* Outside of the stages.                                                  *)

LEMMA ChainsOfBackends ==
  /\ NewExpanderBackends \in Seq(Backends)
  /\ \A s \in Settings : BuildBackends(s) \in Seq(Backends)
<1>1. /\ IfAvailable \in Seq(Backends) /\ << "uinput" >> \in Seq(Backends)
      /\ << "wtype" >> \in Seq(Backends) /\ << "clipboard" >> \in Seq(Backends) /\ <<>> \in Seq(Backends)
  <2>1. "uinput" \in Backends /\ "wtype" \in Backends /\ "clipboard" \in Backends
    BY DEF Backends
  <2> HIDE DEF Backends
  <2>2. \A b \in Backends : <<b>> \in Seq(Backends)
    OBVIOUS
  <2>3. << "uinput" >> \in Seq(Backends) /\ << "wtype" >> \in Seq(Backends) /\ << "clipboard" >> \in Seq(Backends)
    BY <2>1, <2>2
  <2>4. <<>> \in Seq(Backends)
    OBVIOUS
  <2> QED
    BY <2>3, <2>4 DEF IfAvailable
<1>2. ASSUME NEW a \in Seq(Backends), NEW b \in Seq(Backends)
      PROVE  a \o b \in Seq(Backends)
  BY ConcatProperties
<1> HIDE DEF Backends, IfAvailable
<1>3. NewExpanderBackends \in Seq(Backends)
  <2>1. << "uinput" >> \o IfAvailable \in Seq(Backends)
    BY <1>1, <1>2
  <2> QED
    BY <1>1, <1>2, <2>1 DEF NewExpanderBackends
<1>4. ASSUME NEW s \in Settings
      PROVE  BuildBackends(s) \in Seq(Backends)
  <2> DEFINE first == CASE s.output = "uinput" -> << "uinput" >>
                        [] s.output = "wtype"  -> << "wtype" >>
                        [] OTHER               -> << "uinput" >> \o IfAvailable
             last == IF s.allowClipboard THEN << "clipboard" >> ELSE <<>>
  <2>1. << "uinput" >> \o IfAvailable \in Seq(Backends)
    BY <1>1, <1>2
  <2>2. first \in Seq(Backends)
    BY <1>1, <2>1
  <2>3. last \in Seq(Backends)
    BY <1>1
  <2>4. BuildBackends(s) = first \o last
    BY DEF BuildBackends
  <2> HIDE DEF first, last
  <2> QED
    BY <1>2, <2>2, <2>3, <2>4
<1> QED
  BY <1>3, <1>4

LEMMA OutputStarts == OutInit => OutputInv
<1> SUFFICES ASSUME OutInit PROVE OutputInv
  OBVIOUS
<1>1. PICK s \in Settings : backends = [expander |-> NewExpanderBackends, corrector |-> BuildBackends(s)]
  BY DEF OutInit
<1>2. backends \in [{"expander", "corrector"} -> Seq(Backends)]
  <2>1. NewExpanderBackends \in Seq(Backends) /\ BuildBackends(s) \in Seq(Backends)
    BY ChainsOfBackends
  <2> QED
    BY <1>1, <2>1
<1>3. Ground
  <2>1. <<>> \in Seq(STRING)
    OBVIOUS
  <2>2. edit = [restore |-> <<>>, text |-> <<>>] /\ caps = FALSE
    BY DEF OutInit
  <2> QED
    BY <1>2, <2>1, <2>2 DEF Ground
<1>4. OutcomeIsTrue
  <2>1. Before \o <<>> = Before
    BY BeforeSigns, ConcatEmptySeq
  <2> QED
    BY <2>1 DEF OutInit, OutcomeIsTrue
<1> QED
  BY <1>3, <1>4 DEF OutInit, OutputInv, Stages, Deleting, TypingText, PuttingBack, Waiting, PasteKeys, Resting

LEMMA ApplyKeeps ==
  ASSUME OutputInv, NEW w \in {"expander", "corrector"}, NEW e \in Edits, Apply(w, e)
  PROVE  OutputInv'
<1> DEFINE r == e.restore
           n == Len(r)
           able == Able(w, e.text)
<1>1. /\ r \in Seq(STRING) /\ e.text \in Seq(STRING) /\ n \in Nat
      /\ backends \in [{"expander", "corrector"} -> Seq(Backends)] /\ backends' = backends
      /\ edit' = e /\ caps' \in BOOLEAN /\ screen' = Before \o r /\ clean' = (held = {}) /\ held' = held
      /\ stage = "idle" /\ ops = <<>> /\ failed \in {"no", "safe", "partial"}
  BY SettingsAssumption DEF Apply, OutputInv, Ground, Resting
<1>2. Ground'
  BY <1>1 DEF Ground
<1>3. CASE able = {}
  <2>1. outcome' = "refused" /\ stage' = "idle" /\ ops' = <<>> /\ failed' = failed
    BY <1>1, <1>3 DEF Apply
  <2>2. OutcomeIsTrue'
    BY <1>1, <2>1 DEF OutcomeIsTrue
  <2> QED
    BY <1>1, <1>2, <2>1, <2>2, Elsewhere DEF OutputInv, Stages, Resting
<1>4. CASE able # {}
  <2> DEFINE m == Min(able)
  <2>1. selected' = backends[w][m] /\ Enter("delete", DeleteOps(n))
    BY <1>4 DEF Apply
  <2>2. able \subseteq Nat /\ able \subseteq 1..Len(backends[w]) /\ backends[w] \in Seq(Backends)
    BY <1>1 DEF Able
  <2>3. m \in able
    <3> HIDE DEF able
    <3>1. \E i \in able : \A j \in able : i =< j
      BY <1>4, <2>2, Least
    <3> QED
      BY <3>1 DEF Min
  <2>4. Validates(w, backends[w][m], e.text) /\ backends[w][m] \in Backends
    <3>1. Validates(w, backends[w][m], e.text)
      BY <2>3 DEF Able
    <3>2. m \in 1..Len(backends[w])
      BY <2>2, <2>3
    <3> HIDE DEF m
    <3>3. backends[w][m] \in Backends
      BY <2>2, <3>2
    <3> QED
      BY <3>1, <3>3
  <2>5. selected' \in Backends /\ (selected' = "uinput" => Typeable(e.text))
    BY <2>1, <2>4 DEF Validates
  <2>6. stage' = "delete" /\ ops' = DeleteOps(n) /\ emitted' = 0 /\ failed' = "no"
    BY <2>1 DEF Enter
  <2>7. PICK p : p = DeletePlan(n)
    OBVIOUS
  <2>8. p \in Seq(Planned) /\ Leads(p, DeleteOps(n), {}, 0, {}, Len(p))
    BY <1>1, <2>7, DeletePlanned
  <2>9. Working(p)'
    BY <1>1, <2>6, <2>8, StageStarts
  <2>10. DeletePlan(Len(edit.restore))' = p
    BY <1>1, <2>7 DEF DeletePlan
  <2>11. Shows(Upto(edit.restore, Len(edit.restore) - emitted))'
    <3>1. n - 0 = n /\ Upto(r, n) = r
      BY <1>1, UptoFacts
    <3> QED
      BY <1>1, <2>6, <3>1 DEF Shows
  <2>12. Working(DeletePlan(Len(edit.restore)))' /\ (selected' = "uinput" => Typeable(edit.text)')
    BY <1>1, <2>5, <2>9, <2>10 DEF Working, DueKeys, Typeable
  <2>13. Deleting'
    BY <2>5, <2>11, <2>12 DEF Deleting
  <2> QED
    BY <1>1, <1>2, <2>6, <2>13, Elsewhere DEF OutputInv, Stages
<1> QED
  BY <1>3, <1>4

LEMMA ReloadKeeps ==
  ASSUME OutputInv, NEW s \in Settings, ReloadSettings(s)
  PROVE  OutputInv'
<1>1. /\ backends' = [backends EXCEPT !["corrector"] = BuildBackends(s)]
      /\ stage = "idle"
      /\ UNCHANGED <<stage, ops, edit, caps, selected, outcome, screen, clean, supplanted, failed, held>>
  BY DEF ReloadSettings, keyVars
<1>2. Ground'
  BY <1>1, ChainsOfBackends DEF OutputInv, Ground
<1>3. Resting'
  BY <1>1 DEF OutputInv, Resting, OutcomeIsTrue
<1> QED
  BY <1>1, <1>2, <1>3, Elsewhere DEF OutputInv

(* A step that leaves a stage alone: the clipboard counts in a paste only.  *)
LEMMA StageUntouched ==
  ASSUME OutputInv,
         UNCHANGED <<backends, stage, edit, caps, selected, ops, emitted, failed, outcome, screen, held, clean>>,
         supplanted => supplanted',
         stage = "paste" /\ ~supplanted' => clip' = clip
  PROVE  OutputInv'
<1>1. Ground' /\ stage' \in Stages /\ failed' \in {"no", "safe", "partial"}
  BY DEF OutputInv, Ground
<1>2. Deleting'
  BY DEF OutputInv, Deleting, Working, DueKeys, Shows, Typeable
<1>3. TypingText'
  BY DEF OutputInv, TypingText, Working, DueKeys, Shows, Typeable, TypePlan, Mods
<1>4. PuttingBack'
  BY DEF OutputInv, PuttingBack, Working, DueKeys, Shows, Typeable, TypePlan, Mods
<1>5. Waiting'
  BY DEF OutputInv, Waiting, Shows
<1>6. PasteKeys'
  BY DEF OutputInv, PasteKeys, Shows, PasteOps, Down, Up, Press
<1>7. Resting'
  BY DEF OutputInv, Resting, OutcomeIsTrue
<1> QED
  BY <1>1, <1>2, <1>3, <1>4, <1>5, <1>6, <1>7 DEF OutputInv

LEMMA OtherStepsKeep ==
  ASSUME OutputInv, ClipboardInv,
         UserCopies \/ (\E g \in 1..MaxEdits : RestoreClipboard(g)) \/ UNCHANGED outVars
  PROVE  OutputInv'
<1>1. CASE UserCopies
  BY <1>1, StageUntouched DEF UserCopies, keyVars, chainVars
<1>2. CASE \E g \in 1..MaxEdits : RestoreClipboard(g)
  <2>1. PICK g \in 1..MaxEdits : RestoreClipboard(g)
    BY <1>2
  <2>2. /\ UNCHANGED <<backends, stage, edit, caps, selected, ops, emitted, failed, outcome, screen, held, clean>>
        /\ supplanted' = supplanted
    BY <2>1 DEF RestoreClipboard, keyVars, chainVars
  <2>3. stage = "paste" => clip' = clip
    BY <2>1 DEF RestoreClipboard, ClipboardInv, Pasting
  <2> QED
    BY <2>2, <2>3, StageUntouched
<1>3. CASE UNCHANGED outVars
  BY <1>3, StageUntouched DEF outVars, keyVars, chainVars, clipVars
<1> QED
  BY <1>1, <1>2, <1>3

LEMMA OutputKept == OutputInv /\ ClipboardInv /\ [OutNext]_outVars => OutputInv'
<1> SUFFICES ASSUME OutputInv, ClipboardInv, [OutNext]_outVars PROVE OutputInv'
  OBVIOUS
<1>1. CASE \E w \in {"expander", "corrector"}, e \in Edits : Apply(w, e)
  BY <1>1, ApplyKeeps
<1>2. CASE \E s \in Settings : ReloadSettings(s)
  BY <1>2, ReloadKeeps
<1>3. CASE KeySucceeds \/ KeyFails
  BY <1>3, KeyKeeps DEF KeyStep
<1>4. CASE DeleteDone
  BY <1>4, DeleteDoneKeeps
<1>5. CASE TypeDone
  BY <1>5, TypeDoneKeeps
<1>6. CASE RestoreDone
  BY <1>6, RestoreDoneKeeps
<1>7. CASE RunWtype
  BY <1>7, RunWtypeKeeps
<1>8. CASE BeginPaste
  BY <1>8, BeginPasteKeeps
<1>9. CASE CopyText
  BY <1>9, CopyTextKeeps
<1>10. CASE Abort
  BY <1>10, AbortKeeps
<1>11. CASE PasteDone
  BY <1>11, PasteDoneKeeps
<1>12. CASE UserCopies \/ (\E g \in 1..MaxEdits : RestoreClipboard(g)) \/ UNCHANGED outVars
  BY <1>12, OtherStepsKeep
<1> QED
  BY <1>1, <1>2, <1>3, <1>4, <1>5, <1>6, <1>7, <1>8, <1>9, <1>10, <1>11, <1>12 DEF OutNext, Step

LEMMA OutputInvariant == OutSpec => []OutputInv
<1>1. OutInit => OutputInv
  BY OutputStarts
<1>2. OutputInv /\ ClipboardInv /\ [OutNext]_outVars => OutputInv'
  BY OutputKept
<1> QED
  BY <1>1, <1>2, ClipboardInvariant, PTL DEF OutSpec

(* What Apply tells its caller is what happened to the text, whichever of   *)
(* the operations and commands fail and how often, and whenever the user    *)
(* copies: done means the new text in place and no key down, refused or    *)
(* restored the old text letter for letter, any other error a text some    *)
(* way between the two (Writer.Apply, withRestore, Clipboard.Type).        *)
THEOREM OutcomesAreTrue == OutSpec => []OutcomeIsTrue
<1>1. OutputInv => OutcomeIsTrue
  BY DEF OutputInv, Resting, OutcomeIsTrue
<1> QED
  BY <1>1, OutputInvariant, PTL

-----------------------------------------------------------------------------
(* Which keys are down.                                                    *)

LEMMA SomeOperations ==
  ASSUME OutputInv, ops # <<>>
  PROVE  ops \in Seq(Operation)
<1>1. CASE stage = "paste"
  <2> DEFINE p == PasteOps
             S == {Down("KEY_LEFTCTRL", 1), Up("KEY_LEFTCTRL", 1), Down("KEY_V", 1), Up("KEY_V", 1)}
  <2>1. S \subseteq Operation
    <3>1. "KEY_LEFTCTRL" \in ModifierKeys
      BY DEF ModifierKeys, ModifierClass
    <3> QED
      BY <3>1 DEF Down, Up, Operation, PressedKeys
  <2>2. p \in Seq(Operation)
    <3>1. /\ << Down("KEY_LEFTCTRL", 1) >> \in Seq(S) /\ Press("KEY_V", 1) \in Seq(S)
          /\ << Up("KEY_LEFTCTRL", 1) >> \in Seq(S)
      BY DEF Press
    <3> HIDE DEF S
    <3>2. /\ << Down("KEY_LEFTCTRL", 1) >> \in Seq(Operation) /\ Press("KEY_V", 1) \in Seq(Operation)
          /\ << Up("KEY_LEFTCTRL", 1) >> \in Seq(Operation)
      BY <2>1, <3>1
    <3>3. << Down("KEY_LEFTCTRL", 1) >> \o Press("KEY_V", 1) \in Seq(Operation)
      BY <3>2, ConcatProperties
    <3> QED
      BY <3>2, <3>3, ConcatProperties DEF PasteOps
  <2>3. p # <<>> /\ Tail(p) # <<>> /\ Tail(Tail(p)) # <<>>
    BY PasteList
  <2> HIDE DEF p
  <2>4. Tail(p) \in Seq(Operation) /\ Tail(Tail(p)) \in Seq(Operation) /\ Tail(Tail(Tail(p))) \in Seq(Operation)
    <3>1. Tail(p) \in Seq(Operation)
      BY <2>2, <2>3, HeadTailProperties
    <3>2. Tail(Tail(p)) \in Seq(Operation)
      BY <2>3, <3>1, HeadTailProperties
    <3> QED
      BY <2>3, <3>1, <3>2, HeadTailProperties
  <2>5. ops \in {p, Tail(p), Tail(Tail(p)), Tail(Tail(Tail(p)))} \/ Releases(ops)
    BY <1>1 DEF OutputInv, PasteKeys, p
  <2> QED
    BY <2>2, <2>4, <2>5 DEF Releases
<1>2. CASE stage # "paste"
  <2>1. PICK p : Working(p)
    BY <1>2 DEF OutputInv, Deleting, TypingText, PuttingBack, Waiting, Resting, Stages
  <2> QED
    BY <2>1 DEF Working, Leads, InPlan, Releases
<1> QED
  BY <1>1, <1>2

(* In a paste only Ctrl and V go down.                                     *)
LEMMA PasteHead ==
  ASSUME OutputInv, stage = "paste", ops # <<>>
  PROVE  Head(ops).key \in ModifierKeys \cup {"KEY_V"}
<1> DEFINE p == PasteOps
<1>1. \/ ops \in {p, Tail(p), Tail(Tail(p)), Tail(Tail(Tail(p)))}
      \/ Releases(ops)
  BY DEF OutputInv, PasteKeys
<1>2. CASE ops \in {p, Tail(p), Tail(Tail(p)), Tail(Tail(Tail(p)))}
  <2> DEFINE C == "KEY_LEFTCTRL"
             V == "KEY_V"
  <2>1. Head(ops) \in {Down(C, 1), Down(V, 1), Up(V, 1), Up(C, 1)}
    <3> HIDE DEF C, V, p
    <3>1. /\ Head(p) = Down(C, 1) /\ Head(Tail(p)) = Down(V, 1)
          /\ Head(Tail(Tail(p))) = Up(V, 1) /\ Head(Tail(Tail(Tail(p)))) = Up(C, 1)
      BY PasteList DEF C, V, p
    <3> QED
      BY <1>2, <3>1
  <2>2. C \in ModifierKeys
    BY DEF ModifierKeys, ModifierClass
  <2> QED
    BY <2>1, <2>2 DEF Down, Up
<1>3. CASE Releases(ops)
  BY <1>3, ReleasesStep
<1> QED
  BY <1>1, <1>2, <1>3

(* A character's key that goes down is the next to come up.                *)
LEMMA KeyComesUp ==
  ASSUME OutputInv, KeySucceeds, Head(ops).down, Head(ops).key \notin ModifierKeys \cup {"KEY_V"}
  PROVE  ops' # <<>> /\ ~ops'[1].down /\ ops'[1].key = Head(ops).key
<1> DEFINE o == Head(ops)
<1>1. KeyStep /\ ops # <<>> /\ ops' = Tail(ops)
  BY DEF KeySucceeds, KeyStep
<1>2. stage \in {"delete", "type", "restore"}
  BY <1>1, PasteHead DEF OutputInv, Stages, Waiting, Resting
<1>3. PICK p : Working(p)
  BY <1>2 DEF OutputInv, Deleting, TypingText, PuttingBack
<1>4. failed = "no"
  <2>1. CASE failed # "no"
    BY <1>1, <1>3, <2>1, ReleasesStep DEF Working
  <2> QED
    BY <2>1
<1>5. Leads(p, ops, DueKeys(p), emitted, {}, Len(p))
  BY <1>3, <1>4 DEF Working
<1>6. o = ops[1]
  <2>1. ops \in Seq(Operation)
    BY <1>5 DEF Leads, InPlan
  <2> QED
    BY <1>1, <2>1
<1> HIDE DEF o
<1>7. /\ Leads(p, ops', HeldPast(p, o), TypedPast(o), {}, Len(p))
      /\ ops' # <<>> => Follows(p, o, ops'[1])
  BY <1>1, <1>5, <1>6, TailLeads
<1>8. o.key \in HeldPast(p, o)
  BY DEF HeldPast, o
<1>9. ops' # <<>> /\ o.key \in HeldAt(p, ops'[1])
  BY <1>7, <1>8 DEF Leads, Follows
<1>10. "KEY_LEFTSHIFT" \in ModifierKeys /\ "KEY_RIGHTALT" \in ModifierKeys
  BY DEF ModifierKeys, ModifierClass
<1>11. o.key \in Itself(ops'[1])
  <2>1. \A x : HeldAt(p, x) \subseteq {"KEY_LEFTSHIFT", "KEY_RIGHTALT"} \cup Itself(x)
    BY DEF HeldAt, ShiftOf, AltGrOf
  <2>2. o.key \notin {"KEY_LEFTSHIFT", "KEY_RIGHTALT"}
    BY <1>10 DEF o
  <2> QED
    BY <1>9, <2>1, <2>2
<1> QED
  BY <1>9, <1>11 DEF Itself, o

LEMMA KeyWorksKeepsKeys ==
  ASSUME KeyInv, OutputInv, KeySucceeds
  PROVE  KeyInv'
<1> DEFINE o == Head(ops)
<1>1. /\ ops # <<>> /\ ops' = Tail(ops) /\ UNCHANGED <<failed, faults>> /\ retried' = FALSE
      /\ held' = (IF o.down THEN held \cup {o.key} ELSE held \ {o.key})
  BY DEF KeySucceeds
<1>2. o = ops[1]
  <2>1. ops \in Seq(Operation)
    BY <1>1, SomeOperations
  <2> QED
    BY <1>1, <2>1
<1>3. SUFFICES ASSUME MaxFaults - faults <= 1
               PROVE  TextHeld' \subseteq IF ops' # <<>> /\ ~ops'[1].down THEN {ops'[1].key} ELSE {}
  BY <1>1 DEF KeyInv
<1>4. TextHeld \subseteq IF ~o.down THEN {o.key} ELSE {}
  BY <1>1, <1>2, <1>3 DEF KeyInv
<1>5. CASE ~o.down
  <2>1. TextHeld' = {}
    BY <1>1, <1>4, <1>5 DEF TextHeld
  <2> QED
    BY <2>1
<1>6. CASE o.down /\ o.key \in ModifierKeys \cup {"KEY_V"}
  <2>1. TextHeld' = {}
    BY <1>1, <1>4, <1>6 DEF TextHeld
  <2> QED
    BY <2>1
<1>7. CASE o.down /\ o.key \notin ModifierKeys \cup {"KEY_V"}
  <2>1. TextHeld' \subseteq {o.key}
    BY <1>1, <1>4, <1>7 DEF TextHeld
  <2>2. ops' # <<>> /\ ~ops'[1].down /\ ops'[1].key = o.key
    BY <1>7, KeyComesUp
  <2> QED
    BY <2>1, <2>2
<1> QED
  BY <1>5, <1>6, <1>7

(* keyStroke tries the release of a text key once more, so the first        *)
(* failure finds no text key down that is not up when the next one comes.  *)
LEMMA KeyFailsKeepsKeys ==
  ASSUME KeyInv, OutputInv, KeyFails
  PROVE  KeyInv'
<1> DEFINE o == Head(ops)
<1>1. /\ ops # <<>> /\ faults > 0 /\ faults' = faults - 1 /\ held' = held
      /\ faults \in 0..MaxFaults /\ MaxFaults \in Nat
  BY SettingsAssumption DEF KeyFails, KeyInv
<1>2. faults' \in 0..MaxFaults /\ faults' < MaxFaults
  BY <1>1
<1>3. o = ops[1]
  <2>1. ops \in Seq(Operation)
    BY <1>1, SomeOperations
  <2> QED
    BY <1>1, <2>1
<1>4. SUFFICES ASSUME MaxFaults - faults' <= 1
               PROVE  TextHeld' \subseteq IF ops' # <<>> /\ ~ops'[1].down THEN {ops'[1].key} ELSE {}
  BY <1>2 DEF KeyInv
<1>5. failed = "no" /\ ~retried /\ MaxFaults - faults <= 1
  BY <1>1, <1>4 DEF KeyInv
<1>6. TextHeld' = TextHeld /\ TextHeld \subseteq IF ~o.down THEN {o.key} ELSE {}
  BY <1>1, <1>3, <1>5 DEF KeyInv, TextHeld
<1>7. CASE Retries(o)
  <2>1. ops' = ops
    BY <1>5, <1>7 DEF KeyFails
  <2> QED
    BY <1>1, <1>3, <1>6, <2>1
<1>8. CASE ~Retries(o)
  <2>1. o.down \/ o.key \in ModifierKeys \cup {"KEY_V"}
    BY <1>1, <1>5, <1>8, PasteHead DEF Retries
  <2>2. TextHeld = {}
    BY <1>6, <2>1 DEF TextHeld
  <2> QED
    BY <1>6, <2>2
<1> QED
  BY <1>7, <1>8

(* The other steps press nothing and begin a stage with no key left over.   *)
LEMMA QuietKeys ==
  ASSUME KeyInv, held' = held, ops = <<>> \/ ops' = ops,
         faults' = faults \/ (faults > 0 /\ faults' = faults - 1),
         failed' = "no" \/ failed' = failed, retried' => retried
  PROVE  KeyInv'
<1>1. faults \in 0..MaxFaults /\ MaxFaults \in Nat /\ faults' \in 0..MaxFaults /\ faults' <= faults
  BY SettingsAssumption DEF KeyInv
<1>2. retried' \/ failed' # "no" => faults' < MaxFaults
  BY <1>1 DEF KeyInv
<1>3. ASSUME MaxFaults - faults' <= 1
      PROVE  TextHeld' \subseteq IF ops' # <<>> /\ ~ops'[1].down THEN {ops'[1].key} ELSE {}
  <2>1. MaxFaults - faults <= 1
    <3>1. faults \in Nat /\ faults' \in Nat /\ MaxFaults \in Nat /\ faults' <= faults
      BY <1>1
    <3>2. MaxFaults - faults' <= 1
      BY <1>3
    <3>3. \A m, f, g \in Nat : g <= f /\ m - g <= 1 => m - f <= 1
      OBVIOUS
    <3>4. MaxFaults - faults <= 1
      BY <3>1, <3>2, <3>3
    <3> QED
      BY <3>4
  <2>2. TextHeld \subseteq IF ops # <<>> /\ ~ops[1].down THEN {ops[1].key} ELSE {}
    BY <2>1 DEF KeyInv
  <2>3. TextHeld' = TextHeld
    BY DEF TextHeld
  <2> QED
    BY <2>2, <2>3
<1> QED
  BY <1>1, <1>2, <1>3 DEF KeyInv

(* What starting or leaving a stage does to failed and retried.            *)
LEMMA StageKeys ==
  /\ \A st, o : Enter(st, o) => failed' = "no" /\ ~retried'
  /\ \A r : Return(r) => UNCHANGED <<failed, retried>>
  /\ \A text : WithRestore(text) => (failed' = "no" \/ failed' = failed) /\ (retried' => retried)
BY DEF Enter, Return, WithRestore

LEMMA KeysKept == KeyInv /\ OutputInv /\ [OutNext]_outVars => KeyInv'
<1> SUFFICES ASSUME KeyInv, OutputInv, [OutNext]_outVars PROVE KeyInv'
  OBVIOUS
<1> DEFINE Charged == faults' = faults \/ (faults > 0 /\ faults' = faults - 1)
           Begun == (failed' = "no" \/ failed' = failed) /\ (retried' => retried)
<1>1. CASE KeySucceeds \/ KeyFails
  BY <1>1, KeyWorksKeepsKeys, KeyFailsKeepsKeys
<1>2. CASE \E w \in {"expander", "corrector"}, e \in Edits : Apply(w, e)
  <2>1. PICK w \in {"expander", "corrector"}, e \in Edits : Apply(w, e)
    BY <1>2
  <2>2. ops = <<>> /\ held' = held /\ faults' = faults
    BY <2>1 DEF Apply, OutputInv, Resting
  <2>3. Begun
    BY <2>1, StageKeys DEF Apply
  <2> QED
    BY <2>2, <2>3, QuietKeys
<1>3. CASE DeleteDone \/ TypeDone \/ RestoreDone
  <2>1. ops = <<>> /\ held' = held /\ faults' = faults
    BY <1>3, SameFrame DEF DeleteDone, TypeDone, RestoreDone, StageEnds
  <2>2. Begun
    <3>1. CASE DeleteDone
      <4>1. \/ Return("partial") \/ WithRestore(LastRunes(edit.restore, emitted))
            \/ \E st, o : Enter(st, o)
        BY <3>1 DEF DeleteDone
      <4> QED
        BY <4>1, StageKeys
    <3>2. CASE TypeDone
      <4>1. Return("done") \/ WithRestore(edit.restore) \/ Return("partial")
        BY <3>2 DEF TypeDone
      <4> QED
        BY <4>1, StageKeys
    <3>3. CASE RestoreDone
      BY <3>3, StageKeys DEF RestoreDone
    <3> QED
      BY <1>3, <3>1, <3>2, <3>3
  <2> QED
    BY <2>1, <2>2, QuietKeys
<1>4. CASE RunWtype \/ BeginPaste \/ CopyText
  <2>1. ops = <<>> /\ held' = held
    BY <1>4, SameFrame DEF RunWtype, BeginPaste, CopyText, OutputInv, Waiting
  <2>2. Charged /\ Begun
    BY <1>4, StageKeys DEF RunWtype, BeginPaste, PasteBegins, CopyText
  <2> QED
    BY <2>1, <2>2, QuietKeys
<1>5. CASE Abort \/ PasteDone
  <2>1. ops = <<>> /\ held' = held
    BY <1>5, SameFrame DEF Abort, PasteDone, StageEnds, OutputInv, Waiting
  <2>2. Charged /\ Begun
    BY <1>5, StageKeys DEF Abort, PasteDone, GiveBack
  <2> QED
    BY <2>1, <2>2, QuietKeys
<1>6. CASE UserCopies \/ (\E s \in Settings : ReloadSettings(s)) \/ UNCHANGED outVars
  <2>1. UNCHANGED <<held, ops, faults, failed, retried>>
    BY <1>6 DEF UserCopies, ReloadSettings, outVars, keyVars
  <2> QED
    BY <2>1, QuietKeys
<1>7. CASE \E g \in 1..MaxEdits : RestoreClipboard(g)
  <2>1. UNCHANGED <<held, ops, failed, retried>> /\ Charged
    BY <1>7 DEF RestoreClipboard, GiveBack, keyVars
  <2> QED
    BY <2>1, QuietKeys
<1> QED
  BY <1>1, <1>2, <1>3, <1>4, <1>5, <1>6, <1>7 DEF OutNext, Step

(* As long as one operation at most has failed, whichever it was and in     *)
(* whatever edit, no Backspace, letter or Enter is down when Apply returns  *)
(* (keyStroke tries the release again; V is pressed by pasteFromClipboard,  *)
(* which does not).                                                        *)
THEOREM TextKeysReleased == OutSpec => []TextKeyReleased
<1>1. OutInit => KeyInv
  BY SettingsAssumption DEF OutInit, KeyInv, TextHeld
<1>2. KeyInv /\ OutputInv /\ [OutNext]_outVars => KeyInv'
  BY KeysKept
<1>3. KeyInv /\ OutputInv => TextKeyReleased
  BY DEF KeyInv, OutputInv, Resting, TextKeyReleased, TextHeld
<1> QED
  BY <1>1, <1>2, <1>3, OutputInvariant, PTL DEF OutSpec
=============================================================================
