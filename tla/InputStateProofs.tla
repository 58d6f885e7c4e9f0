-------------------------- MODULE InputStateProofs --------------------------
(***************************************************************************)
(* Proofs about the modifier tracker, for any finite set of devices and    *)
(* any sequence of events, disconnections and resets.                      *)
(*                                                                         *)
(* The invariant is CountsArePressedKeys with the types.  It is inductive  *)
(* as it stands; what takes work is the arithmetic of sets: each step adds *)
(* or removes keys of a class, and the incremental count has to follow.    *)
(***************************************************************************)
EXTENDS InputState, FiniteSetTheorems, WellFoundedInduction, TLAPS

-----------------------------------------------------------------------------
(* The table ModifierClass: a finite set of keys, each of a known class.   *)

LEMMA ModifierTable ==
  /\ ModifierKeys = { "KEY_LEFTSHIFT", "KEY_RIGHTSHIFT", "KEY_LEFTCTRL", "KEY_RIGHTCTRL",
                      "KEY_LEFTALT", "KEY_RIGHTALT", "KEY_LEFTMETA", "KEY_RIGHTMETA" }
  /\ ModifierClass \in [ModifierKeys -> ModifierClasses]
<1>1. ModifierKeys = { "KEY_LEFTSHIFT", "KEY_RIGHTSHIFT", "KEY_LEFTCTRL", "KEY_RIGHTCTRL",
                       "KEY_LEFTALT", "KEY_RIGHTALT", "KEY_LEFTMETA", "KEY_RIGHTMETA" }
  BY DEF ModifierKeys, ModifierClass
<1>2. ModifierClass = [k \in ModifierKeys |-> ModifierClass[k]]
  BY DEF ModifierKeys, ModifierClass
<1>3. \A k \in ModifierKeys : ModifierClass[k] \in ModifierClasses
  BY <1>1 DEF ModifierClass, ModifierClasses
<1> QED
  BY <1>1, <1>2, <1>3

-----------------------------------------------------------------------------
(* The key tables: letters and their cases, and the reversed table, whose  *)
(* stroke for a character types it.                                        *)

LEMMA LeastNatural ==
  ASSUME NEW T, T \subseteq Nat, T # {}
  PROVE  \E x \in T : \A y \in T : x <= y
<1>1. \A x, y \in Nat : <<y, x>> \in OpToRel(<, Nat) <=> y < x
  BY DEF OpToRel
<1>2. \E x \in T : \A y \in T : ~(<<y, x>> \in OpToRel(<, Nat))
  BY NatLessThanWellFounded, WFMin
<1>3. PICK x \in T : \A y \in T : ~(<<y, x>> \in OpToRel(<, Nat))
  BY <1>2
<1>4. x \in Nat /\ \A y \in T : y \in Nat /\ ~(y < x)
  BY <1>1, <1>3
<1>5. \A y \in T : x <= y
  BY <1>4
<1> QED
  BY <1>5

LEMMA LetterTable ==
  /\ LowerLetters = {"z", "o", "zdot", "oacute"} /\ UpperLetters = {"Z", "O", "Zdot", "Oacute"}
  /\ Upper("z") = "Z" /\ Upper("o") = "O" /\ Upper("Z") = "Z" /\ Upper("O") = "O"
  /\ Lower("z") = "z" /\ Lower("o") = "o" /\ Lower("Z") = "z" /\ Lower("O") = "o"
<1>1. /\ LowerLetters = {"z", "o", "zdot", "oacute"}
      /\ UpperLetters = {"Z", "O", "Zdot", "Oacute"}
  <2>1. \A p \in CasePairs : p[1] \in {"z", "o", "zdot", "oacute"} /\ p[2] \in {"Z", "O", "Zdot", "Oacute"}
    BY DEF CasePairs
  <2>2. /\ <<"z", "Z">> \in CasePairs /\ <<"o", "O">> \in CasePairs
        /\ <<"zdot", "Zdot">> \in CasePairs /\ <<"oacute", "Oacute">> \in CasePairs
    BY DEF CasePairs
  <2>3. {"z", "o", "zdot", "oacute"} \subseteq LowerLetters
    BY <2>2 DEF LowerLetters
  <2>4. {"Z", "O", "Zdot", "Oacute"} \subseteq UpperLetters
    BY <2>2 DEF UpperLetters
  <2>5. LowerLetters \subseteq {"z", "o", "zdot", "oacute"}
    BY <2>1 DEF LowerLetters
  <2>6. UpperLetters \subseteq {"Z", "O", "Zdot", "Oacute"}
    BY <2>1 DEF UpperLetters
  <2> QED
    BY <2>3, <2>4, <2>5, <2>6
<1>2. /\ \A p \in CasePairs : p[1] = "z" <=> p = <<"z", "Z">>
      /\ \A p \in CasePairs : p[1] = "o" <=> p = <<"o", "O">>
      /\ \A p \in CasePairs : p[2] = "Z" <=> p = <<"z", "Z">>
      /\ \A p \in CasePairs : p[2] = "O" <=> p = <<"o", "O">>
      /\ <<"z", "Z">> \in CasePairs /\ <<"o", "O">> \in CasePairs
  BY DEF CasePairs
<1> DEFINE lz == CHOOSE p \in CasePairs : p[1] = "z"
           lo == CHOOSE p \in CasePairs : p[1] = "o"
           uz == CHOOSE p \in CasePairs : p[2] = "Z"
           uo == CHOOSE p \in CasePairs : p[2] = "O"
<1>3. lz = <<"z", "Z">> /\ lo = <<"o", "O">> /\ uz = <<"z", "Z">> /\ uo = <<"o", "O">>
  BY <1>2
<1>4. /\ Upper("z") = lz[2] /\ Upper("o") = lo[2] /\ Upper("Z") = "Z" /\ Upper("O") = "O"
      /\ Lower("Z") = uz[1] /\ Lower("O") = uo[1] /\ Lower("z") = "z" /\ Lower("o") = "o"
  BY <1>1 DEF Upper, Lower
<1> HIDE DEF lz, lo, uz, uo
<1> QED
  BY <1>1, <1>3, <1>4

LEMMA LetterForms ==
  /\ Upper("zdot") = "Zdot" /\ Upper("oacute") = "Oacute"
  /\ Lower("Zdot") = "zdot" /\ Lower("Oacute") = "oacute"
  /\ Letters = {"z", "o", "zdot", "oacute", "Z", "O", "Zdot", "Oacute"}
  /\ \A c \in LowerLetters : Upper(c) \in UpperLetters
  /\ \A c \in Letters : Lower(c) \in LowerLetters /\ Upper(c) \in UpperLetters
<1>1. /\ \A p \in CasePairs : p[1] = "zdot" <=> p = <<"zdot", "Zdot">>
      /\ \A p \in CasePairs : p[1] = "oacute" <=> p = <<"oacute", "Oacute">>
      /\ \A p \in CasePairs : p[2] = "Zdot" <=> p = <<"zdot", "Zdot">>
      /\ \A p \in CasePairs : p[2] = "Oacute" <=> p = <<"oacute", "Oacute">>
      /\ <<"zdot", "Zdot">> \in CasePairs /\ <<"oacute", "Oacute">> \in CasePairs
  BY DEF CasePairs
<1> DEFINE lz == CHOOSE p \in CasePairs : p[1] = "zdot"
           lo == CHOOSE p \in CasePairs : p[1] = "oacute"
           uz == CHOOSE p \in CasePairs : p[2] = "Zdot"
           uo == CHOOSE p \in CasePairs : p[2] = "Oacute"
<1>2. lz = <<"zdot", "Zdot">> /\ lo = <<"oacute", "Oacute">> /\ uz = <<"zdot", "Zdot">> /\ uo = <<"oacute", "Oacute">>
  BY <1>1
<1>3. /\ Upper("zdot") = lz[2] /\ Upper("oacute") = lo[2] /\ Lower("Zdot") = uz[1] /\ Lower("Oacute") = uo[1]
      /\ Upper("Zdot") = "Zdot" /\ Upper("Oacute") = "Oacute" /\ Lower("zdot") = "zdot" /\ Lower("oacute") = "oacute"
  BY LetterTable DEF Upper, Lower
<1> HIDE DEF lz, lo, uz, uo
<1>4. /\ Upper("zdot") = "Zdot" /\ Upper("oacute") = "Oacute"
      /\ Lower("Zdot") = "zdot" /\ Lower("Oacute") = "oacute"
  BY <1>2, <1>3
<1> QED
  BY <1>3, <1>4, LetterTable DEF Letters

LEMMA FewestModifiers ==
  ASSUME NEW c, NEW s \in Strokes, Types(s, c)
  PROVE  \E t \in Strokes : /\ Types(t, c)
                            /\ \A u \in Strokes : Types(u, c) => Cardinality(t.mods) <= Cardinality(u.mods)
<1>1. \A t \in Strokes : t.mods \in {{}, {"Shift"}, {"AltGr"}, {"Shift", "AltGr"}}
  BY DEF Strokes
<1>2. Cardinality({}) = 0 /\ Cardinality({"Shift"}) = 1 /\ Cardinality({"AltGr"}) = 1
  BY FS_EmptySet, FS_Singleton
<1>3. Cardinality({"Shift", "AltGr"}) = 2
  <2>1. {"Shift", "AltGr"} = {"Shift"} \cup {"AltGr"} /\ "AltGr" \notin {"Shift"} /\ IsFiniteSet({"Shift"})
    BY FS_Singleton
  <2>2. Cardinality({"Shift"} \cup {"AltGr"}) = Cardinality({"Shift"}) + 1
    BY <2>1, FS_AddElement
  <2> QED
    BY <1>2, <2>1, <2>2
<1> DEFINE Counts == { Cardinality(t.mods) : t \in { u \in Strokes : Types(u, c) } }
<1>4. Counts \subseteq Nat /\ Counts # {}
  <2>1. \A t \in Strokes : Cardinality(t.mods) \in Nat
    <3> SUFFICES ASSUME NEW t \in Strokes PROVE Cardinality(t.mods) \in Nat
      OBVIOUS
    <3>1. \/ t.mods = {} \/ t.mods = {"Shift"} \/ t.mods = {"AltGr"} \/ t.mods = {"Shift", "AltGr"}
      BY <1>1
    <3>2. Cardinality(t.mods) \in {0, 1, 2}
      BY <1>2, <1>3, <3>1
    <3> QED
      BY <3>2
  <2>2. Cardinality(s.mods) \in Counts
    OBVIOUS
  <2> QED
    BY <2>1, <2>2
<1>5. PICK n \in Counts : \A m \in Counts : n <= m
  <2> HIDE DEF Counts
  <2> QED
    BY <1>4, LeastNatural
<1>6. PICK t \in Strokes : Types(t, c) /\ n = Cardinality(t.mods)
  BY <1>5
<1>7. \A u \in Strokes : Types(u, c) => Cardinality(u.mods) \in Counts
  OBVIOUS
<1> QED
  BY <1>5, <1>6, <1>7

LEMMA ReverseTypes ==
  ASSUME NEW c \in DOMAIN ReverseKey
  PROVE  ReverseKey[c] \in Strokes /\ Types(ReverseKey[c], c) /\ c # "unknown"
<1> DEFINE Fits(t) == /\ Types(t, c)
                      /\ \A u \in Strokes : Types(u, c) => Cardinality(t.mods) <= Cardinality(u.mods)
<1>1. c # "unknown" /\ \E s \in Strokes : Types(s, c)
  <2> HIDE DEF Strokes
  <2> QED
    BY DEF ReverseKey, Types
<1>2. \E t \in Strokes : Fits(t)
  BY <1>1, FewestModifiers
<1>3. ReverseKey[c] = CHOOSE t \in Strokes : Fits(t)
  BY DEF ReverseKey
<1> DEFINE found == CHOOSE t \in Strokes : Fits(t)
<1>4. found \in Strokes /\ Fits(found)
  <2> HIDE DEF Fits
  <2> QED
    BY <1>2
<1> QED
  BY <1>1, <1>3, <1>4

(* Pressed with the modifiers the table gives, Shift turned round for a    *)
(* letter under Caps Lock, a stroke shows its character.                   *)
LEMMA StrokeShows ==
  ASSUME NEW c \in DOMAIN ReverseKey, NEW all, NEW led \in BOOLEAN,
         "AltGr" \in all <=> "AltGr" \in ReverseKey[c].mods,
         "Shift" \in all <=> ("Shift" \in ReverseKey[c].mods) # (led /\ c \in Letters)
  PROVE  Glyph(ReverseKey[c].key, all, led) = c
<1> DEFINE s == ReverseKey[c]
           m == s.mods
           key == s.key
<1>1. key \in PrintingKeys \cup {"KEY_ENTER"} /\ Glyph(key, m, FALSE) = c /\ c # "unknown"
  BY ReverseTypes DEF Strokes, Types
<1>3. "AltGr" \in all <=> "AltGr" \in m
  OBVIOUS
<1>4. "Shift" \in all <=> ("Shift" \in m) # (led /\ c \in Letters)
  OBVIOUS
<1> SUFFICES Glyph(key, all, led) = c
  OBVIOUS
<1> HIDE DEF s, m, key
<1>6. key \in {"KEY_Z", "KEY_O", "KEY_1", "KEY_DOT", "KEY_LEFTBRACE", "KEY_SPACE", "KEY_ENTER"}
  BY <1>1 DEF PrintingKeys, Chars
<1>7. CASE key = "KEY_ENTER"
  BY <1>1, <1>7 DEF Glyph
<1>8. CASE key # "KEY_ENTER" /\ "AltGr" \in m /\ key # "KEY_SPACE"
  <2>1. key \in DOMAIN AltGr /\ DOMAIN AltGr = {"KEY_Z", "KEY_O"}
    BY <1>1, <1>6, <1>8 DEF Glyph, AltGr
  <2>2. AltGr["KEY_Z"] = "zdot" /\ AltGr["KEY_O"] = "oacute"
    BY DEF AltGr
  <2>3. c = IF ShiftLevel(TRUE, m, FALSE) THEN Upper(AltGr[key]) ELSE AltGr[key]
    BY <1>1, <1>8, <2>1 DEF Glyph
  <2>4. Glyph(key, all, led) = IF ShiftLevel(TRUE, all, led) THEN Upper(AltGr[key]) ELSE AltGr[key]
    BY <1>3, <1>8, <2>1 DEF Glyph
  <2>5. c \in Letters
    BY <2>1, <2>2, <2>3, LetterForms
  <2>6. ShiftLevel(TRUE, all, led) = ShiftLevel(TRUE, m, FALSE)
    BY <1>4, <2>5 DEF ShiftLevel
  <2> QED
    BY <2>3, <2>4, <2>6
<1>9. CASE key # "KEY_ENTER" /\ ("AltGr" \notin m \/ key = "KEY_SPACE")
  <2> DEFINE letter == Chars[key].normal \in LowerLetters
  <2>1. c = IF ShiftLevel(letter, m, FALSE) THEN Chars[key].shifted ELSE Chars[key].normal
    BY <1>1, <1>6, <1>9 DEF Glyph
  <2>2. Glyph(key, all, led) = IF ShiftLevel(letter, all, led) THEN Chars[key].shifted ELSE Chars[key].normal
    BY <1>3, <1>6, <1>9 DEF Glyph
  <2>3. c \in Letters <=> letter
    <3>1. /\ Chars["KEY_Z"].normal = "z" /\ Chars["KEY_Z"].shifted = "Z"
          /\ Chars["KEY_O"].normal = "o" /\ Chars["KEY_O"].shifted = "O"
          /\ Chars["KEY_1"].normal = "1" /\ Chars["KEY_1"].shifted = "!"
          /\ Chars["KEY_DOT"].normal = "." /\ Chars["KEY_DOT"].shifted = ">"
          /\ Chars["KEY_LEFTBRACE"].normal = "[" /\ Chars["KEY_LEFTBRACE"].shifted = "{"
          /\ Chars["KEY_SPACE"].normal = " " /\ Chars["KEY_SPACE"].shifted = " "
      BY DEF Chars
    <3>2. LowerLetters = {"z", "o", "zdot", "oacute"} /\ Letters = {"z", "o", "zdot", "oacute", "Z", "O", "Zdot", "Oacute"}
      BY LetterTable, LetterForms
    <3>3. \A k \in {"KEY_Z", "KEY_O"} : Chars[k].normal \in LowerLetters /\ Chars[k].normal \in Letters /\ Chars[k].shifted \in Letters
      BY <3>1, <3>2
    <3>4. \A k \in {"KEY_1", "KEY_DOT", "KEY_LEFTBRACE", "KEY_SPACE"} :
            Chars[k].normal \notin LowerLetters /\ Chars[k].normal \notin Letters /\ Chars[k].shifted \notin Letters
      BY <3>1, <3>2
    <3>5. c = Chars[key].normal \/ c = Chars[key].shifted
      BY <2>1
    <3>6. key \in {"KEY_Z", "KEY_O"} \/ key \in {"KEY_1", "KEY_DOT", "KEY_LEFTBRACE", "KEY_SPACE"}
      BY <1>6, <1>9
    <3> QED
      BY <3>3, <3>4, <3>5, <3>6
  <2> HIDE DEF letter
  <2>4. ShiftLevel(letter, all, led) = ShiftLevel(letter, m, FALSE)
    BY <1>4, <2>3 DEF ShiftLevel
  <2> QED
    BY <2>1, <2>2, <2>4
<1> QED
  BY <1>7, <1>8, <1>9

-----------------------------------------------------------------------------
(* Finite sets of keys.                                                    *)

LEMMA AddPair ==
  ASSUME NEW S, IsFiniteSet(S), NEW x, NEW y
  PROVE  IsFiniteSet(S \cup {x, y})
<1>1. IsFiniteSet(S \cup {x})
  BY FS_AddElement
<1>2. IsFiniteSet((S \cup {x}) \cup {y})
  BY <1>1, FS_AddElement
<1>3. (S \cup {x}) \cup {y} = S \cup {x, y}
  OBVIOUS
<1> QED
  BY <1>2, <1>3

LEMMA ModifierKeysFinite == IsFiniteSet(ModifierKeys)
<1> DEFINE Shift == {} \cup {"KEY_LEFTSHIFT", "KEY_RIGHTSHIFT"}
           Ctrl  == Shift \cup {"KEY_LEFTCTRL", "KEY_RIGHTCTRL"}
           Alt   == Ctrl \cup {"KEY_LEFTALT", "KEY_RIGHTALT"}
           Meta  == Alt \cup {"KEY_LEFTMETA", "KEY_RIGHTMETA"}
<1>1. IsFiniteSet(Shift)
  BY FS_EmptySet, AddPair
<1>2. IsFiniteSet(Ctrl)
  <2> HIDE DEF Shift
  <2> QED BY <1>1, AddPair
<1>3. IsFiniteSet(Alt)
  <2> HIDE DEF Ctrl
  <2> QED BY <1>2, AddPair
<1>4. IsFiniteSet(Meta)
  <2> HIDE DEF Alt
  <2> QED BY <1>3, AddPair
<1>5. ModifierKeys = Meta
  BY ModifierTable
<1> QED
  <2> HIDE DEF Meta
  <2> QED BY <1>4, <1>5

-----------------------------------------------------------------------------
(* The sets the counters count.                                            *)

LEMMA PressedOfFinite ==
  ASSUME NEW c
  PROVE  IsFiniteSet(PressedOf(c)) /\ Cardinality(PressedOf(c)) \in Nat
<1>1. IsFiniteSet(Devices \X ModifierKeys)
  BY DevicesAssumption, ModifierKeysFinite, FS_Product
<1>2. PressedOf(c) \in SUBSET (Devices \X ModifierKeys)
  BY DEF PressedOf
<1>3. IsFiniteSet(PressedOf(c))
  BY <1>1, <1>2, FS_Subset
<1> QED
  BY <1>3, FS_CardinalityType

(* What a press and a release do to the set of pressed keys of a class.    *)
LEMMA PressAdds ==
  ASSUME pressed \in [Devices -> SUBSET ModifierKeys],
         NEW d \in Devices, NEW key \in ModifierKeys, KeyDown(d, key),
         NEW c \in ModifierClasses
  PROVE  PressedOf(c)' = IF ModifierClass[key] = c THEN PressedOf(c) \cup {<<d, key>>} ELSE PressedOf(c)
BY DEF PressedOf, KeyDown

LEMMA ReleaseRemoves ==
  ASSUME pressed \in [Devices -> SUBSET ModifierKeys],
         NEW d \in Devices, NEW key \in ModifierKeys, KeyUp(d, key),
         NEW c \in ModifierClasses
  PROVE  PressedOf(c)' = IF ModifierClass[key] = c THEN PressedOf(c) \ {<<d, key>>} ELSE PressedOf(c)
BY DEF PressedOf, KeyUp

(* A device that is forgotten takes HeldOn keys of each class with it.     *)
LEMMA ForgetRemoves ==
  ASSUME pressed \in [Devices -> SUBSET ModifierKeys],
         NEW d \in Devices, pressed' = [pressed EXCEPT ![d] = {}],
         NEW c \in ModifierClasses
  PROVE  /\ HeldOn(d, c) \in Nat
         /\ Cardinality(PressedOf(c)') = Cardinality(PressedOf(c)) - HeldOn(d, c)
<1> DEFINE H == { k \in pressed[d] : ModifierClass[k] = c }
           R == {d} \X H
<1>1. IsFiniteSet(H) /\ Cardinality(H) \in Nat
  BY ModifierKeysFinite, FS_Subset, FS_CardinalityType
<1>2. IsFiniteSet(R) /\ Cardinality(R) = Cardinality(H)
  <2>1. IsFiniteSet({d}) /\ Cardinality({d}) = 1
    BY FS_Singleton
  <2> QED
    <3> HIDE DEF H
    <3> QED BY <1>1, <2>1, FS_Product
<1>3. PressedOf(c)' = PressedOf(c) \ R /\ PressedOf(c) \cap R = R
  BY DEF PressedOf
<1>4. Cardinality(PressedOf(c) \ R) = Cardinality(PressedOf(c)) - Cardinality(R)
  <2> HIDE DEF R
  <2> QED BY <1>3, PressedOfFinite, FS_Difference
<1> QED
  BY <1>1, <1>2, <1>3, <1>4 DEF HeldOn

-----------------------------------------------------------------------------
(* The types.                                                              *)

LEMMA InitTyped == InputInit => TrackerTypeOK
BY DEF InputInit, TrackerInit, TrackerTypeOK

LEMMA StepTyped == TrackerTypeOK /\ [InputNext]_trackerVars => TrackerTypeOK'
<1> SUFFICES ASSUME TrackerTypeOK, [InputNext]_trackerVars
             PROVE  TrackerTypeOK'
  OBVIOUS
<1>1. ASSUME NEW d \in Devices, NEW key \in Keys, NEW value \in 0..2, Track(d, key, value)
      PROVE  TrackerTypeOK'
  <2>1. caps' \in BOOLEAN
    BY <1>1 DEF Track, CapsKey, TrackerTypeOK
  <2>2. CASE Changes(d, key, value)
    <3>1. key \in ModifierKeys /\ ModifierClass[key] \in ModifierClasses
      BY <2>2, ModifierTable DEF Changes
    <3> QED
      BY <1>1, <2>1, <2>2, <3>1 DEF Track, KeyDown, KeyUp, Count, TrackerTypeOK
  <2>3. CASE ~Changes(d, key, value)
    BY <1>1, <2>1, <2>3 DEF Track, TrackerTypeOK
  <2> QED
    BY <2>2, <2>3
<1>2. ASSUME NEW d \in Devices, NEW led \in BOOLEAN, RemoveDevice(d, led)
      PROVE  TrackerTypeOK'
  <2>1. \A c \in ModifierClasses : HeldOn(d, c) \in Nat
    <3> SUFFICES ASSUME NEW c \in ModifierClasses
                 PROVE  HeldOn(d, c) \in Nat
      OBVIOUS
    <3> QED
      BY <1>2, ForgetRemoves DEF RemoveDevice, ForgetDevice, TrackerTypeOK
  <2> QED
    BY <1>2, <2>1 DEF RemoveDevice, ForgetDevice, TrackerTypeOK
<1>3. ASSUME NEW led \in BOOLEAN, ResetTracker(led)
      PROVE  TrackerTypeOK'
  BY <1>3 DEF ResetTracker, TrackerTypeOK
<1>4. CASE UNCHANGED trackerVars
  BY <1>4 DEF trackerVars, TrackerTypeOK
<1> QED
  BY <1>1, <1>2, <1>3, <1>4 DEF InputNext

(* Whatever events arrive, in whatever order, the tracker's state is of    *)
(* the expected shape; in particular no count ever becomes negative.       *)
THEOREM TrackerTyping == InputSpec => []TrackerTypeOK
BY InitTyped, StepTyped, PTL DEF InputSpec

-----------------------------------------------------------------------------
(* The counts.                                                             *)

LEMMA InitCounts == InputInit => CountsArePressedKeys
<1> SUFFICES ASSUME InputInit, NEW c \in ModifierClasses
             PROVE  counts[c] = Cardinality(PressedOf(c))
  BY DEF CountsArePressedKeys
<1>1. PressedOf(c) = {}
  BY DEF InputInit, TrackerInit, PressedOf
<1> QED
  BY <1>1, FS_EmptySet DEF InputInit, TrackerInit

LEMMA StepCounts ==
  TrackerTypeOK /\ CountsArePressedKeys /\ [InputNext]_trackerVars => CountsArePressedKeys'
<1> SUFFICES ASSUME TrackerTypeOK, CountsArePressedKeys, [InputNext]_trackerVars,
                    NEW c \in ModifierClasses
             PROVE  counts'[c] = Cardinality(PressedOf(c)')
  BY DEF CountsArePressedKeys, PressedOf
<1>a. /\ pressed \in [Devices -> SUBSET ModifierKeys]
      /\ counts \in [ModifierClasses -> Nat]
      /\ counts[c] = Cardinality(PressedOf(c))
  BY DEF TrackerTypeOK, CountsArePressedKeys
<1>b. UNCHANGED pressed => PressedOf(c)' = PressedOf(c)
  BY DEF PressedOf
<1>1. ASSUME NEW d \in Devices, NEW key \in Keys, NEW value \in 0..2, Track(d, key, value)
      PROVE  counts'[c] = Cardinality(PressedOf(c)')
  <2>1. CASE ~Changes(d, key, value)
    BY <1>1, <2>1, <1>a, <1>b DEF Track
  <2>2. CASE Changes(d, key, value) /\ value = 1
    <3>1. /\ key \in ModifierKeys /\ key \notin pressed[d]
          /\ KeyDown(d, key) /\ Count(ModifierClass[key], counts[ModifierClass[key]] + 1)
      BY <1>1, <2>2 DEF Changes, Track
    <3>2. PressedOf(c)' = IF ModifierClass[key] = c THEN PressedOf(c) \cup {<<d, key>>} ELSE PressedOf(c)
      BY <1>a, <3>1, PressAdds
    <3>3. <<d, key>> \notin PressedOf(c)
      BY <3>1 DEF PressedOf
    <3>4. Cardinality(PressedOf(c) \cup {<<d, key>>}) = Cardinality(PressedOf(c)) + 1
      BY <3>3, PressedOfFinite, FS_AddElement
    <3> QED
      BY <1>a, <3>1, <3>2, <3>4 DEF Count
  <2>3. CASE Changes(d, key, value) /\ value # 1
    <3>1. /\ key \in ModifierKeys /\ key \in pressed[d]
          /\ KeyUp(d, key)
          /\ Count(ModifierClass[key],
                   IF counts[ModifierClass[key]] > 0 THEN counts[ModifierClass[key]] - 1 ELSE 0)
      BY <1>1, <2>3 DEF Changes, Track
    <3>2. PressedOf(c)' = IF ModifierClass[key] = c THEN PressedOf(c) \ {<<d, key>>} ELSE PressedOf(c)
      BY <1>a, <3>1, ReleaseRemoves
    <3>3. CASE ModifierClass[key] # c
      BY <1>a, <3>1, <3>2, <3>3 DEF Count
    <3>4. CASE ModifierClass[key] = c
      <4>1. <<d, key>> \in PressedOf(c)
        BY <3>1, <3>4 DEF PressedOf
      <4>2. Cardinality(PressedOf(c) \ {<<d, key>>}) = Cardinality(PressedOf(c)) - 1
        BY <4>1, PressedOfFinite, FS_RemoveElement
      <4>3. Cardinality(PressedOf(c)) # 0
        BY <4>1, PressedOfFinite, FS_EmptySet
      <4>4. counts[c] > 0
        BY <1>a, <4>3
      <4> QED
        BY <1>a, <3>1, <3>2, <3>4, <4>2, <4>4 DEF Count
    <3> QED
      BY <3>3, <3>4
  <2> QED
    BY <2>1, <2>2, <2>3
<1>2. ASSUME NEW d \in Devices, NEW led \in BOOLEAN, RemoveDevice(d, led)
      PROVE  counts'[c] = Cardinality(PressedOf(c)')
  <2>1. /\ pressed' = [pressed EXCEPT ![d] = {}]
        /\ counts' = [x \in ModifierClasses |->
                         IF counts[x] >= HeldOn(d, x) THEN counts[x] - HeldOn(d, x) ELSE 0]
    BY <1>2 DEF RemoveDevice, ForgetDevice
  <2>2. /\ HeldOn(d, c) \in Nat
        /\ Cardinality(PressedOf(c)') = counts[c] - HeldOn(d, c)
    BY <1>a, <2>1, ForgetRemoves
  <2>3. Cardinality(PressedOf(c)') \in Nat
    <3>1. PressedOf(c)' \in SUBSET PressedOf(c)
      BY <1>a, <2>1 DEF PressedOf
    <3> QED
      BY <3>1, PressedOfFinite, FS_Subset, FS_CardinalityType
  <2> QED
    BY <1>a, <2>1, <2>2, <2>3
<1>3. ASSUME NEW led \in BOOLEAN, ResetTracker(led)
      PROVE  counts'[c] = Cardinality(PressedOf(c)')
  <2>1. PressedOf(c)' = {}
    BY <1>3 DEF ResetTracker, PressedOf
  <2> QED
    BY <1>3, <2>1, FS_EmptySet DEF ResetTracker
<1>4. CASE UNCHANGED trackerVars
  BY <1>4, <1>a, <1>b DEF trackerVars
<1> QED
  BY <1>1, <1>2, <1>3, <1>4 DEF InputNext

(* The incremental counts never drift from the sets of pressed keys, for   *)
(* any number of keyboards that press, release, repeat, vanish with keys   *)
(* held down, and are reset (Handle, Remove and Reset of inputstate.go).   *)
THEOREM CountsCorrect == InputSpec => []CountsArePressedKeys
BY InitTyped, StepTyped, InitCounts, StepCounts, PTL DEF InputSpec

-----------------------------------------------------------------------------
(* The effective modifiers.                                                *)

LEMMA CountsGiveHeld == TrackerTypeOK /\ CountsArePressedKeys => HeldIsPressed
<1> SUFFICES ASSUME TrackerTypeOK, CountsArePressedKeys
             PROVE  Held = { ModifierClass[k] : k \in UNION { pressed[d] : d \in Devices } }
  BY DEF HeldIsPressed
<1>1. ASSUME NEW c \in ModifierClasses
      PROVE  counts[c] > 0 <=> PressedOf(c) # {}
  <2>1. Cardinality(PressedOf(c)) \in Nat /\ (Cardinality(PressedOf(c)) = 0 <=> PressedOf(c) = {})
    BY PressedOfFinite, FS_EmptySet
  <2> QED
    BY <2>1 DEF CountsArePressedKeys
<1>2. ASSUME NEW c \in ModifierClasses
      PROVE  PressedOf(c) # {} <=> \E d \in Devices : \E k \in pressed[d] : ModifierClass[k] = c
  <2>1. \A d \in Devices : \A k \in pressed[d] :
          ModifierClass[k] = c => <<d, k>> \in PressedOf(c)
    BY DEF PressedOf, TrackerTypeOK
  <2>2. \A dk \in PressedOf(c) :
          dk[1] \in Devices /\ dk[2] \in pressed[dk[1]] /\ ModifierClass[dk[2]] = c
    BY DEF PressedOf
  <2> QED
    BY <2>1, <2>2
<1>3. \A d \in Devices : \A k \in pressed[d] : ModifierClass[k] \in ModifierClasses
  BY ModifierTable DEF TrackerTypeOK
<1> QED
  BY <1>1, <1>2, <1>3 DEF Held

(* The modifiers reported as held are exactly those some keyboard holds: a *)
(* release on one keyboard never clears what another still holds, and      *)
(* nothing stays held after its last key is up or its keyboard is gone.    *)
THEOREM HeldCorrect == InputSpec => []HeldIsPressed
<1>1. InputSpec => [](TrackerTypeOK /\ CountsArePressedKeys)
  BY TrackerTyping, CountsCorrect, PTL
<1> QED
  BY <1>1, CountsGiveHeld, PTL
=============================================================================
