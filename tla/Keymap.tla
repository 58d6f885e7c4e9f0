------------------------------- MODULE Keymap -------------------------------
(***************************************************************************)
(* The part of internal/keymap that text handling depends on: which        *)
(* character a key stands for, which keys are modifiers, which characters  *)
(* end a word.  A key is named by its evdev name and a character by a      *)
(* short string.  The tables are cut down to one or two members of every   *)
(* class the code tells apart; "." on top of a letter (zdot) or an acute   *)
(* accent (oacute) stands for a Polish diacritic.                          *)
(***************************************************************************)
EXTENDS Naturals, Sequences, FiniteSets

(* One [normal, shifted] pair per printing key, as in the table Chars. *)
Chars ==
  [ KEY_Z         |-> [normal |-> "z", shifted |-> "Z"],
    KEY_O         |-> [normal |-> "o", shifted |-> "O"],
    KEY_1         |-> [normal |-> "1", shifted |-> "!"],
    KEY_DOT       |-> [normal |-> ".", shifted |-> ">"],
    KEY_LEFTBRACE |-> [normal |-> "[", shifted |-> "{"],
    KEY_SPACE     |-> [normal |-> " ", shifted |-> " "] ]

(* The diacritic a key produces with AltGr on the Polish Programmer layout. *)
AltGr == [KEY_Z |-> "zdot", KEY_O |-> "oacute"]

(* Lower- and upper-case forms, diacritics included. *)
CasePairs == { <<"z", "Z">>, <<"o", "O">>, <<"zdot", "Zdot">>, <<"oacute", "Oacute">> }
LowerLetters == { p[1] : p \in CasePairs }
UpperLetters == { p[2] : p \in CasePairs }
Letters      == LowerLetters \cup UpperLetters
Diacritics   == { "zdot", "oacute", "Zdot", "Oacute" }

Upper(ch) == IF ch \in LowerLetters THEN (CHOOSE p \in CasePairs : p[1] = ch)[2] ELSE ch
Lower(ch) == IF ch \in UpperLetters THEN (CHOOSE p \in CasePairs : p[2] = ch)[1] ELSE ch
LowerWord(w) == [i \in DOMAIN w |-> Lower(w[i])]
UpperWord(w) == [i \in DOMAIN w |-> Upper(w[i])]

(* Modifier keys and the class of modifier each one belongs to. *)
ModifierClass ==
  [ KEY_LEFTSHIFT |-> "Shift", KEY_RIGHTSHIFT |-> "Shift",
    KEY_LEFTCTRL  |-> "Ctrl",  KEY_RIGHTCTRL  |-> "Ctrl",
    KEY_LEFTALT   |-> "Alt",   KEY_RIGHTALT   |-> "AltGr",
    KEY_LEFTMETA  |-> "Meta",  KEY_RIGHTMETA  |-> "Meta" ]
ModifierKeys    == DOMAIN ModifierClass
ModifierClasses == { "Shift", "Ctrl", "Alt", "AltGr", "Meta" }
ShiftKeys       == { k \in ModifierKeys : ModifierClass[k] = "Shift" }
AltGrKeys       == { k \in ModifierKeys : ModifierClass[k] = "AltGr" }
(* With one of these held a key is a shortcut, not text. *)
ChordModifiers  == { "Ctrl", "Alt", "Meta" }
(* With one of these held the virtual keyboard's output is altered. *)
OutputModifiers == { "Shift", "AltGr" }

PrintingKeys   == DOMAIN Chars
(* KEY_LEFT stands for every cursor key; KEY_KP1 for the keys that print   *)
(* but that no table knows (the keypad).                                   *)
OtherKeys      == { "KEY_ENTER", "KEY_BACKSPACE", "KEY_LEFT", "KEY_CAPSLOCK", "KEY_KP1" }
TextKeys       == PrintingKeys \cup OtherKeys
Keys           == ModifierKeys \cup TextKeys
NoKey          == "none"

(* Keys that empty the expander's buffer (modifiers are handled before). *)
BufferResetKeys == { "KEY_ENTER", "KEY_LEFT" }

(* What a pressed key prints with the set mods of modifier classes held    *)
(* and Caps Lock caps: a letter's case is Shift xor Caps, the diacritic    *)
(* level obeys the same rule, and a key without an AltGr level prints what *)
(* the tables do not know.                                                 *)
ShiftLevel(letter, mods, caps) == ("Shift" \in mods) # (letter /\ caps)
Glyph(key, mods, caps) ==
  IF key = "KEY_ENTER" THEN "nl"
  ELSE IF key = "KEY_KP1" THEN "1"
  ELSE IF "AltGr" \in mods /\ key # "KEY_SPACE"
  THEN IF key \in DOMAIN AltGr
       THEN IF ShiftLevel(TRUE, mods, caps) THEN Upper(AltGr[key]) ELSE AltGr[key]
       ELSE "unknown"
  ELSE IF ShiftLevel(Chars[key].normal \in LowerLetters, mods, caps)
       THEN Chars[key].shifted ELSE Chars[key].normal

(* A key and the modifiers pressed with it; the characters they type, and  *)
(* the stroke with the fewest modifiers that types one, Caps Lock being    *)
(* off (Reverse).                                                          *)
Strokes == [key : PrintingKeys \cup {"KEY_ENTER"}, mods : {{}, {"Shift"}, {"AltGr"}, {"Shift", "AltGr"}}]
Types(s, char) == Glyph(s.key, s.mods, FALSE) = char
ReverseKey ==
  [char \in { Glyph(s.key, s.mods, FALSE) : s \in Strokes } \ {"unknown"} |->
     CHOOSE s \in Strokes :
       /\ Types(s, char)
       /\ \A t \in Strokes : Types(t, char) => Cardinality(s.mods) <= Cardinality(t.mods)]

Runes == Letters \cup {"1", "!", ".", ">", "[", "{", " ", "nl", "unknown"}

(* The separators each option switches on; a word ends at any of them. *)
SeparatorGroups == [onEnter |-> {"nl"}, onSpace |-> {" "}, onPunct |-> {".", "!"}]
Separators == UNION { SeparatorGroups[g] : g \in DOMAIN SeparatorGroups }
Openers == { "[", "{" }
=============================================================================
