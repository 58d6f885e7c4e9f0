------------------------------ MODULE Expander ------------------------------
(***************************************************************************)
(* expander.go: the text expander.  ebuf is the tail of what was typed,    *)
(* never longer than the longest trigger; when it ends in a trigger (at    *)
(* once in "immediate" mode, at the next Space in "space" mode) the        *)
(* trigger is replaced.  A replacement that would be typed while Shift or  *)
(* AltGr is held waits in epending.  config is the loaded configuration:   *)
(* its trigger mode and its matches in file order, each with the trigger,  *)
(* the resolved replacement and the number of characters the cursor is     *)
(* moved back over (the text after the marker $|$).                        *)
(***************************************************************************)
EXTENDS Keymap, SequencesExt

VARIABLES config, ebuf, epending, expansion

expanderVars == <<config, ebuf, epending, expansion>>

NoMatch     == [trigger |-> <<>>, replace |-> <<>>, back |-> 0]
NoExpansion == [match |-> NoMatch, extra |-> 0]

ExpanderInit(cfg) ==
  /\ config = cfg /\ ebuf = <<>> /\ epending = NoExpansion /\ expansion = NoExpansion

MaxLen(cfg) ==
  IF cfg.matches = <<>> THEN 0
  ELSE LET lens == { Len(cfg.matches[i].trigger) : i \in DOMAIN cfg.matches }
       IN  CHOOSE n \in lens : \A m \in lens : m <= n

KeepLast(s, n) == IF Len(s) > n THEN SubSeq(s, Len(s) - n + 1, Len(s)) ELSE s
KeepFirst(s, n) == SubSeq(s, 1, IF Len(s) > n THEN n ELSE Len(s))

(* Reload keeps what was typed, cut to the new longest trigger.            *)
Reload(cfg) ==
  /\ config' = cfg
  /\ ebuf' = KeepLast(ebuf, MaxLen(cfg))
  /\ UNCHANGED <<epending, expansion>>

ResetExpander == ebuf' = <<>> /\ epending' = NoExpansion

(* The first match, in file order, whose trigger ends the text typed.      *)
Matching(text) == { i \in DOMAIN config.matches : IsSuffix(config.matches[i].trigger, text) }
FirstMatch(text) == config.matches[CHOOSE i \in Matching(text) : \A j \in Matching(text) : i <= j]

ExpandNow(mods) == mods \cap OutputModifiers = {}

(* expandOrDefer on text, or nothing when no trigger ends it.              *)
Expand(text, extra, mods, otherwise) ==
  IF Matching(text) = {}
  THEN ebuf' = otherwise /\ expansion' = NoExpansion /\ epending' = NoExpansion
  ELSE LET e == [match |-> FirstMatch(text), extra |-> extra] IN
       /\ ebuf' = <<>>
       /\ expansion' = (IF ExpandNow(mods) THEN e ELSE NoExpansion)
       /\ epending'  = (IF ExpandNow(mods) THEN NoExpansion ELSE e)

-----------------------------------------------------------------------------
(* The branches of HandleEvent.                                            *)

ReleaseExpansion(mods) ==
  IF epending # NoExpansion /\ ExpandNow(mods)
  THEN expansion' = epending /\ epending' = NoExpansion
  ELSE expansion' = NoExpansion /\ UNCHANGED epending

XShiftKey(key, value, mods) ==
  /\ key \in ShiftKeys /\ ReleaseExpansion(mods) /\ UNCHANGED ebuf

XAltGrEmptiesOnly(key, value, mods) ==
  /\ key \in AltGrKeys /\ expansion' = NoExpansion /\ UNCHANGED epending
  /\ ebuf' = IF value = 1 /\ epending = NoExpansion THEN <<>> ELSE ebuf
XAltGrKey(key, value, mods) ==
  /\ key \in AltGrKeys /\ ReleaseExpansion(mods)
  /\ ebuf' = IF value = 1 /\ epending = NoExpansion THEN <<>> ELSE ebuf

XChordModifierKey(key, value, mods) ==
  /\ key \in ModifierKeys \ (ShiftKeys \cup AltGrKeys)
  /\ expansion' = NoExpansion
  /\ IF value = 1 THEN ResetExpander ELSE UNCHANGED <<ebuf, epending>>

(* Releases and repeats are not looked at.                                 *)
XNotAPress(key, value, mods) ==
  /\ key \notin ModifierKeys /\ value # 1
  /\ expansion' = NoExpansion /\ UNCHANGED <<ebuf, epending>>

XPress(key, value) == key \notin ModifierKeys /\ value = 1

ClearsExceptAltGr(key, mods) == mods \ {"Shift", "AltGr"} # {} \/ key \in BufferResetKeys
ClearsBuffer(key, mods) == mods \ {"Shift"} # {} \/ key \in BufferResetKeys
XClear(key, value, mods) ==
  /\ XPress(key, value) /\ ClearsBuffer(key, mods)
  /\ ResetExpander /\ expansion' = NoExpansion

XBackspace(key, value, mods) ==
  /\ XPress(key, value) /\ ~ClearsBuffer(key, mods) /\ key = "KEY_BACKSPACE"
  /\ ebuf' = (IF ebuf # <<>> THEN Front(ebuf) ELSE ebuf)
  /\ epending' = NoExpansion /\ expansion' = NoExpansion

SpaceMode(key) == config.mode # "immediate" /\ key = "KEY_SPACE"
XSpace(key, value, mods) ==
  /\ XPress(key, value) /\ ~ClearsBuffer(key, mods) /\ SpaceMode(key)
  /\ Expand(ebuf, 1, mods, <<>>)

(* Keys that print nothing the expander knows leave the buffer alone.      *)
XUnmapped(key, value, mods) ==
  /\ XPress(key, value) /\ ~ClearsBuffer(key, mods)
  /\ key \notin PrintingKeys \cup {"KEY_BACKSPACE"}
  /\ epending' = NoExpansion /\ expansion' = NoExpansion /\ UNCHANGED ebuf

XChar(key, mods, capsOn) ==
  IF ShiftLevel(Chars[key].normal \in LowerLetters, mods, capsOn)
  THEN Chars[key].shifted ELSE Chars[key].normal

XPrint(key, value, mods, capsOn) ==
  /\ XPress(key, value) /\ ~ClearsBuffer(key, mods)
  /\ key \in PrintingKeys /\ ~SpaceMode(key)
  /\ LET typed == KeepLast(Append(ebuf, XChar(key, mods, capsOn)), MaxLen(config)) IN
     IF config.mode = "immediate"
     THEN Expand(typed, 0, mods, typed)
     ELSE ebuf' = typed /\ expansion' = NoExpansion /\ epending' = NoExpansion

ExpanderHandleEvent(key, value, mods, capsOn) ==
  /\ \/ XShiftKey(key, value, mods)
     \/ XAltGrKey(key, value, mods)
     \/ XChordModifierKey(key, value, mods)
     \/ XNotAPress(key, value, mods)
     \/ XClear(key, value, mods)
     \/ XBackspace(key, value, mods)
     \/ XSpace(key, value, mods)
     \/ XUnmapped(key, value, mods)
     \/ XPrint(key, value, mods, capsOn)
  /\ UNCHANGED config

(* performExpansion: the edit that an expansion asks the writer for.       *)
EditWithoutSpace(e) ==
  [backspaces |-> Len(e.match.trigger), type |-> e.match.replace, restore |-> e.match.trigger]
ExpansionEdit(e) ==
  LET spaces == [i \in 1..e.extra |-> " "] IN
  [backspaces |-> Len(e.match.trigger) + e.extra,
   type       |-> e.match.replace,
   restore    |-> e.match.trigger \o spaces]
=============================================================================
