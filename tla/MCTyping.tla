------------------------------ MODULE MCTyping ------------------------------
(* Small instances of Typing for TLC. *)
EXTENDS Typing

(* zz is not a word and has one spelling with diacritics; zo is a word;     *)
(* oz has two candidate spellings and is left alone.                       *)
MCValidWords == { <<"z", "o">> }
MCCandidatesOf ==
  << "z", "z" >> :> { <<"zdot", "z">> } @@
  << "z", "o" >> :> { <<"zdot", "o">> } @@
  << "o", "z" >> :> { <<"oacute", "z">>, <<"oacute", "zdot">> }

(* Autocorrection alone: no triggers. *)
NoTriggers == [mode |-> "space", matches |-> <<>>]
Options(undoOn) ==
  [ onSpace |-> TRUE, onPunct |-> TRUE, onEnter |-> FALSE, undo |-> undoOn,
    toggle |-> [key |-> "KEY_1", mods |-> {"Ctrl"}] ]

Setup(expander, options, on) == [expander |-> expander, options |-> options, enabled |-> on]
CorrectionSetups == { Setup(NoTriggers, Options(TRUE), TRUE) }
ReloadSetups     == { Setup(NoTriggers, Options(TRUE), TRUE), Setup(NoTriggers, Options(FALSE), FALSE) }

(* Two triggers: zz, also a correctable word, becomes o1 with the cursor   *)
(* moved back over the 1, and 1!, typed with Shift held, becomes z.        *)
Triggers(mode) ==
  [ mode |-> mode,
    matches |-> << [trigger |-> <<"z", "z">>, replace |-> <<"o", "1">>, back |-> 1],
                   [trigger |-> <<"1", "!">>, replace |-> <<"z">>, back |-> 0] >> ]
ShiftedSetups ==
  { Setup(Triggers(mode), Options(FALSE), TRUE) : mode \in {"space", "immediate"} }
    \cup { Setup(NoTriggers, Options(FALSE), TRUE) }

(* Keyboards are told apart by name only.                                  *)
DeviceSymmetry == Permutations(Devices)
=============================================================================
