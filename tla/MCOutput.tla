------------------------------ MODULE MCOutput ------------------------------
(* A small instance of Output for TLC. *)
EXTENDS Output

MCSettings == { [output |-> "auto", allowClipboard |-> FALSE],
                [output |-> "wtype", allowClipboard |-> TRUE] }

(* A correction under two modifiers, one with nothing to delete, and one    *)
(* whose text no key types, left to wtype and the clipboard.               *)
MCEdits == { [restore |-> << "z", "O" >>, text |-> << "Zdot", "o" >>],
             [restore |-> <<>>, text |-> << "Z" >>],
             [restore |-> << "o" >>, text |-> << "arrow", "z" >>] }
=============================================================================
