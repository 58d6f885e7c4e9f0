\* Shift and AltGr held: edits deferred by the corrector and by the expander, in
\* both trigger modes, with a reload, an output failure or the focus going to an
\* excluded application.  Undo is off: it is not deferred
\* (MCTyping_undo_shift.cfg).
SPECIFICATION Spec
CONSTANTS
  BufCap = 3
  MinWordLength = 2
  MaxWordLength = 2
  ValidWords <- MCValidWords
  CandidatesOf <- MCCandidatesOf
  Apps = {"editor", "excluded"}
  ExcludedApps = {"excluded"}
  Devices = {"kb1"}
  TypedKeys = {"KEY_Z", "KEY_1", "KEY_SPACE", "KEY_BACKSPACE"}
  HeldKeys = {"KEY_LEFTSHIFT", "KEY_RIGHTALT"}
  RepeatKeys = {}
  Setups <- ShiftedSetups
  Disturbances = {"window", "reload", "output"}
  MaxText = 3
  MaxAhead = 1
  MaxDisturbances = 1
INVARIANTS ExpanderBufferIsScreenTail BufferIsScreenTail PendingCoversScreen EditCoversScreen DeferredWhileHeld
PROPERTIES EditAppears
