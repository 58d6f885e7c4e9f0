\* One keyboard, no type-ahead, no expander: the corrector, its undo, the
\* toggle shortcut, Caps Lock and autorepeat.
SPECIFICATION Spec
CONSTANTS
  BufCap = 3
  MinWordLength = 2
  MaxWordLength = 2
  ValidWords <- MCValidWords
  CandidatesOf <- MCCandidatesOf
  Apps = {"editor", "excluded"}
  ExcludedApps = {"excluded"}
  Devices = {"kb1"}
  TypedKeys = {"KEY_Z", "KEY_1", "KEY_SPACE", "KEY_BACKSPACE", "KEY_LEFT", "KEY_CAPSLOCK", "KEY_LEFTBRACE"}
  HeldKeys = {"KEY_LEFTCTRL"}
  RepeatKeys = {"KEY_BACKSPACE"}
  Setups <- CorrectionSetups
  Disturbances = {}
  MaxText = 4
  MaxAhead = 1
  MaxDisturbances = 0
INVARIANTS TypeOK BufferIsScreenTail UndoCoversScreen EditCoversScreen WholeWord UndoIsFinal
PROPERTIES EditAppears UndoRestores

