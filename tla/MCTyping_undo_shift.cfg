\* Undo on, with a Shift key: the undo is typed while Shift is held.
SPECIFICATION Spec
CONSTANTS
  BufCap = 3
  MinWordLength = 2
  MaxWordLength = 2
  ValidWords <- MCValidWords
  CandidatesOf <- MCCandidatesOf
  Apps = {"editor", "excluded"}
  ExcludedApps = {"excluded"}
  Devices = {"kb1"}
  TypedKeys = {"KEY_Z", "KEY_SPACE", "KEY_BACKSPACE"}
  HeldKeys = {"KEY_LEFTSHIFT"}
  RepeatKeys = {}
  Setups <- CorrectionSetups
  Disturbances = {}
  MaxText = 4
  MaxAhead = 1
  MaxDisturbances = 0
PROPERTIES EditAppears
