\* One key of type-ahead: the daemon may be one event behind the user.
SPECIFICATION Spec
CONSTANTS
  BufCap = 3
  MinWordLength = 2
  MaxWordLength = 2
  ValidWords <- MCValidWords
  CandidatesOf <- MCCandidatesOf
  Apps = {"editor", "excluded"}
  ExcludedApps = {"excluded"}
  Devices = {"kb1"}
  TypedKeys = {"KEY_Z", "KEY_SPACE"}
  HeldKeys = {}
  RepeatKeys = {}
  Setups <- CorrectionSetups
  Disturbances = {}
  MaxText = 4
  MaxAhead = 2
  MaxDisturbances = 0
INVARIANTS EditCoversScreen
