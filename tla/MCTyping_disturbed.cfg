\* D-Bus calls, reloads, the dictionary coming and going, hotplug of one of
\* two keyboards and failing output, two of them in a behaviour.  A rescan may find
\* Ctrl held, on either keyboard.
SPECIFICATION Spec
CONSTANTS
  BufCap = 3
  MinWordLength = 2
  MaxWordLength = 2
  ValidWords <- MCValidWords
  CandidatesOf <- MCCandidatesOf
  Apps = {"editor", "excluded"}
  ExcludedApps = {"excluded"}
  Devices = {kb1, kb2}
  TypedKeys = {"KEY_Z", "KEY_SPACE", "KEY_BACKSPACE"}
  HeldKeys = {"KEY_LEFTCTRL", "KEY_RIGHTCTRL"}
  RepeatKeys = {}
  Setups <- ReloadSetups
  Disturbances = {"dbus", "dictionary", "reload", "hotplug", "output"}
  MaxText = 3
  MaxAhead = 1
  MaxDisturbances = 2
INVARIANTS BufferIsScreenTail UndoCoversScreen CountsArePressedKeys HeldIsPhysical
SYMMETRY DeviceSymmetry
