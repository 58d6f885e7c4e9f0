\* Two out of three edits through all three backends with two failing operations
\* and one copy by the user.  After the last edit nothing need happen.
SPECIFICATION OutSpec
CONSTANTS
  Settings <- MCSettings
  Edits <- MCEdits
  MaxEdits = 2
  MaxFaults = 2
  MaxCopies = 1
INVARIANTS OutcomeIsTrue TextKeyReleased ClipboardGivenBack
PROPERTIES ClipboardReleased
CHECK_DEADLOCK FALSE
