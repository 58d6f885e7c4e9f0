\* One match file and config.yml, two edits, and two runs of init or migrate
\* that may each end half-way.
CONSTANTS
  Matches <- MCMatches
  MaxEdits = 2
  MaxCommands = 2
SPECIFICATION ConfigSpec
INVARIANT NothingLost
PROPERTY DaemonCatchesUp
CHECK_DEADLOCK FALSE
