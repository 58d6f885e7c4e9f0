\* Two keyboards that are pulled and plugged in again while their keys are on
\* the way; a node may fail to open once.  The user may stop typing for good.
SPECIFICATION HotplugSpec
CONSTANTS
  Devices = {"kb1", "kb2"}
  TypedKeys = {"KEY_LEFTCTRL", "KEY_Z"}
  MaxUnplugs = 1
  MaxMisses = 1
  MaxKeys = 3
INVARIANTS TrackerAgrees WordFromMonitored OneLiveReader
PROPERTIES LiveKeyboardKept MonitorsConverge
CHECK_DEADLOCK FALSE
