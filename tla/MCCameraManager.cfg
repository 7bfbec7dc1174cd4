\* Two managers, two streams, and limits of one unit each.
SPECIFICATION Spec
CONSTANTS
  Managers = {m1, m2}
  NoManager = NoManager
  Streams = {color, depth}
  Rigs = {"r1", "r2"}
  Formats = {"f1", "f2"}
  Timeout = 1
  StartupTimeout = 1
  KillAfter = 1
INVARIANTS CameraTypeOK LeaseCoversDevice
PROPERTIES ForwardsOneLiveSession FaultStopsDevice
CHECK_DEADLOCK FALSE
