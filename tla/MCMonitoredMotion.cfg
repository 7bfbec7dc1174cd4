\* Long enough for a baseline frame, a settling window and a frame to spare;
\* the stop deadline falls inside the bound when the stop is asked early.
SPECIFICATION MSpec
CONSTANTS
  Joints = {j1}
  Continuous = {}
  FullTurn = 1
  PositionTolerance = 1
  VelocityTolerance = 1
  SettlingTime = 2
  FeedbackTimeout = 2
  StopTimeout = 4
  Target <- MCTarget
  Places <- MCPlaces
  Timeouts = {3, 5}
  MaxTime = 4
INVARIANTS FinalVerdictIsEarned NeverTooLate
CHECK_DEADLOCK FALSE
