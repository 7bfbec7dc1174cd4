\* Every fault, two goals in a row at full speed or a fifth of it, two
\* joints of which one wraps around (a target of a whole turn is where it
\* already is), timer callbacks one unit or four units apart (four is longer
\* than the feedback timeout and the stop timeout), and the executor's
\* fairness, which forbids the use of symmetry.
SPECIFICATION Spec
CONSTANTS
  Joints = {j1, j2}
  Continuous = {j2}
  FullTurn = 4
  PositionTolerance = 1
  VelocityTolerance = 1
  SettlingTime = 1
  FeedbackTimeout = 2
  StopTimeout = 3
  Goals = {g1, g2}
  NoGoal = NoGoal
  Home <- MCHome
  Targets <- MCTargets
  Timeouts = {5}
  FullSpeed = 5
  Scalings = {1, 5}
  TickGaps = {1, 4}
  ArrivalDelays = {0, 1}
  Duration = 10
  FaultAfter = 6
  LaunchFaults = {"normal", "slow", "reject", "stuck", "feedback_loss", "cancel_reject", "controller_failure"}
  LastSend = 3
INVARIANTS TypeOK Reservation IdleArmAtRest BoundedService
PROPERTIES SuccessOnTarget FirstReasonStands LossLocks ExclusiveSafety EveryGoalEnds
CHECK_DEADLOCK FALSE
