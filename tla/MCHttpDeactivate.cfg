\* What bringup_lifecycle.md says of an inactive node.
SPECIFICATION Safety
CONSTANTS
  ArmGoals = {g1}
  HandGoals = {}
  NoGoal = NoGoal
  MaxConfigurations = 1
INVARIANTS InactiveAsksToStop
CHECK_DEADLOCK FALSE
