\* Two arm goals one after the other and every lifecycle transition.
SPECIFICATION Safety
SYMMETRY HttpSymmetry
CONSTANTS
  ArmGoals = {g1, g2}
  HandGoals = {}
  NoGoal = NoGoal
  MaxConfigurations = 2
INVARIANTS OneGoalPerDevice RestlessIsLatched ReadyOnlyFromThisConfiguration
PROPERTIES LatchStands ArmIsExclusive
CHECK_DEADLOCK FALSE
