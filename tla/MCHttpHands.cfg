\* Two hand goals one after the other, with the fairness of the executor and
\* of the workers.
SPECIFICATION Spec
CONSTANTS
  ArmGoals = {}
  HandGoals = {h1, h2}
  NoGoal = NoGoal
  MaxConfigurations = 2
PROPERTIES EveryGoalEnds
CHECK_DEADLOCK FALSE
