\* The comment of node.py on a cancellation that races completion.
SPECIFICATION Safety
CONSTANTS
  ArmGoals = {g1}
  HandGoals = {}
  NoGoal = NoGoal
  MaxConfigurations = 1
PROPERTIES CanceledNeverSucceeds
CHECK_DEADLOCK FALSE
