SPECIFICATION LeaseSpec
CONSTANTS
  Producers <- MCProducers
  Profile <- MCProfile
  Needs <- MCNeeds
  SimRobot = "zzxrobot"
  Killable <- MCKillable
INVARIANTS OneProducer
CHECK_DEADLOCK FALSE
