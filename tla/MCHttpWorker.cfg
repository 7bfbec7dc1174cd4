\* Both procedures, plans and motions, with a settling window of two samples.
SPECIFICATION Spec
CONSTANTS
  SettleSamples = 2
INVARIANTS TypeOK KnownMeansAtRest SuccessMeansReached
PROPERTIES ReportsAsPromised EveryJobEnds
CHECK_DEADLOCK FALSE
