SPECIFICATION Spec
CONSTANTS
  Replies <- MCReplies
  Known <- MCKnown
  AreaDict <- MCAreaDict
  Depth = 3
INVARIANTS OneMoverAtATime TaskAgreement DeliversThePlan
PROPERTIES FinishesPlan
CHECK_DEADLOCK FALSE
