\* ROS time up to 4, monotonic time up to 2, queues of two, two sessions.
SPECIFICATION GateSpec
CONSTANTS
  MaxDelta = 1
  MaxAge = 2
  InputTimeout = 1
  QueueSize = 2
  MaxRos = 4
  MaxMono = 2
  MaxSessions = 2
INVARIANTS BacklogIsOneSided ReadyIsEarned
PROPERTIES PairsAreNew
