-------------------------- MODULE ExecutionMonitor --------------------------
(***************************************************************************)
(* class ExecutionMonitor of zzx_execution (execution_monitor.cpp): it     *)
(* judges, from joint feedback, whether a motion reached its target and    *)
(* settled, and whether a stop that was asked for really happened.         *)
(*                                                                         *)
(* The object is a record and its three methods are operators on that      *)
(* record, so that a caller that makes several calls in one step (as       *)
(* MoveArmServer::tick does) composes them.  Times are integers in one     *)
(* monotonic clock domain and positions are points of an integer grid.     *)
(* A frame of the wrong size or with a non-finite value takes the same     *)
(* branch of the code as an unavailable one: `available` stands for all    *)
(* three.                                                                  *)
(***************************************************************************)
EXTENDS Integers

CONSTANTS
  Joints,             \* the joints of the arm
  Continuous,         \* those of them that wrap around
  FullTurn,           \* grid points of one turn of a continuous joint
  PositionTolerance,  \* position_tolerance
  VelocityTolerance,  \* velocity_tolerance, grid points per unit of time
  SettlingTime,       \* settling_seconds
  FeedbackTimeout,    \* feedback_timeout
  StopTimeout         \* stop_timeout

\* What the constructor checks before it builds a monitor.
ASSUME MonitorAssumption ==
  /\ Joints # {} /\ Continuous \subseteq Joints
  /\ FullTurn \in Nat \ {0}
  /\ PositionTolerance \in Nat \ {0} /\ VelocityTolerance \in Nat \ {0}
  /\ SettlingTime \in Nat \ {0} /\ FeedbackTimeout \in Nat \ {0}
  /\ StopTimeout \in Nat /\ StopTimeout > SettlingTime

ControllerResults == {"running", "succeeded", "canceled", "failed"}
Verdicts == {"running", "settling", "succeeded", "stale", "failed", "timeout",
             "stopping", "stopped", "stop_unconfirmed"}

Positions == [Joints -> Int]
NoPositions == <<>>  \* an empty previous_ vector
Never == -1          \* last_stamp_ and stable_since_ when there is none

Monitor ==
  [target : Positions, previous : Positions \cup {NoPositions},
   deadline : Int, stopDeadline : Int, lastStamp : Int, stableSince : Int,
   lastNow : Int, stopping : BOOLEAN, started : BOOLEAN]

\* One call of update: the time, and the feedback and controller state read.
Reading == [now : Nat, stamp : Int, positions : Positions,
            available : BOOLEAN, controller : ControllerResults]

NewMonitor ==
  [target |-> [j \in Joints |-> 0], previous |-> NoPositions,
   deadline |-> 0, stopDeadline |-> 0, lastStamp |-> Never,
   stableSince |-> Never, lastNow |-> Never,
   stopping |-> FALSE, started |-> FALSE]

-----------------------------------------------------------------------------
\* |difference(a, b)|: plain distance, or the shorter way round for a
\* continuous joint.
Distance(j, a, b) ==
  LET gap == IF a >= b THEN a - b ELSE b - a
      arc == gap % FullTurn
  IN IF j \notin Continuous THEN gap
     ELSE IF 2 * arc <= FullTurn THEN arc ELSE FullTurn - arc

AtTarget(target, positions) ==
  \A j \in Joints : Distance(j, target[j], positions[j]) <= PositionTolerance

\* The finite difference between two frames stays within the velocity limit.
Still(previous, positions, elapsed) ==
  \A j \in Joints :
    Distance(j, positions[j], previous[j]) <= VelocityTolerance * elapsed

-----------------------------------------------------------------------------
Start(m, target, now, timeout) ==
  [m EXCEPT !.target = target, !.previous = NoPositions,
            !.deadline = now + timeout, !.lastNow = now, !.lastStamp = Never,
            !.stableSince = Never, !.stopping = FALSE, !.started = TRUE]

RequestStop(m, now) ==
  IF m.stopping THEN m
  ELSE [m EXCEPT !.stopping = TRUE, !.stopDeadline = now + StopTimeout,
                 !.stableSince = Never, !.previous = NoPositions]

-----------------------------------------------------------------------------
\* Mutant: the deadline itself still counts as in time.
ExpiredAfter(m, now) == now > (IF m.stopping THEN m.stopDeadline ELSE m.deadline)

Expired(m, now) == now >= (IF m.stopping THEN m.stopDeadline ELSE m.deadline)

Fresh(m, r) == /\ r.available
               /\ r.stamp <= r.now
               /\ r.now - r.stamp <= FeedbackTimeout
               /\ r.stamp >= m.lastStamp

ControllerBroke(m, r) == ~m.stopping /\ r.controller \in {"failed", "canceled"}

\* Mutant: the controller's state is not asked for.
ControllerDoneUnasked(m, r) == TRUE

ControllerDone(m, r) ==
  r.controller = "succeeded" \/ (m.stopping /\ r.controller = "canceled")

\* The frame that velocity is measured against: none after too long a gap.
\* Mutant: whatever the gap.
BaselineAcrossGaps(m, r) == m.previous

Baseline(m, r) ==
  IF m.lastStamp >= 0 /\ r.stamp - m.lastStamp > FeedbackTimeout
  THEN NoPositions ELSE m.previous

Stable(m, r) == /\ Baseline(m, r) # NoPositions
                /\ m.stopping \/ AtTarget(m.target, r.positions)
                /\ Still(Baseline(m, r), r.positions, r.stamp - m.lastStamp)

SettledSince(m, r) ==
  IF ~(Stable(m, r) /\ ControllerDone(m, r)) THEN Never
  ELSE IF m.stableSince < 0 THEN r.stamp ELSE m.stableSince

\* The rest of update once a new fresh frame is at hand.
Consume(m, r) ==
  LET since == SettledSince(m, r)
      settled == since >= 0 /\ r.stamp - since >= SettlingTime
  IN [monitor |-> [m EXCEPT !.lastNow = r.now, !.previous = r.positions,
                            !.lastStamp = r.stamp, !.stableSince = since],
      verdict |-> IF m.stopping THEN IF settled THEN "stopped" ELSE "stopping"
                  ELSE IF settled THEN "succeeded"
                  ELSE IF since >= 0 THEN "settling" ELSE "running"]

Update(m, r) ==
  LET seen == [m EXCEPT !.lastNow = r.now]
      lost == [seen EXCEPT !.stableSince = Never, !.previous = NoPositions]
      Answer(next, ifStopping, otherwise) ==
        [monitor |-> next,
         verdict |-> IF m.stopping THEN ifStopping ELSE otherwise]
  IN IF Expired(m, r.now) THEN Answer(seen, "stop_unconfirmed", "timeout")
     ELSE IF ~Fresh(m, r) THEN Answer(lost, "stopping", "stale")
     ELSE IF ControllerBroke(m, r) THEN Answer(seen, "stopping", "failed")
     ELSE IF r.stamp = m.lastStamp THEN Answer(seen, "stopping", "running")
     ELSE Consume(m, r)
=============================================================================
