---------------------------- MODULE GoalContract ----------------------------
(***************************************************************************)
(* The meaning that zzx_contracts gives to the goals and results of the    *)
(* robot's actions and to perceived objects, and beside it what the parts  *)
(* that exchange them check or send on their own: the HTTP node's worker,  *)
(* the C++ server, the gateway, the monitor of the target contract.  None  *)
(* of those calls the contract's functions.                                *)
(*                                                                         *)
(* A number is a record: fin, whether it is finite, and v, its value in    *)
(* parts of One.  A blank text is the empty one.  Of an orientation only   *)
(* matters whether it is a unit quaternion.                                *)
(***************************************************************************)
EXTENDS Integers, Sequences

CONSTANTS One, ArmNames, HandNames,     \* protocol.py
          Joints, Lower, Upper          \* parameters of the C++ server

Second == 1000000000
Day == 86400 * Second
Distinct(s) == \A i, j \in 1..Len(s) : s[i] = s[j] => i = j
NamesIn(s) == {s[i] : i \in 1..Len(s)}
Finite(s) == \A i \in 1..Len(s) : s[i].fin
Unit(x) == x.fin /\ 0 <= x.v /\ x.v <= One
Scaling(x) == x.fin /\ 0 < x.v /\ x.v <= One
PositiveDuration(d) == /\ d.sec >= 0 /\ d.nanosec < Second
                       /\ d.sec > 0 \/ d.nanosec > 0

-----------------------------------------------------------------------------
(* The contract: goals.                                                    *)
UnsetPose == [frame |-> "", finite |-> TRUE, unit |-> TRUE]
PoseOK(p) == p.frame # "" /\ p.finite /\ p.unit

JointState(s) ==
  /\ Len(s.name) > 0 /\ Distinct(s.name)
  /\ Len(s.position) = Len(s.name) /\ Finite(s.position)
  /\ Len(s.velocity) \in {0, Len(s.name)} /\ Finite(s.velocity)
  /\ Len(s.effort) \in {0, Len(s.name)} /\ Finite(s.effort)

ArmGoalOK(g) ==
  /\ Scaling(g.velocity_scaling) /\ Scaling(g.acceleration_scaling)
  /\ PositiveDuration(g.timeout)
  /\ \/ g.target_type = "joints" /\ JointState(g.joint) /\ g.pose.frame = ""
     \/ g.target_type = "pose" /\ g.joint.name = <<>> /\ g.joint.position = <<>> /\ PoseOK(g.pose)

HandGoalOK(g) ==
  /\ g.position_unit \in {"normalized", "radians"}
  /\ g.joint_names # <<>> /\ Distinct(g.joint_names)
  /\ Len(g.positions) = Len(g.joint_names) /\ Finite(g.positions)
  /\ g.position_unit = "normalized" => \A i \in 1..Len(g.positions) : Unit(g.positions[i])
  /\ Scaling(g.speed_scaling)
  /\ g.max_effort.fin /\ g.max_effort.v >= 0
  /\ PositiveDuration(g.timeout)

(* The contract: results.                                                  *)
Codes == {"OK", "INVALID_ARGUMENT", "UNSUPPORTED", "NOT_READY", "BUSY",
          "RESOURCE_CONFLICT", "PLANNING_FAILED", "EXECUTION_FAILED", "TIMEOUT",
          "CANCELED", "STOP_UNCONFIRMED", "STALE_DATA", "CALIBRATION_INVALID",
          "TARGET_NOT_FOUND", "QUALITY_TOO_LOW", "BACKEND_UNAVAILABLE",
          "BACKEND_REJECTED", "RESULT_UNKNOWN", "INTERNAL"}
States == {"UNKNOWN", "ACCEPTED", "VALIDATING", "PLANNING", "EXECUTING", "SETTLING",
           "SUCCEEDED", "FAILED", "CANCELED", "NEEDS_RECONCILIATION"}

ErrorOK(e) == e.code \in Codes /\ (e.code # "OK" => e.message # "")
ExecutionOK(s) ==
  /\ s.state \in States /\ Unit(s.progress) /\ ErrorOK(s.error)
  /\ s.state # "UNKNOWN" => s.operation_id # ""
  /\ s.state = "SUCCEEDED" => s.error.code = "OK" /\ s.progress.v = One
  /\ s.state = "FAILED" => s.error.code # "OK"
  /\ s.state = "CANCELED" => s.error.code = "CANCELED"
  /\ s.state = "NEEDS_RECONCILIATION" => s.error.code = "RESULT_UNKNOWN"
ResultOK(r) == ExecutionOK(r.execution) /\ (r.success <=> r.execution.state = "SUCCEEDED")

(* The contract: perceived objects and the status of a subsystem.          *)
Located(t) == t.position_valid \/ t.orientation_valid
TargetOK(t) ==
  /\ t.object_id # "" /\ Unit(t.confidence)
  /\ PositiveDuration(t.stamp) /\ t.image_frame # ""
  /\ t.width > 0 /\ t.height > 0 /\ t.roi.width > 0 /\ t.roi.height > 0
  /\ t.roi.x + t.roi.width <= t.width /\ t.roi.y + t.roi.height <= t.height
  /\ Unit(t.score) /\ Unit(t.depth_ratio) /\ t.samples > 0 /\ t.method # ""
  /\ t.depth_valid => t.depth.fin /\ t.depth.v > 0
  /\ Located(t) \/ t.depth_valid => t.calibration # ""
  /\ Located(t) => t.frame # "" /\ t.position_finite
  /\ t.position_valid => t.position_std.fin /\ t.position_std.v >= 0
  /\ t.orientation_valid => t.unit /\ t.orientation_std.fin /\ t.orientation_std.v >= 0

CapabilitiesOK(c) ==
  c.backend_id # "" /\ (c.plan_only => c.joint_target \/ c.pose_target)
StatusOK(s) ==
  /\ s.name # "" /\ s.state \in {"UNKNOWN", "READY", "BUSY", "DEGRADED", "ERROR", "ESTOPPED"}
  /\ Len(s.keys) = Len(s.values) /\ Distinct(s.keys)
  /\ CapabilitiesOK(s.capabilities)
  /\ s.execution.state # "UNKNOWN" => ExecutionOK(s.execution)

(* The contract: a task.                                                   *)
TaskTypes == {"navigate", "inspect", "pick_place", "press_button", "toggle_switch",
              "sort_object"}
TaskOK(c) ==
  /\ c.schema_version = 2 /\ c.task_id # "" /\ c.robot_profile_id # ""
  /\ c.task_type \in TaskTypes
  /\ Len(c.keys) = Len(c.values) /\ Distinct(c.keys)

-----------------------------------------------------------------------------
(* What the HTTP worker accepts.                                           *)
TimeoutSeconds(d) == /\ PositiveDuration(d)
                     /\ d.sec < 86400 \/ (d.sec = 86400 /\ d.nanosec = 0)
Vector(s, count) == Len(s) = count /\ Finite(s)

HttpArmAccepts(g) ==
  /\ g.target_type = "joints"
  /\ g.pose = UnsetPose /\ g.joint.velocity = <<>> /\ g.joint.effort = <<>>
  /\ Len(g.joint.name) = 7 /\ Distinct(g.joint.name) /\ NamesIn(g.joint.name) = ArmNames
  /\ TimeoutSeconds(g.timeout) /\ Vector(g.joint.position, 7)
  /\ Scaling(g.velocity_scaling) /\ Scaling(g.acceleration_scaling)

HttpHandAccepts(g) ==
  /\ g.speed_scaling.fin /\ g.max_effort.fin
  /\ g.position_unit = "normalized" /\ ~g.stop_on_contact
  /\ g.max_effort.v = 0 /\ g.speed_scaling.v = One
  /\ g.joint_names # <<>> /\ Distinct(g.joint_names) /\ NamesIn(g.joint_names) \subseteq HandNames
  /\ TimeoutSeconds(g.timeout) /\ Vector(g.positions, Len(g.joint_names))
  /\ \A i \in 1..Len(g.positions) : Unit(g.positions[i])

(* What the C++ server accepts, with its loop over the joints.             *)
Index(name) == CHOOSE i \in 1..Len(Joints) : Joints[i] = name
FakeArmAccepts(g) ==
  /\ g.target_type = "joints" /\ g.pose = UnsetPose
  /\ Scaling(g.velocity_scaling) /\ Scaling(g.acceleration_scaling)
  /\ PositiveDuration(g.timeout)
  /\ Len(g.joint.name) = Len(Joints) /\ Len(g.joint.position) = Len(Joints)
  /\ g.joint.velocity = <<>> /\ g.joint.effort = <<>>
  /\ \A i \in 1..Len(Joints) :
       LET name == g.joint.name[i]
           x == g.joint.position[i]
       IN /\ name \in NamesIn(Joints) /\ \A j \in 1..(i - 1) : g.joint.name[j] # name
          /\ x.fin /\ Lower[Index(name)] <= x.v /\ x.v <= Upper[Index(name)]

(* What the gateway accepts from a caller, and the goal it makes of it,    *)
(* but for the order it sorts the joints into.  A request's time is        *)
(* counted in tenths of a nanosecond and rounded, a half to the even       *)
(* number.                                                                 *)
GatewayAccepts(r) ==
  /\ Len(r.joint_names) > 0 /\ Distinct(r.joint_names) /\ "" \notin NamesIn(r.joint_names)
  /\ Len(r.positions) = Len(r.joint_names) /\ Finite(r.positions)
  /\ Scaling(r.velocity_scaling) /\ Scaling(r.acceleration_scaling)
  /\ r.tenths > 0 /\ r.tenths <= 10 * Day

Rounded(tenths) ==
  LET whole == tenths \div 10
      rest == tenths % 10
  IN IF rest < 5 \/ (rest = 5 /\ whole % 2 = 0) THEN whole ELSE whole + 1

GatewayGoal(r) ==
  [target_type |-> "joints", pose |-> UnsetPose,
   joint |-> [name |-> r.joint_names, position |-> r.positions,
              velocity |-> <<>>, effort |-> <<>>],
   velocity_scaling |-> r.velocity_scaling, acceleration_scaling |-> r.acceleration_scaling,
   timeout |-> [sec |-> Rounded(r.tenths) \div Second,
                nanosec |-> Rounded(r.tenths) % Second]]

-----------------------------------------------------------------------------
(* The results the two servers make of an outcome, and the gateway's       *)
(* reading of a result.                                                    *)
HttpResult(o, id) ==
  LET success == o.code = "OK"
      error == [code |-> o.code, message |-> o.message]
  IN [success |-> success, error |-> error,
      execution |->
        [state |-> IF success THEN "SUCCEEDED" ELSE IF o.code = "CANCELED" THEN "CANCELED"
                   ELSE IF o.code = "RESULT_UNKNOWN" THEN "NEEDS_RECONCILIATION" ELSE "FAILED",
         progress |-> [fin |-> TRUE, v |-> IF success THEN One ELSE 0],
         operation_id |-> id, error |-> error]]

\* The server keeps the progress it published last, unless it succeeds.
FakeArmResult(code, message, progress, id) ==
  LET success == code = "OK"
      error == [code |-> code, message |-> message]
  IN [success |-> success, error |-> error,
      execution |->
        [state |-> IF success THEN "SUCCEEDED" ELSE IF code = "CANCELED" THEN "CANCELED"
                   ELSE "FAILED",
         progress |-> IF success THEN [fin |-> TRUE, v |-> One] ELSE progress,
         operation_id |-> id, error |-> error]]

Ending(code) == IF code = "OK" THEN "succeeded"
                ELSE IF code = "CANCELED" THEN "canceled" ELSE "aborted"
InDoubt == {"OK", "TIMEOUT", "STOP_UNCONFIRMED", "RESULT_UNKNOWN"}
\* The five checks that a result must pass to be recorded as a known end.
Agrees(status, r, id) ==
  /\ r.execution.operation_id = id /\ r.execution.error.code = r.error.code
  /\ \/ /\ status = "succeeded" /\ r.success /\ r.error.code = "OK"
        /\ r.execution.state = "SUCCEEDED"
     \/ /\ status = "canceled" /\ ~r.success /\ r.error.code = "CANCELED"
        /\ r.execution.state = "CANCELED"
     \/ /\ status = "aborted" /\ ~r.success /\ r.error.code \notin InDoubt
        /\ r.execution.state = "FAILED"
Recorded(status, r, id) ==
  IF Agrees(status, r, id) THEN r.execution.state ELSE "NEEDS_RECONCILIATION"

\* The status that the monitor of the target contract publishes.
MonitorStatus(t, complaint) ==
  [name |-> "perception_contract", keys |-> <<>>, values |-> <<>>,
   state |-> IF TargetOK(t) THEN "READY" ELSE "DEGRADED", enabled |-> TargetOK(t),
   capabilities |-> [backend_id |-> "zzx_contracts/object_target_v0_2", plan_only |-> FALSE,
                     joint_target |-> FALSE, pose_target |-> FALSE],
   execution |-> [state |-> "UNKNOWN", progress |-> [fin |-> TRUE, v |-> 0], operation_id |-> "",
                  error |-> IF TargetOK(t) THEN [code |-> "OK", message |-> ""]
                            ELSE [code |-> "INVALID_ARGUMENT", message |-> complaint]]]
=============================================================================
