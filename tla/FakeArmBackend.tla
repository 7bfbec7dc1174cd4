--------------------------- MODULE FakeArmBackend ---------------------------
(***************************************************************************)
(* class FakeArmBackend of zzx_execution (fake_arm_backend.cpp): a timed   *)
(* in-memory arm with injected faults.  Its methods are operators on a     *)
(* record; execute and cancel come with the boolean they return.  The      *)
(* fault is fixed when the process starts, so it is a parameter.           *)
(***************************************************************************)
EXTENDS Integers

CONSTANTS
  Joints,       \* the joints of the arm
  Duration,     \* duration: how long a motion takes
  FaultAfter    \* fault_after: when a timed fault strikes

Faults == {"normal", "slow", "reject", "stuck", "feedback_loss",
           "cancel_reject", "controller_failure"}
BackendStates == {"idle", "executing", "succeeded", "canceled", "failed"}

Backend == [positions : [Joints -> Int], start : [Joints -> Int],
            target : [Joints -> Int], elapsed : Nat, clock : Nat,
            stamp : Nat, state : BackendStates]

NewBackend(initial) ==
  [positions |-> initial, start |-> initial, target |-> initial,
   elapsed |-> 0, clock |-> 0, stamp |-> 0, state |-> "idle"]

-----------------------------------------------------------------------------
ExecuteAccepted(b, fault) == b.state # "executing" /\ fault # "reject"

Execute(b, target) ==
  [b EXCEPT !.start = b.positions, !.target = target, !.elapsed = 0,
            !.state = "executing"]

-----------------------------------------------------------------------------
SmallerOf(a, b) == IF a <= b THEN a ELSE b

MotionTime(fault) == IF fault = "slow" THEN 5 * Duration ELSE Duration

\* How much of the elapsed time moved the arm.
Effective(elapsed, fault) ==
  IF fault = "stuck" THEN SmallerOf(elapsed, FaultAfter) ELSE elapsed

Interpolate(from, to, part, whole) ==
  IF part >= whole THEN to ELSE from + ((to - from) * part) \div whole

\* No frame reaches the caller, and the stamp stands still.
FeedbackLost(b, fault) ==
  fault = "feedback_loss" /\ b.elapsed >= FaultAfter /\ b.state # "idle"

\* The motion part of advance: only an executing backend moves.
MoveFor(b, fault, seconds) ==
  LET elapsed == b.elapsed + seconds
      part == Effective(elapsed, fault)
      whole == MotionTime(fault)
  IN IF b.state # "executing" THEN b
     ELSE [b EXCEPT
            !.elapsed = elapsed,
            !.positions = [j \in Joints |->
               Interpolate(b.start[j], b.target[j], part, whole)],
            !.state = IF fault = "controller_failure" /\ elapsed >= FaultAfter
                      THEN "failed"
                      ELSE IF part >= whole THEN "succeeded" ELSE "executing"]

Advance(b, fault, seconds) ==
  LET moved == [MoveFor(b, fault, seconds) EXCEPT !.clock = b.clock + seconds]
  IN IF FeedbackLost(moved, fault) THEN moved
     ELSE [moved EXCEPT !.stamp = moved.clock]

-----------------------------------------------------------------------------
CancelAccepted(b, fault) ==
  fault # "cancel_reject" /\ b.state \in {"executing", "failed"}

Cancel(b, fault) ==
  IF CancelAccepted(b, fault) THEN [b EXCEPT !.state = "canceled"] ELSE b
=============================================================================
