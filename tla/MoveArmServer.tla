---------------------------- MODULE MoveArmServer ---------------------------
(***************************************************************************)
(* The MoveArm action server (move_arm_server.cpp) over the fake arm       *)
(* backend and the execution monitor, with its action clients.             *)
(*                                                                         *)
(* The node runs in a single-threaded executor: the goal request (with the *)
(* accepted callback it triggers), the cancel request and the timer are    *)
(* the three steps that interleave.  Time is counted in timer units; one   *)
(* timer callback may come late (TickGaps).  A goal's speed scaling        *)
(* multiplies the time handed to the backend: FullSpeed units of backend   *)
(* time pass per unit of real time at scaling 1.                           *)
(***************************************************************************)
EXTENDS ExecutionMonitor

CONSTANTS
  Goals,          \* goal handles clients may send, each once
  NoGoal,         \* active_ when it is null
  Home,           \* initial_positions
  Targets,        \* joint targets inside the limits
  Timeouts,       \* goal timeouts
  FullSpeed,      \* units of backend time per unit of real time at scaling 1
  Scalings,       \* min(velocity_scaling, sqrt(acceleration_scaling)), of FullSpeed
  TickGaps,       \* real time between two timer callbacks
  ArrivalDelays,  \* real time from a timer callback to a goal request
  Duration,       \* duration_seconds, in backend time
  FaultAfter,     \* fault_after_seconds, in backend time
  LaunchFaults,   \* the faults the node may be launched with
  LastSend        \* bound: no goal is sent and no idle tick taken after it

VARIABLES
  fault,        \* the launch parameter of the backend
  backend,      \* backend_
  monitor,      \* monitor_
  active,       \* active_
  reserved,     \* reserved_
  ready,        \* ready_
  stopping,     \* stopping_
  stopCode,     \* stop_code_
  scale,        \* scale_
  started,      \* started_
  lastTick,     \* last_tick_
  sampleTime,   \* sample_time_
  sourceStamp,  \* source_stamp_
  request,      \* what each goal asks for
  status,       \* the action state of each goal
  code          \* the error code in each goal's result

clientVars == <<request, status, code>>
sampleVars == <<sampleTime, sourceStamp>>
stopVars == <<stopping, stopCode>>
vars == <<fault, backend, monitor, active, reserved, ready, stopping, stopCode,
          scale, started, lastTick, sampleTime, sourceStamp, request, status,
          code>>

Arm == INSTANCE FakeArmBackend

ASSUME ServerAssumption ==
  /\ NoGoal \notin Goals
  /\ Home \in Positions /\ Targets \subseteq Positions
  /\ Timeouts \subseteq Nat \ {0} /\ TickGaps \subseteq Nat \ {0}
  /\ TickGaps # {}
  /\ ArrivalDelays \subseteq Nat
  /\ FullSpeed \in Nat \ {0} /\ Scalings \subseteq 0 .. FullSpeed
  /\ Duration \in Nat \ {0} /\ FaultAfter \in Nat
  /\ LaunchFaults \subseteq Arm!Faults
  /\ LastSend \in Nat

\* Goals by the branch of accept they take; a motion also has its parameters.
Motions == [kind : {"motion", "plan_only"}, target : Targets,
            timeout : Timeouts, scaling : Scalings]
Refused == [kind : {"pose_target", "unknown_target", "invalid"}]
NoRequest == [kind |-> "none"]

StopCodes == {"CANCELED", "STALE_DATA", "EXECUTION_FAILED", "TIMEOUT"}
Codes == StopCodes \cup {"OK", "UNSUPPORTED", "INVALID_ARGUMENT",
                         "BACKEND_REJECTED", "STOP_UNCONFIRMED"}

InFlight == {"executing", "canceling"}
Terminal == {"succeeded", "canceled", "aborted", "rejected"}

Init ==
  /\ fault \in LaunchFaults
  /\ backend = Arm!NewBackend(Home)
  /\ monitor = NewMonitor
  /\ active = NoGoal /\ reserved = FALSE /\ ready = TRUE
  /\ stopping = FALSE /\ stopCode = "OK"
  /\ scale = FullSpeed
  /\ started = 0 /\ lastTick = 0 /\ sampleTime = Never /\ sourceStamp = Never
  /\ request = [g \in Goals |-> NoRequest]
  /\ status = [g \in Goals |-> "unsent"]
  /\ code = [g \in Goals |-> "none"]

-----------------------------------------------------------------------------
\* finish: the result's action state follows from its code.
\* Mutant: an aborted goal is given a state clients do not know.
ResultStateUnknown(c) == IF c = "OK" THEN "succeeded"
                         ELSE IF c = "CANCELED" THEN "canceled" ELSE "failed"

ResultState(c) == IF c = "OK" THEN "succeeded"
                  ELSE IF c = "CANCELED" THEN "canceled" ELSE "aborted"

\* Mutants: a refusal by the backend keeps the reservation; the result of a
\* stop that could not be confirmed is never delivered.
FinishKeepingReservation(g, c) ==
  /\ status' = [status EXCEPT ![g] = ResultState(c)]
  /\ code' = [code EXCEPT ![g] = c]
  /\ active' = NoGoal
  /\ reserved' = (c = "BACKEND_REJECTED")

FinishWithoutResult(g, c) ==
  /\ status' = IF c = "STOP_UNCONFIRMED" THEN status
               ELSE [status EXCEPT ![g] = ResultState(c)]
  /\ code' = [code EXCEPT ![g] = c]
  /\ active' = NoGoal
  /\ reserved' = FALSE

FinishWith(g, c) == /\ status' = [status EXCEPT ![g] = ResultState(c)]
                    /\ code' = [code EXCEPT ![g] = c]
                    /\ active' = NoGoal
                    /\ reserved' = FALSE

\* The goal callback turns the goal away.
RejectGoal(g) ==
  /\ reserved \/ ~ready
  /\ status' = [status EXCEPT ![g] = "rejected"]
  /\ UNCHANGED <<fault, backend, monitor, active, reserved, ready, stopVars,
                 scale, started, lastTick, sampleVars, code>>

\* The checks of accept, in their order; "" when the motion is to start.
Refusal(r) ==
  CASE r.kind = "pose_target"              -> "UNSUPPORTED"
    [] r.kind \in {"unknown_target", "invalid"} -> "INVALID_ARGUMENT"
    [] r.kind = "plan_only"                -> "OK"
    [] r.kind = "motion" /\ ~Arm!ExecuteAccepted(backend, fault)
                                           -> "BACKEND_REJECTED"
    [] OTHER                               -> ""

\* The goal callback reserves the server and accept ends the goal at once.
AnswerGoal(g, r) ==
  /\ ~reserved /\ ready
  /\ Refusal(r) # ""
  /\ FinishWith(g, Refusal(r))
  /\ UNCHANGED <<fault, backend, monitor, ready, stopVars, scale, started,
                 lastTick, sampleVars>>

\* The goal callback reserves the server and accept starts the motion.
StartGoal(g, r, delay) ==
  /\ ~reserved /\ ready
  /\ Refusal(r) = ""
  /\ reserved' = TRUE
  /\ active' = g
  /\ status' = [status EXCEPT ![g] = "executing"]
  /\ backend' = Arm!Execute(backend, r.target)
  /\ lastTick' = lastTick + delay /\ started' = lastTick'
  /\ stopping' = FALSE
  /\ monitor' = Start(monitor, r.target, lastTick', r.timeout)
  /\ scale' = r.scaling
  /\ UNCHANGED <<fault, ready, stopCode, sampleVars, code>>

SendGoal(g) ==
  /\ status[g] = "unsent" /\ lastTick <= LastSend
  /\ \E r \in Motions \cup Refused, delay \in ArrivalDelays :
       /\ request' = [request EXCEPT ![g] = r]
       /\ RejectGoal(g) \/ AnswerGoal(g, r) \/ StartGoal(g, r, delay)

\* The cancel callback accepts every request for a goal in flight.
CancelGoal(g) ==
  /\ status[g] = "executing"
  /\ status' = [status EXCEPT ![g] = "canceling"]
  /\ UNCHANGED <<fault, backend, monitor, active, reserved, ready, stopVars,
                 scale, started, lastTick, sampleVars, request, code>>

-----------------------------------------------------------------------------
\* tick hands the backend its scaled share of the time that passed ...
Advanced(gap) ==
  Arm!Advance(backend, fault,
              gap * (IF active = NoGoal THEN FullSpeed ELSE scale))

\* ... and a frame counts as new only when the backend's own stamp moved on.
NewFrame(b) == ~Arm!FeedbackLost(b, fault) /\ b.stamp > sourceStamp

TakeSample(b, now) ==
  /\ sampleTime' = IF NewFrame(b) THEN now ELSE sampleTime
  /\ sourceStamp' = IF NewFrame(b) THEN b.stamp ELSE sourceStamp

\* The frame is read before a cancellation is acted on, the controller's
\* state after it.
ReadingOf(b, state, now) ==
  [now |-> now, stamp |-> sampleTime', positions |-> b.positions,
   available |-> ~Arm!FeedbackLost(b, fault),
   controller |-> IF state \in ControllerResults THEN state ELSE "running"]

\* The part of tick before the monitor is asked: an accepted cancellation
\* begins the stop.  Both the monitor and the backend learn of it.
\* Mutants: a stop already under way is taken for no stop; an accepted
\* cancellation is not looked at.
CancelSeenAgain == status[active] = "canceling"
CancelOverlooked == FALSE

CancelSeen == status[active] = "canceling" /\ ~stopping

BeforeUpdate(b, now) ==
  IF CancelSeen
  THEN [stopping |-> TRUE, stopCode |-> "CANCELED",
        monitor |-> RequestStop(monitor, now), backend |-> Arm!Cancel(b, fault)]
  ELSE [stopping |-> stopping, stopCode |-> stopCode,
        monitor |-> monitor, backend |-> b]

\* begin_stop after the verdict: only the first reason takes effect.
BeginStop(s, m, now, c) ==
  IF s.stopping THEN [s EXCEPT !.monitor = m]
  ELSE [stopping |-> TRUE, stopCode |-> c, monitor |-> RequestStop(m, now),
        backend |-> Arm!Cancel(s.backend, fault)]

StopReason(verdict) == CASE verdict = "stale"  -> "STALE_DATA"
                         [] verdict = "failed" -> "EXECUTION_FAILED"
                         [] verdict = "timeout" -> "TIMEOUT"

Keep(s) == /\ stopping' = s.stopping /\ stopCode' = s.stopCode
           /\ monitor' = s.monitor /\ backend' = s.backend

\* The verdicts after which the server takes no goal until it is restarted.
\* Mutant: only the loss of feedback locks it.
LocksOnStaleOnly(verdict) == verdict = "stale"

Locks(verdict) == verdict \in {"stale", "stop_unconfirmed"}

\* The switch of tick over the monitor's verdict.
Act(s, m, now, verdict) ==
  \/ /\ verdict \in {"stale", "failed", "timeout"}
     /\ Keep(BeginStop(s, m, now, StopReason(verdict)))
     /\ ready' = IF Locks(verdict) THEN FALSE ELSE ready
     /\ UNCHANGED <<active, reserved, status, code>>
  \/ /\ verdict = "stop_unconfirmed"
     /\ Keep([s EXCEPT !.monitor = m])
     /\ ready' = IF Locks(verdict) THEN FALSE ELSE ready
     /\ FinishWith(active, "STOP_UNCONFIRMED")
  \/ /\ verdict \in {"stopped", "succeeded"}
     /\ Keep([s EXCEPT !.monitor = m])
     /\ FinishWith(active, IF verdict = "stopped" THEN s.stopCode ELSE "OK")
     /\ UNCHANGED ready
  \/ /\ verdict \in {"running", "settling", "stopping"}
     /\ Keep([s EXCEPT !.monitor = m])
     /\ UNCHANGED <<ready, active, reserved, status, code>>

IdleTick(gap) ==
  /\ active = NoGoal /\ lastTick < LastSend
  /\ lastTick' = lastTick + gap
  /\ backend' = Advanced(gap)
  /\ TakeSample(Advanced(gap), lastTick')
  /\ UNCHANGED <<fault, monitor, active, reserved, ready, stopVars, scale,
                 started, clientVars>>

ActiveTick(gap) ==
  /\ active # NoGoal
  /\ lastTick' = lastTick + gap
  /\ \E moved \in {Advanced(gap)} :
       /\ TakeSample(moved, lastTick')
       /\ \E s \in {BeforeUpdate(moved, lastTick')} :
          \E r \in {ReadingOf(moved, s.backend.state, lastTick')} :
          \E u \in {Update(s.monitor, r)} :
            Act(s, u.monitor, lastTick', u.verdict)
  /\ UNCHANGED <<fault, scale, started, request>>

Tick == \E gap \in TickGaps : IdleTick(gap) \/ ActiveTick(gap)

Next == \/ \E g \in Goals : SendGoal(g) \/ CancelGoal(g)
        \/ Tick

\* The executor's timer keeps firing; clients promise nothing.
Fairness == WF_vars(Tick)

Safety == Init /\ [][Next]_vars
Spec == Safety /\ Fairness

-----------------------------------------------------------------------------
TypeOK ==
  /\ fault \in LaunchFaults /\ backend \in Arm!Backend /\ monitor \in Monitor
  /\ active \in Goals \cup {NoGoal}
  /\ reserved \in BOOLEAN /\ ready \in BOOLEAN
  /\ stopping \in BOOLEAN /\ stopCode \in StopCodes \cup {"OK"}
  /\ scale \in 0 .. FullSpeed
  /\ started \in Nat /\ lastTick \in Nat
  /\ sampleTime \in Nat \cup {Never} /\ sourceStamp \in Nat \cup {Never}
  /\ request \in [Goals -> Motions \cup Refused \cup {NoRequest}]
  /\ status \in [Goals -> InFlight \cup Terminal \cup {"unsent"}]
  /\ code \in [Goals -> Codes \cup {"none"}]

\* The reservation, the active handle and the clients' view of which goal is
\* in flight agree: a goal that ended on any path frees the server for the
\* next one, and no goal is left in flight without the server serving it.
Reservation == /\ reserved <=> active # NoGoal
               /\ \A g \in Goals : status[g] \in InFlight <=> active = g

\* A server that would take a goal has an arm at rest: the backend executes
\* only for the goal in flight, or after the server locked itself.
IdleArmAtRest == backend.state = "executing" => active # NoGoal \/ ~ready

\* execution_monitor.md: the result comes at most stop_timeout after the
\* goal's own timeout, plus the lateness of a timer callback.
BoundedService ==
  active # NoGoal =>
    \E gap \in TickGaps :
      lastTick < started + request[active].timeout + gap + StopTimeout

\* A motion reported as a success is one whose controller finished and whose
\* joints, measured in this very tick, are at the goal's own target.
SuccessOnTarget ==
  [][\A g \in Goals :
       (status[g] \in InFlight /\ status'[g] = "succeeded")
         => /\ backend'.state = "succeeded"
            /\ AtTarget(request[g].target, backend'.positions)
            /\ sampleTime' = lastTick']_vars

\* Once a stop began its first reason and its deadline stand, and the result
\* is that reason or the admission that the stop was not confirmed.
FirstReasonStands ==
  [][\A g \in Goals :
       (active = g /\ stopping) =>
         /\ stopCode' = stopCode
         /\ monitor'.stopDeadline = monitor.stopDeadline
         /\ active' = NoGoal => code'[g] \in {stopCode, "STOP_UNCONFIRMED"}]_vars

\* A goal that ends while feedback is lost leaves the server locked, whatever
\* reason the stop had.
LossLocks ==
  [][\A g \in Goals :
       (active = g /\ active' # g /\ Arm!FeedbackLost(backend', fault))
         => ~ready']_vars

\* The server keeps the promise of an exclusive action: no success after an
\* accepted cancellation, "canceled" only when it was asked for, no goal
\* accepted while another moves the arm or after the server locked itself,
\* and a result for every accepted goal.
Promise == INSTANCE ExclusiveAction
             WITH CancelWins <- TRUE,
                  moving <- backend.state = "executing", locked <- ~ready

ExclusiveSafety == Promise!ASafety
EveryGoalEnds == Promise!AEnds
=============================================================================
