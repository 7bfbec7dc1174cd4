----------------------- MODULE ExecutionMonitor_proofs ----------------------
(***************************************************************************)
(* Facts about the methods of the execution monitor, for every reading and *)
(* every state of the monitor.  The modules that use a monitor cite them.  *)
(***************************************************************************)
EXTENDS ExecutionMonitor, TLAPS

LEMMA NeverType == Never \in Int
  BY DEF Never

\* A monitor stays a monitor under start and request_stop.
LEMMA StartType ==
  ASSUME NEW m \in Monitor, NEW target \in Positions,
         NEW now \in Int, NEW timeout \in Int
  PROVE  Start(m, target, now, timeout) \in Monitor
<1>1. now + timeout \in Int
  OBVIOUS
<1>2. QED
  BY <1>1, NeverType DEF Start, Monitor

\* start opens an execution with its own deadline.
LEMMA StartEffect ==
  ASSUME NEW m \in Monitor, NEW target \in Positions,
         NEW now \in Int, NEW timeout \in Int
  PROVE  /\ Start(m, target, now, timeout).stopping = FALSE
         /\ Start(m, target, now, timeout).deadline = now + timeout
<1> DEFINE until == now + timeout
           next == [m EXCEPT
             !.target = target, !.previous = NoPositions, !.deadline = until,
             !.lastNow = now, !.lastStamp = Never, !.stableSince = Never,
             !.stopping = FALSE, !.started = TRUE]
<1>1. Start(m, target, now, timeout) = next
  BY DEF Start
<1> HIDE DEF until
<1>2. next.stopping = FALSE /\ next.deadline = until
  BY DEF Monitor
<1>3. QED
  BY <1>1, <1>2 DEF until

LEMMA RequestStopType ==
  ASSUME NEW m \in Monitor, NEW now \in Int
  PROVE  RequestStop(m, now) \in Monitor
<1>1. now + StopTimeout \in Int
  BY MonitorAssumption
<1>2. QED
  BY <1>1, NeverType DEF RequestStop, Monitor

\* A requested stop is under way, and only the first request sets how long
\* it may take.
LEMMA RequestStopEffect ==
  ASSUME NEW m \in Monitor, NEW now \in Int
  PROVE  /\ RequestStop(m, now).stopping = TRUE
         /\ RequestStop(m, now).deadline = m.deadline
         /\ RequestStop(m, now).stopDeadline =
              IF m.stopping THEN m.stopDeadline ELSE now + StopTimeout
<1>1. m.stopping \in BOOLEAN
  BY DEF Monitor
<1>2. CASE m.stopping
  BY <1>1, <1>2 DEF RequestStop
<1>3. CASE ~m.stopping
  <2> DEFINE until == now + StopTimeout
             next == [m EXCEPT !.stopping = TRUE, !.stopDeadline = until,
                               !.stableSince = Never, !.previous = NoPositions]
  <2>1. RequestStop(m, now) = next
    BY <1>3 DEF RequestStop
  <2> HIDE DEF until
  <2>2. next.stopping = TRUE /\ next.deadline = m.deadline /\ next.stopDeadline = until
    BY DEF Monitor
  <2>3. QED
    BY <1>3, <2>1, <2>2 DEF until
<1>4. QED
  BY <1>2, <1>3

\* update returns a monitor and a verdict whatever it reads.
LEMMA UpdateType ==
  ASSUME NEW m \in Monitor, NEW r \in Reading
  PROVE  /\ Update(m, r).monitor \in Monitor
         /\ Update(m, r).verdict \in Verdicts
<1>1. SettledSince(m, r) \in Int
  BY DEF SettledSince, Reading, Monitor, Never
<1>2. r.now \in Int /\ r.stamp \in Int /\ r.positions \in Positions
  BY DEF Reading
<1>3. Consume(m, r).monitor \in Monitor
  <2>1. [m EXCEPT !.lastNow = r.now, !.previous = r.positions,
                  !.lastStamp = r.stamp, !.stableSince = SettledSince(m, r)]
          \in Monitor
    BY <1>1, <1>2 DEF Monitor
  <2>2. QED
    BY <2>1 DEF Consume
<1>4. Consume(m, r).verdict \in Verdicts
  BY DEF Consume, Verdicts
<1>5. [m EXCEPT !.lastNow = r.now] \in Monitor
  BY <1>2 DEF Monitor
<1>6. [[m EXCEPT !.lastNow = r.now]
         EXCEPT !.stableSince = Never, !.previous = NoPositions] \in Monitor
  BY <1>5, NeverType DEF Monitor
<1>7. QED
  BY <1>3, <1>4, <1>5, <1>6 DEF Update, Verdicts

\* Whether a stop is under way, and until when, is settled by start and
\* request_stop alone; update only reads it.
LEMMA UpdateFrame ==
  ASSUME NEW m \in Monitor, NEW r \in Reading
  PROVE  /\ Update(m, r).monitor.stopping = m.stopping
         /\ Update(m, r).monitor.stopDeadline = m.stopDeadline
         /\ Update(m, r).monitor.deadline = m.deadline
         /\ Update(m, r).monitor.target = m.target
  BY DEF Update, Consume, Monitor

\* A verdict in favour of the motion needs a controller that has ended, a
\* fresh frame and a running clock, and belongs to the phase the monitor is in.
LEMMA FinalVerdict ==
  ASSUME NEW m \in Monitor, NEW r \in Reading,
         Update(m, r).verdict \in {"succeeded", "stopped"}
  PROVE  /\ ControllerDone(m, r) /\ Fresh(m, r) /\ ~Expired(m, r.now)
         /\ Update(m, r).verdict = "stopped" <=> m.stopping
         /\ ~m.stopping => AtTarget(m.target, r.positions)
<1>1. Update(m, r) = Consume(m, r) /\ Fresh(m, r) /\ ~Expired(m, r.now)
  BY DEF Update
<1>2. SettledSince(m, r) >= 0
  BY <1>1 DEF Consume
<1>3. Stable(m, r) /\ ControllerDone(m, r)
  BY <1>2 DEF SettledSince, Never
<1>4. QED
  BY <1>1, <1>3 DEF Consume, Stable

\* Only the deadline of the current phase makes the monitor give up, and it
\* always does.
LEMMA DeadlineVerdict ==
  ASSUME NEW m \in Monitor, NEW r \in Reading
  PROVE  /\ Update(m, r).verdict = "stop_unconfirmed" <=>
              m.stopping /\ r.now >= m.stopDeadline
         /\ Update(m, r).verdict = "timeout" <=>
              ~m.stopping /\ r.now >= m.deadline
         /\ Update(m, r).verdict \in {"stale", "failed"} => ~m.stopping
         /\ Update(m, r).verdict \in {"running", "settling"} => ~m.stopping
  BY DEF Update, Consume, Expired, Monitor, Reading

\* A success comes with the second of two frames at least: the settling window
\* was begun by an earlier one.
LEMMA SuccessNeedsWindow ==
  ASSUME NEW m \in Monitor, NEW r \in Reading,
         Update(m, r).verdict = "succeeded"
  PROVE  /\ m.stableSince >= 0 /\ r.stamp # m.lastStamp
         /\ r.controller = "succeeded" /\ ~m.stopping
         /\ AtTarget(m.target, r.positions)
<1>1. Update(m, r) = Consume(m, r) /\ r.stamp # m.lastStamp
  BY DEF Update
<1>2. /\ ~m.stopping /\ SettledSince(m, r) >= 0
      /\ r.stamp - SettledSince(m, r) >= SettlingTime
  BY <1>1 DEF Consume
<1>3. Stable(m, r) /\ ControllerDone(m, r)
  BY <1>2 DEF SettledSince, Never
<1>4. m.stableSince >= 0
  <2>1. r.stamp \in Int /\ m.stableSince \in Int /\ SettlingTime \in Nat \ {0}
    BY MonitorAssumption DEF Reading, Monitor
  <2>2. SettledSince(m, r) # r.stamp
    BY <1>2, <2>1
  <2>3. ~(m.stableSince < 0)
    BY <1>3, <2>2 DEF SettledSince
  <2>4. QED
    BY <2>1, <2>3
<1>5. QED
  BY <1>1, <1>2, <1>3, <1>4 DEF Stable, ControllerDone

\* Whatever update does short of a verdict that begins or ends a stop, an open
\* settling window reaches to the frame that was read last.
LEMMA WindowReachesLastFrame ==
  ASSUME NEW m \in Monitor, NEW r \in Reading,
         Update(m, r).verdict \in {"running", "settling", "stopping", "succeeded", "stopped"},
         Update(m, r).monitor.stableSince >= 0
  PROVE  Update(m, r).monitor.lastStamp = r.stamp
<1> DEFINE seen == [m EXCEPT !.lastNow = r.now]
           lost == [seen EXCEPT !.stableSince = Never, !.previous = NoPositions]
<1>1. lost.stableSince = Never /\ seen.lastStamp = m.lastStamp
  BY DEF Monitor
<1>2. Consume(m, r).monitor.lastStamp = r.stamp
  BY DEF Consume, Monitor
<1>3. CASE Expired(m, r.now)
  BY <1>3 DEF Update
<1>4. CASE ~Expired(m, r.now) /\ ~Fresh(m, r)
  <2>1. Update(m, r).monitor = lost
    BY <1>4 DEF Update
  <2>2. Update(m, r).monitor.stableSince = Never
    BY <1>1, <2>1
  <2>3. QED
    BY <2>2 DEF Never
<1>5. CASE ~Expired(m, r.now) /\ Fresh(m, r) /\ ControllerBroke(m, r)
  BY <1>5 DEF Update, ControllerBroke
<1>6. CASE /\ ~Expired(m, r.now) /\ Fresh(m, r) /\ ~ControllerBroke(m, r)
           /\ r.stamp = m.lastStamp
  BY <1>1, <1>6 DEF Update
<1>7. CASE /\ ~Expired(m, r.now) /\ Fresh(m, r) /\ ~ControllerBroke(m, r)
           /\ r.stamp # m.lastStamp
  BY <1>2, <1>7 DEF Update
<1>8. QED
  BY <1>3, <1>4, <1>5, <1>6, <1>7

\* A window is closed, and the target kept, when a stop is asked for.
LEMMA RequestStopCloses ==
  ASSUME NEW m \in Monitor, NEW now \in Int
  PROVE  /\ RequestStop(m, now).target = m.target
         /\ ~m.stopping => RequestStop(m, now).stableSince = Never
  BY DEF RequestStop, Monitor
=============================================================================
