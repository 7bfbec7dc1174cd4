------------------------ MODULE MoveArmServer_proofs ------------------------
(***************************************************************************)
(* Proofs about the MoveArm action server, for any number of goals and     *)
(* joints, any limits and thresholds, any fault and any lateness of the    *)
(* timer.                                                                  *)
(***************************************************************************)
EXTENDS MoveArmServer, ExecutionMonitor_proofs

-----------------------------------------------------------------------------
(* The fake backend.                                                       *)

LEMMA InterpolateType ==
  ASSUME NEW from \in Int, NEW to \in Int, NEW part \in Nat, NEW whole \in Nat
  PROVE  Arm!Interpolate(from, to, part, whole) \in Int
<1>1. CASE part >= whole
  BY <1>1 DEF Arm!Interpolate
<1>2. CASE ~(part >= whole)
  <2>1. whole > 0
    BY <1>2
  <2>2. ((to - from) * part) \in Int
    OBVIOUS
  <2>3. ((to - from) * part) \div whole \in Int
    BY <2>1, <2>2
  <2>4. QED
    BY <1>2, <2>3 DEF Arm!Interpolate
<1>3. QED
  BY <1>1, <1>2

\* advance keeps the shape of the backend, and only ends a motion.
LEMMA AdvanceType ==
  ASSUME NEW b \in Arm!Backend, NEW f \in Arm!Faults, NEW seconds \in Nat
  PROVE  /\ Arm!Advance(b, f, seconds) \in Arm!Backend
         /\ Arm!Advance(b, f, seconds).state = "executing"
              => b.state = "executing"
<1> DEFINE elapsed == b.elapsed + seconds
           part == Arm!Effective(elapsed, f)
           whole == Arm!MotionTime(f)
           moved == Arm!MoveFor(b, f, seconds)
<1>1. elapsed \in Nat /\ b.clock + seconds \in Nat
  BY DEF Arm!Backend
<1>2. part \in Nat /\ whole \in Nat
  BY <1>1, ServerAssumption DEF Arm!Effective, Arm!MotionTime, Arm!SmallerOf
<1>3. [j \in Joints |-> Arm!Interpolate(b.start[j], b.target[j], part, whole)]
        \in [Joints -> Int]
  BY <1>2, InterpolateType DEF Arm!Backend
<1>4. moved \in Arm!Backend /\ (moved.state = "executing" => b.state = "executing")
  BY <1>1, <1>3 DEF Arm!MoveFor, Arm!Backend, Arm!BackendStates
<1> HIDE DEF moved
<1> DEFINE clocked == [moved EXCEPT !.clock = b.clock + seconds]
<1>5. clocked \in Arm!Backend /\ clocked.state = moved.state
  BY <1>1, <1>4 DEF Arm!Backend
<1>6. [clocked EXCEPT !.stamp = clocked.clock] \in Arm!Backend
      /\ [clocked EXCEPT !.stamp = clocked.clock].state = moved.state
  BY <1>5 DEF Arm!Backend
<1>7. Arm!Advance(b, f, seconds) \in
        {clocked, [clocked EXCEPT !.stamp = clocked.clock]}
  BY DEF Arm!Advance, moved
<1>8. QED
  BY <1>4, <1>5, <1>6, <1>7

LEMMA ExecuteType ==
  ASSUME NEW b \in Arm!Backend, NEW target \in Positions
  PROVE  Arm!Execute(b, target) \in Arm!Backend
  BY DEF Arm!Execute, Arm!Backend, Arm!BackendStates, Positions

LEMMA CancelType ==
  ASSUME NEW b \in Arm!Backend, NEW f
  PROVE  /\ Arm!Cancel(b, f) \in Arm!Backend
         /\ Arm!Cancel(b, f).state = "executing" => b.state = "executing"
  BY DEF Arm!Cancel, Arm!CancelAccepted, Arm!Backend, Arm!BackendStates

\* A cancellation changes nothing about whether feedback is lost.
LEMMA CancelKeepsFeedback ==
  ASSUME NEW b \in Arm!Backend, NEW f
  PROVE  Arm!FeedbackLost(Arm!Cancel(b, f), f) <=> Arm!FeedbackLost(b, f)
  BY DEF Arm!Cancel, Arm!CancelAccepted, Arm!FeedbackLost, Arm!Backend

\* A reading is there exactly when the backend gives feedback.
LEMMA ReadingAvailable ==
  ASSUME NEW b, NEW state, NEW now
  PROVE  ReadingOf(b, state, now).available = ~Arm!FeedbackLost(b, fault)
  BY DEF ReadingOf

-----------------------------------------------------------------------------
(* The inductive invariant.  Beyond the types, the reservation and the arm  *)
(* at rest, it says that the server's and the monitor's notion of a stop    *)
(* agree, and that the reason CANCELED was given by a client: without that, *)
(* nothing excludes a success verdict for a goal being canceled.            *)

StopAgrees ==
  active # NoGoal =>
    /\ request[active] \in Motions
    /\ monitor.stopping = stopping
    /\ stopping => stopCode \in StopCodes
    /\ stopping /\ stopCode = "CANCELED" => status[active] = "canceling"

IInv == TypeOK /\ Reservation /\ StopAgrees /\ IdleArmAtRest

\* What an active tick has computed when it reaches its switch: the state s
\* after a cancellation was noticed, and the monitor's answer m, verdict.
AtSwitch(s, m, verdict) ==
  /\ s = [stopping |-> s.stopping, stopCode |-> s.stopCode,
          monitor |-> s.monitor, backend |-> s.backend]
  /\ s.stopping \in BOOLEAN /\ s.stopCode \in StopCodes \cup {"OK"}
  /\ s.monitor \in Monitor /\ s.backend \in Arm!Backend
  /\ m \in Monitor /\ verdict \in Verdicts
  /\ m.stopping = s.stopping
  /\ s.stopping => s.stopCode \in StopCodes
  /\ s.stopping /\ s.stopCode = "CANCELED" => status[active] = "canceling"
  /\ status[active] = "canceling" => s.stopping
  /\ verdict \in {"succeeded", "stopped"} => s.backend.state # "executing"
  /\ verdict \in {"succeeded", "stopped"} => ~Arm!FeedbackLost(s.backend, fault)
  /\ verdict = "succeeded" => ~s.stopping
  /\ verdict \in {"stopped", "stop_unconfirmed"} => s.stopping
  /\ verdict \in {"stale", "failed", "timeout"} => ~s.stopping
  /\ s.backend.state = "executing" => backend.state = "executing"
  /\ m.deadline = monitor.deadline
  /\ stopping => /\ s.stopping /\ s.stopCode = stopCode
                 /\ m.stopDeadline = monitor.stopDeadline
  /\ ~stopping /\ s.stopping => m.stopDeadline = lastTick' + StopTimeout
  /\ ~s.stopping /\ verdict # "timeout" => lastTick' < monitor.deadline
  /\ s.stopping /\ verdict # "stop_unconfirmed" => lastTick' < m.stopDeadline

LEMMA SampleType ==
  ASSUME TypeOK, NEW b \in Arm!Backend, NEW now \in Nat, TakeSample(b, now)
  PROVE  sampleTime' \in Nat \cup {Never} /\ sourceStamp' \in Nat \cup {Never}
  BY DEF TakeSample, TypeOK, Arm!Backend

LEMMA ActiveTickReachesSwitch ==
  ASSUME IInv, NEW gap \in TickGaps, ActiveTick(gap)
  PROVE  /\ lastTick' \in Nat
         /\ sampleTime' \in Nat \cup {Never}
         /\ sourceStamp' \in Nat \cup {Never}
         /\ \E s, m, verdict : AtSwitch(s, m, verdict)
                               /\ Act(s, m, lastTick', verdict)
<1> USE DEF IInv
<1>1. lastTick' \in Nat /\ active \in Goals /\ active # NoGoal
  BY ServerAssumption DEF ActiveTick, TypeOK
<1>2. PICK moved \in {Advanced(gap)} :
        /\ TakeSample(moved, lastTick')
        /\ \E s \in {BeforeUpdate(moved, lastTick')} :
           \E r \in {ReadingOf(moved, s.backend.state, lastTick')} :
           \E u \in {Update(s.monitor, r)} :
             Act(s, u.monitor, lastTick', u.verdict)
  BY DEF ActiveTick
<1>3. moved \in Arm!Backend /\ (moved.state = "executing" => backend.state = "executing")
  <2>1. scale \in Nat /\ gap \in Nat /\ FullSpeed \in Nat
    BY ServerAssumption DEF TypeOK
  <2>2. gap * (IF active = NoGoal THEN FullSpeed ELSE scale) \in Nat
    BY <2>1
  <2>3. fault \in Arm!Faults
    BY ServerAssumption DEF TypeOK
  <2>4. QED
    BY <1>2, <2>2, <2>3, AdvanceType DEF Advanced, TypeOK
<1>4. sampleTime' \in Nat \cup {Never} /\ sourceStamp' \in Nat \cup {Never}
  BY <1>1, <1>2, <1>3, SampleType
<1>5. PICK s \in {BeforeUpdate(moved, lastTick')} :
        \E r \in {ReadingOf(moved, s.backend.state, lastTick')} :
        \E u \in {Update(s.monitor, r)} :
          Act(s, u.monitor, lastTick', u.verdict)
  BY <1>2
<1>6. /\ s = [stopping |-> s.stopping, stopCode |-> s.stopCode,
              monitor |-> s.monitor, backend |-> s.backend]
      /\ s.stopping \in BOOLEAN /\ s.stopCode \in StopCodes \cup {"OK"}
      /\ s.monitor \in Monitor /\ s.backend \in Arm!Backend
      /\ s.monitor.stopping = s.stopping
      /\ s.stopping => s.stopCode \in StopCodes
      /\ s.stopping /\ s.stopCode = "CANCELED" => status[active] = "canceling"
      /\ status[active] = "canceling" => s.stopping
      /\ s.backend.state = "executing" => backend.state = "executing"
      /\ s.monitor.deadline = monitor.deadline
      /\ stopping => /\ s.stopping /\ s.stopCode = stopCode
                     /\ s.monitor.stopDeadline = monitor.stopDeadline
      /\ ~stopping /\ s.stopping =>
           s.monitor.stopDeadline = lastTick' + StopTimeout
  <2>1. CASE CancelSeen
    <3>1. RequestStop(monitor, lastTick') \in Monitor
          /\ RequestStop(monitor, lastTick').stopping = TRUE
          /\ RequestStop(monitor, lastTick').deadline = monitor.deadline
          /\ RequestStop(monitor, lastTick').stopDeadline =
               lastTick' + StopTimeout
      <4>1. monitor \in Monitor /\ lastTick' \in Int
        BY <1>1 DEF TypeOK
      <4>2. ~monitor.stopping
        BY <2>1, <1>1 DEF CancelSeen, StopAgrees
      <4>3. QED
        BY <4>1, <4>2, RequestStopType, RequestStopEffect
    <3>2. Arm!Cancel(moved, fault) \in Arm!Backend
          /\ (Arm!Cancel(moved, fault).state = "executing"
               => moved.state = "executing")
      BY <1>3, CancelType
    <3>3. s = [stopping |-> TRUE, stopCode |-> "CANCELED",
               monitor |-> RequestStop(monitor, lastTick'),
               backend |-> Arm!Cancel(moved, fault)]
      BY <2>1, <1>5 DEF BeforeUpdate
    <3>4. status[active] = "canceling" /\ ~stopping
      BY <2>1 DEF CancelSeen
    <3>5. QED
      BY <1>3, <3>1, <3>2, <3>3, <3>4 DEF StopCodes
  <2>2. CASE ~CancelSeen
    <3>1. s = [stopping |-> stopping, stopCode |-> stopCode,
               monitor |-> monitor, backend |-> moved]
      BY <2>2, <1>5 DEF BeforeUpdate
    <3>2. status[active] = "canceling" => stopping
      BY <2>2 DEF CancelSeen, TypeOK
    <3>3. monitor.stopping = stopping /\ stopping \in BOOLEAN
      BY <1>1 DEF StopAgrees, TypeOK
    <3>4. QED
      BY <1>1, <1>3, <3>1, <3>2, <3>3 DEF StopAgrees, TypeOK
  <2>3. QED
    BY <2>1, <2>2
<1>7. PICK r \in {ReadingOf(moved, s.backend.state, lastTick')} :
        \E u \in {Update(s.monitor, r)} :
          Act(s, u.monitor, lastTick', u.verdict)
  BY <1>5
<1>8. r \in Reading /\ r.now = lastTick' /\ r.controller = (IF s.backend.state \in ControllerResults
                                      THEN s.backend.state ELSE "running")
  <2>1. moved.positions \in Positions
    BY <1>3 DEF Arm!Backend, Positions
  <2>2. Arm!FeedbackLost(moved, fault) \in BOOLEAN
    BY DEF Arm!FeedbackLost
  <2>3. sampleTime' \in Int
    BY <1>4, NeverType
  <2>4. r = ReadingOf(moved, s.backend.state, lastTick')
    BY <1>7
  <2>5. QED
    BY <1>1, <2>1, <2>2, <2>3, <2>4 DEF ReadingOf, Reading, ControllerResults
<1>9. PICK u \in {Update(s.monitor, r)} :
        Act(s, u.monitor, lastTick', u.verdict)
  BY <1>7
<1>10. u = Update(s.monitor, r)
  BY <1>9
<1>11. u.monitor \in Monitor /\ u.verdict \in Verdicts
       /\ u.monitor.stopping = s.stopping
       /\ u.monitor.deadline = s.monitor.deadline
       /\ u.monitor.stopDeadline = s.monitor.stopDeadline
  BY <1>6, <1>8, <1>10, UpdateType, UpdateFrame
<1>12. u.verdict \in {"succeeded", "stopped"} =>
         /\ s.backend.state # "executing"
         /\ u.verdict = "stopped" <=> s.stopping
  BY <1>6, <1>8, <1>10, FinalVerdict DEF ControllerDone, ControllerResults
<1>13. /\ u.verdict = "stop_unconfirmed" => s.stopping
       /\ u.verdict \in {"stale", "failed", "timeout"} => ~s.stopping
       /\ ~s.stopping /\ u.verdict # "timeout" => lastTick' < s.monitor.deadline
       /\ s.stopping /\ u.verdict # "stop_unconfirmed"
            => lastTick' < s.monitor.stopDeadline
  <2>1. /\ u.verdict = "stop_unconfirmed" <=>
             s.stopping /\ lastTick' >= s.monitor.stopDeadline
        /\ u.verdict = "timeout" <=>
             ~s.stopping /\ lastTick' >= s.monitor.deadline
        /\ u.verdict \in {"stale", "failed"} => ~s.stopping
    BY <1>6, <1>8, <1>10, DeadlineVerdict
  <2>2. lastTick' \in Int /\ s.monitor.deadline \in Int
        /\ s.monitor.stopDeadline \in Int
    BY <1>1, <1>6 DEF Monitor
  <2>3. QED
    BY <2>1, <2>2
<1>14. u.verdict \in {"succeeded", "stopped"} => ~Arm!FeedbackLost(s.backend, fault)
  <2>1. s.backend = moved \/ s.backend = Arm!Cancel(moved, fault)
    BY <1>5 DEF BeforeUpdate
  <2>2. Arm!FeedbackLost(s.backend, fault) <=> Arm!FeedbackLost(moved, fault)
    BY <1>3, <2>1, CancelKeepsFeedback
  <2>0. r = ReadingOf(moved, s.backend.state, lastTick')
    BY <1>7
  <2>3. r.available = ~Arm!FeedbackLost(moved, fault)
    BY <2>0, ReadingAvailable
  <2>4. QED
    BY <1>6, <1>8, <1>10, <2>2, <2>3, FinalVerdict DEF Fresh
<1>15. AtSwitch(s, u.monitor, u.verdict)
  BY <1>6, <1>11, <1>12, <1>13, <1>14 DEF AtSwitch
<1>16. QED
  BY <1>1, <1>4, <1>9, <1>15

-----------------------------------------------------------------------------
(* The invariant is preserved, one lemma for each kind of step.            *)

LEMMA InitEstablishes == Init => IInv
<1> SUFFICES ASSUME Init PROVE IInv
  OBVIOUS
<1>1. TypeOK
  <2>1. backend \in Arm!Backend
    BY ServerAssumption DEF Init, Arm!NewBackend, Arm!Backend, Arm!BackendStates,
       Positions
  <2>2. monitor \in Monitor
    <3>1. [j \in Joints |-> 0] \in Positions
      BY DEF Positions
    <3>2. QED
      BY <3>1, NeverType DEF Init, NewMonitor, Monitor
  <2>3. FullSpeed \in 0 .. FullSpeed
    BY ServerAssumption
  <2>4. /\ request \in [Goals -> Motions \cup Refused \cup {NoRequest}]
        /\ status \in [Goals -> InFlight \cup Terminal \cup {"unsent"}]
        /\ code \in [Goals -> Codes \cup {"none"}]
    BY DEF Init
  <2>5. QED
    BY <2>1, <2>2, <2>3, <2>4 DEF Init, TypeOK
<1>2. Reservation /\ StopAgrees /\ IdleArmAtRest
  BY ServerAssumption DEF Init, Reservation, StopAgrees, IdleArmAtRest, InFlight,
     Arm!NewBackend
<1>3. QED
  BY <1>1, <1>2 DEF IInv

\* Both ways in which finish can be reached: the goal ends with a code of the
\* result table and the server is free again.
LEMMA FinishKeepsBooks ==
  ASSUME IInv, NEW g \in Goals, NEW c \in Codes, FinishWith(g, c),
         active \in {NoGoal, g}
  PROVE  /\ status' \in [Goals -> InFlight \cup Terminal \cup {"unsent"}]
         /\ code' \in [Goals -> Codes \cup {"none"}]
         /\ active' = NoGoal /\ reserved' = FALSE
         /\ Reservation'
<1>1. ResultState(c) \in Terminal /\ ResultState(c) \notin InFlight
  BY DEF ResultState, Terminal, InFlight
<1>2. QED
  BY <1>1, ServerAssumption DEF FinishWith, IInv, TypeOK, Reservation

LEMMA SendKeeps ==
  ASSUME IInv, NEW g \in Goals, SendGoal(g)
  PROVE  IInv'
<1> USE DEF IInv
<1>1. PICK r \in Motions \cup Refused, delay \in ArrivalDelays :
        /\ request' = [request EXCEPT ![g] = r]
        /\ RejectGoal(g) \/ AnswerGoal(g, r) \/ StartGoal(g, r, delay)
  BY DEF SendGoal
<1>2. request' \in [Goals -> Motions \cup Refused \cup {NoRequest}]
  BY <1>1 DEF TypeOK
<1>3. status[g] = "unsent" /\ active # g
  BY DEF SendGoal, Reservation, InFlight
<1>4. active # NoGoal => request'[active] = request[active] /\ active \in Goals
  BY <1>1, <1>3 DEF TypeOK
<1>5. CASE RejectGoal(g)
  <2>1. TypeOK'
    BY <1>2, <1>5 DEF RejectGoal, TypeOK, stopVars, sampleVars, Terminal
  <2>2. Reservation'
    BY <1>3, <1>5 DEF RejectGoal, TypeOK, Reservation, InFlight
  <2>3. StopAgrees' /\ IdleArmAtRest'
    BY <1>3, <1>4, <1>5 DEF RejectGoal, TypeOK, StopAgrees, IdleArmAtRest, stopVars
  <2>4. QED
    BY <2>1, <2>2, <2>3
<1>6. CASE AnswerGoal(g, r)
  <2>1. Refusal(r) \in Codes /\ active = NoGoal
    BY <1>6 DEF AnswerGoal, Refusal, Codes, Reservation
  <2>2. FinishWith(g, Refusal(r))
    BY <1>6 DEF AnswerGoal
  <2>3. TypeOK' /\ Reservation'
    BY <1>2, <1>6, <2>1, <2>2, FinishKeepsBooks DEF AnswerGoal, TypeOK, stopVars,
       sampleVars
  <2>4. StopAgrees' /\ IdleArmAtRest'
    BY <1>6, <2>1, <2>2 DEF AnswerGoal, FinishWith, StopAgrees, IdleArmAtRest
  <2>5. QED
    BY <2>3, <2>4
<1>7. CASE StartGoal(g, r, delay)
  <2>1. r \in Motions
    BY <1>7 DEF StartGoal, Refusal, Refused, Motions
  <2>2. r.target \in Positions /\ r.timeout \in Int /\ r.scaling \in 0 .. FullSpeed
    <3>1. r.target \in Targets /\ r.timeout \in Timeouts /\ r.scaling \in Scalings
      BY <2>1 DEF Motions
    <3>2. Targets \subseteq Positions /\ Timeouts \subseteq Int
          /\ Scalings \subseteq 0 .. FullSpeed
      BY ServerAssumption
    <3>3. QED
      BY <3>1, <3>2
  <2>3. lastTick' \in Nat /\ started' \in Nat
    <3>1. delay \in Nat
      BY ServerAssumption
    <3>2. lastTick \in Nat
      BY DEF TypeOK
    <3>3. lastTick' = lastTick + delay /\ started' = lastTick'
      BY <1>7 DEF StartGoal
    <3>4. QED
      BY <3>1, <3>2, <3>3
  <2>4. backend' \in Arm!Backend
    BY <1>7, <2>2, ExecuteType DEF StartGoal, TypeOK
  <2>5. monitor' \in Monitor /\ monitor'.stopping = FALSE
    <3>1. lastTick' \in Int /\ monitor \in Monitor
      BY <2>3 DEF TypeOK
    <3>2. Start(monitor, r.target, lastTick', r.timeout) \in Monitor
      BY <2>2, <3>1, StartType
    <3>3. Start(monitor, r.target, lastTick', r.timeout).stopping = FALSE
      BY <2>2, <3>1, StartEffect
    <3>4. QED
      BY <1>7, <3>2, <3>3 DEF StartGoal
  <2>6. TypeOK'
    BY <1>2, <1>7, <2>2, <2>3, <2>4, <2>5 DEF StartGoal, TypeOK, InFlight, sampleVars
  <2>7. Reservation'
    BY <1>3, <1>7, ServerAssumption DEF StartGoal, TypeOK, Reservation, InFlight
  <2>8. request'[g] = r
    BY <1>1 DEF TypeOK
  <2>9. StopAgrees' /\ IdleArmAtRest'
    BY <1>7, <2>1, <2>5, <2>8, ServerAssumption DEF StartGoal, StopAgrees,
       IdleArmAtRest
  <2>10. QED
    BY <2>6, <2>7, <2>9
<1>8. QED
  BY <1>1, <1>5, <1>6, <1>7

LEMMA CancelKeeps ==
  ASSUME IInv, NEW g \in Goals, CancelGoal(g)
  PROVE  IInv'
<1> USE DEF IInv
<1>1. active = g
  BY DEF CancelGoal, Reservation, InFlight
<1>2. TypeOK'
  BY DEF CancelGoal, TypeOK, InFlight, stopVars, sampleVars
<1>3. Reservation'
  BY DEF CancelGoal, TypeOK, Reservation, InFlight
<1>4. StopAgrees' /\ IdleArmAtRest'
  BY <1>1 DEF CancelGoal, TypeOK, StopAgrees, IdleArmAtRest, stopVars
<1>5. QED
  BY <1>2, <1>3, <1>4

LEMMA IdleTickKeeps ==
  ASSUME IInv, NEW gap \in TickGaps, IdleTick(gap)
  PROVE  IInv'
<1> USE DEF IInv
<1>1. lastTick' \in Nat /\ gap * FullSpeed \in Nat /\ fault \in Arm!Faults
  BY ServerAssumption DEF IdleTick, TypeOK
<1>2. backend' \in Arm!Backend
      /\ (backend'.state = "executing" => backend.state = "executing")
  BY <1>1, AdvanceType DEF IdleTick, Advanced, TypeOK
<1>3. sampleTime' \in Nat \cup {Never} /\ sourceStamp' \in Nat \cup {Never}
  BY <1>1, <1>2, SampleType DEF IdleTick
<1>4. TypeOK'
  BY <1>1, <1>2, <1>3 DEF IdleTick, TypeOK, stopVars, clientVars
<1>5. Reservation' /\ StopAgrees' /\ IdleArmAtRest'
  BY <1>2 DEF IdleTick, TypeOK, Reservation, StopAgrees, IdleArmAtRest, stopVars,
     clientVars
<1>6. QED
  BY <1>4, <1>5

\* What the switch of tick does, for each group of verdicts.
LEMMA SwitchKeeps ==
  ASSUME IInv, active \in Goals, NEW s, NEW m, NEW verdict,
         AtSwitch(s, m, verdict), lastTick' \in Nat,
         Act(s, m, lastTick', verdict), UNCHANGED request
  PROVE  /\ Reservation' /\ StopAgrees' /\ IdleArmAtRest'
         /\ backend' \in Arm!Backend /\ monitor' \in Monitor
         /\ active' \in Goals \cup {NoGoal}
         /\ reserved' \in BOOLEAN /\ ready' \in BOOLEAN
         /\ stopping' \in BOOLEAN /\ stopCode' \in StopCodes \cup {"OK"}
         /\ status' \in [Goals -> InFlight \cup Terminal \cup {"unsent"}]
         /\ code' \in [Goals -> Codes \cup {"none"}]
<1> USE DEF IInv
<1>1. active # NoGoal
  BY ServerAssumption
<1>2. CASE verdict \in {"stale", "failed", "timeout"}
  <2> DEFINE next == BeginStop(s, m, lastTick', StopReason(verdict))
  <2>1. /\ Keep(next) /\ ready' = IF Locks(verdict) THEN FALSE ELSE ready
        /\ UNCHANGED <<active, reserved, status, code>>
    BY <1>2 DEF Act, Locks
  <2>2. ~s.stopping /\ m \in Monitor
    BY <1>2 DEF AtSwitch
  <2>3. /\ next.stopping = TRUE /\ next.stopCode = StopReason(verdict)
        /\ next.monitor = RequestStop(m, lastTick')
        /\ next.backend = Arm!Cancel(s.backend, fault)
    BY <2>2 DEF BeginStop
  <2>4. StopReason(verdict) \in StopCodes /\ StopReason(verdict) # "CANCELED"
    BY <1>2 DEF StopReason, StopCodes
  <2>5. next.monitor \in Monitor /\ next.monitor.stopping = TRUE
    <3>1. lastTick' \in Int
      OBVIOUS
    <3>2. RequestStop(m, lastTick') \in Monitor
          /\ RequestStop(m, lastTick').stopping = TRUE
      BY <2>2, <3>1, RequestStopType, RequestStopEffect
    <3>3. QED
      BY <2>3, <3>2
  <2>6. next.backend \in Arm!Backend
    BY <2>3, CancelType DEF AtSwitch
  <2> HIDE DEF next
  <2>7. QED
    BY <1>1, <2>1, <2>3, <2>4, <2>5, <2>6 DEF Keep, TypeOK, Reservation,
       StopAgrees, IdleArmAtRest
<1>3. CASE verdict = "stop_unconfirmed"
  <2>1. /\ Keep([s EXCEPT !.monitor = m]) /\ ready' = FALSE
        /\ FinishWith(active, "STOP_UNCONFIRMED")
    BY <1>3 DEF Act, Locks
  <2>2. Reservation' /\ active' = NoGoal /\ reserved' = FALSE
        /\ status' \in [Goals -> InFlight \cup Terminal \cup {"unsent"}]
        /\ code' \in [Goals -> Codes \cup {"none"}]
    BY <2>1, FinishKeepsBooks DEF Codes
  <2>3. QED
    BY <2>1, <2>2 DEF Keep, AtSwitch, TypeOK, StopAgrees, IdleArmAtRest
<1>4. CASE verdict \in {"stopped", "succeeded"}
  <2> DEFINE c == IF verdict = "stopped" THEN s.stopCode ELSE "OK"
  <2>1. /\ Keep([s EXCEPT !.monitor = m]) /\ UNCHANGED ready
        /\ FinishWith(active, c)
    BY <1>4 DEF Act
  <2>2. c \in Codes
    BY <1>4 DEF AtSwitch, Codes
  <2>3. Reservation' /\ active' = NoGoal /\ reserved' = FALSE
        /\ status' \in [Goals -> InFlight \cup Terminal \cup {"unsent"}]
        /\ code' \in [Goals -> Codes \cup {"none"}]
    BY <2>1, <2>2, FinishKeepsBooks
  <2>4. backend'.state # "executing"
    BY <1>4, <2>1 DEF Keep, AtSwitch
  <2>5. QED
    BY <2>1, <2>3, <2>4 DEF Keep, AtSwitch, TypeOK, StopAgrees, IdleArmAtRest
<1>5. CASE verdict \in {"running", "settling", "stopping"}
  <2>1. /\ Keep([s EXCEPT !.monitor = m])
        /\ UNCHANGED <<ready, active, reserved, status, code>>
    BY <1>5 DEF Act
  <2>2. QED
    BY <1>1, <2>1 DEF Keep, AtSwitch, TypeOK, Reservation, StopAgrees,
       IdleArmAtRest
<1>6. verdict \in Verdicts
  BY DEF AtSwitch
<1>7. QED
  BY <1>2, <1>3, <1>4, <1>5, <1>6 DEF Verdicts

LEMMA ActiveTickKeeps ==
  ASSUME IInv, NEW gap \in TickGaps, ActiveTick(gap)
  PROVE  IInv'
<1>1. /\ lastTick' \in Nat
      /\ sampleTime' \in Nat \cup {Never} /\ sourceStamp' \in Nat \cup {Never}
  BY ActiveTickReachesSwitch
<1>2. PICK s, m, verdict : AtSwitch(s, m, verdict)
                           /\ Act(s, m, lastTick', verdict)
  BY ActiveTickReachesSwitch
<1>3. UNCHANGED <<fault, scale, started, request>> /\ active \in Goals
  BY DEF ActiveTick, IInv, TypeOK
<1>4. QED
  BY <1>1, <1>2, <1>3, SwitchKeeps DEF IInv, TypeOK

LEMMA Inductive == IInv /\ [Next]_vars => IInv'
<1> SUFFICES ASSUME IInv, [Next]_vars PROVE IInv'
  OBVIOUS
<1>1. ASSUME NEW g \in Goals, SendGoal(g) PROVE IInv'
  BY <1>1, SendKeeps
<1>2. ASSUME NEW g \in Goals, CancelGoal(g) PROVE IInv'
  BY <1>2, CancelKeeps
<1>3. ASSUME NEW gap \in TickGaps, IdleTick(gap) PROVE IInv'
  BY <1>3, IdleTickKeeps
<1>4. ASSUME NEW gap \in TickGaps, ActiveTick(gap) PROVE IInv'
  BY <1>4, ActiveTickKeeps
<1>5. CASE UNCHANGED vars
  BY <1>5 DEF vars, IInv, TypeOK, Reservation, StopAgrees, IdleArmAtRest
<1>6. QED
  BY <1>1, <1>2, <1>3, <1>4, <1>5 DEF Next, Tick

LEMMA Invariant == Safety => []IInv
<1>1. QED
  BY InitEstablishes, Inductive, PTL DEF Safety

\* Every variable keeps its type.
THEOREM TypeCorrect == Safety => []TypeOK
<1>1. IInv => TypeOK
  BY DEF IInv
<1>2. QED
  BY <1>1, Invariant, PTL

\* A server that would take a goal has an arm at rest.
THEOREM ArmAtRest == Safety => []IdleArmAtRest
<1>1. IInv => IdleArmAtRest
  BY DEF IInv
<1>2. QED
  BY <1>1, Invariant, PTL

\* The reservation and the clients' view of the goal in flight agree.
THEOREM ReservationAgrees == Safety => []Reservation
<1>1. IInv => Reservation
  BY DEF IInv
<1>2. QED
  BY <1>1, Invariant, PTL

-----------------------------------------------------------------------------
(* The server implements the exclusive action: every step is a step of the *)
(* abstract specification or leaves its three variables alone.             *)

LEMMA InitRefines == Init => Promise!AInit
  BY DEF Init, Promise!AInit, Arm!NewBackend

LEMMA SendRefines ==
  ASSUME IInv, NEW g \in Goals, SendGoal(g)
  PROVE  Promise!ANext
<1>1. PICK r \in Motions \cup Refused, delay \in ArrivalDelays :
        RejectGoal(g) \/ AnswerGoal(g, r) \/ StartGoal(g, r, delay)
  BY DEF SendGoal
<1>2. status[g] = "unsent"
  BY DEF SendGoal
<1>3. ~reserved /\ ready => ~Promise!Busy /\ backend.state # "executing"
  BY ServerAssumption DEF IInv, Reservation, IdleArmAtRest, Promise!Busy,
     Promise!InFlight, InFlight
<1>4. CASE RejectGoal(g)
  BY <1>2, <1>4 DEF RejectGoal, Promise!ANext, Promise!Reject
<1>5. CASE AnswerGoal(g, r)
  <2>1. Refusal(r) \in {"UNSUPPORTED", "INVALID_ARGUMENT", "OK", "BACKEND_REJECTED"}
    BY <1>5 DEF AnswerGoal, Refusal
  <2>2. ResultState(Refusal(r)) \in {"succeeded", "aborted"}
    BY <2>1 DEF ResultState
  <2>3. QED
    BY <1>2, <1>3, <1>5, <2>2 DEF AnswerGoal, FinishWith, Promise!ANext,
       Promise!AcceptAndFinish
<1>6. CASE StartGoal(g, r, delay)
  <2>1. backend'.state = "executing"
    BY <1>6 DEF StartGoal, Arm!Execute, Arm!Backend, IInv, TypeOK
  <2>2. QED
    BY <1>2, <1>3, <1>6, <2>1 DEF StartGoal, Promise!ANext, Promise!Accept
<1>7. QED
  BY <1>1, <1>4, <1>5, <1>6

LEMMA ActiveTickRefines ==
  ASSUME IInv, NEW gap \in TickGaps, ActiveTick(gap)
  PROVE  Promise!ANext
<1>1. active \in Goals /\ status[active] \in InFlight
  BY DEF ActiveTick, IInv, TypeOK, Reservation
<1>2. Promise!Busy
  BY <1>1 DEF Promise!Busy, Promise!InFlight, InFlight
<1>3. PICK s, m, verdict : AtSwitch(s, m, verdict)
                           /\ Act(s, m, lastTick', verdict)
  BY ActiveTickReachesSwitch
<1>4. (s.backend.state = "executing") \in {backend.state = "executing", FALSE}
  BY <1>3 DEF AtSwitch
<1>5. Arm!Cancel(s.backend, fault).state = "executing"
        => backend.state = "executing"
  BY <1>3, CancelType DEF AtSwitch
<1>6. ready \in BOOLEAN
  BY DEF IInv, TypeOK
<1>7. CASE verdict \in {"stale", "failed", "timeout"}
  <2>1. backend' = Arm!Cancel(s.backend, fault)
    BY <1>3, <1>7 DEF Act, Keep, BeginStop, AtSwitch
  <2>2. ready' = (IF Locks(verdict) THEN FALSE ELSE ready) /\ UNCHANGED status
    BY <1>3, <1>7 DEF Act
  <2>3. Promise!Progress
    BY <1>2, <1>5, <1>6, <2>1, <2>2 DEF Promise!Progress
  <2>4. QED
    BY <2>3 DEF Promise!ANext
<1>8. CASE verdict = "stop_unconfirmed"
  <2>1. backend' = s.backend /\ ready' = FALSE
        /\ status' = [status EXCEPT ![active] = "aborted"]
    <3>1. Locks(verdict)
      BY <1>8 DEF Locks
    <3>2. /\ Keep([s EXCEPT !.monitor = m])
          /\ ready' = IF Locks(verdict) THEN FALSE ELSE ready
          /\ FinishWith(active, "STOP_UNCONFIRMED")
      BY <1>3, <1>8 DEF Act
    <3>3. status' = [status EXCEPT ![active] = "aborted"]
      BY <3>2 DEF FinishWith, ResultState
    <3>4. backend' = s.backend
      BY <3>2 DEF Keep
    <3>5. QED
      BY <3>1, <3>2, <3>3, <3>4
  <2>2. Promise!Finish(active)
    BY <1>1, <1>4, <2>1 DEF Promise!Finish, Promise!InFlight, Promise!Outcomes,
       InFlight
  <2>3. QED
    BY <1>1, <2>2 DEF Promise!ANext
<1>9. CASE verdict \in {"stopped", "succeeded"}
  <2> DEFINE c == IF verdict = "stopped" THEN s.stopCode ELSE "OK"
  <2>1. backend' = s.backend /\ UNCHANGED ready
        /\ status' = [status EXCEPT ![active] = ResultState(c)]
    <3>1. Keep([s EXCEPT !.monitor = m]) /\ FinishWith(active, c)
          /\ UNCHANGED ready
      BY <1>3, <1>9 DEF Act
    <3>2. QED
      BY <3>1 DEF Keep, FinishWith
  <2>2. s.backend.state # "executing"
    BY <1>3, <1>9 DEF AtSwitch
  <2>3. ResultState(c) \in Promise!Outcomes(status[active])
    <3>1. CASE verdict = "succeeded"
      <4>1. status[active] # "canceling"
        BY <1>3, <3>1 DEF AtSwitch
      <4>2. QED
        BY <1>1, <3>1, <4>1 DEF InFlight, ResultState, Promise!Outcomes
    <3>2. CASE verdict = "stopped"
      <4>1. s.stopCode \in StopCodes
            /\ (s.stopCode = "CANCELED" => status[active] = "canceling")
        BY <1>3, <3>2 DEF AtSwitch
      <4>2. QED
        BY <1>1, <3>2, <4>1 DEF InFlight, ResultState, Promise!Outcomes, StopCodes
    <3>3. QED
      BY <1>9, <3>1, <3>2
  <2>4. Promise!Finish(active)
    BY <1>1, <2>1, <2>2, <2>3 DEF Promise!Finish, Promise!InFlight, InFlight
  <2>5. QED
    BY <1>1, <2>4 DEF Promise!ANext
<1>10. CASE verdict \in {"running", "settling", "stopping"}
  <2>1. backend' = s.backend /\ UNCHANGED <<ready, status>>
    <3>1. Keep([s EXCEPT !.monitor = m]) /\ UNCHANGED <<ready, status>>
      BY <1>3, <1>10 DEF Act
    <3>2. QED
      BY <3>1 DEF Keep
  <2>2. Promise!Progress
    BY <1>2, <1>4, <2>1 DEF Promise!Progress
  <2>3. QED
    BY <2>2 DEF Promise!ANext
<1>11. QED
  BY <1>3, <1>7, <1>8, <1>9, <1>10 DEF AtSwitch, Verdicts

LEMMA IdleTickRefines ==
  ASSUME IInv, NEW gap \in TickGaps, IdleTick(gap)
  PROVE  Promise!ANext \/ UNCHANGED Promise!avars
<1>1. ~Promise!Busy
  BY ServerAssumption DEF IdleTick, IInv, Reservation, Promise!Busy,
     Promise!InFlight, InFlight
<1>2. gap * FullSpeed \in Nat /\ fault \in Arm!Faults
  BY ServerAssumption DEF IInv, TypeOK
<1>3. backend'.state = "executing" => backend.state = "executing"
  BY <1>2, AdvanceType DEF IdleTick, Advanced, IInv, TypeOK
<1>4. UNCHANGED <<ready, status>> /\ active = NoGoal
  BY DEF IdleTick, clientVars
<1>5. CASE backend.state = "executing" /\ backend'.state # "executing"
  <2>1. ~ready
    BY <1>4, <1>5 DEF IInv, IdleArmAtRest
  <2>2. QED
    BY <1>1, <1>4, <1>5, <2>1 DEF Promise!ANext, Promise!RunOut
<1>6. CASE (backend.state = "executing") = (backend'.state = "executing")
  BY <1>4, <1>6 DEF Promise!avars
<1>7. QED
  BY <1>3, <1>5, <1>6

\* Every behaviour of the server is one of an exclusive action: no success
\* after an accepted cancellation, no second motion, nothing once locked.
THEOREM Implements == Safety => ExclusiveSafety
<1>1. IInv /\ [Next]_vars => [Promise!ANext]_Promise!avars
  <2> SUFFICES ASSUME IInv, [Next]_vars
               PROVE  Promise!ANext \/ UNCHANGED Promise!avars
    OBVIOUS
  <2>1. ASSUME NEW g \in Goals, SendGoal(g) PROVE Promise!ANext
    BY <2>1, SendRefines
  <2>2. ASSUME NEW g \in Goals, CancelGoal(g) PROVE Promise!ANext
    BY <2>2 DEF CancelGoal, Promise!ANext, Promise!AcceptCancel
  <2>3. ASSUME NEW gap \in TickGaps, ActiveTick(gap) PROVE Promise!ANext
    BY <2>3, ActiveTickRefines
  <2>4. ASSUME NEW gap \in TickGaps, IdleTick(gap)
        PROVE  Promise!ANext \/ UNCHANGED Promise!avars
    BY <2>4, IdleTickRefines
  <2>5. CASE UNCHANGED vars
    BY <2>5 DEF vars, Promise!avars
  <2>6. QED
    BY <2>1, <2>2, <2>3, <2>4, <2>5 DEF Next, Tick
<1>2. QED
  BY <1>1, InitRefines, Invariant, PTL DEF Safety, ExclusiveSafety, Promise!ASafety

-----------------------------------------------------------------------------
(* A goal is not served for ever.  The invariant relates the clock to the  *)
(* deadline of the phase the goal is in: an execution is watched up to its *)
(* deadline, and the tick that begins a stop is late by at most one gap.   *)

StopWithin(gap) ==
  /\ monitor.stopDeadline < monitor.deadline + gap + StopTimeout
  /\ lastTick < monitor.deadline + gap + StopTimeout

Punctual ==
  active # NoGoal =>
    /\ monitor.deadline = started + request[active].timeout
    /\ ~stopping => lastTick < monitor.deadline
    /\ stopping => \E gap \in TickGaps : StopWithin(gap)

LEMMA StartIsPunctual ==
  ASSUME IInv, NEW g \in Goals, SendGoal(g), Punctual
  PROVE  Punctual'
<1>1. PICK r \in Motions \cup Refused, delay \in ArrivalDelays :
        /\ request' = [request EXCEPT ![g] = r]
        /\ RejectGoal(g) \/ AnswerGoal(g, r) \/ StartGoal(g, r, delay)
  BY DEF SendGoal
<1>2. CASE RejectGoal(g)
  <2>1. active # NoGoal => active # g /\ active \in Goals
    BY DEF SendGoal, IInv, TypeOK, Reservation, InFlight
  <2>2. active # NoGoal => request'[active] = request[active]
    BY <1>1, <2>1 DEF IInv, TypeOK
  <2>3. QED
    BY <1>2, <2>2 DEF RejectGoal, Punctual, StopWithin, stopVars
<1>3. CASE AnswerGoal(g, r)
  BY <1>3 DEF AnswerGoal, FinishWith, Punctual
<1>4. CASE StartGoal(g, r, delay)
  <2>1. r \in Motions
    BY <1>4 DEF StartGoal, Refusal, Refused, Motions
  <2>2. r.target \in Targets /\ r.timeout \in Timeouts
    BY <2>1 DEF Motions
  <2>3. Targets \subseteq Positions /\ Timeouts \subseteq Nat \ {0}
    BY ServerAssumption
  <2>4. lastTick' \in Nat /\ r.timeout \in Nat \ {0} /\ r.target \in Positions
    BY <1>1, <1>4, <2>2, <2>3, SendKeeps DEF IInv, TypeOK
  <2>5. monitor'.deadline = lastTick' + r.timeout
    <3>1. lastTick' \in Int /\ r.timeout \in Int /\ monitor \in Monitor
      BY <2>4 DEF IInv, TypeOK
    <3>2. Start(monitor, r.target, lastTick', r.timeout).deadline
            = lastTick' + r.timeout
      BY <2>4, <3>1, StartEffect
    <3>3. QED
      BY <1>4, <3>2 DEF StartGoal
  <2>6. active' = g /\ stopping' = FALSE /\ started' = lastTick'
        /\ request'[g] = r
    BY <1>1, <1>4 DEF StartGoal, IInv, TypeOK
  <2>7. lastTick' < monitor'.deadline
    BY <2>4, <2>5
  <2>8. QED
    BY <2>5, <2>6, <2>7 DEF Punctual
<1>5. QED
  BY <1>1, <1>2, <1>3, <1>4

LEMMA TickIsPunctual ==
  ASSUME IInv, NEW gap \in TickGaps, ActiveTick(gap), Punctual
  PROVE  Punctual'
<1>1. SUFFICES ASSUME active' # NoGoal PROVE Punctual'
  BY DEF Punctual
<1>2. active \in Goals /\ active # NoGoal /\ UNCHANGED <<started, request>>
      /\ lastTick' = lastTick + gap
  BY DEF ActiveTick, IInv, TypeOK
<1>3. PICK s, m, verdict : AtSwitch(s, m, verdict)
                           /\ Act(s, m, lastTick', verdict)
  BY ActiveTickReachesSwitch
<1>4. verdict \notin {"stop_unconfirmed", "stopped", "succeeded"}
  BY <1>1, <1>3 DEF Act, FinishWith
<1>5. active' = active
  BY <1>3, <1>4 DEF Act
<1>6. /\ gap \in Nat \ {0} /\ StopTimeout \in Nat /\ lastTick \in Nat
      /\ monitor.deadline \in Int
  BY ServerAssumption, MonitorAssumption DEF IInv, TypeOK, Monitor
<1>7. stopping \in BOOLEAN /\ s.stopping \in BOOLEAN
  BY <1>3 DEF AtSwitch, IInv, TypeOK
<1>8. ~stopping => lastTick' < monitor.deadline + gap
  BY <1>2, <1>6 DEF Punctual
<1>9. CASE verdict \in {"stale", "failed", "timeout"}
  <2>1. ~s.stopping /\ ~stopping /\ m \in Monitor
        /\ m.deadline = monitor.deadline /\ m.stopping = FALSE
    BY <1>3, <1>9 DEF AtSwitch
  <2>2. stopping' = TRUE /\ monitor' = RequestStop(m, lastTick')
    BY <1>3, <1>9, <2>1 DEF Act, Keep, BeginStop
  <2>3. monitor'.deadline = monitor.deadline
        /\ monitor'.stopDeadline = lastTick' + StopTimeout
    <3>1. lastTick' \in Int
      BY <1>2, <1>6
    <3>2. QED
      BY <2>1, <2>2, <3>1, RequestStopEffect
  <2>4. StopWithin(gap)'
    BY <1>2, <1>6, <1>8, <2>1, <2>3 DEF StopWithin
  <2>5. QED
    BY <1>2, <1>5, <2>2, <2>3, <2>4 DEF Punctual
<1>10. CASE verdict \in {"running", "settling", "stopping"}
  <2>1. monitor' = m /\ stopping' = s.stopping
    <3>1. Keep([s EXCEPT !.monitor = m])
      BY <1>3, <1>10 DEF Act
    <3>2. DOMAIN s = {"stopping", "stopCode", "monitor", "backend"}
      BY <1>3 DEF AtSwitch
    <3>3. QED
      BY <3>1, <3>2 DEF Keep
  <2>2. m.deadline = monitor.deadline
        /\ (~s.stopping => lastTick' < monitor.deadline)
        /\ (s.stopping => lastTick' < m.stopDeadline)
    BY <1>3, <1>10 DEF AtSwitch
  <2>3. ASSUME s.stopping PROVE \E late \in TickGaps : StopWithin(late)'
    <3>1. m.stopDeadline \in Int
      BY <1>3 DEF AtSwitch, Monitor
    <3>2. CASE stopping
      <4>1. m.stopDeadline = monitor.stopDeadline
        BY <1>3, <3>2 DEF AtSwitch
      <4>2. PICK late \in TickGaps : StopWithin(late)
        BY <1>2, <3>2 DEF Punctual
      <4>3. late \in Nat
        BY ServerAssumption
      <4>4. StopWithin(late)'
        BY <1>2, <1>6, <2>1, <2>2, <2>3, <3>1, <4>1, <4>2, <4>3 DEF StopWithin
      <4>5. QED
        BY <4>4
    <3>3. CASE ~stopping
      <4>1. m.stopDeadline = lastTick' + StopTimeout
        BY <1>3, <2>3, <3>3 DEF AtSwitch
      <4>2. StopWithin(gap)'
        BY <1>2, <1>6, <1>8, <2>1, <2>2, <3>3, <4>1 DEF StopWithin
      <4>3. QED
        BY <4>2
    <3>4. QED
      BY <1>7, <3>2, <3>3
  <2>4. QED
    BY <1>2, <1>5, <2>1, <2>2, <2>3 DEF Punctual
<1>11. QED
  BY <1>3, <1>4, <1>9, <1>10 DEF AtSwitch, Verdicts

\* The result of a goal comes within its timeout, the stop timeout and the
\* lateness of one timer callback.
THEOREM ServiceIsBounded == Safety => []BoundedService
<1>1. Init => Punctual
  BY DEF Init, Punctual
<1>2. IInv /\ Punctual /\ [Next]_vars => Punctual'
  <2> SUFFICES ASSUME IInv, Punctual, [Next]_vars PROVE Punctual'
    OBVIOUS
  <2>1. ASSUME NEW g \in Goals, SendGoal(g) PROVE Punctual'
    BY <2>1, StartIsPunctual
  <2>2. ASSUME NEW g \in Goals, CancelGoal(g) PROVE Punctual'
    BY <2>2 DEF CancelGoal, Punctual, StopWithin, stopVars
  <2>3. ASSUME NEW gap \in TickGaps, ActiveTick(gap) PROVE Punctual'
    BY <2>3, TickIsPunctual
  <2>4. ASSUME NEW gap \in TickGaps, IdleTick(gap) PROVE Punctual'
    BY <2>4 DEF IdleTick, Punctual
  <2>5. CASE UNCHANGED vars
    BY <2>5 DEF vars, Punctual, StopWithin
  <2>6. QED
    BY <2>1, <2>2, <2>3, <2>4, <2>5 DEF Next, Tick
<1>3. IInv /\ Punctual => BoundedService
  <2> SUFFICES ASSUME IInv, Punctual, active # NoGoal
               PROVE  \E gap \in TickGaps :
                        lastTick < started + request[active].timeout + gap
                                   + StopTimeout
    BY DEF BoundedService
  <2>1. lastTick \in Nat /\ monitor.deadline \in Int /\ StopTimeout \in Nat
        /\ stopping \in BOOLEAN
    BY MonitorAssumption DEF IInv, TypeOK, Monitor
  <2>2. CASE stopping
    BY <2>2 DEF Punctual, StopWithin
  <2>3. CASE ~stopping
    <3>1. PICK gap \in TickGaps : gap \in Nat
      BY ServerAssumption
    <3>2. lastTick < monitor.deadline + gap + StopTimeout
      BY <2>1, <2>3, <3>1 DEF Punctual
    <3>3. QED
      BY <3>1, <3>2 DEF Punctual
  <2>4. QED
    BY <2>1, <2>2, <2>3
<1>4. QED
  BY <1>1, <1>2, <1>3, Invariant, PTL DEF Safety

-----------------------------------------------------------------------------
(* Two action properties.  Both are about the tick that serves a goal, for *)
(* no other step stops one or ends it.                                     *)

LEMMA OthersServeNobody ==
  ASSUME IInv, [Next]_vars, active \in Goals,
         ~(\E gap \in TickGaps : ActiveTick(gap))
  PROVE  UNCHANGED <<active, stopping, stopCode, monitor>>
<1>1. active # NoGoal /\ reserved
  BY ServerAssumption DEF IInv, Reservation
<1>2. ASSUME NEW g \in Goals, SendGoal(g)
      PROVE  UNCHANGED <<active, stopping, stopCode, monitor>>
  BY <1>1, <1>2 DEF SendGoal, RejectGoal, AnswerGoal, StartGoal, stopVars
<1>3. ASSUME NEW g \in Goals, CancelGoal(g)
      PROVE  UNCHANGED <<active, stopping, stopCode, monitor>>
  BY <1>3 DEF CancelGoal, stopVars
<1>4. ASSUME NEW gap \in TickGaps, IdleTick(gap) PROVE FALSE
  BY <1>1, <1>4 DEF IdleTick
<1>5. CASE UNCHANGED vars
  BY <1>5 DEF vars, stopVars
<1>6. QED
  BY <1>2, <1>3, <1>4, <1>5 DEF Next, Tick

\* The first reason of a stop and its deadline stand, whatever is lost or
\* canceled later, and the result names that reason or admits that the stop
\* was not confirmed.
THEOREM FirstReasonIsKept == Safety => FirstReasonStands
<1> DEFINE Stands(g) ==
      active = g /\ stopping =>
        /\ stopCode' = stopCode
        /\ monitor'.stopDeadline = monitor.stopDeadline
        /\ active' = NoGoal => code'[g] \in {stopCode, "STOP_UNCONFIRMED"}
<1>1. IInv /\ [Next]_vars => [\A g \in Goals : Stands(g)]_vars
  <2> SUFFICES ASSUME IInv, [Next]_vars, NEW g \in Goals, active = g, stopping
               PROVE  /\ stopCode' = stopCode
                      /\ monitor'.stopDeadline = monitor.stopDeadline
                      /\ active' = NoGoal => code'[g] \in {stopCode, "STOP_UNCONFIRMED"}
    OBVIOUS
  <2>1. g # NoGoal
    BY ServerAssumption
  <2>2. ASSUME NEW gap \in TickGaps, ActiveTick(gap)
        PROVE  /\ stopCode' = stopCode
               /\ monitor'.stopDeadline = monitor.stopDeadline
               /\ active' = NoGoal => code'[g] \in {stopCode, "STOP_UNCONFIRMED"}
    <3>1. PICK s, m, verdict : AtSwitch(s, m, verdict) /\ Act(s, m, lastTick', verdict)
      BY <2>2, ActiveTickReachesSwitch
    <3>2. /\ s.stopping /\ s.stopCode = stopCode /\ m.stopDeadline = monitor.stopDeadline
          /\ verdict \notin {"stale", "failed", "timeout", "succeeded"}
      BY <3>1 DEF AtSwitch
    <3>3. [s EXCEPT !.monitor = m].monitor = m /\ [s EXCEPT !.monitor = m].stopCode = s.stopCode
      BY <3>1 DEF AtSwitch
    <3>4. Keep([s EXCEPT !.monitor = m])
      BY <3>1, <3>2 DEF Act
    <3>5. stopCode' = stopCode /\ monitor'.stopDeadline = monitor.stopDeadline
      BY <3>2, <3>3, <3>4 DEF Keep
    <3>6. \/ FinishWith(g, "STOP_UNCONFIRMED") \/ FinishWith(g, s.stopCode)
          \/ active' = active
      BY <3>1, <3>2 DEF Act
    <3>7. QED
      BY <2>1, <3>2, <3>5, <3>6 DEF FinishWith, IInv, TypeOK
  <2>3. QED
    BY <2>1, <2>2, OthersServeNobody
<1>2. QED
  BY <1>1, Invariant, PTL DEF Safety, FirstReasonStands

\* A goal that ends while feedback is lost leaves the server locked: no verdict
\* but an unconfirmed stop ends a goal without a fresh frame.
THEOREM LossIsLocked == Safety => LossLocks
<1>1. IInv /\ [Next]_vars =>
        [\A g \in Goals :
           (active = g /\ active' # g /\ Arm!FeedbackLost(backend', fault)) => ~ready']_vars
  <2> SUFFICES ASSUME IInv, [Next]_vars, NEW g \in Goals, active = g, active' # g,
                      Arm!FeedbackLost(backend', fault)
               PROVE  ~ready'
    OBVIOUS
  <2>1. PICK gap \in TickGaps : ActiveTick(gap)
    BY OthersServeNobody
  <2>2. PICK s, m, verdict : AtSwitch(s, m, verdict) /\ Act(s, m, lastTick', verdict)
    BY <2>1, ActiveTickReachesSwitch
  <2>3. verdict \notin {"succeeded", "stopped"}
    <3>1. [s EXCEPT !.monitor = m].backend = s.backend
      BY <2>2 DEF AtSwitch
    <3>2. verdict \in {"succeeded", "stopped"} => backend' = s.backend
      BY <2>2, <3>1 DEF Act, Keep
    <3>3. QED
      BY <2>2, <3>2 DEF AtSwitch
  <2>4. verdict = "stop_unconfirmed"
    BY <2>2, <2>3 DEF AtSwitch, Act, Verdicts
  <2>5. QED
    BY <2>2, <2>4 DEF Act, Locks
<1>2. QED
  BY <1>1, Invariant, PTL DEF Safety, LossLocks

-----------------------------------------------------------------------------
(* A success is judged by the goal's own target, in the tick that read the *)
(* deciding frame.  The monitor is told the target once, and an open       *)
(* settling window reaches to the last frame the server took: so the frame *)
(* that fills it is one the server took after that.                        *)

Aims ==
  active # NoGoal =>
    /\ monitor.target = request[active].target
    /\ monitor.stableSince >= 0 => monitor.lastStamp = sampleTime

Achieved(g) ==
  /\ backend'.state = "succeeded"
  /\ AtTarget(request[g].target, backend'.positions)
  /\ sampleTime' = lastTick'

LEMMA StartEffectOnWindow ==
  ASSUME NEW m \in Monitor, NEW target \in Positions, NEW now \in Int, NEW timeout \in Int
  PROVE  /\ Start(m, target, now, timeout).target = target
         /\ Start(m, target, now, timeout).stableSince = Never
<1> DEFINE until == now + timeout
           next == [m EXCEPT
             !.target = target, !.previous = NoPositions, !.deadline = until,
             !.lastNow = now, !.lastStamp = Never, !.stableSince = Never,
             !.stopping = FALSE, !.started = TRUE]
<1>1. Start(m, target, now, timeout) = next
  BY DEF Start
<1> HIDE DEF until
<1>2. next.target = target /\ next.stableSince = Never
  BY DEF Monitor
<1>3. QED
  BY <1>1, <1>2

LEMMA SendAims ==
  ASSUME IInv, NEW g \in Goals, SendGoal(g), Aims
  PROVE  Aims' /\ \A h \in Goals : status[h] \in InFlight => status'[h] # "succeeded"
<1>1. PICK r \in Motions \cup Refused, delay \in ArrivalDelays :
        /\ request' = [request EXCEPT ![g] = r]
        /\ RejectGoal(g) \/ AnswerGoal(g, r) \/ StartGoal(g, r, delay)
  BY DEF SendGoal
<1>2. status[g] \notin InFlight
  BY DEF SendGoal, InFlight
<1>3. \A h \in Goals : h # g => status'[h] = status[h]
  BY <1>1 DEF RejectGoal, AnswerGoal, StartGoal, FinishWith, IInv, TypeOK
<1>4. \A h \in Goals : status[h] \in InFlight => status'[h] # "succeeded"
  BY <1>2, <1>3 DEF InFlight
<1>5. CASE RejectGoal(g)
  <2>1. active # NoGoal => active # g /\ active \in Goals
    BY <1>2 DEF IInv, TypeOK, Reservation
  <2>2. active # NoGoal => request'[active] = request[active]
    BY <1>1, <2>1 DEF IInv, TypeOK
  <2>3. UNCHANGED <<active, monitor, sampleTime>>
    BY <1>5 DEF RejectGoal, sampleVars
  <2>4. QED
    BY <1>4, <2>2, <2>3 DEF Aims
<1>6. CASE AnswerGoal(g, r)
  BY <1>4, <1>6 DEF AnswerGoal, FinishWith, Aims
<1>7. CASE StartGoal(g, r, delay)
  <2>1. r \in Motions
    <3>1. r.kind \notin {"pose_target", "unknown_target", "invalid"}
      BY <1>7 DEF StartGoal, Refusal
    <3>2. QED
      BY <1>1, <3>1 DEF Refused
  <2>2. r.target \in Positions /\ r.timeout \in Int /\ lastTick' \in Int /\ monitor \in Monitor
    <3>1. r.target \in Targets /\ r.timeout \in Timeouts
      BY <2>1 DEF Motions
    <3>2. lastTick' = lastTick + delay /\ delay \in ArrivalDelays
      BY <1>1, <1>7 DEF StartGoal
    <3>3. lastTick' \in Int
      BY <3>2, ServerAssumption DEF IInv, TypeOK
    <3>4. Targets \subseteq Positions /\ Timeouts \subseteq Nat /\ monitor \in Monitor
      BY ServerAssumption DEF IInv, TypeOK
    <3>5. r.target \in Positions
      <4>1. \A t \in Targets : t \in Positions
        BY <3>4
      <4>2. QED
        BY <3>1, <4>1
    <3>6. r.timeout \in Int
      <4>1. \A t \in Timeouts : t \in Int
        BY <3>4
      <4>2. QED
        BY <3>1, <4>1
    <3>7. QED
      BY <3>3, <3>4, <3>5, <3>6
  <2>3. monitor' = Start(monitor, r.target, lastTick', r.timeout) /\ active' = g
    BY <1>7 DEF StartGoal
  <2>4. monitor'.target = r.target /\ monitor'.stableSince = Never
    BY <2>2, <2>3, StartEffectOnWindow
  <2>5. request'[g] = r
    BY <1>1 DEF IInv, TypeOK
  <2>6. ~(monitor'.stableSince >= 0)
    BY <2>4 DEF Never
  <2>7. QED
    BY <1>4, <2>3, <2>4, <2>5, <2>6 DEF Aims
<1>8. QED
  BY <1>1, <1>5, <1>6, <1>7

LEMMA TickAims ==
  ASSUME IInv, NEW gap \in TickGaps, ActiveTick(gap), Aims
  PROVE  Aims' /\ (status'[active] = "succeeded" => Achieved(active))
<1>1. /\ lastTick' \in Nat /\ active \in Goals /\ active # NoGoal
      /\ request' = request /\ monitor \in Monitor /\ status[active] \in InFlight
  BY ServerAssumption DEF ActiveTick, IInv, TypeOK, Reservation
<1>2. PICK moved \in {Advanced(gap)} :
        /\ TakeSample(moved, lastTick')
        /\ \E s \in {BeforeUpdate(moved, lastTick')} :
           \E r \in {ReadingOf(moved, s.backend.state, lastTick')} :
           \E u \in {Update(s.monitor, r)} :
             Act(s, u.monitor, lastTick', u.verdict)
  BY DEF ActiveTick
<1>3. PICK s \in {BeforeUpdate(moved, lastTick')} :
        \E r \in {ReadingOf(moved, s.backend.state, lastTick')} :
        \E u \in {Update(s.monitor, r)} :
          Act(s, u.monitor, lastTick', u.verdict)
  BY <1>2
<1>4. PICK r \in {ReadingOf(moved, s.backend.state, lastTick')} :
        \E u \in {Update(s.monitor, r)} :
          Act(s, u.monitor, lastTick', u.verdict)
  BY <1>3
<1>5. PICK u \in {Update(s.monitor, r)} : Act(s, u.monitor, lastTick', u.verdict)
  BY <1>4
<1>6. moved \in Arm!Backend /\ sampleTime' \in Nat \cup {Never}
  <2>1. moved \in Arm!Backend
    <3>1. scale \in Nat /\ gap \in Nat /\ FullSpeed \in Nat /\ fault \in Arm!Faults
      BY ServerAssumption DEF IInv, TypeOK
    <3>2. gap * (IF active = NoGoal THEN FullSpeed ELSE scale) \in Nat
      BY <3>1
    <3>3. QED
      BY <1>2, <3>1, <3>2, AdvanceType DEF Advanced, IInv, TypeOK
  <2>2. QED
    BY <1>1, <1>2, <2>1, SampleType DEF IInv
\* What is asked of the monitor, and in which state.
<1>7. /\ s = [stopping |-> s.stopping, stopCode |-> s.stopCode,
              monitor |-> s.monitor, backend |-> s.backend]
      /\ s.monitor \in Monitor /\ s.monitor.target = monitor.target
      /\ s.monitor.stopping = s.stopping /\ s.stopping \in BOOLEAN
      /\ s.stopping => s.stopCode \in StopCodes
      /\ ~s.stopping => s.monitor = monitor /\ s.backend = moved
  <2>1. CASE CancelSeen
    <3>1. ~monitor.stopping
      BY <1>1, <2>1 DEF CancelSeen, IInv, StopAgrees
    <3>2. s = [stopping |-> TRUE, stopCode |-> "CANCELED",
               monitor |-> RequestStop(monitor, lastTick'),
               backend |-> Arm!Cancel(moved, fault)]
      BY <1>3, <2>1 DEF BeforeUpdate
    <3>3. /\ RequestStop(monitor, lastTick') \in Monitor
          /\ RequestStop(monitor, lastTick').stopping = TRUE
          /\ RequestStop(monitor, lastTick').target = monitor.target
      <4>1. lastTick' \in Int
        BY <1>1
      <4>2. QED
        BY <1>1, <4>1, RequestStopType, RequestStopEffect, RequestStopCloses
    <3>4. QED
      BY <3>2, <3>3 DEF StopCodes
  <2>2. CASE ~CancelSeen
    <3>1. s = [stopping |-> stopping, stopCode |-> stopCode,
               monitor |-> monitor, backend |-> moved]
      BY <1>3, <2>2 DEF BeforeUpdate
    <3>2. QED
      BY <1>1, <3>1 DEF IInv, StopAgrees, TypeOK
  <2>3. QED
    BY <2>1, <2>2
<1>8. /\ r \in Reading /\ r.stamp = sampleTime' /\ r.positions = moved.positions
      /\ r.controller = "succeeded" => s.backend.state = "succeeded"
  <2>1. moved.positions \in Positions
    BY <1>6 DEF Arm!Backend, Positions
  <2>2. Arm!FeedbackLost(moved, fault) \in BOOLEAN
    BY DEF Arm!FeedbackLost
  <2>3. sampleTime' \in Int
    BY <1>6, NeverType
  <2>4. r = ReadingOf(moved, s.backend.state, lastTick')
    BY <1>4
  <2>5. QED
    BY <1>1, <2>1, <2>2, <2>3, <2>4 DEF ReadingOf, Reading, ControllerResults
<1> DEFINE m == u.monitor
           verdict == u.verdict
<1>9. /\ Act(s, m, lastTick', verdict) /\ m \in Monitor /\ verdict \in Verdicts
      /\ m.target = monitor.target /\ m.stopping = s.stopping
  BY <1>5, <1>7, <1>8, UpdateType, UpdateFrame
\* What the answer is worth.
<1>10. verdict \in {"running", "settling", "stopping", "succeeded", "stopped"}
         => (m.stableSince >= 0 => m.lastStamp = sampleTime')
  BY <1>5, <1>7, <1>8, WindowReachesLastFrame
<1>11. verdict = "succeeded" =>
         /\ s.backend = moved /\ moved.state = "succeeded"
         /\ AtTarget(monitor.target, moved.positions)
         /\ sampleTime' = lastTick'
  <2> SUFFICES ASSUME verdict = "succeeded"
               PROVE  /\ s.backend = moved /\ moved.state = "succeeded"
                      /\ AtTarget(monitor.target, moved.positions)
                      /\ sampleTime' = lastTick'
    OBVIOUS
  <2>1. Update(s.monitor, r).verdict = "succeeded"
    BY <1>5
  <2>2. /\ s.monitor.stableSince >= 0 /\ r.stamp # s.monitor.lastStamp
        /\ r.controller = "succeeded" /\ ~s.monitor.stopping
        /\ AtTarget(s.monitor.target, r.positions)
    BY <1>7, <1>8, <2>1, SuccessNeedsWindow
  <2>3. s.monitor = monitor /\ s.backend = moved
    BY <1>7, <2>2
  <2>4. sampleTime' # sampleTime
    BY <1>1, <1>8, <2>2, <2>3 DEF Aims
  <2>5. sampleTime' = lastTick'
    BY <1>2, <2>4 DEF TakeSample
  <2>6. QED
    BY <1>8, <2>2, <2>3, <2>5
<1> HIDE DEF m, verdict
<1>12. [s EXCEPT !.monitor = m].monitor = m /\ [s EXCEPT !.monitor = m].backend = s.backend
  BY <1>7
<1>13. CASE verdict \in {"stale", "failed", "timeout"}
  <2>1. active' = active /\ status' = status
    BY <1>9, <1>13 DEF Act
  <2>2. ~s.stopping
    <3>1. verdict = "stale" \/ verdict = "failed" \/ verdict = "timeout"
      BY <1>13
    <3>2. QED
      BY <1>5, <1>7, <1>8, <3>1, DeadlineVerdict DEF verdict
  <2>3. monitor' = RequestStop(m, lastTick')
    BY <1>9, <1>13, <2>2 DEF Act, Keep, BeginStop
  <2>4. monitor'.target = m.target /\ monitor'.stableSince = Never
    <3>1. lastTick' \in Int
      BY <1>1
    <3>2. QED
      BY <1>9, <2>2, <2>3, <3>1, RequestStopCloses
  <2>5. ~(monitor'.stableSince >= 0)
    BY <2>4 DEF Never
  <2>6. status'[active] # "succeeded"
    BY <1>1, <2>1 DEF InFlight
  <2>7. QED
    BY <1>1, <1>9, <2>1, <2>4, <2>5, <2>6 DEF Aims
<1>14. CASE verdict \in {"running", "settling", "stopping"}
  <2>1. active' = active /\ status' = status /\ monitor' = m
    BY <1>9, <1>12, <1>14 DEF Act, Keep
  <2>2. status'[active] # "succeeded"
    BY <1>1, <2>1 DEF InFlight
  <2>3. QED
    BY <1>1, <1>9, <1>10, <1>14, <2>1, <2>2 DEF Aims
<1>15. CASE verdict = "stop_unconfirmed"
  <2>1. FinishWith(active, "STOP_UNCONFIRMED")
    BY <1>9, <1>15 DEF Act
  <2>2. active' = NoGoal /\ status'[active] = "aborted"
    BY <1>1, <2>1 DEF FinishWith, ResultState, IInv, TypeOK
  <2>3. QED
    BY <2>2 DEF Aims
<1>16. CASE verdict = "stopped"
  <2>1. FinishWith(active, s.stopCode)
    BY <1>9, <1>16 DEF Act
  <2>2. s.stopCode \in StopCodes
    BY <1>5, <1>7, <1>8, <1>16, FinalVerdict DEF verdict
  <2>3. active' = NoGoal /\ status'[active] # "succeeded"
    BY <1>1, <2>1, <2>2 DEF FinishWith, ResultState, StopCodes, IInv, TypeOK
  <2>4. QED
    BY <2>3 DEF Aims
<1>17. CASE verdict = "succeeded"
  <2>1. active' = NoGoal /\ backend' = s.backend
    BY <1>9, <1>12, <1>17 DEF Act, FinishWith, Keep
  <2>2. Achieved(active)
    BY <1>1, <1>11, <1>17, <2>1 DEF Achieved, Aims
  <2>3. QED
    BY <2>1, <2>2 DEF Aims
<1>18. QED
  BY <1>9, <1>13, <1>14, <1>15, <1>16, <1>17 DEF Verdicts

\* A goal that is reported as a success is one whose controller finished and
\* whose joints, in a frame taken in that very tick, are at its own target.
THEOREM SuccessIsOnTarget == Safety => SuccessOnTarget
<1> DEFINE Judged(g) ==
      (status[g] \in InFlight /\ status'[g] = "succeeded")
        => /\ backend'.state = "succeeded"
           /\ AtTarget(request[g].target, backend'.positions)
           /\ sampleTime' = lastTick'
<1>1. Init => Aims
  BY DEF Init, Aims
<1>2. ASSUME IInv, Aims, [Next]_vars
      PROVE  Aims' /\ \A g \in Goals : Judged(g)
  <2>1. ASSUME NEW g \in Goals, SendGoal(g) PROVE Aims' /\ \A h \in Goals : Judged(h)
    BY <1>2, <2>1, SendAims
  <2>2. ASSUME NEW g \in Goals, CancelGoal(g) PROVE Aims' /\ \A h \in Goals : Judged(h)
    <3>1. Aims'
      BY <1>2, <2>2 DEF CancelGoal, Aims, sampleVars
    <3>2. ASSUME NEW h \in Goals, status[h] \in InFlight PROVE status'[h] # "succeeded"
      BY <1>2, <2>2, <3>2 DEF CancelGoal, InFlight, IInv, TypeOK
    <3>3. QED
      BY <3>1, <3>2
  <2>3. ASSUME NEW gap \in TickGaps, IdleTick(gap) PROVE Aims' /\ \A h \in Goals : Judged(h)
    <3>1. active = NoGoal /\ active' = NoGoal /\ status' = status
      BY <2>3 DEF IdleTick, clientVars
    <3>2. QED
      BY <3>1 DEF Aims, InFlight
  <2>4. ASSUME NEW gap \in TickGaps, ActiveTick(gap) PROVE Aims' /\ \A h \in Goals : Judged(h)
    <3>1. Aims' /\ (status'[active] = "succeeded" => Achieved(active))
      BY <1>2, <2>4, TickAims
    <3>2. ASSUME NEW h \in Goals, status[h] \in InFlight PROVE h = active
      BY <1>2, <3>2 DEF IInv, Reservation
    <3>3. QED
      BY <3>1, <3>2 DEF Achieved
  <2>5. CASE UNCHANGED vars
    BY <1>2, <2>5 DEF vars, Aims, InFlight
  <2>6. QED
    BY <1>2, <2>1, <2>2, <2>3, <2>4, <2>5 DEF Next, Tick
<1>3. IInv /\ Aims /\ [Next]_vars => Aims'
  BY <1>2
<1>4. IInv /\ Aims /\ [Next]_vars => [\A g \in Goals : Judged(g)]_vars
  BY <1>2
<1>5. QED
  BY <1>1, <1>3, <1>4, Invariant, PTL DEF Safety, SuccessOnTarget
=============================================================================
