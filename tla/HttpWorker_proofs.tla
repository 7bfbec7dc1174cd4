-------------------------- MODULE HttpWorker_proofs -------------------------
(***************************************************************************)
(* Proofs about HttpWorker, for every size of the settling window: what a  *)
(* worker reports as known is true of the device, and its reports are the  *)
(* ones the node relies on.                                                *)
(*                                                                         *)
(* The inductive invariant says where the motion command can be: under way *)
(* only while nobody answered it, and answered before the worker does      *)
(* anything but give up.                                                   *)
(***************************************************************************)
EXTENDS HttpWorker, TLAPS

Early == {"starting", "preparing", "launching"}
Watching == {"stopping", "stop_sent", "confirming"}

\* Where the motion command is.
CommandPlace ==
  /\ at \in Early => ~sent
  /\ ~sent /\ ~plan => "motion" \notin wire /\ handler = "none" /\ reply["motion"] = "none"
  /\ at \in Early => "motion" \notin wire /\ handler = "none" /\ reply["motion"] = "none"
  /\ plan => kind = "arm" /\ handler = "none" /\ ~sent
  /\ "motion" \in wire => handler = "none" /\ reply["motion"] = "none"
  /\ moving => handler = "running" /\ ~reached
  /\ at = "waiting" => outcome = "none"

\* What the worker has learnt of it.
WorkerKnows ==
  /\ at = "done" <=> outcome # "none"
  /\ at = "abandoning" => sent
  /\ at = "sampling" => sent /\ reply["motion"] = "ok"
  /\ at \in Watching => kind = "arm" /\ sent /\ reply["motion"] # "none" /\ then # "none"
  /\ at \in Watching /\ then = "CANCELED" => cancel
  /\ at \in {"sampling", "confirming"} /\ kind = "arm" /\ calm > 0 => ~moving
  /\ at = "sampling" /\ calm > 0 => reached

IInv == TypeOK /\ CommandPlace /\ WorkerKnows /\ KnownMeansAtRest /\ SuccessMeansReached

-----------------------------------------------------------------------------
\* The invariant is about the state.
LEMMA Stutter == ASSUME IInv, UNCHANGED vars PROVE IInv'
  BY DEF IInv, TypeOK, CommandPlace, WorkerKnows, KnownMeansAtRest,
         SuccessMeansReached, vars

\* A job starts with nothing sent and a device at rest.
LEMMA InitInv == Init => IInv
<1> SUFFICES ASSUME Init PROVE IInv
  OBVIOUS
<1>1. reply \in [Commands -> {"none", "ok", "failed"}] /\ reply["motion"] = "none"
  BY DEF Init, DeviceInit, Commands
<1>2. calm \in 0 .. SettleSamples
  BY SettleAssumption DEF Init, DeviceInit
<1>3. wire \subseteq Requests
  BY DEF Init, DeviceInit, Requests
<1>4. TypeOK
  <2>1. /\ plan \in BOOLEAN /\ sent \in BOOLEAN /\ cancel \in BOOLEAN
        /\ late \in BOOLEAN /\ moving \in BOOLEAN /\ reached \in BOOLEAN
    BY Zenon DEF Init, DeviceInit
  <2>2. /\ kind \in {"arm", "hand"} /\ at = "starting" /\ prepared \in 0 .. 3
        /\ then = "none" /\ outcome = "none" /\ handler = "none"
    BY DEF Init, DeviceInit
  <2> QED BY <1>1, <1>2, <1>3, <2>1, <2>2 DEF TypeOK
<1>5. CommandPlace
  BY <1>1 DEF Init, DeviceInit, CommandPlace
<1>6. WorkerKnows /\ KnownMeansAtRest /\ SuccessMeansReached
  BY DEF Init, DeviceInit, WorkerKnows, KnownMeansAtRest, SuccessMeansReached, Watching
<1> QED BY <1>4, <1>5, <1>6 DEF IInv

-----------------------------------------------------------------------------
\* What a worker's step leaves alone, and what it also leaves alone when it
\* sends nothing.
Frame == UNCHANGED <<kind, plan, cancel, deviceVars>>
Silent == Frame /\ Still /\ UNCHANGED prepared

\* Nothing that could move the device is under way.
Harmless == ~moving /\ ("motion" \in wire => plan)

\* A command that was answered is not under way, nor one that was not sent.
LEMMA AnsweredOrUnsent ==
  ASSUME IInv, ~sent \/ reply["motion"] # "none"
  PROVE  /\ "motion" \in wire => plan
         /\ ~sent => ~moving
  BY DEF IInv, CommandPlace

\* The job may end with a code that claims to know when nothing can move.
LEMMA EndInv ==
  ASSUME IInv, Silent, at # "done", NEW c \in Codes, End(c),
         c \notin Locking => Harmless, c = "OK" /\ ~plan => reached
  PROVE  IInv'
<1>1. TypeOK'
  BY DEF Silent, Frame, Still, End, deviceVars, IInv, TypeOK
<1>2. CommandPlace'
  BY DEF Silent, Frame, Still, End, deviceVars, IInv, CommandPlace, Early
<1>3. WorkerKnows'
  BY DEF End, WorkerKnows, Watching, Codes, Locking
<1>4. KnownMeansAtRest' /\ SuccessMeansReached'
  BY DEF Silent, Frame, Still, End, deviceVars, Harmless, KnownMeansAtRest,
         SuccessMeansReached
<1> QED BY <1>1, <1>2, <1>3, <1>4 DEF IInv

\* A stop may be confirmed once the motion command was answered.
LEMMA ConfirmInv ==
  ASSUME IInv, Silent, kind = "arm", at # "done", sent, reply["motion"] # "none",
         NEW c \in {"CANCELED", "EXECUTION_FAILED"}, c = "CANCELED" => cancel,
         ConfirmStop(c)
  PROVE  IInv'
<1>0. calm' \in 0 .. SettleSamples
  BY SettleAssumption DEF ConfirmStop
<1>1. TypeOK'
  BY <1>0, Zenon DEF Silent, Frame, Still, ConfirmStop, deviceVars, IInv, TypeOK
<1>2. CommandPlace'
  BY DEF Silent, Frame, Still, ConfirmStop, deviceVars, IInv, CommandPlace, Early
<1>3. WorkerKnows'
  BY DEF Silent, Frame, Still, ConfirmStop, IInv, WorkerKnows, Watching
<1>4. KnownMeansAtRest' /\ SuccessMeansReached'
  BY DEF Silent, Frame, Still, ConfirmStop, deviceVars, IInv, KnownMeansAtRest,
         SuccessMeansReached
<1> QED BY <1>1, <1>2, <1>3, <1>4 DEF IInv

\* An error leaves the outcome open or came before the command.
LEMMA ErrorInv == ASSUME IInv, Silent, at # "done", AfterError PROVE IInv'
<1>1. CASE ~sent
  <2>1. End("BACKEND_UNAVAILABLE")
    BY <1>1 DEF AfterError
  <2> QED BY <2>1, EndInv DEF Codes, Locking
<1>2. CASE sent
  <2>1. at' = "abandoning" /\ late' = FALSE /\ UNCHANGED <<codeVars, calm>>
    BY <1>2 DEF AfterError
  <2>2. TypeOK'
    BY <2>1 DEF Silent, Frame, Still, deviceVars, codeVars, IInv, TypeOK
  <2>3. CommandPlace'
    BY <2>1 DEF Silent, Frame, Still, deviceVars, codeVars, IInv, CommandPlace, Early
  <2>4. WorkerKnows' /\ KnownMeansAtRest' /\ SuccessMeansReached'
    BY <1>2, <2>1 DEF Silent, Frame, Still, deviceVars, codeVars, IInv, WorkerKnows,
                KnownMeansAtRest, SuccessMeansReached, Watching
  <2> QED BY <2>2, <2>3, <2>4 DEF IInv
<1> QED BY <1>1, <1>2 DEF IInv, TypeOK

\* The places where the cancel event or a reported failure is acted upon come
\* before the command or after its answer.
LEMMA StopRequestInv ==
  ASSUME IInv, Silent, kind = "arm", at # "done", cancel,
         ~sent \/ reply["motion"] # "none", AfterStopRequest
  PROVE  IInv'
<1>1. CASE ~sent
  BY <1>1, EndInv, AnsweredOrUnsent DEF AfterStopRequest, Codes, Locking, Harmless
<1>2. CASE sent
  BY <1>2, ConfirmInv DEF AfterStopRequest
<1> QED BY <1>1, <1>2

\* A failure the device reported: known at once if nothing was sent, else the
\* stop is confirmed first.
LEMMA ReportedFailureInv ==
  ASSUME IInv, Silent, kind = "arm", at # "done",
         ~sent \/ reply["motion"] # "none", AfterReportedFailure
  PROVE  IInv'
<1>1. CASE ~sent
  BY <1>1, EndInv, AnsweredOrUnsent
  DEF AfterReportedFailure, Codes, Locking, Harmless
<1>2. CASE sent /\ cancel
  BY <1>2, ConfirmInv DEF AfterReportedFailure
<1>3. CASE sent /\ ~cancel
  BY <1>3, ConfirmInv DEF AfterReportedFailure
<1> QED BY <1>1, <1>2, <1>3

\* A checkpoint that finds a cancellation or the deadline.
LEMMA InterruptedInv ==
  ASSUME IInv, Silent, kind = "arm", at # "done",
         ~sent \/ reply["motion"] # "none", Interrupted
  PROVE  IInv'
  BY StopRequestInv, ErrorInv DEF Interrupted

\* The procedure goes on, with its place and its samples changed at most.
LEMMA GoOnInv ==
  ASSUME IInv, Frame, Still, UNCHANGED <<codeVars, late>>,
         at # "done", prepared' \in 0 .. 3, calm' \in 0 .. SettleSamples,
         \/ at \in Early /\ at' \in {"preparing", "launching"}
         \/ /\ at \in {"waiting", "sampling"} /\ at' = "sampling"
            /\ sent /\ reply["motion"] = "ok"
            /\ calm' > 0 => reached /\ (kind = "arm" => ~moving)
         \/ /\ at \in {"stop_sent", "confirming"} /\ at' = "confirming"
            /\ calm' > 0 => ~moving
  PROVE  IInv'
<1>1. TypeOK'
  BY DEF Frame, Still, deviceVars, codeVars, IInv, TypeOK, Early
<1>2. CommandPlace'
  BY DEF Frame, Still, deviceVars, codeVars, IInv, CommandPlace, Early
<1>3. WorkerKnows'
  BY DEF Frame, Still, deviceVars, codeVars, IInv, WorkerKnows, Early, Watching
<1>4. KnownMeansAtRest' /\ SuccessMeansReached'
  BY DEF Frame, Still, deviceVars, codeVars, IInv, KnownMeansAtRest,
         SuccessMeansReached
<1> QED BY <1>1, <1>2, <1>3, <1>4 DEF IInv

-----------------------------------------------------------------------------
\* What the invariant says of the places where the motion command was not sent.
LEMMA EarlyUnsent == ASSUME IInv, at \in Early PROVE ~sent /\ at # "done"
  BY DEF IInv, CommandPlace, Early

\* The motion command goes out, from a place where it was not sent before.
LEMMA LaunchInv ==
  ASSUME IInv, Frame, at = "launching", at' = "waiting", wire' = wire \cup {"motion"},
         sent' = ~plan, UNCHANGED <<codeVars, calm, late, reply, prepared>>
  PROVE  IInv'
<1>1. "motion" \notin wire /\ handler = "none" /\ reply["motion"] = "none" /\ outcome = "none"
  BY DEF IInv, CommandPlace, WorkerKnows, Early
<1>2. TypeOK'
  <2>1. sent' \in BOOLEAN /\ wire' \subseteq Requests
    BY DEF IInv, TypeOK, Requests, Commands
  <2> QED BY <2>1, Zenon DEF Frame, deviceVars, codeVars, IInv, TypeOK
<1>3. CommandPlace'
  BY <1>1 DEF Frame, deviceVars, codeVars, IInv, CommandPlace, Early
<1>4. WorkerKnows' /\ KnownMeansAtRest' /\ SuccessMeansReached'
  BY <1>1 DEF Frame, deviceVars, codeVars, WorkerKnows,
              KnownMeansAtRest, SuccessMeansReached, Watching
<1> QED BY <1>2, <1>3, <1>4 DEF IInv

\* A stop goes out while it is waited for, or as the job gives up.
LEMMA PostStopInv ==
  ASSUME IInv, Frame, wire' = wire \cup {"stop"}, UNCHANGED <<prepared, reply, sent>>,
         \/ at = "stopping" /\ at' = "stop_sent" /\ UNCHANGED <<codeVars, calm, late>>
         \/ at = "abandoning" /\ End("RESULT_UNKNOWN")
  PROVE  IInv'
<1>1. TypeOK'
  <2>1. wire' \subseteq Requests
    BY DEF IInv, TypeOK, Requests, Commands
  <2>2. outcome' \in Codes \cup {"none"}
    BY DEF IInv, TypeOK, End, codeVars, Codes, Locking
  <2> QED BY <2>1, <2>2 DEF Frame, End, deviceVars, codeVars, IInv, TypeOK
<1>2. CommandPlace'
  BY DEF Frame, End, deviceVars, codeVars, IInv, CommandPlace, Early
<1>3. WorkerKnows'
  BY DEF Frame, End, deviceVars, codeVars, IInv, WorkerKnows, Watching
<1>4. KnownMeansAtRest' /\ SuccessMeansReached'
  BY DEF Frame, End, deviceVars, codeVars, IInv, WorkerKnows, KnownMeansAtRest,
         SuccessMeansReached, Locking
<1> QED BY <1>1, <1>2, <1>3, <1>4 DEF IInv

\* A full window of samples was taken at rest (and on target).
LEMMA FullWindow ==
  ASSUME IInv, calm = SettleSamples, at \in {"sampling", "confirming"}
  PROVE  /\ kind = "arm" => Harmless
         /\ at = "sampling" => reached /\ sent /\ reply["motion"] = "ok" /\ Harmless
<1>1. calm > 0
  BY SettleAssumption
<1>2. sent /\ reply["motion"] # "none" /\ (at = "sampling" => reply["motion"] = "ok")
  BY DEF IInv, WorkerKnows, Watching
<1>3. "motion" \notin wire
  BY <1>2 DEF IInv, CommandPlace
<1>4. (kind = "arm" => ~moving) /\ (at = "sampling" => reached)
  BY <1>1 DEF IInv, WorkerKnows
<1>5. reached => ~moving
  BY DEF IInv, CommandPlace
<1> QED BY <1>2, <1>3, <1>4, <1>5 DEF Harmless

-----------------------------------------------------------------------------
\* The arm procedure keeps the invariant.
LEMMA ArmInv == ASSUME IInv, Arm, Frame PROVE IInv'
<1> DEFINE OnWay == UNCHANGED <<codeVars, calm, late>>
<1>0. calm \in 0 .. SettleSamples /\ prepared \in 0 .. 3
  BY DEF IInv, TypeOK
<1>1. CASE Start
  <2>1. at \in Early /\ ~sent /\ at # "done" /\ kind = "arm" /\ Silent
    BY <1>1, EarlyUnsent DEF Start, Early, Silent
  <2>2. CASE Clear /\ at' = (IF plan THEN "launching" ELSE "preparing") /\ OnWay
    BY <2>1, <2>2, <1>0, GoOnInv DEF Silent, codeVars
  <2>3. CASE Interrupted
    BY <2>1, <2>3, InterruptedInv
  <2> QED BY <1>1, <2>2, <2>3 DEF Start
<1>2. CASE Prepare
  <2>1. at \in Early /\ ~sent /\ at # "done" /\ Still
    BY <1>2, EarlyUnsent DEF Prepare, Early
  <2>2. kind = "arm" \/ ~sent
    BY <2>1
  <2>3. CASE prepared' = prepared + 1 /\ UNCHANGED at /\ OnWay
    <3>1. prepared' \in 0 .. 3
      BY <1>0, <1>2, <2>3 DEF Prepare
    <3> QED BY <2>1, <2>3, <3>1, <1>0, <1>2, GoOnInv DEF Prepare, codeVars
  <2>4. CASE AfterReportedFailure /\ UNCHANGED prepared
    BY <2>1, <2>4, EndInv, AnsweredOrUnsent
    DEF AfterReportedFailure, Silent, Codes, Locking, Harmless
  <2>5. CASE AfterError /\ UNCHANGED prepared
    BY <2>1, <2>5, ErrorInv DEF Silent
  <2>6. CASE cancel /\ AfterStopRequest /\ UNCHANGED prepared
    BY <2>1, <2>6, EndInv, AnsweredOrUnsent
    DEF AfterStopRequest, Silent, Codes, Locking, Harmless
  <2> QED BY <1>2, <2>3, <2>4, <2>5, <2>6 DEF Prepare, Interrupted
<1>3. CASE ReadMotors
  <2>1. at \in Early /\ ~sent /\ at # "done" /\ Silent
    BY <1>3, EarlyUnsent DEF ReadMotors, Early, Silent
  <2>2. CASE at' = "launching" /\ OnWay
    BY <2>1, <2>2, <1>0, GoOnInv DEF Silent, codeVars
  <2>3. CASE AfterReportedFailure
    BY <2>1, <2>3, EndInv, AnsweredOrUnsent
    DEF AfterReportedFailure, Codes, Locking, Harmless
  <2>4. CASE AfterError
    BY <2>1, <2>4, ErrorInv
  <2> QED BY <1>3, <2>2, <2>3, <2>4 DEF ReadMotors
<1>4. CASE Launch
  <2>1. at \in Early /\ ~sent /\ at # "done" /\ kind = "arm"
    BY <1>4, EarlyUnsent DEF Launch, Early
  <2>2. CASE Interrupted /\ Still
    BY <1>4, <2>1, <2>2, InterruptedInv DEF Launch, Silent
  <2>3. CASE ~(Interrupted /\ Still)
    BY <1>4, <2>3, LaunchInv DEF Launch, Post, codeVars
  <2> QED BY <2>2, <2>3
<1>5. CASE Answered
  <2>1. at = "waiting" /\ at # "done" /\ kind = "arm" /\ Silent
    BY <1>5 DEF Answered, Silent
  <2>2. CASE reply["motion"] = "ok" /\ Clear /\ plan /\ End("OK")
    <3>1. Harmless
      BY <2>2 DEF IInv, CommandPlace, Harmless
    <3> QED BY <2>1, <2>2, <3>1, EndInv DEF Codes
  <2>3. CASE reply["motion"] = "ok" /\ ~plan /\ at' = "sampling" /\ calm' = 0
             /\ UNCHANGED <<codeVars, late>>
    <3>1. sent
      BY <2>3 DEF IInv, CommandPlace
    <3>2. calm' \in 0 .. SettleSamples
      BY <2>3, SettleAssumption
    <3> QED BY <2>1, <2>3, <3>1, <3>2, <1>0, GoOnInv DEF Silent
  <2>4. CASE reply["motion"] = "ok" /\ Interrupted
    BY <2>1, <2>4, InterruptedInv
  <2>5. CASE reply["motion"] = "failed" /\ AfterReportedFailure
    BY <2>1, <2>5, ReportedFailureInv
  <2>6. CASE AfterError
    BY <2>1, <2>6, ErrorInv
  <2> QED BY <1>5, <2>2, <2>3, <2>4, <2>5, <2>6 DEF Answered
<1>6. CASE Sample
  <2>1. calm' \in 0 .. SettleSamples /\ (calm' > 0 => Quiet)
    BY <1>6, <1>0, SettleAssumption DEF Sample, Sampled
  <2>2. at = "sampling" => sent /\ reply["motion"] = "ok"
    BY DEF IInv, WorkerKnows
  <2> QED BY <1>6, <2>1, <2>2, <1>0, GoOnInv DEF Sample, Quiet
<1>7. CASE Settle
  <2>1. at \in {"sampling", "confirming"} /\ calm = SettleSamples /\ kind = "arm" /\ Silent
    BY <1>7 DEF Settle, Silent
  <2>2. CASE at = "confirming" /\ End(then)
    <3>1. then \in {"CANCELED", "EXECUTION_FAILED"}
      BY <2>2 DEF IInv, TypeOK, WorkerKnows, Watching
    <3> QED BY <2>1, <2>2, <3>1, FullWindow, EndInv DEF Codes
  <2>3. CASE at = "sampling" /\ End("OK")
    BY <2>1, <2>3, FullWindow, EndInv DEF Codes
  <2>4. CASE at = "sampling" /\ Interrupted
    BY <2>1, <2>4, FullWindow, InterruptedInv
  <2> QED BY <1>7, <2>1, <2>2, <2>3, <2>4 DEF Settle
<1>8. CASE LeaveSampling
  <2>1. at = "sampling" /\ kind = "arm" /\ Silent /\ reply["motion"] # "none"
    BY <1>8 DEF LeaveSampling, Silent, IInv, WorkerKnows
  <2> QED BY <1>8, <2>1, StopRequestInv, ErrorInv DEF LeaveSampling
<1>9. CASE PostStop
  BY <1>9, PostStopInv DEF PostStop, Post
<1>10. CASE StopAnswered
  <2>1. calm' \in 0 .. SettleSamples
    BY <1>10, SettleAssumption DEF StopAnswered
  <2> QED BY <1>10, <2>1, <1>0, GoOnInv DEF StopAnswered
<1>11. CASE StopInDoubt
  BY <1>11, EndInv DEF StopInDoubt, Silent, Codes, Locking
<1>12. CASE Abandon
  BY <1>12, PostStopInv DEF Abandon, Post
<1> QED BY <1>1, <1>2, <1>3, <1>4, <1>5, <1>6, <1>7, <1>8, <1>9, <1>10, <1>11,
           <1>12 DEF Arm

\* The hand procedure keeps the invariant.
LEMMA HandInv == ASSUME IInv, Hand, Frame PROVE IInv'
<1> DEFINE OnWay == UNCHANGED <<codeVars, calm, late>>
<1>0. calm \in 0 .. SettleSamples /\ prepared \in 0 .. 3
  BY DEF IInv, TypeOK
<1>1. CASE HandStart
  <2>1. at \in Early /\ ~sent /\ at # "done" /\ Silent
    BY <1>1, EarlyUnsent DEF HandStart, Early, Silent
  <2>2. CASE End("CANCELED")
    BY <2>1, <2>2, EndInv, AnsweredOrUnsent DEF Codes, Locking, Harmless
  <2>3. CASE at' = "launching" /\ OnWay
    BY <2>1, <2>3, <1>0, GoOnInv DEF Silent, codeVars
  <2>4. CASE HandFails
    BY <2>1, <2>4, EndInv DEF HandFails, Codes, Locking
  <2> QED BY <1>1, <2>2, <2>3, <2>4 DEF HandStart
<1>2. CASE HandLaunch
  <2>1. at \in Early /\ ~sent /\ at # "done" /\ ~plan
    BY <1>2, EarlyUnsent DEF HandLaunch, Early, IInv, CommandPlace
  <2>2. CASE End("CANCELED") /\ Still
    BY <1>2, <2>1, <2>2, EndInv, AnsweredOrUnsent
    DEF HandLaunch, Silent, Codes, Locking, Harmless
  <2>3. CASE ~(End("CANCELED") /\ Still)
    BY <1>2, <2>1, <2>3, LaunchInv DEF HandLaunch, Post, codeVars
  <2> QED BY <2>2, <2>3
<1>3. CASE HandAnswered
  <2>1. at = "waiting" /\ at # "done" /\ Silent
    BY <1>3 DEF HandAnswered, Silent
  <2>2. CASE /\ reply["motion"] = "ok" /\ at' = "sampling" /\ calm' = 0
             /\ UNCHANGED <<codeVars, late>>
    <3>1. sent
      BY <1>3, <2>2 DEF HandAnswered, IInv, CommandPlace
    <3>2. calm' \in 0 .. SettleSamples
      BY <2>2, SettleAssumption
    <3> QED BY <2>1, <2>2, <3>1, <3>2, <1>0, GoOnInv DEF Silent
  <2>3. CASE HandFails
    BY <2>1, <2>3, EndInv DEF HandFails, Codes, Locking
  <2> QED BY <1>3, <2>2, <2>3 DEF HandAnswered
<1>4. CASE HandSample
  <2>1. /\ at = "sampling" /\ at # "done" /\ Silent /\ kind # "arm"
        /\ sent /\ reply["motion"] = "ok"
    BY <1>4 DEF HandSample, Silent, IInv, WorkerKnows
  <2>2. CASE End("STOP_UNCONFIRMED")
    BY <2>1, <2>2, EndInv DEF Codes, Locking
  <2>3. CASE reached /\ End("OK")
    <3>1. Harmless
      BY <2>1, <2>3 DEF IInv, CommandPlace, Harmless
    <3> QED BY <2>1, <2>3, <3>1, EndInv DEF Codes
  <2>4. CASE /\ reached /\ calm # SettleSamples /\ calm' = calm + 1
             /\ UNCHANGED <<at, codeVars, late>>
    <3>1. calm' \in 0 .. SettleSamples
      BY <2>4, <1>0, SettleAssumption
    <3> QED BY <2>1, <2>4, <3>1, <1>0, GoOnInv DEF Silent
  <2>5. CASE calm' = 0 /\ UNCHANGED <<at, codeVars, late>>
    <3>1. calm' \in 0 .. SettleSamples
      BY <2>5, SettleAssumption
    <3> QED BY <2>1, <2>5, <3>1, <1>0, GoOnInv DEF Silent
  <2>6. CASE HandFails
    BY <2>1, <2>6, EndInv DEF HandFails, Codes, Locking
  <2> QED BY <1>4, <2>2, <2>3, <2>4, <2>5, <2>6 DEF HandSample
<1> QED BY <1>1, <1>2, <1>3, <1>4 DEF Hand

-----------------------------------------------------------------------------
\* An answer is one of the two, and never replaces another.
LEMMA AnswerType ==
  ASSUME reply \in [Commands -> {"none", "ok", "failed"}],
         NEW r, NEW a \in {"ok", "failed"}, Answer(r, a)
  PROVE  /\ reply' \in [Commands -> {"none", "ok", "failed"}]
         /\ \A c \in Commands : reply[c] # "none" => reply'[c] = reply[c]
         /\ \A c \in Commands : c # r => reply'[c] = reply[c]
  BY DEF Answer

\* The motion command arrives: nobody has answered it, and the job still runs
\* or has admitted that it does not know.
LEMMA MotionArrivesInv == ASSUME IInv, MotionArrives PROVE IInv'
<1>1. /\ "motion" \in wire /\ wire' \subseteq wire /\ "motion" \notin wire'
      /\ handler = "none" /\ reply["motion"] = "none" /\ ~(~sent /\ ~plan)
      /\ at \notin Early /\ at # "sampling" /\ at \notin Watching
      /\ outcome \notin Locking \cup {"none"} => plan
  BY DEF MotionArrives, Takes, IInv, CommandPlace, WorkerKnows, KnownMeansAtRest
<1>2. /\ reply' \in [Commands -> {"none", "ok", "failed"}]
      /\ plan => UNCHANGED deviceVars
  BY AnswerType DEF MotionArrives, IInv, TypeOK
<1>3. /\ moving' => moving \/ (handler' = "running" /\ ~reached')
      /\ UNCHANGED deviceVars \/ (moving' = TRUE /\ handler' = "running" /\ reached' = FALSE)
  BY DEF MotionArrives, deviceVars
<1>4. TypeOK'
  <2>1. /\ moving' \in BOOLEAN /\ reached' \in BOOLEAN
        /\ handler' \in {"none", "running", "stopped", "over"}
    BY <1>3 DEF deviceVars, IInv, TypeOK
  <2> QED BY <1>1, <1>2, <2>1
      DEF MotionArrives, World, jobVars, codeVars, IInv, TypeOK
<1>5. CommandPlace'
  BY <1>1, <1>2, <1>3
  DEF MotionArrives, World, jobVars, codeVars, deviceVars, IInv, CommandPlace
<1>6. WorkerKnows'
  BY <1>1 DEF MotionArrives, World, jobVars, codeVars, IInv, WorkerKnows, Watching
<1>7. KnownMeansAtRest' /\ SuccessMeansReached'
  BY <1>1, <1>2 DEF MotionArrives, World, jobVars, codeVars, deviceVars, IInv,
     KnownMeansAtRest, SuccessMeansReached, Locking
<1> QED BY <1>4, <1>5, <1>6, <1>7 DEF IInv

\* Whatever happens later goes towards rest and towards an answer.
LEMMA LaterInv ==
  ASSUME IInv, World, wire' \subseteq wire,
         reply' \in [Commands -> {"none", "ok", "failed"}],
         \A c \in Commands : reply[c] # "none" => reply'[c] = reply[c],
         moving' \in BOOLEAN, reached' \in BOOLEAN,
         handler' \in {"none", "running", "stopped", "over"},
         handler = "none" => /\ UNCHANGED deviceVars
                             /\ reply'["motion"] = reply["motion"],
         handler # "none" => handler' # "none",
         moving' => moving /\ handler' = handler /\ reached' = reached,
         reached => reached'
  PROVE  IInv'
<1>1. TypeOK'
  BY DEF World, jobVars, codeVars, IInv, TypeOK
<1>2. CommandPlace'
  BY DEF World, jobVars, codeVars, deviceVars, IInv, CommandPlace
<1>3. WorkerKnows'
  BY DEF World, jobVars, codeVars, IInv, WorkerKnows, Commands
<1>4. KnownMeansAtRest' /\ SuccessMeansReached'
  BY DEF World, jobVars, codeVars, IInv, KnownMeansAtRest, SuccessMeansReached
<1> QED BY <1>1, <1>2, <1>3, <1>4 DEF IInv

\* Nothing the device or the network does disturbs the invariant.
LEMMA DeviceInv == ASSUME IInv, Device PROVE IInv'
<1>0. /\ reply \in [Commands -> {"none", "ok", "failed"}]
      /\ moving \in BOOLEAN /\ reached \in BOOLEAN
      /\ handler \in {"none", "running", "stopped", "over"}
      /\ moving => handler = "running" /\ ~reached
  BY DEF IInv, TypeOK, CommandPlace
<1>1. CASE MotionArrives
  BY <1>1, MotionArrivesInv
<1>2. CASE MotionEnds
  <2>1. Answer("motion", "ok") BY <1>2 DEF MotionEnds
  <2> QED BY <1>0, <1>2, <2>1, AnswerType, LaterInv DEF MotionEnds, deviceVars
<1>3. CASE HandlerEnds
  <2>1. Answer("motion", "failed") BY <1>3 DEF HandlerEnds
  <2> QED BY <1>0, <1>3, <2>1, AnswerType, LaterInv DEF HandlerEnds, deviceVars
<1>4. CASE AnswerEarly
  <2>1. PICK a \in {"ok", "failed"} : Answer("motion", a)
    BY <1>4 DEF AnswerEarly
  <2> QED BY <1>0, <1>4, <2>1, AnswerType, LaterInv DEF AnswerEarly, deviceVars
<1>5. CASE ComeToRest
  BY <1>0, <1>5, LaterInv DEF ComeToRest, deviceVars
<1>6. ASSUME NEW r \in Requests, Halt(r) PROVE IInv'
  <2>1. Answer(r, "ok") /\ r # "motion" BY <1>6 DEF Halt
  <2>2. reply'["motion"] = reply["motion"]
    BY <1>0, <2>1, AnswerType DEF Commands
  <2> QED BY <1>0, <1>6, <2>1, <2>2, AnswerType, LaterInv DEF Halt, Takes, deviceVars
<1>7. ASSUME NEW r \in Requests, Lose(r) PROVE IInv'
  BY <1>0, <1>7, LaterInv DEF Lose, Takes, deviceVars
<1>8. ASSUME NEW r \in Requests, Coast(r) PROVE IInv'
  <2>1. Answer(r, "ok") /\ r # "motion" BY <1>8 DEF Coast
  <2>2. reply'["motion"] = reply["motion"]
    BY <1>0, <2>1, AnswerType DEF Commands
  <2> QED BY <1>0, <1>8, <2>1, <2>2, AnswerType, LaterInv DEF Coast, Takes, deviceVars
<1> QED BY <1>1, <1>2, <1>3, <1>4, <1>5, <1>6, <1>7, <1>8 DEF Device

\* The node's cancellation and the passing of time disturb nothing.
LEMMA CancelInv == ASSUME IInv, Cancel PROVE IInv'
<1>1. wire' \subseteq Requests /\ ("motion" \in wire' <=> "motion" \in wire)
  BY DEF Cancel, IInv, TypeOK, Requests, Commands
<1>2. TypeOK'
  BY <1>1 DEF Cancel, jobVars, codeVars, deviceVars, IInv, TypeOK
<1>3. CommandPlace' /\ WorkerKnows'
  BY <1>1 DEF Cancel, jobVars, codeVars, deviceVars, IInv, CommandPlace, WorkerKnows
<1>4. KnownMeansAtRest' /\ SuccessMeansReached'
  BY DEF Cancel, codeVars, KnownMeansAtRest, SuccessMeansReached
<1> QED BY <1>2, <1>3, <1>4 DEF IInv

\* The deadline only sets its flag.
LEMMA DeadlineInv == ASSUME IInv, Deadline PROVE IInv'
  BY DEF Deadline, jobVars, codeVars, deviceVars, IInv, TypeOK, CommandPlace,
         WorkerKnows, KnownMeansAtRest, SuccessMeansReached

\* Every step keeps the invariant.
LEMMA NextInv == IInv /\ [Next]_vars => IInv'
<1> SUFFICES ASSUME IInv, [Next]_vars PROVE IInv'
  OBVIOUS
<1>1. CASE Job
  BY <1>1, ArmInv, HandInv DEF Job, Frame
<1> QED BY <1>1, CancelInv, DeadlineInv, DeviceInv, Stutter DEF Next

\* The inductive invariant holds of every reachable state.
THEOREM Invariant == Safety => []IInv
<1>1. Init => IInv
  BY InitInv
<1>2. IInv /\ [Next]_vars => IInv'
  BY NextInv
<1> QED BY <1>1, <1>2, PTL DEF Safety

\* Type correctness.
THEOREM TypeCorrect == Safety => []TypeOK
<1>1. IInv => TypeOK
  BY DEF IInv
<1> QED BY <1>1, Invariant, PTL

\* http_action_backend.md: a worker that claims to know the outcome leaves a
\* device that is at rest and that nothing it sent can move any more.
THEOREM KnownOutcomesAreSafe == Safety => []KnownMeansAtRest
<1>1. IInv => KnownMeansAtRest
  BY DEF IInv
<1> QED BY <1>1, Invariant, PTL

\* A motion that was not at its target is never reported as a success.
THEOREM SuccessIsReal == Safety => []SuccessMeansReached
<1>1. IInv => SuccessMeansReached
  BY DEF IInv
<1> QED BY <1>1, Invariant, PTL

-----------------------------------------------------------------------------
\* What a job that has yet to report does not do.
LEMMA NoReport ==
  /\ \A c : ConfirmStop(c) => UNCHANGED outcome
  /\ sent /\ AfterError => UNCHANGED outcome
  /\ sent /\ AfterStopRequest => UNCHANGED outcome
  /\ sent /\ AfterReportedFailure => UNCHANGED outcome
  BY DEF ConfirmStop, AfterError, AfterStopRequest, AfterReportedFailure, codeVars

\* Without its command sent, a job ends as one that sent nothing may.
LEMMA UnsentReport ==
  ASSUME ~sent, kind = "arm", outcome = "none", outcome' # "none",
         \/ AfterError \/ AfterReportedFailure \/ (cancel /\ AfterStopRequest)
  PROVE  outcome' \in Unsent(kind, cancel)
  BY DEF AfterError, AfterReportedFailure, AfterStopRequest, End, Unsent

\* The report of every step of the job.
LEMMA JobReports ==
  ASSUME IInv, Job, outcome = "none", outcome' # "none"
  PROVE  outcome' \in IF sent THEN Sent(kind, cancel, "motion" \in wire, ~moving)
                      ELSE Unsent(kind, cancel)
<1>1. sent \in BOOLEAN /\ cancel \in BOOLEAN /\ moving \in BOOLEAN
  BY DEF IInv, TypeOK
<1>2. CASE Start \/ Prepare \/ ReadMotors \/ Launch
  <2>1. ~sent /\ kind = "arm"
    BY <1>2, EarlyUnsent DEF Start, Prepare, ReadMotors, Launch, Early, IInv, CommandPlace
  <2>2. \/ AfterError \/ AfterReportedFailure \/ (cancel /\ AfterStopRequest)
    <3>1. UNCHANGED codeVars => outcome' = outcome
      BY DEF codeVars
    <3>2. Interrupted => AfterError \/ (cancel /\ AfterStopRequest)
      BY DEF Interrupted
    <3>3. CASE Start
      BY <3>1, <3>2, <3>3, Zenon DEF Start
    <3>4. CASE Prepare
      BY <3>1, <3>2, <3>4, Zenon DEF Prepare
    <3>5. CASE ReadMotors
      BY <3>1, <3>5, Zenon DEF ReadMotors
    <3>6. CASE Launch
      BY <3>1, <3>2, <3>6, Zenon DEF Launch
    <3> QED BY <1>2, <3>3, <3>4, <3>5, <3>6
  <2> QED BY <2>1, <2>2, UnsentReport
<1>3. CASE Answered
  <2>1. kind = "arm"
    BY <1>3 DEF Answered
  <2>2. CASE ~sent
    <3>1. CASE Clear /\ End("OK")
      BY <2>1, <2>2, <3>1 DEF End, Clear, Unsent
    <3>2. CASE \/ AfterError \/ AfterReportedFailure \/ (cancel /\ AfterStopRequest)
      BY <2>1, <2>2, <3>2, UnsentReport
    <3>3. ~plan => reply["motion"] = "none"
      BY <2>2 DEF IInv, CommandPlace
    <3>4. Interrupted => AfterError \/ (cancel /\ AfterStopRequest)
      BY DEF Interrupted
    <3>5. reply["motion"] = "ok" => plan
      BY <3>3
    <3> QED BY <1>3, <3>1, <3>2, <3>4, <3>5, Zenon DEF Answered
  <2>3. CASE sent
    BY <1>3, <2>3, NoReport DEF Answered, Interrupted, codeVars, IInv, CommandPlace
  <2> QED BY <2>2, <2>3, <1>1
<1>4. CASE Settle
  <2>1. kind = "arm" /\ sent /\ Harmless /\ ~plan
    BY <1>4, FullWindow DEF Settle, IInv, WorkerKnows, Watching, CommandPlace
  <2>2. CASE at = "confirming"
    <3>1. outcome' = then /\ then \in {"CANCELED", "EXECUTION_FAILED"}
      BY <1>4, <2>2 DEF Settle, End, IInv, TypeOK, WorkerKnows, Watching
    <3>2. then = "CANCELED" => cancel
      BY <2>2 DEF IInv, WorkerKnows, Watching
    <3> QED BY <2>1, <3>1, <3>2, <1>1 DEF Sent, Settled, Harmless
  <2>3. CASE at # "confirming"
    <3>1. outcome' = "OK" /\ ~cancel
      BY <1>4, <2>1, <2>3, NoReport DEF Settle, Interrupted, Clear, End
    <3> QED BY <2>1, <3>1 DEF Sent, Settled, Harmless
  <2> QED BY <2>2, <2>3
<1>5. CASE LeaveSampling
  BY <1>5, NoReport DEF LeaveSampling, IInv, WorkerKnows
<1>6. CASE StopInDoubt
  <2>1. sent /\ kind = "arm" /\ "motion" \notin wire /\ outcome' = "STOP_UNCONFIRMED"
    BY <1>6 DEF StopInDoubt, End, IInv, WorkerKnows, Watching, CommandPlace
  <2> QED BY <2>1 DEF Sent
<1>7. CASE Abandon
  BY <1>7 DEF Abandon, End, IInv, WorkerKnows, Sent
<1>8. CASE Sample \/ PostStop \/ StopAnswered
  BY <1>8 DEF Sample, PostStop, StopAnswered, codeVars
<1>9. CASE HandStart \/ HandLaunch
  <2>1. ~sent /\ kind = "hand"
    BY <1>9, EarlyUnsent DEF HandStart, HandLaunch, Early
  <2> QED BY <1>9, <2>1 DEF HandStart, HandLaunch, HandFails, End, Unsent, codeVars
<1>10. CASE HandAnswered
  <2>1. HandFails
    BY <1>10 DEF HandAnswered, codeVars
  <2>2. CASE sent
    BY <2>1, <2>2 DEF HandFails, End, Sent
  <2>3. CASE ~sent
    BY <2>1, <2>3 DEF HandFails, End, Unsent
  <2> QED BY <2>2, <2>3
<1>11. CASE HandSample
  <2>1. /\ sent /\ kind = "hand" /\ "motion" \notin wire /\ (reached => ~moving)
    BY <1>11 DEF HandSample, IInv, WorkerKnows, CommandPlace
  <2>2. \/ outcome' = "STOP_UNCONFIRMED" /\ cancel
        \/ outcome' = "OK" /\ reached
        \/ outcome' = "RESULT_UNKNOWN"
    BY <1>11, <2>1 DEF HandSample, HandFails, End, codeVars
  <2> QED BY <2>1, <2>2 DEF Sent, Settled
<1> QED BY <1>2, <1>3, <1>4, <1>5, <1>6, <1>7, <1>8, <1>9, <1>10, <1>11
        DEF Job, Arm, Hand

\* The node may rely on WorkerOutcomes: no job reports anything else.
THEOREM ReportsAreAsPromised == Safety => ReportsAsPromised
<1>1. IInv /\ [Next]_vars =>
        [outcome = "none" /\ outcome' # "none" =>
           outcome' \in IF sent THEN Sent(kind, cancel, "motion" \in wire, ~moving)
                        ELSE Unsent(kind, cancel)]_vars
  <2> SUFFICES ASSUME IInv, Next, outcome = "none", outcome' # "none"
               PROVE  outcome' \in IF sent THEN Sent(kind, cancel, "motion" \in wire, ~moving)
                                   ELSE Unsent(kind, cancel)
    OBVIOUS
  <2>1. CASE Job
    BY <2>1, JobReports
  <2>2. CASE Cancel \/ Deadline \/ Device
    BY <2>2 DEF Cancel, Deadline, Device, MotionArrives, MotionEnds, HandlerEnds,
       AnswerEarly, ComeToRest, Halt, Lose, Coast, World, codeVars
  <2> QED BY <2>1, <2>2 DEF Next
<1>2. Safety => [][Next]_vars
  BY PTL DEF Safety
<1> QED BY <1>1, <1>2, Invariant, PTL DEF ReportsAsPromised
=============================================================================
