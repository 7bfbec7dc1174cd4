----------------------------- MODULE HttpWorker -----------------------------
(***************************************************************************)
(* class HttpWorker of zzx_http_backend (worker.py): one goal's job, in a  *)
(* pool thread, with the device it commands over HTTP.                     *)
(*                                                                         *)
(* Every request may be lost, delivered late or answered late, and the     *)
(* worker may time out on any of them; what was sent may then still be     *)
(* executed.  The device behaves as the repository's fake server does      *)
(* (fake.py), but also as the protocol allows a real one to: its answer to *)
(* a motion may come before the motion ended, and its answer to a stop     *)
(* before it stopped.  Time is known by whether the deadline at hand       *)
(* passed; a settling window is a number of consecutive quiet samples.     *)
(***************************************************************************)
EXTENDS WorkerOutcomes, Naturals

CONSTANT SettleSamples   \* quiet samples that fill the settling window

ASSUME SettleAssumption == SettleSamples \in Nat \ {0}

VARIABLES
  kind,      \* which of the two procedures: "arm" or "hand"
  plan,      \* goal.plan_only
  at,        \* where the procedure is
  prepared,  \* how many preparation requests were answered
  sent,      \* the procedure's own variable
  cancel,    \* the cancel event, set by the node
  late,      \* the deadline at hand has passed
  calm,      \* quiet samples in a row
  then,      \* the code to report when the stop is confirmed
  outcome,   \* the code reported; "none" while the job runs
  wire,      \* requests under way
  reply,     \* the answer to each request, once it was given
  moving,    \* the device executes a motion
  handler,   \* the server's handler of the motion
  reached    \* the device is at the goal's target

jobVars == <<kind, plan, prepared>>
codeVars == <<then, outcome>>
deviceVars == <<moving, handler, reached>>
vars == <<kind, plan, at, prepared, sent, cancel, late, calm, then, outcome,
          wire, reply, moving, handler, reached>>

\* "besteffort" is the stop the node sends when the goal is canceled, and
\* "stray" one it sent for an earlier goal and that is still under way.
Commands == {"motion", "stop"}
Requests == Commands \cup {"besteffort", "stray"}

\* The device at the start: at rest, perhaps at the goal's target already.
DeviceInit == moving = FALSE /\ handler = "none" /\ reached \in BOOLEAN

Init ==
  /\ kind \in {"arm", "hand"}
  /\ plan \in BOOLEAN /\ (plan => kind = "arm")
  /\ at = "starting" /\ prepared = 0 /\ sent = FALSE
  /\ cancel = FALSE /\ late = FALSE /\ calm = 0
  /\ then = "none" /\ outcome = "none"
  /\ wire \in SUBSET {"stray"}
  /\ reply = [c \in Commands |-> "none"]
  /\ DeviceInit

-----------------------------------------------------------------------------
\* How the procedure goes on after an exception.

End(c) == /\ at' = "done" /\ outcome' = c
          /\ UNCHANGED <<then, calm, late>>

\* confirm_arm_stop: its own deadline, a stop request, then samples.
ConfirmStop(c) == /\ at' = "stopping" /\ then' = c /\ late' = FALSE /\ calm' = 0
                  /\ UNCHANGED outcome

\* except StopRequested.
AfterStopRequest == IF sent THEN ConfirmStop("CANCELED") ELSE End("CANCELED")

\* except ReportedFailure: a failure that was reported proves nothing either.
\* Mutant: it is taken at its word.
BelieveFailure == End(IF sent THEN "EXECUTION_FAILED" ELSE "BACKEND_REJECTED")

AfterReportedFailure ==
  IF sent THEN ConfirmStop(IF cancel THEN "CANCELED" ELSE "EXECUTION_FAILED")
          ELSE End("BACKEND_REJECTED")

\* except Exception: a motion command without an answer may still arrive, so
\* the stop that is sent now proves nothing.
\* Mutant: the stop is waited for and believed.
BelieveStop ==
  IF sent THEN ConfirmStop("EXECUTION_FAILED") ELSE End("BACKEND_UNAVAILABLE")

AfterError ==
  IF sent
  THEN /\ at' = "abandoning" /\ late' = FALSE
       /\ UNCHANGED <<codeVars, calm>>
  ELSE End("BACKEND_UNAVAILABLE")

\* checkpoint, where the procedure would go on to do Step.
Clear == ~cancel /\ ~late
Interrupted == \/ cancel /\ AfterStopRequest
               \/ ~cancel /\ late /\ AfterError

Post(c) == wire' = wire \cup {c}
Still == UNCHANGED <<wire, reply, sent>>

-----------------------------------------------------------------------------
\* arm: preparation.  A goal that only asks for a plan has none.
Start == /\ at = "starting" /\ kind = "arm"
         /\ \/ /\ Clear
               /\ at' = IF plan THEN "launching" ELSE "preparing"
               /\ UNCHANGED <<codeVars, calm, late>>
            \/ Interrupted
         /\ UNCHANGED prepared /\ Still

\* One of the three requests, its checkpoint and its answer.
\* Mutant: one more.
PrepareOnceMore == /\ at = "preparing" /\ kind = "arm" /\ prepared <= 3
                   /\ Clear
                   /\ prepared' = prepared + 1
                   /\ UNCHANGED <<at, codeVars, calm, late>> /\ Still

Prepare == /\ at = "preparing" /\ kind = "arm" /\ prepared < 3
           /\ \/ /\ Clear
                 /\ \/ prepared' = prepared + 1 /\ UNCHANGED <<at, codeVars, calm, late>>
                    \/ AfterReportedFailure /\ UNCHANGED prepared
                    \/ AfterError /\ UNCHANGED prepared
              \/ Interrupted /\ UNCHANGED prepared
           /\ Still

\* The motors are read, and must be enabled and free of faults.
ReadMotors == /\ at = "preparing" /\ kind = "arm" /\ prepared = 3
              /\ \/ at' = "launching" /\ UNCHANGED <<codeVars, calm, late>>
                 \/ AfterReportedFailure
                 \/ AfterError
              /\ UNCHANGED prepared /\ Still

\* The motion command, sent once.
Launch == /\ at = "launching" /\ kind = "arm"
          /\ \/ /\ Clear
                /\ sent' = ~plan
                /\ Post("motion")
                /\ at' = "waiting"
                /\ UNCHANGED <<codeVars, calm, late, reply>>
             \/ Interrupted /\ Still
          /\ UNCHANGED prepared

Answered == /\ at = "waiting" /\ kind = "arm"
            /\ \/ /\ reply["motion"] = "ok"
                  /\ \/ /\ Clear
                        /\ IF plan THEN End("OK")
                           ELSE /\ at' = "sampling" /\ calm' = 0
                                /\ UNCHANGED <<codeVars, late>>
                     \/ Interrupted
               \/ reply["motion"] = "failed" /\ AfterReportedFailure
               \/ AfterError
            /\ UNCHANGED prepared /\ Still

-----------------------------------------------------------------------------
\* arm_samples: a sample is quiet when the device says it does not move, no
\* joint moved since the sample before, and (for a motion) it is on target.
\* Mutant: any quiet place will do.
QuietAnywhere == ~moving
Quiet == ~moving /\ (at = "sampling" => reached)

\* Two samples that are far apart, or the first one, are not quiet.
Sampled == calm' \in IF Quiet THEN {0, calm + 1} ELSE {0}

Sample == /\ at \in {"sampling", "confirming"} /\ kind = "arm"
          /\ ~late /\ (at = "sampling" => ~cancel)
          /\ calm < SettleSamples
          /\ Sampled
          /\ UNCHANGED <<at, prepared, codeVars, late>> /\ Still

\* The window is full.
Settle == /\ at \in {"sampling", "confirming"} /\ kind = "arm"
          /\ calm = SettleSamples
          /\ IF at = "confirming" THEN End(then)
             ELSE \/ Clear /\ End("OK")
                  \/ Interrupted
          /\ UNCHANGED prepared /\ Still

\* The loop of a motion is left by the event, the deadline or bad feedback.
LeaveSampling == /\ at = "sampling" /\ kind = "arm" /\ calm < SettleSamples
                 /\ \/ cancel /\ ~late /\ AfterStopRequest
                    \/ AfterError
                 /\ UNCHANGED prepared /\ Still

\* confirm_arm_stop.
PostStop == /\ at = "stopping"
            /\ Post("stop") /\ at' = "stop_sent"
            /\ UNCHANGED <<prepared, codeVars, calm, late, reply, sent>>

StopAnswered == /\ at = "stop_sent" /\ reply["stop"] = "ok"
                /\ at' = "confirming" /\ calm' = 0
                /\ UNCHANGED <<prepared, codeVars, late>> /\ Still

\* Any exception on the way: a timeout, a refusal, bad feedback.
\* Mutant: once the stop is answered there is no deadline any more.
StopInDoubtUnanswered == /\ at = "stop_sent"
                         /\ End("STOP_UNCONFIRMED")
                         /\ UNCHANGED prepared /\ Still

StopInDoubt == /\ at \in {"stop_sent", "confirming"}
               /\ End("STOP_UNCONFIRMED")
               /\ UNCHANGED prepared /\ Still

\* The best-effort stop after an error, whatever becomes of it.
Abandon == /\ at = "abandoning"
           /\ Post("stop")
           /\ End("RESULT_UNKNOWN")
           /\ UNCHANGED <<prepared, reply, sent>>

-----------------------------------------------------------------------------
\* hand: the pose is read, the overrides posted, the readback compared.
HandFails == End(IF sent THEN "RESULT_UNKNOWN" ELSE "BACKEND_UNAVAILABLE")

HandStart == /\ at = "starting" /\ kind = "hand"
             /\ \/ cancel /\ End("CANCELED")
                \/ ~cancel /\ at' = "launching" /\ UNCHANGED <<codeVars, calm, late>>
                \/ ~cancel /\ HandFails
             /\ UNCHANGED prepared /\ Still

HandLaunch == /\ at = "launching" /\ kind = "hand"
              /\ \/ cancel /\ End("CANCELED") /\ Still
                 \/ /\ ~cancel
                    /\ sent' = TRUE /\ Post("motion") /\ at' = "waiting"
                    /\ UNCHANGED <<codeVars, calm, late, reply>>
              /\ UNCHANGED prepared

HandAnswered == /\ at = "waiting" /\ kind = "hand"
                /\ \/ /\ reply["motion"] = "ok"
                      /\ at' = "sampling" /\ calm' = 0
                      /\ UNCHANGED <<codeVars, late>>
                   \/ HandFails
                /\ UNCHANGED prepared /\ Still

HandSample == /\ at = "sampling" /\ kind = "hand"
              /\ \/ /\ ~late /\ cancel
                    /\ End("STOP_UNCONFIRMED")
                 \/ /\ ~late /\ ~cancel /\ reached
                    /\ IF calm = SettleSamples THEN End("OK")
                       ELSE calm' = calm + 1 /\ UNCHANGED <<at, codeVars, late>>
                 \/ /\ ~late /\ ~cancel /\ ~reached
                    /\ calm' = 0 /\ UNCHANGED <<at, codeVars, late>>
                 \/ HandFails
              /\ UNCHANGED prepared /\ Still

Arm == \/ Start \/ Prepare \/ ReadMotors \/ Launch \/ Answered \/ Sample
       \/ Settle \/ LeaveSampling \/ PostStop \/ StopAnswered \/ StopInDoubt
       \/ Abandon
Hand == HandStart \/ HandLaunch \/ HandAnswered \/ HandSample

Job == (Arm \/ Hand) /\ UNCHANGED <<kind, plan, cancel, deviceVars>>

-----------------------------------------------------------------------------
\* The node cancels the goal; an arm is also told to stop.
Cancel == /\ ~cancel /\ outcome = "none"
          /\ cancel' = TRUE
          /\ wire' = IF kind = "arm" THEN wire \cup {"besteffort"} ELSE wire
          /\ UNCHANGED <<jobVars, at, sent, late, calm, codeVars, reply, deviceVars>>

Deadline == /\ ~late /\ outcome = "none"
            /\ late' = TRUE
            /\ UNCHANGED <<jobVars, at, sent, cancel, calm, codeVars, wire,
                           reply, deviceVars>>

World == UNCHANGED <<jobVars, at, sent, cancel, late, calm, codeVars>>
Takes(r) == r \in wire /\ wire' = wire \ {r}

\* A request has one answer.
Answer(r, a) ==
  reply' = IF r \in Commands /\ reply[r] = "none" THEN [reply EXCEPT ![r] = a]
           ELSE reply

\* The motion command arrives and is refused, planned, or begun.
MotionArrives ==
  /\ Takes("motion") /\ World
  /\ \/ Answer("motion", "failed") /\ UNCHANGED deviceVars
     \/ plan /\ Answer("motion", "ok") /\ UNCHANGED deviceVars
     \/ /\ ~plan
        /\ moving' = TRUE /\ handler' = "running" /\ reached' = FALSE
        /\ UNCHANGED reply

\* The motion ends on target, and its handler answers.
MotionEnds ==
  /\ moving /\ handler = "running" /\ World
  /\ moving' = FALSE /\ handler' = "over" /\ reached' = TRUE
  /\ Answer("motion", "ok")
  /\ UNCHANGED wire

\* A stop ends the motion short of its target; its own answer follows.
Halt(r) ==
  /\ r \in Requests \ {"motion"} /\ Takes(r) /\ World
  /\ moving' = FALSE
  /\ handler' = IF handler = "running" THEN "stopped" ELSE handler
  /\ Answer(r, "ok")
  /\ UNCHANGED reached

\* The handler of a motion that was stopped reports it as failed.
HandlerEnds ==
  /\ handler = "stopped" /\ World
  /\ handler' = "over"
  /\ Answer("motion", "failed")
  /\ UNCHANGED <<moving, reached, wire>>

\* A request is lost, and so is its answer.
Lose(r) == /\ Takes(r) /\ World
           /\ UNCHANGED <<reply, deviceVars>>

\* A device other than the fake one answers a motion that goes on, answers a
\* stop before it stopped, and comes to rest anywhere.
AnswerEarly == /\ moving /\ World
               /\ \E a \in {"ok", "failed"} : Answer("motion", a)
               /\ UNCHANGED <<wire, deviceVars>>

Coast(r) == /\ r \in Requests \ {"motion"} /\ Takes(r) /\ World
            /\ Answer(r, "ok")
            /\ UNCHANGED deviceVars

ComeToRest == /\ moving /\ World
              /\ moving' = FALSE /\ handler' = "over"
              /\ UNCHANGED <<reached, reply, wire>>

Device == \/ MotionArrives \/ MotionEnds \/ HandlerEnds \/ AnswerEarly \/ ComeToRest
          \/ \E r \in Requests : Halt(r) \/ Lose(r) \/ Coast(r)

Next == Job \/ Cancel \/ Deadline \/ Device

\* The pool thread runs and time passes.  The node, the network and the
\* device promise nothing.
Fairness == WF_vars(Job) /\ WF_vars(Deadline)

Safety == Init /\ [][Next]_vars
Spec == Safety /\ Fairness

-----------------------------------------------------------------------------
TypeOK ==
  /\ kind \in {"arm", "hand"} /\ plan \in BOOLEAN
  /\ at \in {"starting", "preparing", "launching", "waiting", "sampling",
             "stopping", "stop_sent", "confirming", "abandoning", "done"}
  /\ prepared \in 0 .. 3 /\ sent \in BOOLEAN
  /\ cancel \in BOOLEAN /\ late \in BOOLEAN
  /\ calm \in 0 .. SettleSamples
  /\ then \in {"none", "CANCELED", "EXECUTION_FAILED"}
  /\ outcome \in Codes \cup {"none"}
  /\ wire \subseteq Requests
  /\ reply \in [Commands -> {"none", "ok", "failed"}]
  /\ moving \in BOOLEAN /\ handler \in {"none", "running", "stopped", "over"}
  /\ reached \in BOOLEAN

\* http_action_backend.md: a result that claims to know the outcome is given
\* only when the device is at rest for good: nothing this goal sent can still
\* make it move.
KnownMeansAtRest ==
  outcome \notin Locking \cup {"none"} =>
    ~moving /\ ("motion" \in wire => plan)

\* http_action_backend.md: a motion succeeds only at its target.
SuccessMeansReached == outcome = "OK" /\ ~plan => reached

\* The worker reports what WorkerOutcomes allows at the moment it does, which
\* is all its node relies on.
ReportsAsPromised ==
  [][outcome = "none" /\ outcome' # "none" =>
       outcome' \in IF sent THEN Sent(kind, cancel, "motion" \in wire, ~moving)
                    ELSE Unsent(kind, cancel)]_vars

\* Every wait has a deadline: a job ends, whatever the device does.
EveryJobEnds == outcome = "none" ~> outcome # "none"
=============================================================================
