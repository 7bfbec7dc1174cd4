-------------------------- MODULE HttpActionBackend -------------------------
(***************************************************************************)
(* The lifecycle node that serves arm and hand actions over HTTP           *)
(* (zzx_http_backend/node.py), with its clients, its worker pool and the   *)
(* two devices.                                                            *)
(*                                                                         *)
(* Callbacks run on four executor threads; what a callback does under the  *)
(* node's lock is one step, and what it does outside the lock is a step of *)
(* its own.  A worker (HttpWorker) is known here by the outcomes it may    *)
(* report (WorkerOutcomes) and the state of the device when it does.  Time *)
(* is known by whether the last device check is still fresh.               *)
(***************************************************************************)
EXTENDS WorkerOutcomes, Naturals

CONSTANTS
  ArmGoals, HandGoals,  \* goal handles, each sent once
  NoGoal,               \* an empty place in pending
  MaxConfigurations     \* a bound: how often the node is configured

Goals == ArmGoals \cup HandGoals
Kinds == {"arm", "hand"}
Kind(g) == IF g \in ArmGoals THEN "arm" ELSE "hand"

ASSUME NodeAssumption == /\ NoGoal \notin Goals /\ ArmGoals \cap HandGoals = {}
                         /\ MaxConfigurations \in Nat

VARIABLES
  lifecycle,    \* the ROS lifecycle state, or "exited"
  gate,         \* active_gate
  configured,   \* configured
  ready,        \* ready
  fresh,        \* last_probe is not older than 1.5 s
  probeMoving,  \* probe_moving
  epoch,        \* readiness_epoch
  probe,        \* probe_job with its probe_epoch, and (history) the
                \* configuration it was begun under
  configuration, \* history: how often the node was configured
  evidence,     \* history: the configuration of the last check that was applied
  busy,         \* busy
  latched,      \* latched
  pending,      \* whose entry is in pending
  phase,        \* where each goal is between its callbacks and its coroutine
  cancel,       \* the cancel event of each goal's entry
  job,          \* the worker job of each goal
  outcome,      \* the error code the coroutine holds
  status,       \* the action state of each goal
  asked,        \* goals whose cancel callback accepted and rclpy has yet to act
  stops,        \* goals whose best-effort stop request is under way
  wire,         \* goals whose motion command is under way
  moving        \* devices in motion

confVars == <<configured, epoch, configuration>>
lifeVars == <<lifecycle, gate, confVars>>
probeVars == <<ready, fresh, probeMoving, probe, evidence>>
goalVars == <<phase, job, outcome>>
deviceVars == <<wire, moving>>
vars == <<lifecycle, gate, configured, epoch, configuration, ready, fresh,
          probeMoving, probe, evidence, busy, latched, pending, phase,
          cancel, job, outcome, status, asked, stops, wire, moving>>

InFlight == {"executing", "canceling"}
Terminal == {"succeeded", "canceled", "aborted", "rejected"}

NoProbe == [at |-> "none"]
Running == [at : {"running"}, epoch : Nat, under : Nat]
Finished == [at : {"done"}, epoch : Nat, under : Nat,
             valid : BOOLEAN, moving : BOOLEAN]

Init ==
  /\ lifecycle = "unconfigured" /\ gate = FALSE /\ configured = FALSE
  /\ epoch = 0 /\ configuration = 0 /\ evidence = 0
  /\ ready = FALSE /\ fresh = FALSE /\ probeMoving = FALSE /\ probe = NoProbe
  /\ busy = [k \in Kinds |-> FALSE] /\ latched = [k \in Kinds |-> FALSE]
  /\ pending = [k \in Kinds |-> NoGoal]
  /\ phase = [g \in Goals |-> "new"]
  /\ cancel = [g \in Goals |-> FALSE]
  /\ job = [g \in Goals |-> "none"]
  /\ outcome = [g \in Goals |-> "none"]
  /\ status = [g \in Goals |-> "unsent"]
  /\ asked = {} /\ stops = {} /\ wire = {} /\ moving = {}

-----------------------------------------------------------------------------
AnyBusy == \E k \in Kinds : busy[k]
AnyLatched == \E k \in Kinds : latched[k]

\* Mutant: nothing supersedes the checks under way.  (One of the two bumps, in
\* on_configure or in on_cleanup, would do.)
SameEpoch == epoch
NextEpoch == epoch + 1

\* self.cancel(kind, handle) for a set of registered goals.
SetCancel(gs) ==
  LET new == {g \in gs : ~cancel[g]}
  IN /\ cancel' = [g \in Goals |-> cancel[g] \/ g \in gs]
     /\ stops' = stops \cup (new \cap ArmGoals)

Registered == {pending[k] : k \in Kinds} \ {NoGoal}

Configure ==
  /\ lifecycle = "unconfigured" /\ lifecycle' = "inactive"
  /\ configuration < MaxConfigurations /\ configuration' = configuration + 1
  /\ configured' = TRUE /\ ready' = FALSE /\ fresh' = FALSE
  /\ epoch' = NextEpoch
  /\ UNCHANGED <<gate, probeMoving, probe, evidence, busy, latched, pending, goalVars, cancel,
                 status, asked, stops, deviceVars>>

\* Otherwise on_activate fails and the node stays inactive.
MayActivate == ready /\ fresh /\ ~probeMoving /\ ~AnyBusy /\ ~AnyLatched

Activate ==
  /\ lifecycle = "inactive" /\ MayActivate
  /\ lifecycle' = "active" /\ gate' = TRUE
  /\ UNCHANGED <<confVars, probeVars, busy, latched, pending, goalVars,
                 cancel, status, asked, stops, deviceVars>>

\* on_deactivate; on_shutdown does the same in any state.
Deactivate(to) ==
  /\ lifecycle' = to /\ gate' = FALSE
  /\ SetCancel(Registered)
  /\ UNCHANGED <<confVars, probeVars, busy, latched, pending, goalVars,
                 status, asked, deviceVars>>

Cleanup ==
  /\ lifecycle = "inactive" /\ ~AnyBusy
  /\ lifecycle' = "unconfigured"
  /\ configured' = FALSE /\ ready' = FALSE /\ gate' = FALSE
  /\ epoch' = NextEpoch
  /\ UNCHANGED <<configuration, fresh, probeMoving, probe, evidence, busy, latched, pending, goalVars, cancel,
                 status, asked, stops, deviceVars>>

Exited == lifecycle = "exited"

\* The process is interrupted: the executor takes up no callback any more, and
\* close cancels what is registered without a stop request.  The pool drops
\* jobs it has not begun and waits for the others, whose results go nowhere.
Exit ==
  /\ ~Exited /\ lifecycle' = "exited"
  /\ gate' = FALSE /\ configured' = FALSE
  /\ cancel' = [g \in Goals |-> cancel[g] \/ g \in Registered]
  /\ \E dropped \in SUBSET {g \in Goals : job[g] = "queued"} :
       job' = [g \in Goals |-> IF g \in dropped THEN "none" ELSE job[g]]
  /\ UNCHANGED <<epoch, configuration, probeVars, busy, latched, pending, phase,
                 outcome, status, asked, stops, deviceVars>>

Operate == \/ Configure \/ Activate \/ Cleanup \/ Exit
           \/ lifecycle = "active" /\ Deactivate("inactive")
           \/ lifecycle # "finalized" /\ ~Exited /\ Deactivate("finalized")

-----------------------------------------------------------------------------
\* The worker pool reads the devices; the answer waits for the timer.
ProbeRead ==
  /\ probe.at = "running"
  /\ \E valid \in BOOLEAN :
       probe' = [at |-> "done", epoch |-> probe.epoch, under |-> probe.under,
                 valid |-> valid, moving |-> valid /\ "arm" \in moving]
  /\ UNCHANGED <<lifeVars, ready, fresh, probeMoving, evidence, busy, latched, pending,
                 goalVars, cancel, status, asked, stops, deviceVars>>

\* More than 1.5 s went by since the last check was applied.
Age == /\ fresh /\ fresh' = FALSE
       /\ UNCHANGED <<lifeVars, ready, probeMoving, probe, evidence, busy, latched,
                      pending, goalVars, cancel, status, asked, stops, deviceVars>>

\* check_readiness up to the decision: an answer to a check of an older epoch is
\* dropped, and readiness needs freshness, no legacy controller, no latch.
Applies == probe.at = "done" /\ configured /\ probe.epoch = epoch

Judged(legacy, isFresh) ==
  /\ IF Applies THEN probe.valid ELSE ready
  /\ configured => isFresh
  /\ ~legacy /\ ~AnyLatched

\* Results of finished jobs go to the waiting coroutines.
\* Mutant: only while the gate is open.
HandsOverWhileActive(g) == phase[g] = "awaiting" /\ job[g] = "ended" /\ gate
HandsOver(g) == phase[g] = "awaiting" /\ job[g] = "ended"

\* The timer: readiness, the deactivation it may call for, and the results.  (A
\* job that raised gets INTERNAL here, an outcome that locks: it stands with the
\* locking codes, one of which Report may always choose.)
Tick ==
  /\ ~Exited
  /\ \E legacy, due \in BOOLEAN :
       /\ fresh' = (fresh \/ Applies)
       /\ probeMoving' = IF Applies THEN probe.moving ELSE probeMoving
       /\ probe' = IF configured /\ due /\ probe.at # "running"
                   THEN [at |-> "running", epoch |-> epoch, under |-> configuration]
                   ELSE IF probe.at = "done" THEN NoProbe ELSE probe
       /\ evidence' = IF Applies THEN probe.under ELSE evidence
       /\ ready' = Judged(legacy, fresh')
       /\ IF gate /\ ~ready'
          THEN lifecycle' = "inactive" /\ gate' = FALSE /\ SetCancel(Registered)
          ELSE UNCHANGED <<lifecycle, gate, cancel, stops>>
       /\ phase' = [g \in Goals |-> IF HandsOver(g) THEN "resumed" ELSE phase[g]]
       /\ UNCHANGED <<confVars, busy, latched, pending, job, outcome, status,
                      asked, deviceVars>>

-----------------------------------------------------------------------------
\* admit, in the goal callback.
\* Mutants: a reserved device, or a latched one, is admitted to.
AdmissibleBusy(k) == gate /\ ready /\ fresh /\ ~latched[k]
AdmissibleLatched(k) == gate /\ ready /\ fresh /\ ~busy[k]
Admissible(k) == gate /\ ready /\ fresh /\ ~busy[k] /\ ~latched[k]

Admit(g) ==
  /\ status[g] = "unsent" /\ Admissible(Kind(g))
  /\ busy' = [busy EXCEPT ![Kind(g)] = TRUE]
  /\ status' = [status EXCEPT ![g] = "executing"]
  /\ phase' = [phase EXCEPT ![g] = "admitted"]
  /\ UNCHANGED <<lifeVars, probeVars, latched, pending, cancel, job, outcome,
                 asked, stops, deviceVars>>

Reject(g) ==
  /\ status[g] = "unsent" /\ ~Exited /\ ~Admissible(Kind(g))
  /\ status' = [status EXCEPT ![g] = "rejected"]
  /\ UNCHANGED <<lifeVars, probeVars, busy, latched, pending, goalVars, cancel,
                 asked, stops, deviceVars>>

\* accept, in the callback that follows: the goal gets its entry.
Accept(g) ==
  /\ phase[g] = "admitted"
  /\ pending' = [pending EXCEPT ![Kind(g)] = g]
  /\ phase' = [phase EXCEPT ![g] = "registered"]
  /\ UNCHANGED <<lifeVars, probeVars, busy, latched, cancel, job, outcome,
                 status, asked, stops, deviceVars>>

\* The cancel callback accepts for a registered goal; a goal without an entry
\* is refused.  rclpy turns the goal to canceling afterwards, if it still can.
CancelGoal(g) ==
  /\ status[g] = "executing" /\ g \in Registered /\ g \notin asked /\ ~Exited
  /\ SetCancel({g})
  /\ asked' = asked \cup {g}
  /\ UNCHANGED <<lifeVars, probeVars, busy, latched, pending, goalVars, status,
                 deviceVars>>

ApplyCancel(g) ==
  /\ g \in asked
  /\ asked' = asked \ {g}
  /\ status' = IF status[g] = "executing"
               THEN [status EXCEPT ![g] = "canceling"] ELSE status
  /\ UNCHANGED <<lifeVars, probeVars, busy, latched, pending, goalVars, cancel,
                 stops, deviceVars>>

-----------------------------------------------------------------------------
\* What validate_arm and validate_hand have against a goal: its target is of a
\* kind nobody implements, or a name, a number or the timeout is wrong.
Invalidity == {"UNSUPPORTED", "INVALID_ARGUMENT"}

\* execute begins: a goal that does not validate has its outcome at once, the
\* others become a job of the pool.
Begin(g) ==
  /\ phase[g] = "registered" /\ ~Exited
  /\ \/ /\ phase' = [phase EXCEPT ![g] = "resumed"]
        /\ \E c \in Invalidity : outcome' = [outcome EXCEPT ![g] = c]
        /\ UNCHANGED job
     \/ /\ phase' = [phase EXCEPT ![g] = "awaiting"]
        /\ job' = [job EXCEPT ![g] = "queued"]
        /\ UNCHANGED outcome
  /\ UNCHANGED <<lifeVars, probeVars, busy, latched, pending, cancel, status,
                 asked, stops, deviceVars>>

\* Outside the lock (and, like what follows, to its end even if the process is
\* about to exit): a success whose entry was canceled is taken back, and a
\* stop nobody asked the action for is a failure.
Reviewed(g, c) ==
  IF cancel[g] /\ c = "OK" THEN "STOP_UNCONFIRMED"
  ELSE IF c = "CANCELED" /\ status[g] # "canceling" THEN "EXECUTION_FAILED"
  ELSE c

Review(g) ==
  /\ phase[g] = "resumed"
  /\ phase' = [phase EXCEPT ![g] = "reviewed"]
  /\ outcome' = [outcome EXCEPT ![g] = Reviewed(g, outcome[g])]
  /\ UNCHANGED <<lifeVars, probeVars, busy, latched, pending, cancel, job,
                 status, asked, stops, deviceVars>>

\* Under the lock again: the terminal state, the latch, the reservation; the
\* entry is deleted with its event and its job.
ResultState(g) ==
  CASE outcome[g] = "OK" -> "succeeded"
    [] outcome[g] = "CANCELED" /\ status[g] = "canceling" -> "canceled"
    [] OTHER -> "aborted"

\* Mutant: only an unknown result is latched.
LatchesUnknown(c) == c = "RESULT_UNKNOWN"
Latches(c) == c \in Locking

Conclude(g) ==
  /\ phase[g] = "reviewed"
  /\ phase' = [phase EXCEPT ![g] = "over"]
  /\ status' = [status EXCEPT ![g] = ResultState(g)]
  /\ pending' = [pending EXCEPT ![Kind(g)] = NoGoal]
  /\ latched' = [latched EXCEPT ![Kind(g)] = Latches(outcome[g])]
  /\ busy' = [busy EXCEPT ![Kind(g)] = FALSE]
  /\ cancel' = [cancel EXCEPT ![g] = FALSE]
  /\ job' = [job EXCEPT ![g] = "none"]
  /\ outcome' = [outcome EXCEPT ![g] = "none"]
  /\ UNCHANGED <<lifeVars, probeVars, asked, stops, deviceVars>>

-----------------------------------------------------------------------------
\* The worker: the motion command goes out only while the goal is not
\* canceled, as seen at its last checkpoint.
SendCommand(g) ==
  /\ job[g] = "queued" /\ ~cancel[g]
  /\ job' = [job EXCEPT ![g] = "sent"]
  /\ wire' = wire \cup {g}
  /\ UNCHANGED <<lifeVars, probeVars, busy, latched, pending, phase, outcome,
                 cancel, status, asked, stops, moving>>

Reports(g) ==
  IF job[g] = "queued" THEN Unsent(Kind(g), cancel[g])
  ELSE Sent(Kind(g), cancel[g], g \in wire, Kind(g) \notin moving)

Report(g) ==
  /\ job[g] \in {"queued", "sent"}
  /\ \E c \in Reports(g) : outcome' = [outcome EXCEPT ![g] = c]
  /\ job' = [job EXCEPT ![g] = "ended"]
  /\ UNCHANGED <<lifeVars, probeVars, busy, latched, pending, phase, cancel,
                 status, asked, stops, deviceVars>>

\* The devices: a command arrives, late perhaps, and starts a motion or is
\* refused; motions end; a stop request stops whatever moves when it arrives.
CommandArrives(g) ==
  /\ g \in wire
  /\ wire' = wire \ {g}
  /\ moving' \in {moving, moving \cup {Kind(g)}}
  /\ UNCHANGED <<lifeVars, probeVars, busy, latched, pending, goalVars, cancel,
                 status, asked, stops>>

MotionEnds(k) ==
  /\ k \in moving /\ moving' = moving \ {k}
  /\ UNCHANGED <<lifeVars, probeVars, busy, latched, pending, goalVars, cancel,
                 status, asked, stops, wire>>

StopArrives(g) ==
  /\ g \in stops /\ stops' = stops \ {g}
  /\ moving' \in {moving, moving \ {"arm"}}
  /\ UNCHANGED <<lifeVars, probeVars, busy, latched, pending, goalVars, cancel,
                 status, asked, wire>>

-----------------------------------------------------------------------------
Serve(g) == Accept(g) \/ Begin(g) \/ Review(g) \/ Conclude(g)
Work(g) == SendCommand(g) \/ Report(g)

Next == \/ Operate \/ ProbeRead \/ Age \/ Tick
        \/ \E g \in Goals : \/ Admit(g) \/ Reject(g) \/ Serve(g) \/ Work(g)
                            \/ CancelGoal(g) \/ ApplyCancel(g)
                            \/ CommandArrives(g) \/ StopArrives(g)
        \/ \E k \in Kinds : MotionEnds(k)

\* The executor's timer and callbacks run, and every wait of a worker has a
\* deadline.  Devices, clients and the operator promise nothing.
Fairness == /\ WF_vars(Tick)
            /\ \A g \in Goals : WF_vars(Serve(g)) /\ WF_vars(Work(g))

Safety == Init /\ [][Next]_vars
Spec == Safety /\ Fairness

-----------------------------------------------------------------------------
TypeOK ==
  /\ lifecycle \in {"unconfigured", "inactive", "active", "finalized",
                    "exited"}
  /\ gate \in BOOLEAN /\ configured \in BOOLEAN /\ ready \in BOOLEAN
  /\ fresh \in BOOLEAN /\ probeMoving \in BOOLEAN
  /\ epoch \in Nat /\ configuration \in Nat /\ evidence \in Nat
  /\ probe \in {NoProbe} \cup Running \cup Finished
  /\ busy \in [Kinds -> BOOLEAN] /\ latched \in [Kinds -> BOOLEAN]
  /\ pending \in [Kinds -> Goals \cup {NoGoal}]
  /\ phase \in [Goals -> {"new", "admitted", "registered", "awaiting",
                          "resumed", "reviewed", "over"}]
  /\ cancel \in [Goals -> BOOLEAN]
  /\ job \in [Goals -> {"none", "queued", "sent", "ended"}]
  /\ outcome \in [Goals -> Codes \cup {"none"}]
  /\ status \in [Goals -> InFlight \cup Terminal \cup {"unsent"}]
  /\ asked \subseteq Goals /\ stops \subseteq ArmGoals
  /\ wire \subseteq Goals /\ moving \subseteq Kinds

\* The reservation and the entry stand for exactly one goal from its admission
\* (its registration) to its result.
OneGoalPerDevice ==
  \A k \in Kinds :
    LET served == {g \in Goals : Kind(g) = k /\ status[g] \in InFlight}
    IN /\ busy[k] <=> served # {}
       /\ \A g, h \in served : g = h
       /\ pending[k] # NoGoal => pending[k] \in served

\* A device that may be moving without its goal being served is latched, and
\* nothing is admitted to it: its goal's result said that it is not known to
\* be at rest.
RestlessIsLatched ==
  \A k \in Kinds :
    (k \in moving \/ \E g \in wire : Kind(g) = k) => busy[k] \/ latched[k]

\* http_action_backend.md: nothing but a restart clears a latch, not even the
\* next goal's result or a cleanup.
LatchStands == [][\A k \in Kinds : latched[k] => latched'[k]]_vars

\* A node that is ready, or has its gate open, rests on a check of the devices
\* that was begun after the last configure, although checks answer late and a
\* cleanup and another configure may come in between: the epoch that each check
\* carries tells the configurations apart.
ReadyOnlyFromThisConfiguration ==
  ready \/ gate => evidence = configuration

\* node.py: "Cancellation racing a completed worker must never be reported as
\* success."  What an exiting process reports is left out.
CanceledNeverSucceeds ==
  [][\A g \in Goals : cancel[g] /\ status[g] \in InFlight /\ ~Exited
                        => status'[g] # "succeeded"]_vars

\* bringup_lifecycle.md: inactive refuses new goals and asks the motions in
\* progress to stop.
InactiveAsksToStop ==
  \A g \in Goals : job[g] \in {"queued", "sent"} /\ lifecycle # "active" => cancel[g]

\* The arm keeps the promise of an exclusive action, except that a goal whose
\* cancellation was accepted at the last moment may still succeed.  The arm
\* counts as moving from a goal's acceptance to its job's end.
ArmMayMove == \/ "arm" \in moving \/ wire \cap ArmGoals # {}
              \/ \E g \in ArmGoals : /\ phase[g] \in {"admitted", "registered", "awaiting"}
                                     /\ job[g] # "ended"

Promise == INSTANCE ExclusiveAction
             WITH Goals <- ArmGoals, CancelWins <- FALSE,
                  status <- [g \in ArmGoals |-> status[g]],
                  moving <- ArmMayMove, locked <- latched["arm"]

ArmIsExclusive == Promise!ASafety

\* http_action_backend.md promises a terminal state but for the exit of the
\* process: every admitted goal gets its result, whatever the lifecycle does.
EveryGoalEnds ==
  \A g \in Goals : status[g] \in InFlight ~> status[g] \in Terminal \/ Exited
=============================================================================
