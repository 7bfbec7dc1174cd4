# Formal models of the manipulation stack

TLA+ specifications of the parts of this repository in which state, concurrency
and failure meet: the fake arm action server, the durable task gateway, the
HTTP action backend, the camera ingress, the ownership of the robot's commands,
the hand-over between the legacy pick and place nodes, and the contract of the
messages. TLC checks each model on small instances, and TLAPS proves the
invariants that matter most for every value of the constants. `PROJECT.json` maps each definition to the lines it stands for.

All paths are relative to `ros2_ws/src/` unless they start with `docs/` or
`zzx_tools/`.

## 1. The system

| Component | Source | State it keeps | Operations |
| --- | --- | --- | --- |
| execution monitor | `zzx_execution/src/execution_monitor.cpp` | target, deadlines, last frame, start of the settling window | start, request_stop, update |
| fake arm backend | `zzx_execution/src/fake_arm_backend.cpp` | positions, start, target, clocks, state, fault | execute, advance, cancel, feedback |
| fake arm action server | `zzx_execution/src/move_arm_server.cpp` | active goal, reservation, ready, stop reason, sample times | goal, cancel and accepted callbacks, timer |
| task ledger | `zzx_task_runtime/.../ledger.py` | SQLite tables, file lock | open (recovery), reserve, execute, reconcile, close |
| durable gateway | `zzx_task_runtime/.../move_arm.py`, `cli.py` | one action client for each call | `__call__`, the `with` block of `main` |
| HTTP action node | `zzx_http_backend/.../node.py` | life cycle, gate, readiness and epoch, busy, latched, pending | life-cycle callbacks, admit, accept, cancel, tick, execute |
| HTTP worker | `zzx_http_backend/.../worker.py` | one procedure for each goal | arm, arm_samples, confirm_arm_stop, hand |
| wire client and fake devices | `zzx_http_contracts/...` | the fake device's motion | request, command, Model.handle |
| ownership leases | `zzx_http_backend/.../ownership.py`, `zzx_bringup/launch/stack.launch.py`, and the same protocol in the C++ server and the legacy arm script | file locks | start, take, serve, give back, exit |
| camera manager | `zzx_camera/.../node.py`, `guard.py`, `sources.py` | lease, StreamGuard, driver process group, SDK thread and queue | start, receive, acquire, monitor, close |
| RGB-D gate | `zzx_camera/.../rgbd_gate.py` | two queues, stamps, session, verdict | reset_session, check, accept, snapshot |
| target contracts | `zzx_contracts/...` | none | one validation for each message, the monitor's status |
| robot profiles, data sets | `zzx_tools/profile.py`, `zzx_datasets/...` | files | validate, generate, hash |
| legacy pick and place | `Zzxrobot/mybot_description/...` | navigation: stage, command, task, position; vision: task, target, marks; arm and wheels: what they were told | topic callbacks, timers, images |

How they interact:

* A task enters through the **ledger**, which commits its intent before it calls
  the **gateway**; that one sends a `MoveArm` goal with the operation id as goal
  id and turns the action result into a ledger outcome. The only shared state is
  the database; the file lock admits one ledger at a time.
* Either the **fake arm action server** or the **HTTP action node** serves
  `MoveArm`. In the server everything runs on one thread: goal and cancel
  callbacks and a timer that advances the **backend**, samples it, and asks the
  **monitor** for a verdict.
* The **HTTP node** runs four executor threads with reentrant callbacks and a pool
  of four worker threads. A goal goes through admit, accept, a coroutine, a
  **worker** in the pool, back through the timer to the coroutine. Between
  these the node's lock is free.
* The **camera manager** is a process of its own. It owns the device through a
  file lock, starts the official driver as a process group (or an SDK thread),
  and forwards four streams. The **RGB-D gate** is a library that no launch file
  uses yet (`docs/rgbd_quality_gate.md`).
* Every **producer of commands** on a host (simulation, fake server, HTTP node,
  legacy arm script) takes the robot's file lock before it serves, and the HTTP node
  one more for each end point; a refusal ends the process.
* The **legacy nodes** share no state. The voice node repeats one answer of the
  language model; navigation, vision, arm and wheels then hand the robot on by one
  message each: a task number, a position, "correct", "aligned", 1 or 2 for the arm,
  "action over".
* The **contract** (`zzx_contracts`) is called by its monitor node and by tests only.
  The servers and the gateway check and build the same messages on their own.

What is hard: cancellation against completion and against deactivation; deadlines
against late answers and late timer callbacks; requests that are lost, or that
arrive after the stop that was meant for them; crashes between an intent and its
outcome; feedback that is lost, repeated or resumed; processes that outlive the
one that owns the lock; hand-overs that are said once, to nodes that may not listen
yet; checks of one message written four times. The `hazards` of `PROJECT.json` list each at its line.

What makes each part correct:

* *monitor*: a final verdict rests on a whole window of consecutive fresh samples
  and is never later than its deadline;
* *action server*: no success after an accepted cancellation or away from the
  target, the first reason for a stop stands, an idle arm is at rest or the
  server is locked, and every goal ends in bounded time;
* *ledger and gateway*: a task is sent at most once, nothing is sent while
  another outcome is open, a known outcome is true, an operator's decision is final;
* *HTTP node*: one goal for each device, a device that may move unattended is
  latched until restart, no readiness on old evidence, every goal ends;
* *HTTP worker*: an outcome that claims to be known is known;
* *camera manager*: who has the device open holds the lease, a fault ends
  forwarding for good and stops the device;
* *RGB-D gate*: no frame is used twice, READY is never stale;
* *leases*: two producers that can reach the same robot or end point are never both
  live;
* *legacy nodes*: one of them at a time is told to move the robot, they agree on the task, what
  is released is what was ordered, and a command is carried out;
* *contract*: what a part accepts or sends honours it, and a goal made by one part
  means the same to the next.

## 2. The modules

| Module | Models | Correspondence |
| --- | --- | --- |
| `ExecutionMonitor` | the monitor | a record `monitor` and operators `Start`, `RequestStop`, `Update`; one operator for each condition of `update`, in its order |
| `FakeArmBackend` | the backend | a record and operators `Execute`, `Advance`, `Cancel`, `FeedbackLost`; all seven faults |
| `MoveArmServer` | the action server, with both of the above | `SendGoal` is the goal callback together with the accepted callback (one thread runs both), `CancelGoal` the cancel callback, `Tick` the whole timer callback |
| `ExclusiveAction` | what a motion server promises | abstract: life cycle of goals, one motion at a time, lock |
| `MonitoredMotion` | the monitor over an arbitrary arm | feedback and controller result of each reading are free; keeps the history of readings to judge verdicts by |
| `Ledger` | the ledger and its threads | one action for each transaction; the backend call lies between two of them |
| `AtMostOnceDispatch` | what the ledger promises | abstract |
| `DurableMoveArm` | ledger, gateway, wire and an exclusive action server | the adapter's waits are its places, each can time out |
| `HttpActionBackend` | the node | one action for each section that runs under the lock, and `Review` for the one that runs without it; `epoch` and `probe.epoch` are the numbers `readiness_epoch` and `probe_epoch`; `Exit` is the interrupted process with `close`; the pool, the wire and the devices are coarse |
| `WorkerOutcomes` | the reports a worker may give | used by the node as an assumption, by the worker as a promise |
| `HttpWorker` | the worker's procedures | one action for each request and each answer, against a device behind an unreliable connection |
| `RgbdGate` | the gate | `Check` (snapshot), `Refuse` and `Admit` (accept), `ResetSession`; the pairing loop is the recursive function `Pairing` |
| `CameraManager` | manager, guard and sources | each element of `Managers` is a run of the program; driver and launch parent are processes of their own; the SDK thread's full queue, its `get_nowait` and its second `put_nowait` are three steps (`Capture`, `Discard`, `PutAgain`), between which the node takes frames |
| `PickAndPlace` | the five legacy nodes, their topics and the base | one action for each callback; a drive (`Depart`, `Arrive`) and an arm sequence (`Play`, `PlayOn`), which block their node, are several |
| `CommandOwnership` | the producers of commands on one host | one action for each lock taken or given up; `Needs` names the locks of a producer in their order |
| `GoalContract` | `validation.py` and, beside it, the checks and results of the HTTP worker, the C++ server, the gateway and the contract's monitor | operators without state, for theorems |
| `MC...` | | values of constants and symmetry for TLC |
| `..._proofs` | | theorems and proofs |

Abstractions to know of:

* Time in `ExecutionMonitor`, `FakeArmBackend` and `MoveArmServer` is an integer,
  positions are integers, and interpolation rounds down. Timer callbacks are
  `TickGaps` apart, so that a late callback (an executor that is held up) is one
  long gap. Messages are reduced to result code, reason and state.
* A payload in `Ledger` stands for its canonical form. `sent` counts the calls of
  the backend and is a history variable, as are `history` in `MonitoredMotion`,
  `gap` in `CameraManager` and `returned` in `RgbdGate`. In `HttpActionBackend`
  `configuration` counts the calls of `on_configure`, `probe.under` is the one a check was
  begun under and `evidence` the one of the last check that was applied: they judge
  readiness without the epochs of the code.
* In `HttpActionBackend` a worker is `SendCommand` and `Report`: what it may report
  is `WorkerOutcomes`. `HttpWorker` shows by `ReportsAsPromised` that the real
  procedure reports nothing else. A command or a stop request on the wire
  arrives at any time, or never. A job that raised, whose result becomes a locked
  INTERNAL (`node.py:227-228`), stands with the locking reports, one of which is always
  possible.
* The device of `HttpWorker` includes the fake one of `zzx_http_contracts`
  (`MotionArrives`, `MotionEnds`, `Halt`, `HandlerEnds`) and worse ones: answers before the
  end of the motion, stops that are acknowledged first and take effect later.
* In `CameraManager` a message is its mode (the frame id and intrinsics all streams
  share, and the format), or malformed. A packet of the SDK or the generator is
  delivered in one step: its four messages go through the guard in one callback.
  The constructor is one step (`Start`). An interrupt after it started the driver
  (`node.py:84`) is not the `Exception` it catches and leaves the driver behind without the
  lease; that is the state after `Start` and `Kill`, so `killed` stands for both.

* In `PickAndPlace` a position is the class of the object it is of, and the base has a
  place, an object it faces, and a view of it: off, in the middle, or near. A topic
  reaches a subscriber that runs and keeps `Depth` messages. `delivered` records what
  the claw let go of and where; `mishap` records what the nodes do not handle: a
  message published to nobody (`unheard`), a node that an exception ended (`died`), a
  drive that failed (`astray`), and a base that went past its object while it was told
  to go ahead (`drift`).
* In `CommandOwnership` `live` means that the process, or the controllers it started,
  can act on commands; the model assumes of the launch system only that it ends those
  controllers some time after the shutdown handler ran.
* In `GoalContract` a number is a value with a flag for being finite, and a text is
  blank or not. A request's time is counted in tenths of a nanosecond, so that its
  rounding is visible.

Each module holds, next to an operator, the changed forms of it that
the `mutants` of `PROJECT.json` put in its place; they are marked *Mutant* and nothing else uses
them.

## 3. What is checked

| Run | Instance | Shows |
| --- | --- | --- |
| `MCMoveArmServer.cfg` | two joints (one continuous, whose target is a whole turn away) on a grid of five places, two goals, two speeds, seven faults, callbacks 1 or 4 units apart, fairness | `Reservation`, `IdleArmAtRest`, `BoundedService`; `SuccessOnTarget`, `FirstReasonStands`, `LossLocks`; `ExclusiveSafety`: the server implements `ExclusiveAction`; `EveryGoalEnds` |
| `MCMonitoredMotion.cfg` | an arbitrary arm with one joint, frames that are fresh, old, repeated or unavailable | `FinalVerdictIsEarned`, `NeverTooLate` |
| `MCDurableMoveArm.cfg` | two tasks, two threads, two ledgers in succession | `KnownIsTrue`, `OpenRecordCoversMotion`, `OldDispatcherGone`, `NobodyWorksOnAQuestion`, `AuditExplains`; `AtMostOnce`: the ledger implements `AtMostOnceDispatch`; `EveryCallReturns` |
| `MCHttpActionBackend.cfg` | two arm goals, every life-cycle transition, two configurations | `OneGoalPerDevice`, `RestlessIsLatched`, `LatchStands`, `ReadyOnlyFromThisConfiguration`; `ArmIsExclusive`: the arm of the node implements `ExclusiveAction` without the claim that a cancellation always wins |
| `MCHttpHands.cfg` | two hand goals, fairness | `EveryGoalEnds` |
| `MCHttpCancel.cfg` | one arm goal | violates `CanceledNeverSucceeds` |
| `MCHttpDeactivate.cfg` | one arm goal | violates `InactiveAsksToStop` |
| `MCHttpWorker.cfg` | arm and hand, plans and motions, two samples of settling | `KnownMeansAtRest`, `SuccessMeansReached`, `ReportsAsPromised`, `EveryJobEnds` |
| `MCRgbdGate.cfg` | queues of two, two sessions, two clocks | `BacklogIsOneSided`, `ReadyIsEarned`, `PairsAreNew` |
| `MCCameraManager.cfg` | two managers, two streams, all three sources, fairness | `CameraTypeOK` (with the bound of the SDK queue and the room for its second put), `LeaseCoversDevice`, `ForwardsOneLiveSession`, `FaultStopsDevice` |
| `MCPickAndPlace.cfg` | answers with two tasks in different areas and twice in one, with too few classes, an unknown area or class, a class alone, and prose; fairness | `OneMoverAtATime`, `TaskAgreement`, `DeliversThePlan`, `FinishesPlan` |
| `MCCommandOwnership.cfg` | a simulation, a fake server, a legacy script and two HTTP nodes that share an end point under different robot names | violates `OneProducer` |

### Bounds, and why they are enough

* *MoveArmServer*: two goals are needed to see what the first leaves behind for the
  second. A motion takes two units at full speed and ten at a fifth of it (more with the
  fault `slow`); the timeout 5 lies between, so that a goal can settle in time or time
  out, and the faults that strike after 6 units of backend time do so after the deadline
  at the low speed. A gap of 4 exceeds the feedback timeout and the stop timeout, so
  that one callback can find several limits passed. Both joints follow one
  interpolation, so that the second costs no states; it shows the comparison modulo a
  turn. `LastSend` 3 leaves room for a goal after one that succeeded and is the only
  bound on behaviours: after it no goal is sent and no idle tick is taken, goals in
  flight run to their ends.
* *MonitoredMotion*: `MaxTime` 4 holds a baseline frame, a settling window of 2
  and a frame to spare; timeouts of 3 and 5 fall inside and outside of the bound.
* *DurableMoveArm*: the hazards are between a task and the next (two tasks), a
  submitter and a competitor (two threads), a ledger and the one that recovers
  from it (two ledgers); `DurableMoveArm_proofs` has no bound.
* *HttpActionBackend*: the second goal meets what the first left in the pool, on
  the wire and in the latch. The two devices share the life cycle and the probe
  but neither reservation nor latch, and are checked in separate runs. A check that
  is begun under one configuration and answers under another needs two
  (`MaxConfigurations` = 2, the bound of the epochs as well). Either of the two bumps,
  in configure or in cleanup, keeps the configurations apart alone, so that only a
  mutant without both violates `ReadyOnlyFromThisConfiguration`. The two violations
  need one configuration.
* *HttpWorker*: one goal is a worker's whole life. `SettleSamples` = 2 is the least
  window that can be interrupted.
* *RgbdGate*: queues of two overflow, ROS time up to 4 lets frames of one queue be
  older than `MaxAge` = 2 while the other's are not, the clock may go back at any
  call, and `MaxMono` 2 exceeds the input timeout 1. Checks are enumerated on
  every pair of clock readings.
* *CameraManager*: two managers, one of which may take over from the other; two
  streams stand for the four, as the guard treats them alike but for the formats.
  Limits of one unit keep below, at and beyond apart.
* *PickAndPlace*: the second task is where what the first left behind shows (marks,
  positions, messages under way); a third repeats the second. No correct run puts more
  than three messages on a topic but `wheel_control`, where vision repeats "go ahead" with
  each image: `Depth` 3 lets the oldest of those be lost, as the depth 10 of the code does.
* *CommandOwnership*: one producer of each profile, and the pair of HTTP nodes that
  only an end point's lock keeps apart. `Killable` leaves the simulation out, so that the
  counterexample needs no killed process.

`CHECK_DEADLOCK FALSE` is set where a system may really stop: all goals are over,
all ledgers and managers were used up.

### Fairness, and why the code justifies it

* *MoveArmServer*: `WF(Tick)`. The timer belongs to a single-threaded executor that
  runs nothing that blocks.
* *DurableMoveArm*: weak fairness of each thread's own steps in the adapter: its
  waits poll with a deadline (`move_arm.py:64-69`). Server, wire and operator
  promise nothing.
* *HttpActionBackend*: `WF(Tick)`, and for each goal of its coroutine and its pool
  thread: every request of a worker has a timeout. Devices, clients and the operator
  promise nothing. A process that exits owes its goals nothing
  (`docs/http_action_backend.md:76`), and `EveryGoalEnds` says so.
* *HttpWorker*: `WF(Job)` and `WF(Deadline)`: the thread runs and time passes.
* *CameraManager*: `WF(Tick)`, of `Monitor` (a timer), of the steps of `close` and
  of the SDK thread's steps with a frame in its hands and of its exit once its stop event
  is set (`wait_for_frames` returns after 100 ms).
* *PickAndPlace*: weak fairness of every callback and of the drives: executors run what is
  ready, and the navigator ends a drive well or not. `SF(AlignFar)`: a turning base meets
  the object again and again, and an image that shows it in the middle is taken at last;
  with it goes the assumption that the object is in sight where its task looks for it.
  Operators, the language model and the base promise nothing: failed drives and a
  drifting base are `mishap`s that `FinishesPlan` excuses.

### Findings

1. `MCHttpCancel.cfg`: `execute` reads the cancel event at `node.py:269` without the
   lock and makes the goal succeed at `:291`. A cancellation accepted in between is
   answered with ACCEPT and the goal is reported as a success, which the comment
   at `:268` rules out.
2. `MCHttpDeactivate.cfg`: a goal that `admit` let in but `accept` has not yet
   registered is missed by `on_deactivate`. It goes on to start a motion while the
   node is inactive, and nobody asks it to stop; `docs/bringup_lifecycle.md:10` says
   that the actions in progress are asked.
3. `MCCommandOwnership.cfg`: the launch of the simulation gives its lease up in its
   shutdown handler (`stack.launch.py:38-44`), which runs before the controllers have
   ended; another producer takes the lock in that time and both are live.
   `docs/bringup_lifecycle.md:61` says that the lock lasts until the process exits, so
   that no second process can take over. `SingleOwner` shows that this is the only way.

Observations that contradict no document:

* The gateway accepts a `timeout_seconds` of half a nanosecond or less and sends it as a
  timeout of zero, which every server refuses (`GatewayGoals`).
* A failure that a device reports with an empty message becomes a result without a
  message (`client.py:85`), which `validate_error_status` would refuse (`HttpResults`).
* `Ledger.close` does not wait for a running `execute`. If a thread other than the
  submitters closed the ledger (`ClosersWait` = FALSE), the lock would be free with the
  old dispatcher still active, against the comment at `ledger.py:56`. `cli.py` closes after
  `execute` returned; the runs and the proofs are for such callers.

## 4. What is proved

TLAPS proves the following for every value of the constants under the named
assumptions of the modules (sets of goals, joints, tasks and threads of any size,
any limits).

**Action server** (`MoveArmServer_proofs`, on lemmas of `ExecutionMonitor_proofs` about
the monitor's operators). The inductive invariant is

    IInv == TypeOK /\ Reservation /\ StopAgrees /\ IdleArmAtRest

`StopAgrees` is the strengthening: the goal that is served is a valid motion, the
server and the monitor have the same idea of whether it is being stopped, and a stop
for the reason CANCELED belongs to a goal that was canceled. Without it neither
`IdleArmAtRest` nor the refinement is inductive: the monitor's verdict "stopped" could
come for a goal whose controller nobody stopped, or end a goal as canceled that no
client canceled.
A timer callback is reduced in one lemma (`ActiveTickReachesSwitch`) to the state at its
`switch`, and the cases of the switch are then independent of how it was reached.

* `TypeCorrect`, `ReservationAgrees`, `ArmAtRest`: the conjuncts.
* `Implements`: the server implements `ExclusiveAction` (every step a step or a
  stutter; a single callback that stops and finishes is one `Finish`).
* `ServiceIsBounded`: by a second invariant over `IInv`, which ties the monitor's
  deadlines to the moment the goal was started and the last tick to the deadlines.
* `FirstReasonIsKept`, `LossIsLocked`: action properties, from the same reduction. The
  second rests on what the monitor's final verdicts need, a fresh frame: a goal that ends
  without one ends with its stop unconfirmed.
* `SuccessIsOnTarget`: an action property too. It needs `Aims`: the target the monitor
  compares with is that of the goal it serves, and an open settling window reaches up to
  the last frame the server took, so the frame that closes it is on that target.

**Monitored motion** (`MonitoredMotion_proofs`, for any number of joints, any feedback and
all limits). `MotionInv` says what the monitor's three variables `previous`, `lastStamp` and
`stableSince` remember of the readings: since `stableSince` each reading brought a frame that
was really offered, was fresh, at rest and within tolerance. That a first such reading exists
in a history of any length is an argument by a least element (`Least`).

* `NeverTooLateHolds`, `FinalVerdictsAreEarned`.

**Ledger** (`DurableMoveArm_proofs`, assuming `ClosersWait`). The invariant `LInv` says that the
lock and the objects' lives agree, that a busy thread belongs to the open ledger and
holds the one unresolved record, that a claimed task was not yet sent, and that
audit and table agree. The chain of the argument: the lock makes the ledger unique,
the one open record makes the busy thread unique, so nobody can send or conclude
what another path has settled.

* `LockExcludesOldDispatchers`, `QuestionsAreOwnerless`, `AuditAgrees`.
* `DispatchesAtMostOnce`: the ledger implements `AtMostOnceDispatch`.

**Composition** (the same module). `DInv` stands on top of `LInv`: the only goal that can be on
its way to the arm, or in motion, is that of the one unresolved record, whose waiting
thread tells how far it got; what the gateway's thread was told, it was told of that goal.

* `RecordsAreTrue` (`KnownIsTrue`), `MotionIsOnRecord` (`OpenRecordCoversMotion`).
* `DurableDispatchesAtMostOnce`: the ledger's refinement again, in the composition, where a
  call can time out at every wait and its goal arrive later.

**HTTP worker** (`HttpWorker_proofs`, for every settling window). `CommandPlace` says where
the motion command can be (under way only while nobody answered it), `WorkerKnows`
what the worker may conclude at each place of its procedure.

* `KnownOutcomesAreSafe`, `SuccessIsReal`, `TypeCorrect`.
* `ReportsAreAsPromised`: an action property, proved action by action from the same
  invariant. It discharges the assumption `HttpActionBackend` makes of its workers.

**HTTP action node** (`HttpActionBackend_proofs`, for any sets of arm and hand goals, both
devices at work together, which the runs leave out). The inductive invariant is

    IInv == TypeOK /\ Places /\ Books /\ Rest

`Places` ties a goal's action state to the place of its coroutine, its job and its outcome;
`Books` says whom a reservation, an entry and a latch stand for, and that a latched device
serves nobody. `Rest` is the strengthening that matters: what a worker knew when it
reported stays true until the goal concludes, since only a command under way can set a
device moving and only the served goal has one.

* `ReservationIsExact`, `RestlessIsAlwaysLatched`: consequences of the invariant.
* `LatchIsForGood`: an action property.
* `ReadinessIsCurrent`: by the invariant `Evidence` beside `IInv`. A check carries an epoch
  that is at most the node's, and if it is the node's, the check was begun under the
  present configuration: configure and cleanup leave every older check behind. What
  readiness rests on was applied under that condition, and the gate is open only while
  the node is active and ready.
* `ArmImplementsPromise`: the arm implements `ExclusiveAction` without `CancelWins`. A
  reservation counts as motion from the admission on, so what the coroutine and the worker
  do in between is progress or a stutter, and only `Conclude` is a `Finish`.

**Camera** (`CameraIngress_proofs`, for any managers, streams and limits). `CameraInv` adds to
the types that the holder of the lock is the one manager that runs, that a driver has a
manager that will stop it unless that one was killed (or interrupted in its
constructor), and that a stream that fell silent
stays a fault of its guard. A frame goes into the SDK thread's queue only when it is empty:
in `PutAgain` because the thread emptied it and nobody else puts (`SdkSteps`).

* `CameraTypes`, `LeaseCovers`, `ForwardsLive`.

**RGB-D gate** (`CameraIngress_proofs`, for every queue size and limit, and clocks that are set
back at will). `Pairing` is a recursive function of two queues of any length. The library's
induction is of no use here (an operator as parameter), a minimal counterexample is:
`PairingUnfolds` shows that the equation has a solution (solutions for shorter queues agree,
and piece together), and `PairingYields` what it computes: each queue loses a front,
and either one is empty or the two frames dropped last are a sound and synchronised pair.
`GateInv` says that what waits lies after the last pair and not after the stamp its
stream continues from, in order, of this session, unexpired, on one side only.

* `GateBacklogIsOneSided`, `GateReadyIsEarned`: consequences of the invariant.
* `GatePairsAreNew`: an action property, from the invariant and `PairingYields`.

**Ownership** (`Agreements_proofs`, for any producers and locks; `NeedsTyped` says
only that a producer's locks are a sequence of locks, in which one may come twice). `LeaseInv` says that a lock has one
holder, that a producer holds the locks it has counted, and that a live one is up or is an
orphan of the simulation.

* `SingleOwner`: no two producers that share a lock are both live, but for a simulation
  whose launch has given its lease up or was killed.

**Pick and place** (`Agreements_proofs`, for any answers of the language model, areas and
detector classes and any history depth of a topic; `AnswersTyped` says that an answer has
areas, integer classes, and at least one class if it is a class alone). The invariant has
three layers, each on top of the one before:

* `Relay`, who has the robot. An order to the arm, its sequence and its report exclude each
  other and belong to two waiting states of navigation; between the one request to
  correct and the one answer the wheels may be told to move. `OneMover` follows, whatever is
  lost or dies: losing a message stops the relay, it never doubles it.
* `Agreement`, what the nodes know of the task. All that is on its way to vision are numbers
  of later tasks in their order, and a position on its way to navigation names its
  task's class. The part that is easy to miss is `Right`: a position that navigation would
  accept is of the class that vision looks for at that moment, since vision forgets its
  target only once it has corrected, and navigation never waits for a position of that
  task again. `TasksAgree` is its consequence.
* `Handling`, as long as there is no mishap: the base is where navigation's state says, what
  is left of the arm's sequence is a suffix of the one navigation waits for, and how much
  is left tells whether the claw holds the object. `PlanIsDelivered` is its consequence.

**Contract** (`Agreements_proofs`, for every goal, request and result of the fields' types).

* `HttpArmGoals`, `HttpHandGoals`, `FakeArmGoals`: what a server accepts, the contract
  accepts. `EveryJointCommanded`: distinct names, as many as joints, each known, are all of
  them (`move_arm_server.cpp:149-163`); the argument counts, and rests on
  `NamesCount`.
* `GatewayGoals`, `GatewayToHttp`: what the gateway sends is a goal of the contract, and
  passes the HTTP worker's checks, after the rounding of its time.
* `HttpResults`, `FakeArmResults`: results keep the contract's relations of code, state,
  progress and success.
* `GatewayReadsHttp`, `GatewayReadsFakeArm`: the gateway's five checks of a result record
  exactly what the server's code says.

**Only model-checked**: every liveness property (`EveryGoalEnds`, `EveryCallReturns`,
`EveryJobEnds`, `FaultStopsDevice`, `FinishesPlan`; fairness and ENABLED are beyond the
prover). Every invariant and every action property of the passing runs, and every
refinement, is a theorem.

## 5. What is not modelled

* Arm and hand at work in the same run of the node.
* A restart of a legacy node that ran: it begins at its first task with the arm wherever
  it is; and the wheel node's timer, which publishes a zero velocity on `cmd_vel` beside the
  navigator during drives (what the base makes of two publishers is outside of the code).
* `moveit_move_arm.py` and `move_claw.py`: demonstrations that exchange nothing with the
  other nodes. Recording and the recogniser's protocol in `audio_classify.py`.
* Robot profiles: validation and generation of files, without a state that outlives a call.
* `fake_arm_node.cpp` (a demonstration), data-set manifests (offline hashing), launch
  files and robot descriptions (declarative), message definitions (generated).
* Rounding of doubles, reuse of process numbers, and the wire format: no property
  here tells their outcomes apart, or they are out of TLC's reach.

## 6. Plan

Done, in this order: 1. monitor, backend and server with the abstract action and its
proofs; 2. ledger with at-most-once dispatch, its proofs, and the gateway; 3. HTTP
node, worker contract and worker with its proofs; 4. RGB-D gate and camera manager;
5. leases, legacy nodes, the contract of the messages, and the proofs of the HTTP node;
6. proofs of the composition with the ledger, of the monitor over an arbitrary arm, of the
camera's ingress and gate, of what a success of the action server means, and of the
legacy nodes.

Next:

1. RGB-D gate: relate a pair to the session its frames were captured in
   (`docs/rgbd_quality_gate.md:13`); after a clock that was set back and a new session,
   frames of the old one may pass `rgbd_gate.py:157`.
2. Action server: `docs/execution_monitor.md:56` says that a loss of feedback locks the
   service even if the stop is confirmed later; in a stop that is already under way
   a short loss does not (`move_arm_server.cpp:282`). State it and decide.
3. `PickAndPlace`: restarts of its nodes.
4. Profiles and data-set manifests as operators, as in `GoalContract`.

To check a model: `tlc -config MCPickAndPlace.cfg MCPickAndPlace`; the module of each
configuration is named in `PROJECT.json`. To check the proofs: `tlapm HttpWorker_proofs.tla`
and likewise for the other proof modules.
