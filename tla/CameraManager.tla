--------------------------- MODULE CameraManager ---------------------------
(***************************************************************************)
(* The camera ingress (zzx_camera: node.py, guard.py, sources.py): at most *)
(* one manager process per machine owns the camera, through a file lock,   *)
(* and forwards four streams to the shared topics as long as its           *)
(* StreamGuard finds them whole, steady and alive.  The frames come from   *)
(* the official driver, started as a process group of its own (a launch    *)
(* parent and the driver), from an SDK thread through a queue of one, or   *)
(* from a generator.                                                       *)
(*                                                                         *)
(* A message is its mode: the rig (frame id and intrinsics, which all      *)
(* streams must share) and the format; Bad stands for a message that is    *)
(* malformed.  Each element of Managers is one run of the program.         *)
(***************************************************************************)
EXTENDS Integers, Sequences

CONSTANTS
  Managers, NoManager,  \* runs of camera_manager, and none of them
  Streams,              \* the streams one session consists of
  Rigs, Formats,        \* what a message's signature is made of
  Timeout,              \* stream_timeout
  StartupTimeout,       \* startup_timeout
  KillAfter             \* the 3 s from SIGINT to SIGKILL in monitor

ASSUME CameraAssumption ==
  /\ NoManager \notin Managers /\ Streams # {}
  /\ {Timeout, StartupTimeout, KillAfter} \subseteq Nat \ {0}

VARIABLES
  owner,       \* holder of camera_ingress.lock
  proc,        \* each manager: new, running, closing, gone or killed
  backend,     \* where it takes frames from
  guard,       \* its StreamGuard
  child,       \* the driver's process group and the time since its SIGINT
  worker,      \* the SDK thread: its stop_event, error and queue, and where it
               \* is with which frame in its hands
  forwarding,  \* who published on the shared topics in the last step
  gap          \* history: a heard stream of this manager fell silent

sources == <<child, worker>>
vars == <<owner, proc, backend, guard, sources, forwarding, gap>>

Modes == [rig : Rigs, format : Formats]
Bad == [rig |-> "bad", format |-> "bad"]
NoMode == [rig |-> "none", format |-> "none"]
Generated == CHOOSE msg \in Modes : TRUE  \* what the generator makes
Never == -1

NewGuard == [fault |-> FALSE, up |-> 0,
             sig |-> [k \in Streams |-> NoMode], age |-> [k \in Streams |-> Never]]
NoChild == [parent |-> FALSE, driver |-> FALSE, handle |-> FALSE, stopped |-> Never]
NoWorker == [running |-> FALSE, stop |-> FALSE, error |-> FALSE, frames |-> <<>>,
             at |-> "waiting", held |-> NoMode]

Init == /\ owner = NoManager
        /\ proc = [m \in Managers |-> "new"]
        /\ backend = [m \in Managers |-> "none"]
        /\ guard = [m \in Managers |-> NewGuard]
        /\ child = [m \in Managers |-> NoChild]
        /\ worker = [m \in Managers |-> NoWorker]
        /\ forwarding = NoManager
        /\ gap = [m \in Managers |-> FALSE]

UsesDevice(m) == child[m].driver \/ worker[m].running

-----------------------------------------------------------------------------
\* The constructor: the lock, the guard, then the source of frames.
Start(m, b) ==
  /\ proc[m] = "new" /\ owner = NoManager
  /\ owner' = m
  /\ proc' = [proc EXCEPT ![m] = "running"]
  /\ backend' = [backend EXCEPT ![m] = b]
  /\ child' = [child EXCEPT ![m].parent = (b = "orbbec"), ![m].driver = (b = "orbbec"),
                            ![m].handle = (b = "orbbec")]
  /\ worker' = [worker EXCEPT ![m].running = (b = "sdk")]
  /\ forwarding' = NoManager
  /\ UNCHANGED <<guard, gap>>

\* It gives up: the lock is taken, or a driver left over is already seen on
\* the raw topics (one not yet discovered is not).
GiveUp(m) ==
  /\ proc[m] = "new"
  /\ owner # NoManager \/ \E d \in Managers : child[d].driver
  /\ proc' = [proc EXCEPT ![m] = "gone"]
  /\ forwarding' = NoManager
  /\ UNCHANGED <<owner, backend, guard, sources, gap>>

-----------------------------------------------------------------------------
\* StreamGuard.check: the guard has, or finds, a fault.
Failing(g) == \/ g.fault
              \/ g.up > StartupTimeout /\ \E k \in Streams : g.age[k] = Never
              \/ \E k \in Streams : g.age[k] > Timeout

Whole(g) == \A k \in Streams : g.age[k] # Never

\* StreamGuard.accept of messages in the streams ks, all of mode msg.
Heard(g, ks, msg) == [g EXCEPT !.sig = [k \in Streams |-> IF k \in ks THEN msg ELSE @[k]],
                               !.age = [k \in Streams |-> IF k \in ks THEN 0 ELSE @[k]]]

Acceptable(g, ks, msg) ==
  /\ msg \in Modes
  /\ \A k \in ks : g.sig[k] \in {NoMode, msg}
  /\ ks \cup {k \in Streams : g.age[k] # Never} = Streams
       => \A k \in Streams \ ks : g.sig[k].rig = msg.rig

Faulty(g) == [g EXCEPT !.fault = TRUE]

\* Mutant: the streams are not checked before the message refreshes one.
ReceivedUnchecked(g, ks, msg) ==
  IF ~g.fault /\ Acceptable(g, ks, msg) THEN Heard(g, ks, msg) ELSE Faulty(g)

\* The guard after receive, which checks before it accepts and again after.
Received(g, ks, msg) ==
  IF ~Failing(g) /\ Acceptable(g, ks, msg) THEN Heard(g, ks, msg) ELSE Faulty(g)

Deliver(m, ks, msg) ==
  \E g \in {Received(guard[m], ks, msg)} :
    /\ guard' = [guard EXCEPT ![m] = g]
    /\ forwarding' = IF ~Failing(g) /\ Whole(g) THEN m ELSE NoManager

\* A raw message, from whatever driver is alive, reaches a subscription.
Receive(m, k, msg) ==
  /\ proc[m] = "running" /\ backend[m] = "orbbec"
  /\ \E d \in Managers : child[d].driver
  /\ Deliver(m, {k}, msg)
  /\ UNCHANGED <<owner, proc, backend, sources, gap>>

\* acquire of a packet: its four messages go through receive one by one, so
\* the last of the first packet is the first to be forwarded.
Acquire(m) ==
  /\ proc[m] = "running" /\ ~guard[m].fault
  /\ \/ /\ backend[m] = "sdk" /\ ~worker[m].error /\ worker[m].frames # <<>>
        /\ Deliver(m, Streams, Head(worker[m].frames))
        /\ worker' = [worker EXCEPT ![m].frames = Tail(@)]
     \/ /\ backend[m] = "synthetic"
        /\ Deliver(m, Streams, Generated)
        /\ UNCHANGED worker
  /\ UNCHANGED <<owner, proc, backend, child, gap>>

\* acquire finds the error the SDK thread left.
AcquireFails(m) ==
  /\ proc[m] = "running" /\ ~guard[m].fault /\ worker[m].error
  /\ guard' = [guard EXCEPT ![m] = Faulty(@)]
  /\ forwarding' = NoManager
  /\ UNCHANGED <<owner, proc, backend, sources, gap>>

-----------------------------------------------------------------------------
\* A signal to the process group of the child; SIGINT may well be ignored, so
\* it is the two processes' own affair whether they exit.
Killed(c) == [c EXCEPT !.parent = FALSE, !.driver = FALSE]

\* Mutant: a driver that ignores the interrupt is left alone.
StoppingPolitely(c) ==
  IF c.handle /\ c.stopped = Never THEN [c EXCEPT !.stopped = 0] ELSE c

\* monitor under a fault: SIGINT once, SIGKILL when that was long enough ago.
Stopping(c) ==
  CASE c.handle /\ c.stopped = Never    -> [c EXCEPT !.stopped = 0]
    [] c.handle /\ c.stopped > KillAfter -> Killed(c)
    [] OTHER                             -> c

\* Another producer may show up on a topic at any time (dup).
Monitor(m) ==
  /\ proc[m] = "running"
  /\ \E dup \in BOOLEAN :
     \E fault \in {\/ Failing(guard[m]) \/ dup
                   \/ child[m].handle /\ ~child[m].parent} :
       /\ guard' = [guard EXCEPT ![m].fault = fault]
       /\ worker' = [worker EXCEPT ![m].stop = @ \/ (fault /\ backend[m] = "sdk")]
       /\ child' = [child EXCEPT ![m] = IF fault THEN Stopping(@) ELSE @]
  /\ forwarding' = NoManager
  /\ UNCHANGED <<owner, proc, backend, gap>>

-----------------------------------------------------------------------------
\* close, once the executor stopped: the child, the worker, the lock.
CloseBegins(m) ==
  /\ proc[m] = "running"
  /\ proc' = [proc EXCEPT ![m] = "closing"]
  /\ forwarding' = NoManager
  /\ UNCHANGED <<owner, backend, guard, sources, gap>>

\* Mutant: a launch parent that is gone is taken for the whole group.
CloseChildByParent(m) ==
  /\ proc[m] = "closing" /\ child[m].handle
  /\ child' = [child EXCEPT ![m] = [IF @.parent THEN Killed(@) ELSE @ EXCEPT !.handle = FALSE]]
  /\ forwarding' = NoManager
  /\ UNCHANGED <<owner, proc, backend, guard, worker, gap>>

CloseChild(m) ==
  /\ proc[m] = "closing" /\ child[m].handle
  /\ child' = [child EXCEPT ![m] = [Killed(@) EXCEPT !.handle = FALSE]]
  /\ forwarding' = NoManager
  /\ UNCHANGED <<owner, proc, backend, guard, worker, gap>>

CloseWorker(m) ==
  /\ proc[m] = "closing" /\ backend[m] = "sdk" /\ ~worker[m].stop
  /\ worker' = [worker EXCEPT ![m].stop = TRUE]
  /\ forwarding' = NoManager
  /\ UNCHANGED <<owner, proc, backend, guard, child, gap>>

\* The process ends: its memory, threads and lock go, its child need not.
Ends(m, how) ==
  /\ proc' = [proc EXCEPT ![m] = how]
  /\ owner' = NoManager
  /\ guard' = [guard EXCEPT ![m] = NewGuard]
  /\ worker' = [worker EXCEPT ![m] = NoWorker]
  /\ child' = [child EXCEPT ![m].handle = FALSE, ![m].stopped = Never]
  /\ gap' = [gap EXCEPT ![m] = FALSE]
  /\ forwarding' = NoManager
  /\ UNCHANGED backend

\* The thread was joined, or close raised that it was not: the process exits.
CloseEnds(m) ==
  /\ proc[m] = "closing" /\ ~child[m].handle
  /\ backend[m] = "sdk" => worker[m].stop
  /\ Ends(m, "gone")

\* An interrupt of the constructor once it has started the driver is such an end
\* as well: it is no Exception, so nothing is stopped (Start, then Kill).
Kill(m) == proc[m] \in {"running", "closing"} /\ Ends(m, "killed")

-----------------------------------------------------------------------------
\* The launch parent or the driver exits, told to or not.
ParentExits(m) == /\ child[m].parent
                  /\ child' = [child EXCEPT ![m].parent = FALSE]
                  /\ forwarding' = NoManager
                  /\ UNCHANGED <<owner, proc, backend, guard, worker, gap>>

DriverExits(m) == /\ child[m].driver
                  /\ child' = [child EXCEPT ![m].driver = FALSE]
                  /\ forwarding' = NoManager
                  /\ UNCHANGED <<owner, proc, backend, guard, worker, gap>>

\* Mutant: the queue is not bounded to one.
RoomForTwo(frames) == Len(frames) < 2

\* The queue has maxsize 1.
Room(frames) == frames = <<>>

\* A frame went into the queue; the thread looks at its stop_event next.
Stored(w, msg) == [w EXCEPT !.frames = Append(@, msg), !.held = NoMode,
                            !.at = IF w.stop THEN "leaving" ELSE "waiting"]

Stopped(w, error) == [w EXCEPT !.running = FALSE, !.error = @ \/ error]

\* The SDK thread captures a frame and puts it into the queue, or finds it full.
Capture(m, msg) ==
  /\ worker[m].running /\ worker[m].at = "waiting"
  /\ worker' = [worker EXCEPT ![m] =
       IF Room(@.frames) THEN Stored(@, msg) ELSE [@ EXCEPT !.at = "full", !.held = msg]]
  /\ forwarding' = NoManager
  /\ UNCHANGED <<owner, proc, backend, guard, child, gap>>

\* It gives up the frame that is in the queue, unless acquire took it meanwhile.
Discard(m) ==
  /\ worker[m].running /\ worker[m].at = "full"
  /\ worker' = [worker EXCEPT ![m].at = "emptied",
                              ![m].frames = IF @ = <<>> THEN @ ELSE Tail(@)]
  /\ forwarding' = NoManager
  /\ UNCHANGED <<owner, proc, backend, guard, child, gap>>

\* The second put is not guarded: a queue that is full again ends the thread.
PutAgain(m) ==
  /\ worker[m].running /\ worker[m].at = "emptied"
  /\ worker' = [worker EXCEPT ![m] =
       IF Room(@.frames) THEN Stored(@, @.held) ELSE Stopped(@, TRUE)]
  /\ forwarding' = NoManager
  /\ UNCHANGED <<owner, proc, backend, guard, child, gap>>

\* It fails, or sees its stop_event, between two frames.
WorkerEnds(m, error) ==
  /\ worker[m].running /\ worker[m].at \in {"waiting", "leaving"}
  /\ error \/ worker[m].stop
  /\ worker' = [worker EXCEPT ![m] = Stopped(@, error)]
  /\ forwarding' = NoManager
  /\ UNCHANGED <<owner, proc, backend, guard, child, gap>>

Older(n, limit) == IF n = Never \/ n > limit THEN n ELSE n + 1

\* Time passes for every manager; an age is counted until it is over its limit.
Tick ==
  /\ guard' = [m \in Managers |->
       IF proc[m] # "running" THEN guard[m]
       ELSE [guard[m] EXCEPT !.up = Older(@, StartupTimeout),
                             !.age = [k \in Streams |-> Older(@[k], Timeout)]]]
  /\ child' = [m \in Managers |-> [child[m] EXCEPT !.stopped = Older(@, KillAfter)]]
  /\ gap' = [m \in Managers |-> gap[m] \/ \E k \in Streams : guard'[m].age[k] > Timeout]
  /\ forwarding' = NoManager
  /\ UNCHANGED <<owner, proc, backend, worker>>

Next ==
  \/ Tick
  \/ \E m \in Managers :
       \/ \E b \in {"synthetic", "orbbec", "sdk"} : Start(m, b)
       \/ GiveUp(m)
       \/ \E k \in Streams, msg \in Modes \cup {Bad} : Receive(m, k, msg)
       \/ Acquire(m) \/ AcquireFails(m) \/ Monitor(m)
       \/ CloseBegins(m) \/ CloseChild(m) \/ CloseWorker(m) \/ CloseEnds(m) \/ Kill(m)
       \/ ParentExits(m) \/ DriverExits(m)
       \/ \E msg \in Modes \cup {Bad} : Capture(m, msg)
       \/ Discard(m) \/ PutAgain(m)
       \/ \E error \in BOOLEAN : WorkerEnds(m, error)

\* The executor's timer fires, close runs on, the SDK returns from its waits.
Fairness == /\ WF_vars(Tick)
            /\ \A m \in Managers : /\ WF_vars(Monitor(m))
                                   /\ WF_vars(CloseChild(m)) /\ WF_vars(CloseWorker(m))
                                   /\ WF_vars(CloseEnds(m))
                                   /\ WF_vars(Discard(m)) /\ WF_vars(PutAgain(m))
                                   /\ WF_vars(WorkerEnds(m, FALSE))

Safety == Init /\ [][Next]_vars
Spec == Safety /\ Fairness

-----------------------------------------------------------------------------
\* Types, and the queue of one: the SDK thread that gave up a frame finds room for
\* its own, whatever acquire takes between its two steps (sources.py's second
\* put_nowait would end the thread otherwise).
CameraTypeOK ==
  /\ owner \in Managers \cup {NoManager} /\ forwarding \in Managers \cup {NoManager}
  /\ proc \in [Managers -> {"new", "running", "closing", "gone", "killed"}]
  /\ backend \in [Managers -> {"none", "synthetic", "orbbec", "sdk"}]
  /\ guard \in [Managers -> [fault : BOOLEAN, up : 0..(StartupTimeout + 1),
                             sig : [Streams -> Modes \cup {NoMode}],
                             age : [Streams -> Never..(Timeout + 1)]]]
  /\ child \in [Managers -> [parent : BOOLEAN, driver : BOOLEAN, handle : BOOLEAN,
                             stopped : Never..(KillAfter + 1)]]
  /\ worker \in [Managers -> [running : BOOLEAN, stop : BOOLEAN, error : BOOLEAN,
                              frames : {<<>>} \cup {<<msg>> : msg \in Modes \cup {Bad}},
                              at : {"waiting", "full", "emptied", "leaving"},
                              held : Modes \cup {Bad, NoMode}]]
  /\ \A m \in Managers :
       /\ worker[m].at = "emptied" => worker[m].frames = <<>>
       /\ worker[m].at \in {"full", "emptied"} => worker[m].held \in Modes \cup {Bad}
  /\ gap \in [Managers -> BOOLEAN]

\* docs/camera_ingress.md: only the ingress opens the device.  Whatever has it
\* open works for the manager that holds the lock, through every way to close
\* and to fail; only a manager that was killed, or interrupted while it starts up,
\* leaves its driver behind.
LeaseCoversDevice ==
  \A m \in Managers : UsesDevice(m) => owner = m \/ proc[m] = "killed"

\* A message reaches the shared topics only from the holder of the lock, only
\* while all streams are alive and of one rig, with the signatures they had
\* from the start, and never again once one of them was silent for too long,
\* however it came back.
ForwardsOneLiveSession ==
  [][\A m \in Managers : forwarding' = m =>
       /\ owner' = m /\ ~gap'[m] /\ ~guard'[m].fault
       /\ \A k \in Streams :
            /\ guard'[m].age[k] \in 0..Timeout
            /\ guard[m].sig[k] \in {NoMode, guard'[m].sig[k]}
            /\ \A j \in Streams : guard'[m].sig[j].rig = guard'[m].sig[k].rig]_vars

\* docs/camera_ingress.md: under a fault the managed driver or SDK capture is
\* brought to an end, even if it ignores the interrupt or its parent is gone,
\* unless the manager itself is killed before it can.
FaultStopsDevice ==
  \A m \in Managers : guard[m].fault ~> ~UsesDevice(m) \/ proc[m] = "killed"
=============================================================================
