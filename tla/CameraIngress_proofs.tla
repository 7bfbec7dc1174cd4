------------------------ MODULE CameraIngress_proofs ------------------------
(***************************************************************************)
(* Proofs about zzx_camera.  Of CameraManager: that a device is only open  *)
(* on behalf of the holder of the lock, and that what is forwarded is one  *)
(* live session, for every number of managers and streams.  Of RgbdGate:   *)
(* what its loop yields for queues of any length, and that the pairs it    *)
(* returns are new and its verdict is earned, for every size and limit.    *)
(***************************************************************************)
EXTENDS CameraManager, RgbdGate, SequenceTheorems, WellFoundedInduction, TLAPS

Guards == [fault : BOOLEAN, up : 0..(StartupTimeout + 1),
           sig : [Streams -> Modes \cup {NoMode}],
           age : [Streams -> Never..(Timeout + 1)]]
Children == [parent : BOOLEAN, driver : BOOLEAN, handle : BOOLEAN,
             stopped : Never..(KillAfter + 1)]
WorkerRecords == [running : BOOLEAN, stop : BOOLEAN, error : BOOLEAN,
                  frames : {<<>>} \cup {<<msg>> : msg \in Modes \cup {Bad}},
                  at : {"waiting", "full", "emptied", "leaving"},
                  held : Modes \cup {Bad, NoMode}]
Workers == {w \in WorkerRecords :
              /\ w.at = "emptied" => w.frames = <<>>
              /\ w.at \in {"full", "emptied"} => w.held \in Modes \cup {Bad}}

Alive == {"running", "closing"}

\* The lock is held by the one manager that runs.
HolderIsAlive == \A m \in Managers : owner = m <=> proc[m] \in Alive

\* A driver has a manager that will stop it, unless that one was killed; an
\* SDK thread is a thread of a manager that runs.
DevicesHaveManagers ==
  \A m \in Managers :
    /\ child[m].driver => proc[m] = "killed" \/ (proc[m] \in Alive /\ child[m].handle)
    /\ worker[m].running => proc[m] \in Alive

\* A stream that fell silent is never forgotten by the guard.
GapsAreFaults == \A m \in Managers : gap[m] => Failing(guard[m])

CameraInv == CameraTypeOK /\ HolderIsAlive /\ DevicesHaveManagers /\ GapsAreFaults

-----------------------------------------------------------------------------
\* Guards and limits.

LEMMA OlderStays ==
  ASSUME NEW low \in {0, Never}, NEW limit \in Nat, NEW n \in low..(limit + 1)
  PROVE  /\ Older(n, limit) \in low..(limit + 1)
         /\ n > limit => Older(n, limit) > limit
         /\ Older(n, limit) = Never <=> n = Never
  BY DEF Older, Never

LEMMA ReceivedIsGuard ==
  ASSUME NEW g \in Guards, NEW ks \in SUBSET Streams, NEW msg
  PROVE  Received(g, ks, msg) \in Guards
<1>1. Faulty(g) \in Guards
  BY DEF Faulty, Guards
<1>2. ASSUME Acceptable(g, ks, msg) PROVE Heard(g, ks, msg) \in Guards
  <2>1. msg \in Modes /\ 0 \in Never..(Timeout + 1)
    BY <1>2, CameraAssumption DEF Acceptable, Never
  <2> QED BY <2>1 DEF Heard, Guards
<1> QED BY <1>1, <1>2 DEF Received

\* What receive leaves behind when it lets a message through.
LEMMA ReceivedGoodIsHeard ==
  ASSUME NEW g \in Guards, NEW ks \in SUBSET Streams, NEW msg,
         ~Failing(Received(g, ks, msg))
  PROVE  /\ ~Failing(g) /\ Acceptable(g, ks, msg)
         /\ Received(g, ks, msg) = Heard(g, ks, msg)
  BY DEF Received, Failing, Faulty, Guards

\* The guard of one manager when time passes.
Aged(g) == [g EXCEPT !.up = Older(@, StartupTimeout),
                     !.age = [k \in Streams |-> Older(@[k], Timeout)]]

LEMMA AgedIsGuard ==
  ASSUME NEW g \in Guards
  PROVE  /\ Aged(g) \in Guards
         /\ Failing(g) => Failing(Aged(g))
<1> DEFINE ages == [k \in Streams |-> Older(g.age[k], Timeout)]
<1>0. /\ Timeout \in Nat /\ StartupTimeout \in Nat
  BY CameraAssumption
<1>1. /\ g.fault \in BOOLEAN /\ g.up \in 0..(StartupTimeout + 1)
      /\ g.sig \in [Streams -> Modes \cup {NoMode}]
      /\ \A k \in Streams : g.age[k] \in Never..(Timeout + 1)
  BY DEF Guards
<1>2. /\ Older(g.up, StartupTimeout) \in 0..(StartupTimeout + 1)
      /\ g.up > StartupTimeout => Older(g.up, StartupTimeout) > StartupTimeout
  BY <1>0, <1>1, OlderStays
<1>3. \A k \in Streams : /\ ages[k] \in Never..(Timeout + 1)
                         /\ g.age[k] > Timeout => ages[k] > Timeout
                         /\ ages[k] = Never <=> g.age[k] = Never
  BY <1>0, <1>1, OlderStays
<1>4. /\ Aged(g).fault = g.fault /\ Aged(g).sig = g.sig
      /\ Aged(g).up = Older(g.up, StartupTimeout) /\ Aged(g).age = ages
  BY DEF Aged, Guards
<1>5. Aged(g) \in Guards
  <2>1. ages \in [Streams -> Never..(Timeout + 1)]
    BY <1>3
  <2> HIDE DEF ages
  <2>2. Aged(g) = [g EXCEPT !.up = Older(g.up, StartupTimeout), !.age = ages]
    BY DEF Aged, ages
  <2> QED BY <1>2, <2>1, <2>2 DEF Guards
<1> HIDE DEF ages
<1> QED BY <1>2, <1>3, <1>4, <1>5 DEF Failing

-----------------------------------------------------------------------------
\* The parts of the state, one step at a time.

Manages(m) ==
  \/ \E b \in {"synthetic", "orbbec", "sdk"} : Start(m, b)
  \/ GiveUp(m)
  \/ \E k \in Streams, msg \in Modes \cup {Bad} : Receive(m, k, msg)
  \/ Acquire(m) \/ AcquireFails(m) \/ Monitor(m)
  \/ CloseBegins(m) \/ CloseChild(m) \/ CloseWorker(m) \/ CloseEnds(m) \/ Kill(m)
  \/ ParentExits(m) \/ DriverExits(m)
  \/ \E msg \in Modes \cup {Bad} : Capture(m, msg)
  \/ Discard(m) \/ PutAgain(m)
  \/ \E error \in BOOLEAN : WorkerEnds(m, error)

LEMMA NextIsTickOrManages == Next => Tick \/ \E m \in Managers : Manages(m)
  BY Zenon DEF Next, Manages

\* What a step does to the guards: nothing, or one guard received messages,
\* or time passed, or a manager found a fault, was cleared by monitor, or
\* ended and took its guard along.
LEMMA GuardSteps ==
  ASSUME CameraTypeOK, Next
  PROVE  \/ UNCHANGED <<guard, gap>>
         \/ /\ \A m \in Managers :
                 \/ guard'[m] = guard[m]
                 \/ guard'[m] = Aged(guard[m])
            /\ gap' = [m \in Managers |->
                         gap[m] \/ \E k \in Streams : guard'[m].age[k] > Timeout]
            /\ guard' \in [Managers -> Guards]
         \/ \E m \in Managers : \E g \in Guards :
              /\ guard' = [guard EXCEPT ![m] = g]
              /\ \/ gap' = gap /\ (Failing(guard[m]) => Failing(g))
                 \/ gap' = [gap EXCEPT ![m] = FALSE]
<1> DEFINE Goal ==
      \/ UNCHANGED <<guard, gap>>
      \/ /\ \A m \in Managers :
              \/ guard'[m] = guard[m]
              \/ guard'[m] = Aged(guard[m])
         /\ gap' = [m \in Managers |->
                      gap[m] \/ \E k \in Streams : guard'[m].age[k] > Timeout]
         /\ guard' \in [Managers -> Guards]
      \/ \E m \in Managers : \E g \in Guards :
           /\ guard' = [guard EXCEPT ![m] = g]
           /\ \/ gap' = gap /\ (Failing(guard[m]) => Failing(g))
              \/ gap' = [gap EXCEPT ![m] = FALSE]
<1>0. guard \in [Managers -> Guards]
  BY DEF CameraTypeOK, Guards
<1>1. ASSUME Tick PROVE Goal
  <2>1. \A m \in Managers : guard'[m] = IF proc[m] # "running" THEN guard[m]
                                       ELSE Aged(guard[m])
    BY <1>1 DEF Tick, Aged
  <2>2. DOMAIN guard' = Managers /\ guard' = [m \in Managers |-> guard'[m]]
    BY <1>1 DEF Tick
  <2>3. \A m \in Managers : guard'[m] \in Guards
    BY <1>0, <2>1, AgedIsGuard
  <2>4. guard' \in [Managers -> Guards]
    BY <2>2, <2>3
  <2> QED BY <1>1, <2>1, <2>4 DEF Tick
<1>2. ASSUME NEW m \in Managers, NEW ks \in SUBSET Streams, NEW msg,
             Deliver(m, ks, msg), gap' = gap
      PROVE  Goal
  <2>1. Received(guard[m], ks, msg) \in Guards
    BY <1>0, ReceivedIsGuard
  <2>2. Failing(guard[m]) => Failing(Received(guard[m], ks, msg))
    BY <1>0, ReceivedGoodIsHeard
  <2> QED BY <1>2, <2>1, <2>2 DEF Deliver
<1>3. ASSUME NEW m \in Managers, NEW k \in Streams, NEW msg \in Modes \cup {Bad},
             Receive(m, k, msg)
      PROVE  Goal
  <2> HIDE DEF Goal
  <2> QED BY <1>2, <1>3 DEF Receive
<1>4. ASSUME NEW m \in Managers, Acquire(m) PROVE Goal
  <2> HIDE DEF Goal
  <2> QED BY <1>2, <1>4 DEF Acquire
<1>5. ASSUME NEW m \in Managers, AcquireFails(m) PROVE Goal
  <2>1. Faulty(guard[m]) \in Guards /\ Failing(Faulty(guard[m]))
    BY <1>0 DEF Faulty, Guards, Failing
  <2>2. guard' = [guard EXCEPT ![m] = Faulty(guard[m])] /\ gap' = gap
    BY <1>0, <1>5 DEF AcquireFails
  <2> QED BY <2>1, <2>2
<1>6. ASSUME NEW m \in Managers, Monitor(m) PROVE Goal
  <2>1. PICK fault \in BOOLEAN : /\ guard' = [guard EXCEPT ![m].fault = fault]
                                 /\ gap' = gap
                                 /\ Failing(guard[m]) => fault
    <3>1. PICK dup \in BOOLEAN :
            \E fault \in {\/ Failing(guard[m]) \/ dup
                          \/ child[m].handle /\ ~child[m].parent} :
              guard' = [guard EXCEPT ![m].fault = fault]
      BY <1>6 DEF Monitor
    <3>2. \A P, Q : (P \/ dup \/ Q) \in BOOLEAN
      OBVIOUS
    <3> QED BY <1>6, <3>1, <3>2 DEF Monitor
  <2> DEFINE g == [guard[m] EXCEPT !.fault = fault]
  <2>2. guard' = [guard EXCEPT ![m] = g]
    BY <1>0, <2>1
  <2>3. guard[m] \in Guards
    BY <1>0
  <2>4. g \in Guards /\ g.fault = fault
    BY <2>3 DEF Guards
  <2>5. Failing(guard[m]) => Failing(g)
    BY <2>1, <2>4 DEF Failing
  <2> HIDE DEF g
  <2> QED BY <2>1, <2>2, <2>4, <2>5
<1>7. ASSUME NEW m \in Managers, NEW how, Ends(m, how) PROVE Goal
  <2>1. NewGuard \in Guards
    <3>1. StartupTimeout \in Nat /\ Timeout \in Nat
      BY CameraAssumption
    <3> QED BY <3>1 DEF NewGuard, Guards, Never
  <2> QED BY <1>7, <2>1 DEF Ends
<1>8. ASSUME NEW m \in Managers, CloseEnds(m) \/ Kill(m) PROVE Goal
  <2> HIDE DEF Goal
  <2> QED BY <1>7, <1>8 DEF CloseEnds, Kill
<1>9. ASSUME NEW m \in Managers,
             \/ \E b \in {"synthetic", "orbbec", "sdk"} : Start(m, b)
             \/ GiveUp(m)
             \/ CloseBegins(m) \/ CloseChild(m) \/ CloseWorker(m)
             \/ ParentExits(m) \/ DriverExits(m)
             \/ \E msg \in Modes \cup {Bad} : Capture(m, msg)
             \/ Discard(m) \/ PutAgain(m)
             \/ \E error \in BOOLEAN : WorkerEnds(m, error)
      PROVE  Goal
  BY <1>9 DEF Start, GiveUp, CloseBegins, CloseChild, CloseWorker, ParentExits,
              DriverExits, Capture, Discard, PutAgain, WorkerEnds
<1> HIDE DEF Goal
<1>10. ASSUME NEW m \in Managers, Manages(m) PROVE Goal
  BY <1>3, <1>4, <1>5, <1>6, <1>8, <1>9, <1>10 DEF Manages
<1>11. Goal
  BY <1>1, <1>10, NextIsTickOrManages
<1> QED BY <1>11 DEF Goal

LEMMA GuardsKeepFaults ==
  ASSUME CameraTypeOK, GapsAreFaults, Next
  PROVE  /\ guard' \in [Managers -> Guards]
         /\ gap' \in [Managers -> BOOLEAN]
         /\ GapsAreFaults'
<1>0. guard \in [Managers -> Guards] /\ gap \in [Managers -> BOOLEAN]
  BY DEF CameraTypeOK, Guards
<1>1. CASE UNCHANGED <<guard, gap>>
  BY <1>0, <1>1 DEF GapsAreFaults, Failing
<1>2. CASE /\ \A m \in Managers : \/ guard'[m] = guard[m]
                                  \/ guard'[m] = Aged(guard[m])
           /\ gap' = [m \in Managers |->
                        gap[m] \/ \E k \in Streams : guard'[m].age[k] > Timeout]
           /\ guard' \in [Managers -> Guards]
  <2>1. \A m \in Managers : Failing(guard[m]) => Failing(guard'[m])
    BY <1>0, <1>2, AgedIsGuard
  <2>2. \A m \in Managers : gap'[m] => Failing(guard'[m])
    BY <1>2, <2>1 DEF GapsAreFaults, Failing
  <2>3. gap' \in [Managers -> BOOLEAN]
    <3>1. \A m \in Managers :
            (gap[m] \/ \E k \in Streams : guard'[m].age[k] > Timeout) \in BOOLEAN
      BY <1>0
    <3> QED BY <1>2, <3>1
  <2> QED BY <1>2, <2>2, <2>3 DEF GapsAreFaults, Failing
<1>3. CASE \E m \in Managers : \E g \in Guards :
             /\ guard' = [guard EXCEPT ![m] = g]
             /\ \/ gap' = gap /\ (Failing(guard[m]) => Failing(g))
                \/ gap' = [gap EXCEPT ![m] = FALSE]
  <2>1. PICK m \in Managers, g \in Guards :
          /\ guard' = [guard EXCEPT ![m] = g]
          /\ \/ gap' = gap /\ (Failing(guard[m]) => Failing(g))
             \/ gap' = [gap EXCEPT ![m] = FALSE]
    BY <1>3
  <2>2. /\ guard' \in [Managers -> Guards] /\ gap' \in [Managers -> BOOLEAN]
        /\ guard'[m] = g /\ \A n \in Managers \ {m} : guard'[n] = guard[n]
    BY <1>0, <2>1
  <2>3. \A n \in Managers : gap'[n] => Failing(guard'[n])
    BY <1>0, <2>1, <2>2 DEF GapsAreFaults
  <2> QED BY <2>2, <2>3 DEF GapsAreFaults, Failing
<1> QED BY <1>1, <1>2, <1>3, GuardSteps

\* The lock and the life of a manager go together.
LEMMA HolderStep ==
  ASSUME CameraTypeOK, HolderIsAlive, Next
  PROVE  /\ owner' \in Managers \cup {NoManager}
         /\ forwarding' \in Managers \cup {NoManager}
         /\ proc' \in [Managers -> {"new", "running", "closing", "gone", "killed"}]
         /\ backend' \in [Managers -> {"none", "synthetic", "orbbec", "sdk"}]
         /\ HolderIsAlive'
<1> DEFINE Goal ==
      /\ owner' \in Managers \cup {NoManager}
      /\ forwarding' \in Managers \cup {NoManager}
      /\ proc' \in [Managers -> {"new", "running", "closing", "gone", "killed"}]
      /\ backend' \in [Managers -> {"none", "synthetic", "orbbec", "sdk"}]
      /\ \A m \in Managers : owner' = m <=> proc'[m] \in Alive
<1> USE DEF Alive
<1>0. /\ owner \in Managers \cup {NoManager}
      /\ proc \in [Managers -> {"new", "running", "closing", "gone", "killed"}]
      /\ backend \in [Managers -> {"none", "synthetic", "orbbec", "sdk"}]
      /\ \A m \in Managers : owner = m <=> proc[m] \in Alive
      /\ NoManager \notin Managers
  BY CameraAssumption DEF CameraTypeOK, HolderIsAlive
<1>1. ASSUME UNCHANGED <<owner, proc, backend>>,
             forwarding' \in Managers \cup {NoManager}
      PROVE  Goal
  BY <1>0, <1>1
<1>2. ASSUME NEW m \in Managers, NEW ks, NEW msg, Deliver(m, ks, msg)
      PROVE  forwarding' \in Managers \cup {NoManager}
  BY <1>2 DEF Deliver
<1>3. ASSUME NEW m \in Managers, NEW how \in {"gone", "killed"}, Ends(m, how),
             proc[m] \in Alive
      PROVE  Goal
  BY <1>0, <1>3 DEF Ends
<1>4. ASSUME Tick PROVE Goal
  BY <1>1, <1>4 DEF Tick
<1>5. ASSUME NEW m \in Managers,
             NEW b \in {"synthetic", "orbbec", "sdk"}, Start(m, b)
      PROVE  Goal
  BY <1>0, <1>5 DEF Start
<1>6. ASSUME NEW m \in Managers, GiveUp(m) PROVE Goal
  BY <1>0, <1>6 DEF GiveUp
<1>7. ASSUME NEW m \in Managers, CloseBegins(m) PROVE Goal
  BY <1>0, <1>7 DEF CloseBegins
<1>8. ASSUME NEW m \in Managers, CloseEnds(m) \/ Kill(m) PROVE Goal
  <2>1. proc[m] \in Alive /\ \E how \in {"gone", "killed"} : Ends(m, how)
    BY <1>8 DEF CloseEnds, Kill
  <2> HIDE DEF Goal
  <2> QED BY <1>3, <2>1
<1>9. ASSUME NEW m \in Managers,
             \/ \E k \in Streams, msg \in Modes \cup {Bad} : Receive(m, k, msg)
             \/ Acquire(m)
      PROVE  Goal
  <2>1. /\ UNCHANGED <<owner, proc, backend>>
        /\ \E ks, msg : Deliver(m, ks, msg)
    BY <1>9 DEF Receive, Acquire
  <2> HIDE DEF Goal
  <2> QED BY <1>1, <1>2, <2>1
<1>10. ASSUME NEW m \in Managers,
              \/ AcquireFails(m) \/ Monitor(m) \/ CloseChild(m) \/ CloseWorker(m)
              \/ ParentExits(m) \/ DriverExits(m)
              \/ \E msg \in Modes \cup {Bad} : Capture(m, msg)
              \/ Discard(m) \/ PutAgain(m)
              \/ \E error \in BOOLEAN : WorkerEnds(m, error)
       PROVE  Goal
  <2>1. UNCHANGED <<owner, proc, backend>> /\ forwarding' = NoManager
    BY <1>10 DEF AcquireFails, Monitor, CloseChild, CloseWorker, ParentExits,
                 DriverExits, Capture, Discard, PutAgain, WorkerEnds
  <2> HIDE DEF Goal
  <2> QED BY <1>1, <2>1
<1> HIDE DEF Goal
<1>11. ASSUME NEW m \in Managers, Manages(m) PROVE Goal
  BY <1>5, <1>6, <1>7, <1>8, <1>9, <1>10, <1>11 DEF Manages
<1>12. Goal
  BY <1>4, <1>11, NextIsTickOrManages
<1> QED BY <1>12 DEF Goal, HolderIsAlive

\* The SDK thread: a frame goes into a queue that is empty, and what it finds in
\* the way it has given up before it puts its own.
LEMMA StoredIsWorker ==
  ASSUME NEW w \in Workers, w.frames = <<>>, NEW msg \in Modes \cup {Bad}
  PROVE  Stored(w, msg) \in Workers
<1>1. Append(w.frames, msg) = <<msg>>
  OBVIOUS
<1>2. [w EXCEPT !.frames = <<msg>>, !.held = NoMode,
                !.at = IF w.stop THEN "leaving" ELSE "waiting"] \in Workers
  BY DEF Workers, WorkerRecords
<1> QED BY <1>1, <1>2 DEF Stored

LEMMA StoppedIsWorker ==
  ASSUME NEW w \in Workers, NEW error \in BOOLEAN
  PROVE  Stopped(w, error) \in Workers
<1>1. (w.error \/ error) \in BOOLEAN
  BY DEF Workers, WorkerRecords
<1> QED BY <1>1 DEF Stopped, Workers, WorkerRecords

LEMMA SdkSteps ==
  ASSUME worker \in [Managers -> Workers], NEW m \in Managers,
         \/ \E msg \in Modes \cup {Bad} : Capture(m, msg)
         \/ Discard(m) \/ PutAgain(m)
         \/ \E error \in BOOLEAN : WorkerEnds(m, error)
  PROVE  \E w \in Workers : worker' = [worker EXCEPT ![m] = w]
<1>1. ASSUME NEW msg \in Modes \cup {Bad}, Capture(m, msg)
      PROVE  \E w \in Workers : worker' = [worker EXCEPT ![m] = w]
  <2> DEFINE full == [worker[m] EXCEPT !.at = "full", !.held = msg]
  <2>1. full \in Workers
    BY DEF Workers, WorkerRecords
  <2> HIDE DEF full
  <2>2. CASE Room(worker[m].frames)
    BY <1>1, <2>2, StoredIsWorker DEF Capture, Room
  <2>3. CASE ~Room(worker[m].frames)
    BY <1>1, <2>1, <2>3 DEF Capture, full
  <2> QED BY <2>2, <2>3
<1>2. CASE Discard(m)
  <2> DEFINE w == [worker[m] EXCEPT !.at = "emptied", !.frames = <<>>]
  <2>1. worker[m].frames # <<>> => Tail(worker[m].frames) = <<>>
    <3>1. SUFFICES ASSUME worker[m].frames # <<>> PROVE Tail(worker[m].frames) = <<>>
      OBVIOUS
    <3>2. PICK msg : worker[m].frames = <<msg>>
      BY <3>1 DEF Workers, WorkerRecords
    <3> QED BY <3>2
  <2>2. worker' = [worker EXCEPT ![m] = w]
    BY <1>2, <2>1 DEF Discard
  <2>3. w \in Workers
    <3>1. worker[m].held \in Modes \cup {Bad}
      BY <1>2 DEF Discard, Workers
    <3>2. w.at = "emptied" /\ w.frames = <<>> /\ w.held = worker[m].held
      BY DEF Workers, WorkerRecords
    <3>3. w \in WorkerRecords
      BY DEF Workers, WorkerRecords
    <3> HIDE DEF w
    <3>4. /\ w.at = "emptied" => w.frames = <<>>
          /\ w.at \in {"full", "emptied"} => w.held \in Modes \cup {Bad}
      BY <3>1, <3>2
    <3> QED BY <3>3, <3>4, Zenon DEF Workers
  <2> QED BY <2>2, <2>3
<1>3. CASE PutAgain(m)
  <2>1. Room(worker[m].frames) /\ worker[m].held \in Modes \cup {Bad}
    BY <1>3 DEF PutAgain, Room, Workers
  <2> QED BY <1>3, <2>1, StoredIsWorker DEF PutAgain, Room
<1>4. ASSUME NEW error \in BOOLEAN, WorkerEnds(m, error)
      PROVE  \E w \in Workers : worker' = [worker EXCEPT ![m] = w]
  BY <1>4, StoppedIsWorker DEF WorkerEnds
<1> QED BY <1>1, <1>2, <1>3, <1>4

\* Devices are opened by a constructor and closed before the lock is let go.
LEMMA DeviceStep ==
  ASSUME CameraTypeOK, HolderIsAlive, DevicesHaveManagers, Next
  PROVE  /\ child' \in [Managers -> Children] /\ worker' \in [Managers -> Workers]
         /\ DevicesHaveManagers'
<1> DEFINE Goal == /\ child' \in [Managers -> Children]
                   /\ worker' \in [Managers -> Workers]
                   /\ DevicesHaveManagers'
<1> USE DEF Alive
<1>0. /\ proc \in [Managers -> {"new", "running", "closing", "gone", "killed"}]
      /\ child \in [Managers -> Children] /\ worker \in [Managers -> Workers]
      /\ KillAfter \in Nat /\ 0 \in Never..(KillAfter + 1) /\ Never \in Never..(KillAfter + 1)
  BY CameraAssumption DEF CameraTypeOK, Children, Workers, WorkerRecords, Never
\* A step changes one manager's child, worker or life; the others' stay.
<1>1. ASSUME NEW m \in Managers,
             child' \in [Managers -> Children], worker' \in [Managers -> Workers],
             \A n \in Managers \ {m} : /\ child'[n] = child[n]
                                       /\ worker'[n] = worker[n]
                                       /\ proc'[n] = proc[n],
             child'[m].driver =>
               proc'[m] = "killed" \/ (proc'[m] \in Alive /\ child'[m].handle),
             worker'[m].running => proc'[m] \in Alive
      PROVE  Goal
  BY <1>1 DEF DevicesHaveManagers
<1>2. ASSUME NEW m \in Managers, NEW c \in Children, worker' = worker, proc' = proc,
             child' = [child EXCEPT ![m] = c],
             c.driver => child[m].driver /\ c.handle = child[m].handle
      PROVE  Goal
  <2>1. child' \in [Managers -> Children] /\ child'[m] = c
    BY <1>0, <1>2
  <2> HIDE DEF Goal
  <2> QED BY <1>0, <1>1, <1>2, <2>1 DEF DevicesHaveManagers
<1>21. ASSUME NEW m \in Managers, NEW w \in Workers, child' = child, proc' = proc,
              worker' = [worker EXCEPT ![m] = w], w.running => worker[m].running
       PROVE  Goal
  <2>1. worker' \in [Managers -> Workers] /\ worker'[m] = w
    BY <1>0, <1>21
  <2> HIDE DEF Goal
  <2> QED BY <1>0, <1>1, <1>21, <2>1 DEF DevicesHaveManagers
<1>22. ASSUME child' = child, worker' = worker, proc' = proc PROVE Goal
  BY <1>0, <1>22 DEF DevicesHaveManagers
<1> HIDE DEF Goal
<1>3. ASSUME Tick PROVE Goal
  <2>1. \A m \in Managers :
          child'[m] = [child[m] EXCEPT !.stopped = Older(child[m].stopped, KillAfter)]
    BY <1>3 DEF Tick
  <2>2. \A m \in Managers : Older(child[m].stopped, KillAfter) \in Never..(KillAfter + 1)
    BY <1>0, OlderStays DEF Children
  <2>3. \A m \in Managers : /\ child'[m] \in Children
                            /\ child'[m].driver = child[m].driver
                            /\ child'[m].handle = child[m].handle
    <3>1. ASSUME NEW c \in Children, NEW n \in Never..(KillAfter + 1)
          PROVE  /\ [c EXCEPT !.stopped = n] \in Children
                 /\ [c EXCEPT !.stopped = n].driver = c.driver
                 /\ [c EXCEPT !.stopped = n].handle = c.handle
      BY DEF Children
    <3> TAKE m \in Managers
    <3>2. child[m] \in Children
      BY <1>0
    <3> DEFINE n == Older(child[m].stopped, KillAfter)
    <3>3. n \in Never..(KillAfter + 1) /\ child'[m] = [child[m] EXCEPT !.stopped = n]
      BY <2>1, <2>2
    <3> HIDE DEF n
    <3> QED BY <3>1, <3>2, <3>3
  <2>4. child' = [m \in Managers |-> child'[m]]
    BY <1>3 DEF Tick
  <2>5. child' \in [Managers -> Children]
    BY <2>3, <2>4
  <2> QED BY <1>0, <1>3, <2>3, <2>5 DEF Goal, Tick, DevicesHaveManagers
<1>4. ASSUME NEW m \in Managers,
             NEW b \in {"synthetic", "orbbec", "sdk"}, Start(m, b)
      PROVE  Goal
  <2> DEFINE yes == (b = "orbbec")
             c == [child[m] EXCEPT !.parent = yes, !.driver = yes, !.handle = yes]
             sdk == (b = "sdk")
             w == [worker[m] EXCEPT !.running = sdk]
  <2>1. /\ child' = [child EXCEPT ![m] = c] /\ worker' = [worker EXCEPT ![m] = w]
        /\ proc' = [proc EXCEPT ![m] = "running"]
    BY <1>0, <1>4 DEF Start
  <2>2. c \in Children /\ (c.driver <=> yes) /\ (c.handle <=> yes)
    <3>1. yes \in BOOLEAN
      OBVIOUS
    <3> HIDE DEF yes
    <3> QED BY <1>0, <3>1 DEF Children
  <2>3. w \in Workers
    <3>1. sdk \in BOOLEAN
      OBVIOUS
    <3> HIDE DEF sdk
    <3> QED BY <1>0, <3>1 DEF Workers, WorkerRecords
  <2> HIDE DEF c, w
  <2>4. /\ child' \in [Managers -> Children] /\ worker' \in [Managers -> Workers]
        /\ child'[m] = c /\ proc'[m] = "running"
    BY <1>0, <2>1, <2>2, <2>3
  <2> QED BY <1>1, <2>1, <2>2, <2>4
<1>5. ASSUME NEW m \in Managers, GiveUp(m) PROVE Goal
  <2>1. /\ proc[m] = "new" /\ proc' = [proc EXCEPT ![m] = "gone"]
        /\ child' = child /\ worker' = worker
    BY <1>5 DEF GiveUp, sources
  <2>2. ~child[m].driver /\ ~worker[m].running
    BY <2>1 DEF DevicesHaveManagers
  <2> QED BY <1>0, <1>1, <2>1, <2>2
<1>6. ASSUME NEW m \in Managers, CloseBegins(m) PROVE Goal
  <2>1. /\ proc[m] = "running" /\ proc' = [proc EXCEPT ![m] = "closing"]
        /\ child' = child /\ worker' = worker
    BY <1>6 DEF CloseBegins, sources
  <2>2. proc'[m] = "closing" /\ (child[m].driver => child[m].handle)
    BY <1>0, <2>1 DEF DevicesHaveManagers
  <2> QED BY <1>0, <1>1, <2>1, <2>2
<1>7. ASSUME NEW m \in Managers,
             \/ \E k \in Streams, msg \in Modes \cup {Bad} : Receive(m, k, msg)
             \/ AcquireFails(m)
      PROVE  Goal
  <2>1. child' = child /\ worker' = worker /\ proc' = proc
    BY <1>7 DEF Receive, AcquireFails, sources
  <2> QED BY <1>22, <2>1
<1>8. ASSUME NEW m \in Managers, Acquire(m) PROVE Goal
  <2>1. child' = child /\ proc' = proc
    BY <1>8 DEF Acquire
  <2>2. CASE worker' = worker
    BY <1>22, <2>1, <2>2
  <2>3. CASE /\ worker[m].frames # <<>>
             /\ worker' = [worker EXCEPT ![m].frames = Tail(@)]
    <3> DEFINE w == [worker[m] EXCEPT !.frames = <<>>]
    <3>1. Tail(worker[m].frames) = <<>>
      <4>1. PICK msg : worker[m].frames = <<msg>>
        BY <1>0, <2>3 DEF Workers, WorkerRecords
      <4> QED BY <4>1
    <3>2. worker' = [worker EXCEPT ![m] = w]
      BY <1>0, <2>3, <3>1
    <3>3. w \in Workers /\ w.running = worker[m].running
      BY <1>0 DEF Workers, WorkerRecords
    <3> HIDE DEF w
    <3> QED BY <1>21, <2>1, <3>2, <3>3
  <2> QED BY <1>8, <2>2, <2>3 DEF Acquire
<1>9. ASSUME NEW c \in Children PROVE Killed(c) \in Children /\ Stopping(c) \in Children
  <2>1. Killed(c) \in Children
    BY DEF Killed, Children
  <2>2. [c EXCEPT !.stopped = 0] \in Children
    BY <1>0 DEF Children
  <2> QED BY <2>1, <2>2 DEF Stopping
<1>10. ASSUME NEW c \in Children
       PROVE  /\ Stopping(c).handle = c.handle /\ (Stopping(c).driver => c.driver)
              /\ ~Killed(c).driver
  <2>1. /\ Killed(c).handle = c.handle /\ Killed(c).driver = FALSE
        /\ [c EXCEPT !.stopped = 0].handle = c.handle
        /\ [c EXCEPT !.stopped = 0].driver = c.driver
    BY DEF Killed, Children
  <2> QED BY <2>1 DEF Stopping
<1>11. ASSUME NEW m \in Managers, Monitor(m) PROVE Goal
  <2>1. PICK fault \in BOOLEAN :
          /\ worker' = [worker EXCEPT ![m].stop = @ \/ (fault /\ backend[m] = "sdk")]
          /\ child' = [child EXCEPT ![m] = IF fault THEN Stopping(@) ELSE @]
    BY <1>11 DEF Monitor
  <2> DEFINE stop == worker[m].stop \/ (fault /\ backend[m] = "sdk")
             w == [worker[m] EXCEPT !.stop = stop]
             c == IF fault THEN Stopping(child[m]) ELSE child[m]
  <2>2. /\ worker' = [worker EXCEPT ![m] = w] /\ child' = [child EXCEPT ![m] = c]
        /\ proc' = proc
    BY <1>0, <1>11, <2>1 DEF Monitor
  <2>3. c \in Children /\ c.handle = child[m].handle /\ (c.driver => child[m].driver)
    BY <1>0, <1>9, <1>10
  <2>4. w \in Workers /\ w.running = worker[m].running
    <3>1. stop \in BOOLEAN
      BY <1>0 DEF Workers, WorkerRecords
    <3> HIDE DEF stop
    <3> QED BY <1>0, <3>1 DEF Workers, WorkerRecords
  <2> HIDE DEF c, w
  <2>5. /\ child' \in [Managers -> Children] /\ worker' \in [Managers -> Workers]
        /\ child'[m] = c /\ worker'[m] = w
    BY <1>0, <2>2, <2>3, <2>4
  <2> QED BY <1>1, <2>2, <2>3, <2>4, <2>5 DEF DevicesHaveManagers
<1>12. ASSUME NEW m \in Managers, CloseChild(m) PROVE Goal
  <2> DEFINE c == [Killed(child[m]) EXCEPT !.handle = FALSE]
  <2>1. /\ worker' = worker /\ proc' = proc /\ child' = [child EXCEPT ![m] = c]
    BY <1>0, <1>12 DEF CloseChild
  <2>2. Killed(child[m]) \in Children /\ ~Killed(child[m]).driver
    BY <1>0, <1>9, <1>10
  <2>3. c \in Children /\ ~c.driver
    BY <2>2 DEF Children
  <2> HIDE DEF c
  <2> QED BY <1>2, <2>1, <2>3
<1>13. ASSUME NEW m \in Managers, CloseWorker(m) PROVE Goal
  <2> DEFINE w == [worker[m] EXCEPT !.stop = TRUE]
  <2>1. child' = child /\ proc' = proc /\ worker' = [worker EXCEPT ![m] = w]
    BY <1>0, <1>13 DEF CloseWorker
  <2>2. w \in Workers /\ w.running = worker[m].running
    BY <1>0 DEF Workers, WorkerRecords
  <2> HIDE DEF w
  <2> QED BY <1>21, <2>1, <2>2
<1>14. ASSUME NEW m \in Managers, NEW how \in {"gone", "killed"}, Ends(m, how),
              how = "gone" => ~child[m].driver
       PROVE  Goal
  <2> DEFINE c == [child[m] EXCEPT !.handle = FALSE, !.stopped = Never]
  <2>1. /\ child' = [child EXCEPT ![m] = c] /\ proc' = [proc EXCEPT ![m] = how]
        /\ worker' = [worker EXCEPT ![m] = NoWorker]
    BY <1>0, <1>14 DEF Ends
  <2>2. c \in Children /\ c.driver = child[m].driver
    BY <1>0 DEF Children
  <2>3. NoWorker \in Workers /\ ~NoWorker.running
    BY DEF NoWorker, Workers, WorkerRecords
  <2> HIDE DEF c
  <2>4. /\ child' \in [Managers -> Children] /\ worker' \in [Managers -> Workers]
        /\ child'[m] = c /\ worker'[m] = NoWorker /\ proc'[m] = how
    BY <1>0, <2>1, <2>2, <2>3
  <2>5. child'[m].driver =>
          proc'[m] = "killed" \/ (proc'[m] \in Alive /\ child'[m].handle)
    BY <1>14, <2>2, <2>4
  <2>6. \A n \in Managers \ {m} : /\ child'[n] = child[n] /\ worker'[n] = worker[n]
                                  /\ proc'[n] = proc[n]
    BY <2>1
  <2>7. worker'[m].running => proc'[m] \in Alive
    BY <2>3, <2>4
  <2> QED BY <1>1, <2>4, <2>5, <2>6, <2>7
<1>15. ASSUME NEW m \in Managers, CloseEnds(m) PROVE Goal
  <2>1. proc[m] = "closing" /\ ~child[m].handle /\ Ends(m, "gone")
    BY <1>15 DEF CloseEnds
  <2>2. ~child[m].driver
    BY <2>1 DEF DevicesHaveManagers
  <2> QED BY <1>14, <2>1, <2>2
<1>16. ASSUME NEW m \in Managers, Kill(m) PROVE Goal
  BY <1>14, <1>16 DEF Kill
<1>17. ASSUME NEW m \in Managers, ParentExits(m) \/ DriverExits(m) PROVE Goal
  <2>1. PICK c \in {[child[m] EXCEPT !.parent = FALSE], [child[m] EXCEPT !.driver = FALSE]} :
          child' = [child EXCEPT ![m] = c] /\ worker' = worker /\ proc' = proc
    BY <1>0, <1>17 DEF ParentExits, DriverExits
  <2>2. c \in Children /\ c.handle = child[m].handle /\ (c.driver => child[m].driver)
    BY <1>0 DEF Children
  <2> QED BY <1>2, <2>1, <2>2
<1>18. ASSUME NEW m \in Managers,
              \/ \E msg \in Modes \cup {Bad} : Capture(m, msg)
              \/ Discard(m) \/ PutAgain(m)
              \/ \E error \in BOOLEAN : WorkerEnds(m, error)
       PROVE  Goal
  <2>1. child' = child /\ proc' = proc /\ worker[m].running
    BY <1>18 DEF Capture, Discard, PutAgain, WorkerEnds
  <2>2. \E w \in Workers : worker' = [worker EXCEPT ![m] = w]
    BY <1>0, <1>18, SdkSteps
  <2> HIDE DEF Goal
  <2> QED BY <1>21, <2>1, <2>2
<1>19. ASSUME NEW m \in Managers, Manages(m) PROVE Goal
  BY <1>4, <1>5, <1>6, <1>7, <1>8, <1>11, <1>12, <1>13, <1>15, <1>16, <1>17, <1>18,
     <1>19 DEF Manages
<1>20. Goal
  BY <1>3, <1>19, NextIsTickOrManages
<1> QED BY <1>20 DEF Goal

-----------------------------------------------------------------------------
\* The invariant, and what follows from it.

LEMMA CameraInit == Init => CameraInv
<1>0. /\ NoManager \notin Managers
      /\ Timeout \in Nat /\ StartupTimeout \in Nat /\ KillAfter \in Nat
  BY CameraAssumption
<1> SUFFICES ASSUME Init PROVE CameraInv
  OBVIOUS
<1>1. NewGuard \in Guards /\ NoChild \in Children /\ NoWorker \in Workers
  BY <1>0 DEF NewGuard, NoChild, NoWorker, Guards, Children, Workers, WorkerRecords, Never
<1>2. CameraTypeOK
  BY <1>1 DEF Init, CameraTypeOK, Guards, Children, Workers, WorkerRecords
<1>3. HolderIsAlive
  BY <1>0 DEF Init, HolderIsAlive, Alive
<1>4. DevicesHaveManagers
  BY DEF Init, DevicesHaveManagers, NoChild, NoWorker
<1>5. GapsAreFaults
  BY DEF Init, GapsAreFaults
<1> QED BY <1>2, <1>3, <1>4, <1>5 DEF CameraInv

LEMMA CameraStep == CameraInv /\ [Next]_vars => CameraInv'
<1> SUFFICES ASSUME CameraInv, [Next]_vars PROVE CameraInv'
  OBVIOUS
<1>0. CameraTypeOK /\ HolderIsAlive /\ DevicesHaveManagers /\ GapsAreFaults
  BY DEF CameraInv
<1>1. CASE Next
  <2>1. CameraTypeOK'
    BY <1>0, <1>1, GuardsKeepFaults, HolderStep, DeviceStep
    DEF CameraTypeOK, Guards, Children, Workers, WorkerRecords
  <2> QED BY <1>0, <1>1, <2>1, GuardsKeepFaults, HolderStep, DeviceStep DEF CameraInv
<1>2. CASE UNCHANGED vars
  BY <1>2 DEF vars, sources, CameraInv, CameraTypeOK, HolderIsAlive,
              DevicesHaveManagers, GapsAreFaults, Failing
<1> QED BY <1>1, <1>2

LEMMA CameraInvariant == Safety => []CameraInv
  BY CameraInit, CameraStep, PTL DEF Safety

\* The state of the camera managers has its types, and the queue between the
\* SDK thread and the node (FrameQueue, one packet) never holds two.
THEOREM CameraTypes == Safety => []CameraTypeOK
<1>1. CameraInv => CameraTypeOK
  BY DEF CameraInv
<1> QED BY <1>1, CameraInvariant, PTL

\* Whatever has the camera open works for the manager that holds the lock,
\* or for one that was killed and could not stop it: the driver's process
\* group is only let go of after SIGKILL, and the SDK thread ends with the
\* process.
THEOREM LeaseCovers == Safety => []LeaseCoversDevice
<1>1. CameraInv => LeaseCoversDevice
  BY DEF CameraInv, HolderIsAlive, DevicesHaveManagers, LeaseCoversDevice, UsesDevice
<1> QED BY <1>1, CameraInvariant, PTL

\* A message that is delivered and forwarded completes or continues a
\* session in which no stream fell silent or changed its signature.
LEMMA DeliveryIsLive ==
  ASSUME CameraInv, NEW m \in Managers, proc[m] = "running",
         NEW ks \in SUBSET Streams, NEW msg, Deliver(m, ks, msg),
         UNCHANGED <<owner, gap>>, NEW n \in Managers, forwarding' = n
  PROVE  /\ owner' = n /\ ~gap'[n] /\ ~guard'[n].fault
         /\ \A k \in Streams :
              /\ guard'[n].age[k] \in 0..Timeout
              /\ guard[n].sig[k] \in {NoMode, guard'[n].sig[k]}
              /\ \A j \in Streams : guard'[n].sig[j].rig = guard'[n].sig[k].rig
<1> DEFINE g == Received(guard[m], ks, msg)
<1>0. /\ guard \in [Managers -> Guards] /\ NoManager \notin Managers
      /\ Timeout \in Nat /\ gap \in [Managers -> BOOLEAN]
  BY CameraAssumption DEF CameraInv, CameraTypeOK, Guards
<1>1. /\ guard' = [guard EXCEPT ![m] = g] /\ g \in Guards
      /\ forwarding' = IF ~Failing(g) /\ Whole(g) THEN m ELSE NoManager
  BY <1>0, ReceivedIsGuard DEF Deliver
<1>2. n = m /\ ~Failing(g) /\ Whole(g) /\ guard'[m] = g
  BY <1>0, <1>1
<1>3. /\ ~Failing(guard[m]) /\ Acceptable(guard[m], ks, msg)
      /\ g = Heard(guard[m], ks, msg)
  BY <1>0, <1>2, ReceivedGoodIsHeard
<1>4. owner' = m
  BY DEF CameraInv, HolderIsAlive, Alive
<1>5. ~gap'[m]
  BY <1>3 DEF CameraInv, GapsAreFaults
<1>6. ~g.fault /\ \A k \in Streams : g.age[k] \in 0..Timeout
  <2>1. \A k \in Streams : /\ g.age[k] \in Never..(Timeout + 1)
                           /\ g.age[k] # Never /\ ~(g.age[k] > Timeout)
    BY <1>1, <1>2 DEF Guards, Failing, Whole
  <2>2. ~g.fault
    BY <1>2 DEF Failing
  <2> QED BY <1>0, <2>1, <2>2 DEF Never
<1>7. \A k \in Streams :
        /\ g.sig[k] = IF k \in ks THEN msg ELSE guard[m].sig[k]
        /\ g.age[k] = IF k \in ks THEN 0 ELSE guard[m].age[k]
  BY <1>0, <1>3 DEF Heard, Guards
<1>8. \A k \in Streams : guard[m].sig[k] \in {NoMode, g.sig[k]}
  BY <1>3, <1>7 DEF Acceptable
<1>9. \A k \in Streams : g.sig[k].rig = msg.rig
  <2>1. ks \cup {k \in Streams : guard[m].age[k] # Never} = Streams
    BY <1>2, <1>7 DEF Whole
  <2>2. \A k \in Streams \ ks : guard[m].sig[k].rig = msg.rig
    BY <1>3, <2>1 DEF Acceptable
  <2> QED BY <1>7, <2>2
<1> HIDE DEF g
<1> QED BY <1>2, <1>4, <1>5, <1>6, <1>8, <1>9

\* What reaches the shared topics comes from the holder of the lock, while
\* all streams are alive, of one rig and unchanged in format, and never after
\* a gap in any of them (StreamGuard.receive and the two checks around it).
THEOREM ForwardsLive == Safety => ForwardsOneLiveSession
<1> DEFINE Live(m) ==
      /\ owner' = m /\ ~gap'[m] /\ ~guard'[m].fault
      /\ \A k \in Streams :
           /\ guard'[m].age[k] \in 0..Timeout
           /\ guard[m].sig[k] \in {NoMode, guard'[m].sig[k]}
           /\ \A j \in Streams : guard'[m].sig[j].rig = guard'[m].sig[k].rig
<1>1. ASSUME CameraInv, Next, NEW n \in Managers, forwarding' = n PROVE Live(n)
  <2>0. NoManager \notin Managers
    BY CameraAssumption
  <2>1. ~Tick
    BY <1>1, <2>0 DEF Tick
  <2>2. PICK m \in Managers : Manages(m)
    BY <1>1, <2>1, NextIsTickOrManages
  <2>3. \/ \E k \in Streams, msg \in Modes \cup {Bad} : Receive(m, k, msg)
        \/ Acquire(m)
    BY <1>1, <2>0, <2>2
    DEF Manages, Start, GiveUp, AcquireFails, Monitor, CloseBegins, CloseChild,
        CloseWorker, CloseEnds, Kill, Ends, ParentExits, DriverExits, Capture,
        Discard, PutAgain, WorkerEnds
  <2>4. /\ proc[m] = "running" /\ UNCHANGED <<owner, gap>>
        /\ \E ks \in SUBSET Streams : \E msg : Deliver(m, ks, msg)
    BY <2>3 DEF Receive, Acquire
  <2> QED BY <1>1, <2>4, DeliveryIsLive
<1>2. CameraInv /\ [Next]_vars =>
        [\A m \in Managers : forwarding' = m => Live(m)]_vars
  BY <1>1
<1> QED BY <1>2, CameraInvariant, PTL DEF Safety, ForwardsOneLiveSession

-----------------------------------------------------------------------------
\* The pairing loop.  Pairing is a recursive function: that the equation that
\* defines it has a solution, and what the solution computes, is shown by
\* looking at a shortest queue for which it were not so.

LEMMA Least ==
  ASSUME NEW T \in SUBSET Nat, T # {}
  PROVE  \E i \in T : \A j \in T : i <= j
<1> DEFINE R == OpToRel(<, Nat)
<1>1. IsWellFoundedOn(R, Nat)
  BY NatLessThanWellFounded
<1>2. PICK i \in T : \A j \in T : ~(<<j, i>> \in R)
  <2> HIDE DEF R
  <2> QED BY <1>1, WFMin
<1>3. \A j \in T : ~(j < i)
  BY <1>2 DEF OpToRel
<1> QED BY <1>3

Size(w) == Len(w.color) + Len(w.depth)

\* One round of the loop, with g for what the rounds after it make.
OneRound(g, w) ==
  LET c == w.color
      d == w.depth
  IN IF c = <<>> \/ d = <<>>
     THEN [color |-> c, depth |-> d, state |-> w.state, pair |-> NoPair]
     ELSE IF Apart(Head(c), Head(d)) > MaxDelta
     THEN IF c[1].stamp < d[1].stamp THEN g[Round(Tail(c), d, "DEGRADED")]
                                     ELSE g[Round(c, Tail(d), "DEGRADED")]
     ELSE IF ~(c[1].sound /\ d[1].sound)
     THEN g[Round(Tail(c), Tail(d), "DEGRADED")]
     ELSE [color |-> Tail(c), depth |-> Tail(d), state |-> "READY",
           pair |-> [color |-> Head(c), depth |-> Head(d)]]

Smaller(v, w) == v \in Rounds /\ Size(v) < Size(w)

\* Min and Max of two stamps.
LEMMA TwoStamps ==
  ASSUME NEW a \in Int, NEW b \in Int
  PROVE  Min({a, b}) \in {a, b} /\ Max({a, b}) \in {a, b}
<1>1. \E x \in {a, b} : \A y \in {a, b} : x <= y
  <2>1. CASE a <= b
    BY <2>1
  <2>2. CASE b <= a
    BY <2>2
  <2> QED BY <2>1, <2>2
<1>2. \E x \in {a, b} : \A y \in {a, b} : x >= y
  <2>1. CASE a <= b
    BY <2>1
  <2>2. CASE b <= a
    BY <2>2
  <2> QED BY <2>1, <2>2
<1>3. Min({a, b}) \in {a, b}
  BY <1>1 DEF Min
<1>4. Max({a, b}) \in {a, b}
  BY <1>2 DEF Max
<1> QED BY <1>3, <1>4

LEMMA ApartIsInt ==
  ASSUME NEW c \in Frames, NEW d \in Frames
  PROVE  Apart(c, d) \in Int
<1>1. c.stamp - d.stamp \in Int /\ d.stamp - c.stamp \in Int
  BY DEF Frames
<1> QED BY <1>1, TwoStamps DEF Apart

LEMMA OldestIsOne ==
  ASSUME NEW p \in [Kinds -> Frames]
  PROVE  \E k \in Kinds : Oldest(p) = p[k].stamp
<1>1. /\ "color" \in Kinds /\ "depth" \in Kinds
      /\ p["color"].stamp \in Int /\ p["depth"].stamp \in Int
  BY DEF Kinds, Frames
<1>2. Oldest(p) \in {p["color"].stamp, p["depth"].stamp}
  BY <1>1, TwoStamps DEF Oldest
<1> QED BY <1>1, <1>2

LEMMA RoundsShrink ==
  ASSUME NEW w \in Rounds
  PROVE  /\ Size(w) \in Nat
         /\ w.color # <<>> /\ w.depth # <<>> =>
              /\ Smaller(Round(Tail(w.color), w.depth, "DEGRADED"), w)
              /\ Smaller(Round(w.color, Tail(w.depth), "DEGRADED"), w)
              /\ Smaller(Round(Tail(w.color), Tail(w.depth), "DEGRADED"), w)
<1> DEFINE c == w.color
           d == w.depth
<1>1. c \in Seq(Frames) /\ d \in Seq(Frames)
  BY DEF Rounds
<1>2. Len(c) \in Nat /\ Len(d) \in Nat
  BY <1>1
<1>3. c # <<>> => Tail(c) \in Seq(Frames) /\ Len(Tail(c)) = Len(c) - 1
  BY <1>1
<1>4. d # <<>> => Tail(d) \in Seq(Frames) /\ Len(Tail(d)) = Len(d) - 1
  BY <1>1
<1>5. "DEGRADED" \in States
  BY DEF States
<1> HIDE DEF c, d
<1>6. \A a, b \in Seq(Frames) : /\ Round(a, b, "DEGRADED") \in Rounds
                                /\ Size(Round(a, b, "DEGRADED")) = Len(a) + Len(b)
  BY <1>5 DEF Round, Rounds, Size
<1>7. Size(w) = Len(c) + Len(d)
  BY DEF Size, c, d
<1>8. ASSUME c # <<>>, d # <<>>
      PROVE  /\ Smaller(Round(Tail(c), d, "DEGRADED"), w)
             /\ Smaller(Round(c, Tail(d), "DEGRADED"), w)
             /\ Smaller(Round(Tail(c), Tail(d), "DEGRADED"), w)
  <2>1. /\ Tail(c) \in Seq(Frames) /\ Len(Tail(c)) = Len(c) - 1
        /\ Tail(d) \in Seq(Frames) /\ Len(Tail(d)) = Len(d) - 1
    BY <1>3, <1>4, <1>8
  <2> DEFINE tc == Tail(c)
             td == Tail(d)
  <2> HIDE DEF tc, td
  <2>a. /\ tc \in Seq(Frames) /\ Len(tc) < Len(c) /\ Len(tc) \in Nat
        /\ td \in Seq(Frames) /\ Len(td) < Len(d) /\ Len(td) \in Nat
    BY <1>2, <2>1 DEF tc, td
  <2>2. Smaller(Round(tc, d, "DEGRADED"), w)
    <3>1. /\ Round(tc, d, "DEGRADED") \in Rounds
          /\ Size(Round(tc, d, "DEGRADED")) = Len(tc) + Len(d)
      BY <1>1, <1>6, <2>a
    <3>2. Len(tc) + Len(d) < Len(c) + Len(d)
      BY <1>2, <2>a
    <3> QED BY <1>7, <3>1, <3>2 DEF Smaller
  <2>3. Smaller(Round(c, td, "DEGRADED"), w)
    <3>1. /\ Round(c, td, "DEGRADED") \in Rounds
          /\ Size(Round(c, td, "DEGRADED")) = Len(c) + Len(td)
      BY <1>1, <1>6, <2>a
    <3>2. Len(c) + Len(td) < Len(c) + Len(d)
      BY <1>2, <2>a
    <3> QED BY <1>7, <3>1, <3>2 DEF Smaller
  <2>4. Smaller(Round(tc, td, "DEGRADED"), w)
    <3>1. /\ Round(tc, td, "DEGRADED") \in Rounds
          /\ Size(Round(tc, td, "DEGRADED")) = Len(tc) + Len(td)
      BY <1>6, <2>a
    <3>2. Len(tc) + Len(td) < Len(c) + Len(d)
      BY <1>2, <2>a
    <3> QED BY <1>7, <3>1, <3>2 DEF Smaller
  <2> QED BY <2>2, <2>3, <2>4 DEF tc, td
<1>9. Len(c) + Len(d) \in Nat
  BY <1>2
<1> QED BY <1>7, <1>8, <1>9 DEF c, d

\* A round needs no more than what is made of shorter queues.
LEMMA RoundIsLocal ==
  ASSUME NEW w \in Rounds, NEW g, NEW h,
         \A v \in Rounds : Size(v) < Size(w) => g[v] = h[v]
  PROVE  OneRound(g, w) = OneRound(h, w)
  BY RoundsShrink DEF OneRound, Smaller

Solves(g, n) == \A w \in Rounds : Size(w) < n => g[w] = OneRound(g, w)

LEMMA SolutionsAgree ==
  ASSUME NEW n \in Nat, NEW g, NEW h, Solves(g, n), Solves(h, n)
  PROVE  \A w \in Rounds : Size(w) < n => g[w] = h[w]
<1> DEFINE T == {k \in Nat : \E w \in Rounds : Size(w) = k /\ k < n /\ g[w] # h[w]}
<1> SUFFICES ASSUME T # {} PROVE FALSE
  BY RoundsShrink
<1>1. PICK k \in T : \A j \in T : k <= j
  <2>1. T \in SUBSET Nat
    OBVIOUS
  <2> HIDE DEF T
  <2> QED BY <2>1, Least
<1>2. PICK w \in Rounds : Size(w) = k /\ k < n /\ g[w] # h[w]
  BY <1>1
<1>3. \A v \in Rounds : Size(v) < Size(w) => g[v] = h[v]
  BY <1>1, <1>2, RoundsShrink
<1>4. OneRound(g, w) = OneRound(h, w)
  BY <1>3, RoundIsLocal
<1> QED BY <1>2, <1>4 DEF Solves

LEMMA SolutionExists ==
  ASSUME NEW n \in Nat
  PROVE  \E g : Solves(g, n)
<1> DEFINE T == {k \in Nat : ~\E g : Solves(g, k)}
<1> SUFFICES ASSUME T # {} PROVE FALSE
  OBVIOUS
<1>1. PICK k \in T : \A j \in T : k <= j
  <2>1. T \in SUBSET Nat
    OBVIOUS
  <2> HIDE DEF T
  <2> QED BY <2>1, Least
<1>2. k # 0
  <2>1. \A g : Solves(g, 0)
    BY RoundsShrink DEF Solves
  <2> QED BY <1>1, <2>1
<1>3. k - 1 \in Nat /\ k - 1 \notin T
  BY <1>1, <1>2
<1>4. PICK g : Solves(g, k - 1)
  BY <1>3
<1> DEFINE h == [w \in Rounds |-> IF Size(w) < k - 1 THEN g[w] ELSE OneRound(g, w)]
<1>5. ASSUME NEW w \in Rounds, Size(w) < k PROVE h[w] = OneRound(h, w)
  <2>1. h[w] = OneRound(g, w)
    BY <1>4 DEF Solves
  <2>2. \A v \in Rounds : Size(v) < Size(w) => g[v] = h[v]
    <3>1. Size(w) <= k - 1
      BY <1>1, <1>5, RoundsShrink
    <3>2. \A v \in Rounds : Size(v) < Size(w) => Size(v) < k - 1
      BY <1>1, <3>1, RoundsShrink
    <3> QED BY <3>2
  <2> HIDE DEF h
  <2>3. OneRound(g, w) = OneRound(h, w)
    BY <2>2, RoundIsLocal
  <2> QED BY <2>1, <2>3
<1>6. Solves(h, k)
  <2> HIDE DEF h
  <2> QED BY <1>5 DEF Solves
<1> QED BY <1>1, <1>6

\* The loop ends on all queues, and each round of it is as it is written.
LEMMA PairingUnfolds ==
  ASSUME NEW w \in Rounds
  PROVE  Pairing[w] = OneRound(Pairing, w)
<1> DEFINE Solution(n) == CHOOSE g : Solves(g, n)
           F == [v \in Rounds |-> Solution(Size(v) + 1)[v]]
<1>1. \A n \in Nat : Solves(Solution(n), n)
  BY SolutionExists
<1> HIDE DEF Solution
<1>2. ASSUME NEW v \in Rounds PROVE F[v] = OneRound(F, v)
  <2> DEFINE n == Size(v) + 1
             g == Solution(n)
  <2>1. n \in Nat /\ Size(v) \in Nat /\ Size(v) < n
    BY RoundsShrink
  <2>2. F[v] = g[v]
    OBVIOUS
  <2>3. g[v] = OneRound(g, v)
    BY <1>1, <2>1 DEF Solves
  <2>4. ASSUME NEW u \in Rounds, Size(u) < Size(v) PROVE g[u] = F[u]
    <3> DEFINE k == Size(u) + 1
               h == Solution(k)
    <3>1. k \in Nat /\ Size(u) < k /\ k < n /\ Size(u) \in Nat
      BY <2>1, <2>4, RoundsShrink
    <3>2. Solves(g, k)
      <4>1. Solves(g, n)
        BY <1>1, <2>1
      <4>2. \A x \in Rounds : Size(x) \in Nat
        BY RoundsShrink
      <4> HIDE DEF g, n, k
      <4> QED BY <2>1, <3>1, <4>1, <4>2 DEF Solves
    <3>3. Solves(h, k)
      BY <1>1, <3>1
    <3>4. F[u] = h[u]
      OBVIOUS
    <3> HIDE DEF g, h, k, F
    <3> QED BY <3>1, <3>2, <3>3, <3>4, SolutionsAgree
  <2> HIDE DEF F, g
  <2>5. OneRound(g, v) = OneRound(F, v)
    BY <2>4, RoundIsLocal
  <2> QED BY <2>2, <2>3, <2>5
<1>3. F = [v \in Rounds |-> F[v]]
  OBVIOUS
<1>4. F = [v \in Rounds |-> OneRound(F, v)]
  <2> HIDE DEF F
  <2> QED BY <1>2, <1>3
<1>5. \E g : g = [v \in Rounds |-> OneRound(g, v)]
  <2> HIDE DEF F
  <2> QED BY <1>4
<1>6. Pairing = [v \in Rounds |-> OneRound(Pairing, v)]
  <2> HIDE DEF F
  <2> QED BY <1>5 DEF Pairing, OneRound
<1> QED BY <1>6

-----------------------------------------------------------------------------
\* What the loop makes of two queues: it drops the front of each, and either
\* empties one or ends with a pair.

\* a is c without its first n elements.
Suffix(a, c, n) ==
  /\ a \in Seq(Frames) /\ Len(a) = Len(c) - n
  /\ \A x \in 1..Len(a) : a[x] = c[x + n]

Yields(p, w) ==
  \E i \in 0..Len(w.color), j \in 0..Len(w.depth) :
    /\ Suffix(p.color, w.color, i) /\ Suffix(p.depth, w.depth, j)
    /\ \/ /\ p.pair = NoPair /\ p.state \in {w.state, "DEGRADED"}
          /\ p.color = <<>> \/ p.depth = <<>>
       \/ /\ i > 0 /\ j > 0 /\ p.state = "READY"
          /\ p.pair = [color |-> w.color[i], depth |-> w.depth[j]]
          /\ w.color[i].sound /\ w.depth[j].sound
          /\ Apart(w.color[i], w.depth[j]) <= MaxDelta

LEMMA SuffixFacts ==
  ASSUME NEW c \in Seq(Frames)
  PROVE  /\ Suffix(c, c, 0)
         /\ c # <<>> => /\ Suffix(Tail(c), c, 1) /\ Len(c) > 0
                        /\ Head(c) = c[1] /\ c[1] \in Frames
<1>1. Suffix(c, c, 0)
  BY DEF Suffix
<1>2. ASSUME c # <<>>
      PROVE  Suffix(Tail(c), c, 1) /\ Len(c) > 0 /\ Head(c) = c[1] /\ c[1] \in Frames
  <2>1. Len(c) > 0 /\ Head(c) = c[1] /\ c[1] \in Frames
    BY <1>2
  <2>2. Tail(c) \in Seq(Frames) /\ Len(Tail(c)) = Len(c) - 1
    BY <1>2
  <2>3. ASSUME NEW x \in 1..Len(Tail(c)) PROVE Tail(c)[x] = c[x + 1]
    BY <1>2, <2>2
  <2> QED BY <2>1, <2>2, <2>3 DEF Suffix
<1> QED BY <1>1, <1>2

LEMMA SuffixOfSuffix ==
  ASSUME NEW a, NEW b \in Seq(Frames), NEW c \in Seq(Frames),
         NEW m \in 0..Len(b), NEW n \in 0..Len(c),
         Suffix(a, b, m), Suffix(b, c, n)
  PROVE  Suffix(a, c, m + n) /\ m + n \in 0..Len(c)
<1>1. Len(a) = Len(b) - m /\ Len(b) = Len(c) - n /\ a \in Seq(Frames)
  BY DEF Suffix
<1>2. Len(a) \in Nat /\ Len(b) \in Nat /\ Len(c) \in Nat
  BY <1>1
<1>3. ASSUME NEW x \in 1..Len(a) PROVE a[x] = c[x + (m + n)]
  <2>1. a[x] = b[x + m] /\ x + m \in 1..Len(b)
    BY <1>1, <1>2 DEF Suffix
  <2>2. b[x + m] = c[(x + m) + n]
    BY <2>1 DEF Suffix
  <2> QED BY <1>2, <2>1, <2>2
<1>4. Len(a) = Len(c) - (m + n) /\ m + n \in 0..Len(c)
  BY <1>1, <1>2
<1> QED BY <1>1, <1>3, <1>4 DEF Suffix

\* What a round hands on to the next is what it has to yield itself.
LEMMA YieldsOfNextRound ==
  ASSUME NEW w \in Rounds, NEW a \in Seq(Frames), NEW b \in Seq(Frames),
         NEW m \in 0..Len(w.color), NEW n \in 0..Len(w.depth),
         Suffix(a, w.color, m), Suffix(b, w.depth, n),
         NEW p, Yields(p, Round(a, b, "DEGRADED"))
  PROVE  Yields(p, w)
<1>1. w.color \in Seq(Frames) /\ w.depth \in Seq(Frames)
  BY DEF Rounds
<1>2. PICK i \in 0..Len(a), j \in 0..Len(b) :
        /\ Suffix(p.color, a, i) /\ Suffix(p.depth, b, j)
        /\ \/ /\ p.pair = NoPair /\ p.state = "DEGRADED"
              /\ p.color = <<>> \/ p.depth = <<>>
           \/ /\ i > 0 /\ j > 0 /\ p.state = "READY"
              /\ p.pair = [color |-> a[i], depth |-> b[j]]
              /\ a[i].sound /\ b[j].sound
              /\ Apart(a[i], b[j]) <= MaxDelta
  BY DEF Yields, Round
<1>3. /\ Suffix(p.color, w.color, i + m) /\ i + m \in 0..Len(w.color)
      /\ i > 0 => a[i] = w.color[i + m]
  <2> DEFINE c == w.color
             e == p.color
  <2>1. /\ c \in Seq(Frames) /\ m \in 0..Len(c) /\ i \in 0..Len(a)
        /\ a \in Seq(Frames) /\ Suffix(e, a, i) /\ Suffix(a, c, m)
    BY <1>1, <1>2
  <2> HIDE DEF c, e
  <2>2. Suffix(e, c, i + m)
    BY <2>1, SuffixOfSuffix
  <2>3. i + m \in 0..Len(c)
    BY <2>1, SuffixOfSuffix
  <2>4. i > 0 => a[i] = c[i + m]
    BY <2>1 DEF Suffix
  <2> QED BY <2>2, <2>3, <2>4 DEF c, e
<1>4. /\ Suffix(p.depth, w.depth, j + n) /\ j + n \in 0..Len(w.depth)
      /\ j > 0 => b[j] = w.depth[j + n]
  <2> DEFINE c == w.depth
             e == p.depth
  <2>1. /\ c \in Seq(Frames) /\ n \in 0..Len(c) /\ j \in 0..Len(b)
        /\ b \in Seq(Frames) /\ Suffix(e, b, j) /\ Suffix(b, c, n)
    BY <1>1, <1>2
  <2> HIDE DEF c, e
  <2>2. Suffix(e, c, j + n)
    BY <2>1, SuffixOfSuffix
  <2>3. j + n \in 0..Len(c)
    BY <2>1, SuffixOfSuffix
  <2>4. j > 0 => b[j] = c[j + n]
    BY <2>1 DEF Suffix
  <2> QED BY <2>2, <2>3, <2>4 DEF c, e
<1>5. CASE /\ p.pair = NoPair /\ p.state = "DEGRADED"
           /\ p.color = <<>> \/ p.depth = <<>>
  BY <1>3, <1>4, <1>5 DEF Yields
<1>6. ASSUME i > 0, j > 0, p.state = "READY", p.pair = [color |-> a[i], depth |-> b[j]],
             a[i].sound, b[j].sound, Apart(a[i], b[j]) <= MaxDelta
      PROVE  Yields(p, w)
  <2>1. a[i] = w.color[i + m] /\ b[j] = w.depth[j + n]
    BY <1>3, <1>4, <1>6
  <2>2. i + m > 0 /\ j + n > 0
    BY <1>1, <1>6
  <2> QED BY <1>3, <1>4, <1>6, <2>1, <2>2 DEF Yields
<1> QED BY <1>2, <1>5, <1>6

LEMMA PairingYields ==
  ASSUME NEW w \in Rounds
  PROVE  Yields(Pairing[w], w)
<1> DEFINE T == {k \in Nat : \E v \in Rounds : Size(v) = k /\ ~Yields(Pairing[v], v)}
<1> SUFFICES ASSUME T # {} PROVE FALSE
  BY RoundsShrink
<1>1. PICK k \in T : \A j \in T : k <= j
  <2>1. T \in SUBSET Nat
    OBVIOUS
  <2> HIDE DEF T
  <2> QED BY <2>1, Least
<1>2. PICK v \in Rounds : Size(v) = k /\ ~Yields(Pairing[v], v)
  BY <1>1
<1>3. ASSUME NEW u, Smaller(u, v) PROVE Yields(Pairing[u], u)
  BY <1>1, <1>2, <1>3, RoundsShrink DEF Smaller
<1> HIDE DEF T
<1> DEFINE c == v.color
           d == v.depth
           p == Pairing[v]
<1>4. c \in Seq(Frames) /\ d \in Seq(Frames) /\ Len(c) \in Nat /\ Len(d) \in Nat
  BY DEF Rounds
<1>5. p = OneRound(Pairing, v)
  BY PairingUnfolds
<1>6. ASSUME c = <<>> \/ d = <<>> PROVE Yields(p, v)
  <2>1. p = [color |-> c, depth |-> d, state |-> v.state, pair |-> NoPair]
    BY <1>5, <1>6 DEF OneRound
  <2>2. /\ p.color = c /\ p.depth = d /\ p.state = v.state /\ p.pair = NoPair
        /\ Suffix(c, c, 0) /\ Suffix(d, d, 0)
    BY <1>4, <2>1, SuffixFacts
  <2> HIDE DEF p
  <2> QED BY <1>4, <1>6, <2>2 DEF Yields
<1>7. ASSUME c # <<>>, d # <<>> PROVE Yields(p, v)
  <2>1. /\ Suffix(Tail(c), c, 1) /\ Suffix(c, c, 0) /\ Len(c) > 0
        /\ Suffix(Tail(d), d, 1) /\ Suffix(d, d, 0) /\ Len(d) > 0
        /\ Tail(c) \in Seq(Frames) /\ Tail(d) \in Seq(Frames)
        /\ Head(c) = c[1] /\ Head(d) = d[1]
    BY <1>4, <1>7, SuffixFacts DEF Suffix
  <2>2. /\ Smaller(Round(Tail(c), d, "DEGRADED"), v)
        /\ Smaller(Round(c, Tail(d), "DEGRADED"), v)
        /\ Smaller(Round(Tail(c), Tail(d), "DEGRADED"), v)
    BY <1>7, RoundsShrink
  <2>3. 0 \in 0..Len(c) /\ 1 \in 0..Len(c) /\ 0 \in 0..Len(d) /\ 1 \in 0..Len(d)
    BY <1>4, <2>1
  <2> DEFINE tc == Tail(c)
             td == Tail(d)
  <2> HIDE DEF tc, td
  <2>4. ASSUME p = Pairing[Round(tc, d, "DEGRADED")] PROVE Yields(p, v)
    <3>1. Yields(p, Round(tc, d, "DEGRADED"))
      BY <1>3, <2>2, <2>4 DEF tc
    <3> HIDE DEF p
    <3> QED BY <1>4, <2>1, <2>3, <3>1, YieldsOfNextRound DEF tc
  <2>5. ASSUME p = Pairing[Round(c, td, "DEGRADED")] PROVE Yields(p, v)
    <3>1. Yields(p, Round(c, td, "DEGRADED"))
      BY <1>3, <2>2, <2>5 DEF td
    <3> HIDE DEF p
    <3> QED BY <1>4, <2>1, <2>3, <3>1, YieldsOfNextRound DEF td
  <2>6. ASSUME p = Pairing[Round(tc, td, "DEGRADED")] PROVE Yields(p, v)
    <3>1. Yields(p, Round(tc, td, "DEGRADED"))
      BY <1>3, <2>2, <2>6 DEF tc, td
    <3> HIDE DEF p
    <3> QED BY <1>4, <2>1, <2>3, <3>1, YieldsOfNextRound DEF tc, td
  <2>7. ASSUME ~(Apart(c[1], d[1]) > MaxDelta), c[1].sound, d[1].sound,
               p = [color |-> tc, depth |-> td, state |-> "READY",
                    pair |-> [color |-> c[1], depth |-> d[1]]]
        PROVE  Yields(p, v)
    <3>1. /\ p.color = tc /\ p.depth = td /\ p.state = "READY"
          /\ p.pair = [color |-> c[1], depth |-> d[1]]
      BY <2>7
    <3>2. Apart(c[1], d[1]) <= MaxDelta
      <4>1. c[1] \in Frames /\ d[1] \in Frames
        BY <1>4, <1>7, SuffixFacts
      <4> QED BY <2>7, <4>1, ApartIsInt, GateAssumption
    <3>3. Suffix(tc, c, 1) /\ Suffix(td, d, 1)
      BY <2>1 DEF tc, td
    <3> HIDE DEF p
    <3> QED BY <2>3, <2>7, <3>1, <3>2, <3>3 DEF Yields
  <2>8. \/ p = Pairing[Round(tc, d, "DEGRADED")]
        \/ p = Pairing[Round(c, td, "DEGRADED")]
        \/ p = Pairing[Round(tc, td, "DEGRADED")]
        \/ /\ ~(Apart(c[1], d[1]) > MaxDelta) /\ c[1].sound /\ d[1].sound
           /\ p = [color |-> tc, depth |-> td, state |-> "READY",
                   pair |-> [color |-> c[1], depth |-> d[1]]]
    BY <1>5, <1>7, <2>1 DEF OneRound, tc, td
  <2> HIDE DEF p
  <2> QED BY <2>4, <2>5, <2>6, <2>7, <2>8
<1> QED BY <1>2, <1>6, <1>7

-----------------------------------------------------------------------------
\* The queues.

\* s holds stamps from the range that was asked for, after low and up to high,
\* in their order and none of them expired at r.
Fit(s, from, low, high, r) ==
  /\ s \in Seq(Frames) /\ Len(s) <= QueueSize
  /\ \A i \in 1..Len(s) :
       /\ s[i].stamp \in from..r /\ ~Expired(s[i].stamp, r)
       /\ s[i].stamp > low /\ s[i].stamp <= high
       /\ \A j \in 1..(i - 1) : s[j].stamp < s[i].stamp

LEMMA StampIsInt ==
  ASSUME NEW s \in Seq(Frames), NEW i \in 1..Len(s)
  PROVE  s[i] \in Frames /\ s[i].stamp \in Int
<1>1. s[i] \in Frames
  OBVIOUS
<1> QED BY <1>1 DEF Frames

LEMMA FitSuffix ==
  ASSUME NEW from \in Int, NEW low \in Int, NEW high \in Int, NEW r \in Int,
         NEW s, Fit(s, from, low, high, r),
         NEW n \in 0..Len(s), NEW t, Suffix(t, s, n)
  PROVE  /\ Fit(t, from, low, high, r)
         /\ n > 0 => Fit(t, from, s[n].stamp, high, r)
<1>1. /\ t \in Seq(Frames) /\ s \in Seq(Frames) /\ Len(t) = Len(s) - n
      /\ Len(s) \in Nat /\ Len(t) \in Nat /\ Len(s) <= QueueSize
  BY DEF Suffix, Fit
<1>2. Len(t) <= QueueSize
  BY <1>1, GateAssumption
<1>3. ASSUME NEW i \in 1..Len(t)
      PROVE  /\ t[i].stamp \in from..r /\ ~Expired(t[i].stamp, r)
             /\ t[i].stamp > low /\ t[i].stamp <= high
             /\ n > 0 => t[i].stamp > s[n].stamp
             /\ \A j \in 1..(i - 1) : t[j].stamp < t[i].stamp
  <2>1. t[i] = s[i + n] /\ i + n \in 1..Len(s)
    BY <1>1 DEF Suffix
  <2>2. /\ s[i + n].stamp \in from..r /\ ~Expired(s[i + n].stamp, r)
        /\ s[i + n].stamp > low /\ s[i + n].stamp <= high
        /\ \A j \in 1..((i + n) - 1) : s[j].stamp < s[i + n].stamp
    BY <2>1 DEF Fit
  <2>3. n > 0 => t[i].stamp > s[n].stamp
    <3>1. n > 0 => n \in 1..((i + n) - 1)
      BY <1>1
    <3>2. s[i + n].stamp \in Int /\ (n > 0 => s[n].stamp \in Int)
      <4>1. n > 0 => n \in 1..Len(s)
        BY <1>1
      <4> QED BY <1>1, <2>1, <4>1, StampIsInt
    <3> QED BY <2>1, <2>2, <3>1, <3>2
  <2>4. ASSUME NEW j \in 1..(i - 1) PROVE t[j].stamp < t[i].stamp
    <3>1. t[j] = s[j + n] /\ j + n \in 1..((i + n) - 1)
      BY <1>1 DEF Suffix
    <3> QED BY <2>1, <2>2, <3>1
  <2> QED BY <2>1, <2>2, <2>3, <2>4
<1>4. Fit(t, from, low, high, r)
  BY <1>1, <1>2, <1>3 DEF Fit
<1>5. n > 0 => Fit(t, from, s[n].stamp, high, r)
  BY <1>1, <1>2, <1>3 DEF Fit
<1> QED BY <1>4, <1>5

LEMMA NewerStays ==
  ASSUME NEW a \in Int, NEW b \in Int, a <= b, NEW r \in Int, ~Expired(a, r)
  PROVE  ~Expired(b, r)
  BY GateAssumption DEF Expired

\* Stamps are in their order, so what is left when the expired frames at the
\* head are gone holds no expired frame.
LEMMA FitUnexpired ==
  ASSUME NEW from \in Int, NEW low \in Int, NEW high \in Int, NEW q \in Int,
         NEW s, Fit(s, from, low, high, q), NEW r \in Int, q <= r
  PROVE  Fit(Unexpired(s, r), from, low, high, r)
<1> DEFINE alive == {i \in DOMAIN s : ~Expired(s[i].stamp, r)}
           t == Unexpired(s, r)
<1>1. /\ s \in Seq(Frames) /\ Len(s) \in Nat /\ DOMAIN s = 1..Len(s)
      /\ Len(s) <= QueueSize
  BY DEF Fit
<1>2. CASE alive = {}
  <2>1. t = <<>>
    BY <1>2 DEF Unexpired
  <2>2. <<>> \in Seq(Frames) /\ Len(<<>>) = 0
    OBVIOUS
  <2> QED BY <2>1, <2>2, GateAssumption DEF Fit
<1>3. CASE alive # {}
  <2> DEFINE n == Min(alive)
  <2>1. n \in alive /\ \A i \in alive : n <= i
    <3>1. alive \in SUBSET Nat
      BY <1>1
    <3> HIDE DEF alive
    <3>2. \E i \in alive : \A j \in alive : i <= j
      BY <1>3, <3>1, Least
    <3> QED BY <3>2 DEF Min
  <2>2. t = SubSeq(s, n, Len(s))
    BY <1>3 DEF Unexpired
  <2>3. n \in 1..Len(s) /\ ~Expired(s[n].stamp, r)
    BY <1>1, <2>1
  <2> HIDE DEF n, alive, t
  <2>4. \A i \in n..Len(s) : s[i] \in Frames
    BY <1>1, <2>3
  <2>5. /\ t \in Seq(Frames) /\ Len(t) = Len(s) - n + 1
        /\ \A i \in 1..(Len(s) - n + 1) : t[i] = s[n + i - 1]
    BY <1>1, <2>2, <2>3, <2>4, SubSeqProperties
  <2>6. Len(t) \in Nat /\ Len(t) <= QueueSize
    BY <1>1, <2>3, <2>5, GateAssumption
  <2>7. ASSUME NEW i \in 1..Len(t)
        PROVE  /\ t[i].stamp \in from..r /\ ~Expired(t[i].stamp, r)
               /\ t[i].stamp > low /\ t[i].stamp <= high
               /\ \A j \in 1..(i - 1) : t[j].stamp < t[i].stamp
    <3> DEFINE x == n + i - 1
    <3>1. t[i] = s[x] /\ x \in 1..Len(s) /\ n <= x
      BY <1>1, <2>3, <2>5
    <3> HIDE DEF x
    <3>2. /\ s[x].stamp \in from..q
          /\ s[x].stamp > low /\ s[x].stamp <= high
          /\ \A j \in 1..(x - 1) : s[j].stamp < s[x].stamp
      BY <3>1 DEF Fit
    <3>3. s[n].stamp <= s[x].stamp /\ s[n].stamp \in Int /\ s[x].stamp \in Int
      <4>1. s[n].stamp \in Int /\ s[x].stamp \in Int
        BY <1>1, <2>3, <3>1, StampIsInt
      <4>2. CASE n = x
        BY <4>1, <4>2
      <4>3. CASE n # x
        <5>1. n \in 1..(x - 1)
          BY <1>1, <2>3, <3>1, <4>3
        <5> QED BY <3>2, <4>1, <5>1
      <4> QED BY <4>2, <4>3
    <3>4. ~Expired(s[x].stamp, r) /\ s[x].stamp \in from..r
      <4>1. s[x].stamp \in from..r
        BY <3>2, <3>3
      <4> QED BY <2>3, <3>3, <4>1, NewerStays
    <3>5. ASSUME NEW j \in 1..(i - 1) PROVE t[j].stamp < t[i].stamp
      <4>1. t[j] = s[n + j - 1]
        <5>1. j \in 1..(Len(s) - n + 1)
          BY <1>1, <2>3, <2>5
        <5> QED BY <2>5, <5>1
      <4>2. n + j - 1 \in 1..(x - 1)
        BY <1>1, <2>3, <2>5 DEF x
      <4> QED BY <3>1, <3>2, <4>1, <4>2
    <3> QED BY <3>1, <3>2, <3>4, <3>5
  <2> QED BY <2>5, <2>6, <2>7 DEF Fit, t
<1> QED BY <1>2, <1>3

\* A frame is queued at the end.
LEMMA QueuedIs ==
  ASSUME NEW s \in Seq(Frames), Len(s) <= QueueSize, NEW f \in Frames
  PROVE  /\ Queued(s, f) \in Seq(Frames) /\ Len(Queued(s, f)) <= QueueSize
         /\ \E n \in {0, 1} :
              /\ Len(Queued(s, f)) = Len(s) - n + 1 /\ n <= Len(s)
              /\ Queued(s, f)[Len(Queued(s, f))] = f
              /\ \A i \in 1..(Len(s) - n) : Queued(s, f)[i] = s[i + n]
<1>1. Len(s) \in Nat /\ QueueSize \in Nat /\ QueueSize > 0
  BY GateAssumption
<1>2. CASE Len(s) = QueueSize
  <2> DEFINE t == Tail(s)
  <2>1. s # <<>>
    BY <1>1, <1>2
  <2>2. t \in Seq(Frames) /\ Len(t) = Len(s) - 1
    BY <2>1
  <2>3. \A i \in 1..(Len(s) - 1) : t[i] = s[i + 1]
    BY <2>1, <2>2
  <2>4. Queued(s, f) = Append(t, f)
    BY <1>2 DEF Queued
  <2> HIDE DEF t
  <2>5. Append(t, f) \in Seq(Frames) /\ Len(Append(t, f)) = Len(t) + 1
    BY <2>2
  <2>6. /\ Append(t, f)[Len(t) + 1] = f
        /\ \A i \in 1..Len(t) : Append(t, f)[i] = t[i]
    BY <2>2
  <2>7. /\ Len(Queued(s, f)) = Len(s) - 1 + 1 /\ 1 <= Len(s)
        /\ Queued(s, f)[Len(Queued(s, f))] = f
        /\ \A i \in 1..(Len(s) - 1) : Queued(s, f)[i] = s[i + 1]
    BY <1>1, <1>2, <2>2, <2>3, <2>4, <2>5, <2>6
  <2> QED BY <1>1, <1>2, <2>2, <2>4, <2>5, <2>7
<1>3. CASE Len(s) # QueueSize
  <2>1. Queued(s, f) = Append(s, f)
    BY <1>3 DEF Queued
  <2>2. Append(s, f) \in Seq(Frames) /\ Len(Append(s, f)) = Len(s) + 1
    OBVIOUS
  <2>3. /\ Append(s, f)[Len(s) + 1] = f
        /\ \A i \in 1..Len(s) : Append(s, f)[i] = s[i]
    OBVIOUS
  <2>4. /\ Len(Queued(s, f)) = Len(s) - 0 + 1 /\ 0 <= Len(s)
        /\ Queued(s, f)[Len(Queued(s, f))] = f
        /\ \A i \in 1..(Len(s) - 0) : Queued(s, f)[i] = s[i + 0]
    BY <1>1, <2>1, <2>2, <2>3
  <2>5. Len(Queued(s, f)) <= QueueSize
    BY <1>1, <1>3, <2>1, <2>2
  <2> QED BY <2>1, <2>2, <2>4, <2>5
<1> QED BY <1>2, <1>3

LEMMA FitQueued ==
  ASSUME NEW from \in Int, NEW low \in Int, NEW high \in Int, NEW r \in Int,
         NEW s, Fit(s, from, low, high, r), low <= high,
         NEW f \in Frames, f.stamp \in from..r, ~Expired(f.stamp, r), f.stamp > high
  PROVE  Fit(Queued(s, f), from, low, f.stamp, r)
<1> DEFINE t == Queued(s, f)
<1>1. s \in Seq(Frames) /\ Len(s) \in Nat /\ Len(s) <= QueueSize /\ f.stamp \in Int
  BY DEF Fit, Frames
<1>2. /\ t \in Seq(Frames) /\ Len(t) <= QueueSize
      /\ \E n \in {0, 1} :
           /\ Len(t) = Len(s) - n + 1 /\ n <= Len(s)
           /\ t[Len(t)] = f
           /\ \A i \in 1..(Len(s) - n) : t[i] = s[i + n]
  BY <1>1, QueuedIs
<1> HIDE DEF t
<1>3. PICK n \in {0, 1} : /\ Len(t) = Len(s) - n + 1 /\ n <= Len(s)
                          /\ t[Len(t)] = f
                          /\ \A i \in 1..(Len(s) - n) : t[i] = s[i + n]
  BY <1>2
<1>4. ASSUME NEW i \in 1..(Len(s) - n)
      PROVE  /\ t[i].stamp \in from..r /\ ~Expired(t[i].stamp, r)
             /\ t[i].stamp > low /\ t[i].stamp <= high
             /\ \A j \in 1..(i - 1) : t[j].stamp < t[i].stamp
             /\ t[i].stamp \in Int
  <2>1. t[i] = s[i + n] /\ i + n \in 1..Len(s)
    BY <1>1, <1>3
  <2>2. /\ s[i + n].stamp \in from..r /\ ~Expired(s[i + n].stamp, r)
        /\ s[i + n].stamp > low /\ s[i + n].stamp <= high
        /\ \A j \in 1..((i + n) - 1) : s[j].stamp < s[i + n].stamp
    BY <2>1 DEF Fit
  <2>3. ASSUME NEW j \in 1..(i - 1) PROVE t[j].stamp < t[i].stamp
    <3>0. j \in 1..(Len(s) - n) /\ j + n \in 1..((i + n) - 1)
      BY <1>1
    <3>1. t[j] = s[j + n] /\ j + n \in 1..((i + n) - 1)
      BY <3>0, <1>3
    <3> QED BY <2>1, <2>2, <3>1
  <2>4. s[i + n].stamp \in Int
    BY <1>1, <2>1, StampIsInt
  <2> QED BY <2>1, <2>2, <2>3, <2>4
<1>5. ASSUME NEW i \in 1..Len(t)
      PROVE  /\ t[i].stamp \in from..r /\ ~Expired(t[i].stamp, r)
             /\ t[i].stamp > low /\ t[i].stamp <= f.stamp
             /\ \A j \in 1..(i - 1) : t[j].stamp < t[i].stamp
  <2>1. CASE i = Len(t)
    <3>1. t[i] = f
      BY <1>3, <2>1
    <3>2. ASSUME NEW j \in 1..(i - 1) PROVE t[j].stamp < t[i].stamp
      <4>1. j \in 1..(Len(s) - n)
        BY <1>1, <1>3, <2>1
      <4> QED BY <1>1, <1>4, <3>1, <4>1
    <3> QED BY <1>1, <3>1, <3>2
  <2>2. CASE i # Len(t)
    <3>1. i \in 1..(Len(s) - n)
      BY <1>1, <1>3, <2>2
    <3> QED BY <1>1, <1>4, <3>1
  <2> QED BY <2>1, <2>2
<1> QED BY <1>2, <1>5 DEF Fit, t

-----------------------------------------------------------------------------
\* The invariant of the gate.

GateTypes ==
  /\ session \in Nat /\ state \in States
  /\ queue \in [Kinds -> Seq(Frames)]
  /\ lastStamp \in [Kinds -> Int] /\ lastArrival \in [Kinds -> Int]
  /\ boundary \in Int /\ lastRos \in Int /\ lastMono \in Int
  /\ clockFault \in BOOLEAN
  /\ lastPair \in [Kinds -> Frames]

\* What waits lies beyond the last pair and not beyond the stamp the stream
\* continues from, the pair itself included.
Waiting ==
  \A k \in Kinds :
    /\ Fit(queue[k], boundary, lastPair[k].stamp, lastStamp[k], lastRos)
    /\ lastPair[k].stamp <= lastStamp[k]

OneSideIsEmpty == \E k \in Kinds : queue[k] = <<>>
FaultsEmptyQueues == clockFault => queue = Empty

GateInv ==
  GateTypes /\ Waiting /\ OneSideIsEmpty /\ FaultsEmptyQueues /\ ReadyIsEarned

\* What one call that returns a pair promises of it.
NewPair ==
  returned' =>
    /\ \A k \in Kinds : /\ lastPair'[k].sound
                        /\ lastPair'[k].stamp \in boundary'..lastRos'
                        /\ ~Expired(lastPair'[k].stamp, lastRos')
                        /\ lastPair'[k].stamp > lastPair[k].stamp
    /\ Apart(lastPair'["color"], lastPair'["depth"]) <= MaxDelta
    /\ ~clockFault'

LEMMA FitEmpty ==
  ASSUME NEW from, NEW low, NEW high, NEW r
  PROVE  Fit(<<>>, from, low, high, r)
<1>1. <<>> \in Seq(Frames) /\ Len(<<>>) = 0
  OBVIOUS
<1> QED BY <1>1, GateAssumption DEF Fit

LEMMA EmptyQueues ==
  /\ Empty \in [Kinds -> Seq(Frames)] /\ "color" \in Kinds /\ "depth" \in Kinds
  /\ \A k \in Kinds : Empty[k] = <<>>
<1>1. <<>> \in Seq(Frames)
  OBVIOUS
<1> QED BY <1>1 DEF Empty, Kinds

LEMMA NoPairIs ==
  /\ NoPair \in [Kinds -> Frames]
  /\ \A k \in Kinds : NoPair[k].stamp = -1 /\ ~NoPair[k].sound
<1>1. NoFrame \in Frames /\ NoFrame.stamp = -1 /\ ~NoFrame.sound
  BY DEF NoFrame, Frames
<1> QED BY <1>1 DEF NoPair

\* What check leaves of the queues, whether it finds a fault or not.
LEMMA CheckedQueueFits ==
  ASSUME GateInv, NEW r \in Int, NEW m \in Int
  PROVE  /\ CheckedQueue(r, m) \in [Kinds -> Seq(Frames)]
         /\ \A k \in Kinds : Fit(CheckedQueue(r, m)[k], boundary, lastPair[k].stamp,
                                 lastStamp[k], IF ClockIsBack(r, m) THEN lastRos ELSE r)
         /\ \E k \in Kinds : CheckedQueue(r, m)[k] = <<>>
         /\ ClockIsBack(r, m) \/ InputLost(m) => CheckedQueue(r, m) = Empty
<1> DEFINE Q == CheckedQueue(r, m)
<1>1. CASE ClockIsBack(r, m) \/ InputLost(m)
  <2>1. Q = Empty
    BY <1>1 DEF CheckedQueue
  <2>2. /\ Q \in [Kinds -> Seq(Frames)] /\ \E k \in Kinds : Q[k] = <<>>
        /\ \A k \in Kinds : Q[k] = <<>>
    BY <2>1, EmptyQueues
  <2> HIDE DEF Q
  <2>3. \A k \in Kinds : Fit(Q[k], boundary, lastPair[k].stamp, lastStamp[k],
                            IF ClockIsBack(r, m) THEN lastRos ELSE r)
    BY <2>2, FitEmpty
  <2> QED BY <2>1, <2>2, <2>3 DEF Q
<1>2. CASE ~(ClockIsBack(r, m) \/ InputLost(m))
  <2>1. Q = [k \in Kinds |-> Unexpired(queue[k], r)]
    BY <1>2 DEF CheckedQueue
  <2>2. r >= lastRos
    BY <1>2 DEF ClockIsBack, GateInv, GateTypes
  <2>3. ASSUME NEW k \in Kinds
        PROVE  Fit(Unexpired(queue[k], r), boundary, lastPair[k].stamp, lastStamp[k], r)
    <3>1. /\ boundary \in Int /\ lastPair[k].stamp \in Int /\ lastStamp[k] \in Int
          /\ lastRos \in Int /\ lastRos <= r
      BY <2>2 DEF GateInv, GateTypes, Frames
    <3>2. Fit(queue[k], boundary, lastPair[k].stamp, lastStamp[k], lastRos)
      BY DEF GateInv, Waiting
    <3> QED BY <3>1, <3>2, FitUnexpired
  <2>4. \A k \in Kinds : Unexpired(queue[k], r) \in Seq(Frames)
    BY <2>3 DEF Fit
  <2>5. Unexpired(<<>>, r) = <<>>
    BY DEF Unexpired
  <2>6. PICK k \in Kinds : queue[k] = <<>>
    BY DEF GateInv, OneSideIsEmpty
  <2>7. Q[k] = <<>>
    BY <2>1, <2>5, <2>6
  <2> HIDE DEF Q
  <2>8. \A x \in Kinds : Q[x] = Unexpired(queue[x], r)
    BY <2>1
  <2>9. Q \in [Kinds -> Seq(Frames)]
    BY <2>1, <2>4
  <2>10. \A x \in Kinds : Fit(Q[x], boundary, lastPair[x].stamp, lastStamp[x], r)
    BY <2>3, <2>8
  <2> QED BY <1>2, <2>7, <2>9, <2>10 DEF Q
<1> QED BY <1>1, <1>2

LEMMA CheckedStateIs ==
  ASSUME GateInv, NEW r \in Int, NEW m \in Int
  PROVE  /\ CheckedState(r, m) \in States
         /\ CheckedState(r, m) = "READY" =>
              /\ state = "READY" /\ ~ClockIsBack(r, m) /\ ~InputLost(m)
              /\ ~Expired(Oldest(lastPair), r)
  BY DEF CheckedState, States, GateInv, GateTypes

LEMMA ResetKeeps ==
  ASSUME GateInv, NEW r \in Int, NEW m \in Int, ResetSession(r, m)
  PROVE  GateInv' /\ ~returned'
<1>1. GateTypes'
  <2>1. session' \in Nat /\ state' \in States
    BY DEF ResetSession, GateInv, GateTypes, States
  <2>2. lastStamp' \in [Kinds -> Int] /\ lastArrival' \in [Kinds -> Int]
    BY DEF ResetSession
  <2>3. queue' \in [Kinds -> Seq(Frames)] /\ lastPair' \in [Kinds -> Frames]
    BY EmptyQueues, NoPairIs DEF ResetSession
  <2>4. /\ boundary' \in Int /\ lastRos' \in Int /\ lastMono' \in Int
        /\ clockFault' \in BOOLEAN
    BY DEF ResetSession
  <2> QED BY <2>1, <2>2, <2>3, <2>4 DEF GateTypes
<1>2. ASSUME NEW k \in Kinds
      PROVE  /\ queue'[k] = <<>> /\ lastPair'[k].stamp = -1 /\ lastStamp'[k] = -1
  BY EmptyQueues, NoPairIs DEF ResetSession
<1>3. Waiting'
  BY <1>2, FitEmpty DEF Waiting
<1>4. OneSideIsEmpty' /\ FaultsEmptyQueues'
  BY <1>2, EmptyQueues DEF OneSideIsEmpty, FaultsEmptyQueues, ResetSession
<1>5. ReadyIsEarned' /\ ~returned'
  BY DEF ReadyIsEarned, ResetSession
<1> QED BY <1>1, <1>3, <1>4, <1>5 DEF GateInv

\* Check and Refuse leave the same queues, clocks and pair.
LEMMA CheckingKeeps ==
  ASSUME GateInv, NEW r \in Int, NEW m \in Int, m >= lastMono,
         CheckClocks(r, m), queue' = CheckedQueue(r, m),
         UNCHANGED <<session, lastStamp, lastArrival, lastPair>>,
         state' = CheckedState(r, m) \/ state' = "DEGRADED", session > 0
  PROVE  GateInv'
<1> DEFINE now == IF ClockIsBack(r, m) THEN lastRos ELSE r
<1>1. /\ lastRos' = now /\ boundary' = boundary /\ clockFault' = ClockIsBack(r, m)
      /\ lastMono' = IF ClockIsBack(r, m) THEN lastMono ELSE m
  BY DEF CheckClocks
<1>2. ClockIsBack(r, m) \in BOOLEAN
  BY DEF ClockIsBack, GateInv, GateTypes
<1>3. GateTypes'
  BY <1>1, <1>2, CheckedQueueFits, CheckedStateIs DEF GateInv, GateTypes, States
<1>4. Waiting'
  BY <1>1, CheckedQueueFits DEF Waiting, GateInv
<1>5. OneSideIsEmpty' /\ FaultsEmptyQueues'
  BY <1>1, CheckedQueueFits DEF OneSideIsEmpty, FaultsEmptyQueues
<1>6. ASSUME state' = "READY" PROVE ReadyIsEarned'
  <2>1. /\ state = "READY" /\ ~ClockIsBack(r, m) /\ ~InputLost(m)
        /\ ~Expired(Oldest(lastPair), r)
    BY <1>6, CheckedStateIs
  <2>2. lastRos' = r /\ lastMono' = m /\ ~clockFault'
    BY <1>1, <2>1
  <2>3. /\ session > 0 /\ lastPair # NoPair /\ Oldest(lastPair) >= boundary
    BY <2>1 DEF GateInv, ReadyIsEarned
  <2>4. \A k \in Kinds : m - lastArrival[k] <= InputTimeout
    <3>1. \A k \in Kinds : m - lastArrival[k] \in Int
      BY DEF GateInv, GateTypes
    <3>2. InputTimeout \in Int
      BY GateAssumption
    <3> QED BY <2>1, <3>1, <3>2 DEF InputLost
  <2>5. Oldest(lastPair)' = Oldest(lastPair)
    BY DEF Oldest
  <2> QED BY <1>1, <2>1, <2>2, <2>3, <2>4, <2>5 DEF ReadyIsEarned
<1>7. state' # "READY" => ReadyIsEarned'
  BY DEF ReadyIsEarned
<1> QED BY <1>3, <1>4, <1>5, <1>6, <1>7 DEF GateInv

\* A frame that arrives now takes no stream out of its time.
LEMMA AllAreHeard ==
  ASSUME GateInv, NEW m \in Int, NEW k \in Kinds, ~InputLost(m)
  PROVE  \A x \in Kinds : m - [lastArrival EXCEPT ![k] = m][x] <= InputTimeout
<1>1. ASSUME NEW x \in Kinds PROVE m - lastArrival[x] <= InputTimeout
  <2>1. m - lastArrival[x] \in Int
    BY DEF GateInv, GateTypes
  <2>2. InputTimeout \in Int
    BY GateAssumption
  <2> QED BY <2>1, <2>2 DEF InputLost
<1>2. m - m <= InputTimeout
  BY GateAssumption
<1> QED BY <1>1, <1>2 DEF GateInv, GateTypes

\* A frame was queued and the heads were compared.
LEMMA AdmitKeeps ==
  ASSUME GateInv, NEW r \in Int, NEW m \in Int, m >= lastMono,
         NEW k \in Kinds, NEW f \in Frames, Admit(k, f, r, m)
  PROVE  GateInv' /\ NewPair
<1> DEFINE Q == CheckedQueue(r, m)
           q == [Q EXCEPT ![k] = Queued(@, f)]
           w == Round(q["color"], q["depth"], CheckedState(r, m))
           p == Pairing[w]
<1>1. ~ClockIsBack(r, m) /\ lastRos <= r /\ ~clockFault
  BY DEF Admit, ClockIsBack, GateInv, GateTypes
<1>2. /\ lastRos' = r /\ lastMono' = m /\ boundary' = boundary /\ ~clockFault'
      /\ clockFault' \in BOOLEAN
  <2>1. CheckClocks(r, m)
    BY DEF Admit
  <2>2. clockFault' = ClockIsBack(r, m) /\ ClockIsBack(r, m) \in BOOLEAN
    BY <2>1 DEF CheckClocks, ClockIsBack, GateInv, GateTypes
  <2> QED BY <1>1, <2>1, <2>2 DEF CheckClocks
<1>3. /\ f.stamp \in boundary..r /\ ~Expired(f.stamp, r)
      /\ f.stamp > lastStamp[k] /\ f.stamp \in Int
  BY DEF Admit, Admissible, GateInv, GateTypes, Frames
<1>4. \A x \in Kinds : /\ lastPair[x].stamp \in Int /\ lastStamp[x] \in Int
                       /\ boundary \in Int
  BY DEF GateInv, GateTypes, Frames
<1>5. lastStamp' = [lastStamp EXCEPT ![k] = f.stamp]
      /\ lastArrival' = [lastArrival EXCEPT ![k] = m]
      /\ session' = session /\ session > 0
  BY DEF Admit
<1>6. /\ queue' = [color |-> p.color, depth |-> p.depth] /\ state' = p.state
      /\ returned' = (p.pair # NoPair)
      /\ lastPair' = IF p.pair = NoPair THEN lastPair ELSE p.pair
  BY DEF Admit, Paired
<1>7. /\ Q \in [Kinds -> Seq(Frames)]
      /\ \A x \in Kinds : Fit(Q[x], boundary, lastPair[x].stamp, lastStamp[x], r)
      /\ \E x \in Kinds : Q[x] = <<>>
      /\ InputLost(m) => Q = Empty
  BY <1>1, CheckedQueueFits
<1> HIDE DEF Q
<1>8. /\ q[k] = Queued(Q[k], f)
      /\ \A x \in Kinds : x # k => q[x] = Q[x]
  BY <1>7
<1>9. Queued(Q[k], f) \in Seq(Frames)
  BY <1>7, QueuedIs DEF Fit
<1>10. q \in [Kinds -> Seq(Frames)]
  BY <1>7, <1>9
<1> HIDE DEF q
\* The queues before the search.
<1>11. ASSUME NEW x \in Kinds
       PROVE  Fit(q[x], boundary, lastPair[x].stamp, lastStamp'[x], r)
  <2>1. CASE x = k
    <3> DEFINE s == Q[k]
               low == lastPair[k].stamp
               high == lastStamp[k]
    <3>1. Fit(s, boundary, low, high, r) /\ low <= high /\ low \in Int /\ high \in Int
      BY <1>4, <1>7 DEF GateInv, Waiting
    <3>2. f.stamp > high /\ boundary \in Int
      BY <1>3, <1>4
    <3>3. q[x] = Queued(s, f) /\ lastStamp'[x] = f.stamp /\ lastPair[x].stamp = low
      BY <1>5, <1>8, <2>1 DEF GateInv, GateTypes
    <3> HIDE DEF s, low, high
    <3>4. Fit(Queued(s, f), boundary, low, f.stamp, r)
      BY <1>3, <3>1, <3>2, FitQueued
    <3> QED BY <3>3, <3>4
  <2>2. CASE x # k
    BY <1>5, <1>7, <1>8, <2>2 DEF GateInv, GateTypes
  <2> QED BY <2>1, <2>2
<1>12. \E x \in Kinds : Len(q[x]) <= 1
  <2>1. PICK x \in Kinds : Q[x] = <<>>
    BY <1>7
  <2>2. CASE x = k
    <3> DEFINE s == Q[k]
    <3>1. s \in Seq(Frames) /\ Len(s) = 0 /\ q[x] = Queued(s, f)
      BY <1>7, <1>8, <2>1, <2>2
    <3> HIDE DEF s
    <3>2. Queued(s, f) = Append(s, f)
      BY <3>1, GateAssumption DEF Queued
    <3>3. Len(Append(s, f)) = 1
      BY <3>1
    <3>4. x \in Kinds /\ Len(q[x]) <= 1
      BY <2>1, <3>1, <3>2, <3>3
    <3> QED BY <3>4
  <2>3. CASE x # k
    <3>1. q[x] = <<>> /\ Len(<<>>) = 0
      BY <1>8, <2>1, <2>3
    <3> QED BY <3>1
  <2> QED BY <2>2, <2>3
<1>13. InputLost(m) => \E x \in Kinds : Len(q[x]) = 0
  <2>1. PICK x \in Kinds : x # k
    BY DEF Kinds
  <2>2. InputLost(m) => q[x] = <<>>
    BY <1>7, <1>8, <2>1, EmptyQueues
  <2> QED BY <2>2
\* What the search makes of them.
<1>14. w \in Rounds /\ w.color = q["color"] /\ w.depth = q["depth"]
       /\ w.state = CheckedState(r, m)
  BY <1>10, CheckedStateIs DEF Round, Rounds, Kinds
<1>15. Yields(p, w)
  BY <1>14, PairingYields
<1> HIDE DEF w, p
<1>16. PICK i \in 0..Len(w.color), j \in 0..Len(w.depth) :
         /\ Suffix(p.color, w.color, i) /\ Suffix(p.depth, w.depth, j)
         /\ \/ /\ p.pair = NoPair /\ p.state \in {w.state, "DEGRADED"}
               /\ p.color = <<>> \/ p.depth = <<>>
            \/ /\ i > 0 /\ j > 0 /\ p.state = "READY"
               /\ p.pair = [color |-> w.color[i], depth |-> w.depth[j]]
               /\ w.color[i].sound /\ w.depth[j].sound
               /\ Apart(w.color[i], w.depth[j]) <= MaxDelta
  BY <1>15 DEF Yields
<1> DEFINE n == [x \in Kinds |-> IF x = "color" THEN i ELSE j]
<1>17. ASSUME NEW x \in Kinds
       PROVE  /\ n[x] \in 0..Len(q[x]) /\ q[x] \in Seq(Frames)
              /\ Suffix(queue'[x], q[x], n[x])
  <2>1. CASE x = "color"
    BY <1>6, <1>10, <1>14, <1>16, <2>1
  <2>2. CASE x = "depth"
    BY <1>6, <1>10, <1>14, <1>16, <2>2
  <2> QED BY <2>1, <2>2 DEF Kinds
<1>18. queue' \in [Kinds -> Seq(Frames)]
  <2>1. p.color \in Seq(Frames) /\ p.depth \in Seq(Frames)
    BY <1>16 DEF Suffix
  <2> QED BY <1>6, <2>1 DEF Kinds
<1>19. ASSUME NEW x \in Kinds
       PROVE  /\ Fit(queue'[x], boundary, lastPair[x].stamp, lastStamp'[x], r)
              /\ n[x] > 0 => Fit(queue'[x], boundary, q[x][n[x]].stamp, lastStamp'[x], r)
  <2> DEFINE s == q[x]
             t == queue'[x]
             a == n[x]
             low == lastPair[x].stamp
             high == lastStamp'[x]
  <2>1. /\ a \in 0..Len(s) /\ Suffix(t, s, a) /\ Fit(s, boundary, low, high, r)
        /\ low \in Int /\ high \in Int /\ boundary \in Int
    BY <1>3, <1>4, <1>5, <1>11, <1>17
  <2> HIDE DEF s, t, a, low, high, n
  <2>2. Fit(t, boundary, low, high, r)
    BY <2>1, FitSuffix
  <2>3. a > 0 => Fit(t, boundary, s[a].stamp, high, r)
    BY <2>1, FitSuffix
  <2> QED BY <2>2, <2>3 DEF s, t, a, low, high
<1>20. lastStamp' \in [Kinds -> Int] /\ lastArrival' \in [Kinds -> Int]
  BY <1>3, <1>5 DEF GateInv, GateTypes
<1>21. FaultsEmptyQueues'
  BY <1>2 DEF FaultsEmptyQueues
\* No pair came of it.
<1>22. ASSUME p.pair = NoPair, p.state \in {w.state, "DEGRADED"},
              p.color = <<>> \/ p.depth = <<>>
       PROVE  GateInv' /\ NewPair
  <2>1. lastPair' = lastPair /\ ~returned'
    BY <1>6, <1>22
  <2>2. GateTypes'
    <3>1. state' \in States
      BY <1>6, <1>14, <1>22, CheckedStateIs DEF States
    <3> QED BY <1>2, <1>5, <1>18, <1>20, <2>1, <3>1 DEF GateInv, GateTypes
  <2>3. Waiting'
    <3>1. ASSUME NEW x \in Kinds PROVE lastPair[x].stamp <= lastStamp'[x]
      BY <1>3, <1>4, <1>5 DEF GateInv, GateTypes, Waiting
    <3> QED BY <1>2, <1>19, <2>1, <3>1 DEF Waiting
  <2>4. OneSideIsEmpty'
    BY <1>6, <1>22 DEF OneSideIsEmpty, Kinds
  <2>5. ASSUME state' = "READY" PROVE ReadyIsEarned'
    <3>1. CheckedState(r, m) = "READY"
      BY <1>6, <1>14, <1>22, <2>5
    <3>2. /\ state = "READY" /\ ~InputLost(m) /\ ~Expired(Oldest(lastPair), r)
      BY <3>1, CheckedStateIs
    <3>3. lastPair # NoPair /\ Oldest(lastPair) >= boundary
      BY <3>2 DEF GateInv, ReadyIsEarned
    <3>4. \A x \in Kinds : m - lastArrival'[x] <= InputTimeout
      BY <1>5, <3>2, AllAreHeard
    <3>5. Oldest(lastPair)' = Oldest(lastPair)
      BY <2>1 DEF Oldest
    <3> QED BY <1>2, <1>5, <2>1, <3>2, <3>3, <3>4, <3>5 DEF ReadyIsEarned
  <2>6. state' # "READY" => ReadyIsEarned'
    BY DEF ReadyIsEarned
  <2>7. NewPair
    BY <2>1 DEF NewPair
  <2> QED BY <1>21, <2>2, <2>3, <2>4, <2>5, <2>6, <2>7 DEF GateInv
\* The heads that were left are a pair.
<1>23. ASSUME i > 0, j > 0, p.state = "READY",
              p.pair = [color |-> w.color[i], depth |-> w.depth[j]],
              w.color[i].sound, w.depth[j].sound,
              Apart(w.color[i], w.depth[j]) <= MaxDelta
       PROVE  GateInv' /\ NewPair
  <2>1. ASSUME NEW x \in Kinds PROVE p.pair[x] = q[x][n[x]] /\ n[x] > 0 /\ p.pair[x].sound
    <3>1. CASE x = "color"
      BY <1>14, <1>23, <3>1
    <3>2. CASE x = "depth"
      BY <1>14, <1>23, <3>2
    <3> QED BY <3>1, <3>2 DEF Kinds
  <2>2. p.pair # NoPair
    <3>1. "color" \in Kinds
      BY DEF Kinds
    <3> QED BY <2>1, <3>1, NoPairIs
  <2>3. lastPair' = p.pair
    BY <1>6, <2>2
  <2> HIDE DEF n
  <2>4. ASSUME NEW x \in Kinds
        PROVE  /\ n[x] \in 1..Len(q[x]) /\ lastPair'[x] = q[x][n[x]]
               /\ lastPair'[x] \in Frames /\ lastPair'[x].stamp \in Int
               /\ lastPair'[x].sound
    <3>1. n[x] \in 1..Len(q[x])
      BY <1>17, <2>1
    <3> QED BY <1>17, <2>1, <2>3, <3>1, StampIsInt
  <2>5. ASSUME NEW x \in Kinds
        PROVE  /\ lastPair'[x].stamp \in boundary..r /\ ~Expired(lastPair'[x].stamp, r)
               /\ lastPair'[x].stamp > lastPair[x].stamp
               /\ lastPair'[x].stamp <= lastStamp'[x]
    <3>1. Fit(q[x], boundary, lastPair[x].stamp, lastStamp'[x], r)
      BY <1>11
    <3> QED BY <2>4, <3>1 DEF Fit
  <2>6. lastPair' \in [Kinds -> Frames]
    <3>1. p.pair = [color |-> w.color[i], depth |-> w.depth[j]]
      BY <1>23
    <3>2. lastPair'["color"] \in Frames /\ lastPair'["depth"] \in Frames
      BY <2>4, EmptyQueues
    <3> QED BY <2>3, <3>1, <3>2 DEF Kinds
  <2>7. GateTypes'
    <3>1. state' \in States
      BY <1>6, <1>23 DEF States
    <3> QED BY <1>2, <1>5, <1>18, <1>20, <2>6, <3>1 DEF GateInv, GateTypes
  <2>8. Waiting'
    <3>1. ASSUME NEW x \in Kinds
          PROVE  Fit(queue'[x], boundary, lastPair'[x].stamp, lastStamp'[x], r)
      BY <1>19, <2>1, <2>4
    <3> QED BY <1>2, <2>5, <3>1 DEF Waiting
  <2>9. OneSideIsEmpty'
    <3>1. PICK x \in Kinds : Len(q[x]) <= 1
      BY <1>12
    <3>2. Len(queue'[x]) = Len(q[x]) - n[x] /\ queue'[x] \in Seq(Frames)
      BY <1>17 DEF Suffix
    <3>3. Len(q[x]) \in Nat /\ n[x] \in 1..Len(q[x])
      BY <1>17, <2>4
    <3>4. Len(queue'[x]) = 0
      BY <3>1, <3>2, <3>3
    <3>5. queue'[x] = <<>>
      BY <3>2, <3>4
    <3> QED BY <3>5 DEF OneSideIsEmpty
  <2>10. ReadyIsEarned'
    <3>1. ~InputLost(m)
      BY <1>13, <2>4
    <3>2. \A x \in Kinds : m - lastArrival'[x] <= InputTimeout
      BY <1>5, <3>1, AllAreHeard
    <3>3. PICK x \in Kinds : Oldest(lastPair') = lastPair'[x].stamp
      BY <2>6, OldestIsOne
    <3>4. Oldest(lastPair') >= boundary /\ ~Expired(Oldest(lastPair'), r)
      BY <1>4, <2>4, <2>5, <3>3
    <3>5. Oldest(lastPair)' = Oldest(lastPair')
      BY DEF Oldest
    <3> QED BY <1>2, <1>5, <2>2, <2>3, <3>2, <3>4, <3>5 DEF ReadyIsEarned
  <2>11. NewPair
    <3>1. Apart(lastPair'["color"], lastPair'["depth"]) <= MaxDelta
      <4>1. lastPair'["color"] = w.color[i] /\ lastPair'["depth"] = w.depth[j]
        BY <1>23, <2>3
      <4> QED BY <1>23, <4>1
    <3> QED BY <1>2, <2>4, <2>5, <3>1 DEF NewPair
  <2> QED BY <1>21, <2>7, <2>8, <2>9, <2>10, <2>11 DEF GateInv
<1> QED BY <1>16, <1>22, <1>23

LEMMA GateStep ==
  ASSUME GateInv, GateNext
  PROVE  GateInv' /\ NewPair
<1>1. PICK r \in 1..MaxRos : \E m \in lastMono..MaxMono :
        \/ ResetSession(r, m)
        \/ Check(r, m)
        \/ \E k \in Kinds, f \in [stamp : 0..MaxRos, sound : BOOLEAN] :
             Refuse(k, f, r, m) \/ Admit(k, f, r, m)
  BY DEF GateNext
<1>2. PICK m \in lastMono..MaxMono :
        \/ ResetSession(r, m)
        \/ Check(r, m)
        \/ \E k \in Kinds, f \in [stamp : 0..MaxRos, sound : BOOLEAN] :
             Refuse(k, f, r, m) \/ Admit(k, f, r, m)
  BY <1>1
<1>3. r \in Int /\ m \in Int /\ m >= lastMono
  BY GateAssumption DEF GateInv, GateTypes
<1>4. CASE ResetSession(r, m)
  BY <1>3, <1>4, ResetKeeps DEF NewPair
<1>5. CASE Check(r, m)
  <2>1. GateInv'
    BY <1>3, <1>5, CheckingKeeps DEF Check
  <2> QED BY <1>5, <2>1 DEF Check, NewPair
<1>6. ASSUME NEW k \in Kinds, NEW f \in [stamp : 0..MaxRos, sound : BOOLEAN],
             Refuse(k, f, r, m)
      PROVE  GateInv' /\ NewPair
  <2>1. GateInv'
    BY <1>3, <1>6, CheckingKeeps DEF Refuse
  <2> QED BY <1>6, <2>1 DEF Refuse, NewPair
<1>7. ASSUME NEW k \in Kinds, NEW f \in [stamp : 0..MaxRos, sound : BOOLEAN],
             Admit(k, f, r, m)
      PROVE  GateInv' /\ NewPair
  <2>1. f \in Frames
    BY GateAssumption DEF Frames
  <2> QED BY <1>3, <1>7, <2>1, AdmitKeeps
<1> QED BY <1>2, <1>4, <1>5, <1>6, <1>7

LEMMA GateInvStays ==
  GateSpec => []GateInv
<1>1. GateInit => GateInv
  <2> SUFFICES ASSUME GateInit PROVE GateInv
    OBVIOUS
  <2>1. GateTypes
    <3>1. session \in Nat /\ state \in States /\ clockFault \in BOOLEAN
      BY DEF GateInit, States
    <3>2. lastStamp \in [Kinds -> Int] /\ lastArrival \in [Kinds -> Int]
      BY DEF GateInit
    <3>3. queue \in [Kinds -> Seq(Frames)] /\ lastPair \in [Kinds -> Frames]
      BY EmptyQueues, NoPairIs DEF GateInit
    <3>4. boundary \in Int /\ lastRos \in Int /\ lastMono \in Int
      BY DEF GateInit
    <3> QED BY <3>1, <3>2, <3>3, <3>4 DEF GateTypes
  <2>2. ASSUME NEW k \in Kinds
        PROVE  queue[k] = <<>> /\ lastPair[k].stamp = -1 /\ lastStamp[k] = -1
    BY EmptyQueues, NoPairIs DEF GateInit
  <2>3. Waiting
    BY <2>2, FitEmpty DEF Waiting
  <2>4. OneSideIsEmpty /\ FaultsEmptyQueues
    BY <2>2, EmptyQueues DEF OneSideIsEmpty, FaultsEmptyQueues, GateInit
  <2>5. ReadyIsEarned
    BY DEF ReadyIsEarned, GateInit
  <2> QED BY <2>1, <2>3, <2>4, <2>5 DEF GateInv
<1>2. GateInv /\ [GateNext]_gateVars => GateInv'
  <2>1. GateInv /\ GateNext => GateInv'
    BY GateStep
  <2>2. GateInv /\ UNCHANGED gateVars => GateInv'
    BY DEF gateVars, clocks, GateInv, GateTypes, Waiting, OneSideIsEmpty,
           FaultsEmptyQueues, ReadyIsEarned, Oldest, Fit
  <2> QED BY <2>1, <2>2
<1> QED BY <1>1, <1>2, PTL DEF GateSpec

\* Only one queue of the gate ever holds frames, of the session, within the age
\* limit, in the order of their stamps; for every size and limit.
THEOREM GateBacklogIsOneSided == GateSpec => []BacklogIsOneSided
<1>1. GateInv => BacklogIsOneSided
  <2> SUFFICES ASSUME GateInv PROVE BacklogIsOneSided
    OBVIOUS
  <2>1. ASSUME NEW k \in Kinds
        PROVE  /\ DOMAIN queue[k] = 1..Len(queue[k])
               /\ Fit(queue[k], boundary, lastPair[k].stamp, lastStamp[k], lastRos)
               /\ boundary \in Int /\ lastRos \in Int
    BY DEF GateInv, GateTypes, Waiting
  <2>2. ASSUME NEW k \in Kinds, NEW i \in DOMAIN queue[k]
        PROVE  /\ queue[k][i].stamp >= boundary
               /\ ~Expired(queue[k][i].stamp, lastRos)
               /\ queue[k][i].stamp <= lastStamp[k]
               /\ \A j \in 1..(i - 1) : queue[k][j].stamp < queue[k][i].stamp
    BY <2>1 DEF Fit
  <2>3. \A k \in Kinds : Len(queue[k]) <= QueueSize
    BY <2>1 DEF Fit
  <2>4. (\E k \in Kinds : queue[k] = <<>>) /\ (clockFault => queue = Empty)
    BY DEF GateInv, OneSideIsEmpty, FaultsEmptyQueues
  <2> QED BY <2>2, <2>3, <2>4 DEF BacklogIsOneSided
<1> QED BY <1>1, GateInvStays, PTL

\* READY is the verdict on a pair that is of this session and within the age
\* limit, with both streams heard and no clock set back.
THEOREM GateReadyIsEarned == GateSpec => []ReadyIsEarned
<1>1. GateInv => ReadyIsEarned
  BY DEF GateInv
<1> QED BY <1>1, GateInvStays, PTL

\* Whatever accept returns is a new pair, synchronised, sound, fresh, and of the
\* session.
THEOREM GatePairsAreNew == GateSpec => PairsAreNew
<1>1. GateInv /\ [GateNext]_gateVars => [NewPair]_gateVars
  BY GateStep
<1> QED BY <1>1, GateInvStays, PTL DEF GateSpec, PairsAreNew, NewPair
=============================================================================
