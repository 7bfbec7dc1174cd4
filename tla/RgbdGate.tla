------------------------------ MODULE RgbdGate ------------------------------
(***************************************************************************)
(* RgbdGate (zzx_camera/rgbd_gate.py): pairs color frames with depth       *)
(* frames by time stamp and vouches for a pair that is synchronised, fresh *)
(* and of sufficient quality.                                              *)
(*                                                                         *)
(* Every call brings two clock readings: ROS time, in which frames are     *)
(* stamped and which may be paused or set back, and monotonic time, by     *)
(* which streams are watched.  Both are counted in ticks.  A frame is its  *)
(* stamp and whether its data is sound: a pair passes the checks of layout,*)
(* registration and depth ratio iff both of its frames are.                *)
(***************************************************************************)
EXTENDS Integers, Sequences, FiniteSetsExt

CONSTANTS
  MaxDelta,      \* max_delta_s
  MaxAge,        \* max_age_s
  InputTimeout,  \* input_timeout_s
  QueueSize,     \* queue_size
  MaxRos,        \* bound: the last reading of ROS time
  MaxMono,       \* bound: the last reading of monotonic time
  MaxSessions    \* bound: sessions started

ASSUME GateAssumption ==
  /\ {MaxDelta, MaxAge, InputTimeout, MaxRos, MaxMono, MaxSessions} \subseteq Nat
  /\ MaxDelta <= MaxAge /\ MaxAge > 0 /\ InputTimeout > 0
  /\ QueueSize \in 1..100

VARIABLES
  session,      \* how many sessions were started; 0 is the empty session_id
  state,        \* what snapshot reports
  queue,        \* frames waiting for a partner, by stream
  lastStamp,    \* stamp of the last frame admitted, by stream
  lastArrival,  \* monotonic time of that frame or of the session's start
  boundary,     \* ROS time at which the session started
  lastRos, lastMono,  \* readings of the last call that found no clock fault
  clockFault,   \* a clock went back: a new session is required
  lastPair,     \* the last pair returned in this session, or NoPair
  returned      \* the last call returned a pair

clocks == <<boundary, lastRos, lastMono, clockFault>>
gateVars == <<session, state, queue, lastStamp, lastArrival, clocks, lastPair, returned>>

Kinds == {"color", "depth"}
States == {"STARTING", "READY", "DEGRADED", "ERROR"}
Frames == [stamp : Int, sound : BOOLEAN]
NoFrame == [stamp |-> -1, sound |-> FALSE]
NoPair == [k \in Kinds |-> NoFrame]
Empty == [k \in Kinds |-> <<>>]

GateInit == /\ session = 0 /\ state = "STARTING"
            /\ queue = Empty
            /\ lastStamp = [k \in Kinds |-> -1]
            /\ lastArrival = [k \in Kinds |-> 0]
            /\ boundary = 0 /\ lastRos = 0 /\ lastMono = 0 /\ clockFault = FALSE
            /\ lastPair = NoPair /\ returned = FALSE

Oldest(p) == Min({p["color"].stamp, p["depth"].stamp})
Apart(c, d) == Max({c.stamp - d.stamp, d.stamp - c.stamp})

-----------------------------------------------------------------------------
\* reset_session; the monotonic clock is the only one that never goes back.
ResetSession(r, m) ==
  /\ session < MaxSessions
  /\ session' = session + 1 /\ state' = "STARTING"
  /\ queue' = Empty
  /\ lastStamp' = [k \in Kinds |-> -1]
  /\ lastArrival' = [k \in Kinds |-> m]
  /\ boundary' = r /\ lastRos' = r /\ lastMono' = m /\ clockFault' = FALSE
  /\ lastPair' = NoPair /\ returned' = FALSE

-----------------------------------------------------------------------------
\* What check makes of the readings r and m, and what it leaves behind.
ClockIsBack(r, m) == clockFault \/ r < lastRos \/ m < lastMono

Expired(stamp, r) == r - stamp > MaxAge

\* Expired frames leave from the head of the queue.
Unexpired(q, r) ==
  LET alive == {i \in DOMAIN q : ~Expired(q[i].stamp, r)}
  IN IF alive = {} THEN <<>> ELSE SubSeq(q, Min(alive), Len(q))

InputLost(m) == \E k \in Kinds : m - lastArrival[k] > InputTimeout

CheckedQueue(r, m) ==
  IF ClockIsBack(r, m) \/ InputLost(m) THEN Empty
  ELSE [k \in Kinds |-> Unexpired(queue[k], r)]

\* Mutant: a pair that grew old leaves the verdict alone.
CheckedStateForgetful(r, m) ==
  IF ClockIsBack(r, m) \/ InputLost(m) THEN "ERROR"
  ELSE IF CheckedQueue(r, m) # queue THEN "DEGRADED" ELSE state

CheckedState(r, m) ==
  IF ClockIsBack(r, m) \/ InputLost(m) THEN "ERROR"
  ELSE IF \/ state = "READY" /\ Expired(Oldest(lastPair), r)
          \/ CheckedQueue(r, m) # queue
       THEN "DEGRADED" ELSE state

CheckClocks(r, m) ==
  /\ clockFault' = ClockIsBack(r, m)
  /\ IF ClockIsBack(r, m) THEN UNCHANGED <<lastRos, lastMono>>
     ELSE lastRos' = r /\ lastMono' = m
  /\ UNCHANGED boundary

\* check by itself, which is what snapshot does too.
Check(r, m) ==
  /\ session > 0
  /\ CheckClocks(r, m)
  /\ queue' = CheckedQueue(r, m)
  /\ state' = CheckedState(r, m)
  /\ returned' = FALSE
  /\ UNCHANGED <<session, lastStamp, lastArrival, lastPair>>

-----------------------------------------------------------------------------
\* Mutant: a stamp may be repeated.
AdmissibleAgain(k, f, r) ==
  f.stamp > 0 /\ f.stamp >= boundary /\ f.stamp <= r /\ ~Expired(f.stamp, r)

Admissible(k, f, r) ==
  /\ f.stamp > 0 /\ f.stamp >= boundary
  /\ f.stamp <= r /\ ~Expired(f.stamp, r)
  /\ f.stamp > lastStamp[k]

\* A full queue loses its oldest frame.
Queued(q, f) == Append(IF Len(q) = QueueSize THEN Tail(q) ELSE q, f)

\* What the loop of accept carries from one round to the next.
Rounds == [color : Seq(Frames), depth : Seq(Frames), state : States]
Round(c, d, s) == [color |-> c, depth |-> d, state |-> s]

\* The loop of accept over the two heads, to the first pair that passes.
Pairing[w \in Rounds] ==
  LET c == w.color
      d == w.depth
  IN IF c = <<>> \/ d = <<>>
     THEN [color |-> c, depth |-> d, state |-> w.state, pair |-> NoPair]
     ELSE IF Apart(Head(c), Head(d)) > MaxDelta
     THEN IF c[1].stamp < d[1].stamp THEN Pairing[Round(Tail(c), d, "DEGRADED")]
                                     ELSE Pairing[Round(c, Tail(d), "DEGRADED")]
     ELSE IF ~(c[1].sound /\ d[1].sound)
     THEN Pairing[Round(Tail(c), Tail(d), "DEGRADED")]
     ELSE [color |-> Tail(c), depth |-> Tail(d), state |-> "READY",
           pair |-> [color |-> Head(c), depth |-> Head(d)]]

\* Mutant: an unsynchronised head ends the search.
PairedOnce(c, d, s) ==
  IF c # <<>> /\ d # <<>> /\ Apart(Head(c), Head(d)) > MaxDelta
  THEN [color |-> IF c[1].stamp < d[1].stamp THEN Tail(c) ELSE c,
        depth |-> IF c[1].stamp < d[1].stamp THEN d ELSE Tail(d),
        state |-> "DEGRADED", pair |-> NoPair]
  ELSE Pairing[Round(c, d, s)]

Paired(c, d, s) == Pairing[Round(c, d, s)]

\* accept of a frame that is turned away: nothing but a worse verdict.
Refuse(k, f, r, m) ==
  /\ session > 0 /\ ~ClockIsBack(r, m)
  /\ ~Admissible(k, f, r)
  /\ CheckClocks(r, m)
  /\ queue' = CheckedQueue(r, m)
  /\ state' = "DEGRADED" /\ returned' = FALSE
  /\ UNCHANGED <<session, lastStamp, lastArrival, lastPair>>

\* accept of a frame that is queued, with or without a pair coming of it.
\* What check answered about the streams does not matter here.
Admit(k, f, r, m) ==
  /\ session > 0 /\ ~ClockIsBack(r, m)
  /\ Admissible(k, f, r)
  /\ CheckClocks(r, m)
  /\ lastStamp' = [lastStamp EXCEPT ![k] = f.stamp]
  /\ lastArrival' = [lastArrival EXCEPT ![k] = m]
  /\ \E q \in {[CheckedQueue(r, m) EXCEPT ![k] = Queued(@, f)]} :
     \E p \in {Paired(q["color"], q["depth"], CheckedState(r, m))} :
       /\ queue' = [color |-> p.color, depth |-> p.depth]
       /\ state' = p.state
       /\ returned' = (p.pair # NoPair)
       /\ lastPair' = IF p.pair = NoPair THEN lastPair ELSE p.pair
  /\ UNCHANGED session

\* An accept that finds a clock fault does what check does and no more.
GateNext ==
  \E r \in 1..MaxRos, m \in lastMono..MaxMono :
    \/ ResetSession(r, m)
    \/ Check(r, m)
    \/ \E k \in Kinds, f \in [stamp : 0..MaxRos, sound : BOOLEAN] :
         Refuse(k, f, r, m) \/ Admit(k, f, r, m)

GateSpec == GateInit /\ [][GateNext]_gateVars

-----------------------------------------------------------------------------
\* Only one of the two queues ever holds frames between calls, although each
\* call may leave the loop of accept early, and none beyond its size: what
\* waits is of this session, no older than the age limit at the last call, in
\* the order of its stamps up to the stamp the stream continues from, and gone
\* when a clock was set back.
BacklogIsOneSided ==
  /\ \E k \in Kinds : queue[k] = <<>>
  /\ \A k \in Kinds : Len(queue[k]) <= QueueSize
  /\ clockFault => queue = Empty
  /\ \A k \in Kinds : \A i \in DOMAIN queue[k] :
       /\ queue[k][i].stamp >= boundary
       /\ ~Expired(queue[k][i].stamp, lastRos)
       /\ queue[k][i].stamp <= lastStamp[k]
       /\ \A j \in 1..(i - 1) : queue[k][j].stamp < queue[k][i].stamp

\* A pair that accept returns is synchronised, sound, fresh at the reading of
\* that very call, all of this session, and uses frames no earlier pair of the
\* session used or overtook.
PairsAreNew ==
  [][returned' =>
       /\ \A k \in Kinds : /\ lastPair'[k].sound
                           /\ lastPair'[k].stamp \in boundary'..lastRos'
                           /\ ~Expired(lastPair'[k].stamp, lastRos')
                           /\ lastPair'[k].stamp > lastPair[k].stamp
       /\ Apart(lastPair'["color"], lastPair'["depth"]) <= MaxDelta
       /\ ~clockFault']_gateVars

\* docs/rgbd_quality_gate.md: READY is the verdict on the last pair only as long
\* as that pair is within the age limit, both streams are heard and no clock
\* went back, whichever call came last.
ReadyIsEarned ==
  state = "READY" =>
    /\ session > 0 /\ ~clockFault /\ lastPair # NoPair
    /\ Oldest(lastPair) >= boundary /\ ~Expired(Oldest(lastPair), lastRos)
    /\ \A k \in Kinds : lastMono - lastArrival[k] <= InputTimeout
=============================================================================
