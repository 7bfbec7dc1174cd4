--------------------------- MODULE MonitoredMotion --------------------------
(***************************************************************************)
(* One motion judged by an ExecutionMonitor when nothing is assumed of the *)
(* feedback: frames are lost, late, replayed, out of order, or report any  *)
(* positions, and the controller claims anything.  The caller keeps the    *)
(* class's rules as MoveArmServer does: it begins a stop after a verdict   *)
(* that calls for one, and stops asking after a final verdict.             *)
(*                                                                         *)
(* The history of readings is kept so that a final verdict can be judged   *)
(* against what was really offered, not against the monitor's own fields.  *)
(***************************************************************************)
EXTENDS ExecutionMonitor, Sequences

CONSTANTS
  Target,      \* the target of the motion
  Places,      \* positions a frame may report
  Timeouts,    \* execution timeouts
  MaxTime      \* bound on the clock

ASSUME MotionAssumption ==
  /\ Target \in Positions /\ Places \subseteq Positions /\ Places # {}
  /\ Timeouts \subseteq Nat \ {0} /\ MaxTime \in Nat

VARIABLES
  monitor,   \* the ExecutionMonitor object
  verdict,   \* its last verdict
  now,       \* the caller's clock
  history    \* every reading offered since the start, oldest first

mvars == <<monitor, verdict, now, history>>

MustStop == {"stale", "failed", "timeout"}
Final == {"succeeded", "stopped", "stop_unconfirmed"}

\* A lost frame carries nothing: one representative is enough.
Readings(t) ==
  [now : {t}, stamp : 0 .. t, positions : Places, available : {TRUE},
   controller : ControllerResults]
  \cup [now : {t}, stamp : {0}, positions : {Target}, available : {FALSE},
        controller : {"running"}]

MInit == /\ monitor = NewMonitor /\ verdict = "none"
         /\ now = 0 /\ history = <<>>

StartMotion ==
  /\ ~monitor.started
  /\ \E timeout \in Timeouts : monitor' = Start(monitor, Target, now, timeout)
  /\ verdict' = "running"
  /\ UNCHANGED <<now, history>>

AskStop ==
  /\ monitor.started /\ verdict \notin Final
  /\ monitor' = RequestStop(monitor, now)
  /\ verdict' = "stopping"
  /\ UNCHANGED <<now, history>>

Observe ==
  /\ monitor.started /\ verdict \notin Final \cup MustStop
  /\ now < MaxTime
  /\ now' = now + 1
  /\ \E r \in Readings(now') :
     \E u \in {Update(monitor, r)} :
       /\ monitor' = u.monitor
       /\ verdict' = u.verdict
       /\ history' = Append(history, [reading |-> r, stopping |-> monitor.stopping])

MNext == StartMotion \/ AskStop \/ Observe

MSpec == MInit /\ [][MNext]_mvars

-----------------------------------------------------------------------------
At(k) == history[k].reading
Usable(k) == /\ At(k).available
             /\ At(k).stamp <= At(k).now
             /\ At(k).now - At(k).stamp <= FeedbackTimeout

\* Reading k brings a frame newer than reading k-1, shows the joints still
\* since the frame before (first reported at reading p), on target unless
\* this is a stop, and comes with a controller that has ended.
Quiet(k, p) ==
  /\ At(k).stamp - At(p).stamp <= FeedbackTimeout
  /\ Still(At(p).positions, At(k).positions, At(k).stamp - At(p).stamp)
  /\ history[k].stopping \/ AtTarget(Target, At(k).positions)
  /\ At(k).controller \in {"succeeded"} \cup
                          (IF history[k].stopping THEN {"canceled"} ELSE {})

\* The first reading since a that reports the frame of reading k.
FirstReport(a, k) ==
  CHOOSE i \in a .. k : /\ At(i).stamp = At(k).stamp
                        /\ \A j \in a .. i - 1 : At(j).stamp # At(k).stamp

\* Readings a, ..., Len(history) are an unbroken run of usable frames of one
\* phase in time order, and every new frame of the run is quiet from reading
\* b on, for the whole settling time.
SettledOver(a, b) ==
  LET last == Len(history)
  IN /\ \A k \in a .. last : Usable(k) /\ history[k].stopping = monitor.stopping
     /\ \A k \in a + 1 .. last : At(k).stamp >= At(k - 1).stamp
     /\ At(last).stamp - At(b).stamp >= SettlingTime
     /\ \A k \in b .. last : FirstReport(a, k) = k => Quiet(k, FirstReport(a, k - 1))

\* execution_monitor.md, the four conditions of success, and the evidence for
\* a confirmed stop: a final verdict rests on frames that were really offered,
\* fresh when offered, at rest and (for success) on target for the settling
\* time, however frames were lost, replayed or reordered before.
FinalVerdictIsEarned ==
  verdict \in {"succeeded", "stopped"} =>
    \E b \in 2 .. Len(history) : \E a \in 1 .. b - 1 : SettledOver(a, b)

\* A verdict in favour of the motion comes in time and never after a stop was
\* asked for; a stop is never confirmed at or after its deadline.
NeverTooLate ==
  /\ verdict = "succeeded" => ~monitor.stopping /\ now < monitor.deadline
  /\ verdict = "stopped" => monitor.stopping /\ now < monitor.stopDeadline
=============================================================================
