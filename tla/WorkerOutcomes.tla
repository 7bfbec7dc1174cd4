--------------------------- MODULE WorkerOutcomes ---------------------------
(***************************************************************************)
(* What a worker of zzx_http_backend may report of its goal (the codes of  *)
(* worker.Outcome), as its node relies on it: from whether the goal's      *)
(* motion command was sent, whether the goal was canceled, whether the     *)
(* command may still be under way, and whether the device is at rest.      *)
(***************************************************************************)

\* Codes that leave open what the device does: their outcomes are locked.
Locking == {"STOP_UNCONFIRMED", "RESULT_UNKNOWN", "BACKEND_UNAVAILABLE"}
Codes == Locking \cup {"OK", "CANCELED", "EXECUTION_FAILED",
                       "BACKEND_REJECTED", "INVALID_ARGUMENT", "UNSUPPORTED"}

\* Before a motion command was sent; a goal that only asks for a plan never
\* sends one.
Unsent(kind, canceled) ==
  {"BACKEND_UNAVAILABLE"}
  \cup (IF canceled THEN {"CANCELED"} ELSE {})
  \cup (IF kind = "arm" THEN {"BACKEND_REJECTED"} ELSE {})
  \cup (IF kind = "arm" /\ ~canceled THEN {"OK"} ELSE {})

\* With the device at rest and the command answered the outcome may be known.
\* The cancel event is read before a stop is confirmed.
Settled(kind, canceled) ==
  CASE kind = "hand"             -> {"OK"}
    [] kind = "arm" /\ canceled  -> {"CANCELED", "EXECUTION_FAILED"}
    [] kind = "arm" /\ ~canceled -> {"OK", "EXECUTION_FAILED"}

Sent(kind, canceled, onWire, resting) ==
  {"RESULT_UNKNOWN"}
  \cup (IF ~onWire /\ (canceled \/ kind = "arm") THEN {"STOP_UNCONFIRMED"} ELSE {})
  \cup (IF ~onWire /\ resting THEN Settled(kind, canceled) ELSE {})
=============================================================================
