-------------------------- MODULE ExclusiveAction ---------------------------
(***************************************************************************)
(* What a motion server promises its clients, independently of how it      *)
(* keeps the promise: goals follow the ROS action life cycle, one goal at  *)
(* a time is in flight, with CancelWins a goal whose cancellation was      *)
(* accepted is never reported as a success, the mechanism moves only on    *)
(* behalf of the goal in flight unless the server has given up and locked  *)
(* itself, a locked server accepts nothing, and every accepted goal gets   *)
(* its result.                                                             *)
(***************************************************************************)
CONSTANTS
  Goals,
  CancelWins   \* TRUE: no success once the cancellation was accepted

VARIABLES
  status,   \* the ROS action state of every goal
  moving,   \* the mechanism executes a motion
  locked    \* the server refuses work until it is restarted

avars == <<status, moving, locked>>

InFlight == {"executing", "canceling"}
Terminal == {"succeeded", "canceled", "aborted", "rejected"}

Busy == \E g \in Goals : status[g] \in InFlight

ActionTypeOK == /\ status \in [Goals -> InFlight \cup Terminal \cup {"unsent"}]
                /\ moving \in BOOLEAN
                /\ locked \in BOOLEAN

AInit == /\ status = [g \in Goals |-> "unsent"]
         /\ moving = FALSE
         /\ locked = FALSE

Reject(g) == /\ status[g] = "unsent"
             /\ status' = [status EXCEPT ![g] = "rejected"]
             /\ UNCHANGED <<moving, locked>>

Accept(g) == /\ status[g] = "unsent"
             /\ ~Busy /\ ~moving /\ ~locked
             /\ status' = [status EXCEPT ![g] = "executing"]
             /\ moving' = TRUE
             /\ UNCHANGED locked

\* A goal that is answered without a motion.
AcceptAndFinish(g) ==
  /\ status[g] = "unsent"
  /\ ~Busy /\ ~moving /\ ~locked
  /\ \E outcome \in {"succeeded", "aborted"} :
       status' = [status EXCEPT ![g] = outcome]
  /\ UNCHANGED <<moving, locked>>

AcceptCancel(g) == /\ status[g] = "executing"
                   /\ status' = [status EXCEPT ![g] = "canceling"]
                   /\ UNCHANGED <<moving, locked>>

\* The mechanism goes on or comes to rest, and the server may lock itself.
Progress == /\ Busy
            /\ moving' \in {moving, FALSE}
            /\ locked' \in {locked, TRUE}
            /\ UNCHANGED status

Outcomes(s) ==
  {"aborted"} \cup (IF s = "canceling" THEN {"canceled"} ELSE {})
              \cup (IF s = "executing" \/ ~CancelWins THEN {"succeeded"} ELSE {})

Finish(g) ==
  /\ status[g] \in InFlight
  /\ \E outcome \in Outcomes(status[g]) :
       status' = [status EXCEPT ![g] = outcome]
  /\ moving' \in {moving, FALSE}
  /\ locked' \in {locked, TRUE}
  /\ moving' => locked'

\* Only a server that has given up lets the mechanism run on.
RunOut == /\ ~Busy /\ locked
          /\ moving' = FALSE
          /\ UNCHANGED <<status, locked>>

ANext == \/ \E g \in Goals : \/ Reject(g) \/ Accept(g) \/ AcceptAndFinish(g)
                             \/ AcceptCancel(g) \/ Finish(g)
         \/ Progress
         \/ RunOut

\* Every accepted goal gets its result.
AEnds == \A g \in Goals : status[g] \in InFlight ~> status[g] \in Terminal

ASafety == AInit /\ [][ANext]_avars
ASpec == ASafety /\ AEnds

-----------------------------------------------------------------------------
\* At most one goal is in flight, and an unlocked idle server's mechanism
\* is at rest.
OneMotion ==
  /\ \A g, h \in Goals :
       status[g] \in InFlight /\ status[h] \in InFlight => g = h
  /\ moving => Busy \/ locked
=============================================================================
