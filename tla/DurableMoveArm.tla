--------------------------- MODULE DurableMoveArm ---------------------------
(***************************************************************************)
(* The durable joint dispatcher as a whole: threads submit tasks to a      *)
(* Ledger whose backend is a RosMoveArmBackend (move_arm.py), which sends  *)
(* the task as a goal, its operation id being the goal's identity, to a    *)
(* server that keeps the promise of ExclusiveAction.                       *)
(*                                                                         *)
(* The client polls with one deadline for the response and the result; a   *)
(* goal may be delivered long after the client gave up, or never, and the  *)
(* arm goes on whatever becomes of the client, its ledger or its process.  *)
(***************************************************************************)
EXTENDS Ledger

VARIABLES
  adapter,   \* where each thread is in RosMoveArmBackend.__call__
  wire,      \* goals sent and not yet delivered
  status,    \* the action state of each task's goal
  code,      \* the error code in its result
  moving,    \* the arm executes a motion
  locked     \* the server refuses work until it is restarted

serverVars == <<status, moving, locked>>
worldVars == <<wire, code, serverVars>>
dvars == <<lvars, adapter, worldVars>>

Server == INSTANCE ExclusiveAction WITH Goals <- Tasks, CancelWins <- TRUE

DInit == /\ LInit
         /\ adapter = [x \in Threads |-> "none"]
         /\ wire = {}
         /\ code = [t \in Tasks |-> "none"]
         /\ Server!AInit

-----------------------------------------------------------------------------
\* The adapter's place is forgotten once its call is over, however it ended.
Leave == adapter' = [x \in Threads |-> IF thread'[x].at = "calling"
                                       THEN adapter[x] ELSE "none"]

\* What a thread submits is a request as normalize left it: payloads are the
\* canonical forms, and a request that is refused never comes to the ledger.
Submit(x, l) == \E t \in Tasks, p \in Payloads : Reserve(x, l, t, p)

\* A step of the ledger that is none of the adapter's.  The commands of cli.py
\* open a ledger, do one thing and close it; one that ends in an error leaves
\* the record as it is.
OwnStep == /\ \/ \E l \in Ledgers : \/ Open(l) \/ Close(l) \/ Crash(l)
                                    \/ \E x \in Threads : Submit(x, l)
              \/ \E x \in Threads : Record(x) \/ Abandon(x)
           /\ Leave
           /\ UNCHANGED worldVars

Call(x) == /\ CallBackend(x)
           /\ adapter' = [adapter EXCEPT ![x] = "connecting"]
           /\ UNCHANGED worldVars

Return(x, outcome) == /\ BackendReturns(x, outcome)
                      /\ Leave
                      /\ UNCHANGED worldVars

\* wait_for_server ran out: nothing was sent.
Unreachable(x) == adapter[x] = "connecting" /\ Return(x, "FAILED")

SendGoal(x) == /\ adapter[x] = "connecting"
               /\ adapter' = [adapter EXCEPT ![x] = "awaiting_response"]
               /\ wire' = wire \cup {thread[x].task}
               /\ UNCHANGED <<lvars, code, serverVars>>

HearRejection(x) == /\ adapter[x] = "awaiting_response"
                    /\ status[thread[x].task] = "rejected"
                    /\ Return(x, "FAILED")

HearAcceptance(x) == /\ adapter[x] = "awaiting_response"
                     /\ status[thread[x].task] \notin {"unsent", "rejected"}
                     /\ adapter' = [adapter EXCEPT ![x] = "awaiting_result"]
                     /\ UNCHANGED <<lvars, worldVars>>

\* What the adapter makes of a result.
Inconclusive == {"OK", "TIMEOUT", "STOP_UNCONFIRMED", "RESULT_UNKNOWN"}

\* Mutant: an aborted goal is a failed one, whatever the code.
MeaningWithoutCode(s, c) ==
  CASE s = "succeeded" /\ c = "OK"      -> "SUCCEEDED"
    [] s = "canceled" /\ c = "CANCELED" -> "CANCELED"
    [] OTHER                            -> "FAILED"

Meaning(s, c) ==
  CASE s = "succeeded" /\ c = "OK"                -> "SUCCEEDED"
    [] s = "canceled" /\ c = "CANCELED"           -> "CANCELED"
    [] s = "aborted" /\ c \notin Inconclusive     -> "FAILED"
    [] OTHER                                      -> "NEEDS_RECONCILIATION"

HearResult(x) == /\ adapter[x] = "awaiting_result"
                 /\ status[thread[x].task] \in Server!Terminal
                 /\ Return(x, Meaning(status[thread[x].task], code[thread[x].task]))

\* The deadline passed, or something raised: the outcome is unknown.
\* Mutants: a timeout counts as a failure; the client waits without a deadline.
GiveUpAsFailed(x) == adapter[x] # "none" /\ Return(x, "FAILED")
GiveUpNever(x) == FALSE /\ Return(x, "NEEDS_RECONCILIATION")

GiveUp(x) == adapter[x] # "none" /\ Return(x, "NEEDS_RECONCILIATION")

Adapter(x) == \/ Unreachable(x) \/ SendGoal(x) \/ HearRejection(x)
              \/ HearAcceptance(x) \/ HearResult(x) \/ GiveUp(x)

-----------------------------------------------------------------------------
CodesOf(s) == CASE s = "succeeded" -> {"OK"}
                [] s = "canceled"  -> {"CANCELED"}
                [] s = "aborted"   -> {"EXECUTION_FAILED", "TIMEOUT", "STOP_UNCONFIRMED"}

\* The goal reaches the server, which turns it away, answers it, or starts.
Deliver(t) ==
  /\ t \in wire
  /\ wire' = wire \ {t}
  /\ \/ (Server!Reject(t) \/ Server!Accept(t)) /\ UNCHANGED code
     \/ /\ Server!AcceptAndFinish(t)
        /\ code' = [code EXCEPT ![t] = IF status'[t] = "succeeded"
                                       THEN "OK" ELSE "EXECUTION_FAILED"]
  /\ UNCHANGED <<lvars, adapter>>

Lose(t) == /\ t \in wire
           /\ wire' = wire \ {t}
           /\ UNCHANGED <<lvars, adapter, code, serverVars>>

\* A result that leaves the arm moving admits it.
Finish(t) == /\ Server!Finish(t)
             /\ \E c \in CodesOf(status'[t]) :
                  /\ moving' => c = "STOP_UNCONFIRMED"
                  /\ code' = [code EXCEPT ![t] = c]
             /\ UNCHANGED <<lvars, adapter, wire>>

Serve == /\ \/ Server!Progress
            \/ Server!RunOut
            \/ \E t \in Tasks : Server!AcceptCancel(t)
         /\ UNCHANGED <<lvars, adapter, wire, code>>

-----------------------------------------------------------------------------
\* The operator looks at the robot and waits until the matter is decided.
Truth(t) == CASE status[t] = "succeeded" -> "SUCCEEDED"
              [] status[t] = "canceled"  -> "CANCELED"
              [] OTHER                   -> "FAILED"

Settle(l, t) == /\ t \notin wire /\ status[t] \notin Server!InFlight /\ ~moving
                /\ Reconcile(l, t, Truth(t))
                /\ UNCHANGED <<adapter, worldVars>>

DNext == \/ OwnStep
         \/ \E x \in Threads : Call(x) \/ Adapter(x)
         \/ \E t \in Tasks : Deliver(t) \/ Lose(t) \/ Finish(t)
         \/ \E l \in Ledgers, t \in Tasks : Settle(l, t)
         \/ Serve

\* A thread inside the adapter keeps polling: each wait has the deadline.
DFairness == \A x \in Threads : WF_dvars(Adapter(x))

DSafety == DInit /\ [][DNext]_dvars
DSpec == DSafety /\ DFairness

-----------------------------------------------------------------------------
\* A known outcome in the database is what became of the goal: it survives
\* lost responses, late deliveries, crashes and the operator's decisions.
KnownIsTrue ==
  \A t \in Tasks :
    /\ row[t].state = "SUCCEEDED" => status[t] = "succeeded"
    /\ row[t].state = "CANCELED" => status[t] = "canceled"
    /\ row[t].state = "FAILED" => /\ status[t] \in {"unsent", "rejected", "aborted"}
                                  /\ t \notin wire

\* The arm moves, or is about to, only for a task whose record is open: a
\* ledger with nothing open is safe to dispatch from.
OpenRecordCoversMotion ==
  /\ moving => Pending # {}
  /\ \A t \in Tasks : t \in wire \/ status[t] \in Server!InFlight => t \in Pending

\* move_arm.py waits with a deadline: a submission does not hang, whatever is
\* lost and whether or not the server ever answers.
EveryCallReturns ==
  \A x \in Threads : thread[x].at = "calling" ~> thread[x].at # "calling"
=============================================================================
