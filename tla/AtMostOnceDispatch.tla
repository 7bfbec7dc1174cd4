------------------------- MODULE AtMostOnceDispatch -------------------------
(***************************************************************************)
(* What a durable dispatcher promises, independently of databases and      *)
(* locks: a task is handed to the robot at most once, ever; it is handed   *)
(* over only between the moment its intent became known and the moment     *)
(* its outcome did; while the outcome of one task is unknown no other task *)
(* starts; and a known outcome is final.                                   *)
(***************************************************************************)
EXTENDS Naturals

CONSTANT Tasks

VARIABLES
  known,   \* what is known of each task
  sent     \* how many times each task was handed to the robot

dvars == <<known, sent>>

Outcomes == {"SUCCEEDED", "FAILED", "CANCELED"}

DInit == /\ known = [t \in Tasks |-> "new"]
         /\ sent = [t \in Tasks |-> 0]

Claim(t) == /\ known[t] = "new"
            /\ \A u \in Tasks : known[u] # "unknown"
            /\ known' = [known EXCEPT ![t] = "unknown"]
            /\ UNCHANGED sent

Dispatch(t) == /\ known[t] = "unknown"
               /\ sent[t] = 0
               /\ sent' = [sent EXCEPT ![t] = 1]
               /\ UNCHANGED known

\* A task may turn out to have failed before it was handed over.
Learn(t) == /\ known[t] = "unknown"
            /\ \E o \in Outcomes : known' = [known EXCEPT ![t] = o]
            /\ UNCHANGED sent

DNext == \E t \in Tasks : Claim(t) \/ Dispatch(t) \/ Learn(t)

DSpec == DInit /\ [][DNext]_dvars
=============================================================================
