------------------------------- MODULE Ledger -------------------------------
(***************************************************************************)
(* class Ledger of zzx_task_runtime (ledger.py): the write-ahead record of *)
(* physical operations, with the threads that submit tasks to it.          *)
(*                                                                         *)
(* The file lock admits one Ledger object at a time to the database.  Each *)
(* transaction is one step; the call of the backend lies between two of    *)
(* them and outside the lock, so that a crash, a close, an interrupt or a  *)
(* storage failure can fall between any two steps.  The database survives  *)
(* all of them.  A payload stands for its canonical form and its digest.   *)
(***************************************************************************)
EXTENDS Naturals, Sequences

CONSTANTS
  Tasks,        \* task ids callers may submit
  Payloads,     \* what they may ask for
  Ledgers,      \* Ledger objects, each opened at most once
  Threads,      \* threads that may call execute
  NoLedger,     \* the lock when nobody holds it
  ClosersWait   \* TRUE: close is called, as cli.py does, after execute returned

ASSUME LedgerAssumption ==
  NoLedger \notin Ledgers /\ ClosersWait \in BOOLEAN

VARIABLES
  owner,    \* the Ledger object that holds the file lock
  life,     \* of each Ledger object: "new", "open" or "gone"
  row,      \* the operations table
  audit,    \* the reconciliation_audit table: states recorded for each task
  thread,   \* where each thread is in execute
  sent      \* history: how many times the backend was called for each task

storage == <<row, audit>>
lvars == <<owner, life, row, audit, thread, sent>>

Outcomes == {"SUCCEEDED", "FAILED", "CANCELED"}
Unresolved == {"DISPATCHING", "NEEDS_RECONCILIATION"}
NoRow == [state |-> "absent"]
Rows == [payload : Payloads, state : Outcomes \cup Unresolved]

Idle == [at |-> "idle"]
Busy == [at : {"claimed", "calling"}, ledger : Ledgers, task : Tasks]
Recording == [at : {"recording"}, ledger : Ledgers, task : Tasks,
              outcome : Outcomes \cup {"NEEDS_RECONCILIATION"}]

LInit == /\ owner = NoLedger
         /\ life = [l \in Ledgers |-> "new"]
         /\ row = [t \in Tasks |-> NoRow]
         /\ audit = [t \in Tasks |-> <<>>]
         /\ thread = [x \in Threads |-> Idle]
         /\ sent = [t \in Tasks |-> 0]

-----------------------------------------------------------------------------
\* The constructor: take the lock, and turn what the last owner left open
\* into a question for the operator.
Recovered(r) == IF r.state = "DISPATCHING"
                THEN [r EXCEPT !.state = "NEEDS_RECONCILIATION"] ELSE r

\* Mutant: the lock is not asked for.
OpenWithoutLock(l) == /\ life[l] = "new"
                      /\ owner' = l
                      /\ life' = [life EXCEPT ![l] = "open"]
                      /\ row' = [t \in Tasks |-> Recovered(row[t])]
                      /\ UNCHANGED <<audit, thread, sent>>

Open(l) == /\ life[l] = "new" /\ owner = NoLedger
           /\ owner' = l
           /\ life' = [life EXCEPT ![l] = "open"]
           /\ row' = [t \in Tasks |-> Recovered(row[t])]
           /\ UNCHANGED <<audit, thread, sent>>

Uses(x, l) == thread[x] # Idle /\ thread[x].ledger = l

\* close releases the lock whether or not a thread is inside execute.
Close(l) == /\ life[l] = "open"
            /\ ClosersWait => \A x \in Threads : ~Uses(x, l)
            /\ owner' = NoLedger
            /\ life' = [life EXCEPT ![l] = "gone"]
            /\ UNCHANGED <<row, audit, thread, sent>>

\* The process dies with its threads; what the robot does goes on.
Crash(l) == /\ life[l] = "open"
            /\ owner' = NoLedger
            /\ life' = [life EXCEPT ![l] = "gone"]
            /\ thread' = [x \in Threads |-> IF Uses(x, l) THEN Idle ELSE thread[x]]
            /\ UNCHANGED <<row, audit, sent>>

-----------------------------------------------------------------------------
\* The operations whose outcome is open; any of them makes reserve refuse.
\* Mutant: a question for the operator does not count.
DispatchingOnly == {t \in Tasks : row[t].state = "DISPATCHING"}

Pending == {t \in Tasks : row[t].state \in Unresolved}

\* Mutant: a task that came to an end may be submitted again.
MayClaimAgain(t) == Pending = {}

MayClaim(t) == row[t] = NoRow /\ Pending = {}

\* reserve commits the intent.  A call that finds a record, a conflict, an
\* unresolved operation or a storage failure leaves everything as it was.
Reserve(x, l, t, p) ==
  /\ thread[x] = Idle /\ life[l] = "open"
  /\ MayClaim(t)
  /\ row' = [row EXCEPT ![t] = [payload |-> p, state |-> "DISPATCHING"]]
  /\ thread' = [thread EXCEPT ![x] = [at |-> "claimed", ledger |-> l, task |-> t]]
  /\ UNCHANGED <<owner, life, audit, sent>>

\* execute calls the backend, which may do anything and take any time.
CallBackend(x) ==
  /\ thread[x].at = "claimed"
  /\ thread' = [thread EXCEPT ![x].at = "calling"]
  /\ sent' = [sent EXCEPT ![thread[x].task] = @ + 1]
  /\ UNCHANGED <<owner, life, storage>>

\* It returns an outcome, or raises: an exception is an unknown outcome.
BackendReturns(x, outcome) ==
  /\ thread[x].at = "calling"
  /\ thread' = [thread EXCEPT ![x] =
       [at |-> "recording", ledger |-> thread[x].ledger,
        task |-> thread[x].task, outcome |-> outcome]]
  /\ UNCHANGED <<owner, life, storage, sent>>

\* The final UPDATE ... WHERE state = 'DISPATCHING'.
Concluded(r, outcome) ==
  IF r.state = "DISPATCHING" THEN [r EXCEPT !.state = outcome] ELSE r

Record(x) ==
  /\ thread[x].at = "recording" /\ life[thread[x].ledger] = "open"
  /\ row' = [row EXCEPT ![thread[x].task] = Concluded(@, thread[x].outcome)]
  /\ thread' = [thread EXCEPT ![x] = Idle]
  /\ UNCHANGED <<owner, life, audit, sent>>

\* execute raises with the record left as it is: an interrupt (it is no
\* Exception), a storage failure, or a ledger closed in the meantime.
Abandon(x) ==
  /\ thread[x] # Idle
  /\ thread' = [thread EXCEPT ![x] = Idle]
  /\ UNCHANGED <<owner, life, storage, sent>>

-----------------------------------------------------------------------------
\* The operator states what became of a task, with evidence.
Reconcile(l, t, state) ==
  /\ life[l] = "open" /\ state \in Outcomes
  /\ row[t].state = "NEEDS_RECONCILIATION"
  /\ row' = [row EXCEPT ![t].state = state]
  /\ audit' = [audit EXCEPT ![t] = Append(@, state)]
  /\ UNCHANGED <<owner, life, thread, sent>>

LNext ==
  \/ \E l \in Ledgers : \/ Open(l) \/ Close(l) \/ Crash(l)
                        \/ \E t \in Tasks, s \in Outcomes : Reconcile(l, t, s)
                        \/ \E x \in Threads, t \in Tasks, p \in Payloads :
                             Reserve(x, l, t, p)
  \/ \E x \in Threads : \/ CallBackend(x) \/ Record(x) \/ Abandon(x)
                        \/ \E o \in Outcomes \cup {"NEEDS_RECONCILIATION"} :
                             BackendReturns(x, o)

LSpec == LInit /\ [][LNext]_lvars

-----------------------------------------------------------------------------
LedgerTypeOK ==
  /\ owner \in Ledgers \cup {NoLedger}
  /\ life \in [Ledgers -> {"new", "open", "gone"}]
  /\ row \in [Tasks -> Rows \cup {NoRow}]
  /\ audit \in [Tasks -> Seq(Outcomes)]
  /\ thread \in [Threads -> Busy \cup Recording \cup {Idle}]
  /\ sent \in [Tasks -> Nat]

\* ledger.py: "Exclusive process ownership proves no old dispatcher is still
\* active": while a ledger holds the lock, every thread that is inside execute,
\* on whatever Ledger object, is one of that ledger's own.
OldDispatcherGone ==
  \A x \in Threads : thread[x] # Idle /\ owner # NoLedger => thread[x].ledger = owner

\* What the constructor leaves for the operator is really ownerless: a record
\* under reconciliation has no thread that might still send or conclude it.
NobodyWorksOnAQuestion ==
  \A x \in Threads :
    thread[x] # Idle => row[thread[x].task].state = "DISPATCHING"

\* The audit table has one entry for each record an operator settled, and the
\* record still says what the entry says; a task without a record was never
\* sent, so nothing reaches the robot that the database does not know of.
AuditExplains ==
  /\ \A t \in Tasks : audit[t] # <<>> => /\ Len(audit[t]) = 1
                                         /\ row[t].state = audit[t][1]
  /\ \A t \in Tasks : row[t] = NoRow => audit[t] = <<>> /\ sent[t] = 0

\* At most one send per task for ever, none while another outcome is unknown,
\* none once the outcome is known.
Known(r) == IF r.state \in Unresolved THEN "unknown"
            ELSE IF r.state \in Outcomes THEN r.state ELSE "new"

Promise == INSTANCE AtMostOnceDispatch WITH known <- [t \in Tasks |-> Known(row[t])]

AtMostOnce == Promise!DSpec
=============================================================================
