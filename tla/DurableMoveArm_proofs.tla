------------------------ MODULE DurableMoveArm_proofs ------------------------
(***************************************************************************)
(* Proofs about Ledger, and about DurableMoveArm which puts it between its *)
(* threads and a motion server, for callers who close a ledger only when   *)
(* none of their threads is inside execute, as cli.py does.                *)
(*                                                                         *)
(* The argument for the ledger: the file lock makes the open ledger        *)
(* unique; the one unresolved record a reservation tolerates makes the     *)
(* busy thread unique; so nobody can send or conclude a task that another  *)
(* path has settled.  For the composition: the one unresolved record is    *)
(* the only one whose goal can be on its way or in flight, so the goal of  *)
(* every other record stays as it is.                                      *)
(***************************************************************************)
EXTENDS DurableMoveArm, SequenceTheorems, TLAPS

\* The lock and the objects' lives say the same.
OneOpen == \A l \in Ledgers : life[l] = "open" <=> owner = l

\* A busy thread belongs to the open ledger and holds the unresolved record.
Workers == \A x \in Threads :
             thread[x] # Idle => /\ thread[x].ledger = owner
                                 /\ thread[x].task \in Tasks
                                 /\ row[thread[x].task].state = "DISPATCHING"

OneWorker == \A x, y \in Threads : thread[x] # Idle /\ thread[y] # Idle => x = y

OneQuestion == \A t, u \in Tasks :
  row[t].state \in Unresolved /\ row[u].state \in Unresolved => t = u

NotYetSent == \A x \in Threads : thread[x].at = "claimed" => sent[thread[x].task] = 0

Books == \A t \in Tasks :
           /\ row[t] = NoRow => sent[t] = 0 /\ audit[t] = <<>>
           /\ row[t].state \in Unresolved => audit[t] = <<>>
           /\ audit[t] # <<>> => Len(audit[t]) = 1 /\ row[t].state = audit[t][1]

LInv == /\ LedgerTypeOK /\ OneOpen /\ Workers /\ OneWorker
        /\ OneQuestion /\ NotYetSent /\ Books

-----------------------------------------------------------------------------
LEMMA RowStates ==
  ASSUME LedgerTypeOK, NEW t \in Tasks
  PROVE  /\ row[t].state \in Outcomes \cup Unresolved \cup {"absent"}
         /\ row[t].state = "absent" => row[t] = NoRow
         /\ row[t] # NoRow => row[t] \in Rows
BY DEF LedgerTypeOK, Rows, NoRow, Outcomes, Unresolved

LEMMA ThreadStates ==
  ASSUME LedgerTypeOK, NEW x \in Threads
  PROVE  /\ thread[x].at \in {"idle", "claimed", "calling", "recording"}
         /\ thread[x].at = "idle" <=> thread[x] = Idle
         /\ thread[x] # Idle => /\ thread[x].ledger \in Ledgers
                                /\ thread[x].task \in Tasks
         /\ thread[x].at = "recording" => thread[x] \in Recording
         /\ thread[x].at \in {"claimed", "calling"} => thread[x] \in Busy
BY DEF LedgerTypeOK, Idle, Busy, Recording

LEMMA LInitEstablishes == LInit => LInv
BY LedgerAssumption DEF LInit, LInv, LedgerTypeOK, OneOpen, Workers, OneWorker,
   OneQuestion, NotYetSent, Books, NoRow, Idle, Unresolved

LEMMA OpenKeeps ==
  ASSUME LInv, NEW l \in Ledgers, Open(l)
  PROVE  LInv'
<1> USE DEF LInv, Open
<1>1. \A x \in Threads : thread[x] = Idle
  BY ThreadStates, LedgerAssumption DEF Workers
<1>2. \A t \in Tasks : /\ row'[t] = Recovered(row[t])
                       /\ row[t] = NoRow <=> row'[t] = NoRow
                       /\ row[t].state \in Unresolved <=> row'[t].state \in Unresolved
                       /\ row[t].state \notin Unresolved => row'[t] = row[t]
                       /\ row'[t] \in Rows \cup {NoRow}
  BY RowStates DEF Recovered, Rows, NoRow, Unresolved, Outcomes, LedgerTypeOK
<1>3. LedgerTypeOK'
  BY <1>2 DEF LedgerTypeOK
<1>4. OneOpen'
  BY LedgerAssumption DEF OneOpen, LedgerTypeOK
<1>5. Workers' /\ OneWorker' /\ NotYetSent'
  BY <1>1 DEF Workers, OneWorker, NotYetSent, Idle
<1>6. OneQuestion'
  BY <1>2 DEF OneQuestion
<1>7. Books'
  <2>1. ASSUME NEW t \in Tasks
        PROVE  /\ row'[t] = NoRow => sent'[t] = 0 /\ audit'[t] = <<>>
               /\ row'[t].state \in Unresolved => audit'[t] = <<>>
               /\ audit'[t] # <<>> => /\ Len(audit'[t]) = 1
                                      /\ row'[t].state = audit'[t][1]
    BY <1>2 DEF Books
  <2>2. QED
    BY <2>1 DEF Books
<1>8. QED
  BY <1>3, <1>4, <1>5, <1>6, <1>7

LEMMA CloseKeeps ==
  ASSUME ClosersWait, LInv, NEW l \in Ledgers, Close(l)
  PROVE  LInv'
<1> USE DEF LInv, Close
<1>1. owner = l
  BY DEF OneOpen
<1>2. \A x \in Threads : thread[x] = Idle
  BY <1>1 DEF Workers, Uses
<1>3. LedgerTypeOK' /\ OneQuestion' /\ Books'
  BY DEF LedgerTypeOK, OneQuestion, Books
<1>4. OneOpen'
  BY <1>1, LedgerAssumption DEF OneOpen, LedgerTypeOK
<1>5. Workers' /\ OneWorker' /\ NotYetSent'
  BY <1>2 DEF Workers, OneWorker, NotYetSent, Idle
<1>6. QED
  BY <1>3, <1>4, <1>5

LEMMA CrashKeeps ==
  ASSUME LInv, NEW l \in Ledgers, Crash(l)
  PROVE  LInv'
<1> USE DEF LInv, Crash
<1>1. owner = l
  BY DEF OneOpen
<1>2. \A x \in Threads : thread'[x] = Idle
  BY <1>1 DEF Workers, Uses
<1>3. LedgerTypeOK' /\ OneQuestion' /\ Books'
  BY DEF LedgerTypeOK, OneQuestion, Books
<1>4. OneOpen'
  BY <1>1, LedgerAssumption DEF OneOpen, LedgerTypeOK
<1>5. Workers' /\ OneWorker' /\ NotYetSent'
  BY <1>2 DEF Workers, OneWorker, NotYetSent, Idle
<1>6. QED
  BY <1>3, <1>4, <1>5

LEMMA ReserveKeeps ==
  ASSUME LInv, NEW x \in Threads, NEW l \in Ledgers, NEW t \in Tasks,
         NEW p \in Payloads, Reserve(x, l, t, p)
  PROVE  LInv'
<1> DEFINE claim == [at |-> "claimed", ledger |-> l, task |-> t]
           intent == [payload |-> p, state |-> "DISPATCHING"]
<1> USE DEF LInv, Reserve
<1>1. /\ row[t] = NoRow /\ owner = l
      /\ \A u \in Tasks : row[u].state \notin Unresolved
  BY DEF MayClaim, Pending, OneOpen
<1>2. \A y \in Threads : thread[y] = Idle
  BY <1>1 DEF Workers, Unresolved
<1>3. /\ \A y \in Threads : thread'[y] = IF y = x THEN claim ELSE thread[y]
      /\ \A u \in Tasks : row'[u] = IF u = t THEN intent ELSE row[u]
  BY DEF LedgerTypeOK
<1>4. claim \in Busy /\ claim # Idle /\ intent \in Rows
  BY DEF Busy, Idle, Rows, Unresolved
<1>5. LedgerTypeOK'
  BY <1>4 DEF LedgerTypeOK
<1>6. OneOpen'
  BY DEF OneOpen
<1>7. Workers' /\ OneWorker'
  BY <1>1, <1>2, <1>3 DEF Workers, OneWorker
<1>8. OneQuestion'
  BY <1>1, <1>3 DEF OneQuestion
<1>9. NotYetSent'
  BY <1>1, <1>2, <1>3 DEF NotYetSent, Books, Idle
<1>10. Books'
  BY <1>1, <1>3 DEF Books, NoRow, Unresolved
<1>11. QED
  BY <1>5, <1>6, <1>7, <1>8, <1>9, <1>10

\* A step that moves one busy thread on, or sends it home, and leaves the
\* tables alone.
LEMMA CallBackendKeeps ==
  ASSUME LInv, NEW x \in Threads, CallBackend(x)
  PROVE  LInv'
<1> DEFINE t == thread[x].task
           call == [thread[x] EXCEPT !.at = "calling"]
<1> USE DEF LInv, CallBackend, storage
<1>1. thread[x] \in Busy /\ thread[x] # Idle
  BY DEF LedgerTypeOK, Busy, Recording, Idle
<1>2. /\ call \in Busy /\ call # Idle /\ call.at = "calling"
      /\ call.ledger = thread[x].ledger /\ call.task = t
  BY <1>1 DEF Busy, Idle
<1>3. t \in Tasks
  BY <1>1 DEF Busy
<1>4. /\ \A y \in Threads : thread'[y] = IF y = x THEN call ELSE thread[y]
      /\ \A u \in Tasks : sent'[u] = IF u = t THEN sent[t] + 1 ELSE sent[u]
  BY DEF LedgerTypeOK
<1>5. LedgerTypeOK'
  BY <1>2, <1>3 DEF LedgerTypeOK
<1>6. OneOpen' /\ OneQuestion'
  BY DEF OneOpen, OneQuestion
<1>7. Workers' /\ OneWorker'
  BY <1>1, <1>2, <1>4 DEF Workers, OneWorker
<1>8. NotYetSent'
  BY <1>1, <1>2, <1>4, ThreadStates DEF NotYetSent, OneWorker, Idle
<1>9. Books'
  BY <1>1, <1>4 DEF Books, Workers, NoRow
<1>10. QED
  BY <1>5, <1>6, <1>7, <1>8, <1>9

LEMMA BackendReturnsKeeps ==
  ASSUME LInv, NEW x \in Threads,
         NEW o \in Outcomes \cup {"NEEDS_RECONCILIATION"}, BackendReturns(x, o)
  PROVE  LInv'
<1> DEFINE answer == [at |-> "recording", ledger |-> thread[x].ledger,
                      task |-> thread[x].task, outcome |-> o]
<1> USE DEF LInv, BackendReturns, storage
<1>1. thread[x] \in Busy /\ thread[x] # Idle
  BY DEF LedgerTypeOK, Busy, Recording, Idle
<1>2. answer \in Recording /\ answer # Idle
  BY <1>1 DEF Busy, Recording, Idle
<1>3. \A y \in Threads : thread'[y] = IF y = x THEN answer ELSE thread[y]
  BY DEF LedgerTypeOK
<1>4. LedgerTypeOK'
  BY <1>2 DEF LedgerTypeOK
<1>5. OneOpen' /\ OneQuestion' /\ Books'
  BY DEF OneOpen, OneQuestion, Books
<1>6. /\ answer.ledger = thread[x].ledger /\ answer.task = thread[x].task
      /\ answer.at = "recording"
  OBVIOUS
<1> HIDE DEF answer
<1>7. Workers' /\ OneWorker'
  BY <1>1, <1>3, <1>6 DEF Workers, OneWorker
<1>8. NotYetSent'
  BY <1>3, <1>6 DEF NotYetSent
<1>9. QED
  BY <1>4, <1>5, <1>7, <1>8

LEMMA RecordKeeps ==
  ASSUME LInv, NEW x \in Threads, Record(x)
  PROVE  LInv'
<1> DEFINE t == thread[x].task
           after == Concluded(row[t], thread[x].outcome)
<1> USE DEF LInv, Record
<1>1. thread[x] \in Recording /\ thread[x] # Idle
  BY ThreadStates DEF Idle
<1>2. t \in Tasks /\ row[t].state = "DISPATCHING"
  BY <1>1 DEF Workers, Recording
<1>3. row[t] \in Rows
  BY <1>2, RowStates DEF NoRow
<1>4. /\ after \in Rows /\ after # NoRow
      /\ after.state \in Outcomes \cup {"NEEDS_RECONCILIATION"}
  BY <1>1, <1>2, <1>3 DEF Concluded, Rows, Recording, NoRow, Unresolved, Outcomes
<1>5. /\ \A y \in Threads : thread'[y] = IF y = x THEN Idle ELSE thread[y]
      /\ \A u \in Tasks : row'[u] = IF u = t THEN after ELSE row[u]
  BY DEF LedgerTypeOK
<1>6. \A y \in Threads : thread'[y] = Idle
  BY <1>1, <1>5 DEF OneWorker
<1>7. LedgerTypeOK'
  BY <1>4 DEF LedgerTypeOK
<1>8. OneOpen'
  BY DEF OneOpen
<1>9. Workers' /\ OneWorker' /\ NotYetSent'
  BY <1>6 DEF Workers, OneWorker, NotYetSent, Idle
<1>10. OneQuestion'
  BY <1>2, <1>5 DEF OneQuestion, Unresolved
<1>11. Books'
  BY <1>2, <1>4, <1>5 DEF Books, Unresolved
<1>12. QED
  BY <1>7, <1>8, <1>9, <1>10, <1>11

LEMMA AbandonKeeps ==
  ASSUME LInv, NEW x \in Threads, Abandon(x)
  PROVE  LInv'
<1> USE DEF LInv, Abandon, storage
<1>1. \A y \in Threads : thread'[y] = Idle
  BY DEF OneWorker, LedgerTypeOK
<1>2. LedgerTypeOK' /\ OneOpen' /\ OneQuestion' /\ Books'
  BY DEF LedgerTypeOK, OneOpen, OneQuestion, Books
<1>3. Workers' /\ OneWorker' /\ NotYetSent'
  BY <1>1 DEF Workers, OneWorker, NotYetSent, Idle
<1>4. QED
  BY <1>2, <1>3

LEMMA ReconcileKeeps ==
  ASSUME LInv, NEW l \in Ledgers, NEW t \in Tasks, NEW o \in Outcomes,
         Reconcile(l, t, o)
  PROVE  LInv'
<1> DEFINE settled == [row[t] EXCEPT !.state = o]
<1> USE DEF LInv, Reconcile
<1>1. row[t] \in Rows /\ audit[t] = <<>>
  BY RowStates DEF NoRow, Books, Unresolved
<1>2. settled \in Rows /\ settled.state = o /\ settled # NoRow
  BY <1>1 DEF Rows, NoRow, Outcomes
<1>3. /\ Append(audit[t], o) \in Seq(Outcomes) /\ Append(audit[t], o) # <<>>
      /\ Len(Append(audit[t], o)) = 1 /\ Append(audit[t], o)[1] = o
  <2>1. /\ <<>> \in Seq(Outcomes) /\ Len(<<>>) = 0
        /\ o \in Outcomes
    OBVIOUS
  <2>2. Append(<<>>, o) = <<o>>
    OBVIOUS
  <2>3. QED
    BY <1>1, <2>1, <2>2
<1>4. /\ \A u \in Tasks : row'[u] = IF u = t THEN settled ELSE row[u]
      /\ \A u \in Tasks : audit'[u] = IF u = t THEN Append(audit[t], o) ELSE audit[u]
  BY DEF LedgerTypeOK
<1>5. LedgerTypeOK'
  BY <1>2, <1>3 DEF LedgerTypeOK
<1>6. OneOpen' /\ OneWorker' /\ NotYetSent'
  BY DEF OneOpen, OneWorker, NotYetSent
<1>7. Workers'
  BY <1>4 DEF Workers
<1>8. OneQuestion'
  BY <1>2, <1>4 DEF OneQuestion, Outcomes, Unresolved
<1>9. Books'
  <2>1. ASSUME NEW u \in Tasks, u # t
        PROVE  row'[u] = row[u] /\ audit'[u] = audit[u] /\ sent'[u] = sent[u]
    BY <1>4, <2>1
  <2>2. o \notin Unresolved
    BY DEF Outcomes, Unresolved
  <2>3. /\ row'[t] # NoRow /\ row'[t].state = o /\ o \notin Unresolved
        /\ Len(audit'[t]) = 1 /\ audit'[t][1] = o
    <3>1. row'[t] = settled /\ audit'[t] = Append(audit[t], o)
      BY <1>4
    <3> HIDE DEF settled, LInv, Reconcile
    <3>2. row'[t] # NoRow /\ row'[t].state = o
      BY <1>2, <3>1
    <3>3. Len(audit'[t]) = 1 /\ audit'[t][1] = o
      BY <1>3, <3>1
    <3>4. QED
      BY <2>2, <3>2, <3>3
  <2> HIDE DEF settled, LInv, Reconcile
  <2>4. Books
    BY DEF LInv
  <2>5. QED
    BY <2>1, <2>3, <2>4 DEF Books
<1>10. QED
  BY <1>5, <1>6, <1>7, <1>8, <1>9

LEMMA LInductive ==
  ASSUME ClosersWait, LInv, [LNext]_lvars
  PROVE  LInv'
<1>1. CASE LNext
  BY <1>1, OpenKeeps, CloseKeeps, CrashKeeps, ReserveKeeps, CallBackendKeeps,
     BackendReturnsKeeps, RecordKeeps, AbandonKeeps, ReconcileKeeps DEF LNext
<1>2. CASE UNCHANGED lvars
  BY <1>2 DEF LInv, lvars, LedgerTypeOK, OneOpen, Workers, OneWorker,
     OneQuestion, NotYetSent, Books
<1>3. QED
  BY <1>1, <1>2

LEMMA LInvariant == ASSUME ClosersWait PROVE LSpec => []LInv
<1>1. LInv /\ [LNext]_lvars => LInv'
  BY LInductive
<1>2. QED
  BY <1>1, LInitEstablishes, PTL DEF LSpec
-----------------------------------------------------------------------------
\* For every set of tasks, threads and ledgers: while a ledger holds the lock
\* nobody works on behalf of another one.
THEOREM LockExcludesOldDispatchers ==
  ASSUME ClosersWait PROVE LSpec => []OldDispatcherGone
<1>1. LInv => OldDispatcherGone
  BY DEF LInv, Workers, OldDispatcherGone
<1>2. QED
  BY <1>1, LInvariant, PTL

\* For all constants: a record in question has no thread left that could send
\* it or conclude it.
THEOREM QuestionsAreOwnerless ==
  ASSUME ClosersWait PROVE LSpec => []NobodyWorksOnAQuestion
<1>1. LInv => NobodyWorksOnAQuestion
  BY DEF LInv, Workers, NobodyWorksOnAQuestion
<1>2. QED
  BY <1>1, LInvariant, PTL

\* For all constants: the audit table and the operations table agree.
THEOREM AuditAgrees ==
  ASSUME ClosersWait PROVE LSpec => []AuditExplains
<1>1. LInv => AuditExplains
  BY DEF LInv, Books, AuditExplains
<1>2. QED
  BY <1>1, LInvariant, PTL

-----------------------------------------------------------------------------
\* Each step of the ledger is a step of the abstract dispatcher or none.
LEMMA KnownStates ==
  ASSUME LedgerTypeOK, NEW t \in Tasks
  PROVE  /\ Known(row[t]) = "unknown" <=> row[t].state \in Unresolved
         /\ Known(row[t]) = "new" <=> row[t] = NoRow
BY RowStates DEF Known, NoRow, Unresolved, Outcomes

LEMMA StepRefines ==
  ASSUME LInv, LNext
  PROVE  Promise!DNext \/ UNCHANGED Promise!dvars
<1> DEFINE k == [t \in Tasks |-> Known(row[t])]
<1> USE DEF LInv
<1>1. CASE UNCHANGED <<row, sent>>
  BY <1>1 DEF Promise!dvars
<1>2. ASSUME NEW l \in Ledgers, Open(l)
      PROVE  UNCHANGED Promise!dvars
  <2>1. \A t \in Tasks : Known(row'[t]) = Known(row[t])
    BY <1>2, RowStates DEF Open, Recovered, Known, NoRow, Rows, Unresolved, Outcomes
  <2>2. k' = k /\ sent' = sent
    BY <1>2, <2>1 DEF Open
  <2>3. QED
    BY <2>2 DEF Promise!dvars
<1>3. ASSUME NEW x \in Threads, NEW l \in Ledgers, NEW t \in Tasks,
             NEW p \in Payloads, Reserve(x, l, t, p)
      PROVE  Promise!Claim(t)
  <2>1. k[t] = "new" /\ \A u \in Tasks : k[u] # "unknown"
    BY <1>3, KnownStates DEF Reserve, MayClaim, Pending
  <2>2. Known([payload |-> p, state |-> "DISPATCHING"]) = "unknown"
    BY DEF Known, Unresolved
  <2>3. k' = [k EXCEPT ![t] = "unknown"] /\ sent' = sent
    BY <1>3, <2>2 DEF Reserve, LedgerTypeOK
  <2>4. QED
    BY <2>1, <2>3 DEF Promise!Claim
<1>4. ASSUME NEW x \in Threads, CallBackend(x)
      PROVE  \E t \in Tasks : Promise!Dispatch(t)
  <2> DEFINE t == thread[x].task
  <2>1. thread[x] # Idle /\ thread[x].at = "claimed"
    BY <1>4 DEF CallBackend, Idle
  <2>2. t \in Tasks /\ row[t].state = "DISPATCHING" /\ sent[t] = 0
    BY <2>1 DEF Workers, NotYetSent
  <2>3. k[t] = "unknown"
    BY <2>2, KnownStates DEF Unresolved
  <2>4. sent' = [sent EXCEPT ![t] = 1] /\ k' = k
    BY <1>4, <2>2 DEF CallBackend, storage, LedgerTypeOK
  <2>5. QED
    BY <2>2, <2>3, <2>4 DEF Promise!Dispatch
<1>5. ASSUME NEW x \in Threads, Record(x)
      PROVE  (\E t \in Tasks : Promise!Learn(t)) \/ UNCHANGED Promise!dvars
  <2> DEFINE t == thread[x].task
             o == thread[x].outcome
  <2>1. thread[x] \in Recording /\ thread[x] # Idle
    BY <1>5, ThreadStates DEF Record, Idle
  <2>2. /\ t \in Tasks /\ row[t].state = "DISPATCHING" /\ row[t] \in Rows
        /\ o \in Outcomes \cup {"NEEDS_RECONCILIATION"}
    BY <2>1, RowStates DEF Workers, Recording, NoRow
  <2>3. Concluded(row[t], o).state = o
    BY <2>2 DEF Concluded, Rows
  <2>4. row' = [row EXCEPT ![t] = Concluded(row[t], o)] /\ sent' = sent
    BY <1>5 DEF Record
  <2>5. k' = [k EXCEPT ![t] = Known(Concluded(row[t], o))]
    BY <2>2, <2>4 DEF LedgerTypeOK
  <2>6. k[t] = "unknown"
    BY <2>2, KnownStates DEF Unresolved
  <2>7. CASE o \in Outcomes
    <3>1. Known(Concluded(row[t], o)) = o
      BY <2>3, <2>7 DEF Known, Outcomes, Unresolved
    <3>2. Promise!Learn(t)
      BY <2>4, <2>5, <2>6, <2>7, <3>1 DEF Promise!Learn, Promise!Outcomes, Outcomes
    <3>3. QED
      BY <2>2, <3>2
  <2>8. CASE o = "NEEDS_RECONCILIATION"
    <3>1. Known(Concluded(row[t], o)) = "unknown"
      BY <2>3, <2>8 DEF Known, Unresolved
    <3>2. k' = k
      BY <2>5, <2>6, <3>1
    <3>3. QED
      BY <2>4, <3>2 DEF Promise!dvars
  <2>9. QED
    BY <2>2, <2>7, <2>8
<1>6. ASSUME NEW l \in Ledgers, NEW t \in Tasks, NEW o \in Outcomes,
             Reconcile(l, t, o)
      PROVE  Promise!Learn(t)
  <2>1. row[t].state = "NEEDS_RECONCILIATION" /\ row[t] \in Rows
    BY <1>6, RowStates DEF Reconcile, NoRow
  <2>2. k[t] = "unknown"
    BY <2>1, KnownStates DEF Unresolved
  <2>3. Known([row[t] EXCEPT !.state = o]) = o
    BY <2>1 DEF Known, Rows, Outcomes, Unresolved
  <2>4. k' = [k EXCEPT ![t] = o] /\ sent' = sent
    BY <1>6, <2>3 DEF Reconcile, LedgerTypeOK
  <2>5. QED
    BY <2>2, <2>4 DEF Promise!Learn, Promise!Outcomes, Outcomes
<1>7. QED
  BY <1>1, <1>2, <1>3, <1>4, <1>5, <1>6
     DEF LNext, Close, Crash, Abandon, BackendReturns, storage, Promise!DNext

\* For all constants: the ledger implements at-most-once dispatch.
THEOREM DispatchesAtMostOnce ==
  ASSUME ClosersWait PROVE LSpec => AtMostOnce
<1>1. LInit => Promise!DInit
  BY DEF LInit, Promise!DInit, Known, NoRow, Unresolved, Outcomes
<1>2. LInv /\ [LNext]_lvars => [Promise!DNext]_(Promise!dvars)
  <2>1. CASE LNext
    BY <2>1, StepRefines
  <2>2. CASE UNCHANGED lvars
    BY <2>2 DEF lvars, Promise!dvars
  <2>3. QED
    BY <2>1, <2>2
<1>3. QED
  BY <1>1, <1>2, LInvariant, PTL DEF LSpec, AtMostOnce, Promise!DSpec

-----------------------------------------------------------------------------
(* The composition.  Its steps are steps of the ledger or leave it alone.  *)

LEMMA TruthIsOutcome == ASSUME NEW t PROVE Truth(t) \in Outcomes
BY DEF Truth, Outcomes

LEMMA StepOfLedger ==
  ASSUME DNext PROVE LNext \/ UNCHANGED lvars
<1>1. CASE OwnStep
  BY <1>1 DEF OwnStep, Submit, LNext
<1>2. ASSUME NEW x \in Threads, Call(x) PROVE LNext
  BY <1>2 DEF Call, LNext
<1>3. ASSUME NEW x \in Threads, Adapter(x) PROVE LNext \/ UNCHANGED lvars
  <2>1. ASSUME NEW o \in Outcomes \cup {"NEEDS_RECONCILIATION"}, Return(x, o)
        PROVE  LNext
    BY <2>1 DEF Return, LNext
  <2>2. Meaning(status[thread[x].task], code[thread[x].task])
          \in Outcomes \cup {"NEEDS_RECONCILIATION"}
    BY DEF Meaning, Outcomes
  <2>3. QED
    BY <1>3, <2>1, <2>2 DEF Adapter, Unreachable, SendGoal, HearRejection,
       HearAcceptance, HearResult, GiveUp, Outcomes
<1>4. ASSUME NEW t \in Tasks, Deliver(t) \/ Lose(t) \/ Finish(t)
      PROVE  UNCHANGED lvars
  BY <1>4 DEF Deliver, Lose, Finish
<1>5. ASSUME NEW l \in Ledgers, NEW t \in Tasks, Settle(l, t) PROVE LNext
  BY <1>5, TruthIsOutcome DEF Settle, LNext
<1>6. CASE Serve
  BY <1>6 DEF Serve
<1>7. QED
  BY <1>1, <1>2, <1>3, <1>4, <1>5, <1>6 DEF DNext

LEMMA DurableIsLedger == DSafety => LSpec
<1>1. DInit => LInit
  BY DEF DInit
<1>2. [DNext]_dvars => [LNext]_lvars
  BY StepOfLedger DEF dvars
<1>3. QED
  BY <1>1, <1>2, PTL DEF DSafety, LSpec

-----------------------------------------------------------------------------
(* The inductive invariant of the composition.                             *)

DTypeOK ==
  /\ adapter \in [Threads -> {"none", "connecting", "awaiting_response",
                              "awaiting_result"}]
  /\ wire \subseteq Tasks
  /\ status \in [Tasks -> Server!InFlight \cup Server!Terminal \cup {"unsent"}]
  /\ code \in [Tasks -> {"none", "OK", "CANCELED", "EXECUTION_FAILED", "TIMEOUT",
                         "STOP_UNCONFIRMED"}]
  /\ moving \in BOOLEAN

\* A thread is somewhere in the adapter exactly as long as it calls it.
InTheAdapter == \A x \in Threads : adapter[x] # "none" <=> thread[x].at = "calling"

\* Nobody but the adapter sends a goal, and it sends it once.
SentOnce ==
  /\ \A t \in Tasks : t \in wire \/ row[t] = NoRow => status[t] = "unsent"
  /\ \A t \in Tasks : row[t] = NoRow => t \notin wire
  /\ \A x \in Threads : thread[x].at = "claimed" \/ adapter[x] = "connecting" =>
       thread[x].task \notin wire /\ status[thread[x].task] = "unsent"

\* A goal the world has nothing more to do for.
Over(t) == t \notin wire /\ status[t] \notin Server!InFlight

\* The server gave up on the goal, and its motion may run on.
GivenUp(t) == status[t] = "aborted" /\ code[t] = "STOP_UNCONFIRMED"

\* What an answer about a goal claims is the case.
Holds(t, outcome) ==
  /\ outcome \in Outcomes => Over(t) /\ ~GivenUp(t)
  /\ outcome = "SUCCEEDED" => status[t] = "succeeded"
  /\ outcome = "CANCELED" => status[t] = "canceled"
  /\ outcome = "FAILED" => status[t] \in {"unsent", "rejected", "aborted"}

AnswersHold == \A x \in Threads :
  thread[x].at = "recording" => Holds(thread[x].task, thread[x].outcome)

RecordsHold == \A t \in Tasks :
  /\ row[t].state \notin Unresolved => Over(t)
  /\ row[t].state = "SUCCEEDED" => status[t] = "succeeded"
  /\ row[t].state = "CANCELED" => status[t] = "canceled"
  /\ row[t].state = "FAILED" => status[t] \in {"unsent", "rejected", "aborted"}

\* The arm moves for a goal in flight or given up, whose record is open.
MotionIsOwned ==
  moving => \E t \in Pending : status[t] \in Server!InFlight \/ GivenUp(t)

DInv == /\ LInv /\ DTypeOK /\ InTheAdapter /\ SentOnce
        /\ AnswersHold /\ RecordsHold /\ MotionIsOwned

LEMMA DInitEstablishes == DInit => DInv
<1> SUFFICES ASSUME DInit PROVE DInv
  OBVIOUS
<1>1. LInv
  BY LInitEstablishes DEF DInit
<1>2. DTypeOK /\ InTheAdapter /\ SentOnce /\ AnswersHold /\ RecordsHold /\ MotionIsOwned
  BY DEF DInit, LInit, Server!AInit, DTypeOK, InTheAdapter, SentOnce, AnswersHold,
     RecordsHold, MotionIsOwned, Over, Idle, NoRow, Unresolved, Server!InFlight
<1>3. QED
  BY <1>1, <1>2 DEF DInv

\* A step by which threads stay or go home and rows keep their outcome, if
\* they have one.
LEMMA QuietStepKeeps ==
  ASSUME DInv, Leave, UNCHANGED worldVars, LedgerTypeOK',
         \A x \in Threads : thread'[x] \in {thread[x], Idle},
         \A t \in Tasks : /\ row'[t] = NoRow <=> row[t] = NoRow
                          /\ row'[t].state \in Unresolved <=> row[t].state \in Unresolved
                          /\ row[t].state \notin Unresolved => row'[t] = row[t]
  PROVE  /\ DTypeOK' /\ InTheAdapter' /\ SentOnce'
         /\ AnswersHold' /\ RecordsHold' /\ MotionIsOwned'
<1> USE DEF DInv, worldVars, serverVars
<1>1. \A x \in Threads : adapter'[x] = IF thread'[x].at = "calling"
                                       THEN adapter[x] ELSE "none"
  BY DEF Leave
<1>2. DTypeOK'
  BY DEF DTypeOK, Leave
<1>3. InTheAdapter'
  BY <1>1 DEF InTheAdapter, Idle
<1>4. SentOnce'
  BY <1>1 DEF SentOnce, InTheAdapter, Idle
<1>5. AnswersHold'
  BY DEF AnswersHold, Idle, Holds, Over, GivenUp
<1>6. RecordsHold'
  BY DEF RecordsHold, Over, Outcomes, Unresolved
<1>7. Pending' = Pending
  BY DEF Pending
<1>8. MotionIsOwned'
  BY <1>7 DEF MotionIsOwned, GivenUp
<1>9. QED
  BY <1>2, <1>3, <1>4, <1>5, <1>6, <1>8

LEMMA OpenCloseCrashAbandonKeep ==
  ASSUME DInv, LInv', OwnStep,
         \/ \E l \in Ledgers : Open(l) \/ Close(l) \/ Crash(l)
         \/ \E x \in Threads : Abandon(x)
  PROVE  /\ DTypeOK' /\ InTheAdapter' /\ SentOnce'
         /\ AnswersHold' /\ RecordsHold' /\ MotionIsOwned'
<1> USE DEF DInv, LInv
<1>1. Leave /\ UNCHANGED worldVars
  BY DEF OwnStep
<1>2. \A x \in Threads : thread'[x] \in {thread[x], Idle}
  BY DEF LedgerTypeOK, Open, Close, Crash, Abandon
<1>3. \A t \in Tasks :
        /\ row'[t] = NoRow <=> row[t] = NoRow
        /\ row'[t].state \in Unresolved <=> row[t].state \in Unresolved
        /\ row[t].state \notin Unresolved => row'[t] = row[t]
  <2>1. CASE row' = row
    BY <2>1
  <2>2. ASSUME NEW l \in Ledgers, Open(l), NEW t \in Tasks
        PROVE  /\ row'[t] = NoRow <=> row[t] = NoRow
               /\ row'[t].state \in Unresolved <=> row[t].state \in Unresolved
               /\ row[t].state \notin Unresolved => row'[t] = row[t]
    BY <2>2, RowStates DEF Open, Recovered, Rows, NoRow, Unresolved, Outcomes
  <2>3. QED
    BY <2>1, <2>2 DEF Close, Crash, Abandon, storage
<1>4. QED
  BY <1>1, <1>2, <1>3, QuietStepKeeps

LEMMA DReserveKeeps ==
  ASSUME DInv, LInv', OwnStep, NEW x \in Threads, NEW l \in Ledgers, NEW t \in Tasks,
         NEW p \in Payloads, Reserve(x, l, t, p)
  PROVE  /\ DTypeOK' /\ InTheAdapter' /\ SentOnce'
         /\ AnswersHold' /\ RecordsHold' /\ MotionIsOwned'
<1> DEFINE claim == [at |-> "claimed", ledger |-> l, task |-> t]
           intent == [payload |-> p, state |-> "DISPATCHING"]
<1> USE DEF DInv, LInv, Reserve, worldVars, serverVars
<1>1. Leave /\ UNCHANGED worldVars
  BY DEF OwnStep
<1>2. row[t] = NoRow /\ Pending = {} /\ thread[x] = Idle
  BY DEF MayClaim
<1>3. /\ \A y \in Threads : thread'[y] = IF y = x THEN claim ELSE thread[y]
      /\ \A u \in Tasks : row'[u] = IF u = t THEN intent ELSE row[u]
  BY DEF LedgerTypeOK
<1>4. \A y \in Threads : adapter'[y] = IF thread'[y].at = "calling"
                                       THEN adapter[y] ELSE "none"
  BY <1>1 DEF Leave
<1>5. DTypeOK'
  BY <1>1 DEF DTypeOK, Leave
<1>6. InTheAdapter'
  BY <1>3, <1>4 DEF InTheAdapter
<1>7. SentOnce'
  BY <1>1, <1>2, <1>3, <1>4 DEF SentOnce, InTheAdapter, NoRow
<1>8. AnswersHold'
  BY <1>1, <1>3 DEF AnswersHold, Holds, Over, GivenUp
<1>9. RecordsHold'
  BY <1>1, <1>3 DEF RecordsHold, Over, Unresolved
<1>10. MotionIsOwned'
  BY <1>1, <1>2 DEF MotionIsOwned
<1>11. QED
  BY <1>5, <1>6, <1>7, <1>8, <1>9, <1>10

\* The one step that makes an answer a record: it needs what the answer says
\* to be the case, and the arm not to move on behalf of the task.
LEMMA DRecordKeeps ==
  ASSUME DInv, LInv', OwnStep, NEW x \in Threads, Record(x)
  PROVE  /\ DTypeOK' /\ InTheAdapter' /\ SentOnce'
         /\ AnswersHold' /\ RecordsHold' /\ MotionIsOwned'
<1> DEFINE t == thread[x].task
           o == thread[x].outcome
           after == Concluded(row[t], o)
<1> USE DEF DInv, LInv, Record, worldVars, serverVars
<1>1. Leave /\ UNCHANGED worldVars
  BY DEF OwnStep
<1>2. thread[x] \in Recording /\ thread[x] # Idle
  BY ThreadStates DEF Idle
<1>3. /\ t \in Tasks /\ row[t].state = "DISPATCHING" /\ row[t] \in Rows
      /\ o \in Outcomes \cup {"NEEDS_RECONCILIATION"}
  BY <1>2, RowStates DEF Workers, Recording, NoRow
<1>4. after.state = o /\ after # NoRow
  BY <1>3 DEF Concluded, Rows, NoRow
<1>5. /\ \A y \in Threads : thread'[y] = IF y = x THEN Idle ELSE thread[y]
      /\ \A u \in Tasks : row'[u] = IF u = t THEN after ELSE row[u]
  BY DEF LedgerTypeOK
<1> HIDE DEF after
<1>6. Holds(t, o)
  BY DEF AnswersHold
<1>7. \A y \in Threads : adapter'[y] = IF thread'[y].at = "calling"
                                       THEN adapter[y] ELSE "none"
  BY <1>1 DEF Leave
<1>8. DTypeOK'
  BY <1>1 DEF DTypeOK, Leave
<1>9. InTheAdapter'
  BY <1>5, <1>7 DEF InTheAdapter, Idle
<1>10. SentOnce'
  BY <1>1, <1>3, <1>4, <1>5, <1>7 DEF SentOnce, InTheAdapter, Idle, NoRow
<1>11. AnswersHold'
  BY <1>1, <1>5 DEF AnswersHold, Idle, Holds, Over, GivenUp
<1>12. RecordsHold'
  BY <1>1, <1>3, <1>4, <1>5, <1>6 DEF RecordsHold, Holds, Over, Outcomes, Unresolved
<1>13. MotionIsOwned'
  <2>1. SUFFICES ASSUME moving
                 PROVE  \E u \in Pending' : status[u] \in Server!InFlight \/ GivenUp(u)
    BY <1>1 DEF MotionIsOwned, GivenUp
  <2>2. PICK u \in Pending : status[u] \in Server!InFlight \/ GivenUp(u)
    BY <2>1 DEF MotionIsOwned
  <2>3. u = t
    BY <1>3, <2>2 DEF OneQuestion, Pending, Unresolved
  <2>4. o = "NEEDS_RECONCILIATION"
    BY <1>3, <1>6, <2>2, <2>3 DEF Holds, Over
  <2>5. t \in Pending'
    BY <1>3, <1>4, <1>5, <2>4 DEF Pending, Unresolved
  <2>6. QED
    BY <2>2, <2>3, <2>5
<1>14. QED
  BY <1>8, <1>9, <1>10, <1>11, <1>12, <1>13

LEMMA DCallKeeps ==
  ASSUME DInv, LInv', NEW x \in Threads, Call(x)
  PROVE  /\ DTypeOK' /\ InTheAdapter' /\ SentOnce'
         /\ AnswersHold' /\ RecordsHold' /\ MotionIsOwned'
<1> USE DEF DInv, LInv, Call, CallBackend, worldVars, serverVars, storage
<1>1. thread[x] \in Busy
  BY ThreadStates
<1>2. \A y \in Threads : thread'[y] = IF y = x THEN [thread[x] EXCEPT !.at = "calling"]
                                               ELSE thread[y]
  BY DEF LedgerTypeOK
<1>3. \A y \in Threads : adapter'[y] = IF y = x THEN "connecting" ELSE adapter[y]
  BY DEF DTypeOK
<1>4. thread'[x].at = "calling" /\ thread'[x].task = thread[x].task
  BY <1>1, <1>2 DEF Busy
<1>5. DTypeOK'
  BY DEF DTypeOK
<1>6. InTheAdapter'
  BY <1>2, <1>3, <1>4 DEF InTheAdapter
<1>7. SentOnce'
  BY <1>2, <1>3, <1>4 DEF SentOnce
<1>8. AnswersHold'
  BY <1>2, <1>4 DEF AnswersHold, Holds, Over, GivenUp
<1>9. RecordsHold' /\ MotionIsOwned'
  BY DEF RecordsHold, Over, MotionIsOwned, GivenUp, Pending
<1>10. QED
  BY <1>5, <1>6, <1>7, <1>8, <1>9

LEMMA DReturnKeeps ==
  ASSUME DInv, LInv', NEW x \in Threads, NEW o, Return(x, o), Holds(thread[x].task, o)
  PROVE  /\ DTypeOK' /\ InTheAdapter' /\ SentOnce'
         /\ AnswersHold' /\ RecordsHold' /\ MotionIsOwned'
<1> DEFINE answer == [at |-> "recording", ledger |-> thread[x].ledger,
                      task |-> thread[x].task, outcome |-> o]
<1> USE DEF DInv, LInv, Return, BackendReturns, worldVars, serverVars, storage
<1>1. \A y \in Threads : thread'[y] = IF y = x THEN answer ELSE thread[y]
  BY DEF LedgerTypeOK
<1>2. \A y \in Threads : adapter'[y] = IF thread'[y].at = "calling"
                                       THEN adapter[y] ELSE "none"
  BY DEF Leave
<1>3. /\ answer.at = "recording" /\ answer.task = thread[x].task
      /\ answer.outcome = o
  OBVIOUS
<1> HIDE DEF answer
<1>4. DTypeOK'
  BY DEF DTypeOK, Leave
<1>5. InTheAdapter'
  BY <1>1, <1>2, <1>3 DEF InTheAdapter
<1>6. SentOnce'
  BY <1>1, <1>2, <1>3 DEF SentOnce, InTheAdapter
<1>7. AnswersHold'
  BY <1>1, <1>3 DEF AnswersHold, Holds, Over, GivenUp
<1>8. RecordsHold' /\ MotionIsOwned'
  BY DEF RecordsHold, Over, MotionIsOwned, GivenUp, Pending
<1>9. QED
  BY <1>4, <1>5, <1>6, <1>7, <1>8

LEMMA SendGoalKeeps ==
  ASSUME DInv, LInv', NEW x \in Threads, SendGoal(x)
  PROVE  /\ DTypeOK' /\ InTheAdapter' /\ SentOnce'
         /\ AnswersHold' /\ RecordsHold' /\ MotionIsOwned'
<1> DEFINE t == thread[x].task
<1> USE DEF DInv, LInv, SendGoal, lvars, serverVars
<1>1. thread[x].at = "calling" /\ thread[x] # Idle
  BY DEF InTheAdapter, Idle
<1>2. t \in Tasks /\ row[t].state = "DISPATCHING" /\ status[t] = "unsent"
  BY <1>1 DEF Workers, SentOnce
<1>3. /\ \A y \in Threads : adapter'[y] = IF y = x THEN "awaiting_response" ELSE adapter[y]
      /\ wire' = wire \cup {t}
  BY DEF DTypeOK
<1>4. DTypeOK'
  BY <1>2 DEF DTypeOK
<1>5. InTheAdapter'
  BY <1>1, <1>3 DEF InTheAdapter
<1>6. SentOnce'
  <2>1. \A y \in Threads : thread[y].at = "claimed" \/ adapter'[y] = "connecting" => FALSE
    BY <1>1, <1>3, ThreadStates DEF OneWorker, InTheAdapter
  <2>2. QED
    BY <1>2, <1>3, <2>1 DEF SentOnce, NoRow
<1>7. AnswersHold'
  BY <1>1, ThreadStates DEF AnswersHold, OneWorker
<1>8. RecordsHold'
  BY <1>2, <1>3 DEF RecordsHold, Over, Unresolved
<1>9. MotionIsOwned'
  BY DEF MotionIsOwned, GivenUp, Pending
<1>10. QED
  BY <1>4, <1>5, <1>6, <1>7, <1>8, <1>9

LEMMA HearAcceptanceKeeps ==
  ASSUME DInv, LInv', NEW x \in Threads, HearAcceptance(x)
  PROVE  /\ DTypeOK' /\ InTheAdapter' /\ SentOnce'
         /\ AnswersHold' /\ RecordsHold' /\ MotionIsOwned'
<1> USE DEF DInv, HearAcceptance, lvars, worldVars, serverVars
<1>1. \A y \in Threads : adapter'[y] = IF y = x THEN "awaiting_result" ELSE adapter[y]
  BY DEF DTypeOK
<1>2. DTypeOK'
  BY DEF DTypeOK
<1>3. InTheAdapter' /\ SentOnce'
  BY <1>1 DEF InTheAdapter, SentOnce
<1>4. AnswersHold' /\ RecordsHold' /\ MotionIsOwned'
  BY DEF AnswersHold, Holds, RecordsHold, Over, MotionIsOwned, GivenUp, Pending
<1>5. QED
  BY <1>2, <1>3, <1>4

\* What the adapter concludes from each way its call may end.
LEMMA AdapterKeeps ==
  ASSUME DInv, LInv', NEW x \in Threads, Adapter(x)
  PROVE  /\ DTypeOK' /\ InTheAdapter' /\ SentOnce'
         /\ AnswersHold' /\ RecordsHold' /\ MotionIsOwned'
<1> DEFINE t == thread[x].task
<1>1. adapter[x] # "none"
  BY DEF Adapter, Unreachable, SendGoal, HearRejection, HearAcceptance, HearResult, GiveUp
<1>2. t \in Tasks
  BY <1>1, ThreadStates DEF DInv, LInv, InTheAdapter, Idle
<1>3. Holds(t, "NEEDS_RECONCILIATION")
  BY DEF Holds, Outcomes
<1>4. ASSUME adapter[x] = "connecting" \/ status[t] = "rejected"
      PROVE  Holds(t, "FAILED")
  BY <1>2, <1>4 DEF DInv, SentOnce, Holds, Over, GivenUp, Outcomes, Server!InFlight
<1>5. ASSUME status[t] \in Server!Terminal
      PROVE  Holds(t, Meaning(status[t], code[t]))
  <2>1. Over(t)
    BY <1>2, <1>5 DEF DInv, SentOnce, Over, Server!Terminal, Server!InFlight
  <2>2. QED
    BY <2>1, <1>5 DEF Holds, Meaning, Inconclusive, GivenUp, Outcomes, Server!Terminal
<1>6. QED
  BY <1>3, <1>4, <1>5, DReturnKeeps, SendGoalKeeps, HearAcceptanceKeeps
     DEF Adapter, Unreachable, HearRejection, HearResult, GiveUp

LEMMA SettleKeeps ==
  ASSUME DInv, LInv', NEW l \in Ledgers, NEW t \in Tasks, Settle(l, t)
  PROVE  /\ DTypeOK' /\ InTheAdapter' /\ SentOnce'
         /\ AnswersHold' /\ RecordsHold' /\ MotionIsOwned'
<1> DEFINE settled == [row[t] EXCEPT !.state = Truth(t)]
<1> USE DEF DInv, LInv, Settle, Reconcile, worldVars, serverVars
<1>1. row[t] \in Rows /\ row[t].state = "NEEDS_RECONCILIATION" /\ Over(t) /\ ~moving
  BY RowStates DEF NoRow, Over
<1>2. settled # NoRow /\ settled.state = Truth(t) /\ Truth(t) \in Outcomes
  BY <1>1, TruthIsOutcome DEF Rows, NoRow, Outcomes
<1>3. \A u \in Tasks : row'[u] = IF u = t THEN settled ELSE row[u]
  BY DEF LedgerTypeOK
<1> HIDE DEF settled
<1>4. DTypeOK' /\ InTheAdapter' /\ MotionIsOwned'
  BY <1>1 DEF DTypeOK, InTheAdapter, MotionIsOwned
<1>5. SentOnce'
  BY <1>1, <1>2, <1>3 DEF SentOnce, NoRow
<1>6. AnswersHold'
  BY DEF AnswersHold, Holds, Over, GivenUp
<1>7. RecordsHold'
  <2>1. /\ Truth(t) = "SUCCEEDED" => status[t] = "succeeded"
        /\ Truth(t) = "CANCELED" => status[t] = "canceled"
        /\ Truth(t) = "FAILED" => status[t] \in {"unsent", "rejected", "aborted"}
    BY <1>1 DEF Truth, Over, DTypeOK, Server!InFlight, Server!Terminal
  <2>2. QED
    BY <1>1, <1>2, <1>3, <2>1 DEF RecordsHold, Over
<1>8. QED
  BY <1>4, <1>5, <1>6, <1>7

-----------------------------------------------------------------------------
(* The world goes on without the ledger, but only for goals that are not   *)
(* over: the frame on which the records' truth rests.                      *)

World == (\E t \in Tasks : Deliver(t) \/ Lose(t) \/ Finish(t)) \/ Serve

LEMMA WorldFrame ==
  ASSUME DInv, World
  PROVE  /\ UNCHANGED <<lvars, adapter>> /\ DTypeOK'
         /\ wire' \subseteq wire
         /\ \A t \in Tasks :
              Over(t) => t \notin wire' /\ status'[t] = status[t] /\ code'[t] = code[t]
         /\ \A t \in wire' : status'[t] = status[t]
<1> USE DEF DInv, DTypeOK, Over, serverVars, Server!InFlight, Server!Terminal
<1>1. ASSUME NEW u \in Tasks, Deliver(u)
      PROVE  /\ UNCHANGED <<lvars, adapter>> /\ DTypeOK'
             /\ wire' = wire \ {u} /\ u \in wire
             /\ \A t \in Tasks \ {u} : status'[t] = status[t] /\ code'[t] = code[t]
  BY <1>1 DEF Deliver, Server!Reject, Server!Accept, Server!AcceptAndFinish
<1>2. ASSUME NEW u \in Tasks, Lose(u)
      PROVE  UNCHANGED <<lvars, adapter, status, code>> /\ DTypeOK' /\ wire' \subseteq wire
  BY <1>2 DEF Lose
<1>3. ASSUME NEW u \in Tasks, Finish(u)
      PROVE  /\ UNCHANGED <<lvars, adapter, wire>> /\ DTypeOK'
             /\ status[u] \in Server!InFlight
             /\ \A t \in Tasks \ {u} : status'[t] = status[t] /\ code'[t] = code[t]
  <2>1. PICK outcome \in {"aborted", "canceled", "succeeded"} :
          status' = [status EXCEPT ![u] = outcome]
    BY <1>3 DEF Finish, Server!Finish, Server!Outcomes
  <2>2. status'[u] = outcome
    BY <2>1
  <2>3. PICK c \in CodesOf(outcome) : code' = [code EXCEPT ![u] = c]
    BY <1>3, <2>2 DEF Finish
  <2>4. c \in {"OK", "CANCELED", "EXECUTION_FAILED", "TIMEOUT", "STOP_UNCONFIRMED"}
    BY <2>3 DEF CodesOf
  <2>5. QED
    BY <1>3, <2>1, <2>3, <2>4 DEF Finish, Server!Finish
<1>4. ASSUME Serve
      PROVE  /\ UNCHANGED <<lvars, adapter, wire, code>> /\ DTypeOK'
             /\ \A t \in Tasks : status[t] # "executing" => status'[t] = status[t]
  BY <1>4 DEF Serve, Server!Progress, Server!RunOut, Server!AcceptCancel
<1>5. QED
  BY <1>1, <1>2, <1>3, <1>4 DEF World, SentOnce

\* A motion starts only for a goal that was on its way, and outlives its goal
\* only when the server gives up.
LEMMA WorldKeepsMotionOwned ==
  ASSUME DInv, World
  PROVE  MotionIsOwned'
<1> USE DEF DInv, LInv, DTypeOK, serverVars
<1>1. SUFFICES ASSUME moving'
               PROVE  \E t \in Pending : status'[t] \in Server!InFlight \/ GivenUp(t)'
  BY WorldFrame DEF MotionIsOwned, Pending, lvars
<1>2. ASSUME NEW u \in Tasks, u \in wire \/ status[u] \in Server!InFlight
      PROVE  u \in Pending
  BY <1>2 DEF RecordsHold, Over, Pending
<1>3. ASSUME NEW u \in Tasks, Deliver(u), Server!Accept(u)
      PROVE  u \in Pending /\ status'[u] \in Server!InFlight
  BY <1>2, <1>3 DEF Deliver, Server!Accept, Server!InFlight
<1>4. ASSUME moving, UNCHANGED <<status, code>>
      PROVE  \E t \in Pending : status'[t] \in Server!InFlight \/ GivenUp(t)'
  BY <1>4 DEF MotionIsOwned, GivenUp
<1>5. ASSUME moving, NEW u \in Tasks, status[u] = "unsent",
             \A t \in Tasks \ {u} : status'[t] = status[t] /\ code'[t] = code[t]
      PROVE  \E t \in Pending : status'[t] \in Server!InFlight \/ GivenUp(t)'
  <2>1. PICK t \in Pending : status[t] \in Server!InFlight \/ GivenUp(t)
    BY <1>5 DEF MotionIsOwned
  <2>2. t # u /\ t \in Tasks
    BY <1>5, <2>1 DEF GivenUp, Server!InFlight, Pending
  <2>3. QED
    BY <1>5, <2>1, <2>2 DEF GivenUp
<1>6. ASSUME NEW u \in Tasks, Finish(u)
      PROVE  /\ u \in Pending
             /\ GivenUp(u)'
  <2>1. u \in Pending
    BY <1>2, <1>6 DEF Finish, Server!Finish
  <2>2. status' = [status EXCEPT ![u] = status'[u]] /\ status'[u] \in {"aborted", "canceled", "succeeded"}
    BY <1>6 DEF Finish, Server!Finish, Server!Outcomes
  <2>3. code'[u] = "STOP_UNCONFIRMED" /\ "STOP_UNCONFIRMED" \in CodesOf(status'[u])
    BY <1>1, <1>6 DEF Finish
  <2>4. status'[u] = "aborted"
    BY <2>2, <2>3 DEF CodesOf
  <2>5. QED
    BY <2>1, <2>3, <2>4 DEF GivenUp
<1>7. CASE Serve
  <2>1. moving
    BY <1>1, <1>7 DEF Serve, Server!Progress, Server!RunOut, Server!AcceptCancel
  <2>2. PICK t \in Pending : status[t] \in Server!InFlight \/ GivenUp(t)
    BY <2>1 DEF MotionIsOwned
  <2>3. t \in Tasks
    BY DEF Pending
  <2>4. QED
    BY <1>7, <2>2, <2>3 DEF Serve, Server!Progress, Server!RunOut, Server!AcceptCancel,
       GivenUp, Server!InFlight
<1>8. ASSUME NEW u \in Tasks, Deliver(u), ~Server!Accept(u)
      PROVE  \E t \in Pending : status'[t] \in Server!InFlight \/ GivenUp(t)'
  <2>1. moving /\ status[u] = "unsent"
    BY <1>1, <1>8 DEF Deliver, Server!Reject, Server!AcceptAndFinish
  <2>2. \A t \in Tasks \ {u} : status'[t] = status[t] /\ code'[t] = code[t]
    BY <1>8 DEF Deliver, Server!Reject, Server!AcceptAndFinish
  <2>3. QED
    BY <1>5, <2>1, <2>2
<1>9. QED
  BY <1>1, <1>3, <1>4, <1>6, <1>7, <1>8 DEF World, Lose, Deliver, Pending

LEMMA WorldKeeps ==
  ASSUME DInv, LInv', World
  PROVE  /\ DTypeOK' /\ InTheAdapter' /\ SentOnce'
         /\ AnswersHold' /\ RecordsHold' /\ MotionIsOwned'
<1> USE DEF DInv, LInv
<1>1. /\ UNCHANGED <<lvars, adapter>> /\ DTypeOK' /\ wire' \subseteq wire
      /\ \A t \in Tasks :
           Over(t) => t \notin wire' /\ status'[t] = status[t] /\ code'[t] = code[t]
      /\ \A t \in wire' : status'[t] = status[t]
  BY WorldFrame
<1>2. UNCHANGED <<row, thread>>
  BY <1>1 DEF lvars
<1>3. \A t \in Tasks : Over(t) => Over(t)' /\ (GivenUp(t)' <=> GivenUp(t))
  BY <1>1 DEF Over, GivenUp
<1>4. InTheAdapter'
  BY <1>1, <1>2 DEF InTheAdapter
<1>5. \A x \in Threads : thread[x].at = "claimed" \/ adapter[x] = "connecting" =>
        thread[x].task \in Tasks /\ Over(thread[x].task)
  BY ThreadStates DEF SentOnce, InTheAdapter, Idle, Over, Server!InFlight
<1>6. SentOnce'
  BY <1>1, <1>2, <1>5 DEF SentOnce, Over, DTypeOK, Server!InFlight
<1>7. AnswersHold'
  BY <1>1, <1>2, <1>3, ThreadStates DEF AnswersHold, Holds, Recording, Idle, Outcomes
<1>8. RecordsHold'
  BY <1>1, <1>2, <1>3, RowStates DEF RecordsHold, Outcomes, Unresolved
<1>9. QED
  BY <1>1, <1>4, <1>6, <1>7, <1>8, WorldKeepsMotionOwned

-----------------------------------------------------------------------------
LEMMA DInductive ==
  ASSUME ClosersWait, DInv, [DNext]_dvars
  PROVE  DInv'
<1>1. LInv'
  BY LInductive, StepOfLedger DEF DInv, dvars
<1>2. CASE UNCHANGED dvars
  BY <1>1, <1>2 DEF DInv, dvars, lvars, worldVars, serverVars, DTypeOK, InTheAdapter,
     SentOnce, AnswersHold, RecordsHold, MotionIsOwned, Holds, Over, GivenUp, Pending
<1>3. CASE OwnStep
  BY <1>1, <1>3, OpenCloseCrashAbandonKeep, DReserveKeeps, DRecordKeeps
     DEF OwnStep, Submit, DInv
<1>4. ASSUME NEW x \in Threads, Call(x) \/ Adapter(x)
      PROVE  DInv'
  BY <1>1, <1>4, DCallKeeps, AdapterKeeps DEF DInv
<1>5. ASSUME NEW l \in Ledgers, NEW t \in Tasks, Settle(l, t)
      PROVE  DInv'
  BY <1>1, <1>5, SettleKeeps DEF DInv
<1>6. CASE World
  BY <1>1, <1>6, WorldKeeps DEF DInv
<1>7. QED
  BY <1>2, <1>3, <1>4, <1>5, <1>6 DEF DNext, World

LEMMA DInvariant == ASSUME ClosersWait PROVE DSafety => []DInv
<1>1. DInv /\ [DNext]_dvars => DInv'
  BY DInductive
<1>2. QED
  BY <1>1, DInitEstablishes, PTL DEF DSafety

\* For all constants: what the database says of a task is what became of its
\* goal, whatever was lost, came late, or crashed.
THEOREM RecordsAreTrue ==
  ASSUME ClosersWait PROVE DSafety => []KnownIsTrue
<1>1. DInv => KnownIsTrue
  BY DEF DInv, RecordsHold, KnownIsTrue, Over, Unresolved
<1>2. QED
  BY <1>1, DInvariant, PTL

\* For all constants: while the arm moves, or a goal is on its way or in
\* flight, its record is open.
THEOREM MotionIsOnRecord ==
  ASSUME ClosersWait PROVE DSafety => []OpenRecordCoversMotion
<1>1. DInv => OpenRecordCoversMotion
  BY DEF DInv, RecordsHold, MotionIsOwned, OpenRecordCoversMotion, Over, Pending
<1>2. QED
  BY <1>1, DInvariant, PTL

\* For all constants: the ledger keeps its promise inside the composition,
\* with the adapter and the server as its backend.
THEOREM DurableDispatchesAtMostOnce ==
  ASSUME ClosersWait PROVE DSafety => AtMostOnce
  BY DurableIsLedger, DispatchesAtMostOnce, PTL
=============================================================================
