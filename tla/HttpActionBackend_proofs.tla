----------------------- MODULE HttpActionBackend_proofs ----------------------
(***************************************************************************)
(* Proofs about HttpActionBackend, for every set of goals: a device serves *)
(* one goal, a device that may move unserved is latched for good, and the  *)
(* arm keeps the promise of an exclusive action.                           *)
(*                                                                         *)
(* The properties are not inductive: that a device is at rest when its     *)
(* goal concludes without a latch is known only through what the job's     *)
(* report meant when it was made.  Rest carries this from the admission    *)
(* to the result.  That readiness rests on the present configuration is    *)
(* known from the epochs: Evidence says what a check's epoch tells of the  *)
(* configuration it was begun under.                                       *)
(***************************************************************************)
EXTENDS HttpActionBackend, TLAPS

Entered == {"registered", "awaiting", "resumed", "reviewed"}
Serving == Entered \cup {"admitted"}

\* Where a goal, its job and its outcome are.
Places ==
  \A g \in Goals :
    /\ status[g] \in InFlight <=> phase[g] \in Serving
    /\ status[g] = "unsent" => phase[g] = "new"
    /\ phase[g] \notin Entered \/ phase[g] = "registered" =>
         job[g] = "none" /\ outcome[g] = "none"
    /\ job[g] \in {"queued", "sent"} => phase[g] = "awaiting" /\ outcome[g] = "none"

\* Whom a device's reservation, its entry and its latch stand for.
Books ==
  /\ \A g \in Goals : phase[g] \in Serving => busy[Kind(g)]
  /\ \A g, h \in Goals :
       phase[g] \in Serving /\ phase[h] \in Serving /\ Kind(g) = Kind(h) => g = h
  /\ \A k \in Kinds : busy[k] => \E g \in Goals : Kind(g) = k /\ phase[g] \in Serving
  /\ \A k \in Kinds : pending[k] # NoGoal =>
       /\ pending[k] \in Goals /\ Kind(pending[k]) = k
       /\ phase[pending[k]] \in Entered
  /\ \A k \in Kinds : latched[k] => ~busy[k]

AtRest(k) == k \notin moving /\ \A g \in wire : Kind(g) # k

\* A device is at rest while it is free and not latched, before the command of
\* its goal, and after a report that claims to know.
Rest ==
  /\ \A k \in Kinds : ~busy[k] /\ ~latched[k] => AtRest(k)
  /\ \A g \in Goals :
       phase[g] \in Serving /\ job[g] # "sent" /\ outcome[g] \notin Locking
         => AtRest(Kind(g))
  /\ \A g \in Goals : job[g] = "sent" => \A h \in wire : Kind(h) = Kind(g) => h = g

IInv == TypeOK /\ Places /\ Books /\ Rest

\* A check of the present epoch was begun under the present configuration; the
\* gate is open only on an active node that is ready.
Evidence ==
  /\ probe.at # "none" =>
       probe.epoch <= epoch /\ (probe.epoch = epoch => probe.under = configuration)
  /\ ready => evidence = configuration
  /\ gate => ready /\ lifecycle = "active"

-----------------------------------------------------------------------------
\* What Places, Books and Rest are about.
coreVars == <<busy, latched, pending, goalVars, status, wire, moving>>

LEMMA KindOf == \A g \in Goals : Kind(g) \in Kinds
  BY DEF Kind, Kinds

LEMMA InitInv == Init => IInv
<1> SUFFICES ASSUME Init PROVE IInv
  OBVIOUS
<1>1. TypeOK
  BY DEF Init, TypeOK, NoProbe
<1>2. Places
  BY DEF Init, Places, InFlight, Serving, Entered
<1>3. Books
  BY KindOf DEF Init, Books, Serving, Entered
<1>4. Rest
  BY DEF Init, Rest, AtRest
<1> QED BY <1>1, <1>2, <1>3, <1>4 DEF IInv

\* A step that leaves goals, reservations and devices alone keeps the invariant.
LEMMA CoreKeeps ==
  ASSUME IInv, UNCHANGED coreVars
  PROVE  Places' /\ Books' /\ Rest'
<1>1. Places'
  BY DEF IInv, Places, coreVars, goalVars
<1>2. Books'
  BY DEF IInv, Books, coreVars, goalVars
<1>3. Rest'
  BY DEF IInv, Rest, AtRest, coreVars, goalVars
<1> QED BY <1>1, <1>2, <1>3

LEMMA SetCancelType ==
  ASSUME TypeOK, NEW gs \in SUBSET Goals, SetCancel(gs)
  PROVE  cancel' \in [Goals -> BOOLEAN] /\ stops' \subseteq ArmGoals
  BY DEF TypeOK, SetCancel

LEMMA RegisteredGoals == TypeOK => Registered \in SUBSET Goals
  BY DEF TypeOK, Registered

LEMMA OperateType ==
  ASSUME TypeOK, Operate
  PROVE  TypeOK'
<1>1. CASE Configure
  <2>1. epoch' \in Nat /\ configuration' \in Nat /\ UNCHANGED probe
    BY <1>1 DEF TypeOK, Configure, NextEpoch
  <2>2. probe' \in {NoProbe} \cup Running \cup Finished
    BY <2>1 DEF TypeOK
  <2> QED BY <1>1, <2>1, <2>2 DEF TypeOK, Configure, goalVars, deviceVars
<1>2. CASE Activate
  BY <1>2 DEF TypeOK, Activate, confVars, probeVars, goalVars, deviceVars
<1>3. CASE Cleanup
  <2>1. epoch' \in Nat /\ UNCHANGED <<configuration, probe>>
    BY <1>3 DEF TypeOK, Cleanup, NextEpoch
  <2>2. probe' \in {NoProbe} \cup Running \cup Finished
    BY <2>1 DEF TypeOK
  <2> QED BY <1>3, <2>1, <2>2 DEF TypeOK, Cleanup, goalVars, deviceVars
<1>4. CASE Exit
  <2>1. job' \in [Goals -> {"none", "queued", "sent", "ended"}]
    BY <1>4 DEF TypeOK, Exit
  <2>2. cancel' \in [Goals -> BOOLEAN]
    BY <1>4 DEF TypeOK, Exit
  <2> QED BY <1>4, <2>1, <2>2 DEF TypeOK, Exit, probeVars, deviceVars
<1>5. ASSUME NEW to \in {"inactive", "finalized"}, Deactivate(to)
      PROVE  TypeOK'
  <2>1. cancel' \in [Goals -> BOOLEAN] /\ stops' \subseteq ArmGoals
    BY <1>5, SetCancelType, RegisteredGoals DEF Deactivate
  <2> QED BY <1>5, <2>1 DEF TypeOK, Deactivate, confVars, probeVars, goalVars, deviceVars
<1> QED BY <1>1, <1>2, <1>3, <1>4, <1>5 DEF Operate

LEMMA TickType ==
  ASSUME TypeOK, Tick
  PROVE  TypeOK'
<1> PICK legacy \in BOOLEAN, due \in BOOLEAN : 
       /\ fresh' = (fresh \/ Applies)
       /\ probeMoving' = IF Applies THEN probe.moving ELSE probeMoving
       /\ probe' = IF configured /\ due /\ probe.at # "running"
                   THEN [at |-> "running", epoch |-> epoch, under |-> configuration]
                   ELSE IF probe.at = "done" THEN NoProbe ELSE probe
       /\ evidence' = IF Applies THEN probe.under ELSE evidence
       /\ ready' = Judged(legacy, fresh')
       /\ IF gate /\ ~ready'
          THEN lifecycle' = "inactive" /\ gate' = FALSE /\ SetCancel(Registered)
          ELSE UNCHANGED <<lifecycle, gate, cancel, stops>>
       /\ phase' = [g \in Goals |-> IF HandsOver(g) THEN "resumed" ELSE phase[g]]
       /\ UNCHANGED <<confVars, busy, latched, pending, job, outcome, status,
                      asked, deviceVars>>
  BY DEF Tick
<1>1. fresh' \in BOOLEAN
  BY DEF TypeOK, Applies
<1>2. probeMoving' \in BOOLEAN
  BY DEF TypeOK, Applies, NoProbe, Running, Finished
<1>3. probe' \in {NoProbe} \cup Running \cup Finished
  BY DEF TypeOK, NoProbe, Running, Finished
<1>4. ready' \in BOOLEAN
  BY Zenon DEF Judged
<1>5. cancel' \in [Goals -> BOOLEAN] /\ stops' \subseteq ArmGoals
  BY SetCancelType, RegisteredGoals DEF TypeOK
<1>6. /\ gate' \in BOOLEAN
      /\ lifecycle' \in {"unconfigured", "inactive", "active", "finalized", "exited"}
  BY DEF TypeOK
<1>7. phase' \in [Goals -> {"new", "admitted", "registered", "awaiting",
                          "resumed", "reviewed", "over"}]
  BY DEF TypeOK
<1>8. evidence' \in Nat
  BY DEF TypeOK, Applies, NoProbe, Running, Finished
<1> QED BY <1>1, <1>2, <1>3, <1>4, <1>5, <1>6, <1>7, <1>8
        DEF TypeOK, confVars, deviceVars

LEMMA GoalType ==
  ASSUME TypeOK, NEW g \in Goals,
         \/ Admit(g) \/ Reject(g) \/ Accept(g) \/ Begin(g)
         \/ SendCommand(g) \/ CancelGoal(g) \/ ApplyCancel(g)
         \/ CommandArrives(g) \/ StopArrives(g)
  PROVE  TypeOK'
<1> USE KindOf
<1>1. CASE Admit(g)
  BY <1>1 DEF TypeOK, Admit, lifeVars, confVars, probeVars, deviceVars, InFlight
<1>2. CASE Reject(g)
  BY <1>2 DEF TypeOK, Reject, lifeVars, confVars, probeVars, deviceVars, goalVars, Terminal
<1>3. CASE Accept(g)
  BY <1>3 DEF TypeOK, Accept, lifeVars, confVars, probeVars, deviceVars
<1>4. CASE Begin(g)
  <2>1. /\ job' \in [Goals -> {"none", "queued", "sent", "ended"}]
        /\ outcome' \in [Goals -> Codes \cup {"none"}]
        /\ phase' \in [Goals -> {"new", "admitted", "registered", "awaiting",
                                 "resumed", "reviewed", "over"}]
    BY <1>4 DEF TypeOK, Begin, Invalidity, Codes
  <2> QED BY <1>4, <2>1 DEF TypeOK, Begin, lifeVars, confVars, probeVars, deviceVars
<1>5. CASE SendCommand(g)
  BY <1>5 DEF TypeOK, SendCommand, lifeVars, confVars, probeVars
<1>6. CASE CancelGoal(g)
  <2>1. cancel' \in [Goals -> BOOLEAN] /\ stops' \subseteq ArmGoals
    BY <1>6, SetCancelType DEF CancelGoal
  <2> QED BY <1>6, <2>1 DEF TypeOK, CancelGoal, lifeVars, confVars, probeVars, deviceVars, goalVars
<1>7. CASE ApplyCancel(g)
  <2>1. status' \in [Goals -> InFlight \cup Terminal \cup {"unsent"}]
    BY <1>7 DEF TypeOK, ApplyCancel, InFlight
  <2> QED BY <1>7, <2>1 DEF TypeOK, ApplyCancel, lifeVars, confVars, probeVars, deviceVars, goalVars
<1>8. CASE CommandArrives(g)
  BY <1>8 DEF TypeOK, CommandArrives, lifeVars, confVars, probeVars, goalVars
<1>9. CASE StopArrives(g)
  BY <1>9 DEF TypeOK, StopArrives, lifeVars, confVars, probeVars, goalVars
<1> QED BY <1>1, <1>2, <1>3, <1>4, <1>5, <1>6, <1>7, <1>8, <1>9

\* What a worker may report is a code.
LEMMA ReportCodes ==
  ASSUME NEW g \in Goals PROVE Reports(g) \subseteq Codes
<1>1. Kind(g) \in {"arm", "hand"}
  BY KindOf DEF Kinds
<1>2. Settled(Kind(g), cancel[g]) \subseteq Codes
  BY <1>1 DEF Settled, Codes
<1> QED BY <1>1, <1>2 DEF Reports, Unsent, Sent, Codes, Locking

LEMMA OutcomeType ==
  ASSUME TypeOK, NEW g \in Goals, Report(g) \/ Review(g) \/ Conclude(g)
  PROVE  TypeOK'
<1> USE KindOf
<1>1. CASE Report(g)
  <2>1. outcome' \in [Goals -> Codes \cup {"none"}]
    BY <1>1, ReportCodes DEF TypeOK, Report
  <2> QED BY <1>1, <2>1 DEF TypeOK, Report, lifeVars, confVars, probeVars, deviceVars
<1>2. CASE Review(g)
  <2>1. Reviewed(g, outcome[g]) \in Codes \cup {"none"}
    BY DEF TypeOK, Reviewed, Codes, Locking
  <2>2. outcome' \in [Goals -> Codes \cup {"none"}]
    BY <1>2, <2>1 DEF TypeOK, Review
  <2> QED BY <1>2, <2>2 DEF TypeOK, Review, lifeVars, confVars, probeVars, deviceVars
<1>3. CASE Conclude(g)
  <2>1. status' \in [Goals -> InFlight \cup Terminal \cup {"unsent"}]
    BY <1>3 DEF TypeOK, Conclude, ResultState, Terminal
  <2>2. latched' \in [Kinds -> BOOLEAN]
    <3>1. Latches(outcome[g]) \in BOOLEAN
      BY DEF Latches
    <3> QED BY <1>3, <3>1 DEF TypeOK, Conclude
  <2> QED BY <1>3, <2>1, <2>2 DEF TypeOK, Conclude, lifeVars, confVars, probeVars, deviceVars
<1> QED BY <1>1, <1>2, <1>3

LEMMA TypeKeeps == TypeOK /\ [Next]_vars => TypeOK'
<1> SUFFICES ASSUME TypeOK, [Next]_vars PROVE TypeOK'
  OBVIOUS
<1>1. CASE Operate \/ Tick
  BY <1>1, OperateType, TickType
<1>2. CASE ProbeRead
  <2>1. PICK valid \in BOOLEAN :
          probe' = [at |-> "done", epoch |-> probe.epoch, under |-> probe.under,
                    valid |-> valid, moving |-> valid /\ "arm" \in moving]
    BY <1>2 DEF ProbeRead
  <2>2. probe.epoch \in Nat /\ probe.under \in Nat
    BY <1>2 DEF TypeOK, ProbeRead, NoProbe, Running, Finished
  <2>3. (valid /\ "arm" \in moving) \in BOOLEAN
    BY Zenon
  <2>4. probe' \in {NoProbe} \cup Running \cup Finished
    BY <2>1, <2>2, <2>3 DEF Finished
  <2> QED BY <1>2, <2>4 DEF TypeOK, ProbeRead, lifeVars, confVars, goalVars, deviceVars
<1>3. CASE Age
  BY <1>3 DEF TypeOK, Age, lifeVars, confVars, goalVars, deviceVars
<1>4. ASSUME NEW g \in Goals,
             \/ Admit(g) \/ Reject(g) \/ Serve(g) \/ Work(g) \/ CancelGoal(g)
             \/ ApplyCancel(g) \/ CommandArrives(g) \/ StopArrives(g)
      PROVE  TypeOK'
  BY <1>4, GoalType, OutcomeType DEF Serve, Work
<1>5. ASSUME NEW k \in Kinds, MotionEnds(k)
      PROVE  TypeOK'
  BY <1>5 DEF TypeOK, MotionEnds, lifeVars, confVars, probeVars, goalVars
<1>6. CASE UNCHANGED vars
  BY <1>6 DEF TypeOK, vars
<1> QED BY <1>1, <1>2, <1>3, <1>4, <1>5, <1>6 DEF Next

-----------------------------------------------------------------------------
\* A goal is admitted to a device that is free and not latched, hence at rest.
LEMMA AdmitKeeps ==
  ASSUME IInv, NEW g \in Goals, Admit(g)
  PROVE  Places' /\ Books' /\ Rest'
<1> USE KindOf
<1> DEFINE k == Kind(g)
<1>1. /\ phase[g] = "new" /\ job[g] = "none" /\ outcome[g] = "none"
      /\ ~busy[k] /\ ~latched[k] /\ k \in Kinds
  BY DEF IInv, Places, Admit, Admissible, Entered
<1>2. /\ phase' = [phase EXCEPT ![g] = "admitted"]
      /\ status' = [status EXCEPT ![g] = "executing"]
      /\ busy' = [busy EXCEPT ![k] = TRUE]
      /\ UNCHANGED <<latched, pending, job, outcome, wire, moving>>
  BY DEF Admit, deviceVars
<1>3. AtRest(k)
  BY <1>1 DEF IInv, Rest
<1>4. \A h \in Goals : Kind(h) = k => phase[h] \notin Serving
  BY <1>1 DEF IInv, Books
<1>5. Places'
  BY <1>1, <1>2 DEF IInv, TypeOK, Places, InFlight, Serving, Entered
<1>6. Books'
  <2>1. \A h \in Goals : phase'[h] \in Serving => h = g \/ phase[h] \in Serving
    BY <1>2 DEF IInv, TypeOK
  <2>2. \A h \in Goals : phase'[h] \in Serving => busy'[Kind(h)]
    BY <2>1, <1>2 DEF IInv, TypeOK, Books
  <2>3. \A h, i \in Goals :
          phase'[h] \in Serving /\ phase'[i] \in Serving /\ Kind(h) = Kind(i) => h = i
    BY <2>1, <1>4 DEF IInv, Books
  <2>4. \A d \in Kinds : busy'[d] => \E h \in Goals : Kind(h) = d /\ phase'[h] \in Serving
    BY <1>2 DEF IInv, TypeOK, Books, Serving
  <2>5. \A d \in Kinds : pending'[d] # NoGoal =>
          /\ pending'[d] \in Goals /\ Kind(pending'[d]) = d
          /\ phase'[pending'[d]] \in Entered
    BY <1>1, <1>2 DEF IInv, TypeOK, Books, Entered
  <2>6. \A d \in Kinds : latched'[d] => ~busy'[d]
    BY <1>1, <1>2 DEF IInv, TypeOK, Books
  <2> QED BY <2>2, <2>3, <2>4, <2>5, <2>6 DEF Books
<1>7. Rest'
  BY <1>1, <1>2, <1>3 DEF IInv, TypeOK, Rest, AtRest
<1> QED BY <1>5, <1>6, <1>7

\* A goal moves on between its admission and its review, with a job that has
\* sent nothing yet or has reported.
LEMMA AdvanceKeeps ==
  ASSUME IInv, NEW g \in Goals, Accept(g) \/ Begin(g) \/ Review(g)
  PROVE  Places' /\ Books' /\ Rest'
<1> USE KindOf
<1>1. /\ phase[g] \in Serving /\ job[g] # "sent"
      /\ \A h \in Goals : h # g => phase'[h] = phase[h] /\ job'[h] = job[h]
                                   /\ outcome'[h] = outcome[h]
      /\ phase'[g] \in Entered /\ job'[g] # "sent"
      /\ outcome'[g] \notin Locking => outcome[g] \notin Locking
      /\ UNCHANGED <<busy, latched, status, wire, moving>>
  BY DEF IInv, TypeOK, Places, Accept, Begin, Review, Reviewed, Invalidity,
         Locking, Serving, Entered, deviceVars
<1>2. Places'
  <2>1. CASE Accept(g)
    BY <2>1 DEF IInv, TypeOK, Places, Accept, Serving, Entered
  <2>2. CASE Begin(g)
    BY <2>2 DEF IInv, TypeOK, Places, Begin, Invalidity, Serving, Entered
  <2>3. CASE Review(g)
    BY <2>3 DEF IInv, TypeOK, Places, Review, Serving, Entered
  <2> QED BY <2>1, <2>2, <2>3
<1>3. Books'
  <2>1. \A h \in Goals : phase'[h] \in Serving <=> phase[h] \in Serving
    BY <1>1 DEF Serving
  <2>2. \A d \in Kinds : pending'[d] # NoGoal =>
          /\ pending'[d] \in Goals /\ Kind(pending'[d]) = d
          /\ phase'[pending'[d]] \in Entered
    BY <1>1 DEF IInv, TypeOK, Books, Accept, Begin, Review
  <2> QED BY <1>1, <2>1, <2>2 DEF IInv, Books
<1>4. Rest'
  <2>1. Serving = Entered \cup {"admitted"}
    BY DEF Serving
  <2> QED BY <1>1, <2>1 DEF IInv, Rest, AtRest
<1> QED BY <1>2, <1>3, <1>4

\* A goal concludes: its device is free, and latched if it is not known to rest.
LEMMA ConcludeKeeps ==
  ASSUME IInv, NEW g \in Goals, Conclude(g)
  PROVE  Places' /\ Books' /\ Rest'
<1> USE KindOf
<1> DEFINE k == Kind(g)
<1>1. /\ phase[g] = "reviewed" /\ phase[g] \in Serving /\ job[g] # "sent" /\ k \in Kinds
  BY DEF IInv, Places, Conclude, Serving, Entered
<1>2. /\ phase' = [phase EXCEPT ![g] = "over"]
      /\ status' = [status EXCEPT ![g] = ResultState(g)]
      /\ pending' = [pending EXCEPT ![k] = NoGoal]
      /\ latched' = [latched EXCEPT ![k] = Latches(outcome[g])]
      /\ busy' = [busy EXCEPT ![k] = FALSE]
      /\ job' = [job EXCEPT ![g] = "none"]
      /\ outcome' = [outcome EXCEPT ![g] = "none"]
      /\ UNCHANGED <<wire, moving>>
  BY DEF Conclude, deviceVars
<1>3. Places'
  <2>1. ResultState(g) \in {"succeeded", "canceled", "aborted"}
    BY DEF ResultState
  <2> QED BY <1>1, <1>2, <2>1 DEF IInv, TypeOK, Places, InFlight, Serving, Entered
<1>4. Books'
  <2>1. \A h \in Goals : phase'[h] \in Serving => h # g /\ phase[h] \in Serving /\ Kind(h) # k
    BY <1>1, <1>2 DEF IInv, TypeOK, Books, Serving, Entered
  <2>2. \A h \in Goals : phase'[h] \in Serving => busy'[Kind(h)]
    BY <2>1, <1>2 DEF IInv, TypeOK, Books
  <2>3. \A h, i \in Goals :
          phase'[h] \in Serving /\ phase'[i] \in Serving /\ Kind(h) = Kind(i) => h = i
    BY <2>1 DEF IInv, Books
  <2>4. \A d \in Kinds : busy'[d] => \E h \in Goals : Kind(h) = d /\ phase'[h] \in Serving
    BY <1>1, <1>2 DEF IInv, TypeOK, Books
  <2>5. \A d \in Kinds : pending'[d] # NoGoal =>
          /\ pending'[d] \in Goals /\ Kind(pending'[d]) = d
          /\ phase'[pending'[d]] \in Entered
    BY <1>1, <1>2 DEF IInv, TypeOK, Books
  <2>6. \A d \in Kinds : latched'[d] => ~busy'[d]
    BY <1>1, <1>2 DEF IInv, TypeOK, Books
  <2> QED BY <2>2, <2>3, <2>4, <2>5, <2>6 DEF Books
<1>5. Rest'
  <2>1. ~latched'[k] => AtRest(k)
    BY <1>1, <1>2 DEF IInv, TypeOK, Rest, Latches
  <2> QED BY <1>1, <1>2, <2>1 DEF IInv, TypeOK, Rest, AtRest, Serving, Entered
<1> QED BY <1>3, <1>4, <1>5

\* The worker sends its command from rest, and what it knows it saw at rest.
LEMMA WorkKeeps ==
  ASSUME IInv, NEW g \in Goals, Work(g)
  PROVE  Places' /\ Books' /\ Rest'
<1> USE KindOf
<1>1. /\ phase[g] = "awaiting" /\ phase[g] \in Serving /\ outcome[g] = "none"
      /\ job[g] \in {"queued", "sent"}
      /\ UNCHANGED <<busy, latched, pending, phase, status, moving>>
  BY DEF IInv, Places, Work, SendCommand, Report, Serving, Entered, deviceVars
<1>2. Places'
  <2>1. CASE SendCommand(g)
    BY <1>1, <2>1 DEF IInv, TypeOK, Places, SendCommand, Entered
  <2>2. CASE Report(g)
    BY <1>1, <2>2 DEF IInv, TypeOK, Places, Report, Entered, deviceVars
  <2> QED BY <2>1, <2>2 DEF Work
<1>3. Books'
  BY <1>1 DEF IInv, Books
<1>4. Rest'
  <2>1. CASE SendCommand(g)
    <3>1. AtRest(Kind(g))
      BY <1>1, <2>1 DEF IInv, Rest, SendCommand, Locking
    <3>2. /\ job' = [job EXCEPT ![g] = "sent"] /\ wire' = wire \cup {g}
          /\ outcome' = outcome
      BY <2>1 DEF SendCommand
    <3>3. \A h \in Goals : phase[h] \in Serving /\ Kind(h) = Kind(g) => h = g
      BY <1>1 DEF IInv, Books
    <3>4. \A d \in Kinds : ~busy'[d] /\ ~latched'[d] => AtRest(d)'
      BY <1>1, <3>2 DEF IInv, Rest, AtRest, Books
    <3>5. \A h \in Goals : phase'[h] \in Serving /\ job'[h] # "sent" /\ outcome'[h] \notin Locking
                             => AtRest(Kind(h))'
      BY <1>1, <3>2, <3>3 DEF IInv, TypeOK, Rest, AtRest
    <3>6. \A h \in Goals : job'[h] = "sent" => \A i \in wire' : Kind(i) = Kind(h) => i = h
      BY <1>1, <3>1, <3>2, <3>3 DEF IInv, TypeOK, Places, Rest, AtRest, Serving, Entered
    <3> QED BY <3>4, <3>5, <3>6 DEF Rest
  <2>2. CASE Report(g)
    <3>1. PICK c \in Reports(g) : outcome' = [outcome EXCEPT ![g] = c]
      BY <2>2 DEF Report
    <3>2. /\ job' = [job EXCEPT ![g] = "ended"] /\ UNCHANGED <<wire, moving>>
      BY <2>2 DEF Report, deviceVars
    <3>3. c \notin Locking => AtRest(Kind(g))
      <4>1. CASE job[g] = "queued"
        BY <1>1, <4>1 DEF IInv, Rest, Locking
      <4>2. CASE job[g] = "sent"
        BY <4>2, <3>1 DEF IInv, Rest, AtRest, Reports, Sent, Locking
      <4> QED BY <1>1, <4>1, <4>2
    <3>4. outcome'[g] = c
      BY <3>1 DEF IInv, TypeOK
    <3> QED BY <1>1, <3>1, <3>2, <3>3, <3>4 DEF IInv, TypeOK, Rest, AtRest
  <2> QED BY <2>1, <2>2 DEF Work
<1> QED BY <1>2, <1>3, <1>4

\* Only a command under way can move a device.
LEMMA DeviceKeeps ==
  ASSUME IInv,
         \/ \E g \in Goals : CommandArrives(g) \/ StopArrives(g)
         \/ \E k \in Kinds : MotionEnds(k)
  PROVE  Places' /\ Books' /\ Rest'
<1>1. UNCHANGED <<busy, latched, pending, goalVars, status>>
  BY DEF CommandArrives, StopArrives, MotionEnds
<1>2. Places'
  BY <1>1 DEF IInv, Places, goalVars
<1>3. Books'
  BY <1>1 DEF IInv, Books, goalVars
<1>4. wire' \subseteq wire /\ \A k \in Kinds : AtRest(k) => AtRest(k)'
  BY DEF CommandArrives, StopArrives, MotionEnds, AtRest
<1>5. Rest'
  BY <1>1, <1>4, KindOf DEF IInv, Rest, goalVars
<1> QED BY <1>2, <1>3, <1>5

\* The timer hands results over, an exit drops jobs; neither touches a device.
LEMMA HandOverKeeps ==
  ASSUME IInv, Tick
  PROVE  Places' /\ Books' /\ Rest'
<1>1. /\ phase' = [g \in Goals |-> IF HandsOver(g) THEN "resumed" ELSE phase[g]]
      /\ UNCHANGED <<busy, latched, pending, job, outcome, status, wire, moving>>
  BY DEF Tick, deviceVars
<1>2. \A g \in Goals : \/ phase'[g] = phase[g]
                       \/ phase[g] = "awaiting" /\ phase'[g] = "resumed" /\ job[g] = "ended"
  BY <1>1 DEF HandsOver
<1>3. \A g \in Goals : /\ phase'[g] \in Serving <=> phase[g] \in Serving
                       /\ phase'[g] \in Entered <=> phase[g] \in Entered
  BY <1>2 DEF Serving, Entered
<1>4. Places'
  BY <1>1, <1>2, <1>3 DEF IInv, Places, Entered
<1>5. Books'
  BY <1>1, <1>3 DEF IInv, Books
<1>6. Rest'
  BY <1>1, <1>3 DEF IInv, Rest, AtRest
<1> QED BY <1>4, <1>5, <1>6

LEMMA ExitKeeps ==
  ASSUME IInv, Exit
  PROVE  Places' /\ Books' /\ Rest'
<1>1. /\ \A g \in Goals : \/ job'[g] = job[g]
                          \/ job[g] = "queued" /\ job'[g] = "none"
      /\ UNCHANGED <<busy, latched, pending, phase, outcome, status, wire, moving>>
  BY DEF IInv, TypeOK, Exit, deviceVars
<1>2. Places'
  BY <1>1 DEF IInv, Places, Entered
<1>3. Books'
  BY <1>1 DEF IInv, Books
<1>4. Rest'
  BY <1>1 DEF IInv, Rest, AtRest
<1> QED BY <1>2, <1>3, <1>4

LEMMA Inductive == IInv /\ [Next]_vars => IInv'
<1> SUFFICES ASSUME IInv, [Next]_vars PROVE Places' /\ Books' /\ Rest'
  BY TypeKeeps DEF IInv
<1>1. CASE Operate
  <2>1. CASE Exit
    BY <2>1, ExitKeeps
  <2>2. CASE Configure \/ Activate \/ Cleanup \/ \E to \in {"inactive", "finalized"} : Deactivate(to)
    BY <2>2, CoreKeeps DEF Configure, Activate, Cleanup, Deactivate, coreVars, deviceVars
  <2> QED BY <1>1, <2>1, <2>2 DEF Operate
<1>2. CASE ProbeRead \/ Age \/ UNCHANGED vars
  BY <1>2, CoreKeeps DEF ProbeRead, Age, vars, coreVars, deviceVars, goalVars
<1>3. CASE Tick
  BY <1>3, HandOverKeeps
<1>4. ASSUME NEW g \in Goals, Admit(g) \/ Serve(g) \/ Work(g)
      PROVE  Places' /\ Books' /\ Rest'
  BY <1>4, AdmitKeeps, AdvanceKeeps, ConcludeKeeps, WorkKeeps DEF Serve
<1>5. ASSUME NEW g \in Goals, CommandArrives(g) \/ StopArrives(g)
      PROVE  Places' /\ Books' /\ Rest'
  BY <1>5, DeviceKeeps
<1>6. ASSUME NEW k \in Kinds, MotionEnds(k)
      PROVE  Places' /\ Books' /\ Rest'
  BY <1>6, DeviceKeeps
<1>7. ASSUME NEW g \in Goals, CancelGoal(g)
      PROVE  Places' /\ Books' /\ Rest'
  BY <1>7, CoreKeeps DEF CancelGoal, coreVars, deviceVars
<1>8. ASSUME NEW g \in Goals, Reject(g) \/ ApplyCancel(g)
      PROVE  Places' /\ Books' /\ Rest'
  <2>1. /\ UNCHANGED <<busy, latched, pending, goalVars, wire, moving>>
        /\ \A h \in Goals : /\ status'[h] \in InFlight <=> status[h] \in InFlight
                            /\ status'[h] = "unsent" => status[h] = "unsent"
    BY <1>8 DEF IInv, TypeOK, Reject, ApplyCancel, InFlight, deviceVars
  <2>2. Places'
    BY <2>1 DEF IInv, Places, goalVars
  <2>3. Books'
    BY <2>1 DEF IInv, Books, goalVars
  <2>4. Rest'
    BY <2>1 DEF IInv, Rest, AtRest, goalVars
  <2> QED BY <2>2, <2>3, <2>4
<1> QED BY <1>1, <1>2, <1>3, <1>4, <1>5, <1>6, <1>7, <1>8 DEF Next

LEMMA Invariant == Safety => []IInv
<1>1. QED
  BY InitInv, Inductive, PTL DEF Safety

-----------------------------------------------------------------------------
\* A reservation and an entry stand for exactly one goal, from admit to the
\* result, whatever the lifecycle does meanwhile.
THEOREM ReservationIsExact == Safety => []OneGoalPerDevice
<1>1. IInv => OneGoalPerDevice
  <2> SUFFICES ASSUME IInv, NEW k \in Kinds
               PROVE  LET served == {g \in Goals : Kind(g) = k /\ status[g] \in InFlight}
                      IN /\ busy[k] <=> served # {}
                         /\ \A g, h \in served : g = h
                         /\ pending[k] # NoGoal => pending[k] \in served
    BY DEF OneGoalPerDevice
  <2>1. \A g \in Goals : status[g] \in InFlight <=> phase[g] \in Serving
    BY DEF IInv, Places
  <2> QED BY <2>1 DEF IInv, Books, Serving
<1> QED BY <1>1, Invariant, PTL

\* A device that moves, or may be made to, without its goal being served is
\* latched: what a worker reports as known is known of a device at rest.
THEOREM RestlessIsAlwaysLatched == Safety => []RestlessIsLatched
<1>1. IInv => RestlessIsLatched
  BY DEF IInv, Rest, AtRest, RestlessIsLatched
<1> QED BY <1>1, Invariant, PTL

\* Nothing but a restart clears a latch: a latched device serves nobody whose
\* result could.
THEOREM LatchIsForGood == Safety => LatchStands
<1>1. IInv /\ [Next]_vars => [\A k \in Kinds : latched[k] => latched'[k]]_vars
  <2> SUFFICES ASSUME IInv, Next, NEW k \in Kinds, latched[k]
               PROVE  latched'[k]
    OBVIOUS
  <2>1. ASSUME NEW g \in Goals, Conclude(g)
        PROVE  latched'[k]
    <3>1. Kind(g) # k
      BY <2>1 DEF IInv, Books, Conclude, Serving, Entered
    <3> QED BY <2>1, <3>1 DEF IInv, TypeOK, Conclude
  <2>2. latched' = latched \/ \E g \in Goals : Conclude(g)
    BY DEF Next, Operate, Configure, Activate, Cleanup, Exit, Deactivate, ProbeRead,
           Age, Tick, Admit, Reject, Serve, Accept, Begin, Review, Work, SendCommand,
           Report, CancelGoal, ApplyCancel, CommandArrives, StopArrives, MotionEnds
  <2> QED BY <2>1, <2>2
<1> QED BY <1>1, Invariant, PTL DEF Safety, LatchStands

\* What an open gate and readiness rest on, one step at a time: the life cycle,
\* then the timer.
LEMMA OperateEvidence ==
  ASSUME TypeOK, Evidence, Operate
  PROVE  Evidence'
<1>1. CASE Configure
  <2>1. probe' = probe /\ epoch' = epoch + 1 /\ ready' = FALSE /\ gate' = gate /\ ~gate
    BY <1>1 DEF Configure, NextEpoch, Evidence
  <2>2. probe.at # "none" => probe'.epoch < epoch'
    BY <2>1 DEF TypeOK, Evidence, NoProbe, Running, Finished
  <2> QED BY <2>1, <2>2 DEF TypeOK, Evidence, NoProbe, Running, Finished
<1>2. CASE Cleanup
  <2>1. probe' = probe /\ epoch' = epoch + 1 /\ ready' = FALSE /\ gate' = FALSE
    BY <1>2 DEF Cleanup, NextEpoch
  <2>2. probe.at # "none" => probe'.epoch < epoch'
    BY <2>1 DEF TypeOK, Evidence, NoProbe, Running, Finished
  <2> QED BY <2>1, <2>2 DEF TypeOK, Evidence, NoProbe, Running, Finished
<1>3. CASE Activate
  BY <1>3 DEF Evidence, Activate, MayActivate, confVars, probeVars
<1>4. CASE Exit
  BY <1>4 DEF Evidence, Exit, probeVars
<1>5. ASSUME NEW to \in {"inactive", "finalized"}, Deactivate(to)
      PROVE  Evidence'
  BY <1>5 DEF Evidence, Deactivate, confVars, probeVars
<1> QED BY <1>1, <1>2, <1>3, <1>4, <1>5 DEF Operate

LEMMA TickEvidence ==
  ASSUME TypeOK, Evidence, Tick
  PROVE  Evidence'
<1>1. /\ evidence' = IF Applies THEN probe.under ELSE evidence
      /\ UNCHANGED <<epoch, configuration>>
      /\ probe' \in {[at |-> "running", epoch |-> epoch, under |-> configuration],
                    NoProbe, probe}
  BY DEF Tick, confVars
<1>2. ready' => IF Applies THEN TRUE ELSE ready
  <2>1. PICK legacy \in BOOLEAN : ready' = Judged(legacy, fresh')
    BY DEF Tick
  <2> QED BY <2>1 DEF Judged
<1>3. gate' => ready' /\ lifecycle' = "active"
  BY DEF Tick, Evidence
<1>4. ready' => evidence' = configuration'
  BY <1>1, <1>2 DEF Evidence, Applies
<1>5. probe'.at # "none" =>
        /\ probe'.epoch <= epoch'
        /\ probe'.epoch = epoch' => probe'.under = configuration'
  BY <1>1 DEF TypeOK, Evidence, NoProbe
<1> QED BY <1>3, <1>4, <1>5 DEF Evidence

LEMMA EvidenceStays == TypeOK /\ Evidence /\ [Next]_vars => Evidence'
<1> SUFFICES ASSUME TypeOK, Evidence, [Next]_vars PROVE Evidence'
  OBVIOUS
<1>1. CASE Operate \/ Tick
  BY <1>1, OperateEvidence, TickEvidence
<1>2. CASE ProbeRead
  <2>1. /\ probe.at # "none" /\ probe'.epoch = probe.epoch /\ probe'.under = probe.under
        /\ UNCHANGED <<lifeVars, ready, evidence>>
    BY <1>2 DEF ProbeRead
  <2> QED BY <2>1 DEF Evidence, lifeVars, confVars
<1>3. CASE Age
  BY <1>3 DEF Age, Evidence, lifeVars, confVars
<1>4. ASSUME \/ \E g \in Goals : \/ Admit(g) \/ Reject(g) \/ Serve(g) \/ Work(g)
                                 \/ CancelGoal(g) \/ ApplyCancel(g)
                                 \/ CommandArrives(g) \/ StopArrives(g)
             \/ \E k \in Kinds : MotionEnds(k)
      PROVE  Evidence'
  <2>1. UNCHANGED <<lifeVars, probeVars>>
    BY <1>4 DEF Admit, Reject, Serve, Accept, Begin, Review, Conclude, Work,
                SendCommand, Report, CancelGoal, ApplyCancel, CommandArrives,
                StopArrives, MotionEnds
  <2> QED BY <2>1 DEF Evidence, lifeVars, confVars, probeVars
<1>5. CASE UNCHANGED vars
  BY <1>5 DEF vars, Evidence
<1> QED BY <1>1, <1>2, <1>3, <1>4, <1>5 DEF Next

\* A node is ready, and its gate open, only on a check of the devices that was
\* begun after the last configure: however late the others answer, their epoch
\* is older than the one that configure and cleanup left behind.
THEOREM ReadinessIsCurrent == Safety => []ReadyOnlyFromThisConfiguration
<1>1. Init => Evidence
  BY DEF Init, Evidence, NoProbe
<1>2. IInv => TypeOK
  BY DEF IInv
<1>3. Evidence => ReadyOnlyFromThisConfiguration
  BY DEF Evidence, ReadyOnlyFromThisConfiguration
<1> QED BY <1>1, <1>2, <1>3, EvidenceStays, Invariant, PTL DEF Safety

-----------------------------------------------------------------------------
\* The arm implements an exclusive action, one kind of step after the other.
LEMMA InitRefines == Init => Promise!AInit
<1> SUFFICES ASSUME Init PROVE Promise!AInit
  OBVIOUS
<1>1. ~ArmMayMove
  BY DEF Init, ArmMayMove, Goals
<1>2. \A g \in ArmGoals : status[g] = "unsent"
  BY DEF Init, Goals
<1>3. latched["arm"] = FALSE
  BY DEF Init, Kinds
<1>4. ArmMayMove = FALSE
  BY <1>1, Zenon DEF ArmMayMove
<1> QED BY <1>2, <1>3, <1>4 DEF Promise!AInit

LEMMA ArmFacts ==
  ASSUME TypeOK
  PROVE  /\ \A g \in Goals : g \in ArmGoals <=> Kind(g) = "arm"
         /\ AtRest("arm") <=> "arm" \notin moving /\ wire \cap ArmGoals = {}
         /\ ArmMayMove \in BOOLEAN
         /\ ArmGoals \subseteq Goals
<1>1. \A g \in Goals : g \in ArmGoals <=> Kind(g) = "arm"
  BY DEF Kind
<1>2. AtRest("arm") <=> "arm" \notin moving /\ wire \cap ArmGoals = {}
  BY <1>1 DEF AtRest, TypeOK
<1>3. ArmMayMove \in BOOLEAN
  BY Zenon DEF ArmMayMove
<1>4. ArmGoals \subseteq Goals
  BY DEF Goals
<1> QED BY <1>1, <1>2, <1>3, <1>4

LEMMA BusyMeansServing ==
  ASSUME IInv
  PROVE  /\ Promise!Busy <=> \E g \in ArmGoals : phase[g] \in Serving
         /\ Promise!Busy <=> busy["arm"]
         /\ ArmMayMove => Promise!Busy \/ latched["arm"]
<1>1. Promise!Busy <=> \E g \in ArmGoals : phase[g] \in Serving
  BY ArmFacts DEF IInv, Places, Promise!Busy, Promise!InFlight, InFlight
<1>2. Promise!Busy <=> busy["arm"]
  BY <1>1, ArmFacts DEF IInv, Books, Kinds
<1>3. ArmMayMove => Promise!Busy \/ latched["arm"]
  BY <1>1, <1>2, ArmFacts DEF IInv, Rest, ArmMayMove, Kinds, Serving, Entered
<1> QED BY <1>1, <1>2, <1>3

\* A step that reports nothing and starts nothing is progress, or a latched
\* arm running out, or invisible.
LEMMA QuietRefines ==
  ASSUME IInv, TypeOK', \A g \in ArmGoals : status'[g] = status[g],
         latched'["arm"] = latched["arm"], ArmMayMove' => ArmMayMove
  PROVE  Promise!ANext \/ UNCHANGED Promise!avars
<1>1. [g \in ArmGoals |-> status[g]]' = [g \in ArmGoals |-> status[g]]
  OBVIOUS
<1>2. ArmMayMove \in BOOLEAN /\ ArmMayMove' \in BOOLEAN
  <2>1. ArmMayMove' \in BOOLEAN
    BY Zenon DEF ArmMayMove
  <2> QED BY <2>1, ArmFacts DEF IInv
<1>3. CASE ArmMayMove' = ArmMayMove
  BY <1>1, <1>3 DEF Promise!avars
<1>4. CASE ArmMayMove /\ ArmMayMove' = FALSE
  <2>1. CASE Promise!Busy
    BY <1>1, <1>4, <2>1 DEF Promise!ANext, Promise!Progress
  <2>2. CASE ~Promise!Busy
    BY <1>1, <1>4, <2>2, BusyMeansServing DEF Promise!ANext, Promise!RunOut
  <2> QED BY <2>1, <2>2
<1> QED BY <1>2, <1>3, <1>4

LEMMA AdmitRefines ==
  ASSUME IInv, NEW g \in ArmGoals, Admit(g)
  PROVE  Promise!Accept(g)
<1>1. /\ Kind(g) = "arm" /\ g \in Goals /\ status[g] = "unsent"
      /\ ~busy["arm"] /\ ~latched["arm"]
  BY ArmFacts DEF IInv, Admit, Admissible
<1>2. ~Promise!Busy /\ ~ArmMayMove
  BY <1>1, BusyMeansServing
<1>3. [h \in ArmGoals |-> status[h]]'
        = [[h \in ArmGoals |-> status[h]] EXCEPT ![g] = "executing"]
  BY ArmFacts DEF IInv, TypeOK, Admit
<1>4. ArmMayMove' = TRUE
  <2>1. phase'[g] = "admitted" /\ job'[g] # "ended"
    BY <1>1 DEF IInv, TypeOK, Places, Admit, Entered
  <2>2. ArmMayMove'
    BY <2>1 DEF ArmMayMove
  <2>3. ArmMayMove' \in BOOLEAN
    BY Zenon DEF ArmMayMove
  <2> QED BY <2>2, <2>3
<1>5. latched' = latched
  BY DEF Admit
<1> QED BY <1>1, <1>2, <1>3, <1>4, <1>5 DEF Promise!Accept

\* Without a latch, the arm of a concluded goal is at rest.
LEMMA ConcludeRefines ==
  ASSUME IInv, TypeOK', NEW g \in ArmGoals, Conclude(g)
  PROVE  Promise!Finish(g)
<1>1. /\ Kind(g) = "arm" /\ g \in Goals /\ phase[g] = "reviewed"
      /\ status[g] \in InFlight /\ ~latched["arm"]
  BY ArmFacts DEF IInv, Places, Books, Conclude, Serving, Entered, Kinds
<1>2. [h \in ArmGoals |-> status[h]]'
        = [[h \in ArmGoals |-> status[h]] EXCEPT ![g] = ResultState(g)]
  <2>1. \A h \in ArmGoals :
          status'[h] = IF h = g THEN ResultState(g) ELSE status[h]
    BY ArmFacts DEF IInv, TypeOK, Conclude
  <2> QED BY <2>1
<1>3. ResultState(g) \in Promise!Outcomes(status[g])
  BY <1>1 DEF ResultState, Promise!Outcomes, InFlight
<1>4. /\ latched'["arm"] = Latches(outcome[g])
      /\ \A h \in ArmGoals \ {g} : phase'[h] \notin Serving
      /\ phase'[g] = "over" /\ UNCHANGED <<wire, moving>>
  BY <1>1, ArmFacts DEF IInv, TypeOK, Books, Conclude, deviceVars, Kinds, Serving, Entered
<1>5. ArmMayMove' => ~AtRest("arm")
  BY <1>4, ArmFacts DEF IInv, ArmMayMove, Serving, Entered
<1>6. ArmMayMove' => ArmMayMove /\ latched'["arm"] = TRUE
  <2>1. ~AtRest("arm") => ArmMayMove
    BY ArmFacts DEF IInv, ArmMayMove
  <2>2. ~AtRest("arm") => outcome[g] \in Locking
    BY <1>1 DEF IInv, Rest, Places, Serving, Entered
  <2> QED BY <1>4, <1>5, <2>1, <2>2 DEF Latches
<1>7. ArmMayMove \in BOOLEAN /\ ArmMayMove' \in BOOLEAN /\ latched'["arm"] \in BOOLEAN
  <2>1. ArmMayMove' \in BOOLEAN
    BY Zenon DEF ArmMayMove
  <2> QED BY <2>1, ArmFacts DEF IInv, TypeOK, Kinds
<1>8. latched["arm"] \in BOOLEAN
  BY DEF IInv, TypeOK, Kinds
<1> QED BY <1>1, <1>2, <1>3, <1>6, <1>7, <1>8
        DEF Promise!Finish, Promise!InFlight, InFlight

\* The client's side: a refusal, and a cancellation that takes effect.
LEMMA ClientRefines ==
  ASSUME IInv, TypeOK', NEW g \in Goals, Reject(g) \/ ApplyCancel(g)
  PROVE  Promise!ANext \/ UNCHANGED Promise!avars
<1>1. UNCHANGED <<latched, ArmMayMove>>
  BY DEF Reject, ApplyCancel, ArmMayMove, goalVars, deviceVars
<1>2. \A h \in ArmGoals : h # g => status'[h] = status[h]
  BY ArmFacts DEF IInv, TypeOK, Reject, ApplyCancel
<1>3. CASE status'[g] = status[g] \/ g \notin ArmGoals
  BY <1>1, <1>2, <1>3, QuietRefines
<1>4. CASE g \in ArmGoals /\ status[g] = "unsent" /\ status'[g] = "rejected"
  <2>1. [h \in ArmGoals |-> status[h]]'
          = [[h \in ArmGoals |-> status[h]] EXCEPT ![g] = "rejected"]
    BY <1>2, <1>4
  <2>2. Promise!Reject(g)
    BY <1>1, <1>4, <2>1 DEF Promise!Reject
  <2> QED BY <1>4, <2>2 DEF Promise!ANext
<1>5. CASE g \in ArmGoals /\ status[g] = "executing" /\ status'[g] = "canceling"
  <2>1. [h \in ArmGoals |-> status[h]]'
          = [[h \in ArmGoals |-> status[h]] EXCEPT ![g] = "canceling"]
    BY <1>2, <1>5
  <2>2. Promise!AcceptCancel(g)
    BY <1>1, <1>5, <2>1 DEF Promise!AcceptCancel
  <2> QED BY <1>5, <2>2 DEF Promise!ANext
<1> QED BY <1>3, <1>4, <1>5 DEF IInv, TypeOK, Reject, ApplyCancel

\* What a goal's coroutine and its job do in between cannot set the arm moving
\* that was at rest: the reservation already counts as motion.
LEMMA ServiceIsQuiet ==
  ASSUME IInv, NEW g \in Goals,
         \/ Accept(g) \/ Begin(g) \/ Review(g) \/ Work(g)
         \/ CommandArrives(g) \/ StopArrives(g)
  PROVE  ArmMayMove' => ArmMayMove
<1>1. CASE Accept(g) \/ Begin(g) \/ Review(g)
  BY <1>1, ArmFacts DEF IInv, TypeOK, Places, ArmMayMove, Accept, Begin, Review, Entered, deviceVars
<1>2. CASE SendCommand(g)
  <2>1. phase[g] = "awaiting" /\ job[g] # "ended"
    BY <1>2 DEF IInv, Places, SendCommand
  <2> QED BY <1>2, <2>1, ArmFacts DEF IInv, TypeOK, ArmMayMove, SendCommand
<1>3. CASE Report(g)
  <2>1. /\ \A h \in Goals : job[h] = "ended" => job'[h] = "ended"
        /\ UNCHANGED <<phase, wire, moving>>
    BY <1>3 DEF IInv, TypeOK, Report, deviceVars
  <2>2. \A h \in ArmGoals : job'[h] # "ended" => job[h] # "ended"
    BY <2>1 DEF Goals
  <2> QED BY <2>1, <2>2 DEF ArmMayMove
<1>4. CASE CommandArrives(g)
  <2>1. "arm" \in moving' => "arm" \in moving \/ g \in wire \cap ArmGoals
    BY <1>4, ArmFacts DEF IInv, CommandArrives
  <2> QED BY <1>4, <2>1 DEF ArmMayMove, CommandArrives, goalVars
<1>5. CASE StopArrives(g)
  BY <1>5 DEF ArmMayMove, StopArrives, goalVars
<1> QED BY <1>1, <1>2, <1>3, <1>4, <1>5 DEF Work

LEMMA RestIsQuiet ==
  ASSUME IInv, Tick \/ Operate \/ ProbeRead \/ Age \/ \E k \in Kinds : MotionEnds(k)
  PROVE  ArmMayMove' => ArmMayMove
<1>1. wire' = wire /\ moving' \subseteq moving
  BY DEF Tick, Operate, Configure, Activate, Cleanup, Exit, Deactivate, ProbeRead,
         Age, MotionEnds, deviceVars
<1>2. \A g \in ArmGoals : phase'[g] = phase[g] \/ phase'[g] = "resumed"
  BY ArmFacts DEF IInv, Tick, Operate, Configure, Activate, Cleanup, Exit, Deactivate,
         ProbeRead, Age, MotionEnds, goalVars
<1>3. \A g \in ArmGoals : job[g] = "ended" => job'[g] = "ended"
  BY ArmFacts DEF IInv, Tick, Operate, Configure, Activate, Cleanup, Exit, Deactivate,
         ProbeRead, Age, MotionEnds, goalVars
<1> QED BY <1>1, <1>2, <1>3 DEF ArmMayMove

\* The arm keeps the promise of an exclusive action: one goal at a time, no
\* result without a latch while it may move, nothing accepted under a latch.
THEOREM ArmImplementsPromise == Safety => ArmIsExclusive
<1>1. IInv /\ [Next]_vars => [Promise!ANext]_Promise!avars
  <2> SUFFICES ASSUME IInv, [Next]_vars
               PROVE  Promise!ANext \/ UNCHANGED Promise!avars
    OBVIOUS
  <2> USE TypeKeeps
  <2>1. CASE Operate \/ Tick \/ ProbeRead \/ Age
    <3>1. UNCHANGED <<status, latched>>
      BY <2>1 DEF Tick, Operate, Configure, Activate, Cleanup, Exit, Deactivate,
           ProbeRead, Age
    <3> QED BY <2>1, <3>1, RestIsQuiet, QuietRefines DEF IInv
  <2>2. ASSUME NEW k \in Kinds, MotionEnds(k)
        PROVE  Promise!ANext \/ UNCHANGED Promise!avars
    BY <2>2, RestIsQuiet, QuietRefines DEF IInv, MotionEnds
  <2>3. ASSUME NEW g \in Goals,
               \/ Accept(g) \/ Begin(g) \/ Review(g) \/ Work(g)
               \/ CommandArrives(g) \/ StopArrives(g)
        PROVE  Promise!ANext \/ UNCHANGED Promise!avars
    <3>1. UNCHANGED <<status, latched>>
      BY <2>3 DEF Accept, Begin, Review, Work, SendCommand, Report, CommandArrives,
           StopArrives
    <3> QED BY <2>3, <3>1, ServiceIsQuiet, QuietRefines DEF IInv
  <2>4. ASSUME NEW g \in Goals, Admit(g) \/ Conclude(g)
        PROVE  Promise!ANext \/ UNCHANGED Promise!avars
    <3>1. CASE g \in ArmGoals
      BY <2>4, <3>1, AdmitRefines, ConcludeRefines DEF Promise!ANext, IInv
    <3>2. CASE g \notin ArmGoals
      <4>1. /\ \A h \in ArmGoals : status'[h] = status[h] /\ phase'[h] = phase[h]
                                   /\ job'[h] = job[h]
            /\ latched'["arm"] = latched["arm"] /\ UNCHANGED <<wire, moving>>
        BY <2>4, <3>2, ArmFacts, KindOf
           DEF IInv, TypeOK, Admit, Conclude, deviceVars, Kinds
      <4>2. ArmMayMove' => ArmMayMove
        BY <4>1 DEF ArmMayMove
      <4> QED BY <4>1, <4>2, QuietRefines DEF IInv
    <3> QED BY <3>1, <3>2
  <2>5. ASSUME NEW g \in Goals, Reject(g) \/ ApplyCancel(g)
        PROVE  Promise!ANext \/ UNCHANGED Promise!avars
    BY <2>5, ClientRefines DEF IInv
  <2>6. ASSUME NEW g \in Goals, CancelGoal(g)
        PROVE  Promise!ANext \/ UNCHANGED Promise!avars
    <3>1. UNCHANGED <<status, latched, ArmMayMove>>
      BY <2>6 DEF CancelGoal, ArmMayMove, goalVars, deviceVars
    <3> QED BY <3>1, QuietRefines DEF IInv
  <2>7. CASE UNCHANGED vars
    BY <2>7 DEF vars, Promise!avars, ArmMayMove
  <2> QED BY <2>1, <2>2, <2>3, <2>4, <2>5, <2>6, <2>7 DEF Next, Serve
<1> QED BY <1>1, InitRefines, Invariant, PTL DEF Safety, ArmIsExclusive, Promise!ASafety
=============================================================================
