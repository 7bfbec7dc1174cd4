-------------------------- MODULE Agreements_proofs --------------------------
(***************************************************************************)
(* What the parts of the robot rely on in each other without calling each  *)
(* other's code: the meaning of goals and results (GoalContract), that one *)
(* of them at a time commands the robot (CommandOwnership), and that the   *)
(* legacy nodes work on the same task (PickAndPlace).                      *)
(*                                                                         *)
(* What the parts accept and send honours the contract they share,         *)
(* although none of them calls its functions; and a goal that one part     *)
(* makes is understood by the next.                                        *)
(***************************************************************************)
EXTENDS GoalContract, CommandOwnership, PickAndPlace, FiniteSetTheorems, TLAPS

LEMMA UnsetFrame == UnsetPose.frame = ""
BY DEF UnsetPose

LEMMA NothingSent == Len(<<>>) = 0 /\ Finite(<<>>)
BY DEF Finite

LEMMA WithinDay ==
  ASSUME NEW t \in Nat, t <= Day, NEW q \in Nat, NEW m \in Nat, t = Second * q + m
  PROVE  q < 86400 \/ (q = 86400 /\ m = 0)
BY SMT DEF Day, Second

LEMMA Numbers == Second \in Nat /\ Second > 0 /\ Day \in Nat
BY SMT DEF Second, Day

-----------------------------------------------------------------------------
(* An arm goal that the HTTP worker accepts is one of the contract: what   *)
(* it asks beyond it (seven joints, no pose, a day at most) never stands   *)
(* in for a check of the contract that it leaves out.                      *)
THEOREM HttpArmGoals ==
  ASSUME NEW g, HttpArmAccepts(g)
  PROVE  ArmGoalOK(g)
<1>1. /\ Len(g.joint.name) = 7 /\ Distinct(g.joint.name)
      /\ Len(g.joint.position) = 7 /\ Finite(g.joint.position)
      /\ g.joint.velocity = <<>> /\ g.joint.effort = <<>>
  BY DEF HttpArmAccepts, Vector
<1>2. JointState(g.joint)
  BY <1>1, NothingSent DEF JointState
<1>3. g.pose.frame = ""
  BY UnsetFrame DEF HttpArmAccepts
<1>4. g.target_type = "joints"
  BY DEF HttpArmAccepts
<1>5. Scaling(g.velocity_scaling) /\ Scaling(g.acceleration_scaling) /\ PositiveDuration(g.timeout)
  BY DEF HttpArmAccepts, TimeoutSeconds
<1>. QED  BY <1>2, <1>3, <1>4, <1>5, Zenon DEF ArmGoalOK

(* The same of a hand goal, whose speed and effort the worker compares     *)
(* with the only values that the device knows.                             *)
THEOREM HttpHandGoals ==
  ASSUME One \in Int, One > 0, NEW g, HttpHandAccepts(g)
  PROVE  HandGoalOK(g)
<1>1. Scaling(g.speed_scaling)
  BY DEF HttpHandAccepts, Scaling
<1>2. g.max_effort.fin /\ g.max_effort.v >= 0
  BY DEF HttpHandAccepts
<1>. QED  BY <1>1, <1>2 DEF HttpHandAccepts, TimeoutSeconds, Vector, HandGoalOK

-----------------------------------------------------------------------------
(* The server looks up each name of a goal and refuses one it has seen     *)
(* before; it never compares the set of names with its own.                *)
LEMMA NamesDiffer ==
  ASSUME Joints \in Seq(STRING), NEW g, FakeArmAccepts(g)
  PROVE  Distinct(g.joint.name)
<1>1. Len(g.joint.name) = Len(Joints) /\ Len(Joints) \in Nat
  BY DEF FakeArmAccepts
<1>2. \A i \in 1..Len(Joints) : \A j \in 1..(i - 1) : g.joint.name[j] # g.joint.name[i]
  BY DEF FakeArmAccepts
<1>3. ASSUME NEW i \in 1..Len(Joints), NEW j \in 1..Len(Joints),
             g.joint.name[i] = g.joint.name[j], i # j
      PROVE  FALSE
  <2>1. CASE j < i
    BY <1>1, <1>2, <1>3, <2>1
  <2>2. CASE i < j
    BY <1>1, <1>2, <1>3, <2>2
  <2>. QED  BY <1>1, <1>3, <2>1, <2>2
<1>. QED  BY <1>1, <1>3 DEF Distinct

(* An arm goal that the C++ server accepts is one of the contract.         *)
THEOREM FakeArmGoals ==
  ASSUME Joints \in Seq(STRING), Len(Joints) > 0, NEW g, FakeArmAccepts(g)
  PROVE  ArmGoalOK(g)
<1>1. Distinct(g.joint.name)
  BY NamesDiffer
<1>2. Finite(g.joint.position)
  BY DEF FakeArmAccepts, Finite
<1>3. JointState(g.joint)
  BY <1>1, <1>2, NothingSent DEF FakeArmAccepts, JointState
<1>4. g.pose.frame = ""
  BY UnsetFrame DEF FakeArmAccepts
<1>. QED  BY <1>3, <1>4 DEF FakeArmAccepts, ArmGoalOK

(* Distinct names, as many as there are joints and each the name of one:   *)
(* every joint is commanded, none keeps the zero that its target is        *)
(* initialised with (move_arm_server.cpp:148).                             *)
LEMMA NamesCount ==
  ASSUME NEW S, NEW s \in Seq(S), Distinct(s)
  PROVE  IsFiniteSet(NamesIn(s)) /\ Cardinality(NamesIn(s)) = Len(s)
<1>. DEFINE f == [i \in 1..Len(s) |-> s[i]]
<1>1. f \in Bijection(1..Len(s), NamesIn(s))
  BY DEF Bijection, Injection, Surjection, IsInjective, Distinct, NamesIn
<1>2. IsFiniteSet(1..Len(s)) /\ Cardinality(1..Len(s)) = Len(s)
  <2>1. Len(s) \in Nat /\ 1 \in Int
    OBVIOUS
  <2>2. /\ IsFiniteSet(1..Len(s))
        /\ Cardinality(1..Len(s)) = IF 1 > Len(s) THEN 0 ELSE Len(s) - 1 + 1
    BY <2>1, FS_Interval
  <2>. QED  BY <2>1, <2>2
<1>. HIDE DEF f
<1>3. ExistsBijection(1..Len(s), NamesIn(s))
  BY <1>1 DEF ExistsBijection
<1>. QED  BY <1>2, <1>3, FS_Bijection, FS_SameCardinalityBij

THEOREM EveryJointCommanded ==
  ASSUME Joints \in Seq(STRING), Distinct(Joints),
         NEW g, FakeArmAccepts(g), g.joint.name \in Seq(STRING)
  PROVE  NamesIn(g.joint.name) = NamesIn(Joints)
<1>1. NamesIn(g.joint.name) \subseteq NamesIn(Joints)
  BY DEF FakeArmAccepts, NamesIn
<1>2. IsFiniteSet(NamesIn(Joints)) /\ Cardinality(NamesIn(Joints)) = Len(Joints)
  BY NamesCount
<1>3. Cardinality(NamesIn(g.joint.name)) = Len(Joints)
  BY NamesDiffer, NamesCount DEF FakeArmAccepts
<1>. QED  BY <1>1, <1>2, <1>3, FS_Subset

-----------------------------------------------------------------------------
(* Rounding moves a time by less than one nanosecond: it never passes a    *)
(* whole number of nanoseconds, and it reaches zero only from half a       *)
(* nanosecond or less.                                                     *)
LEMMA RoundedFacts ==
  ASSUME NEW tenths \in Nat, NEW n \in Nat, tenths <= 10 * n
  PROVE  Rounded(tenths) \in Nat /\ Rounded(tenths) <= n /\ (Rounded(tenths) > 0 <=> tenths > 5)
<1>. DEFINE whole == tenths \div 10
            rest == tenths % 10
<1>1. whole \in Nat /\ rest \in 0..9 /\ tenths = 10 * whole + rest
  OBVIOUS
<1>2. Rounded(tenths) = IF rest < 5 \/ (rest = 5 /\ whole % 2 = 0) THEN whole ELSE whole + 1
  BY DEF Rounded
<1>. HIDE DEF whole, rest
<1>3. whole = 0 => whole % 2 = 0
  OBVIOUS
<1>. QED  BY <1>1, <1>2, <1>3

(* The goal that the gateway makes of a request it accepted is one of the  *)
(* contract, unless the time allowed is half a nanosecond or less: that    *)
(* the gateway accepts and sends as a timeout of zero, which nobody takes. *)
THEOREM GatewayGoals ==
  ASSUME NEW r, GatewayAccepts(r), r.tenths \in Nat, r.joint_names \in Seq(STRING)
  PROVE  ArmGoalOK(GatewayGoal(r)) <=> r.tenths > 5
<1>. DEFINE g == GatewayGoal(r)
            t == Rounded(r.tenths)
<1>1. t \in Nat /\ (t > 0 <=> r.tenths > 5)
  <2>1. r.tenths <= 10 * Day /\ Day \in Nat
    BY Numbers DEF GatewayAccepts
  <2>. QED  BY <2>1, RoundedFacts
<1>2. /\ g.target_type = "joints" /\ g.pose = UnsetPose
      /\ g.joint.name = r.joint_names /\ g.joint.position = r.positions
      /\ g.joint.velocity = <<>> /\ g.joint.effort = <<>>
      /\ g.velocity_scaling = r.velocity_scaling
      /\ g.acceleration_scaling = r.acceleration_scaling
      /\ g.timeout.sec = t \div Second /\ g.timeout.nanosec = t % Second
  BY DEF GatewayGoal
<1>3. PositiveDuration(g.timeout) <=> t > 0
  <2>. HIDE DEF t, g
  <2>1. /\ t \div Second \in Nat /\ t % Second \in Nat /\ t % Second < Second
        /\ t = Second * (t \div Second) + (t % Second)
    BY <1>1, SMT DEF Second
  <2>2. PositiveDuration(g.timeout) <=> t \div Second > 0 \/ t % Second > 0
    BY <1>2, <2>1 DEF PositiveDuration
  <2>3. \A q, m \in Nat : t = Second * q + m => (q > 0 \/ m > 0 <=> t > 0)
    BY <1>1, SMT DEF Second
  <2>. QED  BY <2>1, <2>2, <2>3
<1>. HIDE DEF g, t
<1>4. JointState(g.joint)
  BY <1>2, NothingSent DEF GatewayAccepts, JointState
<1>5. g.pose.frame = ""
  BY <1>2, UnsetFrame
<1>6. Scaling(g.velocity_scaling) /\ Scaling(g.acceleration_scaling)
  BY <1>2 DEF GatewayAccepts
<1>7. ArmGoalOK(g) <=> PositiveDuration(g.timeout)
  BY <1>2, <1>4, <1>5, <1>6, Zenon DEF ArmGoalOK
<1>. QED  BY <1>1, <1>3, <1>7 DEF g

(* A request whose names are those of the arm passes from the gateway      *)
(* through the HTTP worker: the day that both allow is the same day, also  *)
(* after the time has been rounded.                                        *)
THEOREM GatewayToHttp ==
  ASSUME NEW r, GatewayAccepts(r), r.tenths \in Nat, r.tenths > 5,
         r.joint_names \in Seq(STRING), r.positions \in Seq([fin : BOOLEAN, v : Int]),
         Len(r.joint_names) = 7, NamesIn(r.joint_names) = ArmNames
  PROVE  HttpArmAccepts(GatewayGoal(r))
<1>. DEFINE g == GatewayGoal(r)
            t == Rounded(r.tenths)
<1>1. t \in Nat /\ t > 0 /\ t <= Day
  <2>1. r.tenths <= 10 * Day /\ Day \in Nat
    BY Numbers DEF GatewayAccepts
  <2>. QED  BY <2>1, RoundedFacts
<1>2. /\ g.target_type = "joints" /\ g.pose = UnsetPose
      /\ g.joint.name = r.joint_names /\ g.joint.position = r.positions
      /\ g.joint.velocity = <<>> /\ g.joint.effort = <<>>
      /\ g.velocity_scaling = r.velocity_scaling
      /\ g.acceleration_scaling = r.acceleration_scaling
      /\ g.timeout.sec = t \div Second /\ g.timeout.nanosec = t % Second
  BY DEF GatewayGoal
<1>. HIDE DEF g, t
<1>3. TimeoutSeconds(g.timeout)
  <2>1. /\ t \div Second \in Nat /\ t % Second \in Nat /\ t % Second < Second
        /\ t = Second * (t \div Second) + (t % Second)
    BY <1>1, SMT DEF Second
  <2>2. t \div Second < 86400 \/ (t \div Second = 86400 /\ t % Second = 0)
    BY <1>1, <2>1, WithinDay
  <2>3. PositiveDuration(g.timeout)
    BY <1>1, <1>2, <2>1, SMT DEF PositiveDuration, Second
  <2>. QED  BY <1>2, <2>2, <2>3, SMT DEF TimeoutSeconds
<1>4. Vector(g.joint.position, 7)
  BY <1>2 DEF Vector, GatewayAccepts
<1>5. /\ Len(g.joint.name) = 7 /\ Distinct(g.joint.name) /\ NamesIn(g.joint.name) = ArmNames
      /\ Scaling(g.velocity_scaling) /\ Scaling(g.acceleration_scaling)
  BY <1>2 DEF GatewayAccepts
<1>6. HttpArmAccepts(g)
  BY <1>2, <1>3, <1>4, <1>5, Zenon DEF HttpArmAccepts
<1>. QED  BY <1>6 DEF g

-----------------------------------------------------------------------------
LEMMA UnitEnds ==
  ASSUME One \in Nat, NEW x, x.fin, x.v = 0 \/ x.v = One
  PROVE  Unit(x)
<1>1. 0 <= x.v /\ x.v <= One
  <2>1. CASE x.v = 0
    BY <2>1
  <2>2. CASE x.v = One
    BY <2>2
  <2>. QED  BY <2>1, <2>2
<1>. QED  BY <1>1, Zenon DEF Unit

(* The result that the HTTP node makes of an outcome is one of the         *)
(* contract, if the outcome is a success or has a message: a device may    *)
(* report a failure with an empty one (client.py:85).                      *)
THEOREM HttpResults ==
  ASSUME One \in Nat, One > 0, NEW o, NEW id, id # "",
         o.code \in Codes, o.code # "OK" => o.message # ""
  PROVE  ResultOK(HttpResult(o, id))
<1>. DEFINE r == HttpResult(o, id)
            e == [code |-> o.code, message |-> o.message]
<1>1. ErrorOK(e)
  BY DEF ErrorOK
<1>2. r.execution.error = e /\ e.code = o.code /\ r.execution.operation_id = id
  BY DEF HttpResult
<1>3. /\ r.execution.progress.fin
      /\ o.code = "OK" => r.execution.progress.v = One
      /\ o.code # "OK" => r.execution.progress.v = 0
      /\ r.success = (o.code = "OK")
      /\ r.execution.state = IF o.code = "OK" THEN "SUCCEEDED"
                             ELSE IF o.code = "CANCELED" THEN "CANCELED"
                             ELSE IF o.code = "RESULT_UNKNOWN" THEN "NEEDS_RECONCILIATION"
                             ELSE "FAILED"
  BY DEF HttpResult
<1>. HIDE DEF r, e
<1>4. Unit(r.execution.progress) /\ (o.code = "OK" => r.execution.progress.v = One)
  BY <1>3, UnitEnds, Zenon
<1>5. /\ r.execution.state \in {"SUCCEEDED", "CANCELED", "NEEDS_RECONCILIATION", "FAILED"}
      /\ r.execution.state = "SUCCEEDED" <=> o.code = "OK"
      /\ r.execution.state = "FAILED" => o.code # "OK"
      /\ r.execution.state = "CANCELED" => o.code = "CANCELED"
      /\ r.execution.state = "NEEDS_RECONCILIATION" => o.code = "RESULT_UNKNOWN"
  BY <1>3
<1>6. r.execution.state \in States
  BY <1>5 DEF States
<1>7. ExecutionOK(r.execution)
  BY <1>1, <1>2, <1>4, <1>5, <1>6 DEF ExecutionOK
<1>8. r.success <=> r.execution.state = "SUCCEEDED"
  BY <1>3, <1>5
<1>. QED  BY <1>7, <1>8 DEF ResultOK, r

(* So is the result of the C++ server, whatever progress it published last *)
(* before it gave up.                                                      *)
THEOREM FakeArmResults ==
  ASSUME One \in Nat, One > 0, NEW code \in Codes, NEW message, NEW progress, NEW id,
         id # "", code # "OK" => message # "", Unit(progress)
  PROVE  ResultOK(FakeArmResult(code, message, progress, id))
<1>. DEFINE r == FakeArmResult(code, message, progress, id)
            e == [code |-> code, message |-> message]
<1>1. ErrorOK(e)
  BY DEF ErrorOK
<1>2. r.execution.error = e /\ e.code = code /\ r.execution.operation_id = id
  BY DEF FakeArmResult
<1>3. /\ code = "OK" => r.execution.progress.fin /\ r.execution.progress.v = One
      /\ code # "OK" => r.execution.progress = progress
      /\ r.success = (code = "OK")
      /\ r.execution.state = IF code = "OK" THEN "SUCCEEDED"
                             ELSE IF code = "CANCELED" THEN "CANCELED" ELSE "FAILED"
  BY DEF FakeArmResult
<1>. HIDE DEF r, e
<1>4. Unit(r.execution.progress) /\ (code = "OK" => r.execution.progress.v = One)
  BY <1>3, UnitEnds, Zenon
<1>5. /\ r.execution.state \in {"SUCCEEDED", "CANCELED", "FAILED"}
      /\ r.execution.state = "SUCCEEDED" <=> code = "OK"
      /\ r.execution.state = "CANCELED" => code = "CANCELED"
  BY <1>3
<1>6. r.execution.state \in States
  BY <1>5 DEF States
<1>7. ExecutionOK(r.execution)
  BY <1>1, <1>2, <1>4, <1>5, <1>6 DEF ExecutionOK
<1>8. r.success <=> r.execution.state = "SUCCEEDED"
  BY <1>3, <1>5
<1>. QED  BY <1>7, <1>8 DEF ResultOK, r

-----------------------------------------------------------------------------
(* What a code means to the gateway: a known end, or a stop that it will   *)
(* not answer for.                                                         *)
Verdict(code) == IF code = "OK" THEN "SUCCEEDED"
                 ELSE IF code = "CANCELED" THEN "CANCELED"
                 ELSE IF code \in InDoubt THEN "NEEDS_RECONCILIATION" ELSE "FAILED"

(* The gateway records of a goal that the HTTP node has ended what the     *)
(* node's code says: its five checks of the result (status, success, code, *)
(* state, operation) agree for every code, so none turns a known end into  *)
(* a doubt, and no code that leaves the arm in doubt becomes a known end.  *)
THEOREM GatewayReadsHttp ==
  ASSUME NEW o, NEW id, o.code \in Codes
  PROVE  Recorded(Ending(o.code), HttpResult(o, id), id) = Verdict(o.code)
<1>. DEFINE r == HttpResult(o, id)
<1>1. /\ r.execution.operation_id = id /\ r.execution.error.code = o.code
      /\ r.error.code = o.code /\ (r.success <=> o.code = "OK")
      /\ r.execution.state = IF o.code = "OK" THEN "SUCCEEDED"
                             ELSE IF o.code = "CANCELED" THEN "CANCELED"
                             ELSE IF o.code = "RESULT_UNKNOWN" THEN "NEEDS_RECONCILIATION"
                             ELSE "FAILED"
  BY DEF HttpResult
<1>. HIDE DEF r
<1>2. o.code = "OK" => Recorded(Ending(o.code), r, id) = Verdict(o.code)
  BY <1>1 DEF Recorded, Agrees, Ending, Verdict
<1>3. o.code = "CANCELED" => Recorded(Ending(o.code), r, id) = Verdict(o.code)
  BY <1>1 DEF Recorded, Agrees, Ending, Verdict
<1>4. o.code \in InDoubt \ {"OK"} => Recorded(Ending(o.code), r, id) = Verdict(o.code)
  BY <1>1 DEF Recorded, Agrees, Ending, Verdict, InDoubt
<1>5. o.code \notin InDoubt \cup {"CANCELED"} => Recorded(Ending(o.code), r, id) = Verdict(o.code)
  BY <1>1 DEF Recorded, Agrees, Ending, Verdict, InDoubt
<1>6. Recorded(Ending(o.code), r, id) = Verdict(o.code)
  BY <1>2, <1>3, <1>4, <1>5 DEF InDoubt
<1>. QED  BY <1>6 DEF r

(* The same of the C++ server, which calls a stop it could not confirm a   *)
(* failure and leaves the doubt to the gateway's reading of the code.      *)
THEOREM GatewayReadsFakeArm ==
  ASSUME NEW code \in Codes, NEW message, NEW progress, NEW id
  PROVE  Recorded(Ending(code), FakeArmResult(code, message, progress, id), id) = Verdict(code)
<1>. DEFINE r == FakeArmResult(code, message, progress, id)
<1>1. /\ r.execution.operation_id = id /\ r.execution.error.code = code
      /\ r.error.code = code /\ (r.success <=> code = "OK")
      /\ r.execution.state = IF code = "OK" THEN "SUCCEEDED"
                             ELSE IF code = "CANCELED" THEN "CANCELED" ELSE "FAILED"
  BY DEF FakeArmResult
<1>. HIDE DEF r
<1>2. code = "OK" => Recorded(Ending(code), r, id) = Verdict(code)
  BY <1>1 DEF Recorded, Agrees, Ending, Verdict
<1>3. code = "CANCELED" => Recorded(Ending(code), r, id) = Verdict(code)
  BY <1>1 DEF Recorded, Agrees, Ending, Verdict
<1>4. code \in InDoubt \ {"OK"} => Recorded(Ending(code), r, id) = Verdict(code)
  BY <1>1 DEF Recorded, Agrees, Ending, Verdict, InDoubt
<1>5. code \notin InDoubt \cup {"CANCELED"} => Recorded(Ending(code), r, id) = Verdict(code)
  BY <1>1 DEF Recorded, Agrees, Ending, Verdict, InDoubt
<1>6. Recorded(Ending(code), r, id) = Verdict(code)
  BY <1>2, <1>3, <1>4, <1>5 DEF InDoubt
<1>. QED  BY <1>6 DEF r

(* The status of the monitor of the target contract is always one of the   *)
(* contract, also when the target it judged is not.                        *)
THEOREM MonitorStatuses ==
  ASSUME NEW t, NEW complaint
  PROVE  /\ StatusOK(MonitorStatus(t, complaint))
         /\ MonitorStatus(t, complaint).state = "READY" <=> TargetOK(t)
<1>. DEFINE s == MonitorStatus(t, complaint)
<1>1. /\ s.name = "perception_contract" /\ s.keys = <<>> /\ s.values = <<>>
      /\ s.state = IF TargetOK(t) THEN "READY" ELSE "DEGRADED"
      /\ s.capabilities.backend_id = "zzx_contracts/object_target_v0_2"
      /\ s.capabilities.plan_only = FALSE /\ s.execution.state = "UNKNOWN"
  BY DEF MonitorStatus
<1>2. Distinct(<<>>)
  BY DEF Distinct
<1>. HIDE DEF s
<1>3. StatusOK(s) /\ (s.state = "READY" <=> TargetOK(t))
  BY <1>1, <1>2 DEF StatusOK, CapabilitiesOK
<1>. QED  BY <1>3 DEF s

-----------------------------------------------------------------------------
(* Single ownership of commands for any number of processes and locks: all *)
(* but a simulation whose launch has ended keep what they need while live. *)

\* What is needed of the constants.
NeedsTyped == \A p \in Producers : Needs[p] \in Seq(Locks)

\* Indices and locks of a process.
Indexed ==
  \A p \in Producers :
    /\ Len(Needs[p]) \in Nat
    /\ \A i \in 1..Len(Needs[p]) : Needs[p][i] \in Locks /\ Needs[p][i] \in LocksOf(p)
    /\ \A l \in LocksOf(p) : l \in Locks /\ \E i \in 1..Len(Needs[p]) : l = Needs[p][i]
LEMMA LockFacts == ASSUME NeedsTyped PROVE Indexed
<1> SUFFICES ASSUME NEW p \in Producers
             PROVE  /\ Len(Needs[p]) \in Nat
                    /\ \A i \in 1..Len(Needs[p]) :
                          Needs[p][i] \in Locks /\ Needs[p][i] \in LocksOf(p)
                    /\ \A l \in LocksOf(p) :
                          l \in Locks /\ \E i \in 1..Len(Needs[p]) : l = Needs[p][i]
  BY DEF Indexed
<1>1. Len(Needs[p]) \in Nat
  BY DEF NeedsTyped
<1>2. LocksOf(p) \subseteq Locks
  BY DEF Locks
<1> QED BY <1>1, <1>2 DEF LocksOf

LEMMA InitLease == ASSUME NeedsTyped, LeaseInit PROVE LeaseInv
  BY DEF LeaseInit, LeaseInv, LeaseTypeOK, OneHolder, Holds

\* Steps that change no lock's holder but that of the process at work.
LEMMA StepLease ==
  ASSUME NeedsTyped, LeaseInv, NEW p \in Producers, LeaseStep(p)
  PROVE  LeaseInv'
<1> USE DEF LeaseInv, LeaseTypeOK, OneHolder, Holds
<1>0. Indexed
  BY LockFacts
<1>1. CASE \E wanted \in BOOLEAN : Begin(p, wanted)
  BY <1>0, <1>1 DEF Indexed, Begin, Orphaned
<1>2. CASE TryLock(p)
  <2> DEFINE l == Needs[p][taken[p] + 1]
  <2>1. l \in Locks
    BY <1>0, <1>2 DEF Indexed, TryLock
  <2>2. CASE holders[l] = {}
    <3>1. /\ holders' = [holders EXCEPT ![l] = {p}]
          /\ taken' = [taken EXCEPT ![p] = @ + 1]
          /\ phase[p] = "taking" /\ taken[p] < Len(Needs[p])
          /\ UNCHANGED <<phase, live>>
      BY <1>2, <2>2 DEF TryLock
    <3>2. LeaseTypeOK' /\ OneHolder'
      BY <3>1, <2>1
    <3>3. ASSUME NEW q \in Producers, q # p PROVE Holds(q)'
      BY <1>0, <3>1, <2>1, <2>2, <3>3 DEF Indexed, Orphaned
    <3>4. Holds(p)'
      BY <1>0, <3>1, <2>1, <2>2 DEF Indexed, Orphaned
    <3> QED BY <3>2, <3>3, <3>4
  <2>3. CASE holders[l] # {}
    <3>1. /\ holders' = Freed(p) /\ phase' = [phase EXCEPT ![p] = "gone"]
          /\ UNCHANGED <<taken, live>> /\ phase[p] = "taking"
      BY <1>2, <2>3 DEF TryLock
    <3>2. LeaseTypeOK' /\ OneHolder'
      BY <3>1 DEF Freed
    <3>3. ASSUME NEW q \in Producers PROVE Holds(q)'
      BY <1>0, <3>1 DEF Indexed, Freed, Orphaned
    <3> QED BY <3>2, <3>3
  <2> QED BY <2>2, <2>3
<1>3. CASE Serve(p)
  BY <1>0, <1>3 DEF Indexed, Serve, Orphaned
<1>4. CASE Exit(p)
  BY <1>0, <1>4 DEF Indexed, Exit, Freed, Orphaned
<1>5. CASE Drain(p)
  BY <1>0, <1>5 DEF Indexed, Drain, Orphaned
<1>6. CASE GiveBack(p)
  BY <1>0, <1>6 DEF Indexed, GiveBack, Orphaned
<1>7. CASE Leave(p)
  BY <1>0, <1>7 DEF Indexed, Leave, Orphaned
<1>8. CASE Release(p)
  BY <1>0, <1>8 DEF Indexed, Release, Freed, Orphaned
<1>9. CASE ControllersExit(p)
  BY <1>0, <1>9 DEF Indexed, ControllersExit, Orphaned
<1>10. CASE Kill(p)
  <2>1. LeaseTypeOK' /\ OneHolder'
    BY <1>10 DEF Kill, Freed
  <2>2. ASSUME NEW q \in Producers PROVE Holds(q)'
    <3>1. /\ phase' = [phase EXCEPT ![p] = "gone"] /\ holders' = Freed(p) /\ taken' = taken
          /\ live'[q] => live[q] /\ (q = p => Profile[p] = "sim")
      BY <1>10 DEF Kill
    <3> QED BY <1>0, <3>1 DEF Indexed, Freed, Orphaned
  <2> QED BY <2>1, <2>2
<1> QED BY <1>1, <1>2, <1>3, <1>4, <1>5, <1>6, <1>7, <1>8, <1>9, <1>10 DEF LeaseStep

\* Whoever is live and up holds all its locks, and a lock has one holder.
LEMMA Exclusion == ASSUME NeedsTyped, LeaseInv PROVE OneProducerButOrphans
<1> SUFFICES ASSUME NEW p \in Producers, NEW q \in Producers, Rivals(p, q),
                    ~Orphaned(p), ~Orphaned(q), live[p], live[q]
             PROVE  FALSE
  BY DEF OneProducerButOrphans
<1>1. PICK l \in LocksOf(p) \cap LocksOf(q) : TRUE
  BY DEF Rivals
<1>2. p \in holders[l] /\ q \in holders[l] /\ l \in Locks
  BY LockFacts DEF Indexed, LeaseInv, Holds
<1> QED BY <1>2 DEF LeaseInv, OneHolder, Rivals

\* Two producers with a lock in common are never both live, but for the
\* controllers of a simulation whose launch was shut down or killed: neither
\* another robot name, nor an end point taken late, nor a crash of the HTTP
\* node (ownership.py:7-21, node.py:63-65) lets a second one in.
THEOREM SingleOwner == ASSUME NeedsTyped PROVE LeaseSpec => []OneProducerButOrphans
<1>1. LeaseInit => LeaseInv
  BY InitLease
<1>2. LeaseInv /\ [LeaseNext]_leaseVars => LeaseInv'
  <2> SUFFICES ASSUME LeaseInv, [LeaseNext]_leaseVars PROVE LeaseInv'
    OBVIOUS
  <2>1. CASE LeaseNext
    BY <2>1, StepLease DEF LeaseNext
  <2>2. CASE UNCHANGED leaseVars
    BY <2>2 DEF leaseVars, LeaseInv, LeaseTypeOK, OneHolder, Holds, Orphaned
  <2> QED BY <2>1, <2>2
<1>3. LeaseInv => OneProducerButOrphans
  BY Exclusion
<1> QED BY <1>1, <1>2, <1>3, PTL DEF LeaseSpec

-----------------------------------------------------------------------------
(* The legacy pick and place nodes, for any answers of the language model, *)
(* any areas and any history depth of a topic.  Their invariant has three  *)
(* parts: Relay, who has the robot; Agreement, what the nodes know of the  *)
(* task; Handling, where the base and the claw are.                        *)

\* Types; a topic carries one kind of message.
Bases == AreaDict \cup {"target", Nowhere, Origin}
NavStates == {"WAITING", "TO_AREA", "GET_AREA", "TO_TARGET", "GET_TARGET", "GET_CORRECT",
              "GRASP", "TO_ORIGIN", "GET_ORIGIN"}
Steps == {"open", "reach", "close", "lift", "home", "report"}
Words == {"0", "1", "2"}
Orders == {"grasp", "release"}
Ends == {"1"}
Message == [vision_on |-> Int, target_position |-> (Int \X Int) \cup {Aligned},
            wheel_control |-> Words, navigate_over |-> Orders,
            action_over |-> Ends]
ChanTyped(c) == /\ c = [t \in Topics |-> c[t]]
                /\ \A t \in Topics : c[t] \in Seq(Message[t])
NavType == [state : NavStates, command : Classified, task : Int, position : Int, drive : Bases]
VisType == [heard : BOOLEAN, classes : Seq(Int), task : Int, target : Int,
            correcting : BOOLEAN, sent : BOOLEAN]
TypeOK ==
  /\ target \in Classified
  /\ nodes \in [Nodes -> {"down", "up", "dead"}]
  /\ nav \in NavType
  /\ vis \in VisType
  /\ arm \in [steps : Seq(Steps), holds : Int]
  /\ wheel \in Words
  /\ ChanTyped(chan)
  /\ world \in [base : Bases, faces : Int, view : {"off", "centered", "near"}]
  /\ delivered \in Seq(Int \X Bases)

Driving == {"TO_AREA", "TO_TARGET", "TO_ORIGIN"}
ArmWork == {"GRASP", "GET_ORIGIN"}
Among(q, x) == \E i \in 1..Len(q) : q[i] = x
AtMostOne(q, x) == \A i, j \in 1..Len(q) : q[i] = x /\ q[j] = x => i = j
\* Vision is to correct, or it says that it has.
ToCorrect == Among(chan["vision_on"], Correct)
Corrected == Among(chan["target_position"], Aligned)

\* An order to the arm, its sequence and its report exclude each other, and
\* navigation waits in one of two states meanwhile.
ArmRelay ==
  /\ arm.steps # <<>> \/ chan["navigate_over"] # <<>> \/ chan["action_over"] # <<>>
       => nav.state \in ArmWork
  /\ arm.steps # <<>> => chan["navigate_over"] = <<>> /\ chan["action_over"] = <<>>
  /\ chan["navigate_over"] # <<>> => chan["action_over"] = <<>>
  /\ Len(chan["navigate_over"]) <= 1 /\ Len(chan["action_over"]) <= 1
  /\ \A i \in 1..(Len(arm.steps) - 1) : arm.steps[i] # "report"
\* Navigation waits in GET_TARGET from the one request to correct to the one
\* answer; the wheels are told to move in between only.
WheelRelay ==
  /\ ToCorrect => nav.state = "GET_TARGET" /\ ~vis.correcting /\ ~Corrected
  /\ vis.correcting => nav.state = "GET_TARGET" /\ ~Corrected
  /\ Corrected => nav.state = "GET_TARGET"
  /\ AtMostOne(chan["vision_on"], Correct)
  /\ AtMostOne(chan["target_position"], Aligned)
  /\ Told # "0" => vis.correcting
  /\ ~Up("wheel") => wheel = "0" /\ chan["wheel_control"] = <<>>
\* Navigation drives in the states that have somewhere to go.
NavRelay ==
  /\ nav.drive # Nowhere => nav.state \in Driving
  /\ nav.command = Nothing <=> nav.state = "WAITING"
  /\ nav.task = -1 <=> nav.state = "WAITING"
  /\ nav.task >= -1
Relay == TypeOK /\ ArmRelay /\ WheelRelay /\ NavRelay

\* The states in which navigation has a position for its task, from the first
\* that goes there to the last that holds the object.
After == {"TO_TARGET", "GET_TARGET", "GET_CORRECT", "GRASP", "TO_ORIGIN"}
\* Navigation and vision took what they know from the one answer that voice
\* repeats; no answer replaces it once voice is up.
Command ==
  /\ nav.command # Nothing => nav.command = target /\ target.kind = "plan" /\ Up("voice")
  /\ vis.heard => Up("voice")
  /\ vis.classes # <<>> => vis.heard /\ vis.classes = target.classes /\ target.kind = "plan"
  /\ ~vis.heard => vis.target = NoClass /\ vis.task = -1
\* The task numbers on their way to vision: later than the one it works on.
Ordered(q, low, high) ==
  /\ \A i \in 1..Len(q) : q[i] # Correct => q[i] > low /\ q[i] <= high
  /\ \A i, j \in 1..Len(q) : i < j /\ q[i] # Correct /\ q[j] # Correct => q[i] < q[j]
Early == {"TO_AREA", "GET_ORIGIN"}
Latest == IF nav.state \in Early THEN nav.task - 1 ELSE nav.task
\* Vision works on navigation's task or on an earlier one, and never hears the
\* number of a task that navigation has not come to.
VisionTask ==
  /\ vis.task >= -1 /\ vis.task <= nav.task
  /\ vis.task = nav.task => nav.state \notin Early
  /\ vis.task >= 0 /\ vis.target # NoClass => vis.target = target.classes[vis.task + 1]
  /\ Ordered(chan["vision_on"], vis.task, Latest)
\* A position on its way names its task's class, and one that navigation would
\* accept is of what vision looks for.
Right(m) ==
  m # Aligned =>
    /\ m[1] <= vis.task
    /\ m[2] # NoClass
    /\ m[1] >= 0 => m[2] = target.classes[m[1] + 1]
    /\ m[1] = nav.task /\ nav.state = "GET_AREA" => vis.target = m[2]
PositionsAreRight ==
  \A i \in 1..Len(chan["target_position"]) : Right(chan["target_position"][i])
\* From the accepted position on both are at the same object.
Pursuit ==
  /\ nav.state \in After => /\ nav.position = nav.command.classes[nav.task + 1]
                            /\ nav.position # NoClass
                            /\ vis.task = nav.task
  /\ nav.state = "TO_TARGET" \/ vis.correcting \/ ToCorrect => vis.target = nav.position
Agreement == Command /\ VisionTask /\ PositionsAreRight /\ Pursuit

\* What is left of a sequence of the arm.
Suffix(s, script) ==
  /\ Len(s) <= Len(script)
  /\ \A i \in 1..Len(s) : s[i] = script[Len(script) - Len(s) + i]
\* The arm has n steps to go, or its order is on its way.
Waits(n) == chan["navigate_over"] # <<>> \/ Len(arm.steps) >= n
\* The base is where navigation's state says, and near the object once vision
\* has said so.
Facing ==
  /\ nav.state = "TO_TARGET" /\ nav.drive # Nowhere => nav.drive = "target"
  /\ nav.state = "TO_ORIGIN" /\ nav.drive # Nowhere => nav.drive = Origin
  /\ nav.state \in {"GET_TARGET", "GET_CORRECT", "GRASP"} => world.faces = nav.position
  /\ nav.state \in {"GET_CORRECT", "GRASP"} \/ Corrected => world.view = "near"
  /\ nav.state = "GET_ORIGIN" => world.base = Origin
\* The claw holds the object of the task from the third step of "grasp" to the
\* first of "release", and all earlier ones were delivered.
Claw ==
  /\ nav.state = "WAITING" => delivered = <<>>
  /\ nav.state \notin {"WAITING", "GET_ORIGIN"} => Len(delivered) = nav.task
  /\ nav.state \notin ArmWork \cup {"TO_ORIGIN"} => arm.holds = NoClass
  /\ nav.state = "GRASP" =>
       /\ \A i \in 1..Len(chan["navigate_over"]) : chan["navigate_over"][i] = "grasp"
       /\ Suffix(arm.steps, Script("grasp"))
       /\ arm.holds = IF Waits(3) THEN NoClass ELSE nav.position
  /\ nav.state = "TO_ORIGIN" => arm.holds = nav.position
  /\ nav.state = "GET_ORIGIN" =>
       /\ \A i \in 1..Len(chan["navigate_over"]) : chan["navigate_over"][i] = "release"
       /\ Suffix(arm.steps, Script("release"))
       /\ nav.position = nav.command.classes[nav.task] /\ nav.position # NoClass
       /\ arm.holds = IF Waits(3) THEN nav.position ELSE NoClass
       /\ Len(delivered) = IF Waits(3) THEN nav.task - 1 ELSE nav.task
  /\ \A i \in 1..Len(delivered) : delivered[i] = <<nav.command.classes[i], Origin>>
Handling == mishap = {} => Facing /\ Claw

-----------------------------------------------------------------------------
(* Topics: what publishing and receiving do to the messages on their way.  *)

\* One message more at the end, perhaps without the oldest; one less in front.
Grown(r, q, m) ==
  /\ Len(r) >= 1 /\ r[Len(r)] = m
  /\ \E d \in {0, 1} : /\ Len(r) = Len(q) + 1 - d
                       /\ \A i \in 1..(Len(r) - 1) : r[i] = q[i + d]
Shorter(r, q) == Len(r) = Len(q) - 1 /\ \A i \in 1..Len(r) : r[i] = q[i + 1]

\* A bounded history keeps the new message.
LEMMA Appending ==
  ASSUME NEW S, NEW q \in Seq(S), NEW m \in S
  PROVE  KeepLast(Append(q, m)) \in Seq(S) /\ Grown(KeepLast(Append(q, m)), q, m)
<1>. DEFINE a == Append(q, m)
<1>1. /\ a \in Seq(S) /\ Len(a) = Len(q) + 1 /\ Len(q) \in Nat /\ a[Len(q) + 1] = m
      /\ \A i \in 1..Len(q) : a[i] = q[i]
  OBVIOUS
<1>. HIDE DEF a
<1>2. /\ Tail(a) \in Seq(S) /\ Len(Tail(a)) = Len(q)
      /\ \A i \in 1..Len(q) : Tail(a)[i] = a[i + 1]
  BY <1>1
<1>. DEFINE b == Tail(a)
<1>. HIDE DEF b
<1>3. CASE Len(a) > Depth
  <2>1. KeepLast(a) = b
    BY <1>3 DEF KeepLast, b
  <2>2. Len(q) >= 1
    BY <1>1, <1>3, AnswersTyped
  <2>3. b \in Seq(S) /\ Len(b) = Len(q) /\ b[Len(b)] = m
    BY <1>1, <1>2, <2>2 DEF b
  <2>4. \A i \in 1..(Len(b) - 1) : b[i] = q[i + 1]
    BY <1>1, <1>2, <2>3 DEF b
  <2>5. Grown(b, q, m)
    BY <1>1, <2>2, <2>3, <2>4 DEF Grown
  <2>. QED  BY <2>1, <2>3, <2>5 DEF a
<1>4. CASE ~(Len(a) > Depth)
  <2>1. KeepLast(a) = a
    BY <1>4 DEF KeepLast
  <2>2. Grown(a, q, m)
    BY <1>1 DEF Grown
  <2>. QED  BY <1>1, <2>1, <2>2 DEF a
<1>. QED  BY <1>3, <1>4

\* Each topic is as it was or has grown.
LEMMA Published ==
  ASSUME NEW c, ChanTyped(c), NEW msgs,
         \A x \in DOMAIN msgs : x \in Topics /\ msgs[x] \in Message[x]
  PROVE  /\ ChanTyped(Publish(msgs, c))
         /\ \A x \in Topics :
              IF x \in DOMAIN msgs /\ Up(Subscriber[x])
              THEN Grown(Publish(msgs, c)[x], c[x], msgs[x]) ELSE Publish(msgs, c)[x] = c[x]
<1>. DEFINE p == Publish(msgs, c)
<1>1. /\ p = [x \in Topics |-> p[x]]
      /\ \A x \in Topics : p[x] = IF x \in DOMAIN msgs /\ Up(Subscriber[x])
                                  THEN KeepLast(Append(c[x], msgs[x])) ELSE c[x]
  BY DEF Publish
<1>. HIDE DEF p
<1>2. ASSUME NEW x \in Topics
      PROVE  /\ p[x] \in Seq(Message[x])
             /\ IF x \in DOMAIN msgs /\ Up(Subscriber[x])
                THEN Grown(p[x], c[x], msgs[x]) ELSE p[x] = c[x]
  <2>1. c[x] \in Seq(Message[x])
    BY DEF ChanTyped
  <2>2. CASE x \in DOMAIN msgs /\ Up(Subscriber[x])
    <3>1. msgs[x] \in Message[x]
      BY <2>2
    <3>. QED  BY <1>1, <2>1, <2>2, <3>1, Appending
  <2>3. CASE ~(x \in DOMAIN msgs /\ Up(Subscriber[x]))
    BY <1>1, <2>1, <2>3
  <2>. QED  BY <2>2, <2>3
<1>. QED  BY <1>1, <1>2 DEF ChanTyped, p

\* Only the topic read changes.
LEMMA Received ==
  ASSUME ChanTyped(chan), NEW t \in Topics, chan[t] # <<>>
  PROVE  /\ ChanTyped(Take(t))
         /\ \A x \in Topics \ {t} : Take(t)[x] = chan[x]
         /\ Shorter(Take(t)[t], chan[t])
         /\ Len(chan[t]) >= 1 /\ Head(chan[t]) = chan[t][1] /\ chan[t][1] \in Message[t]
<1>1. chan[t] \in Seq(Message[t]) /\ chan[t] # <<>> /\ t \in DOMAIN chan
  BY DEF ChanTyped
<1>. DEFINE q == chan[t]
<1>2. /\ Tail(q) \in Seq(Message[t]) /\ Shorter(Tail(q), q)
      /\ Len(q) >= 1 /\ Head(q) = q[1] /\ q[1] \in Message[t]
  <2>. HIDE DEF q
  <2>1. q \in Seq(Message[t]) /\ q # <<>>
    BY <1>1 DEF q
  <2>. QED  BY <2>1 DEF Shorter
<1>3. /\ Take(t) = [chan EXCEPT ![t] = Tail(q)] /\ Take(t)[t] = Tail(q)
      /\ \A x \in Topics \ {t} : Take(t)[x] = chan[x]
  BY <1>1 DEF Take, ChanTyped
<1>4. ChanTyped(Take(t))
  <2>. HIDE DEF q
  <2>. DEFINE c == Take(t)
  <2>1. c = [x \in Topics |-> c[x]]
    BY <1>3 DEF ChanTyped
  <2>2. \A x \in Topics : c[x] \in Seq(Message[x])
    BY <1>2, <1>3 DEF ChanTyped
  <2>. HIDE DEF c
  <2>3. ChanTyped(c)
    BY <2>1, <2>2 DEF ChanTyped
  <2>. QED  BY <2>3 DEF c
<1>. QED  BY <1>2, <1>3, <1>4

\* How a step leaves the topics, in terms of their next state.
Only(ts) == \A x \in Topics \ ts : chan'[x] = chan[x]
Says(t, m) == IF Up(Subscriber[t]) THEN Grown(chan'[t], chan[t], m) ELSE chan'[t] = chan[t]
Hears(t) == /\ Len(chan[t]) >= 1 /\ Head(chan[t]) = chan[t][1] /\ chan[t][1] \in Message[t]
            /\ Shorter(chan'[t], chan[t])

\* The same of the next state, for a handler that publishes one message, one
\* that reads one, and the two that do more.
LEMMA Said ==
  ASSUME ChanTyped(chan), NEW t \in Topics, NEW m \in Message[t],
         chan' = Publish(On(t, m), chan)
  PROVE  ChanTyped(chan)' /\ Only({t}) /\ Says(t, m)
<1>1. DOMAIN On(t, m) = {t} /\ On(t, m)[t] = m
  BY DEF On
<1>. HIDE DEF On
<1>2. /\ ChanTyped(Publish(On(t, m), chan))
      /\ \A x \in Topics :
           IF x \in DOMAIN On(t, m) /\ Up(Subscriber[x])
           THEN Grown(Publish(On(t, m), chan)[x], chan[x], On(t, m)[x])
           ELSE Publish(On(t, m), chan)[x] = chan[x]
  BY <1>1, Published
<1>3. ChanTyped(chan')
  BY <1>2
<1>4. ChanTyped(chan)'
  BY <1>3 DEF ChanTyped
<1>. QED  BY <1>1, <1>2, <1>4 DEF Only, Says

LEMMA Heard ==
  ASSUME ChanTyped(chan), NEW t \in Topics, Receives(t), chan' = Take(t)
  PROVE  ChanTyped(chan)' /\ Only({t}) /\ Hears(t)
<1>1. ChanTyped(chan')
  BY Received DEF Receives
<1>2. ChanTyped(chan)'
  BY <1>1 DEF ChanTyped
<1>. QED  BY <1>2, Received DEF Receives, Only, Hears

LEMMA Answered ==
  ASSUME ChanTyped(chan), Receives("vision_on"),
         chan' = Publish(On("wheel_control", "1"), Take("vision_on"))
  PROVE  /\ ChanTyped(chan)' /\ Only({"vision_on", "wheel_control"})
         /\ Hears("vision_on") /\ Says("wheel_control", "1")
<1>. DEFINE c == Take("vision_on")
            msgs == On("wheel_control", "1")
<1>1. DOMAIN msgs = {"wheel_control"} /\ msgs["wheel_control"] = "1"
  BY DEF On
<1>2. /\ ChanTyped(c) /\ Shorter(c["vision_on"], chan["vision_on"])
      /\ \A x \in Topics \ {"vision_on"} : c[x] = chan[x]
      /\ Len(chan["vision_on"]) >= 1 /\ Head(chan["vision_on"]) = chan["vision_on"][1]
      /\ chan["vision_on"][1] \in Message["vision_on"]
  BY Received DEF Receives, Topics
<1>3. chan' = Publish(msgs, c)
  OBVIOUS
<1>. HIDE DEF c, msgs
<1>4. \A x \in DOMAIN msgs : x \in Topics /\ msgs[x] \in Message[x]
  BY <1>1 DEF Topics, Message, Words
<1>5. /\ ChanTyped(Publish(msgs, c))
      /\ \A x \in Topics :
           IF x \in DOMAIN msgs /\ Up(Subscriber[x])
           THEN Grown(Publish(msgs, c)[x], c[x], msgs[x])
           ELSE Publish(msgs, c)[x] = c[x]
  BY <1>2, <1>4, Published
<1>6. ChanTyped(chan)'
  BY <1>3, <1>5 DEF ChanTyped
<1>7. Says("wheel_control", "1")
  BY <1>1, <1>2, <1>3, <1>5 DEF Says, Topics
<1>8. Only({"vision_on", "wheel_control"}) /\ chan'["vision_on"] = c["vision_on"]
  BY <1>1, <1>2, <1>3, <1>5 DEF Only, Topics
<1>. QED  BY <1>2, <1>6, <1>7, <1>8 DEF Hears

LEMMA Stopped ==
  ASSUME ChanTyped(chan), chan' = Publish(Stop, chan)
  PROVE  /\ ChanTyped(chan)' /\ Only({"wheel_control", "target_position"})
         /\ Says("wheel_control", "0") /\ Says("target_position", Aligned)
<1>1. /\ DOMAIN Stop = {"wheel_control", "target_position"}
      /\ Stop["wheel_control"] = "0" /\ Stop["target_position"] = Aligned
  BY DEF Stop
<1>2. \A x \in DOMAIN Stop : x \in Topics /\ Stop[x] \in Message[x]
  BY <1>1 DEF Topics, Message, Words
<1>3. /\ ChanTyped(Publish(Stop, chan))
      /\ \A x \in Topics :
           IF x \in DOMAIN Stop /\ Up(Subscriber[x])
           THEN Grown(Publish(Stop, chan)[x], chan[x], Stop[x])
           ELSE Publish(Stop, chan)[x] = chan[x]
  BY <1>2, Published
<1>4. ChanTyped(chan)'
  BY <1>3 DEF ChanTyped
<1>5. Only({"wheel_control", "target_position"})
  BY <1>1, <1>3 DEF Only
<1>6. "wheel_control" \in Topics /\ "target_position" \in Topics
  BY DEF Topics
<1>. QED  BY <1>1, <1>3, <1>4, <1>5, <1>6 DEF Says

-----------------------------------------------------------------------------
(* Types, and what the handlers do.                                        *)

\* Every answer has its fields, the one of a failed request too.
LEMMA Kinds ==
  /\ \A r \in Classified : /\ r.kind \in {"none", "plan", "class", "prose"}
                           /\ r.areas \in Seq(STRING) /\ r.classes \in Seq(Int)
                           /\ r.kind = "class" => r.classes # <<>>
  /\ Nothing \in Classified /\ Nothing.kind = "none"
<1>1. Nothing.kind = "none" /\ Nothing.areas = <<>> /\ Nothing.classes = <<>>
  BY DEF Nothing
<1>2. <<>> \in Seq(STRING) /\ <<>> \in Seq(Int)
  OBVIOUS
<1>. QED  BY <1>1, <1>2, AnswersTyped DEF Classified

LEMMA TypesStart == Init => TypeOK
<1> SUFFICES ASSUME Init PROVE TypeOK
  OBVIOUS
<1>1. ChanTyped(chan)
  BY DEF Init, ChanTyped, Topics, Message
<1>2. Nothing \in Classified
  BY Kinds
<1>. QED  BY <1>1, <1>2 DEF Init, TypeOK, NavType, VisType, Bases, NavStates, Words, NoClass

\* What the longer handlers do, field by field.
Goes(from, to) == nav.state = from /\ nav'.state = to
LEMMA ArriveDoes ==
  ASSUME TypeOK, NavRelay, NEW well \in BOOLEAN, Arrive(well)
  PROVE  /\ nav' \in NavType /\ nav'.drive = Nowhere /\ nav.drive # Nowhere
         /\ nav'.command = nav.command /\ nav'.position = nav.position
         /\ ChanTyped(chan)'
         /\ \/ /\ Goes("TO_AREA", "GET_AREA") /\ nav'.task = nav.task
               /\ Only({"vision_on"}) /\ Says("vision_on", nav.task)
            \/ /\ Goes("TO_TARGET", "GET_TARGET") /\ nav'.task = nav.task
               /\ Only({"vision_on"}) /\ Says("vision_on", Correct)
            \/ /\ Goes("TO_ORIGIN", "GET_ORIGIN") /\ nav'.task = nav.task + 1
               /\ Only({"navigate_over"}) /\ Says("navigate_over", "release")
               /\ Up("arm") \/ mishap' # {}
<1>1. nav.drive # Nowhere /\ nav.state \in Driving /\ nav \in NavType /\ ChanTyped(chan)
  BY DEF Arrive, NavRelay, TypeOK
<1>2. {"vision_on", "navigate_over"} \subseteq Topics /\ Nowhere \in Bases
  BY DEF Topics, Bases
<1>3. nav.task \in Int /\ nav.task + 1 \in Int
  BY <1>1 DEF NavType
<1>4. /\ nav.task \in Message["vision_on"] /\ Correct \in Message["vision_on"]
      /\ "release" \in Message["navigate_over"]
  BY <1>3 DEF Message, Orders, Correct
<1>5. {"GET_AREA", "GET_TARGET", "GET_ORIGIN"} \subseteq NavStates
  BY DEF NavStates
<1>6. CASE nav.state = "TO_AREA"
  <2>1. /\ nav' = [nav EXCEPT !.state = "GET_AREA", !.drive = Nowhere, !.task = nav.task]
        /\ chan' = Publish(On("vision_on", nav.task), chan)
    BY <1>1, <1>6 DEF Arrive, Report, NavType
  <2>2. nav' \in NavType
    BY <1>1, <1>2, <1>3, <1>5, <2>1 DEF NavType
  <2>3. ChanTyped(chan)' /\ Only({"vision_on"}) /\ Says("vision_on", nav.task)
    BY <1>1, <1>2, <1>4, <2>1, Said
  <2>. QED  BY <1>1, <1>6, <2>1, <2>2, <2>3 DEF NavType, Goes
<1>7. CASE nav.state = "TO_TARGET"
  <2>1. /\ nav' = [nav EXCEPT !.state = "GET_TARGET", !.drive = Nowhere, !.task = nav.task]
        /\ chan' = Publish(On("vision_on", Correct), chan)
    BY <1>1, <1>7 DEF Arrive, Report, NavType
  <2>2. nav' \in NavType
    BY <1>1, <1>2, <1>3, <1>5, <2>1 DEF NavType
  <2>3. ChanTyped(chan)' /\ Only({"vision_on"}) /\ Says("vision_on", Correct)
    BY <1>1, <1>2, <1>4, <2>1, Said
  <2>. QED  BY <1>1, <1>7, <2>1, <2>2, <2>3 DEF NavType, Goes
<1>8. CASE nav.state = "TO_ORIGIN"
  <2>. DEFINE msgs == On("navigate_over", "release")
  <2>1. /\ nav' = [nav EXCEPT !.state = "GET_ORIGIN", !.drive = Nowhere, !.task = nav.task + 1]
        /\ chan' = Publish(msgs, chan)
        /\ Unheard(DOMAIN msgs) \subseteq mishap'
    BY <1>1, <1>8 DEF Arrive, Report, NavType
  <2>2. nav' \in NavType
    BY <1>1, <1>2, <1>3, <1>5, <2>1 DEF NavType
  <2>3. ChanTyped(chan)' /\ Only({"navigate_over"}) /\ Says("navigate_over", "release")
    BY <1>1, <1>2, <1>4, <2>1, Said
  <2>4. Up("arm") \/ mishap' # {}
    BY <2>1 DEF On, Unheard, Subscriber
  <2>. QED  BY <1>1, <1>8, <2>1, <2>2, <2>3, <2>4 DEF NavType, Goes
<1>. QED  BY <1>1, <1>6, <1>7, <1>8 DEF Driving

LEMMA TargetCallbackDoes ==
  ASSUME TypeOK, TargetCallback
  PROVE  /\ nav' \in NavType /\ nav'.drive = nav.drive /\ nav.drive = Nowhere
         /\ nav'.command = nav.command /\ nav'.task = nav.task
         /\ ChanTyped(chan)' /\ Only({"target_position"}) /\ Hears("target_position")
         /\ LET m == chan["target_position"][1] IN
              \/ m = Aligned /\ Goes("GET_TARGET", "GET_CORRECT") /\ nav'.position = nav.position
              \/ /\ m # Aligned /\ Goes("GET_AREA", "TO_TARGET")
                 /\ m[1] = nav.task /\ nav'.position = m[2]
              \/ nav' = nav /\ (m = Aligned => nav.state # "GET_TARGET")
<1>. DEFINE m == chan["target_position"][1]
<1>1. nav \in NavType /\ nav.drive = Nowhere
  BY DEF TargetCallback, Listening, TypeOK
<1>2. ChanTyped(chan)' /\ Only({"target_position"}) /\ Hears("target_position")
  <2>1. "target_position" \in Topics
    BY DEF Topics
  <2>. QED  BY <2>1, Heard DEF TargetCallback, TypeOK
<1>3. m \in (Int \X Int) \cup {Aligned}
  BY <1>2 DEF Hears, Message
<1>4. nav' = AfterTarget(m)
  BY <1>2 DEF TargetCallback, Hears
<1>5. m # Aligned => m[2] \in Int
  BY <1>3
<1>. HIDE DEF m
<1>6. CASE m = Aligned /\ nav.state = "GET_TARGET"
  BY <1>1, <1>2, <1>4, <1>6 DEF AfterTarget, NavType, NavStates, Goes, m
<1>7. CASE m # Aligned /\ nav.state = "GET_AREA" /\ m[1] = nav.task
  <2>1. nav' = [nav EXCEPT !.state = "TO_TARGET", !.position = m[2]]
    BY <1>4, <1>7 DEF AfterTarget
  <2>2. nav' \in NavType
    BY <1>1, <1>5, <1>7, <2>1 DEF NavType, NavStates
  <2>3. /\ Goes("GET_AREA", "TO_TARGET") /\ nav'.position = m[2] /\ nav'.drive = nav.drive
        /\ nav'.command = nav.command /\ nav'.task = nav.task
    BY <1>1, <1>7, <2>1 DEF NavType, Goes
  <2>. QED  BY <1>1, <1>2, <1>7, <2>2, <2>3 DEF m
<1>8. CASE /\ ~(m = Aligned /\ nav.state = "GET_TARGET")
           /\ ~(m # Aligned /\ nav.state = "GET_AREA" /\ m[1] = nav.task)
  <2>1. nav' = nav
    BY <1>4, <1>8 DEF AfterTarget
  <2>. QED  BY <1>1, <1>2, <1>8, <2>1 DEF m
<1>. QED  BY <1>6, <1>7, <1>8

LEMMA NavCallbackDoes ==
  ASSUME TypeOK, NavCallback
  PROVE  /\ vis' \in VisType /\ vis'.classes = vis.classes /\ vis'.heard = vis.heard
         /\ vis'.sent = vis.sent
         /\ ChanTyped(chan)' /\ Hears("vision_on")
         /\ LET m == chan["vision_on"][1] IN
              \/ /\ m = Correct /\ vis'.correcting = TRUE /\ vis'.task = vis.task
                 /\ vis'.target = vis.target
                 /\ Only({"vision_on", "wheel_control"}) /\ Says("wheel_control", "1")
                 /\ nodes' = nodes
              \/ /\ m # Correct /\ vis'.correcting = vis.correcting /\ vis'.task = m
                 /\ m + 1 \in DOMAIN vis.classes /\ vis'.target = vis.classes[m + 1]
                 /\ Only({"vision_on"}) /\ UNCHANGED <<nodes, mishap>>
              \/ /\ m # Correct /\ vis' = vis /\ Only({"vision_on"}) /\ Dies("vision")
<1>. DEFINE m == chan["vision_on"][1]
<1>1. vis \in VisType /\ ChanTyped(chan) /\ Receives("vision_on") /\ "vision_on" \in Topics
  BY DEF NavCallback, TypeOK, Topics
<1>2. m = Head(chan["vision_on"]) /\ m \in Int
  BY <1>1, Received DEF Receives, Message
<1>3. CASE m = Correct
  <2>1. /\ vis' = [vis EXCEPT !.correcting = TRUE] /\ nodes' = nodes
        /\ chan' = Publish(On("wheel_control", "1"), Take("vision_on"))
    BY <1>2, <1>3 DEF NavCallback
  <2>2. /\ ChanTyped(chan)' /\ Only({"vision_on", "wheel_control"})
        /\ Hears("vision_on") /\ Says("wheel_control", "1")
    BY <1>1, <2>1, Answered
  <2>3. vis' \in VisType
    BY <1>1, <2>1 DEF VisType
  <2>. QED  BY <1>1, <1>3, <2>1, <2>2, <2>3 DEF VisType
<1>4. CASE m # Correct
  <2>1. chan' = Take("vision_on")
    BY <1>2, <1>4 DEF NavCallback
  <2>2. ChanTyped(chan)' /\ Only({"vision_on"}) /\ Hears("vision_on")
    BY <1>1, <2>1, Heard
  <2>3. CASE m + 1 \in DOMAIN vis.classes /\ NewTarget(m) \in Known
    <3>1. vis' = [vis EXCEPT !.task = m, !.target = NewTarget(m)] /\ UNCHANGED <<nodes, mishap>>
      BY <1>2, <1>4, <2>3 DEF NavCallback
    <3>2. NewTarget(m) \in Int /\ NewTarget(m) = vis.classes[m + 1]
      BY <1>1, <2>3 DEF NewTarget, VisType
    <3>3. vis' \in VisType
      BY <1>1, <1>2, <3>1, <3>2 DEF VisType
    <3>4. /\ vis'.classes = vis.classes /\ vis'.heard = vis.heard /\ vis'.sent = vis.sent
          /\ vis'.correcting = vis.correcting /\ vis'.task = m
          /\ vis'.target = vis.classes[m + 1]
      BY <1>1, <3>1, <3>2 DEF VisType
    <3>. QED  BY <1>4, <2>2, <2>3, <3>1, <3>3, <3>4
  <2>4. CASE ~(m + 1 \in DOMAIN vis.classes /\ NewTarget(m) \in Known)
    <3>1. Dies("vision") /\ vis' = vis
      BY <1>2, <1>4, <2>4 DEF NavCallback
    <3>. QED  BY <1>1, <1>4, <2>2, <3>1
  <2>. QED  BY <2>3, <2>4
<1>. QED  BY <1>3, <1>4

LEMMA VisionHearsDoes ==
  ASSUME TypeOK, VisionHears
  PROVE  /\ vis' \in VisType /\ vis'.heard = TRUE /\ ~vis.heard /\ Up("voice")
         /\ vis'.classes = IF target.kind = "plan" THEN target.classes ELSE vis.classes
         /\ vis'.target = IF target.kind = "class" THEN target.classes[1] ELSE vis.target
         /\ vis'.task = vis.task /\ vis'.correcting = vis.correcting /\ vis'.sent = vis.sent
         /\ IF target.kind = "prose" THEN Dies("vision") ELSE UNCHANGED <<nodes, mishap>>
<1>1. vis \in VisType /\ target \in Classified
  BY DEF TypeOK
<1>2. target.classes \in Seq(Int) /\ (target.kind = "class" => target.classes[1] \in Int)
  <2>1. target.classes \in Seq(Int) /\ (target.kind = "class" => target.classes # <<>>)
    BY <1>1, Kinds
  <2>. QED  BY <2>1
<1>. DEFINE q == IF target.kind = "plan" THEN target.classes ELSE vis.classes
            k == IF target.kind = "class" THEN target.classes[1] ELSE vis.target
<1>3. q \in Seq(Int) /\ k \in Int
  BY <1>1, <1>2 DEF VisType
<1>4. vis' = [vis EXCEPT !.heard = TRUE, !.classes = q, !.target = k]
  BY <1>1 DEF VisionHears, VisType
<1>. HIDE DEF q, k
<1>5. vis' \in VisType
  BY <1>1, <1>3, <1>4 DEF VisType
<1>6. /\ vis'.heard = TRUE /\ vis'.classes = q /\ vis'.target = k
      /\ vis'.task = vis.task /\ vis'.correcting = vis.correcting /\ vis'.sent = vis.sent
  BY <1>1, <1>4 DEF VisType
<1>7. /\ ~vis.heard /\ Up("voice")
      /\ IF target.kind = "prose" THEN Dies("vision") ELSE UNCHANGED <<nodes, mishap>>
  BY DEF VisionHears
<1>. QED  BY <1>5, <1>6, <1>7 DEF q, k

LEMMA NavigationHearsDoes ==
  ASSUME TypeOK, NavigationHears
  PROVE  /\ nav' \in NavType /\ nav'.state = "TO_AREA" /\ nav'.command = target /\ nav'.task = 0
         /\ nav'.drive = nav.drive /\ nav.command = Nothing /\ target.kind = "plan"
         /\ Up("voice")
<1>1. nav \in NavType /\ target \in Classified /\ "TO_AREA" \in NavStates
  BY DEF NavStates, TypeOK
<1>2. /\ nav' = [nav EXCEPT !.state = "TO_AREA", !.command = target, !.task = 0]
      /\ nav.command = Nothing /\ target.kind = "plan" /\ Up("voice")
  BY DEF NavigationHears
<1>. DEFINE first == 0
            n == [nav EXCEPT !.state = "TO_AREA", !.task = first]
<1>3. n \in NavType
  <2>1. first \in Int
    OBVIOUS
  <2>. HIDE DEF first
  <2>. QED  BY <1>1, <2>1 DEF NavType
<1>4. nav' = [n EXCEPT !.command = target]
  BY <1>1, <1>2 DEF NavType
<1>. HIDE DEF n
<1>5. nav' \in NavType
  BY <1>1, <1>3, <1>4 DEF NavType
<1>. QED  BY <1>1, <1>2, <1>5 DEF NavType

LEMMA AlignNearDoes ==
  ASSUME TypeOK, AlignNear
  PROVE  /\ vis' \in VisType /\ ~vis'.correcting /\ vis'.target = NoClass
         /\ vis'.heard = vis.heard /\ vis'.classes = vis.classes /\ vis'.task = vis.task
         /\ vis.correcting /\ world.view = "near"
         /\ ChanTyped(chan)' /\ Only({"wheel_control", "target_position"})
         /\ Says("wheel_control", "0") /\ Says("target_position", Aligned)
<1>1. vis \in VisType /\ ChanTyped(chan)
  BY DEF TypeOK
<1>2. /\ vis' = [vis EXCEPT !.correcting = FALSE, !.sent = FALSE, !.target = NoClass]
      /\ chan' = Publish(Stop, chan) /\ vis.correcting /\ world.view = "near"
  BY DEF AlignNear, Aside
<1>. DEFINE v == [vis EXCEPT !.sent = FALSE, !.target = NoClass]
<1>3. vis' \in VisType
  <2>1. v \in VisType
    <3>1. NoClass \in Int
      BY DEF NoClass
    <3>. QED  BY <1>1, <3>1 DEF VisType
  <2>2. vis' = [v EXCEPT !.correcting = FALSE]
    BY <1>1, <1>2 DEF VisType
  <2>. HIDE DEF v
  <2>. QED  BY <2>1, <2>2 DEF VisType
<1>4. /\ ~vis'.correcting /\ vis'.target = NoClass
      /\ vis'.heard = vis.heard /\ vis'.classes = vis.classes /\ vis'.task = vis.task
  BY <1>1, <1>2 DEF VisType
<1>. QED  BY <1>1, <1>2, <1>3, <1>4, Stopped

LEMMA Scripts ==
  /\ Script("grasp") = <<"open", "reach", "close", "lift", "report">>
  /\ Script("release") = <<"open", "home", "report">>
  /\ \A a : Script(a) \in Seq(Steps)
<1>1. /\ Script("grasp") = <<"open", "reach", "close", "lift", "report">>
      /\ Script("release") = <<"open", "home", "report">>
      /\ \A a : Script(a) = Script("grasp") \/ Script(a) = Script("release")
  BY DEF Script
<1>2. /\ <<"open", "reach", "close", "lift", "report">> \in Seq(Steps)
      /\ <<"open", "home", "report">> \in Seq(Steps)
  BY DEF Steps
<1>. QED  BY <1>1, <1>2

LEMMA StepTypes == ASSUME TypeOK, NavRelay, Next PROVE TypeOK'
<1> USE DEF TypeOK
<1>0. UNCHANGED chan => ChanTyped(chan)'
  BY DEF ChanTyped
<1>t. {"vision_on", "target_position", "wheel_control", "navigate_over", "action_over"}
        \subseteq Topics
  BY DEF Topics
<1>1. CASE \E n \in Nodes : Start(n)
  BY <1>0, <1>1 DEF Start
<1>2. CASE \E r \in Classified : OnMessage(r)
  BY <1>0, <1>2 DEF OnMessage
<1>3. CASE VisionHears
  <2>1. vis' \in VisType
    BY <1>3, VisionHearsDoes
  <2>2. nodes' \in [Nodes -> {"down", "up", "dead"}]
    BY <1>3 DEF VisionHears, Dies
  <2>. QED  BY <1>0, <1>3, <2>1, <2>2 DEF VisionHears
<1>4. CASE NavigationHears
  BY <1>0, <1>4, NavigationHearsDoes DEF NavigationHears
<1>5. CASE Depart
  <2>1. CASE Destination \in AreaDict \cup {"target"}
    BY <1>0, <1>5, <2>1 DEF Depart, NavType, Bases, NoClass
  <2>2. CASE Destination \notin AreaDict \cup {"target"}
    BY <1>0, <1>5, <2>2 DEF Depart, Dies
  <2>. QED  BY <2>1, <2>2
<1>6. CASE \E well \in BOOLEAN : Arrive(well)
  <2>1. PICK well \in BOOLEAN : Arrive(well)
    BY <1>6
  <2>2. nav' \in NavType /\ ChanTyped(chan)'
    BY <2>1, ArriveDoes
  <2>3. world' \in [base : Bases, faces : Int, view : {"off", "centered", "near"}]
    BY <2>1 DEF Arrive, NavType, NoClass
  <2>. QED  BY <2>1, <2>2, <2>3 DEF Arrive
<1>7. CASE AskForGrasp
  <2>1. "grasp" \in Message["navigate_over"]
    BY DEF Message, Orders
  <2>2. ChanTyped(chan)'
    BY <1>7, <1>t, <2>1, Said DEF AskForGrasp
  <2>. QED  BY <1>7, <2>2 DEF AskForGrasp, NavType, NavStates
<1>8. CASE TargetCallback
  BY <1>8, TargetCallbackDoes DEF TargetCallback
<1>9. CASE ActionCallback
  <2>1. ChanTyped(chan)'
    BY <1>9, <1>t, Heard DEF ActionCallback
  <2>. QED  BY <1>9, <2>1 DEF ActionCallback, AfterAction, NavType, NavStates
<1>10. CASE NavCallback
  BY <1>10, NavCallbackDoes DEF NavCallback, Dies
<1>11. CASE SendTarget
  <2>1. <<vis.task, vis.target>> \in Message["target_position"]
    BY DEF Message, VisType
  <2>2. ChanTyped(chan)'
    BY <1>11, <1>t, <2>1, Said DEF SendTarget
  <2>. QED  BY <1>11, <2>2 DEF SendTarget, VisType
<1>12. CASE AlignFar
  <2>1. "2" \in Message["wheel_control"]
    BY DEF Message, Words
  <2>2. ChanTyped(chan)'
    BY <1>12, <1>t, <2>1, Said DEF AlignFar
  <2>. QED  BY <1>12, <2>2 DEF AlignFar
<1>13. CASE AlignNear
  BY <1>13, AlignNearDoes DEF AlignNear
<1>14. CASE Play
  <2>1. ChanTyped(chan)'
    BY <1>14, <1>t, Heard DEF Play
  <2>2. \A a : Script(a) \in Seq(Steps)
    BY Scripts
  <2>. QED  BY <1>14, <2>1, <2>2 DEF Play
<1>15. CASE PlayOn
  <2>. DEFINE step == Head(arm.steps)
  <2>1. arm.steps # <<>> /\ arm.steps \in Seq(Steps)
    BY <1>15 DEF PlayOn
  <2>2. Held(step) \in Int
    BY DEF Held, NoClass
  <2>3. arm' \in [steps : Seq(Steps), holds : Int]
    BY <1>15, <2>1, <2>2 DEF PlayOn
  <2>4. ChanTyped(chan)'
    <3>1. "1" \in Message["action_over"]
      BY DEF Message, Ends
    <3>. QED  BY <1>0, <1>t, <1>15, <3>1, Said DEF PlayOn
  <2>5. delivered' \in Seq(Int \X Bases)
    <3>1. <<arm.holds, world.base>> \in Int \X Bases
      OBVIOUS
    <3>. QED  BY <1>15, <3>1 DEF PlayOn
  <2>. QED  BY <1>15, <2>3, <2>4, <2>5 DEF PlayOn
<1>16. CASE WheelCallback
  <2>1. ChanTyped(chan)' /\ Hears("wheel_control")
    BY <1>16, <1>t, Heard DEF WheelCallback
  <2>2. wheel' \in Words
    BY <1>16, <2>1 DEF WheelCallback, Hears, Message
  <2>. QED  BY <1>16, <2>1, <2>2 DEF WheelCallback
<1>17. CASE Turn \/ TurnPast \/ Approach \/ Drift
  BY <1>0, <1>17 DEF Turn, TurnPast, Approach, Drift, Rolls
<1>. QED  BY <1>1, <1>2, <1>3, <1>4, <1>5, <1>6, <1>7, <1>8, <1>9, <1>10, <1>11, <1>12,
             <1>13, <1>14, <1>15, <1>16, <1>17 DEF Next

-----------------------------------------------------------------------------
(* One mover at a time.                                                    *)

\* What a topic that has grown, or is shorter, says last and contains.
LEMMA GrownLast ==
  ASSUME NEW S, NEW q \in Seq(S), NEW r \in Seq(S), NEW m, Grown(r, q, m)
  PROVE  r # <<>> /\ r[Len(r)] = m /\ (Len(q) = 0 => Len(r) <= 1)
<1>1. PICK d \in {0, 1} : Len(r) = Len(q) + 1 - d
  BY DEF Grown
<1>2. Len(q) \in Nat /\ Len(r) \in Nat /\ d \in Int
  BY <1>1
<1>. QED  BY <1>1, <1>2 DEF Grown

LEMMA ShorterLast ==
  ASSUME NEW S, NEW q \in Seq(S), NEW r \in Seq(S), Shorter(r, q), Len(q) >= 1
  PROVE  /\ IF r = <<>> THEN Len(q) = 1 ELSE Len(q) > 1 /\ r[Len(r)] = q[Len(q)]
         /\ Len(q) <= 1 => r = <<>>
<1>1. /\ Len(q) \in Nat /\ Len(r) = Len(q) - 1
      /\ \A i \in 1..Len(r) : r[i] = q[i + 1]
  BY DEF Shorter
<1>2. Len(r) \in Nat /\ (r = <<>> <=> Len(r) = 0)
  OBVIOUS
<1>. QED  BY <1>1, <1>2

LEMMA GrownKeeps ==
  ASSUME NEW S, NEW q \in Seq(S), NEW r \in Seq(S), NEW m, Grown(r, q, m), NEW x
  PROVE  /\ m # x /\ Among(r, x) => Among(q, x)
         /\ m # x /\ AtMostOne(q, x) => AtMostOne(r, x)
         /\ ~Among(q, x) => AtMostOne(r, x)
<1>1. PICK d \in {0, 1} : /\ Len(r) = Len(q) + 1 - d
                          /\ \A i \in 1..(Len(r) - 1) : r[i] = q[i + d]
  BY DEF Grown
<1>2. Len(q) \in Nat /\ Len(r) \in Nat /\ d \in Int
  BY <1>1
<1>3. r # <<>> /\ r[Len(r)] = m
  BY GrownLast
<1>4. \A i \in 1..(Len(r) - 1) : i + d \in 1..Len(q)
  BY <1>1, <1>2
<1>5. ASSUME m # x, Among(r, x) PROVE Among(q, x)
  <2>1. PICK i \in 1..Len(r) : r[i] = x
    BY <1>5 DEF Among
  <2>2. i \in 1..(Len(r) - 1)
    BY <1>2, <1>3, <1>5, <2>1
  <2>. QED  BY <1>1, <1>4, <2>1, <2>2 DEF Among
<1>6. ASSUME m # x, AtMostOne(q, x) PROVE AtMostOne(r, x)
  <2>1. ASSUME NEW i \in 1..Len(r), NEW j \in 1..Len(r), r[i] = x, r[j] = x PROVE i = j
    <3>1. i \in 1..(Len(r) - 1) /\ j \in 1..(Len(r) - 1)
      BY <1>2, <1>3, <1>6, <2>1
    <3>2. i + d = j + d
      BY <1>1, <1>4, <1>6, <2>1, <3>1 DEF AtMostOne
    <3>. QED  BY <1>2, <2>1, <3>2
  <2>. QED  BY <2>1 DEF AtMostOne
<1>7. ASSUME ~Among(q, x) PROVE AtMostOne(r, x)
  <2>1. ASSUME NEW i \in 1..Len(r), r[i] = x PROVE i = Len(r)
    <3>1. i \notin 1..(Len(r) - 1)
      BY <1>1, <1>4, <1>7, <2>1 DEF Among
    <3>. QED  BY <1>2, <2>1, <3>1
  <2>. QED  BY <2>1 DEF AtMostOne
<1>. QED  BY <1>5, <1>6, <1>7

LEMMA ShorterKeeps ==
  ASSUME NEW S, NEW q \in Seq(S), NEW r \in Seq(S), Shorter(r, q), Len(q) >= 1, NEW x
  PROVE  /\ Among(r, x) => Among(q, x)
         /\ AtMostOne(q, x) => AtMostOne(r, x)
         /\ AtMostOne(q, x) /\ q[1] = x => ~Among(r, x)
<1>1. /\ Len(q) \in Nat /\ Len(r) = Len(q) - 1
      /\ \A i \in 1..Len(r) : r[i] = q[i + 1] /\ i + 1 \in 1..Len(q)
  BY DEF Shorter
<1>2. Among(r, x) => Among(q, x)
  BY <1>1 DEF Among
<1>3. ASSUME AtMostOne(q, x) PROVE AtMostOne(r, x)
  <2>1. ASSUME NEW i \in 1..Len(r), NEW j \in 1..Len(r), r[i] = x, r[j] = x PROVE i = j
    <3>1. i + 1 = j + 1
      BY <1>1, <1>3, <2>1 DEF AtMostOne
    <3>. QED  BY <3>1
  <2>. QED  BY <2>1 DEF AtMostOne
<1>4. ASSUME AtMostOne(q, x), q[1] = x, NEW i \in 1..Len(r), r[i] = x PROVE FALSE
  <2>1. 1 \in 1..Len(q) /\ i + 1 \in 1..Len(q) /\ q[i + 1] = x
    BY <1>1, <1>4
  <2>2. i + 1 = 1
    BY <1>4, <2>1 DEF AtMostOne
  <2>. QED  BY <2>2
<1>. QED  BY <1>2, <1>3, <1>4 DEF Among

\* Only the node that dies changes its state.
LEMMA DiesAlone ==
  ASSUME TypeOK, NEW n \in Nodes, Dies(n)
  PROVE  \A k \in Nodes \ {n} : nodes'[k] = nodes[k]
BY DEF TypeOK, Dies

\* What leaves the arm's part, and the wheels', as it was.
LEMMA ArmAsideStep ==
  ASSUME ArmRelay, UNCHANGED arm,
         UNCHANGED <<chan["navigate_over"], chan["action_over"]>>,
         nav.state \in ArmWork => nav'.state \in ArmWork
  PROVE  ArmRelay'
BY DEF ArmRelay

LEMMA WheelAsideStep ==
  ASSUME WheelRelay, UNCHANGED wheel, vis'.correcting = vis.correcting,
         Up("wheel") => Up("wheel")', UNCHANGED chan["wheel_control"],
         Among(chan'["vision_on"], Correct) => ToCorrect,
         AtMostOne(chan'["vision_on"], Correct),
         Among(chan'["target_position"], Aligned) => Corrected,
         AtMostOne(chan'["target_position"], Aligned),
         nav.state = "GET_TARGET" => nav'.state = "GET_TARGET"
  PROVE  WheelRelay'
<1>1. Told' = Told
  BY DEF Told
<1>2. ToCorrect' => ToCorrect
  BY DEF ToCorrect, Among
<1>3. Corrected' => Corrected
  BY DEF Corrected, Among
<1>4. AtMostOne(chan["vision_on"], Correct)' /\ AtMostOne(chan["target_position"], Aligned)'
  BY DEF AtMostOne
<1>. QED  BY <1>1, <1>2, <1>3, <1>4 DEF WheelRelay
\* The channels' types, one topic at a time.
LEMMA TopicTypes ==
  ASSUME ChanTyped(chan)
  PROVE  /\ chan["vision_on"] \in Seq(Int)
         /\ chan["target_position"] \in Seq((Int \X Int) \cup {Aligned})
         /\ chan["wheel_control"] \in Seq(Words)
         /\ chan["navigate_over"] \in Seq(Orders)
         /\ chan["action_over"] \in Seq(Ends)
BY DEF ChanTyped, Topics, Message

\* Each handler hands the robot on, or leaves it where it is.
LEMMA StepRelay == ASSUME Relay, Next PROVE Relay'
<1>1. TypeOK /\ ArmRelay /\ WheelRelay /\ NavRelay
  BY DEF Relay
<1>2. TypeOK'
  BY <1>1, StepTypes
<1>3. nav \in NavType /\ vis \in VisType /\ ChanTyped(chan) /\ ChanTyped(chan)'
  BY <1>1, <1>2 DEF TypeOK
<1>. DEFINE von == chan["vision_on"]
            pos == chan["target_position"]
            wc == chan["wheel_control"]
            go == chan["navigate_over"]
            over == chan["action_over"]
<1>4. /\ von \in Seq(Int) /\ von' \in Seq(Int)
      /\ pos \in Seq((Int \X Int) \cup {Aligned}) /\ pos' \in Seq((Int \X Int) \cup {Aligned})
      /\ wc \in Seq(Words) /\ wc' \in Seq(Words)
      /\ go \in Seq(Orders) /\ go' \in Seq(Orders)
      /\ over \in Seq(Ends) /\ over' \in Seq(Ends)
  <2>1. ChanTyped(chan') 
    BY <1>3 DEF ChanTyped
  <2>. QED  BY <1>3, <2>1, TopicTypes DEF ChanTyped, Topics, Message
<1>5. AtMostOne(von, Correct) /\ AtMostOne(pos, Aligned)
  BY <1>1 DEF WheelRelay
<1>7. SUFFICES ArmRelay' /\ WheelRelay' /\ NavRelay'
  BY <1>2 DEF Relay
<1>6. ASSUME UNCHANGED <<nav, vis, arm, wheel, chan>>, Up("wheel") => Up("wheel")'
      PROVE  ArmRelay' /\ WheelRelay' /\ NavRelay'
  <2>1. ArmRelay'
    BY <1>1, <1>6, ArmAsideStep
  <2>2. WheelRelay'
    BY <1>1, <1>5, <1>6, WheelAsideStep DEF ToCorrect, Corrected
  <2>. QED  BY <1>1, <1>6, <2>1, <2>2 DEF NavRelay
<1>11. CASE \E n \in Nodes : Start(n)
  <2>1. PICK n \in Nodes : Start(n)
    BY <1>11
  <2>2. Up("wheel") => Up("wheel")'
    BY <1>1, <2>1 DEF Start, Up, TypeOK, Nodes
  <2>. QED  BY <1>6, <2>1, <2>2 DEF Start
<1>12. CASE \E r \in Classified : OnMessage(r)
  BY <1>6, <1>12 DEF OnMessage, Up
<1>13. CASE VisionHears
  <2>1. vis'.correcting = vis.correcting /\ UNCHANGED <<nav, arm, wheel, chan>>
    BY <1>1, <1>13, VisionHearsDoes DEF VisionHears
  <2>2. Up("wheel") => Up("wheel")'
    BY <1>1, <1>13, VisionHearsDoes, DiesAlone DEF Up, Nodes
  <2>3. ArmRelay'
    BY <1>1, <2>1, ArmAsideStep
  <2>4. WheelRelay'
    BY <1>1, <1>5, <2>1, <2>2, WheelAsideStep DEF ToCorrect, Corrected
  <2>. QED  BY <1>1, <2>1, <2>3, <2>4 DEF NavRelay
<1>14. CASE NavigationHears
  <2>1. UNCHANGED <<vis, arm, wheel, chan, nodes>>
    BY <1>14 DEF NavigationHears
  <2>2. /\ nav'.state = "TO_AREA" /\ nav'.command = target /\ nav'.task = 0
        /\ nav'.drive = nav.drive /\ nav.state = "WAITING" /\ target # Nothing
    BY <1>1, <1>14, NavigationHearsDoes, Kinds DEF NavRelay
  <2>3. ArmRelay'
    BY <1>1, <2>1, <2>2, ArmAsideStep DEF ArmWork
  <2>4. WheelRelay'
    BY <1>1, <1>5, <2>1, <2>2, WheelAsideStep DEF ToCorrect, Corrected, Up
  <2>. QED  BY <1>2, <2>2, <2>3, <2>4 DEF NavRelay, Driving
<1>15. CASE Depart
  <2>1. UNCHANGED <<vis, arm, wheel, chan>>
    BY <1>15 DEF Depart
  <2>2. CASE Destination \in AreaDict \cup {"target"}
    <3>1. /\ nav'.state = nav.state /\ nav'.command = nav.command /\ nav'.task = nav.task
          /\ nav.state \in Driving /\ nodes' = nodes
      BY <1>3, <1>15, <2>2 DEF Depart, NavType, Driving
    <3>2. ArmRelay'
      BY <1>1, <2>1, <3>1, ArmAsideStep
    <3>3. WheelRelay'
      BY <1>1, <1>5, <2>1, <3>1, WheelAsideStep DEF ToCorrect, Corrected, Up
    <3>. QED  BY <1>1, <3>1, <3>2, <3>3 DEF NavRelay
  <2>3. CASE Destination \notin AreaDict \cup {"target"}
    <3>1. Dies("navigation") /\ UNCHANGED nav
      BY <1>15, <2>3 DEF Depart
    <3>2. Up("wheel") => Up("wheel")'
      BY <1>1, <3>1, DiesAlone DEF Up, Nodes
    <3>. QED  BY <1>6, <2>1, <3>1, <3>2
  <2>. QED  BY <2>2, <2>3
<1>16. CASE \E well \in BOOLEAN : Arrive(well)
  <2>1. PICK well \in BOOLEAN : Arrive(well)
    BY <1>16
  <2>2. UNCHANGED <<vis, arm, wheel, nodes>>
    BY <2>1 DEF Arrive
  <2>3. /\ nav'.drive = Nowhere /\ nav'.command = nav.command
        /\ nav.state \in Driving /\ nav'.task \in {nav.task, nav.task + 1}
        /\ nav'.state \in {"GET_AREA", "GET_TARGET", "GET_ORIGIN"}
    BY <1>1, <2>1, ArriveDoes DEF Goes, Driving
  <2>4. NavRelay'
    BY <1>1, <1>3, <2>3 DEF NavRelay, NavType, Driving
  <2>5. /\ ~ToCorrect /\ ~vis.correcting /\ ~Corrected
        /\ arm.steps = <<>> /\ go = <<>> /\ over = <<>>
    BY <1>1, <2>3 DEF WheelRelay, ArmRelay, ArmWork, Driving
  <2>6. CASE /\ Goes("TO_AREA", "GET_AREA")
             /\ Only({"vision_on"}) /\ Says("vision_on", nav.task)
    <3>1. UNCHANGED <<go, over, pos, wc>>
      BY <2>6 DEF Only, Topics
    <3>2. nav.task # Correct
      BY <1>1, <1>3 DEF NavRelay, NavType, Correct
    <3>3. von' = von \/ Grown(von', von, nav.task)
      BY <2>6 DEF Says
    <3>4. (Among(von', Correct) => ToCorrect) /\ AtMostOne(von', Correct)
      BY <1>4, <1>5, <3>2, <3>3, GrownKeeps DEF ToCorrect
    <3>5. ArmRelay'
      BY <1>1, <2>2, <2>5, <3>1 DEF ArmRelay
    <3>6. WheelRelay'
      BY <1>1, <1>5, <2>2, <2>6, <3>1, <3>4, WheelAsideStep DEF Corrected, Goes, Up
    <3>. QED  BY <2>4, <3>5, <3>6
  <2>7. CASE /\ Goes("TO_TARGET", "GET_TARGET")
             /\ Only({"vision_on"}) /\ Says("vision_on", Correct)
    <3>1. UNCHANGED <<go, over, pos, wc>>
      BY <2>7 DEF Only, Topics
    <3>2. von' = von \/ Grown(von', von, Correct)
      BY <2>7 DEF Says
    <3>3. AtMostOne(von', Correct)
      BY <1>4, <1>5, <2>5, <3>2, GrownKeeps DEF ToCorrect
    <3>4. ArmRelay'
      BY <1>1, <2>2, <2>5, <3>1 DEF ArmRelay
    <3>5. nav'.state = "GET_TARGET" /\ ~vis'.correcting /\ ~Corrected' /\ Told' = Told
      BY <2>2, <2>5, <2>7, <3>1 DEF Goes, Corrected, Told
    <3>6. WheelRelay'
      BY <1>1, <1>5, <2>2, <3>1, <3>3, <3>5 DEF WheelRelay, Up
    <3>. QED  BY <2>4, <3>4, <3>6
  <2>8. CASE /\ Goes("TO_ORIGIN", "GET_ORIGIN")
             /\ Only({"navigate_over"}) /\ Says("navigate_over", "release")
    <3>1. UNCHANGED <<von, over, pos, wc>>
      BY <2>8 DEF Only, Topics
    <3>2. go' = go \/ Grown(go', go, "release")
      BY <2>8 DEF Says
    <3>3. Len(go') <= 1
      <4>1. CASE go' = go
        BY <1>1, <4>1 DEF ArmRelay
      <4>2. CASE Grown(go', go, "release")
        <5>1. Len(go) = 0
          BY <2>5
        <5>. QED  BY <1>4, <4>2, <5>1, GrownLast
      <4>. QED  BY <3>2, <4>1, <4>2
    <3>4. ArmRelay'
      BY <1>1, <2>2, <2>5, <2>8, <3>1, <3>3 DEF ArmRelay, Goes, ArmWork
    <3>5. WheelRelay'
      BY <1>1, <1>5, <2>2, <2>8, <3>1, WheelAsideStep DEF ToCorrect, Corrected, Goes, Up
    <3>. QED  BY <2>4, <3>4, <3>5
  <2>. QED  BY <1>1, <2>1, <2>6, <2>7, <2>8, ArriveDoes
<1>17. CASE AskForGrasp
  <2>1. /\ UNCHANGED <<vis, wheel, nodes, arm>> /\ nav.state = "GET_CORRECT"
        /\ nav'.state = "GRASP" /\ nav'.drive = nav.drive /\ nav'.command = nav.command
        /\ nav'.task = nav.task /\ nav.drive = Nowhere
    BY <1>3, <1>17 DEF AskForGrasp, NavType, Working, Listening
  <2>2. Only({"navigate_over"}) /\ Says("navigate_over", "grasp")
    <3>1. "navigate_over" \in Topics /\ "grasp" \in Message["navigate_over"]
      BY DEF Topics, Message, Orders
    <3>. QED  BY <1>3, <1>17, <3>1, Said DEF AskForGrasp
  <2>3. UNCHANGED <<von, over, pos, wc>>
    BY <2>2 DEF Only, Topics
  <2>4. arm.steps = <<>> /\ go = <<>> /\ over = <<>>
    BY <1>1, <2>1 DEF ArmRelay, ArmWork
  <2>5. go' = go \/ Grown(go', go, "grasp")
    BY <2>2 DEF Says
  <2>6. Len(go') <= 1
    <3>1. CASE go' = go
      BY <1>1, <3>1 DEF ArmRelay
    <3>2. CASE Grown(go', go, "grasp")
      <4>1. Len(go) = 0
        BY <2>4
      <4>. QED  BY <1>4, <3>2, <4>1, GrownLast
    <3>. QED  BY <2>5, <3>1, <3>2
  <2>7. ArmRelay'
    BY <1>1, <2>1, <2>3, <2>4, <2>6 DEF ArmRelay, ArmWork
  <2>8. WheelRelay'
    BY <1>1, <1>5, <2>1, <2>3, WheelAsideStep DEF ToCorrect, Corrected, Up
  <2>. QED  BY <1>1, <2>1, <2>7, <2>8 DEF NavRelay
<1>18. CASE TargetCallback
  <2>. DEFINE m == pos[1]
  <2>1. UNCHANGED <<vis, wheel, nodes, arm>>
    BY <1>18 DEF TargetCallback
  <2>2. /\ nav'.drive = Nowhere /\ nav'.command = nav.command /\ nav'.task = nav.task
        /\ Only({"target_position"}) /\ Hears("target_position")
        /\ \/ m = Aligned /\ Goes("GET_TARGET", "GET_CORRECT")
           \/ Goes("GET_AREA", "TO_TARGET")
           \/ nav' = nav
    BY <1>1, <1>18, TargetCallbackDoes
  <2>3. UNCHANGED <<von, over, go, wc>>
    BY <2>2 DEF Only, Topics
  <2>4. /\ Among(pos', Aligned) => Corrected
        /\ AtMostOne(pos', Aligned)
        /\ m = Aligned => ~Among(pos', Aligned) /\ Corrected
    <3>1. Shorter(pos', pos) /\ Len(pos) >= 1
      BY <2>2 DEF Hears
    <3>2. m = Aligned => Corrected
      BY <3>1 DEF Corrected, Among
    <3>. QED  BY <1>4, <1>5, <3>1, <3>2, ShorterKeeps DEF Corrected
  <2>5. nav.state \in ArmWork => nav'.state \in ArmWork
    BY <2>2 DEF Goes, ArmWork
  <2>6. ArmRelay'
    BY <1>1, <2>1, <2>3, <2>5, ArmAsideStep
  <2>7. NavRelay'
    BY <1>1, <2>2 DEF NavRelay, Goes
  <2>8. CASE m = Aligned /\ Goes("GET_TARGET", "GET_CORRECT")
    <3>1. ~Corrected' /\ ~ToCorrect' /\ ~vis'.correcting /\ Told' = Told
      BY <1>1, <2>1, <2>3, <2>4, <2>8 DEF WheelRelay, Corrected, ToCorrect, Told
    <3>2. WheelRelay'
      BY <1>1, <1>5, <2>1, <2>3, <2>4, <3>1 DEF WheelRelay, Up
    <3>. QED  BY <2>6, <2>7, <3>2
  <2>9. CASE Goes("GET_AREA", "TO_TARGET") \/ nav' = nav
    <3>1. nav.state = "GET_TARGET" => nav'.state = "GET_TARGET"
      BY <2>9 DEF Goes
    <3>2. WheelRelay'
      BY <1>1, <1>5, <2>1, <2>3, <2>4, <3>1, WheelAsideStep DEF ToCorrect, Up
    <3>. QED  BY <2>6, <2>7, <3>2
  <2>. QED  BY <2>2, <2>8, <2>9
<1>19. CASE ActionCallback
  <2>1. /\ UNCHANGED <<vis, wheel, nodes, arm>> /\ nav.drive = Nowhere
        /\ nav'.state = AfterAction(nav.state)
        /\ nav'.drive = nav.drive /\ nav'.command = nav.command /\ nav'.task = nav.task
    BY <1>3, <1>19 DEF ActionCallback, NavType, Listening
  <2>2. Only({"action_over"}) /\ Hears("action_over") /\ over # <<>>
    <3>1. "action_over" \in Topics
      BY DEF Topics
    <3>. QED  BY <1>3, <1>19, <3>1, Heard DEF ActionCallback, Receives
  <2>3. UNCHANGED <<von, pos, go, wc>>
    BY <2>2 DEF Only, Topics
  <2>4. arm.steps = <<>> /\ go = <<>> /\ Len(over) <= 1 /\ nav.state \in ArmWork
    BY <1>1, <2>2 DEF ArmRelay
  <2>5. over' = <<>>
    <3>1. Shorter(over', over) /\ Len(over) >= 1
      BY <2>2 DEF Hears
    <3>. QED  BY <1>4, <2>4, <3>1, ShorterLast
  <2>6. ArmRelay'
    BY <1>1, <2>1, <2>3, <2>4, <2>5 DEF ArmRelay
  <2>7. nav'.state \in {"TO_ORIGIN", "TO_AREA"}
    BY <2>1, <2>4 DEF AfterAction, ArmWork
  <2>8. WheelRelay'
    BY <1>1, <1>5, <2>1, <2>3, <2>4, WheelAsideStep DEF ToCorrect, Corrected, Up, ArmWork
  <2>9. NavRelay'
    BY <1>1, <2>1, <2>4, <2>7 DEF NavRelay, Driving, ArmWork
  <2>. QED  BY <2>6, <2>8, <2>9
<1>20. CASE NavCallback
  <2>. DEFINE m == von[1]
  <2>1. UNCHANGED <<nav, wheel, arm>>
    BY <1>20 DEF NavCallback
  <2>2. Hears("vision_on")
    BY <1>1, <1>20, NavCallbackDoes
  <2>3. /\ Among(von', Correct) => ToCorrect
        /\ AtMostOne(von', Correct)
        /\ m = Correct => ~Among(von', Correct) /\ ToCorrect
    <3>1. Shorter(von', von) /\ Len(von) >= 1
      BY <2>2 DEF Hears
    <3>2. m = Correct => ToCorrect
      BY <3>1 DEF ToCorrect, Among
    <3>. QED  BY <1>4, <1>5, <3>1, <3>2, ShorterKeeps DEF ToCorrect
  <2>4. CASE /\ m = Correct /\ vis'.correcting = TRUE /\ nodes' = nodes
             /\ Only({"vision_on", "wheel_control"}) /\ Says("wheel_control", "1")
    <3>1. UNCHANGED <<pos, over, go>>
      BY <2>4 DEF Only, Topics
    <3>2. ArmRelay'
      BY <1>1, <2>1, <3>1, ArmAsideStep
    <3>3. nav'.state = "GET_TARGET" /\ ~Corrected' /\ ~ToCorrect'
      BY <1>1, <2>1, <2>3, <2>4, <3>1 DEF WheelRelay, Corrected, ToCorrect
    <3>4. ~Up("wheel") => wc' = wc
      BY <2>4 DEF Says, Subscriber
    <3>5. WheelRelay'
      BY <1>1, <1>5, <2>1, <2>3, <2>4, <3>1, <3>3, <3>4 DEF WheelRelay, Up
    <3>. QED  BY <1>1, <2>1, <3>2, <3>5 DEF NavRelay
  <2>5. CASE /\ m # Correct /\ vis'.correcting = vis.correcting /\ Only({"vision_on"})
             /\ nodes' = nodes \/ Dies("vision")
    <3>1. UNCHANGED <<pos, over, go, wc>>
      BY <2>5 DEF Only, Topics
    <3>2. ArmRelay'
      BY <1>1, <2>1, <3>1, ArmAsideStep
    <3>3. Up("wheel") => Up("wheel")'
      BY <1>1, <2>5, DiesAlone DEF Up, Nodes
    <3>4. WheelRelay'
      BY <1>1, <1>5, <2>1, <2>3, <2>5, <3>1, <3>3, WheelAsideStep DEF Corrected
    <3>. QED  BY <1>1, <2>1, <3>2, <3>4 DEF NavRelay
  <2>. QED  BY <1>1, <1>20, <2>4, <2>5, NavCallbackDoes
<1>21. CASE SendTarget
  <2>1. UNCHANGED <<nav, wheel, arm, nodes>> /\ vis'.correcting = vis.correcting
    BY <1>3, <1>21 DEF SendTarget, VisType
  <2>. DEFINE m == <<vis.task, vis.target>>
  <2>2. Only({"target_position"}) /\ Says("target_position", m) /\ m # Aligned
    <3>1. "target_position" \in Topics /\ m \in Int \X Int
      BY <1>3 DEF Topics, VisType
    <3>2. m \in Message["target_position"]
      BY <3>1 DEF Message
    <3>3. m # Aligned
      BY DEF Aligned
    <3>. QED  BY <1>3, <1>21, <3>1, <3>2, <3>3, Said DEF SendTarget
  <2>3. UNCHANGED <<von, over, go, wc>>
    BY <2>2 DEF Only, Topics
  <2>4. pos' = pos \/ Grown(pos', pos, m)
    BY <2>2 DEF Says
  <2>5. (Among(pos', Aligned) => Corrected) /\ AtMostOne(pos', Aligned)
    BY <1>4, <1>5, <2>2, <2>4, GrownKeeps DEF Corrected
  <2>6. ArmRelay'
    BY <1>1, <2>1, <2>3, ArmAsideStep
  <2>7. WheelRelay'
    BY <1>1, <1>5, <2>1, <2>3, <2>5, WheelAsideStep DEF ToCorrect, Up
  <2>. QED  BY <1>1, <2>1, <2>6, <2>7 DEF NavRelay
<1>22. CASE AlignFar
  <2>1. UNCHANGED <<nav, vis, wheel, arm, nodes>> /\ vis.correcting
    BY <1>22 DEF AlignFar
  <2>2. Only({"wheel_control"}) /\ Says("wheel_control", "2")
    <3>1. "wheel_control" \in Topics /\ "2" \in Message["wheel_control"]
      BY DEF Topics, Message, Words
    <3>. QED  BY <1>3, <1>22, <3>1, Said DEF AlignFar
  <2>3. UNCHANGED <<von, over, go, pos>> /\ (~Up("wheel") => wc' = wc)
    BY <2>2 DEF Only, Topics, Says, Subscriber
  <2>4. ArmRelay'
    BY <1>1, <2>1, <2>3, ArmAsideStep
  <2>5. (ToCorrect' <=> ToCorrect) /\ (Corrected' <=> Corrected)
    BY <2>3 DEF ToCorrect, Corrected
  <2>6. WheelRelay'
    BY <1>1, <1>5, <2>1, <2>3, <2>5 DEF WheelRelay, Up
  <2>. QED  BY <1>1, <2>1, <2>4, <2>6 DEF NavRelay
<1>23. CASE AlignNear
  <2>1. UNCHANGED <<nav, wheel, arm, nodes>>
    BY <1>23 DEF AlignNear
  <2>2. /\ ~vis'.correcting /\ vis.correcting
        /\ Only({"wheel_control", "target_position"})
        /\ Says("wheel_control", "0") /\ Says("target_position", Aligned)
    BY <1>1, <1>23, AlignNearDoes
  <2>3. UNCHANGED <<von, over, go>> /\ (~Up("wheel") => wc' = wc)
    BY <2>2 DEF Only, Topics, Says, Subscriber
  <2>4. nav.state = "GET_TARGET" /\ ~Corrected /\ ~ToCorrect /\ ~ToCorrect'
    BY <1>1, <2>2, <2>3 DEF WheelRelay, ToCorrect
  <2>5. AtMostOne(pos', Aligned)
    <3>1. pos' = pos \/ Grown(pos', pos, Aligned)
      BY <2>2 DEF Says
    <3>. QED  BY <1>4, <1>5, <2>4, <3>1, GrownKeeps DEF Corrected
  <2>6. Told' = "0"
    <3>1. CASE Up("wheel")
      <4>1. Grown(wc', wc, "0")
        BY <2>2, <3>1 DEF Says, Subscriber
      <4>2. wc' # <<>> /\ wc'[Len(wc')] = "0"
        BY <1>4, <4>1, GrownLast
      <4>. QED  BY <4>2 DEF Told
    <3>2. CASE ~Up("wheel")
      BY <1>1, <2>1, <2>3, <3>2 DEF Told, WheelRelay
    <3>. QED  BY <3>1, <3>2
  <2>7. ArmRelay'
    BY <1>1, <2>1, <2>3, ArmAsideStep
  <2>8. WheelRelay'
    BY <1>1, <1>5, <2>1, <2>2, <2>3, <2>4, <2>5, <2>6 DEF WheelRelay, Up
  <2>. QED  BY <1>1, <2>1, <2>7, <2>8 DEF NavRelay
<1>24. CASE Play
  <2>1. UNCHANGED <<nav, vis, wheel, nodes>> /\ arm.steps = <<>> /\ go # <<>>
    BY <1>24 DEF Play, Receives
  <2>2. Only({"navigate_over"}) /\ Hears("navigate_over")
    <3>1. "navigate_over" \in Topics
      BY DEF Topics
    <3>. QED  BY <1>3, <1>24, <3>1, Heard DEF Play
  <2>3. UNCHANGED <<von, over, pos, wc>>
    BY <2>2 DEF Only, Topics
  <2>4. over = <<>> /\ Len(go) <= 1 /\ nav.state \in ArmWork
    BY <1>1, <2>1 DEF ArmRelay
  <2>5. go' = <<>>
    <3>1. Shorter(go', go) /\ Len(go) >= 1
      BY <2>2 DEF Hears
    <3>. QED  BY <1>4, <2>4, <3>1, ShorterLast
  <2>6. \A i \in 1..(Len(arm'.steps) - 1) : arm'.steps[i] # "report"
    <3>1. \E a : arm'.steps = Script(a)
      BY <1>1, <1>24 DEF Play, TypeOK
    <3>2. arm'.steps = Script("grasp") \/ arm'.steps = Script("release")
      BY <3>1 DEF Script
    <3>3. CASE arm'.steps = <<"open", "reach", "close", "lift", "report">>
      BY <3>3
    <3>4. CASE arm'.steps = <<"open", "home", "report">>
      BY <3>4
    <3>. QED  BY <3>2, <3>3, <3>4, Scripts
  <2>7. ArmRelay'
    BY <1>1, <2>1, <2>3, <2>4, <2>5, <2>6 DEF ArmRelay
  <2>8. WheelRelay'
    BY <1>1, <1>5, <2>1, <2>3, WheelAsideStep DEF ToCorrect, Corrected, Up
  <2>. QED  BY <1>1, <2>1, <2>7, <2>8 DEF NavRelay
<1>25. CASE PlayOn
  <2>. DEFINE steps == arm.steps
  <2>1. /\ UNCHANGED <<nav, vis, wheel, nodes>> /\ steps # <<>> /\ arm'.steps = Tail(steps)
        /\ steps \in Seq(Steps)
    BY <1>1, <1>25 DEF PlayOn, TypeOK
  <2>2. IF Head(steps) = "report" THEN Only({"action_over"}) /\ Says("action_over", "1")
                                  ELSE UNCHANGED chan
    <3>1. "action_over" \in Topics /\ "1" \in Message["action_over"]
      BY DEF Topics, Message, Ends
    <3>. QED  BY <1>3, <1>25, <3>1, Said DEF PlayOn
  <2>3. UNCHANGED <<von, go, pos, wc>>
    BY <2>2 DEF Only, Topics
  <2>4. go = <<>> /\ over = <<>> /\ nav.state \in ArmWork
    BY <1>1, <2>1 DEF ArmRelay
  <2>5. /\ Len(steps) >= 1 /\ Head(steps) = steps[1] /\ Len(arm'.steps) = Len(steps) - 1
        /\ \A i \in 1..Len(arm'.steps) : arm'.steps[i] = steps[i + 1]
    <3>. HIDE DEF steps
    <3>. QED  BY <2>1
  <2>6. \A i \in 1..(Len(arm'.steps) - 1) : arm'.steps[i] # "report"
    BY <1>1, <2>1, <2>5 DEF ArmRelay
  <2>7. Len(over') <= 1
    <3>1. CASE over' = over
      BY <1>1, <3>1 DEF ArmRelay
    <3>2. CASE Grown(over', over, "1")
      <4>1. Len(over) = 0
        BY <2>4
      <4>. QED  BY <1>4, <3>2, <4>1, GrownLast
    <3>. QED  BY <2>2, <3>1, <3>2 DEF Says
  <2>8. over' # <<>> => arm'.steps = <<>>
    <3>1. over' # <<>> => Head(steps) = "report"
      BY <2>2, <2>4
    <3>2. Head(steps) = "report" => Len(steps) = 1
      <4>1. \A i \in 1..(Len(steps) - 1) : steps[i] # "report"
        BY <1>1 DEF ArmRelay
      <4>. HIDE DEF steps
      <4>. QED  BY <2>1, <2>5, <4>1
    <3>3. Len(arm'.steps) = 0 => arm'.steps = <<>>
      <4>1. arm'.steps \in Seq(Steps)
        BY <1>2 DEF TypeOK
      <4>. QED  BY <4>1
    <3>. QED  BY <2>5, <3>1, <3>2, <3>3
  <2>9. ArmRelay'
    BY <2>1, <2>3, <2>4, <2>6, <2>7, <2>8 DEF ArmRelay
  <2>10. WheelRelay'
    BY <1>1, <1>5, <2>1, <2>3, WheelAsideStep DEF ToCorrect, Corrected, Up
  <2>. QED  BY <1>1, <2>1, <2>9, <2>10 DEF NavRelay
<1>26. CASE WheelCallback
  <2>1. UNCHANGED <<nav, vis, arm, nodes>> /\ wheel' = Head(wc) /\ wc # <<>> /\ Up("wheel")
    BY <1>26 DEF WheelCallback, Receives, Subscriber
  <2>2. Only({"wheel_control"}) /\ Hears("wheel_control")
    <3>1. "wheel_control" \in Topics
      BY DEF Topics
    <3>. QED  BY <1>3, <1>26, <3>1, Heard DEF WheelCallback
  <2>3. UNCHANGED <<von, go, pos, over>>
    BY <2>2 DEF Only, Topics
  <2>4. Told' = Told
    <3>1. /\ IF wc' = <<>> THEN Len(wc) = 1 ELSE Len(wc) > 1 /\ wc'[Len(wc')] = wc[Len(wc)]
          /\ Head(wc) = wc[1]
      <4>1. Shorter(wc', wc) /\ Len(wc) >= 1 /\ Head(wc) = wc[1]
        BY <2>2 DEF Hears
      <4>. QED  BY <1>4, <4>1, ShorterLast
    <3>. QED  BY <2>1, <3>1 DEF Told
  <2>5. ArmRelay'
    BY <1>1, <2>1, <2>3, ArmAsideStep
  <2>6. (ToCorrect' <=> ToCorrect) /\ (Corrected' <=> Corrected)
    BY <2>3 DEF ToCorrect, Corrected
  <2>7. WheelRelay'
    BY <1>1, <1>5, <2>1, <2>3, <2>4, <2>6 DEF WheelRelay, Up
  <2>. QED  BY <1>1, <2>1, <2>5, <2>7 DEF NavRelay
<1>27. CASE Turn \/ TurnPast \/ Approach \/ Drift
  BY <1>6, <1>27 DEF Turn, TurnPast, Approach, Drift, Rolls, Up
<1>. QED  BY <1>11, <1>12, <1>13, <1>14, <1>15, <1>16, <1>17, <1>18, <1>19, <1>20, <1>21,
             <1>22, <1>23, <1>24, <1>25, <1>26, <1>27 DEF Next

LEMMA StartRelay == Init => Relay
<1> SUFFICES ASSUME Init PROVE Relay
  OBVIOUS
<1>1. TypeOK
  BY TypesStart
<1>2. /\ \A t \in Topics : chan[t] = <<>>
      /\ {"vision_on", "target_position", "wheel_control", "navigate_over", "action_over"}
           \subseteq Topics
  BY DEF Init, Topics
<1>3. \A x : ~Among(<<>>, x) /\ AtMostOne(<<>>, x)
  BY DEF Among, AtMostOne
<1>4. ArmRelay
  BY <1>2 DEF Init, ArmRelay
<1>5. WheelRelay
  BY <1>2, <1>3 DEF Init, WheelRelay, ToCorrect, Corrected, Told
<1>6. NavRelay
  BY DEF Init, NavRelay
<1>. QED  BY <1>1, <1>4, <1>5, <1>6 DEF Relay

LEMMA RelayStutters == ASSUME Relay, UNCHANGED vars PROVE Relay'
BY DEF vars, Relay, TypeOK, ChanTyped, ArmRelay, WheelRelay, NavRelay, ToCorrect, Corrected,
       Among, AtMostOne, Told, Up

\* Whoever is told to move the robot has the state of navigation to itself.
LEMMA RelayIsExclusive == Relay => OneMoverAtATime
<1> SUFFICES ASSUME Relay PROVE OneMoverAtATime
  OBVIOUS
<1>1. nav.drive # Nowhere => nav.state \in Driving
  BY DEF Relay, NavRelay
<1>2. arm.steps # <<>> \/ chan["navigate_over"] # <<>> => nav.state \in ArmWork
  BY DEF Relay, ArmRelay
<1>3. Told # "0" => nav.state = "GET_TARGET"
  BY DEF Relay, WheelRelay
<1>. QED  BY <1>1, <1>2, <1>3 DEF OneMoverAtATime, Movers, Driving, ArmWork

\* The navigator, the arm and the wheels are never told to move the robot at
\* the same time (navigate.py:135-174, image_detection.py:97-150,
\* move_arm.py:47-63), whatever message is lost, whichever node dies and
\* wherever a drive ends: each of them is given the robot by a message that is
\* sent once, in a state of navigation that waits for its answer.
THEOREM OneMover == Spec => []OneMoverAtATime
<1>1. Init => Relay
  BY StartRelay
<1>2. Relay /\ [Next]_vars => Relay'
  BY StepRelay, RelayStutters
<1>3. Relay => OneMoverAtATime
  BY RelayIsExclusive
<1>. QED  BY <1>1, <1>2, <1>3, PTL DEF Spec

-----------------------------------------------------------------------------
(* Agreement on the task.                                                  *)

\* Where the messages of a topic that has grown, or is shorter, come from.
LEMMA GrownComes ==
  ASSUME NEW S, NEW q \in Seq(S), NEW r \in Seq(S), NEW m, Grown(r, q, m), NEW i \in 1..Len(r)
  PROVE  r[i] = m \/ \E j \in 1..Len(q) : r[i] = q[j]
<1>1. PICK d \in {0, 1} : /\ Len(r) = Len(q) + 1 - d
                          /\ \A k \in 1..(Len(r) - 1) : r[k] = q[k + d]
  BY DEF Grown
<1>2. Len(q) \in Nat /\ Len(r) \in Nat /\ d \in Int
  BY <1>1
<1>3. i = Len(r) => r[i] = m
  BY DEF Grown
<1>4. ASSUME i # Len(r) PROVE r[i] = q[i + d] /\ i + d \in 1..Len(q)
  <2>1. i \in 1..(Len(r) - 1)
    BY <1>2, <1>4
  <2>2. r[i] = q[i + d]
    BY <1>1, <2>1
  <2>3. i + d \in 1..Len(q)
    <3>1. Len(r) = Len(q) + 1 - d /\ i <= Len(r) - 1 /\ i >= 1 /\ i \in Int
      BY <1>1, <1>2, <2>1
    <3>2. d = 0 \/ d = 1
      BY <1>1
    <3>. QED  BY <1>2, <3>1, <3>2
  <2>. QED  BY <2>2, <2>3
<1>. QED  BY <1>3, <1>4

LEMMA ShorterComes ==
  ASSUME NEW S, NEW q \in Seq(S), NEW r \in Seq(S), Shorter(r, q), NEW i \in 1..Len(r)
  PROVE  \E j \in 1..Len(q) : r[i] = q[j]
<1>1. /\ Len(q) \in Nat /\ Len(r) = Len(q) - 1 /\ r[i] = q[i + 1]
  BY DEF Shorter
<1>2. i + 1 \in 1..Len(q)
  BY <1>1
<1>. QED  BY <1>1, <1>2

\* Task numbers stay in order: a later one is appended, the earliest is read.
LEMMA OrderedGrown ==
  ASSUME NEW q \in Seq(Int), NEW r \in Seq(Int), NEW m \in Int, Grown(r, q, m),
         NEW low \in Int, NEW high \in Int, Ordered(q, low, high),
         NEW top \in Int, top >= high,
         m = Correct \/ (m > low /\ m > high /\ m <= top)
  PROVE  Ordered(r, low, top)
<1>1. PICK d \in {0, 1} : /\ Len(r) = Len(q) + 1 - d
                          /\ \A k \in 1..(Len(r) - 1) : r[k] = q[k + d]
  BY DEF Grown
<1>2. Len(q) \in Nat /\ Len(r) \in Nat /\ d \in Int /\ r[Len(r)] = m
  BY <1>1 DEF Grown
<1>3. ASSUME NEW i \in 1..Len(r), i # Len(r) PROVE r[i] = q[i + d] /\ i + d \in 1..Len(q)
  <2>1. i \in 1..(Len(r) - 1)
    BY <1>2, <1>3
  <2>2. r[i] = q[i + d]
    BY <1>1, <2>1
  <2>3. i + d \in 1..Len(q)
    <3>1. Len(r) = Len(q) + 1 - d /\ i <= Len(r) - 1 /\ i >= 1 /\ i \in Int
      BY <1>1, <1>2, <2>1
    <3>2. d = 0 \/ d = 1
      BY <1>1
    <3>. QED  BY <1>2, <3>1, <3>2
  <2>. QED  BY <2>2, <2>3
<1>4. \A j \in 1..Len(q) : q[j] \in Int
  OBVIOUS
<1>5. ASSUME NEW i \in 1..Len(r), r[i] # Correct PROVE r[i] > low /\ r[i] <= top
  <2>1. CASE i = Len(r)
    BY <1>2, <1>5, <2>1
  <2>2. CASE i # Len(r)
    <3>1. q[i + d] > low /\ q[i + d] <= high /\ q[i + d] \in Int /\ r[i] = q[i + d]
      BY <1>3, <1>4, <1>5, <2>2 DEF Ordered
    <3>. QED  BY <3>1
  <2>. QED  BY <2>1, <2>2
<1>6. ASSUME NEW i \in 1..Len(r), NEW j \in 1..Len(r), i < j, r[i] # Correct, r[j] # Correct
      PROVE  r[i] < r[j]
  <2>0. i # Len(r)
    BY <1>2, <1>6
  <2>1. CASE j = Len(r)
    <3>1. q[i + d] <= high /\ q[i + d] \in Int /\ r[i] = q[i + d]
      BY <1>3, <1>4, <1>6, <2>0 DEF Ordered
    <3>. QED  BY <1>2, <1>6, <2>1, <3>1
  <2>2. CASE j # Len(r)
    <3>1. i + d < j + d
      BY <1>2, <1>6
    <3>. QED  BY <1>3, <1>6, <2>0, <2>2, <3>1 DEF Ordered
  <2>. QED  BY <2>1, <2>2
<1>. QED  BY <1>5, <1>6 DEF Ordered

LEMMA OrderedShorter ==
  ASSUME NEW q \in Seq(Int), NEW r \in Seq(Int), Shorter(r, q), Len(q) >= 1,
         NEW low \in Int, NEW high \in Int, Ordered(q, low, high)
  PROVE  /\ Ordered(r, low, high)
         /\ q[1] # Correct => q[1] > low /\ q[1] <= high /\ Ordered(r, q[1], high)
<1>1. /\ Len(q) \in Nat /\ Len(r) \in Nat
      /\ \A i \in 1..Len(r) : r[i] = q[i + 1] /\ i + 1 \in 1..Len(q) /\ 1 < i + 1
  BY DEF Shorter
<1>2. 1 \in 1..Len(q)
  BY <1>1
<1>3. \A i \in 1..Len(r) : r[i] # Correct => r[i] > low /\ r[i] <= high
  BY <1>1 DEF Ordered
<1>4. ASSUME NEW i \in 1..Len(r), NEW j \in 1..Len(r), i < j, r[i] # Correct, r[j] # Correct
      PROVE  r[i] < r[j]
  <2>1. i + 1 < j + 1
    BY <1>4
  <2>. QED  BY <1>1, <1>4, <2>1 DEF Ordered
<1>5. ASSUME q[1] # Correct
      PROVE  /\ q[1] > low /\ q[1] <= high
             /\ \A i \in 1..Len(r) : r[i] # Correct => r[i] > q[1]
  <2>1. q[1] > low /\ q[1] <= high
    BY <1>2, <1>5 DEF Ordered
  <2>2. ASSUME NEW i \in 1..Len(r), r[i] # Correct PROVE q[1] < r[i]
    BY <1>1, <1>2, <1>5, <2>2 DEF Ordered
  <2>3. \A i \in 1..Len(r) : r[i] \in Int /\ q[1] \in Int
    BY <1>2
  <2>. QED  BY <2>1, <2>2, <2>3
<1>. QED  BY <1>3, <1>4, <1>5 DEF Ordered

LEMMA OrderedHigher ==
  ASSUME NEW q \in Seq(Int), NEW low \in Int, NEW high \in Int, Ordered(q, low, high),
         NEW top \in Int, top >= high
  PROVE  Ordered(q, low, top)
<1>1. \A j \in 1..Len(q) : q[j] \in Int
  OBVIOUS
<1>. QED  BY <1>1 DEF Ordered

LEMMA StartAgreement == Init => Agreement
<1> SUFFICES ASSUME Init PROVE Agreement
  OBVIOUS
<1>1. \A t \in Topics : chan[t] = <<>>
  BY DEF Init
<1>2. chan["vision_on"] = <<>> /\ chan["target_position"] = <<>>
  BY <1>1 DEF Topics
<1>3. Command
  BY DEF Init, Command
<1>4. VisionTask
  BY <1>2 DEF Init, VisionTask, Ordered, Early, Latest
<1>5. PositionsAreRight
  BY <1>2 DEF PositionsAreRight
<1>6. Pursuit
  BY <1>2 DEF Init, Pursuit, After, ToCorrect, Among
<1>. QED  BY <1>3, <1>4, <1>5, <1>6 DEF Agreement

\* What changes neither navigation nor vision nor what is on its way to them.
LEMMA AgreementAside ==
  ASSUME Agreement, UNCHANGED <<target, nav, vis>>, Up("voice") => Up("voice")',
         UNCHANGED <<chan["vision_on"], chan["target_position"]>>
  PROVE  Agreement'
<1>1. Command'
  BY DEF Agreement, Command
<1>2. VisionTask'
  BY DEF Agreement, VisionTask, Ordered, Latest
<1>3. PositionsAreRight'
  BY DEF Agreement, PositionsAreRight, Right
<1>4. Pursuit'
  BY DEF Agreement, Pursuit, ToCorrect, Among
<1>. QED  BY <1>1, <1>2, <1>3, <1>4 DEF Agreement

\* Each handler keeps what the nodes know of the task in step.
LEMMA StepAgreement == ASSUME Relay, Agreement, Next PROVE Agreement'
<1>1. TypeOK /\ ArmRelay /\ WheelRelay /\ NavRelay
  BY DEF Relay
<1>2. Relay'
  BY StepRelay
<1>3. nav \in NavType /\ vis \in VisType /\ ChanTyped(chan) /\ nav' \in NavType /\ vis' \in VisType
  BY <1>1, <1>2 DEF Relay, TypeOK
<1>. DEFINE von == chan["vision_on"]
            pos == chan["target_position"]
            Pos == (Int \X Int) \cup {Aligned}
<1>4. von \in Seq(Int) /\ von' \in Seq(Int) /\ pos \in Seq(Pos) /\ pos' \in Seq(Pos)
  <2>1. ChanTyped(chan')
    BY <1>2 DEF Relay, TypeOK, ChanTyped
  <2>. QED  BY <1>3, <2>1 DEF ChanTyped, Topics, Message
<1>5. Command /\ VisionTask /\ PositionsAreRight /\ Pursuit
  BY DEF Agreement
<1>6. /\ nav.task \in Int /\ vis.task \in Int /\ nav'.task \in Int /\ vis'.task \in Int
      /\ vis.target \in Int
  BY <1>3 DEF NavType, VisType
<1>7. SUFFICES Command' /\ VisionTask' /\ PositionsAreRight' /\ Pursuit'
  BY DEF Agreement
<1>8. \A i \in 1..Len(pos) : pos[i] # Aligned => pos[i][1] \in Int /\ pos[i][2] \in Int
  <2>1. \A i \in 1..Len(pos) : pos[i] \in Pos
    BY <1>4
  <2>. QED  BY <2>1
<1>9. ASSUME UNCHANGED <<target, nav, vis, von, pos>>, Up("voice") => Up("voice")'
      PROVE  Command' /\ VisionTask' /\ PositionsAreRight' /\ Pursuit'
  BY <1>9, AgreementAside DEF Agreement
<1>11. CASE \E n \in Nodes : Start(n)
  <2>1. PICK n \in Nodes : Start(n)
    BY <1>11
  <2>2. Up("voice") => Up("voice")'
    BY <1>1, <2>1 DEF Start, Up, TypeOK, Nodes
  <2>. QED  BY <1>9, <2>1, <2>2 DEF Start
<1>12. CASE \E r \in Classified : OnMessage(r)
  <2>1. UNCHANGED <<nodes, nav, vis, chan>> /\ ~Up("voice")
    BY <1>12 DEF OnMessage, Up
  <2>2. /\ nav.command = Nothing /\ ~vis.heard /\ vis.classes = <<>>
        /\ vis.target = NoClass /\ vis.task = -1
    BY <1>5, <2>1 DEF Command
  <2>3. nav.state = "WAITING" /\ ~vis.correcting /\ ~ToCorrect
    BY <1>1, <2>2 DEF NavRelay, WheelRelay
  <2>4. Command'
    BY <2>1, <2>2 DEF Command
  <2>5. VisionTask'
    BY <1>5, <2>1, <2>2 DEF VisionTask, Ordered, Latest
  <2>6. PositionsAreRight'
    <3>1. \A i \in 1..Len(pos) : pos[i] # Aligned => pos[i][1] <= -1
      BY <1>5, <2>2 DEF PositionsAreRight, Right
    <3>2. \A i \in 1..Len(pos) : pos[i] # Aligned => ~(pos[i][1] >= 0)
      BY <1>8, <3>1
    <3>. QED  BY <1>5, <2>1, <3>2 DEF PositionsAreRight, Right
  <2>7. Pursuit'
    BY <2>1, <2>3 DEF Pursuit, ToCorrect, Among, After
  <2>. QED  BY <2>4, <2>5, <2>6, <2>7
<1>13. CASE VisionHears
  <2>1. UNCHANGED <<target, nav, chan>>
    BY <1>13 DEF VisionHears
  <2>2. /\ vis'.heard = TRUE /\ ~vis.heard /\ Up("voice")
        /\ vis'.classes = IF target.kind = "plan" THEN target.classes ELSE vis.classes
        /\ vis'.target = IF target.kind = "class" THEN target.classes[1] ELSE vis.target
        /\ vis'.task = vis.task /\ vis'.correcting = vis.correcting
    BY <1>1, <1>13, VisionHearsDoes
  <2>3. Up("voice")'
    BY <1>1, <1>13, <2>2, VisionHearsDoes, DiesAlone DEF Up, Nodes
  <2>4. vis.task = -1 /\ vis.target = NoClass /\ vis.classes = <<>>
    BY <1>5, <2>2 DEF Command
  <2>5. ~vis.correcting /\ nav.state # "TO_TARGET" /\ ~ToCorrect /\ nav.state \notin After
    <3>1. nav.state \notin After
      BY <1>1, <1>5, <2>4 DEF Pursuit, NavRelay, After
    <3>. QED  BY <1>1, <3>1 DEF WheelRelay, After
  <2>6. Command'
    BY <1>5, <2>1, <2>2, <2>3, <2>4 DEF Command
  <2>7. VisionTask'
    BY <1>5, <2>1, <2>2, <2>4 DEF VisionTask, Ordered, Latest
  <2>8. PositionsAreRight'
    <3>1. ASSUME NEW i \in 1..Len(pos), pos[i] # Aligned
          PROVE  ~(pos[i][1] = nav.task /\ nav.state = "GET_AREA")
      <4>1. pos[i][1] <= -1 /\ pos[i][1] \in Int
        BY <1>5, <1>8, <2>4, <3>1 DEF PositionsAreRight, Right
      <4>2. nav.state = "GET_AREA" => nav.task > -1
        BY <1>1, <1>6 DEF NavRelay
      <4>. QED  BY <1>6, <4>1, <4>2
    <3>. QED  BY <1>5, <2>1, <2>2, <3>1 DEF PositionsAreRight, Right
  <2>9. Pursuit'
    BY <2>1, <2>2, <2>5 DEF Pursuit, ToCorrect, Among
  <2>. QED  BY <2>6, <2>7, <2>8, <2>9
<1>14. CASE NavigationHears
  <2>1. UNCHANGED <<target, vis, chan, nodes>>
    BY <1>14 DEF NavigationHears
  <2>2. /\ nav'.state = "TO_AREA" /\ nav'.command = target /\ nav'.task = 0
        /\ nav.state = "WAITING" /\ target.kind = "plan" /\ Up("voice") /\ nav.task = -1
    BY <1>1, <1>14, NavigationHearsDoes DEF NavRelay
  <2>3. vis.task = -1 /\ ~vis.correcting /\ ~ToCorrect
    BY <1>1, <1>5, <1>6, <2>2 DEF VisionTask, WheelRelay
  <2>4. Command'
    BY <1>5, <2>1, <2>2 DEF Command, Up
  <2>5. VisionTask'
    <3>1. Ordered(von, vis.task, -1)
      BY <1>5, <2>2 DEF VisionTask, Latest, Early
    <3>2. Latest' = -1
      BY <2>2 DEF Latest, Early
    <3>3. Ordered(von, vis.task, Latest)'
      BY <2>1, <3>1, <3>2 DEF Ordered
    <3>. QED  BY <1>5, <2>1, <2>2, <2>3, <3>3 DEF VisionTask
  <2>6. PositionsAreRight'
    BY <1>5, <2>1, <2>2 DEF PositionsAreRight, Right
  <2>7. Pursuit'
    BY <2>1, <2>2, <2>3 DEF Pursuit, ToCorrect, Among, After
  <2>. QED  BY <2>4, <2>5, <2>6, <2>7
<1>15. CASE Depart
  <2>1. UNCHANGED <<target, vis, chan>>
    BY <1>15 DEF Depart
  <2>2. CASE Destination \in AreaDict \cup {"target"}
    <3>1. /\ nav'.state = nav.state /\ nav'.command = nav.command /\ nav'.task = nav.task
          /\ nav'.position = nav.position /\ nodes' = nodes
      BY <1>3, <1>15, <2>2 DEF Depart, NavType
    <3>2. Command'
      BY <1>5, <2>1, <3>1 DEF Command, Up
    <3>3. VisionTask'
      BY <1>5, <2>1, <3>1 DEF VisionTask, Ordered, Latest
    <3>4. PositionsAreRight'
      BY <1>5, <2>1, <3>1 DEF PositionsAreRight, Right
    <3>5. Pursuit'
      BY <1>5, <2>1, <3>1 DEF Pursuit, ToCorrect, Among
    <3>. QED  BY <3>2, <3>3, <3>4, <3>5
  <2>3. CASE Destination \notin AreaDict \cup {"target"}
    <3>1. Dies("navigation") /\ UNCHANGED nav
      BY <1>15, <2>3 DEF Depart
    <3>2. Up("voice") => Up("voice")'
      BY <1>1, <3>1, DiesAlone DEF Up, Nodes
    <3>. QED  BY <1>9, <2>1, <3>1, <3>2
  <2>. QED  BY <2>2, <2>3
<1>17. CASE AskForGrasp
  <2>1. /\ UNCHANGED <<target, vis, nodes>> /\ nav.state = "GET_CORRECT"
        /\ nav'.state = "GRASP" /\ nav'.command = nav.command
        /\ nav'.task = nav.task /\ nav'.position = nav.position
    BY <1>3, <1>17 DEF AskForGrasp, NavType
  <2>2. Only({"navigate_over"})
    <3>1. "navigate_over" \in Topics /\ "grasp" \in Message["navigate_over"]
      BY DEF Topics, Message, Orders
    <3>. QED  BY <1>3, <1>17, <3>1, Said DEF AskForGrasp
  <2>3. UNCHANGED <<von, pos>>
    BY <2>2 DEF Only, Topics
  <2>4. Command'
    BY <1>1, <1>5, <2>1 DEF Command, Up
  <2>5. VisionTask'
    BY <1>5, <2>1, <2>3 DEF VisionTask, Ordered, Latest, Early
  <2>6. PositionsAreRight'
    BY <1>5, <2>1, <2>3 DEF PositionsAreRight, Right
  <2>7. Pursuit'
    BY <1>5, <2>1, <2>3 DEF Pursuit, ToCorrect, Among, After
  <2>. QED  BY <2>4, <2>5, <2>6, <2>7
<1>19. CASE ActionCallback
  <2>1. /\ UNCHANGED <<target, vis, nodes>>
        /\ nav'.state = AfterAction(nav.state) /\ nav'.command = nav.command
        /\ nav'.task = nav.task /\ nav'.position = nav.position
    BY <1>3, <1>19 DEF ActionCallback, NavType
  <2>2. Only({"action_over"}) /\ nav.state \in ArmWork
    <3>1. "action_over" \in Topics
      BY DEF Topics
    <3>. QED  BY <1>1, <1>3, <1>19, <3>1, Heard DEF ActionCallback, Receives, ArmRelay
  <2>3. UNCHANGED <<von, pos>>
    BY <2>2 DEF Only, Topics
  <2>4. Goes("GRASP", "TO_ORIGIN") \/ Goes("GET_ORIGIN", "TO_AREA")
    BY <2>1, <2>2 DEF AfterAction, ArmWork, Goes
  <2>5. Command'
    BY <1>5, <2>1 DEF Command, Up
  <2>6. VisionTask'
    BY <1>5, <2>1, <2>3, <2>4 DEF VisionTask, Ordered, Latest, Early, Goes
  <2>7. PositionsAreRight'
    BY <1>5, <2>1, <2>3, <2>4 DEF PositionsAreRight, Right, Goes
  <2>8. Pursuit'
    BY <1>1, <1>5, <2>1, <2>3, <2>4 DEF Pursuit, ToCorrect, Among, After, Goes
  <2>. QED  BY <2>5, <2>6, <2>7, <2>8
<1>22. CASE AlignFar
  <2>1. Only({"wheel_control"})
    <3>1. "wheel_control" \in Topics /\ "2" \in Message["wheel_control"]
      BY DEF Topics, Message, Words
    <3>. QED  BY <1>3, <1>22, <3>1, Said DEF AlignFar
  <2>2. UNCHANGED <<von, pos>>
    BY <2>1 DEF Only, Topics
  <2>. QED  BY <1>9, <1>22, <2>2 DEF AlignFar, Up
<1>24. CASE Play
  <2>1. Only({"navigate_over"})
    <3>1. "navigate_over" \in Topics
      BY DEF Topics
    <3>. QED  BY <1>3, <1>24, <3>1, Heard DEF Play
  <2>2. UNCHANGED <<von, pos>>
    BY <2>1 DEF Only, Topics
  <2>. QED  BY <1>9, <1>24, <2>2 DEF Play, Up
<1>25. CASE PlayOn
  <2>1. Only({"action_over"})
    <3>1. "action_over" \in Topics /\ "1" \in Message["action_over"]
      BY DEF Topics, Message, Ends
    <3>. QED  BY <1>3, <1>25, <3>1, Said DEF PlayOn, Only
  <2>2. UNCHANGED <<von, pos>>
    BY <2>1 DEF Only, Topics
  <2>. QED  BY <1>9, <1>25, <2>2 DEF PlayOn, Up
<1>26. CASE WheelCallback
  <2>1. Only({"wheel_control"})
    <3>1. "wheel_control" \in Topics
      BY DEF Topics
    <3>. QED  BY <1>3, <1>26, <3>1, Heard DEF WheelCallback
  <2>2. UNCHANGED <<von, pos>>
    BY <2>1 DEF Only, Topics
  <2>. QED  BY <1>9, <1>26, <2>2 DEF WheelCallback, Up
<1>27. CASE Turn \/ TurnPast \/ Approach \/ Drift
  BY <1>9, <1>27 DEF Turn, TurnPast, Approach, Drift, Rolls, Up
<1>16. CASE \E well \in BOOLEAN : Arrive(well)
  <2>1. PICK well \in BOOLEAN : Arrive(well)
    BY <1>16
  <2>2. UNCHANGED <<target, vis, nodes>> /\ nav.state \in Driving
    BY <1>1, <2>1 DEF Arrive, NavRelay
  <2>3. nav'.command = nav.command /\ nav'.position = nav.position
    BY <1>1, <2>1, ArriveDoes
  <2>4. Command'
    BY <1>5, <2>2, <2>3 DEF Command, Up
  <2>5. ~ToCorrect /\ ~vis.correcting /\ nav.task > -1
    BY <1>1, <1>6, <2>2 DEF WheelRelay, Driving, NavRelay
  <2>6. CASE /\ Goes("TO_AREA", "GET_AREA") /\ nav'.task = nav.task
             /\ Only({"vision_on"}) /\ Says("vision_on", nav.task)
    <3>1. UNCHANGED pos
      BY <2>6 DEF Only, Topics
    <3>2. vis.task < nav.task
      BY <1>5, <1>6, <2>6 DEF VisionTask, Early, Goes
    <3>3. Ordered(von, vis.task, nav.task - 1) /\ Latest' = nav.task
      BY <1>5, <2>6 DEF VisionTask, Latest, Early, Goes
    <3>4. von' = von \/ Grown(von', von, nav.task)
      BY <2>6 DEF Says
    <3>5. Ordered(von', vis.task, nav.task)
      <4>1. nav.task - 1 \in Int /\ nav.task >= nav.task - 1
            /\ nav.task > nav.task - 1 /\ nav.task <= nav.task
        BY <1>6
      <4>2. CASE von' = von
        BY <1>4, <1>6, <3>3, <4>1, <4>2, OrderedHigher
      <4>3. CASE Grown(von', von, nav.task)
        BY <1>4, <1>6, <3>2, <3>3, <4>1, <4>3, OrderedGrown
      <4>. QED  BY <3>4, <4>2, <4>3
    <3>6. VisionTask'
      <4>1. Ordered(von, vis.task, Latest)'
        BY <2>2, <3>3, <3>5 DEF Ordered
      <4>. QED  BY <1>5, <2>2, <2>6, <4>1 DEF VisionTask, Early, Goes
    <3>7. PositionsAreRight'
      <4>1. ASSUME NEW i \in 1..Len(pos), pos[i] # Aligned PROVE pos[i][1] # nav.task
        <5>1. pos[i][1] <= vis.task
          BY <1>5, <4>1 DEF PositionsAreRight, Right
        <5>. QED  BY <1>6, <1>8, <3>2, <4>1, <5>1
      <4>. QED  BY <1>5, <2>2, <2>6, <3>1, <4>1 DEF PositionsAreRight, Right
    <3>8. ~ToCorrect'
      BY <1>1, <1>2, <2>6 DEF Relay, WheelRelay, Goes
    <3>9. Pursuit'
      BY <2>2, <2>5, <2>6, <3>8 DEF Pursuit, After, Goes
    <3>. QED  BY <2>4, <3>6, <3>7, <3>9
  <2>7. CASE /\ Goes("TO_TARGET", "GET_TARGET") /\ nav'.task = nav.task
             /\ Only({"vision_on"}) /\ Says("vision_on", Correct)
    <3>1. UNCHANGED pos
      BY <2>7 DEF Only, Topics
    <3>2. Ordered(von, vis.task, nav.task) /\ Latest' = nav.task
      BY <1>5, <2>7 DEF VisionTask, Latest, Early, Goes
    <3>3. von' = von \/ Grown(von', von, Correct)
      BY <2>7 DEF Says
    <3>4. Ordered(von', vis.task, nav.task)
      <4>1. Correct \in Int /\ nav.task >= nav.task
        BY <1>6 DEF Correct
      <4>. QED  BY <1>4, <1>6, <3>2, <3>3, <4>1, OrderedGrown
    <3>5. VisionTask'
      <4>1. Ordered(von, vis.task, Latest)'
        BY <2>2, <3>2, <3>4 DEF Ordered
      <4>. QED  BY <1>5, <2>2, <2>7, <4>1 DEF VisionTask, Early, Goes
    <3>6. PositionsAreRight'
      BY <1>5, <2>2, <2>7, <3>1 DEF PositionsAreRight, Right, Goes
    <3>7. Pursuit'
      BY <1>5, <2>2, <2>3, <2>7 DEF Pursuit, After, Goes
    <3>. QED  BY <2>4, <3>5, <3>6, <3>7
  <2>8. CASE /\ Goes("TO_ORIGIN", "GET_ORIGIN") /\ nav'.task = nav.task + 1
             /\ Only({"navigate_over"})
    <3>1. UNCHANGED <<von, pos>>
      BY <2>8 DEF Only, Topics
    <3>2. Ordered(von, vis.task, nav.task) /\ Latest' = nav.task
      BY <1>5, <1>6, <2>8 DEF VisionTask, Latest, Early, Goes
    <3>3. VisionTask'
      <4>1. Ordered(von, vis.task, Latest)'
        BY <2>2, <3>1, <3>2 DEF Ordered
      <4>. QED  BY <1>5, <1>6, <2>2, <2>8, <4>1 DEF VisionTask, Early, Goes
    <3>4. PositionsAreRight'
      BY <1>5, <2>2, <2>8, <3>1 DEF PositionsAreRight, Right, Goes
    <3>5. Pursuit'
      BY <2>2, <2>5, <2>8, <3>1 DEF Pursuit, After, Goes, ToCorrect, Among
    <3>. QED  BY <2>4, <3>3, <3>4, <3>5
  <2>. QED  BY <1>1, <2>1, <2>6, <2>7, <2>8, ArriveDoes
<1>18. CASE TargetCallback
  <2>. DEFINE m == pos[1]
  <2>1. UNCHANGED <<target, vis, nodes>>
    BY <1>18 DEF TargetCallback
  <2>2. /\ nav'.command = nav.command /\ nav'.task = nav.task
        /\ Only({"target_position"}) /\ Hears("target_position")
        /\ \/ m = Aligned /\ Goes("GET_TARGET", "GET_CORRECT") /\ nav'.position = nav.position
           \/ /\ m # Aligned /\ Goes("GET_AREA", "TO_TARGET")
              /\ m[1] = nav.task /\ nav'.position = m[2]
           \/ nav' = nav
    BY <1>1, <1>18, TargetCallbackDoes
  <2>3. UNCHANGED von /\ Shorter(pos', pos) /\ Len(pos) >= 1
    BY <2>2 DEF Only, Topics, Hears
  <2>4. Command'
    BY <1>5, <2>1, <2>2 DEF Command, Up
  <2>5. nav'.state \in Early <=> nav.state \in Early
    BY <2>2 DEF Early, Goes
  <2>6. VisionTask'
    BY <1>5, <2>1, <2>2, <2>3, <2>5 DEF VisionTask, Ordered, Latest
  <2>7. PositionsAreRight'
    <3>1. ASSUME NEW i \in 1..Len(pos') PROVE Right(pos[i])'
      <4>1. PICK j \in 1..Len(pos) : pos'[i] = pos[j]
        <5>. HIDE DEF pos, Pos
        <5>. QED  BY <1>4, <2>3, <3>1, ShorterComes
      <4>2. Right(pos[j])
        BY <1>5 DEF PositionsAreRight
      <4>3. nav'.state = "GET_AREA" => nav.state = "GET_AREA"
        BY <2>2 DEF Goes
      <4>. QED  BY <2>1, <2>2, <4>1, <4>2, <4>3 DEF Right
    <3>. QED  BY <3>1 DEF PositionsAreRight
  <2>8. Pursuit'
    <3>0. ToCorrect' <=> ToCorrect
      BY <2>3 DEF ToCorrect, Among
    <3>1. CASE m = Aligned /\ Goes("GET_TARGET", "GET_CORRECT") /\ nav'.position = nav.position
      BY <1>5, <2>1, <2>2, <3>0, <3>1 DEF Pursuit, After, Goes
    <3>2. CASE /\ m # Aligned /\ Goes("GET_AREA", "TO_TARGET")
               /\ m[1] = nav.task /\ nav'.position = m[2]
      <4>1. Right(m)
        BY <1>4, <1>5, <2>3 DEF PositionsAreRight
      <4>2. nav.task >= 0
        BY <1>1, <1>6, <3>2 DEF NavRelay, Goes
      <4>3. nav'.position = target.classes[nav.task + 1] /\ nav'.position # NoClass
        BY <3>2, <4>1, <4>2 DEF Right
      <4>4. vis.task = nav.task
        BY <1>5, <1>6, <3>2, <4>1 DEF Right, VisionTask
      <4>5. vis.target = nav'.position
        BY <3>2, <4>1 DEF Right, Goes
      <4>6. nav.command = target
        BY <1>1, <1>5, <3>2 DEF Command, NavRelay, Goes
      <4>. QED  BY <2>1, <2>2, <4>3, <4>4, <4>5, <4>6 DEF Pursuit
    <3>3. CASE nav' = nav
      BY <1>5, <2>1, <3>0, <3>3 DEF Pursuit
    <3>. QED  BY <2>2, <3>1, <3>2, <3>3
  <2>. QED  BY <2>4, <2>6, <2>7, <2>8
<1>20. CASE NavCallback
  <2>. DEFINE m == von[1]
  <2>1. UNCHANGED <<target, nav>>
    BY <1>20 DEF NavCallback
  <2>2. Hears("vision_on") /\ vis'.classes = vis.classes /\ vis'.heard = vis.heard
    BY <1>1, <1>20, NavCallbackDoes
  <2>3. Shorter(von', von) /\ Len(von) >= 1 /\ m \in Int /\ Latest \in Int /\ Latest' = Latest
    BY <1>6, <2>1, <2>2 DEF Hears, Message, Latest
  <2>4. /\ Ordered(von', vis.task, Latest)
        /\ m # Correct => m > vis.task /\ m <= Latest /\ Ordered(von', m, Latest)
    BY <1>4, <1>5, <1>6, <2>3, OrderedShorter DEF VisionTask
  <2>5. ToCorrect' => ToCorrect
    BY <1>4, <2>3, ShorterKeeps DEF ToCorrect
  <2>6. Up("voice") => Up("voice")'
    BY <1>1, <1>20, NavCallbackDoes, DiesAlone DEF Up, Nodes
  <2>7. CASE /\ m = Correct /\ vis'.correcting = TRUE /\ vis'.task = vis.task
             /\ vis'.target = vis.target /\ Only({"vision_on", "wheel_control"})
    <3>1. UNCHANGED pos
      BY <2>7 DEF Only, Topics
    <3>2. Command'
      BY <1>5, <2>1, <2>2, <2>6, <2>7 DEF Command
    <3>3. VisionTask'
      <4>1. Ordered(von, vis.task, Latest)'
        BY <2>1, <2>3, <2>4, <2>7 DEF Ordered
      <4>. QED  BY <1>5, <2>1, <2>7, <4>1 DEF VisionTask
    <3>4. PositionsAreRight'
      BY <1>5, <2>1, <2>7, <3>1 DEF PositionsAreRight, Right
    <3>5. ToCorrect
      BY <2>3, <2>7 DEF ToCorrect, Among
    <3>6. Pursuit'
      BY <1>5, <2>1, <2>7, <3>5 DEF Pursuit
    <3>. QED  BY <3>2, <3>3, <3>4, <3>6
  <2>8. CASE /\ m # Correct /\ vis' = vis /\ Only({"vision_on"})
    <3>1. UNCHANGED pos
      BY <2>8 DEF Only, Topics
    <3>2. Command'
      BY <1>5, <2>1, <2>6, <2>8 DEF Command
    <3>3. VisionTask'
      <4>1. Ordered(von, vis.task, Latest)'
        BY <2>1, <2>3, <2>4, <2>8 DEF Ordered
      <4>. QED  BY <1>5, <2>1, <2>8, <4>1 DEF VisionTask
    <3>4. PositionsAreRight'
      BY <1>5, <2>1, <2>8, <3>1 DEF PositionsAreRight, Right
    <3>5. Pursuit'
      BY <1>5, <2>1, <2>5, <2>8 DEF Pursuit
    <3>. QED  BY <3>2, <3>3, <3>4, <3>5
  <2>9. CASE /\ m # Correct /\ vis'.correcting = vis.correcting /\ vis'.task = m
             /\ m + 1 \in DOMAIN vis.classes /\ vis'.target = vis.classes[m + 1]
             /\ Only({"vision_on"})
    <3>1. UNCHANGED pos
      BY <2>9 DEF Only, Topics
    <3>2. vis.classes # <<>>
      BY <2>9
    <3>3. vis.heard /\ vis.classes = target.classes
      BY <1>5, <3>2 DEF Command
    <3>4. m > vis.task /\ m <= nav.task /\ vis.task < nav.task /\ nav.task >= Latest
          /\ (m = nav.task => nav.state \notin Early)
      BY <1>6, <2>3, <2>4, <2>9 DEF Latest
    <3>5. nav.state \notin After
      BY <1>5, <1>6, <3>4 DEF Pursuit
    <3>6. ~ToCorrect /\ ~vis.correcting /\ nav.state # "TO_TARGET"
      BY <1>1, <3>5 DEF WheelRelay, After
    <3>7. Command'
      BY <1>5, <2>1, <2>2, <2>6, <3>3 DEF Command
    <3>8. VisionTask'
      <4>1. Ordered(von, vis.task, Latest)'
        BY <2>3, <2>4, <2>9 DEF Ordered
      <4>2. vis'.task >= -1
        BY <1>5, <1>6, <2>3, <2>9, <3>4 DEF VisionTask
      <4>. QED  BY <2>1, <2>9, <3>3, <3>4, <4>1, <4>2 DEF VisionTask
    <3>9. PositionsAreRight'
      <4>1. ASSUME NEW i \in 1..Len(pos), pos[i] # Aligned
            PROVE  pos[i][1] <= m /\ pos[i][1] # nav.task
        <5>1. pos[i][1] <= vis.task
          BY <1>5, <4>1 DEF PositionsAreRight, Right
        <5>. QED  BY <1>6, <1>8, <2>3, <3>4, <4>1, <5>1
      <4>. QED  BY <1>5, <2>1, <2>9, <3>1, <4>1 DEF PositionsAreRight, Right
    <3>10. Pursuit'
      BY <2>1, <2>5, <2>9, <3>5, <3>6 DEF Pursuit
    <3>. QED  BY <3>7, <3>8, <3>9, <3>10
  <2>. QED  BY <1>1, <1>20, <2>7, <2>8, <2>9, NavCallbackDoes
<1>21. CASE SendTarget
  <2>. DEFINE m == <<vis.task, vis.target>>
  <2>1. /\ UNCHANGED <<target, nav, nodes>> /\ vis'.correcting = vis.correcting
        /\ vis'.heard = vis.heard /\ vis'.classes = vis.classes /\ vis'.task = vis.task
        /\ vis'.target = vis.target /\ vis.target # NoClass
    BY <1>3, <1>21 DEF SendTarget, Sees, VisType
  <2>2. Only({"target_position"}) /\ Says("target_position", m)
    <3>1. "target_position" \in Topics /\ m \in Int \X Int
      BY <1>6 DEF Topics
    <3>2. m \in Message["target_position"]
      BY <3>1 DEF Message
    <3>. QED  BY <1>3, <1>21, <3>1, <3>2, Said DEF SendTarget
  <2>3. UNCHANGED von /\ (pos' = pos \/ Grown(pos', pos, m))
    BY <2>2 DEF Only, Topics, Says
  <2>4. Command'
    BY <1>5, <2>1 DEF Command, Up
  <2>5. VisionTask'
    BY <1>5, <2>1, <2>3 DEF VisionTask, Ordered, Latest
  <2>6. Right(m)
    BY <1>5, <1>6, <2>1 DEF Right, VisionTask
  <2>7. PositionsAreRight'
    <3>1. ASSUME NEW i \in 1..Len(pos') PROVE Right(pos'[i])
      <4>1. pos'[i] = m \/ \E j \in 1..Len(pos) : pos'[i] = pos[j]
        <5>. HIDE DEF m, Pos, pos
        <5>1. CASE Grown(pos', pos, m)
          BY <1>4, <3>1, <5>1, GrownComes, SMTT(60)
        <5>. QED  BY <2>3, <5>1
      <4>. QED  BY <1>5, <2>6, <4>1 DEF PositionsAreRight
    <3>2. \A i \in 1..Len(pos') : Right(pos[i])'
      BY <2>1, <3>1 DEF Right
    <3>. QED  BY <3>2 DEF PositionsAreRight
  <2>8. Pursuit'
    BY <1>5, <2>1, <2>3 DEF Pursuit, ToCorrect, Among
  <2>. QED  BY <2>4, <2>5, <2>7, <2>8
<1>23. CASE AlignNear
  <2>1. UNCHANGED <<target, nav, nodes>>
    BY <1>23 DEF AlignNear
  <2>2. /\ ~vis'.correcting /\ vis.correcting /\ vis'.target = NoClass
        /\ vis'.heard = vis.heard /\ vis'.classes = vis.classes /\ vis'.task = vis.task
        /\ Only({"wheel_control", "target_position"})
        /\ Says("target_position", Aligned)
    BY <1>1, <1>23, AlignNearDoes
  <2>3. UNCHANGED von /\ (pos' = pos \/ Grown(pos', pos, Aligned))
    BY <2>2 DEF Only, Topics, Says
  <2>4. nav.state = "GET_TARGET" /\ ~ToCorrect /\ ~ToCorrect'
    BY <1>1, <2>2, <2>3 DEF WheelRelay, ToCorrect
  <2>5. Command'
    BY <1>5, <2>1, <2>2 DEF Command, Up
  <2>6. VisionTask'
    BY <1>5, <2>1, <2>2, <2>3 DEF VisionTask, Ordered, Latest
  <2>7. PositionsAreRight'
    <3>1. ASSUME NEW i \in 1..Len(pos') PROVE Right(pos'[i])
      <4>1. pos'[i] = Aligned \/ \E j \in 1..Len(pos) : pos'[i] = pos[j]
        BY <1>4, <2>3, <3>1, GrownComes
      <4>. QED  BY <1>5, <4>1 DEF PositionsAreRight, Right
    <3>2. \A i \in 1..Len(pos') : Right(pos[i])'
      BY <2>1, <2>2, <2>4, <3>1 DEF Right
    <3>. QED  BY <3>2 DEF PositionsAreRight
  <2>8. Pursuit'
    BY <1>5, <2>1, <2>2, <2>4 DEF Pursuit
  <2>. QED  BY <2>5, <2>6, <2>7, <2>8
<1>. QED  BY <1>11, <1>12, <1>13, <1>14, <1>15, <1>16, <1>17, <1>18, <1>19, <1>20, <1>21,
             <1>22, <1>23, <1>24, <1>25, <1>26, <1>27 DEF Next

LEMMA AgreementStutters == ASSUME Agreement, UNCHANGED vars PROVE Agreement'
BY AgreementAside DEF vars, Up

\* From the position it accepts to the grasp, navigation goes for an object of
\* the class its current task names, and vision corrects for that task and class
\* (navigate.py:91-111, image_detection.py:97-135): a position of an earlier task
\* that arrives late, or one asked for twice, is never taken for the current one.
THEOREM TasksAgree == Spec => []TaskAgreement
<1>1. Init => Relay /\ Agreement
  BY StartRelay, StartAgreement
<1>2. Relay /\ Agreement /\ [Next]_vars => (Relay /\ Agreement)'
  BY StepRelay, RelayStutters, StepAgreement, AgreementStutters
<1>3. Relay /\ Agreement => TaskAgreement
  BY DEF Agreement, Pursuit, Relay, WheelRelay, After, TaskAgreement
<1>. QED  BY <1>1, <1>2, <1>3, PTL DEF Spec

-----------------------------------------------------------------------------
(* Handling of the objects.                                                *)

\* A mishap is never forgotten.
LEMMA MishapsRemain == ASSUME Next, mishap' = {} PROVE mishap = {}
<1>1. (\E well \in BOOLEAN : Arrive(well)) => mishap \subseteq mishap'
  BY DEF Arrive
<1>2. VisionHears \/ Depart => mishap \subseteq mishap'
  BY DEF VisionHears, Depart, Dies
<1>3. NavCallback => mishap \subseteq mishap'
  BY DEF NavCallback, Dies
<1>4. PlayOn => mishap \subseteq mishap'
  BY DEF PlayOn
<1>5. Turn \/ TurnPast \/ Approach \/ Drift => mishap \subseteq mishap'
  BY DEF Turn, TurnPast, Approach, Drift, Rolls
<1>6. AskForGrasp \/ SendTarget \/ AlignFar \/ AlignNear => mishap \subseteq mishap'
  BY DEF AskForGrasp, SendTarget, AlignFar, AlignNear
<1>7. /\ NavigationHears \/ TargetCallback \/ ActionCallback \/ Play \/ WheelCallback
            => mishap' = mishap
      /\ (\E n \in Nodes : Start(n)) => mishap' = mishap
      /\ (\E r \in Classified : OnMessage(r)) => mishap' = mishap
  BY DEF NavigationHears, TargetCallback, ActionCallback, Play, WheelCallback, Start, OnMessage
<1>. QED  BY <1>1, <1>2, <1>3, <1>4, <1>5, <1>6, <1>7 DEF Next

LEMMA StartHandling == Init => Facing /\ Claw
<1> SUFFICES ASSUME Init PROVE Facing /\ Claw
  OBVIOUS
<1>1. chan["target_position"] = <<>>
  BY DEF Init, Topics
<1>. QED  BY <1>1 DEF Init, Facing, Claw, Corrected, Among, ArmWork

\* What moves neither base nor claw, and lets vision say nothing new.
LEMMA HandlingAside ==
  ASSUME Facing, Claw, UNCHANGED <<nav, arm, world, delivered, chan["navigate_over"]>>,
         Corrected' => Corrected
  PROVE  Facing' /\ Claw'
<1>1. Facing'
  BY DEF Facing
<1>2. Claw'
  BY DEF Claw, Suffix, Waits
<1>. QED  BY <1>1, <1>2

\* A sequence starts whole and loses its first step.
LEMMA SuffixOfItself == ASSUME NEW S, NEW s \in Seq(S) PROVE Suffix(s, s)
BY DEF Suffix

LEMMA SuffixTail ==
  ASSUME NEW S, NEW script \in Seq(S), NEW s \in Seq(S), s # <<>>, Suffix(s, script)
  PROVE  /\ Suffix(Tail(s), script) /\ Len(Tail(s)) = Len(s) - 1
         /\ Len(s) \in 1..Len(script) /\ Head(s) = script[Len(script) - Len(s) + 1]
<1>1. /\ Len(s) \in Nat /\ Len(s) >= 1 /\ Len(script) \in Nat
      /\ Tail(s) \in Seq(S) /\ Len(Tail(s)) = Len(s) - 1 /\ Head(s) = s[1]
      /\ \A i \in 1..(Len(s) - 1) : Tail(s)[i] = s[i + 1]
  OBVIOUS
<1>2. /\ Len(s) <= Len(script)
      /\ \A i \in 1..Len(s) : s[i] = script[Len(script) - Len(s) + i]
  BY DEF Suffix
<1>3. ASSUME NEW i \in 1..Len(Tail(s))
      PROVE  Tail(s)[i] = script[Len(script) - Len(Tail(s)) + i]
  <2>1. i + 1 \in 1..Len(s) /\ i \in 1..(Len(s) - 1)
    BY <1>1, <1>3
  <2>2. Tail(s)[i] = script[Len(script) - Len(s) + (i + 1)]
    BY <1>1, <1>2, <2>1
  <2>3. Len(script) - Len(s) + (i + 1) = Len(script) - Len(Tail(s)) + i
    BY <1>1, <1>3
  <2>. QED  BY <2>2, <2>3
<1>. QED  BY <1>1, <1>2, <1>3 DEF Suffix

\* Without a mishap the base and the claw follow the states of navigation.
LEMMA StepHandling ==
  ASSUME Relay, Agreement, Next, Facing, Claw, mishap' = {}
  PROVE  Facing' /\ Claw'
<1>1. TypeOK /\ ArmRelay /\ WheelRelay /\ NavRelay /\ Command /\ Pursuit
  BY DEF Relay, Agreement
<1>2. Relay'
  BY StepRelay
<1>3. nav \in NavType /\ vis \in VisType /\ ChanTyped(chan) /\ nav' \in NavType
  BY <1>1, <1>2 DEF Relay, TypeOK
<1>. DEFINE pos == chan["target_position"]
            go == chan["navigate_over"]
            over == chan["action_over"]
            Pos == (Int \X Int) \cup {Aligned}
<1>4. pos \in Seq(Pos) /\ pos' \in Seq(Pos) /\ go \in Seq(Orders) /\ go' \in Seq(Orders)
  <2>1. ChanTyped(chan')
    BY <1>2 DEF Relay, TypeOK, ChanTyped
  <2>. QED  BY <1>3, <2>1 DEF ChanTyped, Topics, Message
<1>5. nav.task \in Int /\ nav'.task \in Int /\ nav.task >= -1
  BY <1>1, <1>3 DEF NavType, NavRelay
<1>11. CASE \E n \in Nodes : Start(n)
  BY <1>11, HandlingAside DEF Start, Corrected
<1>12. CASE \E r \in Classified : OnMessage(r)
  BY <1>12, HandlingAside DEF OnMessage, Corrected
<1>13. CASE VisionHears
  BY <1>13, HandlingAside DEF VisionHears, Corrected
<1>14. CASE NavigationHears
  <2>1. UNCHANGED <<arm, world, chan, delivered>>
    BY <1>14 DEF NavigationHears
  <2>2. nav'.state = "TO_AREA" /\ nav'.task = 0 /\ nav.state = "WAITING"
    BY <1>1, <1>14, NavigationHearsDoes DEF NavRelay
  <2>3. ~Corrected'
    BY <1>1, <2>1, <2>2 DEF WheelRelay, Corrected
  <2>4. Facing'
    BY <2>2, <2>3 DEF Facing
  <2>5. delivered' = <<>> /\ arm'.holds = NoClass
    BY <2>1, <2>2 DEF Claw, ArmWork
  <2>6. Claw'
    BY <2>2, <2>5 DEF Claw, ArmWork
  <2>. QED  BY <2>4, <2>6
<1>15. CASE Depart
  <2>1. Destination \in AreaDict \cup {"target"}
    BY <1>15 DEF Depart, Dies
  <2>2. /\ UNCHANGED <<arm, chan, delivered>> /\ nav.state \in Driving
        /\ nav'.state = nav.state /\ nav'.task = nav.task /\ nav'.position = nav.position
        /\ nav'.command = nav.command /\ nav'.drive = Destination
    BY <1>3, <1>15, <2>1 DEF Depart, NavType, Driving
  <2>3. ~Corrected'
    BY <1>1, <2>2 DEF WheelRelay, Corrected, Driving
  <2>4. Facing'
    BY <2>2, <2>3 DEF Facing, Driving, Destination
  <2>5. Claw'
    BY <2>2 DEF Claw, Suffix, Waits
  <2>. QED  BY <2>4, <2>5
<1>16. CASE \E well \in BOOLEAN : Arrive(well)
  <2>1. PICK well \in BOOLEAN : Arrive(well)
    BY <1>16
  <2>2. UNCHANGED <<arm, delivered>> /\ nav.state \in Driving /\ nav.drive # Nowhere
    BY <1>1, <2>1 DEF Arrive, NavRelay
  <2>3. /\ world'.base = nav.drive
        /\ nav.drive = "target" => world'.faces = nav.position
    <3>1. well
      BY <2>1 DEF Arrive
    <3>. QED  BY <2>1, <3>1 DEF Arrive
  <2>4. /\ nav'.command = nav.command /\ nav'.position = nav.position
        /\ nav'.drive = Nowhere
    BY <1>1, <2>1, ArriveDoes
  <2>5. ~Corrected /\ arm.steps = <<>> /\ go = <<>>
    BY <1>1, <2>2 DEF WheelRelay, ArmRelay, ArmWork, Driving
  <2>6. CASE /\ Goes("TO_AREA", "GET_AREA") \/ Goes("TO_TARGET", "GET_TARGET")
             /\ nav'.task = nav.task /\ Only({"vision_on"})
    <3>1. UNCHANGED <<go, pos>>
      BY <2>6 DEF Only, Topics
    <3>2. ~Corrected'
      BY <2>5, <3>1 DEF Corrected
    <3>3. Facing'
      BY <2>2, <2>3, <2>4, <2>6, <3>2 DEF Facing, Goes
    <3>4. Claw'
      BY <2>2, <2>4, <2>6, <3>1 DEF Claw, Goes, ArmWork
    <3>. QED  BY <3>3, <3>4
  <2>7. CASE /\ Goes("TO_ORIGIN", "GET_ORIGIN") /\ nav'.task = nav.task + 1
             /\ Only({"navigate_over"}) /\ Says("navigate_over", "release") /\ Up("arm")
    <3>1. UNCHANGED pos /\ Grown(go', go, "release")
      BY <2>7 DEF Only, Topics, Says, Subscriber
    <3>2. ~Corrected'
      BY <2>5, <3>1 DEF Corrected
    <3>3. Facing'
      BY <2>2, <2>3, <2>4, <2>7, <3>2 DEF Facing, Goes
    <3>4. go' # <<>> /\ \A i \in 1..Len(go') : go'[i] = "release"
      <4>1. Len(go) = 0
        BY <2>5
      <4>2. go' # <<>> /\ go'[Len(go')] = "release" /\ Len(go') <= 1
        BY <1>4, <3>1, <4>1, GrownLast
      <4>3. Len(go') \in Nat
        BY <1>4
      <4>. QED  BY <4>2, <4>3
    <3>5. /\ nav.position = nav.command.classes[nav.task + 1] /\ nav.position # NoClass
          /\ arm.holds = nav.position /\ Len(delivered) = nav.task
      BY <1>1, <2>7 DEF Pursuit, After, Claw, Goes
    <3>6. Suffix(arm.steps, Script("release"))'
      <4>1. Len(<<>>) = 0 /\ Len(<<"open", "home", "report">>) = 3
        OBVIOUS
      <4>2. Suffix(<<>>, Script("release"))
        BY <4>1, Scripts DEF Suffix
      <4>. QED  BY <2>2, <2>5, <4>2
    <3>7. Waits(3)'
      BY <3>4 DEF Waits
    <3>8. nav'.task - 1 = nav.task /\ nav'.command.classes[nav'.task] = nav.position
      BY <1>5, <2>4, <2>7, <3>5
    <3>9. nav'.state = "GET_ORIGIN"
      BY <2>7 DEF Goes
    <3>10. \A i \in 1..Len(delivered') : delivered'[i] = <<nav'.command.classes[i], Origin>>
      BY <2>2, <2>4 DEF Claw
    <3>11. Claw'
      BY <2>2, <2>4, <3>4, <3>5, <3>6, <3>7, <3>8, <3>9, <3>10 DEF Claw, ArmWork
    <3>. QED  BY <3>3, <3>11
  <2>. QED  BY <1>1, <2>1, <2>6, <2>7, ArriveDoes
<1>17. CASE AskForGrasp
  <2>1. /\ UNCHANGED <<arm, world, delivered>> /\ nav.state = "GET_CORRECT"
        /\ nav'.state = "GRASP" /\ nav'.command = nav.command /\ nav'.drive = nav.drive
        /\ nav'.task = nav.task /\ nav'.position = nav.position
    BY <1>3, <1>17 DEF AskForGrasp, NavType
  <2>2. Only({"navigate_over"}) /\ Says("navigate_over", "grasp") /\ Up("arm")
    <3>1. "navigate_over" \in Topics /\ "grasp" \in Message["navigate_over"]
      BY DEF Topics, Message, Orders
    <3>2. Unheard({"navigate_over"}) = {}
      BY <1>17 DEF AskForGrasp
    <3>3. Up("arm")
      BY <3>2 DEF Unheard, Subscriber
    <3>. QED  BY <1>3, <1>17, <3>1, <3>3, Said DEF AskForGrasp
  <2>3. UNCHANGED pos /\ Grown(go', go, "grasp")
    BY <2>2 DEF Only, Topics, Says, Subscriber
  <2>4. arm.steps = <<>> /\ go = <<>> /\ ~Corrected'
    BY <1>1, <2>1, <2>3 DEF ArmRelay, ArmWork, WheelRelay, Corrected
  <2>5. Facing'
    BY <2>1, <2>4 DEF Facing
  <2>6. go' # <<>> /\ \A i \in 1..Len(go') : go'[i] = "grasp"
    <3>1. Len(go) = 0
      BY <2>4
    <3>2. go' # <<>> /\ go'[Len(go')] = "grasp" /\ Len(go') <= 1
      BY <1>4, <2>3, <3>1, GrownLast
    <3>3. Len(go') \in Nat
      BY <1>4
    <3>. QED  BY <3>2, <3>3
  <2>7. Suffix(arm.steps, Script("grasp"))'
    <3>1. Len(<<>>) = 0 /\ Len(<<"open", "reach", "close", "lift", "report">>) = 5
      OBVIOUS
    <3>2. Suffix(<<>>, Script("grasp"))
      BY <3>1, Scripts DEF Suffix
    <3>. QED  BY <2>1, <2>4, <3>2
  <2>8. Waits(3)'
    BY <2>6 DEF Waits
  <2>9. Claw'
    BY <2>1, <2>6, <2>7, <2>8 DEF Claw, ArmWork
  <2>. QED  BY <2>5, <2>9
<1>18. CASE TargetCallback
  <2>. DEFINE m == pos[1]
  <2>1. UNCHANGED <<arm, world, delivered>>
    BY <1>18 DEF TargetCallback
  <2>2. /\ nav'.command = nav.command /\ nav'.task = nav.task /\ nav'.drive = Nowhere
        /\ Only({"target_position"}) /\ Hears("target_position")
        /\ \/ m = Aligned /\ Goes("GET_TARGET", "GET_CORRECT") /\ nav'.position = nav.position
           \/ m # Aligned /\ Goes("GET_AREA", "TO_TARGET")
           \/ nav' = nav
    BY <1>1, <1>18, TargetCallbackDoes
  <2>3. UNCHANGED go /\ Shorter(pos', pos) /\ Len(pos) >= 1
    BY <2>2 DEF Only, Topics, Hears
  <2>4. Corrected' => Corrected
    BY <1>4, <2>3, ShorterKeeps DEF Corrected
  <2>5. CASE m = Aligned /\ Goes("GET_TARGET", "GET_CORRECT") /\ nav'.position = nav.position
    <3>1. Corrected
      BY <2>3, <2>5 DEF Corrected, Among
    <3>2. Facing'
      BY <2>1, <2>2, <2>5, <3>1 DEF Facing, Goes
    <3>3. Claw'
      BY <2>1, <2>2, <2>3, <2>5 DEF Claw, Goes, ArmWork
    <3>. QED  BY <3>2, <3>3
  <2>6. CASE m # Aligned /\ Goes("GET_AREA", "TO_TARGET")
    <3>1. ~Corrected'
      BY <1>1, <2>4, <2>6 DEF WheelRelay, Goes
    <3>2. Facing'
      BY <2>2, <2>6, <3>1 DEF Facing, Goes
    <3>3. Claw'
      BY <2>1, <2>2, <2>3, <2>6 DEF Claw, Goes, ArmWork
    <3>. QED  BY <3>2, <3>3
  <2>7. CASE nav' = nav
    BY <2>1, <2>3, <2>4, <2>7, HandlingAside
  <2>. QED  BY <2>2, <2>5, <2>6, <2>7
<1>19. CASE ActionCallback
  <2>1. /\ UNCHANGED <<arm, world, delivered>> /\ nav.drive = Nowhere /\ nav'.drive = Nowhere
        /\ nav'.state = AfterAction(nav.state) /\ nav'.command = nav.command
        /\ nav'.task = nav.task /\ nav'.position = nav.position /\ over # <<>>
    BY <1>3, <1>19 DEF ActionCallback, NavType, Listening, Receives
  <2>2. Only({"action_over"})
    <3>1. "action_over" \in Topics
      BY DEF Topics
    <3>. QED  BY <1>3, <1>19, <3>1, Heard DEF ActionCallback
  <2>3. UNCHANGED <<go, pos>>
    BY <2>2 DEF Only, Topics
  <2>4. nav.state \in ArmWork /\ arm.steps = <<>> /\ go = <<>>
    BY <1>1, <2>1 DEF ArmRelay
  <2>5. ~Waits(3)
    <3>1. Len(<<>>) = 0
      OBVIOUS
    <3>. QED  BY <2>4, <3>1 DEF Waits
  <2>6. Goes("GRASP", "TO_ORIGIN") \/ Goes("GET_ORIGIN", "TO_AREA")
    BY <2>1, <2>4 DEF AfterAction, ArmWork, Goes
  <2>7. ~Corrected'
    BY <1>1, <2>3, <2>4 DEF WheelRelay, ArmWork, Corrected
  <2>8. Facing'
    BY <2>1, <2>6, <2>7 DEF Facing, Goes
  <2>9. Claw'
    BY <2>1, <2>5, <2>6 DEF Claw, Goes, ArmWork
  <2>. QED  BY <2>8, <2>9
<1>20. CASE NavCallback
  <2>1. UNCHANGED <<nav, arm, world, delivered>>
    BY <1>20 DEF NavCallback
  <2>2. Only({"vision_on", "wheel_control"}) \/ Only({"vision_on"})
    BY <1>1, <1>20, NavCallbackDoes
  <2>3. UNCHANGED <<go, pos>>
    BY <2>2 DEF Only, Topics
  <2>. QED  BY <2>1, <2>3, HandlingAside DEF Corrected
<1>21. CASE SendTarget
  <2>. DEFINE m == <<vis.task, vis.target>>
  <2>1. UNCHANGED <<nav, arm, world, delivered>>
    BY <1>21 DEF SendTarget
  <2>2. Only({"target_position"}) /\ Says("target_position", m) /\ m # Aligned
    <3>1. "target_position" \in Topics /\ m \in Int \X Int
      BY <1>3 DEF Topics, VisType
    <3>2. m \in Message["target_position"]
      BY <3>1 DEF Message
    <3>3. m # Aligned
      BY DEF Aligned
    <3>. QED  BY <1>3, <1>21, <3>1, <3>2, <3>3, Said DEF SendTarget
  <2>3. UNCHANGED go /\ (pos' = pos \/ Grown(pos', pos, m))
    BY <2>2 DEF Only, Topics, Says
  <2>4. Corrected' => Corrected
    BY <1>4, <2>2, <2>3, GrownKeeps DEF Corrected
  <2>. QED  BY <2>1, <2>3, <2>4, HandlingAside
<1>22. CASE AlignFar
  <2>1. Only({"wheel_control"})
    <3>1. "wheel_control" \in Topics /\ "2" \in Message["wheel_control"]
      BY DEF Topics, Message, Words
    <3>. QED  BY <1>3, <1>22, <3>1, Said DEF AlignFar
  <2>2. UNCHANGED <<go, pos>>
    BY <2>1 DEF Only, Topics
  <2>. QED  BY <1>22, <2>2, HandlingAside DEF AlignFar, Corrected
<1>23. CASE AlignNear
  <2>1. UNCHANGED <<nav, arm, world, delivered>>
    BY <1>23 DEF AlignNear
  <2>2. vis.correcting /\ world.view = "near" /\ Only({"wheel_control", "target_position"})
    BY <1>1, <1>23, AlignNearDoes
  <2>3. UNCHANGED go /\ nav.state = "GET_TARGET"
    BY <1>1, <2>2 DEF Only, Topics, WheelRelay
  <2>4. Facing'
    BY <2>1, <2>2 DEF Facing
  <2>5. Claw'
    BY <2>1, <2>3 DEF Claw, ArmWork
  <2>. QED  BY <2>4, <2>5
<1>24. CASE Play
  <2>1. UNCHANGED <<nav, world, delivered>> /\ go # <<>> /\ arm.steps = <<>>
    BY <1>24 DEF Play, Receives
  <2>2. arm'.steps = Script(Head(go)) /\ arm'.holds = arm.holds
    BY <1>1, <1>24 DEF Play, TypeOK
  <2>3. Only({"navigate_over"}) /\ Hears("navigate_over")
    <3>1. "navigate_over" \in Topics
      BY DEF Topics
    <3>. QED  BY <1>3, <1>24, <3>1, Heard DEF Play
  <2>4. UNCHANGED pos /\ Shorter(go', go) /\ Head(go) = go[1] /\ Len(go) >= 1
    BY <2>3 DEF Only, Topics, Hears
  <2>5. go' = <<>>
    <3>1. Len(go) <= 1
      BY <1>1 DEF ArmRelay
    <3>. QED  BY <1>4, <2>4, <3>1, ShorterLast
  <2>6. Facing'
    BY <2>1, <2>4 DEF Facing, Corrected
  <2>7. Waits(3) /\ nav.state \in ArmWork
    BY <1>1, <2>1 DEF Waits, ArmRelay
  <2>8. nav.state = "GRASP" => arm'.steps = Script("grasp")
    BY <2>2, <2>4 DEF Claw
  <2>9. nav.state = "GET_ORIGIN" => arm'.steps = Script("release")
    BY <2>2, <2>4 DEF Claw
  <2>10. /\ Script("grasp") \in Seq(Steps) /\ Len(Script("grasp")) = 5
         /\ Script("release") \in Seq(Steps) /\ Len(Script("release")) = 3
    BY Scripts
  <2>11. Waits(3)'
    <3>1. Len(arm'.steps) >= 3
      <4>1. CASE nav.state = "GRASP"
        <5>1. arm'.steps = Script("grasp")
          BY <2>8, <4>1
        <5>2. Len(arm'.steps) = 5
          BY <2>10, <5>1, Zenon
        <5>. QED  BY <5>2
      <4>2. CASE nav.state = "GET_ORIGIN"
        <5>1. arm'.steps = Script("release")
          BY <2>9, <4>2
        <5>2. Len(arm'.steps) = 3
          BY <2>10, <5>1, Zenon
        <5>. QED  BY <5>2
      <4>. QED  BY <2>7, <4>1, <4>2 DEF ArmWork
    <3>. QED  BY <3>1 DEF Waits
  <2>12. /\ nav.state = "GRASP" => Suffix(arm.steps, Script("grasp"))'
         /\ nav.state = "GET_ORIGIN" => Suffix(arm.steps, Script("release"))'
    BY <2>8, <2>9, <2>10, SuffixOfItself
  <2>13. Claw'
    BY <2>1, <2>2, <2>5, <2>7, <2>11, <2>12 DEF Claw, ArmWork
  <2>. QED  BY <2>6, <2>13
<1>25. CASE PlayOn
  <2>. DEFINE steps == arm.steps
            step == Head(arm.steps)
            k == Len(arm.steps)
  <2>1. /\ UNCHANGED <<nav, world>> /\ steps # <<>> /\ arm'.steps = Tail(steps)
        /\ arm'.holds = Held(step) /\ steps \in Seq(Steps)
        /\ delivered' = IF step = "open" /\ arm.holds # NoClass
                        THEN Append(delivered, <<arm.holds, world.base>>) ELSE delivered
    BY <1>1, <1>25 DEF PlayOn, TypeOK
  <2>2. Only({"action_over"})
    <3>1. "action_over" \in Topics /\ "1" \in Message["action_over"]
      BY DEF Topics, Message, Ends
    <3>. QED  BY <1>3, <1>25, <3>1, Said DEF PlayOn, Only
  <2>3. UNCHANGED <<go, pos>>
    BY <2>2 DEF Only, Topics
  <2>4. go = <<>> /\ nav.state \in ArmWork
    BY <1>1, <2>1 DEF ArmRelay
  <2>5. Facing'
    BY <2>1, <2>3 DEF Facing, Corrected
  <2>6. k \in Nat /\ Len(arm'.steps) = k - 1
    <3>. HIDE DEF steps
    <3>1. Len(steps) \in Nat /\ Len(Tail(steps)) = Len(steps) - 1
      BY <2>1
    <3>. QED  BY <2>1, <3>1 DEF steps
  <2>7. (Waits(3) <=> k >= 3) /\ (Waits(3)' <=> k - 1 >= 3)
    BY <2>3, <2>4, <2>6 DEF Waits
  <2>8. CASE nav.state = "GRASP"
    <3>1. Suffix(steps, Script("grasp"))
      BY <2>8 DEF Claw
    <3>2. /\ Suffix(arm'.steps, Script("grasp")) /\ k \in 1..5
          /\ step = Script("grasp")[5 - k + 1]
      <4>1. Script("grasp") \in Seq(Steps) /\ Len(Script("grasp")) = 5
        BY Scripts
      <4>. HIDE DEF steps
      <4>2. /\ Suffix(Tail(steps), Script("grasp")) /\ Len(steps) \in 1..5
            /\ Head(steps) = Script("grasp")[5 - Len(steps) + 1]
        BY <2>1, <3>1, <4>1, SuffixTail
      <4>. QED  BY <2>1, <4>2 DEF steps
    <3>3. \/ k = 5 /\ step = "open"
          \/ k = 4 /\ step = "reach"
          \/ k = 3 /\ step = "close"
          \/ k = 2 /\ step = "lift"
          \/ k = 1 /\ step = "report"
      <4>1. /\ Script("grasp")[1] = "open" /\ Script("grasp")[2] = "reach"
            /\ Script("grasp")[3] = "close" /\ Script("grasp")[4] = "lift"
            /\ Script("grasp")[5] = "report"
        BY Scripts
      <4>. HIDE DEF k, step
      <4>. QED  BY <3>2, <4>1
    <3>4. arm.holds = IF k >= 3 THEN NoClass ELSE nav.position
      BY <2>7, <2>8 DEF Claw
    <3>5. world.view = "near" /\ world.faces = nav.position
      BY <2>8 DEF Facing
    <3>6. delivered' = delivered
      <4>. HIDE DEF k, step
      <4>1. step = "open" => arm.holds = NoClass
        BY <3>3, <3>4
      <4>. QED  BY <2>1, <4>1
    <3>7. arm'.holds = IF k - 1 >= 3 THEN NoClass ELSE nav.position
      <4>. HIDE DEF k, step
      <4>. QED  BY <2>1, <3>3, <3>4, <3>5 DEF Held
    <3>8. Suffix(arm.steps, Script("grasp"))'
      BY <3>2
    <3>9. Claw'
      BY <2>1, <2>3, <2>7, <2>8, <3>6, <3>7, <3>8 DEF Claw, ArmWork
    <3>. QED  BY <2>5, <3>9
  <2>9. CASE nav.state = "GET_ORIGIN"
    <3>1. Suffix(steps, Script("release"))
      BY <2>9 DEF Claw
    <3>2. /\ Suffix(arm'.steps, Script("release")) /\ k \in 1..3
          /\ step = Script("release")[3 - k + 1]
      <4>1. Script("release") \in Seq(Steps) /\ Len(Script("release")) = 3
        BY Scripts
      <4>. HIDE DEF steps
      <4>2. /\ Suffix(Tail(steps), Script("release")) /\ Len(steps) \in 1..3
            /\ Head(steps) = Script("release")[3 - Len(steps) + 1]
        BY <2>1, <3>1, <4>1, SuffixTail
      <4>. QED  BY <2>1, <4>2 DEF steps
    <3>3. \/ k = 3 /\ step = "open"
          \/ k = 2 /\ step = "home"
          \/ k = 1 /\ step = "report"
      <4>1. /\ Script("release")[1] = "open" /\ Script("release")[2] = "home"
            /\ Script("release")[3] = "report"
        BY Scripts
      <4>. HIDE DEF k, step
      <4>. QED  BY <3>2, <4>1
    <3>4. /\ arm.holds = IF k >= 3 THEN nav.position ELSE NoClass
          /\ Len(delivered) = IF k >= 3 THEN nav.task - 1 ELSE nav.task
          /\ nav.position = nav.command.classes[nav.task] /\ nav.position # NoClass
          /\ \A i \in 1..Len(delivered) : delivered[i] = <<nav.command.classes[i], Origin>>
      BY <2>7, <2>9 DEF Claw
    <3>5. world.base = Origin
      BY <2>9 DEF Facing
    <3>6. Suffix(arm.steps, Script("release"))'
      BY <3>2
    <3>7. arm'.holds = NoClass /\ ~(k - 1 >= 3)
      <4>. HIDE DEF k, step
      <4>. QED  BY <2>1, <3>3, <3>4 DEF Held
    <3>8. /\ Len(delivered') = nav.task
          /\ \A i \in 1..Len(delivered') : delivered'[i] = <<nav.command.classes[i], Origin>>
      <4>1. CASE step = "open"
        <5>1. delivered' = Append(delivered, <<nav.position, Origin>>) /\ Len(delivered) = nav.task - 1
          <6>. HIDE DEF k, step
          <6>1. k = 3
            BY <3>3, <4>1
          <6>2. arm.holds = nav.position /\ Len(delivered) = nav.task - 1
            BY <3>4, <6>1
          <6>. QED  BY <2>1, <3>4, <3>5, <4>1, <6>2
        <5>2. delivered \in Seq(Int \X Bases)
          BY <1>1 DEF TypeOK
        <5>3. /\ Len(delivered') = nav.task /\ delivered'[nav.task] = <<nav.position, Origin>>
              /\ \A i \in 1..Len(delivered) : delivered'[i] = delivered[i]
          BY <1>5, <5>1, <5>2
        <5>4. \A i \in 1..nav.task : i = nav.task \/ i \in 1..Len(delivered)
          BY <1>5, <5>1
        <5>. QED  BY <3>4, <5>3, <5>4
      <4>2. CASE step # "open"
        <5>. HIDE DEF k, step
        <5>1. delivered' = delivered
          BY <2>1, <4>2
        <5>2. ~(k >= 3)
          BY <3>3, <4>2
        <5>3. Len(delivered) = nav.task
          BY <3>4, <5>2
        <5>. QED  BY <3>4, <5>1, <5>3
      <4>. QED  BY <4>1, <4>2
    <3>9. Claw'
      BY <2>1, <2>3, <2>4, <2>7, <2>9, <3>4, <3>6, <3>7, <3>8 DEF Claw, ArmWork
    <3>. QED  BY <2>5, <3>9
  <2>. QED  BY <2>4, <2>8, <2>9 DEF ArmWork
<1>26. CASE WheelCallback
  <2>1. Only({"wheel_control"})
    <3>1. "wheel_control" \in Topics
      BY DEF Topics
    <3>. QED  BY <1>3, <1>26, <3>1, Heard DEF WheelCallback
  <2>2. UNCHANGED <<go, pos>>
    BY <2>1 DEF Only, Topics
  <2>. QED  BY <1>26, <2>2, HandlingAside DEF WheelCallback, Corrected
<1>27. CASE Turn \/ TurnPast \/ Approach \/ Drift
  <2>1. /\ UNCHANGED <<nav, arm, delivered, chan>> /\ world.view # "near"
        /\ world'.base = world.base /\ world'.faces = world.faces
    BY <1>1, <1>27 DEF Turn, TurnPast, Approach, Drift, Rolls, TypeOK
  <2>2. Facing'
    BY <2>1 DEF Facing, Corrected
  <2>3. Claw'
    BY <2>1 DEF Claw, Suffix, Waits
  <2>. QED  BY <2>2, <2>3
<1>. QED  BY <1>11, <1>12, <1>13, <1>14, <1>15, <1>16, <1>17, <1>18, <1>19, <1>20, <1>21,
             <1>22, <1>23, <1>24, <1>25, <1>26, <1>27 DEF Next

\* As long as no message found nobody, no drive failed, no node died and the
\* base did not drift off, what the arm let go of (move_arm.py:47-92) are the
\* objects of the command's tasks, in their order and none twice or left out,
\* each at the origin (navigate.py:127-174).
THEOREM PlanIsDelivered == Spec => []DeliversThePlan
<1>1. Init => Relay /\ Agreement /\ Handling
  BY StartRelay, StartAgreement, StartHandling DEF Handling
<1>2. ASSUME Relay, Agreement, Handling, [Next]_vars PROVE Relay' /\ Agreement' /\ Handling'
  <2>1. Relay' /\ Agreement'
    BY <1>2, StepRelay, RelayStutters, StepAgreement, AgreementStutters
  <2>2. CASE Next
    <3>1. CASE mishap' = {}
      <4>1. mishap = {}
        BY <2>2, <3>1, MishapsRemain
      <4>2. Facing /\ Claw
        BY <1>2, <4>1 DEF Handling
      <4>3. Facing' /\ Claw'
        BY <1>2, <2>2, <3>1, <4>1, <4>2, StepHandling
      <4>. QED  BY <2>1, <4>3 DEF Handling
    <3>2. CASE mishap' # {}
      BY <2>1, <3>2 DEF Handling
    <3>. QED  BY <3>1, <3>2
  <2>3. CASE UNCHANGED vars
    <3>1. Facing /\ Claw => Facing' /\ Claw'
      BY <2>3, HandlingAside DEF vars, Corrected
    <3>. QED  BY <1>2, <2>1, <2>3, <3>1 DEF Handling, vars
  <2>. QED  BY <1>2, <2>1, <2>2, <2>3
<1>3. Relay /\ Agreement /\ Handling => DeliversThePlan
  <2>. SUFFICES ASSUME Relay, Handling, mishap = {}, NEW i \in DOMAIN delivered
                PROVE  delivered[i] = <<nav.command.classes[i], Origin>>
    BY DEF DeliversThePlan
  <2>1. i \in 1..Len(delivered)
    BY DEF Relay, TypeOK
  <2>. QED  BY <2>1 DEF Handling, Claw
<1>. QED  BY <1>1, <1>2, <1>3, PTL DEF Spec
=============================================================================
