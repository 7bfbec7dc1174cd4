------------------------ MODULE MonitoredMotion_proofs ----------------------
(***************************************************************************)
(* Proofs about MonitoredMotion: that a final verdict of the monitor rests *)
(* on readings that were really offered, for any number of joints, any     *)
(* limits, and any feedback, however late, lost, replayed or reordered.    *)
(*                                                                         *)
(* The operators below speak of a history as a parameter, so that what is  *)
(* known of it can be carried over to the history with one more reading.   *)
(***************************************************************************)
EXTENDS MonitoredMotion, ExecutionMonitor_proofs, WellFoundedInduction

Offered == [reading : [now : Nat, stamp : Nat, positions : Positions,
                       available : BOOLEAN, controller : ControllerResults],
            stopping : BOOLEAN]

StampIn(h, k) == h[k].reading.stamp

UsableIn(h, k) == /\ h[k].reading.available
                  /\ h[k].reading.stamp <= h[k].reading.now
                  /\ h[k].reading.now - h[k].reading.stamp <= FeedbackTimeout

QuietIn(h, k, p) ==
  /\ StampIn(h, k) - StampIn(h, p) <= FeedbackTimeout
  /\ Still(h[p].reading.positions, h[k].reading.positions,
           StampIn(h, k) - StampIn(h, p))
  /\ h[k].stopping \/ AtTarget(Target, h[k].reading.positions)
  /\ h[k].reading.controller \in
       {"succeeded"} \cup (IF h[k].stopping THEN {"canceled"} ELSE {})

\* Readings a, ..., Len(h) are usable, of one phase and in the order of time.
RunFrom(h, a, stop) ==
  /\ a \in 1..Len(h)
  /\ \A k \in a..Len(h) : UsableIn(h, k) /\ h[k].stopping = stop
  /\ \A k \in a..Len(h) : \A j \in a..k : StampIn(h, j) <= StampIn(h, k)

\* Reading i is the first one since a that has the frame of reading k.
FirstIn(h, a, k, i) ==
  /\ i \in a..k /\ StampIn(h, i) = StampIn(h, k)
  /\ \A j \in a..i - 1 : StampIn(h, j) # StampIn(h, k)

QuietFrom(h, a, b) ==
  \A k \in b..Len(h) : \A p \in a..k - 1 :
    FirstIn(h, a, k, k) /\ FirstIn(h, a, k - 1, p) => QuietIn(h, k, p)

\* What the fields of a monitor say of the history: previous and lastStamp
\* are of the last new frame of a run, and since stableSince the run is quiet.
RemembersAs(h, m, a, p) ==
  /\ RunFrom(h, a, m.stopping)
  /\ FirstIn(h, a, Len(h), p)
  /\ m.previous = h[p].reading.positions /\ m.lastStamp = StampIn(h, Len(h))
  /\ m.stableSince >= 0 =>
       \E b \in a + 1..Len(h) : StampIn(h, b) = m.stableSince /\ QuietFrom(h, a, b)

Remembers(h, m) == \E a \in 1..Len(h) : \E p \in a..Len(h) : RemembersAs(h, m, a, p)

\* The verdict rests on a run that was quiet for the settling time.
EarnedBy(h, stop) ==
  \E b \in 2..Len(h) : \E a \in 1..b - 1 :
    /\ RunFrom(h, a, stop) /\ QuietFrom(h, a, b)
    /\ StampIn(h, Len(h)) - StampIn(h, b) >= SettlingTime

\* Readings that the monitor refused to judge end an execution or its phase,
\* and are forgotten with it.
Refused == {"failed", "timeout", "stop_unconfirmed"}

MTypeOK == /\ monitor \in Monitor /\ now \in Nat
           /\ verdict \in Verdicts \cup {"none"} /\ history \in Seq(Offered)
           /\ monitor.started => monitor.target = Target

MotionInv ==
  /\ MTypeOK
  /\ verdict \in {"failed", "timeout"} => ~monitor.stopping
  /\ ~monitor.started => verdict = "none"
  /\ verdict \in Refused \/ monitor.previous = NoPositions \/ Remembers(history, monitor)
  /\ verdict \in {"succeeded", "stopped"} => EarnedBy(history, monitor.stopping)
  /\ NeverTooLate

-----------------------------------------------------------------------------
\* First reports.

LEMMA Least ==
  ASSUME NEW T \in SUBSET Nat, T # {}
  PROVE  \E i \in T : \A j \in T : i <= j
<1> DEFINE R == OpToRel(<, Nat)
<1>1. IsWellFoundedOn(R, Nat)
  BY NatLessThanWellFounded
<1>2. PICK i \in T : \A j \in T : ~(<<j, i>> \in R)
  <2> HIDE DEF R
  <2> QED BY <1>1, WFMin
<1>3. \A j \in T : ~(j < i)
  BY <1>2 DEF OpToRel
<1> QED BY <1>3

\* Every reading of a run has a first report of its frame.
LEMMA FirstExists ==
  ASSUME NEW h \in Seq(Offered), NEW a \in 1..Len(h), NEW k \in a..Len(h)
  PROVE  \E i \in a..k : FirstIn(h, a, k, i)
<1> DEFINE T == {i \in a..k : StampIn(h, i) = StampIn(h, k)}
<1>1. T \in SUBSET Nat /\ k \in T
  OBVIOUS
<1>2. PICK i \in T : \A j \in T : i <= j
  <2> HIDE DEF T
  <2> QED BY <1>1, Least
<1>3. \A j \in a..i - 1 : StampIn(h, j) # StampIn(h, k)
  BY <1>2
<1> QED BY <1>2, <1>3 DEF FirstIn

LEMMA FirstIsUnique ==
  ASSUME NEW h, NEW a \in Nat, NEW k \in Nat, NEW i \in a..k, NEW j \in a..k,
         FirstIn(h, a, k, i), FirstIn(h, a, k, j)
  PROVE  i = j
BY DEF FirstIn

-----------------------------------------------------------------------------
\* One more reading.

LEMMA Longer ==
  ASSUME NEW h \in Seq(Offered), NEW e \in Offered
  PROVE  /\ Append(h, e) \in Seq(Offered) /\ Len(h) \in Nat
         /\ Len(Append(h, e)) = Len(h) + 1
         /\ \A k \in 1..Len(h) : Append(h, e)[k] = h[k]
         /\ Append(h, e)[Len(h) + 1] = e
OBVIOUS

LEMMA StampsAreNat ==
  ASSUME NEW h \in Seq(Offered)
  PROVE  \A k \in 1..Len(h) : StampIn(h, k) \in Nat
<1>1. \A k \in 1..Len(h) : h[k] \in Offered
  OBVIOUS
<1>2. \A e \in Offered : e.reading.stamp \in Nat
  BY DEF Offered
<1> QED BY <1>1, <1>2 DEF StampIn

\* A run, and what is first and quiet in it, is the same in a longer history.
LEMMA RunGrows ==
  ASSUME NEW h \in Seq(Offered), NEW e \in Offered, NEW stop, NEW a \in 1..Len(h),
         RunFrom(h, a, stop), e.stopping = stop,
         e.reading.available, e.reading.stamp <= e.reading.now,
         e.reading.now - e.reading.stamp <= FeedbackTimeout,
         StampIn(h, Len(h)) <= e.reading.stamp
  PROVE  RunFrom(Append(h, e), a, stop)
<1> DEFINE g == Append(h, e)
           n == Len(h)
<1>1. /\ n \in Nat /\ Len(g) = n + 1 /\ g[n + 1] = e
      /\ \A k \in 1..n : g[k] = h[k]
  BY Longer
<1>2. \A k \in 1..n : StampIn(g, k) = StampIn(h, k) /\ StampIn(h, k) \in Nat
  BY <1>1, StampsAreNat DEF StampIn
<1>3. StampIn(g, n + 1) = e.reading.stamp /\ e.reading.stamp \in Nat
  BY <1>1 DEF StampIn, Offered
<1> HIDE DEF g, n
<1>4. \A k \in a..n : UsableIn(g, k) /\ g[k].stopping = stop
  <2> TAKE k \in a..n
  <2>1. k \in 1..n /\ g[k] = h[k] /\ UsableIn(h, k) /\ h[k].stopping = stop
    BY <1>1 DEF RunFrom, n
  <2> QED BY <2>1 DEF UsableIn
<1>5. UsableIn(g, n + 1) /\ g[n + 1].stopping = stop
  BY <1>1 DEF UsableIn
<1>6. \A k \in a..n : \A j \in a..k : StampIn(g, j) <= StampIn(g, k)
  BY <1>1, <1>2 DEF RunFrom, n
<1>7. \A j \in a..n + 1 : StampIn(g, j) <= StampIn(g, n + 1)
  <2> TAKE j \in a..n + 1
  <2>1. CASE j = n + 1
    BY <1>3, <2>1
  <2>2. CASE j # n + 1
    <3>1. j \in a..n /\ n \in a..n /\ j \in 1..n /\ n \in 1..n
      BY <1>1, <2>2 DEF n
    <3>2. StampIn(h, j) <= StampIn(h, n)
      BY <3>1 DEF RunFrom, n
    <3>3. StampIn(h, n) <= e.reading.stamp
      BY DEF n
    <3> QED BY <1>2, <1>3, <3>1, <3>2, <3>3
  <2> QED BY <2>1, <2>2
<1>8. \A k \in a..n + 1 : k = n + 1 \/ k \in a..n
  BY <1>1
<1>9. a \in 1..n + 1
  BY <1>1 DEF n
<1> QED BY <1>1, <1>4, <1>5, <1>6, <1>7, <1>8, <1>9 DEF RunFrom, g, n

LEMMA FirstsStay ==
  ASSUME NEW h \in Seq(Offered), NEW e \in Offered, NEW a \in 1..Len(h),
         NEW k \in a..Len(h), NEW i
  PROVE  FirstIn(Append(h, e), a, k, i) <=> FirstIn(h, a, k, i)
<1>1. /\ Len(h) \in Nat /\ \A j \in 1..Len(h) : Append(h, e)[j] = h[j]
  BY Longer
<1>2. \A j \in a..k : j \in 1..Len(h) /\ StampIn(Append(h, e), j) = StampIn(h, j)
  BY <1>1 DEF StampIn
<1>3. i \in a..k => \A j \in a..i - 1 : j \in a..k
  OBVIOUS
<1>4. k \in a..k
  OBVIOUS
<1> QED BY <1>2, <1>3, <1>4 DEF FirstIn

LEMMA QuietStays ==
  ASSUME NEW h \in Seq(Offered), NEW e \in Offered, NEW a \in 1..Len(h),
         NEW b \in a + 1..Len(h) + 1, b = Len(h) + 1 \/ QuietFrom(h, a, b),
         \A p \in a..Len(h) :
           /\ FirstIn(Append(h, e), a, Len(h) + 1, Len(h) + 1)
           /\ FirstIn(h, a, Len(h), p)
           => QuietIn(Append(h, e), Len(h) + 1, p)
  PROVE  QuietFrom(Append(h, e), a, b)
<1> DEFINE g == Append(h, e)
           n == Len(h)
<1>1. /\ n \in Nat /\ Len(g) = n + 1 /\ \A k \in 1..n : g[k] = h[k]
  BY Longer
<1> SUFFICES ASSUME NEW k \in b..n + 1, NEW p \in a..k - 1,
                    FirstIn(g, a, k, k), FirstIn(g, a, k - 1, p)
             PROVE  QuietIn(g, k, p)
  BY <1>1 DEF QuietFrom
<1>2. k - 1 \in a..n
  BY <1>1
<1>3. FirstIn(h, a, k - 1, p)
  BY <1>2, FirstsStay
<1>4. CASE k = n + 1
  <2>1. k - 1 = n /\ p \in a..n
    BY <1>1, <1>4
  <2> QED BY <1>3, <1>4, <2>1
<1>5. CASE k # n + 1
  <2>1. k \in a..n /\ k \in b..n /\ k \in 1..n /\ p \in 1..n /\ QuietFrom(h, a, b)
    BY <1>1, <1>5
  <2>2. FirstIn(h, a, k, k)
    BY <2>1, FirstsStay
  <2>3. QuietIn(h, k, p)
    BY <1>3, <2>1, <2>2 DEF QuietFrom
  <2>4. g[k] = h[k] /\ g[p] = h[p]
    BY <1>1, <2>1
  <2> HIDE DEF g, n
  <2> QED BY <2>3, <2>4 DEF QuietIn, StampIn
<1> QED BY <1>4, <1>5

-----------------------------------------------------------------------------
\* What the monitor remembers after one more reading.

\* The same frame again.
LEMMA RemembersRepeated ==
  ASSUME NEW h \in Seq(Offered), NEW e \in Offered, NEW m \in Monitor,
         NEW m2 \in Monitor, Remembers(h, m), e.stopping = m.stopping,
         e.reading.available, e.reading.stamp <= e.reading.now,
         e.reading.now - e.reading.stamp <= FeedbackTimeout,
         e.reading.stamp = m.lastStamp,
         m2.stopping = m.stopping, m2.previous = m.previous,
         m2.lastStamp = m.lastStamp, m2.stableSince = m.stableSince
  PROVE  Remembers(Append(h, e), m2)
<1> DEFINE g == Append(h, e)
           n == Len(h)
<1>0. /\ n \in Nat /\ Len(g) = n + 1 /\ g \in Seq(Offered) /\ g[n + 1] = e
      /\ \A k \in 1..n : g[k] = h[k]
  BY Longer
<1>10. PICK a \in 1..n : \E p \in a..n : RemembersAs(h, m, a, p)
  BY DEF Remembers
<1>11. PICK p \in a..n : RemembersAs(h, m, a, p)
  BY <1>10
<1>1. /\ RunFrom(h, a, m.stopping) /\ FirstIn(h, a, n, p)
      /\ m.previous = h[p].reading.positions /\ m.lastStamp = StampIn(h, n)
      /\ m.stableSince >= 0 =>
           \E b \in a + 1..n : StampIn(h, b) = m.stableSince /\ QuietFrom(h, a, b)
  BY <1>11 DEF RemembersAs
<1>2. RunFrom(g, a, m2.stopping)
  <2>1. StampIn(h, n) <= e.reading.stamp
    BY <1>1 DEF Offered
  <2> QED BY <1>1, <2>1, RunGrows
<1>3. /\ \A k \in 1..n : StampIn(g, k) = StampIn(h, k)
      /\ StampIn(g, n + 1) = StampIn(g, n) /\ n \in 1..n
  BY <1>0, <1>1 DEF StampIn
<1>4. FirstIn(g, a, n + 1, p)
  <2>1. FirstIn(g, a, n, p)
    BY <1>0, <1>1, FirstsStay
  <2> HIDE DEF g, n
  <2> QED BY <1>0, <1>1, <1>3, <2>1 DEF FirstIn
<1>5. ~FirstIn(g, a, n + 1, n + 1)
  <2>1. n \in a..(n + 1) - 1
    BY <1>0
  <2> HIDE DEF g, n
  <2> QED BY <1>3, <2>1 DEF FirstIn
<1>6. ASSUME m2.stableSince >= 0
      PROVE  \E b \in a + 1..n + 1 : StampIn(g, b) = m2.stableSince /\ QuietFrom(g, a, b)
  <2>1. PICK b \in a + 1..n : StampIn(h, b) = m.stableSince /\ QuietFrom(h, a, b)
    BY <1>1, <1>6
  <2>2. b \in a + 1..n + 1 /\ b \in 1..n
    BY <1>0
  <2>3. QuietFrom(g, a, b)
    BY <1>5, <2>1, <2>2, QuietStays
  <2> QED BY <1>3, <2>1, <2>2, <2>3
<1>7. p \in a..n + 1 /\ p \in 1..n /\ a \in 1..n + 1
  BY <1>0
<1>8. m2.previous = g[p].reading.positions /\ m2.lastStamp = StampIn(g, n + 1)
  BY <1>0, <1>1, <1>3, <1>7
<1> HIDE DEF g, n
<1>9. Remembers(g, m2)
  BY <1>0, <1>2, <1>4, <1>6, <1>7, <1>8 DEF Remembers, RemembersAs
<1> QED BY <1>9 DEF g

\* A new frame that starts a run.
LEMMA RemembersStarted ==
  ASSUME NEW h \in Seq(Offered), NEW e \in Offered, NEW m2 \in Monitor,
         e.reading.available, e.reading.stamp <= e.reading.now,
         e.reading.now - e.reading.stamp <= FeedbackTimeout,
         m2.stopping = e.stopping, m2.previous = e.reading.positions,
         m2.lastStamp = e.reading.stamp, ~(m2.stableSince >= 0)
  PROVE  Remembers(Append(h, e), m2)
<1> DEFINE g == Append(h, e)
           n == Len(h)
<1>1. n \in Nat /\ Len(g) = n + 1 /\ g[n + 1] = e
  BY Longer
<1>2. StampIn(g, n + 1) = e.reading.stamp /\ e.reading.stamp \in Nat
  BY <1>1 DEF StampIn, Offered
<1> HIDE DEF g, n
<1>3. n + 1 \in 1..n + 1 /\ n + 1 \in n + 1..n + 1 /\ \A k \in n + 1..n + 1 : k = n + 1
  BY <1>1
<1>4. FirstIn(g, n + 1, n + 1, n + 1)
  BY <1>1, <1>2, <1>3 DEF FirstIn
<1>5. RunFrom(g, n + 1, m2.stopping)
  <2>1. \A k \in n + 1..n + 1 : UsableIn(g, k) /\ g[k].stopping = m2.stopping
    BY <1>1, <1>3 DEF UsableIn
  <2>2. \A k \in n + 1..n + 1 : \A j \in n + 1..k : StampIn(g, j) <= StampIn(g, k)
    BY <1>2, <1>3
  <2> QED BY <1>1, <1>3, <2>1, <2>2 DEF RunFrom
<1>6. Remembers(g, m2)
  <2>1. RemembersAs(g, m2, n + 1, n + 1)
    BY <1>1, <1>2, <1>4, <1>5 DEF RemembersAs
  <2> QED BY <1>1, <1>3, <2>1 DEF Remembers
<1> QED BY <1>6 DEF g

\* A new frame that finds the joints at rest.
LEMMA RemembersQuiet ==
  ASSUME NEW h \in Seq(Offered), NEW e \in Offered, NEW m \in Monitor,
         NEW m2 \in Monitor, Remembers(h, m), e.stopping = m.stopping,
         e.reading.available, e.reading.stamp <= e.reading.now,
         e.reading.now - e.reading.stamp <= FeedbackTimeout,
         e.reading.stamp > m.lastStamp,
         e.reading.stamp - m.lastStamp <= FeedbackTimeout,
         Still(m.previous, e.reading.positions, e.reading.stamp - m.lastStamp),
         e.stopping \/ AtTarget(Target, e.reading.positions),
         e.reading.controller \in
           {"succeeded"} \cup (IF e.stopping THEN {"canceled"} ELSE {}),
         m2.stopping = m.stopping, m2.previous = e.reading.positions,
         m2.lastStamp = e.reading.stamp,
         m2.stableSince = IF m.stableSince < 0 THEN e.reading.stamp
                          ELSE m.stableSince
  PROVE  Remembers(Append(h, e), m2)
<1> DEFINE g == Append(h, e)
           n == Len(h)
<1>0. /\ n \in Nat /\ Len(g) = n + 1 /\ g \in Seq(Offered) /\ g[n + 1] = e
      /\ \A k \in 1..n : g[k] = h[k]
  BY Longer
<1>10. PICK a \in 1..n : \E p \in a..n : RemembersAs(h, m, a, p)
  BY DEF Remembers
<1>11. PICK p \in a..n : RemembersAs(h, m, a, p)
  BY <1>10
<1>1. /\ RunFrom(h, a, m.stopping) /\ FirstIn(h, a, n, p)
      /\ m.previous = h[p].reading.positions /\ m.lastStamp = StampIn(h, n)
      /\ m.stableSince >= 0 =>
           \E b \in a + 1..n : StampIn(h, b) = m.stableSince /\ QuietFrom(h, a, b)
  BY <1>11 DEF RemembersAs
<1>2. /\ \A k \in 1..n : StampIn(g, k) = StampIn(h, k) /\ StampIn(h, k) \in Nat
      /\ StampIn(g, n + 1) = e.reading.stamp /\ e.reading.stamp \in Nat
      /\ n \in 1..n /\ n \in a..n /\ p \in 1..n /\ a \in 1..n + 1
      /\ n + 1 \in a + 1..n + 1 /\ n + 1 \in a..n + 1
  <2>1. e.reading.stamp \in Nat
    BY DEF Offered
  <2> QED BY <1>0, <1>1, <2>1, StampsAreNat DEF StampIn
<1>3. RunFrom(g, a, m2.stopping)
  <2>1. StampIn(h, n) <= e.reading.stamp
    BY <1>1, <1>2
  <2> QED BY <1>1, <2>1, RunGrows
<1>4. FirstIn(g, a, n + 1, n + 1)
  <2> SUFFICES ASSUME NEW j \in a..(n + 1) - 1 PROVE StampIn(g, j) # StampIn(g, n + 1)
    BY <1>2 DEF FirstIn
  <2>1. j \in a..n /\ j \in 1..n
    BY <1>0
  <2>2. StampIn(h, j) <= StampIn(h, n)
    BY <1>1, <1>2, <2>1 DEF RunFrom
  <2> HIDE DEF g, n
  <2> QED BY <1>1, <1>2, <2>1, <2>2
<1>5. QuietIn(g, n + 1, p)
  <2>1. /\ StampIn(g, p) = StampIn(h, n) /\ g[p] = h[p]
        /\ StampIn(g, n + 1) = e.reading.stamp /\ g[n + 1] = e
    BY <1>0, <1>1, <1>2 DEF FirstIn
  <2>2. /\ StampIn(g, p) = m.lastStamp /\ g[p].reading.positions = m.previous
    BY <1>1, <2>1
  <2> HIDE DEF g, n
  <2> QED BY <2>1, <2>2 DEF QuietIn
<1>6. \A i \in a..n : FirstIn(h, a, n, i) => QuietIn(g, n + 1, i)
  <2>1. \A i \in a..n : FirstIn(h, a, n, i) => i = p
    BY <1>0, <1>1, FirstIsUnique
  <2> QED BY <1>5, <2>1
<1>7. ASSUME m2.stableSince >= 0
      PROVE  \E b \in a + 1..n + 1 : StampIn(g, b) = m2.stableSince /\ QuietFrom(g, a, b)
  <2>1. CASE m.stableSince < 0
    <3>1. QuietFrom(g, a, n + 1)
      BY <1>2, <1>6, QuietStays
    <3> QED BY <1>2, <2>1, <3>1
  <2>2. CASE ~(m.stableSince < 0)
    <3>0. m2.stableSince = m.stableSince /\ m.stableSince >= 0
      BY <1>7, <2>2 DEF Monitor
    <3>1. PICK b \in a + 1..n : StampIn(h, b) = m.stableSince /\ QuietFrom(h, a, b)
      BY <1>1, <3>0
    <3>2. b \in a + 1..n + 1 /\ b \in 1..n
      BY <1>0
    <3>3. QuietFrom(g, a, b)
      BY <1>6, <3>1, <3>2, QuietStays
    <3> QED BY <1>2, <3>0, <3>1, <3>2, <3>3
  <2> QED BY <2>1, <2>2
<1>8. m2.previous = g[n + 1].reading.positions /\ m2.lastStamp = StampIn(g, n + 1)
  BY <1>0, <1>2
<1> HIDE DEF g, n
<1>9. Remembers(g, m2)
  BY <1>0, <1>2, <1>3, <1>4, <1>7, <1>8 DEF Remembers, RemembersAs
<1> QED BY <1>9 DEF g

\* Long enough at rest: the verdict is earned.
LEMMA RememberedIsEarned ==
  ASSUME NEW h \in Seq(Offered), NEW m \in Monitor, Remembers(h, m),
         m.stableSince >= 0, m.lastStamp - m.stableSince >= SettlingTime
  PROVE  EarnedBy(h, m.stopping)
<1>0. PICK a \in 1..Len(h) : \E p \in a..Len(h) : RemembersAs(h, m, a, p)
  BY DEF Remembers
<1>1. PICK b \in a + 1..Len(h) :
        /\ RunFrom(h, a, m.stopping) /\ m.lastStamp = StampIn(h, Len(h))
        /\ StampIn(h, b) = m.stableSince /\ QuietFrom(h, a, b)
  BY <1>0 DEF RemembersAs
<1>2. b \in 2..Len(h) /\ a \in 1..b - 1
  OBVIOUS
<1> QED BY <1>1, <1>2 DEF EarnedBy

-----------------------------------------------------------------------------
\* One call of update.

\* After a fresh frame that is judged, the monitor remembers the history with
\* that frame, and a final verdict is earned by it.
LEMMA ConsumeRemembers ==
  ASSUME NEW h \in Seq(Offered), NEW e \in Offered, NEW m \in Monitor,
         m.target = Target, e.stopping = m.stopping,
         m.previous = NoPositions \/ Remembers(h, m),
         Fresh(m, e.reading), e.reading.stamp # m.lastStamp
  PROVE  /\ Remembers(Append(h, e), Consume(m, e.reading).monitor)
         /\ Consume(m, e.reading).verdict \in {"succeeded", "stopped"} =>
              EarnedBy(Append(h, e), m.stopping)
<1> DEFINE r == e.reading
           since == SettledSince(m, r)
           m2 == [m EXCEPT !.lastNow = r.now, !.previous = r.positions,
                           !.lastStamp = r.stamp, !.stableSince = since]
           g == Append(h, e)
<1>0. /\ r \in [now : Nat, stamp : Nat, positions : Positions,
                available : BOOLEAN, controller : ControllerResults]
      /\ r \in Reading /\ e.stopping \in BOOLEAN
  BY DEF Offered, Reading
<1>1. /\ Consume(m, r).monitor = m2
      /\ Consume(m, r).verdict =
           (IF m.stopping
            THEN IF since >= 0 /\ r.stamp - since >= SettlingTime
                 THEN "stopped" ELSE "stopping"
            ELSE IF since >= 0 /\ r.stamp - since >= SettlingTime
                 THEN "succeeded" ELSE IF since >= 0 THEN "settling" ELSE "running")
  BY DEF Consume
<1>2. m2 \in Monitor /\ since \in Int
  <2>1. since \in Int
    BY <1>0 DEF SettledSince, Monitor, Never
  <2>2. r.now \in Int /\ r.stamp \in Int /\ r.positions \in Positions
    BY <1>0
  <2> HIDE DEF since, r
  <2> QED BY <2>1, <2>2 DEF Monitor
<1>3. /\ m2.stopping = m.stopping /\ m2.previous = r.positions
      /\ m2.lastStamp = r.stamp /\ m2.stableSince = since
  <2> HIDE DEF since
  <2> QED BY DEF Monitor
<1>4. /\ r.available /\ r.stamp <= r.now /\ r.now - r.stamp <= FeedbackTimeout
      /\ r.stamp > m.lastStamp
  BY <1>0 DEF Fresh, Monitor
<1>5. CASE ~(Stable(m, r) /\ ControllerDone(m, r))
  <2>1. ~(since >= 0)
    BY <1>5 DEF SettledSince, Never
  <2> HIDE DEF since, m2
  <2>2. Remembers(g, m2)
    BY <1>2, <1>3, <1>4, <2>1, RemembersStarted
  <2> QED BY <1>1, <2>1, <2>2
<1>6. CASE Stable(m, r) /\ ControllerDone(m, r)
  <2>1. /\ Baseline(m, r) = m.previous /\ m.previous # NoPositions
        /\ ~(m.lastStamp >= 0 /\ r.stamp - m.lastStamp > FeedbackTimeout)
        /\ m.stopping \/ AtTarget(m.target, r.positions)
        /\ Still(m.previous, r.positions, r.stamp - m.lastStamp)
    BY <1>6 DEF Stable, Baseline
  <2>2. Remembers(h, m)
    BY <2>1
  <2>3. m.lastStamp \in Nat
    <3>1. PICK a \in 1..Len(h) : \E p \in a..Len(h) : RemembersAs(h, m, a, p)
      BY <2>2 DEF Remembers
    <3>2. m.lastStamp = StampIn(h, Len(h)) /\ Len(h) \in 1..Len(h)
      BY <3>1 DEF RemembersAs
    <3> QED BY <3>2, StampsAreNat
  <2>4. r.stamp - m.lastStamp <= FeedbackTimeout
    BY <1>0, <2>1, <2>3, MonitorAssumption
  <2>5. r.controller \in {"succeeded"} \cup (IF e.stopping THEN {"canceled"} ELSE {})
    BY <1>6 DEF ControllerDone
  <2>6. since = IF m.stableSince < 0 THEN r.stamp ELSE m.stableSince
    BY <1>6 DEF SettledSince
  <2>7. e.stopping \/ AtTarget(Target, r.positions)
    BY <2>1
  <2> HIDE DEF since, m2
  <2>8. Remembers(g, m2)
    BY <1>2, <1>3, <1>4, <2>1, <2>2, <2>4, <2>5, <2>6, <2>7, RemembersQuiet
  <2>9. ASSUME Consume(m, r).verdict \in {"succeeded", "stopped"}
        PROVE  EarnedBy(g, m.stopping)
    <3>1. since >= 0 /\ r.stamp - since >= SettlingTime
      BY <1>1, <2>9
    <3>2. g \in Seq(Offered)
      BY Longer
    <3> HIDE DEF g
    <3> QED BY <1>2, <1>3, <2>8, <3>1, <3>2, RememberedIsEarned
  <2> QED BY <1>1, <2>8, <2>9
<1> QED BY <1>5, <1>6

LEMMA UpdateRemembers ==
  ASSUME NEW h \in Seq(Offered), NEW e \in Offered, NEW m \in Monitor,
         m.target = Target, e.stopping = m.stopping,
         m.previous = NoPositions \/ Remembers(h, m),
         NEW u, u = Update(m, e.reading)
  PROVE  /\ \/ u.verdict \in Refused
            \/ u.monitor.previous = NoPositions
            \/ Remembers(Append(h, e), u.monitor)
         /\ u.verdict \in {"succeeded", "stopped"} =>
              EarnedBy(Append(h, e), m.stopping)
<1> DEFINE r == e.reading
           seen == [m EXCEPT !.lastNow = r.now]
<1>0. r \in Reading
  BY DEF Offered, Reading
<1>1. CASE Expired(m, r.now)
  <2>1. u.verdict \in Refused
    BY <1>1 DEF Update, Refused
  <2> QED BY <2>1 DEF Refused
<1>2. CASE ~Expired(m, r.now) /\ ~Fresh(m, r)
  <2> DEFINE lost == [seen EXCEPT !.stableSince = Never, !.previous = NoPositions]
  <2>1. /\ u.monitor = lost
        /\ u.verdict \in {"stopping", "stale"}
    BY <1>2 DEF Update
  <2>2. lost.previous = NoPositions
    BY <1>0 DEF Monitor
  <2> QED BY <2>1, <2>2
<1>3. CASE ~Expired(m, r.now) /\ Fresh(m, r) /\ ControllerBroke(m, r)
  <2>1. u.verdict \in Refused
    BY <1>3 DEF Update, Refused, ControllerBroke
  <2> QED BY <2>1 DEF Refused
<1>4. CASE /\ ~Expired(m, r.now) /\ Fresh(m, r) /\ ~ControllerBroke(m, r)
           /\ r.stamp = m.lastStamp
  <2>1. u.monitor = seen /\ u.verdict \in {"stopping", "running"}
    BY <1>4 DEF Update
  <2>2. /\ seen \in Monitor /\ seen.stopping = m.stopping /\ seen.previous = m.previous
        /\ seen.lastStamp = m.lastStamp /\ seen.stableSince = m.stableSince
    BY <1>0 DEF Monitor, Reading
  <2> HIDE DEF seen
  <2>3. CASE Remembers(h, m)
    BY <1>4, <2>1, <2>2, <2>3, RemembersRepeated DEF Fresh
  <2>4. CASE m.previous = NoPositions
    BY <2>1, <2>2, <2>4
  <2> QED BY <2>3, <2>4
<1>5. CASE /\ ~Expired(m, r.now) /\ Fresh(m, r) /\ ~ControllerBroke(m, r)
           /\ r.stamp # m.lastStamp
  <2>1. u = Consume(m, r)
    BY <1>5 DEF Update
  <2> QED BY <1>5, <2>1, ConsumeRemembers
<1> QED BY <1>1, <1>2, <1>3, <1>4, <1>5

-----------------------------------------------------------------------------
\* The steps of the motion.

LEMMA NewMonitorType == NewMonitor \in Monitor /\ ~NewMonitor.started
                          /\ NewMonitor.previous = NoPositions
<1>1. [j \in Joints |-> 0] \in Positions
  BY DEF Positions
<1> QED BY <1>1 DEF NewMonitor, Monitor, Never

LEMMA ReadingsAreOffered ==
  ASSUME NEW t \in Nat, NEW r \in Readings(t), NEW stop \in BOOLEAN
  PROVE  [reading |-> r, stopping |-> stop] \in Offered /\ r \in Reading /\ r.now = t
<1>1. /\ \A s \in 0..t : s \in Nat
      /\ Places \subseteq Positions /\ Target \in Positions
      /\ "running" \in ControllerResults
  BY MotionAssumption DEF ControllerResults
<1>2. /\ r \in [now : Nat, stamp : Nat, positions : Positions,
                available : BOOLEAN, controller : ControllerResults]
      /\ r.now = t
  <2>1. CASE r \in [now : {t}, stamp : 0..t, positions : Places, available : {TRUE},
                    controller : ControllerResults]
    BY <1>1, <2>1
  <2>2. CASE r \in [now : {t}, stamp : {0}, positions : {Target},
                    available : {FALSE}, controller : {"running"}]
    <3>1. /\ t \in Nat /\ 0 \in Nat /\ Target \in Positions /\ FALSE \in BOOLEAN
          /\ "running" \in ControllerResults
      BY <1>1
    <3>2. r = [now |-> t, stamp |-> 0, positions |-> Target, available |-> FALSE,
               controller |-> "running"]
      BY <2>2
    <3> QED BY <3>1, <3>2
  <2> QED BY <2>1, <2>2 DEF Readings
<1> QED BY <1>2 DEF Offered, Reading

LEMMA MotionInit == MInit => MotionInv
<1> SUFFICES ASSUME MInit PROVE MotionInv
  OBVIOUS
<1>1. MTypeOK
  BY NewMonitorType DEF MInit, MTypeOK
<1> QED BY <1>1, NewMonitorType DEF MInit, MotionInv, NeverTooLate

LEMMA UpdateKeepsStarted ==
  ASSUME NEW m \in Monitor, NEW r \in Reading
  PROVE  Update(m, r).monitor.started = m.started
  BY DEF Update, Consume, Monitor

\* Requesting a stop forgets the frames unless one was requested before.
LEMMA AskStopForgets ==
  ASSUME NEW m \in Monitor, NEW t \in Int
  PROVE  /\ RequestStop(m, t).target = m.target
         /\ RequestStop(m, t).started = m.started
         /\ m.stopping => RequestStop(m, t) = m
         /\ ~m.stopping => RequestStop(m, t).previous = NoPositions
  BY DEF RequestStop, Monitor

LEMMA StartForgets ==
  ASSUME NEW m \in Monitor, NEW target \in Positions, NEW t \in Int, NEW timeout \in Int
  PROVE  /\ Start(m, target, t, timeout).target = target
         /\ Start(m, target, t, timeout).previous = NoPositions
         /\ Start(m, target, t, timeout).started
<1> DEFINE until == t + timeout
<1>1. Start(m, target, t, timeout) =
        [m EXCEPT !.target = target, !.previous = NoPositions, !.deadline = until,
                  !.lastNow = t, !.lastStamp = Never, !.stableSince = Never,
                  !.stopping = FALSE, !.started = TRUE]
  BY DEF Start
<1> HIDE DEF until
<1> QED BY <1>1 DEF Monitor

LEMMA MotionStep == MotionInv /\ [MNext]_mvars => MotionInv'
<1> SUFFICES ASSUME MotionInv, [MNext]_mvars PROVE MotionInv'
  OBVIOUS
<1>0. /\ monitor \in Monitor /\ now \in Nat /\ history \in Seq(Offered)
      /\ verdict \in Verdicts \cup {"none"}
      /\ monitor.started => monitor.target = Target
      /\ verdict \in {"failed", "timeout"} => ~monitor.stopping
      /\ ~monitor.started => verdict = "none"
      /\ verdict \in Refused \/ monitor.previous = NoPositions
           \/ Remembers(history, monitor)
      /\ monitor.stopping \in BOOLEAN
  BY DEF MotionInv, MTypeOK, Monitor
<1>1. CASE StartMotion
  <2>1. PICK timeout \in Timeouts : monitor' = Start(monitor, Target, now, timeout)
    BY <1>1 DEF StartMotion
  <2>2. timeout \in Int /\ Target \in Positions /\ now \in Int
    BY <1>0, MotionAssumption
  <2>3. /\ monitor' \in Monitor /\ monitor'.target = Target
        /\ monitor'.previous = NoPositions /\ monitor'.started
    BY <1>0, <2>1, <2>2, StartType, StartForgets
  <2>4. verdict' = "running" /\ UNCHANGED <<now, history>>
    BY <1>1 DEF StartMotion
  <2> QED BY <1>0, <2>3, <2>4 DEF MotionInv, MTypeOK, NeverTooLate, Verdicts
<1>2. CASE AskStop
  <2>1. /\ monitor' = RequestStop(monitor, now) /\ verdict' = "stopping"
        /\ monitor.started /\ verdict \notin Final /\ UNCHANGED <<now, history>>
    BY <1>2 DEF AskStop
  <2>2. /\ monitor' \in Monitor /\ monitor'.started /\ monitor'.target = Target
    BY <1>0, <2>1, RequestStopType, AskStopForgets
  <2>3. monitor'.previous = NoPositions \/ Remembers(history, monitor')
    <3>1. CASE ~monitor.stopping
      BY <1>0, <2>1, <3>1, AskStopForgets
    <3>2. CASE monitor.stopping
      <4>1. monitor' = monitor
        BY <1>0, <2>1, <3>2, AskStopForgets
      <4>2. verdict \notin Refused
        BY <1>0, <2>1, <3>2 DEF Refused, Final
      <4> QED BY <1>0, <4>1, <4>2
    <3> QED BY <3>1, <3>2
  <2> QED BY <1>0, <2>1, <2>2, <2>3 DEF MotionInv, MTypeOK, NeverTooLate, Verdicts
<1>3. CASE Observe
  <2>1. /\ monitor.started /\ verdict \notin Final \cup MustStop
        /\ now' = now + 1 /\ now' \in Nat
    BY <1>0, <1>3 DEF Observe
  <2>2. PICK r \in Readings(now') :
          /\ monitor' = Update(monitor, r).monitor
          /\ verdict' = Update(monitor, r).verdict
          /\ history' = Append(history, [reading |-> r, stopping |-> monitor.stopping])
    BY <1>3 DEF Observe
  <2> DEFINE e == [reading |-> r, stopping |-> monitor.stopping]
             u == Update(monitor, r)
  <2>3. e \in Offered /\ r \in Reading /\ r.now = now'
    BY <1>0, <2>1, ReadingsAreOffered
  <2>4. /\ monitor' \in Monitor /\ verdict' \in Verdicts
        /\ monitor'.stopping = monitor.stopping /\ monitor'.target = monitor.target
        /\ monitor'.deadline = monitor.deadline
        /\ monitor'.stopDeadline = monitor.stopDeadline
    BY <1>0, <2>2, <2>3, UpdateType, UpdateFrame
  <2>5. verdict \notin Refused
    BY <2>1 DEF Refused, Final, MustStop
  <2>6. e.reading = r /\ e.stopping = monitor.stopping
    OBVIOUS
  <2> HIDE DEF e
  <2>7. /\ \/ u.verdict \in Refused
           \/ u.monitor.previous = NoPositions
           \/ Remembers(Append(history, e), u.monitor)
        /\ u.verdict \in {"succeeded", "stopped"} =>
             EarnedBy(Append(history, e), monitor.stopping)
    BY <1>0, <2>1, <2>3, <2>5, <2>6, UpdateRemembers
  <2>8. history' = Append(history, e) /\ history' \in Seq(Offered)
    BY <1>0, <2>2, <2>3, Longer DEF e
  <2>9. NeverTooLate'
    <3>1. ASSUME verdict' \in {"succeeded", "stopped"}
          PROVE  /\ ~Expired(monitor, now') /\ (verdict' = "stopped" <=> monitor.stopping)
      BY <1>0, <2>2, <2>3, <3>1, FinalVerdict
    <3>2. monitor.deadline \in Int /\ monitor.stopDeadline \in Int
      BY <1>0 DEF Monitor
    <3> QED BY <2>1, <2>4, <3>1, <3>2 DEF NeverTooLate, Expired
  <2>10. verdict' \in {"failed", "timeout"} => ~monitor.stopping
    BY <1>0, <2>2, <2>3, DeadlineVerdict
  <2>11. monitor'.started
    BY <1>0, <2>1, <2>2, UpdateKeepsStarted, <2>3
  <2> QED BY <1>0, <2>1, <2>2, <2>4, <2>7, <2>8, <2>9, <2>10, <2>11
      DEF MotionInv, MTypeOK
<1>4. CASE UNCHANGED mvars
  BY <1>4 DEF mvars, MotionInv, MTypeOK, NeverTooLate
<1> QED BY <1>1, <1>2, <1>3, <1>4 DEF MNext

LEMMA MotionInvariant == MSpec => []MotionInv
  BY MotionInit, MotionStep, PTL DEF MSpec

\* A verdict in favour of the motion comes before its deadline and is never
\* given once a stop was asked for; a stop is confirmed only before its own
\* deadline, whatever frames were lost or late (ExecutionMonitor::update).
THEOREM NeverTooLateHolds == MSpec => []NeverTooLate
<1>1. MotionInv => NeverTooLate
  BY DEF MotionInv
<1> QED BY <1>1, MotionInvariant, PTL

\* The run that earned a verdict is one that the property can point to.
LEMMA EarnedIsSettled ==
  ASSUME history \in Seq(Offered), EarnedBy(history, monitor.stopping)
  PROVE  \E b \in 2..Len(history) : \E a \in 1..b - 1 : SettledOver(a, b)
<1>1. PICK b \in 2..Len(history) :
        \E a \in 1..b - 1 :
          /\ RunFrom(history, a, monitor.stopping) /\ QuietFrom(history, a, b)
          /\ StampIn(history, Len(history)) - StampIn(history, b) >= SettlingTime
  BY DEF EarnedBy
<1>2. PICK a \in 1..b - 1 :
        /\ RunFrom(history, a, monitor.stopping) /\ QuietFrom(history, a, b)
        /\ StampIn(history, Len(history)) - StampIn(history, b) >= SettlingTime
  BY <1>1
<1> DEFINE last == Len(history)
<1>3. /\ \A k \in a..last : Usable(k) /\ history[k].stopping = monitor.stopping
      /\ \A k \in a + 1..last : At(k).stamp >= At(k - 1).stamp
      /\ At(last).stamp - At(b).stamp >= SettlingTime
  <2>1. \A k \in a..last : Usable(k) /\ history[k].stopping = monitor.stopping
    BY <1>2 DEF RunFrom, UsableIn, Usable, At
  <2>2. \A k \in a + 1..last : At(k).stamp >= At(k - 1).stamp
    <3> TAKE k \in a + 1..last
    <3>1. k \in a..last /\ k - 1 \in a..k /\ k \in 1..last /\ k - 1 \in 1..last
      OBVIOUS
    <3>2. StampIn(history, k - 1) <= StampIn(history, k)
      BY <1>2, <3>1 DEF RunFrom
    <3>3. StampIn(history, k - 1) \in Nat /\ StampIn(history, k) \in Nat
      BY <3>1, StampsAreNat
    <3> QED BY <3>2, <3>3 DEF StampIn, At
  <2> QED BY <1>2, <2>1, <2>2 DEF StampIn, At
<1>4. \A k \in a..last : /\ FirstReport(a, k) \in a..k
                         /\ FirstIn(history, a, k, FirstReport(a, k))
  <2> TAKE k \in a..last
  <2>1. a \in 1..last
    OBVIOUS
  <2>2. PICK i \in a..k : FirstIn(history, a, k, i)
    BY <2>1, FirstExists
  <2>3. /\ At(i).stamp = At(k).stamp
        /\ \A j \in a..i - 1 : At(j).stamp # At(k).stamp
    BY <2>2 DEF FirstIn, StampIn, At
  <2>4. /\ FirstReport(a, k) \in a..k /\ At(FirstReport(a, k)).stamp = At(k).stamp
        /\ \A j \in a..FirstReport(a, k) - 1 : At(j).stamp # At(k).stamp
    BY <2>3 DEF FirstReport
  <2> QED BY <2>4 DEF FirstIn, StampIn, At
<1>5. \A k \in b..last : FirstReport(a, k) = k => Quiet(k, FirstReport(a, k - 1))
  <2> SUFFICES ASSUME NEW k \in b..last, FirstReport(a, k) = k
               PROVE  Quiet(k, FirstReport(a, k - 1))
    OBVIOUS
  <2> DEFINE p == FirstReport(a, k - 1)
  <2>1. k \in a..last /\ k - 1 \in a..last
    OBVIOUS
  <2>2. FirstIn(history, a, k, k) /\ FirstIn(history, a, k - 1, p) /\ p \in a..k - 1
    BY <1>4, <2>1
  <2> HIDE DEF p
  <2>3. QuietIn(history, k, p)
    BY <1>2, <2>2 DEF QuietFrom
  <2>4. Quiet(k, p)
    BY <2>3 DEF QuietIn, Quiet, StampIn, At
  <2> QED BY <2>4 DEF p
<1> QED BY <1>3, <1>5 DEF SettledOver

\* A success, or a confirmed stop, rests on frames that were really offered:
\* an unbroken run of fresh frames in order, at rest between any two new ones
\* and (for success) on target, with the controller ended, for the whole
\* settling time (ExecutionMonitor::update, execution_monitor.md).
THEOREM FinalVerdictsAreEarned == MSpec => []FinalVerdictIsEarned
<1>1. MotionInv => FinalVerdictIsEarned
  BY EarnedIsSettled DEF MotionInv, MTypeOK, FinalVerdictIsEarned
<1> QED BY <1>1, MotionInvariant, PTL
=============================================================================
