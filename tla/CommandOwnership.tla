-------------------------- MODULE CommandOwnership --------------------------
(***************************************************************************)
(* Who may command a robot on one host.  Every producer of commands takes  *)
(* file locks without waiting: CommandLease in the HTTP node and in the    *)
(* launch of the simulation, the same protocol in the C++ server and in    *)
(* the legacy arm script.  The HTTP node also takes one for each end point *)
(* so that another name for the robot does not reach the same device.      *)
(* "live" is what the locks are for: the process, or the controllers it    *)
(* started, can still act on commands.                                     *)
(***************************************************************************)
EXTENDS Integers, Sequences

CONSTANTS Producers,  \* the processes that are started, each once
          Profile,    \* "fake", "http", "sim" or "legacy"
          Needs,      \* the locks of each in the order taken: the robot's
                      \* first, then the end points, sorted
          SimRobot,   \* the only ownership_id the simulation accepts
          Killable    \* the processes that may be killed

LocksOf(p) == {Needs[p][i] : i \in 1..Len(Needs[p])}
Locks == UNION {LocksOf(p) : p \in Producers}

VARIABLES holders, \* who holds each lock
          phase,   \* "new", "taking", "up", "closing" or "gone"
          taken,   \* how many of its locks each has taken
          live

leaseVars == <<holders, phase, taken, live>>

LeaseInit ==
  /\ holders = [l \in Locks |-> {}]
  /\ phase = [p \in Producers |-> "new"]
  /\ taken = [p \in Producers |-> 0]
  /\ live = [p \in Producers |-> FALSE]

Freed(p) == [l \in Locks |-> holders[l] \ {p}]

\* The simulation uses fixed controller names; the legacy script starts only
\* if its environment asks for it.
Begin(p, wanted) ==
  /\ phase[p] = "new"
  /\ phase' = [phase EXCEPT ![p] =
       CASE Profile[p] = "sim"    -> IF Needs[p][1] = SimRobot THEN "taking" ELSE "gone"
         [] Profile[p] = "legacy" -> IF wanted THEN "taking" ELSE "gone"
         [] OTHER                 -> "taking"]
  /\ UNCHANGED <<holders, taken, live>>

\* One non-blocking attempt; a refusal raises, which ends the process and
\* closes what it had opened.
TryLock(p) ==
  /\ phase[p] = "taking" /\ taken[p] < Len(Needs[p])
  /\ LET l == Needs[p][taken[p] + 1] IN
     IF holders[l] = {}
     THEN /\ holders' = [holders EXCEPT ![l] = {p}]
          /\ taken' = [taken EXCEPT ![p] = @ + 1]
          /\ UNCHANGED phase
     ELSE /\ holders' = Freed(p)
          /\ phase' = [phase EXCEPT ![p] = "gone"]
          /\ UNCHANGED taken
  /\ UNCHANGED live

Serve(p) ==
  /\ phase[p] = "taking" /\ taken[p] = Len(Needs[p])
  /\ phase' = [phase EXCEPT ![p] = "up"]
  /\ live' = [live EXCEPT ![p] = TRUE]
  /\ UNCHANGED <<holders, taken>>

\* The C++ server and the legacy script keep their lock until they exit.
Exit(p) ==
  /\ phase[p] = "up" /\ Profile[p] \in {"fake", "legacy"}
  /\ phase' = [phase EXCEPT ![p] = "gone"]
  /\ live' = [live EXCEPT ![p] = FALSE]
  /\ holders' = Freed(p)
  /\ UNCHANGED taken

\* The HTTP node shuts its pool down, waiting for the jobs, and only then
\* gives up the end points, one by one, and the robot.
Drain(p) ==
  /\ phase[p] = "up" /\ Profile[p] = "http"
  /\ phase' = [phase EXCEPT ![p] = "closing"]
  /\ live' = [live EXCEPT ![p] = FALSE]
  /\ UNCHANGED <<holders, taken>>

GiveBack(p) ==
  /\ phase[p] = "closing" /\ Profile[p] = "http"
  /\ \E l \in LocksOf(p) :
       /\ p \in holders[l]
       /\ l = Needs[p][1] => \A k \in LocksOf(p) : p \in holders[k] => k = l
       /\ holders' = [holders EXCEPT ![l] = @ \ {p}]
  /\ UNCHANGED <<phase, taken, live>>

Leave(p) ==
  /\ phase[p] = "closing" /\ Profile[p] = "http"
  /\ \A l \in LocksOf(p) : p \notin holders[l]
  /\ phase' = [phase EXCEPT ![p] = "gone"]
  /\ UNCHANGED <<holders, taken, live>>

\* The launch of the simulation gives its lease up when the shutdown begins;
\* the launch system interrupts what it started and waits for it after that.
Release(p) ==
  /\ phase[p] = "up" /\ Profile[p] = "sim"
  /\ phase' = [phase EXCEPT ![p] = "closing"]
  /\ holders' = Freed(p)
  /\ UNCHANGED <<taken, live>>

ControllersExit(p) ==
  /\ phase[p] \in {"closing", "gone"} /\ Profile[p] = "sim" /\ live[p]
  /\ live' = [live EXCEPT ![p] = FALSE]
  /\ phase' = [phase EXCEPT ![p] = "gone"]
  /\ UNCHANGED <<holders, taken>>

\* The operating system closes the files of a killed process; the
\* controllers of the simulation are processes of their own.
Kill(p) ==
  /\ p \in Killable /\ phase[p] \notin {"new", "gone"}
  /\ phase' = [phase EXCEPT ![p] = "gone"]
  /\ live' = [live EXCEPT ![p] = @ /\ Profile[p] = "sim"]
  /\ holders' = Freed(p)
  /\ UNCHANGED taken

LeaseStep(p) ==
  \/ \E wanted \in BOOLEAN : Begin(p, wanted)
  \/ TryLock(p)
  \/ Serve(p)
  \/ Exit(p)
  \/ Drain(p)
  \/ GiveBack(p)
  \/ Leave(p)
  \/ Release(p)
  \/ ControllersExit(p)
  \/ Kill(p)

LeaseNext == \E p \in Producers : LeaseStep(p)
LeaseSpec == LeaseInit /\ [][LeaseNext]_leaseVars

-----------------------------------------------------------------------------
\* Two producers that need a lock in common are never both live, whatever
\* their profiles: what the single ownership of commands is to ensure.
Rivals(p, q) == p # q /\ LocksOf(p) \cap LocksOf(q) # {}
OneProducer ==
  \A p, q \in Producers : Rivals(p, q) => ~(live[p] /\ live[q])

\* The same, but for a simulation whose launch is no longer up.
Orphaned(p) == Profile[p] = "sim" /\ phase[p] # "up"
OneProducerButOrphans ==
  \A p, q \in Producers :
    Rivals(p, q) /\ ~Orphaned(p) /\ ~Orphaned(q) => ~(live[p] /\ live[q])

LeaseTypeOK ==
  /\ holders \in [Locks -> SUBSET Producers]
  /\ phase \in [Producers -> {"new", "taking", "up", "closing", "gone"}]
  /\ taken \in [Producers -> Nat]
  /\ live \in [Producers -> BOOLEAN]

\* A process that takes its locks holds those it counted, one that is up all.
OneHolder == \A l \in Locks : \A p, q \in holders[l] : p = q
Holds(p) ==
  /\ phase[p] = "new" => taken[p] = 0
  /\ phase[p] = "taking" =>
       /\ taken[p] <= Len(Needs[p])
       /\ \A i \in 1..taken[p] : p \in holders[Needs[p][i]]
  /\ phase[p] = "up" => \A l \in LocksOf(p) : p \in holders[l]
  /\ live[p] => phase[p] = "up" \/ Orphaned(p)
LeaseInv == LeaseTypeOK /\ OneHolder /\ \A p \in Producers : Holds(p)
=============================================================================
