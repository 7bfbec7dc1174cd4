-------------------------- MODULE MCMonitoredMotion -------------------------
(***************************************************************************)
(* MonitoredMotion with one joint: one place on target and one off it, too *)
(* far apart to pass from one to the other at rest.                        *)
(***************************************************************************)
EXTENDS MonitoredMotion

MCTarget == [j \in Joints |-> 0]
MCPlaces == {[j \in Joints |-> p] : p \in {-1, 2}}
=============================================================================
