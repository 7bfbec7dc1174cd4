------------------------- MODULE MCCommandOwnership -------------------------
(***************************************************************************)
(* A simulation, a fake server, a legacy script and two HTTP nodes, one of *)
(* them for another robot name on an end point of the first.               *)
(***************************************************************************)
EXTENDS CommandOwnership

MCNeeds == [sim |-> <<"zzxrobot">>, fake |-> <<"zzxrobot">>, legacy |-> <<"zzxrobot">>,
            http |-> <<"zzxrobot", "18087", "18088">>,
            other |-> <<"spare", "18087", "18089">>]
MCProducers == DOMAIN MCNeeds
MCProfile == [p \in MCProducers |-> IF p = "other" THEN "http" ELSE p]
MCKillable == MCProducers \ {"sim"}
=============================================================================
