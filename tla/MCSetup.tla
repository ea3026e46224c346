------------------------------ MODULE MCSetup -------------------------------
(* The two deployments of the scripts, on one machine (run_rep.sh) and on  *)
(* three (run_3_server_experiment.sh), with the distances between the ports*)
(* scaled down: 1200, 2300 and 1300 for the pairs, 50 between two sockets. *)
EXTENDS SetupProperties

MCDeployments == {[p \in Party |-> "localhost"], <<"instance_1", "instance_2", "instance_3">>}
MCBasePort == <<0, 20, 4>>
=============================================================================
