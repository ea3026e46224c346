---------------------------- MODULE MCOptimalCHT ----------------------------
(* Every input of a small table, for TLC. *)
EXTENDS OptimalCHTProperties
=============================================================================
