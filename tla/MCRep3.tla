------------------------------- MODULE MCRep3 -------------------------------
(* Every program of the given length, for TLC. *)
EXTENDS Rep3Properties
=============================================================================
