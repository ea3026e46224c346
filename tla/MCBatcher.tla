----------------------------- MODULE MCBatcher ------------------------------
(* Every array of up to MaxLen dummies and real elements, for TLC. *)
EXTENDS BatcherProperties
=============================================================================
