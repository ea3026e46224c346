------------------------------ MODULE MCGarble ------------------------------
(* Circuits of three gates on two inputs for TLC: an AND, a gate of any    *)
(* type, and an AND that uses its output.                                  *)
EXTENDS GarbleProperties

And(i, j, k) == [type |-> "AND", in1 |-> i, in2 |-> j, out |-> k]

MCCircuits ==
    {[num_input |-> 2, num_output |-> 2, num_wire |-> 5,
      gates |-> <<And(1, 2, 3), [type |-> type, in1 |-> 3, in2 |-> 2, out |-> 4], And(4, 1, 5)>>] :
        type \in {"AND", "XOR", "INV", "EQW"}}
=============================================================================
