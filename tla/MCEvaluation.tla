---------------------------- MODULE MCEvaluation ----------------------------
(***************************************************************************)
(* Calls of compute for TLC: the circuits of the ORAM for addresses of two *)
(* bits, and a small circuit on every way the copies are cut.              *)
(***************************************************************************)
EXTENDS EvaluationProperties

(* A circuit in the manner of LowMC_reuse_wires.txt: a wire nobody writes  *)
(* is inverted to give the constant one, and the outputs of a MAND take    *)
(* the wires of its inputs.  The first and the last MAND are of the same   *)
(* width, which on one copy is no number of blocks; one between is not.    *)
MCReuse ==
    Circuit(<<Gate("INV", <<Block>>, <<Block + 1>>),
              Gate("MAND", <<0, 1, 2, 1, 2, 3>>, <<1, 0, 2>>),
              Gate("XOR", <<0, Block + 1>>, <<0>>),
              Gate("MAND", <<3, 4, 4, 1>>, <<4, 0>>),
              Gate("MAND", <<2, 3>>, <<Block>>),
              Gate("EQW", <<Block>>, <<Block + 1>>),
              Gate("MAND", <<3, 3, 3, 1, 2, 4>>, <<2, 1, 3>>)>>,
            Block + 2, Block, Block)

MCCalls ==
    {SharedCall(MCReuse, n) : n \in {1, 2, 4, 5, 7}}
        \cup {RelabelCall(1, n) : n \in 1 .. 2}
        \cup {SharedCall(xy_if_xs_equal, n) : n \in {1, 3}}
        \cup {SharedCall(compare_swap, 2)}
=============================================================================
