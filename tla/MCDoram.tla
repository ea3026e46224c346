------------------------------ MODULE MCDoram ------------------------------
(* Small instances of Doram for TLC. *)
EXTENDS DoramProperties, TLC

CONSTANTS
    Queried       \* the addresses clients ask for, a part of Addr

MCAmpPow == [i \in 0 .. NumLevels |-> AmpFactor ^ i]

(* One value bit is enough to tell a written word from an unwritten one;   *)
(* at the start every address holds it.                                    *)
MCInitYs == [a \in Addr |-> ValueMask]

Reads  == [x : Queried, y : {{}}, w : {FALSE}]
(* A write clears the value, or tries to set every bit of the word.        *)
Writes == [x : Queried, y : {{}, Bit}, w : {TRUE}]
MCRequests == Reads \cup Writes

(* Reads alone: enough where the property is not about values.             *)
MCReads == Reads


(* The addresses may be swapped for each other; where there are many, only *)
(* those asked for, as the rest has too many orders to try.                *)
QueriedSymmetry == Permutations(Queried)
AddrSymmetry == Permutations(Queried) \cup Permutations(Addr \ Queried)
=============================================================================
