------------------------------- MODULE Words -------------------------------
(***************************************************************************)
(* The data words of the ORAM.  A y_type is the set of the positions of    *)
(* its one bits, position 0 being the highest bit: the code reserves the   *)
(* NumLevels highest bits as alibi bits, bit i for hierarchy level i, and  *)
(* leaves the others to the stored value.  XOR, AND and OR of words are    *)
(* symmetric difference, intersection and union.                           *)
(***************************************************************************)
EXTENDS Naturals, FiniteSets

CONSTANTS
    YBits,      \* 8 * sizeof(y_type)
    NumLevels   \* num_levels: the hash tables, numbered from 0

ASSUME WordAssumption ==
    /\ YBits \in Nat
    /\ NumLevels \in Nat \ {0}
    /\ NumLevels =< YBits

Bit   == 0 .. YBits - 1
Word  == SUBSET Bit
Level == 0 .. NumLevels - 1

Xor(a, b) == (a \ b) \cup (b \ a)

(* The XOR of the data of every entry of E (entries are records with a y). *)
XorAll(E) == {b \in Bit : Cardinality({e \in E : b \in e.y}) % 2 = 1}

(* The XOR of a one-bit flag raised once per entry of E. *)
Parity(E) == Cardinality(E) % 2 = 1

(* Mutant of AlibiBit: the bit of the next level.                          *)
AlibiBitNext(i) == {i + 1}

(* get_all_zero_except_nth_from_highest: the mask with alibi bit i alone. *)
AlibiBit(i) == {i}

(* Mutant of ValueMask: a mask that is not shifted, and resets nothing.     *)
ValueMaskUnshifted == Bit

(* get_all_ones_rightshifted_by(num_levels): the bits of the stored value. *)
ValueMask == Bit \ Level
=============================================================================
