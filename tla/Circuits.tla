------------------------------ MODULE Circuits ------------------------------
(***************************************************************************)
(* The Boolean circuits the ORAM evaluates, as the programs of circuits/   *)
(* lay them out and from_file_extended reads them: a list of gates over    *)
(* numbered wires.  The first wires are the input, the last ones the       *)
(* output; a wire no gate writes is zero.                                  *)
(***************************************************************************)
EXTENDS Gf2, Sequences

Seqs == INSTANCE SequencesExt

CONSTANTS
    Block,     \* 128: the wires of a block
    XBits      \* 32: the wires of an address

(* Conjunctions are balanced trees of gates, so the width is a power of 2. *)
ASSUME CircuitsAssumption ==
    /\ XBits \in {2 ^ k : k \in 1 .. 5}
    /\ Block \in Nat /\ Block >= 2 * XBits

Wires(lo, n) == [j \in 1 .. n |-> lo + j - 1]
Copies(wire, n) == [j \in 1 .. n |-> wire]

(* from_file_extended: a MAND with one output is an AND.                   *)
Gate(name, ins, outs) ==
    [type |-> IF name = "MAND" /\ Len(ins) = 2 THEN "AND" ELSE name,
     ins |-> ins, outs |-> outs]

inv_gate(b, n, to) == [j \in 1 .. n |-> Gate("INV", <<b + j - 1>>, <<to + j - 1>>)]
eqw_gate(b, to) == <<Gate("EQW", <<b>>, <<to>>)>>
xor_gate(b1, b2, n, to) ==
    [j \in 1 .. n |-> Gate("XOR", <<b1 + j - 1, b2 + j - 1>>, <<to + j - 1>>)]
mand_gate(ws1, ws2, to) == <<Gate("MAND", ws1 \o ws2, Wires(to, Len(ws1)))>>

(* all_zero: the inverted bits, and below them the tree of and_all, whose  *)
(* level of w gates follows the one of 2 * w; the last of the              *)
(* 2 * XBits - 1 wires is the result.                                      *)
Depth == CHOOSE k \in 1 .. 5 : 2 ^ k = XBits
and_all_level(to, w) ==
    LET in == to + 2 * XBits - 4 * w
    IN mand_gate(Wires(in, w), Wires(in + w, w), to + 2 * XBits - 2 * w)
all_zero(b, to) ==
    inv_gate(b, XBits, to)
        \o Seqs!FlattenSeq([k \in 1 .. Depth |-> and_all_level(to, XBits \div 2 ^ k)])
ZeroBit(to) == to + 2 * XBits - 2
AfterZero(to) == to + 2 * XBits - 1

Circuit(gates, num_wire, num_input, num_output) ==
    [gates |-> gates, num_wire |-> num_wire, num_input |-> num_input, num_output |-> num_output]

-----------------------------------------------------------------------------
(* Mutant of is_dummy: addresses of the wrong half.                        *)
is_dummy_low(log_N, to) == all_zero(0, to) \o xor_gate(log_N - 1, ZeroBit(to), 1, AfterZero(to))

(* x is a dummy if it is zero or not below N; the two exclude each other.  *)
is_dummy(log_N, to) == all_zero(0, to) \o xor_gate(log_N, ZeroBit(to), 1, AfterZero(to))

(* dummy_check.py: x -> is_dummy.                                          *)
dummy_check(log_N) ==
    Circuit(is_dummy(log_N, Block), 2 * Block + 2 * XBits - 1, Block, Block)

(* replace_if_dummy.py: x, replacement -> if is_dummy then replacement     *)
(* else x.                                                                 *)
replace_if_dummy(log_N) ==
    LET cond == AfterZero(Block)
        diff == cond + 1
        prod == diff + XBits
        output == prod + XBits
    IN Circuit(is_dummy(log_N, Block)
                   \o xor_gate(XBits, 0, XBits, diff)
                   \o mand_gate(Wires(diff, XBits), Copies(cond, XBits), prod)
                   \o xor_gate(prod, 0, XBits, output),
               output + Block, Block, Block)

(* xy_if_xs_equal.py: x1, x2, y -> x2 if x1 = x2, y if x1 = x2, x1 = x2.   *)
xy_if_xs_equal ==
    LET zero == Block + XBits
        rest == Block - XBits
        output == AfterZero(zero)
    IN Circuit(xor_gate(0, XBits, XBits, Block)
                   \o all_zero(Block, zero)
                   \o mand_gate(Wires(XBits, rest), Copies(ZeroBit(zero), rest), output)
                   \o eqw_gate(ZeroBit(zero), output + rest),
               output + Block, Block, Block)

(* compare_swap.py: two blocks, in the other order if the lowest bit of    *)
(* the first is set.                                                       *)
compare_swap ==
    Circuit(xor_gate(0, Block, Block, 2 * Block)
                \o mand_gate(Wires(2 * Block, Block), Copies(0, Block), 3 * Block)
                \o xor_gate(0, 3 * Block, Block, 4 * Block)
                \o xor_gate(Block, 3 * Block, Block, 5 * Block),
            6 * Block, 2 * Block, 2 * Block)

(* and_all in cht_lookup.py, of any width: the left half's gates, the right*)
(* half's, and the gate that joins them.                                   *)
and_all[n \in 1 .. Block, b \in Nat, to \in Nat] ==
    IF n = 1 THEN [gates |-> <<>>, wire |-> b, end |-> to]
    ELSE LET left == and_all[n \div 2, b, to]
             right == and_all[n - n \div 2, b + n \div 2, left.end]
         IN [gates |-> left.gates \o right.gates
                         \o <<Gate("AND", <<left.wire, right.wire>>, <<right.end>>)>>,
             wire |-> right.end, end |-> right.end + 1]

(* XBits bits, the last XBits of the 3 * XBits wires.                      *)
if_then_else(cond, then, else, to) ==
    xor_gate(then, else, XBits, to)
        \o [j \in 1 .. XBits |-> Gate("AND", <<cond, to + j - 1>>, <<to + XBits + j - 1>>)]
        \o xor_gate(to + XBits, else, XBits, to + 2 * XBits)

(* cht_lookup.py: key, two cells, dummy index -> the index in the cell that*)
(* has the key's tag, the dummy index if none has, and whether one has.    *)
cht_lookup ==
    LET tag == Block - XBits
        xor_0 == 4 * Block
        xor_1 == xor_0 + tag
        nxor_0 == xor_1 + tag
        nxor_1 == nxor_0 + tag
        key_equals_b0 == and_all[tag, nxor_0, nxor_1 + tag]
        key_equals_b1 == and_all[tag, nxor_1, key_equals_b0.end]
        inner == key_equals_b1.end
        outer == inner + 3 * XBits
        output == outer + 2 * XBits
    IN Circuit(xor_gate(XBits, Block + XBits, tag, xor_0)
                   \o xor_gate(XBits, 2 * Block + XBits, tag, xor_1)
                   \o inv_gate(xor_0, tag, nxor_0) \o inv_gate(xor_1, tag, nxor_1)
                   \o key_equals_b0.gates \o key_equals_b1.gates
                   \o if_then_else(key_equals_b1.wire, 2 * Block, 3 * Block, inner)
                   \o if_then_else(key_equals_b0.wire, Block, inner + 2 * XBits, outer)
                   \o xor_gate(key_equals_b0.wire, key_equals_b1.wire, 1, output + XBits),
               output + Block, 4 * Block, Block)

-----------------------------------------------------------------------------
(* An address as bits, and relabel_dummies' label for the dummy at place i *)
(* of a list; its mutant counts from zero.                                 *)
Bits(x) == [j \in 0 .. XBits - 1 |-> IF (x \div 2 ^ j) % 2 = 1 THEN One ELSE Zero]

NewDummyLabelFromZero(log_N, i) == i
NewDummyLabel(log_N, i) == 2 ^ log_N + i
=============================================================================
