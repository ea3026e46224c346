------------------------ MODULE EvaluationProperties ------------------------
(***************************************************************************)
(* What the callers of compute expect: that every copy's output is what    *)
(* the circuit computes on the copy's input in the clear, and that the     *)
(* circuits compute what they are named for.                               *)
(***************************************************************************)
EXTENDS Evaluation

(* A circuit in the clear.                                                 *)
Applied(w, g) ==
    LET half == Len(g.outs)
        Value(j) == CASE g.type \in {"AND", "MAND"} -> w[g.ins[j]] (.) w[g.ins[half + j]]
                      [] OTHER -> LocalOutput(g, [i \in DOMAIN w |-> <<w[i]>>], 1)
    IN [i \in DOMAIN w |-> IF \E j \in DOMAIN g.outs : g.outs[j] = i
                           THEN Value(CHOOSE j \in DOMAIN g.outs : g.outs[j] = i) ELSE w[i]]

Plain(c, input) ==
    LET all == Seqs!FoldLeft(Applied,
                   [w \in 0 .. c.num_wire - 1 |-> IF w < c.num_input THEN input[w] ELSE Zero],
                   c.gates)
    IN [j \in 0 .. c.num_output - 1 |-> all[c.num_wire - c.num_output + j]]

Opened(n, i) == n[1][i] (+) n[2][i] (+) n[3][i]

ClearInput(l) ==
    [j \in 0 .. circuit.num_input - 1 |->
        LET i == l * circuit.num_input + j
        IN InNext(1, i) (+) InNext(2, i) (+) InNext(3, i)]

Done == \A p \in Party : ~Running(p)

(* When compute has returned at all three parties, the output is a sharing *)
(* of the circuit's value on every copy's own input: whichever widths the  *)
(* copies were cut into, and with no trace of the lanes that were added or *)
(* of what an earlier gate left in the buffer for outputs.                 *)
OutputsRight ==
    Done => /\ \A p \in Party : out_prev[next_party(p)] = out_next[p]
            /\ \A l \in 0 .. call.num_parallel - 1 :
                  LET clear == Plain(circuit, ClearInput(l))
                  IN \A j \in DOMAIN clear :
                        Opened(out_next, l * circuit.num_output + j) = clear[j]

(* Neighbours at the same gate hold the same share of every wire, and of   *)
(* what the buffer for outputs still has of gates before, but for the      *)
(* outputs of the gate under way; have drawn as much from the generator    *)
(* they have in common; and the stream between them holds exactly the      *)
(* outputs one is ahead with.                                              *)
InStep ==
    \A p \in Party :
        LET q == next_party(p)
            UnderWay(type) == sent[p] /\ GateOf(p).type = type
        IN part[p] = part[q] /\ pos[p] = pos[q] =>
              /\ \A w \in DOMAIN next[p] :
                    prev[q][w] = next[p][w] \/ (UnderWay("AND") /\ w = GateOf(p).outs[1])
              /\ \A j \in DOMAIN buf_next[p] :
                    buf_prev[q][j] = buf_next[p][j] \/ (UnderWay("MAND") /\ j \in DOMAIN GateOf(p).outs)
              /\ sent[p] = sent[q] => drawn[p] = drawn[q]
              /\ stream[q] = IF sent[p] THEN <<Window(GateOf(p), next[p], buf_next[p])>> ELSE <<>>

(* No party waits for ever for a neighbour's share.                        *)
Finishes == <>Done

-----------------------------------------------------------------------------
(* The circuits, for addresses of four bits.                               *)

Wide == INSTANCE Circuits WITH Block <- 9, XBits <- 4

Number(bits, lo, n) == SumSet({IF bits[lo + j] = One THEN 2 ^ j ELSE 0 : j \in 0 .. n - 1})

(* The addresses in use and the dummies in the clear.                      *)
Xs(log_N) == 0 .. 2 ^ (log_N + 1) - 1
IsDummy(x, log_N) == x = 0 \/ x >= 2 ^ log_N

Input(low, high, n) ==
    [w \in 0 .. n - 1 |-> IF w < 4 THEN Wide!Bits(low)[w]
                          ELSE IF w < 8 THEN Wide!Bits(high)[w - 4] ELSE One]

(* The blocks of a lookup: tags of five bits behind indices of four.       *)
Tags == {0, 1, 2, 4, 8, 16, 31}
LookupInput(key, tag0, tag1) ==
    LET tags == <<key, tag0, tag1, 0>>
    IN [w \in 0 .. 35 |->
           IF w % 9 < 4 THEN Atom(w)
           ELSE IF (tags[w \div 9 + 1] \div 2 ^ ((w % 9) - 4)) % 2 = 1 THEN One ELSE Zero]

CircuitTables ==
    /\ \A log_N \in 1 .. 3 : \A x \in Xs(log_N) :
          (Plain(Wide!dummy_check(log_N), Input(x, 0, 9))[0] = One) = IsDummy(x, log_N)
    /\ \A x1, x2 \in 0 .. 15 :
          LET out == Plain(Wide!xy_if_xs_equal, Input(x1, x2, 9))
          IN /\ Number(out, 0, 4) = IF x1 = x2 THEN x2 ELSE 0
             /\ (out[4] = One) = (x1 = x2) /\ (out[5] = One) = (x1 = x2)
    /\ LET out == Plain(Wide!compare_swap, [w \in 0 .. 17 |-> Atom(w)])
       IN \A j \in 0 .. 8 :
             LET swap == Atom(0) (.) (Atom(j) (+) Atom(9 + j))
             IN out[j] = Atom(j) (+) swap /\ out[9 + j] = Atom(9 + j) (+) swap
    /\ \A key, tag0, tag1 \in Tags : tag0 # tag1 =>
          LET out == Plain(Wide!cht_lookup, LookupInput(key, tag0, tag1))
              cell == IF key = tag0 THEN 1 ELSE IF key = tag1 THEN 2 ELSE 3
          IN /\ \A j \in 0 .. 3 : out[j] = Atom(9 * cell + j)
             /\ (out[4] = One) = (cell # 3)
             /\ \A j \in 4 .. 8 : out[j] = One => j = 4

(* What the caller of compute relies on when it returns: dummy_check tells *)
(* the addresses that hold no element, xy_if_xs_equal hands out x and y    *)
(* where the addresses agree and zeros elsewhere, compare_swap exchanges   *)
(* its blocks if the first one's flag is set, and cht_lookup hands out the *)
(* index of the cell that has the key's tag, the dummy index if none has,  *)
(* and a flag with no other bit in its byte (lookup_from_2shares takes the *)
(* whole byte).                                                            *)
CircuitsCompute == Done => CircuitTables

(* What relabel_dummies makes of address x at place i of a list.           *)
Relabelled(log_N) ==
    [x \in Xs(log_N), i \in 0 .. 2 ^ log_N - 1 |->
        Number(Plain(Wide!replace_if_dummy(log_N), Input(x, Wide!NewDummyLabel(log_N, i), 9)), 0, 4)]

RelabelledListsDiffer ==
    \A log_N \in 1 .. 2 :
        \A new \in {Relabelled(log_N)}, n \in 1 .. 2 ^ log_N :
            \A xs \in [0 .. n - 1 -> Xs(log_N)] :
                (\A i, j \in 0 .. n - 1 : xs[i] = xs[j] => i = j \/ IsDummy(xs[i], log_N))
                    => \A i \in 0 .. n - 1 :
                          /\ IsDummy(new[xs[i], i], log_N) = IsDummy(xs[i], log_N)
                          /\ ~IsDummy(xs[i], log_N) => new[xs[i], i] = xs[i]
                          /\ new[xs[i], i] \in Xs(log_N)
                          /\ \A j \in 0 .. n - 1 : new[xs[i], i] = new[xs[j], j] => i = j

(* A list a table is rebuilt from holds every real address once, and any   *)
(* number of dummies, many of them zero.  When relabel_dummies returns the *)
(* real addresses are where they were, and all addresses differ: the       *)
(* table's pseudorandom function gives no two elements the same tag.       *)
RelabelSound == Done => RelabelledListsDiffer
=============================================================================
