----------------------------- MODULE Evaluation -----------------------------
(***************************************************************************)
(* BristolFashion_array::compute: the three parties evaluate num_parallel  *)
(* copies of a circuit on shared blocks.  The copies are cut into parts,   *)
(* and a part's blocks are transposed: slice w holds wire w of all copies  *)
(* of the part, one copy to a lane.  Gates other than ANDs are local; an   *)
(* AND draws pads, sends the share next of its output to the next party    *)
(* and waits for its share prev.                                           *)
(*                                                                         *)
(* Every party runs the gate list at its own speed.  A bit is a polynomial *)
(* in the input's shares and the pads; what a gate sends is one item of    *)
(* the stream (how words of it travel is module Rep3's subject).           *)
(***************************************************************************)
EXTENDS Circuits, FiniteSetsExt

CONSTANTS
    SmallWidths,   \* 8, 16, 32, 64: lanes of a part in one machine word
    BlockLanes,    \* 128: lanes of a slice per block
    ChunkBlocks,   \* 8: blocks of a slice of a full part
    ZsprgBuf,      \* ZSPRG_BUF_SZ_BLOCKS
    Capacity,      \* outputs of gates a stream holds
    Calls          \* the calls of compute

ASSUME EvaluationAssumption ==
    /\ IsFiniteSet(SmallWidths) /\ SmallWidths # {} /\ SmallWidths \subseteq Nat \ {0}
    /\ {BlockLanes, ChunkBlocks, ZsprgBuf, Capacity} \subseteq Nat \ {0}
    /\ \A w \in SmallWidths : w < BlockLanes

(* No circuit of the repository has an AND that writes a wire it reads.    *)
ASSUME CallsAssumption ==
    \A c \in Calls :
        /\ c.num_parallel \in Nat \ {0}
        /\ \A g \in {c.circuit.gates[i] : i \in DOMAIN c.circuit.gates} :
              g.type = "AND" => g.outs[1] \notin {g.ins[1], g.ins[2]}

Party == 1 .. 3
next_party(p) == (p % 3) + 1
prev_party(p) == ((p + 1) % 3) + 1

VARIABLES
    call,                  \* circuit, num_parallel, and the input bits that are public
    part, pos,             \* each party's part, and its gate in the part (0: not sliced yet)
    prev, next,            \* all_wires: each party's shares of every wire and lane
    buf_prev, buf_next,    \* mand_output_buffer: each party's shares of its slices
    sent,                  \* whether each party has sent its share of the AND under way
    out_prev, out_next,    \* each party's shares of the output
    drawn,                 \* blocks each party has drawn from prev_prg and next_prg
    stream                 \* the outputs of gates on their way to each party

vars == <<call, part, pos, prev, next, buf_prev, buf_next, sent, out_prev, out_next, drawn, stream>>

circuit == call.circuit
NoWires == <<>>

-----------------------------------------------------------------------------
(* compute: the parts.                                                     *)

Part(first, copies, lanes) == [first |-> first, copies |-> copies, lanes |-> lanes]
ChunkLanes == ChunkBlocks * BlockLanes
RoundedUp(n) == ((n + BlockLanes - 1) \div BlockLanes) * BlockLanes

Leftover(n) ==
    LET chunk == n \div ChunkLanes
        leftover == n - ChunkLanes * chunk
    IN IF leftover = 0 THEN <<>>
       ELSE <<Part(chunk * ChunkLanes, leftover, RoundedUp(leftover))>>

Parts(n) ==
    IF n =< Max(SmallWidths)
    THEN <<Part(0, n, Min({w \in SmallWidths : n =< w}))>>
    ELSE [chunk \in 1 .. n \div ChunkLanes |-> Part((chunk - 1) * ChunkLanes, ChunkLanes, ChunkLanes)]
             \o Leftover(n)

Now(p) == Parts(call.num_parallel)[part[p]]
Lane(p) == 0 .. Now(p).lanes - 1
Running(p) == part[p] =< Len(Parts(call.num_parallel))

-----------------------------------------------------------------------------
(* The input: shared bits, and public ones (input_public).                 *)

InNext(p, i) ==
    IF i \notin DOMAIN call.public THEN Atom(<<"in", p, i>>)
    ELSE IF p = 1 THEN call.public[i] ELSE Zero
InPrev(p, i) == InNext(prev_party(p), i)

(* relabel_dummies: the blocks' second words are the public labels.        *)
RelabelCall(log_N, n) ==
    [circuit |-> replace_if_dummy(log_N), num_parallel |-> n,
     public |-> [i \in {l * Block + XBits + j : l \in 0 .. n - 1, j \in 0 .. XBits - 1} |->
                    Bits(NewDummyLabel(log_N, i \div Block))[(i % Block) - XBits]]]
SharedCall(c, n) == [circuit |-> c, num_parallel |-> n, public |-> <<>>]

InBits == 0 .. call.num_parallel * circuit.num_input - 1
OutBits == 0 .. call.num_parallel * circuit.num_output - 1

Init ==
    /\ call \in Calls
    /\ part = [p \in Party |-> 1] /\ pos = [p \in Party |-> 0]
    /\ prev = [p \in Party |-> NoWires] /\ next = prev /\ buf_prev = prev /\ buf_next = prev
    /\ sent = [p \in Party |-> FALSE]
    /\ out_prev = [p \in Party |-> [i \in OutBits |-> Zero]] /\ out_next = out_prev
    /\ drawn = [p \in Party |-> 0]
    /\ stream = [p \in Party |-> <<>>]

-----------------------------------------------------------------------------
(* compute_internal: the part's blocks are copied into an array as long as *)
(* the slices are wide, which is zero beyond, and transposed.  A part has a*)
(* buffer of its own for the outputs of MANDs, as long as the longest is.  *)

Slices(p, in) ==
    LET Wide(i) == IF i < Now(p).copies * circuit.num_input
                   THEN in[Now(p).first * circuit.num_input + i] ELSE Zero
    IN [w \in 0 .. circuit.num_wire - 1 |-> [l \in Lane(p) |->
           IF w < circuit.num_input THEN Wide(l * circuit.num_input + w) ELSE Zero]]

max_gate_output_wires ==
    Max({0} \cup {Len(circuit.gates[i].outs) : i \in {j \in DOMAIN circuit.gates : circuit.gates[j].type = "MAND"}})
EmptyBuffer(p) == [j \in 1 .. max_gate_output_wires |-> [l \in Lane(p) |-> Zero]]

Slice(p) ==
    /\ Running(p) /\ pos[p] = 0
    /\ buf_prev' = [buf_prev EXCEPT ![p] = EmptyBuffer(p)]
    /\ buf_next' = [buf_next EXCEPT ![p] = EmptyBuffer(p)]
    /\ prev' = [prev EXCEPT ![p] = Slices(p, [i \in InBits |-> InPrev(p, i)])]
    /\ next' = [next EXCEPT ![p] = Slices(p, [i \in InBits |-> InNext(p, i)])]
    /\ pos' = [pos EXCEPT ![p] = 1]
    /\ UNCHANGED <<call, part, sent, out_prev, out_next, drawn, stream>>

AtGate(p, types) ==
    /\ Running(p) /\ pos[p] \in DOMAIN circuit.gates
    /\ circuit.gates[pos[p]].type \in types
GateOf(p) == circuit.gates[pos[p]]

(* A local gate on one share: xor_indices, not_indices, copy_indices.      *)
LocalOutput(g, share, lane) ==
    CASE g.type = "XOR" -> share[g.ins[1]][lane] (+) share[g.ins[2]][lane]
      [] g.type = "INV" -> share[g.ins[1]][lane] (+) One
      [] g.type = "EQW" -> share[g.ins[1]][lane]

LocalGate(p) ==
    /\ AtGate(p, {"XOR", "INV", "EQW"})
    /\ LET g == GateOf(p)
           After(share) == [share EXCEPT ![g.outs[1]] = [l \in Lane(p) |-> LocalOutput(g, share, l)]]
       IN prev' = [prev EXCEPT ![p] = After(@)] /\ next' = [next EXCEPT ![p] = After(@)]
    /\ pos' = [pos EXCEPT ![p] = @ + 1]
    /\ UNCHANGED <<call, part, buf_prev, buf_next, sent, out_prev, out_next, drawn, stream>>

(* random_data: bit k of n, XORed from both generators.  random_block fills*)
(* the whole blocks in turns of its buffer's size and writes each turn to  *)
(* the start: what is beyond keeps its old content.  The rest of the bits  *)
(* are of a block drawn for them, of which the other bits are thrown away. *)
Drawn(p, block, k) ==
    LET bit == (drawn[p] + block) * BlockLanes + (k % BlockLanes)
    IN Atom(<<"prg", prev_party(p), bit>>) (+) Atom(<<"prg", p, bit>>)
LastTurn(whole, block) == ((whole - 1 - block) \div ZsprgBuf) * ZsprgBuf + block

(* Mutant of Pad: only whole blocks are filled.                            *)
PadOfWholeBlocks(p, k, n, old) ==
    LET whole == n \div BlockLanes
        block == k \div BlockLanes
    IN IF block < Min({whole, ZsprgBuf}) THEN Drawn(p, LastTurn(whole, block), k) ELSE old

Pad(p, k, n, old) ==
    LET whole == n \div BlockLanes
        block == k \div BlockLanes
    IN CASE block >= whole                    -> Drawn(p, whole, k)
         [] block < whole /\ block < ZsprgBuf -> Drawn(p, LastTurn(whole, block), k)
         [] OTHER                             -> old
BlocksFor(bits) == (bits + BlockLanes - 1) \div BlockLanes

(* mand_output_window: an AND's output is its wire, a MAND's the start of  *)
(* the buffer, which the gates before it have left their outputs in.       *)
Window(g, share, buffer) ==
    IF g.type = "AND" THEN <<share[g.outs[1]]>> ELSE SubSeq(buffer, 1, Len(g.outs))
Over(slices, buffer) == slices \o SubSeq(buffer, Len(slices) + 1, Len(buffer))

(* start_mand_gate, one lane of output j.  An AND works on the wires in    *)
(* place: its output is the pad before the inputs are read.  A MAND works  *)
(* on copies of its inputs.                                                *)
MandOutput(p, j, lane) ==
    LET g == GateOf(p)
        a == g.ins[j]
        b == g.ins[Len(g.outs) + j]
        NextOf(w, c) == IF g.type = "AND" /\ w = g.outs[1] THEN c ELSE next[p][w][lane]
        pad == Pad(p, (j - 1) * Now(p).lanes + lane, Len(g.outs) * Now(p).lanes,
                   Window(g, next[p], buf_next[p])[j][lane])
        c1 == pad (+) (prev[p][a][lane] (.) NextOf(b, pad))
        c2 == c1 (+) (prev[p][b][lane] (.) NextOf(a, c1))
    IN c2 (+) (prev[p][a][lane] (.) prev[p][b][lane])
MandOutputs(p) ==
    [j \in 1 .. Len(GateOf(p).outs) |-> [l \in Lane(p) |-> MandOutput(p, j, l)]]

(* Mutant of StartMand: a party sends when it has been sent to.            *)
StartMandWhenAsked(p) ==
    /\ AtGate(p, {"AND", "MAND"}) /\ ~sent[p] /\ stream[p] # <<>>
    /\ sent' = [sent EXCEPT ![p] = TRUE]
    /\ stream' = [stream EXCEPT ![next_party(p)] = Append(@, MandOutputs(p))]
    /\ UNCHANGED <<call, part, pos, prev, next, buf_prev, buf_next, out_prev, out_next, drawn>>

StartMand(p) ==
    /\ AtGate(p, {"AND", "MAND"}) /\ ~sent[p]
    /\ Len(stream[next_party(p)]) < Capacity
    /\ \/ /\ GateOf(p).type = "AND"
          /\ next' = [next EXCEPT ![p][GateOf(p).outs[1]] = MandOutputs(p)[1]]
          /\ UNCHANGED buf_next
       \/ /\ GateOf(p).type = "MAND"
          /\ buf_next' = [buf_next EXCEPT ![p] = Over(MandOutputs(p), @)]
          /\ UNCHANGED next
    /\ drawn' = [drawn EXCEPT ![p] = @ + BlocksFor(Len(GateOf(p).outs) * Now(p).lanes)]
    /\ stream' = [stream EXCEPT ![next_party(p)] = Append(@, Window(GateOf(p), next'[p], buf_next'[p]))]
    /\ sent' = [sent EXCEPT ![p] = TRUE]
    /\ UNCHANGED <<call, part, pos, prev, buf_prev, out_prev, out_next>>

(* What a MAND computed goes to its output wires.                          *)
WithOutputs(share, g, slices) ==
    [w \in DOMAIN share |-> IF \E j \in DOMAIN g.outs : g.outs[j] = w
                            THEN slices[CHOOSE j \in DOMAIN g.outs : g.outs[j] = w]
                            ELSE share[w]]

(* Mutant of CopyBack: the share that was sent is not copied.              *)
CopyBackPrev(p) ==
    /\ prev' = [prev EXCEPT ![p] = WithOutputs(@, GateOf(p), buf_prev'[p])]
    /\ UNCHANGED next
CopyBack(p) ==
    /\ prev' = [prev EXCEPT ![p] = WithOutputs(@, GateOf(p), buf_prev'[p])]
    /\ next' = [next EXCEPT ![p] = WithOutputs(@, GateOf(p), buf_next[p])]

FinishMand(p) ==
    /\ AtGate(p, {"AND", "MAND"}) /\ sent[p] /\ stream[p] # <<>>
    /\ \/ /\ GateOf(p).type = "AND"
          /\ prev' = [prev EXCEPT ![p][GateOf(p).outs[1]] = Head(stream[p])[1]]
          /\ UNCHANGED <<next, buf_prev>>
       \/ /\ GateOf(p).type = "MAND"
          /\ buf_prev' = [buf_prev EXCEPT ![p] = Over(Head(stream[p]), @)]
          /\ CopyBack(p)
    /\ sent' = [sent EXCEPT ![p] = FALSE]
    /\ stream' = [stream EXCEPT ![p] = Tail(@)]
    /\ pos' = [pos EXCEPT ![p] = @ + 1]
    /\ UNCHANGED <<call, part, buf_next, out_prev, out_next, drawn>>

(* The last wires are transposed back; the lanes of the part's copies are  *)
(* written to its window of the output.                                    *)
Unsliced(p, out, share) ==
    LET base == Now(p).first * circuit.num_output
        Wire(i) == circuit.num_wire - circuit.num_output + (i % circuit.num_output)
    IN [i \in OutBits |->
          IF i \in base .. base + Now(p).copies * circuit.num_output - 1
          THEN share[Wire(i - base)][(i - base) \div circuit.num_output] ELSE out[i]]

Unslice(p) ==
    /\ Running(p) /\ pos[p] = Len(circuit.gates) + 1
    /\ out_prev' = [out_prev EXCEPT ![p] = Unsliced(p, @, prev[p])]
    /\ out_next' = [out_next EXCEPT ![p] = Unsliced(p, @, next[p])]
    /\ prev' = [prev EXCEPT ![p] = NoWires] /\ next' = [next EXCEPT ![p] = NoWires]
    /\ buf_prev' = [buf_prev EXCEPT ![p] = NoWires] /\ buf_next' = [buf_next EXCEPT ![p] = NoWires]
    /\ part' = [part EXCEPT ![p] = @ + 1] /\ pos' = [pos EXCEPT ![p] = 0]
    /\ UNCHANGED <<call, sent, drawn, stream>>

Step(p) == Slice(p) \/ LocalGate(p) \/ StartMand(p) \/ FinishMand(p) \/ Unslice(p)

Next == \E p \in Party : Step(p)

(* Each party is a process of its own.                                     *)
Spec == Init /\ [][Next]_vars
FairSpec == Spec /\ \A p \in Party : WF_vars(Step(p))
=============================================================================
