------------------------------- MODULE Garble -------------------------------
(***************************************************************************)
(* The garbled evaluation of a circuit with shared inputs and outputs      *)
(* (sh_riro::Circuit), which the lookup in a cuckoo table runs once for    *)
(* every level of a query.  Party 3 and party 2 garble the same circuit    *)
(* with the generator they share; only party 3's tables are sent.  Party 1 *)
(* evaluates.                                                              *)
(*                                                                         *)
(* A block is a polynomial in the shares, the words drawn from generators, *)
(* and the deltas: the key of a wire is its zero key XOR its value times   *)
(* delta.  The half gates are those of emp-tool, taken as ideal: a table is*)
(* opened by a key for each of its gate's inputs and by nothing else.      *)
(***************************************************************************)
EXTENDS Gf2, Sequences

CONSTANTS
    Circuits,     \* records num_input, num_output, num_wire, gates
    Capacity,     \* blocks a stream holds before its sender blocks
    NumCalls      \* bound: calls of compute

Role == {"g1", "g2", "eval"}      \* parties 3, 2 and 1
Garbler == {"g1", "g2"}

NumAnds(c) == Cardinality({k \in DOMAIN c.gates : c.gates[k].type = "AND"})
GateOn(n) == [type : {"AND", "XOR", "INV", "EQW"}, in1 : 1 .. n, in2 : 1 .. n, out : 1 .. n]
(* The gates are on the wires of the circuit.                              *)
ASSUME GarbleAssumption ==
    /\ {Capacity, NumCalls} \subseteq Nat \ {0}
    /\ \A c \in Circuits :
          /\ {c.num_input, c.num_output, c.num_wire} \subseteq Nat
          /\ c.num_input =< c.num_wire /\ c.num_output =< c.num_wire
          /\ c.gates \in Seq(GateOn(c.num_wire))

VARIABLES
    circuit,       \* circuit_file
    pc, call,      \* where each party is, and in which call of compute
    gen,           \* HalfGateGenCustomPRG, HalfGateEva: delta, public_label, S, gid
    drawn,         \* blocks each party drew from the generators it shares
    keys,          \* input_keys of the evaluator, as far as they have arrived
    gate,          \* the next gate of each party's compute_garbled
    sb,            \* what G1's SendBufferIO holds
    rb,            \* the evaluator's RecvBufferIO: blocks, read_counter
    sending,       \* what is left of a send_block call underway
    received,      \* what a recv_block call underway has got
    stream,        \* the blocks on their way, by sender
    wires,         \* garbled_wires, one per call (the earlier are history)
    out            \* repl_output, one per call

compute == <<gen, gate, sb, rb, wires>>
vars == <<circuit, pc, call, drawn, keys, compute, sending, received, stream, out>>

(* Mutant of BufLen: room for every gate.                                  *)
BufLenAllGates == 2 * Len(circuit.gates)
BufLen == 2 * NumAnds(circuit)
Inputs == 1 .. circuit.num_input
Outputs == 1 .. circuit.num_output

(* to_fixed: the location of a share says which two parties know it.       *)
G1Eval == 1
EvalG2 == 2
G1G2 == 3
Share(c, loc, i) == Atom(<<"share", c, loc, i>>)
Shares(loc1, words1, loc2, words2) ==
    [loc \in {loc1, loc2} |-> IF loc = loc1 THEN words1 ELSE words2]

Sample(prg, n) == Atom(<<prg, n>>)
Draw(r, prg, n) == drawn' = [drawn EXCEPT ![r][prg] = @ + n]

Init ==
    /\ circuit \in Circuits
    /\ pc = [r \in Role |-> "construct"] /\ call = [r \in Role |-> 1]
    /\ gen = [r \in Role |-> [delta |-> Zero, one |-> Zero, S |-> Zero, gid |-> 0]]
    /\ drawn = [r \in Role |-> [garblers |-> 0, g1_eval |-> 0]]
    /\ keys = <<>>
    /\ gate = [r \in Role |-> 1]
    /\ sb = <<>> /\ rb = [blocks |-> <<>>, read_counter |-> 0]
    /\ sending = [r \in Role |-> <<>>] /\ received = [r \in Role |-> <<>>]
    /\ stream = [r \in Role |-> <<>>]
    /\ wires = [r \in Role |-> <<>>] /\ out = [r \in Role |-> <<>>]

-----------------------------------------------------------------------------
(* Streams: send_block returns when all blocks are in the stream,          *)
(* recv_block when it has as many as it asks for.                          *)

Source(r) == IF r = "g2" THEN "eval" ELSE IF pc["eval"] = "recv_g2" THEN "g2" ELSE "g1"
Wanted(r) ==
    CASE r = "eval" /\ pc[r] = "construct"            -> 3
      [] r = "eval" /\ pc[r] \in {"recv_g1", "recv_g2"} -> circuit.num_input
      [] r = "eval" /\ pc[r] = "recv_tables"          -> BufLen
      [] r = "g2" /\ pc[r] = "output"                 -> circuit.num_output
      [] OTHER                                        -> 0

Transmit(r) ==
    /\ sending[r] # <<>> /\ Len(stream[r]) < Capacity
    /\ stream' = [stream EXCEPT ![r] = Append(@, Head(sending[r]))]
    /\ sending' = [sending EXCEPT ![r] = Tail(@)]
    /\ UNCHANGED <<circuit, pc, call, drawn, keys, compute, received, out>>

Receive(r) ==
    /\ sending[r] = <<>> /\ Len(received[r]) < Wanted(r) /\ stream[Source(r)] # <<>>
    /\ received' = [received EXCEPT ![r] = Append(@, Head(stream[Source(r)]))]
    /\ stream' = [stream EXCEPT ![Source(r)] = Tail(@)]
    /\ UNCHANGED <<circuit, pc, call, drawn, keys, compute, sending, out>>

At(r, l) == pc[r] = l /\ sending[r] = <<>> /\ Len(received[r]) = Wanted(r)
Goto(r, l) == pc' = [pc EXCEPT ![r] = l]
Return(r, l) ==
    /\ call' = [call EXCEPT ![r] = @ + 1]
    /\ Goto(r, IF call[r] = NumCalls THEN "done" ELSE l)

-----------------------------------------------------------------------------
(* The gates.  The colour of a key is its lowest bit, which set_bit makes  *)
(* one in a delta.                                                         *)

IsDelta(a) == a[1] = "delta"
Xored(S, image(_)) == {m \in {image(n) : n \in S} : Cardinality({n \in S : image(n) = m}) % 2 = 1}
getLSB(key) == Xored(key, LAMBDA m : {a \in m : ~IsDelta(a)})

(* halfgates_garble: the blocks of a table and the zero key of its output. *)
TableBlock(part, garbling) == Atom(<<"table", part, garbling>>)
OutputKey(garbling) == Atom(<<"and", garbling>>)

(* halfgates_eval.  What is no table, or another gate's, opens to garbage. *)
Opened(t) == IF UNION t = {} THEN <<"garbage">> ELSE CHOOSE a \in UNION t : TRUE
ValueOf(key, zero_key) == {{a \in m : ~IsDelta(a)} : m \in key (+) zero_key}
Opens(key, zero_key, delta) == key = zero_key (+) (ValueOf(key, zero_key) (.) delta)
EvaluateAnd(a, b, table, S, gid) ==
    LET block == Opened(table[1])
        g == block[3]
    IN IF /\ block[1] = "table" /\ table = <<TableBlock(1, g), TableBlock(2, g)>>
          /\ g.S = S /\ g.gid = gid /\ Opens(a, g.a, g.delta) /\ Opens(b, g.b, g.delta)
       THEN OutputKey(g) (+) (ValueOf(a, g.a) (.) ValueOf(b, g.b) (.) g.delta)
       ELSE Atom(<<"garbage">>)

(* A gate without a table.                                                 *)
(* Mutant of FreeKey: the public label is forgotten.                       *)
FreeKeyPlainInv(w, g, one) ==
    IF g.type = "XOR" THEN w[g.in1] (+) w[g.in2] ELSE w[g.in1]
FreeKey(w, g, one) ==
    CASE g.type = "XOR" -> w[g.in1] (+) w[g.in2]
      [] g.type = "INV" -> w[g.in1] (+) one
      [] g.type = "EQW" -> w[g.in1]

(* A wire that no gate writes is zero in every call.  No gate reads a wire *)
(* that a later one writes.                                                *)
InputWires(c, in) == [w \in 1 .. c.num_wire |-> IF w \in 1 .. c.num_input THEN in[w] ELSE Zero]
OutputsOf(c, w) == [i \in 1 .. c.num_output |-> w[c.num_wire - c.num_output + i]]

Gate(r) == circuit.gates[gate[r]]
Wires(r) == wires[r][call[r]]
GatesLeft(r) == gate[r] =< Len(circuit.gates)

-----------------------------------------------------------------------------
(* The constructor of Circuit.  G1's generator sends its constants, and    *)
(* then the start point, into the buffer that will take the tables.        *)

ConstructGarbler(r) ==
    /\ At(r, "construct")
    /\ LET Tmp(i) == Sample("garblers", drawn[r].garblers + i)
           delta == Atom(<<"delta", drawn[r].garblers + 1>>)
           constants == <<Tmp(3), Tmp(4)>>
       IN /\ gen' = [gen EXCEPT ![r] =
                       [delta |-> delta, one |-> constants[2] (+) delta, S |-> Tmp(2), gid |-> 0]]
          /\ sb' = IF r = "g1" THEN sb \o (constants \o <<Tmp(2)>>) ELSE sb
    /\ Draw(r, "garblers", 4)
    /\ Goto(r, IF r = "g1" THEN "flush" ELSE "garble")
    /\ UNCHANGED <<circuit, call, keys, gate, rb, wires, sending, received, stream, out>>

(* Mutant of FlushOpening: the constants wait for the tables.              *)
FlushOpeningLater ==
    /\ At("g1", "flush") /\ Goto("g1", "garble")
    /\ UNCHANGED <<circuit, call, drawn, keys, compute, sending, received, stream, out>>
FlushOpening ==
    /\ At("g1", "flush")
    /\ sending' = [sending EXCEPT !["g1"] = sb] /\ sb' = <<>>
    /\ Goto("g1", "garble")
    /\ UNCHANGED <<circuit, call, drawn, keys, gen, gate, rb, wires, received, stream, out>>

(* HalfGateEva: the constants first, then the start point of the hash.     *)
ConstructEvaluator ==
    /\ At("eval", "construct")
    /\ gen' = [gen EXCEPT !["eval"].one = received["eval"][2], !["eval"].S = received["eval"][3]]
    /\ rb' = [blocks |-> received["eval"], read_counter |-> 3]
    /\ received' = [received EXCEPT !["eval"] = <<>>]
    /\ Goto("eval", "recv_g1")
    /\ UNCHANGED <<circuit, call, drawn, keys, gate, sb, wires, sending, stream, out>>

-----------------------------------------------------------------------------
(* compute_garbled, one gate at a time.                                    *)

StartGates(r, in) ==
    /\ wires' = [wires EXCEPT ![r] = Append(@, InputWires(circuit, in))]
    /\ gate' = [gate EXCEPT ![r] = 1]

SetWire(r, key) == wires' = [wires EXCEPT ![r][call[r]][Gate(r).out] = key]

(* Only G1's channel sends the tables; G2's drops them.                    *)
GarbleGate(r) ==
    /\ At(r, "compute") /\ GatesLeft(r)
    /\ LET g == Gate(r)
           garbling == [S |-> gen[r].S, gid |-> gen[r].gid, delta |-> gen[r].delta,
                        a |-> Wires(r)[g.in1], b |-> Wires(r)[g.in2]]
       IN \/ /\ g.type = "AND"
             /\ SetWire(r, OutputKey(garbling))
             /\ gen' = [gen EXCEPT ![r].gid = @ + 1]
             /\ sb' = IF r = "g1" THEN sb \o <<TableBlock(1, garbling), TableBlock(2, garbling)>>
                      ELSE sb
          \/ /\ g.type # "AND"
             /\ SetWire(r, FreeKey(Wires(r), g, gen[r].one))
             /\ UNCHANGED <<gen, sb>>
    /\ gate' = [gate EXCEPT ![r] = @ + 1]
    /\ UNCHANGED <<circuit, pc, call, drawn, keys, rb, sending, received, stream, out>>

EvaluateGate ==
    /\ At("eval", "compute") /\ GatesLeft("eval")
    /\ LET g == Gate("eval")
           w == Wires("eval")
           table == SubSeq(rb.blocks, rb.read_counter + 1, rb.read_counter + 2)
       IN \/ /\ g.type = "AND"
             /\ SetWire("eval", EvaluateAnd(w[g.in1], w[g.in2], table,
                                            gen["eval"].S, gen["eval"].gid))
             /\ gen' = [gen EXCEPT !["eval"].gid = @ + 1]
             /\ rb' = [rb EXCEPT !.read_counter = @ + 2]
          \/ /\ g.type # "AND"
             /\ SetWire("eval", FreeKey(w, g, gen["eval"].one))
             /\ UNCHANGED <<gen, rb>>
    /\ gate' = [gate EXCEPT !["eval"] = @ + 1]
    /\ UNCHANGED <<circuit, pc, call, drawn, keys, sb, sending, received, stream, out>>

-----------------------------------------------------------------------------
(* garble.  The keys of the garblers' own share are zero, so that it goes  *)
(* into the zero keys; the keys of the outputs are drawn and not used.     *)

ZeroKey(r, loc, i) ==
    Sample("garblers", drawn[r].garblers + (loc - 1) * circuit.num_input + i)
ActiveKey(r, loc, i) == ZeroKey(r, loc, i) (+) (Share(call[r], loc, i) (.) gen[r].delta)
CircuitZeroKey(r, i) ==
    ZeroKey(r, G1Eval, i) (+) ZeroKey(r, EvalG2, i) (+) (Share(call[r], G1G2, i) (.) gen[r].delta)

(* Mutant of KeysDrawn: only G1 draws the keys that are not used.          *)
KeysDrawnUsed(r) ==
    2 * circuit.num_input + (IF r = "g1" THEN circuit.num_output ELSE 0)
KeysDrawn(r) == 2 * circuit.num_input + circuit.num_output

SendKeys(r) ==
    /\ At(r, "garble")
    /\ LET loc == IF r = "g1" THEN G1Eval ELSE EvalG2
       IN sending' = [sending EXCEPT ![r] = [i \in Inputs |-> ActiveKey(r, loc, i)]]
    /\ StartGates(r, [i \in Inputs |-> CircuitZeroKey(r, i)])
    /\ Draw(r, "garblers", KeysDrawn(r))
    /\ Goto(r, "compute")
    /\ UNCHANGED <<circuit, call, gen, keys, sb, rb, received, stream, out>>

Flush(r) ==
    /\ At(r, "compute") /\ ~GatesLeft(r)
    /\ sending' = [sending EXCEPT ![r] = IF r = "g1" THEN sb ELSE <<>>]
    /\ sb' = IF r = "g1" THEN <<>> ELSE sb
    /\ Goto(r, "output")
    /\ UNCHANGED <<circuit, call, drawn, keys, gen, gate, rb, wires, received, stream, out>>

Colours(r) == [i \in Outputs |-> getLSB(OutputsOf(circuit, Wires(r))[i])]
G1EvalShare(r) == [i \in Outputs |-> Sample("g1_eval", drawn[r].g1_eval + i)]

OutputG1 ==
    /\ At("g1", "output")
    /\ out' = [out EXCEPT !["g1"] =
                 Append(@, Shares(G1Eval, G1EvalShare("g1"), G1G2, Colours("g1")))]
    /\ Draw("g1", "g1_eval", circuit.num_output)
    /\ Return("g1", "garble")
    /\ UNCHANGED <<circuit, keys, compute, sending, received, stream>>

OutputG2 ==
    /\ At("g2", "output")
    /\ out' = [out EXCEPT !["g2"] =
                 Append(@, Shares(EvalG2, received["g2"], G1G2, Colours("g2")))]
    /\ received' = [received EXCEPT !["g2"] = <<>>]
    /\ Return("g2", "garble")
    /\ UNCHANGED <<circuit, drawn, keys, compute, sending, stream>>

-----------------------------------------------------------------------------
(* eval.                                                                   *)

Received(then) ==
    /\ received' = [received EXCEPT !["eval"] = <<>>]
    /\ Goto("eval", then)
    /\ UNCHANGED <<circuit, call, drawn, gen, sb, sending, stream, out>>

ReceiveG1Keys ==
    /\ At("eval", "recv_g1") /\ keys' = received["eval"]
    /\ Received("recv_g2") /\ UNCHANGED <<gate, rb, wires>>

ReceiveG2Keys ==
    /\ At("eval", "recv_g2") /\ keys' = [i \in Inputs |-> keys[i] (+) received["eval"][i]]
    /\ Received("recv_tables") /\ UNCHANGED <<gate, rb, wires>>

ReceiveTables ==
    /\ At("eval", "recv_tables")
    /\ rb' = [blocks |-> received["eval"], read_counter |-> 0]
    /\ StartGates("eval", keys) /\ Received("compute") /\ UNCHANGED keys

(* Mutant of EvalG2Share: the other share is not taken off.                *)
EvalG2ShareBare == Colours("eval")
EvalG2Share == [i \in Outputs |-> Colours("eval")[i] (+) G1EvalShare("eval")[i]]

OutputEval ==
    /\ At("eval", "compute") /\ ~GatesLeft("eval")
    /\ out' = [out EXCEPT !["eval"] =
                 Append(@, Shares(G1Eval, G1EvalShare("eval"), EvalG2, EvalG2Share))]
    /\ sending' = [sending EXCEPT !["eval"] = EvalG2Share]
    /\ Draw("eval", "g1_eval", circuit.num_output)
    /\ Return("eval", "recv_g1")
    /\ UNCHANGED <<circuit, keys, compute, received, stream>>

-----------------------------------------------------------------------------
RunGarbler(r) ==
    \/ ConstructGarbler(r) \/ SendKeys(r) \/ GarbleGate(r) \/ Flush(r)
    \/ r = "g1" /\ (FlushOpening \/ OutputG1)
    \/ r = "g2" /\ OutputG2

RunEvaluator ==
    \/ ConstructEvaluator \/ ReceiveG1Keys \/ ReceiveG2Keys \/ ReceiveTables
    \/ EvaluateGate \/ OutputEval

Run(r) ==
    \/ Transmit(r) \/ Receive(r)
    \/ r \in Garbler /\ RunGarbler(r)
    \/ r = "eval" /\ RunEvaluator

Next == \E r \in Role : Run(r)

(* Each party is a process of its own.                                     *)
Spec == Init /\ [][Next]_vars
FairSpec == Spec /\ \A r \in Role : WF_vars(Run(r))
=============================================================================
