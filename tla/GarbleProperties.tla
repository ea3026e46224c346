-------------------------- MODULE GarbleProperties --------------------------
(***************************************************************************)
(* What the lookup relies on the garbled evaluation for.  A plain          *)
(* evaluation of the same circuit on the XOR of the shares is the          *)
(* reference.                                                              *)
(***************************************************************************)
EXTENDS Garble

(* The value of every wire of circuit f, by the plain meaning of the gates.*)
Secret(c, i) == Share(c, G1Eval, i) (+) Share(c, EvalG2, i) (+) Share(c, G1G2, i)
PlainGate(w, g) ==
    [w EXCEPT ![g.out] =
       CASE g.type = "AND" -> w[g.in1] (.) w[g.in2]
         [] g.type = "XOR" -> w[g.in1] (+) w[g.in2]
         [] g.type = "INV" -> w[g.in1] (+) One
         [] g.type = "EQW" -> w[g.in1]]
PlainWires(f, c) ==
    LET w[k \in 0 .. Len(f.gates)] ==
            IF k = 0 THEN InputWires(f, [i \in 1 .. f.num_input |-> Secret(c, i)])
            ELSE PlainGate(w[k - 1], f.gates[k])
    IN w
Plain(c) == PlainWires(circuit, c)[Len(circuit.gates)]

Computed(r, c) == c =< Len(wires[r]) /\ (c = call[r] => ~GatesLeft(r))
Returned(r, c) == c =< Len(out[r])

(* Party 2, whose tables nobody sees, knows the zero key of every wire of  *)
(* every call as party 3 does: the generator the two share is drawn from   *)
(* in step, the keys that are drawn and not used included.                 *)
GarblersAgree ==
    \A c \in 1 .. NumCalls :
        Computed("g1", c) /\ Computed("g2", c) => wires["g1"][c] = wires["g2"][c]

(* The evaluator holds the key of the value of every wire that carries     *)
(* one: party 3's zero key XOR delta if the value is one.  The keys and    *)
(* tables it works with are those of its own call and gate, however far    *)
(* ahead the garblers are and however the streams cut their messages.      *)
ActiveKeys ==
    \A c \in 1 .. NumCalls :
        Computed("g1", c) /\ Computed("eval", c) =>
            \A w \in 1 .. circuit.num_wire :
                wires["eval"][c][w] = wires["g1"][c][w] (+) (Plain(c)[w] (.) gen["g1"].delta)

(* What the three parties return is a replicated sharing, both holders of  *)
(* a share having the same, of what the circuit makes of the secrets.      *)
OutputShared ==
    \A c \in 1 .. NumCalls :
        (\A r \in Role : Returned(r, c)) =>
            /\ out["g1"][c][G1Eval] = out["eval"][c][G1Eval]
            /\ out["eval"][c][EvalG2] = out["g2"][c][EvalG2]
            /\ out["g2"][c][G1G2] = out["g1"][c][G1G2]
            /\ \A i \in Outputs :
                 out["g1"][c][G1Eval][i] (+) out["g2"][c][EvalG2][i] (+) out["g1"][c][G1G2][i]
                     = OutputsOf(circuit, Plain(c))[i]

(* The assertions of the two buffers hold: the constants of the            *)
(* constructor and then the tables of a call have room in the sender's,    *)
(* the receiver never gets more than it has room for nor reads past what   *)
(* it has got, and has used it up when it is refilled.                     *)
BufferAsserts ==
    /\ Len(sb) =< BufLen /\ Len(rb.blocks) =< BufLen
    /\ rb.read_counter =< Len(rb.blocks)
    /\ pc["eval"] = "recv_tables" => rb.read_counter = Len(rb.blocks)

(* Every call returns at every party, and leaves nothing in a stream for   *)
(* the operation that uses the connection next.                            *)
Finishes == <>(\A r \in Role : pc[r] = "done" /\ sending[r] = <<>> /\ stream[r] = <<>>)

-----------------------------------------------------------------------------
(* The invariant: where a party is tells all that it has.  f is a circuit, *)
(* c a call, k the number of gates done.                                   *)

Delta == Atom(<<"delta", 1>>)
OneKey == Sample("garblers", 4) (+) Delta
Start == Sample("garblers", 2)
DrawnPerCall(f) == 2 * f.num_input + f.num_output
KeyOf(f, c, loc, i) ==
    Sample("garblers", 4 + (c - 1) * DrawnPerCall(f) + (loc - 1) * f.num_input + i)
Active(f, c, loc, i) == KeyOf(f, c, loc, i) (+) (Share(c, loc, i) (.) Delta)
InputZero(f, c, i) ==
    KeyOf(f, c, G1Eval, i) (+) KeyOf(f, c, EvalG2, i) (+) (Share(c, G1G2, i) (.) Delta)

(* The zero keys, and the keys that the evaluator holds.                   *)
AndsTo(f, k) == Cardinality({j \in 1 .. k : f.gates[j].type = "AND"})
GarblingOf(f, c, k, w) ==
    [S |-> Start, gid |-> (c - 1) * NumAnds(f) + AndsTo(f, k - 1), delta |-> Delta,
     a |-> w[f.gates[k].in1], b |-> w[f.gates[k].in2]]
ZeroGate(f, c, k, w) ==
    [w EXCEPT ![f.gates[k].out] =
       IF f.gates[k].type = "AND" THEN OutputKey(GarblingOf(f, c, k, w))
       ELSE FreeKey(w, f.gates[k], OneKey)]
ZeroWires(f, c) ==
    LET w[k \in 0 .. Len(f.gates)] ==
            IF k = 0 THEN InputWires(f, [i \in 1 .. f.num_input |-> InputZero(f, c, i)])
            ELSE ZeroGate(f, c, k, w[k - 1])
    IN w
ActiveWires(f, c, k) ==
    [w \in 1 .. f.num_wire |-> ZeroWires(f, c)[k][w] (+) (PlainWires(f, c)[k][w] (.) Delta)]

(* What a party at place p has: GenAt its generator, DrawnAt, WiresAt and  *)
(* OutAt what it drew, computed and returned.                              *)
InCall == {"compute", "output"}
GenAt(f, r, p, c, k) ==
    IF p = "construct" THEN [delta |-> Zero, one |-> Zero, S |-> Zero, gid |-> 0]
    ELSE [delta |-> IF r = "eval" THEN Zero ELSE Delta,
          one   |-> IF r = "eval" THEN Sample("garblers", 4) ELSE OneKey,
          S     |-> Start,
          gid   |-> (c - 1) * NumAnds(f) + (IF p \in InCall THEN AndsTo(f, k) ELSE 0)]
DrawnAt(f, r, p, c) ==
    [garblers |-> IF r = "eval" \/ p = "construct" THEN 0
                  ELSE 4 + (c - 1) * DrawnPerCall(f) + (IF p \in InCall THEN DrawnPerCall(f) ELSE 0),
     g1_eval  |-> IF r = "g2" THEN 0 ELSE (c - 1) * f.num_output]
WiresAfter(f, r, c, k) == IF r = "eval" THEN ActiveWires(f, c, k) ELSE ZeroWires(f, c)[k]
WiresAt(f, r, p, c, k) ==
    [b \in 1 .. (IF p \in InCall THEN c ELSE c - 1) |->
       WiresAfter(f, r, b, IF b = c THEN k ELSE Len(f.gates))]
G1EvalOf(f, c) == [i \in 1 .. f.num_output |-> Sample("g1_eval", (c - 1) * f.num_output + i)]
ColoursOf(f, w) == [i \in 1 .. f.num_output |-> getLSB(OutputsOf(f, w)[i])]
FromEval(f, c) ==
    [i \in 1 .. f.num_output |->
       ColoursOf(f, ActiveWires(f, c, Len(f.gates)))[i] (+) G1EvalOf(f, c)[i]]
OutAfter(f, r, c) ==
    LET colours == ColoursOf(f, ZeroWires(f, c)[Len(f.gates)])
    IN CASE r = "g1"   -> Shares(G1Eval, G1EvalOf(f, c), G1G2, colours)
         [] r = "g2"   -> Shares(EvalG2, FromEval(f, c), G1G2, colours)
         [] r = "eval" -> Shares(G1Eval, G1EvalOf(f, c), EvalG2, FromEval(f, c))
OutAt(f, r, c) == [b \in 1 .. c - 1 |-> OutAfter(f, r, b)]
OwnInv ==
    \A r \in Role :
        /\ gen[r] = GenAt(circuit, r, pc[r], call[r], gate[r] - 1)
        /\ drawn[r] = DrawnAt(circuit, r, pc[r], call[r])
        /\ wires[r] = WiresAt(circuit, r, pc[r], call[r], gate[r] - 1)
        /\ out[r] = OutAt(circuit, r, call[r])

(* The tables on their way through the buffers, and the evaluator's keys.  *)
AndGate(f, j) ==
    CHOOSE k \in 1 .. Len(f.gates) : f.gates[k].type = "AND" /\ AndsTo(f, k) = (j + 1) \div 2
Tables(f, c) ==
    [j \in 1 .. 2 * NumAnds(f) |->
       TableBlock(IF j % 2 = 1 THEN 1 ELSE 2,
                  GarblingOf(f, c, AndGate(f, j), ZeroWires(f, c)[AndGate(f, j) - 1]))]
Opening == <<Sample("garblers", 3), Sample("garblers", 4), Start>>
SendBuffer(f, p, c, k) ==
    IF p = "flush" THEN Opening
    ELSE [j \in 1 .. (IF p = "compute" THEN 2 * AndsTo(f, k) ELSE 0) |-> Tables(f, c)[j]]
RecvBuffer(f, p, c, k) ==
    CASE p = "construct" -> [blocks |-> <<>>, read_counter |-> 0]
      [] p = "compute"   -> [blocks |-> Tables(f, c), read_counter |-> 2 * AndsTo(f, k)]
      [] OTHER           -> IF c = 1 THEN [blocks |-> Opening, read_counter |-> 3]
                            ELSE [blocks |-> Tables(f, c - 1), read_counter |-> 2 * NumAnds(f)]
BuffersInv ==
    /\ sb = SendBuffer(circuit, pc["g1"], call["g1"], gate["g1"] - 1)
    /\ rb = RecvBuffer(circuit, pc["eval"], call["eval"], gate["eval"] - 1)
    /\ pc["eval"] = "recv_g2" => keys = [i \in Inputs |-> Active(circuit, call["eval"], G1Eval, i)]
    /\ pc["eval"] = "recv_tables" => keys = [i \in Inputs |-> ActiveWires(circuit, call["eval"], 0)[i]]

(* The streams.  Block j of a call is at a position that follows those of  *)
(* the calls before it; Sent and Taken are how many blocks a sender has    *)
(* sent and its receiver used, Got those that it has got and not yet used. *)
Dest(s) == IF s = "eval" THEN "g2" ELSE "eval"
Base(s) == IF s = "g1" THEN 3 ELSE 0
Words(f, s, c) ==
    CASE s = "g1"   -> [i \in 1 .. f.num_input |-> Active(f, c, G1Eval, i)] \o Tables(f, c)
      [] s = "g2"   -> [i \in 1 .. f.num_input |-> Active(f, c, EvalG2, i)]
      [] s = "eval" -> FromEval(f, c)
Width(f, s) ==
    CASE s = "g1"   -> f.num_input + 2 * NumAnds(f)
      [] s = "g2"   -> f.num_input
      [] s = "eval" -> f.num_output
Position(f, s, c, j) == Base(s) + (c - 1) * Width(f, s) + j
Sent(f, s, p, c) ==
    IF s = "g1" /\ p \in {"construct", "flush"} THEN 0
    ELSE Position(f, s, c, IF p = "output" THEN Width(f, s)
                           ELSE IF s # "eval" /\ p = "compute" THEN f.num_input ELSE 0)
Taken(f, s, p, c) ==
    IF s = "g1" /\ p = "construct" THEN 0
    ELSE Position(f, s, c, IF s # "eval" /\ p = "compute" THEN Width(f, s)
                           ELSE IF p = "recv_tables" \/ (s = "g1" /\ p = "recv_g2") THEN f.num_input
                           ELSE 0)
Got(s, p, blocks) ==
    IF s = "g1" /\ p = "recv_g2" THEN <<>> ELSE IF s = "g2" /\ p # "recv_g2" THEN <<>> ELSE blocks
Carries(f, s, blocks, from, upto) ==
    /\ Len(blocks) = upto - from
    /\ \A c \in 1 .. NumCalls : \A j \in 1 .. Width(f, s) :
         Position(f, s, c, j) \in from + 1 .. upto =>
             blocks[Position(f, s, c, j) - from] = Words(f, s, c)[j]
    /\ (s = "g1" /\ from = 0 /\ upto # 0) => \A j \in 1 .. 3 : blocks[j] = Opening[j]
Pipe(s) == Got(s, pc[Dest(s)], received[Dest(s)]) \o (stream[s] \o sending[s])
PipesHold ==
    \A s \in Role : Carries(circuit, s, Pipe(s), Taken(circuit, s, pc[Dest(s)], call[Dest(s)]),
                            Sent(circuit, s, pc[s], call[s]))

(* Where the parties are.                                                  *)
IsSeq(s) == Len(s) \in Nat /\ s = [j \in 1 .. Len(s) |-> s[j]]
Place(r) ==
    IF r = "eval" THEN {"construct", "recv_g1", "recv_g2", "recv_tables", "compute", "done"}
    ELSE {"construct", "garble", "compute", "output", "done"} \cup (IF r = "g1" THEN {"flush"} ELSE {})
PlacesInv ==
    /\ circuit \in Circuits
    /\ {DOMAIN pc, DOMAIN call, DOMAIN gate, DOMAIN gen, DOMAIN drawn, DOMAIN wires, DOMAIN out,
        DOMAIN stream, DOMAIN sending, DOMAIN received} = {Role}
    /\ \A r \in Role :
         /\ pc[r] \in Place(r) /\ call[r] \in 1 .. NumCalls + 1
         /\ gate[r] \in 1 .. Len(circuit.gates) + 1
         /\ (pc[r] = "done") = (call[r] = NumCalls + 1)
         /\ pc[r] \in {"construct", "flush"} => call[r] = 1
         /\ pc[r] = "output" => ~GatesLeft(r)
         /\ IsSeq(stream[r]) /\ IsSeq(sending[r]) /\ IsSeq(received[r])
         /\ Len(received[r]) =< Wanted(r)

GarbleInv == PlacesInv /\ OwnInv /\ BuffersInv /\ PipesHold
=============================================================================
