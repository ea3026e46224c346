--------------------------- MODULE Rep3Properties ---------------------------
(***************************************************************************)
(* What the ORAM expects of the shared registers: that they are registers. *)
(***************************************************************************)
EXTENDS Rep3

(* The program in the clear.                                               *)
Shared(r, k) == Atom(<<r, 1, k>>) (+) Atom(<<r, 2, k>>) (+) Atom(<<r, 3, k>>)

After(op, i, clear) ==
    CASE op.kind = "input"     -> [clear EXCEPT !["a"] = [k \in Word |-> Atom(<<"secret", i, k>>)]]
      [] op.kind = "shuffle"   -> [clear EXCEPT !["a"] = Permuted(@)]
      [] op.kind = "mand_gate" -> [clear EXCEPT !["c"] = [k \in Word |-> clear["a"][k] (.) clear["b"][k]]]
      [] op.kind = "if_then_else" ->
            [clear EXCEPT !["d"][1] = clear["c"][1]
                (+) (clear["b"][1] (.) (clear["a"][1] (+) clear["c"][1]))]
      [] op.kind = "input_public" ->
            [clear EXCEPT !["e"] = [k \in Word |-> Atom(<<"secret", i, k>>)]]
      [] op.kind \in {"apply_or_mask", "apply_and_mask"} ->
            [clear EXCEPT !["a"] = MaskedWords(op.kind, @)]
      [] OTHER                 -> clear

Clear[i \in 0 .. NumOps] ==
    IF i = 0
    THEN [r \in Register |-> IF r \in {"a", "b"} THEN [k \in Word |-> Shared(r, k)] ELSE Zeros]
    ELSE After(prog[i], i, Clear[i - 1])

Between(i) == \A p \in Party : pos[p] = i + 1 /\ step[p] = 1

(* When the parties have all finished an operation, every register but the *)
(* random one is a sharing of what the operation computes in the clear,    *)
(* neighbours hold the same share and have drawn as much from the generator*)
(* they have in common, and no word is left on its way.                    *)
SharesAgree ==
    \A i \in 0 .. NumOps : Between(i) =>
        \A p \in Party :
            /\ prev[next_party(p)] = next[p]
            /\ \A r \in Register \ {"f"} : \A k \in Word :
                  next[p][r][k] (+) prev[p][r][k] (+) next[next_party(p)][r][k] = Clear[i][r][k]
            /\ drawn[p].next = drawn[next_party(p)].prev
            /\ stream[p] = <<>>

(* The stream has no frames: a party that reads ahead of or behind its     *)
(* neighbour reads the words of another operation.                         *)
FramesMatch ==
    \A p \in Party :
        AtRecv(p) /\ stream[p] # <<>> =>
            /\ Head(stream[p]).op = pos[p]
            /\ Head(stream[p]).index = Now(p).lo

(* A party that a value is revealed to learns that value.                  *)
RevealRight ==
    \A p \in Party :
        pos[p] > 1 /\ step[p] = 1 =>
            LET op == prog[pos[p] - 1]
            IN op.kind = "reveal_to_all" \/ (op.kind = "reveal_to" /\ op.party = p) =>
                  public[p] = Clear[pos[p] - 1][op.reg]

(* No party waits for ever, with all of them sending before they receive.  *)
Finishes == <>(\A p \in Party : pos[p] = NumOps + 1)

(* Every word of an AND gate's output is the AND of its inputs, whatever   *)
(* the output register held before and however wide the gate is.           *)
AndComputesAnd ==
    \A i \in 1 .. NumOps : Between(i) /\ prog[i].kind = "mand_gate" =>
        \A k \in Word :
            next[1]["c"][k] (+) next[2]["c"][k] (+) next[3]["c"][k] = Clear[i]["c"][k]

-----------------------------------------------------------------------------
(* The inductive invariant behind FramesMatch.                             *)
Bits == ({"a", "b"} \X Party \X Word) \cup ({"prg"} \X Party \X Nat) \cup ({"secret"} \X (1 .. NumOps) \X Word)
Polynomial == SUBSET SUBSET Bits
Vector == [Word -> Polynomial]

TypeOK ==
    /\ prog \in [1 .. NumOps -> Operation]
    /\ pos \in [Party -> 1 .. NumOps + 1]
    /\ step \in [Party -> Nat \ {0}]
    /\ \A p \in Party : step[p] =< IF Running(p) THEN Len(Steps(prog[pos[p]], p)) + 1 ELSE 1
    /\ prev \in [Party -> [Register -> Vector]]
    /\ next \in [Party -> [Register -> Vector]]
    /\ buf \in [Party -> Vector]
    /\ public \in [Party -> Vector]
    /\ drawn \in [Party -> [prev : Nat, next : Nat]]
    /\ stream \in [Party -> Seq([word : Polynomial, op : 1 .. NumOps, index : Word])]

Sending == {"send_next", "send_prev", "send_buf"}
Receiving == {"recv_prev", "recv_prev_xor", "recv_public"}

(* The frames a party sends in an operation, and in the first n.           *)
Frames(op, p) ==
    CASE op.kind = "input"     -> IF p = op.party THEN NumWords ELSE 0
      [] op.kind = "shuffle"   -> IF p \in {op.party, next_party(op.party)} THEN NumWords ELSE 0
      [] op.kind = "reveal_to" -> IF p = prev_party(op.party) THEN NumWords ELSE 0
      [] op.kind \in {"reveal_to_all", "mand_gate"} -> NumWords
      [] op.kind = "if_then_else" -> 1
      [] OTHER -> 0

Total(p) ==
    LET total[n \in 0 .. NumOps] == IF n = 0 THEN 0 ELSE total[n - 1] + Frames(prog[n], p)
    IN total

(* How many of a kind there are before a step, and so far.                 *)
Before(steps, whats, s) == Cardinality({k \in 1 .. s - 1 : steps[k].do \in whats})
SoFar(p, whats) ==
    IF Running(p) THEN Before(Steps(prog[pos[p]], p), whats, step[p]) ELSE 0
Sent(p) == Total(p)[pos[p] - 1] + SoFar(p, Sending)
Received(p) == Total(prev_party(p))[pos[p] - 1] + SoFar(p, Receiving)

(* A stream holds the frames that its sender has sent and its receiver has *)
(* not received, in the order of the program.                              *)
FramesInOrder ==
    \A p \in Party :
        LET q == next_party(p)
        IN /\ Len(stream[q]) = Sent(p) - Received(q)
           /\ \A j \in 1 .. Len(stream[q]) :
                  LET m == stream[q][j]
                  IN /\ m.index =< Frames(prog[m.op], p)
                     /\ Total(p)[m.op - 1] + m.index = Received(q) + j

Rep3Inv == TypeOK /\ FramesInOrder

-----------------------------------------------------------------------------
(* The inductive invariant behind SharesAgree and RevealRight.  The program*)
(* as the parties would run it in step: Sync[i] has, after i operations,   *)
(* the share that p holds as next and the next party as prev, and how many *)
(* words were drawn from the generator these two have in common.           *)

PadWord(g, p, k) == Sample(p, g.drawn[p] + k)
ZeroShare(g, p, k) == PadWord(g, prev_party(p), k) (+) PadWord(g, p, k)
Held(g, p, r, k) == [prev |-> g.share[prev_party(p)][r][k], next |-> g.share[p][r][k]]
Sum(g, r, k) == g.share[1][r][k] (+) g.share[2][r][k] (+) g.share[3][r][k]

(* The shuffle: what is taken of the three shares by the two parties that  *)
(* permute, and what the first of them sends in the end.                   *)
Taken(op, g, p, k) ==
    IF p = op.party THEN g.share[prev_party(p)]["a"][k] (+) g.share[p]["a"][k]
                    ELSE g.share[p]["a"][k]
Relocated(op, g, p, k) == Taken(op, g, p, NumWords + 1 - k)
Difference(op, g, p, k) == Relocated(op, g, p, k) (+) PadWord(g, prev_party(p), k)

(* if_then_else: the gate's inputs.                                        *)
Chosen(g, p, k) ==
    LET a == Held(g, p, "a", k)
        c == Held(g, p, "c", k)
    IN [prev |-> a.prev (+) c.prev, next |-> a.next (+) c.next]

(* The share of p at word k of the register an operation writes: when first*)
(* written, and in the end.                                                *)
FirstWord(op, i, g, p, k) ==
    LET old == g.share[p][op.reg][k]
    IN CASE op.kind = "input" ->
              (CASE p = op.party              -> Atom(<<"secret", i, k>>) (+) PadWord(g, prev_party(p), k)
                 [] p = prev_party(op.party)  -> PadWord(g, p, k)
                 [] OTHER                     -> Zero)
         [] op.kind = "shuffle" ->
              (CASE p = next_party(op.party)  -> Relocated(op, g, p, k) (+) PadWord(g, prev_party(p), k)
                 [] p = op.party              -> PadWord(g, p, k)
                 [] OTHER                     -> Zero)
         [] op.kind = "mand_gate" ->
              ZeroShare(g, p, k) (+) Products(Held(g, p, "a", k), Held(g, p, "b", k))
         [] op.kind = "if_then_else" /\ k = 1 ->
              ZeroShare(g, p, k) (+) Products(Held(g, p, "b", k), Chosen(g, p, k))
         [] op.kind = "input_public" /\ p = 1 -> Atom(<<"secret", i, k>>)
         [] op.kind = "fill_random"           -> PadWord(g, p, k)
         [] op.kind \in {"apply_or_mask", "apply_and_mask"} ->
              MaskedWords(op.kind, g.share[p]["a"])[k]
         [] OTHER                             -> old

LastWord(op, i, g, p, k) ==
    LET first == FirstWord(op, i, g, p, k)
    IN CASE op.kind = "shuffle" /\ p = op.party -> first (+) Difference(op, g, p, k)
         [] op.kind = "shuffle" /\ p = prev_party(op.party) -> first (+) PadWord(g, p, k)
         [] op.kind = "if_then_else" /\ k = 1 -> first (+) g.share[p]["c"][k]
         [] OTHER -> first

(* The words an operation draws from the generator of p and its next.      *)
WordsDrawn(op, p) ==
    CASE op.kind = "input"     -> IF p = prev_party(op.party) THEN NumWords ELSE 0
      [] op.kind = "shuffle"   -> IF p \in {op.party, prev_party(op.party)} THEN NumWords ELSE 0
      [] op.kind \in {"mand_gate", "fill_random"} -> NumWords
      [] op.kind = "if_then_else" -> 1
      [] OTHER -> 0

Effect(op, i, g) ==
    [share |-> [p \in Party |-> [r \in Register |-> [k \in Word |->
                  IF r = op.reg THEN LastWord(op, i, g, p, k) ELSE g.share[p][r][k]]]],
     drawn |-> [p \in Party |-> g.drawn[p] + WordsDrawn(op, p)]]

Start ==
    [share |-> [p \in Party |-> [r \in Register |->
                  IF r \in {"a", "b"} THEN [k \in Word |-> Atom(<<r, p, k>>)] ELSE Zeros]],
     drawn |-> [p \in Party |-> 0]]

Sync[i \in 0 .. NumOps] == IF i = 0 THEN Start ELSE Effect(prog[i], i, Sync[i - 1])

(* The words that a party has dealt with by steps of a kind.               *)
Span(e) == IF e.do \in Sending \cup Receiving THEN {e.lo} ELSE e.lo .. e.hi
Did(steps, s, whats) ==
    {k \in Word : \E j \in 1 .. s - 1 : steps[j].do \in whats /\ k \in Span(steps[j])}

Once == {"deal", "pad", "input_public", "fill_random", "apply_or_mask", "apply_and_mask"}
WritesNext == Once \cup {"zero_next", "multiply", "choose"}
WritesPrev == Once \cup {"recv_prev"}
RewritesNext == {"deal_xor", "pad_xor", "xor_else"}
RewritesPrev == {"deal_xor", "recv_prev_xor", "xor_else"}
DrawsNext == {"pad", "pad_xor", "fill_random", "multiply", "choose"}
DrawsPrev == {"deal", "deal_xor", "fill_random", "multiply", "choose"}

Takes == {"take_both", "take_prev", "take_next"}

(* The registers of p after the steps before s, word by word: regs is what *)
(* the party q knows as its shares, next or prev.                          *)
Stage(op, i, g, q, r, k, written, rewritten) ==
    IF k \in written \cup rewritten /\ r = op.reg
    THEN IF k \in rewritten THEN LastWord(op, i, g, q, k) ELSE FirstWord(op, i, g, q, k)
    ELSE g.share[q][r][k]

Staged(op, i, g, q, written, rewritten, regs) ==
    \A r \in Register : \A k \in Word : regs[r][k] = Stage(op, i, g, q, r, k, written, rewritten)

NextAt(op, i, g, p, steps, s, regs) ==
    Staged(op, i, g, p, Did(steps, s, WritesNext), Did(steps, s, RewritesNext), regs)
PrevAt(op, i, g, p, steps, s, regs) ==
    Staged(op, i, g, prev_party(p), Did(steps, s, WritesPrev), Did(steps, s, RewritesPrev), regs)

DrawnAt(g, p, steps, s, d) ==
    /\ d.next = g.drawn[p] + Cardinality(Did(steps, s, DrawsNext))
    /\ d.prev = g.drawn[prev_party(p)] + Cardinality(Did(steps, s, DrawsPrev))

BufferAt(op, i, g, p, steps, s, words) ==
    \A k \in Word :
        /\ k \in Did(steps, s, {"secrets"}) => words[k] = Atom(<<"secret", i, k>>)
        /\ k \in Did(steps, s, Takes) =>
             words[k] = IF k \in Did(steps, s, {"deal_xor"}) THEN Difference(op, g, p, k)
                        ELSE IF k \in Did(steps, s, {"permute"}) THEN Relocated(op, g, p, k)
                        ELSE Taken(op, g, p, k)

PublicAt(op, g, steps, s, words) ==
    \A k \in Did(steps, s, {"recv_public"}) : words[k] = Sum(g, op.reg, k)

Holds(op, i, g, p, steps, s, pv, nx, words, d, open) ==
    /\ PrevAt(op, i, g, p, steps, s, pv) /\ NextAt(op, i, g, p, steps, s, nx)
    /\ BufferAt(op, i, g, p, steps, s, words) /\ DrawnAt(g, p, steps, s, d)
    /\ PublicAt(op, g, steps, s, open)

(* A party that has finished the program.                                  *)
Agreed(g, p, pv, nx, d) ==
    /\ \A r \in Register : \A k \in Word : nx[r][k] = g.share[p][r][k] /\ pv[r][k] = g.share[prev_party(p)][r][k]
    /\ d.next = g.drawn[p] /\ d.prev = g.drawn[prev_party(p)]

PartyHeld(p) ==
    IF Running(p)
    THEN Holds(prog[pos[p]], pos[p], Sync[pos[p] - 1], p, Steps(prog[pos[p]], p), step[p],
               prev[p], next[p], buf[p], drawn[p], public[p])
    ELSE Agreed(Sync[pos[p] - 1], p, prev[p], next[p], drawn[p])

(* What is on its way, and what was opened.                                *)
WordOf(op, i, g, p, k) ==
    CASE op.kind \in {"reveal_to", "reveal_to_all"} -> g.share[prev_party(p)][op.reg][k]
      [] op.kind = "shuffle" /\ p = op.party        -> Difference(op, g, p, k)
      [] OTHER                                      -> FirstWord(op, i, g, p, k)

StreamsHeld ==
    \A p \in Party : \A j \in 1 .. Len(stream[p]) :
        LET m == stream[p][j]
        IN m.word = WordOf(prog[m.op], m.op, Sync[m.op - 1], prev_party(p), m.index)

RevealedTo(op, p) == op.kind = "reveal_to_all" \/ (op.kind = "reveal_to" /\ op.party = p)

LastOpened ==
    \A p \in Party :
        pos[p] > 1 /\ step[p] = 1 /\ RevealedTo(prog[pos[p] - 1], p) =>
            \A k \in Word : public[p][k] = Sum(Sync[pos[p] - 1], prog[pos[p] - 1].reg, k)

SharesInv == (\A p \in Party : PartyHeld(p)) /\ StreamsHeld /\ LastOpened
=============================================================================
