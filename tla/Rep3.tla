-------------------------------- MODULE Rep3 --------------------------------
(***************************************************************************)
(* Replicated secret sharing between the three parties.  A register of     *)
(* words is the XOR of three shares; party p holds the shares prev and     *)
(* next, and its next is the prev of the next party.  Every party runs the *)
(* same program, each at its own speed: the parties are coupled by byte    *)
(* streams of limited capacity to the next party, and by the pseudo-random *)
(* generators each shares with its neighbours, which must be drawn from in *)
(* step.                                                                   *)
(*                                                                         *)
(* The operations are those of rep_array_unsliced, the AND gate and the    *)
(* choice of SHRepArray and one step of ArrayShuffler.  A word is a        *)
(* polynomial in the secrets and the pads; an action is one local          *)
(* computation, or one word sent or received.                              *)
(***************************************************************************)
EXTENDS Gf2, Sequences

Seqs == INSTANCE SequencesExt

CONSTANTS
    NumWords,      \* the length of every register
    IoWindow,      \* words of a window of io_send_and_recv (2^20 bytes)
    MandWindow,    \* words of a window of mand_gate (2^16 slices)
    ZsprgBuf,      \* ZSPRG_BUF_SZ_BLOCKS
    Capacity,      \* words a stream holds before its sender blocks
    NumOps         \* length of a program

(* The parties send a window before they receive one, all at once: a       *)
(* window has to fit in the streams.                                       *)
ASSUME Rep3Assumption ==
    /\ {NumWords, IoWindow, MandWindow, ZsprgBuf, Capacity, NumOps} \subseteq Nat \ {0}
    /\ IoWindow =< Capacity /\ MandWindow =< Capacity

Party == 1 .. 3
next_party(p) == (p % 3) + 1
prev_party(p) == ((p + 1) % 3) + 1

Word == 1 .. NumWords
(* a, b: shared inputs; c, d: outputs of gates; e: public; f: random       *)
Register == {"a", "b", "c", "d", "e", "f"}

Operation ==
    [kind : {"input", "shuffle"}, party : Party, reg : {"a"}]
        \cup [kind : {"reveal_to"}, party : Party, reg : {"a", "c"}]
        \cup [kind : {"reveal_to_all"}, party : {0}, reg : {"a", "c"}]
        \cup [kind : {"mand_gate"}, party : {0}, reg : {"c"}]
        \cup [kind : {"if_then_else"}, party : {0}, reg : {"d"}]
        \cup [kind : {"input_public"}, party : {0}, reg : {"e"}]
        \cup [kind : {"fill_random"}, party : {0}, reg : {"f"}]
        \cup [kind : {"apply_or_mask", "apply_and_mask"}, party : {0}, reg : {"a"}]

VARIABLES
    prog,          \* the program of all three
    pos, step,     \* each party's operation, and its step in that operation
    prev, next,    \* each party's shares of every register
    buf,           \* each party's local words: secrets, two_shares, pad
    public,        \* what each party learnt from its last reveal
    drawn,         \* words each party has drawn from prev_prg and next_prg
    stream         \* the words on their way to each party

local == <<prev, next, buf, drawn>>
vars == <<prog, pos, step, prev, next, buf, public, drawn, stream>>

Zeros == [k \in Word |-> Zero]

Init ==
    /\ prog \in [1 .. NumOps -> Operation]
    /\ pos = [p \in Party |-> 1] /\ step = [p \in Party |-> 1]
    /\ next = [p \in Party |-> [r \in Register |->
                 IF r \in {"a", "b"} THEN [k \in Word |-> Atom(<<r, p, k>>)] ELSE Zeros]]
    /\ prev = [p \in Party |-> next[prev_party(p)]]
    /\ buf = [p \in Party |-> Zeros] /\ public = [p \in Party |-> Zeros]
    /\ drawn = [p \in Party |-> [prev |-> 0, next |-> 0]]
    /\ stream = [p \in Party |-> <<>>]

-----------------------------------------------------------------------------
(* What a party does in an operation: a sequence of steps.                 *)

Do(what, lo, hi) == <<[do |-> what, lo |-> lo, hi |-> hi]>>
Each(what, lo, hi) == [j \in 1 .. hi - lo + 1 |-> [do |-> what, lo |-> lo + j - 1, hi |-> hi]]

Nothing == <<>>

InputSteps(i, p) ==
    CASE p = i              -> Do("deal", 1, NumWords) \o Each("send_next", 1, NumWords)
      [] p = prev_party(i)  -> Do("pad", 1, NumWords)
      [] p = next_party(i)  -> Each("recv_prev", 1, NumWords) \o Do("zero_next", 1, NumWords)

InputXorSteps(i, p) ==
    CASE p = i              -> Do("deal_xor", 1, NumWords) \o Each("send_buf", 1, NumWords)
      [] p = prev_party(i)  -> Do("pad_xor", 1, NumWords)
      [] p = next_party(i)  -> Each("recv_prev_xor", 1, NumWords)

From2SharesSteps(from_1, from_2, p) ==
    IF from_2 = prev_party(from_1)
    THEN InputSteps(from_1, p) \o InputXorSteps(from_2, p)
    ELSE InputSteps(from_2, p) \o InputXorSteps(from_1, p)

Reshare3to2Steps(to_1, to_2, p) ==
    CASE p = to_1 -> Do("take_both", 1, NumWords)
      [] p = to_2 -> Do(IF to_2 = prev_party(to_1) THEN "take_prev" ELSE "take_next", 1, NumWords)
      [] OTHER    -> Nothing

(* forward_step: the two parties that know the permutation apply it.       *)
ShuffleSteps(i, p) ==
    Reshare3to2Steps(i, next_party(i), p)
        \o (IF p \in {i, next_party(i)} THEN Do("permute", 1, NumWords) ELSE Nothing)
        \o From2SharesSteps(i, next_party(i), p)

(* Mutant of RevealToSteps: everybody else sends.                          *)
RevealToByBoth(i, p) ==
    IF p = i THEN Each("recv_public", 1, NumWords) ELSE Each("send_prev", 1, NumWords)

RevealToSteps(i, p) ==
    CASE p = i              -> Each("recv_public", 1, NumWords)
      [] p = prev_party(i)  -> Each("send_prev", 1, NumWords)
      [] OTHER              -> Nothing

Smaller(i, j) == IF i < j THEN i ELSE j
Bounds(w, size) == [lo |-> (w - 1) * size + 1, hi |-> Smaller(w * size, NumWords)]
(* Mutant of Windows: one window for all the words.                        *)
WholeWindow(size) == <<[lo |-> 1, hi |-> NumWords]>>
Windows(size) == [w \in 1 .. ((NumWords - 1) \div size) + 1 |-> Bounds(w, size)]

SendAndRecvSteps ==
    Seqs!FlattenSeq([w \in DOMAIN Windows(IoWindow) |->
        LET win == Windows(IoWindow)[w]
        IN Each("send_prev", win.lo, win.hi) \o Each("recv_public", win.lo, win.hi)])

MandSteps ==
    Seqs!FlattenSeq([w \in DOMAIN Windows(MandWindow) |->
        LET win == Windows(MandWindow)[w]
        IN Do("multiply", win.lo, win.hi) \o Each("send_next", win.lo, win.hi)
             \o Each("recv_prev", win.lo, win.hi)])

(* if_then_else is about single words.                                     *)
IfThenElseSteps ==
    Do("choose", 1, 1) \o Do("send_next", 1, 1) \o Do("recv_prev", 1, 1) \o Do("xor_else", 1, 1)

Steps(op, p) ==
    CASE op.kind = "input" -> (IF p = op.party THEN Do("secrets", 1, NumWords) ELSE Nothing)
                                \o InputSteps(op.party, p)
      [] op.kind = "shuffle"       -> ShuffleSteps(op.party, p)
      [] op.kind = "reveal_to"     -> RevealToSteps(op.party, p)
      [] op.kind = "reveal_to_all" -> SendAndRecvSteps
      [] op.kind = "mand_gate"     -> MandSteps
      [] op.kind = "if_then_else"  -> IfThenElseSteps
      [] OTHER                     -> Do(op.kind, 1, NumWords)

-----------------------------------------------------------------------------
(* The generators: the n-th word p draws from next_prg is the n-th word the*)
(* next party draws from prev_prg.                                         *)

Sample(pair, n) == Atom(<<"prg", pair, n>>)
FromNext(p, k) == Sample(p, drawn[p].next + k)
FromPrev(p, k) == Sample(prev_party(p), drawn[p].prev + k)

(* ZeroSumPRG::random_block on n words: it draws chunks of its buffer's    *)
(* size, and writes every chunk to the start of its output.                *)
ZeroSumWord(p, j, n, old) ==
    LET k == ((n - j) \div ZsprgBuf) * ZsprgBuf + j
    IN IF j =< ZsprgBuf THEN FromPrev(p, k) (+) FromNext(p, k) ELSE old

Secret(p, k) == Atom(<<"secret", pos[p], k>>)

Permuted(words) == [k \in Word |-> words[NumWords + 1 - k]]

-----------------------------------------------------------------------------
(* The steps.                                                              *)

Running(p) == pos[p] =< NumOps
Now(p) == Steps(prog[pos[p]], p)[step[p]]
At(p, whats) == Running(p) /\ step[p] =< Len(Steps(prog[pos[p]], p)) /\ Now(p).do \in whats

Reg(p) == prog[pos[p]].reg
PrevShare(p) == prev[p][Reg(p)]
NextShare(p) == next[p][Reg(p)]

SetPrev(p, words) == prev' = [prev EXCEPT ![p][Reg(p)] = words]
SetNext(p, words) == next' = [next EXCEPT ![p][Reg(p)] = words]
SetBuf(p, words) == buf' = [buf EXCEPT ![p] = words]
Drew(p, side) == drawn' = [drawn EXCEPT ![p][side] = @ + NumWords]
XorWords(x, y) == [k \in Word |-> x[k] (+) y[k]]

Advance(p) == step' = [step EXCEPT ![p] = @ + 1] /\ UNCHANGED <<prog, pos>>
Stay == UNCHANGED <<public, stream>>

ReadSecrets(p) ==
    /\ At(p, {"secrets"}) /\ Advance(p) /\ Stay
    /\ SetBuf(p, [k \in Word |-> Secret(p, k)])
    /\ UNCHANGED <<prev, next, drawn>>

Deal(p) ==
    /\ At(p, {"deal"}) /\ Advance(p) /\ Stay
    /\ LET pad == [k \in Word |-> FromPrev(p, k)]
       IN SetPrev(p, pad) /\ SetNext(p, XorWords(buf[p], pad))
    /\ Drew(p, "prev") /\ UNCHANGED buf

(* Mutant of Pad: the share that is not used is left as it was.            *)
PadKeepingPrev(p) ==
    /\ At(p, {"pad"}) /\ Advance(p) /\ Stay
    /\ SetNext(p, [k \in Word |-> FromNext(p, k)])
    /\ Drew(p, "next") /\ UNCHANGED <<prev, buf>>

Pad(p) ==
    /\ At(p, {"pad"}) /\ Advance(p) /\ Stay
    /\ SetPrev(p, Zeros) /\ SetNext(p, [k \in Word |-> FromNext(p, k)])
    /\ Drew(p, "next") /\ UNCHANGED buf

ZeroNext(p) ==
    /\ At(p, {"zero_next"}) /\ Advance(p) /\ Stay
    /\ SetNext(p, Zeros) /\ UNCHANGED <<prev, buf, drawn>>

DealXor(p) ==
    /\ At(p, {"deal_xor"}) /\ Advance(p) /\ Stay
    /\ LET pad == [k \in Word |-> FromPrev(p, k)]
           diff == XorWords(buf[p], pad)
       IN /\ SetPrev(p, XorWords(PrevShare(p), pad))
          /\ SetNext(p, XorWords(NextShare(p), diff))
          /\ SetBuf(p, diff)
    /\ Drew(p, "prev")

PadXor(p) ==
    /\ At(p, {"pad_xor"}) /\ Advance(p) /\ Stay
    /\ SetNext(p, [k \in Word |-> NextShare(p)[k] (+) FromNext(p, k)])
    /\ Drew(p, "next") /\ UNCHANGED <<prev, buf>>

Take(p) ==
    /\ At(p, {"take_both", "take_prev", "take_next"}) /\ Advance(p) /\ Stay
    /\ SetBuf(p, CASE Now(p).do = "take_both" -> XorWords(PrevShare(p), NextShare(p))
                   [] Now(p).do = "take_prev" -> PrevShare(p)
                   [] Now(p).do = "take_next" -> NextShare(p))
    /\ UNCHANGED <<prev, next, drawn>>

Permute(p) ==
    /\ At(p, {"permute"}) /\ Advance(p) /\ Stay
    /\ SetBuf(p, Permuted(buf[p])) /\ UNCHANGED <<prev, next, drawn>>

(* What party 1 and party 2 hold is set; the other shares are taken to be  *)
(* zero already.                                                           *)
InputPublic(p) ==
    /\ At(p, {"input_public"}) /\ Advance(p) /\ Stay
    /\ LET data == [k \in Word |-> Secret(p, k)]
       IN /\ IF p = 1 THEN SetNext(p, data) ELSE UNCHANGED next
          /\ IF p = 2 THEN SetPrev(p, data) ELSE UNCHANGED prev
    /\ UNCHANGED <<buf, drawn>>

FillRandom(p) ==
    /\ At(p, {"fill_random"}) /\ Advance(p) /\ Stay
    /\ SetPrev(p, [k \in Word |-> FromPrev(p, k)]) /\ SetNext(p, [k \in Word |-> FromNext(p, k)])
    /\ drawn' = [drawn EXCEPT ![p] = [prev |-> @.prev + NumWords, next |-> @.next + NumWords]]
    /\ UNCHANGED buf

(* A mask whose bit is set in the first word alone, on every share.        *)
MaskedWords(do, words) ==
    [k \in Word |-> CASE do = "apply_or_mask" /\ k = 1  -> One
                      [] do = "apply_and_mask" /\ k # 1 -> Zero
                      [] OTHER                          -> words[k]]

Mask(p) ==
    /\ At(p, {"apply_or_mask", "apply_and_mask"}) /\ Advance(p) /\ Stay
    /\ SetPrev(p, MaskedWords(Now(p).do, PrevShare(p)))
    /\ SetNext(p, MaskedWords(Now(p).do, NextShare(p)))
    /\ UNCHANGED <<buf, drawn>>

(* The products of shares x and y that start_mand_gate adds to the pad.    *)
Products(x, y) == (x.prev (.) y.next) (+) (y.prev (.) x.next) (+) (x.prev (.) y.prev)
Shares(p, r, k) == [prev |-> prev[p][r][k], next |-> next[p][r][k]]

(* One window of c = a AND b.                                              *)
CrossTerms(p, k) == Products(Shares(p, "a", k), Shares(p, "b", k))

Multiply(p) ==
    /\ At(p, {"multiply"}) /\ Advance(p) /\ Stay
    /\ LET n == Now(p).hi - Now(p).lo + 1
       IN /\ SetNext(p, [k \in Word |->
                IF k \in Now(p).lo .. Now(p).hi
                THEN ZeroSumWord(p, k - Now(p).lo + 1, n, NextShare(p)[k]) (+) CrossTerms(p, k)
                ELSE NextShare(p)[k]])
          /\ drawn' = [drawn EXCEPT ![p] = [prev |-> @.prev + n, next |-> @.next + n]]
    /\ UNCHANGED <<prev, buf>>

(* if_then_else: d is a if the bit b, extended to a word, is set, else c.  *)
ThenXorElse(p) ==
    [prev |-> prev[p]["a"][1] (+) prev[p]["c"][1], next |-> next[p]["a"][1] (+) next[p]["c"][1]]

Choose(p) ==
    /\ At(p, {"choose"}) /\ Advance(p) /\ Stay
    /\ SetNext(p, [NextShare(p) EXCEPT ![1] =
          ZeroSumWord(p, 1, 1, @) (+) Products(Shares(p, "b", 1), ThenXorElse(p))])
    /\ drawn' = [drawn EXCEPT ![p] = [prev |-> @.prev + 1, next |-> @.next + 1]]
    /\ UNCHANGED <<prev, buf>>

XorElse(p) ==
    /\ At(p, {"xor_else"}) /\ Advance(p) /\ Stay
    /\ SetPrev(p, [PrevShare(p) EXCEPT ![1] = @ (+) prev[p]["c"][1]])
    /\ SetNext(p, [NextShare(p) EXCEPT ![1] = @ (+) next[p]["c"][1]])
    /\ UNCHANGED <<buf, drawn>>

(* Mutant of SentWord: the other share is sent.                            *)
SentNextAlways(p) ==
    LET k == Now(p).lo IN IF Now(p).do = "send_buf" THEN buf[p][k] ELSE NextShare(p)[k]
SentWord(p) ==
    LET k == Now(p).lo
    IN CASE Now(p).do = "send_next" -> NextShare(p)[k]
         [] Now(p).do = "send_prev" -> PrevShare(p)[k]
         [] Now(p).do = "send_buf"  -> buf[p][k]

Send(p) ==
    /\ At(p, {"send_next", "send_prev", "send_buf"}) /\ Advance(p)
    /\ Len(stream[next_party(p)]) < Capacity
    /\ stream' = [stream EXCEPT ![next_party(p)] =
                    Append(@, [word |-> SentWord(p), op |-> pos[p], index |-> Now(p).lo])]
    /\ UNCHANGED <<local, public>>

(* What an opened word is: the share that was sent and the two at hand.     *)
Opened(p, k, w) == w (+) PrevShare(p)[k] (+) NextShare(p)[k]

AtRecv(p) == At(p, {"recv_prev", "recv_prev_xor", "recv_public"})

Recv(p) ==
    /\ AtRecv(p) /\ Advance(p)
    /\ stream[p] # <<>>
    /\ stream' = [stream EXCEPT ![p] = Tail(@)]
    /\ LET k == Now(p).lo
           w == Head(stream[p]).word
       IN \/ /\ Now(p).do = "recv_prev"
             /\ SetPrev(p, [PrevShare(p) EXCEPT ![k] = w]) /\ UNCHANGED public
          \/ /\ Now(p).do = "recv_prev_xor"
             /\ SetPrev(p, [PrevShare(p) EXCEPT ![k] = @ (+) w]) /\ UNCHANGED public
          \/ /\ Now(p).do = "recv_public"
             /\ public' = [public EXCEPT ![p][k] = Opened(p, k, w)]
             /\ UNCHANGED prev
    /\ UNCHANGED <<next, buf, drawn>>

Return(p) ==
    /\ Running(p) /\ step[p] > Len(Steps(prog[pos[p]], p))
    /\ pos' = [pos EXCEPT ![p] = @ + 1] /\ step' = [step EXCEPT ![p] = 1]
    /\ UNCHANGED <<prog, prev, next, buf, public, drawn, stream>>

Run(p) ==
    \/ ReadSecrets(p) \/ Deal(p) \/ Pad(p) \/ ZeroNext(p) \/ DealXor(p) \/ PadXor(p)
    \/ Take(p) \/ Permute(p) \/ InputPublic(p) \/ FillRandom(p) \/ Mask(p)
    \/ Multiply(p) \/ Choose(p) \/ XorElse(p) \/ Send(p) \/ Recv(p) \/ Return(p)

Next == \E p \in Party : Run(p)

(* Each party is a process of its own.                                     *)
Spec == Init /\ [][Next]_vars
FairSpec == Spec /\ \A p \in Party : WF_vars(Run(p))
=============================================================================
