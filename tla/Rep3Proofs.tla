----------------------------- MODULE Rep3Proofs -----------------------------
(***************************************************************************)
(* No party reads the words of another operation, for every program,       *)
(* length of the registers, windows and capacity of the streams.           *)
(***************************************************************************)
EXTENDS Rep3Properties, Counting

-----------------------------------------------------------------------------
(* Sequences of steps *)

(* What a step does, by whether it sends or receives.                      *)
Local == {"secrets", "deal", "pad", "zero_next", "deal_xor", "pad_xor", "take_both",
          "take_prev", "take_next", "permute", "input_public", "fill_random",
          "apply_or_mask", "apply_and_mask", "multiply", "choose", "xor_else"}
What == Local \cup Sending \cup Receiving
StepRecord == {e \in [do : What, lo : Word, hi : Word] : e.lo =< e.hi}

(* The steps of a kind deal with the words after a up to b, one by one.    *)
Counts(steps, whats, a, b) ==
    \E f \in [1 .. Len(steps) + 1 -> a .. b] :
        /\ f[1] = a /\ f[Len(steps) + 1] = b
        /\ \A s \in 1 .. Len(steps) :
              IF steps[s].do \in whats
              THEN steps[s].lo = f[s] + 1 /\ f[s + 1] = f[s] + 1
              ELSE f[s + 1] = f[s]

(* Steps of other kinds deal with no word.                                 *)
LEMMA CountsNone ==
    ASSUME NEW steps \in Seq(StepRecord), NEW whats, NEW a \in Nat,
           \A s \in 1 .. Len(steps) : steps[s].do \notin whats
    PROVE  Counts(steps, whats, a, a)
<1> DEFINE f == [s \in 1 .. Len(steps) + 1 |-> a]
<1>1. Len(steps) \in Nat
  OBVIOUS
<1>2. f \in [1 .. Len(steps) + 1 -> a .. a]
  BY <1>1
<1>3. f[1] = a /\ f[Len(steps) + 1] = a /\ \A s \in 1 .. Len(steps) : f[s + 1] = f[s]
  BY <1>1
<1> HIDE DEF f
<1> QED
  BY <1>2, <1>3 DEF Counts

(* Steps that are all of a kind, word after word.                          *)
LEMMA CountsAll ==
    ASSUME NEW steps \in Seq(StepRecord), NEW whats, NEW a \in Nat,
           \A s \in 1 .. Len(steps) : steps[s].do \in whats /\ steps[s].lo = a + s
    PROVE  Counts(steps, whats, a, a + Len(steps))
<1> DEFINE f == [s \in 1 .. Len(steps) + 1 |-> a + s - 1]
<1>1. Len(steps) \in Nat
  OBVIOUS
<1>2. f \in [1 .. Len(steps) + 1 -> a .. a + Len(steps)]
  BY <1>1
<1>3. f[1] = a /\ f[Len(steps) + 1] = a + Len(steps)
      /\ \A s \in 1 .. Len(steps) : f[s] = a + s - 1 /\ f[s + 1] = a + s
  BY <1>1
<1> HIDE DEF f
<1>4. \A s \in 1 .. Len(steps) : steps[s].lo = f[s] + 1 /\ f[s + 1] = f[s] + 1
  BY <1>1, <1>3
<1> QED
  BY <1>2, <1>3, <1>4 DEF Counts

(* One sequence goes on where the other stopped.                           *)
LEMMA CountsConcat ==
    ASSUME NEW x \in Seq(StepRecord), NEW y \in Seq(StepRecord), NEW whats,
           NEW a \in Nat, NEW b \in Nat, NEW c \in Nat,
           Counts(x, whats, a, b), Counts(y, whats, b, c)
    PROVE  x \o y \in Seq(StepRecord) /\ Counts(x \o y, whats, a, c)
<1>1. PICK f \in [1 .. Len(x) + 1 -> a .. b] :
        /\ f[1] = a /\ f[Len(x) + 1] = b
        /\ \A s \in 1 .. Len(x) :
              IF x[s].do \in whats
              THEN x[s].lo = f[s] + 1 /\ f[s + 1] = f[s] + 1
              ELSE f[s + 1] = f[s]
  BY DEF Counts
<1>2. PICK g \in [1 .. Len(y) + 1 -> b .. c] :
        /\ g[1] = b /\ g[Len(y) + 1] = c
        /\ \A s \in 1 .. Len(y) :
              IF y[s].do \in whats
              THEN y[s].lo = g[s] + 1 /\ g[s + 1] = g[s] + 1
              ELSE g[s + 1] = g[s]
  BY DEF Counts
<1> DEFINE z == x \o y
           h == [s \in 1 .. Len(x) + Len(y) + 1 |-> IF s =< Len(x) THEN f[s] ELSE g[s - Len(x)]]
<1>3. /\ z \in Seq(StepRecord) /\ Len(z) = Len(x) + Len(y) /\ Len(x) \in Nat /\ Len(y) \in Nat
      /\ \A s \in 1 .. Len(x) : z[s] = x[s]
      /\ \A s \in Len(x) + 1 .. Len(x) + Len(y) : z[s] = y[s - Len(x)]
  OBVIOUS
<1> HIDE DEF z
<1>4. a =< b /\ b =< c /\ \A s \in 1 .. Len(x) : f[s] \in a .. b
  <2>1. \A s \in 1 .. Len(x) + 1 : f[s] \in a .. b
    OBVIOUS
  <2>2. \A s \in 1 .. Len(y) + 1 : g[s] \in b .. c
    OBVIOUS
  <2>3. f[Len(x) + 1] \in a .. b /\ g[Len(y) + 1] \in b .. c
    BY <1>3, <2>1, <2>2
  <2> QED
    BY <1>1, <1>2, <1>3, <2>1, <2>3
<1>5. ASSUME NEW s \in 1 .. Len(x) + Len(y) + 1 PROVE h[s] \in a .. c
  <2>1. CASE s =< Len(x)
    <3>1. s \in 1 .. Len(x) /\ h[s] = f[s]
      BY <1>3, <2>1
    <3>2. f[s] \in a .. b
      BY <1>4, <3>1
    <3> HIDE DEF h
    <3> QED
      BY <1>3, <1>4, <3>1, <3>2
  <2>2. CASE ~(s =< Len(x))
    <3>1. s - Len(x) \in 1 .. Len(y) + 1
      BY <1>3, <2>2
    <3>2. g[s - Len(x)] \in b .. c
      BY <1>2, <3>1
    <3> QED
      BY <1>3, <1>4, <2>2, <3>2
  <2> QED
    BY <2>1, <2>2
<1>6. h \in [1 .. Len(z) + 1 -> a .. c]
  BY <1>3, <1>5
<1>7. h[1] = a /\ h[Len(z) + 1] = c
  BY <1>1, <1>2, <1>3
<1>8. ASSUME NEW s \in 1 .. Len(z)
      PROVE  IF z[s].do \in whats
             THEN z[s].lo = h[s] + 1 /\ h[s + 1] = h[s] + 1
             ELSE h[s + 1] = h[s]
  <2>1. CASE s =< Len(x)
    <3>1. z[s] = x[s] /\ h[s] = f[s] /\ s \in 1 .. Len(x)
      BY <1>3, <2>1
    <3>2. h[s + 1] = f[s + 1]
      BY <1>1, <1>2, <1>3, <2>1
    <3> HIDE DEF h
    <3> QED
      BY <1>1, <3>1, <3>2
  <2>2. CASE ~(s =< Len(x))
    <3>1. s \in Len(x) + 1 .. Len(x) + Len(y) /\ s - Len(x) \in 1 .. Len(y)
      BY <1>3, <2>2
    <3>2. z[s] = y[s - Len(x)] /\ h[s] = g[s - Len(x)]
      BY <1>3, <3>1
    <3>3. h[s + 1] = g[s - Len(x) + 1]
      <4>1. s + 1 - Len(x) = s - Len(x) + 1
        BY <1>3, <3>1
      <4> QED
        BY <1>3, <3>1, <4>1
    <3> HIDE DEF h
    <3> QED
      BY <1>2, <3>1, <3>2, <3>3
  <2> QED
    BY <2>1, <2>2
<1> HIDE DEF h
<1> QED
  BY <1>3, <1>6, <1>7, <1>8, Zenon DEF Counts, z

(* Sequences one after the other.                                          *)
Join(x, y) == x \o y

(* Flattening joins the sequences one at a time.                           *)
LEMMA FlattenSteps ==
    ASSUME NEW n \in Nat \ {0}, NEW seqs \in [1 .. n -> Seq(StepRecord)]
    PROVE  \E s :
              /\ \A i \in 0 .. n : s[i] \in Seq(StepRecord)
              /\ s[1] = seqs[1] /\ s[n] = Seqs!FlattenSeq(seqs)
              /\ \A i \in 2 .. n : s[i] = Join(s[i - 1], seqs[i])
<1> DEFINE S == Seq(StepRecord)
           h == [i \in 1 .. n |-> [x \in S |-> IF i = 1 THEN seqs[i] ELSE Join(x, seqs[i])]]
           IsFlat(x) == x = [i \in 1 .. n |-> IF i = 1 THEN seqs[i] ELSE Join(x[i - 1], seqs[i])]
           flatten == CHOOSE x : IsFlat(x)
<1>1. Len(seqs) = n
  <2>1. seqs \in Seq(Seq(StepRecord)) /\ DOMAIN seqs = 1 .. n
    OBVIOUS
  <2> QED
    BY <2>1
<1>2. <<>> \in S /\ \A x, y \in S : Join(x, y) \in S
  BY DEF Join
<1>3. Seqs!FlattenSeq(seqs) = flatten[n]
  BY <1>1, Zenon DEF Seqs!FlattenSeq, Join
<1>4. seqs \in [1 .. n -> S]
  OBVIOUS
<1> HIDE DEF S
<1>5. \A i \in 1 .. n : \A x \in S : h[i][x] \in S
  BY <1>2, <1>4
<1>6. \A i \in 1 .. n : \A x \in S : h[i][x] = IF i = 1 THEN seqs[i] ELSE Join(x, seqs[i])
  OBVIOUS
<1> HIDE DEF h
<1>7. PICK s : /\ \A i \in 0 .. n : s[i] \in S
               /\ s[0] = <<>> /\ \A i \in 1 .. n : s[i] = h[i][s[i - 1]]
  <2>1. n \in Nat /\ Stays(S, h, n)
    BY <1>5 DEF Stays
  <2>2. PICK s : Iterates(S, <<>>, h, n, s)
    BY <1>2, <2>1, IterationUpTo
  <2> QED
    BY <2>2 DEF Iterates
<1>8. \A i \in 1 .. n : s[i] = IF i = 1 THEN seqs[i] ELSE Join(s[i - 1], seqs[i])
  <2> SUFFICES ASSUME NEW i \in 1 .. n
               PROVE  s[i] = IF i = 1 THEN seqs[i] ELSE Join(s[i - 1], seqs[i])
    OBVIOUS
  <2>1. i - 1 \in 0 .. n
    OBVIOUS
  <2>2. s[i - 1] \in S
    BY <1>7, <2>1
  <2> QED
    BY <1>6, <1>7, <2>2
<1>9. \E x : IsFlat(x)
  <2> DEFINE x == [i \in 1 .. n |-> s[i]]
  <2>1. ASSUME NEW i \in 1 .. n PROVE x[i] = IF i = 1 THEN seqs[i] ELSE Join(x[i - 1], seqs[i])
    <3>1. CASE i = 1
      BY <1>8, <3>1
    <3>2. CASE i # 1
      <4>1. i - 1 \in 1 .. n
        BY <3>2
      <4>2. x[i] = s[i] /\ x[i - 1] = s[i - 1]
        BY <4>1
      <4> HIDE DEF x
      <4> QED
        BY <1>8, <3>2, <4>2
    <3> QED
      BY <3>1, <3>2
  <2>2. x = [i \in 1 .. n |-> x[i]]
    OBVIOUS
  <2> HIDE DEF x
  <2>3. IsFlat(x)
    BY <2>1, <2>2
  <2> HIDE DEF IsFlat
  <2> QED
    BY <2>3
<1>10. IsFlat(flatten)
  <2> HIDE DEF IsFlat
  <2> QED
    BY <1>9
<1> HIDE DEF flatten
<1>11. \A i \in 1 .. n : flatten[i] = IF i = 1 THEN seqs[i] ELSE Join(flatten[i - 1], seqs[i])
  BY <1>10
<1> DEFINE T == {i \in 0 .. n : i > 0 => flatten[i] = s[i]}
<1>12. 0 \in T
  OBVIOUS
<1>13. ASSUME NEW i \in 1 .. n, i - 1 \in T PROVE i \in T
  <2>1. i > 1 => flatten[i - 1] = s[i - 1]
    BY <1>13
  <2>2. flatten[i] = s[i]
    BY <1>8, <1>11, <2>1
  <2> QED
    BY <2>2
<1>14. flatten[n] = s[n]
  <2> HIDE DEF T
  <2>1. \A i \in 0 .. n : i \in T
    BY <1>12, <1>13, InductionUpTo
  <2>2. n \in T
    BY <2>1
  <2> QED
    BY <2>2 DEF T
<1>15. s[1] = seqs[1] /\ \A i \in 2 .. n : s[i] = Join(s[i - 1], seqs[i])
  BY <1>8
<1> QED
  BY <1>3, <1>7, <1>14, <1>15 DEF S

(* The windows of an operation go on from one another.                     *)
LEMMA CountsFlatten ==
    ASSUME NEW n \in Nat \ {0}, NEW seqs \in [1 .. n -> Seq(StepRecord)], NEW whats,
           NEW g \in [0 .. n -> Nat],
           \A i \in 1 .. n : Counts(seqs[i], whats, g[i - 1], g[i])
    PROVE  Seqs!FlattenSeq(seqs) \in Seq(StepRecord)
           /\ Counts(Seqs!FlattenSeq(seqs), whats, g[0], g[n])
<1>1. PICK s :
        /\ \A i \in 0 .. n : s[i] \in Seq(StepRecord)
        /\ s[1] = seqs[1] /\ s[n] = Seqs!FlattenSeq(seqs)
        /\ \A i \in 2 .. n : s[i] = Join(s[i - 1], seqs[i])
  BY FlattenSteps
<1> DEFINE S == Seq(StepRecord)
           U == {i \in 0 .. n : i > 0 => Counts(s[i], whats, g[0], g[i])}
<1>2. \A x, y \in S : \A a, b, c \in Nat :
        Counts(x, whats, a, b) /\ Counts(y, whats, b, c) => Counts(Join(x, y), whats, a, c)
  BY CountsConcat, Zenon DEF Join
<1>3. (\A i \in 0 .. n : s[i] \in S) /\ seqs \in [1 .. n -> S]
  BY <1>1
<1> HIDE DEF S
<1>4. 0 \in U
  OBVIOUS
<1>5. ASSUME NEW i \in 1 .. n, i - 1 \in U PROVE i \in U
  <2>1. CASE i = 1
    BY <1>1, <2>1
  <2>2. CASE i # 1
    <3>1. i - 1 \in 1 .. n /\ i \in 2 .. n
      BY <2>2
    <3>2. Counts(s[i - 1], whats, g[0], g[i - 1])
      BY <1>5, <3>1
    <3>3. s[i - 1] \in S /\ seqs[i] \in S /\ g[0] \in Nat /\ g[i - 1] \in Nat /\ g[i] \in Nat
      BY <1>3, <3>1
    <3>4. Counts(Join(s[i - 1], seqs[i]), whats, g[0], g[i])
      BY <1>2, <3>2, <3>3, Zenon
    <3> QED
      BY <1>1, <3>1, <3>4
  <2> QED
    BY <2>1, <2>2
<1>6. n \in U
  <2> HIDE DEF U
  <2>1. \A i \in 0 .. n : i \in U
    BY <1>4, <1>5, InductionUpTo
  <2> QED
    BY <2>1
<1> QED
  BY <1>1, <1>3, <1>6 DEF S

(* The two shapes operations are put together from.                        *)
Kind(steps, what, lo) ==
    \A j \in 1 .. Len(steps) : steps[j].do = what /\ steps[j].lo = lo + j - 1

(* A Do is one step.                                                       *)
LEMMA DoSteps ==
    ASSUME NEW what \in What, NEW lo \in Word, NEW hi \in Word, lo =< hi
    PROVE  /\ Do(what, lo, hi) \in Seq(StepRecord)
           /\ Len(Do(what, lo, hi)) = 1 /\ Kind(Do(what, lo, hi), what, lo)
<1>1. [do |-> what, lo |-> lo, hi |-> hi] \in StepRecord
  BY DEF StepRecord
<1>2. lo \in Nat
  BY Rep3Assumption DEF Word
<1>3. /\ Do(what, lo, hi) \in Seq(StepRecord) /\ Len(Do(what, lo, hi)) = 1
      /\ Do(what, lo, hi)[1] = [do |-> what, lo |-> lo, hi |-> hi]
  BY <1>1 DEF Do
<1>4. Do(what, lo, hi)[1].do = what /\ Do(what, lo, hi)[1].lo = lo + 1 - 1
  BY <1>2, <1>3
<1> QED
  BY <1>3, <1>4 DEF Kind

(* An Each is one step a word.                                             *)
LEMMA EachSteps ==
    ASSUME NEW what \in What, NEW lo \in Word, NEW hi \in Word, lo =< hi
    PROVE  /\ Each(what, lo, hi) \in Seq(StepRecord)
           /\ Len(Each(what, lo, hi)) = hi - lo + 1 /\ Kind(Each(what, lo, hi), what, lo)
<1>1. lo \in Nat /\ hi \in Nat /\ lo >= 1 /\ hi =< NumWords /\ hi - lo + 1 \in Nat
  BY Rep3Assumption DEF Word
<1> DEFINE n == hi - lo + 1
           e == [j \in 1 .. n |-> [do |-> what, lo |-> lo + j - 1, hi |-> hi]]
<1>2. ASSUME NEW j \in 1 .. n PROVE [do |-> what, lo |-> lo + j - 1, hi |-> hi] \in StepRecord
  <2>1. lo + j - 1 \in Word /\ lo + j - 1 =< hi
    BY <1>1, Rep3Assumption DEF Word
  <2> QED
    BY <2>1 DEF StepRecord
<1>3. e \in [1 .. n -> StepRecord]
  BY <1>2
<1>4. \A j \in 1 .. n : e[j].do = what /\ e[j].lo = lo + j - 1
  OBVIOUS
<1>5. Each(what, lo, hi) = e
  BY DEF Each
<1>6. n \in Nat
  BY <1>1
<1> HIDE DEF n, e
<1>7. e \in Seq(StepRecord) /\ Len(e) = n
  BY <1>3, <1>6
<1> QED
  BY <1>4, <1>5, <1>7, Zenon DEF n, Kind

Counted(steps, whats, a, b) == steps \in Seq(StepRecord) /\ Counts(steps, whats, a, b)

(* A party that has nothing to do sends and receives nothing.              *)
LEMMA CountedNothing == ASSUME NEW whats, NEW a \in Nat PROVE Counted(Nothing, whats, a, a)
<1>1. Nothing \in Seq(StepRecord) /\ Len(Nothing) = 0
  BY DEF Nothing
<1>2. \A s \in 1 .. Len(Nothing) : Nothing[s].do \notin whats
  BY <1>1
<1>3. Counts(Nothing, whats, a, a)
  BY <1>1, <1>2, CountsNone
<1> QED
  BY <1>1, <1>3 DEF Counted

(* Steps that neither send nor receive leave the counts alone.             *)
LEMMA CountedOther ==
    ASSUME NEW steps \in Seq(StepRecord), NEW what, NEW lo, Kind(steps, what, lo),
           NEW whats, what \notin whats, NEW a \in Nat
    PROVE  Counted(steps, whats, a, a)
<1>1. \A s \in 1 .. Len(steps) : steps[s].do \notin whats
  BY DEF Kind
<1>2. Counts(steps, whats, a, a)
  BY <1>1, CountsNone
<1> QED
  BY <1>2 DEF Counted

(* The same of one step.                                                   *)
LEMMA CountedDo ==
    ASSUME NEW what \in What, NEW lo \in Word, NEW hi \in Word, lo =< hi,
           NEW whats, what \notin whats, NEW a \in Nat
    PROVE  Counted(Do(what, lo, hi), whats, a, a)
<1>1. Do(what, lo, hi) \in Seq(StepRecord) /\ Kind(Do(what, lo, hi), what, lo)
  BY DoSteps
<1> QED
  BY <1>1, CountedOther

(* The same of one step a word.                                            *)
LEMMA CountedEachOther ==
    ASSUME NEW what \in What, NEW lo \in Word, NEW hi \in Word, lo =< hi,
           NEW whats, what \notin whats, NEW a \in Nat
    PROVE  Counted(Each(what, lo, hi), whats, a, a)
<1>1. Each(what, lo, hi) \in Seq(StepRecord) /\ Kind(Each(what, lo, hi), what, lo)
  BY EachSteps
<1> QED
  BY <1>1, CountedOther

(* One step a word counts each word once, in order.                        *)
LEMMA CountedEach ==
    ASSUME NEW what \in What, NEW lo \in Word, NEW hi \in Word, lo =< hi,
           NEW whats, what \in whats, NEW a \in Nat, a + 1 = lo
    PROVE  Counted(Each(what, lo, hi), whats, a, hi)
<1> DEFINE e == Each(what, lo, hi)
<1>1. lo \in Nat /\ hi \in Nat /\ lo >= 1
  BY Rep3Assumption DEF Word
<1>2. e \in Seq(StepRecord) /\ Len(e) = hi - lo + 1 /\ Kind(e, what, lo)
  BY EachSteps
<1> HIDE DEF e
<1>3. ASSUME NEW s \in 1 .. Len(e) PROVE e[s].do \in whats /\ e[s].lo = a + s
  <2>1. e[s].do = what /\ e[s].lo = lo + s - 1
    BY <1>2 DEF Kind
  <2>2. lo + s - 1 = a + s
    BY <1>1, <1>2
  <2> QED
    BY <2>1, <2>2
<1>4. a + Len(e) = hi
  BY <1>1, <1>2
<1>5. Counts(e, whats, a, a + Len(e))
  BY <1>2, <1>3, CountsAll
<1>6. Counts(e, whats, a, hi)
  BY <1>4, <1>5
<1> QED
  BY <1>2, <1>6, Zenon DEF Counted, e

(* A single word that is sent or received.                                 *)
LEMMA CountedDoOne ==
    ASSUME NEW what \in What, NEW whats, what \in whats
    PROVE  Counted(Do(what, 1, 1), whats, 0, 1)
<1> DEFINE e == Do(what, 1, 1)
<1>1. 1 \in Word /\ 1 =< 1
  BY Rep3Assumption DEF Word
<1>2. e \in Seq(StepRecord) /\ Len(e) = 1 /\ Kind(e, what, 1)
  BY <1>1, DoSteps, Zenon
<1> HIDE DEF e
<1>3. \A s \in 1 .. Len(e) : e[s].do \in whats /\ e[s].lo = 0 + s
  BY <1>2 DEF Kind
<1>4. Counts(e, whats, 0, 0 + Len(e))
  BY <1>2, <1>3, CountsAll
<1>5. Counts(e, whats, 0, 1)
  BY <1>2, <1>4
<1> QED
  BY <1>2, <1>5, Zenon DEF Counted, e

(* What two stretches of an operation count together.                      *)
LEMMA CountedJoin ==
    ASSUME NEW x, NEW y, NEW whats, NEW a \in Nat, NEW b \in Nat, NEW c \in Nat,
           Counted(x, whats, a, b), Counted(y, whats, b, c)
    PROVE  Counted(x \o y, whats, a, c)
BY CountsConcat DEF Counted

(* A window after the other takes all the words.                           *)
LEMMA WindowFacts ==
    ASSUME NEW size \in Nat \ {0}
    PROVE  \E n \in Nat \ {0} : \E g \in [0 .. n -> Nat] :
              /\ DOMAIN Windows(size) = 1 .. n
              /\ g[0] = 0 /\ g[n] = NumWords
              /\ \A i \in 1 .. n : /\ Windows(size)[i] = [lo |-> g[i - 1] + 1, hi |-> g[i]]
                                   /\ g[i - 1] + 1 \in Word /\ g[i] \in Word /\ g[i - 1] + 1 =< g[i]
<1> DEFINE q == (NumWords - 1) \div size
           g == [i \in 0 .. q + 1 |-> IF i = q + 1 THEN NumWords ELSE i * size]
<1>1. NumWords \in Nat /\ NumWords >= 1 /\ size \in Nat /\ size >= 1
  BY Rep3Assumption
<1>2. q \in Nat /\ q * size =< NumWords - 1 /\ NumWords - 1 < q * size + size
  BY <1>1
<1> HIDE DEF q
<1>3. \A i \in 0 .. q : i * size \in Nat /\ i * size =< q * size /\ (i + 1) * size = i * size + size
  <2> SUFFICES ASSUME NEW i \in 0 .. q
               PROVE  i * size \in Nat /\ i * size =< q * size /\ (i + 1) * size = i * size + size
    OBVIOUS
  <2>1. i * size \in Nat /\ (q - i) * size \in Nat /\ q * size = i * size + (q - i) * size
    BY <1>1, <1>2
  <2>2. (i + 1) * size = i * size + size
    BY <1>1, <1>2
  <2> QED
    BY <1>1, <1>2, <2>1, <2>2
<1>4. q + 1 \in Nat \ {0} /\ g \in [0 .. q + 1 -> Nat]
  BY <1>1, <1>2, <1>3
<1>5. DOMAIN Windows(size) = 1 .. q + 1
  BY DEF Windows, q
<1>6. g[0] = 0 /\ g[q + 1] = NumWords
  BY <1>1, <1>2
<1>7. ASSUME NEW i \in 1 .. q + 1
      PROVE  /\ Windows(size)[i] = [lo |-> g[i - 1] + 1, hi |-> g[i]]
             /\ g[i - 1] + 1 \in Word /\ g[i] \in Word /\ g[i - 1] + 1 =< g[i]
  <2>1. i - 1 \in 0 .. q /\ g[i - 1] = (i - 1) * size
    BY <1>2
  <2>2. (i - 1) * size \in Nat /\ (i - 1) * size =< q * size /\ i * size = (i - 1) * size + size
    <3>1. (i - 1) + 1 = i
      BY <1>2
    <3> QED
      BY <1>3, <2>1, <3>1
  <2>3. g[i] = Smaller(i * size, NumWords) /\ (i - 1) * size + 1 =< g[i] /\ g[i] =< NumWords /\ g[i] \in Nat
    <3>1. CASE i = q + 1
      <4>1. g[i] = NumWords /\ i - 1 = q
        BY <1>2, <3>1
      <4> QED
        BY <1>1, <1>2, <2>2, <4>1 DEF Smaller
    <3>2. CASE i # q + 1
      <4>1. i \in 0 .. q /\ g[i] = i * size
        BY <1>2, <3>2
      <4>2. i * size =< q * size /\ i * size \in Nat
        BY <1>3, <4>1
      <4> QED
        BY <1>1, <1>2, <2>2, <4>1, <4>2 DEF Smaller
    <3> QED
      BY <3>1, <3>2
  <2>4. Windows(size)[i] = [lo |-> (i - 1) * size + 1, hi |-> Smaller(i * size, NumWords)]
    BY DEF Windows, Bounds, q
  <2> HIDE DEF g
  <2> QED
    BY <1>1, <2>1, <2>2, <2>3, <2>4 DEF Word
<1> HIDE DEF g
<1> QED
  BY <1>4, <1>5, <1>6, <1>7

-----------------------------------------------------------------------------
(* Operations                                                              *)

(* The first and the last word.                                            *)
LEMMA WordEnds == NumWords \in Nat /\ 1 \in Word /\ NumWords \in Word /\ 1 =< NumWords /\ 1 =< 1
BY Rep3Assumption DEF Word

(* The three parties are a ring.                                           *)
LEMMA Ring ==
    ASSUME NEW p \in Party
    PROVE  /\ next_party(p) \in Party /\ prev_party(p) \in Party
           /\ next_party(p) # p /\ prev_party(p) # p /\ next_party(p) # prev_party(p)
           /\ prev_party(next_party(p)) = p /\ next_party(prev_party(p)) = p
           /\ next_party(next_party(p)) = prev_party(p)
           /\ prev_party(prev_party(p)) = next_party(p)
           /\ \A q \in Party : q = p \/ q = next_party(p) \/ q = prev_party(p)
<1>1. p = 1 \/ p = 2 \/ p = 3
  BY DEF Party
<1>2. CASE p = 1
  BY <1>2 DEF Party, next_party, prev_party
<1>3. CASE p = 2
  BY <1>3 DEF Party, next_party, prev_party
<1>4. CASE p = 3
  BY <1>4 DEF Party, next_party, prev_party
<1> QED
  BY <1>1, <1>2, <1>3, <1>4

(* A step sends, receives or does neither.                                 *)
LEMMA Kinds ==
    /\ \A what \in Local : what \in What /\ what \notin Sending /\ what \notin Receiving
    /\ \A what \in Sending : what \in What /\ what \notin Receiving
    /\ \A what \in Receiving : what \in What /\ what \notin Sending
    /\ "send_next" \in Sending /\ "send_prev" \in Sending /\ "send_buf" \in Sending
    /\ "recv_prev" \in Receiving /\ "recv_prev_xor" \in Receiving /\ "recv_public" \in Receiving
    /\ \A what \in {"secrets", "deal", "pad", "zero_next", "deal_xor", "pad_xor", "take_both",
                     "take_prev", "take_next", "permute", "input_public", "fill_random",
                     "apply_or_mask", "apply_and_mask", "multiply", "choose", "xor_else"} :
          what \in Local
BY DEF Sending, Receiving, Local, What

(* A loop that sends one frame a word.                                     *)
LEMMA SendingCounted ==
    ASSUME NEW what \in Sending
    PROVE  /\ Counted(Each(what, 1, NumWords), Sending, 0, NumWords)
           /\ \A a \in Nat : Counted(Each(what, 1, NumWords), Receiving, a, a)
<1>0. 0 \in Nat /\ 0 + 1 = 1
  OBVIOUS
<1>1. what \in What /\ what \notin Receiving
  BY Kinds
<1>2. Counted(Each(what, 1, NumWords), Sending, 0, NumWords)
  BY <1>0, <1>1, WordEnds, CountedEach, Zenon
<1> QED
  BY <1>1, <1>2, WordEnds, CountedEachOther

(* A loop that receives one frame a word.                                  *)
LEMMA ReceivingCounted ==
    ASSUME NEW what \in Receiving
    PROVE  /\ Counted(Each(what, 1, NumWords), Receiving, 0, NumWords)
           /\ \A a \in Nat : Counted(Each(what, 1, NumWords), Sending, a, a)
<1>0. 0 \in Nat /\ 0 + 1 = 1
  OBVIOUS
<1>1. what \in What /\ what \notin Sending
  BY Kinds
<1>2. Counted(Each(what, 1, NumWords), Receiving, 0, NumWords)
  BY <1>0, <1>1, WordEnds, CountedEach, Zenon
<1> QED
  BY <1>1, <1>2, WordEnds, CountedEachOther

(* A local loop counts nothing.                                            *)
LEMMA LocalCounted ==
    ASSUME NEW what \in Local, NEW lo \in Word, NEW hi \in Word, lo =< hi, NEW a \in Nat
    PROVE  Counted(Do(what, lo, hi), Sending, a, a) /\ Counted(Do(what, lo, hi), Receiving, a, a)
<1>1. what \in What /\ what \notin Sending /\ what \notin Receiving
  BY Kinds
<1> QED
  BY <1>1, CountedDo

(* What input_rep_array and its XOR form have each party do.               *)
LEMMA InputStepsAre ==
    ASSUME NEW i \in Party, NEW p \in Party
    PROVE  /\ p = i => InputSteps(i, p) = Do("deal", 1, NumWords) \o Each("send_next", 1, NumWords)
           /\ p = prev_party(i) => InputSteps(i, p) = Do("pad", 1, NumWords)
           /\ p = next_party(i) =>
                InputSteps(i, p) = Each("recv_prev", 1, NumWords) \o Do("zero_next", 1, NumWords)
           /\ p = i => InputXorSteps(i, p) = Do("deal_xor", 1, NumWords) \o Each("send_buf", 1, NumWords)
           /\ p = prev_party(i) => InputXorSteps(i, p) = Do("pad_xor", 1, NumWords)
           /\ p = next_party(i) => InputXorSteps(i, p) = Each("recv_prev_xor", 1, NumWords)
BY Ring DEF InputSteps, InputXorSteps

(* What an operation takes of one kind, when there are that many.           *)
If(cond, n) == IF cond THEN n ELSE 0

LEMMA InputCounted ==
    ASSUME NEW i \in Party, NEW p \in Party
    PROVE  /\ Counted(InputSteps(i, p), Sending, 0, If(p = i, NumWords))
           /\ Counted(InputSteps(i, p), Receiving, 0, If(p = next_party(i), NumWords))
<1>1. CASE p = i
  <2>1. If(p = i, NumWords) = NumWords /\ If(p = next_party(i), NumWords) = 0
    BY <1>1, Ring DEF If
  <2>2. Counted(Do("deal", 1, NumWords), Sending, 0, 0)
        /\ Counted(Do("deal", 1, NumWords), Receiving, 0, 0)
    BY Kinds, WordEnds, LocalCounted
  <2>3. Counted(Each("send_next", 1, NumWords), Sending, 0, NumWords)
        /\ Counted(Each("send_next", 1, NumWords), Receiving, 0, 0)
    BY Kinds, SendingCounted
  <2>4. InputSteps(i, p) = Do("deal", 1, NumWords) \o Each("send_next", 1, NumWords)
    BY <1>1, InputStepsAre
  <2> QED
    BY <2>1, <2>2, <2>3, <2>4, WordEnds, CountedJoin
<1>2. CASE p = prev_party(i)
  <2>1. If(p = i, NumWords) = 0 /\ If(p = next_party(i), NumWords) = 0
    BY <1>2, Ring DEF If
  <2>2. Counted(Do("pad", 1, NumWords), Sending, 0, 0) /\ Counted(Do("pad", 1, NumWords), Receiving, 0, 0)
    BY Kinds, WordEnds, LocalCounted
  <2> QED
    BY <1>2, <2>1, <2>2, InputStepsAre
<1>3. CASE p = next_party(i)
  <2>1. If(p = i, NumWords) = 0 /\ If(p = next_party(i), NumWords) = NumWords
    BY <1>3, Ring DEF If
  <2>2. Counted(Each("recv_prev", 1, NumWords), Receiving, 0, NumWords)
        /\ Counted(Each("recv_prev", 1, NumWords), Sending, 0, 0)
    BY Kinds, ReceivingCounted
  <2>3. Counted(Do("zero_next", 1, NumWords), Sending, 0, 0)
        /\ Counted(Do("zero_next", 1, NumWords), Receiving, NumWords, NumWords)
    BY Kinds, WordEnds, LocalCounted
  <2>4. InputSteps(i, p) = Each("recv_prev", 1, NumWords) \o Do("zero_next", 1, NumWords)
    BY <1>3, InputStepsAre
  <2> QED
    BY <2>1, <2>2, <2>3, <2>4, WordEnds, CountedJoin
<1> QED
  BY <1>1, <1>2, <1>3, Ring

(* What a party sends, or receives, when it is its turn.                   *)
LEMMA InputXorCounted ==
    ASSUME NEW i \in Party, NEW p \in Party
    PROVE  /\ p = i => Counted(InputXorSteps(i, p), Sending, 0, NumWords)
           /\ p # i => \A a \in Nat : Counted(InputXorSteps(i, p), Sending, a, a)
           /\ p = next_party(i) => Counted(InputXorSteps(i, p), Receiving, 0, NumWords)
           /\ p # next_party(i) => \A a \in Nat : Counted(InputXorSteps(i, p), Receiving, a, a)
<1>1. CASE p = i
  <2>1. \A a \in Nat : /\ Counted(Do("deal_xor", 1, NumWords), Sending, a, a)
                       /\ Counted(Do("deal_xor", 1, NumWords), Receiving, a, a)
    BY Kinds, WordEnds, LocalCounted
  <2>2. Counted(Each("send_buf", 1, NumWords), Sending, 0, NumWords)
        /\ \A a \in Nat : Counted(Each("send_buf", 1, NumWords), Receiving, a, a)
    BY Kinds, SendingCounted
  <2>3. InputXorSteps(i, p) = Do("deal_xor", 1, NumWords) \o Each("send_buf", 1, NumWords)
    BY <1>1, InputStepsAre
  <2>4. Counted(InputXorSteps(i, p), Sending, 0, NumWords)
    BY <2>1, <2>2, <2>3, WordEnds, CountedJoin
  <2>5. \A a \in Nat : Counted(InputXorSteps(i, p), Receiving, a, a)
    BY <2>1, <2>2, <2>3, CountedJoin
  <2> QED
    BY <1>1, <2>4, <2>5, Ring
<1>2. CASE p = prev_party(i)
  <2>1. \A a \in Nat : /\ Counted(Do("pad_xor", 1, NumWords), Sending, a, a)
                       /\ Counted(Do("pad_xor", 1, NumWords), Receiving, a, a)
    BY Kinds, WordEnds, LocalCounted
  <2> QED
    BY <1>2, <2>1, InputStepsAre, Ring
<1>3. CASE p = next_party(i)
  <2>1. Counted(Each("recv_prev_xor", 1, NumWords), Receiving, 0, NumWords)
        /\ \A a \in Nat : Counted(Each("recv_prev_xor", 1, NumWords), Sending, a, a)
    BY Kinds, ReceivingCounted
  <2> QED
    BY <1>3, <2>1, InputStepsAre, Ring
<1> QED
  BY <1>1, <1>2, <1>3, Ring

(* Frames of a resharing by two parties.                                   *)
LEMMA From2SharesCounted ==
    ASSUME NEW i \in Party, NEW p \in Party
    PROVE  /\ Counted(From2SharesSteps(i, next_party(i), p), Sending, 0,
                      If(p \in {i, next_party(i)}, NumWords))
           /\ Counted(From2SharesSteps(i, next_party(i), p), Receiving, 0,
                      If(prev_party(p) \in {i, next_party(i)}, NumWords))
<1> DEFINE j == next_party(i)
           x == InputSteps(j, p)
           y == InputXorSteps(i, p)
<1>1. j \in Party /\ j # prev_party(i) /\ j # i /\ next_party(j) = prev_party(i) /\ prev_party(i) # i
  BY Ring
<1>2. From2SharesSteps(i, j, p) = x \o y
  BY <1>1 DEF From2SharesSteps
<1>3. /\ Counted(x, Sending, 0, If(p = j, NumWords))
      /\ Counted(x, Receiving, 0, If(p = prev_party(i), NumWords))
  BY <1>1, InputCounted
<1>4. /\ p = i => Counted(y, Sending, 0, NumWords)
      /\ p # i => \A a \in Nat : Counted(y, Sending, a, a)
      /\ p = j => Counted(y, Receiving, 0, NumWords)
      /\ p # j => \A a \in Nat : Counted(y, Receiving, a, a)
  BY InputXorCounted
<1>5. /\ prev_party(p) = i <=> p = j
      /\ prev_party(p) = j <=> p = prev_party(i)
  BY <1>1, Ring
<1> HIDE DEF j, x, y
<1>6. Counted(x \o y, Sending, 0, If(p \in {i, j}, NumWords))
  <2>1. CASE p = i
    <3>1. Counted(x, Sending, 0, 0)
      BY <1>1, <1>3, <2>1 DEF If
    <3> QED
      BY <1>4, <2>1, <3>1, WordEnds, CountedJoin DEF If
  <2>2. CASE p # i
    <3>1. If(p \in {i, j}, NumWords) = If(p = j, NumWords)
      BY <2>2 DEF If
    <3>2. If(p = j, NumWords) \in Nat
      BY WordEnds DEF If
    <3>3. Counted(y, Sending, If(p = j, NumWords), If(p = j, NumWords))
      BY <1>4, <2>2, <3>2
    <3> QED
      BY <1>3, <3>1, <3>2, <3>3, CountedJoin
  <2> QED
    BY <2>1, <2>2
<1>7. Counted(x \o y, Receiving, 0, If(prev_party(p) \in {i, j}, NumWords))
  <2>1. CASE p = j
    <3>1. Counted(x, Receiving, 0, 0)
      BY <1>1, <1>3, <2>1 DEF If
    <3> QED
      BY <1>4, <1>5, <2>1, <3>1, WordEnds, CountedJoin DEF If
  <2>2. CASE p # j
    <3>1. If(prev_party(p) \in {i, j}, NumWords) = If(p = prev_party(i), NumWords)
      BY <1>5, <2>2 DEF If
    <3>2. If(p = prev_party(i), NumWords) \in Nat
      BY WordEnds DEF If
    <3>3. Counted(y, Receiving, If(p = prev_party(i), NumWords), If(p = prev_party(i), NumWords))
      BY <1>4, <2>2, <3>2
    <3> QED
      BY <1>3, <3>1, <3>2, <3>3, CountedJoin
  <2> QED
    BY <2>1, <2>2
<1> QED
  BY <1>2, <1>6, <1>7 DEF j

(* Frames of a shuffle of which two parties know the permutation.          *)
LEMMA ShuffleCounted ==
    ASSUME NEW i \in Party, NEW p \in Party
    PROVE  /\ Counted(ShuffleSteps(i, p), Sending, 0, If(p \in {i, next_party(i)}, NumWords))
           /\ Counted(ShuffleSteps(i, p), Receiving, 0, If(prev_party(p) \in {i, next_party(i)}, NumWords))
<1> DEFINE x == Reshare3to2Steps(i, next_party(i), p)
           y == IF p \in {i, next_party(i)} THEN Do("permute", 1, NumWords) ELSE Nothing
           z == From2SharesSteps(i, next_party(i), p)
<1>1. Counted(x, Sending, 0, 0) /\ Counted(x, Receiving, 0, 0)
  <2>1. \A what \in {"take_both", "take_prev", "take_next"} :
           Counted(Do(what, 1, NumWords), Sending, 0, 0) /\ Counted(Do(what, 1, NumWords), Receiving, 0, 0)
    BY Kinds, WordEnds, LocalCounted
  <2>2. Counted(Nothing, Sending, 0, 0) /\ Counted(Nothing, Receiving, 0, 0)
    BY CountedNothing
  <2>3. x \in {Do(what, 1, NumWords) : what \in {"take_both", "take_prev", "take_next"}} \cup {Nothing}
    <3>1. next_party(i) # i
      BY Ring
    <3> QED
      BY <3>1 DEF Reshare3to2Steps
  <2> HIDE DEF x
  <2> QED
    BY <2>1, <2>2, <2>3
<1>2. Counted(y, Sending, 0, 0) /\ Counted(y, Receiving, 0, 0)
  <2>1. Counted(Do("permute", 1, NumWords), Sending, 0, 0)
        /\ Counted(Do("permute", 1, NumWords), Receiving, 0, 0)
    BY Kinds, WordEnds, LocalCounted
  <2> QED
    BY <2>1, CountedNothing
<1>3. /\ Counted(z, Sending, 0, If(p \in {i, next_party(i)}, NumWords))
      /\ Counted(z, Receiving, 0, If(prev_party(p) \in {i, next_party(i)}, NumWords))
  BY From2SharesCounted
<1>4. ShuffleSteps(i, p) = (x \o y) \o z
  BY DEF ShuffleSteps
<1>5. If(p \in {i, next_party(i)}, NumWords) \in Nat
      /\ If(prev_party(p) \in {i, next_party(i)}, NumWords) \in Nat
  BY WordEnds DEF If
<1> HIDE DEF x, y, z
<1>6. Counted(x \o y, Sending, 0, 0) /\ Counted(x \o y, Receiving, 0, 0)
  BY <1>1, <1>2, CountedJoin
<1> QED
  BY <1>3, <1>4, <1>5, <1>6, CountedJoin

(* Frames of an opening towards one party.                                 *)
LEMMA RevealToCounted ==
    ASSUME NEW i \in Party, NEW p \in Party
    PROVE  /\ Counted(RevealToSteps(i, p), Sending, 0, If(p = prev_party(i), NumWords))
           /\ Counted(RevealToSteps(i, p), Receiving, 0, If(prev_party(p) = prev_party(i), NumWords))
<1>1. prev_party(p) = prev_party(i) <=> p = i
  BY Ring
<1>2. prev_party(i) # i
  BY Ring
<1>3. Counted(Each("recv_public", 1, NumWords), Receiving, 0, NumWords)
      /\ Counted(Each("recv_public", 1, NumWords), Sending, 0, 0)
  BY Kinds, ReceivingCounted
<1>4. Counted(Each("send_prev", 1, NumWords), Sending, 0, NumWords)
      /\ Counted(Each("send_prev", 1, NumWords), Receiving, 0, 0)
  BY Kinds, SendingCounted
<1>5. Counted(Nothing, Sending, 0, 0) /\ Counted(Nothing, Receiving, 0, 0)
  BY CountedNothing
<1> QED
  BY <1>1, <1>2, <1>3, <1>4, <1>5 DEF RevealToSteps, If

(* In windows: the words of a window are sent before they are received.    *)
LEMMA WindowCounted ==
    ASSUME NEW s \in Sending, NEW r \in Receiving,
           NEW lo \in Word, NEW hi \in Word, lo =< hi, NEW a \in Nat, a + 1 = lo
    PROVE  /\ Counted(Each(s, lo, hi) \o Each(r, lo, hi), Sending, a, hi)
           /\ Counted(Each(s, lo, hi) \o Each(r, lo, hi), Receiving, a, hi)
<1>1. s \in What /\ s \notin Receiving /\ r \in What /\ r \notin Sending
  BY Kinds
<1>2. hi \in Nat
  BY DEF Word
<1>3. Counted(Each(s, lo, hi), Sending, a, hi) /\ Counted(Each(r, lo, hi), Receiving, a, hi)
  BY <1>1, CountedEach
<1>4. Counted(Each(s, lo, hi), Receiving, a, a) /\ Counted(Each(r, lo, hi), Sending, hi, hi)
  BY <1>1, <1>2, CountedEachOther
<1> QED
  BY <1>2, <1>3, <1>4, CountedJoin

(* Frames of an opening towards all: every party sends each word to its    *)
(* next.                                                                   *)
LEMMA SendAndRecvCounted ==
    Counted(SendAndRecvSteps, Sending, 0, NumWords) /\ Counted(SendAndRecvSteps, Receiving, 0, NumWords)
<1>1. IoWindow \in Nat \ {0}
  BY Rep3Assumption
<1>2. PICK n \in Nat \ {0} : \E g \in [0 .. n -> Nat] :
        /\ DOMAIN Windows(IoWindow) = 1 .. n
        /\ g[0] = 0 /\ g[n] = NumWords
        /\ \A i \in 1 .. n : /\ Windows(IoWindow)[i] = [lo |-> g[i - 1] + 1, hi |-> g[i]]
                             /\ g[i - 1] + 1 \in Word /\ g[i] \in Word /\ g[i - 1] + 1 =< g[i]
  BY <1>1, WindowFacts
<1>3. PICK g \in [0 .. n -> Nat] :
        /\ DOMAIN Windows(IoWindow) = 1 .. n
        /\ g[0] = 0 /\ g[n] = NumWords
        /\ \A i \in 1 .. n : /\ Windows(IoWindow)[i] = [lo |-> g[i - 1] + 1, hi |-> g[i]]
                             /\ g[i - 1] + 1 \in Word /\ g[i] \in Word /\ g[i - 1] + 1 =< g[i]
  BY <1>2
<1> DEFINE seqs == [w \in 1 .. n |-> Each("send_prev", g[w - 1] + 1, g[w])
                                       \o Each("recv_public", g[w - 1] + 1, g[w])]
<1>4. SendAndRecvSteps = Seqs!FlattenSeq(seqs)
  <2>1. seqs = [w \in DOMAIN Windows(IoWindow) |->
                  LET win == Windows(IoWindow)[w]
                  IN Each("send_prev", win.lo, win.hi) \o Each("recv_public", win.lo, win.hi)]
    <3>1. DOMAIN Windows(IoWindow) = 1 .. n
          /\ \A w \in 1 .. n : Windows(IoWindow)[w].lo = g[w - 1] + 1 /\ Windows(IoWindow)[w].hi = g[w]
      BY <1>3
    <3> QED
      BY <3>1, Zenon
  <2> HIDE DEF seqs
  <2> QED
    BY <2>1, Zenon DEF SendAndRecvSteps
<1>5. ASSUME NEW i \in 1 .. n
      PROVE  Counted(seqs[i], Sending, g[i - 1], g[i]) /\ Counted(seqs[i], Receiving, g[i - 1], g[i])
  <2>1. g[i - 1] \in Nat
    BY <1>3
  <2>2. Counted(Each("send_prev", g[i - 1] + 1, g[i]) \o Each("recv_public", g[i - 1] + 1, g[i]), Sending, g[i - 1], g[i])
        /\ Counted(Each("send_prev", g[i - 1] + 1, g[i]) \o Each("recv_public", g[i - 1] + 1, g[i]), Receiving, g[i - 1], g[i])
    <3>1. "send_prev" \in Sending /\ "recv_public" \in Receiving
      BY Kinds
    <3> QED
      BY <1>3, <2>1, <3>1, WindowCounted
  <2> QED
    BY <2>2
<1>6. seqs \in [1 .. n -> Seq(StepRecord)]
  <2>1. seqs = [w \in 1 .. n |-> seqs[w]]
    OBVIOUS
  <2> HIDE DEF seqs
  <2> QED
    BY <1>5, <2>1 DEF Counted
<1> HIDE DEF seqs
<1> QED
  BY <1>3, <1>4, <1>5, <1>6, CountsFlatten DEF Counted

(* Frames of a product: every window is sent before it is received.        *)
LEMMA MandCounted ==
    Counted(MandSteps, Sending, 0, NumWords) /\ Counted(MandSteps, Receiving, 0, NumWords)
<1>1. MandWindow \in Nat \ {0}
  BY Rep3Assumption
<1>2. PICK n \in Nat \ {0} : \E g \in [0 .. n -> Nat] :
        /\ DOMAIN Windows(MandWindow) = 1 .. n
        /\ g[0] = 0 /\ g[n] = NumWords
        /\ \A i \in 1 .. n : /\ Windows(MandWindow)[i] = [lo |-> g[i - 1] + 1, hi |-> g[i]]
                             /\ g[i - 1] + 1 \in Word /\ g[i] \in Word /\ g[i - 1] + 1 =< g[i]
  BY <1>1, WindowFacts
<1>3. PICK g \in [0 .. n -> Nat] :
        /\ DOMAIN Windows(MandWindow) = 1 .. n
        /\ g[0] = 0 /\ g[n] = NumWords
        /\ \A i \in 1 .. n : /\ Windows(MandWindow)[i] = [lo |-> g[i - 1] + 1, hi |-> g[i]]
                             /\ g[i - 1] + 1 \in Word /\ g[i] \in Word /\ g[i - 1] + 1 =< g[i]
  BY <1>2
<1> DEFINE d(i) == Do("multiply", g[i - 1] + 1, g[i])
           s(i) == Each("send_next", g[i - 1] + 1, g[i])
           r(i) == Each("recv_prev", g[i - 1] + 1, g[i])
           seqs == [w \in 1 .. n |-> (d(w) \o s(w)) \o r(w)]
<1>4. MandSteps = Seqs!FlattenSeq(seqs)
  <2>1. seqs = [w \in DOMAIN Windows(MandWindow) |->
                  LET win == Windows(MandWindow)[w]
                  IN Do("multiply", win.lo, win.hi) \o Each("send_next", win.lo, win.hi)
                       \o Each("recv_prev", win.lo, win.hi)]
    <3>1. DOMAIN Windows(MandWindow) = 1 .. n
          /\ \A w \in 1 .. n : Windows(MandWindow)[w].lo = g[w - 1] + 1 /\ Windows(MandWindow)[w].hi = g[w]
      BY <1>3
    <3> QED
      BY <3>1, Zenon
  <2> HIDE DEF seqs
  <2> QED
    BY <2>1, Zenon DEF MandSteps
<1>5. ASSUME NEW i \in 1 .. n
      PROVE  Counted(seqs[i], Sending, g[i - 1], g[i]) /\ Counted(seqs[i], Receiving, g[i - 1], g[i])
  <2>1. g[i - 1] \in Nat /\ g[i] \in Nat
    BY <1>3
  <2>2. "multiply" \in Local /\ "send_next" \in Sending /\ "recv_prev" \in Receiving
    BY Kinds
  <2>3. Counted(d(i), Sending, g[i - 1], g[i - 1]) /\ Counted(d(i), Receiving, g[i - 1], g[i - 1])
    BY <1>3, <2>1, <2>2, LocalCounted
  <2>4. Counted(s(i), Sending, g[i - 1], g[i]) /\ Counted(r(i), Receiving, g[i - 1], g[i])
    BY <1>3, <2>1, <2>2, Kinds, CountedEach
  <2>5. Counted(s(i), Receiving, g[i - 1], g[i - 1]) /\ Counted(r(i), Sending, g[i], g[i])
    BY <1>3, <2>1, <2>2, Kinds, CountedEachOther
  <2>6. seqs[i] = (d(i) \o s(i)) \o r(i)
    OBVIOUS
  <2> HIDE DEF d, s, r, seqs
  <2>7. Counted(d(i) \o s(i), Sending, g[i - 1], g[i]) /\ Counted(d(i) \o s(i), Receiving, g[i - 1], g[i - 1])
    BY <2>1, <2>3, <2>4, <2>5, CountedJoin
  <2> QED
    BY <2>1, <2>4, <2>5, <2>6, <2>7, CountedJoin
<1>6. seqs \in [1 .. n -> Seq(StepRecord)]
  <2>1. seqs = [w \in 1 .. n |-> seqs[w]]
    OBVIOUS
  <2> HIDE DEF seqs
  <2> QED
    BY <1>5, <2>1 DEF Counted
<1> HIDE DEF seqs
<1> QED
  BY <1>3, <1>4, <1>5, <1>6, CountsFlatten DEF Counted

(* Frames of a choice: if_then_else is about one word.                     *)
LEMMA IfThenElseCounted ==
    Counted(IfThenElseSteps, Sending, 0, 1) /\ Counted(IfThenElseSteps, Receiving, 0, 1)
<1> DEFINE w == Do("choose", 1, 1)
           x == Do("send_next", 1, 1)
           y == Do("recv_prev", 1, 1)
           z == Do("xor_else", 1, 1)
<1>1. "choose" \in Local /\ "xor_else" \in Local /\ "send_next" \in Sending /\ "recv_prev" \in Receiving
  BY Kinds
<1>2. \A a \in Nat : /\ Counted(w, Sending, a, a) /\ Counted(w, Receiving, a, a)
                     /\ Counted(z, Sending, a, a) /\ Counted(z, Receiving, a, a)
  BY <1>1, WordEnds, LocalCounted
<1>3. Counted(x, Sending, 0, 1) /\ Counted(y, Receiving, 0, 1)
  BY <1>1, Kinds, CountedDoOne
<1>4. \A a \in Nat : Counted(x, Receiving, a, a) /\ Counted(y, Sending, a, a)
  BY <1>1, WordEnds, Kinds, CountedDo
<1>5. IfThenElseSteps = ((w \o x) \o y) \o z
  BY DEF IfThenElseSteps
<1> HIDE DEF w, x, y, z
<1>6. Counted(w \o x, Sending, 0, 1) /\ Counted(w \o x, Receiving, 0, 0)
  BY <1>2, <1>3, <1>4, CountedJoin
<1>7. Counted((w \o x) \o y, Sending, 0, 1) /\ Counted((w \o x) \o y, Receiving, 0, 1)
  BY <1>3, <1>4, <1>6, CountedJoin
<1> QED
  BY <1>2, <1>5, <1>7, CountedJoin

(* In every operation a party sends the words one after the other, and the *)
(* next party receives as many, in the same order.                         *)
LEMMA StepsCounted ==
    ASSUME NEW op \in Operation, NEW p \in Party
    PROVE  /\ Counted(Steps(op, p), Sending, 0, Frames(op, p))
           /\ Counted(Steps(op, p), Receiving, 0, Frames(op, prev_party(p)))
<1>1. CASE op.kind = "input"
  <2> DEFINE i == op.party
             x == IF p = i THEN Do("secrets", 1, NumWords) ELSE Nothing
  <2>1. i \in Party /\ Steps(op, p) = x \o InputSteps(i, p)
    BY <1>1 DEF Operation, Steps
  <2>2. Counted(x, Sending, 0, 0) /\ Counted(x, Receiving, 0, 0)
    <3>1. Counted(Do("secrets", 1, NumWords), Sending, 0, 0)
          /\ Counted(Do("secrets", 1, NumWords), Receiving, 0, 0)
      BY Kinds, WordEnds, LocalCounted
    <3> QED
      BY <3>1, CountedNothing
  <2>3. /\ Frames(op, p) = If(p = i, NumWords)
        /\ Frames(op, prev_party(p)) = If(p = next_party(i), NumWords)
    <3>1. prev_party(p) = i <=> p = next_party(i)
      BY <2>1, Ring
    <3> QED
      BY <1>1, <3>1 DEF Frames, If
  <2>4. If(p = i, NumWords) \in Nat /\ If(p = next_party(i), NumWords) \in Nat
    BY WordEnds DEF If
  <2> HIDE DEF x, i
  <2> QED
    BY <2>1, <2>2, <2>3, <2>4, InputCounted, CountedJoin
<1>2. CASE op.kind = "shuffle"
  <2>1. op.party \in Party /\ Steps(op, p) = ShuffleSteps(op.party, p)
    BY <1>2 DEF Operation, Steps
  <2>2. \A q : Frames(op, q) = If(q \in {op.party, next_party(op.party)}, NumWords)
    BY <1>2 DEF Frames, If
  <2> QED
    BY <2>1, <2>2, ShuffleCounted
<1>3. CASE op.kind = "reveal_to"
  <2>1. op.party \in Party /\ Steps(op, p) = RevealToSteps(op.party, p)
    BY <1>3 DEF Operation, Steps
  <2>2. \A q : Frames(op, q) = If(q = prev_party(op.party), NumWords)
    BY <1>3 DEF Frames, If
  <2> QED
    BY <2>1, <2>2, RevealToCounted
<1>4. CASE op.kind = "reveal_to_all"
  BY <1>4, SendAndRecvCounted DEF Steps, Frames
<1>5. CASE op.kind = "mand_gate"
  BY <1>5, MandCounted DEF Steps, Frames
<1>6. CASE op.kind = "if_then_else"
  BY <1>6, IfThenElseCounted DEF Steps, Frames
<1>7. CASE op.kind \in {"input_public", "fill_random", "apply_or_mask", "apply_and_mask"}
  <2>1. Steps(op, p) = Do(op.kind, 1, NumWords) /\ \A q : Frames(op, q) = 0
    BY <1>7 DEF Steps, Frames
  <2>2. op.kind \in Local
    BY <1>7 DEF Local
  <2> QED
    BY <2>1, <2>2, WordEnds, LocalCounted
<1>8. op.kind \in {"input", "shuffle", "reveal_to", "reveal_to_all", "mand_gate", "if_then_else",
                   "input_public", "fill_random", "apply_or_mask", "apply_and_mask"}
  BY DEF Operation
<1> QED
  BY <1>1, <1>2, <1>3, <1>4, <1>5, <1>6, <1>7, <1>8

-----------------------------------------------------------------------------
(* Frames sent and received so far                                         *)

(* Steps of a kind before a place, by recursion on the place.              *)
LEMMA BeforeSteps ==
    ASSUME NEW steps, NEW whats
    PROVE  /\ Before(steps, whats, 1) = 0
           /\ \A s \in Nat \ {0} :
                /\ Before(steps, whats, s) \in Nat
                /\ Before(steps, whats, s + 1) =
                     Before(steps, whats, s) + If(steps[s].do \in whats, 1)
<1> DEFINE B(s) == {k \in 1 .. s - 1 : steps[k].do \in whats}
<1>1. \A s \in Nat \ {0} : IsFiniteSet(B(s)) /\ Cardinality(B(s)) \in Nat
  <2> SUFFICES ASSUME NEW s \in Nat \ {0} PROVE IsFiniteSet(B(s)) /\ Cardinality(B(s)) \in Nat
    OBVIOUS
  <2>1. IsFiniteSet(1 .. s - 1) /\ B(s) \in SUBSET (1 .. s - 1)
    BY FS_Interval
  <2>2. IsFiniteSet(B(s))
    BY <2>1, FS_Subset
  <2> QED
    BY <2>2, FS_CardinalityType
<1>2. ASSUME NEW s \in Nat \ {0}
      PROVE  Cardinality(B(s + 1)) = Cardinality(B(s)) + If(steps[s].do \in whats, 1)
  <2>1. CASE steps[s].do \in whats
    <3>1. B(s + 1) = B(s) \cup {s} /\ s \notin B(s)
      BY <2>1
    <3> HIDE DEF B
    <3>2. Cardinality(B(s) \cup {s}) = Cardinality(B(s)) + 1
      BY <1>1, <3>1, FS_AddElement
    <3> QED
      BY <2>1, <3>1, <3>2 DEF If
  <2>2. CASE steps[s].do \notin whats
    <3>1. B(s + 1) = B(s)
      BY <2>2
    <3> HIDE DEF B
    <3> QED
      BY <1>1, <2>2, <3>1 DEF If
  <2> QED
    BY <2>1, <2>2
<1>3. B(1) = {}
  OBVIOUS
<1>4. Cardinality(B(1)) = 0
  BY <1>3, FS_EmptySet
<1>5. \A s : Before(steps, whats, s) = Cardinality(B(s))
  BY DEF Before
<1> HIDE DEF B
<1> QED
  BY <1>1, <1>2, <1>4, <1>5

(* A step that is counted deals with the word after those before it.       *)
LEMMA BeforeCounts ==
    ASSUME NEW steps \in Seq(StepRecord), NEW whats, NEW b \in Nat, Counts(steps, whats, 0, b)
    PROVE  /\ Before(steps, whats, Len(steps) + 1) = b
           /\ \A s \in 1 .. Len(steps) :
                 steps[s].do \in whats => /\ steps[s].lo = Before(steps, whats, s) + 1
                                          /\ steps[s].lo =< b
<1>1. PICK f \in [1 .. Len(steps) + 1 -> 0 .. b] :
        /\ f[1] = 0 /\ f[Len(steps) + 1] = b
        /\ \A s \in 1 .. Len(steps) :
              IF steps[s].do \in whats
              THEN steps[s].lo = f[s] + 1 /\ f[s + 1] = f[s] + 1
              ELSE f[s + 1] = f[s]
  BY DEF Counts
<1>2. Len(steps) \in Nat
  OBVIOUS
<1> DEFINE T == {i \in 0 .. Len(steps) : f[i + 1] = Before(steps, whats, i + 1)}
<1>3. 0 \in T
  BY <1>1, <1>2, BeforeSteps
<1>4. ASSUME NEW i \in 1 .. Len(steps), i - 1 \in T PROVE i \in T
  <2>1. f[i] = Before(steps, whats, i)
    BY <1>2, <1>4
  <2>2. Before(steps, whats, i + 1) = Before(steps, whats, i) + If(steps[i].do \in whats, 1)
        /\ Before(steps, whats, i) \in Nat
    <3>1. i \in Nat \ {0}
      BY <1>2
    <3> HIDE DEF T
    <3> QED
      BY <3>1, BeforeSteps, Zenon
  <2>3. f[i + 1] = f[i] + If(steps[i].do \in whats, 1)
    <3>1. CASE steps[i].do \in whats
      BY <1>1, <3>1 DEF If
    <3>2. CASE steps[i].do \notin whats
      BY <1>1, <2>1, <2>2, <3>2 DEF If
    <3> QED
      BY <3>1, <3>2
  <2> QED
    BY <1>2, <2>1, <2>2, <2>3
<1>5. \A i \in 0 .. Len(steps) : i \in T
  <2> HIDE DEF T
  <2> QED
    BY <1>2, <1>3, <1>4, InductionUpTo
<1>6. ASSUME NEW s \in 1 .. Len(steps) + 1 PROVE f[s] = Before(steps, whats, s)
  <2>1. s - 1 \in 0 .. Len(steps) /\ (s - 1) + 1 = s
    BY <1>2
  <2>2. s - 1 \in T
    BY <1>5, <2>1, Zenon
  <2>3. f[(s - 1) + 1] = Before(steps, whats, (s - 1) + 1)
    BY <2>2
  <2> QED
    BY <2>1, <2>3, Zenon
<1>7. ASSUME NEW s \in 1 .. Len(steps), steps[s].do \in whats
      PROVE  steps[s].lo = Before(steps, whats, s) + 1 /\ steps[s].lo =< b
  <2>1. s \in 1 .. Len(steps) + 1 /\ s + 1 \in 1 .. Len(steps) + 1
    BY <1>2
  <2>2. f[s] = Before(steps, whats, s)
    BY <1>6, <2>1
  <2>3. f[s] \in 0 .. b /\ f[s + 1] \in 0 .. b
    BY <2>1
  <2> QED
    BY <1>1, <1>7, <2>2, <2>3
<1> QED
  BY <1>1, <1>2, <1>6, <1>7

(* An operation has at most one frame a word.                              *)
LEMMA FramesAre ==
    ASSUME NEW op, NEW p
    PROVE  Frames(op, p) \in Nat /\ Frames(op, p) =< NumWords
BY Rep3Assumption DEF Frames

IsTotal(p, x) == x = [n \in 0 .. NumOps |-> IF n = 0 THEN 0 ELSE x[n - 1] + Frames(prog[n], p)]

(* Frames of the operations so far, by recursion on their number.          *)
LEMMA Totals ==
    ASSUME NEW p
    PROVE  /\ Total(p)[0] = 0
           /\ \A n \in 0 .. NumOps : Total(p)[n] \in Nat
           /\ \A n \in 1 .. NumOps : Total(p)[n] = Total(p)[n - 1] + Frames(prog[n], p)
<1> DEFINE h == [n \in 1 .. NumOps |-> [x \in Nat |-> x + Frames(prog[n], p)]]
           N == NumOps
<1>1. N \in Nat
  BY Rep3Assumption
<1>2. \A n \in 1 .. N : Frames(prog[n], p) \in Nat
  BY FramesAre
<1>3. \A n \in 1 .. N : \A x \in Nat : h[n][x] = x + Frames(prog[n], p)
  OBVIOUS
<1>4. Stays(Nat, h, N)
  BY <1>2, <1>3 DEF Stays
<1> HIDE DEF h
<1>5. PICK s : Iterates(Nat, 0, h, N, s)
  BY <1>1, <1>4, IterationUpTo
<1>6. /\ \A n \in 0 .. N : s[n] \in Nat
      /\ s[0] = 0 /\ \A n \in 1 .. N : s[n] = s[n - 1] + Frames(prog[n], p)
  <2>1. \A n \in 1 .. N : n - 1 \in 0 .. N
    BY <1>1
  <2> QED
    BY <1>3, <1>5, <2>1 DEF Iterates
<1>7. \E x : IsTotal(p, x)
  <2> DEFINE x == [n \in 0 .. N |-> s[n]]
  <2>1. \A n \in 0 .. N : x[n] = IF n = 0 THEN 0 ELSE x[n - 1] + Frames(prog[n], p)
    <3> SUFFICES ASSUME NEW n \in 0 .. N
                 PROVE  x[n] = IF n = 0 THEN 0 ELSE x[n - 1] + Frames(prog[n], p)
      OBVIOUS
    <3>1. n # 0 => n \in 1 .. N /\ n - 1 \in 0 .. N
      BY <1>1
    <3>2. x[n] = s[n] /\ (n # 0 => x[n - 1] = s[n - 1])
      BY <3>1
    <3> HIDE DEF x
    <3> QED
      BY <1>6, <3>1, <3>2
  <2>2. x = [n \in 0 .. N |-> x[n]]
    OBVIOUS
  <2> HIDE DEF x
  <2>3. IsTotal(p, x)
    BY <2>1, <2>2 DEF IsTotal
  <2> QED
    BY <2>3
<1>8. Total(p) = CHOOSE x : IsTotal(p, x)
  BY Zenon DEF Total, IsTotal
<1>9. IsTotal(p, Total(p))
  BY <1>7, <1>8
<1> DEFINE t == Total(p)
<1> HIDE DEF t
<1>10. \A n \in 0 .. N : t[n] = IF n = 0 THEN 0 ELSE t[n - 1] + Frames(prog[n], p)
  BY <1>9 DEF IsTotal, t
<1>11. t[0] = 0 /\ \A n \in 1 .. N : t[n] = t[n - 1] + Frames(prog[n], p)
  BY <1>1, <1>10
<1> DEFINE T == {n \in 0 .. N : t[n] \in Nat}
<1>12. 0 \in T
  BY <1>1, <1>11
<1>13. ASSUME NEW n \in 1 .. N, n - 1 \in T PROVE n \in T
  BY <1>1, <1>2, <1>11, <1>13
<1>14. \A n \in 0 .. N : n \in T
  <2> HIDE DEF T
  <2> QED
    BY <1>1, <1>12, <1>13, InductionUpTo
<1> QED
  BY <1>11, <1>14 DEF t

(* Later operations only add frames.                                       *)
LEMMA TotalsGrow ==
    ASSUME NEW p, NEW m \in 0 .. NumOps, NEW n \in 0 .. NumOps, m =< n
    PROVE  Total(p)[m] =< Total(p)[n]
<1> DEFINE t == Total(p)
           N == NumOps
           T == {i \in 0 .. N : i >= m => t[m] =< t[i]}
<1>1. /\ N \in Nat /\ \A i \in 0 .. N : t[i] \in Nat
      /\ \A i \in 1 .. N : t[i] = t[i - 1] + Frames(prog[i], p) /\ Frames(prog[i], p) \in Nat
  BY Rep3Assumption, Totals, FramesAre
<1> HIDE DEF t, N
<1>2. 0 \in T
  BY <1>1 DEF N
<1>3. ASSUME NEW i \in 1 .. N, i - 1 \in T PROVE i \in T
  <2>1. i - 1 >= m => t[m] =< t[i - 1]
    BY <1>3
  <2>2. i - 1 \in 0 .. N /\ m \in Nat /\ i \in Nat /\ t[m] \in Nat /\ t[i - 1] \in Nat /\ t[i] \in Nat
    BY <1>1 DEF N
  <2>3. t[i] = t[i - 1] + Frames(prog[i], p) /\ Frames(prog[i], p) \in Nat
    BY <1>1
  <2>4. i >= m => t[m] =< t[i]
    <3>1. CASE i = m
      BY <2>2, <3>1
    <3>2. CASE i # m
      BY <2>1, <2>2, <2>3, <3>2
    <3> QED
      BY <3>1, <3>2
  <2> QED
    BY <1>1, <2>2, <2>4
<1> HIDE DEF T
<1>4. \A i \in 0 .. N : i \in T
  BY <1>1, <1>2, <1>3, InductionUpTo
<1>5. n \in T
  BY <1>4 DEF N
<1> QED
  BY <1>5 DEF T, t

(* The number of a frame tells its operation and its index.                *)
LEMMA FrameNumbers ==
    ASSUME NEW p, NEW m \in 1 .. NumOps, NEW n \in 1 .. NumOps,
           NEW i \in Nat \ {0}, NEW j \in Nat \ {0},
           i =< Frames(prog[m], p), j =< Frames(prog[n], p),
           Total(p)[m - 1] + i = Total(p)[n - 1] + j
    PROVE  m = n /\ i = j
<1> DEFINE t == Total(p)
<1>1. NumOps \in Nat
  BY Rep3Assumption
<1>2. /\ m - 1 \in 0 .. NumOps /\ n - 1 \in 0 .. NumOps /\ m \in 0 .. NumOps /\ n \in 0 .. NumOps
      /\ m \in Nat /\ n \in Nat
  BY <1>1
<1>3. t[m - 1] \in Nat /\ t[n - 1] \in Nat /\ t[m] \in Nat /\ t[n] \in Nat
  BY <1>2, Totals
<1>4. t[m] = t[m - 1] + Frames(prog[m], p) /\ t[n] = t[n - 1] + Frames(prog[n], p)
  BY Totals
<1>5. Frames(prog[m], p) \in Nat /\ Frames(prog[n], p) \in Nat
  BY FramesAre
<1>6. m < n => t[m] =< t[n - 1]
  <2>1. m < n => m =< n - 1
    BY <1>2
  <2> QED
    BY <1>2, <2>1, TotalsGrow
<1>7. n < m => t[n] =< t[m - 1]
  <2>1. n < m => n =< m - 1
    BY <1>2
  <2> QED
    BY <1>2, <2>1, TotalsGrow
<1> HIDE DEF t
<1>8. t[m - 1] + i = t[n - 1] + j
  BY DEF t
<1>9. m = n
  BY <1>2, <1>3, <1>4, <1>5, <1>6, <1>7, <1>8
<1> QED
  BY <1>3, <1>8, <1>9

-----------------------------------------------------------------------------
(* Where a party is                                                        *)

Mine(p) == Steps(prog[pos[p]], p)

(* Where a running party stands in its operation.                          *)
LEMMA RunningFacts ==
    ASSUME TypeOK, NEW p \in Party, Running(p)
    PROVE  /\ pos[p] \in 1 .. NumOps /\ prog[pos[p]] \in Operation
           /\ step[p] \in Nat \ {0} /\ step[p] =< Len(Mine(p)) + 1
           /\ Mine(p) \in Seq(StepRecord) /\ Len(Mine(p)) \in Nat
           /\ Counts(Mine(p), Sending, 0, Frames(prog[pos[p]], p))
           /\ Counts(Mine(p), Receiving, 0, Frames(prog[pos[p]], prev_party(p)))
<1>1. NumOps \in Nat /\ pos[p] \in 1 .. NumOps + 1
  BY Rep3Assumption DEF TypeOK
<1>2. pos[p] \in 1 .. NumOps
  BY <1>1 DEF Running
<1>3. prog[pos[p]] \in Operation
  BY <1>2 DEF TypeOK
<1>4. step[p] \in Nat \ {0} /\ step[p] =< Len(Mine(p)) + 1
  BY DEF TypeOK, Mine
<1>5. /\ Mine(p) \in Seq(StepRecord)
      /\ Counts(Mine(p), Sending, 0, Frames(prog[pos[p]], p))
      /\ Counts(Mine(p), Receiving, 0, Frames(prog[pos[p]], prev_party(p)))
  BY <1>3, StepsCounted DEF Counted, Mine
<1>6. Len(Mine(p)) \in Nat
  BY <1>5
<1> QED
  BY <1>2, <1>3, <1>4, <1>5, <1>6

(* The word a step sends or receives is the next of its operation.         *)
LEMMA AtFacts ==
    ASSUME TypeOK, NEW p \in Party, NEW whats, At(p, whats)
    PROVE  /\ Running(p) /\ step[p] \in 1 .. Len(Mine(p)) /\ Now(p) = Mine(p)[step[p]]
           /\ Now(p) \in StepRecord /\ Now(p).do \in whats
           /\ Now(p).do \in Sending =>
                /\ Now(p).lo = Before(Mine(p), Sending, step[p]) + 1
                /\ Now(p).lo =< Frames(prog[pos[p]], p)
           /\ Now(p).do \in Receiving =>
                /\ Now(p).lo = Before(Mine(p), Receiving, step[p]) + 1
                /\ Now(p).lo =< Frames(prog[pos[p]], prev_party(p))
<1>1. Running(p) /\ step[p] =< Len(Mine(p)) /\ Now(p).do \in whats /\ Now(p) = Mine(p)[step[p]]
  BY DEF At, Mine, Now
<1>2. step[p] \in 1 .. Len(Mine(p))
  BY <1>1, RunningFacts
<1>3. Mine(p) \in Seq(StepRecord)
  BY <1>1, RunningFacts
<1>4. Now(p) \in StepRecord
  BY <1>1, <1>2, <1>3
<1>5. Now(p).do \in Sending => /\ Now(p).lo = Before(Mine(p), Sending, step[p]) + 1
                               /\ Now(p).lo =< Frames(prog[pos[p]], p)
  BY <1>1, <1>2, RunningFacts, FramesAre, BeforeCounts
<1>6. Now(p).do \in Receiving => /\ Now(p).lo = Before(Mine(p), Receiving, step[p]) + 1
                                 /\ Now(p).lo =< Frames(prog[pos[p]], prev_party(p))
  BY <1>1, <1>2, RunningFacts, FramesAre, BeforeCounts
<1> QED
  BY <1>1, <1>2, <1>4, <1>5, <1>6

(* The frames of the operation under way are a number.                     *)
LEMMA SoFarFacts ==
    ASSUME TypeOK, NEW p \in Party, NEW whats
    PROVE  SoFar(p, whats) \in Nat
BY RunningFacts, BeforeSteps DEF SoFar, Mine

(* The frames sent and received are numbers.                               *)
LEMMA CountersFacts ==
    ASSUME TypeOK, NEW p \in Party
    PROVE  Sent(p) \in Nat /\ Received(p) \in Nat
<1>1. pos[p] - 1 \in 0 .. NumOps
  BY Rep3Assumption DEF TypeOK
<1>2. Total(p)[pos[p] - 1] \in Nat /\ Total(prev_party(p))[pos[p] - 1] \in Nat
  BY <1>1, Totals
<1>3. SoFar(p, Sending) \in Nat /\ SoFar(p, Receiving) \in Nat
  BY SoFarFacts
<1> QED
  BY <1>2, <1>3 DEF Sent, Received

(* The program is fixed.                                                   *)
LEMMA TotalSame ==
    ASSUME prog' = prog, NEW p
    PROVE  Total(p)' = Total(p)
BY Zenon DEF Total

(* A step adds a frame to those sent, or received, when it is of that kind.*)
LEMMA AdvanceCounts ==
    ASSUME TypeOK, NEW p \in Party, NEW whats, At(p, whats), Advance(p), NEW r \in Party
    PROVE  /\ Sent(r)' = Sent(r) + If(r = p /\ Now(p).do \in Sending, 1)
           /\ Received(r)' = Received(r) + If(r = p /\ Now(p).do \in Receiving, 1)
<1>1. prog' = prog /\ pos' = pos /\ step' = [step EXCEPT ![p] = @ + 1]
  BY DEF Advance
<1>2. Total(r)' = Total(r) /\ Total(prev_party(r))' = Total(prev_party(r))
  BY <1>1, TotalSame
<1>3. /\ Running(r)' = Running(r)
      /\ Mine(r)' = Mine(r)
  BY <1>1 DEF Running, Mine
<1>4. step[r]' = IF r = p THEN step[p] + 1 ELSE step[r]
  BY <1>1 DEF TypeOK
<1>5. \A w : SoFar(r, w) = IF Running(r) THEN Before(Mine(r), w, step[r]) ELSE 0
  BY DEF SoFar, Mine
<1>6. \A w : SoFar(r, w)' = IF Running(r) THEN Before(Mine(r), w, step[r]') ELSE 0
  BY <1>1, <1>3 DEF SoFar, Mine
<1>7. ASSUME NEW w PROVE SoFar(r, w)' = SoFar(r, w) + If(r = p /\ Now(p).do \in w, 1)
  <2>1. CASE r = p
    <3>1. Running(p) /\ step[p] \in Nat \ {0} /\ Now(p) = Mine(p)[step[p]]
      BY AtFacts, RunningFacts
    <3>2. Before(Mine(p), w, step[p] + 1) = Before(Mine(p), w, step[p]) + If(Now(p).do \in w, 1)
      BY <3>1, BeforeSteps
    <3> QED
      BY <1>4, <1>5, <1>6, <2>1, <3>1, <3>2 DEF If
  <2>2. CASE r # p
    <3>1. SoFar(r, w)' = SoFar(r, w)
      BY <1>4, <1>5, <1>6, <2>2
    <3> QED
      BY <2>2, <3>1, SoFarFacts DEF If
  <2> QED
    BY <2>1, <2>2
<1>8. /\ SoFar(r, Sending) \in Nat /\ SoFar(r, Receiving) \in Nat
      /\ Total(r)[pos[r] - 1] \in Nat /\ Total(prev_party(r))[pos[r] - 1] \in Nat
  <2>1. pos[r] \in 1 .. NumOps + 1 /\ NumOps \in Nat
    BY Rep3Assumption DEF TypeOK
  <2>2. pos[r] - 1 \in 0 .. NumOps
    BY <2>1
  <2> QED
    BY <2>2, Totals, SoFarFacts
<1>9. /\ Sent(r) = Total(r)[pos[r] - 1] + SoFar(r, Sending)
      /\ Received(r) = Total(prev_party(r))[pos[r] - 1] + SoFar(r, Receiving)
  BY DEF Sent, Received
<1>10. /\ Sent(r)' = Total(r)[pos[r] - 1] + SoFar(r, Sending)'
       /\ Received(r)' = Total(prev_party(r))[pos[r] - 1] + SoFar(r, Receiving)'
  BY <1>1, <1>2 DEF Sent, Received
<1> DEFINE c == If(r = p /\ Now(p).do \in Sending, 1)
           d == If(r = p /\ Now(p).do \in Receiving, 1)
<1>11. c \in Nat /\ d \in Nat
  BY DEF If
<1>12. SoFar(r, Sending)' = SoFar(r, Sending) + c /\ SoFar(r, Receiving)' = SoFar(r, Receiving) + d
  BY <1>7
<1> HIDE DEF c, d
<1>13. Sent(r)' = Sent(r) + c /\ Received(r)' = Received(r) + d
  BY <1>8, <1>9, <1>10, <1>11, <1>12
<1> QED
  BY <1>13 DEF c, d

(* Returning from an operation neither sends nor receives.                 *)
LEMMA ReturnCounts ==
    ASSUME TypeOK, NEW p \in Party, Return(p), NEW r \in Party
    PROVE  Sent(r)' = Sent(r) /\ Received(r)' = Received(r)
<1>1. /\ prog' = prog /\ pos' = [pos EXCEPT ![p] = @ + 1] /\ step' = [step EXCEPT ![p] = 1]
      /\ Running(p) /\ step[p] > Len(Mine(p))
  BY DEF Return, Mine
<1>2. Total(r)' = Total(r) /\ Total(prev_party(r))' = Total(prev_party(r))
  BY <1>1, TotalSame
<1>3. CASE r # p
  <2>1. pos[r]' = pos[r] /\ step[r]' = step[r]
    BY <1>1, <1>3 DEF TypeOK
  <2> QED
    BY <1>1, <1>2, <2>1 DEF Sent, Received, SoFar, Running
<1>4. CASE r = p
  <2>1. pos[p]' = pos[p] + 1 /\ step[p]' = 1
    BY <1>1 DEF TypeOK
  <2>2. \A w : SoFar(p, w)' = 0
    <3>1. \A w : Before(Mine(p)', w, 1) = 0
      BY BeforeSteps
    <3>2. \A w : SoFar(p, w)' = IF Running(p)' THEN Before(Mine(p)', w, step[p]') ELSE 0
      BY DEF SoFar, Mine
    <3> QED
      BY <2>1, <3>1, <3>2
  <2>3. /\ pos[p] \in 1 .. NumOps /\ step[p] = Len(Mine(p)) + 1
    BY <1>1, RunningFacts
  <2>4. SoFar(p, Sending) = Frames(prog[pos[p]], p)
        /\ SoFar(p, Receiving) = Frames(prog[pos[p]], prev_party(p))
    <3>1. /\ SoFar(p, Sending) = Before(Mine(p), Sending, Len(Mine(p)) + 1)
          /\ SoFar(p, Receiving) = Before(Mine(p), Receiving, Len(Mine(p)) + 1)
      BY <1>1, <2>3 DEF SoFar, Mine
    <3> QED
      BY <1>1, <3>1, RunningFacts, FramesAre, BeforeCounts
  <2>5. /\ Total(p)[pos[p]] = Total(p)[pos[p] - 1] + Frames(prog[pos[p]], p)
        /\ Total(prev_party(p))[pos[p]] =
             Total(prev_party(p))[pos[p] - 1] + Frames(prog[pos[p]], prev_party(p))
    BY <2>3, Totals
  <2>6. (pos[p] + 1) - 1 = pos[p]
    BY <2>3
  <2>7. Sent(p)' = Total(p)[pos[p]] + 0 /\ Received(p)' = Total(prev_party(p))[pos[p]] + 0
    BY <1>2, <1>4, <2>1, <2>2, <2>6 DEF Sent, Received
  <2>8. Total(p)[pos[p]] \in Nat /\ Total(prev_party(p))[pos[p]] \in Nat
    <3>1. pos[p] \in 0 .. NumOps
      BY <2>3
    <3> QED
      BY <3>1, Totals
  <2> QED
    BY <1>4, <2>4, <2>5, <2>7, <2>8 DEF Sent, Received
<1> QED
  BY <1>3, <1>4

-----------------------------------------------------------------------------
(* The frames of a stream stay in order                                    *)

(* FramesInOrder for the stream of one sender.                             *)
OrderedFrom(p) ==
    /\ Len(stream[next_party(p)]) = Sent(p) - Received(next_party(p))
    /\ \A j \in 1 .. Len(stream[next_party(p)]) :
          /\ stream[next_party(p)][j].index =< Frames(prog[stream[next_party(p)][j].op], p)
          /\ Total(p)[stream[next_party(p)][j].op - 1] + stream[next_party(p)][j].index
                = Received(next_party(p)) + j

(* FramesInOrder, party by party.                                          *)
LEMMA OrderedIs ==
    /\ FramesInOrder <=> \A p \in Party : OrderedFrom(p)
    /\ FramesInOrder' <=> \A p \in Party : OrderedFrom(p)'
BY DEF FramesInOrder, OrderedFrom

(* A stream that nobody touches, and whose counters stand still.           *)
LEMMA OrderedSame ==
    ASSUME NEW p, OrderedFrom(p), prog' = prog,
           stream'[next_party(p)] = stream[next_party(p)],
           Sent(p)' = Sent(p), Received(next_party(p))' = Received(next_party(p))
    PROVE  OrderedFrom(p)'
<1>1. Total(p)' = Total(p)
  BY TotalSame
<1> QED
  BY <1>1 DEF OrderedFrom

(* A local step keeps the frames in order.                                 *)
LEMMA FramesLocal ==
    ASSUME TypeOK, FramesInOrder, NEW p \in Party, NEW whats,
           At(p, whats), \A what \in whats : what \in Local, Advance(p), stream' = stream
    PROVE  FramesInOrder'
<1>1. Now(p).do \notin Sending /\ Now(p).do \notin Receiving
  BY AtFacts, Kinds
<1>2. \A r \in Party : Sent(r)' = Sent(r) + 0 /\ Received(r)' = Received(r) + 0
  BY <1>1, AdvanceCounts DEF If
<1>3. \A r \in Party : Sent(r)' = Sent(r) /\ Received(r)' = Received(r)
  BY <1>2, CountersFacts
<1>4. prog' = prog
  BY DEF Advance
<1>5. ASSUME NEW r \in Party PROVE OrderedFrom(r)'
  BY <1>3, <1>4, OrderedIs, OrderedSame, Ring
<1> QED
  BY <1>5, OrderedIs

(* So does a return.                                                       *)
LEMMA FramesReturn ==
    ASSUME TypeOK, FramesInOrder, NEW p \in Party, Return(p)
    PROVE  FramesInOrder'
<1>1. \A r \in Party : Sent(r)' = Sent(r) /\ Received(r)' = Received(r)
  BY ReturnCounts
<1>2. prog' = prog /\ stream' = stream
  BY DEF Return
<1>3. ASSUME NEW r \in Party PROVE OrderedFrom(r)'
  BY <1>1, <1>2, OrderedIs, OrderedSame, Ring
<1> QED
  BY <1>3, OrderedIs

Message == [word : Polynomial, op : 1 .. NumOps, index : Word]

(* A frame sent is the next of the stream it enters.                       *)
LEMMA FramesSend ==
    ASSUME TypeOK, FramesInOrder, NEW p \in Party, Send(p), SentWord(p) \in Polynomial
    PROVE  FramesInOrder'
<1> DEFINE q == next_party(p)
           m == [word |-> SentWord(p), op |-> pos[p], index |-> Now(p).lo]
           n == Len(stream[q])
<1>1. /\ At(p, Sending) /\ Advance(p) /\ prog' = prog
      /\ stream' = [stream EXCEPT ![q] = Append(@, m)]
  BY DEF Send, Sending, Advance
<1>2. q \in Party /\ q # p /\ \A r \in Party : r # p => next_party(r) # q
  BY Ring
<1>3. /\ Running(p) /\ Now(p) \in StepRecord /\ Now(p).do \in Sending /\ Now(p).do \notin Receiving
      /\ Now(p).lo = Before(Mine(p), Sending, step[p]) + 1
      /\ Now(p).lo =< Frames(prog[pos[p]], p)
  BY <1>1, AtFacts, Kinds
<1>4. \A r \in Party : Sent(r)' = Sent(r) + If(r = p, 1) /\ Received(r)' = Received(r) + 0
  BY <1>1, <1>3, AdvanceCounts DEF If
<1>5. \A r \in Party : Sent(r) \in Nat /\ Received(r) \in Nat
  BY CountersFacts
<1>6. ASSUME NEW r \in Party, r # p PROVE OrderedFrom(r)'
  <2>1. Sent(r)' = Sent(r) /\ Received(next_party(r))' = Received(next_party(r))
    BY <1>4, <1>5, <1>6, Ring DEF If
  <2>2. stream'[next_party(r)] = stream[next_party(r)]
    <3>1. next_party(r) \in Party /\ next_party(r) # q
      BY <1>2, <1>6, Ring
    <3> QED
      BY <1>1, <3>1 DEF TypeOK
  <2> QED
    BY <1>1, <2>1, <2>2, OrderedIs, OrderedSame
<1>7. OrderedFrom(p)'
  <2>1. Sent(p)' = Sent(p) + 1 /\ Received(q)' = Received(q)
    BY <1>2, <1>4, <1>5 DEF If
  <2>2. stream[q] \in Seq(Message) /\ m \in Message /\ n \in Nat
    <3>1. pos[p] \in 1 .. NumOps /\ Now(p).lo \in Word
      BY <1>3, RunningFacts DEF StepRecord
    <3>2. stream[q] \in Seq(Message)
      BY <1>2 DEF TypeOK, Message
    <3> QED
      BY <3>1, <3>2 DEF Message
  <2>3. stream'[q] = Append(stream[q], m)
    BY <1>1, <1>2 DEF TypeOK
  <2> DEFINE t == stream[q]
             u == stream'[q]
  <2>4. /\ Len(u) = n + 1 /\ u[n + 1] = m
        /\ \A j \in 1 .. n : u[j] = t[j]
    BY <2>2, <2>3
  <2>5. Total(p)' = Total(p)
    BY <1>1, TotalSame
  <2>6. /\ n = Sent(p) - Received(q)
        /\ \A j \in 1 .. n : /\ t[j].index =< Frames(prog[t[j].op], p)
                             /\ Total(p)[t[j].op - 1] + t[j].index = Received(q) + j
    BY OrderedIs DEF OrderedFrom
  <2>7. Sent(p) = Total(p)[pos[p] - 1] + Before(Mine(p), Sending, step[p])
    BY <1>3 DEF Sent, SoFar, Mine
  <2>8. Total(p)[pos[p] - 1] \in Nat /\ Before(Mine(p), Sending, step[p]) \in Nat
    <3>1. pos[p] \in 1 .. NumOps /\ step[p] \in Nat \ {0} /\ NumOps \in Nat
      BY <1>3, RunningFacts, Rep3Assumption
    <3>2. pos[p] - 1 \in 0 .. NumOps
      BY <3>1
    <3> QED
      BY <3>1, <3>2, Totals, BeforeSteps
  <2>9. Total(p)[m.op - 1] + m.index = Received(q) + (n + 1) /\ m.index =< Frames(prog[m.op], p)
    <3>1. m.op = pos[p] /\ m.index = Now(p).lo
      OBVIOUS
    <3>2. Sent(p) \in Nat /\ Received(q) \in Nat
      BY <1>2, <1>5
    <3> HIDE DEF m
    <3>3. Total(p)[pos[p] - 1] + Now(p).lo = Received(q) + (n + 1)
      <4>1. Now(p).lo = Before(Mine(p), Sending, step[p]) + 1 /\ n = Sent(p) - Received(q) /\ n \in Nat
        BY <1>3, <2>2, <2>6
      <4> HIDE DEF n
      <4> QED
        BY <2>7, <2>8, <3>2, <4>1
    <3> QED
      BY <1>3, <3>1, <3>3
  <2>10. Len(u) = Sent(p)' - Received(q)'
    BY <1>2, <1>5, <2>1, <2>2, <2>4, <2>6
  <2>11. ASSUME NEW j \in 1 .. Len(u)
         PROVE  /\ u[j].index =< Frames(prog[u[j].op], p)
                /\ Total(p)[u[j].op - 1] + u[j].index = Received(q) + j
    <3>1. CASE j = n + 1
      BY <2>4, <2>9, <3>1
    <3>2. CASE j # n + 1
      <4>1. j \in 1 .. n
        BY <2>2, <2>4, <3>2
      <4> QED
        BY <2>4, <2>6, <4>1
    <3> QED
      BY <3>1, <3>2
  <2> QED
    BY <1>1, <2>1, <2>5, <2>10, <2>11 DEF OrderedFrom
<1> QED
  BY <1>6, <1>7, OrderedIs

(* The frame received is the oldest of the stream it leaves.               *)
LEMMA FramesRecv ==
    ASSUME TypeOK, FramesInOrder, NEW p \in Party, Recv(p)
    PROVE  FramesInOrder'
<1> DEFINE q == prev_party(p)
           n == Len(stream[p])
           t == stream[p]
           u == stream'[p]
<1>1. /\ At(p, Receiving) /\ Advance(p) /\ prog' = prog /\ stream[p] # <<>>
      /\ stream' = [stream EXCEPT ![p] = Tail(@)]
  BY DEF Recv, AtRecv, Receiving, Advance
<1>2. q \in Party /\ q # p /\ next_party(q) = p /\ \A r \in Party : r # q => next_party(r) # p
  BY Ring
<1>3. Now(p).do \in Receiving /\ Now(p).do \notin Sending
  BY <1>1, AtFacts, Kinds
<1>4. \A r \in Party : Sent(r)' = Sent(r) + 0 /\ Received(r)' = Received(r) + If(r = p, 1)
  BY <1>1, <1>3, AdvanceCounts DEF If
<1>5. \A r \in Party : Sent(r) \in Nat /\ Received(r) \in Nat
  BY CountersFacts
<1>6. ASSUME NEW r \in Party, r # q PROVE OrderedFrom(r)'
  <2>1. next_party(r) \in Party /\ next_party(r) # p
    BY <1>2, <1>6, Ring
  <2>2. Sent(r)' = Sent(r) /\ Received(next_party(r))' = Received(next_party(r))
    BY <1>4, <1>5, <2>1 DEF If
  <2>3. stream'[next_party(r)] = stream[next_party(r)]
    BY <1>1, <2>1 DEF TypeOK
  <2> QED
    BY <1>1, <2>2, <2>3, OrderedIs, OrderedSame
<1>7. OrderedFrom(q)'
  <2>1. Sent(q)' = Sent(q) /\ Received(p)' = Received(p) + 1
    BY <1>2, <1>4, <1>5 DEF If
  <2>2. t \in Seq(Message) /\ t # <<>> /\ u = Tail(t)
    BY <1>1 DEF TypeOK, Message
  <2>3. n \in Nat /\ n >= 1 /\ Len(u) = n - 1 /\ \A j \in 1 .. n - 1 : u[j] = t[j + 1]
    BY <2>2
  <2>4. Total(q)' = Total(q)
    BY <1>1, TotalSame
  <2>5. /\ n = Sent(q) - Received(p)
        /\ \A j \in 1 .. n : /\ t[j].index =< Frames(prog[t[j].op], q)
                             /\ Total(q)[t[j].op - 1] + t[j].index = Received(p) + j
    BY <1>2, OrderedIs DEF OrderedFrom
  <2>6. Len(u) = Sent(q)' - Received(p)'
    BY <1>2, <1>5, <2>1, <2>3, <2>5
  <2>7. ASSUME NEW j \in 1 .. Len(u)
        PROVE  /\ u[j].index =< Frames(prog[u[j].op], q)
               /\ Total(q)[u[j].op - 1] + u[j].index = Received(p)' + j
    <3>1. j \in 1 .. n - 1 /\ j + 1 \in 1 .. n
      BY <2>3
    <3>2. u[j] = t[j + 1]
      BY <2>3, <3>1
    <3>3. Received(p)' + j = Received(p) + (j + 1)
      BY <1>5, <2>1, <3>1
    <3> QED
      BY <2>5, <3>1, <3>2, <3>3
  <2> QED
    BY <1>1, <1>2, <2>1, <2>4, <2>6, <2>7 DEF OrderedFrom
<1> QED
  BY <1>6, <1>7, OrderedIs

-----------------------------------------------------------------------------
(* Types                                                                   *)

LEMMA PolynomialFacts ==
    /\ Zero \in Polynomial /\ One \in Polynomial
    /\ \A b \in Bits : Atom(b) \in Polynomial
    /\ \A x, y \in Polynomial : x (+) y \in Polynomial /\ x (.) y \in Polynomial
<1>1. Zero \in Polynomial /\ One \in Polynomial /\ \A b \in Bits : Atom(b) \in Polynomial
  BY DEF Zero, One, Atom, Polynomial
<1>2. ASSUME NEW x \in Polynomial, NEW y \in Polynomial
      PROVE  x (+) y \in Polynomial /\ x (.) y \in Polynomial
  <2>1. x (+) y \in Polynomial
    BY DEF Polynomial, (+)
  <2>2. x (.) y \subseteq {m1 \cup m2 : m1 \in x, m2 \in y}
    BY DEF (.)
  <2>3. {m1 \cup m2 : m1 \in x, m2 \in y} \subseteq SUBSET Bits
    BY DEF Polynomial
  <2> QED
    BY <2>1, <2>2, <2>3 DEF Polynomial
<1> QED
  BY <1>1, <1>2

(* The inputs and the generated words are polynomials.                     *)
LEMMA AtomFacts ==
    /\ \A r \in {"a", "b"} : \A p \in Party : \A k \in Word : Atom(<<r, p, k>>) \in Polynomial
    /\ \A p \in Party : \A n \in Nat : Sample(p, n) \in Polynomial
    /\ \A i \in 1 .. NumOps : \A k \in Word : Atom(<<"secret", i, k>>) \in Polynomial
<1>1. \A r \in {"a", "b"} : \A p \in Party : \A k \in Word : <<r, p, k>> \in Bits
  BY DEF Bits
<1>2. \A p \in Party : \A n \in Nat : <<"prg", p, n>> \in Bits
  BY DEF Bits
<1>3. \A i \in 1 .. NumOps : \A k \in Word : <<"secret", i, k>> \in Bits
  BY DEF Bits
<1> QED
  BY <1>1, <1>2, <1>3, PolynomialFacts DEF Sample

(* A fresh array.                                                          *)
LEMMA ZerosTyped == Zeros \in Vector
BY PolynomialFacts DEF Zeros, Vector

Registers == [Party -> [Register -> Vector]]
Streams == [Party -> Seq(Message)]
Draws == [Party -> [prev : Nat, next : Nat]]

Control ==
    /\ prog \in [1 .. NumOps -> Operation]
    /\ pos \in [Party -> 1 .. NumOps + 1]
    /\ step \in [Party -> Nat \ {0}]
    /\ \A p \in Party : step[p] =< IF Running(p) THEN Len(Steps(prog[pos[p]], p)) + 1 ELSE 1

(* TypeOK by the parts that a step changes.                                *)
LEMMA TypeIs ==
    /\ TypeOK <=> /\ Control /\ prev \in Registers /\ next \in Registers
                  /\ buf \in [Party -> Vector] /\ public \in [Party -> Vector]
                  /\ drawn \in Draws /\ stream \in Streams
    /\ TypeOK' <=> /\ Control' /\ prev' \in Registers /\ next' \in Registers
                   /\ buf' \in [Party -> Vector] /\ public' \in [Party -> Vector]
                   /\ drawn' \in Draws /\ stream' \in Streams
BY DEF TypeOK, Control, Registers, Draws, Streams, Message

(* A step moves the party that takes it within its program.                *)
LEMMA ControlAdvance ==
    ASSUME TypeOK, NEW p \in Party, NEW whats, At(p, whats), Advance(p)
    PROVE  Control'
<1>1. prog' = prog /\ pos' = pos /\ step' = [step EXCEPT ![p] = @ + 1]
  BY DEF Advance
<1>2. prog' \in [1 .. NumOps -> Operation] /\ pos' \in [Party -> 1 .. NumOps + 1]
      /\ step' \in [Party -> Nat \ {0}]
  BY <1>1 DEF TypeOK
<1>3. ASSUME NEW r \in Party
      PROVE  step'[r] =< IF Running(r)' THEN Len(Steps(prog'[pos'[r]], r)) + 1 ELSE 1
  <2>1. step[r] =< IF Running(r) THEN Len(Mine(r)) + 1 ELSE 1
    BY DEF TypeOK, Mine
  <2>2. Running(r)' = Running(r) /\ Steps(prog'[pos'[r]], r) = Mine(r)
    BY <1>1 DEF Running, Mine
  <2>3. CASE r = p
    <3>1. Running(p) /\ step[p] \in 1 .. Len(Mine(p)) /\ Len(Mine(p)) \in Nat
      BY AtFacts, RunningFacts
    <3>2. step'[p] = step[p] + 1
      BY <1>1 DEF TypeOK
    <3> QED
      BY <2>2, <2>3, <3>1, <3>2
  <2>4. CASE r # p
    <3>1. step'[r] = step[r]
      BY <1>1, <2>4 DEF TypeOK
    <3> QED
      BY <2>1, <2>2, <3>1
  <2> QED
    BY <2>3, <2>4
<1> QED
  BY <1>2, <1>3 DEF Control

(* Returning keeps the types.                                              *)
LEMMA TypeReturn ==
    ASSUME TypeOK, NEW p \in Party, Return(p)
    PROVE  TypeOK'
<1>1. /\ Running(p) /\ prog' = prog /\ pos' = [pos EXCEPT ![p] = @ + 1] /\ step' = [step EXCEPT ![p] = 1]
      /\ UNCHANGED <<prev, next, buf, public, drawn, stream>>
  BY DEF Return
<1>2. pos[p] \in 1 .. NumOps /\ NumOps \in Nat
  BY <1>1, RunningFacts, Rep3Assumption
<1>3. prog' \in [1 .. NumOps -> Operation] /\ pos' \in [Party -> 1 .. NumOps + 1]
      /\ step' \in [Party -> Nat \ {0}]
  BY <1>1, <1>2 DEF TypeOK
<1>4. ASSUME NEW r \in Party
      PROVE  step'[r] =< IF Running(r)' THEN Len(Steps(prog'[pos'[r]], r)) + 1 ELSE 1
  <2>1. CASE r = p
    <3>1. step'[p] = 1
      BY <1>1 DEF TypeOK
    <3>2. Running(p)' => Len(Steps(prog'[pos'[p]], p)) \in Nat
      <4> SUFFICES ASSUME Running(p)' PROVE Len(Steps(prog'[pos'[p]], p)) \in Nat
        OBVIOUS
      <4>1. pos'[p] \in 1 .. NumOps
        BY <1>2, <1>3 DEF Running
      <4>2. prog'[pos'[p]] \in Operation
        BY <1>3, <4>1
      <4>3. Steps(prog'[pos'[p]], p) \in Seq(StepRecord)
        BY <4>2, StepsCounted DEF Counted
      <4> QED
        BY <4>3
    <3> QED
      BY <2>1, <3>1, <3>2
  <2>2. CASE r # p
    <3>1. pos'[r] = pos[r] /\ step'[r] = step[r] /\ step[r] =< IF Running(r) THEN Len(Mine(r)) + 1 ELSE 1
      BY <1>1, <2>2 DEF TypeOK, Mine
    <3> QED
      BY <1>1, <3>1 DEF Running, Mine
  <2> QED
    BY <2>1, <2>2
<1>5. Control'
  BY <1>3, <1>4 DEF Control
<1> QED
  BY <1>1, <1>5, TypeIs

(* The register and the secret of an operation.                            *)
LEMMA OperationFacts ==
    ASSUME TypeOK, NEW p \in Party, Running(p)
    PROVE  Reg(p) \in Register /\ \A k \in Word : Secret(p, k) \in Polynomial
<1>1. prog[pos[p]] \in Operation /\ pos[p] \in 1 .. NumOps
  BY RunningFacts
<1>2. prog[pos[p]].reg \in Register
  BY <1>1 DEF Operation, Register
<1> QED
  BY <1>1, <1>2, AtomFacts DEF Reg, Secret

(* The shares a party holds.                                               *)
LEMMA SharesTyped ==
    ASSUME TypeOK, NEW p \in Party
    PROVE  /\ \A r \in Register : prev[p][r] \in Vector /\ next[p][r] \in Vector
           /\ \A r \in Register : \A k \in Word : prev[p][r][k] \in Polynomial /\ next[p][r][k] \in Polynomial
           /\ buf[p] \in Vector /\ \A k \in Word : buf[p][k] \in Polynomial
<1>1. \A r \in Register : prev[p][r] \in Vector /\ next[p][r] \in Vector
  BY TypeIs DEF Registers
<1>2. buf[p] \in Vector
  BY TypeIs
<1>3. \A v \in Vector : \A k \in Word : v[k] \in Polynomial
  BY DEF Vector
<1> QED
  BY <1>1, <1>2, <1>3

(* What a step writes to a register, or to its own words.                  *)
LEMMA SetTyped ==
    ASSUME TypeOK, NEW p \in Party, Running(p), NEW words \in Vector
    PROVE  /\ SetPrev(p, words) => prev' \in Registers
           /\ SetNext(p, words) => next' \in Registers
           /\ SetBuf(p, words) => buf' \in [Party -> Vector]
<1>1. Reg(p) \in Register
  BY OperationFacts
<1>2. prev \in Registers /\ next \in Registers /\ buf \in [Party -> Vector]
  BY TypeIs
<1>3. SetPrev(p, words) => prev' \in Registers
  BY <1>1, <1>2 DEF SetPrev, Registers
<1>4. SetNext(p, words) => next' \in Registers
  BY <1>1, <1>2 DEF SetNext, Registers
<1>5. SetBuf(p, words) => buf' \in [Party -> Vector]
  BY <1>2 DEF SetBuf
<1> QED
  BY <1>3, <1>4, <1>5

(* The words of the shared generators.                                     *)
LEMMA DrawsTyped ==
    ASSUME TypeOK, NEW p \in Party
    PROVE  /\ drawn[p].prev \in Nat /\ drawn[p].next \in Nat
           /\ \A k \in Nat : FromNext(p, k) \in Polynomial /\ FromPrev(p, k) \in Polynomial
<1>1. drawn[p].prev \in Nat /\ drawn[p].next \in Nat
  BY TypeIs DEF Draws
<1>2. prev_party(p) \in Party
  BY Ring
<1> QED
  BY <1>1, <1>2, AtomFacts DEF FromNext, FromPrev

(* Drawing moves a party along its generators.                             *)
LEMMA DrewTyped ==
    ASSUME TypeOK, NEW p \in Party
    PROVE  /\ Drew(p, "prev") => drawn' \in Draws
           /\ Drew(p, "next") => drawn' \in Draws
           /\ \A n \in Nat : drawn' = [drawn EXCEPT ![p] = [prev |-> @.prev + n, next |-> @.next + n]]
                               => drawn' \in Draws
<1>1. drawn \in Draws /\ NumWords \in Nat
  BY TypeIs, Rep3Assumption
<1>2. Drew(p, "prev") => drawn' \in Draws
  BY <1>1 DEF Drew, Draws
<1>3. Drew(p, "next") => drawn' \in Draws
  BY <1>1 DEF Drew, Draws
<1>4. ASSUME NEW n \in Nat, drawn' = [drawn EXCEPT ![p] = [prev |-> @.prev + n, next |-> @.next + n]]
      PROVE  drawn' \in Draws
  <2>1. [prev |-> drawn[p].prev + n, next |-> drawn[p].next + n] \in [prev : Nat, next : Nat]
    BY DrawsTyped
  <2> QED
    BY <1>1, <1>4, <2>1 DEF Draws
<1> QED
  BY <1>2, <1>3, <1>4

(* The word-wise operations of the arrays.                                 *)
LEMMA WordsTyped ==
    ASSUME NEW x \in Vector, NEW y \in Vector
    PROVE  /\ XorWords(x, y) \in Vector /\ Permuted(x) \in Vector
           /\ \A do : MaskedWords(do, x) \in Vector
           /\ \A k \in Word : \A z \in Polynomial : [x EXCEPT ![k] = z] \in Vector
<1>1. \A k \in Word : x[k] \in Polynomial /\ y[k] \in Polynomial
  BY DEF Vector
<1>2. XorWords(x, y) \in Vector
  BY <1>1, PolynomialFacts DEF XorWords, Vector
<1>3. Permuted(x) \in Vector
  <2>1. \A k \in Word : NumWords + 1 - k \in Word
    BY Rep3Assumption DEF Word
  <2> QED
    BY <1>1, <2>1 DEF Permuted, Vector
<1>4. ASSUME NEW do PROVE MaskedWords(do, x) \in Vector
  <2>1. \A k \in Word : MaskedWords(do, x)[k] \in Polynomial
    BY <1>1, PolynomialFacts DEF MaskedWords
  <2>2. MaskedWords(do, x) = [k \in Word |-> MaskedWords(do, x)[k]]
    BY DEF MaskedWords
  <2> QED
    BY <2>1, <2>2 DEF Vector
<1>5. \A k \in Word : \A z \in Polynomial : [x EXCEPT ![k] = z] \in Vector
  BY DEF Vector
<1> QED
  BY <1>2, <1>3, <1>4, <1>5

(* The share of a product.                                                 *)
LEMMA ProductsTyped ==
    ASSUME NEW a \in Polynomial, NEW b \in Polynomial, NEW c \in Polynomial, NEW d \in Polynomial
    PROVE  Products([prev |-> a, next |-> b], [prev |-> c, next |-> d]) \in Polynomial
<1>1. (a (.) d) \in Polynomial /\ (c (.) b) \in Polynomial /\ (a (.) c) \in Polynomial
  BY PolynomialFacts
<1>2. ((a (.) d) (+) (c (.) b)) (+) (a (.) c) \in Polynomial
  BY <1>1, PolynomialFacts
<1> QED
  BY <1>2 DEF Products

(* A chunk of the zero-sum generator starts inside what is drawn.          *)
LEMMA ZeroSumTyped ==
    ASSUME TypeOK, NEW p \in Party, NEW j \in Nat, NEW n \in Nat, j =< n, NEW old \in Polynomial
    PROVE  ZeroSumWord(p, j, n, old) \in Polynomial
<1> DEFINE k == ((n - j) \div ZsprgBuf) * ZsprgBuf + j
<1>1. ZsprgBuf \in Nat /\ ZsprgBuf >= 1
  BY Rep3Assumption
<1>2. k \in Nat
  <2> DEFINE m == n - j
             d == m \div ZsprgBuf
  <2>1. m \in Nat
    OBVIOUS
  <2> HIDE DEF m
  <2>2. d \in Nat
    BY <1>1, <2>1
  <2> HIDE DEF d
  <2>3. d * ZsprgBuf \in Nat
    BY <1>1, <2>2
  <2>4. d * ZsprgBuf + j \in Nat
    BY <2>3
  <2> QED
    BY <2>4 DEF d, m
<1>3. FromPrev(p, k) \in Polynomial /\ FromNext(p, k) \in Polynomial
  BY <1>2, DrawsTyped
<1>4. FromPrev(p, k) (+) FromNext(p, k) \in Polynomial
  BY <1>3, PolynomialFacts
<1> QED
  BY <1>4 DEF ZeroSumWord

(* The words a send step and a receive step deal with.                     *)
LEMMA NowWord ==
    ASSUME TypeOK, NEW p \in Party, NEW whats, At(p, whats)
    PROVE  /\ Now(p).lo \in Word /\ Now(p).hi \in Word /\ Now(p).lo =< Now(p).hi
           /\ Now(p).lo \in Nat /\ Now(p).hi \in Nat
BY AtFacts DEF StepRecord, Word

(* What is sent is a word.                                                 *)
LEMMA SentTyped ==
    ASSUME TypeOK, NEW p \in Party, Send(p)
    PROVE  SentWord(p) \in Polynomial
<1>1. At(p, Sending)
  BY DEF Send, Sending
<1>2. Now(p).do \in Sending /\ Now(p).lo \in Word /\ Reg(p) \in Register
  BY <1>1, AtFacts, NowWord, OperationFacts
<1>3. /\ NextShare(p)[Now(p).lo] \in Polynomial /\ PrevShare(p)[Now(p).lo] \in Polynomial
      /\ buf[p][Now(p).lo] \in Polynomial
  BY <1>2, SharesTyped DEF NextShare, PrevShare
<1> QED
  BY <1>2, <1>3 DEF SentWord, Sending

(* Sending keeps the types.                                                *)
LEMMA TypeSend ==
    ASSUME TypeOK, NEW p \in Party, Send(p)
    PROVE  TypeOK'
<1> DEFINE q == next_party(p)
           m == [word |-> SentWord(p), op |-> pos[p], index |-> Now(p).lo]
<1>1. At(p, Sending) /\ Advance(p) /\ stream' = [stream EXCEPT ![q] = Append(@, m)]
      /\ UNCHANGED <<prev, next, buf, drawn, public>>
  BY DEF Send, Sending, local
<1>2. Control'
  BY <1>1, ControlAdvance
<1>3. m \in Message
  <2>1. Running(p) /\ Now(p).lo \in Word /\ pos[p] \in 1 .. NumOps
    BY <1>1, AtFacts, NowWord, RunningFacts
  <2> QED
    BY <2>1, SentTyped DEF Message
<1>4. stream' \in Streams
  <2>1. q \in Party /\ stream \in Streams
    BY Ring, TypeIs
  <2> HIDE DEF m, q
  <2> QED
    BY <1>1, <1>3, <2>1 DEF Streams
<1> QED
  BY <1>1, <1>2, <1>4, TypeIs

(* So does receiving.                                                      *)
LEMMA TypeRecv ==
    ASSUME TypeOK, NEW p \in Party, Recv(p)
    PROVE  TypeOK'
<1> DEFINE k == Now(p).lo
           w == Head(stream[p]).word
<1>1. At(p, Receiving) /\ Advance(p) /\ stream[p] # <<>> /\ stream' = [stream EXCEPT ![p] = Tail(@)]
      /\ UNCHANGED <<next, buf, drawn>>
  BY DEF Recv, AtRecv, Receiving
<1>2. Control'
  BY <1>1, ControlAdvance
<1>3. stream[p] \in Seq(Message)
  BY TypeIs DEF Streams
<1>4. stream' \in Streams
  BY <1>1, <1>3, TypeIs DEF Streams
<1>5. w \in Polynomial /\ k \in Word /\ Running(p) /\ Reg(p) \in Register
  <2>1. Head(stream[p]) \in Message
    BY <1>1, <1>3
  <2> QED
    BY <1>1, <2>1, NowWord, AtFacts, OperationFacts DEF Message
<1>6. PrevShare(p) \in Vector /\ PrevShare(p)[k] \in Polynomial /\ NextShare(p)[k] \in Polynomial
  BY <1>5, SharesTyped DEF PrevShare, NextShare
<1>7. prev \in Registers /\ public \in [Party -> Vector]
  BY TypeIs
<1> HIDE DEF k, w
<1>8. \/ SetPrev(p, [PrevShare(p) EXCEPT ![k] = w]) /\ UNCHANGED public
      \/ SetPrev(p, [PrevShare(p) EXCEPT ![k] = @ (+) w]) /\ UNCHANGED public
      \/ public' = [public EXCEPT ![p][k] = Opened(p, k, w)] /\ UNCHANGED prev
  BY DEF Recv, k, w
<1>9. CASE SetPrev(p, [PrevShare(p) EXCEPT ![k] = w]) /\ UNCHANGED public
  <2>1. [PrevShare(p) EXCEPT ![k] = w] \in Vector
    BY <1>5, <1>6, WordsTyped
  <2> QED
    BY <1>1, <1>2, <1>4, <1>5, <1>7, <1>9, <2>1, SetTyped, TypeIs
<1>10. CASE SetPrev(p, [PrevShare(p) EXCEPT ![k] = @ (+) w]) /\ UNCHANGED public
  <2>1. PrevShare(p)[k] (+) w \in Polynomial
    BY <1>5, <1>6, PolynomialFacts
  <2>2. [PrevShare(p) EXCEPT ![k] = @ (+) w] \in Vector
    BY <1>5, <1>6, <2>1, WordsTyped
  <2> QED
    BY <1>1, <1>2, <1>4, <1>5, <1>7, <1>10, <2>2, SetTyped, TypeIs
<1>11. CASE public' = [public EXCEPT ![p][k] = Opened(p, k, w)] /\ UNCHANGED prev
  <2>1. w (+) PrevShare(p)[k] \in Polynomial
    BY <1>5, <1>6, PolynomialFacts
  <2>2. Opened(p, k, w) \in Polynomial
    BY <1>6, <2>1, PolynomialFacts DEF Opened
  <2>3. public' \in [Party -> Vector]
    BY <1>5, <1>7, <1>11, <2>2 DEF Vector
  <2> QED
    BY <1>1, <1>2, <1>4, <1>7, <1>11, <2>3, TypeIs
<1> QED
  BY <1>8, <1>9, <1>10, <1>11

(* A step that sends and receives nothing.                                 *)
Quiet(p) ==
    \/ ReadSecrets(p) \/ Deal(p) \/ Pad(p) \/ ZeroNext(p) \/ DealXor(p) \/ PadXor(p)
    \/ Take(p) \/ Permute(p) \/ InputPublic(p) \/ FillRandom(p) \/ Mask(p)
    \/ Multiply(p) \/ Choose(p) \/ XorElse(p)

(* A local step leaves the streams alone.                                  *)
LEMMA QuietFacts ==
    ASSUME TypeOK, NEW p \in Party, Quiet(p)
    PROVE  At(p, Local) /\ Advance(p) /\ Stay
<1>1. \A whats : At(p, whats) /\ whats \subseteq Local => At(p, Local)
  BY DEF At
<1>2. CASE ReadSecrets(p)
  BY <1>1, <1>2 DEF ReadSecrets, Local
<1>3. CASE Deal(p)
  BY <1>1, <1>3 DEF Deal, Local
<1>4. CASE Pad(p)
  BY <1>1, <1>4 DEF Pad, Local
<1>5. CASE ZeroNext(p)
  BY <1>1, <1>5 DEF ZeroNext, Local
<1>6. CASE DealXor(p)
  BY <1>1, <1>6 DEF DealXor, Local
<1>7. CASE PadXor(p)
  BY <1>1, <1>7 DEF PadXor, Local
<1>8. CASE Take(p)
  BY <1>1, <1>8 DEF Take, Local
<1>9. CASE Permute(p)
  BY <1>1, <1>9 DEF Permute, Local
<1>10. CASE InputPublic(p)
  BY <1>1, <1>10 DEF InputPublic, Local
<1>11. CASE FillRandom(p)
  BY <1>1, <1>11 DEF FillRandom, Local
<1>12. CASE Mask(p)
  BY <1>1, <1>12 DEF Mask, Local
<1>13. CASE Multiply(p)
  BY <1>1, <1>13 DEF Multiply, Local
<1>14. CASE Choose(p)
  BY <1>1, <1>14 DEF Choose, Local
<1>15. CASE XorElse(p)
  BY <1>1, <1>15 DEF XorElse, Local
<1> QED
  BY <1>2, <1>3, <1>4, <1>5, <1>6, <1>7, <1>8, <1>9, <1>10, <1>11, <1>12, <1>13, <1>14, <1>15 DEF Quiet

(* So does every local step: one case per kind.                            *)
LEMMA TypeQuiet ==
    ASSUME TypeOK, NEW p \in Party, Quiet(p)
    PROVE  TypeOK'
<1>1. At(p, Local) /\ Advance(p) /\ UNCHANGED <<public, stream>>
  BY QuietFacts DEF Stay
<1>2. Control' /\ Running(p) /\ Reg(p) \in Register
  BY <1>1, ControlAdvance, AtFacts, OperationFacts
<1>3. /\ prev \in Registers /\ next \in Registers /\ buf \in [Party -> Vector]
      /\ drawn \in Draws /\ public' \in [Party -> Vector] /\ stream' \in Streams
  BY <1>1, TypeIs
<1>4. PrevShare(p) \in Vector /\ NextShare(p) \in Vector /\ buf[p] \in Vector
  BY <1>2, SharesTyped DEF PrevShare, NextShare
<1>5. \A k \in Word : k \in Nat /\ PrevShare(p)[k] \in Polynomial /\ NextShare(p)[k] \in Polynomial
  BY <1>4 DEF Vector, Word
<1> DEFINE fromPrev == [k \in Word |-> FromPrev(p, k)]
           fromNext == [k \in Word |-> FromNext(p, k)]
           secrets == [k \in Word |-> Secret(p, k)]
<1>6. fromPrev \in Vector /\ fromNext \in Vector /\ secrets \in Vector
  BY <1>2, <1>5, DrawsTyped, OperationFacts DEF Vector
<1> HIDE DEF fromPrev, fromNext, secrets
<1> SUFFICES /\ prev' \in Registers /\ next' \in Registers
             /\ buf' \in [Party -> Vector] /\ drawn' \in Draws
  BY <1>2, <1>3, TypeIs
<1>7. CASE ReadSecrets(p)
  BY <1>2, <1>3, <1>6, <1>7, SetTyped DEF ReadSecrets, secrets
<1>8. CASE Deal(p)
  <2>1. XorWords(buf[p], fromPrev) \in Vector
    BY <1>4, <1>6, WordsTyped
  <2>2. SetPrev(p, fromPrev) /\ SetNext(p, XorWords(buf[p], fromPrev)) /\ Drew(p, "prev") /\ UNCHANGED buf
    BY <1>8 DEF Deal, fromPrev
  <2> QED
    BY <1>2, <1>3, <1>6, <2>1, <2>2, SetTyped, DrewTyped
<1>9. CASE Pad(p)
  <2>1. SetPrev(p, Zeros) /\ SetNext(p, fromNext) /\ Drew(p, "next") /\ UNCHANGED buf
    BY <1>9 DEF Pad, fromNext
  <2> QED
    BY <1>2, <1>3, <1>6, <2>1, ZerosTyped, SetTyped, DrewTyped
<1>10. CASE ZeroNext(p)
  BY <1>2, <1>3, <1>10, ZerosTyped, SetTyped DEF ZeroNext
<1>11. CASE DealXor(p)
  <2> DEFINE diff == XorWords(buf[p], fromPrev)
             x == XorWords(PrevShare(p), fromPrev)
             y == XorWords(NextShare(p), diff)
  <2>1. diff \in Vector /\ x \in Vector
    BY <1>4, <1>6, WordsTyped
  <2>2. y \in Vector
    BY <1>4, <2>1, WordsTyped
  <2>3. SetPrev(p, x) /\ SetNext(p, y) /\ SetBuf(p, diff) /\ Drew(p, "prev")
    BY <1>11 DEF DealXor, fromPrev
  <2> HIDE DEF diff, x, y
  <2> QED
    BY <1>2, <1>3, <2>1, <2>2, <2>3, SetTyped, DrewTyped
<1>12. CASE PadXor(p)
  <2> DEFINE x == [k \in Word |-> NextShare(p)[k] (+) FromNext(p, k)]
  <2>1. x \in Vector
    BY <1>5, DrawsTyped, PolynomialFacts DEF Vector
  <2>2. SetNext(p, x) /\ Drew(p, "next") /\ UNCHANGED <<prev, buf>>
    BY <1>12 DEF PadXor
  <2> HIDE DEF x
  <2> QED
    BY <1>2, <1>3, <2>1, <2>2, SetTyped, DrewTyped
<1>13. CASE Take(p)
  <2> DEFINE x == CASE Now(p).do = "take_both" -> XorWords(PrevShare(p), NextShare(p))
                    [] Now(p).do = "take_prev" -> PrevShare(p)
                    [] Now(p).do = "take_next" -> NextShare(p)
  <2>1. Now(p).do \in {"take_both", "take_prev", "take_next"}
    BY <1>13, AtFacts DEF Take
  <2>2. x \in Vector
    BY <1>4, <2>1, WordsTyped
  <2>3. SetBuf(p, x) /\ UNCHANGED <<prev, next, drawn>>
    BY <1>13 DEF Take
  <2> HIDE DEF x
  <2> QED
    BY <1>2, <1>3, <2>2, <2>3, SetTyped
<1>14. CASE Permute(p)
  BY <1>2, <1>3, <1>4, <1>14, WordsTyped, SetTyped DEF Permute
<1>15. CASE InputPublic(p)
  <2>1. /\ IF p = 1 THEN SetNext(p, secrets) ELSE UNCHANGED next
        /\ IF p = 2 THEN SetPrev(p, secrets) ELSE UNCHANGED prev
        /\ UNCHANGED <<buf, drawn>>
    BY <1>15 DEF InputPublic, secrets
  <2> QED
    BY <1>2, <1>3, <1>6, <2>1, SetTyped
<1>16. CASE FillRandom(p)
  <2>1. /\ SetPrev(p, fromPrev) /\ SetNext(p, fromNext) /\ UNCHANGED buf
        /\ drawn' = [drawn EXCEPT ![p] = [prev |-> @.prev + NumWords, next |-> @.next + NumWords]]
    BY <1>16 DEF FillRandom, fromPrev, fromNext
  <2> QED
    BY <1>2, <1>3, <1>6, <2>1, WordEnds, SetTyped, DrewTyped
<1>17. CASE Mask(p)
  <2> DEFINE x == MaskedWords(Now(p).do, PrevShare(p))
             y == MaskedWords(Now(p).do, NextShare(p))
  <2>1. x \in Vector /\ y \in Vector
    BY <1>4, WordsTyped
  <2>2. SetPrev(p, x) /\ SetNext(p, y) /\ UNCHANGED <<buf, drawn>>
    BY <1>17 DEF Mask
  <2> HIDE DEF x, y
  <2> QED
    BY <1>2, <1>3, <2>1, <2>2, SetTyped
<1>18. CASE Multiply(p)
  <2> DEFINE lo == Now(p).lo
             hi == Now(p).hi
             n == hi - lo + 1
             x == [k \in Word |-> IF k \in lo .. hi
                                  THEN ZeroSumWord(p, k - lo + 1, n, NextShare(p)[k]) (+) CrossTerms(p, k)
                                  ELSE NextShare(p)[k]]
  <2>1. lo \in Nat /\ hi \in Nat /\ lo =< hi
    BY <1>1, NowWord
  <2>2. SetNext(p, x) /\ UNCHANGED <<prev, buf>>
        /\ drawn' = [drawn EXCEPT ![p] = [prev |-> @.prev + n, next |-> @.next + n]]
    BY <1>18 DEF Multiply
  <2> HIDE DEF lo, hi
  <2>3. n \in Nat
    BY <2>1
  <2>4. ASSUME NEW k \in Word PROVE x[k] \in Polynomial
    <3>1. CASE k \in lo .. hi
      <4>1. k - lo + 1 \in Nat /\ k - lo + 1 =< n
        BY <2>1, <3>1
      <4>2. ZeroSumWord(p, k - lo + 1, n, NextShare(p)[k]) \in Polynomial
        BY <1>5, <2>3, <4>1, ZeroSumTyped
      <4>3. CrossTerms(p, k) \in Polynomial
        <5>1. "a" \in Register /\ "b" \in Register
          BY DEF Register
        <5>2. /\ prev[p]["a"][k] \in Polynomial /\ next[p]["a"][k] \in Polynomial
              /\ prev[p]["b"][k] \in Polynomial /\ next[p]["b"][k] \in Polynomial
          BY <5>1, SharesTyped
        <5> QED
          BY <5>2, ProductsTyped DEF CrossTerms, Shares
      <4>4. ZeroSumWord(p, k - lo + 1, n, NextShare(p)[k]) (+) CrossTerms(p, k) \in Polynomial
        BY <4>2, <4>3, PolynomialFacts
      <4>5. x[k] = ZeroSumWord(p, k - lo + 1, n, NextShare(p)[k]) (+) CrossTerms(p, k)
        BY <3>1
      <4> QED
        BY <4>4, <4>5
    <3>2. CASE k \notin lo .. hi
      BY <1>5, <3>2
    <3> QED
      BY <3>1, <3>2
  <2>5. x \in Vector
    <3>1. x = [k \in Word |-> x[k]]
      OBVIOUS
    <3> HIDE DEF x
    <3> QED
      BY <2>4, <3>1 DEF Vector
  <2> HIDE DEF n, x
  <2> QED
    BY <1>2, <1>3, <2>2, <2>3, <2>5, SetTyped, DrewTyped
<1>19. CASE Choose(p)
  <2> DEFINE z == ZeroSumWord(p, 1, 1, NextShare(p)[1])
             c == Products(Shares(p, "b", 1), ThenXorElse(p))
  <2>1. 1 \in Word
    BY WordEnds
  <2>2. z \in Polynomial
    BY <1>5, <2>1, ZeroSumTyped
  <2>3. "a" \in Register /\ "b" \in Register /\ "c" \in Register
    BY DEF Register
  <2>4. /\ prev[p]["a"][1] (+) prev[p]["c"][1] \in Polynomial
        /\ next[p]["a"][1] (+) next[p]["c"][1] \in Polynomial
        /\ prev[p]["b"][1] \in Polynomial /\ next[p]["b"][1] \in Polynomial
    BY <2>1, <2>3, SharesTyped, PolynomialFacts
  <2>5. c \in Polynomial
    BY <2>4, ProductsTyped DEF Shares, ThenXorElse
  <2>6. SetNext(p, [NextShare(p) EXCEPT ![1] = z (+) c]) /\ UNCHANGED <<prev, buf>>
        /\ drawn' = [drawn EXCEPT ![p] = [prev |-> @.prev + 1, next |-> @.next + 1]]
    BY <1>19 DEF Choose
  <2> HIDE DEF z, c
  <2>7. z (+) c \in Polynomial
    BY <2>2, <2>5, PolynomialFacts
  <2>8. [NextShare(p) EXCEPT ![1] = z (+) c] \in Vector
    BY <1>4, <2>1, <2>7, WordsTyped
  <2> QED
    BY <1>2, <1>3, <2>6, <2>8, SetTyped, DrewTyped
<1>20. CASE XorElse(p)
  <2> DEFINE x == [PrevShare(p) EXCEPT ![1] = @ (+) prev[p]["c"][1]]
             y == [NextShare(p) EXCEPT ![1] = @ (+) next[p]["c"][1]]
  <2>1. 1 \in Word /\ "c" \in Register
    BY WordEnds DEF Register
  <2>2. PrevShare(p)[1] (+) prev[p]["c"][1] \in Polynomial /\ NextShare(p)[1] (+) next[p]["c"][1] \in Polynomial
    BY <1>5, <2>1, SharesTyped, PolynomialFacts
  <2>3. x \in Vector /\ y \in Vector
    BY <1>4, <2>1, <2>2, WordsTyped
  <2>4. SetPrev(p, x) /\ SetNext(p, y) /\ UNCHANGED <<buf, drawn>>
    BY <1>20 DEF XorElse
  <2> HIDE DEF x, y
  <2> QED
    BY <1>2, <1>3, <2>3, <2>4, SetTyped
<1> QED
  BY <1>7, <1>8, <1>9, <1>10, <1>11, <1>12, <1>13, <1>14, <1>15, <1>16, <1>17, <1>18, <1>19, <1>20 DEF Quiet

-----------------------------------------------------------------------------
(* The theorems                                                            *)

LEMMA TypeInit == ASSUME Init PROVE TypeOK
<1>1. NumOps \in Nat \ {0}
  BY Rep3Assumption
<1> DEFINE share(p, r) == IF r \in {"a", "b"} THEN [k \in Word |-> Atom(<<r, p, k>>)] ELSE Zeros
<1>2. \A p \in Party : \A r \in Register : share(p, r) \in Vector
  BY AtomFacts, ZerosTyped DEF Vector
<1>3. next = [p \in Party |-> [r \in Register |-> share(p, r)]]
  BY DEF Init
<1> HIDE DEF share
<1>4. next \in Registers
  BY <1>2, <1>3 DEF Registers
<1>5. prev \in Registers
  <2>1. prev = [p \in Party |-> next[prev_party(p)]]
    BY DEF Init
  <2>2. \A p \in Party : next[prev_party(p)] \in [Register -> Vector]
    BY <1>4, Ring DEF Registers
  <2> QED
    BY <2>1, <2>2 DEF Registers
<1>6. buf \in [Party -> Vector] /\ public \in [Party -> Vector] /\ drawn \in Draws /\ stream \in Streams
  BY ZerosTyped DEF Init, Draws, Streams
<1>7. Control
  <2>1. /\ prog \in [1 .. NumOps -> Operation] /\ pos = [p \in Party |-> 1] /\ step = [p \in Party |-> 1]
    BY DEF Init
  <2>2. pos \in [Party -> 1 .. NumOps + 1] /\ step \in [Party -> Nat \ {0}]
    BY <1>1, <2>1
  <2>3. ASSUME NEW p \in Party PROVE step[p] =< IF Running(p) THEN Len(Steps(prog[pos[p]], p)) + 1 ELSE 1
    <3>1. prog[1] \in Operation
      BY <1>1, <2>1
    <3>2. Steps(prog[1], p) \in Seq(StepRecord)
      BY <3>1, StepsCounted DEF Counted
    <3>3. Len(Steps(prog[1], p)) \in Nat
      BY <3>2
    <3> QED
      BY <2>1, <3>3
  <2> QED
    BY <2>1, <2>2, <2>3 DEF Control
<1> QED
  BY <1>4, <1>5, <1>6, <1>7, TypeIs

(* Nothing has been sent at first.                                         *)
LEMMA FramesInit == ASSUME Init PROVE FramesInOrder
<1>1. ASSUME NEW p \in Party PROVE Sent(p) = 0 /\ Received(p) = 0
  <2>1. pos[p] - 1 = 0 /\ step[p] = 1
    BY <1>1 DEF Init
  <2>2. SoFar(p, Sending) = 0 /\ SoFar(p, Receiving) = 0
    BY <2>1, BeforeSteps DEF SoFar
  <2> QED
    BY <2>1, <2>2, Totals DEF Sent, Received
<1>2. ASSUME NEW p \in Party PROVE OrderedFrom(p)
  <2>1. stream[next_party(p)] = <<>>
    BY Ring DEF Init
  <2> QED
    BY <1>1, <2>1, Ring DEF OrderedFrom
<1> QED
  BY <1>2, OrderedIs

(* The types, and the order of the frames, are kept by every step.         *)
THEOREM FramesInductive == Spec => []Rep3Inv
<1>1. Init => Rep3Inv
  BY TypeInit, FramesInit DEF Rep3Inv
<1>2. Rep3Inv /\ [Next]_vars => Rep3Inv'
  <2> SUFFICES ASSUME TypeOK, FramesInOrder, [Next]_vars PROVE TypeOK' /\ FramesInOrder'
    BY DEF Rep3Inv
  <2>1. CASE Next
    <3>1. PICK p \in Party : Run(p)
      BY <2>1 DEF Next
    <3>2. CASE Quiet(p)
      <4>1. At(p, Local) /\ Advance(p) /\ stream' = stream
        BY <3>2, QuietFacts DEF Stay
      <4> QED
        BY <3>2, <4>1, TypeQuiet, FramesLocal
    <3>3. CASE Send(p)
      BY <3>3, TypeSend, SentTyped, FramesSend
    <3>4. CASE Recv(p)
      BY <3>4, TypeRecv, FramesRecv
    <3>5. CASE Return(p)
      BY <3>5, TypeReturn, FramesReturn
    <3> QED
      BY <3>1, <3>2, <3>3, <3>4, <3>5 DEF Run, Quiet
  <2>2. CASE UNCHANGED vars
    <3>1. /\ prog' = prog /\ pos' = pos /\ step' = step /\ prev' = prev /\ next' = next /\ buf' = buf
          /\ public' = public /\ drawn' = drawn /\ stream' = stream
      BY <2>2 DEF vars
    <3>2. TypeOK'
      BY <3>1 DEF TypeOK, Running
    <3>3. ASSUME NEW p \in Party PROVE OrderedFrom(p)'
      <4>1. \A q : Total(q)' = Total(q)
        BY <3>1, TotalSame
      <4>2. Sent(p)' = Sent(p) /\ Received(next_party(p))' = Received(next_party(p))
        BY <3>1, <4>1 DEF Sent, Received, SoFar, Running
      <4> QED
        BY <3>1, <4>2, OrderedIs, OrderedSame
    <3> QED
      BY <3>2, <3>3, OrderedIs
  <2> QED
    BY <2>1, <2>2
<1> QED
  BY <1>1, <1>2, PTL DEF Spec

(* A party that receives receives the frame it is at.                      *)
LEMMA RightFrame ==
    ASSUME TypeOK, FramesInOrder, NEW p \in Party, AtRecv(p), stream[p] # <<>>
    PROVE  Head(stream[p]).op = pos[p] /\ Head(stream[p]).index = Now(p).lo
<1> DEFINE q == prev_party(p)
           m == Head(stream[p])
<1>1. At(p, Receiving)
  BY DEF AtRecv, Receiving
<1>2. /\ Running(p) /\ Now(p).lo = Before(Mine(p), Receiving, step[p]) + 1
      /\ Now(p).lo =< Frames(prog[pos[p]], q) /\ Now(p).lo \in Nat \ {0}
  BY <1>1, AtFacts, NowWord DEF Word
<1>3. q \in Party /\ next_party(q) = p
  BY Ring
<1>4. stream[p] \in Seq(Message)
  BY TypeIs DEF Streams
<1>5. m \in Message /\ m = stream[p][1] /\ 1 \in 1 .. Len(stream[p])
  BY <1>4
<1>6. m.op \in 1 .. NumOps /\ m.index \in Nat \ {0}
  BY <1>5, Rep3Assumption DEF Message, Word
<1>7. m.index =< Frames(prog[m.op], q) /\ Total(q)[m.op - 1] + m.index = Received(p) + 1
  BY <1>3, <1>5, OrderedIs DEF OrderedFrom
<1>8. Received(p) = Total(q)[pos[p] - 1] + Before(Mine(p), Receiving, step[p])
  BY <1>2 DEF Received, SoFar, Mine
<1>9. pos[p] \in 1 .. NumOps /\ step[p] \in Nat \ {0}
  BY <1>2, RunningFacts
<1>10. Total(q)[pos[p] - 1] \in Nat /\ Before(Mine(p), Receiving, step[p]) \in Nat
  <2>1. pos[p] - 1 \in 0 .. NumOps
    BY <1>9, Rep3Assumption
  <2> QED
    BY <1>9, <2>1, Totals, BeforeSteps
<1>11. Total(q)[m.op - 1] + m.index = Total(q)[pos[p] - 1] + Now(p).lo
  BY <1>2, <1>7, <1>8, <1>10
<1> HIDE DEF q, m
<1>12. m.op = pos[p] /\ m.index = Now(p).lo
  BY <1>2, <1>6, <1>7, <1>9, <1>11, FrameNumbers DEF q
<1> QED
  BY <1>12 DEF m

(* A party that receives a word receives it of the operation and at the    *)
(* index it is at, in every program, whatever the length of the registers, *)
(* the windows and the capacity of the streams, and however far the three  *)
(* parties have drifted apart.                                             *)
THEOREM FramesMatchHolds == Spec => []FramesMatch
<1>1. Rep3Inv => FramesMatch
  BY RightFrame DEF Rep3Inv, FramesMatch
<1> QED
  BY <1>1, FramesInductive, PTL

-----------------------------------------------------------------------------
(* The parties in step                                                     *)

GoodWord == {x \in Polynomial : IsFiniteSet(x)}
GoodRegisters == [Register -> [Word -> GoodWord]]
Globals == [share : [Party -> GoodRegisters], drawn : [Party -> Nat]]

(* Finite polynomials are closed under sum and product.                    *)
LEMMA GoodWords ==
    /\ Zero \in GoodWord /\ One \in GoodWord
    /\ \A b \in Bits : Atom(b) \in GoodWord
    /\ \A x, y \in GoodWord : x (+) y \in GoodWord /\ x (.) y \in GoodWord
<1>1. IsFiniteSet(Zero) /\ IsFiniteSet(One) /\ \A b : IsFiniteSet(Atom(b))
  BY FS_EmptySet, FS_Singleton DEF Zero, One, Atom
<1>2. \A x, y \in GoodWord : IsFiniteSet(x (+) y) /\ IsFiniteSet(x (.) y)
  BY XorFinite, ProductIs DEF GoodWord
<1> QED
  BY <1>1, <1>2, PolynomialFacts DEF GoodWord

(* The bits that the program starts from are finite polynomials.           *)
LEMMA GoodAtoms ==
    /\ \A r \in {"a", "b"} : \A p \in Party : \A k \in Word : Atom(<<r, p, k>>) \in GoodWord
    /\ \A p \in Party : \A n \in Nat : Sample(p, n) \in GoodWord
    /\ \A i \in 1 .. NumOps : \A k \in Word : Atom(<<"secret", i, k>>) \in GoodWord
<1>1. \A r \in {"a", "b"} : \A p \in Party : \A k \in Word : <<r, p, k>> \in Bits
  BY DEF Bits
<1>2. \A p \in Party : \A n \in Nat : <<"prg", p, n>> \in Bits
  BY DEF Bits
<1>3. \A i \in 1 .. NumOps : \A k \in Word : <<"secret", i, k>> \in Bits
  BY DEF Bits
<1> QED
  BY <1>1, <1>2, <1>3, GoodWords DEF Sample

(* Reversing the words of a register twice changes nothing.                *)
LEMMA Mirror ==
    ASSUME NEW k \in Word
    PROVE  NumWords + 1 - k \in Word /\ NumWords + 1 - (NumWords + 1 - k) = k /\ k \in Nat
BY Rep3Assumption DEF Word

(* The words that the parties hold and draw in step.                       *)
LEMMA GlobalWords ==
    ASSUME NEW g \in Globals, NEW p \in Party
    PROVE  /\ \A r \in Register : \A k \in Word : g.share[p][r][k] \in GoodWord
           /\ \A k \in Nat : PadWord(g, p, k) \in GoodWord
           /\ g.drawn[p] \in Nat
<1>1. g.share \in [Party -> GoodRegisters] /\ g.drawn \in [Party -> Nat]
  BY DEF Globals
<1>2. g.share[p] \in [Register -> [Word -> GoodWord]] /\ g.drawn[p] \in Nat
  BY <1>1 DEF GoodRegisters
<1> QED
  BY <1>2, GoodAtoms DEF PadWord

(* What a party computes of a product is a finite polynomial.              *)
LEMMA ProductsGood ==
    ASSUME NEW a \in GoodWord, NEW b \in GoodWord, NEW c \in GoodWord, NEW d \in GoodWord
    PROVE  Products([prev |-> a, next |-> b], [prev |-> c, next |-> d]) \in GoodWord
BY GoodWords DEF Products

(* The words that a party writes first are finite polynomials.             *)
LEMMA FirstGood ==
    ASSUME NEW op \in Operation, NEW i \in 1 .. NumOps, NEW g \in Globals,
           NEW p \in Party, NEW k \in Word
    PROVE  FirstWord(op, i, g, p, k) \in GoodWord
<1> DEFINE q == prev_party(p)
           w == FirstWord(op, i, g, p, k)
<1>1. q \in Party /\ op.reg \in Register /\ k \in Nat /\ NumWords + 1 - k \in Word
  BY Ring, Mirror DEF Operation, Register
<1>2. \A r \in Register : \A j \in Word : g.share[p][r][j] \in GoodWord /\ g.share[q][r][j] \in GoodWord
  BY <1>1, GlobalWords
<1>3. PadWord(g, p, k) \in GoodWord /\ PadWord(g, q, k) \in GoodWord /\ ZeroShare(g, p, k) \in GoodWord
  BY <1>1, GlobalWords, GoodWords DEF ZeroShare
<1>4. Atom(<<"secret", i, k>>) \in GoodWord
  BY GoodAtoms
<1>5. {"a", "b", "c", "d", "e", "f"} \subseteq Register
  BY DEF Register
<1>6. CASE op.kind = "input"
  <2>1. \/ w = Atom(<<"secret", i, k>>) (+) PadWord(g, q, k)
        \/ w = PadWord(g, p, k)
        \/ w = Zero
    BY <1>6 DEF FirstWord
  <2> QED
    BY <1>3, <1>4, <2>1, GoodWords
<1>7. CASE op.kind = "shuffle"
  <2>1. \/ w = Relocated(op, g, p, k) (+) PadWord(g, q, k)
        \/ w = PadWord(g, p, k)
        \/ w = Zero
    BY <1>7 DEF FirstWord
  <2>2. Relocated(op, g, p, k) \in GoodWord
    BY <1>1, <1>2, <1>5, GoodWords DEF Relocated, Taken
  <2> QED
    BY <1>3, <2>1, <2>2, GoodWords
<1>8. CASE op.kind = "mand_gate"
  <2>1. w = ZeroShare(g, p, k) (+) Products(Held(g, p, "a", k), Held(g, p, "b", k))
    BY <1>8 DEF FirstWord
  <2>2. Products(Held(g, p, "a", k), Held(g, p, "b", k)) \in GoodWord
    BY <1>2, <1>5, ProductsGood DEF Held
  <2> QED
    BY <1>3, <2>1, <2>2, GoodWords
<1>9. CASE op.kind = "if_then_else" /\ k = 1
  <2>1. w = ZeroShare(g, p, k) (+) Products(Held(g, p, "b", k), Chosen(g, p, k))
    BY <1>9 DEF FirstWord
  <2>2. Products(Held(g, p, "b", k), Chosen(g, p, k)) \in GoodWord
    BY <1>2, <1>5, ProductsGood, GoodWords DEF Held, Chosen
  <2> QED
    BY <1>3, <2>1, <2>2, GoodWords
<1>10. CASE op.kind = "input_public" /\ p = 1
  BY <1>4, <1>10 DEF FirstWord
<1>11. CASE op.kind = "fill_random"
  BY <1>3, <1>11 DEF FirstWord
<1>12. CASE op.kind \in {"apply_or_mask", "apply_and_mask"}
  <2>1. w = MaskedWords(op.kind, g.share[p]["a"])[k]
    BY <1>12 DEF FirstWord
  <2> QED
    BY <1>2, <1>5, <2>1, GoodWords DEF MaskedWords
<1>13. CASE /\ op.kind \notin {"input", "shuffle", "mand_gate", "fill_random", "apply_or_mask", "apply_and_mask"}
            /\ ~(op.kind = "if_then_else" /\ k = 1) /\ ~(op.kind = "input_public" /\ p = 1)
  <2>1. w = g.share[p][op.reg][k]
    BY <1>13 DEF FirstWord
  <2> QED
    BY <1>1, <1>2, <2>1
<1> QED
  BY <1>6, <1>7, <1>8, <1>9, <1>10, <1>11, <1>12, <1>13

(* The words that an operation leaves are finite polynomials.              *)
LEMMA LastGood ==
    ASSUME NEW op \in Operation, NEW i \in 1 .. NumOps, NEW g \in Globals,
           NEW p \in Party, NEW k \in Word
    PROVE  LastWord(op, i, g, p, k) \in GoodWord
<1> DEFINE q == prev_party(p)
           first == FirstWord(op, i, g, p, k)
           w == LastWord(op, i, g, p, k)
<1>1. q \in Party /\ k \in Nat /\ NumWords + 1 - k \in Word
  BY Ring, Mirror
<1>2. first \in GoodWord /\ PadWord(g, p, k) \in GoodWord /\ PadWord(g, q, k) \in GoodWord
      /\ g.share[p]["c"][k] \in GoodWord
  BY <1>1, FirstGood, GlobalWords DEF Register
<1>3. Difference(op, g, p, k) \in GoodWord
  <2>1. "a" \in Register
    BY DEF Register
  <2>2. Relocated(op, g, p, k) \in GoodWord
    BY <1>1, <2>1, GlobalWords, GoodWords DEF Relocated, Taken
  <2> QED
    BY <1>2, <2>2, GoodWords DEF Difference
<1>4. \/ w = first (+) Difference(op, g, p, k)
      \/ w = first (+) PadWord(g, p, k)
      \/ w = first (+) g.share[p]["c"][k]
      \/ w = first
  <2> HIDE DEF first
  <2> QED
    BY DEF LastWord, first
<1> HIDE DEF first, w
<1> QED
  BY <1>2, <1>3, <1>4, GoodWords DEF w

(* An operation leaves good shares and counts.                             *)
LEMMA EffectTyped ==
    ASSUME NEW op \in Operation, NEW i \in 1 .. NumOps, NEW g \in Globals
    PROVE  Effect(op, i, g) \in Globals
<1> DEFINE e == Effect(op, i, g)
<1>1. \A p \in Party : WordsDrawn(op, p) \in Nat /\ g.drawn[p] \in Nat
  BY GlobalWords, Rep3Assumption DEF WordsDrawn
<1>2. \A p \in Party : \A r \in Register : \A k \in Word :
        (IF r = op.reg THEN LastWord(op, i, g, p, k) ELSE g.share[p][r][k]) \in GoodWord
  BY LastGood, GlobalWords
<1> QED
  BY <1>1, <1>2 DEF Effect, Globals, GoodRegisters

(* So does the start.                                                      *)
LEMMA StartTyped == Start \in Globals
<1>1. \A p \in Party : \A r \in Register :
         (IF r \in {"a", "b"} THEN [k \in Word |-> Atom(<<r, p, k>>)] ELSE Zeros) \in [Word -> GoodWord]
  BY GoodAtoms, GoodWords DEF Zeros
<1> QED
  BY <1>1 DEF Start, Globals, GoodRegisters

IsSync(x) == x = [i \in 0 .. NumOps |-> IF i = 0 THEN Start ELSE Effect(prog[i], i, x[i - 1])]

(* Sync is what its recursion says.                                        *)
LEMMA SyncIs ==
    ASSUME prog \in [1 .. NumOps -> Operation]
    PROVE  /\ \A i \in 0 .. NumOps : Sync[i] \in Globals
           /\ Sync[0] = Start
           /\ \A i \in 1 .. NumOps : Sync[i] = Effect(prog[i], i, Sync[i - 1])
<1> DEFINE h == [i \in 1 .. NumOps |-> [g \in Globals |-> Effect(prog[i], i, g)]]
           N == NumOps
<1>1. N \in Nat
  BY Rep3Assumption
<1>2. \A i \in 1 .. N : \A g \in Globals : h[i][g] = Effect(prog[i], i, g)
  OBVIOUS
<1>3. Stays(Globals, h, N)
  <2> SUFFICES ASSUME NEW i \in 1 .. N, NEW g \in Globals PROVE h[i][g] \in Globals
    BY DEF Stays
  <2>1. prog[i] \in Operation
    OBVIOUS
  <2>2. Effect(prog[i], i, g) \in Globals
    BY <2>1, EffectTyped
  <2> QED
    BY <1>2, <2>2
<1> HIDE DEF h
<1>4. PICK s : Iterates(Globals, Start, h, N, s)
  BY <1>1, <1>3, StartTyped, IterationUpTo
<1>5. /\ \A i \in 0 .. N : s[i] \in Globals
      /\ s[0] = Start /\ \A i \in 1 .. N : s[i] = Effect(prog[i], i, s[i - 1])
  <2>1. \A i \in 1 .. N : i - 1 \in 0 .. N
    BY <1>1
  <2> QED
    BY <1>2, <1>4, <2>1 DEF Iterates
<1>6. \E x : IsSync(x)
  <2> DEFINE x == [i \in 0 .. N |-> s[i]]
  <2>1. \A i \in 0 .. N : x[i] = IF i = 0 THEN Start ELSE Effect(prog[i], i, x[i - 1])
    <3> SUFFICES ASSUME NEW i \in 0 .. N
                 PROVE  x[i] = IF i = 0 THEN Start ELSE Effect(prog[i], i, x[i - 1])
      OBVIOUS
    <3>1. i # 0 => i \in 1 .. N /\ i - 1 \in 0 .. N
      BY <1>1
    <3>2. x[i] = s[i] /\ (i # 0 => x[i - 1] = s[i - 1])
      BY <3>1
    <3> HIDE DEF x
    <3> QED
      BY <1>5, <3>1, <3>2
  <2>2. x = [i \in 0 .. N |-> x[i]]
    OBVIOUS
  <2> HIDE DEF x
  <2>3. IsSync(x)
    BY <2>1, <2>2 DEF IsSync
  <2> QED
    BY <2>3
<1>7. Sync = CHOOSE x : IsSync(x)
  BY Zenon DEF Sync, IsSync
<1>8. IsSync(Sync)
  BY <1>6, <1>7
<1> DEFINE t == Sync
<1> HIDE DEF t
<1>9. \A i \in 0 .. N : t[i] = IF i = 0 THEN Start ELSE Effect(prog[i], i, t[i - 1])
  BY <1>8 DEF IsSync, t
<1>10. t[0] = Start /\ \A i \in 1 .. N : t[i] = Effect(prog[i], i, t[i - 1])
  BY <1>1, <1>9
<1> DEFINE T == {i \in 0 .. N : t[i] \in Globals}
<1>11. 0 \in T
  BY <1>1, <1>10, StartTyped
<1>12. ASSUME NEW i \in 1 .. N, i - 1 \in T PROVE i \in T
  <2>1. t[i - 1] \in Globals /\ prog[i] \in Operation
    BY <1>12
  <2> QED
    BY <1>1, <1>10, <2>1, EffectTyped
<1>13. \A i \in 0 .. N : i \in T
  <2> HIDE DEF T
  <2> QED
    BY <1>1, <1>11, <1>12, InductionUpTo
<1> QED
  BY <1>10, <1>13 DEF t

-----------------------------------------------------------------------------
(* What the operations do to the sum of the shares                         *)

(* The sum of the shares, from where a party stands.                       *)
LEMMA SumIs ==
    ASSUME NEW g, NEW r, NEW k, NEW p \in Party
    PROVE  /\ Sum(g, r, k) = g.share[p][r][k] (+) g.share[next_party(p)][r][k]
                               (+) g.share[prev_party(p)][r][k]
           /\ Sum(g, r, k) = g.share[p][r][k] (+) g.share[prev_party(p)][r][k]
                               (+) g.share[next_party(p)][r][k]
           /\ Sum(g, r, k) = g.share[next_party(p)][r][k] (+) g.share[prev_party(p)][r][k]
                               (+) g.share[p][r][k]
<1> DEFINE x == g.share[1][r][k]
           y == g.share[2][r][k]
           z == g.share[3][r][k]
<1>1. /\ x (+) y (+) z = x (+) z (+) y /\ x (+) y (+) z = y (+) x (+) z
      /\ x (+) y (+) z = y (+) z (+) x /\ x (+) y (+) z = z (+) x (+) y
      /\ x (+) y (+) z = z (+) y (+) x
  <2> HIDE DEF x, y, z
  <2> QED
    BY DEF (+)
<1>2. CASE p = 1
  <2>1. next_party(p) = 2 /\ prev_party(p) = 3
    BY <1>2 DEF next_party, prev_party
  <2> QED
    BY <1>1, <1>2, <2>1 DEF Sum
<1>3. CASE p = 2
  <2>1. next_party(p) = 3 /\ prev_party(p) = 1
    BY <1>3 DEF next_party, prev_party
  <2> QED
    BY <1>1, <1>3, <2>1 DEF Sum
<1>4. CASE p = 3
  <2>1. next_party(p) = 1 /\ prev_party(p) = 2
    BY <1>4 DEF next_party, prev_party
  <2> QED
    BY <1>1, <1>4, <2>1 DEF Sum
<1> QED
  BY <1>2, <1>3, <1>4 DEF Party

(* The three parties' terms make up the whole product.                     *)
LEMMA ProductsSum ==
    ASSUME NEW a \in [1 .. 3 -> GoodWord], NEW b \in [1 .. 3 -> GoodWord]
    PROVE  LET P(q, p) == Products([prev |-> a[q], next |-> a[p]], [prev |-> b[q], next |-> b[p]])
           IN P(3, 1) (+) P(1, 2) (+) P(2, 3) = (a[1] (+) a[2] (+) a[3]) (.) (b[1] (+) b[2] (+) b[3])
<1> DEFINE P(q, p) == Products([prev |-> a[q], next |-> a[p]], [prev |-> b[q], next |-> b[p]])
           t(p, q) == a[p] (.) b[q]
<1>1. \A p \in 1 .. 3 : IsFiniteSet(a[p]) /\ IsFiniteSet(b[p])
  BY DEF GoodWord
<1>2. /\ IsFiniteSet(b[1] (+) b[2]) /\ IsFiniteSet(b[1] (+) b[2] (+) b[3]) /\ IsFiniteSet(a[1] (+) a[2])
  <2>1. IsFiniteSet(b[1] (+) b[2]) /\ IsFiniteSet(a[1] (+) a[2])
    BY <1>1, XorFinite
  <2> QED
    BY <1>1, <2>1, XorFinite
<1>3. ASSUME NEW x, IsFiniteSet(x)
      PROVE  x (.) (b[1] (+) b[2] (+) b[3]) = (x (.) b[1]) (+) (x (.) b[2]) (+) (x (.) b[3])
  BY <1>1, <1>2, <1>3, ProductDistributes
<1>4. (a[1] (+) a[2] (+) a[3]) (.) (b[1] (+) b[2] (+) b[3]) =
         (t(1, 1) (+) t(1, 2) (+) t(1, 3)) (+) (t(2, 1) (+) t(2, 2) (+) t(2, 3))
            (+) (t(3, 1) (+) t(3, 2) (+) t(3, 3))
  <2> DEFINE s == b[1] (+) b[2] (+) b[3]
  <2>1. (a[1] (+) a[2] (+) a[3]) (.) s = (a[1] (.) s) (+) (a[2] (.) s) (+) (a[3] (.) s)
    <3>1. IsFiniteSet(s)
      BY <1>2
    <3> HIDE DEF s
    <3> QED
      BY <1>1, <1>2, <3>1, ProductDistributes
  <2> QED
    BY <1>1, <1>3, <2>1
<1>5. ASSUME NEW p \in 1 .. 3, NEW q \in 1 .. 3
      PROVE  P(q, p) = t(q, p) (+) t(p, q) (+) t(q, q)
  BY <1>1, ProductCommutes DEF Products
<1>6. P(3, 1) (+) P(1, 2) (+) P(2, 3) =
         (t(3, 1) (+) t(1, 3) (+) t(3, 3)) (+) (t(1, 2) (+) t(2, 1) (+) t(1, 1))
            (+) (t(2, 3) (+) t(3, 2) (+) t(2, 2))
  BY <1>5
<1> HIDE DEF t
<1>7. (t(3, 1) (+) t(1, 3) (+) t(3, 3)) (+) (t(1, 2) (+) t(2, 1) (+) t(1, 1))
          (+) (t(2, 3) (+) t(3, 2) (+) t(2, 2))
      = (t(1, 1) (+) t(1, 2) (+) t(1, 3)) (+) (t(2, 1) (+) t(2, 2) (+) t(2, 3))
            (+) (t(3, 1) (+) t(3, 2) (+) t(3, 3))
  BY XorLaws DEF (+)
<1> QED
  BY <1>4, <1>6, <1>7

(* Zeroes shared from the generators cancel.                               *)
LEMMA ZeroSharesCancel ==
    ASSUME NEW x, NEW y, NEW z, NEW u, NEW v, NEW w
    PROVE  ((x (+) y) (+) u) (+) ((y (+) z) (+) v) (+) ((z (+) x) (+) w) = u (+) v (+) w
BY DEF (+)

(* What an operation writes, and for whom it is.                           *)
LEMMA OperationIs ==
    ASSUME NEW op \in Operation
    PROVE  /\ op.reg \in Register
           /\ op.kind \in {"input", "shuffle", "apply_or_mask", "apply_and_mask"} => op.reg = "a"
           /\ op.kind \in {"input", "shuffle", "reveal_to"} => op.party \in Party
           /\ op.kind = "mand_gate" => op.reg = "c"
           /\ op.kind = "if_then_else" => op.reg = "d"
           /\ op.kind = "input_public" => op.reg = "e"
           /\ op.kind = "fill_random" => op.reg = "f"
           /\ op.kind \in {"reveal_to", "reveal_to_all"} => op.reg \in {"a", "c"}
           /\ op.kind \in {"input", "shuffle", "reveal_to", "reveal_to_all", "mand_gate", "if_then_else",
                           "input_public", "fill_random", "apply_or_mask", "apply_and_mask"}
BY DEF Operation, Register

(* An operation in the clear, word by word.                                *)
AfterWord(op, i, clear, k) ==
    CASE op.kind = "input"     -> Atom(<<"secret", i, k>>)
      [] op.kind = "shuffle"   -> clear["a"][NumWords + 1 - k]
      [] op.kind = "mand_gate" -> clear["a"][k] (.) clear["b"][k]
      [] op.kind = "if_then_else" /\ k = 1 ->
            clear["c"][1] (+) (clear["b"][1] (.) (clear["a"][1] (+) clear["c"][1]))
      [] op.kind = "input_public" -> Atom(<<"secret", i, k>>)
      [] op.kind \in {"apply_or_mask", "apply_and_mask"} -> MaskedWords(op.kind, clear["a"])[k]
      [] OTHER                 -> clear[op.reg][k]

(* The program in the clear, word by word.                                 *)
LEMMA AfterIs ==
    ASSUME NEW op \in Operation, NEW i \in 1 .. NumOps, NEW clear \in GoodRegisters,
           NEW r \in Register, NEW k \in Word
    PROVE  After(op, i, clear)[r][k] = IF r = op.reg THEN AfterWord(op, i, clear, k) ELSE clear[r][k]
<1>1. clear \in [Register -> [Word -> GoodWord]] /\ clear[r] \in [Word -> GoodWord]
      /\ clear["a"] \in [Word -> GoodWord] /\ 1 \in Word
  BY WordEnds DEF GoodRegisters, Register
<1>2. CASE op.kind = "input"
  BY <1>1, <1>2, OperationIs DEF After, AfterWord
<1>3. CASE op.kind = "shuffle"
  BY <1>1, <1>3, OperationIs DEF After, AfterWord, Permuted
<1>4. CASE op.kind = "mand_gate"
  BY <1>1, <1>4, OperationIs DEF After, AfterWord
<1>5. CASE op.kind = "if_then_else"
  <2>1. op.reg = "d"
    BY <1>5, OperationIs
  <2> DEFINE w == clear["c"][1] (+) (clear["b"][1] (.) (clear["a"][1] (+) clear["c"][1]))
  <2>2. After(op, i, clear) = [clear EXCEPT !["d"][1] = w]
    BY <1>5 DEF After
  <2>3. k = 1 => AfterWord(op, i, clear, k) = w
    BY <1>5 DEF AfterWord
  <2>4. k # 1 => AfterWord(op, i, clear, k) = clear[op.reg][k]
    BY <1>5 DEF AfterWord
  <2> HIDE DEF w
  <2>5. [clear EXCEPT !["d"][1] = w][r][k] = IF r = "d" /\ k = 1 THEN w ELSE clear[r][k]
    BY <1>1
  <2> QED
    BY <2>1, <2>2, <2>3, <2>4, <2>5
<1>6. CASE op.kind = "input_public"
  BY <1>1, <1>6, OperationIs DEF After, AfterWord
<1>7. CASE op.kind \in {"apply_or_mask", "apply_and_mask"}
  <2>1. op.reg = "a" /\ After(op, i, clear) = [clear EXCEPT !["a"] = MaskedWords(op.kind, clear["a"])]
        /\ AfterWord(op, i, clear, k) = MaskedWords(op.kind, clear["a"])[k]
    BY <1>7, OperationIs DEF After, AfterWord
  <2> QED
    BY <1>1, <2>1
<1>8. CASE op.kind \in {"reveal_to", "reveal_to_all", "fill_random"}
  <2>1. After(op, i, clear) = clear /\ AfterWord(op, i, clear, k) = clear[op.reg][k]
    BY <1>8 DEF After, AfterWord
  <2> QED
    BY <2>1
<1> QED
  BY <1>2, <1>3, <1>4, <1>5, <1>6, <1>7, <1>8, OperationIs

(* Masking is linear in the word.                                          *)
LEMMA MaskedIs ==
    ASSUME NEW do, NEW words, NEW k \in Word
    PROVE  MaskedWords(do, words)[k] =
              IF do = "apply_or_mask" /\ k = 1 THEN One
              ELSE IF do = "apply_and_mask" /\ k # 1 THEN Zero ELSE words[k]
BY DEF MaskedWords

(* Sharings: all but the random register add up to the clear one, and of   *)
(* the public one two shares are never set.                                *)
Sharing(g, clear) ==
    /\ \A k \in Word : g.share[2]["e"][k] = Zero /\ g.share[3]["e"][k] = Zero
    /\ \A r \in Register \ {"f"} : \A k \in Word : Sum(g, r, k) = clear[r][k]

(* What an operation leaves, word by word.                                 *)
LEMMA EffectShare ==
    ASSUME NEW op \in Operation, NEW i, NEW g \in Globals, NEW p \in Party, NEW k \in Word
    PROVE  /\ \A r \in Register : Effect(op, i, g).share[p][r][k] =
                 IF r = op.reg THEN LastWord(op, i, g, p, k) ELSE g.share[p][r][k]
           /\ Effect(op, i, g).drawn[p] = g.drawn[p] + WordsDrawn(op, p)
BY DEF Effect

(* The written register adds up to what is computed in the clear.          *)
LEMMA WrittenSum ==
    ASSUME NEW op \in Operation, NEW i \in 1 .. NumOps, NEW g \in Globals,
           NEW clear \in GoodRegisters, Sharing(g, clear), NEW k \in Word, op.reg # "f"
    PROVE  Sum(Effect(op, i, g), op.reg, k) = AfterWord(op, i, clear, k)
<1> DEFINE h == Effect(op, i, g)
           X(p) == LastWord(op, i, g, p, k)
           S(p) == g.share[p][op.reg][k]
           A(p, j) == g.share[p]["a"][j]
           Z(p) == PadWord(g, p, k)
           secret == Atom(<<"secret", i, k>>)
<1>1. Sum(h, op.reg, k) = X(1) (+) X(2) (+) X(3)
  <2>1. \A p \in Party : h.share[p][op.reg][k] = X(p)
    BY EffectShare, OperationIs
  <2>2. 1 \in Party /\ 2 \in Party /\ 3 \in Party
    BY DEF Party
  <2> HIDE DEF h, X
  <2> QED
    BY <2>1, <2>2 DEF Sum
<1>2. \A p \in Party : Sum(h, op.reg, k) = X(p) (+) X(next_party(p)) (+) X(prev_party(p))
  <2>1. \A p \in Party : h.share[p][op.reg][k] = X(p)
    BY EffectShare, OperationIs
  <2> HIDE DEF h, X
  <2> QED
    BY <2>1, SumIs, Ring
<1>3. \A j \in Word : Sum(g, op.reg, j) = clear[op.reg][j]
  BY OperationIs DEF Sharing
<1>4. "a" \in Register \ {"f"} /\ "b" \in Register \ {"f"} /\ "c" \in Register \ {"f"} /\ "e" \in Register
  BY DEF Register
<1>5. prev_party(1) = 3 /\ prev_party(2) = 1 /\ prev_party(3) = 2
  BY DEF prev_party
<1>6. CASE op.kind = "input"
  <2> DEFINE p == op.party
  <2>1. p \in Party /\ prev_party(p) # p /\ next_party(p) # p /\ next_party(p) # prev_party(p)
    BY <1>6, OperationIs, Ring
  <2>2. /\ X(p) = secret (+) Z(prev_party(p))
        /\ X(prev_party(p)) = Z(prev_party(p))
        /\ X(next_party(p)) = Zero
    BY <1>6, <2>1 DEF LastWord, FirstWord
  <2>3. AfterWord(op, i, clear, k) = secret
    BY <1>6 DEF AfterWord
  <2> HIDE DEF X, secret, Z
  <2>4. \A x, y : (x (+) y) (+) Zero (+) y = x
    BY DEF (+), Zero
  <2> QED
    BY <1>2, <2>1, <2>2, <2>3, <2>4
<1>7. CASE op.kind = "shuffle"
  <2> DEFINE p == op.party
             j == NumWords + 1 - k
  <2>1. /\ p \in Party /\ prev_party(p) # p /\ next_party(p) # p /\ next_party(p) # prev_party(p)
        /\ prev_party(next_party(p)) = p
    BY <1>7, OperationIs, Ring
  <2>2. /\ X(p) = Z(p) (+) ((A(prev_party(p), j) (+) A(p, j)) (+) Z(prev_party(p)))
        /\ X(prev_party(p)) = Zero (+) Z(prev_party(p))
        /\ X(next_party(p)) = A(next_party(p), j) (+) Z(p)
    BY <1>7, <2>1 DEF LastWord, FirstWord, Difference, Relocated, Taken
  <2>3. AfterWord(op, i, clear, k) = clear["a"][j]
    BY <1>7 DEF AfterWord
  <2>4. j \in Word /\ op.reg = "a"
    BY <1>7, Mirror, OperationIs
  <2>5. clear["a"][j] = A(p, j) (+) A(next_party(p), j) (+) A(prev_party(p), j)
    BY <1>3, <2>1, <2>4, SumIs
  <2> HIDE DEF X, Z, A
  <2>6. \A x, y, z, u, v : (u (+) ((z (+) x) (+) v)) (+) (y (+) u) (+) (Zero (+) v) = x (+) y (+) z
    BY DEF (+), Zero
  <2> QED
    BY <1>2, <2>1, <2>2, <2>3, <2>5, <2>6
<1>8. CASE op.kind = "mand_gate"
  <2> DEFINE a == [p \in 1 .. 3 |-> g.share[p]["a"][k]]
             b == [p \in 1 .. 3 |-> g.share[p]["b"][k]]
             P(q, p) == Products([prev |-> a[q], next |-> a[p]], [prev |-> b[q], next |-> b[p]])
  <2>1. a \in [1 .. 3 -> GoodWord] /\ b \in [1 .. 3 -> GoodWord]
    BY <1>4, GlobalWords DEF Party
  <2>2. P(3, 1) (+) P(1, 2) (+) P(2, 3) = (a[1] (+) a[2] (+) a[3]) (.) (b[1] (+) b[2] (+) b[3])
    BY <2>1, ProductsSum
  <2>3. /\ X(1) = (Z(3) (+) Z(1)) (+) P(3, 1)
        /\ X(2) = (Z(1) (+) Z(2)) (+) P(1, 2)
        /\ X(3) = (Z(2) (+) Z(3)) (+) P(2, 3)
    BY <1>5, <1>8 DEF LastWord, FirstWord, ZeroShare, Held
  <2>4. AfterWord(op, i, clear, k) = clear["a"][k] (.) clear["b"][k]
    BY <1>8 DEF AfterWord
  <2>5. clear["a"][k] = a[1] (+) a[2] (+) a[3] /\ clear["b"][k] = b[1] (+) b[2] (+) b[3]
    BY <1>4 DEF Sharing, Sum
  <2> HIDE DEF X, Z, P, a, b
  <2>6. X(1) (+) X(2) (+) X(3) = P(3, 1) (+) P(1, 2) (+) P(2, 3)
    BY <2>3, ZeroSharesCancel
  <2> QED
    BY <1>1, <2>2, <2>4, <2>5, <2>6
<1>9. CASE op.kind = "if_then_else" /\ k = 1
  <2> DEFINE ac == [p \in 1 .. 3 |-> g.share[p]["a"][1] (+) g.share[p]["c"][1]]
             b == [p \in 1 .. 3 |-> g.share[p]["b"][1]]
             C(p) == g.share[p]["c"][1]
             P(q, p) == Products([prev |-> b[q], next |-> b[p]], [prev |-> ac[q], next |-> ac[p]])
  <2>1. ac \in [1 .. 3 -> GoodWord] /\ b \in [1 .. 3 -> GoodWord]
    BY <1>4, GlobalWords, GoodWords, WordEnds DEF Party
  <2>2. P(3, 1) (+) P(1, 2) (+) P(2, 3) = (b[1] (+) b[2] (+) b[3]) (.) (ac[1] (+) ac[2] (+) ac[3])
    BY <2>1, ProductsSum
  <2>3. /\ X(1) = ((Z(3) (+) Z(1)) (+) P(3, 1)) (+) C(1)
        /\ X(2) = ((Z(1) (+) Z(2)) (+) P(1, 2)) (+) C(2)
        /\ X(3) = ((Z(2) (+) Z(3)) (+) P(2, 3)) (+) C(3)
    BY <1>5, <1>9 DEF LastWord, FirstWord, ZeroShare, Held, Chosen
  <2>4. AfterWord(op, i, clear, k) =
            clear["c"][1] (+) (clear["b"][1] (.) (clear["a"][1] (+) clear["c"][1]))
    BY <1>9 DEF AfterWord
  <2>5. /\ clear["a"][1] (+) clear["c"][1] = ac[1] (+) ac[2] (+) ac[3]
        /\ clear["b"][1] = b[1] (+) b[2] (+) b[3]
        /\ clear["c"][1] = C(1) (+) C(2) (+) C(3)
    <3>1. /\ clear["a"][1] = A(1, 1) (+) A(2, 1) (+) A(3, 1)
          /\ clear["b"][1] = b[1] (+) b[2] (+) b[3]
          /\ clear["c"][1] = C(1) (+) C(2) (+) C(3)
      BY <1>4, WordEnds DEF Sharing, Sum
    <3>2. \A x, y, z, u, v, w :
             (x (+) y (+) z) (+) (u (+) v (+) w) = (x (+) u) (+) (y (+) v) (+) (z (+) w)
      BY DEF (+)
    <3> QED
      BY <3>1, <3>2
  <2> HIDE DEF X, Z, P, ac, b, C
  <2>6. \A x, y, z, u, v, w, c, d, e :
            (((x (+) y) (+) u) (+) c) (+) (((y (+) z) (+) v) (+) d) (+) (((z (+) x) (+) w) (+) e)
               = (c (+) d (+) e) (+) (u (+) v (+) w)
    BY DEF (+)
  <2>7. X(1) (+) X(2) (+) X(3) = (C(1) (+) C(2) (+) C(3)) (+) (P(3, 1) (+) P(1, 2) (+) P(2, 3))
    BY <2>3, <2>6
  <2> QED
    BY <1>1, <2>2, <2>4, <2>5, <2>7
<1>10. CASE op.kind = "input_public"
  <2>1. X(1) = secret /\ X(2) = Zero /\ X(3) = Zero
    <3>1. op.reg = "e" /\ g.share[2]["e"][k] = Zero /\ g.share[3]["e"][k] = Zero
      BY <1>10, OperationIs DEF Sharing
    <3> QED
      BY <1>10, <3>1 DEF LastWord, FirstWord
  <2>2. AfterWord(op, i, clear, k) = secret
    BY <1>10 DEF AfterWord
  <2> HIDE DEF X, secret
  <2> QED
    BY <1>1, <2>1, <2>2, XorLaws
<1>11. CASE op.kind \in {"apply_or_mask", "apply_and_mask"}
  <2>1. \A p \in Party : X(p) = MaskedWords(op.kind, g.share[p]["a"])[k]
    BY <1>11 DEF LastWord, FirstWord
  <2>2. AfterWord(op, i, clear, k) = MaskedWords(op.kind, clear["a"])[k]
    BY <1>11 DEF AfterWord
  <2>3. clear["a"][k] = A(1, k) (+) A(2, k) (+) A(3, k)
    BY <1>4 DEF Sharing, Sum
  <2>4. One (+) One (+) One = One /\ Zero (+) Zero (+) Zero = Zero
    BY XorLaws
  <2>5. 1 \in Party /\ 2 \in Party /\ 3 \in Party
    BY DEF Party
  <2> HIDE DEF X
  <2> QED
    BY <1>1, <2>1, <2>2, <2>3, <2>4, <2>5, MaskedIs
<1>12. CASE op.kind \in {"reveal_to", "reveal_to_all"} \/ (op.kind = "if_then_else" /\ k # 1)
  <2>1. \A p \in Party : X(p) = S(p)
    BY <1>12 DEF LastWord, FirstWord
  <2>2. AfterWord(op, i, clear, k) = clear[op.reg][k]
    BY <1>12 DEF AfterWord
  <2>3. 1 \in Party /\ 2 \in Party /\ 3 \in Party
    BY DEF Party
  <2>4. clear[op.reg][k] = S(1) (+) S(2) (+) S(3)
    BY <1>3 DEF Sum
  <2> HIDE DEF X, S
  <2> QED
    BY <1>1, <2>1, <2>2, <2>3, <2>4
<1> QED
  BY <1>6, <1>7, <1>8, <1>9, <1>10, <1>11, <1>12, OperationIs

(* Sharings stay sharings.                                                 *)
LEMMA EffectShares ==
    ASSUME NEW op \in Operation, NEW i \in 1 .. NumOps, NEW g \in Globals,
           NEW clear \in GoodRegisters, Sharing(g, clear)
    PROVE  Sharing(Effect(op, i, g), After(op, i, clear))
<1> DEFINE h == Effect(op, i, g)
<1>1. ASSUME NEW p \in {2, 3}, NEW k \in Word PROVE h.share[p]["e"][k] = Zero
  <2>1. p \in Party /\ "e" \in Register /\ g.share[p]["e"][k] = Zero /\ p # 1
    BY DEF Party, Register, Sharing
  <2>2. op.reg = "e" => op.kind = "input_public"
    BY OperationIs
  <2>3. op.kind = "input_public" => LastWord(op, i, g, p, k) = g.share[p][op.reg][k]
    BY <2>1 DEF LastWord, FirstWord
  <2> QED
    BY <2>1, <2>2, <2>3, EffectShare
<1>2. ASSUME NEW r \in Register \ {"f"}, NEW k \in Word PROVE Sum(h, r, k) = After(op, i, clear)[r][k]
  <2>1. CASE r = op.reg
    BY <2>1, AfterIs, WrittenSum
  <2>2. CASE r # op.reg
    <3>1. \A p \in Party : h.share[p][r][k] = g.share[p][r][k]
      BY <2>2, EffectShare
    <3>2. Sum(h, r, k) = Sum(g, r, k)
      <4>1. 1 \in Party /\ 2 \in Party /\ 3 \in Party
        BY DEF Party
      <4> HIDE DEF h
      <4> QED
        BY <3>1, <4>1 DEF Sum
    <3>3. After(op, i, clear)[r][k] = clear[r][k]
      BY <2>2, AfterIs
    <3> QED
      BY <3>2, <3>3 DEF Sharing
  <2> QED
    BY <2>1, <2>2
<1> HIDE DEF h
<1>3. \A k \in Word : h.share[2]["e"][k] = Zero /\ h.share[3]["e"][k] = Zero
  BY <1>1
<1> QED
  BY <1>2, <1>3 DEF Sharing, h

(* An operation in the clear leaves good words.                            *)
LEMMA AfterTyped ==
    ASSUME NEW op \in Operation, NEW i \in 1 .. NumOps, NEW clear \in GoodRegisters
    PROVE  After(op, i, clear) \in GoodRegisters
<1>1. clear \in [Register -> [Word -> GoodWord]] /\ clear["a"] \in [Word -> GoodWord]
      /\ clear["b"] \in [Word -> GoodWord] /\ clear["c"] \in [Word -> GoodWord]
      /\ clear["d"] \in [Word -> GoodWord] /\ 1 \in Word
  BY WordEnds DEF GoodRegisters, Register
<1>2. \A k \in Word : Atom(<<"secret", i, k>>) \in GoodWord
  BY GoodAtoms
<1>3. CASE op.kind = "input"
  BY <1>1, <1>2, <1>3 DEF After, GoodRegisters
<1>4. CASE op.kind = "shuffle"
  <2>1. Permuted(clear["a"]) \in [Word -> GoodWord]
    BY <1>1, Mirror DEF Permuted
  <2>2. After(op, i, clear) = [clear EXCEPT !["a"] = Permuted(clear["a"])]
    BY <1>4 DEF After
  <2> QED
    BY <1>1, <2>1, <2>2 DEF GoodRegisters
<1>5. CASE op.kind = "mand_gate"
  <2>1. [k \in Word |-> clear["a"][k] (.) clear["b"][k]] \in [Word -> GoodWord]
    BY <1>1, GoodWords
  <2> QED
    BY <1>1, <1>5, <2>1 DEF After, GoodRegisters
<1>6. CASE op.kind = "if_then_else"
  <2> DEFINE w == clear["c"][1] (+) (clear["b"][1] (.) (clear["a"][1] (+) clear["c"][1]))
  <2>1. After(op, i, clear) = [clear EXCEPT !["d"][1] = w]
    BY <1>6 DEF After
  <2>2. w \in GoodWord
    BY <1>1, GoodWords
  <2> HIDE DEF w
  <2>3. [clear["d"] EXCEPT ![1] = w] \in [Word -> GoodWord]
    BY <1>1, <2>2
  <2>4. After(op, i, clear) = [clear EXCEPT !["d"] = [clear["d"] EXCEPT ![1] = w]]
    BY <1>1, <2>1
  <2> QED
    BY <1>1, <2>3, <2>4 DEF GoodRegisters
<1>7. CASE op.kind = "input_public"
  BY <1>1, <1>2, <1>7 DEF After, GoodRegisters
<1>8. CASE op.kind \in {"apply_or_mask", "apply_and_mask"}
  <2>1. MaskedWords(op.kind, clear["a"]) \in [Word -> GoodWord]
    BY <1>1, GoodWords DEF MaskedWords
  <2>2. After(op, i, clear) = [clear EXCEPT !["a"] = MaskedWords(op.kind, clear["a"])]
    BY <1>8 DEF After
  <2> QED
    BY <1>1, <2>1, <2>2 DEF GoodRegisters
<1>9. CASE op.kind \in {"reveal_to", "reveal_to_all", "fill_random"}
  BY <1>9 DEF After
<1> QED
  BY <1>3, <1>4, <1>5, <1>6, <1>7, <1>8, <1>9, OperationIs

Inputs == [r \in Register |-> IF r \in {"a", "b"} THEN [k \in Word |-> Shared(r, k)] ELSE Zeros]

(* The inputs are good words.                                              *)
LEMMA InputsTyped == Inputs \in GoodRegisters
<1>1. 1 \in Party /\ 2 \in Party /\ 3 \in Party
  BY DEF Party
<1>2. \A r \in {"a", "b"} : \A k \in Word : Shared(r, k) \in GoodWord
  BY <1>1, GoodAtoms, GoodWords DEF Shared
<1> QED
  BY <1>2, GoodWords DEF Inputs, GoodRegisters, Zeros

IsClear(x) == x = [i \in 0 .. NumOps |-> IF i = 0 THEN Inputs ELSE After(prog[i], i, x[i - 1])]

(* Clear is what its recursion says.                                       *)
LEMMA ClearIs ==
    ASSUME prog \in [1 .. NumOps -> Operation]
    PROVE  /\ \A i \in 0 .. NumOps : Clear[i] \in GoodRegisters
           /\ Clear[0] = Inputs
           /\ \A i \in 1 .. NumOps : Clear[i] = After(prog[i], i, Clear[i - 1])
<1> DEFINE h == [i \in 1 .. NumOps |-> [c \in GoodRegisters |-> After(prog[i], i, c)]]
           N == NumOps
<1>1. N \in Nat
  BY Rep3Assumption
<1>2. \A i \in 1 .. N : \A c \in GoodRegisters : h[i][c] = After(prog[i], i, c)
  OBVIOUS
<1>3. Stays(GoodRegisters, h, N)
  <2> SUFFICES ASSUME NEW i \in 1 .. N, NEW c \in GoodRegisters PROVE h[i][c] \in GoodRegisters
    BY DEF Stays
  <2>1. prog[i] \in Operation
    OBVIOUS
  <2>2. After(prog[i], i, c) \in GoodRegisters
    BY <2>1, AfterTyped
  <2> QED
    BY <1>2, <2>2
<1> HIDE DEF h
<1>4. PICK s : Iterates(GoodRegisters, Inputs, h, N, s)
  BY <1>1, <1>3, InputsTyped, IterationUpTo
<1>5. /\ s[0] = Inputs /\ \A i \in 1 .. N : s[i] = After(prog[i], i, s[i - 1])
  <2>1. \A i \in 1 .. N : i - 1 \in 0 .. N
    BY <1>1
  <2> QED
    BY <1>2, <1>4, <2>1 DEF Iterates
<1>6. \E x : IsClear(x)
  <2> DEFINE x == [i \in 0 .. N |-> s[i]]
  <2>1. \A i \in 0 .. N : x[i] = IF i = 0 THEN Inputs ELSE After(prog[i], i, x[i - 1])
    <3> SUFFICES ASSUME NEW i \in 0 .. N
                 PROVE  x[i] = IF i = 0 THEN Inputs ELSE After(prog[i], i, x[i - 1])
      OBVIOUS
    <3>1. i # 0 => i \in 1 .. N /\ i - 1 \in 0 .. N
      BY <1>1
    <3>2. x[i] = s[i] /\ (i # 0 => x[i - 1] = s[i - 1])
      BY <3>1
    <3> HIDE DEF x
    <3> QED
      BY <1>5, <3>1, <3>2
  <2>2. x = [i \in 0 .. N |-> x[i]]
    OBVIOUS
  <2> HIDE DEF x
  <2>3. IsClear(x)
    BY <2>1, <2>2 DEF IsClear
  <2> QED
    BY <2>3
<1>7. Clear = CHOOSE x : IsClear(x)
  BY Zenon DEF Clear, IsClear, Inputs
<1>8. IsClear(Clear)
  BY <1>6, <1>7
<1> DEFINE t == Clear
<1> HIDE DEF t
<1>9. \A i \in 0 .. N : t[i] = IF i = 0 THEN Inputs ELSE After(prog[i], i, t[i - 1])
  BY <1>8 DEF IsClear, t
<1>10. t[0] = Inputs /\ \A i \in 1 .. N : t[i] = After(prog[i], i, t[i - 1])
  BY <1>1, <1>9
<1> DEFINE T == {i \in 0 .. N : t[i] \in GoodRegisters}
<1>11. 0 \in T
  BY <1>1, <1>10, InputsTyped
<1>12. ASSUME NEW i \in 1 .. N, i - 1 \in T PROVE i \in T
  <2>1. t[i - 1] \in GoodRegisters /\ prog[i] \in Operation
    BY <1>12
  <2> QED
    BY <1>1, <1>10, <2>1, AfterTyped
<1>13. \A i \in 0 .. N : i \in T
  <2> HIDE DEF T
  <2> QED
    BY <1>1, <1>11, <1>12, InductionUpTo
<1> QED
  BY <1>10, <1>13 DEF t

(* In step, the parties always hold sharings of what is computed in the    *)
(* clear.                                                                  *)
LEMMA SyncShares ==
    ASSUME prog \in [1 .. NumOps -> Operation]
    PROVE  \A i \in 0 .. NumOps : Sharing(Sync[i], Clear[i])
<1> DEFINE T == {i \in 0 .. NumOps : Sharing(Sync[i], Clear[i])}
<1>1. NumOps \in Nat
  BY Rep3Assumption
<1>2. 0 \in T
  <2>1. 1 \in Party /\ 2 \in Party /\ 3 \in Party /\ "e" \in Register
    BY DEF Party, Register
  <2>2. ASSUME NEW p \in Party, NEW r \in Register, NEW k \in Word
        PROVE  Start.share[p][r][k] = IF r \in {"a", "b"} THEN Atom(<<r, p, k>>) ELSE Zero
    BY DEF Start, Zeros
  <2>3. ASSUME NEW r \in Register, NEW k \in Word
        PROVE  Inputs[r][k] = IF r \in {"a", "b"} THEN Shared(r, k) ELSE Zero
    BY DEF Inputs, Zeros
  <2>4. ASSUME NEW r \in Register, NEW k \in Word PROVE Sum(Start, r, k) = Inputs[r][k]
    <3>1. Zero (+) Zero (+) Zero = Zero
      BY XorLaws
    <3> DEFINE w(p) == IF r \in {"a", "b"} THEN Atom(<<r, p, k>>) ELSE Zero
    <3>2. Start.share[1][r][k] = w(1) /\ Start.share[2][r][k] = w(2) /\ Start.share[3][r][k] = w(3)
      BY <2>1, <2>2
    <3>3. w(1) (+) w(2) (+) w(3) = IF r \in {"a", "b"} THEN Shared(r, k) ELSE Zero
      BY <3>1 DEF Shared
    <3>4. Sum(Start, r, k) = w(1) (+) w(2) (+) w(3)
      <4> HIDE DEF w
      <4> QED
        BY <3>2 DEF Sum
    <3> QED
      BY <2>3, <3>3, <3>4
  <2>5. Sharing(Start, Inputs)
    <3>1. "e" \notin {"a", "b"}
      OBVIOUS
    <3>2. ASSUME NEW p \in Party, NEW k \in Word PROVE Start.share[p]["e"][k] = Zero
      BY <2>1, <3>1 DEF Start, Zeros
    <3>3. \A k \in Word : Start.share[2]["e"][k] = Zero /\ Start.share[3]["e"][k] = Zero
      BY <2>1, <3>2
    <3> QED
      BY <2>4, <3>3 DEF Sharing
  <2>6. Sync[0] = Start /\ Clear[0] = Inputs
    BY SyncIs, ClearIs
  <2> QED
    BY <1>1, <2>5, <2>6
<1>3. ASSUME NEW i \in 1 .. NumOps, i - 1 \in T PROVE i \in T
  <2>1. i - 1 \in 0 .. NumOps /\ prog[i] \in Operation
    BY <1>1
  <2>2. Sync[i - 1] \in Globals /\ Clear[i - 1] \in GoodRegisters /\ Sharing(Sync[i - 1], Clear[i - 1])
    BY <1>3, <2>1, SyncIs, ClearIs
  <2>3. Sync[i] = Effect(prog[i], i, Sync[i - 1]) /\ Clear[i] = After(prog[i], i, Clear[i - 1])
    BY SyncIs, ClearIs
  <2>4. Sharing(Effect(prog[i], i, Sync[i - 1]), After(prog[i], i, Clear[i - 1]))
    BY <2>1, <2>2, EffectShares
  <2> QED
    BY <1>1, <2>3, <2>4
<1> HIDE DEF T
<1>4. \A i \in 0 .. NumOps : i \in T
  BY <1>1, <1>2, <1>3, InductionUpTo
<1> QED
  BY <1>4 DEF T

-----------------------------------------------------------------------------
(* What a party has done before a step                                     *)

StepOf(what, lo, hi) == [do |-> what, lo |-> lo, hi |-> hi]

(* A step of its own.                                                      *)
LEMMA DoIs ==
    ASSUME NEW what \in What, NEW lo \in Word, NEW hi \in Word, lo =< hi
    PROVE  /\ Do(what, lo, hi) \in Seq(StepRecord) /\ Len(Do(what, lo, hi)) = 1
           /\ Do(what, lo, hi)[1] = StepOf(what, lo, hi)
BY DoSteps DEF Do, StepOf

(* A loop of steps, one per word.                                          *)
LEMMA EachIs ==
    ASSUME NEW what \in What, NEW lo \in Word, NEW hi \in Word, lo =< hi
    PROVE  /\ Each(what, lo, hi) \in Seq(StepRecord) /\ Len(Each(what, lo, hi)) = hi - lo + 1
           /\ \A j \in 1 .. hi - lo + 1 : Each(what, lo, hi)[j] = StepOf(what, lo + j - 1, hi)
BY EachSteps DEF Each, StepOf

(* The loops over all the words.                                           *)
LEMMA WholeIs ==
    ASSUME NEW what \in What
    PROVE  /\ Do(what, 1, NumWords) \in Seq(StepRecord) /\ Len(Do(what, 1, NumWords)) = 1
           /\ Do(what, 1, NumWords)[1] = StepOf(what, 1, NumWords)
           /\ Each(what, 1, NumWords) \in Seq(StepRecord) /\ Len(Each(what, 1, NumWords)) = NumWords
           /\ \A j \in 1 .. NumWords : Each(what, 1, NumWords)[j] = StepOf(what, j, NumWords)
<1>1. 1 \in Word /\ NumWords \in Word /\ 1 =< NumWords /\ NumWords \in Nat
  BY WordEnds
<1>2. NumWords - 1 + 1 = NumWords /\ \A j \in 1 .. NumWords : 1 + j - 1 = j
  BY <1>1
<1>3. /\ Do(what, 1, NumWords) \in Seq(StepRecord) /\ Len(Do(what, 1, NumWords)) = 1
      /\ Do(what, 1, NumWords)[1] = StepOf(what, 1, NumWords)
  BY <1>1, DoIs
<1>4. /\ Each(what, 1, NumWords) \in Seq(StepRecord) /\ Len(Each(what, 1, NumWords)) = NumWords - 1 + 1
      /\ \A j \in 1 .. NumWords - 1 + 1 : Each(what, 1, NumWords)[j] = StepOf(what, 1 + j - 1, NumWords)
  BY <1>1, EachIs
<1>5. \A j \in 1 .. NumWords : Each(what, 1, NumWords)[j] = StepOf(what, j, NumWords)
  BY <1>2, <1>4
<1> QED
  BY <1>2, <1>3, <1>4, <1>5

(* Two lists of steps, one after the other.                                *)
LEMMA JoinIs ==
    ASSUME NEW x \in Seq(StepRecord), NEW y \in Seq(StepRecord)
    PROVE  /\ x \o y \in Seq(StepRecord) /\ Len(x \o y) = Len(x) + Len(y)
           /\ Len(x) \in Nat /\ Len(y) \in Nat
           /\ \A j \in 1 .. Len(x) : (x \o y)[j] = x[j]
           /\ \A j \in 1 .. Len(y) : (x \o y)[Len(x) + j] = y[j]
OBVIOUS

(* Nothing is done by steps of another kind.                               *)
LEMMA DidEmpty ==
    ASSUME NEW steps, NEW s, NEW whats, \A j \in 1 .. s - 1 : steps[j].do \notin whats
    PROVE  Did(steps, s, whats) = {}
BY DEF Did

(* All is done by a step on the whole register.                            *)
LEMMA DidFull ==
    ASSUME NEW steps, NEW s, NEW whats, NEW j \in 1 .. s - 1, NEW what \in Local,
           steps[j] = StepOf(what, 1, NumWords), what \in whats
    PROVE  Did(steps, s, whats) = Word
<1>1. Span(steps[j]) = Word /\ steps[j].do \in whats
  BY Kinds DEF Span, StepOf, Word
<1> QED
  BY <1>1 DEF Did

(* One step more.                                                          *)
LEMMA DidNext ==
    ASSUME NEW steps \in Seq(StepRecord), NEW s \in 1 .. Len(steps), NEW whats
    PROVE  /\ Span(steps[s]) \subseteq Word
           /\ Did(steps, s + 1, whats) =
                IF steps[s].do \in whats THEN Did(steps, s, whats) \cup Span(steps[s])
                                         ELSE Did(steps, s, whats)
<1>1. steps[s] \in StepRecord
  OBVIOUS
<1>2. Span(steps[s]) \subseteq Word
  <2>1. /\ steps[s].lo \in Word
        /\ steps[s].hi \in Word
    BY <1>1 DEF StepRecord
  <2>2. \A a \in Word, b \in Word : {a} \subseteq Word /\ a .. b \subseteq Word
    BY Rep3Assumption DEF Word
  <2> QED
    BY <2>1, <2>2 DEF Span
<1>3. 1 .. (s + 1) - 1 = (1 .. s - 1) \cup {s}
  BY DEF Word
<1>4. \A k : k \in Did(steps, s + 1, whats) <=>
               k \in Word /\ \E j \in (1 .. s - 1) \cup {s} : steps[j].do \in whats /\ k \in Span(steps[j])
  BY <1>3 DEF Did
<1>5. \A k : k \in Did(steps, s, whats) <=>
               k \in Word /\ \E j \in 1 .. s - 1 : steps[j].do \in whats /\ k \in Span(steps[j])
  BY DEF Did
<1> QED
  BY <1>2, <1>4, <1>5

(* What a step finds done, and by whom it is made.                         *)
Ready(op, p, steps, s) ==
    LET e == steps[s]
        D(whats) == Did(steps, s, whats)
    IN /\ e.do \in WritesNext \cup WritesPrev => D(RewritesNext) = {} /\ D(RewritesPrev) = {}
       /\ e.do \in DrawsNext => D(DrawsNext) = 1 .. e.lo - 1
       /\ e.do \in DrawsPrev => D(DrawsPrev) = 1 .. e.lo - 1
       /\ e.do \in Local \ {"multiply", "choose", "xor_else"} => e.lo = 1 /\ e.hi = NumWords
       /\ e.do \in Once \ {"deal", "pad"} => op.kind = e.do
       /\ e.do \in {"apply_or_mask", "apply_and_mask"} => \A whats : D(whats) = {}
       /\ e.do = "secrets" => op.kind = "input" /\ D(Takes) = {}
       /\ e.do = "deal" =>
             \/ op.kind = "input" /\ p = op.party /\ D({"secrets"}) = Word
             \/ /\ op.kind = "shuffle" /\ p = next_party(op.party) /\ D(Takes) = Word
                /\ D({"permute"}) = Word /\ D({"deal_xor"}) = {}
       /\ e.do = "pad" => \/ op.kind = "input" /\ p = prev_party(op.party)
                          \/ op.kind = "shuffle" /\ p = op.party
       /\ e.do = "zero_next" => \/ op.kind = "input" /\ p = next_party(op.party)
                                \/ op.kind = "shuffle" /\ p = prev_party(op.party)
       /\ e.do \in Takes => /\ op.kind = "shuffle" /\ \A whats : D(whats) = {}
                            /\ \/ e.do = "take_both" /\ p = op.party
                               \/ e.do = "take_next" /\ p = next_party(op.party)
       /\ e.do = "permute" => /\ op.kind = "shuffle" /\ D(Takes) = Word /\ D({"permute"}) = {}
                              /\ D({"deal_xor"}) = {} /\ D({"secrets"}) = {}
       /\ e.do = "deal_xor" => /\ op.kind = "shuffle" /\ p = op.party
                               /\ D(Takes) = Word /\ D({"permute"}) = Word /\ D({"deal_xor"}) = {}
                               /\ D({"secrets"}) = {} /\ D(WritesNext) = Word /\ D(WritesPrev) = Word
                               /\ D(RewritesNext) = {} /\ D(RewritesPrev) = {}
       /\ e.do = "pad_xor" => /\ op.kind = "shuffle" /\ p = prev_party(op.party)
                              /\ D(WritesNext) = Word /\ D(RewritesNext) = {}
       /\ e.do = "multiply" => op.kind = "mand_gate" /\ e.hi - e.lo + 1 =< MandWindow
       /\ e.do = "choose" => op.kind = "if_then_else" /\ e.lo = 1 /\ e.hi = 1
       /\ e.do = "xor_else" => /\ op.kind = "if_then_else" /\ e.lo = 1 /\ e.hi = 1
                               /\ 1 \in D(WritesNext) /\ 1 \in D(WritesPrev)
                               /\ D(RewritesNext) = {} /\ D(RewritesPrev) = {}
       /\ e.do = "send_next" => /\ \/ op.kind \in {"input", "mand_gate", "if_then_else"}
                                   \/ op.kind = "shuffle" /\ p # op.party
                                /\ e.lo \in D(WritesNext) /\ D(RewritesNext) = {}
       /\ e.do = "send_prev" => op.kind \in {"reveal_to", "reveal_to_all"}
       /\ e.do = "send_buf" => op.kind = "shuffle" /\ p = op.party /\ D(Takes) = Word /\ D({"deal_xor"}) = Word
       /\ e.do = "recv_prev" => \/ op.kind \in {"input", "mand_gate", "if_then_else"}
                                \/ op.kind = "shuffle" /\ p = prev_party(op.party)
       /\ e.do = "recv_prev_xor" => /\ op.kind = "shuffle" /\ p = next_party(op.party)
                                    /\ D(WritesPrev) = Word /\ e.lo \notin D(RewritesPrev)
       /\ e.do = "recv_public" => RevealedTo(op, p)

(* What is done in the end, by a set of steps that write and one that      *)
(* write again: all words in the second way, or in the first.              *)
Settled(op, i, g, p, writes, rewrites) ==
    \A k \in Word :
        \/ k \in rewrites
        \/ k \in writes /\ LastWord(op, i, g, p, k) = FirstWord(op, i, g, p, k)
        \/ k \notin writes /\ LastWord(op, i, g, p, k) = g.share[p][op.reg][k]

Final(op, p, steps) ==
    LET F(whats) == Did(steps, Len(steps) + 1, whats)
    IN /\ \A i, g : /\ Settled(op, i, g, p, F(WritesNext), F(RewritesNext))
                    /\ Settled(op, i, g, prev_party(p), F(WritesPrev), F(RewritesPrev))
       /\ Cardinality(F(DrawsNext)) = WordsDrawn(op, p)
       /\ Cardinality(F(DrawsPrev)) = WordsDrawn(op, prev_party(p))
       /\ RevealedTo(op, p) => F({"recv_public"}) = Word

Orderly(op, p) ==
    LET steps == Steps(op, p)
    IN /\ steps \in Seq(StepRecord) /\ \A s \in 1 .. Len(steps) : Ready(op, p, steps, s)
       /\ Final(op, p, steps)

(* Sizes of sets of words.                                                 *)
LEMMA Sizes == Cardinality(Word) = NumWords /\ Cardinality({}) = 0 /\ Cardinality({1}) = 1
<1>1. Cardinality(1 .. NumWords) = NumWords
  BY WordEnds, FS_Interval
<1> QED
  BY <1>1, FS_EmptySet, FS_Singleton DEF Word

(* The fields of a step.                                                   *)
LEMMA StepFields ==
    ASSUME NEW what, NEW lo, NEW hi
    PROVE  /\ StepOf(what, lo, hi).do = what /\ StepOf(what, lo, hi).lo = lo
           /\ StepOf(what, lo, hi).hi = hi
BY DEF StepOf

(* Three lists, in either way.                                             *)
LEMMA JoinAssociative ==
    ASSUME NEW x \in Seq(StepRecord), NEW y \in Seq(StepRecord), NEW z \in Seq(StepRecord)
    PROVE  x \o (y \o z) = (x \o y) \o z
OBVIOUS

(* What is done in the first of two lists is done in both.                 *)
LEMMA DidJoin ==
    ASSUME NEW x \in Seq(StepRecord), NEW y \in Seq(StepRecord), NEW whats
    PROVE  /\ \A s \in 1 .. Len(x) + 1 : Did(x \o y, s, whats) = Did(x, s, whats)
           /\ \A s \in 1 .. Len(y) + 1 :
                 Did(x \o y, Len(x) + s, whats) = Did(x, Len(x) + 1, whats) \cup Did(y, s, whats)
<1> DEFINE z == x \o y
<1>1. /\ Len(x) \in Nat /\ Len(y) \in Nat
      /\ \A j \in 1 .. Len(x) : z[j] = x[j]
      /\ \A j \in 1 .. Len(y) : z[Len(x) + j] = y[j]
  BY JoinIs
<1> HIDE DEF z
<1>2. ASSUME NEW s \in 1 .. Len(x) + 1 PROVE Did(z, s, whats) = Did(x, s, whats)
  <2>1. \A j \in 1 .. s - 1 : z[j] = x[j]
    BY <1>1
  <2> QED
    BY <2>1 DEF Did
<1>3. ASSUME NEW s \in 1 .. Len(y) + 1
      PROVE  Did(z, Len(x) + s, whats) = Did(x, Len(x) + 1, whats) \cup Did(y, s, whats)
  <2>1. ASSUME NEW k \in Word, NEW j \in 1 .. Len(x) + s - 1,
               z[j].do \in whats, k \in Span(z[j])
        PROVE  k \in Did(x, Len(x) + 1, whats) \cup Did(y, s, whats)
    <3>1. CASE j \in 1 .. Len(x)
      <4>1. z[j] = x[j] /\ j \in 1 .. (Len(x) + 1) - 1
        BY <1>1, <3>1
      <4> QED
        BY <2>1, <4>1 DEF Did
    <3>2. CASE j \notin 1 .. Len(x)
      <4>1. j - Len(x) \in 1 .. s - 1 /\ j - Len(x) \in 1 .. Len(y) /\ Len(x) + (j - Len(x)) = j
        BY <1>1, <3>2
      <4>2. z[j] = y[j - Len(x)]
        BY <1>1, <4>1
      <4> QED
        BY <2>1, <4>1, <4>2 DEF Did
    <3> QED
      BY <3>1, <3>2
  <2>2. ASSUME NEW k \in Did(x, Len(x) + 1, whats) PROVE k \in Did(z, Len(x) + s, whats)
    <3>1. PICK j \in 1 .. (Len(x) + 1) - 1 : x[j].do \in whats /\ k \in Span(x[j])
      BY DEF Did
    <3>2. j \in 1 .. (Len(x) + s) - 1 /\ z[j] = x[j] /\ k \in Word
      BY <1>1, <3>1 DEF Did
    <3> QED
      BY <3>1, <3>2 DEF Did
  <2>3. ASSUME NEW k \in Did(y, s, whats) PROVE k \in Did(z, Len(x) + s, whats)
    <3>1. PICK j \in 1 .. s - 1 : y[j].do \in whats /\ k \in Span(y[j])
      BY DEF Did
    <3>2. Len(x) + j \in 1 .. (Len(x) + s) - 1 /\ z[Len(x) + j] = y[j] /\ k \in Word
      BY <1>1, <3>1 DEF Did
    <3> QED
      BY <3>1, <3>2 DEF Did
  <2>4. \A k : k \in Did(z, Len(x) + s, whats) => k \in Did(x, Len(x) + 1, whats) \cup Did(y, s, whats)
    BY <2>1 DEF Did
  <2> QED
    BY <2>2, <2>3, <2>4
<1> QED
  BY <1>2, <1>3 DEF z

(* The steps of a Do, and of an Each that sends or receives.               *)
LEMMA DidDo ==
    ASSUME NEW what \in Local, NEW lo \in Word, NEW hi \in Word, lo =< hi, NEW whats
    PROVE  /\ Did(Do(what, lo, hi), 1, whats) = {}
           /\ Did(Do(what, lo, hi), 2, whats) = IF what \in whats THEN lo .. hi ELSE {}
<1>1. what \in What /\ what \notin Sending /\ what \notin Receiving
  BY Kinds
<1>2. Do(what, lo, hi)[1] = StepOf(what, lo, hi)
  BY <1>1, DoIs
<1>3. Do(what, lo, hi)[1].do = what /\ Span(Do(what, lo, hi)[1]) = lo .. hi
  BY <1>1, <1>2, StepFields DEF Span
<1>4. lo .. hi \subseteq Word
  BY Rep3Assumption DEF Word
<1>5. 1 .. 1 - 1 = {} /\ 1 .. 2 - 1 = {1}
  OBVIOUS
<1> QED
  BY <1>3, <1>4, <1>5 DEF Did

(* What is done within a loop.                                             *)
LEMMA DidEach ==
    ASSUME NEW what \in Sending \cup Receiving, NEW lo \in Word, NEW hi \in Word, lo =< hi, NEW whats
    PROVE  \A s \in 1 .. hi - lo + 2 :
              Did(Each(what, lo, hi), s, whats) = IF what \in whats THEN lo .. lo + s - 2 ELSE {}
<1> SUFFICES ASSUME NEW s \in 1 .. hi - lo + 2
             PROVE  Did(Each(what, lo, hi), s, whats) = IF what \in whats THEN lo .. lo + s - 2 ELSE {}
  OBVIOUS
<1> DEFINE e == Each(what, lo, hi)
<1>1. what \in What /\ lo \in Nat /\ hi \in Nat /\ lo >= 1 /\ hi =< NumWords /\ NumWords \in Nat
  BY Kinds, Rep3Assumption DEF Word
<1>2. \A j \in 1 .. hi - lo + 1 : e[j] = StepOf(what, lo + j - 1, hi)
  BY <1>1, EachIs
<1> HIDE DEF e
<1>3. \A j \in 1 .. s - 1 : e[j].do = what /\ Span(e[j]) = {lo + j - 1}
  <2>1. \A j \in 1 .. s - 1 : j \in 1 .. hi - lo + 1
    BY <1>1
  <2> QED
    BY <1>2, <2>1, StepFields DEF Span
<1>4. \A k : k \in Did(e, s, whats) <=> k \in Word /\ \E j \in 1 .. s - 1 : what \in whats /\ k = lo + j - 1
  BY <1>3 DEF Did
<1>5. ASSUME NEW k PROVE (k \in Word /\ \E j \in 1 .. s - 1 : k = lo + j - 1) <=> k \in lo .. lo + s - 2
  <2>1. ASSUME NEW j \in 1 .. s - 1, k = lo + j - 1 PROVE k \in lo .. lo + s - 2
    BY <1>1, <2>1
  <2>2. ASSUME k \in lo .. lo + s - 2 PROVE k \in Word /\ \E j \in 1 .. s - 1 : k = lo + j - 1
    <3>1. k \in Int /\ k - lo + 1 \in 1 .. s - 1 /\ k = lo + (k - lo + 1) - 1 /\ k \in Word
      BY <1>1, <2>2 DEF Word
    <3> QED
      BY <3>1
  <2> QED
    BY <2>1, <2>2
<1> QED
  BY <1>4, <1>5 DEF e

(* Steps that follow a script: whole loops and steps on all words.         *)
Place(steps, w, s, t) ==
    /\ steps[s].do = w[t]
    /\ w[t] \in Local => steps[s].lo = 1 /\ steps[s].hi = NumWords
    /\ \A whats : \A u \in 1 .. t - 1 : w[u] \in whats => Did(steps, s, whats) = Word
    /\ \A whats : (\A u \in 1 .. t - 1 : w[u] \notin whats) =>
          /\ steps[s].lo \notin Did(steps, s, whats)
          /\ w[t] \in Local \/ w[t] \notin whats => Did(steps, s, whats) = {}

Script(steps, n, w) ==
    /\ steps \in Seq(StepRecord)
    /\ \A s \in 1 .. Len(steps) : \E t \in 1 .. n : Place(steps, w, s, t)
    /\ \A whats : Did(steps, Len(steps) + 1, whats) =
                    IF \E u \in 1 .. n : w[u] \in whats THEN Word ELSE {}

(* The step or the loop of a kind.                                         *)
Part(what) == IF what \in Local THEN Do(what, 1, NumWords) ELSE Each(what, 1, NumWords)

(* What is done within a part.                                             *)
LEMMA DidPart ==
    ASSUME NEW what \in What
    PROVE  /\ Part(what) \in Seq(StepRecord) /\ Len(Part(what)) \in Nat
           /\ \A j \in 1 .. Len(Part(what)) :
                 /\ Part(what)[j] \in StepRecord /\ Part(what)[j].do = what
                 /\ what \in Local => Part(what)[j].lo = 1 /\ Part(what)[j].hi = NumWords
                 /\ \A whats : /\ Part(what)[j].lo \notin Did(Part(what), j, whats)
                               /\ what \in Local \/ what \notin whats => Did(Part(what), j, whats) = {}
           /\ \A whats : Did(Part(what), Len(Part(what)) + 1, whats) = IF what \in whats THEN Word ELSE {}
<1> DEFINE d == Part(what)
<1>0. 1 \in Word /\ NumWords \in Word /\ 1 =< NumWords /\ NumWords \in Nat
  BY WordEnds
<1>1. CASE what \in Local
  <2>1. d = Do(what, 1, NumWords)
    BY <1>1 DEF Part
  <2>2. d \in Seq(StepRecord) /\ Len(d) = 1 /\ d[1] = StepOf(what, 1, NumWords)
    BY <2>1, WholeIs
  <2>3. \A whats : Did(d, 1, whats) = {} /\ Did(d, 2, whats) = IF what \in whats THEN Word ELSE {}
    BY <1>0, <1>1, <2>1, DidDo DEF Word
  <2> HIDE DEF d
  <2> QED
    BY <2>2, <2>3, StepFields DEF d
<1>2. CASE what \notin Local
  <2>1. d = Each(what, 1, NumWords) /\ what \in Sending \cup Receiving
    BY <1>2 DEF Part, What
  <2>2. /\ d \in Seq(StepRecord) /\ Len(d) = NumWords
        /\ \A j \in 1 .. NumWords : d[j] = StepOf(what, j, NumWords)
    BY <2>1, WholeIs
  <2>3. \A whats : \A s \in 1 .. NumWords + 1 :
            Did(d, s, whats) = IF what \in whats THEN 1 .. s - 1 ELSE {}
    <3>1. NumWords - 1 + 2 = NumWords + 1 /\ \A s \in 1 .. NumWords + 1 : 1 + s - 2 = s - 1
      BY <1>0
    <3> QED
      BY <1>0, <2>1, <3>1, DidEach
  <2> HIDE DEF d
  <2>4. ASSUME NEW j \in 1 .. Len(d)
        PROVE  /\ d[j] \in StepRecord /\ d[j].do = what
               /\ \A whats : /\ d[j].lo \notin Did(d, j, whats)
                             /\ what \notin whats => Did(d, j, whats) = {}
    <3>1. j \in 1 .. NumWords + 1 /\ j \notin 1 .. j - 1
      BY <1>0, <2>2
    <3>2. d[j].do = what /\ d[j].lo = j /\ d[j] \in StepRecord
      BY <2>2, StepFields
    <3> QED
      BY <2>3, <3>1, <3>2
  <2>5. \A whats : Did(d, Len(d) + 1, whats) = IF what \in whats THEN Word ELSE {}
    <3>1. NumWords + 1 \in 1 .. NumWords + 1 /\ 1 .. (NumWords + 1) - 1 = Word
      BY <1>0 DEF Word
    <3> QED
      BY <2>2, <2>3, <3>1
  <2> QED
    BY <1>0, <1>2, <2>2, <2>4, <2>5 DEF d
<1> QED
  BY <1>1, <1>2

(* The empty script.                                                       *)
LEMMA ScriptStart ==
    ASSUME NEW w
    PROVE  Script(Nothing, 0, w)
<1>1. \A whats : Did(Nothing, 1, whats) = {}
  BY DidEmpty
<1> QED
  BY <1>1 DEF Script, Nothing

(* A script and one part more.                                             *)
LEMMA ScriptThen ==
    ASSUME NEW x, NEW n \in Nat, NEW w, NEW what \in What, w[n + 1] = what, Script(x, n, w)
    PROVE  Script(x \o Part(what), n + 1, w)
<1> DEFINE d == Part(what)
           z == x \o d
<1>1. x \in Seq(StepRecord) /\ d \in Seq(StepRecord)
  BY DidPart DEF Script
<1>3. /\ z \in Seq(StepRecord) /\ Len(z) = Len(x) + Len(d) /\ Len(x) \in Nat /\ Len(d) \in Nat
      /\ \A j \in 1 .. Len(x) : z[j] = x[j]
      /\ \A j \in 1 .. Len(d) : z[Len(x) + j] = d[j]
  BY <1>1, JoinIs
<1>4. \A whats : /\ \A s \in 1 .. Len(x) + 1 : Did(z, s, whats) = Did(x, s, whats)
                 /\ \A s \in 1 .. Len(d) + 1 :
                       Did(z, Len(x) + s, whats) = Did(x, Len(x) + 1, whats) \cup Did(d, s, whats)
  BY <1>1, DidJoin
<1>5. \A whats : Did(x, Len(x) + 1, whats) = IF \E u \in 1 .. n : w[u] \in whats THEN Word ELSE {}
  BY DEF Script
<1> HIDE DEF z, d
<1>6. ASSUME NEW s \in 1 .. Len(x) PROVE \E t \in 1 .. n + 1 : Place(z, w, s, t)
  <2>1. PICK t \in 1 .. n : Place(x, w, s, t)
    BY DEF Script
  <2>2. z[s] = x[s] /\ \A whats : Did(z, s, whats) = Did(x, s, whats)
    <3>1. s \in 1 .. Len(x) + 1 /\ \A u \in 1 .. t - 1 : u \in 1 .. n
      BY <1>1, <1>3
    <3> QED
      BY <1>3, <1>4, <3>1
  <2>3. Place(z, w, s, t)
    BY <2>1, <2>2 DEF Place
  <2>4. t \in 1 .. n + 1
    BY <1>1
  <2> QED
    BY <2>3, <2>4
<1>7. ASSUME NEW j \in 1 .. Len(d) PROVE Place(z, w, Len(x) + j, n + 1)
  <2> DEFINE s == Len(x) + j
  <2>1. z[s] = d[j] /\ d[j].do = what /\ (what \in Local => d[j].lo = 1 /\ d[j].hi = NumWords)
        /\ d[j].lo \in Word
    <3>1. /\ d[j] \in StepRecord /\ d[j].do = what
          /\ what \in Local => d[j].lo = 1 /\ d[j].hi = NumWords
      BY DidPart DEF d
    <3>2. z[s] = d[j]
      BY <1>3
    <3> QED
      BY <3>1, <3>2 DEF StepRecord
  <2>2. \A whats : Did(z, s, whats) = Did(x, Len(x) + 1, whats) \cup Did(d, j, whats)
    <3>1. j \in 1 .. Len(d) + 1
      BY <1>3
    <3> QED
      BY <1>4, <3>1
  <2>3. \A whats : Did(d, j, whats) \subseteq Word
    BY DEF Did
  <2>4. \A whats : d[j].lo \notin Did(d, j, whats) /\ (what \in Local \/ what \notin whats => Did(d, j, whats) = {})
    BY DidPart DEF d
  <2>5. (n + 1) - 1 = n
    BY <1>1
  <2> HIDE DEF s
  <2>6. ASSUME NEW whats, NEW u \in 1 .. n, w[u] \in whats PROVE Did(z, s, whats) = Word
    <3>1. Did(x, Len(x) + 1, whats) = Word
      BY <1>5, <2>6
    <3> QED
      BY <2>2, <2>3, <3>1
  <2>7. ASSUME NEW whats, \A u \in 1 .. n : w[u] \notin whats
        PROVE  /\ z[s].lo \notin Did(z, s, whats)
               /\ what \in Local \/ what \notin whats => Did(z, s, whats) = {}
    <3>1. Did(x, Len(x) + 1, whats) = {}
      BY <1>5, <2>7
    <3> QED
      BY <2>1, <2>2, <2>4, <3>1
  <2> QED
    BY <2>1, <2>5, <2>6, <2>7 DEF Place, s
<1>8. ASSUME NEW s \in 1 .. Len(z) PROVE \E t \in 1 .. n + 1 : Place(z, w, s, t)
  <2>1. CASE s \in 1 .. Len(x)
    BY <1>6, <2>1
  <2>2. CASE s \notin 1 .. Len(x)
    <3>1. s - Len(x) \in 1 .. Len(d) /\ Len(x) + (s - Len(x)) = s
      BY <1>3, <2>2
    <3>2. Place(z, w, Len(x) + (s - Len(x)), n + 1)
      BY <1>7, <3>1
    <3>3. n + 1 \in 1 .. n + 1
      BY <1>1
    <3> QED
      BY <3>1, <3>2, <3>3
  <2> QED
    BY <2>1, <2>2
<1>9. ASSUME NEW whats
      PROVE  Did(z, Len(z) + 1, whats) = IF \E u \in 1 .. n + 1 : w[u] \in whats THEN Word ELSE {}
  <2>1. Did(z, Len(x) + (Len(d) + 1), whats) = Did(x, Len(x) + 1, whats) \cup Did(d, Len(d) + 1, whats)
    <3>1. Len(d) + 1 \in 1 .. Len(d) + 1
      BY <1>3
    <3> QED
      BY <1>4, <3>1
  <2>2. Len(x) + (Len(d) + 1) = Len(z) + 1
    BY <1>3
  <2>3. Did(d, Len(d) + 1, whats) = IF what \in whats THEN Word ELSE {}
    BY DidPart DEF d
  <2>4. (\E u \in 1 .. n + 1 : w[u] \in whats) <=> (\E u \in 1 .. n : w[u] \in whats) \/ what \in whats
    <3>1. 1 .. n + 1 = (1 .. n) \cup {n + 1}
      BY <1>1
    <3> QED
      BY <3>1
  <2>5. Did(z, Len(z) + 1, whats) = Did(x, Len(x) + 1, whats) \cup Did(d, Len(d) + 1, whats)
    BY <2>1, <2>2
  <2>6. Did(x, Len(x) + 1, whats) = IF \E u \in 1 .. n : w[u] \in whats THEN Word ELSE {}
    BY <1>5
  <2>7. CASE what \in whats
    <3>1. Did(d, Len(d) + 1, whats) = Word
      BY <2>3, <2>7
    <3>2. Did(x, Len(x) + 1, whats) \subseteq Word
      BY DEF Did
    <3> QED
      BY <2>4, <2>5, <2>7, <3>1, <3>2
  <2>8. CASE what \notin whats
    <3>1. Did(d, Len(d) + 1, whats) = {}
      BY <2>3, <2>8
    <3>2. Did(z, Len(z) + 1, whats) = Did(x, Len(x) + 1, whats)
      BY <2>5, <3>1
    <3>3. CASE \E u \in 1 .. n : w[u] \in whats
      BY <2>4, <2>6, <3>2, <3>3
    <3>4. CASE ~\E u \in 1 .. n : w[u] \in whats
      BY <2>4, <2>6, <2>8, <3>2, <3>4
    <3> QED
      BY <3>3, <3>4
  <2> QED
    BY <2>7, <2>8
<1> QED
  BY <1>3, <1>8, <1>9, Zenon DEF Script, z, d

-----------------------------------------------------------------------------
(* What the steps of an operation find done *)

LastIsFirst(op, p) == op.kind \notin {"shuffle", "if_then_else"} \/ (op.kind = "shuffle" /\ p = next_party(op.party))

(* Most words are written once.                                            *)
LEMMA LastSame ==
    ASSUME NEW op, NEW i, NEW g, NEW p \in Party, NEW k, op.party \in Party \/ op.kind # "shuffle", LastIsFirst(op, p)
    PROVE  LastWord(op, i, g, p, k) = FirstWord(op, i, g, p, k)
<1>1. op.kind = "shuffle" => p # op.party /\ p # prev_party(op.party)
  BY Ring DEF LastIsFirst
<1> QED
  BY <1>1 DEF LastWord, LastIsFirst

(* An operation that writes its register in one way.                       *)
LEMMA SettledOnce ==
    ASSUME NEW op, NEW i, NEW g, NEW p \in Party, op.party \in Party \/ op.kind # "shuffle", LastIsFirst(op, p)
    PROVE  Settled(op, i, g, p, Word, {})
BY LastSame DEF Settled

(* The register of an operation that writes all words twice.               *)
LEMMA SettledTwice ==
    ASSUME NEW op, NEW i, NEW g, NEW p, NEW writes
    PROVE  Settled(op, i, g, p, writes, Word)
BY DEF Settled

(* A step on all the words that writes them the first time, or not at all. *)
LEMMA ReadyLocal ==
    ASSUME NEW op, NEW p, NEW steps, NEW s,
           steps[s].lo = 1, steps[s].hi = NumWords,
           \A whats \in {RewritesNext, RewritesPrev, DrawsNext, DrawsPrev, Takes} : Did(steps, s, whats) = {},
           \/ steps[s].do = "secrets" /\ op.kind = "input"
           \/ /\ steps[s].do = "deal" /\ op.kind = "input" /\ p = op.party
              /\ Did(steps, s, {"secrets"}) = Word
           \/ steps[s].do = "pad" /\ op.kind = "input" /\ p = prev_party(op.party)
           \/ steps[s].do = "zero_next" /\ op.kind = "input" /\ p = next_party(op.party)
           \/ /\ steps[s].do \in {"input_public", "fill_random", "apply_or_mask", "apply_and_mask"}
              /\ op.kind = steps[s].do /\ \A whats : Did(steps, s, whats) = {}
    PROVE  Ready(op, p, steps, s)
<1>1. 1 .. 1 - 1 = {}
  OBVIOUS
<1>2. /\ Did(steps, s, RewritesNext) = {} /\ Did(steps, s, RewritesPrev) = {}
      /\ Did(steps, s, DrawsNext) = {} /\ Did(steps, s, DrawsPrev) = {} /\ Did(steps, s, Takes) = {}
  OBVIOUS
<1>3. CASE steps[s].do = "secrets" /\ op.kind = "input"
  BY <1>1, <1>2, <1>3 DEF Ready, Local, Once, WritesNext, WritesPrev, DrawsNext, DrawsPrev, Takes
<1>4. CASE /\ steps[s].do = "deal" /\ op.kind = "input" /\ p = op.party
           /\ Did(steps, s, {"secrets"}) = Word
  BY <1>1, <1>2, <1>4 DEF Ready, Local, Once, WritesNext, WritesPrev, DrawsNext, DrawsPrev, Takes
<1>5. CASE steps[s].do = "pad" /\ op.kind = "input" /\ p = prev_party(op.party)
  BY <1>1, <1>2, <1>5 DEF Ready, Local, Once, WritesNext, WritesPrev, DrawsNext, DrawsPrev, Takes
<1>6. CASE steps[s].do = "zero_next" /\ op.kind = "input" /\ p = next_party(op.party)
  BY <1>1, <1>2, <1>6 DEF Ready, Local, Once, WritesNext, WritesPrev, DrawsNext, DrawsPrev, Takes
<1>7. CASE /\ steps[s].do \in {"input_public", "fill_random", "apply_or_mask", "apply_and_mask"}
           /\ op.kind = steps[s].do /\ \A whats : Did(steps, s, whats) = {}
  BY <1>1, <1>2, <1>7 DEF Ready, Local, Once, WritesNext, WritesPrev, DrawsNext, DrawsPrev, Takes
<1> QED
  BY <1>3, <1>4, <1>5, <1>6, <1>7

(* A step of a loop.                                                       *)
LEMMA ReadyLoop ==
    ASSUME NEW op, NEW p, NEW steps, NEW s,
           \/ /\ steps[s].do = "send_next" /\ steps[s].lo \in Did(steps, s, WritesNext)
              /\ Did(steps, s, RewritesNext) = {}
              /\ \/ op.kind \in {"input", "mand_gate", "if_then_else"}
                 \/ op.kind = "shuffle" /\ p # op.party
           \/ steps[s].do = "send_prev" /\ op.kind \in {"reveal_to", "reveal_to_all"}
           \/ /\ steps[s].do = "send_buf" /\ op.kind = "shuffle" /\ p = op.party
              /\ Did(steps, s, Takes) = Word /\ Did(steps, s, {"deal_xor"}) = Word
           \/ /\ steps[s].do = "recv_prev" /\ Did(steps, s, RewritesPrev) = {}
              /\ Did(steps, s, RewritesNext) = {}
              /\ \/ op.kind \in {"input", "mand_gate", "if_then_else"}
                 \/ op.kind = "shuffle" /\ p = prev_party(op.party)
           \/ /\ steps[s].do = "recv_prev_xor" /\ op.kind = "shuffle" /\ p = next_party(op.party)
              /\ Did(steps, s, WritesPrev) = Word /\ steps[s].lo \notin Did(steps, s, RewritesPrev)
           \/ steps[s].do = "recv_public" /\ RevealedTo(op, p)
    PROVE  Ready(op, p, steps, s)
<1> DEFINE e == steps[s]
<1>1. CASE /\ e.do = "send_next" /\ e.lo \in Did(steps, s, WritesNext)
           /\ Did(steps, s, RewritesNext) = {}
           /\ \/ op.kind \in {"input", "mand_gate", "if_then_else"}
              \/ op.kind = "shuffle" /\ p # op.party
  BY <1>1 DEF Ready, Local, Once, WritesNext, WritesPrev, DrawsNext, DrawsPrev, Takes
<1>2. CASE e.do = "send_prev" /\ op.kind \in {"reveal_to", "reveal_to_all"}
  BY <1>2 DEF Ready, Local, Once, WritesNext, WritesPrev, DrawsNext, DrawsPrev, Takes
<1>3. CASE /\ e.do = "send_buf" /\ op.kind = "shuffle" /\ p = op.party
           /\ Did(steps, s, Takes) = Word /\ Did(steps, s, {"deal_xor"}) = Word
  BY <1>3 DEF Ready, Local, Once, WritesNext, WritesPrev, DrawsNext, DrawsPrev, Takes
<1>4. CASE /\ e.do = "recv_prev" /\ Did(steps, s, RewritesPrev) = {}
           /\ Did(steps, s, RewritesNext) = {}
           /\ \/ op.kind \in {"input", "mand_gate", "if_then_else"}
              \/ op.kind = "shuffle" /\ p = prev_party(op.party)
  BY <1>4 DEF Ready, Local, Once, WritesNext, WritesPrev, DrawsNext, DrawsPrev, Takes
<1>5. CASE /\ e.do = "recv_prev_xor" /\ op.kind = "shuffle" /\ p = next_party(op.party)
           /\ Did(steps, s, WritesPrev) = Word /\ e.lo \notin Did(steps, s, RewritesPrev)
  BY <1>5 DEF Ready, Local, Once, WritesNext, WritesPrev, DrawsNext, DrawsPrev, Takes
<1>6. CASE e.do = "recv_public" /\ RevealedTo(op, p)
  BY <1>6 DEF Ready, Local, Once, WritesNext, WritesPrev, DrawsNext, DrawsPrev, Takes
<1> QED
  BY <1>1, <1>2, <1>3, <1>4, <1>5, <1>6

(* A step of the shuffle, whose party takes, permutes and shares out.      *)
LEMMA ReadyShuffle ==
    ASSUME NEW op, NEW p, NEW steps, NEW s, op.kind = "shuffle",
           steps[s].lo = 1, steps[s].hi = NumWords,
           Did(steps, s, RewritesNext) = {}, Did(steps, s, RewritesPrev) = {},
           \A what \in {"secrets", "deal_xor"} : Did(steps, s, {what}) = {},
           \/ /\ \A whats : Did(steps, s, whats) = {}
              /\ \/ steps[s].do = "take_both" /\ p = op.party
                 \/ steps[s].do = "take_next" /\ p = next_party(op.party)
           \/ steps[s].do = "permute" /\ Did(steps, s, Takes) = Word /\ Did(steps, s, {"permute"}) = {}
           \/ /\ steps[s].do = "deal" /\ p = next_party(op.party) /\ Did(steps, s, DrawsPrev) = {}
              /\ Did(steps, s, Takes) = Word /\ Did(steps, s, {"permute"}) = Word
           \/ steps[s].do = "pad" /\ p = op.party /\ Did(steps, s, DrawsNext) = {}
           \/ steps[s].do = "zero_next" /\ p = prev_party(op.party)
           \/ /\ steps[s].do = "deal_xor" /\ p = op.party /\ Did(steps, s, DrawsPrev) = {}
              /\ Did(steps, s, Takes) = Word /\ Did(steps, s, {"permute"}) = Word
              /\ Did(steps, s, WritesNext) = Word /\ Did(steps, s, WritesPrev) = Word
           \/ /\ steps[s].do = "pad_xor" /\ p = prev_party(op.party) /\ Did(steps, s, DrawsNext) = {}
              /\ Did(steps, s, WritesNext) = Word
    PROVE  Ready(op, p, steps, s)
<1> DEFINE e == steps[s]
<1>0. 1 .. 1 - 1 = {} /\ Did(steps, s, {"secrets"}) = {} /\ Did(steps, s, {"deal_xor"}) = {}
  OBVIOUS
<1>1. CASE /\ \A whats : Did(steps, s, whats) = {}
           /\ \/ e.do = "take_both" /\ p = op.party
              \/ e.do = "take_next" /\ p = next_party(op.party)
  BY <1>0, <1>1 DEF Ready, Local, Once, WritesNext, WritesPrev, DrawsNext, DrawsPrev, Takes
<1>2. CASE e.do = "permute" /\ Did(steps, s, Takes) = Word /\ Did(steps, s, {"permute"}) = {}
  BY <1>0, <1>2 DEF Ready, Local, Once, WritesNext, WritesPrev, DrawsNext, DrawsPrev, Takes
<1>3. CASE /\ e.do = "deal" /\ p = next_party(op.party) /\ Did(steps, s, DrawsPrev) = {}
           /\ Did(steps, s, Takes) = Word /\ Did(steps, s, {"permute"}) = Word
  BY <1>0, <1>3 DEF Ready, Local, Once, WritesNext, WritesPrev, DrawsNext, DrawsPrev, Takes
<1>4. CASE e.do = "pad" /\ p = op.party /\ Did(steps, s, DrawsNext) = {}
  BY <1>0, <1>4 DEF Ready, Local, Once, WritesNext, WritesPrev, DrawsNext, DrawsPrev, Takes
<1>5. CASE e.do = "zero_next" /\ p = prev_party(op.party)
  BY <1>0, <1>5 DEF Ready, Local, Once, WritesNext, WritesPrev, DrawsNext, DrawsPrev, Takes
<1>6. CASE /\ e.do = "deal_xor" /\ p = op.party /\ Did(steps, s, DrawsPrev) = {}
           /\ Did(steps, s, Takes) = Word /\ Did(steps, s, {"permute"}) = Word
           /\ Did(steps, s, WritesNext) = Word /\ Did(steps, s, WritesPrev) = Word
  BY <1>0, <1>6 DEF Ready, Local, Once, WritesNext, WritesPrev, DrawsNext, DrawsPrev, Takes
<1>7. CASE /\ e.do = "pad_xor" /\ p = prev_party(op.party) /\ Did(steps, s, DrawsNext) = {}
           /\ Did(steps, s, WritesNext) = Word
  BY <1>0, <1>7 DEF Ready, Local, Once, WritesNext, WritesPrev, DrawsNext, DrawsPrev, Takes
<1> QED
  BY <1>1, <1>2, <1>3, <1>4, <1>5, <1>6, <1>7

-----------------------------------------------------------------------------
(* The steps of every operation are in order *)

(* Scripts of some length.                                                 *)
LEMMA Script1 ==
    ASSUME NEW a \in What
    PROVE  Script(Part(a), 1, <<a>>)
<1>1. <<a>>[0 + 1] = a /\ 0 \in Nat /\ 0 + 1 = 1
  OBVIOUS
<1>2. Nothing \o Part(a) = Part(a)
  BY DidPart DEF Nothing
<1>3. Script(Nothing \o Part(a), 0 + 1, <<a>>)
  BY <1>1, ScriptStart, ScriptThen
<1> QED
  BY <1>1, <1>2, <1>3

(* The kinds of a script.                                                  *)
Exactly(n, w, kinds) == \A what : (\E u \in 1 .. n : w[u] = what) <=> what \in kinds

(* What a script has done in the end.                                      *)
LEMMA ScriptFinal ==
    ASSUME NEW op, NEW p \in Party, NEW steps, NEW n, NEW w, NEW kinds, Script(steps, n, w), Exactly(n, w, kinds),
           op.party \in Party \/ op.kind # "shuffle",
           \/ kinds \cap RewritesNext # {}
           \/ kinds \cap RewritesNext = {} /\ kinds \cap WritesNext # {} /\ LastIsFirst(op, p),
           \/ kinds \cap RewritesPrev # {}
           \/ kinds \cap RewritesPrev = {} /\ kinds \cap WritesPrev # {} /\ LastIsFirst(op, prev_party(p)),
           WordsDrawn(op, p) = IF kinds \cap DrawsNext # {} THEN NumWords ELSE 0,
           WordsDrawn(op, prev_party(p)) = IF kinds \cap DrawsPrev # {} THEN NumWords ELSE 0,
           RevealedTo(op, p) => "recv_public" \in kinds
    PROVE  Final(op, p, steps)
<1> DEFINE F(whats) == Did(steps, Len(steps) + 1, whats)
<1>1. \A whats : (\E u \in 1 .. n : w[u] \in whats) <=> kinds \cap whats # {}
  BY DEF Exactly
<1>2. \A whats : /\ kinds \cap whats # {} => F(whats) = Word
                 /\ kinds \cap whats = {} => F(whats) = {}
  BY <1>1 DEF Script
<1> HIDE DEF F
<1>3. prev_party(p) \in Party
  BY Ring
<1>4. ASSUME NEW i, NEW g
      PROVE  /\ Settled(op, i, g, p, F(WritesNext), F(RewritesNext))
             /\ Settled(op, i, g, prev_party(p), F(WritesPrev), F(RewritesPrev))
  <2>1. Settled(op, i, g, p, F(WritesNext), F(RewritesNext))
    <3>1. CASE kinds \cap RewritesNext # {}
      BY <1>2, <3>1, SettledTwice
    <3>2. CASE kinds \cap RewritesNext = {}
      <4>1. F(RewritesNext) = {} /\ F(WritesNext) = Word
        BY <1>2, <3>2
      <4> QED
        BY <3>2, <4>1, SettledOnce
    <3> QED
      BY <3>1, <3>2
  <2>2. Settled(op, i, g, prev_party(p), F(WritesPrev), F(RewritesPrev))
    <3>1. CASE kinds \cap RewritesPrev # {}
      BY <1>2, <3>1, SettledTwice
    <3>2. CASE kinds \cap RewritesPrev = {}
      <4>1. F(RewritesPrev) = {} /\ F(WritesPrev) = Word
        BY <1>2, <3>2
      <4> QED
        BY <1>3, <3>2, <4>1, SettledOnce
    <3> QED
      BY <3>1, <3>2
  <2> QED
    BY <2>1, <2>2
<1>5. Cardinality(F(DrawsNext)) = WordsDrawn(op, p)
  BY <1>2, Sizes
<1>6. Cardinality(F(DrawsPrev)) = WordsDrawn(op, prev_party(p))
  BY <1>2, Sizes
<1>7. RevealedTo(op, p) => F({"recv_public"}) = Word
  BY <1>2
<1> QED
  BY <1>4, <1>5, <1>6, <1>7 DEF Final, F

(* An operation of one step on all the words.                              *)
LEMMA OrderlyOnce ==
    ASSUME NEW op \in Operation, NEW p \in Party,
           op.kind \in {"input_public", "fill_random", "apply_or_mask", "apply_and_mask"}
    PROVE  Orderly(op, p)
<1> DEFINE steps == Do(op.kind, 1, NumWords)
<1>1. Steps(op, p) = steps /\ op.kind \in Local
  BY DEF Steps, Local
<1>2. op.kind \in What
  BY <1>1, Kinds
<1>3. Script(steps, 1, <<op.kind>>)
  <2>1. Part(op.kind) = steps
    BY <1>1 DEF Part
  <2> QED
    BY <1>2, <2>1, Script1
<1>4. Exactly(1, <<op.kind>>, {op.kind})
  BY DEF Exactly
<1> HIDE DEF steps
<1>5. ASSUME NEW s \in 1 .. Len(steps) PROVE Ready(op, p, steps, s)
  <2>1. PICK t \in 1 .. 1 : Place(steps, <<op.kind>>, s, t)
    BY <1>3 DEF Script
  <2>2. t = 1 /\ <<op.kind>>[1] = op.kind /\ 1 .. t - 1 = {}
    OBVIOUS
  <2>3. steps[s].do = op.kind /\ steps[s].lo = 1 /\ steps[s].hi = NumWords
        /\ \A whats : Did(steps, s, whats) = {}
    BY <1>1, <2>1, <2>2 DEF Place
  <2> QED
    BY <2>3, ReadyLocal
<1>6. Final(op, p, steps)
  <2>1. LastIsFirst(op, p) /\ LastIsFirst(op, prev_party(p)) /\ ~RevealedTo(op, p) /\ op.kind # "shuffle"
    BY DEF LastIsFirst, RevealedTo
  <2>2. /\ {op.kind} \cap RewritesNext = {} /\ {op.kind} \cap WritesNext # {}
        /\ {op.kind} \cap RewritesPrev = {} /\ {op.kind} \cap WritesPrev # {}
    BY DEF RewritesNext, RewritesPrev, WritesNext, WritesPrev, Once
  <2>3. /\ WordsDrawn(op, p) = IF {op.kind} \cap DrawsNext # {} THEN NumWords ELSE 0
        /\ WordsDrawn(op, prev_party(p)) = IF {op.kind} \cap DrawsPrev # {} THEN NumWords ELSE 0
    <3>1. CASE op.kind = "fill_random"
      <4>1. {op.kind} \cap DrawsNext # {} /\ {op.kind} \cap DrawsPrev # {}
        BY <3>1 DEF DrawsNext, DrawsPrev
      <4> QED
        BY <3>1, <4>1 DEF WordsDrawn
    <3>2. CASE op.kind # "fill_random"
      <4>1. {op.kind} \cap DrawsNext = {} /\ {op.kind} \cap DrawsPrev = {}
        BY <3>2 DEF DrawsNext, DrawsPrev
      <4> QED
        BY <3>2, <4>1 DEF WordsDrawn
    <3> QED
      BY <3>1, <3>2
  <2> QED
    BY <1>3, <1>4, <2>1, <2>2, <2>3, ScriptFinal
<1>7. steps \in Seq(StepRecord)
  BY <1>3 DEF Script
<1> QED
  BY <1>1, <1>5, <1>6, <1>7 DEF Orderly

(* Scripts of two, three and five parts.                                   *)
LEMMA Script2 ==
    ASSUME NEW a \in What, NEW b \in What, NEW w, w[1] = a, w[2] = b
    PROVE  Script(Part(a) \o Part(b), 2, w)
<1>1. 0 \in Nat /\ 0 + 1 = 1 /\ 1 \in Nat /\ 1 + 1 = 2
  OBVIOUS
<1>2. Nothing \o Part(a) = Part(a)
  BY DidPart DEF Nothing
<1>3. Script(Nothing \o Part(a), 0 + 1, w)
  BY <1>1, ScriptStart, ScriptThen
<1>4. Script(Part(a) \o Part(b), 1 + 1, w)
  BY <1>1, <1>2, <1>3, ScriptThen
<1> QED
  BY <1>1, <1>4

(* Scripts of three parts.                                                 *)
LEMMA Script3 ==
    ASSUME NEW a \in What, NEW b \in What, NEW c \in What,
           NEW w, w[1] = a, w[2] = b, w[3] = c
    PROVE  /\ Script((Part(a) \o Part(b)) \o Part(c), 3, w)
           /\ Part(a) \o (Part(b) \o Part(c)) = (Part(a) \o Part(b)) \o Part(c)
<1>1. 2 \in Nat /\ 2 + 1 = 3
  OBVIOUS
<1>2. Script((Part(a) \o Part(b)) \o Part(c), 2 + 1, w)
  BY <1>1, Script2, ScriptThen
<1>3. Part(a) \in Seq(StepRecord) /\ Part(b) \in Seq(StepRecord) /\ Part(c) \in Seq(StepRecord)
  BY DidPart
<1> QED
  BY <1>1, <1>2, <1>3, JoinAssociative

(* Scripts of five parts.                                                  *)
LEMMA Script5 ==
    ASSUME NEW a \in What, NEW b \in What, NEW c \in What, NEW d \in What, NEW e \in What,
           NEW w, w[1] = a, w[2] = b, w[3] = c, w[4] = d, w[5] = e
    PROVE  Script((Part(a) \o Part(b)) \o ((Part(c) \o Part(d)) \o Part(e)), 5, w)
<1> DEFINE y == Part(a) \o Part(b)
           x == y \o Part(c)
<1>1. 3 \in Nat /\ 3 + 1 = 4 /\ 4 \in Nat /\ 4 + 1 = 5
  OBVIOUS
<1>2. Part(c) \in Seq(StepRecord) /\ Part(d) \in Seq(StepRecord) /\ Part(e) \in Seq(StepRecord)
  BY DidPart
<1>3. Script(x, 3, w)
  BY Script3
<1>4. y \in Seq(StepRecord)
  BY DidPart, JoinIs
<1>5. Part(c) \o Part(d) \in Seq(StepRecord)
  BY <1>2, JoinIs
<1> HIDE DEF y
<1>6. y \o ((Part(c) \o Part(d)) \o Part(e)) = (x \o Part(d)) \o Part(e)
  <2> DEFINE u == Part(c) \o Part(d)
             v == Part(e)
  <2>1. y \o (u \o v) = (y \o u) \o v
    <3>1. u \in Seq(StepRecord) /\ v \in Seq(StepRecord)
      BY <1>2, <1>5
    <3> HIDE DEF u, v
    <3> QED
      BY <1>4, <3>1, JoinAssociative
  <2>2. y \o (Part(c) \o Part(d)) = (y \o Part(c)) \o Part(d)
    BY <1>2, <1>4, JoinAssociative
  <2> QED
    BY <2>1, <2>2
<1> HIDE DEF x
<1>7. Script(x \o Part(d), 3 + 1, w)
  BY <1>1, <1>3, ScriptThen
<1>8. Script((x \o Part(d)) \o Part(e), 4 + 1, w)
  BY <1>1, <1>7, ScriptThen
<1> QED
  BY <1>1, <1>6, <1>8 DEF y

(* The parts.                                                              *)
LEMMA Parts ==
    /\ \A what \in Local : what \in What /\ Part(what) = Do(what, 1, NumWords)
    /\ \A what \in Sending \cup Receiving : what \in What /\ Part(what) = Each(what, 1, NumWords)
BY Kinds DEF Part

(* The parts of a resharing, in either way.                                *)
LEMMA PartsJoin ==
    ASSUME NEW a \in What, NEW b \in What, NEW c \in What
    PROVE  Part(a) \o (Part(b) \o Part(c)) = (Part(a) \o Part(b)) \o Part(c)
<1>1. Part(a) \in Seq(StepRecord) /\ Part(b) \in Seq(StepRecord) /\ Part(c) \in Seq(StepRecord)
  BY DidPart
<1> QED
  BY <1>1, JoinAssociative

(* Sharing out a secret: its dealer.                                       *)
LEMMA OrderlyDealer ==
    ASSUME NEW op \in Operation, NEW p \in Party, op.kind = "input", p = op.party
    PROVE  Orderly(op, p)
<1> DEFINE w == <<"secrets", "deal", "send_next">>
           kinds == {"secrets", "deal", "send_next"}
           steps == Part("secrets") \o (Part("deal") \o Part("send_next"))
<1>1. Steps(op, p) = steps
  <2>1. op.party \in Party
    BY OperationIs
  <2>2. InputSteps(op.party, p) = Do("deal", 1, NumWords) \o Each("send_next", 1, NumWords)
    BY <2>1, Ring DEF InputSteps
  <2>3. Steps(op, p) = Do("secrets", 1, NumWords) \o InputSteps(op.party, p)
    BY DEF Steps
  <2>9. Part("secrets") = Do("secrets", 1, NumWords) /\ Part("deal") = Do("deal", 1, NumWords)
        /\ Part("send_next") = Each("send_next", 1, NumWords)
    BY Kinds, Parts
  <2> QED
    BY <2>2, <2>3, <2>9
<1>2. w[1] = "secrets" /\ w[2] = "deal" /\ w[3] = "send_next"
  OBVIOUS
<1>3. Exactly(3, w, kinds)
  BY <1>2 DEF Exactly
<1> HIDE DEF w
<1>4. Script(steps, 3, w)
  <2>1. "secrets" \in What /\ "deal" \in What /\ "send_next" \in What
    BY Kinds
  <2>2. Script((Part("secrets") \o Part("deal")) \o Part("send_next"), 3, w)
    BY <1>2, <2>1, Script3
  <2>3. Part("secrets") \o (Part("deal") \o Part("send_next")) = (Part("secrets") \o Part("deal")) \o Part("send_next")
    BY <2>1, PartsJoin
  <2> QED
    BY <2>2, <2>3
<1> HIDE DEF steps
<1>5. ASSUME NEW s \in 1 .. Len(steps) PROVE Ready(op, p, steps, s)
  <2>1. PICK t \in 1 .. 3 : Place(steps, w, s, t)
    BY <1>4 DEF Script
  <2>2. steps[s].lo \in Word
    BY <1>4 DEF Script, StepRecord
  <2>3. CASE t = 1
    <3>1. steps[s].do = "secrets" /\ steps[s].lo = 1 /\ steps[s].hi = NumWords
      BY <1>2, <2>1, <2>3, Kinds DEF Place
    <3>2. /\ "secrets" \notin DrawsNext
         /\ "secrets" \notin DrawsPrev
         /\ "secrets" \notin RewritesNext
         /\ "secrets" \notin RewritesPrev
         /\ "secrets" \notin Takes
      BY DEF DrawsNext, DrawsPrev, RewritesNext, RewritesPrev, Takes
    <3>3. /\ Did(steps, s, RewritesNext) = {}
         /\ Did(steps, s, RewritesPrev) = {}
         /\ Did(steps, s, DrawsNext) = {}
         /\ Did(steps, s, DrawsPrev) = {}
         /\ Did(steps, s, Takes) = {}
      BY <1>2, <2>1, <2>3, Kinds, <3>2 DEF Place
    <3> QED
      BY <2>2, <3>1, <3>3, ReadyLocal
  <2>4. CASE t = 2
    <3>1. steps[s].do = "deal" /\ steps[s].lo = 1 /\ steps[s].hi = NumWords
      BY <1>2, <2>1, <2>4, Kinds DEF Place
    <3>2. /\ "secrets" \notin DrawsNext
         /\ "secrets" \notin DrawsPrev
         /\ "secrets" \notin RewritesNext
         /\ "secrets" \notin RewritesPrev
         /\ "secrets" \notin Takes
         /\ "deal" \notin DrawsNext
         /\ "deal" \in DrawsPrev
         /\ "deal" \notin RewritesNext
         /\ "deal" \notin RewritesPrev
         /\ "deal" \notin Takes
      BY DEF DrawsNext, DrawsPrev, RewritesNext, RewritesPrev, Takes
    <3>3. /\ Did(steps, s, {"secrets"}) = Word
         /\ Did(steps, s, RewritesNext) = {}
         /\ Did(steps, s, RewritesPrev) = {}
         /\ Did(steps, s, DrawsNext) = {}
         /\ Did(steps, s, DrawsPrev) = {}
         /\ Did(steps, s, Takes) = {}
      BY <1>2, <2>1, <2>4, Kinds, <3>2 DEF Place
    <3> QED
      BY <2>2, <3>1, <3>3, ReadyLocal
  <2>5. CASE t = 3
    <3>1. steps[s].do = "send_next"
      BY <1>2, <2>1, <2>5, Kinds DEF Place
    <3>2. /\ "secrets" \notin RewritesNext
         /\ "secrets" \notin WritesNext
         /\ "deal" \notin RewritesNext
         /\ "deal" \in WritesNext
         /\ "send_next" \notin RewritesNext
         /\ "send_next" \notin WritesNext
      BY DEF RewritesNext, WritesNext, Once
    <3>3. /\ Did(steps, s, WritesNext) = Word
         /\ Did(steps, s, RewritesNext) = {}
      BY <1>2, <2>1, <2>5, Kinds, <3>2 DEF Place
    <3> QED
      BY <2>2, <3>1, <3>3, ReadyLoop
  <2> QED
    BY <2>1, <2>3, <2>4, <2>5
<1>6. Final(op, p, steps)
  <2>1. op.party \in Party /\ ~RevealedTo(op, p)
    BY OperationIs DEF RevealedTo
  <2>2. /\ kinds \cap WritesNext # {}
        /\ kinds \cap RewritesNext = {}
        /\ kinds \cap WritesPrev # {}
        /\ kinds \cap RewritesPrev = {}
        /\ kinds \cap DrawsNext = {}
        /\ kinds \cap DrawsPrev # {}
    BY DEF RewritesNext, RewritesPrev, WritesNext, WritesPrev, Once, DrawsNext, DrawsPrev
  <2>3. /\ WordsDrawn(op, p) = 0
        /\ WordsDrawn(op, prev_party(p)) = NumWords
    BY <2>1, Ring DEF WordsDrawn
  <2>4. LastIsFirst(op, p) /\ LastIsFirst(op, prev_party(p))
    BY <2>1, Ring DEF LastIsFirst
  <2> HIDE DEF kinds
  <2> QED
    BY <1>3, <1>4, <2>1, <2>2, <2>3, <2>4, ScriptFinal
<1>7. steps \in Seq(StepRecord)
  BY <1>4 DEF Script
<1> QED
  BY <1>1, <1>5, <1>6, <1>7 DEF Orderly

(* The party that knows the pad.                                           *)
LEMMA OrderlyPad ==
    ASSUME NEW op \in Operation, NEW p \in Party, op.kind = "input", p = prev_party(op.party)
    PROVE  Orderly(op, p)
<1> DEFINE w == <<"pad">>
           kinds == {"pad"}
           steps == Part("pad")
<1>1. Steps(op, p) = steps
  <2>1. op.party \in Party
    BY OperationIs
  <2>2. InputSteps(op.party, p) = Do("pad", 1, NumWords)
    BY <2>1, Ring DEF InputSteps
  <2>3. Steps(op, p) = Nothing \o InputSteps(op.party, p)
    BY <2>1, Ring DEF Steps
  <2>9. Part("pad") = Do("pad", 1, NumWords)
    BY Kinds, Parts
  <2>10. Nothing \o steps = steps
    BY Kinds, Parts, DidPart DEF Nothing
  <2> QED
    BY <2>2, <2>3, <2>9, <2>10
<1>2. w[1] = "pad"
  OBVIOUS
<1>3. Exactly(1, w, kinds)
  BY <1>2 DEF Exactly
<1> HIDE DEF w
<1>4. Script(steps, 1, w)
  <2>1. "pad" \in What
    BY Kinds
  <2> QED
    BY <1>2, <2>1, Script1 DEF w
<1> HIDE DEF steps
<1>5. ASSUME NEW s \in 1 .. Len(steps) PROVE Ready(op, p, steps, s)
  <2>1. PICK t \in 1 .. 1 : Place(steps, w, s, t)
    BY <1>4 DEF Script
  <2>2. steps[s].lo \in Word
    BY <1>4 DEF Script, StepRecord
  <2>3. CASE t = 1
    <3>1. steps[s].do = "pad" /\ steps[s].lo = 1 /\ steps[s].hi = NumWords
      BY <1>2, <2>1, <2>3, Kinds DEF Place
    <3>2. /\ "pad" \in DrawsNext
         /\ "pad" \notin DrawsPrev
         /\ "pad" \notin RewritesNext
         /\ "pad" \notin RewritesPrev
         /\ "pad" \notin Takes
      BY DEF DrawsNext, DrawsPrev, RewritesNext, RewritesPrev, Takes
    <3>3. /\ Did(steps, s, RewritesNext) = {}
         /\ Did(steps, s, RewritesPrev) = {}
         /\ Did(steps, s, DrawsNext) = {}
         /\ Did(steps, s, DrawsPrev) = {}
         /\ Did(steps, s, Takes) = {}
      BY <1>2, <2>1, <2>3, Kinds, <3>2 DEF Place
    <3> QED
      BY <2>2, <3>1, <3>3, ReadyLocal
  <2> QED
    BY <2>1, <2>3
<1>6. Final(op, p, steps)
  <2>1. op.party \in Party /\ ~RevealedTo(op, p)
    BY OperationIs DEF RevealedTo
  <2>2. /\ kinds \cap WritesNext # {}
        /\ kinds \cap RewritesNext = {}
        /\ kinds \cap WritesPrev # {}
        /\ kinds \cap RewritesPrev = {}
        /\ kinds \cap DrawsNext # {}
        /\ kinds \cap DrawsPrev = {}
    BY DEF RewritesNext, RewritesPrev, WritesNext, WritesPrev, Once, DrawsNext, DrawsPrev
  <2>3. /\ WordsDrawn(op, p) = NumWords
        /\ WordsDrawn(op, prev_party(p)) = 0
    BY <2>1, Ring DEF WordsDrawn
  <2>4. LastIsFirst(op, p) /\ LastIsFirst(op, prev_party(p))
    BY <2>1, Ring DEF LastIsFirst
  <2> HIDE DEF kinds
  <2> QED
    BY <1>3, <1>4, <2>1, <2>2, <2>3, <2>4, ScriptFinal
<1>7. steps \in Seq(StepRecord)
  BY <1>4 DEF Script
<1> QED
  BY <1>1, <1>5, <1>6, <1>7 DEF Orderly

(* The party that is sent the masked secret.                               *)
LEMMA OrderlyInput ==
    ASSUME NEW op \in Operation, NEW p \in Party, op.kind = "input", p = next_party(op.party)
    PROVE  Orderly(op, p)
<1> DEFINE w == <<"recv_prev", "zero_next">>
           kinds == {"recv_prev", "zero_next"}
           steps == Part("recv_prev") \o Part("zero_next")
<1>1. Steps(op, p) = steps
  <2>1. op.party \in Party
    BY OperationIs
  <2>2. InputSteps(op.party, p) = Each("recv_prev", 1, NumWords) \o Do("zero_next", 1, NumWords)
    BY <2>1, Ring DEF InputSteps
  <2>3. Steps(op, p) = Nothing \o InputSteps(op.party, p)
    BY <2>1, Ring DEF Steps
  <2>9. Part("recv_prev") = Each("recv_prev", 1, NumWords) /\ Part("zero_next") = Do("zero_next", 1, NumWords)
    BY Kinds, Parts
  <2>10. Nothing \o steps = steps
    BY Kinds, Parts, DidPart, JoinIs DEF Nothing
  <2> QED
    BY <2>2, <2>3, <2>9, <2>10
<1>2. w[1] = "recv_prev" /\ w[2] = "zero_next"
  OBVIOUS
<1>3. Exactly(2, w, kinds)
  BY <1>2 DEF Exactly
<1> HIDE DEF w
<1>4. Script(steps, 2, w)
  <2>1. "recv_prev" \in What /\ "zero_next" \in What
    BY Kinds
  <2> QED
    BY <1>2, <2>1, Script2
<1> HIDE DEF steps
<1>5. ASSUME NEW s \in 1 .. Len(steps) PROVE Ready(op, p, steps, s)
  <2>1. PICK t \in 1 .. 2 : Place(steps, w, s, t)
    BY <1>4 DEF Script
  <2>2. steps[s].lo \in Word
    BY <1>4 DEF Script, StepRecord
  <2>3. CASE t = 1
    <3>1. steps[s].do = "recv_prev"
      BY <1>2, <2>1, <2>3, Kinds DEF Place
    <3>2. /\ "recv_prev" \notin RewritesNext
         /\ "recv_prev" \notin RewritesPrev
      BY DEF RewritesNext, RewritesPrev
    <3>3. /\ Did(steps, s, RewritesNext) = {}
         /\ Did(steps, s, RewritesPrev) = {}
      BY <1>2, <2>1, <2>3, Kinds, <3>2 DEF Place
    <3> QED
      BY <2>2, <3>1, <3>3, ReadyLoop
  <2>4. CASE t = 2
    <3>1. steps[s].do = "zero_next" /\ steps[s].lo = 1 /\ steps[s].hi = NumWords
      BY <1>2, <2>1, <2>4, Kinds DEF Place
    <3>2. /\ "recv_prev" \notin DrawsNext
         /\ "recv_prev" \notin DrawsPrev
         /\ "recv_prev" \notin RewritesNext
         /\ "recv_prev" \notin RewritesPrev
         /\ "recv_prev" \notin Takes
         /\ "zero_next" \notin DrawsNext
         /\ "zero_next" \notin DrawsPrev
         /\ "zero_next" \notin RewritesNext
         /\ "zero_next" \notin RewritesPrev
         /\ "zero_next" \notin Takes
      BY DEF DrawsNext, DrawsPrev, RewritesNext, RewritesPrev, Takes
    <3>3. /\ Did(steps, s, RewritesNext) = {}
         /\ Did(steps, s, RewritesPrev) = {}
         /\ Did(steps, s, DrawsNext) = {}
         /\ Did(steps, s, DrawsPrev) = {}
         /\ Did(steps, s, Takes) = {}
      BY <1>2, <2>1, <2>4, Kinds, <3>2 DEF Place
    <3> QED
      BY <2>2, <3>1, <3>3, ReadyLocal
  <2> QED
    BY <2>1, <2>3, <2>4
<1>6. Final(op, p, steps)
  <2>1. op.party \in Party /\ ~RevealedTo(op, p)
    BY OperationIs DEF RevealedTo
  <2>2. /\ kinds \cap WritesNext # {}
        /\ kinds \cap RewritesNext = {}
        /\ kinds \cap WritesPrev # {}
        /\ kinds \cap RewritesPrev = {}
        /\ kinds \cap DrawsNext = {}
        /\ kinds \cap DrawsPrev = {}
    BY DEF RewritesNext, RewritesPrev, WritesNext, WritesPrev, Once, DrawsNext, DrawsPrev
  <2>3. /\ WordsDrawn(op, p) = 0
        /\ WordsDrawn(op, prev_party(p)) = 0
    BY <2>1, Ring DEF WordsDrawn
  <2>4. LastIsFirst(op, p) /\ LastIsFirst(op, prev_party(p))
    BY <2>1, Ring DEF LastIsFirst
  <2> HIDE DEF kinds
  <2> QED
    BY <1>3, <1>4, <2>1, <2>2, <2>3, <2>4, ScriptFinal
<1>7. steps \in Seq(StepRecord)
  BY <1>4 DEF Script
<1> QED
  BY <1>1, <1>5, <1>6, <1>7 DEF Orderly

(* The shuffle: its party.                                                 *)
LEMMA OrderlyShuffler ==
    ASSUME NEW op \in Operation, NEW p \in Party, op.kind = "shuffle", p = op.party
    PROVE  Orderly(op, p)
<1> DEFINE w == <<"take_both", "permute", "pad", "deal_xor", "send_buf">>
           kinds == {"take_both", "permute", "pad", "deal_xor", "send_buf"}
           steps == (Part("take_both") \o Part("permute")) \o (Part("pad") \o (Part("deal_xor") \o Part("send_buf")))
<1>1. Steps(op, p) = steps
  <2>1. op.party \in Party
    BY OperationIs
  <2>2. From2SharesSteps(op.party, next_party(op.party), p)
          = InputSteps(next_party(op.party), p) \o InputXorSteps(op.party, p)
    BY <2>1, Ring DEF From2SharesSteps
  <2>3. InputSteps(next_party(op.party), p) = Do("pad", 1, NumWords)
    BY <2>1, Ring DEF InputSteps
  <2>4. InputXorSteps(op.party, p) = Do("deal_xor", 1, NumWords) \o Each("send_buf", 1, NumWords)
    BY <2>1, Ring DEF InputXorSteps
  <2>5. Reshare3to2Steps(op.party, next_party(op.party), p) = Do("take_both", 1, NumWords)
    BY <2>1, Ring DEF Reshare3to2Steps
  <2>6. (IF p \in {op.party, next_party(op.party)} THEN Do("permute", 1, NumWords) ELSE Nothing) = Do("permute", 1, NumWords)
    BY <2>1, Ring
  <2>7. Steps(op, p) = ShuffleSteps(op.party, p)
    BY DEF Steps
  <2>9. /\ Part("take_both") = Do("take_both", 1, NumWords)
        /\ Part("permute") = Do("permute", 1, NumWords)
        /\ Part("pad") = Do("pad", 1, NumWords)
        /\ Part("deal_xor") = Do("deal_xor", 1, NumWords)
        /\ Part("send_buf") = Each("send_buf", 1, NumWords)
    BY Kinds, Parts
  <2> QED
    BY <2>2, <2>3, <2>4, <2>5, <2>6, <2>7, <2>9 DEF ShuffleSteps
<1>2. w[1] = "take_both" /\ w[2] = "permute" /\ w[3] = "pad" /\ w[4] = "deal_xor" /\ w[5] = "send_buf"
  OBVIOUS
<1>3. Exactly(5, w, kinds)
  BY <1>2 DEF Exactly
<1> HIDE DEF w
<1>4. Script(steps, 5, w)
  <2>1. "take_both" \in What /\ "permute" \in What /\ "pad" \in What /\ "deal_xor" \in What /\ "send_buf" \in What
    BY Kinds
  <2>2. Script((Part("take_both") \o Part("permute")) \o ((Part("pad") \o Part("deal_xor")) \o Part("send_buf")), 5, w)
    BY <1>2, <2>1, Script5
  <2>3. Part("pad") \o (Part("deal_xor") \o Part("send_buf")) = (Part("pad") \o Part("deal_xor")) \o Part("send_buf")
    BY <2>1, PartsJoin
  <2> QED
    BY <2>2, <2>3
<1> HIDE DEF steps
<1>5. ASSUME NEW s \in 1 .. Len(steps) PROVE Ready(op, p, steps, s)
  <2>1. PICK t \in 1 .. 5 : Place(steps, w, s, t)
    BY <1>4 DEF Script
  <2>2. steps[s].lo \in Word
    BY <1>4 DEF Script, StepRecord
  <2>3. CASE t = 1
    <3>1. steps[s].do = "take_both" /\ steps[s].lo = 1 /\ steps[s].hi = NumWords
      BY <1>2, <2>1, <2>3, Kinds DEF Place
    <3>2. /\ "take_both" \notin RewritesNext
         /\ "take_both" \notin RewritesPrev
      BY DEF RewritesNext, RewritesPrev
    <3>3. /\ Did(steps, s, RewritesNext) = {}
         /\ Did(steps, s, RewritesPrev) = {}
         /\ Did(steps, s, {"secrets"}) = {}
         /\ Did(steps, s, {"deal_xor"}) = {}
      BY <1>2, <2>1, <2>3, Kinds, <3>2 DEF Place
    <3>4. \A whats : Did(steps, s, whats) = {}
      BY <1>2, <2>1, <2>3, Kinds DEF Place
    <3>5. op.party \in Party
      BY OperationIs
    <3> QED
      BY <2>2, <3>1, <3>3, <3>4, <3>5, ReadyShuffle, Ring
  <2>4. CASE t = 2
    <3>1. steps[s].do = "permute" /\ steps[s].lo = 1 /\ steps[s].hi = NumWords
      BY <1>2, <2>1, <2>4, Kinds DEF Place
    <3>2. /\ "take_both" \notin RewritesNext
         /\ "take_both" \notin RewritesPrev
         /\ "take_both" \in Takes
         /\ "permute" \notin RewritesNext
         /\ "permute" \notin RewritesPrev
         /\ "permute" \notin Takes
      BY DEF RewritesNext, RewritesPrev, Takes
    <3>3. /\ Did(steps, s, Takes) = Word
         /\ Did(steps, s, RewritesNext) = {}
         /\ Did(steps, s, RewritesPrev) = {}
         /\ Did(steps, s, {"secrets"}) = {}
         /\ Did(steps, s, {"deal_xor"}) = {}
         /\ Did(steps, s, {"permute"}) = {}
      BY <1>2, <2>1, <2>4, Kinds, <3>2 DEF Place
    <3>4. op.party \in Party
      BY OperationIs
    <3> QED
      BY <2>2, <3>1, <3>3, <3>4, ReadyShuffle, Ring
  <2>5. CASE t = 3
    <3>1. steps[s].do = "pad" /\ steps[s].lo = 1 /\ steps[s].hi = NumWords
      BY <1>2, <2>1, <2>5, Kinds DEF Place
    <3>2. /\ "take_both" \notin DrawsNext
         /\ "take_both" \notin RewritesNext
         /\ "take_both" \notin RewritesPrev
         /\ "permute" \notin DrawsNext
         /\ "permute" \notin RewritesNext
         /\ "permute" \notin RewritesPrev
         /\ "pad" \in DrawsNext
         /\ "pad" \notin RewritesNext
         /\ "pad" \notin RewritesPrev
      BY DEF DrawsNext, RewritesNext, RewritesPrev
    <3>3. /\ Did(steps, s, RewritesNext) = {}
         /\ Did(steps, s, RewritesPrev) = {}
         /\ Did(steps, s, DrawsNext) = {}
         /\ Did(steps, s, {"secrets"}) = {}
         /\ Did(steps, s, {"deal_xor"}) = {}
      BY <1>2, <2>1, <2>5, Kinds, <3>2 DEF Place
    <3>4. op.party \in Party
      BY OperationIs
    <3> QED
      BY <2>2, <3>1, <3>3, <3>4, ReadyShuffle, Ring
  <2>6. CASE t = 4
    <3>1. steps[s].do = "deal_xor" /\ steps[s].lo = 1 /\ steps[s].hi = NumWords
      BY <1>2, <2>1, <2>6, Kinds DEF Place
    <3>2. /\ "take_both" \notin DrawsPrev
         /\ "take_both" \notin RewritesNext
         /\ "take_both" \notin RewritesPrev
         /\ "take_both" \in Takes
         /\ "take_both" \notin WritesNext
         /\ "take_both" \notin WritesPrev
         /\ "permute" \notin DrawsPrev
         /\ "permute" \notin RewritesNext
         /\ "permute" \notin RewritesPrev
         /\ "permute" \notin Takes
         /\ "permute" \notin WritesNext
         /\ "permute" \notin WritesPrev
         /\ "pad" \notin DrawsPrev
         /\ "pad" \notin RewritesNext
         /\ "pad" \notin RewritesPrev
         /\ "pad" \notin Takes
         /\ "pad" \in WritesNext
         /\ "pad" \in WritesPrev
         /\ "deal_xor" \in DrawsPrev
         /\ "deal_xor" \in RewritesNext
         /\ "deal_xor" \in RewritesPrev
         /\ "deal_xor" \notin Takes
         /\ "deal_xor" \notin WritesNext
         /\ "deal_xor" \notin WritesPrev
      BY DEF DrawsPrev, RewritesNext, RewritesPrev, Takes, WritesNext, WritesPrev, Once
    <3>3. /\ Did(steps, s, Takes) = Word
         /\ Did(steps, s, WritesNext) = Word
         /\ Did(steps, s, WritesPrev) = Word
         /\ Did(steps, s, {"permute"}) = Word
         /\ Did(steps, s, RewritesNext) = {}
         /\ Did(steps, s, RewritesPrev) = {}
         /\ Did(steps, s, DrawsPrev) = {}
         /\ Did(steps, s, {"secrets"}) = {}
         /\ Did(steps, s, {"deal_xor"}) = {}
      BY <1>2, <2>1, <2>6, Kinds, <3>2 DEF Place
    <3>4. op.party \in Party
      BY OperationIs
    <3> QED
      BY <2>2, <3>1, <3>3, <3>4, ReadyShuffle, Ring
  <2>7. CASE t = 5
    <3>1. steps[s].do = "send_buf"
      BY <1>2, <2>1, <2>7, Kinds DEF Place
    <3>2. /\ "take_both" \in Takes
         /\ "permute" \notin Takes
         /\ "pad" \notin Takes
         /\ "deal_xor" \notin Takes
         /\ "send_buf" \notin Takes
      BY DEF Takes
    <3>3. /\ Did(steps, s, Takes) = Word
         /\ Did(steps, s, {"deal_xor"}) = Word
      BY <1>2, <2>1, <2>7, Kinds, <3>2 DEF Place
    <3>4. op.party \in Party
      BY OperationIs
    <3> QED
      BY <2>2, <3>1, <3>3, <3>4, ReadyLoop, Ring
  <2> QED
    BY <2>1, <2>3, <2>4, <2>5, <2>6, <2>7
<1>6. Final(op, p, steps)
  <2>1. op.party \in Party /\ ~RevealedTo(op, p)
    BY OperationIs DEF RevealedTo
  <2>2. /\ kinds \cap WritesNext # {}
        /\ kinds \cap RewritesNext # {}
        /\ kinds \cap WritesPrev # {}
        /\ kinds \cap RewritesPrev # {}
        /\ kinds \cap DrawsNext # {}
        /\ kinds \cap DrawsPrev # {}
    BY DEF RewritesNext, RewritesPrev, WritesNext, WritesPrev, Once, DrawsNext, DrawsPrev
  <2>3. /\ WordsDrawn(op, p) = NumWords
        /\ WordsDrawn(op, prev_party(p)) = NumWords
    BY <2>1, Ring DEF WordsDrawn
  <2> HIDE DEF kinds
  <2> QED
    BY <1>3, <1>4, <2>1, <2>2, <2>3, ScriptFinal
<1>7. steps \in Seq(StepRecord)
  BY <1>4 DEF Script
<1> QED
  BY <1>1, <1>5, <1>6, <1>7 DEF Orderly

(* The other party that permutes.                                          *)
LEMMA OrderlyHelper ==
    ASSUME NEW op \in Operation, NEW p \in Party, op.kind = "shuffle", p = next_party(op.party)
    PROVE  Orderly(op, p)
<1> DEFINE w == <<"take_next", "permute", "deal", "send_next", "recv_prev_xor">>
           kinds == {"take_next", "permute", "deal", "send_next", "recv_prev_xor"}
           steps == (Part("take_next") \o Part("permute")) \o ((Part("deal") \o Part("send_next")) \o Part("recv_prev_xor"))
<1>1. Steps(op, p) = steps
  <2>1. op.party \in Party
    BY OperationIs
  <2>2. From2SharesSteps(op.party, next_party(op.party), p)
          = InputSteps(next_party(op.party), p) \o InputXorSteps(op.party, p)
    BY <2>1, Ring DEF From2SharesSteps
  <2>3. InputSteps(next_party(op.party), p) = Do("deal", 1, NumWords) \o Each("send_next", 1, NumWords)
    BY <2>1, Ring DEF InputSteps
  <2>4. InputXorSteps(op.party, p) = Each("recv_prev_xor", 1, NumWords)
    BY <2>1, Ring DEF InputXorSteps
  <2>5. Reshare3to2Steps(op.party, next_party(op.party), p) = Do("take_next", 1, NumWords)
    BY <2>1, Ring DEF Reshare3to2Steps
  <2>6. (IF p \in {op.party, next_party(op.party)} THEN Do("permute", 1, NumWords) ELSE Nothing) = Do("permute", 1, NumWords)
    BY <2>1, Ring
  <2>7. Steps(op, p) = ShuffleSteps(op.party, p)
    BY DEF Steps
  <2>9. /\ Part("take_next") = Do("take_next", 1, NumWords)
        /\ Part("permute") = Do("permute", 1, NumWords)
        /\ Part("deal") = Do("deal", 1, NumWords)
        /\ Part("send_next") = Each("send_next", 1, NumWords)
        /\ Part("recv_prev_xor") = Each("recv_prev_xor", 1, NumWords)
    BY Kinds, Parts
  <2> QED
    BY <2>2, <2>3, <2>4, <2>5, <2>6, <2>7, <2>9 DEF ShuffleSteps
<1>2. w[1] = "take_next" /\ w[2] = "permute" /\ w[3] = "deal" /\ w[4] = "send_next" /\ w[5] = "recv_prev_xor"
  OBVIOUS
<1>3. Exactly(5, w, kinds)
  BY <1>2 DEF Exactly
<1> HIDE DEF w
<1>4. Script(steps, 5, w)
  <2>1. "take_next" \in What /\ "permute" \in What /\ "deal" \in What /\ "send_next" \in What /\ "recv_prev_xor" \in What
    BY Kinds
  <2> QED
    BY <1>2, <2>1, Script5
<1> HIDE DEF steps
<1>5. ASSUME NEW s \in 1 .. Len(steps) PROVE Ready(op, p, steps, s)
  <2>1. PICK t \in 1 .. 5 : Place(steps, w, s, t)
    BY <1>4 DEF Script
  <2>2. steps[s].lo \in Word
    BY <1>4 DEF Script, StepRecord
  <2>3. CASE t = 1
    <3>1. steps[s].do = "take_next" /\ steps[s].lo = 1 /\ steps[s].hi = NumWords
      BY <1>2, <2>1, <2>3, Kinds DEF Place
    <3>2. /\ "take_next" \notin RewritesNext
         /\ "take_next" \notin RewritesPrev
      BY DEF RewritesNext, RewritesPrev
    <3>3. /\ Did(steps, s, RewritesNext) = {}
         /\ Did(steps, s, RewritesPrev) = {}
         /\ Did(steps, s, {"secrets"}) = {}
         /\ Did(steps, s, {"deal_xor"}) = {}
      BY <1>2, <2>1, <2>3, Kinds, <3>2 DEF Place
    <3>4. \A whats : Did(steps, s, whats) = {}
      BY <1>2, <2>1, <2>3, Kinds DEF Place
    <3>5. op.party \in Party
      BY OperationIs
    <3> QED
      BY <2>2, <3>1, <3>3, <3>4, <3>5, ReadyShuffle, Ring
  <2>4. CASE t = 2
    <3>1. steps[s].do = "permute" /\ steps[s].lo = 1 /\ steps[s].hi = NumWords
      BY <1>2, <2>1, <2>4, Kinds DEF Place
    <3>2. /\ "take_next" \notin RewritesNext
         /\ "take_next" \notin RewritesPrev
         /\ "take_next" \in Takes
         /\ "permute" \notin RewritesNext
         /\ "permute" \notin RewritesPrev
         /\ "permute" \notin Takes
      BY DEF RewritesNext, RewritesPrev, Takes
    <3>3. /\ Did(steps, s, Takes) = Word
         /\ Did(steps, s, RewritesNext) = {}
         /\ Did(steps, s, RewritesPrev) = {}
         /\ Did(steps, s, {"secrets"}) = {}
         /\ Did(steps, s, {"deal_xor"}) = {}
         /\ Did(steps, s, {"permute"}) = {}
      BY <1>2, <2>1, <2>4, Kinds, <3>2 DEF Place
    <3>4. op.party \in Party
      BY OperationIs
    <3> QED
      BY <2>2, <3>1, <3>3, <3>4, ReadyShuffle, Ring
  <2>5. CASE t = 3
    <3>1. steps[s].do = "deal" /\ steps[s].lo = 1 /\ steps[s].hi = NumWords
      BY <1>2, <2>1, <2>5, Kinds DEF Place
    <3>2. /\ "take_next" \notin DrawsPrev
         /\ "take_next" \notin RewritesNext
         /\ "take_next" \notin RewritesPrev
         /\ "take_next" \in Takes
         /\ "permute" \notin DrawsPrev
         /\ "permute" \notin RewritesNext
         /\ "permute" \notin RewritesPrev
         /\ "permute" \notin Takes
         /\ "deal" \in DrawsPrev
         /\ "deal" \notin RewritesNext
         /\ "deal" \notin RewritesPrev
         /\ "deal" \notin Takes
      BY DEF DrawsPrev, RewritesNext, RewritesPrev, Takes
    <3>3. /\ Did(steps, s, Takes) = Word
         /\ Did(steps, s, {"permute"}) = Word
         /\ Did(steps, s, RewritesNext) = {}
         /\ Did(steps, s, RewritesPrev) = {}
         /\ Did(steps, s, DrawsPrev) = {}
         /\ Did(steps, s, {"secrets"}) = {}
         /\ Did(steps, s, {"deal_xor"}) = {}
      BY <1>2, <2>1, <2>5, Kinds, <3>2 DEF Place
    <3>4. op.party \in Party
      BY OperationIs
    <3> QED
      BY <2>2, <3>1, <3>3, <3>4, ReadyShuffle, Ring
  <2>6. CASE t = 4
    <3>1. steps[s].do = "send_next"
      BY <1>2, <2>1, <2>6, Kinds DEF Place
    <3>2. /\ "take_next" \notin RewritesNext
         /\ "take_next" \notin WritesNext
         /\ "permute" \notin RewritesNext
         /\ "permute" \notin WritesNext
         /\ "deal" \notin RewritesNext
         /\ "deal" \in WritesNext
         /\ "send_next" \notin RewritesNext
         /\ "send_next" \notin WritesNext
      BY DEF RewritesNext, WritesNext, Once
    <3>3. /\ Did(steps, s, WritesNext) = Word
         /\ Did(steps, s, RewritesNext) = {}
      BY <1>2, <2>1, <2>6, Kinds, <3>2 DEF Place
    <3>4. op.party \in Party
      BY OperationIs
    <3> QED
      BY <2>2, <3>1, <3>3, <3>4, ReadyLoop, Ring
  <2>7. CASE t = 5
    <3>1. steps[s].do = "recv_prev_xor"
      BY <1>2, <2>1, <2>7, Kinds DEF Place
    <3>2. /\ "take_next" \notin RewritesPrev
         /\ "take_next" \notin WritesPrev
         /\ "permute" \notin RewritesPrev
         /\ "permute" \notin WritesPrev
         /\ "deal" \notin RewritesPrev
         /\ "deal" \in WritesPrev
         /\ "send_next" \notin RewritesPrev
         /\ "send_next" \notin WritesPrev
         /\ "recv_prev_xor" \in RewritesPrev
         /\ "recv_prev_xor" \notin WritesPrev
      BY DEF RewritesPrev, WritesPrev, Once
    <3>3. /\ Did(steps, s, WritesPrev) = Word
         /\ steps[s].lo \notin Did(steps, s, RewritesPrev)
      BY <1>2, <2>1, <2>7, Kinds, <3>2 DEF Place
    <3>4. op.party \in Party
      BY OperationIs
    <3> QED
      BY <2>2, <3>1, <3>3, <3>4, ReadyLoop, Ring
  <2> QED
    BY <2>1, <2>3, <2>4, <2>5, <2>6, <2>7
<1>6. Final(op, p, steps)
  <2>1. op.party \in Party /\ ~RevealedTo(op, p)
    BY OperationIs DEF RevealedTo
  <2>2. /\ kinds \cap WritesNext # {}
        /\ kinds \cap RewritesNext = {}
        /\ kinds \cap WritesPrev # {}
        /\ kinds \cap RewritesPrev # {}
        /\ kinds \cap DrawsNext = {}
        /\ kinds \cap DrawsPrev # {}
    BY DEF RewritesNext, RewritesPrev, WritesNext, WritesPrev, Once, DrawsNext, DrawsPrev
  <2>3. /\ WordsDrawn(op, p) = 0
        /\ WordsDrawn(op, prev_party(p)) = NumWords
    BY <2>1, Ring DEF WordsDrawn
  <2>4. LastIsFirst(op, p)
    BY <2>1, Ring DEF LastIsFirst
  <2> HIDE DEF kinds
  <2> QED
    BY <1>3, <1>4, <2>1, <2>2, <2>3, <2>4, ScriptFinal
<1>7. steps \in Seq(StepRecord)
  BY <1>4 DEF Script
<1> QED
  BY <1>1, <1>5, <1>6, <1>7 DEF Orderly

(* The party that does not permute.                                        *)
LEMMA OrderlyReceiver ==
    ASSUME NEW op \in Operation, NEW p \in Party, op.kind = "shuffle", p = prev_party(op.party)
    PROVE  Orderly(op, p)
<1> DEFINE w == <<"recv_prev", "zero_next", "pad_xor">>
           kinds == {"recv_prev", "zero_next", "pad_xor"}
           steps == (Part("recv_prev") \o Part("zero_next")) \o Part("pad_xor")
<1>1. Steps(op, p) = steps
  <2>1. op.party \in Party
    BY OperationIs
  <2>2. From2SharesSteps(op.party, next_party(op.party), p)
          = InputSteps(next_party(op.party), p) \o InputXorSteps(op.party, p)
    BY <2>1, Ring DEF From2SharesSteps
  <2>3. InputSteps(next_party(op.party), p) = Each("recv_prev", 1, NumWords) \o Do("zero_next", 1, NumWords)
    BY <2>1, Ring DEF InputSteps
  <2>4. InputXorSteps(op.party, p) = Do("pad_xor", 1, NumWords)
    BY <2>1, Ring DEF InputXorSteps
  <2>5. Reshare3to2Steps(op.party, next_party(op.party), p) = Nothing
    BY <2>1, Ring DEF Reshare3to2Steps
  <2>6. (IF p \in {op.party, next_party(op.party)} THEN Do("permute", 1, NumWords) ELSE Nothing) = Nothing
    BY <2>1, Ring
  <2>7. Steps(op, p) = ShuffleSteps(op.party, p)
    BY DEF Steps
  <2>9. /\ Part("recv_prev") = Each("recv_prev", 1, NumWords)
        /\ Part("zero_next") = Do("zero_next", 1, NumWords)
        /\ Part("pad_xor") = Do("pad_xor", 1, NumWords)
    BY Kinds, Parts
  <2>10. steps \in Seq(StepRecord) /\ Nothing \o Nothing = Nothing /\ Nothing \o steps = steps
    BY Kinds, Parts, DidPart, JoinIs DEF Nothing
  <2> QED
    BY <2>2, <2>3, <2>4, <2>5, <2>6, <2>7, <2>9, <2>10 DEF ShuffleSteps
<1>2. w[1] = "recv_prev" /\ w[2] = "zero_next" /\ w[3] = "pad_xor"
  OBVIOUS
<1>3. Exactly(3, w, kinds)
  BY <1>2 DEF Exactly
<1> HIDE DEF w
<1>4. Script(steps, 3, w)
  <2>1. "recv_prev" \in What /\ "zero_next" \in What /\ "pad_xor" \in What
    BY Kinds
  <2> QED
    BY <1>2, <2>1, Script3
<1> HIDE DEF steps
<1>5. ASSUME NEW s \in 1 .. Len(steps) PROVE Ready(op, p, steps, s)
  <2>1. PICK t \in 1 .. 3 : Place(steps, w, s, t)
    BY <1>4 DEF Script
  <2>2. steps[s].lo \in Word
    BY <1>4 DEF Script, StepRecord
  <2>3. CASE t = 1
    <3>1. steps[s].do = "recv_prev"
      BY <1>2, <2>1, <2>3, Kinds DEF Place
    <3>2. /\ "recv_prev" \notin RewritesNext
         /\ "recv_prev" \notin RewritesPrev
      BY DEF RewritesNext, RewritesPrev
    <3>3. /\ Did(steps, s, RewritesNext) = {}
         /\ Did(steps, s, RewritesPrev) = {}
      BY <1>2, <2>1, <2>3, Kinds, <3>2 DEF Place
    <3>4. op.party \in Party
      BY OperationIs
    <3> QED
      BY <2>2, <3>1, <3>3, <3>4, ReadyLoop, Ring
  <2>4. CASE t = 2
    <3>1. steps[s].do = "zero_next" /\ steps[s].lo = 1 /\ steps[s].hi = NumWords
      BY <1>2, <2>1, <2>4, Kinds DEF Place
    <3>2. /\ "recv_prev" \notin RewritesNext
         /\ "recv_prev" \notin RewritesPrev
         /\ "zero_next" \notin RewritesNext
         /\ "zero_next" \notin RewritesPrev
      BY DEF RewritesNext, RewritesPrev
    <3>3. /\ Did(steps, s, RewritesNext) = {}
         /\ Did(steps, s, RewritesPrev) = {}
         /\ Did(steps, s, {"secrets"}) = {}
         /\ Did(steps, s, {"deal_xor"}) = {}
      BY <1>2, <2>1, <2>4, Kinds, <3>2 DEF Place
    <3>4. op.party \in Party
      BY OperationIs
    <3> QED
      BY <2>2, <3>1, <3>3, <3>4, ReadyShuffle, Ring
  <2>5. CASE t = 3
    <3>1. steps[s].do = "pad_xor" /\ steps[s].lo = 1 /\ steps[s].hi = NumWords
      BY <1>2, <2>1, <2>5, Kinds DEF Place
    <3>2. /\ "recv_prev" \notin DrawsNext
         /\ "recv_prev" \notin RewritesNext
         /\ "recv_prev" \notin RewritesPrev
         /\ "recv_prev" \notin WritesNext
         /\ "zero_next" \notin DrawsNext
         /\ "zero_next" \notin RewritesNext
         /\ "zero_next" \notin RewritesPrev
         /\ "zero_next" \in WritesNext
         /\ "pad_xor" \in DrawsNext
         /\ "pad_xor" \in RewritesNext
         /\ "pad_xor" \notin RewritesPrev
         /\ "pad_xor" \notin WritesNext
      BY DEF DrawsNext, RewritesNext, RewritesPrev, WritesNext, Once
    <3>3. /\ Did(steps, s, WritesNext) = Word
         /\ Did(steps, s, RewritesNext) = {}
         /\ Did(steps, s, RewritesPrev) = {}
         /\ Did(steps, s, DrawsNext) = {}
         /\ Did(steps, s, {"secrets"}) = {}
         /\ Did(steps, s, {"deal_xor"}) = {}
      BY <1>2, <2>1, <2>5, Kinds, <3>2 DEF Place
    <3>4. op.party \in Party
      BY OperationIs
    <3> QED
      BY <2>2, <3>1, <3>3, <3>4, ReadyShuffle, Ring
  <2> QED
    BY <2>1, <2>3, <2>4, <2>5
<1>6. Final(op, p, steps)
  <2>1. op.party \in Party /\ ~RevealedTo(op, p)
    BY OperationIs DEF RevealedTo
  <2>2. /\ kinds \cap WritesNext # {}
        /\ kinds \cap RewritesNext # {}
        /\ kinds \cap WritesPrev # {}
        /\ kinds \cap RewritesPrev = {}
        /\ kinds \cap DrawsNext # {}
        /\ kinds \cap DrawsPrev = {}
    BY DEF RewritesNext, RewritesPrev, WritesNext, WritesPrev, Once, DrawsNext, DrawsPrev
  <2>3. /\ WordsDrawn(op, p) = NumWords
        /\ WordsDrawn(op, prev_party(p)) = 0
    BY <2>1, Ring DEF WordsDrawn
  <2>4. LastIsFirst(op, prev_party(p))
    BY <2>1, Ring DEF LastIsFirst
  <2> HIDE DEF kinds
  <2> QED
    BY <1>3, <1>4, <2>1, <2>2, <2>3, <2>4, ScriptFinal
<1>7. steps \in Seq(StepRecord)
  BY <1>4 DEF Script
<1> QED
  BY <1>1, <1>5, <1>6, <1>7 DEF Orderly

-----------------------------------------------------------------------------
(* Operations on windows of words *)

(* The words below a have been multiplied and those below b received.      *)
WaveStep(x, kinds, s) ==
    LET multiplied == Did(x, s, {"multiply"})
    IN /\ x[s].do \in kinds
       /\ x[s].do = "multiply" => multiplied = 1 .. x[s].lo - 1 /\ x[s].hi - x[s].lo + 1 =< MandWindow
       /\ x[s].do = "send_next" => x[s].lo \in multiplied

Wave(x, kinds, a, b) ==
    /\ x \in Seq(StepRecord) /\ \A s \in 1 .. Len(x) : WaveStep(x, kinds, s)
    /\ Did(x, Len(x) + 1, {"multiply"}) = 1 .. a /\ Did(x, Len(x) + 1, Receiving) = 1 .. b

(* The empty wave.                                                         *)
LEMMA WaveStart ==
    ASSUME NEW kinds
    PROVE  Wave(Nothing, kinds, 0, 0)
<1>1. Nothing \in Seq(StepRecord) /\ Len(Nothing) = 0 /\ 1 .. 0 = {} /\ 0 + 1 = 1 /\ 1 - 1 = 0
  BY DEF Nothing
<1>2. \A whats : Did(Nothing, 1, whats) = {}
  BY <1>1 DEF Did
<1> QED
  BY <1>1, <1>2 DEF Wave

(* A wave goes on with steps that go on from it.                           *)
LEMMA WaveJoin ==
    ASSUME NEW x, NEW kinds, NEW a, NEW b, Wave(x, kinds, a, b),
           NEW y \in Seq(StepRecord), NEW c, NEW d,
           \A s \in 1 .. Len(y) :
               /\ y[s].do \in kinds
               /\ y[s].do = "multiply" => /\ (1 .. a) \cup Did(y, s, {"multiply"}) = 1 .. y[s].lo - 1
                                          /\ y[s].hi - y[s].lo + 1 =< MandWindow
               /\ y[s].do = "send_next" => y[s].lo \in (1 .. a) \cup Did(y, s, {"multiply"}),
           (1 .. a) \cup Did(y, Len(y) + 1, {"multiply"}) = 1 .. c,
           (1 .. b) \cup Did(y, Len(y) + 1, Receiving) = 1 .. d
    PROVE  Wave(x \o y, kinds, c, d)
<1> DEFINE z == x \o y
<1>1. x \in Seq(StepRecord)
  BY DEF Wave
<1>2. /\ z \in Seq(StepRecord) /\ Len(z) = Len(x) + Len(y) /\ Len(x) \in Nat /\ Len(y) \in Nat
      /\ \A j \in 1 .. Len(x) : z[j] = x[j]
      /\ \A j \in 1 .. Len(y) : z[Len(x) + j] = y[j]
  BY <1>1, JoinIs
<1>3. \A whats : /\ \A s \in 1 .. Len(x) + 1 : Did(z, s, whats) = Did(x, s, whats)
                 /\ \A s \in 1 .. Len(y) + 1 :
                       Did(z, Len(x) + s, whats) = Did(x, Len(x) + 1, whats) \cup Did(y, s, whats)
  BY <1>1, DidJoin
<1>4. Did(x, Len(x) + 1, {"multiply"}) = 1 .. a /\ Did(x, Len(x) + 1, Receiving) = 1 .. b
  BY DEF Wave
<1> HIDE DEF z
<1>5. ASSUME NEW s \in 1 .. Len(z) PROVE WaveStep(z, kinds, s)
  <2>1. CASE s \in 1 .. Len(x)
    <3>1. s \in 1 .. Len(x) + 1 /\ z[s] = x[s] /\ WaveStep(x, kinds, s)
      BY <1>2, <2>1 DEF Wave
    <3>2. Did(z, s, {"multiply"}) = Did(x, s, {"multiply"})
      BY <1>3, <3>1
    <3> QED
      BY <3>1, <3>2 DEF WaveStep
  <2>2. CASE s \notin 1 .. Len(x)
    <3> DEFINE t == s - Len(x)
    <3>1. t \in 1 .. Len(y) /\ t \in 1 .. Len(y) + 1 /\ Len(x) + t = s
      BY <1>2, <2>2
    <3> HIDE DEF t
    <3>2. z[s] = y[t]
      BY <1>2, <3>1
    <3>3. Did(z, s, {"multiply"}) = (1 .. a) \cup Did(y, t, {"multiply"})
      BY <1>3, <1>4, <3>1
    <3> QED
      BY <3>1, <3>2, <3>3 DEF WaveStep
  <2> QED
    BY <2>1, <2>2
<1>6. Len(x) + (Len(y) + 1) = Len(z) + 1 /\ Len(y) + 1 \in 1 .. Len(y) + 1
  BY <1>2
<1>7. /\ Did(z, Len(z) + 1, {"multiply"}) = (1 .. a) \cup Did(y, Len(y) + 1, {"multiply"})
      /\ Did(z, Len(z) + 1, Receiving) = (1 .. b) \cup Did(y, Len(y) + 1, Receiving)
  BY <1>3, <1>4, <1>6
<1> QED
  BY <1>2, <1>5, <1>7 DEF Wave, z

(* A wave goes on with a window multiplied,                                *)
LEMMA WaveMultiply ==
    ASSUME NEW x, NEW kinds, NEW a \in Nat, NEW b \in Nat, Wave(x, kinds, a, b), "multiply" \in kinds,
           a + 1 \in Word, NEW c \in Word, a + 1 =< c, c - a =< MandWindow
    PROVE  Wave(x \o Do("multiply", a + 1, c), kinds, c, b)
<1> DEFINE y == Do("multiply", a + 1, c)
<1>1. "multiply" \in Local /\ "multiply" \in What /\ "multiply" \notin Receiving
  BY Kinds
<1>2. y \in Seq(StepRecord) /\ Len(y) = 1 /\ y[1] = StepOf("multiply", a + 1, c)
  BY <1>1, DoIs
<1>3. \A whats : Did(y, 1, whats) = {} /\ Did(y, 2, whats) = IF "multiply" \in whats THEN a + 1 .. c ELSE {}
  BY <1>1, DidDo
<1> HIDE DEF y
<1>4. y[1].do = "multiply" /\ y[1].lo = a + 1 /\ y[1].hi = c
  BY <1>2, StepFields
<1>5. c \in Nat /\ (a + 1) - 1 = a /\ c - (a + 1) + 1 = c - a /\ (1 .. a) \cup (a + 1 .. c) = 1 .. c
  BY Rep3Assumption DEF Word
<1>6. Did(y, 2, {"multiply"}) = a + 1 .. c /\ Did(y, 2, Receiving) = {}
  BY <1>1, <1>3
<1>7. \A s \in 1 .. Len(y) : s = 1
  BY <1>2
<1>8. \A s \in 1 .. Len(y) :
          /\ y[s].do \in kinds
          /\ y[s].do = "multiply" => /\ (1 .. a) \cup Did(y, s, {"multiply"}) = 1 .. y[s].lo - 1
                                     /\ y[s].hi - y[s].lo + 1 =< MandWindow
          /\ y[s].do = "send_next" => y[s].lo \in (1 .. a) \cup Did(y, s, {"multiply"})
  BY <1>3, <1>4, <1>5, <1>7
<1>9. /\ (1 .. a) \cup Did(y, Len(y) + 1, {"multiply"}) = 1 .. c
      /\ (1 .. b) \cup Did(y, Len(y) + 1, Receiving) = 1 .. b
  <2>1. Len(y) + 1 = 2
    BY <1>2
  <2> QED
    BY <1>5, <1>6, <2>1
<1> QED
  BY <1>2, <1>8, <1>9, WaveJoin DEF y

(* with a window sent,                                                     *)
LEMMA WaveSend ==
    ASSUME NEW x, NEW kinds, NEW a \in Nat, NEW b \in Nat, Wave(x, kinds, a, b),
           NEW what \in Sending, what \in kinds,
           NEW lo \in Word, NEW hi \in Word, lo =< hi, what = "send_next" => hi =< a
    PROVE  Wave(x \o Each(what, lo, hi), kinds, a, b)
<1> DEFINE y == Each(what, lo, hi)
<1>1. what \in What /\ what \notin Receiving /\ what # "multiply"
  BY Kinds DEF Sending
<1>2. /\ y \in Seq(StepRecord) /\ Len(y) = hi - lo + 1
      /\ \A j \in 1 .. hi - lo + 1 : y[j] = StepOf(what, lo + j - 1, hi)
  BY <1>1, EachIs
<1>3. \A whats : \A s \in 1 .. hi - lo + 2 : Did(y, s, whats) = IF what \in whats THEN lo .. lo + s - 2 ELSE {}
  BY <1>1, DidEach
<1> HIDE DEF y
<1>4. lo \in Nat /\ hi \in Nat /\ 1 =< lo /\ hi =< NumWords /\ NumWords \in Nat
  BY Rep3Assumption DEF Word
<1>5. ASSUME NEW s \in 1 .. Len(y)
      PROVE  /\ y[s].do = what
             /\ what = "send_next" => y[s].lo \in 1 .. a
  <2>1. y[s].do = what /\ y[s].lo = lo + s - 1
    BY <1>2, StepFields
  <2>2. what = "send_next" => lo + s - 1 \in 1 .. a
    BY <1>2, <1>4
  <2> QED
    BY <2>1, <2>2
<1>6. Did(y, Len(y) + 1, {"multiply"}) = {} /\ Did(y, Len(y) + 1, Receiving) = {}
  <2>1. Len(y) + 1 \in 1 .. hi - lo + 2
    BY <1>2, <1>4
  <2> QED
    BY <1>1, <1>3, <2>1
<1>7. \A s \in 1 .. Len(y) :
          /\ y[s].do \in kinds
          /\ y[s].do = "multiply" => /\ (1 .. a) \cup Did(y, s, {"multiply"}) = 1 .. y[s].lo - 1
                                     /\ y[s].hi - y[s].lo + 1 =< MandWindow
          /\ y[s].do = "send_next" => y[s].lo \in (1 .. a) \cup Did(y, s, {"multiply"})
  BY <1>1, <1>5
<1>8. /\ (1 .. a) \cup Did(y, Len(y) + 1, {"multiply"}) = 1 .. a
      /\ (1 .. b) \cup Did(y, Len(y) + 1, Receiving) = 1 .. b
  BY <1>6
<1> QED
  BY <1>2, <1>7, <1>8, WaveJoin DEF y

(* with a window received.                                                 *)
LEMMA WaveRecv ==
    ASSUME NEW x, NEW kinds, NEW a \in Nat, NEW b \in Nat, Wave(x, kinds, a, b),
           NEW what \in Receiving, what \in kinds,
           b + 1 \in Word, NEW hi \in Word, b + 1 =< hi
    PROVE  Wave(x \o Each(what, b + 1, hi), kinds, a, hi)
<1> DEFINE y == Each(what, b + 1, hi)
<1>1. what \in What /\ what # "multiply" /\ what # "send_next"
  BY Kinds DEF Receiving
<1>2. /\ y \in Seq(StepRecord) /\ Len(y) = hi - (b + 1) + 1
      /\ \A j \in 1 .. hi - (b + 1) + 1 : y[j] = StepOf(what, b + 1 + j - 1, hi)
  BY <1>1, EachIs
<1>3. \A whats : \A s \in 1 .. hi - (b + 1) + 2 :
          Did(y, s, whats) = IF what \in whats THEN b + 1 .. b + 1 + s - 2 ELSE {}
  BY <1>1, DidEach
<1> HIDE DEF y
<1>4. hi \in Nat /\ (1 .. b) \cup (b + 1 .. hi) = 1 .. hi
  BY Rep3Assumption DEF Word
<1>5. \A s \in 1 .. Len(y) : y[s].do = what
  BY <1>2, StepFields
<1>6. Did(y, Len(y) + 1, {"multiply"}) = {} /\ Did(y, Len(y) + 1, Receiving) = b + 1 .. hi
  <2>1. Len(y) + 1 \in 1 .. hi - (b + 1) + 2 /\ b + 1 + (Len(y) + 1) - 2 = hi
    BY <1>2, <1>4
  <2>2. Did(y, Len(y) + 1, {"multiply"}) = {}
    BY <1>1, <1>3, <2>1
  <2>3. Did(y, Len(y) + 1, Receiving) = b + 1 .. b + 1 + (Len(y) + 1) - 2
    BY <1>1, <1>3, <2>1
  <2> QED
    BY <2>1, <2>2, <2>3
<1>7. \A s \in 1 .. Len(y) :
          /\ y[s].do \in kinds
          /\ y[s].do = "multiply" => /\ (1 .. a) \cup Did(y, s, {"multiply"}) = 1 .. y[s].lo - 1
                                     /\ y[s].hi - y[s].lo + 1 =< MandWindow
          /\ y[s].do = "send_next" => y[s].lo \in (1 .. a) \cup Did(y, s, {"multiply"})
  BY <1>1, <1>5
<1>8. /\ (1 .. a) \cup Did(y, Len(y) + 1, {"multiply"}) = 1 .. a
      /\ (1 .. b) \cup Did(y, Len(y) + 1, Receiving) = 1 .. hi
  BY <1>4, <1>6
<1> QED
  BY <1>2, <1>7, <1>8, WaveJoin DEF y

(* A window is no longer than its size.                                    *)
LEMMA WindowSize ==
    ASSUME NEW size \in Nat \ {0}, NEW w \in DOMAIN Windows(size)
    PROVE  Windows(size)[w].hi - Windows(size)[w].lo + 1 =< size
<1> DEFINE m == w * size
<1>1. w \in Int /\ size \in Int /\ m \in Int /\ NumWords \in Int
  BY Rep3Assumption DEF Windows
<1>2. (w - 1) * size + 1 = m - size + 1
  BY <1>1
<1>3. Windows(size)[w].lo = m - size + 1 /\ Windows(size)[w].hi = Smaller(m, NumWords)
  BY <1>2 DEF Windows, Bounds
<1> HIDE DEF m
<1>4. Smaller(m, NumWords) \in Int /\ Smaller(m, NumWords) =< m
  BY <1>1 DEF Smaller
<1> QED
  BY <1>1, <1>3, <1>4

(* Windows one after the other.                                            *)
LEMMA WaveFlatten ==
    ASSUME NEW n \in Nat \ {0}, NEW seqs \in [1 .. n -> Seq(StepRecord)], NEW kinds,
           NEW h, NEW g, h[0] = 0, g[0] = 0,
           \A i \in 1 .. n : \A x : Wave(x, kinds, h[i - 1], g[i - 1]) => Wave(x \o seqs[i], kinds, h[i], g[i])
    PROVE  Wave(Seqs!FlattenSeq(seqs), kinds, h[n], g[n])
<1>1. PICK s :
        /\ \A i \in 0 .. n : s[i] \in Seq(StepRecord)
        /\ s[1] = seqs[1] /\ s[n] = Seqs!FlattenSeq(seqs)
        /\ \A i \in 2 .. n : s[i] = Join(s[i - 1], seqs[i])
  BY FlattenSteps
<1> DEFINE S == Seq(StepRecord)
           U == {i \in 0 .. n : i > 0 => Wave(s[i], kinds, h[i], g[i])}
<1>2. Nothing \o seqs[1] = seqs[1]
  BY DEF Nothing
<1>3. (\A i \in 0 .. n : s[i] \in S) /\ seqs \in [1 .. n -> S]
  BY <1>1
<1> HIDE DEF S
<1>4. 0 \in U
  OBVIOUS
<1>5. ASSUME NEW i \in 1 .. n, i - 1 \in U PROVE i \in U
  <2>1. CASE i = 1
    <3>1. Wave(Nothing, kinds, h[i - 1], g[i - 1])
      BY <2>1, WaveStart
    <3>2. Wave(Nothing \o seqs[i], kinds, h[i], g[i])
      BY <3>1
    <3>3. s[i] = Nothing \o seqs[i]
      BY <1>1, <1>2, <2>1
    <3>4. Wave(s[i], kinds, h[i], g[i])
      BY <3>2, <3>3
    <3>5. i \in 0 .. n
      OBVIOUS
    <3> QED
      BY <3>4, <3>5, Zenon
  <2>2. CASE i # 1
    <3>1. i - 1 \in 1 .. n /\ i \in 2 .. n
      BY <2>2
    <3>2. Wave(s[i - 1], kinds, h[i - 1], g[i - 1])
      BY <1>5, <3>1
    <3>3. Wave(s[i - 1] \o seqs[i], kinds, h[i], g[i])
      BY <3>2
    <3>4. s[i] = s[i - 1] \o seqs[i]
      BY <1>1, <3>1 DEF Join
    <3>5. Wave(s[i], kinds, h[i], g[i])
      BY <3>3, <3>4
    <3>6. i \in 0 .. n
      OBVIOUS
    <3> QED
      BY <3>5, <3>6, Zenon
  <2> QED
    BY <2>1, <2>2
<1>6. n \in U
  <2> HIDE DEF U
  <2>1. \A i \in 0 .. n : i \in U
    BY <1>4, <1>5, InductionUpTo
  <2> QED
    BY <2>1
<1> QED
  BY <1>1, <1>6

Opening == {"send_prev", "recv_public"}
Gate == {"multiply", "send_next", "recv_prev"}

(* The windows of an opening.                                              *)
LEMMA OpeningWave == Wave(SendAndRecvSteps, Opening, 0, NumWords)
<1>1. IoWindow \in Nat \ {0}
  BY Rep3Assumption
<1>2. PICK n \in Nat \ {0} : \E g \in [0 .. n -> Nat] :
        /\ DOMAIN Windows(IoWindow) = 1 .. n
        /\ g[0] = 0 /\ g[n] = NumWords
        /\ \A i \in 1 .. n : /\ Windows(IoWindow)[i] = [lo |-> g[i - 1] + 1, hi |-> g[i]]
                             /\ g[i - 1] + 1 \in Word /\ g[i] \in Word /\ g[i - 1] + 1 =< g[i]
  BY <1>1, WindowFacts
<1>3. PICK g \in [0 .. n -> Nat] :
        /\ DOMAIN Windows(IoWindow) = 1 .. n
        /\ g[0] = 0 /\ g[n] = NumWords
        /\ \A i \in 1 .. n : /\ Windows(IoWindow)[i] = [lo |-> g[i - 1] + 1, hi |-> g[i]]
                             /\ g[i - 1] + 1 \in Word /\ g[i] \in Word /\ g[i - 1] + 1 =< g[i]
  BY <1>2
<1> DEFINE s(i) == Each("send_prev", g[i - 1] + 1, g[i])
           r(i) == Each("recv_public", g[i - 1] + 1, g[i])
           seqs == [w \in 1 .. n |-> s(w) \o r(w)]
           h == [i \in 0 .. n |-> 0]
<1>4. SendAndRecvSteps = Seqs!FlattenSeq(seqs)
  <2>1. seqs = [w \in DOMAIN Windows(IoWindow) |->
                  LET win == Windows(IoWindow)[w]
                  IN Each("send_prev", win.lo, win.hi) \o Each("recv_public", win.lo, win.hi)]
    <3>1. DOMAIN Windows(IoWindow) = 1 .. n
          /\ \A w \in 1 .. n : Windows(IoWindow)[w].lo = g[w - 1] + 1 /\ Windows(IoWindow)[w].hi = g[w]
      BY <1>3
    <3> QED
      BY <3>1, Zenon
  <2> HIDE DEF seqs
  <2> QED
    BY <2>1, Zenon DEF SendAndRecvSteps
<1>5. "send_prev" \in Sending /\ "send_prev" \in What /\ "recv_public" \in Receiving /\ "recv_public" \in What
      /\ "send_prev" \in Opening /\ "recv_public" \in Opening
  BY Kinds DEF Opening
<1>6. ASSUME NEW i \in 1 .. n
      PROVE  /\ s(i) \in Seq(StepRecord) /\ r(i) \in Seq(StepRecord)
             /\ \A x : Wave(x, Opening, 0, g[i - 1]) => Wave(x \o (s(i) \o r(i)), Opening, 0, g[i])
  <2>1. g[i - 1] \in Nat /\ g[i - 1] + 1 \in Word /\ g[i] \in Word /\ g[i - 1] + 1 =< g[i]
    BY <1>3
  <2>2. s(i) \in Seq(StepRecord) /\ r(i) \in Seq(StepRecord)
    BY <1>5, <2>1, EachIs
  <2>3. ASSUME NEW x, Wave(x, Opening, 0, g[i - 1])
        PROVE  Wave(x \o (s(i) \o r(i)), Opening, 0, g[i])
    <3>1. Wave(x \o s(i), Opening, 0, g[i - 1])
      BY <1>5, <2>1, <2>3, WaveSend
    <3>2. Wave((x \o s(i)) \o r(i), Opening, 0, g[i])
      BY <1>5, <2>1, <3>1, WaveRecv
    <3>3. x \in Seq(StepRecord)
      BY <2>3 DEF Wave
    <3> HIDE DEF s, r
    <3> QED
      BY <2>2, <3>2, <3>3, JoinAssociative
  <2> QED
    BY <2>2, <2>3
<1>7. seqs \in [1 .. n -> Seq(StepRecord)] /\ \A i \in 1 .. n : seqs[i] = s(i) \o r(i)
  <2> HIDE DEF s, r
  <2> QED
    BY <1>6, JoinIs
<1>8. h[0] = 0 /\ h[n] = 0 /\ \A i \in 1 .. n : h[i - 1] = 0 /\ h[i] = 0
  OBVIOUS
<1>9. \A i \in 1 .. n : \A x : Wave(x, Opening, h[i - 1], g[i - 1]) => Wave(x \o seqs[i], Opening, h[i], g[i])
  <2> HIDE DEF s, r, seqs, h
  <2> QED
    BY <1>6, <1>7, <1>8
<1> HIDE DEF s, r, seqs, h
<1>10. Wave(Seqs!FlattenSeq(seqs), Opening, h[n], g[n])
  BY <1>3, <1>7, <1>8, <1>9, WaveFlatten
<1> QED
  BY <1>3, <1>4, <1>8, <1>10

(* The windows of a gate.                                                  *)
LEMMA GateWave == Wave(MandSteps, Gate, NumWords, NumWords)
<1>1. MandWindow \in Nat \ {0}
  BY Rep3Assumption
<1>2. PICK n \in Nat \ {0} : \E g \in [0 .. n -> Nat] :
        /\ DOMAIN Windows(MandWindow) = 1 .. n
        /\ g[0] = 0 /\ g[n] = NumWords
        /\ \A i \in 1 .. n : /\ Windows(MandWindow)[i] = [lo |-> g[i - 1] + 1, hi |-> g[i]]
                             /\ g[i - 1] + 1 \in Word /\ g[i] \in Word /\ g[i - 1] + 1 =< g[i]
  BY <1>1, WindowFacts
<1>3. PICK g \in [0 .. n -> Nat] :
        /\ DOMAIN Windows(MandWindow) = 1 .. n
        /\ g[0] = 0 /\ g[n] = NumWords
        /\ \A i \in 1 .. n : /\ Windows(MandWindow)[i] = [lo |-> g[i - 1] + 1, hi |-> g[i]]
                             /\ g[i - 1] + 1 \in Word /\ g[i] \in Word /\ g[i - 1] + 1 =< g[i]
  BY <1>2
<1> DEFINE d(i) == Do("multiply", g[i - 1] + 1, g[i])
           s(i) == Each("send_next", g[i - 1] + 1, g[i])
           r(i) == Each("recv_prev", g[i - 1] + 1, g[i])
           seqs == [w \in 1 .. n |-> (d(w) \o s(w)) \o r(w)]
<1>4. MandSteps = Seqs!FlattenSeq(seqs)
  <2>1. seqs = [w \in DOMAIN Windows(MandWindow) |->
                  LET win == Windows(MandWindow)[w]
                  IN Do("multiply", win.lo, win.hi) \o Each("send_next", win.lo, win.hi)
                       \o Each("recv_prev", win.lo, win.hi)]
    <3>1. DOMAIN Windows(MandWindow) = 1 .. n
          /\ \A w \in 1 .. n : Windows(MandWindow)[w].lo = g[w - 1] + 1 /\ Windows(MandWindow)[w].hi = g[w]
      BY <1>3
    <3> QED
      BY <3>1, Zenon
  <2> HIDE DEF seqs
  <2> QED
    BY <2>1, Zenon DEF MandSteps
<1>5. /\ "multiply" \in Local /\ "multiply" \in What /\ "multiply" \in Gate
      /\ "send_next" \in Sending /\ "send_next" \in What /\ "send_next" \in Gate
      /\ "recv_prev" \in Receiving /\ "recv_prev" \in What /\ "recv_prev" \in Gate
  BY Kinds DEF Gate
<1>6. ASSUME NEW i \in 1 .. n
      PROVE  /\ d(i) \in Seq(StepRecord) /\ s(i) \in Seq(StepRecord) /\ r(i) \in Seq(StepRecord)
             /\ \A x : Wave(x, Gate, g[i - 1], g[i - 1]) => Wave(x \o ((d(i) \o s(i)) \o r(i)), Gate, g[i], g[i])
  <2>1. g[i - 1] \in Nat /\ g[i] \in Nat /\ g[i - 1] + 1 \in Word /\ g[i] \in Word /\ g[i - 1] + 1 =< g[i]
    BY <1>3
  <2>2. d(i) \in Seq(StepRecord) /\ s(i) \in Seq(StepRecord) /\ r(i) \in Seq(StepRecord)
    BY <1>5, <2>1, DoIs, EachIs
  <2>3. g[i] - g[i - 1] =< MandWindow
    <3>1. i \in DOMAIN Windows(MandWindow) /\ Windows(MandWindow)[i] = [lo |-> g[i - 1] + 1, hi |-> g[i]]
      BY <1>3
    <3>2. Windows(MandWindow)[i].hi - Windows(MandWindow)[i].lo + 1 =< MandWindow
      BY <1>1, <3>1, WindowSize
    <3>3. g[i] - (g[i - 1] + 1) + 1 =< MandWindow
      BY <3>1, <3>2
    <3> QED
      BY <2>1, <3>3
  <2>4. ASSUME NEW x, Wave(x, Gate, g[i - 1], g[i - 1])
        PROVE  Wave(x \o ((d(i) \o s(i)) \o r(i)), Gate, g[i], g[i])
    <3>1. Wave(x \o d(i), Gate, g[i], g[i - 1])
      BY <1>5, <2>1, <2>3, <2>4, WaveMultiply
    <3>2. Wave((x \o d(i)) \o s(i), Gate, g[i], g[i - 1])
      <4>1. g[i] =< g[i]
        BY <2>1
      <4> QED
        BY <1>5, <2>1, <3>1, <4>1, WaveSend
    <3>3. Wave(((x \o d(i)) \o s(i)) \o r(i), Gate, g[i], g[i])
      BY <1>5, <2>1, <3>2, WaveRecv
    <3>4. x \in Seq(StepRecord)
      BY <2>4 DEF Wave
    <3> HIDE DEF d, s, r
    <3>5. x \o ((d(i) \o s(i)) \o r(i)) = (x \o (d(i) \o s(i))) \o r(i)
      <4>1. d(i) \o s(i) \in Seq(StepRecord)
        BY <2>2, JoinIs
      <4> QED
        BY <2>2, <3>4, <4>1, JoinAssociative
    <3>6. x \o (d(i) \o s(i)) = (x \o d(i)) \o s(i)
      BY <2>2, <3>4, JoinAssociative
    <3> QED
      BY <3>3, <3>5, <3>6
  <2> QED
    BY <2>2, <2>4
<1>7. seqs \in [1 .. n -> Seq(StepRecord)] /\ \A i \in 1 .. n : seqs[i] = (d(i) \o s(i)) \o r(i)
  <2> HIDE DEF d, s, r
  <2>1. \A i \in 1 .. n : (d(i) \o s(i)) \o r(i) \in Seq(StepRecord)
    <3>1. \A x, y \in Seq(StepRecord) : x \o y \in Seq(StepRecord)
      BY JoinIs
    <3> QED
      BY <1>6, <3>1
  <2> QED
    BY <2>1
<1>8. \A i \in 1 .. n : \A x : Wave(x, Gate, g[i - 1], g[i - 1]) => Wave(x \o seqs[i], Gate, g[i], g[i])
  <2> HIDE DEF d, s, r, seqs
  <2> QED
    BY <1>6, <1>7
<1> HIDE DEF d, s, r, seqs
<1>9. Wave(Seqs!FlattenSeq(seqs), Gate, g[n], g[n])
  BY <1>3, <1>7, <1>8, WaveFlatten
<1> QED
  BY <1>3, <1>4, <1>9

-----------------------------------------------------------------------------
(* Every operation is in order *)

(* What is done depends on the kinds that occur.                           *)
LEMMA DidSame ==
    ASSUME NEW steps, NEW s, NEW a, NEW b, \A j \in 1 .. s - 1 : steps[j].do \in a <=> steps[j].do \in b
    PROVE  Did(steps, s, a) = Did(steps, s, b)
BY DEF Did

(* Opening a value.                                                        *)
LEMMA OrderlyReveal ==
    ASSUME NEW op \in Operation, NEW p \in Party, op.kind \in {"reveal_to", "reveal_to_all"},
           NEW steps, steps = Steps(op, p), NEW kinds, NEW b, Wave(steps, kinds, 0, b), kinds \subseteq Opening,
           "recv_public" \in kinds => RevealedTo(op, p), RevealedTo(op, p) => b = NumWords
    PROVE  Orderly(op, p)
<1>1. steps \in Seq(StepRecord) /\ \A s \in 1 .. Len(steps) : steps[s].do \in kinds
  BY DEF Wave, WaveStep
<1>2. \A s \in 1 .. Len(steps) : steps[s].do = "send_prev" \/ (steps[s].do = "recv_public" /\ RevealedTo(op, p))
  BY <1>1 DEF Opening
<1>3. \A s \in 1 .. Len(steps) : Ready(op, p, steps, s)
  BY <1>2, ReadyLoop
<1> DEFINE n == Len(steps) + 1
<1>4. \A j \in 1 .. n - 1 : steps[j].do \in {"send_prev", "recv_public"}
  <2>1. Len(steps) \in Nat
    BY <1>1
  <2> QED
    BY <1>2, <2>1
<1>5. Did(steps, n, Receiving) = 1 .. b
  BY DEF Wave
<1> HIDE DEF n
<1>6. /\ Did(steps, n, WritesNext) = {} /\ Did(steps, n, RewritesNext) = {}
      /\ Did(steps, n, WritesPrev) = {} /\ Did(steps, n, RewritesPrev) = {}
      /\ Did(steps, n, DrawsNext) = {} /\ Did(steps, n, DrawsPrev) = {}
  <2>1. \A what \in {"send_prev", "recv_public"} :
            /\ what \notin WritesNext /\ what \notin RewritesNext /\ what \notin WritesPrev
            /\ what \notin RewritesPrev /\ what \notin DrawsNext /\ what \notin DrawsPrev
    BY DEF WritesNext, RewritesNext, WritesPrev, RewritesPrev, DrawsNext, DrawsPrev, Once
  <2> QED
    BY <1>4, <2>1, DidEmpty
<1>7. Did(steps, n, {"recv_public"}) = Did(steps, n, Receiving)
  <2>1. \A what \in {"send_prev", "recv_public"} : what \in {"recv_public"} <=> what \in Receiving
    BY DEF Receiving
  <2> QED
    BY <1>4, <2>1, DidSame
<1>8. ASSUME NEW i, NEW g, NEW q, NEW k
      PROVE  LastWord(op, i, g, q, k) = g.share[q][op.reg][k]
  BY DEF LastWord, FirstWord
<1>9. WordsDrawn(op, p) = 0 /\ WordsDrawn(op, prev_party(p)) = 0
  BY DEF WordsDrawn
<1>10. \A i, g : Settled(op, i, g, p, {}, {}) /\ Settled(op, i, g, prev_party(p), {}, {})
  BY <1>8 DEF Settled
<1>11. Final(op, p, steps)
  <2>1. RevealedTo(op, p) => Did(steps, n, {"recv_public"}) = Word
    BY <1>5, <1>7 DEF Word
  <2> QED
    BY <1>6, <1>9, <1>10, <2>1, Sizes DEF Final, n
<1> QED
  BY <1>1, <1>3, <1>11 DEF Orderly

(* A value revealed to one party.                                          *)
LEMMA OrderlyRevealTo ==
    ASSUME NEW op \in Operation, NEW p \in Party, op.kind = "reveal_to"
    PROVE  Orderly(op, p)
<1>1. op.party \in Party
  BY OperationIs
<1>2. Steps(op, p) = RevealToSteps(op.party, p) /\ (RevealedTo(op, p) <=> p = op.party)
  BY DEF Steps, RevealedTo
<1>3. /\ Nothing \o Each("recv_public", 1, NumWords) = Each("recv_public", 1, NumWords)
      /\ Nothing \o Each("send_prev", 1, NumWords) = Each("send_prev", 1, NumWords)
  BY WholeIs, Kinds DEF Nothing
<1>4. 0 \in Nat /\ 0 + 1 = 1 /\ 1 \in Word /\ NumWords \in Word /\ 1 =< NumWords
  BY WordEnds
<1>5. CASE p = op.party
  <2> DEFINE kinds == {"recv_public"}
  <2>1. Steps(op, p) = Nothing \o Each("recv_public", 0 + 1, NumWords)
    BY <1>1, <1>2, <1>3, <1>4, <1>5, Ring DEF RevealToSteps
  <2>2. Wave(Nothing, kinds, 0, 0)
    BY WaveStart
  <2>3. "recv_public" \in Receiving /\ "recv_public" \in kinds
    BY Kinds
  <2>4. kinds \subseteq Opening
    BY DEF Opening
  <2> HIDE DEF kinds
  <2>5. Wave(Nothing \o Each("recv_public", 0 + 1, NumWords), kinds, 0, NumWords)
    BY <1>4, <2>2, <2>3, WaveRecv
  <2> QED
    BY <1>2, <1>5, <2>1, <2>4, <2>5, OrderlyReveal
<1>6. CASE p = prev_party(op.party)
  <2> DEFINE kinds == {"send_prev"}
  <2>1. Steps(op, p) = Nothing \o Each("send_prev", 1, NumWords) /\ p # op.party
    BY <1>1, <1>2, <1>3, <1>6, Ring DEF RevealToSteps
  <2>2. Wave(Nothing, kinds, 0, 0)
    BY WaveStart
  <2>3. "send_prev" \in Sending /\ "send_prev" \in kinds /\ "recv_public" \notin kinds
    BY Kinds
  <2>4. kinds \subseteq Opening
    BY DEF Opening
  <2> HIDE DEF kinds
  <2>5. Wave(Nothing \o Each("send_prev", 1, NumWords), kinds, 0, 0)
    BY <1>4, <2>2, <2>3, WaveSend
  <2> QED
    BY <1>2, <2>1, <2>3, <2>4, <2>5, OrderlyReveal
<1>7. CASE p # op.party /\ p # prev_party(op.party)
  <2>1. Steps(op, p) = Nothing
    BY <1>2, <1>7 DEF RevealToSteps
  <2>2. Wave(Nothing, {}, 0, 0)
    BY WaveStart
  <2> QED
    BY <1>2, <1>7, <2>1, <2>2, OrderlyReveal
<1> QED
  BY <1>5, <1>6, <1>7

(* A value revealed to all.                                                *)
LEMMA OrderlyRevealToAll ==
    ASSUME NEW op \in Operation, NEW p \in Party, op.kind = "reveal_to_all"
    PROVE  Orderly(op, p)
<1>1. Steps(op, p) = SendAndRecvSteps /\ RevealedTo(op, p)
  BY DEF Steps, RevealedTo
<1> QED
  BY <1>1, OpeningWave, OrderlyReveal

(* The gate: every window draws where the last one stopped.                *)
LEMMA OrderlyGate ==
    ASSUME NEW op \in Operation, NEW p \in Party, op.kind = "mand_gate"
    PROVE  Orderly(op, p)
<1> DEFINE steps == Steps(op, p)
           M == {"multiply"}
<1>1. Wave(steps, Gate, NumWords, NumWords)
  BY GateWave DEF Steps
<1> HIDE DEF steps, M
<1>2. steps \in Seq(StepRecord) /\ \A s \in 1 .. Len(steps) : WaveStep(steps, Gate, s)
  BY <1>1 DEF Wave
<1>3. Len(steps) \in Nat /\ Len(steps) + 1 \in Nat /\ \A j \in 1 .. Len(steps) + 1 - 1 : j \in 1 .. Len(steps)
  BY <1>2
<1>4. ASSUME NEW s \in 1 .. Len(steps) + 1
      PROVE  /\ Did(steps, s, WritesNext) = Did(steps, s, M)
             /\ Did(steps, s, DrawsNext) = Did(steps, s, M)
             /\ Did(steps, s, DrawsPrev) = Did(steps, s, M)
             /\ Did(steps, s, WritesPrev) = Did(steps, s, Receiving)
             /\ Did(steps, s, RewritesNext) = {} /\ Did(steps, s, RewritesPrev) = {}
  <2>1. \A what \in Gate :
            /\ what \in WritesNext <=> what \in M
            /\ what \in DrawsNext <=> what \in M
            /\ what \in DrawsPrev <=> what \in M
            /\ what \in WritesPrev <=> what \in Receiving
            /\ what \notin RewritesNext /\ what \notin RewritesPrev
    BY DEF Gate, WritesNext, WritesPrev, DrawsNext, DrawsPrev, Once, Receiving, RewritesNext, RewritesPrev, M
  <2>2. \A j \in 1 .. s - 1 : steps[j].do \in Gate
    <3>1. \A j \in 1 .. s - 1 : j \in 1 .. Len(steps)
      BY <1>3
    <3> QED
      BY <1>2, <3>1 DEF WaveStep
  <2>3. \A j \in 1 .. s - 1 :
            /\ steps[j].do \in WritesNext <=> steps[j].do \in M
            /\ steps[j].do \in DrawsNext <=> steps[j].do \in M
            /\ steps[j].do \in DrawsPrev <=> steps[j].do \in M
            /\ steps[j].do \in WritesPrev <=> steps[j].do \in Receiving
            /\ steps[j].do \notin RewritesNext /\ steps[j].do \notin RewritesPrev
    BY <2>1, <2>2
  <2>4. Did(steps, s, WritesNext) = Did(steps, s, M)
    BY <2>3, DidSame
  <2>5. Did(steps, s, DrawsNext) = Did(steps, s, M)
    BY <2>3, DidSame
  <2>6. Did(steps, s, DrawsPrev) = Did(steps, s, M)
    BY <2>3, DidSame
  <2>7. Did(steps, s, WritesPrev) = Did(steps, s, Receiving)
    BY <2>3, DidSame
  <2>8. Did(steps, s, RewritesNext) = {} /\ Did(steps, s, RewritesPrev) = {}
    BY <2>3, DidEmpty
  <2> QED
    BY <2>4, <2>5, <2>6, <2>7, <2>8
<1>5. ASSUME NEW s \in 1 .. Len(steps) PROVE Ready(op, p, steps, s)
  <2>1. s \in 1 .. Len(steps) + 1 /\ WaveStep(steps, Gate, s)
    BY <1>2, <1>3
  <2>2. CASE steps[s].do = "multiply"
    <3>1. /\ Did(steps, s, DrawsNext) = 1 .. steps[s].lo - 1 /\ Did(steps, s, DrawsPrev) = 1 .. steps[s].lo - 1
          /\ Did(steps, s, RewritesNext) = {} /\ Did(steps, s, RewritesPrev) = {}
          /\ steps[s].hi - steps[s].lo + 1 =< MandWindow
      BY <1>4, <2>1, <2>2 DEF WaveStep, M
    <3> QED
      BY <2>2, <3>1 DEF Ready, Local, Once, WritesNext, WritesPrev, DrawsNext, DrawsPrev, Takes
  <2>3. CASE steps[s].do = "send_next"
    <3>1. steps[s].lo \in Did(steps, s, WritesNext) /\ Did(steps, s, RewritesNext) = {}
      BY <1>4, <2>1, <2>3 DEF WaveStep, M
    <3> QED
      BY <2>3, <3>1, ReadyLoop
  <2>4. CASE steps[s].do = "recv_prev"
    <3>1. Did(steps, s, RewritesPrev) = {} /\ Did(steps, s, RewritesNext) = {}
      BY <1>4, <2>1
    <3> QED
      BY <2>4, <3>1, ReadyLoop
  <2> QED
    BY <2>1, <2>2, <2>3, <2>4 DEF WaveStep, Gate
<1>6. Final(op, p, steps)
  <2> DEFINE n == Len(steps) + 1
  <2>1. n \in 1 .. Len(steps) + 1
    BY <1>3
  <2>2. Did(steps, n, M) = Word /\ Did(steps, n, Receiving) = Word
    BY <1>1 DEF Wave, Word, M
  <2>3. /\ Did(steps, n, WritesNext) = Word /\ Did(steps, n, RewritesNext) = {}
        /\ Did(steps, n, WritesPrev) = Word /\ Did(steps, n, RewritesPrev) = {}
        /\ Did(steps, n, DrawsNext) = Word /\ Did(steps, n, DrawsPrev) = Word
    BY <1>4, <2>1, <2>2
  <2>4. WordsDrawn(op, p) = NumWords /\ WordsDrawn(op, prev_party(p)) = NumWords
    BY DEF WordsDrawn
  <2>5. LastIsFirst(op, p) /\ LastIsFirst(op, prev_party(p)) /\ prev_party(p) \in Party /\ ~RevealedTo(op, p)
    BY Ring DEF LastIsFirst, RevealedTo
  <2>6. \A i, g : Settled(op, i, g, p, Word, {}) /\ Settled(op, i, g, prev_party(p), Word, {})
    BY <2>5, SettledOnce
  <2> QED
    BY <2>3, <2>4, <2>5, <2>6, Sizes DEF Final
<1> QED
  BY <1>2, <1>5, <1>6 DEF Orderly, steps

(* The choice: four steps on a word.                                       *)
LEMMA ChoiceIs ==
    /\ IfThenElseSteps \in Seq(StepRecord) /\ Len(IfThenElseSteps) = 4
    /\ IfThenElseSteps[1] = StepOf("choose", 1, 1) /\ IfThenElseSteps[2] = StepOf("send_next", 1, 1)
    /\ IfThenElseSteps[3] = StepOf("recv_prev", 1, 1) /\ IfThenElseSteps[4] = StepOf("xor_else", 1, 1)
<1> DEFINE a == Do("choose", 1, 1)
           b == Do("send_next", 1, 1)
           c == Do("recv_prev", 1, 1)
           d == Do("xor_else", 1, 1)
<1>1. "choose" \in What /\ "send_next" \in What /\ "recv_prev" \in What /\ "xor_else" \in What
      /\ 1 \in Word /\ 1 =< 1
  BY Kinds, WordEnds
<1>2. /\ a \in Seq(StepRecord) /\ Len(a) = 1 /\ a[1] = StepOf("choose", 1, 1)
      /\ b \in Seq(StepRecord) /\ Len(b) = 1 /\ b[1] = StepOf("send_next", 1, 1)
      /\ c \in Seq(StepRecord) /\ Len(c) = 1 /\ c[1] = StepOf("recv_prev", 1, 1)
      /\ d \in Seq(StepRecord) /\ Len(d) = 1 /\ d[1] = StepOf("xor_else", 1, 1)
  BY <1>1, DoIs
<1>3. IfThenElseSteps = ((a \o b) \o c) \o d
  BY DEF IfThenElseSteps
<1> HIDE DEF a, b, c, d
<1> DEFINE x == a \o b
           y == x \o c
<1>4. x \in Seq(StepRecord) /\ Len(x) = 2 /\ x[1] = a[1] /\ x[2] = b[1]
  <2>1. x \in Seq(StepRecord) /\ Len(x) = Len(a) + Len(b)
        /\ (\A j \in 1 .. Len(a) : x[j] = a[j]) /\ (\A j \in 1 .. Len(b) : x[Len(a) + j] = b[j])
    BY <1>2, JoinIs
  <2> HIDE DEF x
  <2>2. Len(a) + 1 = 2 /\ 1 \in 1 .. Len(a) /\ 1 \in 1 .. Len(b)
    BY <1>2
  <2>3. x[Len(a) + 1] = b[1]
    BY <2>1, <2>2
  <2> QED
    BY <1>2, <2>1, <2>2, <2>3
<1> HIDE DEF x
<1>5. y \in Seq(StepRecord) /\ Len(y) = 3 /\ y[1] = a[1] /\ y[2] = b[1] /\ y[3] = c[1]
  <2>1. y \in Seq(StepRecord) /\ Len(y) = Len(x) + Len(c)
        /\ (\A j \in 1 .. Len(x) : y[j] = x[j]) /\ (\A j \in 1 .. Len(c) : y[Len(x) + j] = c[j])
    BY <1>2, <1>4, JoinIs
  <2> HIDE DEF y
  <2>2. Len(x) + 1 = 3 /\ 1 \in 1 .. Len(x) /\ 2 \in 1 .. Len(x) /\ 1 \in 1 .. Len(c)
    BY <1>2, <1>4
  <2>3. y[Len(x) + 1] = c[1]
    BY <2>1, <2>2
  <2> QED
    BY <1>2, <1>4, <2>1, <2>2, <2>3
<1> HIDE DEF y
<1> DEFINE z == y \o d
<1>6. z \in Seq(StepRecord) /\ Len(z) = 4 /\ z[1] = a[1] /\ z[2] = b[1] /\ z[3] = c[1] /\ z[4] = d[1]
  <2>1. z \in Seq(StepRecord) /\ Len(z) = Len(y) + Len(d)
        /\ (\A j \in 1 .. Len(y) : z[j] = y[j]) /\ (\A j \in 1 .. Len(d) : z[Len(y) + j] = d[j])
    BY <1>2, <1>5, JoinIs
  <2> HIDE DEF z
  <2>2. Len(y) + 1 = 4 /\ 1 \in 1 .. Len(y) /\ 2 \in 1 .. Len(y) /\ 3 \in 1 .. Len(y) /\ 1 \in 1 .. Len(d)
    BY <1>2, <1>5
  <2>3. z[Len(y) + 1] = d[1]
    BY <2>1, <2>2
  <2> QED
    BY <1>2, <1>5, <2>1, <2>2, <2>3
<1>7. IfThenElseSteps = z
  BY <1>3 DEF x, y
<1> HIDE DEF z
<1> QED
  BY <1>2, <1>6, <1>7

(* A choice.                                                               *)
LEMMA OrderlyChoice ==
    ASSUME NEW op \in Operation, NEW p \in Party, op.kind = "if_then_else"
    PROVE  Orderly(op, p)
<1> DEFINE z == IfThenElseSteps
<1>1. Steps(op, p) = z
  BY DEF Steps
<1>2. /\ z \in Seq(StepRecord) /\ Len(z) = 4
      /\ z[1] = StepOf("choose", 1, 1) /\ z[2] = StepOf("send_next", 1, 1)
      /\ z[3] = StepOf("recv_prev", 1, 1) /\ z[4] = StepOf("xor_else", 1, 1)
  BY ChoiceIs
<1> HIDE DEF z
<1>3. /\ z[1].do = "choose" /\ z[2].do = "send_next" /\ z[3].do = "recv_prev" /\ z[4].do = "xor_else"
      /\ \A s \in 1 .. 4 : z[s].lo = 1 /\ z[s].hi = 1
  BY <1>2, StepFields
<1>4. \A s \in 1 .. 4 : Span(z[s]) = {1} /\ Span(z[s]) \subseteq Word
  BY <1>3, WordEnds DEF Span
<1>5. ASSUME NEW whats
      PROVE  /\ Did(z, 1, whats) = {}
             /\ Did(z, 2, whats) = IF "choose" \in whats THEN {1} ELSE {}
             /\ Did(z, 3, whats) = IF "choose" \in whats \/ "send_next" \in whats THEN {1} ELSE {}
             /\ Did(z, 4, whats) = IF "choose" \in whats \/ "send_next" \in whats \/ "recv_prev" \in whats
                                   THEN {1} ELSE {}
             /\ Did(z, 5, whats) = IF "choose" \in whats \/ "send_next" \in whats \/ "recv_prev" \in whats
                                       \/ "xor_else" \in whats THEN {1} ELSE {}
  <2>1. 1 .. 1 - 1 = {} /\ 1 .. 2 - 1 = {1} /\ 1 .. 3 - 1 = {1, 2} /\ 1 .. 4 - 1 = {1, 2, 3}
        /\ 1 .. 5 - 1 = {1, 2, 3, 4}
    OBVIOUS
  <2>2. 1 \in Word /\ \A s \in {1, 2, 3, 4} : Span(z[s]) = {1}
    BY <1>4, WordEnds
  <2>3. Did(z, 1, whats) = {}
    BY <2>1 DEF Did
  <2>4. Did(z, 2, whats) = IF "choose" \in whats THEN {1} ELSE {}
    BY <1>3, <2>1, <2>2 DEF Did
  <2>5. Did(z, 3, whats) = IF "choose" \in whats \/ "send_next" \in whats THEN {1} ELSE {}
    BY <1>3, <2>1, <2>2 DEF Did
  <2>6. Did(z, 4, whats) = IF "choose" \in whats \/ "send_next" \in whats \/ "recv_prev" \in whats
                          THEN {1} ELSE {}
    BY <1>3, <2>1, <2>2 DEF Did
  <2>7. Did(z, 5, whats) = IF "choose" \in whats \/ "send_next" \in whats \/ "recv_prev" \in whats
                              \/ "xor_else" \in whats THEN {1} ELSE {}
    BY <1>3, <2>1, <2>2 DEF Did
  <2> QED
    BY <2>3, <2>4, <2>5, <2>6, <2>7
<1>6. /\ "choose" \in WritesNext /\ "choose" \notin WritesPrev
      /\ "choose" \notin RewritesNext /\ "choose" \notin RewritesPrev /\ "choose" \in DrawsNext /\ "choose" \in DrawsPrev
      /\ \A what \in {"send_next", "recv_prev", "xor_else"} :
            what \notin WritesNext /\ what \notin DrawsNext /\ what \notin DrawsPrev
      /\ \A what \in {"send_next", "recv_prev"} : what \notin RewritesNext /\ what \notin RewritesPrev
      /\ "recv_prev" \in WritesPrev /\ "xor_else" \in RewritesNext /\ "xor_else" \in RewritesPrev
  BY DEF WritesNext, WritesPrev, RewritesNext, RewritesPrev, DrawsNext, DrawsPrev, Once
<1>7. Ready(op, p, z, 1)
  <2>1. /\ Did(z, 1, RewritesNext) = {} /\ Did(z, 1, RewritesPrev) = {}
        /\ Did(z, 1, DrawsNext) = 1 .. z[1].lo - 1 /\ Did(z, 1, DrawsPrev) = 1 .. z[1].lo - 1
        /\ z[1].lo = 1 /\ z[1].hi = 1
    <3>1. z[1].lo = 1 /\ z[1].hi = 1
      BY <1>3
    <3>2. 1 .. z[1].lo - 1 = {}
      BY <3>1
    <3> QED
      BY <1>5, <3>1, <3>2
  <2> QED
    BY <1>3, <2>1 DEF Ready, Local, Once, WritesNext, WritesPrev, DrawsNext, DrawsPrev, Takes
<1>8. Ready(op, p, z, 2)
  <2>1. Did(z, 2, WritesNext) = {1} /\ Did(z, 2, RewritesNext) = {}
    BY <1>5, <1>6
  <2> QED
    BY <1>3, <2>1, ReadyLoop
<1>9. Ready(op, p, z, 3)
  <2>1. Did(z, 3, RewritesNext) = {} /\ Did(z, 3, RewritesPrev) = {}
    BY <1>5, <1>6
  <2> QED
    BY <1>3, <2>1, ReadyLoop
<1>10. Ready(op, p, z, 4)
  <2>1. /\ Did(z, 4, RewritesNext) = {} /\ Did(z, 4, RewritesPrev) = {}
        /\ Did(z, 4, WritesNext) = {1} /\ Did(z, 4, WritesPrev) = {1}
    BY <1>5, <1>6
  <2> QED
    BY <1>3, <2>1 DEF Ready, Local, Once, WritesNext, WritesPrev, DrawsNext, DrawsPrev, Takes
<1>11. Final(op, p, z)
  <2>1. /\ Did(z, 5, WritesNext) = {1} /\ Did(z, 5, RewritesNext) = {1}
        /\ Did(z, 5, WritesPrev) = {1} /\ Did(z, 5, RewritesPrev) = {1}
        /\ Did(z, 5, DrawsNext) = {1} /\ Did(z, 5, DrawsPrev) = {1}
    BY <1>5, <1>6
  <2>2. Len(z) + 1 = 5
    BY <1>2
  <2>3. ASSUME NEW i, NEW g, NEW q, NEW k, k # 1
        PROVE  LastWord(op, i, g, q, k) = g.share[q][op.reg][k]
    BY <2>3 DEF LastWord, FirstWord
  <2>4. \A i, g : Settled(op, i, g, p, {1}, {1}) /\ Settled(op, i, g, prev_party(p), {1}, {1})
    BY <2>3 DEF Settled
  <2>5. WordsDrawn(op, p) = 1 /\ WordsDrawn(op, prev_party(p)) = 1 /\ ~RevealedTo(op, p)
    BY DEF WordsDrawn, RevealedTo
  <2> QED
    BY <2>1, <2>2, <2>4, <2>5, Sizes DEF Final
<1>12. \A s \in 1 .. Len(z) : s = 1 \/ s = 2 \/ s = 3 \/ s = 4
  BY <1>2
<1> QED
  BY <1>1, <1>2, <1>7, <1>8, <1>9, <1>10, <1>11, <1>12 DEF Orderly

(* Every operation.                                                        *)
LEMMA OrderlySteps ==
    ASSUME NEW op \in Operation, NEW p \in Party
    PROVE  Orderly(op, p)
<1>1. CASE op.kind = "input"
  BY <1>1, OperationIs, Ring, OrderlyDealer, OrderlyPad, OrderlyInput
<1>2. CASE op.kind = "shuffle"
  BY <1>2, OperationIs, Ring, OrderlyShuffler, OrderlyHelper, OrderlyReceiver
<1>3. CASE op.kind \notin {"input", "shuffle"}
  BY <1>3, OperationIs, OrderlyOnce, OrderlyRevealTo, OrderlyRevealToAll, OrderlyGate, OrderlyChoice
<1> QED
  BY <1>1, <1>2, <1>3

-----------------------------------------------------------------------------
(* A party in the middle of an operation *)

(* The words of a register, when some are written and some written again.  *)
LEMMA StagedWrite ==
    ASSUME NEW op, NEW i, NEW g, NEW q, NEW written, NEW regs, NEW new, NEW span,
           Staged(op, i, g, q, written, {}, regs),
           \A r \in Register : r # op.reg => new[r] = regs[r],
           \A k \in Word : new[op.reg][k] = IF k \in span THEN FirstWord(op, i, g, q, k) ELSE regs[op.reg][k]
    PROVE  Staged(op, i, g, q, written \cup span, {}, new)
<1> SUFFICES ASSUME NEW r \in Register, NEW k \in Word
             PROVE  new[r][k] = Stage(op, i, g, q, r, k, written \cup span, {})
  BY DEF Staged
<1>1. regs[r][k] = Stage(op, i, g, q, r, k, written, {})
  BY DEF Staged
<1>2. CASE r = op.reg
  BY <1>1, <1>2 DEF Stage
<1>3. CASE r # op.reg
  BY <1>1, <1>3 DEF Stage
<1> QED
  BY <1>2, <1>3

(* And when some are written again.                                        *)
LEMMA StagedRewrite ==
    ASSUME NEW op, NEW i, NEW g, NEW q, NEW written, NEW rewritten, NEW regs, NEW new, NEW span,
           Staged(op, i, g, q, written, rewritten, regs),
           \A r \in Register : r # op.reg => new[r] = regs[r],
           \A k \in Word : new[op.reg][k] = IF k \in span THEN LastWord(op, i, g, q, k) ELSE regs[op.reg][k]
    PROVE  Staged(op, i, g, q, written, rewritten \cup span, new)
<1> SUFFICES ASSUME NEW r \in Register, NEW k \in Word
             PROVE  new[r][k] = Stage(op, i, g, q, r, k, written, rewritten \cup span)
  BY DEF Staged
<1>1. regs[r][k] = Stage(op, i, g, q, r, k, written, rewritten)
  BY DEF Staged
<1>2. CASE r = op.reg
  BY <1>1, <1>2 DEF Stage
<1>3. CASE r # op.reg
  BY <1>1, <1>3 DEF Stage
<1> QED
  BY <1>2, <1>3

(* An operation that a party is in, and a step of it.                      *)
Within(op, i, g, p, steps, s) ==
    /\ op \in Operation /\ i \in 1 .. NumOps /\ g \in Globals /\ p \in Party
    /\ steps = Steps(op, p) /\ s \in 1 .. Len(steps)

(* What such a step finds.                                                 *)
LEMMA WithinIs ==
    ASSUME NEW op, NEW i, NEW g, NEW p, NEW steps, NEW s, Within(op, i, g, p, steps, s)
    PROVE  /\ op \in Operation /\ i \in 1 .. NumOps /\ g \in Globals /\ p \in Party /\ prev_party(p) \in Party
           /\ steps \in Seq(StepRecord) /\ s \in 1 .. Len(steps) /\ s \in Nat
           /\ Ready(op, p, steps, s) /\ steps[s] \in StepRecord
           /\ op.reg \in Register
<1>1. op \in Operation /\ i \in 1 .. NumOps /\ g \in Globals /\ p \in Party
      /\ steps = Steps(op, p) /\ s \in 1 .. Len(steps)
  BY DEF Within
<1>2. Orderly(op, p)
  BY <1>1, OrderlySteps
<1>3. steps \in Seq(StepRecord) /\ Ready(op, p, steps, s)
  BY <1>1, <1>2 DEF Orderly
<1> QED
  BY <1>1, <1>3, Ring, OperationIs

(* What is done by it.                                                     *)
LEMMA DidStill ==
    ASSUME NEW op, NEW i, NEW g, NEW p, NEW steps, NEW s, Within(op, i, g, p, steps, s), NEW whats
    PROVE  /\ Span(steps[s]) \subseteq Word
           /\ steps[s].do \notin whats => Did(steps, s + 1, whats) = Did(steps, s, whats)
           /\ steps[s].do \in whats => Did(steps, s + 1, whats) = Did(steps, s, whats) \cup Span(steps[s])
<1>1. steps \in Seq(StepRecord) /\ s \in 1 .. Len(steps)
  BY WithinIs
<1> QED
  BY <1>1, DidNext

(* What a step that does not write leaves.                                 *)
LEMMA NextKept ==
    ASSUME NEW op, NEW i, NEW g, NEW p, NEW steps, NEW s, Within(op, i, g, p, steps, s), NEW regs,
           NextAt(op, i, g, p, steps, s, regs), steps[s].do \notin WritesNext, steps[s].do \notin RewritesNext
    PROVE  NextAt(op, i, g, p, steps, s + 1, regs)
<1>1. Did(steps, s + 1, WritesNext) = Did(steps, s, WritesNext)
      /\ Did(steps, s + 1, RewritesNext) = Did(steps, s, RewritesNext)
  BY DidStill
<1> QED
  BY <1>1 DEF NextAt

(* The same of the other share.                                            *)
LEMMA PrevKept ==
    ASSUME NEW op, NEW i, NEW g, NEW p, NEW steps, NEW s, Within(op, i, g, p, steps, s), NEW regs,
           PrevAt(op, i, g, p, steps, s, regs), steps[s].do \notin WritesPrev, steps[s].do \notin RewritesPrev
    PROVE  PrevAt(op, i, g, p, steps, s + 1, regs)
<1>1. Did(steps, s + 1, WritesPrev) = Did(steps, s, WritesPrev)
      /\ Did(steps, s + 1, RewritesPrev) = Did(steps, s, RewritesPrev)
  BY DidStill
<1> QED
  BY <1>1 DEF PrevAt

(* What a step that writes leaves.                                         *)
LEMMA NextWritten ==
    ASSUME NEW op, NEW i, NEW g, NEW p, NEW steps, NEW s, Within(op, i, g, p, steps, s), NEW regs, NEW new,
           NextAt(op, i, g, p, steps, s, regs), steps[s].do \in WritesNext,
           \A r \in Register : r # op.reg => new[r] = regs[r],
           \A k \in Word : new[op.reg][k] =
               IF k \in Span(steps[s]) THEN FirstWord(op, i, g, p, k) ELSE regs[op.reg][k]
    PROVE  NextAt(op, i, g, p, steps, s + 1, new)
<1>1. steps[s].do \notin RewritesNext
  BY DEF WritesNext, RewritesNext, Once
<1>2. Did(steps, s, RewritesNext) = {}
  BY WithinIs DEF Ready
<1>3. /\ Did(steps, s + 1, WritesNext) = Did(steps, s, WritesNext) \cup Span(steps[s])
      /\ Did(steps, s + 1, RewritesNext) = {}
  BY <1>1, <1>2, DidStill
<1>4. Staged(op, i, g, p, Did(steps, s, WritesNext), {}, regs)
  BY <1>2 DEF NextAt
<1>5. Staged(op, i, g, p, Did(steps, s, WritesNext) \cup Span(steps[s]), {}, new)
  BY <1>4, StagedWrite
<1> QED
  BY <1>3, <1>5 DEF NextAt

(* The same of the other share.                                            *)
LEMMA PrevWritten ==
    ASSUME NEW op, NEW i, NEW g, NEW p, NEW steps, NEW s, Within(op, i, g, p, steps, s), NEW regs, NEW new,
           PrevAt(op, i, g, p, steps, s, regs), steps[s].do \in WritesPrev,
           \A r \in Register : r # op.reg => new[r] = regs[r],
           \A k \in Word : new[op.reg][k] =
               IF k \in Span(steps[s]) THEN FirstWord(op, i, g, prev_party(p), k) ELSE regs[op.reg][k]
    PROVE  PrevAt(op, i, g, p, steps, s + 1, new)
<1>1. steps[s].do \notin RewritesPrev
  BY DEF WritesPrev, RewritesPrev, Once
<1>2. Did(steps, s, RewritesPrev) = {}
  BY WithinIs DEF Ready
<1>3. /\ Did(steps, s + 1, WritesPrev) = Did(steps, s, WritesPrev) \cup Span(steps[s])
      /\ Did(steps, s + 1, RewritesPrev) = {}
  BY <1>1, <1>2, DidStill
<1>4. Staged(op, i, g, prev_party(p), Did(steps, s, WritesPrev), {}, regs)
  BY <1>2 DEF PrevAt
<1>5. Staged(op, i, g, prev_party(p), Did(steps, s, WritesPrev) \cup Span(steps[s]), {}, new)
  BY <1>4, StagedWrite
<1> QED
  BY <1>3, <1>5 DEF PrevAt

(* What a step that writes again leaves.                                   *)
LEMMA NextRewritten ==
    ASSUME NEW op, NEW i, NEW g, NEW p, NEW steps, NEW s, Within(op, i, g, p, steps, s), NEW regs, NEW new,
           NextAt(op, i, g, p, steps, s, regs), steps[s].do \in RewritesNext,
           \A r \in Register : r # op.reg => new[r] = regs[r],
           \A k \in Word : new[op.reg][k] =
               IF k \in Span(steps[s]) THEN LastWord(op, i, g, p, k) ELSE regs[op.reg][k]
    PROVE  NextAt(op, i, g, p, steps, s + 1, new)
<1>1. steps[s].do \notin WritesNext
  BY DEF WritesNext, RewritesNext, Once
<1>2. /\ Did(steps, s + 1, RewritesNext) = Did(steps, s, RewritesNext) \cup Span(steps[s])
      /\ Did(steps, s + 1, WritesNext) = Did(steps, s, WritesNext)
  BY <1>1, DidStill
<1>3. Staged(op, i, g, p, Did(steps, s, WritesNext), Did(steps, s, RewritesNext), regs)
  BY DEF NextAt
<1>4. Staged(op, i, g, p, Did(steps, s, WritesNext), Did(steps, s, RewritesNext) \cup Span(steps[s]), new)
  BY <1>3, StagedRewrite
<1> QED
  BY <1>2, <1>4 DEF NextAt

(* The same of the other share.                                            *)
LEMMA PrevRewritten ==
    ASSUME NEW op, NEW i, NEW g, NEW p, NEW steps, NEW s, Within(op, i, g, p, steps, s), NEW regs, NEW new,
           PrevAt(op, i, g, p, steps, s, regs), steps[s].do \in RewritesPrev,
           \A r \in Register : r # op.reg => new[r] = regs[r],
           \A k \in Word : new[op.reg][k] =
               IF k \in Span(steps[s]) THEN LastWord(op, i, g, prev_party(p), k) ELSE regs[op.reg][k]
    PROVE  PrevAt(op, i, g, p, steps, s + 1, new)
<1>1. steps[s].do \notin WritesPrev
  BY DEF WritesPrev, RewritesPrev, Once
<1>2. /\ Did(steps, s + 1, RewritesPrev) = Did(steps, s, RewritesPrev) \cup Span(steps[s])
      /\ Did(steps, s + 1, WritesPrev) = Did(steps, s, WritesPrev)
  BY <1>1, DidStill
<1>3. Staged(op, i, g, prev_party(p), Did(steps, s, WritesPrev), Did(steps, s, RewritesPrev), regs)
  BY DEF PrevAt
<1>4. Staged(op, i, g, prev_party(p), Did(steps, s, WritesPrev), Did(steps, s, RewritesPrev) \cup Span(steps[s]), new)
  BY <1>3, StagedRewrite
<1> QED
  BY <1>2, <1>4 DEF PrevAt

-----------------------------------------------------------------------------
(* Every step leaves a party where the next one expects it *)

(* A register that a step leaves alone.                                    *)
Kept(op, regs, new) == \A r \in Register : r # op.reg => new[r] = regs[r]

(* A step that writes the whole register.                                  *)
LEMMA NextWhole ==
    ASSUME NEW op, NEW i, NEW g, NEW p, NEW steps, NEW s, Within(op, i, g, p, steps, s),
           NEW pv, NEW nx, NEW words, NEW d, NEW open,
           Holds(op, i, g, p, steps, s, pv, nx, words, d, open), NEW new, Kept(op, nx, new),
           steps[s].do \in WritesNext, Span(steps[s]) = Word,
           \A k \in Word : new[op.reg][k] = FirstWord(op, i, g, p, k)
    PROVE  NextAt(op, i, g, p, steps, s + 1, new)
<1>1. NextAt(op, i, g, p, steps, s, nx)
  BY DEF Holds
<1>2. \A r \in Register : r # op.reg => new[r] = nx[r]
  BY DEF Kept
<1>3. \A k \in Word : new[op.reg][k] =
                         IF k \in Span(steps[s]) THEN FirstWord(op, i, g, p, k) ELSE nx[op.reg][k]
  OBVIOUS
<1> QED
  BY <1>1, <1>2, <1>3, NextWritten

(* The same of the other share.                                            *)
LEMMA PrevWhole ==
    ASSUME NEW op, NEW i, NEW g, NEW p, NEW steps, NEW s, Within(op, i, g, p, steps, s),
           NEW pv, NEW nx, NEW words, NEW d, NEW open,
           Holds(op, i, g, p, steps, s, pv, nx, words, d, open), NEW new, Kept(op, pv, new),
           steps[s].do \in WritesPrev, Span(steps[s]) = Word,
           \A k \in Word : new[op.reg][k] = FirstWord(op, i, g, prev_party(p), k)
    PROVE  PrevAt(op, i, g, p, steps, s + 1, new)
<1>1. PrevAt(op, i, g, p, steps, s, pv)
  BY DEF Holds
<1>2. \A r \in Register : r # op.reg => new[r] = pv[r]
  BY DEF Kept
<1>3. \A k \in Word : new[op.reg][k] =
                         IF k \in Span(steps[s]) THEN FirstWord(op, i, g, prev_party(p), k)
                                                 ELSE pv[op.reg][k]
  OBVIOUS
<1> QED
  BY <1>1, <1>2, <1>3, PrevWritten

(* A step that leaves the local words alone.                               *)
LEMMA BufferKept ==
    ASSUME NEW op, NEW i, NEW g, NEW p, NEW steps, NEW s, Within(op, i, g, p, steps, s), NEW words,
           BufferAt(op, i, g, p, steps, s, words),
           steps[s].do \notin Takes \cup {"secrets", "permute", "deal_xor"}
    PROVE  BufferAt(op, i, g, p, steps, s + 1, words)
<1>1. /\ steps[s].do \notin Takes /\ steps[s].do \notin {"secrets"}
      /\ steps[s].do \notin {"permute"} /\ steps[s].do \notin {"deal_xor"}
  OBVIOUS
<1>2. /\ Did(steps, s + 1, Takes) = Did(steps, s, Takes)
      /\ Did(steps, s + 1, {"secrets"}) = Did(steps, s, {"secrets"})
      /\ Did(steps, s + 1, {"permute"}) = Did(steps, s, {"permute"})
      /\ Did(steps, s + 1, {"deal_xor"}) = Did(steps, s, {"deal_xor"})
  BY <1>1, DidStill
<1> QED
  BY <1>2 DEF BufferAt

(* A step that opens nothing.                                              *)
LEMMA PublicKept ==
    ASSUME NEW op, NEW i, NEW g, NEW p, NEW steps, NEW s, Within(op, i, g, p, steps, s), NEW open,
           PublicAt(op, g, steps, s, open), steps[s].do # "recv_public"
    PROVE  PublicAt(op, g, steps, s + 1, open)
<1>1. steps[s].do \notin {"recv_public"}
  OBVIOUS
<1>2. Did(steps, s + 1, {"recv_public"}) = Did(steps, s, {"recv_public"})
  BY <1>1, DidStill
<1> QED
  BY <1>2 DEF PublicAt

(* Drawing goes on where it stopped.                                       *)
LEMMA DrawCounts ==
    ASSUME NEW op, NEW i, NEW g, NEW p, NEW steps, NEW s, Within(op, i, g, p, steps, s)
    PROVE  /\ steps[s].lo \in Nat /\ steps[s].hi \in Nat /\ 1 =< steps[s].lo /\ steps[s].lo =< steps[s].hi
           /\ steps[s].lo \in Word /\ steps[s].hi \in Word
           /\ steps[s].do \notin DrawsNext =>
                Cardinality(Did(steps, s + 1, DrawsNext)) = Cardinality(Did(steps, s, DrawsNext))
           /\ steps[s].do \notin DrawsPrev =>
                Cardinality(Did(steps, s + 1, DrawsPrev)) = Cardinality(Did(steps, s, DrawsPrev))
           /\ steps[s].do \in DrawsNext =>
                /\ Cardinality(Did(steps, s, DrawsNext)) = steps[s].lo - 1
                /\ Cardinality(Did(steps, s + 1, DrawsNext)) = steps[s].hi
           /\ steps[s].do \in DrawsPrev =>
                /\ Cardinality(Did(steps, s, DrawsPrev)) = steps[s].lo - 1
                /\ Cardinality(Did(steps, s + 1, DrawsPrev)) = steps[s].hi
<1> DEFINE lo == steps[s].lo
           hi == steps[s].hi
<1>1. lo \in Nat /\ hi \in Nat /\ 1 =< lo /\ lo =< hi /\ lo \in Word /\ hi \in Word
  <2>1. steps[s] \in StepRecord
    BY WithinIs
  <2> QED
    BY <2>1, Rep3Assumption DEF StepRecord, Word
<1>2. Cardinality(1 .. lo - 1) = lo - 1 /\ Cardinality(1 .. hi) = hi
      /\ (1 .. lo - 1) \cup (lo .. hi) = 1 .. hi
  <2> HIDE DEF lo, hi
  <2>1. Cardinality(1 .. lo - 1) = IF 1 > lo - 1 THEN 0 ELSE (lo - 1) - 1 + 1
    BY <1>1, FS_Interval
  <2>2. Cardinality(1 .. hi) = IF 1 > hi THEN 0 ELSE hi - 1 + 1
    BY <1>1, FS_Interval
  <2> QED
    BY <1>1, <2>1, <2>2
<1>3. steps[s].do \in DrawsNext \cup DrawsPrev => Span(steps[s]) = lo .. hi
  BY DEF DrawsNext, DrawsPrev, Sending, Receiving, Span
<1>4. steps[s].do \in DrawsNext => Did(steps, s, DrawsNext) = 1 .. lo - 1
  BY WithinIs DEF Ready
<1>5. steps[s].do \in DrawsPrev => Did(steps, s, DrawsPrev) = 1 .. lo - 1
  BY WithinIs DEF Ready
<1> HIDE DEF lo, hi
<1>6. ASSUME steps[s].do \in DrawsNext
      PROVE  Cardinality(Did(steps, s, DrawsNext)) = lo - 1 /\ Cardinality(Did(steps, s + 1, DrawsNext)) = hi
  <2>1. Did(steps, s + 1, DrawsNext) = (1 .. lo - 1) \cup (lo .. hi)
    <3>1. Did(steps, s + 1, DrawsNext) = Did(steps, s, DrawsNext) \cup Span(steps[s])
      BY <1>6, DidStill
    <3> QED
      BY <1>3, <1>4, <1>6, <3>1
  <2> QED
    BY <1>2, <1>4, <1>6, <2>1
<1>7. ASSUME steps[s].do \in DrawsPrev
      PROVE  Cardinality(Did(steps, s, DrawsPrev)) = lo - 1 /\ Cardinality(Did(steps, s + 1, DrawsPrev)) = hi
  <2>1. Did(steps, s + 1, DrawsPrev) = (1 .. lo - 1) \cup (lo .. hi)
    <3>1. Did(steps, s + 1, DrawsPrev) = Did(steps, s, DrawsPrev) \cup Span(steps[s])
      BY <1>7, DidStill
    <3> QED
      BY <1>3, <1>5, <1>7, <3>1
  <2> QED
    BY <1>2, <1>5, <1>7, <2>1
<1>8. /\ steps[s].do \notin DrawsNext => Did(steps, s + 1, DrawsNext) = Did(steps, s, DrawsNext)
      /\ steps[s].do \notin DrawsPrev => Did(steps, s + 1, DrawsPrev) = Did(steps, s, DrawsPrev)
  BY DidStill
<1> QED
  BY <1>1, <1>6, <1>7, <1>8 DEF lo, hi

(* A step that draws nothing.                                              *)
LEMMA DrawnKept ==
    ASSUME NEW op, NEW i, NEW g, NEW p, NEW steps, NEW s, Within(op, i, g, p, steps, s), NEW d,
           DrawnAt(g, p, steps, s, d), steps[s].do \notin DrawsNext, steps[s].do \notin DrawsPrev
    PROVE  DrawnAt(g, p, steps, s + 1, d)
BY DrawCounts DEF DrawnAt

(* A draw of the words of a step, and what is drawn.                       *)
LEMMA DrawnOn ==
    ASSUME NEW op, NEW i, NEW g, NEW p, NEW steps, NEW s, Within(op, i, g, p, steps, s), NEW d, NEW e,
           DrawnAt(g, p, steps, s, d),
           e.next = IF steps[s].do \in DrawsNext THEN d.next + (steps[s].hi - steps[s].lo + 1) ELSE d.next,
           e.prev = IF steps[s].do \in DrawsPrev THEN d.prev + (steps[s].hi - steps[s].lo + 1) ELSE d.prev
    PROVE  /\ DrawnAt(g, p, steps, s + 1, e)
           /\ steps[s].do \in DrawsNext => \A k \in Nat : Sample(p, d.next + k) = PadWord(g, p, steps[s].lo - 1 + k)
           /\ steps[s].do \in DrawsPrev =>
                 \A k \in Nat : Sample(prev_party(p), d.prev + k) = PadWord(g, prev_party(p), steps[s].lo - 1 + k)
<1> DEFINE lo == steps[s].lo
           hi == steps[s].hi
           a == Cardinality(Did(steps, s, DrawsNext))
           a1 == Cardinality(Did(steps, s + 1, DrawsNext))
           b == Cardinality(Did(steps, s, DrawsPrev))
           b1 == Cardinality(Did(steps, s + 1, DrawsPrev))
<1>1. lo \in Nat /\ hi \in Nat /\ 1 =< lo /\ lo =< hi
  BY DrawCounts
<1>2. /\ steps[s].do \notin DrawsNext => a1 = a
      /\ steps[s].do \notin DrawsPrev => b1 = b
      /\ steps[s].do \in DrawsNext => a = lo - 1 /\ a1 = hi
      /\ steps[s].do \in DrawsPrev => b = lo - 1 /\ b1 = hi
  BY DrawCounts
<1>3. d.next = g.drawn[p] + a /\ d.prev = g.drawn[prev_party(p)] + b
  BY DEF DrawnAt
<1>4. g.drawn[p] \in Nat /\ g.drawn[prev_party(p)] \in Nat
  BY WithinIs, GlobalWords
<1>5. a \in Nat /\ b \in Nat
  <2>1. IsFiniteSet(Word)
    BY WordEnds, FS_Interval DEF Word
  <2>2. Did(steps, s, DrawsNext) \subseteq Word /\ Did(steps, s, DrawsPrev) \subseteq Word
    BY DEF Did
  <2> QED
    BY <2>1, <2>2, FS_Subset, FS_CardinalityType
<1>6. /\ e.next = IF steps[s].do \in DrawsNext THEN d.next + (hi - lo + 1) ELSE d.next
      /\ e.prev = IF steps[s].do \in DrawsPrev THEN d.prev + (hi - lo + 1) ELSE d.prev
  OBVIOUS
<1> HIDE DEF lo, hi, a, a1, b, b1
<1>7. e.next = g.drawn[p] + a1
  BY <1>1, <1>2, <1>3, <1>4, <1>5, <1>6
<1>8. e.prev = g.drawn[prev_party(p)] + b1
  BY <1>1, <1>2, <1>3, <1>4, <1>5, <1>6
<1>9. ASSUME steps[s].do \in DrawsNext, NEW k \in Nat
      PROVE  Sample(p, d.next + k) = PadWord(g, p, lo - 1 + k)
  <2>1. d.next + k = g.drawn[p] + (lo - 1 + k)
    BY <1>1, <1>2, <1>3, <1>4, <1>9
  <2> QED
    BY <2>1 DEF PadWord
<1>10. ASSUME steps[s].do \in DrawsPrev, NEW k \in Nat
      PROVE  Sample(prev_party(p), d.prev + k) = PadWord(g, prev_party(p), lo - 1 + k)
  <2>1. d.prev + k = g.drawn[prev_party(p)] + (lo - 1 + k)
    BY <1>1, <1>2, <1>3, <1>4, <1>10
  <2> QED
    BY <2>1 DEF PadWord
<1> QED
  BY <1>7, <1>8, <1>9, <1>10 DEF DrawnAt, lo, a1, b1

(* What the parties of an input, and of a shuffle, write.                  *)
LEMMA InputWords ==
    ASSUME NEW op \in Operation, op.kind = "input", NEW i, NEW g, NEW k
    PROVE  /\ FirstWord(op, i, g, op.party, k) = Atom(<<"secret", i, k>>) (+) PadWord(g, prev_party(op.party), k)
           /\ FirstWord(op, i, g, prev_party(op.party), k) = PadWord(g, prev_party(op.party), k)
           /\ FirstWord(op, i, g, next_party(op.party), k) = Zero
<1>1. op.party \in Party
  BY OperationIs
<1>2. prev_party(op.party) # op.party /\ next_party(op.party) # op.party
      /\ next_party(op.party) # prev_party(op.party)
  BY <1>1, Ring
<1> QED
  BY <1>2 DEF FirstWord

(* The words of a shuffle.                                                 *)
LEMMA ShuffleWords ==
    ASSUME NEW op \in Operation, op.kind = "shuffle", NEW i, NEW g, NEW k
    PROVE  /\ FirstWord(op, i, g, next_party(op.party), k) =
                Relocated(op, g, next_party(op.party), k) (+) PadWord(g, op.party, k)
           /\ FirstWord(op, i, g, op.party, k) = PadWord(g, op.party, k)
           /\ FirstWord(op, i, g, prev_party(op.party), k) = Zero
           /\ LastWord(op, i, g, op.party, k) =
                FirstWord(op, i, g, op.party, k) (+) Difference(op, g, op.party, k)
           /\ LastWord(op, i, g, prev_party(op.party), k) =
                FirstWord(op, i, g, prev_party(op.party), k) (+) PadWord(g, prev_party(op.party), k)
           /\ Difference(op, g, op.party, k) =
                Relocated(op, g, op.party, k) (+) PadWord(g, prev_party(op.party), k)
<1>1. op.party \in Party
  BY OperationIs
<1>2. prev_party(op.party) # op.party /\ next_party(op.party) # op.party
      /\ next_party(op.party) # prev_party(op.party) /\ prev_party(next_party(op.party)) = op.party
  BY <1>1, Ring
<1>3. Difference(op, g, op.party, k) = Relocated(op, g, op.party, k) (+) PadWord(g, prev_party(op.party), k)
  BY DEF Difference
<1>4. FirstWord(op, i, g, next_party(op.party), k) =
        Relocated(op, g, next_party(op.party), k) (+) PadWord(g, op.party, k)
  BY <1>2 DEF FirstWord
<1>5. FirstWord(op, i, g, op.party, k) = PadWord(g, op.party, k)
      /\ FirstWord(op, i, g, prev_party(op.party), k) = Zero
  BY <1>2 DEF FirstWord
<1>6. /\ LastWord(op, i, g, op.party, k) =
           FirstWord(op, i, g, op.party, k) (+) Difference(op, g, op.party, k)
      /\ LastWord(op, i, g, prev_party(op.party), k) =
           FirstWord(op, i, g, prev_party(op.party), k) (+) PadWord(g, prev_party(op.party), k)
  BY <1>2 DEF LastWord
<1> QED
  BY <1>3, <1>4, <1>5, <1>6

(* The party that only takes part in a shuffle starts from zero.           *)
LEMMA ShuffleThird ==
    ASSUME NEW op \in Operation, op.kind = "shuffle", NEW i, NEW g, NEW k
    PROVE  FirstWord(op, i, g, prev_party(op.party), k) = Zero
BY ShuffleWords

(* A step on all the words.                                                *)
LEMMA WholeStep ==
    ASSUME NEW op, NEW i, NEW g, NEW p, NEW steps, NEW s, Within(op, i, g, p, steps, s),
           steps[s].do \in Local \ {"multiply", "choose", "xor_else"}
    PROVE  /\ Span(steps[s]) = Word /\ steps[s].hi - steps[s].lo + 1 = NumWords
           /\ \A k \in Word : k \in Nat /\ steps[s].lo - 1 + k = k
<1>1. steps[s].lo = 1 /\ steps[s].hi = NumWords
  BY WithinIs DEF Ready
<1>2. steps[s].do \notin Sending \cup Receiving
  BY Kinds
<1> QED
  BY <1>1, <1>2, Rep3Assumption DEF Span, Word

(* Sending.                                                                *)
LEMMA HoldsSend ==
    ASSUME NEW op, NEW i, NEW g, NEW p, NEW steps, NEW s, Within(op, i, g, p, steps, s),
           NEW pv, NEW nx, NEW words, NEW d, NEW open,
           Holds(op, i, g, p, steps, s, pv, nx, words, d, open), steps[s].do \in Sending
    PROVE  Holds(op, i, g, p, steps, s + 1, pv, nx, words, d, open)
<1>1. /\ steps[s].do \notin WritesNext /\ steps[s].do \notin RewritesNext
      /\ steps[s].do \notin WritesPrev /\ steps[s].do \notin RewritesPrev
      /\ steps[s].do \notin DrawsNext /\ steps[s].do \notin DrawsPrev
      /\ steps[s].do \notin Takes \cup {"secrets", "permute", "deal_xor"} /\ steps[s].do # "recv_public"
  BY DEF Sending, WritesNext, RewritesNext, WritesPrev, RewritesPrev, DrawsNext, DrawsPrev, Once, Takes
<1> QED
  BY <1>1, NextKept, PrevKept, DrawnKept, BufferKept, PublicKept DEF Holds

(* The dealer reads its secrets,                                           *)
LEMMA HoldsSecrets ==
    ASSUME NEW op, NEW i, NEW g, NEW p, NEW steps, NEW s, Within(op, i, g, p, steps, s),
           NEW pv, NEW nx, NEW words, NEW d, NEW open,
           Holds(op, i, g, p, steps, s, pv, nx, words, d, open), steps[s].do = "secrets",
           NEW words1, \A k \in Word : words1[k] = Atom(<<"secret", i, k>>)
    PROVE  Holds(op, i, g, p, steps, s + 1, pv, nx, words1, d, open)
<1>1. /\ steps[s].do \notin WritesNext /\ steps[s].do \notin RewritesNext
      /\ steps[s].do \notin WritesPrev /\ steps[s].do \notin RewritesPrev
      /\ steps[s].do \notin DrawsNext /\ steps[s].do \notin DrawsPrev
      /\ steps[s].do \notin Takes /\ steps[s].do # "recv_public"
  BY DEF WritesNext, RewritesNext, WritesPrev, RewritesPrev, DrawsNext, DrawsPrev, Once, Takes
<1>2. Did(steps, s + 1, Takes) = Did(steps, s, Takes)
  BY <1>1, DidStill
<1>3. Did(steps, s, Takes) = {}
  BY WithinIs DEF Ready
<1>4. BufferAt(op, i, g, p, steps, s + 1, words1)
  BY <1>2, <1>3 DEF BufferAt
<1> QED
  BY <1>1, <1>4, NextKept, PrevKept, DrawnKept, PublicKept DEF Holds

(* deals a share of them, or of what it has permuted,                      *)
LEMMA HoldsDeal ==
    ASSUME NEW op, NEW i, NEW g, NEW p, NEW steps, NEW s, Within(op, i, g, p, steps, s),
           NEW pv, NEW nx, NEW words, NEW d, NEW open,
           Holds(op, i, g, p, steps, s, pv, nx, words, d, open), steps[s].do = "deal",
           NEW pv1, NEW nx1, NEW d1, Kept(op, pv, pv1), Kept(op, nx, nx1),
           \A k \in Word : pv1[op.reg][k] = Sample(prev_party(p), d.prev + k),
           \A k \in Word : nx1[op.reg][k] = words[k] (+) Sample(prev_party(p), d.prev + k),
           d1.next = d.next, d1.prev = d.prev + NumWords
    PROVE  Holds(op, i, g, p, steps, s + 1, pv1, nx1, words, d1, open)
<1>1. /\ "deal" \in WritesNext /\ "deal" \in WritesPrev
      /\ "deal" \notin DrawsNext /\ "deal" \in DrawsPrev
      /\ "deal" \notin Takes \cup {"secrets", "permute", "deal_xor"} /\ "deal" # "recv_public"
      /\ "deal" \in Local \ {"multiply", "choose", "xor_else"}
  BY DEF WritesNext, WritesPrev, DrawsNext, DrawsPrev, Once, Takes, Local
<1>2. /\ Span(steps[s]) = Word /\ steps[s].hi - steps[s].lo + 1 = NumWords
      /\ \A k \in Word : k \in Nat /\ steps[s].lo - 1 + k = k
  BY <1>1, WholeStep
<1>3. DrawnAt(g, p, steps, s, d) /\ BufferAt(op, i, g, p, steps, s, words)
  BY DEF Holds
<1>4. /\ DrawnAt(g, p, steps, s + 1, d1)
      /\ \A k \in Nat : Sample(prev_party(p), d.prev + k) = PadWord(g, prev_party(p), steps[s].lo - 1 + k)
  BY <1>1, <1>2, <1>3, DrawnOn
<1>5. \A k \in Word : Sample(prev_party(p), d.prev + k) = PadWord(g, prev_party(p), k)
  BY <1>2, <1>4
<1>6. op \in Operation /\ p \in Party /\ op.party \in Party
      /\ \/ op.kind = "input" /\ p = op.party /\ Did(steps, s, {"secrets"}) = Word
         \/ /\ op.kind = "shuffle" /\ p = next_party(op.party) /\ Did(steps, s, Takes) = Word
            /\ Did(steps, s, {"permute"}) = Word /\ Did(steps, s, {"deal_xor"}) = {}
  BY WithinIs, OperationIs DEF Ready
<1>7. ASSUME NEW k \in Word
      PROVE  /\ FirstWord(op, i, g, prev_party(p), k) = PadWord(g, prev_party(p), k)
             /\ FirstWord(op, i, g, p, k) = words[k] (+) PadWord(g, prev_party(p), k)
  <2>1. CASE op.kind = "input"
    <3>1. p = op.party /\ Did(steps, s, {"secrets"}) = Word
      BY <1>6, <2>1
    <3>2. words[k] = Atom(<<"secret", i, k>>)
      BY <1>3, <3>1, <2>1 DEF BufferAt
    <3>3. /\ FirstWord(op, i, g, op.party, k) = Atom(<<"secret", i, k>>) (+) PadWord(g, prev_party(op.party), k)
          /\ FirstWord(op, i, g, prev_party(op.party), k) = PadWord(g, prev_party(op.party), k)
      BY <1>6, <2>1, InputWords
    <3> QED
      BY <3>1, <3>2, <3>3
  <2>2. CASE op.kind = "shuffle"
    <3>1. p = next_party(op.party) /\ prev_party(p) = op.party
      BY <1>6, <2>2, Ring
    <3>2. words[k] = Relocated(op, g, p, k)
      BY <1>3, <1>6, <2>2 DEF BufferAt
    <3> QED
      BY <1>6, <2>2, <3>1, <3>2, ShuffleWords
  <2> QED
    BY <1>6, <2>1, <2>2
<1>8. \A k \in Word : nx1[op.reg][k] = FirstWord(op, i, g, p, k) /\ pv1[op.reg][k] = FirstWord(op, i, g, prev_party(p), k)
  BY <1>5, <1>7
<1>9. NextAt(op, i, g, p, steps, s + 1, nx1)
  BY <1>1, <1>2, <1>8, NextWhole
<1>10. PrevAt(op, i, g, p, steps, s + 1, pv1)
  BY <1>1, <1>2, <1>8, PrevWhole
<1> QED
  BY <1>1, <1>4, <1>9, <1>10, BufferKept, PublicKept DEF Holds

(* and the previous party draws the same pad,                              *)
LEMMA HoldsPad ==
    ASSUME NEW op, NEW i, NEW g, NEW p, NEW steps, NEW s, Within(op, i, g, p, steps, s),
           NEW pv, NEW nx, NEW words, NEW d, NEW open,
           Holds(op, i, g, p, steps, s, pv, nx, words, d, open), steps[s].do = "pad",
           NEW pv1, NEW nx1, NEW d1, Kept(op, pv, pv1), Kept(op, nx, nx1),
           \A k \in Word : pv1[op.reg][k] = Zero,
           \A k \in Word : nx1[op.reg][k] = Sample(p, d.next + k),
           d1.next = d.next + NumWords, d1.prev = d.prev
    PROVE  Holds(op, i, g, p, steps, s + 1, pv1, nx1, words, d1, open)
<1>1. /\ "pad" \in WritesNext /\ "pad" \in WritesPrev
      /\ "pad" \in DrawsNext /\ "pad" \notin DrawsPrev
      /\ "pad" \notin Takes \cup {"secrets", "permute", "deal_xor"} /\ "pad" # "recv_public"
      /\ "pad" \in Local \ {"multiply", "choose", "xor_else"}
  BY DEF WritesNext, WritesPrev, DrawsNext, DrawsPrev, Once, Takes, Local
<1>2. /\ Span(steps[s]) = Word /\ steps[s].hi - steps[s].lo + 1 = NumWords
      /\ \A k \in Word : k \in Nat /\ steps[s].lo - 1 + k = k
  BY <1>1, WholeStep
<1>3. DrawnAt(g, p, steps, s, d)
  BY DEF Holds
<1>4. /\ DrawnAt(g, p, steps, s + 1, d1)
      /\ \A k \in Nat : Sample(p, d.next + k) = PadWord(g, p, steps[s].lo - 1 + k)
  BY <1>1, <1>2, <1>3, DrawnOn
<1>5. \A k \in Word : Sample(p, d.next + k) = PadWord(g, p, k)
  BY <1>2, <1>4
<1>6. op \in Operation /\ p \in Party /\ op.party \in Party
      /\ \/ op.kind = "input" /\ p = prev_party(op.party)
         \/ op.kind = "shuffle" /\ p = op.party
  BY WithinIs, OperationIs DEF Ready
<1>7. ASSUME NEW k \in Word
      PROVE  /\ FirstWord(op, i, g, prev_party(p), k) = Zero
             /\ FirstWord(op, i, g, p, k) = PadWord(g, p, k)
  <2>1. CASE op.kind = "input"
    <3>1. p = prev_party(op.party) /\ prev_party(p) = next_party(op.party)
      BY <1>6, <2>1, Ring
    <3>2. /\ FirstWord(op, i, g, op.party, k) = Atom(<<"secret", i, k>>) (+) PadWord(g, prev_party(op.party), k)
          /\ FirstWord(op, i, g, prev_party(op.party), k) = PadWord(g, prev_party(op.party), k)
          /\ FirstWord(op, i, g, next_party(op.party), k) = Zero
      BY <1>6, <2>1, InputWords, Zenon
    <3> QED
      BY <3>1, <3>2
  <2>2. CASE op.kind = "shuffle"
    BY <1>6, <2>2, ShuffleWords
  <2> QED
    BY <1>6, <2>1, <2>2
<1>8. \A k \in Word : nx1[op.reg][k] = FirstWord(op, i, g, p, k) /\ pv1[op.reg][k] = FirstWord(op, i, g, prev_party(p), k)
  BY <1>5, <1>7
<1>9. NextAt(op, i, g, p, steps, s + 1, nx1)
  BY <1>1, <1>2, <1>8, NextWhole
<1>10. PrevAt(op, i, g, p, steps, s + 1, pv1)
  BY <1>1, <1>2, <1>8, PrevWhole
<1> QED
  BY <1>1, <1>4, <1>9, <1>10, BufferKept, PublicKept DEF Holds

(* and the next has a share that is zero.                                  *)
LEMMA HoldsZero ==
    ASSUME NEW op, NEW i, NEW g, NEW p, NEW steps, NEW s, Within(op, i, g, p, steps, s),
           NEW pv, NEW nx, NEW words, NEW d, NEW open,
           Holds(op, i, g, p, steps, s, pv, nx, words, d, open), steps[s].do = "zero_next",
           NEW nx1, Kept(op, nx, nx1), \A k \in Word : nx1[op.reg][k] = Zero
    PROVE  Holds(op, i, g, p, steps, s + 1, pv, nx1, words, d, open)
<1>1. /\ "zero_next" \in WritesNext /\ "zero_next" \notin WritesPrev /\ "zero_next" \notin RewritesPrev
      /\ "zero_next" \notin DrawsNext /\ "zero_next" \notin DrawsPrev
      /\ "zero_next" \notin Takes \cup {"secrets", "permute", "deal_xor"} /\ "zero_next" # "recv_public"
      /\ "zero_next" \in Local \ {"multiply", "choose", "xor_else"}
  BY DEF WritesNext, WritesPrev, RewritesPrev, DrawsNext, DrawsPrev, Once, Takes, Local
<1>2. Span(steps[s]) = Word
  BY <1>1, WholeStep
<1>3. op \in Operation /\ p \in Party /\ op.party \in Party
      /\ \/ op.kind = "input" /\ p = next_party(op.party)
         \/ op.kind = "shuffle" /\ p = prev_party(op.party)
  BY WithinIs, OperationIs DEF Ready
<1>4. ASSUME NEW k \in Word
      PROVE  FirstWord(op, i, g, p, k) = Zero
  <2>1. CASE op.kind = "input"
    <3>1. FirstWord(op, i, g, next_party(op.party), k) = Zero
      BY <1>3, <2>1, InputWords, Zenon
    <3> QED
      BY <1>3, <2>1, <3>1
  <2>2. CASE op.kind = "shuffle"
    <3>1. FirstWord(op, i, g, prev_party(op.party), k) = Zero
      <4>1. op \in Operation /\ op.kind = "shuffle"
        BY <1>3, <2>2
      <4> QED
        BY <4>1, ShuffleThird
    <3> QED
      BY <1>3, <2>2, <3>1
  <2> QED
    BY <1>3, <2>1, <2>2
<1>5. NextAt(op, i, g, p, steps, s + 1, nx1)
  BY <1>1, <1>2, <1>4, NextWhole
<1> QED
  BY <1>1, <1>5, PrevKept, DrawnKept, BufferKept, PublicKept DEF Holds

(* The register where all the words were written once.                     *)
LEMMA WrittenOnce ==
    ASSUME NEW op, NEW i, NEW g, NEW q, NEW written, NEW rewritten, NEW regs,
           Staged(op, i, g, q, written, rewritten, regs), op.reg \in Register,
           NEW k \in Word, k \in written, k \notin rewritten
    PROVE  regs[op.reg][k] = FirstWord(op, i, g, q, k)
BY DEF Staged, Stage

(* A register that no step writes, and the words that no step has written. *)
LEMMA Unwritten ==
    ASSUME NEW op, NEW i, NEW g, NEW q, NEW written, NEW rewritten, NEW regs,
           Staged(op, i, g, q, written, rewritten, regs),
           NEW r \in Register, NEW k \in Word, r # op.reg \/ k \notin written \cup rewritten
    PROVE  regs[r][k] = g.share[q][r][k]
BY DEF Staged, Stage

(* What the parties of a shuffle write in the end.                         *)
LEMMA ShuffleLast ==
    ASSUME NEW op \in Operation, op.kind = "shuffle", NEW i, NEW g, NEW p \in Party, NEW k
    PROVE  /\ p = op.party =>
                LastWord(op, i, g, p, k) = FirstWord(op, i, g, p, k) (+) Difference(op, g, p, k)
           /\ p = prev_party(op.party) =>
                LastWord(op, i, g, p, k) = FirstWord(op, i, g, p, k) (+) PadWord(g, p, k)
<1>1. op.party \in Party
  BY OperationIs
<1>2. prev_party(op.party) # op.party
  BY <1>1, Ring
<1> QED
  BY <1>2 DEF LastWord

(* The second dealer of a shuffle adds its share,                          *)
LEMMA HoldsDealXor ==
    ASSUME NEW op, NEW i, NEW g, NEW p, NEW steps, NEW s, Within(op, i, g, p, steps, s),
           NEW pv, NEW nx, NEW words, NEW d, NEW open,
           Holds(op, i, g, p, steps, s, pv, nx, words, d, open), steps[s].do = "deal_xor",
           NEW pv1, NEW nx1, NEW words1, NEW d1, Kept(op, pv, pv1), Kept(op, nx, nx1),
           \A k \in Word : words1[k] = words[k] (+) Sample(prev_party(p), d.prev + k),
           \A k \in Word : pv1[op.reg][k] = pv[op.reg][k] (+) Sample(prev_party(p), d.prev + k),
           \A k \in Word : nx1[op.reg][k] = nx[op.reg][k] (+) words1[k],
           d1.next = d.next, d1.prev = d.prev + NumWords
    PROVE  Holds(op, i, g, p, steps, s + 1, pv1, nx1, words1, d1, open)
<1>1. /\ "deal_xor" \in RewritesNext /\ "deal_xor" \in RewritesPrev
      /\ "deal_xor" \notin DrawsNext /\ "deal_xor" \in DrawsPrev
      /\ "deal_xor" \notin Takes /\ "deal_xor" \notin {"secrets"} /\ "deal_xor" \notin {"permute"}
      /\ "deal_xor" # "recv_public" /\ "deal_xor" \in {"deal_xor"}
      /\ "deal_xor" \in Local \ {"multiply", "choose", "xor_else"}
  BY DEF RewritesNext, RewritesPrev, DrawsNext, DrawsPrev, Takes, Local
<1>2. /\ Span(steps[s]) = Word /\ steps[s].hi - steps[s].lo + 1 = NumWords
      /\ \A k \in Word : k \in Nat /\ steps[s].lo - 1 + k = k
  BY <1>1, WholeStep
<1>3. DrawnAt(g, p, steps, s, d) /\ BufferAt(op, i, g, p, steps, s, words)
      /\ NextAt(op, i, g, p, steps, s, nx) /\ PrevAt(op, i, g, p, steps, s, pv)
  BY DEF Holds
<1>4. /\ DrawnAt(g, p, steps, s + 1, d1)
      /\ \A k \in Nat : Sample(prev_party(p), d.prev + k) = PadWord(g, prev_party(p), steps[s].lo - 1 + k)
  BY <1>1, <1>2, <1>3, DrawnOn
<1>5. \A k \in Word : Sample(prev_party(p), d.prev + k) = PadWord(g, prev_party(p), k)
  BY <1>2, <1>4
<1>6. op \in Operation /\ p \in Party /\ op.party \in Party /\ op.reg \in Register
  BY WithinIs, OperationIs DEF Ready
<1>7. /\ op.kind = "shuffle" /\ p = op.party
      /\ Did(steps, s, Takes) = Word /\ Did(steps, s, {"permute"}) = Word /\ Did(steps, s, {"deal_xor"}) = {}
      /\ Did(steps, s, {"secrets"}) = {} /\ Did(steps, s, WritesNext) = Word /\ Did(steps, s, WritesPrev) = Word
      /\ Did(steps, s, RewritesNext) = {} /\ Did(steps, s, RewritesPrev) = {}
  BY WithinIs DEF Ready
<1>8. ASSUME NEW k \in Word
      PROVE  words1[k] = Difference(op, g, p, k)
  <2>1. words[k] = Relocated(op, g, p, k)
    BY <1>3, <1>7 DEF BufferAt
  <2> QED
    BY <1>5, <2>1 DEF Difference
<1>9. ASSUME NEW k \in Word
      PROVE  /\ LastWord(op, i, g, p, k) = FirstWord(op, i, g, p, k) (+) Difference(op, g, p, k)
             /\ LastWord(op, i, g, prev_party(p), k) =
                  FirstWord(op, i, g, prev_party(p), k) (+) PadWord(g, prev_party(p), k)
  <2>1. prev_party(p) \in Party /\ prev_party(p) = prev_party(op.party)
    BY <1>6, <1>7, Ring
  <2>2. LastWord(op, i, g, p, k) = FirstWord(op, i, g, p, k) (+) Difference(op, g, p, k)
    BY <1>6, <1>7, ShuffleLast
  <2> QED
    BY <1>6, <1>7, <2>1, <2>2, ShuffleLast
<1>10. ASSUME NEW k \in Word
       PROVE  /\ nx[op.reg][k] = FirstWord(op, i, g, p, k)
              /\ pv[op.reg][k] = FirstWord(op, i, g, prev_party(p), k)
  <2>1. nx[op.reg][k] = FirstWord(op, i, g, p, k)
    BY <1>3, <1>6, <1>7, WrittenOnce DEF NextAt
  <2>2. pv[op.reg][k] = FirstWord(op, i, g, prev_party(p), k)
    BY <1>3, <1>6, <1>7, WrittenOnce DEF PrevAt
  <2> QED
    BY <2>1, <2>2
<1>11. \A k \in Word : /\ nx1[op.reg][k] = LastWord(op, i, g, p, k)
                       /\ pv1[op.reg][k] = LastWord(op, i, g, prev_party(p), k)
  BY <1>5, <1>8, <1>9, <1>10
<1>12. steps[s].do \in RewritesNext /\ steps[s].do \in RewritesPrev
  BY <1>1
<1>13. \A r \in Register : r # op.reg => nx1[r] = nx[r] /\ pv1[r] = pv[r]
  BY DEF Kept
<1>14. NextAt(op, i, g, p, steps, s + 1, nx1)
  <2>1. \A k \in Word : nx1[op.reg][k] =
            IF k \in Span(steps[s]) THEN LastWord(op, i, g, p, k) ELSE nx[op.reg][k]
    BY <1>2, <1>11
  <2> QED
    BY <1>3, <1>12, <1>13, <2>1, NextRewritten
<1>15. PrevAt(op, i, g, p, steps, s + 1, pv1)
  <2>1. \A k \in Word : pv1[op.reg][k] =
            IF k \in Span(steps[s]) THEN LastWord(op, i, g, prev_party(p), k) ELSE pv[op.reg][k]
    BY <1>2, <1>11
  <2> QED
    BY <1>3, <1>12, <1>13, <2>1, PrevRewritten
<1>16. BufferAt(op, i, g, p, steps, s + 1, words1)
  <2>1. steps[s].do \notin {"secrets"} /\ steps[s].do \in {"deal_xor"}
    OBVIOUS
  <2>2. Did(steps, s + 1, {"secrets"}) = Did(steps, s, {"secrets"})
    BY <2>1, DidStill
  <2>3. Did(steps, s + 1, {"deal_xor"}) = Did(steps, s, {"deal_xor"}) \cup Span(steps[s])
    BY <2>1, DidStill
  <2>4. Did(steps, s + 1, {"secrets"}) = {} /\ Did(steps, s + 1, {"deal_xor"}) = Word
    BY <1>2, <1>7, <2>2, <2>3
  <2> QED
    BY <1>8, <2>4 DEF BufferAt
<1> QED
  BY <1>1, <1>3, <1>4, <1>14, <1>15, <1>16, PublicKept DEF Holds

(* and the party before it the same pad.                                   *)
LEMMA HoldsPadXor ==
    ASSUME NEW op, NEW i, NEW g, NEW p, NEW steps, NEW s, Within(op, i, g, p, steps, s),
           NEW pv, NEW nx, NEW words, NEW d, NEW open,
           Holds(op, i, g, p, steps, s, pv, nx, words, d, open), steps[s].do = "pad_xor",
           NEW nx1, NEW d1, Kept(op, nx, nx1),
           \A k \in Word : nx1[op.reg][k] = nx[op.reg][k] (+) Sample(p, d.next + k),
           d1.next = d.next + NumWords, d1.prev = d.prev
    PROVE  Holds(op, i, g, p, steps, s + 1, pv, nx1, words, d1, open)
<1>1. /\ "pad_xor" \in RewritesNext /\ "pad_xor" \notin WritesPrev /\ "pad_xor" \notin RewritesPrev
      /\ "pad_xor" \in DrawsNext /\ "pad_xor" \notin DrawsPrev
      /\ "pad_xor" \notin Takes \cup {"secrets", "permute", "deal_xor"} /\ "pad_xor" # "recv_public"
      /\ "pad_xor" \in Local \ {"multiply", "choose", "xor_else"}
  BY DEF RewritesNext, WritesPrev, RewritesPrev, DrawsNext, DrawsPrev, Once, Takes, Local
<1>2. /\ Span(steps[s]) = Word /\ steps[s].hi - steps[s].lo + 1 = NumWords
      /\ \A k \in Word : k \in Nat /\ steps[s].lo - 1 + k = k
  BY <1>1, WholeStep
<1>3. DrawnAt(g, p, steps, s, d) /\ NextAt(op, i, g, p, steps, s, nx)
  BY DEF Holds
<1>4. /\ DrawnAt(g, p, steps, s + 1, d1)
      /\ \A k \in Nat : Sample(p, d.next + k) = PadWord(g, p, steps[s].lo - 1 + k)
  BY <1>1, <1>2, <1>3, DrawnOn
<1>5. \A k \in Word : Sample(p, d.next + k) = PadWord(g, p, k)
  BY <1>2, <1>4
<1>6. op \in Operation /\ p \in Party /\ op.reg \in Register
      /\ op.kind = "shuffle" /\ p = prev_party(op.party)
      /\ Did(steps, s, WritesNext) = Word /\ Did(steps, s, RewritesNext) = {}
  BY WithinIs DEF Ready
<1>7. ASSUME NEW k \in Word
      PROVE  nx1[op.reg][k] = LastWord(op, i, g, p, k)
  <2>1. LastWord(op, i, g, p, k) = FirstWord(op, i, g, p, k) (+) PadWord(g, p, k)
    BY <1>6, ShuffleLast
  <2>2. nx[op.reg][k] = FirstWord(op, i, g, p, k)
    BY <1>3, <1>6, WrittenOnce DEF NextAt
  <2> QED
    BY <1>5, <1>6, <2>1, <2>2
<1>8. NextAt(op, i, g, p, steps, s + 1, nx1)
  BY <1>1, <1>2, <1>3, <1>7, NextRewritten DEF Kept
<1> QED
  BY <1>1, <1>4, <1>8, PrevKept, BufferKept, PublicKept DEF Holds

(* A step of the shuffle that writes to the local words alone.             *)
LEMMA HoldsTake ==
    ASSUME NEW op, NEW i, NEW g, NEW p, NEW steps, NEW s, Within(op, i, g, p, steps, s),
           NEW pv, NEW nx, NEW words, NEW d, NEW open,
           Holds(op, i, g, p, steps, s, pv, nx, words, d, open), steps[s].do \in Takes,
           NEW words1,
           steps[s].do = "take_both" => \A k \in Word : words1[k] = pv[op.reg][k] (+) nx[op.reg][k],
           steps[s].do = "take_next" => \A k \in Word : words1[k] = nx[op.reg][k]
    PROVE  Holds(op, i, g, p, steps, s + 1, pv, nx, words1, d, open)
<1>1. /\ steps[s].do \notin WritesNext /\ steps[s].do \notin RewritesNext
      /\ steps[s].do \notin WritesPrev /\ steps[s].do \notin RewritesPrev
      /\ steps[s].do \notin DrawsNext /\ steps[s].do \notin DrawsPrev
      /\ steps[s].do # "recv_public" /\ steps[s].do \notin {"secrets"} /\ steps[s].do \notin {"permute"}
      /\ steps[s].do \notin {"deal_xor"}
  BY DEF Takes, WritesNext, RewritesNext, WritesPrev, RewritesPrev, DrawsNext, DrawsPrev, Once
<1>2. /\ op.kind = "shuffle" /\ \A whats : Did(steps, s, whats) = {}
      /\ \/ steps[s].do = "take_both" /\ p = op.party
         \/ steps[s].do = "take_next" /\ p = next_party(op.party)
  BY WithinIs DEF Ready
<1>3. op \in Operation /\ op.reg = "a" /\ op.reg \in Register /\ op.party \in Party
  BY <1>2, WithinIs, OperationIs
<1>4. next_party(op.party) # op.party
  BY <1>3, Ring
<1>5. ASSUME NEW k \in Word
      PROVE  nx[op.reg][k] = g.share[p]["a"][k] /\ pv[op.reg][k] = g.share[prev_party(p)]["a"][k]
  <2>1. k \notin Did(steps, s, WritesNext) \cup Did(steps, s, RewritesNext)
        /\ k \notin Did(steps, s, WritesPrev) \cup Did(steps, s, RewritesPrev)
    BY <1>2
  <2>2. nx[op.reg][k] = g.share[p][op.reg][k]
    BY <1>3, <2>1, Unwritten DEF Holds, NextAt
  <2>3. pv[op.reg][k] = g.share[prev_party(p)][op.reg][k]
    BY <1>3, <2>1, Unwritten DEF Holds, PrevAt
  <2> QED
    BY <1>3, <2>2, <2>3
<1>6. ASSUME NEW k \in Word
      PROVE  words1[k] = Taken(op, g, p, k)
  <2>1. CASE steps[s].do = "take_both"
    <3>1. p = op.party
      BY <1>2, <2>1
    <3> QED
      BY <1>5, <2>1, <3>1 DEF Taken
  <2>2. CASE steps[s].do = "take_next"
    <3>1. p # op.party
      BY <1>2, <1>4, <2>2
    <3> QED
      BY <1>5, <2>2, <3>1 DEF Taken
  <2> QED
    BY <1>2, <2>1, <2>2
<1>7. BufferAt(op, i, g, p, steps, s + 1, words1)
  <2>1. /\ Did(steps, s + 1, {"secrets"}) = {} /\ Did(steps, s + 1, {"permute"}) = {}
        /\ Did(steps, s + 1, {"deal_xor"}) = {}
    BY <1>1, <1>2, DidStill
  <2> QED
    BY <1>6, <2>1 DEF BufferAt
<1> QED
  BY <1>1, <1>7, NextKept, PrevKept, DrawnKept, PublicKept DEF Holds

(* And permuted.                                                           *)
LEMMA HoldsPermute ==
    ASSUME NEW op, NEW i, NEW g, NEW p, NEW steps, NEW s, Within(op, i, g, p, steps, s),
           NEW pv, NEW nx, NEW words, NEW d, NEW open,
           Holds(op, i, g, p, steps, s, pv, nx, words, d, open), steps[s].do = "permute",
           NEW words1, \A k \in Word : words1[k] = words[NumWords + 1 - k]
    PROVE  Holds(op, i, g, p, steps, s + 1, pv, nx, words1, d, open)
<1>1. /\ "permute" \notin WritesNext /\ "permute" \notin RewritesNext
      /\ "permute" \notin WritesPrev /\ "permute" \notin RewritesPrev
      /\ "permute" \notin DrawsNext /\ "permute" \notin DrawsPrev
      /\ "permute" # "recv_public" /\ "permute" \notin {"secrets"} /\ "permute" \in {"permute"}
      /\ "permute" \notin {"deal_xor"} /\ "permute" \notin Takes
      /\ "permute" \in Local \ {"multiply", "choose", "xor_else"}
  BY DEF Takes, WritesNext, RewritesNext, WritesPrev, RewritesPrev, DrawsNext, DrawsPrev, Once, Local
<1>2. /\ op.kind = "shuffle" /\ Did(steps, s, Takes) = Word /\ Did(steps, s, {"permute"}) = {}
      /\ Did(steps, s, {"deal_xor"}) = {} /\ Did(steps, s, {"secrets"}) = {}
  BY WithinIs DEF Ready
<1>3. Span(steps[s]) = Word
  BY <1>1, WholeStep
<1>4. ASSUME NEW k \in Word
      PROVE  words1[k] = Relocated(op, g, p, k)
  <2>1. NumWords + 1 - k \in Word
    BY Mirror
  <2>2. words[NumWords + 1 - k] = Taken(op, g, p, NumWords + 1 - k)
    BY <1>2, <2>1 DEF Holds, BufferAt
  <2> QED
    BY <2>2 DEF Relocated
<1>5. BufferAt(op, i, g, p, steps, s + 1, words1)
  <2>1. steps[s].do \notin {"secrets"} /\ steps[s].do \in {"permute"} /\ steps[s].do \notin {"deal_xor"}
    OBVIOUS
  <2>2. Did(steps, s + 1, {"secrets"}) = Did(steps, s, {"secrets"})
        /\ Did(steps, s + 1, {"deal_xor"}) = Did(steps, s, {"deal_xor"})
    BY <2>1, DidStill
  <2>3. Did(steps, s + 1, {"permute"}) = Did(steps, s, {"permute"}) \cup Span(steps[s])
    BY <2>1, DidStill
  <2>4. /\ Did(steps, s + 1, {"secrets"}) = {} /\ Did(steps, s + 1, {"permute"}) = Word
        /\ Did(steps, s + 1, {"deal_xor"}) = {}
    BY <1>2, <1>3, <2>2, <2>3
  <2> QED
    BY <1>4, <2>4 DEF BufferAt
<1> QED
  BY <1>1, <1>5, NextKept, PrevKept, DrawnKept, PublicKept DEF Holds

(* A public word is a share of one party.                                  *)
LEMMA HoldsInputPublic ==
    ASSUME NEW op, NEW i, NEW g, NEW p, NEW steps, NEW s, Within(op, i, g, p, steps, s),
           NEW pv, NEW nx, NEW words, NEW d, NEW open,
           Holds(op, i, g, p, steps, s, pv, nx, words, d, open), steps[s].do = "input_public",
           NEW pv1, NEW nx1, Kept(op, pv, pv1), Kept(op, nx, nx1),
           \A k \in Word : nx1[op.reg][k] = IF p = 1 THEN Atom(<<"secret", i, k>>) ELSE nx[op.reg][k],
           \A k \in Word : pv1[op.reg][k] = IF p = 2 THEN Atom(<<"secret", i, k>>) ELSE pv[op.reg][k]
    PROVE  Holds(op, i, g, p, steps, s + 1, pv1, nx1, words, d, open)
<1>1. /\ "input_public" \in WritesNext /\ "input_public" \in WritesPrev
      /\ "input_public" \notin DrawsNext /\ "input_public" \notin DrawsPrev
      /\ "input_public" \notin Takes \cup {"secrets", "permute", "deal_xor"}
      /\ "input_public" # "recv_public" /\ "input_public" \in Local \ {"multiply", "choose", "xor_else"}
      /\ "input_public" \in Once \ {"deal", "pad"}
  BY DEF WritesNext, WritesPrev, DrawsNext, DrawsPrev, Once, Takes, Local
<1>2. Span(steps[s]) = Word
  BY <1>1, WholeStep
<1>3. op.kind = "input_public" /\ p \in Party /\ prev_party(p) \in Party /\ op.reg \in Register
      /\ Did(steps, s, RewritesNext) = {} /\ Did(steps, s, RewritesPrev) = {}
  BY <1>1, WithinIs DEF Ready
<1>4. prev_party(p) = 1 <=> p = 2
  BY <1>3 DEF prev_party, Party
<1>5. ASSUME NEW q, NEW k
      PROVE  FirstWord(op, i, g, q, k) = IF q = 1 THEN Atom(<<"secret", i, k>>) ELSE g.share[q][op.reg][k]
  BY <1>3 DEF FirstWord
<1>6. ASSUME NEW k \in Word, p # 1
      PROVE  nx[op.reg][k] = FirstWord(op, i, g, p, k)
  <2>1. CASE k \in Did(steps, s, WritesNext)
    BY <1>3, <2>1, WrittenOnce DEF Holds, NextAt
  <2>2. CASE k \notin Did(steps, s, WritesNext)
    <3>1. nx[op.reg][k] = g.share[p][op.reg][k]
      BY <1>3, <2>2, Unwritten DEF Holds, NextAt
    <3> QED
      BY <1>5, <1>6, <3>1
  <2> QED
    BY <2>1, <2>2
<1>7. ASSUME NEW k \in Word, p # 2
      PROVE  pv[op.reg][k] = FirstWord(op, i, g, prev_party(p), k)
  <2>1. CASE k \in Did(steps, s, WritesPrev)
    BY <1>3, <2>1, WrittenOnce DEF Holds, PrevAt
  <2>2. CASE k \notin Did(steps, s, WritesPrev)
    <3>1. pv[op.reg][k] = g.share[prev_party(p)][op.reg][k]
      BY <1>3, <2>2, Unwritten DEF Holds, PrevAt
    <3> QED
      BY <1>4, <1>5, <1>7, <3>1
  <2> QED
    BY <2>1, <2>2
<1>10. ASSUME NEW k \in Word
       PROVE  nx1[op.reg][k] = FirstWord(op, i, g, p, k)
  <2>1. CASE p = 1
    <3>1. FirstWord(op, i, g, p, k) = IF p = 1 THEN Atom(<<"secret", i, k>>) ELSE g.share[p][op.reg][k]
      BY <1>5, Zenon
    <3>2. FirstWord(op, i, g, p, k) = Atom(<<"secret", i, k>>)
      BY <2>1, <3>1, Zenon
    <3> QED
      BY <2>1, <3>2
  <2>2. CASE p # 1
    BY <1>6, <2>2
  <2> QED
    BY <2>1, <2>2
<1>11. ASSUME NEW k \in Word
       PROVE  pv1[op.reg][k] = FirstWord(op, i, g, prev_party(p), k)
  <2>1. CASE p = 2
    <3>1. FirstWord(op, i, g, prev_party(p), k) = Atom(<<"secret", i, k>>)
      BY <1>4, <1>5, <2>1
    <3>2. pv1[op.reg][k] = Atom(<<"secret", i, k>>)
      BY <2>1
    <3> QED
      BY <3>1, <3>2, Zenon
  <2>2. CASE p # 2
    BY <1>7, <2>2
  <2> QED
    BY <2>1, <2>2
<1>8. NextAt(op, i, g, p, steps, s + 1, nx1)
  BY <1>1, <1>2, <1>10, NextWhole
<1>9. PrevAt(op, i, g, p, steps, s + 1, pv1)
  BY <1>1, <1>2, <1>11, PrevWhole
<1> QED
  BY <1>1, <1>8, <1>9, DrawnKept, BufferKept, PublicKept DEF Holds

(* Random words are drawn by both who hold them.                           *)
LEMMA HoldsFillRandom ==
    ASSUME NEW op, NEW i, NEW g, NEW p, NEW steps, NEW s, Within(op, i, g, p, steps, s),
           NEW pv, NEW nx, NEW words, NEW d, NEW open,
           Holds(op, i, g, p, steps, s, pv, nx, words, d, open), steps[s].do = "fill_random",
           NEW pv1, NEW nx1, NEW d1, Kept(op, pv, pv1), Kept(op, nx, nx1),
           \A k \in Word : pv1[op.reg][k] = Sample(prev_party(p), d.prev + k),
           \A k \in Word : nx1[op.reg][k] = Sample(p, d.next + k),
           d1.next = d.next + NumWords, d1.prev = d.prev + NumWords
    PROVE  Holds(op, i, g, p, steps, s + 1, pv1, nx1, words, d1, open)
<1>1. /\ "fill_random" \in WritesNext /\ "fill_random" \in WritesPrev
      /\ "fill_random" \in DrawsNext /\ "fill_random" \in DrawsPrev
      /\ "fill_random" \notin Takes \cup {"secrets", "permute", "deal_xor"}
      /\ "fill_random" # "recv_public" /\ "fill_random" \in Local \ {"multiply", "choose", "xor_else"}
      /\ "fill_random" \in Once \ {"deal", "pad"}
  BY DEF WritesNext, WritesPrev, DrawsNext, DrawsPrev, Once, Takes, Local
<1>2. /\ Span(steps[s]) = Word /\ steps[s].hi - steps[s].lo + 1 = NumWords
      /\ \A k \in Word : k \in Nat /\ steps[s].lo - 1 + k = k
  BY <1>1, WholeStep
<1>3. DrawnAt(g, p, steps, s, d)
  BY DEF Holds
<1>4. /\ DrawnAt(g, p, steps, s + 1, d1)
      /\ \A k \in Nat : Sample(p, d.next + k) = PadWord(g, p, steps[s].lo - 1 + k)
      /\ \A k \in Nat : Sample(prev_party(p), d.prev + k) = PadWord(g, prev_party(p), steps[s].lo - 1 + k)
  BY <1>1, <1>2, <1>3, DrawnOn
<1>5. op.kind = "fill_random"
  BY <1>1, WithinIs DEF Ready
<1>6. \A q, k : FirstWord(op, i, g, q, k) = PadWord(g, q, k)
  BY <1>5 DEF FirstWord
<1>7. \A k \in Word : /\ nx1[op.reg][k] = FirstWord(op, i, g, p, k)
                      /\ pv1[op.reg][k] = FirstWord(op, i, g, prev_party(p), k)
  BY <1>2, <1>4, <1>6
<1>8. NextAt(op, i, g, p, steps, s + 1, nx1)
  BY <1>1, <1>2, <1>7, NextWhole
<1>9. PrevAt(op, i, g, p, steps, s + 1, pv1)
  BY <1>1, <1>2, <1>7, PrevWhole
<1> QED
  BY <1>1, <1>4, <1>8, <1>9, BufferKept, PublicKept DEF Holds

(* A mask is put on every share.                                           *)
LEMMA HoldsMask ==
    ASSUME NEW op, NEW i, NEW g, NEW p, NEW steps, NEW s, Within(op, i, g, p, steps, s),
           NEW pv, NEW nx, NEW words, NEW d, NEW open,
           Holds(op, i, g, p, steps, s, pv, nx, words, d, open),
           steps[s].do \in {"apply_or_mask", "apply_and_mask"},
           NEW pv1, NEW nx1, Kept(op, pv, pv1), Kept(op, nx, nx1),
           \A k \in Word : pv1[op.reg][k] = MaskedWords(steps[s].do, pv[op.reg])[k],
           \A k \in Word : nx1[op.reg][k] = MaskedWords(steps[s].do, nx[op.reg])[k]
    PROVE  Holds(op, i, g, p, steps, s + 1, pv1, nx1, words, d, open)
<1>1. /\ steps[s].do \in WritesNext /\ steps[s].do \in WritesPrev
      /\ steps[s].do \notin DrawsNext /\ steps[s].do \notin DrawsPrev
      /\ steps[s].do \notin Takes \cup {"secrets", "permute", "deal_xor"}
      /\ steps[s].do # "recv_public" /\ steps[s].do \in Local \ {"multiply", "choose", "xor_else"}
      /\ steps[s].do \in Once \ {"deal", "pad"}
  BY DEF WritesNext, WritesPrev, DrawsNext, DrawsPrev, Once, Takes, Local
<1>2. Span(steps[s]) = Word
  BY <1>1, WholeStep
<1>3. op.kind = steps[s].do /\ \A whats : Did(steps, s, whats) = {}
  BY <1>1, WithinIs DEF Ready
<1>4. op.reg = "a" /\ op.reg \in Register
  BY <1>3, WithinIs, OperationIs
<1>5. ASSUME NEW k \in Word
      PROVE  nx[op.reg][k] = g.share[p]["a"][k] /\ pv[op.reg][k] = g.share[prev_party(p)]["a"][k]
  <2>1. k \notin Did(steps, s, WritesNext) \cup Did(steps, s, RewritesNext)
        /\ k \notin Did(steps, s, WritesPrev) \cup Did(steps, s, RewritesPrev)
    BY <1>3
  <2>2. nx[op.reg][k] = g.share[p][op.reg][k]
    BY <1>4, <2>1, Unwritten DEF Holds, NextAt
  <2>3. pv[op.reg][k] = g.share[prev_party(p)][op.reg][k]
    BY <1>4, <2>1, Unwritten DEF Holds, PrevAt
  <2> QED
    BY <1>4, <2>2, <2>3
<1>6. ASSUME NEW q, NEW k
      PROVE  FirstWord(op, i, g, q, k) = MaskedWords(op.kind, g.share[q]["a"])[k]
  BY <1>3 DEF FirstWord
<1>7. ASSUME NEW k \in Word
      PROVE  /\ nx1[op.reg][k] = FirstWord(op, i, g, p, k)
             /\ pv1[op.reg][k] = FirstWord(op, i, g, prev_party(p), k)
  <2>1. MaskedWords(op.kind, nx[op.reg])[k] = MaskedWords(op.kind, g.share[p]["a"])[k]
    BY <1>5, MaskedIs
  <2>2. MaskedWords(op.kind, pv[op.reg])[k] = MaskedWords(op.kind, g.share[prev_party(p)]["a"])[k]
    BY <1>5, MaskedIs
  <2> QED
    BY <1>3, <1>6, <2>1, <2>2
<1>8. NextAt(op, i, g, p, steps, s + 1, nx1)
  BY <1>1, <1>2, <1>7, NextWhole
<1>9. PrevAt(op, i, g, p, steps, s + 1, pv1)
  BY <1>1, <1>2, <1>7, PrevWhole
<1> QED
  BY <1>1, <1>8, <1>9, DrawnKept, BufferKept, PublicKept DEF Holds

(* The AND gate on a window.                                               *)
LEMMA HoldsMultiply ==
    ASSUME NEW op, NEW i, NEW g, NEW p, NEW steps, NEW s, Within(op, i, g, p, steps, s),
           NEW pv, NEW nx, NEW words, NEW d, NEW open,
           Holds(op, i, g, p, steps, s, pv, nx, words, d, open), steps[s].do = "multiply",
           NEW nx1, NEW d1, NEW lo, NEW hi, lo = steps[s].lo, hi = steps[s].hi, Kept(op, nx, nx1),
           \A k \in Word : k \notin lo .. hi => nx1[op.reg][k] = nx[op.reg][k],
           \A k \in lo .. hi : nx1[op.reg][k] =
               (Sample(prev_party(p), d.prev + (k - lo + 1)) (+) Sample(p, d.next + (k - lo + 1)))
                 (+) Products([prev |-> pv["a"][k], next |-> nx["a"][k]], [prev |-> pv["b"][k], next |-> nx["b"][k]]),
           d1.next = d.next + (hi - lo + 1), d1.prev = d.prev + (hi - lo + 1)
    PROVE  Holds(op, i, g, p, steps, s + 1, pv, nx1, words, d1, open)
<1>1. /\ "multiply" \in WritesNext /\ "multiply" \notin WritesPrev /\ "multiply" \notin RewritesPrev
      /\ "multiply" \in DrawsNext /\ "multiply" \in DrawsPrev
      /\ "multiply" \notin Takes \cup {"secrets", "permute", "deal_xor"}
      /\ "multiply" # "recv_public" /\ "multiply" \in Local
  BY DEF WritesNext, WritesPrev, RewritesPrev, DrawsNext, DrawsPrev, Once, Takes, Local
<1>2. lo \in Nat /\ hi \in Nat /\ 1 =< lo /\ lo =< hi
  BY DrawCounts
<1>3. Span(steps[s]) = lo .. hi /\ Span(steps[s]) \subseteq Word
  BY <1>1, Kinds, DidStill DEF Span
<1>4. DrawnAt(g, p, steps, s, d)
  BY DEF Holds
<1>5. /\ DrawnAt(g, p, steps, s + 1, d1)
      /\ \A k \in Nat : Sample(p, d.next + k) = PadWord(g, p, lo - 1 + k)
      /\ \A k \in Nat : Sample(prev_party(p), d.prev + k) = PadWord(g, prev_party(p), lo - 1 + k)
  BY <1>1, <1>4, DrawnOn
<1>6. op.kind = "mand_gate" /\ op.reg = "c" /\ op.reg \in Register
  BY WithinIs, OperationIs DEF Ready
<1>7. ASSUME NEW k \in lo .. hi
      PROVE  nx1[op.reg][k] = FirstWord(op, i, g, p, k)
  <2>1. k \in Word /\ k - lo + 1 \in Nat /\ lo - 1 + (k - lo + 1) = k
    BY <1>2, <1>3
  <2>2. /\ Sample(p, d.next + (k - lo + 1)) = PadWord(g, p, k)
        /\ Sample(prev_party(p), d.prev + (k - lo + 1)) = PadWord(g, prev_party(p), k)
    <3>1. /\ Sample(p, d.next + (k - lo + 1)) = PadWord(g, p, lo - 1 + (k - lo + 1))
          /\ Sample(prev_party(p), d.prev + (k - lo + 1)) = PadWord(g, prev_party(p), lo - 1 + (k - lo + 1))
      BY <1>5, <2>1
    <3> QED
      BY <2>1, <3>1
  <2>3. \A r \in {"a", "b"} : nx[r][k] = g.share[p][r][k] /\ pv[r][k] = g.share[prev_party(p)][r][k]
    <3>1. \A r \in {"a", "b"} : r \in Register /\ r # op.reg
      BY <1>6 DEF Register
    <3>2. \A r \in {"a", "b"} : nx[r][k] = g.share[p][r][k]
      BY <2>1, <3>1, Unwritten DEF Holds, NextAt
    <3>3. \A r \in {"a", "b"} : pv[r][k] = g.share[prev_party(p)][r][k]
      BY <2>1, <3>1, Unwritten DEF Holds, PrevAt
    <3> QED
      BY <3>2, <3>3
  <2>4. FirstWord(op, i, g, p, k) = ZeroShare(g, p, k) (+) Products(Held(g, p, "a", k), Held(g, p, "b", k))
    BY <1>6 DEF FirstWord
  <2>5. /\ Held(g, p, "a", k) = [prev |-> pv["a"][k], next |-> nx["a"][k]]
        /\ Held(g, p, "b", k) = [prev |-> pv["b"][k], next |-> nx["b"][k]]
    BY <2>3 DEF Held
  <2> QED
    BY <2>2, <2>4, <2>5 DEF ZeroShare
<1>8. \A k \in Word : nx1[op.reg][k] =
          IF k \in Span(steps[s]) THEN FirstWord(op, i, g, p, k) ELSE nx[op.reg][k]
  BY <1>3, <1>7
<1>9. NextAt(op, i, g, p, steps, s + 1, nx1)
  BY <1>1, <1>8, NextWritten DEF Holds, Kept
<1> QED
  BY <1>1, <1>5, <1>9, PrevKept, BufferKept, PublicKept DEF Holds

(* if_then_else is about the first word.                                   *)
LEMMA HoldsChoose ==
    ASSUME NEW op, NEW i, NEW g, NEW p, NEW steps, NEW s, Within(op, i, g, p, steps, s),
           NEW pv, NEW nx, NEW words, NEW d, NEW open,
           Holds(op, i, g, p, steps, s, pv, nx, words, d, open), steps[s].do = "choose",
           NEW nx1, NEW d1, Kept(op, nx, nx1),
           \A k \in Word : k # 1 => nx1[op.reg][k] = nx[op.reg][k],
           nx1[op.reg][1] =
               (Sample(prev_party(p), d.prev + 1) (+) Sample(p, d.next + 1))
                 (+) Products([prev |-> pv["b"][1], next |-> nx["b"][1]],
                              [prev |-> pv["a"][1] (+) pv["c"][1], next |-> nx["a"][1] (+) nx["c"][1]]),
           d1.next = d.next + 1, d1.prev = d.prev + 1
    PROVE  Holds(op, i, g, p, steps, s + 1, pv, nx1, words, d1, open)
<1>1. /\ "choose" \in WritesNext /\ "choose" \notin WritesPrev /\ "choose" \notin RewritesPrev
      /\ "choose" \in DrawsNext /\ "choose" \in DrawsPrev
      /\ "choose" \notin Takes \cup {"secrets", "permute", "deal_xor"}
      /\ "choose" # "recv_public" /\ "choose" \in Local
  BY DEF WritesNext, WritesPrev, RewritesPrev, DrawsNext, DrawsPrev, Once, Takes, Local
<1>2. op.kind = "if_then_else" /\ op.reg = "d" /\ op.reg \in Register
      /\ steps[s].lo = 1 /\ steps[s].hi = 1
  BY WithinIs, OperationIs DEF Ready
<1>3. Span(steps[s]) = {1} /\ Span(steps[s]) \subseteq Word
  BY <1>1, <1>2, Kinds, DidStill DEF Span
<1>4. DrawnAt(g, p, steps, s, d)
  BY DEF Holds
<1>5. /\ DrawnAt(g, p, steps, s + 1, d1)
      /\ \A k \in Nat : Sample(p, d.next + k) = PadWord(g, p, steps[s].lo - 1 + k)
      /\ \A k \in Nat : Sample(prev_party(p), d.prev + k) = PadWord(g, prev_party(p), steps[s].lo - 1 + k)
  <2>1. steps[s].hi - steps[s].lo + 1 = 1
    BY <1>2
  <2>2. /\ d1.next = d.next + (steps[s].hi - steps[s].lo + 1)
        /\ d1.prev = d.prev + (steps[s].hi - steps[s].lo + 1)
    BY <2>1
  <2> QED
    BY <1>1, <1>4, <2>2, DrawnOn
<1>6. /\ Sample(p, d.next + 1) = PadWord(g, p, 1)
      /\ Sample(prev_party(p), d.prev + 1) = PadWord(g, prev_party(p), 1)
  BY <1>2, <1>5
<1>7. \A r \in {"a", "b", "c"} : nx[r][1] = g.share[p][r][1] /\ pv[r][1] = g.share[prev_party(p)][r][1]
  <2>1. \A r \in {"a", "b", "c"} : r \in Register /\ r # op.reg
    BY <1>2 DEF Register
  <2>2. 1 \in Word
    BY <1>3
  <2>3. \A r \in {"a", "b", "c"} : nx[r][1] = g.share[p][r][1]
    BY <2>1, <2>2, Unwritten DEF Holds, NextAt
  <2>4. \A r \in {"a", "b", "c"} : pv[r][1] = g.share[prev_party(p)][r][1]
    BY <2>1, <2>2, Unwritten DEF Holds, PrevAt
  <2> QED
    BY <2>3, <2>4
<1>8. nx1[op.reg][1] = FirstWord(op, i, g, p, 1)
  <2>1. FirstWord(op, i, g, p, 1) = ZeroShare(g, p, 1) (+) Products(Held(g, p, "b", 1), Chosen(g, p, 1))
    BY <1>2 DEF FirstWord
  <2>2. Held(g, p, "b", 1) = [prev |-> pv["b"][1], next |-> nx["b"][1]]
    BY <1>7 DEF Held
  <2>3. Chosen(g, p, 1) = [prev |-> pv["a"][1] (+) pv["c"][1], next |-> nx["a"][1] (+) nx["c"][1]]
    BY <1>7 DEF Chosen, Held
  <2> QED
    BY <1>6, <2>1, <2>2, <2>3 DEF ZeroShare
<1>9. \A k \in Word : nx1[op.reg][k] =
          IF k \in Span(steps[s]) THEN FirstWord(op, i, g, p, k) ELSE nx[op.reg][k]
  BY <1>3, <1>8
<1>10. NextAt(op, i, g, p, steps, s + 1, nx1)
  BY <1>1, <1>9, NextWritten DEF Holds, Kept
<1> QED
  BY <1>1, <1>5, <1>10, PrevKept, BufferKept, PublicKept DEF Holds

(* The end of a choice.                                                    *)
LEMMA HoldsXorElse ==
    ASSUME NEW op, NEW i, NEW g, NEW p, NEW steps, NEW s, Within(op, i, g, p, steps, s),
           NEW pv, NEW nx, NEW words, NEW d, NEW open,
           Holds(op, i, g, p, steps, s, pv, nx, words, d, open), steps[s].do = "xor_else",
           NEW pv1, NEW nx1, Kept(op, pv, pv1), Kept(op, nx, nx1),
           \A k \in Word : k # 1 => nx1[op.reg][k] = nx[op.reg][k] /\ pv1[op.reg][k] = pv[op.reg][k],
           nx1[op.reg][1] = nx[op.reg][1] (+) nx["c"][1],
           pv1[op.reg][1] = pv[op.reg][1] (+) pv["c"][1]
    PROVE  Holds(op, i, g, p, steps, s + 1, pv1, nx1, words, d, open)
<1>1. /\ "xor_else" \in RewritesNext /\ "xor_else" \in RewritesPrev
      /\ "xor_else" \notin DrawsNext /\ "xor_else" \notin DrawsPrev
      /\ "xor_else" \notin Takes \cup {"secrets", "permute", "deal_xor"}
      /\ "xor_else" # "recv_public" /\ "xor_else" \in Local
  BY DEF RewritesNext, RewritesPrev, DrawsNext, DrawsPrev, Once, Takes, Local
<1>2. op.kind = "if_then_else" /\ op.reg = "d" /\ op.reg \in Register
      /\ steps[s].lo = 1 /\ steps[s].hi = 1
      /\ 1 \in Did(steps, s, WritesNext) /\ 1 \in Did(steps, s, WritesPrev)
      /\ Did(steps, s, RewritesNext) = {} /\ Did(steps, s, RewritesPrev) = {}
  BY WithinIs, OperationIs DEF Ready
<1>3. Span(steps[s]) = {1} /\ Span(steps[s]) \subseteq Word
  BY <1>1, <1>2, Kinds, DidStill DEF Span
<1>4. 1 \in Word /\ "c" \in Register /\ "c" # op.reg
  BY <1>2, <1>3 DEF Register
<1>5. nx["c"][1] = g.share[p]["c"][1]
  BY <1>4, Unwritten DEF Holds, NextAt
<1>6. pv["c"][1] = g.share[prev_party(p)]["c"][1]
  BY <1>4, Unwritten DEF Holds, PrevAt
<1>7. nx[op.reg][1] = FirstWord(op, i, g, p, 1)
  BY <1>2, <1>4, WrittenOnce DEF Holds, NextAt
<1>8. pv[op.reg][1] = FirstWord(op, i, g, prev_party(p), 1)
  BY <1>2, <1>4, WrittenOnce DEF Holds, PrevAt
<1>9. \A q : LastWord(op, i, g, q, 1) = FirstWord(op, i, g, q, 1) (+) g.share[q]["c"][1]
  BY <1>2 DEF LastWord
<1>10. /\ nx1[op.reg][1] = LastWord(op, i, g, p, 1)
       /\ pv1[op.reg][1] = LastWord(op, i, g, prev_party(p), 1)
  BY <1>5, <1>6, <1>7, <1>8, <1>9
<1>11. \A k \in Word : nx1[op.reg][k] =
          IF k \in Span(steps[s]) THEN LastWord(op, i, g, p, k) ELSE nx[op.reg][k]
  BY <1>3, <1>10
<1>12. \A k \in Word : pv1[op.reg][k] =
          IF k \in Span(steps[s]) THEN LastWord(op, i, g, prev_party(p), k) ELSE pv[op.reg][k]
  BY <1>3, <1>10
<1>13. NextAt(op, i, g, p, steps, s + 1, nx1)
  BY <1>1, <1>11, NextRewritten DEF Holds, Kept
<1>14. PrevAt(op, i, g, p, steps, s + 1, pv1)
  BY <1>1, <1>12, PrevRewritten DEF Holds, Kept
<1> QED
  BY <1>1, <1>13, <1>14, DrawnKept, BufferKept, PublicKept DEF Holds

(* The words that are received are those that the previous party sends.    *)
LEMMA WordReceived ==
    ASSUME NEW op \in Operation, NEW i, NEW g, NEW p \in Party, NEW k
    PROVE  /\ op.kind \in {"input", "mand_gate", "if_then_else"}
                \/ (op.kind = "shuffle" /\ p # next_party(op.party)) =>
                WordOf(op, i, g, prev_party(p), k) = FirstWord(op, i, g, prev_party(p), k)
           /\ op.kind = "shuffle" /\ p = next_party(op.party) =>
                WordOf(op, i, g, prev_party(p), k) = Difference(op, g, op.party, k)
           /\ op.kind \in {"reveal_to", "reveal_to_all"} =>
                WordOf(op, i, g, prev_party(p), k) = g.share[next_party(p)][op.reg][k]
<1>1. next_party(prev_party(p)) = p /\ prev_party(prev_party(p)) = next_party(p)
  BY Ring
<1>2. op.kind = "shuffle" => (prev_party(p) = op.party <=> p = next_party(op.party))
  BY <1>1, OperationIs, Ring
<1> QED
  BY <1>1, <1>2 DEF WordOf

(* A share received,                                                       *)
LEMMA HoldsRecv ==
    ASSUME NEW op, NEW i, NEW g, NEW p, NEW steps, NEW s, Within(op, i, g, p, steps, s),
           NEW pv, NEW nx, NEW words, NEW d, NEW open,
           Holds(op, i, g, p, steps, s, pv, nx, words, d, open), steps[s].do = "recv_prev",
           NEW pv1, NEW lo, lo = steps[s].lo, Kept(op, pv, pv1),
           \A k \in Word : k # lo => pv1[op.reg][k] = pv[op.reg][k],
           pv1[op.reg][lo] = WordOf(op, i, g, prev_party(p), lo)
    PROVE  Holds(op, i, g, p, steps, s + 1, pv1, nx, words, d, open)
<1>1. /\ "recv_prev" \in WritesPrev /\ "recv_prev" \notin WritesNext /\ "recv_prev" \notin RewritesNext
      /\ "recv_prev" \notin DrawsNext /\ "recv_prev" \notin DrawsPrev
      /\ "recv_prev" \notin Takes \cup {"secrets", "permute", "deal_xor"}
      /\ "recv_prev" # "recv_public" /\ "recv_prev" \in Sending \cup Receiving
  BY DEF WritesPrev, WritesNext, RewritesNext, DrawsNext, DrawsPrev, Once, Takes, Receiving
<1>2. Span(steps[s]) = {lo}
  BY <1>1 DEF Span
<1>3. op \in Operation /\ p \in Party
  BY WithinIs
<1>4. op.kind \in {"input", "mand_gate", "if_then_else"}
      \/ (op.kind = "shuffle" /\ p = prev_party(op.party))
  BY WithinIs DEF Ready
<1>5. op.kind \in {"input", "mand_gate", "if_then_else"}
      \/ (op.kind = "shuffle" /\ p # next_party(op.party))
  BY <1>3, <1>4, OperationIs, Ring
<1>6. pv1[op.reg][lo] = FirstWord(op, i, g, prev_party(p), lo)
  BY <1>3, <1>5, WordReceived
<1>7. \A k \in Word : pv1[op.reg][k] =
          IF k \in Span(steps[s]) THEN FirstWord(op, i, g, prev_party(p), k) ELSE pv[op.reg][k]
  BY <1>2, <1>6
<1>8. PrevAt(op, i, g, p, steps, s + 1, pv1)
  BY <1>1, <1>7, PrevWritten DEF Holds, Kept
<1> QED
  BY <1>1, <1>8, NextKept, DrawnKept, BufferKept, PublicKept DEF Holds

(* one that is added,                                                      *)
LEMMA HoldsRecvXor ==
    ASSUME NEW op, NEW i, NEW g, NEW p, NEW steps, NEW s, Within(op, i, g, p, steps, s),
           NEW pv, NEW nx, NEW words, NEW d, NEW open,
           Holds(op, i, g, p, steps, s, pv, nx, words, d, open), steps[s].do = "recv_prev_xor",
           NEW pv1, NEW lo, lo = steps[s].lo, Kept(op, pv, pv1),
           \A k \in Word : k # lo => pv1[op.reg][k] = pv[op.reg][k],
           pv1[op.reg][lo] = pv[op.reg][lo] (+) WordOf(op, i, g, prev_party(p), lo)
    PROVE  Holds(op, i, g, p, steps, s + 1, pv1, nx, words, d, open)
<1>1. /\ "recv_prev_xor" \in RewritesPrev /\ "recv_prev_xor" \notin WritesNext /\ "recv_prev_xor" \notin RewritesNext
      /\ "recv_prev_xor" \notin DrawsNext /\ "recv_prev_xor" \notin DrawsPrev
      /\ "recv_prev_xor" \notin Takes \cup {"secrets", "permute", "deal_xor"}
      /\ "recv_prev_xor" # "recv_public" /\ "recv_prev_xor" \in Sending \cup Receiving
  BY DEF RewritesPrev, WritesNext, RewritesNext, DrawsNext, DrawsPrev, Once, Takes, Receiving
<1>2. Span(steps[s]) = {lo} /\ lo \in Word
  BY <1>1, DrawCounts DEF Span
<1>3. op \in Operation /\ p \in Party /\ op.reg \in Register
  BY WithinIs
<1>4. op.kind = "shuffle" /\ p = next_party(op.party)
      /\ Did(steps, s, WritesPrev) = Word /\ lo \notin Did(steps, s, RewritesPrev)
  BY WithinIs DEF Ready
<1>5. op.party \in Party /\ prev_party(p) = op.party
  BY <1>3, <1>4, OperationIs, Ring
<1>6. WordOf(op, i, g, prev_party(p), lo) = Difference(op, g, op.party, lo)
  BY <1>3, <1>4, WordReceived
<1>7. pv[op.reg][lo] = FirstWord(op, i, g, prev_party(p), lo)
  BY <1>2, <1>3, <1>4, WrittenOnce DEF Holds, PrevAt
<1>8. LastWord(op, i, g, prev_party(p), lo) =
        FirstWord(op, i, g, prev_party(p), lo) (+) Difference(op, g, prev_party(p), lo)
  BY <1>3, <1>4, <1>5, ShuffleLast
<1>9. pv1[op.reg][lo] = LastWord(op, i, g, prev_party(p), lo)
  BY <1>5, <1>6, <1>7, <1>8
<1>10. \A k \in Word : pv1[op.reg][k] =
          IF k \in Span(steps[s]) THEN LastWord(op, i, g, prev_party(p), k) ELSE pv[op.reg][k]
  BY <1>2, <1>9
<1>11. PrevAt(op, i, g, p, steps, s + 1, pv1)
  BY <1>1, <1>10, PrevRewritten DEF Holds, Kept
<1> QED
  BY <1>1, <1>11, NextKept, DrawnKept, BufferKept, PublicKept DEF Holds

(* An operation that reveals leaves the shares as they are.                *)
LEMMA Unchanged ==
    ASSUME NEW op, op.kind \in {"reveal_to", "reveal_to_all"}, op.reg \in Register, NEW i, NEW g, NEW q,
           NEW written, NEW rewritten, NEW regs, Staged(op, i, g, q, written, rewritten, regs), NEW k \in Word
    PROVE  regs[op.reg][k] = g.share[q][op.reg][k]
<1>1. /\ FirstWord(op, i, g, q, k) = g.share[q][op.reg][k]
      /\ LastWord(op, i, g, q, k) = FirstWord(op, i, g, q, k)
  BY DEF FirstWord, LastWord
<1> QED
  BY <1>1 DEF Staged, Stage

(* and one that opens a word.                                              *)
LEMMA HoldsOpen ==
    ASSUME NEW op, NEW i, NEW g, NEW p, NEW steps, NEW s, Within(op, i, g, p, steps, s),
           NEW pv, NEW nx, NEW words, NEW d, NEW open,
           Holds(op, i, g, p, steps, s, pv, nx, words, d, open), steps[s].do = "recv_public",
           NEW open1, NEW lo, lo = steps[s].lo,
           \A k \in Word : k # lo => open1[k] = open[k],
           open1[lo] = WordOf(op, i, g, prev_party(p), lo) (+) pv[op.reg][lo] (+) nx[op.reg][lo]
    PROVE  Holds(op, i, g, p, steps, s + 1, pv, nx, words, d, open1)
<1>1. /\ "recv_public" \notin WritesPrev /\ "recv_public" \notin WritesNext
      /\ "recv_public" \notin RewritesPrev /\ "recv_public" \notin RewritesNext
      /\ "recv_public" \notin DrawsNext /\ "recv_public" \notin DrawsPrev
      /\ "recv_public" \notin Takes \cup {"secrets", "permute", "deal_xor"}
      /\ "recv_public" \in Sending \cup Receiving
  BY DEF WritesPrev, WritesNext, RewritesPrev, RewritesNext, DrawsNext, DrawsPrev, Once, Takes, Receiving
<1>2. Span(steps[s]) = {lo} /\ lo \in Word
  BY <1>1, DrawCounts DEF Span
<1>3. op \in Operation /\ p \in Party /\ op.reg \in Register
  BY WithinIs
<1>4. op.kind \in {"reveal_to", "reveal_to_all"}
  BY WithinIs DEF Ready, RevealedTo
<1>5. WordOf(op, i, g, prev_party(p), lo) = g.share[next_party(p)][op.reg][lo]
  BY <1>3, <1>4, WordReceived
<1>6. nx[op.reg][lo] = g.share[p][op.reg][lo]
  BY <1>2, <1>3, <1>4, Unchanged DEF Holds, NextAt
<1>7. pv[op.reg][lo] = g.share[prev_party(p)][op.reg][lo]
  BY <1>2, <1>3, <1>4, Unchanged DEF Holds, PrevAt
<1>8. open1[lo] = Sum(g, op.reg, lo)
  <2>1. Sum(g, op.reg, lo) = g.share[next_party(p)][op.reg][lo] (+) g.share[prev_party(p)][op.reg][lo]
                               (+) g.share[p][op.reg][lo]
    BY <1>3, SumIs
  <2> QED
    BY <1>5, <1>6, <1>7, <2>1
<1>9. PublicAt(op, g, steps, s + 1, open1)
  <2>1. steps[s].do \in {"recv_public"}
    OBVIOUS
  <2>2. Did(steps, s + 1, {"recv_public"}) = Did(steps, s, {"recv_public"}) \cup Span(steps[s])
    BY <2>1, DidStill
  <2>3. \A k \in Did(steps, s, {"recv_public"}) : k \in Word /\ open[k] = Sum(g, op.reg, k)
    BY DEF Holds, PublicAt, Did
  <2> QED
    BY <1>2, <1>8, <2>2, <2>3 DEF PublicAt
<1> QED
  BY <1>1, <1>9, NextKept, PrevKept, DrawnKept, BufferKept DEF Holds

(* And what is sent is what the next party, or the previous, waits for.    *)
LEMMA WordSent ==
    ASSUME NEW op, NEW i, NEW g, NEW p, NEW steps, NEW s, Within(op, i, g, p, steps, s),
           NEW pv, NEW nx, NEW words, NEW d, NEW open,
           Holds(op, i, g, p, steps, s, pv, nx, words, d, open), NEW lo, lo = steps[s].lo
    PROVE  /\ steps[s].do = "send_next" => nx[op.reg][lo] = WordOf(op, i, g, p, lo)
           /\ steps[s].do = "send_prev" => pv[op.reg][lo] = WordOf(op, i, g, p, lo)
           /\ steps[s].do = "send_buf" => words[lo] = WordOf(op, i, g, p, lo)
<1>1. op \in Operation /\ p \in Party /\ op.reg \in Register /\ lo \in Word
  BY WithinIs, DrawCounts
<1>2. ASSUME steps[s].do = "send_next"
      PROVE  nx[op.reg][lo] = WordOf(op, i, g, p, lo)
  <2>1. /\ \/ op.kind \in {"input", "mand_gate", "if_then_else"}
           \/ op.kind = "shuffle" /\ p # op.party
        /\ lo \in Did(steps, s, WritesNext) /\ Did(steps, s, RewritesNext) = {}
    BY <1>2, WithinIs DEF Ready
  <2>2. nx[op.reg][lo] = FirstWord(op, i, g, p, lo)
    BY <1>1, <2>1, WrittenOnce DEF Holds, NextAt
  <2>3. WordOf(op, i, g, p, lo) = FirstWord(op, i, g, p, lo)
    BY <2>1 DEF WordOf
  <2> QED
    BY <2>2, <2>3
<1>3. ASSUME steps[s].do = "send_prev"
      PROVE  pv[op.reg][lo] = WordOf(op, i, g, p, lo)
  <2>1. op.kind \in {"reveal_to", "reveal_to_all"}
    BY <1>3, WithinIs DEF Ready
  <2>2. pv[op.reg][lo] = g.share[prev_party(p)][op.reg][lo]
    BY <1>1, <2>1, Unchanged DEF Holds, PrevAt
  <2> QED
    BY <2>1, <2>2 DEF WordOf
<1>4. ASSUME steps[s].do = "send_buf"
      PROVE  words[lo] = WordOf(op, i, g, p, lo)
  <2>1. op.kind = "shuffle" /\ p = op.party /\ Did(steps, s, Takes) = Word /\ Did(steps, s, {"deal_xor"}) = Word
    BY <1>4, WithinIs DEF Ready
  <2>2. words[lo] = Difference(op, g, p, lo)
    BY <1>1, <2>1 DEF Holds, BufferAt
  <2> QED
    BY <2>1, <2>2 DEF WordOf
<1> QED
  BY <1>2, <1>3, <1>4

-----------------------------------------------------------------------------
(* The parties, step by step *)

(* The program does not change.                                            *)
LEMMA SyncSame ==
    ASSUME prog' = prog
    PROVE  Sync' = Sync
BY Zenon DEF Sync

(* What a party writes, and what it leaves alone.                          *)
LEMMA SetIs ==
    ASSUME TypeOK, NEW p \in Party, Running(p), NEW words
    PROVE  /\ SetPrev(p, words) => /\ prev'[p][Reg(p)] = words /\ Kept(prog[pos[p]], prev[p], prev'[p])
                                   /\ \A q \in Party : q # p => prev'[q] = prev[q]
           /\ SetNext(p, words) => /\ next'[p][Reg(p)] = words /\ Kept(prog[pos[p]], next[p], next'[p])
                                   /\ \A q \in Party : q # p => next'[q] = next[q]
           /\ SetBuf(p, words) => buf'[p] = words /\ \A q \in Party : q # p => buf'[q] = buf[q]
<1>1. Reg(p) \in Register /\ Reg(p) = prog[pos[p]].reg
  BY OperationFacts DEF Reg
<1>2. prev \in [Party -> [Register -> Vector]] /\ next \in [Party -> [Register -> Vector]]
      /\ buf \in [Party -> Vector]
  BY DEF TypeOK
<1>3. ASSUME SetPrev(p, words)
      PROVE  /\ prev'[p][Reg(p)] = words /\ Kept(prog[pos[p]], prev[p], prev'[p])
             /\ \A q \in Party : q # p => prev'[q] = prev[q]
  BY <1>1, <1>2, <1>3 DEF SetPrev, Kept
<1>4. ASSUME SetNext(p, words)
      PROVE  /\ next'[p][Reg(p)] = words /\ Kept(prog[pos[p]], next[p], next'[p])
             /\ \A q \in Party : q # p => next'[q] = next[q]
  BY <1>1, <1>2, <1>4 DEF SetNext, Kept
<1>5. ASSUME SetBuf(p, words)
      PROVE  buf'[p] = words /\ \A q \in Party : q # p => buf'[q] = buf[q]
  BY <1>2, <1>5 DEF SetBuf
<1> QED
  BY <1>3, <1>4, <1>5

(* What a party draws, and no other.                                       *)
LEMMA DrewIs ==
    ASSUME TypeOK, NEW p \in Party
    PROVE  /\ Drew(p, "prev") => /\ drawn'[p].prev = drawn[p].prev + NumWords /\ drawn'[p].next = drawn[p].next
                                 /\ \A q \in Party : q # p => drawn'[q] = drawn[q]
           /\ Drew(p, "next") => /\ drawn'[p].next = drawn[p].next + NumWords /\ drawn'[p].prev = drawn[p].prev
                                 /\ \A q \in Party : q # p => drawn'[q] = drawn[q]
           /\ \A n : drawn' = [drawn EXCEPT ![p] = [prev |-> @.prev + n, next |-> @.next + n]] =>
                                 /\ drawn'[p].next = drawn[p].next + n /\ drawn'[p].prev = drawn[p].prev + n
                                 /\ \A q \in Party : q # p => drawn'[q] = drawn[q]
<1>1. drawn \in [Party -> [prev : Nat, next : Nat]]
  BY DEF TypeOK
<1> QED
  BY <1>1 DEF Drew

Rest(p) ==
    \A q \in Party : q # p =>
        /\ prev'[q] = prev[q] /\ next'[q] = next[q] /\ buf'[q] = buf[q]
        /\ drawn'[q] = drawn[q] /\ public'[q] = public[q]

HeldAfter(p) ==
    Holds(prog[pos[p]], pos[p], Sync[pos[p] - 1], p, Mine(p), step[p] + 1,
          prev'[p], next'[p], buf'[p], drawn'[p], public'[p])

(* A party that rests is where it was.                                     *)
LEMMA HeldSame ==
    ASSUME NEW q \in Party, PartyHeld(q), prog' = prog, pos'[q] = pos[q], step'[q] = step[q],
           prev'[q] = prev[q], next'[q] = next[q], buf'[q] = buf[q], drawn'[q] = drawn[q],
           public'[q] = public[q]
    PROVE  PartyHeld(q)'
BY SyncSame DEF PartyHeld, Running

(* A party at a step.                                                      *)
LEMMA HeldNow ==
    ASSUME TypeOK, NEW p \in Party, NEW whats, At(p, whats)
    PROVE  /\ Running(p) /\ pos[p] \in 1 .. NumOps /\ step[p] \in Nat
           /\ Within(prog[pos[p]], pos[p], Sync[pos[p] - 1], p, Mine(p), step[p])
           /\ PartyHeld(p) => Holds(prog[pos[p]], pos[p], Sync[pos[p] - 1], p, Mine(p), step[p],
                                    prev[p], next[p], buf[p], drawn[p], public[p])
           /\ Now(p) = Mine(p)[step[p]] /\ Now(p).do \in whats
<1>1. Running(p) /\ step[p] \in 1 .. Len(Mine(p)) /\ Now(p) = Mine(p)[step[p]] /\ Now(p).do \in whats
  BY AtFacts
<1>2. pos[p] \in 1 .. NumOps /\ prog[pos[p]] \in Operation /\ step[p] \in Nat \ {0}
  BY <1>1, RunningFacts
<1>3. pos[p] - 1 \in 0 .. NumOps /\ prog \in [1 .. NumOps -> Operation]
  BY <1>2, Rep3Assumption DEF TypeOK
<1>4. Sync[pos[p] - 1] \in Globals
  BY <1>3, SyncIs
<1> QED
  BY <1>1, <1>2, <1>4 DEF Within, PartyHeld, Mine

(* When one party goes on and the others rest.                             *)
LEMMA HeldAdvance ==
    ASSUME TypeOK, NEW p \in Party, NEW whats, At(p, whats), Advance(p),
           \A q \in Party : PartyHeld(q), HeldAfter(p), Rest(p)
    PROVE  \A q \in Party : PartyHeld(q)'
<1>1. prog' = prog /\ pos' = pos /\ step' = [step EXCEPT ![p] = @ + 1]
  BY DEF Advance
<1>2. step \in [Party -> Nat \ {0}]
  BY DEF TypeOK
<1>3. ASSUME NEW q \in Party, q # p
      PROVE  PartyHeld(q)'
  BY <1>1, <1>2, <1>3, HeldSame DEF Rest
<1>4. PartyHeld(p)'
  <2>1. Running(p)' /\ step'[p] = step[p] + 1
    BY <1>1, <1>2, HeldNow DEF Running
  <2>2. Sync' = Sync
    BY <1>1, SyncSame
  <2> QED
    BY <1>1, <2>1, <2>2 DEF PartyHeld, HeldAfter, Mine
<1> QED
  BY <1>3, <1>4
(* What is drawn when a window fits in the buffer of the generator.        *)
LEMMA OneChunk ==
    ASSUME TypeOK, NEW p \in Party, NEW j \in Nat, NEW n \in Nat, 1 =< j, j =< n, n =< ZsprgBuf, NEW old
    PROVE  ZeroSumWord(p, j, n, old) =
              Sample(prev_party(p), drawn[p].prev + j) (+) Sample(p, drawn[p].next + j)
<1>1. ZsprgBuf \in Nat \ {0}
  BY Rep3Assumption
<1>2. (n - j) \div ZsprgBuf = 0
  <2>1. n - j \in Nat /\ n - j < ZsprgBuf
    BY <1>1
  <2> QED
    BY <1>1, <2>1
<1>3. ((n - j) \div ZsprgBuf) * ZsprgBuf + j = j
  BY <1>1, <1>2
<1>4. j =< ZsprgBuf
  BY <1>1
<1> QED
  BY <1>3, <1>4 DEF ZeroSumWord, FromPrev, FromNext

(* The buffer of the generator holds what a window of the gate draws.      *)
Buffered == NumWords =< ZsprgBuf \/ MandWindow =< ZsprgBuf

(* What a local step leaves.                                               *)
LEMMA QuietHeld ==
    ASSUME TypeOK, Buffered, NEW p \in Party, Quiet(p), PartyHeld(p)
    PROVE  HeldAfter(p) /\ Rest(p)
<1> DEFINE op == prog[pos[p]]
           i == pos[p]
           g == Sync[pos[p] - 1]
           steps == Mine(p)
           s == step[p]
<1>1. At(p, Local) /\ Advance(p) /\ public' = public
  BY QuietFacts DEF Stay
<1>2. /\ Within(op, i, g, p, steps, s)
      /\ Holds(op, i, g, p, steps, s, prev[p], next[p], buf[p], drawn[p], public[p])
      /\ Now(p) = steps[s] /\ Running(p)
  BY <1>1, HeldNow
<1>3. /\ Reg(p) = op.reg /\ PrevShare(p) = prev[p][op.reg] /\ NextShare(p) = next[p][op.reg]
      /\ \A k : Secret(p, k) = Atom(<<"secret", i, k>>)
      /\ \A k : FromNext(p, k) = Sample(p, drawn[p].next + k)
      /\ \A k : FromPrev(p, k) = Sample(prev_party(p), drawn[p].prev + k)
  BY DEF Reg, PrevShare, NextShare, Secret, FromNext, FromPrev
<1>4. HeldAfter(p) <=> Holds(op, i, g, p, steps, s + 1, prev'[p], next'[p], buf'[p], drawn'[p], public[p])
  BY <1>1 DEF HeldAfter
<1>5. \A words : /\ SetPrev(p, words) => /\ prev'[p][op.reg] = words /\ Kept(op, prev[p], prev'[p])
                                         /\ \A q \in Party : q # p => prev'[q] = prev[q]
                 /\ SetNext(p, words) => /\ next'[p][op.reg] = words /\ Kept(op, next[p], next'[p])
                                         /\ \A q \in Party : q # p => next'[q] = next[q]
                 /\ SetBuf(p, words) => buf'[p] = words /\ \A q \in Party : q # p => buf'[q] = buf[q]
  BY <1>2, <1>3, SetIs
<1>6. \A q \in Party : public'[q] = public[q]
  BY <1>1
<1>30. \A words : Kept(op, words, words)
  BY DEF Kept
<1> HIDE DEF op, i, g, steps, s
<1>7. CASE ReadSecrets(p)
  <2>1. SetBuf(p, [k \in Word |-> Secret(p, k)]) /\ prev' = prev /\ next' = next /\ drawn' = drawn
    BY <1>7 DEF ReadSecrets
  <2>2. steps[s].do = "secrets"
    BY <1>2, <1>7, HeldNow DEF ReadSecrets
  <2>3. \A k \in Word : buf'[p][k] = Atom(<<"secret", i, k>>)
    BY <1>3, <1>5, <2>1
  <2>4. HeldAfter(p)
    BY <1>2, <1>4, <2>1, <2>2, <2>3, HoldsSecrets
  <2>5. Rest(p)
    BY <1>5, <1>6, <2>1 DEF Rest
  <2> QED
    BY <2>4, <2>5
<1>8. CASE Deal(p)
  <2> DEFINE pad == [k \in Word |-> FromPrev(p, k)]
  <2>1. SetPrev(p, pad) /\ SetNext(p, XorWords(buf[p], pad)) /\ Drew(p, "prev") /\ buf' = buf
    BY <1>8 DEF Deal
  <2>2. steps[s].do = "deal"
    BY <1>2, <1>8, HeldNow DEF Deal
  <2>3. \A k \in Word : /\ prev'[p][op.reg][k] = Sample(prev_party(p), drawn[p].prev + k)
                        /\ next'[p][op.reg][k] = buf[p][k] (+) Sample(prev_party(p), drawn[p].prev + k)
    BY <1>3, <1>5, <2>1 DEF XorWords
  <2> HIDE DEF pad
  <2>4. Kept(op, prev[p], prev'[p]) /\ Kept(op, next[p], next'[p])
    BY <1>5, <2>1
  <2>5. drawn'[p].next = drawn[p].next /\ drawn'[p].prev = drawn[p].prev + NumWords
    BY <2>1, DrewIs
  <2>6. HeldAfter(p)
    BY <1>2, <1>4, <2>1, <2>2, <2>3, <2>4, <2>5, HoldsDeal
  <2>7. Rest(p)
    BY <1>5, <1>6, <2>1, DrewIs DEF Rest
  <2> QED
    BY <2>6, <2>7
<1>9. CASE Pad(p)
  <2>1. SetPrev(p, Zeros) /\ SetNext(p, [k \in Word |-> FromNext(p, k)]) /\ Drew(p, "next") /\ buf' = buf
    BY <1>9 DEF Pad
  <2>2. steps[s].do = "pad"
    BY <1>2, <1>9, HeldNow DEF Pad
  <2>3. \A k \in Word : /\ prev'[p][op.reg][k] = Zero
                        /\ next'[p][op.reg][k] = Sample(p, drawn[p].next + k)
    BY <1>3, <1>5, <2>1 DEF Zeros
  <2>4. Kept(op, prev[p], prev'[p]) /\ Kept(op, next[p], next'[p])
    BY <1>5, <2>1
  <2>5. drawn'[p].next = drawn[p].next + NumWords /\ drawn'[p].prev = drawn[p].prev
    BY <2>1, DrewIs
  <2>6. HeldAfter(p)
    BY <1>2, <1>4, <2>1, <2>2, <2>3, <2>4, <2>5, HoldsPad
  <2>7. Rest(p)
    BY <1>5, <1>6, <2>1, DrewIs DEF Rest
  <2> QED
    BY <2>6, <2>7
<1>10. CASE ZeroNext(p)
  <2>1. SetNext(p, Zeros) /\ prev' = prev /\ buf' = buf /\ drawn' = drawn
    BY <1>10 DEF ZeroNext
  <2>2. steps[s].do = "zero_next"
    BY <1>2, <1>10, HeldNow DEF ZeroNext
  <2>3. \A k \in Word : next'[p][op.reg][k] = Zero
    BY <1>5, <2>1 DEF Zeros
  <2>4. Kept(op, next[p], next'[p])
    BY <1>5, <2>1
  <2>5. HeldAfter(p)
    BY <1>2, <1>4, <2>1, <2>2, <2>3, <2>4, HoldsZero
  <2>6. Rest(p)
    BY <1>5, <1>6, <2>1 DEF Rest
  <2> QED
    BY <2>5, <2>6
<1>11. CASE DealXor(p)
  <2> DEFINE pad == [k \in Word |-> FromPrev(p, k)]
             diff == XorWords(buf[p], pad)
  <2>1. /\ SetPrev(p, XorWords(PrevShare(p), pad)) /\ SetNext(p, XorWords(NextShare(p), diff))
        /\ SetBuf(p, diff) /\ Drew(p, "prev")
    BY <1>11 DEF DealXor
  <2>2. steps[s].do = "deal_xor"
    BY <1>2, <1>11, HeldNow DEF DealXor
  <2>3. \A k \in Word : pad[k] = Sample(prev_party(p), drawn[p].prev + k)
    BY <1>3
  <2>4. \A k \in Word : diff[k] = buf[p][k] (+) Sample(prev_party(p), drawn[p].prev + k)
    BY <2>3 DEF XorWords
  <2> HIDE DEF pad, diff
  <2>5. buf'[p] = diff /\ prev'[p][op.reg] = XorWords(PrevShare(p), pad)
        /\ next'[p][op.reg] = XorWords(NextShare(p), diff)
        /\ Kept(op, prev[p], prev'[p]) /\ Kept(op, next[p], next'[p])
    BY <1>5, <2>1
  <2>6. \A k \in Word : buf'[p][k] = buf[p][k] (+) Sample(prev_party(p), drawn[p].prev + k)
    BY <2>4, <2>5
  <2>7. \A k \in Word : prev'[p][op.reg][k] = prev[p][op.reg][k] (+) Sample(prev_party(p), drawn[p].prev + k)
    BY <1>3, <2>3, <2>5 DEF XorWords
  <2>8. \A k \in Word : next'[p][op.reg][k] = next[p][op.reg][k] (+) buf'[p][k]
    BY <1>3, <2>5 DEF XorWords
  <2>9. drawn'[p].next = drawn[p].next /\ drawn'[p].prev = drawn[p].prev + NumWords
    BY <2>1, DrewIs
  <2>10. HeldAfter(p)
    BY <1>2, <1>4, <2>2, <2>5, <2>6, <2>7, <2>8, <2>9, HoldsDealXor
  <2>11. Rest(p)
    BY <1>5, <1>6, <2>1, DrewIs DEF Rest
  <2> QED
    BY <2>10, <2>11
<1>12. CASE PadXor(p)
  <2>1. /\ SetNext(p, [k \in Word |-> NextShare(p)[k] (+) FromNext(p, k)]) /\ Drew(p, "next")
        /\ prev' = prev /\ buf' = buf
    BY <1>12 DEF PadXor
  <2>2. steps[s].do = "pad_xor"
    BY <1>2, <1>12, HeldNow DEF PadXor
  <2>3. \A k \in Word : next'[p][op.reg][k] = next[p][op.reg][k] (+) Sample(p, drawn[p].next + k)
    BY <1>3, <1>5, <2>1
  <2>4. Kept(op, next[p], next'[p])
    BY <1>5, <2>1
  <2>5. drawn'[p].next = drawn[p].next + NumWords /\ drawn'[p].prev = drawn[p].prev
    BY <2>1, DrewIs
  <2>6. HeldAfter(p)
    BY <1>2, <1>4, <2>1, <2>2, <2>3, <2>4, <2>5, HoldsPadXor
  <2>7. Rest(p)
    BY <1>5, <1>6, <2>1, DrewIs DEF Rest
  <2> QED
    BY <2>6, <2>7
<1>13. CASE Take(p)
  <2> DEFINE words == CASE Now(p).do = "take_both" -> XorWords(PrevShare(p), NextShare(p))
                        [] Now(p).do = "take_prev" -> PrevShare(p)
                        [] Now(p).do = "take_next" -> NextShare(p)
  <2>1. SetBuf(p, words) /\ prev' = prev /\ next' = next /\ drawn' = drawn
    BY <1>13 DEF Take
  <2>2. steps[s].do \in Takes
    BY <1>2, <1>13, HeldNow DEF Take, Takes
  <2>3. /\ steps[s].do = "take_both" => words = XorWords(PrevShare(p), NextShare(p))
        /\ steps[s].do = "take_next" => words = NextShare(p)
    BY <1>2
  <2> HIDE DEF words
  <2>4. buf'[p] = words
    BY <1>5, <2>1
  <2>5. /\ steps[s].do = "take_both" => \A k \in Word : buf'[p][k] = prev[p][op.reg][k] (+) next[p][op.reg][k]
        /\ steps[s].do = "take_next" => \A k \in Word : buf'[p][k] = next[p][op.reg][k]
    BY <1>3, <2>3, <2>4 DEF XorWords
  <2>6. HeldAfter(p)
    BY <1>2, <1>4, <2>1, <2>2, <2>5, HoldsTake
  <2>7. Rest(p)
    BY <1>5, <1>6, <2>1 DEF Rest
  <2> QED
    BY <2>6, <2>7
<1>14. CASE Permute(p)
  <2>1. SetBuf(p, Permuted(buf[p])) /\ prev' = prev /\ next' = next /\ drawn' = drawn
    BY <1>14 DEF Permute
  <2>2. steps[s].do = "permute"
    BY <1>2, <1>14, HeldNow DEF Permute
  <2>3. \A k \in Word : buf'[p][k] = buf[p][NumWords + 1 - k]
    BY <1>5, <2>1 DEF Permuted
  <2>4. HeldAfter(p)
    BY <1>2, <1>4, <2>1, <2>2, <2>3, HoldsPermute
  <2>5. Rest(p)
    BY <1>5, <1>6, <2>1 DEF Rest
  <2> QED
    BY <2>4, <2>5
<1>15. CASE InputPublic(p)
  <2> DEFINE data == [k \in Word |-> Secret(p, k)]
  <2>1. /\ IF p = 1 THEN SetNext(p, data) ELSE next' = next
        /\ IF p = 2 THEN SetPrev(p, data) ELSE prev' = prev
        /\ buf' = buf /\ drawn' = drawn
    BY <1>15 DEF InputPublic
  <2>2. steps[s].do = "input_public"
    BY <1>2, <1>15, HeldNow DEF InputPublic
  <2>3. \A k \in Word : data[k] = Atom(<<"secret", i, k>>)
    BY <1>3
  <2> HIDE DEF data
  <2>4. Kept(op, next[p], next'[p]) /\ Kept(op, prev[p], prev'[p])
    BY <1>5, <1>30, <2>1
  <2>5. \A k \in Word : next'[p][op.reg][k] = IF p = 1 THEN Atom(<<"secret", i, k>>) ELSE next[p][op.reg][k]
    <3>1. CASE p = 1
      <4>1. next'[p][op.reg] = data
        BY <1>5, <2>1, <3>1
      <4> QED
        BY <2>3, <3>1, <4>1, Zenon
    <3>2. CASE p # 1
      BY <2>1, <3>2
    <3> QED
      BY <3>1, <3>2
  <2>6. \A k \in Word : prev'[p][op.reg][k] = IF p = 2 THEN Atom(<<"secret", i, k>>) ELSE prev[p][op.reg][k]
    <3>1. CASE p = 2
      <4>1. prev'[p][op.reg] = data
        BY <1>5, <2>1, <3>1
      <4> QED
        BY <2>3, <3>1, <4>1, Zenon
    <3>2. CASE p # 2
      BY <2>1, <3>2
    <3> QED
      BY <3>1, <3>2
  <2>7. HeldAfter(p)
    BY <1>2, <1>4, <2>1, <2>2, <2>4, <2>5, <2>6, HoldsInputPublic
  <2>8. Rest(p)
    BY <1>5, <1>6, <2>1 DEF Rest
  <2> QED
    BY <2>7, <2>8
<1>16. CASE FillRandom(p)
  <2>1. /\ SetPrev(p, [k \in Word |-> FromPrev(p, k)]) /\ SetNext(p, [k \in Word |-> FromNext(p, k)])
        /\ drawn' = [drawn EXCEPT ![p] = [prev |-> @.prev + NumWords, next |-> @.next + NumWords]]
        /\ buf' = buf
    BY <1>16 DEF FillRandom
  <2>2. steps[s].do = "fill_random"
    BY <1>2, <1>16, HeldNow DEF FillRandom
  <2>3. \A k \in Word : /\ prev'[p][op.reg][k] = Sample(prev_party(p), drawn[p].prev + k)
                        /\ next'[p][op.reg][k] = Sample(p, drawn[p].next + k)
    BY <1>3, <1>5, <2>1
  <2>4. Kept(op, prev[p], prev'[p]) /\ Kept(op, next[p], next'[p])
    BY <1>5, <2>1
  <2>5. /\ drawn'[p].next = drawn[p].next + NumWords /\ drawn'[p].prev = drawn[p].prev + NumWords
        /\ \A q \in Party : q # p => drawn'[q] = drawn[q]
    BY <2>1, DrewIs
  <2>6. HeldAfter(p)
    BY <1>2, <1>4, <2>1, <2>2, <2>3, <2>4, <2>5, HoldsFillRandom
  <2>7. Rest(p)
    BY <1>5, <1>6, <2>1, <2>5 DEF Rest
  <2> QED
    BY <2>6, <2>7
<1>17. CASE Mask(p)
  <2>1. /\ SetPrev(p, MaskedWords(Now(p).do, PrevShare(p))) /\ SetNext(p, MaskedWords(Now(p).do, NextShare(p)))
        /\ buf' = buf /\ drawn' = drawn
    BY <1>17 DEF Mask
  <2>2. steps[s].do \in {"apply_or_mask", "apply_and_mask"}
    BY <1>2, <1>17, HeldNow DEF Mask
  <2>3. /\ prev'[p][op.reg] = MaskedWords(steps[s].do, prev[p][op.reg])
        /\ next'[p][op.reg] = MaskedWords(steps[s].do, next[p][op.reg])
        /\ Kept(op, prev[p], prev'[p]) /\ Kept(op, next[p], next'[p])
    BY <1>2, <1>3, <1>5, <2>1
  <2>4. HeldAfter(p)
    BY <1>2, <1>4, <2>1, <2>2, <2>3, HoldsMask
  <2>5. Rest(p)
    BY <1>5, <1>6, <2>1 DEF Rest
  <2> QED
    BY <2>4, <2>5
<1>18. CASE Multiply(p)
  <2> DEFINE lo == Now(p).lo
             hi == Now(p).hi
             n == hi - lo + 1
             words == [k \in Word |-> IF k \in lo .. hi
                                      THEN ZeroSumWord(p, k - lo + 1, n, NextShare(p)[k]) (+) CrossTerms(p, k)
                                      ELSE NextShare(p)[k]]
  <2>1. /\ SetNext(p, words) /\ prev' = prev /\ buf' = buf
        /\ drawn' = [drawn EXCEPT ![p] = [prev |-> @.prev + n, next |-> @.next + n]]
    BY <1>18 DEF Multiply
  <2>2. steps[s].do = "multiply"
    BY <1>2, <1>18, HeldNow DEF Multiply
  <2>3. /\ lo \in Nat /\ hi \in Nat /\ 1 =< lo /\ lo =< hi /\ hi \in Word
        /\ hi - lo + 1 =< MandWindow
    <3>1. Ready(op, p, steps, s)
      BY <1>2, WithinIs
    <3>2. steps[s].hi - steps[s].lo + 1 =< MandWindow
      BY <2>2, <3>1 DEF Ready
    <3> QED
      BY <1>2, <3>2, DrawCounts
  <2>4. n \in Nat /\ n =< ZsprgBuf
    BY <2>3, Rep3Assumption DEF Buffered, Word
  <2>5. \A k \in lo .. hi : k \in Word /\ k - lo + 1 \in Nat /\ 1 =< k - lo + 1 /\ k - lo + 1 =< n
    <3> HIDE DEF words
    <3>1. n = hi - lo + 1 /\ NumWords \in Nat /\ hi =< NumWords
      BY <2>3, WordEnds DEF Word
    <3> HIDE DEF lo, hi, n
    <3> TAKE k \in lo .. hi
    <3>2. k \in Int /\ lo =< k /\ k =< hi
      BY <2>3
    <3> QED
      BY <2>3, <3>1, <3>2 DEF Word
  <2>6. next'[p][op.reg] = words /\ Kept(op, next[p], next'[p])
        /\ \A q \in Party : q # p => next'[q] = next[q]
    <3> HIDE DEF words
    <3> QED
      BY <1>5, <2>1
  <2>7. \A k \in Word : k \notin lo .. hi => next'[p][op.reg][k] = next[p][op.reg][k]
    BY <1>3, <2>6
  <2>8. \A k \in lo .. hi : next'[p][op.reg][k] =
               (Sample(prev_party(p), drawn[p].prev + (k - lo + 1)) (+) Sample(p, drawn[p].next + (k - lo + 1)))
                 (+) Products([prev |-> prev[p]["a"][k], next |-> next[p]["a"][k]],
                              [prev |-> prev[p]["b"][k], next |-> next[p]["b"][k]])
    <3> SUFFICES ASSUME NEW k \in lo .. hi
                 PROVE  next'[p][op.reg][k] =
               (Sample(prev_party(p), drawn[p].prev + (k - lo + 1)) (+) Sample(p, drawn[p].next + (k - lo + 1)))
                 (+) Products([prev |-> prev[p]["a"][k], next |-> next[p]["a"][k]],
                              [prev |-> prev[p]["b"][k], next |-> next[p]["b"][k]])
      OBVIOUS
    <3>1. next'[p][op.reg][k] = ZeroSumWord(p, k - lo + 1, n, NextShare(p)[k]) (+) CrossTerms(p, k)
      BY <2>5, <2>6
    <3>2. CrossTerms(p, k) = Products([prev |-> prev[p]["a"][k], next |-> next[p]["a"][k]],
                                      [prev |-> prev[p]["b"][k], next |-> next[p]["b"][k]])
      BY DEF CrossTerms, Shares
    <3>3. k - lo + 1 \in Nat /\ 1 =< k - lo + 1 /\ k - lo + 1 =< n
      BY <2>5
    <3> HIDE DEF n, words, lo, hi
    <3>4. ZeroSumWord(p, k - lo + 1, n, NextShare(p)[k]) =
            Sample(prev_party(p), drawn[p].prev + (k - lo + 1)) (+) Sample(p, drawn[p].next + (k - lo + 1))
      BY <2>4, <3>3, OneChunk
    <3> QED
      BY <3>1, <3>2, <3>4
  <2>9. /\ drawn'[p].next = drawn[p].next + n /\ drawn'[p].prev = drawn[p].prev + n
        /\ \A q \in Party : q # p => drawn'[q] = drawn[q]
    <3> HIDE DEF n
    <3> QED
      BY <2>1, DrewIs
  <2>10. lo = steps[s].lo /\ hi = steps[s].hi
    BY <1>2
  <2>11. drawn'[p].next = drawn[p].next + (hi - lo + 1) /\ drawn'[p].prev = drawn[p].prev + (hi - lo + 1)
    BY <2>9
  <2> HIDE DEF words, lo, hi, n
  <2>12. HeldAfter(p)
    <3>1. Holds(op, i, g, p, steps, s + 1, prev[p], next'[p], buf[p], drawn'[p], public[p])
      BY <1>2, <2>2, <2>6, <2>7, <2>8, <2>10, <2>11, HoldsMultiply
    <3> QED
      BY <1>4, <2>1, <3>1
  <2>13. Rest(p)
    BY <1>6, <2>1, <2>6, <2>9 DEF Rest
  <2> QED
    BY <2>12, <2>13
<1>19. CASE Choose(p)
  <2> DEFINE word == ZeroSumWord(p, 1, 1, NextShare(p)[1]) (+) Products(Shares(p, "b", 1), ThenXorElse(p))
             words == [NextShare(p) EXCEPT ![1] = word]
  <2>1. /\ SetNext(p, words) /\ prev' = prev /\ buf' = buf
        /\ drawn' = [drawn EXCEPT ![p] = [prev |-> @.prev + 1, next |-> @.next + 1]]
    BY <1>19 DEF Choose
  <2>2. steps[s].do = "choose"
    BY <1>2, <1>19, HeldNow DEF Choose
  <2>3. NextShare(p) \in Vector /\ 1 \in Word
    BY <1>2, OperationFacts, SharesTyped, WordEnds DEF NextShare
  <2>4. words[1] = word /\ \A k \in Word : k # 1 => words[k] = NextShare(p)[k]
    BY <2>3 DEF Vector
  <2>5. word = (Sample(prev_party(p), drawn[p].prev + 1) (+) Sample(p, drawn[p].next + 1))
                 (+) Products([prev |-> prev[p]["b"][1], next |-> next[p]["b"][1]],
                              [prev |-> prev[p]["a"][1] (+) prev[p]["c"][1],
                               next |-> next[p]["a"][1] (+) next[p]["c"][1]])
    <3>1. 1 \in Nat /\ 1 =< 1 /\ 1 =< ZsprgBuf
      BY Rep3Assumption
    <3>2. ZeroSumWord(p, 1, 1, NextShare(p)[1]) =
             Sample(prev_party(p), drawn[p].prev + 1) (+) Sample(p, drawn[p].next + 1)
      BY <3>1, OneChunk
    <3> QED
      BY <3>2 DEF Shares, ThenXorElse
  <2> HIDE DEF word, words
  <2>6. next'[p][op.reg] = words /\ Kept(op, next[p], next'[p])
        /\ \A q \in Party : q # p => next'[q] = next[q]
    BY <1>5, <2>1
  <2>7. \A k \in Word : k # 1 => next'[p][op.reg][k] = next[p][op.reg][k]
    BY <1>3, <2>4, <2>6
  <2>8. next'[p][op.reg][1] =
          (Sample(prev_party(p), drawn[p].prev + 1) (+) Sample(p, drawn[p].next + 1))
                 (+) Products([prev |-> prev[p]["b"][1], next |-> next[p]["b"][1]],
                              [prev |-> prev[p]["a"][1] (+) prev[p]["c"][1],
                               next |-> next[p]["a"][1] (+) next[p]["c"][1]])
    BY <2>4, <2>5, <2>6
  <2>9. /\ drawn'[p].next = drawn[p].next + 1 /\ drawn'[p].prev = drawn[p].prev + 1
        /\ \A q \in Party : q # p => drawn'[q] = drawn[q]
    BY <2>1, DrewIs
  <2>10. HeldAfter(p)
    <3> DEFINE pv == prev[p]
               nx == next[p]
               nx1 == next'[p]
               d == drawn[p]
               d1 == drawn'[p]
    <3>5. Within(op, i, g, p, steps, s)
      BY <1>2
    <3>6. Holds(op, i, g, p, steps, s, pv, nx, buf[p], d, public[p])
      BY <1>2
    <3>7. Kept(op, nx, nx1)
      BY <2>6
    <3>8. d1.next = d.next + 1 /\ d1.prev = d.prev + 1
      BY <2>9
    <3>9. \A k \in Word : k # 1 => nx1[op.reg][k] = nx[op.reg][k]
      BY <2>7
    <3>10. nx1[op.reg][1] =
               (Sample(prev_party(p), d.prev + 1) (+) Sample(p, d.next + 1))
                 (+) Products([prev |-> pv["b"][1], next |-> nx["b"][1]],
                              [prev |-> pv["a"][1] (+) pv["c"][1], next |-> nx["a"][1] (+) nx["c"][1]])
      BY <2>8
    <3> HIDE DEF pv, nx, nx1, d, d1
    <3>11. Holds(op, i, g, p, steps, s + 1, pv, nx1, buf[p], d1, public[p])
      BY <2>2, <3>5, <3>6, <3>7, <3>8, <3>9, <3>10, HoldsChoose
    <3>1. Holds(op, i, g, p, steps, s + 1, prev[p], next'[p], buf[p], drawn'[p], public[p])
      BY <3>11 DEF pv, nx, nx1, d, d1
    <3> QED
      BY <1>4, <2>1, <3>1
  <2>11. Rest(p)
    BY <1>6, <2>1, <2>6, <2>9 DEF Rest
  <2> QED
    BY <2>10, <2>11
<1>20. CASE XorElse(p)
  <2> DEFINE x == [PrevShare(p) EXCEPT ![1] = @ (+) prev[p]["c"][1]]
             y == [NextShare(p) EXCEPT ![1] = @ (+) next[p]["c"][1]]
  <2>1. SetPrev(p, x) /\ SetNext(p, y) /\ buf' = buf /\ drawn' = drawn
    BY <1>20 DEF XorElse
  <2>2. steps[s].do = "xor_else"
    BY <1>2, <1>20, HeldNow DEF XorElse
  <2>3. PrevShare(p) \in Vector /\ NextShare(p) \in Vector /\ 1 \in Word
    BY <1>2, OperationFacts, SharesTyped, WordEnds DEF NextShare, PrevShare
  <2>4. /\ x[1] = PrevShare(p)[1] (+) prev[p]["c"][1] /\ \A k \in Word : k # 1 => x[k] = PrevShare(p)[k]
        /\ y[1] = NextShare(p)[1] (+) next[p]["c"][1] /\ \A k \in Word : k # 1 => y[k] = NextShare(p)[k]
    BY <2>3 DEF Vector
  <2> HIDE DEF x, y
  <2>5. /\ prev'[p][op.reg] = x /\ next'[p][op.reg] = y
        /\ Kept(op, prev[p], prev'[p]) /\ Kept(op, next[p], next'[p])
    BY <1>5, <2>1
  <2>6. \A k \in Word : k # 1 => /\ next'[p][op.reg][k] = next[p][op.reg][k]
                                 /\ prev'[p][op.reg][k] = prev[p][op.reg][k]
    BY <1>3, <2>4, <2>5
  <2>7. /\ next'[p][op.reg][1] = next[p][op.reg][1] (+) next[p]["c"][1]
        /\ prev'[p][op.reg][1] = prev[p][op.reg][1] (+) prev[p]["c"][1]
    BY <1>3, <2>4, <2>5
  <2>8. HeldAfter(p)
    <3>1. Holds(op, i, g, p, steps, s + 1, prev'[p], next'[p], buf[p], drawn[p], public[p])
      BY <1>2, <2>2, <2>5, <2>6, <2>7, HoldsXorElse
    <3> QED
      BY <1>4, <2>1, <3>1
  <2>9. Rest(p)
    BY <1>5, <1>6, <2>1 DEF Rest
  <2> QED
    BY <2>8, <2>9
<1> QED
  BY <1>7, <1>8, <1>9, <1>10, <1>11, <1>12, <1>13, <1>14, <1>15, <1>16, <1>17, <1>18, <1>19, <1>20 DEF Quiet

(* The words on their way to a party.                                      *)
StreamHeld(q) ==
    \A j \in 1 .. Len(stream[q]) :
        stream[q][j].word = WordOf(prog[stream[q][j].op], stream[q][j].op, Sync[stream[q][j].op - 1],
                                   prev_party(q), stream[q][j].index)

(* StreamsHeld, party by party.                                            *)
LEMMA StreamsAre ==
    /\ StreamsHeld <=> \A q \in Party : StreamHeld(q)
    /\ StreamsHeld' <=> \A q \in Party : StreamHeld(q)'
BY DEF StreamsHeld, StreamHeld

(* A stream that nobody touches.                                           *)
LEMMA StreamSame ==
    ASSUME NEW q, prog' = prog, stream'[q] = stream[q], StreamHeld(q)
    PROVE  StreamHeld(q)'
BY SyncSame DEF StreamHeld

(* What is sent is the word the neighbour waits for.                       *)
LEMMA SendHeld ==
    ASSUME TypeOK, NEW p \in Party, Send(p), PartyHeld(p), StreamsHeld
    PROVE  HeldAfter(p) /\ Rest(p) /\ StreamsHeld'
<1> DEFINE op == prog[pos[p]]
           i == pos[p]
           g == Sync[pos[p] - 1]
           steps == Mine(p)
           s == step[p]
           q == next_party(p)
           m == [word |-> SentWord(p), op |-> pos[p], index |-> Now(p).lo]
<1>1. /\ At(p, Sending) /\ Advance(p) /\ prog' = prog
      /\ stream' = [stream EXCEPT ![q] = Append(@, m)]
      /\ prev' = prev /\ next' = next /\ buf' = buf /\ drawn' = drawn /\ public' = public
  BY DEF Send, Sending, Advance, local
<1>2. /\ Within(op, i, g, p, steps, s)
      /\ Holds(op, i, g, p, steps, s, prev[p], next[p], buf[p], drawn[p], public[p])
      /\ Now(p) = steps[s] /\ Now(p).do \in Sending /\ Running(p)
  BY <1>1, HeldNow
<1>3. HeldAfter(p)
  <2>1. Holds(op, i, g, p, steps, s + 1, prev[p], next[p], buf[p], drawn[p], public[p])
    <3> HIDE DEF op, i, g, steps, s
    <3>1. steps[s].do \in Sending
      BY <1>2
    <3> QED
      BY <1>2, <3>1, HoldsSend
  <2> QED
    BY <1>1, <2>1 DEF HeldAfter
<1>4. Rest(p)
  BY <1>1 DEF Rest
<1>5. SentWord(p) = WordOf(op, i, g, p, Now(p).lo)
  <2>1. Reg(p) = op.reg /\ PrevShare(p) = prev[p][op.reg] /\ NextShare(p) = next[p][op.reg]
    BY DEF Reg, PrevShare, NextShare
  <2> HIDE DEF op, i, g, steps, s, m, q
  <2>2. /\ steps[s].do = "send_next" => next[p][op.reg][Now(p).lo] = WordOf(op, i, g, p, Now(p).lo)
        /\ steps[s].do = "send_prev" => prev[p][op.reg][Now(p).lo] = WordOf(op, i, g, p, Now(p).lo)
        /\ steps[s].do = "send_buf" => buf[p][Now(p).lo] = WordOf(op, i, g, p, Now(p).lo)
    BY <1>2, WordSent
  <2> QED
    BY <1>2, <2>1, <2>2 DEF SentWord, Sending
<1>6. q \in Party /\ prev_party(q) = p
  BY Ring
<1>7. ASSUME NEW r \in Party PROVE StreamHeld(r)'
  <2>1. StreamHeld(r)
    BY StreamsAre
  <2>2. CASE r # q
    <3>1. stream'[r] = stream[r]
      BY <1>1, <2>2 DEF TypeOK
    <3> QED
      BY <1>1, <2>1, <3>1, StreamSame
  <2>3. CASE r = q
    <3> DEFINE t == stream[q]
               u == stream'[q]
               n == Len(stream[q])
    <3>1. t \in Seq(Message) /\ n \in Nat
      BY <1>6, TypeIs DEF Streams
    <3>2. u = Append(t, m)
      BY <1>1, <1>6 DEF TypeOK
    <3>3. Len(u) = n + 1 /\ u[n + 1] = m /\ \A j \in 1 .. n : u[j] = t[j]
      BY <3>1, <3>2
    <3>4. m.word = WordOf(prog[m.op], m.op, Sync[m.op - 1], p, m.index)
      BY <1>5
    <3>5. Sync' = Sync
      BY <1>1, SyncSame
    <3>6. \A j \in 1 .. n : t[j].word = WordOf(prog[t[j].op], t[j].op, Sync[t[j].op - 1], p, t[j].index)
      BY <1>6, <2>1, <2>3 DEF StreamHeld
    <3> HIDE DEF t, u, n, m
    <3>7. \A j \in 1 .. Len(u) : u[j].word = WordOf(prog[u[j].op], u[j].op, Sync[u[j].op - 1], p, u[j].index)
      <4> SUFFICES ASSUME NEW j \in 1 .. Len(u)
                   PROVE  u[j].word = WordOf(prog[u[j].op], u[j].op, Sync[u[j].op - 1], p, u[j].index)
        OBVIOUS
      <4>1. CASE j = n + 1
        BY <3>3, <3>4, <4>1
      <4>2. CASE j # n + 1
        <5>1. j \in 1 .. n
          BY <3>1, <3>3, <4>2
        <5> QED
          BY <3>3, <3>6, <5>1
      <4> QED
        BY <4>1, <4>2
    <3> QED
      BY <1>1, <1>6, <2>3, <3>5, <3>7 DEF StreamHeld, u
  <2> QED
    BY <2>2, <2>3
<1> QED
  BY <1>3, <1>4, <1>7, StreamsAre

(* What is received is the word that was sent.                             *)
LEMMA RecvHeld ==
    ASSUME TypeOK, FramesInOrder, NEW p \in Party, Recv(p), PartyHeld(p), StreamsHeld
    PROVE  HeldAfter(p) /\ Rest(p) /\ StreamsHeld'
<1> DEFINE op == prog[pos[p]]
           i == pos[p]
           g == Sync[pos[p] - 1]
           steps == Mine(p)
           s == step[p]
           k == Now(p).lo
           w == Head(stream[p]).word
           t == stream[p]
           u == stream'[p]
           n == Len(stream[p])
<1>1. /\ AtRecv(p) /\ At(p, Receiving) /\ Advance(p) /\ prog' = prog /\ stream[p] # <<>>
      /\ stream' = [stream EXCEPT ![p] = Tail(@)]
      /\ next' = next /\ buf' = buf /\ drawn' = drawn
  BY DEF Recv, AtRecv, Receiving, Advance
<1>2. /\ Within(op, i, g, p, steps, s)
      /\ Holds(op, i, g, p, steps, s, prev[p], next[p], buf[p], drawn[p], public[p])
      /\ Now(p) = steps[s] /\ Now(p).do \in Receiving /\ Running(p)
  BY <1>1, HeldNow
<1>3. t \in Seq(Message) /\ t # <<>> /\ Head(t) = t[1] /\ n \in Nat /\ n >= 1
      /\ Len(Tail(t)) = n - 1 /\ \A j \in 1 .. n - 1 : Tail(t)[j] = t[j + 1]
  <2>1. t \in Seq(Message)
    BY TypeIs DEF Streams
  <2> HIDE DEF t
  <2>2. t # <<>>
    BY <1>1 DEF t
  <2> QED
    BY <2>1, <2>2 DEF t
<1>4. u = Tail(t)
  BY <1>1 DEF TypeOK
<1>5. \A j \in 1 .. n : t[j].word = WordOf(prog[t[j].op], t[j].op, Sync[t[j].op - 1], prev_party(p), t[j].index)
  BY StreamsAre DEF StreamHeld
<1>6. w = WordOf(op, i, g, prev_party(p), k)
  <2>1. Head(t).op = pos[p] /\ Head(t).index = k
    BY <1>1, RightFrame
  <2>2. 1 \in 1 .. n
    BY <1>3
  <2>3. t[1].word = WordOf(prog[t[1].op], t[1].op, Sync[t[1].op - 1], prev_party(p), t[1].index)
    BY <1>5, <2>2
  <2> HIDE DEF t, n
  <2> QED
    BY <1>3, <2>1, <2>3 DEF t
<1>7. StreamsHeld'
  <2>1. Sync' = Sync
    BY <1>1, SyncSame
  <2>2. ASSUME NEW r \in Party PROVE StreamHeld(r)'
    <3>1. CASE r # p
      <4>1. stream'[r] = stream[r]
        BY <1>1, <3>1 DEF TypeOK
      <4> QED
        BY <1>1, <4>1, StreamsAre, StreamSame
    <3>2. CASE r = p
      <4> HIDE DEF t, n, u
      <4>1. \A j \in 1 .. Len(u) : u[j].word = WordOf(prog[u[j].op], u[j].op, Sync[u[j].op - 1], prev_party(p), u[j].index)
        <5> SUFFICES ASSUME NEW j \in 1 .. Len(u)
                     PROVE  u[j].word = WordOf(prog[u[j].op], u[j].op, Sync[u[j].op - 1], prev_party(p), u[j].index)
          OBVIOUS
        <5>1. j \in 1 .. n - 1 /\ j + 1 \in 1 .. n
          BY <1>3, <1>4
        <5>2. u[j] = t[j + 1]
          BY <1>3, <1>4, <5>1
        <5> QED
          BY <1>5, <5>1, <5>2
      <4> QED
        BY <1>1, <2>1, <3>2, <4>1 DEF StreamHeld, u
    <3> QED
      BY <3>1, <3>2
  <2> QED
    BY <2>2, StreamsAre
<1>8. /\ Reg(p) = op.reg /\ PrevShare(p) = prev[p][op.reg] /\ NextShare(p) = next[p][op.reg]
      /\ PrevShare(p) \in Vector /\ k \in Word
  <2>1. k \in Word /\ Running(p) /\ Reg(p) \in Register
    BY <1>1, NowWord, AtFacts, OperationFacts
  <2> QED
    BY <2>1, SharesTyped DEF Reg, PrevShare, NextShare
<1>9. \A words : SetPrev(p, words) => /\ prev'[p][op.reg] = words /\ Kept(op, prev[p], prev'[p])
                                      /\ \A q \in Party : q # p => prev'[q] = prev[q]
  BY <1>2, <1>8, SetIs
<1>10. HeldAfter(p) <=> Holds(op, i, g, p, steps, s + 1, prev'[p], next[p], buf[p], drawn[p], public'[p])
  BY <1>1 DEF HeldAfter
<1>11. /\ steps[s].do = Now(p).do /\ k = steps[s].lo
  BY <1>2
<1>12. \/ Now(p).do = "recv_prev" /\ SetPrev(p, [PrevShare(p) EXCEPT ![k] = w]) /\ public' = public
       \/ Now(p).do = "recv_prev_xor" /\ SetPrev(p, [PrevShare(p) EXCEPT ![k] = @ (+) w]) /\ public' = public
       \/ Now(p).do = "recv_public" /\ public' = [public EXCEPT ![p][k] = Opened(p, k, w)] /\ prev' = prev
  BY DEF Recv
<1> HIDE DEF op, i, g, steps, s, k, w, t, u, n
<1>13. CASE Now(p).do = "recv_prev" /\ SetPrev(p, [PrevShare(p) EXCEPT ![k] = w]) /\ public' = public
  <2> DEFINE x == [PrevShare(p) EXCEPT ![k] = w]
  <2>1. x[k] = w /\ \A j \in Word : j # k => x[j] = PrevShare(p)[j]
    BY <1>8 DEF Vector
  <2> HIDE DEF x
  <2>2. prev'[p][op.reg] = x /\ Kept(op, prev[p], prev'[p]) /\ \A q \in Party : q # p => prev'[q] = prev[q]
    BY <1>9, <1>13 DEF x
  <2>3. \A j \in Word : j # k => prev'[p][op.reg][j] = prev[p][op.reg][j]
    BY <1>8, <2>1, <2>2
  <2>4. prev'[p][op.reg][k] = WordOf(op, i, g, prev_party(p), k)
    BY <1>6, <2>1, <2>2
  <2>5. Holds(op, i, g, p, steps, s + 1, prev'[p], next[p], buf[p], drawn[p], public[p])
    BY <1>2, <1>11, <1>13, <2>2, <2>3, <2>4, HoldsRecv
  <2> QED
    BY <1>1, <1>7, <1>10, <1>13, <2>2, <2>5 DEF Rest
<1>14. CASE Now(p).do = "recv_prev_xor" /\ SetPrev(p, [PrevShare(p) EXCEPT ![k] = @ (+) w]) /\ public' = public
  <2> DEFINE x == [PrevShare(p) EXCEPT ![k] = @ (+) w]
  <2>1. x[k] = PrevShare(p)[k] (+) w /\ \A j \in Word : j # k => x[j] = PrevShare(p)[j]
    BY <1>8 DEF Vector
  <2> HIDE DEF x
  <2>2. prev'[p][op.reg] = x /\ Kept(op, prev[p], prev'[p]) /\ \A q \in Party : q # p => prev'[q] = prev[q]
    BY <1>9, <1>14 DEF x
  <2>3. \A j \in Word : j # k => prev'[p][op.reg][j] = prev[p][op.reg][j]
    BY <1>8, <2>1, <2>2
  <2>4. prev'[p][op.reg][k] = prev[p][op.reg][k] (+) WordOf(op, i, g, prev_party(p), k)
    BY <1>6, <1>8, <2>1, <2>2
  <2>5. Holds(op, i, g, p, steps, s + 1, prev'[p], next[p], buf[p], drawn[p], public[p])
    BY <1>2, <1>11, <1>14, <2>2, <2>3, <2>4, HoldsRecvXor
  <2> QED
    BY <1>1, <1>7, <1>10, <1>14, <2>2, <2>5 DEF Rest
<1>15. CASE Now(p).do = "recv_public" /\ public' = [public EXCEPT ![p][k] = Opened(p, k, w)] /\ prev' = prev
  <2>1. public \in [Party -> Vector]
    BY TypeIs
  <2>2. /\ public'[p][k] = Opened(p, k, w) /\ \A j \in Word : j # k => public'[p][j] = public[p][j]
        /\ \A q \in Party : q # p => public'[q] = public[q]
    BY <1>8, <1>15, <2>1 DEF Vector
  <2>3. public'[p][k] = WordOf(op, i, g, prev_party(p), k) (+) prev[p][op.reg][k] (+) next[p][op.reg][k]
    BY <1>6, <1>8, <2>2 DEF Opened
  <2>4. Holds(op, i, g, p, steps, s + 1, prev[p], next[p], buf[p], drawn[p], public'[p])
    <3> DEFINE pv == prev[p]
               nx == next[p]
               open == public[p]
               open1 == public'[p]
    <3>1. Within(op, i, g, p, steps, s) /\ Holds(op, i, g, p, steps, s, pv, nx, buf[p], drawn[p], open)
      BY <1>2
    <3>2. steps[s].do = "recv_public" /\ k = steps[s].lo
      BY <1>11, <1>15
    <3>3. \A j \in Word : j # k => open1[j] = open[j]
      BY <2>2
    <3>4. open1[k] = WordOf(op, i, g, prev_party(p), k) (+) pv[op.reg][k] (+) nx[op.reg][k]
      BY <2>3
    <3> HIDE DEF pv, nx, open, open1
    <3>5. Holds(op, i, g, p, steps, s + 1, pv, nx, buf[p], drawn[p], open1)
      BY <3>1, <3>2, <3>3, <3>4, HoldsOpen
    <3> QED
      BY <3>5 DEF pv, nx, open, open1
  <2> QED
    BY <1>1, <1>7, <1>10, <1>15, <2>2, <2>4 DEF Rest
<1> QED
  BY <1>12, <1>13, <1>14, <1>15

(* What was opened is not touched by a step that is not the last.          *)
LEMMA OpenedAdvance ==
    ASSUME TypeOK, NEW p \in Party, Advance(p), Rest(p), LastOpened
    PROVE  LastOpened'
<1>1. prog' = prog /\ pos' = pos /\ step' = [step EXCEPT ![p] = @ + 1] /\ step \in [Party -> Nat \ {0}]
  BY DEF Advance, TypeOK
<1>2. Sync' = Sync
  BY <1>1, SyncSame
<1>3. step'[p] # 1
  BY <1>1
<1>4. ASSUME NEW q \in Party, pos'[q] > 1, step'[q] = 1, RevealedTo(prog'[pos'[q] - 1], q), NEW k \in Word
      PROVE  public'[q][k] = Sum(Sync'[pos'[q] - 1], prog'[pos'[q] - 1].reg, k)
  <2>1. q # p
    BY <1>3, <1>4
  <2>2. step[q] = 1 /\ public'[q] = public[q]
    BY <1>1, <1>4, <2>1 DEF Rest
  <2>3. pos[q] > 1 /\ RevealedTo(prog[pos[q] - 1], q)
    BY <1>1, <1>4
  <2>4. public[q][k] = Sum(Sync[pos[q] - 1], prog[pos[q] - 1].reg, k)
    BY <2>2, <2>3 DEF LastOpened
  <2> QED
    BY <1>1, <1>2, <2>2, <2>4
<1> QED
  BY <1>4 DEF LastOpened

(* Before the first step of an operation nothing has been done.            *)
LEMMA Fresh ==
    ASSUME NEW op, NEW i, NEW g \in Globals, NEW p \in Party, NEW steps, NEW pv, NEW nx, NEW words, NEW d, NEW open,
           Agreed(g, p, pv, nx, d)
    PROVE  Holds(op, i, g, p, steps, 1, pv, nx, words, d, open)
<1>1. \A whats : Did(steps, 1, whats) = {}
  BY DEF Did
<1>2. NextAt(op, i, g, p, steps, 1, nx) /\ PrevAt(op, i, g, p, steps, 1, pv)
  BY <1>1 DEF Agreed, NextAt, PrevAt, Staged, Stage
<1>3. g.drawn[p] \in Nat /\ g.drawn[prev_party(p)] \in Nat
  BY Ring DEF Globals
<1>4. DrawnAt(g, p, steps, 1, d)
  <2>1. d.next = g.drawn[p] + 0 /\ d.prev = g.drawn[prev_party(p)] + 0
    BY <1>3 DEF Agreed
  <2> QED
    BY <1>1, <2>1, Sizes DEF DrawnAt
<1>5. BufferAt(op, i, g, p, steps, 1, words) /\ PublicAt(op, g, steps, 1, open)
  BY <1>1 DEF BufferAt, PublicAt
<1> QED
  BY <1>2, <1>4, <1>5 DEF Holds

(* And the other way round.                                                *)
LEMMA FreshAgreed ==
    ASSUME NEW op, NEW i, NEW g \in Globals, NEW p \in Party, NEW steps, NEW pv, NEW nx, NEW words, NEW d, NEW open,
           Holds(op, i, g, p, steps, 1, pv, nx, words, d, open)
    PROVE  Agreed(g, p, pv, nx, d)
<1>1. \A whats : Did(steps, 1, whats) = {}
  BY DEF Did
<1>2. /\ \A r \in Register : \A k \in Word : nx[r][k] = Stage(op, i, g, p, r, k, {}, {})
      /\ \A r \in Register : \A k \in Word : pv[r][k] = Stage(op, i, g, prev_party(p), r, k, {}, {})
  BY <1>1 DEF Holds, NextAt, PrevAt, Staged
<1>3. g.drawn[p] \in Nat /\ g.drawn[prev_party(p)] \in Nat
  BY Ring DEF Globals
<1>4. d.next = g.drawn[p] + 0 /\ d.prev = g.drawn[prev_party(p)] + 0
  BY <1>1, Sizes DEF Holds, DrawnAt
<1> QED
  BY <1>2, <1>3, <1>4 DEF Agreed, Stage

(* The shares of a party, as an operation leaves them.                     *)
LEMMA FinalShares ==
    ASSUME NEW op \in Operation, NEW i, NEW g \in Globals, NEW q \in Party, NEW writes, NEW rewrites, NEW regs,
           Settled(op, i, g, q, writes, rewrites), Staged(op, i, g, q, writes, rewrites, regs),
           NEW r \in Register, NEW k \in Word
    PROVE  regs[r][k] = Effect(op, i, g).share[q][r][k]
<1>1. Effect(op, i, g).share[q][r][k] = IF r = op.reg THEN LastWord(op, i, g, q, k) ELSE g.share[q][r][k]
  BY EffectShare
<1>2. regs[r][k] = Stage(op, i, g, q, r, k, writes, rewrites)
  BY DEF Staged
<1>3. \/ k \in rewrites
      \/ k \in writes /\ LastWord(op, i, g, q, k) = FirstWord(op, i, g, q, k)
      \/ k \notin writes /\ LastWord(op, i, g, q, k) = g.share[q][op.reg][k]
  BY DEF Settled
<1> HIDE DEF Settled, Staged
<1> QED
  BY <1>1, <1>2, <1>3 DEF Stage

(* An operation that a party has come to the end of.                       *)
LEMMA Finished ==
    ASSUME NEW op \in Operation, NEW i, NEW g \in Globals, NEW p \in Party, NEW steps, steps = Steps(op, p),
           NEW pv, NEW nx, NEW words, NEW d, NEW open,
           Holds(op, i, g, p, steps, Len(steps) + 1, pv, nx, words, d, open)
    PROVE  /\ Agreed(Effect(op, i, g), p, pv, nx, d)
           /\ RevealedTo(op, p) => \A k \in Word : open[k] = Sum(Effect(op, i, g), op.reg, k)
<1> DEFINE F(whats) == Did(steps, Len(steps) + 1, whats)
           h == Effect(op, i, g)
           q == prev_party(p)
<1>1. Final(op, p, steps)
  BY OrderlySteps DEF Orderly
<1>2. /\ Settled(op, i, g, p, F(WritesNext), F(RewritesNext))
      /\ Settled(op, i, g, q, F(WritesPrev), F(RewritesPrev))
      /\ Cardinality(F(DrawsNext)) = WordsDrawn(op, p) /\ Cardinality(F(DrawsPrev)) = WordsDrawn(op, q)
      /\ RevealedTo(op, p) => F({"recv_public"}) = Word
  BY <1>1 DEF Final
<1>3. q \in Party
  BY Ring
<1>4. /\ Staged(op, i, g, p, F(WritesNext), F(RewritesNext), nx)
      /\ Staged(op, i, g, q, F(WritesPrev), F(RewritesPrev), pv)
  BY DEF Holds, NextAt, PrevAt
<1>5. d.next = g.drawn[p] + Cardinality(F(DrawsNext)) /\ d.prev = g.drawn[q] + Cardinality(F(DrawsPrev))
  BY DEF Holds, DrawnAt
<1>6. \A k \in F({"recv_public"}) : open[k] = Sum(g, op.reg, k)
  BY DEF Holds, PublicAt
<1> HIDE DEF F, h, q
<1>7. \A r \in Register : \A k \in Word : nx[r][k] = h.share[p][r][k]
  BY <1>2, <1>4, FinalShares DEF h
<1>8. \A r \in Register : \A k \in Word : pv[r][k] = h.share[q][r][k]
  BY <1>2, <1>3, <1>4, FinalShares DEF h
<1>9. h.drawn[p] = g.drawn[p] + WordsDrawn(op, p) /\ h.drawn[q] = g.drawn[q] + WordsDrawn(op, q)
  BY <1>3 DEF h, Effect
<1>10. Agreed(h, p, pv, nx, d)
  BY <1>2, <1>5, <1>7, <1>8, <1>9 DEF Agreed, q
<1>11. ASSUME RevealedTo(op, p), NEW k \in Word
       PROVE  open[k] = Sum(h, op.reg, k)
  <2>1. open[k] = Sum(g, op.reg, k)
    BY <1>2, <1>6, <1>11
  <2>2. op.kind \in {"reveal_to", "reveal_to_all"} /\ op.reg \in Register
    BY <1>11, OperationIs DEF RevealedTo
  <2>3. ASSUME NEW r \in Party
        PROVE  h.share[r][op.reg][k] = g.share[r][op.reg][k]
    <3>1. h.share[r][op.reg][k] = LastWord(op, i, g, r, k)
      BY <2>2, EffectShare DEF h
    <3>2. LastWord(op, i, g, r, k) = g.share[r][op.reg][k]
      BY <2>2 DEF LastWord, FirstWord
    <3> QED
      BY <3>1, <3>2
  <2>4. 1 \in Party /\ 2 \in Party /\ 3 \in Party
    BY DEF Party
  <2> QED
    BY <2>1, <2>3, <2>4 DEF Sum
<1> QED
  BY <1>10, <1>11 DEF h

(* A return.                                                               *)
LEMMA ReturnHeld ==
    ASSUME TypeOK, NEW p \in Party, Return(p), SharesInv
    PROVE  SharesInv'
<1> DEFINE op == prog[pos[p]]
           i == pos[p]
           g == Sync[pos[p] - 1]
           steps == Mine(p)
<1>1. /\ Running(p) /\ step[p] > Len(Mine(p)) /\ prog' = prog
      /\ pos' = [pos EXCEPT ![p] = @ + 1] /\ step' = [step EXCEPT ![p] = 1]
      /\ prev' = prev /\ next' = next /\ buf' = buf /\ public' = public /\ drawn' = drawn /\ stream' = stream
  BY DEF Return, Mine
<1>2. /\ i \in 1 .. NumOps /\ op \in Operation /\ step[p] \in Nat /\ Len(steps) \in Nat /\ step[p] =< Len(steps) + 1
  BY <1>1, RunningFacts
<1>3. step[p] = Len(steps) + 1
  <2> HIDE DEF steps
  <2> QED
    BY <1>1, <1>2 DEF steps
<1>4. NumOps \in Nat /\ prog \in [1 .. NumOps -> Operation]
  BY Rep3Assumption DEF TypeOK
<1>5. i - 1 \in 0 .. NumOps /\ i \in 0 .. NumOps
  BY <1>2, <1>4
<1>6. g \in Globals /\ Sync[i] \in Globals /\ Sync[i] = Effect(op, i, g)
  BY <1>2, <1>4, <1>5, SyncIs
<1>7. /\ pos'[p] = i + 1 /\ step'[p] = 1 /\ pos'[p] - 1 = i
      /\ \A q \in Party : q # p => pos'[q] = pos[q] /\ step'[q] = step[q]
  BY <1>1, <1>2 DEF TypeOK
<1>8. Sync' = Sync
  BY <1>1, SyncSame
<1>9. Holds(op, i, g, p, steps, Len(steps) + 1, prev[p], next[p], buf[p], drawn[p], public[p])
  BY <1>1, <1>3 DEF SharesInv, PartyHeld, Mine
<1>10. /\ Agreed(Sync[i], p, prev[p], next[p], drawn[p])
       /\ RevealedTo(op, p) => \A k \in Word : public[p][k] = Sum(Sync[i], op.reg, k)
  <2> HIDE DEF op, i, g
  <2>1. steps = Steps(op, p)
    BY DEF Mine, op
  <2> HIDE DEF steps
  <2>2. /\ Agreed(Effect(op, i, g), p, prev[p], next[p], drawn[p])
        /\ RevealedTo(op, p) => \A k \in Word : public[p][k] = Sum(Effect(op, i, g), op.reg, k)
    BY <1>2, <1>6, <1>9, <2>1, Finished
  <2> QED
    BY <1>6, <2>2
<1>11. PartyHeld(p)'
  <2>1. CASE Running(p)'
    <3>1. Holds(prog[pos'[p]], pos'[p], Sync[i], p, Steps(prog[pos'[p]], p), 1,
                prev[p], next[p], buf[p], drawn[p], public[p])
      <4> HIDE DEF i
      <4> QED
        BY <1>6, <1>10, Fresh
    <3> QED
      BY <1>1, <1>7, <1>8, <2>1, <3>1 DEF PartyHeld
  <2>2. CASE ~Running(p)'
    BY <1>1, <1>7, <1>8, <1>10, <2>2 DEF PartyHeld
  <2> QED
    BY <2>1, <2>2
<1>12. ASSUME NEW q \in Party, q # p
       PROVE  PartyHeld(q)'
  BY <1>1, <1>7, <1>12, HeldSame DEF SharesInv
<1>13. StreamsHeld'
  BY <1>1, StreamsAre, StreamSame DEF SharesInv
<1>14. LastOpened'
  <2>1. ASSUME NEW q \in Party, pos'[q] > 1, step'[q] = 1, RevealedTo(prog'[pos'[q] - 1], q), NEW k \in Word
        PROVE  public'[q][k] = Sum(Sync'[pos'[q] - 1], prog'[pos'[q] - 1].reg, k)
    <3>1. CASE q = p
      BY <1>1, <1>7, <1>8, <1>10, <2>1, <3>1
    <3>2. CASE q # p
      <4>1. pos[q] > 1 /\ step[q] = 1 /\ RevealedTo(prog[pos[q] - 1], q)
        BY <1>1, <1>7, <2>1, <3>2
      <4>2. public[q][k] = Sum(Sync[pos[q] - 1], prog[pos[q] - 1].reg, k)
        BY <4>1 DEF SharesInv, LastOpened
      <4> QED
        BY <1>1, <1>7, <1>8, <3>2, <4>2
    <3> QED
      BY <3>1, <3>2
  <2> QED
    BY <2>1 DEF LastOpened
<1> QED
  BY <1>11, <1>12, <1>13, <1>14 DEF SharesInv

(* In the beginning.                                                       *)
LEMMA SharesInit ==
    ASSUME Init
    PROVE  SharesInv
<1>1. TypeOK
  BY TypeInit
<1>2. /\ prog \in [1 .. NumOps -> Operation] /\ pos = [p \in Party |-> 1] /\ step = [p \in Party |-> 1]
      /\ next = [p \in Party |-> [r \in Register |->
                 IF r \in {"a", "b"} THEN [k \in Word |-> Atom(<<r, p, k>>)] ELSE Zeros]]
      /\ prev = [p \in Party |-> next[prev_party(p)]]
      /\ drawn = [p \in Party |-> [prev |-> 0, next |-> 0]]
      /\ stream = [p \in Party |-> <<>>]
  BY DEF Init
<1>3. Sync[0] = Start /\ Start \in Globals
  BY <1>2, SyncIs, StartTyped
<1>4. ASSUME NEW p \in Party
      PROVE  PartyHeld(p)
  <2>1. prev_party(p) \in Party
    BY Ring
  <2>2. pos[p] = 1 /\ step[p] = 1 /\ pos[p] - 1 = 0 /\ Running(p)
    BY <1>2, Rep3Assumption DEF Running
  <2>3. \A q \in Party : \A r \in Register : \A k \in Word : next[q][r][k] = Start.share[q][r][k]
    BY <1>2 DEF Start
  <2>4. prev[p] = next[prev_party(p)]
    BY <1>2
  <2>5. drawn[p].next = Start.drawn[p] /\ drawn[p].prev = Start.drawn[prev_party(p)]
    BY <1>2, <2>1 DEF Start
  <2>6. Agreed(Start, p, prev[p], next[p], drawn[p])
    BY <2>1, <2>3, <2>4, <2>5 DEF Agreed
  <2>7. Holds(prog[1], 1, Start, p, Steps(prog[1], p), 1, prev[p], next[p], buf[p], drawn[p], public[p])
    BY <1>3, <2>6, Fresh
  <2> QED
    BY <1>3, <2>2, <2>7 DEF PartyHeld
<1>5. StreamsHeld
  BY <1>2 DEF StreamsHeld
<1>6. LastOpened
  BY <1>2 DEF LastOpened
<1> QED
  BY <1>4, <1>5, <1>6 DEF SharesInv

(* The invariant behind the two theorems below: at every step, each party  *)
(* holds of each word what the program run in step gives it, every word on *)
(* its way is the one its receiver waits for.  It needs a gate's window to *)
(* fit in the buffer of the generator of zero shares: without that it does *)
(* not hold, as the run rep3_wide shows.                                   *)
THEOREM SharesInductive ==
    ASSUME Buffered
    PROVE  Spec => [](Rep3Inv /\ SharesInv)
<1>1. Init => SharesInv
  BY SharesInit
<1>2. Rep3Inv /\ SharesInv /\ [Next]_vars => SharesInv'
  <2> SUFFICES ASSUME TypeOK, FramesInOrder, SharesInv, [Next]_vars
               PROVE  SharesInv'
    BY DEF Rep3Inv
  <2>1. (\A q \in Party : PartyHeld(q)) /\ StreamsHeld /\ LastOpened
    BY DEF SharesInv
  <2>2. CASE Next
    <3>1. PICK p \in Party : Run(p)
      BY <2>2 DEF Next
    <3>2. CASE Quiet(p)
      <4>1. At(p, Local) /\ Advance(p) /\ stream' = stream /\ prog' = prog
        BY <3>2, QuietFacts DEF Stay, Advance
      <4>2. HeldAfter(p) /\ Rest(p)
        BY <2>1, <3>2, QuietHeld
      <4>3. \A q \in Party : PartyHeld(q)'
        BY <2>1, <4>1, <4>2, HeldAdvance
      <4>4. StreamsHeld'
        BY <2>1, <4>1, StreamsAre, StreamSame
      <4>5. LastOpened'
        BY <2>1, <4>1, <4>2, OpenedAdvance
      <4> QED
        BY <4>3, <4>4, <4>5 DEF SharesInv
    <3>3. CASE Send(p)
      <4>1. At(p, Sending) /\ Advance(p)
        BY <3>3 DEF Send, Sending
      <4>2. HeldAfter(p) /\ Rest(p) /\ StreamsHeld'
        BY <2>1, <3>3, SendHeld
      <4>3. \A q \in Party : PartyHeld(q)'
        BY <2>1, <4>1, <4>2, HeldAdvance
      <4>4. LastOpened'
        BY <2>1, <4>1, <4>2, OpenedAdvance
      <4> QED
        BY <4>2, <4>3, <4>4 DEF SharesInv
    <3>4. CASE Recv(p)
      <4>1. At(p, Receiving) /\ Advance(p)
        BY <3>4 DEF Recv, AtRecv, Receiving
      <4>2. HeldAfter(p) /\ Rest(p) /\ StreamsHeld'
        BY <2>1, <3>4, RecvHeld
      <4>3. \A q \in Party : PartyHeld(q)'
        BY <2>1, <4>1, <4>2, HeldAdvance
      <4>4. LastOpened'
        BY <2>1, <4>1, <4>2, OpenedAdvance
      <4> QED
        BY <4>2, <4>3, <4>4 DEF SharesInv
    <3>5. CASE Return(p)
      BY <3>5, ReturnHeld
    <3> QED
      BY <3>1, <3>2, <3>3, <3>4, <3>5 DEF Run, Quiet
  <2>3. CASE UNCHANGED vars
    <3>1. /\ prog' = prog /\ pos' = pos /\ step' = step /\ prev' = prev /\ next' = next /\ buf' = buf
          /\ public' = public /\ drawn' = drawn /\ stream' = stream
      BY <2>3 DEF vars
    <3>2. \A q \in Party : PartyHeld(q)'
      BY <2>1, <3>1, HeldSame
    <3>3. StreamsHeld'
      BY <2>1, <3>1, StreamsAre, StreamSame
    <3>4. LastOpened'
      BY <2>1, <3>1, SyncSame DEF LastOpened
    <3> QED
      BY <3>2, <3>3, <3>4 DEF SharesInv
  <2> QED
    BY <2>2, <2>3
<1> QED
  BY <1>1, <1>2, FramesInductive, PTL DEF Spec

(* Between operations each party has what the program run in step has.     *)
LEMMA BetweenAgreed ==
    ASSUME TypeOK, SharesInv, NEW i \in 0 .. NumOps, Between(i), NEW p \in Party
    PROVE  Agreed(Sync[i], p, prev[p], next[p], drawn[p])
<1>1. i \in Nat /\ pos[p] = i + 1 /\ step[p] = 1 /\ pos[p] - 1 = i
  BY Rep3Assumption DEF Between
<1>2. Sync[i] \in Globals
  BY SyncIs DEF TypeOK
<1>3. PartyHeld(p)
  BY DEF SharesInv
<1>4. CASE Running(p)
  BY <1>1, <1>2, <1>3, <1>4, FreshAgreed DEF PartyHeld
<1>5. CASE ~Running(p)
  BY <1>1, <1>3, <1>5 DEF PartyHeld
<1> QED
  BY <1>4, <1>5

(* And nothing is left in the streams.                                     *)
LEMMA BetweenEmpty ==
    ASSUME TypeOK, FramesInOrder, NEW i \in 0 .. NumOps, Between(i), NEW p \in Party
    PROVE  stream[p] = <<>>
<1>1. i \in Nat /\ \A q \in Party : pos[q] = i + 1 /\ step[q] = 1 /\ pos[q] - 1 = i
  BY Rep3Assumption DEF Between
<1>2. \A q \in Party : \A whats : SoFar(q, whats) = 0
  <2>1. \A steps, whats : Before(steps, whats, 1) = 0
    <3> SUFFICES ASSUME NEW steps, NEW whats PROVE Before(steps, whats, 1) = 0
      OBVIOUS
    <3>1. {k \in 1 .. 1 - 1 : steps[k].do \in whats} = {}
      OBVIOUS
    <3> QED
      BY <3>1, Sizes DEF Before
  <2> QED
    BY <1>1, <2>1 DEF SoFar
<1>3. prev_party(p) \in Party /\ next_party(prev_party(p)) = p
  BY Ring
<1>4. Len(stream[p]) = Sent(prev_party(p)) - Received(p)
  BY <1>3, OrderedIs DEF OrderedFrom
<1>5. Sent(prev_party(p)) = Total(prev_party(p))[i] + 0 /\ Received(p) = Total(prev_party(p))[i] + 0
  BY <1>1, <1>2, <1>3 DEF Sent, Received
<1>6. Sent(prev_party(p)) \in Nat /\ Received(p) \in Nat
  BY <1>3, CountersFacts
<1>7. Len(stream[p]) = 0
  BY <1>4, <1>5, <1>6
<1>8. stream[p] \in Seq(Message)
  BY TypeIs DEF Streams
<1> QED
  BY <1>7, <1>8

(* Whatever the program, its length, that of the registers, the windows,   *)
(* the capacity of the streams and the order in which the parties run:     *)
(* after every operation the registers are sharings of what the operation  *)
(* computes in the clear, neighbours agree on the share and the generator  *)
(* they have in common, and no word is left on its way.                    *)
THEOREM SharesAgreeHolds ==
    ASSUME Buffered
    PROVE  Spec => []SharesAgree
<1>1. Rep3Inv /\ SharesInv => SharesAgree
  <2> SUFFICES ASSUME TypeOK, FramesInOrder, SharesInv, NEW i \in 0 .. NumOps, Between(i), NEW p \in Party
               PROVE  /\ prev[next_party(p)] = next[p]
                      /\ \A r \in Register \ {"f"} : \A k \in Word :
                            next[p][r][k] (+) prev[p][r][k] (+) next[next_party(p)][r][k] = Clear[i][r][k]
                      /\ drawn[p].next = drawn[next_party(p)].prev
                      /\ stream[p] = <<>>
    BY DEF Rep3Inv, SharesAgree
  <2> DEFINE q == next_party(p)
             g == Sync[i]
  <2>1. q \in Party /\ prev_party(q) = p
    BY Ring
  <2>2. Agreed(g, p, prev[p], next[p], drawn[p]) /\ Agreed(g, q, prev[q], next[q], drawn[q])
    BY <2>1, BetweenAgreed
  <2>3. /\ \A r \in Register : \A k \in Word : /\ next[p][r][k] = g.share[p][r][k]
                                               /\ prev[p][r][k] = g.share[prev_party(p)][r][k]
                                               /\ next[q][r][k] = g.share[q][r][k]
                                               /\ prev[q][r][k] = g.share[p][r][k]
        /\ drawn[p].next = g.drawn[p] /\ drawn[q].prev = g.drawn[p]
    BY <2>1, <2>2 DEF Agreed
  <2> HIDE DEF g
  <2>4. prev[q] = next[p]
    <3>1. prev[q] \in [Register -> Vector] /\ next[p] \in [Register -> Vector]
      BY <2>1 DEF TypeOK
    <3>2. ASSUME NEW r \in Register PROVE prev[q][r] = next[p][r]
      <4>1. prev[q][r] \in [Word -> Polynomial] /\ next[p][r] \in [Word -> Polynomial]
        BY <3>1 DEF Vector
      <4>2. \A k \in Word : prev[q][r][k] = next[p][r][k]
        BY <2>3
      <4> QED
        BY <4>1, <4>2
    <3> QED
      BY <3>1, <3>2
  <2>5. \A r \in Register \ {"f"} : \A k \in Word : Sum(g, r, k) = Clear[i][r][k]
    BY SyncShares DEF TypeOK, Sharing, g
  <2>6. ASSUME NEW r \in Register \ {"f"}, NEW k \in Word
        PROVE  next[p][r][k] (+) prev[p][r][k] (+) next[q][r][k] = Clear[i][r][k]
    <3>1. Sum(g, r, k) = g.share[p][r][k] (+) g.share[prev_party(p)][r][k] (+) g.share[q][r][k]
      BY SumIs
    <3> QED
      BY <2>3, <2>5, <3>1
  <2> QED
    BY <2>3, <2>4, <2>6, BetweenEmpty
<1> QED
  BY <1>1, SharesInductive, PTL

(* Under the same conditions, what a party learns when a value is revealed *)
(* to it is that value.                                                    *)
THEOREM RevealRightHolds ==
    ASSUME Buffered
    PROVE  Spec => []RevealRight
<1>1. Rep3Inv /\ SharesInv => RevealRight
  <2> SUFFICES ASSUME TypeOK, SharesInv, NEW p \in Party, pos[p] > 1, step[p] = 1,
                      RevealedTo(prog[pos[p] - 1], p)
               PROVE  public[p] = Clear[pos[p] - 1][prog[pos[p] - 1].reg]
    BY DEF Rep3Inv, RevealRight, RevealedTo
  <2> DEFINE i == pos[p] - 1
             r == prog[i].reg
  <2>1. prog \in [1 .. NumOps -> Operation] /\ NumOps \in Nat /\ pos[p] \in 1 .. NumOps + 1
    BY Rep3Assumption DEF TypeOK
  <2>2. i \in 1 .. NumOps /\ i \in 0 .. NumOps
    BY <2>1
  <2>3. \A k \in Word : public[p][k] = Sum(Sync[i], r, k)
    BY DEF SharesInv, LastOpened
  <2> HIDE DEF i
  <2>4. prog[i] \in Operation /\ RevealedTo(prog[i], p)
    BY <2>1, <2>2 DEF i
  <2>5. r \in Register \ {"f"}
    BY <2>4 DEF RevealedTo, Operation, Register
  <2> HIDE DEF r
  <2>6. \A k \in Word : Sum(Sync[i], r, k) = Clear[i][r][k]
    BY <2>1, <2>2, <2>5, SyncShares DEF Sharing
  <2>7. public[p] \in [Word -> Polynomial]
    BY DEF TypeOK, Vector
  <2>8. Clear[i] \in GoodRegisters
    BY <2>1, <2>2, ClearIs
  <2>9. Clear[i][r] \in [Word -> GoodWord]
    BY <2>5, <2>8 DEF GoodRegisters
  <2>10. public[p] = Clear[i][r]
    BY <2>3, <2>6, <2>7, <2>9
  <2> QED
    BY <2>10 DEF i, r
<1> QED
  BY <1>1, SharesInductive, PTL

(* So a gate computes the AND of its inputs whenever its window fits in the*)
(* buffer of the generator: the finding of rep3_wide is the only way for it*)
(* to go wrong.                                                            *)
THEOREM AndComputesAndHolds ==
    ASSUME Buffered
    PROVE  Spec => []AndComputesAnd
<1>1. SharesAgree => AndComputesAnd
  <2> SUFFICES ASSUME SharesAgree, NEW i \in 1 .. NumOps, Between(i), NEW k \in Word
               PROVE  next[1]["c"][k] (+) next[2]["c"][k] (+) next[3]["c"][k] = Clear[i]["c"][k]
    BY DEF AndComputesAnd
  <2>1. i \in 0 .. NumOps /\ "c" \in Register \ {"f"} /\ 3 \in Party /\ 1 \in Party
    BY Rep3Assumption DEF Register, Party
  <2>2. prev_party(1) = 3 /\ next_party(1) = 2 /\ next_party(3) = 1
    BY DEF prev_party, next_party
  <2>3. /\ prev[next_party(3)] = next[3]
        /\ next[1]["c"][k] (+) prev[1]["c"][k] (+) next[next_party(1)]["c"][k] = Clear[i]["c"][k]
    BY <2>1 DEF SharesAgree
  <2>4. next[1]["c"][k] (+) next[3]["c"][k] (+) next[2]["c"][k] = Clear[i]["c"][k]
    BY <2>2, <2>3
  <2> DEFINE x == next[1]["c"][k]
             y == next[2]["c"][k]
             z == next[3]["c"][k]
  <2> HIDE DEF x, y, z
  <2>5. (x (+) z) (+) y = (x (+) y) (+) z
    BY XorLaws
  <2> QED
    BY <2>4, <2>5 DEF x, y, z
<1> QED
  BY <1>1, SharesAgreeHolds, PTL
=============================================================================
