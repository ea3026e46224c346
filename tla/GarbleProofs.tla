---------------------------- MODULE GarbleProofs ----------------------------
(***************************************************************************)
(* The garbled evaluation is right, for every circuit, number of calls and *)
(* capacity of the streams.                                                *)
(***************************************************************************)
EXTENDS GarbleProperties, Counting

-----------------------------------------------------------------------------
(* Sequences, whatever their elements *)

(* A sequence is one over the set of its elements.                         *)
LEMMA SeqOver ==
    ASSUME NEW s, IsSeq(s)
    PROVE  s \in Seq({s[j] : j \in 1 .. Len(s)})
<1> DEFINE S == {s[j] : j \in 1 .. Len(s)}
           n == Len(s)
<1>1. n \in Nat /\ s = [j \in 1 .. n |-> s[j]]
  BY DEF IsSeq
<1>2. \A j \in 1 .. n : s[j] \in S
  OBVIOUS
<1> HIDE DEF S, n
<1>3. [j \in 1 .. n |-> s[j]] \in Seq(S)
  BY <1>1, <1>2
<1> QED
  BY <1>1, <1>3 DEF S

(* A sequence over a set is one.                                           *)
LEMMA SeqIs ==
    ASSUME NEW S, NEW s \in Seq(S)
    PROVE  IsSeq(s)
BY DEF IsSeq

(* A function on an initial segment of the naturals is a sequence.         *)
LEMMA SeqFrom ==
    ASSUME NEW n \in Nat, NEW f, NEW s, s = [j \in 1 .. n |-> f[j]]
    PROVE  IsSeq(s) /\ Len(s) = n /\ \A j \in 1 .. n : s[j] = f[j]
<1> DEFINE S == {f[j] : j \in 1 .. n}
<1>1. s \in Seq(S)
  OBVIOUS
<1>2. Len(s) = n /\ DOMAIN s = 1 .. n
  BY <1>1
<1> QED
  BY <1>1, <1>2 DEF IsSeq

(* Sequences of one length that agree everywhere are equal.                *)
LEMMA SeqEqual ==
    ASSUME NEW s, NEW t, IsSeq(s), IsSeq(t), Len(s) = Len(t),
           \A j \in 1 .. Len(s) : s[j] = t[j]
    PROVE  s = t
BY DEF IsSeq

(* What a concatenation holds.                                             *)
LEMMA ConcatIs ==
    ASSUME NEW s, NEW t, IsSeq(s), IsSeq(t)
    PROVE  /\ IsSeq(s \o t) /\ Len(s \o t) = Len(s) + Len(t)
           /\ \A j \in 1 .. Len(s) : (s \o t)[j] = s[j]
           /\ \A j \in 1 .. Len(t) : (s \o t)[Len(s) + j] = t[j]
<1> DEFINE S == {s[j] : j \in 1 .. Len(s)} \cup {t[j] : j \in 1 .. Len(t)}
<1>1. s \in Seq(S) /\ t \in Seq(S)
  <2>1. s \in Seq({s[j] : j \in 1 .. Len(s)}) /\ t \in Seq({t[j] : j \in 1 .. Len(t)})
    BY SeqOver
  <2> QED
    BY <2>1
<1> HIDE DEF S
<1>2. s \o t \in Seq(S) /\ Len(s \o t) = Len(s) + Len(t)
  BY <1>1
<1>3. Len(s) \in Nat /\ Len(t) \in Nat
  BY <1>1
<1>4. \A j \in 1 .. Len(s) + Len(t) : (s \o t)[j] = IF j =< Len(s) THEN s[j] ELSE t[j - Len(s)]
  BY <1>1
<1>5. IsSeq(s \o t)
  BY <1>2, SeqIs
<1>6. \A j \in 1 .. Len(s) : (s \o t)[j] = s[j]
  BY <1>3, <1>4
<1>7. \A j \in 1 .. Len(t) : (s \o t)[Len(s) + j] = t[j]
  <2> SUFFICES ASSUME NEW j \in 1 .. Len(t) PROVE (s \o t)[Len(s) + j] = t[j]
    OBVIOUS
  <2>1. Len(s) + j \in 1 .. Len(s) + Len(t) /\ ~(Len(s) + j =< Len(s)) /\ Len(s) + j - Len(s) = j
    BY <1>3
  <2> QED
    BY <1>4, <2>1
<1> QED
  BY <1>2, <1>5, <1>6, <1>7

(* The empty sequence adds nothing.                                        *)
LEMMA EmptyIs == IsSeq(<<>>) /\ Len(<<>>) = 0 /\ \A s : IsSeq(s) => s \o <<>> = s /\ <<>> \o s = s
<1>1. IsSeq(<<>>) /\ Len(<<>>) = 0
  BY DEF IsSeq
<1>2. ASSUME NEW s, IsSeq(s) PROVE s \o <<>> = s /\ <<>> \o s = s
  BY <1>2, SeqOver
<1> QED
  BY <1>1, <1>2

(* Concatenation is associative.                                           *)
LEMMA ConcatAssoc ==
    ASSUME NEW s, NEW t, NEW u, IsSeq(s), IsSeq(t), IsSeq(u)
    PROVE  (s \o t) \o u = s \o (t \o u)
<1>1. IsSeq(s \o t) /\ IsSeq(t \o u) /\ IsSeq((s \o t) \o u) /\ IsSeq(s \o (t \o u))
  BY ConcatIs
<1> DEFINE S == {s[j] : j \in 1 .. Len(s)} \cup {t[j] : j \in 1 .. Len(t)} \cup {u[j] : j \in 1 .. Len(u)}
<1>2. s \in Seq(S) /\ t \in Seq(S) /\ u \in Seq(S)
  <2>1. /\ s \in Seq({s[j] : j \in 1 .. Len(s)}) /\ t \in Seq({t[j] : j \in 1 .. Len(t)})
        /\ u \in Seq({u[j] : j \in 1 .. Len(u)})
    BY SeqOver
  <2> QED
    BY <2>1
<1> HIDE DEF S
<1> QED
  BY <1>2

(* A sequence is its head and its tail.                                    *)
LEMMA HeadTail ==
    ASSUME NEW s, IsSeq(s), s # <<>>
    PROVE  /\ IsSeq(<<Head(s)>>) /\ IsSeq(Tail(s)) /\ s = <<Head(s)>> \o Tail(s)
           /\ Len(s) >= 1 /\ Len(Tail(s)) = Len(s) - 1
<1>1. s \in Seq({s[j] : j \in 1 .. Len(s)})
  BY SeqOver
<1> DEFINE S == {s[j] : j \in 1 .. Len(s)}
<1> HIDE DEF S
<1>2. s \in Seq(S)
  BY <1>1 DEF S
<1>3. Tail(s) \in Seq(S) /\ Len(Tail(s)) = Len(s) - 1 /\ Len(s) >= 1 /\ Head(s) \in S
  BY <1>2
<1>4. <<Head(s)>> \o Tail(s) = s
  BY <1>2, <1>3
<1>5. IsSeq(Tail(s)) /\ IsSeq(<<Head(s)>>)
  <2>1. <<Head(s)>> \in Seq(S)
    BY <1>3
  <2> QED
    BY <1>3, <2>1, SeqIs
<1> QED
  BY <1>3, <1>4, <1>5

(* What one more element makes of a sequence.                              *)
LEMMA AppendIs ==
    ASSUME NEW s, IsSeq(s), NEW e
    PROVE  /\ IsSeq(Append(s, e)) /\ Append(s, e) = s \o <<e>> /\ Len(Append(s, e)) = Len(s) + 1
           /\ Append(s, e)[Len(s) + 1] = e /\ \A j \in 1 .. Len(s) : Append(s, e)[j] = s[j]
<1> DEFINE S == {s[j] : j \in 1 .. Len(s)} \cup {e}
<1>1. s \in Seq(S) /\ e \in S
  <2>1. s \in Seq({s[j] : j \in 1 .. Len(s)})
    BY SeqOver
  <2> QED
    BY <2>1
<1> HIDE DEF S
<1>2. Append(s, e) \in Seq(S) /\ Len(Append(s, e)) = Len(s) + 1 /\ Append(s, e) = s \o <<e>>
  BY <1>1
<1> QED
  BY <1>1, <1>2 DEF IsSeq

IsAppend(u, s, e) == u = Append(s, e)

LEMMA Appended ==
    ASSUME NEW s, IsSeq(s), NEW e, NEW u, IsAppend(u, s, e)
    PROVE  /\ IsSeq(u) /\ Len(u) = Len(s) + 1 /\ u[Len(s) + 1] = e
           /\ \A j \in 1 .. Len(s) : u[j] = s[j]
<1> DEFINE S == {s[j] : j \in 1 .. Len(s)} \cup {e}
<1>1. s \in Seq(S) /\ e \in S
  <2>1. s \in Seq({s[j] : j \in 1 .. Len(s)})
    BY SeqOver
  <2> QED
    BY <2>1
<1> HIDE DEF S
<1>2. u \in Seq(S) /\ Len(u) = Len(s) + 1
  BY <1>1 DEF IsAppend
<1>3. u[Len(s) + 1] = e /\ \A j \in 1 .. Len(s) : u[j] = s[j]
  BY <1>1 DEF IsAppend
<1>4. IsSeq(u)
  BY <1>2, SeqIs
<1> QED
  BY <1>2, <1>3, <1>4

-----------------------------------------------------------------------------
(* The circuit *)

(* What the circuit files give.                                            *)
LEMMA CircuitIs ==
    ASSUME NEW f \in Circuits
    PROVE  /\ f.num_input \in Nat /\ f.num_output \in Nat /\ f.num_wire \in Nat
           /\ Len(f.gates) \in Nat /\ NumCalls \in Nat /\ NumCalls >= 1
           /\ \A i \in 1 .. f.num_input : i \in 1 .. f.num_wire
           /\ \A i \in 1 .. f.num_output : f.num_wire - f.num_output + i \in 1 .. f.num_wire
           /\ \A k \in 1 .. Len(f.gates) : f.gates[k] \in GateOn(f.num_wire)
           /\ DOMAIN f.gates = 1 .. Len(f.gates)
<1>1. /\ {f.num_input, f.num_output, f.num_wire} \subseteq Nat
      /\ f.num_input =< f.num_wire /\ f.num_output =< f.num_wire
      /\ f.gates \in Seq(GateOn(f.num_wire)) /\ NumCalls \in Nat \ {0}
  BY GarbleAssumption
<1> DEFINE i == f.num_input
           o == f.num_output
           w == f.num_wire
           g == f.gates
           S == GateOn(w)
<1>2. i \in Nat /\ o \in Nat /\ w \in Nat /\ i =< w /\ o =< w /\ g \in Seq(S)
  BY <1>1
<1> HIDE DEF i, o, w, g, S
<1>3. /\ \A j \in 1 .. i : j \in 1 .. w
      /\ \A j \in 1 .. o : w - o + j \in 1 .. w
  BY <1>2
<1>4. Len(g) \in Nat /\ DOMAIN g = 1 .. Len(g) /\ \A k \in 1 .. Len(g) : g[k] \in S
  BY <1>2
<1>5. NumCalls \in Nat /\ NumCalls >= 1
  BY <1>1
<1> QED
  BY <1>1, <1>2, <1>3, <1>4, <1>5 DEF i, o, w, g, S

(* The AND gates are counted one by one.                                   *)
LEMMA AndsCounted ==
    ASSUME NEW f \in Circuits
    PROVE  /\ AndsTo(f, 0) = 0 /\ AndsTo(f, Len(f.gates)) = NumAnds(f)
           /\ \A k \in 0 .. Len(f.gates) : AndsTo(f, k) \in Nat
           /\ \A k \in 1 .. Len(f.gates) :
                AndsTo(f, k) = AndsTo(f, k - 1) + (IF f.gates[k].type = "AND" THEN 1 ELSE 0)
<1> DEFINE L == Len(f.gates)
           Ands(k) == {j \in 1 .. k : f.gates[j].type = "AND"}
<1>1. L \in Nat /\ DOMAIN f.gates = 1 .. L
  BY CircuitIs
<1>2. Ands(0) = {} /\ AndsTo(f, 0) = 0
  <2>1. 1 .. 0 = {}
    OBVIOUS
  <2>2. Ands(0) = {}
    BY <2>1
  <2> QED
    BY <2>2, FS_EmptySet DEF AndsTo
<1>3. AndsTo(f, L) = NumAnds(f)
  BY <1>1 DEF AndsTo, NumAnds
<1>4. ASSUME NEW k \in Nat PROVE IsFiniteSet(Ands(k)) /\ AndsTo(f, k) \in Nat
  <2>1. IsFiniteSet(1 .. k)
    BY FS_Interval
  <2>2. Ands(k) \in SUBSET (1 .. k)
    OBVIOUS
  <2>3. IsFiniteSet(Ands(k))
    BY <2>1, <2>2, FS_Subset
  <2> QED
    BY <2>3, FS_CardinalityType DEF AndsTo
<1>5. ASSUME NEW k \in 1 .. L
      PROVE  AndsTo(f, k) = AndsTo(f, k - 1) + (IF f.gates[k].type = "AND" THEN 1 ELSE 0)
  <2>1. k - 1 \in Nat /\ k \in 1 .. k /\ k \notin 1 .. k - 1 /\ 1 .. k = (1 .. k - 1) \cup {k}
    BY <1>1
  <2>2. CASE f.gates[k].type = "AND"
    <3>1. Ands(k) = Ands(k - 1) \cup {k} /\ k \notin Ands(k - 1)
      BY <2>1, <2>2
    <3>2. IsFiniteSet(Ands(k - 1))
      BY <1>4, <2>1
    <3> HIDE DEF Ands
    <3>3. Cardinality(Ands(k)) = Cardinality(Ands(k - 1)) + 1
      BY <3>1, <3>2, FS_AddElement
    <3> QED
      BY <2>2, <3>3 DEF Ands, AndsTo
  <2>3. CASE f.gates[k].type # "AND"
    <3>1. Ands(k) = Ands(k - 1)
      BY <2>1, <2>3
    <3>2. AndsTo(f, k - 1) \in Nat /\ AndsTo(f, k) = AndsTo(f, k - 1)
      BY <1>4, <2>1, <3>1 DEF AndsTo
    <3> QED
      BY <2>3, <3>2
  <2> QED
    BY <2>2, <2>3
<1>6. ASSUME NEW k \in 0 .. L PROVE AndsTo(f, k) \in Nat
  <2>1. k \in Nat
    BY <1>1
  <2> QED
    BY <1>4, <2>1
<1> QED
  BY <1>2, <1>3, <1>5, <1>6

(* More gates, more AND gates.                                             *)
LEMMA AndsGrow ==
    ASSUME NEW f \in Circuits, NEW k \in 0 .. Len(f.gates)
    PROVE  \A l \in 0 .. Len(f.gates) : k =< l => AndsTo(f, k) =< AndsTo(f, l)
<1> DEFINE L == Len(f.gates)
           T == {l \in 0 .. L : k =< l => AndsTo(f, k) =< AndsTo(f, l)}
<1>1. L \in Nat
  BY CircuitIs
<1>2. \A l \in 0 .. L : AndsTo(f, l) \in Nat
  BY AndsCounted
<1>3. 0 \in T
  BY <1>1, <1>2
<1>4. ASSUME NEW l \in 1 .. L, l - 1 \in T PROVE l \in T
  <2>1. l - 1 \in 0 .. L /\ l \in 0 .. L /\ l \in Int
    BY <1>1
  <2>2. AndsTo(f, l - 1) \in Nat /\ AndsTo(f, l) \in Nat /\ AndsTo(f, k) \in Nat
    BY <1>2, <2>1
  <2>3. AndsTo(f, l) = AndsTo(f, l - 1) + (IF f.gates[l].type = "AND" THEN 1 ELSE 0)
    BY AndsCounted
  <2>4. AndsTo(f, l - 1) =< AndsTo(f, l)
    BY <2>2, <2>3
  <2>5. CASE k =< l - 1
    <3>1. AndsTo(f, k) =< AndsTo(f, l - 1)
      BY <1>4, <2>5
    <3> QED
      BY <2>1, <2>2, <2>4, <3>1
  <2>6. CASE ~(k =< l - 1)
    <3>1. k =< l => k = l
      BY <2>1, <2>6
    <3> QED
      BY <2>1, <2>2, <3>1
  <2> QED
    BY <2>5, <2>6
<1> HIDE DEF T
<1>5. \A l \in 0 .. L : l \in T
  BY <1>1, <1>3, <1>4, InductionUpTo
<1> QED
  BY <1>5 DEF T

(* The two blocks of the table of a gate.                                  *)
LEMMA TableOf ==
    ASSUME NEW f \in Circuits, NEW k \in 1 .. Len(f.gates), f.gates[k].type = "AND", NEW c
    PROVE  LET n == 2 * AndsTo(f, k - 1)
               g == GarblingOf(f, c, k, ZeroWires(f, c)[k - 1])
           IN /\ n \in Nat /\ n + 1 \in 1 .. 2 * NumAnds(f) /\ n + 2 \in 1 .. 2 * NumAnds(f)
              /\ Tables(f, c)[n + 1] = TableBlock(1, g) /\ Tables(f, c)[n + 2] = TableBlock(2, g)
              /\ 2 * AndsTo(f, k) = n + 2
<1> DEFINE L == Len(f.gates)
           a == AndsTo(f, k - 1)
<1>1. L \in Nat /\ k - 1 \in 0 .. L
  BY CircuitIs
<1>2. a \in Nat /\ AndsTo(f, k) = a + 1 /\ AndsTo(f, k) =< AndsTo(f, L) /\ AndsTo(f, L) = NumAnds(f)
      /\ NumAnds(f) \in Nat
  <2>1. k \in 0 .. L /\ L \in 0 .. L /\ k =< L
    BY <1>1
  <2> QED
    BY <1>1, <2>1, AndsCounted, AndsGrow
<1>3. \A l \in 1 .. L : f.gates[l].type = "AND" /\ AndsTo(f, l) = a + 1 => l = k
  <2> SUFFICES ASSUME NEW l \in 1 .. L, f.gates[l].type = "AND", AndsTo(f, l) = a + 1, l # k
               PROVE  FALSE
    OBVIOUS
  <2>1. l - 1 \in 0 .. L /\ k \in 0 .. L /\ l \in 0 .. L /\ (l =< k - 1 \/ k =< l - 1)
    BY <1>1
  <2>2. AndsTo(f, l) = AndsTo(f, l - 1) + 1 /\ AndsTo(f, l - 1) \in Nat
    BY <2>1, AndsCounted
  <2>3. l =< k - 1 => AndsTo(f, l) =< a
    BY <1>1, <2>1, AndsGrow
  <2>4. k =< l - 1 => AndsTo(f, k) =< AndsTo(f, l - 1)
    BY <2>1, AndsGrow
  <2> QED
    BY <1>2, <2>1, <2>2, <2>3, <2>4
<1>4. \A j : (j + 1) \div 2 = a + 1 => AndGate(f, j) = k
  BY <1>2, <1>3 DEF AndGate
<1>5. (2 * a + 1 + 1) \div 2 = a + 1 /\ (2 * a + 2 + 1) \div 2 = a + 1
      /\ (2 * a + 1) % 2 = 1 /\ (2 * a + 2) % 2 = 0
  <2> HIDE DEF a
  <2> QED
    BY <1>2
<1>6. AndGate(f, 2 * a + 1) = k /\ AndGate(f, 2 * a + 2) = k
  BY <1>4, <1>5
<1>7. 2 * a + 1 \in 1 .. 2 * NumAnds(f) /\ 2 * a + 2 \in 1 .. 2 * NumAnds(f) /\ 2 * AndsTo(f, k) = 2 * a + 2 /\ 2 * a \in Nat
  <2> HIDE DEF a
  <2> QED
    BY <1>2
<1> QED
  BY <1>5, <1>6, <1>7 DEF Tables

-----------------------------------------------------------------------------
(* Numbering the blocks of a stream *)

(* A block has one call and one place in it.                               *)
LEMMA OnePlace ==
    ASSUME NEW width \in Nat, NEW c \in Nat, NEW d \in Nat, NEW j \in 1 .. width, NEW k \in 1 .. width,
           c * width + j = d * width + k
    PROVE  c = d /\ j = k
<1>1. \A x, y \in Nat : x < y => x * width + width =< y * width
  <2> SUFFICES ASSUME NEW x \in Nat, NEW y \in Nat, x < y PROVE x * width + width =< y * width
    OBVIOUS
  <2>1. PICK z \in Nat : y = x + 1 + z
    <3>1. y - x - 1 \in Nat /\ y = x + 1 + (y - x - 1)
      OBVIOUS
    <3> QED
      BY <3>1
  <2>2. y * width = x * width + width + z * width /\ z * width \in Nat /\ x * width \in Nat
    BY <2>1
  <2> QED
    BY <2>2
<1>2. c * width \in Nat /\ d * width \in Nat
  OBVIOUS
<1>3. ~(c < d)
  BY <1>1, <1>2
<1>4. ~(d < c)
  BY <1>1, <1>2
<1>5. c = d
  BY <1>3, <1>4
<1> QED
  BY <1>2, <1>5

(* The blocks of the streams are numbered by natural numbers.              *)
LEMMA WidthIs ==
    ASSUME NEW f \in Circuits, NEW s \in Role
    PROVE  Width(f, s) \in Nat /\ Base(s) \in Nat
<1>1. f.num_input \in Nat /\ f.num_output \in Nat /\ NumAnds(f) \in Nat
  BY CircuitIs, AndsCounted
<1> QED
  BY <1>1 DEF Width, Base, Role

(* The places of a call follow one another, and a call the one before.     *)
LEMMA Positions ==
    ASSUME NEW f \in Circuits, NEW s \in Role
    PROVE  /\ \A c \in 1 .. NumCalls + 1 : \A j \in Nat :
                Position(f, s, c, j) \in Nat /\ Position(f, s, c, j) >= Base(s) + j
           /\ \A c \in 1 .. NumCalls + 1 : \A off, j \in Nat :
                Position(f, s, c, off + j) = Position(f, s, c, off) + j
           /\ \A c \in 1 .. NumCalls : Position(f, s, c, Width(f, s)) = Position(f, s, c + 1, 0)
           /\ \A c, d \in 1 .. NumCalls : \A j, k \in 1 .. Width(f, s) :
                Position(f, s, c, j) = Position(f, s, d, k) => c = d /\ j = k
           /\ Position(f, s, 1, 0) = Base(s)
<1> DEFINE base == Base(s)
           width == Width(f, s)
           pos(c, j) == base + (c - 1) * width + j
<1>1. NumCalls \in Nat /\ base \in Nat /\ width \in Nat
  BY GarbleAssumption, WidthIs
<1>2. \A c, j : Position(f, s, c, j) = pos(c, j)
  BY DEF Position
<1> HIDE DEF base, width
<1>3. \A c \in 1 .. NumCalls + 1 : c - 1 \in Nat /\ (c - 1) * width \in Nat
  <2>1. \A x, y \in Nat : x * y \in Nat
    OBVIOUS
  <2> QED
    BY <1>1, <2>1
<1>4. ASSUME NEW c \in 1 .. NumCalls PROVE pos(c, width) = pos(c + 1, 0)
  <2>1. c \in Nat /\ (c - 1) * width + width = c * width /\ c + 1 - 1 = c /\ c * width \in Nat
        /\ (c - 1) * width \in Nat
    BY <1>1, <1>3
  <2> QED
    BY <1>1, <2>1
<1>5. ASSUME NEW c \in 1 .. NumCalls, NEW d \in 1 .. NumCalls, NEW j \in 1 .. width, NEW k \in 1 .. width,
             pos(c, j) = pos(d, k)
      PROVE  c = d /\ j = k
  <2>1. c - 1 \in Nat /\ d - 1 \in Nat /\ c \in Int /\ d \in Int
    BY <1>1
  <2> DEFINE x == (c - 1) * width
             y == (d - 1) * width
  <2>2. x \in Nat /\ y \in Nat
    BY <1>3, <1>1
  <2>3. base + x + j = base + y + k
    BY <1>5
  <2>4. x + j = y + k
    <3> HIDE DEF x, y
    <3> QED
      BY <1>1, <2>2, <2>3
  <2>5. c - 1 = d - 1 /\ j = k
    BY <1>1, <2>1, <2>4, OnePlace
  <2> QED
    BY <2>1, <2>5
<1>6. ASSUME NEW c \in 1 .. NumCalls + 1
      PROVE  /\ \A j \in Nat : pos(c, j) \in Nat /\ pos(c, j) >= base + j
             /\ \A off, j \in Nat : pos(c, off + j) = pos(c, off) + j
  <2> DEFINE x == (c - 1) * width
  <2>1. x \in Nat
    BY <1>3
  <2>2. \A k : pos(c, k) = base + x + k
    OBVIOUS
  <2> HIDE DEF x, pos
  <2> QED
    BY <1>1, <2>1, <2>2
<1>7. pos(1, 0) = base
  BY <1>1
<1>8. /\ \A c \in 1 .. NumCalls + 1 : \A j \in Nat : Position(f, s, c, j) \in Nat /\ Position(f, s, c, j) >= base + j
      /\ \A c \in 1 .. NumCalls + 1 : \A off, j \in Nat :
           Position(f, s, c, off + j) = Position(f, s, c, off) + j
  <2>1. ASSUME NEW c \in 1 .. NumCalls + 1, NEW j \in Nat
        PROVE  Position(f, s, c, j) \in Nat /\ Position(f, s, c, j) >= base + j
    <3>1. pos(c, j) \in Nat /\ pos(c, j) >= base + j
      BY <1>6
    <3> QED
      BY <1>2, <3>1
  <2>2. ASSUME NEW c \in 1 .. NumCalls + 1, NEW off \in Nat, NEW j \in Nat
        PROVE  Position(f, s, c, off + j) = Position(f, s, c, off) + j
    <3>1. pos(c, off + j) = pos(c, off) + j
      BY <1>6
    <3> QED
      BY <1>2, <3>1
  <2> QED
    BY <2>1, <2>2
<1> HIDE DEF pos
<1>9. \A c, d \in 1 .. NumCalls : \A j, k \in 1 .. width :
         Position(f, s, c, j) = Position(f, s, d, k) => c = d /\ j = k
  BY <1>2, <1>5
<1>10. (\A c \in 1 .. NumCalls : Position(f, s, c, width) = Position(f, s, c + 1, 0)) /\ Position(f, s, 1, 0) = base
  BY <1>2, <1>4, <1>7
<1> QED
  BY <1>8, <1>9, <1>10 DEF base, width

(* What is taken off is what was put in at that place.                     *)
LEMMA CarriesLess ==
    ASSUME NEW f \in Circuits, NEW s \in Role, NEW got, NEW rest, IsSeq(got), IsSeq(rest),
           NEW from \in Nat, NEW upto \in Nat, Carries(f, s, got \o rest, from, upto),
           s = "g1" => from + Len(got) # 0
    PROVE  /\ Carries(f, s, rest, from + Len(got), upto)
           /\ from + Len(got) \in Nat /\ from + Len(got) =< upto
           /\ \A c \in 1 .. NumCalls : \A off \in Nat :
                from = Position(f, s, c, off) /\ off + Len(got) =< Width(f, s) =>
                    \A j \in 1 .. Len(got) : got[j] = Words(f, s, c)[off + j]
           /\ s = "g1" /\ from = 0 /\ Len(got) = 3 => \A j \in 1 .. 3 : got[j] = Opening[j]
<1> DEFINE m == Len(got)
           p == Len(rest)
           all == got \o rest
           P(c, j) == Position(f, s, c, j)
           W(c, j) == Words(f, s, c)[j]
           width == Width(f, s)
<1>1. /\ m \in Nat /\ p \in Nat /\ Len(all) = m + p
      /\ \A j \in 1 .. m : all[j] = got[j]
      /\ \A j \in 1 .. p : all[m + j] = rest[j]
  BY ConcatIs DEF IsSeq
<1>2. Len(all) = upto - from
  BY DEF Carries
<1>3. \A c \in 1 .. NumCalls : \A j \in 1 .. width :
         P(c, j) \in from + 1 .. upto => all[P(c, j) - from] = W(c, j)
  BY DEF Carries
<1>4. s = "g1" /\ from = 0 /\ upto # 0 => \A j \in 1 .. 3 : all[j] = Opening[j]
  BY DEF Carries
<1>5. NumCalls \in Nat /\ width \in Nat
      /\ \A c \in 1 .. NumCalls + 1 : \A off, j \in Nat : P(c, off + j) = P(c, off) + j
  BY GarbleAssumption, WidthIs, Positions
<1> HIDE DEF m, p, all, P, W, width
<1>6. p = upto - (from + m) /\ from + m \in Nat /\ from + m =< upto
  BY <1>1, <1>2
<1>7. ASSUME NEW c \in 1 .. NumCalls, NEW j \in 1 .. width, P(c, j) \in from + m + 1 .. upto
      PROVE  rest[P(c, j) - (from + m)] = W(c, j)
  <2> DEFINE n == P(c, j)
  <2>1. n \in from + m + 1 .. upto
    BY <1>7
  <2> HIDE DEF n
  <2>2. n \in from + 1 .. upto /\ n - (from + m) \in 1 .. p /\ n - from = m + (n - (from + m))
    <3>1. n \in Int /\ n >= from + m + 1 /\ n =< upto /\ m \in Nat /\ p = upto - (from + m)
      BY <1>1, <1>6, <2>1
    <3>2. n \in from + 1 .. upto
      BY <3>1
    <3>3. n - (from + m) \in 1 .. p
      BY <3>1
    <3>4. n - from = m + (n - (from + m))
      BY <3>1
    <3> QED
      BY <3>2, <3>3, <3>4
  <2>3. all[n - from] = W(c, j)
    BY <1>3, <2>2 DEF n
  <2>4. all[m + (n - (from + m))] = rest[n - (from + m)]
    BY <1>1, <2>2
  <2>5. rest[n - (from + m)] = W(c, j)
    BY <2>2, <2>3, <2>4
  <2> QED
    BY <2>5 DEF n
<1>8. ASSUME NEW c \in 1 .. NumCalls, NEW off \in Nat, from = P(c, off), off + m =< width, NEW j \in 1 .. m
      PROVE  got[j] = W(c, off + j)
  <2>1. off + j \in 1 .. width /\ c \in 1 .. NumCalls + 1 /\ j \in Nat
    BY <1>1, <1>5, <1>8
  <2>2. P(c, off + j) = from + j
    BY <1>5, <1>8, <2>1
  <2>3. from + j \in from + 1 .. upto /\ from + j - from = j
    BY <1>1, <1>6
  <2>4. all[j] = W(c, off + j)
    BY <1>3, <2>1, <2>2, <2>3
  <2> QED
    BY <1>1, <2>4
<1>9. s = "g1" /\ from = 0 /\ m = 3 => \A j \in 1 .. 3 : got[j] = Opening[j]
  <2>1. m = 3 => upto # 0
    BY <1>1, <1>6
  <2> QED
    BY <1>1, <1>4, <2>1
<1>10. Carries(f, s, rest, from + m, upto)
  <2>1. s = "g1" => from + m # 0
    BY DEF m
  <2> DEFINE k == from + m
  <2>2. \A c \in 1 .. NumCalls : \A j \in 1 .. width :
           P(c, j) \in k + 1 .. upto => rest[P(c, j) - k] = W(c, j)
    BY <1>7
  <2>3. Len(rest) = upto - k
    BY <1>6 DEF p
  <2>4. s = "g1" => k # 0
    BY <2>1
  <2> HIDE DEF k
  <2>5. Carries(f, s, rest, k, upto)
    BY <2>2, <2>3, <2>4 DEF Carries, P, W, width
  <2> QED
    BY <2>5 DEF k
<1>11. \A c \in 1 .. NumCalls : \A off \in Nat :
          from = P(c, off) /\ off + m =< width => \A j \in 1 .. m : got[j] = W(c, off + j)
  BY <1>8
<1> QED
  BY <1>6, <1>9, <1>10, <1>11 DEF m, P, W, width

(* What is sent next.                                                      *)
LEMMA CarriesMore ==
    ASSUME NEW f \in Circuits, NEW s \in Role, NEW blocks, NEW more, IsSeq(blocks), IsSeq(more),
           NEW from \in Nat, NEW upto \in Nat, Carries(f, s, blocks, from, upto),
           NEW d \in 1 .. NumCalls, NEW off \in Nat,
           upto = Position(f, s, d, off), off + Len(more) =< Width(f, s),
           \A j \in 1 .. Len(more) : more[j] = Words(f, s, d)[off + j]
    PROVE  Carries(f, s, blocks \o more, from, upto + Len(more))
<1> DEFINE m == Len(blocks)
           p == Len(more)
           all == blocks \o more
           P(c, j) == Position(f, s, c, j)
           W(c, j) == Words(f, s, c)[j]
           width == Width(f, s)
<1>1. /\ m \in Nat /\ p \in Nat /\ Len(all) = m + p
      /\ \A j \in 1 .. m : all[j] = blocks[j]
      /\ \A j \in 1 .. p : all[m + j] = more[j]
  <2>1. m \in Nat /\ p \in Nat
    BY DEF IsSeq
  <2> QED
    BY <2>1, ConcatIs
<1>2. m = upto - from
  BY DEF Carries
<1>3. \A c \in 1 .. NumCalls : \A j \in 1 .. width :
         P(c, j) \in from + 1 .. upto => blocks[P(c, j) - from] = W(c, j)
  BY DEF Carries
<1>4. off + p =< width /\ upto = P(d, off) /\ \A j \in 1 .. p : more[j] = W(d, off + j)
  OBVIOUS
<1>5. /\ NumCalls \in Nat /\ width \in Nat
      /\ \A c \in 1 .. NumCalls + 1 : \A k, j \in Nat : P(c, k + j) = P(c, k) + j
      /\ \A x, y \in 1 .. NumCalls : \A k, l \in 1 .. width : P(x, k) = P(y, l) => x = y /\ k = l
  BY GarbleAssumption, WidthIs, Positions
<1>6. s = "g1" /\ from = 0 => \A j \in 1 .. 3 : j =< m /\ blocks[j] = Opening[j]
  <2>1. s = "g1" => upto >= 3
    <3>1. d \in 1 .. NumCalls + 1
      BY <1>5
    <3>2. upto \in Nat /\ upto >= Base(s) + off
      BY <3>1, Positions
    <3> QED
      BY <3>2 DEF Base
  <2>2. s = "g1" /\ from = 0 => m >= 3 /\ upto # 0
    BY <1>2, <2>1
  <2> QED
    BY <2>2, <1>1 DEF Carries
<1> HIDE DEF m, p, all, P, W, width
<1>7. Len(all) = upto + p - from
  BY <1>1, <1>2
<1>8. ASSUME NEW c \in 1 .. NumCalls, NEW j \in 1 .. width, P(c, j) \in from + 1 .. upto + p
      PROVE  all[P(c, j) - from] = W(c, j)
  <2> DEFINE n == P(c, j)
  <2>0. n \in from + 1 .. upto + p
    BY <1>8
  <2>1. CASE n =< upto
    <3>1. n - from \in 1 .. m /\ n \in from + 1 .. upto
      <4> HIDE DEF n
      <4> QED
        BY <1>1, <1>2, <2>0, <2>1
    <3>2. blocks[n - from] = W(c, j)
      BY <1>3, <3>1
    <3>3. all[n - from] = blocks[n - from]
      BY <1>1, <3>1
    <3> QED
      BY <3>2, <3>3
  <2>2. CASE upto < n
    <3>1. PICK i \in 1 .. p : n = upto + i /\ n - from = m + i
      <4> HIDE DEF n
      <4> DEFINE i == n - upto
      <4>1. p \in Nat /\ m = upto - from /\ n \in Int /\ n =< upto + p
        BY <1>1, <1>2, <2>0
      <4>2. i \in 1 .. p
        BY <2>2, <4>1
      <4>3. n = upto + i
        BY <4>1
      <4>4. n - from = m + i
        BY <4>1
      <4> QED
        BY <4>2, <4>3, <4>4
    <3>2. off + i \in 1 .. width /\ i \in Nat /\ d \in 1 .. NumCalls + 1
      BY <1>1, <1>4, <1>5
    <3>3. P(d, off + i) = upto + i
      BY <1>4, <1>5, <3>2
    <3>4. P(c, j) = P(d, off + i)
      BY <3>1, <3>3
    <3>5. c = d /\ j = off + i
      BY <1>5, <3>2, <3>4
    <3>6. all[m + i] = more[i] /\ more[i] = W(d, off + i)
      BY <1>1, <1>4
    <3> QED
      BY <3>1, <3>5, <3>6
  <2> QED
    BY <2>0, <2>1, <2>2
<1>9. s = "g1" /\ from = 0 => \A j \in 1 .. 3 : all[j] = Opening[j]
  BY <1>1, <1>6
<1>10. ASSUME NEW u, u = upto + p PROVE Carries(f, s, all, from, u)
  <2>1. Len(all) = u - from
    <3>1. p \in Nat /\ m \in Nat /\ Len(all) = m + p
      BY <1>1
    <3> QED
      BY <1>2, <1>10, <3>1
  <2>2. \A c \in 1 .. NumCalls : \A j \in 1 .. width :
           P(c, j) \in from + 1 .. u => all[P(c, j) - from] = W(c, j)
    BY <1>8, <1>10
  <2> QED
    BY <1>9, <2>1, <2>2 DEF Carries, P, W, width
<1> QED
  BY <1>10 DEF all, p

(* The opening of party 3's stream, before the first call.                 *)
LEMMA CarriesOpening ==
    ASSUME NEW f \in Circuits, NEW more, Len(more) = 3, \A j \in 1 .. 3 : more[j] = Opening[j]
    PROVE  Carries(f, "g1", more, 0, 3)
<1>1. ASSUME NEW c \in 1 .. NumCalls, NEW j \in 1 .. Width(f, "g1")
      PROVE  Position(f, "g1", c, j) \notin 0 + 1 .. 3
  <2>1. c \in 1 .. NumCalls + 1 /\ j \in Nat /\ j > 0 /\ "g1" \in Role
    BY GarbleAssumption DEF Role
  <2>2. Position(f, "g1", c, j) \in Nat /\ Position(f, "g1", c, j) >= Base("g1") + j
    BY <2>1, Positions
  <2>3. Base("g1") = 3
    BY DEF Base
  <2> QED
    BY <2>1, <2>2, <2>3
<1>2. Len(more) = 3 - 0
  OBVIOUS
<1> QED
  BY <1>1, <1>2 DEF Carries

(* A stream with nothing in it.                                            *)
LEMMA CarriesNothing ==
    ASSUME NEW f, NEW s, NEW blocks, NEW n \in Nat, Len(blocks) = 0
    PROVE  Carries(f, s, blocks, n, n)
<1>1. n + 1 .. n = {} /\ n - n = 0
  OBVIOUS
<1> QED
  BY <1>1 DEF Carries

-----------------------------------------------------------------------------
(* The wires *)

(* One gate of a garbler, or of the plain evaluation.                      *)
AfterGate(f, plain, c, k, w) ==
    IF plain THEN PlainGate(w, f.gates[k]) ELSE ZeroGate(f, c, k, w)
IsRun(f, plain, c, a, n, s) ==
    s = [k \in 0 .. n |-> IF k = 0 THEN a ELSE AfterGate(f, plain, c, k, s[k - 1])]

(* The wires after every gate are defined, one gate after the other.       *)
LEMMA WiresExist ==
    ASSUME NEW n \in Nat, NEW f, NEW plain, NEW c, NEW a
    PROVE  \E s : IsRun(f, plain, c, a, n, s)
<1> DEFINE IsUpto(k, s) == s = [i \in 0 .. k |-> IF i = 0 THEN a ELSE AfterGate(f, plain, c, i, s[i - 1])]
           T == {k \in 0 .. n : \E s : IsUpto(k, s)}
<1>1. 0 \in T
  <2> DEFINE t == [i \in 0 .. 0 |-> a]
  <2>1. IsUpto(0, t)
    OBVIOUS
  <2> HIDE DEF t, IsUpto
  <2> QED
    BY <2>1
<1>2. ASSUME NEW k \in 1 .. n, k - 1 \in T PROVE k \in T
  <2>1. PICK s : IsUpto(k - 1, s)
    BY <1>2
  <2> DEFINE t == [i \in 0 .. k |-> IF i = k THEN AfterGate(f, plain, c, k, s[k - 1]) ELSE s[i]]
  <2>2. ASSUME NEW i \in 0 .. k PROVE t[i] = IF i = 0 THEN a ELSE AfterGate(f, plain, c, i, t[i - 1])
    <3>1. CASE i = 0
      BY <2>1, <3>1
    <3>2. CASE i # 0
      <4>1. i - 1 \in 0 .. k - 1 /\ t[i - 1] = s[i - 1]
        BY <3>2
      <4>2. CASE i = k
        <5>1. t[k] = AfterGate(f, plain, c, k, s[k - 1])
          OBVIOUS
        <5> HIDE DEF t
        <5> QED
          BY <3>2, <4>1, <4>2, <5>1
      <4>3. CASE i # k
        <5>1. i \in 0 .. k - 1 /\ t[i] = s[i]
          BY <4>3
        <5>2. s[i] = AfterGate(f, plain, c, i, s[i - 1])
          BY <2>1, <3>2, <5>1
        <5> HIDE DEF t
        <5> QED
          BY <3>2, <4>1, <5>1, <5>2
      <4> QED
        BY <4>2, <4>3
    <3> QED
      BY <3>1, <3>2
  <2>3. t = [i \in 0 .. k |-> t[i]]
    OBVIOUS
  <2> HIDE DEF t
  <2>4. IsUpto(k, t)
    BY <2>2, <2>3
  <2> HIDE DEF IsUpto
  <2> QED
    BY <2>4
<1> HIDE DEF T
<1>3. \A i \in 0 .. n : i \in T
  BY <1>1, <1>2, InductionUpTo
<1>4. n \in T
  BY <1>3
<1> QED
  BY <1>4 DEF T, IsRun

(* The zero keys of a call, and the values.                                *)
LEMMA ZeroWiresIs ==
    ASSUME NEW f \in Circuits, NEW c
    PROVE  /\ ZeroWires(f, c)[0] = InputWires(f, [i \in 1 .. f.num_input |-> InputZero(f, c, i)])
           /\ \A k \in 1 .. Len(f.gates) : ZeroWires(f, c)[k] = ZeroGate(f, c, k, ZeroWires(f, c)[k - 1])
<1> DEFINE L == Len(f.gates)
           a == InputWires(f, [i \in 1 .. f.num_input |-> InputZero(f, c, i)])
           Is(s) == s = [k \in 0 .. L |-> IF k = 0 THEN a ELSE ZeroGate(f, c, k, s[k - 1])]
<1>1. L \in Nat
  BY CircuitIs
<1>2. \E s : IsRun(f, FALSE, c, a, L, s)
  <2> HIDE DEF L, a
  <2> QED
    BY <1>1, WiresExist
<1>3. \E s : Is(s)
  <2>1. \A s : IsRun(f, FALSE, c, a, L, s) <=> Is(s)
    BY Zenon DEF IsRun, AfterGate
  <2> QED
    BY <1>2, <2>1
<1>4. ZeroWires(f, c) = CHOOSE s : Is(s)
  BY Zenon DEF ZeroWires
<1>5. Is(ZeroWires(f, c))
  <2> HIDE DEF Is
  <2> QED
    BY <1>3, <1>4
<1> DEFINE t == ZeroWires(f, c)
<1> HIDE DEF t
<1>6. \A k \in 0 .. L : t[k] = IF k = 0 THEN a ELSE ZeroGate(f, c, k, t[k - 1])
  <2>1. t = [k \in 0 .. L |-> IF k = 0 THEN a ELSE ZeroGate(f, c, k, t[k - 1])]
    BY <1>5 DEF t
  <2> HIDE DEF a
  <2> QED
    BY <2>1
<1> HIDE DEF a
<1>7. t[0] = a /\ \A k \in 1 .. L : t[k] = ZeroGate(f, c, k, t[k - 1])
  BY <1>1, <1>6
<1> QED
  BY <1>7 DEF t, a

(* The recursion of the plain values.                                      *)
LEMMA PlainWiresIs ==
    ASSUME NEW f \in Circuits, NEW c
    PROVE  /\ PlainWires(f, c)[0] = InputWires(f, [i \in 1 .. f.num_input |-> Secret(c, i)])
           /\ \A k \in 1 .. Len(f.gates) :
                PlainWires(f, c)[k] = PlainGate(PlainWires(f, c)[k - 1], f.gates[k])
<1> DEFINE L == Len(f.gates)
           a == InputWires(f, [i \in 1 .. f.num_input |-> Secret(c, i)])
           Is(s) == s = [k \in 0 .. L |-> IF k = 0 THEN a ELSE PlainGate(s[k - 1], f.gates[k])]
<1>1. L \in Nat
  BY CircuitIs
<1>2. \E s : IsRun(f, TRUE, c, a, L, s)
  <2> HIDE DEF L, a
  <2> QED
    BY <1>1, WiresExist
<1>3. \E s : Is(s)
  <2>1. \A s : IsRun(f, TRUE, c, a, L, s) <=> Is(s)
    BY Zenon DEF IsRun, AfterGate
  <2> QED
    BY <1>2, <2>1
<1>4. PlainWires(f, c) = CHOOSE s : Is(s)
  BY Zenon DEF PlainWires
<1>5. Is(PlainWires(f, c))
  <2> HIDE DEF Is
  <2> QED
    BY <1>3, <1>4
<1> DEFINE t == PlainWires(f, c)
<1> HIDE DEF t
<1>6. \A k \in 0 .. L : t[k] = IF k = 0 THEN a ELSE PlainGate(t[k - 1], f.gates[k])
  <2>1. t = [k \in 0 .. L |-> IF k = 0 THEN a ELSE PlainGate(t[k - 1], f.gates[k])]
    BY <1>5 DEF t
  <2> HIDE DEF a
  <2> QED
    BY <2>1
<1> HIDE DEF a
<1>7. t[0] = a /\ \A k \in 1 .. L : t[k] = PlainGate(t[k - 1], f.gates[k])
  BY <1>1, <1>6
<1> QED
  BY <1>7 DEF t, a

-----------------------------------------------------------------------------
(* Keys and values *)

(* A value: a polynomial without a delta.                                  *)
Strip(m) == {a \in m : ~IsDelta(a)}
IsValue(v) == IsFiniteSet(v) /\ \A m \in v : Strip(m) = m

(* Delta is one atom, which no value has.                                  *)
LEMMA DeltaIs ==
    /\ Delta = {{<<"delta", 1>>}} /\ IsDelta(<<"delta", 1>>) /\ IsFiniteSet(Delta)
    /\ \A m : Strip(m) = m => <<"delta", 1>> \notin m /\ Strip(m \cup {<<"delta", 1>>}) = m
<1>1. Delta = {{<<"delta", 1>>}} /\ IsDelta(<<"delta", 1>>)
  BY DEF Delta, Atom, IsDelta
<1>2. IsFiniteSet(Delta)
  BY <1>1, FS_Singleton
<1> QED
  BY <1>1, <1>2 DEF Strip

(* A value times delta.                                                    *)
LEMMA TimesDelta ==
    ASSUME NEW v, IsValue(v)
    PROVE  v (.) Delta = {m \cup {<<"delta", 1>>} : m \in v} /\ IsFiniteSet(v (.) Delta)
<1> DEFINE d == <<"delta", 1>>
           F(m) == Factors(v, Delta, m)
<1>1. IsFiniteSet(v) /\ IsFiniteSet(Delta) /\ Delta = {{d}}
  BY DeltaIs DEF IsValue
<1>2. \A m : m \in v (.) Delta <=> Cardinality(F(m)) % 2 = 1
  BY <1>1, ProductIs
<1>3. \A m : \A q : q \in F(m) <=> \E n \in v : q = <<n, {d}>> /\ n \cup {d} = m
  BY <1>1 DEF Factors
<1>4. \A n \in v : d \notin n
  BY DeltaIs DEF IsValue
<1>5. ASSUME NEW m PROVE m \in v (.) Delta <=> \E n \in v : m = n \cup {d}
  <2>1. CASE \E n \in v : m = n \cup {d}
    <3>1. PICK n \in v : m = n \cup {d}
      BY <2>1
    <3>2. \A n2 \in v : n2 \cup {d} = m => n2 = n
      <4>1. \A n2 \in v : (n2 \cup {d}) \ {d} = n2
        BY <1>4
      <4> QED
        BY <3>1, <4>1
    <3>3. F(m) = {<<n, {d}>>}
      BY <1>3, <3>1, <3>2
    <3> HIDE DEF F
    <3>4. Cardinality(F(m)) = 1
      BY <3>3, FS_Singleton
    <3> QED
      BY <1>2, <2>1, <3>4
  <2>2. CASE ~\E n \in v : m = n \cup {d}
    <3>1. F(m) = {}
      BY <1>3, <2>2
    <3> HIDE DEF F
    <3>2. Cardinality(F(m)) = 0
      BY <3>1, FS_EmptySet
    <3> QED
      BY <1>2, <2>2, <3>2
  <2> QED
    BY <2>1, <2>2
<1> HIDE DEF F
<1>6. v (.) Delta = {m \cup {d} : m \in v}
  BY <1>5
<1>7. IsFiniteSet(v (.) Delta)
  BY <1>1, ProductIs
<1> QED
  BY <1>6, <1>7

(* The active key of a value opens what its zero key closes.               *)
LEMMA Opening1 ==
    ASSUME NEW z, NEW v, IsValue(v)
    PROVE  LET a == z (+) (v (.) Delta)
           IN ValueOf(a, z) = v /\ Opens(a, z, Delta)
<1> DEFINE a == z (+) (v (.) Delta)
<1>1. a (+) z = v (.) Delta
  BY XorLaws
<1>2. \A m \in v : Strip(m \cup {<<"delta", 1>>}) = m
  BY DeltaIs DEF IsValue
<1> HIDE DEF a
<1>3. ValueOf(a, z) = {Strip(m) : m \in v (.) Delta}
  BY <1>1 DEF ValueOf, Strip
<1>4. ValueOf(a, z) = v
  <2>1. \A k : k \in v (.) Delta <=> \E m \in v : k = m \cup {<<"delta", 1>>}
    BY TimesDelta
  <2>2. ASSUME NEW k \in v PROVE k \in ValueOf(a, z)
    <3>1. k \cup {<<"delta", 1>>} \in v (.) Delta /\ Strip(k \cup {<<"delta", 1>>}) = k
      BY <1>2, <2>1
    <3> QED
      BY <1>3, <3>1
  <2>3. ASSUME NEW k \in ValueOf(a, z) PROVE k \in v
    <3>1. PICK m \in v (.) Delta : k = Strip(m)
      BY <1>3
    <3> QED
      BY <1>2, <2>1, <3>1
  <2> QED
    BY <2>2, <2>3
<1> QED
  BY <1>4 DEF Opens, a

(* The values are closed under the gates.                                  *)
LEMMA Values ==
    /\ IsValue(Zero) /\ IsValue(One)
    /\ \A c, loc, i : IsValue(Share(c, loc, i))
    /\ \A x, y : IsValue(x) /\ IsValue(y) => IsValue(x (+) y) /\ IsValue(x (.) y)
<1>1. IsValue(Zero)
  BY FS_EmptySet DEF IsValue, Zero
<1>2. IsValue(One)
  BY FS_Singleton DEF IsValue, One, Strip
<1>3. ASSUME NEW c, NEW loc, NEW i PROVE IsValue(Share(c, loc, i))
  <2>1. ~IsDelta(<<"share", c, loc, i>>)
    BY DEF IsDelta
  <2>2. Share(c, loc, i) = {{<<"share", c, loc, i>>}}
    BY DEF Share, Atom
  <2>3. IsFiniteSet(Share(c, loc, i))
    <3>1. \A m : IsFiniteSet({m})
      BY FS_Singleton
    <3> QED
      BY <2>2, <3>1
  <2> QED
    BY <2>1, <2>2, <2>3 DEF IsValue, Strip
<1>4. ASSUME NEW x, NEW y, IsValue(x), IsValue(y) PROVE IsValue(x (+) y) /\ IsValue(x (.) y)
  <2>1. IsFiniteSet(x) /\ IsFiniteSet(y)
    BY <1>4 DEF IsValue
  <2>2. IsFiniteSet(x (+) y) /\ IsFiniteSet(x (.) y)
    BY <2>1, XorFinite, ProductIs
  <2>3. \A m \in x (+) y : Strip(m) = m
    BY <1>4 DEF IsValue, (+)
  <2>4. \A m \in x (.) y : \E m1 \in x, m2 \in y : m = m1 \cup m2
    BY DEF (.)
  <2>5. \A m1 \in x, m2 \in y : Strip(m1 \cup m2) = m1 \cup m2
    BY <1>4 DEF IsValue, Strip
  <2>6. \A m \in x (.) y : Strip(m) = m
    BY <2>4, <2>5
  <2> QED
    BY <2>2, <2>3, <2>6 DEF IsValue
<1> QED
  BY <1>1, <1>2, <1>3, <1>4

(* The colour of a key.                                                    *)
Alike(x, m) == {n \in x : Strip(n) = m}

(* The colour of a key: the parity of the monomials alike but for delta.   *)
LEMMA ColourIs ==
    ASSUME NEW x, IsFiniteSet(x)
    PROVE  \A m : /\ IsFiniteSet(Alike(x, m)) /\ Cardinality(Alike(x, m)) \in Nat
                  /\ m \in getLSB(x) <=> Cardinality(Alike(x, m)) % 2 = 1
<1> SUFFICES ASSUME NEW m
             PROVE  /\ IsFiniteSet(Alike(x, m)) /\ Cardinality(Alike(x, m)) \in Nat
                    /\ m \in getLSB(x) <=> Cardinality(Alike(x, m)) % 2 = 1
  OBVIOUS
<1>1. Alike(x, m) \in SUBSET x
  BY DEF Alike
<1>2. IsFiniteSet(Alike(x, m)) /\ Cardinality(Alike(x, m)) \in Nat
  BY <1>1, FS_Subset, FS_CardinalityType
<1>3. getLSB(x) = {k \in {Strip(n) : n \in x} : Cardinality(Alike(x, k)) % 2 = 1}
  BY DEF getLSB, Xored, Alike, Strip
<1>4. Cardinality(Alike(x, m)) % 2 = 1 => m \in {Strip(n) : n \in x}
  <2>1. Alike(x, m) = {} => Cardinality(Alike(x, m)) = 0
    BY FS_EmptySet
  <2>2. Alike(x, m) # {} => m \in {Strip(n) : n \in x}
    BY DEF Alike
  <2> QED
    BY <2>1, <2>2
<1> QED
  BY <1>2, <1>3, <1>4

(* The colour of a sum is the sum of the colours.                          *)
LEMMA ColourLinear ==
    ASSUME NEW x, NEW y, IsFiniteSet(x), IsFiniteSet(y)
    PROVE  getLSB(x (+) y) = getLSB(x) (+) getLSB(y)
<1>1. IsFiniteSet(x (+) y)
  BY XorFinite
<1>2. ASSUME NEW m PROVE m \in getLSB(x (+) y) <=> m \in getLSB(x) (+) getLSB(y)
  <2> DEFINE A == Alike(x, m)
             B == Alike(y, m)
  <2>1. IsFiniteSet(A) /\ IsFiniteSet(B) /\ Alike(x (+) y, m) = A (+) B
    BY ColourIs DEF Alike, (+)
  <2>2. /\ m \in getLSB(x) <=> Cardinality(A) % 2 = 1
        /\ m \in getLSB(y) <=> Cardinality(B) % 2 = 1
        /\ m \in getLSB(x (+) y) <=> Cardinality(A (+) B) % 2 = 1
    BY <1>1, <2>1, ColourIs
  <2> HIDE DEF A, B
  <2>3. /\ Cardinality(A) \in Nat /\ Cardinality(B) \in Nat
        /\ Cardinality(A (+) B) % 2 = (Cardinality(A) + Cardinality(B)) % 2
    BY <2>1, XorFinite
  <2>4. \A i, j \in Nat : (i + j) % 2 = 1 <=> ~(i % 2 = 1 <=> j % 2 = 1)
    OBVIOUS
  <2>5. m \in getLSB(x (+) y) <=> ~(m \in getLSB(x) <=> m \in getLSB(y))
    BY <2>2, <2>3, <2>4
  <2> QED
    BY <2>5 DEF (+)
<1> QED
  BY <1>2

(* The colour of a value times delta is the value.                         *)
LEMMA ColourOfDelta ==
    ASSUME NEW v, IsValue(v)
    PROVE  getLSB(v (.) Delta) = v
<1> DEFINE d == <<"delta", 1>>
           x == v (.) Delta
<1>1. x = {m \cup {d} : m \in v} /\ IsFiniteSet(x)
  BY TimesDelta
<1>2. \A m \in v : Strip(m \cup {d}) = m
  BY DeltaIs DEF IsValue
<1> HIDE DEF x
<1>3. ASSUME NEW m PROVE m \in getLSB(x) <=> m \in v
  <2>1. CASE m \in v
    <3>1. Alike(x, m) = {m \cup {d}}
      BY <1>1, <1>2, <2>1 DEF Alike
    <3>2. Cardinality(Alike(x, m)) = 1
      BY <3>1, FS_Singleton
    <3> QED
      BY <1>1, <2>1, <3>2, ColourIs
  <2>2. CASE m \notin v
    <3>1. Alike(x, m) = {}
      BY <1>1, <1>2, <2>2 DEF Alike
    <3>2. Cardinality(Alike(x, m)) = 0
      BY <3>1, FS_EmptySet
    <3> QED
      BY <1>1, <2>2, <3>2, ColourIs
  <2> QED
    BY <2>1, <2>2
<1> QED
  BY <1>3 DEF x

-----------------------------------------------------------------------------
(* The wires of a call *)

IsWires(f, w) == w = [x \in 1 .. f.num_wire |-> w[x]]
ZeroKeys(f, w) == IsWires(f, w) /\ \A x \in 1 .. f.num_wire : IsFiniteSet(w[x])
PlainValues(f, w) == IsWires(f, w) /\ \A x \in 1 .. f.num_wire : IsValue(w[x])

(* An atom is a finite polynomial.                                         *)
LEMMA AtomFinite == \A a : IsFiniteSet(Atom(a))
<1>1. \A m : IsFiniteSet({m})
  BY FS_Singleton
<1> QED
  BY <1>1 DEF Atom

(* The keys of the inputs.                                                 *)
LEMMA InputKeys ==
    ASSUME NEW f, NEW c, NEW i
    PROVE  /\ IsFiniteSet(InputZero(f, c, i)) /\ IsValue(Secret(c, i))
           /\ \A loc : IsFiniteSet(KeyOf(f, c, loc, i)) /\ IsFiniteSet(Active(f, c, loc, i))
           /\ Active(f, c, G1Eval, i) (+) Active(f, c, EvalG2, i) =
                InputZero(f, c, i) (+) (Secret(c, i) (.) Delta)
<1> DEFINE K(loc) == KeyOf(f, c, loc, i)
           S(loc) == Share(c, loc, i)
           D(loc) == Share(c, loc, i) (.) Delta
<1>1. \A loc : IsFiniteSet(K(loc))
  BY AtomFinite DEF KeyOf, Sample
<1>2. \A loc : IsValue(S(loc)) /\ IsFiniteSet(S(loc)) /\ IsFiniteSet(D(loc))
  <2>1. \A loc : IsValue(S(loc))
    BY Values
  <2> QED
    BY <2>1, TimesDelta DEF IsValue
<1>3. /\ InputZero(f, c, i) = K(G1Eval) (+) K(EvalG2) (+) D(G1G2)
      /\ Secret(c, i) = S(G1Eval) (+) S(EvalG2) (+) S(G1G2)
      /\ \A loc : Active(f, c, loc, i) = K(loc) (+) D(loc)
  BY DEF InputZero, Secret, Active
<1>4. D(G1Eval) = S(G1Eval) (.) Delta /\ D(EvalG2) = S(EvalG2) (.) Delta /\ D(G1G2) = S(G1G2) (.) Delta
  OBVIOUS
<1> HIDE DEF K, S, D
<1>5. IsValue(S(G1Eval) (+) S(EvalG2)) /\ IsValue(Secret(c, i)) /\ IsFiniteSet(S(G1Eval) (+) S(EvalG2))
  <2>1. IsValue(S(G1Eval) (+) S(EvalG2))
    BY <1>2, Values
  <2> QED
    BY <1>2, <1>3, <2>1, Values DEF IsValue
<1>6. Secret(c, i) (.) Delta = D(G1Eval) (+) D(EvalG2) (+) D(G1G2)
  <2>1. IsFiniteSet(Delta)
    BY DeltaIs
  <2>2. (S(G1Eval) (+) S(EvalG2)) (.) Delta = D(G1Eval) (+) D(EvalG2)
    BY <1>2, <1>4, <2>1, ProductDistributes
  <2>3. ((S(G1Eval) (+) S(EvalG2)) (+) S(G1G2)) (.) Delta =
          ((S(G1Eval) (+) S(EvalG2)) (.) Delta) (+) (S(G1G2) (.) Delta)
    BY <1>2, <1>5, <2>1, ProductDistributes
  <2> QED
    BY <1>3, <1>4, <2>2, <2>3
<1>7. IsFiniteSet(InputZero(f, c, i)) /\ \A loc : IsFiniteSet(Active(f, c, loc, i))
  <2>1. IsFiniteSet(K(G1Eval) (+) K(EvalG2))
    BY <1>1, XorFinite
  <2> QED
    BY <1>1, <1>2, <1>3, <2>1, XorFinite
<1>8. \A a, b, x, y, z : (a (+) x) (+) (b (+) y) = ((a (+) b) (+) z) (+) ((x (+) y) (+) z)
  BY DEF (+)
<1>9. Active(f, c, G1Eval, i) (+) Active(f, c, EvalG2, i) = InputZero(f, c, i) (+) (Secret(c, i) (.) Delta)
  BY <1>3, <1>6, <1>8
<1> QED
  BY <1>1, <1>5, <1>7, <1>9 DEF K

(* What a gate without a table does to keys and values.                    *)
AreActive(f, a, z, v) == \A w \in 1 .. f.num_wire : a[w] = z[w] (+) (v[w] (.) Delta)

(* A gate without a table keeps keys active.                               *)
LEMMA FreeRight ==
    ASSUME NEW f, NEW g \in GateOn(f.num_wire), g.type # "AND", NEW z, NEW v,
           ZeroKeys(f, z), PlainValues(f, v), NEW a, AreActive(f, a, z, v)
    PROVE  /\ IsFiniteSet(FreeKey(z, g, OneKey)) /\ IsValue(PlainGate(v, g)[g.out])
           /\ FreeKey(a, g, Sample("garblers", 4)) =
                FreeKey(z, g, OneKey) (+) (PlainGate(v, g)[g.out] (.) Delta)
<1> DEFINE n == f.num_wire
           x == g.in1
           y == g.in2
           r == PlainGate(v, g)[g.out]
           s == Sample("garblers", 4)
<1>1. g.type \in {"XOR", "INV", "EQW"} /\ x \in 1 .. n /\ y \in 1 .. n /\ g.out \in 1 .. n
  BY DEF GateOn
<1>2. /\ IsFiniteSet(z[x]) /\ IsFiniteSet(z[y]) /\ IsValue(v[x]) /\ IsValue(v[y])
      /\ IsFiniteSet(v[x]) /\ IsFiniteSet(v[y])
  BY <1>1 DEF ZeroKeys, PlainValues, IsValue
<1>3. a[x] = z[x] (+) (v[x] (.) Delta) /\ a[y] = z[y] (+) (v[y] (.) Delta)
  BY <1>1 DEF AreActive
<1>4. g.out \in DOMAIN v
  BY <1>1 DEF PlainValues, IsWires
<1>5. r = CASE g.type = "AND" -> v[x] (.) v[y]
            [] g.type = "XOR" -> v[x] (+) v[y]
            [] g.type = "INV" -> v[x] (+) One
            [] g.type = "EQW" -> v[x]
  BY <1>4 DEF PlainGate
<1>6. IsFiniteSet(Delta) /\ IsFiniteSet(s) /\ OneKey = s (+) Delta
  BY DeltaIs, AtomFinite DEF OneKey, Sample
<1> HIDE DEF n, x, y, r, s
<1>7. CASE g.type = "XOR"
  <2>1. r = v[x] (+) v[y] /\ FreeKey(a, g, s) = a[x] (+) a[y] /\ FreeKey(z, g, OneKey) = z[x] (+) z[y]
    BY <1>5, <1>7 DEF FreeKey, x, y
  <2>2. IsValue(r) /\ IsFiniteSet(z[x] (+) z[y])
    BY <1>2, <2>1, Values, XorFinite
  <2>3. r (.) Delta = (v[x] (.) Delta) (+) (v[y] (.) Delta)
    BY <1>2, <1>6, <2>1, ProductDistributes
  <2>4. \A b, c, d, e : (b (+) c) (+) (d (+) e) = (b (+) d) (+) (c (+) e)
    BY DEF (+)
  <2> QED
    BY <1>3, <2>1, <2>2, <2>3, <2>4 DEF r, s
<1>8. CASE g.type = "INV"
  <2>1. r = v[x] (+) One /\ FreeKey(a, g, s) = a[x] (+) s /\ FreeKey(z, g, OneKey) = z[x] (+) OneKey
    BY <1>5, <1>8 DEF FreeKey, x
  <2>2. IsValue(r) /\ IsFiniteSet(One) /\ IsFiniteSet(OneKey) /\ IsFiniteSet(z[x] (+) OneKey)
    <3>1. IsValue(One)
      BY Values
    <3>2. IsFiniteSet(One) /\ IsValue(r)
      BY <1>2, <2>1, <3>1, Values DEF IsValue
    <3>3. IsFiniteSet(OneKey)
      BY <1>6, XorFinite
    <3> QED
      BY <1>2, <3>2, <3>3, XorFinite
  <2>3. One (.) Delta = Delta
    <3>1. One (.) Delta = {m \cup {<<"delta", 1>>} : m \in One}
      BY Values, TimesDelta
    <3>2. One = {{}} /\ Delta = {{<<"delta", 1>>}}
      BY DeltaIs DEF One
    <3> QED
      BY <3>1, <3>2
  <2>4. r (.) Delta = (v[x] (.) Delta) (+) Delta
    BY <1>2, <1>6, <2>1, <2>2, <2>3, ProductDistributes
  <2>5. \A b, c, d, e : (b (+) c) (+) d = (b (+) (d (+) e)) (+) (c (+) e)
    BY DEF (+)
  <2> QED
    BY <1>3, <1>6, <2>1, <2>2, <2>4, <2>5 DEF r, s
<1>9. CASE g.type = "EQW"
  <2>1. r = v[x] /\ FreeKey(a, g, s) = a[x] /\ FreeKey(z, g, OneKey) = z[x]
    BY <1>5, <1>9 DEF FreeKey, x
  <2> QED
    BY <1>2, <1>3, <2>1 DEF r, s
<1> QED
  BY <1>1, <1>7, <1>8, <1>9

(* A gate without a table keeps keys finite and values free of delta.      *)
LEMMA FreeTyped ==
    ASSUME NEW f, NEW g \in GateOn(f.num_wire), g.type # "AND", NEW z, NEW v,
           ZeroKeys(f, z), PlainValues(f, v)
    PROVE  IsFiniteSet(FreeKey(z, g, OneKey)) /\ IsValue(PlainGate(v, g)[g.out])
<1> DEFINE a == [w \in 1 .. f.num_wire |-> z[w] (+) (v[w] (.) Delta)]
<1>1. AreActive(f, a, z, v)
  BY DEF AreActive
<1> HIDE DEF a
<1> QED
  BY <1>1, FreeRight

(* What an AND gate does to the evaluator's keys, with its own table.      *)
LEMMA AndRight ==
    ASSUME NEW z1, NEW z2, NEW v1, NEW v2, IsValue(v1), IsValue(v2), NEW gid, NEW g,
           g = [S |-> Start, gid |-> gid, delta |-> Delta, a |-> z1, b |-> z2]
    PROVE  EvaluateAnd(z1 (+) (v1 (.) Delta), z2 (+) (v2 (.) Delta),
                       <<TableBlock(1, g), TableBlock(2, g)>>, Start, gid)
             = OutputKey(g) (+) ((v1 (.) v2) (.) Delta)
<1> DEFINE a == z1 (+) (v1 (.) Delta)
           b == z2 (+) (v2 (.) Delta)
           table == <<TableBlock(1, g), TableBlock(2, g)>>
           e == <<"table", 1, g>>
           block == Opened(table[1])
<1>1. block = e
  <2>1. table[1] = {{e}}
    BY DEF TableBlock, Atom
  <2>2. UNION {{e}} = {e}
    OBVIOUS
  <2>3. UNION table[1] = {e}
    BY <2>1, <2>2
  <2> HIDE DEF table, e
  <2>4. UNION table[1] # {} /\ \A x \in UNION table[1] : x = e
    BY <2>3
  <2>5. e \in UNION table[1]
    BY <2>3
  <2> QED
    BY <2>4, <2>5 DEF Opened
<1>2. block[1] = "table" /\ block[3] = g
  BY <1>1
<1>3. g.S = Start /\ g.gid = gid /\ g.delta = Delta /\ g.a = z1 /\ g.b = z2
  OBVIOUS
<1>4. ValueOf(a, z1) = v1 /\ Opens(a, z1, Delta) /\ ValueOf(b, z2) = v2 /\ Opens(b, z2, Delta)
  BY Opening1
<1>5. table = <<TableBlock(1, g), TableBlock(2, g)>>
  OBVIOUS
<1> HIDE DEF a, b, table, block
<1>6. EvaluateAnd(a, b, table, Start, gid) =
        OutputKey(g) (+) (ValueOf(a, z1) (.) ValueOf(b, z2) (.) Delta)
  BY <1>2, <1>3, <1>4, <1>5 DEF EvaluateAnd, block
<1>7. EvaluateAnd(a, b, table, Start, gid) = OutputKey(g) (+) ((v1 (.) v2) (.) Delta)
  BY <1>4, <1>6
<1> QED
  BY <1>7 DEF a, b, table

(* All zero keys are finite, and all values free of deltas.                *)
LEMMA WiresTyped ==
    ASSUME NEW f \in Circuits, NEW c
    PROVE  \A k \in 0 .. Len(f.gates) :
             /\ ZeroKeys(f, ZeroWires(f, c)[k]) /\ PlainValues(f, PlainWires(f, c)[k])
<1> DEFINE L == Len(f.gates)
           n == f.num_wire
           Z(k) == ZeroWires(f, c)[k]
           V(k) == PlainWires(f, c)[k]
           T == {k \in 0 .. L : ZeroKeys(f, Z(k)) /\ PlainValues(f, V(k))}
<1>1. L \in Nat /\ n \in Nat
  BY CircuitIs
<1>2. 0 \in T
  <2>1. Z(0) = InputWires(f, [i \in 1 .. f.num_input |-> InputZero(f, c, i)])
        /\ V(0) = InputWires(f, [i \in 1 .. f.num_input |-> Secret(c, i)])
    BY ZeroWiresIs, PlainWiresIs
  <2>2. IsFiniteSet(Zero) /\ IsValue(Zero)
    BY Values DEF IsValue
  <2>3. \A i : IsFiniteSet(InputZero(f, c, i)) /\ IsValue(Secret(c, i))
    BY InputKeys
  <2> HIDE DEF Z, V
  <2>4. ZeroKeys(f, Z(0)) /\ PlainValues(f, V(0))
    BY <2>1, <2>2, <2>3 DEF ZeroKeys, PlainValues, IsWires, InputWires
  <2> QED
    BY <1>1, <2>4
<1>3. ASSUME NEW k \in 1 .. L, k - 1 \in T PROVE k \in T
  <2> DEFINE z == Z(k - 1)
             v == V(k - 1)
             g == f.gates[k]
  <2>1. g \in GateOn(n) /\ k - 1 \in 0 .. L /\ k \in 0 .. L
    BY <1>1, CircuitIs
  <2>2. Z(k) = ZeroGate(f, c, k, z) /\ V(k) = PlainGate(v, g)
    BY ZeroWiresIs, PlainWiresIs
  <2>3. ZeroKeys(f, z) /\ PlainValues(f, v)
    BY <1>3
  <2>4. g.in1 \in 1 .. n /\ g.in2 \in 1 .. n /\ g.out \in 1 .. n /\ g.type \in {"AND", "XOR", "INV", "EQW"}
    BY <2>1 DEF GateOn
  <2> HIDE DEF z, v, Z, V
  <2> DEFINE key == IF g.type = "AND" THEN OutputKey(GarblingOf(f, c, k, z)) ELSE FreeKey(z, g, OneKey)
             val == PlainGate(v, g)[g.out]
  <2>5. Z(k) = [z EXCEPT ![g.out] = key]
    BY <2>2 DEF ZeroGate
  <2>6. IsFiniteSet(key) /\ IsValue(val)
    <3>1. CASE g.type = "AND"
      <4>1. IsFiniteSet(key)
        BY <3>1, AtomFinite DEF OutputKey
      <4>2. IsValue(v[g.in1]) /\ IsValue(v[g.in2]) /\ g.out \in DOMAIN v
        BY <2>3, <2>4 DEF PlainValues, IsWires
      <4>3. val = v[g.in1] (.) v[g.in2]
        BY <3>1, <4>2 DEF PlainGate
      <4> QED
        BY <4>1, <4>2, <4>3, Values
    <3>2. CASE g.type # "AND"
      <4> HIDE DEF g
      <4>1. IsFiniteSet(FreeKey(z, g, OneKey)) /\ IsValue(PlainGate(v, g)[g.out])
        BY <2>1, <2>3, <3>2, FreeTyped
      <4> QED
        BY <3>2, <4>1
    <3> QED
      BY <3>1, <3>2
  <2>7. V(k) = [v EXCEPT ![g.out] = val]
    <3>1. \E e : V(k) = [v EXCEPT ![g.out] = e]
      BY <2>2 DEF PlainGate
    <3>2. V(k)[g.out] = val
      BY <2>2
    <3>3. g.out \in DOMAIN v
      BY <2>3, <2>4 DEF PlainValues, IsWires
    <3> HIDE DEF val
    <3> QED
      BY <3>1, <3>2, <3>3
  <2> HIDE DEF key, val
  <2>8. ZeroKeys(f, Z(k))
    BY <2>3, <2>4, <2>5, <2>6 DEF ZeroKeys, IsWires
  <2>9. PlainValues(f, V(k))
    BY <2>3, <2>4, <2>6, <2>7 DEF PlainValues, IsWires
  <2> QED
    BY <2>1, <2>8, <2>9
<1> HIDE DEF T
<1>4. \A k \in 0 .. L : k \in T
  BY <1>1, <1>2, <1>3, InductionUpTo
<1> QED
  BY <1>4 DEF T

(* The evaluator's keys of the inputs.                                     *)
LEMMA ActiveFirst ==
    ASSUME NEW f \in Circuits, NEW c, NEW keys_,
           keys_ = [i \in 1 .. f.num_input |-> ActiveWires(f, c, 0)[i]]
    PROVE  InputWires(f, keys_) = ActiveWires(f, c, 0)
<1> DEFINE Z == ZeroWires(f, c)[0]
           V == PlainWires(f, c)[0]
           A == ActiveWires(f, c, 0)
<1>1. Z = InputWires(f, [i \in 1 .. f.num_input |-> InputZero(f, c, i)])
      /\ V = InputWires(f, [i \in 1 .. f.num_input |-> Secret(c, i)])
  BY ZeroWiresIs, PlainWiresIs
<1>2. A = [w \in 1 .. f.num_wire |-> Z[w] (+) (V[w] (.) Delta)]
  BY DEF ActiveWires
<1> HIDE DEF Z, V, A
<1>3. Zero (.) Delta = Zero
  <2>1. Zero (.) Delta = {m \cup {<<"delta", 1>>} : m \in Zero}
    BY Values, TimesDelta
  <2> QED
    BY <2>1 DEF Zero
<1>4. ASSUME NEW w \in 1 .. f.num_wire, w \notin 1 .. f.num_input PROVE A[w] = Zero
  <2>1. Z[w] = Zero /\ V[w] = Zero
    BY <1>1, <1>4 DEF InputWires
  <2>2. Zero (+) Zero = Zero
    BY XorLaws
  <2> QED
    BY <1>2, <1>3, <2>1, <2>2
<1>5. ASSUME NEW w \in 1 .. f.num_input PROVE keys_[w] = A[w]
  BY DEF A
<1> QED
  BY <1>2, <1>4, <1>5 DEF InputWires, A

(* One gate of the evaluator: key is what it makes of its wires a.         *)
EvaluatesTo(a, g, garbling, gid, key) ==
    /\ g.type = "AND" => key = EvaluateAnd(a[g.in1], a[g.in2],
                                           <<TableBlock(1, garbling), TableBlock(2, garbling)>>, Start, gid)
    /\ g.type # "AND" => key = FreeKey(a, g, Sample("garblers", 4))

WithKey(a, g, key) == [a EXCEPT ![g.out] = key]

(* What the evaluator computes at a gate is active for the plain value.    *)
LEMMA ActiveNext ==
    ASSUME NEW f \in Circuits, NEW c, NEW k \in 1 .. Len(f.gates),
           NEW g, g = f.gates[k], NEW a, a = ActiveWires(f, c, k - 1),
           NEW garbling, garbling = GarblingOf(f, c, k, ZeroWires(f, c)[k - 1]), NEW key,
           EvaluatesTo(a, g, garbling, (c - 1) * NumAnds(f) + AndsTo(f, k - 1), key)
    PROVE  WithKey(a, g, key) = ActiveWires(f, c, k)
<1> DEFINE n == f.num_wire
           z == ZeroWires(f, c)[k - 1]
           v == PlainWires(f, c)[k - 1]
           z1 == ZeroWires(f, c)[k]
           v1 == PlainWires(f, c)[k]
           zk == IF g.type = "AND" THEN OutputKey(garbling) ELSE FreeKey(z, g, OneKey)
           vk == PlainGate(v, g)[g.out]
<1>1. g \in GateOn(n) /\ k - 1 \in 0 .. Len(f.gates)
  BY CircuitIs
<1>2. g.in1 \in 1 .. n /\ g.in2 \in 1 .. n /\ g.out \in 1 .. n
  BY <1>1 DEF GateOn
<1>3. ZeroKeys(f, z) /\ PlainValues(f, v)
  BY <1>1, WiresTyped
<1>4. z1 = [z EXCEPT ![g.out] = zk]
  <2>1. z1 = ZeroGate(f, c, k, z) /\ garbling = GarblingOf(f, c, k, z)
    BY ZeroWiresIs
  <2> HIDE DEF z, z1
  <2> QED
    BY <2>1 DEF ZeroGate
<1>5. v1 = PlainGate(v, g)
  BY PlainWiresIs
<1>6. a = [w \in 1 .. n |-> z[w] (+) (v[w] (.) Delta)]
      /\ ActiveWires(f, c, k) = [w \in 1 .. n |-> z1[w] (+) (v1[w] (.) Delta)]
  BY DEF ActiveWires
<1>7. garbling = [S |-> Start, gid |-> (c - 1) * NumAnds(f) + AndsTo(f, k - 1), delta |-> Delta,
                  a |-> z[g.in1], b |-> z[g.in2]]
  BY DEF GarblingOf
<1> HIDE DEF n, z, v, z1, v1
<1>8. key = zk (+) (vk (.) Delta)
  <2>1. CASE g.type = "AND"
    <3>1. IsValue(v[g.in1]) /\ IsValue(v[g.in2]) /\ g.out \in DOMAIN v
      BY <1>2, <1>3 DEF PlainValues, IsWires, n
    <3>2. vk = v[g.in1] (.) v[g.in2]
      BY <2>1, <3>1 DEF PlainGate
    <3>3. a[g.in1] = z[g.in1] (+) (v[g.in1] (.) Delta) /\ a[g.in2] = z[g.in2] (+) (v[g.in2] (.) Delta)
      BY <1>2, <1>6
    <3> DEFINE gid == (c - 1) * NumAnds(f) + AndsTo(f, k - 1)
    <3>4. garbling = [S |-> Start, gid |-> gid, delta |-> Delta, a |-> z[g.in1], b |-> z[g.in2]]
      BY <1>7
    <3>5. key = EvaluateAnd(a[g.in1], a[g.in2], <<TableBlock(1, garbling), TableBlock(2, garbling)>>, Start, gid)
      BY <2>1 DEF EvaluatesTo
    <3> HIDE DEF gid
    <3>6. EvaluateAnd(z[g.in1] (+) (v[g.in1] (.) Delta), z[g.in2] (+) (v[g.in2] (.) Delta),
                      <<TableBlock(1, garbling), TableBlock(2, garbling)>>, Start, gid)
            = OutputKey(garbling) (+) ((v[g.in1] (.) v[g.in2]) (.) Delta)
      BY <3>1, <3>4, AndRight
    <3> QED
      BY <2>1, <3>2, <3>3, <3>5, <3>6
  <2>2. CASE g.type # "AND"
    <3>1. g \in GateOn(f.num_wire) /\ AreActive(f, a, z, v)
      BY <1>1, <1>6 DEF n, AreActive
    <3>2. key = FreeKey(a, g, Sample("garblers", 4)) /\ zk = FreeKey(z, g, OneKey)
      BY <2>2 DEF EvaluatesTo
    <3> HIDE DEF zk, vk
    <3>3. FreeKey(a, g, Sample("garblers", 4)) =
            FreeKey(z, g, OneKey) (+) (PlainGate(v, g)[g.out] (.) Delta)
      BY <1>3, <2>2, <3>1, FreeRight
    <3> QED
      BY <3>2, <3>3 DEF vk
  <2> QED
    BY <2>1, <2>2
<1>9. /\ z1[g.out] = zk /\ v1[g.out] = vk
      /\ \A w \in 1 .. n : w # g.out => z1[w] = z[w] /\ v1[w] = v[w]
  <2>1. DOMAIN z = 1 .. n /\ DOMAIN v = 1 .. n
    BY <1>3 DEF ZeroKeys, PlainValues, IsWires, n
  <2>2. \E e : v1 = [v EXCEPT ![g.out] = e]
    BY <1>5 DEF PlainGate
  <2>3. \A w \in 1 .. n : w # g.out => v1[w] = v[w]
    BY <2>1, <2>2
  <2>4. v1[g.out] = vk
    BY <1>5
  <2> HIDE DEF zk, vk
  <2> QED
    BY <1>2, <1>4, <2>1, <2>3, <2>4
<1> HIDE DEF zk, vk
<1> DEFINE A == ActiveWires(f, c, k)
           b == [a EXCEPT ![g.out] = key]
<1>10. DOMAIN a = 1 .. n /\ A = [w \in 1 .. n |-> z1[w] (+) (v1[w] (.) Delta)]
  BY <1>6
<1>11. b = [w \in 1 .. n |-> IF w = g.out THEN key ELSE a[w]]
  BY <1>10
<1> HIDE DEF A, b
<1>12. ASSUME NEW w \in 1 .. n PROVE (IF w = g.out THEN key ELSE a[w]) = z1[w] (+) (v1[w] (.) Delta)
  <2>1. CASE w = g.out
    BY <1>8, <1>9, <2>1
  <2>2. CASE w # g.out
    BY <1>6, <1>9, <2>2
  <2> QED
    BY <2>1, <2>2
<1>13. b = A
  BY <1>10, <1>11, <1>12
<1> QED
  BY <1>13 DEF A, b, WithKey

-----------------------------------------------------------------------------
(* From place to place *)

(* A call starts: its wires are the inputs'.                               *)
LEMMA WiresStart ==
    ASSUME NEW f \in Circuits, NEW r \in Role, NEW c \in 1 .. NumCalls, NEW p, p \notin InCall, NEW k
    PROVE  Append(WiresAt(f, r, p, c, k), WiresAfter(f, r, c, 0)) = WiresAt(f, r, "compute", c, 0)
<1> DEFINE After(b, n) == WiresAfter(f, r, b, n)
           L == Len(f.gates)
           s == WiresAt(f, r, p, c, k)
           t == WiresAt(f, r, "compute", c, 0)
           e == After(c, 0)
<1>1. c \in Nat /\ c - 1 \in Nat
  BY CircuitIs
<1>2. s = [b \in 1 .. c - 1 |-> After(b, IF b = c THEN k ELSE L)]
  BY DEF WiresAt
<1>3. t = [b \in 1 .. c |-> After(b, IF b = c THEN 0 ELSE L)]
  BY DEF WiresAt, InCall
<1> HIDE DEF After, L, s, t, e
<1>4. IsSeq(s) /\ Len(s) = c - 1 /\ \A b \in 1 .. c - 1 : s[b] = After(b, L)
  <2>1. \A b \in 1 .. c - 1 : b # c
    BY <1>1
  <2>2. s = [b \in 1 .. c - 1 |-> After(b, L)]
    BY <1>2, <2>1
  <2> DEFINE h == [b \in 1 .. c - 1 |-> After(b, L)]
  <2>3. s = [b \in 1 .. c - 1 |-> h[b]] /\ \A b \in 1 .. c - 1 : h[b] = After(b, L)
    BY <2>2
  <2> HIDE DEF h
  <2> QED
    BY <1>1, <2>3, SeqFrom
<1>5. IsSeq(t) /\ Len(t) = c /\ \A b \in 1 .. c : t[b] = After(b, IF b = c THEN 0 ELSE L)
  <2> DEFINE h == [b \in 1 .. c |-> After(b, IF b = c THEN 0 ELSE L)]
  <2>1. t = [b \in 1 .. c |-> h[b]] /\ \A b \in 1 .. c : h[b] = After(b, IF b = c THEN 0 ELSE L)
    BY <1>3
  <2> HIDE DEF h
  <2> QED
    BY <1>1, <2>1, SeqFrom
<1> DEFINE u == Append(s, e)
<1>6. IsSeq(u) /\ Len(u) = c /\ u[c] = e /\ \A b \in 1 .. c - 1 : u[b] = s[b]
  <2>1. Len(s) + 1 = c
    BY <1>1, <1>4
  <2>2. /\ IsSeq(u) /\ Len(u) = Len(s) + 1 /\ u[Len(s) + 1] = e
        /\ \A b \in 1 .. Len(s) : u[b] = s[b]
    <3>1. IsAppend(u, s, e)
      BY DEF IsAppend
    <3> HIDE DEF u
    <3> QED
      BY <1>4, <3>1, Appended
  <2> HIDE DEF u
  <2> QED
    BY <1>4, <2>1, <2>2
<1> HIDE DEF u
<1>7. \A b \in 1 .. c : u[b] = t[b]
  <2> SUFFICES ASSUME NEW b \in 1 .. c PROVE u[b] = t[b]
    OBVIOUS
  <2>1. CASE b = c
    BY <1>5, <1>6, <2>1 DEF e
  <2>2. CASE b # c
    <3>1. b \in 1 .. c - 1
      BY <1>1, <2>2
    <3> QED
      BY <1>4, <1>5, <1>6, <2>2, <3>1
  <2> QED
    BY <2>1, <2>2
<1>8. u = t
  BY <1>5, <1>6, <1>7, SeqEqual
<1> QED
  BY <1>8 DEF u, s, t, e, After

(* One gate.                                                               *)
LEMMA WiresStep ==
    ASSUME NEW f \in Circuits, NEW r \in Role, NEW c \in 1 .. NumCalls, NEW p \in InCall, NEW k
    PROVE  /\ WiresAt(f, r, p, c, k)[c] = WiresAfter(f, r, c, k)
           /\ \A l : [WiresAt(f, r, p, c, k) EXCEPT ![c] = WiresAfter(f, r, c, l)] = WiresAt(f, r, p, c, l)
<1> DEFINE After(b, n) == WiresAfter(f, r, b, n)
           L == Len(f.gates)
<1>1. c \in 1 .. c
  BY CircuitIs
<1>2. \A l : WiresAt(f, r, p, c, l) = [b \in 1 .. c |-> After(b, IF b = c THEN l ELSE L)]
  BY DEF WiresAt
<1> HIDE DEF After, L
<1>3. WiresAt(f, r, p, c, k)[c] = After(c, k)
  BY <1>1, <1>2
<1>4. ASSUME NEW l PROVE [WiresAt(f, r, p, c, k) EXCEPT ![c] = After(c, l)] = WiresAt(f, r, p, c, l)
  <2>1. [[b \in 1 .. c |-> After(b, IF b = c THEN k ELSE L)] EXCEPT ![c] = After(c, l)]
          = [b \in 1 .. c |-> After(b, IF b = c THEN l ELSE L)]
    OBVIOUS
  <2> QED
    BY <1>2, <2>1
<1> QED
  BY <1>3, <1>4 DEF After

(* A call is over, and its wires are history; so are the calls before it.  *)
LEMMA WiresEnd ==
    ASSUME NEW f \in Circuits, NEW r \in Role, NEW c \in 1 .. NumCalls
    PROVE  /\ \A p, q, k : p \in InCall /\ q \notin InCall =>
                  WiresAt(f, r, p, c, Len(f.gates)) = WiresAt(f, r, q, c + 1, k)
           /\ \A p, q, k, l : p \notin InCall /\ q \notin InCall =>
                  WiresAt(f, r, p, c, k) = WiresAt(f, r, q, c, l)
<1> DEFINE After(b, n) == WiresAfter(f, r, b, n)
           L == Len(f.gates)
<1>1. c \in Nat /\ c + 1 - 1 = c
  BY CircuitIs
<1>2. ASSUME NEW p, NEW q, NEW k, p \in InCall, q \notin InCall
      PROVE  WiresAt(f, r, p, c, L) = WiresAt(f, r, q, c + 1, k)
  <2>1. WiresAt(f, r, p, c, L) = [b \in 1 .. c |-> After(b, IF b = c THEN L ELSE L)]
    BY <1>2 DEF WiresAt
  <2>2. WiresAt(f, r, q, c + 1, k) = [b \in 1 .. c + 1 - 1 |-> After(b, IF b = c + 1 THEN k ELSE L)]
    BY <1>2 DEF WiresAt
  <2>3. \A b \in 1 .. c : b # c + 1
    BY <1>1
  <2> HIDE DEF After, L
  <2>4. WiresAt(f, r, p, c, L) = [b \in 1 .. c |-> After(b, L)]
    BY <2>1
  <2>5. WiresAt(f, r, q, c + 1, k) = [b \in 1 .. c |-> After(b, L)]
    BY <1>1, <2>2, <2>3
  <2> QED
    BY <2>4, <2>5
<1>3. ASSUME NEW p, NEW q, NEW k, NEW l, p \notin InCall, q \notin InCall
      PROVE  WiresAt(f, r, p, c, k) = WiresAt(f, r, q, c, l)
  <2>1. \A b \in 1 .. c - 1 : b # c
    BY <1>1
  <2>2. /\ WiresAt(f, r, p, c, k) = [b \in 1 .. c - 1 |-> After(b, IF b = c THEN k ELSE L)]
        /\ WiresAt(f, r, q, c, l) = [b \in 1 .. c - 1 |-> After(b, IF b = c THEN l ELSE L)]
    BY <1>3 DEF WiresAt
  <2> HIDE DEF After, L
  <2>3. /\ WiresAt(f, r, p, c, k) = [b \in 1 .. c - 1 |-> After(b, L)]
        /\ WiresAt(f, r, q, c, l) = [b \in 1 .. c - 1 |-> After(b, L)]
    BY <2>1, <2>2
  <2> QED
    BY <2>3
<1> QED
  BY <1>2, <1>3

(* What is returned.                                                       *)
LEMMA OutEnd ==
    ASSUME NEW f \in Circuits, NEW r \in Role, NEW c \in 1 .. NumCalls
    PROVE  Append(OutAt(f, r, c), OutAfter(f, r, c)) = OutAt(f, r, c + 1)
<1> DEFINE After(b) == OutAfter(f, r, b)
           s == OutAt(f, r, c)
           t == OutAt(f, r, c + 1)
           u == Append(s, After(c))
           h == [b \in 1 .. c |-> After(b)]
<1>1. c \in Nat /\ c - 1 \in Nat /\ c + 1 - 1 = c
  BY CircuitIs
<1>2. s = [b \in 1 .. c - 1 |-> h[b]]
  <2>1. \A b \in 1 .. c - 1 : b \in 1 .. c
    BY <1>1
  <2>2. s = [b \in 1 .. c - 1 |-> After(b)]
    BY DEF OutAt
  <2> HIDE DEF After
  <2> QED
    BY <2>1, <2>2
<1>3. t = [b \in 1 .. c |-> h[b]]
  <2>1. t = [b \in 1 .. c |-> After(b)]
    BY <1>1 DEF OutAt
  <2> HIDE DEF After
  <2> QED
    BY <2>1
<1>4. h[c] = After(c)
  BY <1>1
<1> HIDE DEF After, s, t, u, h
<1>5. IsSeq(s) /\ Len(s) = c - 1 /\ \A b \in 1 .. c - 1 : s[b] = h[b]
  BY <1>1, <1>2, SeqFrom
<1>6. IsSeq(t) /\ Len(t) = c /\ \A b \in 1 .. c : t[b] = h[b]
  BY <1>1, <1>3, SeqFrom
<1>7. /\ IsSeq(u) /\ Len(u) = Len(s) + 1 /\ u[Len(s) + 1] = After(c)
      /\ \A b \in 1 .. Len(s) : u[b] = s[b]
  <2>1. IsAppend(u, s, After(c))
    BY DEF u, IsAppend
  <2> QED
    BY <1>5, <2>1, Appended
<1>8. Len(s) + 1 = c
  BY <1>1, <1>5
<1>9. \A b \in 1 .. c : u[b] = t[b]
  <2> SUFFICES ASSUME NEW b \in 1 .. c PROVE u[b] = t[b]
    OBVIOUS
  <2>1. CASE b = c
    BY <1>4, <1>6, <1>7, <1>8, <2>1
  <2>2. CASE b # c
    <3>1. b \in 1 .. c - 1
      BY <1>1, <2>2
    <3> QED
      BY <1>5, <1>6, <1>7, <3>1
  <2> QED
    BY <2>1, <2>2
<1>10. u = t
  BY <1>6, <1>7, <1>8, <1>9, SeqEqual
<1> QED
  BY <1>10 DEF u, t, s, After

(* What a party has, in the terms of the invariant, at place p of call c,  *)
(* with gate g the next one.                                               *)
WantedAt(f, r, p) ==
    CASE r = "eval" /\ p = "construct"            -> 3
      [] r = "eval" /\ p \in {"recv_g1", "recv_g2"} -> f.num_input
      [] r = "eval" /\ p = "recv_tables"          -> 2 * NumAnds(f)
      [] r = "g2" /\ p = "output"                 -> f.num_output
      [] OTHER                                    -> 0
PlaceIs(f, r, p, c, g, st, se, re) ==
    /\ p \in Place(r) /\ c \in 1 .. NumCalls + 1 /\ g \in 1 .. Len(f.gates) + 1
    /\ (p = "done") = (c = NumCalls + 1)
    /\ p \in {"construct", "flush"} => c = 1
    /\ p = "output" => ~(g =< Len(f.gates))
    /\ IsSeq(st) /\ IsSeq(se) /\ IsSeq(re) /\ Len(re) =< WantedAt(f, r, p)
OwnIs(f, r, p, c, g, ge, dr, wi, ou) ==
    /\ ge = GenAt(f, r, p, c, g - 1) /\ dr = DrawnAt(f, r, p, c)
    /\ wi = WiresAt(f, r, p, c, g - 1) /\ ou = OutAt(f, r, c)
SentIs(f, p, c, g, b) == b = SendBuffer(f, p, c, g - 1)
ReadIs(f, p, c, g, b, ks) ==
    /\ b = RecvBuffer(f, p, c, g - 1)
    /\ p = "recv_g2" => ks = [i \in 1 .. f.num_input |-> Active(f, c, G1Eval, i)]
    /\ p = "recv_tables" => ks = [i \in 1 .. f.num_input |-> ActiveWires(f, c, 0)[i]]
PipeIs(f, s, p, c, st, se, dp, dc, re) ==
    Carries(f, s, Got(s, dp, re) \o (st \o se), Taken(f, s, dp, dc), Sent(f, s, p, c))

(* How much is asked for is a number.                                      *)
LEMMA WantedIs ==
    ASSUME NEW f \in Circuits, NEW r, NEW p
    PROVE  WantedAt(f, r, p) \in Nat
<1> DEFINE N == NumAnds(f)
<1>1. f.num_input \in Nat /\ f.num_output \in Nat /\ Len(f.gates) \in 0 .. Len(f.gates)
  BY CircuitIs
<1>2. N \in Nat
  BY <1>1, AndsCounted
<1> HIDE DEF N
<1>3. 2 * N \in Nat
  BY <1>2
<1> QED
  BY <1>1, <1>3 DEF WantedAt, N

(* The invariant in these terms, ...                                       *)
LEMMA Now ==
    ASSUME GarbleInv
    PROVE  /\ circuit \in Circuits
           /\ \A r \in Role : /\ r \in DOMAIN pc /\ r \in DOMAIN call /\ r \in DOMAIN gate
                              /\ r \in DOMAIN gen /\ r \in DOMAIN drawn /\ r \in DOMAIN wires
                              /\ r \in DOMAIN out /\ r \in DOMAIN stream /\ r \in DOMAIN sending
                              /\ r \in DOMAIN received
           /\ \A r \in Role : PlaceIs(circuit, r, pc[r], call[r], gate[r], stream[r], sending[r], received[r])
           /\ \A r \in Role : OwnIs(circuit, r, pc[r], call[r], gate[r], gen[r], drawn[r], wires[r], out[r])
           /\ SentIs(circuit, pc["g1"], call["g1"], gate["g1"], sb)
           /\ ReadIs(circuit, pc["eval"], call["eval"], gate["eval"], rb, keys)
           /\ \A s \in Role : PipeIs(circuit, s, pc[s], call[s], stream[s], sending[s],
                                     pc[Dest(s)], call[Dest(s)], received[Dest(s)])
<1>1. circuit \in Circuits
  BY DEF GarbleInv, PlacesInv
<1>2. DOMAIN pc = Role /\ DOMAIN call = Role /\ DOMAIN gate = Role /\ DOMAIN gen = Role /\ DOMAIN drawn = Role
      /\ DOMAIN wires = Role /\ DOMAIN out = Role /\ DOMAIN stream = Role /\ DOMAIN sending = Role
      /\ DOMAIN received = Role
  BY DEF GarbleInv, PlacesInv
<1>3. \A r \in Role : PlaceIs(circuit, r, pc[r], call[r], gate[r], stream[r], sending[r], received[r])
  BY DEF GarbleInv, PlacesInv, PlaceIs, GatesLeft, Wanted, WantedAt, BufLen
<1>4. \A r \in Role : OwnIs(circuit, r, pc[r], call[r], gate[r], gen[r], drawn[r], wires[r], out[r])
  BY DEF GarbleInv, OwnInv, OwnIs
<1>5. /\ SentIs(circuit, pc["g1"], call["g1"], gate["g1"], sb)
      /\ ReadIs(circuit, pc["eval"], call["eval"], gate["eval"], rb, keys)
  BY DEF GarbleInv, BuffersInv, SentIs, ReadIs, Inputs
<1>6. \A s \in Role : PipeIs(circuit, s, pc[s], call[s], stream[s], sending[s],
                             pc[Dest(s)], call[Dest(s)], received[Dest(s)])
  BY DEF GarbleInv, PipesHold, PipeIs, Pipe
<1> QED
  BY <1>1, <1>2, <1>3, <1>4, <1>5, <1>6

(* Every variable but the buffers is a function of the party.              *)
ByRole == {DOMAIN pc, DOMAIN call, DOMAIN gate, DOMAIN gen, DOMAIN drawn, DOMAIN wires, DOMAIN out,
           DOMAIN stream, DOMAIN sending, DOMAIN received} = {Role}

(* ... and back.                                                           *)
LEMMA AllTold ==
    ASSUME circuit' \in Circuits, ByRole',
           \A r \in Role : PlaceIs(circuit', r, pc'[r], call'[r], gate'[r], stream'[r], sending'[r], received'[r]),
           \A r \in Role : OwnIs(circuit', r, pc'[r], call'[r], gate'[r], gen'[r], drawn'[r], wires'[r], out'[r]),
           SentIs(circuit', pc'["g1"], call'["g1"], gate'["g1"], sb'),
           ReadIs(circuit', pc'["eval"], call'["eval"], gate'["eval"], rb', keys'),
           \A s \in Role : PipeIs(circuit', s, pc'[s], call'[s], stream'[s], sending'[s],
                                  pc'[Dest(s)], call'[Dest(s)], received'[Dest(s)])
    PROVE  GarbleInv'
<1>1. PlacesInv'
  BY DEF PlacesInv, PlaceIs, ByRole, GatesLeft, Wanted, WantedAt, BufLen
<1>2. OwnInv'
  BY DEF OwnInv, OwnIs
<1>3. BuffersInv'
  BY DEF BuffersInv, SentIs, ReadIs, Inputs
<1>4. PipesHold'
  BY DEF PipesHold, PipeIs, Pipe
<1> QED
  BY <1>1, <1>2, <1>3, <1>4 DEF GarbleInv

(* A step of party r that leaves the streams alone.                        *)
OthersKeep(r) ==
    /\ circuit' = circuit /\ stream' = stream /\ ByRole'
    /\ \A q \in Role : q # r => /\ pc'[q] = pc[q] /\ call'[q] = call[q] /\ gate'[q] = gate[q]
                                /\ gen'[q] = gen[q] /\ drawn'[q] = drawn[q] /\ wires'[q] = wires[q]
                                /\ out'[q] = out[q] /\ sending'[q] = sending[q] /\ received'[q] = received[q]
    /\ r # "g1" => sb' = sb
    /\ r # "eval" => rb' = rb /\ keys' = keys

(* It is enough to look at the party that takes the step.                  *)
LEMMA PartyStep ==
    ASSUME GarbleInv, NEW r \in Role, OthersKeep(r),
           PlaceIs(circuit, r, pc'[r], call'[r], gate'[r], stream[r], sending'[r], received'[r]),
           OwnIs(circuit, r, pc'[r], call'[r], gate'[r], gen'[r], drawn'[r], wires'[r], out'[r]),
           r = "g1" => SentIs(circuit, pc'[r], call'[r], gate'[r], sb'),
           r = "eval" => ReadIs(circuit, pc'[r], call'[r], gate'[r], rb', keys'),
           PipeIs(circuit, r, pc'[r], call'[r], stream[r], sending'[r],
                  pc[Dest(r)], call[Dest(r)], received[Dest(r)]),
           \A s \in Role : Dest(s) = r => PipeIs(circuit, s, pc[s], call[s], stream[s], sending[s],
                                                 pc'[r], call'[r], received'[r])
    PROVE  GarbleInv'
<1>1. circuit' = circuit /\ stream' = stream /\ ByRole'
  BY DEF OthersKeep
<1>2. \A q \in Role : q # r => /\ pc'[q] = pc[q] /\ call'[q] = call[q] /\ gate'[q] = gate[q]
                               /\ gen'[q] = gen[q] /\ drawn'[q] = drawn[q] /\ wires'[q] = wires[q]
                               /\ out'[q] = out[q] /\ sending'[q] = sending[q] /\ received'[q] = received[q]
  BY DEF OthersKeep
<1>3. \A q \in Role : PlaceIs(circuit', q, pc'[q], call'[q], gate'[q], stream'[q], sending'[q], received'[q])
  BY <1>1, <1>2, Now
<1>4. \A q \in Role : OwnIs(circuit', q, pc'[q], call'[q], gate'[q], gen'[q], drawn'[q], wires'[q], out'[q])
  BY <1>1, <1>2, Now
<1>5. SentIs(circuit', pc'["g1"], call'["g1"], gate'["g1"], sb')
  BY <1>1, <1>2, Now DEF OthersKeep, Role
<1>6. ReadIs(circuit', pc'["eval"], call'["eval"], gate'["eval"], rb', keys')
  BY <1>1, <1>2, Now DEF OthersKeep, Role
<1>7. ASSUME NEW s \in Role
      PROVE  PipeIs(circuit', s, pc'[s], call'[s], stream'[s], sending'[s],
                    pc'[Dest(s)], call'[Dest(s)], received'[Dest(s)])
  <2>1. Dest(s) \in Role /\ Dest(s) # s
    BY DEF Dest, Role
  <2>2. PipeIs(circuit, s, pc[s], call[s], stream[s], sending[s], pc[Dest(s)], call[Dest(s)], received[Dest(s)])
    BY Now
  <2>3. CASE s = r
    BY <1>1, <1>2, <2>1, <2>3
  <2>4. CASE s # r /\ Dest(s) = r
    BY <1>1, <1>2, <2>4
  <2>5. CASE s # r /\ Dest(s) # r
    BY <1>1, <1>2, <2>1, <2>2, <2>5
  <2> QED
    BY <2>3, <2>4, <2>5
<1> QED
  BY <1>1, <1>3, <1>4, <1>5, <1>6, <1>7, Now, AllTold

(* How much was sent and used are numbers.                                 *)
LEMMA Counts ==
    ASSUME NEW f \in Circuits, NEW s \in Role, NEW p, NEW c \in 1 .. NumCalls + 1
    PROVE  Sent(f, s, p, c) \in Nat /\ Taken(f, s, p, c) \in Nat
<1>1. f.num_input \in Nat /\ Width(f, s) \in Nat
  BY CircuitIs, WidthIs
<1>2. \A j \in Nat : Position(f, s, c, j) \in Nat
  BY Positions
<1> QED
  BY <1>1, <1>2 DEF Sent, Taken

(* What has been received of a sender is a sequence.                       *)
LEMMA GotIs ==
    ASSUME NEW s \in Role, NEW p, NEW re, IsSeq(re)
    PROVE  IsSeq(Got(s, p, re)) /\ Got(s, p, <<>>) = <<>>
BY EmptyIs DEF Got

(* What is sent goes behind the parts of a pipe.                           *)
LEMMA Joined ==
    ASSUME NEW got, NEW st, NEW se, IsSeq(got), IsSeq(st), IsSeq(se)
    PROVE  /\ got \o (st \o <<>>) = got \o st /\ IsSeq(got \o st)
           /\ got \o (st \o se) = (got \o st) \o se
<1>1. st \o <<>> = st
  BY EmptyIs
<1>2. (got \o st) \o se = got \o (st \o se)
  BY ConcatAssoc
<1>3. IsSeq(got \o st)
  BY ConcatIs
<1> QED
  BY <1>1, <1>2, <1>3

(* What is sent or received are the words of call d from off on.           *)
HasWords(f, s, d, off, more) == \A j \in 1 .. Len(more) : more[j] = Words(f, s, d)[off + j]

(* A party that has nothing left to send sends something.                  *)
LEMMA PipeSend ==
    ASSUME NEW f \in Circuits, NEW s \in Role, NEW p, NEW c \in 1 .. NumCalls + 1, NEW st, NEW dp,
           NEW dc \in 1 .. NumCalls + 1, NEW re, NEW se, NEW p2, NEW c2,
           IsSeq(st), IsSeq(re), IsSeq(se), PipeIs(f, s, p, c, st, <<>>, dp, dc, re),
           NEW d \in 1 .. NumCalls, NEW off \in Nat,
           Sent(f, s, p, c) = Position(f, s, d, off), off + Len(se) =< Width(f, s),
           HasWords(f, s, d, off, se),
           Sent(f, s, p2, c2) = Position(f, s, d, off) + Len(se)
    PROVE  PipeIs(f, s, p2, c2, st, se, dp, dc, re)
<1> DEFINE got == Got(s, dp, re)
           from == Taken(f, s, dp, dc)
           upto == Sent(f, s, p, c)
           blocks == got \o st
<1>1. from \in Nat /\ upto \in Nat
  BY Counts
<1>2. IsSeq(got)
  BY GotIs
<1> HIDE DEF got, from, upto, blocks
<1>3. got \o (st \o <<>>) = blocks /\ got \o (st \o se) = blocks \o se /\ IsSeq(blocks)
  BY <1>2, Joined, SMTT(30) DEF blocks
<1>4. Carries(f, s, blocks, from, upto)
  BY <1>3 DEF PipeIs, got, from, upto
<1>5. upto = Position(f, s, d, off)
  BY DEF upto
<1>6. Carries(f, s, blocks \o se, from, upto + Len(se))
  BY <1>1, <1>3, <1>4, <1>5, CarriesMore DEF HasWords
<1> QED
  BY <1>3, <1>5, <1>6 DEF PipeIs, got, from

(* A party uses up what it has received.                                   *)
LEMMA PipeReceive ==
    ASSUME NEW f \in Circuits, NEW s \in Role, NEW p, NEW c \in 1 .. NumCalls + 1, NEW st, NEW se, NEW dp,
           NEW dc \in 1 .. NumCalls + 1, NEW re, NEW dp2, NEW dc2,
           IsSeq(st), IsSeq(re), IsSeq(se), PipeIs(f, s, p, c, st, se, dp, dc, re),
           Got(s, dp, re) = re, Taken(f, s, dp2, dc2) = Taken(f, s, dp, dc) + Len(re),
           s = "g1" => Taken(f, s, dp, dc) + Len(re) # 0
    PROVE  PipeIs(f, s, p, c, st, se, dp2, dc2, <<>>)
<1> DEFINE from == Taken(f, s, dp, dc)
           upto == Sent(f, s, p, c)
           rest == st \o se
<1>1. from \in Nat /\ upto \in Nat
  BY Counts
<1>2. Got(s, dp2, <<>>) = <<>>
  BY GotIs
<1>3. Taken(f, s, dp2, dc2) = from + Len(re) /\ (s = "g1" => from + Len(re) # 0)
  OBVIOUS
<1>4. IsSeq(rest) /\ <<>> \o rest = rest
  BY ConcatIs, EmptyIs
<1>5. Carries(f, s, re \o rest, from, upto)
  BY DEF PipeIs
<1> HIDE DEF from, upto, rest
<1>6. Carries(f, s, rest, from + Len(re), upto)
  BY <1>1, <1>3, <1>4, <1>5, CarriesLess
<1> QED
  BY <1>2, <1>3, <1>4, <1>6 DEF PipeIs, rest, upto

(* What a receiver has got are the next words of the call it is in.        *)
LEMMA PipeWords ==
    ASSUME NEW f \in Circuits, NEW s \in Role, NEW p, NEW c \in 1 .. NumCalls + 1, NEW st, NEW se, NEW dp,
           NEW dc \in 1 .. NumCalls + 1, NEW re,
           IsSeq(st), IsSeq(re), IsSeq(se), PipeIs(f, s, p, c, st, se, dp, dc, re), Got(s, dp, re) = re,
           s = "g1" => Taken(f, s, dp, dc) + Len(re) # 0,
           NEW d \in 1 .. NumCalls, NEW off \in Nat,
           Taken(f, s, dp, dc) = Position(f, s, d, off), off + Len(re) =< Width(f, s)
    PROVE  HasWords(f, s, d, off, re)
<1> DEFINE from == Taken(f, s, dp, dc)
           upto == Sent(f, s, p, c)
           rest == st \o se
<1>1. from \in Nat /\ upto \in Nat
  BY Counts
<1>2. from = Position(f, s, d, off) /\ (s = "g1" => from + Len(re) # 0)
  OBVIOUS
<1>3. IsSeq(rest)
  BY ConcatIs
<1>4. Carries(f, s, re \o rest, from, upto)
  BY DEF PipeIs
<1> HIDE DEF from, upto, rest
<1>5. \A dd \in 1 .. NumCalls : \A x \in Nat :
        from = Position(f, s, dd, x) /\ x + Len(re) =< Width(f, s) =>
            \A j \in 1 .. Len(re) : re[j] = Words(f, s, dd)[x + j]
  BY <1>1, <1>2, <1>3, <1>4, CarriesLess
<1> QED
  BY <1>2, <1>5 DEF HasWords

(* The first three blocks are those that the constructor sends.            *)
LEMMA PipeOpening ==
    ASSUME NEW f \in Circuits, NEW p, NEW c \in 1 .. NumCalls + 1, NEW st, NEW se, NEW dp,
           NEW dc \in 1 .. NumCalls + 1, NEW re,
           IsSeq(st), IsSeq(re), IsSeq(se), PipeIs(f, "g1", p, c, st, se, dp, dc, re), Got("g1", dp, re) = re,
           Taken(f, "g1", dp, dc) = 0, Len(re) = 3
    PROVE  \A j \in 1 .. 3 : re[j] = Opening[j]
<1> DEFINE from == Taken(f, "g1", dp, dc)
           upto == Sent(f, "g1", p, c)
           rest == st \o se
<1>1. from \in Nat /\ upto \in Nat
  BY Counts DEF Role
<1>2. from = 0 /\ from + Len(re) # 0 /\ "g1" \in Role
  BY DEF Role
<1>3. IsSeq(rest)
  BY ConcatIs
<1>4. Carries(f, "g1", re \o rest, from, upto)
  BY DEF PipeIs
<1> HIDE DEF from, upto, rest
<1>5. "g1" = "g1" /\ from = 0 /\ Len(re) = 3 => \A j \in 1 .. 3 : re[j] = Opening[j]
  BY <1>1, <1>2, <1>3, <1>4, CarriesLess
<1> QED
  BY <1>2, <1>5

(* Nothing is waiting at a party that wants nothing.                       *)
LEMMA NothingLeft ==
    ASSUME NEW s, IsSeq(s), ~(1 =< Len(s))
    PROVE  s = <<>>
<1>1. Len(s) = 0
  BY DEF IsSeq
<1>2. 1 .. Len(s) = {}
  BY <1>1
<1> QED
  BY <1>1, <1>2, EmptyIs, SeqEqual

-----------------------------------------------------------------------------
(* The steps of a garbler *)

(* Who the garblers are.                                                   *)
LEMMA Garblers == \A r \in Garbler : r \in Role /\ r # "eval" /\ Dest(r) = "eval" /\ (r = "g1" \/ r = "g2")
BY DEF Garbler, Role, Dest

(* Where a party is that is about to take a step in call c.                *)
LEMMA Here ==
    ASSUME GarbleInv, NEW r \in Role, pc[r] # "done"
    PROVE  /\ circuit \in Circuits /\ call[r] \in 1 .. NumCalls /\ call[r] \in Int
           /\ call[r] \in 1 .. NumCalls + 1 /\ call[r] + 1 \in 1 .. NumCalls + 1
           /\ gate[r] \in 1 .. Len(circuit.gates) + 1 /\ gate[r] - 1 \in 0 .. Len(circuit.gates)
           /\ gate[r] \in Int /\ Len(circuit.gates) \in Nat
           /\ (GatesLeft(r) => gate[r] \in 1 .. Len(circuit.gates))
           /\ (~GatesLeft(r) => gate[r] - 1 = Len(circuit.gates))
           /\ (pc[r] = "output" => gate[r] - 1 = Len(circuit.gates))
           /\ IsSeq(stream[r]) /\ IsSeq(sending[r]) /\ IsSeq(received[r]) /\ Len(received[r]) \in Nat
           /\ Wanted(r) = WantedAt(circuit, r, pc[r])
<1>1. circuit \in Circuits /\ PlaceIs(circuit, r, pc[r], call[r], gate[r], stream[r], sending[r], received[r])
  BY Now
<1>2. Len(circuit.gates) \in Nat /\ NumCalls \in Nat
  BY <1>1, CircuitIs
<1>3. call[r] \in 1 .. NumCalls + 1 /\ call[r] # NumCalls + 1
  BY <1>1 DEF PlaceIs
<1>4. call[r] \in 1 .. NumCalls /\ call[r] \in Int /\ call[r] + 1 \in 1 .. NumCalls + 1
  BY <1>2, <1>3
<1>5. gate[r] \in 1 .. Len(circuit.gates) + 1 /\ (pc[r] = "output" => ~(gate[r] =< Len(circuit.gates)))
  BY <1>1 DEF PlaceIs
<1>6. IsSeq(stream[r]) /\ IsSeq(sending[r]) /\ IsSeq(received[r]) /\ Len(received[r]) \in Nat
  BY <1>1 DEF PlaceIs, IsSeq
<1>7. Wanted(r) = WantedAt(circuit, r, pc[r])
  BY DEF Wanted, WantedAt, BufLen
<1>8. /\ gate[r] - 1 \in 0 .. Len(circuit.gates) /\ gate[r] \in Int
      /\ (GatesLeft(r) => gate[r] \in 1 .. Len(circuit.gates))
      /\ (~GatesLeft(r) => gate[r] - 1 = Len(circuit.gates))
      /\ (pc[r] = "output" => gate[r] - 1 = Len(circuit.gates))
  BY <1>2, <1>5 DEF GatesLeft
<1> QED
  BY <1>1, <1>2, <1>3, <1>4, <1>5, <1>6, <1>7, <1>8

(* Setting a wire changes one key of one call.                             *)
LEMMA SetWireIs ==
    ASSUME GarbleInv, NEW r \in Role, NEW key, SetWire(r, key)
    PROVE  /\ wires'[r] = [wires[r] EXCEPT ![call[r]] = [Wires(r) EXCEPT ![Gate(r).out] = key]]
           /\ DOMAIN wires' = Role /\ \A q \in Role : q # r => wires'[q] = wires[q]
BY DEF GarbleInv, PlacesInv, SetWire, Wires

(* A gate is garbled.                                                      *)
LEMMA ZeroNext ==
    ASSUME NEW f \in Circuits, NEW c, NEW k \in 1 .. Len(f.gates), NEW z, z = ZeroWires(f, c)[k - 1],
           NEW g, g = f.gates[k]
    PROVE  ZeroWires(f, c)[k] =
             [z EXCEPT ![g.out] = IF g.type = "AND" THEN OutputKey(GarblingOf(f, c, k, z))
                                  ELSE FreeKey(z, g, OneKey)]
<1>1. ZeroWires(f, c)[k] = ZeroGate(f, c, k, z)
  BY ZeroWiresIs
<1> QED
  BY <1>1 DEF ZeroGate

(* Two blocks more.                                                        *)
LEMMA AppendTwo ==
    ASSUME NEW s, IsSeq(s), NEW x, NEW y
    PROVE  LET w == s \o <<x, y>>
           IN /\ IsSeq(w) /\ Len(w) = Len(s) + 2 /\ w[Len(s) + 1] = x /\ w[Len(s) + 2] = y
              /\ \A j \in 1 .. Len(s) : w[j] = s[j]
<1> DEFINE S == {s[j] : j \in 1 .. Len(s)} \cup {x, y}
           two == <<x, y>>
           w == s \o two
<1>1. s \in Seq(S) /\ x \in S /\ y \in S
  <2>1. s \in Seq({s[j] : j \in 1 .. Len(s)})
    BY SeqOver
  <2> QED
    BY <2>1
<1> HIDE DEF S
<1>2. Len(two) = 2 /\ two[1] = x /\ two[2] = y
  BY <1>1
<1>8. two \in Seq(S)
  BY <1>1
<1> HIDE DEF two
<1>9. w \in Seq(S) /\ Len(w) = Len(s) + Len(two) /\ Len(s) \in Nat
  BY <1>1, <1>8
<1>10. \A j \in 1 .. Len(s) + Len(two) : w[j] = IF j =< Len(s) THEN s[j] ELSE two[j - Len(s)]
  BY <1>1, <1>8
<1> HIDE DEF w
<1>3. w \in Seq(S) /\ Len(w) = Len(s) + 2 /\ Len(s) \in Nat
  BY <1>2, <1>9
<1>4. \A j \in 1 .. Len(s) + 2 : w[j] = IF j =< Len(s) THEN s[j] ELSE two[j - Len(s)]
  BY <1>2, <1>10
<1>5. IsSeq(w)
  BY <1>3, SeqIs
<1>6. w[Len(s) + 1] = two[1] /\ w[Len(s) + 2] = two[2]
  <2>1. Len(s) + 1 - Len(s) = 1 /\ Len(s) + 2 - Len(s) = 2
        /\ Len(s) + 1 \in 1 .. Len(s) + 2 /\ Len(s) + 2 \in 1 .. Len(s) + 2
        /\ ~(Len(s) + 1 =< Len(s)) /\ ~(Len(s) + 2 =< Len(s))
    BY <1>3
  <2> QED
    BY <1>4, <2>1
<1>7. \A j \in 1 .. Len(s) : w[j] = s[j]
  BY <1>3, <1>4
<1> QED
  BY <1>2, <1>3, <1>5, <1>6, <1>7 DEF w, two

(* Two more blocks of the tables.                                          *)
LEMMA TwoMore ==
    ASSUME NEW n \in Nat, NEW t, NEW b, b = [j \in 1 .. n |-> t[j]], NEW x, NEW y,
           t[n + 1] = x, t[n + 2] = y
    PROVE  b \o <<x, y>> = [j \in 1 .. n + 2 |-> t[j]]
<1> DEFINE new == [j \in 1 .. n + 2 |-> t[j]]
           both == b \o <<x, y>>
<1>1. IsSeq(b) /\ Len(b) = n /\ \A j \in 1 .. n : b[j] = t[j]
  BY SeqFrom
<1>2. IsSeq(new) /\ Len(new) = n + 2 /\ \A j \in 1 .. n + 2 : new[j] = t[j]
  <2>1. n + 2 \in Nat /\ new = [j \in 1 .. n + 2 |-> t[j]]
    OBVIOUS
  <2> HIDE DEF new
  <2> QED
    BY <2>1, SeqFrom
<1> HIDE DEF new
<1>3. IsSeq(both) /\ Len(both) = Len(b) + 2
  BY <1>1, AppendTwo
<1>4. both[Len(b) + 1] = x /\ both[Len(b) + 2] = y
  BY <1>1, AppendTwo
<1>5. \A j \in 1 .. Len(b) : both[j] = b[j]
  BY <1>1, AppendTwo
<1> HIDE DEF both
<1>6. ASSUME NEW j \in 1 .. n + 2 PROVE both[j] = new[j]
  <2>1. j \in 1 .. n \/ j = n + 1 \/ j = n + 2
    OBVIOUS
  <2> QED
    BY <1>1, <1>2, <1>4, <1>5, <2>1
<1>7. both = new
  BY <1>1, <1>2, <1>3, <1>6, SeqEqual
<1> QED
  BY <1>7 DEF both, new

(* Garbling a gate leaves the other parties alone.                         *)
LEMMA GarbleGateKeeps ==
    ASSUME GarbleInv, NEW r \in Garbler, GarbleGate(r)
    PROVE  OthersKeep(r)
<1>1. r \in Role /\ r # "eval" /\ (r # "g1" => sb' = sb)
  BY Garblers DEF GarbleGate
<1>2. \E key : SetWire(r, key)
  BY DEF GarbleGate
<1>3. DOMAIN wires' = Role /\ \A q \in Role : q # r => wires'[q] = wires[q]
  BY <1>1, <1>2, SetWireIs
<1>4. DOMAIN gen' = Role /\ \A q \in Role : q # r => gen'[q] = gen[q]
  BY DEF GarbleGate, GarbleInv, PlacesInv
<1>5. DOMAIN gate' = Role /\ \A q \in Role : q # r => gate'[q] = gate[q]
  BY DEF GarbleGate, GarbleInv, PlacesInv
<1> QED
  BY <1>1, <1>3, <1>4, <1>5 DEF GarbleGate, GarbleInv, PlacesInv, OthersKeep, ByRole

(* What a garbler has while it computes.                                   *)
LEMMA Garbling ==
    ASSUME GarbleInv, NEW r \in Garbler, pc[r] = "compute"
    PROVE  /\ gen[r] = [delta |-> Delta, one |-> OneKey, S |-> Start,
                        gid |-> (call[r] - 1) * NumAnds(circuit) + AndsTo(circuit, gate[r] - 1)]
           /\ Wires(r) = ZeroWires(circuit, call[r])[gate[r] - 1]
           /\ \A l : [wires[r] EXCEPT ![call[r]] = ZeroWires(circuit, call[r])[l]]
                       = WiresAt(circuit, r, "compute", call[r], l)
<1>1. r \in Role /\ r # "eval" /\ circuit \in Circuits /\ call[r] \in 1 .. NumCalls
  BY Garblers, Here
<1>2. OwnIs(circuit, r, pc[r], call[r], gate[r], gen[r], drawn[r], wires[r], out[r])
  BY <1>1, Now
<1>3. gen[r] = GenAt(circuit, r, "compute", call[r], gate[r] - 1)
      /\ wires[r] = WiresAt(circuit, r, "compute", call[r], gate[r] - 1)
  BY <1>2 DEF OwnIs
<1>4. "compute" \in InCall /\ "compute" # "construct"
  BY DEF InCall
<1>5. \A l : WiresAfter(circuit, r, call[r], l) = ZeroWires(circuit, call[r])[l]
  BY <1>1 DEF WiresAfter
<1>6. /\ WiresAt(circuit, r, "compute", call[r], gate[r] - 1)[call[r]] =
           WiresAfter(circuit, r, call[r], gate[r] - 1)
      /\ \A l : [WiresAt(circuit, r, "compute", call[r], gate[r] - 1) EXCEPT
                   ![call[r]] = WiresAfter(circuit, r, call[r], l)] = WiresAt(circuit, r, "compute", call[r], l)
  BY <1>1, <1>4, WiresStep
<1>7. gen[r] = [delta |-> Delta, one |-> OneKey, S |-> Start,
                gid |-> (call[r] - 1) * NumAnds(circuit) + AndsTo(circuit, gate[r] - 1)]
  BY <1>1, <1>3, <1>4 DEF GenAt
<1>8. Wires(r) = ZeroWires(circuit, call[r])[gate[r] - 1]
  BY <1>3, <1>5, <1>6 DEF Wires
<1>9. \A l : [wires[r] EXCEPT ![call[r]] = ZeroWires(circuit, call[r])[l]]
               = WiresAt(circuit, r, "compute", call[r], l)
  BY <1>3, <1>5, <1>6
<1> QED
  BY <1>7, <1>8, <1>9

(* What a garbler has after a gate.                                        *)
LEMMA GarbleGateOwn ==
    ASSUME GarbleInv, NEW r \in Garbler, GarbleGate(r)
    PROVE  /\ OwnIs(circuit, r, pc'[r], call'[r], gate'[r], gen'[r], drawn'[r], wires'[r], out'[r])
           /\ r = "g1" => SentIs(circuit, pc'[r], call'[r], gate'[r], sb')
<1> DEFINE f == circuit
           c == call[r]
           k == gate[r]
           z == ZeroWires(f, c)[k - 1]
           g == f.gates[k]
           garbling == GarblingOf(f, c, k, z)
           isAnd == g.type = "AND"
           key == IF isAnd THEN OutputKey(garbling) ELSE FreeKey(z, g, OneKey)
           one == IF isAnd THEN 1 ELSE 0
<1>1. r \in Role /\ r # "eval" /\ pc[r] = "compute" /\ GatesLeft(r)
  BY Garblers DEF GarbleGate, At
<1>2. /\ f \in Circuits /\ c \in 1 .. NumCalls /\ c \in Int /\ k \in 1 .. Len(f.gates) /\ k \in Int
      /\ Len(f.gates) \in Nat /\ k - 1 \in 0 .. Len(f.gates)
  BY <1>1, Here
<1>3. /\ gen[r] = [delta |-> Delta, one |-> OneKey, S |-> Start,
                   gid |-> (c - 1) * NumAnds(f) + AndsTo(f, k - 1)]
      /\ Wires(r) = z /\ Gate(r) = g
  BY <1>1, Garbling DEF Gate
<1>4. pc'[r] = "compute" /\ call'[r] = c /\ drawn'[r] = drawn[r] /\ out'[r] = out[r] /\ gate'[r] = k + 1
  BY <1>1, Now DEF GarbleGate
<1>5. AndsTo(f, k) = AndsTo(f, k - 1) + one /\ AndsTo(f, k - 1) \in Nat /\ NumAnds(f) \in Nat
  <2>1. AndsTo(f, Len(f.gates)) \in Nat
    BY <1>2, AndsCounted
  <2> QED
    BY <1>2, <2>1, AndsCounted
<1>6. [S |-> gen[r].S, gid |-> gen[r].gid, delta |-> gen[r].delta,
       a |-> Wires(r)[Gate(r).in1], b |-> Wires(r)[Gate(r).in2]] = garbling
  BY <1>3 DEF GarblingOf
<1> HIDE DEF f, c, k, z, g, garbling, isAnd
<1>7. /\ SetWire(r, key)
      /\ gen'[r] = [gen[r] EXCEPT !.gid = @ + one]
      /\ r = "g1" => sb' = IF isAnd THEN sb \o <<TableBlock(1, garbling), TableBlock(2, garbling)>> ELSE sb
  <2>1. CASE isAnd
    <3>1. /\ SetWire(r, OutputKey(garbling)) /\ gen' = [gen EXCEPT ![r].gid = @ + 1]
          /\ r = "g1" => sb' = sb \o <<TableBlock(1, garbling), TableBlock(2, garbling)>>
      BY <1>3, <1>6, <2>1 DEF GarbleGate, isAnd
    <3> QED
      BY <1>1, <2>1, <3>1, Now
  <2>2. CASE ~isAnd
    <3>1. SetWire(r, FreeKey(z, g, OneKey)) /\ gen' = gen /\ sb' = sb
      BY <1>3, <2>2 DEF GarbleGate, isAnd
    <3>2. gen[r] = [gen[r] EXCEPT !.gid = @ + 0]
      BY <1>2, <1>3, <1>5
    <3> QED
      BY <2>2, <3>1, <3>2
  <2> QED
    BY <2>1, <2>2
<1>8. wires'[r] = WiresAt(f, r, "compute", c, k)
  <2>1. wires'[r] = [wires[r] EXCEPT ![call[r]] = [Wires(r) EXCEPT ![Gate(r).out] = key]]
    BY <1>1, <1>7, SetWireIs
  <2>2. ZeroWires(f, c)[k] = [z EXCEPT ![g.out] = key]
    <3>1. z = ZeroWires(f, c)[k - 1] /\ g = f.gates[k]
      BY DEF z, g
    <3>2. ZeroWires(f, c)[k] =
            [z EXCEPT ![g.out] = IF g.type = "AND" THEN OutputKey(GarblingOf(f, c, k, z))
                                 ELSE FreeKey(z, g, OneKey)]
      BY <1>2, <3>1, ZeroNext
    <3> QED
      BY <3>2 DEF garbling, isAnd
  <2>3. wires'[r] = [wires[r] EXCEPT ![c] = ZeroWires(f, c)[k]]
    BY <1>3, <2>1, <2>2 DEF c
  <2>4. \A l : [wires[r] EXCEPT ![c] = ZeroWires(f, c)[l]] = WiresAt(f, r, "compute", c, l)
    BY <1>1, Garbling DEF f, c
  <2> QED
    BY <2>3, <2>4
<1>9. gen'[r] = GenAt(f, r, "compute", c, k)
  <2>1. gen'[r] = [delta |-> Delta, one |-> OneKey, S |-> Start,
                   gid |-> (c - 1) * NumAnds(f) + AndsTo(f, k - 1) + one]
    BY <1>3, <1>7
  <2>2. (c - 1) * NumAnds(f) \in Int
    BY <1>2, <1>5
  <2>3. (c - 1) * NumAnds(f) + AndsTo(f, k - 1) + one = (c - 1) * NumAnds(f) + AndsTo(f, k)
    BY <1>5, <2>2
  <2> QED
    BY <1>1, <2>1, <2>3 DEF GenAt, InCall
<1>10. k + 1 - 1 = k
  BY <1>2
<1>11. drawn[r] = DrawnAt(f, r, "compute", c) /\ out[r] = OutAt(f, r, c)
  BY <1>1, Now DEF OwnIs, f, c
<1>12. OwnIs(f, r, "compute", c, k + 1, gen'[r], drawn'[r], wires'[r], out'[r])
  BY <1>2, <1>4, <1>8, <1>9, <1>10, <1>11 DEF OwnIs
<1>13. r = "g1" => sb' = SendBuffer(f, "compute", c, k)
  <2> SUFFICES ASSUME r = "g1" PROVE sb' = SendBuffer(f, "compute", c, k)
    OBVIOUS
  <2>1. sb = SendBuffer(f, "compute", c, k - 1)
    BY <1>1, Now DEF SentIs, f, c, k
  <2>2. CASE ~isAnd
    <3>1. AndsTo(f, k) = AndsTo(f, k - 1)
      BY <1>5, <2>2
    <3> QED
      BY <1>7, <2>1, <2>2, <3>1 DEF SendBuffer
  <2>3. CASE isAnd
    <3> DEFINE n == 2 * AndsTo(f, k - 1)
               t == Tables(f, c)
    <3>1. /\ n \in Nat /\ t[n + 1] = TableBlock(1, garbling) /\ t[n + 2] = TableBlock(2, garbling)
          /\ 2 * AndsTo(f, k) = n + 2
      BY <1>2, <2>3, TableOf DEF garbling, z, isAnd, g
    <3>2. sb = [j \in 1 .. n |-> t[j]] /\ SendBuffer(f, "compute", c, k) = [j \in 1 .. n + 2 |-> t[j]]
      BY <2>1, <3>1 DEF SendBuffer
    <3> HIDE DEF n, t
    <3>3. sb \o <<TableBlock(1, garbling), TableBlock(2, garbling)>> = [j \in 1 .. n + 2 |-> t[j]]
      BY <3>1, <3>2, TwoMore, SMTT(30)
    <3> QED
      BY <1>7, <2>3, <3>2, <3>3
  <2> QED
    BY <2>2, <2>3
<1>14. r = "g1" => SentIs(f, "compute", c, k + 1, sb')
  BY <1>2, <1>10, <1>13 DEF SentIs
<1> QED
  BY <1>4, <1>12, <1>14 DEF f

(* GarbleGate keeps the invariant.                                         *)
LEMMA GarbleGateStep ==
    ASSUME GarbleInv, NEW r \in Garbler, GarbleGate(r)
    PROVE  GarbleInv'
<1>1. r \in Role /\ r # "eval" /\ pc[r] = "compute" /\ GatesLeft(r)
  BY Garblers DEF GarbleGate, At
<1>2. /\ pc'[r] = pc[r] /\ call'[r] = call[r] /\ gate'[r] = gate[r] + 1
      /\ sending'[r] = sending[r] /\ received'[r] = received[r]
  BY <1>1, Now DEF GarbleGate
<1>3. OthersKeep(r)
  BY GarbleGateKeeps
<1>4. PlaceIs(circuit, r, pc'[r], call'[r], gate'[r], stream[r], sending'[r], received'[r])
  <2>1. gate[r] + 1 \in 1 .. Len(circuit.gates) + 1
    BY <1>1, Here
  <2> QED
    BY <1>1, <1>2, <2>1, Now DEF PlaceIs
<1>5. PipeIs(circuit, r, pc'[r], call'[r], stream[r], sending'[r], pc[Dest(r)], call[Dest(r)], received[Dest(r)])
  BY <1>1, <1>2, Now
<1>6. \A s \in Role : Dest(s) = r => PipeIs(circuit, s, pc[s], call[s], stream[s], sending[s],
                                            pc'[r], call'[r], received'[r])
  BY <1>2, Now
<1> QED
  BY <1>1, <1>3, <1>4, <1>5, <1>6, GarbleGateOwn, PartyStep

(* What a garbler has before it draws its keys.                            *)
LEMMA BeforeKeys ==
    ASSUME GarbleInv, NEW r \in Garbler, pc[r] = "garble"
    PROVE  /\ gen[r].delta = Delta /\ gen[r] = GenAt(circuit, r, "compute", call[r], 0)
           /\ \A i : \A loc \in 1 .. 2 : ZeroKey(r, loc, i) = KeyOf(circuit, call[r], loc, i)
           /\ [drawn[r] EXCEPT !["garblers"] = @ + KeysDrawn(r)] = DrawnAt(circuit, r, "compute", call[r])
<1> DEFINE f == circuit
           c == call[r]
<1>1. r \in Role /\ r # "eval" /\ f \in Circuits /\ c \in 1 .. NumCalls /\ c \in Int
  BY Garblers, Here
<1>2. gen[r] = GenAt(f, r, "garble", c, gate[r] - 1) /\ drawn[r] = DrawnAt(f, r, "garble", c)
  BY <1>1, Now DEF OwnIs
<1>3. f.num_input \in Nat /\ f.num_output \in Nat /\ NumAnds(f) \in Nat /\ AndsTo(f, 0) = 0
  BY <1>1, CircuitIs, AndsCounted
<1>4. "garble" \notin InCall /\ "compute" \in InCall
  BY DEF InCall
<1> HIDE DEF f, c
<1>5. gen[r] = [delta |-> Delta, one |-> OneKey, S |-> Start, gid |-> (c - 1) * NumAnds(f) + 0]
  BY <1>1, <1>2, <1>4 DEF GenAt
<1>6. gen[r] = GenAt(f, r, "compute", c, 0)
  BY <1>1, <1>3, <1>4, <1>5 DEF GenAt
<1> DEFINE n == DrawnPerCall(f)
           g1_eval == IF r = "g2" THEN 0 ELSE (c - 1) * f.num_output
<1>7. n \in Nat /\ n = 2 * f.num_input + f.num_output
  BY <1>3 DEF DrawnPerCall
<1>8. drawn[r] = [garblers |-> 4 + (c - 1) * n + 0, g1_eval |-> g1_eval]
  BY <1>1, <1>2, <1>4 DEF DrawnAt
<1>9. DrawnAt(f, r, "compute", c) = [garblers |-> 4 + (c - 1) * n + n, g1_eval |-> g1_eval]
  BY <1>1, <1>4 DEF DrawnAt
<1> HIDE DEF n, g1_eval
<1>10. (c - 1) * n \in Int
  BY <1>1, <1>7
<1>11. drawn[r].garblers = 4 + (c - 1) * n
  BY <1>8, <1>10
<1>12. KeysDrawn(r) = n
  BY <1>7 DEF KeysDrawn, f
<1>13. [drawn[r] EXCEPT !["garblers"] = @ + KeysDrawn(r)] = DrawnAt(f, r, "compute", c)
  BY <1>7, <1>8, <1>9, <1>10, <1>12
<1>14. \A i : \A loc \in 1 .. 2 : ZeroKey(r, loc, i) = KeyOf(f, c, loc, i)
  BY <1>11 DEF ZeroKey, KeyOf, f, n
<1> QED
  BY <1>5, <1>6, <1>13, <1>14 DEF f, c

(* The words of a call: the keys, the tables, the shares of the outputs.   *)
LEMMA WordsIs ==
    ASSUME NEW f \in Circuits, NEW c
    PROVE  /\ \A j \in 1 .. f.num_input : Words(f, "g1", c)[j] = Active(f, c, G1Eval, j)
           /\ \A j \in 1 .. 2 * NumAnds(f) : Words(f, "g1", c)[f.num_input + j] = Tables(f, c)[j]
           /\ \A j \in 1 .. f.num_input : Words(f, "g2", c)[j] = Active(f, c, EvalG2, j)
           /\ Words(f, "eval", c) = FromEval(f, c)
<1> DEFINE n == f.num_input
           m == 2 * NumAnds(f)
           own == [i \in 1 .. n |-> Active(f, c, G1Eval, i)]
           t == Tables(f, c)
           all == own \o t
<1>1. n \in Nat /\ m \in Nat
  BY CircuitIs, AndsCounted
<1>2. own = [j \in 1 .. n |-> own[j]] /\ \A j \in 1 .. n : own[j] = Active(f, c, G1Eval, j)
  OBVIOUS
<1>3. t = [j \in 1 .. m |-> t[j]]
  BY DEF Tables
<1> HIDE DEF own, t, n, m
<1>4. IsSeq(own) /\ Len(own) = n
  BY <1>1, <1>2, SeqFrom
<1>5. IsSeq(t) /\ Len(t) = m
  BY <1>1, <1>3, SeqFrom
<1>6. /\ \A j \in 1 .. Len(own) : all[j] = own[j]
      /\ \A j \in 1 .. Len(t) : all[Len(own) + j] = t[j]
  <2>1. IsSeq(own) /\ IsSeq(t)
    BY <1>4, <1>5
  <2> QED
    BY <2>1, ConcatIs
<1>7. Words(f, "g1", c) = all
  BY DEF Words, own, t, n
<1> HIDE DEF all
<1>8. \A j \in 1 .. n : all[j] = Active(f, c, G1Eval, j)
  BY <1>2, <1>4, <1>6
<1>9. \A j \in 1 .. m : all[n + j] = t[j]
  BY <1>4, <1>5, <1>6
<1>10. /\ \A j \in 1 .. n : Words(f, "g2", c)[j] = Active(f, c, EvalG2, j)
       /\ Words(f, "eval", c) = FromEval(f, c)
  BY DEF Words, n
<1> QED
  BY <1>7, <1>8, <1>9, <1>10 DEF n, m, t

(* What a garbler has after it has drawn the keys.                         *)
LEMMA SendKeysOwn ==
    ASSUME GarbleInv, NEW r \in Garbler, SendKeys(r)
    PROVE  /\ OwnIs(circuit, r, pc'[r], call'[r], gate'[r], gen'[r], drawn'[r], wires'[r], out'[r])
           /\ r = "g1" => SentIs(circuit, pc'[r], call'[r], gate'[r], sb')
<1> DEFINE f == circuit
           c == call[r]
<1>1. r \in Role /\ r # "eval" /\ pc[r] = "garble"
  BY Garblers DEF SendKeys, At
<1>2. f \in Circuits /\ c \in 1 .. NumCalls
  BY <1>1, Here
<1>3. /\ gen[r].delta = Delta /\ gen[r] = GenAt(f, r, "compute", c, 0)
      /\ \A i : \A loc \in 1 .. 2 : ZeroKey(r, loc, i) = KeyOf(f, c, loc, i)
      /\ [drawn[r] EXCEPT !["garblers"] = @ + KeysDrawn(r)] = DrawnAt(f, r, "compute", c)
  BY <1>1, BeforeKeys
<1>4. pc'[r] = "compute" /\ call'[r] = c /\ out'[r] = out[r] /\ gate'[r] = 1 /\ gen'[r] = gen[r]
  BY <1>1, Now DEF SendKeys, StartGates, Goto
<1>5. drawn'[r] = [drawn[r] EXCEPT !["garblers"] = @ + KeysDrawn(r)]
  BY <1>1, Now DEF SendKeys, Draw
<1>6. wires'[r] = Append(wires[r], InputWires(f, [i \in Inputs |-> CircuitZeroKey(r, i)]))
  BY <1>1, Now DEF SendKeys, StartGates
<1>7. /\ wires[r] = WiresAt(f, r, "garble", c, gate[r] - 1) /\ out[r] = OutAt(f, r, c)
      /\ r = "g1" => sb = SendBuffer(f, "garble", c, gate[r] - 1)
  BY <1>1, Now DEF OwnIs, SentIs
<1>8. \A i : CircuitZeroKey(r, i) = InputZero(f, c, i)
  BY <1>3 DEF CircuitZeroKey, InputZero, G1Eval, EvalG2
<1>9. InputWires(f, [i \in Inputs |-> CircuitZeroKey(r, i)]) = WiresAfter(f, r, c, 0)
  <2>1. [i \in Inputs |-> CircuitZeroKey(r, i)] = [i \in 1 .. f.num_input |-> InputZero(f, c, i)]
    BY <1>8 DEF Inputs
  <2>2. ZeroWires(f, c)[0] = InputWires(f, [i \in 1 .. f.num_input |-> InputZero(f, c, i)])
    BY <1>2, ZeroWiresIs
  <2> QED
    BY <1>1, <2>1, <2>2 DEF WiresAfter
<1> HIDE DEF f, c
<1>10. "garble" \notin InCall
  BY DEF InCall
<1>11. wires'[r] = WiresAt(f, r, "compute", c, 0)
  BY <1>1, <1>2, <1>6, <1>7, <1>9, <1>10, WiresStart
<1>12. OwnIs(f, r, "compute", c, 1, gen'[r], drawn'[r], wires'[r], out'[r])
  BY <1>3, <1>4, <1>5, <1>7, <1>11 DEF OwnIs
<1>13. r = "g1" => sb' = SendBuffer(f, "compute", c, 0)
  <2>1. 2 * AndsTo(f, 0) = 0 /\ sb' = sb
    BY <1>2, AndsCounted DEF SendKeys
  <2> QED
    BY <1>7, <2>1 DEF SendBuffer
<1>14. r = "g1" => SentIs(f, "compute", c, 1, sb')
  BY <1>13 DEF SentIs
<1> QED
  BY <1>4, <1>12, <1>14 DEF f

(* A position some places further on.                                      *)
LEMMA Offset ==
    ASSUME NEW f \in Circuits, NEW s \in Role, NEW c \in 1 .. NumCalls + 1, NEW off \in Nat, NEW j \in Nat,
           NEW k, k = off + j
    PROVE  Position(f, s, c, off) + j = Position(f, s, c, k)
<1>1. \A x, y \in Nat : Position(f, s, c, x + y) = Position(f, s, c, x) + y
  BY Positions
<1>2. Position(f, s, c, off + j) = Position(f, s, c, off) + j
  BY <1>1
<1> QED
  BY <1>2

(* The keys of a garbler's own share go first.                             *)
LEMMA SendKeysPipe ==
    ASSUME GarbleInv, NEW r \in Garbler, SendKeys(r)
    PROVE  PipeIs(circuit, r, pc'[r], call'[r], stream[r], sending'[r],
                  pc[Dest(r)], call[Dest(r)], received[Dest(r)])
           /\ IsSeq(sending'[r])
<1> DEFINE f == circuit
           c == call[r]
           n == f.num_input
           loc == IF r = "g1" THEN G1Eval ELSE EvalG2
           se == sending'[r]
           d == Dest(r)
<1>1. r \in Role /\ r # "eval" /\ pc[r] = "garble" /\ sending[r] = <<>> /\ d \in Role /\ (r = "g1" \/ r = "g2")
  BY Garblers DEF SendKeys, At, Role
<1>2. f \in Circuits /\ c \in 1 .. NumCalls /\ c \in 1 .. NumCalls + 1 /\ n \in Nat /\ IsSeq(stream[r])
  BY <1>1, Here, CircuitIs
<1>3. call[d] \in 1 .. NumCalls + 1 /\ IsSeq(received[d])
  BY <1>1, Now DEF PlaceIs
<1>4. /\ gen[r].delta = Delta
      /\ \A i : \A l \in 1 .. 2 : ZeroKey(r, l, i) = KeyOf(f, c, l, i)
  BY <1>1, BeforeKeys
<1>5. \A i : ActiveKey(r, loc, i) = Active(f, c, loc, i)
  BY <1>4 DEF ActiveKey, Active, G1Eval, EvalG2
<1>6. se = [i \in 1 .. n |-> Active(f, c, loc, i)]
  <2>1. se = [i \in Inputs |-> ActiveKey(r, loc, i)]
    BY <1>1, Now DEF SendKeys
  <2> HIDE DEF loc
  <2> QED
    BY <1>5, <2>1 DEF Inputs
<1> HIDE DEF se
<1>7. IsSeq(se) /\ Len(se) = n /\ \A j \in 1 .. n : se[j] = Active(f, c, loc, j)
  <2> DEFINE h == [i \in 1 .. n |-> Active(f, c, loc, i)]
  <2>1. se = [j \in 1 .. n |-> h[j]] /\ \A j \in 1 .. n : h[j] = Active(f, c, loc, j)
    BY <1>6
  <2> HIDE DEF h
  <2> QED
    BY <1>2, <2>1, SeqFrom
<1>8. HasWords(f, r, c, 0, se)
  <2>1. \A j \in 1 .. n : Words(f, r, c)[j] = Active(f, c, loc, j)
    <3>1. r = "g1" => \A j \in 1 .. n : Words(f, "g1", c)[j] = Active(f, c, G1Eval, j)
      BY <1>2, WordsIs
    <3>2. r = "g2" => \A j \in 1 .. n : Words(f, "g2", c)[j] = Active(f, c, EvalG2, j)
      BY <1>2, WordsIs
    <3> QED
      BY <1>1, <3>1, <3>2
  <2> SUFFICES ASSUME NEW j \in 1 .. Len(se) PROVE se[j] = Words(f, r, c)[0 + j]
    BY DEF HasWords
  <2>2. j \in 1 .. n /\ 0 + j = j
    BY <1>2, <1>7
  <2> QED
    BY <1>7, <2>1, <2>2
<1>9. PipeIs(f, r, "garble", c, stream[r], <<>>, pc[d], call[d], received[d])
  BY <1>1, Now
<1>10. 0 + n =< Width(f, r)
  BY <1>1, <1>2, AndsCounted, CircuitIs DEF Width
<1>11. Position(f, r, c, 0) + n = Position(f, r, c, n)
  <2>1. n = 0 + n /\ 0 \in Nat
    BY <1>2
  <2>2. \A x, y \in Nat : Position(f, r, c, x + y) = Position(f, r, c, x) + y
    BY <1>1, <1>2, Positions
  <2> HIDE DEF n, f, c, loc, d
  <2> QED
    BY <1>2, <2>1, <2>2
<1>12. Sent(f, r, "garble", c) = Position(f, r, c, 0) /\ Sent(f, r, "compute", c) = Position(f, r, c, 0) + Len(se)
  BY <1>1, <1>7, <1>11 DEF Sent
<1> HIDE DEF f, c, n, loc, d
<1>13. PipeIs(f, r, "compute", c, stream[r], se, pc[d], call[d], received[d])
  <2>1. 0 + Len(se) =< Width(f, r) /\ 0 \in Nat
    BY <1>7, <1>10
  <2> QED
    BY <1>1, <1>2, <1>3, <1>7, <1>8, <1>9, <1>12, <2>1, PipeSend
<1>14. pc'[r] = "compute" /\ call'[r] = c
  BY <1>1, Now DEF SendKeys, Goto, c
<1> QED
  BY <1>7, <1>13, <1>14 DEF f, d, se

(* SendKeys keeps the invariant.                                           *)
LEMMA SendKeysStep ==
    ASSUME GarbleInv, NEW r \in Garbler, SendKeys(r)
    PROVE  GarbleInv'
<1>1. r \in Role /\ r # "eval" /\ pc[r] = "garble" /\ (r = "g1" \/ r = "g2") /\ sending[r] = <<>>
  BY Garblers DEF SendKeys, At
<1>2. /\ pc'[r] = "compute" /\ call'[r] = call[r] /\ gate'[r] = 1 /\ received'[r] = received[r]
  BY <1>1, Now DEF SendKeys, StartGates, Goto
<1>3. OthersKeep(r)
  <2>1. /\ DOMAIN drawn' = Role /\ \A q \in Role : q # r => drawn'[q] = drawn[q]
        /\ DOMAIN wires' = Role /\ \A q \in Role : q # r => wires'[q] = wires[q]
        /\ DOMAIN gate' = Role /\ \A q \in Role : q # r => gate'[q] = gate[q]
        /\ DOMAIN pc' = Role /\ \A q \in Role : q # r => pc'[q] = pc[q]
        /\ DOMAIN sending' = Role /\ \A q \in Role : q # r => sending'[q] = sending[q]
    BY DEF SendKeys, Draw, StartGates, Goto, GarbleInv, PlacesInv
  <2>2. UNCHANGED <<circuit, call, gen, keys, sb, rb, received, stream, out>>
    BY DEF SendKeys
  <2> QED
    BY <1>1, <2>1, <2>2 DEF GarbleInv, PlacesInv, OthersKeep, ByRole
<1>4. PlaceIs(circuit, r, pc'[r], call'[r], gate'[r], stream[r], sending'[r], received'[r])
  <2>1. 1 \in 1 .. Len(circuit.gates) + 1 /\ call[r] \in 1 .. NumCalls + 1 /\ call[r] # NumCalls + 1
    BY <1>1, Here, Now DEF PlaceIs
  <2>2. "compute" \in Place(r)
    BY <1>1 DEF Place
  <2>3. IsSeq(stream[r]) /\ IsSeq(received[r]) /\ Len(received[r]) =< WantedAt(circuit, r, "compute")
    <3>1. WantedAt(circuit, r, "garble") = WantedAt(circuit, r, "compute")
      BY <1>1 DEF WantedAt
    <3> QED
      BY <1>1, <3>1, Now DEF PlaceIs
  <2> QED
    BY <1>2, <2>1, <2>2, <2>3, SendKeysPipe DEF PlaceIs
<1>5. \A s \in Role : Dest(s) = r => PipeIs(circuit, s, pc[s], call[s], stream[s], sending[s],
                                            pc'[r], call'[r], received'[r])
  <2> SUFFICES ASSUME NEW s \in Role, Dest(s) = r
               PROVE  PipeIs(circuit, s, pc[s], call[s], stream[s], sending[s],
                             "compute", call[r], received[r])
    BY <1>2
  <2>1. s = "eval" /\ r = "g2"
    BY <1>1 DEF Dest, Role
  <2>2. PipeIs(circuit, s, pc[s], call[s], stream[s], sending[s], "garble", call[r], received[r])
    BY <1>1, Now
  <2>3. /\ Got(s, "garble", received[r]) = Got(s, "compute", received[r])
        /\ Taken(circuit, s, "garble", call[r]) = Taken(circuit, s, "compute", call[r])
    BY <2>1 DEF Got, Taken
  <2> QED
    BY <2>2, <2>3 DEF PipeIs
<1> QED
  BY <1>1, <1>3, <1>4, <1>5, SendKeysOwn, SendKeysPipe, PartyStep

(* Outside a call, and once the constants are gone, nothing is buffered.   *)
LEMMA NothingSent ==
    ASSUME NEW f, NEW p, p # "compute", p # "flush", NEW c, NEW k
    PROVE  SendBuffer(f, p, c, k) = <<>>
<1>1. 1 .. 0 = {}
  OBVIOUS
<1> QED
  BY <1>1 DEF SendBuffer

(* The tables follow the keys.                                             *)
LEMMA FlushPipe ==
    ASSUME GarbleInv, NEW r \in Garbler, Flush(r)
    PROVE  PipeIs(circuit, r, pc'[r], call'[r], stream[r], sending'[r],
                  pc[Dest(r)], call[Dest(r)], received[Dest(r)])
           /\ IsSeq(sending'[r])
<1> DEFINE f == circuit
           c == call[r]
           n == f.num_input
           m == 2 * NumAnds(f)
           se == sending'[r]
           d == Dest(r)
           t == Tables(f, c)
<1>1. r \in Role /\ pc[r] = "compute" /\ sending[r] = <<>> /\ d \in Role /\ (r = "g1" \/ r = "g2") /\ ~GatesLeft(r)
  BY Garblers DEF Flush, At, Role
<1>2. f \in Circuits /\ c \in 1 .. NumCalls /\ c \in 1 .. NumCalls + 1 /\ n \in Nat /\ m \in Nat /\ IsSeq(stream[r])
      /\ gate[r] - 1 = Len(f.gates)
  BY <1>1, Here, CircuitIs, AndsCounted
<1>3. call[d] \in 1 .. NumCalls + 1 /\ IsSeq(received[d])
  BY <1>1, Now DEF PlaceIs
<1>4. PipeIs(f, r, "compute", c, stream[r], <<>>, pc[d], call[d], received[d])
  BY <1>1, Now
<1>5. pc'[r] = "output" /\ call'[r] = c /\ se = IF r = "g1" THEN sb ELSE <<>>
  BY <1>1, Now DEF Flush, Goto
<1>6. CASE r = "g2"
  <2>1. Sent(f, r, "compute", c) = Sent(f, r, "output", c)
    BY <1>6 DEF Sent, Width
  <2> HIDE DEF f, c, d
  <2>2. PipeIs(f, r, "output", c, stream[r], <<>>, pc[d], call[d], received[d])
    BY <1>4, <2>1 DEF PipeIs
  <2>3. se = <<>> /\ IsSeq(se)
    BY <1>5, <1>6, EmptyIs
  <2> QED
    BY <1>5, <2>2, <2>3 DEF f, d
<1>7. CASE r = "g1"
  <2>1. sb = SendBuffer(f, "compute", c, Len(f.gates))
    BY <1>1, <1>2, <1>7, Now DEF SentIs
  <2>2. 2 * AndsTo(f, Len(f.gates)) = m
    BY <1>2, AndsCounted
  <2> HIDE DEF f, c, n, m, d, t, se
  <2>3. se = [j \in 1 .. m |-> t[j]]
    BY <1>5, <1>7, <2>1, <2>2 DEF SendBuffer, t
  <2>4. IsSeq(se) /\ Len(se) = m /\ \A j \in 1 .. m : se[j] = t[j]
    BY <1>2, <2>3, SeqFrom
  <2>5. HasWords(f, r, c, n, se)
    <3>1. \A j \in 1 .. m : Words(f, "g1", c)[n + j] = t[j]
      BY <1>2, WordsIs DEF n, m, t
    <3> QED
      BY <1>7, <2>4, <3>1 DEF HasWords
  <2>6. n + Len(se) =< Width(f, r) /\ n + m = Width(f, r)
    BY <1>2, <1>7, <2>4 DEF Width, n, m
  <2>7. Sent(f, r, "compute", c) = Position(f, r, c, n)
    BY <1>7 DEF Sent, n
  <2>8. Sent(f, r, "output", c) = Position(f, r, c, n) + Len(se)
    <3>1. Sent(f, r, "output", c) = Position(f, r, c, Width(f, r))
      BY <1>7 DEF Sent
    <3>2. Position(f, r, c, n) + m = Position(f, r, c, Width(f, r))
      BY <1>1, <1>2, <2>6, Offset
    <3> QED
      BY <2>4, <3>1, <3>2
  <2>9. PipeIs(f, r, "output", c, stream[r], se, pc[d], call[d], received[d])
    BY <1>1, <1>2, <1>3, <1>4, <2>4, <2>5, <2>6, <2>7, <2>8, PipeSend
  <2> QED
    BY <1>5, <2>4, <2>9 DEF f, d, se
<1> QED
  BY <1>1, <1>6, <1>7

(* Flush keeps the invariant.                                              *)
LEMMA FlushStep ==
    ASSUME GarbleInv, NEW r \in Garbler, Flush(r)
    PROVE  GarbleInv'
<1> DEFINE f == circuit
           c == call[r]
<1>1. r \in Role /\ r # "eval" /\ pc[r] = "compute" /\ (r = "g1" \/ r = "g2") /\ sending[r] = <<>>
      /\ Len(received[r]) = Wanted(r) /\ ~GatesLeft(r)
  BY Garblers DEF Flush, At
<1>2. /\ pc'[r] = "output" /\ call'[r] = c /\ gate'[r] = gate[r] /\ received'[r] = received[r]
      /\ gen'[r] = gen[r] /\ drawn'[r] = drawn[r] /\ wires'[r] = wires[r] /\ out'[r] = out[r]
  BY <1>1, Now DEF Flush, Goto
<1>3. OthersKeep(r)
  <2>1. /\ DOMAIN pc' = Role /\ \A q \in Role : q # r => pc'[q] = pc[q]
        /\ DOMAIN sending' = Role /\ \A q \in Role : q # r => sending'[q] = sending[q]
    BY DEF Flush, Goto, GarbleInv, PlacesInv
  <2> QED
    BY <1>1, <2>1 DEF Flush, GarbleInv, PlacesInv, OthersKeep, ByRole
<1>4. PlaceIs(f, r, pc'[r], call'[r], gate'[r], stream[r], sending'[r], received'[r])
  <2>1. call[r] \in 1 .. NumCalls + 1 /\ call[r] # NumCalls + 1 /\ gate[r] \in 1 .. Len(f.gates) + 1
    BY <1>1, Here, Now DEF PlaceIs
  <2>2. "output" \in Place(r)
    BY <1>1 DEF Place
  <2>3. Len(received[r]) = 0 /\ 0 =< WantedAt(f, r, "output") /\ IsSeq(received[r]) /\ IsSeq(stream[r])
    <3>1. Wanted(r) = 0 /\ f.num_output \in Nat
      BY <1>1, Here, CircuitIs DEF Wanted
    <3> QED
      BY <1>1, <3>1, Here DEF WantedAt
  <2>4. ~(gate[r] =< Len(f.gates))
    BY <1>1 DEF GatesLeft
  <2>5. IsSeq(sending'[r])
    BY FlushPipe
  <2> QED
    BY <1>2, <2>1, <2>2, <2>3, <2>4, <2>5 DEF PlaceIs
<1>5. OwnIs(f, r, pc'[r], call'[r], gate'[r], gen'[r], drawn'[r], wires'[r], out'[r])
  <2>1. \A k : /\ GenAt(f, r, "compute", c, k) = GenAt(f, r, "output", c, k)
               /\ DrawnAt(f, r, "compute", c) = DrawnAt(f, r, "output", c)
               /\ WiresAt(f, r, "compute", c, k) = WiresAt(f, r, "output", c, k)
    BY DEF GenAt, DrawnAt, WiresAt, InCall
  <2>2. OwnIs(f, r, "compute", c, gate[r], gen[r], drawn[r], wires[r], out[r])
    BY <1>1, Now
  <2> HIDE DEF f, c
  <2> QED
    BY <1>2, <2>1, <2>2 DEF OwnIs
<1>6. r = "g1" => SentIs(f, pc'[r], call'[r], gate'[r], sb')
  <2> SUFFICES ASSUME r = "g1" PROVE sb' = SendBuffer(f, "output", c, gate[r] - 1)
    BY <1>2 DEF SentIs
  <2>1. sb' = <<>>
    BY DEF Flush
  <2>2. SendBuffer(f, "output", c, gate[r] - 1) = <<>>
    BY NothingSent
  <2> QED
    BY <2>1, <2>2
<1>7. \A s \in Role : Dest(s) = r => PipeIs(f, s, pc[s], call[s], stream[s], sending[s],
                                            pc'[r], call'[r], received'[r])
  <2> SUFFICES ASSUME NEW s \in Role, Dest(s) = r
               PROVE  PipeIs(f, s, pc[s], call[s], stream[s], sending[s], "output", c, received[r])
    BY <1>2
  <2>1. s = "eval" /\ r = "g2"
    BY <1>1 DEF Dest, Role
  <2>2. PipeIs(f, s, pc[s], call[s], stream[s], sending[s], "compute", c, received[r])
    BY <1>1, Now
  <2>3. /\ Got(s, "compute", received[r]) = Got(s, "output", received[r])
        /\ Taken(f, s, "compute", c) = Taken(f, s, "output", c)
    BY <2>1 DEF Got, Taken
  <2> QED
    BY <2>2, <2>3 DEF PipeIs
<1> QED
  BY <1>1, <1>3, <1>4, <1>5, <1>6, <1>7, FlushPipe, PartyStep

(* The three blocks of the constructor.                                    *)
LEMMA ThreeOf == \A x, y, z : <<x, y>> \o <<z>> = <<x, y, z>>
<1> SUFFICES ASSUME NEW x, NEW y, NEW z PROVE <<x, y>> \o <<z>> = <<x, y, z>>
  OBVIOUS
<1> DEFINE a == <<x, y>>
           b == <<x, y, z>>
           w == Append(a, z)
<1>1. IsSeq(a) /\ Len(a) = 2 /\ a[1] = x /\ a[2] = y
  BY DEF IsSeq
<1>2. IsSeq(b) /\ Len(b) = 3 /\ b[1] = x /\ b[2] = y /\ b[3] = z
  BY DEF IsSeq
<1> HIDE DEF a, b
<1>3. IsSeq(a)
  BY <1>1
<1>4. w = a \o <<z>> /\ IsSeq(w) /\ Len(w) = Len(a) + 1 /\ w[Len(a) + 1] = z
  BY <1>3, AppendIs
<1>5. \A j \in 1 .. Len(a) : w[j] = a[j]
  BY <1>3, AppendIs
<1> HIDE DEF w
<1>6. Len(w) = 3 /\ w[3] = z
  BY <1>1, <1>4
<1>7. w[1] = x /\ w[2] = y
  <2>1. 1 \in 1 .. Len(a) /\ 2 \in 1 .. Len(a)
    BY <1>1
  <2> QED
    BY <1>1, <1>5, <2>1
<1>8. \A j \in 1 .. Len(w) : w[j] = b[j]
  <2>1. \A j \in 1 .. 3 : j = 1 \/ j = 2 \/ j = 3
    OBVIOUS
  <2> QED
    BY <1>2, <1>6, <1>7, <2>1
<1>9. w = b
  BY <1>2, <1>4, <1>6, <1>8, SeqEqual
<1> QED
  BY <1>4, <1>9 DEF a, b

(* The generator and the constants of a garbler.                           *)
LEMMA ConstructOwn ==
    ASSUME GarbleInv, NEW r \in Garbler, ConstructGarbler(r)
    PROVE  /\ OwnIs(circuit, r, pc'[r], call'[r], gate'[r], gen'[r], drawn'[r], wires'[r], out'[r])
           /\ r = "g1" => SentIs(circuit, pc'[r], call'[r], gate'[r], sb')
<1> DEFINE f == circuit
           k == gate[r] - 1
           q == IF r = "g1" THEN "flush" ELSE "garble"
           Tmp(i) == Sample("garblers", drawn[r].garblers + i)
           delta == Atom(<<"delta", drawn[r].garblers + 1>>)
           constants == <<Tmp(3), Tmp(4)>>
<1>1. r \in Role /\ r # "eval" /\ pc[r] = "construct" /\ f \in Circuits
  BY Garblers, Now DEF ConstructGarbler, At
<1>2. call[r] = 1 /\ 1 \in 1 .. NumCalls
  BY <1>1, Now, Here DEF PlaceIs
<1>3. pc'[r] = q /\ call'[r] = 1 /\ gate'[r] = gate[r] /\ wires'[r] = wires[r] /\ out'[r] = out[r]
  BY <1>1, <1>2, Now DEF ConstructGarbler, Goto
<1>4. /\ drawn[r] = DrawnAt(f, r, "construct", 1) /\ wires[r] = WiresAt(f, r, "construct", 1, k)
      /\ out[r] = OutAt(f, r, 1) /\ (r = "g1" => sb = SendBuffer(f, "construct", 1, k))
  BY <1>1, <1>2, Now DEF OwnIs, SentIs
<1>5. "construct" \notin InCall /\ q \notin InCall /\ q # "construct"
  BY DEF InCall
<1>6. f.num_output \in Nat /\ f.num_input \in Nat /\ NumAnds(f) \in Nat /\ DrawnPerCall(f) \in Nat
  BY <1>1, CircuitIs, AndsCounted DEF DrawnPerCall
<1>7. /\ gen'[r] = [delta |-> delta, one |-> constants[2] (+) delta, S |-> Tmp(2), gid |-> 0]
      /\ r = "g1" => sb' = sb \o (constants \o <<Tmp(2)>>)
  BY <1>1, Now DEF ConstructGarbler
<1>8. drawn'[r] = [drawn[r] EXCEPT !["garblers"] = @ + 4]
  BY <1>1, Now DEF ConstructGarbler, Draw
<1>9. drawn[r] = [garblers |-> 0, g1_eval |-> IF r = "g2" THEN 0 ELSE (1 - 1) * f.num_output]
  BY <1>1, <1>4 DEF DrawnAt
<1>10. drawn[r].garblers + 1 = 1 /\ drawn[r].garblers + 2 = 2 /\ drawn[r].garblers + 3 = 3 /\ drawn[r].garblers + 4 = 4
  BY <1>9
<1>11. Tmp(2) = Start /\ Tmp(3) = Sample("garblers", 3) /\ Tmp(4) = Sample("garblers", 4) /\ delta = Delta
  BY <1>10 DEF Start, Delta
<1> HIDE DEF f, k, q
<1>12. drawn'[r] = DrawnAt(f, r, q, 1)
  <2>1. (1 - 1) * DrawnPerCall(f) = 0
    BY <1>6
  <2>2. DrawnAt(f, r, q, 1) =
          [garblers |-> 4 + (1 - 1) * DrawnPerCall(f) + 0,
           g1_eval |-> IF r = "g2" THEN 0 ELSE (1 - 1) * f.num_output]
    BY <1>1, <1>5 DEF DrawnAt
  <2> QED
    BY <1>8, <1>9, <1>10, <2>1, <2>2
<1>13. gen'[r] = GenAt(f, r, q, 1, k)
  <2>1. constants[2] = Tmp(4)
    OBVIOUS
  <2> HIDE DEF Tmp, delta, constants
  <2>2. gen'[r] = [delta |-> Delta, one |-> OneKey, S |-> Start, gid |-> 0]
    BY <1>7, <1>11, <2>1 DEF OneKey
  <2>3. (1 - 1) * NumAnds(f) + 0 = 0
    BY <1>6
  <2>4. GenAt(f, r, q, 1, k) = [delta |-> Delta, one |-> OneKey, S |-> Start, gid |-> (1 - 1) * NumAnds(f) + 0]
    BY <1>1, <1>5 DEF GenAt
  <2> QED
    BY <2>2, <2>3, <2>4
<1>14. wires'[r] = WiresAt(f, r, q, 1, k)
  <2>1. f \in Circuits
    BY <1>1 DEF f
  <2>2. WiresAt(f, r, "construct", 1, k) = WiresAt(f, r, q, 1, k)
    BY <1>1, <1>2, <1>5, <2>1, WiresEnd
  <2> QED
    BY <1>3, <1>4, <2>2
<1>15. constants \o <<Tmp(2)>> = Opening
  <2>1. constants \o <<Tmp(2)>> = <<Tmp(3), Tmp(4), Tmp(2)>>
    <3> HIDE DEF Tmp
    <3> QED
      BY ThreeOf
  <2>2. <<Tmp(3), Tmp(4), Tmp(2)>> = Opening
    BY <1>11 DEF Opening
  <2> HIDE DEF constants, Tmp
  <2> QED
    BY <2>1, <2>2
<1>16. r = "g1" => sb' = SendBuffer(f, q, 1, k)
  <2> SUFFICES ASSUME r = "g1" PROVE sb' = Opening
    BY DEF SendBuffer, q
  <2>1. sb = <<>>
    BY <1>4, NothingSent
  <2>2. IsSeq(Opening)
    BY DEF Opening, IsSeq
  <2> HIDE DEF constants, Tmp
  <2> QED
    BY <1>7, <1>15, <2>1, <2>2, EmptyIs
<1>17. OwnIs(f, r, q, 1, gate[r], gen'[r], drawn'[r], wires'[r], out'[r])
  BY <1>3, <1>4, <1>12, <1>13, <1>14 DEF OwnIs, k
<1>18. r = "g1" => SentIs(f, q, 1, gate[r], sb')
  BY <1>16 DEF SentIs, k
<1> QED
  BY <1>3, <1>17, <1>18 DEF f

(* ConstructGarbler keeps the invariant: nothing is sent yet.              *)
LEMMA ConstructGarblerStep ==
    ASSUME GarbleInv, NEW r \in Garbler, ConstructGarbler(r)
    PROVE  GarbleInv'
<1> DEFINE f == circuit
           q == IF r = "g1" THEN "flush" ELSE "garble"
<1>1. r \in Role /\ r # "eval" /\ pc[r] = "construct" /\ (r = "g1" \/ r = "g2") /\ call[r] = 1
  BY Garblers, Now DEF ConstructGarbler, At, PlaceIs
<1>2. pc'[r] = q /\ call'[r] = call[r] /\ gate'[r] = gate[r] /\ received'[r] = received[r] /\ sending'[r] = sending[r]
  BY <1>1, Now DEF ConstructGarbler, Goto
<1>3. OthersKeep(r)
  <2>1. /\ DOMAIN pc' = Role /\ \A p \in Role : p # r => pc'[p] = pc[p]
        /\ DOMAIN gen' = Role /\ \A p \in Role : p # r => gen'[p] = gen[p]
        /\ DOMAIN drawn' = Role /\ \A p \in Role : p # r => drawn'[p] = drawn[p]
    BY DEF ConstructGarbler, Draw, Goto, GarbleInv, PlacesInv
  <2>2. UNCHANGED <<circuit, call, keys, gate, rb, wires, sending, received, stream, out>> /\ (r # "g1" => sb' = sb)
    BY DEF ConstructGarbler
  <2> QED
    BY <1>1, <2>1, <2>2 DEF GarbleInv, PlacesInv, OthersKeep, ByRole
<1>4. PlaceIs(f, r, pc'[r], call'[r], gate'[r], stream[r], sending'[r], received'[r])
  <2>1. call[r] \in 1 .. NumCalls + 1 /\ call[r] # NumCalls + 1 /\ gate[r] \in 1 .. Len(f.gates) + 1
    BY <1>1, Here, Now DEF PlaceIs
  <2>2. q \in Place(r) /\ q # "done" /\ q # "output"
    BY <1>1 DEF Place
  <2>3. Len(received[r]) =< WantedAt(f, r, q) /\ IsSeq(received[r]) /\ IsSeq(stream[r]) /\ IsSeq(sending[r])
    <3>1. WantedAt(f, r, q) = WantedAt(f, r, "construct")
      BY <1>1 DEF WantedAt
    <3> QED
      BY <1>1, <3>1, Now DEF PlaceIs
  <2> HIDE DEF q
  <2> QED
    BY <1>1, <1>2, <2>1, <2>2, <2>3 DEF PlaceIs
<1>5. PipeIs(f, r, pc'[r], call'[r], stream[r], sending'[r], pc[Dest(r)], call[Dest(r)], received[Dest(r)])
  <2>1. Sent(f, r, "construct", 1) = Sent(f, r, q, 1)
    BY <1>1 DEF Sent
  <2>2. PipeIs(f, r, "construct", 1, stream[r], sending[r], pc[Dest(r)], call[Dest(r)], received[Dest(r)])
    BY <1>1, Now
  <2> HIDE DEF q
  <2> QED
    BY <1>1, <1>2, <2>1, <2>2 DEF PipeIs
<1>6. \A s \in Role : Dest(s) = r => PipeIs(f, s, pc[s], call[s], stream[s], sending[s],
                                            pc'[r], call'[r], received'[r])
  <2> SUFFICES ASSUME NEW s \in Role, Dest(s) = r
               PROVE  PipeIs(f, s, pc[s], call[s], stream[s], sending[s], "garble", call[r], received[r])
    BY <1>1, <1>2 DEF Dest, Role
  <2>1. s = "eval" /\ r = "g2"
    BY <1>1 DEF Dest, Role
  <2>2. PipeIs(f, s, pc[s], call[s], stream[s], sending[s], "construct", call[r], received[r])
    BY <1>1, Now
  <2>3. /\ Got(s, "construct", received[r]) = Got(s, "garble", received[r])
        /\ Taken(f, s, "construct", call[r]) = Taken(f, s, "garble", call[r])
    BY <2>1 DEF Got, Taken
  <2> QED
    BY <2>2, <2>3 DEF PipeIs
<1> QED
  BY <1>1, <1>3, <1>4, <1>5, <1>6, ConstructOwn, PartyStep

(* What party 3's stream carries once its constants are flushed.           *)
LEMMA OpeningPipe ==
    ASSUME GarbleInv, FlushOpening
    PROVE  PipeIs(circuit, "g1", "garble", 1, stream["g1"], sending'["g1"],
                  pc["eval"], call["eval"], received["eval"])
           /\ IsSeq(sending'["g1"])
<1> DEFINE f == circuit
           r == "g1"
           se == sending'[r]
           d == "eval"
           from == Taken(f, r, pc[d], call[d])
           got == Got(r, pc[d], received[d])
           st == stream[r]
<1>1. /\ r \in Role /\ d \in Role /\ d = Dest(r) /\ pc[r] = "flush" /\ f \in Circuits /\ sending[r] = <<>>
      /\ r \in DOMAIN sending
  BY Now DEF FlushOpening, At, Role, Dest
<1>2. call[r] = 1 /\ 1 \in 1 .. NumCalls /\ 1 \in 1 .. NumCalls + 1 /\ IsSeq(st)
  BY <1>1, Now, Here DEF PlaceIs
<1>3. call[d] \in 1 .. NumCalls + 1 /\ IsSeq(received[d])
  BY <1>1, Now DEF PlaceIs
<1>4. se = Opening
  <2>1. sb = Opening
    BY <1>1, Now DEF SentIs, SendBuffer
  <2> QED
    BY <1>1, <2>1 DEF FlushOpening
<1>5. PipeIs(f, r, "flush", 1, st, <<>>, pc[d], call[d], received[d])
  BY <1>1, <1>2, Now
<1>6. Sent(f, r, "flush", 1) = 0
  BY DEF Sent
<1>7. Sent(f, r, "garble", 1) = 3
  <2>1. Position(f, r, 1, 0) = Base(r)
    BY <1>1, Positions
  <2> QED
    BY <2>1 DEF Sent, Base
<1>8. IsSeq(se) /\ Len(se) = 3 /\ \A j \in 1 .. 3 : se[j] = Opening[j]
  BY <1>4 DEF Opening, IsSeq
<1>9. IsSeq(got) /\ from \in Nat
  BY <1>1, <1>3, GotIs, Counts
<1> HIDE DEF f, d, st, se, from, got
<1>10. got \o (st \o <<>>) = got \o st /\ IsSeq(got \o st) /\ got \o (st \o se) = (got \o st) \o se
  BY <1>2, <1>8, <1>9, Joined, SMTT(30)
<1>11. Len(got \o st) = 0 - from
  BY <1>5, <1>6, <1>10 DEF PipeIs, Carries, got, from
<1>12. from = 0 /\ got \o st = <<>>
  <2>1. Len(got \o st) \in Nat
    BY <1>10 DEF IsSeq
  <2>2. from = 0 /\ ~(1 =< Len(got \o st))
    BY <1>9, <1>11, <2>1
  <2> QED
    BY <1>10, <2>2, NothingLeft
<1>13. got \o (st \o se) = se
  BY <1>8, <1>10, <1>12, EmptyIs
<1>14. Carries(f, "g1", se, 0, 3)
  BY <1>1, <1>8, CarriesOpening DEF f
<1>15. PipeIs(f, r, "garble", 1, st, se, pc[d], call[d], received[d])
  BY <1>7, <1>12, <1>13, <1>14 DEF PipeIs, got, from
<1> QED
  BY <1>8, <1>15 DEF f, d, st, se

(* FlushOpening keeps the invariant.                                       *)
LEMMA FlushOpeningStep ==
    ASSUME GarbleInv, FlushOpening
    PROVE  GarbleInv'
<1> DEFINE f == circuit
           r == "g1"
<1>1. /\ r \in Role /\ Dest(r) = "eval" /\ pc[r] = "flush" /\ f \in Circuits
      /\ \A s \in Role : Dest(s) # r
  BY Now DEF FlushOpening, At, Role, Dest
<1>2. call[r] = 1 /\ 1 \in 1 .. NumCalls
  BY <1>1, Now, Here DEF PlaceIs
<1>3. /\ pc'[r] = "garble" /\ call'[r] = 1 /\ gate'[r] = gate[r] /\ received'[r] = received[r] /\ sb' = <<>>
      /\ gen'[r] = gen[r] /\ drawn'[r] = drawn[r] /\ wires'[r] = wires[r] /\ out'[r] = out[r]
  BY <1>1, <1>2, Now DEF FlushOpening, Goto
<1>4. OthersKeep(r)
  <2>1. /\ DOMAIN pc' = Role /\ \A p \in Role : p # r => pc'[p] = pc[p]
        /\ DOMAIN sending' = Role /\ \A p \in Role : p # r => sending'[p] = sending[p]
    BY DEF FlushOpening, Goto, GarbleInv, PlacesInv
  <2> QED
    BY <2>1 DEF FlushOpening, GarbleInv, PlacesInv, OthersKeep, ByRole
<1>5. PlaceIs(f, r, pc'[r], call'[r], gate'[r], stream[r], sending'[r], received'[r])
  <2>1. call[r] \in 1 .. NumCalls + 1 /\ call[r] # NumCalls + 1 /\ gate[r] \in 1 .. Len(f.gates) + 1
    BY <1>1, Here, Now DEF PlaceIs
  <2>2. "garble" \in Place(r)
    BY DEF Place
  <2>3. Len(received[r]) =< WantedAt(f, r, "garble") /\ IsSeq(received[r]) /\ IsSeq(stream[r])
    <3>1. WantedAt(f, r, "garble") = WantedAt(f, r, "flush")
      BY DEF WantedAt
    <3> QED
      BY <1>1, <3>1, Now DEF PlaceIs
  <2>4. IsSeq(sending'[r])
    BY OpeningPipe
  <2> QED
    BY <1>2, <1>3, <2>1, <2>2, <2>3, <2>4 DEF PlaceIs
<1>6. OwnIs(f, r, pc'[r], call'[r], gate'[r], gen'[r], drawn'[r], wires'[r], out'[r])
  <2>1. \A k : /\ GenAt(f, r, "flush", 1, k) = GenAt(f, r, "garble", 1, k)
               /\ DrawnAt(f, r, "flush", 1) = DrawnAt(f, r, "garble", 1)
               /\ WiresAt(f, r, "flush", 1, k) = WiresAt(f, r, "garble", 1, k)
    BY DEF GenAt, DrawnAt, WiresAt, InCall
  <2>2. OwnIs(f, r, "flush", 1, gate[r], gen[r], drawn[r], wires[r], out[r])
    BY <1>1, <1>2, Now
  <2> HIDE DEF f, r
  <2> QED
    BY <1>3, <2>1, <2>2 DEF OwnIs
<1>7. SentIs(f, pc'[r], call'[r], gate'[r], sb')
  BY <1>3, NothingSent DEF SentIs
<1>8. PipeIs(f, r, pc'[r], call'[r], stream[r], sending'[r], pc[Dest(r)], call[Dest(r)], received[Dest(r)])
  BY <1>1, <1>3, OpeningPipe
<1> QED
  BY <1>1, <1>4, <1>5, <1>6, <1>7, <1>8, PartyStep

(* From the end of a call to the next.                                     *)
LEMMA EndOfCall ==
    ASSUME NEW f \in Circuits, NEW r \in Role, NEW c \in 1 .. NumCalls, NEW p \in InCall,
           NEW q, q \notin InCall, q # "construct", NEW k
    PROVE  /\ GenAt(f, r, p, c, Len(f.gates)) = GenAt(f, r, q, c + 1, k)
           /\ WiresAt(f, r, p, c, Len(f.gates)) = WiresAt(f, r, q, c + 1, k)
           /\ DrawnAt(f, r, q, c + 1) =
                [DrawnAt(f, r, p, c) EXCEPT !["g1_eval"] = @ + (IF r = "g2" THEN 0 ELSE f.num_output)]
           /\ r # "g2" => DrawnAt(f, r, p, c).g1_eval = (c - 1) * f.num_output
<1> DEFINE L == Len(f.gates)
           n == NumAnds(f)
           d == DrawnPerCall(f)
           o == f.num_output
           x == IF r = "eval" THEN 0 ELSE 4 + (c - 1) * d + d
           x2 == IF r = "eval" THEN 0 ELSE 4 + (c + 1 - 1) * d + 0
           y == IF r = "g2" THEN 0 ELSE (c - 1) * o
           y2 == IF r = "g2" THEN 0 ELSE (c + 1 - 1) * o
<1>1. c \in Int /\ n \in Nat /\ d \in Nat /\ o \in Nat /\ AndsTo(f, L) = n /\ p # "construct"
  BY CircuitIs, AndsCounted, SMTT(30) DEF DrawnPerCall, InCall
<1>2. /\ DrawnAt(f, r, p, c) = [garblers |-> x, g1_eval |-> y]
      /\ DrawnAt(f, r, q, c + 1) = [garblers |-> x2, g1_eval |-> y2]
  BY <1>1 DEF DrawnAt
<1>3. /\ GenAt(f, r, p, c, L) =
           [delta |-> IF r = "eval" THEN Zero ELSE Delta,
            one |-> IF r = "eval" THEN Sample("garblers", 4) ELSE OneKey,
            S |-> Start, gid |-> (c - 1) * n + n]
      /\ GenAt(f, r, q, c + 1, k) =
           [delta |-> IF r = "eval" THEN Zero ELSE Delta,
            one |-> IF r = "eval" THEN Sample("garblers", 4) ELSE OneKey,
            S |-> Start, gid |-> (c + 1 - 1) * n + 0]
  BY <1>1 DEF GenAt
<1> HIDE DEF n, d, o
<1>4. ASSUME NEW w \in Nat PROVE (c - 1) * w \in Int /\ (c - 1) * w + w = (c + 1 - 1) * w + 0 /\ (c + 1 - 1) * w \in Int
  BY <1>1
<1>5. x = x2 /\ y2 = y + (IF r = "g2" THEN 0 ELSE o)
  <2>1. (c - 1) * d \in Int /\ (c - 1) * d + d = (c + 1 - 1) * d + 0 /\ (c + 1 - 1) * d \in Int
    BY <1>1, <1>4
  <2>2. (c - 1) * o \in Int /\ (c - 1) * o + o = (c + 1 - 1) * o + 0 /\ (c + 1 - 1) * o \in Int
    BY <1>1, <1>4
  <2>3. x = x2
    BY <1>1, <2>1
  <2>4. y2 = y + (IF r = "g2" THEN 0 ELSE o)
    BY <1>1, <2>2
  <2> QED
    BY <2>3, <2>4
<1>6. (c - 1) * n + n = (c + 1 - 1) * n + 0
  BY <1>1, <1>4
<1>7. r # "g2" => y = (c - 1) * f.num_output
  BY DEF o
<1> HIDE DEF x, x2, y, y2
<1>8. [[garblers |-> x, g1_eval |-> y] EXCEPT !["g1_eval"] = @ + (IF r = "g2" THEN 0 ELSE o)] =
         [garblers |-> x2, g1_eval |-> y2]
  BY <1>5
<1>9. WiresAt(f, r, p, c, L) = WiresAt(f, r, q, c + 1, k)
  BY WiresEnd
<1> QED
  BY <1>2, <1>3, <1>6, <1>7, <1>8, <1>9 DEF o

(* The shares of the outputs that a garbler makes of its zero keys.        *)
LEMMA GarblerOutput ==
    ASSUME GarbleInv, NEW r \in Garbler, pc[r] = "output"
    PROVE  Colours(r) = ColoursOf(circuit, ZeroWires(circuit, call[r])[Len(circuit.gates)])
<1> DEFINE f == circuit
           c == call[r]
           z == ZeroWires(f, c)[Len(f.gates)]
<1>1. r \in Role /\ r # "eval" /\ f \in Circuits /\ c \in 1 .. NumCalls /\ gate[r] - 1 = Len(f.gates)
  BY Garblers, Here
<1>2. wires[r] = WiresAt(f, r, "output", c, Len(f.gates))
  BY <1>1, Now DEF OwnIs
<1>3. WiresAt(f, r, "output", c, Len(f.gates))[c] = WiresAfter(f, r, c, Len(f.gates))
  BY <1>1, WiresStep DEF InCall
<1>4. Wires(r) = z
  BY <1>1, <1>2, <1>3 DEF Wires, WiresAfter
<1> HIDE DEF z
<1>5. Colours(r) = ColoursOf(f, z)
  BY <1>4 DEF Colours, ColoursOf, Outputs
<1> QED
  BY <1>5 DEF z

(* Where a party goes when a call is over.                                 *)
LEMMA Returning ==
    ASSUME GarbleInv, NEW r \in Role, NEW l, Return(r, l), pc[r] # "done", l \in {"garble", "recv_g1"},
           l \in Place(r)
    PROVE  /\ DOMAIN pc' = Role /\ DOMAIN call' = Role
           /\ \A q \in Role : q # r => pc'[q] = pc[q] /\ call'[q] = call[q]
           /\ call'[r] = call[r] + 1 /\ call'[r] \in 1 .. NumCalls + 1
           /\ pc'[r] \in Place(r) /\ pc'[r] \notin InCall /\ pc'[r] \in {l, "done"}
           /\ (pc'[r] = "done") = (call'[r] = NumCalls + 1)
<1>1. call[r] \in 1 .. NumCalls /\ call[r] + 1 \in 1 .. NumCalls + 1 /\ call[r] \in Int /\ NumCalls \in Nat
  BY Here, CircuitIs
<1>2. /\ DOMAIN pc' = Role /\ DOMAIN call' = Role
      /\ \A q \in Role : q # r => pc'[q] = pc[q] /\ call'[q] = call[q]
      /\ call'[r] = call[r] + 1 /\ pc'[r] = IF call[r] = NumCalls THEN "done" ELSE l
  BY DEF Return, Goto, GarbleInv, PlacesInv
<1>3. pc'[r] \in Place(r) /\ pc'[r] \notin InCall /\ pc'[r] \in {l, "done"} /\ (pc'[r] = "done" <=> call[r] = NumCalls)
  BY <1>2 DEF Place, InCall
<1>4. call[r] = NumCalls <=> call[r] + 1 = NumCalls + 1
  BY <1>1
<1> QED
  BY <1>1, <1>2, <1>3, <1>4

(* What a garbler has sent when a call is over.                            *)
LEMMA SentAll ==
    ASSUME NEW f \in Circuits, NEW s \in {"g1", "g2"}, NEW c \in 1 .. NumCalls, NEW q \in {"garble", "done"}
    PROVE  Sent(f, s, "output", c) = Sent(f, s, q, c + 1)
<1>1. Position(f, s, c, Width(f, s)) = Position(f, s, c + 1, 0)
  BY Positions DEF Role
<1> QED
  BY <1>1 DEF Sent

(* OutputG1 keeps the invariant.                                           *)
LEMMA OutputG1Step ==
    ASSUME GarbleInv, OutputG1
    PROVE  GarbleInv'
<1> DEFINE f == circuit
           r == "g1"
           c == call[r]
           L == Len(f.gates)
           o == f.num_output
<1>1. /\ r \in Role /\ r \in Garbler /\ r # "eval" /\ pc[r] = "output" /\ sending[r] = <<>> /\ Return("g1", "garble")
      /\ Len(received[r]) = Wanted(r)
  BY DEF OutputG1, At, Role, Garbler
<1>2. f \in Circuits /\ c \in 1 .. NumCalls /\ gate[r] - 1 = L
  BY <1>1, Here
<1>3. /\ DOMAIN pc' = Role /\ DOMAIN call' = Role
      /\ \A q \in Role : q # r => pc'[q] = pc[q] /\ call'[q] = call[q]
      /\ call'[r] = c + 1 /\ call'[r] \in 1 .. NumCalls + 1
      /\ pc'[r] \in Place(r) /\ pc'[r] \notin InCall /\ pc'[r] \in {"garble", "done"}
      /\ (pc'[r] = "done") = (call'[r] = NumCalls + 1)
  <2>1. "garble" \in Place(r) /\ "garble" \in {"garble", "recv_g1"}
    BY DEF Place
  <2> QED
    BY <1>1, <2>1, Returning
<1>4. /\ UNCHANGED <<circuit, keys, gen, gate, sb, rb, wires, sending, received, stream>>
      /\ drawn' = [drawn EXCEPT !["g1"]["g1_eval"] = @ + o]
      /\ out' = [out EXCEPT !["g1"] = Append(@, Shares(G1Eval, G1EvalShare("g1"), G1G2, Colours("g1")))]
  BY DEF OutputG1, compute, Draw
<1>5. OthersKeep(r)
  <2>1. /\ DOMAIN drawn' = Role /\ \A q \in Role : q # r => drawn'[q] = drawn[q]
        /\ DOMAIN out' = Role /\ \A q \in Role : q # r => out'[q] = out[q]
    BY <1>4 DEF GarbleInv, PlacesInv
  <2>2. ByRole'
    BY <1>3, <1>4, <2>1 DEF GarbleInv, PlacesInv, ByRole
  <2>3. circuit' = circuit /\ stream' = stream /\ gate' = gate /\ gen' = gen /\ wires' = wires
        /\ sending' = sending /\ received' = received /\ sb' = sb /\ rb' = rb /\ keys' = keys
    BY <1>4
  <2> HIDE DEF r, f, c, L, o
  <2> QED
    BY <1>3, <2>1, <2>2, <2>3 DEF OthersKeep
<1>6. PlaceIs(f, r, pc'[r], call'[r], gate'[r], stream[r], sending'[r], received'[r])
  <2>1. WantedAt(f, r, pc'[r]) = WantedAt(f, r, "output")
    BY <1>3 DEF WantedAt
  <2>2. PlaceIs(f, r, "output", c, gate[r], stream[r], sending[r], received[r])
    BY <1>1, Now
  <2> HIDE DEF f, r, c
  <2> QED
    BY <1>3, <1>4, <2>1, <2>2 DEF PlaceIs
<1>7. gen[r] = GenAt(f, r, "output", c, L) /\ drawn[r] = DrawnAt(f, r, "output", c)
      /\ wires[r] = WiresAt(f, r, "output", c, L) /\ out[r] = OutAt(f, r, c)
  BY <1>1, <1>2, Now DEF OwnIs
<1>8. /\ GenAt(f, r, "output", c, L) = GenAt(f, r, pc'[r], c + 1, L)
      /\ WiresAt(f, r, "output", c, L) = WiresAt(f, r, pc'[r], c + 1, L)
      /\ DrawnAt(f, r, pc'[r], c + 1) = [DrawnAt(f, r, "output", c) EXCEPT !["g1_eval"] = @ + o]
      /\ DrawnAt(f, r, "output", c).g1_eval = (c - 1) * o
  <2>1. "output" \in InCall /\ pc'[r] # "construct" /\ r # "g2" /\ (IF r = "g2" THEN 0 ELSE o) = o
    BY <1>3 DEF InCall
  <2> HIDE DEF r, c
  <2>2. /\ GenAt(f, r, "output", c, L) = GenAt(f, r, pc'[r], c + 1, L)
        /\ WiresAt(f, r, "output", c, L) = WiresAt(f, r, pc'[r], c + 1, L)
        /\ DrawnAt(f, r, pc'[r], c + 1) =
             [DrawnAt(f, r, "output", c) EXCEPT !["g1_eval"] = @ + (IF r = "g2" THEN 0 ELSE o)]
        /\ DrawnAt(f, r, "output", c).g1_eval = (c - 1) * o
    BY <1>1, <1>2, <1>3, <2>1, EndOfCall
  <2> QED
    BY <2>1, <2>2
<1>9. out'[r] = OutAt(f, r, c + 1)
  <2>1. G1EvalShare(r) = G1EvalOf(f, c)
    BY <1>7, <1>8 DEF G1EvalShare, G1EvalOf, Outputs
  <2>2. Colours(r) = ColoursOf(f, ZeroWires(f, c)[L])
    BY <1>1, GarblerOutput
  <2>3. Shares(G1Eval, G1EvalShare(r), G1G2, Colours(r)) = OutAfter(f, r, c)
    BY <2>1, <2>2 DEF OutAfter
  <2>4. out'[r] = Append(out[r], OutAfter(f, r, c))
    BY <1>1, <1>4, <2>3, Now
  <2>5. Append(OutAt(f, r, c), OutAfter(f, r, c)) = OutAt(f, r, c + 1)
    BY <1>1, <1>2, OutEnd
  <2> QED
    BY <1>7, <2>4, <2>5
<1>10. drawn'[r] = [drawn[r] EXCEPT !["g1_eval"] = @ + o]
  BY <1>1, <1>4, Now
<1>11. OwnIs(f, r, pc'[r], call'[r], gate'[r], gen'[r], drawn'[r], wires'[r], out'[r])
  <2> HIDE DEF f, r, c, L, o
  <2> QED
    BY <1>2, <1>3, <1>4, <1>7, <1>8, <1>9, <1>10 DEF OwnIs
<1>12. r = "g1" => SentIs(f, pc'[r], call'[r], gate'[r], sb')
  <2>1. sb = SendBuffer(f, "output", c, gate[r] - 1)
    BY <1>1, Now DEF SentIs
  <2>2. SendBuffer(f, pc'[r], c + 1, gate[r] - 1) = SendBuffer(f, "output", c, gate[r] - 1)
    BY <1>3, NothingSent
  <2> QED
    BY <1>3, <1>4, <2>1, <2>2 DEF SentIs
<1>13. PipeIs(f, r, pc'[r], call'[r], stream[r], sending'[r], pc[Dest(r)], call[Dest(r)], received[Dest(r)])
  <2>1. PipeIs(f, r, "output", c, stream[r], sending[r], pc[Dest(r)], call[Dest(r)], received[Dest(r)])
    BY <1>1, Now
  <2>2. Sent(f, r, "output", c) = Sent(f, r, pc'[r], c + 1)
    BY <1>2, <1>3, SentAll
  <2> HIDE DEF f, r, c
  <2> QED
    BY <1>3, <1>4, <2>1, <2>2 DEF PipeIs
<1>14. \A s \in Role : Dest(s) # r
  BY DEF Dest
<1> HIDE DEF r
<1> QED
  BY <1>1, <1>5, <1>6, <1>11, <1>12, <1>13, <1>14, PartyStep DEF f

(* The first words of a call, from place one on.                           *)
LEMMA FirstWords ==
    ASSUME NEW f, NEW s, NEW d, NEW re, IsSeq(re), HasWords(f, s, d, 0, re)
    PROVE  \A j \in 1 .. Len(re) : re[j] = Words(f, s, d)[j]
<1> SUFFICES ASSUME NEW j \in 1 .. Len(re) PROVE re[j] = Words(f, s, d)[j]
  OBVIOUS
<1>1. 0 + j = j
  OBVIOUS
<1>2. re[j] = Words(f, s, d)[0 + j]
  BY DEF HasWords
<1> QED
  BY <1>1, <1>2

(* The share that the evaluator sends is a sequence.                       *)
LEMMA FromEvalIs ==
    ASSUME NEW f \in Circuits, NEW c
    PROVE  IsSeq(FromEval(f, c)) /\ Len(FromEval(f, c)) = f.num_output
<1> DEFINE e == FromEval(f, c)
           n == f.num_output
<1>1. e = [j \in 1 .. n |-> e[j]] /\ n \in Nat
  BY CircuitIs DEF FromEval
<1> HIDE DEF e, n
<1>2. IsSeq(e) /\ Len(e) = n
  BY <1>1, SeqFrom
<1> QED
  BY <1>2 DEF e, n

(* What party 2 receives is the evaluator's share of the same call.        *)
LEMMA OutputG2Pipe ==
    ASSUME GarbleInv, OutputG2
    PROVE  /\ received["g2"] = FromEval(circuit, call["g2"])
           /\ \A q \in {"garble", "done"} :
                PipeIs(circuit, "eval", pc["eval"], call["eval"], stream["eval"], sending["eval"],
                       q, call["g2"] + 1, <<>>)
<1> DEFINE f == circuit
           c == call["g2"]
           o == f.num_output
           re == received["g2"]
           p == pc["eval"]
           d == call["eval"]
           st == stream["eval"]
           se == sending["eval"]
           e == FromEval(f, c)
<1>1. "g2" \in Role /\ "eval" \in Role /\ pc["g2"] = "output" /\ Len(re) = Wanted("g2") /\ Dest("eval") = "g2"
  BY DEF OutputG2, At, Role, Dest
<1>2. /\ f \in Circuits /\ c \in 1 .. NumCalls /\ c \in 1 .. NumCalls + 1 /\ c + 1 \in 1 .. NumCalls + 1
      /\ IsSeq(re) /\ o \in Nat
  BY <1>1, Here, CircuitIs
<1>3. IsSeq(st) /\ IsSeq(se) /\ d \in 1 .. NumCalls + 1
  BY <1>1, Now DEF PlaceIs
<1>4. Len(re) = o
  BY <1>1 DEF Wanted
<1>5. PipeIs(f, "eval", p, d, st, se, "output", c, re)
  BY <1>1, Now
<1>6. Got("eval", "output", re) = re /\ Taken(f, "eval", "output", c) = Position(f, "eval", c, 0)
  BY DEF Got, Taken
<1>7. Width(f, "eval") = o
  BY DEF Width
<1>8. \A q \in {"garble", "done"} : Taken(f, "eval", q, c + 1) = Taken(f, "eval", "output", c) + Len(re)
  <2>1. \A q \in {"garble", "done"} : Taken(f, "eval", q, c + 1) = Position(f, "eval", c + 1, 0)
    BY DEF Taken
  <2> HIDE DEF f, c, o, re
  <2>2. Position(f, "eval", c, 0) + o = Position(f, "eval", c, o)
    BY <1>1, <1>2, Offset
  <2>3. Position(f, "eval", c, o) = Position(f, "eval", c + 1, 0)
    BY <1>1, <1>2, <1>7, Positions
  <2> QED
    BY <1>4, <1>6, <2>1, <2>2, <2>3
<1> HIDE DEF f, c, o, re, p, d, st, se, e
<1>9. \A q \in {"garble", "done"} : PipeIs(f, "eval", p, d, st, se, q, c + 1, <<>>)
  <2> SUFFICES ASSUME NEW q \in {"garble", "done"} PROVE PipeIs(f, "eval", p, d, st, se, q, c + 1, <<>>)
    OBVIOUS
  <2>1. Taken(f, "eval", q, c + 1) = Taken(f, "eval", "output", c) + Len(re) /\ "eval" # "g1"
    BY <1>8
  <2> QED
    BY <1>1, <1>2, <1>3, <1>5, <1>6, <2>1, PipeReceive
<1>10. HasWords(f, "eval", c, 0, re)
  <2>1. 0 \in Nat /\ 0 + Len(re) =< Width(f, "eval") /\ "eval" # "g1"
    BY <1>2, <1>4, <1>7
  <2> QED
    BY <1>1, <1>2, <1>3, <1>5, <1>6, <2>1, PipeWords
<1>11. re = e
  <2>1. IsSeq(e) /\ Len(e) = o
    BY <1>2, FromEvalIs DEF e, o
  <2>2. \A j \in 1 .. Len(re) : re[j] = e[j]
    <3>1. \A j \in 1 .. Len(re) : re[j] = Words(f, "eval", c)[j]
      BY <1>2, <1>10, FirstWords
    <3>2. Words(f, "eval", c) = e
      BY <1>2, WordsIs DEF e
    <3> QED
      BY <3>1, <3>2
  <2> QED
    BY <1>2, <1>4, <2>1, <2>2, SeqEqual
<1> QED
  BY <1>9, <1>11 DEF f, c, re, p, d, st, se, e

(* OutputG2 keeps the invariant.                                           *)
LEMMA OutputG2Step ==
    ASSUME GarbleInv, OutputG2
    PROVE  GarbleInv'
<1> DEFINE f == circuit
           r == "g2"
           c == call[r]
           L == Len(f.gates)
<1>1. /\ r \in Role /\ r \in Garbler /\ r # "eval" /\ pc[r] = "output" /\ sending[r] = <<>> /\ Return("g2", "garble")
  BY DEF OutputG2, At, Role, Garbler
<1>2. f \in Circuits /\ c \in 1 .. NumCalls /\ gate[r] - 1 = L
  BY <1>1, Here
<1>3. /\ DOMAIN pc' = Role /\ DOMAIN call' = Role
      /\ \A q \in Role : q # r => pc'[q] = pc[q] /\ call'[q] = call[q]
      /\ call'[r] = c + 1 /\ call'[r] \in 1 .. NumCalls + 1
      /\ pc'[r] \in Place(r) /\ pc'[r] \notin InCall /\ pc'[r] \in {"garble", "done"}
      /\ (pc'[r] = "done") = (call'[r] = NumCalls + 1)
  <2>1. "garble" \in Place(r) /\ "garble" \in {"garble", "recv_g1"}
    BY DEF Place
  <2> QED
    BY <1>1, <2>1, Returning
<1>4. /\ UNCHANGED <<circuit, drawn, keys, gen, gate, sb, rb, wires, sending, stream>>
      /\ received' = [received EXCEPT !["g2"] = <<>>]
      /\ out' = [out EXCEPT !["g2"] = Append(@, Shares(EvalG2, received["g2"], G1G2, Colours("g2")))]
  BY DEF OutputG2, compute
<1>5. OthersKeep(r)
  <2>1. /\ DOMAIN received' = Role /\ \A q \in Role : q # r => received'[q] = received[q]
        /\ DOMAIN out' = Role /\ \A q \in Role : q # r => out'[q] = out[q]
    BY <1>4 DEF GarbleInv, PlacesInv
  <2>2. ByRole'
    BY <1>3, <1>4, <2>1 DEF GarbleInv, PlacesInv, ByRole
  <2>3. circuit' = circuit /\ stream' = stream /\ gate' = gate /\ gen' = gen /\ wires' = wires
        /\ sending' = sending /\ drawn' = drawn /\ sb' = sb /\ rb' = rb /\ keys' = keys
    BY <1>4
  <2> HIDE DEF r, f, c, L
  <2> QED
    BY <1>3, <2>1, <2>2, <2>3 DEF OthersKeep
<1>6. received'[r] = <<>> /\ IsSeq(<<>>) /\ Len(<<>>) = 0
  BY <1>1, <1>4, Now, EmptyIs
<1>7. PlaceIs(f, r, pc'[r], call'[r], gate'[r], stream[r], sending'[r], received'[r])
  <2>1. WantedAt(f, r, pc'[r]) = 0
    BY <1>3 DEF WantedAt
  <2>2. PlaceIs(f, r, "output", c, gate[r], stream[r], sending[r], received[r])
    BY <1>1, Now
  <2> HIDE DEF f, r, c
  <2> QED
    BY <1>3, <1>4, <1>6, <2>1, <2>2 DEF PlaceIs
<1>8. gen[r] = GenAt(f, r, "output", c, L) /\ drawn[r] = DrawnAt(f, r, "output", c)
      /\ wires[r] = WiresAt(f, r, "output", c, L) /\ out[r] = OutAt(f, r, c)
  BY <1>1, <1>2, Now DEF OwnIs
<1>9. /\ GenAt(f, r, "output", c, L) = GenAt(f, r, pc'[r], c + 1, L)
      /\ WiresAt(f, r, "output", c, L) = WiresAt(f, r, pc'[r], c + 1, L)
      /\ DrawnAt(f, r, pc'[r], c + 1) = DrawnAt(f, r, "output", c)
  <2>1. "output" \in InCall /\ pc'[r] # "construct" /\ (IF r = "g2" THEN 0 ELSE f.num_output) = 0
    BY <1>3 DEF InCall
  <2>2. [DrawnAt(f, r, "output", c) EXCEPT !["g1_eval"] = @ + 0] = DrawnAt(f, r, "output", c)
    BY DEF DrawnAt
  <2> HIDE DEF r, c
  <2>3. /\ GenAt(f, r, "output", c, L) = GenAt(f, r, pc'[r], c + 1, L)
        /\ WiresAt(f, r, "output", c, L) = WiresAt(f, r, pc'[r], c + 1, L)
        /\ DrawnAt(f, r, pc'[r], c + 1) =
             [DrawnAt(f, r, "output", c) EXCEPT !["g1_eval"] = @ + (IF r = "g2" THEN 0 ELSE f.num_output)]
    BY <1>1, <1>2, <1>3, <2>1, EndOfCall
  <2> QED
    BY <2>1, <2>2, <2>3
<1>10. out'[r] = OutAt(f, r, c + 1)
  <2>1. received[r] = FromEval(f, c)
    BY OutputG2Pipe
  <2>2. Colours(r) = ColoursOf(f, ZeroWires(f, c)[L])
    BY <1>1, GarblerOutput
  <2>3. Shares(EvalG2, received[r], G1G2, Colours(r)) = OutAfter(f, r, c)
    BY <2>1, <2>2 DEF OutAfter
  <2>4. out'[r] = Append(out[r], OutAfter(f, r, c))
    BY <1>1, <1>4, <2>3, Now
  <2>5. Append(OutAt(f, r, c), OutAfter(f, r, c)) = OutAt(f, r, c + 1)
    BY <1>1, <1>2, OutEnd
  <2> QED
    BY <1>8, <2>4, <2>5
<1>11. OwnIs(f, r, pc'[r], call'[r], gate'[r], gen'[r], drawn'[r], wires'[r], out'[r])
  <2> HIDE DEF f, r, c, L
  <2> QED
    BY <1>2, <1>3, <1>4, <1>8, <1>9, <1>10 DEF OwnIs
<1>12. r = "g1" => SentIs(f, pc'[r], call'[r], gate'[r], sb')
  OBVIOUS
<1>13. PipeIs(f, r, pc'[r], call'[r], stream[r], sending'[r], pc[Dest(r)], call[Dest(r)], received[Dest(r)])
  <2>1. PipeIs(f, r, "output", c, stream[r], sending[r], pc[Dest(r)], call[Dest(r)], received[Dest(r)])
    BY <1>1, Now
  <2>2. Sent(f, r, "output", c) = Sent(f, r, pc'[r], c + 1)
    BY <1>2, <1>3, SentAll
  <2> HIDE DEF f, r, c
  <2> QED
    BY <1>3, <1>4, <2>1, <2>2 DEF PipeIs
<1>14. \A s \in Role : Dest(s) = r => PipeIs(f, s, pc[s], call[s], stream[s], sending[s],
                                             pc'[r], call'[r], received'[r])
  <2> SUFFICES ASSUME NEW s \in Role, Dest(s) = r
               PROVE  PipeIs(f, s, pc[s], call[s], stream[s], sending[s], pc'[r], c + 1, <<>>)
    BY <1>3, <1>6
  <2>1. s = "eval"
    BY DEF Dest, Role
  <2> QED
    BY <1>3, <2>1, OutputG2Pipe
<1> HIDE DEF r
<1> QED
  BY <1>1, <1>5, <1>7, <1>11, <1>12, <1>13, <1>14, PartyStep DEF f

-----------------------------------------------------------------------------
(* The steps of the evaluator *)

(* A step within a call, and not one of a garbler.                         *)
LEMMA EvaluatorStep ==
    ASSUME GarbleInv, OthersKeep("eval"), NEW p, pc["eval"] = p, NEW c, call["eval"] = c,
           NEW p2 \in Place("eval"), pc'["eval"] = p2, p # "done", p2 # "construct", p2 # "done",
           call'["eval"] = c, sending'["eval"] = <<>>, sending["eval"] = <<>>,
           gate'["eval"] \in 1 .. Len(circuit.gates) + 1,
           received'["eval"] = <<>>,
           OwnIs(circuit, "eval", p2, c, gate'["eval"], gen'["eval"], drawn'["eval"], wires'["eval"], out'["eval"]),
           ReadIs(circuit, p2, c, gate'["eval"], rb', keys'),
           \A s \in {"g1", "g2"} : PipeIs(circuit, s, pc[s], call[s], stream[s], sending[s], p2, c, <<>>)
    PROVE  GarbleInv'
<1> DEFINE f == circuit
           r == "eval"
<1>1. r \in Role /\ f \in Circuits /\ Dest(r) \in Role /\ \A s \in Role : Dest(s) = r => s \in {"g1", "g2"}
  BY Now DEF Role, Dest
<1>2. c \in 1 .. NumCalls /\ c \in 1 .. NumCalls + 1 /\ c # NumCalls + 1 /\ IsSeq(stream[r])
  BY <1>1, Here, Now DEF PlaceIs
<1>3. WantedAt(f, r, p2) \in Nat
  BY <1>1, WantedIs
<1>4. PlaceIs(f, r, p2, c, gate'[r], stream[r], sending'[r], received'[r])
  <2>1. IsSeq(<<>>) /\ Len(<<>>) = 0
    BY EmptyIs
  <2>2. 0 =< WantedAt(f, r, p2)
    BY <1>3
  <2>3. sending'[r] = <<>> /\ received'[r] = <<>> /\ gate'[r] \in 1 .. Len(f.gates) + 1 /\ p2 \in Place(r)
    OBVIOUS
  <2>4. p2 # "output" /\ p2 # "flush"
    BY DEF Place
  <2> HIDE DEF f, r
  <2> QED
    BY <1>2, <2>1, <2>2, <2>3, <2>4 DEF PlaceIs
<1>5. PipeIs(f, r, p2, c, stream[r], sending'[r], pc[Dest(r)], call[Dest(r)], received[Dest(r)])
  <2>1. PipeIs(f, r, p, c, stream[r], sending[r], pc[Dest(r)], call[Dest(r)], received[Dest(r)])
    BY <1>1, Now
  <2>2. p \in Place(r)
    BY <1>1, Now DEF PlaceIs
  <2>3. Sent(f, r, p, c) = Sent(f, r, p2, c)
    BY <2>2 DEF Sent, Place
  <2> QED
    BY <2>1, <2>3 DEF PipeIs
<1> HIDE DEF f, r
<1>6. \A s \in Role : Dest(s) = r => PipeIs(f, s, pc[s], call[s], stream[s], sending[s], pc'[r], call'[r], received'[r])
  BY <1>1 DEF f, r
<1>7. r # "g1"
  BY DEF r
<1> QED
  BY <1>1, <1>4, <1>5, <1>6, <1>7, PartyStep DEF f, r

(* The first blocks of party 3 are the constants.                          *)
LEMMA OpeningComes ==
    ASSUME GarbleInv, ConstructEvaluator
    PROVE  /\ received["eval"] = Opening /\ call["eval"] = 1
           /\ \A s \in {"g1", "g2"} :
                PipeIs(circuit, s, pc[s], call[s], stream[s], sending[s], "recv_g1", 1, <<>>)
<1> DEFINE f == circuit
           re == received["eval"]
<1>1. "eval" \in Role /\ pc["eval"] = "construct" /\ Len(re) = Wanted("eval")
  BY DEF ConstructEvaluator, At, Role
<1>2. f \in Circuits /\ call["eval"] = 1 /\ 1 \in 1 .. NumCalls /\ 1 \in 1 .. NumCalls + 1 /\ IsSeq(re)
  BY <1>1, Here, Now DEF PlaceIs
<1>3. Len(re) = 3
  BY <1>1 DEF Wanted
<1>4. \A s \in {"g1", "g2"} :
        /\ PipeIs(f, s, pc[s], call[s], stream[s], sending[s], "construct", 1, re)
        /\ s \in Role /\ call[s] \in 1 .. NumCalls + 1 /\ IsSeq(stream[s]) /\ IsSeq(sending[s])
  <2> SUFFICES ASSUME NEW s \in {"g1", "g2"}
               PROVE  /\ PipeIs(f, s, pc[s], call[s], stream[s], sending[s], "construct", 1, re)
                      /\ s \in Role /\ call[s] \in 1 .. NumCalls + 1 /\ IsSeq(stream[s]) /\ IsSeq(sending[s])
    OBVIOUS
  <2>1. s \in Role /\ Dest(s) = "eval"
    BY DEF Role, Dest
  <2> QED
    BY <1>1, <1>2, <2>1, Now DEF PlaceIs
<1>5. Got("g1", "construct", re) = re /\ Taken(f, "g1", "construct", 1) = 0
  BY DEF Got, Taken
<1>6. Taken(f, "g1", "recv_g1", 1) = 3
  <2>1. Position(f, "g1", 1, 0) = Base("g1")
    BY <1>2, Positions DEF Role
  <2> QED
    BY <2>1 DEF Taken, Base
<1> HIDE DEF f, re
<1>7. PipeIs(f, "g1", pc["g1"], call["g1"], stream["g1"], sending["g1"], "recv_g1", 1, <<>>)
      /\ \A j \in 1 .. 3 : re[j] = Opening[j]
  <2>1. Taken(f, "g1", "recv_g1", 1) = Taken(f, "g1", "construct", 1) + Len(re) /\ Taken(f, "g1", "construct", 1) + Len(re) # 0
    BY <1>3, <1>5, <1>6
  <2>2. /\ PipeIs(f, "g1", pc["g1"], call["g1"], stream["g1"], sending["g1"], "construct", 1, re)
        /\ "g1" \in Role /\ call["g1"] \in 1 .. NumCalls + 1 /\ IsSeq(stream["g1"]) /\ IsSeq(sending["g1"])
    BY <1>4
  <2>3. PipeIs(f, "g1", pc["g1"], call["g1"], stream["g1"], sending["g1"], "recv_g1", 1, <<>>)
    BY <1>2, <1>5, <2>1, <2>2, PipeReceive
  <2>4. \A j \in 1 .. 3 : re[j] = Opening[j]
    BY <1>2, <1>3, <1>5, <2>2, PipeOpening
  <2> QED
    BY <2>3, <2>4
<1>8. PipeIs(f, "g2", pc["g2"], call["g2"], stream["g2"], sending["g2"], "recv_g1", 1, <<>>)
  <2>1. PipeIs(f, "g2", pc["g2"], call["g2"], stream["g2"], sending["g2"], "construct", 1, re)
    BY <1>4
  <2>2. /\ Got("g2", "construct", re) = Got("g2", "recv_g1", <<>>)
        /\ Taken(f, "g2", "construct", 1) = Taken(f, "g2", "recv_g1", 1)
    BY DEF Got, Taken
  <2> QED
    BY <2>1, <2>2 DEF PipeIs
<1>9. re = Opening
  <2>1. IsSeq(Opening) /\ Len(Opening) = 3
    BY DEF Opening, IsSeq
  <2> QED
    BY <1>2, <1>3, <1>7, <2>1, SeqEqual
<1> QED
  BY <1>2, <1>7, <1>8, <1>9 DEF f, re

(* ConstructEvaluator keeps the invariant.                                 *)
LEMMA ConstructEvaluatorStep ==
    ASSUME GarbleInv, ConstructEvaluator
    PROVE  GarbleInv'
<1> DEFINE f == circuit
           r == "eval"
           k == gate[r] - 1
<1>1. r \in Role /\ pc[r] = "construct" /\ sending[r] = <<>> /\ f \in Circuits /\ r # "g1" /\ r # "g2"
  BY Now DEF ConstructEvaluator, At, Role
<1>2. call[r] = 1 /\ 1 \in 1 .. NumCalls /\ received[r] = Opening /\ gate[r] \in 1 .. Len(f.gates) + 1
  BY <1>1, Here, OpeningComes
<1>3. /\ UNCHANGED <<circuit, call, drawn, keys, gate, sb, wires, sending, stream, out>>
      /\ gen' = [gen EXCEPT !["eval"].one = received["eval"][2], !["eval"].S = received["eval"][3]]
      /\ rb' = [blocks |-> received["eval"], read_counter |-> 3]
      /\ received' = [received EXCEPT !["eval"] = <<>>] /\ pc' = [pc EXCEPT !["eval"] = "recv_g1"]
  BY DEF ConstructEvaluator, Goto
<1>4. OthersKeep(r)
  <2>1. /\ DOMAIN pc' = Role /\ \A q \in Role : q # r => pc'[q] = pc[q]
        /\ DOMAIN gen' = Role /\ \A q \in Role : q # r => gen'[q] = gen[q]
        /\ DOMAIN received' = Role /\ \A q \in Role : q # r => received'[q] = received[q]
    BY <1>3 DEF GarbleInv, PlacesInv
  <2>2. ByRole'
    BY <1>3, <2>1 DEF GarbleInv, PlacesInv, ByRole
  <2>3. circuit' = circuit /\ stream' = stream /\ gate' = gate /\ call' = call /\ wires' = wires
        /\ sending' = sending /\ drawn' = drawn /\ sb' = sb /\ out' = out
    BY <1>3
  <2> HIDE DEF f, k
  <2> QED
    BY <2>1, <2>2, <2>3 DEF OthersKeep
<1>5. pc'[r] = "recv_g1" /\ received'[r] = <<>> /\ sending'[r] = <<>> /\ call'[r] = 1 /\ "recv_g1" \in Place(r)
  BY <1>1, <1>2, <1>3, Now DEF Place
<1>6. /\ gen[r] = GenAt(f, r, "construct", 1, k) /\ drawn[r] = DrawnAt(f, r, "construct", 1)
      /\ wires[r] = WiresAt(f, r, "construct", 1, k) /\ out[r] = OutAt(f, r, 1)
  BY <1>1, <1>2, Now DEF OwnIs
<1>7. "construct" \notin InCall /\ "recv_g1" \notin InCall
  BY DEF InCall
<1>8. gen'[r] = GenAt(f, r, "recv_g1", 1, k)
  <2>1. r \in DOMAIN gen /\ gen' = [gen EXCEPT ![r].one = Opening[2], ![r].S = Opening[3]]
    BY <1>1, <1>2, <1>3, Now
  <2> DEFINE none == (1 - 1) * NumAnds(f) + 0
             label == Opening[2]
             start == Opening[3]
  <2>2. gen[r] = [delta |-> Zero, one |-> Zero, S |-> Zero, gid |-> none]
    <3>1. none = 0
      BY <1>1, AndsCounted
    <3> QED
      BY <1>6, <3>1 DEF GenAt
  <2>3. label = Sample("garblers", 4) /\ start = Start
    BY DEF Opening
  <2>4. GenAt(f, r, "recv_g1", 1, k) = [delta |-> Zero, one |-> Sample("garblers", 4), S |-> Start, gid |-> none]
    BY <1>7 DEF GenAt
  <2> HIDE DEF f, r, k, none, label, start
  <2>5. gen'[r] = [[gen[r] EXCEPT !.one = label] EXCEPT !.S = start]
    BY <2>1 DEF label, start
  <2>6. [gen[r] EXCEPT !.one = label] = [delta |-> Zero, one |-> label, S |-> Zero, gid |-> none]
    BY <2>2
  <2>7. gen'[r] = [delta |-> Zero, one |-> label, S |-> start, gid |-> none]
    BY <2>5, <2>6
  <2> QED
    BY <2>3, <2>4, <2>7
<1>9. drawn'[r] = DrawnAt(f, r, "recv_g1", 1)
  BY <1>3, <1>6 DEF DrawnAt
<1>10. wires'[r] = WiresAt(f, r, "recv_g1", 1, k)
  <2>1. WiresAt(f, r, "construct", 1, k) = WiresAt(f, r, "recv_g1", 1, k)
    BY <1>1, <1>2, <1>7, WiresEnd
  <2> QED
    BY <1>3, <1>6, <2>1
<1>11. OwnIs(f, r, "recv_g1", 1, gate'[r], gen'[r], drawn'[r], wires'[r], out'[r])
  BY <1>3, <1>6, <1>8, <1>9, <1>10 DEF OwnIs
<1>12. ReadIs(f, "recv_g1", 1, gate'[r], rb', keys')
  BY <1>2, <1>3 DEF ReadIs, RecvBuffer
<1>13. \A s \in {"g1", "g2"} : PipeIs(f, s, pc[s], call[s], stream[s], sending[s], "recv_g1", 1, <<>>)
  BY OpeningComes
<1> HIDE DEF k
<1> QED
  BY <1>1, <1>2, <1>3, <1>4, <1>5, <1>11, <1>12, <1>13, EvaluatorStep

(* The evaluator uses blocks off + 1 to upto of its call.                  *)
LEMMA EvaluatorTakes ==
    ASSUME GarbleInv, NEW s \in {"g1", "g2"}, NEW p, pc["eval"] = p, p # "done", NEW c, call["eval"] = c,
           NEW re, received["eval"] = re, NEW p2, NEW off \in Nat, NEW upto, upto = off + Len(re),
           Got(s, p, re) = re, upto =< Width(circuit, s),
           Taken(circuit, s, p, c) = Position(circuit, s, c, off),
           Taken(circuit, s, p2, c) = Position(circuit, s, c, upto)
    PROVE  /\ PipeIs(circuit, s, pc[s], call[s], stream[s], sending[s], p2, c, <<>>)
           /\ HasWords(circuit, s, c, off, re)
<1> DEFINE f == circuit
<1>1. "eval" \in Role /\ s \in Role /\ Dest(s) = "eval"
  BY DEF Role, Dest
<1>2. f \in Circuits /\ c \in 1 .. NumCalls /\ c \in 1 .. NumCalls + 1 /\ IsSeq(re) /\ Len(re) \in Nat
  BY <1>1, Here
<1>3. call[s] \in 1 .. NumCalls + 1 /\ IsSeq(stream[s]) /\ IsSeq(sending[s])
  BY <1>1, Now DEF PlaceIs
<1>4. PipeIs(f, s, pc[s], call[s], stream[s], sending[s], p, c, re)
  BY <1>1, Now
<1> HIDE DEF f
<1>5. Position(f, s, c, off) + Len(re) = Position(f, s, c, upto)
  BY <1>1, <1>2, Offset
<1>6. Taken(f, s, p2, c) = Taken(f, s, p, c) + Len(re)
  BY <1>5 DEF f
<1>7. s = "g1" => Taken(f, s, p, c) + Len(re) # 0
  <2>1. Position(f, s, c, off) >= Base(s) + off /\ Position(f, s, c, off) \in Nat
    BY <1>1, <1>2, Positions
  <2>2. s = "g1" => Base(s) = 3
    BY DEF Base
  <2>3. Taken(f, s, p, c) = Position(f, s, c, off)
    BY DEF f
  <2> QED
    BY <1>2, <2>1, <2>2, <2>3
<1>8. Taken(f, s, p, c) = Position(f, s, c, off) /\ off + Len(re) =< Width(f, s) /\ Got(s, p, re) = re
  BY DEF f
<1>9. PipeIs(f, s, pc[s], call[s], stream[s], sending[s], p2, c, <<>>)
  BY <1>1, <1>2, <1>3, <1>4, <1>6, <1>7, <1>8, PipeReceive
<1>10. HasWords(f, s, c, off, re)
  BY <1>1, <1>2, <1>3, <1>4, <1>7, <1>8, PipeWords
<1> QED
  BY <1>9, <1>10 DEF f

(* A step that changes keys, buffer and place alone.                       *)
LEMMA EvaluatorReceives ==
    ASSUME GarbleInv, NEW p2 \in {"recv_g2", "recv_tables"}, pc["eval"] \in {"recv_g1", "recv_g2"},
           sending["eval"] = <<>>, Received(p2), UNCHANGED <<gate, rb, wires>>,
           p2 = "recv_g2" => keys' = [i \in 1 .. circuit.num_input |-> Active(circuit, call["eval"], G1Eval, i)],
           p2 = "recv_tables" =>
               keys' = [i \in 1 .. circuit.num_input |-> ActiveWires(circuit, call["eval"], 0)[i]],
           \A s \in {"g1", "g2"} :
               PipeIs(circuit, s, pc[s], call[s], stream[s], sending[s], p2, call["eval"], <<>>)
    PROVE  GarbleInv'
<1> DEFINE f == circuit
           r == "eval"
           c == call[r]
           p == pc[r]
           k == gate[r] - 1
<1>1. r \in Role /\ f \in Circuits /\ r # "g1" /\ p # "done" /\ p # "construct" /\ p # "compute"
  BY Now DEF Role
<1>2. c \in 1 .. NumCalls /\ gate[r] \in 1 .. Len(f.gates) + 1
  BY <1>1, Here
<1>3. /\ UNCHANGED <<circuit, call, drawn, gen, gate, rb, wires, sb, sending, stream, out>>
      /\ received' = [received EXCEPT !["eval"] = <<>>] /\ pc' = [pc EXCEPT !["eval"] = p2]
  BY DEF Received, Goto
<1>4. OthersKeep(r)
  <2>1. /\ DOMAIN pc' = Role /\ \A q \in Role : q # r => pc'[q] = pc[q]
        /\ DOMAIN received' = Role /\ \A q \in Role : q # r => received'[q] = received[q]
    BY <1>3 DEF GarbleInv, PlacesInv
  <2>2. ByRole'
    BY <1>3, <2>1 DEF GarbleInv, PlacesInv, ByRole
  <2>3. circuit' = circuit /\ stream' = stream /\ gate' = gate /\ call' = call /\ wires' = wires /\ gen' = gen
        /\ sending' = sending /\ drawn' = drawn /\ sb' = sb /\ out' = out
    BY <1>3
  <2> HIDE DEF f, k, c, p
  <2> QED
    BY <2>1, <2>2, <2>3 DEF OthersKeep
<1>5. pc'[r] = p2 /\ received'[r] = <<>> /\ sending'[r] = <<>> /\ call'[r] = c /\ p2 \in Place(r)
  BY <1>1, <1>3, Now DEF Place
<1>6. OwnIs(f, r, p, c, gate[r], gen[r], drawn[r], wires[r], out[r]) /\ ReadIs(f, p, c, gate[r], rb, keys)
  BY <1>1, Now
<1>7. p \notin InCall /\ p2 \notin InCall
  BY DEF InCall
<1>8. /\ GenAt(f, r, p, c, k) = GenAt(f, r, p2, c, k) /\ DrawnAt(f, r, p, c) = DrawnAt(f, r, p2, c)
      /\ RecvBuffer(f, p, c, k) = RecvBuffer(f, p2, c, k)
  BY <1>1, <1>7 DEF GenAt, DrawnAt, RecvBuffer
<1>9. WiresAt(f, r, p, c, k) = WiresAt(f, r, p2, c, k)
  BY <1>1, <1>2, <1>7, WiresEnd
<1>10. OwnIs(f, r, p2, c, gate'[r], gen'[r], drawn'[r], wires'[r], out'[r])
  <2> HIDE DEF f, r, c, p
  <2> QED
    BY <1>3, <1>6, <1>8, <1>9 DEF OwnIs
<1>11. ReadIs(f, p2, c, gate'[r], rb', keys')
  <2>1. rb' = RecvBuffer(f, p2, c, gate'[r] - 1)
    BY <1>3, <1>6, <1>8 DEF ReadIs
  <2> QED
    BY <2>1 DEF ReadIs
<1> HIDE DEF k
<1> QED
  BY <1>1, <1>2, <1>3, <1>4, <1>5, <1>10, <1>11, EvaluatorStep

(* Blocks of a call's own words, from the first.                           *)
LEMMA KeysAre ==
    ASSUME NEW f \in Circuits, NEW s \in {"g1", "g2"}, NEW c, NEW re, IsSeq(re), Len(re) = f.num_input,
           HasWords(f, s, c, 0, re)
    PROVE  \A i \in 1 .. f.num_input : re[i] = Active(f, c, IF s = "g1" THEN G1Eval ELSE EvalG2, i)
<1>1. \A j \in 1 .. Len(re) : re[j] = Words(f, s, c)[j]
  BY FirstWords
<1>2. /\ \A j \in 1 .. f.num_input : Words(f, "g1", c)[j] = Active(f, c, G1Eval, j)
      /\ \A j \in 1 .. f.num_input : Words(f, "g2", c)[j] = Active(f, c, EvalG2, j)
  BY WordsIs
<1> QED
  BY <1>1, <1>2

(* ReceiveG1Keys keeps the invariant.                                      *)
LEMMA ReceiveG1KeysStep ==
    ASSUME GarbleInv, ReceiveG1Keys
    PROVE  GarbleInv'
<1> DEFINE f == circuit
           c == call["eval"]
           n == f.num_input
           re == received["eval"]
<1>1. "eval" \in Role /\ pc["eval"] = "recv_g1" /\ sending["eval"] = <<>> /\ Len(re) = Wanted("eval")
      /\ keys' = re /\ Received("recv_g2") /\ UNCHANGED <<gate, rb, wires>>
  BY DEF ReceiveG1Keys, At, Role
<1>2. f \in Circuits /\ c \in 1 .. NumCalls /\ IsSeq(re) /\ n \in Nat /\ NumAnds(f) \in Nat
  BY <1>1, Here, CircuitIs, AndsCounted
<1>3. Len(re) = n
  BY <1>1 DEF Wanted
<1>4. /\ Got("g1", "recv_g1", re) = re
      /\ Taken(f, "g1", "recv_g1", c) = Position(f, "g1", c, 0)
      /\ Taken(f, "g1", "recv_g2", c) = Position(f, "g1", c, n)
  BY DEF Got, Taken
<1>5. n = 0 + Len(re) /\ n =< Width(f, "g1")
  BY <1>2, <1>3 DEF Width
<1>6. /\ PipeIs(f, "g1", pc["g1"], call["g1"], stream["g1"], sending["g1"], "recv_g2", c, <<>>)
      /\ HasWords(f, "g1", c, 0, re)
  <2> HIDE DEF c, n, re
  <2>1. "g1" \in {"g1", "g2"} /\ 0 \in Nat /\ pc["eval"] # "done"
    BY <1>1
  <2>2. call["eval"] = c /\ received["eval"] = re
    BY DEF c, re
  <2> QED
    BY <1>1, <1>4, <1>5, <2>1, <2>2, EvaluatorTakes
<1>7. PipeIs(f, "g2", pc["g2"], call["g2"], stream["g2"], sending["g2"], "recv_g2", c, <<>>)
  <2>1. Dest("g2") = "eval" /\ "g2" \in Role
    BY DEF Dest, Role
  <2>2. PipeIs(f, "g2", pc["g2"], call["g2"], stream["g2"], sending["g2"], "recv_g1", c, re)
    BY <1>1, <2>1, Now
  <2>3. /\ Got("g2", "recv_g1", re) = Got("g2", "recv_g2", <<>>)
        /\ Taken(f, "g2", "recv_g1", c) = Taken(f, "g2", "recv_g2", c)
    BY DEF Got, Taken
  <2> QED
    BY <2>2, <2>3 DEF PipeIs
<1>8. keys' = [i \in 1 .. n |-> Active(f, c, G1Eval, i)]
  <2>1. \A i \in 1 .. n : re[i] = Active(f, c, G1Eval, i)
    BY <1>2, <1>3, <1>6, KeysAre
  <2>2. re = [i \in 1 .. n |-> re[i]]
    BY <1>2, <1>3 DEF IsSeq
  <2> QED
    BY <1>1, <2>1, <2>2
<1>9. "recv_g2" \in {"recv_g2", "recv_tables"} /\ "recv_g1" \in {"recv_g1", "recv_g2"} /\ "recv_g2" # "recv_tables"
  OBVIOUS
<1>10. \A s \in {"g1", "g2"} : PipeIs(f, s, pc[s], call[s], stream[s], sending[s], "recv_g2", c, <<>>)
  BY <1>6, <1>7
<1> QED
  BY <1>1, <1>8, <1>9, <1>10, EvaluatorReceives

(* The two keys of an input, and party 3 and 2's share in its zero key.    *)
LEMMA KeysJoin ==
    ASSUME NEW f \in Circuits, NEW c, NEW i \in 1 .. f.num_input
    PROVE  Active(f, c, G1Eval, i) (+) Active(f, c, EvalG2, i) = ActiveWires(f, c, 0)[i]
<1>1. i \in 1 .. f.num_wire
  BY CircuitIs
<1>2. \A in : InputWires(f, in)[i] = in[i]
  BY <1>1 DEF InputWires
<1>3. /\ ZeroWires(f, c)[0] = InputWires(f, [j \in 1 .. f.num_input |-> InputZero(f, c, j)])
      /\ PlainWires(f, c)[0] = InputWires(f, [j \in 1 .. f.num_input |-> Secret(c, j)])
  BY ZeroWiresIs, PlainWiresIs
<1>4. ZeroWires(f, c)[0][i] = InputZero(f, c, i) /\ PlainWires(f, c)[0][i] = Secret(c, i)
  BY <1>2, <1>3
<1>5. ActiveWires(f, c, 0)[i] = ZeroWires(f, c)[0][i] (+) (PlainWires(f, c)[0][i] (.) Delta)
  BY <1>1 DEF ActiveWires
<1> QED
  BY <1>4, <1>5, InputKeys

(* ReceiveG2Keys keeps the invariant.                                      *)
LEMMA ReceiveG2KeysStep ==
    ASSUME GarbleInv, ReceiveG2Keys
    PROVE  GarbleInv'
<1> DEFINE f == circuit
           c == call["eval"]
           n == f.num_input
           re == received["eval"]
<1>1. "eval" \in Role /\ pc["eval"] = "recv_g2" /\ sending["eval"] = <<>> /\ Len(re) = Wanted("eval")
      /\ keys' = [i \in 1 .. n |-> keys[i] (+) re[i]] /\ Received("recv_tables") /\ UNCHANGED <<gate, rb, wires>>
  BY DEF ReceiveG2Keys, At, Role, Inputs
<1>2. f \in Circuits /\ c \in 1 .. NumCalls /\ IsSeq(re) /\ n \in Nat /\ NumAnds(f) \in Nat
  BY <1>1, Here, CircuitIs, AndsCounted
<1>3. Len(re) = n
  BY <1>1 DEF Wanted
<1>4. /\ Got("g2", "recv_g2", re) = re
      /\ Taken(f, "g2", "recv_g2", c) = Position(f, "g2", c, 0)
      /\ Taken(f, "g2", "recv_tables", c) = Position(f, "g2", c, n)
  BY DEF Got, Taken
<1>5. n = 0 + Len(re) /\ n =< Width(f, "g2")
  BY <1>2, <1>3 DEF Width
<1>6. /\ PipeIs(f, "g2", pc["g2"], call["g2"], stream["g2"], sending["g2"], "recv_tables", c, <<>>)
      /\ HasWords(f, "g2", c, 0, re)
  <2> HIDE DEF c, n, re
  <2>1. "g2" \in {"g1", "g2"} /\ 0 \in Nat /\ pc["eval"] # "done"
    BY <1>1
  <2>2. call["eval"] = c /\ received["eval"] = re
    BY DEF c, re
  <2> QED
    BY <1>1, <1>4, <1>5, <2>1, <2>2, EvaluatorTakes
<1>7. PipeIs(f, "g1", pc["g1"], call["g1"], stream["g1"], sending["g1"], "recv_tables", c, <<>>)
  <2>1. Dest("g1") = "eval" /\ "g1" \in Role
    BY DEF Dest, Role
  <2>2. PipeIs(f, "g1", pc["g1"], call["g1"], stream["g1"], sending["g1"], "recv_g2", c, re)
    BY <1>1, <2>1, Now
  <2>3. /\ Got("g1", "recv_g2", re) = Got("g1", "recv_tables", <<>>)
        /\ Taken(f, "g1", "recv_g2", c) = Taken(f, "g1", "recv_tables", c)
    BY DEF Got, Taken
  <2> QED
    BY <2>2, <2>3 DEF PipeIs
<1>8. keys' = [i \in 1 .. n |-> ActiveWires(f, c, 0)[i]]
  <2>1. \A i \in 1 .. n : re[i] = Active(f, c, EvalG2, i)
    BY <1>2, <1>3, <1>6, KeysAre
  <2>2. keys = [i \in 1 .. n |-> Active(f, c, G1Eval, i)]
    BY <1>1, Now DEF ReadIs
  <2>3. \A i \in 1 .. n : keys[i] (+) re[i] = ActiveWires(f, c, 0)[i]
    BY <1>2, <2>1, <2>2, KeysJoin
  <2> QED
    BY <1>1, <2>3
<1>9. "recv_tables" \in {"recv_g2", "recv_tables"} /\ "recv_g2" \in {"recv_g1", "recv_g2"} /\ "recv_tables" # "recv_g2"
  OBVIOUS
<1>10. \A s \in {"g1", "g2"} : PipeIs(f, s, pc[s], call[s], stream[s], sending[s], "recv_tables", c, <<>>)
  BY <1>6, <1>7
<1> QED
  BY <1>1, <1>8, <1>9, <1>10, EvaluatorReceives

(* The tables of the call, and the wires that carry the inputs.            *)
LEMMA TablesCome ==
    ASSUME GarbleInv, ReceiveTables
    PROVE  /\ received["eval"] = Tables(circuit, call["eval"])
           /\ \A s \in {"g1", "g2"} :
                PipeIs(circuit, s, pc[s], call[s], stream[s], sending[s], "compute", call["eval"], <<>>)
<1> DEFINE f == circuit
           c == call["eval"]
           n == f.num_input
           m == 2 * NumAnds(f)
           t == Tables(f, c)
           re == received["eval"]
<1>1. "eval" \in Role /\ pc["eval"] = "recv_tables" /\ sending["eval"] = <<>> /\ Len(re) = Wanted("eval")
  BY DEF ReceiveTables, At, Role
<1>2. f \in Circuits /\ c \in 1 .. NumCalls /\ IsSeq(re) /\ n \in Nat /\ m \in Nat
  <2>1. f \in Circuits /\ c \in 1 .. NumCalls /\ IsSeq(re)
    BY <1>1, Here
  <2>2. n \in Nat /\ NumAnds(f) \in Nat
    BY <2>1, CircuitIs, AndsCounted
  <2> QED
    BY <2>1, <2>2
<1>3. Len(re) = m
  BY <1>1 DEF Wanted, BufLen
<1>4. /\ Got("g1", "recv_tables", re) = re
      /\ Taken(f, "g1", "recv_tables", c) = Position(f, "g1", c, n)
      /\ Taken(f, "g1", "compute", c) = Position(f, "g1", c, Width(f, "g1"))
  BY DEF Got, Taken
<1>5. Width(f, "g1") = n + m
  BY DEF Width
<1>6. /\ PipeIs(f, "g1", pc["g1"], call["g1"], stream["g1"], sending["g1"], "compute", c, <<>>)
      /\ HasWords(f, "g1", c, n, re)
  <2> HIDE DEF c, n, m, re
  <2>1. "g1" \in {"g1", "g2"} /\ pc["eval"] # "done"
    BY <1>1
  <2>2. call["eval"] = c /\ received["eval"] = re
    BY DEF c, re
  <2>3. Width(f, "g1") = n + Len(re) /\ Width(f, "g1") =< Width(f, "g1")
    BY <1>2, <1>3, <1>5
  <2> QED
    BY <1>1, <1>2, <1>4, <2>1, <2>2, <2>3, EvaluatorTakes
<1>7. PipeIs(f, "g2", pc["g2"], call["g2"], stream["g2"], sending["g2"], "compute", c, <<>>)
  <2>1. Dest("g2") = "eval" /\ "g2" \in Role
    BY DEF Dest, Role
  <2>2. PipeIs(f, "g2", pc["g2"], call["g2"], stream["g2"], sending["g2"], "recv_tables", c, re)
    BY <1>1, <2>1, Now
  <2>3. /\ Got("g2", "recv_tables", re) = Got("g2", "compute", <<>>)
        /\ Taken(f, "g2", "recv_tables", c) = Taken(f, "g2", "compute", c)
    BY DEF Got, Taken, Width
  <2> QED
    BY <2>2, <2>3 DEF PipeIs
<1> HIDE DEF f, c, n, m, re, t
<1>8. re = t
  <2>1. t = [j \in 1 .. m |-> t[j]]
    BY DEF t, m, Tables
  <2>2. IsSeq(t) /\ Len(t) = m
    BY <1>2, <2>1, SeqFrom
  <2>3. \A j \in 1 .. m : Words(f, "g1", c)[n + j] = t[j]
    BY <1>2, WordsIs DEF n, m, t
  <2>4. \A j \in 1 .. Len(re) : re[j] = t[j]
    BY <1>3, <1>6, <2>3 DEF HasWords
  <2> QED
    BY <1>2, <1>3, <2>2, <2>4, SeqEqual
<1> QED
  BY <1>6, <1>7, <1>8 DEF f, c, re, t

(* ReceiveTables keeps the invariant.                                      *)
LEMMA ReceiveTablesStep ==
    ASSUME GarbleInv, ReceiveTables
    PROVE  GarbleInv'
<1> DEFINE f == circuit
           r == "eval"
           c == call[r]
           k == gate[r] - 1
<1>1. r \in Role /\ f \in Circuits /\ r # "g1" /\ pc[r] = "recv_tables" /\ sending[r] = <<>>
  BY Now DEF ReceiveTables, At, Role
<1>2. c \in 1 .. NumCalls /\ 1 \in 1 .. Len(f.gates) + 1
  BY <1>1, Here
<1>3. /\ UNCHANGED <<circuit, call, drawn, gen, sb, sending, stream, out, keys>>
      /\ received' = [received EXCEPT !["eval"] = <<>>] /\ pc' = [pc EXCEPT !["eval"] = "compute"]
      /\ wires' = [wires EXCEPT !["eval"] = Append(@, InputWires(circuit, keys))]
      /\ gate' = [gate EXCEPT !["eval"] = 1]
      /\ rb' = [blocks |-> received["eval"], read_counter |-> 0]
  BY DEF ReceiveTables, Received, Goto, StartGates
<1>4. OthersKeep(r)
  <2>1. /\ DOMAIN pc' = Role /\ \A q \in Role : q # r => pc'[q] = pc[q]
        /\ DOMAIN wires' = Role /\ \A q \in Role : q # r => wires'[q] = wires[q]
        /\ DOMAIN gate' = Role /\ \A q \in Role : q # r => gate'[q] = gate[q]
        /\ DOMAIN received' = Role /\ \A q \in Role : q # r => received'[q] = received[q]
    BY <1>3 DEF GarbleInv, PlacesInv
  <2>2. ByRole'
    BY <1>3, <2>1 DEF GarbleInv, PlacesInv, ByRole
  <2>3. circuit' = circuit /\ stream' = stream /\ call' = call /\ gen' = gen
        /\ sending' = sending /\ drawn' = drawn /\ sb' = sb /\ out' = out
    BY <1>3
  <2> HIDE DEF f, k, c
  <2> QED
    BY <2>1, <2>2, <2>3 DEF OthersKeep
<1>5. pc'[r] = "compute" /\ received'[r] = <<>> /\ sending'[r] = <<>> /\ call'[r] = c /\ "compute" \in Place(r)
      /\ gate'[r] = 1
  BY <1>1, <1>3, Now DEF Place
<1>6. OwnIs(f, r, "recv_tables", c, gate[r], gen[r], drawn[r], wires[r], out[r])
      /\ ReadIs(f, "recv_tables", c, gate[r], rb, keys)
  BY <1>1, Now
<1>7. "recv_tables" \notin InCall /\ "compute" \in InCall
  BY DEF InCall
<1>8. AndsTo(f, 0) = 0 /\ 2 * AndsTo(f, 0) = 0
  BY <1>1, AndsCounted
<1>9. /\ GenAt(f, r, "recv_tables", c, k) = GenAt(f, r, "compute", c, 0)
      /\ DrawnAt(f, r, "recv_tables", c) = DrawnAt(f, r, "compute", c)
  BY <1>1, <1>7, <1>8 DEF GenAt, DrawnAt
<1>10. wires'[r] = WiresAt(f, r, "compute", c, 0)
  <2>1. keys = [i \in 1 .. f.num_input |-> ActiveWires(f, c, 0)[i]]
    BY <1>6 DEF ReadIs
  <2>2. InputWires(f, keys) = ActiveWires(f, c, 0)
    BY <1>1, <2>1, ActiveFirst
  <2>3. InputWires(f, keys) = WiresAfter(f, r, c, 0)
    BY <2>2 DEF WiresAfter
  <2>4. wires[r] = WiresAt(f, r, "recv_tables", c, k)
    BY <1>6 DEF OwnIs
  <2>5. wires'[r] = Append(wires[r], InputWires(f, keys))
    BY <1>1, <1>3, Now
  <2> QED
    BY <1>1, <1>2, <1>7, <2>3, <2>4, <2>5, WiresStart
<1>11. OwnIs(f, r, "compute", c, gate'[r], gen'[r], drawn'[r], wires'[r], out'[r])
  <2> HIDE DEF f, r, c
  <2>1. gate'[r] - 1 = 0
    BY <1>5
  <2> QED
    BY <1>3, <1>6, <1>9, <1>10, <2>1 DEF OwnIs
<1>12. ReadIs(f, "compute", c, gate'[r], rb', keys')
  <2>1. rb' = [blocks |-> Tables(f, c), read_counter |-> 0]
    BY <1>3, TablesCome
  <2>2. gate'[r] - 1 = 0
    BY <1>5
  <2>3. rb' = RecvBuffer(f, "compute", c, 0)
    BY <1>8, <2>1 DEF RecvBuffer
  <2> HIDE DEF f, r, c
  <2> QED
    BY <2>2, <2>3 DEF ReadIs
<1>13. \A s \in {"g1", "g2"} : PipeIs(f, s, pc[s], call[s], stream[s], sending[s], "compute", c, <<>>)
  BY TablesCome
<1>14. gate'[r] \in 1 .. Len(f.gates) + 1 /\ pc[r] # "done" /\ "compute" # "done" /\ "compute" # "construct"
  BY <1>1, <1>2, <1>5
<1> HIDE DEF k
<1> QED
  BY <1>1, <1>2, <1>4, <1>5, <1>11, <1>12, <1>13, <1>14, EvaluatorStep

(* The blocks the evaluator reads next.                                    *)
LEMMA TwoRead ==
    ASSUME NEW s, IsSeq(s), NEW n \in Nat, n + 2 =< Len(s)
    PROVE  SubSeq(s, n + 1, n + 2) = <<s[n + 1], s[n + 2]>>
<1> DEFINE S == {s[j] : j \in 1 .. Len(s)}
           u == SubSeq(s, n + 1, n + 2)
           v == <<s[n + 1], s[n + 2]>>
<1>1. s \in Seq(S) /\ Len(s) \in Nat
  BY SeqOver
<1> HIDE DEF S
<1>2. n + 1 \in 1 .. Len(s) /\ n + 2 \in 1 .. Len(s) /\ n + 2 - (n + 1) + 1 = 2
  BY <1>1
<1>3. u \in Seq(S) /\ Len(u) = 2 /\ \A j \in 1 .. 2 : u[j] = s[n + 1 + j - 1]
  BY <1>1, <1>2
<1>4. n + 1 + 1 - 1 = n + 1 /\ n + 1 + 2 - 1 = n + 2 /\ 1 \in 1 .. 2 /\ 2 \in 1 .. 2
  OBVIOUS
<1>5. u[1] = s[n + 1] /\ u[2] = s[n + 2]
  BY <1>3, <1>4
<1>6. IsSeq(v) /\ Len(v) = 2 /\ v[1] = s[n + 1] /\ v[2] = s[n + 2]
  BY DEF IsSeq
<1> HIDE DEF u, v
<1>7. IsSeq(u)
  BY <1>3, SeqIs
<1>8. \A j \in 1 .. Len(u) : u[j] = v[j]
  <2>1. \A j \in 1 .. 2 : j = 1 \/ j = 2
    OBVIOUS
  <2> QED
    BY <1>3, <1>5, <1>6, <2>1
<1>9. u = v
  BY <1>3, <1>6, <1>7, <1>8, SeqEqual
<1> QED
  BY <1>9 DEF u, v

(* What the evaluator has while it computes.                               *)
LEMMA Evaluating ==
    ASSUME GarbleInv, pc["eval"] = "compute"
    PROVE  LET f == circuit
               c == call["eval"]
               k == gate["eval"]
           IN /\ gen["eval"] = [delta |-> Zero, one |-> Sample("garblers", 4), S |-> Start,
                                gid |-> (c - 1) * NumAnds(f) + AndsTo(f, k - 1)]
              /\ Wires("eval") = ActiveWires(f, c, k - 1)
              /\ \A l : [wires["eval"] EXCEPT ![c] = ActiveWires(f, c, l)] = WiresAt(f, "eval", "compute", c, l)
              /\ rb = [blocks |-> Tables(f, c), read_counter |-> 2 * AndsTo(f, k - 1)]
<1> DEFINE r == "eval"
           f == circuit
           c == call[r]
           k == gate[r] - 1
<1>1. r \in Role /\ f \in Circuits /\ c \in 1 .. NumCalls
  BY Here DEF Role
<1>2. OwnIs(f, r, "compute", c, gate[r], gen[r], drawn[r], wires[r], out[r])
      /\ ReadIs(f, "compute", c, gate[r], rb, keys)
  BY <1>1, Now
<1>3. gen[r] = GenAt(f, r, "compute", c, k) /\ wires[r] = WiresAt(f, r, "compute", c, k)
      /\ rb = RecvBuffer(f, "compute", c, k)
  BY <1>2 DEF OwnIs, ReadIs
<1>4. "compute" \in InCall /\ "compute" # "construct"
  BY DEF InCall
<1>5. \A l : WiresAfter(f, r, c, l) = ActiveWires(f, c, l)
  BY DEF WiresAfter
<1>6. /\ WiresAt(f, r, "compute", c, k)[c] = WiresAfter(f, r, c, k)
      /\ \A l : [WiresAt(f, r, "compute", c, k) EXCEPT ![c] = WiresAfter(f, r, c, l)] = WiresAt(f, r, "compute", c, l)
  BY <1>1, <1>4, WiresStep
<1>7. gen[r] = [delta |-> Zero, one |-> Sample("garblers", 4), S |-> Start,
                gid |-> (c - 1) * NumAnds(f) + AndsTo(f, k)]
  BY <1>3, <1>4 DEF GenAt
<1>8. Wires(r) = ActiveWires(f, c, k)
  BY <1>3, <1>5, <1>6 DEF Wires
<1>9. \A l : [wires[r] EXCEPT ![c] = ActiveWires(f, c, l)] = WiresAt(f, r, "compute", c, l)
  BY <1>3, <1>5, <1>6
<1>10. rb = [blocks |-> Tables(f, c), read_counter |-> 2 * AndsTo(f, k)]
  BY <1>3 DEF RecvBuffer
<1> QED
  BY <1>7, <1>8, <1>9, <1>10

(* Evaluating a gate leaves the garblers alone.                            *)
LEMMA EvaluateGateKeeps ==
    ASSUME GarbleInv, EvaluateGate
    PROVE  OthersKeep("eval")
<1> DEFINE r == "eval"
<1>1. r \in Role
  BY DEF Role
<1>2. \E key : SetWire(r, key)
  BY DEF EvaluateGate
<1>3. DOMAIN wires' = Role /\ \A q \in Role : q # r => wires'[q] = wires[q]
  BY <1>1, <1>2, SetWireIs
<1>4. DOMAIN gen' = Role /\ \A q \in Role : q # r => gen'[q] = gen[q]
  <2>1. DOMAIN gen = Role
    BY DEF GarbleInv, PlacesInv
  <2>2. \/ gen' = [gen EXCEPT !["eval"].gid = @ + 1]
        \/ gen' = gen
    BY DEF EvaluateGate
  <2> QED
    BY <2>1, <2>2
<1>5. DOMAIN gate' = Role /\ \A q \in Role : q # r => gate'[q] = gate[q]
  BY DEF EvaluateGate, GarbleInv, PlacesInv
<1>6. UNCHANGED <<circuit, pc, call, drawn, keys, sb, sending, received, stream, out>>
  BY DEF EvaluateGate
<1>7. ByRole'
  BY <1>3, <1>4, <1>5, <1>6 DEF GarbleInv, PlacesInv, ByRole
<1>8. /\ circuit' = circuit /\ pc' = pc /\ call' = call /\ drawn' = drawn /\ keys' = keys /\ sb' = sb
      /\ sending' = sending /\ received' = received /\ stream' = stream /\ out' = out
  BY <1>6
<1>9. r = "eval"
  OBVIOUS
<1> HIDE DEF r
<1>10. OthersKeep(r)
  BY <1>3, <1>4, <1>5, <1>7, <1>8, <1>9 DEF OthersKeep
<1> QED
  BY <1>10 DEF r

(* The key of the gate's output, whatever its kind.                        *)
LEMMA EvaluatedKey ==
    ASSUME GarbleInv, EvaluateGate
    PROVE  LET f == circuit
               c == call["eval"]
               k == gate["eval"]
               one == IF f.gates[k].type = "AND" THEN 1 ELSE 0
           IN /\ wires'["eval"] = WiresAt(f, "eval", "compute", c, k)
              /\ gen'["eval"] = [gen["eval"] EXCEPT !.gid = @ + one]
              /\ rb' = [rb EXCEPT !.read_counter = @ + 2 * one]
<1> DEFINE f == circuit
           r == "eval"
           c == call[r]
           k == gate[r]
           a == ActiveWires(f, c, k - 1)
           g == f.gates[k]
           garbling == GarblingOf(f, c, k, ZeroWires(f, c)[k - 1])
           table == <<TableBlock(1, garbling), TableBlock(2, garbling)>>
           gid == (c - 1) * NumAnds(f) + AndsTo(f, k - 1)
           isAnd == g.type = "AND"
           one == IF isAnd THEN 1 ELSE 0
           key == IF isAnd THEN EvaluateAnd(a[g.in1], a[g.in2], table, Start, gid)
                  ELSE FreeKey(a, g, Sample("garblers", 4))
           n == 2 * AndsTo(f, k - 1)
           t == Tables(f, c)
<1>1. r \in Role /\ pc[r] = "compute" /\ GatesLeft(r)
  BY DEF EvaluateGate, At, Role
<1>2. f \in Circuits /\ c \in 1 .. NumCalls /\ k \in 1 .. Len(f.gates)
  BY <1>1, Here
<1>3. /\ gen[r] = [delta |-> Zero, one |-> Sample("garblers", 4), S |-> Start, gid |-> gid]
      /\ Wires(r) = a /\ Gate(r) = g
      /\ \A l : [wires[r] EXCEPT ![c] = ActiveWires(f, c, l)] = WiresAt(f, r, "compute", c, l)
      /\ rb = [blocks |-> t, read_counter |-> n]
  BY <1>1, Evaluating DEF Gate
<1>4. isAnd => SubSeq(rb.blocks, rb.read_counter + 1, rb.read_counter + 2) = table
  <2> SUFFICES ASSUME isAnd PROVE SubSeq(t, n + 1, n + 2) = table
    BY <1>3
  <2>1. /\ n \in Nat /\ n + 1 \in 1 .. 2 * NumAnds(f) /\ n + 2 \in 1 .. 2 * NumAnds(f)
        /\ t[n + 1] = TableBlock(1, garbling) /\ t[n + 2] = TableBlock(2, garbling)
    BY <1>2, TableOf
  <2>2. t = [j \in 1 .. 2 * NumAnds(f) |-> t[j]] /\ NumAnds(f) \in Nat
    BY <1>2, AndsCounted DEF Tables
  <2> HIDE DEF t, n, garbling, f
  <2>3. IsSeq(t) /\ Len(t) = 2 * NumAnds(f)
    <3>1. 2 * NumAnds(f) \in Nat
      BY <2>2
    <3> QED
      BY <2>2, <3>1, SeqFrom
  <2>4. n + 2 =< Len(t)
    BY <2>1, <2>2, <2>3
  <2>5. SubSeq(t, n + 1, n + 2) = <<t[n + 1], t[n + 2]>>
    BY <2>1, <2>3, <2>4, TwoRead
  <2> QED
    BY <2>1, <2>5
<1> HIDE DEF f, c, k, a, g, garbling, table, gid, isAnd, t, n
<1>5. /\ SetWire(r, key)
      /\ gen'[r] = [gen[r] EXCEPT !.gid = @ + one]
      /\ rb' = [rb EXCEPT !.read_counter = @ + 2 * one]
  <2>1. CASE isAnd
    <3>1. /\ SetWire(r, EvaluateAnd(a[g.in1], a[g.in2], table, Start, gid))
          /\ gen' = [gen EXCEPT ![r].gid = @ + 1] /\ rb' = [rb EXCEPT !.read_counter = @ + 2]
      <4>1. Gate(r).type = "AND"
        BY <1>3, <2>1 DEF isAnd
      <4>2. /\ SetWire(r, EvaluateAnd(Wires(r)[Gate(r).in1], Wires(r)[Gate(r).in2],
                                     SubSeq(rb.blocks, rb.read_counter + 1, rb.read_counter + 2),
                                     gen[r].S, gen[r].gid))
            /\ gen' = [gen EXCEPT ![r].gid = @ + 1] /\ rb' = [rb EXCEPT !.read_counter = @ + 2]
        BY <4>1 DEF EvaluateGate
      <4>3. gen[r].S = Start /\ gen[r].gid = gid
        BY <1>3
      <4> QED
        BY <1>3, <1>4, <2>1, <4>2, <4>3
    <3>2. gen'[r] = [gen[r] EXCEPT !.gid = @ + 1]
      BY <1>1, <3>1, Now
    <3>3. 2 * 1 = 2
      OBVIOUS
    <3> QED
      BY <2>1, <3>1, <3>2, <3>3
  <2>2. CASE ~isAnd
    <3>1. SetWire(r, FreeKey(a, g, Sample("garblers", 4))) /\ gen' = gen /\ rb' = rb
      BY <1>3, <2>2 DEF EvaluateGate, isAnd
    <3>2. gid \in Int /\ n \in Int
      <4>1. c \in Int /\ k - 1 \in 0 .. Len(f.gates)
        BY <1>1, Here DEF f, c, k
      <4>2. NumAnds(f) \in Nat /\ AndsTo(f, k - 1) \in Nat
        BY <1>2, <4>1, AndsCounted
      <4> QED
        BY <4>1, <4>2 DEF gid, n
    <3>3. gen[r] = [gen[r] EXCEPT !.gid = @ + 0] /\ rb = [rb EXCEPT !.read_counter = @ + 0]
      BY <1>3, <3>2
    <3>4. 2 * 0 = 0
      OBVIOUS
    <3> QED
      BY <2>2, <3>1, <3>3, <3>4
  <2> QED
    BY <2>1, <2>2
<1>6. [a EXCEPT ![g.out] = key] = ActiveWires(f, c, k)
  <2>1. /\ f \in Circuits /\ k \in 1 .. Len(f.gates) /\ g = f.gates[k] /\ a = ActiveWires(f, c, k - 1)
        /\ garbling = GarblingOf(f, c, k, ZeroWires(f, c)[k - 1])
    BY <1>2 DEF g, a, garbling
  <2>2. EvaluatesTo(a, g, garbling, (c - 1) * NumAnds(f) + AndsTo(f, k - 1), key)
    BY DEF EvaluatesTo, isAnd, table, gid
  <2> HIDE DEF key, one
  <2>3. WithKey(a, g, key) = ActiveWires(f, c, k)
    BY <2>1, <2>2, ActiveNext
  <2> QED
    BY <2>3 DEF WithKey
<1>7. wires'[r] = [wires[r] EXCEPT ![call[r]] = [Wires(r) EXCEPT ![Gate(r).out] = key]]
  BY <1>1, <1>5, SetWireIs
<1>8. wires'[r] = WiresAt(f, r, "compute", c, k)
  <2> HIDE DEF key
  <2>1. wires'[r] = [wires[r] EXCEPT ![c] = ActiveWires(f, c, k)]
    BY <1>3, <1>6, <1>7 DEF c
  <2> QED
    BY <1>3, <2>1
<1> QED
  BY <1>5, <1>8 DEF f, c, k, isAnd, g

(* EvaluateGate keeps the invariant.                                       *)
LEMMA EvaluateGateStep ==
    ASSUME GarbleInv, EvaluateGate
    PROVE  GarbleInv'
<1> DEFINE f == circuit
           r == "eval"
           c == call[r]
           k == gate[r]
           one == IF f.gates[k].type = "AND" THEN 1 ELSE 0
           gid == (c - 1) * NumAnds(f) + AndsTo(f, k - 1)
           n == 2 * AndsTo(f, k - 1)
           label == Sample("garblers", 4)
<1>1. r \in Role /\ r # "g1" /\ r # "g2" /\ pc[r] = "compute" /\ sending[r] = <<>> /\ GatesLeft(r)
      /\ Len(received[r]) = Wanted(r)
  BY DEF EvaluateGate, At, Role
<1>2. /\ f \in Circuits /\ c \in 1 .. NumCalls /\ c \in Int /\ k \in 1 .. Len(f.gates) /\ k \in Int
      /\ Len(f.gates) \in Nat /\ k - 1 \in 0 .. Len(f.gates)
  BY <1>1, Here
<1>3. received[r] = <<>>
  <2>1. Wanted(r) = 0 /\ IsSeq(received[r])
    BY <1>1, Here DEF Wanted
  <2> QED
    BY <1>1, <2>1, NothingLeft
<1>4. /\ pc'[r] = "compute" /\ call'[r] = c /\ drawn'[r] = drawn[r] /\ out'[r] = out[r] /\ gate'[r] = k + 1
      /\ sending'[r] = <<>> /\ received'[r] = <<>> /\ keys' = keys
  BY <1>1, <1>3, Now DEF EvaluateGate
<1>5. AndsTo(f, k) = AndsTo(f, k - 1) + one /\ AndsTo(f, k - 1) \in Nat /\ NumAnds(f) \in Nat
  <2>1. AndsTo(f, Len(f.gates)) \in Nat
    BY <1>2, AndsCounted
  <2> QED
    BY <1>2, <2>1, AndsCounted
<1>6. /\ wires'[r] = WiresAt(f, r, "compute", c, k)
      /\ gen'[r] = [gen[r] EXCEPT !.gid = @ + one]
      /\ rb' = [rb EXCEPT !.read_counter = @ + 2 * one]
  BY EvaluatedKey
<1>7. gen[r] = [delta |-> Zero, one |-> label, S |-> Start, gid |-> gid]
      /\ rb = [blocks |-> Tables(f, c), read_counter |-> n]
  BY <1>1, Evaluating
<1> HIDE DEF f, c, k, label
<1>8. gid + one = (c - 1) * NumAnds(f) + AndsTo(f, k) /\ n + 2 * one = 2 * AndsTo(f, k)
  <2>1. (c - 1) * NumAnds(f) \in Int /\ one \in Int
    BY <1>2, <1>5
  <2> HIDE DEF one
  <2> QED
    BY <1>5, <2>1
<1> HIDE DEF gid, one, n
<1>9. gen'[r] = GenAt(f, r, "compute", c, k)
  <2>1. gen'[r] = [delta |-> Zero, one |-> label, S |-> Start, gid |-> gid + one]
    BY <1>6, <1>7
  <2> QED
    BY <1>1, <1>8, <2>1 DEF GenAt, InCall, label
<1>10. rb' = RecvBuffer(f, "compute", c, k)
  <2>1. rb' = [blocks |-> Tables(f, c), read_counter |-> n + 2 * one]
    BY <1>6, <1>7
  <2> QED
    BY <1>8, <2>1 DEF RecvBuffer
<1>11. gate'[r] - 1 = k /\ gate'[r] \in 1 .. Len(f.gates) + 1
  <2>1. k + 1 - 1 = k /\ k + 1 \in 1 .. Len(f.gates) + 1
    BY <1>2
  <2>2. gate'[r] = k + 1
    BY <1>4
  <2> QED
    BY <1>2, <2>1, <2>2
<1>12. drawn[r] = DrawnAt(f, r, "compute", c) /\ out[r] = OutAt(f, r, c)
  BY <1>1, Now DEF OwnIs, f, c
<1>13. OwnIs(f, r, "compute", c, gate'[r], gen'[r], drawn'[r], wires'[r], out'[r])
  BY <1>4, <1>6, <1>9, <1>11, <1>12 DEF OwnIs
<1>14. ReadIs(f, "compute", c, gate'[r], rb', keys')
  BY <1>4, <1>10, <1>11 DEF ReadIs
<1>15. \A s \in {"g1", "g2"} : PipeIs(f, s, pc[s], call[s], stream[s], sending[s], "compute", c, <<>>)
  <2>1. \A s \in {"g1", "g2"} : s \in Role /\ Dest(s) = "eval"
    BY DEF Role, Dest
  <2>2. \A s \in Role : PipeIs(circuit, s, pc[s], call[s], stream[s], sending[s],
                               pc[Dest(s)], call[Dest(s)], received[Dest(s)])
    BY Now
  <2> QED
    BY <1>1, <1>3, <2>1, <2>2 DEF f, c
<1>16. "compute" \in Place("eval") /\ gate'[r] \in 1 .. Len(f.gates) + 1 /\ OthersKeep(r)
  BY <1>4, <1>11, EvaluateGateKeeps DEF Place
<1> QED
  BY <1>1, <1>4, <1>13, <1>14, <1>15, <1>16, EvaluatorStep DEF f, c

(* The evaluator's share of the output.                                    *)
LEMMA EvaluatorOutput ==
    ASSUME GarbleInv, OutputEval
    PROVE  /\ G1EvalShare("eval") = G1EvalOf(circuit, call["eval"])
           /\ EvalG2Share = FromEval(circuit, call["eval"])
<1> DEFINE f == circuit
           r == "eval"
           c == call[r]
           L == Len(f.gates)
           a == ActiveWires(f, c, L)
<1>1. r \in Role /\ pc[r] = "compute" /\ ~GatesLeft(r)
  BY DEF OutputEval, At, Role
<1>2. f \in Circuits /\ c \in 1 .. NumCalls /\ gate[r] - 1 = L
  BY <1>1, Here
<1>3. Wires(r) = a
  BY <1>1, <1>2, Evaluating
<1>4. drawn[r].g1_eval = (c - 1) * f.num_output
  <2>1. drawn[r] = DrawnAt(f, r, "compute", c)
    BY <1>1, Now DEF OwnIs
  <2> QED
    BY <2>1 DEF DrawnAt
<1>5. G1EvalShare(r) = G1EvalOf(f, c)
  BY <1>4 DEF G1EvalShare, G1EvalOf, Outputs
<1> HIDE DEF a
<1>6. Colours(r) = ColoursOf(f, a)
  BY <1>3 DEF Colours, ColoursOf, Outputs
<1>7. EvalG2Share = [i \in 1 .. f.num_output |-> ColoursOf(f, a)[i] (+) G1EvalOf(f, c)[i]]
  BY <1>5, <1>6 DEF EvalG2Share, Outputs
<1>8. FromEval(f, c) = [i \in 1 .. f.num_output |-> ColoursOf(f, a)[i] (+) G1EvalOf(f, c)[i]]
  BY DEF FromEval, a
<1> QED
  BY <1>5, <1>7, <1>8

(* The output share goes to party 2 in its place.                          *)
LEMMA OutputEvalPipe ==
    ASSUME GarbleInv, OutputEval, NEW q \in {"recv_g1", "done"}
    PROVE  /\ PipeIs(circuit, "eval", q, call["eval"] + 1, stream["eval"], EvalG2Share,
                     pc["g2"], call["g2"], received["g2"])
           /\ IsSeq(EvalG2Share) /\ received["eval"] = <<>>
           /\ \A s \in {"g1", "g2"} :
                PipeIs(circuit, s, pc[s], call[s], stream[s], sending[s], q, call["eval"] + 1, <<>>)
<1> DEFINE f == circuit
           r == "eval"
           c == call[r]
           o == f.num_output
           se == EvalG2Share
<1>1. r \in Role /\ pc[r] = "compute" /\ sending[r] = <<>> /\ Len(received[r]) = Wanted(r)
      /\ "g2" \in Role /\ Dest(r) = "g2"
  BY DEF OutputEval, At, Role, Dest
<1>2. f \in Circuits /\ c \in 1 .. NumCalls /\ c \in 1 .. NumCalls + 1 /\ IsSeq(stream[r]) /\ o \in Nat
  BY <1>1, Here, CircuitIs
<1>3. received[r] = <<>>
  <2>1. Wanted(r) = 0 /\ IsSeq(received[r])
    BY <1>1, Here DEF Wanted
  <2> QED
    BY <1>1, <2>1, NothingLeft
<1>4. call["g2"] \in 1 .. NumCalls + 1 /\ IsSeq(received["g2"])
  BY <1>1, Now DEF PlaceIs
<1>5. PipeIs(f, r, "compute", c, stream[r], <<>>, pc["g2"], call["g2"], received["g2"])
  BY <1>1, Now
<1>6. se = FromEval(f, c) /\ IsSeq(se) /\ Len(se) = o
  <2>1. se = FromEval(f, c)
    BY EvaluatorOutput
  <2>2. IsSeq(FromEval(f, c)) /\ Len(FromEval(f, c)) = o
    BY <1>2, FromEvalIs
  <2> QED
    BY <2>1, <2>2
<1>7. Width(f, r) = o
  BY DEF Width
<1>8. Sent(f, r, "compute", c) = Position(f, r, c, 0) /\ Sent(f, r, q, c + 1) = Position(f, r, c + 1, 0)
  BY DEF Sent
<1>9. \A s \in {"g1", "g2"} : PipeIs(f, s, pc[s], call[s], stream[s], sending[s], q, c + 1, <<>>)
  <2> SUFFICES ASSUME NEW s \in {"g1", "g2"}
               PROVE  PipeIs(f, s, pc[s], call[s], stream[s], sending[s], q, c + 1, <<>>)
    OBVIOUS
  <2>1. s \in Role /\ Dest(s) = "eval" /\ s # "eval"
    BY DEF Role, Dest
  <2>2. PipeIs(f, s, pc[s], call[s], stream[s], sending[s], "compute", c, <<>>)
    BY <1>1, <1>3, <2>1, Now
  <2>3. Taken(f, s, "compute", c) = Position(f, s, c, Width(f, s)) /\ Taken(f, s, q, c + 1) = Position(f, s, c + 1, 0)
    BY <2>1 DEF Taken
  <2>4. Position(f, s, c, Width(f, s)) = Position(f, s, c + 1, 0)
    BY <1>2, <2>1, Positions
  <2>5. Got(s, "compute", <<>>) = <<>> /\ Got(s, q, <<>>) = <<>>
    BY DEF Got
  <2> HIDE DEF f, c
  <2> QED
    BY <2>2, <2>3, <2>4, <2>5 DEF PipeIs
<1> HIDE DEF f, r, c, o, se
<1>10. Position(f, r, c, 0) + o = Position(f, r, c, o) /\ Position(f, r, c, o) = Position(f, r, c + 1, 0)
  <2>1. Position(f, r, c, 0) + o = Position(f, r, c, o)
    BY <1>1, <1>2, Offset
  <2>2. Position(f, r, c, Width(f, r)) = Position(f, r, c + 1, 0)
    BY <1>1, <1>2, Positions
  <2> QED
    BY <1>7, <2>1, <2>2
<1>11. HasWords(f, r, c, 0, se)
  <2> SUFFICES ASSUME NEW j \in 1 .. Len(se) PROVE se[j] = Words(f, r, c)[0 + j]
    BY DEF HasWords
  <2>1. 0 + j = j
    OBVIOUS
  <2>2. Words(f, r, c) = FromEval(f, c)
    BY <1>2, WordsIs DEF r
  <2> QED
    BY <1>6, <2>1, <2>2
<1>12. PipeIs(f, r, q, c + 1, stream[r], se, pc["g2"], call["g2"], received["g2"])
  <2>1. 0 \in Nat /\ 0 + Len(se) =< Width(f, r) /\ Sent(f, r, q, c + 1) = Position(f, r, c, 0) + Len(se)
    BY <1>2, <1>6, <1>7, <1>8, <1>10
  <2> QED
    BY <1>1, <1>2, <1>4, <1>5, <1>6, <1>8, <1>11, <2>1, PipeSend
<1> QED
  BY <1>3, <1>6, <1>9, <1>12 DEF f, r, c, se

(* Between calls the buffer has the tables of the call before, used up.    *)
LEMMA BufferKept ==
    ASSUME NEW f, NEW p, p # "construct", p # "compute", NEW c, c # 1, NEW b, b = c - 1, NEW k
    PROVE  RecvBuffer(f, p, c, k) = [blocks |-> Tables(f, b), read_counter |-> 2 * NumAnds(f)]
BY DEF RecvBuffer

(* OutputEval keeps the invariant.                                         *)
LEMMA OutputEvalStep ==
    ASSUME GarbleInv, OutputEval
    PROVE  GarbleInv'
<1> DEFINE f == circuit
           r == "eval"
           c == call[r]
           L == Len(f.gates)
           o == f.num_output
           q == pc'[r]
<1>1. /\ r \in Role /\ r # "g1" /\ pc[r] = "compute" /\ ~GatesLeft(r) /\ Return("eval", "recv_g1")
  BY DEF OutputEval, At, Role
<1>2. f \in Circuits /\ c \in 1 .. NumCalls /\ gate[r] - 1 = L /\ gate[r] \in 1 .. L + 1 /\ IsSeq(stream[r])
  BY <1>1, Here
<1>3. /\ DOMAIN pc' = Role /\ DOMAIN call' = Role
      /\ \A x \in Role : x # r => pc'[x] = pc[x] /\ call'[x] = call[x]
      /\ call'[r] = c + 1 /\ call'[r] \in 1 .. NumCalls + 1
      /\ q \in Place(r) /\ q \notin InCall /\ q \in {"recv_g1", "done"}
      /\ (q = "done") = (call'[r] = NumCalls + 1)
  <2>1. "recv_g1" \in Place(r) /\ "recv_g1" \in {"garble", "recv_g1"}
    BY DEF Place
  <2> QED
    BY <1>1, <2>1, Returning
<1>4. /\ UNCHANGED <<circuit, keys, gen, gate, sb, rb, wires, received, stream>>
      /\ drawn' = [drawn EXCEPT !["eval"]["g1_eval"] = @ + o]
      /\ sending' = [sending EXCEPT !["eval"] = EvalG2Share]
      /\ out' = [out EXCEPT !["eval"] = Append(@, Shares(G1Eval, G1EvalShare("eval"), EvalG2, EvalG2Share))]
  BY DEF OutputEval, compute, Draw
<1>5. OthersKeep(r)
  <2>1. /\ DOMAIN drawn' = Role /\ \A x \in Role : x # r => drawn'[x] = drawn[x]
        /\ DOMAIN sending' = Role /\ \A x \in Role : x # r => sending'[x] = sending[x]
        /\ DOMAIN out' = Role /\ \A x \in Role : x # r => out'[x] = out[x]
    BY <1>4 DEF GarbleInv, PlacesInv
  <2>2. ByRole'
    BY <1>3, <1>4, <2>1 DEF GarbleInv, PlacesInv, ByRole
  <2>3. circuit' = circuit /\ stream' = stream /\ gate' = gate /\ gen' = gen /\ wires' = wires
        /\ received' = received /\ sb' = sb /\ rb' = rb /\ keys' = keys
    BY <1>4
  <2> HIDE DEF r, f, c, L, o, q
  <2> QED
    BY <1>3, <2>1, <2>2, <2>3 DEF OthersKeep, q
<1>6. gate'[r] = gate[r] /\ gen'[r] = gen[r] /\ wires'[r] = wires[r] /\ sending'[r] = EvalG2Share
      /\ received'[r] = <<>> /\ drawn'[r] = [drawn[r] EXCEPT !["g1_eval"] = @ + o]
  <2>1. received[r] = <<>>
    BY OutputEvalPipe
  <2> QED
    BY <1>1, <1>4, <2>1, Now
<1>7. PlaceIs(f, r, q, call'[r], gate'[r], stream[r], sending'[r], received'[r])
  <2>1. IsSeq(<<>>) /\ Len(<<>>) = 0 /\ IsSeq(EvalG2Share)
    BY <1>3, EmptyIs, OutputEvalPipe
  <2>2. 0 =< WantedAt(f, r, q)
    BY <1>2, <1>3, CircuitIs DEF WantedAt
  <2>3. q # "construct" /\ q # "output"
    BY <1>3
  <2> HIDE DEF f, r, c, q, L
  <2> QED
    BY <1>2, <1>3, <1>6, <2>1, <2>2, <2>3 DEF PlaceIs, L
<1>8. /\ gen[r] = GenAt(f, r, "compute", c, L) /\ drawn[r] = DrawnAt(f, r, "compute", c)
      /\ wires[r] = WiresAt(f, r, "compute", c, L) /\ out[r] = OutAt(f, r, c)
      /\ rb = RecvBuffer(f, "compute", c, L)
  BY <1>1, <1>2, Now DEF OwnIs, ReadIs
<1>9. /\ GenAt(f, r, "compute", c, L) = GenAt(f, r, q, c + 1, L)
      /\ WiresAt(f, r, "compute", c, L) = WiresAt(f, r, q, c + 1, L)
      /\ DrawnAt(f, r, q, c + 1) = [DrawnAt(f, r, "compute", c) EXCEPT !["g1_eval"] = @ + o]
  <2>1. "compute" \in InCall /\ q # "construct" /\ r # "g2" /\ (IF r = "g2" THEN 0 ELSE o) = o
    BY <1>3 DEF InCall
  <2> DEFINE p == "compute"
             more == IF r = "g2" THEN 0 ELSE o
  <2>2. /\ f \in Circuits /\ r \in Role /\ c \in 1 .. NumCalls /\ p \in InCall
        /\ q \notin InCall /\ q # "construct"
    BY <1>1, <1>2, <1>3, <2>1
  <2> HIDE DEF f, r, c, q, p
  <2>3. /\ GenAt(f, r, p, c, L) = GenAt(f, r, q, c + 1, L)
        /\ WiresAt(f, r, p, c, L) = WiresAt(f, r, q, c + 1, L)
        /\ DrawnAt(f, r, q, c + 1) = [DrawnAt(f, r, p, c) EXCEPT !["g1_eval"] = @ + more]
    BY <2>2, EndOfCall, SMTT(30)
  <2> QED
    BY <2>1, <2>3 DEF p
<1>10. out'[r] = OutAt(f, r, c + 1)
  <2>1. Shares(G1Eval, G1EvalShare(r), EvalG2, EvalG2Share) = OutAfter(f, r, c)
    BY EvaluatorOutput DEF OutAfter
  <2>2. out'[r] = Append(out[r], OutAfter(f, r, c))
    BY <1>1, <1>4, <2>1, Now
  <2>3. Append(OutAt(f, r, c), OutAfter(f, r, c)) = OutAt(f, r, c + 1)
    BY <1>1, <1>2, OutEnd
  <2> QED
    BY <1>8, <2>2, <2>3
<1>11. RecvBuffer(f, "compute", c, L) = RecvBuffer(f, q, c + 1, L)
  <2>1. AndsTo(f, L) = NumAnds(f) /\ c \in Int /\ c >= 1
    BY <1>2, AndsCounted
  <2> HIDE DEF f, c, L
  <2>2. RecvBuffer(f, "compute", c, L) = [blocks |-> Tables(f, c), read_counter |-> 2 * AndsTo(f, L)]
    BY DEF RecvBuffer
  <2>3. q # "construct" /\ q # "compute"
    BY <1>3
  <2> HIDE DEF q
  <2> DEFINE next == c + 1
  <2>4. next # 1 /\ c = next - 1
    BY <2>1
  <2> HIDE DEF next
  <2>5. RecvBuffer(f, q, next, L) = [blocks |-> Tables(f, c), read_counter |-> 2 * NumAnds(f)]
    BY <2>3, <2>4, BufferKept
  <2> QED
    BY <2>1, <2>2, <2>5 DEF next
<1>12. OwnIs(f, r, q, call'[r], gate'[r], gen'[r], drawn'[r], wires'[r], out'[r])
  <2> HIDE DEF f, r, c, L, o, q
  <2> QED
    BY <1>2, <1>3, <1>6, <1>8, <1>9, <1>10 DEF OwnIs
<1>13. ReadIs(f, q, call'[r], gate'[r], rb', keys')
  <2>1. q # "recv_g2" /\ q # "recv_tables" /\ rb' = rb
    BY <1>3, <1>4
  <2> HIDE DEF f, r, c, L, o, q
  <2> QED
    BY <1>2, <1>3, <1>6, <1>8, <1>11, <2>1 DEF ReadIs
<1>14. PipeIs(f, r, q, call'[r], stream[r], sending'[r], pc[Dest(r)], call[Dest(r)], received[Dest(r)])
  <2>1. Dest(r) = "g2"
    BY DEF Dest
  <2>2. PipeIs(f, r, q, c + 1, stream[r], EvalG2Share, pc["g2"], call["g2"], received["g2"])
    BY <1>3, OutputEvalPipe
  <2> QED
    BY <1>3, <1>6, <2>1, <2>2
<1>15. \A s \in Role : Dest(s) = r => PipeIs(f, s, pc[s], call[s], stream[s], sending[s],
                                             q, call'[r], received'[r])
  <2>1. \A s \in Role : Dest(s) = r => s \in {"g1", "g2"}
    BY DEF Dest, Role
  <2>2. \A s \in {"g1", "g2"} : PipeIs(f, s, pc[s], call[s], stream[s], sending[s], q, c + 1, <<>>)
    BY <1>3, OutputEvalPipe
  <2> QED
    BY <1>3, <1>6, <2>1, <2>2
<1> HIDE DEF r
<1> QED
  BY <1>1, <1>5, <1>7, <1>12, <1>13, <1>14, <1>15, PartyStep DEF f, q

-----------------------------------------------------------------------------
(* The streams *)

(* A block moves from the head of one sequence to the end of another.      *)
LEMMA Moved ==
    ASSUME NEW s, NEW t, IsSeq(s), IsSeq(t), t # <<>>
    PROVE  /\ IsSeq(Append(s, Head(t))) /\ IsSeq(Tail(t)) /\ Len(Append(s, Head(t))) = Len(s) + 1
           /\ Append(s, Head(t)) \o Tail(t) = s \o t
<1> DEFINE e == <<Head(t)>>
           rest == Tail(t)
           a == Append(s, Head(t))
<1>1. IsSeq(e) /\ IsSeq(rest) /\ t = e \o rest
  BY HeadTail
<1>2. IsSeq(a) /\ a = s \o e /\ Len(a) = Len(s) + 1
  BY AppendIs
<1> HIDE DEF e, rest, a
<1>3. a \o rest = s \o t
  BY <1>1, <1>2, ConcatAssoc
<1> QED
  BY <1>1, <1>2, <1>3 DEF rest, a

(* Re-association, with the whole given by its value.                      *)
Associates(s, t, u) == (s \o t) \o u = s \o (t \o u)

(* Concatenation is associative, by its name.                              *)
LEMMA AssociatesSeq ==
    ASSUME NEW s, NEW t, NEW u, IsSeq(s), IsSeq(t), IsSeq(u)
    PROVE  Associates(s, t, u)
BY ConcatAssoc, SMTT(30) DEF Associates

(* A block that moves leaves the whole as it was.                          *)
LEMMA MovedWithin ==
    ASSUME NEW s, NEW t, NEW u, IsSeq(s), IsSeq(t), IsSeq(u), t # <<>>,
           NEW a, NEW rest, a = Append(s, Head(t)), rest = Tail(t)
    PROVE  a \o (rest \o u) = s \o (t \o u)
<1>1. IsSeq(a) /\ IsSeq(rest)
  BY Moved
<1>2. a \o rest = s \o t
  BY Moved
<1>3. Associates(a, rest, u) /\ Associates(s, t, u)
  BY <1>1, AssociatesSeq
<1>4. (a \o rest) \o u = a \o (rest \o u)
  BY <1>3, Zenon DEF Associates
<1>5. (s \o t) \o u = s \o (t \o u)
  BY <1>3, Zenon DEF Associates
<1> QED
  BY <1>2, <1>4, <1>5, Zenon

(* A step that moves blocks and does nothing else.                         *)
LEMMA StreamStep ==
    ASSUME GarbleInv, UNCHANGED <<circuit, pc, call, drawn, keys, compute, out>>,
           DOMAIN stream' = Role, DOMAIN sending' = Role, DOMAIN received' = Role,
           \A r \in Role : /\ IsSeq(stream'[r]) /\ IsSeq(sending'[r]) /\ IsSeq(received'[r])
                           /\ Len(received'[r]) =< WantedAt(circuit, r, pc[r]),
           \A s \in Role : PipeIs(circuit, s, pc[s], call[s], stream'[s], sending'[s],
                                  pc[Dest(s)], call[Dest(s)], received'[Dest(s)])
    PROVE  GarbleInv'
<1>1. /\ circuit' = circuit /\ pc' = pc /\ call' = call /\ drawn' = drawn /\ keys' = keys
      /\ gen' = gen /\ gate' = gate /\ sb' = sb /\ rb' = rb /\ wires' = wires /\ out' = out
  BY DEF compute
<1>2. ByRole'
  BY <1>1 DEF GarbleInv, PlacesInv, ByRole
<1>3. \A r \in Role : PlaceIs(circuit', r, pc'[r], call'[r], gate'[r], stream'[r], sending'[r], received'[r])
  <2> SUFFICES ASSUME NEW r \in Role
               PROVE  PlaceIs(circuit, r, pc[r], call[r], gate[r], stream'[r], sending'[r], received'[r])
    BY <1>1
  <2>1. PlaceIs(circuit, r, pc[r], call[r], gate[r], stream[r], sending[r], received[r])
    BY Now
  <2> QED
    BY <2>1 DEF PlaceIs
<1>4. \A r \in Role : OwnIs(circuit', r, pc'[r], call'[r], gate'[r], gen'[r], drawn'[r], wires'[r], out'[r])
  BY <1>1, Now
<1>5. SentIs(circuit', pc'["g1"], call'["g1"], gate'["g1"], sb')
      /\ ReadIs(circuit', pc'["eval"], call'["eval"], gate'["eval"], rb', keys')
  BY <1>1, Now
<1>6. \A s \in Role : PipeIs(circuit', s, pc'[s], call'[s], stream'[s], sending'[s],
                             pc'[Dest(s)], call'[Dest(s)], received'[Dest(s)])
  BY <1>1
<1>7. circuit' \in Circuits
  BY <1>1, Now
<1> QED
  BY <1>2, <1>3, <1>4, <1>5, <1>6, <1>7, AllTold

(* Transmit keeps the invariant.                                           *)
LEMMA TransmitStep ==
    ASSUME GarbleInv, NEW r \in Role, Transmit(r)
    PROVE  GarbleInv'
<1>1. sending[r] # <<>> /\ received' = received
  BY DEF Transmit
<1>2. /\ DOMAIN stream' = Role /\ DOMAIN sending' = Role /\ DOMAIN received' = Role
      /\ \A q \in Role : q # r => stream'[q] = stream[q] /\ sending'[q] = sending[q]
      /\ stream'[r] = Append(stream[r], Head(sending[r])) /\ sending'[r] = Tail(sending[r])
  BY DEF Transmit, GarbleInv, PlacesInv
<1>3. \A q \in Role : /\ IsSeq(stream[q]) /\ IsSeq(sending[q]) /\ IsSeq(received[q])
                      /\ Len(received[q]) =< WantedAt(circuit, q, pc[q])
  BY Now DEF PlaceIs
<1>4. /\ IsSeq(stream'[r]) /\ IsSeq(sending'[r]) /\ stream'[r] \o sending'[r] = stream[r] \o sending[r]
  BY <1>1, <1>2, <1>3, Moved
<1>5. \A q \in Role : /\ IsSeq(stream'[q]) /\ IsSeq(sending'[q]) /\ IsSeq(received'[q])
                      /\ Len(received'[q]) =< WantedAt(circuit, q, pc[q])
  BY <1>1, <1>2, <1>3, <1>4
<1>6. ASSUME NEW s \in Role
      PROVE  PipeIs(circuit, s, pc[s], call[s], stream'[s], sending'[s],
                    pc[Dest(s)], call[Dest(s)], received'[Dest(s)])
  <2>1. stream'[s] \o sending'[s] = stream[s] \o sending[s]
    BY <1>2, <1>4
  <2>2. PipeIs(circuit, s, pc[s], call[s], stream[s], sending[s], pc[Dest(s)], call[Dest(s)], received[Dest(s)])
    BY Now
  <2> QED
    BY <1>1, <2>1, <2>2 DEF PipeIs
<1>7. UNCHANGED <<circuit, pc, call, drawn, keys, compute, out>>
  BY DEF Transmit
<1> QED
  BY <1>2, <1>5, <1>6, <1>7, StreamStep

(* Receive keeps the invariant.                                            *)
LEMMA ReceiveStep ==
    ASSUME GarbleInv, NEW r \in Role, Receive(r)
    PROVE  GarbleInv'
<1> DEFINE s == Source(r)
           p == pc[r]
<1>1. /\ Len(received[r]) < Wanted(r) /\ stream[s] # <<>> /\ sending' = sending
      /\ Wanted(r) = WantedAt(circuit, r, p) /\ circuit \in Circuits /\ s \in Role
  BY Now DEF Receive, Wanted, WantedAt, BufLen, Source, Role
<1>2. /\ DOMAIN stream' = Role /\ DOMAIN sending' = Role /\ DOMAIN received' = Role
      /\ \A q \in Role : q # s => stream'[q] = stream[q]
      /\ \A q \in Role : q # r => received'[q] = received[q]
      /\ received'[r] = Append(received[r], Head(stream[s])) /\ stream'[s] = Tail(stream[s])
  BY <1>1 DEF Receive, GarbleInv, PlacesInv
<1>3. \A q \in Role : /\ IsSeq(stream[q]) /\ IsSeq(sending[q]) /\ IsSeq(received[q])
                      /\ Len(received[q]) =< WantedAt(circuit, q, pc[q])
  BY Now DEF PlaceIs
<1>4. Dest(s) = r /\ \A re : Got(s, p, re) = re
  <2>1. r = "g2" \/ r = "eval"
    <3>1. r = "g1" => Wanted(r) = 0 /\ Len(received[r]) \in Nat
      BY <1>3 DEF Wanted, IsSeq
    <3> QED
      BY <1>1, <3>1 DEF Role
  <2>2. CASE r = "g2"
    BY <2>2 DEF Source, Dest, Got
  <2>3. CASE r = "eval"
    BY <2>3 DEF Source, Dest, Got
  <2> QED
    BY <2>1, <2>2, <2>3
<1>5. \A q \in Role : q # s /\ Dest(q) = r => \A re : Got(q, p, re) = <<>>
  BY <1>4 DEF Source, Dest, Got, Role
<1> HIDE DEF s, p
<1>6. IsSeq(received'[r]) /\ IsSeq(stream'[s]) /\ Len(received'[r]) = Len(received[r]) + 1
  BY <1>1, <1>2, <1>3, Moved
<1>7. \A q \in Role : /\ IsSeq(stream'[q]) /\ IsSeq(sending'[q]) /\ IsSeq(received'[q])
                      /\ Len(received'[q]) =< WantedAt(circuit, q, pc[q])
  <2>1. Len(received'[r]) =< WantedAt(circuit, r, pc[r])
    <3>1. WantedAt(circuit, r, p) \in Nat /\ Len(received[r]) \in Nat
      BY <1>1, <1>3, WantedIs DEF IsSeq
    <3> QED
      BY <1>1, <1>6, <3>1 DEF p
  <2> QED
    BY <1>1, <1>2, <1>3, <1>6, <2>1
<1>8. ASSUME NEW q \in Role
      PROVE  PipeIs(circuit, q, pc[q], call[q], stream'[q], sending'[q],
                    pc[Dest(q)], call[Dest(q)], received'[Dest(q)])
  <2>1. PipeIs(circuit, q, pc[q], call[q], stream[q], sending[q], pc[Dest(q)], call[Dest(q)], received[Dest(q)])
    BY Now
  <2>2. Dest(q) \in Role
    BY DEF Dest, Role
  <2>3. CASE q = s
    <3>1. received'[r] \o (stream'[s] \o sending[s]) = received[r] \o (stream[s] \o sending[s])
      <4> DEFINE re == received[r]
                 st == stream[s]
                 se == sending[s]
      <4>1. IsSeq(re) /\ IsSeq(st) /\ IsSeq(se) /\ st # <<>>
        BY <1>1, <1>3
      <4>2. received'[r] = Append(re, Head(st)) /\ stream'[s] = Tail(st)
        BY <1>2
      <4> DEFINE re1 == received'[r]
                 st1 == stream'[s]
      <4>3. re1 = Append(re, Head(st)) /\ st1 = Tail(st)
        BY <4>2
      <4> HIDE DEF re, st, se, re1, st1
      <4>4. re1 \o (st1 \o se) = re \o (st \o se)
        BY <4>1, <4>3, MovedWithin
      <4> QED
        BY <4>4 DEF re, st, se, re1, st1
    <3>2. Got(s, p, received'[r]) = received'[r] /\ Got(s, p, received[r]) = received[r]
      BY <1>4
    <3> QED
      BY <1>1, <1>4, <2>1, <2>3, <3>1, <3>2 DEF PipeIs, p
  <2>4. CASE q # s /\ Dest(q) = r
    <3>1. Got(q, p, received'[r]) = Got(q, p, received[r])
      BY <1>5, <2>4
    <3> QED
      BY <1>1, <1>2, <2>1, <2>4, <3>1 DEF PipeIs, p
  <2>5. CASE q # s /\ Dest(q) # r
    BY <1>1, <1>2, <2>1, <2>2, <2>5
  <2> QED
    BY <2>3, <2>4, <2>5
<1>9. UNCHANGED <<circuit, pc, call, drawn, keys, compute, out>>
  BY DEF Receive
<1> QED
  BY <1>2, <1>7, <1>8, <1>9, StreamStep

-----------------------------------------------------------------------------
(* The system *)

(* A function on nothing is the empty sequence.                            *)
LEMMA NoneIs ==
    ASSUME NEW f
    PROVE  [j \in 1 .. 0 |-> f[j]] = <<>>
<1> DEFINE n == 0
           e == [j \in 1 .. n |-> f[j]]
<1>1. n \in Nat /\ e = [j \in 1 .. n |-> f[j]]
  OBVIOUS
<1> HIDE DEF e
<1>2. n = 0
  OBVIOUS
<1> HIDE DEF n
<1>3. IsSeq(e) /\ Len(e) = n
  BY <1>1, SeqFrom
<1>4. e = <<>>
  BY <1>2, <1>3, EmptyIs, SeqEqual
<1> QED
  BY <1>4 DEF e, n

(* The empty buffers and records of the beginning are those of the         *)
(* constructor in the first call.                                          *)
LEMMA Nothing ==
    ASSUME NEW f \in Circuits, NEW r \in Role
    PROVE  /\ GenAt(f, r, "construct", 1, 0) = [delta |-> Zero, one |-> Zero, S |-> Zero, gid |-> 0]
           /\ DrawnAt(f, r, "construct", 1) = [garblers |-> 0, g1_eval |-> 0]
           /\ WiresAt(f, r, "construct", 1, 0) = <<>> /\ OutAt(f, r, 1) = <<>>
           /\ SendBuffer(f, "construct", 1, 0) = <<>>
           /\ RecvBuffer(f, "construct", 1, 0) = [blocks |-> <<>>, read_counter |-> 0]
<1>1. (1 - 1) * f.num_output = 0
  BY CircuitIs
<1>2. DrawnAt(f, r, "construct", 1) = [garblers |-> 0, g1_eval |-> 0]
  BY <1>1 DEF DrawnAt
<1>3. WiresAt(f, r, "construct", 1, 0) = <<>>
  <2> DEFINE w == [b \in 1 .. 0 |-> WiresAfter(f, r, b, IF b = 1 THEN 0 ELSE Len(f.gates))]
  <2>1. WiresAt(f, r, "construct", 1, 0) = w
    BY DEF WiresAt, InCall
  <2>2. w = [b \in 1 .. 0 |-> w[b]]
    OBVIOUS
  <2> HIDE DEF w
  <2> QED
    BY <2>1, <2>2, NoneIs
<1>4. OutAt(f, r, 1) = <<>>
  <2> DEFINE w == [b \in 1 .. 0 |-> OutAfter(f, r, b)]
  <2>1. OutAt(f, r, 1) = w
    BY DEF OutAt
  <2>2. w = [b \in 1 .. 0 |-> w[b]]
    OBVIOUS
  <2> HIDE DEF w
  <2> QED
    BY <2>1, <2>2, NoneIs
<1>5. SendBuffer(f, "construct", 1, 0) = <<>>
  BY NothingSent
<1> QED
  BY <1>2, <1>3, <1>4, <1>5 DEF GenAt, RecvBuffer

(* The invariant holds when the parties start, ...                         *)
LEMMA InitHolds ==
    ASSUME Init
    PROVE  GarbleInv
<1> DEFINE f == circuit
<1>1. /\ f \in Circuits /\ \A r \in Role : pc[r] = "construct" /\ call[r] = 1 /\ gate[r] = 1
      /\ \A r \in Role : stream[r] = <<>> /\ sending[r] = <<>> /\ received[r] = <<>>
  BY DEF Init
<1>2. PlacesInv
  <2>1. {DOMAIN pc, DOMAIN call, DOMAIN gate, DOMAIN gen, DOMAIN drawn, DOMAIN wires, DOMAIN out,
         DOMAIN stream, DOMAIN sending, DOMAIN received} = {Role}
    BY DEF Init
  <2>2. ASSUME NEW r \in Role
        PROVE  /\ pc[r] \in Place(r) /\ call[r] \in 1 .. NumCalls + 1 /\ gate[r] \in 1 .. Len(f.gates) + 1
               /\ (pc[r] = "done") = (call[r] = NumCalls + 1)
               /\ pc[r] \in {"construct", "flush"} => call[r] = 1
               /\ pc[r] = "output" => ~GatesLeft(r)
    <3>1. NumCalls \in Nat /\ NumCalls >= 1 /\ Len(f.gates) \in Nat
      BY <1>1, CircuitIs
    <3>2. pc[r] \in Place(r)
      BY <1>1 DEF Place
    <3>3. call[r] \in 1 .. NumCalls + 1 /\ gate[r] \in 1 .. Len(f.gates) + 1 /\ call[r] # NumCalls + 1
      BY <1>1, <3>1
    <3> QED
      BY <1>1, <3>2, <3>3
  <2>3. ASSUME NEW r \in Role
        PROVE  IsSeq(stream[r]) /\ IsSeq(sending[r]) /\ IsSeq(received[r]) /\ Len(received[r]) =< Wanted(r)
    <3>1. Wanted(r) \in {0, 3}
      BY <1>1 DEF Wanted
    <3> QED
      BY <1>1, <3>1, EmptyIs
  <2> QED
    BY <1>1, <2>1, <2>2, <2>3 DEF PlacesInv
<1>3. OwnInv
  <2> SUFFICES ASSUME NEW r \in Role
               PROVE  /\ gen[r] = GenAt(f, r, pc[r], call[r], gate[r] - 1)
                      /\ drawn[r] = DrawnAt(f, r, pc[r], call[r])
                      /\ wires[r] = WiresAt(f, r, pc[r], call[r], gate[r] - 1)
                      /\ out[r] = OutAt(f, r, call[r])
    BY DEF OwnInv
  <2>1. /\ gen[r] = [delta |-> Zero, one |-> Zero, S |-> Zero, gid |-> 0]
        /\ drawn[r] = [garblers |-> 0, g1_eval |-> 0] /\ wires[r] = <<>> /\ out[r] = <<>>
    BY DEF Init
  <2>2. gate[r] - 1 = 0
    BY <1>1
  <2> QED
    BY <1>1, <2>1, <2>2, Nothing
<1>4. BuffersInv
  <2>1. sb = <<>> /\ rb = [blocks |-> <<>>, read_counter |-> 0]
    BY DEF Init
  <2>2. "g1" \in Role /\ "eval" \in Role
    BY DEF Role
  <2>3. gate["g1"] - 1 = 0 /\ gate["eval"] - 1 = 0
    BY <1>1, <2>2
  <2> QED
    BY <1>1, <2>1, <2>2, <2>3, Nothing DEF BuffersInv
<1>5. PipesHold
  <2> SUFFICES ASSUME NEW s \in Role
               PROVE  Carries(f, s, Pipe(s), Taken(f, s, pc[Dest(s)], call[Dest(s)]), Sent(f, s, pc[s], call[s]))
    BY DEF PipesHold
  <2> DEFINE n == IF s = "g1" THEN 0 ELSE Position(f, s, 1, 0)
  <2>1. Dest(s) \in Role
    BY DEF Dest, Role
  <2>2. Taken(f, s, pc[Dest(s)], call[Dest(s)]) = n /\ Sent(f, s, pc[s], call[s]) = n
    BY <1>1, <2>1 DEF Taken, Sent
  <2>3. Pipe(s) = <<>>
    <3>1. Got(s, pc[Dest(s)], received[Dest(s)]) = <<>>
      BY <1>1, <2>1 DEF Got
    <3> QED
      BY <1>1, <3>1, EmptyIs DEF Pipe
  <2>4. n \in Nat
    <3>1. 1 \in 1 .. NumCalls + 1 /\ 0 \in Nat
      BY <1>1, CircuitIs
    <3> QED
      BY <1>1, <3>1, Positions
  <2> HIDE DEF n, f
  <2> QED
    BY <2>2, <2>3, <2>4, EmptyIs, CarriesNothing
<1> QED
  BY <1>2, <1>3, <1>4, <1>5 DEF GarbleInv

(* ... is kept when nothing changes, ...                                   *)
LEMMA StutterHolds ==
    ASSUME GarbleInv, UNCHANGED vars
    PROVE  GarbleInv'
<1>1. UNCHANGED <<circuit, pc, call, drawn, keys, compute, out>>
      /\ stream' = stream /\ sending' = sending /\ received' = received
  BY DEF vars
<1>2. DOMAIN stream' = Role /\ DOMAIN sending' = Role /\ DOMAIN received' = Role
  BY <1>1 DEF GarbleInv, PlacesInv
<1>3. \A r \in Role : /\ IsSeq(stream'[r]) /\ IsSeq(sending'[r]) /\ IsSeq(received'[r])
                      /\ Len(received'[r]) =< WantedAt(circuit, r, pc[r])
  BY <1>1, Now DEF PlaceIs
<1>4. \A s \in Role : PipeIs(circuit, s, pc[s], call[s], stream'[s], sending'[s],
                             pc[Dest(s)], call[Dest(s)], received'[Dest(s)])
  BY <1>1, Now
<1> QED
  BY <1>1, <1>2, <1>3, <1>4, StreamStep

(* ... and by every step.                                                  *)
LEMMA NextHolds ==
    ASSUME GarbleInv, Next
    PROVE  GarbleInv'
<1> SUFFICES ASSUME NEW r \in Role, Run(r) PROVE GarbleInv'
  BY DEF Next
<1>1. CASE Transmit(r)
  BY <1>1, TransmitStep
<1>2. CASE Receive(r)
  BY <1>2, ReceiveStep
<1>3. CASE r \in Garbler /\ RunGarbler(r)
  <2>1. CASE ConstructGarbler(r)
    BY <1>3, <2>1, ConstructGarblerStep
  <2>2. CASE SendKeys(r)
    BY <1>3, <2>2, SendKeysStep
  <2>3. CASE GarbleGate(r)
    BY <1>3, <2>3, GarbleGateStep
  <2>4. CASE Flush(r)
    BY <1>3, <2>4, FlushStep
  <2>5. CASE FlushOpening
    BY <2>5, FlushOpeningStep
  <2>6. CASE OutputG1
    BY <2>6, OutputG1Step
  <2>7. CASE OutputG2
    BY <2>7, OutputG2Step
  <2> QED
    BY <1>3, <2>1, <2>2, <2>3, <2>4, <2>5, <2>6, <2>7 DEF RunGarbler
<1>4. CASE RunEvaluator
  <2>1. CASE ConstructEvaluator
    BY <2>1, ConstructEvaluatorStep
  <2>2. CASE ReceiveG1Keys
    BY <2>2, ReceiveG1KeysStep
  <2>3. CASE ReceiveG2Keys
    BY <2>3, ReceiveG2KeysStep
  <2>4. CASE ReceiveTables
    BY <2>4, ReceiveTablesStep
  <2>5. CASE EvaluateGate
    BY <2>5, EvaluateGateStep
  <2>6. CASE OutputEval
    BY <2>6, OutputEvalStep
  <2> QED
    BY <1>4, <2>1, <2>2, <2>3, <2>4, <2>5, <2>6 DEF RunEvaluator
<1> QED
  BY <1>1, <1>2, <1>3, <1>4 DEF Run

(* At every moment the place a party is at tells all that it has, and what *)
(* is in the streams is what the sender's place says it sent beyond what   *)
(* the receiver's place says it used: the invariant the properties below   *)
(* follow from.                                                            *)
THEOREM GarbleInductive == Spec => []GarbleInv
<1>1. Init => GarbleInv
  BY InitHolds
<1>2. GarbleInv /\ [Next]_vars => GarbleInv'
  <2> SUFFICES ASSUME GarbleInv, [Next]_vars PROVE GarbleInv'
    OBVIOUS
  <2>1. CASE Next
    BY <2>1, NextHolds
  <2>2. CASE UNCHANGED vars
    BY <2>2, StutterHolds
  <2> QED
    BY <2>1, <2>2
<1> QED
  BY <1>1, <1>2, PTL DEF Spec

(* The wires of a call that a party has computed.                          *)
LEMMA ComputedIs ==
    ASSUME GarbleInv, NEW r \in Role, NEW c \in 1 .. NumCalls, Computed(r, c)
    PROVE  wires[r][c] = WiresAfter(circuit, r, c, Len(circuit.gates)) /\ pc[r] # "construct"
<1> DEFINE f == circuit
           L == Len(f.gates)
           cc == call[r]
           n == IF pc[r] \in InCall THEN cc ELSE cc - 1
           g == gate[r]
           w == [b \in 1 .. n |-> WiresAfter(f, r, b, IF b = cc THEN g - 1 ELSE L)]
<1>1. /\ f \in Circuits /\ PlaceIs(f, r, pc[r], cc, g, stream[r], sending[r], received[r])
      /\ OwnIs(f, r, pc[r], cc, g, gen[r], drawn[r], wires[r], out[r])
  BY Now
<1>2. L \in Nat /\ NumCalls \in Nat
  BY <1>1, CircuitIs
<1>3. cc \in 1 .. NumCalls + 1 /\ g \in 1 .. L + 1 /\ (pc[r] = "construct" => cc = 1)
  BY <1>1 DEF PlaceIs
<1>4. wires[r] = w
  BY <1>1 DEF OwnIs, WiresAt
<1>5. n \in Nat /\ (pc[r] = "construct" => n = 0)
  BY <1>2, <1>3 DEF InCall
<1>6. c =< Len(wires[r]) /\ (c = cc => ~(g =< L))
  BY DEF Computed, GatesLeft
<1>7. Len(w) = n
  <2>1. w = [b \in 1 .. n |-> w[b]]
    OBVIOUS
  <2> HIDE DEF w, n
  <2> QED
    BY <1>5, <2>1, SeqFrom
<1>8. c \in 1 .. n /\ pc[r] # "construct"
  <2> HIDE DEF w, n
  <2> QED
    BY <1>2, <1>4, <1>5, <1>6, <1>7
<1>9. wires[r][c] = WiresAfter(f, r, c, IF c = cc THEN g - 1 ELSE L)
  <2> HIDE DEF n, f, L, cc, g
  <2> QED
    BY <1>4, <1>8
<1>10. (IF c = cc THEN g - 1 ELSE L) = L
  <2> HIDE DEF n, f, L, cc, g
  <2> QED
    BY <1>2, <1>3, <1>6
<1> QED
  BY <1>8, <1>9, <1>10

(* What a party has returned.                                              *)
LEMMA ReturnedIs ==
    ASSUME GarbleInv, NEW r \in Role, NEW c \in 1 .. NumCalls, Returned(r, c)
    PROVE  out[r][c] = OutAfter(circuit, r, c)
<1> DEFINE f == circuit
           n == call[r] - 1
           w == [b \in 1 .. n |-> OutAfter(f, r, b)]
<1>1. /\ f \in Circuits /\ PlaceIs(f, r, pc[r], call[r], gate[r], stream[r], sending[r], received[r])
      /\ OwnIs(f, r, pc[r], call[r], gate[r], gen[r], drawn[r], wires[r], out[r])
  BY Now
<1>2. n \in Nat
  BY <1>1, CircuitIs DEF PlaceIs
<1>3. out[r] = w
  BY <1>1 DEF OwnIs, OutAt
<1>4. Len(w) = n
  <2>1. w = [b \in 1 .. n |-> w[b]]
    OBVIOUS
  <2> HIDE DEF w, n
  <2> QED
    BY <1>2, <2>1, SeqFrom
<1>5. c =< Len(out[r])
  BY DEF Returned
<1>6. c \in 1 .. n
  <2>1. NumCalls \in Nat
    BY <1>1, CircuitIs
  <2> HIDE DEF w, n
  <2> QED
    BY <1>2, <1>3, <1>4, <1>5, <2>1
<1> HIDE DEF n, f
<1> QED
  BY <1>3, <1>6 DEF f

(* What follows from the invariant, property by property.                  *)
LEMMA AgreeFollows ==
    ASSUME GarbleInv
    PROVE  GarblersAgree
<1> SUFFICES ASSUME NEW c \in 1 .. NumCalls, Computed("g1", c), Computed("g2", c)
             PROVE  wires["g1"][c] = wires["g2"][c]
  BY DEF GarblersAgree
<1>1. "g1" \in Role /\ "g2" \in Role
  BY DEF Role
<1>2. wires["g1"][c] = WiresAfter(circuit, "g1", c, Len(circuit.gates))
      /\ wires["g2"][c] = WiresAfter(circuit, "g2", c, Len(circuit.gates))
  BY <1>1, ComputedIs
<1> QED
  BY <1>2 DEF WiresAfter

LEMMA ActiveFollows ==
    ASSUME GarbleInv
    PROVE  ActiveKeys
<1> SUFFICES ASSUME NEW c \in 1 .. NumCalls, Computed("g1", c), Computed("eval", c),
                    NEW w \in 1 .. circuit.num_wire
             PROVE  wires["eval"][c][w] = wires["g1"][c][w] (+) (Plain(c)[w] (.) gen["g1"].delta)
  BY DEF ActiveKeys
<1> DEFINE L == Len(circuit.gates)
<1>1. "g1" \in Role /\ "eval" \in Role
  BY DEF Role
<1>2. /\ wires["g1"][c] = WiresAfter(circuit, "g1", c, L) /\ pc["g1"] # "construct"
      /\ wires["eval"][c] = WiresAfter(circuit, "eval", c, L)
  BY <1>1, ComputedIs
<1>3. gen["g1"].delta = Delta
  <2>1. OwnIs(circuit, "g1", pc["g1"], call["g1"], gate["g1"], gen["g1"], drawn["g1"], wires["g1"], out["g1"])
    BY <1>1, Now
  <2> QED
    BY <1>2, <2>1 DEF OwnIs, GenAt
<1>4. wires["g1"][c] = ZeroWires(circuit, c)[L] /\ wires["eval"][c] = ActiveWires(circuit, c, L)
  BY <1>2 DEF WiresAfter
<1>5. ActiveWires(circuit, c, L)[w] = ZeroWires(circuit, c)[L][w] (+) (PlainWires(circuit, c)[L][w] (.) Delta)
  BY DEF ActiveWires
<1> QED
  BY <1>3, <1>4, <1>5 DEF Plain

(* The three shares of an output make up its value.                        *)
LEMMA SharesMake ==
    ASSUME NEW f \in Circuits, NEW c, NEW i \in 1 .. f.num_output
    PROVE  G1EvalOf(f, c)[i] (+) FromEval(f, c)[i] (+) ColoursOf(f, ZeroWires(f, c)[Len(f.gates)])[i]
             = OutputsOf(f, PlainWires(f, c)[Len(f.gates)])[i]
<1> DEFINE L == Len(f.gates)
           x == f.num_wire - f.num_output + i
           z == ZeroWires(f, c)[L][x]
           v == PlainWires(f, c)[L][x]
           a == ActiveWires(f, c, L)[x]
           g == G1EvalOf(f, c)[i]
<1>1. L \in 0 .. L /\ x \in 1 .. f.num_wire
  BY CircuitIs
<1>2. IsFiniteSet(z) /\ IsValue(v)
  BY <1>1, WiresTyped DEF ZeroKeys, PlainValues
<1>3. a = z (+) (v (.) Delta)
  BY <1>1 DEF ActiveWires
<1>4. /\ OutputsOf(f, PlainWires(f, c)[L])[i] = v
      /\ ColoursOf(f, ZeroWires(f, c)[L])[i] = getLSB(z)
      /\ ColoursOf(f, ActiveWires(f, c, L))[i] = getLSB(a)
  BY DEF OutputsOf, ColoursOf
<1>5. FromEval(f, c)[i] = getLSB(a) (+) g
  BY <1>4 DEF FromEval
<1> HIDE DEF L, x, z, v, a, g
<1>6. getLSB(a) = getLSB(z) (+) v
  <2>1. IsFiniteSet(v (.) Delta) /\ getLSB(v (.) Delta) = v
    BY <1>2, TimesDelta, ColourOfDelta
  <2> QED
    BY <1>2, <1>3, <2>1, ColourLinear
<1>7. \A p, q, r : p (+) ((q (+) r) (+) p) (+) q = r
  BY DEF (+)
<1> QED
  BY <1>4, <1>5, <1>6, <1>7 DEF g, L

LEMMA OutputFollows ==
    ASSUME GarbleInv
    PROVE  OutputShared
<1> SUFFICES ASSUME NEW c \in 1 .. NumCalls, \A r \in Role : Returned(r, c)
             PROVE  /\ out["g1"][c][G1Eval] = out["eval"][c][G1Eval]
                    /\ out["eval"][c][EvalG2] = out["g2"][c][EvalG2]
                    /\ out["g2"][c][G1G2] = out["g1"][c][G1G2]
                    /\ \A i \in Outputs :
                         out["g1"][c][G1Eval][i] (+) out["g2"][c][EvalG2][i] (+) out["g1"][c][G1G2][i]
                             = OutputsOf(circuit, Plain(c))[i]
  BY DEF OutputShared
<1> DEFINE f == circuit
           p == G1EvalOf(f, c)
           q == FromEval(f, c)
           z == ColoursOf(f, ZeroWires(f, c)[Len(f.gates)])
<1>1. f \in Circuits /\ {"g1", "g2", "eval"} = Role
  BY Now DEF Role
<1>2. \A r \in Role : out[r][c] = OutAfter(f, r, c)
  BY ReturnedIs
<1>3. /\ out["g1"][c] = Shares(G1Eval, p, G1G2, z) /\ out["g2"][c] = Shares(EvalG2, q, G1G2, z)
      /\ out["eval"][c] = Shares(G1Eval, p, EvalG2, q)
  <2>1. out["g1"][c] = OutAfter(f, "g1", c) /\ out["g2"][c] = OutAfter(f, "g2", c)
        /\ out["eval"][c] = OutAfter(f, "eval", c)
    BY <1>1, <1>2
  <2> QED
    BY <2>1 DEF OutAfter
<1> HIDE DEF p, q, z
<1>4. /\ out["g1"][c][G1Eval] = p /\ out["g1"][c][G1G2] = z
      /\ out["g2"][c][EvalG2] = q /\ out["g2"][c][G1G2] = z
      /\ out["eval"][c][G1Eval] = p /\ out["eval"][c][EvalG2] = q
  BY <1>3 DEF Shares, G1Eval, EvalG2, G1G2
<1>5. ASSUME NEW i \in Outputs PROVE p[i] (+) q[i] (+) z[i] = OutputsOf(circuit, Plain(c))[i]
  BY <1>1, SharesMake DEF Outputs, Plain, p, q, z
<1> QED
  BY <1>4, <1>5

(* Every circuit has room for the three blocks of the constructor in the   *)
(* buffers for its tables.                                                 *)
Roomy == \A f \in Circuits : 2 * NumAnds(f) >= 3

LEMMA BuffersFollow ==
    ASSUME GarbleInv, Roomy
    PROVE  BufferAsserts
<1> DEFINE f == circuit
           N == NumAnds(f)
           L == Len(f.gates)
<1>1. /\ f \in Circuits /\ "g1" \in Role /\ "eval" \in Role
      /\ SentIs(f, pc["g1"], call["g1"], gate["g1"], sb)
      /\ ReadIs(f, pc["eval"], call["eval"], gate["eval"], rb, keys)
  BY Now DEF Role
<1>2. N \in Nat /\ 2 * N >= 3 /\ L \in Nat /\ BufLen = 2 * N
  BY <1>1, CircuitIs, AndsCounted DEF BufLen, Roomy
<1>3. ASSUME NEW r \in Role
      PROVE  AndsTo(f, gate[r] - 1) \in Nat /\ AndsTo(f, gate[r] - 1) =< N
  <2>1. PlaceIs(f, r, pc[r], call[r], gate[r], stream[r], sending[r], received[r])
    BY Now
  <2>2. gate[r] \in 1 .. L + 1
    BY <2>1 DEF PlaceIs
  <2> DEFINE k == gate[r] - 1
  <2>3. k \in 0 .. L /\ L \in 0 .. L /\ k =< L
    BY <1>2, <2>2
  <2> HIDE DEF k
  <2>4. AndsTo(f, k) \in Nat /\ AndsTo(f, L) = N
    BY <1>1, <2>3, AndsCounted
  <2>5. AndsTo(f, k) =< AndsTo(f, L)
    BY <1>1, <2>3, AndsGrow
  <2> QED
    BY <2>4, <2>5 DEF k
<1>4. Len(Opening) = 3 /\ Len(<<>>) = 0
  BY DEF Opening
<1>5. Len(sb) =< BufLen
  <2>1. CASE pc["g1"] = "flush"
    <3>1. sb = Opening
      BY <1>1, <2>1 DEF SentIs, SendBuffer
    <3> HIDE DEF N
    <3> QED
      BY <1>2, <1>4, <3>1
  <2>2. CASE pc["g1"] # "flush"
    <3> DEFINE n == IF pc["g1"] = "compute" THEN 2 * AndsTo(f, gate["g1"] - 1) ELSE 0
               b == [j \in 1 .. n |-> Tables(f, call["g1"])[j]]
    <3>1. sb = b
      BY <1>1, <2>2 DEF SentIs, SendBuffer
    <3>2. n \in Nat /\ n =< 2 * N
      BY <1>1, <1>2, <1>3
    <3>3. b = [j \in 1 .. n |-> b[j]]
      OBVIOUS
    <3> HIDE DEF n, b, N
    <3>4. Len(b) = n
      BY <3>2, <3>3, SeqFrom
    <3> QED
      BY <1>2, <3>1, <3>2, <3>4
  <2> QED
    BY <2>1, <2>2
<1>6. \A c : Len(Tables(f, c)) = 2 * N
  <2> SUFFICES ASSUME NEW c PROVE Len(Tables(f, c)) = 2 * N
    OBVIOUS
  <2> DEFINE t == Tables(f, c)
             m == 2 * N
  <2>1. t = [j \in 1 .. m |-> t[j]]
    BY DEF Tables
  <2>2. m \in Nat
    BY <1>2
  <2> HIDE DEF t, m
  <2>3. Len(t) = m
    BY <2>1, <2>2, SeqFrom
  <2> QED
    BY <2>3 DEF t, m
<1> DEFINE c == call["eval"]
           p == pc["eval"]
           a == AndsTo(f, gate["eval"] - 1)
<1>7. a \in Nat /\ a =< N
  BY <1>1, <1>3
<1>8. rb = RecvBuffer(f, p, c, gate["eval"] - 1)
  BY <1>1 DEF ReadIs
<1> HIDE DEF N, L
<1>9. \/ p = "construct" /\ rb.blocks = <<>> /\ rb.read_counter = 0
      \/ p = "compute" /\ rb.blocks = Tables(f, c) /\ rb.read_counter = 2 * a
      \/ rb.blocks = Opening /\ rb.read_counter = 3
      \/ rb.blocks = Tables(f, c - 1) /\ rb.read_counter = 2 * N
  BY <1>8 DEF RecvBuffer, N
<1> HIDE DEF a, p, c, f
<1>10. /\ Len(rb.blocks) \in Nat /\ Len(rb.blocks) =< 2 * N /\ rb.read_counter =< Len(rb.blocks)
       /\ p = "recv_tables" => rb.read_counter = Len(rb.blocks)
  <2>1. CASE p = "construct" /\ rb.blocks = <<>> /\ rb.read_counter = 0
    BY <1>2, <1>4, <2>1
  <2>2. CASE p = "compute" /\ rb.blocks = Tables(f, c) /\ rb.read_counter = 2 * a
    BY <1>2, <1>6, <1>7, <2>2
  <2>3. CASE rb.blocks = Opening /\ rb.read_counter = 3
    <3>1. Len(rb.blocks) = 3 /\ rb.read_counter = 3
      BY <1>4, <2>3
    <3> HIDE DEF N
    <3>2. 3 =< 2 * N
      BY <1>2
    <3> QED
      BY <3>1, <3>2
  <2>4. CASE rb.blocks = Tables(f, c - 1) /\ rb.read_counter = 2 * N
    BY <1>2, <1>6, <2>4
  <2> QED
    BY <1>9, <2>1, <2>2, <2>3, <2>4
<1> QED
  BY <1>2, <1>5, <1>10 DEF BufferAsserts, p

(* Party 2's zero keys are party 3's, in every call and for every wire: the*)
(* draws of the two from the generator they share never get out of step.   *)
THEOREM GarblersAgreeHolds == Spec => []GarblersAgree
<1>1. GarbleInv => GarblersAgree
  BY AgreeFollows
<1> QED
  BY <1>1, GarbleInductive, PTL

(* The evaluator holds the key of the value of every wire.                 *)
THEOREM ActiveKeysHolds == Spec => []ActiveKeys
<1>1. GarbleInv => ActiveKeys
  BY ActiveFollows
<1> QED
  BY <1>1, GarbleInductive, PTL

(* The three parties return a replicated sharing of the circuit's outputs. *)
THEOREM OutputSharedHolds == Spec => []OutputShared
<1>1. GarbleInv => OutputShared
  BY OutputFollows
<1> QED
  BY <1>1, GarbleInductive, PTL

(* The assertions of the two buffers never fail, if every circuit has room *)
(* for the constants of the constructor where the tables go.               *)
THEOREM BufferAssertsHolds ==
    ASSUME Roomy
    PROVE  Spec => []BufferAsserts
<1>1. GarbleInv => BufferAsserts
  BY BuffersFollow
<1> QED
  BY <1>1, GarbleInductive, PTL
=============================================================================
