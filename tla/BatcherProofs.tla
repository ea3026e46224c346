--------------------------- MODULE BatcherProofs ----------------------------
(***************************************************************************)
(* The bitonic network sorts every array that is not too short for its     *)
(* threads, for every length and number of threads.                        *)
(***************************************************************************)
EXTENDS BatcherProperties, Counting

-----------------------------------------------------------------------------
(* Blocks and powers of two *)

(* Division with remainder.                                                *)
LEMMA InBlock ==
    ASSUME NEW c \in Nat \ {0}, NEW k \in Nat
    PROVE  \E start \in Aligned(c) : k \in Block(start, c)
<1> DEFINE T == {j \in Nat : \E m \in Nat : j \in m * c .. m * c + c - 1}
<1>1. 0 \in T
  <2>1. 0 * c = 0 /\ 0 \in 0 * c .. 0 * c + c - 1
    OBVIOUS
  <2> QED
    BY <2>1
<1>2. ASSUME NEW j \in 1 .. k, j - 1 \in T PROVE j \in T
  <2>1. PICK m \in Nat : j - 1 \in m * c .. m * c + c - 1
    BY <1>2
  <2>2. PICK a \in Nat : a = m * c
    OBVIOUS
  <2>3. (m + 1) * c = a + c /\ m + 1 \in Nat
    BY <2>2
  <2>4. j \in a .. a + c - 1 \/ j \in a + c .. a + c + c - 1
    BY <2>1, <2>2
  <2>5. j \in m * c .. m * c + c - 1 \/ j \in (m + 1) * c .. (m + 1) * c + c - 1
    BY <2>2, <2>3, <2>4
  <2>6. \E i \in Nat : j \in i * c .. i * c + c - 1
    <3>1. m \in Nat /\ m + 1 \in Nat
      OBVIOUS
    <3> QED
      BY <2>5, <3>1
  <2> QED
    BY <2>6
<1> HIDE DEF T
<1>3. \A j \in 0 .. k : j \in T
  BY <1>1, <1>2, InductionUpTo
<1>4. k \in T
  BY <1>3
<1> QED
  BY <1>4 DEF T, Aligned, Block

LEMMA BlockUnique ==
    ASSUME NEW c \in Nat \ {0}, NEW s \in Aligned(c), NEW t \in Aligned(c),
           NEW i \in 0 .. c - 1, NEW j \in 0 .. c - 1, s + i = t + j
    PROVE  s = t /\ i = j
<1>1. PICK m \in Nat, n \in Nat : s = m * c /\ t = n * c
  BY DEF Aligned
<1>2. ~(m < n)
  <2> SUFFICES ASSUME m < n PROVE FALSE
    OBVIOUS
  <2>1. m * c + c =< n * c
    OBVIOUS
  <2> QED
    BY <1>1, <2>1
<1>3. ~(n < m)
  <2> SUFFICES ASSUME n < m PROVE FALSE
    OBVIOUS
  <2>1. n * c + c =< m * c
    OBVIOUS
  <2> QED
    BY <1>1, <2>1
<1>4. m = n
  BY <1>2, <1>3
<1>5. s = t /\ s \in Nat
  BY <1>1, <1>4
<1> QED
  BY <1>5

LEMMA AlignedMod ==
    ASSUME NEW c \in Nat \ {0}
    PROVE  /\ Aligned(c) \subseteq Nat
           /\ \A s \in Nat : s % c = 0 <=> s \in Aligned(c)
<1>1. ASSUME NEW s \in Nat, s % c = 0 PROVE s \in Aligned(c)
  <2>1. \E m \in Nat : s = c * m
    BY <1>1
  <2> QED
    BY <2>1 DEF Aligned
<1>2. ASSUME NEW s \in Aligned(c) PROVE s \in Nat /\ s % c = 0
  <2>1. PICK m \in Nat : s = m * c
    BY <1>2 DEF Aligned
  <2>2. (c * m) % c = 0 /\ c * m \in Nat /\ m * c = c * m
    OBVIOUS
  <2> QED
    BY <2>1, <2>2
<1> QED
  BY <1>1, <1>2

LEMMA PowerHalf ==
    ASSUME NEW c \in Nat, c >= 2, PowerOf2(c)
    PROVE  /\ c \div 2 \in Nat /\ c \div 2 >= 1 /\ c = 2 * (c \div 2)
           /\ PowerOf2(c \div 2)
<1>1. c \in 1 .. c /\ 1 \in 1 .. c /\ c * 1 = c
  OBVIOUS
<1>2. c % 2 = 0
  BY <1>1 DEF PowerOf2
<1>3. PICK h \in Nat : c = 2 * h
  BY <1>2
<1>4. c \div 2 = h /\ h >= 1
  BY <1>3
<1>5. PowerOf2(h)
  <2> SUFFICES ASSUME NEW d \in 1 .. h, NEW e \in 1 .. h, d * e = h
               PROVE  d = 1 \/ d % 2 = 0
    BY DEF PowerOf2
  <2>1. d * (2 * e) = c /\ d \in 1 .. c /\ 2 * e \in 1 .. c
    <3>1. d * (2 * e) = 2 * (d * e)
      OBVIOUS
    <3> QED
      BY <1>3, <3>1
  <2> QED
    BY <2>1 DEF PowerOf2
<1> QED
  BY <1>3, <1>4, <1>5

LEMMA PowerDouble ==
    ASSUME NEW c \in Nat, c >= 1, PowerOf2(c)
    PROVE  PowerOf2(2 * c)
<1> SUFFICES ASSUME NEW d \in 1 .. 2 * c, NEW e \in 1 .. 2 * c, d * e = 2 * c, d % 2 # 0
             PROVE  d = 1
  BY DEF PowerOf2
<1>1. PICK f \in Nat : d = 2 * f + 1
  <2>1. d = 2 * (d \div 2) \/ d = 2 * (d \div 2) + 1
    OBVIOUS
  <2>2. d \div 2 \in Nat /\ d # 2 * (d \div 2)
    OBVIOUS
  <2> QED
    BY <2>1, <2>2
<1>2. PICK g \in Nat : e = 2 * g \/ e = 2 * g + 1
  <2>1. e \div 2 \in Nat /\ (e = 2 * (e \div 2) \/ e = 2 * (e \div 2) + 1)
    OBVIOUS
  <2> QED
    BY <2>1
<1>3. PICK h \in Nat : h = f * e
  OBVIOUS
<1>4. d * e = 2 * h + e
  BY <1>1, <1>3
<1>5. e = 2 * g
  BY <1>2, <1>4
<1>6. d * g = c
  <2>1. d * (2 * g) = 2 * (d * g)
    OBVIOUS
  <2>2. d * g \in Nat
    OBVIOUS
  <2> QED
    BY <1>5, <2>1, <2>2
<1>7. g >= 1 /\ g =< c /\ d =< c
  <2>1. g # 0
    BY <1>5
  <2>2. \A a, b \in Nat : a >= 1 /\ b >= 1 => a * b >= a /\ a * b >= b
    OBVIOUS
  <2> QED
    BY <1>6, <2>1, <2>2
<1>8. d \in 1 .. c /\ g \in 1 .. c
  BY <1>7
<1>9. \A a, b \in 1 .. c : a * b = c => a = 1 \/ a % 2 = 0
  BY DEF PowerOf2
<1> QED
  BY <1>6, <1>8, <1>9

(* There is a power of two for sort to round the length up to.             *)
LEMMA PowerAbove ==
    ASSUME NEW n \in Nat, n >= 1
    PROVE  \E c \in n .. 2 * n : PowerOf2(c)
<1> DEFINE T == {i \in Nat : \E c \in i + 1 .. 2 * (i + 1) : PowerOf2(c)}
<1>1. 0 \in T
  <2>1. PowerOf2(1)
    BY DEF PowerOf2
  <2> QED
    BY <2>1
<1>2. ASSUME NEW i \in 1 .. n, i - 1 \in T PROVE i \in T
  <2>1. PICK c \in i .. 2 * i : PowerOf2(c)
    BY <1>2
  <2>2. PowerOf2(2 * c)
    BY <2>1, PowerDouble
  <2>3. c \in i + 1 .. 2 * (i + 1) \/ 2 * c \in i + 1 .. 2 * (i + 1)
    OBVIOUS
  <2> QED
    BY <2>1, <2>2, <2>3
<1> HIDE DEF T
<1>3. \A i \in 0 .. n : i \in T
  BY <1>1, <1>2, InductionUpTo
<1>4. n - 1 \in T
  BY <1>3
<1> QED
  BY <1>4 DEF T

LEMMA LeastPower ==
    ASSUME NEW n \in Nat, n >= 1
    PROVE  least_power_of_2_greater_than_or_equal_to(n) \in n .. 2 * n
<1> DEFINE S == {c \in n .. 2 * n : PowerOf2(c)}
<1>1. PICK c \in S : \A d \in S : c =< d
  <2>1. S \in SUBSET Nat /\ S # {}
    BY PowerAbove
  <2> HIDE DEF S
  <2> QED
    BY <2>1, LeastNatural
<1>2. \A d \in n .. c - 1 : ~PowerOf2(d)
  BY <1>1
<1> QED
  BY <1>1, <1>2 DEF least_power_of_2_greater_than_or_equal_to

-----------------------------------------------------------------------------
(* The pairs of a layer *)

LEMMA Sizes ==
    ASSUME TypeOK
    PROVE  /\ len \in Nat /\ len >= 2
           /\ size \in Nat /\ Half \in Nat /\ Half >= 1 /\ size = 2 * Half
           /\ size =< chunk /\ PowerOf2(Half)
           /\ Copies \in Nat /\ 2 * Copies =< len /\ len =< 2 * Copies + 1
BY PowerHalf, BatcherAssumption DEF TypeOK, Half, Copies

LEMMA PairFacts ==
    ASSUME TypeOK, NEW p \in Pairs
    PROVE  /\ p = [start |-> p.start, i |-> p.i]
           /\ p.start \in Aligned(size) /\ p.start \in Nat /\ p.i \in 0 .. Half - 1
           /\ p.start + Half + p.i < len
<1>1. PICK start \in {s \in Index : s % size = 0 /\ s + Half < len} : p \in PairsOfChunk(start)
  BY DEF Pairs
<1>2. PICK i \in 0 .. Smaller(Half, len - start - Half) - 1 : p = [start |-> start, i |-> i]
  BY <1>1 DEF PairsOfChunk
<1>3. start \in Nat /\ start % size = 0 /\ size \in Nat \ {0}
  BY Sizes DEF Index
<1>4. start \in Aligned(size)
  BY <1>3, AlignedMod
<1>5. i \in 0 .. Half - 1 /\ start + Half + i < len
  BY <1>2, <1>3, Sizes DEF Smaller
<1> QED
  BY <1>2, <1>3, <1>4, <1>5

LEMMA PairOf ==
    ASSUME TypeOK, NEW start \in Aligned(size), NEW i \in 0 .. Half - 1,
           start + Half + i < len
    PROVE  [start |-> start, i |-> i] \in Pairs
<1>1. start \in Nat /\ start % size = 0
  BY Sizes, AlignedMod
<1>2. start \in Index /\ start + Half < len
  BY <1>1, Sizes DEF Index
<1>3. i \in 0 .. Smaller(Half, len - start - Half) - 1
  BY <1>1, Sizes DEF Smaller
<1> QED
  BY <1>1, <1>2, <1>3 DEF Pairs, PairsOfChunk

(* Where the two elements of a pair are: in the two halves of its block.   *)
LEMMA Positions ==
    ASSUME TypeOK, NEW p \in Pairs
    PROVE  /\ First(p) \in Index /\ Second(p) \in Index
           /\ \E f \in 0 .. Half - 1 : First(p) = p.start + f
           /\ Second(p) = p.start + (Half + p.i)
           /\ Slot(p) \in 0 .. Copies - 1
<1>1. p.start \in Nat /\ p.i \in 0 .. Half - 1 /\ p.start + Half + p.i < len
  BY PairFacts
<1>2. PICK m \in Nat : p.start = m * size
  BY PairFacts DEF Aligned
<1>3. PICK a \in Nat : a = m * Half /\ p.start = 2 * a
  <2>1. m * (2 * Half) = 2 * (m * Half)
    BY Sizes
  <2> QED
    BY <1>2, <2>1, Sizes
<1>4. Slot(p) = a + p.i
  BY <1>1, <1>3 DEF Slot
<1>5. Slot(p) \in 0 .. Copies - 1
  BY <1>1, <1>3, <1>4, Sizes
<1>6. Second(p) = p.start + (Half + p.i) /\ Second(p) \in Index
  BY <1>1, Sizes DEF Second, Index
<1>7. \E f \in 0 .. Half - 1 : First(p) = p.start + f
  BY <1>1, Sizes DEF First
<1>8. First(p) \in Index
  BY <1>1, <1>7, Sizes DEF Index
<1> QED
  BY <1>5, <1>6, <1>7, <1>8

(* No two pairs share a slot or a position.                                *)
LEMMA PairsDistinct ==
    ASSUME TypeOK, NEW p \in Pairs, NEW q \in Pairs
    PROVE  /\ Slot(p) = Slot(q) => p = q
           /\ First(p) = First(q) => p = q
           /\ Second(p) = Second(q) => p = q
           /\ First(p) # Second(q)
<1>1. /\ p = [start |-> p.start, i |-> p.i] /\ q = [start |-> q.start, i |-> q.i]
      /\ p.start \in Aligned(size) /\ q.start \in Aligned(size)
      /\ p.start \in Nat /\ q.start \in Nat
      /\ p.i \in 0 .. Half - 1 /\ q.i \in 0 .. Half - 1
  BY PairFacts
<1>2. PICK f \in 0 .. Half - 1, g \in 0 .. Half - 1 :
        First(p) = p.start + f /\ First(q) = q.start + g
  BY Positions
<1>3. Second(p) = p.start + (Half + p.i) /\ Second(q) = q.start + (Half + q.i)
  BY Positions
<1>4. /\ f \in 0 .. size - 1 /\ g \in 0 .. size - 1
      /\ Half + p.i \in 0 .. size - 1 /\ Half + q.i \in 0 .. size - 1
      /\ size \in Nat \ {0} /\ Half \in Nat \ {0}
  BY <1>1, Sizes
<1> DEFINE Same(s, t, i, j) == s + i = t + j => s = t /\ i = j
<1>5. /\ \A s, t \in Aligned(size) : \A i, j \in 0 .. size - 1 : Same(s, t, i, j)
      /\ \A s, t \in Aligned(Half) : \A i, j \in 0 .. Half - 1 : Same(s, t, i, j)
  BY <1>4, BlockUnique
<1> HIDE DEF Same
<1>6. First(p) = First(q) => p = q
  <2> SUFFICES ASSUME First(p) = First(q) PROVE p = q
    OBVIOUS
  <2>1. p.start = q.start /\ f = g
    <3>1. Same(p.start, q.start, f, g)
      BY <1>1, <1>4, <1>5
    <3> QED
      BY <1>2, <3>1 DEF Same
  <2>2. p.i = q.i
    BY <1>1, <1>2, <2>1, Sizes DEF First
  <2> QED
    BY <1>1, <2>1, <2>2
<1>7. Second(p) = Second(q) => p = q
  <2> SUFFICES ASSUME Second(p) = Second(q) PROVE p = q
    OBVIOUS
  <2>1. p.start = q.start /\ Half + p.i = Half + q.i
    <3>1. Same(p.start, q.start, Half + p.i, Half + q.i)
      BY <1>1, <1>4, <1>5
    <3> QED
      BY <1>3, <3>1 DEF Same
  <2>2. p.i = q.i
    BY <1>1, <2>1, Sizes
  <2> QED
    BY <1>1, <2>1, <2>2
<1>8. First(p) # Second(q)
  <2> SUFFICES ASSUME First(p) = Second(q) PROVE FALSE
    OBVIOUS
  <2>1. f = Half + q.i
    <3>1. Same(p.start, q.start, f, Half + q.i)
      BY <1>1, <1>4, <1>5
    <3> QED
      BY <1>2, <1>3, <3>1 DEF Same
  <2> QED
    BY <1>1, <2>1, Sizes
<1>9. Slot(p) = Slot(q) => p = q
  <2> SUFFICES ASSUME Slot(p) = Slot(q) PROVE p = q
    OBVIOUS
  <2>1. \A s \in Aligned(size) : s \in Nat /\ s \div 2 \in Aligned(Half) /\ s = 2 * (s \div 2)
    <3> TAKE s \in Aligned(size)
    <3>1. PICK m \in Nat : s = m * size
      BY DEF Aligned
    <3>2. m * (2 * Half) = 2 * (m * Half) /\ m * Half \in Nat
      BY Sizes
    <3>3. s = 2 * (m * Half)
      BY <3>1, <3>2, Sizes
    <3> QED
      BY <3>2, <3>3 DEF Aligned
  <2>2. p.start \div 2 = q.start \div 2 /\ p.i = q.i
    <3>1. Same(p.start \div 2, q.start \div 2, p.i, q.i)
      BY <1>1, <1>5, <2>1
    <3> QED
      BY <3>1 DEF Same, Slot
  <2> QED
    BY <1>1, <2>1, <2>2
<1> QED
  BY <1>6, <1>7, <1>8, <1>9

(* The sections of the threads cover the slots.                            *)
LEMMA SectionsCover ==
    ASSUME TypeOK, \A t \in Thread : SectionLength(t) > 0, NEW s \in 0 .. Copies - 1
    PROVE  \E t \in Thread : s \in Section(t)
<1>1. NumThreads \in Nat \ {0} /\ Copies \in Nat /\ s \in Nat
  BY BatcherAssumption, Sizes
<1>2. PerThread \in Nat
  BY <1>1 DEF PerThread
<1>3. CASE NumThreads = 1
  <2>1. 0 \in Thread /\ SectionStart(0) = 0 /\ SectionLength(0) = Copies
    BY <1>1, <1>2, <1>3 DEF Thread, SectionStart, SectionLength
  <2> QED
    BY <1>1, <2>1 DEF Section
<1>4. CASE NumThreads # 1
  <2>1. 0 \in Thread /\ SectionLength(0) = PerThread /\ PerThread \in Nat \ {0}
    BY <1>1, <1>2, <1>4 DEF Thread, SectionLength
  <2>2. PICK m \in Nat : s \in Block(m * PerThread, PerThread)
    BY <1>1, <2>1, InBlock DEF Aligned
  <2>3. CASE m < NumThreads - 1
    <3>1. m \in Thread /\ Section(m) = Block(m * PerThread, PerThread)
      BY <1>1, <2>1, <2>3 DEF Thread, Section, SectionStart, SectionLength, Block
    <3> QED
      BY <2>2, <3>1
  <2>4. CASE m >= NumThreads - 1
    <3> DEFINE l == NumThreads - 1
    <3>1. l \in Thread /\ l \in Nat /\ m >= l
      BY <1>1, <2>4 DEF Thread
    <3>2. \A a, b, c \in Nat : a >= b => a * c >= b * c
      OBVIOUS
    <3>3. PICK x \in Nat : x = l * PerThread
      BY <1>2, <3>1
    <3>4. PICK y \in Nat : y = m * PerThread /\ y >= x
      BY <1>2, <3>1, <3>2, <3>3
    <3>5. SectionStart(l) = x /\ SectionLength(l) = Copies - x
      BY <3>3 DEF SectionStart, SectionLength
    <3>6. s >= x
      BY <1>1, <1>2, <2>2, <3>4 DEF Block
    <3>7. s \in x .. x + (Copies - x) - 1
      BY <1>1, <3>3, <3>6
    <3> QED
      BY <3>1, <3>5, <3>7 DEF Section
  <2> QED
    BY <1>1, <2>3, <2>4
<1> QED
  BY <1>3, <1>4

-----------------------------------------------------------------------------
(* Merging, for a set X of positions of which each pair takes what it has  *)
(* to the end, which makes it Y.                                           *)

LEMMA AlignedGap ==
    ASSUME NEW c \in Nat \ {0}, NEW s \in Aligned(c), NEW t \in Aligned(c), s < t
    PROVE  s + c =< t
<1>1. PICK m \in Nat, n \in Nat : s = m * c /\ t = n * c
  BY DEF Aligned
<1>2. ~(n =< m)
  <2> SUFFICES ASSUME n =< m PROVE FALSE
    OBVIOUS
  <2>1. n * c =< m * c
    OBVIOUS
  <2> QED
    BY <1>1, <2>1
<1>3. m * c + c =< n * c
  BY <1>2
<1> QED
  BY <1>1, <1>3

LEMMA AlignedWithin ==
    ASSUME NEW c \in Nat \ {0}, NEW d \in Aligned(c)
    PROVE  Aligned(d) \subseteq Aligned(c)
<1> SUFFICES ASSUME NEW m \in Nat PROVE m * d \in Aligned(c)
  BY DEF Aligned
<1>1. PICK n \in Nat : d = n * c
  BY DEF Aligned
<1>2. m * (n * c) = (m * n) * c /\ m * n \in Nat
  OBVIOUS
<1> QED
  BY <1>1, <1>2 DEF Aligned

LEMMA AlignedSum ==
    ASSUME NEW c \in Nat \ {0}, NEW s \in Aligned(c), NEW t \in Aligned(c)
    PROVE  s + t \in Aligned(c)
<1>1. PICK m \in Nat, n \in Nat : s = m * c /\ t = n * c
  BY DEF Aligned
<1>2. m * c + n * c = (m + n) * c /\ m + n \in Nat
  OBVIOUS
<1> QED
  BY <1>1, <1>2 DEF Aligned

LEMMA SortedCut ==
    ASSUME NEW X, NEW s \in Nat, NEW c \in Nat, Sorted(X, s, c)
    PROVE  \E b \in s .. s + c : \A k \in Block(s, c) : k \in X <=> k >= b
<1> DEFINE S == {k \in Block(s, c) : k \in X}
<1>1. CASE S = {}
  <2>1. s + c \in s .. s + c /\ \A k \in Block(s, c) : k \notin X /\ ~(k >= s + c)
    BY <1>1 DEF Block
  <2> QED
    BY <2>1
<1>2. CASE S # {}
  <2>1. S \in SUBSET Nat
    BY DEF Block
  <2>2. PICK b \in S : \A k \in S : b =< k
    <3> HIDE DEF S
    <3> QED
      BY <1>2, <2>1, LeastNatural
  <2>3. \A k \in Block(s, c) : k > b => k \in X
    BY <2>2 DEF Sorted
  <2>4. \A k \in Block(s, c) : k \in X <=> k >= b
    BY <2>2, <2>3 DEF Block
  <2> QED
    BY <2>2, <2>4 DEF Block
<1> QED
  BY <1>1, <1>2

Split(Y, s, h) ==
    /\ Bitonic(Y, s, h) /\ Bitonic(Y, s + h, h)
    /\ \A j \in Block(s, h), k \in Block(s + h, h) : j \in Y => k \in Y

(* butterfly_head: two sorted halves, compared in mirrored positions.      *)
LEMMA HeadSplits ==
    ASSUME NEW X, NEW Y, NEW s \in Nat, NEW h \in Nat \ {0},
           Sorted(X, s, h), Sorted(X, s + h, h),
           \A i \in 0 .. h - 1 :
               /\ s + h - 1 - i \in Y <=> s + h - 1 - i \in X /\ s + h + i \in X
               /\ s + h + i \in Y <=> s + h - 1 - i \in X \/ s + h + i \in X
    PROVE  Split(Y, s, h)
<1>1. PICK a \in s .. s + h : \A k \in Block(s, h) : k \in X <=> k >= a
  BY SortedCut
<1>2. PICK b \in s + h .. s + h + h : \A k \in Block(s + h, h) : k \in X <=> k >= b
  BY SortedCut
<1> DEFINE m(k) == 2 * s + 2 * h - 1 - k
<1>3. \A j \in Block(s, h) : /\ m(j) \in Block(s + h, h)
                             /\ j \in Y <=> j \in X /\ m(j) \in X
  <2> TAKE j \in Block(s, h)
  <2>1. PICK i \in 0 .. h - 1 : i = s + h - 1 - j
    BY DEF Block
  <2>2. s + h - 1 - i = j /\ s + h + i = m(j) /\ m(j) \in Block(s + h, h)
    BY <2>1 DEF Block
  <2> HIDE DEF m
  <2> QED
    BY <2>2
<1>4. \A k \in Block(s + h, h) : /\ m(k) \in Block(s, h)
                                 /\ k \in Y <=> m(k) \in X \/ k \in X
  <2> TAKE k \in Block(s + h, h)
  <2>1. PICK i \in 0 .. h - 1 : i = k - s - h
    BY DEF Block
  <2>2. s + h - 1 - i = m(k) /\ s + h + i = k /\ m(k) \in Block(s, h)
    BY <2>1 DEF Block
  <2> HIDE DEF m
  <2> QED
    BY <2>2
<1>5. PICK p \in Nat : p = 2 * s + 2 * h - b
  OBVIOUS
<1>6. PICK q \in Nat : q = 2 * s + 2 * h - a
  OBVIOUS
<1>7. \A j \in Block(s, h) : j \in Y <=> a =< j /\ j < p
  <2> TAKE j \in Block(s, h)
  <2>1. j \in Y <=> j >= a /\ m(j) >= b
    <3> HIDE DEF m
    <3> QED
      BY <1>1, <1>2, <1>3
  <2> QED
    BY <1>5, <2>1 DEF Block
<1>8. \A k \in Block(s + h, h) : k \in Y <=> ~(q =< k /\ k < b)
  <2> TAKE k \in Block(s + h, h)
  <2>1. k \in Y <=> m(k) >= a \/ k >= b
    <3> HIDE DEF m
    <3> QED
      BY <1>1, <1>2, <1>4
  <2> QED
    BY <1>6, <2>1 DEF Block
<1>9. a \in Nat /\ b \in Nat
  OBVIOUS
<1>10. Bitonic(Y, s, h) /\ Bitonic(Y, s + h, h)
  BY <1>7, <1>8, <1>9 DEF Bitonic
<1>11. ASSUME NEW j \in Block(s, h), NEW k \in Block(s + h, h), j \in Y PROVE k \in Y
  <2>1. a < p
    BY <1>7, <1>11 DEF Block
  <2> QED
    BY <1>5, <1>6, <1>8, <2>1 DEF Block
<1> QED
  BY <1>10, <1>11 DEF Split

(* butterfly_body: a bitonic block, compared in aligned positions.         *)
LEMMA BodySplits ==
    ASSUME NEW X, NEW Y, NEW s \in Nat, NEW h \in Nat \ {0},
           Bitonic(X, s, 2 * h),
           \A i \in 0 .. h - 1 :
               /\ s + i \in Y <=> s + i \in X /\ s + h + i \in X
               /\ s + h + i \in Y <=> s + i \in X \/ s + h + i \in X
    PROVE  Split(Y, s, h)
<1>1. \A j \in Block(s, h) : /\ j \in Block(s, 2 * h) /\ j + h \in Block(s, 2 * h)
                             /\ j \in Y <=> j \in X /\ j + h \in X
  <2> TAKE j \in Block(s, h)
  <2>1. PICK i \in 0 .. h - 1 : i = j - s
    BY DEF Block
  <2>2. s + i = j /\ s + h + i = j + h
    BY <2>1 DEF Block
  <2>3. j \in Block(s, 2 * h) /\ j + h \in Block(s, 2 * h)
    BY DEF Block
  <2> QED
    BY <2>2, <2>3
<1>2. \A k \in Block(s + h, h) : /\ k \in Block(s, 2 * h) /\ k - h \in Block(s, 2 * h)
                                 /\ k \in Y <=> k - h \in X \/ k \in X
  <2> TAKE k \in Block(s + h, h)
  <2>1. PICK i \in 0 .. h - 1 : i = k - h - s
    BY DEF Block
  <2>2. s + i = k - h /\ s + h + i = k
    BY <2>1 DEF Block
  <2>3. k \in Block(s, 2 * h) /\ k - h \in Block(s, 2 * h)
    BY DEF Block
  <2> QED
    BY <2>2, <2>3
<1>3. PICK p \in Nat, q \in Nat :
        \/ \A k \in Block(s, 2 * h) : k \in X <=> p =< k /\ k < q
        \/ \A k \in Block(s, 2 * h) : k \in X <=> ~(p =< k /\ k < q)
  BY DEF Bitonic
<1>4. CASE \A k \in Block(s, 2 * h) : k \in X <=> p =< k /\ k < q
  <2>1. \A j \in Block(s, h) : j \in Y <=> p =< j /\ j + h < q
    BY <1>1, <1>4 DEF Block
  <2>2. \A k \in Block(s + h, h) : k \in Y <=> (p =< k /\ k < q) \/ (p =< k - h /\ k - h < q)
    BY <1>2, <1>4 DEF Block
  <2>3. Bitonic(Y, s, h)
    <3>1. PICK r \in Nat : r = IF q < h THEN 0 ELSE q - h
      OBVIOUS
    <3>2. \A j \in Block(s, h) : j \in Y <=> p =< j /\ j < r
      BY <2>1, <3>1 DEF Block
    <3> QED
      BY <3>2 DEF Bitonic
  <2>4. Bitonic(Y, s + h, h)
    <3>1. CASE p >= s + h
      <4>1. \A k \in Block(s + h, h) : k \in Y <=> p =< k /\ k < q
        BY <2>2, <3>1 DEF Block
      <4> QED
        BY <4>1 DEF Bitonic
    <3>2. CASE q =< s + h
      <4>1. \A k \in Block(s + h, h) : k \in Y <=> p + h =< k /\ k < q + h
        BY <2>2, <3>2 DEF Block
      <4>2. p + h \in Nat /\ q + h \in Nat
        OBVIOUS
      <4> QED
        BY <4>1, <4>2 DEF Bitonic
    <3>3. CASE p < s + h /\ s + h < q
      <4>1. \A k \in Block(s + h, h) : k \in Y <=> ~(q =< k /\ k < p + h)
        BY <2>2, <3>3 DEF Block
      <4>2. p + h \in Nat
        OBVIOUS
      <4> QED
        BY <4>1, <4>2 DEF Bitonic
    <3> QED
      BY <3>1, <3>2, <3>3
  <2>5. \A j \in Block(s, h), k \in Block(s + h, h) : j \in Y => k \in Y
    BY <2>1, <2>2 DEF Block
  <2> QED
    BY <2>3, <2>4, <2>5 DEF Split
<1>5. CASE \A k \in Block(s, 2 * h) : k \in X <=> ~(p =< k /\ k < q)
  <2>1. \A j \in Block(s, h) : j \in Y <=> ~(p =< j /\ j < q) /\ ~(p =< j + h /\ j + h < q)
    BY <1>1, <1>5 DEF Block
  <2>2. \A k \in Block(s + h, h) : k \in Y <=> ~(p + h =< k /\ k < q)
    BY <1>2, <1>5 DEF Block
  <2>3. Bitonic(Y, s, h)
    <3>1. CASE q =< s + h
      <4>1. \A j \in Block(s, h) : j \in Y <=> ~(p =< j /\ j < q)
        BY <2>1, <3>1 DEF Block
      <4> QED
        BY <4>1 DEF Bitonic
    <3>2. CASE p >= s + h
      <4>1. PICK a \in Nat : a = p - h
        BY <3>2
      <4>2. PICK b \in Nat : b = IF q < h THEN 0 ELSE q - h
        OBVIOUS
      <4>3. \A j \in Block(s, h) : j \in Y <=> ~(a =< j /\ j < b)
        BY <2>1, <3>2, <4>1, <4>2 DEF Block
      <4> QED
        BY <4>3 DEF Bitonic
    <3>3. CASE p < s + h /\ s + h < q
      <4>1. PICK a \in Nat : a = q - h
        BY <3>3
      <4>2. \A j \in Block(s, h) : j \in Y <=> a =< j /\ j < p
        BY <2>1, <3>3, <4>1 DEF Block
      <4> QED
        BY <4>2 DEF Bitonic
    <3> QED
      BY <3>1, <3>2, <3>3
  <2>4. Bitonic(Y, s + h, h)
    <3>1. p + h \in Nat
      OBVIOUS
    <3> QED
      BY <2>2, <3>1 DEF Bitonic
  <2>5. \A j \in Block(s, h), k \in Block(s + h, h) : j \in Y => k \in Y
    BY <2>1, <2>2 DEF Block
  <2> QED
    BY <2>3, <2>4, <2>5 DEF Split
<1> QED
  BY <1>3, <1>4, <1>5

(* What one layer does to the dummies.                                     *)
Layer(X, Y) ==
    \A s \in Aligned(size) : \A i \in 0 .. Half - 1 :
        LET a == IF Invert THEN s + Half - 1 - i ELSE s + i
            b == s + Half + i
        IN /\ a \in Y <=> a \in X /\ b \in X
           /\ b \in Y <=> a \in X \/ b \in X

LEMMA LayerSplits ==
    ASSUME TypeOK, Merging, pc = "threads", NEW Y, Layer(Dummies, Y), NEW s \in Aligned(size)
    PROVE  Split(Y, s, Half)
<1>1. s \in Nat /\ Half \in Nat \ {0} /\ size = 2 * Half /\ size =< chunk /\ chunk \in Nat
  BY Sizes, AlignedMod DEF TypeOK
<1>2. CASE size = chunk
  <2>1. \A i \in 0 .. Half - 1 :
            /\ s + Half - 1 - i \in Y <=> s + Half - 1 - i \in Dummies /\ s + Half + i \in Dummies
            /\ s + Half + i \in Y <=> s + Half - 1 - i \in Dummies \/ s + Half + i \in Dummies
    BY <1>2 DEF Layer, Invert
  <2>2. s \in Aligned(Half) /\ s + Half \in Aligned(Half)
    <3>1. Half \in Aligned(Half) /\ size \in Aligned(Half)
      <4>1. Half = 1 * Half /\ size = 2 * Half
        BY <1>1
      <4> QED
        BY <4>1 DEF Aligned
    <3>2. s \in Aligned(Half)
      BY <1>1, <3>1, AlignedWithin
    <3> QED
      BY <1>1, <3>1, <3>2, AlignedSum
  <2>3. Sorted(Dummies, s, Half) /\ Sorted(Dummies, s + Half, Half)
    BY <1>2, <2>2 DEF Merging
  <2> QED
    BY <1>1, <2>1, <2>3, HeadSplits
<1>3. CASE size # chunk
  <2>1. \A i \in 0 .. Half - 1 :
            /\ s + i \in Y <=> s + i \in Dummies /\ s + Half + i \in Dummies
            /\ s + Half + i \in Y <=> s + i \in Dummies \/ s + Half + i \in Dummies
    BY <1>3 DEF Layer, Invert
  <2>2. size < chunk
    BY <1>1, <1>3
  <2>3. Bitonic(Dummies, s, 2 * Half)
    BY <1>1, <2>2 DEF Merging
  <2> QED
    BY <1>1, <2>1, <2>3, BodySplits
<1> QED
  BY <1>2, <1>3

(* A dummy of the new order comes from the same block as one of the old.   *)
LEMMA SameBlock ==
    ASSUME TypeOK, NEW X, NEW Y, Layer(X, Y), NEW s \in Aligned(size), NEW k \in Block(s, size)
    PROVE  /\ k \in Y => \E j \in Block(s, size) : j \in X
           /\ k \notin Y => \E j \in Block(s, size) : j \notin X
<1>1. s \in Nat /\ Half \in Nat \ {0} /\ size = 2 * Half
  BY Sizes, AlignedMod
<1>2. CASE k >= s + Half
  <2>1. PICK i \in 0 .. Half - 1 : k = s + Half + i
    <3>1. k - s - Half \in 0 .. Half - 1 /\ k = s + Half + (k - s - Half)
      BY <1>1, <1>2 DEF Block
    <3> QED
      BY <3>1
  <2>2. PICK a : a = IF Invert THEN s + Half - 1 - i ELSE s + i
    OBVIOUS
  <2>3. a \in Block(s, size)
    BY <1>1, <2>2 DEF Block
  <2>4. k \in Y <=> a \in X \/ k \in X
    BY <2>1, <2>2 DEF Layer
  <2> QED
    BY <2>3, <2>4
<1>3. CASE k < s + Half
  <2>1. PICK i \in 0 .. Half - 1 : k = IF Invert THEN s + Half - 1 - i ELSE s + i
    <3>1. /\ s + Half - 1 - k \in 0 .. Half - 1 /\ k = s + Half - 1 - (s + Half - 1 - k)
          /\ k - s \in 0 .. Half - 1 /\ k = s + (k - s)
      BY <1>1, <1>3 DEF Block
    <3> QED
      BY <3>1
  <2>2. PICK b : b = s + Half + i
    OBVIOUS
  <2>3. b \in Block(s, size)
    BY <1>1, <2>2 DEF Block
  <2>4. k \in Y <=> k \in X /\ b \in X
    BY <2>1, <2>2 DEF Layer
  <2> QED
    BY <2>3, <2>4
<1> QED
  BY <1>1, <1>2, <1>3 DEF Block

(* After a layer the halves of its blocks are bitonic, and within a chunk  *)
(* no dummy of one half is before a real element of another.               *)
LEMMA LayerMerges ==
    ASSUME TypeOK, Merging, pc = "threads", NEW Y, Layer(Dummies, Y)
    PROVE  /\ \A start \in Aligned(Half) : Bitonic(Y, start, Half)
           /\ \A whole \in Aligned(chunk), start \in Aligned(Half) :
                  \A j, k \in Block(whole, chunk) :
                      j < start /\ start =< k /\ j \in Y => k \in Y
<1>1. /\ Half \in Nat \ {0} /\ size = 2 * Half /\ size \in Nat \ {0} /\ size =< chunk
      /\ chunk \in Nat \ {0} /\ chunk \in Aligned(size)
  BY Sizes DEF TypeOK
<1>2. \A start \in Aligned(Half) :
          \E s \in Aligned(size) : start = s \/ start = s + Half
  <2> TAKE start \in Aligned(Half)
  <2>1. PICK m \in Nat : start = m * Half
    BY DEF Aligned
  <2>2. PICK g \in Nat : m = 2 * g \/ m = 2 * g + 1
    <3>1. m \div 2 \in Nat /\ (m = 2 * (m \div 2) \/ m = 2 * (m \div 2) + 1)
      OBVIOUS
    <3> QED
      BY <3>1
  <2>3. (2 * g) * Half = g * (2 * Half) /\ (2 * g + 1) * Half = g * (2 * Half) + Half
    BY <1>1
  <2>4. g * size \in Aligned(size)
    BY DEF Aligned
  <2>5. start = g * size \/ start = g * size + Half
    BY <1>1, <2>1, <2>2, <2>3
  <2> QED
    BY <2>4, <2>5
<1>3. ASSUME NEW start \in Aligned(Half) PROVE Bitonic(Y, start, Half)
  BY <1>2, LayerSplits DEF Split
<1>4. ASSUME NEW whole \in Aligned(chunk), NEW start \in Aligned(Half),
             NEW j \in Block(whole, chunk), NEW k \in Block(whole, chunk),
             j < start, start =< k, j \in Y
      PROVE  k \in Y
  <2>1. whole \in Aligned(size) /\ whole + chunk \in Aligned(size) /\ whole \in Nat
    BY <1>1, AlignedWithin, AlignedSum, AlignedMod
  <2>2. j \in Nat /\ k \in Nat /\ start \in Nat
    BY <1>1, <2>1, AlignedMod DEF Block
  <2>3. PICK s \in Aligned(size) : j \in Block(s, size)
    BY <1>1, <2>2, InBlock
  <2>4. PICK t \in Aligned(size) : k \in Block(t, size)
    BY <1>1, <2>2, InBlock
  <2>5. s \in Nat /\ t \in Nat
    BY <1>1, AlignedMod
  <2>6. CASE s = t
    <3>1. PICK r \in Aligned(size) : start = r \/ start = r + Half
      BY <1>2
    <3>2. r \in Nat /\ ~(r < s) /\ ~(s < r)
      <4>1. r \in Nat
        BY <1>1, AlignedMod
      <4>2. r < s => r + size =< s
        BY <1>1, AlignedGap
      <4>3. s < r => s + size =< r
        BY <1>1, AlignedGap
      <4> QED
        BY <1>1, <1>4, <2>2, <2>3, <2>4, <2>5, <2>6, <3>1, <4>1, <4>2, <4>3 DEF Block
    <3>3. start = s + Half
      BY <1>1, <1>4, <2>2, <2>3, <2>5, <3>1, <3>2 DEF Block
    <3>4. j \in Block(s, Half) /\ k \in Block(s + Half, Half)
      BY <1>1, <1>4, <2>2, <2>3, <2>4, <2>5, <2>6, <3>3 DEF Block
    <3> QED
      BY <1>4, <3>4, LayerSplits DEF Split
  <2>7. CASE s # t
    <3>1. s < t /\ s + size =< t
      <4>1. t < s => t + size =< s
        BY <1>1, AlignedGap
      <4>2. s < t
        BY <1>1, <1>4, <2>2, <2>3, <2>4, <2>5, <2>7, <4>1 DEF Block
      <4> QED
        BY <1>1, <4>2, AlignedGap
    <3>2. whole =< s /\ t + size =< whole + chunk
      <4>1. s < whole => s + size =< whole
        BY <1>1, <2>1, AlignedGap
      <4>2. t < whole + chunk
        BY <1>1, <2>1, <2>2, <2>4, <2>5 DEF Block
      <4>3. t + size =< whole + chunk
        BY <1>1, <2>1, <4>2, AlignedGap
      <4> QED
        BY <1>1, <2>1, <2>2, <2>3, <2>5, <4>1, <4>3 DEF Block
    <3>3. size # chunk
      BY <1>1, <2>1, <2>5, <3>1, <3>2
    <3>4. SUFFICES ASSUME k \notin Y PROVE FALSE
      OBVIOUS
    <3>5. PICK i \in Block(s, size) : i \in Dummies
      BY <1>4, <2>3, SameBlock
    <3>6. PICK l \in Block(t, size) : l \notin Dummies
      BY <2>4, <3>4, SameBlock
    <3>7. i \in Block(whole, chunk) /\ l \in Block(whole, chunk) /\ i < t /\ t =< l
      BY <1>1, <2>1, <2>5, <3>1, <3>2, <3>5, <3>6 DEF Block
    <3>8. size < chunk
      BY <1>1, <3>3
    <3> QED
      BY <3>5, <3>6, <3>7, <3>8 DEF Merging
  <2> QED
    BY <2>6, <2>7
<1> QED
  BY <1>3, <1>4

-----------------------------------------------------------------------------
(* The steps *)

(* The layout of a layer depends on the length and on the two sizes only.  *)
LEMMA LayoutStill ==
    ASSUME UNCHANGED <<len, chunk, size>>
    PROVE  /\ Index' = Index /\ Half' = Half /\ Copies' = Copies /\ Pairs' = Pairs
           /\ \A p : First(p)' = First(p) /\ Second(p)' = Second(p) /\ Slot(p)' = Slot(p)
           /\ \A t : Section(t)' = Section(t) /\ SectionLength(t)' = SectionLength(t)
<1>1. Index' = Index /\ Half' = Half /\ Copies' = Copies
  BY DEF Index, Half, Copies
<1>2. Pairs' = Pairs
  BY <1>1 DEF Pairs, PairsOfChunk, Smaller
<1>3. \A p : First(p)' = First(p) /\ Second(p)' = Second(p) /\ Slot(p)' = Slot(p)
  BY <1>1 DEF First, Second, Slot, Invert
<1>4. \A t : Section(t)' = Section(t) /\ SectionLength(t)' = SectionLength(t)
  BY <1>1 DEF Section, SectionLength, SectionStart, PerThread
<1> QED
  BY <1>1, <1>2, <1>3, <1>4

LEMMA MergingStill ==
    ASSUME Merging, pc \in {"gather", "threads"}, pc' \in {"gather", "threads", "aborted"},
           UNCHANGED <<len, arr, chunk, size>>
    PROVE  Merging'
<1>1. Dummies' = Dummies /\ Half' = Half
  BY DEF Dummies, Half
<1>2. /\ \A c : Aligned(c)' = Aligned(c)
      /\ \A X, t, c : Sorted(X, t, c)' = Sorted(X, t, c)
      /\ \A X, t, c : Bitonic(X, t, c)' = Bitonic(X, t, c)
  OBVIOUS
<1> QED
  BY <1>1, <1>2 DEF Merging

LEMMA InitBatcher == Init => BatcherInv
<1> SUFFICES ASSUME Init PROVE BatcherInv
  OBVIOUS
<1>1. /\ len \in 2 .. MaxLen /\ chunk = 2 /\ size = 2 /\ pc = "gather" /\ running = {}
  BY DEF Init
<1>2. PICK dummies \in SUBSET Index : arr = [k \in Index |-> Element(k \in dummies, k)]
  BY DEF Init
<1>3. \A k \in Index : arr[k] = [dummy |-> k \in dummies, from |-> k] /\ arr[k].from = k
  BY <1>2 DEF Element
<1>4. arr \in [Index -> [dummy : BOOLEAN, from : Index]]
  BY <1>2 DEF Element
<1>5. PowerOf2(2)
  BY DEF PowerOf2
<1>6. 2 \in Aligned(2)
  <2>1. 2 = 1 * 2 /\ 1 \in Nat
    OBVIOUS
  <2> QED
    BY <2>1 DEF Aligned
<1>7. TypeOK
  BY <1>1, <1>4, <1>5, <1>6 DEF TypeOK
<1>8. Merging
  <2>1. Half = 1
    BY <1>1 DEF Half
  <2>2. \A t \in Aligned(1) : t \in Nat
    BY AlignedMod
  <2>3. \A t \in Aligned(1) : Sorted(Dummies, t, 1)
    BY <2>2 DEF Sorted, Block
  <2> QED
    BY <1>1, <2>1, <2>3 DEF Merging
<1>9. {arr[k].from : k \in Index} = Index
  BY <1>3
<1> QED
  BY <1>1, <1>7, <1>8, <1>9 DEF BatcherInv, Computed

LEMMA GatherInv == BatcherInv /\ Gather => BatcherInv'
<1> SUFFICES ASSUME BatcherInv, Gather PROVE BatcherInv'
  OBVIOUS
<1>1. /\ pc = "gather" /\ pc' = "threads" /\ running' = Thread
      /\ UNCHANGED <<len, arr, chunk, size>>
      /\ circuit_output' = ZeroPairs
      /\ \A t \in Thread : SectionLength(t) > 0
  BY DEF Gather
<1>2. TypeOK'
  BY <1>1, LayoutStill DEF BatcherInv, TypeOK, Thread
<1>3. Merging'
  BY <1>1, MergingStill DEF BatcherInv
<1>4. {arr[k].from : k \in Index}' = Index'
  BY <1>1, LayoutStill DEF BatcherInv
<1>5. Computed'
  <2>1. ASSUME NEW p \in Pairs
        PROVE  circuit_input'[Slot(p)] = <<arr[First(p)], arr[Second(p)]>>
    <3>1. Slot(p) \in 0 .. Copies - 1
      BY Positions DEF BatcherInv
    <3>2. \A q \in Pairs : Slot(q) = Slot(p) => q = p
      BY PairsDistinct DEF BatcherInv
    <3>3. (CHOOSE q \in Pairs : Slot(q) = Slot(p)) = p
      BY <3>2
    <3>4. circuit_input'[Slot(p)] =
              LET q == CHOOSE q \in Pairs : Slot(q) = Slot(p)
              IN <<arr[First(q)], arr[Second(q)]>>
      BY <3>1 DEF Gather
    <3> QED
      BY <3>3, <3>4
  <2>2. DOMAIN circuit_output' = 0 .. Copies - 1
    BY <1>1 DEF ZeroPairs
  <2>3. Thread' = Thread
    BY DEF Thread
  <2> QED
    BY <1>1, <2>1, <2>2, <2>3, LayoutStill DEF Computed
<1> QED
  BY <1>2, <1>3, <1>4, <1>5 DEF BatcherInv

LEMMA AbortInv == BatcherInv /\ Abort => BatcherInv'
<1> SUFFICES ASSUME BatcherInv, Abort PROVE BatcherInv'
  OBVIOUS
<1>1. pc = "gather" /\ pc' = "aborted" /\ UNCHANGED <<len, arr, chunk, size, running>>
  BY DEF Abort
<1>2. TypeOK'
  BY <1>1, LayoutStill DEF BatcherInv, TypeOK, Thread
<1>3. Merging'
  BY <1>1, MergingStill DEF BatcherInv
<1>4. {arr[k].from : k \in Index}' = Index'
  BY <1>1, LayoutStill DEF BatcherInv
<1>5. Computed'
  BY <1>1 DEF Computed
<1> QED
  BY <1>2, <1>3, <1>4, <1>5 DEF BatcherInv

LEMMA ComputeInv == ASSUME BatcherInv, NEW t \in Thread, Compute(t) PROVE BatcherInv'
<1>1. /\ running' = running \ {t}
      /\ UNCHANGED <<len, arr, chunk, size, pc, circuit_input>>
      /\ circuit_output' = [s \in DOMAIN circuit_output |->
             IF s \in Section(t) THEN CompareSwap(circuit_input[s]) ELSE circuit_output[s]]
  BY DEF Compute
<1>2. TypeOK'
  BY <1>1, LayoutStill DEF BatcherInv, TypeOK, Thread
<1>3. Merging'
  <2>1. CASE pc \in {"gather", "threads"}
    BY <1>1, <2>1, MergingStill DEF BatcherInv
  <2>2. CASE pc \notin {"gather", "threads"}
    <3>1. Dummies' = Dummies
      BY <1>1 DEF Dummies
    <3>2. Sorted(Dummies, 0, chunk)' = Sorted(Dummies, 0, chunk)
      BY <1>1, <3>1 DEF Sorted, Block
    <3> QED
      BY <1>1, <2>2, <3>2 DEF BatcherInv, Merging
  <2> QED
    BY <2>1, <2>2
<1>4. {arr[k].from : k \in Index}' = Index'
  BY <1>1, LayoutStill DEF BatcherInv
<1>5. Computed'
  <2> SUFFICES ASSUME pc = "threads" PROVE Computed'
    BY <1>1 DEF Computed
  <2>1. /\ \A u \in Thread : SectionLength(u) > 0
        /\ DOMAIN circuit_output = 0 .. Copies - 1
        /\ \A p \in Pairs : circuit_input[Slot(p)] = <<arr[First(p)], arr[Second(p)]>>
        /\ \A p \in Pairs : \A u \in Thread \ running : Slot(p) \in Section(u) =>
               circuit_output[Slot(p)] = CompareSwap(circuit_input[Slot(p)])
    BY DEF BatcherInv, Computed
  <2>2. ASSUME NEW p \in Pairs, NEW u \in Thread \ running', Slot(p) \in Section(u)
        PROVE  circuit_output'[Slot(p)] = CompareSwap(circuit_input[Slot(p)])
    <3>1. Slot(p) \in DOMAIN circuit_output
      BY <2>1, Positions DEF BatcherInv
    <3>2. CASE Slot(p) \in Section(t)
      BY <1>1, <3>1, <3>2
    <3>3. CASE Slot(p) \notin Section(t)
      <4>1. u # t /\ u \in Thread \ running
        BY <1>1, <2>2, <3>3
      <4>2. circuit_output'[Slot(p)] = circuit_output[Slot(p)]
        BY <1>1, <3>1, <3>3
      <4> QED
        BY <2>1, <2>2, <4>1, <4>2
    <3> QED
      BY <3>2, <3>3
  <2>3. DOMAIN circuit_output' = 0 .. Copies - 1
    BY <1>1, <2>1
  <2>4. Thread' = Thread /\ \A pair : CompareSwap(pair)' = CompareSwap(pair)
    BY DEF Thread
  <2> QED
    BY <1>1, <2>1, <2>2, <2>3, <2>4, LayoutStill DEF Computed
<1> QED
  BY <1>2, <1>3, <1>4, <1>5 DEF BatcherInv

(* When all threads have been joined each pair is put back in order, and   *)
(* everything else is left where it is.                                    *)
LEMMA Scattered ==
    ASSUME BatcherInv, JoinAndScatter
    PROVE  /\ arr' = [k \in Index |-> arr'[k]]
           /\ \A p \in Pairs :
                  IF arr[First(p)].dummy
                  THEN arr'[First(p)] = arr[Second(p)] /\ arr'[Second(p)] = arr[First(p)]
                  ELSE arr'[First(p)] = arr[First(p)] /\ arr'[Second(p)] = arr[Second(p)]
           /\ \A k \in Index : (\A p \in Pairs : k # First(p) /\ k # Second(p)) => arr'[k] = arr[k]
<1>1. /\ pc = "threads" /\ running = {}
      /\ arr' = [k \in Index |->
          IF \E pair \in Pairs : k = First(pair)
          THEN circuit_output[Slot(CHOOSE pair \in Pairs : k = First(pair))][1]
          ELSE IF \E pair \in Pairs : k = Second(pair)
          THEN circuit_output[Slot(CHOOSE pair \in Pairs : k = Second(pair))][2]
          ELSE arr[k]]
  BY DEF JoinAndScatter
<1>2. ASSUME NEW p \in Pairs
      PROVE  /\ arr'[First(p)] = circuit_output[Slot(p)][1]
             /\ arr'[Second(p)] = circuit_output[Slot(p)][2]
  <2>1. First(p) \in Index /\ Second(p) \in Index
    BY Positions DEF BatcherInv
  <2>2. /\ \A q \in Pairs : First(p) = First(q) => q = p
        /\ \A q \in Pairs : Second(p) = Second(q) => q = p
        /\ \A q \in Pairs : Second(p) # First(q)
    BY PairsDistinct DEF BatcherInv
  <2>3. (CHOOSE q \in Pairs : First(p) = First(q)) = p
    BY <2>2
  <2>4. (CHOOSE q \in Pairs : Second(p) = Second(q)) = p
    BY <2>2
  <2>5. arr'[First(p)] = circuit_output[Slot(CHOOSE q \in Pairs : First(p) = First(q))][1]
    BY <1>1, <2>1
  <2>6. arr'[Second(p)] = circuit_output[Slot(CHOOSE q \in Pairs : Second(p) = Second(q))][2]
    BY <1>1, <2>1, <2>2
  <2> QED
    BY <2>3, <2>4, <2>5, <2>6
<1>3. ASSUME NEW p \in Pairs
      PROVE  circuit_output[Slot(p)] = CompareSwap(<<arr[First(p)], arr[Second(p)]>>)
  <2>1. Slot(p) \in 0 .. Copies - 1
    BY Positions DEF BatcherInv
  <2>2. PICK t \in Thread : Slot(p) \in Section(t)
    BY <1>1, <2>1, SectionsCover DEF BatcherInv, Computed
  <2> QED
    BY <1>1, <2>2 DEF BatcherInv, Computed
<1>4. ASSUME NEW p \in Pairs
      PROVE  IF arr[First(p)].dummy
             THEN arr'[First(p)] = arr[Second(p)] /\ arr'[Second(p)] = arr[First(p)]
             ELSE arr'[First(p)] = arr[First(p)] /\ arr'[Second(p)] = arr[Second(p)]
  <2>1. PICK x : x = arr[First(p)]
    OBVIOUS
  <2>2. PICK y : y = arr[Second(p)]
    OBVIOUS
  <2>3. circuit_output[Slot(p)] = IF x.dummy THEN <<y, x>> ELSE <<x, y>>
    BY <1>3, <2>1, <2>2 DEF CompareSwap
  <2> QED
    BY <1>2, <2>1, <2>2, <2>3
<1>5. \A k \in Index : (\A p \in Pairs : k # First(p) /\ k # Second(p)) => arr'[k] = arr[k]
  BY <1>1
<1>6. arr' = [k \in Index |-> arr'[k]]
  BY <1>1
<1> QED
  BY <1>4, <1>5, <1>6

(* The elements are the same ones.                                         *)
LEMMA ScatterPermutes ==
    ASSUME BatcherInv, JoinAndScatter
    PROVE  /\ arr' \in [Index -> [dummy : BOOLEAN, from : Index]]
           /\ {arr'[k].from : k \in Index} = Index
<1>1. \A p \in Pairs : First(p) \in Index /\ Second(p) \in Index
  BY Positions DEF BatcherInv
<1>2. ASSUME NEW k \in Index
      PROVE  (\E j \in Index : arr'[k] = arr[j]) /\ (\E j \in Index : arr[k] = arr'[j])
  <2>1. CASE \E p \in Pairs : k = First(p)
    BY <1>1, <2>1, Scattered
  <2>2. CASE \E p \in Pairs : k = Second(p)
    BY <1>1, <2>2, Scattered
  <2>3. CASE \A p \in Pairs : k # First(p) /\ k # Second(p)
    BY <2>3, Scattered
  <2> QED
    BY <2>1, <2>2, <2>3
<1>3. arr \in [Index -> [dummy : BOOLEAN, from : Index]] /\ {arr[k].from : k \in Index} = Index
  BY DEF BatcherInv, TypeOK
<1>4. arr' \in [Index -> [dummy : BOOLEAN, from : Index]]
  <2>1. \A k \in Index : arr'[k] \in [dummy : BOOLEAN, from : Index]
    BY <1>2, <1>3
  <2>2. arr' = [k \in Index |-> arr'[k]]
    BY Scattered
  <2> QED
    BY <2>1, <2>2
<1>5. {arr'[k].from : k \in Index} = {arr[k].from : k \in Index}
  BY <1>2
<1> QED
  BY <1>3, <1>4, <1>5

(* Every pair of the full network, the ones past the end of the array too, *)
(* ends with what dummies it has at the end.                               *)
LEMMA ScatterLayer ==
    ASSUME BatcherInv, JoinAndScatter
    PROVE  Layer(Dummies, Dummies')
<1> SUFFICES ASSUME NEW s \in Aligned(size), NEW i \in 0 .. Half - 1,
                    NEW a, a = IF Invert THEN s + Half - 1 - i ELSE s + i,
                    NEW b, b = s + Half + i
             PROVE  /\ a \in Dummies' <=> a \in Dummies /\ b \in Dummies
                    /\ b \in Dummies' <=> a \in Dummies \/ b \in Dummies
  BY DEF Layer
<1>1. /\ TypeOK /\ s \in Nat /\ Half \in Nat \ {0} /\ size = 2 * Half /\ size \in Nat \ {0}
      /\ len \in Nat
  BY Sizes, AlignedMod DEF BatcherInv
<1>2. a \in Nat /\ b \in Nat /\ a < b
  BY <1>1
<1>3. len' = len
  BY DEF JoinAndScatter
<1>4. \A k \in Nat : /\ k \in Dummies <=> k >= len \/ arr[k].dummy
                     /\ k \in Dummies' <=> k >= len \/ arr'[k].dummy
  BY <1>3 DEF Dummies
<1>5. CASE b < len
  <2>1. PICK p : p = [start |-> s, i |-> i]
    OBVIOUS
  <2>2. p \in Pairs
    BY <1>1, <1>5, <2>1, PairOf
  <2>3. First(p) = a /\ Second(p) = b
    BY <2>1 DEF First, Second
  <2>4. a < len /\ arr[a].dummy \in BOOLEAN /\ arr[b].dummy \in BOOLEAN
    <3>1. a < len
      BY <1>1, <1>2, <1>5
    <3>2. a \in Index /\ b \in Index
      BY <1>1, <1>2, <1>5, <3>1 DEF Index
    <3> QED
      BY <1>1, <3>1, <3>2 DEF TypeOK
  <2>5. IF arr[a].dummy THEN arr'[a] = arr[b] /\ arr'[b] = arr[a]
                        ELSE arr'[a] = arr[a] /\ arr'[b] = arr[b]
    BY <2>2, <2>3, Scattered
  <2> QED
    BY <1>1, <1>2, <1>4, <1>5, <2>4, <2>5
<1>6. CASE b >= len
  <2>1. b \in Dummies /\ b \in Dummies'
    BY <1>2, <1>4, <1>6
  <2>2. ASSUME a < len PROVE arr'[a] = arr[a]
    <3>1. a \in Index
      BY <1>1, <1>2, <2>2 DEF Index
    <3>2. PICK e \in 0 .. Half - 1 : a = s + e
      <4>1. a - s \in 0 .. Half - 1 /\ a = s + (a - s)
        BY <1>1
      <4> QED
        BY <4>1
    <3> DEFINE Same(t, u, j, k) == t + j = u + k => t = u /\ j = k
    <3>3. \A t, u \in Aligned(size) : \A j, k \in 0 .. size - 1 : Same(t, u, j, k)
      BY <1>1, BlockUnique
    <3> HIDE DEF Same
    <3>4. ASSUME NEW q \in Pairs PROVE a # First(q) /\ a # Second(q)
      <4>1. /\ q.start \in Aligned(size) /\ q.start \in Nat /\ q.i \in 0 .. Half - 1
            /\ q.start + Half + q.i < len
        BY <1>1, PairFacts
      <4>2. PICK f \in 0 .. Half - 1 : First(q) = q.start + f
        BY <1>1, Positions
      <4>3. Second(q) = q.start + (Half + q.i)
        BY <1>1, Positions
      <4>4. /\ e \in 0 .. size - 1 /\ f \in 0 .. size - 1 /\ Half + q.i \in 0 .. size - 1
        BY <1>1, <4>1
      <4>5. a # Second(q)
        <5>1. Same(s, q.start, e, Half + q.i)
          BY <3>3, <4>1, <4>4
        <5>2. e # Half + q.i
          BY <1>1, <4>1
        <5> QED
          BY <3>2, <4>3, <5>1, <5>2 DEF Same
      <4>6. a # First(q)
        <5> SUFFICES ASSUME a = First(q) PROVE FALSE
          OBVIOUS
        <5>1. Same(s, q.start, e, f)
          BY <3>3, <4>1, <4>4
        <5>2. s = q.start
          BY <3>2, <4>2, <5>1 DEF Same
        <5>3. q.i = i
          BY <1>1, <4>1, <5>2 DEF First
        <5> QED
          BY <1>1, <1>6, <4>1, <5>2, <5>3
      <4> QED
        BY <4>5, <4>6
    <3> QED
      BY <3>1, <3>4, Scattered
  <2>3. a \in Dummies' <=> a \in Dummies
    BY <1>1, <1>2, <1>4, <2>2
  <2> QED
    BY <2>1, <2>3
<1> QED
  BY <1>1, <1>2, <1>5, <1>6

LEMMA ScatterInv == BatcherInv /\ JoinAndScatter => BatcherInv'
<1> SUFFICES ASSUME BatcherInv, JoinAndScatter PROVE BatcherInv'
  OBVIOUS
<1>1. /\ TypeOK /\ Merging /\ pc = "threads"
      /\ UNCHANGED <<len, running>> /\ Index' = Index /\ Thread' = Thread
  BY DEF BatcherInv, JoinAndScatter, Index, Thread
<1>2. /\ len \in Nat /\ len >= 2 /\ Half \in Nat \ {0} /\ size = 2 * Half
      /\ size \in Nat \ {0} /\ size =< chunk /\ chunk \in Nat \ {0} /\ chunk \in Aligned(size)
      /\ PowerOf2(Half) /\ PowerOf2(chunk)
  BY <1>1, Sizes DEF TypeOK
<1> DEFINE Y == Dummies'
<1>3. /\ \A start \in Aligned(Half) : Bitonic(Y, start, Half)
      /\ \A whole \in Aligned(chunk), start \in Aligned(Half) :
             \A j, k \in Block(whole, chunk) :
                 j < start /\ start =< k /\ j \in Y => k \in Y
  <2>1. Layer(Dummies, Y)
    BY ScatterLayer
  <2> HIDE DEF Y
  <2> QED
    BY <1>1, <2>1, LayerMerges
<1>4. ASSUME Half = 1, NEW whole \in Aligned(chunk) PROVE Sorted(Y, whole, chunk)
  <2> SUFFICES ASSUME NEW j \in Block(whole, chunk), NEW k \in Block(whole, chunk),
                      j < k, j \in Y
               PROVE  k \in Y
    BY DEF Sorted
  <2>1. k \in Nat /\ k =< k
    <3>1. whole \in Nat
      BY <1>2, AlignedMod
    <3> QED
      BY <1>2, <3>1 DEF Block
  <2>2. k \in Aligned(1)
    <3>1. k = k * 1
      BY <2>1
    <3> QED
      BY <2>1, <3>1 DEF Aligned
  <2> HIDE DEF Y
  <2> QED
    BY <1>3, <1>4, <2>1, <2>2
<1>5. /\ arr' \in [Index -> [dummy : BOOLEAN, from : Index]]
      /\ {arr'[k].from : k \in Index} = Index
  BY ScatterPermutes
<1>6. CASE size > 2 /\ size' = Half /\ pc' = "gather" /\ chunk' = chunk
  <2>1. Half >= 2 /\ Half < chunk /\ chunk \in Aligned(Half)
    <3>1. size \in Aligned(Half)
      <4>1. size = 2 * Half /\ 2 \in Nat
        BY <1>2
      <4> QED
        BY <4>1 DEF Aligned
    <3>2. chunk \in Aligned(Half)
      BY <1>2, <3>1, AlignedWithin
    <3> QED
      BY <1>2, <1>6, <3>2
  <2>2. TypeOK'
    BY <1>1, <1>2, <1>5, <1>6, <2>1 DEF TypeOK
  <2>3. Merging'
    BY <1>2, <1>3, <1>6, <2>1 DEF Merging
  <2> QED
    BY <1>1, <1>5, <1>6, <2>2, <2>3 DEF BatcherInv, Computed
<1>7. CASE size = 2 /\ chunk' = 2 * chunk /\ size' = 2 * chunk /\ pc' = "gather"
  <2>1. Half' = chunk /\ Half = 1
    BY <1>2, <1>7 DEF Half
  <2>2. TypeOK'
    <3>1. PowerOf2(2 * chunk)
      BY <1>2, PowerDouble
    <3>2. 2 * chunk \in Aligned(2 * chunk)
      <4>1. 2 * chunk = 1 * (2 * chunk) /\ 1 \in Nat
        BY <1>2
      <4> QED
        BY <4>1 DEF Aligned
    <3>3. 2 * chunk \in Nat /\ 2 * chunk \in 2 .. 2 * chunk
      BY <1>2
    <3> QED
      BY <1>1, <1>5, <1>7, <3>1, <3>2, <3>3 DEF TypeOK
  <2>3. Merging'
    BY <1>4, <1>7, <2>1 DEF Merging
  <2> QED
    BY <1>1, <1>5, <1>7, <2>2, <2>3 DEF BatcherInv, Computed
<1>8. CASE size = 2 /\ chunk = least_power_of_2_greater_than_or_equal_to(len) /\ pc' = "done"
           /\ UNCHANGED <<chunk, size>>
  <2>1. Half = 1
    BY <1>2, <1>8
  <2>2. len =< chunk
    BY <1>2, <1>8, LeastPower
  <2>3. 0 \in Aligned(chunk)
    <3>1. 0 = 0 * chunk
      BY <1>2
    <3> QED
      BY <3>1 DEF Aligned
  <2>4. Sorted(Y, 0, chunk)
    BY <1>4, <2>1, <2>3
  <2>5. TypeOK'
    BY <1>1, <1>5, <1>8 DEF TypeOK
  <2>6. Merging'
    BY <1>1, <1>8, <2>2, <2>4 DEF Merging
  <2> QED
    BY <1>1, <1>5, <1>8, <2>5, <2>6 DEF BatcherInv, Computed
<1> QED
  <2>1. NextLayer
    BY DEF JoinAndScatter
  <2>2. size \div 2 = Half
    BY DEF Half
  <2> QED
    BY <1>6, <1>7, <1>8, <2>1, <2>2 DEF NextLayer

-----------------------------------------------------------------------------
(* batcher::sort at every point: before a merge the halves of a chunk are  *)
(* sorted, between two layers of it each block is bitonic and the blocks   *)
(* are in order, and the slots of the threads that ended are computed.     *)
THEOREM BatcherInductive == Spec => []BatcherInv
<1>1. Init => BatcherInv
  BY InitBatcher
<1>2. BatcherInv /\ [Next]_vars => BatcherInv'
  <2> SUFFICES ASSUME BatcherInv, [Next]_vars PROVE BatcherInv'
    OBVIOUS
  <2>1. CASE UNCHANGED vars
    <3>1. UNCHANGED <<len, arr, chunk, size, pc, circuit_input, circuit_output, running>>
      BY <2>1 DEF vars
    <3>2. TypeOK' /\ Computed'
      BY <3>1, LayoutStill DEF BatcherInv, TypeOK, Computed, Thread, CompareSwap
    <3>3. Dummies' = Dummies /\ Half' = Half
      BY <3>1 DEF Dummies, Half
    <3>4. Merging'
      BY <3>1, <3>3 DEF BatcherInv, Merging
    <3> QED
      BY <3>1, <3>2, <3>4, LayoutStill DEF BatcherInv
  <2> QED
    BY <2>1, GatherInv, AbortInv, ScatterInv, ComputeInv DEF Next
<1> QED
  BY <1>1, <1>2, PTL DEF Spec

(* swap_pairs and compute_multithreaded lose no element, double none and   *)
(* never put a slot that no thread has computed into the array, for every  *)
(* length, number of threads and order in which the threads end.           *)
THEOREM PermutationHolds == Spec => []Permutation
<1>1. BatcherInv => Permutation
  BY PairsDistinct, Positions DEF BatcherInv, Permutation
<1> QED
  BY <1>1, BatcherInductive, PTL

LEMMA InvChunksSorted == BatcherInv => ChunksSorted
<1> SUFFICES ASSUME BatcherInv PROVE ChunksSorted
  OBVIOUS
<1>1. TypeOK /\ Merging /\ len \in Nat /\ Half \in Nat \ {0}
  BY Sizes DEF BatcherInv
<1>2. ASSUME NEW start \in Nat, NEW c \in Nat, NEW hi \in Int, hi =< len - 1, hi =< start + c - 1,
             Sorted(Dummies, start, c)
      PROVE  SortedBetween(start, hi)
  <2> SUFFICES ASSUME NEW j \in start .. hi, NEW k \in start .. hi, j < k, arr[j].dummy
               PROVE  arr[k].dummy
    BY DEF SortedBetween
  <2>1. j \in Block(start, c) /\ k \in Block(start, c) /\ j \in Nat /\ k \in Nat /\ ~(k >= len)
    BY <1>1, <1>2 DEF Block
  <2>2. j \in Dummies
    BY <2>1 DEF Dummies
  <2>3. k \in Dummies
    BY <1>2, <2>1, <2>2 DEF Sorted
  <2> QED
    BY <2>1, <2>3 DEF Dummies
<1>3. ASSUME pc = "gather", size = chunk,
             NEW start \in {s \in Index : s % (chunk \div 2) = 0}
      PROVE  SortedBetween(start, Smaller(start + chunk \div 2, len) - 1)
  <2>1. chunk \div 2 = Half /\ start \in Nat
    BY <1>3 DEF Half, Index
  <2>2. start \in Aligned(Half)
    BY <1>1, <1>3, <2>1, AlignedMod
  <2>3. Sorted(Dummies, start, Half)
    BY <1>1, <1>3, <2>2 DEF Merging
  <2>4. PICK hi \in Int : hi = Smaller(start + Half, len) - 1
    BY <1>1, <2>1 DEF Smaller
  <2>5. hi =< len - 1 /\ hi =< start + Half - 1
    BY <1>1, <2>1, <2>4 DEF Smaller
  <2> QED
    BY <1>1, <1>2, <2>1, <2>3, <2>4, <2>5
<1>4. ASSUME pc = "done" PROVE SortedBetween(0, len - 1)
  <2>1. len =< chunk /\ Sorted(Dummies, 0, chunk) /\ chunk \in Nat
    BY <1>1, <1>4 DEF Merging, TypeOK
  <2> QED
    BY <1>1, <1>2, <2>1
<1> QED
  BY <1>3, <1>4 DEF ChunksSorted

(* The bitonic network sorts: every chunk before it is merged into the     *)
(* next, and the whole array at the end, also when its length is no power  *)
(* of two and the last chunk is cut short.                                 *)
THEOREM ChunksSortedHolds == Spec => []ChunksSorted
<1>1. BatcherInv => ChunksSorted
  BY InvChunksSorted
<1> QED
  BY <1>1, BatcherInductive, PTL
=============================================================================
