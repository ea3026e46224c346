------------------------------ MODULE Counting ------------------------------
(***************************************************************************)
(* Induction over sets of numbers, for the proofs about loops: the least   *)
(* element of a set, induction up to a bound, a function defined by        *)
(* recursion up to a bound, subsets of a given size, parities, and the     *)
(* algebra of words as polynomials.                                        *)
(***************************************************************************)
EXTENDS Gf2, FiniteSetTheorems, TLAPS

(* A set of natural numbers that is not empty has a least element.         *)
LEMMA LeastNatural ==
    ASSUME NEW S \in SUBSET Nat, S # {}
    PROVE  \E n \in S : \A m \in S : n =< m
<1>1. \E n \in S : \A m \in S : ~(<<m, n>> \in OpToRel(<, Nat))
  BY WFMin, NatLessThanWellFounded
<1>2. PICK n \in S : \A m \in S : ~(<<m, n>> \in OpToRel(<, Nat))
  BY <1>1
<1>3. \A m \in S : ~(m < n)
  BY <1>2 DEF OpToRel
<1> QED
  BY <1>3

(* Induction up to n: a set that has 0, and i when it has i - 1, has all.  *)
LEMMA InductionUpTo ==
    ASSUME NEW n \in Nat, NEW T, 0 \in T,
           \A i \in 1 .. n : i - 1 \in T => i \in T
    PROVE  \A i \in 0 .. n : i \in T
<1> SUFFICES ASSUME (0 .. n) \ T # {} PROVE FALSE
  OBVIOUS
<1>1. PICK i \in (0 .. n) \ T : \A m \in (0 .. n) \ T : i =< m
  <2>1. (0 .. n) \ T \in SUBSET Nat
    OBVIOUS
  <2> QED
    BY <2>1, LeastNatural
<1>2. i \in 1 .. n
  OBVIOUS
<1>3. i - 1 \in 0 .. n /\ ~(i =< i - 1)
  BY <1>2
<1> QED
  BY <1>1, <1>2, <1>3

(* A loop that turns its last value into the next one up to n times has a  *)
(* sequence of values: a function defined by recursion on 0 .. n exists.   *)
LEMMA RecursionUpTo ==
    ASSUME NEW n \in Nat, NEW a, NEW h
    PROVE  \E s : s = [i \in 0 .. n |-> IF i = 0 THEN a ELSE h[i][s[i - 1]]]
<1> DEFINE IsUpto(k, s) == s = [i \in 0 .. k |-> IF i = 0 THEN a ELSE h[i][s[i - 1]]]
           T == {k \in 0 .. n : \E s : IsUpto(k, s)}
<1>1. 0 \in T
  <2> DEFINE t == [i \in 0 .. 0 |-> a]
  <2>1. IsUpto(0, t)
    OBVIOUS
  <2> HIDE DEF t, IsUpto
  <2> QED
    BY <2>1
<1>2. ASSUME NEW k \in 1 .. n, k - 1 \in T PROVE k \in T
  <2>1. PICK s : IsUpto(k - 1, s)
    BY <1>2
  <2> DEFINE t == [i \in 0 .. k |-> IF i = k THEN h[k][s[k - 1]] ELSE s[i]]
  <2>2. ASSUME NEW i \in 0 .. k PROVE t[i] = IF i = 0 THEN a ELSE h[i][t[i - 1]]
    <3>1. CASE i = 0
      BY <2>1, <3>1
    <3>2. CASE i # 0
      <4>1. i - 1 \in 0 .. k - 1 /\ t[i - 1] = s[i - 1]
        BY <3>2
      <4>2. CASE i = k
        <5>1. t[k] = h[k][s[k - 1]]
          OBVIOUS
        <5> HIDE DEF t
        <5> QED
          BY <3>2, <4>1, <4>2, <5>1
      <4>3. CASE i # k
        <5>1. i \in 0 .. k - 1 /\ t[i] = s[i]
          BY <4>3
        <5>2. s[i] = h[i][s[i - 1]]
          BY <2>1, <3>2, <5>1
        <5> HIDE DEF t
        <5> QED
          BY <3>2, <4>1, <5>1, <5>2
      <4> QED
        BY <4>2, <4>3
    <3> QED
      BY <3>1, <3>2
  <2>3. t = [i \in 0 .. k |-> t[i]]
    OBVIOUS
  <2> HIDE DEF t
  <2>4. IsUpto(k, t)
    BY <2>2, <2>3
  <2> HIDE DEF IsUpto
  <2> QED
    BY <2>4
<1> HIDE DEF T
<1>3. \A i \in 0 .. n : i \in T
  BY <1>1, <1>2, InductionUpTo
<1>4. n \in T
  BY <1>3
<1> QED
  BY <1>4 DEF T

(* The same with values in a set that the loop does not leave.             *)
Stays(A, h, n) == \A i \in 1 .. n : \A x \in A : h[i][x] \in A
Iterates(A, a, h, n, s) ==
    /\ \A i \in 0 .. n : s[i] \in A
    /\ s[0] = a /\ \A i \in 1 .. n : s[i] = h[i][s[i - 1]]

LEMMA IterationUpTo ==
    ASSUME NEW n \in Nat, NEW A, NEW a \in A, NEW h, Stays(A, h, n)
    PROVE  \E s : Iterates(A, a, h, n, s)
<1> DEFINE IsRec(b, g, s) == s = [i \in 0 .. n |-> IF i = 0 THEN b ELSE g[i][s[i - 1]]]
<1>1. \A b, g : \E s : IsRec(b, g, s)
  BY RecursionUpTo
<1> HIDE DEF IsRec
<1>2. PICK s : IsRec(a, h, s)
  BY <1>1
<1> USE DEF IsRec
<1>3. \A i \in 0 .. n : s[i] = IF i = 0 THEN a ELSE h[i][s[i - 1]]
  BY <1>2
<1> HIDE DEF IsRec
<1>4. s[0] = a /\ \A i \in 1 .. n : s[i] = h[i][s[i - 1]]
  BY <1>3
<1> DEFINE T == {i \in 0 .. n : s[i] \in A}
<1>5. 0 \in T
  BY <1>4
<1>6. ASSUME NEW i \in 1 .. n, i - 1 \in T PROVE i \in T
  BY <1>4, <1>6 DEF Stays
<1> HIDE DEF T
<1>7. \A i \in 0 .. n : i \in T
  BY <1>5, <1>6, InductionUpTo
<1> QED
  BY <1>4, <1>7 DEF T, Iterates

(* A finite set has subsets of every size up to its own.                   *)
LEMMA SubsetOfSize ==
    ASSUME NEW E, IsFiniteSet(E), NEW k \in Nat, k =< Cardinality(E)
    PROVE  \E S \in SUBSET E : Cardinality(S) = k
<1> DEFINE c == Cardinality(E)
<1>1. c \in Nat /\ ExistsBijection(1 .. c, E)
  BY FS_CardinalityType
<1> HIDE DEF c
<1>2. PICK f \in Bijection(1 .. c, E) : TRUE
  BY <1>1 DEF ExistsBijection
<1> DEFINE S == {f[i] : i \in 1 .. k}
           g == [i \in 1 .. k |-> f[i]]
<1>3. k =< c
  BY DEF c
<1>4. S \in SUBSET E /\ g \in Bijection(1 .. k, S)
  BY <1>1, <1>2, <1>3 DEF Bijection, Injection, IsInjective, Surjection
<1>5. IsFiniteSet(1 .. k) /\ Cardinality(1 .. k) = k
  BY FS_Interval
<1>6. Cardinality(S) = k
  <2> HIDE DEF S, g
  <2> QED
    BY <1>4, <1>5, FS_Bijection DEF ExistsBijection
<1> QED
  BY <1>4, <1>6

-----------------------------------------------------------------------------
(* Parities *)

(* What an odd number of the records of a set have in their field y, when  *)
(* the set is empty or has one record: nothing, and that record's y.       *)
LEMMA OddOfNone ==
    ASSUME NEW B
    PROVE  {b \in B : Cardinality({f \in {} : b \in f.y}) % 2 = 1} = {} /\ Cardinality({}) % 2 # 1
<1>1. Cardinality({}) = 0
  BY FS_EmptySet
<1>2. \A b : {f \in {} : b \in f.y} = {}
  OBVIOUS
<1> QED
  BY <1>1, <1>2

LEMMA OddOfOne ==
    ASSUME NEW B, NEW e, e.y \in SUBSET B
    PROVE  {b \in B : Cardinality({f \in {e} : b \in f.y}) % 2 = 1} = e.y /\ Cardinality({e}) % 2 = 1
<1>1. Cardinality({e}) = 1 /\ Cardinality({}) = 0
  BY FS_Singleton, FS_EmptySet
<1>2. ASSUME NEW b \in B
      PROVE  Cardinality({f \in {e} : b \in f.y}) % 2 = 1 <=> b \in e.y
  <2>1. CASE b \in e.y
    <3>1. Cardinality({f \in {e} : b \in f.y}) = 1
      <4>1. {f \in {e} : b \in f.y} = {e}
        BY <2>1
      <4> QED
        BY <1>1, <4>1
    <3> QED
      BY <2>1, <3>1
  <2>2. CASE b \notin e.y
    <3>1. Cardinality({f \in {e} : b \in f.y}) = 0
      <4>1. {f \in {e} : b \in f.y} = {}
        BY <2>2
      <4> QED
        BY <1>1, <4>1
    <3> QED
      BY <2>2, <3>1
  <2> QED
    BY <2>1, <2>2
<1> QED
  BY <1>1, <1>2

-----------------------------------------------------------------------------
(* Addition of words is that of a group of exponent two.                   *)
LEMMA XorLaws ==
    /\ \A x, y : x (+) y = y (+) x
    /\ \A x, y, z : (x (+) y) (+) z = x (+) (y (+) z)
    /\ \A x : x (+) Zero = x /\ Zero (+) x = x /\ x (+) x = Zero
    /\ \A x, y : x (+) (x (+) y) = y
<1>1. \A x, y : x (+) y = y (+) x
  BY DEF (+)
<1>2. ASSUME NEW x, NEW y, NEW z PROVE (x (+) y) (+) z = x (+) (y (+) z)
  <2>1. \A e : e \in (x (+) y) (+) z <=> e \in x (+) (y (+) z)
    BY DEF (+)
  <2> QED
    BY <2>1
<1>3. \A x : x (+) Zero = x /\ Zero (+) x = x /\ x (+) x = Zero
  BY DEF (+), Zero
<1> QED
  BY <1>1, <1>2, <1>3

(* A sum is finite, and odd when one of its terms is.                      *)
LEMMA XorFinite ==
    ASSUME NEW x, NEW y, IsFiniteSet(x), IsFiniteSet(y)
    PROVE  /\ IsFiniteSet(x (+) y)
           /\ Cardinality(x) \in Nat /\ Cardinality(y) \in Nat /\ Cardinality(x (+) y) \in Nat
           /\ Cardinality(x (+) y) % 2 = (Cardinality(x) + Cardinality(y)) % 2
<1>1. /\ IsFiniteSet(x \ y) /\ IsFiniteSet(y \ x)
      /\ Cardinality(x \ y) = Cardinality(x) - Cardinality(x \cap y)
      /\ Cardinality(y \ x) = Cardinality(y) - Cardinality(y \cap x)
  BY FS_Difference
<1>2. x \cap y = y \cap x /\ IsFiniteSet(x \cap y)
  BY FS_Intersection
<1>3. (x \ y) \cap (y \ x) = {}
  OBVIOUS
<1>4. /\ IsFiniteSet(x (+) y)
      /\ Cardinality(x (+) y) = Cardinality(x \ y) + Cardinality(y \ x)
  <2>1. IsFiniteSet((x \ y) \cup (y \ x))
        /\ Cardinality((x \ y) \cup (y \ x)) =
              Cardinality(x \ y) + Cardinality(y \ x) - Cardinality((x \ y) \cap (y \ x))
    BY <1>1, FS_Union
  <2>2. Cardinality((x \ y) \cap (y \ x)) = 0
    BY <1>3, FS_EmptySet
  <2>3. Cardinality(x \ y) \in Nat /\ Cardinality(y \ x) \in Nat
    BY <1>1, FS_CardinalityType
  <2> QED
    BY <2>1, <2>2, <2>3 DEF (+)
<1>5. Cardinality(x) \in Nat /\ Cardinality(y) \in Nat /\ Cardinality(x \cap y) \in Nat
      /\ Cardinality(x (+) y) \in Nat
  BY <1>2, <1>4, FS_CardinalityType
<1> DEFINE a == Cardinality(x)
           b == Cardinality(y)
           c == Cardinality(x \cap y)
<1>6. Cardinality(x (+) y) = a + b - 2 * c
  <2>1. Cardinality(x \ y) = a - c /\ Cardinality(y \ x) = b - c
    BY <1>1, <1>2
  <2>2. a \in Nat /\ b \in Nat /\ c \in Nat
    BY <1>5
  <2> HIDE DEF a, b, c
  <2> QED
    BY <1>4, <2>1, <2>2
<1>7. a \in Nat /\ b \in Nat /\ c \in Nat
  BY <1>5
<1> HIDE DEF a, b, c
<1>8. (a + b - 2 * c) % 2 = (a + b) % 2
  BY <1>7
<1> QED
  BY <1>4, <1>5, <1>6, <1>8 DEF a, b

(* The pairs of monomials whose product is m.                              *)
Factors(x, y, m) == {q \in x \X y : q[1] \cup q[2] = m}

(* A product holds the monomials with an odd number of factors.            *)
LEMMA ProductIs ==
    ASSUME NEW x, NEW y, IsFiniteSet(x), IsFiniteSet(y)
    PROVE  /\ \A m : IsFiniteSet(Factors(x, y, m))
           /\ \A m : m \in x (.) y <=> Cardinality(Factors(x, y, m)) % 2 = 1
           /\ IsFiniteSet(x (.) y)
<1>1. IsFiniteSet(x \X y)
  BY FS_Product
<1>2. \A m : IsFiniteSet(Factors(x, y, m))
  <2>1. \A m : Factors(x, y, m) \in SUBSET (x \X y)
    BY DEF Factors
  <2> QED
    BY <1>1, <2>1, FS_Subset
<1>3. ASSUME NEW m PROVE m \in x (.) y <=> Cardinality(Factors(x, y, m)) % 2 = 1
  <2>1. m \in x (.) y <=> /\ m \in {m1 \cup m2 : m1 \in x, m2 \in y}
                          /\ Cardinality(Factors(x, y, m)) % 2 = 1
    BY DEF (.), Factors
  <2>2. ASSUME Cardinality(Factors(x, y, m)) % 2 = 1
        PROVE  m \in {m1 \cup m2 : m1 \in x, m2 \in y}
    <3>1. Factors(x, y, m) # {}
      <4> SUFFICES ASSUME Factors(x, y, m) = {} PROVE FALSE
        OBVIOUS
      <4>1. Cardinality(Factors(x, y, m)) = 0
        BY FS_EmptySet
      <4> QED
        BY <2>2, <4>1
    <3>2. PICK q \in x \X y : q[1] \cup q[2] = m
      BY <3>1 DEF Factors
    <3> QED
      BY <3>2
  <2> QED
    BY <2>1, <2>2
<1>4. IsFiniteSet(x (.) y)
  <2> DEFINE f == [q \in x \X y |-> q[1] \cup q[2]]
             T == {m1 \cup m2 : m1 \in x, m2 \in y}
  <2>1. f \in [x \X y -> T]
    OBVIOUS
  <2>2. ASSUME NEW t \in T PROVE \E q \in x \X y : f[q] = t
    <3>1. PICK m1 \in x, m2 \in y : t = m1 \cup m2
      OBVIOUS
    <3>2. <<m1, m2>> \in x \X y /\ f[<<m1, m2>>] = m1 \cup m2
      OBVIOUS
    <3> QED
      BY <3>1, <3>2
  <2> HIDE DEF f, T
  <2>3. f \in Surjection(x \X y, T)
    BY <2>1, <2>2 DEF Surjection
  <2>4. IsFiniteSet(T)
    BY <1>1, <2>3, FS_Surjection
  <2>5. x (.) y \in SUBSET T
    BY DEF (.), T
  <2> QED
    BY <2>4, <2>5, FS_Subset
<1> QED
  BY <1>2, <1>3, <1>4

(* The product does not depend on the order of its factors.                *)
LEMMA ProductCommutes ==
    ASSUME NEW x, NEW y, IsFiniteSet(x), IsFiniteSet(y)
    PROVE  x (.) y = y (.) x
<1>1. ASSUME NEW m PROVE Cardinality(Factors(x, y, m)) = Cardinality(Factors(y, x, m))
  <2> DEFINE A == Factors(x, y, m)
             B == Factors(y, x, m)
             f == [q \in A |-> <<q[2], q[1]>>]
  <2>1. f \in [A -> B]
    BY DEF Factors
  <2>2. \A q, r \in A : f[q] = f[r] => q = r
    BY DEF Factors
  <2>3. \A t \in B : \E q \in A : f[q] = t
    <3> SUFFICES ASSUME NEW t \in B PROVE \E q \in A : f[q] = t
      OBVIOUS
    <3>1. <<t[2], t[1]>> \in A /\ t = <<t[1], t[2]>>
      BY DEF Factors
    <3>2. f[<<t[2], t[1]>>] = t
      BY <3>1
    <3> QED
      BY <3>1, <3>2
  <2> HIDE DEF f, A, B
  <2>4. f \in Bijection(A, B)
    BY <2>1, <2>2, <2>3 DEF Bijection, Injection, Surjection, IsInjective
  <2> QED
    BY <2>4, ProductIs, FS_Bijection DEF ExistsBijection, A, B
<1> QED
  BY <1>1, ProductIs

(* The product distributes over the sum, on both sides.                    *)
LEMMA ProductDistributes ==
    ASSUME NEW x, NEW y, NEW z, IsFiniteSet(x), IsFiniteSet(y), IsFiniteSet(z)
    PROVE  /\ x (.) (y (+) z) = (x (.) y) (+) (x (.) z)
           /\ (y (+) z) (.) x = (y (.) x) (+) (z (.) x)
<1>1. IsFiniteSet(y (+) z)
  BY XorFinite
<1>2. x (.) (y (+) z) = (x (.) y) (+) (x (.) z)
  <2>1. ASSUME NEW m
        PROVE  m \in x (.) (y (+) z) <=> m \in (x (.) y) (+) (x (.) z)
    <3> DEFINE A == Factors(x, y, m)
               B == Factors(x, z, m)
    <3>1. Factors(x, y (+) z, m) = A (+) B
      BY DEF Factors, (+)
    <3>2. IsFiniteSet(A) /\ IsFiniteSet(B)
      BY ProductIs
    <3>3. m \in x (.) (y (+) z) <=> Cardinality(A (+) B) % 2 = 1
      BY <1>1, <3>1, ProductIs
    <3>4. /\ m \in x (.) y <=> Cardinality(A) % 2 = 1
          /\ m \in x (.) z <=> Cardinality(B) % 2 = 1
      BY ProductIs
    <3>5. /\ Cardinality(A) \in Nat /\ Cardinality(B) \in Nat
          /\ Cardinality(A (+) B) % 2 = (Cardinality(A) + Cardinality(B)) % 2
      BY <3>2, XorFinite
    <3>6. m \in (x (.) y) (+) (x (.) z) <=> ~(m \in x (.) y <=> m \in x (.) z)
      BY DEF (+)
    <3>7. \A a, b \in Nat : (a + b) % 2 = 1 <=> ~(a % 2 = 1 <=> b % 2 = 1)
      OBVIOUS
    <3> HIDE DEF A, B
    <3> QED
      BY <3>3, <3>4, <3>5, <3>6, <3>7
  <2> QED
    BY <2>1
<1>3. (y (+) z) (.) x = (y (.) x) (+) (z (.) x)
  BY <1>1, <1>2, ProductCommutes
<1> QED
  BY <1>2, <1>3
=============================================================================
