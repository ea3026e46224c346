------------------------- MODULE OHTableArrayProofs -------------------------
(***************************************************************************)
(* A hash table's arrays for every number of elements and dummies, stash   *)
(* size, address set and drawn permutations: its two orders agree, none of *)
(* its assertions fails, and it is the table the ORAM is modelled with.    *)
(***************************************************************************)
EXTENDS OHTableArrayProperties, Counting

-----------------------------------------------------------------------------
(* Fisher-Yates swaps *)

Arrays(n, V) == [0 .. n - 1 -> V]

(* b is a with its elements at i and j swapped.                            *)
IsSwap(n, a, b, i, j) ==
    /\ b[i] = a[j] /\ b[j] = a[i]
    /\ \A k \in 0 .. n - 1 : k # i /\ k # j => b[k] = a[k]

(* u[i] is the array after swap i of inverse_shuffle.                      *)
IsUpto(n, V, fy, arr, u) ==
    /\ \A i \in 0 .. n - 1 : u[i] \in Arrays(n, V)
    /\ u[0] = arr
    /\ \A i \in 1 .. n - 1 : IsSwap(n, u[i - 1], u[i], i, fy[i])
    /\ inverse_shuffle(fy, n, arr) = u[n - 1]

(* u[i] is the array after swap i of shuffle, which starts with the last.  *)
IsFrom(n, V, fy, arr, u) ==
    /\ \A i \in 1 .. n : u[i] \in Arrays(n, V)
    /\ u[n] = arr
    /\ \A i \in 1 .. n - 1 : IsSwap(n, u[i + 1], u[i], i, fy[i])
    /\ shuffle(fy, n, arr) = u[1]

LEMMA SwapFacts ==
    ASSUME NEW n \in Nat, NEW V, NEW a \in Arrays(n, V),
           NEW i \in 0 .. n - 1, NEW j \in 0 .. n - 1
    PROVE  Swapped(a, i, j) \in Arrays(n, V) /\ IsSwap(n, a, Swapped(a, i, j), i, j)
BY DEF Swapped, IsSwap, Arrays

LEMMA InverseSteps ==
    ASSUME NEW n \in Nat \ {0}, NEW V, NEW fy \in FisherYates(n), NEW arr \in Arrays(n, V)
    PROVE  \E u : IsUpto(n, V, fy, arr, u)
<1> DEFINE A == Arrays(n, V)
           IsAfter(s) == s = [i \in 0 .. n - 1 |-> IF i = 0 THEN arr ELSE Swapped(s[i - 1], i, fy[i])]
           upto[i \in 0 .. n - 1] == IF i = 0 THEN arr ELSE Swapped(upto[i - 1], i, fy[i])
<1>1. \A i \in 0 .. n - 1 : fy[i] \in 0 .. n - 1
  BY DEF FisherYates
<1>2. \E s : IsAfter(s)
  <2> DEFINE h == [i \in 1 .. n - 1 |-> [a \in A |-> Swapped(a, i, fy[i])]]
             IsRec(a, g, s) == s = [i \in 0 .. n - 1 |-> IF i = 0 THEN a ELSE g[i][s[i - 1]]]
  <2>1. \A i \in 1 .. n - 1, a \in A : h[i][a] = Swapped(a, i, fy[i]) /\ Swapped(a, i, fy[i]) \in A
    <3> TAKE i \in 1 .. n - 1, a \in A
    <3>1. i \in 0 .. n - 1 /\ fy[i] \in 0 .. n - 1
      BY <1>1
    <3> QED
      BY <3>1, SwapFacts
  <2> HIDE DEF h
  <2>2. \A a, g : \E s : IsRec(a, g, s)
    <3>1. n - 1 \in Nat
      OBVIOUS
    <3> QED
      BY <3>1, RecursionUpTo
  <2> HIDE DEF IsRec
  <2>3. PICK s : IsRec(arr, h, s)
    BY <2>2
  <2> USE DEF IsRec
  <2>4. \A i \in 0 .. n - 1 : s[i] = IF i = 0 THEN arr ELSE h[i][s[i - 1]]
    BY <2>3
  <2> DEFINE T == {i \in 0 .. n - 1 : s[i] \in A}
  <2>5. 0 \in T
    BY <2>4
  <2>6. ASSUME NEW i \in 1 .. n - 1, i - 1 \in T PROVE i \in T
    <3>1. s[i] = h[i][s[i - 1]] /\ s[i - 1] \in A
      BY <2>4, <2>6
    <3> QED
      BY <2>1, <3>1
  <2> HIDE DEF T
  <2>7. n - 1 \in Nat
    OBVIOUS
  <2>8. \A i \in 0 .. n - 1 : i \in T
    BY <2>5, <2>6, <2>7, InductionUpTo
  <2>9. \A i \in 0 .. n - 1 : s[i] = IF i = 0 THEN arr ELSE Swapped(s[i - 1], i, fy[i])
    <3> TAKE i \in 0 .. n - 1
    <3>1. CASE i = 0
      BY <2>4, <3>1
    <3>2. CASE i # 0
      <4>1. i \in 1 .. n - 1 /\ i - 1 \in 0 .. n - 1
        BY <3>2
      <4>2. s[i - 1] \in A
        BY <2>8, <4>1 DEF T
      <4>3. h[i][s[i - 1]] = Swapped(s[i - 1], i, fy[i])
        BY <2>1, <4>1, <4>2
      <4> QED
        BY <2>4, <3>2, <4>3
    <3> QED
      BY <3>1, <3>2
  <2>10. s = [i \in 0 .. n - 1 |-> s[i]]
    BY <2>3
  <2> QED
    BY <2>9, <2>10
<1>3. IsAfter(upto)
  BY <1>2
<1>4. inverse_shuffle(fy, n, arr) = upto[n - 1]
  BY DEF inverse_shuffle
<1> HIDE DEF upto
<1>5. upto[0] = arr /\ \A i \in 1 .. n - 1 : upto[i] = Swapped(upto[i - 1], i, fy[i])
  BY <1>3
<1> DEFINE T == {i \in 0 .. n - 1 : upto[i] \in A}
<1>6. \A i \in 0 .. n - 1 : i \in T
  <2>1. 0 \in T
    BY <1>5
  <2>2. ASSUME NEW i \in 1 .. n - 1, i - 1 \in T PROVE i \in T
    <3>1. i \in 0 .. n - 1 /\ fy[i] \in 0 .. n - 1 /\ upto[i - 1] \in A
      BY <1>1, <2>2
    <3>2. Swapped(upto[i - 1], i, fy[i]) \in A
      BY <3>1, SwapFacts
    <3> QED
      BY <1>5, <3>1, <3>2
  <2>3. n - 1 \in Nat
    OBVIOUS
  <2> HIDE DEF T
  <2> QED
    BY <2>1, <2>2, <2>3, InductionUpTo
<1>7. \A i \in 0 .. n - 1 : upto[i] \in A
  BY <1>6
<1>8. ASSUME NEW i \in 1 .. n - 1 PROVE IsSwap(n, upto[i - 1], upto[i], i, fy[i])
  <2>1. i \in 0 .. n - 1 /\ fy[i] \in 0 .. n - 1 /\ upto[i - 1] \in A
    BY <1>1, <1>7
  <2> QED
    BY <1>5, <2>1, SwapFacts
<1>9. IsUpto(n, V, fy, arr, upto)
  BY <1>4, <1>5, <1>7, <1>8 DEF IsUpto
<1> QED
  BY <1>9

LEMMA ShuffleSteps ==
    ASSUME NEW n \in Nat \ {0}, NEW V, NEW fy \in FisherYates(n), NEW arr \in Arrays(n, V)
    PROVE  \E u : IsFrom(n, V, fy, arr, u)
<1> DEFINE A == Arrays(n, V)
           IsBefore(s) == s = [i \in 1 .. n |-> IF i = n THEN arr ELSE Swapped(s[i + 1], i, fy[i])]
           from[i \in 1 .. n] == IF i = n THEN arr ELSE Swapped(from[i + 1], i, fy[i])
<1>1. n - 1 \in Nat /\ \A i \in 0 .. n - 1 : fy[i] \in 0 .. n - 1
  BY DEF FisherYates
<1>2. PICK d \in [0 .. n - 1 -> A] :
        d[0] = arr /\ \A i \in 1 .. n - 1 : d[i] = Swapped(d[i - 1], n - i, fy[n - i])
  <2> DEFINE h == [i \in 1 .. n - 1 |-> [a \in A |-> Swapped(a, n - i, fy[n - i])]]
             IsRec(a, g, s) == s = [i \in 0 .. n - 1 |-> IF i = 0 THEN a ELSE g[i][s[i - 1]]]
  <2>1. \A i \in 1 .. n - 1, a \in A :
            h[i][a] = Swapped(a, n - i, fy[n - i]) /\ Swapped(a, n - i, fy[n - i]) \in A
    <3> TAKE i \in 1 .. n - 1, a \in A
    <3>1. n - i \in 0 .. n - 1 /\ fy[n - i] \in 0 .. n - 1
      BY <1>1
    <3> QED
      BY <3>1, SwapFacts
  <2> HIDE DEF h
  <2>2. \A a, g : \E s : IsRec(a, g, s)
    BY <1>1, RecursionUpTo
  <2> HIDE DEF IsRec
  <2>3. PICK s : IsRec(arr, h, s)
    BY <2>2
  <2> USE DEF IsRec
  <2>4. \A i \in 0 .. n - 1 : s[i] = IF i = 0 THEN arr ELSE h[i][s[i - 1]]
    BY <2>3
  <2> DEFINE T == {i \in 0 .. n - 1 : s[i] \in A}
  <2>5. 0 \in T
    BY <2>4
  <2>6. ASSUME NEW i \in 1 .. n - 1, i - 1 \in T PROVE i \in T
    <3>1. s[i] = h[i][s[i - 1]] /\ s[i - 1] \in A
      BY <2>4, <2>6
    <3>2. h[i][s[i - 1]] \in A
      BY <2>1, <3>1
    <3> QED
      BY <3>1, <3>2
  <2> HIDE DEF T
  <2>7. \A i \in 0 .. n - 1 : i \in T
    BY <1>1, <2>5, <2>6, InductionUpTo
  <2>8. \A i \in 0 .. n - 1 : s[i] \in A
    BY <2>7 DEF T
  <2>9. s = [i \in 0 .. n - 1 |-> s[i]]
    BY <2>3
  <2>10. s \in [0 .. n - 1 -> A]
    BY <2>8, <2>9
  <2>11. s[0] = arr
    BY <2>4
  <2>12. ASSUME NEW i \in 1 .. n - 1 PROVE s[i] = Swapped(s[i - 1], n - i, fy[n - i])
    <3>1. i \in 0 .. n - 1 /\ i # 0 /\ i - 1 \in 0 .. n - 1
      OBVIOUS
    <3>2. s[i] = h[i][s[i - 1]] /\ s[i - 1] \in A
      BY <2>4, <2>8, <3>1
    <3> QED
      BY <2>1, <3>2
  <2> HIDE DEF A
  <2> QED
    BY <2>10, <2>11, <2>12
<1>3. \E s : IsBefore(s)
  <2> DEFINE s == [i \in 1 .. n |-> d[n - i]]
  <2>1. ASSUME NEW i \in 1 .. n
        PROVE  s[i] = IF i = n THEN arr ELSE Swapped(s[i + 1], i, fy[i])
    <3>1. CASE i = n
      <4>1. s[n] = d[0]
        OBVIOUS
      <4> QED
        BY <1>2, <3>1, <4>1
    <3>2. CASE i # n
      <4>1. /\ n - i \in 1 .. n - 1 /\ n - (n - i) = i /\ n - i - 1 = n - (i + 1)
            /\ i + 1 \in 1 .. n
        BY <3>2
      <4>2. d[n - i] = Swapped(d[n - i - 1], n - (n - i), fy[n - (n - i)])
        BY <1>2, <4>1
      <4>3. s[i] = d[n - i] /\ s[i + 1] = d[n - (i + 1)]
        BY <4>1
      <4> QED
        BY <3>2, <4>1, <4>2, <4>3
    <3> QED
      BY <3>1, <3>2
  <2>2. s = [i \in 1 .. n |-> s[i]]
    OBVIOUS
  <2> HIDE DEF s
  <2> QED
    BY <2>1, <2>2
<1>4. IsBefore(from)
  BY <1>3
<1>5. shuffle(fy, n, arr) = from[1]
  BY DEF shuffle
<1> HIDE DEF from
<1>6. from[n] = arr /\ \A i \in 1 .. n - 1 : from[i] = Swapped(from[i + 1], i, fy[i])
  BY <1>4
<1> DEFINE T == {i \in 0 .. n - 1 : from[n - i] \in A}
<1>7. \A i \in 0 .. n - 1 : i \in T
  <2>1. 0 \in T
    BY <1>6
  <2>2. ASSUME NEW i \in 1 .. n - 1, i - 1 \in T PROVE i \in T
    <3>1. /\ n - i \in 1 .. n - 1 /\ n - i \in 0 .. n - 1 /\ n - i + 1 = n - (i - 1)
          /\ i \in 0 .. n - 1
      BY <2>2
    <3>2. from[n - i + 1] \in A /\ fy[n - i] \in 0 .. n - 1
      BY <1>1, <2>2, <3>1
    <3>3. Swapped(from[n - i + 1], n - i, fy[n - i]) \in A
      BY <3>1, <3>2, SwapFacts
    <3>4. from[n - i] \in A
      BY <1>6, <3>1, <3>3
    <3> QED
      BY <3>1, <3>4
  <2> HIDE DEF T
  <2> QED
    BY <1>1, <2>1, <2>2, InductionUpTo
<1>8. ASSUME NEW i \in 1 .. n PROVE from[i] \in A
  <2>1. n - i \in 0 .. n - 1 /\ n - (n - i) = i
    BY <1>8
  <2>2. from[n - (n - i)] \in A
    BY <1>7, <2>1
  <2> QED
    BY <2>1, <2>2
<1>9. ASSUME NEW i \in 1 .. n - 1 PROVE IsSwap(n, from[i + 1], from[i], i, fy[i])
  <2>1. i \in 0 .. n - 1 /\ fy[i] \in 0 .. n - 1 /\ i + 1 \in 1 .. n
    BY <1>1
  <2>2. from[i + 1] \in A
    BY <1>8, <2>1
  <2> QED
    BY <1>6, <2>1, <2>2, SwapFacts
<1>10. IsFrom(n, V, fy, arr, from)
  BY <1>5, <1>6, <1>8, <1>9 DEF IsFrom
<1> QED
  BY <1>10

(* evaluate_at inverts shuffle: it names where an element goes.            *)
Inverts(n, fy, p) ==
    /\ p \in Arrays(n, 0 .. n - 1)
    /\ \A i \in 0 .. n - 1 : evaluate_at(fy, n, i) = p[i]
    /\ \A i, j \in 0 .. n - 1 : p[i] = p[j] => i = j
    /\ \A j \in 0 .. n - 1 : \E i \in 0 .. n - 1 : p[i] = j
    /\ \A V, arr : arr \in Arrays(n, V) =>
           /\ shuffle(fy, n, arr) \in Arrays(n, V)
           /\ \A i \in 0 .. n - 1 : shuffle(fy, n, arr)[p[i]] = arr[i]
           /\ inverse_shuffle(fy, n, arr) \in Arrays(n, V)
           /\ \A i \in 0 .. n - 1 : inverse_shuffle(fy, n, arr)[i] = arr[p[i]]

LEMMA ShuffleInverts ==
    ASSUME NEW n \in Nat \ {0}, NEW fy \in FisherYates(n)
    PROVE  \E p : Inverts(n, fy, p)
<1> DEFINE P == 0 .. n - 1
<1>1. Iota(n) \in Arrays(n, P) /\ \A i \in P : Iota(n)[i] = i
  BY DEF Iota, Arrays
<1>2. n - 1 \in Nat /\ \A i \in P : fy[i] \in P
  BY DEF FisherYates
<1>3. PICK u : IsUpto(n, P, fy, Iota(n), u)
  BY <1>1, InverseSteps
<1>4. 0 \in P /\ n - 1 \in P /\ \A i \in 1 .. n - 1 : i \in P /\ i - 1 \in P /\ fy[i] \in P
  <2>1. 0 \in P /\ n - 1 \in P /\ \A i \in 1 .. n - 1 : i \in P /\ i - 1 \in P
    OBVIOUS
  <2> QED
    BY <1>2, <2>1
<1>5. /\ \A i \in P : u[i] \in Arrays(n, P)
      /\ u[0] = Iota(n)
      /\ \A k \in 1 .. n - 1 : IsSwap(n, u[k - 1], u[k], k, fy[k])
      /\ inverse_shuffle(fy, n, Iota(n)) = u[n - 1]
  BY <1>3 DEF IsUpto
<1>6. ASSUME NEW T, 0 \in T, \A k \in 1 .. n - 1 : k - 1 \in T => k \in T
      PROVE  \A k \in P : k \in T
  BY <1>2, <1>6, InductionUpTo
<1>7. /\ \A i \in P : evaluate_at(fy, n, i) = u[n - 1][i]
      /\ n - 1 + 1 = n /\ 1 \in 1 .. n /\ 0 + 1 = 1 /\ n \in 1 .. n
      /\ \A k \in 1 .. n - 1 : k - 1 + 1 = k /\ k + 1 \in 1 .. n
  BY <1>5 DEF evaluate_at
<1>8. u[n - 1] \in [P -> P]
  BY <1>4, <1>5 DEF Arrays
<1>9. /\ \A V, arr : arr \in Arrays(n, V) <=> arr \in [P -> V]
      /\ \A a, b, i, j : IsSwap(n, a, b, i, j) =>
             /\ b[i] = a[j] /\ b[j] = a[i]
             /\ \A k \in P : k # i /\ k # j => b[k] = a[k]
  BY DEF Arrays, IsSwap
<1>10. \A i \in P : i \in 0 .. n - 1
  OBVIOUS
<1> HIDE DEF P
(* Every position is the image of one, after each swap.                    *)
<1>11. \A j \in P : \E i \in P : u[n - 1][i] = j
  <2> DEFINE T == {k \in P : \A j \in P : \E i \in P : u[k][i] = j}
  <2>1. 0 \in T
    BY <1>1, <1>4, <1>5
  <2>2. ASSUME NEW k \in 1 .. n - 1, k - 1 \in T PROVE k \in T
    <3>1. k \in P /\ fy[k] \in P
      BY <1>4
    <3>2. /\ u[k][k] = u[k - 1][fy[k]] /\ u[k][fy[k]] = u[k - 1][k]
          /\ \A i \in P : i # k /\ i # fy[k] => u[k][i] = u[k - 1][i]
      BY <1>5, <1>9
    <3>3. ASSUME NEW j \in P PROVE \E i \in P : u[k][i] = j
      <4>1. PICK i \in P : u[k - 1][i] = j
        BY <2>2
      <4> QED
        BY <3>1, <3>2, <4>1
    <3> QED
      BY <3>1, <3>3
  <2> HIDE DEF T
  <2>3. \A k \in P : k \in T
    BY <1>6, <2>1, <2>2
  <2> QED
    BY <1>4, <2>3 DEF T
(* What has been swapped so far and what is still to be swapped meet.      *)
<1>12. ASSUME NEW V, NEW arr \in Arrays(n, V)
       PROVE  /\ shuffle(fy, n, arr) \in Arrays(n, V)
              /\ \A i \in P : shuffle(fy, n, arr)[u[n - 1][i]] = arr[i]
  <2>1. PICK d : IsFrom(n, V, fy, arr, d)
    BY ShuffleSteps
  <2>2. /\ d[n] = arr /\ shuffle(fy, n, arr) = d[1]
        /\ \A k \in 1 .. n - 1 : IsSwap(n, d[k + 1], d[k], k, fy[k])
        /\ d[1] \in Arrays(n, V)
    BY <1>7, <2>1 DEF IsFrom
  <2> DEFINE T == {k \in P : \A i \in P : d[1][u[k][i]] = d[k + 1][i]}
  <2>3. 0 \in T
    BY <1>1, <1>4, <1>5, <1>7
  <2>4. ASSUME NEW k \in 1 .. n - 1, k - 1 \in T PROVE k \in T
    <3>1. k \in P /\ fy[k] \in P
      BY <1>4
    <3>2. /\ u[k][k] = u[k - 1][fy[k]] /\ u[k][fy[k]] = u[k - 1][k]
          /\ \A i \in P : i # k /\ i # fy[k] => u[k][i] = u[k - 1][i]
      BY <1>5, <1>9
    <3>3. /\ d[k][k] = d[k + 1][fy[k]] /\ d[k][fy[k]] = d[k + 1][k]
          /\ \A i \in P : i # k /\ i # fy[k] => d[k][i] = d[k + 1][i]
      BY <1>9, <2>2
    <3>4. \A i \in P : d[1][u[k - 1][i]] = d[k][i]
      BY <1>7, <2>4
    <3>5. ASSUME NEW i \in P PROVE d[1][u[k][i]] = d[k + 1][i]
      <4>1. CASE i = k
        BY <3>1, <3>2, <3>3, <3>4, <4>1
      <4>2. CASE i = fy[k]
        BY <3>1, <3>2, <3>3, <3>4, <4>2
      <4>3. CASE i # k /\ i # fy[k]
        BY <3>1, <3>2, <3>3, <3>4, <4>3
      <4> QED
        BY <4>1, <4>2, <4>3
    <3> QED
      BY <3>1, <3>5
  <2> HIDE DEF T
  <2>5. \A k \in P : k \in T
    BY <1>6, <2>3, <2>4
  <2>6. \A i \in P : d[1][u[n - 1][i]] = d[n - 1 + 1][i]
    BY <1>4, <2>5 DEF T
  <2> QED
    BY <1>7, <2>2, <2>6
<1>13. ASSUME NEW V, NEW arr \in Arrays(n, V)
       PROVE  /\ inverse_shuffle(fy, n, arr) \in Arrays(n, V)
              /\ \A i \in P : inverse_shuffle(fy, n, arr)[i] = arr[u[n - 1][i]]
  <2>1. PICK w : IsUpto(n, V, fy, arr, w)
    BY InverseSteps
  <2>2. /\ w[0] = arr /\ inverse_shuffle(fy, n, arr) = w[n - 1]
        /\ \A k \in 1 .. n - 1 : IsSwap(n, w[k - 1], w[k], k, fy[k])
        /\ w[n - 1] \in Arrays(n, V)
    BY <1>4, <2>1 DEF IsUpto, P
  <2> DEFINE T == {k \in P : \A i \in P : w[k][i] = arr[u[k][i]]}
  <2>3. 0 \in T
    BY <1>1, <1>4, <1>5, <2>2
  <2>4. ASSUME NEW k \in 1 .. n - 1, k - 1 \in T PROVE k \in T
    <3>1. k \in P /\ fy[k] \in P
      BY <1>4
    <3>2. /\ u[k][k] = u[k - 1][fy[k]] /\ u[k][fy[k]] = u[k - 1][k]
          /\ \A i \in P : i # k /\ i # fy[k] => u[k][i] = u[k - 1][i]
      BY <1>5, <1>9
    <3>3. /\ w[k][k] = w[k - 1][fy[k]] /\ w[k][fy[k]] = w[k - 1][k]
          /\ \A i \in P : i # k /\ i # fy[k] => w[k][i] = w[k - 1][i]
      BY <1>9, <2>2
    <3>4. \A i \in P : w[k - 1][i] = arr[u[k - 1][i]]
      BY <2>4
    <3>5. ASSUME NEW i \in P PROVE w[k][i] = arr[u[k][i]]
      <4>1. CASE i = k
        BY <3>1, <3>2, <3>3, <3>4, <4>1
      <4>2. CASE i = fy[k]
        BY <3>1, <3>2, <3>3, <3>4, <4>2
      <4>3. CASE i # k /\ i # fy[k]
        BY <3>1, <3>2, <3>3, <3>4, <4>3
      <4> QED
        BY <4>1, <4>2, <4>3
    <3> QED
      BY <3>1, <3>5
  <2> HIDE DEF T
  <2>5. \A k \in P : k \in T
    BY <1>6, <2>3, <2>4
  <2>6. \A i \in P : w[n - 1][i] = arr[u[n - 1][i]]
    BY <1>4, <2>5 DEF T
  <2> QED
    BY <2>2, <2>6
<1>14. \A i, j \in P : u[n - 1][i] = u[n - 1][j] => i = j
  <2> TAKE i, j \in P
  <2>1. shuffle(fy, n, Iota(n))[u[n - 1][i]] = i /\ shuffle(fy, n, Iota(n))[u[n - 1][j]] = j
    BY <1>1, <1>12
  <2> QED
    BY <2>1
<1>15. PICK p : p = u[n - 1]
  OBVIOUS
<1>16. p \in Arrays(n, P) /\ \A i \in P : evaluate_at(fy, n, i) = p[i]
  BY <1>7, <1>8, <1>9, <1>15
<1>17. /\ \A i, j \in P : p[i] = p[j] => i = j
       /\ \A j \in P : \E i \in P : p[i] = j
  BY <1>11, <1>14, <1>15
<1>18. \A V, arr : arr \in Arrays(n, V) =>
           /\ shuffle(fy, n, arr) \in Arrays(n, V)
           /\ \A i \in P : shuffle(fy, n, arr)[p[i]] = arr[i]
           /\ inverse_shuffle(fy, n, arr) \in Arrays(n, V)
           /\ \A i \in P : inverse_shuffle(fy, n, arr)[i] = arr[p[i]]
  BY <1>12, <1>13, <1>15
<1> QED
  BY <1>16, <1>17, <1>18, Zenon DEF Inverts, P

(* R names where the three parties' permutation takes each element.        *)
Relocates(n, fys, R) ==
    /\ R \in Arrays(n, 0 .. n - 1)
    /\ \A i \in 0 .. n - 1 : indices(fys, n)[i] = R[i]
    /\ \A i, j \in 0 .. n - 1 : R[i] = R[j] => i = j
    /\ \A j \in 0 .. n - 1 : \E i \in 0 .. n - 1 : R[i] = j
    /\ \A V, arr : arr \in Arrays(n, V) =>
           /\ forward(fys, n, arr) \in Arrays(n, V)
           /\ \A i \in 0 .. n - 1 : forward(fys, n, arr)[R[i]] = arr[i]

(* indices undoes forward, though it applies the parties' permutations in  *)
(* the opposite order.                                                     *)
LEMMA IndicesRelocate ==
    ASSUME NEW n \in Nat \ {0}, NEW fys, \A k \in 1 .. 3 : fys[k] \in FisherYates(n)
    PROVE  \E R : Relocates(n, fys, R)
<1> DEFINE P == 0 .. n - 1
<1>1. Iota(n) \in Arrays(n, P) /\ \A i \in P : Iota(n)[i] = i
  BY DEF Iota, Arrays
<1>2. /\ fys[1] \in FisherYates(n) /\ fys[2] \in FisherYates(n)
      /\ fys[3] \in FisherYates(n)
  OBVIOUS
<1>3. PICK p : Inverts(n, fys[1], p)
  BY <1>2, ShuffleInverts
<1>4. PICK q : Inverts(n, fys[2], q)
  BY <1>2, ShuffleInverts
<1>5. PICK r : Inverts(n, fys[3], r)
  BY <1>2, ShuffleInverts
<1>6. /\ p \in [P -> P] /\ q \in [P -> P] /\ r \in [P -> P]
      /\ \A i, j \in P : p[i] = p[j] => i = j
      /\ \A i, j \in P : q[i] = q[j] => i = j
      /\ \A i, j \in P : r[i] = r[j] => i = j
      /\ \A j \in P : \E i \in P : p[i] = j
      /\ \A j \in P : \E i \in P : q[i] = j
      /\ \A j \in P : \E i \in P : r[i] = j
  BY <1>3, <1>4, <1>5 DEF Inverts, Arrays
<1> DEFINE Moves(fy, m) ==
             \A V, arr : arr \in Arrays(n, V) =>
                 /\ shuffle(fy, n, arr) \in Arrays(n, V)
                 /\ \A i \in P : shuffle(fy, n, arr)[m[i]] = arr[i]
                 /\ inverse_shuffle(fy, n, arr) \in Arrays(n, V)
                 /\ \A i \in P : inverse_shuffle(fy, n, arr)[i] = arr[m[i]]
<1>13. Moves(fys[1], p) /\ Moves(fys[2], q) /\ Moves(fys[3], r)
  BY <1>3, <1>4, <1>5, Zenon DEF Inverts
<1> HIDE DEF P
<1> DEFINE R == [i \in P |-> r[q[p[i]]]]
<1>7. R \in [P -> P] /\ \A i, j \in P : R[i] = R[j] => i = j
  <2>1. \A i \in P : p[i] \in P /\ q[p[i]] \in P /\ r[q[p[i]]] \in P
    BY <1>6
  <2>2. ASSUME NEW i \in P, NEW j \in P, R[i] = R[j] PROVE i = j
    <3>1. r[q[p[i]]] = r[q[p[j]]]
      BY <2>2
    <3>2. q[p[i]] = q[p[j]]
      BY <1>6, <2>1, <3>1
    <3> QED
      BY <1>6, <2>1, <3>2
  <2> QED
    BY <2>1, <2>2
<1>8. ASSUME NEW j \in P PROVE \E i \in P : R[i] = j
  <2>1. PICK a \in P : r[a] = j
    BY <1>6
  <2>2. PICK b \in P : q[b] = a
    BY <1>6
  <2>3. PICK i \in P : p[i] = b
    BY <1>6
  <2> QED
    BY <2>1, <2>2, <2>3
<1>9. \A i \in P : indices(fys, n)[i] = R[i]
  <2> DEFINE a == inverse_shuffle(fys[3], n, Iota(n))
             b == inverse_shuffle(fys[2], n, a)
             c == inverse_shuffle(fys[1], n, b)
  <2>1. a \in Arrays(n, P) /\ \A i \in P : a[i] = Iota(n)[r[i]]
    BY <1>1, <1>13
  <2>2. c = indices(fys, n)
    BY DEF indices, inverse
  <2> HIDE DEF a
  <2>3. b \in Arrays(n, P) /\ \A i \in P : b[i] = a[q[i]]
    BY <1>13, <2>1
  <2> HIDE DEF b
  <2>4. \A i \in P : c[i] = b[p[i]]
    BY <1>13, <2>3
  <2> HIDE DEF c
  <2>5. \A i \in P : p[i] \in P /\ q[p[i]] \in P /\ r[q[p[i]]] \in P
    BY <1>6
  <2> QED
    BY <1>1, <2>1, <2>2, <2>3, <2>4, <2>5
<1>10. ASSUME NEW V, NEW arr \in Arrays(n, V)
       PROVE  /\ forward(fys, n, arr) \in Arrays(n, V)
              /\ \A i \in P : forward(fys, n, arr)[R[i]] = arr[i]
  <2> DEFINE a == shuffle(fys[1], n, arr)
             b == shuffle(fys[2], n, a)
             c == shuffle(fys[3], n, b)
  <2>1. a \in Arrays(n, V) /\ \A i \in P : a[p[i]] = arr[i]
    BY <1>13
  <2>2. c = forward(fys, n, arr)
    BY DEF forward
  <2> HIDE DEF a
  <2>3. b \in Arrays(n, V) /\ \A i \in P : b[q[i]] = a[i]
    BY <1>13, <2>1
  <2> HIDE DEF b
  <2>4. c \in Arrays(n, V) /\ \A i \in P : c[r[i]] = b[i]
    BY <1>13, <2>3
  <2> HIDE DEF c
  <2>5. \A i \in P : p[i] \in P /\ q[p[i]] \in P /\ R[i] = r[q[p[i]]]
    BY <1>6
  <2> HIDE DEF R
  <2>6. \A i \in P : c[R[i]] = arr[i]
    BY <2>1, <2>3, <2>4, <2>5
  <2> QED
    BY <2>2, <2>4, <2>6
<1>11. PICK S : S = R
  OBVIOUS
<1> HIDE DEF R
<1>12. Relocates(n, fys, S)
  <2>1. S \in Arrays(n, P) /\ \A i \in P : indices(fys, n)[i] = S[i]
    <3>1. Arrays(n, P) = [P -> P]
      BY DEF Arrays, P
    <3> QED
      BY <1>7, <1>9, <1>11, <3>1
  <2>2. /\ \A i, j \in P : S[i] = S[j] => i = j
        /\ \A j \in P : \E i \in P : S[i] = j
    BY <1>7, <1>8, <1>11
  <2>3. \A V, arr : arr \in Arrays(n, V) =>
           /\ forward(fys, n, arr) \in Arrays(n, V)
           /\ \A i \in P : forward(fys, n, arr)[S[i]] = arr[i]
    BY <1>10, <1>11
  <2> QED
    BY <2>1, <2>2, <2>3, Zenon DEF Relocates, P
<1> QED
  BY <1>12

-----------------------------------------------------------------------------
(* The arrays of a table *)

LEMMA PositionFacts ==
    /\ Total \in Nat \ {0} /\ Position = 0 .. Total - 1
    /\ NumElements \in Nat /\ NumDummies \in Nat \ {0} /\ StashSize \in Nat
    /\ IsFiniteSet(Position) /\ Cardinality(Position) = Total
<1>1. NumElements \in Nat /\ NumDummies \in Nat \ {0} /\ StashSize \in Nat
  BY OHTableArrayAssumption, StashAssumption
<1>2. Total \in Nat \ {0}
  BY <1>1 DEF Total
<1>3. IsFiniteSet(0 .. Total - 1) /\ Cardinality(0 .. Total - 1) = Total
  BY <1>2, FS_Interval
<1> QED
  BY <1>1, <1>2, <1>3 DEF Position

(* What an order may hold.                                                 *)
Content == Addr \cup Label \cup {nullptr}
Order == [Position -> Content]

(* The position of the receivers that evaluate_at names, as a bijection.   *)
Locates(fy, p) ==
    /\ p \in [Position -> Position]
    /\ \A i \in Position : evaluate_at(fy, Total, i) = p[i]
    /\ \A i, j \in Position : p[i] = p[j] => i = j
    /\ \A j \in Position : \E i \in Position : p[i] = j

LEMMA ReceiverPositions ==
    ASSUME NEW fy \in FyArrays, NEW arr \in Order
    PROVE  \E p : /\ Locates(fy, p)
                  /\ shuffle(fy, Total, arr) \in Order
                  /\ \A i \in Position : shuffle(fy, Total, arr)[p[i]] = arr[i]
<1>1. fy \in FisherYates(Total)
  BY OHTableArrayAssumption
<1>2. PICK p : Inverts(Total, fy, p)
  BY <1>1, PositionFacts, ShuffleInverts
<1>3. \A W : Arrays(Total, W) = [Position -> W]
  BY DEF Arrays, Position
<1>4. /\ p \in Arrays(Total, Position)
      /\ \A i \in Position : evaluate_at(fy, Total, i) = p[i]
      /\ \A i, j \in Position : p[i] = p[j] => i = j
      /\ \A j \in Position : \E i \in Position : p[i] = j
  BY <1>2, Zenon DEF Inverts, Position
<1>5. arr \in Arrays(Total, Content)
  BY <1>3, Zenon DEF Order
<1>6. /\ shuffle(fy, Total, arr) \in Arrays(Total, Content)
      /\ \A i \in Position : shuffle(fy, Total, arr)[p[i]] = arr[i]
  <2>1. \A W, a : a \in Arrays(Total, W) =>
           /\ shuffle(fy, Total, a) \in Arrays(Total, W)
           /\ \A i \in 0 .. Total - 1 : shuffle(fy, Total, a)[p[i]] = a[i]
           /\ inverse_shuffle(fy, Total, a) \in Arrays(Total, W)
           /\ \A i \in 0 .. Total - 1 : inverse_shuffle(fy, Total, a)[i] = a[p[i]]
    BY <1>2, Zenon DEF Inverts
  <2>2. shuffle(fy, Total, arr) \in Arrays(Total, Content)
    BY <1>5, <2>1, ZenonT(60)
  <2>3. \A i \in 0 .. Total - 1 : shuffle(fy, Total, arr)[p[i]] = arr[i]
    BY <1>5, <2>1, ZenonT(60)
  <2> QED
    BY <2>2, <2>3, Zenon DEF Position
<1>7. p \in [Position -> Position] /\ shuffle(fy, Total, arr) \in Order
  BY <1>3, <1>4, <1>6, Zenon DEF Order
<1>8. Locates(fy, p)
  BY <1>4, <1>7, Zenon DEF Locates
<1> QED
  BY <1>6, <1>7, <1>8, Zenon

(* The same of the permutation the three parties apply to the elements.    *)
LEMMA BuilderPositions ==
    ASSUME NEW fys \in [1 .. 3 -> FyArrays], NEW arr \in Order
    PROVE  \E R \in [Position -> Position] :
             /\ \A i \in Position : indices(fys, Total)[i] = R[i]
             /\ \A i, j \in Position : R[i] = R[j] => i = j
             /\ \A j \in Position : \E i \in Position : R[i] = j
             /\ forward(fys, Total, arr) \in Order
             /\ \A i \in Position : forward(fys, Total, arr)[R[i]] = arr[i]
<1>1. \A k \in 1 .. 3 : fys[k] \in FisherYates(Total)
  BY OHTableArrayAssumption
<1>2. PICK R : Relocates(Total, fys, R)
  BY <1>1, PositionFacts, IndicesRelocate
<1>3. \A W : Arrays(Total, W) = [Position -> W]
  BY DEF Arrays, Position
<1>4. /\ R \in Arrays(Total, Position)
      /\ \A i \in Position : indices(fys, Total)[i] = R[i]
      /\ \A i, j \in Position : R[i] = R[j] => i = j
      /\ \A j \in Position : \E i \in Position : R[i] = j
  BY <1>2, Zenon DEF Relocates, Position
<1>5. arr \in Arrays(Total, Content)
  BY <1>3, Zenon DEF Order
<1>6. /\ forward(fys, Total, arr) \in Arrays(Total, Content)
      /\ \A i \in Position : forward(fys, Total, arr)[R[i]] = arr[i]
  <2>1. \A W, a : a \in Arrays(Total, W) =>
           /\ forward(fys, Total, a) \in Arrays(Total, W)
           /\ \A i \in 0 .. Total - 1 : forward(fys, Total, a)[R[i]] = a[i]
    BY <1>2, Zenon DEF Relocates
  <2> QED
    BY <1>5, <2>1 DEF Position
<1>7. R \in [Position -> Position] /\ forward(fys, Total, arr) \in Order
  BY <1>3, <1>4, <1>6, Zenon DEF Order
<1> QED
  BY <1>4, <1>6, <1>7, Zenon

(* An image that collapses nothing is as large as the set.                 *)
LEMMA ImageSize ==
    ASSUME NEW p, NEW S \in SUBSET Position,
           \A i, j \in S : p[i] = p[j] => i = j
    PROVE  Cardinality({p[i] : i \in S}) = Cardinality(S)
<1> DEFINE f == [i \in S |-> p[i]]
           T == {p[i] : i \in S}
<1>1. f \in Bijection(S, T)
  <2>1. f \in [S -> T] /\ \A i, j \in S : f[i] = f[j] => i = j
    OBVIOUS
  <2>2. \A t \in T : \E i \in S : f[i] = t
    OBVIOUS
  <2> HIDE DEF f, T
  <2> QED
    BY <2>1, <2>2 DEF Bijection, Injection, Surjection, IsInjective
<1>2. IsFiniteSet(S)
  BY PositionFacts, FS_Subset
<1> HIDE DEF f, T
<1>3. Cardinality(T) = Cardinality(S)
  BY <1>1, <1>2, FS_Bijection DEF ExistsBijection
<1> QED
  BY <1>3 DEF T

LEMMA InitArrays == Init => ArraysInv
BY PositionFacts DEF Init, ArraysInv, TypeOK, Placed, Tabled, MarksCounted, Drained

(* What build leaves, from any permutations and any stash of the size.     *)
LEMMA BuildKeeps == ASSUME ArraysInv, BuildArrays PROVE ArraysInv'
<1>1. PICK fys \in [1 .. 3 -> FyArrays] :
         builder_order' = forward(fys, Total, Padded) /\ dummy_indices' = DummyIndices(fys)
  BY DEF BuildArrays
<1>2. PICK S \in SUBSET Compacted(builder_order'), fy \in FyArrays :
         /\ Cardinality(S) = StashSize
         /\ cht' = Compacted(builder_order') \ S
         /\ receiver_shuffle' = fy
         /\ receiver_order' = shuffle(fy, Total, builder_order')
         /\ touched' = StashPositions(fy, S)
         /\ stash' = {receiver_order'[i] : i \in StashPositions(fy, S)}
  BY DEF BuildArrays
<1>3. /\ pc' = "built" /\ query_count' = query_count /\ seen' = seen
      /\ query_count = 0 /\ seen = {}
  BY DEF BuildArrays, ArraysInv, TypeOK
<1>4. /\ \A k \in 0 .. NumElements - 1 :
            k \in Position /\ Padded[k] = Xs[k] /\ Xs[k] # nullptr /\ Xs[k] \in Addr \cup Label
      /\ \A k \in Dummy : NumElements + k \in Position /\ Padded[NumElements + k] = nullptr
      /\ \A k \in Position : k \in 0 .. NumElements - 1 \/ k - NumElements \in Dummy
      /\ \A k, l \in 0 .. NumElements - 1 : Xs[k] = Xs[l] => k = l
  BY PositionFacts, OHTableArrayAssumption DEF Padded, Position, Total, Dummy
<1>5. Padded \in Order
  BY OHTableArrayAssumption, PositionFacts DEF Padded, Order, Content
<1>6. PICK R \in [Position -> Position] :
        /\ \A i \in Position : indices(fys, Total)[i] = R[i]
        /\ \A i, j \in Position : R[i] = R[j] => i = j
        /\ \A j \in Position : \E i \in Position : R[i] = j
        /\ forward(fys, Total, Padded) \in Order
        /\ \A i \in Position : forward(fys, Total, Padded)[R[i]] = Padded[i]
  BY <1>5, BuilderPositions
<1>7. PICK bo \in Order : bo = builder_order'
  BY <1>1, <1>6
<1>8. PICK di : di = dummy_indices'
  OBVIOUS
<1>9. PICK p : /\ Locates(fy, p)
              /\ \A i \in Position : shuffle(fy, Total, bo)[p[i]] = bo[i]
  BY <1>7, ReceiverPositions
<1> DEFINE C == {i \in Position : bo[i] # nullptr}
<1>10. C = Compacted(builder_order') /\ C \subseteq Position /\ S \subseteq C
  BY <1>7 DEF Compacted
<1>11. \A i \in Position : bo[R[i]] = Padded[i] /\ R[i] \in Position
  BY <1>1, <1>6, <1>7
<1>12. \A k \in Dummy : di[k] = R[NumElements + k]
  BY <1>1, <1>4, <1>6, <1>8 DEF DummyIndices, Dummy
<1>13. \A k \in 0 .. NumElements - 1 : R[k] \in C /\ bo[R[k]] = Xs[k]
  BY <1>4, <1>11
<1>14. \A k \in Dummy : di[k] \in Position \ C
  BY <1>4, <1>11, <1>12
<1>15. ASSUME NEW i \in C PROVE \E k \in 0 .. NumElements - 1 : i = R[k]
  <2>1. PICK k \in Position : R[k] = i
    BY <1>6, <1>10
  <2>2. CASE k \in 0 .. NumElements - 1
    BY <2>1, <2>2
  <2>3. CASE k - NumElements \in Dummy
    <3>1. NumElements + (k - NumElements) = k
      BY PositionFacts DEF Position
    <3> QED
      BY <1>4, <1>11, <2>1, <2>3, <3>1
  <2> QED
    BY <1>4, <2>2, <2>3
<1>16. ASSUME NEW i \in Position \ C PROVE \E k \in Dummy : i = di[k]
  <2>1. PICK k \in Position : R[k] = i
    BY <1>6
  <2>2. CASE k \in 0 .. NumElements - 1
    BY <1>13, <2>1, <2>2
  <2>3. CASE k - NumElements \in Dummy
    <3>1. NumElements + (k - NumElements) = k
      BY PositionFacts DEF Position
    <3> QED
      BY <1>12, <2>1, <2>3, <3>1
  <2> QED
    BY <1>4, <2>2, <2>3
<1>17. dummy_indices' \in [Dummy -> Position]
  BY <1>1, <1>4, <1>6 DEF DummyIndices, Dummy
<1>18. /\ p \in [Position -> Position]
       /\ \A i \in Position : evaluate_at(fy, Total, i) = p[i]
       /\ \A i, j \in Position : p[i] = p[j] => i = j
  BY <1>9 DEF Locates
<1>19. /\ touched' = {p[i] : i \in S} /\ touched' \subseteq Position
       /\ \A i \in Position : p[i] \in touched' <=> i \in S
  BY <1>2, <1>10, <1>18 DEF StashPositions
<1> HIDE DEF C
<1>20. TypeOK'
  <2>1. builder_order' \in [Position -> Addr \cup Label \cup {nullptr}]
    BY <1>7 DEF Order, Content
  <2>2. query_count' \in 0 .. NumDummies /\ seen' \subseteq Addr
    BY <1>3, PositionFacts
  <2> QED
    BY <1>2, <1>3, <1>17, <1>19, <2>1, <2>2 DEF TypeOK
<1>21. Placed'
  <2>1. {bo[i] : i \in C} = Xset
    <3>1. ASSUME NEW i \in C PROVE bo[i] \in Xset
      BY <1>13, <1>15 DEF Xset
    <3>2. ASSUME NEW x \in Xset PROVE \E i \in C : bo[i] = x
      BY <1>13 DEF Xset
    <3> QED
      BY <3>1, <3>2
  <2>2. ASSUME NEW i \in C, NEW j \in C, bo[i] = bo[j] PROVE i = j
    BY <1>4, <1>13, <1>15, <2>2
  <2>3. {di[k] : k \in Dummy} = Position \ C
    BY <1>14, <1>16
  <2>4. ASSUME NEW k \in Dummy, NEW l \in Dummy, di[k] = di[l] PROVE k = l
    <3>1. NumElements + k = NumElements + l
      BY <1>4, <1>6, <1>12, <2>4
    <3> QED
      BY <3>1, PositionFacts DEF Dummy
  <2> QED
    BY <1>7, <1>8, <1>10, <2>1, <2>2, <2>3, <2>4 DEF Placed
<1>22. Tabled'
  <2>1. C \ (C \ S) = S
    BY <1>10
  <2>2. stash' = {bo[i] : i \in S}
    <3>1. StashPositions(fy, S) = {p[i] : i \in S}
      BY <1>10, <1>18 DEF StashPositions
    <3>2. \A i \in S : receiver_order'[p[i]] = bo[i]
      BY <1>2, <1>7, <1>9, <1>10
    <3>3. stash' = {receiver_order'[i] : i \in {p[j] : j \in S}}
      BY <1>2, <3>1
    <3> QED
      BY <3>2, <3>3
  <2> QED
    BY <1>2, <1>7, <1>10, <2>1, <2>2 DEF Tabled
<1>23. MarksCounted'
  <2>1. ASSUME NEW i \in C
        PROVE  evaluate_at(fy, Total, i) \in touched' <=> i \notin C \ S \/ bo[i] \in seen'
    BY <1>3, <1>10, <1>18, <1>19
  <2>2. ASSUME NEW k \in Dummy PROVE evaluate_at(fy, Total, di[k]) \notin touched'
    BY <1>10, <1>14, <1>18, <1>19
  <2>3. Cardinality(touched') = StashSize + query_count'
    <3>1. S \in SUBSET Position /\ \A i, j \in S : p[i] = p[j] => i = j
      BY <1>10, <1>18
    <3>2. Cardinality({p[i] : i \in S}) = StashSize
      BY <1>2, <3>1, ImageSize
    <3> QED
      BY <1>3, <1>19, <3>2, PositionFacts
  <2> QED
    BY <1>2, <1>7, <1>8, <1>10, <2>1, <2>2, <2>3 DEF MarksCounted, Marked
<1>24. Drained'
  BY <1>3 DEF Drained
<1> QED
  BY <1>20, <1>21, <1>22, <1>23, <1>24 DEF ArraysInv

(* The bijection of a built table, and where it takes what is marked.      *)
LEMMA BuiltFacts ==
    ASSUME ArraysInv, pc # "unbuilt"
    PROVE  \E p : /\ Locates(receiver_shuffle, p)
                  /\ \A i \in Position : receiver_order[p[i]] = builder_order[i]
<1>1. receiver_shuffle \in FyArrays /\ builder_order \in Order
  BY DEF ArraysInv, TypeOK, Order, Content
<1>2. receiver_order = shuffle(receiver_shuffle, Total, builder_order)
  BY DEF ArraysInv, Tabled
<1> QED
  BY <1>1, <1>2, ReceiverPositions

(* A query looks at a position of its own: an element's or a dummy's.      *)
LEMMA IndexFacts ==
    ASSUME ArraysInv, NEW x \in Addr, NEW use_dummy \in BOOLEAN, Asks(x, use_dummy)
    PROVE  /\ \/ /\ InTable(x, use_dummy) = {}
                 /\ IndexBuilderOrder(x, use_dummy) = dummy_indices[query_count]
                 /\ query_count \in Dummy
              \/ /\ IndexBuilderOrder(x, use_dummy) \in cht /\ ~use_dummy
                 /\ builder_order[IndexBuilderOrder(x, use_dummy)] = x
                 /\ InTable(x, use_dummy) = {IndexBuilderOrder(x, use_dummy)}
           /\ IndexBuilderOrder(x, use_dummy) \in Position
           /\ ~Marked(IndexBuilderOrder(x, use_dummy))
<1> DEFINE i == IndexBuilderOrder(x, use_dummy)
           M == InTable(x, use_dummy)
<1>1. pc # "unbuilt" /\ query_count \in Dummy /\ (use_dummy \/ x \notin seen)
  BY PositionFacts DEF Asks, ArraysInv, TypeOK, Dummy
<1>2. cht \subseteq Compacted(builder_order) /\ Compacted(builder_order) \subseteq Position
  BY <1>1 DEF ArraysInv, Tabled, Compacted
<1>3. CASE M = {}
  <2>1. i = dummy_indices[query_count]
    BY <1>3 DEF IndexBuilderOrder
  <2>2. i \in Position
    BY <1>1, <2>1 DEF ArraysInv, TypeOK
  <2>3. ~Marked(dummy_indices[query_count])
    BY <1>1, PositionFacts DEF ArraysInv, MarksCounted, Dummy
  <2> QED
    BY <1>1, <1>3, <2>1, <2>2, <2>3
<1>4. CASE M # {}
  <2>1. i \in M
    BY <1>4 DEF IndexBuilderOrder
  <2>2. i \in cht /\ ~use_dummy /\ builder_order[i] = x
    BY <2>1 DEF InTable
  <2>3. M = {i}
    BY <1>1, <1>2, <2>1, <2>2 DEF ArraysInv, Placed, InTable
  <2>4. ~Marked(i)
    BY <1>1, <1>2, <2>2 DEF ArraysInv, MarksCounted
  <2> QED
    BY <1>2, <2>2, <2>3, <2>4
<1> QED
  BY <1>3, <1>4

LEMMA QueryKeeps ==
    ASSUME ArraysInv, NEW x \in Addr, NEW use_dummy \in BOOLEAN, Query(x, use_dummy)
    PROVE  ArraysInv'
<1> DEFINE i == IndexBuilderOrder(x, use_dummy)
           C == Compacted(builder_order)
<1>1. /\ Asks(x, use_dummy)
      /\ touched' = touched \cup {IndexReceiverOrder(x, use_dummy)}
      /\ IndexReceiverOrder(x, use_dummy) \notin touched
      /\ query_count' = query_count + 1
      /\ seen' = (IF use_dummy THEN seen ELSE seen \cup {x})
      /\ pc' = pc /\ extracted' = extracted
      /\ builder_order' = builder_order /\ dummy_indices' = dummy_indices /\ cht' = cht
      /\ receiver_shuffle' = receiver_shuffle /\ receiver_order' = receiver_order
      /\ stash' = stash
  BY DEF Query, arrays
<1>2. pc = "built" /\ query_count < NumDummies /\ query_count \in 0 .. NumDummies
  BY <1>1 DEF Asks, ArraysInv, TypeOK
<1>3. /\ \/ /\ InTable(x, use_dummy) = {} /\ i = dummy_indices[query_count]
            /\ query_count \in Dummy
         \/ /\ i \in cht /\ ~use_dummy /\ builder_order[i] = x
            /\ InTable(x, use_dummy) = {i}
      /\ i \in Position
  BY <1>1, IndexFacts
<1>4. PICK p : Locates(receiver_shuffle, p)
  BY <1>2, BuiltFacts
<1>5. /\ p \in [Position -> Position]
      /\ \A j \in Position : evaluate_at(receiver_shuffle, Total, j) = p[j]
      /\ \A j, k \in Position : p[j] = p[k] => j = k
  BY <1>4 DEF Locates
<1>6. touched' = touched \cup {p[i]} /\ p[i] \notin touched /\ p[i] \in Position
  BY <1>1, <1>3, <1>5 DEF IndexReceiverOrder
<1> HIDE DEF i
<1>7. \A j \in Position : p[j] \in touched' <=> p[j] \in touched \/ j = i
  BY <1>3, <1>5, <1>6
<1>8. /\ cht \subseteq C /\ C \subseteq Position
      /\ \A k \in Dummy : dummy_indices[k] \in Position \ C
      /\ \A k, l \in Dummy : dummy_indices[k] = dummy_indices[l] => k = l
      /\ \A j, k \in C : builder_order[j] = builder_order[k] => j = k
  <2>1. {dummy_indices[k] : k \in Dummy} = Position \ C
    BY <1>2 DEF ArraysInv, Placed
  <2> QED
    BY <1>2, <2>1 DEF ArraysInv, Placed, Tabled, Compacted
<1>9. /\ \A j \in C : p[j] \in touched <=> j \notin cht \/ builder_order[j] \in seen
      /\ \A k \in Dummy : p[dummy_indices[k]] \in touched => k < query_count
      /\ Cardinality(touched) = StashSize + query_count
  BY <1>2, <1>5, <1>8 DEF ArraysInv, MarksCounted, Marked
<1>10. touched \subseteq Position
  BY <1>2 DEF ArraysInv, TypeOK
<1>11. TypeOK'
  <2>1. query_count' \in 0 .. NumDummies /\ seen' \subseteq Addr /\ touched' \subseteq Position
    <3>1. query_count' \in 0 .. NumDummies
      BY <1>1, <1>2, PositionFacts
    <3>2. seen \subseteq Addr
      BY DEF ArraysInv, TypeOK
    <3>3. seen' \subseteq Addr
      BY <1>1, <3>2
    <3>4. touched' \subseteq Position
      BY <1>6, <1>10
    <3> QED
      BY <3>1, <3>3, <3>4
  <2> QED
    BY <1>1, <1>2, <2>1 DEF ArraysInv, TypeOK
<1>12. Placed' /\ Tabled'
  BY <1>1 DEF ArraysInv, Placed, Tabled, Compacted
<1>13. ASSUME NEW j \in C
       PROVE  p[j] \in touched' <=> j \notin cht \/ builder_order[j] \in seen'
  <2>1. j = i <=> j \in InTable(x, use_dummy)
    BY <1>3, <1>8
  <2>2. j \in InTable(x, use_dummy) <=> j \in cht /\ ~use_dummy /\ builder_order[j] = x
    BY DEF InTable
  <2>3. j \in Position
    BY <1>8
  <2>4. builder_order[j] \in seen' <=>
          builder_order[j] \in seen \/ (~use_dummy /\ builder_order[j] = x)
    BY <1>1
  <2> QED
    BY <1>7, <1>9, <2>1, <2>2, <2>3, <2>4
<1>14. ASSUME NEW k \in Dummy, p[dummy_indices[k]] \in touched' PROVE k < query_count'
  <2>1. dummy_indices[k] \in Position \ C
    BY <1>8
  <2>2. p[dummy_indices[k]] \in touched \/ dummy_indices[k] = i
    BY <1>7, <1>14, <2>1
  <2>3. CASE p[dummy_indices[k]] \in touched
    BY <1>1, <1>2, <1>9, <2>3 DEF Dummy
  <2>4. CASE dummy_indices[k] = i
    <3>1. k = query_count
      BY <1>3, <1>8, <2>1, <2>4
    <3> QED
      BY <1>1, <1>2, <3>1
  <2> QED
    BY <2>2, <2>3, <2>4
<1>15. Cardinality(touched') = StashSize + query_count'
  <2>1. IsFiniteSet(touched)
    BY <1>10, PositionFacts, FS_Subset
  <2>2. Cardinality(touched \cup {p[i]}) = Cardinality(touched) + 1
    BY <1>6, <2>1, FS_AddElement
  <2>3. touched' = touched \cup {p[i]} /\ query_count' = query_count + 1
    BY <1>1, <1>6
  <2>4. Cardinality(touched') = StashSize + query_count + 1
    BY <1>9, <2>2, <2>3
  <2>5. StashSize \in Nat /\ query_count \in Nat
    BY <1>2, PositionFacts
  <2> QED
    BY <2>3, <2>4, <2>5
<1>16. MarksCounted'
  <2>1. \A k \in Dummy : dummy_indices[k] \in Position
    BY <1>8
  <2>2. C' = C /\ receiver_shuffle' = receiver_shuffle
    BY <1>1 DEF Compacted
  <2> QED
    BY <1>1, <1>5, <1>8, <1>13, <1>14, <1>15, <2>1, <2>2 DEF MarksCounted, Marked
<1>17. Drained'
  BY <1>1, <1>2 DEF Drained
<1> QED
  BY <1>11, <1>12, <1>16, <1>17 DEF ArraysInv

LEMMA ExtractKeeps == ASSUME ArraysInv, Extract PROVE ArraysInv'
<1>1. /\ pc = "built" /\ query_count = NumDummies /\ pc' = "drained"
      /\ extracted' = {receiver_order[i] : i \in Position \ touched}
      /\ touched' = touched /\ query_count' = query_count /\ seen' = seen
      /\ builder_order' = builder_order /\ dummy_indices' = dummy_indices /\ cht' = cht
      /\ receiver_shuffle' = receiver_shuffle /\ receiver_order' = receiver_order
      /\ stash' = stash
  BY DEF Extract, arrays
<1>2. TypeOK' /\ Placed' /\ Tabled'
  BY <1>1 DEF ArraysInv, TypeOK, Placed, Tabled, Compacted
<1>3. MarksCounted'
  BY <1>1 DEF ArraysInv, MarksCounted, Marked, Compacted
<1>4. Drained'
  BY <1>1 DEF Drained
<1> QED
  BY <1>2, <1>3, <1>4 DEF ArraysInv

(* ArraysInv holds in every reachable state.                               *)
THEOREM ArraysInductive == Spec => []ArraysInv
<1>1. ASSUME ArraysInv, [Next]_vars PROVE ArraysInv'
  <2>1. CASE BuildArrays
    BY <1>1, <2>1, BuildKeeps
  <2>2. ASSUME NEW x \in Addr, NEW use_dummy \in BOOLEAN, Query(x, use_dummy)
        PROVE  ArraysInv'
    BY <1>1, <2>2, QueryKeeps
  <2>3. CASE Extract
    BY <1>1, <2>3, ExtractKeeps
  <2>4. CASE UNCHANGED vars
    BY <1>1, <2>4
    DEF vars, arrays, ArraysInv, TypeOK, Placed, Tabled, MarksCounted, Drained, Marked, Compacted
  <2> QED
    BY <1>1, <2>1, <2>2, <2>3, <2>4 DEF Next
<1> QED
  BY <1>1, InitArrays, PTL DEF Spec

LEMMA OrdersAgreeInv == ArraysInv => OrdersAgree
<1> SUFFICES ASSUME ArraysInv, pc # "unbuilt" PROVE OrdersAgree
  BY DEF OrdersAgree
<1>1. PICK p : /\ Locates(receiver_shuffle, p)
              /\ \A i \in Position : receiver_order[p[i]] = builder_order[i]
  BY BuiltFacts
<1>2. \A i \in Position :
        receiver_order[evaluate_at(receiver_shuffle, Total, i)] = builder_order[i]
  BY <1>1 DEF Locates
<1>3. DOMAIN dummy_indices = Dummy
  BY DEF ArraysInv, TypeOK
<1> QED
  BY <1>2, <1>3 DEF OrdersAgree, ArraysInv, Placed, Tabled

LEMMA AssertsHoldInv == ArraysInv => AssertsHold
<1> SUFFICES ASSUME ArraysInv PROVE AssertsHold
  OBVIOUS
<1>1. ASSUME NEW x \in Addr, NEW use_dummy \in BOOLEAN, Asks(x, use_dummy)
      PROVE  IndexReceiverOrder(x, use_dummy) \notin touched
  BY <1>1, IndexFacts DEF Marked, IndexReceiverOrder
<1>2. ASSUME pc = "built", query_count = NumDummies
      PROVE  Cardinality(Position \ touched) = NumElements - StashSize
  <2>1. touched \subseteq Position /\ Cardinality(touched) = StashSize + NumDummies
    BY <1>2 DEF ArraysInv, TypeOK, MarksCounted
  <2>2. Position \cap touched = touched
    BY <2>1
  <2>3. Cardinality(Position \ touched) = Cardinality(Position) - Cardinality(Position \cap touched)
    BY PositionFacts, FS_Difference
  <2>4. Cardinality(Position \ touched) = Total - (StashSize + NumDummies)
    BY <2>1, <2>2, <2>3, PositionFacts
  <2> QED
    BY <2>4, PositionFacts DEF Total
<1> QED
  BY <1>1, <1>2 DEF AssertsHold

(* However the permutations are drawn, the builder's positions and the     *)
(* receivers' are the same elements, and the dummy indices the dummies'.   *)
THEOREM OrdersAlwaysAgree == Spec => []OrdersAgree
BY ArraysInductive, OrdersAgreeInv, PTL

(* No query meets a position marked before, and the number of untouched    *)
(* positions is the one extract asserts.                                   *)
THEOREM TableAssertsHold == Spec => []AssertsHold
BY ArraysInductive, AssertsHoldInv, PTL

-----------------------------------------------------------------------------
(* The arrays implement the table of the ORAM *)

LEMMA XsetFacts ==
    /\ Xset = {Xs[i] : i \in DOMAIN Xs}
    /\ Xset \subseteq Addr \cup Label
    /\ IsFiniteSet(Xset) /\ Cardinality(Xset) = NumElements
<1>1. Xs \in Bijection(0 .. NumElements - 1, Xset)
  BY OHTableArrayAssumption DEF Xset, Bijection, Injection, Surjection, IsInjective
<1>2. /\ IsFiniteSet(0 .. NumElements - 1)
      /\ Cardinality(0 .. NumElements - 1) = NumElements
  <2>1. NumElements \in Nat /\ 0 \in Int /\ NumElements - 1 \in Int
    BY PositionFacts
  <2>2. /\ IsFiniteSet(0 .. NumElements - 1)
        /\ Cardinality(0 .. NumElements - 1) =
             IF 0 > NumElements - 1 THEN 0 ELSE NumElements - 1 - 0 + 1
    BY <2>1, FS_Interval
  <2> QED
    BY <2>1, <2>2
<1>3. IsFiniteSet(Xset) /\ Cardinality(Xset) = NumElements
  BY <1>1, <1>2, FS_Bijection DEF ExistsBijection
<1> QED
  BY <1>3, OHTableArrayAssumption DEF Xset

LEMMA EntryFacts ==
    /\ \A X, e : e \in RealEntries(X) <=> \E x \in X \cap Addr : e = EntryOf(x)
    /\ \A x \in Addr : EntryOf(x) \in Entry /\ EntryOf(x).x = x /\ EntryOf(x).y = YOf[x]
    /\ \A x \in Addr : YOf[x] \in Word
    /\ \A X, x : x \in Addr => (EntryOf(x) \in RealEntries(X) <=> x \in X)
    /\ \A X : RealEntries(X) \subseteq Entry
    /\ \A X : {e.x : e \in RealEntries(X)} = X \cap Addr
<1>1. \A x \in Addr : EntryOf(x) \in Entry /\ EntryOf(x).x = x /\ EntryOf(x).y = YOf[x]
                      /\ YOf[x] \in Word
  BY OHTableArrayAssumption DEF EntryOf, Entry
<1>2. \A X, e : e \in RealEntries(X) <=> \E x \in X \cap Addr : e = EntryOf(x)
  BY DEF RealEntries
<1>3. ASSUME NEW X, NEW x \in Addr PROVE EntryOf(x) \in RealEntries(X) <=> x \in X
  BY <1>1, <1>2
<1>4. ASSUME NEW X PROVE {e.x : e \in RealEntries(X)} = X \cap Addr
  <2>1. ASSUME NEW e \in RealEntries(X) PROVE e.x \in X \cap Addr
    BY <1>1, <1>2
  <2>2. ASSUME NEW x \in X \cap Addr PROVE \E e \in RealEntries(X) : e.x = x
    BY <1>1, <1>3
  <2> QED
    BY <2>1, <2>2
<1>5. ASSUME NEW X PROVE RealEntries(X) \subseteq Entry
  BY <1>1, <1>2
<1> QED
  BY <1>1, <1>2, <1>3, <1>4, <1>5, Zenon

(* There are as many real entries as addresses.                            *)
LEMMA EntriesSize ==
    ASSUME NEW X, IsFiniteSet(X)
    PROVE  Cardinality(RealEntries(X)) = Cardinality(X \cap Addr)
<1> DEFINE D == X \cap Addr
           f == [x \in D |-> EntryOf(x)]
<1>1. f \in Bijection(D, RealEntries(X))
  <2>1. \A x \in D : f[x] = EntryOf(x) /\ x \in Addr /\ x \in X
    OBVIOUS
  <2>2. f \in [D -> RealEntries(X)]
    BY EntryFacts
  <2> HIDE DEF f, D
  <2>3. \A w, z \in D : f[w] = f[z] => w = z
    <3> TAKE w, z \in D
    <3>1. EntryOf(w).x = w /\ EntryOf(z).x = z
      BY <2>1, EntryFacts
    <3> QED
      BY <2>1, <3>1
  <2>4. \A e \in RealEntries(X) : \E x \in D : f[x] = e
    BY <2>1, EntryFacts DEF D
  <2> QED
    BY <2>2, <2>3, <2>4 DEF Bijection, Injection, Surjection, IsInjective
<1>2. IsFiniteSet(D)
  BY FS_Subset
<1> HIDE DEF f, D
<1>3. Cardinality(RealEntries(X)) = Cardinality(D)
  BY <1>1, <1>2, FS_Bijection DEF ExistsBijection
<1> QED
  BY <1>3 DEF D

LEMMA StashFacts ==
    ArraysInv => (pc # "unbuilt" => stash \subseteq Xset /\ Cardinality(stash) = StashSize)
<1> SUFFICES ASSUME ArraysInv, pc # "unbuilt"
             PROVE  stash \subseteq Xset /\ Cardinality(stash) = StashSize
  OBVIOUS
<1> DEFINE C == Compacted(builder_order)
<1>1. /\ stash = {builder_order[i] : i \in C \ cht}
      /\ Cardinality(C \ cht) = StashSize
  BY DEF ArraysInv, Tabled
<1>2. {builder_order[i] : i \in C} = Xset /\ C \subseteq Position
  BY DEF ArraysInv, Placed, Compacted
<1>3. \A i, j \in C \ cht : builder_order[i] = builder_order[j] => i = j
  BY DEF ArraysInv, Placed
<1>4. C \ cht \in SUBSET Position
  BY <1>2
<1> HIDE DEF C
<1>5. Cardinality({builder_order[i] : i \in C \ cht}) = Cardinality(C \ cht)
  BY <1>3, <1>4, ImageSize
<1> QED
  BY <1>1, <1>2, <1>5

(* The receivers hold every element once.                                  *)
LEMMA ReceiverFacts ==
    ASSUME ArraysInv, pc # "unbuilt"
    PROVE  /\ \A r \in Position : receiver_order[r] # nullptr => receiver_order[r] \in Xset
           /\ \A x \in Xset : \E r \in Position : receiver_order[r] = x
           /\ \A r, s \in Position :
                 receiver_order[r] = receiver_order[s] /\ receiver_order[r] # nullptr => r = s
           /\ touched \subseteq Position
           /\ Xset \subseteq Addr \cup Label /\ nullptr \notin Addr \cup Label
<1>1. PICK p : /\ Locates(receiver_shuffle, p)
              /\ \A i \in Position : receiver_order[p[i]] = builder_order[i]
  BY BuiltFacts
<1>2. /\ p \in [Position -> Position]
      /\ \A j \in Position : \E i \in Position : p[i] = j
  BY <1>1 DEF Locates
<1>3. {builder_order[i] : i \in Compacted(builder_order)} = Xset
  BY DEF ArraysInv, Placed
<1>4. \A i, j \in Compacted(builder_order) : builder_order[i] = builder_order[j] => i = j
  BY DEF ArraysInv, Placed
<1>5. \A i \in Position : i \in Compacted(builder_order) <=> builder_order[i] # nullptr
  BY DEF Compacted
<1>6. ASSUME NEW r \in Position, receiver_order[r] # nullptr PROVE receiver_order[r] \in Xset
  <2>1. PICK i \in Position : p[i] = r
    BY <1>2
  <2> QED
    BY <1>1, <1>3, <1>5, <1>6, <2>1
<1>7. ASSUME NEW x \in Xset PROVE \E r \in Position : receiver_order[r] = x
  <2>1. PICK i \in Compacted(builder_order) : builder_order[i] = x
    BY <1>3
  <2>2. i \in Position
    BY DEF Compacted
  <2> QED
    BY <1>1, <1>2, <2>1, <2>2
<1>8. ASSUME NEW r \in Position, NEW s \in Position,
             receiver_order[r] = receiver_order[s], receiver_order[r] # nullptr
      PROVE  r = s
  <2>1. PICK i \in Position : p[i] = r
    BY <1>2
  <2>2. PICK j \in Position : p[j] = s
    BY <1>2
  <2>3. i = j
    BY <1>1, <1>4, <1>5, <1>8, <2>1, <2>2
  <2> QED
    BY <2>1, <2>2, <2>3
<1>9. touched \subseteq Position
  BY DEF ArraysInv, TypeOK
<1> QED
  BY <1>6, <1>7, <1>8, <1>9, XsetFacts, OHTableArrayAssumption

LEMMA TableFacts == ASSUME ArraysInv, pc # "unbuilt" PROVE TheTable # nullptr
<1>1. seen \subseteq Addr /\ query_count \in Nat /\ NumElements \in Nat
  BY PositionFacts DEF ArraysInv, TypeOK
<1>2. TheTable \in Table
  BY <1>1, EntryFacts DEF TheTable, Table
<1> QED
  BY <1>2, OHTableArrayAssumption

LEMMA SameOperators ==
    /\ \A S : Service!Cardinality(S) = Cardinality(S)
    /\ \A H : Service!XorAll(H) = XorAll(H)
    /\ Service!Entry = Entry
<1>1. \A S : Service!Cardinality(S) = Cardinality(S)
  BY DEF Service!Cardinality, Cardinality
<1>2. ASSUME NEW H PROVE Service!XorAll(H) = XorAll(H)
  BY <1>1 DEF Service!XorAll, XorAll, Service!Bit, Bit
<1>3. Service!Entry = Entry
  BY DEF Service!Entry, Entry, Service!Word, Word, Service!Bit, Bit
<1> QED
  BY <1>1, <1>2, <1>3

LEMMA InitTable == Init => Service!ServiceInit
BY DEF Init, Service!ServiceInit

LEMMA BuildRefines ==
    ASSUME ArraysInv, ArraysInv', BuildArrays
    PROVE  Service!ServiceBuild
<1> DEFINE E == RealEntries(Xset)
           S == RealEntries(stash')
<1>1. /\ pc = "unbuilt" /\ pc' = "built" /\ y' = y /\ found' = found
      /\ query_count' = 0 /\ seen' = {}
  BY DEF BuildArrays, ArraysInv, TypeOK
<1>2. stash' \subseteq Xset /\ Cardinality(stash') = StashSize
  <2>1. ArraysInv' => (pc # "unbuilt" => stash \subseteq Xset /\ Cardinality(stash) = StashSize)'
    BY StashFacts, PTL
  <2> QED
    BY <1>1, <2>1
<1>3. {receiver_order'[i] : i \in touched'} = stash'
  BY DEF BuildArrays
<1>4. E \in SUBSET Entry /\ S \in SUBSET E
  BY <1>2, EntryFacts
<1>5. \A e, f \in E : e.x = f.x => e = f
  BY EntryFacts
<1>6. IsStash(S, E, NumElements)
  <2>1. IsFiniteSet(stash') /\ IsFiniteSet(Xset) /\ Cardinality(Xset) = NumElements
    BY <1>2, XsetFacts, FS_Subset
  <2>2. Cardinality(S) = Cardinality(stash' \cap Addr)
    BY <2>1, EntriesSize
  <2>3. Cardinality(E) = Cardinality(Xset \cap Addr)
    BY <2>1, EntriesSize
  <2>4. Cardinality(stash' \ Addr) = StashSize - Cardinality(stash' \cap Addr)
    BY <1>2, <2>1, FS_Difference
  <2>5. Cardinality(Xset \ Addr) = NumElements - Cardinality(Xset \cap Addr)
    BY <2>1, FS_Difference
  <2>6. Cardinality(stash' \ Addr) =< Cardinality(Xset \ Addr)
    <3>1. stash' \ Addr \in SUBSET (Xset \ Addr)
      BY <1>2
    <3>2. IsFiniteSet(Xset \ Addr)
      BY <2>1, FS_Difference
    <3> QED
      BY <3>1, <3>2, FS_Subset
  <2>7. /\ Cardinality(stash' \cap Addr) \in Nat /\ Cardinality(Xset \cap Addr) \in Nat
        /\ Cardinality(stash' \ Addr) \in Nat
    <3>1. /\ IsFiniteSet(stash' \cap Addr) /\ IsFiniteSet(Xset \cap Addr)
          /\ IsFiniteSet(stash' \ Addr)
      BY <2>1, FS_Subset
    <3> QED
      BY <3>1, FS_CardinalityType
  <2> QED
    BY <1>4, <2>2, <2>3, <2>4, <2>5, <2>6, <2>7, PositionFacts DEF IsStash
<1>7. TheTable' = Build(E, S, NumElements)
  <2>1. {e.x : e \in S} = stash' \cap Addr
    BY EntryFacts
  <2> HIDE DEF S
  <2>2. TheTable' = [elements |-> E, stash |-> S, touched |-> stash' \cap Addr, seen |-> {},
                     query_count |-> 0, num_elements |-> NumElements]
    BY <1>1, <1>3, XsetFacts DEF TheTable, S
  <2> QED
    BY <2>1, <2>2 DEF Build
<1> HIDE DEF E, S
<1>8. (IF pc' = "unbuilt" THEN nullptr ELSE TheTable') = Build(E, S, NumElements)
  BY <1>1, <1>7
<1>9. Service!IsStash(S, E, NumElements) /\ Build(E, S, NumElements) = Service!Build(E, S, NumElements)
  BY <1>6, SameOperators DEF Service!Build, Build, Service!IsStash, IsStash
<1>10. E \in SUBSET Service!Entry
  BY <1>4, SameOperators
<1>11. UNCHANGED <<y, found, IF pc = "drained" THEN RealEntries(extracted) ELSE nullptr>>
  BY <1>1
<1> QED
  BY <1>1, <1>4, <1>5, <1>8, <1>9, <1>10, <1>11 DEF Service!ServiceBuild

(* What the cuckoo lookup finds is the element of the table.               *)
LEMMA HitFacts ==
    ASSUME ArraysInv, NEW x \in Addr, NEW use_dummy \in BOOLEAN, Asks(x, use_dummy)
    PROVE  Service!Hit(TheTable, x, use_dummy) =
             IF InTable(x, use_dummy) = {} THEN {} ELSE {EntryOf(x)}
<1> DEFINE H == Service!Hit(TheTable, x, use_dummy)
           C == Compacted(builder_order)
<1>1. pc # "unbuilt"
  BY DEF Asks
<1>2. /\ cht \subseteq C /\ stash = {builder_order[i] : i \in C \ cht}
      /\ {builder_order[i] : i \in C} = Xset
      /\ \A i, j \in C : builder_order[i] = builder_order[j] => i = j
  BY <1>1 DEF ArraysInv, Placed, Tabled
<1>3. H = {e \in RealEntries(Xset) \ RealEntries(stash) : ~use_dummy /\ e.x = x}
  BY XsetFacts DEF Service!Hit, TheTable
<1>4. \A e : e \in H <=> e = EntryOf(x) /\ ~use_dummy /\ x \in Xset /\ x \notin stash
  <2> HIDE DEF H
  <2> TAKE e
  <2>1. ASSUME e \in H PROVE e = EntryOf(x) /\ ~use_dummy /\ x \in Xset /\ x \notin stash
    <3>1. e \in RealEntries(Xset) /\ e \notin RealEntries(stash) /\ ~use_dummy /\ e.x = x
      BY <1>3, <2>1
    <3>2. PICK z \in Xset \cap Addr : e = EntryOf(z)
      BY <3>1, EntryFacts
    <3>3. z = x
      BY <3>1, <3>2, EntryFacts
    <3> QED
      BY <3>1, <3>2, <3>3, EntryFacts
  <2>2. ASSUME e = EntryOf(x), ~use_dummy, x \in Xset, x \notin stash PROVE e \in H
    BY <1>3, <2>2, EntryFacts
  <2> QED
    BY <2>1, <2>2
<1>5. InTable(x, use_dummy) # {} <=> ~use_dummy /\ x \in Xset /\ x \notin stash
  <2>1. ASSUME NEW i \in cht, ~use_dummy, builder_order[i] = x
        PROVE  x \in Xset /\ x \notin stash
    BY <1>2, <2>1
  <2>2. ASSUME ~use_dummy, x \in Xset, x \notin stash
        PROVE  \E i \in cht : ~use_dummy /\ builder_order[i] = x
    BY <1>2, <2>2
  <2> QED
    BY <2>1, <2>2 DEF InTable
<1> HIDE DEF H
<1>6. H = IF InTable(x, use_dummy) = {} THEN {} ELSE {EntryOf(x)}
  <2>1. CASE InTable(x, use_dummy) = {}
    BY <1>4, <1>5, <2>1
  <2>2. CASE InTable(x, use_dummy) # {}
    BY <1>4, <1>5, <2>2
  <2> QED
    BY <2>1, <2>2
<1> QED
  BY <1>6 DEF H

LEMMA QueryRefines ==
    ASSUME ArraysInv, NEW x \in Addr, NEW use_dummy \in BOOLEAN, Query(x, use_dummy)
    PROVE  Service!ServiceQuery
<1> DEFINE i == IndexBuilderOrder(x, use_dummy)
           r == IndexReceiverOrder(x, use_dummy)
           H == Service!Hit(TheTable, x, use_dummy)
           M == InTable(x, use_dummy)
<1>1. /\ Asks(x, use_dummy)
      /\ touched' = touched \cup {r} /\ r \notin touched
      /\ y' = YAt(r) /\ found' = (M # {})
      /\ query_count' = query_count + 1
      /\ seen' = (IF use_dummy THEN seen ELSE seen \cup {x})
      /\ pc' = pc /\ receiver_order' = receiver_order /\ stash' = stash
  BY DEF Query, arrays
<1>2. /\ pc = "built" /\ query_count < NumDummies /\ (use_dummy \/ x \notin seen)
      /\ query_count \in 0 .. NumDummies
  BY <1>1 DEF Asks, ArraysInv, TypeOK
<1>3. /\ \/ M = {} /\ i = dummy_indices[query_count] /\ query_count \in Dummy
         \/ i \in cht /\ ~use_dummy /\ builder_order[i] = x /\ M = {i}
      /\ i \in Position
  BY <1>1, IndexFacts
<1>4. r \in Position /\ receiver_order[r] = builder_order[i]
  <2>1. PICK p : /\ Locates(receiver_shuffle, p)
                /\ \A j \in Position : receiver_order[p[j]] = builder_order[j]
    BY <1>2, BuiltFacts
  <2>2. evaluate_at(receiver_shuffle, Total, i) = p[i] /\ p[i] \in Position
    BY <1>3, <2>1 DEF Locates
  <2> QED
    BY <1>3, <2>1, <2>2 DEF IndexReceiverOrder
<1>5. H = IF M = {} THEN {} ELSE {EntryOf(x)}
  BY <1>1, HitFacts
<1> HIDE DEF i, r, H, M
<1>6. M = {} => builder_order[i] = nullptr
  <2>1. {dummy_indices[k] : k \in Dummy} = Position \ Compacted(builder_order)
    BY <1>2 DEF ArraysInv, Placed
  <2> QED
    BY <1>3, <2>1 DEF Compacted
<1>7. M # {} => builder_order[i] = x /\ ~use_dummy
  BY <1>3
<1>8. x # nullptr /\ nullptr \notin Addr
  BY OHTableArrayAssumption
<1>9. {e.x : e \in H} = IF M = {} THEN {} ELSE {x}
  <2>1. EntryOf(x).x = x
    BY EntryFacts
  <2> QED
    BY <1>5, <2>1
<1>10. Service!ProbeAsserts(TheTable, x, use_dummy, NumDummies)
  <2>1. TheTable.query_count < NumDummies
    BY <1>2 DEF TheTable
  <2>2. TheTable.touched = {receiver_order[s] : s \in touched} \cap Addr
    BY DEF TheTable
  <2>3. ASSUME M # {} PROVE x \notin {receiver_order[s] : s \in touched}
    <3>1. receiver_order[r] = x
      BY <1>4, <1>7, <2>3
    <3>2. \A s \in Position : receiver_order[s] = x => s = r
      BY <1>2, <1>4, <1>8, <3>1, ReceiverFacts
    <3>3. touched \subseteq Position
      BY <1>2, ReceiverFacts
    <3> QED
      BY <1>1, <3>2, <3>3
  <2>4. \A e \in H : e.x \notin TheTable.touched
    BY <1>5, <2>2, <2>3, EntryFacts
  <2> QED
    BY <2>1, <2>4 DEF Service!ProbeAsserts, H
<1>11. TheTable' = Service!AfterProbe(TheTable, x, use_dummy)
  <2>1. {receiver_order'[s] : s \in touched'} \cap Addr =
          ({receiver_order[s] : s \in touched} \cap Addr) \cup {e.x : e \in H}
    <3>1. {receiver_order'[s] : s \in touched'} =
            {receiver_order[s] : s \in touched} \cup {receiver_order[r]}
      BY <1>1
    <3>2. {receiver_order[r]} \cap Addr = {e.x : e \in H}
      BY <1>4, <1>6, <1>7, <1>8, <1>9
    <3> QED
      BY <3>1, <3>2
  <2> DEFINE T == {receiver_order[s] : s \in touched} \cap Addr
             G == {e.x : e \in H}
  <2>2. TheTable' =
          [elements |-> RealEntries({Xs[k] : k \in DOMAIN Xs}), stash |-> RealEntries(stash),
           touched |-> T \cup G, seen |-> IF use_dummy THEN seen ELSE seen \cup {x},
           query_count |-> query_count + 1, num_elements |-> NumElements]
    BY <1>1, <2>1 DEF TheTable
  <2>3. Service!AfterProbe(TheTable, x, use_dummy) =
          [TheTable EXCEPT !.touched = @ \cup G,
                           !.seen = IF use_dummy THEN @ ELSE @ \cup {x},
                           !.query_count = @ + 1]
    BY DEF Service!AfterProbe, H
  <2>4. TheTable =
          [elements |-> RealEntries({Xs[k] : k \in DOMAIN Xs}), stash |-> RealEntries(stash),
           touched |-> T, seen |-> seen,
           query_count |-> query_count, num_elements |-> NumElements]
    BY DEF TheTable
  <2> HIDE DEF T, G
  <2> QED
    BY <2>2, <2>3, <2>4
<1>12. y' = Service!XorAll(H)
  <2>1. CASE M = {}
    <3>1. y' = {}
      BY <1>1, <1>4, <1>6, <2>1 DEF YAt
    <3> QED
      BY <1>5, <2>1, <3>1, OddOfNone, SameOperators DEF XorAll
  <2>2. CASE M # {}
    <3>1. y' = YOf[x]
      BY <1>1, <1>4, <1>7, <1>8, <2>2 DEF YAt
    <3>2. EntryOf(x).y = YOf[x] /\ YOf[x] \in Word
      BY EntryFacts
    <3>3. XorAll({EntryOf(x)}) = YOf[x]
      BY <3>2, OddOfOne DEF XorAll, Word
    <3> QED
      BY <1>5, <2>2, <3>1, <3>3, SameOperators
  <2> QED
    BY <2>1, <2>2
<1>13. found' = (H # {})
  BY <1>1, <1>5
<1>14. TheTable # nullptr /\ TheTable.seen = seen
  BY <1>2, TableFacts DEF TheTable
<1>15. /\ (IF pc = "unbuilt" THEN nullptr ELSE TheTable) = TheTable
       /\ (IF pc' = "unbuilt" THEN nullptr ELSE TheTable') = TheTable'
       /\ (IF pc = "drained" THEN RealEntries(extracted) ELSE nullptr) = nullptr
       /\ (IF pc' = "drained" THEN RealEntries(extracted') ELSE nullptr) = nullptr
  BY <1>1, <1>2
<1> QED
  BY <1>2, <1>10, <1>11, <1>12, <1>13, <1>14, <1>15 DEF Service!ServiceQuery, H

LEMMA ExtractRefines ==
    ASSUME ArraysInv, Extract
    PROVE  Service!ServiceExtract
<1>1. /\ pc = "built" /\ query_count = NumDummies /\ pc' = "drained"
      /\ extracted' = {receiver_order[i] : i \in Position \ touched}
      /\ touched' = touched /\ query_count' = query_count /\ seen' = seen
      /\ receiver_order' = receiver_order /\ stash' = stash
      /\ y' = y /\ found' = found
  BY DEF Extract, arrays
<1> DEFINE T == {receiver_order[s] : s \in touched}
<1>2. \A x \in Addr : x \in extracted' <=> x \in Xset /\ x \notin T
  <2> TAKE x \in Addr
  <2>1. x # nullptr
    BY OHTableArrayAssumption
  <2>2. /\ \A q \in Position : receiver_order[q] # nullptr => receiver_order[q] \in Xset
        /\ \A z \in Xset : \E q \in Position : receiver_order[q] = z
        /\ \A q, s \in Position :
              receiver_order[q] = receiver_order[s] /\ receiver_order[q] # nullptr => q = s
        /\ touched \subseteq Position
    BY <1>1, ReceiverFacts
  <2>3. ASSUME NEW q \in Position \ touched, receiver_order[q] = x PROVE x \in Xset /\ x \notin T
    BY <2>1, <2>2, <2>3
  <2>4. ASSUME x \in Xset, x \notin T
        PROVE  \E q \in Position \ touched : receiver_order[q] = x
    BY <2>2, <2>4
  <2> QED
    BY <1>1, <2>3, <2>4
<1>3. Service!Untouched(TheTable) = RealEntries(extracted')
  <2>1. /\ Service!Untouched(TheTable) = {e \in TheTable.elements : e.x \notin TheTable.touched}
        /\ TheTable.elements = RealEntries(Xset) /\ TheTable.touched = T \cap Addr
    BY XsetFacts DEF Service!Untouched, TheTable
  <2> HIDE DEF T
  <2>2. \A e : e \in Service!Untouched(TheTable) <=> e \in RealEntries(Xset) /\ e.x \notin T \cap Addr
    BY <2>1
  <2>3. ASSUME NEW e
        PROVE  e \in RealEntries(Xset) /\ e.x \notin T \cap Addr <=> e \in RealEntries(extracted')
    <3>1. ASSUME e \in RealEntries(Xset), e.x \notin T \cap Addr PROVE e \in RealEntries(extracted')
      <4>1. PICK x \in Xset \cap Addr : e = EntryOf(x)
        BY <3>1, EntryFacts
      <4>2. x \notin T
        BY <3>1, <4>1, EntryFacts
      <4>3. x \in extracted'
        BY <1>2, <4>1, <4>2
      <4> QED
        BY <4>1, <4>3, EntryFacts
    <3>2. ASSUME e \in RealEntries(extracted') PROVE e \in RealEntries(Xset) /\ e.x \notin T \cap Addr
      <4>1. PICK x \in extracted' \cap Addr : e = EntryOf(x)
        BY <3>2, EntryFacts
      <4>2. x \in Xset /\ x \notin T /\ e.x = x
        BY <1>2, <4>1, EntryFacts
      <4> QED
        BY <4>1, <4>2, EntryFacts
    <3> QED
      BY <3>1, <3>2
  <2> QED
    BY <2>2, <2>3
<1>4. TheTable' = TheTable
  BY <1>1 DEF TheTable
<1>5. Service!DrainAsserts(TheTable, NumDummies)
  BY <1>1 DEF Service!DrainAsserts, TheTable
<1>6. TheTable # nullptr
  BY <1>1, TableFacts
<1>7. /\ (IF pc = "unbuilt" THEN nullptr ELSE TheTable) = TheTable
      /\ (IF pc' = "unbuilt" THEN nullptr ELSE TheTable') = TheTable
      /\ (IF pc = "drained" THEN RealEntries(extracted) ELSE nullptr) = nullptr
      /\ (IF pc' = "drained" THEN RealEntries(extracted') ELSE nullptr) = RealEntries(extracted')
  BY <1>1, <1>4
<1> QED
  BY <1>1, <1>3, <1>5, <1>6, <1>7 DEF Service!ServiceExtract

(* The arrays implement the table the ORAM is modelled and proved with: a  *)
(* query returns the element whose q it shows or a zero, and what is       *)
(* extracted is what nobody asked for and is not stashed.                  *)
THEOREM ArraysRefineTable == Spec => ImplementsTable
<1>1. ASSUME ArraysInv, ArraysInv', [Next]_vars
      PROVE  [Service!ServiceNext]_<<IF pc = "unbuilt" THEN nullptr ELSE TheTable, y, found,
                IF pc = "drained" THEN RealEntries(extracted) ELSE nullptr>>
  <2>1. CASE BuildArrays
    BY <1>1, <2>1, BuildRefines DEF Service!ServiceNext
  <2>2. ASSUME NEW x \in Addr, NEW use_dummy \in BOOLEAN, Query(x, use_dummy)
        PROVE  Service!ServiceNext
    BY <1>1, <2>2, QueryRefines DEF Service!ServiceNext
  <2>3. CASE Extract
    BY <1>1, <2>3, ExtractRefines DEF Service!ServiceNext
  <2>4. CASE UNCHANGED vars
    BY <2>4 DEF vars, arrays, TheTable
  <2> QED
    BY <1>1, <2>1, <2>2, <2>3, <2>4 DEF Next
<1> QED
  BY <1>1, InitTable, ArraysInductive, PTL DEF Spec, ImplementsTable, Service!ServiceSpec
=============================================================================
