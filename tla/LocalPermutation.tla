-------------------------- MODULE LocalPermutation --------------------------
(***************************************************************************)
(* Permutations as arrays of Fisher-Yates swaps (LocalPermutation), and    *)
(* their composition over the three parties (ArrayShuffler): party p and   *)
(* its next party share one of the three and apply it to their two shares. *)
(* Arrays are functions on 0 .. n - 1.                                     *)
(***************************************************************************)
EXTENDS Integers

Swapped(arr, i, j) == [arr EXCEPT ![i] = arr[j], ![j] = arr[i]]

(* The swaps the constructor may draw for n positions.                     *)
FisherYates(n) == {fy \in [0 .. n - 1 -> 0 .. n - 1] : \A i \in 0 .. n - 1 : fy[i] =< i}

shuffle(fy, n, arr) ==
    LET from[i \in 1 .. n] == IF i = n THEN arr ELSE Swapped(from[i + 1], i, fy[i])
    IN from[1]

inverse_shuffle(fy, n, arr) ==
    LET upto[i \in 0 .. n - 1] == IF i = 0 THEN arr ELSE Swapped(upto[i - 1], i, fy[i])
    IN upto[n - 1]

Iota(n) == [i \in 0 .. n - 1 |-> i]

(* Mutant of evaluate_at: pi is computed with the swaps in the other order.*)
evaluate_at_forward(fy, n, i) == shuffle(fy, n, Iota(n))[i]
evaluate_at(fy, n, i) == inverse_shuffle(fy, n, Iota(n))[i]

forward(fys, n, arr) == shuffle(fys[3], n, shuffle(fys[2], n, shuffle(fys[1], n, arr)))
inverse(fys, n, arr) ==
    inverse_shuffle(fys[1], n, inverse_shuffle(fys[2], n, inverse_shuffle(fys[3], n, arr)))

(* Mutant of indices: the parties' permutations in the order of forward.   *)
indices_in_order(fys, n) ==
    inverse_shuffle(fys[3], n, inverse_shuffle(fys[2], n, inverse_shuffle(fys[1], n, Iota(n))))
indices(fys, n) == inverse(fys, n, Iota(n))
=============================================================================
