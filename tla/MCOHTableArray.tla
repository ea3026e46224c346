-------------------------- MODULE MCOHTableArray ----------------------------
(* A small hash table for TLC: two addresses and a relabelled dummy in it, *)
(* one address that is not.                                                *)
EXTENDS OHTableArrayProperties, TLC

CONSTANTS a1, a2, a3, d1

MCXs == 0 :> a1 @@ 1 :> a2 @@ 2 :> d1
MCYOf == a1 :> {1} @@ a2 :> {2} @@ a3 :> {1, 2} @@ d1 :> {}

(* The identity, two rotations that are not their own inverses, and a      *)
(* permutation that mixes elements and dummies.                            *)
MCFyArrays ==
    {fy \in FisherYates(Total) :
        \/ \A i \in Position : fy[i] = i
        \/ \A i \in Position : fy[i] = 0
        \/ \A i \in Position : fy[i] = (IF i = 0 THEN 0 ELSE i - 1)
        \/ \A i \in Position : fy[i] = i \div 2}
=============================================================================
