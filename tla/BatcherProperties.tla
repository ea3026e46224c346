------------------------- MODULE BatcherProperties --------------------------
(***************************************************************************)
(* What cleanse_bottom_level needs of the sort: the same elements, the     *)
(* dummies last, on every length and with every number of threads.         *)
(***************************************************************************)
EXTENDS Batcher

(* No element is lost, doubled or replaced by the zeros of a slot that no  *)
(* thread has computed: pairs have slots of their own, all of them within  *)
(* the circuit's copies, and the threads' sections cover them.             *)
Permutation ==
    /\ {arr[k].from : k \in Index} = Index
    /\ \A p, q \in Pairs : Slot(p) = Slot(q) => p = q
    /\ \A p \in Pairs : Slot(p) \in 0 .. Copies - 1

SortedBetween(lo, hi) == \A j, k \in lo .. hi : j < k /\ arr[j].dummy => arr[k].dummy

(* Before the layers of a chunk size, the chunks of half that size are     *)
(* sorted, all in the same direction; the last one may be cut short.       *)
ChunksSorted ==
    /\ pc = "gather" /\ size = chunk =>
          \A start \in {s \in Index : s % (chunk \div 2) = 0} :
              SortedBetween(start, Smaller(start + chunk \div 2, len) - 1)
    /\ pc = "done" => SortedBetween(0, len - 1)

-----------------------------------------------------------------------------
(* What makes these two inductive.  The dummies, and every position past   *)
(* the end of the array, which a pair that is cut short would meet: as a   *)
(* dummy there already is where the sort would put it, no pair is missed.  *)

Dummies == {k \in Nat : k >= len \/ arr[k].dummy}

Aligned(c) == {m * c : m \in Nat}
Block(start, c) == start .. start + c - 1

Sorted(X, start, c) == \A j, k \in Block(start, c) : j < k /\ j \in X => k \in X

(* The members of X in the block, or the others, are consecutive.          *)
Bitonic(X, start, c) ==
    \E p, q \in Nat :
        \/ \A k \in Block(start, c) : k \in X <=> p =< k /\ k < q
        \/ \A k \in Block(start, c) : k \in X <=> ~(p =< k /\ k < q)

TypeOK ==
    /\ len \in 2 .. MaxLen
    /\ arr \in [Index -> [dummy : BOOLEAN, from : Index]]
    /\ pc \in {"gather", "threads", "done", "aborted"}
    /\ chunk \in Nat /\ size \in 2 .. chunk
    /\ PowerOf2(chunk) /\ PowerOf2(size) /\ chunk \in Aligned(size)
    /\ running \subseteq Thread

(* While the threads run, each pair is in its slot, and the slots of the   *)
(* threads that have ended hold their pairs in order.                      *)
Computed ==
    pc = "threads" =>
        /\ \A t \in Thread : SectionLength(t) > 0
        /\ DOMAIN circuit_output = 0 .. Copies - 1
        /\ \A p \in Pairs : circuit_input[Slot(p)] = <<arr[First(p)], arr[Second(p)]>>
        /\ \A p \in Pairs : \A t \in Thread \ running : Slot(p) \in Section(t) =>
               circuit_output[Slot(p)] = CompareSwap(circuit_input[Slot(p)])

(* A chunk is about to be merged from its two sorted halves; or it is in   *)
(* blocks, each bitonic, with no dummy in one and a real element in a later*)
(* one; or it has been merged.                                             *)
Merging ==
    /\ pc \in {"gather", "threads"} /\ size = chunk =>
           \A start \in Aligned(Half) : Sorted(Dummies, start, Half)
    /\ pc \in {"gather", "threads"} /\ size < chunk =>
           /\ \A start \in Aligned(size) : Bitonic(Dummies, start, size)
           /\ \A whole \in Aligned(chunk), start \in Aligned(size) :
                  \A j, k \in Block(whole, chunk) :
                      j < start /\ start =< k /\ j \in Dummies => k \in Dummies
    /\ pc = "done" => len =< chunk /\ Sorted(Dummies, 0, chunk)

BatcherInv ==
    /\ TypeOK
    /\ {arr[k].from : k \in Index} = Index
    /\ Computed
    /\ Merging

-----------------------------------------------------------------------------
(* The sort returns, unless it has fewer pairs than threads: then it stops *)
(* at its first layer, with the array as it was.                           *)
SortEnds ==
    /\ Copies >= NumThreads => <>(pc = "done")
    /\ Copies < NumThreads => <>(pc = "aborted" /\ \A k \in Index : arr[k].from = k)
=============================================================================
