---------------------------- MODULE OHTableArray ----------------------------
(***************************************************************************)
(* A hash table down to the positions of its arrays: the builder's order,  *)
(* in which the cuckoo table and the dummy indices name elements, and the  *)
(* receivers' order, in which the elements are kept and marked as touched. *)
(* The builder knows one permutation less than it takes to connect them.   *)
(*                                                                         *)
(* q, x and y of an element move together, so one array stands for the     *)
(* three.  The cuckoo table maps the q of an element that is not stashed   *)
(* to its index; which elements it leaves out is the subject of OptimalCHT.*)
(* The three parties' copies of touched and of query_count are one.        *)
(***************************************************************************)
EXTENDS OHTable, LocalPermutation

CONSTANTS
    NumElements, NumDummies,   \* params.num_elements, params.num_dummies
    Xs,                        \* the x of every element: an address or a label
    Label,                     \* the x of the relabelled dummies among them
    YOf,                       \* their y
    FyArrays,                  \* bound: the swaps drawn for a permutation
    nullptr

Total == NumElements + NumDummies
Position == 0 .. Total - 1

ASSUME OHTableArrayAssumption ==
    /\ NumElements \in Nat /\ NumDummies \in Nat \ {0} /\ StashSize =< NumElements
    /\ Xs \in [0 .. NumElements - 1 -> Addr \cup Label] /\ Addr \cap Label = {}
    /\ \A i, j \in 0 .. NumElements - 1 : Xs[i] = Xs[j] => i = j
    /\ YOf \in [Addr \cup Label -> Word] /\ \A d \in Label : YOf[d] = {}
    /\ FyArrays \subseteq FisherYates(Total)
    /\ nullptr \notin Addr \cup Label /\ nullptr \notin Table

VARIABLES
    pc,                \* unbuilt, built or drained
    builder_order,     \* qs_, xs_ and ys_builder_order: an x at each position, or nullptr
    dummy_indices,
    cht,               \* the builder's positions in the cuckoo table
    receiver_shuffle,
    receiver_order,    \* xs_ and ys_receiver_order
    stash,             \* stash_xs, stash_ys: their x
    touched,           \* the receivers' positions that are marked
    query_count,
    seen,              \* the addresses whose q has been shown (history)
    y, found,          \* what the last query returned
    extracted          \* what extract returned, as a set of x

arrays == <<builder_order, dummy_indices, cht, receiver_shuffle, receiver_order, stash>>
vars == <<pc, builder_order, dummy_indices, cht, receiver_shuffle, receiver_order, stash,
          touched, query_count, seen, y, found, extracted>>

Init ==
    /\ pc = "unbuilt"
    /\ builder_order = <<>> /\ dummy_indices = <<>> /\ cht = {}
    /\ receiver_shuffle = <<>> /\ receiver_order = <<>> /\ stash = {}
    /\ touched = {} /\ query_count = 0 /\ seen = {}
    /\ y = {} /\ found = FALSE /\ extracted = {}

-----------------------------------------------------------------------------
(* The elements and, behind them, zeros for the dummies.                   *)
Padded == [i \in Position |-> IF i < NumElements THEN Xs[i] ELSE nullptr]

DummyIndices(fys) ==
    [k \in 0 .. NumDummies - 1 |-> indices(fys, Total)[NumElements + k]]

(* The builder keeps the positions whose q is not zero.                    *)
Compacted(order) == {i \in Position : order[i] # nullptr}

(* Mutant of StashPositions: indices are not converted to receiver order.  *)
StashPositionsBuilder(fy, S) == S
StashPositions(fy, S) == {evaluate_at(fy, Total, i) : i \in S}

BuildArrays ==
    /\ pc = "unbuilt"
    /\ \E fys \in [1 .. 3 -> FyArrays] :
         /\ builder_order' = forward(fys, Total, Padded)
         /\ dummy_indices' = DummyIndices(fys)
    /\ \E S \in SUBSET Compacted(builder_order'), fy \in FyArrays :
         /\ Cardinality(S) = StashSize
         /\ cht' = Compacted(builder_order') \ S
         /\ receiver_shuffle' = fy
         /\ receiver_order' = shuffle(fy, Total, builder_order')
         /\ touched' = StashPositions(fy, S)
         /\ stash' = {receiver_order'[i] : i \in StashPositions(fy, S)}
    /\ pc' = "built"
    /\ UNCHANGED <<query_count, seen, y, found, extracted>>

-----------------------------------------------------------------------------
(* query: the lookup yields an index in builder order, which the receivers *)
(* take to their own.                                                      *)
InTable(x, use_dummy) == {i \in cht : ~use_dummy /\ builder_order[i] = x}
IndexBuilderOrder(x, use_dummy) ==
    IF InTable(x, use_dummy) = {} THEN dummy_indices[query_count]
    ELSE CHOOSE i \in InTable(x, use_dummy) : TRUE
IndexReceiverOrder(x, use_dummy) ==
    evaluate_at(receiver_shuffle, Total, IndexBuilderOrder(x, use_dummy))

YAt(i) == IF receiver_order[i] = nullptr THEN {} ELSE YOf[receiver_order[i]]

(* The ORAM never shows a table the q of an address twice.                 *)
Asks(x, use_dummy) == pc = "built" /\ query_count < NumDummies /\ (use_dummy \/ x \notin seen)

Query(x, use_dummy) ==
    /\ Asks(x, use_dummy)
    /\ LET i == IndexReceiverOrder(x, use_dummy)
       IN /\ i \notin touched
          /\ touched' = touched \cup {i}
          /\ y' = YAt(i)
    /\ found' = (InTable(x, use_dummy) # {})
    /\ query_count' = query_count + 1
    /\ seen' = IF use_dummy THEN seen ELSE seen \cup {x}
    /\ UNCHANGED <<pc, arrays, extracted>>

Extract ==
    /\ pc = "built" /\ query_count = NumDummies
    /\ Cardinality(Position \ touched) = NumElements - StashSize
    /\ extracted' = {receiver_order[i] : i \in Position \ touched}
    /\ pc' = "drained"
    /\ UNCHANGED <<arrays, touched, query_count, seen, y, found>>

Next ==
    \/ BuildArrays
    \/ \E x \in Addr, use_dummy \in BOOLEAN : Query(x, use_dummy)
    \/ Extract

Spec == Init /\ [][Next]_vars
=============================================================================
