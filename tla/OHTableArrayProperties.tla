----------------------- MODULE OHTableArrayProperties -----------------------
(***************************************************************************)
(* The arrays of a hash table keep the promise of OHTableService, which is *)
(* how the ORAM sees it.                                                   *)
(***************************************************************************)
EXTENDS OHTableArray

(* The orders agree: what the builder calls position i is the receivers'   *)
(* position evaluate_at(i), the dummy indices are the positions of the     *)
(* dummies, each once, and the elements handed back as the stash are those *)
(* the cuckoo table leaves out.                                            *)
OrdersAgree ==
    pc # "unbuilt" =>
        /\ \A i \in Position :
              receiver_order[evaluate_at(receiver_shuffle, Total, i)] = builder_order[i]
        /\ {dummy_indices[k] : k \in DOMAIN dummy_indices} = Position \ Compacted(builder_order)
        /\ stash = {builder_order[i] : i \in Compacted(builder_order) \ cht}

(* No assertion of query or extract fails, whichever addresses are asked   *)
(* for and however dummy and real queries are mixed: the position of the   *)
(* answer is untouched, and as many are left in the end as have been put in*)
(* and not stashed, whatever the number of queries that found something.   *)
AssertsHold ==
    /\ \A x \in Addr, use_dummy \in BOOLEAN :
          Asks(x, use_dummy) => IndexReceiverOrder(x, use_dummy) \notin touched
    /\ pc = "built" /\ query_count = NumDummies =>
          Cardinality(Position \ touched) = NumElements - StashSize

(* The conjuncts of the inductive invariant behind them.                   *)
Xset == {Xs[i] : i \in 0 .. NumElements - 1}
Dummy == 0 .. NumDummies - 1

TypeOK ==
    /\ pc \in {"unbuilt", "built", "drained"}
    /\ query_count \in 0 .. NumDummies /\ seen \subseteq Addr
    /\ pc = "unbuilt" => query_count = 0 /\ seen = {} /\ touched = {}
    /\ pc # "unbuilt" =>
          /\ builder_order \in [Position -> Addr \cup Label \cup {nullptr}]
          /\ dummy_indices \in [Dummy -> Position]
          /\ receiver_shuffle \in FyArrays
          /\ touched \subseteq Position

(* Every element has one position, and every other one is a dummy's.       *)
Placed ==
    pc # "unbuilt" =>
        /\ {builder_order[i] : i \in Compacted(builder_order)} = Xset
        /\ \A i, j \in Compacted(builder_order) : builder_order[i] = builder_order[j] => i = j
        /\ {dummy_indices[k] : k \in Dummy} = Position \ Compacted(builder_order)
        /\ \A k, l \in Dummy : dummy_indices[k] = dummy_indices[l] => k = l

(* The cuckoo table holds all of the elements but those of the stash.      *)
Tabled ==
    pc # "unbuilt" =>
        /\ cht \subseteq Compacted(builder_order)
        /\ Cardinality(Compacted(builder_order) \ cht) = StashSize
        /\ stash = {builder_order[i] : i \in Compacted(builder_order) \ cht}
        /\ receiver_order = shuffle(receiver_shuffle, Total, builder_order)

(* What is marked: the stash, what has been asked for, and one dummy at    *)
(* most for each query, so that a position is marked for every query.      *)
Marked(i) == evaluate_at(receiver_shuffle, Total, i) \in touched

MarksCounted ==
    pc # "unbuilt" =>
        /\ \A i \in Compacted(builder_order) :
              Marked(i) <=> i \notin cht \/ builder_order[i] \in seen
        /\ \A k \in Dummy : Marked(dummy_indices[k]) => k < query_count
        /\ Cardinality(touched) = StashSize + query_count

Drained ==
    pc = "drained" =>
        /\ query_count = NumDummies
        /\ extracted = {receiver_order[i] : i \in Position \ touched}

ArraysInv == TypeOK /\ Placed /\ Tabled /\ MarksCounted /\ Drained

EntryOf(x) == [x |-> x, y |-> YOf[x]]
RealEntries(xs) == {EntryOf(x) : x \in xs \cap Addr}

TheTable ==
    [elements     |-> RealEntries({Xs[i] : i \in DOMAIN Xs}),
     stash        |-> RealEntries(stash),
     touched      |-> {receiver_order[i] : i \in touched} \cap Addr,
     seen         |-> seen,
     query_count  |-> query_count,
     num_elements |-> NumElements]

Service == INSTANCE OHTableService WITH
    t       <- IF pc = "unbuilt" THEN nullptr ELSE TheTable,
    drained <- IF pc = "drained" THEN RealEntries(extracted) ELSE nullptr

(* The arrays implement the table the ORAM is modelled with: a query finds *)
(* the element whose q it shows, its own y and no other, or a zero; what is*)
(* extracted is what nobody has asked for and is not stashed.              *)
ImplementsTable == Service!ServiceSpec
=============================================================================
