------------------------------ MODULE OHTable ------------------------------
(***************************************************************************)
(* One oblivious hash table (class OHTable_array) as its three parties     *)
(* share it.  The table is built once from num_elements elements, answers  *)
(* exactly num_dummies queries, each of which touches one position, and is *)
(* then drained: the untouched positions that are left are the elements    *)
(* nobody asked for.                                                       *)
(*                                                                         *)
(* Positions are abstracted: a real element is named by its address, and   *)
(* the positions of dummies (the num_dummies ones appended by build, of    *)
(* which query k uses dummy_indices[k], and relabelled dummies among the   *)
(* elements) are only counted.  The pseudorandom function is an injection  *)
(* from addresses, so a revealed q is named by its address too, and a      *)
(* random block (fill_random) is nobody's q.                               *)
(***************************************************************************)
EXTENDS StupidLevel

CONSTANTS
    StashSize     \* params.stash_size: elements the cuckoo table leaves out

ASSUME StashAssumption == StashSize \in Nat /\ StashSize < LinearSize

(* elements : the real ones among xs_receiver_order, ys_receiver_order     *)
(* stash    : the real ones among stash_xs, stash_ys                       *)
(* touched  : the addresses whose position is marked in touched            *)
(* seen     : the addresses whose q the receivers have been shown (history)*)
Table == [elements : SUBSET Entry, stash : SUBSET Entry,
          touched : SUBSET Addr, seen : SUBSET Addr,
          query_count : Nat, num_elements : Nat]

(* The stashes the cuckoo build may leave for the real elements E of a     *)
(* table of n elements: StashSize elements, relabelled dummies included.   *)
IsStash(S, E, n) ==
    /\ S \subseteq E
    /\ Cardinality(S) =< StashSize
    /\ StashSize =< Cardinality(S) + (n - Cardinality(E))

(* Mutant of Build: the stash counts as queries, as a line the code has    *)
(* commented out would have it.                                            *)
BuildCountingStash(E, S, n) ==
    [elements |-> E, stash |-> S, touched |-> {e.x : e \in S}, seen |-> {},
     query_count |-> StashSize, num_elements |-> n]

(* build: stashed elements keep their position but are not in the cuckoo   *)
(* table, and are marked as if they had been queried already.              *)
Build(E, S, n) ==
    [elements |-> E, stash |-> S, touched |-> {e.x : e \in S}, seen |-> {},
     query_count |-> 0, num_elements |-> n]

(* query: what the cuckoo lookup of the revealed block finds.              *)
Hit(t, x, use_dummy) == {e \in t.elements \ t.stash : ~use_dummy /\ e.x = x}

(* The assertions of query: a dummy index is left, and the position found  *)
(* has not been touched before.                                            *)
ProbeAsserts(t, x, use_dummy, num_dummies) ==
    /\ t.query_count < num_dummies
    /\ \A e \in Hit(t, x, use_dummy) : e.x \notin t.touched

AfterProbe(t, x, use_dummy) ==
    [t EXCEPT !.touched = @ \cup {e.x : e \in Hit(t, x, use_dummy)},
              !.seen = IF use_dummy THEN @ ELSE @ \cup {x},
              !.query_count = @ + 1]

(* extract: every dummy index must have been spent.                        *)
DrainAsserts(t, num_dummies) == t.query_count = num_dummies
Untouched(t) == {e \in t.elements : e.x \notin t.touched}
=============================================================================
