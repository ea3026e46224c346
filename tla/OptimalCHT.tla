----------------------------- MODULE OptimalCHT -----------------------------
(***************************************************************************)
(* optimalcht::build: how the builder places the elements of a hash table  *)
(* in its two columns.  Every element is an edge between its slot in the   *)
(* left column and its slot in the right one, and orienting an edge        *)
(* towards a vertex places the element there.  A depth-first search orients*)
(* a spanning tree of each component away from its root, which leaves the  *)
(* root free for one more edge; all further edges are stashed.             *)
(*                                                                         *)
(* The hash functions' outputs are the input.  One action is one iteration *)
(* of a loop of the code; edges is walked in the order of the input, which *)
(* is the order in which the code has filled its adjacency lists.          *)
(***************************************************************************)
EXTENDS Integers, Sequences, FiniteSets, FiniteSetsExt

CONSTANTS
    NumEdges,      \* num_edges: the elements of input_array
    ColLen,        \* 1 << log_single_col_len
    StashLength    \* stash_indices.size()

ASSUME CHTAssumption ==
    /\ NumEdges \in Nat
    /\ ColLen \in Nat \ {0}
    /\ StashLength \in Nat

NONE      == -1
ROOT      == -2
UNVISITED == -3
STASHED   == -4

NumVertices == 2 * ColLen
Edge   == 0 .. NumEdges - 1
Vertex == 0 .. NumVertices - 1

VARIABLES
    left, right,     \* h0 and h1 of every element
    pc,              \* which loop the build is in
    starting_vertex, curr_vertex,
    dfs,             \* the stack, its top last
    state,           \* per edge: where it points, UNVISITED or STASHED
    parent_vertex, parent_edge,
    extra_edge,      \* the component's one edge outside its tree, or NONE
    reorient,        \* vertex_to_reorient_away_from
    table, stash     \* what the build hands back

hashes == <<left, right>>
tree == <<parent_vertex, parent_edge>>
out == <<table, stash>>
vars == <<left, right, pc, starting_vertex, curr_vertex, dfs, state,
          parent_vertex, parent_edge, extra_edge, reorient, table, stash>>

Ends(e) == {left[e], right[e]}
OtherEnd(e, v) == IF left[e] = v THEN right[e] ELSE left[e]

Init ==
    /\ left \in [Edge -> 0 .. ColLen - 1]
    /\ right \in [Edge -> ColLen .. NumVertices - 1]
    /\ pc = "scan" /\ starting_vertex = 0 /\ curr_vertex = 0 /\ dfs = <<>>
    /\ state = [e \in Edge |-> UNVISITED]
    /\ parent_vertex = [v \in Vertex |-> NONE]
    /\ parent_edge = [v \in Vertex |-> NONE]
    /\ extra_edge = NONE /\ reorient = 0
    /\ table = [v \in Vertex |-> NONE] /\ stash = {}

-----------------------------------------------------------------------------
(* The loop over starting vertices. *)

SkipVertex ==
    /\ pc = "scan" /\ starting_vertex < NumVertices
    /\ parent_vertex[starting_vertex] # NONE
    /\ starting_vertex' = starting_vertex + 1
    /\ UNCHANGED <<hashes, pc, curr_vertex, dfs, state, tree, extra_edge, reorient, out>>

StartTree ==
    /\ pc = "scan" /\ starting_vertex < NumVertices
    /\ parent_vertex[starting_vertex] = NONE
    /\ extra_edge' = NONE
    /\ parent_vertex' = [parent_vertex EXCEPT ![starting_vertex] = ROOT]
    /\ parent_edge' = [parent_edge EXCEPT ![starting_vertex] = ROOT]
    /\ dfs' = <<starting_vertex>>
    /\ pc' = "pop"
    /\ UNCHANGED <<hashes, starting_vertex, curr_vertex, state, reorient, out>>

-----------------------------------------------------------------------------
(* The search: a popped vertex has its unvisited edges oriented in turn.   *)

PopVertex ==
    /\ pc = "pop" /\ dfs # <<>>
    /\ curr_vertex' = dfs[Len(dfs)]
    /\ dfs' = SubSeq(dfs, 1, Len(dfs) - 1)
    /\ pc' = "edges"
    /\ UNCHANGED <<hashes, starting_vertex, state, tree, extra_edge, reorient, out>>

Unvisited == {e \in Edge : curr_vertex \in Ends(e) /\ state[e] = UNVISITED}
IsNext(e) == e \in Unvisited /\ \A f \in Unvisited : e =< f

TreeEdge(e) ==
    /\ pc = "edges" /\ IsNext(e)
    /\ LET v == OtherEnd(e, curr_vertex)
       IN /\ parent_vertex[v] = NONE
          /\ parent_vertex' = [parent_vertex EXCEPT ![v] = curr_vertex]
          /\ parent_edge' = [parent_edge EXCEPT ![v] = e]
          /\ state' = [state EXCEPT ![e] = v]
          /\ dfs' = Append(dfs, v)
    /\ UNCHANGED <<hashes, pc, starting_vertex, curr_vertex, extra_edge, reorient, out>>

(* Mutant of ExtraEdge: a component may have any number of extra edges.    *)
ExtraEdgeAgain(e) ==
    /\ pc = "edges" /\ IsNext(e)
    /\ parent_vertex[OtherEnd(e, curr_vertex)] # NONE
    /\ extra_edge' = e
    /\ state' = [state EXCEPT ![e] = OtherEnd(e, curr_vertex)]
    /\ UNCHANGED <<hashes, pc, starting_vertex, curr_vertex, dfs, tree, reorient, out>>

ExtraEdge(e) ==
    /\ pc = "edges" /\ IsNext(e)
    /\ parent_vertex[OtherEnd(e, curr_vertex)] # NONE
    /\ extra_edge = NONE
    /\ extra_edge' = e
    /\ state' = [state EXCEPT ![e] = OtherEnd(e, curr_vertex)]
    /\ UNCHANGED <<hashes, pc, starting_vertex, curr_vertex, dfs, tree, reorient, out>>

(* Mutant of StashEdge: the component's spare vertex is not used.          *)
StashEdgeAlways(e) ==
    /\ pc = "edges" /\ IsNext(e)
    /\ parent_vertex[OtherEnd(e, curr_vertex)] # NONE
    /\ state' = [state EXCEPT ![e] = STASHED]
    /\ UNCHANGED <<hashes, pc, starting_vertex, curr_vertex, dfs, tree, extra_edge, reorient, out>>

StashEdge(e) ==
    /\ pc = "edges" /\ IsNext(e)
    /\ parent_vertex[OtherEnd(e, curr_vertex)] # NONE
    /\ extra_edge # NONE
    /\ state' = [state EXCEPT ![e] = STASHED]
    /\ UNCHANGED <<hashes, pc, starting_vertex, curr_vertex, dfs, tree, extra_edge, reorient, out>>

LeaveVertex ==
    /\ pc = "edges" /\ Unvisited = {}
    /\ pc' = "pop"
    /\ UNCHANGED <<hashes, starting_vertex, curr_vertex, dfs, state, tree, extra_edge, reorient, out>>

-----------------------------------------------------------------------------
(* The tree is complete.  An extra edge pushes the edges on the path from  *)
(* the vertex it points at to the root one step up.                        *)

EndTree ==
    /\ pc = "pop" /\ dfs = <<>>
    /\ IF extra_edge = NONE
       THEN pc' = "scan" /\ UNCHANGED reorient
       ELSE pc' = "reorient" /\ reorient' = state[extra_edge]
    /\ starting_vertex' = IF extra_edge = NONE THEN starting_vertex + 1 ELSE starting_vertex
    /\ UNCHANGED <<hashes, curr_vertex, dfs, state, tree, extra_edge, out>>

(* Mutants of Reorient: the edge is left as it is; the walk does not move; *)
(* the walk does not stop at the root.                                     *)
ReorientWithoutTurning ==
    /\ pc = "reorient" /\ parent_vertex[reorient] # ROOT
    /\ reorient' = parent_vertex[reorient]
    /\ UNCHANGED <<hashes, pc, starting_vertex, curr_vertex, dfs, state, tree, extra_edge, out>>
ReorientInPlace ==
    /\ pc = "reorient" /\ parent_vertex[reorient] # ROOT
    /\ state' = [state EXCEPT ![parent_edge[reorient]] = parent_vertex[reorient]]
    /\ UNCHANGED <<hashes, pc, starting_vertex, curr_vertex, dfs, tree, extra_edge, reorient, out>>
Reorient ==
    /\ pc = "reorient" /\ parent_vertex[reorient] # ROOT
    /\ state' = [state EXCEPT ![parent_edge[reorient]] = parent_vertex[reorient]]
    /\ reorient' = parent_vertex[reorient]
    /\ UNCHANGED <<hashes, pc, starting_vertex, curr_vertex, dfs, tree, extra_edge, out>>

EndReorient ==
    /\ pc = "reorient" /\ parent_vertex[reorient] = ROOT
    /\ pc' = "scan"
    /\ starting_vertex' = starting_vertex + 1
    /\ UNCHANGED <<hashes, curr_vertex, dfs, state, tree, extra_edge, reorient, out>>

-----------------------------------------------------------------------------
(* Assembly *)

Marked == {e \in Edge : state[e] = STASHED}

(* stash_deficit: the first edges that are not marked fill the stash up.   *)
Filler ==
    {e \in Edge \ Marked :
        Cardinality({f \in Edge \ Marked : f < e}) < StashLength - Cardinality(Marked)}

(* The assertions: room for the marked edges, and no deficit at the end.   *)
StashFits == Cardinality(Marked) =< StashLength /\ StashLength =< NumEdges

Assemble ==
    /\ pc = "scan" /\ starting_vertex = NumVertices /\ StashFits
    /\ stash' = Marked \cup Filler
    /\ table' = [v \in Vertex |->
                    LET placed == {e \in Edge \ stash' : state[e] = v}
                    IN IF placed = {} THEN NONE ELSE Max(placed)]
    /\ pc' = "done"
    /\ UNCHANGED <<hashes, starting_vertex, curr_vertex, dfs, state, tree, extra_edge, reorient>>

Abort ==
    /\ pc = "scan" /\ starting_vertex = NumVertices /\ ~StashFits
    /\ pc' = "failed"
    /\ UNCHANGED <<hashes, starting_vertex, curr_vertex, dfs, state, tree, extra_edge, reorient, out>>

Search == SkipVertex \/ StartTree \/ PopVertex \/ LeaveVertex \/ EndTree
          \/ \E e \in Edge : TreeEdge(e) \/ ExtraEdge(e) \/ StashEdge(e)

Next == Search \/ Reorient \/ EndReorient \/ Assemble \/ Abort

(* Sequential code: a build that can take a step takes it.                 *)
Spec == Init /\ [][Next]_vars
FairSpec == Spec /\ WF_vars(Next)
=============================================================================
