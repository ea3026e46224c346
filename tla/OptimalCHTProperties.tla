----------------------- MODULE OptimalCHTProperties ------------------------
(***************************************************************************)
(* What the lookups of a hash table rely on: every element is in the stash *)
(* or in one of its two slots and never in both, the stash has exactly its *)
(* length, and as few elements as possible are forced into it.             *)
(***************************************************************************)
EXTENDS OptimalCHT

(* Between two components no two edges point at the same vertex: turning   *)
(* the path of an extra edge up to the root has resolved the one conflict. *)
OneEdgePerVertex ==
    pc \in {"scan", "done"} =>
        \A e, f \in Edge : state[e] \in Vertex /\ state[e] = state[f] => e = f

(* No element is lost or doubled: a finished table holds each element that *)
(* is not stashed in a slot of its own choice, and holds no stashed one (it*)
(* would be found although it is marked as touched).                       *)
NothingLost ==
    pc = "done" =>
        /\ \A e \in Edge \ stash : \E v \in Ends(e) : table[v] = e
        /\ \A e \in stash : \A v \in Vertex : table[v] # e

-----------------------------------------------------------------------------
(* What makes these two inductive: the parents form a forest.  rank is the *)
(* order in which the vertices were found, of which there are n so far, so *)
(* that the tree being built is made of the last ones.                     *)

TypeOK ==
    /\ left \in [Edge -> 0 .. ColLen - 1]
    /\ right \in [Edge -> ColLen .. NumVertices - 1]
    /\ pc \in {"scan", "pop", "edges", "reorient", "done", "failed"}
    /\ starting_vertex \in 0 .. NumVertices
    /\ curr_vertex \in Vertex
    /\ dfs \in Seq(Vertex)
    /\ state \in [Edge -> Vertex \cup {UNVISITED, STASHED}]
    /\ parent_vertex \in [Vertex -> Vertex \cup {NONE, ROOT}]
    /\ parent_edge \in [Vertex -> Edge \cup {NONE, ROOT}]
    /\ extra_edge \in Edge \cup {NONE}
    /\ reorient \in Vertex

Found(v) == parent_vertex[v] # NONE
InTree(rank, v) == Found(v) /\ rank[starting_vertex] =< rank[v]

(* A vertex hangs from its parent, which was found before it, by an edge.  *)
Forest(rank) ==
    \A v \in Vertex :
        /\ parent_vertex[v] = ROOT => parent_edge[v] = ROOT
        /\ parent_vertex[v] \in Vertex =>
               /\ parent_edge[v] \in Edge
               /\ Ends(parent_edge[v]) = {v, parent_vertex[v]}
               /\ Found(parent_vertex[v])
               /\ rank[parent_vertex[v]] < rank[v]

(* The starting vertex is the root of the tree being built.                *)
Rooted(rank) ==
    pc \in {"pop", "edges", "reorient"} =>
        /\ starting_vertex \in Vertex
        /\ parent_vertex[starting_vertex] = ROOT
        /\ \A v \in Vertex : InTree(rank, v) /\ v # starting_vertex =>
               parent_vertex[v] \in Vertex /\ InTree(rank, parent_vertex[v])

(* An edge not visited yet has an end still to be popped, or none found.   *)
Pending(v) == (\E i \in 1 .. Len(dfs) : dfs[i] = v) \/ (pc = "edges" /\ v = curr_vertex)
SearchOpen(rank) ==
    /\ \A v \in Vertex : v < starting_vertex => Found(v)
    /\ pc \notin {"pop", "edges"} => dfs = <<>>
    /\ \A v \in Vertex : Pending(v) => InTree(rank, v)
    /\ \A e \in Edge : state[e] = UNVISITED =>
           \A v \in Ends(e) : Found(v) => Pending(v)

(* An edge points at one of its ends; no other edge points there, except   *)
(* in the tree being built and, when that is turned, where the turn is.    *)
Oriented(rank) ==
    /\ \A e \in Edge : state[e] \in Vertex => state[e] \in Ends(e) /\ Found(state[e])
    /\ \A e, f \in Edge : state[e] \in Vertex /\ state[e] = state[f] /\ e # f =>
           \/ pc \in {"pop", "edges"} /\ InTree(rank, state[e])
           \/ pc = "reorient" /\ state[e] = reorient

(* While the tree grows its edges point away from the root, and only the   *)
(* extra edge meets one of them.                                           *)
Growing(rank) ==
    pc \in {"pop", "edges"} =>
        /\ extra_edge # NONE =>
               state[extra_edge] \in Vertex /\ InTree(rank, state[extra_edge])
        /\ \A v \in Vertex : InTree(rank, v) =>
               /\ v # starting_vertex => state[parent_edge[v]] = v
               /\ \A e \in Edge : state[e] = v => e \in {parent_edge[v], extra_edge}

(* While a path is turned, what is found no later than the turn is as it   *)
(* was, and one edge more than the vertex' own points at the turn.         *)
Turning(rank) ==
    pc = "reorient" =>
        /\ InTree(rank, reorient)
        /\ \A v \in Vertex : InTree(rank, v) /\ rank[v] =< rank[reorient] =>
               /\ v # starting_vertex => state[parent_edge[v]] = v
               /\ v # reorient => \A e \in Edge : state[e] = v => e = parent_edge[v]
        /\ \E x \in Edge : \A e \in Edge :
               state[e] = reorient => e \in {parent_edge[reorient], x}

(* What the assembly makes of it.                                          *)
Assembled ==
    pc = "done" =>
        /\ Marked \subseteq stash
        /\ stash \subseteq Edge
        /\ \A e \in Edge : state[e] # UNVISITED
        /\ \A v \in Vertex :
               LET placed == {e \in Edge \ stash : state[e] = v}
               IN table[v] = IF placed = {} THEN NONE ELSE Max(placed)

Shape(rank, n) ==
    /\ \A v \in Vertex : Found(v) => rank[v] < n
    /\ Forest(rank) /\ Rooted(rank) /\ SearchOpen(rank)
    /\ Oriented(rank) /\ Growing(rank) /\ Turning(rank)

CHTInv == TypeOK /\ Assembled /\ \E rank \in [Vertex -> Nat], n \in Nat : Shape(rank, n)

-----------------------------------------------------------------------------
(* What makes the search optimal: full is the set of vertices of finished  *)
(* components with an extra edge, each of which an edge points at, and     *)
(* grown that of the component being searched.  A visited edge does not    *)
(* leave either set, and a marked one lies where there is an extra edge.   *)
Searching == pc \in {"pop", "edges", "reorient"}

Components(full, grown) ==
    /\ full \cap grown = {}
    /\ \A v \in full \cup grown : Found(v)
    /\ ~Searching => grown = {}
    /\ \A v \in Vertex : Pending(v) => v \in grown
    /\ \A e \in Edge : state[e] # UNVISITED =>
           /\ Found(left[e]) /\ Found(right[e])
           /\ left[e] \in full <=> right[e] \in full
           /\ left[e] \in grown <=> right[e] \in grown

Covered(full, grown) ==
    /\ \A v \in full : \E e \in Edge : state[e] = v
    /\ \A v \in grown : v # starting_vertex => \E e \in Edge : state[e] = v
    /\ pc = "reorient" =>
           /\ reorient \in grown
           /\ \E x \in Edge : state[x] = reorient /\ x # parent_edge[reorient]

Extra(full, grown) ==
    /\ \A v \in Vertex : parent_edge[v] \in Edge => state[parent_edge[v]] # UNVISITED
    /\ Searching /\ extra_edge # NONE =>
           /\ pc # "reorient" => state[extra_edge] \in grown
           /\ \A v \in Vertex : parent_edge[v] # extra_edge
    /\ pc = "reorient" => extra_edge # NONE
    /\ \A e \in Marked :
           left[e] \in full \/ (Searching /\ extra_edge # NONE /\ left[e] \in grown)

Stashed ==
    /\ pc \in {"done", "failed"} => starting_vertex = NumVertices
    /\ pc = "done" => stash = Marked \cup Filler /\ StashFits
    /\ pc = "failed" => ~StashFits

Spread(full, grown) ==
    Components(full, grown) /\ Covered(full, grown) /\ Extra(full, grown)

StashInv == Stashed /\ \E full, grown \in SUBSET Vertex : Spread(full, grown)

-----------------------------------------------------------------------------
(* By the deficiency version of Hall's theorem this many elements must be  *)
(* left out of any placement.                                              *)
Deficiency ==
    Max({Cardinality(G) - Cardinality(UNION {Ends(e) : e \in G}) : G \in SUBSET Edge})

(* The search is optimal: it marks no element it could have placed, so     *)
(* that a build fails only where every placement would; and the stash a    *)
(* build returns has the one length its caller allocated.                  *)
StashMinimal ==
    pc \in {"done", "failed"} =>
        /\ Cardinality(Marked) = Deficiency
        /\ pc = "done" => Cardinality(stash) = StashLength
        /\ pc = "failed" => Deficiency > StashLength \/ NumEdges < StashLength

(* The search and the walk to the root both end.                           *)
BuildEnds == <>(pc \in {"done", "failed"})
=============================================================================
