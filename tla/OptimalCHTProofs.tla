-------------------------- MODULE OptimalCHTProofs --------------------------
(***************************************************************************)
(* The placement of the cuckoo build for every number of elements, table   *)
(* size and stash length, and every output of the hash functions: two      *)
(* elements never share a slot, none is lost, and the search marks no more *)
(* of them than every placement has to leave out.                          *)
(***************************************************************************)
EXTENDS OptimalCHTProperties, SequenceTheorems, FunctionTheorems, FiniteSetTheorems, TLAPS

-----------------------------------------------------------------------------
(* The marks are no vertices and no edges.                                 *)
LEMMA Marks ==
    /\ NONE \notin Vertex /\ ROOT \notin Vertex /\ UNVISITED \notin Vertex /\ STASHED \notin Vertex
    /\ NONE \notin Edge /\ ROOT \notin Edge
    /\ NONE # ROOT /\ UNVISITED # STASHED
    /\ Vertex \subseteq Nat /\ Edge \subseteq Nat /\ NumVertices \in Nat
    /\ \A v \in Vertex : v < NumVertices /\ v + 1 \in 0 .. NumVertices
    /\ \A v \in 0 .. NumVertices : v < NumVertices => v \in Vertex
    /\ 0 \in Vertex
BY CHTAssumption DEF NONE, ROOT, UNVISITED, STASHED, Vertex, Edge, NumVertices

(* An edge joins two vertices, of which each finds the other.              *)
LEMMA EndsFacts ==
    ASSUME TypeOK, NEW e \in Edge
    PROVE  /\ Ends(e) \subseteq Vertex
           /\ \A v \in Ends(e) : /\ OtherEnd(e, v) \in Ends(e) /\ OtherEnd(e, v) # v
                                 /\ Ends(e) = {v, OtherEnd(e, v)}
<1>1. left[e] \in 0 .. ColLen - 1 /\ right[e] \in ColLen .. NumVertices - 1
  BY DEF TypeOK
<1>2. left[e] \in Vertex /\ right[e] \in Vertex /\ left[e] # right[e]
  BY <1>1, CHTAssumption DEF Vertex, NumVertices
<1> QED
  BY <1>2 DEF Ends, OtherEnd

-----------------------------------------------------------------------------
(* Type correctness *)

LEMMA InitType == Init => TypeOK
<1> SUFFICES ASSUME Init PROVE TypeOK
  OBVIOUS
<1>1. dfs \in Seq(Vertex) /\ starting_vertex \in 0 .. NumVertices
  BY Marks DEF Init
<1>2. /\ state \in [Edge -> Vertex \cup {UNVISITED, STASHED}]
      /\ parent_vertex \in [Vertex -> Vertex \cup {NONE, ROOT}]
      /\ parent_edge \in [Vertex -> Edge \cup {NONE, ROOT}]
  BY DEF Init
<1> QED
  BY <1>1, <1>2, Marks DEF Init, TypeOK

LEMMA NextType ==
    ASSUME TypeOK, NEW rank, NEW n, Shape(rank, n), [Next]_vars
    PROVE  TypeOK'
<1> USE DEF TypeOK
<1>1. CASE SkipVertex
  BY <1>1, Marks DEF SkipVertex, hashes, tree, out
<1>2. CASE StartTree
  <2>1. starting_vertex \in Vertex
    BY <1>2, Marks DEF StartTree
  <2> QED
    BY <1>2, <2>1, Marks DEF StartTree, hashes, out
<1>3. CASE PopVertex
  <2>1. Len(dfs) \in 1 .. Len(dfs)
    BY <1>3 DEF PopVertex
  <2>2. curr_vertex' \in Vertex /\ dfs' \in Seq(Vertex)
    BY <1>3, <2>1 DEF PopVertex
  <2> QED
    BY <1>3, <2>2 DEF PopVertex, hashes, tree, out
<1>4. ASSUME NEW e \in Edge, TreeEdge(e) PROVE TypeOK'
  <2>1. curr_vertex \in Ends(e)
    BY <1>4 DEF TreeEdge, IsNext, Unvisited
  <2>2. OtherEnd(e, curr_vertex) \in Vertex
    BY <2>1, EndsFacts
  <2> QED
    BY <1>4, <2>2 DEF TreeEdge, hashes, out
<1>5. ASSUME NEW e \in Edge, ExtraEdge(e) PROVE TypeOK'
  <2>1. curr_vertex \in Ends(e)
    BY <1>5 DEF ExtraEdge, IsNext, Unvisited
  <2>2. OtherEnd(e, curr_vertex) \in Vertex
    BY <2>1, EndsFacts
  <2> QED
    BY <1>5, <2>2 DEF ExtraEdge, hashes, tree, out
<1>6. ASSUME NEW e \in Edge, StashEdge(e) PROVE TypeOK'
  BY <1>6 DEF StashEdge, hashes, tree, out
<1>7. CASE LeaveVertex
  BY <1>7 DEF LeaveVertex, hashes, tree, out
<1>8. CASE EndTree
  <2>1. starting_vertex \in Vertex
    BY <1>8 DEF EndTree, Shape, Rooted
  <2>2. extra_edge # NONE => state[extra_edge] \in Vertex
    BY <1>8 DEF EndTree, Shape, Growing
  <2> QED
    BY <1>8, <2>1, <2>2, Marks DEF EndTree, hashes, tree, out
<1>9. CASE Reorient
  <2>1. /\ parent_vertex[reorient] \in Vertex /\ parent_edge[reorient] \in Edge
    BY <1>9 DEF Reorient, Shape, Turning, InTree, Found, Forest
  <2> QED
    BY <1>9, <2>1 DEF Reorient, hashes, tree, out
<1>10. CASE EndReorient
  <2>1. starting_vertex \in Vertex
    BY <1>10 DEF EndReorient, Shape, Rooted
  <2> QED
    BY <1>10, <2>1, Marks DEF EndReorient, hashes, tree, out
<1>11. CASE Assemble \/ Abort
  BY <1>11 DEF Assemble, Abort, hashes, tree, out
<1>12. CASE UNCHANGED vars
  BY <1>12 DEF vars
<1> QED
  BY <1>1, <1>2, <1>3, <1>4, <1>5, <1>6, <1>7, <1>8, <1>9, <1>10, <1>11, <1>12
     DEF Next, Search

-----------------------------------------------------------------------------
(* The shape *)

LEMMA InitShape == Init => CHTInv
<1> SUFFICES ASSUME Init PROVE CHTInv
  OBVIOUS
<1>1. TypeOK
  BY InitType
<1>2. /\ \A v \in Vertex : parent_vertex[v] = NONE
      /\ \A e \in Edge : state[e] = UNVISITED
      /\ pc = "scan" /\ starting_vertex = 0 /\ dfs = <<>>
  BY DEF Init
<1> DEFINE rank == [v \in Vertex |-> 0]
<1>3. rank \in [Vertex -> Nat]
  OBVIOUS
<1> HIDE DEF rank
<1>4. \A v \in Vertex : ~Found(v) /\ ~Pending(v)
  BY <1>2 DEF Found, Pending
<1>5. Forest(rank) /\ Rooted(rank) /\ Growing(rank) /\ Turning(rank)
  BY <1>2, Marks DEF Forest, Rooted, Growing, Turning
<1>6. SearchOpen(rank)
  <2>1. \A e \in Edge : \A v \in Ends(e) : ~Found(v)
    BY <1>1, <1>4, EndsFacts
  <2>2. \A v \in Vertex : ~(v < starting_vertex)
    BY <1>2, Marks
  <2> QED
    BY <1>2, <1>4, <2>1, <2>2 DEF SearchOpen
<1>7. Oriented(rank)
  BY <1>2, Marks DEF Oriented
<1>8. Shape(rank, 0)
  BY <1>4, <1>5, <1>6, <1>7 DEF Shape
<1>9. Assembled
  BY <1>2 DEF Assembled
<1>10. \E r \in [Vertex -> Nat], n \in Nat : Shape(r, n)
  BY <1>3, <1>8
<1> QED
  BY <1>1, <1>9, <1>10 DEF CHTInv

(* Steps that find no vertex and point no edge keep what is known of them. *)
LEMMA SkipVertexShape ==
    ASSUME TypeOK, NEW rank \in [Vertex -> Nat], NEW n \in Nat, Shape(rank, n), SkipVertex
    PROVE  Shape(rank, n)'
<1>1. /\ pc = "scan" /\ starting_vertex \in Vertex /\ Found(starting_vertex)
      /\ starting_vertex' = starting_vertex + 1
      /\ UNCHANGED <<left, right, pc, curr_vertex, dfs, state, parent_vertex, parent_edge>>
  BY Marks DEF SkipVertex, hashes, tree, TypeOK, Found
<1>2. \A v : Found(v)' <=> Found(v)
  BY <1>1 DEF Found
<1>3. Forest(rank)' /\ Rooted(rank)' /\ Growing(rank)' /\ Turning(rank)'
  BY <1>1 DEF Shape, Forest, Rooted, Growing, Turning, Found, Ends
<1>4. \A v : ~Pending(v) /\ ~Pending(v)'
  BY <1>1 DEF Pending, Shape, SearchOpen
<1>5. SearchOpen(rank)'
  <2>1. \A v \in Vertex : v < starting_vertex' => v < starting_vertex \/ v = starting_vertex
    BY <1>1, Marks
  <2> QED
    BY <1>1, <1>2, <1>4, <2>1 DEF Shape, SearchOpen, Ends
<1>6. Oriented(rank)'
  BY <1>1 DEF Shape, Oriented, Found, Ends
<1> QED
  BY <1>2, <1>3, <1>5, <1>6 DEF Shape

LEMMA StartTreeShape ==
    ASSUME TypeOK, NEW rank \in [Vertex -> Nat], NEW n \in Nat, Shape(rank, n), StartTree
    PROVE  \E r \in [Vertex -> Nat], m \in Nat : Shape(r, m)'
<1>1. /\ pc = "scan" /\ pc' = "pop" /\ starting_vertex \in Vertex /\ ~Found(starting_vertex)
      /\ dfs' = <<starting_vertex>> /\ extra_edge' = NONE
      /\ UNCHANGED <<left, right, starting_vertex, curr_vertex, state>>
      /\ parent_vertex' = [parent_vertex EXCEPT ![starting_vertex] = ROOT]
      /\ parent_edge' = [parent_edge EXCEPT ![starting_vertex] = ROOT]
  BY Marks DEF StartTree, hashes, TypeOK, Found
<1>2. /\ parent_vertex'[starting_vertex] = ROOT /\ parent_edge'[starting_vertex] = ROOT
      /\ \A v \in Vertex : v # starting_vertex =>
             parent_vertex'[v] = parent_vertex[v] /\ parent_edge'[v] = parent_edge[v]
  BY <1>1 DEF TypeOK
<1>3. PICK r \in [Vertex -> Nat] :
        \A v \in Vertex : r[v] = IF v = starting_vertex THEN n ELSE rank[v]
  <2> DEFINE s == [v \in Vertex |-> IF v = starting_vertex THEN n ELSE rank[v]]
  <2>1. s \in [Vertex -> Nat]
    OBVIOUS
  <2> QED
    BY <2>1
<1>4. \A v \in Vertex : Found(v)' <=> (Found(v) \/ v = starting_vertex)
  BY <1>1, <1>2, Marks DEF Found
<1>5. \A v \in Vertex : Found(v) => rank[v] < n /\ v # starting_vertex
  BY <1>1 DEF Shape
<1>6. \A v \in Vertex : InTree(r, v)' <=> v = starting_vertex
  BY <1>1, <1>3, <1>4, <1>5 DEF InTree
<1>7. \A v \in Vertex : Pending(v)' <=> v = starting_vertex
  BY <1>1 DEF Pending
<1>8. \A v \in Vertex : ~Pending(v)
  BY <1>1 DEF Pending, Shape, SearchOpen
<1>9. Forest(r)'
  <2> SUFFICES ASSUME NEW v \in Vertex
               PROVE  /\ parent_vertex'[v] = ROOT => parent_edge'[v] = ROOT
                      /\ parent_vertex'[v] \in Vertex =>
                             /\ parent_edge'[v] \in Edge
                             /\ Ends(parent_edge[v])' = {v, parent_vertex'[v]}
                             /\ Found(parent_vertex[v])'
                             /\ r[parent_vertex'[v]] < r[v]
    BY DEF Forest
  <2>1. CASE v = starting_vertex
    BY <1>2, <2>1, Marks
  <2>2. CASE v # starting_vertex
    <3>0. PICK p : p = parent_vertex[v]
      OBVIOUS
    <3>1. parent_vertex'[v] = p /\ parent_edge'[v] = parent_edge[v]
      BY <1>2, <2>2, <3>0
    <3>2. p = ROOT => parent_edge[v] = ROOT
      BY <3>0 DEF Shape, Forest
    <3>3. ASSUME p \in Vertex
          PROVE  /\ parent_edge[v] \in Edge /\ Ends(parent_edge[v]) = {v, p}
                 /\ Found(p) /\ rank[p] < rank[v]
      BY <3>0, <3>3 DEF Shape, Forest
    <3>4. ASSUME p \in Vertex PROVE Found(p)' /\ r[p] < r[v]
      BY <1>3, <1>4, <1>5, <2>2, <3>3, <3>4
    <3>5. Ends(parent_edge[v])' = Ends(parent_edge[v])
      BY <1>1, <3>1 DEF Ends
    <3>6. Found(p)' <=> Found(parent_vertex[v])'
      BY <3>1 DEF Found
    <3> QED
      BY <3>1, <3>2, <3>3, <3>4, <3>5, <3>6
  <2> QED
    BY <2>1, <2>2
<1>10. Rooted(r)'
  BY <1>1, <1>2, <1>6 DEF Rooted
<1>11. SearchOpen(r)'
  <2>1. \A e \in Edge : state[e] = UNVISITED => \A v \in Ends(e) : ~Found(v)
    BY <1>8, EndsFacts DEF Shape, SearchOpen
  <2>2. \A e \in Edge : Ends(e)' = Ends(e) /\ Ends(e) \subseteq Vertex
    BY <1>1, EndsFacts DEF Ends
  <2> QED
    BY <1>1, <1>4, <1>6, <1>7, <2>1, <2>2 DEF Shape, SearchOpen
<1>12. Oriented(r)'
  <2>1. \A e \in Edge : state[e] \in Vertex => Found(state[e]) /\ state[e] \in Ends(e)
    BY DEF Shape, Oriented
  <2>2. \A e, f \in Edge : state[e] \in Vertex /\ state[e] = state[f] => e = f
    BY <1>1 DEF Shape, Oriented
  <2>3. \A e : Ends(e)' = Ends(e)
    BY <1>1 DEF Ends
  <2> QED
    BY <1>1, <1>4, <2>1, <2>2, <2>3 DEF Oriented
<1>13. Growing(r)'
  <2>1. \A e \in Edge : state[e] # starting_vertex
    BY <1>1 DEF Shape, Oriented
  <2> QED
    BY <1>1, <1>6, <2>1 DEF Growing
<1>14. Turning(r)'
  BY <1>1 DEF Turning
<1>15. Shape(r, n + 1)'
  <2>1. \A v \in Vertex : Found(v)' => r[v] < n + 1
    BY <1>3, <1>4, <1>5
  <2> QED
    BY <1>9, <1>10, <1>11, <1>12, <1>13, <1>14, <2>1 DEF Shape
<1> QED
  BY <1>3, <1>15

(* Steps that leave the forest alone.                                      *)
LEMMA TreeStill ==
    ASSUME NEW rank, NEW n, Shape(rank, n),
           UNCHANGED <<left, right, parent_vertex, parent_edge>>
    PROVE  /\ \A v : Found(v)' <=> Found(v)
           /\ \A e : Ends(e)' = Ends(e)
           /\ starting_vertex' = starting_vertex =>
                  \A v : InTree(rank, v)' <=> InTree(rank, v)
           /\ \A v \in Vertex : Found(v)' => rank[v] < n
           /\ Forest(rank)'
<1>1. (\A v : Found(v)' <=> Found(v)) /\ \A e : Ends(e)' = Ends(e)
  BY DEF Found, Ends
<1>2. starting_vertex' = starting_vertex => \A v : InTree(rank, v)' <=> InTree(rank, v)
  BY <1>1 DEF InTree
<1>3. Forest(rank)'
  BY DEF Shape, Forest, Found, Ends
<1> QED
  BY <1>1, <1>2, <1>3 DEF Shape

(* A popped vertex stays pending until its edges are done.                 *)
LEMMA PopPending ==
    ASSUME TypeOK, PopVertex
    PROVE  \A v \in Vertex : Pending(v)' <=> Pending(v)
<1>1. /\ pc = "pop" /\ pc' = "edges" /\ dfs # <<>> /\ dfs \in Seq(Vertex)
      /\ curr_vertex' = dfs[Len(dfs)] /\ dfs' = SubSeq(dfs, 1, Len(dfs) - 1)
  BY DEF PopVertex, TypeOK
<1>2. /\ Len(dfs) \in Nat /\ Len(dfs) >= 1 /\ Len(dfs') = Len(dfs) - 1
      /\ \A i \in 1 .. Len(dfs) - 1 : dfs'[i] = dfs[i]
  <2>1. Len(dfs) \in Nat /\ Len(dfs) # 0
    BY <1>1
  <2>2. Len(dfs) - 1 \in Nat /\ Len(dfs) - 1 =< Len(dfs)
    BY <2>1
  <2>3. /\ Len(SubSeq(dfs, 1, Len(dfs) - 1)) = Len(dfs) - 1
        /\ \A i \in 1 .. Len(dfs) - 1 : SubSeq(dfs, 1, Len(dfs) - 1)[i] = dfs[i]
    <3>1. PICK k \in Nat : k = Len(dfs) - 1 /\ k =< Len(dfs)
      BY <2>2
    <3>2. \A i \in 1 .. k : dfs[i] \in Vertex
      BY <1>1, <3>1
    <3>3. /\ Len(SubSeq(dfs, 1, k)) = IF 1 <= k THEN k - 1 + 1 ELSE 0
          /\ \A i \in 1 .. k - 1 + 1 : SubSeq(dfs, 1, k)[i] = dfs[1 + i - 1]
      BY <3>1, <3>2, SubSeqProperties
    <3>4. Len(SubSeq(dfs, 1, k)) = k
      BY <3>1, <3>3
    <3>5. \A i \in 1 .. k : SubSeq(dfs, 1, k)[i] = dfs[i]
      <4>1. k - 1 + 1 = k /\ \A i \in 1 .. k : 1 + i - 1 = i
        BY <3>1
      <4> QED
        BY <3>3, <4>1
    <3> QED
      BY <3>1, <3>4, <3>5
  <2> QED
    BY <1>1, <2>1, <2>3
<1> QED
  <2> TAKE v \in Vertex
  <2>1. Pending(v) <=> \E i \in 1 .. Len(dfs) : dfs[i] = v
    BY <1>1 DEF Pending
  <2>2. Pending(v)' <=> (\E i \in 1 .. Len(dfs) - 1 : dfs[i] = v) \/ v = dfs[Len(dfs)]
    BY <1>1, <1>2 DEF Pending
  <2>3. \A i : i \in 1 .. Len(dfs) <=> i \in 1 .. Len(dfs) - 1 \/ i = Len(dfs)
    BY <1>2
  <2> QED
    BY <2>1, <2>2, <2>3

LEMMA PopVertexShape ==
    ASSUME TypeOK, NEW rank \in [Vertex -> Nat], NEW n \in Nat, Shape(rank, n), PopVertex
    PROVE  Shape(rank, n)'
<1>1. /\ pc = "pop" /\ pc' = "edges" /\ dfs # <<>> /\ dfs \in Seq(Vertex)
      /\ curr_vertex' = dfs[Len(dfs)] /\ dfs' = SubSeq(dfs, 1, Len(dfs) - 1)
      /\ UNCHANGED <<left, right, starting_vertex, state, parent_vertex, parent_edge, extra_edge>>
  BY DEF PopVertex, hashes, tree, TypeOK
<1>3. \A v \in Vertex : Pending(v)' <=> Pending(v)
  BY PopPending
<1>4. Rooted(rank)' /\ Growing(rank)' /\ Turning(rank)' /\ Oriented(rank)'
  <2>1. Rooted(rank)'
    BY <1>1, TreeStill DEF Shape, Rooted
  <2>2. Growing(rank)'
    BY <1>1, TreeStill DEF Shape, Growing
  <2>3. Turning(rank)'
    BY <1>1 DEF Turning
  <2>4. Oriented(rank)'
    BY <1>1, TreeStill DEF Shape, Oriented
  <2> QED
    BY <2>1, <2>2, <2>3, <2>4
<1>5. SearchOpen(rank)'
  <2>1. \A e \in Edge : Ends(e) \subseteq Vertex
    BY EndsFacts
  <2> QED
    BY <1>1, <1>3, <2>1, TreeStill DEF Shape, SearchOpen
<1> QED
  BY <1>1, <1>4, <1>5, TreeStill DEF Shape

LEMMA LeaveVertexShape ==
    ASSUME TypeOK, NEW rank \in [Vertex -> Nat], NEW n \in Nat, Shape(rank, n), LeaveVertex
    PROVE  Shape(rank, n)'
<1>1. /\ pc = "edges" /\ pc' = "pop" /\ Unvisited = {}
      /\ UNCHANGED <<left, right, dfs, starting_vertex, curr_vertex, state,
                     parent_vertex, parent_edge, extra_edge>>
  BY DEF LeaveVertex, hashes, tree
<1>2. \A v : Pending(v) <=> Pending(v)' \/ v = curr_vertex
  BY <1>1 DEF Pending
<1>3. Rooted(rank)' /\ Growing(rank)' /\ Turning(rank)' /\ Oriented(rank)'
  BY <1>1, TreeStill DEF Shape, Rooted, Growing, Turning, Oriented
<1>4. SearchOpen(rank)'
  <2>1. \A e \in Edge : state[e] = UNVISITED => curr_vertex \notin Ends(e)
    BY <1>1 DEF Unvisited
  <2> QED
    BY <1>1, <1>2, <2>1, TreeStill DEF Shape, SearchOpen
<1> QED
  BY <1>1, <1>3, <1>4, TreeStill DEF Shape

(* An edge whose turn it is leads from the popped vertex to another one.   *)
LEMMA NextEdge ==
    ASSUME TypeOK, NEW rank, NEW n, Shape(rank, n), pc = "edges", NEW e \in Edge, IsNext(e),
           NEW v, v = OtherEnd(e, curr_vertex)
    PROVE  /\ state[e] = UNVISITED /\ v \in Vertex /\ v # curr_vertex /\ v \in Ends(e)
           /\ Ends(e) = {v, curr_vertex}
           /\ InTree(rank, curr_vertex)
           /\ Found(v) => InTree(rank, v)
<1>1. state[e] = UNVISITED /\ curr_vertex \in Ends(e) /\ curr_vertex \in Vertex
  BY DEF IsNext, Unvisited, TypeOK
<1>2. v \in Vertex /\ v \in Ends(e) /\ v # curr_vertex /\ Ends(e) = {v, curr_vertex}
  BY <1>1, EndsFacts
<1>3. InTree(rank, curr_vertex)
  BY <1>1 DEF Pending, Shape, SearchOpen
<1>4. Found(v) => InTree(rank, v)
  BY <1>1, <1>2 DEF Shape, SearchOpen
<1> QED
  BY <1>1, <1>2, <1>3, <1>4

LEMMA StashEdgeShape ==
    ASSUME TypeOK, NEW rank \in [Vertex -> Nat], NEW n \in Nat, Shape(rank, n),
           NEW e \in Edge, StashEdge(e)
    PROVE  Shape(rank, n)'
<1>1. /\ pc = "edges" /\ state[e] = UNVISITED
      /\ UNCHANGED <<left, right, pc, dfs, starting_vertex, curr_vertex,
                     parent_vertex, parent_edge, extra_edge>>
      /\ state' = [state EXCEPT ![e] = STASHED]
  BY DEF StashEdge, IsNext, Unvisited, hashes, tree
<1>2. /\ state'[e] = STASHED /\ \A f \in Edge : f # e => state'[f] = state[f]
  BY <1>1 DEF TypeOK
<1>3. \A v : Pending(v) <=> Pending(v)'
  BY <1>1 DEF Pending
<1>4. Rooted(rank)' /\ Turning(rank)'
  BY <1>1, TreeStill DEF Shape, Rooted, Turning
<1>5. \A f \in Edge : \A v \in Vertex : state'[f] = v <=> state[f] = v
  BY <1>1, <1>2, Marks
<1>6. Growing(rank)'
  <2>1. /\ extra_edge # NONE => extra_edge \in Edge
        /\ \A v \in Vertex : InTree(rank, v) /\ v # starting_vertex => parent_edge[v] \in Edge
    BY <1>1 DEF TypeOK, Shape, Rooted, Forest
  <2> QED
    BY <1>1, <1>5, <2>1, TreeStill DEF Shape, Growing
<1>7. SearchOpen(rank)'
  <2>1. \A f \in Edge : state'[f] = UNVISITED => state[f] = UNVISITED
    BY <1>1, <1>2, Marks
  <2> QED
    BY <1>1, <1>3, <2>1, TreeStill DEF Shape, SearchOpen
<1>8. Oriented(rank)'
  BY <1>1, <1>2, <1>5, TreeStill, Marks DEF Shape, Oriented
<1> QED
  BY <1>1, <1>4, <1>6, <1>7, <1>8, TreeStill DEF Shape

LEMMA ExtraEdgeShape ==
    ASSUME TypeOK, NEW rank \in [Vertex -> Nat], NEW n \in Nat, Shape(rank, n),
           NEW e \in Edge, ExtraEdge(e)
    PROVE  Shape(rank, n)'
<1>1. PICK w : w = OtherEnd(e, curr_vertex)
  OBVIOUS
<1>2. /\ pc = "edges" /\ IsNext(e) /\ Found(w) /\ extra_edge = NONE /\ extra_edge' = e
      /\ UNCHANGED <<left, right, pc, dfs, starting_vertex, curr_vertex,
                     parent_vertex, parent_edge>>
      /\ state' = [state EXCEPT ![e] = w]
  BY <1>1 DEF ExtraEdge, hashes, tree, Found
<1>3. state[e] = UNVISITED /\ w \in Vertex /\ w \in Ends(e) /\ InTree(rank, w)
  BY <1>1, <1>2, NextEdge
<1>4. /\ state'[e] = w /\ \A f \in Edge : f # e => state'[f] = state[f]
  BY <1>2 DEF TypeOK
<1>5. \A v : Pending(v) <=> Pending(v)'
  BY <1>2 DEF Pending
<1>6. Rooted(rank)' /\ Turning(rank)'
  BY <1>2, TreeStill DEF Shape, Rooted, Turning
<1>7. Growing(rank)'
  <2>1. \A v \in Vertex : InTree(rank, v) /\ v # starting_vertex =>
            parent_edge[v] \in Edge /\ parent_edge[v] # e /\ state[parent_edge[v]] = v
    BY <1>2, <1>3, Marks DEF Shape, Rooted, Forest, Growing
  <2>2. \A v \in Vertex : InTree(rank, v) => \A f \in Edge : state[f] = v => f = parent_edge[v]
    BY <1>2, Marks DEF Shape, Growing
  <2>3. \A v \in Vertex : InTree(rank, v) => \A f \in Edge : state'[f] = v =>
            f \in {parent_edge[v], e}
    BY <1>4, <2>2
  <2>4. \A v \in Vertex : InTree(rank, v) /\ v # starting_vertex => state'[parent_edge[v]] = v
    BY <1>4, <2>1
  <2> QED
    BY <1>2, <1>3, <1>4, <2>3, <2>4, TreeStill DEF Growing
<1>8. SearchOpen(rank)'
  <2>1. \A f \in Edge : state'[f] = UNVISITED => state[f] = UNVISITED
    BY <1>3, <1>4, Marks
  <2>2. /\ \A v : Found(v)' <=> Found(v)
        /\ \A v : InTree(rank, v)' <=> InTree(rank, v)
        /\ \A f : Ends(f)' = Ends(f)
    BY <1>2, TreeStill
  <2> QED
    BY <1>2, <1>5, <2>1, <2>2 DEF Shape, SearchOpen
<1>9. Oriented(rank)'
  <2>1. \A f \in Edge : state'[f] \in Vertex => state'[f] \in Ends(f) /\ Found(state'[f])
    BY <1>2, <1>3, <1>4 DEF Shape, Oriented
  <2>2. \A f, g \in Edge : state'[f] \in Vertex /\ state'[f] = state'[g] /\ f # g =>
            InTree(rank, state'[f])
    BY <1>2, <1>3, <1>4 DEF Shape, Oriented
  <2>3. \A f \in Edge : state'[f] \in Vertex => Found(state[f])'
    BY <1>2, <2>1 DEF Found
  <2>4. \A f \in Edge : InTree(rank, state'[f]) => InTree(rank, state[f])'
    BY <1>2 DEF InTree, Found
  <2> QED
    BY <1>2, <2>1, <2>2, <2>3, <2>4, TreeStill DEF Oriented
<1> QED
  BY <1>2, <1>6, <1>7, <1>8, <1>9, TreeStill DEF Shape

LEMMA TreeEdgeShape ==
    ASSUME TypeOK, NEW rank \in [Vertex -> Nat], NEW n \in Nat, Shape(rank, n),
           NEW e \in Edge, TreeEdge(e)
    PROVE  \E r \in [Vertex -> Nat], m \in Nat : Shape(r, m)'
<1>1. PICK v : v = OtherEnd(e, curr_vertex)
  OBVIOUS
<1>2. PICK c : c = curr_vertex
  OBVIOUS
<1>3. /\ pc = "edges" /\ IsNext(e) /\ ~Found(v) /\ dfs' = Append(dfs, v)
      /\ UNCHANGED <<left, right, pc, starting_vertex, curr_vertex, extra_edge>>
      /\ parent_vertex' = [parent_vertex EXCEPT ![v] = c]
      /\ parent_edge' = [parent_edge EXCEPT ![v] = e]
      /\ state' = [state EXCEPT ![e] = v]
  BY <1>1, <1>2 DEF TreeEdge, hashes, Found
<1>4. /\ state[e] = UNVISITED /\ v \in Vertex /\ v # c /\ v \in Ends(e)
      /\ Ends(e) = {v, c} /\ InTree(rank, c) /\ c \in Vertex
  BY <1>1, <1>2, <1>3, NextEdge DEF TypeOK
<1>5. /\ parent_vertex'[v] = c /\ parent_edge'[v] = e
      /\ \A w \in Vertex : w # v =>
             parent_vertex'[w] = parent_vertex[w] /\ parent_edge'[w] = parent_edge[w]
      /\ state'[e] = v /\ \A f \in Edge : f # e => state'[f] = state[f]
  BY <1>3, <1>4 DEF TypeOK
<1>6. PICK r \in [Vertex -> Nat] : \A w \in Vertex : r[w] = IF w = v THEN n ELSE rank[w]
  <2> DEFINE s == [w \in Vertex |-> IF w = v THEN n ELSE rank[w]]
  <2>1. s \in [Vertex -> Nat]
    OBVIOUS
  <2> QED
    BY <2>1
<1>7. \A w \in Vertex : Found(w)' <=> (Found(w) \/ w = v)
  BY <1>4, <1>5, Marks DEF Found
<1>8. \A w \in Vertex : Found(w) => rank[w] < n /\ w # v
  BY <1>3 DEF Shape
<1>9. /\ starting_vertex \in Vertex /\ parent_vertex[starting_vertex] = ROOT
      /\ starting_vertex # v
  BY <1>3, Marks DEF Shape, Rooted, Found
<1>10. \A w \in Vertex : InTree(r, w)' <=> (InTree(rank, w) \/ w = v)
  <2>1. /\ r[starting_vertex] = rank[starting_vertex] /\ rank[starting_vertex] < n
        /\ rank[starting_vertex] \in Nat
    BY <1>6, <1>8, <1>9, Marks DEF Found
  <2> TAKE w \in Vertex
  <2>2. InTree(r, w)' <=> Found(w)' /\ r[starting_vertex] =< r[w]
    BY <1>3 DEF InTree
  <2>3. CASE w = v
    BY <1>6, <1>7, <2>1, <2>2, <2>3
  <2>4. CASE w # v
    BY <1>6, <1>7, <2>1, <2>2, <2>4 DEF InTree
  <2> QED
    BY <2>3, <2>4
<1>11. \A w \in Vertex : Pending(w)' <=> (Pending(w) \/ w = v)
  <2>0. dfs \in Seq(Vertex) /\ dfs' = Append(dfs, v) /\ v \in Vertex
    BY <1>3, <1>4 DEF TypeOK
  <2>1. Len(dfs) \in Nat /\ Len(dfs') = Len(dfs) + 1
        /\ dfs'[Len(dfs) + 1] = v /\ \A i \in 1 .. Len(dfs) : dfs'[i] = dfs[i]
    BY <2>0
  <2>2. \A i : i \in 1 .. Len(dfs) + 1 <=> i \in 1 .. Len(dfs) \/ i = Len(dfs) + 1
    BY <2>1
  <2> TAKE w \in Vertex
  <2>3. (\E i \in 1 .. Len(dfs') : dfs'[i] = w) <=> (\E i \in 1 .. Len(dfs) : dfs[i] = w) \/ w = v
    BY <2>1, <2>2
  <2> QED
    BY <1>3, <2>3 DEF Pending
<1>12. \A f : Ends(f)' = Ends(f)
  BY <1>3 DEF Ends
<1>13. Forest(r)'
  <2> SUFFICES ASSUME NEW w \in Vertex
               PROVE  /\ parent_vertex'[w] = ROOT => parent_edge'[w] = ROOT
                      /\ parent_vertex'[w] \in Vertex =>
                             /\ parent_edge'[w] \in Edge
                             /\ Ends(parent_edge[w])' = {w, parent_vertex'[w]}
                             /\ Found(parent_vertex[w])'
                             /\ r[parent_vertex'[w]] < r[w]
    BY DEF Forest
  <2>1. CASE w = v
    <3>1. Ends(parent_edge[w])' = Ends(e)
      BY <1>3, <1>5, <2>1 DEF Ends
    <3>2. Found(c)' /\ r[c] < r[w]
      BY <1>4, <1>6, <1>7, <1>8, <2>1 DEF InTree
    <3>3. Found(c)' <=> Found(parent_vertex[w])'
      BY <1>5, <2>1 DEF Found
    <3> QED
      BY <1>4, <1>5, <2>1, <3>1, <3>2, <3>3, Marks
  <2>2. CASE w # v
    <3>0. PICK p : p = parent_vertex[w]
      OBVIOUS
    <3>1. parent_vertex'[w] = p /\ parent_edge'[w] = parent_edge[w]
      BY <1>5, <2>2, <3>0
    <3>2. p = ROOT => parent_edge[w] = ROOT
      BY <3>0 DEF Shape, Forest
    <3>3. ASSUME p \in Vertex
          PROVE  /\ parent_edge[w] \in Edge /\ Ends(parent_edge[w]) = {w, p}
                 /\ Found(p) /\ rank[p] < rank[w]
      BY <3>0, <3>3 DEF Shape, Forest
    <3>4. ASSUME p \in Vertex PROVE Found(p)' /\ r[p] < r[w]
      BY <1>6, <1>7, <1>8, <2>2, <3>3, <3>4
    <3>5. Ends(parent_edge[w])' = Ends(parent_edge[w])
      BY <1>3, <3>1 DEF Ends
    <3>6. Found(p)' <=> Found(parent_vertex[w])'
      BY <3>1 DEF Found
    <3> QED
      BY <3>1, <3>2, <3>3, <3>4, <3>5, <3>6
  <2> QED
    BY <2>1, <2>2
<1>14. Rooted(r)'
  <2>1. ASSUME NEW w \in Vertex, InTree(r, w)', w # starting_vertex
        PROVE  parent_vertex'[w] \in Vertex /\ InTree(r, parent_vertex[w])'
    <3>0. PICK p : p = parent_vertex'[w]
      OBVIOUS
    <3>1. p \in Vertex /\ InTree(r, p)'
      <4>1. CASE w = v
        BY <1>4, <1>5, <1>10, <3>0, <4>1
      <4>2. CASE w # v
        BY <1>3, <1>5, <1>10, <2>1, <3>0, <4>2 DEF Shape, Rooted
      <4> QED
        BY <4>1, <4>2
    <3> QED
      BY <3>0, <3>1 DEF InTree, Found
  <2> QED
    BY <1>3, <1>5, <1>9, <2>1 DEF Rooted
<1>15. SearchOpen(r)'
  <2>1. \A f \in Edge : Ends(f) \subseteq Vertex
    BY EndsFacts
  <2>2. \A f \in Edge : state'[f] = UNVISITED => state[f] = UNVISITED
    BY <1>4, <1>5, Marks
  <2>3. \A w \in Vertex : w < starting_vertex' => Found(w)'
    BY <1>3, <1>7 DEF Shape, SearchOpen
  <2>4. \A w \in Vertex : Pending(w)' => InTree(r, w)'
    BY <1>10, <1>11 DEF Shape, SearchOpen
  <2>5. \A f \in Edge : state'[f] = UNVISITED => \A w \in Ends(f) : Found(w)' => Pending(w)'
    BY <1>7, <1>11, <2>1, <2>2 DEF Shape, SearchOpen
  <2> QED
    BY <1>3, <1>12, <2>3, <2>4, <2>5 DEF SearchOpen
<1>16. \A f \in Edge : state[f] # v
  BY <1>3, <1>4 DEF Shape, Oriented
<1>17. Oriented(r)'
  <2>1. \A f \in Edge : state'[f] \in Vertex => state'[f] \in Ends(f)
    BY <1>4, <1>5 DEF Shape, Oriented
  <2>2. \A f \in Edge : state'[f] \in Vertex => Found(state[f])'
    <3> SUFFICES ASSUME NEW f \in Edge, NEW w \in Vertex, w = state'[f] PROVE Found(w)'
      BY DEF Found
    <3>1. f = e \/ Found(w)
      BY <1>5 DEF Shape, Oriented
    <3> QED
      BY <1>5, <1>7, <3>1
  <2>3. \A f, g \in Edge : state'[f] \in Vertex /\ state'[f] = state'[g] /\ f # g =>
            InTree(r, state[f])'
    <3> SUFFICES ASSUME NEW f \in Edge, NEW g \in Edge, NEW w \in Vertex,
                        w = state'[f], w = state'[g], f # g
                 PROVE  InTree(r, w)'
      BY DEF InTree, Found
    <3>1. f # e /\ g # e
      <4>1. \A h \in Edge : h # e => state'[h] # v
        BY <1>5, <1>16
      <4> QED
        BY <1>5, <4>1
    <3>2. InTree(rank, w)
      <4>1. state[f] = w /\ state[g] = w
        BY <1>5, <3>1
      <4>2. InTree(rank, state[f])
        BY <1>3, <4>1 DEF Shape, Oriented
      <4> QED
        BY <4>1, <4>2
    <3> QED
      BY <1>10, <3>2
  <2> QED
    BY <1>3, <1>12, <2>1, <2>2, <2>3 DEF Oriented
<1>18. Growing(r)'
  <2>1. ASSUME extra_edge # NONE
        PROVE  state'[extra_edge] \in Vertex /\ InTree(r, state[extra_edge])'
    <3>1. PICK w : w = state[extra_edge]
      OBVIOUS
    <3>2. w \in Vertex /\ InTree(rank, w) /\ extra_edge \in Edge /\ extra_edge # e
      BY <1>3, <1>4, <2>1, <3>1, Marks DEF Shape, Growing, TypeOK
    <3>3. state'[extra_edge] = w /\ InTree(r, w)'
      BY <1>5, <1>10, <3>1, <3>2
    <3> QED
      BY <1>3, <3>2, <3>3 DEF InTree, Found
  <2>2. ASSUME NEW w \in Vertex, InTree(r, w)'
        PROVE  /\ w # starting_vertex => state'[parent_edge'[w]] = w
               /\ \A f \in Edge : state'[f] = w => f \in {parent_edge'[w], extra_edge}
    <3>1. CASE w = v
      BY <1>5, <1>16, <3>1
    <3>2. CASE w # v
      <4>1. InTree(rank, w) /\ parent_edge'[w] = parent_edge[w]
        BY <1>5, <1>10, <2>2, <3>2
      <4>2. w # starting_vertex => parent_edge[w] \in Edge /\ state[parent_edge[w]] = w
        BY <1>3, <4>1 DEF Shape, Rooted, Forest, Growing
      <4>3. w # starting_vertex => state'[parent_edge[w]] = w
        BY <1>4, <1>5, <4>2, Marks
      <4>4. \A f \in Edge : state'[f] = w => f \in {parent_edge[w], extra_edge}
        BY <1>3, <1>5, <3>2, <4>1 DEF Shape, Growing
      <4> QED
        BY <4>1, <4>3, <4>4
    <3> QED
      BY <3>1, <3>2
  <2> QED
    BY <1>3, <2>1, <2>2 DEF Growing
<1>19. Turning(r)'
  BY <1>3 DEF Turning
<1>20. Shape(r, n + 1)'
  <2>1. \A w \in Vertex : Found(w)' => r[w] < n + 1
    BY <1>6, <1>7, <1>8
  <2> QED
    BY <1>13, <1>14, <1>15, <1>17, <1>18, <1>19, <2>1 DEF Shape
<1> QED
  BY <1>6, <1>20

(* The tree is complete: without an extra edge each edge of it points at   *)
(* the vertex that hangs from it, and the extra edge meets just one.       *)
LEMMA EndTreeShape ==
    ASSUME TypeOK, NEW rank \in [Vertex -> Nat], NEW n \in Nat, Shape(rank, n), EndTree
    PROVE  Shape(rank, n)'
<1>1. /\ pc = "pop" /\ dfs = <<>>
      /\ UNCHANGED <<left, right, curr_vertex, dfs, state, parent_vertex, parent_edge, extra_edge>>
  BY DEF EndTree, hashes, tree
<1>2. \A v : ~Pending(v)
  BY <1>1 DEF Pending
<1>3. \A v : Pending(v)' <=> \E i \in 1 .. Len(dfs) : dfs[i] = v
  BY <1>1 DEF EndTree, Pending
<1>4. \A v : ~Pending(v)'
  BY <1>1, <1>3
<1>5. /\ starting_vertex \in Vertex /\ Found(starting_vertex)
      /\ \A v \in Vertex : InTree(rank, v) =>
             /\ v # starting_vertex => state[parent_edge[v]] = v
             /\ \A e \in Edge : state[e] = v => e \in {parent_edge[v], extra_edge}
  BY <1>1, Marks DEF Shape, Rooted, Growing, Found
<1>6. \A e \in Edge : state[e] = UNVISITED => \A v \in Ends(e) : ~Found(v)
  BY <1>2, EndsFacts DEF Shape, SearchOpen
<1>7. /\ \A v : Found(v)' <=> Found(v)
      /\ \A e : Ends(e)' = Ends(e)
      /\ \A v \in Vertex : Found(v)' => rank[v] < n
      /\ Forest(rank)'
      /\ starting_vertex' = starting_vertex => \A v : InTree(rank, v)' <=> InTree(rank, v)
  BY <1>1, TreeStill
<1>8. CASE extra_edge = NONE
  <2>1. pc' = "scan" /\ starting_vertex' = starting_vertex + 1
    BY <1>8 DEF EndTree
  <2>2. Rooted(rank)' /\ Growing(rank)' /\ Turning(rank)'
    BY <2>1 DEF Rooted, Growing, Turning
  <2>3. SearchOpen(rank)'
    <3>1. \A v \in Vertex : v < starting_vertex' => v < starting_vertex \/ v = starting_vertex
      BY <1>5, <2>1, Marks
    <3> QED
      BY <1>1, <1>4, <1>5, <1>6, <1>7, <2>1, <3>1 DEF Shape, SearchOpen
  <2>4. Oriented(rank)'
    <3>1. \A e, f \in Edge : state[e] \in Vertex /\ state[e] = state[f] => e = f
      <4>1. ASSUME NEW e \in Edge, NEW f \in Edge,
                   state[e] \in Vertex, state[e] = state[f], e # f
            PROVE  FALSE
        <5>1. InTree(rank, state[e])
          BY <1>1, <4>1 DEF Shape, Oriented
        <5>2. e = parent_edge[state[e]] /\ f = parent_edge[state[e]]
          BY <1>5, <1>8, <4>1, <5>1, Marks
        <5> QED
          BY <4>1, <5>2
      <4> QED
        BY <4>1
    <3>2. pc' # "reorient" /\ state' = state
      BY <1>1, <2>1
    <3>3. \A e \in Edge : state[e] \in Vertex => state[e] \in Ends(e) /\ Found(state[e])
      BY <1>1 DEF Shape, Oriented
    <3>4. \A e \in Edge : state'[e] \in Vertex => state'[e] \in Ends(e)' /\ Found(state[e])'
      <4>1. parent_vertex' = parent_vertex /\ \A e : Ends(e)' = Ends(e)
        BY <1>1, <1>7
      <4> QED
        BY <3>2, <3>3, <4>1 DEF Found
    <3> QED
      BY <3>1, <3>2, <3>4 DEF Oriented
  <2> QED
    BY <1>7, <2>2, <2>3, <2>4 DEF Shape
<1>9. CASE extra_edge # NONE
  <2>1. /\ pc' = "reorient" /\ starting_vertex' = starting_vertex
        /\ reorient' = state[extra_edge] /\ extra_edge \in Edge
    BY <1>9 DEF EndTree, TypeOK
  <2>2. PICK u \in Vertex : u = reorient' /\ u = state[extra_edge] /\ InTree(rank, u)
    BY <1>1, <1>9, <2>1 DEF Shape, Growing
  <2>3. Rooted(rank)'
    BY <1>1, <2>1, TreeStill DEF Shape, Rooted
  <2>4. Growing(rank)'
    BY <2>1 DEF Growing
  <2>5. SearchOpen(rank)'
    BY <1>1, <1>4, <1>6, <1>7, <2>1 DEF Shape, SearchOpen
  <2>6. \A v \in Vertex : InTree(rank, v) /\ v # u =>
            \A e \in Edge : state[e] = v => e = parent_edge[v]
    BY <1>5, <2>2
  <2>7. Oriented(rank)'
    <3>1. \A e, f \in Edge : state[e] \in Vertex /\ state[e] = state[f] /\ e # f => state[e] = u
      BY <1>1, <2>6 DEF Shape, Oriented
    <3> QED
      BY <1>1, <1>7, <2>1, <2>2, <3>1 DEF Shape, Oriented, Found
  <2>8. Turning(rank)'
    <3>1. InTree(rank, reorient)'
      BY <1>1, <2>1, <2>2 DEF InTree, Found
    <3>2. \A v \in Vertex : InTree(rank, v)' /\ rank[v] =< rank[reorient'] =>
               /\ v # starting_vertex' => state'[parent_edge'[v]] = v
               /\ v # reorient' => \A e \in Edge : state'[e] = v => e = parent_edge'[v]
      BY <1>1, <1>5, <1>7, <2>1, <2>2, <2>6
    <3>3. \A e \in Edge : state'[e] = reorient' => e \in {parent_edge'[reorient'], extra_edge}
      BY <1>1, <1>5, <2>2
    <3> QED
      BY <2>1, <3>1, <3>2, <3>3 DEF Turning
  <2> QED
    BY <1>7, <2>3, <2>4, <2>5, <2>7, <2>8 DEF Shape
<1> QED
  BY <1>8, <1>9

(* A turn frees the vertex it leaves, and the edge turned meets the edge of*)
(* the parent, which is the next one to turn.                              *)
LEMMA ReorientShape ==
    ASSUME TypeOK, NEW rank \in [Vertex -> Nat], NEW n \in Nat, Shape(rank, n), Reorient
    PROVE  Shape(rank, n)'
<1>1. PICK u : u = reorient
  OBVIOUS
<1>2. PICK p : p = parent_vertex[u]
  OBVIOUS
<1>3. PICK c : c = parent_edge[u]
  OBVIOUS
<1>4. /\ pc = "reorient" /\ p # ROOT /\ reorient' = p
      /\ state' = [state EXCEPT ![c] = p]
      /\ UNCHANGED <<left, right, pc, starting_vertex, curr_vertex, dfs,
                     parent_vertex, parent_edge, extra_edge>>
  BY <1>1, <1>2, <1>3 DEF Reorient, hashes, tree
<1>5. u \in Vertex /\ InTree(rank, u) /\ u # starting_vertex
  BY <1>1, <1>2, <1>4 DEF TypeOK, Shape, Turning, Rooted
<1>6. /\ p \in Vertex /\ InTree(rank, p) /\ c \in Edge /\ Ends(c) = {u, p}
      /\ rank[p] < rank[u]
  BY <1>2, <1>3, <1>4, <1>5 DEF Shape, Rooted, Forest
<1>7. /\ state[c] = u /\ p # u
      /\ \A v \in Vertex : InTree(rank, v) /\ rank[v] =< rank[p] =>
             /\ v # u
             /\ v # starting_vertex => state[parent_edge[v]] = v /\ parent_edge[v] \in Edge
             /\ \A e \in Edge : state[e] = v => e = parent_edge[v]
  <2>1. \A v \in Vertex : InTree(rank, v) /\ rank[v] =< rank[u] =>
            /\ v # starting_vertex => state[parent_edge[v]] = v
            /\ v # u => \A e \in Edge : state[e] = v => e = parent_edge[v]
    BY <1>1, <1>4 DEF Shape, Turning
  <2>2. \A v \in Vertex : rank[v] =< rank[p] => v # u /\ rank[v] =< rank[u]
    BY <1>5, <1>6
  <2>3. \A v \in Vertex : InTree(rank, v) /\ v # starting_vertex => parent_edge[v] \in Edge
    BY <1>4 DEF Shape, Rooted, Forest
  <2>4. state[c] = u /\ p # u
    BY <1>3, <1>5, <1>6, <2>1
  <2> QED
    BY <2>1, <2>2, <2>3, <2>4
<1>8. PICK x \in Edge : \A e \in Edge : state[e] = u => e \in {c, x}
  BY <1>1, <1>3, <1>4 DEF Shape, Turning
<1>9. state'[c] = p /\ \A e \in Edge : e # c => state'[e] = state[e]
  BY <1>4, <1>6 DEF TypeOK
<1>10. /\ \A v : Found(v)' <=> Found(v)
       /\ \A e : Ends(e)' = Ends(e)
       /\ \A v \in Vertex : Found(v)' => rank[v] < n
       /\ Forest(rank)'
       /\ \A v : InTree(rank, v)' <=> InTree(rank, v)
  BY <1>4, TreeStill
<1>11. Rooted(rank)'
  BY <1>4, TreeStill DEF Shape, Rooted
<1>12. Growing(rank)'
  BY <1>4 DEF Growing
<1>13. SearchOpen(rank)'
  <2>1. \A e \in Edge : state'[e] = UNVISITED => state[e] = UNVISITED
    BY <1>6, <1>9, Marks
  <2>2. \A v : Pending(v)' <=> Pending(v)
    BY <1>4 DEF Pending
  <2> QED
    BY <1>4, <1>10, <2>1, <2>2 DEF Shape, SearchOpen
<1>14. Oriented(rank)'
  <2>1. \A e \in Edge : state'[e] \in Vertex => state'[e] \in Ends(e) /\ Found(state'[e])
    BY <1>6, <1>9 DEF Shape, Oriented, InTree
  <2>2. \A e, f \in Edge : state'[e] \in Vertex /\ state'[e] = state'[f] /\ e # f => state'[e] = p
    <3> SUFFICES ASSUME NEW e \in Edge, NEW f \in Edge, state'[e] \in Vertex,
                        state'[e] = state'[f], e # f, state'[e] # p
                 PROVE  FALSE
      OBVIOUS
    <3>1. e # c /\ f # c
      BY <1>9
    <3>2. state[e] \in Vertex /\ state[e] = state[f]
      BY <1>9, <3>1
    <3>3. state[e] = u
      BY <1>1, <1>4, <3>2 DEF Shape, Oriented
    <3> QED
      BY <1>8, <3>1, <3>2, <3>3
  <2> QED
    BY <1>4, <1>10, <2>1, <2>2 DEF Oriented, Found
<1>15. Turning(rank)'
  <2>1. InTree(rank, reorient)'
    BY <1>4, <1>6 DEF InTree, Found
  <2>2. ASSUME NEW v \in Vertex, InTree(rank, v)', rank[v] =< rank[reorient']
        PROVE  /\ v # starting_vertex' => state'[parent_edge'[v]] = v
               /\ v # reorient' => \A e \in Edge : state'[e] = v => e = parent_edge'[v]
    <3>1. InTree(rank, v) /\ rank[v] =< rank[p] /\ v # u
      BY <1>4, <1>7, <1>10, <2>2
    <3>2. v # starting_vertex => parent_edge[v] # c /\ parent_edge[v] \in Edge
      BY <1>7, <3>1
    <3>3. v # starting_vertex => state'[parent_edge[v]] = v
      BY <1>7, <1>9, <3>1, <3>2
    <3>4. v # p => \A e \in Edge : state'[e] = v => e # c /\ state[e] = v
      BY <1>9
    <3>5. v # p => \A e \in Edge : state'[e] = v => e = parent_edge[v]
      BY <1>7, <3>1, <3>4
    <3> QED
      BY <1>4, <3>3, <3>5
  <2>3. \A e \in Edge : state'[e] = reorient' => e \in {parent_edge'[reorient'], c}
    <3>1. \A e \in Edge : state[e] = p => e = parent_edge[p]
      BY <1>6, <1>7
    <3>2. \A e \in Edge : state'[e] = p => e \in {parent_edge[p], c}
      BY <1>9, <3>1
    <3> QED
      BY <1>4, <3>2
  <2> QED
    BY <1>6, <2>1, <2>2, <2>3 DEF Turning
<1> QED
  BY <1>10, <1>11, <1>12, <1>13, <1>14, <1>15 DEF Shape

(* The root has no edge of its own, so that the last turn meets nothing.   *)
LEMMA EndReorientShape ==
    ASSUME TypeOK, NEW rank \in [Vertex -> Nat], NEW n \in Nat, Shape(rank, n), EndReorient
    PROVE  Shape(rank, n)'
<1>1. /\ pc = "reorient" /\ pc' = "scan" /\ starting_vertex' = starting_vertex + 1
      /\ parent_vertex[reorient] = ROOT /\ reorient \in Vertex
      /\ UNCHANGED <<left, right, curr_vertex, dfs, state, parent_vertex, parent_edge>>
  BY DEF EndReorient, hashes, tree, TypeOK
<1>2. starting_vertex \in Vertex /\ Found(starting_vertex)
  BY <1>1, Marks DEF Shape, Rooted, Found
<1>3. dfs = <<>> /\ \A v : Pending(v)' <=> Pending(v)
  BY <1>1 DEF Shape, SearchOpen, Pending
<1>4. /\ \A v : Found(v)' <=> Found(v)
      /\ \A e : Ends(e)' = Ends(e)
      /\ \A v \in Vertex : Found(v)' => rank[v] < n
      /\ Forest(rank)'
  BY <1>1, TreeStill
<1>5. Rooted(rank)' /\ Growing(rank)' /\ Turning(rank)'
  BY <1>1 DEF Rooted, Growing, Turning
<1>6. SearchOpen(rank)'
  <2>1. \A v \in Vertex : v < starting_vertex' => v < starting_vertex \/ v = starting_vertex
    BY <1>1, <1>2, Marks
  <2>2. \A v : ~Pending(v)
    BY <1>1, <1>3 DEF Pending
  <2> QED
    BY <1>1, <1>2, <1>3, <1>4, <2>1, <2>2 DEF Shape, SearchOpen
<1>7. Oriented(rank)'
  <2>1. parent_edge[reorient] = ROOT
    BY <1>1 DEF Shape, Forest
  <2>2. PICK x \in Edge : \A e \in Edge : state[e] = reorient => e \in {ROOT, x}
    BY <1>1, <2>1 DEF Shape, Turning
  <2>3. \A e, f \in Edge : state[e] \in Vertex /\ state[e] = state[f] => e = f
    BY <1>1, <2>2, Marks DEF Shape, Oriented
  <2> QED
    BY <1>1, <1>4, <2>3 DEF Shape, Oriented, Found
<1> QED
  BY <1>4, <1>5, <1>6, <1>7 DEF Shape

(* Steps that leave the search where it is.                                *)
LEMMA StillShape ==
    ASSUME TypeOK, NEW rank \in [Vertex -> Nat], NEW n \in Nat, Shape(rank, n),
           \/ pc = "scan" /\ pc' \in {"done", "failed"}
           \/ UNCHANGED <<pc, extra_edge, reorient>>,
           UNCHANGED <<hashes, starting_vertex, curr_vertex, dfs, state, tree>>
    PROVE  Shape(rank, n)'
<1>1. UNCHANGED <<left, right, starting_vertex, curr_vertex, dfs, state,
                  parent_vertex, parent_edge>>
  BY DEF hashes, tree
<1>2. /\ \A v : Found(v)' <=> Found(v)
      /\ \A e : Ends(e)' = Ends(e)
      /\ \A v : InTree(rank, v)' <=> InTree(rank, v)
      /\ \A v \in Vertex : Found(v)' => rank[v] < n
      /\ Forest(rank)'
  BY <1>1, TreeStill
<1>3. \A v : Pending(v)' <=> Pending(v)
  BY <1>1 DEF Pending
<1>4. Rooted(rank)'
  BY <1>1, <1>2 DEF Shape, Rooted, InTree, Found
<1>5. SearchOpen(rank)'
  BY <1>1, <1>2, <1>3 DEF Shape, SearchOpen
<1>6. Oriented(rank)'
  BY <1>1, <1>2 DEF Shape, Oriented, InTree, Found
<1>7. Growing(rank)'
  BY <1>1, <1>2 DEF Shape, Growing, InTree, Found
<1>8. Turning(rank)'
  BY <1>1, <1>2 DEF Shape, Turning, InTree, Found
<1> QED
  BY <1>2, <1>4, <1>5, <1>6, <1>7, <1>8 DEF Shape

-----------------------------------------------------------------------------
(* The assembly comes when every vertex has been found and searched, so    *)
(* that no element is left unvisited.                                      *)
LEMMA AssembleAssembled ==
    ASSUME TypeOK, NEW rank, NEW n, Shape(rank, n), Assemble
    PROVE  Assembled'
<1>1. /\ pc = "scan" /\ starting_vertex = NumVertices
      /\ stash' = Marked \cup Filler /\ state' = state
      /\ table' = [v \in Vertex |->
                      LET placed == {e \in Edge \ stash' : state[e] = v}
                      IN IF placed = {} THEN NONE ELSE Max(placed)]
  BY DEF Assemble
<1>2. Marked' = Marked
  BY <1>1 DEF Marked
<1>3. Marked' \subseteq stash' /\ stash' \subseteq Edge
  BY <1>1, <1>2 DEF Marked, Filler
<1>4. \A e \in Edge : state'[e] # UNVISITED
  <2>1. \A v \in Vertex : Found(v) /\ ~Pending(v)
    BY <1>1, Marks DEF Shape, SearchOpen, Pending
  <2>2. \A e \in Edge : \E v \in Ends(e) : v \in Vertex
    BY EndsFacts DEF Ends
  <2> QED
    BY <1>1, <2>1, <2>2 DEF Shape, SearchOpen
<1>5. \A v \in Vertex :
          LET placed == {e \in Edge \ stash' : state'[e] = v}
          IN table'[v] = IF placed = {} THEN NONE ELSE Max(placed)
  BY <1>1
<1> QED
  BY <1>3, <1>4, <1>5 DEF Assembled

LEMMA NextCHTInv == CHTInv /\ [Next]_vars => CHTInv'
<1> SUFFICES ASSUME CHTInv, [Next]_vars PROVE CHTInv'
  OBVIOUS
<1>1. TypeOK /\ Assembled
  BY DEF CHTInv
<1>2. PICK rank \in [Vertex -> Nat], n \in Nat : Shape(rank, n)
  BY DEF CHTInv
<1>3. TypeOK'
  BY <1>1, <1>2, NextType
<1> DEFINE Kept == Assembled' /\ \E r \in [Vertex -> Nat], m \in Nat : Shape(r, m)'
<1>4. ASSUME pc' # "done", Shape(rank, n)' PROVE Kept
  BY <1>2, <1>4 DEF Assembled
<1>5. ASSUME SkipVertex PROVE Kept
  BY <1>1, <1>2, <1>4, <1>5, SkipVertexShape DEF SkipVertex
<1>6. ASSUME StartTree PROVE Kept
  BY <1>1, <1>2, <1>6, StartTreeShape DEF StartTree, Assembled
<1>7. ASSUME PopVertex PROVE Kept
  BY <1>1, <1>2, <1>4, <1>7, PopVertexShape DEF PopVertex
<1>8. ASSUME LeaveVertex PROVE Kept
  BY <1>1, <1>2, <1>4, <1>8, LeaveVertexShape DEF LeaveVertex
<1>9. ASSUME EndTree PROVE Kept
  <2>1. pc' # "done"
    BY <1>9 DEF EndTree
  <2> QED
    BY <1>1, <1>2, <1>4, <1>9, <2>1, EndTreeShape
<1>10. ASSUME NEW e \in Edge, TreeEdge(e) PROVE Kept
  BY <1>1, <1>2, <1>10, TreeEdgeShape DEF TreeEdge, Assembled
<1>11. ASSUME NEW e \in Edge, ExtraEdge(e) PROVE Kept
  BY <1>1, <1>2, <1>4, <1>11, ExtraEdgeShape DEF ExtraEdge
<1>12. ASSUME NEW e \in Edge, StashEdge(e) PROVE Kept
  BY <1>1, <1>2, <1>4, <1>12, StashEdgeShape DEF StashEdge
<1>13. ASSUME Reorient PROVE Kept
  BY <1>1, <1>2, <1>4, <1>13, ReorientShape DEF Reorient
<1>14. ASSUME EndReorient PROVE Kept
  BY <1>1, <1>2, <1>4, <1>14, EndReorientShape DEF EndReorient
<1>15. ASSUME Assemble PROVE Kept
  <2>1. Shape(rank, n)'
    BY <1>1, <1>2, <1>15, StillShape DEF Assemble
  <2>2. Assembled'
    BY <1>1, <1>2, <1>15, AssembleAssembled
  <2> QED
    BY <1>2, <2>1, <2>2
<1>16. ASSUME Abort PROVE Kept
  <2>1. Shape(rank, n)' /\ pc' # "done"
    BY <1>1, <1>2, <1>16, StillShape DEF Abort
  <2> QED
    BY <1>4, <2>1
<1>17. ASSUME UNCHANGED vars PROVE Kept
  <2>1. Shape(rank, n)'
    BY <1>1, <1>2, <1>17, StillShape DEF vars, hashes, tree
  <2>2. Assembled'
    BY <1>1, <1>17 DEF vars, Assembled, Marked
  <2> QED
    BY <1>2, <2>1, <2>2
<1>18. Kept
  BY <1>5, <1>6, <1>7, <1>8, <1>9, <1>10, <1>11, <1>12, <1>13, <1>14, <1>15, <1>16, <1>17
     DEF Next, Search
<1>19. Assembled' /\ (\E r \in [Vertex -> Nat], m \in Nat : Shape(r, m)')
  BY <1>18
<1> QED
  BY <1>3, <1>19 DEF CHTInv

-----------------------------------------------------------------------------
(* optimalcht::build at any point has a forest of found vertices, an edge  *)
(* not yet visited only where the search still has to come, and edges that *)
(* meet only in the tree being built, there at most once.                  *)
THEOREM CHTInductive == Spec => []CHTInv
<1>1. Init => CHTInv
  BY InitShape
<1>2. CHTInv /\ [Next]_vars => CHTInv'
  BY NextCHTInv
<1> QED
  BY <1>1, <1>2, PTL DEF Spec

LEMMA InvOneEdge == CHTInv => OneEdgePerVertex
BY DEF CHTInv, Shape, Oriented, OneEdgePerVertex

(* Between two components, and in the finished build, no two elements have *)
(* been given the same slot, whatever the hash functions return.           *)
THEOREM OneEdgePerVertexHolds == Spec => []OneEdgePerVertex
<1>1. CHTInv => OneEdgePerVertex
  BY InvOneEdge
<1> QED
  BY <1>1, CHTInductive, PTL

(* The table shows the one element that points at a slot.                  *)
LEMMA MaxOfOne == ASSUME NEW e \in Int PROVE Max({e}) = e
<1>1. e \in {e} /\ \A y \in {e} : e >= y
  OBVIOUS
<1>2. \A x \in {e} : x = e
  OBVIOUS
<1> QED
  BY <1>1, <1>2 DEF Max

LEMMA InvNothingLost == CHTInv => NothingLost
<1> SUFFICES ASSUME CHTInv, pc = "done"
             PROVE  /\ \A e \in Edge \ stash : \E v \in Ends(e) : table[v] = e
                    /\ \A e \in stash : \A v \in Vertex : table[v] # e
  BY DEF NothingLost
<1>1. /\ TypeOK /\ Marked \subseteq stash /\ stash \subseteq Edge
      /\ \A e \in Edge : state[e] # UNVISITED
      /\ \A v \in Vertex : table[v] = IF {e \in Edge \ stash : state[e] = v} = {} THEN NONE
                                      ELSE Max({e \in Edge \ stash : state[e] = v})
  BY DEF CHTInv, Assembled
<1>2. /\ \A e \in Edge : state[e] \in Vertex => state[e] \in Ends(e)
      /\ \A e, f \in Edge : state[e] \in Vertex /\ state[e] = state[f] => e = f
  BY DEF CHTInv, Shape, Oriented
<1>3. ASSUME NEW e \in Edge \ stash, NEW v \in Vertex, state[e] = v PROVE table[v] = e
  <2>1. {f \in Edge \ stash : state[f] = v} = {e}
    BY <1>2, <1>3
  <2>2. Max({e}) = e
    BY MaxOfOne, Marks
  <2> QED
    BY <1>1, <2>1, <2>2
<1>4. ASSUME NEW e \in Edge \ stash PROVE \E v \in Ends(e) : table[v] = e
  <2>1. state[e] \in Vertex
    BY <1>1, <1>4 DEF Marked, TypeOK
  <2> QED
    BY <1>2, <1>3, <1>4, <2>1
<1>5. ASSUME NEW e \in stash, NEW v \in Vertex PROVE table[v] # e
  <2>1. CASE {f \in Edge \ stash : state[f] = v} = {}
    BY <1>1, <1>5, <2>1, Marks
  <2>2. CASE {f \in Edge \ stash : state[f] = v} # {}
    <3>1. PICK f \in Edge \ stash : state[f] = v
      BY <2>2
    <3> QED
      BY <1>3, <1>5, <3>1
  <2> QED
    BY <2>1, <2>2
<1> QED
  BY <1>4, <1>5

(* A finished table finds every element outside the stash in one of its    *)
(* two slots, and no element of the stash, for every input and table size. *)
THEOREM NothingLostHolds == Spec => []NothingLost
<1>1. CHTInv => NothingLost
  BY InvNothingLost
<1> QED
  BY <1>1, CHTInductive, PTL

-----------------------------------------------------------------------------
(* The stash is minimal: the components                                    *)

(* An edge's ends are its left and its right one, and both are vertices.   *)
LEMMA LeftRight ==
    ASSUME TypeOK, NEW e \in Edge
    PROVE  /\ left[e] \in Vertex /\ right[e] \in Vertex /\ Ends(e) = {left[e], right[e]}
           /\ \A v \in Ends(e) : v = left[e] \/ v = right[e]
           /\ \A v \in Ends(e) : OtherEnd(e, v) = left[e] \/ OtherEnd(e, v) = right[e]
<1>1. Ends(e) = {left[e], right[e]}
  BY DEF Ends
<1> QED
  BY <1>1, EndsFacts DEF OtherEnd

(* Nothing is found and nothing marked at first.                           *)
LEMMA InitSpread == Init => StashInv
<1> SUFFICES ASSUME Init PROVE StashInv
  OBVIOUS
<1>1. TypeOK /\ pc = "scan" /\ ~Searching /\ dfs = <<>>
  BY InitType DEF Init, Searching
<1>2. \A v \in Vertex : ~Pending(v)
  BY <1>1 DEF Pending
<1>3. /\ \A e \in Edge : state[e] = UNVISITED
      /\ \A v \in Vertex : parent_edge[v] \notin Edge
  BY Marks DEF Init
<1>4. Marked = {}
  BY <1>3, Marks DEF Marked
<1>5. Components({}, {})
  BY <1>1, <1>2, <1>3 DEF Components
<1>6. Covered({}, {})
  BY <1>1 DEF Covered
<1>7. Extra({}, {})
  BY <1>1, <1>3, <1>4 DEF Extra
<1>8. Stashed
  BY <1>1 DEF Stashed
<1> QED
  BY <1>5, <1>6, <1>7, <1>8 DEF StashInv, Spread

(* Steps that find no vertex and touch no edge.                            *)
LEMMA StillSpread ==
    ASSUME NEW full \in SUBSET Vertex, NEW grown \in SUBSET Vertex, Spread(full, grown),
           \/ ~Searching /\ ~Searching'
           \/ /\ UNCHANGED <<starting_vertex, extra_edge, reorient>>
              /\ pc' = pc \/ {pc, pc'} \subseteq {"pop", "edges"},
           \A v \in Vertex : Pending(v)' => Pending(v),
           UNCHANGED <<left, right, state, parent_vertex, parent_edge>>
    PROVE  Spread(full, grown)'
<1>1. (\A v : Found(v)' <=> Found(v)) /\ Marked' = Marked
  BY DEF Found, Marked
<1>2. Components(full, grown)'
  BY <1>1 DEF Spread, Components, Searching
<1>3. ~Searching => grown = {}
  BY DEF Spread, Components
<1>4. Covered(full, grown)'
  BY <1>3 DEF Spread, Covered, Searching
<1>5. Extra(full, grown)'
  BY <1>1, <1>3 DEF Spread, Extra, Searching
<1> QED
  BY <1>2, <1>4, <1>5 DEF Spread

LEMMA SkipVertexSpread ==
    ASSUME TypeOK, NEW full \in SUBSET Vertex, NEW grown \in SUBSET Vertex, Spread(full, grown),
           SkipVertex
    PROVE  Spread(full, grown)'
<1>1. /\ ~Searching /\ ~Searching' /\ pc' = pc
      /\ UNCHANGED <<left, right, curr_vertex, dfs, state, parent_vertex, parent_edge>>
  BY DEF SkipVertex, hashes, tree, Searching
<1>2. \A v \in Vertex : Pending(v)' => Pending(v)
  BY <1>1 DEF Pending
<1> QED
  BY <1>1, <1>2, StillSpread

LEMMA PopVertexSpread ==
    ASSUME TypeOK, NEW full \in SUBSET Vertex, NEW grown \in SUBSET Vertex, Spread(full, grown),
           PopVertex
    PROVE  Spread(full, grown)'
<1>1. /\ pc = "pop" /\ pc' = "edges" /\ dfs # <<>> /\ dfs \in Seq(Vertex)
      /\ curr_vertex' = dfs[Len(dfs)] /\ dfs' = SubSeq(dfs, 1, Len(dfs) - 1)
      /\ UNCHANGED <<left, right, starting_vertex, state, parent_vertex, parent_edge,
                     extra_edge, reorient>>
  BY DEF PopVertex, hashes, tree, TypeOK
<1>2. \A v \in Vertex : Pending(v)' => Pending(v)
  BY PopPending
<1> QED
  BY <1>1, <1>2, StillSpread

LEMMA LeaveVertexSpread ==
    ASSUME TypeOK, NEW full \in SUBSET Vertex, NEW grown \in SUBSET Vertex, Spread(full, grown),
           LeaveVertex
    PROVE  Spread(full, grown)'
<1>1. /\ pc = "edges" /\ pc' = "pop"
      /\ UNCHANGED <<left, right, starting_vertex, curr_vertex, dfs, state,
                     parent_vertex, parent_edge, extra_edge, reorient>>
  BY DEF LeaveVertex, hashes, tree
<1>2. \A v \in Vertex : Pending(v)' => Pending(v)
  BY <1>1 DEF Pending
<1> QED
  BY <1>1, <1>2, StillSpread

(* A component starts from its root.                                       *)
LEMMA StartTreeSpread ==
    ASSUME TypeOK, NEW full \in SUBSET Vertex, NEW grown \in SUBSET Vertex, Spread(full, grown),
           StartTree
    PROVE  \E f, g \in SUBSET Vertex : Spread(f, g)'
<1>0. PICK g : g = {starting_vertex}
  OBVIOUS
<1>1. /\ pc = "scan" /\ pc' = "pop" /\ starting_vertex \in Vertex /\ ~Found(starting_vertex)
      /\ extra_edge' = NONE /\ dfs' = <<starting_vertex>>
      /\ parent_vertex' = [parent_vertex EXCEPT ![starting_vertex] = ROOT]
      /\ parent_edge' = [parent_edge EXCEPT ![starting_vertex] = ROOT]
      /\ UNCHANGED <<left, right, starting_vertex, curr_vertex, state>>
  BY Marks DEF StartTree, hashes, TypeOK, Found
<1>2. grown = {} /\ starting_vertex \notin full
  BY <1>1 DEF Spread, Components, Searching
<1>3. \A v \in Vertex : Found(v)' <=> (Found(v) \/ v = starting_vertex)
  BY <1>1, Marks DEF TypeOK, Found
<1>4. \A v \in Vertex : Pending(v)' => v = starting_vertex
  BY <1>1 DEF Pending
<1>5. \A e \in Edge : state[e] # UNVISITED =>
         left[e] # starting_vertex /\ right[e] # starting_vertex
  BY <1>1 DEF Spread, Components
<1>6. Components(full, g)'
  <2>1. \A v \in full \cup g : Found(v)'
    BY <1>0, <1>1, <1>3 DEF Spread, Components
  <2>2. \A e \in Edge : state[e] # UNVISITED =>
           /\ Found(left[e])' /\ Found(right[e])'
           /\ left[e] \in full <=> right[e] \in full
           /\ left[e] \in g <=> right[e] \in g
    BY <1>0, <1>1, <1>3, <1>5, LeftRight DEF Spread, Components
  <2> QED
    BY <1>0, <1>1, <1>2, <1>4, <2>1, <2>2 DEF Components, Searching
<1>7. Covered(full, g)'
  BY <1>0, <1>1 DEF Spread, Covered
<1>8. Extra(full, g)'
  <2>1. \A v \in Vertex : parent_edge'[v] \in Edge => parent_edge'[v] = parent_edge[v]
    BY <1>1, Marks DEF TypeOK
  <2>2. Marked' = Marked /\ \A e \in Marked : left[e] \in full
    BY <1>1 DEF Spread, Extra, Searching, Marked
  <2> QED
    BY <1>1, <2>1, <2>2 DEF Spread, Extra
<1>9. g \in SUBSET Vertex
  BY <1>0, <1>1
<1> QED
  BY <1>6, <1>7, <1>8, <1>9 DEF Spread

(* A tree edge adds the vertex it points at to the component.              *)
LEMMA TreeEdgeSpread ==
    ASSUME TypeOK, NEW rank, NEW n, Shape(rank, n),
           NEW full \in SUBSET Vertex, NEW grown \in SUBSET Vertex, Spread(full, grown),
           NEW e \in Edge, TreeEdge(e)
    PROVE  \E f, g \in SUBSET Vertex : Spread(f, g)'
<1>1. PICK v : v = OtherEnd(e, curr_vertex)
  OBVIOUS
<1> DEFINE g == grown \cup {v}
<1>2. /\ pc = "edges" /\ pc' = "edges" /\ IsNext(e) /\ ~Found(v) /\ dfs' = Append(dfs, v)
      /\ UNCHANGED <<left, right, starting_vertex, curr_vertex, extra_edge, reorient>>
      /\ parent_vertex' = [parent_vertex EXCEPT ![v] = curr_vertex]
      /\ parent_edge' = [parent_edge EXCEPT ![v] = e]
      /\ state' = [state EXCEPT ![e] = v]
  BY <1>1 DEF TreeEdge, hashes, Found
<1>3. /\ state[e] = UNVISITED /\ v \in Vertex /\ v # curr_vertex
      /\ Ends(e) = {v, curr_vertex} /\ curr_vertex \in Vertex
  BY <1>1, <1>2, NextEdge DEF TypeOK
<1>4. /\ parent_edge'[v] = e /\ \A w \in Vertex : w # v => parent_edge'[w] = parent_edge[w]
      /\ state'[e] = v /\ \A f \in Edge : f # e => state'[f] = state[f]
      /\ \A w \in Vertex : Found(w)' <=> (Found(w) \/ w = v)
  BY <1>2, <1>3, Marks DEF TypeOK, Found
<1>5. curr_vertex \in grown /\ v \notin full /\ v \notin grown /\ v # starting_vertex
  <2>1. curr_vertex \in grown
    BY <1>2, <1>3 DEF Spread, Components, Pending
  <2>2. v \notin full /\ v \notin grown
    BY <1>2 DEF Spread, Components
  <2>3. Found(starting_vertex)
    BY <1>2, Marks DEF Shape, Rooted, Found
  <2> QED
    BY <1>2, <2>1, <2>2, <2>3
<1>6. \A w \in Vertex : Pending(w)' => Pending(w) \/ w = v
  <2>1. dfs \in Seq(Vertex) /\ Len(dfs') = Len(dfs) + 1 /\ dfs'[Len(dfs) + 1] = v
        /\ \A i \in 1 .. Len(dfs) : dfs'[i] = dfs[i]
    BY <1>2, <1>3 DEF TypeOK
  <2>2. \A i \in 1 .. Len(dfs) + 1 : i \in 1 .. Len(dfs) \/ i = Len(dfs) + 1
    BY <2>1
  <2> QED
    BY <1>2, <2>1, <2>2 DEF Pending
<1>7. left[e] \in {v, curr_vertex} /\ right[e] \in {v, curr_vertex} /\ left[e] # right[e]
  <2>1. Ends(e) = {left[e], right[e]}
    BY LeftRight
  <2> QED
    BY <1>3, <2>1
<1>8. \A f \in Edge : state[f] # UNVISITED => left[f] # v /\ right[f] # v
  BY <1>2 DEF Spread, Components
<1>9. Components(full, g)'
  <2>1. \A w \in full \cup g : Found(w)'
    BY <1>3, <1>4 DEF Spread, Components
  <2>2. ASSUME NEW f \in Edge, state'[f] # UNVISITED
        PROVE  /\ Found(left[f])' /\ Found(right[f])'
               /\ left[f] \in full <=> right[f] \in full
               /\ left[f] \in g <=> right[f] \in g
    <3>1. CASE f = e
      <4>1. Found(curr_vertex)
        BY <1>5 DEF Spread, Components
      <4>2. curr_vertex \notin full
        BY <1>5 DEF Spread, Components
      <4> QED
        BY <1>2, <1>3, <1>4, <1>5, <1>7, <3>1, <4>1, <4>2
    <3>2. CASE f # e
      <4>1. state[f] # UNVISITED
        BY <1>4, <2>2, <3>2
      <4>2. left[f] \in Vertex /\ right[f] \in Vertex
        BY LeftRight
      <4> QED
        BY <1>2, <1>4, <1>8, <4>1, <4>2 DEF Spread, Components
    <3> QED
      BY <3>1, <3>2
  <2> QED
    BY <1>2, <1>5, <1>6, <2>1, <2>2 DEF Spread, Components, Searching
<1>10. \A w \in Vertex : (\E f \in Edge : state[f] = w) => (\E f \in Edge : state'[f] = w)
  BY <1>3, <1>4, Marks
<1>11. Covered(full, g)'
  <2>1. \A w \in full : \E f \in Edge : state'[f] = w
    BY <1>10 DEF Spread, Covered
  <2>2. \A w \in g : w # starting_vertex => \E f \in Edge : state'[f] = w
    BY <1>4, <1>10 DEF Spread, Covered
  <2> QED
    BY <1>2, <2>1, <2>2 DEF Covered
<1>12. Extra(full, g)'
  <2>1. ASSUME NEW w \in Vertex, parent_edge'[w] \in Edge
        PROVE  state'[parent_edge'[w]] # UNVISITED
    <3>1. CASE w = v
      BY <1>3, <1>4, <3>1, Marks
    <3>2. CASE w # v
      <4>1. parent_edge'[w] = parent_edge[w] /\ state[parent_edge[w]] # UNVISITED
        BY <1>4, <2>1, <3>2 DEF Spread, Extra
      <4> QED
        BY <1>3, <1>4, <2>1, <4>1, Marks
    <3> QED
      BY <3>1, <3>2
  <2>2. extra_edge # NONE =>
           state'[extra_edge] \in g /\ \A w \in Vertex : parent_edge'[w] # extra_edge
    <3> SUFFICES ASSUME extra_edge # NONE
                 PROVE  state'[extra_edge] \in g /\ \A w \in Vertex : parent_edge'[w] # extra_edge
      OBVIOUS
    <3>1. /\ state[extra_edge] \in grown /\ extra_edge \in Edge
          /\ \A w \in Vertex : parent_edge[w] # extra_edge
      BY <1>2 DEF Spread, Extra, Searching, TypeOK
    <3>2. extra_edge # e
      BY <1>3, <3>1, Marks
    <3> QED
      BY <1>4, <3>1, <3>2
  <2>3. \A f \in Marked' : f \in Marked
    BY <1>3, <1>4, Marks DEF Marked
  <2> QED
    BY <1>2, <2>1, <2>2, <2>3 DEF Spread, Extra, Searching
<1>13. g \in SUBSET Vertex
  BY <1>3
<1> HIDE DEF g
<1> QED
  BY <1>9, <1>11, <1>12, <1>13 DEF Spread
(* An edge to a vertex found before lies in the component: the vertex was  *)
(* found in this search, or the edge would have been visited from it.      *)
LEMMA BackEdge ==
    ASSUME TypeOK, NEW rank, NEW n, Shape(rank, n),
           NEW full \in SUBSET Vertex, NEW grown \in SUBSET Vertex, Spread(full, grown),
           pc = "edges", NEW e \in Edge, IsNext(e),
           NEW v, v = OtherEnd(e, curr_vertex), Found(v),
           state'[e] # UNVISITED, \A f \in Edge : f # e => state'[f] = state[f],
           UNCHANGED <<left, right, parent_vertex, parent_edge, curr_vertex, dfs, pc>>
    PROVE  /\ state[e] = UNVISITED /\ left[e] \in grown /\ right[e] \in grown
           /\ \A w \in Vertex : parent_edge[w] # e
           /\ Components(full, grown)'
           /\ \A w \in Vertex : (\E f \in Edge : state[f] = w) => (\E f \in Edge : state'[f] = w)
           /\ \A w \in Vertex : parent_edge[w] \in Edge => state'[parent_edge[w]] # UNVISITED
<1>1. /\ state[e] = UNVISITED /\ v \in Vertex /\ Ends(e) = {v, curr_vertex}
      /\ v \in Ends(e) /\ curr_vertex \in Vertex
  BY NextEdge DEF TypeOK
<1>2. Pending(v) /\ Pending(curr_vertex)
  BY <1>1 DEF Shape, SearchOpen, Pending
<1>3. v \in grown /\ curr_vertex \in grown
  BY <1>1, <1>2 DEF Spread, Components
<1>4. left[e] \in grown /\ right[e] \in grown
  <2>1. left[e] \in Ends(e) /\ right[e] \in Ends(e)
    BY LeftRight
  <2> QED
    BY <1>1, <1>3, <2>1
<1>5. \A w \in Vertex : parent_edge[w] # e
  BY <1>1 DEF Spread, Extra
<1>6. /\ (\A w \in Vertex : Found(w)' <=> Found(w))
      /\ (\A w \in Vertex : Pending(w)' <=> Pending(w))
      /\ Searching' <=> Searching
  BY DEF Found, Pending, Searching
<1>7. ASSUME NEW f \in Edge, state'[f] # UNVISITED
      PROVE  /\ Found(left[f])' /\ Found(right[f])'
             /\ left[f] \in full <=> right[f] \in full
             /\ left[f] \in grown <=> right[f] \in grown
  <2>1. left[f] \in Vertex /\ right[f] \in Vertex
    BY LeftRight
  <2>2. CASE f = e
    <3>1. Found(left[e]) /\ Found(right[e]) /\ left[e] \notin full /\ right[e] \notin full
      BY <1>4 DEF Spread, Components
    <3> QED
      BY <1>4, <1>6, <2>1, <2>2, <3>1 DEF Found
  <2>3. CASE f # e
    BY <1>6, <1>7, <2>1, <2>3 DEF Spread, Components, Found
  <2> QED
    BY <2>2, <2>3
<1>8. Components(full, grown)'
  BY <1>6, <1>7 DEF Spread, Components
<1>9. \A w \in Vertex : (\E f \in Edge : state[f] = w) => (\E f \in Edge : state'[f] = w)
  BY <1>1, Marks
<1>10. \A w \in Vertex : parent_edge[w] \in Edge =>
          state'[parent_edge[w]] # UNVISITED
  BY <1>1 DEF Spread, Extra
<1> QED
  BY <1>1, <1>3, <1>4, <1>5, <1>8, <1>9, <1>10

LEMMA ExtraEdgeSpread ==
    ASSUME TypeOK, NEW rank, NEW n, Shape(rank, n),
           NEW full \in SUBSET Vertex, NEW grown \in SUBSET Vertex, Spread(full, grown),
           NEW e \in Edge, ExtraEdge(e)
    PROVE  Spread(full, grown)'
<1>1. PICK v : v = OtherEnd(e, curr_vertex)
  OBVIOUS
<1>2. /\ pc = "edges" /\ pc' = "edges" /\ IsNext(e) /\ Found(v)
      /\ extra_edge = NONE /\ extra_edge' = e /\ state' = [state EXCEPT ![e] = v]
      /\ UNCHANGED <<left, right, starting_vertex, curr_vertex, dfs, reorient, pc,
                     parent_vertex, parent_edge>>
  BY <1>1 DEF ExtraEdge, hashes, tree, Found
<1>3. v \in Vertex
  BY <1>1, <1>2, NextEdge
<1>4. /\ v # STASHED /\ state'[e] # UNVISITED
      /\ state'[e] = v /\ \A f \in Edge : f # e => state'[f] = state[f]
  BY <1>2, <1>3, Marks DEF TypeOK
<1>5. /\ state[e] = UNVISITED /\ left[e] \in grown /\ right[e] \in grown
      /\ \A w \in Vertex : parent_edge[w] # e
      /\ Components(full, grown)'
      /\ \A w \in Vertex : (\E f \in Edge : state[f] = w) => (\E f \in Edge : state'[f] = w)
      /\ \A w \in Vertex : parent_edge[w] \in Edge => state'[parent_edge[w]] # UNVISITED
  BY <1>1, <1>2, <1>4, BackEdge
<1>6. Covered(full, grown)'
  BY <1>2, <1>5 DEF Spread, Covered
<1>7. v \in grown
  BY <1>1, <1>5 DEF OtherEnd
<1>8. Extra(full, grown)'
  <2>1. \A f \in Marked' : f \in Marked
    BY <1>4, <1>5 DEF Marked
  <2>2. \A f \in Marked : left[f] \in full
    BY <1>2 DEF Spread, Extra
  <2> QED
    BY <1>2, <1>4, <1>5, <1>7, <2>1, <2>2 DEF Extra
<1> QED
  BY <1>5, <1>6, <1>8 DEF Spread

LEMMA StashEdgeSpread ==
    ASSUME TypeOK, NEW rank, NEW n, Shape(rank, n),
           NEW full \in SUBSET Vertex, NEW grown \in SUBSET Vertex, Spread(full, grown),
           NEW e \in Edge, StashEdge(e)
    PROVE  Spread(full, grown)'
<1>1. PICK v : v = OtherEnd(e, curr_vertex)
  OBVIOUS
<1>2. /\ pc = "edges" /\ pc' = "edges" /\ IsNext(e) /\ Found(v)
      /\ extra_edge # NONE /\ extra_edge' = extra_edge /\ state' = [state EXCEPT ![e] = STASHED]
      /\ UNCHANGED <<left, right, starting_vertex, curr_vertex, dfs, reorient, pc,
                     parent_vertex, parent_edge>>
  BY <1>1 DEF StashEdge, hashes, tree, Found
<1>3. /\ state'[e] # UNVISITED
      /\ state'[e] = STASHED /\ \A f \in Edge : f # e => state'[f] = state[f]
  BY <1>2, Marks DEF TypeOK
<1>4. /\ state[e] = UNVISITED /\ left[e] \in grown /\ right[e] \in grown
      /\ \A w \in Vertex : parent_edge[w] # e
      /\ Components(full, grown)'
      /\ \A w \in Vertex : (\E f \in Edge : state[f] = w) => (\E f \in Edge : state'[f] = w)
      /\ \A w \in Vertex : parent_edge[w] \in Edge => state'[parent_edge[w]] # UNVISITED
  BY <1>1, <1>2, <1>3, BackEdge
<1>5. Covered(full, grown)'
  BY <1>2, <1>4 DEF Spread, Covered
<1>6. Extra(full, grown)'
  <2>1. \A f \in Marked' : f \in Marked \/ f = e
    BY <1>3, <1>4 DEF Marked
  <2>2. \A f \in Marked : left[f] \in full \/ left[f] \in grown
    BY DEF Spread, Extra
  <2>3. /\ state[extra_edge] \in grown /\ extra_edge \in Edge
        /\ \A w \in Vertex : parent_edge[w] # extra_edge
    BY <1>2 DEF Spread, Extra, Searching, TypeOK
  <2>4. extra_edge # e
    BY <1>4, <2>3, Marks
  <2>5. state'[extra_edge] \in grown
    BY <1>3, <2>3, <2>4
  <2> QED
    BY <1>2, <1>4, <2>1, <2>2, <2>3, <2>5 DEF Extra, Searching
<1> QED
  BY <1>4, <1>5, <1>6 DEF Spread

(* The search of a component ends.  Without an extra edge all its marked   *)
(* edges lie elsewhere; with one, that edge turns the path from its vertex.*)
LEMMA EndTreeSpread ==
    ASSUME TypeOK, NEW full \in SUBSET Vertex, NEW grown \in SUBSET Vertex, Spread(full, grown),
           EndTree
    PROVE  \E f, g \in SUBSET Vertex : Spread(f, g)'
<1>1. /\ pc = "pop" /\ dfs = <<>> /\ dfs' = dfs
      /\ UNCHANGED <<left, right, curr_vertex, state, parent_vertex, parent_edge, extra_edge>>
  BY DEF EndTree, hashes, tree
<1>2. /\ \A w \in Vertex : Found(w)' <=> Found(w)
      /\ Marked' = Marked
  BY <1>1 DEF Found, Marked
<1>3. pc' # "edges" => \A w \in Vertex : ~Pending(w)'
  BY <1>1 DEF Pending
<1>4. CASE extra_edge = NONE
  <2>1. pc' = "scan" /\ ~Searching'
    BY <1>4 DEF EndTree, Searching
  <2>2. Components(full, {})'
    <3>1. \A w \in Vertex : ~Pending(w)'
      BY <1>3, <2>1
    <3>2. /\ \A v \in full : Found(v)
          /\ \A e \in Edge : state[e] # UNVISITED =>
                /\ Found(left[e]) /\ Found(right[e])
                /\ left[e] \in full <=> right[e] \in full
      BY DEF Spread, Components
    <3>3. \A e \in Edge : left[e] \in Vertex /\ right[e] \in Vertex
      BY LeftRight
    <3> QED
      BY <1>1, <1>2, <2>1, <3>1, <3>2, <3>3 DEF Components
  <2>3. Covered(full, {})'
    BY <1>1, <2>1 DEF Spread, Covered
  <2>4. \A f \in Marked : left[f] \in full
    BY <1>4 DEF Spread, Extra
  <2>5. Extra(full, {})'
    BY <1>1, <1>2, <2>1, <2>4 DEF Spread, Extra
  <2> QED
    BY <2>2, <2>3, <2>5 DEF Spread
<1>5. CASE extra_edge # NONE
  <2>1. /\ pc' = "reorient" /\ Searching /\ Searching' /\ reorient' = state[extra_edge]
        /\ starting_vertex' = starting_vertex
    BY <1>1, <1>5 DEF EndTree, Searching
  <2>2. Components(full, grown)'
    <3>1. \A w \in Vertex : ~Pending(w)'
      BY <1>3, <2>1
    <3>2. /\ \A v \in full \cup grown : Found(v)
          /\ full \cap grown = {}
          /\ \A e \in Edge : state[e] # UNVISITED =>
                /\ Found(left[e]) /\ Found(right[e])
                /\ left[e] \in full <=> right[e] \in full
                /\ left[e] \in grown <=> right[e] \in grown
      BY DEF Spread, Components
    <3>3. \A e \in Edge : left[e] \in Vertex /\ right[e] \in Vertex
      BY LeftRight
    <3> QED
      BY <1>1, <1>2, <2>1, <3>1, <3>2, <3>3 DEF Components
  <2>3. /\ state[extra_edge] \in grown /\ extra_edge \in Edge
        /\ \A w \in Vertex : parent_edge[w] # extra_edge
    BY <1>1, <1>5, <2>1 DEF Spread, Extra, TypeOK
  <2>4. Covered(full, grown)'
    <3>1. reorient' \in grown /\ reorient' \in Vertex
      BY <2>1, <2>3
    <3>2. state'[extra_edge] = reorient' /\ extra_edge # parent_edge'[reorient']
      BY <1>1, <2>1, <2>3, <3>1
    <3> QED
      BY <1>1, <2>1, <2>3, <3>1, <3>2 DEF Spread, Covered
  <2>5. Extra(full, grown)'
    BY <1>1, <1>2, <1>5, <2>1, <2>3 DEF Spread, Extra
  <2> QED
    BY <2>2, <2>4, <2>5 DEF Spread
<1> QED
  BY <1>4, <1>5

(* A turn frees no vertex: the one it leaves keeps the edge that came in,  *)
(* and the one it goes to gets an edge that is not the one to its parent.  *)
LEMMA ReorientSpread ==
    ASSUME TypeOK, NEW rank \in [Vertex -> Nat], NEW n, Shape(rank, n),
           NEW full \in SUBSET Vertex, NEW grown \in SUBSET Vertex, Spread(full, grown),
           Reorient
    PROVE  Spread(full, grown)'
<1>1. PICK u, p, c : u = reorient /\ p = parent_vertex[u] /\ c = parent_edge[u]
  OBVIOUS
<1>2. /\ pc = "reorient" /\ pc' = "reorient" /\ p # ROOT /\ reorient' = p /\ u \in Vertex
      /\ state' = [state EXCEPT ![c] = p]
      /\ UNCHANGED <<left, right, starting_vertex, curr_vertex, dfs, parent_vertex,
                     parent_edge, extra_edge>>
  BY <1>1 DEF Reorient, hashes, tree, TypeOK
<1>3. InTree(rank, u) /\ u # starting_vertex /\ p \in Vertex
  BY <1>1, <1>2 DEF Shape, Turning, Rooted
<1>4. /\ c \in Edge /\ Ends(c) = {u, p} /\ Found(p) /\ rank[p] < rank[u] /\ state[c] = u
  BY <1>1, <1>2, <1>3 DEF Shape, Turning, Forest
<1>5. state'[c] = p /\ \A f \in Edge : f # c => state'[f] = state[f]
  BY <1>2, <1>4 DEF TypeOK
<1>6. u # p /\ c # parent_edge[p]
  <2>1. u # p
    BY <1>2, <1>3, <1>4
  <2>2. CASE parent_vertex[p] = ROOT
    BY <1>3, <1>4, <2>1, <2>2, Marks DEF Shape, Forest
  <2>3. CASE parent_vertex[p] # ROOT
    <3>1. parent_vertex[p] \in Vertex
      BY <1>3, <1>4, <2>3 DEF Found, TypeOK
    <3>2. /\ Ends(parent_edge[p]) = {p, parent_vertex[p]}
          /\ rank[parent_vertex[p]] < rank[p]
      BY <1>3, <3>1 DEF Shape, Forest
    <3>3. ASSUME c = parent_edge[p] PROVE FALSE
      <4>1. parent_vertex[p] = u
        BY <1>4, <2>1, <3>2, <3>3
      <4> QED
        BY <1>2, <1>3, <1>4, <3>2, <4>1
    <3> QED
      BY <2>1, <3>3
  <2> QED
    BY <2>2, <2>3
<1>7. u \in grown /\ p \in grown /\ u \notin full
  <2>1. u \in grown /\ u \notin full
    BY <1>1, <1>2 DEF Spread, Covered, Components
  <2>2. {left[c], right[c]} = {u, p}
    BY <1>4 DEF Ends
  <2>3. left[c] \in grown <=> right[c] \in grown
    BY <1>2, <1>4, Marks DEF Spread, Components
  <2> QED
    BY <2>1, <2>2, <2>3
<1>8. /\ \A f \in Edge : state'[f] = UNVISITED <=> state[f] = UNVISITED
      /\ \A f \in Edge : state'[f] = STASHED <=> state[f] = STASHED
  <2>1. u # UNVISITED /\ p # UNVISITED /\ u # STASHED /\ p # STASHED
    BY <1>2, <1>3, Marks
  <2> QED
    BY <1>4, <1>5, <2>1
<1>9. Components(full, grown)'
  <2>1. (\A w : Found(w)' <=> Found(w)) /\ (\A w : Pending(w)' <=> Pending(w))
    BY <1>2 DEF Found, Pending
  <2>2. /\ \A v \in full \cup grown : Found(v)
        /\ full \cap grown = {}
        /\ \A v \in Vertex : Pending(v) => v \in grown
        /\ \A e \in Edge : state[e] # UNVISITED =>
              /\ Found(left[e]) /\ Found(right[e])
              /\ left[e] \in full <=> right[e] \in full
              /\ left[e] \in grown <=> right[e] \in grown
    BY DEF Spread, Components
  <2> QED
    BY <1>2, <1>8, <2>1, <2>2 DEF Components, Searching
<1>10. Covered(full, grown)'
  <2>1. ASSUME NEW w \in full PROVE \E f \in Edge : state'[f] = w
    <3>1. PICK f \in Edge : state[f] = w
      BY <2>1 DEF Spread, Covered
    <3> QED
      BY <1>4, <1>5, <1>7, <2>1, <3>1
  <2>2. ASSUME NEW w \in grown, w # starting_vertex PROVE \E f \in Edge : state'[f] = w
    <3>1. CASE w = u
      <4>1. PICK x \in Edge : state[x] = u /\ x # c
        BY <1>1, <1>2 DEF Spread, Covered
      <4> QED
        BY <1>5, <3>1, <4>1
    <3>2. CASE w # u
      <4>1. PICK f \in Edge : state[f] = w
        BY <2>2 DEF Spread, Covered
      <4> QED
        BY <1>4, <1>5, <3>2, <4>1
    <3> QED
      BY <3>1, <3>2
  <2>3. reorient' \in grown /\ state'[c] = reorient' /\ c # parent_edge'[reorient']
    BY <1>2, <1>5, <1>6, <1>7
  <2> QED
    BY <1>2, <1>4, <2>1, <2>2, <2>3 DEF Covered
<1>11. Extra(full, grown)'
  <2>1. Marked' = Marked
    BY <1>8 DEF Marked
  <2> QED
    BY <1>2, <1>8, <2>1 DEF Spread, Extra, Searching
<1> QED
  BY <1>9, <1>10, <1>11 DEF Spread

(* The walk has reached the root, the last vertex no edge pointed at.      *)
LEMMA EndReorientSpread ==
    ASSUME TypeOK, NEW rank, NEW n, Shape(rank, n),
           NEW full \in SUBSET Vertex, NEW grown \in SUBSET Vertex, Spread(full, grown),
           EndReorient
    PROVE  \E f, g \in SUBSET Vertex : Spread(f, g)'
<1>0. PICK all : all = full \cup grown
  OBVIOUS
<1>1. /\ pc = "reorient" /\ pc' = "scan" /\ parent_vertex[reorient] = ROOT /\ reorient \in Vertex
      /\ UNCHANGED <<left, right, curr_vertex, dfs, state, parent_vertex, parent_edge,
                     extra_edge>>
  BY DEF EndReorient, hashes, tree, TypeOK
<1>2. reorient = starting_vertex
  BY <1>1, Marks DEF Shape, Turning, Rooted
<1>3. /\ \A w : Found(w)' <=> Found(w)
      /\ \A w \in Vertex : ~Pending(w)'
      /\ Marked' = Marked
  <2>1. dfs = <<>>
    BY <1>1 DEF Shape, SearchOpen
  <2> QED
    BY <1>1, <2>1 DEF Found, Pending, Marked
<1>4. Components(all, {})'
  <2>1. /\ \A v \in full \cup grown : Found(v)
        /\ \A e \in Edge : state[e] # UNVISITED =>
              /\ Found(left[e]) /\ Found(right[e])
              /\ left[e] \in full <=> right[e] \in full
              /\ left[e] \in grown <=> right[e] \in grown
    BY DEF Spread, Components
  <2> QED
    BY <1>0, <1>1, <1>3, <2>1 DEF Components
<1>5. Covered(all, {})'
  <2>1. /\ \A v \in full : \E e \in Edge : state[e] = v
        /\ \A v \in grown : v # starting_vertex => \E e \in Edge : state[e] = v
        /\ \E e \in Edge : state[e] = starting_vertex
    BY <1>1, <1>2 DEF Spread, Covered
  <2> QED
    BY <1>0, <1>1, <2>1 DEF Covered
<1>6. Extra(all, {})'
  <2>1. \A e \in Marked : left[e] \in all
    BY <1>0 DEF Spread, Extra
  <2>2. ~Searching'
    BY <1>1 DEF Searching
  <2> QED
    BY <1>1, <1>3, <2>1, <2>2 DEF Spread, Extra
<1>7. all \in SUBSET Vertex
  BY <1>0
<1> QED
  BY <1>4, <1>5, <1>6, <1>7 DEF Spread

(* The assembly and the abort read the search's result and leave it.       *)
LEMMA ResultSpread ==
    ASSUME NEW full \in SUBSET Vertex, NEW grown \in SUBSET Vertex, Spread(full, grown),
           Assemble \/ Abort
    PROVE  Spread(full, grown)'
<1>1. /\ ~Searching /\ ~Searching' /\ pc = "scan" /\ pc' # "edges"
      /\ UNCHANGED <<left, right, curr_vertex, dfs, state, parent_vertex, parent_edge>>
  BY DEF Assemble, Abort, hashes, tree, Searching
<1>2. \A v \in Vertex : Pending(v)' => Pending(v)
  BY <1>1 DEF Pending
<1> QED
  BY <1>1, <1>2, StillSpread

(* What a finished or failed build has looked at.                          *)
LEMMA NextStashed ==
    ASSUME Stashed, TypeOK, [Next]_vars
    PROVE  Stashed'
<1>1. CASE Assemble
  <2>1. Marked' = Marked /\ Filler' = Filler
    BY <1>1 DEF Assemble, Marked, Filler
  <2> QED
    BY <1>1, <2>1 DEF Assemble, Stashed, StashFits
<1>2. CASE Abort
  <2>1. Marked' = Marked
    BY <1>2 DEF Abort, Marked
  <2> QED
    BY <1>2, <2>1 DEF Abort, Stashed, StashFits
<1>3. CASE Search \/ Reorient \/ EndReorient
  <2>1. pc' \notin {"done", "failed"}
    BY <1>3 DEF Search, SkipVertex, StartTree, PopVertex, LeaveVertex, EndTree, TreeEdge,
                ExtraEdge, StashEdge, Reorient, EndReorient
  <2> QED
    BY <2>1 DEF Stashed
<1>4. CASE UNCHANGED vars
  <2>1. Marked' = Marked /\ Filler' = Filler
    BY <1>4 DEF vars, Marked, Filler
  <2> QED
    BY <1>4, <2>1 DEF vars, Stashed, StashFits
<1> QED
  BY <1>1, <1>2, <1>3, <1>4 DEF Next

LEMMA NextStashInv == CHTInv /\ StashInv /\ [Next]_vars => StashInv'
<1> SUFFICES ASSUME CHTInv, StashInv, [Next]_vars PROVE StashInv'
  OBVIOUS
<1>1. PICK rank \in [Vertex -> Nat], n \in Nat : Shape(rank, n)
  BY DEF CHTInv
<1>2. PICK full \in SUBSET Vertex, grown \in SUBSET Vertex : Spread(full, grown)
  BY DEF StashInv
<1>3. TypeOK /\ Stashed
  BY DEF CHTInv, StashInv
<1>4. Stashed'
  BY <1>3, NextStashed
<1> SUFFICES \E f, g \in SUBSET Vertex : Spread(f, g)'
  BY <1>4 DEF StashInv
<1>5. CASE SkipVertex
  BY <1>2, <1>3, <1>5, SkipVertexSpread
<1>6. CASE StartTree
  BY <1>2, <1>3, <1>6, StartTreeSpread
<1>7. CASE PopVertex
  BY <1>2, <1>3, <1>7, PopVertexSpread
<1>8. CASE LeaveVertex
  BY <1>2, <1>3, <1>8, LeaveVertexSpread
<1>9. CASE EndTree
  BY <1>2, <1>3, <1>9, EndTreeSpread
<1>10. ASSUME NEW e \in Edge, TreeEdge(e) PROVE \E f, g \in SUBSET Vertex : Spread(f, g)'
  BY <1>1, <1>2, <1>3, <1>10, TreeEdgeSpread
<1>11. ASSUME NEW e \in Edge, ExtraEdge(e) PROVE \E f, g \in SUBSET Vertex : Spread(f, g)'
  BY <1>1, <1>2, <1>3, <1>11, ExtraEdgeSpread
<1>12. ASSUME NEW e \in Edge, StashEdge(e) PROVE \E f, g \in SUBSET Vertex : Spread(f, g)'
  BY <1>1, <1>2, <1>3, <1>12, StashEdgeSpread
<1>13. CASE Reorient
  BY <1>1, <1>2, <1>3, <1>13, ReorientSpread
<1>14. CASE EndReorient
  BY <1>1, <1>2, <1>3, <1>14, EndReorientSpread
<1>15. CASE Assemble \/ Abort
  BY <1>2, <1>15, ResultSpread
<1>16. CASE UNCHANGED vars
  <2>1. /\ UNCHANGED <<left, right, pc, starting_vertex, curr_vertex, dfs, state,
                       parent_vertex, parent_edge, extra_edge, reorient>>
    BY <1>16 DEF vars
  <2>2. \A v \in Vertex : Pending(v)' => Pending(v)
    BY <2>1 DEF Pending
  <2> QED
    BY <1>2, <2>1, <2>2, StillSpread
<1> QED
  BY <1>5, <1>6, <1>7, <1>8, <1>9, <1>10, <1>11, <1>12, <1>13, <1>14, <1>15, <1>16
     DEF Next, Search

(* At any point of a build the vertices of the finished components that    *)
(* have an extra edge all have an edge pointing at them, no visited edge   *)
(* leaves them, and the marked edges lie among them or in the component    *)
(* being searched.                                                         *)
THEOREM StashInductive == Spec => []StashInv
<1>1. Init => StashInv
  BY InitSpread
<1>2. CHTInv /\ StashInv /\ [Next]_vars => StashInv'
  BY NextStashInv
<1> QED
  BY <1>1, <1>2, CHTInductive, PTL DEF Spec

-----------------------------------------------------------------------------
(* The stash is minimal: the counting                                      *)

(* The first k of a finite set of numbers are k: every number of the set   *)
(* has another count of smaller ones, so that the counts are all of those  *)
(* below the set's size.                                                   *)
LEMMA FirstOf ==
    ASSUME NEW S \in SUBSET Nat, IsFiniteSet(S), NEW k \in Nat, k =< Cardinality(S)
    PROVE  LET first == {e \in S : Cardinality({f \in S : f < e}) < k}
           IN  IsFiniteSet(first) /\ Cardinality(first) = k
<1> DEFINE Below(e) == {f \in S : f < e}
           rank == [e \in S |-> Cardinality(Below(e))]
           c == Cardinality(S)
           first == {e \in S : Cardinality(Below(e)) < k}
<1>1. c \in Nat
  BY FS_CardinalityType
<1>2. ASSUME NEW e \in S PROVE IsFiniteSet(Below(e)) /\ rank[e] \in 0 .. c - 1
  <2>1. Below(e) \in SUBSET S /\ Below(e) # S
    <3>1. e \notin Below(e)
      OBVIOUS
    <3> QED
      BY <3>1
  <2>2. IsFiniteSet(Below(e)) /\ Cardinality(Below(e)) =< c /\ Cardinality(Below(e)) # c
    BY <2>1, FS_Subset
  <2>3. Cardinality(Below(e)) \in Nat
    BY <2>2, FS_CardinalityType
  <2> QED
    BY <1>1, <2>2, <2>3
<1>3. ASSUME NEW e \in S, NEW f \in S, e < f PROVE rank[e] < rank[f]
  <2>1. Below(e) \in SUBSET Below(f) /\ Below(e) # Below(f)
    <3>1. \A g \in S : g < e => g < f
      BY <1>3
    <3>2. e \in Below(f) /\ e \notin Below(e)
      BY <1>3
    <3> QED
      BY <3>1, <3>2
  <2>2. Cardinality(Below(e)) =< Cardinality(Below(f)) /\ Cardinality(Below(e)) # Cardinality(Below(f))
    BY <1>2, <2>1, FS_Subset
  <2> QED
    BY <1>2, <2>2
<1>4. \A e, f \in S : rank[e] = rank[f] => e = f
  <2> SUFFICES ASSUME NEW e \in S, NEW f \in S, rank[e] = rank[f], e # f PROVE FALSE
    OBVIOUS
  <2>1. e < f \/ f < e
    OBVIOUS
  <2>2. rank[e] \in Int /\ rank[f] \in Int
    BY <1>2
  <2>3. rank[e] < rank[f] \/ rank[f] < rank[e]
    BY <1>3, <2>1
  <2> HIDE DEF rank
  <2> QED
    BY <2>2, <2>3
<1>5. rank \in [S -> 0 .. c - 1]
  BY <1>2
<1>6. \A i \in Nat : IsFiniteSet(0 .. i - 1) /\ Cardinality(0 .. i - 1) = i
  <2> TAKE i \in Nat
  <2>1. 0 \in Int /\ i - 1 \in Int
    OBVIOUS
  <2>2. /\ IsFiniteSet(0 .. i - 1)
        /\ Cardinality(0 .. i - 1) = IF 0 > i - 1 THEN 0 ELSE (i - 1) - 0 + 1
    BY <2>1, FS_Interval
  <2> QED
    BY <2>2
<1>7. rank \in Surjection(S, 0 .. c - 1)
  <2>1. rank \in Injection(S, 0 .. c - 1)
    BY <1>4, <1>5, Fun_IsInj
  <2>2. IsFiniteSet(0 .. c - 1) /\ Cardinality(S) = Cardinality(0 .. c - 1)
    BY <1>1, <1>6
  <2> HIDE DEF rank, c
  <2> QED
    BY <2>1, <2>2, FS_Injection
<1>8. \A i \in 0 .. c - 1 : \E e \in S : rank[e] = i
  <2> HIDE DEF rank, c
  <2> QED
    BY <1>7 DEF Surjection
<1>9. \A e \in S : rank[e] = Cardinality(Below(e))
  OBVIOUS
<1>10. \A e : e \in first <=> e \in S /\ rank[e] < k
  BY <1>9
<1> DEFINE r == [e \in first |-> rank[e]]
<1>11. r \in Bijection(first, 0 .. k - 1)
  <2> HIDE DEF rank, first
  <2>1. r \in [first -> 0 .. k - 1]
    <3>1. ASSUME NEW e \in first PROVE rank[e] \in 0 .. k - 1
      <4>1. rank[e] \in 0 .. c - 1 /\ rank[e] < k
        BY <1>5, <1>10, <3>1
      <4> QED
        BY <1>1, <4>1
    <3> QED
      BY <3>1
  <2>2. \A e, f \in first : r[e] = r[f] => e = f
    BY <1>4, <1>10
  <2>3. ASSUME NEW i \in 0 .. k - 1 PROVE \E e \in first : r[e] = i
    <3>1. PICK e \in S : rank[e] = i
      BY <1>1, <1>8
    <3> QED
      BY <1>10, <3>1
  <2> QED
    BY <2>1, <2>2, <2>3, Fun_IsBij
<1>12. IsFiniteSet(0 .. k - 1) /\ Cardinality(0 .. k - 1) = k
  BY <1>6
<1>13. IsFiniteSet(first) /\ Cardinality(first) = k
  <2>1. ExistsBijection(first, 0 .. k - 1)
    BY <1>11 DEF ExistsBijection
  <2>2. ExistsBijection(0 .. k - 1, first)
    BY <2>1, Fun_ExistsBijSymmetric
  <2> HIDE DEF first
  <2> QED
    BY <1>12, <2>2, FS_Bijection
<1> QED
  BY <1>13

LEMMA FiniteEdges ==
    /\ IsFiniteSet(Edge) /\ Cardinality(Edge) = NumEdges
    /\ IsFiniteSet(Vertex)
<1>1. NumEdges \in Nat /\ NumVertices \in Nat
  BY Marks, CHTAssumption
<1> QED
  BY <1>1, FS_Interval DEF Edge, Vertex

LEMMA MaxIs ==
    ASSUME NEW S \in SUBSET Int, NEW m \in S, \A x \in S : x =< m
    PROVE  Max(S) = m
<1>1. m \in S /\ \A y \in S : m >= y
  OBVIOUS
<1>2. \A x \in S : (\A y \in S : x >= y) => x = m
  OBVIOUS
<1> QED
  BY <1>1, <1>2 DEF Max

(* At the end every edge has been visited: every vertex has been a starting*)
(* vertex.  The edges that are not marked point at different ends.         *)
Placed ==
    /\ \A e \in Edge : state[e] # UNVISITED
    /\ \A e \in Edge \ Marked : state[e] \in Vertex /\ state[e] \in Ends(e)
    /\ \A e, f \in Edge \ Marked : state[e] = state[f] => e = f

LEMMA EndPlaced ==
    ASSUME CHTInv, StashInv, pc \in {"done", "failed"}
    PROVE  Placed
<1>1. PICK rank \in [Vertex -> Nat], n \in Nat : Shape(rank, n)
  BY DEF CHTInv
<1>2. TypeOK /\ starting_vertex = NumVertices
  BY DEF CHTInv, StashInv, Stashed
<1>3. \A v \in Vertex : Found(v) /\ ~Pending(v)
  <2>1. dfs = <<>>
    BY <1>1 DEF Shape, SearchOpen
  <2> QED
    BY <1>1, <1>2, <2>1, Marks DEF Shape, SearchOpen, Pending
<1>4. ASSUME NEW e \in Edge PROVE state[e] # UNVISITED
  BY <1>1, <1>2, <1>3, LeftRight DEF Shape, SearchOpen
<1>5. \A e \in Edge \ Marked : state[e] \in Vertex
  BY <1>2, <1>4 DEF TypeOK, Marked
<1> QED
  BY <1>1, <1>4, <1>5 DEF Shape, Oriented, Placed

Neighbours(G) == UNION {Ends(e) : e \in G}

(* No set of elements has more of them than slots and marked ones.         *)
LEMMA AtMostMarked ==
    ASSUME TypeOK, Placed, NEW G \in SUBSET Edge
    PROVE  /\ Cardinality(G) - Cardinality(Neighbours(G)) \in Int
           /\ Cardinality(G) - Cardinality(Neighbours(G)) =< Cardinality(Marked)
<1>1. /\ IsFiniteSet(G) /\ IsFiniteSet(Marked) /\ IsFiniteSet(Neighbours(G))
  <2>1. Neighbours(G) \in SUBSET Vertex /\ Marked \in SUBSET Edge
    BY EndsFacts DEF Neighbours, Marked
  <2> QED
    BY <2>1, FiniteEdges, FS_Subset
<1> DEFINE place == [e \in G \ Marked |-> state[e]]
<1>2. place \in Injection(G \ Marked, Neighbours(G))
  <2>1. \A e \in G \ Marked : state[e] \in Neighbours(G)
    BY DEF Placed, Neighbours
  <2>2. place \in [G \ Marked -> Neighbours(G)]
    BY <2>1
  <2>3. \A e, f \in G \ Marked : place[e] = place[f] => e = f
    BY DEF Placed
  <2> QED
    BY <2>2, <2>3, Fun_IsInj
<1>3. Cardinality(G \ Marked) =< Cardinality(Neighbours(G))
  BY <1>1, <1>2, FS_Injection
<1>4. /\ Cardinality(G \ Marked) = Cardinality(G) - Cardinality(G \cap Marked)
      /\ Cardinality(G \cap Marked) =< Cardinality(Marked)
      /\ IsFiniteSet(G \cap Marked) /\ IsFiniteSet(G \ Marked)
  BY <1>1, FS_Difference, FS_Intersection
<1>5. /\ Cardinality(G) \in Nat /\ Cardinality(G \cap Marked) \in Nat
      /\ Cardinality(Marked) \in Nat /\ Cardinality(Neighbours(G)) \in Nat
      /\ Cardinality(G \ Marked) \in Nat
  BY <1>1, <1>4, FS_CardinalityType
<1> QED
  BY <1>3, <1>4, <1>5

(* The elements of the components with an extra edge fill these components'*)
(* slots exactly, and the marked ones are what is left of them.            *)
LEMMA MarkedAttained ==
    ASSUME TypeOK, Placed, NEW full \in SUBSET Vertex, Spread(full, {}), ~Searching
    PROVE  \E G \in SUBSET Edge :
              Cardinality(G) - Cardinality(Neighbours(G)) = Cardinality(Marked)
<1>1. PICK G : G = {e \in Edge : left[e] \in full}
  OBVIOUS
<1>2. \A e \in Edge : left[e] \in full <=> right[e] \in full
  BY DEF Placed, Spread, Components
<1>3. ASSUME NEW v \in full PROVE \E e \in G \ Marked : state[e] = v /\ v \in Ends(e)
  <2>1. PICK e \in Edge : state[e] = v
    BY <1>3 DEF Spread, Covered
  <2>2. e \notin Marked
    BY <1>3, <2>1, Marks DEF Marked
  <2>3. v \in Ends(e)
    BY <2>1, <2>2 DEF Placed
  <2>4. v = left[e] \/ v = right[e]
    BY <2>3, LeftRight
  <2> QED
    BY <1>1, <1>2, <2>1, <2>2, <2>3, <2>4
<1>4. \A e \in G : Ends(e) \subseteq full
  BY <1>1, <1>2 DEF Ends
<1>5. Neighbours(G) = full
  <2>1. Neighbours(G) \subseteq full
    BY <1>4 DEF Neighbours
  <2>2. \A v \in full : v \in Neighbours(G)
    BY <1>3 DEF Neighbours
  <2> QED
    BY <2>1, <2>2
<1>6. Marked \subseteq G /\ G \in SUBSET Edge
  <2>1. \A e \in Marked : left[e] \in full /\ e \in Edge
    BY DEF Spread, Extra, Marked
  <2> QED
    BY <1>1, <2>1
<1>7. IsFiniteSet(G) /\ IsFiniteSet(Marked) /\ IsFiniteSet(full) /\ IsFiniteSet(G \ Marked)
  BY <1>6, FiniteEdges, FS_Subset
<1> DEFINE place == [e \in G \ Marked |-> state[e]]
<1>8. place \in Bijection(G \ Marked, full)
  <2>1. \A e \in G \ Marked : state[e] \in full
    BY <1>4, <1>6 DEF Placed
  <2>2. place \in [G \ Marked -> full]
    BY <2>1
  <2>3. \A e, f \in G \ Marked : place[e] = place[f] => e = f
    BY <1>6 DEF Placed
  <2>4. \A v \in full : \E e \in G \ Marked : place[e] = v
    BY <1>3
  <2> QED
    BY <2>2, <2>3, <2>4, Fun_IsBij
<1>9. Cardinality(full) = Cardinality(G \ Marked)
  <2>1. ExistsBijection(G \ Marked, full)
    BY <1>8 DEF ExistsBijection
  <2> QED
    BY <1>7, <2>1, FS_Bijection
<1>10. G \cap Marked = Marked
  BY <1>6
<1>11. Cardinality(G \ Marked) = Cardinality(G) - Cardinality(Marked)
  BY <1>7, <1>10, FS_Difference
<1>12. Cardinality(G) \in Nat /\ Cardinality(Marked) \in Nat
  BY <1>7, FS_CardinalityType
<1> QED
  BY <1>5, <1>6, <1>9, <1>11, <1>12

LEMMA MarkedIsDeficiency ==
    ASSUME CHTInv, StashInv, pc \in {"done", "failed"}
    PROVE  Cardinality(Marked) = Deficiency
<1>1. TypeOK /\ Placed /\ ~Searching
  BY EndPlaced DEF CHTInv, Searching
<1>2. PICK full \in SUBSET Vertex, grown \in SUBSET Vertex : Spread(full, grown)
  BY DEF StashInv
<1>3. grown = {}
  BY <1>1, <1>2 DEF Spread, Components
<1> DEFINE Excess(G) == Cardinality(G) - Cardinality(Neighbours(G))
           S == {Excess(G) : G \in SUBSET Edge}
<1>4. S \in SUBSET Int /\ \A x \in S : x =< Cardinality(Marked)
  BY <1>1, AtMostMarked
<1>5. Cardinality(Marked) \in S
  BY <1>1, <1>2, <1>3, MarkedAttained
<1>6. Max(S) = Cardinality(Marked)
  <2> HIDE DEF S
  <2> QED
    BY <1>4, <1>5, MaxIs
<1> QED
  BY <1>6 DEF Deficiency, Neighbours

(* The stash is the marked elements and as many more as it has room for.   *)
LEMMA StashFull ==
    ASSUME CHTInv, StashInv, pc = "done"
    PROVE  Cardinality(stash) = StashLength
<1>1. stash = Marked \cup Filler /\ Cardinality(Marked) =< StashLength /\ StashLength =< NumEdges
  BY DEF StashInv, Stashed, StashFits
<1>2. PICK S : S = Edge \ Marked
  OBVIOUS
<1>3. IsFiniteSet(Marked) /\ IsFiniteSet(S) /\ Cardinality(Marked) \in Nat
      /\ Cardinality(S) = NumEdges - Cardinality(Marked)
  <2>1. Marked \in SUBSET Edge /\ Edge \cap Marked = Marked
    BY DEF Marked
  <2>2. IsFiniteSet(Marked)
    BY <2>1, FiniteEdges, FS_Subset
  <2> QED
    BY <1>2, <2>1, <2>2, FiniteEdges, FS_Difference, FS_CardinalityType
<1>4. PICK k \in Nat : k = StashLength - Cardinality(Marked)
  BY <1>1, <1>3, CHTAssumption
<1>5. k =< Cardinality(S) /\ S \in SUBSET Nat
  <2>1. S \in SUBSET Nat
    BY <1>2, Marks
  <2> QED
    BY <1>1, <1>3, <1>4, <2>1, CHTAssumption
<1>6. Filler = {e \in S : Cardinality({f \in S : f < e}) < k}
  BY <1>2, <1>4 DEF Filler
<1>7. IsFiniteSet(Filler) /\ Cardinality(Filler) = k
  BY <1>3, <1>5, <1>6, FirstOf
<1>8. Marked \cap Filler = {}
  BY DEF Filler
<1>9. Cardinality(Marked \cup Filler) = Cardinality(Marked) + k
  BY <1>3, <1>7, <1>8, FS_Union, FS_EmptySet
<1> QED
  BY <1>1, <1>3, <1>4, <1>9, CHTAssumption

LEMMA InvStashMinimal == CHTInv /\ StashInv => StashMinimal
<1> SUFFICES ASSUME CHTInv, StashInv, pc \in {"done", "failed"}
             PROVE  /\ Cardinality(Marked) = Deficiency
                    /\ pc = "done" => Cardinality(stash) = StashLength
                    /\ pc = "failed" => Deficiency > StashLength \/ NumEdges < StashLength
  BY DEF StashMinimal
<1>1. Cardinality(Marked) = Deficiency /\ Cardinality(Marked) \in Nat
  <2>1. Marked \in SUBSET Edge
    BY DEF Marked
  <2> QED
    BY <2>1, MarkedIsDeficiency, FiniteEdges, FS_Subset, FS_CardinalityType
<1>2. pc = "failed" => ~StashFits
  BY DEF StashInv, Stashed
<1> QED
  BY <1>1, <1>2, StashFull, CHTAssumption DEF StashFits

(* The search marks exactly as many elements as every placement has to     *)
(* leave out, for every input and table size; a build that returns fills   *)
(* the stash, and one that fails had no placement to find.                 *)
THEOREM StashMinimalHolds == Spec => []StashMinimal
<1>1. CHTInv /\ StashInv => StashMinimal
  BY InvStashMinimal
<1> QED
  BY <1>1, CHTInductive, StashInductive, PTL
=============================================================================
