---------------------------- MODULE ShortestPaths ----------------------------
(***************************************************************************)
(* The edge-weighted digraphs of graphs/weighteddigraph and the shortest   *)
(* paths in them.  An arc is a record in the list of its tail; adj[v] is   *)
(* the sequence of such records.  Weights are whole numbers.               *)
(***************************************************************************)
EXTENDS GraphSearch

CONSTANTS Weights,
          Ends,         \* bound: the vertices that arcs with weights join
          MaxArcs       \* bound on their number

Inf   == 1000000        \* INFINITY
NoArc == [v |-> None, w |-> None, weight |-> 0]     \* NULL, or not diedge_isvalid

Plus(d, weight) == IF d = Inf THEN Inf ELSE d + weight

(* Bound: arcs are added in the order of their ends. *)
InOrder(v, w) ==
    \A x \in Vertices : \A n \in DOMAIN adj[x] : x * V + adj[x][n].w <= v * V + w

(* ewdigraph_add_edge; it ends the program when v or w is no vertex. *)
AddDiedge(v, w, weight) ==
    /\ edges < MaxArcs
    /\ InOrder(v, w)
    /\ adj' = Put(adj, v, [v |-> v, w |-> w, weight |-> weight])
    /\ indegree' = [indegree EXCEPT ![w] = @ + 1]
    /\ edges' = edges + 1
    /\ UNCHANGED directed

(* ewdigraph_init_fistream and ewdigraph_init_randomly: arcs one by one. *)
WeightedNext == \E v, w \in Ends, weight \in Weights : AddDiedge(v, w, weight)

(* ewdigraph_clone: the arcs are copied through a stack, so that the lists keep
   their order; the clone has no indegree array. *)
Cloned(net) ==
    [v \in Vertices |-> FoldLeft(LAMBDA list, e : <<e>> \o list, <<>>, Reverse(net[v]))]

(* ewdigraph_edges_get *)
AllArcs(net) == FoldLeft(LAMBDA s, v : s \o net[v], <<>>, Ascending)

(* The heads of the arcs: what the searches look at. *)
Heads(net) == [v \in Vertices |-> [n \in DOMAIN net[v] |-> net[v][n].w]]

(* adjmatewdg_add_edge of the arcs in the order they were added: the first arc
   between two vertices stays. *)
AdjMatrix(net) ==
    [v \in Vertices |-> [w \in Vertices |->
        LET arcs == SelectSeq(net[v], LAMBDA e : e.w = w)
        IN  IF arcs = <<>> THEN NoArc ELSE Last(arcs)]]
-----------------------------------------------------------------------------
(* ewdigraph_dfso_init *)
WeightedOrder(net) == DepthFirstOrder(Heads(net))

RECURSIVE HuntArcs(_, _, _), BackArcs(_, _, _)

(* The arcs from w on to f, back along edgeto: what dfs pushes. *)
BackArcs(edgeto, f, w) ==
    IF f.v = w THEN <<f>> ELSE Append(BackArcs(edgeto, edgeto[f.v], w), f)

(* dfs of ewdigraphcycle.c; it returns as soon as there is a cycle, and then
   leaves its vertices on the stack. *)
HuntArcs(net, v, s) ==
    LET step(t, e) ==
            IF t.cycle # <<>> THEN t
            ELSE IF e.w \notin t.marked THEN HuntArcs(net, e.w, [t EXCEPT !.edgeto[e.w] = e])
            ELSE IF e.w \in t.onstack THEN [t EXCEPT !.cycle = BackArcs(t.edgeto, e, e.w)]
            ELSE t
        seen == FoldLeft(step, [s EXCEPT !.marked = @ \cup {v}, !.onstack = @ \cup {v}], net[v])
    IN  IF seen.cycle # <<>> THEN seen ELSE Left(seen, v)

(* ewdigraph_cycle_init: the cycle, its first arc on top of the stack. *)
CycleArcs(net) ==
    FoldLeft(LAMBDA s, v : IF v \in s.marked THEN s ELSE HuntArcs(net, v, s),
             [NoCycle EXCEPT !.edgeto = [v \in Vertices |-> NoArc]], Ascending).cycle

(* ewdtplg_use_dfso *)
WeightedTopologicalByDfs(net) ==
    IF CycleArcs(net) # <<>> THEN <<>> ELSE Reverse(WeightedOrder(net).post)

(* ewdtplg_use_queue: the order is given up when a vertex is left. *)
WeightedTopologicalByQueue(net, degrees) ==
    LET order == Peeled(Heads(net), degrees).order
    IN  IF Len(order) # V THEN <<>> ELSE order

-----------------------------------------------------------------------------
Started(s) ==
    [distto |-> [v \in Vertices |-> IF v = s THEN 0 ELSE Inf],
     edgeto |-> [v \in Vertices |-> NoArc]]

Shortens(sp, e) == sp.distto[e.w] > Plus(sp.distto[e.v], e.weight)

(* relax *)
Relaxed(sp, e) ==
    IF Shortens(sp, e)
    THEN [sp EXCEPT !.distto[e.w] = Plus(sp.distto[e.v], e.weight), !.edgeto[e.w] = e]
    ELSE sp

RECURSIVE ArcsTo(_, _)

(* acycsp_paths_get, bmfsp_paths_get and dijkstrasp_pathto: back along edgeto. *)
ArcsTo(edgeto, v) ==
    IF edgeto[v] = NoArc THEN <<>> ELSE Append(ArcsTo(edgeto, edgeto[v].v), edgeto[v])

(* acycsp_init of an acyclic digraph *)
Acyclic(net, degrees, s) ==
    FoldLeft(LAMBDA sp, v : FoldLeft(LAMBDA t, e : Relaxed(t, e), sp, net[v]),
             Started(s), WeightedTopologicalByQueue(net, degrees))

RECURSIVE DijkstraRuns(_, _, _)

(* The while loop of dijkstrasp_init: the ways it can end, since the indexed
   pairing heap deletes any index of a smallest key.  A key is the distance. *)
DijkstraRuns(net, sp, pq) ==
    IF pq = {} THEN {sp}
    ELSE UNION {LET after == FoldLeft(LAMBDA t, e : Relaxed(t, e), sp, net[v])
                    found == {w \in Vertices : after.distto[w] < sp.distto[w]}
                IN  DijkstraRuns(net, after, (pq \ {v}) \cup found) :
                   v \in {u \in pq : \A w \in pq : sp.distto[u] <= sp.distto[w]}}

(* dijkstrasp_init of a digraph without negative weights *)
Dijkstra(net, s) == DijkstraRuns(net, Started(s), {s})

(* djkr_pairsp_init: one run from each vertex; djkr_pairsp_path and
   djkr_pairsp_dist look into the run from s. *)
DijkstraPairs(net) == [s \in Vertices |-> Dijkstra(net, s)]
-----------------------------------------------------------------------------
(* find_negative_cycle: a cycle among the arcs of edgeto.  The code frees one of
   its copied arcs twice when there is one and may stop there. *)
NegativeCycle(edgeto) ==
    CycleArcs([v \in Vertices |->
        FoldLeft(LAMBDA list, w : IF edgeto[w].v = v THEN <<edgeto[w]>> \o list ELSE list,
                 <<>>, Ascending)])

Looks(cost) == cost % V = 0

RECURSIVE BellmanFordRun(_, _)

(* relax of bellmanfordsp.c for the arcs of the dequeued vertex, as long as the
   while loop of bmfsp_init goes on. *)
BellmanFordRun(net, sp) ==
    IF sp.quvr = <<>> \/ sp.cycle # <<>> THEN sp
    ELSE LET onqueue(t, w) == \E n \in DOMAIN t.quvr : t.quvr[n] = w
             queued(t, e) == IF ~Shortens(t, e) THEN t
                             ELSE [Relaxed(t, e) EXCEPT
                                      !.quvr = IF onqueue(t, e.w) THEN @ ELSE Append(@, e.w)]
             step(t, e) == IF t.cycle # <<>> THEN t
                           ELSE LET u == [queued(t, e) EXCEPT !.cost = @ + 1]
                                IN  IF Looks(u.cost) THEN [u EXCEPT !.cycle = NegativeCycle(u.edgeto)]
                                    ELSE u
         IN  BellmanFordRun(net, FoldLeft(step, [sp EXCEPT !.quvr = Tail(@)],
                                          net[Head(sp.quvr)]))

(* bmfsp_init; cost has any value at the start, the code does not set it. *)
BellmanFord(net, s, cost) ==
    BellmanFordRun(net, [distto |-> Started(s).distto, edgeto |-> Started(s).edgeto,
                         quvr |-> <<s>>, cycle |-> <<>>, cost |-> cost])
-----------------------------------------------------------------------------
(* The tables of fwsp_init.  A loop of positive weight or none makes the
   distance of a vertex from itself 0, a loop of weight 0 stays an arc. *)
FloydWarshallTables(matrix) ==
    LET dist(v, w) == IF matrix[v][w] = NoArc THEN Inf ELSE matrix[v][w].weight
        reset(v, w) == v = w /\ dist(v, w) > 0
    IN  [distto |-> [v \in Vertices |-> [w \in Vertices |-> IF reset(v, w) THEN 0 ELSE dist(v, w)]],
         edgeto |-> [v \in Vertices |-> [w \in Vertices |-> IF reset(v, w) THEN NoArc ELSE matrix[v][w]]],
         negcycle |-> FALSE]

(* Mutant: the first arc of the detour instead of its last. *)
FloydWarshallLinkedFirst(t, i, v, w) ==
    [t EXCEPT !.distto[v][w] = Plus(t.distto[v][i], t.distto[i][w]),
              !.edgeto[v][w] = t.edgeto[v][i]]

FloydWarshallLinked(t, i, v, w) ==
    [t EXCEPT !.distto[v][w] = Plus(t.distto[v][i], t.distto[i][w]),
              !.edgeto[v][w] = t.edgeto[i][w]]

(* The three loops of fwsp_init, which stop at a negative cycle. *)
FloydWarshall(matrix) ==
    LET through(t, i, v, w) ==
            IF t.distto[i][w] # Inf /\ t.distto[v][w] > t.distto[v][i] + t.distto[i][w]
            THEN FloydWarshallLinked(t, i, v, w) ELSE t
        from(t, i, v) ==
            IF t.negcycle \/ t.edgeto[v][i] = NoArc THEN t
            ELSE LET u == FoldLeft(LAMBDA r, w : through(r, i, v, w), t, Ascending)
                 IN  [u EXCEPT !.negcycle = u.distto[v][v] < 0]
    IN  FoldLeft(LAMBDA t, i : FoldLeft(LAMBDA r, v : from(r, i, v), t, Ascending),
                 FloydWarshallTables(matrix), Ascending)

(* The loop of fwsp_path_get after V turns: it ends at a vertex without
   an arc, and never when the arcs come back to a vertex, as at a loop of
   weight 0 at s. *)
FloydWarshallBack(t, s, w) ==
    LET back[n \in 0 .. V] ==
            IF n = 0 THEN <<t.edgeto[s][w]>>
            ELSE IF back[n - 1][1] = NoArc THEN back[n - 1]
                 ELSE <<t.edgeto[s][back[n - 1][1].v]>> \o back[n - 1]
    IN  back[V]

FloydWarshallPathEnds(t, s, w) == Head(FloydWarshallBack(t, s, w)) = NoArc

FloydWarshallPath(t, s, w) == Tail(FloydWarshallBack(t, s, w))

-----------------------------------------------------------------------------
(* The counters agree with the lists. *)
ListsCounted ==
    /\ edges = Len(AllArcs(adj))
    /\ \A w \in Vertices :
          indegree[w] = Len(SelectSeq(AllArcs(adj), LAMBDA e : e.w = w))
=============================================================================
