---------------------------- MODULE PrimForests ----------------------------
(***************************************************************************)
(* primmst.c and lazyprimmst.c: minimum spanning forests grown from one    *)
(* vertex after the other.  The eager algorithm keeps vertices in an       *)
(* indexed heap, the lazy one edges in a heap; both heaps are the bag of   *)
(* keys their headers promise, and a deletion takes one of the smallest.   *)
(***************************************************************************)
EXTENDS WeightedGraph, FiniteSets

VARIABLES adj,          \* the graph
          lazy,         \* TRUE for lazyprimmst.c
          pc,
          marked,       \* the vertices in a tree
          distto,       \* distto[v] is the weight of edgeto[v]
          edgeto,       \* the lightest edge from a tree to v
          held,         \* pmst->pq: the key of vertex v, or NoKey
          queue,        \* lpmst->pq: its edges
          mst,          \* lpmst->mst
          todo,         \* the vertices still to be scanned
          rest          \* what is left of the adjacency list being scanned

vars == <<adj, lazy, pc, marked, distto, edgeto, held, queue, mst, todo, rest>>

AllEdges == UNION {ToSet(adj[v]) : v \in Vertices}
NoEdge   == [id |-> 0, v |-> 0, w |-> 0, weight |-> 0]
NoKey    == INFINITY    \* no key: weights are finite

Init ==
    /\ pc = "next"
    /\ marked = {}
    /\ distto = [v \in Vertices |-> INFINITY]
    /\ edgeto = [v \in Vertices |-> NoEdge]
    /\ held = [v \in Vertices |-> NoKey]
    /\ queue = {}
    /\ mst = <<>>
    /\ todo = <<>>
    /\ rest = <<>>

Unmarked == Vertices \ marked
-----------------------------------------------------------------------------
(* The first vertex that is not marked starts a tree: prim(pmst, g, s). *)
Start ==
    /\ pc = "next"
    /\ Unmarked # {}
    /\ LET s == Min(Unmarked)
       IN  IF lazy THEN /\ todo' = <<s>>
                        /\ UNCHANGED <<distto, held>>
                   ELSE /\ distto' = [distto EXCEPT ![s] = 0]
                        /\ held' = [held EXCEPT ![s] = 0]
                        /\ UNCHANGED todo
    /\ pc' = "grow"
    /\ UNCHANGED <<adj, lazy, marked, edgeto, queue, mst, rest>>

Finish ==
    /\ pc = "next"
    /\ Unmarked = {}
    /\ pc' = "done"
    /\ UNCHANGED <<adj, lazy, marked, distto, edgeto, held, queue, mst, todo, rest>>

Heap == {v \in Vertices : held[v] # NoKey}

(* ipheap_delete takes a vertex with a smallest key; it is scanned. *)
Delete ==
    /\ pc = "grow"
    /\ ~lazy
    /\ \E v \in Heap :
           /\ \A w \in Heap : held[v] <= held[w]
           /\ held' = [held EXCEPT ![v] = NoKey]
           /\ todo' = <<v>>
    /\ pc' = "scan"
    /\ UNCHANGED <<adj, lazy, marked, distto, edgeto, queue, mst, rest>>

(* pheap_delete takes a smallest edge; its new end is scanned, unless both
   ends are in the tree already. *)
LazyDelete ==
    /\ pc = "grow"
    /\ lazy
    /\ todo = <<>>
    /\ \E e \in queue :
           /\ \A f \in queue : e.weight <= f.weight
           /\ queue' = queue \ {e}
           /\ mst' = IF {e.v, e.w} \subseteq marked THEN mst ELSE Append(mst, e)
           /\ todo' = (IF e.v \in marked THEN <<>> ELSE <<e.v>>)
                        \o (IF e.w \in marked THEN <<>> ELSE <<e.w>>)
    /\ UNCHANGED <<adj, lazy, pc, marked, distto, edgeto, held, rest>>

LazyScan ==
    /\ pc = "grow"
    /\ lazy
    /\ todo # <<>>
    /\ pc' = "scan"
    /\ UNCHANGED <<adj, lazy, marked, distto, edgeto, held, queue, mst, todo, rest>>

Grown ==
    /\ pc = "grow"
    /\ todo = <<>> /\ Heap = {} /\ queue = {}
    /\ pc' = "next"
    /\ UNCHANGED <<adj, lazy, marked, distto, edgeto, held, queue, mst, todo, rest>>
-----------------------------------------------------------------------------
(* scan: the vertex is marked, and its adjacency list is run through. *)
Scan ==
    /\ pc = "scan"
    /\ Head(todo) \notin marked
    /\ marked' = marked \cup {Head(todo)}
    /\ rest' = adj[Head(todo)]
    /\ UNCHANGED <<adj, lazy, pc, distto, edgeto, held, queue, mst, todo>>

Scanning == pc = "scan" /\ Head(todo) \in marked
Across   == Other(Head(rest), Head(todo))

(* Mutant: the heap is not told of a lighter edge to a vertex in it. *)
RelaxKeepingKey ==
    /\ Scanning
    /\ rest # <<>>
    /\ ~lazy
    /\ Across \notin marked
    /\ Head(rest).weight < distto[Across]
    /\ distto' = [distto EXCEPT ![Across] = Head(rest).weight]
    /\ edgeto' = [edgeto EXCEPT ![Across] = Head(rest)]
    /\ held' = [held EXCEPT ![Across] = IF @ = NoKey THEN Head(rest).weight ELSE @]
    /\ rest' = Tail(rest)
    /\ UNCHANGED <<adj, lazy, pc, marked, queue, mst, todo>>

(* A lighter edge to a vertex outside: ipheap_insert or ipheap_change. *)
Relax ==
    /\ Scanning
    /\ rest # <<>>
    /\ ~lazy
    /\ Across \notin marked
    /\ Head(rest).weight < distto[Across]
    /\ distto' = [distto EXCEPT ![Across] = Head(rest).weight]
    /\ edgeto' = [edgeto EXCEPT ![Across] = Head(rest)]
    /\ held' = [held EXCEPT ![Across] = Head(rest).weight]
    /\ rest' = Tail(rest)
    /\ UNCHANGED <<adj, lazy, pc, marked, queue, mst, todo>>

LazyInsert ==
    /\ Scanning
    /\ rest # <<>>
    /\ lazy
    /\ Across \notin marked
    /\ queue' = queue \cup {Head(rest)}
    /\ rest' = Tail(rest)
    /\ UNCHANGED <<adj, lazy, pc, marked, distto, edgeto, held, mst, todo>>

Skip ==
    /\ Scanning
    /\ rest # <<>>
    /\ Across \in marked \/ (~lazy /\ Head(rest).weight >= distto[Across])
    /\ rest' = Tail(rest)
    /\ UNCHANGED <<adj, lazy, pc, marked, distto, edgeto, held, queue, mst, todo>>

Scanned ==
    /\ Scanning
    /\ rest = <<>>
    /\ todo' = Tail(todo)
    /\ pc' = "grow"
    /\ UNCHANGED <<adj, lazy, marked, distto, edgeto, held, queue, mst, rest>>

Work ==
    \/ Start \/ Finish \/ Delete \/ LazyDelete \/ LazyScan \/ Grown
    \/ Scan \/ Relax \/ LazyInsert \/ Skip \/ Scanned

Done == pc = "done" /\ UNCHANGED vars

Next == Work \/ Done
-----------------------------------------------------------------------------
TypeOK ==
    /\ pc \in {"next", "grow", "scan", "done"}
    /\ marked \subseteq Vertices
    /\ edgeto \in [Vertices -> AllEdges \cup {NoEdge}]
    /\ queue \cup ToSet(mst) \cup ToSet(rest) \subseteq AllEdges
    /\ ToSet(todo) \subseteq Vertices
    /\ pc = "scan" => todo # <<>>

(* pmst_edges_get, of the vertices that are in a tree. *)
Chosen ==
    IF lazy THEN ToSet(mst) ELSE {edgeto[v] : v \in marked} \ {NoEdge}

(* Between scans the heap holds exactly the vertices that an edge joins to
   the tree, each with the weight of its lightest such edge. *)
HeapIsFringe ==
    pc = "grow" /\ ~lazy /\ marked # {} =>
        \A w \in Unmarked :
            LET crossing == {e \in AllEdges : w \in {e.v, e.w} /\ Other(e, w) \in marked}
            IN  /\ crossing = {} => held[w] \in {NoKey, 0}
                /\ crossing # {} => held[w] = Min({e.weight : e \in crossing})
                                    /\ edgeto[w] \in crossing
                                    /\ held[w] = edgeto[w].weight
=============================================================================
