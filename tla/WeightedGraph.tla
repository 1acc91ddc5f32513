---------------------------- MODULE WeightedGraph ----------------------------
(***************************************************************************)
(* graphs/weightedgraph/edgeweightedgraph.c: an undirected graph whose     *)
(* edges have weights, as the adjacency list of every vertex.  An edge is  *)
(* a record, one for all lists it is in; its id stands for its address.    *)
(***************************************************************************)
EXTENDS Integers, SequencesExt

CONSTANTS V,            \* the number of vertices
          INFINITY      \* greater than every weight, as in math.h

ASSUME VAssumption == V \in Nat \ {0}
ASSUME InfinityAssumption == INFINITY \in Nat \ {0}

Vertices == 0 .. V - 1
Weights  == {x \in Int : x < INFINITY}
Edges    == [id : Nat \ {0}, v : Vertices, w : Vertices, weight : Weights]

(* edge_other *)
Other(e, v) == IF e.v = v THEN e.w ELSE e.v

(* ewgraph_add_edge: slist_put at both ends, twice at the end of a loop. *)
AddEdge(adj, e) == [[adj EXCEPT ![e.v] = <<e>> \o @] EXCEPT ![e.w] = <<e>> \o @]

(* ewgraph_init, and the edges of the input one after the other. *)
GraphOf(added) ==
    LET built[n \in 0 .. Len(added)] ==
            IF n = 0 THEN [v \in Vertices |-> <<>>] ELSE AddEdge(built[n - 1], added[n])
    IN  built[Len(added)]

(* ewgraph_edges_get takes the edges to greater vertices, and the first, third
   and so on of the copies of self-loops. *)
Loops(list, v, n) == Cardinality({m \in 1 .. n : Other(list[m], v) = v})

Taken(list, v, n) ==
    LET u == Other(list[n], v) IN u > v \/ (u = v /\ Loops(list, v, n) % 2 = 1)

EdgesAt(list, v) ==
    LET some[n \in 0 .. Len(list)] ==
            IF n = 0 THEN <<>>
            ELSE IF Taken(list, v, n) THEN Append(some[n - 1], list[n]) ELSE some[n - 1]
    IN  some[Len(list)]

EdgesGet(adj) ==
    LET all[n \in 0 .. V] ==
            IF n = 0 THEN <<>> ELSE all[n - 1] \o EdgesAt(adj[n - 1], n - 1)
    IN  all[V]
-----------------------------------------------------------------------------
(* The vertices S and the other ends of the edges E that have an end in S. *)
Wider(E, S) == S \cup UNION {{e.v, e.w} : e \in {f \in E : {f.v, f.w} \cap S # {}}}

(* The component of v in the graph of the edges E. *)
Component(E, v) ==
    LET reach[n \in 0 .. V] == IF n = 0 THEN {v} ELSE Wider(E, reach[n - 1])
    IN  reach[V]

Joined(E, v, w) == w \in Component(E, v)

(* The edges F are part of a minimum spanning forest of the graph E: no edge
   of F closes a cycle with lighter edges and its equals in F, so that a
   greedy choice that prefers F among equals takes all of F. *)
PartOfMinimum(F, E) ==
    \A f \in F :
        ~Joined({e \in E : e.weight < f.weight} \cup {g \in F \ {f} : g.weight = f.weight},
                f.v, f.w)

(* F joins what the graph joins. *)
SpansAll(F, E) == \A e \in E : Joined(F, e.v, e.w)
=============================================================================
