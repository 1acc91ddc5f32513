--------------------------- MODULE SpanningForests ---------------------------
(***************************************************************************)
(* kruskalmst.c and boruvkamst.c: minimum spanning forests by union-find.  *)
(* canon maps a vertex to the root that uf_find returns for it.             *)
(***************************************************************************)
EXTENDS WeightedGraph, FiniteSets

VARIABLES adj,          \* the graph
          alg,          \* "kruskal" or "boruvka"
          pc,
          edges,        \* the edges still to be looked at, in their order
          canon,        \* canon[v] is the root uf_find returns for v
          rank,         \* uf.rank, of the roots
          mst,          \* the edges of the forest
          closest,      \* Boruvka: the edge found for each root
          k,            \* Boruvka: the round's bound
          i             \* Boruvka: the root the adding loop has reached

vars == <<adj, alg, pc, edges, canon, rank, mst, closest, k, i>>

AllEdges == UNION {ToSet(adj[v]) : v \in Vertices}
NoEdge   == [id |-> 0, v |-> 0, w |-> 0, weight |-> 0]

Init ==
    /\ pc = "start"
    /\ edges = <<>>
    /\ canon = [v \in Vertices |-> v]
    /\ rank = [v \in Vertices |-> 0]
    /\ mst = <<>>
    /\ closest = [v \in Vertices |-> NoEdge]
    /\ k = 1
    /\ i = 0

(* uf_connected, and uf_union of the ends of e with slist_append of e. *)
Connects(e) == canon[e.v] # canon[e.w]

Root(e) == IF rank[canon[e.v]] < rank[canon[e.w]] THEN canon[e.w] ELSE canon[e.v]

Joins(e) ==
    /\ canon' = [v \in Vertices |->
                     IF canon[v] \in {canon[e.v], canon[e.w]} THEN Root(e) ELSE canon[v]]
    /\ rank' = IF rank[canon[e.v]] = rank[canon[e.w]]
               THEN [rank EXCEPT ![canon[e.v]] = @ + 1] ELSE rank
    /\ mst' = Append(mst, e)

(* Edge e, if it joins two trees. *)
Consider(e) ==
    \/ Connects(e) /\ Joins(e)
    \/ ~Connects(e) /\ UNCHANGED <<canon, rank, mst>>

(* Mutant: off by one. *)
ShortByTwo == Len(mst) < V - 2

Short == Len(mst) < V - 1
-----------------------------------------------------------------------------
(* SHELL_SORT(edges, cnt, ...) puts equal weights in any order: it is left to
   the loop to take the edges in one that ascends. *)
KruskalSort ==
    /\ alg = "kruskal"
    /\ pc = "start"
    /\ edges' = EdgesGet(adj)
    /\ pc' = "greedy"
    /\ UNCHANGED <<adj, alg, canon, rank, mst, closest, k, i>>

(* The next edge of the sorted array: one of the lightest left. *)
Lightest(n) == \A m \in DOMAIN edges : edges[n].weight <= edges[m].weight

KruskalStep ==
    /\ pc = "greedy"
    /\ Short
    /\ \E n \in DOMAIN edges :
           /\ Lightest(n)
           /\ Consider(edges[n])
           /\ edges' = RemoveAt(edges, n)
    /\ UNCHANGED <<adj, alg, pc, closest, k, i>>

KruskalEnd ==
    /\ pc = "greedy"
    /\ edges = <<>> \/ ~Short
    /\ pc' = "done"
    /\ UNCHANGED <<adj, alg, edges, canon, rank, mst, closest, k, i>>
-----------------------------------------------------------------------------
BoruvkaRound ==
    /\ alg = "boruvka"
    /\ pc = "start"
    /\ k < V
    /\ Short
    /\ edges' = EdgesGet(adj)
    /\ pc' = "closest"
    /\ UNCHANGED <<adj, alg, canon, rank, mst, closest, k, i>>

(* less, and a root for which no edge was found yet in any round. *)
Closer(e, r) == closest[r] = NoEdge \/ e.weight < closest[r].weight

ClosestStep ==
    LET e == Head(edges)
    IN  /\ pc = "closest"
        /\ edges # <<>>
        /\ closest' = [r \in Vertices |->
               IF r \in {canon[e.v], canon[e.w]} /\ Connects(e) /\ Closer(e, r)
               THEN e ELSE closest[r]]
        /\ edges' = Tail(edges)
        /\ UNCHANGED <<adj, alg, pc, canon, rank, mst, k, i>>

ClosestEnd ==
    /\ pc = "closest"
    /\ edges = <<>>
    /\ pc' = "add"
    /\ i' = 0
    /\ UNCHANGED <<adj, alg, edges, canon, rank, mst, closest, k>>

AddStep ==
    /\ pc = "add"
    /\ i < V
    /\ IF closest[i] = NoEdge THEN UNCHANGED <<canon, rank, mst>> ELSE Consider(closest[i])
    /\ i' = i + 1
    /\ UNCHANGED <<adj, alg, pc, edges, closest, k>>

(* Mutant: k is not doubled. *)
RoundEndSame ==
    /\ pc = "add"
    /\ i = V
    /\ pc' = "start"
    /\ i' = 0
    /\ UNCHANGED <<adj, alg, edges, canon, rank, mst, closest, k>>

(* closest keeps its edges for the next round. *)
RoundEnd ==
    /\ pc = "add"
    /\ i = V
    /\ pc' = "start"
    /\ k' = k + k
    /\ i' = 0
    /\ UNCHANGED <<adj, alg, edges, canon, rank, mst, closest>>

BoruvkaEnd ==
    /\ alg = "boruvka"
    /\ pc = "start"
    /\ k >= V \/ ~Short
    /\ pc' = "done"
    /\ UNCHANGED <<adj, alg, edges, canon, rank, mst, closest, k, i>>

Work ==
    \/ KruskalSort \/ KruskalStep \/ KruskalEnd
    \/ BoruvkaRound \/ ClosestStep \/ ClosestEnd \/ AddStep \/ RoundEnd \/ BoruvkaEnd

Done == pc = "done" /\ UNCHANGED vars

Next == Work \/ Done
-----------------------------------------------------------------------------
TypeOK ==
    /\ pc \in {"start", "greedy", "closest", "add", "done"}
    /\ ToSet(edges) \subseteq AllEdges
    /\ ToSet(mst) \subseteq AllEdges
    /\ canon \in [Vertices -> Vertices]
    /\ closest \in [Vertices -> AllEdges \cup {NoEdge}]
    /\ k \in 1 .. 2 * V
    /\ i \in 0 .. V
    /\ Len(mst) < V

(* The union-find structure and the list of edges agree: two vertices have
   one root exactly when the edges chosen so far join them. *)
RootsAreTrees ==
    \A v \in Vertices : {w \in Vertices : canon[w] = canon[v]} = Component(ToSet(mst), v)
=============================================================================
