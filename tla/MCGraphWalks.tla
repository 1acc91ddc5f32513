---------------------------- MODULE MCGraphWalks ----------------------------
(***************************************************************************)
(* The algorithms on graphs for TLC: after every edge each of them is      *)
(* applied to the graph built so far, a digraph, an undirected graph or an *)
(* edge-weighted digraph, and to the graphs of the generators.             *)
(***************************************************************************)
EXTENDS ShortestPaths

VARIABLES weighted      \* TRUE for struct ewdigraph

(* A negative one, the neutral one and a positive one. *)
SomeWeights == {-1, 0, 2}

-----------------------------------------------------------------------------
MCInit ==
    /\ InitInputs
    /\ weighted \in {FALSE, directed}

MCNext ==
    /\ \/ ~weighted /\ maker = "none" /\ Next /\ UNCHANGED <<maker, file>>
       \/ weighted /\ WeightedNext /\ UNCHANGED <<maker, file>>
       \/ ~weighted /\ InputNext
    /\ UNCHANGED weighted

MCSpec == MCInit /\ [][MCNext]_<<inputVars, weighted>>
-----------------------------------------------------------------------------
(* The counters and both ends of every edge agree. *)
MCListsAgree == IF weighted THEN ListsCounted ELSE ListsAgree

Position(p, v) == SelectInSeq(p, LAMBDA w : w = v)

(* Every vertex once, and the tail of every arc before its head. *)
IsTopological(lists, p) ==
    /\ Len(p) = V /\ IsSimple(p)
    /\ \A v \in Vertices : \A w \in Neighbours(lists, v) : Position(p, v) < Position(p, w)

(* From every source the searches mark exactly what can be reached, paths are
   paths of the graph, those of the breadth-first search are shortest, and no
   vertex is left before what it leads to unless both are on a cycle. *)
PathsRight ==
    weighted \/
    /\ \A s \in Vertices :
        LET reached == Reach(adj, s) IN
        /\ DepthFirst(adj, s) = reached
        /\ BreadthFirst(adj, s).marked = reached
        /\ \A t \in Vertices : DepthFirstFrom(adj, <<s, t>>) = reached \cup Reach(adj, t)
        /\ \A v \in reached :
            /\ IsPath(adj, DepthFirstPath(adj, s, v), s, v)
            /\ IsSimple(DepthFirstPath(adj, s, v))
            /\ IsPath(adj, BreadthFirstPath(adj, s, v), s, v)
            /\ Len(BreadthFirstPath(adj, s, v)) = Distance(adj, s, v) + 1
            /\ BreadthFirst(adj, s).distto[v] = Distance(adj, s, v)
        /\ \A v \in Vertices :
            /\ (v \in reached) = (DepthFirstPath(adj, s, v) # <<>>)
            /\ (v \in reached) = (GraphDepthFirstPath(adj, s, v, <<>>) # <<>>)
            /\ (v \in reached) = (GraphBreadthFirstPath(adj, s, v, <<>>) # <<>>)
    /\ \E order \in {DepthFirstOrder(adj)} :
        /\ Len(order.pre) = V /\ IsSimple(order.pre)
        /\ Len(order.post) = V /\ IsSimple(order.post)
        /\ \A v \in Vertices : \A w \in Neighbours(adj, v) :
               Position(order.post, w) < Position(order.post, v) \/ v \in Reach(adj, w)

(* A cycle is reported exactly when there is one, and what is reported is a
   cycle; without one both topological orders have every arc from an earlier
   to a later vertex, and with one the assertion of the second fails. *)
CyclesRight ==
    weighted \/
    /\ directed =>
        \E c \in {DigraphCycle(adj)}, d \in {DirectedCycle(adj, indegree)},
           queued \in {TopologicalByQueue(adj, indegree)} :
            IF HasCycle(adj)
            THEN /\ IsCycle(adj, c) /\ IsCycle(adj, d)
                 /\ TopologicalByDfs(adj) = <<>>
                 /\ Len(queued) < V
            ELSE /\ c = <<>> /\ d = <<>>
                 /\ IsTopological(adj, TopologicalByDfs(adj))
                 /\ IsTopological(adj, queued)
    /\ ~directed =>
        \E c \in {GraphCycle(adj)} :
            /\ (c # <<>>) = (edges > V - ConnectedComponents(adj).count)
            /\ c # <<>> => \/ IsCycle(adj, c)
                           \/ \E v \in Vertices : c = <<v, v, v>> /\ v \in Neighbours(adj, v)
            /\ (SelfLoop(adj) # <<>>) = \E v \in Vertices : v \in Neighbours(adj, v)

Strong(v, w) == w \in Reach(adj, v) /\ v \in Reach(adj, w)

(* The number of vertices of which none is in the component of another. *)
Classes(related(_, _)) ==
    Cardinality({v \in Vertices : \A w \in 0 .. v - 1 : ~related(w, v)})

(* The three algorithms number the strong components, each from 0 without a
   gap and so that an arc never leads to a component with a greater number. *)
ComponentsRight ==
    weighted \/
    /\ directed =>
        \A s \in {GabowComponents(adj), KosarajuComponents(adj), TarjanComponents(adj)} :
            /\ \A v, w \in Vertices : (s.id[v] = s.id[w]) = Strong(v, w)
            /\ {s.id[v] : v \in Vertices} = 0 .. s.count - 1
            /\ \A v \in Vertices : \A w \in Neighbours(adj, v) : s.id[w] <= s.id[v]
    /\ ~directed =>
        \E gc \in {ConnectedComponents(adj)} :
            /\ \A v, w \in Vertices : (gc.ids[v] = gc.ids[w]) = (w \in Reach(adj, v))
            /\ gc.count = Classes(LAMBDA v, w : w \in Reach(adj, v))
            /\ \A v \in Vertices : gc.sizes[gc.ids[v] + 1] = Cardinality(Reach(adj, v))

Steps(p) == 1 .. Len(p) - 1

(* Every edge is walked as often as it is there. *)
UsesEveryArc(p) ==
    \A v, w \in Vertices :
        Arcs(adj, v, w) = Cardinality({n \in Steps(p) : p[n] = v /\ p[n + 1] = w})

UsesEveryEdge(p) ==
    \A v, w \in Vertices :
        (IF v = w THEN Arcs(adj, v, v) \div 2 ELSE Arcs(adj, v, w))
            = Cardinality({n \in Steps(p) : {p[n], p[n + 1]} = {v, w}})

(* The vertices with edges are in one piece. *)
OnePiece ==
    \A v, w \in Vertices :
        adj[v] # <<>> /\ adj[w] # <<>> => w \in Reach(adj, v) \/ v \in Reach(adj, w)

(* A tour that is returned walks every edge once and a cycle ends where it
   began; there is none when the degrees forbid it, and the assertion fails
   only when the edges are not in one piece.  The tests of the conditions say
   when a tour exists. *)
ToursRight ==
    weighted \/
    /\ directed =>
        /\ \E c \in {DirectedEulerCycle(adj, indegree)} :
            /\ c \notin {<<>>, Aborted} => UsesEveryArc(c) /\ c[1] = Last(c)
            /\ c = Aborted => ~OnePiece
            /\ c = <<>> => edges = 0 \/ \E v \in Vertices : Len(adj[v]) # indegree[v]
        /\ \E p \in {DirectedEulerPath(adj, indegree)} :
            /\ p \notin {<<>>, Aborted} => UsesEveryArc(p)
            /\ p = Aborted => ~OnePiece
            /\ p = <<>> => \E v, w \in Vertices : /\ Len(adj[v]) > indegree[v]
                                                  /\ v = w => Len(adj[v]) > indegree[v] + 1
                                                  /\ Len(adj[w]) > indegree[w]
    /\ ~directed =>
        /\ \E c \in {EulerCycle(adj)} :
            /\ EulerCycleExists(adj) = (c \notin {<<>>, Aborted})
            /\ EulerCycleExists(adj) => UsesEveryEdge(c) /\ c[1] = Last(c)
            /\ c = Aborted => ~OnePiece
        /\ \E p \in {EulerPath(adj)} :
            /\ EulerPathExists(adj) = (p \notin {<<>>, Aborted})
            /\ EulerPathExists(adj) => UsesEveryEdge(p)
            /\ p = Aborted => ~OnePiece

(* No edge has ends of one colour. *)
TwoColoured(black) ==
    \A v \in Vertices : \A w \in Neighbours(adj, v) : (v \in black) # (w \in black)

Bipartite == \E black \in SUBSET Vertices : TwoColoured(black)

(* Mates are mates of each other, along edges, and are counted. *)
IsMatching(m) ==
    /\ \A v \in Vertices : m.mate[v] # None =>
           m.mate[v] \in Neighbours(adj, v) /\ m.mate[m.mate[v]] = v
    /\ 2 * m.cardinality = Cardinality({v \in Vertices : m.mate[v] # None})

(* Both searches tell bipartite graphs from others, with a colouring of all
   vertices or, the depth-first one, an odd cycle; the matchings are matchings
   and leave no edge of which both ends are free. *)
MatchingsRight ==
    ~directed =>
        \E b \in {BipartiteBfs(adj)}, d \in {BipartiteDfs(adj)} :
            /\ b.isbipartite = Bipartite /\ d.isbipartite = Bipartite
            /\ Bipartite => TwoColoured(b.black) /\ TwoColoured(d.black)
            /\ ~Bipartite => IsCycle(adj, d.cycle) /\ Len(d.cycle) % 2 = 0
            /\ Bipartite => \A m \in {BipartiteMatching(adj), HopcroftKarp(adj)} :
                   /\ IsMatching(m)
                   /\ \A v \in Vertices : \A w \in Neighbours(adj, v) :
                          m.mate[v] # None \/ m.mate[w] # None

(* The edges of a matching, each as the set of its ends. *)
IsIndependent(S) == \A e, f \in S : e = f \/ e \cap f = {}

Largest ==
    LET all == {{v, w} : <<v, w>> \in {e \in Vertices \X Vertices : e[2] \in Neighbours(adj, e[1])}}
    IN  Max({Cardinality(S) : S \in {T \in SUBSET all : IsIndependent(T)}})

(* bipartitematching.c:39: "Determines a maximum matching (and a minimum vertex
   cover) in a bipartite graph." *)
MatchingIsMaximum ==
    ~directed /\ Bipartite =>
        \E m \in {BipartiteMatching(adj)} :
            /\ m.cardinality = Largest
            /\ \A v \in Vertices : \A w \in Neighbours(adj, v) :
                   v \in MinCover(m) \/ w \in MinCover(m)

NoLoops == \A v \in Vertices : v \notin Neighbours(adj, v)

NoParallels == \A v, w \in Vertices : Arcs(adj, v, w) <= 1

Connected == \A v \in Vertices : Reach(adj, v) = Vertices

(* Some vertex can be reached from every other one. *)
RootedIn(lists) == \E r \in Vertices : \A v \in Vertices : r \in Reach(lists, v)

(* Degrees, in increasing order. *)
Degrees == SortSeq([n \in 1 .. V |-> Degree(adj, n - 1)], <)

(* The graphs that a generator makes are of the kind its name says, as far as
   the code goes: the simple graphs of graphgenerator.c may have an edge twice,
   the random rooted digraphs may have a cycle, and the Eulerian ones have any
   number of edges up to the one asked for. *)
MadeRight ==
    CASE maker \in {"simple_digraph1", "simple_digraph2"} -> NoLoops /\ NoParallels
      [] maker = "complete_digraph" -> NoLoops /\ \A v \in Vertices : Reach(adj, v) = ToSet(adj[v]) \cup {v}
      [] maker = "simple_acyclic_digraph" -> ~HasCycle(adj) /\ NoParallels
      [] maker = "tournament_digraph" ->
            NoLoops /\ \A v, w \in Vertices : v # w => Arcs(adj, v, w) + Arcs(adj, w, v) = 1
      [] maker = "complete_rootedin_dag" -> ~HasCycle(adj) /\ RootedIn(adj)
      [] maker = "complete_rootedout_dag" -> ~HasCycle(adj) /\ RootedIn(Reversed(adj))
      [] maker = "rootedin_dag" -> NoLoops /\ RootedIn(adj)
      [] maker = "rootedout_dag" -> NoLoops /\ RootedIn(Reversed(adj))
      [] maker = "path_digraph" -> ~HasCycle(adj) /\ Len(DirectedEulerPath(adj, indegree)) = V
      [] maker = "binary_tree_digraph" ->
            ~HasCycle(adj) /\ RootedIn(adj) /\ \A v \in Vertices : Len(adj[v]) <= 1 /\ indegree[v] <= 2
      [] maker = "cycle_digraph" -> Len(DigraphCycle(adj)) = V + 1 /\ edges = V
      [] maker = "eulerian_cycle_digraph" -> DirectedEulerCycle(adj, indegree) \notin {<<>>, Aborted}
      [] maker = "eulerian_path_digraph" -> DirectedEulerPath(adj, indegree) \notin {<<>>, Aborted}
      [] maker = "strong_component_digraph" -> NoLoops /\ edges >= V + 1
      [] maker \in {"simple_graph1", "simple_graph2"} -> NoLoops /\ \A v, w \in Vertices : Arcs(adj, v, w) <= 2
      [] maker \in {"bipartite_graph1", "bipartite_graph2"} -> Bipartite /\ NoParallels
      [] maker = "path_graph" -> Connected /\ Degrees = [n \in 1 .. V |-> IF n <= 2 THEN 1 ELSE 2]
      [] maker \in {"binary_tree_graph", "tree_graph"} -> Connected /\ edges = V - 1
      [] maker = "cycle_graph" -> Connected /\ \A v \in Vertices : Degree(adj, v) = 2
      [] maker = "eulerian_cycle_graph" -> EulerCycleExists(adj)
      [] maker = "eulerian_path_graph" -> EulerPathExists(adj)
      [] maker = "wheel_graph" -> Connected /\ Degrees = [n \in 1 .. V |-> IF n = V THEN V - 1 ELSE 3]
      [] maker = "star_graph" -> Connected /\ Degrees = [n \in 1 .. V |-> IF n = V THEN V - 1 ELSE 1]
      [] maker = "regular_graph" -> \A v, w \in Vertices : Degree(adj, v) = Degree(adj, w)
      [] OTHER -> TRUE

(* A graph read from a file joins the first name of every line to each of the
   others, and numbers the names without a gap. *)
NamesRight ==
    maker = "symbols" =>
        \E names \in {Names(file)} :
            /\ IsSimple(names) /\ ToSet(names) = UNION {ToSet(file[n]) : n \in DOMAIN file}
            /\ edges = FoldLeft(LAMBDA n, line : n + Len(line) - 1, 0, file)
            /\ \A line \in ToSet(file) : \A n \in 2 .. Len(line) :
                   IndexOf(names, line[n]) \in Neighbours(adj, IndexOf(names, line[1]))

(* The counters and lists of every graph agree, whoever made it, and generated
   graphs and those read from files are what they should be. *)
InputsRight == MCListsAgree /\ MadeRight /\ NamesRight

Sum(arcs) == FoldLeft(LAMBDA n, e : n + e.weight, 0, arcs)

(* The arcs lead from s to v. *)
Leads(arcs, s, v) ==
    IF arcs = <<>> THEN s = v
    ELSE /\ arcs[1].v = s /\ Last(arcs).w = v
         /\ \A n \in 1 .. Len(arcs) - 1 : arcs[n].w = arcs[n + 1].v

(* The least weight of the walks of at most n arcs from s. *)
Least(net, s, n) ==
    LET shorter(d, e) == [d EXCEPT ![e.w] = Min({@, Plus(d[e.v], e.weight)})]
        all == AllArcs(net)
        best[m \in 0 .. n] ==
            IF m = 0 THEN Started(s).distto ELSE FoldLeft(shorter, best[m - 1], all)
    IN  best[n]

NegativeFrom(net, s) == Least(net, s, V) # Least(net, s, V - 1)

(* Distances are the least weights of walks, and edgeto describes such walks. *)
Shortest(net, s, sp) ==
    LET least == Least(net, s, V) IN
    /\ sp.distto = least
    /\ \A v \in Vertices : least[v] # Inf =>
           \E arcs \in {ArcsTo(sp.edgeto, v)} : Leads(arcs, s, v) /\ Sum(arcs) = least[v]

IsNegativeCycle(arcs) == arcs # <<>> /\ Leads(arcs, arcs[1].v, arcs[1].v) /\ Sum(arcs) < 0

(* Floyd and Warshall's distances and paths, from the matrix of the first arcs
   added.  A path from a vertex with a loop of weight 0 is left out. *)
TablesShortest(net) ==
    \E matrix \in {AdjMatrix(net)} :
    \E t \in {FloydWarshall(matrix)},
       first \in {[v \in Vertices |-> SelectSeq(net[v], LAMBDA e : matrix[v][e.w] = e)]} :
        /\ t.negcycle = \E s \in Vertices : NegativeFrom(first, s)
        /\ ~t.negcycle =>
            \A s, v \in Vertices :
                /\ t.distto[s][v] = Least(first, s, V)[v]
                /\ t.distto[s][v] # Inf /\ matrix[s][s].weight # 0 =>
                    /\ FloydWarshallPathEnds(t, s, v)
                    /\ \E arcs \in {FloydWarshallPath(t, s, v)} :
                           Leads(arcs, s, v) /\ Sum(arcs) = t.distto[s][v]

(* From every source the algorithms find the least weights and walks with them:
   Dijkstra's however ties in the heap are broken, when no weight is negative;
   the one for acyclic digraphs when there is no cycle; Bellman and Ford's
   wherever its uninitialised counter starts, unless a negative cycle can be
   reached, which it then reports. *)
ShortestRight ==
    weighted =>
        /\ Cloned(adj) = adj
        /\ TablesShortest(adj)
        /\ \E arcs \in {CycleArcs(adj)} :
               IF HasCycle(Heads(adj))
               THEN arcs # <<>> /\ Leads(arcs, arcs[1].v, arcs[1].v)
               ELSE /\ arcs = <<>>
                    /\ IsTopological(Heads(adj), WeightedTopologicalByDfs(adj))
                    /\ \A s \in Vertices : Shortest(adj, s, Acyclic(adj, indegree, s))
        /\ (\A v \in Vertices : \A n \in DOMAIN adj[v] : adj[v][n].weight >= 0) =>
               \E pairs \in {DijkstraPairs(adj)} :
                   \A s \in Vertices : \A sp \in pairs[s] : Shortest(adj, s, sp)
        /\ \A s \in Vertices :
               \A cost \in 0 .. V - 1 : \E sp \in {BellmanFord(adj, s, cost)} :
                   IF NegativeFrom(adj, s) THEN IsNegativeCycle(sp.cycle)
                   ELSE sp.cycle = <<>> /\ Shortest(adj, s, sp)
=============================================================================
