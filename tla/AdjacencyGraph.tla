--------------------------- MODULE AdjacencyGraph ---------------------------
(***************************************************************************)
(* digraph.c and graph.c: graphs as adjacency lists, newest neighbour      *)
(* first.  adj[v] is the sequence of the list of v.  A behaviour builds    *)
(* directed or undirected graphs, edge by edge, and may reverse a directed *)
(* one.  The algorithms on graphs are operators of their lists.            *)
(*   Graphs also come from digraphgenerator.c and graphgenerator.c, and    *)
(* from symboldigraph.c and symbolgraph.c, which read them from a file of  *)
(* names.  A generator is the set of the sequences of edges, pairs of      *)
(* vertices, that it can add; vs is V throughout.  The order of edges      *)
(* drawn at random is left out.  The keys by which edges are told apart,   *)
(* the digits of both ends, are unique up to ten vertices.                 *)
(***************************************************************************)
EXTENDS Integers, SequencesExt, FiniteSetsExt

CONSTANTS V,            \* the number of vertices
          MaxEdges,     \* bound on the edges
          Words,        \* names of vertices
          MaxWords      \* bound on the words of a line

ASSUME VAssumption == V \in Nat \ {0}

VARIABLES directed,     \* TRUE for struct digraph, FALSE for struct graph
          adj,          \* adjlist
          indegree,     \* digraph: arcs to each vertex
          edges,        \* the number of edges
          maker,        \* the generator that made the graph, or "none"
          file          \* the lines of the file it was read from

vars == <<directed, adj, indegree, edges>>

inputVars == <<vars, maker, file>>

Vertices  == 0 .. V - 1
Ascending == [n \in 1 .. V |-> n - 1]

(* What `edgeto' and `root' hold when there is nothing. *)
None == -1

(* digraph_init; struct graph has no indegree. *)
Empty == [v \in Vertices |-> <<>>]

(* slist_put of w to the list of v. *)
Put(lists, v, w) == [lists EXCEPT ![v] = <<w>> \o @]

Init ==
    /\ directed \in BOOLEAN
    /\ adj = Empty
    /\ indegree = [v \in Vertices |-> 0]
    /\ edges = 0

(* digraph_add_edge; without effect when v or w is no vertex. *)
AddArc(v, w) ==
    /\ directed
    /\ edges < MaxEdges
    /\ adj' = Put(adj, v, w)
    /\ indegree' = [indegree EXCEPT ![w] = @ + 1]
    /\ edges' = edges + 1
    /\ UNCHANGED directed

(* graph_add_edge; a loop is in the list of its vertex twice. *)
AddEdge(v, w) ==
    /\ ~directed
    /\ edges < MaxEdges
    /\ adj' = Put(Put(adj, v, w), w, v)
    /\ edges' = edges + 1
    /\ UNCHANGED <<directed, indegree>>

(* digraph_reverse: the arcs of vertex 0 first, each list from its front. *)
Reversed(lists) ==
    FoldLeft(LAMBDA r, v : FoldLeft(LAMBDA t, w : Put(t, w, v), r, lists[v]), Empty, Ascending)

(* The program goes on with the reversed digraph. *)
ReverseArcs ==
    /\ directed
    /\ edges > 0
    /\ adj' = Reversed(adj)
    /\ indegree' = [v \in Vertices |-> Len(adj[v])]
    /\ UNCHANGED <<directed, edges>>

Next ==
    \/ \E v, w \in Vertices : AddArc(v, w) \/ AddEdge(v, w)
    \/ ReverseArcs

Spec == Init /\ [][Next]_vars
-----------------------------------------------------------------------------
(* What the algorithms are compared with. *)

Neighbours(lists, v) == ToSet(lists[v])

(* How often w is in the list of v. *)
Arcs(lists, v, w) == Cardinality({n \in DOMAIN lists[v] : lists[v][n] = w})

(* The vertices that paths of at most n edges lead to from the set S. *)
Within(lists, S, n) ==
    LET near[m \in 0 .. n] ==
            IF m = 0 THEN S ELSE near[m - 1] \cup UNION {Neighbours(lists, v) : v \in near[m - 1]}
    IN  near[n]

Reach(lists, v) == Within(lists, {v}, V)

(* The length of a shortest path from s to v. *)
Distance(lists, s, v) == Min({n \in 0 .. V : v \in Within(lists, {s}, n)})

IsWalk(lists, p) ==
    /\ p # <<>>
    /\ \A n \in 1 .. Len(p) - 1 : p[n + 1] \in Neighbours(lists, p[n])

IsPath(lists, p, s, v) == IsWalk(lists, p) /\ p[1] = s /\ Last(p) = v

IsSimple(p) == Cardinality(ToSet(p)) = Len(p)

(* A closed walk without a repeated vertex. *)
IsCycle(lists, p) ==
    Len(p) > 1 /\ IsWalk(lists, p) /\ p[1] = Last(p) /\ IsSimple(Tail(p))

(* A vertex lies on a directed cycle. *)
OnCycle(lists, v) == \E w \in Neighbours(lists, v) : v \in Reach(lists, w)

HasCycle(lists) == \E v \in Vertices : OnCycle(lists, v)

(* Every list agrees with the counters, and in an undirected graph with the
   list at the other end of the edge. *)
ListsAgree ==
    /\ edges \in Nat
    /\ directed =>
        /\ edges = FoldLeft(LAMBDA n, v : n + Len(adj[v]), 0, Ascending)
        /\ \A w \in Vertices :
              indegree[w] = FoldLeft(LAMBDA n, v : n + Arcs(adj, v, w), 0, Ascending)
    /\ ~directed =>
        /\ 2 * edges = FoldLeft(LAMBDA n, v : n + Len(adj[v]), 0, Ascending)
        /\ \A v, w \in Vertices : Arcs(adj, v, w) = Arcs(adj, w, v)
-----------------------------------------------------------------------------
(* The generators, and the graphs of named vertices. *)

(* rand_range_integer *)
RandRange(si, ei) ==
    IF si < ei THEN si .. ei - 1 ELSE IF si > ei THEN ei .. si - 1 ELSE {0}

(* shuffle_uint_array: what the array can be afterwards. *)
Shuffled(arr) ==
    LET swap(a, i, r) == [a EXCEPT ![i + 1] = a[r + 1], ![r + 1] = a[i + 1]]
        n == Len(arr)
    IN  FoldLeft(LAMBDA S, i : UNION {{swap(a, i, i + r) : r \in RandRange(0, n - i)} : a \in S},
                 {arr}, [i \in 1 .. n |-> i - 1])

(* vertices[], shuffled; positions are counted from 0. *)
Orders == Shuffled(Ascending)

Placed(vertices, arcs) ==
    [n \in DOMAIN arcs |-> <<vertices[arcs[n][1] + 1], vertices[arcs[n][2] + 1]>>]

Turned(arcs) == [n \in DOMAIN arcs |-> <<arcs[n][2], arcs[n][1]>>]

Upper  == {<<v, w>> \in Vertices \X Vertices : v < w}
Unlike == {<<v, w>> \in Vertices \X Vertices : v # w}

InSomeOrder(S) == FoldSet(LAMBDA e, s : Append(s, e), <<>>, S)

(* The loops that draw edges until there are n more, each of them once. *)
Draws(n, pairs) == {InSomeOrder(S) : S \in kSubset(n, pairs)}

(* The tests on es; the program ends otherwise. *)
EdgesFit(es) == es \in V - 1 .. (V * (V - 1)) \div 2

SimpleDigraph1(es) == IF EdgesFit(es) THEN Draws(es, Unlike) ELSE {}

SimpleDigraph2 == {InSomeOrder(S) : S \in SUBSET Upper}

CompleteDigraph == {InSomeOrder(Unlike)}

SimpleAcyclicDigraph(es) ==
    IF EdgesFit(es) THEN {Placed(p, s) : p \in Orders, s \in Draws(es, Upper)} ELSE {}

TournamentDigraph ==
    {InSomeOrder(S \cup ToSet(Turned(InSomeOrder(Upper \ S)))) : S \in SUBSET Upper}

CompleteRootedInDag  == {Placed(p, InSomeOrder(Upper)) : p \in Orders}
CompleteRootedOutDag == {Turned(arcs) : arcs \in CompleteRootedInDag}

(* Mutant: w can be v itself. *)
ParentsOrSelf(n) ==
    {f \in [0 .. n - 2 -> Vertices] : \A v \in 0 .. n - 2 : f[v] \in RandRange(v, V)}

(* The tree of n vertices: w for each v but the last. *)
Parents(n) ==
    {f \in [0 .. n - 2 -> Vertices] : \A v \in 0 .. n - 2 : f[v] \in RandRange(v + 1, V)}

TreeArcs(n, f) == [v \in 1 .. n - 1 |-> <<v - 1, f[v - 1]>>]

(* rootedin_dag: the arcs of the tree join v and w themselves, those that are
   drawn then join vertices[v] and vertices[w]. *)
RootedInDag(es) ==
    IF EdgesFit(es)
    THEN UNION {{TreeArcs(V, f) \o Placed(p, s) :
                    p \in Orders, s \in Draws(es - (V - 1), Upper \ ToSet(TreeArcs(V, f)))} :
                f \in Parents(V)}
    ELSE {}

(* rootedout_dag: the same with every arc the other way round. *)
RootedOutDag(es) == {Turned(arcs) : arcs \in RootedInDag(es)}

InARow == [i \in 1 .. V - 1 |-> <<i - 1, i>>]

PathDigraph       == {Placed(p, InARow) : p \in Orders}
BinaryTreeDigraph == {Placed(p, [i \in 1 .. V - 1 |-> <<i, (i - 1) \div 2>>]) : p \in Orders}
CycleDigraph      == {Placed(p, Append(InARow, <<V - 1, 0>>)) : p \in Orders}

(* What n draws leave in vertices[]: a vertex drawn again is dropped or not,
   since the comparison reads eight bytes at a variable of four. *)
Kept(n) == UNION {[1 .. m -> Vertices] : m \in 1 .. n}

Joined(p) == [i \in 1 .. Len(p) - 1 |-> <<p[i], p[i + 1]>>]

EulerianCycleDigraph(es) == {Append(Joined(p), <<Last(p), p[1]>>) : p \in Kept(es)}
EulerianPathDigraph(es)  == {Joined(p) : p \in Kept(es + 1)}

(* strong_component_digraph: for each of the cs labels, as many vertices as have
   it, always from vertex 0 on, get an arc to and an arc from a later vertex; what
   is drawn then leads from a label to one that is no smaller. *)
StrongComponentDigraph(es, cs) ==
    LET size(label, i) == Cardinality({v \in Vertices : label[v] = i})
        linked(T, n) == {t \o Turned(TreeArcs(n, f)) \o TreeArcs(n, g) :
                            t \in T, f \in Parents(n), g \in Parents(n)}
        trees(label) == FoldLeft(LAMBDA T, i : IF size(label, i) = 0 THEN T
                                               ELSE linked(T, size(label, i)),
                                 {<<>>}, [i \in 1 .. cs |-> i - 1])
        open(label, t) ==
            {<<v, w>> \in Unlike : label[v] <= label[w] /\ <<v, w>> \notin ToSet(t)}
        more(t) == IF es > Len(t) THEN es - Len(t) ELSE 0
    IN  IF cs < V /\ es > 2 * (V - cs) /\ es <= (V * (V - 1)) \div 2
        THEN UNION {UNION {{t \o s : s \in Draws(more(t), open(label, t))} : t \in trees(label)} :
                    label \in [Vertices -> RandRange(0, cs)]}
        ELSE {}
-----------------------------------------------------------------------------
(* simple_graph1: the keys of v-w and of w-v differ. *)
SimpleGraph1(es) == IF es <= (V * (V - 1)) \div 2 THEN Draws(es, Unlike) ELSE {}

SimpleGraph2 == SimpleDigraph2

(* The array vertices has vs1 * vs2 places; with vs1 or vs2 = 1, and with no
   vertex on a side, the code writes behind them. *)
PlacesFit(vs1) == vs1 * (V - vs1) >= V

Across(vs1) == {<<i, j>> \in Upper : i < vs1 /\ j >= vs1}

BipartiteGraph1(vs1, es) ==
    IF PlacesFit(vs1) /\ es <= vs1 * (V - vs1)
    THEN {Placed(p, s) : p \in Orders, s \in Draws(es, Across(vs1))} ELSE {}

BipartiteGraph2(vs1) ==
    IF PlacesFit(vs1)
    THEN {Placed(p, InSomeOrder(S)) : p \in Orders, S \in SUBSET Across(vs1)} ELSE {}

PathGraph       == {Placed(p, InARow) : p \in Orders}
BinaryTreeGraph == {Placed(p, [i \in 1 .. V - 1 |-> <<i, (i - 1) \div 2>>]) : p \in Orders}
CycleGraph      == {Placed(p, Append(InARow, <<V - 1, 0>>)) : p \in Orders}

EulerianCycleGraph(es) == {Append(Joined(p), <<Last(p), p[1]>>) : p \in Kept(es)}
EulerianPathGraph(es)  == {Joined(p) : p \in Kept(es + 1)}

Spokes == [i \in 1 .. V - 1 |-> <<0, i>>]

WheelGraph ==
    {Placed(p, Tail(InARow) \o <<<<V - 1, 1>>>> \o Spokes) : p \in Orders}
StarGraph  == {Placed(p, Spokes) : p \in Orders}

(* regular_graph: k copies of every vertex, shuffled, joined two by two. *)
RegularGraph(k) ==
    IF (V * k) % 2 = 0
    THEN {[i \in 1 .. (V * k) \div 2 |-> <<a[2 * i - 1], a[2 * i]>>] :
             a \in Shuffled([i \in 1 .. V * k |-> (i - 1) % V])}
    ELSE {}

(* One turn of the loop of tree_graph: the leaf v is joined to u. *)
Plucked(s, v, u) ==
    LET degree == [s.degree EXCEPT ![v] = @ - 1, ![u] = @ - 1]
    IN  [arcs |-> Append(s.arcs, <<v, u>>), degree |-> degree,
         pq |-> IF degree[u] = 1 THEN (s.pq \ {v}) \cup {u} ELSE s.pq \ {v}]

(* tree_graph: the trees of the Pruefer sequences.  The heap gives any of the
   leaves, since it compares eight bytes at variables of four. *)
TreeGraph ==
    LET degree(prufer) ==
            [v \in Vertices |-> 1 + Cardinality({i \in DOMAIN prufer : prufer[i] = v})]
        start(prufer) == [arcs |-> <<>>, degree |-> degree(prufer),
                          pq |-> {v \in Vertices : degree(prufer)[v] = 1}]
        plucked(prufer) ==
            FoldLeft(LAMBDA S, u : UNION {{Plucked(s, v, u) : v \in s.pq} : s \in S},
                     {start(prufer)}, prufer)
    IN  IF V = 1 THEN {<<>>}
        ELSE UNION {{Append(s.arcs, e) : e \in {e \in s.pq \X s.pq : e[1] # e[2]}} :
                    s \in UNION {plucked(prufer) : prufer \in [1 .. V - 2 -> Vertices]}}
-----------------------------------------------------------------------------
(* A line of the file is the sequence of its names; the last one is dropped
   when no newline ends it, and reading stops at an empty line. *)
LinesRead(lines, ended) ==
    LET blank == SelectInSeq(lines, LAMBDA line : line = <<>>)
        upto  == IF blank # 0 THEN SubSeq(lines, 1, blank - 1) ELSE lines
    IN  IF blank = 0 /\ ~ended /\ lines # <<>> THEN Front(upto) ELSE upto

(* The table st as the sequence of its names: the value of a name, its index, is
   the size of the table when it was put. *)
Names(lines) ==
    FoldLeft(LAMBDA s, line : FoldLeft(LAMBDA t, name : IF name \in ToSet(t) THEN t ELSE Append(t, name),
                                       s, line),
             <<>>, lines)

(* sybdigraph_indexof and sybgraph_indexof of a name that is there. *)
IndexOf(names, name) == SelectInSeq(names, LAMBDA x : x = name) - 1

(* sybdigraph_init: the first name of a line is joined to the others. *)
SymbolDigraph(lines, ended) ==
    LET read == LinesRead(lines, ended)
        of(line) == [n \in 1 .. Len(line) - 1 |->
                        <<IndexOf(Names(read), line[1]), IndexOf(Names(read), line[n + 1])>>]
    IN  FoldLeft(LAMBDA s, line : s \o of(line), <<>>, read)

(* sybgraph_init *)
SymbolGraph(lines, ended) == SymbolDigraph(lines, ended)
-----------------------------------------------------------------------------
(* digraph_add_edge or graph_add_edge of all the arcs to an empty graph. *)
Built(arcs) ==
    /\ adj' = FoldLeft(LAMBDA g, e : IF directed THEN Put(g, e[1], e[2])
                                     ELSE Put(Put(g, e[1], e[2]), e[2], e[1]), Empty, arcs)
    /\ indegree' = [w \in Vertices |->
                       IF directed THEN Len(SelectSeq(arcs, LAMBDA e : e[2] = w)) ELSE 0]
    /\ edges' = Len(arcs)
    /\ UNCHANGED directed

InitInputs ==
    /\ Init
    /\ maker = "none"
    /\ file = <<>>

(* A generator makes the graph. *)
Generate(m, outcomes) ==
    /\ maker = "none" /\ edges = 0
    /\ \E arcs \in outcomes : Built(arcs)
    /\ maker' = m
    /\ UNCHANGED file

GenerateDigraph ==
    /\ directed
    /\ \/ \E es \in V - 1 .. V : Generate("simple_digraph1", SimpleDigraph1(es))
       \/ Generate("simple_digraph2", SimpleDigraph2)
       \/ Generate("complete_digraph", CompleteDigraph)
       \/ \E es \in V - 1 .. V + 1 : Generate("simple_acyclic_digraph", SimpleAcyclicDigraph(es))
       \/ Generate("tournament_digraph", TournamentDigraph)
       \/ Generate("complete_rootedin_dag", CompleteRootedInDag)
       \/ Generate("complete_rootedout_dag", CompleteRootedOutDag)
       \/ \E es \in V - 1 .. V + 1 : Generate("rootedin_dag", RootedInDag(es))
       \/ \E es \in V - 1 .. V + 1 : Generate("rootedout_dag", RootedOutDag(es))
       \/ Generate("path_digraph", PathDigraph)
       \/ Generate("binary_tree_digraph", BinaryTreeDigraph)
       \/ Generate("cycle_digraph", CycleDigraph)
       \/ Generate("eulerian_cycle_digraph", EulerianCycleDigraph(V))
       \/ Generate("eulerian_path_digraph", EulerianPathDigraph(V - 1))
       \/ \E cs \in 2 .. 3 : Generate("strong_component_digraph", StrongComponentDigraph(V + 1, cs))

GenerateGraph ==
    /\ ~directed
    /\ \/ \E es \in 2 .. 3 : Generate("simple_graph1", SimpleGraph1(es))
       \/ Generate("simple_graph2", SimpleGraph2)
       \/ \E vs1 \in 1 .. V - 1, es \in 2 .. V : Generate("bipartite_graph1", BipartiteGraph1(vs1, es))
       \/ \E vs1 \in 1 .. V - 1 : Generate("bipartite_graph2", BipartiteGraph2(vs1))
       \/ Generate("path_graph", PathGraph)
       \/ Generate("binary_tree_graph", BinaryTreeGraph)
       \/ Generate("cycle_graph", CycleGraph)
       \/ Generate("eulerian_cycle_graph", EulerianCycleGraph(V))
       \/ Generate("eulerian_path_graph", EulerianPathGraph(V - 1))
       \/ Generate("wheel_graph", WheelGraph)
       \/ Generate("star_graph", StarGraph)
       \/ \E k \in 1 .. 2 : Generate("regular_graph", RegularGraph(k))
       \/ Generate("tree_graph", TreeGraph)

(* The graph has a vertex for each name; V is at least their number. *)
ReadFile ==
    /\ maker = "none" /\ edges = 0
    /\ \E one, two \in BoundedSeq(Words, MaxWords), ended \in BOOLEAN :
        /\ Built(IF directed THEN SymbolDigraph(<<one, two>>, ended)
                 ELSE SymbolGraph(<<one, two>>, ended))
        /\ file' = LinesRead(<<one, two>>, ended)
    /\ maker' = "symbols"

InputNext == GenerateDigraph \/ GenerateGraph \/ ReadFile
=============================================================================
