----------------------------- MODULE GraphSearch -----------------------------
(***************************************************************************)
(* Depth-first and breadth-first search, and what is built on them: paths, *)
(* orders, cycles, topological orders, connected and strong components,    *)
(* the Euler tours, and the bipartite graphs and their matchings.          *)
(* The recursion of the code is the recursion here; a record stands for    *)
(* the struct it fills in, its set marked for the array of that name.      *)
(***************************************************************************)
EXTENDS AdjacencyGraph

Unvisited == [marked |-> {}, edgeto |-> [v \in Vertices |-> None],
              pre |-> <<>>, post |-> <<>>]

RECURSIVE Visit(_, _, _)

(* Mutant: a vertex gets its postorder number when it is entered. *)
VisitPostFirst(lists, v, s) ==
    LET step(t, w) ==
            IF w \in t.marked THEN t ELSE Visit(lists, w, [t EXCEPT !.edgeto[w] = v])
    IN  FoldLeft(step, [s EXCEPT !.marked = @ \cup {v}, !.pre = Append(@, v), !.post = Append(@, v)],
                 lists[v])

(* dfso, of which the dfs of the other files are parts: visits v. *)
Visit(lists, v, s) ==
    LET step(t, w) ==
            IF w \in t.marked THEN t ELSE Visit(lists, w, [t EXCEPT !.edgeto[w] = v])
        seen == FoldLeft(step, [s EXCEPT !.marked = @ \cup {v}, !.pre = Append(@, v)], lists[v])
    IN  [seen EXCEPT !.post = Append(@, v)]

VisitAll(lists, vs) ==
    FoldLeft(LAMBDA s, v : IF v \in s.marked THEN s ELSE Visit(lists, v, s), Unvisited, vs)

(* digraph_dfso_init: pre and post are the positions in the two orders. *)
DepthFirstOrder(lists) == VisitAll(lists, Ascending)

(* DIGRAPH_DFSO_REVERSEPOST *)
ReversePost(lists) == Reverse(DepthFirstOrder(lists).post)

(* digraph_dfs_init: marked, and count, the number of calls of dfs. *)
DepthFirst(lists, s) == Visit(lists, s, Unvisited).marked

(* digraph_dfs_svset: the same from several sources, one after the other. *)
DepthFirstFrom(lists, svset) == VisitAll(lists, svset).marked

(* The path that edgeto describes, from s to x: the loop of the paths functions
   pushes x and what comes before it until it meets s or None, then s. *)
PathTo(edgeto, s, x) ==
    LET back[n \in 0 .. V] ==
            IF n = 0 THEN <<x>>
            ELSE IF back[n - 1][1] \in {s, None} THEN back[n - 1]
                 ELSE <<edgeto[back[n - 1][1]]>> \o back[n - 1]
    IN  <<s>> \o Tail(back[V])

(* digraph_dfsp_init and digraph_dfsp_paths: no path is the empty stack. *)
DepthFirstPath(lists, s, v) ==
    LET r == Visit(lists, s, Unvisited)
    IN  IF v \in r.marked THEN PathTo(r.edgeto, s, v) ELSE <<>>

(* graph_dfsp_init and graph_dfsp_paths; without a path the stack of the
   caller is left as it was. *)
GraphDepthFirstPath(lists, s, v, paths) ==
    LET r == Visit(lists, s, Unvisited)
    IN  IF v \in r.marked THEN PathTo(r.edgeto, s, v) ELSE paths
-----------------------------------------------------------------------------
(* The unmarked neighbour w of the dequeued v. *)
Enqueue(s, v, w) ==
    [s EXCEPT !.marked = @ \cup {w}, !.edgeto[w] = v,
              !.distto[w] = s.distto[v] + 1, !.queue = Append(@, w)]

RECURSIVE Serve(_, _)

(* gbfs, from its while loop on. *)
Serve(lists, s) ==
    IF s.queue = <<>> THEN s
    ELSE LET v == Head(s.queue)
             step(t, w) == IF w \in t.marked THEN t ELSE Enqueue(t, v, w)
         IN  Serve(lists, FoldLeft(step, [s EXCEPT !.queue = Tail(@)], lists[v]))

(* digraph_bfsp_init; the distance of what is not reached is INFINITY, here
   V + 1. *)
BreadthFirst(lists, s) ==
    Serve(lists, [marked |-> {s}, edgeto |-> [v \in Vertices |-> None], queue |-> <<s>>,
                  distto |-> [v \in Vertices |-> IF v = s THEN 0 ELSE V + 1]])

(* digraph_bfsp_paths: back along edgeto to the vertex at distance 0. *)
BreadthFirstPath(lists, s, v) ==
    LET r == BreadthFirst(lists, s)
    IN  IF v \in r.marked THEN PathTo(r.edgeto, s, v) ELSE <<>>

(* graph_bfsp_init and graph_bfsp_paths *)
GraphBreadthFirstPath(lists, s, v, paths) ==
    LET r == BreadthFirst(lists, s)
    IN  IF v \in r.marked THEN PathTo(r.edgeto, s, v) ELSE paths
-----------------------------------------------------------------------------
(* graphcc_init: the vertices that one call of dfs marks get its count. *)
ConnectedComponents(lists) ==
    LET step(gc, v) ==
            IF v \in gc.marked THEN gc
            ELSE LET found == DepthFirst(lists, v)
                 IN  [marked |-> gc.marked \cup found, count |-> gc.count + 1,
                      ids |-> [w \in Vertices |-> IF w \in found THEN gc.count ELSE gc.ids[w]],
                      sizes |-> Append(gc.sizes, Cardinality(found))]
    IN  FoldLeft(step, [marked |-> {}, count |-> 0, ids |-> [v \in Vertices |-> 0],
                        sizes |-> <<>>], Ascending)
-----------------------------------------------------------------------------
(* The pushes of a cycle that the arc from v to w closes: back along edgeto
   from v to w; the stack is a sequence, its top first. *)
Closing(edgeto, v, w) == <<v>> \o PathTo(edgeto, w, v)

NoCycle == [marked |-> {}, onstack |-> {}, edgeto |-> [v \in Vertices |-> None], cycle |-> <<>>]

RECURSIVE Hunt(_, _, _)

(* Mutant: v stays on the stack when its call returns. *)
OffStack(s, v) == s

Left(s, v) == [s EXCEPT !.onstack = @ \ {v}]

(* dfs of digraphcycle.c: a neighbour on the stack closes a cycle; once there
   is one, no neighbour is looked at. *)
Hunt(lists, v, s) ==
    LET step(t, w) == IF t.cycle # <<>> THEN t
                      ELSE IF w \notin t.marked THEN Hunt(lists, w, [t EXCEPT !.edgeto[w] = v])
                      ELSE IF w \in t.onstack THEN [t EXCEPT !.cycle = Closing(t.edgeto, v, w)]
                      ELSE t
        entered == [s EXCEPT !.marked = @ \cup {v}, !.onstack = @ \cup {v}]
    IN  Left(FoldLeft(step, entered, lists[v]), v)

(* digraph_cycle_init *)
DigraphCycle(lists) ==
    FoldLeft(LAMBDA s, v : IF v \in s.marked \/ s.cycle # <<>> THEN s ELSE Hunt(lists, v, s),
             NoCycle, Ascending).cycle

RECURSIVE Peel(_, _)

(* The queue of vertices whose indegree has become 0, until it is empty. *)
Peel(lists, s) ==
    IF s.queue = <<>> THEN s
    ELSE LET v == Head(s.queue)
             step(t, w) ==
                 [t EXCEPT !.indegree[w] = @ - 1,
                           !.queue = IF t.indegree[w] = 1 THEN Append(@, w) ELSE @]
         IN  Peel(lists, FoldLeft(step, [s EXCEPT !.queue = Tail(@), !.order = Append(@, v)],
                                  lists[v]))

Sources(degrees) == SelectSeq(Ascending, LAMBDA v : degrees[v] = 0)

Peeled(lists, degrees) ==
    Peel(lists, [queue |-> Sources(degrees), indegree |-> degrees, order |-> <<>>])

RECURSIVE FirstAgain(_, _, _), Around(_, _, _)

(* The first vertex met again on the way back from v. *)
FirstAgain(edgeto, v, visited) ==
    IF v \in visited THEN v ELSE FirstAgain(edgeto, edgeto[v], visited \cup {v})

(* The pushes of the do loop, from v back until root comes again. *)
Around(edgeto, v, root) ==
    IF edgeto[v] = root THEN <<v>> ELSE Append(Around(edgeto, edgeto[v], root), v)

(* directed_cycle_get: what has not been peeled has a predecessor that has not;
   edgeto leads back to it, and from a vertex met twice around a cycle. *)
DirectedCycle(lists, degrees) ==
    LET left   == Peeled(lists, degrees).indegree
        core   == SelectSeq(Ascending, LAMBDA v : left[v] # 0)
        edgeto == FoldLeft(LAMBDA e, v :
                               FoldLeft(LAMBDA f, w : IF left[w] > 0 THEN [f EXCEPT ![w] = v] ELSE f,
                                        e, lists[v]),
                           [v \in Vertices |-> None], core)
        root   == FirstAgain(edgeto, Last(core), {})
    IN  IF core = <<>> THEN <<>> ELSE <<root>> \o Around(edgeto, root, root)
-----------------------------------------------------------------------------
(* ditplg_use_dfso: no order when there is a cycle. *)
TopologicalByDfs(lists) == IF DigraphCycle(lists) # <<>> THEN <<>> ELSE ReversePost(lists)

(* ditplg_use_queue; the assertion at its end fails when a vertex is left. *)
TopologicalByQueue(lists, degrees) == Peeled(lists, degrees).order
-----------------------------------------------------------------------------
(* graph_self_loop: the first loop, as the cycle it pushes. *)
SelfLoop(lists) ==
    LET loops == SelectSeq(Ascending, LAMBDA v : v \in Neighbours(lists, v))
    IN  IF loops = <<>> THEN <<>> ELSE <<loops[1], loops[1]>>

(* graph_parallel_edges: the first vertex v with a neighbour in its list twice,
   a loop included, and the first such neighbour. *)
ParallelEdges(lists) ==
    LET again(v) == SelectInSeq([n \in DOMAIN lists[v] |->
                                    \E m \in 1 .. n - 1 : lists[v][m] = lists[v][n]], LAMBDA b : b)
        found == SelectSeq(Ascending, LAMBDA v : again(v) # 0)
    IN  IF found = <<>> THEN <<>>
        ELSE <<found[1], lists[found[1]][again(found[1])], found[1]>>

RECURSIVE GraphHunt(_, _, _, _)

BackEdge(u, w) == w # u

(* dfs of graphcycle.c: a marked neighbour other than the vertex u that v was
   reached from closes a cycle. *)
GraphHunt(lists, u, v, s) ==
    LET step(t, w) == IF t.cycle # <<>> THEN t
                      ELSE IF w \notin t.marked THEN GraphHunt(lists, v, w, [t EXCEPT !.edgeto[w] = v])
                      ELSE IF BackEdge(u, w) THEN [t EXCEPT !.cycle = Closing(t.edgeto, v, w)]
                      ELSE t
    IN  FoldLeft(step, [s EXCEPT !.marked = @ \cup {v}], lists[v])

(* graph_cycle_get, after graph_cycle_init *)
GraphCycle(lists) ==
    IF ParallelEdges(lists) # <<>> THEN ParallelEdges(lists)
    ELSE FoldLeft(LAMBDA s, v : IF v \in s.marked THEN s ELSE GraphHunt(lists, None, v, s),
                  NoCycle, Ascending).cycle
-----------------------------------------------------------------------------
(* gabowscc.c, kosarajusharirscc.c and tarjanscc.c: three ways to number the
   strong components of a digraph.  A stack is a sequence, top first; id[v] =
   None stands for a vertex without a component yet. *)
NoComponents ==
    [marked |-> {}, id |-> [v \in Vertices |-> None], count |-> 0, counter |-> 0,
     low |-> [v \in Vertices |-> 0], st1 |-> <<>>, st2 |-> <<>>]

(* All that the stack holds down to v gets the number of a new component. *)
UpTo(stack, v) == SubSeq(stack, 1, SelectInSeq(stack, LAMBDA w : w = v))

Numbered(s, found) ==
    [s EXCEPT !.id = [w \in Vertices |-> IF w \in ToSet(found) THEN s.count ELSE @[w]],
              !.st1 = SubSeq(@, Len(found) + 1, Len(@)),
              !.count = @ + 1]
-----------------------------------------------------------------------------
(* gabowscc.c, an arc to a vertex w without a component: pops st2 down to a
   vertex that was entered no later than w. *)
Contracted(s, w) ==
    [s EXCEPT !.st2 = SubSeq(@, SelectInSeq(@, LAMBDA x : s.low[x] <= s.low[w]), Len(@))]

RECURSIVE Gabow(_, _, _)

(* dfs of gabowscc.c; low is its preorder. *)
Gabow(lists, v, s) ==
    LET entered == [s EXCEPT !.marked = @ \cup {v}, !.low[v] = s.counter, !.counter = @ + 1,
                             !.st1 = <<v>> \o @, !.st2 = <<v>> \o @]
        step(t, w) == IF w \notin t.marked THEN Gabow(lists, w, t)
                      ELSE IF t.id[w] = None THEN Contracted(t, w)
                      ELSE t
        seen == FoldLeft(step, entered, lists[v])
    IN  IF Head(seen.st2) # v THEN seen
        ELSE Numbered([seen EXCEPT !.st2 = Tail(@)], UpTo(seen.st1, v))

(* gbscc_init *)
GabowComponents(lists) ==
    FoldLeft(LAMBDA s, v : IF v \in s.marked THEN s ELSE Gabow(lists, v, s),
             NoComponents, Ascending)
-----------------------------------------------------------------------------
(* Mutant: the order of the digraph itself, not of the reversed one. *)
KosarajuOrderForward(lists) == ReversePost(lists)

KosarajuOrder(lists) == ReversePost(Reversed(lists))

(* kjsscc_init: a search from each vertex, in the reverse postorder of the
   reversed digraph, finds a component among what is not marked. *)
KosarajuComponents(lists) ==
    LET step(s, v) ==
            IF v \in s.marked THEN s
            ELSE LET reached == Visit(lists, v, [Unvisited EXCEPT !.marked = s.marked]).pre
                 IN  [Numbered(s, reached) EXCEPT !.marked = s.marked \cup ToSet(reached)]
    IN  FoldLeft(step, NoComponents, KosarajuOrder(lists))
-----------------------------------------------------------------------------
RECURSIVE Tarjan(_, _, _)

(* dfs of tarjanscc.c.  A vertex whose low falls stays on the stack for the
   root of its component; the root gives all of them the low V, which is below
   no other. *)
Tarjan(lists, v, s) ==
    LET entered == [s EXCEPT !.marked = @ \cup {v}, !.low[v] = s.counter, !.counter = @ + 1,
                             !.st1 = <<v>> \o @]
        step(t, w) ==
            LET u == IF w \in t.s.marked THEN t.s ELSE Tarjan(lists, w, t.s)
            IN  [s |-> u, min |-> Min({t.min, u.low[w]})]
        seen  == FoldLeft(step, [s |-> entered, min |-> s.counter], lists[v])
        found == UpTo(seen.s.st1, v)
    IN  IF seen.min < seen.s.low[v]
        THEN [seen.s EXCEPT !.low[v] = seen.min]
        ELSE [Numbered(seen.s, found) EXCEPT
                 !.low = [w \in Vertices |-> IF w \in ToSet(found) THEN V ELSE @[w]]]

(* tjscc_init *)
TarjanComponents(lists) ==
    FoldLeft(LAMBDA s, v : IF v \in s.marked THEN s ELSE Tarjan(lists, v, s),
             NoComponents, Ascending)
-----------------------------------------------------------------------------
(* directedeulerian.c, euleriancycle.c and eulerianpath.c: walks that use every
   edge once.  An edge is a record with an id, in the queues of its ends; an arc
   is in the queue of its tail only. *)

(* The result when the assertion at the end fails. *)
Aborted == <<None>>

Degree(lists, v) == Len(lists[v])

Total(lists) == FoldLeft(LAMBDA n, v : n + Len(lists[v]), 0, Ascending)

(* nonisolated_vertex: the first vertex with an edge, or None. *)
NonIsolated(lists) ==
    LET some == {v \in Vertices : lists[v] # <<>>} IN IF some = {} THEN None ELSE Min(some)

(* set_edge and enqueue at both ends. *)
EnqueueEdge(s, v, w) ==
    LET e == [id |-> s.k, v |-> v, w |-> w]
        at(q, u) == [q EXCEPT ![u] = Append(@, e)]
    IN  [s EXCEPT !.k = @ + 1, !.adjs = at(at(@, v), w)]

(* The queues of an undirected graph: each edge once, from its smaller end; of
   a loop, the first, third and so on of the entries. *)
EdgeQueues(lists) ==
    LET loops(v, n) == Cardinality({m \in 1 .. n - 1 : lists[v][m] = v})
        taken(v, n) == LET w == lists[v][n] IN v < w \/ (v = w /\ loops(v, n) % 2 = 0)
        of(s, v) == FoldLeft(LAMBDA t, n : IF taken(v, n) THEN EnqueueEdge(t, v, lists[v][n]) ELSE t,
                             s, [n \in DOMAIN lists[v] |-> n])
    IN  FoldLeft(of, [k |-> 1, adjs |-> [v \in Vertices |-> <<>>]], Ascending).adjs

(* The queues of a digraph. *)
ArcQueues(lists) ==
    [v \in Vertices |-> [n \in DOMAIN lists[v] |-> [id |-> <<v, n>>, v |-> v, w |-> lists[v][n]]]]

(* other_edge *)
OtherEnd(e, v) == IF e.v = v THEN e.w ELSE e.v

RECURSIVE Descend(_), Tour(_)

(* Mutant: an edge that was used is used again from its other end. *)
DescendUnchecked(s) ==
    IF s.adjs[s.w] = <<>> THEN s
    ELSE LET e == Head(s.adjs[s.w])
         IN  Descend([s EXCEPT !.adjs[s.w] = Tail(@), !.st = <<s.w>> \o @, !.w = OtherEnd(e, s.w)])

(* The inner loop: from w along edges not used yet, until there is none. *)
Descend(s) ==
    IF s.adjs[s.w] = <<>> THEN s
    ELSE LET e    == Head(s.adjs[s.w])
             left == [s EXCEPT !.adjs[s.w] = Tail(@)]
         IN  IF e.id \in s.isused THEN Descend(left)
             ELSE Descend([left EXCEPT !.isused = @ \cup {e.id}, !.st = <<s.w>> \o @,
                                       !.w = OtherEnd(e, s.w)])

(* The outer loop: the vertex at which no edge is left goes to the result. *)
Tour(s) ==
    IF s.st = <<>> THEN s.out
    ELSE LET d == Descend([s EXCEPT !.w = Head(s.st), !.st = Tail(@)])
         IN  Tour([d EXCEPT !.out = <<d.w>> \o @])

TourFrom(start, queues, edgecount) ==
    LET walk == Tour([st |-> <<start>>, w |-> start, adjs |-> queues, isused |-> {}, out |-> <<>>])
    IN  IF Len(walk) = edgecount + 1 THEN walk ELSE Aborted
-----------------------------------------------------------------------------
(* dieuler_cycle_get *)
DirectedEulerCycle(lists, degrees) ==
    IF Total(lists) = 0 \/ \E v \in Vertices : Degree(lists, v) # degrees[v] THEN <<>>
    ELSE TourFrom(NonIsolated(lists), ArcQueues(lists), Total(lists))

(* dieuler_path_get: it starts at the last vertex with more arcs out than in. *)
DirectedEulerPath(lists, degrees) ==
    LET more    == {v \in Vertices : Degree(lists, v) > degrees[v]}
        deficit == FoldLeft(LAMBDA n, v : IF v \in more THEN n + Degree(lists, v) - degrees[v] ELSE n,
                            0, Ascending)
        ns      == IF more # {} THEN Max(more) ELSE NonIsolated(lists)
    IN  IF deficit > 1 THEN <<>>
        ELSE TourFrom(IF ns = None THEN 0 ELSE ns, ArcQueues(lists), Total(lists))

Odd(lists) == {v \in Vertices : Degree(lists, v) % 2 = 1}

(* eulcycle_get *)
EulerCycle(lists) ==
    IF Total(lists) = 0 \/ Odd(lists) # {} THEN <<>>
    ELSE TourFrom(NonIsolated(lists), EdgeQueues(lists), Total(lists) \div 2)

(* eulpath_get: it starts at the last vertex of odd degree. *)
EulerPath(lists) ==
    LET ns == IF Odd(lists) # {} THEN Max(Odd(lists)) ELSE NonIsolated(lists)
    IN  IF Cardinality(Odd(lists)) > 2 THEN <<>>
        ELSE TourFrom(IF ns = None THEN 0 ELSE ns, EdgeQueues(lists), Total(lists) \div 2)

Spanned(lists) ==
    \A v \in Vertices : Degree(lists, v) > 0 => v \in BreadthFirst(lists, NonIsolated(lists)).marked

(* eulcycle_necesuff_condition *)
EulerCycleExists(lists) == Total(lists) > 0 /\ Odd(lists) = {} /\ Spanned(lists)

(* eulpath_necesuff_condition *)
EulerPathExists(lists) == Total(lists) = 0 \/ (Cardinality(Odd(lists)) <= 2 /\ Spanned(lists))
-----------------------------------------------------------------------------
(* bipartitegraphbfs.c and bipartitegraphdfs.c colour a graph with two colours
   or find a cycle in the way; bipartitematching.c and hopcroftkarp.c match the
   vertices of the two colours.  black is the set of vertices whose colour is
   BLACK. *)
Uncoloured == [marked |-> {}, black |-> {}, edgeto |-> [v \in Vertices |-> None],
               isbipartite |-> TRUE, queue |-> <<>>, cycle |-> <<>>]

SameColour(s, v, w) == (v \in s.black) = (w \in s.black)

(* w is marked from v, with the other colour. *)
Coloured(s, v, w) ==
    [s EXCEPT !.marked = @ \cup {w}, !.edgeto[w] = v,
              !.black = IF v \in @ THEN @ ELSE @ \cup {w}]

RECURSIVE ColourQueue(_, _)

(* bfs of bipartitegraphbfs.c.  Tracing the cycle, y follows edgeto and x is
   given what y gets, so that the loop ends after one turn: the cycle is w, the
   vertex before it, v and w. *)
ColourQueue(lists, s) ==
    IF s.queue = <<>> \/ ~s.isbipartite THEN s
    ELSE LET v == Head(s.queue)
             odd(t, w) == [t EXCEPT !.isbipartite = FALSE,
                                    !.cycle = IF v = w THEN <<v, w>> ELSE <<w, t.edgeto[w], v, w>>]
             step(t, w) == IF ~t.isbipartite THEN t
                           ELSE IF w \notin t.marked
                                THEN [Coloured(t, v, w) EXCEPT !.queue = Append(@, w)]
                           ELSE IF SameColour(t, v, w) THEN odd(t, w)
                           ELSE t
         IN  ColourQueue(lists, FoldLeft(step, [s EXCEPT !.queue = Tail(@)], lists[v]))

(* bigraphbfs_get: from each vertex not marked, white, while all is well. *)
BipartiteBfs(lists) ==
    LET from(s, v) == [s EXCEPT !.marked = @ \cup {v}, !.queue = <<v>>]
    IN  FoldLeft(LAMBDA s, v : IF v \in s.marked \/ ~s.isbipartite THEN s
                               ELSE ColourQueue(lists, from(s, v)),
                 Uncoloured, Ascending)

RECURSIVE ColourVisit(_, _, _)

(* dfs of bipartitegraphdfs.c *)
ColourVisit(lists, v, s) ==
    LET step(t, w) ==
            IF t.cycle # <<>> THEN t
            ELSE IF w \notin t.marked THEN ColourVisit(lists, w, Coloured(t, v, w))
            ELSE IF SameColour(t, v, w)
                 THEN [t EXCEPT !.isbipartite = FALSE, !.cycle = PathTo(t.edgeto, w, v) \o <<w>>]
            ELSE t
    IN  FoldLeft(step, [s EXCEPT !.marked = @ \cup {v}], lists[v])

(* bigraphdfs_get: the search goes on after a cycle, and then into a vertex of
   each component only. *)
BipartiteDfs(lists) ==
    FoldLeft(LAMBDA s, v : IF v \in s.marked THEN s ELSE ColourVisit(lists, v, s),
             Uncoloured, Ascending)
-----------------------------------------------------------------------------
Unmatched(m, v) == m.mate[v] = None

(* is_residual_edge *)
Residual(m, v, w) == IF v \in m.black THEN m.mate[v] # w ELSE m.mate[v] = w

FreeBlack(m) == SelectSeq(Ascending, LAMBDA v : v \in m.black /\ Unmatched(m, v))

RECURSIVE Augment(_, _)

(* The loop of has_augment_path: found is the first unmatched vertex reached. *)
Augment(lists, m) ==
    IF m.queue = <<>> \/ m.found THEN m
    ELSE LET w == Head(m.queue)
             reach(t, x) ==
                 [t EXCEPT !.marked = @ \cup {x}, !.edgeto[x] = w, !.found = Unmatched(t, x),
                           !.queue = IF Unmatched(t, x) THEN @ ELSE Append(@, x)]
             step(t, x) == IF ~t.found /\ Residual(t, w, x) /\ x \notin t.marked
                           THEN reach(t, x) ELSE t
         IN  Augment(lists, FoldLeft(step, [m EXCEPT !.queue = Tail(@)], lists[w]))

(* has_augment_path of bipartitematching.c.  What an earlier call has marked
   stays marked: the code does not reset marked and edgeto. *)
HasAugmentPath(lists, m) ==
    Augment(lists, [m EXCEPT !.marked = @ \cup ToSet(FreeBlack(m)), !.queue = FreeBlack(m),
                             !.found = FALSE])

RECURSIVE Flip(_, _, _)

(* Mutant: only one end of an edge learns its mate. *)
FlipOneWay(m, edgeto, v) == [m EXCEPT ![v] = edgeto[v]]

(* The alternating path back from v changes sides. *)
Flip(mate, edgeto, v) ==
    IF v = None THEN mate
    ELSE LET w == edgeto[v] IN Flip([mate EXCEPT ![v] = w, ![w] = v], edgeto, edgeto[w])

RECURSIVE Matched(_, _)

(* The while loop of bipmatch_init: t is the first unmatched vertex that the
   search has reached by an edge. *)
Matched(lists, m) ==
    LET h == HasAugmentPath(lists, m)
        t == Min({v \in Vertices : Unmatched(h, v) /\ h.edgeto[v] # None})
    IN  IF ~h.found THEN h
        ELSE Matched(lists, [h EXCEPT !.mate = Flip(@, h.edgeto, t), !.cardinality = @ + 1])

NoMatching(lists) ==
    [black |-> BipartiteBfs(lists).black, marked |-> {}, mate |-> [v \in Vertices |-> None],
     edgeto |-> [v \in Vertices |-> None], distto |-> [v \in Vertices |-> V + 1],
     queue |-> <<>>, found |-> FALSE, cardinality |-> 0]

(* bipmatch_init of a bipartite graph *)
BipartiteMatching(lists) == Matched(lists, NoMatching(lists))

(* The vertices of mincover, of both algorithms. *)
MinCover(m) == {v \in Vertices : (v \in m.black) # (v \in m.marked)}
-----------------------------------------------------------------------------
RECURSIVE Levels(_, _)

(* The loop of has_augment_path of hopcroftkarp.c: it goes on when an unmatched
   vertex is reached, but queues nothing more. *)
Levels(lists, m) ==
    IF m.queue = <<>> THEN m
    ELSE LET w == Head(m.queue)
             reach(t, x) ==
                 LET f == t.found \/ Unmatched(t, x)
                 IN  [t EXCEPT !.marked = @ \cup {x}, !.distto[x] = t.distto[w] + 1, !.found = f,
                               !.queue = IF f THEN @ ELSE Append(@, x)]
             step(t, x) == IF Residual(t, w, x) /\ x \notin t.marked THEN reach(t, x) ELSE t
         IN  Levels(lists, FoldLeft(step, [m EXCEPT !.queue = Tail(@)], lists[w]))

HopcroftKarpLevels(lists, m) ==
    Levels(lists, [m EXCEPT !.marked = @ \cup ToSet(FreeBlack(m)), !.queue = FreeBlack(m),
                            !.found = FALSE,
                            !.distto = [v \in Vertices |-> IF v \in ToSet(FreeBlack(m)) THEN 0 ELSE @[v]]])

(* is_level_edge *)
LevelEdge(m, v, w) == m.distto[w] = m.distto[v] + 1 /\ Residual(m, v, w)

(* The search of one phase from v: a matched vertex is popped as soon as it was
   pushed, so that v is matched with its first unmatched neighbour along a
   level edge or not at all. *)
Match(lists, m, v) ==
    LET open == SelectSeq(lists[v], LAMBDA x : LevelEdge(m, v, x) /\ Unmatched(m, x))
    IN  IF open = <<>> THEN m
        ELSE [m EXCEPT !.mate = [@ EXCEPT ![v] = open[1], ![open[1]] = v], !.cardinality = @ + 1]

RECURSIVE Phases(_, _)

Phases(lists, m) ==
    LET h == HopcroftKarpLevels(lists, m)
    IN  IF ~h.found THEN h
        ELSE Phases(lists, FoldLeft(LAMBDA t, v : Match(lists, t, v), h, FreeBlack(h)))

(* hkbipmatch_init of a bipartite graph *)
HopcroftKarp(lists) == Phases(lists, NoMatching(lists))
=============================================================================
