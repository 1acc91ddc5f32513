-------------------------- MODULE MCSpanningForests --------------------------
(***************************************************************************)
(* The minimum spanning forests, and what they are built on, for TLC: a    *)
(* behaviour uses a union-find structure, quick-find, an array heap or one *)
(* of the four algorithms on one of the graphs.  What is not used stays as *)
(* it was initialised.                                                     *)
(***************************************************************************)
EXTENDS UnionForest, WeightedGraph

CONSTANTS Kinds,
          Cap, Keys,            \* the indexed priority queue
          PlainCap, PlainKeys,  \* the plain one
          Inputs                \* the edges of the graphs, in their order

ASSUME HeapAssumption ==
    /\ Cap \in Nat \ {0} /\ Keys \subseteq Nat \ {0}
    /\ PlainCap \in Nat \ {0} /\ PlainKeys \subseteq Nat \ {0}

(* An edge is known by its address: no two of a graph have the same. *)
ASSUME InputsAssumption ==
    /\ Inputs \subseteq Seq(Edges)
    /\ \A added \in Inputs : \A m, n \in DOMAIN added : added[m].id = added[n].id => m = n

VARIABLES kind,                                         \* what the behaviour uses
          id, i, qid, qcall, qpc, qpid, qcount, qret,   \* QuickFind
          pq, qp, keys, size, capacity, op, hpc, hi, at, hk, hret, strayed, \* IndexPQ
          heap, psize, pcapacity, ppc, pk, pret,        \* BinaryPQ
          adj, falg, fpc, edges, fcanon, rank, mst, closest, k, fi, \* SpanningForests
          lazy, gpc, marked, distto, edgeto, held, queue, gmst, todo, rest \* PrimForests

qvars == <<id, i, qid, qcall, qpc, qpid, qcount, qret>>
hvars == <<pq, qp, keys, size, capacity, op, hpc, hi, at, hk, hret, strayed>>
pvars == <<heap, psize, pcapacity, ppc, pk, pret>>
fvars == <<falg, fpc, edges, fcanon, rank, mst, closest, k, fi>>
gvars == <<lazy, gpc, marked, distto, edgeto, held, queue, gmst, todo, rest>>
mcvars == <<kind, vars, qvars, hvars, pvars, adj, fvars, gvars>>

Q == INSTANCE QuickFind WITH
    call <- qcall, pc <- qpc, pid <- qpid, count <- qcount, ret <- qret
H == INSTANCE IndexPQ WITH pc <- hpc, i <- hi, k <- hk, ret <- hret
B == INSTANCE BinaryPQ WITH
    Cap <- PlainCap, Keys <- PlainKeys, keys <- heap, size <- psize,
    capacity <- pcapacity, pc <- ppc, k <- pk, ret <- pret
F == INSTANCE SpanningForests WITH alg <- falg, pc <- fpc, canon <- fcanon, i <- fi
G == INSTANCE PrimForests WITH pc <- gpc, mst <- gmst

(* Every graph of four vertices with weights 1 and 2, and the ones of equal
   weights with self-loops and an edge parallel to another one. *)
Pairs == <<<<0, 1>>, <<0, 2>>, <<0, 3>>, <<1, 2>>, <<1, 3>>, <<2, 3>>>>

Extras == <<[id |-> 101, v |-> 1, w |-> 1, weight |-> 1],
            [id |-> 102, v |-> 1, w |-> 0, weight |-> 2],
            [id |-> 103, v |-> 1, w |-> 1, weight |-> 2]>>

Weighted(weights) ==
    SelectSeq([n \in DOMAIN Pairs |-> [id |-> n, v |-> Pairs[n][1], w |-> Pairs[n][2],
                                       weight |-> weights[n]]],
              LAMBDA e : e.weight > 0)

SomeInputs ==
    {Weighted(weights) : weights \in [DOMAIN Pairs -> 0 .. 2]} \cup
    {Weighted(weights) \o Extras : weights \in [DOMAIN Pairs -> {0, 2}]}

ByUnion == {"kruskal", "boruvka"}
Grown   == {"prim", "lazy"}
-----------------------------------------------------------------------------
MCInit ==
    /\ kind \in Kinds
    /\ Init /\ (kind = "union" \/ alg = "uf")
    /\ Q!Init /\ H!Init /\ B!Init
    /\ falg = kind
    /\ lazy = (kind = "lazy")
    /\ \E added \in IF kind \in ByUnion \cup Grown THEN Inputs ELSE {<<>>} :
           adj = GraphOf(added)
    /\ F!Init /\ G!Init

MCNext ==
    \/ kind = "union" /\ Next /\ UNCHANGED <<kind, qvars, hvars, pvars, adj, fvars, gvars>>
    \/ kind = "quick" /\ Q!Next /\ UNCHANGED <<kind, vars, hvars, pvars, adj, fvars, gvars>>
    \/ kind = "index" /\ H!Next /\ UNCHANGED <<kind, vars, qvars, pvars, adj, fvars, gvars>>
    \/ kind = "plain" /\ B!Next /\ UNCHANGED <<kind, vars, qvars, hvars, adj, fvars, gvars>>
    \/ kind \in ByUnion /\ F!Next /\ UNCHANGED <<kind, vars, qvars, hvars, pvars, gvars>>
    \/ kind \in Grown /\ G!Next /\ UNCHANGED <<kind, vars, qvars, hvars, pvars, fvars>>

(* A call that was made goes on, whichever structure runs it. *)
MCSpec ==
    /\ MCInit
    /\ [][MCNext]_mcvars
    /\ WF_vars(kind = "union" /\ Work)
    /\ WF_qvars(kind = "quick" /\ Q!Work)
    /\ WF_hvars(kind = "index" /\ H!Loops)
    /\ WF_pvars(kind = "plain" /\ B!Loops)
    /\ WF_fvars(kind \in ByUnion /\ F!Work)
    /\ WF_gvars(kind \in Grown /\ G!Work)
-----------------------------------------------------------------------------
(* The variables keep their types: no find or relabelling loop, no swim or
   sink and no scan of an adjacency list leaves its array. *)
MCTypeOK ==
    /\ TypeOK
    /\ kind = "quick" => Q!TypeOK
    /\ kind = "index" => H!TypeOK
    /\ kind = "plain" => B!TypeOK
    /\ kind \in ByUnion => F!TypeOK
    /\ kind \in Grown => G!TypeOK

(* What the structure in use represents, as the partition of the header. *)
Partitioned == INSTANCE Partition WITH
    canon <- IF kind = "quick" THEN Q!Canon ELSE canon,
    count <- IF kind = "quick" THEN Q!Sets ELSE count,
    call  <- IF kind = "quick" THEN Q!Pending ELSE call,
    ret   <- IF kind = "quick" THEN Q!Answered ELSE ret

(* Every union-find structure, quick-find's half-relabelled array included,
   implements the partition: find agrees on two elements exactly when the
   unions so far put them in one set, and count is what the unions left. *)
ImplementsPartition == Partitioned!Spec
-----------------------------------------------------------------------------
(* pq and qp of the indexed queue stay inverse, until ipqueue_remove's swim
   starts outside the heap. *)
InverseUnlessStrayed == kind = "index" => H!InverseUnlessStrayed

(* No operation of an array heap loses a key, doubles one or changes the key
   of another index. *)
HeapsKeepKeys ==
    /\ H!Held!Init /\ B!Bag!Init
    /\ [][ /\ kind = "index" => H!KeysStep
           /\ kind = "plain" => B!BagStep ]_<<hvars, pvars>>
-----------------------------------------------------------------------------
Forest == IF kind \in ByUnion THEN ToSet(mst) ELSE G!Chosen

Ended == IF kind \in ByUnion THEN fpc = "done" ELSE gpc = "done"

AllEdges == F!AllEdges

(* Two vertices have one root exactly when the edges chosen so far join them;
   the heap of Prim's algorithm is the fringe of the tree; and what an
   algorithm has chosen in the end is part of some minimum spanning forest,
   ties and stale entries of closest included. *)
ForestsSound ==
    /\ kind \in ByUnion => F!RootsAreTrees
    /\ kind \in Grown => G!HeapIsFringe
    /\ Ended => PartOfMinimum(Forest, AllEdges)

(* "Compute a minimum spanning tree (or forest)": what Kruskal's and Prim's
   algorithms return joins all that the graph joins.  ewgraph_edges_get lists
   every edge once: a loop is in its adjacency list twice, and so are parallel
   edges as often as they were added. *)
SpansGraph ==
    Ended => /\ kind # "boruvka" => SpansAll(Forest, AllEdges)
             /\ IsInjective(EdgesGet(adj))
             /\ ToSet(EdgesGet(adj)) = AllEdges

(* The same of Boruvka's. *)
BoruvkaSpans == Ended /\ kind = "boruvka" => SpansAll(Forest, AllEdges)

(* Every call returns or exits the program: find, whatever the shape of the
   trees, swim and sink, each turn of which moves k nearer to the root or to
   a leaf, and the four algorithms. *)
Busy ==
    \/ pc \notin {"idle", "exit"} \/ qpc \notin {"idle", "exit"}
    \/ hpc # "idle" \/ ppc # "idle"
    \/ kind \in ByUnion \cup Grown /\ ~Ended
Returns == Busy ~> ~Busy
=============================================================================
