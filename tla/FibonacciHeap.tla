---------------------------- MODULE FibonacciHeap ----------------------------
(***************************************************************************)
(* heap/fibonaccipq/fibonaccipq.c and heap/indexfibpq/indexfibpq.c, used   *)
(* as minimum queues (their compare function is `greater').  The roots,    *)
(* and the children of a node, are rings linked by next and prev.  In the  *)
(* indexed queue the node of an index is the index; in the plain queue a   *)
(* node is any block of memory, and two queues can be merged.              *)
(*                                                                         *)
(* A behaviour is followed as long as result is a root and the rings are   *)
(* closed; the code relies on both and does not always leave it so.        *)
(***************************************************************************)
EXTENDS Integers, FiniteSets, Sequences

CONSTANTS Cap,          \* how many nodes the plain queues may have
          SecondCap,    \* how many of them the second queue may have
          IndexCap,     \* the capacity of the indexed queue, at most Cap
          Keys          \* the keys a caller inserts, positive numbers

VARIABLES indexed,      \* which of the two queues it is
          node,         \* node[x], the nodes
          head,         \* head[q], a root of queue q
          result,       \* result[q], the root with the smallest key
          size          \* size[q]

vars == <<indexed, node, head, result, size>>

Nodes  == 1 .. Cap
Nil    == 0
Queues == {1, 2}

Unused == [key |-> 0, degree |-> 0, prev |-> Nil, next |-> Nil,
           parent |-> Nil, child |-> Nil, mark |-> FALSE]
Live == {x \in Nodes : node[x] # Unused}
-----------------------------------------------------------------------------
(* insert_node: x enters the ring in front of first and becomes its head. *)
InsertNode(m, x, first) ==
    LET last == m[first].prev
    IN  IF first = Nil
          THEN [m EXCEPT ![x].prev = x, ![x].next = x]
          ELSE [[m EXCEPT ![x].next = first, ![x].prev = last]
                   EXCEPT ![last].next = x, ![first].prev = x]

(* Mutant: the head of the ring stays the head after it is cut. *)
CutNodeKeepsHead(m, x, first) ==
    IF m[x].next = x
      THEN [node |-> [m EXCEPT ![x].prev = Nil, ![x].next = Nil], head |-> Nil]
      ELSE [node |-> [[m EXCEPT ![m[x].prev].next = m[x].next, ![m[x].next].prev = m[x].prev]
                         EXCEPT ![x].prev = Nil, ![x].next = Nil],
            head |-> first]

(* cut_node: x leaves the ring of first; the head that remains. *)
CutNode(m, x, first) ==
    IF m[x].next = x
      THEN [node |-> [m EXCEPT ![x].prev = Nil, ![x].next = Nil], head |-> Nil]
      ELSE [node |-> [[m EXCEPT ![m[x].prev].next = m[x].next, ![m[x].next].prev = m[x].prev]
                         EXCEPT ![x].prev = Nil, ![x].next = Nil],
            head |-> IF first = x THEN m[x].next ELSE first]

RECURSIVE RingFrom(_, _, _), InsertAll(_, _, _), Place(_, _, _, _), PlaceAll(_, _, _)
RECURSIVE Rebuilt(_, _, _, _)

(* The ring of first in the order of its next pointers. *)
RingFrom(m, x, first) ==
    <<x>> \o IF m[x].next \in {first, Nil} THEN <<>> ELSE RingFrom(m, m[x].next, first)
Ring(m, first) == IF first = Nil THEN <<>> ELSE RingFrom(m, first, first)

(* The nodes of a list are written into the root ring one after the other. *)
InsertAll(m, list, first) ==
    IF list = <<>> THEN [node |-> m, head |-> first]
    ELSE InsertAll(InsertNode([m EXCEPT ![Head(list)].parent = Nil], Head(list), first),
                   Tail(list), Head(list))

(* link_node: x becomes a child of y. *)
LinkNode(m, x, y) ==
    LET linked == InsertNode([m EXCEPT ![x].parent = IF indexed THEN y ELSE Nil], x, m[y].child)
    IN  [linked EXCEPT ![y].child = x, ![y].degree = @ + 1]

(* consolidate: x is placed in the table of roots by degree; while its place
   is taken it is linked with the root there.  Of equal keys, the root that
   comes later stays on top. *)
Place(m, table, x, d) ==
    LET y     == table[d]
        upper == IF m[x].key > m[y].key THEN y ELSE x
        lower == IF upper = x THEN y ELSE x
    IN  IF y = Nil
          THEN [node |-> m, table |-> [table EXCEPT ![d] = x]]
          ELSE Place(LinkNode(m, lower, upper), [table EXCEPT ![d] = Nil], upper, d + 1)

PlaceAll(m, table, list) ==
    LET placed == Place(m, table, Head(list), m[Head(list)].degree)
    IN  IF list = <<>> THEN [node |-> m, table |-> table]
        ELSE PlaceAll(placed.node, placed.table, Tail(list))

(* consolidate, second part: the roots of the table form the new root ring,
   the degrees growing; r is the result so far. *)
Rebuilt(h, table, d, top) ==
    LET x == table[d]
        taken == [node |-> InsertNode(h.node, x, h.head), head |-> x,
                  result |-> IF h.node[h.result].key > h.node[x].key THEN x ELSE h.result]
    IN  IF d > top THEN h
        ELSE Rebuilt(IF x = Nil THEN h ELSE taken, table, d + 1, top)

(* ceil(log2(n)) *)
MaxDegree(n) == CHOOSE d \in 0 .. n : 2 ^ d >= n /\ \A e \in 0 .. d - 1 : 2 ^ e < n

(* Mutant: result is the new head. *)
ConsolidateToHead(m, first, n) ==
    LET placed == PlaceAll(m, [d \in 0 .. Cap |-> Nil], Ring(m, first))
        h == Rebuilt([node |-> placed.node, head |-> Nil, result |-> first],
                     placed.table, 0, MaxDegree(n))
    IN  [h EXCEPT !.result = h.head]

(* consolidate of a queue of n nodes. *)
Consolidate(m, first, n) ==
    LET placed == PlaceAll(m, [d \in 0 .. Cap |-> Nil], Ring(m, first))
    IN  Rebuilt([node |-> placed.node, head |-> Nil, result |-> first],
                placed.table, 0, MaxDegree(n))

(* The root x leaves the queue h of n nodes; its children become roots. *)
Without(h, x, n) ==
    LET cut   == CutNode(h.node, x, h.head)
        grown == InsertAll(cut.node, Ring(cut.node, cut.node[x].child), cut.head)
        freed == [grown.node EXCEPT ![x] = Unused]
    IN  IF n = 1
          THEN [node |-> freed, head |-> grown.head, result |-> Nil]
          ELSE Consolidate(freed, grown.head, n - 1)

(* Insertion of x: it is the new head, and the result if its key is smaller. *)
With(h, x, key) ==
    [node |-> InsertNode([h.node EXCEPT ![x] = [Unused EXCEPT !.key = key]], x, h.head),
     head |-> x,
     result |-> IF h.result = Nil \/ h.node[h.result].key > key THEN x ELSE h.result]

RECURSIVE CutIndex(_, _)

(* cut_index: x is moved to the root ring, and its parent too if it had lost
   a child before; otherwise the parent is marked unless it is a root. *)
CutIndex(h, x) ==
    LET p   == h.node[x].parent
        cut == CutNode(h.node, x, h.node[p].child)
        off == [cut.node EXCEPT ![p].child = cut.head, ![p].degree = @ - 1,
                                ![x].parent = Nil, ![x].mark = FALSE]
        up  == [h EXCEPT !.node = InsertNode(off, x, h.head), !.head = x]
    IN  IF p = Nil THEN h
        ELSE IF up.node[p].parent = Nil THEN up
        ELSE IF up.node[p].mark THEN CutIndex(up, p)
        ELSE [up EXCEPT !.node[p].mark = TRUE]

(* ifibpq_remove *)
Removed(h, x, n) == Without(CutIndex(h, x), x, n)

(* Queue q, and the queue after an operation on it. *)
Queue(q) == [node |-> node, head |-> head[q], result |-> result[q]]
Becomes(q, h) ==
    /\ node' = h.node
    /\ head' = [head EXCEPT ![q] = h.head]
    /\ result' = [result EXCEPT ![q] = h.result]
-----------------------------------------------------------------------------
(* "min or max Node of the root list" *)
RootRing(q) == {Ring(node, head[q])[n] : n \in DOMAIN Ring(node, head[q])}
ResultIsRoot == \A q \in Queues : size[q] > 0 => result[q] \in RootRing(q)

RingsClosed == \A x \in Live : node[node[x].next].prev = x

Followed == ResultIsRoot /\ RingsClosed

Init ==
    /\ indexed \in BOOLEAN
    /\ node = [x \in Nodes |-> Unused]
    /\ head = [q \in Queues |-> Nil]
    /\ result = [q \in Queues |-> Nil]
    /\ size = [q \in Queues |-> 0]

(* fibpq_insert, and ifibpq_insert of an index that is not in the queue. *)
Insert(q, x, key) ==
    /\ Followed
    /\ x \notin Live
    /\ IF indexed THEN q = 1 /\ x <= IndexCap ELSE \A y \in Nodes \ Live : x <= y
    /\ q = 2 => size[2] < SecondCap
    /\ Becomes(q, With(Queue(q), x, key))
    /\ size' = [size EXCEPT ![q] = @ + 1]
    /\ UNCHANGED indexed

(* fibpq_delete and ifibpq_delete of queue 1 if it is not empty.  Queue 2 is
   only filled, to be merged with queue 1. *)
Delete ==
    /\ Followed
    /\ size[1] > 0
    /\ Becomes(1, Without(Queue(1), result[1], size[1]))
    /\ size' = [size EXCEPT ![1] = @ - 1]
    /\ UNCHANGED indexed

(* meld_node: root2's prev is overwritten before it is handed to root1. *)
MeldNode(m, root1, root2) ==
    [[m EXCEPT ![m[root1].prev].next = root2, ![m[root2].prev].next = root1]
        EXCEPT ![root2].prev = m[root1].prev]

(* fibpq_unionfpq of two queues that are not empty: it follows their result
   pointers.  Queue 2 is initialised before it is used again. *)
Union ==
    /\ Followed
    /\ ~indexed
    /\ size[1] > 0
    /\ size[2] > 0
    /\ node' = MeldNode(node, head[1], head[2])
    /\ head' = <<head[1], Nil>>
    /\ result' = <<IF node[result[1]].key > node[result[2]].key THEN result[2] ELSE result[1], Nil>>
    /\ size' = <<size[1] + size[2], 0>>
    /\ UNCHANGED indexed

(* ifibpq_remove *)
Remove(x) ==
    /\ Followed
    /\ indexed
    /\ x \in Live
    /\ Becomes(1, Removed(Queue(1), x, size[1]))
    /\ size' = [size EXCEPT ![1] = @ - 1]
    /\ UNCHANGED indexed

(* ifibpq_decrkey to a key that is not larger. *)
Decrkey(x, key) ==
    /\ Followed
    /\ indexed
    /\ x \in Live
    /\ key <= node[x].key
    /\ LET h == [Queue(1) EXCEPT !.node[x].key = key]
           p == node[x].parent
           c == IF p # Nil /\ node[p].key > key THEN CutIndex(h, x) ELSE h
       IN  Becomes(1, IF c.node[x].parent = Nil /\ c.node[c.result].key > key
                        THEN [c EXCEPT !.result = x] ELSE c)
    /\ UNCHANGED <<indexed, size>>

(* ifibpq_incrkey to a key that is not smaller: the index is removed and
   inserted again. *)
Incrkey(x, key) ==
    /\ Followed
    /\ indexed
    /\ x \in Live
    /\ key >= node[x].key
    /\ Becomes(1, With(Removed(Queue(1), x, size[1]), x, key))
    /\ UNCHANGED <<indexed, size>>

(* ifibpq_change takes a smaller key for a decrease, any other for an
   increase. *)
Change(x, key) ==
    IF key < node[x].key THEN Decrkey(x, key) ELSE Incrkey(x, key)

(* fibpq_clear and ifibpq_clear, then the initialisation that follows. *)
Clear ==
    /\ Followed
    /\ node' = [x \in Nodes |-> Unused]
    /\ head' = [q \in Queues |-> Nil]
    /\ result' = [q \in Queues |-> Nil]
    /\ size' = [q \in Queues |-> 0]
    /\ UNCHANGED indexed

Stopped == ~Followed /\ UNCHANGED vars

Next ==
    \/ Delete \/ Union \/ Clear \/ Stopped
    \/ \E x \in Nodes :
          \/ Remove(x)
          \/ \E key \in Keys : Change(x, key) \/ \E q \in Queues : Insert(q, x, key)

Spec == Init /\ [][Next]_vars
-----------------------------------------------------------------------------
TypeOK ==
    /\ \A x \in Nodes :
          /\ node[x].key \in Keys \cup {0}
          /\ node[x].degree \in 0 .. Cap
          /\ {node[x].prev, node[x].next, node[x].parent, node[x].child} \subseteq Nodes \cup {Nil}
    /\ {head[q] : q \in Queues} \cup {result[q] : q \in Queues} \subseteq Nodes \cup {Nil}
    /\ size \in [Queues -> 0 .. Cap]

RECURSIVE Below(_)
Kids(x) == {Ring(node, node[x].child)[n] : n \in DOMAIN Ring(node, node[x].child)}
Below(x) == {x} \cup UNION {Below(c) : c \in Kids(x)}
Held(q) == UNION {Below(x) : x \in RootRing(q)}

(* The rings hold every node of the queue, in heap order, and result is one
   with the smallest key.  No degree, which is the number of children, is
   beyond the table that consolidate makes for that size. *)
Sound ==
    Followed =>
        /\ Held(1) \cup Held(2) = Live
        /\ \A q \in Queues :
              /\ size[q] = Cardinality(Held(q))
              /\ \A x \in Held(q) : node[result[q]].key <= node[x].key
              /\ \A x \in Held(q) : node[x].degree <= MaxDegree(size[q])
        /\ \A x \in Live :
              /\ Cardinality(Kids(x)) = node[x].degree
              /\ \A c \in Kids(x) :
                    /\ node[x].key <= node[c].key
                    /\ indexed => node[c].parent = x

(* Each operation does to the queue what its name says: a deletion takes a
   smallest key, no operation on one index changes the key of another, and
   the merged queue has the keys of both. *)
Counted(q) == [key \in Keys |-> Cardinality({x \in Held(q) : node[x].key = key})]
Bag(q) == INSTANCE KeyBag WITH None <- 0, out <- 0, bag <- Counted(q)
Map == INSTANCE IndexedKeys WITH
    Index <- Nodes, None <- 0, picked <- 0,
    held <- [x \in Nodes |-> node[x].key]
KeepsKeys ==
    [][ IF indexed
          THEN /\ Delete => Map!TakeMin(result[1])
               /\ Map!Clear \/ \E x \in Nodes :
                     Map!Remove(x) \/ \E key \in Keys : Map!Insert(x, key) \/ Map!Change(x, key)
          ELSE \/ Live' = {}
               \/ /\ size'[2] = 0
                  /\ \A key \in Keys : Counted(1)'[key] = Counted(1)[key] + Counted(2)[key]
               \/ \E q \in Queues :
                     /\ head'[3 - q] = head[3 - q]
                     /\ \E key \in Keys : Bag(q)!Insert(key) \/ Bag(q)!TakeMin(key)
      ]_vars
=============================================================================
