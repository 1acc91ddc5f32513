----------------------------- MODULE PairingHeap -----------------------------
(***************************************************************************)
(* heap/pairingheap/pairingheap.c and heap/indexpairheap/indexpairheap.c,  *)
(* used as minimum queues.  Both build the same tree: a node points to its *)
(* leftmost child, to its next sibling and back, to its previous sibling   *)
(* or, from a leftmost child, to its parent.  The indexed heap finds the   *)
(* node of an index in its array nodes; here the node is the index.  In    *)
(* the plain heap a node is any block of memory.                           *)
(***************************************************************************)
EXTENDS Integers, FiniteSets, Sequences

CONSTANTS Cap,          \* how many nodes the plain heap may have
          IndexCap,     \* the capacity of the indexed heap, at most Cap
          Keys          \* the keys a caller inserts, positive numbers

VARIABLES indexed,      \* which of the two heaps it is
          heap,         \* heap.node[x], the nodes; heap.root
          size,         \* ph->size
          astray        \* TRUE once a node was read after it was freed

vars == <<indexed, heap, size, astray>>

Nodes    == 1 .. Cap
Nil      == 0
Wild     == -1          \* a pointer to a node that was freed
Pointers == Nodes \cup {Nil, Wild}
Unused   == [key |-> 0, degree |-> 0, child |-> Nil, sibling |-> Nil, prev |-> Nil]
Live     == {x \in Nodes : heap.node[x] # Unused}
-----------------------------------------------------------------------------
(* One child more.  Nothing in the indexed heap counts a child off again, so
   the counter is held at Cap, which is more than the children there are. *)
More(degree) == IF degree = Cap THEN Cap ELSE degree + 1

SetPrev(m, x, p) == IF x = Nil THEN m ELSE [m EXCEPT ![x].prev = p]

(* Mutant: the parent's old leftmost child keeps its back pointer. *)
AttachedOnly(m, first, second) ==
    [m EXCEPT ![second].prev = first, ![second].sibling = m[first].child,
              ![first].sibling = m[second].sibling,
              ![first].child = second, ![first].degree = More(@)]

(* compare_link attaches second as the leftmost child of first. *)
Attached(m, first, second) ==
    LET handed  == SetPrev([m EXCEPT ![second].prev = first,
                                     ![first].sibling = m[second].sibling],
                           m[second].sibling, first)
        pushed  == SetPrev([handed EXCEPT ![second].sibling = m[first].child],
                           m[first].child, second)
    IN  [pushed EXCEPT ![first].child = second, ![first].degree = More(@)]

(* compare_link attaches first as the leftmost child of second. *)
Overtaken(m, first, second) ==
    LET pushed == SetPrev([m EXCEPT ![second].prev = m[first].prev,
                                    ![first].prev = second,
                                    ![first].sibling = m[second].child],
                          m[second].child, first)
    IN  [pushed EXCEPT ![second].child = first, ![second].degree = More(@)]

(* compare_link: the nodes and the root of the linked tree. *)
CompareLink(h, second) ==
    LET first == h.root
    IN  IF first = second
          THEN h
        ELSE IF h.node[first].key <= h.node[second].key
          THEN [node |-> Attached(h.node, first, second), root |-> first]
          ELSE [node |-> Overtaken(h.node, first, second), root |-> second]

RECURSIVE Siblings(_, _)

(* The list of siblings that starts with x. *)
Siblings(m, x) ==
    IF x = Nil THEN <<>> ELSE <<x>> \o Siblings(m, m[x].sibling)

RECURSIVE Apart(_, _), PairUp(_, _), LinkLeft(_, _)

(* The links between the siblings are broken, one after the other. *)
Apart(m, forest) ==
    IF forest = <<>> THEN m
    ELSE Apart([m EXCEPT ![m[Head(forest)].prev].sibling = Nil], Tail(forest))

(* The first pass links the trees two by two, and the last one of an odd
   number to the last pair. *)
PairUp(m, forest) ==
    LET pair == CompareLink([node |-> m, root |-> forest[1]], forest[2])
        odd  == CompareLink(pair, forest[3])
        more == PairUp(pair.node, SubSeq(forest, 3, Len(forest)))
    IN  CASE Len(forest) = 2 -> [node |-> pair.node, roots |-> <<pair.root>>]
          [] Len(forest) = 3 -> [node |-> odd.node, roots |-> <<odd.root>>]
          [] OTHER -> [node |-> more.node, roots |-> <<pair.root>> \o more.roots]

(* The second pass links the results from right to left. *)
LinkLeft(m, roots) ==
    IF Len(roots) = 1 THEN [node |-> m, root |-> roots[1]]
    ELSE LET rest == LinkLeft(m, Tail(roots))
         IN  CompareLink([node |-> rest.node, root |-> roots[1]], rest.root)

CombineSiblings(m, fsib) ==
    LET forest == Siblings(m, fsib)
        pairs  == PairUp(Apart(m, forest), forest)
    IN  IF Len(forest) = 1
          THEN [node |-> m, root |-> fsib]
          ELSE LinkLeft(pairs.node, pairs.roots)

(* The node is freed: pointers to it dangle. *)
Free(h, x) ==
    LET Dangle(p) == IF p = x THEN Wild ELSE p
    IN  [node |-> [y \in Nodes |->
                      IF y = x \/ h.node[y] = Unused THEN Unused
                      ELSE [h.node[y] EXCEPT !.prev = Dangle(@), !.sibling = Dangle(@),
                                             !.child = Dangle(@)]],
         root |-> Dangle(h.root)]

(* Deletion of the root.  The pointer to the last node of a heap is kept. *)
Deleted(h) ==
    LET child == h.node[h.root].child
    IN  Free(IF child = Nil THEN h ELSE CombineSiblings(h.node, child), h.root)

(* detach_node: x leaves its siblings; it keeps its children and its prev. *)
Detached(m, x) ==
    LET p == m[x].prev
        joined == SetPrev(m, m[x].sibling, p)
    IN  [(IF m[p].child = x THEN [joined EXCEPT ![p].child = m[x].sibling]
                            ELSE [joined EXCEPT ![p].sibling = m[x].sibling])
            EXCEPT ![x].sibling = Nil]

(* ipheap_remove of an index that is in the heap. *)
Removed(h, x) ==
    LET cut   == [node |-> Detached(h.node, x), root |-> h.root]
        child == cut.node[x].child
        sub   == CombineSiblings(cut.node, child)
    IN  IF x = h.root THEN Deleted(h)
        ELSE Free(IF child = Nil THEN cut
                  ELSE CompareLink([node |-> sub.node, root |-> h.root], sub.root), x)

(* Insertion into the heap h.  If its root is a freed node, the new node is
   linked with it: nothing happens when malloc returned that very block;
   otherwise freed memory is compared, and what follows is not modelled. *)
Insertion(h, x, key) ==
    LET made == [h.node EXCEPT ![x] = [Unused EXCEPT !.key = key]]
    IN  \/ /\ heap' = IF h.root \in {Nil, Wild}
                        THEN [node |-> made, root |-> x]
                        ELSE CompareLink([node |-> made, root |-> h.root], x)
           /\ UNCHANGED astray
        \/ /\ h.root = Wild
           /\ astray' = TRUE
           /\ UNCHANGED heap
-----------------------------------------------------------------------------
Init ==
    /\ indexed \in BOOLEAN
    /\ heap = [node |-> [x \in Nodes |-> Unused], root |-> Nil]
    /\ size = 0
    /\ astray = FALSE

(* pheap_insert, and ipheap_insert of an index that is not in the heap. *)
Insert(x, key) ==
    /\ ~astray
    /\ x \notin Live
    /\ IF indexed THEN x <= IndexCap ELSE \A y \in Nodes \ Live : x <= y
    /\ Insertion(heap, x, key)
    /\ size' = size + 1
    /\ UNCHANGED indexed

(* pheap_delete and ipheap_delete of a queue that is not empty. *)
Delete ==
    /\ ~astray
    /\ size > 0
    /\ heap' = Deleted(heap)
    /\ size' = size - 1
    /\ UNCHANGED <<indexed, astray>>

(* ipheap_remove *)
Remove(x) ==
    /\ ~astray
    /\ indexed
    /\ x \in Live
    /\ heap' = Removed(heap, x)
    /\ size' = size - 1
    /\ UNCHANGED <<indexed, astray>>

(* ipheap_decrkey: the root stays where it is. *)
Decrkey(x, key) ==
    /\ ~astray
    /\ indexed
    /\ x \in Live
    /\ key < heap.node[x].key
    /\ LET keyed == [heap EXCEPT !.node[x].key = key]
       IN  heap' = IF x = heap.root THEN keyed
                   ELSE CompareLink([keyed EXCEPT !.node = Detached(@, x)], x)
    /\ UNCHANGED <<indexed, size, astray>>

(* ipheap_incrkey: the index is removed and inserted again. *)
Incrkey(x, key) ==
    /\ ~astray
    /\ indexed
    /\ x \in Live
    /\ key > heap.node[x].key
    /\ Insertion(Removed(heap, x), x, key)
    /\ UNCHANGED <<indexed, size>>

(* ipheap_change *)
Change(x, key) == Decrkey(x, key) \/ Incrkey(x, key)

(* pheap_clear or ipheap_clear, then the initialisation that must follow. *)
Clear ==
    /\ ~astray
    /\ heap' = [node |-> [x \in Nodes |-> Unused], root |-> Nil]
    /\ size' = 0
    /\ UNCHANGED <<indexed, astray>>

Stopped == astray /\ UNCHANGED vars

Next ==
    \/ Delete \/ Clear \/ Stopped
    \/ \E x \in Nodes :
          \/ Remove(x)
          \/ \E key \in Keys : Insert(x, key) \/ Change(x, key)

Spec == Init /\ [][Next]_vars
-----------------------------------------------------------------------------
TypeOK ==
    /\ heap.node \in [Nodes -> [key : Keys \cup {0}, degree : 0 .. Cap, child : Pointers,
                                sibling : Pointers, prev : Pointers]]
    /\ heap.root \in Pointers
    /\ size \in 0 .. Cap

Children(x) ==
    LET list == Siblings(heap.node, heap.node[x].child)
    IN  {list[n] : n \in DOMAIN list}

RECURSIVE Below(_)
Below(x) == {x} \cup UNION {Below(c) : c \in Children(x)}

(* The heap is one tree in heap order whose pointers agree in both
   directions, and combine_siblings' array of degree slots holds all the
   children of a node: in the plain heap degree is their number, which is
   asserted there; in the indexed one detach_node lets it exceed them. *)
Sound ==
    ~astray =>
        /\ Live = IF size = 0 THEN {} ELSE Below(heap.root)
        /\ size = Cardinality(Live)
        /\ \A x \in Live :
              LET n == heap.node[x]
              IN  /\ \A c \in Children(x) : heap.node[c].key >= n.key
                  /\ n.child # Nil => heap.node[n.child].prev = x
                  /\ n.sibling # Nil => heap.node[n.sibling].prev = x
                  /\ Cardinality(Children(x)) <= n.degree
                  /\ ~indexed => Cardinality(Children(x)) = n.degree

(* A step puts one key in, takes one out, changes one key or empties the
   queue; a deletion takes a smallest key, and in the indexed heap a change
   of one index leaves the key of every other index alone. *)
KeyOf(x) == heap.node[x].key
Bag == INSTANCE KeyBag WITH
    None <- 0, out <- 0,
    bag <- [key \in Keys |-> Cardinality({x \in Live : KeyOf(x) = key})]
Held == INSTANCE IndexedKeys WITH
    Index <- Nodes, None <- 0, picked <- 0,
    held <- [x \in Nodes |-> KeyOf(x)]
KeepsKeys ==
    [][~astray' =>
        IF indexed
          THEN /\ Delete => Held!TakeMin(heap.root)
               /\ Held!Clear \/ \E x \in Nodes :
                     Held!Remove(x) \/ \E key \in Keys : Held!Insert(x, key) \/ Held!Change(x, key)
          ELSE /\ Delete => Bag!TakeMin(KeyOf(heap.root))
               /\ Bag!Clear \/ \E key \in Keys : Bag!TakeMin(key) \/ Bag!Insert(key) ]_vars
=============================================================================
