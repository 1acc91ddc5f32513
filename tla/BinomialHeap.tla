----------------------------- MODULE BinomialHeap -----------------------------
(***************************************************************************)
(* heap/binomialpq/binomialpq.c and heap/indexbinompq/indexbinompq.c, used *)
(* as minimum queues (their compare function is `greater').  A list linked *)
(* by sibling pointers is a sequence of nodes: the root list, and the      *)
(* children of a node, leftmost first; a node's degree is the number of    *)
(* its children.  The plain queue is destructively united with another     *)
(* one; the indexed queue has a parent pointer in every node and the array *)
(* nodes that finds the node of an index.                                  *)
(***************************************************************************)
EXTENDS Integers, FiniteSets, Sequences

CONSTANTS Cap,          \* how many nodes the queues may have
          SecondCap,    \* how many of them the second queue may have
          IndexCap,     \* the capacity of the indexed queue, at most Cap
          Keys          \* the keys a caller inserts, positive numbers

VARIABLES indexed,      \* which of the two queues it is
          tree,         \* tree[b], the nodes
          head,         \* head[q], the root list of queue q
          nodes,        \* nodes[i], the node of index i
          astray        \* TRUE once NULL or a pointer never set was followed

vars == <<indexed, tree, head, nodes, astray>>

Blocks  == 1 .. Cap
Index   == 1 .. IndexCap
Nil     == 0
Wild    == -1           \* a pointer that was never assigned
NoIndex == 0
Queues  == IF indexed THEN {1} ELSE {1, 2}

Unused == [key |-> 0, index |-> NoIndex, kids |-> <<>>, parent |-> Nil]
Live   == {b \in Blocks : tree[b] # Unused}
Degree(m, b) == Len(m[b].kids)

(* The first block that is free. *)
Fresh(m) == CHOOSE b \in Blocks : m[b] = Unused /\ \A c \in 1 .. b - 1 : m[c] # Unused
-----------------------------------------------------------------------------
(* BINOMPQ_LINK: root1 becomes the leftmost child of root2. *)
Linked(m, root1, root2) ==
    [m EXCEPT ![root1].parent = root2, ![root2].kids = <<root1>> \o @]

RECURSIVE MergeNode(_, _, _), Scan(_, _, _)

(* merge_node: one list by degree; of equal ones the second list's is first. *)
MergeNode(m, xs, ys) ==
    IF xs = <<>> THEN ys
    ELSE IF ys = <<>> THEN xs
    ELSE IF Degree(m, Head(xs)) < Degree(m, Head(ys))
           THEN <<Head(xs)>> \o MergeNode(m, Tail(xs), ys)
           ELSE <<Head(ys)>> \o MergeNode(m, xs, Tail(ys))

(* Mutant: the tree behind the next one is not looked at. *)
StaysIfLess(m, list) == Degree(m, list[1]) < Degree(m, list[2])

(* The first tree of the list stays as it is: the next one is larger, or the
   next two have its degree. *)
Stays(m, list) ==
    \/ Degree(m, list[1]) < Degree(m, list[2])
    \/ Len(list) > 2 /\ Degree(m, list[3]) = Degree(m, list[1])

(* The loop of binompq_union: done are the trees up to prev, the list starts
   with current. *)
Scan(m, done, list) ==
    LET rest == SubSeq(list, 3, Len(list))
    IN  IF Len(list) = 1
          THEN [tree |-> m, head |-> done \o list]
        ELSE IF Stays(m, list)
          THEN Scan(m, Append(done, list[1]), Tail(list))
        ELSE IF m[list[2]].key > m[list[1]].key
          THEN Scan(Linked(m, list[2], list[1]), done, <<list[1]>> \o rest)
          ELSE Scan(Linked(m, list[1], list[2]), done, <<list[2]>> \o rest)

(* binompq_union of two root lists that are not both empty. *)
United(m, xs, ys) == Scan(m, <<>>, MergeNode(m, xs, ys))

(* make_node, which leaves parent as malloc returned it, and the union with
   the queue of that node. *)
Inserted(m, list, b, i, key) ==
    United([m EXCEPT ![b] = [key |-> key, index |-> i, kids |-> <<>>,
                             parent |-> IF indexed THEN Wild ELSE Nil]],
           list, <<b>>)

Reversed(list) == [n \in 1 .. Len(list) |-> list[Len(list) + 1 - n]]

(* The children in the order of a root list. *)
Children(m, b) == Reversed(m[b].kids)

(* The root b leaves the root list; its children are united with the rest. *)
WithoutRoot(m, list, b) ==
    LET kids  == Children(m, b)
        rest  == SelectSeq(list, LAMBDA c : c # b)
        freed == [c \in Blocks |->
                     IF c = b THEN Unused
                     ELSE IF m[c].parent = b THEN [m[c] EXCEPT !.parent = Nil]
                     ELSE m[c]]
    IN  IF kids = <<>>
          THEN [tree |-> freed, head |-> rest]
          ELSE United(freed, rest, kids)

(* get_node: of equal smallest roots the first. *)
GetNode(m, list) ==
    list[CHOOSE n \in DOMAIN list :
            /\ \A k \in DOMAIN list : m[list[n]].key <= m[list[k]].key
            /\ \A k \in 1 .. n - 1 : m[list[n]].key < m[list[k]].key]

(* exchange_node: two nodes exchange their keys and their indices. *)
Exchanged(s, a, b) ==
    LET m == [s.tree EXCEPT ![a].key = s.tree[b].key, ![a].index = s.tree[b].index,
                            ![b].key = s.tree[a].key, ![b].index = s.tree[a].index]
    IN  [tree |-> m, nodes |-> [s.nodes EXCEPT ![m[a].index] = a, ![m[b].index] = b]]

RECURSIVE Swim(_, _), ToRoot(_, _)

(* swim *)
Swim(s, i) ==
    LET b == s.nodes[i]
        p == s.tree[b].parent
    IN  IF p \in Blocks /\ s.tree[p].key > s.tree[b].key
          THEN Swim(Exchanged(s, b, p), i)
          ELSE s

(* toroot *)
ToRoot(s, i) ==
    LET b == s.nodes[i]
        p == s.tree[b].parent
    IN  IF p \in Blocks THEN ToRoot(Exchanged(s, b, p), i) ELSE s

(* swim and toroot stopped at a root whose parent pointer was never set: they
   may have found NULL there, or anything else. *)
AtWild(s, i) == s.tree[s.nodes[i]].parent = Wild

(* ibinompq_remove: the index is exchanged upwards, and its root deleted. *)
Removed(s, list, i) ==
    LET up == ToRoot(s, i)
        r  == WithoutRoot(up.tree, list, up.nodes[i])
    IN  [tree |-> r.tree, head |-> r.head, nodes |-> [up.nodes EXCEPT ![i] = Nil]]

(* The nodes of queue q. *)
RECURSIVE Below(_)
Below(b) == {b} \cup UNION {Below(tree[b].kids[n]) : n \in DOMAIN tree[b].kids}

Held(q) == UNION {Below(head[q][n]) : n \in DOMAIN head[q]}

Here == [tree |-> tree, nodes |-> nodes]

(* What follows a wild pointer is not modelled. *)
GoesAstray ==
    /\ astray' = TRUE
    /\ UNCHANGED <<indexed, tree, head, nodes>>
-----------------------------------------------------------------------------
Init ==
    /\ indexed \in BOOLEAN
    /\ tree = [b \in Blocks |-> Unused]
    /\ head = [q \in {1, 2} |-> <<>>]
    /\ nodes = [i \in Index |-> Nil]
    /\ astray = FALSE

(* binompq_insert *)
Insert(q, key) ==
    /\ ~astray
    /\ ~indexed
    /\ Cardinality(Live) < Cap
    /\ q = 2 => Cardinality(Held(2)) < SecondCap
    /\ LET r == Inserted(tree, head[q], Fresh(tree), NoIndex, key)
       IN  tree' = r.tree /\ head' = [head EXCEPT ![q] = r.head]
    /\ UNCHANGED <<indexed, nodes, astray>>

(* ibinompq_insert of an index that is not in the queue. *)
InsertIndex(i, key) ==
    /\ ~astray
    /\ indexed
    /\ nodes[i] = Nil
    /\ LET b == Fresh(tree)
           r == Inserted(tree, head[1], b, i, key)
       IN  /\ tree' = r.tree
           /\ head' = [head EXCEPT ![1] = r.head]
           /\ nodes' = [nodes EXCEPT ![i] = b]
    /\ UNCHANGED <<indexed, astray>>

(* binompq_delete and ibinompq_delete of queue 1 if it is not empty.  Queue 2
   is only filled, to be united with queue 1. *)
Delete ==
    /\ ~astray
    /\ head[1] # <<>>
    /\ LET b == GetNode(tree, head[1])
           r == WithoutRoot(tree, head[1], b)
       IN  /\ tree' = r.tree
           /\ head' = [head EXCEPT ![1] = r.head]
           /\ nodes' = [i \in Index |-> IF i = tree[b].index THEN Nil ELSE nodes[i]]
    /\ UNCHANGED <<indexed, astray>>

(* binompq_union of the queues 1 and 2: queue 1 has all keys, and queue 2 is
   initialised before it is used again.  The union of two empty queues
   follows NULL. *)
Union ==
    /\ ~astray
    /\ ~indexed
    /\ \/ /\ head[1] \o head[2] # <<>>
          /\ LET r == United(tree, head[1], head[2])
             IN  tree' = r.tree /\ head' = <<r.head, <<>>>>
          /\ UNCHANGED <<indexed, nodes, astray>>
       \/ head[1] \o head[2] = <<>> /\ GoesAstray

(* ibinompq_remove *)
Remove(i) ==
    /\ ~astray
    /\ nodes[i] # Nil
    /\ \/ LET r == Removed(Here, head[1], i)
          IN  /\ tree' = r.tree
              /\ head' = [head EXCEPT ![1] = r.head]
              /\ nodes' = r.nodes
              /\ UNCHANGED <<indexed, astray>>
       \/ AtWild(ToRoot(Here, i), i) /\ GoesAstray

(* ibinompq_decrkey to a key that is not larger. *)
Decrkey(i, key) ==
    /\ ~astray
    /\ nodes[i] # Nil
    /\ key <= tree[nodes[i]].key
    /\ LET s == Swim([Here EXCEPT !.tree[nodes[i]].key = key], i)
       IN  \/ tree' = s.tree /\ nodes' = s.nodes /\ UNCHANGED <<indexed, head, astray>>
           \/ AtWild(s, i) /\ GoesAstray

(* ibinompq_incrkey to a key that is not smaller: the index is removed and
   inserted again. *)
Incrkey(i, key) ==
    /\ ~astray
    /\ nodes[i] # Nil
    /\ key >= tree[nodes[i]].key
    /\ \/ LET r == Removed(Here, head[1], i)
              b == Fresh(r.tree)
              n == Inserted(r.tree, r.head, b, i, key)
          IN  /\ tree' = n.tree
              /\ head' = [head EXCEPT ![1] = n.head]
              /\ nodes' = [r.nodes EXCEPT ![i] = b]
              /\ UNCHANGED <<indexed, astray>>
       \/ AtWild(ToRoot(Here, i), i) /\ GoesAstray

(* ibinompq_change takes a smaller key for a decrease, any other for an
   increase. *)
Change(i, key) ==
    /\ nodes[i] # Nil
    /\ IF key < tree[nodes[i]].key THEN Decrkey(i, key) ELSE Incrkey(i, key)

(* binompq_clear and ibinompq_clear, then the initialisation that follows. *)
Clear ==
    /\ ~astray
    /\ tree' = [b \in Blocks |-> Unused]
    /\ head' = [q \in {1, 2} |-> <<>>]
    /\ nodes' = [i \in Index |-> Nil]
    /\ UNCHANGED <<indexed, astray>>

Stopped == astray /\ UNCHANGED vars

Next ==
    \/ Delete \/ Union \/ Clear \/ Stopped
    \/ \E q \in Queues, key \in Keys : Insert(q, key)
    \/ \E i \in Index :
          \/ Remove(i)
          \/ \E key \in Keys : InsertIndex(i, key) \/ Change(i, key) \/ Decrkey(i, key)

Spec == Init /\ [][Next]_vars
-----------------------------------------------------------------------------
TypeOK ==
    /\ \A b \in Blocks :
          /\ tree[b].key \in Keys \cup {0}
          /\ tree[b].index \in Index \cup {NoIndex}
          /\ tree[b].kids \in Seq(Blocks)
          /\ tree[b].parent \in Blocks \cup {Nil, Wild}
    /\ \A q \in {1, 2} : head[q] \in Seq(Blocks)
    /\ nodes \in [Index -> Blocks \cup {Nil}]

RECURSIVE SizeOf(_)

(* binompq_size: the sum of the powers 2^degree, as long as no bit is set
   twice by its OR. *)
SizeOf(list) ==
    IF list = <<>> THEN 0 ELSE 2 ^ Degree(tree, Head(list)) + SizeOf(Tail(list))

(* A queue is a list of binomial trees of growing degrees, in heap order:
   node b's children have the degrees Degree(b) - 1 down to 0.  Hence
   binompq_size, which looks only at the roots, counts the nodes.  In the
   indexed queue nodes and the index fields are inverse, and every parent
   pointer that was set points to the parent. *)
Sound ==
    ~astray =>
        /\ Held(1) \cup Held(2) = Live
        /\ \A q \in {1, 2} :
              /\ \A n \in 2 .. Len(head[q]) : Degree(tree, head[q][n - 1]) < Degree(tree, head[q][n])
              /\ SizeOf(head[q]) = Cardinality(Held(q))
        /\ \A b \in Live : \A n \in DOMAIN tree[b].kids :
              LET c == tree[b].kids[n]
              IN  /\ Degree(tree, c) = Degree(tree, b) - n
                  /\ tree[c].key >= tree[b].key
                  /\ tree[c].parent = b
        /\ \A i \in Index :
              {b \in Live : tree[b].index = i} = {nodes[i]} \ {Nil}

(* Each operation does to the queue what its name says: a deletion takes a
   smallest key, no operation on one index changes the key of another, and
   the union has the keys of both queues and leaves the other one empty. *)
Counted(q) == [key \in Keys |-> Cardinality({b \in Held(q) : tree[b].key = key})]
Bag(q) == INSTANCE KeyBag WITH None <- 0, out <- 0, bag <- Counted(q)
Map == INSTANCE IndexedKeys WITH
    None <- 0, picked <- 0,
    held <- [i \in Index |-> IF nodes[i] = Nil THEN 0 ELSE tree[nodes[i]].key]
KeepsKeys ==
    [][ ~astray' =>
        IF indexed
          THEN /\ Delete => Map!TakeMin(tree[GetNode(tree, head[1])].index)
               /\ Map!Clear \/ \E i \in Index :
                     Map!Remove(i) \/ \E key \in Keys : Map!Insert(i, key) \/ Map!Change(i, key)
          ELSE \/ Live' = {}
               \/ /\ head'[2] = <<>>
                  /\ \A key \in Keys : Counted(1)'[key] = Counted(1)[key] + Counted(2)[key]
               \/ \E q \in Queues :
                     /\ head'[3 - q] = head[3 - q]
                     /\ \E key \in Keys : Bag(q)!Insert(key) \/ Bag(q)!TakeMin(key)
      ]_vars
=============================================================================
