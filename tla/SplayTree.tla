------------------------------ MODULE SplayTree ------------------------------
(***************************************************************************)
(* searchtree/splaytree/splaytree.c: a binary search tree with pointers to *)
(* parents, in which a node that is inserted, found or deleted is first    *)
(* rotated to the root.  A node is named by its key, which is never twice  *)
(* in a tree.  A deletion of a node with two children leaves pointers to   *)
(* the freed node in parent fields; a later rotation that follows one is   *)
(* the end of what can be said (astray).                                   *)
(***************************************************************************)
EXTENDS Integers, FiniteSets

CONSTANT Keys           \* the keys of the callers, positive numbers

VARIABLES mem,          \* mem.node[k], the nodes; mem.root is st->root
          size,         \* st->size
          got,          \* what splayt_get returned, None after other calls
          astray        \* TRUE once freed memory, or a null pointer, was followed

vars == <<mem, size, got, astray>>

None     == 0           \* a null pointer
Wild     == -1          \* a pointer to a node that was freed
Pointers == Keys \cup {None, Wild}
Unused   == [left |-> None, right |-> None, parent |-> None]
Empty    == [node |-> [k \in Keys |-> Unused], root |-> None]
Lost     == [node |-> [k \in Keys |-> Unused], root |-> Wild]

RECURSIVE Reach(_, _)

(* The nodes of the tree below x. *)
Reach(m, x) ==
    IF x = None THEN {} ELSE {x} \cup Reach(m, m.node[x].left) \cup Reach(m, m.node[x].right)

InTree == Reach(mem, mem.root)
-----------------------------------------------------------------------------
SetParent(m, x, p) == IF x = None THEN m ELSE [m EXCEPT !.node[x].parent = p]

(* y takes the place of x below p, the parent of x. *)
Instead(m, p, x, y) ==
    IF p = None THEN [m EXCEPT !.root = y]
    ELSE IF m.node[p].left = x THEN [m EXCEPT !.node[p].left = y]
    ELSE [m EXCEPT !.node[p].right = y]

RotateLeft(m, h) ==
    LET lower  == m.node[h].right
        handed == SetParent([m EXCEPT !.node[h].right = m.node[lower].left],
                            m.node[lower].left, h)
        raised == Instead([handed EXCEPT !.node[lower].parent = m.node[h].parent],
                          m.node[h].parent, h, lower)
    IN  [raised EXCEPT !.node[lower].left = h, !.node[h].parent = lower]

RotateRight(m, h) ==
    LET lower  == m.node[h].left
        handed == SetParent([m EXCEPT !.node[h].left = m.node[lower].right],
                            m.node[lower].right, h)
        raised == Instead([handed EXCEPT !.node[lower].parent = m.node[h].parent],
                          m.node[h].parent, h, lower)
    IN  [raised EXCEPT !.node[lower].right = h, !.node[h].parent = lower]

RECURSIVE Splay(_, _)

(* x is rotated to the root, two levels at a time while there are two; the
   node above these is read as well. *)
Splay(m, x) ==
    LET p == m.node[x].parent
        g == m.node[p].parent
        leftOf(a, b) == m.node[a].left = b
    IN  IF p = None THEN m
        ELSE IF p = Wild THEN Lost
        ELSE IF g = None
          THEN Splay(IF leftOf(p, x) THEN RotateRight(m, p) ELSE RotateLeft(m, p), x)
        ELSE IF g = Wild \/ m.node[g].parent = Wild THEN Lost
        ELSE Splay(CASE leftOf(p, x) /\ leftOf(g, p) -> RotateRight(RotateRight(m, g), p)
                     [] ~leftOf(p, x) /\ ~leftOf(g, p) -> RotateLeft(RotateLeft(m, g), p)
                     [] leftOf(p, x) /\ ~leftOf(g, p) -> RotateLeft(RotateRight(m, p), g)
                     [] OTHER -> RotateRight(RotateLeft(m, p), g), x)
-----------------------------------------------------------------------------
RECURSIVE Place(_, _, _)

(* The last node on the way down to where the key is, or would be. *)
Place(m, x, key) ==
    LET next == IF x < key THEN m.node[x].right ELSE m.node[x].left
    IN  IF x = key \/ next = None THEN x ELSE Place(m, next, key)

RECURSIVE MinNode(_, _)

MinNode(m, x) == IF m.node[x].left = None THEN x ELSE MinNode(m, m.node[x].left)

(* replace *)
Replace(m, x, y) == SetParent(Instead(m, m.node[x].parent, x, y), y, m.node[x].parent)

(* The node x at the root leaves the tree.  If it has two children, the
   smallest node of the right subtree takes its place, but x stays in the
   parent fields of the children that it hands over. *)
Unlinked(m, x) ==
    LET min   == MinNode(m, m.node[x].right)
        apart == Replace(m, min, m.node[min].right)
        over  == SetParent([apart EXCEPT !.node[min].right = apart.node[x].right],
                           apart.node[x].right, x)
        moved == Replace(IF m.node[min].parent = x THEN m ELSE over, x, min)
    IN  IF m.node[x].left = None THEN Replace(m, x, m.node[x].right)
        ELSE IF m.node[x].right = None THEN Replace(m, x, m.node[x].left)
        ELSE IF m.node[min].parent = Wild THEN Lost
        ELSE SetParent([moved EXCEPT !.node[min].left = m.node[x].left], m.node[x].left, x)

(* The node is freed: every pointer to it is wild. *)
Released(m, x) ==
    LET safe(p) == IF p = x THEN Wild ELSE p
    IN  [m EXCEPT !.node = [k \in Keys |->
            IF k = x THEN Unused
            ELSE [left   |-> safe(m.node[k].left),
                  right  |-> safe(m.node[k].right),
                  parent |-> safe(m.node[k].parent)]]]

(* The memory after a call; a behaviour ends where a pointer leads astray. *)
Settled(m) ==
    IF m.root = Wild
      THEN mem' = Empty /\ astray' = TRUE
      ELSE mem' = m /\ UNCHANGED astray
-----------------------------------------------------------------------------
Init ==
    /\ mem = Empty
    /\ size = 0
    /\ got = None
    /\ astray = FALSE

Has(key) == mem.root # None /\ Place(mem, mem.root, key) = key

(* The new node hangs below the last one on the way, without children. *)
Hung(m, key) ==
    LET p == Place(m, m.root, key)
    IN  IF m.root = None THEN [m EXCEPT !.root = key]
        ELSE IF p < key THEN [m EXCEPT !.node[p].right = key, !.node[key].parent = p]
        ELSE [m EXCEPT !.node[p].left = key, !.node[key].parent = p]

Put(key) ==
    /\ ~astray
    /\ IF Has(key)
         THEN UNCHANGED <<mem, size, astray>>
         ELSE /\ Settled(Splay(Hung(mem, key), key))
              /\ size' = size + 1
    /\ got' = None

(* The root is read first, even if there is none. *)
Get(key) ==
    /\ ~astray
    /\ CASE mem.root = None -> Settled(Lost)
         [] mem.root # None /\ Has(key) -> Settled(Splay(mem, key))
         [] OTHER -> UNCHANGED <<mem, astray>>
    /\ got' = IF Has(key) THEN key ELSE None
    /\ UNCHANGED size

Delete(key) ==
    /\ ~astray
    /\ Has(key)
    /\ LET top  == Splay(mem, key)
           gone == Unlinked(top, key)
       IN  Settled(IF top.root = Wild \/ gone.root = Wild THEN Lost ELSE Released(gone, key))
    /\ size' = size - 1
    /\ got' = None

Clear ==
    /\ ~astray /\ mem.root # None
    /\ mem' = Empty
    /\ size' = 0
    /\ got' = None
    /\ UNCHANGED astray

Stopped == astray /\ UNCHANGED vars

Next == (\E key \in Keys : Put(key) \/ Get(key) \/ Delete(key)) \/ Clear \/ Stopped

Spec == Init /\ [][Next]_vars
-----------------------------------------------------------------------------
TypeOK ==
    /\ mem \in [node : [Keys -> [left : Pointers, right : Pointers, parent : Pointers]],
                root : Keys \cup {None}]
    /\ size \in 0 .. Cardinality(Keys)
    /\ got \in Keys \cup {None}
    /\ astray \in BOOLEAN

Children(x) == {mem.node[x].left, mem.node[x].right} \ {None}

(* The nodes form a search tree with every node in it once: what lies left of a
   node is smaller, what lies right is larger, no child is a freed node, and
   size is their number.  A parent field names the node above or is wild, the
   root has no parent. *)
Sound ==
    ~astray =>
        /\ \A x \in InTree :
              /\ Children(x) \subseteq Keys
              /\ \A y \in Reach(mem, mem.node[x].left) : y < x
              /\ \A y \in Reach(mem, mem.node[x].right) : y > x
              /\ \A y \in Children(x) : mem.node[y].parent \in {x, Wild}
        /\ mem.root # None => mem.node[mem.root].parent = None
        /\ size = Cardinality(InTree)

(* A key that is inserted or found is the root when the call returns. *)
AccessedToRoot ==
    \A key \in Keys : ~astray' =>
        /\ key \notin InTree /\ Put(key) => mem'.root = key
        /\ Get(key) /\ got' = key => mem'.root = key
=============================================================================
