------------------------------ MODULE TreeNodes ------------------------------
(***************************************************************************)
(* What the binary search trees of searchtree/ have in common: the nodes   *)
(* and the queries, which are the same functions in bsearchtree.c,         *)
(* redblackbst.c and avltree.c.  No node is shared, so a tree is a nested  *)
(* record, and a function that returns the changed subtree is an operator. *)
(* size and height are what the code stores in a node, never recomputed    *)
(* but where the code does.                                                *)
(***************************************************************************)
EXTENDS Integers, Sequences, FiniteSets

(* A null pointer: the macros give it the size 0 and the height -1. *)
Null == [size |-> 0, height |-> -1]
None == 0               \* a null pointer returned to a caller

Higher(a, b) == IF a > b THEN a ELSE b

(* The node with its size and height computed from its children. *)
Measured(node) ==
    [node EXCEPT !.size = 1 + node.left.size + node.right.size,
                 !.height = 1 + Higher(node.left.height, node.right.height)]

RECURSIVE InOrder(_)

(* The keys from left to right. *)
InOrder(node) ==
    IF node = Null THEN <<>>
    ELSE InOrder(node.left) \o <<node.key>> \o InOrder(node.right)

KeysOf(root) == {InOrder(root)[i] : i \in DOMAIN InOrder(root)}
-----------------------------------------------------------------------------
RECURSIVE GetNode(_, _), MinNode(_), MaxNode(_), RankNode(_, _), SelectNode(_, _),
          FloorNode(_, _), CeilingNode(_, _), KeysNode(_, _, _), IsBST(_, _, _),
          IsSizeConsistent(_)

GetNode(node, key) ==
    CASE node = Null -> None
      [] node # Null /\ key < node.key -> GetNode(node.left, key)
      [] node # Null /\ key > node.key -> GetNode(node.right, key)
      [] OTHER -> node.key

MinNode(node) == IF node.left = Null THEN node ELSE MinNode(node.left)
MaxNode(node) == IF node.right = Null THEN node ELSE MaxNode(node.right)

(* The rank adds up the stored sizes on the way down. *)
RankNode(node, key) ==
    CASE node = Null -> 0
      [] node # Null /\ key < node.key -> RankNode(node.left, key)
      [] node # Null /\ key > node.key -> 1 + node.left.size + RankNode(node.right, key)
      [] OTHER -> node.left.size

SelectNode(node, rank) ==
    CASE node = Null -> None
      [] node # Null /\ rank < node.left.size -> SelectNode(node.left, rank)
      [] node # Null /\ rank > node.left.size ->
             SelectNode(node.right, rank - node.left.size - 1)
      [] OTHER -> node.key

FloorNode(node, key) ==
    IF node = Null THEN None
    ELSE IF key = node.key THEN node.key
    ELSE IF key < node.key THEN FloorNode(node.left, key)
    ELSE LET below == FloorNode(node.right, key)
         IN  IF below # None THEN below ELSE node.key

CeilingNode(node, key) ==
    IF node = Null THEN None
    ELSE IF key = node.key THEN node.key
    ELSE IF key > node.key THEN CeilingNode(node.right, key)
    ELSE LET above == CeilingNode(node.left, key)
         IN  IF above # None THEN above ELSE node.key

(* A subtree is entered only if the range reaches into it. *)
KeysNode(node, lokey, hikey) ==
    IF node = Null THEN <<>>
    ELSE (IF lokey < node.key THEN KeysNode(node.left, lokey, hikey) ELSE <<>>)
      \o (IF lokey <= node.key /\ node.key <= hikey THEN <<node.key>> ELSE <<>>)
      \o (IF hikey > node.key THEN KeysNode(node.right, lokey, hikey) ELSE <<>>)

(* The tests of bst_check, rbbst_check and avlbst_check.  The bounds of a
   subtree may be None, and a key equal to a bound passes. *)
IsBST(node, minkey, maxkey) ==
    \/ node = Null
    \/ /\ minkey # None => node.key >= minkey
       /\ maxkey # None => node.key <= maxkey
       /\ IsBST(node.left, minkey, node.key)
       /\ IsBST(node.right, node.key, maxkey)

IsSizeConsistent(node) ==
    \/ node = Null
    \/ /\ node.size = node.left.size + node.right.size + 1
       /\ IsSizeConsistent(node.left) /\ IsSizeConsistent(node.right)

IsRankConsistent(root) ==
    root # Null =>
        LET all == KeysNode(root, MinNode(root).key, MaxNode(root).key)
        IN  /\ \A i \in 0 .. root.size - 1 : RankNode(root, SelectNode(root, i)) = i
            /\ \A i \in DOMAIN all : SelectNode(root, RankNode(root, all[i])) = all[i]

RECURSIVE IsMeasured(_)

(* The size and the height of every node are those of its subtree. *)
IsMeasured(node) ==
    node # Null =>
        /\ node = Measured(node)
        /\ IsMeasured(node.left) /\ IsMeasured(node.right)
=============================================================================
