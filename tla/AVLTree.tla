------------------------------- MODULE AVLTree -------------------------------
(***************************************************************************)
(* searchtree/avltree/avltree.c: the heights of the two subtrees of a node *)
(* differ by at most one, which rotations restore on the way up.           *)
(***************************************************************************)
EXTENDS TreeNodes

CONSTANT Keys           \* the keys of the callers, positive numbers

VARIABLE root           \* avl->root

NewNode(key) == [key |-> key, size |-> 1, height |-> 0, left |-> Null, right |-> Null]

BalanceFactor(node) == node.left.height - node.right.height
-----------------------------------------------------------------------------
(* The lower node takes the size of the higher one, whose own size and height
   are computed first. *)
RotateRight(hnode) ==
    LET lower  == hnode.left
        raised == [lower EXCEPT !.right = Measured([hnode EXCEPT !.left = lower.right]),
                                !.size = hnode.size]
    IN  [raised EXCEPT !.height = 1 + Higher(raised.left.height, raised.right.height)]

RotateLeft(hnode) ==
    LET lower  == hnode.right
        raised == [lower EXCEPT !.left = Measured([hnode EXCEPT !.right = lower.left]),
                                !.size = hnode.size]
    IN  [raised EXCEPT !.height = 1 + Higher(raised.left.height, raised.right.height)]

Balance(node) ==
    CASE BalanceFactor(node) < -1 ->
             RotateLeft(IF BalanceFactor(node.right) > 0
                          THEN [node EXCEPT !.right = RotateRight(node.right)] ELSE node)
      [] BalanceFactor(node) > 1 ->
             RotateRight(IF BalanceFactor(node.left) < 0
                           THEN [node EXCEPT !.left = RotateLeft(node.left)] ELSE node)
      [] OTHER -> node
-----------------------------------------------------------------------------
RECURSIVE PutNode(_, _), DeleteMinNode(_), DeleteMaxNode(_), DeleteNode(_, _)

PutNode(node, key) ==
    CASE node = Null -> NewNode(key)
      [] node # Null /\ key < node.key ->
             Balance(Measured([node EXCEPT !.left = PutNode(node.left, key)]))
      [] node # Null /\ key > node.key ->
             Balance(Measured([node EXCEPT !.right = PutNode(node.right, key)]))
      [] OTHER -> node

(* delete_min_node and delete_min differ in who frees the node. *)
DeleteMinNode(node) ==
    IF node.left = Null
      THEN node.right
      ELSE Balance(Measured([node EXCEPT !.left = DeleteMinNode(node.left)]))

DeleteMaxNode(node) ==
    IF node.right = Null
      THEN node.left
      ELSE Balance(Measured([node EXCEPT !.right = DeleteMaxNode(node.right)]))

(* The smallest node of the right subtree takes the place of the deleted. *)
Replaced(node) ==
    Balance(Measured([MinNode(node.right) EXCEPT !.right = DeleteMinNode(node.right),
                                                 !.left = node.left]))

DeleteNode(node, key) ==
    CASE node = Null -> Null
      [] node # Null /\ key < node.key ->
             Balance(Measured([node EXCEPT !.left = DeleteNode(node.left, key)]))
      [] node # Null /\ key > node.key ->
             Balance(Measured([node EXCEPT !.right = DeleteNode(node.right, key)]))
      [] OTHER -> IF node.left = Null THEN node.right
                  ELSE IF node.right = Null THEN node.left
                  ELSE Replaced(node)
-----------------------------------------------------------------------------
Init == root = Null

Put(key) == root' = PutNode(root, key)

Delete(key) ==
    /\ GetNode(root, key) # None
    /\ root' = DeleteNode(root, key)

DeleteMin ==
    /\ root # Null
    /\ root' = DeleteMinNode(root)

DeleteMax ==
    /\ root # Null
    /\ root' = DeleteMaxNode(root)

(* avlbst_clear frees the nodes; avlbst_init must follow. *)
Clear ==
    /\ root # Null
    /\ root' = Null

Next ==
    \/ \E key \in Keys : Put(key) \/ Delete(key)
    \/ DeleteMin \/ DeleteMax \/ Clear

Spec == Init /\ [][Next]_root
-----------------------------------------------------------------------------
RECURSIVE IsAVL(_)

IsAVL(node) ==
    \/ node = Null
    \/ BalanceFactor(node) \in -1 .. 1 /\ IsAVL(node.left) /\ IsAVL(node.right)

(* avlbst_check reports nothing. *)
Check ==
    /\ IsBST(root, None, None) /\ IsAVL(root)
    /\ IsSizeConsistent(root) /\ IsRankConsistent(root)
=============================================================================
