--------------------------- MODULE BinarySearchTree ---------------------------
(***************************************************************************)
(* searchtree/bsearchtree/bsearchtree.c, a binary search tree whose nodes  *)
(* know the size and the height of their subtree.                          *)
(***************************************************************************)
EXTENDS TreeNodes

CONSTANT Keys           \* the keys of the callers, positive numbers

VARIABLE root           \* bst->root

NewNode(key) == [key |-> key, size |-> 1, height |-> 0, left |-> Null, right |-> Null]
-----------------------------------------------------------------------------
RECURSIVE PutNode(_, _), DeleteMinNode(_), DeleteMaxNode(_), DeleteNode(_, _)

PutNode(node, key) ==
    CASE node = Null -> NewNode(key)
      [] node # Null /\ key < node.key ->
             Measured([node EXCEPT !.left = PutNode(node.left, key)])
      [] node # Null /\ key > node.key ->
             Measured([node EXCEPT !.right = PutNode(node.right, key)])
      [] OTHER -> node

(* delete_min and delete_min2 differ in who frees the node. *)
DeleteMinNode(node) ==
    IF node.left = Null
      THEN node.right
      ELSE Measured([node EXCEPT !.left = DeleteMinNode(node.left)])

DeleteMaxNode(node) ==
    IF node.right = Null
      THEN node.left
      ELSE Measured([node EXCEPT !.right = DeleteMaxNode(node.right)])

(* Mutant: the size and the height of the moved node are those it had. *)
ReplacedUnmeasured(node) ==
    [MinNode(node.right) EXCEPT !.right = DeleteMinNode(node.right),
                                !.left = node.left]

(* The smallest node of the right subtree takes the place of the deleted. *)
Replaced(node) ==
    Measured([MinNode(node.right) EXCEPT !.right = DeleteMinNode(node.right),
                                         !.left = node.left])

DeleteNode(node, key) ==
    CASE node = Null -> Null
      [] node # Null /\ key < node.key ->
             Measured([node EXCEPT !.left = DeleteNode(node.left, key)])
      [] node # Null /\ key > node.key ->
             Measured([node EXCEPT !.right = DeleteNode(node.right, key)])
      [] OTHER -> IF node.left = Null THEN node.right
                  ELSE IF node.right = Null THEN node.left
                  ELSE Replaced(node)
-----------------------------------------------------------------------------
Init == root = Null

Put(key) == root' = PutNode(root, key)

Delete(key) ==
    /\ root # Null
    /\ root' = DeleteNode(root, key)

DeleteMin ==
    /\ root # Null
    /\ root' = DeleteMinNode(root)

DeleteMax ==
    /\ root # Null
    /\ root' = DeleteMaxNode(root)

(* bst_clear frees the nodes and leaves root as it is; bst_init must follow. *)
Clear ==
    /\ root # Null
    /\ root' = Null

Next ==
    \/ \E key \in Keys : Put(key) \/ Delete(key)
    \/ DeleteMin \/ DeleteMax \/ Clear

Spec == Init /\ [][Next]_root
-----------------------------------------------------------------------------
(* bst_check reports nothing.  (Of an empty tree it follows a null pointer:
   is_rank_consistent asks for the smallest key.) *)
Check == IsBST(root, None, None) /\ IsSizeConsistent(root) /\ IsRankConsistent(root)
=============================================================================
