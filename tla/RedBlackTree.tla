----------------------------- MODULE RedBlackTree -----------------------------
(***************************************************************************)
(* searchtree/redblackbst/redblackbst.c, a left-leaning red-black tree:    *)
(* red links lean left, no two in a row, every path has as many black      *)
(* ones.  A deletion carries a red link down so that it ends in a red      *)
(* node, and restores the rest on the way up.                              *)
(***************************************************************************)
EXTENDS TreeNodes

CONSTANT Keys           \* the keys of the callers, positive numbers

VARIABLE root           \* bst->root

NewNode(key) ==
    [key |-> key, size |-> 1, height |-> 0, color |-> "red", left |-> Null, right |-> Null]

Red(node) == node # Null /\ node.color = "red"
-----------------------------------------------------------------------------
(* The node with its color turned over, if there is a node. *)
Turned(node) ==
    IF node = Null THEN Null
    ELSE [node EXCEPT !.color = IF Red(node) THEN "black" ELSE "red"]

FlipColors(node) ==
    [Turned(node) EXCEPT !.left = Turned(node.left), !.right = Turned(node.right)]

Blackened(node) == IF node = Null THEN Null ELSE [node EXCEPT !.color = "black"]

(* The lower node takes the color and the size of the higher one, which
   becomes red. *)
RotateRight(hnode) ==
    LET lower  == hnode.left
        sunk   == Measured([hnode EXCEPT !.left = lower.right, !.color = "red"])
        raised == [lower EXCEPT !.right = sunk, !.color = hnode.color, !.size = hnode.size]
    IN  [raised EXCEPT !.height = 1 + Higher(raised.left.height, raised.right.height)]

RotateLeft(hnode) ==
    LET lower  == hnode.right
        sunk   == Measured([hnode EXCEPT !.right = lower.left, !.color = "red"])
        raised == [lower EXCEPT !.left = sunk, !.color = hnode.color, !.size = hnode.size]
    IN  [raised EXCEPT !.height = 1 + Higher(raised.left.height, raised.right.height)]

(* Three repairs, each of what the one before left. *)
Balance(hnode) ==
    LET leaning == IF Red(hnode.right) /\ ~Red(hnode.left)
                     THEN RotateLeft(hnode) ELSE hnode
        single  == IF Red(leaning.left) /\ Red(leaning.left.left)
                     THEN RotateRight(leaning) ELSE leaning
        split   == IF Red(single.left) /\ Red(single.right)
                     THEN FlipColors(single) ELSE single
    IN  Measured(split)
-----------------------------------------------------------------------------
(* Makes hnode.left or one of its children red. *)
MoveRedLeft(hnode) ==
    LET flipped  == FlipColors(hnode)
        borrowed == RotateLeft([flipped EXCEPT !.right = RotateRight(flipped.right)])
    IN  IF flipped.right # Null /\ Red(flipped.right.left)
          THEN FlipColors(borrowed) ELSE flipped

(* Makes hnode.right or one of its children red. *)
MoveRedRight(hnode) ==
    LET flipped == FlipColors(hnode)
    IN  IF Red(flipped.left) /\ Red(flipped.left.left)
          THEN FlipColors(RotateRight(flipped)) ELSE flipped

(* The link to the left, or to the right, carries red before it is followed. *)
ReadyLeft(node) ==
    IF ~Red(node.left) /\ ~Red(node.left.left) THEN MoveRedLeft(node) ELSE node

ReadyRight(node) ==
    IF ~Red(node.right) /\ ~Red(node.right.left) THEN MoveRedRight(node) ELSE node

(* Mutant: a red left child stays where it is. *)
LeanLeft(node) == node

LeanRight(node) == IF Red(node.left) THEN RotateRight(node) ELSE node
-----------------------------------------------------------------------------
RECURSIVE PutNode(_, _), DeleteMinNode(_), DeleteMaxNode(_), DeleteNode(_, _)

PutNode(node, key) ==
    CASE node = Null -> NewNode(key)
      [] node # Null /\ key < node.key ->
             Balance([node EXCEPT !.left = PutNode(node.left, key)])
      [] node # Null /\ key > node.key ->
             Balance([node EXCEPT !.right = PutNode(node.right, key)])
      [] OTHER -> node

DeleteMinNode(node) ==
    LET ready == ReadyLeft(node)
    IN  IF node.left = Null THEN Null
        ELSE Balance([ready EXCEPT !.left = DeleteMinNode(ready.left)])

DeleteMaxNode(node) ==
    LET leaning == LeanRight(node)
        ready   == ReadyRight(leaning)
    IN  IF leaning.right = Null THEN Null
        ELSE Balance([ready EXCEPT !.right = DeleteMaxNode(ready.right)])

(* Going right, a node without a right subtree is removed; another one that has
   the key takes the smallest key of its right subtree. *)
DeleteRight(leaning, key) ==
    LET ready == ReadyRight(leaning)
    IN  IF key = leaning.key /\ leaning.right = Null THEN Null
        ELSE IF key = ready.key
          THEN Balance([ready EXCEPT !.key = MinNode(ready.right).key,
                                     !.right = DeleteMinNode(ready.right)])
          ELSE Balance([ready EXCEPT !.right = DeleteNode(ready.right, key)])

DeleteNode(node, key) ==
    LET ready == ReadyLeft(node)
    IN  IF node = Null THEN Null
        ELSE IF key < node.key
          THEN Balance([ready EXCEPT !.left = DeleteNode(ready.left, key)])
          ELSE DeleteRight(LeanRight(node), key)
-----------------------------------------------------------------------------
(* Before a deletion the root of a tree becomes red if no child of it is. *)
Reddened ==
    IF ~Red(root.left) /\ ~Red(root.right) THEN [root EXCEPT !.color = "red"] ELSE root

Init == root = Null

Put(key) == root' = Blackened(PutNode(root, key))

Delete(key) ==
    /\ GetNode(root, key) # None
    /\ root' = Blackened(DeleteNode(Reddened, key))

DeleteMin ==
    /\ root # Null
    /\ root' = Blackened(DeleteMinNode(Reddened))

DeleteMax ==
    /\ root # Null
    /\ root' = Blackened(DeleteMaxNode(Reddened))

(* rbbst_clear frees the nodes; rbbst_init must follow. *)
Clear ==
    /\ root # Null
    /\ root' = Null

Next ==
    \/ \E key \in Keys : Put(key) \/ Delete(key)
    \/ DeleteMin \/ DeleteMax \/ Clear

Spec == Init /\ [][Next]_root
-----------------------------------------------------------------------------
RECURSIVE Is23(_), BlackHeights(_)

(* No red link to the right and no two red links in a row; the code asks the
   second of no link of the root. *)
Is23(node) ==
    \/ node = Null
    \/ /\ ~Red(node.right)
       /\ node # root => ~(Red(node) /\ Red(node.left))
       /\ Is23(node.left) /\ Is23(node.right)

(* How many black nodes the paths from the node to a null pointer have. *)
BlackHeights(node) ==
    IF node = Null THEN {0}
    ELSE {n + (IF Red(node) THEN 0 ELSE 1) :
             n \in BlackHeights(node.left) \cup BlackHeights(node.right)}

(* rbbst_check reports nothing. *)
Check ==
    /\ IsBST(root, None, None) /\ Is23(root) /\ Cardinality(BlackHeights(root)) = 1
    /\ IsSizeConsistent(root) /\ IsRankConsistent(root)
=============================================================================
