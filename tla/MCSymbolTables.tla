---------------------------- MODULE MCSymbolTables ----------------------------
(***************************************************************************)
(* The symbol tables for TLC: a behaviour uses linear-probing tables or    *)
(* separate-chaining tables, two of each and of different sizes, one of    *)
(* the search trees or a skip list.  The trees without parent pointers     *)
(* share the variable root.                                                *)
(***************************************************************************)
EXTENDS LinearProbing, Sequences

CONSTANTS ChainKeys,            \* keys of the separate chains
          PlainKeys,            \* keys of the plain binary search tree
          BalancedKeys,         \* keys of the AVL and the red-black tree
          SplayKeys,
          SkipKeys, MaxLevel,
          BTreeKeys, MaxChildren, NodeCap, CallCap, Starts

ASSUME MaxChildrenAssumption == MaxChildren \in Nat /\ MaxChildren > 2 /\ MaxChildren % 2 = 0

VARIABLES kind,                 \* which structure the behaviour uses
          lists, chainPairs, open, chainBuffer, chainGot, chainMisled, slot,
          root,
          smem, ssize, sgot, sastray,
          kforward, klevel, ksize, kgot, kastray,
          bmem, bsize, calls

cvars    == <<lists, chainPairs, open, chainBuffer, chainGot, chainMisled, slot>>
svars    == <<smem, ssize, sgot, sastray>>
kvars    == <<kforward, klevel, ksize, kgot, kastray>>
bvars    == <<bmem, bsize, calls>>
treevars == <<root, svars, kvars, bvars>>
mcvars   == <<kind, vars, cvars, treevars>>

(* A table of one slot and a larger one. *)
ProbingSizes == <<1, 4>>
ChainSizes   == <<1, 2>>

C == INSTANCE SeparateChaining WITH
    Size <- ChainSizes, Keys <- ChainKeys, pairs <- chainPairs,
    buffer <- chainBuffer, got <- chainGot, misled <- chainMisled
P == INSTANCE BinarySearchTree WITH Keys <- PlainKeys
A == INSTANCE AVLTree WITH Keys <- BalancedKeys
R == INSTANCE RedBlackTree WITH Keys <- BalancedKeys
S == INSTANCE SplayTree WITH
    Keys <- SplayKeys, mem <- smem, size <- ssize, got <- sgot, astray <- sastray
K == INSTANCE SkipList WITH
    Keys <- SkipKeys, forward <- kforward, level <- klevel, size <- ksize,
    got <- kgot, astray <- kastray
B == INSTANCE BTree WITH Keys <- BTreeKeys, mem <- bmem, size <- bsize
-----------------------------------------------------------------------------
(* The structures that are not used stay as they begin; the B-tree has several
   ways to begin and then takes the empty one. *)
MCInit ==
    /\ kind \in {"probes", "chains", "plain", "avl", "redblack", "splay", "skip", "btree"}
    /\ Init /\ C!Init /\ P!Init /\ S!Init /\ K!Init /\ B!Init
    /\ kind # "btree" => bsize = 0

MCNext ==
    \/ kind = "probes" /\ Next /\ UNCHANGED <<kind, cvars, treevars>>
    \/ kind = "chains" /\ C!Next /\ UNCHANGED <<kind, vars, treevars>>
    \/ kind = "plain" /\ P!Next /\ UNCHANGED <<kind, vars, cvars, svars, kvars, bvars>>
    \/ kind = "avl" /\ A!Next /\ UNCHANGED <<kind, vars, cvars, svars, kvars, bvars>>
    \/ kind = "redblack" /\ R!Next /\ UNCHANGED <<kind, vars, cvars, svars, kvars, bvars>>
    \/ kind = "splay" /\ S!Next /\ UNCHANGED <<kind, vars, cvars, root, kvars, bvars>>
    \/ kind = "skip" /\ K!Next /\ UNCHANGED <<kind, vars, cvars, root, svars, bvars>>
    \/ kind = "btree" /\ B!Next /\ UNCHANGED <<kind, vars, cvars, root, svars, kvars>>

(* The turns of a probe follow each other. *)
MCSpec == MCInit /\ [][MCNext]_mcvars /\ WF_vars(kind = "probes" /\ Work)
-----------------------------------------------------------------------------
Bare == {"plain", "avl", "redblack"}

(* The keys of the tree the behaviour uses. *)
Held ==
    CASE kind = "splay" -> S!InTree
      [] kind = "skip" -> K!Listed
      [] OTHER -> P!KeysOf(root)

Answer == CASE kind = "splay" -> sgot [] kind = "skip" -> kgot [] OTHER -> P!None

AllKeys == PlainKeys \cup BalancedKeys \cup SplayKeys \cup SkipKeys \cup BTreeKeys

O == INSTANCE OrderedSet WITH Keys <- AllKeys, None <- P!None, keys <- Held, got <- Answer

(* Types and array bounds: no probe leaves its table unless it was misled.  Of
   the linear-probing tables this is the whole inductive invariant. *)
MCTypeOK ==
    /\ kind = "probes" => Inv
    /\ kind = "chains" => C!TypeOK
    /\ kind = "splay" => S!TypeOK
    /\ kind = "skip" => K!TypeOK
    /\ kind = "btree" => B!TypeOK

(* After every sequence of insertions and deletions the keys are in order, every
   node knows the size and the height of its subtree, and the tests of the
   code (bst_check, avlbst_check, rbbst_check) report nothing: the AVL tree is
   balanced, the red links of the red-black tree lean left and its paths have
   as many black nodes.  The pointers of the splay tree, the skip list and the
   B-tree, as long as no freed node or key was read: every key is where a search
   looks for it, links lead to nodes of the structure or are known to be wild,
   the counter is right, and the nodes of the B-tree are linked level by level
   and filled as they should be until one inner node borrows from another. *)
TreesSound ==
    /\ kind \in Bare => O!Lists(P!InOrder(root), Held)
    /\ kind \in Bare => P!IsMeasured(root)
    /\ kind = "plain" => P!Check
    /\ kind = "avl" => A!Check
    /\ kind = "redblack" => R!Check
    /\ kind = "splay" => S!Sound
    /\ kind = "skip" /\ ~kastray => K!Sound
    /\ kind = "btree" => B!Sound

(* Get, rank, select, floor, ceiling and the range query answer for any key,
   also one that is not in the tree, what the set of keys says. *)
QueriesRight ==
    kind \in Bare =>
        /\ \A key \in {0} \cup PlainKeys \cup BalancedKeys :
              /\ P!GetNode(root, key) = (IF key \in Held THEN key ELSE P!None)
              /\ P!RankNode(root, key) = O!Rank(Held, key)
              /\ P!FloorNode(root, key) = O!Floor(Held, key)
              /\ P!CeilingNode(root, key) = O!Ceiling(Held, key)
              /\ \A hikey \in PlainKeys \cup BalancedKeys :
                    O!Lists(P!KeysNode(root, key, hikey), O!AtLeast(O!AtMost(Held, hikey), key))
        /\ \A n \in 0 .. root.size - 1 : O!Rank(Held, P!SelectNode(root, n)) = n

(* The chained tables are dictionaries too, one per table; no chain holds a key
   twice or a key of another slot, and the counter says how many pairs there are. *)
ChainsImplementDictionaries ==
    C!ChainsCounted /\ C!ImplementsDictionaries /\ [][C!ChainsCounted']_cvars

(* Every call puts or deletes exactly the key it should and get returns it, until
   a splay tree, a skip list or a B-tree reads freed memory; a key that
   splayt_put inserts or splayt_get finds is at the root when the call
   returns. *)
ImplementsOrderedSet ==
    /\ kind # "btree" => O!Init
    /\ [][CASE kind \in {"probes", "chains"} -> TRUE
            [] kind = "btree" -> bmem'.wrong \/ B!OneKeyChanges
            [] kind = "splay" -> sastray' \/ (O!Next /\ S!AccessedToRoot)
            [] OTHER -> kastray' \/ O!Next]_treevars
=============================================================================
