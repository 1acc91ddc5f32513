-------------------------------- MODULE BTree --------------------------------
(***************************************************************************)
(* searchtree/balancedtree/btree.c: a B-tree whose leaves hold the keys    *)
(* and form a list, and whose inner nodes hold for each child a pointer to *)
(* a key, the smallest below it when the pointer was stored.  The memory   *)
(* of a key is shared by the leaf and the inner nodes and freed by the     *)
(* deletion, by rules that guess who else has it.  A key in memory is the  *)
(* key and a number that tells two copies of it apart.  The values are     *)
(* left out, and a node that is merged but not freed (the #if in           *)
(* merge_right_internal is misspelled) is taken as freed: nothing points   *)
(* to it.                                                                  *)
(***************************************************************************)
EXTENDS Integers, FiniteSets, SequencesExt

CONSTANTS MaxChildren,  \* MAX_CHILDREN, even and greater than 2
          Keys,         \* the keys of the callers, positive numbers
          NodeCap,      \* bound: how many nodes may exist
          CallCap,      \* bound: how many calls follow these
          Starts        \* how many keys, put in ascending order, a caller
                        \* begins with

VARIABLES mem,          \* the nodes, bt->root and bt->height
          size,         \* bt->size
          calls         \* how many calls followed the initial tree

vars == <<mem, size, calls>>

Null    == 0            \* a null pointer
Nodes   == 1 .. NodeCap
MinSize == MaxChildren \div 2
Copies  == [key : Keys, copy : 0 .. 2]
Unused  == [entries |-> <<>>, prev |-> Null, sibling |-> Null, parent |-> Null]

(* mem.used are the nodes that are allocated, mem.dead the copies that were
   freed; wrong says that freed memory was read or freed again, lent that an
   inner node took a child of its neighbour.  A behaviour ends with either:
   what an inner node borrows leaves parents and keys that are not right. *)
Empty == [node |-> [x \in Nodes |-> Unused], used |-> {1}, dead |-> {},
          root |-> 1, height |-> 0, wrong |-> FALSE, lent |-> FALSE]

Sz(m, x)       == Len(m.node[x].entries)
Child(m, x, i) == m.node[x].entries[i].next
Key(m, x, i)   == m.node[x].entries[i].key.key
Dead(m, x, i)  == m.node[x].entries[i].key \in m.dead
FirstKey(m, x) == m.node[x].entries[1].key
IsLeaf(m, x)   == \A i \in 1 .. Sz(m, x) : Child(m, x, i) = Null

FreshNode(m) == CHOOSE x \in Nodes \ m.used : \A y \in Nodes \ m.used : x <= y

(* The copies that some node points to. *)
Pointed(m) == UNION {{m.node[x].entries[i].key : i \in 1 .. Sz(m, x)} : x \in m.used}

FreshCopy(m, key) ==
    CHOOSE k \in Copies \ Pointed(m) :
        k.key = key /\ \A c \in Copies \ Pointed(m) : c.key = key => k.copy <= c.copy

Lost(m)        == [m EXCEPT !.wrong = TRUE]
FreeNode(m, x) == [m EXCEPT !.used = @ \ {x}, !.node[x] = Unused]
FreeKey(m, k)  == IF k \in m.dead THEN Lost(m) ELSE [m EXCEPT !.dead = @ \cup {k}]

(* x becomes the parent of the children in a sequence of entries. *)
Adopted(m, x, entries) ==
    LET children == {entries[i].next : i \in DOMAIN entries} \ {Null}
    IN  [m EXCEPT !.node = [y \in Nodes |->
            IF y \in children THEN [m.node[y] EXCEPT !.parent = x] ELSE m.node[y]]]
-----------------------------------------------------------------------------
(* The child in which a search for the key goes on: the last one whose
   neighbour on the right is not too large. *)
Turn(m, x, key) ==
    CHOOSE i \in 1 .. Sz(m, x) :
        /\ i = Sz(m, x) \/ key < Key(m, x, i + 1)
        /\ \A j \in 2 .. i : Key(m, x, j) <= key

(* Whether finding the turn reads a key that was freed. *)
TurnLost(m, x, key) ==
    \E j \in 2 .. Sz(m, x) : Dead(m, x, j) /\ \A i \in 2 .. j - 1 : key >= Key(m, x, i)

RECURSIVE LeafOf(_, _, _), WayLost(_, _, _)

(* The leaf in which a search for the key ends. *)
LeafOf(m, x, key) ==
    IF IsLeaf(m, x) THEN x ELSE LeafOf(m, Child(m, x, Turn(m, x, key)), key)

WayLost(m, x, key) ==
    IF IsLeaf(m, x) THEN FALSE
    ELSE IF TurnLost(m, x, key) THEN TRUE
    ELSE WayLost(m, Child(m, x, Turn(m, x, key)), key)

KeysIn(m, x) == {Key(m, x, i) : i \in 1 .. Sz(m, x)}

Has(key) == key \in KeysIn(mem, LeafOf(mem, mem.root, key))
-----------------------------------------------------------------------------
(* The upper half of a full node moves to a new one, its next sibling. *)
Split(m, x) ==
    LET new   == FreshNode(m)
        old   == m.node[x]
        upper == SubSeq(old.entries, MinSize + 1, MaxChildren)
        split == [m EXCEPT !.used = @ \cup {new},
                           !.node[x].entries = SubSeq(old.entries, 1, MinSize),
                           !.node[x].sibling = new,
                           !.node[new] = [entries |-> upper, prev |-> x,
                                          sibling |-> old.sibling, parent |-> old.parent]]
        moved == Adopted(split, new, upper)
    IN  [mem |-> IF old.sibling = Null THEN moved
                 ELSE [moved EXCEPT !.node[old.sibling].prev = new],
         new |-> new]

(* A node with one more entry is split if it is full. *)
Grown(m, x, i, entry) ==
    LET more == [m EXCEPT !.node[x].entries = InsertAt(@, i, entry)]
    IN  IF Sz(more, x) < MaxChildren THEN [mem |-> more, new |-> Null] ELSE Split(more, x)

RECURSIVE Insert(_, _, _)

(* The memory after the insertion below x and the node split off x, if any. *)
Insert(m, x, key) ==
    LET place == 1 + Cardinality({i \in 1 .. Sz(m, x) : Key(m, x, i) <= key})
        turn  == Turn(m, x, key)
        sub   == Insert(m, Child(m, x, turn), key)
    IN  IF IsLeaf(m, x)
          THEN IF key \in KeysIn(m, x) THEN [mem |-> m, new |-> Null]
               ELSE Grown(m, x, place, [key |-> FreshCopy(m, key), next |-> Null])
        ELSE IF sub.new = Null THEN sub
        ELSE Grown([sub.mem EXCEPT !.node[sub.new].parent = x], x, turn + 1,
                   [key |-> FirstKey(sub.mem, sub.new), next |-> sub.new])

(* The root was split: a new root takes both halves. *)
NewRoot(m, new) ==
    LET top == FreshNode(m)
    IN  [m EXCEPT !.used = @ \cup {top}, !.root = top, !.height = @ + 1,
                  !.node[m.root].parent = top, !.node[new].parent = top,
                  !.node[top] = [Unused EXCEPT !.entries =
                      << [key |-> FirstKey(m, m.root), next |-> m.root],
                         [key |-> FirstKey(m, new), next |-> new] >>]]

Inserted(m, key) ==
    LET done == Insert(m, m.root, key)
    IN  IF done.new = Null THEN done.mem ELSE NewRoot(done.mem, done.new)
-----------------------------------------------------------------------------
(* The key leaves its leaf.  Its memory is freed unless it was the first one of
   a leaf below an inner node, which is taken to point to it. *)
RemoveLeafEntry(m, x, key) ==
    LET i     == CHOOSE i \in 1 .. Sz(m, x) : Key(m, x, i) = key
        freed == IF m.node[x].parent = Null \/ i # 1
                   THEN FreeKey(m, m.node[x].entries[i].key) ELSE m
    IN  [freed EXCEPT !.node[x].entries = RemoveAt(@, i)]

RECURSIVE Leftmost(_, _)

Leftmost(m, x) ==
    IF Sz(m, x) = 0 \/ IsLeaf(m, x) THEN x ELSE Leftmost(m, Child(m, x, 1))

(* An inner node that points to the deleted key takes the first key of the
   leftmost leaf instead.  The pointer is freed unless a node above is taken
   to have it, too. *)
RemoveInternalKey(m, x, key) ==
    LET same  == {i \in 1 .. Sz(m, x) : Key(m, x, i) = key}
        i     == CHOOSE j \in same : \A k \in same : j <= k
        read  == {j \in 1 .. Sz(m, x) : \A k \in same : j <= k}
        leaf  == Leftmost(m, Child(m, x, i))
        freed == IF i # 1 \/ m.node[x].parent = Null
                   THEN FreeKey(m, m.node[x].entries[i].key) ELSE m
    IN  IF \E j \in read : Dead(m, x, j) THEN Lost(m)
        ELSE IF same = {} THEN m
        ELSE IF Sz(m, leaf) = 0 THEN m
        ELSE [freed EXCEPT !.node[x].entries[i].key = FirstKey(m, leaf)]

(* move_right_entries: x takes the last entry of its left neighbour.  The child
   whose parent is set is the first one of the neighbour, not the one that
   moved. *)
MoveRight(m, x) ==
    LET left  == m.node[x].prev
        entry == m.node[left].entries[Sz(m, left)]
        first == Child(m, left, 1)
        moved == [m EXCEPT !.node[x].entries = <<entry>> \o @,
                           !.node[left].entries = Front(@)]
    IN  IF entry.next = Null THEN moved ELSE [moved EXCEPT !.node[first].parent = x]

(* move_left_entries: x takes the first entry of its right neighbour. *)
MoveLeft(m, x) ==
    LET right == m.node[x].sibling
        entry == m.node[right].entries[1]
    IN  Adopted([m EXCEPT !.node[x].entries = Append(@, entry),
                          !.node[right].entries = Tail(@)], x, <<entry>>)

(* The position of x among the children of p, 0 if it is none of them. *)
Pos(m, p, x) == SelectInSeq(m.node[p].entries, LAMBDA entry : entry.next = x)

(* The entry at i of node p points to the first key of x. *)
Keyed(m, p, i, x) ==
    IF i = 0 THEN m ELSE [m EXCEPT !.node[p].entries[i].key = FirstKey(m, x)]

BorrowLeftLeaf(m, x) ==
    LET moved == MoveRight(m, x)
    IN  Keyed(moved, m.node[x].parent, Pos(m, m.node[x].parent, x), x)

BorrowRightLeaf(m, x) ==
    LET moved == MoveLeft(m, x)
        right == m.node[x].sibling
    IN  Keyed(moved, m.node[x].parent, Pos(m, m.node[x].parent, right), right)

BorrowLeftKey(m, x, pos) ==
    LET moved == MoveRight(m, x)
    IN  [Keyed(moved, m.node[x].parent, pos, x) EXCEPT !.lent = TRUE]

(* The entry that is given the key is that of x, not that of its neighbour. *)
BorrowRightKey(m, x, pos) ==
    LET moved == MoveLeft(m, x)
    IN  [Keyed(moved, m.node[x].parent, pos, m.node[x].sibling) EXCEPT !.lent = TRUE]

(* Mutant: the node after the merged ones still leads back to the freed one. *)
MergedUntied(m, x, right) ==
    LET p     == m.node[right].parent
        taken == Adopted([m EXCEPT !.node[x].entries = @ \o m.node[right].entries,
                                   !.node[x].sibling = m.node[right].sibling],
                         x, m.node[right].entries)
    IN  FreeNode([taken EXCEPT !.node[p].entries = RemoveAt(@, Pos(m, p, right))], right)

(* The entries of right go to its left neighbour x; the node and the entry that
   led to it are freed. *)
Merged(m, x, right) ==
    LET after == m.node[right].sibling
        p     == m.node[right].parent
        taken == Adopted([m EXCEPT !.node[x].entries = @ \o m.node[right].entries,
                                   !.node[x].sibling = after],
                         x, m.node[right].entries)
        tied  == IF after = Null THEN taken ELSE [taken EXCEPT !.node[after].prev = x]
    IN  FreeNode([tied EXCEPT !.node[p].entries = RemoveAt(@, Pos(m, p, right))], right)

(* A neighbour with the same parent, and whether it can spare an entry. *)
Beside(m, x, y) == y # Null /\ m.node[y].parent = m.node[x].parent
Spares(m, y)    == Sz(m, y) > MinSize

(* A leaf that became too small borrows, or is merged; the memory and the leaf
   from which to go on upwards. *)
LeafRepaired(m, x) ==
    LET left  == m.node[x].prev
        right == m.node[x].sibling
    IN  IF Beside(m, x, left) /\ Spares(m, left) THEN [mem |-> BorrowLeftLeaf(m, x), at |-> x]
        ELSE IF Beside(m, x, right) /\ Spares(m, right)
          THEN [mem |-> BorrowRightLeaf(m, x), at |-> x]
        ELSE IF Beside(m, x, left) THEN [mem |-> Merged(m, left, x), at |-> left]
        ELSE IF Beside(m, x, right) THEN [mem |-> Merged(m, x, right), at |-> x]
        ELSE [mem |-> m, at |-> x]

(* An inner node likewise, with the neighbours that its parent has. *)
InnerRepaired(m, x) ==
    LET p     == m.node[x].parent
        pos   == Pos(m, p, x)
        left  == IF pos > 1 THEN Child(m, p, pos - 1) ELSE Null
        right == IF pos < Sz(m, p) THEN Child(m, p, pos + 1) ELSE Null
    IN  IF Beside(m, x, left) /\ Spares(m, left)
          THEN [mem |-> BorrowLeftKey(m, x, pos), at |-> x]
        ELSE IF Beside(m, x, right) /\ Spares(m, right)
          THEN [mem |-> BorrowRightKey(m, x, pos), at |-> x]
        ELSE IF Beside(m, x, left) THEN [mem |-> Merged(m, left, x), at |-> left]
        ELSE IF Beside(m, x, right) THEN [mem |-> Merged(m, x, right), at |-> x]
        ELSE [mem |-> m, at |-> x]

(* A root with one child hands over to it. *)
Lowered(m) ==
    LET only == Child(m, m.root, 1)
    IN  IF Sz(m, m.root) # 1 THEN m
        ELSE FreeNode([m EXCEPT !.node[only].parent = Null, !.root = only, !.height = @ - 1],
                      m.root)

RECURSIVE RemoveUpwards(_, _, _)

(* remove_entry of an inner node, then of the node above it, up to where the
   behaviour ends. *)
RemoveUpwards(m, x, key) ==
    LET less == RemoveInternalKey(m, x, key)
        done == IF Sz(less, x) < MinSize THEN InnerRepaired(less, x)
                ELSE [mem |-> less, at |-> x]
    IN  IF x = Null \/ m.wrong \/ m.lent THEN m
        ELSE IF less.wrong THEN less
        ELSE IF x = m.root THEN IF Sz(less, x) < MinSize THEN Lowered(less) ELSE less
        ELSE RemoveUpwards(done.mem, done.mem.node[done.at].parent, key)

(* remove_entry of a leaf, then of the nodes above it.  The warnings about a
   node with too many children are left out: there is none. *)
Removed(m, x, key) ==
    LET less == RemoveLeafEntry(m, x, key)
        done == IF Sz(less, x) < MinSize THEN LeafRepaired(less, x)
                ELSE [mem |-> less, at |-> x]
    IN  RemoveUpwards(done.mem, done.mem.node[done.at].parent, key)
-----------------------------------------------------------------------------
(* Freed copies that nothing points to are forgotten. *)
Tidy(m) == [m EXCEPT !.dead = @ \cap Pointed(m)]

RECURSIVE Built(_, _, _)

Built(m, first, last) ==
    IF first > last THEN m ELSE Built(Inserted(m, first), first + 1, last)

(* btree_init, and the calls of btree_put that a caller began with. *)
Init ==
    /\ \E n \in Starts : mem = Built(Empty, 1, n) /\ size = n
    /\ calls = 0

Usable == ~mem.wrong /\ ~mem.lent /\ calls < CallCap

(* The tree after a call.  A behaviour ends after freed memory was read. *)
Left(m) ==
    /\ mem' = IF m.wrong THEN [Empty EXCEPT !.wrong = TRUE] ELSE Tidy(m)
    /\ calls' = calls + 1

(* A key that is in the tree has its value overwritten: size is raised, and
   lowered before. *)
Put(key) ==
    /\ Usable
    /\ IF WayLost(mem, mem.root, key)
         THEN Left(Lost(mem)) /\ UNCHANGED size
         ELSE /\ Left(Inserted(mem, key))
              /\ size' = IF Has(key) THEN size ELSE size + 1

Delete(key) ==
    /\ Usable
    /\ IF WayLost(mem, mem.root, key)
         THEN Left(Lost(mem)) /\ UNCHANGED size
         ELSE /\ Has(key)
              /\ Left(Removed(mem, LeafOf(mem, mem.root, key), key))
              /\ size' = size - 1

(* btree_clear leaves nothing to work with; btree_init must follow. *)
Clear ==
    /\ Usable /\ size # 0
    /\ Left(Empty)
    /\ size' = 0

Stopped == ~Usable /\ UNCHANGED vars

Next == (\E key \in Keys : Put(key) \/ Delete(key)) \/ Clear \/ Stopped

Spec == Init /\ [][Next]_vars
-----------------------------------------------------------------------------
RECURSIVE LeafKeys(_, _)

(* btree_range_query: the keys of the leaves in the order of their list. *)
LeafKeys(m, x) ==
    IF x = Null THEN <<>>
    ELSE [i \in 1 .. Sz(m, x) |-> Key(m, x, i)] \o LeafKeys(m, m.node[x].sibling)

InTree == ToSet(LeafKeys(mem, Leftmost(mem, mem.root)))

(* A step of an ordered set: one key comes, goes or stays, or all go. *)
OneKeyChanges ==
    \E before \in {InTree}, after \in {InTree'} :
        \/ after = {}
        \/ \E key \in Keys : after \in {before, before \cup {key}, before \ {key}}

RECURSIVE LevelBelow(_, _)

(* The nodes so many levels below the root, from left to right. *)
LevelBelow(m, depth) ==
    LET above      == LevelBelow(m, depth - 1)
        children(x) == [j \in 1 .. Sz(m, x) |-> Child(m, x, j)]
    IN  IF depth = 0 THEN <<m.root>>
        ELSE FlattenSeq([i \in DOMAIN above |-> children(above[i])])

TypeOK ==
    /\ \A x \in Nodes :
          /\ \A i \in 1 .. Sz(mem, x) : mem.node[x].entries[i] \in [key : Copies, next : Nodes \cup {Null}]
          /\ {mem.node[x].prev, mem.node[x].sibling, mem.node[x].parent} \subseteq Nodes \cup {Null}
    /\ size \in 0 .. Cardinality(Keys)
    /\ calls \in 0 .. CallCap

(* The shape that search and rebalancing rely on, until an inner node borrows
   from another: on each level the nodes are linked in order, every child knows
   its parent, all leaves are on the level of the height, nodes other than the
   root are at least half full and none is full. *)
Balanced ==
    \A depth \in 0 .. mem.height :
        LET level == LevelBelow(mem, depth)
        IN  \A i \in DOMAIN level :
              /\ mem.node[level[i]].prev = (IF i = 1 THEN Null ELSE level[i - 1])
              /\ mem.node[level[i]].sibling = (IF i = Len(level) THEN Null ELSE level[i + 1])
              /\ \A j \in 1 .. Sz(mem, level[i]) :
                    depth < mem.height =>
                        mem.node[Child(mem, level[i], j)].parent = level[i]
              /\ depth = mem.height => IsLeaf(mem, level[i])
              /\ Sz(mem, level[i]) < MaxChildren
              /\ depth > 0 => Sz(mem, level[i]) >= MinSize

(* Every key of the leaves is where a search ends, in ascending order, and size
   counts them. *)
KeysFound ==
    LET keys == LeafKeys(mem, Leftmost(mem, mem.root))
    IN  /\ \A i \in 2 .. Len(keys) : keys[i - 1] < keys[i]
        /\ \A key \in ToSet(keys) : ~WayLost(mem, mem.root, key) => Has(key)
        /\ ~mem.wrong => Len(keys) = size

Sound == ~mem.lent => Balanced /\ KeysFound
=============================================================================
