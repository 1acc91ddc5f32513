------------------------------- MODULE SkipList -------------------------------
(***************************************************************************)
(* skiplist/skiplist.c: a sorted list with shortcuts.  A node takes part   *)
(* in the lists of the levels 0 to its own, which is drawn at random.  A   *)
(* node is named by its key, which is never twice in the list.  After a    *)
(* deletion the level of the list may fall to 0 while taller nodes are     *)
(* left: the next tall node is then linked in front of all of them, and a  *)
(* later deletion can free a node that a shortcut still leads to.          *)
(***************************************************************************)
EXTENDS Integers, FiniteSets, TLC

CONSTANTS Keys,         \* the keys of the callers, positive numbers
          MaxLevel      \* the maxlvl given to skipl_init

VARIABLES forward,      \* forward[x][i], the pointers of node x
          level,        \* sl->level
          size,         \* sl->size
          got,          \* what skipl_get returned, None after other calls
          astray        \* TRUE once a node was read after it was freed

vars == <<forward, level, size, got, astray>>

Head     == 0           \* sl->head
None     == 0           \* NIL, a null pointer: no pointer leads to the head
Wild     == -1          \* a pointer to a node that was freed
Levels   == 0 .. MaxLevel
Untaken  == [i \in Levels |-> None]

RECURSIVE OnLevel(_, _)

(* The nodes behind x on a level, a freed one as Wild. *)
OnLevel(x, i) ==
    IF forward[x][i] \in {None, Wild} THEN {forward[x][i]} \ {None}
    ELSE {forward[x][i]} \cup OnLevel(forward[x][i], i)

Listed == OnLevel(Head, 0)
-----------------------------------------------------------------------------
RECURSIVE Advance(_, _, _), Descend(_, _, _)

(* The last node on level i, from x on, whose key is smaller; Wild if the
   comparison reads a freed node. *)
Advance(x, i, key) ==
    IF forward[x][i] = Wild THEN Wild
    ELSE IF forward[x][i] # None /\ forward[x][i] < key
      THEN Advance(forward[x][i], i, key) ELSE x

(* Where the search turns down on the levels i, i - 1, ..., 0. *)
Descend(x, i, key) ==
    LET last == IF x = Wild THEN Wild ELSE Advance(x, i, key)
    IN  IF i = 0 THEN 0 :> last ELSE (i :> last) @@ Descend(last, i - 1, key)

Turns(key) == Descend(Head, level, key)

(* The array update: the turns of the search, the head above the level. *)
Update(key) == [i \in Levels |-> IF i <= level THEN Turns(key)[i] ELSE Head]

Strays(key) == Turns(key)[0] = Wild

Found(key) == forward[Turns(key)[0]][0] = key

(* A behaviour ends where the search reads a freed node. *)
Stray ==
    /\ astray' = TRUE
    /\ got' = None
    /\ UNCHANGED <<forward, level, size>>
-----------------------------------------------------------------------------
Init ==
    /\ forward = [x \in Keys \cup {Head} |-> Untaken]
    /\ level = 0
    /\ size = 0
    /\ got = None
    /\ astray = FALSE

Get(key) ==
    /\ ~astray /\ ~Strays(key)
    /\ got' = IF Found(key) THEN key ELSE None
    /\ UNCHANGED <<forward, level, size, astray>>

(* A new node of a random level is linked behind the turns of the search. *)
Put(key) ==
    /\ ~astray /\ ~Strays(key) /\ ~Found(key)
    /\ \E lvl \in Levels :
          /\ level' = (IF lvl > level THEN lvl ELSE level)
          /\ forward' =
                [x \in Keys \cup {Head} |-> [i \in Levels |->
                    IF i > lvl THEN forward[x][i]
                    ELSE IF x = key THEN forward[Update(key)[i]][i]
                    ELSE IF x = Update(key)[i] THEN key
                    ELSE forward[x][i]]]
    /\ size' = size + 1
    /\ got' = None
    /\ UNCHANGED astray

(* The first level, from below, on which the turn does not lead to the key:
   the loop that unlinks the node stops there. *)
Unreached(key) ==
    CHOOSE i \in 0 .. level + 1 :
        /\ i <= level => forward[Update(key)[i]][i] # key
        /\ \A j \in 0 .. i - 1 : forward[Update(key)[j]][j] = key

(* Every pointer to the node that is left is wild; the node is free. *)
Unlinked(key) ==
    LET stop == Unreached(key)
        next(x, i) == IF i < stop /\ x = Update(key)[i] THEN forward[key][i]
                      ELSE forward[x][i]
    IN  [x \in Keys \cup {Head} |->
            IF x = key THEN Untaken
            ELSE [i \in Levels |-> IF next(x, i) = key THEN Wild ELSE next(x, i)]]

(* The loop that lowers the level reads the pointer of the level where the
   other loop stopped, always the same one: the level stays or falls to 0.
   Above MaxLevel it reads behind the array. *)
Delete(key) ==
    /\ ~astray /\ ~Strays(key) /\ Found(key)
    /\ forward' = Unlinked(key)
    /\ LET stop == Unreached(key)
       IN  \/ /\ stop \in Levels /\ forward'[Head][stop] # None
              /\ UNCHANGED level
           \/ /\ stop \in Levels /\ forward'[Head][stop] = None
              /\ level' = 0
           \/ /\ stop \notin Levels
              /\ level' \in {0, level}
    /\ size' = size - 1
    /\ got' = None
    /\ UNCHANGED astray

(* A put of a key that is there, a deletion of one that is not. *)
Ignore(key) ==
    /\ ~astray /\ ~Strays(key)
    /\ got' = None
    /\ UNCHANGED <<forward, level, size, astray>>

LoseWay(key) == ~astray /\ Strays(key) /\ Stray

(* skipl_clear frees the head, too; skipl_init must follow. *)
Clear ==
    /\ ~astray /\ size # 0
    /\ forward' = [x \in Keys \cup {Head} |-> Untaken]
    /\ level' = 0
    /\ size' = 0
    /\ got' = None
    /\ UNCHANGED astray

Stopped == astray /\ UNCHANGED vars

Next ==
    \/ \E key \in Keys : Get(key) \/ Put(key) \/ Delete(key) \/ Ignore(key) \/ LoseWay(key)
    \/ Clear \/ Stopped

Spec == Init /\ [][Next]_vars
-----------------------------------------------------------------------------
TypeOK ==
    /\ forward \in [Keys \cup {Head} -> [Levels -> Keys \cup {None, Wild}]]
    /\ level \in Levels
    /\ size \in 0 .. Cardinality(Keys)
    /\ got \in Keys \cup {None}
    /\ astray \in BOOLEAN

(* The lowest list is ascending, ends in NIL and has size nodes, a shortcut
   leads to one of them or is wild, and a search that reads no freed node finds
   a key exactly if it is in the list: even when the shortcuts of a level are
   out of order. *)
Sound ==
    /\ Wild \notin Listed
    /\ \A x \in Listed : forward[x][0] # None => x < forward[x][0]
    /\ Cardinality(Listed) = size
    /\ \A x \in Listed \cup {Head}, i \in Levels : forward[x][i] \in Listed \cup {None, Wild}
    /\ \A key \in Keys : ~Strays(key) => (Found(key) <=> key \in Listed)

(* All levels are terminated with NIL. *)
LevelsEndInNil == \A x \in Listed \cup {Head}, i \in Levels : forward[x][i] # Wild
=============================================================================
