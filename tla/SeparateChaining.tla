--------------------------- MODULE SeparateChaining ---------------------------
(***************************************************************************)
(* hashtable/separatechainhash.c: hash tables whose slots are sequential   *)
(* lists.  Like the linear-probing tables they share one static            *)
(* hash_buffer, which remembers the last key hashed by any table.          *)
(* A call is one step: it has no loop but the walk along one list.         *)
(***************************************************************************)
EXTENDS StringHash, Sequences, FiniteSets

VARIABLES lists,        \* lists[t][s] is the list of slot s
          pairs,        \* pairs[t] is the pairs counter
          open,         \* the tables between schash_init and schash_clear
          got,          \* what the last call returned
          slot          \* history: the slot the misled call was sent to

vars == <<lists, pairs, open, buffer, got, misled, slot>>

Items    == [key : Keys, value : Vals]
NoItem   == [key |-> 0, value |-> -1]
NoValue  == -1
-----------------------------------------------------------------------------
(* sequentialsearch/seqlist.c: a linked list of key-value pairs, newest first,
   as the sequence of its pairs. *)

(* seqlist_put: the pair goes first; the key is not looked up. *)
SLPut(list, item) == <<item>> \o list

(* seqlist_get: the first pair with the key, or none. *)
SLGet(list, key, none) ==
    LET found == {n \in 1 .. Len(list) : list[n].key = key}
    IN  IF found = {} THEN none ELSE list[CHOOSE n \in found : \A m \in found : n <= m]

(* seqlist_delete: the first node alone if it has the key.  Otherwise the
   loop unlinks the successor of pnode if that has the key and then moves
   pnode on, so that the node behind an unlinked one is not looked at. *)
SLDelete(list, key) ==
    LET behind[n \in 1 .. Len(list) + 2] ==    \* what is left from node n on
            CASE n > Len(list) -> <<>>
              [] n <= Len(list) /\ list[n].key = key ->
                    (IF n < Len(list) THEN <<list[n + 1]>> ELSE <<>>) \o behind[n + 2]
              [] OTHER -> <<list[n]>> \o behind[n + 1]
    IN  CASE list = <<>> -> <<>>
          [] list # <<>> /\ list[1].key = key -> Tail(list)
          [] OTHER -> <<list[1]>> \o behind[2]

(* seqlist_change: every pair with the key. *)
SLChange(list, key, value) ==
    [n \in 1 .. Len(list) |->
        IF list[n].key = key THEN [list[n] EXCEPT !.value = value] ELSE list[n]]
-----------------------------------------------------------------------------
(* schash_init of every table. *)
Init ==
    /\ lists = [u \in Tables |-> [s \in Slots(u) |-> <<>>]]
    /\ pairs = [u \in Tables |-> 0]
    /\ open = Tables
    /\ HashInit
    /\ got = NoValue
    /\ slot = [table |-> CHOOSE u \in Tables : TRUE, index |-> 0]

(* A call on table u hashes the key.  A misled call is followed only as far
   as this: its slot may lie outside the table. *)
Call(u, key) ==
    /\ u \in open
    /\ ~misled
    /\ Hashed(key, Size[u])
    /\ slot' = IF misled' THEN [table |-> u, index |-> HashCode(key, Size[u])] ELSE slot
    /\ UNCHANGED open

List(u, key) == lists[u][HashCode(key, Size[u])]

Misled(u, key) ==
    /\ Call(u, key)
    /\ misled'
    /\ UNCHANGED <<lists, pairs, got>>

Get(u, key) ==
    /\ Call(u, key)
    /\ ~misled'
    /\ got' = SLGet(List(u, key), key, NoItem).value
    /\ UNCHANGED <<lists, pairs>>

(* Mutant: the pair is put whether or not the list has the key. *)
PutAlways(u, item) ==
    /\ Call(u, item.key)
    /\ ~misled'
    /\ lists' = [lists EXCEPT ![u][HashCode(item.key, Size[u])] = SLPut(@, item)]
    /\ pairs' = [pairs EXCEPT ![u] = @ + 1]
    /\ got' = NoValue

Put(u, item) ==
    LET list == List(u, item.key)
        absent == SLGet(list, item.key, NoItem) = NoItem
    IN  /\ Call(u, item.key)
        /\ ~misled'
        /\ lists' = [lists EXCEPT ![u][HashCode(item.key, Size[u])] =
                        IF absent THEN SLPut(@, item)
                                  ELSE SLChange(@, item.key, item.value)]
        /\ pairs' = IF absent THEN [pairs EXCEPT ![u] = @ + 1] ELSE pairs
        /\ got' = NoValue

Delete(u, key) ==
    /\ Call(u, key)
    /\ ~misled'
    /\ pairs' = IF SLGet(List(u, key), key, NoItem) # NoItem
                  THEN [pairs EXCEPT ![u] = @ - 1] ELSE pairs
    /\ lists' = [lists EXCEPT ![u][HashCode(key, Size[u])] = SLDelete(@, key)]
    /\ got' = NoValue

(* schash_clear: the counter goes down by one for each list with pairs, the
   lists are freed and the size is 0 until schash_init. *)
Clear(u) ==
    /\ u \in open
    /\ open' = open \ {u}
    /\ pairs' = [pairs EXCEPT ![u] = @ - Cardinality({s \in Slots(u) : lists[u][s] # <<>>})]
    /\ lists' = [lists EXCEPT ![u] = [s \in Slots(u) |-> <<>>]]
    /\ got' = NoValue
    /\ UNCHANGED <<buffer, misled, slot>>

Reinit(u) ==
    /\ u \notin open
    /\ open' = open \cup {u}
    /\ pairs' = [pairs EXCEPT ![u] = 0]
    /\ UNCHANGED <<lists, buffer, got, misled, slot>>

Next ==
    \E u \in Tables :
        \/ Clear(u) \/ Reinit(u)
        \/ \E key \in Keys : Misled(u, key) \/ Get(u, key) \/ Delete(u, key)
        \/ \E item \in Items : Put(u, item)

Spec == Init /\ [][Next]_vars
-----------------------------------------------------------------------------
TypeOK ==
    /\ \A u \in Tables : lists[u] \in [Slots(u) -> Seq(Items)]
    /\ pairs \in [Tables -> Int]
    /\ open \subseteq Tables
    /\ got \in Vals \cup {NoValue}

(* The places of a table's pairs: a slot and a position in its list. *)
Nodes(u) == UNION {{s} \X (1 .. Len(lists[u][s])) : s \in Slots(u)}

KeyAt(u, x) == lists[u][x[1]][x[2]].key

(* SCHASH_PAIRS is the number of pairs of an open table, and no list holds a
   key twice or a key of another slot. *)
ChainsCounted ==
    \A u \in open :
        /\ pairs[u] = Cardinality(Nodes(u))
        /\ \A x, y \in Nodes(u) : KeyAt(u, x) = KeyAt(u, y) => x = y
        /\ \A x \in Nodes(u) : KeyAt(u, x) % Size[u] = x[1]

ValueOf(u, key) == SLGet(lists[u][key % Size[u]], key, NoItem).value
Dict == [x \in Tables \X Keys |-> ValueOf(x[1], x[2])]

D == INSTANCE Dictionary WITH
    Keys <- Tables \X Keys,
    None <- NoValue,
    Groups <- {{u} \X Keys : u \in Tables},
    dict <- Dict

(* Each call does to the table's dictionary what its name says and leaves the
   other keys and tables alone. *)
ImplementsDictionaries ==
    D!Init /\
    [][ \A u \in Tables :
            /\ Clear(u) => D!Clear({u} \X Keys)
            /\ \A key \in Keys :
                  /\ Get(u, key) => D!Get(<<u, key>>)
                  /\ Delete(u, key) => D!Delete(<<u, key>>)
                  /\ \A v \in Vals :
                        Put(u, [key |-> key, value |-> v]) => D!Put(<<u, key>>, v) ]_vars
=============================================================================
