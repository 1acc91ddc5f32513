---------------------------- MODULE LinearProbing ----------------------------
(***************************************************************************)
(* hashtable/lineprobhash.c: hash tables with linear probing, several of   *)
(* which live in one program and share the file's static hash_buffer.      *)
(* A probe looks at one slot per step.  Tables never grow: the caller asks *)
(* LPHASH_ISFULL.                                                          *)
(***************************************************************************)
EXTENDS StringHash, FiniteSets

VARIABLES items,        \* items[t][s] is the pair in slot s, or NullItem
          pairs,        \* pairs[t] is the pairs counter of table t
          op, t, arg,   \* the operation that runs, its table and argument
          pc,           \* "idle", or the loop that runs
          i,            \* the slot the probe or the rehashing has reached
          j,            \* the slot the probe of a rehashed pair has reached
          moving,       \* the pair that is being rehashed
          got           \* what the last call returned

vars == <<items, pairs, buffer, op, t, arg, pc, i, j, moving, got, misled>>

NullItem == [key |-> NoKey, value |-> 0]
Items    == [key : Keys, value : Vals]
NoValue  == -1
-----------------------------------------------------------------------------
(* LPHASH_INIT of every table. *)
Init ==
    /\ items = [u \in Tables |-> [s \in Slots(u) |-> NullItem]]
    /\ pairs = [u \in Tables |-> 0]
    /\ HashInit
    /\ op = "none"
    /\ t = CHOOSE u \in Tables : TRUE
    /\ arg = NullItem
    /\ pc = "idle"
    /\ i = 0
    /\ j = 0
    /\ moving = NullItem
    /\ got = NoValue

(* isnull *)
IsNull(item) == item = NullItem

(* Mutant: the probe stops at the last slot instead of wrapping round. *)
NextSlotStuck(s) == IF s + 1 = Size[t] THEN s ELSE s + 1

(* Mutant: the probe runs past the last slot. *)
NextSlotPast(s) == s + 1

NextSlot(s) == (s + 1) % Size[t]

(* An operation starts with the hash of its key.  A misled one is not
   followed: its slot may lie outside the table. *)
Begin(o, u, item) ==
    /\ pc = "idle"
    /\ ~misled
    /\ op' = o
    /\ t' = u
    /\ arg' = item
    /\ Hashed(item.key, Size[u])
    /\ i' = HashCode(item.key, Size[u])
    /\ pc' = "probe"
    /\ UNCHANGED <<items, pairs, j, moving, got>>

Get(u, key)    == Begin("get", u, [key |-> key, value |-> 0])
Put(u, item)   == Begin("put", u, item)
Delete(u, key) == Begin("delete", u, [key |-> key, value |-> 0])

(* The operation is over; its locals are gone. *)
End ==
    /\ pc' = "idle"
    /\ op' = "none"
    /\ arg' = NullItem
    /\ i' = 0
    /\ j' = 0
    /\ moving' = NullItem
    /\ UNCHANGED <<t, buffer, misled>>

Probing == pc = "probe" /\ ~misled
Here == items[t][i]

ProbeStep ==
    /\ Probing
    /\ ~IsNull(Here)
    /\ Here.key # arg.key
    /\ i' = NextSlot(i)
    /\ UNCHANGED <<items, pairs, buffer, op, t, arg, pc, j, moving, got, misled>>

(* get finds the key or an empty slot. *)
GetEnd ==
    /\ Probing
    /\ op = "get"
    /\ IsNull(Here) \/ Here.key = arg.key
    /\ got' = IF IsNull(Here) THEN NoValue ELSE Here.value
    /\ End
    /\ UNCHANGED <<items, pairs>>

PutOverwrite ==
    /\ Probing
    /\ op = "put"
    /\ ~IsNull(Here)
    /\ Here.key = arg.key
    /\ items' = [items EXCEPT ![t][i].value = arg.value]
    /\ End
    /\ got' = NoValue
    /\ UNCHANGED pairs

PutInsert ==
    /\ Probing
    /\ op = "put"
    /\ IsNull(Here)
    /\ items' = [items EXCEPT ![t][i] = arg]
    /\ pairs' = [pairs EXCEPT ![t] = @ + 1]
    /\ End
    /\ got' = NoValue

DeleteAbsent ==
    /\ Probing
    /\ op = "delete"
    /\ IsNull(Here)
    /\ End
    /\ got' = NoValue
    /\ UNCHANGED <<items, pairs>>

(* Mutant: the key is cleared and the rest of its cluster left in place. *)
DeleteFoundOnly ==
    /\ Probing
    /\ op = "delete"
    /\ ~IsNull(Here)
    /\ Here.key = arg.key
    /\ items' = [items EXCEPT ![t][i] = NullItem]
    /\ pairs' = [pairs EXCEPT ![t] = @ - 1]
    /\ End
    /\ got' = NoValue

(* delete has found its key, by lphash_get and again by a search that takes
   the same way; the slot is cleared and the cluster behind it rehashed. *)
DeleteFound ==
    /\ Probing
    /\ op = "delete"
    /\ ~IsNull(Here)
    /\ Here.key = arg.key
    /\ items' = [items EXCEPT ![t][i] = NullItem]
    /\ i' = NextSlot(i)
    /\ pc' = "rehash"
    /\ got' = NoValue
    /\ UNCHANGED <<pairs, buffer, op, t, arg, j, moving, misled>>

(* Mutant: the rehashing probe starts behind the pair's own slot. *)
RehashTakeNext ==
    /\ pc = "rehash"
    /\ ~IsNull(Here)
    /\ moving' = Here
    /\ items' = [items EXCEPT ![t][i] = NullItem]
    /\ pairs' = [pairs EXCEPT ![t] = @ - 1]
    /\ Hashed(Here.key, Size[t])
    /\ j' = NextSlot(HashCode(Here.key, Size[t]))
    /\ pc' = "reput"
    /\ UNCHANGED <<op, t, arg, i, got>>

(* The pair of a slot of the cluster is taken out, to be put again. *)
RehashTake ==
    /\ pc = "rehash"
    /\ ~IsNull(Here)
    /\ moving' = Here
    /\ items' = [items EXCEPT ![t][i] = NullItem]
    /\ pairs' = [pairs EXCEPT ![t] = @ - 1]
    /\ Hashed(Here.key, Size[t])
    /\ j' = HashCode(Here.key, Size[t])
    /\ pc' = "reput"
    /\ UNCHANGED <<op, t, arg, i, got>>

ReputStep ==
    /\ pc = "reput"
    /\ ~IsNull(items[t][j])
    /\ items[t][j].key # moving.key
    /\ j' = NextSlot(j)
    /\ UNCHANGED <<items, pairs, buffer, op, t, arg, pc, i, moving, got, misled>>

ReputEnd ==
    /\ pc = "reput"
    /\ IsNull(items[t][j])
    /\ items' = [items EXCEPT ![t][j] = moving]
    /\ pairs' = [pairs EXCEPT ![t] = @ + 1]
    /\ moving' = NullItem
    /\ i' = NextSlot(i)
    /\ j' = 0
    /\ pc' = "rehash"
    /\ UNCHANGED <<buffer, op, t, arg, got, misled>>

(* The cluster ends: the deleted pair is counted off. *)
DeleteEnd ==
    /\ pc = "rehash"
    /\ IsNull(Here)
    /\ pairs' = [pairs EXCEPT ![t] = @ - 1]
    /\ End
    /\ UNCHANGED <<items, got>>

(* LPHASH_CLEAR and LPHASH_INIT with the same htsize; hash_buffer survives. *)
Reset(u) ==
    /\ pc = "idle"
    /\ items' = [items EXCEPT ![u] = [s \in Slots(u) |-> NullItem]]
    /\ pairs' = [pairs EXCEPT ![u] = 0]
    /\ got' = NoValue
    /\ UNCHANGED <<buffer, op, t, arg, pc, i, j, moving, misled>>

(* A misled operation is followed no further. *)
Abandoned == misled /\ UNCHANGED vars

Work ==
    \/ ProbeStep \/ GetEnd \/ PutOverwrite \/ PutInsert
    \/ DeleteAbsent \/ DeleteFound
    \/ RehashTake \/ ReputStep \/ ReputEnd \/ DeleteEnd

Next ==
    \/ \E u \in Tables :
          \/ Reset(u)
          \/ \E key \in Keys : Get(u, key) \/ Delete(u, key)
          \/ \E item \in Items : Put(u, item)
    \/ Work
    \/ Abandoned

Spec == Init /\ [][Next]_vars

(* An operation keeps running. *)
FairSpec == Spec /\ WF_vars(Work)
-----------------------------------------------------------------------------
TypeOK ==
    /\ items = [u \in Tables |-> items[u]]
    /\ \A u \in Tables : items[u] \in [Slots(u) -> Items \cup {NullItem}]
    /\ pairs \in [Tables -> Int]
    /\ op \in {"none", "get", "put", "delete"}
    /\ t \in Tables
    /\ pc \in {"idle", "probe", "rehash", "reput"}
    /\ pc # "idle" => arg \in [key : Keys, value : Vals \cup {0}]
    /\ op = "put" => arg \in Items
    /\ ~misled => i \in Slots(t)
    /\ IF pc = "reput" THEN moving \in Items /\ j \in Slots(t)
                       ELSE moving = NullItem /\ j = 0
    /\ got \in Vals \cup {NoValue}

Filled(u) == {s \in Slots(u) : ~IsNull(items[u][s])}
IsFull(u) == Filled(u) = Slots(u)

(* The slots from a to b, in the direction of the probes. *)
Gap(u, a, b) == (b + Size[u] - a) % Size[u]
Stretch(u, a, b) == {x \in Slots(u) : Gap(u, a, x) <= Gap(u, a, b)}

(* The slots a probe for the key passes before slot s. *)
Home(u, key) == key % Size[u]
Passed(u, key, s) ==
    {x \in Slots(u) : Gap(u, Home(u, key), x) < Gap(u, Home(u, key), s)}

(* A key stands once, and no empty slot lies on the way of its probe: the
   rehashing of the cluster closes every hole a deletion makes.  A lookup
   that stops at the first empty slot relies on it. *)
ClustersClosed ==
    pc = "idle" /\ ~misled =>
        \A u \in Tables : \A s \in Filled(u) :
            /\ Passed(u, items[u][s].key, s) \subseteq Filled(u)
            /\ \A s2 \in Filled(u) : items[u][s2].key = items[u][s].key => s2 = s

(* LPHASH_PAIRS: delete, which takes pairs out and puts them again, leaves
   the counter at the number of pairs. *)
PairsCounted ==
    pc = "idle" => \A u \in Tables : pairs[u] = Cardinality(Filled(u))

ClustersSound == ClustersClosed /\ PairsCounted
-----------------------------------------------------------------------------
(* The inductive invariant says what holds in the middle of the calls. *)
Rehashing(u) == u = t /\ pc \in {"rehash", "reput"}

(* The buffered hash is right for the size it was taken for, which is the
   size of the table at work; so only the first hash of a call can mislead. *)
Buffered ==
    /\ buffer.key \in Keys \cup {NoKey}
    /\ buffer.key # NoKey =>
          buffer.size \in Nat \ {0} /\ buffer.hash = buffer.key % buffer.size
    /\ pc # "idle" /\ ~misled => buffer.key \in Keys /\ buffer.size = Size[t]
    /\ misled => pc = "probe"

(* A key stands once; the deleted key and the key that moves stand nowhere. *)
KeysOnce ==
    /\ \A u \in Tables : \A s, s2 \in Filled(u) :
          items[u][s2].key = items[u][s].key => s2 = s
    /\ \A s \in Filled(t) :
          /\ pc = "reput" => items[t][s].key # moving.key
          /\ Rehashing(t) => items[t][s].key # arg.key
    /\ pc = "reput" => moving.key # arg.key /\ IsNull(Here)

(* The first slot of the cluster that the rehashing has yet to take. *)
Frontier == IF pc = "reput" THEN NextSlot(i) ELSE i

(* An empty slot lies on the way to a pair only while a cluster is rehashed,
   and then the pair is one of those still to be taken: no slot is empty from
   the frontier up to it. *)
WaysClosed ==
    \A u \in Tables : \A s \in Filled(u) :
        \/ Passed(u, items[u][s].key, s) \subseteq Filled(u)
        \/ Rehashing(u) /\ Stretch(u, Frontier, s) \subseteq Filled(u)

(* A probe has passed filled slots only, and none with its key. *)
Searched ==
    /\ pc = "probe" /\ ~misled =>
          \A x \in Passed(t, arg.key, i) : x \in Filled(t) /\ items[t][x].key # arg.key
    /\ pc = "reput" => Passed(t, moving.key, j) \subseteq Filled(t)

(* The pair that is being deleted is counted until the rehashing ends. *)
Counted ==
    \A u \in Tables :
        pairs[u] = Cardinality(Filled(u)) + (IF Rehashing(u) THEN 1 ELSE 0)

Inv == TypeOK /\ Buffered /\ KeysOnce /\ WaysClosed /\ Searched /\ Counted
-----------------------------------------------------------------------------
(* A probe ends if the table has an empty slot when it starts. *)
ProbesEnd ==
    (pc = "probe" /\ ~IsFull(t)) ~> (pc = "idle" \/ misled)

(* Each call does to the table's dictionary what its name says, in the step
   where it finds or places its pair, and answers from it; the other steps,
   the rehashing of a cluster among them, change no dictionary.  Each table
   is a dictionary of its own as long as no buffered hash of one
   table is used in another.  Between the moment a pair is taken out and the
   moment it is put again, it belongs to the table. *)
ValueOf(u, key) ==
    LET present == {items[u][s] : s \in Slots(u)}
                     \cup IF u = t THEN {moving} ELSE {}
    IN  IF \E item \in present : item.key = key
          THEN (CHOOSE item \in present : item.key = key).value
          ELSE NoValue
Dict == [x \in Tables \X Keys |-> ValueOf(x[1], x[2])]
D == INSTANCE Dictionary WITH
    Keys <- Tables \X Keys,
    None <- NoValue,
    Groups <- {{u} \X Keys : u \in Tables},
    dict <- Dict
ImplementsDictionaries ==
    D!Init /\
    [][ /\ pc = "idle" /\ pc' = "probe" => UNCHANGED D!dvars
        /\ GetEnd => D!Get(<<t, arg.key>>)
        /\ PutOverwrite \/ PutInsert => D!Put(<<t, arg.key>>, arg.value)
        /\ DeleteAbsent \/ DeleteFound => D!Delete(<<t, arg.key>>)
        /\ ProbeStep \/ RehashTake \/ ReputStep \/ ReputEnd \/ DeleteEnd => UNCHANGED D!dvars
        /\ \A u \in Tables : Reset(u) => D!Clear({u} \X Keys) ]_vars
=============================================================================
