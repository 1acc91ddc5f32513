------------------------------- MODULE IndexPQ -------------------------------
(***************************************************************************)
(* heap/indexbinarypq/indexpqueue.c: a binary heap of indices, ordered by  *)
(* the keys the indices carry; a minimum queue here.  pq is the heap, qp   *)
(* says where an index stands in it.  An operation runs swim and sink one  *)
(* turn at a time.                                                         *)
(***************************************************************************)
EXTENDS Integers

CONSTANTS Cap,          \* the capacity given to ipqueue_init
          Keys          \* the keys a caller associates with an index

VARIABLES pq,           \* ipq->pq
          qp,           \* ipq->qp
          keys,         \* ipq->keys, by index
          size,         \* ipq->size
          capacity,     \* ipq->capacity
          op,           \* the operation that runs, or "none"
          pc,           \* "idle", "swim" or "sink"
          i,            \* the index argument of the operation
          at,           \* the heap position remove found its index in
          k,            \* the local k of swim and sink
          ret,          \* the index the last deletion returned
          strayed       \* history: swim has moved a slot outside the heap

vars == <<pq, qp, keys, size, capacity, op, pc, i, at, k, ret, strayed>>

Index == 0 .. Cap - 1
Absent == -1
Zero  == 0              \* the bytes memset leaves in a key

Ops == {"none", "insert", "delete", "remove", "change", "decrkey", "incrkey"}
-----------------------------------------------------------------------------
(* ipqueue_init *)
Init ==
    /\ pq = [s \in Index |-> 0]
    /\ qp = [x \in Index |-> Absent]
    /\ keys = [x \in Index |-> Zero]
    /\ size = 0
    /\ capacity = Cap
    /\ op = "none"
    /\ pc = "idle"
    /\ i = 0
    /\ at = 0
    /\ k = 0
    /\ ret = Absent
    /\ strayed = FALSE

(* IPQUEUE_CONTAINS *)
Contains(x) == x < capacity /\ qp[x] # Absent

(* Mutant: the second write of qp is forgotten. *)
ExchOneSided(a, b) ==
    /\ pq' = [pq EXCEPT ![a] = pq[b], ![b] = pq[a]]
    /\ qp' = [qp EXCEPT ![pq[b]] = a]

(* ipqueue_exch, the two writes of qp in their order *)
Exch(a, b) ==
    /\ pq' = [pq EXCEPT ![a] = pq[b], ![b] = pq[a]]
    /\ qp' = [[qp EXCEPT ![pq[b]] = a] EXCEPT ![pq[a]] = b]

(* The operation o starts with index x, its loop at node n.  Once swim has
   strayed the arrays are corrupt and a later operation may read pq[-1]: the
   model follows such a queue no further than ipqueue_clear. *)
Begin(o, x, loop, n) ==
    /\ pc = "idle"
    /\ ~strayed
    /\ op' = o
    /\ i' = x
    /\ pc' = loop
    /\ k' = n

Insert(x, key) ==
    /\ x < capacity
    /\ ~Contains(x)
    /\ Begin("insert", x, "swim", size)
    /\ pq' = [pq EXCEPT ![size] = x]
    /\ qp' = [qp EXCEPT ![x] = size]
    /\ keys' = [keys EXCEPT ![x] = key]
    /\ UNCHANGED <<size, capacity, at, ret, strayed>>

Delete ==
    /\ size > 0
    /\ Begin("delete", pq[0], "sink", 0)
    /\ Exch(0, size - 1)
    /\ size' = size - 1
    /\ UNCHANGED <<keys, capacity, at, ret, strayed>>

(* ipqueue_remove: nothing is done for an absent index. *)
Remove(x) ==
    /\ Contains(x)
    /\ Begin("remove", x, "swim", qp[x])
    /\ at' = qp[x]
    /\ Exch(qp[x], size - 1)
    /\ size' = size - 1
    /\ UNCHANGED <<keys, capacity, ret, strayed>>

(* ipqueue_change, ipqueue_decrkey and ipqueue_incrkey: a new key for an
   index of the queue; the latter two refuse a key on the wrong side. *)
Rekey(o, x, key, loop) ==
    /\ Contains(x)
    /\ Begin(o, x, loop, qp[x])
    /\ keys' = [keys EXCEPT ![x] = key]
    /\ UNCHANGED <<pq, qp, size, capacity, at, ret, strayed>>

Change(x, key)  == Rekey("change", x, key, "swim")
Decrkey(x, key) == key <= keys[x] /\ Rekey("decrkey", x, key, "swim")
Incrkey(x, key) == keys[x] <= key /\ Rekey("incrkey", x, key, "sink")

(* ipqcmp *)
Above(a, b) == keys[pq[a]] > keys[pq[b]]

SwimParent == k \div 2

SwimGoesOn == k > 0 /\ Above(SwimParent, k)

SwimStep ==
    /\ pc = "swim"
    /\ SwimGoesOn
    /\ Exch(SwimParent, k)
    /\ k' = SwimParent
    /\ strayed' = (strayed \/ (op = "remove" /\ k = size))
    /\ UNCHANGED <<keys, size, capacity, op, pc, i, at, ret>>

(* The operation is over; its locals are gone. *)
End ==
    /\ op' = "none"
    /\ pc' = "idle"
    /\ i' = 0
    /\ at' = 0
    /\ k' = 0

(* swim is the last thing insert and decrkey do; insert counts the index. *)
SwimReturn ==
    /\ pc = "swim"
    /\ ~SwimGoesOn
    /\ op \in {"insert", "decrkey"}
    /\ size' = IF op = "insert" THEN size + 1 ELSE size
    /\ End
    /\ UNCHANGED <<pq, qp, keys, capacity, ret, strayed>>

(* remove and change sink next: remove at the position it found, change at
   the position its index has now. *)
SwimThenSink ==
    /\ pc = "swim"
    /\ ~SwimGoesOn
    /\ op \in {"remove", "change"}
    /\ pc' = "sink"
    /\ k' = IF op = "remove" THEN at ELSE qp[i]
    /\ UNCHANGED <<pq, qp, keys, size, capacity, op, i, at, ret, strayed>>

SinkChild ==
    LET j == 2 * k + 1 IN
    IF j < size - 1 /\ Above(j, j + 1) THEN j + 1 ELSE j

SinkGoesOn == 2 * k + 1 < size /\ Above(k, SinkChild)

SinkStep ==
    /\ pc = "sink"
    /\ SinkGoesOn
    /\ Exch(k, SinkChild)
    /\ k' = SinkChild
    /\ UNCHANGED <<keys, size, capacity, op, pc, i, at, ret, strayed>>

RekeyEnd ==
    /\ pc = "sink"
    /\ ~SinkGoesOn
    /\ op \in {"change", "incrkey"}
    /\ End
    /\ UNCHANGED <<pq, qp, keys, size, capacity, ret, strayed>>

(* Mutant: remove forgets the index that stands where it put the last one. *)
RemoveEndAt ==
    /\ pc = "sink"
    /\ ~SinkGoesOn
    /\ op = "remove"
    /\ keys' = [keys EXCEPT ![pq[at]] = Zero]
    /\ qp' = [qp EXCEPT ![pq[at]] = Absent]
    /\ End
    /\ UNCHANGED <<pq, size, capacity, ret, strayed>>

RemoveEnd ==
    /\ pc = "sink"
    /\ ~SinkGoesOn
    /\ op = "remove"
    /\ keys' = [keys EXCEPT ![i] = Zero]
    /\ qp' = [qp EXCEPT ![i] = Absent]
    /\ End
    /\ UNCHANGED <<pq, size, capacity, ret, strayed>>

DeleteEnd ==
    /\ pc = "sink"
    /\ ~SinkGoesOn
    /\ op = "delete"
    /\ keys' = [keys EXCEPT ![i] = Zero]
    /\ qp' = [qp EXCEPT ![i] = Absent]
    /\ pq' = [pq EXCEPT ![size] = Absent]
    /\ ret' = i
    /\ End
    /\ UNCHANGED <<size, capacity, strayed>>

(* ipqueue_clear frees the arrays; ipqueue_init makes a queue again. *)
Clear ==
    /\ pc = "idle"
    /\ capacity > 0
    /\ pq' = [s \in Index |-> 0]
    /\ qp' = [x \in Index |-> Absent]
    /\ keys' = [x \in Index |-> Zero]
    /\ size' = 0
    /\ capacity' = 0
    /\ strayed' = FALSE
    /\ UNCHANGED <<op, pc, i, at, k, ret>>

Reinit ==
    /\ capacity = 0
    /\ capacity' = Cap
    /\ UNCHANGED <<pq, qp, keys, size, op, pc, i, at, k, ret, strayed>>

Loops ==
    \/ SwimStep \/ SwimReturn \/ SwimThenSink
    \/ SinkStep \/ RekeyEnd \/ RemoveEnd \/ DeleteEnd

Next ==
    \/ Delete \/ Clear \/ Reinit
    \/ \E x \in Index :
          \/ Remove(x)
          \/ \E key \in Keys :
                Insert(x, key) \/ Change(x, key) \/ Decrkey(x, key) \/ Incrkey(x, key)
    \/ Loops

Spec == Init /\ [][Next]_vars

(* An operation runs to its end. *)
FairSpec == Spec /\ WF_vars(Loops)
-----------------------------------------------------------------------------
TypeOK ==
    /\ pq \in [Index -> Index \cup {Absent}]
    /\ qp \in [Index -> Index \cup {Absent}]
    /\ keys \in [Index -> Keys \cup {Zero}]
    /\ size \in 0 .. Cap
    /\ capacity \in {0, Cap}
    /\ op \in Ops
    /\ pc \in {"idle", "swim", "sink"}
    /\ i \in Index
    /\ at \in Index
    /\ k \in Index
    /\ ret \in Index \cup {Absent}
    /\ strayed \in BOOLEAN

(* The first n positions of the heap and the indices it holds match one to
   one. *)
Matches(heap, position, n) ==
    /\ \A s \in 0 .. n - 1 : heap[s] \in Index /\ position[heap[s]] = s
    /\ \A x \in Index : position[x] # Absent =>
           position[x] \in 0 .. n - 1 /\ heap[position[x]] = x

(* "inverse of pq, qp[pq[i]] = pq[qp[i]] = i", include/indexpqueue.h. *)
InverseArrays == pc = "idle" => Matches(pq, qp, size)

(* The same, unless ipqueue_remove took the last position of the heap and
   its swim started one position behind it. *)
InverseUnlessStrayed == ~strayed => InverseArrays

(* While insert, delete or remove runs, position size holds its index. *)
Used == IF op \in {"insert", "delete", "remove"} THEN size + 1 ELSE size

(* Inside an operation swim and sink stay among the used positions, the index
   that leaves the queue stays behind the heap, and the one whose key changes
   stays in it. *)
Control ==
    /\ pc # "idle" => k \in 0 .. Used - 1
    /\ op \in {"delete", "remove"} => pq[size] = i
    /\ op = "remove" => at \in 0 .. size
    /\ op = "change" => i \in Index /\ qp[i] # Absent
    /\ op = "insert" => pc = "swim"
    /\ op = "delete" => pc = "sink"

(* The inductive invariant. *)
ArraysSound ==
    /\ pc = "idle" <=> op = "none"
    /\ ~strayed =>
        /\ pq \in [Index -> Index \cup {Absent}]
        /\ qp \in [Index -> Index \cup {Absent}]
        /\ keys \in [Index -> Keys \cup {Zero}]
        /\ size \in Nat /\ Used <= Cap
        /\ Matches(pq, qp, Used)
        /\ Control

(* Until then each operation does to the keys what its name says: it changes
   the key of its own index and of no other, and a deletion returns an index
   that was in the queue.  The turns of swim and sink change no key. *)
Contents == [x \in Index |-> IF qp[x] = Absent THEN Absent ELSE keys[x]]
Held == INSTANCE IndexedKeys WITH None <- Absent, held <- Contents, picked <- ret
KeysStep ==
    ~strayed' =>
        /\ DeleteEnd => Held!Delete(i)
        /\ RemoveEnd => Held!Remove(i)
        /\ Clear => Held!Clear
        /\ Delete => UNCHANGED Held!ivars
        /\ SwimStep \/ SwimReturn \/ SwimThenSink \/ SinkStep \/ RekeyEnd
             => UNCHANGED Held!ivars
        /\ \A x \in Index, key \in Keys :
              /\ Insert(x, key) => Held!Insert(x, key)
              /\ Change(x, key) => Held!Change(x, key)
              /\ Decrkey(x, key) => Held!Change(x, key)
              /\ Incrkey(x, key) => Held!Change(x, key)
KeepsKeys == Held!Init /\ [][KeysStep]_vars

(* "Removes a minimum or maximum key and returns its associated index". *)
DeletesSmallest ==
    [][Delete => \A s \in 0 .. size - 1 : keys[pq[0]] <= keys[pq[s]]]_vars
=============================================================================
