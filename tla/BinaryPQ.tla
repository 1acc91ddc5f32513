------------------------------- MODULE BinaryPQ -------------------------------
(***************************************************************************)
(* heap/binarypq/priorityqueue.c: a priority queue in an array, used as a  *)
(* minimum queue (its compare function is `greater').  swim and sink are   *)
(* loops, so an insertion and a deletion take several steps.               *)
(***************************************************************************)
EXTENDS Integers, FiniteSets

CONSTANTS Cap,          \* the capacity given to pqueue_init, at least 1
          Keys          \* the keys a caller inserts, positive numbers

VARIABLES keys,         \* pq->keys, the array of keys
          size,         \* pq->size
          capacity,     \* pq->capacity
          pc,           \* "idle", or the loop that runs
          k,            \* the local k of swim and sink
          ret           \* the key the last deletion copied out

vars == <<keys, size, capacity, pc, k, ret>>

Slots == 0 .. Cap - 1
Zero  == 0              \* the bytes memset leaves in a slot

Exch(f, a, b) == [f EXCEPT ![a] = f[b], ![b] = f[a]]
-----------------------------------------------------------------------------
(* pqueue_init: the slots are allocated, their contents are not keys. *)
Init ==
    /\ keys = [s \in Slots |-> Zero]
    /\ size = 0
    /\ capacity = Cap
    /\ pc = "idle"
    /\ k = 0
    /\ ret = Zero

(* pqueue_insert: the caller asks PQUEUE_ISFULL first. *)
Insert(key) ==
    /\ pc = "idle"
    /\ size < capacity
    /\ keys' = [keys EXCEPT ![size] = key]
    /\ pc' = "swim"
    /\ k' = size
    /\ UNCHANGED <<size, capacity, ret>>

(* The node swim compares node k with. *)
SwimParent == k \div 2

SwimGoesOn == k > 0 /\ keys[SwimParent] > keys[k]

SwimStep ==
    /\ pc = "swim"
    /\ SwimGoesOn
    /\ keys' = Exch(keys, SwimParent, k)
    /\ k' = SwimParent
    /\ UNCHANGED <<size, capacity, pc, ret>>

InsertEnd ==
    /\ pc = "swim"
    /\ ~SwimGoesOn
    /\ size' = size + 1
    /\ pc' = "idle"
    /\ k' = 0
    /\ UNCHANGED <<keys, capacity, ret>>

(* pqueue_delete: the caller asks PQUEUE_ISEMPTY first. *)
Delete ==
    /\ pc = "idle"
    /\ size > 0
    /\ ret' = keys[0]
    /\ keys' = Exch(keys, 0, size - 1)
    /\ size' = size - 1
    /\ pc' = "sink"
    /\ k' = 0
    /\ UNCHANGED capacity

(* The child of node k that sink compares it with. *)
SinkChild ==
    LET j == 2 * k + 1 IN
    IF j < size - 1 /\ keys[j] > keys[j + 1] THEN j + 1 ELSE j

SinkGoesOn == 2 * k + 1 < size /\ keys[k] > keys[SinkChild]

SinkStep ==
    /\ pc = "sink"
    /\ SinkGoesOn
    /\ keys' = Exch(keys, SinkChild, k)
    /\ k' = SinkChild
    /\ UNCHANGED <<size, capacity, pc, ret>>

DeleteEnd ==
    /\ pc = "sink"
    /\ ~SinkGoesOn
    /\ keys' = [keys EXCEPT ![size] = Zero]
    /\ pc' = "idle"
    /\ k' = 0
    /\ UNCHANGED <<size, capacity, ret>>

(* pqueue_clear: the array is given back; only pqueue_init makes a queue of
   it again. *)
Clear ==
    /\ pc = "idle"
    /\ capacity > 0
    /\ keys' = [s \in Slots |-> Zero]
    /\ size' = 0
    /\ capacity' = 0
    /\ UNCHANGED <<pc, k, ret>>

Reinit ==
    /\ capacity = 0
    /\ capacity' = Cap
    /\ UNCHANGED <<keys, size, pc, k, ret>>

Loops == SwimStep \/ InsertEnd \/ SinkStep \/ DeleteEnd

Next ==
    \/ \E key \in Keys : Insert(key)
    \/ Delete \/ Clear \/ Reinit
    \/ Loops

Spec == Init /\ [][Next]_vars
FairSpec == Spec /\ WF_vars(Loops)
-----------------------------------------------------------------------------
TypeOK ==
    /\ keys \in [Slots -> Keys \cup {Zero}]
    /\ size \in 0 .. Cap
    /\ capacity \in {0, Cap}
    /\ pc \in {"idle", "swim", "sink"}
    /\ k \in Slots
    /\ ret \in Keys \cup {Zero}

(* The keys in the queue, the one an insertion lets swim included, form the
   bag of what was inserted and not yet deleted: the exchanges of swim and
   sink, and the zeroed slot behind the heap, lose and double nothing. *)
InHeap == IF pc = "swim" THEN 0 .. size ELSE 0 .. size - 1
Bag == INSTANCE KeyBag WITH
    None <- Zero,
    bag <- [key \in Keys |-> Cardinality({s \in InHeap : keys[s] = key})],
    out <- ret
BagStep ==
    /\ \A key \in Keys : Insert(key) => Bag!Insert(key)
    /\ Delete => Bag!Delete(keys[0])
    /\ Loops => UNCHANGED Bag!bvars
KeepsBag == Bag!Init /\ [][BagStep]_vars

(* "Removes and returns a smallest or largest key on this priority queue",
   heap/binarypq/priorityqueue.c: the key copied out is not greater than any
   key that stays. *)
DeletesSmallest ==
    [][Delete => \A s \in 0 .. size - 1 : ret' <= keys[s]]_vars
=============================================================================
