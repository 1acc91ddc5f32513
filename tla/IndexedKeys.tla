----------------------------- MODULE IndexedKeys -----------------------------
(***************************************************************************)
(* What include/indexpqueue.h, include/indexfibpq.h and their siblings     *)
(* promise about contents: a key is associated with an index until the     *)
(* index is removed or deleted, and no operation on one index disturbs the *)
(* key of another.  Which index a deletion picks is left open here.        *)
(***************************************************************************)
EXTENDS Naturals

CONSTANTS Index, Keys, None

VARIABLES held,         \* held[i] is the key of index i, or None
          picked        \* the index the last deletion returned, or None

ivars == <<held, picked>>

Init ==
    /\ held = [i \in Index |-> None]
    /\ picked = None

Insert(i, key) ==
    /\ held[i] = None
    /\ held' = [held EXCEPT ![i] = key]
    /\ UNCHANGED picked

Delete(i) ==
    /\ held[i] # None
    /\ held' = [held EXCEPT ![i] = None]
    /\ picked' = i

(* What the ordered queues promise besides: i has a smallest key. *)
TakeMin(i) ==
    /\ held[i] # None
    /\ \A j \in Index : held[j] # None => held[i] <= held[j]
    /\ held' = [held EXCEPT ![i] = None]

Remove(i) ==
    /\ held[i] # None
    /\ held' = [held EXCEPT ![i] = None]
    /\ UNCHANGED picked

Change(i, key) ==
    /\ held[i] # None
    /\ held' = [held EXCEPT ![i] = key]
    /\ UNCHANGED picked

Clear ==
    /\ held' = [i \in Index |-> None]
    /\ UNCHANGED picked

Next ==
    \/ Clear
    \/ \E i \in Index :
          \/ Delete(i) \/ Remove(i)
          \/ \E key \in Keys : Insert(i, key) \/ Change(i, key)

Spec == Init /\ [][Next]_ivars
=============================================================================
