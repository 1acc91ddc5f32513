-------------------------------- MODULE KeyBag --------------------------------
(***************************************************************************)
(* What every priority queue of keys promises about its contents: a key    *)
(* that was inserted is returned by one deletion, and deletions return     *)
(* nothing else.  Which key a deletion picks is left open here.            *)
(***************************************************************************)
EXTENDS Naturals

CONSTANTS Keys, None

VARIABLES bag,          \* bag[key] is how many times the key is in the queue
          out           \* the key the last deletion returned, or None

bvars == <<bag, out>>

Init ==
    /\ bag = [key \in Keys |-> 0]
    /\ out = None

Insert(key) ==
    /\ bag' = [bag EXCEPT ![key] = @ + 1]
    /\ UNCHANGED out

Delete(key) ==
    /\ bag[key] > 0
    /\ bag' = [bag EXCEPT ![key] = @ - 1]
    /\ out' = key

(* What the ordered queues promise besides: the key is a smallest one. *)
TakeMin(key) ==
    /\ bag[key] > 0
    /\ \A other \in Keys : bag[other] > 0 => key <= other
    /\ bag' = [bag EXCEPT ![key] = @ - 1]

Clear ==
    /\ bag' = [key \in Keys |-> 0]
    /\ UNCHANGED out

Next == Clear \/ \E key \in Keys : Insert(key) \/ Delete(key)

Spec == Init /\ [][Next]_bvars
=============================================================================
