------------------------------ MODULE OrderedSet ------------------------------
(***************************************************************************)
(* What every search tree and the skip list promise: the keys form a set,  *)
(* and a query is answered from the order of its members.                  *)
(***************************************************************************)
EXTENDS Integers, Sequences, FiniteSets, FiniteSetsExt

CONSTANTS Keys,         \* the keys of the callers, positive numbers
          None          \* what stands for a null pointer returned to a caller

VARIABLES keys,         \* the keys in the set
          got           \* what the last call returned, None if nothing

svars == <<keys, got>>

Init == keys = {} /\ got = None

Put(key)    == keys' = keys \cup {key} /\ got' = None
Get(key)    == got' = (IF key \in keys THEN key ELSE None) /\ UNCHANGED keys
Delete(key) == keys' = keys \ {key} /\ got' = None
DeleteMin   == keys # {} /\ Delete(Min(keys))
DeleteMax   == keys # {} /\ Delete(Max(keys))
Clear       == keys' = {} /\ got' = None

Next ==
    \/ \E key \in Keys : Put(key) \/ Get(key) \/ Delete(key)
    \/ DeleteMin \/ DeleteMax \/ Clear

Spec == Init /\ [][Next]_svars
-----------------------------------------------------------------------------
(* The answers about a set S that depend on its order. *)
Rank(S, key)      == Cardinality({k \in S : k < key})
AtMost(S, key)    == {k \in S : k <= key}
AtLeast(S, key)   == {k \in S : k >= key}
Floor(S, key)     == IF AtMost(S, key) = {} THEN None ELSE Max(AtMost(S, key))
Ceiling(S, key)   == IF AtLeast(S, key) = {} THEN None ELSE Min(AtLeast(S, key))
(* The sequence has the members of S in ascending order. *)
Lists(seq, S) ==
    /\ \A i \in 1 .. Len(seq) - 1 : seq[i] < seq[i + 1]
    /\ {seq[i] : i \in DOMAIN seq} = S
=============================================================================
