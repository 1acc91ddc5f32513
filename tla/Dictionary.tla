------------------------------ MODULE Dictionary ------------------------------
(***************************************************************************)
(* What every symbol table of the library promises: put associates a value *)
(* with a key and overwrites the old one, get returns the value put last,  *)
(* delete removes the key.  Operations on one key leave the others alone.  *)
(***************************************************************************)
CONSTANTS Keys, Vals, None,
          Groups        \* the sets of keys that are cleared together

VARIABLES dict,         \* dict[k] is the value of key k, or None
          got           \* what the last call returned, None if nothing

dvars == <<dict, got>>

Init ==
    /\ dict = [k \in Keys |-> None]
    /\ got = None

Put(k, v) ==
    /\ got' = None
    /\ dict' = [dict EXCEPT ![k] = v]

Get(k) ==
    /\ got' = dict[k]
    /\ UNCHANGED dict

Delete(k) ==
    /\ got' = None
    /\ dict' = [dict EXCEPT ![k] = None]

(* One of several tables is cleared. *)
Clear(cleared) ==
    /\ dict' = [k \in Keys |-> IF k \in cleared THEN None ELSE dict[k]]
    /\ got' = None

Next ==
    \/ \E k \in Keys : Get(k) \/ Delete(k) \/ \E v \in Vals : Put(k, v)
    \/ \E cleared \in Groups : Clear(cleared)

Spec == Init /\ [][Next]_dvars
=============================================================================
