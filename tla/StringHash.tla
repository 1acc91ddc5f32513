------------------------------ MODULE StringHash ------------------------------
(***************************************************************************)
(* The hash function of hashtable/lineprobhash.c and separatechainhash.c   *)
(* and the static hash_buffer each file keeps: the last key hashed and its *)
(* hash, shared by all the tables of the program.  A key is a number here  *)
(* and hashes to its remainder, as a string of one character does.         *)
(***************************************************************************)
EXTENDS Integers

CONSTANTS Size,         \* Size[t] is the htsize of table t
          Keys, Vals

ASSUME SizeAssumption == Size \in [DOMAIN Size -> Nat \ {0}] /\ DOMAIN Size # {}
ASSUME KeysAssumption == Keys \subseteq Nat \ {0}
ASSUME ValsAssumption == Vals \subseteq Nat

VARIABLES buffer,       \* hash_buffer; its size field is a record of which
                        \* htsize the hash was taken for, not in the code
          misled        \* history: a hash was used for a table of another size

Tables   == DOMAIN Size
Slots(u) == 0 .. Size[u] - 1
NoKey    == 0

HashInit ==
    /\ buffer = [key |-> NoKey, hash |-> -1, size |-> 0]
    /\ misled = FALSE

(* hash_code: the buffered hash if the key is the last one hashed, whatever
   the table. *)
HashCode(key, size) == IF buffer.key = key THEN buffer.hash ELSE key % size

Hashed(key, size) ==
    /\ buffer' = IF buffer.key = key THEN buffer
                 ELSE [key |-> key, hash |-> HashCode(key, size), size |-> size]
    /\ misled' = (misled \/ (buffer.key = key /\ buffer.size # size))
=============================================================================
