-------------------------- MODULE BinarySearchArray --------------------------
(***************************************************************************)
(* binarysearch/binarysearch.c: a symbol table in an array ordered by key. *)
(* Every operation but select starts with binsearch_rank, whose loop is    *)
(* taken one round at a time.  Strings are numbers in strcmp's order.      *)
(***************************************************************************)
EXTENDS Integers, Sequences

CONSTANTS Capacity,      \* the length of the allocated array
          Keys, Vals     \* what callers pass; a put of value 0 deletes

ASSUME CapacityAssumption == Capacity \in Nat
ASSUME KeysAssumption == Keys \subseteq Nat \ {0}
ASSUME ValsAssumption == Vals \subseteq Nat \ {0}

VARIABLES items,         \* items[0 .. size-1] is the table
          size,
          pc,            \* "idle", "rank" in the loop, "found" after it
          call,          \* the last call: operation, key and value
          lo, hi, at,    \* binsearch_rank's locals, and what it returned
          answer         \* the last return: operation, and &items[answer.at]

tvars == <<items, size>>
vars == <<items, size, pc, call, lo, hi, at, answer>>

Ops == {"get", "put", "delete", "rank", "floor", "ceiling"}
NoItem == [key |-> 0, value |-> 0]
NoCall == [op |-> "put", key |-> 0, value |-> 0]
Null == -1
Slots == 0 .. Capacity - 1
Used  == 0 .. size - 1
Has(i, key) == i < size /\ items[i].key = key

Init ==
    /\ items = [i \in Slots |-> NoItem]
    /\ size = 0
    /\ pc = "idle"
    /\ call = NoCall
    /\ lo = 0 /\ hi = -1 /\ at = 0
    /\ answer = [op |-> "none", at |-> Null]
-----------------------------------------------------------------------------
(* An operation calls binsearch_rank.  bsearch.c puts nothing into a full  *)
(* array; get and delete leave an empty one at once.                       *)
Search(op, key, value) ==
    /\ pc = "idle"
    /\ op \in {"get", "delete"} => size > 0
    /\ call' = [op |-> op, key |-> key, value |-> value]
    /\ pc' = "rank"
    /\ lo' = 0 /\ hi' = size - 1
    /\ UNCHANGED <<tvars, at, answer>>

Call ==
    \E key \in Keys :
        \/ \E op \in {"rank", "get", "delete", "floor", "ceiling"} : Search(op, key, 0)
        \/ \E value \in Vals : size < Capacity /\ Search("put", key, value)

LeaveEmpty ==
    /\ pc = "idle" /\ size = 0
    /\ \E op \in {"get", "delete"}, key \in Keys :
           /\ call' = [op |-> op, key |-> key, value |-> 0]
           /\ answer' = [op |-> op, at |-> Null]
    /\ UNCHANGED <<tvars, pc, lo, hi, at>>

(* One round of the loop of binsearch_rank. *)
Middle == lo + (hi - lo) \div 2
Halve ==
    /\ pc = "rank" /\ lo <= hi
    /\ LET probe == items[Middle].key IN
       \/ call.key < probe /\ hi' = Middle - 1 /\ UNCHANGED <<lo, at, pc>>
       \/ call.key > probe /\ lo' = Middle + 1 /\ UNCHANGED <<hi, at, pc>>
       \/ call.key = probe /\ at' = Middle /\ pc' = "found" /\ UNCHANGED <<lo, hi>>
    /\ UNCHANGED <<tvars, call, answer>>

Miss ==
    /\ pc = "rank" /\ lo > hi
    /\ at' = lo /\ pc' = "found"
    /\ UNCHANGED <<tvars, call, lo, hi, answer>>
-----------------------------------------------------------------------------
Return(slot) ==
    /\ pc' = "idle"
    /\ answer' = [op |-> call.op, at |-> slot]
    /\ lo' = 0 /\ hi' = -1 /\ at' = 0
    /\ UNCHANGED call

Ranked ==
    /\ pc = "found" /\ call.op = "rank"
    /\ Return(Null) /\ UNCHANGED tvars

Get ==
    /\ pc = "found" /\ call.op = "get"
    /\ Return(IF Has(at, call.key) THEN at ELSE Null)
    /\ UNCHANGED tvars

Floor ==
    /\ pc = "found" /\ call.op = "floor"
    /\ Return(IF Has(at, call.key) THEN at ELSE at - 1)
    /\ UNCHANGED tvars

Ceiling ==
    /\ pc = "found" /\ call.op = "ceiling"
    /\ Return(IF at = size THEN Null ELSE at)
    /\ UNCHANGED tvars

\* mutant: the copying starts behind the slot after the deleted one
ClosedLate == [i \in Slots |-> IF i \in at + 1 .. size - 2 THEN items[i + 1]
                               ELSE IF i = size - 1 THEN NoItem ELSE items[i]]
Closed == [i \in Slots |-> IF i \in at .. size - 2 THEN items[i + 1]
                           ELSE IF i = size - 1 THEN NoItem ELSE items[i]]
Delete ==
    /\ pc = "found" /\ call.op = "delete"
    /\ Return(Null)
    /\ IF Has(at, call.key) THEN items' = Closed /\ size' = size - 1 ELSE UNCHANGED tvars

\* mutant: the item that was in the slot is overwritten
OpenedShort == [i \in Slots |-> IF i = at THEN [key |-> call.key, value |-> call.value]
                                ELSE IF i \in at + 2 .. size THEN items[i - 1] ELSE items[i]]
Opened == [i \in Slots |-> IF i = at THEN [key |-> call.key, value |-> call.value]
                           ELSE IF i \in at + 1 .. size THEN items[i - 1] ELSE items[i]]
Put ==
    /\ pc = "found" /\ call.op = "put"
    /\ Return(Null)
    /\ IF Has(at, call.key)
       THEN items' = [items EXCEPT ![at].value = call.value] /\ UNCHANGED size
       ELSE items' = Opened /\ size' = size + 1

Next ==
    \/ Call \/ LeaveEmpty \/ Halve \/ Miss
    \/ Ranked \/ Get \/ Floor \/ Ceiling \/ Delete \/ Put

Spec == Init /\ [][Next]_vars
-----------------------------------------------------------------------------
(* The queries made of several searches, from what binsearch_rank returns. *)
RankOf(key) ==
    CHOOSE i \in 0 .. size : /\ \A j \in Used : j < i => items[j].key < key
                             /\ \A j \in Used : j >= i => items[j].key >= key
Select(k) == IF k < size THEN k ELSE Null
SlotsBetween(low, high) ==
    IF low > high THEN {}
    ELSE {i \in Used : RankOf(low) <= i /\ i < RankOf(high)}
         \cup (IF Has(RankOf(high), high) THEN {RankOf(high)} ELSE {})
RangeSize(low, high) ==
    IF high < low THEN 0
    ELSE RankOf(high) - RankOf(low) + (IF Has(RankOf(high), high) THEN 1 ELSE 0)
-----------------------------------------------------------------------------
(* What rank i means for a key: the slots below hold smaller keys, the
   slots from i on do not. *)
IsRank(i, key) ==
    /\ i \in 0 .. size
    /\ \A j \in Used : j < i => items[j].key < key
    /\ \A j \in Used : j >= i => items[j].key >= key

Sorted == \A i, j \in Used : i < j => items[i].key < items[j].key

(* The keys cut off by the loop so far are on their side of the key. *)
Narrowed ==
    pc = "rank" =>
        /\ lo \in 0 .. size /\ hi \in lo - 1 .. size - 1
        /\ \A j \in Used : j < lo => items[j].key < call.key
        /\ \A j \in Used : j > hi => items[j].key > call.key

Found == pc = "found" => IsRank(at, call.key)

(* What each operation has achieved when it returns. *)
AnsweredGet ==
    /\ answer.at = Null => \A i \in Used : items[i].key # call.key
    /\ answer.at # Null => answer.at \in Used /\ items[answer.at].key = call.key

AnsweredFloor ==
    /\ answer.at # Null => answer.at \in Used /\ items[answer.at].key <= call.key
    /\ \A i \in Used : i > answer.at => items[i].key > call.key

AnsweredCeiling ==
    /\ answer.at = Null => \A i \in Used : items[i].key < call.key
    /\ answer.at # Null => /\ answer.at \in Used /\ items[answer.at].key >= call.key
                          /\ \A i \in Used : i < answer.at => items[i].key < call.key

AnsweredDelete == \A i \in Used : items[i].key # call.key

AnsweredPut == \E i \in Used : items[i] = [key |-> call.key, value |-> call.value]

Answered ==
    pc = "idle" /\ answer.op = call.op =>
        /\ call.op = "get" => AnsweredGet
        /\ call.op = "floor" => AnsweredFloor
        /\ call.op = "ceiling" => AnsweredCeiling
        /\ call.op = "delete" => AnsweredDelete
        /\ call.op = "put" => AnsweredPut

TypeOK ==
    /\ items \in [Slots -> [key : Nat, value : Nat]]
    /\ size \in 0 .. Capacity
    /\ pc \in {"idle", "rank", "found"}
    /\ call \in [op : Ops, key : Nat, value : Nat]
    /\ lo \in Int /\ hi \in Int /\ at \in Int
    /\ answer \in [op : Ops \cup {"none"}, at : Int]
    /\ pc # "idle" => call.key \in Keys
    /\ pc # "idle" /\ call.op = "put" => call.value \in Vals /\ size < Capacity

(* The keys stay strictly ascending through every put and delete, the loop *)
(* of binsearch_rank never cuts off the slot it is looking for, it returns *)
(* the number of smaller keys, and every operation built on it answers     *)
(* what its name says (binarysearch.c:39-184).  This is inductive.         *)
SearchSound == TypeOK /\ Sorted /\ Narrowed /\ Found /\ Answered
-----------------------------------------------------------------------------
(* The table as the dictionary it implements: value 0 is no value. *)
ValueOf(key) ==
    IF \E i \in Used : items[i].key = key
    THEN items[CHOOSE i \in Used : items[i].key = key].value ELSE 0
Stored == [key \in Keys |-> ValueOf(key)]
Got == IF answer.op = "get" /\ answer.at # Null THEN items[answer.at].value ELSE 0

D == INSTANCE Dictionary WITH None <- 0, Groups <- {{}}, dict <- Stored, got <- Got

(* The array is a dictionary: put overwrites, delete removes, get returns  *)
(* what was put last, the other keys keep their values, and the searches   *)
(* that only look change nothing (binarysearch.c:64-140).                  *)
ImplementsDictionary == D!Spec
=============================================================================
