-------------------------- MODULE BinarySearchProofs --------------------------
(***************************************************************************)
(* Proofs about binarysearch.c: for every capacity and all keys and values *)
(* the invariant SearchSound holds, and the array is a dictionary.         *)
(***************************************************************************)
EXTENDS BinarySearchArray, TLAPS

(* binsearch_init: an empty table is sound. *)
LEMMA InitSound == Init => SearchSound
<1> SUFFICES ASSUME Init PROVE SearchSound
  OBVIOUS
<1> USE DEF Init
<1>1. TypeOK
  BY CapacityAssumption DEF TypeOK, NoItem, NoCall, Ops, Null
<1>2. Sorted
  BY DEF Sorted, Used
<1>3. Narrowed /\ Found /\ Answered
  BY DEF Narrowed, Found, Answered, NoCall
<1> QED
  BY <1>1, <1>2, <1>3 DEF SearchSound

(* A step that leaves the table alone leaves its order alone. *)
LEMMA SameTable == ASSUME Sorted, UNCHANGED tvars PROVE Sorted'
  BY DEF Sorted, Used, tvars

(* The slots in use exist, and what is in them are items. *)
LEMMA UsedSlots ==
  ASSUME TypeOK
  PROVE  /\ size \in Nat /\ Used \subseteq Slots
         /\ \A j \in Used : items[j].key \in Nat /\ items[j].value \in Nat
<1>1. size \in Nat /\ Used \subseteq Slots
  BY CapacityAssumption DEF TypeOK, Used, Slots
<1>2. \A j \in Slots : items[j] \in [key : Nat, value : Nat]
  BY DEF TypeOK
<1> QED
  BY <1>1, <1>2

(* A call starts with the whole table between lo and hi. *)
LEMMA CallSound == ASSUME SearchSound, Call PROVE SearchSound'
<1> PICK key \in Keys :
        \/ \E op \in {"rank", "get", "delete", "floor", "ceiling"} : Search(op, key, 0)
        \/ \E value \in Vals : size < Capacity /\ Search("put", key, value)
  BY DEF Call
<1>1. PICK op \in Ops, value \in Nat :
        Search(op, key, value) /\ (op = "put" => value \in Vals /\ size < Capacity)
  BY ValsAssumption DEF Ops
<1> USE DEF SearchSound
<1>2. TypeOK'
  BY <1>1, KeysAssumption DEF TypeOK, Search, tvars, Slots
<1>3. Sorted'
  BY <1>1, SameTable DEF Search
<1>4. Narrowed'
  BY <1>1 DEF TypeOK, Search, Narrowed, tvars, Used
<1>5. Found' /\ Answered'
  BY <1>1 DEF Search, Found, Answered
<1> QED
  BY <1>2, <1>3, <1>4, <1>5

(* binsearch_get and binsearch_delete of an empty table. *)
LEMMA LeaveEmptySound == ASSUME SearchSound, LeaveEmpty PROVE SearchSound'
<1> USE DEF SearchSound, LeaveEmpty
<1>1. TypeOK'
  BY KeysAssumption DEF TypeOK, tvars, Slots, Ops, Null
<1>2. Sorted'
  BY SameTable
<1>3. Narrowed' /\ Found'
  BY DEF Narrowed, Found
<1>4. Answered'
  BY DEF TypeOK, Answered, AnsweredGet, AnsweredDelete, Used, Null, tvars
<1> QED
  BY <1>1, <1>2, <1>3, <1>4

(* The middle of a part that is not empty lies in it. *)
LEMMA MiddleInside == ASSUME lo \in Int, hi \in Int, lo <= hi PROVE Middle \in lo .. hi
  BY DEF Middle

(* One round of the loop of binsearch_rank: what it cuts off lies on its side
   of the key, and where it stops is the rank. *)
LEMMA HalveSound == ASSUME SearchSound, Halve PROVE SearchSound'
<1> USE DEF SearchSound, Halve
<1>1. Middle \in lo .. hi /\ Middle \in Used /\ lo \in Nat /\ hi \in Int
  BY MiddleInside DEF TypeOK, Narrowed, Used
<1>2. items[Middle].key \in Nat /\ size \in Nat /\ Used \subseteq Slots /\ call.key \in Nat
  BY <1>1, UsedSlots DEF TypeOK
<1>3. TypeOK'
  BY <1>1 DEF TypeOK, tvars, Slots
<1>4. Sorted'
  BY SameTable
<1>5. \A j \in Used : items[j].key \in Nat
  BY UsedSlots
<1>6. /\ \A j \in Used : j < Middle => items[j].key < items[Middle].key
      /\ \A j \in Used : j > Middle => items[j].key > items[Middle].key
  BY <1>1, <1>2, <1>5 DEF Sorted
<1>7. CASE call.key < items[Middle].key
  <2>1. hi' = Middle - 1 /\ lo' = lo /\ pc' = "rank"
    BY <1>2, <1>7
  <2>2. \A j \in Used : j > hi' => items[j].key > call.key
    BY <2>1, <1>1, <1>2, <1>5, <1>6, <1>7 DEF Used
  <2>3. Narrowed'
    BY <2>1, <2>2, <1>1, <1>2 DEF Narrowed, tvars, Used
  <2> QED
    BY <2>1, <2>3, <1>3, <1>4 DEF Found, Answered
<1>8. CASE call.key > items[Middle].key
  <2>1. lo' = Middle + 1 /\ hi' = hi /\ pc' = "rank"
    BY <1>2, <1>8
  <2>2. \A j \in Used : j < lo' => items[j].key < call.key
    BY <2>1, <1>1, <1>2, <1>5, <1>6, <1>8 DEF Used
  <2>3. Narrowed'
    BY <2>1, <2>2, <1>1, <1>2 DEF Narrowed, tvars, Used
  <2> QED
    BY <2>1, <2>3, <1>3, <1>4 DEF Found, Answered
<1>9. CASE call.key = items[Middle].key
  <2>1. at' = Middle /\ pc' = "found"
    BY <1>2, <1>9
  <2>2. IsRank(Middle, call.key)
    BY <1>1, <1>2, <1>5, <1>6, <1>9 DEF IsRank, Used
  <2>3. Found'
    BY <2>1, <2>2 DEF Found, IsRank, Used, tvars
  <2> QED
    BY <2>1, <2>3, <1>3, <1>4 DEF Narrowed, Answered
<1> QED
  BY <1>2, <1>7, <1>8, <1>9

(* The loop ends with nothing left: lo is the rank. *)
LEMMA MissSound == ASSUME SearchSound, Miss PROVE SearchSound'
<1> USE DEF SearchSound, Miss
<1>1. TypeOK'
  BY DEF TypeOK, tvars, Slots
<1>2. Sorted'
  BY SameTable
<1>3. IsRank(lo, call.key)
  <2>1. size \in Nat /\ call.key \in Nat /\ lo \in 0 .. size /\ hi \in Int /\ hi < lo
    BY UsedSlots DEF TypeOK, Narrowed
  <2>2. \A j \in Used : items[j].key \in Nat
    BY UsedSlots
  <2> QED
    BY <2>1, <2>2 DEF Narrowed, IsRank, Used
<1>4. Found'
  BY <1>3 DEF Found, IsRank, Used, tvars
<1> QED
  BY <1>1, <1>2, <1>4 DEF Narrowed, Answered

(* What binsearch_rank has found: the slots below it hold smaller keys, those
   above it greater ones, and the slot itself the key or a greater one. *)
LEMMA RankSplits ==
  ASSUME SearchSound, pc = "found"
  PROVE  /\ at \in 0 .. size /\ size \in Nat /\ call.key \in Nat
         /\ \A j \in Used : j < at => items[j].key < call.key
         /\ \A j \in Used : j > at => items[j].key > call.key
         /\ at \in Used => items[at].key >= call.key
         /\ Has(at, call.key) => at \in Used /\ items[at].key = call.key
         /\ ~Has(at, call.key) => \A j \in Used : items[j].key # call.key
<1> USE DEF SearchSound
<1>1. size \in Nat /\ call.key \in Nat /\ at \in 0 .. size
  BY UsedSlots DEF TypeOK, Found, IsRank
<1>2. \A j \in Used : items[j].key \in Nat
  BY UsedSlots
<1>3. /\ \A j \in Used : j < at => items[j].key < call.key
      /\ at \in Used => items[at].key >= call.key
  BY <1>1 DEF Found, IsRank, Used
<1>4. \A j \in Used : j > at => items[j].key > call.key
  <2> SUFFICES ASSUME NEW j \in Used, j > at PROVE items[j].key > call.key
    OBVIOUS
  <2>1. at \in Used
    BY <1>1 DEF Used
  <2>2. items[at].key < items[j].key
    BY <2>1 DEF Sorted
  <2> QED
    BY <2>1, <2>2, <1>1, <1>2, <1>3
<1>5. Has(at, call.key) => at \in Used /\ items[at].key = call.key
  BY <1>1 DEF Has, Used
<1>6. ~Has(at, call.key) => \A j \in Used : items[j].key # call.key
  BY <1>1, <1>2, <1>3, <1>4 DEF Has, Used
<1> QED
  BY <1>1, <1>3, <1>4, <1>5, <1>6

(* The searches that only look return the slot that they should. *)
LEMMA LookSound ==
  ASSUME SearchSound, Ranked \/ Get \/ Floor \/ Ceiling
  PROVE  SearchSound'
<1> USE DEF Ranked, Get, Floor, Ceiling, Return
<1> DEFINE Split ==
        /\ at \in 0 .. size /\ size \in Nat /\ call.key \in Nat
        /\ \A j \in Used : items[j].key \in Nat
        /\ \A j \in Used : j < at => items[j].key < call.key
        /\ \A j \in Used : j > at => items[j].key > call.key
        /\ at \in Used => items[at].key >= call.key
        /\ Has(at, call.key) => at \in Used /\ items[at].key = call.key
        /\ ~Has(at, call.key) => \A j \in Used : items[j].key # call.key
<1>1. Split
  BY RankSplits, UsedSlots DEF SearchSound
<1>2. TypeOK'
  BY <1>1 DEF SearchSound, TypeOK, tvars, Slots, Ops, Null
<1>3. Sorted'
  BY SameTable DEF SearchSound
<1>4. Narrowed' /\ Found'
  BY DEF Narrowed, Found
<1>5. CASE Ranked
  <2>1. Answered'
    BY <1>5 DEF Answered
  <2> QED
    BY <2>1, <1>2, <1>3, <1>4 DEF SearchSound
<1>6. CASE Get
  <2>1. AnsweredGet'
    BY <1>6, <1>1 DEF AnsweredGet, Used, Null, tvars
  <2>2. Answered'
    BY <1>6, <2>1 DEF Answered
  <2> QED
    BY <2>2, <1>2, <1>3, <1>4 DEF SearchSound
<1>7. CASE Floor
  <2>1. AnsweredFloor'
    <3>1. CASE Has(at, call.key)
      BY <1>7, <1>1, <3>1 DEF AnsweredFloor, Used, Null, tvars
    <3>2. CASE ~Has(at, call.key)
      <4>1. answer'.at = at - 1 /\ items' = items /\ size' = size /\ call' = call
        BY <1>7, <3>2 DEF tvars
      <4>2. \A j \in Used : j > at - 1 => items[j].key > call.key
        BY <1>1, <3>2 DEF Used
      <4>3. at - 1 # Null => at - 1 \in Used /\ items[at - 1].key <= call.key
        BY <1>1 DEF Used, Null
      <4> QED
        BY <4>1, <4>2, <4>3 DEF AnsweredFloor, Used
    <3> QED
      BY <3>1, <3>2
  <2>2. Answered'
    BY <1>7, <2>1 DEF Answered
  <2> QED
    BY <2>2, <1>2, <1>3, <1>4 DEF SearchSound
<1>8. CASE Ceiling
  <2>1. AnsweredCeiling'
    BY <1>8, <1>1 DEF AnsweredCeiling, Used, Null, tvars
  <2>2. Answered'
    BY <1>8, <2>1 DEF Answered
  <2> QED
    BY <2>2, <1>2, <1>3, <1>4 DEF SearchSound
<1> QED
  BY <1>5, <1>6, <1>7, <1>8

(* binsearch_delete closes the gap: the slots behind move one down, and the key
   is gone. *)
LEMMA DeleteSound == ASSUME SearchSound, Delete PROVE SearchSound'
<1> USE DEF Delete, Return
<1> DEFINE Split ==
        /\ at \in 0 .. size /\ size \in Nat /\ call.key \in Nat
        /\ \A j \in Used : items[j].key \in Nat
        /\ \A j \in Used : j < at => items[j].key < call.key
        /\ \A j \in Used : j > at => items[j].key > call.key
        /\ Has(at, call.key) => at \in Used
        /\ ~Has(at, call.key) => \A j \in Used : items[j].key # call.key
<1>1. Split
  BY RankSplits, UsedSlots DEF SearchSound
<1>2. Narrowed' /\ Found'
  BY DEF Narrowed, Found
<1>3. CASE ~Has(at, call.key)
  <2>1. TypeOK'
    BY <1>1, <1>3 DEF SearchSound, TypeOK, tvars, Slots, Ops, Null
  <2>2. Sorted'
    BY <1>3, SameTable DEF SearchSound
  <2>3. Answered'
    BY <1>1, <1>3 DEF Answered, AnsweredDelete, tvars, Used
  <2> QED
    BY <1>2, <2>1, <2>2, <2>3 DEF SearchSound
<1>4. CASE Has(at, call.key)
  <2>1. items' = Closed /\ size' = size - 1 /\ at \in Used
    BY <1>1, <1>4
  <2>2. size \in 1 .. Capacity /\ Capacity \in Nat
    BY <2>1, <1>1, CapacityAssumption DEF SearchSound, TypeOK, Used
  <2>3. \A i \in Slots : items[i] \in [key : Nat, value : Nat]
    BY DEF SearchSound, TypeOK
  <2>4. \A i \in Slots : Closed[i] \in [key : Nat, value : Nat]
    <3> SUFFICES ASSUME NEW i \in Slots PROVE Closed[i] \in [key : Nat, value : Nat]
      OBVIOUS
    <3>1. CASE i \in at .. size - 2
      <4>1. i + 1 \in Slots
        BY <3>1, <1>1, <2>2 DEF Slots
      <4> QED
        BY <4>1, <3>1, <2>3 DEF Closed
    <3>2. CASE i \notin at .. size - 2
      BY <3>2, <2>3 DEF Closed, NoItem
    <3> QED
      BY <3>1, <3>2
  <2>5. TypeOK'
    <3>1. items' \in [Slots -> [key : Nat, value : Nat]]
      BY <2>1, <2>4 DEF Closed
    <3> QED
      BY <3>1, <2>1, <2>2 DEF SearchSound, TypeOK, Ops, Null
  <2>6. \A i \in 0 .. size - 2 :
            /\ i \in Used /\ i + 1 \in Used
            /\ Closed[i] = IF i < at THEN items[i] ELSE items[i + 1]
    BY <1>1, <2>2 DEF Closed, Used, Slots
  <2>7. Sorted'
    BY <1>1, <2>1, <2>2, <2>6 DEF SearchSound, Sorted, Used
  <2>8. \A i \in 0 .. size - 2 : Closed[i].key # call.key
    <3> SUFFICES ASSUME NEW i \in 0 .. size - 2 PROVE Closed[i].key # call.key
      OBVIOUS
    <3>1. CASE i < at
      BY <3>1, <2>6, <1>1
    <3>2. CASE ~(i < at)
      BY <3>2, <2>6, <1>1
    <3> QED
      BY <3>1, <3>2
  <2>9. AnsweredDelete'
    BY <2>1, <2>2, <2>8 DEF AnsweredDelete, Used
  <2>10. Answered'
    BY <2>9 DEF Answered
  <2> QED
    BY <1>2, <2>5, <2>7, <2>10 DEF SearchSound
<1> QED
  BY <1>3, <1>4

(* binsearch_put overwrites the value of the key or opens a slot for it at its
   rank. *)
LEMMA PutSound == ASSUME SearchSound, Put PROVE SearchSound'
<1> USE DEF Put, Return
<1> DEFINE Split ==
        /\ at \in 0 .. size /\ size \in Nat /\ call.key \in Nat
        /\ \A j \in Used : items[j].key \in Nat
        /\ \A j \in Used : j < at => items[j].key < call.key
        /\ \A j \in Used : j > at => items[j].key > call.key
        /\ at \in Used => items[at].key >= call.key
        /\ Has(at, call.key) => at \in Used /\ items[at].key = call.key
        /\ ~Has(at, call.key) => \A j \in Used : items[j].key # call.key
<1>1. Split
  BY RankSplits, UsedSlots DEF SearchSound
<1>2. Narrowed' /\ Found'
  BY DEF Narrowed, Found
<1>3. size < Capacity /\ Capacity \in Nat /\ call.value \in Nat
  BY CapacityAssumption DEF SearchSound, TypeOK
<1>4. \A i \in Slots : items[i] \in [key : Nat, value : Nat]
  BY DEF SearchSound, TypeOK
<1>5. CASE Has(at, call.key)
  <2>1. items' = [items EXCEPT ![at].value = call.value] /\ size' = size
    BY <1>5
  <2>2. at \in Slots /\ at \in Used
    BY <1>1, <1>3, <1>5 DEF Slots
  <2>3. \A i \in Slots : items'[i] =
            IF i = at THEN [key |-> items[i].key, value |-> call.value] ELSE items[i]
    BY <1>4, <2>1, <2>2 DEF SearchSound, TypeOK
  <2>4. TypeOK'
    BY <1>1, <1>3, <1>4, <2>1, <2>2 DEF SearchSound, TypeOK, Ops, Null
  <2>5. \A i \in Used : items'[i].key = items[i].key
    <3> SUFFICES ASSUME NEW i \in Used PROVE items'[i].key = items[i].key
      OBVIOUS
    <3>1. i \in Slots
      BY <1>1, <1>3 DEF Used, Slots
    <3>2. CASE i = at
      <4>1. items'[i] = [key |-> items[i].key, value |-> call.value]
        BY <3>1, <3>2, <2>3
      <4> QED
        BY <4>1
    <3>3. CASE i # at
      BY <3>1, <3>3, <2>3
    <3> QED
      BY <3>2, <3>3
  <2>6. Sorted'
    BY <2>1, <2>5 DEF SearchSound, Sorted, Used
  <2>7. items'[at] = [key |-> call.key, value |-> call.value]
    BY <1>1, <1>5, <2>2, <2>3
  <2>8. Answered'
    BY <2>1, <2>2, <2>7 DEF Answered, AnsweredPut, Used
  <2> QED
    BY <1>2, <2>4, <2>6, <2>8 DEF SearchSound
<1>6. CASE ~Has(at, call.key)
  <2>1. items' = Opened /\ size' = size + 1
    BY <1>6
  <2>2. \A i \in 0 .. size :
            Opened[i] = IF i < at THEN items[i]
                        ELSE IF i = at THEN [key |-> call.key, value |-> call.value]
                        ELSE items[i - 1]
    BY <1>1, <1>3 DEF Opened, Slots
  <2>3. \A i \in Slots : Opened[i] \in [key : Nat, value : Nat]
    <3> SUFFICES ASSUME NEW i \in Slots PROVE Opened[i] \in [key : Nat, value : Nat]
      OBVIOUS
    <3>1. i \in at + 1 .. size => i - 1 \in Slots
      BY <1>1, <1>3 DEF Slots
    <3> QED
      BY <3>1, <1>1, <1>3, <1>4 DEF Opened
  <2>4. TypeOK'
    <3>1. items' \in [Slots -> [key : Nat, value : Nat]]
      BY <2>1, <2>3 DEF Opened
    <3> QED
      BY <3>1, <2>1, <1>1, <1>3 DEF SearchSound, TypeOK, Ops, Null
  <2>5. ASSUME NEW i \in 0 .. size, NEW j \in 0 .. size, i < j
        PROVE  Opened[i].key < Opened[j].key
    <3>1. CASE j < at
      BY <3>1, <2>2, <2>5, <1>1 DEF SearchSound, Sorted, Used
    <3>2. CASE j = at
      BY <3>2, <2>2, <2>5, <1>1 DEF Used
    <3>3. CASE j > at
      <4>1. Opened[j] = items[j - 1] /\ j - 1 \in Used
        BY <3>3, <2>2, <1>1 DEF Used
      <4>2. CASE i < at
        BY <4>1, <4>2, <3>3, <2>2, <1>1 DEF SearchSound, Sorted, Used
      <4>3. CASE i = at
        <5>1. items[j - 1].key > call.key
          BY <4>1, <4>3, <3>3, <1>1, <1>6
        <5> QED
          BY <5>1, <4>1, <4>3, <2>2, <1>1
      <4>4. CASE i > at
        BY <4>1, <4>4, <2>2, <2>5, <1>1 DEF SearchSound, Sorted, Used
      <4> QED
        BY <4>2, <4>3, <4>4, <1>1
    <3> QED
      BY <3>1, <3>2, <3>3, <1>1
  <2>6. Sorted'
    BY <2>1, <2>5, <1>1 DEF Sorted, Used
  <2>7. at \in 0 .. size /\ Opened[at] = [key |-> call.key, value |-> call.value]
    BY <1>1, <2>2
  <2>8. Answered'
    BY <2>1, <2>7, <1>1 DEF Answered, AnsweredPut, Used
  <2> QED
    BY <1>2, <2>4, <2>6, <2>8 DEF SearchSound
<1> QED
  BY <1>5, <1>6

(* Every step keeps the invariant. *)
LEMMA NextSound == ASSUME SearchSound, [Next]_vars PROVE SearchSound'
<1>1. CASE UNCHANGED vars
  BY <1>1, SameTable DEF vars, tvars, SearchSound, TypeOK, Narrowed, Found, IsRank, Has, Used,
     Slots, Answered, AnsweredGet, AnsweredFloor, AnsweredCeiling, AnsweredDelete, AnsweredPut
<1> QED
  BY <1>1, CallSound, LeaveEmptySound, HalveSound, MissSound, LookSound, DeleteSound, PutSound
     DEF Next

(* binarysearch.c:39-184: for every capacity the keys stay strictly ascending,
   binsearch_rank returns the number of smaller keys, and every operation
   answers what its name says. *)
THEOREM SearchesRight == Spec => []SearchSound
<1>1. Init => SearchSound
  BY InitSound
<1>2. SearchSound /\ [Next]_vars => SearchSound'
  BY NextSound
<1> QED
  BY <1>1, <1>2, PTL DEF Spec
-----------------------------------------------------------------------------
(* The value of a key in the table t of n slots. *)
Lookup(t, n, key) ==
    IF \E i \in 0 .. n - 1 : t[i].key = key
    THEN t[CHOOSE i \in 0 .. n - 1 : t[i].key = key].value ELSE 0

Ascending(t, n) ==
    /\ \A i \in 0 .. n - 1 : t[i].key \in Nat
    /\ \A i, j \in 0 .. n - 1 : i < j => t[i].key < t[j].key

(* In an ascending table a slot with the key is the only one. *)
LEMMA LookupPresent ==
  ASSUME NEW t, NEW n \in Nat, Ascending(t, n), NEW i \in 0 .. n - 1
  PROVE  Lookup(t, n, t[i].key) = t[i].value
<1> DEFINE c == CHOOSE j \in 0 .. n - 1 : t[j].key = t[i].key
<1>1. c \in 0 .. n - 1 /\ t[c].key = t[i].key
  OBVIOUS
<1>2. ~(c < i) /\ ~(i < c)
  BY <1>1 DEF Ascending
<1>3. c = i
  BY <1>1, <1>2
<1>4. Lookup(t, n, t[i].key) = t[c].value
  BY DEF Lookup
<1> QED
  BY <1>3, <1>4

LEMMA LookupAbsent ==
  ASSUME NEW t, NEW n, NEW key, \A i \in 0 .. n - 1 : t[i].key # key
  PROVE  Lookup(t, n, key) = 0
  BY DEF Lookup

(* A key keeps its value when every slot of one table that has it is matched by
   a slot of the other table, and the other way round. *)
LEMMA LookupKept ==
  ASSUME NEW t, NEW n \in Nat, Ascending(t, n), NEW u, NEW m \in Nat, Ascending(u, m),
         NEW key,
         \A i \in 0 .. n - 1 : t[i].key = key =>
             \E j \in 0 .. m - 1 : u[j].key = key /\ u[j].value = t[i].value,
         \A j \in 0 .. m - 1 : u[j].key = key => \E i \in 0 .. n - 1 : t[i].key = key
  PROVE  Lookup(u, m, key) = Lookup(t, n, key)
<1>1. CASE \A i \in 0 .. n - 1 : t[i].key # key
  <2>1. \A j \in 0 .. m - 1 : u[j].key # key
    BY <1>1
  <2> QED
    BY <1>1, <2>1, LookupAbsent
<1>2. CASE \E i \in 0 .. n - 1 : t[i].key = key
  <2>1. PICK i \in 0 .. n - 1 : t[i].key = key
    BY <1>2
  <2>2. PICK j \in 0 .. m - 1 : u[j].key = key /\ u[j].value = t[i].value
    BY <2>1
  <2>3. Lookup(t, n, key) = t[i].value
    BY <2>1, LookupPresent
  <2>4. Lookup(u, m, key) = u[j].value
    BY <2>2, LookupPresent
  <2> QED
    BY <2>2, <2>3, <2>4
<1> QED
  BY <1>1, <1>2
-----------------------------------------------------------------------------
(* The dictionary in this state and in the next one. *)
LEMMA StoredLooksUp ==
  /\ Stored = [key \in Keys |-> Lookup(items, size, key)]
  /\ Stored' = [key \in Keys |-> Lookup(items', size', key)]
  BY DEF Stored, ValueOf, Lookup, Used

TableAscends == size \in Nat /\ Ascending(items, size)

LEMMA SoundAscends == SearchSound => TableAscends
<1>1. SearchSound => size \in Nat /\ \A j \in Used : items[j].key \in Nat
  BY UsedSlots DEF SearchSound
<1> QED
  BY <1>1 DEF SearchSound, Sorted, Ascending, Used, TableAscends

LEMMA SoundAscendsNext == SearchSound' => TableAscends'
  BY SoundAscends, PTL

(* The steps of a search inside a call are stuttering steps of the dictionary. *)
LEMMA SearchStutters ==
  ASSUME Call \/ Halve \/ Miss
  PROVE  UNCHANGED D!dvars
<1>1. items' = items /\ size' = size /\ answer' = answer
  BY DEF Call, Search, Halve, Miss, tvars
<1>2. Got' = Got
  BY <1>1 DEF Got
<1>3. Stored' = Stored
  BY <1>1, StoredLooksUp
<1> QED
  BY <1>2, <1>3 DEF D!dvars

(* A call that only looks, and does not get, is the clearing of no key. *)
LEMMA LookClears ==
  ASSUME Stored' = Stored, Got' = 0
  PROVE  D!Next
<1>1. Stored = [k \in Keys |-> Stored[k]]
  BY StoredLooksUp
<1>2. D!Clear({})
  BY <1>1 DEF D!Clear
<1> QED
  BY <1>2 DEF D!Next

(* binsearch_get returns what the dictionary has. *)
LEMMA GetGets == ASSUME SearchSound, SearchSound', Get PROVE D!Next
<1>1. call.key \in Keys /\ call' = call /\ items' = items /\ size' = size
  BY DEF Get, Return, SearchSound, TypeOK, tvars
<1>2. AnsweredGet' /\ answer'.op = "get"
  BY DEF Get, Return, SearchSound, Answered
<1>3. Stored' = Stored
  BY <1>1, StoredLooksUp
<1>4. Got' = Lookup(items, size, call.key)
  <2>1. CASE answer'.at = Null
    <3>1. \A i \in 0 .. size - 1 : items[i].key # call.key
      BY <1>1, <1>2, <2>1 DEF AnsweredGet, Used
    <3> QED
      BY <3>1, <2>1, LookupAbsent DEF Got
  <2>2. CASE answer'.at # Null
    <3>1. answer'.at \in 0 .. size - 1 /\ items[answer'.at].key = call.key
      BY <1>1, <1>2, <2>2 DEF AnsweredGet, Used
    <3>2. Lookup(items, size, call.key) = items[answer'.at].value
      BY <3>1, LookupPresent, SoundAscends DEF TableAscends
    <3> QED
      BY <3>2, <2>2, <1>1, <1>2 DEF Got
  <2> QED
    BY <2>1, <2>2
<1>5. Stored[call.key] = Lookup(items, size, call.key)
  BY <1>1, StoredLooksUp
<1>6. D!Get(call.key)
  BY <1>3, <1>4, <1>5 DEF D!Get
<1> QED
  BY <1>1, <1>6 DEF D!Next

(* A call that changes the value of one key and keeps those of the others. *)
LEMMA OneKey ==
  ASSUME NEW k \in Keys, NEW v, Lookup(items', size', k) = v,
         \A key \in Keys \ {k} : Lookup(items', size', key) = Lookup(items, size, key)
  PROVE  Stored' = [Stored EXCEPT ![k] = v]
  BY StoredLooksUp

(* binsearch_delete removes the key and keeps the values of the others. *)
LEMMA DeleteDeletes == ASSUME SearchSound, SearchSound', Delete PROVE D!Next
<1>1. call.key \in Keys /\ at \in 0 .. size /\ size \in Nat /\ Got' = 0
  BY RankSplits DEF Delete, Return, SearchSound, TypeOK, Got
<1>2. CASE ~Has(at, call.key)
  <2>1. items' = items /\ size' = size
    BY <1>2 DEF Delete, tvars
  <2> QED
    BY <2>1, <1>1, StoredLooksUp, LookClears
<1>3. CASE Has(at, call.key)
  <2>1. /\ at \in 0 .. size - 1 /\ items[at].key = call.key
        /\ items' = Closed /\ size' = size - 1 /\ size' \in Nat
    BY <1>1, <1>3, RankSplits DEF Delete, Used
  <2>2. \A j \in 0 .. size' - 1 : items'[j] = IF j < at THEN items[j] ELSE items[j + 1]
    <3>1. 0 .. size' - 1 \subseteq Slots
      BY <2>1, UsedSlots DEF SearchSound, Used
    <3> QED
      BY <3>1, <2>1, <1>1 DEF Closed
  <2>3. Lookup(items', size', call.key) = 0
    <3>1. AnsweredDelete' /\ call' = call
      BY DEF SearchSound, Answered, Delete, Return
    <3> QED
      BY <3>1, LookupAbsent DEF AnsweredDelete, Used
  <2>4. ASSUME NEW key \in Keys \ {call.key}
        PROVE  Lookup(items', size', key) = Lookup(items, size, key)
    <3>1. ASSUME NEW i \in 0 .. size - 1, items[i].key = key
          PROVE  \E j \in 0 .. size' - 1 : items'[j].key = key /\ items'[j].value = items[i].value
      <4>1. CASE i < at
        <5>1. i \in 0 .. size' - 1 /\ items'[i] = items[i]
          BY <4>1, <2>1, <2>2
        <5> QED
          BY <5>1, <3>1
      <4>2. CASE i > at
        <5>1. i - 1 \in 0 .. size' - 1 /\ items'[i - 1] = items[i]
          BY <4>2, <2>1, <2>2
        <5> QED
          BY <5>1, <3>1
      <4> QED
        BY <4>1, <4>2, <3>1, <2>1
    <3>2. ASSUME NEW j \in 0 .. size' - 1, items'[j].key = key
          PROVE  \E i \in 0 .. size - 1 : items[i].key = key
      BY <3>2, <2>1, <2>2
    <3> QED
      BY <3>1, <3>2, <2>1, LookupKept, SoundAscends, SoundAscendsNext DEF TableAscends
  <2>5. Stored' = [Stored EXCEPT ![call.key] = 0]
    BY <2>3, <2>4, <1>1, OneKey
  <2>6. D!Delete(call.key)
    BY <2>5, <1>1 DEF D!Delete
  <2> QED
    BY <2>6, <1>1 DEF D!Next
<1> QED
  BY <1>2, <1>3

(* binsearch_put associates the value with the key and keeps the values of the
   others. *)
LEMMA PutPuts == ASSUME SearchSound, SearchSound', Put PROVE D!Next
<1>1. call.key \in Keys /\ call.value \in Vals /\ at \in 0 .. size /\ size \in Nat /\ Got' = 0
  BY RankSplits DEF Put, Return, SearchSound, TypeOK, Got
<1>2. Lookup(items', size', call.key) = call.value
  <2>1. AnsweredPut' /\ call' = call
    BY DEF SearchSound, Answered, Put, Return
  <2>2. PICK i \in 0 .. size' - 1 : items'[i] = [key |-> call.key, value |-> call.value]
    BY <2>1 DEF AnsweredPut, Used
  <2> QED
    BY <2>2, LookupPresent, SoundAscendsNext DEF TableAscends
<1>3. ASSUME NEW key \in Keys \ {call.key}
      PROVE  Lookup(items', size', key) = Lookup(items, size, key)
  <2>1. CASE Has(at, call.key)
    <3>1. items' = [items EXCEPT ![at].value = call.value] /\ size' = size /\ size' \in Nat
      BY <2>1, <1>1 DEF Put
    <3>2. at \in 0 .. size - 1 /\ items[at].key = call.key
      BY <2>1, RankSplits DEF Put, Used
    <3>3. \A i \in 0 .. size - 1 : i # at => items'[i] = items[i]
      BY <3>1, UsedSlots DEF SearchSound, TypeOK, Used
    <3>4. items'[at].key = call.key
      <4>1. at \in Slots /\ items[at] \in [key : Nat, value : Nat]
        BY <3>2, UsedSlots DEF SearchSound, TypeOK, Used
      <4>2. items'[at] = [items[at] EXCEPT !.value = call.value]
        BY <3>1, <4>1 DEF SearchSound, TypeOK
      <4> QED
        BY <4>1, <4>2, <3>2
    <3>5. ASSUME NEW i \in 0 .. size - 1, items[i].key = key
          PROVE  \E j \in 0 .. size - 1 : items'[j].key = key /\ items'[j].value = items[i].value
      BY <3>2, <3>3, <3>5
    <3>6. ASSUME NEW j \in 0 .. size - 1, items'[j].key = key
          PROVE  \E i \in 0 .. size - 1 : items[i].key = key
      BY <3>3, <3>4, <3>6
    <3>7. Ascending(items, size) /\ Ascending(items', size)
      BY <3>1, SoundAscends, SoundAscendsNext DEF TableAscends
    <3>8. Lookup(items', size, key) = Lookup(items, size, key)
      BY <3>5, <3>6, <3>7, <1>1, LookupKept
    <3> QED
      BY <3>1, <3>8
  <2>2. CASE ~Has(at, call.key)
    <3>1. items' = Opened /\ size' = size + 1 /\ size' \in Nat /\ size < Capacity
      BY <2>2, <1>1 DEF Put, SearchSound, TypeOK
    <3>2. \A j \in 0 .. size :
              items'[j] = IF j < at THEN items[j]
                          ELSE IF j = at THEN [key |-> call.key, value |-> call.value]
                          ELSE items[j - 1]
      BY <3>1, <1>1, CapacityAssumption DEF Opened, Slots
    <3>3. ASSUME NEW i \in 0 .. size - 1, items[i].key = key
          PROVE  \E j \in 0 .. size' - 1 : items'[j].key = key /\ items'[j].value = items[i].value
      <4>1. CASE i < at
        <5>1. i \in 0 .. size' - 1 /\ items'[i] = items[i]
          BY <4>1, <3>1, <3>2, <1>1
        <5> QED
          BY <5>1, <3>3
      <4>2. CASE i >= at
        <5>1. i + 1 \in 0 .. size' - 1 /\ items'[i + 1] = items[i]
          BY <4>2, <3>1, <3>2, <1>1
        <5> QED
          BY <5>1, <3>3
      <4> QED
        BY <4>1, <4>2, <1>1
    <3>4. ASSUME NEW j \in 0 .. size' - 1, items'[j].key = key
          PROVE  \E i \in 0 .. size - 1 : items[i].key = key
      BY <3>4, <3>1, <3>2, <1>1
    <3> QED
      BY <3>1, <3>3, <3>4, <1>1, LookupKept, SoundAscends, SoundAscendsNext DEF TableAscends
  <2> QED
    BY <2>1, <2>2
<1>4. Stored' = [Stored EXCEPT ![call.key] = call.value]
  BY <1>1, <1>2, <1>3, OneKey
<1>5. D!Put(call.key, call.value)
  BY <1>1, <1>4 DEF D!Put
<1> QED
  BY <1>1, <1>5 DEF D!Next

(* binarysearch.c:64-140: the array implements the dictionary; the rounds of
   the search change nothing that a caller sees. *)
THEOREM ArrayIsDictionary == Spec => ImplementsDictionary
<1>1. Init => D!Init
  <2>1. Init => \A i \in 0 .. size - 1 : FALSE
    BY DEF Init
  <2>2. Init => \A key \in Keys : Lookup(items, size, key) = 0
    BY <2>1, LookupAbsent
  <2>3. Init => Stored = [key \in Keys |-> 0] /\ Got = 0
    BY <2>2, StoredLooksUp DEF Init, Got
  <2> QED
    BY <2>3 DEF D!Init
<1>2. ASSUME SearchSound, SearchSound', [Next]_vars PROVE [D!Next]_(D!dvars)
  <2>1. CASE UNCHANGED vars
    <3>1. Stored' = Stored /\ Got' = Got
      BY <2>1, StoredLooksUp DEF vars, tvars, Got
    <3> QED
      BY <3>1 DEF D!dvars
  <2>2. CASE LeaveEmpty \/ Ranked \/ Floor \/ Ceiling
    <3>1. items' = items /\ size' = size
      BY <2>2 DEF LeaveEmpty, Ranked, Floor, Ceiling, tvars
    <3>2. Got' = 0
      BY <2>2 DEF LeaveEmpty, Ranked, Floor, Ceiling, Return, Got, SearchSound, TypeOK, Null
    <3> QED
      BY <3>1, <3>2, StoredLooksUp, LookClears
  <2> QED
    BY <1>2, <2>1, <2>2, SearchStutters, GetGets, DeleteDeletes, PutPuts DEF Next
<1>3. SearchSound /\ SearchSound' /\ [Next]_vars => [D!Next]_(D!dvars)
  BY <1>2
<1> QED
  BY <1>1, <1>3, SearchesRight, PTL DEF Spec, ImplementsDictionary, D!Spec
===============================================================================
