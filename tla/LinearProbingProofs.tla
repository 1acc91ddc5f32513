------------------------- MODULE LinearProbingProofs -------------------------
(***************************************************************************)
(* Proofs about the open hash tables, for tables of every size and for     *)
(* every set of keys.  On the way from the home of a key to the slot of    *)
(* its pair every slot is filled: that is the invariant, and while delete  *)
(* mends a cluster all of it that needs saying is where the hole is and    *)
(* how far the mending has come.                                           *)
(***************************************************************************)
EXTENDS LinearProbing, FiniteSetTheorems, TLAPS

USE SizeAssumption, KeysAssumption, ValsAssumption

(* Remainders below twice the divisor. *)
LEMMA Remainders ==
    ASSUME NEW n \in Nat \ {0}, NEW x \in Nat
    PROVE  /\ x % n \in 0 .. n - 1
           /\ x < n => x % n = x
           /\ n <= x /\ x < 2 * n => x % n = x - n
OBVIOUS

(* A table has slots, and they are numbers. *)
LEMMA SlotsTypes ==
    ASSUME NEW u \in Tables
    PROVE  Size[u] \in Nat \ {0} /\ Slots(u) \subseteq Nat
BY DEF Tables, Slots

(* The distance from one slot to another, without the remainder. *)
LEMMA GapValue ==
    ASSUME NEW u \in Tables, NEW a \in Slots(u), NEW b \in Slots(u)
    PROVE  /\ Gap(u, a, b) = IF a <= b THEN b - a ELSE b + Size[u] - a
           /\ Gap(u, a, b) \in Slots(u)
<1> DEFINE n == Size[u]
<1>1. n \in Nat \ {0} /\ a \in 0 .. n - 1 /\ b \in 0 .. n - 1
  BY SlotsTypes DEF Slots
<1> HIDE DEF n
<1> DEFINE x == b + n - a
<1>2. x \in Nat
  BY <1>1
<1>3. /\ x < n => x % n = x
      /\ n <= x /\ x < 2 * n => x % n = x - n
  <2> HIDE DEF x
  <2> QED BY <1>1, <1>2, Remainders
<1>4. x % n = (IF a <= b THEN b - a ELSE b + n - a) /\ x % n \in 0 .. n - 1
  <2>1. CASE a <= b
    <3>1. n <= x /\ x < 2 * n /\ x - n = b - a BY <1>1, <2>1
    <3>2. x % n = x - n BY <1>3, <3>1
    <3> QED BY <1>1, <2>1, <3>1, <3>2
  <2>2. CASE a > b
    <3>1. x < n BY <1>1, <2>2
    <3>2. x % n = x BY <1>3, <3>1
    <3> QED BY <1>1, <2>2, <3>2
  <2> QED BY <1>1, <2>1, <2>2
<1> QED BY <1>4 DEF Gap, Slots, n

(* The step to the next slot, without the remainder. *)
LEMMA NextSlotValue ==
    ASSUME NEW s \in Slots(t), t \in Tables
    PROVE  /\ NextSlot(s) = IF s + 1 = Size[t] THEN 0 ELSE s + 1
           /\ NextSlot(s) \in Slots(t)
<1> DEFINE n == Size[t]
<1>1. n \in Nat \ {0} /\ s \in 0 .. n - 1
  BY SlotsTypes DEF Slots
<1> HIDE DEF n
<1> DEFINE x == s + 1
<1>2. x \in Nat /\ x <= n
  BY <1>1
<1>3. /\ x < n => x % n = x
      /\ n <= x /\ x < 2 * n => x % n = x - n
  <2> HIDE DEF x
  <2> QED BY <1>1, <1>2, Remainders
<1>4. x % n = (IF x = n THEN 0 ELSE x)
  <2> HIDE DEF x
  <2> QED BY <1>1, <1>2, <1>3
<1>5. x % n \in 0 .. n - 1
  BY <1>1, <1>4
<1> QED BY <1>4, <1>5 DEF NextSlot, Slots, n

(* A key is at home in a slot of the table. *)
LEMMA HomeInside ==
    ASSUME NEW u \in Tables, NEW key \in Keys
    PROVE  Home(u, key) \in Slots(u)
BY SlotsTypes, Remainders DEF Home, Slots

(* A gap says where a slot is, and grows by one with each step. *)
LEMMA GapOne ==
    ASSUME NEW u \in Tables, NEW a \in Slots(u), NEW b \in Slots(u), NEW c \in Slots(u)
    PROVE  /\ Gap(u, a, b) = Gap(u, a, c) => b = c
           /\ Gap(u, a, a) = 0
           /\ Gap(u, a, b) \in 0 .. Size[u] - 1
<1>1. /\ Size[u] \in Nat \ {0}
      /\ a \in 0 .. Size[u] - 1 /\ b \in 0 .. Size[u] - 1 /\ c \in 0 .. Size[u] - 1
  BY SlotsTypes DEF Slots
<1>2. /\ Gap(u, a, b) = IF a <= b THEN b - a ELSE b + Size[u] - a
      /\ Gap(u, a, c) = IF a <= c THEN c - a ELSE c + Size[u] - a
  BY GapValue
<1>3. Gap(u, a, a) = 0 BY <1>1, GapValue
<1>4. Gap(u, a, b) \in 0 .. Size[u] - 1 BY <1>1, <1>2
<1>5. Gap(u, a, b) = Gap(u, a, c) => b = c BY <1>1, <1>2
<1> QED BY <1>3, <1>4, <1>5

(* One step of the probe is one more from its start, or the start again. *)
LEMMA GapNext ==
    ASSUME t \in Tables, NEW a \in Slots(t), NEW s \in Slots(t)
    PROVE  Gap(t, a, NextSlot(s)) = IF Gap(t, a, s) + 1 = Size[t] THEN 0 ELSE Gap(t, a, s) + 1
<1>1. Size[t] \in Nat \ {0} BY SlotsTypes
<1>2. NextSlot(s) \in Slots(t) /\ NextSlot(s) = IF s + 1 = Size[t] THEN 0 ELSE s + 1
  BY NextSlotValue
<1>3. /\ Gap(t, a, s) = IF a <= s THEN s - a ELSE s + Size[t] - a
      /\ Gap(t, a, NextSlot(s)) = IF a <= NextSlot(s) THEN NextSlot(s) - a
                                   ELSE NextSlot(s) + Size[t] - a
  BY <1>2, GapValue
<1> QED BY <1>1, <1>2, <1>3 DEF Slots

(* The slots a probe passes with one step more. *)
LEMMA PassedNext ==
    ASSUME t \in Tables, NEW key \in Keys, NEW s \in Slots(t)
    PROVE  /\ Passed(t, key, NextSlot(s)) \subseteq Passed(t, key, s) \cup {s}
           /\ Passed(t, key, NextSlot(s)) = {} => Passed(t, key, s) \cup {s} = Slots(t)
           /\ Passed(t, key, Home(t, key)) = {}
<1>1. Size[t] \in Nat \ {0} /\ Home(t, key) \in Slots(t) /\ NextSlot(s) \in Slots(t)
  BY SlotsTypes, HomeInside, NextSlotValue
<1> DEFINE g(x) == Gap(t, Home(t, key), x)
<1>2. g(NextSlot(s)) = IF g(s) + 1 = Size[t] THEN 0 ELSE g(s) + 1
  BY <1>1, GapNext
<1>3. \A x, y \in Slots(t) : g(x) \in 0 .. Size[t] - 1 /\ (g(x) = g(y) => x = y)
  BY <1>1, GapOne
<1>4. g(Home(t, key)) = 0 BY <1>1, GapOne
<1>5. \A x \in Slots(t) : x \in Passed(t, key, NextSlot(s)) <=> g(x) < g(NextSlot(s))
  BY DEF Passed
<1>6. \A x \in Slots(t) : x \in Passed(t, key, s) <=> g(x) < g(s)
  BY DEF Passed
<1>7. \A x : /\ x \in Passed(t, key, s) => x \in Slots(t)
             /\ x \in Passed(t, key, NextSlot(s)) => x \in Slots(t)
             /\ x \in Passed(t, key, Home(t, key)) => x \in Slots(t) /\ g(x) < g(Home(t, key))
  BY DEF Passed
<1> HIDE DEF g
<1>8. ASSUME NEW x \in Passed(t, key, NextSlot(s)) PROVE x \in Passed(t, key, s) \cup {s}
  BY <1>1, <1>2, <1>3, <1>5, <1>6, <1>7
<1>9. ASSUME Passed(t, key, NextSlot(s)) = {}, NEW x \in Slots(t)
      PROVE  x \in Passed(t, key, s) \cup {s}
  <2>1. g(NextSlot(s)) = 0 
    <3>1. ~(g(Home(t, key)) < g(NextSlot(s)))
      BY <1>1, <1>5, <1>9
    <3> QED BY <1>1, <1>3, <1>4, <3>1
  <2> QED BY <1>1, <1>2, <1>3, <1>6, <2>1
<1>10. Passed(t, key, Home(t, key)) = {}
  BY <1>1, <1>3, <1>4, <1>7
<1> QED BY <1>1, <1>7, <1>8, <1>9, <1>10

(* Two slots of a table: one of them is on the way of a probe to the other. *)
LEMMA PassedTotal ==
    ASSUME NEW u \in Tables, NEW key \in Keys, NEW s \in Slots(u), NEW x \in Slots(u)
    PROVE  s = x \/ s \in Passed(u, key, x) \/ x \in Passed(u, key, s)
<1>1. Size[u] \in Nat \ {0} /\ Home(u, key) \in Slots(u) BY SlotsTypes, HomeInside
<1>2. Gap(u, Home(u, key), s) \in Int /\ Gap(u, Home(u, key), x) \in Int
  BY <1>1, GapOne
<1> QED BY <1>1, <1>2, GapOne DEF Passed

(* Behind a slot that a probe passes come only slots it passes later. *)
LEMMA StretchBehind ==
    ASSUME t \in Tables, NEW key \in Keys, NEW s \in Slots(t), NEW d \in Passed(t, key, s)
    PROVE  Stretch(t, NextSlot(d), s) \subseteq (Passed(t, key, s) \cup {s}) \ {d}
<1>1. Size[t] \in Nat \ {0} /\ Home(t, key) \in Slots(t) /\ NextSlot(d) \in Slots(t)
      /\ d \in Slots(t)
  BY SlotsTypes, HomeInside, NextSlotValue DEF Passed
<1> DEFINE h == Home(t, key)
           e == NextSlot(d)
<1>2. Gap(t, h, d) < Gap(t, h, s) BY DEF Passed
<1> SUFFICES ASSUME NEW x \in Slots(t), Gap(t, e, x) <= Gap(t, e, s)
             PROVE  (Gap(t, h, x) < Gap(t, h, s) \/ x = s) /\ x # d
  BY DEF Stretch, Passed
<1>3. e = IF d + 1 = Size[t] THEN 0 ELSE d + 1 BY <1>1, NextSlotValue
<1>4. /\ Gap(t, h, d) = IF h <= d THEN d - h ELSE d + Size[t] - h
      /\ Gap(t, h, s) = IF h <= s THEN s - h ELSE s + Size[t] - h
      /\ Gap(t, h, x) = IF h <= x THEN x - h ELSE x + Size[t] - h
      /\ Gap(t, e, x) = IF e <= x THEN x - e ELSE x + Size[t] - e
      /\ Gap(t, e, s) = IF e <= s THEN s - e ELSE s + Size[t] - e
  BY <1>1, GapValue
<1> HIDE DEF h, e
<1>5. h \in 0 .. Size[t] - 1 /\ e \in 0 .. Size[t] - 1 /\ d \in 0 .. Size[t] - 1
      /\ s \in 0 .. Size[t] - 1 /\ x \in 0 .. Size[t] - 1
  BY <1>1 DEF Slots, h, e
<1> QED BY <1>1, <1>2, <1>3, <1>4, <1>5

(* The frontier moves over its own slot only. *)
LEMMA StretchNext ==
    ASSUME t \in Tables, NEW f \in Slots(t), NEW s \in Slots(t), s # f
    PROVE  /\ Stretch(t, NextSlot(f), s) \subseteq Stretch(t, f, s) \ {f}
           /\ f \in Stretch(t, f, s)
<1>1. Size[t] \in Nat \ {0} /\ NextSlot(f) \in Slots(t) BY SlotsTypes, NextSlotValue
<1> DEFINE e == NextSlot(f)
<1>2. e = IF f + 1 = Size[t] THEN 0 ELSE f + 1 BY <1>1, NextSlotValue
<1>3. ASSUME NEW x \in Slots(t)
      PROVE  /\ Gap(t, f, x) = IF f <= x THEN x - f ELSE x + Size[t] - f
             /\ Gap(t, e, x) = IF e <= x THEN x - e ELSE x + Size[t] - e
  BY <1>1, GapValue
<1>4. ASSUME NEW x \in Slots(t), Gap(t, e, x) <= Gap(t, e, s)
      PROVE  Gap(t, f, x) <= Gap(t, f, s) /\ x # f
  <2>1. /\ Gap(t, f, x) = IF f <= x THEN x - f ELSE x + Size[t] - f
        /\ Gap(t, e, x) = IF e <= x THEN x - e ELSE x + Size[t] - e
        /\ Gap(t, f, s) = IF f <= s THEN s - f ELSE s + Size[t] - f
        /\ Gap(t, e, s) = IF e <= s THEN s - e ELSE s + Size[t] - e
    BY <1>3
  <2>2. /\ f \in 0 .. Size[t] - 1 /\ s \in 0 .. Size[t] - 1
        /\ x \in 0 .. Size[t] - 1 /\ e \in 0 .. Size[t] - 1
    BY <1>1 DEF Slots
  <2>3. Gap(t, e, x) <= Gap(t, e, s) BY <1>4
  <2> HIDE DEF e
  <2> QED BY <1>1, <1>2, <2>1, <2>2, <2>3
<1>5. Gap(t, f, f) <= Gap(t, f, s)
  BY <1>1, <1>3 DEF Slots
<1> QED BY <1>4, <1>5 DEF Stretch, e
-----------------------------------------------------------------------------
(* Facts about the tables of a state that satisfies the invariant. *)
LEMMA FilledFinite ==
    ASSUME NEW u \in Tables
    PROVE  /\ IsFiniteSet(Filled(u)) /\ Cardinality(Filled(u)) \in Nat
           /\ IsFiniteSet(Filled(u)') /\ Cardinality(Filled(u))' \in Nat
<1>1. IsFiniteSet(Slots(u))
  <2>1. 0 \in Int /\ Size[u] - 1 \in Int BY SlotsTypes
  <2>2. IsFiniteSet(0 .. Size[u] - 1) BY <2>1, FS_Interval, Zenon
  <2> QED BY <2>2 DEF Slots
<1>2. Filled(u) \in SUBSET Slots(u) /\ Filled(u)' \in SUBSET Slots(u)
  BY DEF Filled
<1> QED BY <1>1, <1>2, FS_Subset, FS_CardinalityType

(* A slot is filled if it holds a pair. *)
LEMMA FilledHere ==
    ASSUME TypeOK, NEW u \in Tables, NEW s \in Slots(u)
    PROVE  /\ s \in Filled(u) <=> items[u][s] # NullItem
           /\ s \in Filled(u) => items[u][s] \in Items /\ items[u][s].key \in Keys
BY DEF TypeOK, Filled, IsNull, Items

(* One slot of the table at work is written. *)
LEMMA SlotWritten ==
    ASSUME TypeOK, NEW x \in Slots(t), NEW item \in Items \cup {NullItem},
           items' = [items EXCEPT ![t][x] = item], UNCHANGED t
    PROVE  /\ items' = [u \in Tables |-> items'[u]]
           /\ \A u \in Tables : items'[u] \in [Slots(u) -> Items \cup {NullItem}]
           /\ \A u \in Tables : \A s \in Slots(u) :
                items'[u][s] = IF u = t /\ s = x THEN item ELSE items[u][s]
           /\ \A u \in Tables : u # t => Filled(u)' = Filled(u)
           /\ item = NullItem => Filled(t)' = Filled(t) \ {x}
           /\ item # NullItem => Filled(t)' = Filled(t) \cup {x}
<1>1. t \in Tables /\ items = [u \in Tables |-> items[u]]
      /\ \A u \in Tables : items[u] \in [Slots(u) -> Items \cup {NullItem}]
  BY DEF TypeOK
<1>2. items' = [u \in Tables |-> IF u = t THEN [items[t] EXCEPT ![x] = item] ELSE items[u]]
  BY <1>1
<1>3. [items[t] EXCEPT ![x] = item] \in [Slots(t) -> Items \cup {NullItem}]
  BY <1>1
<1>4. \A u \in Tables : \A s \in Slots(u) :
          items'[u][s] = IF u = t /\ s = x THEN item ELSE items[u][s]
  BY <1>1, <1>2
<1>5. \A u \in Tables : u # t => items'[u] = items[u]
  BY <1>1, <1>2
<1>6. \A u \in Tables : Filled(u)' = {s \in Slots(u) : items'[u][s] # NullItem}
                         /\ Filled(u) = {s \in Slots(u) : items[u][s] # NullItem}
  BY DEF Filled, IsNull
<1>7. ASSUME NEW s \in Slots(t)
      PROVE  /\ s \in Filled(t)' <=> items'[t][s] # NullItem
             /\ s \in Filled(t) <=> items[t][s] # NullItem
             /\ items'[t][s] = IF s = x THEN item ELSE items[t][s]
  BY <1>1, <1>4 DEF Filled, IsNull
<1>8. Filled(t)' \subseteq Slots(t) /\ Filled(t) \subseteq Slots(t)
  BY DEF Filled
<1>12. Filled(t)' = IF item = NullItem THEN Filled(t) \ {x} ELSE Filled(t) \cup {x}
  BY <1>7, <1>8
<1>9. ASSUME NEW u \in Tables, u # t PROVE Filled(u)' = Filled(u)
  <2>1. items'[u] = items[u] BY <1>5, <1>9
  <2>2. Filled(u)' = {s \in Slots(u) : items'[u][s] # NullItem}
        /\ Filled(u) = {s \in Slots(u) : items[u][s] # NullItem}
    BY <1>6
  <2> QED BY <2>1, <2>2, Zenon
<1>10. \A u \in Tables : items'[u] \in [Slots(u) -> Items \cup {NullItem}]
  BY <1>1, <1>2, <1>3
<1>11. items' = [u \in Tables |-> items'[u]]
  BY <1>2
<1> QED BY <1>4, <1>9, <1>10, <1>11, <1>12

(* While no cluster is rehashed, no way has a hole. *)
LEMMA PlainWays ==
    ASSUME WaysClosed, NEW u \in Tables, ~Rehashing(u), NEW s \in Filled(u)
    PROVE  Passed(u, items[u][s].key, s) \subseteq Filled(u)
BY DEF WaysClosed

(* An empty slot ends a search: the key is nowhere in the table. *)
LEMMA AbsentBehindHole ==
    ASSUME Inv, pc = "probe", ~misled, IsNull(Here), NEW s \in Filled(t)
    PROVE  items[t][s].key # arg.key
<1>1. t \in Tables /\ i \in Slots(t) /\ arg.key \in Keys /\ s \in Slots(t)
      /\ i \notin Filled(t)
  BY DEF Inv, TypeOK, Filled, Here
<1> SUFFICES ASSUME items[t][s].key = arg.key PROVE FALSE
  OBVIOUS
<1>2. i \notin Passed(t, arg.key, s)
  BY <1>1, PlainWays DEF Inv, Rehashing
<1>3. s \notin Passed(t, arg.key, i)
  BY DEF Inv, Searched
<1> QED BY <1>1, <1>2, <1>3, PassedTotal

(* A hash is misleading only when it was buffered for another size. *)
LEMMA HashedRight ==
    ASSUME Buffered, NEW u \in Tables, NEW key \in Keys, Hashed(key, Size[u])
    PROVE  /\ buffer'.key = key
           /\ buffer'.size \in Nat \ {0} /\ buffer'.hash = buffer'.key % buffer'.size
           /\ ~misled' => /\ buffer'.size = Size[u]
                          /\ HashCode(key, Size[u]) = Home(u, key)
           /\ ~misled /\ buffer.size = Size[u] => ~misled'
<1>1. Size[u] \in Nat \ {0} BY SlotsTypes
<1>2. key # NoKey BY DEF NoKey
<1>3. CASE buffer.key = key
  BY <1>1, <1>2, <1>3 DEF Hashed, HashCode, Buffered, Home
<1>4. CASE buffer.key # key
  BY <1>1, <1>2, <1>4 DEF Hashed, HashCode, Buffered, Home
<1> QED BY <1>3, <1>4
-----------------------------------------------------------------------------
(* All tables are empty in the beginning. *)
LEMMA InitInv == Init => Inv
<1> SUFFICES ASSUME Init PROVE Inv
  OBVIOUS
<1> USE DEF Init, HashInit
<1>1. t \in Tables BY DEF Tables
<1>2. \A u \in Tables : Filled(u) = {}
  BY DEF Filled, IsNull
<1>3. TypeOK
  <2>1. 0 \in Slots(t) BY <1>1, SlotsTypes DEF Slots
  <2> QED BY <1>1, <2>1 DEF TypeOK
<1>4. Buffered BY DEF Buffered
<1>5. KeysOnce /\ WaysClosed /\ Searched
  BY <1>1, <1>2 DEF KeysOnce, WaysClosed, Searched, Rehashing
<1>6. Counted
  <2>1. Cardinality({}) = 0 BY FS_EmptySet
  <2>2. pc = "idle" /\ pairs = [u \in Tables |-> 0] OBVIOUS
  <2>3. \A u \in Tables : pairs[u] = Cardinality(Filled(u)) /\ ~Rehashing(u)
    BY <1>2, <2>1, <2>2, Zenon DEF Rehashing
  <2>4. \A u \in Tables : pairs[u] \in Int
    BY <2>2
  <2> QED BY <2>2, <2>3, <2>4 DEF Counted
<1> QED BY <1>3, <1>4, <1>5, <1>6 DEF Inv

(* A step that writes no slot and no counter and does not rehash keeps what
   the invariant says of the pairs. *)
LEMMA PairsUnchanged ==
    ASSUME Inv, UNCHANGED <<items, pairs>>,
           pc \notin {"rehash", "reput"}, pc' \notin {"rehash", "reput"}, t' \in Tables
    PROVE  KeysOnce' /\ WaysClosed' /\ Counted'
<1>1. \A u : Filled(u)' = Filled(u) BY DEF Filled, IsNull
<1>2. \A u : ~Rehashing(u) /\ ~Rehashing(u)' BY DEF Rehashing
<1>3. KeysOnce' BY <1>1, <1>2 DEF Inv, KeysOnce, Filled
<1>4. WaysClosed' BY <1>1, <1>2 DEF Inv, WaysClosed
<1>5. Counted' BY <1>1, <1>2 DEF Inv, Counted
<1> QED BY <1>3, <1>4, <1>5

(* A call begins its probe at the home of its key. *)
LEMMA BeginInv ==
    ASSUME Inv, NEW o \in {"get", "put", "delete"}, NEW u \in Tables,
           NEW item \in [key : Keys, value : Vals \cup {0}], o = "put" => item \in Items,
           Begin(o, u, item)
    PROVE  Inv'
<1> USE DEF Begin
<1>1. item.key \in Keys /\ Buffered /\ Hashed(item.key, Size[u])
  BY DEF Inv
<1>2. /\ buffer'.key = item.key
      /\ buffer'.size \in Nat \ {0} /\ buffer'.hash = buffer'.key % buffer'.size
      /\ ~misled' => buffer'.size = Size[u] /\ i' = Home(u, item.key)
  BY <1>1, HashedRight
<1>3. ~misled' => i' \in Slots(u) /\ Passed(u, item.key, i') = {}
  <2>1. Home(u, item.key) \in Slots(u) BY <1>1, HomeInside
  <2>2. \A x : ~(Gap(u, Home(u, item.key), x) < Gap(u, Home(u, item.key), Home(u, item.key)))
                \/ x \notin Slots(u)
    <3>1. Gap(u, Home(u, item.key), Home(u, item.key)) = 0 BY <2>1, GapOne
    <3>2. ASSUME NEW x \in Slots(u) PROVE Gap(u, Home(u, item.key), x) \in Nat
      BY <2>1, GapOne, SlotsTypes
    <3> QED BY <3>1, <3>2
  <2> QED BY <1>2, <2>1, <2>2 DEF Passed
<1>4. TypeOK'
  BY <1>3 DEF Inv, TypeOK
<1>5. Buffered' BY <1>1, <1>2 DEF Buffered
<1>6. Searched' BY <1>3 DEF Searched
<1>7. KeysOnce' /\ WaysClosed' /\ Counted' BY PairsUnchanged
<1> QED BY <1>4, <1>5, <1>6, <1>7 DEF Inv

(* get ends, and delete of an absent key: the table is as it was. *)
LEMMA EndInv ==
    ASSUME Inv, GetEnd \/ DeleteAbsent
    PROVE  Inv'
<1> USE DEF GetEnd, DeleteAbsent, Probing, End
<1>1. TypeOK'
  <2>1. 0 \in Slots(t) BY SlotsTypes DEF Inv, TypeOK, Slots
  <2>2. GetEnd /\ ~IsNull(Here) => Here.value \in Vals
    BY DEF Inv, TypeOK, Here, IsNull, Items
  <2>3. got' \in Vals \cup {NoValue} BY <2>2
  <2> QED BY <2>1, <2>3 DEF Inv, TypeOK
<1>2. Buffered' BY DEF Inv, Buffered
<1>3. Searched' BY DEF Searched
<1>4. KeysOnce' /\ WaysClosed' /\ Counted'
  <2>1. t' \in Tables BY DEF Inv, TypeOK
  <2> QED BY <2>1, PairsUnchanged
<1> QED BY <1>1, <1>2, <1>3, <1>4 DEF Inv

(* A probe passes a filled slot. *)
LEMMA ProbeStepInv ==
    ASSUME Inv, ProbeStep
    PROVE  Inv'
<1> USE DEF ProbeStep, Probing
<1>1. /\ t \in Tables /\ i \in Slots(t) /\ arg.key \in Keys
      /\ i \in Filled(t) /\ items[t][i].key # arg.key
  BY DEF Inv, TypeOK, Filled, Here
<1>2. TypeOK' BY <1>1, NextSlotValue DEF Inv, TypeOK
<1>3. Buffered' BY DEF Inv, Buffered
<1>4. Searched'
  <2>1. Passed(t, arg.key, i') \subseteq Passed(t, arg.key, i) \cup {i}
    BY <1>1, PassedNext
  <2>2. \A x \in Passed(t, arg.key, i) : x \in Filled(t) /\ items[t][x].key # arg.key
    BY DEF Inv, Searched
  <2>3. Filled(t)' = Filled(t) BY DEF Filled, IsNull
  <2> QED BY <1>1, <2>1, <2>2, <2>3 DEF Searched
<1>5. KeysOnce' /\ WaysClosed' /\ Counted' BY <1>1, PairsUnchanged
<1> QED BY <1>2, <1>3, <1>4, <1>5 DEF Inv

(* A put finds its key and writes the value. *)
LEMMA PutOverwriteInv ==
    ASSUME Inv, PutOverwrite
    PROVE  /\ Inv'
           /\ items' = [items EXCEPT ![t][i] = [key |-> arg.key, value |-> arg.value]]
<1> DEFINE item == [key |-> arg.key, value |-> arg.value]
<1>1. /\ t \in Tables /\ i \in Slots(t) /\ i \in Filled(t)
      /\ items[t][i] \in Items /\ items[t][i].key = arg.key
      /\ arg \in Items /\ item \in Items /\ item # NullItem
  BY DEF PutOverwrite, Probing, Inv, TypeOK, Here, Items, NullItem, NoKey, IsNull, Filled
<1>2. items' = [items EXCEPT ![t][i] = item]
  <2>1. [items[t][i] EXCEPT !.value = arg.value] = item
    BY <1>1 DEF Items
  <2> QED BY <2>1 DEF PutOverwrite, Here
<1>13. /\ UNCHANGED <<t, pairs, buffer, misled>> /\ pc = "probe" /\ pc' = "idle"
       /\ op' = "none" /\ i' = 0 /\ j' = 0 /\ moving' = NullItem /\ got' = NoValue
       /\ ~misled
  BY DEF PutOverwrite, Probing, End
<1> HIDE DEF item
<1>3. /\ items' = [u \in Tables |-> items'[u]]
      /\ \A u \in Tables : items'[u] \in [Slots(u) -> Items \cup {NullItem}]
      /\ \A u \in Tables : \A s \in Slots(u) :
            items'[u][s] = IF u = t /\ s = i THEN item ELSE items[u][s]
      /\ \A u \in Tables : u # t => Filled(u)' = Filled(u)
      /\ Filled(t)' = Filled(t) \cup {i}
  BY <1>1, <1>2, <1>13, SlotWritten DEF Inv
<1>4. \A u \in Tables : \A s \in Slots(u) : items'[u][s].key = items[u][s].key
  BY <1>1, <1>3 DEF item
<1>5. \A u \in Tables : Filled(u)' = Filled(u) /\ Filled(u) \subseteq Slots(u)
  <2>1. Filled(t) \cup {i} = Filled(t) BY <1>1
  <2>2. \A u \in Tables : Filled(u) \subseteq Slots(u) BY DEF Filled
  <2>3. \A u \in Tables : u = t => Filled(u)' = Filled(t) \cup {i}
    BY <1>3, <1>13
  <2> QED BY <1>3, <2>1, <2>2, <2>3
<1>6. \A u : ~Rehashing(u) /\ ~Rehashing(u)' BY <1>13 DEF Rehashing
<1>7. TypeOK'
  <2>1. 0 \in Slots(t) BY <1>1, SlotsTypes DEF Slots
  <2> QED BY <1>3, <1>13, <2>1 DEF Inv, TypeOK
<1>8. Buffered' BY <1>13 DEF Inv, Buffered
<1>9. KeysOnce' BY <1>1, <1>4, <1>5, <1>6, <1>13 DEF Inv, KeysOnce
<1>10. WaysClosed' BY <1>4, <1>5, <1>6 DEF Inv, WaysClosed
<1>11. Searched' BY <1>13 DEF Searched
<1>12. Counted' BY <1>5, <1>6, <1>13 DEF Inv, Counted
<1> QED BY <1>2, <1>7, <1>8, <1>9, <1>10, <1>11, <1>12 DEF Inv, item

(* A put ends at a free slot, and nothing but filled slots is behind it. *)
LEMMA PutInsertInv ==
    ASSUME Inv, PutInsert
    PROVE  Inv'
<1> USE DEF PutInsert, Probing, End
<1>1. /\ t \in Tables /\ i \in Slots(t) /\ i \notin Filled(t)
      /\ arg \in Items /\ arg # NullItem /\ arg.key \in Keys
  BY DEF Inv, TypeOK, Here, Items, NullItem, NoKey, Filled
<1>2. /\ items' = [u \in Tables |-> items'[u]]
      /\ \A u \in Tables : items'[u] \in [Slots(u) -> Items \cup {NullItem}]
      /\ \A u \in Tables : \A s \in Slots(u) :
            items'[u][s] = IF u = t /\ s = i THEN arg ELSE items[u][s]
      /\ \A u \in Tables : u # t => Filled(u)' = Filled(u)
      /\ Filled(t)' = Filled(t) \cup {i}
  BY <1>1, SlotWritten DEF Inv
<1>3. \A u : ~Rehashing(u) /\ ~Rehashing(u)' BY DEF Rehashing
<1>4. \A u \in Tables : Filled(u) \subseteq Slots(u) BY DEF Filled
<1>5. TypeOK'
  <2>1. 0 \in Slots(t) BY <1>1, SlotsTypes DEF Slots
  <2>2. pairs' \in [Tables -> Int] BY DEF Inv, TypeOK
  <2> QED BY <1>2, <2>1, <2>2 DEF Inv, TypeOK
<1>6. Buffered' BY DEF Inv, Buffered
<1>7. KeysOnce'
  <2>1. \A s \in Filled(t) : items[t][s].key # arg.key BY AbsentBehindHole
  <2> SUFFICES ASSUME NEW u \in Tables, NEW s \in Filled(u)', NEW s2 \in Filled(u)',
                      items'[u][s2].key = items'[u][s].key
               PROVE  s2 = s
    BY <1>3 DEF KeysOnce
  <2>2. CASE u = t
    BY <1>1, <1>2, <1>4, <2>1, <2>2 DEF Inv, KeysOnce
  <2>3. CASE u # t
    BY <1>2, <1>4, <2>3 DEF Inv, KeysOnce
  <2> QED BY <2>2, <2>3
<1>8. WaysClosed'
  <2> SUFFICES ASSUME NEW u \in Tables, NEW s \in Filled(u)'
               PROVE  Passed(u, items'[u][s].key, s) \subseteq Filled(u)'
    BY DEF WaysClosed
  <2>1. CASE u = t /\ s = i
    BY <1>1, <1>2, <2>1 DEF Inv, Searched
  <2>2. CASE ~(u = t /\ s = i)
    <3>1. s \in Filled(u) /\ items'[u][s] = items[u][s] /\ Filled(u) \subseteq Filled(u)'
      BY <1>2, <1>4, <2>2
    <3> QED BY <1>3, <3>1, PlainWays DEF Inv
  <2> QED BY <2>1, <2>2
<1>9. Searched' BY DEF Searched
<1>10. Counted'
  <2>1. Cardinality(Filled(t) \cup {i}) = Cardinality(Filled(t)) + 1
    BY <1>1, FilledFinite, FS_AddElement
  <2> SUFFICES ASSUME NEW u \in Tables PROVE pairs'[u] = Cardinality(Filled(u)')
    BY <1>3, FilledFinite DEF Counted
  <2>2. pairs[u] = Cardinality(Filled(u)) BY <1>3, FilledFinite DEF Inv, Counted
  <2>3. pairs'[u] = IF u = t THEN pairs[u] + 1 ELSE pairs[u]
    BY DEF Inv, TypeOK
  <2> QED BY <1>1, <1>2, <2>1, <2>2, <2>3
<1> QED BY <1>5, <1>6, <1>7, <1>8, <1>9, <1>10 DEF Inv

(* A delete empties the slot of its key: a hole in the cluster, which the
   loop behind it begins to mend. *)
LEMMA DeleteFoundInv ==
    ASSUME Inv, DeleteFound
    PROVE  Inv'
<1> USE DEF DeleteFound, Probing
<1>1. /\ t \in Tables /\ i \in Slots(t) /\ i \in Filled(t)
      /\ items[t][i].key = arg.key /\ NextSlot(i) \in Slots(t)
  BY NextSlotValue DEF Inv, TypeOK, Here, Filled
<1>2. /\ items' = [u \in Tables |-> items'[u]]
      /\ \A u \in Tables : items'[u] \in [Slots(u) -> Items \cup {NullItem}]
      /\ \A u \in Tables : \A s \in Slots(u) :
            items'[u][s] = IF u = t /\ s = i THEN NullItem ELSE items[u][s]
      /\ \A u \in Tables : u # t => Filled(u)' = Filled(u)
      /\ Filled(t)' = Filled(t) \ {i}
  BY <1>1, SlotWritten DEF Inv
<1>3. \A u : ~Rehashing(u) /\ (Rehashing(u)' <=> u = t) BY DEF Rehashing
<1>4. \A u \in Tables : Filled(u) \subseteq Slots(u) /\ Filled(u)' \subseteq Filled(u)
  BY <1>1, <1>2 DEF Filled
<1>5. \A u \in Tables : \A s \in Filled(u)' : items'[u][s] = items[u][s]
  BY <1>1, <1>2, <1>4
<1>6. TypeOK' BY <1>1, <1>2 DEF Inv, TypeOK
<1>7. Buffered' BY DEF Inv, Buffered
<1>8. KeysOnce'
  <2>1. \A s \in Filled(t)' : items[t][s].key # arg.key
    BY <1>1, <1>2 DEF Inv, KeysOnce
  <2>2. \A u \in Tables : \A s, s2 \in Filled(u)' :
            items'[u][s2].key = items'[u][s].key => s2 = s
    BY <1>4, <1>5 DEF Inv, KeysOnce
  <2> QED BY <1>1, <1>5, <2>1, <2>2 DEF KeysOnce
<1>9. WaysClosed'
  <2> SUFFICES ASSUME NEW u \in Tables, NEW s \in Filled(u)',
                      ~(Passed(u, items'[u][s].key, s) \subseteq Filled(u)')
               PROVE  u = t /\ Stretch(t, NextSlot(i), s) \subseteq Filled(t)'
    BY <1>3 DEF WaysClosed, Frontier
  <2>1. s \in Filled(u) /\ items'[u][s] = items[u][s] /\ s \in Slots(u)
    BY <1>4, <1>5
  <2>2. Passed(u, items[u][s].key, s) \subseteq Filled(u)
    BY <1>3, <2>1, PlainWays DEF Inv
  <2>3. u = t /\ i \in Passed(t, items[t][s].key, s)
    BY <1>2, <2>1, <2>2
  <2>4. items[t][s].key \in Keys BY <2>1, <2>3, FilledHere DEF Inv
  <2>5. Stretch(t, NextSlot(i), s) \subseteq (Passed(t, items[t][s].key, s) \cup {s}) \ {i}
    BY <1>1, <2>1, <2>3, <2>4, StretchBehind
  <2> QED BY <1>2, <2>1, <2>2, <2>3, <2>5
<1>10. Searched' BY DEF Searched
<1>11. Counted'
  <2>1. Cardinality(Filled(t) \ {i}) = Cardinality(Filled(t)) - 1
    BY <1>1, FilledFinite, FS_RemoveElement
  <2> SUFFICES ASSUME NEW u \in Tables
               PROVE  pairs[u] = Cardinality(Filled(u)') + (IF u = t THEN 1 ELSE 0)
    BY <1>3 DEF Counted
  <2>2. pairs[u] = Cardinality(Filled(u)) /\ Cardinality(Filled(u)) \in Nat
    BY <1>3, FilledFinite DEF Inv, Counted
  <2>4. CASE u = t
    <3>1. Filled(u)' = Filled(t) \ {i} BY <1>2, <2>4
    <3>2. Cardinality(Filled(u)') = Cardinality(Filled(t)) - 1 BY <2>1, <3>1
    <3> QED BY <2>2, <2>4, <3>2
  <2>5. CASE u # t
     BY <1>1, <1>2, <2>1, <2>2, <2>5
  <2> QED BY <2>4, <2>5
<1> QED BY <1>6, <1>7, <1>8, <1>9, <1>10, <1>11 DEF Inv

(* The loop of delete takes the next pair of the cluster out. *)
LEMMA RehashTakeInv ==
    ASSUME Inv, RehashTake
    PROVE  Inv'
<1> USE DEF RehashTake
<1>1. /\ t \in Tables /\ i \in Slots(t) /\ i \in Filled(t) /\ ~misled
      /\ items[t][i] \in Items /\ items[t][i].key \in Keys /\ NextSlot(i) \in Slots(t)
  BY FilledHere, NextSlotValue DEF Inv, TypeOK, Buffered, Here, Filled
<1>2. /\ items' = [u \in Tables |-> items'[u]]
      /\ \A u \in Tables : items'[u] \in [Slots(u) -> Items \cup {NullItem}]
      /\ \A u \in Tables : \A s \in Slots(u) :
            items'[u][s] = IF u = t /\ s = i THEN NullItem ELSE items[u][s]
      /\ \A u \in Tables : u # t => Filled(u)' = Filled(u)
      /\ Filled(t)' = Filled(t) \ {i}
  BY <1>1, SlotWritten DEF Inv
<1>3. \A u : (Rehashing(u) <=> u = t) /\ (Rehashing(u)' <=> u = t) BY DEF Rehashing
<1>4. \A u \in Tables : Filled(u) \subseteq Slots(u) /\ Filled(u)' \subseteq Filled(u)
  BY <1>1, <1>2 DEF Filled
<1>5. \A u \in Tables : \A s \in Filled(u)' : items'[u][s] = items[u][s]
  BY <1>1, <1>2, <1>4
<1>6. /\ buffer'.key = items[t][i].key
      /\ buffer'.size \in Nat \ {0} /\ buffer'.hash = buffer'.key % buffer'.size
      /\ ~misled' /\ buffer'.size = Size[t] /\ j' = Home(t, items[t][i].key)
  <2>1. Hashed(items[t][i].key, Size[t]) /\ j' = HashCode(items[t][i].key, Size[t])
    BY DEF Here
  <2>2. Buffered /\ buffer.size = Size[t]
    BY <1>1 DEF Inv, Buffered
  <2> QED BY <1>1, <2>1, <2>2, HashedRight
<1>7. TypeOK'
  <2>1. j' \in Slots(t) BY <1>1, <1>6, HomeInside
  <2>2. pairs' \in [Tables -> Int] BY DEF Inv, TypeOK
  <2> QED BY <1>1, <1>2, <2>1, <2>2 DEF Inv, TypeOK, Here
<1>8. Buffered' BY <1>1, <1>6 DEF Buffered
<1>9. KeysOnce'
  <2>1. \A s \in Filled(t)' : /\ items[t][s].key # items[t][i].key
                              /\ items[t][s].key # arg.key
    BY <1>1, <1>2, <1>3 DEF Inv, KeysOnce
  <2>2. \A u \in Tables : \A s, s2 \in Filled(u)' :
            items'[u][s2].key = items'[u][s].key => s2 = s
    BY <1>4, <1>5 DEF Inv, KeysOnce
  <2>3. items[t][i].key # arg.key /\ moving' = items[t][i]
    BY <1>1, <1>3 DEF Inv, KeysOnce, Here
  <2>4. IsNull(Here)' BY <1>1, <1>2 DEF IsNull, Here
  <2> QED BY <1>1, <1>5, <2>1, <2>2, <2>3, <2>4 DEF KeysOnce
<1>10. WaysClosed'
  <2> SUFFICES ASSUME NEW u \in Tables, NEW s \in Filled(u)',
                      ~(Passed(u, items'[u][s].key, s) \subseteq Filled(u)')
               PROVE  u = t /\ Stretch(t, NextSlot(i), s) \subseteq Filled(t)'
    BY <1>3 DEF WaysClosed, Frontier, NextSlot
  <2>1. s \in Filled(u) /\ items'[u][s] = items[u][s] /\ s \in Slots(u)
    BY <1>4, <1>5
  <2>2. \/ Passed(u, items[u][s].key, s) \subseteq Filled(u)
        \/ u = t /\ Stretch(t, i, s) \subseteq Filled(t)
    BY <1>3, <2>1 DEF Inv, WaysClosed, Frontier
  <2>3. CASE Passed(u, items[u][s].key, s) \subseteq Filled(u)
    <3>1. u = t /\ i \in Passed(t, items[t][s].key, s)
      BY <1>2, <2>1, <2>3
    <3>2. items[t][s].key \in Keys BY <2>1, <3>1, FilledHere DEF Inv
    <3>3. Stretch(t, NextSlot(i), s) \subseteq (Passed(t, items[t][s].key, s) \cup {s}) \ {i}
      BY <1>1, <2>1, <3>1, <3>2, StretchBehind
    <3> QED BY <1>2, <2>1, <2>3, <3>1, <3>3
  <2>4. CASE u = t /\ Stretch(t, i, s) \subseteq Filled(t)
    <3>1. s # i BY <1>2, <2>4
    <3>2. Stretch(t, NextSlot(i), s) \subseteq Stretch(t, i, s) \ {i}
      BY <1>1, <2>1, <2>4, <3>1, StretchNext
    <3> QED BY <1>2, <2>4, <3>2
  <2> QED BY <2>2, <2>3, <2>4
<1>11. Searched'
  <2>1. Passed(t, items[t][i].key, j') = {} BY <1>1, <1>6, PassedNext
  <2> QED BY <2>1 DEF Searched, Here
<1>12. Counted'
  <2>1. Cardinality(Filled(t) \ {i}) = Cardinality(Filled(t)) - 1
    BY <1>1, FilledFinite, FS_RemoveElement
  <2> SUFFICES ASSUME NEW u \in Tables
               PROVE  pairs'[u] = Cardinality(Filled(u)') + (IF u = t THEN 1 ELSE 0)
    BY <1>3 DEF Counted
  <2>2. /\ pairs[u] = Cardinality(Filled(u)) + (IF u = t THEN 1 ELSE 0)
        /\ Cardinality(Filled(u)) \in Nat
    BY <1>3, FilledFinite DEF Inv, Counted
  <2>3. pairs'[u] = IF u = t THEN pairs[u] - 1 ELSE pairs[u]
    BY DEF Inv, TypeOK
  <2>4. CASE u = t
    <3>1. Filled(u)' = Filled(t) \ {i} BY <1>2, <2>4
    <3>2. Cardinality(Filled(u)') = Cardinality(Filled(t)) - 1 BY <2>1, <3>1
    <3> QED BY <2>2, <2>3, <2>4, <3>2
  <2>5. CASE u # t
     BY <1>1, <1>2, <2>1, <2>2, <2>3, <2>5
  <2> QED BY <2>4, <2>5
<1> QED BY <1>7, <1>8, <1>9, <1>10, <1>11, <1>12 DEF Inv

(* The probe that puts it back passes a filled slot. *)
LEMMA ReputStepInv ==
    ASSUME Inv, ReputStep
    PROVE  Inv'
<1> USE DEF ReputStep
<1>1. /\ t \in Tables /\ i \in Slots(t) /\ j \in Slots(t) /\ moving.key \in Keys
      /\ j \in Filled(t)
  BY DEF Inv, TypeOK, Buffered, Filled, Items
<1>2. \A u : Filled(u)' = Filled(u) BY DEF Filled, IsNull
<1>3. \A u : Rehashing(u)' <=> Rehashing(u) BY DEF Rehashing
<1>4. TypeOK' BY <1>1, NextSlotValue DEF Inv, TypeOK
<1>5. Buffered' BY DEF Inv, Buffered
<1>6. KeysOnce' BY <1>2, <1>3 DEF Inv, KeysOnce, IsNull, Here
<1>7. WaysClosed' BY <1>2, <1>3 DEF Inv, WaysClosed, Frontier, NextSlot
<1>8. Searched'
  <2>1. Passed(t, moving.key, j') \subseteq Passed(t, moving.key, j) \cup {j}
    BY <1>1, PassedNext
  <2>2. Passed(t, moving.key, j) \subseteq Filled(t) BY DEF Inv, Searched
  <2> QED BY <1>1, <1>2, <2>1, <2>2 DEF Searched
<1>9. Counted' BY <1>2, <1>3 DEF Inv, Counted
<1> QED BY <1>4, <1>5, <1>6, <1>7, <1>8, <1>9 DEF Inv

(* The pair is put back, at its old place or into the hole. *)
LEMMA ReputEndInv ==
    ASSUME Inv, ReputEnd
    PROVE  Inv'
<1> USE DEF ReputEnd
<1>1. /\ t \in Tables /\ i \in Slots(t) /\ j \in Slots(t) /\ j \notin Filled(t)
      /\ moving \in Items /\ moving # NullItem /\ moving.key \in Keys
      /\ NextSlot(i) \in Slots(t)
  BY NextSlotValue DEF Inv, TypeOK, Buffered, Filled, Items, NullItem, NoKey
<1>2. /\ items' = [u \in Tables |-> items'[u]]
      /\ \A u \in Tables : items'[u] \in [Slots(u) -> Items \cup {NullItem}]
      /\ \A u \in Tables : \A s \in Slots(u) :
            items'[u][s] = IF u = t /\ s = j THEN moving ELSE items[u][s]
      /\ \A u \in Tables : u # t => Filled(u)' = Filled(u)
      /\ Filled(t)' = Filled(t) \cup {j}
  BY <1>1, SlotWritten DEF Inv
<1>3. \A u : (Rehashing(u) <=> u = t) /\ (Rehashing(u)' <=> u = t) BY DEF Rehashing
<1>4. \A u \in Tables : Filled(u) \subseteq Slots(u) BY DEF Filled
<1>5. TypeOK'
  <2>1. pairs' \in [Tables -> Int] BY DEF Inv, TypeOK
  <2> QED BY <1>1, <1>2, <2>1 DEF Inv, TypeOK
<1>6. Buffered' BY DEF Inv, Buffered
<1>7. \A s \in Filled(t) : items[t][s].key # moving.key /\ items[t][s].key # arg.key
  BY <1>3 DEF Inv, KeysOnce
<1>8. KeysOnce'
  <2>1. ASSUME NEW u \in Tables, NEW s \in Filled(u)', NEW s2 \in Filled(u)',
               items'[u][s2].key = items'[u][s].key
        PROVE  s2 = s
    <3>1. CASE u = t
      BY <1>1, <1>2, <1>4, <1>7, <2>1, <3>1 DEF Inv, KeysOnce
    <3>2. CASE u # t
      BY <1>2, <1>4, <2>1, <3>2 DEF Inv, KeysOnce
    <3> QED BY <3>1, <3>2
  <2>2. moving.key # arg.key BY DEF Inv, KeysOnce
  <2>3. \A s \in Filled(t)' : items'[t][s].key # arg.key
    BY <1>1, <1>2, <1>4, <1>7, <2>2
  <2> QED BY <2>1, <2>3 DEF KeysOnce
<1>9. WaysClosed'
  <2> SUFFICES ASSUME NEW u \in Tables, NEW s \in Filled(u)'
               PROVE  \/ Passed(u, items'[u][s].key, s) \subseteq Filled(u)'
                      \/ u = t /\ Stretch(t, NextSlot(i), s) \subseteq Filled(t)'
    BY <1>3 DEF WaysClosed, Frontier
  <2>1. CASE u = t /\ s = j
    BY <1>1, <1>2, <2>1 DEF Inv, Searched
  <2>2. CASE ~(u = t /\ s = j)
    <3>1. s \in Filled(u) /\ items'[u][s] = items[u][s]
          /\ Filled(u) \subseteq Filled(u)' /\ Filled(t) \subseteq Filled(t)'
      BY <1>1, <1>2, <1>4, <2>2
    <3>2. \/ Passed(u, items[u][s].key, s) \subseteq Filled(u)
          \/ u = t /\ Stretch(t, NextSlot(i), s) \subseteq Filled(t)
      BY <1>3, <3>1 DEF Inv, WaysClosed, Frontier
    <3> QED BY <3>1, <3>2
  <2> QED BY <2>1, <2>2
<1>10. Searched' BY DEF Searched
<1>11. Counted'
  <2>1. Cardinality(Filled(t) \cup {j}) = Cardinality(Filled(t)) + 1
    BY <1>1, FilledFinite, FS_AddElement
  <2> SUFFICES ASSUME NEW u \in Tables
               PROVE  pairs'[u] = Cardinality(Filled(u)') + (IF u = t THEN 1 ELSE 0)
    BY <1>3 DEF Counted
  <2>2. /\ pairs[u] = Cardinality(Filled(u)) + (IF u = t THEN 1 ELSE 0)
        /\ Cardinality(Filled(u)) \in Nat
    BY <1>3, FilledFinite DEF Inv, Counted
  <2>3. pairs'[u] = IF u = t THEN pairs[u] + 1 ELSE pairs[u]
    BY DEF Inv, TypeOK
  <2> QED BY <1>1, <1>2, <2>1, <2>2, <2>3
<1> QED BY <1>5, <1>6, <1>8, <1>9, <1>10, <1>11 DEF Inv

(* The loop of delete ends at a free slot: no hole is left. *)
LEMMA DeleteEndInv ==
    ASSUME Inv, DeleteEnd
    PROVE  Inv'
<1> USE DEF DeleteEnd, End
<1>1. t \in Tables /\ i \in Slots(t) /\ i \notin Filled(t)
  BY DEF Inv, TypeOK, Buffered, Here, Filled
<1>2. \A u : Filled(u)' = Filled(u) BY DEF Filled, IsNull
<1>3. \A u : (Rehashing(u) <=> u = t) /\ ~Rehashing(u)' BY DEF Rehashing
<1>4. TypeOK'
  <2>1. 0 \in Slots(t) BY <1>1, SlotsTypes DEF Slots
  <2>2. pairs' \in [Tables -> Int] BY DEF Inv, TypeOK
  <2> QED BY <2>1, <2>2 DEF Inv, TypeOK
<1>5. Buffered' BY DEF Inv, Buffered
<1>6. KeysOnce' BY <1>1, <1>2, <1>3 DEF Inv, KeysOnce
<1>7. WaysClosed'
  <2> SUFFICES ASSUME NEW u \in Tables, NEW s \in Filled(u)
               PROVE  Passed(u, items[u][s].key, s) \subseteq Filled(u)
    BY <1>2 DEF WaysClosed
  <2>1. CASE Passed(u, items[u][s].key, s) \subseteq Filled(u) BY <2>1
  <2>2. CASE u = t /\ Stretch(t, i, s) \subseteq Filled(t)
    <3>1. s \in Slots(t) /\ s # i BY <1>1, <2>2 DEF Filled
    <3> QED BY <1>1, <2>2, <3>1, StretchNext
  <2> QED BY <1>3, <2>1, <2>2 DEF Inv, WaysClosed, Frontier
<1>8. Searched' BY DEF Searched
<1>9. Counted'
  <2> SUFFICES ASSUME NEW u \in Tables
               PROVE  pairs'[u] = Cardinality(Filled(u))
    BY <1>2, <1>3, FilledFinite DEF Counted
  <2>1. /\ pairs[u] = Cardinality(Filled(u)) + (IF u = t THEN 1 ELSE 0)
        /\ Cardinality(Filled(u)) \in Nat
    BY <1>3, FilledFinite DEF Inv, Counted
  <2>2. pairs'[u] = IF u = t THEN pairs[u] - 1 ELSE pairs[u]
    BY DEF Inv, TypeOK
  <2> QED BY <2>1, <2>2
<1> QED BY <1>4, <1>5, <1>6, <1>7, <1>8, <1>9 DEF Inv

(* A table is cleared. *)
LEMMA ResetInv ==
    ASSUME Inv, NEW w \in Tables, Reset(w)
    PROVE  Inv'
<1> USE DEF Reset
<1>1. t \in Tables /\ ~misled BY DEF Inv, TypeOK, Buffered
<1>2. /\ items' = [u \in Tables |-> items'[u]]
      /\ items'[w] = [s \in Slots(w) |-> NullItem]
      /\ \A u \in Tables : u # w => items'[u] = items[u]
      /\ \A u \in Tables : items'[u] \in [Slots(u) -> Items \cup {NullItem}]
  BY DEF Inv, TypeOK
<1>3. Filled(w)' = {} /\ \A u \in Tables : u # w => Filled(u)' = Filled(u)
  BY <1>2 DEF Filled, IsNull
<1>4. \A u : ~Rehashing(u) /\ ~Rehashing(u)' BY DEF Rehashing
<1>5. TypeOK' BY <1>2 DEF Inv, TypeOK
<1>6. Buffered' BY DEF Inv, Buffered
<1>7. KeysOnce' BY <1>2, <1>3, <1>4 DEF Inv, KeysOnce
<1>8. WaysClosed' BY <1>2, <1>3, <1>4 DEF Inv, WaysClosed
<1>9. Searched' BY DEF Searched
<1>10. Counted'
  <2> SUFFICES ASSUME NEW u \in Tables
               PROVE  pairs'[u] = Cardinality(Filled(u)')
    BY <1>4, FilledFinite DEF Counted
  <2>1. pairs[u] = Cardinality(Filled(u))
    BY <1>4, FilledFinite DEF Inv, Counted
  <2>2. pairs'[u] = IF u = w THEN 0 ELSE pairs[u]
    BY DEF Inv, TypeOK
  <2> QED BY <1>3, <2>1, <2>2, FS_EmptySet
<1> QED BY <1>5, <1>6, <1>7, <1>8, <1>9, <1>10 DEF Inv

(* Every step of every operation preserves the inductive invariant. *)
LEMMA NextInv == Inv /\ [Next]_vars => Inv'
<1> SUFFICES ASSUME Inv, [Next]_vars PROVE Inv'
  OBVIOUS
<1>1. CASE UNCHANGED vars
  BY <1>1 DEF vars, Inv, TypeOK, Buffered, KeysOnce, WaysClosed, Searched, Counted,
              Filled, IsNull, Rehashing, Frontier, NextSlot, Here
<1>2. ASSUME NEW u \in Tables, NEW key \in Keys, Get(u, key) \/ Delete(u, key)
      PROVE  Inv'
  <2>1. [key |-> key, value |-> 0] \in [key : Keys, value : Vals \cup {0}]
    OBVIOUS
  <2> QED BY <1>2, <2>1, BeginInv DEF Get, Delete
<1>3. ASSUME NEW u \in Tables, NEW item \in Items, Put(u, item)
      PROVE  Inv'
  <2>1. item \in [key : Keys, value : Vals \cup {0}]
    BY DEF Items
  <2> QED BY <1>3, <2>1, BeginInv DEF Put
<1>4. CASE Work
  BY <1>4, ProbeStepInv, EndInv, PutOverwriteInv, PutInsertInv, DeleteFoundInv,
     RehashTakeInv, ReputStepInv, ReputEndInv, DeleteEndInv DEF Work
<1>5. CASE Abandoned BY <1>1, <1>5 DEF Abandoned
<1> QED BY <1>1, <1>2, <1>3, <1>4, <1>5, ResetInv DEF Next

(* The inductive invariant holds in every reachable state. *)
THEOREM Invariance == Spec => []Inv
<1> QED BY InitInv, NextInv, PTL DEF Spec

(* Between the calls no probe meets an empty slot before its key, a key stands
   once, and pairs is the number of pairs: for tables of all sizes. *)
THEOREM ClustersStaySound == Spec => []ClustersSound
<1>1. Inv => ClustersSound
  <2> SUFFICES ASSUME Inv, pc = "idle" PROVE ClustersSound
    BY DEF ClustersSound, ClustersClosed, PairsCounted
  <2>1. \A u : ~Rehashing(u) BY DEF Rehashing
  <2>2. ClustersClosed
    BY <2>1, PlainWays DEF ClustersClosed, Inv, KeysOnce
  <2>3. PairsCounted
    BY <2>1, FilledFinite DEF PairsCounted, Inv, Counted
  <2> QED BY <2>2, <2>3 DEF ClustersSound
<1> QED BY <1>1, Invariance, PTL
-----------------------------------------------------------------------------
(* Key has value v in table u: a slot holds the pair, or it moves. *)
Stands(u, key, v) ==
    \/ \E s \in Filled(u) : items[u][s].key = key /\ items[u][s].value = v
    \/ u = t /\ pc = "reput" /\ moving.key = key /\ moving.value = v

(* The dictionary is what stands in the tables. *)
DictRight ==
    \A u \in Tables : \A key \in Keys :
        /\ \A v : Stands(u, key, v) => Dict[<<u, key>>] = v
        /\ (\A v : ~Stands(u, key, v)) => Dict[<<u, key>>] = NoValue

(* Dict is the one map that the pairs of the tables describe. *)
LEMMA DictIsRight == Inv => DictRight
<1> SUFFICES ASSUME Inv, NEW u \in Tables, NEW key \in Keys
             PROVE  /\ \A v : Stands(u, key, v) => Dict[<<u, key>>] = v
                    /\ (\A v : ~Stands(u, key, v)) => Dict[<<u, key>>] = NoValue
  BY DEF DictRight
<1> DEFINE present == {items[u][s] : s \in Slots(u)} \cup IF u = t THEN {moving} ELSE {}
<1>1. Dict[<<u, key>>] = IF \E item \in present : item.key = key
                           THEN (CHOOSE item \in present : item.key = key).value
                           ELSE NoValue
  BY DEF Dict, ValueOf
<1>2. NullItem.key # key BY DEF NullItem, NoKey
<1>3. ASSUME NEW item \in present, item.key = key
      PROVE  Stands(u, key, item.value)
  <2>1. CASE item \in {items[u][s] : s \in Slots(u)}
    BY <1>2, <1>3, <2>1 DEF Filled, IsNull, Stands
  <2>2. CASE u = t /\ item = moving
    BY <1>2, <1>3, <2>2 DEF Inv, TypeOK, Stands
  <2> QED BY <2>1, <2>2
<1>4. ASSUME NEW v, Stands(u, key, v)
      PROVE  \E item \in present : item.key = key /\ item.value = v
  BY <1>4 DEF Stands, Filled
<1>5. ASSUME NEW v, Stands(u, key, v), NEW w, Stands(u, key, w)
      PROVE  v = w
  <2>1. CASE u = t /\ pc = "reput" /\ moving.key = key
    BY <1>5, <2>1 DEF Stands, Inv, KeysOnce
  <2>2. CASE ~(u = t /\ pc = "reput" /\ moving.key = key)
    <3>1. PICK s \in Filled(u) : items[u][s].key = key /\ items[u][s].value = v
      BY <1>5, <2>2 DEF Stands
    <3>2. PICK s2 \in Filled(u) : items[u][s2].key = key /\ items[u][s2].value = w
      BY <1>5, <2>2 DEF Stands
    <3> QED BY <3>1, <3>2 DEF Inv, KeysOnce
  <2> QED BY <2>1, <2>2
<1> HIDE DEF present
<1>6. ASSUME NEW v, Stands(u, key, v) PROVE Dict[<<u, key>>] = v
  <2> DEFINE chosen == CHOOSE item \in present : item.key = key
  <2>1. \E item \in present : item.key = key BY <1>4, <1>6
  <2>2. chosen \in present /\ chosen.key = key BY <2>1
  <2>3. Stands(u, key, chosen.value) BY <1>3, <2>2
  <2>4. chosen.value = v BY <1>5, <1>6, <2>3
  <2> QED BY <1>1, <2>1, <2>4
<1>7. ASSUME \A v : ~Stands(u, key, v) PROVE Dict[<<u, key>>] = NoValue
  BY <1>1, <1>3, <1>7
<1> QED BY <1>6, <1>7

(* A key whose pair stands or not as before keeps its value. *)
LEMMA SameValue ==
    ASSUME DictRight, DictRight', NEW u \in Tables, NEW key \in Keys,
           \A v : Stands(u, key, v)' <=> Stands(u, key, v)
    PROVE  Dict'[<<u, key>>] = Dict[<<u, key>>]
<1>1. CASE \E v : Stands(u, key, v)
  BY <1>1 DEF DictRight
<1>2. CASE \A v : ~Stands(u, key, v)
  BY <1>2 DEF DictRight
<1> QED BY <1>1, <1>2

(* The map is the same if every key stands for the same value. *)
LEMMA SameDict ==
    ASSUME DictRight, DictRight',
           \A u \in Tables : \A key \in Keys : \A v :
               Stands(u, key, v)' <=> Stands(u, key, v)
    PROVE  Dict' = Dict
<1>1. \A u \in Tables : \A key \in Keys : Dict'[<<u, key>>] = Dict[<<u, key>>]
  BY SameValue
<1> QED BY <1>1, Zenon DEF Dict

(* The steps that find no pair and place none change no dictionary. *)
LEMMA DictKept ==
    ASSUME Inv, DictRight, DictRight',
           \/ pc = "idle" /\ pc' = "probe" /\ [Next]_vars
           \/ ProbeStep \/ GetEnd \/ DeleteAbsent
           \/ RehashTake \/ ReputStep \/ ReputEnd \/ DeleteEnd
    PROVE  Dict' = Dict
<1>1. CASE \/ pc = "idle" /\ pc' = "probe" /\ [Next]_vars
           \/ ProbeStep \/ GetEnd \/ DeleteAbsent \/ DeleteEnd
  <2>1. UNCHANGED items /\ pc # "reput" /\ pc' # "reput"
    BY <1>1 DEF Next, Get, Put, Delete, Begin, Reset, Work, ProbeStep, GetEnd, DeleteAbsent,
                DeleteEnd, DeleteFound, PutOverwrite, PutInsert, RehashTake, ReputStep,
                ReputEnd, Abandoned, End, Probing, vars
  <2>2. \A u \in Tables : Filled(u)' = Filled(u) BY <2>1 DEF Filled, IsNull
  <2> QED BY <2>1, <2>2, SameDict DEF Stands
<1>2. CASE ReputStep
  <2>1. \A u \in Tables : Filled(u)' = Filled(u) BY <1>2 DEF ReputStep, Filled, IsNull
  <2> QED BY <1>2, <2>1, SameDict DEF Stands, ReputStep
<1>3. CASE RehashTake
  <2>1. /\ i \in Slots(t) /\ i \in Filled(t) /\ t \in Tables /\ ~misled
    BY <1>3 DEF Inv, TypeOK, Buffered, Filled, Here, RehashTake
  <2>2. /\ \A u \in Tables : \A s \in Slots(u) :
              items'[u][s] = IF u = t /\ s = i THEN NullItem ELSE items[u][s]
        /\ \A u \in Tables : u # t => Filled(u)' = Filled(u)
        /\ Filled(t)' = Filled(t) \ {i}
    BY <1>3, <2>1, SlotWritten DEF RehashTake, Inv
  <2>3. \A u \in Tables : Filled(u) \subseteq Slots(u) BY DEF Filled
  <2>4. moving' = items[t][i] /\ pc' = "reput" /\ pc = "rehash" /\ t' = t
    BY <1>3 DEF RehashTake, Here
  <2>5. ASSUME NEW u \in Tables, NEW key \in Keys, NEW v
        PROVE  Stands(u, key, v)' <=> Stands(u, key, v)
    <3>1. CASE u = t BY <2>1, <2>2, <2>3, <2>4, <3>1 DEF Stands
    <3>2. CASE u # t BY <2>2, <2>3, <2>4, <3>2 DEF Stands
    <3> QED BY <3>1, <3>2
  <2> QED BY <2>5, SameDict
<1>4. CASE ReputEnd
  <2>1. /\ j \in Slots(t) /\ j \notin Filled(t) /\ t \in Tables
        /\ moving \in Items /\ moving # NullItem
    BY <1>4 DEF Inv, TypeOK, Filled, ReputEnd, Items, NullItem, NoKey
  <2>2. /\ \A u \in Tables : \A s \in Slots(u) :
              items'[u][s] = IF u = t /\ s = j THEN moving ELSE items[u][s]
        /\ \A u \in Tables : u # t => Filled(u)' = Filled(u)
        /\ Filled(t)' = Filled(t) \cup {j}
    BY <1>4, <2>1, SlotWritten DEF ReputEnd, Inv
  <2>3. \A u \in Tables : Filled(u) \subseteq Slots(u) BY DEF Filled
  <2>4. pc = "reput" /\ pc' = "rehash" /\ t' = t
    BY <1>4 DEF ReputEnd
  <2>5. ASSUME NEW u \in Tables, NEW key \in Keys, NEW v
        PROVE  Stands(u, key, v)' <=> Stands(u, key, v)
    <3>1. CASE u = t BY <2>1, <2>2, <2>3, <2>4, <3>1 DEF Stands
    <3>2. CASE u # t BY <2>2, <2>3, <2>4, <3>2 DEF Stands
    <3> QED BY <3>1, <3>2
  <2> QED BY <2>5, SameDict
<1> QED BY <1>1, <1>2, <1>3, <1>4

(* A search that ends returns the value of its key, or finds none. *)
LEMMA SearchEnds ==
    ASSUME Inv, DictRight, Probing
    PROVE  /\ t \in Tables /\ i \in Slots(t) /\ arg.key \in Keys
           /\ IsNull(Here) => /\ i \notin Filled(t)
                              /\ \A v : ~Stands(t, arg.key, v)
                              /\ Dict[<<t, arg.key>>] = NoValue
           /\ ~IsNull(Here) /\ Here.key = arg.key =>
                 /\ i \in Filled(t)
                 /\ Stands(t, arg.key, Here.value)
                 /\ Dict[<<t, arg.key>>] = Here.value
<1>1. t \in Tables /\ i \in Slots(t) /\ arg.key \in Keys /\ pc = "probe" /\ ~misled
      /\ (i \in Filled(t) <=> ~IsNull(Here))
  BY DEF Probing, Inv, TypeOK, Filled, Here
<1>2. ASSUME IsNull(Here), NEW v PROVE ~Stands(t, arg.key, v)
  BY <1>1, <1>2, AbsentBehindHole DEF Stands
<1>3. ~IsNull(Here) /\ Here.key = arg.key => Stands(t, arg.key, Here.value)
  BY <1>1 DEF Stands, Here
<1> QED BY <1>1, <1>2, <1>3 DEF DictRight

(* A put that ends has put. *)
LEMMA PutRight ==
    ASSUME Inv, DictRight, DictRight', PutOverwrite \/ PutInsert
    PROVE  D!Put(<<t, arg.key>>, arg.value)
<1>1. /\ Probing /\ got' = NoValue /\ t' = t /\ pc' = "idle" /\ pc = "probe"
      /\ (IsNull(Here) \/ Here.key = arg.key)
  BY DEF PutOverwrite, PutInsert, End, Probing
<1>2. t \in Tables /\ i \in Slots(t) /\ arg.key \in Keys
  BY <1>1, SearchEnds
<1>3. arg \in Items /\ arg # NullItem /\ arg = [key |-> arg.key, value |-> arg.value]
  BY DEF Inv, TypeOK, PutOverwrite, PutInsert, Items, NullItem, NoKey
<1>4. items' = [items EXCEPT ![t][i] = arg]
  BY <1>3, PutOverwriteInv DEF PutInsert
<1>5. /\ \A u \in Tables : \A s \in Slots(u) :
            items'[u][s] = IF u = t /\ s = i THEN arg ELSE items[u][s]
      /\ \A u \in Tables : u # t => Filled(u)' = Filled(u)
      /\ Filled(t)' = Filled(t) \cup {i}
  BY <1>1, <1>2, <1>3, <1>4, SlotWritten DEF Inv
<1>6. \A u \in Tables : Filled(u) \subseteq Slots(u) BY DEF Filled
<1>7. Dict'[<<t, arg.key>>] = arg.value
  <2>1. i \in Filled(t)' /\ items'[t][i] = arg BY <1>2, <1>5
  <2>2. ASSUME NEW key \in Keys, key = arg.key, NEW v, v = arg.value
        PROVE  Dict'[<<t, key>>] = v
    <3>1. Stands(t, key, v)' BY <1>1, <2>1, <2>2 DEF Stands
    <3> QED BY <1>1, <1>2, <3>1 DEF DictRight
  <2> QED BY <1>2, <2>2
<1>8. ASSUME NEW u \in Tables, NEW key \in Keys, <<u, key>> # <<t, arg.key>>
      PROVE  Dict'[<<u, key>>] = Dict[<<u, key>>]
  <2>1. ASSUME NEW v PROVE Stands(u, key, v)' <=> Stands(u, key, v)
    <3>1. CASE u # t BY <1>1, <1>5, <1>6, <3>1 DEF Stands
    <3>2. CASE u = t /\ key # arg.key
      <4>1. i \in Filled(t) => items[t][i].key = arg.key
        BY <1>1, <1>2 DEF Here, Filled
      <4> QED BY <1>1, <1>2, <1>5, <1>6, <3>2, <4>1 DEF Stands
    <3> QED BY <1>8, <3>1, <3>2
  <2> QED BY <2>1, SameValue
<1>9. Dict' = [Dict EXCEPT ![<<t, arg.key>>] = arg.value]
  <2>1. ASSUME NEW x \in Tables \X Keys
        PROVE  Dict'[x] = IF x = <<t, arg.key>> THEN arg.value ELSE Dict[x]
    <3>1. PICK u \in Tables, key \in Keys : x = <<u, key>> OBVIOUS
    <3> QED BY <1>7, <1>8, <3>1
  <2>2. Dict = [x \in Tables \X Keys |-> Dict[x]] /\ Dict' = [x \in Tables \X Keys |-> Dict'[x]]
    BY DEF Dict
  <2> QED BY <2>1, <2>2
<1> QED BY <1>1, <1>9 DEF D!Put

(* A delete that has found its key, or none, has deleted. *)
LEMMA DeleteRight ==
    ASSUME Inv, DictRight, DictRight', DeleteAbsent \/ DeleteFound
    PROVE  D!Delete(<<t, arg.key>>)
<1>1. /\ Probing /\ got' = NoValue /\ t' = t /\ pc' # "reput" /\ pc = "probe"
  BY DEF DeleteAbsent, DeleteFound, End, Probing
<1>2. t \in Tables /\ i \in Slots(t) /\ arg.key \in Keys
  BY <1>1, SearchEnds
<1>3. Dict = [x \in Tables \X Keys |-> Dict[x]] /\ Dict' = [x \in Tables \X Keys |-> Dict'[x]]
  BY DEF Dict
<1>4. CASE DeleteAbsent
  <2>1. Dict' = Dict BY <1>4, DictKept
  <2>2. Dict[<<t, arg.key>>] = NoValue BY <1>1, <1>4, SearchEnds DEF DeleteAbsent
  <2>3. Dict' = [Dict EXCEPT ![<<t, arg.key>>] = NoValue]
    BY <1>2, <1>3, <2>1, <2>2
  <2> QED BY <1>1, <2>3 DEF D!Delete
<1>5. CASE DeleteFound
  <2>1. /\ \A u \in Tables : \A s \in Slots(u) :
              items'[u][s] = IF u = t /\ s = i THEN NullItem ELSE items[u][s]
        /\ \A u \in Tables : u # t => Filled(u)' = Filled(u)
        /\ Filled(t)' = Filled(t) \ {i}
    BY <1>2, <1>5, SlotWritten DEF DeleteFound, Inv
  <2>2. \A u \in Tables : Filled(u) \subseteq Slots(u) BY DEF Filled
  <2>3. i \in Filled(t) /\ items[t][i].key = arg.key
    BY <1>2, <1>5 DEF DeleteFound, Here, Filled
  <2>4. Dict'[<<t, arg.key>>] = NoValue
    <3>1. ASSUME NEW s \in Filled(t)' PROVE items'[t][s].key # arg.key
      BY <1>2, <2>1, <2>2, <2>3 DEF Inv, KeysOnce
    <3>2. ASSUME NEW key \in Keys, key = arg.key
          PROVE  Dict'[<<t, key>>] = NoValue
      <4>1. \A v : ~Stands(t, key, v)' BY <1>1, <3>1, <3>2 DEF Stands
      <4> QED BY <1>1, <1>2, <4>1 DEF DictRight
    <3> QED BY <1>2, <3>2
  <2>5. ASSUME NEW u \in Tables, NEW key \in Keys, <<u, key>> # <<t, arg.key>>
        PROVE  Dict'[<<u, key>>] = Dict[<<u, key>>]
    <3>1. ASSUME NEW v PROVE Stands(u, key, v)' <=> Stands(u, key, v)
      <4>1. CASE u # t BY <1>1, <2>1, <2>2, <4>1 DEF Stands
      <4>2. CASE u = t /\ key # arg.key
        BY <1>1, <1>2, <2>1, <2>2, <2>3, <4>2 DEF Stands
      <4> QED BY <2>5, <4>1, <4>2
    <3> QED BY <3>1, SameValue
  <2>6. Dict' = [Dict EXCEPT ![<<t, arg.key>>] = NoValue]
    <3>1. ASSUME NEW x \in Tables \X Keys
          PROVE  Dict'[x] = IF x = <<t, arg.key>> THEN NoValue ELSE Dict[x]
      <4>1. PICK u \in Tables, key \in Keys : x = <<u, key>> OBVIOUS
      <4> QED BY <2>4, <2>5, <4>1
    <3> QED BY <1>3, <3>1
  <2> QED BY <1>1, <2>6 DEF D!Delete
<1> QED BY <1>4, <1>5

(* Clearing a table removes its keys and no others. *)
LEMMA ClearRight ==
    ASSUME Inv, DictRight, DictRight', NEW w \in Tables, Reset(w)
    PROVE  D!Clear({w} \X Keys)
<1>1. /\ pc = "idle" /\ pc' = "idle" /\ got' = NoValue /\ t' = t
      /\ items'[w] = [s \in Slots(w) |-> NullItem]
      /\ \A u \in Tables : u # w => items'[u] = items[u]
  BY DEF Reset, Inv, TypeOK
<1>2. Filled(w)' = {} /\ \A u \in Tables : u # w => Filled(u)' = Filled(u)
  BY <1>1 DEF Filled, IsNull
<1>3. \A key \in Keys : Dict'[<<w, key>>] = NoValue
  <2>1. \A key, v : ~Stands(w, key, v)' BY <1>1, <1>2 DEF Stands
  <2> QED BY <2>1 DEF DictRight
<1>4. ASSUME NEW u \in Tables, NEW key \in Keys, u # w
      PROVE  Dict'[<<u, key>>] = Dict[<<u, key>>]
  <2>1. \A v : Stands(u, key, v)' <=> Stands(u, key, v) BY <1>1, <1>2, <1>4 DEF Stands
  <2> QED BY <2>1, SameValue
<1>5. Dict' = [x \in Tables \X Keys |-> IF x \in {w} \X Keys THEN NoValue ELSE Dict[x]]
  <2>1. ASSUME NEW x \in Tables \X Keys
        PROVE  Dict'[x] = IF x \in {w} \X Keys THEN NoValue ELSE Dict[x]
    <3>1. PICK u \in Tables, key \in Keys : x = <<u, key>> OBVIOUS
    <3>2. x \in {w} \X Keys <=> u = w BY <3>1
    <3> QED BY <1>3, <1>4, <3>1, <3>2
  <2>2. Dict' = [x \in Tables \X Keys |-> Dict'[x]] BY DEF Dict
  <2> QED BY <2>1, <2>2
<1> QED BY <1>1, <1>5 DEF D!Clear

(* Empty tables are the empty dictionary. *)
LEMMA InitDict == Init => D!Init
<1> SUFFICES ASSUME Init PROVE D!Init
  OBVIOUS
<1>1. ASSUME NEW u \in Tables, NEW key \in Keys PROVE Dict[<<u, key>>] = NoValue
  <2>1. \A v : ~Stands(u, key, v) BY DEF Init, Stands, Filled, IsNull
  <2> QED BY <2>1, InitInv, DictIsRight DEF DictRight
<1>2. Dict = [x \in Tables \X Keys |-> NoValue]
  <2>1. ASSUME NEW x \in Tables \X Keys PROVE Dict[x] = NoValue
    <3>1. PICK u \in Tables, key \in Keys : x = <<u, key>> OBVIOUS
    <3> QED BY <1>1, <3>1
  <2>2. Dict = [x \in Tables \X Keys |-> Dict[x]] BY DEF Dict
  <2> QED BY <2>1, <2>2
<1> QED BY <1>2 DEF D!Init, Init

(* Each step does to the dictionary of its table what the call says. *)
LEMMA StepDict ==
    ASSUME Inv, DictRight, DictRight', [Next]_vars
    PROVE  /\ pc = "idle" /\ pc' = "probe" => UNCHANGED D!dvars
           /\ GetEnd => D!Get(<<t, arg.key>>)
           /\ PutOverwrite \/ PutInsert => D!Put(<<t, arg.key>>, arg.value)
           /\ DeleteAbsent \/ DeleteFound => D!Delete(<<t, arg.key>>)
           /\ ProbeStep \/ RehashTake \/ ReputStep \/ ReputEnd \/ DeleteEnd => UNCHANGED D!dvars
           /\ \A u \in Tables : Reset(u) => D!Clear({u} \X Keys)
<1>1. pc = "idle" /\ pc' = "probe" => UNCHANGED D!dvars
  <2> SUFFICES ASSUME pc = "idle", pc' = "probe" PROVE UNCHANGED D!dvars
    OBVIOUS
  <2>1. got' = got
    BY DEF Next, Get, Put, Delete, Begin, Reset, Work, ProbeStep, GetEnd, DeleteAbsent,
           DeleteEnd, DeleteFound, PutOverwrite, PutInsert, RehashTake, ReputStep,
           ReputEnd, Abandoned, Probing, vars
  <2> QED BY <2>1, DictKept DEF D!dvars
<1>2. GetEnd => D!Get(<<t, arg.key>>)
  BY DictKept, SearchEnds DEF GetEnd, D!Get
<1>3. ProbeStep \/ RehashTake \/ ReputStep \/ ReputEnd \/ DeleteEnd => UNCHANGED D!dvars
  <2>1. ProbeStep \/ RehashTake \/ ReputStep \/ ReputEnd \/ DeleteEnd => got' = got
    BY DEF ProbeStep, RehashTake, ReputStep, ReputEnd, DeleteEnd
  <2> QED BY <2>1, DictKept DEF D!dvars
<1> QED BY <1>1, <1>2, <1>3, PutRight, DeleteRight, ClearRight

(* Every table is a dictionary of its own, whatever the sizes: put, get and
   delete change and read the value of their own key in their own table, and
   the rehashing of a cluster is not seen. *)
THEOREM TablesAreDictionaries == Spec => ImplementsDictionaries
<1>1. Init => D!Init BY InitDict
<1>2. [](Inv => DictRight) BY DictIsRight, PTL
<1> DEFINE step ==
        /\ pc = "idle" /\ pc' = "probe" => UNCHANGED D!dvars
        /\ GetEnd => D!Get(<<t, arg.key>>)
        /\ PutOverwrite \/ PutInsert => D!Put(<<t, arg.key>>, arg.value)
        /\ DeleteAbsent \/ DeleteFound => D!Delete(<<t, arg.key>>)
        /\ ProbeStep \/ RehashTake \/ ReputStep \/ ReputEnd \/ DeleteEnd => UNCHANGED D!dvars
        /\ \A u \in Tables : Reset(u) => D!Clear({u} \X Keys)
<1>3. Inv /\ DictRight /\ DictRight' /\ [Next]_vars => [step]_vars
  BY StepDict
<1> QED BY <1>1, <1>2, <1>3, Invariance, PTL DEF Spec, ImplementsDictionaries

(* The tables together implement the abstract dictionary. *)
THEOREM ImplementsDictionarySpec == Spec => D!Spec
<1>1. Init => D!Init BY InitDict
<1>2. [](Inv => DictRight) BY DictIsRight, PTL
<1>3. Inv /\ DictRight /\ DictRight' /\ [Next]_vars => [D!Next]_D!dvars
  <2> SUFFICES ASSUME Inv, DictRight, DictRight', [Next]_vars
               PROVE  [D!Next]_D!dvars
    OBVIOUS
  <2>1. CASE UNCHANGED vars
    <3>1. \A u \in Tables : Filled(u)' = Filled(u) BY <2>1 DEF Filled, IsNull, vars
    <3>2. Dict' = Dict BY <2>1, <3>1, SameDict DEF Stands, vars
    <3> QED BY <2>1, <3>2 DEF D!dvars, vars
  <2>2. CASE Abandoned BY <2>1, <2>2 DEF Abandoned
  <2>3. ASSUME NEW u \in Tables, Reset(u) PROVE D!Next
    BY <2>3, StepDict DEF D!Next
  <2>4. ASSUME NEW o, NEW u, NEW item, Begin(o, u, item) PROVE UNCHANGED D!dvars
    BY <2>4, StepDict DEF Begin
  <2>5. ASSUME Probing PROVE <<t, arg.key>> \in Tables \X Keys
    BY <2>5, SearchEnds
  <2>6. CASE GetEnd \/ DeleteAbsent \/ DeleteFound
    <3>1. Probing BY <2>6 DEF GetEnd, DeleteAbsent, DeleteFound
    <3> QED BY <2>5, <2>6, <3>1, StepDict DEF D!Next
  <2>7. CASE PutOverwrite \/ PutInsert
    <3>1. Probing /\ op = "put" BY <2>7 DEF PutOverwrite, PutInsert
    <3>2. arg.value \in Vals BY <3>1 DEF Inv, TypeOK, Items
    <3> QED BY <2>5, <2>7, <3>1, <3>2, StepDict DEF D!Next
  <2>8. CASE ProbeStep \/ RehashTake \/ ReputStep \/ ReputEnd \/ DeleteEnd
    BY <2>8, StepDict
  <2> QED
    BY <2>1, <2>2, <2>3, <2>4, <2>6, <2>7, <2>8 DEF Next, Work, Get, Put, Delete
<1> QED BY <1>1, <1>2, <1>3, Invariance, PTL DEF Spec, D!Spec
=============================================================================
