------------------------ MODULE SeparateChainingProofs ------------------------
(***************************************************************************)
(* Proofs about the sequential list and the chained hash tables, for every *)
(* number of tables of every size and for every set of keys: each list     *)
(* holds the keys of its slot once, the counter is the number of pairs,    *)
(* and the tables are dictionaries of their own, although they share the   *)
(* buffer of the last hash.                                                *)
(***************************************************************************)
EXTENDS SeparateChaining, FiniteSetTheorems, TLAPS

(* A set of numbers up to a bound has a greatest one. *)
LEMMA GreatestBounded ==
    ASSUME NEW M \in Nat, NEW B, B \subseteq 0 .. M, B # {}
    PROVE  \E x \in B : \A y \in B : y <= x
<1> DEFINE T == {x .. M : x \in B}
<1>1. T \subseteq FiniteSubsetsOf(Nat)
  <2> SUFFICES ASSUME NEW x \in B PROVE x .. M \in FiniteSubsetsOf(Nat)
    OBVIOUS
  <2>1. x \in Int /\ M \in Int OBVIOUS
  <2>2. IsFiniteSet(x .. M) BY <2>1, FS_Interval, Zenon
  <2>3. x .. M \subseteq Nat OBVIOUS
  <2> QED BY <2>2, <2>3 DEF FiniteSubsetsOf
<1>2. IsWellFoundedOn(StrictSubsetOrdering(Nat), FiniteSubsetsOf(Nat))
  BY FS_StrictSubsetOrderingWellFounded
<1>3. T # {} OBVIOUS
<1>4. PICK least \in T : \A other \in T : <<other, least>> \notin StrictSubsetOrdering(Nat)
  <2> HIDE DEF T
  <2> QED BY <1>1, <1>2, <1>3, WFMin, Zenon
<1>5. PICK x \in B : least = x .. M OBVIOUS
<1>6. ASSUME NEW y \in B, x < y PROVE FALSE
  <2>1. y .. M \in T OBVIOUS
  <2>2. y .. M \subseteq x .. M /\ y .. M # x .. M
    <3>1. x \in x .. M /\ x \notin y .. M BY <1>6
    <3> QED BY <3>1, <1>6
  <2>3. y .. M \in SUBSET Nat /\ x .. M \in SUBSET Nat OBVIOUS
  <2>4. <<y .. M, x .. M>> \in StrictSubsetOrdering(Nat)
    BY <2>2, <2>3, Zenon DEF StrictSubsetOrdering
  <2> QED BY <2>1, <2>4, <1>4, <1>5
<1> QED BY <1>6
-----------------------------------------------------------------------------
(* The sequential list. *)

(* A list holds a key once. *)
Once(list) ==
    /\ list \in Seq(Items)
    /\ \A m, n \in 1 .. Len(list) : list[m].key = list[n].key => m = n

Has(list, key) == \E n \in 1 .. Len(list) : list[n].key = key

(* seqlist_get returns the pair with the key, or none. *)
LEMMA GetFinds ==
    ASSUME NEW list, Once(list), NEW key, NEW none
    PROVE  /\ ~Has(list, key) => SLGet(list, key, none) = none
           /\ \A n \in 1 .. Len(list) : list[n].key = key => SLGet(list, key, none) = list[n]
<1> DEFINE found == {n \in 1 .. Len(list) : list[n].key = key}
<1>1. SLGet(list, key, none) = IF found = {} THEN none
                               ELSE list[CHOOSE n \in found : \A m \in found : n <= m]
  BY DEF SLGet
<1>2. ~Has(list, key) => found = {} BY DEF Has
<1>3. ASSUME NEW n \in 1 .. Len(list), list[n].key = key
      PROVE  SLGet(list, key, none) = list[n]
  <2>1. found = {n} BY <1>3 DEF Once
  <2>2. n <= n BY DEF Once
  <2>3. \E x \in found : \A m \in found : x <= m BY <2>1, <2>2
  <2>4. (CHOOSE x \in found : \A m \in found : x <= m) = n BY <2>1, <2>3
  <2> HIDE DEF found
  <2> QED BY <1>1, <2>1, <2>4
<1> QED BY <1>1, <1>2, <1>3

(* What a call that finds nothing returns is told from every pair. *)
LEMMA GetTells ==
    ASSUME NEW list, Once(list), NEW key \in Keys
    PROVE  /\ SLGet(list, key, NoItem) = NoItem <=> ~Has(list, key)
           /\ Has(list, key) => SLGet(list, key, NoItem).value \in Vals
           /\ ~Has(list, key) => SLGet(list, key, NoItem).value = NoValue
<1>1. \A n \in 1 .. Len(list) : list[n] \in Items /\ list[n] # NoItem
  <2>1. \A item \in Items : item # NoItem /\ item.value \in Vals
      BY ValsAssumption DEF Items, NoItem
  <2> QED BY <2>1 DEF Once
<1>2. \A n \in 1 .. Len(list) : list[n].value \in Vals BY <1>1 DEF Items
<1>3. NoItem.value = NoValue BY DEF NoItem, NoValue
<1> QED BY <1>1, <1>2, <1>3, GetFinds DEF Has

(* seqlist_put of a key that the list does not have. *)
LEMMA PutAdds ==
    ASSUME NEW list, Once(list), NEW item \in Items, ~Has(list, item.key)
    PROVE  /\ Once(SLPut(list, item))
           /\ Len(SLPut(list, item)) = Len(list) + 1
           /\ SLGet(SLPut(list, item), item.key, NoItem) = item
           /\ \A key \in Keys : key # item.key =>
                 SLGet(SLPut(list, item), key, NoItem) = SLGet(list, key, NoItem)
           /\ \A n \in 1 .. Len(list) + 1 :
                 SLPut(list, item)[n] = IF n = 1 THEN item ELSE list[n - 1]
<1> DEFINE new == SLPut(list, item)
<1>1. /\ list \in Seq(Items) /\ new \in Seq(Items) /\ Len(new) = Len(list) + 1
      /\ Len(list) \in Nat
      /\ \A n \in 1 .. Len(list) + 1 : new[n] = IF n = 1 THEN item ELSE list[n - 1]
  BY DEF Once, SLPut
<1> HIDE DEF new
<1>2. Once(new)
  <2> SUFFICES ASSUME NEW m \in 1 .. Len(new), NEW n \in 1 .. Len(new),
                      new[m].key = new[n].key
               PROVE  m = n
    BY <1>1 DEF Once
  <2>1. \A x \in 1 .. Len(new) : x # 1 =>
           /\ x - 1 \in 1 .. Len(list)
           /\ new[x] = list[x - 1]
           /\ list[x - 1].key # item.key
    BY <1>1 DEF Has
  <2>2. new[1] = item BY <1>1
  <2>3. CASE m = 1 \/ n = 1 BY <2>1, <2>2, <2>3
  <2>4. CASE m # 1 /\ n # 1
    <3>1. m - 1 = n - 1 BY <2>1, <2>4 DEF Once
    <3> QED BY <3>1, <1>1
  <2> QED BY <2>3, <2>4
<1>3. SLGet(new, item.key, NoItem) = item
  <2>1. 1 \in 1 .. Len(new) /\ new[1] = item BY <1>1
  <2> QED BY <1>2, <2>1, GetFinds
<1>4. ASSUME NEW key \in Keys, key # item.key
      PROVE  SLGet(new, key, NoItem) = SLGet(list, key, NoItem)
  <2>1. CASE Has(list, key)
    <3>1. PICK n \in 1 .. Len(list) : list[n].key = key BY <2>1 DEF Has
    <3>2. n + 1 \in 1 .. Len(new) /\ new[n + 1] = list[n]
      <4>1. (n + 1) - 1 = n /\ n + 1 # 1 /\ n + 1 \in 1 .. Len(list) + 1 BY <1>1
      <4> QED BY <1>1, <4>1
    <3> QED BY <1>2, <3>1, <3>2, GetFinds
  <2>2. CASE ~Has(list, key)
    <3>1. ~Has(new, key)
      <4> SUFFICES ASSUME NEW n \in 1 .. Len(new) PROVE new[n].key # key
        BY DEF Has
      <4>1. CASE n = 1 BY <1>1, <1>4, <4>1
      <4>2. CASE n # 1
        <5>1. n - 1 \in 1 .. Len(list) BY <1>1, <4>2
        <5> QED BY <1>1, <2>2, <4>2, <5>1 DEF Has
      <4> QED BY <4>1, <4>2
    <3> QED BY <1>2, <2>2, <3>1, GetFinds
  <2> QED BY <2>1, <2>2
<1> QED BY <1>1, <1>2, <1>3, <1>4 DEF new

(* seqlist_change gives the key its value and no other. *)
LEMMA ChangeChanges ==
    ASSUME NEW list, Once(list), NEW item \in Items, Has(list, item.key)
    PROVE  /\ Once(SLChange(list, item.key, item.value))
           /\ Len(SLChange(list, item.key, item.value)) = Len(list)
           /\ SLGet(SLChange(list, item.key, item.value), item.key, NoItem).value = item.value
           /\ \A key \in Keys : key # item.key =>
                 SLGet(SLChange(list, item.key, item.value), key, NoItem)
                     = SLGet(list, key, NoItem)
           /\ \A n \in 1 .. Len(list) :
                 SLChange(list, item.key, item.value)[n].key = list[n].key
<1> DEFINE new == SLChange(list, item.key, item.value)
<1>1. /\ list \in Seq(Items) /\ Len(list) \in Nat
      /\ \A n \in 1 .. Len(list) : list[n] \in Items
      /\ item.key \in Keys /\ item.value \in Vals
  <2>1. item.key \in Keys /\ item.value \in Vals BY DEF Items
  <2> QED BY <2>1 DEF Once
<1>2. \A n \in 1 .. Len(list) :
         /\ list[n].key = item.key => new[n] = [list[n] EXCEPT !.value = item.value]
         /\ list[n].key # item.key => new[n] = list[n]
  BY DEF SLChange
<1>3. \A x \in Items : /\ [x EXCEPT !.value = item.value] \in Items
                       /\ [x EXCEPT !.value = item.value].key = x.key
                       /\ [x EXCEPT !.value = item.value].value = item.value
  BY <1>1 DEF Items
<1>4. \A n \in 1 .. Len(list) :
         /\ new[n] \in Items /\ new[n].key = list[n].key
         /\ list[n].key = item.key => new[n].value = item.value
  <2> HIDE DEF new
  <2> TAKE n \in 1 .. Len(list)
  <2>1. CASE list[n].key = item.key
    <3>1. new[n] = [list[n] EXCEPT !.value = item.value] BY <1>2, <2>1
    <3> QED BY <1>1, <1>3, <3>1
  <2>2. CASE list[n].key # item.key BY <1>1, <1>2, <2>2
  <2> QED BY <2>1, <2>2
<1>5. new \in Seq(Items) /\ Len(new) = Len(list)
  <2>1. new \in [1 .. Len(list) -> Items]
    <3>1. new = [n \in 1 .. Len(list) |-> new[n]] BY DEF SLChange
    <3> HIDE DEF new
    <3> QED BY <1>4, <3>1
  <2> HIDE DEF new
  <2> QED BY <1>1, <2>1
<1> HIDE DEF new
<1>6. Once(new) BY <1>4, <1>5 DEF Once
<1>7. SLGet(new, item.key, NoItem).value = item.value
  <2>1. PICK n \in 1 .. Len(list) : list[n].key = item.key BY DEF Has
  <2>2. SLGet(new, item.key, NoItem) = new[n] BY <1>4, <1>5, <1>6, <2>1, GetFinds
  <2> QED BY <1>4, <2>1, <2>2
<1>8. ASSUME NEW key \in Keys, key # item.key
      PROVE  SLGet(new, key, NoItem) = SLGet(list, key, NoItem)
  <2>1. CASE Has(list, key)
    <3>1. PICK n \in 1 .. Len(list) : list[n].key = key BY <2>1 DEF Has
    <3>2. n \in 1 .. Len(new) /\ new[n] = list[n] BY <1>2, <1>5, <1>8, <3>1
    <3> QED BY <1>6, <3>1, <3>2, GetFinds
  <2>2. CASE ~Has(list, key)
    <3>1. ~Has(new, key) BY <1>4, <1>5, <2>2 DEF Has
    <3> QED BY <1>6, <2>2, <3>1, GetFinds
  <2> QED BY <2>1, <2>2
<1> QED BY <1>4, <1>5, <1>6, <1>7, <1>8 DEF new

(* Lists are the same if they have the same pairs at the same positions. *)
LEMMA SameList ==
    ASSUME NEW s \in Seq(Items), NEW t \in Seq(Items), Len(s) = Len(t),
           \A n \in 1 .. Len(s) : s[n] = t[n]
    PROVE  s = t
OBVIOUS

(* What seqlist_delete leaves of the list from node n on, f[m] being what it
   leaves from a later node m on. *)
Behind(list, key, f, n) ==
    CASE n > Len(list) -> <<>>
      [] n <= Len(list) /\ list[n].key = key ->
            (IF n < Len(list) THEN <<list[n + 1]>> ELSE <<>>) \o f[n + 2]
      [] OTHER -> <<list[n]>> \o f[n + 1]

(* The list from node n on without node p. *)
Without(list, p, n) ==
    [m \in 1 .. (IF n <= p THEN Len(list) - n ELSE Len(list) + 1 - n) |->
        IF n <= p /\ p < n + m THEN list[n + m] ELSE list[n + m - 1]]

(* Node p is the one with the key, or p is 0 and no node has it. *)
Only(list, key, p) ==
    /\ p \in 0 .. Len(list)
    /\ \A n \in 1 .. Len(list) : list[n].key = key <=> n = p

WithoutRight(list, p, n, w) ==
    /\ w \in Seq(Items)
    /\ n <= p => Len(w) = Len(list) - n
    /\ n > p /\ n <= Len(list) => Len(w) = Len(list) + 1 - n
    /\ n > Len(list) => w = <<>>
    /\ n <= p => \A m \in 1 .. Len(list) - n :
          w[m] = IF p < n + m THEN list[n + m] ELSE list[n + m - 1]
    /\ n > p => \A m \in 1 .. Len(list) + 1 - n : w[m] = list[n + m - 1]

LEMMA WithoutTypes ==
    ASSUME NEW list \in Seq(Items), NEW p \in 0 .. Len(list), NEW n \in 1 .. Len(list) + 2
    PROVE  WithoutRight(list, p, n, Without(list, p, n))
<1> DEFINE size == IF n <= p THEN Len(list) - n ELSE Len(list) + 1 - n
           node(m) == IF n <= p /\ p < n + m THEN list[n + m] ELSE list[n + m - 1]
<1>1. Without(list, p, n) = [m \in 1 .. size |-> node(m)] BY DEF Without
<1>2. /\ Len(list) \in Nat /\ n \in Nat /\ p \in Nat
      /\ n <= p => size = Len(list) - n /\ size \in Nat
      /\ n > p /\ n <= Len(list) => size = Len(list) + 1 - n /\ size \in Nat
      /\ n > Len(list) => 1 .. size = {} /\ n > p
  OBVIOUS
<1>3. \A m \in 1 .. size : node(m) \in Items
  <2> SUFFICES ASSUME NEW m \in 1 .. size PROVE node(m) \in Items
    OBVIOUS
  <2>1. \A x \in 1 .. Len(list) : list[x] \in Items OBVIOUS
  <2>2. CASE n <= p /\ p < n + m
    <3>1. n + m \in 1 .. Len(list) BY <2>2
    <3> QED BY <2>1, <2>2, <3>1
  <2>3. CASE ~(n <= p /\ p < n + m)
    <3>1. n + m - 1 \in 1 .. Len(list) BY <2>3
    <3> QED BY <2>1, <2>3, <3>1
  <2> QED BY <2>2, <2>3
<1> USE DEF WithoutRight
<1>4. CASE n > Len(list)
  <2>1. 1 .. size = {} /\ n > p /\ 1 .. Len(list) + 1 - n = {} BY <1>2, <1>4
  <2>2. Without(list, p, n) = <<>>
    <3> HIDE DEF size, node
    <3> QED BY <1>1, <2>1
  <2> QED BY <1>2, <1>4, <2>1, <2>2
<1>5. CASE n <= Len(list)
  <2>1. size \in Nat BY <1>2, <1>5
  <2> HIDE DEF size, node
  <2>2. /\ Without(list, p, n) \in Seq(Items)
        /\ Len(Without(list, p, n)) = size
        /\ \A m \in 1 .. size : Without(list, p, n)[m] = node(m)
    BY <1>1, <1>3, <2>1
  <2> QED BY <1>2, <1>5, <2>2 DEF size, node
<1> QED BY <1>2, <1>4, <1>5

BehindRight(list, key, f, n, left) ==
    /\ n > Len(list) => left = <<>>
    /\ n <= Len(list) /\ list[n].key = key =>
          left = (IF n < Len(list) THEN <<list[n + 1]>> ELSE <<>>) \o f[n + 2]
    /\ n <= Len(list) /\ list[n].key # key => left = <<list[n]>> \o f[n + 1]

LEMMA BehindCases ==
    ASSUME NEW list \in Seq(Items), NEW key, NEW f, NEW n \in Nat
    PROVE  BehindRight(list, key, f, n, Behind(list, key, f, n))
<1>1. n <= Len(list) <=> ~(n > Len(list)) OBVIOUS
<1>2. n > Len(list) => Behind(list, key, f, n) = <<>>
  BY <1>1, Zenon DEF Behind
<1>3. ASSUME n <= Len(list), list[n].key = key
      PROVE  Behind(list, key, f, n)
                 = (IF n < Len(list) THEN <<list[n + 1]>> ELSE <<>>) \o f[n + 2]
  BY <1>1, <1>3, Zenon DEF Behind
<1>4. ASSUME n <= Len(list), list[n].key # key
      PROVE  Behind(list, key, f, n) = <<list[n]>> \o f[n + 1]
  BY <1>1, <1>4, Zenon DEF Behind
<1> QED BY <1>2, <1>3, <1>4, Zenon DEF BehindRight

(* The list without node p is what the walk of seqlist_delete leaves. *)
LEMMA WithoutBehind ==
    ASSUME NEW list \in Seq(Items), NEW key, NEW p, Only(list, key, p),
           NEW n \in 1 .. Len(list) + 2, NEW f,
           n <= Len(list) => /\ f[n + 1] = Without(list, p, n + 1)
                             /\ f[n + 2] = Without(list, p, n + 2)
    PROVE  Behind(list, key, f, n) = Without(list, p, n)
<1> DEFINE W(m) == Without(list, p, m)
           L == Len(list)
<1>0. /\ n > L => Behind(list, key, f, n) = <<>>
      /\ n <= L /\ list[n].key = key =>
            Behind(list, key, f, n) = (IF n < L THEN <<list[n + 1]>> ELSE <<>>) \o f[n + 2]
      /\ n <= L /\ list[n].key # key =>
            Behind(list, key, f, n) = <<list[n]>> \o f[n + 1]
  <2>1. n \in Nat OBVIOUS
  <2>2. BehindRight(list, key, f, n, Behind(list, key, f, n)) BY <2>1, BehindCases
  <2> QED BY <2>2, Zenon DEF BehindRight
<1>1. p \in 0 .. L /\ L \in Nat BY DEF Only
<1>2. CASE n > L
  <2>1. Behind(list, key, f, n) = <<>> BY <1>0, <1>2
  <2> QED BY <1>1, <1>2, <2>1, WithoutTypes DEF WithoutRight
<1>3. CASE n <= L /\ list[n].key = key
  <2>1. n = p /\ n \in 1 .. L BY <1>3 DEF Only
  <2>2. Behind(list, key, f, n) = (IF n < L THEN <<list[n + 1]>> ELSE <<>>) \o W(n + 2)
    BY <1>0, <1>3
  <2>3. W(n) \in Seq(Items) /\ Len(W(n)) = L - n
        /\ \A m \in 1 .. L - n : W(n)[m] = IF p < n + m THEN list[n + m] ELSE list[n + m - 1]
    <3>1. WithoutRight(list, p, n, W(n)) BY <1>1, <2>1, WithoutTypes
    <3> HIDE DEF W
    <3> QED BY <1>1, <2>1, <3>1 DEF WithoutRight
  <2>4. n + 2 \in 1 .. L + 2 /\ n + 2 > p BY <1>1, <2>1
  <2>5. /\ W(n + 2) \in Seq(Items)
        /\ n + 2 <= L => Len(W(n + 2)) = L + 1 - (n + 2)
        /\ n + 2 > L => W(n + 2) = <<>>
        /\ \A m \in 1 .. L + 1 - (n + 2) : W(n + 2)[m] = list[(n + 2) + m - 1]
    <3>1. WithoutRight(list, p, n + 2, W(n + 2)) BY <1>1, <2>4, WithoutTypes
    <3> HIDE DEF W
    <3> QED BY <2>4, <3>1 DEF WithoutRight
  <2> HIDE DEF W, L
  <2>6. CASE n = L
    <3>1. W(n) = <<>> BY <1>1, <2>1, <2>3, <2>6
    <3>2. W(n + 2) = <<>> BY <1>1, <2>5, <2>6
    <3> QED BY <2>2, <2>6, <3>1, <3>2 DEF W
  <2>7. CASE n < L
    <3> DEFINE r == <<list[n + 1]>> \o W(n + 2)
    <3>1. list[n + 1] \in Items
      <4>1. n + 1 \in 1 .. Len(list) BY <1>1, <2>1, <2>7 DEF L
      <4> QED BY <4>1
    <3>2. Len(W(n + 2)) = L - n - 1
      <4>1. CASE n + 2 <= L BY <1>1, <2>1, <2>5, <4>1
      <4>2. CASE n + 2 > L
        <5>1. n + 1 = L BY <1>1, <2>1, <2>7, <4>2
        <5> QED BY <1>1, <2>1, <2>5, <4>2, <5>1
      <4> QED BY <1>1, <2>1, <4>1, <4>2
    <3>3. r \in Seq(Items) /\ Len(r) = L - n
          /\ \A m \in 1 .. L - n : r[m] = IF m = 1 THEN list[n + 1] ELSE W(n + 2)[m - 1]
      BY <1>1, <2>1, <2>5, <2>7, <3>1, <3>2
    <3>4. ASSUME NEW m \in 1 .. Len(r) PROVE r[m] = W(n)[m]
      <4>1. W(n)[m] = list[n + m] BY <1>1, <2>1, <2>3, <3>3
      <4>2. CASE m = 1 BY <3>3, <4>1, <4>2
      <4>3. CASE m # 1
        <5>1. m \in 2 .. L - n BY <1>1, <2>1, <3>3, <4>3
        <5>2. m - 1 \in 1 .. L + 1 - (n + 2) /\ (n + 2) + (m - 1) - 1 = n + m
          BY <1>1, <2>1, <5>1
        <5>3. W(n + 2)[m - 1] = list[n + m] BY <2>5, <5>2
        <5> QED BY <1>1, <2>1, <3>3, <4>1, <5>1, <5>3
      <4> QED BY <4>2, <4>3
    <3> HIDE DEF r
    <3>5. r = W(n) BY <2>3, <3>3, <3>4, SameList
    <3> QED BY <2>2, <2>7, <3>5 DEF W, r
  <2> QED BY <1>1, <2>1, <2>6, <2>7
<1>4. CASE n <= L /\ list[n].key # key
  <2>1. n # p /\ n \in 1 .. L BY <1>4 DEF Only
  <2>2. Behind(list, key, f, n) = <<list[n]>> \o W(n + 1)
    BY <1>0, <1>4
  <2>3. n + 1 \in 1 .. L + 2 /\ n \in 1 .. L + 2 BY <1>1, <2>1
  <2>4. /\ W(n) \in Seq(Items)
        /\ n <= p => Len(W(n)) = L - n
        /\ n > p => Len(W(n)) = L + 1 - n
        /\ n <= p => \A m \in 1 .. L - n :
              W(n)[m] = IF p < n + m THEN list[n + m] ELSE list[n + m - 1]
        /\ n > p => \A m \in 1 .. L + 1 - n : W(n)[m] = list[n + m - 1]
    <3>1. WithoutRight(list, p, n, W(n)) BY <1>1, <2>3, WithoutTypes
    <3> HIDE DEF W
    <3> QED BY <2>1, <3>1 DEF WithoutRight
  <2>5. /\ W(n + 1) \in Seq(Items)
        /\ n + 1 <= p => Len(W(n + 1)) = L - (n + 1)
        /\ n + 1 > p /\ n + 1 <= L => Len(W(n + 1)) = L + 1 - (n + 1)
        /\ n + 1 > L => W(n + 1) = <<>>
        /\ n + 1 <= p => \A m \in 1 .. L - (n + 1) :
              W(n + 1)[m] = IF p < (n + 1) + m THEN list[(n + 1) + m] ELSE list[(n + 1) + m - 1]
        /\ n + 1 > p => \A m \in 1 .. L + 1 - (n + 1) : W(n + 1)[m] = list[(n + 1) + m - 1]
    <3>1. WithoutRight(list, p, n + 1, W(n + 1)) BY <1>1, <2>3, WithoutTypes
    <3> HIDE DEF W
    <3> QED BY <3>1 DEF WithoutRight
  <2> DEFINE r == <<list[n]>> \o W(n + 1)
  <2>6. list[n] \in Items BY <2>1
  <2> HIDE DEF W, L
  <2>7. /\ n <= p => n + 1 <= p /\ Len(W(n + 1)) = L - n - 1
        /\ n > p => n + 1 > p /\ Len(W(n + 1)) = L - n
    <3>1. CASE n <= p
      <4>1. n + 1 <= p BY <1>1, <2>1, <3>1
      <4> QED BY <1>1, <2>1, <2>5, <3>1, <4>1
    <3>2. CASE n > p /\ n < L
      <4>1. n + 1 > p /\ n + 1 <= L BY <1>1, <2>1, <3>2
      <4> QED BY <1>1, <2>1, <2>5, <3>2, <4>1
    <3>3. CASE n > p /\ n = L
      <4>1. n + 1 > p /\ n + 1 > L BY <1>1, <2>1, <3>3
      <4> QED BY <1>1, <2>1, <2>5, <3>3, <4>1
    <3> QED BY <1>1, <2>1, <3>1, <3>2, <3>3
  <2>8. /\ r \in Seq(Items) /\ Len(r) = Len(W(n + 1)) + 1
        /\ \A m \in 1 .. Len(r) : r[m] = IF m = 1 THEN list[n] ELSE W(n + 1)[m - 1]
    BY <2>5, <2>6
  <2> HIDE DEF r
  <2>9. Len(r) = Len(W(n)) /\ Len(r) = IF n <= p THEN L - n ELSE L + 1 - n
    BY <1>1, <2>1, <2>4, <2>7, <2>8
  <2>10. ASSUME NEW m \in 1 .. Len(r) PROVE r[m] = W(n)[m]
    <3>1. CASE m = 1
      <4>1. r[m] = list[n] BY <2>8, <3>1
      <4>2. n + m - 1 = n /\ n + m = n + 1 /\ (n <= p => p >= n + 1) BY <1>1, <2>1, <3>1
      <4> QED BY <1>1, <2>1, <2>4, <2>9, <4>1, <4>2
    <3>2. CASE m # 1 /\ n <= p
      <4>1. m \in 2 .. L - n BY <1>1, <2>1, <2>9, <3>2
      <4>2. /\ m - 1 \in 1 .. L - (n + 1) /\ m \in 1 .. L - n
            /\ (n + 1) + (m - 1) = n + m /\ n + 1 <= p
        BY <1>1, <2>1, <3>2, <4>1
      <4>3. W(n + 1)[m - 1] = IF p < n + m THEN list[n + m] ELSE list[n + m - 1]
        BY <2>5, <4>2
      <4>4. W(n)[m] = IF p < n + m THEN list[n + m] ELSE list[n + m - 1]
        BY <2>4, <3>2, <4>2
      <4> QED BY <2>8, <3>2, <4>3, <4>4
    <3>3. CASE m # 1 /\ n > p
      <4>1. m \in 2 .. L + 1 - n BY <1>1, <2>1, <2>9, <3>3
      <4>2. /\ m - 1 \in 1 .. L + 1 - (n + 1) /\ m \in 1 .. L + 1 - n
            /\ (n + 1) + (m - 1) - 1 = n + m - 1 /\ n + 1 > p
        BY <1>1, <2>1, <3>3, <4>1
      <4>3. W(n + 1)[m - 1] = list[n + m - 1] BY <2>5, <4>2
      <4>4. W(n)[m] = list[n + m - 1] BY <2>4, <3>3, <4>2
      <4> QED BY <2>8, <3>3, <4>3, <4>4
    <3> QED BY <1>1, <2>1, <3>1, <3>2, <3>3
  <2>11. r = W(n) BY <2>4, <2>8, <2>9, <2>10, SameList
  <2> QED BY <2>2, <2>11 DEF W, r
<1> QED BY <1>1, <1>2, <1>3, <1>4

(* seqlist_delete unlinks the node with the key and no other. *)
LEMMA DeleteUnlinks ==
    ASSUME NEW list \in Seq(Items), NEW key, NEW p, Only(list, key, p)
    PROVE  list # <<>> => SLDelete(list, key) = Without(list, p, 1)
<1> DEFINE L == Len(list)
           D0 == 1 .. L + 2
           behind == CHOOSE f : f = [n \in D0 |-> Behind(list, key, f, n)]
           h == [n \in D0 |-> Without(list, p, n)]
<1> SUFFICES ASSUME list # <<>> PROVE SLDelete(list, key) = Without(list, p, 1)
  OBVIOUS
<1>1. L \in Nat /\ L >= 1 /\ p \in 0 .. L BY DEF Only
<1>2. SLDelete(list, key) = CASE list = <<>> -> <<>>
                              [] list # <<>> /\ list[1].key = key -> Tail(list)
                              [] OTHER -> <<list[1]>> \o behind[2]
  BY Zenon DEF SLDelete, Behind
<1>3. h = [n \in D0 |-> Behind(list, key, h, n)]
  <2> SUFFICES ASSUME NEW n \in D0 PROVE Without(list, p, n) = Behind(list, key, h, n)
    OBVIOUS
  <2>1. n <= L => /\ h[n + 1] = Without(list, p, n + 1)
                  /\ h[n + 2] = Without(list, p, n + 2)
    <3> SUFFICES ASSUME n <= L PROVE n + 1 \in D0 /\ n + 2 \in D0
      OBVIOUS
    <3> QED BY <1>1
  <2> HIDE DEF h
  <2> QED BY <2>1, WithoutBehind
<1>4. behind = [n \in D0 |-> Behind(list, key, behind, n)]
  <2> HIDE DEF h, D0
  <2> QED BY <1>3, Zenon
<1>5. \A n \in D0 : behind[n] = Behind(list, key, behind, n)
  <2> HIDE DEF D0
  <2> DEFINE b == behind
  <2>1. b = [n \in D0 |-> Behind(list, key, b, n)] BY <1>4
  <2> HIDE DEF b
  <2>2. \A n \in D0 : b[n] = Behind(list, key, b, n) BY <2>1, Zenon
  <2> QED BY <2>2 DEF b
<1> HIDE DEF behind
<1>6. \A n \in D0 : behind[n] = Without(list, p, n)
  <2> DEFINE B == {n \in D0 : behind[n] # Without(list, p, n)}
  <2> SUFFICES ASSUME B # {} PROVE FALSE
    OBVIOUS
  <2>1. PICK x \in B : \A y \in B : y <= x
    <3>1. B \subseteq 0 .. L + 2 /\ L + 2 \in Nat BY <1>1
    <3> HIDE DEF B
    <3> QED BY <3>1, GreatestBounded
  <2>2. x \in D0 /\ behind[x] # Without(list, p, x) OBVIOUS
  <2>3. x <= L => x + 1 \in D0 \ B /\ x + 2 \in D0 \ B BY <1>1, <2>1, <2>2
  <2>4. x <= L => /\ behind[x + 1] = Without(list, p, x + 1)
                  /\ behind[x + 2] = Without(list, p, x + 2)
    BY <2>3
  <2>5. Behind(list, key, behind, x) = Without(list, p, x)
    BY <2>2, <2>4, WithoutBehind
  <2> QED BY <1>5, <2>2, <2>5
<1>7. CASE list[1].key # key
  <2>1. 1 <= L /\ 1 \in D0 /\ 2 \in D0 /\ 3 \in D0 BY <1>1
  <2>2. behind[1] = <<list[1]>> \o behind[2]
    <3>1. BehindRight(list, key, behind, 1, Behind(list, key, behind, 1))
      BY BehindCases
    <3> QED BY <1>5, <1>7, <2>1, <3>1 DEF BehindRight
  <2> QED BY <1>2, <1>6, <1>7, <2>1, <2>2
<1>8. CASE list[1].key = key
  <2>1. p = 1 BY <1>1, <1>8 DEF Only
  <2>2. /\ Without(list, p, 1) \in Seq(Items)
        /\ Len(Without(list, p, 1)) = L - 1
        /\ \A m \in 1 .. L - 1 : Without(list, p, 1)[m] = list[1 + m]
    <3>1. 1 \in 1 .. L + 2 /\ 1 <= p BY <1>1, <2>1
    <3>2. \A m \in 1 .. L - 1 : p < 1 + m BY <1>1, <2>1
    <3>3. WithoutRight(list, p, 1, Without(list, p, 1)) BY <1>1, <3>1, WithoutTypes
    <3> QED BY <3>1, <3>2, <3>3 DEF WithoutRight
  <2>3. /\ Tail(list) \in Seq(Items) /\ Len(Tail(list)) = L - 1
        /\ \A m \in 1 .. L - 1 : Tail(list)[m] = list[m + 1]
    OBVIOUS
  <2>4. Tail(list) = Without(list, p, 1) BY <2>2, <2>3, SameList
  <2> QED BY <1>2, <1>8, <2>4
<1> QED BY <1>7, <1>8

(* seqlist_delete of a list that holds a key once removes the key. *)
LEMMA DeleteRemoves ==
    ASSUME NEW list, Once(list), NEW key
    PROVE  /\ Once(SLDelete(list, key))
           /\ Len(SLDelete(list, key)) = IF Has(list, key) THEN Len(list) - 1 ELSE Len(list)
           /\ ~Has(SLDelete(list, key), key)
           /\ \A other : other # key =>
                 SLGet(SLDelete(list, key), other, NoItem) = SLGet(list, other, NoItem)
           /\ \A n \in 1 .. Len(SLDelete(list, key)) :
                 \E m \in 1 .. Len(list) : SLDelete(list, key)[n] = list[m]
<1> DEFINE new == SLDelete(list, key)
           L == Len(list)
<1>1. list \in Seq(Items) /\ L \in Nat BY DEF Once
<1>2. PICK p : Only(list, key, p)
  <2>1. CASE Has(list, key)
    <3>1. PICK p \in 1 .. L : list[p].key = key BY <2>1 DEF Has
    <3>2. Only(list, key, p) BY <1>1, <3>1 DEF Only, Once
    <3> QED BY <3>2
  <2>2. CASE ~Has(list, key)
    <3>1. Only(list, key, 0) BY <1>1, <2>2 DEF Only, Has
    <3> QED BY <3>1
  <2> QED BY <2>1, <2>2
<1>3. p \in 0 .. L /\ (Has(list, key) <=> p # 0) BY <1>1, <1>2 DEF Only, Has
<1>4. /\ new \in Seq(Items)
      /\ Len(new) = IF p = 0 THEN L ELSE L - 1
      /\ \A m \in 1 .. Len(new) : new[m] = IF p = 0 \/ m < p THEN list[m] ELSE list[m + 1]
  <2>1. CASE list = <<>>
    <3>1. new = <<>> BY <2>1, Zenon DEF SLDelete
    <3> HIDE DEF new
    <3>2. L = 0 /\ p = 0 BY <1>3, <2>1
    <3> QED BY <2>1, <3>1, <3>2
  <2>2. CASE list # <<>>
    <3>1. new = Without(list, p, 1) BY <1>1, <1>2, <2>2, DeleteUnlinks
    <3>2. L >= 1 BY <1>1, <2>2
    <3> HIDE DEF new
    <3>3. WithoutRight(list, p, 1, new) BY <1>1, <1>3, <3>1, <3>2, WithoutTypes
    <3>4. CASE p = 0
      <4>1. 1 > p /\ 1 <= L BY <3>2, <3>4
      <4>2. Len(new) = L BY <1>1, <3>3, <4>1 DEF WithoutRight
      <4>3. \A m \in 1 .. L : new[m] = list[m]
        <5>1. \A m \in 1 .. Len(list) + 1 - 1 : new[m] = list[1 + m - 1]
          BY <3>3, <4>1 DEF WithoutRight
        <5> QED BY <1>1, <5>1
      <4> QED BY <3>3, <3>4, <4>2, <4>3 DEF WithoutRight
    <3>5. CASE p # 0
      <4>1. 1 <= p BY <1>3, <3>5
      <4>2. Len(new) = L - 1 BY <1>1, <3>3, <4>1 DEF WithoutRight
      <4>3. \A m \in 1 .. L - 1 : new[m] = IF m < p THEN list[m] ELSE list[m + 1]
        <5>1. \A m \in 1 .. Len(list) - 1 :
                 new[m] = IF p < 1 + m THEN list[1 + m] ELSE list[1 + m - 1]
          BY <3>3, <4>1 DEF WithoutRight
        <5>2. \A m \in 1 .. L - 1 :
                 (p < 1 + m <=> ~(m < p)) /\ 1 + m = m + 1 /\ 1 + m - 1 = m
          BY <1>1, <1>3
        <5> QED BY <5>1, <5>2
      <4> QED BY <3>3, <3>5, <4>2, <4>3 DEF WithoutRight
    <3> QED BY <3>4, <3>5
  <2> QED BY <2>1, <2>2
<1> HIDE DEF new
<1> DEFINE old(m) == IF p = 0 \/ m < p THEN m ELSE m + 1
<1>5. /\ \A m \in 1 .. Len(new) : old(m) \in 1 .. L /\ old(m) # p /\ new[m] = list[old(m)]
      /\ \A m, n \in 1 .. Len(new) : old(m) = old(n) => m = n
      /\ \A x \in 1 .. L : x # p => \E m \in 1 .. Len(new) : old(m) = x
  <2>1. \A m \in 1 .. Len(new) : old(m) \in 1 .. L /\ old(m) # p /\ new[m] = list[old(m)]
    BY <1>1, <1>3, <1>4
  <2>2. \A m, n \in 1 .. Len(new) : old(m) = old(n) => m = n
    BY <1>1, <1>3, <1>4
  <2>3. ASSUME NEW x \in 1 .. L, x # p
        PROVE  \E m \in 1 .. Len(new) : old(m) = x
    <3>1. CASE p = 0 \/ x < p
      <4>1. x \in 1 .. Len(new) /\ old(x) = x BY <1>1, <1>3, <1>4, <3>1
      <4> QED BY <4>1
    <3>2. CASE p # 0 /\ x > p
      <4>1. x - 1 \in 1 .. Len(new) /\ old(x - 1) = x BY <1>1, <1>3, <1>4, <3>2
      <4> QED BY <4>1
    <3> QED BY <1>1, <1>3, <2>3, <3>1, <3>2
  <2> QED BY <2>1, <2>2, <2>3
<1> HIDE DEF old
<1>6. Once(new)
  <2> SUFFICES ASSUME NEW m \in 1 .. Len(new), NEW n \in 1 .. Len(new),
                      new[m].key = new[n].key
               PROVE  m = n
    BY <1>4 DEF Once
  <2>1. old(m) = old(n) BY <1>5 DEF Once
  <2> QED BY <1>5, <2>1
<1>7. ~Has(new, key)
  <2>1. \A x \in 1 .. L : x # p => list[x].key # key BY <1>2 DEF Only
  <2> QED BY <1>5, <2>1 DEF Has
<1>8. ASSUME NEW other, other # key
      PROVE  SLGet(new, other, NoItem) = SLGet(list, other, NoItem)
  <2>1. CASE Has(list, other)
    <3>1. PICK x \in 1 .. L : list[x].key = other BY <2>1 DEF Has
    <3>2. x # p BY <1>2, <1>8, <3>1 DEF Only
    <3>3. PICK m \in 1 .. Len(new) : old(m) = x BY <1>5, <3>1, <3>2
    <3>4. new[m] = list[x] BY <1>5, <3>3
    <3>5. SLGet(list, other, NoItem) = list[x] BY <3>1, GetFinds
    <3>6. SLGet(new, other, NoItem) = new[m] BY <1>6, <3>1, <3>4, GetFinds
    <3> QED BY <3>4, <3>5, <3>6
  <2>2. CASE ~Has(list, other)
    <3>1. ~Has(new, other) BY <1>5, <2>2 DEF Has
    <3> QED BY <1>6, <2>2, <3>1, GetFinds
  <2> QED BY <2>1, <2>2
<1>9. \A n \in 1 .. Len(new) : \E m \in 1 .. L : new[n] = list[m] BY <1>5
<1> QED BY <1>3, <1>4, <1>6, <1>7, <1>8, <1>9 DEF new
-----------------------------------------------------------------------------
(* The tables. *)

(* The buffered hash is that of the key for the size it was taken for. *)
Buffered == buffer.key # NoKey => buffer.hash = buffer.key % buffer.size

(* A list holds keys of its slot, each once. *)
Chain(u, s, list) ==
    /\ Once(list)
    /\ \A n \in 1 .. Len(list) : list[n].key % Size[u] = s

Chained == \A u \in Tables : \A s \in Slots(u) : Chain(u, s, lists[u][s])

(* The counter of an open table is right, and a closed table has no lists. *)
Counted ==
    /\ \A u \in Tables : IsFiniteSet(Nodes(u))
    /\ \A u \in open : pairs[u] = Cardinality(Nodes(u))
    /\ \A u \in Tables \ open : \A s \in Slots(u) : lists[u][s] = <<>>

Inv ==
    /\ TypeOK
    /\ lists = [u \in Tables |-> lists[u]]
    /\ Buffered
    /\ Chained
    /\ Counted

(* A table has slots, they are numbers, and each key has one. *)
LEMMA SlotsTypes ==
    ASSUME NEW u \in Tables
    PROVE  /\ Size[u] \in Nat \ {0} /\ Slots(u) \subseteq Nat
           /\ \A key \in Keys : key \in Nat \ {0} /\ key % Size[u] \in Slots(u)
<1>1. Size[u] \in Nat \ {0} BY SizeAssumption DEF Tables
<1>2. \A key \in Keys : key \in Nat \ {0} BY KeysAssumption
<1>3. ASSUME NEW key \in Keys PROVE key % Size[u] \in Slots(u)
  <2> DEFINE n == Size[u]
  <2> HIDE DEF n
  <2>1. n \in Nat \ {0} BY <1>1 DEF n
  <2>2. key \in Nat BY <1>2
  <2>3. key % n \in 0 .. n - 1 BY <2>1, <2>2
  <2> QED BY <2>3 DEF Slots, n
<1>4. Slots(u) \subseteq Nat BY <1>1 DEF Slots
<1> QED BY <1>1, <1>2, <1>3, <1>4

(* A call that is not misled goes to the slot of its key; the buffer stays
   right. *)
LEMMA CallRight ==
    ASSUME Inv, NEW u, NEW key \in Keys, Call(u, key)
    PROVE  /\ u \in Tables /\ u \in open /\ open' = open
           /\ ~misled' => HashCode(key, Size[u]) = key % Size[u]
           /\ Buffered'
<1>1. u \in Tables /\ u \in open BY DEF Inv, TypeOK, Call
<1>2. key # NoKey BY KeysAssumption DEF NoKey
<1>3. CASE buffer.key = key
  <2>1. buffer' = buffer /\ (~misled' => buffer.size = Size[u])
    BY <1>3 DEF Call, Hashed
  <2>2. ~misled' => HashCode(key, Size[u]) = key % Size[u]
    BY <1>2, <1>3, <2>1 DEF HashCode, Inv, Buffered
  <2> QED BY <1>1, <2>1, <2>2 DEF Inv, Buffered, Call
<1>4. CASE buffer.key # key
  <2>1. HashCode(key, Size[u]) = key % Size[u] BY <1>4 DEF HashCode
  <2>2. buffer' = [key |-> key, hash |-> key % Size[u], size |-> Size[u]]
    BY <1>4, <2>1 DEF Call, Hashed
  <2> QED BY <1>1, <2>1, <2>2 DEF Buffered, Call
<1> QED BY <1>3, <1>4

(* The list of a slot is put back with as many pairs, one more or one less. *)
LEMMA NodesStep ==
    ASSUME Inv, NEW u \in Tables, NEW s \in Slots(u), NEW new \in Seq(Items),
           lists' = [lists EXCEPT ![u][s] = new],
           Len(new) \in {Len(lists[u][s]) - 1, Len(lists[u][s]), Len(lists[u][s]) + 1}
    PROVE  /\ IsFiniteSet(Nodes(u)')
           /\ Cardinality(Nodes(u)') = Cardinality(Nodes(u)) + Len(new) - Len(lists[u][s])
           /\ \A v \in Tables : v # u => Nodes(v)' = Nodes(v)
<1> DEFINE old == lists[u][s]
<1>1. /\ old \in Seq(Items) /\ Len(old) \in Nat /\ Len(new) \in Nat
      /\ IsFiniteSet(Nodes(u)) /\ Cardinality(Nodes(u)) \in Nat
  BY FS_CardinalityType DEF Inv, TypeOK, Counted
<1>2. /\ \A v \in Tables : v # u => lists'[v] = lists[v]
      /\ \A r \in Slots(u) : lists'[u][r] = IF r = s THEN new ELSE lists[u][r]
  BY DEF Inv, TypeOK
<1>3. \A v \in Tables : v # u => Nodes(v)' = Nodes(v) BY <1>2 DEF Nodes
<1>4. /\ Nodes(u) \subseteq Slots(u) \X Nat /\ Nodes(u)' \subseteq Slots(u) \X Nat
      /\ \A r \in Slots(u) : \A n \in Nat :
            /\ <<r, n>> \in Nodes(u) <=> n \in 1 .. Len(lists[u][r])
            /\ <<r, n>> \in Nodes(u)' <=> n \in 1 .. Len(lists'[u][r])
  BY DEF Nodes
<1>5. /\ \A r \in Slots(u) : r # s => \A n \in Nat : <<r, n>> \in Nodes(u)' <=> <<r, n>> \in Nodes(u)
      /\ \A n \in Nat : <<s, n>> \in Nodes(u) <=> n \in 1 .. Len(old)
      /\ \A n \in Nat : <<s, n>> \in Nodes(u)' <=> n \in 1 .. Len(new)
  BY <1>2, <1>4
<1> HIDE DEF old
<1>6. CASE Len(new) = Len(old)
  <2>1. \A r \in Slots(u) : \A n \in Nat : <<r, n>> \in Nodes(u)' <=> <<r, n>> \in Nodes(u)
    BY <1>5, <1>6
  <2>2. Nodes(u)' = Nodes(u)
    <3>1. Nodes(u)' \subseteq Nodes(u) BY <1>4, <2>1
    <3>2. Nodes(u) \subseteq Nodes(u)' BY <1>4, <2>1
    <3> QED BY <3>1, <3>2
  <2> QED BY <1>1, <1>3, <1>6, <2>2 DEF old
<1>7. CASE Len(new) = Len(old) + 1
  <2> DEFINE x == <<s, Len(old) + 1>>
  <2>1. \A r \in Slots(u) : \A n \in Nat :
           <<r, n>> \in Nodes(u)' <=> <<r, n>> \in Nodes(u) \/ (r = s /\ n = Len(old) + 1)
    <3>1. \A n \in Nat : n \in 1 .. Len(new) <=> n \in 1 .. Len(old) \/ n = Len(old) + 1
      BY <1>1, <1>7
    <3> QED BY <1>5, <3>1
  <2>2. x \notin Nodes(u) /\ Len(old) + 1 \in Nat BY <1>1, <1>5
  <2>3. Nodes(u)' = Nodes(u) \cup {x}
    <3>1. Nodes(u)' \subseteq Nodes(u) \cup {x} BY <1>4, <2>1
    <3>2. Nodes(u) \subseteq Nodes(u)' BY <1>4, <2>1
    <3>3. x \in Nodes(u)' BY <2>1, <2>2
    <3> QED BY <3>1, <3>2, <3>3
  <2> HIDE DEF x
  <2>4. /\ IsFiniteSet(Nodes(u)')
        /\ Cardinality(Nodes(u)') = Cardinality(Nodes(u)) + 1
    BY <1>1, <2>2, <2>3, FS_AddElement
  <2> QED BY <1>1, <1>3, <1>7, <2>4 DEF old
<1>8. CASE Len(new) = Len(old) - 1
  <2> DEFINE x == <<s, Len(old)>>
  <2>1. \A r \in Slots(u) : \A n \in Nat :
           <<r, n>> \in Nodes(u)' <=> <<r, n>> \in Nodes(u) /\ ~(r = s /\ n = Len(old))
    <3>1. \A n \in Nat : n \in 1 .. Len(new) <=> n \in 1 .. Len(old) /\ n # Len(old)
      BY <1>1, <1>8
    <3> QED BY <1>5, <3>1
  <2>2. x \in Nodes(u)
    <3>1. Len(old) \in 1 .. Len(old) BY <1>1, <1>8
    <3> QED BY <1>1, <1>5, <3>1
  <2>3. Nodes(u)' = Nodes(u) \ {x}
    <3>1. Nodes(u)' \subseteq Nodes(u) BY <1>4, <2>1
    <3>2. Nodes(u) \subseteq Nodes(u)' \cup {x} BY <1>4, <2>1
    <3>3. x \notin Nodes(u)' BY <1>1, <2>1
    <3> QED BY <3>1, <3>2, <3>3
  <2> HIDE DEF x
  <2>4. /\ IsFiniteSet(Nodes(u)')
        /\ Cardinality(Nodes(u)') = Cardinality(Nodes(u)) - 1
    BY <1>1, <2>2, <2>3, FS_RemoveElement
  <2> QED BY <1>1, <1>3, <1>8, <2>4 DEF old
<1> QED BY <1>6, <1>7, <1>8 DEF old

(* A call that puts a right list back, and counts its pairs, preserves the
   invariant. *)
LEMMA ListReplaced ==
    ASSUME Inv, Buffered', got' \in Vals \cup {NoValue}, open' = open,
           NEW u \in open, NEW s \in Slots(u), NEW new, Chain(u, s, new),
           lists' = [lists EXCEPT ![u][s] = new],
           Len(new) \in {Len(lists[u][s]) - 1, Len(lists[u][s]), Len(lists[u][s]) + 1},
           pairs' = [pairs EXCEPT ![u] = @ + (Len(new) - Len(lists[u][s]))]
    PROVE  Inv'
<1>1. /\ u \in Tables /\ new \in Seq(Items) /\ Len(new) \in Nat
      /\ lists[u] \in [Slots(u) -> Seq(Items)] /\ Len(lists[u][s]) \in Nat
  BY DEF Inv, TypeOK, Chain, Once
<1>2. /\ \A v \in Tables : v # u => lists'[v] = lists[v]
      /\ \A r \in Slots(u) : lists'[u][r] = IF r = s THEN new ELSE lists[u][r]
      /\ lists'[u] \in [Slots(u) -> Seq(Items)]
      /\ lists' = [v \in Tables |-> lists'[v]]
  BY <1>1 DEF Inv, TypeOK
<1>3. pairs \in [Tables -> Int] /\ open \subseteq Tables
  BY DEF Inv, TypeOK
<1>4. /\ pairs' \in [Tables -> Int]
      /\ pairs'[u] = pairs[u] + (Len(new) - Len(lists[u][s]))
      /\ \A v \in Tables : v # u => pairs'[v] = pairs[v]
  BY <1>1, <1>3
<1>5. TypeOK' BY <1>2, <1>3, <1>4 DEF Inv, TypeOK
<1>6. Chained'
  <2> SUFFICES ASSUME NEW v \in Tables, NEW r \in Slots(v)
               PROVE  Chain(v, r, lists'[v][r])
    BY DEF Chained, Chain, Once
  <2>1. CASE v = u BY <1>2, <2>1 DEF Inv, Chained
  <2>2. CASE v # u BY <1>2, <2>2 DEF Inv, Chained
  <2> QED BY <2>1, <2>2
<1>7. Counted'
  <2>1. /\ IsFiniteSet(Nodes(u)')
        /\ Cardinality(Nodes(u)') = Cardinality(Nodes(u)) + Len(new) - Len(lists[u][s])
        /\ \A v \in Tables : v # u => Nodes(v)' = Nodes(v)
    BY <1>1, NodesStep
  <2>2. /\ \A v \in Tables : IsFiniteSet(Nodes(v))
        /\ \A v \in open : pairs[v] = Cardinality(Nodes(v))
        /\ \A v \in Tables \ open : \A r \in Slots(v) : lists[v][r] = <<>>
    BY DEF Inv, Counted
  <2>3. \A v \in Tables : IsFiniteSet(Nodes(v)') BY <2>1, <2>2
  <2>4. ASSUME NEW v \in open PROVE pairs'[v] = Cardinality(Nodes(v)')
    <3>1. CASE v = u
      <4>1. Cardinality(Nodes(u)) \in Nat BY <1>1, <2>2, FS_CardinalityType
      <4> QED BY <1>1, <1>4, <2>1, <2>2, <3>1, <4>1
    <3>2. CASE v # u
      <4>1. v \in Tables BY <1>3
      <4> QED BY <1>4, <2>1, <2>2, <3>2, <4>1
    <3> QED BY <3>1, <3>2
  <2>5. ASSUME NEW v \in Tables \ open, NEW r \in Slots(v) PROVE lists'[v][r] = <<>>
    BY <1>2, <2>2, <2>5
  <2> QED BY <2>3, <2>4, <2>5 DEF Counted
<1> QED BY <1>2, <1>5, <1>6, <1>7 DEF Inv

(* The list of a key in the tables. *)
LEMMA ListOf ==
    ASSUME Inv, NEW u, NEW key \in Keys, Call(u, key), ~misled'
    PROVE  /\ u \in open /\ u \in Tables /\ open' = open /\ Buffered'
           /\ HashCode(key, Size[u]) = key % Size[u]
           /\ key % Size[u] \in Slots(u)
           /\ List(u, key) = lists[u][key % Size[u]]
           /\ Chain(u, key % Size[u], List(u, key))
           /\ Once(List(u, key))
           /\ Len(List(u, key)) \in Nat
<1>1. /\ u \in open /\ u \in Tables /\ open' = open /\ Buffered'
      /\ HashCode(key, Size[u]) = key % Size[u]
  BY CallRight
<1>2. key % Size[u] \in Slots(u) BY <1>1, SlotsTypes
<1>3. List(u, key) = lists[u][key % Size[u]] BY <1>1 DEF List
<1>4. Chain(u, key % Size[u], List(u, key)) BY <1>1, <1>2, <1>3 DEF Inv, Chained
<1> QED BY <1>1, <1>2, <1>3, <1>4 DEF Chain, Once

(* The list that a call leaves in the slot of its key. *)
PutLeaves(list, item) ==
    IF ~Has(list, item.key) THEN SLPut(list, item) ELSE SLChange(list, item.key, item.value)

LEMMA PutStep ==
    ASSUME Inv, NEW u, NEW item \in Items, Put(u, item)
    PROVE  /\ Inv'
           /\ lists' = [lists EXCEPT ![u][item.key % Size[u]] = PutLeaves(List(u, item.key), item)]
<1> DEFINE key == item.key
           s == key % Size[u]
           list == List(u, key)
           new == PutLeaves(list, item)
<1>1. key \in Keys BY DEF Items
<1>2. Call(u, key) /\ ~misled' BY DEF Put
<1>3. /\ u \in open /\ u \in Tables /\ open' = open /\ Buffered'
      /\ HashCode(key, Size[u]) = s /\ s \in Slots(u) /\ list = lists[u][s]
      /\ Chain(u, s, list) /\ Once(list) /\ Len(list) \in Nat
  BY <1>1, <1>2, ListOf
<1>4. SLGet(list, key, NoItem) = NoItem <=> ~Has(list, key)
  BY <1>1, <1>3, GetTells
<1>5. /\ lists' = [lists EXCEPT ![u][s] = new]
      /\ pairs' = IF ~Has(list, key) THEN [pairs EXCEPT ![u] = @ + 1] ELSE pairs
      /\ got' = NoValue
  <2>1. lists' = [lists EXCEPT ![u][s] = IF SLGet(list, key, NoItem) = NoItem THEN SLPut(@, item)
                                         ELSE SLChange(@, key, item.value)]
        /\ pairs' = (IF SLGet(list, key, NoItem) = NoItem THEN [pairs EXCEPT ![u] = @ + 1] ELSE pairs)
        /\ got' = NoValue
    BY <1>3 DEF Put
  <2>2. lists[u][s] = list BY <1>3
  <2> QED BY <1>4, <2>1, <2>2 DEF PutLeaves
<1>6. /\ Chain(u, s, new)
      /\ Len(new) = IF ~Has(list, key) THEN Len(list) + 1 ELSE Len(list)
  <2> HIDE DEF list
  <2>1. CASE ~Has(list, key)
    <3>1. new = SLPut(list, item) BY <2>1 DEF PutLeaves
    <3>2. /\ Once(new) /\ Len(new) = Len(list) + 1
          /\ \A n \in 1 .. Len(list) + 1 : new[n] = IF n = 1 THEN item ELSE list[n - 1]
      BY <1>3, <2>1, <3>1, PutAdds
    <3> HIDE DEF new, s
    <3>3. ASSUME NEW n \in 1 .. Len(new) PROVE new[n].key % Size[u] = s
      <4>1. CASE n = 1 BY <1>3, <3>2, <4>1 DEF s
      <4>2. CASE n # 1
        <5>1. n - 1 \in 1 .. Len(list) BY <1>3, <3>2, <4>2
        <5> QED BY <1>3, <3>2, <4>2, <5>1 DEF Chain
      <4> QED BY <4>1, <4>2
    <3> QED BY <2>1, <3>2, <3>3 DEF Chain
  <2>2. CASE Has(list, key)
    <3>1. new = SLChange(list, key, item.value) BY <2>2 DEF PutLeaves
    <3>2. /\ Once(new) /\ Len(new) = Len(list)
          /\ \A n \in 1 .. Len(list) : new[n].key = list[n].key
      <4>1. Once(list) BY <1>3
      <4> HIDE DEF new
      <4> QED BY <2>2, <3>1, <4>1, ChangeChanges, Zenon
    <3> HIDE DEF new, s
    <3> QED BY <1>3, <2>2, <3>2 DEF Chain
  <2> QED BY <2>1, <2>2
<1>7. pairs' = [pairs EXCEPT ![u] = @ + (Len(new) - Len(lists[u][s]))]
  <2> HIDE DEF new, list, s
  <2>1. pairs \in [Tables -> Int] BY DEF Inv, TypeOK
  <2>2. CASE ~Has(list, key)
    <3>1. Len(new) - Len(lists[u][s]) = 1 BY <1>3, <1>6, <2>2
    <3> QED BY <1>5, <2>2, <3>1
  <2>3. CASE Has(list, key)
    <3>1. Len(new) - Len(lists[u][s]) = 0 BY <1>3, <1>6, <2>3
    <3>2. pairs[u] + 0 = pairs[u] BY <1>3, <2>1
    <3> QED BY <1>3, <1>5, <2>1, <2>3, <3>1, <3>2
  <2> QED BY <2>2, <2>3
<1>8. Inv'
  <2> HIDE DEF new, list, s, key
  <2> QED BY <1>3, <1>5, <1>6, <1>7, ListReplaced
<1> QED BY <1>5, <1>8

LEMMA DeleteStep ==
    ASSUME Inv, NEW u, NEW key \in Keys, Delete(u, key)
    PROVE  /\ Inv'
           /\ lists' = [lists EXCEPT ![u][key % Size[u]] = SLDelete(List(u, key), key)]
<1> DEFINE s == key % Size[u]
           list == List(u, key)
           new == SLDelete(list, key)
<1>1. Call(u, key) /\ ~misled' BY DEF Delete
<1>2. /\ u \in open /\ u \in Tables /\ open' = open /\ Buffered'
      /\ HashCode(key, Size[u]) = s /\ s \in Slots(u) /\ list = lists[u][s]
      /\ Chain(u, s, list) /\ Once(list) /\ Len(list) \in Nat
  BY <1>1, ListOf
<1>3. SLGet(list, key, NoItem) = NoItem <=> ~Has(list, key)
  BY <1>2, GetTells
<1>4. /\ lists' = [lists EXCEPT ![u][s] = new]
      /\ pairs' = IF Has(list, key) THEN [pairs EXCEPT ![u] = @ - 1] ELSE pairs
      /\ got' = NoValue
  <2>1. lists' = [lists EXCEPT ![u][s] = SLDelete(@, key)]
        /\ pairs' = (IF SLGet(list, key, NoItem) # NoItem THEN [pairs EXCEPT ![u] = @ - 1] ELSE pairs)
        /\ got' = NoValue
    BY <1>2 DEF Delete
  <2>2. lists[u][s] = list BY <1>2
  <2> QED BY <1>3, <2>1, <2>2
<1>5. /\ Once(new)
      /\ Len(new) = IF Has(list, key) THEN Len(list) - 1 ELSE Len(list)
      /\ \A n \in 1 .. Len(new) : \E m \in 1 .. Len(list) : new[n] = list[m]
  <2>1. Once(list) BY <1>2
  <2> HIDE DEF list
  <2>2. Once(new) BY <2>1, DeleteRemoves
  <2>3. Len(new) = IF Has(list, key) THEN Len(list) - 1 ELSE Len(list)
    BY <2>1, DeleteRemoves
  <2>4. \A n \in 1 .. Len(new) : \E m \in 1 .. Len(list) : new[n] = list[m]
    BY <2>1, DeleteRemoves
  <2> QED BY <2>2, <2>3, <2>4
<1> HIDE DEF new, list, s
<1>6. Chain(u, s, new) BY <1>2, <1>5 DEF Chain
<1>7. pairs' = [pairs EXCEPT ![u] = @ + (Len(new) - Len(lists[u][s]))]
  <2>1. pairs \in [Tables -> Int] BY DEF Inv, TypeOK
  <2>2. CASE Has(list, key)
    <3>1. Len(new) - Len(lists[u][s]) = -1 BY <1>2, <1>5, <2>2
    <3>2. pairs[u] + -1 = pairs[u] - 1 BY <1>2, <2>1
    <3> QED BY <1>4, <2>2, <3>1, <3>2
  <2>3. CASE ~Has(list, key)
    <3>1. Len(new) - Len(lists[u][s]) = 0 BY <1>2, <1>5, <2>3
    <3>2. pairs[u] + 0 = pairs[u] BY <1>2, <2>1
    <3> QED BY <1>2, <1>4, <2>1, <2>3, <3>1, <3>2
  <2> QED BY <2>2, <2>3
<1>8. Inv' BY <1>2, <1>4, <1>5, <1>6, <1>7, ListReplaced
<1> QED BY <1>4, <1>8 DEF new, list, s

LEMMA ClearStep ==
    ASSUME Inv, NEW u \in Tables, Clear(u)
    PROVE  Inv'
<1>1. /\ u \in open /\ open' = open \ {u} /\ got' = NoValue /\ buffer' = buffer
      /\ lists' = [lists EXCEPT ![u] = [s \in Slots(u) |-> <<>>]]
      /\ open \subseteq Tables
  BY DEF Clear, Inv, TypeOK
<1>2. /\ \A v \in Tables : v # u => lists'[v] = lists[v]
      /\ \A s \in Slots(u) : lists'[u][s] = <<>>
      /\ lists'[u] \in [Slots(u) -> Seq(Items)]
      /\ lists' = [v \in Tables |-> lists'[v]]
  <2>1. lists' = [v \in Tables |-> IF v = u THEN [s \in Slots(u) |-> <<>>] ELSE lists[v]]
    BY <1>1 DEF Inv
  <2> QED BY <2>1
<1>3. pairs' \in [Tables -> Int] /\ \A v \in Tables : v # u => pairs'[v] = pairs[v]
  <2> DEFINE used == {s \in Slots(u) : lists[u][s] # <<>>}
  <2>1. IsFiniteSet(Slots(u))
    <3>1. 0 \in Int /\ Size[u] - 1 \in Int BY SlotsTypes
    <3> QED BY <3>1, FS_Interval, Zenon DEF Slots
  <2>2. used \in SUBSET Slots(u) OBVIOUS
  <2> HIDE DEF used
  <2>3. Cardinality(used) \in Nat BY <2>1, <2>2, FS_Subset, FS_CardinalityType
  <2>4. pairs' = [pairs EXCEPT ![u] = @ - Cardinality(used)] BY DEF Clear, used
  <2>5. pairs \in [Tables -> Int] BY DEF Inv, TypeOK
  <2> QED BY <2>3, <2>4, <2>5
<1>4. TypeOK' BY <1>1, <1>2, <1>3 DEF Inv, TypeOK
<1>5. Chained'
  <2> SUFFICES ASSUME NEW v \in Tables, NEW s \in Slots(v)
               PROVE  Chain(v, s, lists'[v][s])
    BY DEF Chained, Chain, Once
  <2>1. CASE v = u
    <3>1. lists'[v][s] = <<>> BY <1>2, <2>1
    <3>2. Len(<<>>) = 0 /\ <<>> \in Seq(Items) OBVIOUS
    <3> QED BY <3>1, <3>2 DEF Chain, Once
  <2>2. CASE v # u BY <1>2, <2>2 DEF Inv, Chained
  <2> QED BY <2>1, <2>2
<1>6. Counted'
  <2>1. \A v \in Tables : v # u => Nodes(v)' = Nodes(v) BY <1>2 DEF Nodes
  <2>2. Nodes(u)' = {} BY <1>2 DEF Nodes
  <2>3. \A v \in Tables : IsFiniteSet(Nodes(v)')
    BY <2>1, <2>2, FS_EmptySet DEF Inv, Counted
  <2>4. \A v \in open' : pairs'[v] = Cardinality(Nodes(v)')
    BY <1>1, <1>3, <2>1 DEF Inv, Counted
  <2>5. \A v \in Tables \ open' : \A s \in Slots(v) : lists'[v][s] = <<>>
    BY <1>1, <1>2 DEF Inv, Counted
  <2> QED BY <2>3, <2>4, <2>5 DEF Counted
<1> QED BY <1>1, <1>2, <1>4, <1>5, <1>6 DEF Inv, Buffered

LEMMA ReinitStep ==
    ASSUME Inv, NEW u \in Tables, Reinit(u)
    PROVE  Inv'
<1>1. /\ u \notin open /\ open' = open \cup {u} /\ UNCHANGED <<lists, buffer, got>>
      /\ pairs' = [pairs EXCEPT ![u] = 0]
      /\ open \subseteq Tables /\ pairs \in [Tables -> Int]
  BY DEF Reinit, Inv, TypeOK
<1>2. TypeOK' BY <1>1 DEF Inv, TypeOK
<1>3. Chained' BY <1>1 DEF Inv, Chained, Chain, Once
<1>4. Counted'
  <2>1. \A v \in Tables : Nodes(v)' = Nodes(v) BY <1>1 DEF Nodes
  <2>2. Nodes(u) = {}
    <3>1. \A s \in Slots(u) : lists[u][s] = <<>> BY <1>1 DEF Inv, Counted
    <3> QED BY <3>1 DEF Nodes
  <2>3. ASSUME NEW v \in open' PROVE pairs'[v] = Cardinality(Nodes(v)')
    <3>1. CASE v = u
      <4>1. pairs'[u] = 0 BY <1>1
      <4>2. Cardinality(Nodes(u)') = 0 BY <2>1, <2>2, FS_EmptySet
      <4> QED BY <3>1, <4>1, <4>2
    <3>2. CASE v # u
      <4>1. v \in open /\ v \in Tables BY <1>1, <3>2
      <4>2. pairs'[v] = pairs[v] BY <1>1, <3>2, <4>1
      <4> QED BY <2>1, <4>1, <4>2 DEF Inv, Counted
    <3> QED BY <3>1, <3>2
  <2> QED BY <1>1, <2>1, <2>3 DEF Inv, Counted
<1> QED BY <1>1, <1>2, <1>3, <1>4 DEF Inv, Buffered

(* A step that touches no list, counter or table. *)
LEMMA ListsKept ==
    ASSUME Inv, Buffered', UNCHANGED <<lists, pairs, open>>, got' \in Vals \cup {NoValue}
    PROVE  Inv'
<1>1. TypeOK' BY DEF Inv, TypeOK
<1>2. Chained' BY DEF Inv, Chained, Chain, Once
<1>3. Counted'
  <2>1. \A v \in Tables : Nodes(v)' = Nodes(v) BY DEF Nodes
  <2>2. open \subseteq Tables BY DEF Inv, TypeOK
  <2>3. /\ \A v \in Tables : IsFiniteSet(Nodes(v)')
        /\ \A v \in open : pairs[v] = Cardinality(Nodes(v)')
    BY <2>1, <2>2 DEF Inv, Counted
  <2> QED BY <2>3 DEF Inv, Counted
<1> QED BY <1>1, <1>2, <1>3 DEF Inv

(* What a call returns is a value or none. *)
LEMMA GetStep ==
    ASSUME Inv, NEW u, NEW key \in Keys, Get(u, key)
    PROVE  /\ Inv'
           /\ u \in Tables
           /\ got' = ValueOf(u, key)
<1>1. Call(u, key) /\ ~misled' /\ got' = SLGet(List(u, key), key, NoItem).value
  BY DEF Get
<1>2. /\ u \in Tables /\ Once(List(u, key)) /\ Buffered'
      /\ List(u, key) = lists[u][key % Size[u]]
  BY <1>1, ListOf
<1>3. got' \in Vals \cup {NoValue} BY <1>1, <1>2, GetTells
<1>4. UNCHANGED <<lists, pairs, open>> BY DEF Get, Call
<1>5. Inv' BY <1>2, <1>3, <1>4, ListsKept
<1> QED BY <1>1, <1>2, <1>5 DEF ValueOf

LEMMA InitInv == Init => Inv
<1> SUFFICES ASSUME Init PROVE Inv
  OBVIOUS
<1>1. /\ lists = [u \in Tables |-> [s \in Slots(u) |-> <<>>]]
      /\ pairs = [u \in Tables |-> 0] /\ open = Tables /\ got = NoValue
      /\ buffer.key = NoKey
  BY DEF Init, HashInit
<1>2. \A u \in Tables : \A s \in Slots(u) : lists[u][s] = <<>> BY <1>1
<1>3. TypeOK
  <2>1. <<>> \in Seq(Items) OBVIOUS
  <2> QED BY <1>1, <2>1 DEF TypeOK
<1>4. Chained
  <2> SUFFICES ASSUME NEW u \in Tables, NEW s \in Slots(u) PROVE Chain(u, s, <<>>)
    BY <1>2 DEF Chained
  <2>1. Len(<<>>) = 0 /\ <<>> \in Seq(Items) OBVIOUS
  <2> QED BY <2>1 DEF Chain, Once
<1>5. Counted
  <2>1. \A u \in Tables : Nodes(u) = {} BY <1>2 DEF Nodes
  <2> QED BY <1>1, <2>1, FS_EmptySet DEF Counted
<1> QED BY <1>1, <1>3, <1>4, <1>5 DEF Inv, Buffered

(* Every call preserves the invariant. *)
LEMMA NextInv == Inv /\ [Next]_vars => Inv'
<1> SUFFICES ASSUME Inv, [Next]_vars PROVE Inv'
  OBVIOUS
<1>1. CASE UNCHANGED vars
  BY <1>1, ListsKept DEF vars, Inv, TypeOK, Buffered
<1>2. ASSUME NEW u \in Tables, Clear(u) PROVE Inv'
  BY <1>2, ClearStep
<1>3. ASSUME NEW u \in Tables, Reinit(u) PROVE Inv'
  BY <1>3, ReinitStep
<1>4. ASSUME NEW u \in Tables, NEW key \in Keys, Misled(u, key) PROVE Inv'
  <2>1. Buffered' /\ open' = open BY <1>4, CallRight DEF Misled
  <2> QED BY <1>4, <2>1, ListsKept DEF Misled, Inv, TypeOK
<1>5. ASSUME NEW u \in Tables, NEW key \in Keys, Get(u, key) PROVE Inv'
  BY <1>5, GetStep
<1>6. ASSUME NEW u \in Tables, NEW key \in Keys, Delete(u, key) PROVE Inv'
  BY <1>6, DeleteStep
<1>7. ASSUME NEW u \in Tables, NEW item \in Items, Put(u, item) PROVE Inv'
  BY <1>7, PutStep
<1> QED BY <1>1, <1>2, <1>3, <1>4, <1>5, <1>6, <1>7 DEF Next

LEMMA Invariance == Spec => []Inv
BY InitInv, NextInv, PTL DEF Spec

(* The lists hold pairs, the counters are numbers and a call returns a value
   or none. *)
THEOREM ChainTypes == Spec => []TypeOK
<1>1. Inv => TypeOK BY DEF Inv
<1> QED BY <1>1, Invariance, PTL

(* The invariant says of every open table that its counter is right, that no
   list holds a key twice and that each key is in the list of its slot. *)
LEMMA InvCounts == Inv => ChainsCounted
<1> SUFFICES ASSUME Inv, NEW u \in open
             PROVE  /\ pairs[u] = Cardinality(Nodes(u))
                    /\ \A x, y \in Nodes(u) : KeyAt(u, x) = KeyAt(u, y) => x = y
                    /\ \A x \in Nodes(u) : KeyAt(u, x) % Size[u] = x[1]
  BY DEF ChainsCounted
<1>1. u \in Tables BY DEF Inv, TypeOK
<1>2. ASSUME NEW x \in Nodes(u)
      PROVE  /\ x = <<x[1], x[2]>> /\ x[1] \in Slots(u)
             /\ x[2] \in 1 .. Len(lists[u][x[1]])
             /\ Chain(u, x[1], lists[u][x[1]])
  <2>1. PICK s \in Slots(u) : x \in {s} \X (1 .. Len(lists[u][s])) BY DEF Nodes
  <2>2. x = <<x[1], x[2]>> /\ x[1] = s /\ x[2] \in 1 .. Len(lists[u][s]) BY <2>1
  <2> QED BY <1>1, <2>2 DEF Inv, Chained
<1>3. \A x \in Nodes(u) : KeyAt(u, x) % Size[u] = x[1]
  BY <1>2 DEF Chain, KeyAt
<1>4. ASSUME NEW x \in Nodes(u), NEW y \in Nodes(u), KeyAt(u, x) = KeyAt(u, y)
      PROVE  x = y
  <2>1. x[1] = y[1] BY <1>3, <1>4
  <2>2. x[2] = y[2] BY <1>2, <1>4, <2>1 DEF Chain, Once, KeyAt
  <2> QED BY <1>2, <2>1, <2>2
<1>5. pairs[u] = Cardinality(Nodes(u)) BY DEF Inv, Counted
<1> QED BY <1>3, <1>4, <1>5

(* In every open table the counter is the number of pairs, no key stands twice
   and every key stands in the list of its slot, however the calls of the
   tables that share the hash buffer follow one another. *)
THEOREM ChainsStayCounted == Spec => []ChainsCounted
BY Invariance, InvCounts, PTL
-----------------------------------------------------------------------------
(* The dictionaries. *)

(* The list new is put in the slot of a key; it differs from the list that was
   there for this key alone, which has the value in it. *)
Replaced(u, key, new, value) ==
    /\ lists' = [lists EXCEPT ![u][key % Size[u]] = new]
    /\ SLGet(new, key, NoItem).value = value
    /\ \A other \in Keys : other # key =>
           SLGet(new, other, NoItem) = SLGet(lists[u][key % Size[u]], other, NoItem)

(* A call that changes the list of its slot for its key alone changes the
   dictionary there and nowhere else. *)
LEMMA DictReplaced ==
    ASSUME Inv, NEW u \in Tables, NEW key \in Keys, NEW new, NEW value,
           Replaced(u, key, new, value)
    PROVE  Dict' = [Dict EXCEPT ![<<u, key>>] = value]
<1> USE DEF Replaced
<1> DEFINE s == key % Size[u]
<1>1. /\ \A v \in Tables : v # u => lists'[v] = lists[v]
      /\ \A r \in Slots(u) : lists'[u][r] = IF r = s THEN new ELSE lists[u][r]
      /\ s \in Slots(u)
  BY SlotsTypes DEF Inv, TypeOK
<1> HIDE DEF s
<1>2. ASSUME NEW v \in Tables, NEW other \in Keys
      PROVE  ValueOf(v, other)' = IF v = u /\ other = key THEN value ELSE ValueOf(v, other)
  <2>1. CASE v # u BY <1>1, <2>1 DEF ValueOf
  <2>2. CASE v = u
    <3>1. other % Size[u] \in Slots(u) BY SlotsTypes
    <3>2. CASE other % Size[u] = s
      <4>1. lists'[u][other % Size[u]] = new BY <1>1, <3>1, <3>2
      <4>2. CASE other = key BY <2>2, <4>1, <4>2 DEF ValueOf
      <4>3. CASE other # key
        <5>1. SLGet(new, other, NoItem) = SLGet(lists[u][s], other, NoItem) BY <4>3 DEF s
        <5> QED BY <2>2, <3>2, <4>1, <4>3, <5>1 DEF ValueOf
      <4> QED BY <4>2, <4>3
    <3>3. CASE other % Size[u] # s
      <4>1. lists'[u][other % Size[u]] = lists[u][other % Size[u]] BY <1>1, <3>1, <3>3
      <4>2. other # key BY <3>3 DEF s
      <4> QED BY <2>2, <4>1, <4>2 DEF ValueOf
    <3> QED BY <3>2, <3>3
  <2> QED BY <2>1, <2>2
<1>3. ASSUME NEW x \in Tables \X Keys
      PROVE  Dict'[x] = IF x = <<u, key>> THEN value ELSE Dict[x]
  <2>1. PICK v \in Tables, other \in Keys : x = <<v, other>> OBVIOUS
  <2>2. /\ Dict'[x] = ValueOf(v, other)' /\ Dict[x] = ValueOf(v, other)
        /\ (x = <<u, key>> <=> v = u /\ other = key)
    BY <2>1 DEF Dict
  <2> QED BY <1>2, <2>2
<1>4. /\ Dict = [x \in Tables \X Keys |-> Dict[x]]
      /\ Dict' = [x \in Tables \X Keys |-> Dict'[x]]
  BY DEF Dict
<1> QED BY <1>3, <1>4

LEMMA PutRight ==
    ASSUME Inv, NEW u \in Tables, NEW key \in Keys, NEW value \in Vals,
           Put(u, [key |-> key, value |-> value])
    PROVE  D!Put(<<u, key>>, value)
<1> DEFINE item == [key |-> key, value |-> value]
           list == List(u, key)
           new == PutLeaves(list, item)
<1>1. item \in Items /\ item.key = key /\ item.value = value BY DEF Items
<1>2. Call(u, key) /\ ~misled' /\ got' = NoValue BY DEF Put
<1>3. Once(list) /\ list = lists[u][key % Size[u]] BY <1>2, ListOf
<1> HIDE DEF item, list
<1>4. lists' = [lists EXCEPT ![u][key % Size[u]] = new]
  <2>1. Put(u, item) BY DEF item
  <2> QED BY <1>1, <2>1, PutStep DEF list
<1>5. /\ SLGet(new, key, NoItem).value = value
      /\ \A other \in Keys : other # key => SLGet(new, other, NoItem) = SLGet(list, other, NoItem)
  <2>1. CASE ~Has(list, key)
    <3>1. new = SLPut(list, item) BY <1>1, <2>1 DEF PutLeaves
    <3> HIDE DEF new
    <3> QED BY <1>1, <1>3, <2>1, <3>1, PutAdds
  <2>2. CASE Has(list, key)
    <3>1. new = SLChange(list, item.key, item.value) BY <1>1, <2>2 DEF PutLeaves
    <3> HIDE DEF new
    <3> QED BY <1>1, <1>3, <2>2, <3>1, ChangeChanges
  <2> QED BY <2>1, <2>2
<1> HIDE DEF new
<1>6. Dict' = [Dict EXCEPT ![<<u, key>>] = value]
  <2>1. Replaced(u, key, new, value) BY <1>3, <1>4, <1>5 DEF Replaced
  <2> QED BY <2>1, DictReplaced
<1> QED BY <1>2, <1>6 DEF D!Put

LEMMA DeleteRight ==
    ASSUME Inv, NEW u \in Tables, NEW key \in Keys, Delete(u, key)
    PROVE  D!Delete(<<u, key>>)
<1> DEFINE list == List(u, key)
           new == SLDelete(list, key)
<1>1. Call(u, key) /\ ~misled' /\ got' = NoValue BY DEF Delete
<1>2. Once(list) /\ list = lists[u][key % Size[u]] BY <1>1, ListOf
<1>3. lists' = [lists EXCEPT ![u][key % Size[u]] = new] BY DeleteStep
<1> HIDE DEF list
<1>4. /\ Once(new) /\ ~Has(new, key)
      /\ \A other \in Keys : other # key => SLGet(new, other, NoItem) = SLGet(list, other, NoItem)
  BY <1>2, DeleteRemoves
<1> HIDE DEF new
<1>5. SLGet(new, key, NoItem).value = NoValue BY <1>4, GetTells
<1>6. Dict' = [Dict EXCEPT ![<<u, key>>] = NoValue]
  <2>1. Replaced(u, key, new, NoValue) BY <1>2, <1>3, <1>4, <1>5 DEF Replaced
  <2> QED BY <2>1, DictReplaced
<1> QED BY <1>1, <1>6 DEF D!Delete

(* A table without lists has no keys. *)
LEMMA EmptyList ==
    ASSUME NEW key \in Keys
    PROVE  SLGet(<<>>, key, NoItem).value = NoValue
<1>1. Once(<<>>) /\ ~Has(<<>>, key)
  <2>1. Len(<<>>) = 0 /\ <<>> \in Seq(Items) OBVIOUS
  <2> QED BY <2>1 DEF Once, Has
<1> QED BY <1>1, GetTells

LEMMA ClearRight ==
    ASSUME Inv, NEW u \in Tables, Clear(u)
    PROVE  D!Clear({u} \X Keys)
<1>1. /\ \A v \in Tables : v # u => lists'[v] = lists[v]
      /\ \A s \in Slots(u) : lists'[u][s] = <<>>
  <2>1. lists' = [v \in Tables |-> IF v = u THEN [s \in Slots(u) |-> <<>>] ELSE lists[v]]
    BY DEF Inv, Clear
  <2> QED BY <2>1
<1>2. ASSUME NEW v \in Tables, NEW key \in Keys
      PROVE  ValueOf(v, key)' = IF v = u THEN NoValue ELSE ValueOf(v, key)
  <2>1. CASE v = u
    <3>1. lists'[u][key % Size[u]] = <<>> BY <1>1, SlotsTypes
    <3> QED BY <2>1, <3>1, EmptyList DEF ValueOf
  <2>2. CASE v # u BY <1>1, <2>2 DEF ValueOf
  <2> QED BY <2>1, <2>2
<1>3. ASSUME NEW x \in Tables \X Keys
      PROVE  Dict'[x] = IF x \in {u} \X Keys THEN NoValue ELSE Dict[x]
  <2>1. PICK v \in Tables, key \in Keys : x = <<v, key>> OBVIOUS
  <2>2. /\ Dict'[x] = ValueOf(v, key)' /\ Dict[x] = ValueOf(v, key)
        /\ (x \in {u} \X Keys <=> v = u)
    BY <2>1 DEF Dict
  <2> QED BY <1>2, <2>2
<1>4. Dict' = [x \in Tables \X Keys |-> IF x \in {u} \X Keys THEN NoValue ELSE Dict[x]]
  <2>1. Dict' = [x \in Tables \X Keys |-> Dict'[x]] BY DEF Dict
  <2> QED BY <1>3, <2>1
<1> QED BY <1>4 DEF D!Clear, Clear

LEMMA GetRight ==
    ASSUME Inv, NEW u \in Tables, NEW key \in Keys, Get(u, key)
    PROVE  D!Get(<<u, key>>)
<1>1. got' = ValueOf(u, key) BY GetStep
<1>2. Dict[<<u, key>>] = ValueOf(u, key) BY DEF Dict
<1>3. Dict' = Dict
  <2>1. lists' = lists BY DEF Get
  <2> QED BY <2>1 DEF Dict, ValueOf
<1> QED BY <1>1, <1>2, <1>3 DEF D!Get

(* Tables without lists are the empty dictionary. *)
LEMMA InitDict == Init => D!Init
<1> SUFFICES ASSUME Init PROVE D!Init
  OBVIOUS
<1>1. lists = [u \in Tables |-> [s \in Slots(u) |-> <<>>]] /\ got = NoValue
  BY DEF Init
<1>2. ASSUME NEW u \in Tables, NEW key \in Keys PROVE ValueOf(u, key) = NoValue
  <2>1. lists[u][key % Size[u]] = <<>> BY <1>1, SlotsTypes
  <2> QED BY <2>1, EmptyList DEF ValueOf
<1>3. Dict = [x \in Tables \X Keys |-> NoValue]
  BY <1>2 DEF Dict
<1> QED BY <1>1, <1>3 DEF D!Init

(* Every chained table is a dictionary of its own: put, get and delete change
   and read the value of their own key in their own table, clear forgets the
   keys of one table, and a put whose key a list already has adds no pair. *)
THEOREM ChainsAreDictionaries == Spec => ImplementsDictionaries
<1>1. Init => D!Init BY InitDict
<1> DEFINE step ==
        \A u \in Tables :
            /\ Clear(u) => D!Clear({u} \X Keys)
            /\ \A key \in Keys :
                  /\ Get(u, key) => D!Get(<<u, key>>)
                  /\ Delete(u, key) => D!Delete(<<u, key>>)
                  /\ \A v \in Vals :
                        Put(u, [key |-> key, value |-> v]) => D!Put(<<u, key>>, v)
<1>2. Inv => step
  BY ClearRight, GetRight, DeleteRight, PutRight
<1>3. Inv /\ [Next]_vars => [step]_vars BY <1>2
<1> QED BY <1>1, <1>3, Invariance, PTL DEF Spec, ImplementsDictionaries

(* The chained tables together implement the abstract dictionary: to be misled
   and to be opened again are steps that it does not see. *)
THEOREM ChainsImplementDictionarySpec == Spec => D!Spec
<1>1. Init => D!Init BY InitDict
<1>2. Inv /\ [Next]_vars => [D!Next]_D!dvars
  <2> SUFFICES ASSUME Inv, [Next]_vars PROVE [D!Next]_D!dvars
    OBVIOUS
  <2>1. ASSUME UNCHANGED <<lists, got>> PROVE UNCHANGED D!dvars
    BY <2>1 DEF D!dvars, Dict, ValueOf
  <2>2. CASE UNCHANGED vars BY <2>1, <2>2 DEF vars
  <2>3. ASSUME NEW u \in Tables, Clear(u) PROVE D!Next
    BY <2>3, ClearRight DEF D!Next
  <2>4. ASSUME NEW u \in Tables, Reinit(u) PROVE UNCHANGED D!dvars
    BY <2>1, <2>4 DEF Reinit
  <2>5. ASSUME NEW u \in Tables, NEW key \in Keys, Misled(u, key) PROVE UNCHANGED D!dvars
    BY <2>1, <2>5 DEF Misled
  <2>6. ASSUME NEW u \in Tables, NEW key \in Keys, Get(u, key) \/ Delete(u, key) PROVE D!Next
    <3>1. <<u, key>> \in Tables \X Keys OBVIOUS
    <3> QED BY <2>6, <3>1, GetRight, DeleteRight DEF D!Next
  <2>7. ASSUME NEW u \in Tables, NEW item \in Items, Put(u, item) PROVE D!Next
    <3>1. PICK key \in Keys, v \in Vals : item = [key |-> key, value |-> v] BY DEF Items
    <3>2. D!Put(<<u, key>>, v) BY <2>7, <3>1, PutRight
    <3>3. <<u, key>> \in Tables \X Keys OBVIOUS
    <3> QED BY <3>2, <3>3 DEF D!Next
  <2> QED BY <2>2, <2>3, <2>4, <2>5, <2>6, <2>7 DEF Next
<1> QED BY <1>1, <1>2, Invariance, PTL DEF Spec, D!Spec
=============================================================================
