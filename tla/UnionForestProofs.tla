-------------------------- MODULE UnionForestProofs --------------------------
(***************************************************************************)
(* Proofs about the parent-array union-find structures, for every number   *)
(* of elements.                                                            *)
(***************************************************************************)
EXTENDS UnionForest, FiniteSetTheorems, TLAPS

USE NAssumption

(* The elements form a finite set, and so do the roots. *)
LEMMA RootsFinite ==
    /\ IsFiniteSet(Elems)
    /\ Cardinality(Elems) = N
    /\ IsFiniteSet(Roots)
    /\ Cardinality(Roots) \in 0 .. N
<1>1. IsFiniteSet(0 .. N - 1) /\ Cardinality(0 .. N - 1) = N
  <2>1. IsFiniteSet(0 .. N - 1) BY FS_Interval
  <2>2. Cardinality(0 .. N - 1) = IF 0 > N - 1 THEN 0 ELSE N - 1 - 0 + 1
    BY FS_Interval
  <2> QED BY <2>1, <2>2
<1>2. IsFiniteSet(Elems) /\ Cardinality(Elems) = N
  BY <1>1 DEF Elems
<1>3. Roots \in SUBSET Elems BY DEF Roots
<1>4. IsFiniteSet(Roots) /\ Cardinality(Roots) <= Cardinality(Elems)
  BY <1>2, <1>3, FS_Subset
<1>5. Cardinality(Roots) \in Nat
  BY <1>4, FS_CardinalityType
<1> QED BY <1>2, <1>4, <1>5

(* The initial states satisfy the inductive invariant. *)
LEMMA InitInv == Init => Inv
<1> SUFFICES ASSUME Init PROVE Inv
  OBVIOUS
<1>1. TypeOK BY DEF Init, TypeOK, Elems, Algs, PCs, Void
<1>2. Control
  BY DEF Init, Control, NoCall, Exited
<1>3. OneRootPerSet BY DEF Init, OneRootPerSet, IsRoot
<1>4. WeightGrowsUp BY DEF Init, WeightGrowsUp, IsRoot, Algs
<1>5. CountIsSets
  <2>1. Roots = Elems BY DEF Init, Roots, IsRoot
  <2> QED BY <2>1, RootsFinite DEF Init, CountIsSets
<1> QED BY <1>1, <1>2, <1>3, <1>4, <1>5 DEF Inv

(* What a step leaves alone: unless it links two trees, a step changes
   neither the arrays nor the count. *)
Structure == <<alg, parent, weight, count, canon>>

LEMMA ForestUnchanged ==
    ASSUME Inv, UNCHANGED Structure
    PROVE  /\ OneRootPerSet' /\ WeightGrowsUp' /\ CountIsSets'
           /\ \A x : IsRoot(x)' <=> IsRoot(x)
<1>1. Roots' = Roots BY DEF Structure, Roots, IsRoot
<1> QED
  BY <1>1 DEF Inv, Structure, OneRootPerSet, WeightGrowsUp, CountIsSets, IsRoot

(* Linking two distinct roots keeps the sets, the weights and the count. *)
LEMMA LinkKeepsForest ==
    ASSUME Inv, UnionLink
    PROVE  /\ parent' \in [Elems -> Elems]
           /\ weight' \in [Elems -> Nat]
           /\ canon' \in [Elems -> Elems]
           /\ count' \in 0 .. N
           /\ OneRootPerSet' /\ WeightGrowsUp' /\ CountIsSets'
<1> DEFINE first == FirstStays(pid, cursor)
           kept  == IF first THEN pid ELSE cursor
           lost  == IF first THEN cursor ELSE pid
<1>1. /\ pid \in Elems /\ cursor \in Elems /\ pid # cursor
      /\ IsRoot(pid) /\ IsRoot(cursor)
  BY DEF UnionLink, Inv, Control
<1>2. /\ kept \in Elems /\ lost \in Elems /\ kept # lost
      /\ {kept, lost} = {pid, cursor}
      /\ parent[kept] = kept /\ parent[lost] = lost
  BY <1>1 DEF IsRoot
<1>3. parent \in [Elems -> Elems] /\ weight \in [Elems -> Nat]
      /\ canon \in [Elems -> Elems] /\ alg \in Algs
  BY DEF Inv, TypeOK
<1>4. parent' = [parent EXCEPT ![lost] = kept]
  BY DEF UnionLink, Linked
<1>5. canon' = [x \in Elems |-> IF canon[x] \in {kept, lost} THEN kept ELSE canon[x]]
  BY <1>2 DEF UnionLink, Merged
<1>6. alg' = alg BY DEF UnionLink
<1> HIDE DEF kept, lost
<1>7. OneRootPerSet'
  <2>1. \A x \in Elems : /\ canon[parent[x]] = canon[x]
                         /\ canon[canon[x]] = canon[x]
                         /\ parent[x] = x <=> canon[x] = x
    BY DEF Inv, OneRootPerSet, IsRoot
  <2> SUFFICES ASSUME NEW x \in Elems
               PROVE  /\ canon'[parent'[x]] = canon'[x]
                      /\ canon'[canon'[x]] = canon'[x]
                      /\ parent'[x] = x <=> canon'[x] = x
    BY DEF OneRootPerSet, IsRoot
  <2>2. CASE x = lost BY <2>1, <2>2, <1>2, <1>3, <1>4, <1>5
  <2>3. CASE x # lost BY <2>1, <2>3, <1>2, <1>3, <1>4, <1>5
  <2> QED BY <2>2, <2>3
<1>8. weight' \in [Elems -> Nat] /\ WeightGrowsUp'
  <2>1. CASE alg = "quuf"
    BY <2>1, <1>3, <1>6 DEF UnionLink, Weighed, WeightGrowsUp
  <2>2. CASE alg = "wquuf"
    <3>1. weight' = [weight EXCEPT ![kept] = weight[kept] + weight[lost]]
      <4>1. weight' = [weight EXCEPT ![kept] = weight[pid] + weight[cursor]]
        BY <2>2 DEF UnionLink, Weighed, kept
      <4>2. weight[pid] + weight[cursor] = weight[kept] + weight[lost]
        BY <1>1, <1>3 DEF kept, lost
      <4> QED BY <4>1, <4>2
    <3>2. \A x \in Elems : /\ parent[x] # x => weight[x] < weight[parent[x]]
                           /\ weight[x] > 0
      BY <2>2 DEF Inv, WeightGrowsUp, IsRoot
    <3>3. weight' \in [Elems -> Nat] BY <3>1, <1>2, <1>3
    <3>4. ASSUME NEW x \in Elems
          PROVE  /\ parent'[x] # x => weight'[x] < weight'[parent'[x]]
                 /\ weight'[x] > 0
      BY <3>1, <3>2, <1>2, <1>3, <1>4
    <3> QED BY <3>3, <3>4, <2>2, <1>6 DEF WeightGrowsUp, IsRoot
  <2>3. CASE alg = "uf"
    <3>1. /\ weight[lost] <= weight[kept]
          /\ \/ weight' = weight /\ weight[lost] < weight[kept]
             \/ weight' = [weight EXCEPT ![kept] = weight[kept] + 1]
      <4>1. first <=> weight[pid] >= weight[cursor]
        BY <2>3 DEF FirstStays
      <4>2. weight' = IF weight[pid] = weight[cursor]
                        THEN [weight EXCEPT ![pid] = @ + 1] ELSE weight
        BY <2>3 DEF UnionLink, Weighed
      <4>3. weight[pid] \in Nat /\ weight[cursor] \in Nat BY <1>1, <1>3
      <4> HIDE DEF first
      <4>4. CASE first
        BY <4>1, <4>2, <4>3, <4>4 DEF kept, lost
      <4>5. CASE ~first
        BY <4>1, <4>2, <4>3, <4>5 DEF kept, lost
      <4> QED BY <4>4, <4>5
    <3>2. \A x \in Elems : parent[x] # x => weight[x] < weight[parent[x]]
      BY <2>3 DEF Inv, WeightGrowsUp, IsRoot
    <3>3. weight' \in [Elems -> Nat] BY <3>1, <1>2, <1>3
    <3>4. ASSUME NEW x \in Elems
          PROVE  parent'[x] # x => weight'[x] < weight'[parent'[x]]
      BY <3>1, <3>2, <1>2, <1>3, <1>4
    <3> QED BY <3>3, <3>4, <2>3, <1>6 DEF WeightGrowsUp, IsRoot
  <2> QED BY <2>1, <2>2, <2>3, <1>3 DEF Algs
<1>9. count' \in 0 .. N /\ CountIsSets'
  <2>1. Roots' = Roots \ {lost}
    BY <1>2, <1>3, <1>4 DEF Roots, IsRoot
  <2>2. lost \in Roots BY <1>2 DEF Roots, IsRoot
  <2>3. IsFiniteSet(Roots) /\ Cardinality(Roots) \in 0 .. N
    BY RootsFinite
  <2>4. /\ IsFiniteSet(Roots \ {lost})
        /\ Cardinality(Roots \ {lost}) = Cardinality(Roots) - 1
    BY <2>2, <2>3, FS_RemoveElement
  <2>5. Cardinality(Roots \ {lost}) \in Nat BY <2>4, FS_CardinalityType
  <2>6. count = Cardinality(Roots) /\ count' = count - 1
    BY DEF Inv, CountIsSets, UnionLink
  <2> QED BY <2>1, <2>3, <2>4, <2>5, <2>6 DEF CountIsSets
<1>10. parent' \in [Elems -> Elems] /\ canon' \in [Elems -> Elems]
  BY <1>2, <1>3, <1>4, <1>5
<1> QED BY <1>7, <1>8, <1>9, <1>10

(* Every step of every call preserves the inductive invariant. *)
LEMMA NextInv == Inv /\ [Next]_vars => Inv'
<1> SUFFICES ASSUME Inv, [Next]_vars PROVE Inv'
  OBVIOUS
<1> USE DEF Return
<1>0. CASE UNCHANGED vars
  <2>1. UNCHANGED Structure BY <1>0 DEF vars, Structure
  <2>2. TypeOK' /\ Control'
    BY <1>0 DEF Inv, vars, TypeOK, Control, IsRoot
  <2> QED BY <2>1, <2>2, ForestUnchanged DEF Inv
<1>1. CASE Invoke
  <2>1. UNCHANGED Structure BY <1>1 DEF Invoke, Structure
  <2>2. TypeOK' BY <1>1 DEF Invoke, Inv, TypeOK, PCs
  <2>3. Control'
    <3>1. call' # NoCall /\ call' # Exited
      BY <1>1 DEF Invoke, Calls, Ops, NoCall, Exited
    <3> QED BY <1>1, <3>1 DEF Invoke, Control
  <2> QED BY <2>1, <2>2, <2>3, ForestUnchanged DEF Inv
<1>2. CASE Reject
  <2>1. UNCHANGED Structure BY <1>2 DEF Reject, Structure
  <2>2. TypeOK' BY <1>2 DEF Reject, Inv, TypeOK, PCs
  <2>3. Control' BY <1>2 DEF Reject, Control, NoCall, Exited
  <2> QED BY <2>1, <2>2, <2>3, ForestUnchanged DEF Inv
<1>3. CASE BeginFind
  <2>1. UNCHANGED Structure BY <1>3 DEF BeginFind, Structure
  <2>2. call.p \in Elems BY <1>3 DEF BeginFind, Valid
  <2>3. TypeOK' BY <1>3, <2>2 DEF BeginFind, Inv, TypeOK, PCs
  <2>4. Control' BY <1>3, <2>2 DEF BeginFind, Inv, Control, Valid
  <2> QED BY <2>1, <2>3, <2>4, ForestUnchanged DEF Inv
<1>4. CASE FindStep
  <2>1. UNCHANGED Structure BY <1>4 DEF FindStep, Structure
  <2>2. cursor \in Elems /\ parent \in [Elems -> Elems]
    BY <1>4 DEF FindStep, Inv, TypeOK, Control
  <2>3. /\ cursor' \in Elems
        /\ canon[cursor'] = canon[cursor]
    BY <1>4, <2>2 DEF FindStep, Hop, Inv, OneRootPerSet
  <2>4. TypeOK' BY <1>4, <2>3 DEF FindStep, Inv, TypeOK
  <2>5. Control' BY <1>4, <2>3 DEF FindStep, Inv, Control, IsRoot, Valid
  <2> QED BY <2>1, <2>4, <2>5, ForestUnchanged DEF Inv
<1>5. CASE FoundFirst
  <2>1. UNCHANGED Structure BY <1>5 DEF FoundFirst, Structure
  <2>2. /\ cursor \in Elems /\ call.q \in Elems
        /\ canon[cursor] = canon[call.p]
    BY <1>5 DEF FoundFirst, Inv, Control, Valid
  <2>3. canon[cursor] = cursor
    BY <1>5, <2>2 DEF FoundFirst, Inv, OneRootPerSet
  <2>4. TypeOK' BY <1>5, <2>2 DEF FoundFirst, Inv, TypeOK, PCs
  <2>5. Control'
    BY <1>5, <2>2, <2>3 DEF FoundFirst, Inv, Control, IsRoot, Valid
  <2> QED BY <2>1, <2>4, <2>5, ForestUnchanged DEF Inv
<1>6. CASE FindReturn
  <2>1. UNCHANGED Structure BY <1>6 DEF FindReturn, Structure
  <2>2. TypeOK' BY <1>6 DEF FindReturn, Inv, TypeOK, Control, PCs
  <2>3. Control' BY <1>6 DEF FindReturn, Control, NoCall, Exited
  <2> QED BY <2>1, <2>2, <2>3, ForestUnchanged DEF Inv
<1>7. CASE ConnectedReturn
  <2>1. UNCHANGED Structure BY <1>7 DEF ConnectedReturn, Structure
  <2>2. TypeOK' BY <1>7 DEF ConnectedReturn, Inv, TypeOK, PCs
  <2>3. Control' BY <1>7 DEF ConnectedReturn, Control, NoCall, Exited
  <2> QED BY <2>1, <2>2, <2>3, ForestUnchanged DEF Inv
<1>8. CASE UnionSameReturn
  <2>1. UNCHANGED Structure BY <1>8 DEF UnionSameReturn, Structure
  <2>2. TypeOK' BY <1>8 DEF UnionSameReturn, Inv, TypeOK, PCs
  <2>3. Control' BY <1>8 DEF UnionSameReturn, Control, NoCall, Exited
  <2> QED BY <2>1, <2>2, <2>3, ForestUnchanged DEF Inv
<1>9. CASE UnionLink
  <2>1. TypeOK' BY <1>9, LinkKeepsForest DEF UnionLink, Inv, TypeOK, PCs
  <2>2. Control' BY <1>9 DEF UnionLink, Control, NoCall, Exited
  <2> QED BY <1>9, <2>1, <2>2, LinkKeepsForest DEF Inv
<1>10. CASE Stopped
  BY <1>0, <1>10 DEF Stopped
<1> QED
  BY <1>0, <1>1, <1>2, <1>3, <1>4, <1>5, <1>6, <1>7, <1>8, <1>9, <1>10
  DEF Next, Work
-----------------------------------------------------------------------------
(* The inductive invariant holds in every reachable state. *)
THEOREM Invariance == Spec => []Inv
<1> QED BY InitInv, NextInv, PTL DEF Spec

(* The variables keep their types: no find reads outside the parent array,
   and count never passes 0 or N. *)
THEOREM TypeCorrect == Spec => []TypeOK
<1>1. Inv => TypeOK BY DEF Inv
<1> QED BY <1>1, Invariance, PTL

(* Each set has exactly one root and parents stay within their set. *)
THEOREM SetsHaveOneRoot == Spec => []OneRootPerSet
<1>1. Inv => OneRootPerSet BY DEF Inv
<1> QED BY <1>1, Invariance, PTL

(* Sizes and ranks strictly grow towards the root: no chain is a cycle. *)
THEOREM ChainsClimb == Spec => []WeightGrowsUp
<1>1. Inv => WeightGrowsUp BY DEF Inv
<1> QED BY <1>1, Invariance, PTL

(* count() is the number of sets. *)
THEOREM CountCorrect == Spec => []CountIsSets
<1>1. Inv => CountIsSets BY DEF Inv
<1> QED BY <1>1, Invariance, PTL
-----------------------------------------------------------------------------
(* A power of two is the number of subsets of an interval, and an interval
   one longer has twice as many: those without its last element and those
   with it. *)
LEMMA PowerOfTwo ==
    ASSUME NEW n \in Nat
    PROVE  2 ^ n \in Nat /\ 2 ^ (n + 1) = 2 ^ n + 2 ^ n
<1> DEFINE without == SUBSET (1 .. n)
           with    == {T \in SUBSET (1 .. n + 1) : n + 1 \in T}
<1>1. IsFiniteSet(without) /\ Cardinality(without) = 2 ^ n
  <2>1. IsFiniteSet(1 .. n) /\ Cardinality(1 .. n) = n
    BY FS_Interval
  <2> QED BY <2>1, FS_SUBSET
<1>2. Cardinality(SUBSET (1 .. n + 1)) = 2 ^ (n + 1)
  <2>1. IsFiniteSet(1 .. n + 1) /\ Cardinality(1 .. n + 1) = n + 1
    BY FS_Interval
  <2> QED BY <2>1, FS_SUBSET
<1>3. SUBSET (1 .. n + 1) = without \cup with
  <2>1. \A T : T \subseteq 1 .. n + 1 /\ n + 1 \notin T => T \subseteq 1 .. n
    OBVIOUS
  <2>2. 1 .. n \subseteq 1 .. n + 1
    OBVIOUS
  <2> QED BY <2>1, <2>2
<1>4. without \cap with = {}
  OBVIOUS
<1>5. ExistsBijection(without, with)
  <2> DEFINE extended == [T \in without |-> T \cup {n + 1}]
  <2>1. \A T \in without : T \cup {n + 1} \in with
    OBVIOUS
  <2>2. \A T \in without : n + 1 \notin T
    OBVIOUS
  <2>3. \A S, T \in without : S \cup {n + 1} = T \cup {n + 1} => S = T
    BY <2>2
  <2>4. \A T \in with : T \ {n + 1} \in without /\ (T \ {n + 1}) \cup {n + 1} = T
    OBVIOUS
  <2> HIDE DEF without, with
  <2>5. extended \in [without -> with]
    BY <2>1
  <2>6. \A S, T \in without : extended[S] = extended[T] => S = T
    BY <2>3
  <2>7. \A T \in with : \E S \in without : extended[S] = T
    BY <2>4
  <2> HIDE DEF extended
  <2>8. extended \in Bijection(without, with)
    BY <2>5, <2>6, <2>7 DEF Bijection, Injection, Surjection, IsInjective
  <2> QED BY <2>8 DEF ExistsBijection
<1> HIDE DEF without, with
<1>6. IsFiniteSet(with) /\ Cardinality(with) = Cardinality(without)
  BY <1>1, <1>5, FS_Bijection
<1>7. Cardinality(without) \in Nat
  BY <1>1, FS_CardinalityType
<1>8. Cardinality({}) = 0 BY FS_EmptySet
<1>9. Cardinality(without \cup with) = Cardinality(without) + Cardinality(with)
  BY <1>1, <1>4, <1>6, <1>7, <1>8, FS_Union
<1> QED BY <1>1, <1>2, <1>3, <1>6, <1>7, <1>9

(* The elements of the set of root r. *)
SetOf(r) == {x \in Elems : canon[x] = r}

LEMMA SetsFinite ==
    \A r : /\ IsFiniteSet(SetOf(r)) /\ Cardinality(SetOf(r)) \in Nat
           /\ IsFiniteSet(SetOf(r)') /\ Cardinality(SetOf(r))' \in Nat
<1> TAKE r
<1>1. SetOf(r) \in SUBSET Elems /\ SetOf(r)' \in SUBSET Elems
  BY DEF SetOf
<1> QED BY <1>1, RootsFinite, FS_Subset, FS_CardinalityType

(* In the beginning each set has one element. *)
LEMMA InitMeasured == Init => WeightMeasuresSet
<1> SUFFICES ASSUME Init, NEW r \in Elems
             PROVE  /\ alg = "uf" => 2 ^ weight[r] <= Cardinality(SetOf(r))
                    /\ alg = "wquuf" => weight[r] = Cardinality(SetOf(r))
  BY DEF WeightMeasuresSet, SetOf
<1>1. SetOf(r) = {r} BY DEF Init, SetOf
<1>2. Cardinality(SetOf(r)) = 1 BY <1>1, FS_Singleton
<1>3. 2 ^ 0 = 1
  <2>1. SUBSET {} = {{}} OBVIOUS
  <2>2. Cardinality(SUBSET {}) = 2 ^ Cardinality({})
    BY FS_EmptySet, FS_SUBSET
  <2> QED BY <2>1, <2>2, FS_EmptySet, FS_Singleton
<1> QED BY <1>2, <1>3 DEF Init

(* A union adds the size of the set it takes in; a rank grows only where two
   equal ranks meet, and then the set has doubled. *)
LEMMA LinkMeasured == Inv /\ WeightMeasuresSet /\ UnionLink => WeightMeasuresSet'
<1> SUFFICES ASSUME Inv, WeightMeasuresSet, UnionLink,
                    NEW r \in Elems, IsRoot(r)'
             PROVE  /\ alg = "uf" => 2 ^ weight'[r] <= Cardinality(SetOf(r)')
                    /\ alg = "wquuf" => weight'[r] = Cardinality(SetOf(r)')
  BY DEF WeightMeasuresSet, SetOf, UnionLink
<1> DEFINE first == FirstStays(pid, cursor)
           kept  == IF first THEN pid ELSE cursor
           lost  == IF first THEN cursor ELSE pid
<1>1. /\ kept \in Elems /\ lost \in Elems /\ kept # lost
      /\ pid \in Elems /\ cursor \in Elems
      /\ parent[kept] = kept /\ parent[lost] = lost
  BY DEF UnionLink, Inv, Control, IsRoot
<1>2. parent \in [Elems -> Elems] /\ weight \in [Elems -> Nat]
      /\ canon \in [Elems -> Elems]
  BY DEF Inv, TypeOK
<1>3. parent' = [parent EXCEPT ![lost] = kept]
  BY DEF UnionLink, Linked
<1>4. canon' = [x \in Elems |-> IF canon[x] \in {kept, lost} THEN kept ELSE canon[x]]
  BY DEF UnionLink, Merged
<1>5. /\ alg = "uf" => weight' = IF weight[pid] = weight[cursor]
                                   THEN [weight EXCEPT ![pid] = @ + 1] ELSE weight
      /\ alg = "wquuf" => weight' = [weight EXCEPT ![kept] = weight[pid] + weight[cursor]]
  BY DEF UnionLink, Weighed
<1>6. alg = "uf" => (first <=> weight[pid] >= weight[cursor])
  BY DEF FirstStays
<1>7. weight[pid] + weight[cursor] = weight[kept] + weight[lost]
  BY <1>1, <1>2
<1>8. /\ alg = "uf" => weight'[r] = IF r = kept /\ weight[kept] = weight[lost]
                                      THEN weight[r] + 1 ELSE weight[r]
      /\ alg = "wquuf" => weight'[r] = IF r = kept THEN weight[kept] + weight[lost]
                                         ELSE weight[r]
  <2>1. weight[pid] \in Nat /\ weight[cursor] \in Nat BY <1>1, <1>2
  <2>2. CASE first BY <1>1, <1>2, <1>5, <1>6, <1>7, <2>1, <2>2
  <2>3. CASE ~first BY <1>1, <1>2, <1>5, <1>6, <1>7, <2>1, <2>3
  <2> QED BY <2>2, <2>3
<1> HIDE DEF kept, lost, first
<1>9. r # lost /\ parent[r] = r
  BY <1>1, <1>2, <1>3 DEF IsRoot
<1>10. \A s \in Elems : parent[s] = s =>
           /\ alg = "uf" => 2 ^ weight[s] <= Cardinality(SetOf(s))
           /\ alg = "wquuf" => weight[s] = Cardinality(SetOf(s))
  BY DEF WeightMeasuresSet, SetOf, IsRoot
<1>11. CASE r # kept
  <2>1. SetOf(r)' = SetOf(r) BY <1>4, <1>9, <1>11 DEF SetOf
  <2> QED BY <1>8, <1>9, <1>10, <1>11, <2>1
<1>12. CASE r = kept
  <2>1. SetOf(r)' = SetOf(kept) \cup SetOf(lost)
    BY <1>4, <1>12 DEF SetOf
  <2>2. SetOf(kept) \cap SetOf(lost) = {} BY <1>1 DEF SetOf
  <2>3. Cardinality(SetOf(r)') = Cardinality(SetOf(kept)) + Cardinality(SetOf(lost))
    BY <2>1, <2>2, SetsFinite, FS_Union, FS_EmptySet
  <2> DEFINE sizes(s) == Cardinality(SetOf(s))
  <2>4. sizes(kept) \in Nat /\ sizes(lost) \in Nat BY SetsFinite
  <2>5. CASE alg = "wquuf"
    BY <1>1, <1>8, <1>10, <1>12, <2>3, <2>5
  <2>6. CASE alg = "uf"
    <3>1. weight[kept] \in Nat BY <1>1, <1>2
    <3>2. /\ 2 ^ weight[kept] \in Nat
          /\ 2 ^ (weight[kept] + 1) = 2 ^ weight[kept] + 2 ^ weight[kept]
      BY <3>1, PowerOfTwo
    <3>3. 2 ^ weight[kept] <= sizes(kept) /\ 2 ^ weight[lost] <= sizes(lost)
      BY <1>1, <1>10, <2>6
    <3>4. weight'[r] = IF weight[kept] = weight[lost]
                         THEN weight[kept] + 1 ELSE weight[kept]
      BY <1>8, <1>12, <2>6
    <3> HIDE DEF sizes
    <3>5. CASE weight[kept] = weight[lost]
      <4>1. 2 ^ weight'[r] = 2 ^ weight[kept] + 2 ^ weight[kept]
        BY <3>2, <3>4, <3>5
      <4> QED BY <2>3, <2>4, <2>6, <3>2, <3>3, <3>5, <4>1 DEF sizes
    <3>6. CASE weight[kept] # weight[lost]
      <4>1. weight'[r] = weight[kept] BY <3>4, <3>6
      <4> QED BY <2>3, <2>4, <2>6, <3>2, <3>3, <4>1 DEF sizes
    <3> QED BY <3>5, <3>6
  <2> QED BY <2>5, <2>6
<1> QED BY <1>11, <1>12

(* A size is the number of elements of the set and a rank at most its binary
   logarithm: with N elements no rank passes the logarithm of N. *)
THEOREM WeightsMeasure == Spec => []WeightMeasuresSet
<1>1. Init => WeightMeasuresSet BY InitMeasured
<1>2. Inv /\ WeightMeasuresSet /\ [Next]_vars => WeightMeasuresSet'
  <2> SUFFICES ASSUME Inv, WeightMeasuresSet, [Next]_vars, ~UnionLink
               PROVE  WeightMeasuresSet'
    BY LinkMeasured
  <2>1. UNCHANGED <<alg, parent, weight, canon>>
    BY DEF Next, Work, vars, Invoke, Reject, BeginFind, FindStep, FoundFirst,
           FindReturn, ConnectedReturn, UnionSameReturn, Stopped
  <2> QED BY <2>1 DEF WeightMeasuresSet, IsRoot
<1> QED BY <1>1, <1>2, Invariance, PTL DEF Spec
-----------------------------------------------------------------------------
(* The initial forest represents the partition into singletons. *)
LEMMA InitRefines == Init => P!Init
BY DEF Init, P!Init, Elems, P!Elems, NoCall, P!NoCall, Void, P!Void

(* Each step of a call is a step of the partition or leaves it as it is: a
   call is answered when its last find ends, from the sets of that moment. *)
LEMMA StepRefines == Inv /\ [Next]_vars => [P!Next]_P!pvars
<1> SUFFICES ASSUME Inv, [Next]_vars PROVE [P!Next]_P!pvars
  OBVIOUS
<1>0. /\ P!Calls = Calls /\ P!NoCall = NoCall /\ P!Exited = Exited
      /\ P!Void = Void /\ P!Elems = Elems
      /\ \A c : P!Valid(c) <=> Valid(c)
      /\ \A c, r, s, k : P!Merged(c, r, s, k) = Merged(c, r, s, k)
  BY DEF Calls, P!Calls, Ops, P!Ops, Indices, P!Indices, NoCall, P!NoCall,
         Exited, P!Exited, Void, P!Void, Elems, P!Elems, Valid, P!Valid,
         Merged, P!Merged
<1>1. ASSUME pc \notin {"idle", "exit"} PROVE call \in Calls
  BY <1>1 DEF Inv, TypeOK, Control
<1>2. ASSUME pc \in {"find", "findq"}, IsRoot(cursor)
      PROVE  Valid(call) /\ cursor \in Elems /\ canon[cursor] = cursor
  BY <1>2 DEF Inv, Control, OneRootPerSet
<1>3. CASE UNCHANGED vars
  BY <1>3 DEF vars, P!pvars
<1>4. CASE Invoke
  BY <1>0, <1>4 DEF Invoke, Inv, Control, P!Invoke, P!Next
<1>5. CASE Reject
  BY <1>0, <1>1, <1>5 DEF Reject, P!Exit, P!Next
<1>6. CASE BeginFind \/ FindStep \/ FoundFirst
  BY <1>6 DEF BeginFind, FindStep, FoundFirst, P!pvars
<1>7. CASE FindReturn
  <2>1. cursor = canon[call.p]
    BY <1>2, <1>7 DEF FindReturn, Inv, Control
  <2> QED
    BY <1>0, <1>1, <1>2, <1>7, <2>1
    DEF FindReturn, Return, P!Answer, P!Find, P!Next
<1>8. ASSUME pc = "findq", IsRoot(cursor)
      PROVE  /\ pid = canon[call.p] /\ cursor = canon[call.q]
             /\ call \in Calls /\ Valid(call)
  BY <1>1, <1>2, <1>8 DEF Inv, Control
<1>9. CASE ConnectedReturn
  BY <1>0, <1>8, <1>9
  DEF ConnectedReturn, Return, P!Answer, P!Connected, P!Next
<1>10. CASE UnionSameReturn
  BY <1>0, <1>8, <1>10
  DEF UnionSameReturn, Return, P!Answer, P!UnionSame, P!Next
<1>11. CASE UnionLink
  <2>1. canon[call.p] # canon[call.q]
    BY <1>8, <1>11 DEF UnionLink
  <2>2. P!Answer("union", Void) /\ count' = count - 1
    BY <1>0, <1>8, <1>11 DEF UnionLink, Return, P!Answer
  <2>3. \E k \in {canon[call.p], canon[call.q]} :
            canon' = Merged(canon, canon[call.p], canon[call.q], k)
    BY <1>8, <1>11 DEF UnionLink
  <2> QED BY <1>0, <2>1, <2>2, <2>3 DEF P!UnionMerge, P!Next
<1>12. CASE Stopped
  BY <1>3, <1>12 DEF Stopped
<1> QED
  BY <1>3, <1>4, <1>5, <1>6, <1>7, <1>9, <1>10, <1>11, <1>12 DEF Next, Work

(* quuf, wquuf and uf implement the partition of their headers: for every
   number of elements and every sequence of calls. *)
THEOREM ImplementsPartitionSpec == Spec => P!Spec
<1>1. Init => P!Init BY InitRefines
<1>2. Inv /\ [Next]_vars => [P!Next]_P!pvars BY StepRefines
<1> QED BY <1>1, <1>2, Invariance, PTL DEF Spec, P!Spec
=============================================================================
