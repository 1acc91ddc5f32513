---------------------------- MODULE ForestsProofs ----------------------------
(***************************************************************************)
(* Theorems about the spanning forests and the array heaps, as the run     *)
(* composes them, for every set of graphs with any number of vertices:     *)
(* what Kruskal's, Boruvka's and Prim's algorithms choose is part of a     *)
(* minimum spanning forest, and what Kruskal's and Prim's return spans.    *)
(***************************************************************************)
EXTENDS MCSpanningForests, UnionForestProofs

(* Induction and recursion on the natural numbers up to a bound. *)

(* Every set of natural numbers with an element has a least one. *)
LEMMA LeastNatural ==
    ASSUME NEW J, J \subseteq Nat, J # {}
    PROVE  \E x \in J : \A y \in J : x <= y
<1> DEFINE T == {0 .. x : x \in J}
<1>1. T \subseteq FiniteSubsetsOf(Nat)
  <2> SUFFICES ASSUME NEW x \in J PROVE 0 .. x \in FiniteSubsetsOf(Nat)
    OBVIOUS
  <2>1. IsFiniteSet(0 .. x)
    <3>1. x \in Int /\ 0 \in Int OBVIOUS
    <3> QED BY <3>1, FS_Interval, Zenon
  <2>2. 0 .. x \subseteq Nat OBVIOUS
  <2> QED BY <2>1, <2>2 DEF FiniteSubsetsOf
<1>2. IsWellFoundedOn(StrictSubsetOrdering(Nat), FiniteSubsetsOf(Nat))
  BY FS_StrictSubsetOrderingWellFounded
<1>3. T # {} OBVIOUS
<1>4. PICK t \in T : \A u \in T : <<u, t>> \notin StrictSubsetOrdering(Nat)
  <2> HIDE DEF T
  <2> QED BY <1>1, <1>2, <1>3, WFMin, Zenon
<1>5. PICK x \in J : t = 0 .. x OBVIOUS
<1>6. ASSUME NEW y \in J, y < x PROVE FALSE
  <2>1. 0 .. y \in T OBVIOUS
  <2>2. 0 .. y \subseteq 0 .. x /\ 0 .. y # 0 .. x
    <3>1. x \in 0 .. x /\ x \notin 0 .. y BY <1>6
    <3> QED BY <3>1, <1>6
  <2>3. 0 .. y \in SUBSET Nat /\ 0 .. x \in SUBSET Nat OBVIOUS
  <2>4. <<0 .. y, 0 .. x>> \in StrictSubsetOrdering(Nat)
    BY <2>2, <2>3, Zenon DEF StrictSubsetOrdering
  <2> QED BY <2>1, <2>4, <1>4, <1>5
<1> QED BY <1>6

(* What holds of 0 and goes over to the next number holds up to the bound. *)
LEMMA BoundedInduction ==
    ASSUME NEW J, NEW M \in Nat,
           0 \in J, \A n \in 0 .. M : n < M /\ n \in J => n + 1 \in J
    PROVE  \A n \in 0 .. M : n \in J
<1> DEFINE C == {n \in 0 .. M : n \notin J}
<1> SUFFICES ASSUME C # {} PROVE FALSE
  OBVIOUS
<1>1. PICK n \in C : \A m \in C : n <= m
  <2>1. C \subseteq Nat OBVIOUS
  <2> HIDE DEF C
  <2> QED BY <2>1, LeastNatural
<1>2. n # 0 OBVIOUS
<1>3. n - 1 \in 0 .. M /\ n - 1 \notin C /\ n - 1 < M BY <1>1, <1>2
<1>4. n - 1 \in J BY <1>3
<1>5. (n - 1) + 1 \in J BY <1>3, <1>4
<1> QED BY <1>5, <1>1

(* A recursive function on the numbers up to M whose values are in T: the step
   from n - 1 to n is the function step[n]. *)
Recursive(f, M, base, step) ==
    f = [n \in 0 .. M |-> IF n = 0 THEN base ELSE step[n][f[n - 1]]]

LEMMA RecursionExists ==
    ASSUME NEW T, NEW base \in T, NEW M \in Nat, NEW step \in [1 .. M -> [T -> T]]
    PROVE  \E f \in [0 .. M -> T] : Recursive(f, M, base, step)
<1> DEFINE J == {m \in 0 .. M : \E f \in [0 .. m -> T] : Recursive(f, m, base, step)}
<1>1. 0 \in J
  <2>1. [n \in 0 .. 0 |-> base] \in [0 .. 0 -> T] OBVIOUS
  <2>2. Recursive([n \in 0 .. 0 |-> base], 0, base, step) BY DEF Recursive
  <2> QED BY <2>1, <2>2
<1>2. ASSUME NEW m \in 0 .. M, m < M, m \in J PROVE m + 1 \in J
  <2>1. PICK f \in [0 .. m -> T] : Recursive(f, m, base, step) BY <1>2
  <2>2. \A n \in 0 .. m : f[n] = IF n = 0 THEN base ELSE step[n][f[n - 1]]
    BY <2>1 DEF Recursive
  <2> DEFINE g == [n \in 0 .. m + 1 |-> IF n = m + 1 THEN step[n][f[n - 1]] ELSE f[n]]
  <2>3. g \in [0 .. m + 1 -> T]
    <3> SUFFICES ASSUME NEW n \in 0 .. m + 1 PROVE g[n] \in T
      OBVIOUS
    <3>1. CASE n = m + 1
      <4>1. n \in 1 .. M /\ n - 1 \in 0 .. m BY <3>1, <1>2
      <4> QED BY <4>1, <3>1
    <3>2. CASE n # m + 1 BY <3>2
    <3> QED BY <3>1, <3>2
  <2>4. Recursive(g, m + 1, base, step)
    <3>1. ASSUME NEW n \in 0 .. m + 1
          PROVE  g[n] = IF n = 0 THEN base ELSE step[n][g[n - 1]]
      <4>1. CASE n = 0 BY <4>1, <2>2, <1>2
      <4>2. CASE n = m + 1
        <5>1. g[n - 1] = f[n - 1] /\ n # 0 BY <4>2
        <5> QED BY <5>1, <4>2
      <4>3. CASE n # 0 /\ n # m + 1
        <5>1. n \in 0 .. m /\ n - 1 \in 0 .. m /\ n - 1 # m + 1 BY <4>3
        <5>2. g[n] = f[n] /\ g[n - 1] = f[n - 1] BY <5>1, <4>3
        <5> QED BY <5>1, <5>2, <2>2, <4>3
      <4> QED BY <4>1, <4>2, <4>3
    <3> HIDE DEF g
    <3>2. g = [n \in 0 .. m + 1 |-> g[n]] BY <2>3
    <3> QED BY <3>1, <3>2 DEF Recursive
  <2> HIDE DEF g
  <2> QED BY <2>3, <2>4, <1>2
<1>3. M \in J
  <2>1. M \in 0 .. M OBVIOUS
  <2> HIDE DEF J
  <2>2. \A n \in 0 .. M : n < M /\ n \in J => n + 1 \in J BY <1>2
  <2>3. \A n \in 0 .. M : n \in J BY <1>1, <2>2, BoundedInduction
  <2> QED BY <2>1, <2>3
<1> QED BY <1>3
-----------------------------------------------------------------------------
(* Components and what is joined. *)

USE VAssumption, InfinityAssumption

(* A vertex of a component is found in at most as many rounds as there are
   vertices; reach has what is found by then. *)
LEMMA ReachExists ==
    ASSUME NEW E \in SUBSET Edges, NEW v \in Vertices
    PROVE  \E reach \in [0 .. V -> SUBSET Vertices] :
              /\ reach[0] = {v}
              /\ \A n \in 1 .. V : reach[n] = Wider(E, reach[n - 1])
              /\ Component(E, v) = reach[V]
<1> DEFINE T == SUBSET Vertices
           step == [n \in 1 .. V |-> [S \in T |-> Wider(E, S)]]
           reach == CHOOSE g : g = [n \in 0 .. V |-> IF n = 0 THEN {v} ELSE Wider(E, g[n - 1])]
<1>1. \A S \in T : Wider(E, S) \in T BY DEF Wider, Edges
<1>2. {v} \in T /\ V \in Nat OBVIOUS
<1>3. step \in [1 .. V -> [T -> T]] BY <1>1
<1>4. PICK h \in [0 .. V -> T] : Recursive(h, V, {v}, step)
  <2> HIDE DEF T, step
  <2> QED BY <1>2, <1>3, RecursionExists
<1>5. ASSUME NEW n \in 0 .. V, n # 0
      PROVE  step[n][h[n - 1]] = Wider(E, h[n - 1])
  <2>1. n \in 1 .. V /\ n - 1 \in 0 .. V BY <1>5
  <2>2. h[n - 1] \in T BY <2>1, <1>4
  <2> HIDE DEF T
  <2> QED BY <2>1, <2>2
<1>6. h = [n \in 0 .. V |-> IF n = 0 THEN {v} ELSE Wider(E, h[n - 1])]
  <2> HIDE DEF step, T
  <2> QED BY <1>4, <1>5 DEF Recursive
<1>7. reach = [n \in 0 .. V |-> IF n = 0 THEN {v} ELSE Wider(E, reach[n - 1])]
  BY <1>6, Zenon
<1>8. Component(E, v) = reach[V] BY Zenon DEF Component
<1> HIDE DEF reach, step
<1> DEFINE e(n) == IF n = 0 THEN {v} ELSE Wider(E, reach[n - 1])
<1>9. \A n \in 0 .. V : reach[n] = e(n)
  <2> HIDE DEF T, e
  <2>1. reach = [n \in 0 .. V |-> e(n)] BY <1>7 DEF e
  <2> QED BY <2>1
<1> DEFINE J == {n \in 0 .. V : reach[n] \in T}
<1>10. 0 \in J BY <1>9
<1>11. ASSUME NEW n \in 0 .. V, n < V, n \in J PROVE n + 1 \in J
  <2>1. n + 1 \in 0 .. V /\ (n + 1) - 1 = n /\ n + 1 # 0 BY <1>11
  <2>2. reach[n + 1] = Wider(E, reach[n]) BY <2>1, <1>9
  <2> HIDE DEF T
  <2> QED BY <2>1, <2>2, <1>1, <1>11
<1>12. \A n \in 0 .. V : reach[n] \in T
  <2>1. \A n \in 0 .. V : n < V /\ n \in J => n + 1 \in J BY <1>11
  <2>2. \A n \in 0 .. V : n \in J
    <3> HIDE DEF J
    <3> QED BY <1>10, <2>1, BoundedInduction
  <2> QED BY <2>2
<1>13. reach \in [0 .. V -> T]
  <2>1. \A n \in 0 .. V : e(n) \in T BY <1>9, <1>12
  <2> HIDE DEF T, e
  <2>2. reach = [n \in 0 .. V |-> e(n)] BY <1>7 DEF e
  <2> QED BY <2>1, <2>2
<1>14. reach[0] = {v} BY <1>9
<1>15. \A n \in 1 .. V : reach[n] = Wider(E, reach[n - 1]) BY <1>9
<1> QED BY <1>8, <1>13, <1>14, <1>15

(* No edge of E leads out of S. *)
Closed(E, S) == \A e \in E : e.v \in S <=> e.w \in S

LEMMA ClosedStays ==
    ASSUME NEW E \in SUBSET Edges, NEW S \in SUBSET Vertices, Closed(E, S)
    PROVE  Wider(E, S) = S
BY DEF Wider, Closed

LEMMA OpenGrows ==
    ASSUME NEW E \in SUBSET Edges, NEW S \in SUBSET Vertices, ~Closed(E, S)
    PROVE  S \subseteq Wider(E, S) /\ Wider(E, S) # S
<1>1. PICK e \in E : ~(e.v \in S <=> e.w \in S) BY DEF Closed
<1>2. {e.v, e.w} \subseteq Wider(E, S) BY <1>1 DEF Wider
<1>3. S \subseteq Wider(E, S) BY DEF Wider
<1> QED BY <1>1, <1>2, <1>3

LEMMA VerticesFinite == IsFiniteSet(Vertices) /\ Cardinality(Vertices) = V
<1>1. 0 \in Int /\ V - 1 \in Int /\ 0 <= V - 1 OBVIOUS
<1>2. IsFiniteSet(0 .. V - 1)
      /\ Cardinality(0 .. V - 1) = IF 0 > V - 1 THEN 0 ELSE (V - 1) - 0 + 1
  BY <1>1, FS_Interval
<1> QED BY <1>1, <1>2 DEF Vertices

(* The component is the least set with v in it that no edge leads out of. *)
LEMMA ComponentLeast ==
    ASSUME NEW E \in SUBSET Edges, NEW v \in Vertices
    PROVE  /\ Component(E, v) \subseteq Vertices
           /\ v \in Component(E, v)
           /\ Closed(E, Component(E, v))
           /\ \A S : v \in S /\ Closed(E, S) => Component(E, v) \subseteq S
<1>1. PICK reach \in [0 .. V -> SUBSET Vertices] :
          /\ reach[0] = {v}
          /\ \A n \in 1 .. V : reach[n] = Wider(E, reach[n - 1])
          /\ Component(E, v) = reach[V]
  BY ReachExists
<1>2. V \in 0 .. V /\ 0 \in 0 .. V /\ V \in Nat OBVIOUS
<1>3. ASSUME NEW n \in 0 .. V, n < V
      PROVE  /\ n + 1 \in 0 .. V /\ reach[n + 1] = Wider(E, reach[n])
             /\ reach[n] \in SUBSET Vertices /\ reach[n + 1] \in SUBSET Vertices
  <2>1. n + 1 \in 1 .. V /\ (n + 1) - 1 = n BY <1>3
  <2> QED BY <2>1, <1>1
<1>4. v \in reach[V]
  <2> DEFINE J == {n \in 0 .. V : v \in reach[n]}
  <2>1. 0 \in J BY <1>1
  <2>2. \A n \in 0 .. V : n < V /\ n \in J => n + 1 \in J BY <1>3 DEF Wider
  <2>3. \A n \in 0 .. V : n \in J
    <3> HIDE DEF J
    <3> QED BY <2>1, <2>2, BoundedInduction
  <2> QED BY <2>3, <1>2
<1>5. ASSUME NEW S, v \in S, Closed(E, S) PROVE reach[V] \subseteq S
  <2> DEFINE J == {n \in 0 .. V : reach[n] \subseteq S}
  <2>1. 0 \in J BY <1>1, <1>5
  <2>2. ASSUME NEW n \in 0 .. V, n < V, n \in J PROVE n + 1 \in J
    <3>1. Wider(E, reach[n]) \subseteq S BY <2>2, <1>5 DEF Wider, Closed
    <3> QED BY <3>1, <1>3, <2>2
  <2>3. \A n \in 0 .. V : n < V /\ n \in J => n + 1 \in J BY <2>2
  <2>4. \A n \in 0 .. V : n \in J
    <3> HIDE DEF J
    <3> QED BY <2>1, <2>3, BoundedInduction
  <2> QED BY <2>4, <1>2
<1>6. Closed(E, reach[V])
  <2> DEFINE J == {n \in 0 .. V : Closed(E, reach[n]) \/ Cardinality(reach[n]) >= n + 1}
  <2>1. \A n \in 0 .. V : IsFiniteSet(reach[n]) /\ Cardinality(reach[n]) \in Nat
                            /\ Cardinality(reach[n]) <= V
    <3> SUFFICES ASSUME NEW n \in 0 .. V
                 PROVE IsFiniteSet(reach[n]) /\ Cardinality(reach[n]) \in Nat
                            /\ Cardinality(reach[n]) <= V
      OBVIOUS
    <3>1. reach[n] \subseteq Vertices BY <1>1
    <3>2. IsFiniteSet(reach[n]) /\ Cardinality(reach[n]) <= Cardinality(Vertices)
      BY <3>1, VerticesFinite, FS_Subset
    <3> QED BY <3>2, VerticesFinite, FS_CardinalityType
  <2>2. 0 \in J
    <3>1. Cardinality({v}) = 1 BY FS_Singleton
    <3>2. Cardinality(reach[0]) >= 0 + 1 BY <3>1, <1>1
    <3> QED BY <3>2, <1>2
  <2>3. ASSUME NEW n \in 0 .. V, n < V, n \in J PROVE n + 1 \in J
    <3>1. CASE Closed(E, reach[n])
      <4>1. reach[n + 1] = reach[n] BY <3>1, <1>3, <2>3, ClosedStays
      <4> QED BY <4>1, <3>1, <1>3, <2>3
    <3>2. CASE ~Closed(E, reach[n])
      <4>1. reach[n] \subseteq reach[n + 1] /\ reach[n] # reach[n + 1]
        BY <3>2, <1>3, <2>3, OpenGrows
      <4>2. n + 1 \in 0 .. V BY <1>3, <2>3
      <4>3. IsFiniteSet(reach[n + 1]) BY <4>2, <2>1
      <4>4. /\ Cardinality(reach[n]) <= Cardinality(reach[n + 1])
            /\ Cardinality(reach[n]) # Cardinality(reach[n + 1])
        BY <4>1, <4>3, FS_Subset
      <4>5. Cardinality(reach[n]) >= n + 1 BY <2>3, <3>2
      <4> QED BY <4>4, <4>5, <4>2, <2>1
    <3> QED BY <3>1, <3>2
  <2>4. \A n \in 0 .. V : n < V /\ n \in J => n + 1 \in J BY <2>3
  <2>5. \A n \in 0 .. V : n \in J
    <3> HIDE DEF J
    <3> QED BY <2>2, <2>4, BoundedInduction
  <2>6. Closed(E, reach[V]) \/ Cardinality(reach[V]) >= V + 1 BY <2>5, <1>2
  <2> QED BY <2>6, <2>1, <1>2
<1> QED BY <1>1, <1>2, <1>4, <1>5, <1>6

(* Of the components it is only this that is used. *)
LEMMA JoinedRight ==
    ASSUME NEW E \in SUBSET Edges, NEW v \in Vertices, NEW w
    PROVE  /\ Joined(E, v, w) => w \in Vertices
           /\ Joined(E, v, v)
           /\ \A e \in E : Joined(E, v, e.v) <=> Joined(E, v, e.w)
           /\ \A S : v \in S /\ Closed(E, S) /\ Joined(E, v, w) => w \in S
BY ComponentLeast DEF Joined, Closed

LEMMA EdgeEnds == \A e \in Edges : e.v \in Vertices /\ e.w \in Vertices /\ e.weight \in Int
BY DEF Edges, Weights

LEMMA JoinedTransitive ==
    ASSUME NEW E \in SUBSET Edges, NEW u \in Vertices, NEW v \in Vertices, NEW w,
           Joined(E, u, v), Joined(E, v, w)
    PROVE  Joined(E, u, w)
<1> DEFINE S == {x \in Vertices : Joined(E, u, x)}
<1>1. v \in S OBVIOUS
<1>2. Closed(E, S) BY JoinedRight, EdgeEnds DEF Closed
<1> HIDE DEF S
<1>3. w \in S BY <1>1, <1>2, JoinedRight
<1> QED BY <1>3 DEF S

LEMMA JoinedSymmetric ==
    ASSUME NEW E \in SUBSET Edges, NEW v \in Vertices, NEW w, Joined(E, v, w)
    PROVE  Joined(E, w, v)
<1> DEFINE S == {x \in Vertices : Joined(E, x, v)}
<1>1. v \in S BY JoinedRight
<1>2. ASSUME NEW e \in E PROVE e.v \in S <=> e.w \in S
  <2>1. e.v \in Vertices /\ e.w \in Vertices BY EdgeEnds
  <2>2. Joined(E, e.v, e.v) /\ Joined(E, e.w, e.w) BY <2>1, JoinedRight
  <2>3. Joined(E, e.v, e.w) /\ Joined(E, e.w, e.v) BY <2>1, <2>2, JoinedRight
  <2> QED BY <2>1, <2>3, JoinedTransitive
<1>3. Closed(E, S)
  <2> HIDE DEF S
  <2> QED BY <1>2 DEF Closed
<1> HIDE DEF S
<1>4. w \in S BY <1>1, <1>3, JoinedRight
<1> QED BY <1>4 DEF S

LEMMA JoinedEdge ==
    ASSUME NEW E \in SUBSET Edges, NEW e \in E
    PROVE  Joined(E, e.v, e.w) /\ Joined(E, e.w, e.v)
<1>1. e.v \in Vertices /\ e.w \in Vertices BY EdgeEnds
<1>2. Joined(E, e.v, e.v) /\ Joined(E, e.w, e.w) BY <1>1, JoinedRight
<1> QED BY <1>1, <1>2, JoinedRight

(* What D joins, E joins, if E joins the ends of the edges in D. *)
LEMMA JoinedThrough ==
    ASSUME NEW D \in SUBSET Edges, NEW E \in SUBSET Edges,
           \A e \in D : Joined(E, e.v, e.w),
           NEW v \in Vertices, NEW w, Joined(D, v, w)
    PROVE  Joined(E, v, w)
<1> DEFINE S == {x \in Vertices : Joined(E, v, x)}
<1>1. v \in S BY JoinedRight
<1>2. ASSUME NEW e \in D PROVE e.v \in S <=> e.w \in S
  <2>1. e.v \in Vertices /\ e.w \in Vertices /\ Joined(E, e.v, e.w) BY EdgeEnds
  <2>2. Joined(E, e.w, e.v) BY <2>1, JoinedSymmetric
  <2> QED BY <2>1, <2>2, JoinedTransitive
<1>3. Closed(D, S)
  <2> HIDE DEF S
  <2> QED BY <1>2 DEF Closed
<1> HIDE DEF S
<1>4. w \in S BY <1>1, <1>3, JoinedRight
<1> QED BY <1>4 DEF S

LEMMA JoinedMore ==
    ASSUME NEW D \in SUBSET Edges, NEW E \in SUBSET Edges, D \subseteq E,
           NEW v \in Vertices, NEW w, Joined(D, v, w)
    PROVE  Joined(E, v, w)
<1>1. \A e \in D : Joined(E, e.v, e.w) BY JoinedEdge
<1> QED BY <1>1, JoinedThrough

(* A path that uses a new edge uses it once, in one direction. *)
LEMMA JoinedAdd ==
    ASSUME NEW E \in SUBSET Edges, NEW e \in Edges, NEW v \in Vertices, NEW w,
           Joined(E \cup {e}, v, w)
    PROVE  \/ Joined(E, v, w)
           \/ Joined(E, v, e.v) /\ Joined(E, e.w, w)
           \/ Joined(E, v, e.w) /\ Joined(E, e.v, w)
<1> DEFINE Over(x) == \/ Joined(E, v, x)
                      \/ Joined(E, v, e.v) /\ Joined(E, e.w, x)
                      \/ Joined(E, v, e.w) /\ Joined(E, e.v, x)
           S == {x \in Vertices : Over(x)}
<1>0. e.v \in Vertices /\ e.w \in Vertices BY EdgeEnds
<1>1. v \in S BY JoinedRight
<1>2. ASSUME NEW f \in E PROVE Over(f.v) <=> Over(f.w)
  BY <1>0, JoinedRight
<1>3. Over(e.v) <=> Over(e.w)
  <2>1. Joined(E, e.v, e.v) /\ Joined(E, e.w, e.w) BY <1>0, JoinedRight
  <2>2. CASE Over(e.v)
    <3>1. Joined(E, v, e.v) \/ (Joined(E, v, e.w) /\ Joined(E, e.v, e.v))
      BY <2>2, <2>1
    <3> QED BY <3>1, <2>1, <2>2
  <2>3. CASE Over(e.w)
    <3>1. Joined(E, v, e.w) \/ (Joined(E, v, e.v) /\ Joined(E, e.w, e.w))
      BY <2>3, <2>1
    <3> QED BY <3>1, <2>1, <2>3
  <2> QED BY <2>2, <2>3
<1>4. Closed(E \cup {e}, S)
  <2>1. \A f \in E \cup {e} : f.v \in Vertices /\ f.w \in Vertices BY EdgeEnds
  <2> HIDE DEF Over
  <2> QED BY <2>1, <1>2, <1>3 DEF Closed
<1>5. E \cup {e} \in SUBSET Edges OBVIOUS
<1>6. w \in S
  <2> HIDE DEF S
  <2> QED BY <1>1, <1>4, <1>5, JoinedRight
<1> QED BY <1>6
-----------------------------------------------------------------------------
(* Minimum spanning forests. *)

(* The edges of E lighter than e and those of A that weigh the same. *)
Before(A, E, e) ==
    {g \in E : g.weight < e.weight} \cup {g \in A : g.weight = e.weight}

(* An edge may be added when the lighter ones, and its equals in the part that
   there is, do not join its ends. *)
LEMMA MinimumGrows ==
    ASSUME NEW E \in SUBSET Edges, NEW A \in SUBSET E, NEW e \in E,
           PartOfMinimum(A, E), ~Joined(Before(A, E, e), e.v, e.w)
    PROVE  PartOfMinimum(A \cup {e}, E)
<1> DEFINE Rivals(M, f) == {g \in E : g.weight < f.weight}
                           \cup {g \in M \ {f} : g.weight = f.weight}
<1> SUFFICES ASSUME NEW f \in A \cup {e}
             PROVE  ~Joined(Rivals(A \cup {e}, f), f.v, f.w)
  BY DEF PartOfMinimum
<1>1. /\ e \in Edges /\ f \in Edges /\ A \subseteq Edges
      /\ Rivals(A, f) \in SUBSET Edges /\ Before(A, E, e) \in SUBSET Edges
      /\ Rivals(A \cup {e}, f) \in SUBSET Edges
  BY DEF Before
<1>2. CASE f = e
  <2>1. Rivals(A \cup {e}, e) \subseteq Before(A, E, e) BY DEF Before
  <2>2. e.v \in Vertices BY <1>1, EdgeEnds
  <2> HIDE DEF Rivals
  <2> QED BY <2>1, <2>2, <1>1, <1>2, JoinedMore
<1>3. CASE f # e /\ f.weight # e.weight
  <2>1. Rivals(A \cup {e}, f) = Rivals(A, f) BY <1>3
  <2>2. ~Joined(Rivals(A, f), f.v, f.w) BY <1>3 DEF PartOfMinimum
  <2> QED BY <2>1, <2>2
<1>4. CASE f # e /\ f.weight = e.weight
  <2>1. Rivals(A \cup {e}, f) = Rivals(A, f) \cup {e} BY <1>4
  <2>2. ~Joined(Rivals(A, f), f.v, f.w) BY <1>4 DEF PartOfMinimum
  <2>3. Rivals(A, f) \cup {f} \subseteq Before(A, E, e) BY <1>4 DEF Before
  <2>4. e.v \in Vertices /\ e.w \in Vertices /\ f.v \in Vertices /\ f.w \in Vertices
    BY <1>1, EdgeEnds
  <2>5. Joined(Before(A, E, e), f.v, f.w) /\ Joined(Before(A, E, e), f.w, f.v)
    <3> HIDE DEF Rivals
    <3> QED BY <2>3, <1>1, JoinedEdge
  <2>6. \A x, y \in Vertices : Joined(Rivals(A, f), x, y)
                   => Joined(Before(A, E, e), x, y) /\ Joined(Before(A, E, e), y, x)
    <3> HIDE DEF Rivals
    <3> QED BY <2>3, <1>1, JoinedMore, JoinedSymmetric
  <2> HIDE DEF Rivals
  <2> SUFFICES ASSUME Joined(Rivals(A, f) \cup {e}, f.v, f.w) PROVE FALSE
    BY <2>1
  <2>7. CASE Joined(Rivals(A, f), f.v, e.v) /\ Joined(Rivals(A, f), e.w, f.w)
    <3>1. Joined(Before(A, E, e), e.v, f.v) /\ Joined(Before(A, E, e), f.w, e.w)
      BY <2>6, <2>7, <2>4
    <3> QED BY <3>1, <2>5, <2>4, <1>1, JoinedTransitive
  <2>8. CASE Joined(Rivals(A, f), f.v, e.w) /\ Joined(Rivals(A, f), e.v, f.w)
    <3>1. Joined(Before(A, E, e), f.v, e.w) /\ Joined(Before(A, E, e), e.v, f.w)
      BY <2>6, <2>8, <2>4
    <3> QED BY <3>1, <2>5, <2>4, <1>1, JoinedTransitive
  <2> QED BY <2>2, <2>4, <2>7, <2>8, <1>1, JoinedAdd
<1> QED BY <1>2, <1>3, <1>4
-----------------------------------------------------------------------------
(* Adjacency lists. *)

LEMMA SetOfSeq ==
    ASSUME NEW S, NEW s \in Seq(S)
    PROVE  /\ Len(s) \in Nat /\ DOMAIN s = 1 .. Len(s)
           /\ \A n \in 1 .. Len(s) : s[n] \in ToSet(s) /\ s[n] \in S
           /\ \A x \in ToSet(s) : \E n \in 1 .. Len(s) : x = s[n]
           /\ ToSet(s) \subseteq S
BY DEF ToSet

LEMMA PrependRight ==
    ASSUME NEW S, NEW s \in Seq(S), NEW e \in S
    PROVE  /\ <<e>> \o s \in Seq(S)
           /\ Len(<<e>> \o s) = Len(s) + 1
           /\ (<<e>> \o s)[1] = e
           /\ \A n \in 1 .. Len(s) : (<<e>> \o s)[n + 1] = s[n]
           /\ ToSet(<<e>> \o s) = {e} \cup ToSet(s)
<1>1. /\ <<e>> \o s \in Seq(S)
      /\ Len(<<e>> \o s) = Len(s) + 1
      /\ (<<e>> \o s)[1] = e
      /\ \A n \in 1 .. Len(s) : (<<e>> \o s)[n + 1] = s[n]
  OBVIOUS
<1>2. ToSet(<<e>> \o s) = {e} \cup ToSet(s)
  <2> DEFINE t == <<e>> \o s
  <2>0. /\ t \in Seq(S) /\ Len(t) = Len(s) + 1 /\ t[1] = e
        /\ \A n \in 1 .. Len(s) : t[n + 1] = s[n]
    BY <1>1
  <2> HIDE DEF t
  <2>1. ASSUME NEW x \in ToSet(s) PROVE x \in ToSet(t)
    <3>1. PICK n \in 1 .. Len(s) : x = s[n] BY SetOfSeq
    <3>2. n + 1 \in 1 .. Len(t) /\ t[n + 1] = s[n] BY <2>0, SetOfSeq
    <3> QED BY <3>1, <3>2, <2>0, SetOfSeq
  <2>2. e \in ToSet(t)
    <3>1. 1 \in 1 .. Len(t) BY <2>0, SetOfSeq
    <3> QED BY <3>1, <2>0, SetOfSeq
  <2>3. ASSUME NEW n \in 1 .. Len(t) PROVE t[n] \in {e} \cup ToSet(s)
    <3>1. CASE n = 1 BY <3>1, <2>0
    <3>2. CASE n # 1
      <4>1. n - 1 \in 1 .. Len(s) /\ (n - 1) + 1 = n BY <3>2, <2>0, SetOfSeq
      <4>2. t[n] = s[n - 1] BY <4>1, <2>0
      <4> QED BY <4>1, <4>2, SetOfSeq
    <3> QED BY <3>1, <3>2
  <2>4. \A x \in ToSet(t) : x \in {e} \cup ToSet(s) BY <2>0, <2>3, SetOfSeq
  <2>5. ToSet(t) = {e} \cup ToSet(s) BY <2>1, <2>2, <2>4
  <2> QED BY <2>5 DEF t
<1> QED BY <1>1, <1>2

(* Loops counts one entry after the other. *)
LEMMA LoopsCounted ==
    ASSUME NEW list, NEW v, NEW M \in Nat
    PROVE  /\ Loops(list, v, 0) = 0
           /\ Loops(list, v, M) \in Nat
           /\ Loops(list, v, M + 1) = Loops(list, v, M)
                                    + (IF Other(list[M + 1], v) = v THEN 1 ELSE 0)
<1> DEFINE loops(n) == {m \in 1 .. n : Other(list[m], v) = v}
<1>1. loops(0) = {} OBVIOUS
<1>2. IsFiniteSet(loops(M))
  <2>1. 1 \in Int /\ M \in Int OBVIOUS
  <2>2. IsFiniteSet(1 .. M) BY <2>1, FS_Interval
  <2>3. loops(M) \subseteq 1 .. M OBVIOUS
  <2> HIDE DEF loops
  <2> QED BY <2>2, <2>3, FS_Subset
<1>3. loops(M + 1) = IF Other(list[M + 1], v) = v THEN loops(M) \cup {M + 1} ELSE loops(M)
  <2>1. 1 .. M + 1 = (1 .. M) \cup {M + 1} OBVIOUS
  <2> QED BY <2>1
<1>4. M + 1 \notin loops(M) OBVIOUS
<1>5. \A n : Loops(list, v, n) = Cardinality(loops(n)) BY DEF Loops
<1> HIDE DEF loops
<1>6. Cardinality(loops(M)) \in Nat BY <1>2, FS_CardinalityType
<1>7. Cardinality(loops(M) \cup {M + 1}) = Cardinality(loops(M)) + 1
  BY <1>2, <1>4, FS_AddElement
<1>8. Loops(list, v, M + 1) = Loops(list, v, M)
                              + (IF Other(list[M + 1], v) = v THEN 1 ELSE 0)
  <2>1. CASE Other(list[M + 1], v) = v
    BY <1>3, <1>5, <1>7, <2>1
  <2>2. CASE Other(list[M + 1], v) # v
    BY <1>3, <1>5, <1>6, <2>2
  <2> QED BY <2>1, <2>2
<1> QED BY <1>1, <1>5, <1>6, <1>8, FS_EmptySet

(* What is put in front of a list shifts the counts behind it. *)
LEMMA LoopsShift ==
    ASSUME NEW s \in Seq(Edges), NEW e \in Edges, NEW v, NEW n \in 0 .. Len(s)
    PROVE  Loops(<<e>> \o s, v, n + 1)
               = Loops(s, v, n) + (IF Other(e, v) = v THEN 1 ELSE 0)
<1> DEFINE d == IF Other(e, v) = v THEN 1 ELSE 0
           t == <<e>> \o s
           J == {m \in 0 .. Len(s) : Loops(t, v, m + 1) = Loops(s, v, m) + d}
<1>1. /\ Len(s) \in Nat /\ t[1] = e
      /\ \A m \in 1 .. Len(s) : t[m + 1] = s[m]
  BY PrependRight
<1>2. 0 \in J
  <2> HIDE DEF t
  <2>1. Loops(t, v, 0) = 0 /\ Loops(s, v, 0) = 0
        /\ Loops(t, v, 0 + 1) = Loops(t, v, 0) + (IF Other(t[0 + 1], v) = v THEN 1 ELSE 0)
    BY LoopsCounted
  <2> QED BY <2>1, <1>1
<1>3. ASSUME NEW m \in 0 .. Len(s), m < Len(s), m \in J PROVE m + 1 \in J
  <2>1. m \in Nat /\ m + 1 \in Nat /\ m + 1 \in 1 .. Len(s) BY <1>1, <1>3
  <2> HIDE DEF t
  <2>2. Loops(s, v, m + 1) = Loops(s, v, m) + (IF Other(s[m + 1], v) = v THEN 1 ELSE 0)
    BY <2>1, LoopsCounted
  <2>3. Loops(t, v, m + 1 + 1) = Loops(t, v, m + 1) + (IF Other(t[m + 1 + 1], v) = v THEN 1 ELSE 0)
    BY <2>1, LoopsCounted
  <2>4. t[m + 1 + 1] = s[m + 1] BY <1>1, <2>1
  <2>5. Loops(s, v, m) \in Nat BY <2>1, LoopsCounted
  <2> HIDE DEF d
  <2>6. d \in Nat BY DEF d
  <2>7. Loops(t, v, m + 1) = Loops(s, v, m) + d BY <1>3
  <2>8. Loops(t, v, m + 1 + 1) = Loops(s, v, m + 1) + d
    <3>1. CASE Other(s[m + 1], v) = v BY <3>1, <2>2, <2>3, <2>4, <2>5, <2>6, <2>7
    <3>2. CASE Other(s[m + 1], v) # v BY <3>2, <2>2, <2>3, <2>4, <2>5, <2>6, <2>7
    <3> QED BY <3>1, <3>2
  <2> QED BY <2>1, <2>8
<1>4. \A m \in 0 .. Len(s) : m < Len(s) /\ m \in J => m + 1 \in J BY <1>3
<1> HIDE DEF J, d, t
<1>5. \A m \in 0 .. Len(s) : m \in J BY <1>1, <1>2, <1>4, BoundedInduction
<1> QED BY <1>5 DEF J, d, t

(* Of the entries of an adjacency list that are taken no two are equal, and
   an edge that leads to no smaller vertex has one. *)
ListRight(s, v) ==
    /\ s \in Seq(Edges)
    /\ \A e \in ToSet(s) : v \in {e.v, e.w}
    /\ \A m, n \in 1 .. Len(s) :
          Taken(s, v, m) /\ Taken(s, v, n) /\ s[m] = s[n] => m = n
    /\ \A e \in ToSet(s) : Other(e, v) >= v =>
          \E n \in 1 .. Len(s) : s[n] = e /\ Taken(s, v, n)

LEMMA PlainEntry ==
    ASSUME NEW s, NEW v \in Vertices, ListRight(s, v),
           NEW e \in Edges, e \notin ToSet(s), v \in {e.v, e.w}, Other(e, v) # v
    PROVE  ListRight(<<e>> \o s, v)
<1> DEFINE t == <<e>> \o s
<1>1. /\ s \in Seq(Edges) /\ Len(s) \in Nat /\ t \in Seq(Edges) /\ Len(t) = Len(s) + 1
      /\ t[1] = e /\ ToSet(t) = {e} \cup ToSet(s)
      /\ \A n \in 1 .. Len(s) : t[n + 1] = s[n]
  BY PrependRight, SetOfSeq DEF ListRight
<1>2. ASSUME NEW n \in 1 .. Len(s) PROVE Taken(t, v, n + 1) <=> Taken(s, v, n)
  <2>1. n \in 0 .. Len(s) /\ Loops(s, v, n) \in Nat BY LoopsCounted, <1>1
  <2>2. Loops(t, v, n + 1) = Loops(s, v, n) + 0 BY <1>1, <2>1, LoopsShift
  <2> HIDE DEF t
  <2> QED BY <1>1, <2>1, <2>2 DEF Taken
<1>3. Taken(t, v, 1) <=> Other(e, v) > v
  <2> HIDE DEF t
  <2> QED BY <1>1 DEF Taken
<1>4. Other(e, v) \in Int /\ v \in Int BY DEF Edges, Vertices, Other
<1>5. ASSUME NEW n \in 1 .. Len(t)
      PROVE  n = 1 \/ (n - 1 \in 1 .. Len(s) /\ (n - 1) + 1 = n /\ t[n] \in ToSet(s))
  <2> HIDE DEF t
  <2>1. CASE n # 1
    <3>1. n - 1 \in 1 .. Len(s) /\ (n - 1) + 1 = n BY <2>1, <1>1
    <3>2. t[n] = s[n - 1] BY <3>1, <1>1
    <3>3. s[n - 1] \in ToSet(s) BY <3>1, <1>1, SetOfSeq
    <3> QED BY <3>1, <3>2, <3>3
  <2> QED BY <2>1
<1> HIDE DEF t
<1>6. ASSUME NEW m \in 1 .. Len(t), NEW n \in 1 .. Len(t),
             Taken(t, v, m), Taken(t, v, n), t[m] = t[n]
      PROVE  m = n
  <2>1. (m = 1 <=> n = 1)
    <3>1. m # 1 => t[m] # e BY <1>5
    <3>2. n # 1 => t[n] # e BY <1>5
    <3> QED BY <3>1, <3>2, <1>1, <1>6
  <2>2. CASE m # 1
    <3>1. m - 1 \in 1 .. Len(s) /\ n - 1 \in 1 .. Len(s) /\ (m - 1) + 1 = m /\ (n - 1) + 1 = n
      BY <2>1, <2>2, <1>5
    <3>2. Taken(s, v, m - 1) /\ Taken(s, v, n - 1) /\ s[m - 1] = s[n - 1]
      BY <3>1, <1>1, <1>2, <1>6
    <3>3. m - 1 = n - 1 BY <3>1, <3>2 DEF ListRight
    <3> QED BY <3>3, <3>1
  <2> QED BY <2>1, <2>2
<1>7. ASSUME NEW f \in ToSet(t), Other(f, v) >= v
      PROVE  \E n \in 1 .. Len(t) : t[n] = f /\ Taken(t, v, n)
  <2>1. CASE f = e
    <3>1. Taken(t, v, 1) /\ 1 \in 1 .. Len(t) BY <1>1, <1>3, <1>4, <1>7, <2>1
    <3> QED BY <3>1, <2>1, <1>1
  <2>2. CASE f \in ToSet(s)
    <3>1. PICK n \in 1 .. Len(s) : s[n] = f /\ Taken(s, v, n)
      BY <2>2, <1>7 DEF ListRight
    <3>2. n + 1 \in 1 .. Len(t) /\ t[n + 1] = f /\ Taken(t, v, n + 1)
      BY <3>1, <1>1, <1>2
    <3> QED BY <3>2
  <2> QED BY <2>1, <2>2, <1>1
<1>8. \A f \in ToSet(t) : v \in {f.v, f.w} BY <1>1 DEF ListRight
<1>9. ListRight(t, v) BY <1>1, <1>6, <1>7, <1>8 DEF ListRight
<1> QED BY <1>9 DEF t

(* A self-loop comes twice, and the first of the two is taken. *)
LEMMA LoopEntry ==
    ASSUME NEW s, NEW v \in Vertices, ListRight(s, v),
           NEW e \in Edges, e \notin ToSet(s), e.v = v, e.w = v
    PROVE  ListRight(<<e>> \o (<<e>> \o s), v)
<1> DEFINE r == <<e>> \o s
           t == <<e>> \o r
<1>0. /\ s \in Seq(Edges) /\ Len(s) \in Nat /\ r \in Seq(Edges) /\ Len(r) = Len(s) + 1
      /\ r[1] = e /\ ToSet(r) = {e} \cup ToSet(s)
      /\ \A n \in 1 .. Len(s) : r[n + 1] = s[n]
  BY PrependRight, SetOfSeq DEF ListRight
<1>1. /\ t \in Seq(Edges) /\ Len(t) = Len(s) + 2
      /\ t[1] = e /\ t[2] = e /\ ToSet(t) = {e} \cup ToSet(s)
      /\ \A n \in 1 .. Len(s) : t[n + 2] = s[n]
  <2> HIDE DEF r
  <2>1. /\ t \in Seq(Edges) /\ Len(t) = Len(r) + 1
        /\ t[1] = e /\ ToSet(t) = {e} \cup ToSet(r)
        /\ \A n \in 1 .. Len(r) : t[n + 1] = r[n]
    BY <1>0, PrependRight
  <2> HIDE DEF t
  <2>2. t[1 + 1] = r[1] BY <2>1, <1>0
  <2>3. ASSUME NEW n \in 1 .. Len(s) PROVE t[n + 2] = s[n]
    <3>1. n + 1 \in 1 .. Len(r) /\ (n + 1) + 1 = n + 2 BY <1>0
    <3> QED BY <3>1, <2>1, <1>0
  <2> QED BY <2>1, <2>2, <2>3, <1>0
<1>e. Other(e, v) = v /\ v \in Int BY DEF Other, Vertices
<1>2. ASSUME NEW n \in 1 .. Len(s) PROVE Taken(t, v, n + 2) <=> Taken(s, v, n)
  <2>1. n \in 0 .. Len(s) /\ n + 1 \in 0 .. Len(r) /\ Loops(s, v, n) \in Nat
    BY LoopsCounted, <1>0
  <2>2. Loops(r, v, n + 1) = Loops(s, v, n) + 1 BY <1>0, <1>e, <2>1, LoopsShift
  <2> HIDE DEF r
  <2>3. Loops(t, v, n + 1 + 1) = Loops(r, v, n + 1) + 1 BY <1>0, <1>e, <2>1, LoopsShift
  <2>4. n + 1 + 1 = n + 2 /\ t[n + 2] = s[n] BY <1>1
  <2> HIDE DEF t
  <2>5. Loops(t, v, n + 2) = Loops(s, v, n) + 2 BY <2>1, <2>2, <2>3, <2>4
  <2>6. Loops(t, v, n + 2) % 2 = Loops(s, v, n) % 2 BY <2>5, <2>1
  <2> QED BY <2>4, <2>6 DEF Taken
<1> HIDE DEF r, t
<1>3. Taken(t, v, 1) /\ ~Taken(t, v, 2)
  <2>1. /\ Loops(t, v, 0) = 0
        /\ Loops(t, v, 0 + 1) = Loops(t, v, 0) + (IF Other(t[0 + 1], v) = v THEN 1 ELSE 0)
        /\ Loops(t, v, 1 + 1) = Loops(t, v, 1) + (IF Other(t[1 + 1], v) = v THEN 1 ELSE 0)
    BY LoopsCounted
  <2>2. Loops(t, v, 1) = 1 /\ Loops(t, v, 2) = 2 BY <2>1, <1>1, <1>e
  <2> QED BY <2>2, <1>1, <1>e DEF Taken
<1>5. ASSUME NEW n \in 1 .. Len(t)
      PROVE  n \in {1, 2} \/ (n - 2 \in 1 .. Len(s) /\ (n - 2) + 2 = n /\ t[n] \in ToSet(s))
  <2>1. CASE n \notin {1, 2}
    <3>1. n - 2 \in 1 .. Len(s) /\ (n - 2) + 2 = n BY <2>1, <1>0, <1>1
    <3>2. t[n] = s[n - 2] BY <3>1, <1>1
    <3>3. s[n - 2] \in ToSet(s) BY <3>1, <1>0, SetOfSeq
    <3> QED BY <3>1, <3>2, <3>3
  <2> QED BY <2>1
<1>6. ASSUME NEW m \in 1 .. Len(t), NEW n \in 1 .. Len(t),
             Taken(t, v, m), Taken(t, v, n), t[m] = t[n]
      PROVE  m = n
  <2>1. (m = 1 <=> n = 1) /\ m # 2 /\ n # 2
    <3>1. m \notin {1, 2} => t[m] # e BY <1>5
    <3>2. n \notin {1, 2} => t[n] # e BY <1>5
    <3> QED BY <3>1, <3>2, <1>1, <1>3, <1>6
  <2>2. CASE m # 1
    <3>1. m - 2 \in 1 .. Len(s) /\ n - 2 \in 1 .. Len(s) /\ (m - 2) + 2 = m /\ (n - 2) + 2 = n
      BY <2>1, <2>2, <1>5
    <3>2. Taken(s, v, m - 2) /\ Taken(s, v, n - 2) /\ s[m - 2] = s[n - 2]
      BY <3>1, <1>1, <1>2, <1>6
    <3>3. m - 2 = n - 2 BY <3>1, <3>2 DEF ListRight
    <3> QED BY <3>3, <3>1
  <2> QED BY <2>1, <2>2
<1>7. ASSUME NEW f \in ToSet(t), Other(f, v) >= v
      PROVE  \E n \in 1 .. Len(t) : t[n] = f /\ Taken(t, v, n)
  <2>1. CASE f = e
    <3>1. 1 \in 1 .. Len(t) BY <1>0, <1>1
    <3> QED BY <3>1, <2>1, <1>1, <1>3
  <2>2. CASE f \in ToSet(s)
    <3>1. PICK n \in 1 .. Len(s) : s[n] = f /\ Taken(s, v, n)
      BY <2>2, <1>7 DEF ListRight
    <3>2. n + 2 \in 1 .. Len(t) /\ t[n + 2] = f /\ Taken(t, v, n + 2)
      BY <3>1, <1>0, <1>1, <1>2
    <3> QED BY <3>2
  <2> QED BY <2>1, <2>2, <1>1
<1>8. \A f \in ToSet(t) : v \in {f.v, f.w} BY <1>1 DEF ListRight
<1>9. ListRight(t, v) BY <1>1, <1>6, <1>7, <1>8 DEF ListRight
<1> QED BY <1>9 DEF t, r

LEMMA AppendRight ==
    ASSUME NEW S, NEW q \in Seq(S), NEW x \in S
    PROVE  /\ Append(q, x) \in Seq(S)
           /\ ToSet(Append(q, x)) = ToSet(q) \cup {x}
           /\ IsInjective(q) /\ x \notin ToSet(q) => IsInjective(Append(q, x))
<1> DEFINE t == Append(q, x)
<1>1. /\ t \in Seq(S) /\ Len(t) = Len(q) + 1 /\ Len(q) \in Nat /\ t[Len(q) + 1] = x
      /\ \A n \in 1 .. Len(q) : t[n] = q[n]
  OBVIOUS
<1> HIDE DEF t
<1>2. ASSUME NEW y \in ToSet(q) PROVE y \in ToSet(t)
  <2>1. PICK n \in 1 .. Len(q) : y = q[n] BY SetOfSeq
  <2>2. n \in 1 .. Len(t) /\ t[n] = q[n] BY <1>1
  <2> QED BY <2>1, <2>2, <1>1, SetOfSeq
<1>3. x \in ToSet(t)
  <2>1. Len(q) + 1 \in 1 .. Len(t) BY <1>1
  <2> QED BY <2>1, <1>1, SetOfSeq
<1>4. ASSUME NEW n \in 1 .. Len(t)
      PROVE  (n \in 1 .. Len(q) /\ t[n] = q[n] /\ t[n] \in ToSet(q)) \/ (n = Len(q) + 1 /\ t[n] = x)
  <2>1. CASE n = Len(q) + 1 BY <2>1, <1>1
  <2>2. CASE n # Len(q) + 1
    <3>1. n \in 1 .. Len(q) BY <2>2, <1>1
    <3>2. q[n] \in ToSet(q) BY <3>1, SetOfSeq
    <3> QED BY <3>1, <3>2, <1>1
  <2> QED BY <2>1, <2>2
<1>5. \A y \in ToSet(t) : y \in ToSet(q) \cup {x} BY <1>1, <1>4, SetOfSeq
<1>6. ToSet(t) = ToSet(q) \cup {x} BY <1>2, <1>3, <1>5
<1>7. IsInjective(q) /\ x \notin ToSet(q) => IsInjective(t)
  <2> SUFFICES ASSUME IsInjective(q), x \notin ToSet(q),
                      NEW m \in 1 .. Len(t), NEW n \in 1 .. Len(t), t[m] = t[n]
               PROVE  m = n
    BY <1>1, SetOfSeq DEF IsInjective
  <2>1. \A a, b \in 1 .. Len(q) : q[a] = q[b] => a = b BY SetOfSeq DEF IsInjective
  <2> QED BY <1>4, <2>1
<1> QED BY <1>1, <1>6, <1>7 DEF t

LEMMA ConcatRight ==
    ASSUME NEW S, NEW p \in Seq(S), NEW q \in Seq(S)
    PROVE  /\ p \o q \in Seq(S)
           /\ ToSet(p \o q) = ToSet(p) \cup ToSet(q)
           /\ IsInjective(p) /\ IsInjective(q) /\ ToSet(p) \cap ToSet(q) = {}
                  => IsInjective(p \o q)
<1> DEFINE t == p \o q
<1>1. /\ t \in Seq(S) /\ Len(t) = Len(p) + Len(q) /\ Len(q) \in Nat /\ Len(p) \in Nat
      /\ \A n \in 1 .. Len(p) : t[n] = p[n]
      /\ \A n \in 1 .. Len(q) : t[Len(p) + n] = q[n]
  OBVIOUS
<1> HIDE DEF t
<1>2. ASSUME NEW y \in ToSet(p) PROVE y \in ToSet(t)
  <2>1. PICK n \in 1 .. Len(p) : y = p[n] BY SetOfSeq
  <2>2. n \in 1 .. Len(t) /\ t[n] = p[n] BY <1>1
  <2> QED BY <2>1, <2>2, <1>1, SetOfSeq
<1>3. ASSUME NEW y \in ToSet(q) PROVE y \in ToSet(t)
  <2>1. PICK n \in 1 .. Len(q) : y = q[n] BY SetOfSeq
  <2>2. Len(p) + n \in 1 .. Len(t) /\ t[Len(p) + n] = q[n] BY <1>1
  <2> QED BY <2>1, <2>2, <1>1, SetOfSeq
<1>4. ASSUME NEW n \in 1 .. Len(t)
      PROVE  \/ n \in 1 .. Len(p) /\ t[n] = p[n] /\ t[n] \in ToSet(p)
             \/ /\ n - Len(p) \in 1 .. Len(q) /\ t[n] = q[n - Len(p)]
                /\ t[n] \in ToSet(q)
  <2>1. CASE n <= Len(p)
    <3>1. n \in 1 .. Len(p) BY <2>1, <1>1
    <3>2. p[n] \in ToSet(p) BY <3>1, SetOfSeq
    <3> QED BY <3>1, <3>2, <1>1
  <2>2. CASE ~(n <= Len(p))
    <3>1. n - Len(p) \in 1 .. Len(q) /\ Len(p) + (n - Len(p)) = n BY <2>2, <1>1
    <3>2. q[n - Len(p)] \in ToSet(q) BY <3>1, SetOfSeq
    <3>3. t[n] = q[n - Len(p)] BY <3>1, <1>1
    <3> QED BY <3>1, <3>2, <3>3
  <2> QED BY <2>1, <2>2
<1>5. \A y \in ToSet(t) : y \in ToSet(p) \cup ToSet(q)
  <2> SUFFICES ASSUME NEW n \in 1 .. Len(t) PROVE t[n] \in ToSet(p) \cup ToSet(q)
    BY <1>1, SetOfSeq
  <2> QED BY <1>4
<1>6. ToSet(t) = ToSet(p) \cup ToSet(q) BY <1>2, <1>3, <1>5
<1>7. IsInjective(p) /\ IsInjective(q) /\ ToSet(p) \cap ToSet(q) = {} => IsInjective(t)
  <2> SUFFICES ASSUME IsInjective(p), IsInjective(q), ToSet(p) \cap ToSet(q) = {},
                      NEW m \in 1 .. Len(t), NEW n \in 1 .. Len(t), t[m] = t[n]
               PROVE  m = n
    BY <1>1, SetOfSeq DEF IsInjective
  <2>1. /\ \A a, b \in 1 .. Len(p) : p[a] = p[b] => a = b
        /\ \A a, b \in 1 .. Len(q) : q[a] = q[b] => a = b
    BY SetOfSeq DEF IsInjective
  <2>2. CASE m \in 1 .. Len(p) /\ t[m] = p[m] /\ t[m] \in ToSet(p)
    <3>1. n \in 1 .. Len(p) /\ t[n] = p[n] BY <2>2, <1>4
    <3> QED BY <3>1, <2>1, <2>2
  <2>3. CASE m - Len(p) \in 1 .. Len(q) /\ t[m] = q[m - Len(p)] /\ t[m] \in ToSet(q)
    <3>1. n - Len(p) \in 1 .. Len(q) /\ t[n] = q[n - Len(p)] BY <2>3, <1>4
    <3>2. m - Len(p) = n - Len(p) BY <3>1, <2>1, <2>3
    <3> QED BY <3>2, <1>1
  <2> QED BY <2>2, <2>3, <1>4
<1> QED BY <1>1, <1>6, <1>7 DEF t

(* The entries that are taken of the first n. *)
TakenOf(s, v, n) == {s[m] : m \in {l \in 1 .. n : Taken(s, v, l)}}

LEMMA EdgesAtRight ==
    ASSUME NEW s, NEW v \in Vertices, ListRight(s, v)
    PROVE  /\ EdgesAt(s, v) \in Seq(Edges)
           /\ IsInjective(EdgesAt(s, v))
           /\ ToSet(EdgesAt(s, v)) = TakenOf(s, v, Len(s))
<1> DEFINE T == Seq(Edges)
           M == Len(s)
           next(q, n) == IF Taken(s, v, n) THEN Append(q, s[n]) ELSE q
           step == [n \in 1 .. M |-> [q \in T |-> next(q, n)]]
           some == CHOOSE g : g = [n \in 0 .. M |->
                       IF n = 0 THEN <<>>
                       ELSE IF Taken(s, v, n) THEN Append(g[n - 1], s[n]) ELSE g[n - 1]]
<1>0. M \in Nat /\ \A n \in 1 .. M : s[n] \in Edges BY SetOfSeq DEF ListRight
<1>1. \A n \in 1 .. M, q \in T : next(q, n) \in T BY <1>0, AppendRight
<1>2. <<>> \in T OBVIOUS
<1>3. step \in [1 .. M -> [T -> T]]
  <2> HIDE DEF T, M, next
  <2> QED BY <1>1
<1>4. PICK h \in [0 .. M -> T] : Recursive(h, M, <<>>, step)
  <2> HIDE DEF T, M, step
  <2> QED BY <1>0, <1>2, <1>3, RecursionExists
<1>5. ASSUME NEW n \in 0 .. M, n # 0
      PROVE  step[n][h[n - 1]] = next(h[n - 1], n)
  <2>1. n \in 1 .. M /\ n - 1 \in 0 .. M BY <1>5, <1>0
  <2>2. h[n - 1] \in T BY <2>1, <1>4
  <2> HIDE DEF T, M, next
  <2> QED BY <2>1, <2>2
<1>6. h = [n \in 0 .. M |-> IF n = 0 THEN <<>> ELSE next(h[n - 1], n)]
  <2> HIDE DEF step, T, M, next
  <2> QED BY <1>4, <1>5 DEF Recursive
<1>7. some = [n \in 0 .. M |-> IF n = 0 THEN <<>> ELSE next(some[n - 1], n)]
  BY <1>6, Zenon
<1>8. EdgesAt(s, v) = some[M] BY Zenon DEF EdgesAt
<1> HIDE DEF some, step
<1> DEFINE e(n) == IF n = 0 THEN <<>> ELSE next(some[n - 1], n)
<1>9. \A n \in 0 .. M : some[n] = e(n)
  <2> HIDE DEF T, M, e
  <2>1. some = [n \in 0 .. M |-> e(n)] BY <1>7 DEF e
  <2> QED BY <2>1
<1> DEFINE Stands(q, n) == /\ q \in T
                          /\ IsInjective(q)
                          /\ ToSet(q) = TakenOf(s, v, n)
           J == {n \in 0 .. M : Stands(some[n], n)}
<1> HIDE DEF M
<1>10. 0 \in J
  <2>1. some[0] = <<>> BY <1>9, <1>0
  <2>2. TakenOf(s, v, 0) = {} BY DEF TakenOf
  <2>3. IsInjective(<<>>) /\ ToSet(<<>>) = {} BY DEF IsInjective, ToSet
  <2> HIDE DEF T
  <2> QED BY <2>1, <2>2, <2>3, <1>0, <1>2
<1>11. ASSUME NEW n \in 0 .. M, n < M, n \in J PROVE n + 1 \in J
  <2>1. n + 1 \in 0 .. M /\ n + 1 \in 1 .. M /\ (n + 1) - 1 = n /\ n + 1 # 0 BY <1>11, <1>0
  <2>2. some[n + 1] = next(some[n], n + 1) BY <2>1, <1>9
  <2>3. Stands(some[n], n) BY <1>11
  <2>t. 1 .. n + 1 = (1 .. n) \cup {n + 1} /\ n + 1 \notin 1 .. n BY <1>0
  <2>4. CASE Taken(s, v, n + 1)
    <3>1. TakenOf(s, v, n + 1) = TakenOf(s, v, n) \cup {s[n + 1]} BY <2>t, <2>4 DEF TakenOf
    <3>2. s[n + 1] \notin TakenOf(s, v, n)
      <4> SUFFICES ASSUME NEW m \in 1 .. n, Taken(s, v, m), s[m] = s[n + 1] PROVE FALSE
        BY DEF TakenOf
      <4>1. m \in 1 .. M /\ m # n + 1 BY <2>1, <1>0
      <4>2. \A a, b \in 1 .. M : Taken(s, v, a) /\ Taken(s, v, b) /\ s[a] = s[b] => a = b
        BY DEF ListRight, M
      <4>3. n + 1 \in 1 .. M BY <2>1
      <4> QED BY <4>1, <4>2, <4>3, <2>4
    <3>3. some[n + 1] = Append(some[n], s[n + 1]) BY <2>2, <2>4
    <3>4. s[n + 1] \in Edges /\ some[n] \in Seq(Edges) BY <2>1, <2>3, <1>0
    <3>5. /\ Append(some[n], s[n + 1]) \in Seq(Edges)
          /\ ToSet(Append(some[n], s[n + 1])) = ToSet(some[n]) \cup {s[n + 1]}
          /\ IsInjective(some[n]) /\ s[n + 1] \notin ToSet(some[n])
                 => IsInjective(Append(some[n], s[n + 1]))
      BY <3>4, AppendRight
    <3>6. Stands(some[n + 1], n + 1) BY <3>1, <3>2, <3>3, <3>5, <2>3
    <3> QED BY <3>6, <2>1
  <2>5. CASE ~Taken(s, v, n + 1)
    <3>1. TakenOf(s, v, n + 1) = TakenOf(s, v, n) BY <2>t, <2>5 DEF TakenOf
    <3>2. some[n + 1] = some[n] BY <2>2, <2>5
    <3> QED BY <3>1, <3>2, <2>3, <2>1
  <2> QED BY <2>4, <2>5
<1>12. \A n \in 0 .. M : n < M /\ n \in J => n + 1 \in J BY <1>11
<1>13. \A n \in 0 .. M : n \in J
  <2> HIDE DEF J
  <2> QED BY <1>0, <1>10, <1>12, BoundedInduction
<1>14. Stands(some[M], M) BY <1>13, <1>0
<1> QED BY <1>8, <1>14 DEF M
-----------------------------------------------------------------------------
(* Graphs. *)

EdgesOf(around) == UNION {ToSet(around[v]) : v \in Vertices}

(* What every graph is that ewgraph_add_edge has built. *)
AdjacencyRight(around) ==
    /\ around \in [Vertices -> Seq(Edges)]
    /\ \A v \in Vertices : ListRight(around[v], v)
    /\ \A e \in EdgesOf(around) : e \in ToSet(around[e.v]) /\ e \in ToSet(around[e.w])

LEMMA AdjacencyEdges ==
    ASSUME NEW around, AdjacencyRight(around)
    PROVE  /\ EdgesOf(around) \in SUBSET Edges
           /\ \A v \in Vertices : \A e \in ToSet(around[v]) : e \in EdgesOf(around) /\ v \in {e.v, e.w}
BY SetOfSeq DEF AdjacencyRight, EdgesOf, ListRight

(* The smaller end of an edge. *)
Lower(e) == IF e.v <= e.w THEN e.v ELSE e.w

LEMMA EdgesAtLower ==
    ASSUME NEW around, AdjacencyRight(around), NEW v \in Vertices
    PROVE  ToSet(EdgesAt(around[v], v)) = {e \in EdgesOf(around) : Lower(e) = v}
<1>1. ListRight(around[v], v) BY DEF AdjacencyRight
<1>2. ToSet(EdgesAt(around[v], v)) = TakenOf(around[v], v, Len(around[v])) BY <1>1, EdgesAtRight
<1>3. \A e \in Edges : e.v \in Int /\ e.w \in Int BY DEF Edges, Vertices
<1>v. v \in Int BY DEF Vertices
<1>4. ASSUME NEW n \in 1 .. Len(around[v]), Taken(around[v], v, n)
      PROVE  around[v][n] \in EdgesOf(around) /\ Lower(around[v][n]) = v
  <2>1. around[v][n] \in ToSet(around[v]) /\ around[v][n] \in Edges
    BY <1>1, SetOfSeq DEF ListRight
  <2>2. around[v][n] \in EdgesOf(around) /\ v \in {around[v][n].v, around[v][n].w}
    BY <2>1, AdjacencyEdges
  <2>3. Other(around[v][n], v) > v \/ Other(around[v][n], v) = v BY <1>4 DEF Taken
  <2>4. Lower(around[v][n]) = v BY <2>1, <2>2, <2>3, <1>3, <1>v DEF Other, Lower
  <2> QED BY <2>2, <2>4
<1>5. ASSUME NEW e \in EdgesOf(around), Lower(e) = v
      PROVE  \E n \in 1 .. Len(around[v]) : e = around[v][n] /\ Taken(around[v], v, n)
  <2>1. e \in Edges BY AdjacencyEdges
  <2>2. Other(e, v) >= v /\ v \in {e.v, e.w} BY <2>1, <1>3, <1>v, <1>5 DEF Other, Lower
  <2>3. e \in ToSet(around[v]) BY <2>2 DEF AdjacencyRight
  <2> QED BY <2>2, <2>3, <1>1 DEF ListRight
<1> QED BY <1>2, <1>4, <1>5 DEF TakenOf

(* ewgraph_edges_get lists every edge once. *)
LEMMA EdgesGetRight ==
    ASSUME NEW around, AdjacencyRight(around)
    PROVE  /\ EdgesGet(around) \in Seq(Edges)
           /\ IsInjective(EdgesGet(around))
           /\ ToSet(EdgesGet(around)) = EdgesOf(around)
<1> DEFINE T == Seq(Edges)
           next(q, n) == q \o EdgesAt(around[n - 1], n - 1)
           step == [n \in 1 .. V |-> [q \in T |-> next(q, n)]]
           all == CHOOSE g : g = [n \in 0 .. V |->
                      IF n = 0 THEN <<>> ELSE g[n - 1] \o EdgesAt(around[n - 1], n - 1)]
<1>0. /\ V \in Nat
      /\ \A v \in Vertices : EdgesAt(around[v], v) \in T /\ IsInjective(EdgesAt(around[v], v))
  BY EdgesAtRight DEF AdjacencyRight
<1>n. \A n \in 1 .. V : n - 1 \in Vertices BY DEF Vertices
<1>1. \A n \in 1 .. V, q \in T : next(q, n) \in T BY <1>0, <1>n, ConcatRight
<1>2. <<>> \in T OBVIOUS
<1>3. step \in [1 .. V -> [T -> T]]
  <2> HIDE DEF T, next
  <2> QED BY <1>1
<1>4. PICK h \in [0 .. V -> T] : Recursive(h, V, <<>>, step)
  <2> HIDE DEF T, step
  <2> QED BY <1>0, <1>2, <1>3, RecursionExists
<1>5. ASSUME NEW n \in 0 .. V, n # 0
      PROVE  step[n][h[n - 1]] = next(h[n - 1], n)
  <2>1. n \in 1 .. V /\ n - 1 \in 0 .. V BY <1>5, <1>0
  <2>2. h[n - 1] \in T BY <2>1, <1>4
  <2> HIDE DEF T, next
  <2> QED BY <2>1, <2>2
<1>6. h = [n \in 0 .. V |-> IF n = 0 THEN <<>> ELSE next(h[n - 1], n)]
  <2> HIDE DEF step, T, next
  <2> QED BY <1>4, <1>5 DEF Recursive
<1>7. all = [n \in 0 .. V |-> IF n = 0 THEN <<>> ELSE next(all[n - 1], n)]
  BY <1>6, Zenon
<1>8. EdgesGet(around) = all[V] BY Zenon DEF EdgesGet
<1> HIDE DEF all, step
<1> DEFINE e(n) == IF n = 0 THEN <<>> ELSE next(all[n - 1], n)
<1>9. \A n \in 0 .. V : all[n] = e(n)
  <2> HIDE DEF T, e
  <2>1. all = [n \in 0 .. V |-> e(n)] BY <1>7 DEF e
  <2> QED BY <2>1
<1> DEFINE Stands(q, n) == /\ q \in T
                          /\ IsInjective(q)
                          /\ ToSet(q) = {f \in EdgesOf(around) : Lower(f) < n}
           J == {n \in 0 .. V : Stands(all[n], n)}
<1>i. \A f \in EdgesOf(around) : Lower(f) \in Vertices
  BY AdjacencyEdges DEF Edges, Lower
<1>10. 0 \in J
  <2>1. all[0] = <<>> BY <1>9, <1>0
  <2>2. {f \in EdgesOf(around) : Lower(f) < 0} = {} BY <1>i DEF Vertices
  <2>3. IsInjective(<<>>) /\ ToSet(<<>>) = {} BY DEF IsInjective, ToSet
  <2> HIDE DEF T
  <2> QED BY <2>1, <2>2, <2>3, <1>0, <1>2
<1>11. ASSUME NEW n \in 0 .. V, n < V, n \in J PROVE n + 1 \in J
  <2>1. n + 1 \in 0 .. V /\ n \in Vertices /\ (n + 1) - 1 = n /\ n + 1 # 0
    BY <1>11, <1>0 DEF Vertices
  <2> DEFINE q == EdgesAt(around[n], n)
  <2>2. all[n + 1] = all[n] \o q BY <2>1, <1>9
  <2>3. Stands(all[n], n) BY <1>11
  <2>4. ToSet(q) = {f \in EdgesOf(around) : Lower(f) = n} BY <2>1, EdgesAtLower
  <2>5. q \in T /\ IsInjective(q) BY <2>1, <1>0
  <2>6. {f \in EdgesOf(around) : Lower(f) < n + 1}
            = {f \in EdgesOf(around) : Lower(f) < n} \cup {f \in EdgesOf(around) : Lower(f) = n}
    BY <1>i DEF Vertices
  <2>7. {f \in EdgesOf(around) : Lower(f) < n} \cap {f \in EdgesOf(around) : Lower(f) = n} = {}
    BY <1>i DEF Vertices
  <2> HIDE DEF q
  <2>8. /\ all[n] \o q \in Seq(Edges)
        /\ ToSet(all[n] \o q) = ToSet(all[n]) \cup ToSet(q)
        /\ IsInjective(all[n] \o q)
    BY <2>3, <2>4, <2>5, <2>7, ConcatRight
  <2>9. Stands(all[n + 1], n + 1) BY <2>2, <2>3, <2>4, <2>6, <2>8
  <2> QED BY <2>1, <2>9
<1>12. \A n \in 0 .. V : n < V /\ n \in J => n + 1 \in J BY <1>11
<1>13. \A n \in 0 .. V : n \in J
  <2> HIDE DEF J
  <2> QED BY <1>0, <1>10, <1>12, BoundedInduction
<1>14. Stands(all[V], V) BY <1>13, <1>0
<1>15. {f \in EdgesOf(around) : Lower(f) < V} = EdgesOf(around) BY <1>i DEF Vertices
<1> QED BY <1>8, <1>14, <1>15

LEMMA AddEdgeRight ==
    ASSUME NEW around, AdjacencyRight(around), NEW e \in Edges, e \notin EdgesOf(around)
    PROVE  /\ AdjacencyRight(AddEdge(around, e))
           /\ EdgesOf(AddEdge(around, e)) = EdgesOf(around) \cup {e}
<1> DEFINE new == AddEdge(around, e)
<1>1. e.v \in Vertices /\ e.w \in Vertices BY EdgeEnds
<1>2. \A v \in Vertices : around[v] \in Seq(Edges) /\ ListRight(around[v], v) /\ e \notin ToSet(around[v])
  BY DEF AdjacencyRight, EdgesOf
<1>3. DOMAIN new = Vertices BY DEF AddEdge, AdjacencyRight
<1>t. \A q \in Seq(Edges) : <<e>> \o q \in Seq(Edges) /\ ToSet(<<e>> \o q) = ToSet(q) \cup {e}
  BY PrependRight
<1>4. ASSUME NEW v \in Vertices
      PROVE  /\ new[v] \in Seq(Edges) /\ ListRight(new[v], v)
             /\ ToSet(new[v]) = IF v \in {e.v, e.w} THEN ToSet(around[v]) \cup {e} ELSE ToSet(around[v])
  <2>1. CASE v \notin {e.v, e.w}
    <3>1. new[v] = around[v] BY <2>1, <1>1 DEF AddEdge, AdjacencyRight
    <3> QED BY <3>1, <2>1, <1>2
  <2>2. CASE v \in {e.v, e.w} /\ e.v # e.w
    <3>1. new[v] = <<e>> \o around[v] BY <2>2, <1>1 DEF AddEdge, AdjacencyRight
    <3>2. Other(e, v) # v BY <2>2 DEF Other
    <3>3. ListRight(<<e>> \o around[v], v) BY <3>2, <2>2, <1>2, PlainEntry
    <3> QED BY <3>1, <3>3, <2>2, <1>2, <1>t
  <2>3. CASE v = e.v /\ v = e.w
    <3>1. new[v] = <<e>> \o (<<e>> \o around[v]) BY <2>3, <1>1 DEF AddEdge, AdjacencyRight
    <3>2. ListRight(<<e>> \o (<<e>> \o around[v]), v) BY <2>3, <1>2, LoopEntry
    <3>3. <<e>> \o around[v] \in Seq(Edges) /\ ToSet(<<e>> \o around[v]) = ToSet(around[v]) \cup {e}
      BY <1>2, <1>t
    <3>4. /\ <<e>> \o (<<e>> \o around[v]) \in Seq(Edges)
          /\ ToSet(<<e>> \o (<<e>> \o around[v])) = ToSet(<<e>> \o around[v]) \cup {e}
      BY <3>3, <1>t
    <3> QED BY <3>1, <3>2, <3>3, <3>4, <2>3
  <2> QED BY <2>1, <2>2, <2>3
<1> HIDE DEF new
<1>f. new = [v \in Vertices |-> new[v]] BY DEF new, AddEdge, AdjacencyRight
<1>5. new \in [Vertices -> Seq(Edges)] BY <1>f, <1>4
<1>6. EdgesOf(new) = EdgesOf(around) \cup {e}
  <2>1. \A v \in Vertices : ToSet(new[v]) \subseteq EdgesOf(around) \cup {e}
    BY <1>4 DEF EdgesOf
  <2>2. \A v \in Vertices : ToSet(around[v]) \subseteq ToSet(new[v]) BY <1>4
  <2>3. e \in ToSet(new[e.v]) BY <1>1, <1>4
  <2> QED BY <2>1, <2>2, <2>3, <1>1 DEF EdgesOf
<1>7. ASSUME NEW f \in EdgesOf(new) PROVE f \in ToSet(new[f.v]) /\ f \in ToSet(new[f.w])
  <2>1. CASE f = e BY <2>1, <1>1, <1>4
  <2>2. CASE f \in EdgesOf(around)
    <3>1. f.v \in Vertices /\ f.w \in Vertices BY <2>2, AdjacencyEdges, EdgeEnds
    <3>2. f \in ToSet(around[f.v]) /\ f \in ToSet(around[f.w]) BY <2>2 DEF AdjacencyRight
    <3> QED BY <3>1, <3>2, <1>4
  <2> QED BY <2>1, <2>2, <1>6
<1>8. AdjacencyRight(new) BY <1>4, <1>5, <1>7 DEF AdjacencyRight
<1> QED BY <1>6, <1>8 DEF new

(* The graph of an input whose edges have addresses of their own. *)
LEMMA GraphOfRight ==
    ASSUME NEW added \in Seq(Edges),
           \A m, n \in DOMAIN added : added[m].id = added[n].id => m = n
    PROVE  AdjacencyRight(GraphOf(added)) /\ EdgesOf(GraphOf(added)) = ToSet(added)
<1> DEFINE T == [Vertices -> Seq(Edges)]
           M == Len(added)
           base == [v \in Vertices |-> <<>>]
           next(a, n) == AddEdge(a, added[n])
           step == [n \in 1 .. M |-> [a \in T |-> next(a, n)]]
           built == CHOOSE g : g = [n \in 0 .. M |->
                        IF n = 0 THEN [v \in Vertices |-> <<>>] ELSE AddEdge(g[n - 1], added[n])]
<1>0. M \in Nat /\ \A n \in 1 .. M : added[n] \in Edges BY SetOfSeq
<1>1. ASSUME NEW n \in 1 .. M, NEW a \in T PROVE next(a, n) \in T
  <2> DEFINE e == added[n]
  <2>1. e \in Edges /\ e.v \in Vertices /\ e.w \in Vertices BY <1>0, EdgeEnds
  <2> HIDE DEF e
  <2>2. <<e>> \o a[e.v] \in Seq(Edges) BY <2>1, PrependRight
  <2>3. [a EXCEPT ![e.v] = <<e>> \o @] \in T BY <2>1, <2>2
  <2>4. \A b \in T : <<e>> \o b[e.w] \in Seq(Edges) BY <2>1, PrependRight
  <2>5. \A b \in T : [b EXCEPT ![e.w] = <<e>> \o @] \in T BY <2>1, <2>4
  <2>6. AddEdge(a, e) \in T
    <3> HIDE DEF T
    <3> QED BY <2>3, <2>5 DEF AddEdge
  <2> QED BY <2>6 DEF e
<1>2. base \in T OBVIOUS
<1>3. step \in [1 .. M -> [T -> T]]
  <2> HIDE DEF T, M, next
  <2> QED BY <1>1
<1>4. PICK h \in [0 .. M -> T] : Recursive(h, M, base, step)
  <2> HIDE DEF T, M, step, base
  <2> QED BY <1>0, <1>2, <1>3, RecursionExists
<1>5. ASSUME NEW n \in 0 .. M, n # 0
      PROVE  step[n][h[n - 1]] = next(h[n - 1], n)
  <2>1. n \in 1 .. M /\ n - 1 \in 0 .. M BY <1>5, <1>0
  <2>2. h[n - 1] \in T BY <2>1, <1>4
  <2> HIDE DEF T, M, next
  <2> QED BY <2>1, <2>2
<1>6. h = [n \in 0 .. M |-> IF n = 0 THEN base ELSE next(h[n - 1], n)]
  <2> HIDE DEF step, T, M, next, base
  <2> QED BY <1>4, <1>5 DEF Recursive
<1>7. built = [n \in 0 .. M |-> IF n = 0 THEN base ELSE next(built[n - 1], n)]
  BY <1>6, Zenon
<1>8. GraphOf(added) = built[M] BY Zenon DEF GraphOf
<1> HIDE DEF built, step, M
<1> DEFINE e(n) == IF n = 0 THEN base ELSE next(built[n - 1], n)
<1>9. \A n \in 0 .. M : built[n] = e(n)
  <2> HIDE DEF T, e
  <2>1. built = [n \in 0 .. M |-> e(n)] BY <1>7 DEF e
  <2> QED BY <2>1
<1> DEFINE some(n) == {added[m] : m \in 1 .. n}
           Stands(a, n) == AdjacencyRight(a) /\ EdgesOf(a) = some(n)
           J == {n \in 0 .. M : Stands(built[n], n)}
<1>10. 0 \in J
  <2>1. built[0] = base BY <1>9, <1>0
  <2>2. \A v \in Vertices : base[v] = <<>> OBVIOUS
  <2>3. ToSet(<<>>) = {} /\ <<>> \in Seq(Edges) /\ Len(<<>>) = 0 BY DEF ToSet
  <2>4. \A v \in Vertices : ListRight(<<>>, v) BY <2>3 DEF ListRight
  <2>5. EdgesOf(base) = {}
    <3> HIDE DEF base
    <3> QED BY <2>2, <2>3 DEF EdgesOf
  <2>6. AdjacencyRight(base)
    <3> HIDE DEF base
    <3> QED BY <2>2, <2>4, <2>5, <1>2 DEF AdjacencyRight
  <2>7. some(0) = {} OBVIOUS
  <2> HIDE DEF some, base
  <2>8. Stands(built[0], 0) BY <2>1, <2>5, <2>6, <2>7
  <2>9. 0 \in 0 .. M BY <1>0
  <2> QED BY <2>8, <2>9
<1>11. ASSUME NEW n \in 0 .. M, n < M, n \in J PROVE n + 1 \in J
  <2>1. n + 1 \in 0 .. M /\ n + 1 \in 1 .. M /\ (n + 1) - 1 = n /\ n + 1 # 0 BY <1>11, <1>0
  <2>2. built[n + 1] = AddEdge(built[n], added[n + 1])
    <3> HIDE DEF base
    <3> QED BY <2>1, <1>9
  <2>3. Stands(built[n], n) BY <1>11
  <2>4. added[n + 1] \notin some(n)
    <3> SUFFICES ASSUME NEW m \in 1 .. n, added[m] = added[n + 1] PROVE FALSE
      OBVIOUS
    <3>1. m \in DOMAIN added /\ n + 1 \in DOMAIN added /\ m # n + 1
      BY <2>1, <1>0, SetOfSeq DEF M
    <3> QED BY <3>1
  <2>5. 1 .. n + 1 = (1 .. n) \cup {n + 1} BY <1>0
  <2>6. some(n + 1) = some(n) \cup {added[n + 1]} BY <2>5
  <2>7. added[n + 1] \in Edges BY <2>1, <1>0
  <2> HIDE DEF some
  <2>8. /\ AdjacencyRight(AddEdge(built[n], added[n + 1]))
        /\ EdgesOf(AddEdge(built[n], added[n + 1])) = EdgesOf(built[n]) \cup {added[n + 1]}
    BY <2>3, <2>4, <2>7, AddEdgeRight
  <2> QED BY <2>1, <2>2, <2>3, <2>6, <2>8
<1>12. \A n \in 0 .. M : n < M /\ n \in J => n + 1 \in J BY <1>11
<1>13. \A n \in 0 .. M : n \in J
  <2> HIDE DEF J
  <2> QED BY <1>0, <1>10, <1>12, BoundedInduction
<1>14. Stands(built[M], M)
  <2>1. M \in 0 .. M BY <1>0
  <2> QED BY <2>1, <1>13
<1>15. some(M) = ToSet(added) BY SetOfSeq DEF M, ToSet
<1> QED BY <1>8, <1>14, <1>15
-----------------------------------------------------------------------------
(* Trees and the roots that uf_find returns for them. *)

(* c maps each vertex to the root of its tree, and the edges A make the trees. *)
Rooted(c, A) ==
    /\ c \in [Vertices -> Vertices]
    /\ \A v \in Vertices : c[c[v]] = c[v]
    /\ \A v, w \in Vertices : c[v] = c[w] <=> Joined(A, v, w)

TreeRoots(c) == {c[v] : v \in Vertices}

Within(c, e) == c[e.v] = c[e.w]

LEMMA EachItsRoot ==
    ASSUME NEW c, c = [v \in Vertices |-> v]
    PROVE  Rooted(c, {}) /\ Cardinality(TreeRoots(c)) = V
<1>1. c \in [Vertices -> Vertices] /\ \A v \in Vertices : c[v] = v OBVIOUS
<1>2. ASSUME NEW v \in Vertices, NEW w \in Vertices, Joined({}, v, w) PROVE v = w
  <2>1. v \in {v} /\ Closed({}, {v}) BY DEF Closed
  <2>2. {} \in SUBSET Edges OBVIOUS
  <2>3. w \in {v} BY <1>2, <2>1, <2>2, JoinedRight
  <2> QED BY <2>3
<1>3. \A v \in Vertices : Joined({}, v, v)
  <2>1. {} \in SUBSET Edges OBVIOUS
  <2> QED BY <2>1, JoinedRight
<1>4. Rooted(c, {})
  <2> SUFFICES ASSUME NEW v \in Vertices, NEW w \in Vertices
               PROVE  v = w <=> Joined({}, v, w)
    BY <1>1 DEF Rooted
  <2> QED BY <1>2, <1>3
<1>5. TreeRoots(c) = Vertices BY <1>1 DEF TreeRoots
<1> QED BY <1>4, <1>5, VerticesFinite

LEMMA TreeRootsFinite ==
    ASSUME NEW c \in [Vertices -> Vertices]
    PROVE  /\ IsFiniteSet(TreeRoots(c)) /\ Cardinality(TreeRoots(c)) \in Nat
           /\ Cardinality(TreeRoots(c)) >= 1
           /\ Cardinality(TreeRoots(c)) = 1 => \A v, w \in Vertices : c[v] = c[w]
<1>1. TreeRoots(c) \subseteq Vertices BY DEF TreeRoots
<1>2. IsFiniteSet(TreeRoots(c)) BY <1>1, VerticesFinite, FS_Subset
<1>3. Cardinality(TreeRoots(c)) \in Nat BY <1>2, FS_CardinalityType
<1>4. 0 \in Vertices BY DEF Vertices
<1>5. TreeRoots(c) # {} BY <1>4 DEF TreeRoots
<1>6. Cardinality(TreeRoots(c)) # 0 BY <1>2, <1>5, FS_EmptySet
<1>7. ASSUME Cardinality(TreeRoots(c)) = 1, NEW v \in Vertices, NEW w \in Vertices
      PROVE  c[v] = c[w]
  <2>1. PICK r : TreeRoots(c) = {r} BY <1>2, <1>7, FS_Singleton
  <2>2. c[v] \in TreeRoots(c) /\ c[w] \in TreeRoots(c) BY DEF TreeRoots
  <2> QED BY <2>1, <2>2
<1> QED BY <1>2, <1>3, <1>6, <1>7

(* uf_union of the ends of e, whichever of the roots stays one. *)
United(c, e, r) ==
    [v \in Vertices |-> IF c[v] \in {c[e.v], c[e.w]} THEN r ELSE c[v]]

LEMMA UniteRight ==
    ASSUME NEW A \in SUBSET Edges, NEW c, Rooted(c, A), NEW e \in Edges, ~Within(c, e),
           NEW r \in {c[e.v], c[e.w]}
    PROVE  /\ Rooted(United(c, e, r), A \cup {e})
           /\ \A v, w \in Vertices : c[v] = c[w] => United(c, e, r)[v] = United(c, e, r)[w]
           /\ Within(United(c, e, r), e)
           /\ Cardinality(TreeRoots(United(c, e, r))) = Cardinality(TreeRoots(c)) - 1
<1> DEFINE d == United(c, e, r)
           a == c[e.v]
           b == c[e.w]
<1>1. /\ e.v \in Vertices /\ e.w \in Vertices /\ a \in Vertices /\ b \in Vertices
      /\ a # b /\ c \in [Vertices -> Vertices] /\ r \in {a, b}
      /\ c[a] = a /\ c[b] = b
  BY EdgeEnds DEF Rooted, Within
<1>2. /\ d \in [Vertices -> Vertices]
      /\ \A v \in Vertices : d[v] = IF c[v] \in {a, b} THEN r ELSE c[v]
  BY <1>1 DEF United
<1>3. \A v, w \in Vertices : c[v] = c[w] => d[v] = d[w] BY <1>2
<1>4. d[e.v] = d[e.w] BY <1>1, <1>2
<1> HIDE DEF d
<1>5. ASSUME NEW v \in Vertices PROVE d[d[v]] = d[v]
  <2>1. CASE c[v] \in {a, b} BY <2>1, <1>1, <1>2
  <2>2. CASE c[v] \notin {a, b}
    <3>1. c[c[v]] = c[v] /\ c[v] \in Vertices BY <1>1 DEF Rooted
    <3> QED BY <3>1, <2>2, <1>2
  <2> QED BY <2>1, <2>2
<1>6. A \cup {e} \in SUBSET Edges /\ e \in A \cup {e} OBVIOUS
<1>7. ASSUME NEW v \in Vertices, NEW w \in Vertices, d[v] = d[w]
      PROVE  Joined(A \cup {e}, v, w)
  <2>1. \A x, y \in Vertices : c[x] = c[y] => Joined(A \cup {e}, x, y)
    BY <1>6, JoinedMore DEF Rooted
  <2>2. Joined(A \cup {e}, e.v, e.w) /\ Joined(A \cup {e}, e.w, e.v) BY <1>6, JoinedEdge
  <2>3. CASE c[v] = c[w] BY <2>1, <2>3
  <2>4. CASE c[v] = a /\ c[w] = b
    <3>1. Joined(A \cup {e}, v, e.v) /\ Joined(A \cup {e}, e.w, w) BY <2>1, <2>4, <1>1
    <3> QED BY <3>1, <2>2, <1>1, <1>6, JoinedTransitive
  <2>5. CASE c[v] = b /\ c[w] = a
    <3>1. Joined(A \cup {e}, v, e.w) /\ Joined(A \cup {e}, e.v, w) BY <2>1, <2>5, <1>1
    <3> QED BY <3>1, <2>2, <1>1, <1>6, JoinedTransitive
  <2> QED BY <2>3, <2>4, <2>5, <1>1, <1>2, <1>7
<1>8. ASSUME NEW v \in Vertices, NEW w \in Vertices, Joined(A \cup {e}, v, w)
      PROVE  d[v] = d[w]
  <2> DEFINE S == {x \in Vertices : d[x] = d[v]}
  <2>1. ASSUME NEW f \in A PROVE d[f.v] = d[f.w]
    <3>1. f.v \in Vertices /\ f.w \in Vertices /\ Joined(A, f.v, f.w) BY EdgeEnds, JoinedEdge
    <3>2. c[f.v] = c[f.w] BY <3>1 DEF Rooted
    <3> QED BY <3>1, <3>2, <1>3
  <2>2. Closed(A \cup {e}, S) BY <2>1, <1>4, <1>6, EdgeEnds DEF Closed
  <2>3. v \in S OBVIOUS
  <2> HIDE DEF S
  <2>4. w \in S BY <2>2, <2>3, <1>6, <1>8, JoinedRight
  <2> QED BY <2>4 DEF S
<1>9. Rooted(d, A \cup {e})
  <2>1. \A v, w \in Vertices : d[v] = d[w] <=> Joined(A \cup {e}, v, w) BY <1>7, <1>8
  <2> QED BY <1>2, <1>5, <2>1 DEF Rooted
<1>10. Cardinality(TreeRoots(d)) = Cardinality(TreeRoots(c)) - 1
  <2> DEFINE q == IF r = a THEN b ELSE a
  <2>1. q \in TreeRoots(c) /\ q # r /\ r \in TreeRoots(c) BY <1>1 DEF TreeRoots
  <2>2. TreeRoots(d) = TreeRoots(c) \ {q}
    <3>1. ASSUME NEW v \in Vertices PROVE d[v] \in TreeRoots(c) \ {q}
      <4>1. c[v] \in TreeRoots(c) BY DEF TreeRoots
      <4> QED BY <4>1, <2>1, <1>1, <1>2
    <3>2. ASSUME NEW x \in TreeRoots(c), x # q PROVE x \in TreeRoots(d)
      <4>1. PICK v \in Vertices : x = c[v] BY DEF TreeRoots
      <4>2. d[v] = x BY <4>1, <3>2, <1>1, <1>2
      <4> QED BY <4>2 DEF TreeRoots
    <3>3. \A x \in TreeRoots(d) : x \in TreeRoots(c) \ {q} BY <3>1 DEF TreeRoots
    <3> QED BY <3>2, <3>3
  <2>3. IsFiniteSet(TreeRoots(c)) BY <1>1, TreeRootsFinite
  <2> HIDE DEF q
  <2>4. Cardinality(TreeRoots(c) \ {q}) = Cardinality(TreeRoots(c)) - 1
    BY <2>1, <2>3, FS_RemoveElement
  <2> QED BY <2>2, <2>4
<1> QED BY <1>3, <1>4, <1>9, <1>10 DEF Within, d
-----------------------------------------------------------------------------
(* The edges the algorithms choose. *)

(* Kruskal: no lighter edge joins two trees. *)
LEMMA GreedyChoice ==
    ASSUME NEW E \in SUBSET Edges, NEW A \in SUBSET E, PartOfMinimum(A, E),
           NEW c, Rooted(c, A), NEW e \in E, ~Within(c, e),
           \A f \in E : f.weight < e.weight => Within(c, f)
    PROVE  PartOfMinimum(A \cup {e}, E)
<1>1. A \in SUBSET Edges /\ Before(A, E, e) \in SUBSET Edges BY DEF Before
<1>2. \A f \in Edges : f.v \in Vertices /\ f.w \in Vertices BY EdgeEnds
<1>3. ASSUME NEW f \in Before(A, E, e) PROVE Joined(A, f.v, f.w)
  <2>1. CASE f \in A BY <2>1, <1>1, JoinedEdge
  <2>2. CASE f \in E /\ f.weight < e.weight
    BY <2>2, <1>2 DEF Rooted, Within
  <2> QED BY <2>1, <2>2 DEF Before
<1>4. ~Joined(Before(A, E, e), e.v, e.w)
  <2> SUFFICES ASSUME Joined(Before(A, E, e), e.v, e.w) PROVE FALSE
    OBVIOUS
  <2>1. Joined(A, e.v, e.w) BY <1>1, <1>2, <1>3, JoinedThrough
  <2> QED BY <2>1, <1>2 DEF Rooted, Within
<1> QED BY <1>4, MinimumGrows

(* The edge e leads out of the vertices X, over which no edge leads that could
   have been preferred to it. *)
LEMMA CutChoice ==
    ASSUME NEW E \in SUBSET Edges, NEW A \in SUBSET E, PartOfMinimum(A, E), NEW e \in E,
           NEW X, Closed(Before(A, E, e), X), (e.v \in X) # (e.w \in X)
    PROVE  PartOfMinimum(A \cup {e}, E)
<1>1. Before(A, E, e) \in SUBSET Edges BY DEF Before
<1>2. e.v \in Vertices /\ e.w \in Vertices BY EdgeEnds
<1>3. ~Joined(Before(A, E, e), e.v, e.w)
  <2> SUFFICES ASSUME Joined(Before(A, E, e), e.v, e.w) PROVE FALSE
    OBVIOUS
  <2>1. Joined(Before(A, E, e), e.w, e.v) BY <1>1, <1>2, JoinedSymmetric
  <2>2. CASE e.v \in X /\ e.w \notin X BY <2>2, <1>1, <1>2, JoinedRight
  <2>3. CASE e.w \in X /\ e.v \notin X BY <2>3, <2>1, <1>1, <1>2, JoinedRight
  <2> QED BY <2>2, <2>3
<1> QED BY <1>3, MinimumGrows

(* The edge e leads out of the tree with root r. *)
Leaves(c, r, e) == (c[e.v] = r) # (c[e.w] = r)

(* Boruvka: of the edges seen, none that leads out of the tree of r is lighter
   than closest[r], which does so too or is left from an earlier round. *)
ClosestRight(c, found, none, seen) ==
    \A r \in Vertices :
        /\ found[r] # none => Within(c, found[r]) \/ Leaves(c, r, found[r])
        /\ \A e \in seen : Leaves(c, r, e) => found[r] # none
                                             /\ found[r].weight <= e.weight

(* Each edge of A is within a tree of c or the one found for a root below n. *)
FoundBelow(c, found, A, n) ==
    \A e \in A : \/ Within(c, e)
                \/ \E r \in Vertices : r < n /\ found[r] = e /\ Leaves(c, r, e)

(* The edges found for the roots in one round close no cycle, ties or not.  The
   trees X are those from which the chosen edges of e's weight lead, one behind
   the other, to the tree n; all were entered over their own edge. *)
LEMMA RoundChoice ==
    ASSUME NEW E \in SUBSET Edges, NEW A \in SUBSET E, PartOfMinimum(A, E),
           NEW none, NEW c \in [Vertices -> Vertices], NEW found,
           ClosestRight(c, found, none, E),
           NEW n \in Vertices, FoundBelow(c, found, A, n),
           NEW d, Rooted(d, A), \A v, w \in Vertices : c[v] = c[w] => d[v] = d[w],
           NEW e \in E, e = found[n], e # none, ~Within(d, e)
    PROVE  PartOfMinimum(A \cup {e}, E)
<1> DEFINE Tree(r) == {v \in Vertices : c[v] = r}
           Entered(Y, r, g) == Leaves(c, r, g) /\ (\E v \in Y : v \in {g.v, g.w} /\ c[v] # r)
           Chain(Y) ==
               /\ Tree(n) \subseteq Y
               /\ \A v \in Y, w \in Vertices : c[v] = c[w] => w \in Y
               /\ \A r \in Vertices : r < n /\ found[r] \in A /\ found[r].weight = e.weight
                       /\ Entered(Y, r, found[r]) => Tree(r) \subseteq Y
           X == {v \in Vertices : \A Y \in SUBSET Vertices : Chain(Y) => v \in Y}
<1>1. \A f \in E : f.v \in Vertices /\ f.w \in Vertices /\ f.weight \in Int BY EdgeEnds
<1>2. Leaves(c, n, e)
  <2>1. Within(c, e) \/ Leaves(c, n, e) BY DEF ClosestRight
  <2>2. ~Within(c, e) BY <1>1 DEF Within
  <2> QED BY <2>1, <2>2
<1>3. X \subseteq Vertices OBVIOUS
<1>4. Chain(X)
  <2>1. Tree(n) \subseteq X OBVIOUS
  <2>2. \A v \in X, w \in Vertices : c[v] = c[w] => w \in X
    <3> SUFFICES ASSUME NEW v \in X, NEW w \in Vertices, c[v] = c[w],
                        NEW Y \in SUBSET Vertices, Chain(Y)
                 PROVE  w \in Y
      OBVIOUS
    <3>1. v \in Y OBVIOUS
    <3> QED BY <3>1
  <2>3. ASSUME NEW r \in Vertices, r < n, found[r] \in A, found[r].weight = e.weight,
               Entered(X, r, found[r])
        PROVE  Tree(r) \subseteq X
    <3> SUFFICES ASSUME NEW Y \in SUBSET Vertices, Chain(Y) PROVE Tree(r) \subseteq Y
      OBVIOUS
    <3>1. X \subseteq Y OBVIOUS
    <3> HIDE DEF X
    <3>2. Entered(Y, r, found[r]) BY <3>1, <2>3
    <3> QED BY <3>2, <2>3
  <2> HIDE DEF X
  <2> QED BY <2>1, <2>2, <2>3
<1>5. ASSUME NEW Y \in SUBSET Vertices, Chain(Y) PROVE X \subseteq Y BY <1>5
<1> HIDE DEF X
(* X stays within what d has united with the tree n. *)
<1>6. ASSUME NEW u \in Tree(n) PROVE \A v \in X : d[v] = d[u]
  <2> DEFINE Y == {v \in Vertices : d[v] = d[u]}
  <2>1. Tree(n) \subseteq Y OBVIOUS
  <2>2. \A v \in Y, w \in Vertices : c[v] = c[w] => w \in Y OBVIOUS
  <2>3. ASSUME NEW r \in Vertices, found[r] \in A, Entered(Y, r, found[r])
        PROVE  Tree(r) \subseteq Y
    <3> DEFINE g == found[r]
    <3>1. g \in E /\ g.v \in Vertices /\ g.w \in Vertices BY <2>3, <1>1
    <3>2. Joined(A, g.v, g.w) BY <2>3, JoinedEdge
    <3>3. d[g.v] = d[g.w] BY <3>1, <3>2 DEF Rooted
    <3>4. g.v \in Y \/ g.w \in Y BY <2>3
    <3>5. g.v \in Y /\ g.w \in Y BY <3>1, <3>3, <3>4
    <3>6. c[g.v] = r \/ c[g.w] = r BY <2>3 DEF Leaves
    <3> QED BY <3>1, <3>5, <3>6
  <2>4. Chain(Y)
    <3> HIDE DEF Y
    <3> QED BY <2>1, <2>2, <2>3
  <2>5. X \subseteq Y
    <3> HIDE DEF Y
    <3>1. Y \in SUBSET Vertices BY DEF Y
    <3> QED BY <2>4, <3>1, <1>5
  <2> QED BY <2>5
<1>7. (e.v \in X) # (e.w \in X)
  <2>1. d[e.v] # d[e.w] BY DEF Within
  <2>2. CASE c[e.v] = n
    <3>1. e.v \in Tree(n) BY <2>2, <1>1
    <3>2. e.v \in X BY <3>1, <1>4
    <3>3. e.w \notin X BY <3>1, <1>6, <2>1
    <3> QED BY <3>2, <3>3
  <2>3. CASE c[e.w] = n
    <3>1. e.w \in Tree(n) BY <2>3, <1>1
    <3>2. e.w \in X BY <3>1, <1>4
    <3>3. e.v \notin X BY <3>1, <1>6, <2>1
    <3> QED BY <3>2, <3>3
  <2> QED BY <2>2, <2>3, <1>2 DEF Leaves
(* No lighter edge leads out of a tree of X. *)
<1>8. \A v \in X : \A f \in E : Leaves(c, c[v], f) => e.weight <= f.weight
  <2> DEFINE Y == {v \in X : \A f \in E : Leaves(c, c[v], f) => e.weight <= f.weight}
  <2>1. \A f \in E : Leaves(c, n, f) => e.weight <= f.weight BY DEF ClosestRight
  <2>2. Tree(n) \subseteq Y BY <2>1, <1>4
  <2>3. \A v \in Y, w \in Vertices : c[v] = c[w] => w \in Y BY <1>4
  <2>4. ASSUME NEW r \in Vertices, r < n, found[r] \in A, found[r].weight = e.weight,
               Entered(Y, r, found[r])
        PROVE  Tree(r) \subseteq Y
    <3>1. Entered(X, r, found[r]) BY <2>4
    <3>2. Tree(r) \subseteq X BY <3>1, <2>4, <1>4
    <3>3. \A f \in E : Leaves(c, r, f) => e.weight <= f.weight BY <2>4 DEF ClosestRight
    <3> QED BY <3>2, <3>3
  <2>5. Chain(Y)
    <3> HIDE DEF Y
    <3> QED BY <2>2, <2>3, <2>4
  <2>6. X \subseteq Y
    <3> HIDE DEF Y
    <3>1. Y \in SUBSET Vertices BY <1>3 DEF Y
    <3> QED BY <2>5, <3>1, <1>5
  <2> QED BY <2>6
(* Every tree of X but n was entered over its own edge. *)
<1>9. \A v \in X : c[v] = n \/ Entered(X, c[v], found[c[v]])
  <2> DEFINE Y == {v \in X : c[v] = n \/ Entered(X, c[v], found[c[v]])}
  <2>2. Tree(n) \subseteq Y BY <1>4
  <2>3. \A v \in Y, w \in Vertices : c[v] = c[w] => w \in Y BY <1>4
  <2>4. ASSUME NEW r \in Vertices, r < n, found[r] \in A, found[r].weight = e.weight,
               Entered(Y, r, found[r])
        PROVE  Tree(r) \subseteq Y
    <3>1. Entered(X, r, found[r]) BY <2>4
    <3>2. Tree(r) \subseteq X BY <3>1, <2>4, <1>4
    <3> QED BY <3>1, <3>2
  <2>5. Chain(Y)
    <3> HIDE DEF Y
    <3> QED BY <2>2, <2>3, <2>4
  <2>6. X \subseteq Y
    <3> HIDE DEF Y
    <3>1. Y \in SUBSET Vertices BY <1>3 DEF Y
    <3> QED BY <2>5, <3>1, <1>5
  <2> QED BY <2>6
<1>10. \A v \in X, w \in Vertices : c[v] = c[w] => w \in X BY <1>4
<1>11. ASSUME NEW f \in Before(A, E, e), (f.v \in X) # (f.w \in X) PROVE FALSE
  <2>1. f \in E /\ f.v \in Vertices /\ f.w \in Vertices BY <1>1 DEF Before
  <2>2. c[f.v] # c[f.w] BY <2>1, <1>10, <1>11
  <2>3. PICK v \in {f.v, f.w}, w \in {f.v, f.w} : v \in X /\ w \notin X /\ {v, w} = {f.v, f.w}
    BY <1>11
  <2>4. Leaves(c, c[v], f) /\ c[v] # c[w] BY <2>2, <2>3 DEF Leaves
  <2>5. e.weight <= f.weight BY <2>1, <2>3, <2>4, <1>8
  <2>6. f \in A /\ f.weight = e.weight BY <2>5, <1>1, <2>1 DEF Before
  <2>7. PICK r \in Vertices : r < n /\ found[r] = f /\ Leaves(c, r, f)
    BY <2>2, <2>6 DEF FoundBelow, Within
  <2>8. CASE c[w] = r
    <3>1. Entered(X, r, found[r]) BY <2>3, <2>4, <2>7, <2>8
    <3>2. Tree(r) \subseteq X BY <3>1, <2>6, <2>7, <1>4
    <3> QED BY <3>2, <2>1, <2>3, <2>8
  <2>9. CASE c[v] = r
    <3>1. r # n BY <2>7 DEF Vertices
    <3>2. Entered(X, r, f) BY <3>1, <2>3, <2>7, <2>9, <1>9
    <3>3. PICK u \in X : u \in {f.v, f.w} /\ c[u] # r BY <3>2
    <3>4. u = w BY <3>3, <2>3, <2>9
    <3> QED BY <3>3, <3>4, <2>3
  <2> QED BY <2>3, <2>7, <2>8, <2>9 DEF Leaves
<1>12. Closed(Before(A, E, e), X) BY <1>11 DEF Closed
<1> QED BY <1>7, <1>12, CutChoice
-----------------------------------------------------------------------------
(* The graph of the run. *)

E == EdgesOf(adj)

(* The graph is one that ewgraph_add_edge has built. *)
GraphRight == AdjacencyRight(adj)

(* The definitions of SpanningForests, in terms of this module's. *)
LEMMA UnionTerms ==
    /\ F!Vertices = Vertices
    /\ F!AllEdges = E
    /\ F!EdgesGet(adj) = EdgesGet(adj)
    /\ F!NoEdge \notin Edges
<1>1. F!Vertices = Vertices BY DEF F!Vertices, Vertices
<1>2. F!AllEdges = E BY <1>1 DEF F!AllEdges, E, EdgesOf, F!ToSet, ToSet
<1>3. F!EdgesGet(adj) = EdgesGet(adj)
  BY Zenon DEF F!EdgesGet, EdgesGet, F!EdgesAt, EdgesAt, F!Taken, Taken, F!Loops, Loops,
               F!Other, Other, F!Cardinality, Cardinality
<1>4. F!NoEdge \notin Edges BY DEF F!NoEdge, Edges
<1> QED BY <1>1, <1>2, <1>3, <1>4

LEMMA GraphEdges ==
    ASSUME GraphRight
    PROVE  /\ E \in SUBSET Edges
           /\ \A e \in E : e.v \in Vertices /\ e.w \in Vertices /\ e.weight \in Int
BY AdjacencyEdges, EdgeEnds DEF GraphRight, E
-----------------------------------------------------------------------------
(* Kruskal's and Boruvka's algorithms. *)

UnionTypes ==
    /\ fpc \in {"start", "greedy", "closest", "add", "done"}
    /\ edges \in Seq(E)
    /\ mst \in Seq(E)
    /\ closest \in [Vertices -> E \cup {F!NoEdge}]
    /\ k \in 1 .. 2 * V
    /\ fpc \in {"closest", "add"} => k < V
    /\ fi \in 0 .. V

(* The roots are those of the trees; every edge chosen makes one tree of two. *)
TreesRight ==
    /\ Rooted(fcanon, ToSet(mst))
    /\ Cardinality(TreeRoots(fcanon)) = V - Len(mst)

(* Kruskal: an edge that has been looked at joins no two trees any more. *)
Greedy ==
    /\ fpc = "greedy" => \A e \in E \ ToSet(edges) : Within(fcanon, e)
    /\ fpc = "done" /\ falg = "kruskal" => \A e \in E : Within(fcanon, e)

(* Boruvka: no edge found in an earlier round joins two trees any more. *)
Settled(c, n) ==
    \A r \in Vertices : r < n /\ closest[r] # F!NoEdge => Within(c, closest[r])

(* In a round that began with the trees of c, the roots below fi have added
   the edges found for them, and no other edges were added. *)
Adding(c) ==
    /\ ClosestRight(c, closest, F!NoEdge, E)
    /\ \A v, w \in Vertices : c[v] = c[w] => fcanon[v] = fcanon[w]
    /\ Settled(fcanon, fi)
    /\ FoundBelow(c, closest, ToSet(mst), fi)

Rounds ==
    /\ fpc = "start" => Settled(fcanon, V)
    /\ fpc = "closest" => ClosestRight(fcanon, closest, F!NoEdge, E \ ToSet(edges))
    /\ fpc = "add" => \E c \in [Vertices -> Vertices] : Adding(c)

UnionInv ==
    /\ UnionTypes
    /\ TreesRight
    /\ Greedy
    /\ Rounds
    /\ PartOfMinimum(ToSet(mst), E)

LEMMA UnionStarts ==
    ASSUME GraphRight, F!Init
    PROVE  UnionInv
<1>1. /\ fpc = "start" /\ edges = <<>> /\ mst = <<>> /\ k = 1 /\ fi = 0
      /\ fcanon = [v \in Vertices |-> v] /\ closest = [v \in Vertices |-> F!NoEdge]
  BY UnionTerms DEF F!Init
<1>2. ToSet(<<>>) = {} /\ Len(<<>>) = 0 BY DEF ToSet
<1>3. UnionTypes
  <2>1. edges \in Seq(E) /\ mst \in Seq(E) BY <1>1
  <2>2. closest \in [Vertices -> E \cup {F!NoEdge}] BY <1>1
  <2>3. k \in 1 .. 2 * V /\ fi \in 0 .. V BY <1>1
  <2> QED BY <2>1, <2>2, <2>3, <1>1 DEF UnionTypes
<1>4. TreesRight
  <2>1. Rooted(fcanon, {}) /\ Cardinality(TreeRoots(fcanon)) = V BY <1>1, EachItsRoot
  <2>2. ToSet(mst) = {} /\ Len(mst) = 0 BY <1>1, <1>2
  <2> QED BY <2>1, <2>2 DEF TreesRight
<1>5. \A r \in Vertices : closest[r] = F!NoEdge BY <1>1
<1>6. Greedy /\ Rounds BY <1>1, <1>5 DEF Greedy, Rounds, Settled
<1>7. PartOfMinimum(ToSet(mst), E) BY <1>1, <1>2 DEF PartOfMinimum
<1> QED BY <1>3, <1>4, <1>6, <1>7 DEF UnionInv

(* What Consider does to the trees. *)
LEMMA ConsiderRight ==
    ASSUME GraphRight, TreesRight, mst \in Seq(E), NEW e \in E, F!Consider(e), adj' = adj
    PROVE  /\ TreesRight' /\ mst' \in Seq(E)
           /\ \A v, w \in Vertices : fcanon[v] = fcanon[w] => fcanon'[v] = fcanon'[w]
           /\ Within(fcanon', e)
           /\ \/ Within(fcanon, e) /\ fcanon' = fcanon /\ mst' = mst
              \/ ~Within(fcanon, e) /\ ToSet(mst') = ToSet(mst) \cup {e}
<1>1. e \in Edges /\ ToSet(mst) \in SUBSET Edges /\ Len(mst) \in Nat /\ E' = E
  BY GraphEdges, SetOfSeq DEF E
<1>2. CASE Within(fcanon, e)
  <2>1. fcanon' = fcanon /\ mst' = mst
    BY <1>2 DEF F!Consider, F!Connects, Within
  <2> QED BY <2>1, <1>2 DEF TreesRight
<1>3. CASE ~Within(fcanon, e)
  <2>1. /\ mst' = Append(mst, e)
        /\ fcanon' = United(fcanon, e, F!Root(e))
        /\ F!Root(e) \in {fcanon[e.v], fcanon[e.w]}
    <3>1. F!Joins(e) BY <1>3 DEF F!Consider, F!Connects, Within
    <3>2. F!Root(e) \in {fcanon[e.v], fcanon[e.w]} BY DEF F!Root
    <3> QED BY <3>1, <3>2, UnionTerms DEF F!Joins, United
  <2>2. ToSet(mst') = ToSet(mst) \cup {e} /\ mst' \in Seq(E) BY <2>1, AppendRight
  <2>3. Len(mst') = Len(mst) + 1 BY <2>1, <1>1
  <2>4. /\ Rooted(fcanon', ToSet(mst) \cup {e})
        /\ \A v, w \in Vertices : fcanon[v] = fcanon[w] => fcanon'[v] = fcanon'[w]
        /\ Within(fcanon', e)
        /\ Cardinality(TreeRoots(fcanon')) = Cardinality(TreeRoots(fcanon)) - 1
    <3> DEFINE r == F!Root(e)
               d == United(fcanon, e, r)
               chosen == ToSet(mst)
    <3>1. /\ Rooted(fcanon, chosen) /\ chosen \in SUBSET Edges /\ e \in Edges
          /\ ~Within(fcanon, e) /\ r \in {fcanon[e.v], fcanon[e.w]}
      BY <1>1, <1>3, <2>1 DEF TreesRight
    <3> HIDE DEF r, chosen
    <3>2. /\ Rooted(d, chosen \cup {e})
          /\ Within(d, e)
          /\ Cardinality(TreeRoots(d)) = Cardinality(TreeRoots(fcanon)) - 1
      BY <3>1, UniteRight
    <3>3. \A v, w \in Vertices : fcanon[v] = fcanon[w] => d[v] = d[w]
      BY DEF United
    <3> QED BY <3>2, <3>3, <2>1 DEF r, chosen
  <2>5. TreesRight' BY <2>2, <2>3, <2>4, <1>1 DEF TreesRight
  <2> QED BY <2>2, <2>4, <2>5, <1>3
<1> QED BY <1>2, <1>3

(* The list is not longer than a tree, and one that long joins everything. *)
LEMMA ListLong ==
    ASSUME TreesRight, mst \in Seq(E)
    PROVE  /\ Len(mst) \in Nat /\ Len(mst) < V
           /\ Len(mst) = V - 1 => \A v, w \in Vertices : fcanon[v] = fcanon[w]
<1>1. fcanon \in [Vertices -> Vertices] BY DEF TreesRight, Rooted
<1>2. Len(mst) \in Nat BY SetOfSeq
<1> QED BY <1>1, <1>2, TreeRootsFinite DEF TreesRight

LEMMA RemoveRight ==
    ASSUME NEW S, NEW s \in Seq(S), NEW n \in DOMAIN s
    PROVE  /\ RemoveAt(s, n) \in Seq(S)
           /\ \A x \in ToSet(s) : x = s[n] \/ x \in ToSet(RemoveAt(s, n))
<1> DEFINE p == SubSeq(s, 1, n - 1)
           q == SubSeq(s, n + 1, Len(s))
<1>1. Len(s) \in Nat /\ n \in 1 .. Len(s) BY SetOfSeq
<1>2. /\ p \in Seq(S) /\ Len(p) = n - 1 /\ \A m \in 1 .. n - 1 : p[m] = s[m]
      /\ q \in Seq(S) /\ Len(q) = Len(s) - n /\ \A m \in 1 .. Len(s) - n : q[m] = s[n + m]
  BY <1>1
<1>3. RemoveAt(s, n) = p \o q BY DEF RemoveAt
<1> HIDE DEF p, q
<1>4. RemoveAt(s, n) \in Seq(S) /\ ToSet(RemoveAt(s, n)) = ToSet(p) \cup ToSet(q)
  BY <1>2, <1>3, ConcatRight
<1>5. ASSUME NEW m \in 1 .. Len(s), m # n PROVE s[m] \in ToSet(p) \cup ToSet(q)
  <2>1. CASE m < n
    <3>1. m \in 1 .. Len(p) /\ p[m] = s[m] BY <2>1, <1>1, <1>2
    <3> QED BY <3>1, <1>2, SetOfSeq
  <2>2. CASE m > n
    <3>1. m - n \in 1 .. Len(q) /\ n + (m - n) = m BY <2>2, <1>1, <1>2
    <3>2. q[m - n] = s[m] BY <3>1, <1>2
    <3>3. q[m - n] \in ToSet(q) BY <3>1, <1>2, SetOfSeq
    <3> QED BY <3>2, <3>3
  <2> QED BY <2>1, <2>2, <1>1, <1>5
<1>6. ASSUME NEW x \in ToSet(s) PROVE x = s[n] \/ x \in ToSet(p) \cup ToSet(q)
  <2>1. PICK m \in 1 .. Len(s) : x = s[m] BY SetOfSeq
  <2> QED BY <2>1, <1>5
<1> QED BY <1>4, <1>6

LEMMA TailRight ==
    ASSUME NEW S, NEW s \in Seq(S), s # <<>>
    PROVE  /\ Head(s) \in S /\ Tail(s) \in Seq(S)
           /\ \A x \in ToSet(s) : x = Head(s) \/ x \in ToSet(Tail(s))
<1>1. Len(s) \in Nat /\ Len(s) > 0 BY SetOfSeq
<1>2. /\ Head(s) = s[1] /\ Tail(s) \in Seq(S) /\ Len(Tail(s)) = Len(s) - 1
      /\ \A m \in 1 .. Len(s) - 1 : Tail(s)[m] = s[m + 1]
  BY <1>1
<1>3. 1 \in 1 .. Len(s) BY <1>1
<1>4. Head(s) \in S BY <1>2, <1>3, SetOfSeq
<1>5. ASSUME NEW x \in ToSet(s), x # Head(s) PROVE x \in ToSet(Tail(s))
  <2>1. PICK m \in 1 .. Len(s) : x = s[m] BY SetOfSeq
  <2>2. m # 1 BY <2>1, <1>2, <1>5
  <2>3. m - 1 \in 1 .. Len(s) - 1 /\ (m - 1) + 1 = m BY <2>2, <1>1
  <2>4. Tail(s)[m - 1] = x BY <2>1, <2>3, <1>2
  <2> QED BY <2>3, <2>4, <1>2, SetOfSeq
<1> QED BY <1>2, <1>4, <1>5

LEMMA SeqOfItsSet ==
    ASSUME NEW S, NEW T, NEW s \in Seq(S), ToSet(s) \subseteq T
    PROVE  s \in Seq(T)
<1>1. Len(s) \in Nat /\ \A n \in 1 .. Len(s) : s[n] \in T BY SetOfSeq
<1>2. s \in [1 .. Len(s) -> T] BY <1>1
<1> QED BY <1>1, <1>2

LEMMA EdgesOnce ==
    ASSUME GraphRight
    PROVE  /\ F!EdgesGet(adj) \in Seq(E)
           /\ ToSet(F!EdgesGet(adj)) = E
           /\ IsInjective(EdgesGet(adj)) /\ ToSet(EdgesGet(adj)) = E
<1>1. /\ EdgesGet(adj) \in Seq(Edges) /\ IsInjective(EdgesGet(adj))
      /\ ToSet(EdgesGet(adj)) = E
  BY EdgesGetRight DEF GraphRight, E
<1>2. EdgesGet(adj) \in Seq(E) BY <1>1, SeqOfItsSet
<1>3. F!EdgesGet(adj) = EdgesGet(adj) BY UnionTerms
<1> QED BY <1>1, <1>2, <1>3

LEMMA SortKeeps ==
    ASSUME GraphRight, UnionInv, F!KruskalSort
    PROVE  UnionInv'
<1>1. /\ fpc' = "greedy" /\ edges' = F!EdgesGet(adj)
      /\ UNCHANGED <<adj, falg, fcanon, mst, closest, k, fi>>
  BY DEF F!KruskalSort
<1>2. E' = E BY <1>1 DEF E
<1>3. edges' \in Seq(E) /\ ToSet(edges') = E BY <1>1, EdgesOnce
<1>4. UnionTypes' BY <1>1, <1>2, <1>3 DEF UnionTypes, UnionInv
<1>5. TreesRight' BY <1>1 DEF TreesRight, UnionInv
<1>6. Greedy' /\ Rounds' BY <1>1, <1>2, <1>3 DEF Greedy, Rounds
<1>7. PartOfMinimum(ToSet(mst), E)' BY <1>1, <1>2 DEF UnionInv
<1> QED BY <1>4, <1>5, <1>6, <1>7 DEF UnionInv

LEMMA StepKeeps ==
    ASSUME GraphRight, UnionInv, F!KruskalStep
    PROVE  UnionInv'
<1>1. PICK n \in DOMAIN edges : /\ F!Lightest(n)
                               /\ F!Consider(edges[n])
                               /\ edges' = RemoveAt(edges, n)
  BY DEF F!KruskalStep, F!RemoveAt, RemoveAt
<1> DEFINE e == edges[n]
<1>2. fpc = "greedy" /\ UNCHANGED <<adj, falg, fpc, closest, k, fi>>
  BY DEF F!KruskalStep
<1>3. E' = E BY <1>2 DEF E
<1>4. /\ edges \in Seq(E) /\ mst \in Seq(E) /\ TreesRight
      /\ Greedy /\ PartOfMinimum(ToSet(mst), E)
  BY DEF UnionInv, UnionTypes
<1>5. e \in E BY <1>4, SetOfSeq
<1>6. edges' \in Seq(E) /\ \A f \in ToSet(edges) : f = e \/ f \in ToSet(edges')
  BY <1>1, <1>4, RemoveRight
<1>7. \A f \in E : f.weight < e.weight => Within(fcanon, f)
  <2> SUFFICES ASSUME NEW f \in E, f.weight < e.weight, f \in ToSet(edges) PROVE FALSE
    BY <1>2, <1>4 DEF Greedy
  <2>1. PICK m \in DOMAIN edges : f = edges[m] BY <1>4, SetOfSeq
  <2>2. e.weight <= f.weight BY <2>1, <1>1 DEF F!Lightest
  <2>3. e.weight \in Int /\ f.weight \in Int BY <1>5, GraphEdges
  <2> QED BY <2>2, <2>3
<1> HIDE DEF e
<1>c. F!Consider(e) BY <1>1 DEF e
<1>8. /\ TreesRight' /\ mst' \in Seq(E)
      /\ \A v, w \in Vertices : fcanon[v] = fcanon[w] => fcanon'[v] = fcanon'[w]
      /\ Within(fcanon', e)
      /\ \/ Within(fcanon, e) /\ fcanon' = fcanon /\ mst' = mst
         \/ ~Within(fcanon, e) /\ ToSet(mst') = ToSet(mst) \cup {e}
  BY <1>c, <1>2, <1>4, <1>5, ConsiderRight
<1>9. UnionTypes'
  <2>1. /\ closest \in [Vertices -> E \cup {F!NoEdge}] /\ k \in 1 .. 2 * V /\ fi \in 0 .. V
    BY DEF UnionInv, UnionTypes
  <2>2. mst' \in Seq(E') /\ edges' \in Seq(E') BY <1>3, <1>6, <1>8
  <2> QED BY <2>1, <2>2, <1>2, <1>3 DEF UnionTypes
<1>10. \A f \in E \ ToSet(edges') : Within(fcanon', f)
  <2> SUFFICES ASSUME NEW f \in E, f \notin ToSet(edges') PROVE Within(fcanon', f)
    OBVIOUS
  <2>1. CASE f = e
    <3>1. Within(fcanon', e) BY <1>8
    <3> QED BY <3>1, <2>1
  <2>2. CASE f \notin ToSet(edges)
    <3>1. Within(fcanon, f) /\ f.v \in Vertices /\ f.w \in Vertices
      BY <2>2, <1>2, <1>4, GraphEdges DEF Greedy
    <3> QED BY <3>1, <1>8 DEF Within
  <2> QED BY <2>1, <2>2, <1>6
<1>11. Greedy' /\ Rounds'
  <2>1. fpc' = "greedy" BY <1>2
  <2>2. \A f \in E' \ ToSet(edges') : Within(fcanon', f) BY <1>3, <1>10
  <2> QED BY <2>1, <2>2 DEF Greedy, Rounds
<1>12. PartOfMinimum(ToSet(mst'), E)
  <2>1. CASE mst' = mst BY <2>1, <1>4
  <2>2. CASE ~Within(fcanon, e) /\ ToSet(mst') = ToSet(mst) \cup {e}
    <3>1. /\ E \in SUBSET Edges /\ ToSet(mst) \in SUBSET E
          /\ Rooted(fcanon, ToSet(mst)) /\ PartOfMinimum(ToSet(mst), E)
      BY <1>4, GraphEdges, SetOfSeq DEF TreesRight
    <3>2. PartOfMinimum(ToSet(mst) \cup {e}, E)
      BY <3>1, <2>2, <1>5, <1>7, GreedyChoice
    <3> QED BY <3>2, <2>2
  <2> QED BY <2>1, <2>2, <1>8
<1> QED BY <1>3, <1>8, <1>9, <1>11, <1>12 DEF UnionInv

LEMMA KruskalEndKeeps ==
    ASSUME GraphRight, UnionInv, F!KruskalEnd
    PROVE  UnionInv'
<1>1. /\ fpc = "greedy" /\ fpc' = "done" /\ (edges = <<>> \/ ~F!Short)
      /\ UNCHANGED <<adj, falg, edges, fcanon, mst, closest, k, fi>>
  BY DEF F!KruskalEnd
<1>2. E' = E BY <1>1 DEF E
<1>3. UnionTypes' BY <1>1, <1>2 DEF UnionTypes, UnionInv
<1>4. TreesRight' BY <1>1 DEF TreesRight, UnionInv
<1>5. \A e \in E : Within(fcanon, e)
  <2>1. CASE edges = <<>>
    <3>1. ToSet(edges) = {} BY <2>1 DEF ToSet
    <3> QED BY <3>1, <1>1 DEF UnionInv, Greedy
  <2>2. CASE ~F!Short
    <3>1. /\ Len(mst) \in Nat /\ Len(mst) < V
          /\ Len(mst) = V - 1 => \A v, w \in Vertices : fcanon[v] = fcanon[w]
      BY ListLong DEF UnionInv, UnionTypes
    <3>2. \A v, w \in Vertices : fcanon[v] = fcanon[w] BY <3>1, <2>2 DEF F!Short
    <3> QED BY <3>2, GraphEdges DEF Within
  <2> QED BY <2>1, <2>2, <1>1
<1>6. Greedy' /\ Rounds' BY <1>1, <1>2, <1>5 DEF Greedy, Rounds
<1>7. PartOfMinimum(ToSet(mst), E)' BY <1>1, <1>2 DEF UnionInv
<1> QED BY <1>3, <1>4, <1>6, <1>7 DEF UnionInv

LEMMA RoundKeeps ==
    ASSUME GraphRight, UnionInv, F!BoruvkaRound
    PROVE  UnionInv'
<1>1. /\ fpc = "start" /\ fpc' = "closest" /\ k < V /\ edges' = F!EdgesGet(adj)
      /\ UNCHANGED <<adj, falg, fcanon, mst, closest, k, fi>>
  BY DEF F!BoruvkaRound
<1>2. E' = E BY <1>1 DEF E
<1>3. edges' \in Seq(E) /\ ToSet(edges') = E BY <1>1, EdgesOnce
<1>4. UnionTypes' BY <1>1, <1>2, <1>3 DEF UnionTypes, UnionInv
<1>5. TreesRight' BY <1>1 DEF TreesRight, UnionInv
<1>6. \A r \in Vertices : r < V BY DEF Vertices
<1>7. ClosestRight(fcanon, closest, F!NoEdge, {})
  BY <1>1, <1>6 DEF UnionInv, Rounds, Settled, ClosestRight
<1>8. Greedy' /\ Rounds'
  <2>1. (E \ ToSet(edges))' = {} BY <1>2, <1>3
  <2>2. ClosestRight(fcanon, closest, F!NoEdge, E \ ToSet(edges))' BY <1>1, <1>7, <2>1
  <2> QED BY <2>2, <1>1 DEF Greedy, Rounds
<1>9. PartOfMinimum(ToSet(mst), E)' BY <1>1, <1>2 DEF UnionInv
<1> QED BY <1>4, <1>5, <1>8, <1>9 DEF UnionInv

LEMMA ClosestKeeps ==
    ASSUME GraphRight, UnionInv, F!ClosestStep
    PROVE  UnionInv'
<1> DEFINE e == Head(edges)
<1>1. /\ fpc = "closest" /\ edges # <<>> /\ edges' = Tail(edges)
      /\ UNCHANGED <<adj, falg, fpc, fcanon, mst, k, fi>>
      /\ closest' = [r \in Vertices |->
             IF r \in {fcanon[e.v], fcanon[e.w]} /\ fcanon[e.v] # fcanon[e.w]
                /\ (closest[r] = F!NoEdge \/ e.weight < closest[r].weight)
             THEN e ELSE closest[r]]
  BY UnionTerms DEF F!ClosestStep, F!Connects, F!Closer
<1>2. E' = E BY <1>1 DEF E
<1>3. /\ edges \in Seq(E) /\ closest \in [Vertices -> E \cup {F!NoEdge}]
      /\ fcanon \in [Vertices -> Vertices]
  BY DEF UnionInv, UnionTypes, TreesRight, Rooted
<1>4. /\ e \in E /\ edges' \in Seq(E)
      /\ \A f \in ToSet(edges) : f = e \/ f \in ToSet(edges')
  BY <1>1, <1>3, TailRight
<1> HIDE DEF e
<1>5. /\ e.v \in Vertices /\ e.w \in Vertices /\ e.weight \in Int
      /\ \A f \in E : f.weight \in Int
      /\ F!NoEdge \notin E
  BY <1>4, GraphEdges, UnionTerms
<1>6. closest' \in [Vertices -> E \cup {F!NoEdge}] BY <1>1, <1>3, <1>4
<1>7. UnionTypes'
  <2>1. mst \in Seq(E) /\ k \in 1 .. 2 * V /\ k < V /\ fi \in 0 .. V
    BY <1>1 DEF UnionInv, UnionTypes
  <2> QED BY <2>1, <1>1, <1>2, <1>4, <1>6 DEF UnionTypes
<1>8. TreesRight' BY <1>1 DEF TreesRight, UnionInv
<1>9. ClosestRight(fcanon, closest, F!NoEdge, E \ ToSet(edges)) BY <1>1 DEF UnionInv, Rounds
<1>10. ClosestRight(fcanon, closest', F!NoEdge, E \ ToSet(edges'))
  <2> SUFFICES ASSUME NEW r \in Vertices
               PROVE  /\ closest'[r] # F!NoEdge => Within(fcanon, closest'[r])
                                                   \/ Leaves(fcanon, r, closest'[r])
                      /\ \A f \in E \ ToSet(edges') : Leaves(fcanon, r, f) =>
                            closest'[r] # F!NoEdge /\ closest'[r].weight <= f.weight
    BY DEF ClosestRight
  <2>1. /\ closest[r] # F!NoEdge => Within(fcanon, closest[r]) \/ Leaves(fcanon, r, closest[r])
        /\ \A f \in E \ ToSet(edges) : Leaves(fcanon, r, f) =>
              closest[r] # F!NoEdge /\ closest[r].weight <= f.weight
        /\ closest[r] # F!NoEdge => closest[r].weight \in Int
    BY <1>3, <1>5, <1>9 DEF ClosestRight
  <2>2. \A f \in E \ ToSet(edges') : f = e \/ f \in E \ ToSet(edges) BY <1>4
  <2>3. CASE r \in {fcanon[e.v], fcanon[e.w]} /\ fcanon[e.v] # fcanon[e.w]
             /\ (closest[r] = F!NoEdge \/ e.weight < closest[r].weight)
    <3>1. closest'[r] = e BY <2>3, <1>1
    <3>2. Leaves(fcanon, r, e) BY <2>3 DEF Leaves
    <3>3. \A f \in E \ ToSet(edges) : Leaves(fcanon, r, f) => e.weight <= f.weight
      BY <2>1, <2>3, <1>5
    <3> QED BY <3>1, <3>2, <3>3, <2>2, <1>4, <1>5
  <2>4. CASE ~(r \in {fcanon[e.v], fcanon[e.w]} /\ fcanon[e.v] # fcanon[e.w]
               /\ (closest[r] = F!NoEdge \/ e.weight < closest[r].weight))
    <3>1. closest'[r] = closest[r] BY <2>4, <1>1
    <3>2. Leaves(fcanon, r, e) => closest[r] # F!NoEdge /\ closest[r].weight <= e.weight
      BY <2>1, <2>4, <1>5 DEF Leaves
    <3> QED BY <3>1, <3>2, <2>1, <2>2
  <2> QED BY <2>3, <2>4
<1>11. Greedy' /\ Rounds'
  <2>1. ClosestRight(fcanon, closest, F!NoEdge, E \ ToSet(edges))' BY <1>1, <1>2, <1>10
  <2> QED BY <2>1, <1>1 DEF Greedy, Rounds
<1>12. PartOfMinimum(ToSet(mst), E)' BY <1>1, <1>2 DEF UnionInv
<1> QED BY <1>7, <1>8, <1>11, <1>12 DEF UnionInv

LEMMA ClosestEndKeeps ==
    ASSUME GraphRight, UnionInv, F!ClosestEnd
    PROVE  UnionInv'
<1>1. /\ fpc = "closest" /\ edges = <<>> /\ fpc' = "add" /\ fi' = 0
      /\ UNCHANGED <<adj, falg, edges, fcanon, mst, closest, k>>
  BY DEF F!ClosestEnd
<1>2. E' = E BY <1>1 DEF E
<1>3. UnionTypes' BY <1>1, <1>2 DEF UnionTypes, UnionInv
<1>4. TreesRight' BY <1>1 DEF TreesRight, UnionInv
<1>5. ToSet(edges) = {} BY <1>1 DEF ToSet
<1>6. ClosestRight(fcanon, closest, F!NoEdge, E) BY <1>1, <1>5 DEF UnionInv, Rounds
<1>7. FoundBelow(fcanon, closest, ToSet(mst), 0)
  <2>1. \A e \in ToSet(mst) : Joined(ToSet(mst), e.v, e.w) /\ e.v \in Vertices /\ e.w \in Vertices
    BY SetOfSeq, GraphEdges, JoinedEdge DEF UnionInv, UnionTypes
  <2> QED BY <2>1 DEF UnionInv, TreesRight, Rooted, FoundBelow, Within
<1>8. Settled(fcanon, 0) BY DEF Settled, Vertices
<1>9. fcanon \in [Vertices -> Vertices] BY DEF UnionInv, TreesRight, Rooted
<1>10. \E c \in [Vertices -> Vertices] : Adding(c)'
  <2>1. Adding(fcanon)' BY <1>1, <1>2, <1>6, <1>7, <1>8 DEF Adding, Settled
  <2> QED BY <2>1, <1>9, <1>1
<1>11. Greedy' /\ Rounds' BY <1>1, <1>10 DEF Greedy, Rounds
<1>12. PartOfMinimum(ToSet(mst), E)' BY <1>1, <1>2 DEF UnionInv
<1> QED BY <1>3, <1>4, <1>11, <1>12 DEF UnionInv

LEMMA AddKeeps ==
    ASSUME GraphRight, UnionInv, F!AddStep
    PROVE  UnionInv'
<1>1. /\ fpc = "add" /\ fi < V /\ fi' = fi + 1
      /\ IF closest[fi] = F!NoEdge THEN UNCHANGED <<fcanon, rank, mst>>
                                   ELSE F!Consider(closest[fi])
      /\ UNCHANGED <<adj, falg, fpc, edges, closest, k>>
  BY DEF F!AddStep
<1>2. E' = E BY <1>1 DEF E
<1>3. /\ edges \in Seq(E) /\ mst \in Seq(E) /\ closest \in [Vertices -> E \cup {F!NoEdge}]
      /\ fcanon \in [Vertices -> Vertices] /\ k \in 1 .. 2 * V /\ k < V /\ fi \in 0 .. V
      /\ TreesRight /\ PartOfMinimum(ToSet(mst), E)
  BY <1>1 DEF UnionInv, UnionTypes, TreesRight, Rooted
<1>4. fi \in Vertices /\ V \in Nat BY <1>1, <1>3 DEF Vertices
<1>5. PICK c \in [Vertices -> Vertices] : Adding(c) BY <1>1 DEF UnionInv, Rounds
<1> DEFINE e == closest[fi]
           moved == \A v, w \in Vertices : fcanon[v] = fcanon[w] => fcanon'[v] = fcanon'[w]
<1>6. /\ TreesRight' /\ mst' \in Seq(E)
      /\ moved
      /\ e # F!NoEdge => Within(fcanon', e)
      /\ \/ mst' = mst
         \/ e # F!NoEdge /\ ~Within(fcanon, e) /\ ToSet(mst') = ToSet(mst) \cup {e}
  <2>1. CASE e = F!NoEdge
    <3>1. fcanon' = fcanon /\ mst' = mst BY <2>1, <1>1
    <3>2. TreesRight' BY <3>1, <1>3 DEF TreesRight
    <3> QED BY <3>1, <3>2, <2>1, <1>3
  <2>2. CASE e # F!NoEdge
    <3>1. e \in E /\ F!Consider(e) BY <2>2, <1>1, <1>3, <1>4
    <3> HIDE DEF e
    <3>2. /\ TreesRight' /\ mst' \in Seq(E)
          /\ \A v, w \in Vertices : fcanon[v] = fcanon[w] => fcanon'[v] = fcanon'[w]
          /\ Within(fcanon', e)
          /\ \/ Within(fcanon, e) /\ fcanon' = fcanon /\ mst' = mst
             \/ ~Within(fcanon, e) /\ ToSet(mst') = ToSet(mst) \cup {e}
      BY <3>1, <1>1, <1>3, ConsiderRight
    <3> QED BY <3>2, <2>2
  <2> QED BY <2>1, <2>2
<1>7. UnionTypes'
  <2>1. fi' \in 0 .. V BY <1>1, <1>3, <1>4
  <2> QED BY <2>1, <1>1, <1>2, <1>3, <1>6 DEF UnionTypes
<1>8. Settled(fcanon', fi')
  <2> SUFFICES ASSUME NEW r \in Vertices, r < fi', closest[r] # F!NoEdge
               PROVE  Within(fcanon', closest[r])
    BY <1>1 DEF Settled
  <2>1. CASE r = fi BY <2>1, <1>6
  <2>2. CASE r < fi
    <3>1. Within(fcanon, closest[r]) BY <2>2, <1>5 DEF Adding, Settled
    <3>2. closest[r] \in E BY <1>3
    <3>3. closest[r].v \in Vertices /\ closest[r].w \in Vertices BY <3>2, GraphEdges
    <3> QED BY <3>1, <3>3, <1>6 DEF Within
  <2>3. r \in Int /\ fi \in Int BY <1>3 DEF Vertices
  <2> QED BY <2>1, <2>2, <2>3, <1>1
<1>9. FoundBelow(c, closest, ToSet(mst'), fi')
  <2> SUFFICES ASSUME NEW f \in ToSet(mst')
               PROVE  Within(c, f) \/ \E r \in Vertices : r < fi' /\ closest[r] = f /\ Leaves(c, r, f)
    BY DEF FoundBelow
  <2>1. CASE f \in ToSet(mst)
    <3>1. \/ Within(c, f)
          \/ \E r \in Vertices : r < fi /\ closest[r] = f /\ Leaves(c, r, f)
      BY <2>1, <1>5 DEF Adding, FoundBelow
    <3>2. \A r \in Vertices : r < fi => r < fi' BY <1>1, <1>3 DEF Vertices
    <3> QED BY <3>1, <3>2
  <2>2. CASE f = e /\ e # F!NoEdge
    <3>1. Within(c, e) \/ Leaves(c, fi, e) BY <2>2, <1>4, <1>5 DEF Adding, ClosestRight
    <3>2. fi < fi' BY <1>1, <1>3
    <3> QED BY <3>1, <3>2, <2>2, <1>4
  <2> QED BY <2>1, <2>2, <1>6
<1>10. Adding(c)'
  <2>1. ClosestRight(c, closest, F!NoEdge, E)' BY <1>1, <1>2, <1>5 DEF Adding
  <2>2. \A v, w \in Vertices : c[v] = c[w] => fcanon'[v] = fcanon'[w]
    BY <1>5, <1>6 DEF Adding
  <2>3. Settled(fcanon, fi)' BY <1>8, <1>1 DEF Settled
  <2>4. FoundBelow(c, closest, ToSet(mst), fi)' BY <1>9, <1>1
  <2> QED BY <2>1, <2>2, <2>3, <2>4 DEF Adding
<1>11. Greedy' /\ Rounds'
  <2>1. fpc' = "add" BY <1>1
  <2>2. \E d \in [Vertices -> Vertices] : Adding(d)' BY <1>5, <1>10
  <2> QED BY <2>1, <2>2 DEF Greedy, Rounds
<1>12. PartOfMinimum(ToSet(mst'), E)
  <2>1. CASE mst' = mst BY <2>1, <1>3
  <2>2. CASE e # F!NoEdge /\ ~Within(fcanon, e) /\ ToSet(mst') = ToSet(mst) \cup {e}
    <3> DEFINE chosen == ToSet(mst)
               none == F!NoEdge
    <3>1. E \in SUBSET Edges /\ chosen \in SUBSET E /\ Rooted(fcanon, chosen)
      BY <1>3, GraphEdges, SetOfSeq DEF TreesRight
    <3>2. e \in E /\ e = closest[fi] /\ PartOfMinimum(chosen, E)
      BY <2>2, <1>3, <1>4
    <3>3. /\ ClosestRight(c, closest, none, E) /\ FoundBelow(c, closest, chosen, fi)
          /\ \A v, w \in Vertices : c[v] = c[w] => fcanon[v] = fcanon[w]
          /\ e # none /\ ~Within(fcanon, e)
      BY <1>5, <2>2 DEF Adding
    <3> HIDE DEF e, chosen, none
    <3>4. PartOfMinimum(chosen \cup {e}, E)
      BY <3>1, <3>2, <3>3, <1>4, <1>5, RoundChoice
    <3> QED BY <3>4, <2>2 DEF e, chosen
  <2> QED BY <2>1, <2>2, <1>6
<1> QED BY <1>2, <1>6, <1>7, <1>11, <1>12 DEF UnionInv

LEMMA RoundEndKeeps ==
    ASSUME GraphRight, UnionInv, F!RoundEnd
    PROVE  UnionInv'
<1>1. /\ fpc = "add" /\ fi = V /\ fpc' = "start" /\ k' = k + k /\ fi' = 0
      /\ UNCHANGED <<adj, falg, edges, fcanon, mst, closest>>
  BY DEF F!RoundEnd
<1>2. E' = E BY <1>1 DEF E
<1>3. UnionTypes'
  <2>1. k' \in 1 .. 2 * V /\ fi' \in 0 .. V BY <1>1 DEF UnionTypes, UnionInv
  <2> QED BY <2>1, <1>1, <1>2 DEF UnionTypes, UnionInv
<1>4. TreesRight' BY <1>1 DEF TreesRight, UnionInv
<1>5. Settled(fcanon, V)' BY <1>1 DEF UnionInv, Rounds, Adding, Settled
<1>6. Greedy' /\ Rounds' BY <1>1, <1>5 DEF Greedy, Rounds
<1>7. PartOfMinimum(ToSet(mst), E)' BY <1>1, <1>2 DEF UnionInv
<1> QED BY <1>3, <1>4, <1>6, <1>7 DEF UnionInv

LEMMA BoruvkaEndKeeps ==
    ASSUME GraphRight, UnionInv, F!BoruvkaEnd
    PROVE  UnionInv'
<1>1. /\ falg = "boruvka" /\ fpc' = "done"
      /\ UNCHANGED <<adj, falg, edges, fcanon, mst, closest, k, fi>>
  BY DEF F!BoruvkaEnd
<1>2. E' = E BY <1>1 DEF E
<1>3. UnionTypes' BY <1>1, <1>2 DEF UnionTypes, UnionInv
<1>4. TreesRight' BY <1>1 DEF TreesRight, UnionInv
<1>5. Greedy' /\ Rounds' BY <1>1 DEF Greedy, Rounds
<1>6. PartOfMinimum(ToSet(mst), E)' BY <1>1, <1>2 DEF UnionInv
<1> QED BY <1>3, <1>4, <1>5, <1>6 DEF UnionInv

LEMMA UnionStutters ==
    ASSUME UnionInv, UNCHANGED <<adj, falg, fpc, edges, fcanon, mst, closest, k, fi>>
    PROVE  UnionInv'
BY DEF UnionInv, UnionTypes, TreesRight, Greedy, Rounds, Settled, Adding, E

LEMMA UnionSteps ==
    ASSUME GraphRight, UnionInv, F!Next
    PROVE  UnionInv'
<1>1. CASE F!Done
  <2>1. UNCHANGED <<adj, falg, fpc, edges, fcanon, mst, closest, k, fi>>
    BY <1>1 DEF F!Done, F!vars
  <2> QED BY <2>1, UnionStutters
<1> QED BY <1>1, SortKeeps, StepKeeps, KruskalEndKeeps, RoundKeeps, ClosestKeeps,
           ClosestEndKeeps, AddKeeps, RoundEndKeeps, BoruvkaEndKeeps
        DEF F!Next, F!Work
-----------------------------------------------------------------------------
(* Both forms of Prim's algorithm. *)

PrimTypes ==
    /\ gpc \in {"next", "grow", "scan", "done"}
    /\ lazy \in BOOLEAN
    /\ marked \subseteq Vertices
    /\ distto \in [Vertices -> Int]
    /\ edgeto \in [Vertices -> E \cup {G!NoEdge}]
    /\ held \in [Vertices -> Int]
    /\ queue \subseteq E
    /\ gmst \in Seq(E)
    /\ todo \in {<<>>} \cup {<<u>> : u \in Vertices}
    /\ rest \in Seq(E)

Crosses(e) == (e.v \in marked) # (e.w \in marked)

(* The edge e leads from a vertex in a tree to w, which is in none. *)
LeadsTo(e, w) == w \in {e.v, e.w} /\ w \notin marked /\ Other(e, w) \in marked

Quiet == \A e \in E : ~Crosses(e)

(* What waits in the phases of the algorithms. *)
Phases ==
    /\ gpc = "scan" => todo # <<>>
    /\ gpc = "grow" /\ todo # <<>> => lazy /\ todo[1] \notin marked
    /\ gpc \in {"next", "done"} =>
          todo = <<>> /\ queue = {} /\ Quiet /\ \A v \in Vertices : held[v] = INFINITY
    /\ gpc = "done" => marked = Vertices
    /\ rest # <<>> => gpc = "scan" /\ todo[1] \in marked
    /\ \A e \in ToSet(rest) : todo[1] \in {e.v, e.w}

(* The vertex w begins a tree. *)
Fresh(w) ==
    /\ Quiet
    /\ \A u \in Vertices \ {w} : held[u] = INFINITY
    /\ \/ todo = <<>> /\ held[w] = 0
       \/ todo = <<w>> /\ held[w] = INFINITY

(* Eager: a vertex outside the trees knows the lightest edge seen that leads to
   it, and it is in the heap unless it was just taken out. *)
Fringe(w) ==
    /\ edgeto[w] # G!NoEdge =>
          /\ LeadsTo(edgeto[w], w)
          /\ distto[w] = edgeto[w].weight
          /\ held[w] = IF todo = <<w>> THEN INFINITY ELSE distto[w]
    /\ edgeto[w] = G!NoEdge => Fresh(w) \/ (held[w] = INFINITY /\ distto[w] = INFINITY)
    /\ \A e \in E : LeadsTo(e, w) /\ e \notin ToSet(rest) =>
                        edgeto[w] # G!NoEdge /\ distto[w] <= e.weight

FringeRight ==
    /\ \A v \in Vertices : lazy \/ v \in marked => held[v] = INFINITY
    /\ ~lazy => \A w \in Vertices \ marked : Fringe(w)

(* Lazy: every edge seen that leads out of the trees is in the heap, but for
   the one taken out of it last until its vertex is marked. *)
QueueRight ==
    /\ ~lazy => queue = {}
    /\ \A e \in queue : e.v \in marked \/ e.w \in marked
    /\ lazy => \A e \in E :
          Crosses(e) /\ e \notin ToSet(rest) =>
              e \in queue \/ (todo # <<>> /\ todo[1] \notin marked /\ todo[1] \in {e.v, e.w})

(* The vertex to be marked comes in over a lightest edge, or begins a tree. *)
Entering ==
    todo # <<>> /\ todo[1] \notin marked =>
        \/ Quiet
        \/ lazy /\ \E e \in ToSet(gmst) : LeadsTo(e, todo[1])
        \/ /\ ~lazy /\ edgeto[todo[1]] # G!NoEdge
           /\ \A f \in E : Crosses(f) => edgeto[todo[1]].weight <= f.weight

(* An edge leads out of the trees from v. *)
Open(v) == \E e \in E : v \in {e.v, e.w} /\ Crosses(e)

(* The trees join what edges join among the marked vertices, and those from
   which an edge leads out are in one tree. *)
SpreadRight ==
    /\ \A e \in G!Chosen :
          /\ e.v \in marked \/ (lazy /\ todo = <<e.v>>)
          /\ e.w \in marked \/ (lazy /\ todo = <<e.w>>)
    /\ \A e \in E : e.v \in marked /\ e.w \in marked => Joined(G!Chosen, e.v, e.w)
    /\ \A v, w \in marked : Open(v) /\ Open(w) => Joined(G!Chosen, v, w)

PrimInv ==
    /\ PrimTypes
    /\ Phases
    /\ FringeRight
    /\ QueueRight
    /\ Entering
    /\ SpreadRight
    /\ PartOfMinimum(G!Chosen, E)

(* The definitions of PrimForests, in terms of this module's. *)
LEMMA PrimTerms ==
    /\ G!Vertices = Vertices
    /\ G!AllEdges = E
    /\ G!NoEdge \notin Edges
    /\ G!NoKey = INFINITY
    /\ G!Unmarked = Vertices \ marked
    /\ \A e, v : G!Other(e, v) = Other(e, v)
<1>1. G!Vertices = Vertices BY DEF G!Vertices, Vertices
<1>2. G!AllEdges = E BY <1>1 DEF G!AllEdges, E, EdgesOf, G!ToSet, ToSet
<1>3. G!NoEdge \notin Edges BY DEF G!NoEdge, Edges
<1>4. \A e, v : G!Other(e, v) = Other(e, v) BY DEF G!Other, Other
<1> QED BY <1>1, <1>2, <1>3, <1>4 DEF G!NoKey, G!Unmarked

LEMMA LeadsAcross ==
    ASSUME GraphRight, NEW e \in E
    PROVE  /\ \A w : LeadsTo(e, w) => Crosses(e)
           /\ Crosses(e) => LeadsTo(e, e.v) \/ LeadsTo(e, e.w)
BY DEF LeadsTo, Crosses, Other

LEMMA PrimStarts ==
    ASSUME GraphRight, lazy \in BOOLEAN, G!Init
    PROVE  PrimInv
<1>1. /\ gpc = "next" /\ marked = {} /\ queue = {} /\ gmst = <<>> /\ todo = <<>> /\ rest = <<>>
      /\ distto = [v \in Vertices |-> INFINITY] /\ held = [v \in Vertices |-> INFINITY]
      /\ edgeto = [v \in Vertices |-> G!NoEdge]
  BY PrimTerms DEF G!Init
<1>2. ToSet(rest) = {} /\ G!ToSet(gmst) = {} /\ ToSet(gmst) = {} BY <1>1 DEF ToSet, G!ToSet
<1>3. G!Chosen = {} BY <1>1, <1>2 DEF G!Chosen
<1>4. Quiet BY <1>1 DEF Quiet, Crosses
<1>5. PrimTypes
  <2>1. /\ distto \in [Vertices -> Int] /\ held \in [Vertices -> Int]
        /\ edgeto \in [Vertices -> E \cup {G!NoEdge}]
    BY <1>1
  <2>2. gmst \in Seq(E) /\ rest \in Seq(E) BY <1>1
  <2> QED BY <2>1, <2>2, <1>1 DEF PrimTypes
<1>6. Phases BY <1>1, <1>2, <1>4 DEF Phases
<1>7. FringeRight BY <1>1 DEF FringeRight, Fringe, LeadsTo
<1>8. QueueRight /\ Entering BY <1>1, <1>4 DEF QueueRight, Entering, Quiet
<1>9. SpreadRight /\ PartOfMinimum(G!Chosen, E)
  BY <1>1, <1>3 DEF SpreadRight, PartOfMinimum
<1> QED BY <1>5, <1>6, <1>7, <1>8, <1>9 DEF PrimInv

(* All but the phase stays. *)
OnlyPhase == UNCHANGED <<adj, lazy, marked, distto, edgeto, held, queue, gmst, todo, rest>>

LEMMA PhaseKeeps ==
    ASSUME PrimInv, OnlyPhase, gpc' \in {"next", "grow", "scan", "done"}, Phases'
    PROVE  PrimInv'
<1>1. E' = E /\ G!Chosen' = G!Chosen BY DEF OnlyPhase, E, G!Chosen, G!ToSet
<1>2. PrimTypes' BY <1>1 DEF PrimInv, PrimTypes, OnlyPhase
<1>3. FringeRight'
  BY <1>1 DEF PrimInv, FringeRight, Fringe, Fresh, Quiet, LeadsTo, Crosses, OnlyPhase
<1>4. QueueRight' BY <1>1 DEF PrimInv, QueueRight, Crosses, OnlyPhase
<1>5. Entering' BY <1>1 DEF PrimInv, Entering, Quiet, LeadsTo, Crosses, OnlyPhase
<1>6. SpreadRight' BY <1>1 DEF PrimInv, SpreadRight, Open, Crosses, OnlyPhase
<1>7. PartOfMinimum(G!Chosen, E)' BY <1>1 DEF PrimInv
<1> QED BY <1>2, <1>3, <1>4, <1>5, <1>6, <1>7 DEF PrimInv

(* Between scans a vertex that an edge leads to is in the eager heap. *)
LEMMA FringeHeld ==
    ASSUME GraphRight, PrimInv, ~lazy, gpc = "grow", NEW w \in Vertices, NEW e \in E, LeadsTo(e, w)
    PROVE  /\ edgeto[w] \in E /\ edgeto[w] # G!NoEdge /\ LeadsTo(edgeto[w], w)
           /\ held[w] = edgeto[w].weight /\ held[w] \in Int /\ held[w] # INFINITY
           /\ held[w] <= e.weight
<1>1. rest = <<>> /\ todo = <<>> BY DEF PrimInv, Phases
<1>2. ToSet(rest) = {} /\ todo # <<w>> BY <1>1 DEF ToSet
<1>3. w \notin marked BY DEF LeadsTo
<1>4. Fringe(w) BY <1>3 DEF PrimInv, FringeRight
<1>5. edgeto[w] # G!NoEdge /\ distto[w] <= e.weight BY <1>2, <1>4 DEF Fringe
<1>6. edgeto[w] \in E BY <1>5 DEF PrimInv, PrimTypes
<1>7. edgeto[w].weight \in Int /\ edgeto[w].weight < INFINITY
  BY <1>6, GraphEdges DEF Edges, Weights
<1>8. LeadsTo(edgeto[w], w) /\ distto[w] = edgeto[w].weight /\ held[w] = distto[w]
  BY <1>2, <1>4, <1>5 DEF Fringe
<1> QED BY <1>5, <1>6, <1>7, <1>8

LEMMA FinishKeeps ==
    ASSUME GraphRight, PrimInv, G!Finish
    PROVE  PrimInv'
<1>1. gpc = "next" /\ gpc' = "done" /\ OnlyPhase /\ marked = Vertices
  BY PrimTerms DEF G!Finish, OnlyPhase, PrimInv, PrimTypes
<1>2. E' = E BY <1>1 DEF E, OnlyPhase
<1>3. Phases' BY <1>1, <1>2 DEF PrimInv, Phases, Quiet, Crosses, OnlyPhase
<1> QED BY <1>1, <1>3, PhaseKeeps

LEMMA LazyScanKeeps ==
    ASSUME GraphRight, PrimInv, G!LazyScan
    PROVE  PrimInv'
<1>1. gpc = "grow" /\ gpc' = "scan" /\ OnlyPhase /\ todo # <<>> BY DEF G!LazyScan, OnlyPhase
<1>2. Phases' BY <1>1 DEF PrimInv, Phases, OnlyPhase
<1> QED BY <1>1, <1>2, PhaseKeeps

LEMMA GrownKeeps ==
    ASSUME GraphRight, PrimInv, G!Grown
    PROVE  PrimInv'
<1>1. gpc = "grow" /\ gpc' = "next" /\ OnlyPhase /\ todo = <<>> /\ G!Heap = {} /\ queue = {}
  BY DEF G!Grown, OnlyPhase
<1>2. \A v \in Vertices : held[v] = INFINITY BY <1>1, PrimTerms DEF G!Heap
<1>3. ASSUME NEW e \in E, Crosses(e) PROVE FALSE
  <2>1. rest = <<>> BY <1>1 DEF PrimInv, Phases
  <2>2. e \notin ToSet(rest) BY <2>1 DEF ToSet
  <2>3. CASE lazy BY <2>2, <2>3, <1>1, <1>3 DEF PrimInv, QueueRight
  <2>4. CASE ~lazy
    <3>1. PICK w \in Vertices : LeadsTo(e, w) BY <1>3, LeadsAcross, GraphEdges
    <3>2. held[w] # INFINITY BY <3>1, <2>4, <1>1, FringeHeld
    <3> QED BY <3>2, <1>2
  <2> QED BY <2>3, <2>4
<1>4. Quiet BY <1>3 DEF Quiet
<1>5. E' = E BY <1>1 DEF E, OnlyPhase
<1>6. Phases' BY <1>1, <1>2, <1>4, <1>5 DEF PrimInv, Phases, Quiet, Crosses, OnlyPhase
<1> QED BY <1>1, <1>6, PhaseKeeps

LEMMA StartKeeps ==
    ASSUME GraphRight, PrimInv, G!Start
    PROVE  PrimInv'
<1> DEFINE s == G!Min(G!Unmarked)
<1>1. /\ gpc = "next" /\ gpc' = "grow"
      /\ UNCHANGED <<adj, lazy, marked, edgeto, queue, gmst, rest>>
      /\ lazy => todo' = <<s>> /\ UNCHANGED <<distto, held>>
      /\ ~lazy => /\ distto' = [distto EXCEPT ![s] = 0]
                  /\ held' = [held EXCEPT ![s] = 0]
                  /\ UNCHANGED todo
  BY DEF G!Start
<1>2. s \in Vertices \ marked
  <2>1. Vertices \ marked # {} BY PrimTerms DEF G!Start
  <2>2. Vertices \ marked \subseteq Nat BY DEF Vertices
  <2>3. \E x \in Vertices \ marked : \A y \in Vertices \ marked : x <= y
    BY <2>1, <2>2, LeastNatural
  <2> QED BY <2>3, PrimTerms DEF G!Min
<1> HIDE DEF s
<1>3. /\ todo = <<>> /\ queue = {} /\ Quiet /\ rest = <<>>
      /\ \A v \in Vertices : held[v] = INFINITY
  BY <1>1 DEF PrimInv, Phases
<1>4. E' = E /\ G!Chosen' = G!Chosen BY <1>1 DEF E, G!Chosen, G!ToSet
<1>5. ToSet(rest') = {} BY <1>1, <1>3 DEF ToSet
<1>6. Quiet' BY <1>1, <1>3, <1>4 DEF Quiet, Crosses
<1>7. PrimTypes'
  <2>1. /\ distto' \in [Vertices -> Int] /\ held' \in [Vertices -> Int]
        /\ todo' \in {<<>>} \cup {<<u>> : u \in Vertices}
    BY <1>1, <1>2 DEF PrimInv, PrimTypes
  <2> QED BY <2>1, <1>1, <1>4 DEF PrimInv, PrimTypes
<1>8. Phases'
  <2>1. todo' # <<>> => lazy' /\ todo'[1] \notin marked' BY <1>1, <1>2, <1>3
  <2>2. rest' = <<>> BY <1>1, <1>3
  <2> QED BY <2>1, <2>2, <1>1, <1>5 DEF Phases
<1>9. \A w \in Vertices : \A e \in E : ~LeadsTo(e, w)
  BY <1>3, LeadsAcross DEF Quiet
<1>10. FringeRight'
  <2>1. ASSUME NEW v \in Vertices, lazy' \/ v \in marked' PROVE held'[v] = INFINITY
    <3>1. CASE lazy BY <3>1, <1>1, <1>3
    <3>2. CASE ~lazy /\ v \in marked
      <4>1. held' = [held EXCEPT ![s] = 0] BY <3>2, <1>1
      <4>2. v # s /\ held \in [Vertices -> Int] BY <3>2, <1>2 DEF PrimInv, PrimTypes
      <4> QED BY <4>1, <4>2, <1>3
    <3> QED BY <3>1, <3>2, <2>1, <1>1
  <2>2. ASSUME ~lazy, NEW w \in Vertices \ marked PROVE Fringe(w)'
    <3>1. /\ distto' = [distto EXCEPT ![s] = 0] /\ held' = [held EXCEPT ![s] = 0]
          /\ todo' = <<>> /\ distto \in [Vertices -> Int] /\ held \in [Vertices -> Int]
      BY <2>2, <1>1, <1>3 DEF PrimInv, PrimTypes
    <3>2. Fringe(w) BY <2>2 DEF PrimInv, FringeRight
    <3>3. edgeto[w] = G!NoEdge
      <4>1. edgeto[w] \in E \cup {G!NoEdge} BY DEF PrimInv, PrimTypes
      <4> QED BY <4>1, <3>2, <1>9 DEF Fringe
    <3>4. CASE w = s
      <4>1. held'[w] = 0 /\ \A u \in Vertices \ {w} : held'[u] = INFINITY
        BY <3>4, <3>1, <1>3
      <4>2. Fresh(w)' BY <4>1, <3>1, <1>6 DEF Fresh
      <4>3. \A e \in E : ~LeadsTo(e, w)' BY <1>1, <1>9 DEF LeadsTo
      <4> QED BY <4>2, <4>3, <3>3, <1>1, <1>4 DEF Fringe
    <3>5. CASE w # s
      <4>1. held[w] = INFINITY BY <1>3
      <4>2. distto[w] = INFINITY BY <4>1, <3>2, <3>3, <1>3 DEF Fringe, Fresh
      <4>3. held'[w] = INFINITY /\ distto'[w] = INFINITY BY <4>1, <4>2, <3>1, <3>5
      <4>4. \A e \in E : ~LeadsTo(e, w)' BY <1>1, <1>9 DEF LeadsTo
      <4> QED BY <4>3, <4>4, <3>3, <1>1, <1>4 DEF Fringe
    <3> QED BY <3>4, <3>5
  <2> QED BY <2>1, <2>2, <1>1 DEF FringeRight
<1>11. QueueRight' /\ Entering'
  BY <1>1, <1>3, <1>6 DEF QueueRight, Entering, Quiet
<1>12. SpreadRight'
  <2>1. \A e \in G!Chosen : e.v \in marked /\ e.w \in marked
    BY <1>3 DEF PrimInv, SpreadRight
  <2>2. \A v, w \in marked : Open(v) /\ Open(w) => Joined(G!Chosen, v, w)
    BY DEF PrimInv, SpreadRight
  <2>3. (\A v, w \in marked : Open(v) /\ Open(w) => Joined(G!Chosen, v, w))'
    BY <2>2, <1>1, <1>4 DEF Open, Crosses
  <2> QED BY <2>1, <2>3, <1>1, <1>4 DEF PrimInv, SpreadRight
<1>13. PartOfMinimum(G!Chosen, E)' BY <1>4 DEF PrimInv
<1> QED BY <1>7, <1>8, <1>10, <1>11, <1>12, <1>13 DEF PrimInv

LEMMA DeleteKeeps ==
    ASSUME GraphRight, PrimInv, G!Delete
    PROVE  PrimInv'
<1>1. PICK u \in G!Heap : /\ \A w \in G!Heap : held[u] <= held[w]
                          /\ held' = [held EXCEPT ![u] = G!NoKey]
                          /\ todo' = <<u>>
  BY DEF G!Delete
<1>2. /\ gpc = "grow" /\ gpc' = "scan" /\ ~lazy
      /\ UNCHANGED <<adj, lazy, marked, distto, edgeto, queue, gmst, rest>>
  BY DEF G!Delete
<1>3. /\ \A v : v \in G!Heap <=> v \in Vertices /\ held[v] # INFINITY
      /\ held' = [held EXCEPT ![u] = INFINITY]
  BY <1>1, PrimTerms DEF G!Heap
<1>4. todo = <<>> /\ rest = <<>> BY <1>2 DEF PrimInv, Phases
<1>5. /\ u \in Vertices /\ u \notin marked /\ held[u] # INFINITY /\ held \in [Vertices -> Int]
  BY <1>3 DEF PrimInv, PrimTypes, FringeRight
<1>6. E' = E /\ G!Chosen' = G!Chosen BY <1>2 DEF E, G!Chosen, G!ToSet
<1>7. ToSet(rest') = {} /\ ToSet(rest) = {} BY <1>2, <1>4 DEF ToSet
<1>8. Quiet' = Quiet BY <1>2, <1>6 DEF Quiet, Crosses
<1>9. PrimTypes'
  <2>1. held' \in [Vertices -> Int] /\ todo' \in {<<>>} \cup {<<v>> : v \in Vertices}
    BY <1>1, <1>3, <1>5
  <2> QED BY <2>1, <1>2, <1>6 DEF PrimInv, PrimTypes
<1>10. Phases' BY <1>1, <1>2, <1>4, <1>7 DEF Phases
<1>11. FringeRight'
  <2>1. ASSUME NEW v \in Vertices, v \in marked PROVE held'[v] = INFINITY
    BY <2>1, <1>3, <1>5 DEF PrimInv, FringeRight
  <2>2. ASSUME NEW w \in Vertices \ marked PROVE Fringe(w)'
    <3>1. Fringe(w) BY <1>2 DEF PrimInv, FringeRight
    <3>2. \A e \in E : LeadsTo(e, w)' => edgeto[w] # G!NoEdge /\ distto[w] <= e.weight
      BY <3>1, <1>2, <1>7 DEF Fringe, LeadsTo
    <3>3. CASE w = u
      <4>1. todo' = <<w>> /\ held'[w] = INFINITY BY <3>3, <1>1, <1>3, <1>5
      <4>2. edgeto[w] = G!NoEdge => Fresh(w)'
        <5> SUFFICES ASSUME edgeto[w] = G!NoEdge PROVE Fresh(w)'
          OBVIOUS
        <5>1. Fresh(w) BY <3>1, <3>3, <1>5 DEF Fringe
        <5>2. \A v \in Vertices \ {w} : held'[v] = INFINITY BY <5>1, <1>3, <1>5 DEF Fresh
        <5> QED BY <5>1, <5>2, <4>1, <1>8 DEF Fresh
      <4>3. edgeto[w] # G!NoEdge => LeadsTo(edgeto[w], w)' /\ distto[w] = edgeto[w].weight
        BY <3>1, <1>2 DEF Fringe, LeadsTo
      <4> QED BY <4>1, <4>2, <4>3, <3>2, <1>2, <1>6 DEF Fringe
    <3>4. CASE w # u
      <4>1. held'[w] = held[w] /\ todo' # <<w>> /\ todo # <<w>>
        BY <3>4, <1>1, <1>3, <1>4, <1>5
      <4>2. edgeto[w] = G!NoEdge => held[w] = INFINITY /\ distto[w] = INFINITY
        BY <3>1, <3>4, <1>5 DEF Fringe, Fresh
      <4>3. edgeto[w] # G!NoEdge => /\ LeadsTo(edgeto[w], w)' /\ distto[w] = edgeto[w].weight
                                   /\ held[w] = distto[w]
        BY <3>1, <4>1, <1>2 DEF Fringe, LeadsTo
      <4> QED BY <4>1, <4>2, <4>3, <3>2, <1>2, <1>6 DEF Fringe
    <3> QED BY <3>3, <3>4
  <2> QED BY <2>1, <2>2, <1>2 DEF FringeRight
<1>12. QueueRight' BY <1>2 DEF PrimInv, QueueRight
<1>13. Entering'
  <2>1. CASE edgeto[u] = G!NoEdge
    <3>1. Fringe(u) BY <1>2, <1>5 DEF PrimInv, FringeRight
    <3>2. Quiet BY <3>1, <2>1, <1>5 DEF Fringe, Fresh
    <3> QED BY <3>2, <1>8 DEF Entering
  <2>2. CASE edgeto[u] # G!NoEdge
    <3>1. held[u] = edgeto[u].weight /\ edgeto[u] \in E
      <4>1. Fringe(u) BY <1>2, <1>5 DEF PrimInv, FringeRight
      <4>2. todo # <<u>> BY <1>4
      <4> QED BY <4>1, <4>2, <2>2, <1>5 DEF Fringe, PrimInv, PrimTypes
    <3>2. ASSUME NEW f \in E, Crosses(f) PROVE edgeto[u].weight <= f.weight
      <4>1. PICK w \in Vertices : LeadsTo(f, w) BY <3>2, LeadsAcross, GraphEdges
      <4>2. held[w] # INFINITY /\ held[w] <= f.weight /\ held[w] \in Int
        BY <4>1, <1>2, FringeHeld
      <4>3. held[u] <= held[w] BY <4>2, <1>1, <1>3
      <4>4. f.weight \in Int BY GraphEdges
      <4> QED BY <4>2, <4>3, <4>4, <3>1, <1>5
    <3>3. \A f \in E' : Crosses(f)' => edgeto'[u].weight <= f.weight
      BY <3>2, <1>2, <1>6 DEF Crosses
    <3>4. todo'[1] = u BY <1>1
    <3> QED BY <3>3, <3>4, <2>2, <1>2 DEF Entering
  <2> QED BY <2>1, <2>2
<1>14. SpreadRight'
  <2>1. \A e \in G!Chosen : e.v \in marked /\ e.w \in marked
    BY <1>2 DEF PrimInv, SpreadRight
  <2>2. \A v, w \in marked : Open(v) /\ Open(w) => Joined(G!Chosen, v, w)
    BY DEF PrimInv, SpreadRight
  <2>3. (\A v, w \in marked : Open(v) /\ Open(w) => Joined(G!Chosen, v, w))'
    BY <2>2, <1>2, <1>6 DEF Open, Crosses
  <2> QED BY <2>1, <2>3, <1>2, <1>6 DEF PrimInv, SpreadRight
<1>15. PartOfMinimum(G!Chosen, E)' BY <1>6 DEF PrimInv
<1> QED BY <1>9, <1>10, <1>11, <1>12, <1>13, <1>14, <1>15 DEF PrimInv

(* A lightest edge out of the trees may be chosen, once those chosen before
   lead out of the trees no more. *)
LEMMA LightestRight ==
    ASSUME GraphRight, NEW Chosen \in SUBSET E, PartOfMinimum(Chosen, E), NEW e \in E, Crosses(e),
           \A f \in E : Crosses(f) => e.weight <= f.weight,
           \A f \in Chosen : f.v \in marked /\ f.w \in marked
    PROVE  PartOfMinimum(Chosen \cup {e}, E)
<1>1. Closed(Before(Chosen, E, e), marked)
  <2> SUFFICES ASSUME NEW g \in Before(Chosen, E, e), Crosses(g) PROVE FALSE
    BY DEF Closed, Crosses
  <2>1. CASE g \in E /\ g.weight < e.weight
    <3>1. e.weight <= g.weight /\ e.weight \in Int /\ g.weight \in Int BY <2>1, GraphEdges
    <3> QED BY <3>1, <2>1
  <2>2. CASE g \in Chosen BY <2>2 DEF Crosses
  <2> QED BY <2>1, <2>2 DEF Before
<1>2. E \in SUBSET Edges /\ (e.v \in marked) # (e.w \in marked) BY GraphEdges DEF Crosses
<1> QED BY <1>1, <1>2, CutChoice

LEMMA ChosenEdges ==
    ASSUME GraphRight, PrimTypes
    PROVE  G!Chosen \in SUBSET E /\ G!Chosen \in SUBSET Edges /\ E \in SUBSET Edges
<1>1. G!ToSet(gmst) \subseteq E BY SetOfSeq DEF PrimTypes, G!ToSet, ToSet
<1>2. \A v \in marked : edgeto[v] \in E \cup {G!NoEdge} BY DEF PrimTypes
<1>3. G!Chosen \in SUBSET E BY <1>1, <1>2 DEF G!Chosen
<1> QED BY <1>3, GraphEdges

(* What was joined stays so, and nothing else has to be. *)
LEMMA SpreadMore ==
    ASSUME GraphRight, PrimInv, UNCHANGED <<adj, marked>>,
           G!Chosen \subseteq G!Chosen', G!Chosen' \in SUBSET Edges,
           \A e \in G!Chosen' : /\ e.v \in marked \/ (lazy' /\ todo' = <<e.v>>)
                                /\ e.w \in marked \/ (lazy' /\ todo' = <<e.w>>)
    PROVE  SpreadRight'
<1>1. E' = E /\ E \in SUBSET Edges /\ G!Chosen \in SUBSET Edges /\ marked \subseteq Vertices
  BY ChosenEdges DEF E, PrimInv, PrimTypes
<1>2. \A v, w \in marked : Joined(G!Chosen, v, w) => Joined(G!Chosen', v, w)
  <2> DEFINE C == G!Chosen
             D == G!Chosen'
  <2>1. C \in SUBSET Edges /\ D \in SUBSET Edges /\ C \subseteq D BY <1>1
  <2> HIDE DEF C, D
  <2>2. ASSUME NEW v \in marked, NEW w \in marked, Joined(C, v, w) PROVE Joined(D, v, w)
    BY <2>1, <2>2, <1>1, JoinedMore
  <2> QED BY <2>2 DEF C, D
<1>3. \A e \in E' : e.v \in marked' /\ e.w \in marked' => Joined(G!Chosen', e.v, e.w)
  BY <1>1, <1>2 DEF PrimInv, SpreadRight
<1>4. \A v, w \in marked : Open(v) /\ Open(w) => Joined(G!Chosen, v, w)
  BY DEF PrimInv, SpreadRight
<1>5. \A v : Open(v)' = Open(v) BY <1>1 DEF Open, Crosses
<1>6. (\A v, w \in marked : Open(v) /\ Open(w) => Joined(G!Chosen, v, w))'
  BY <1>2, <1>4, <1>5
<1> QED BY <1>3, <1>6 DEF SpreadRight

LEMMA LazyDeleteKeeps ==
    ASSUME GraphRight, PrimInv, G!LazyDelete
    PROVE  PrimInv'
<1>1. PICK e \in queue :
         /\ \A f \in queue : e.weight <= f.weight
         /\ queue' = queue \ {e}
         /\ gmst' = IF {e.v, e.w} \subseteq marked THEN gmst ELSE Append(gmst, e)
         /\ todo' = (IF e.v \in marked THEN <<>> ELSE <<e.v>>)
                      \o (IF e.w \in marked THEN <<>> ELSE <<e.w>>)
  BY DEF G!LazyDelete
<1>2. /\ gpc = "grow" /\ lazy /\ todo = <<>>
      /\ UNCHANGED <<adj, lazy, gpc, marked, distto, edgeto, held, rest>>
  BY DEF G!LazyDelete
<1>3. rest = <<>> /\ E' = E BY <1>2 DEF PrimInv, Phases, E
<1>4. ToSet(rest) = {} BY <1>3 DEF ToSet
<1>5. /\ e \in E /\ e.v \in Vertices /\ e.w \in Vertices
      /\ e.v \in marked \/ e.w \in marked
      /\ gmst \in Seq(E)
  BY GraphEdges DEF PrimInv, PrimTypes, QueueRight
<1>6. \A f \in E : Crosses(f) => f \in queue BY <1>2, <1>4 DEF PrimInv, QueueRight
<1>7. G!Chosen = ToSet(gmst) /\ G!Chosen' = ToSet(gmst')
  BY <1>2 DEF G!Chosen, G!ToSet, ToSet
<1>8. \A f \in G!Chosen : f.v \in marked /\ f.w \in marked
  BY <1>2 DEF PrimInv, SpreadRight
<1>9. G!Chosen \in SUBSET E /\ G!Chosen \in SUBSET Edges BY ChosenEdges DEF PrimInv
<1>10. FringeRight' BY <1>2 DEF PrimInv, FringeRight
<1>11. CASE ~Crosses(e)
  <2>1. todo' = <<>> /\ gmst' = gmst BY <1>1, <1>5, <1>11 DEF Crosses
  <2>2. PrimTypes' BY <2>1, <1>1, <1>2, <1>3 DEF PrimInv, PrimTypes
  <2>3. Phases' BY <2>1, <1>2, <1>3, <1>4 DEF PrimInv, Phases
  <2>4. \A f \in E' : Crosses(f)' => f \in queue' BY <1>1, <1>2, <1>3, <1>6, <1>11 DEF Crosses
  <2>5. QueueRight' BY <2>4, <1>1, <1>2 DEF PrimInv, QueueRight
  <2>6. Entering' BY <2>1 DEF Entering
  <2>7. G!Chosen' = G!Chosen BY <2>1, <1>7
  <2>8. SpreadRight' BY <2>7, <1>2, <1>8, <1>9, SpreadMore
  <2>9. PartOfMinimum(G!Chosen, E)' BY <2>7, <1>3 DEF PrimInv
  <2> QED BY <2>2, <2>3, <2>5, <2>6, <2>8, <2>9, <1>10 DEF PrimInv
<1>12. CASE Crosses(e)
  <2>1. /\ gmst' = Append(gmst, e)
        /\ \E u \in Vertices : LeadsTo(e, u) /\ todo' = <<u>>
    <3>1. CASE e.v \in marked /\ e.w \notin marked
      <4>1. LeadsTo(e, e.w) BY <3>1 DEF LeadsTo, Other
      <4>2. todo' = <<e.w>> /\ gmst' = Append(gmst, e) BY <3>1, <1>1
      <4> QED BY <4>1, <4>2, <1>5
    <3>2. CASE e.w \in marked /\ e.v \notin marked
      <4>1. LeadsTo(e, e.v) BY <3>2 DEF LeadsTo, Other
      <4>2. todo' = <<e.v>> /\ gmst' = Append(gmst, e) BY <3>2, <1>1
      <4> QED BY <4>1, <4>2, <1>5
    <3> QED BY <3>1, <3>2, <1>12 DEF Crosses
  <2>2. PICK u \in Vertices : LeadsTo(e, u) /\ todo' = <<u>> BY <2>1
  <2>3. gmst' \in Seq(E) /\ ToSet(gmst') = ToSet(gmst) \cup {e}
    BY <2>1, <1>5, AppendRight
  <2>4. u \notin marked /\ u \in {e.v, e.w} /\ LeadsTo(e, u)'
    BY <2>2, <1>2 DEF LeadsTo
  <2>5. PrimTypes' BY <2>2, <2>3, <1>1, <1>2, <1>3 DEF PrimInv, PrimTypes
  <2>6. Phases' BY <2>2, <2>4, <1>2, <1>3, <1>4 DEF PrimInv, Phases
  <2>7. QueueRight'
    <3>1. \A f \in E' : Crosses(f)' => f \in queue' \/ f = e
      BY <1>1, <1>2, <1>3, <1>6 DEF Crosses
    <3>2. todo' # <<>> /\ todo'[1] \notin marked' /\ todo'[1] \in {e.v, e.w}
      BY <2>2, <2>4, <1>2
    <3> QED BY <3>1, <3>2, <1>1, <1>2 DEF PrimInv, QueueRight
  <2>8. Entering'
    <3>1. e \in ToSet(gmst') /\ LeadsTo(e, todo[1])' BY <2>2, <2>3, <2>4
    <3> QED BY <3>1, <1>2 DEF Entering
  <2>9. G!Chosen' = G!Chosen \cup {e} BY <2>3, <1>7
  <2>10. SpreadRight'
    <3>1. e.v \in marked \/ e.v = u BY <2>4, <1>5
    <3>2. e.w \in marked \/ e.w = u BY <2>4, <1>5
    <3>3. \A f \in G!Chosen' : /\ f.v \in marked \/ (lazy' /\ todo' = <<f.v>>)
                               /\ f.w \in marked \/ (lazy' /\ todo' = <<f.w>>)
      BY <3>1, <3>2, <2>2, <2>9, <1>2, <1>8
    <3>4. G!Chosen' \in SUBSET Edges BY <2>9, <1>5, <1>9, GraphEdges
    <3> QED BY <3>3, <3>4, <2>9, <1>2, SpreadMore
  <2>11. PartOfMinimum(G!Chosen \cup {e}, E)
    <3> DEFINE C == G!Chosen
    <3>1. /\ C \in SUBSET E /\ PartOfMinimum(C, E)
          /\ \A f \in C : f.v \in marked /\ f.w \in marked
      BY <1>8, <1>9 DEF PrimInv
    <3>2. \A f \in E : Crosses(f) => e.weight <= f.weight BY <1>1, <1>6
    <3> HIDE DEF C
    <3>3. PartOfMinimum(C \cup {e}, E) BY <3>1, <3>2, <1>5, <1>12, LightestRight
    <3> QED BY <3>3 DEF C
  <2>12. PartOfMinimum(G!Chosen, E)' BY <2>9, <2>11, <1>3
  <2> QED BY <2>5, <2>6, <2>7, <2>8, <2>10, <2>12, <1>10 DEF PrimInv
<1> QED BY <1>11, <1>12

LEMMA ScanKeeps ==
    ASSUME GraphRight, PrimInv, G!Scan
    PROVE  PrimInv'
<1>1. PICK u \in Vertices : todo = <<u>>
  BY DEF G!Scan, PrimInv, PrimTypes, Phases
<1>2. Head(todo) = u /\ todo[1] = u BY <1>1
<1>3. /\ gpc = "scan" /\ u \notin marked /\ marked' = marked \cup {u} /\ rest' = adj[u]
      /\ UNCHANGED <<adj, lazy, gpc, distto, edgeto, held, queue, gmst, todo>>
  BY <1>2 DEF G!Scan
<1>4. rest = <<>> BY <1>2, <1>3 DEF PrimInv, Phases
<1>5. ToSet(rest) = {} /\ E' = E BY <1>3, <1>4 DEF ToSet, E
<1>6. /\ adj[u] \in Seq(Edges) /\ ToSet(adj[u]) \subseteq E
      /\ \A e \in ToSet(adj[u]) : u \in {e.v, e.w}
      /\ \A e \in E : u \in {e.v, e.w} => e \in ToSet(rest')
  <2>1. adj[u] \in Seq(Edges) /\ \A e \in E : e \in ToSet(adj[e.v]) /\ e \in ToSet(adj[e.w])
    BY DEF GraphRight, AdjacencyRight, E
  <2>2. \A e \in ToSet(adj[u]) : e \in E /\ u \in {e.v, e.w}
    BY AdjacencyEdges DEF GraphRight, E
  <2> QED BY <2>1, <2>2, <1>3
<1>7. rest' \in Seq(E) BY <1>3, <1>6, SeqOfItsSet
<1>8. \A e \in E : Crosses(e)' /\ e \notin ToSet(rest') => Crosses(e) /\ u \notin {e.v, e.w}
  BY <1>3, <1>6 DEF Crosses
<1>9. PrimTypes' BY <1>3, <1>5, <1>7 DEF PrimInv, PrimTypes
<1>10. Phases' BY <1>1, <1>2, <1>3, <1>6 DEF Phases
<1>11. FringeRight'
  <2>1. ~lazy => Fringe(u) BY <1>3 DEF PrimInv, FringeRight
  <2>2. ~lazy => held[u] = INFINITY BY <2>1, <1>1 DEF Fringe, Fresh
  <2>3. ASSUME NEW w \in Vertices \ marked', ~lazy PROVE Fringe(w)'
    <3>1. w \notin marked /\ w # u BY <2>3, <1>3
    <3>2. Fringe(w) /\ todo # <<w>> /\ todo # <<>>
      BY <2>3, <3>1, <1>1 DEF PrimInv, FringeRight
    <3>3. ~Fresh(w) BY <3>2 DEF Fresh
    <3>4. \A e : LeadsTo(e, w) => LeadsTo(e, w)' BY <3>1, <1>3 DEF LeadsTo
    <3>5. ASSUME NEW e \in E, LeadsTo(e, w)', e \notin ToSet(rest')
          PROVE  edgeto[w] # G!NoEdge /\ distto[w] <= e.weight
      <4>1. u \notin {e.v, e.w} BY <3>5, <1>6
      <4>2. LeadsTo(e, w) BY <3>5, <4>1, <1>3 DEF LeadsTo, Other
      <4> QED BY <4>2, <3>2, <1>5 DEF Fringe
    <3>6. /\ edgeto[w] # G!NoEdge => LeadsTo(edgeto[w], w) /\ distto[w] = edgeto[w].weight
                                     /\ held[w] = distto[w]
          /\ edgeto[w] = G!NoEdge => held[w] = INFINITY /\ distto[w] = INFINITY
      BY <3>2, <3>3 DEF Fringe
    <3> QED BY <3>2, <3>4, <3>5, <3>6, <1>3, <1>5 DEF Fringe
  <2> QED BY <2>2, <2>3, <1>3 DEF PrimInv, FringeRight
<1>12. QueueRight'
  <2>1. \A e \in queue' : e.v \in marked' \/ e.w \in marked'
    BY <1>3 DEF PrimInv, QueueRight
  <2>2. ASSUME lazy, NEW e \in E, Crosses(e)', e \notin ToSet(rest') PROVE e \in queue
    <3>1. Crosses(e) /\ u \notin {e.v, e.w} BY <2>2, <1>8
    <3>2. e \in queue \/ todo[1] \in {e.v, e.w} BY <2>2, <3>1, <1>5 DEF PrimInv, QueueRight
    <3> QED BY <3>1, <3>2, <1>2
  <2> QED BY <2>1, <2>2, <1>3, <1>5 DEF PrimInv, QueueRight
<1>13. Entering' BY <1>2, <1>3 DEF Entering
<1> DEFINE C == G!Chosen
           D == G!Chosen'
<1>14. /\ C \in SUBSET E /\ D \in SUBSET E /\ C \subseteq D
       /\ lazy => D = C
       /\ ~lazy => D = C \cup ({edgeto[u]} \ {G!NoEdge})
  <2>1. C \in SUBSET E BY ChosenEdges DEF PrimInv
  <2>2. lazy => D = C BY <1>3 DEF G!Chosen, G!ToSet
  <2>3. ~lazy => D = C \cup ({edgeto[u]} \ {G!NoEdge}) BY <1>3 DEF G!Chosen
  <2>4. edgeto[u] \in E \cup {G!NoEdge} BY DEF PrimInv, PrimTypes
  <2> QED BY <2>1, <2>2, <2>3, <2>4
(* The edge over which u comes in. *)
<1>15. ASSUME ~Quiet
       PROVE  /\ \E e \in D : LeadsTo(e, u)
              /\ ~lazy => /\ edgeto[u] \in E /\ Crosses(edgeto[u])
                          /\ \A f \in E : Crosses(f) => edgeto[u].weight <= f.weight
  <2>1. CASE lazy
    <3>1. \E e \in ToSet(gmst) : LeadsTo(e, u)
      BY <1>1, <1>2, <1>3, <1>15, <2>1 DEF PrimInv, Entering
    <3>2. C = ToSet(gmst) BY <2>1 DEF G!Chosen, G!ToSet, ToSet
    <3> QED BY <3>1, <3>2, <2>1, <1>14
  <2>2. CASE ~lazy
    <3>1. /\ edgeto[u] # G!NoEdge
          /\ \A f \in E : Crosses(f) => edgeto[u].weight <= f.weight
      BY <1>1, <1>2, <1>3, <1>15, <2>2 DEF PrimInv, Entering
    <3>2. Fringe(u) BY <2>2, <1>3 DEF PrimInv, FringeRight
    <3>3. LeadsTo(edgeto[u], u) /\ edgeto[u] \in E /\ edgeto[u] \in D
      BY <3>1, <3>2, <2>2, <1>14 DEF Fringe, PrimInv, PrimTypes
    <3>4. Crosses(edgeto[u]) BY <3>3, LeadsAcross
    <3> QED BY <3>1, <3>3, <3>4, <2>2
  <2> QED BY <2>1, <2>2
<1>16. ASSUME Quiet, ~lazy PROVE edgeto[u] = G!NoEdge
  <2>1. Fringe(u) BY <1>3, <1>16 DEF PrimInv, FringeRight
  <2>2. edgeto[u] \in E \cup {G!NoEdge} BY DEF PrimInv, PrimTypes
  <2> QED BY <2>1, <2>2, <1>16, LeadsAcross DEF Fringe, Quiet
<1>17. D \in SUBSET Edges /\ C \in SUBSET Edges /\ marked \subseteq Vertices
  BY <1>14, GraphEdges DEF PrimInv, PrimTypes
<1> HIDE DEF C, D
<1>18. \A v, w \in marked : Joined(C, v, w) => Joined(D, v, w)
  <2>1. ASSUME NEW v \in marked, NEW w \in marked, Joined(C, v, w) PROVE Joined(D, v, w)
    BY <2>1, <1>14, <1>17, JoinedMore
  <2> QED BY <2>1
(* From where an edge led out of the trees u is reached. *)
<1>19. ASSUME NEW v \in marked, Open(v) PROVE Joined(D, v, u) /\ Joined(D, u, v)
  <2>1. ~Quiet BY <1>19 DEF Open, Quiet
  <2>2. PICK e \in D : LeadsTo(e, u) BY <1>15, <2>1
  <2>3. e \in E BY <2>2, <1>14
  <2> DEFINE t == Other(e, u)
  <2>4. t \in marked /\ t \in {e.v, e.w} /\ u \in {e.v, e.w} BY <2>2 DEF LeadsTo, Other
  <2>5. Crosses(e) BY <2>2, <2>3, LeadsAcross
  <2>6. Open(t) BY <2>3, <2>4, <2>5 DEF Open
  <2> HIDE DEF t
  <2>7. Joined(C, v, t) BY <2>4, <2>6, <1>19 DEF PrimInv, SpreadRight, C
  <2>8. Joined(D, v, t) BY <2>4, <2>7, <1>18
  <2>9. t # u BY <2>4, <1>3
  <2>10. Joined(D, t, u)
    <3>1. (t = e.v /\ u = e.w) \/ (t = e.w /\ u = e.v) BY <2>4, <2>9
    <3> QED BY <3>1, <1>17, JoinedEdge
  <2>11. v \in Vertices /\ t \in Vertices BY <2>4, <1>17
  <2>12. Joined(D, v, u) BY <2>8, <2>10, <2>11, <1>17, JoinedTransitive
  <2> QED BY <2>11, <2>12, <1>17, JoinedSymmetric
<1>20. Joined(D, u, u) BY <1>17, JoinedRight
<1>21. ASSUME NEW v \in marked', Open(v)' PROVE Joined(D, v, u) /\ Joined(D, u, v)
  <2>1. CASE v = u BY <2>1, <1>20
  <2>2. CASE v \in marked
    <3>1. PICK e \in E : v \in {e.v, e.w} /\ Crosses(e)' BY <1>5, <1>21 DEF Open
    <3>2. Crosses(e) BY <3>1, <2>2, <1>3 DEF Crosses
    <3>3. Open(v) BY <3>1, <3>2 DEF Open
    <3> QED BY <2>2, <3>3, <1>19
  <2> QED BY <2>1, <2>2, <1>3
<1>22. (\A v, w \in marked : Open(v) /\ Open(w) => Joined(G!Chosen, v, w))'
  <2>1. ASSUME NEW v \in marked', NEW w \in marked', Open(v)', Open(w)' PROVE Joined(D, v, w)
    <3>1. Joined(D, v, u) /\ Joined(D, u, w) BY <2>1, <1>21
    <3>2. v \in Vertices BY <1>3, <1>17
    <3> QED BY <3>1, <3>2, <1>17, JoinedTransitive
  <2> QED BY <2>1 DEF D
<1>23. ASSUME NEW e \in E, e.v \in marked', e.w \in marked' PROVE Joined(D, e.v, e.w)
  <2>1. CASE e.v \in marked /\ e.w \in marked
    <3>1. Joined(C, e.v, e.w) BY <2>1 DEF PrimInv, SpreadRight, C
    <3> QED BY <2>1, <3>1, <1>18
  <2>2. CASE e.v = u /\ e.w = u BY <2>2, <1>20
  <2>3. CASE e.v \in marked /\ e.w = u
    <3>1. Open(e.v) BY <2>3, <1>3 DEF Open, Crosses
    <3> QED BY <2>3, <3>1, <1>19
  <2>4. CASE e.v = u /\ e.w \in marked
    <3>1. Open(e.w) BY <2>4, <1>3 DEF Open, Crosses
    <3> QED BY <2>4, <3>1, <1>19
  <2> QED BY <2>1, <2>2, <2>3, <2>4, <1>3, <1>23
<1>24. SpreadRight'
  <2>1. ASSUME NEW e \in D
        PROVE  /\ e.v \in marked' \/ (lazy' /\ todo' = <<e.v>>)
               /\ e.w \in marked' \/ (lazy' /\ todo' = <<e.w>>)
    <3>1. CASE e \in C BY <3>1, <1>3 DEF PrimInv, SpreadRight, C
    <3>2. CASE ~lazy /\ e = edgeto[u] /\ e # G!NoEdge
      <4>1. Fringe(u) BY <3>2, <1>3 DEF PrimInv, FringeRight
      <4>2. LeadsTo(e, u) BY <4>1, <3>2 DEF Fringe
      <4> QED BY <4>2, <1>3 DEF LeadsTo, Other
    <3> QED BY <3>1, <3>2, <1>14
  <2>2. \A e \in E' : e.v \in marked' /\ e.w \in marked' => Joined(D, e.v, e.w)
    BY <1>5, <1>23
  <2>3. \A e \in G!Chosen' : /\ e.v \in marked' \/ (lazy' /\ todo' = <<e.v>>)
                             /\ e.w \in marked' \/ (lazy' /\ todo' = <<e.w>>)
    BY <2>1 DEF D
  <2>4. \A e \in E' : e.v \in marked' /\ e.w \in marked' => Joined(G!Chosen', e.v, e.w)
    BY <2>2 DEF D
  <2> QED BY <2>3, <2>4, <1>22 DEF SpreadRight
<1>25. PartOfMinimum(D, E)
  <2>1. PartOfMinimum(C, E) BY DEF PrimInv, C
  <2>2. CASE lazy \/ Quiet
    <3>1. D = C BY <2>2, <1>14, <1>16
    <3> QED BY <2>1, <3>1
  <2>3. CASE ~lazy /\ ~Quiet
    <3>1. /\ edgeto[u] \in E /\ Crosses(edgeto[u])
          /\ \A f \in E : Crosses(f) => edgeto[u].weight <= f.weight
      BY <2>3, <1>15
    <3>2. D = C \cup {edgeto[u]} BY <2>3, <3>1, <1>14, GraphEdges, PrimTerms
    <3>3. \A f \in C : f.v \in marked /\ f.w \in marked
      BY <2>3 DEF PrimInv, SpreadRight, C
    <3>4. PartOfMinimum(C \cup {edgeto[u]}, E)
      BY <2>1, <3>1, <3>3, <1>14, LightestRight
    <3> QED BY <3>2, <3>4
  <2> QED BY <2>2, <2>3
<1>26. PartOfMinimum(G!Chosen, E)' BY <1>5, <1>25 DEF D
<1> QED BY <1>9, <1>10, <1>11, <1>12, <1>13, <1>24, <1>26 DEF PrimInv

(* The edge the scan has come to. *)
LEMMA ScanningRight ==
    ASSUME GraphRight, PrimInv, G!Scanning, rest # <<>>,
           NEW u, u = Head(todo), NEW e, e = Head(rest), NEW a, a = G!Across
    PROVE  /\ gpc = "scan" /\ todo = <<u>> /\ todo[1] = u /\ u \in marked
           /\ e \in E /\ a \in Vertices /\ u \in {e.v, e.w}
           /\ Tail(rest) \in Seq(E) /\ ToSet(Tail(rest)) \subseteq ToSet(rest)
           /\ \A f \in ToSet(rest) : f = e \/ f \in ToSet(Tail(rest))
           /\ \A w : LeadsTo(e, w) => w = a
           /\ a \notin marked => LeadsTo(e, a)
           /\ Crosses(e) <=> a \notin marked
<1>1. PICK x \in Vertices : todo = <<x>>
  BY DEF G!Scanning, PrimInv, PrimTypes, Phases
<1>2. x = u /\ todo[1] = u BY <1>1
<1>3. gpc = "scan" /\ u \in marked BY DEF G!Scanning
<1>4. rest \in Seq(E) BY DEF PrimInv, PrimTypes
<1>5. /\ e \in E /\ Tail(rest) \in Seq(E)
      /\ \A f \in ToSet(rest) : f = e \/ f \in ToSet(Tail(rest))
  BY <1>4, TailRight
<1>6. e \in ToSet(rest) /\ ToSet(Tail(rest)) \subseteq ToSet(rest)
  <2>1. Len(rest) \in Nat /\ Len(rest) > 0 BY <1>4, SetOfSeq
  <2>2. /\ e = rest[1] /\ Len(Tail(rest)) = Len(rest) - 1
        /\ \A m \in 1 .. Len(rest) - 1 : Tail(rest)[m] = rest[m + 1]
    BY <2>1, <1>4
  <2>3. e \in ToSet(rest) BY <2>1, <2>2, <1>4, SetOfSeq
  <2>4. ASSUME NEW f \in ToSet(Tail(rest)) PROVE f \in ToSet(rest)
    <3>1. PICK m \in 1 .. Len(Tail(rest)) : f = Tail(rest)[m] BY <1>5, SetOfSeq
    <3>2. m + 1 \in 1 .. Len(rest) /\ f = rest[m + 1] BY <3>1, <2>1, <2>2
    <3> QED BY <3>2, <1>4, SetOfSeq
  <2> QED BY <2>3, <2>4
<1>7. u \in {e.v, e.w} BY <1>2, <1>6 DEF PrimInv, Phases
<1>8. a = Other(e, u) BY PrimTerms DEF G!Across
<1>9. a \in {e.v, e.w} /\ a \in Vertices BY <1>5, <1>8, GraphEdges DEF Other
<1>10. {e.v, e.w} = {u, a} BY <1>7, <1>8 DEF Other
<1>11. Crosses(e) <=> a \notin marked BY <1>3, <1>7, <1>8 DEF Crosses, Other
<1>12. \A w : LeadsTo(e, w) => w = a BY <1>3, <1>10 DEF LeadsTo
<1>13. a \notin marked => LeadsTo(e, a) BY <1>3, <1>7, <1>8 DEF LeadsTo, Other
<1> QED BY <1>1, <1>2, <1>3, <1>5, <1>6, <1>7, <1>9, <1>11, <1>12, <1>13

(* An edge further: of the trees nothing changes. *)
LEMMA FurtherKeeps ==
    ASSUME GraphRight, PrimInv, G!Scanning, rest # <<>>,
           UNCHANGED <<adj, lazy, gpc, marked, gmst, todo>>, rest' = Tail(rest),
           PrimTypes', FringeRight', QueueRight', \A v \in marked : edgeto'[v] = edgeto[v]
    PROVE  PrimInv'
<1> DEFINE u == Head(todo)
<1>1. /\ gpc = "scan" /\ todo = <<u>> /\ todo[1] = u /\ u \in marked
      /\ Tail(rest) \in Seq(E) /\ ToSet(Tail(rest)) \subseteq ToSet(rest)
  BY ScanningRight
<1> HIDE DEF u
<1>2. E' = E BY DEF E
<1>3. G!Chosen' = G!Chosen BY DEF G!Chosen, G!ToSet
<1>4. Phases'
  <2>1. \A f \in ToSet(rest') : todo'[1] \in {f.v, f.w} BY <1>1 DEF PrimInv, Phases
  <2> QED BY <2>1, <1>1 DEF Phases
<1>5. Entering' BY <1>1 DEF Entering
<1>6. SpreadRight'
  <2>1. \A e \in G!Chosen' : /\ e.v \in marked \/ (lazy' /\ todo' = <<e.v>>)
                             /\ e.w \in marked \/ (lazy' /\ todo' = <<e.w>>)
    BY <1>3 DEF PrimInv, SpreadRight
  <2>2. G!Chosen' \in SUBSET Edges BY <1>3, ChosenEdges DEF PrimInv
  <2> QED BY <2>1, <2>2, <1>3, SpreadMore
<1>7. PartOfMinimum(G!Chosen, E)' BY <1>2, <1>3 DEF PrimInv
<1> QED BY <1>4, <1>5, <1>6, <1>7 DEF PrimInv

LEMMA RelaxKeeps ==
    ASSUME GraphRight, PrimInv, G!Relax
    PROVE  PrimInv'
<1> DEFINE u == Head(todo)
           e == Head(rest)
           a == G!Across
<1>1. /\ G!Scanning /\ rest # <<>> /\ ~lazy /\ a \notin marked /\ e.weight < distto[a]
      /\ distto' = [distto EXCEPT ![a] = e.weight]
      /\ edgeto' = [edgeto EXCEPT ![a] = e]
      /\ held' = [held EXCEPT ![a] = e.weight]
      /\ rest' = Tail(rest)
      /\ UNCHANGED <<adj, lazy, gpc, marked, queue, gmst, todo>>
  BY DEF G!Relax
<1>2. /\ gpc = "scan" /\ todo = <<u>> /\ todo[1] = u /\ u \in marked
      /\ e \in E /\ a \in Vertices
      /\ Tail(rest) \in Seq(E)
      /\ \A f \in ToSet(rest) : f = e \/ f \in ToSet(Tail(rest))
      /\ \A w : LeadsTo(e, w) => w = a
      /\ LeadsTo(e, a)
  BY <1>1, ScanningRight
<1> HIDE DEF u, e, a
<1>3. /\ distto \in [Vertices -> Int] /\ held \in [Vertices -> Int]
      /\ edgeto \in [Vertices -> E \cup {G!NoEdge}]
  BY DEF PrimInv, PrimTypes
<1>4. E' = E /\ e.weight \in Int /\ e # G!NoEdge
  BY <1>1, <1>2, GraphEdges, PrimTerms DEF E
<1>5. PrimTypes'
  <2>1. /\ distto' \in [Vertices -> Int] /\ held' \in [Vertices -> Int]
        /\ edgeto' \in [Vertices -> E \cup {G!NoEdge}]
    BY <1>1, <1>2, <1>3, <1>4
  <2> QED BY <2>1, <1>1, <1>2, <1>4 DEF PrimInv, PrimTypes
<1>6. FringeRight'
  <2>1. ASSUME NEW v \in marked PROVE held'[v] = INFINITY
    <3>1. held[v] = INFINITY /\ v # a /\ v \in Vertices
      BY <1>1 DEF PrimInv, PrimTypes, FringeRight
    <3> QED BY <3>1, <1>1, <1>3
  <2>2. ASSUME NEW w \in Vertices \ marked PROVE Fringe(w)'
    <3>1. Fringe(w) /\ todo # <<w>> /\ todo # <<>>
      BY <1>1, <1>2 DEF PrimInv, FringeRight
    <3>2. ~Fresh(w) BY <3>1 DEF Fresh
    <3>3. \A f : LeadsTo(f, w)' <=> LeadsTo(f, w) BY <1>1 DEF LeadsTo
    <3>4. CASE w = a
      <4>1. distto'[w] = e.weight /\ held'[w] = e.weight /\ edgeto'[w] = e
        BY <3>4, <1>1, <1>2, <1>3
      <4>2. ASSUME NEW f \in E, LeadsTo(f, w), f \notin ToSet(rest') PROVE e.weight <= f.weight
        <5>1. CASE f = e BY <5>1, <1>4
        <5>2. CASE f \notin ToSet(rest)
          <6>1. distto[w] <= f.weight BY <4>2, <5>2, <3>1 DEF Fringe
          <6>2. distto[w] \in Int /\ f.weight \in Int /\ e.weight < distto[w]
            BY <3>4, <1>1, <1>3, GraphEdges
          <6> QED BY <6>1, <6>2, <1>4
        <5> QED BY <5>1, <5>2, <4>2, <1>1, <1>2
      <4> QED BY <4>1, <4>2, <3>1, <3>3, <3>4, <1>1, <1>2, <1>4 DEF Fringe
    <3>5. CASE w # a
      <4>1. distto'[w] = distto[w] /\ held'[w] = held[w] /\ edgeto'[w] = edgeto[w]
        BY <3>5, <1>1, <1>3
      <4>2. ASSUME NEW f \in E, LeadsTo(f, w), f \notin ToSet(rest')
            PROVE  edgeto[w] # G!NoEdge /\ distto[w] <= f.weight
        <5>1. f # e /\ f \notin ToSet(rest) BY <4>2, <3>5, <1>1, <1>2
        <5> QED BY <4>2, <5>1, <3>1 DEF Fringe
      <4>3. /\ edgeto[w] # G!NoEdge => LeadsTo(edgeto[w], w) /\ distto[w] = edgeto[w].weight
                                       /\ held[w] = distto[w]
            /\ edgeto[w] = G!NoEdge => held[w] = INFINITY /\ distto[w] = INFINITY
        BY <3>1, <3>2 DEF Fringe
      <4> QED BY <4>1, <4>2, <4>3, <3>1, <3>3, <1>1, <1>4 DEF Fringe
    <3> QED BY <3>4, <3>5
  <2> QED BY <2>1, <2>2, <1>1 DEF FringeRight
<1>7. QueueRight' BY <1>1 DEF PrimInv, QueueRight
<1>8. \A v \in marked : edgeto'[v] = edgeto[v] BY <1>1, <1>3 DEF PrimInv, PrimTypes
<1> QED BY <1>1, <1>5, <1>6, <1>7, <1>8, FurtherKeeps

LEMMA LazyInsertKeeps ==
    ASSUME GraphRight, PrimInv, G!LazyInsert
    PROVE  PrimInv'
<1> DEFINE u == Head(todo)
           e == Head(rest)
<1>1. /\ G!Scanning /\ rest # <<>> /\ lazy
      /\ queue' = queue \cup {e}
      /\ rest' = Tail(rest)
      /\ UNCHANGED <<adj, lazy, gpc, marked, distto, edgeto, held, gmst, todo>>
  BY DEF G!LazyInsert
<1>2. /\ u \in marked /\ e \in E /\ u \in {e.v, e.w} /\ todo = <<u>> /\ todo[1] = u
      /\ Tail(rest) \in Seq(E)
      /\ \A f \in ToSet(rest) : f = e \/ f \in ToSet(Tail(rest))
  BY <1>1, ScanningRight
<1> HIDE DEF u, e
<1>3. E' = E BY <1>1 DEF E
<1>4. PrimTypes' BY <1>1, <1>2, <1>3 DEF PrimInv, PrimTypes
<1>5. FringeRight' BY <1>1 DEF PrimInv, FringeRight
<1>6. QueueRight'
  <2>1. \A f \in queue' : f.v \in marked' \/ f.w \in marked'
    BY <1>1, <1>2 DEF PrimInv, QueueRight
  <2>2. \A f \in E' : Crosses(f)' /\ f \notin ToSet(rest') => f \in queue'
    BY <1>1, <1>2, <1>3 DEF PrimInv, QueueRight, Crosses
  <2> QED BY <2>1, <2>2, <1>1 DEF QueueRight
<1> QED BY <1>1, <1>4, <1>5, <1>6, FurtherKeeps

LEMMA SkipKeeps ==
    ASSUME GraphRight, PrimInv, G!Skip
    PROVE  PrimInv'
<1> DEFINE u == Head(todo)
           e == Head(rest)
           a == G!Across
<1>1. /\ G!Scanning /\ rest # <<>> /\ rest' = Tail(rest)
      /\ a \in marked \/ (~lazy /\ e.weight >= distto[a])
      /\ UNCHANGED <<adj, lazy, gpc, marked, distto, edgeto, held, queue, gmst, todo>>
  BY DEF G!Skip
<1>2. /\ u \in marked /\ e \in E /\ a \in Vertices /\ todo = <<u>> /\ todo[1] = u
      /\ Tail(rest) \in Seq(E)
      /\ \A f \in ToSet(rest) : f = e \/ f \in ToSet(Tail(rest))
      /\ \A w : LeadsTo(e, w) => w = a
      /\ Crosses(e) <=> a \notin marked
  BY <1>1, ScanningRight
<1> HIDE DEF u, e, a
<1>3. E' = E BY <1>1 DEF E
<1>4. PrimTypes' BY <1>1, <1>2, <1>3 DEF PrimInv, PrimTypes
<1>5. FringeRight'
  <2>1. ASSUME NEW w \in Vertices \ marked, ~lazy PROVE Fringe(w)'
    <3>1. Fringe(w) /\ todo # <<w>> /\ todo # <<>>
      BY <2>1, <1>1, <1>2 DEF PrimInv, FringeRight
    <3>2. ~Fresh(w) BY <3>1 DEF Fresh
    <3>3. \A f : LeadsTo(f, w)' <=> LeadsTo(f, w) BY <1>1 DEF LeadsTo
    <3>4. ASSUME NEW f \in E, LeadsTo(f, w), f \notin ToSet(rest')
          PROVE  edgeto[w] # G!NoEdge /\ distto[w] <= f.weight
      <4>1. CASE f \notin ToSet(rest) BY <4>1, <3>1, <3>4 DEF Fringe
      <4>2. CASE f = e
        <5>1. w = a BY <4>2, <3>4, <1>2
        <5>2. distto[w] \in Int /\ e.weight \in Int /\ e.weight < INFINITY
          BY <1>2, GraphEdges DEF PrimInv, PrimTypes, Edges, Weights
        <5>3. distto[w] <= e.weight BY <5>1, <5>2, <1>1, <2>1
        <5>4. distto[w] # INFINITY BY <5>2, <5>3
        <5> QED BY <4>2, <5>3, <5>4, <3>1, <3>2 DEF Fringe
      <4> QED BY <4>1, <4>2, <3>4, <1>1, <1>2
    <3>5. /\ edgeto[w] # G!NoEdge => LeadsTo(edgeto[w], w) /\ distto[w] = edgeto[w].weight
                                     /\ held[w] = distto[w]
          /\ edgeto[w] = G!NoEdge => held[w] = INFINITY /\ distto[w] = INFINITY
      BY <3>1, <3>2 DEF Fringe
    <3> QED BY <3>1, <3>3, <3>4, <3>5, <1>1, <1>3 DEF Fringe
  <2> QED BY <2>1, <1>1 DEF PrimInv, FringeRight
<1>6. QueueRight'
  <2>1. \A f \in queue' : f.v \in marked' \/ f.w \in marked'
    BY <1>1 DEF PrimInv, QueueRight
  <2>2. ASSUME lazy PROVE \A f \in E' : Crosses(f)' /\ f \notin ToSet(rest') => f \in queue'
    <3>1. ~Crosses(e) BY <2>2, <1>1, <1>2
    <3> QED BY <3>1, <2>2, <1>1, <1>2, <1>3 DEF PrimInv, QueueRight, Crosses
  <2> QED BY <2>1, <2>2, <1>1 DEF PrimInv, QueueRight
<1> QED BY <1>1, <1>4, <1>5, <1>6, FurtherKeeps

LEMMA ScannedKeeps ==
    ASSUME GraphRight, PrimInv, G!Scanned
    PROVE  PrimInv'
<1>1. PICK u \in Vertices : todo = <<u>>
  BY DEF G!Scanned, G!Scanning, PrimInv, PrimTypes, Phases
<1>2. Head(todo) = u /\ todo[1] = u /\ Tail(todo) = <<>> BY <1>1
<1>3. /\ gpc = "scan" /\ gpc' = "grow" /\ u \in marked /\ rest = <<>> /\ todo' = <<>>
      /\ UNCHANGED <<adj, lazy, marked, distto, edgeto, held, queue, gmst, rest>>
  BY <1>2 DEF G!Scanned, G!Scanning
<1>4. E' = E /\ G!Chosen' = G!Chosen BY <1>3 DEF E, G!Chosen, G!ToSet
<1>5. ToSet(rest) = {} BY <1>3 DEF ToSet
<1>6. PrimTypes' BY <1>3, <1>4 DEF PrimInv, PrimTypes
<1>7. Phases' BY <1>3, <1>5 DEF Phases
<1>8. FringeRight'
  <2>1. ASSUME NEW w \in Vertices \ marked, ~lazy PROVE Fringe(w)'
    <3>1. Fringe(w) /\ todo # <<w>> /\ todo # <<>>
      BY <2>1, <1>1, <1>3 DEF PrimInv, FringeRight
    <3>2. ~Fresh(w) BY <3>1 DEF Fresh
    <3>3. \A f : LeadsTo(f, w)' <=> LeadsTo(f, w) BY <1>3 DEF LeadsTo
    <3>4. /\ edgeto[w] # G!NoEdge => LeadsTo(edgeto[w], w) /\ distto[w] = edgeto[w].weight
                                     /\ held[w] = distto[w]
          /\ edgeto[w] = G!NoEdge => held[w] = INFINITY /\ distto[w] = INFINITY
          /\ \A f \in E : LeadsTo(f, w) => edgeto[w] # G!NoEdge /\ distto[w] <= f.weight
      BY <3>1, <3>2, <1>5 DEF Fringe
    <3>5. todo' # <<w>> BY <1>3
    <3> QED BY <3>3, <3>4, <3>5, <1>3, <1>4 DEF Fringe
  <2> QED BY <2>1, <1>3 DEF PrimInv, FringeRight
<1>9. QueueRight' BY <1>2, <1>3, <1>4 DEF PrimInv, QueueRight, Crosses
<1>10. Entering' BY <1>3 DEF Entering
<1>11. SpreadRight'
  <2>1. \A e \in G!Chosen' : /\ e.v \in marked \/ (lazy' /\ todo' = <<e.v>>)
                             /\ e.w \in marked \/ (lazy' /\ todo' = <<e.w>>)
    <3>1. ASSUME NEW e \in G!Chosen PROVE e.v \in marked /\ e.w \in marked
      <4>1. todo = <<e.v>> => e.v = u BY <1>1
      <4>2. todo = <<e.w>> => e.w = u BY <1>1
      <4> QED BY <4>1, <4>2, <1>3 DEF PrimInv, SpreadRight
    <3> QED BY <3>1, <1>4
  <2>2. G!Chosen' \in SUBSET Edges BY <1>4, ChosenEdges DEF PrimInv
  <2> QED BY <2>1, <2>2, <1>3, <1>4, SpreadMore
<1>12. PartOfMinimum(G!Chosen, E)' BY <1>4 DEF PrimInv
<1> QED BY <1>6, <1>7, <1>8, <1>9, <1>10, <1>11, <1>12 DEF PrimInv

LEMMA PrimStutters ==
    ASSUME PrimInv, OnlyPhase, gpc' = gpc
    PROVE  PrimInv'
<1>1. E' = E BY DEF E, OnlyPhase
<1>2. Phases' BY <1>1 DEF PrimInv, Phases, Quiet, Crosses, OnlyPhase
<1> QED BY <1>2, PhaseKeeps DEF PrimInv, PrimTypes

LEMMA PrimSteps ==
    ASSUME GraphRight, PrimInv, G!Next
    PROVE  PrimInv'
<1>1. CASE G!Done
  <2>1. OnlyPhase /\ gpc' = gpc BY <1>1 DEF G!Done, G!vars, OnlyPhase
  <2> QED BY <2>1, PrimStutters
<1> QED BY <1>1, StartKeeps, FinishKeeps, DeleteKeeps, LazyDeleteKeeps, LazyScanKeeps, GrownKeeps,
           ScanKeeps, RelaxKeeps, LazyInsertKeeps, SkipKeeps, ScannedKeeps
        DEF G!Next, G!Work
-----------------------------------------------------------------------------
(* The behaviours of the run. *)

(* Whichever structure a behaviour uses, the others stay as initialised. *)
ForestsInv ==
    /\ falg = kind
    /\ GraphRight
    /\ UnionInv
    /\ PrimInv

LEMMA GraphStarts ==
    ASSUME MCInit
    PROVE  GraphRight
<1>1. PICK added \in (IF kind \in ByUnion \cup Grown THEN Inputs ELSE {<<>>}) :
         adj = GraphOf(added)
  BY DEF MCInit
<1>2. CASE added = <<>>
  <2>1. added \in Seq(Edges) /\ \A m, n \in DOMAIN added : added[m].id = added[n].id => m = n
    BY <1>2
  <2> QED BY <2>1, <1>1, GraphOfRight DEF GraphRight
<1>3. CASE added \in Inputs
  <2>1. added \in Seq(Edges) /\ \A m, n \in DOMAIN added : added[m].id = added[n].id => m = n
    BY <1>3, InputsAssumption
  <2> QED BY <2>1, <1>1, GraphOfRight DEF GraphRight
<1> QED BY <1>1, <1>2, <1>3

LEMMA ForestsStart == MCInit => ForestsInv
<1> SUFFICES ASSUME MCInit PROVE ForestsInv
  OBVIOUS
<1>1. GraphRight BY GraphStarts
<1>2. UnionInv BY <1>1, UnionStarts DEF MCInit
<1>3. lazy \in BOOLEAN
  <2>1. lazy = (kind = "lazy") BY DEF MCInit
  <2> QED BY <2>1
<1>4. PrimInv BY <1>1, <1>3, PrimStarts DEF MCInit
<1> QED BY <1>1, <1>2, <1>4 DEF ForestsInv, MCInit

LEMMA ForestsStay == ForestsInv /\ [MCNext]_mcvars => ForestsInv'
<1> SUFFICES ASSUME ForestsInv, [MCNext]_mcvars PROVE ForestsInv'
  OBVIOUS
<1>1. CASE F!Next /\ UNCHANGED <<kind, gvars>>
  <2>1. UNCHANGED <<adj, falg>>
    BY <1>1 DEF F!Next, F!Work, F!KruskalSort, F!KruskalStep, F!KruskalEnd, F!BoruvkaRound,
       F!ClosestStep, F!ClosestEnd, F!AddStep, F!RoundEnd, F!BoruvkaEnd, F!Done, F!vars
  <2>2. UnionInv' BY <1>1, UnionSteps DEF ForestsInv
  <2>3. OnlyPhase /\ gpc' = gpc BY <2>1, <1>1 DEF OnlyPhase, gvars
  <2>4. PrimInv' BY <2>3, PrimStutters DEF ForestsInv
  <2> QED BY <2>1, <2>2, <2>4, <1>1 DEF ForestsInv, GraphRight
<1>2. CASE G!Next /\ UNCHANGED <<kind, fvars>>
  <2>1. adj' = adj
    BY <1>2 DEF G!Next, G!Work, G!Start, G!Finish, G!Delete, G!LazyDelete, G!LazyScan, G!Grown,
       G!Scan, G!Relax, G!LazyInsert, G!Skip, G!Scanned, G!Done, G!vars
  <2>2. PrimInv' BY <1>2, PrimSteps DEF ForestsInv
  <2>3. UNCHANGED <<adj, falg, fpc, edges, fcanon, mst, closest, k, fi>>
    BY <2>1, <1>2 DEF fvars
  <2>4. UnionInv' BY <2>3, UnionStutters DEF ForestsInv
  <2> QED BY <2>1, <2>2, <2>3, <2>4, <1>2 DEF ForestsInv, GraphRight
<1>3. CASE UNCHANGED <<kind, adj, fvars, gvars>>
  <2>1. UNCHANGED <<adj, falg, fpc, edges, fcanon, mst, closest, k, fi>> BY <1>3 DEF fvars
  <2>2. OnlyPhase /\ gpc' = gpc BY <1>3 DEF OnlyPhase, gvars
  <2> QED BY <2>1, <2>2, <1>3, UnionStutters, PrimStutters DEF ForestsInv, GraphRight
<1> QED BY <1>1, <1>2, <1>3 DEF MCNext, mcvars

THEOREM ForestsInvariance == MCSpec => []ForestsInv
<1> QED BY ForestsStart, ForestsStay, PTL DEF MCSpec

(* Two vertices have one root exactly when the chosen edges join them. *)
LEMMA RootsRight ==
    ASSUME GraphRight, UnionInv
    PROVE  F!RootsAreTrees
<1>1. F!Vertices = Vertices /\ F!ToSet(mst) = ToSet(mst)
  BY UnionTerms DEF F!ToSet, ToSet
<1>2. \A v : F!Component(ToSet(mst), v) = Component(ToSet(mst), v)
  BY Zenon DEF F!Component, Component, F!Wider, Wider
<1>3. ToSet(mst) \in SUBSET Edges BY SetOfSeq, GraphEdges DEF UnionInv, UnionTypes
<1>4. ASSUME NEW v \in Vertices
      PROVE  {w \in Vertices : fcanon[w] = fcanon[v]} = Component(ToSet(mst), v)
  <2>1. \A w \in Vertices : fcanon[v] = fcanon[w] <=> w \in Component(ToSet(mst), v)
    BY DEF UnionInv, TreesRight, Rooted, Joined
  <2>2. Component(ToSet(mst), v) \subseteq Vertices BY <1>3, ComponentLeast
  <2> QED BY <2>1, <2>2
<1> QED BY <1>1, <1>2, <1>4 DEF F!RootsAreTrees

(* The heap of Prim's algorithm is the fringe of the trees. *)
LEMMA FringeIsHeap ==
    ASSUME GraphRight, PrimInv
    PROVE  G!HeapIsFringe
<1> SUFFICES ASSUME gpc = "grow", ~lazy, NEW w \in Vertices \ marked,
                    NEW crossing,
                    crossing = {e \in E : w \in {e.v, e.w} /\ Other(e, w) \in marked}
             PROVE  /\ crossing = {} => held[w] \in {INFINITY, 0}
                    /\ crossing # {} => held[w] = G!Min({e.weight : e \in crossing})
                                        /\ edgeto[w] \in crossing
                                        /\ held[w] = edgeto[w].weight
  BY PrimTerms DEF G!HeapIsFringe
<1>1. \A e : e \in crossing <=> e \in E /\ LeadsTo(e, w) BY DEF LeadsTo
<1>2. ASSUME crossing = {} PROVE held[w] \in {INFINITY, 0}
  <2>1. Fringe(w) BY DEF PrimInv, FringeRight
  <2>2. edgeto[w] \in E \cup {G!NoEdge} BY DEF PrimInv, PrimTypes
  <2>3. edgeto[w] = G!NoEdge BY <2>1, <2>2, <1>1, <1>2 DEF Fringe
  <2> QED BY <2>1, <2>3 DEF Fringe, Fresh
<1>3. ASSUME NEW e \in crossing
      PROVE  /\ edgeto[w] \in crossing /\ held[w] = edgeto[w].weight
             /\ held[w] \in Int /\ held[w] <= e.weight
  <2>1. e \in E /\ LeadsTo(e, w) BY <1>1
  <2> QED BY <2>1, <1>1, FringeHeld
<1>4. ASSUME crossing # {} PROVE held[w] = G!Min({e.weight : e \in crossing})
  <2> DEFINE W == {e.weight : e \in crossing}
  <2>1. held[w] \in W /\ \A x \in W : held[w] <= x BY <1>3, <1>4
  <2>2. W \subseteq Int BY <1>1, GraphEdges
  <2> HIDE DEF W
  <2>3. ASSUME NEW x \in W, \A y \in W : x <= y PROVE x = held[w]
    <3>1. x <= held[w] /\ held[w] <= x /\ x \in Int /\ held[w] \in Int BY <2>1, <2>2, <2>3
    <3> QED BY <3>1
  <2>4. held[w] = G!Min(W) BY <2>1, <2>3 DEF G!Min
  <2> QED BY <2>4 DEF W
<1> QED BY <1>2, <1>3, <1>4

(* What Kruskal's, Boruvka's and Prim's algorithms choose is in the end part
   of a minimum spanning forest, whichever graph they are given: equal weights,
   self-loops, parallel edges and the stale entries of closest included. *)
THEOREM ForestsAreMinimal == MCSpec => []ForestsSound
<1>1. ForestsInv => ForestsSound
  <2> SUFFICES ASSUME ForestsInv PROVE ForestsSound
    OBVIOUS
  <2>1. GraphRight /\ UnionInv /\ PrimInv BY DEF ForestsInv
  <2>2. F!RootsAreTrees /\ G!HeapIsFringe BY <2>1, RootsRight, FringeIsHeap
  <2>3. PartOfMinimum(Forest, AllEdges)
    <3>1. AllEdges = E BY UnionTerms DEF AllEdges
    <3> QED BY <3>1, <2>1 DEF Forest, UnionInv, PrimInv
  <2> QED BY <2>2, <2>3 DEF ForestsSound
<1> QED BY <1>1, ForestsInvariance, PTL

(* The forest that Kruskal's and both of Prim's algorithms return spans the
   graph, and ewgraph_edges_get lists every edge once. *)
THEOREM ForestsSpan == MCSpec => []SpansGraph
<1>1. ForestsInv => SpansGraph
  <2> SUFFICES ASSUME ForestsInv, Ended PROVE /\ kind # "boruvka" => SpansAll(Forest, AllEdges)
                                            /\ IsInjective(EdgesGet(adj))
                                            /\ ToSet(EdgesGet(adj)) = AllEdges
    BY DEF SpansGraph
  <2>1. GraphRight /\ UnionInv /\ PrimInv BY DEF ForestsInv
  <2>2. AllEdges = E BY UnionTerms DEF AllEdges
  <2>3. IsInjective(EdgesGet(adj)) /\ ToSet(EdgesGet(adj)) = AllEdges BY <2>1, <2>2, EdgesOnce
  <2>4. CASE kind = "kruskal"
    <3>1. fpc = "done" /\ falg = "kruskal" /\ Forest = ToSet(mst)
      BY <2>4 DEF Ended, Forest, ByUnion, ForestsInv
    <3>2. ASSUME NEW e \in E PROVE Joined(ToSet(mst), e.v, e.w)
      <4>1. Within(fcanon, e) /\ e.v \in Vertices /\ e.w \in Vertices
        BY <2>1, <3>1, GraphEdges DEF UnionInv, Greedy
      <4> QED BY <2>1, <4>1 DEF UnionInv, TreesRight, Rooted, Within
    <3> QED BY <2>2, <2>3, <3>1, <3>2 DEF SpansAll
  <2>5. CASE kind \notin ByUnion
    <3>1. gpc = "done" /\ Forest = G!Chosen BY <2>5 DEF Ended, Forest
    <3>2. marked = Vertices BY <2>1, <3>1 DEF PrimInv, Phases
    <3>3. \A e \in E : Joined(G!Chosen, e.v, e.w)
      BY <2>1, <3>2, GraphEdges DEF PrimInv, SpreadRight
    <3> QED BY <2>2, <2>3, <3>1, <3>3 DEF SpansAll
  <2> QED BY <2>3, <2>4, <2>5 DEF ByUnion
<1> QED BY <1>1, ForestsInvariance, PTL
-----------------------------------------------------------------------------
(* The indexed heap. *)

HP == INSTANCE IndexPQProofs WITH pc <- hpc, i <- hi, k <- hk, ret <- hret

(* IndexPQProofs extends the module that the run has instantiated. *)
LEMMA QueueNext ==
    /\ H!Init <=> HP!Init
    /\ H!Next <=> HP!Next
    /\ H!vars = HP!vars
<1>1. H!vars = HP!vars BY DEF H!vars, HP!vars
<1>2. H!Init <=> HP!Init BY DEF H!Init, HP!Init, H!Index, HP!Index, H!Absent, HP!Absent, H!Zero, HP!Zero
<1>3. H!Next <=> HP!Next
  BY Zenon DEF
    H!Next, HP!Next, H!Loops, HP!Loops, H!Delete, HP!Delete, H!Clear, HP!Clear, H!Reinit,
    HP!Reinit, H!Remove, HP!Remove, H!Insert, HP!Insert, H!Change, HP!Change, H!Decrkey,
    HP!Decrkey, H!Incrkey, HP!Incrkey, H!Rekey, HP!Rekey, H!Begin, HP!Begin, H!Contains,
    HP!Contains, H!Exch, HP!Exch, H!Above, HP!Above, H!SwimStep, HP!SwimStep, H!SwimParent,
    HP!SwimParent, H!SwimGoesOn, HP!SwimGoesOn, H!SwimReturn, HP!SwimReturn, H!End, HP!End,
    H!SwimThenSink, HP!SwimThenSink, H!SinkChild, HP!SinkChild, H!SinkGoesOn, HP!SinkGoesOn,
    H!SinkStep, HP!SinkStep, H!RekeyEnd, HP!RekeyEnd, H!RemoveEnd, HP!RemoveEnd, H!DeleteEnd,
    HP!DeleteEnd, H!Index, HP!Index, H!Absent, HP!Absent, H!Zero, HP!Zero
<1> QED BY <1>1, <1>2, <1>3

(* Every step of the run is a step of the queue or leaves it alone. *)
LEMMA QueueMoves ==
    /\ MCInit => HP!Init
    /\ [MCNext]_mcvars => [HP!Next]_(HP!vars)
<1>2. ASSUME MCNext PROVE [HP!Next]_(HP!vars)
  <2>1. (kind = "index" /\ H!Next) \/ UNCHANGED hvars BY <1>2 DEF MCNext
  <2>2. UNCHANGED hvars => UNCHANGED HP!vars BY DEF hvars, HP!vars
  <2> QED BY <2>1, <2>2, QueueNext
<1>3. UNCHANGED mcvars => UNCHANGED HP!vars BY DEF mcvars, hvars, HP!vars
<1> QED BY <1>2, <1>3, QueueNext DEF MCInit

(* "inverse of pq, qp[pq[i]] = pq[qp[i]] = i", include/indexpqueue.h, in every
   behaviour of the run, whatever the capacity and the keys. *)
THEOREM QueueArraysInverse == MCSpec => []InverseUnlessStrayed
<1> USE HeapAssumption
<1>1. MCInit => HP!ArraysSound BY QueueMoves, HP!InitSound
<1>2. HP!ArraysSound /\ [MCNext]_mcvars => HP!ArraysSound' BY QueueMoves, HP!NextSound
<1>3. HP!ArraysSound => InverseUnlessStrayed
  <2> SUFFICES ASSUME HP!ArraysSound, ~strayed, hpc = "idle"
               PROVE  H!Matches(pq, qp, size)
    BY DEF InverseUnlessStrayed, H!InverseUnlessStrayed, H!InverseArrays
  <2>1. HP!Matches(pq, qp, size) BY HP!SoundTypes DEF HP!ArraysSound
  <2> QED BY <2>1 DEF H!Matches, HP!Matches, H!Index, HP!Index, H!Absent, HP!Absent
<1> QED BY <1>1, <1>2, <1>3, PTL DEF MCSpec

LEMMA QueueKeysStep == HP!KeysStep => H!KeysStep
BY Zenon DEF
    HP!KeysStep, H!KeysStep, HP!Contents, H!Contents, HP!Absent, H!Absent, HP!Index, H!Index,
    HP!Zero, H!Zero, HP!Held!ivars, H!Held!ivars, HP!Held!Delete, H!Held!Delete,
    HP!Held!Remove, H!Held!Remove, HP!Held!Clear, H!Held!Clear, HP!Held!Insert,
    H!Held!Insert, HP!Held!Change, H!Held!Change,
    H!Clear, HP!Clear, H!Insert, HP!Insert, H!Change, HP!Change, H!Decrkey, HP!Decrkey,
    H!Incrkey, HP!Incrkey, H!Rekey, HP!Rekey, H!Begin, HP!Begin, H!Contains, HP!Contains,
    H!Exch, HP!Exch, H!Above, HP!Above, H!SwimStep, HP!SwimStep, H!SwimParent,
    HP!SwimParent, H!SwimGoesOn, HP!SwimGoesOn, H!SwimReturn, HP!SwimReturn, H!End, HP!End,
    H!SwimThenSink, HP!SwimThenSink, H!SinkChild, HP!SinkChild, H!SinkGoesOn, HP!SinkGoesOn,
    H!SinkStep, HP!SinkStep, H!RekeyEnd, HP!RekeyEnd, H!RemoveEnd, HP!RemoveEnd, H!DeleteEnd,
    HP!DeleteEnd, H!Delete, HP!Delete
-----------------------------------------------------------------------------
(* The plain heap. *)

(* The slots in use hold keys, and k stays among them. *)
PlainInv ==
    /\ heap \in [B!Slots -> PlainKeys \cup {B!Zero}]
    /\ psize \in 0 .. PlainCap
    /\ pcapacity \in {0, PlainCap}
    /\ ppc \in {"idle", "swim", "sink"}
    /\ pret \in PlainKeys \cup {B!Zero}
    /\ IF ppc = "idle" THEN pk = 0 ELSE psize < PlainCap /\ pk \in 0 .. psize
    /\ \A s \in B!InHeap : heap[s] \in PlainKeys

Slot == 0 .. PlainCap - 1
Places(f, S, key) == {s \in S : f[s] = key}

(* g is f with the slots a and b of S exchanged. *)
Swapped(f, g, S, a, b) ==
    /\ IsFiniteSet(S) /\ a \in S /\ b \in S
    /\ \A s \in S : g[s] = IF s = b THEN f[a] ELSE IF s = a THEN f[b] ELSE f[s]

(* To exchange two slots moves keys and loses none. *)
LEMMA ExchCounts ==
  ASSUME NEW f, NEW g, NEW S, NEW a, NEW b, NEW key, Swapped(f, g, S, a, b)
  PROVE  Cardinality(Places(g, S, key)) = Cardinality(Places(f, S, key))
<1> DEFINE turn == [s \in Places(f, S, key) |-> IF s = a THEN b ELSE IF s = b THEN a ELSE s]
<1>1. /\ \A s \in S : g[s] = IF s = b THEN f[a] ELSE IF s = a THEN f[b] ELSE f[s]
      /\ IsFiniteSet(S) /\ a \in S /\ b \in S
  BY DEF Swapped
<1>2. IsFiniteSet(Places(f, S, key)) BY <1>1, FS_Subset DEF Places
<1>3. turn \in Bijection(Places(f, S, key), Places(g, S, key))
  <2>1. turn \in [Places(f, S, key) -> Places(g, S, key)] BY <1>1 DEF Places
  <2>2. \A s, t \in Places(f, S, key) : turn[s] = turn[t] => s = t BY <1>1 DEF Places
  <2>3. ASSUME NEW t \in Places(g, S, key) PROVE \E s \in Places(f, S, key) : turn[s] = t
    <3> DEFINE s == IF t = a THEN b ELSE IF t = b THEN a ELSE t
    <3>1. s \in Places(f, S, key) BY <1>1 DEF Places
    <3>2. turn[s] = t BY <1>1, <3>1
    <3> QED BY <3>1, <3>2
  <2> QED BY <2>1, <2>2, <2>3 DEF Bijection, Injection, Surjection, IsInjective
<1> QED BY <1>2, <1>3, FS_Bijection DEF ExistsBijection

Held == [key \in PlainKeys |-> Cardinality(Places(heap, B!InHeap, key))]

(* BinaryPQ counts as this module does. *)
LEMMA PlainCounts == \A S : B!Cardinality(S) = Cardinality(S)
BY DEF B!Cardinality, Cardinality

LEMMA PlainTerms ==
    /\ B!Slots = Slot
    /\ UNCHANGED <<Held, pret>> => UNCHANGED B!Bag!bvars
    /\ \A key : (B!Bag!Insert(key) <=> Held' = [Held EXCEPT ![key] = @ + 1] /\ pret' = pret)
    /\ \A key : (B!Bag!Delete(key) <=>
           Held[key] > 0 /\ Held' = [Held EXCEPT ![key] = @ - 1] /\ pret' = key)
<1>1. Held = [key \in PlainKeys |-> B!Cardinality({s \in B!InHeap : heap[s] = key})]
  BY PlainCounts DEF Held, Places
<1>2. Held' = [key \in PlainKeys |-> B!Cardinality({s \in B!InHeap : heap[s] = key})]'
  BY PlainCounts DEF Held, Places
<1> HIDE DEF Held
<1> QED
  BY <1>1, <1>2, Zenon DEF B!Slots, Slot, B!Bag!bvars, B!Bag!Insert, B!Bag!Delete, B!InHeap

(* The slots in use are finitely many, so the keys in them can be counted. *)
LEMMA PlainSlots ==
  ASSUME PlainInv
  PROVE  /\ psize \in Nat /\ heap \in [Slot -> PlainKeys \cup {0}]
         /\ B!InHeap = (IF ppc = "swim" THEN 0 .. psize ELSE 0 .. psize - 1)
         /\ IsFiniteSet(B!InHeap) /\ B!InHeap \subseteq Slot
         /\ \A key : IsFiniteSet(Places(heap, B!InHeap, key))
<1> USE HeapAssumption
<1>1. psize \in Nat /\ heap \in [Slot -> PlainKeys \cup {0}] BY PlainTerms DEF PlainInv, B!Zero
<1>2. B!InHeap = (IF ppc = "swim" THEN 0 .. psize ELSE 0 .. psize - 1) BY DEF B!InHeap
<1>3. IsFiniteSet(B!InHeap) BY <1>1, <1>2, FS_Interval
<1>4. B!InHeap \subseteq Slot BY <1>1, <1>2 DEF PlainInv, Slot
<1>5. \A key : IsFiniteSet(Places(heap, B!InHeap, key)) BY <1>3, FS_Subset DEF Places
<1> QED BY <1>1, <1>2, <1>3, <1>4, <1>5

LEMMA PlainStarts == ASSUME B!Init PROVE PlainInv /\ B!Bag!Init
<1> USE HeapAssumption
<1>1. PlainInv BY DEF B!Init, PlainInv, B!InHeap, B!Slots, B!Zero
<1>2. \A key : Places(heap, B!InHeap, key) = {} BY DEF Places, B!Init, B!InHeap
<1>3. Held = [key \in PlainKeys |-> 0] BY <1>2, FS_EmptySet DEF Held
<1>4. [key \in PlainKeys |-> B!Cardinality({s \in B!InHeap : heap[s] = key})]
        = [key \in PlainKeys |-> 0]
  BY <1>3, PlainCounts DEF Held, Places
<1> QED BY <1>1, <1>4 DEF B!Bag!Init, B!Init, B!InHeap

LEMMA PlainInsert ==
  ASSUME PlainInv, NEW key \in PlainKeys, B!Insert(key) PROVE PlainInv' /\ B!Bag!Insert(key)
<1> USE HeapAssumption
<1>1. /\ ppc = "idle" /\ psize < pcapacity /\ heap' = [heap EXCEPT ![psize] = key]
      /\ ppc' = "swim" /\ pk' = psize /\ psize' = psize /\ pcapacity' = pcapacity
      /\ pret' = pret
  BY DEF B!Insert
<1>2. /\ psize \in Slot /\ B!InHeap = 0 .. psize - 1 /\ B!InHeap' = 0 .. psize
      /\ 0 .. psize = (0 .. psize - 1) \cup {psize} /\ psize \notin 0 .. psize - 1
      /\ 0 .. psize \subseteq Slot
  BY <1>1, PlainSlots DEF PlainInv, Slot, B!InHeap
<1>3. \A s \in 0 .. psize : heap'[s] = IF s = psize THEN key ELSE heap[s]
  BY <1>1, <1>2, PlainSlots
<1>4. PlainInv'
  <2>1. heap' \in [Slot -> PlainKeys \cup {0}] BY <1>1, <1>2, PlainSlots
  <2>2. \A s \in B!InHeap' : heap'[s] \in PlainKeys BY <1>2, <1>3 DEF PlainInv
  <2> QED BY <1>1, <1>2, <2>1, <2>2, PlainTerms DEF PlainInv, Slot, B!Slots, B!Zero
<1>5. \A other \in PlainKeys : Held'[other] = IF other = key THEN Held[other] + 1 ELSE Held[other]
  <2> SUFFICES ASSUME NEW other \in PlainKeys
               PROVE  Held'[other] = IF other = key THEN Held[other] + 1 ELSE Held[other]
    OBVIOUS
  <2> DEFINE Had == Places(heap, B!InHeap, other)
  <2>1. Held'[other] = Cardinality(Places(heap', B!InHeap', other)) BY DEF Held
  <2>2. IsFiniteSet(Had) /\ psize \notin Had BY <1>2, PlainSlots DEF Places
  <2>3. CASE other = key
    <3>1. Places(heap', B!InHeap', other) = Had \cup {psize} BY <1>2, <1>3, <2>3 DEF Places
    <3> QED BY <2>1, <2>2, <2>3, <3>1, FS_AddElement DEF Held
  <2>4. CASE other # key
    <3>1. Places(heap', B!InHeap', other) = Had BY <1>2, <1>3, <2>4 DEF Places
    <3> QED BY <2>1, <2>4, <3>1 DEF Held
  <2> QED BY <2>3, <2>4
<1>6. Held' = [Held EXCEPT ![key] = @ + 1] BY <1>5 DEF Held
<1> QED BY <1>1, <1>4, <1>6, PlainTerms

(* swim and sink exchange slots in use. *)
LEMMA PlainExch ==
  ASSUME PlainInv, NEW a \in B!InHeap, NEW b \in B!InHeap, heap' = B!Exch(heap, a, b)
  PROVE  /\ heap' \in [Slot -> PlainKeys \cup {0}]
         /\ \A s \in B!InHeap : heap'[s] \in PlainKeys
         /\ \A s \in Slot : heap'[s] = IF s = b THEN heap[a] ELSE IF s = a THEN heap[b] ELSE heap[s]
         /\ \A key : Cardinality(Places(heap', B!InHeap, key))
                       = Cardinality(Places(heap, B!InHeap, key))
<1>1. a \in Slot /\ b \in Slot /\ heap \in [Slot -> PlainKeys \cup {0}] BY PlainSlots
<1>2. \A s \in Slot : heap'[s] = IF s = b THEN heap[a] ELSE IF s = a THEN heap[b] ELSE heap[s]
  BY <1>1 DEF B!Exch
<1>3. heap' \in [Slot -> PlainKeys \cup {0}] BY <1>1 DEF B!Exch
<1>4. \A s \in B!InHeap : heap'[s] \in PlainKeys BY <1>2, PlainSlots DEF PlainInv
<1>5. Swapped(heap, heap', B!InHeap, a, b) BY <1>2, PlainSlots DEF Swapped
<1>6. \A key : Cardinality(Places(heap', B!InHeap, key)) = Cardinality(Places(heap, B!InHeap, key))
  BY <1>5, ExchCounts
<1> QED BY <1>2, <1>3, <1>4, <1>6

LEMMA PlainSwim == ASSUME PlainInv, B!SwimStep PROVE PlainInv' /\ UNCHANGED B!Bag!bvars
<1> USE HeapAssumption
<1>1. /\ ppc = "swim" /\ pk > 0 /\ pk' = pk \div 2 /\ heap' = B!Exch(heap, pk \div 2, pk)
      /\ psize' = psize /\ pcapacity' = pcapacity /\ ppc' = ppc /\ pret' = pret
  BY DEF B!SwimStep, B!SwimGoesOn, B!SwimParent
<1>2. /\ B!InHeap = 0 .. psize /\ B!InHeap' = B!InHeap
      /\ pk \in 0 .. psize /\ pk \div 2 \in 0 .. psize
  BY <1>1, PlainSlots DEF PlainInv, B!InHeap
<1>3. /\ heap' \in [Slot -> PlainKeys \cup {0}] /\ \A s \in B!InHeap' : heap'[s] \in PlainKeys
      /\ \A key : Cardinality(Places(heap', B!InHeap', key))
                    = Cardinality(Places(heap, B!InHeap, key))
  BY <1>1, <1>2, PlainExch
<1>4. PlainInv' BY <1>1, <1>2, <1>3, PlainTerms DEF PlainInv, Slot, B!Slots, B!Zero
<1>5. Held' = Held BY <1>3 DEF Held
<1> QED BY <1>1, <1>4, <1>5, PlainTerms

LEMMA PlainSink == ASSUME PlainInv, B!SinkStep PROVE PlainInv' /\ UNCHANGED B!Bag!bvars
<1> USE HeapAssumption
<1>1. /\ ppc = "sink" /\ 2 * pk + 1 < psize /\ pk' = B!SinkChild
      /\ heap' = B!Exch(heap, B!SinkChild, pk)
      /\ psize' = psize /\ pcapacity' = pcapacity /\ ppc' = ppc /\ pret' = pret
  BY DEF B!SinkStep, B!SinkGoesOn
<1>2. /\ B!InHeap = 0 .. psize - 1 /\ B!InHeap' = B!InHeap /\ psize < PlainCap
      /\ pk \in 0 .. psize - 1 /\ B!SinkChild \in 0 .. psize - 1
  BY <1>1, PlainSlots DEF PlainInv, B!InHeap, B!SinkChild
<1>3. /\ heap' \in [Slot -> PlainKeys \cup {0}] /\ \A s \in B!InHeap' : heap'[s] \in PlainKeys
      /\ \A key : Cardinality(Places(heap', B!InHeap', key))
                    = Cardinality(Places(heap, B!InHeap, key))
  BY <1>1, <1>2, PlainExch
<1>4. PlainInv' BY <1>1, <1>2, <1>3, PlainTerms DEF PlainInv, Slot, B!Slots, B!Zero
<1>5. Held' = Held BY <1>3 DEF Held
<1> QED BY <1>1, <1>4, <1>5, PlainTerms

(* The end of an insertion counts the key, that of a deletion clears the slot
   behind the heap. *)
LEMMA PlainEnds ==
  ASSUME PlainInv, B!InsertEnd \/ B!DeleteEnd PROVE PlainInv' /\ UNCHANGED B!Bag!bvars
<1> USE HeapAssumption
<1>1. /\ ppc' = "idle" /\ pk' = 0 /\ pcapacity' = pcapacity /\ pret' = pret
      /\ \/ ppc = "swim" /\ psize' = psize + 1 /\ heap' = heap
         \/ ppc = "sink" /\ psize' = psize /\ heap' = [heap EXCEPT ![psize] = 0]
  BY DEF B!InsertEnd, B!DeleteEnd, B!Zero
<1>2. /\ B!InHeap' = B!InHeap /\ psize' \in 0 .. PlainCap
      /\ psize \in Slot /\ psize \notin 0 .. psize - 1
  BY <1>1, PlainSlots DEF PlainInv, B!InHeap, Slot
<1>3. heap' \in [Slot -> PlainKeys \cup {0}] BY <1>1, <1>2, PlainSlots
<1>4. \A s \in B!InHeap : heap'[s] = heap[s]
  <2>1. CASE ppc = "swim" BY <2>1, <1>1
  <2>2. CASE ppc = "sink" BY <2>2, <1>1, <1>2, PlainSlots
  <2> QED BY <2>1, <2>2, <1>1
<1>5. PlainInv' BY <1>1, <1>2, <1>3, <1>4, PlainTerms DEF PlainInv, Slot, B!Slots, B!Zero
<1>6. Held' = Held
  <2>1. \A key : Places(heap', B!InHeap', key) = Places(heap, B!InHeap, key)
    BY <1>2, <1>4 DEF Places
  <2> QED BY <2>1 DEF Held
<1> QED BY <1>1, <1>5, <1>6, PlainTerms

(* The key copied out is the one that leaves. *)
LEMMA PlainDelete == ASSUME PlainInv, B!Delete PROVE PlainInv' /\ B!Bag!Delete(heap[0])
<1> USE HeapAssumption
<1>1. /\ ppc = "idle" /\ psize > 0 /\ pret' = heap[0] /\ heap' = B!Exch(heap, 0, psize - 1)
      /\ psize' = psize - 1 /\ ppc' = "sink" /\ pk' = 0 /\ pcapacity' = pcapacity
  BY DEF B!Delete
<1>2. /\ B!InHeap = 0 .. psize - 1 /\ B!InHeap' = B!InHeap \ {psize - 1}
      /\ 0 \in B!InHeap /\ psize - 1 \in B!InHeap /\ psize <= PlainCap
  BY <1>1, PlainSlots DEF PlainInv, B!InHeap
<1>3. /\ heap' \in [Slot -> PlainKeys \cup {0}] /\ \A s \in B!InHeap : heap'[s] \in PlainKeys
      /\ heap'[psize - 1] = heap[0] /\ heap[0] \in PlainKeys
      /\ \A key : Cardinality(Places(heap', B!InHeap, key))
                    = Cardinality(Places(heap, B!InHeap, key))
  BY <1>1, <1>2, PlainExch, PlainSlots DEF PlainInv
<1>4. PlainInv'
  BY <1>1, <1>2, <1>3, PlainSlots, PlainTerms DEF PlainInv, Slot, B!Slots, B!Zero
<1>5. \A key : IsFiniteSet(Places(heap', B!InHeap, key)) BY PlainSlots, FS_Subset DEF Places
<1>6. ASSUME NEW key \in PlainKeys
      PROVE  /\ Held'[key] = IF key = heap[0] THEN Held[key] - 1 ELSE Held[key]
             /\ key = heap[0] => Held[key] > 0
  <2> DEFINE Had == Places(heap', B!InHeap, key)
  <2>1. Places(heap', B!InHeap', key) = Had \ {psize - 1} BY <1>2 DEF Places
  <2>2. psize - 1 \in Had <=> key = heap[0] BY <1>2, <1>3 DEF Places
  <2>3. Held[key] = Cardinality(Had) /\ Held'[key] = Cardinality(Had \ {psize - 1})
    BY <1>3, <2>1 DEF Held
  <2>4. IsFiniteSet(Had) BY <1>5
  <2> HIDE DEF Had
  <2>5. Cardinality(Had \ {psize - 1}) = IF psize - 1 \in Had THEN Cardinality(Had) - 1 ELSE Cardinality(Had)
    BY <2>4, FS_RemoveElement
  <2>6. key = heap[0] => Had # {} BY <2>2
  <2>7. Cardinality(Had) \in Nat BY <2>4, FS_CardinalityType
  <2>8. key = heap[0] => Cardinality(Had) # 0 BY <2>4, <2>6, FS_EmptySet
  <2> QED BY <2>2, <2>3, <2>5, <2>7, <2>8
<1>7. Held' = [Held EXCEPT ![heap[0]] = @ - 1] BY <1>3, <1>6 DEF Held
<1> QED BY <1>1, <1>3, <1>4, <1>6, <1>7, PlainTerms

LEMMA PlainSteps ==
  ASSUME PlainInv, [MCNext]_mcvars
  PROVE  PlainInv' /\ (kind = "plain" /\ MCNext => B!BagStep)
<1> USE HeapAssumption
<1>1. ASSUME UNCHANGED pvars PROVE PlainInv'
  BY <1>1 DEF pvars, PlainInv, B!InHeap, B!Slots, B!Zero
<1>2. ASSUME B!Clear \/ B!Reinit PROVE PlainInv'
  BY <1>2, PlainSlots DEF B!Clear, B!Reinit, PlainInv, B!InHeap, B!Slots, B!Zero
<1>3. ASSUME B!Next PROVE PlainInv'
  BY <1>2, <1>3, PlainInsert, PlainDelete, PlainSwim, PlainSink, PlainEnds DEF B!Next, B!Loops
<1>4. PlainInv' BY <1>1, <1>3 DEF MCNext, mcvars
<1>5. B!BagStep BY PlainInsert, PlainDelete, PlainSwim, PlainSink, PlainEnds DEF B!BagStep, B!Loops
<1> QED BY <1>4, <1>5

(* No operation of an array heap loses a key, doubles one or moves the key of
   an index to another one, whatever the capacities and the keys: what
   include/indexpqueue.h and heap/binarypq/priorityqueue.c promise of contents. *)
THEOREM HeapsKeepTheirKeys == MCSpec => HeapsKeepKeys
<1> USE HeapAssumption
<1> DEFINE Step == /\ kind = "index" => H!KeysStep
                   /\ kind = "plain" => B!BagStep
           Sound == HP!ArraysSound /\ PlainInv
<1>1. MCInit => Sound /\ H!Held!Init /\ B!Bag!Init
  <2> SUFFICES ASSUME MCInit PROVE Sound /\ H!Held!Init /\ B!Bag!Init
    OBVIOUS
  <2>1. H!Init /\ B!Init BY DEF MCInit
  <2>2. H!Held!Init BY <2>1 DEF H!Init, H!Held!Init, H!Contents
  <2> QED BY <2>1, <2>2, PlainStarts, QueueMoves, HP!InitSound
<1>2. Sound /\ [MCNext]_mcvars => Sound'
  BY QueueMoves, HP!NextSound, PlainSteps
<1>3. Sound /\ [MCNext]_mcvars => [Step]_<<hvars, pvars>>
  <2> SUFFICES ASSUME Sound, MCNext PROVE Step
    BY DEF mcvars
  <2>1. -1 \notin Keys OBVIOUS
  <2>2. H!KeysStep BY <2>1, HP!StepKeepsKeys, QueueKeysStep DEF HP!Absent
  <2>3. kind = "plain" => B!BagStep BY PlainSteps
  <2> QED BY <2>2, <2>3
<1> HIDE DEF Sound, Step
<1>4. MCSpec => H!Held!Init /\ B!Bag!Init /\ [][Step]_<<hvars, pvars>>
  BY <1>1, <1>2, <1>3, PTL DEF MCSpec
<1> QED BY <1>4 DEF HeapsKeepKeys, Step
-----------------------------------------------------------------------------
(* The whole run. *)

LEMMA UnionFindMoves ==
    /\ MCInit => Init /\ Q!Init
    /\ [MCNext]_mcvars => [Next]_vars /\ [Q!Next]_(Q!vars)
<1>1. UNCHANGED qvars => UNCHANGED Q!vars BY DEF qvars, Q!vars
<1>2. ASSUME MCNext PROVE [Next]_vars /\ [Q!Next]_(Q!vars)
  BY <1>1, <1>2 DEF MCNext
<1>3. UNCHANGED mcvars => UNCHANGED vars /\ UNCHANGED Q!vars BY <1>1 DEF mcvars
<1> QED BY <1>2, <1>3 DEF MCInit

(* All that the run keeps, of every structure at once. *)
RunInv == Inv /\ Q!Kept /\ HP!QueueInv /\ PlainInv /\ ForestsInv

LEMMA RunStarts == MCInit => RunInv
<1> USE HeapAssumption, NAssumption
<1> SUFFICES ASSUME MCInit PROVE RunInv
  OBVIOUS
<1>1. Inv BY UnionFindMoves, InitInv
<1>2. Q!Kept BY UnionFindMoves, Q!KeptStarts
<1>3. HP!QueueInv BY QueueMoves, HP!QueueStarts
<1>4. B!Init BY DEF MCInit
<1> QED BY <1>1, <1>2, <1>3, <1>4, PlainStarts, ForestsStart DEF RunInv

LEMMA RunStays == RunInv /\ [MCNext]_mcvars => RunInv'
<1> USE HeapAssumption, NAssumption
<1> SUFFICES ASSUME RunInv, [MCNext]_mcvars PROVE RunInv'
  OBVIOUS
<1> USE DEF RunInv
<1>1. Inv' BY UnionFindMoves, NextInv
<1>2. Q!Kept' BY UnionFindMoves, Q!StepTyped
<1>3. HP!QueueInv' BY QueueMoves, HP!QueueStays
<1>4. PlainInv' BY PlainSteps
<1> QED BY <1>1, <1>2, <1>3, <1>4, ForestsStay

LEMMA ForestTypes == ASSUME GraphRight, UnionInv PROVE F!TypeOK
<1>1. UnionTypes /\ TreesRight BY DEF UnionInv
<1>2. F!Vertices = Vertices /\ F!AllEdges = E BY UnionTerms
<1>3. F!ToSet(edges) \subseteq E /\ F!ToSet(mst) \subseteq E
  BY <1>1 DEF F!ToSet, UnionTypes
<1>4. fcanon \in [Vertices -> Vertices] BY <1>1 DEF TreesRight, Rooted
<1>5. Len(mst) < V
  <2>1. fcanon[0] \in TreeRoots(fcanon) /\ TreeRoots(fcanon) \in SUBSET Vertices
    BY <1>1, <1>4 DEF TreesRight, Rooted, TreeRoots, Vertices
  <2>2. IsFiniteSet(TreeRoots(fcanon)) /\ Cardinality(TreeRoots(fcanon)) \in Nat
    BY <2>1, VerticesFinite, FS_Subset, FS_CardinalityType
  <2>3. Cardinality(TreeRoots(fcanon)) > 0 BY <2>1, <2>2, FS_EmptySet
  <2>4. Len(mst) \in Nat BY <1>1 DEF UnionTypes
  <2> QED BY <1>1, <2>2, <2>3, <2>4 DEF TreesRight
<1> QED BY <1>1, <1>2, <1>3, <1>4, <1>5 DEF F!TypeOK, UnionTypes

LEMMA GrownTypes == ASSUME GraphRight, PrimInv PROVE G!TypeOK
<1>1. PrimTypes /\ Phases BY DEF PrimInv
<1>2. G!ToSet(gmst) \subseteq E /\ G!ToSet(rest) \subseteq E /\ G!ToSet(todo) \subseteq Vertices
  BY <1>1 DEF G!ToSet, PrimTypes
<1> QED BY <1>1, <1>2, PrimTerms DEF G!TypeOK, PrimTypes, Phases

(* No find or relabelling loop, no swim or sink and no scan of an adjacency
   list leaves its array: for every number of elements and vertices, all
   capacities, keys and graphs. *)
THEOREM RunTypes == MCSpec => []MCTypeOK
<1> USE HeapAssumption, NAssumption
<1>1. RunInv => MCTypeOK
  <2> SUFFICES ASSUME RunInv PROVE MCTypeOK
    OBVIOUS
  <2>1. TypeOK BY DEF RunInv, Inv
  <2>2. Q!TypeOK BY Q!KeptTypes DEF RunInv
  <2>3. H!TypeOK
    <3>1. HP!TypeOK BY DEF RunInv, HP!QueueInv
    <3> QED BY <3>1, Zenon DEF HP!TypeOK, H!TypeOK, HP!Index, H!Index, HP!Absent, H!Absent,
                               HP!Zero, H!Zero, HP!Ops, H!Ops
  <2>4. B!TypeOK BY PlainTerms DEF RunInv, PlainInv, B!TypeOK, Slot
  <2>5. F!TypeOK /\ G!TypeOK BY ForestTypes, GrownTypes DEF RunInv, ForestsInv
  <2> QED BY <2>1, <2>2, <2>3, <2>4, <2>5 DEF MCTypeOK
<1> QED BY <1>1, RunStarts, RunStays, PTL DEF MCSpec

(* The partition that the run refines to is the one of the structure in use. *)
LEMMA PartitionTerms ==
    /\ kind = "quick" /\ kind' = "quick" => (Q!P!Next => Partitioned!Next)
    /\ kind # "quick" /\ kind' = kind => (P!Next => Partitioned!Next)
    /\ kind = "quick" /\ kind' = kind /\ UNCHANGED Q!P!pvars => UNCHANGED Partitioned!pvars
    /\ kind # "quick" /\ kind' = kind /\ UNCHANGED P!pvars => UNCHANGED Partitioned!pvars
    /\ kind = "quick" /\ Q!P!Init => Partitioned!Init
    /\ kind # "quick" /\ P!Init => Partitioned!Init
<1>1. ASSUME kind = "quick", Q!P!Init PROVE Partitioned!Init
  BY <1>1 DEF Partitioned!Init, Q!P!Init, Partitioned!Elems, Q!P!Elems, Partitioned!NoCall,
              Q!P!NoCall, Partitioned!Void, Q!P!Void
<1>2. ASSUME kind # "quick", P!Init PROVE Partitioned!Init
  BY <1>2 DEF Partitioned!Init, P!Init, Partitioned!Elems, P!Elems, Partitioned!NoCall,
              P!NoCall, Partitioned!Void, P!Void
<1>3. ASSUME kind = "quick", kind' = kind, UNCHANGED Q!P!pvars PROVE UNCHANGED Partitioned!pvars
  BY <1>3 DEF Partitioned!pvars, Q!P!pvars
<1>4. ASSUME kind # "quick", kind' = kind, UNCHANGED P!pvars PROVE UNCHANGED Partitioned!pvars
  BY <1>4 DEF Partitioned!pvars, P!pvars
<1>5. ASSUME kind = "quick", kind' = "quick", Q!P!Next PROVE Partitioned!Next
  BY <1>5
  DEF Q!P!Next, Q!P!Invoke, Q!P!Exit, Q!P!Find, Q!P!Connected, Q!P!UnionSame, Q!P!UnionMerge,
      Q!P!Answer, Q!P!Valid, Q!P!Merged, Q!P!Calls, Q!P!NoCall, Q!P!Exited, Q!P!Elems,
      Q!P!Indices, Q!P!Ops, Q!P!Void,
      Partitioned!Next, Partitioned!Invoke, Partitioned!Exit, Partitioned!Find,
      Partitioned!Connected, Partitioned!UnionSame, Partitioned!UnionMerge,
      Partitioned!Answer, Partitioned!Valid, Partitioned!Merged, Partitioned!Calls,
      Partitioned!NoCall, Partitioned!Exited, Partitioned!Elems, Partitioned!Indices,
      Partitioned!Ops, Partitioned!Void
<1>6. ASSUME kind # "quick", kind' = kind, P!Next PROVE Partitioned!Next
  BY <1>6
  DEF P!Next, P!Invoke, P!Exit, P!Find, P!Connected, P!UnionSame, P!UnionMerge,
      P!Answer, P!Valid, P!Merged, P!Calls, P!NoCall, P!Exited, P!Elems,
      P!Indices, P!Ops, P!Void,
      Partitioned!Next, Partitioned!Invoke, Partitioned!Exit, Partitioned!Find,
      Partitioned!Connected, Partitioned!UnionSame, Partitioned!UnionMerge,
      Partitioned!Answer, Partitioned!Valid, Partitioned!Merged, Partitioned!Calls,
      Partitioned!NoCall, Partitioned!Exited, Partitioned!Elems, Partitioned!Indices,
      Partitioned!Ops, Partitioned!Void
<1> QED BY <1>1, <1>2, <1>3, <1>4, <1>5, <1>6

(* Every union-find structure of the run implements the partition that the
   headers describe, for every number of elements: a step is a step of the
   partition or leaves it as it is, quick-find's half-relabelled array included. *)
THEOREM RunImplementsPartition == MCSpec => ImplementsPartition
<1> USE HeapAssumption, NAssumption
<1>1. MCInit => Partitioned!Init
  BY UnionFindMoves, PartitionTerms, InitRefines, Q!InitRefines
<1>2. RunInv /\ [MCNext]_mcvars => [Partitioned!Next]_(Partitioned!pvars)
  <2> SUFFICES ASSUME RunInv, [MCNext]_mcvars PROVE [Partitioned!Next]_(Partitioned!pvars)
    OBVIOUS
  <2>1. kind' = kind BY DEF MCNext, mcvars, F!Next
  <2>2. [P!Next]_(P!pvars) BY UnionFindMoves, StepRefines DEF RunInv
  <2>3. [Q!P!Next]_(Q!P!pvars) BY UnionFindMoves, Q!StepRefines DEF RunInv, Q!Kept
  <2> QED BY <2>1, <2>2, <2>3, PartitionTerms
<1> QED BY <1>1, <1>2, RunStarts, RunStays, PTL DEF MCSpec, ImplementsPartition, Partitioned!Spec
=============================================================================
